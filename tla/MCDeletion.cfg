SPECIFICATION DeletionSpec
CONSTANTS
  Kind = {"web-service", "static-site"}
  Size = {"small", "large"}
  Domain = {"shop.base", "shop-staging.base", "shop.example"}
  Address <- MCAddress
  Group = {"developers"}
  Tag = {"v1", "v2"}
  Migration = {"migrate"}
  Tasks = {"cron"}
  Key = {"API_KEY", "api_key", "DB_WRITE", "BACKUPS_CREDENTIALS"}
  SlugOf <- MCSlugOf
  Repository = {1, 2}
  Owner = {"itema", "elsewhere"}
  Name = {"itema/shop", "itema/store", "itema/other", "elsewhere/shop"}
  OrgID = "itema"
  Command <- ApplicationCommands
  Setting = {"ageKey", "bucket", "credentials"}
INVARIANTS
  PreviewsFollowStaging
  DatabaseFindsItsCredentials
  NamedSecretsExist
  DatabasesCanBeBackedUp
PROPERTIES
  PasswordsMatchLevels
  SecretsSurvive
  DeletionsEnd
