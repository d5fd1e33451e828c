SPECIFICATION GateSpec
CONSTANTS
  Kind = {"web-service"}
  Size = {"small"}
  Domain = {"shop.base", "shop-staging.base"}
  Address <- MCAddress
  Group = {}
  Tag = {"v1", "v2"}
  Migration = {}
  Tasks = {"cron"}
  Key = {}
  SlugOf <- MCSlugOf
  Repository = {1, 2}
  Owner = {"itema"}
  Name = {"itema/shop", "itema/other"}
  OrgID = "itema"
  Command <- ClaimCommands
  Setting = {}
  Writer = {r1, r2}
  MaxTries = 3
PROPERTY
  RepeatingADeployIsHarmless
