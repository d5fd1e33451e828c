SPECIFICATION Spec
CONSTANTS
  Kind = {"web-service"}
  Size = {"small"}
  Domain = {"shop.base", "shop-staging.base"}
  Address <- MCAddress
  Group = {}
  Tag = {"v1"}
  Migration = {}
  Tasks = {"cron"}
  Key = {}
  SlugOf <- MCSlugOf
  Repository = {1, 2}
  Owner = {"itema"}
  Name = {"itema/shop", "itema/other"}
  OrgID = "itema"
  Command <- RacingCommands
  Setting = {"ageKey"}
  Writer = {w1, w2}
INVARIANTS
  AnswersAreTrue
  PushesAreCurrent
PROPERTIES
  CommandsReturn
  ImplementsLedger
