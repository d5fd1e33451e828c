----------------------------- MODULE ShopCommands -----------------------------
(* The Application "shop" and the commands the MC modules draw from. *)
EXTENDS ApplicationTree

MCAddress == [e \in Environment |-> IF e = "prod" THEN "shop.base" ELSE "shop-staging.base"]

MCSlugOf == [k \in Key |-> CASE k \in {"API_KEY", "api_key"} -> "api-key"
                             [] k = "DB_WRITE" -> "db-write"
                             [] k = "BACKUPS_CREDENTIALS" -> "backups-credentials"]

(* What iidp.yaml declares in the commit each tag was built from. *)
MCTasksOf == [t \in Tag |-> IF t = "v1" THEN "cron" ELSE ""]
MCMigrationOf == [t \in Tag |-> IF t = "v1" THEN "migrate" ELSE ""]

Shop    == [state |-> "complete", id |-> 1, owner |-> "itema", name |-> "itema/shop"]
Renamed == [state |-> "complete", id |-> 1, owner |-> "itema", name |-> "itema/store"]
Other   == [state |-> "complete", id |-> 2, owner |-> "itema", name |-> "itema/other"]
Foreign == [state |-> "complete", id |-> 1, owner |-> "elsewhere", name |-> "elsewhere/shop"]

Create(kind, postgres, staging, repository, previews) ==
  [ op |-> "create", kind |-> kind, size |-> "small", postgres |-> postgres,
    staging |-> staging, domains |-> {}, login |-> FALSE, groups |-> {},
    repository |-> repository, previews |-> previews ]
NothingAdded ==
  [ op |-> "add", postgres |-> FALSE, staging |-> FALSE, domains |-> {}, size |-> "",
    login |-> FALSE, setGroups |-> FALSE, groups |-> {}, previews |-> FALSE ]
AddPostgres == [NothingAdded EXCEPT !.postgres = TRUE]
AddStaging  == [NothingAdded EXCEPT !.staging = TRUE]
AddPreviews == [NothingAdded EXCEPT !.previews = TRUE]
AddDomain(d) == [NothingAdded EXCEPT !.domains = {d}]
AddSize(s)  == [NothingAdded EXCEPT !.size = s]
AddLogin    == [NothingAdded EXCEPT !.login = TRUE]
SetGroups(groups) == [NothingAdded EXCEPT !.setGroups = TRUE, !.groups = groups]
Bind(b, rebind) == [op |-> "bind", repository |-> b, rebind |-> rebind]
Delete == [op |-> "delete"]
Secret(e, k) == [op |-> "secret", environment |-> e, keys |-> {k}]
Access(e, rw, ro) ==
  [op |-> "access", environment |-> e,
   change |-> [r \in Role |-> IF r = "readWrite" THEN rw ELSE ro]]
Deploy(id, promote, environment, tag, migration) ==
  [ op |-> "deploy", id |-> id, promote |-> promote, environment |-> environment,
    tag |-> tag, migration |-> migration, tasks |-> MCTasksOf[tag] ]
=============================================================================
