------------------------------ MODULE MCLedger ------------------------------
(* PlatformLedger on one Application, "shop", with a set of commands for   *)
(* each question: the runs differ in the value of Command.                 *)
EXTENDS PlatformLedger, ShopCommands

(* Creating, extending, binding, deleting and creating again. *)
LifecycleCommands ==
  { Create("web-service", FALSE, staging, repository, previews) :
      staging \in BOOLEAN, repository \in {NoBinding, Shop}, previews \in BOOLEAN }
  \cup {AddStaging, AddPreviews, [AddPreviews EXCEPT !.staging = TRUE], Delete}
  \cup {Bind(Shop, FALSE), Secret("prod", "API_KEY")}
  \cup {Deploy(1, FALSE, "auto", "v1", "keep")}

(* Postgres, its credentials, access levels and passwords, and the secrets *)
(* that share the directory: two KEYs of one slug, one of the credentials' *)
(* slug and one of a password's.                                           *)
DatabaseCommands ==
  { Create("web-service", postgres, staging, Shop, staging) :
      postgres \in BOOLEAN, staging \in BOOLEAN }
  \cup {AddPostgres, AddStaging, [AddPostgres EXCEPT !.staging = TRUE], Delete}
  \cup { Access("staging", rw, ro) : rw \in {"", "none", "push"}, ro \in {"none", "pull"} }
  \cup { Access("prod", "push", "pull"), Access("prod", "none", "") }
  \cup { Secret("prod", k) : k \in {"API_KEY", "api_key"} }
  \cup { Secret("staging", k) : k \in {"BACKUPS_CREDENTIALS", "DB_WRITE"} }

ApplicationCommands == LifecycleCommands \cup DatabaseCommands

(* Deploys and promotes from the Application's repository and from others. *)
DeployCommands ==
  { Create(kind, FALSE, staging, Shop, FALSE) : kind \in Kind, staging \in BOOLEAN }
  \cup {AddPostgres, AddStaging, Bind(Foreign, TRUE), Bind(Shop, TRUE),
        Bind(Renamed, FALSE), Delete}
  \cup { Deploy(1, promote, environment, tag, migration) :
           promote \in BOOLEAN, environment \in {"auto", "staging"}, tag \in Tag,
           migration \in {"keep", "", "migrate"} }
  \cup { Deploy(2, FALSE, "auto", "v1", "keep") }

(* The Capabilities that only edit values. *)
CapabilityCommands ==
  { [Create("web-service", FALSE, staging, NoBinding, FALSE) EXCEPT
       !.login = login, !.groups = groups, !.domains = domains] :
      staging \in BOOLEAN, login \in BOOLEAN, groups \in SUBSET Group,
      domains \in {{}, {"shop.example"}} }
  \cup {AddStaging, AddLogin, [AddLogin EXCEPT !.setGroups = TRUE, !.groups = Group]}
  \cup {SetGroups(groups) : groups \in SUBSET Group}
  \cup {AddSize(s) : s \in Size} \cup {AddDomain(d) : d \in Domain}
  \cup {[AddDomain("shop.example") EXCEPT !.size = "large"], Delete}

(* Both at once: what a deploy sets and what add-capability edits are in   *)
(* one values.yaml, and staging is copied from all of it.                  *)
EditCommands == DeployCommands \cup CapabilityCommands
=============================================================================
