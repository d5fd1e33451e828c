---------------------------- MODULE MCAppCreate ----------------------------
(* Two runs that contend for one Application and its repository, and one   *)
(* of another name for the same repository.                                *)
EXTENDS AppCreate

Plain == [path |-> "create", name |-> "shop", repo |-> "shop", framework |-> "nextjs",
          kind |-> "", postgres |-> TRUE, staging |-> TRUE, previews |-> TRUE,
          migration |-> "unset", detected |-> TRUE, workflowScope |-> TRUE, scopesKnown |-> TRUE,
          sops |-> TRUE, writable |-> TRUE, interactive |-> FALSE]
AdoptShop == [Plain EXCEPT !.path = "adopt", !.framework = "", !.staging = FALSE,
                           !.previews = FALSE]
MCOptions ==
  {Plain,
   [Plain EXCEPT !.workflowScope = FALSE],
   [Plain EXCEPT !.workflowScope = FALSE, !.scopesKnown = FALSE],
   [Plain EXCEPT !.sops = FALSE],
   [Plain EXCEPT !.writable = FALSE, !.interactive = TRUE],
   [Plain EXCEPT !.path = "", !.framework = "", !.kind = "static-site",
                 !.postgres = FALSE, !.previews = FALSE],
   [Plain EXCEPT !.framework = "vite-react"],
   AdoptShop,
   [AdoptShop EXCEPT !.name = "cart", !.kind = "static-site", !.postgres = FALSE],
   [AdoptShop EXCEPT !.workflowScope = FALSE, !.postgres = FALSE, !.interactive = TRUE],
   [AdoptShop EXCEPT !.workflowScope = FALSE, !.scopesKnown = FALSE],
   [AdoptShop EXCEPT !.migration = "given", !.kind = "web-service", !.writable = FALSE]}

MCContents ==
  {[NoFiles EXCEPT !.framework = "vite-react", !.tool = TRUE, !.dockerignore = "theirs"],
   [NoFiles EXCEPT !.framework = "nextjs", !.tool = TRUE, !.workflow = "theirs"],
   [NoFiles EXCEPT !.dockerfile = "nginx", !.workflow = "theirs", !.config = "theirs"]}
=============================================================================
