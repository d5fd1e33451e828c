------------------------------- MODULE MCGate -------------------------------
(* DeployGate with two CI runs and one Application. *)
EXTENDS DeployGate, ShopCommands, TLC

Releases ==
  { Deploy(1, FALSE, "auto", "v1", "keep"), Deploy(1, TRUE, "auto", "v2", "keep") }

GateCommands ==
  { Create("web-service", FALSE, FALSE, Shop, FALSE), AddStaging, Bind(Other, TRUE), Delete }
  \cup Releases

(* One developer's command to make the deploys meet a main that moves. *)
FewDeploys ==
  { Create("web-service", FALSE, FALSE, Shop, FALSE), Deploy(1, FALSE, "auto", "v1", "keep") }

(* The CI runs are alike. *)
Alike == Permutations(Writer)
=============================================================================
