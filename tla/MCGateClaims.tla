---------------------------- MODULE MCGateClaims ----------------------------
(* GateClaims with two CI runs deploying two tags of one Application. *)
EXTENDS GateClaims, ShopCommands

ClaimCommands ==
  { Create("web-service", FALSE, FALSE, Shop, FALSE),
    Deploy(1, FALSE, "auto", "v1", "keep"), Deploy(1, FALSE, "auto", "v2", "keep") }
=============================================================================
