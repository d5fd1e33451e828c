------------------------------ MODULE MCDeletion ------------------------------
(* PlatformLedger's commands on "shop", with ArgoCD following main, and a  *)
(* few of them for the claim.                                              *)
EXTENDS DeletionClaims, MCLedger

ClaimCommands ==
  { Create("web-service", postgres, FALSE, Shop, FALSE) : postgres \in BOOLEAN }
  \cup {Deploy(1, FALSE, "auto", "v1", "keep"), Delete}
=============================================================================
