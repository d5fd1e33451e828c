----------------------------- MODULE GateClaims -----------------------------
(***************************************************************************)
(* A statement of the repository's documents about deploys that fails when *)
(* an answer is lost between the gate and the CI run that called it.       *)
(***************************************************************************)
EXTENDS DeployGate

(* "repeating a deploy is harmless" (docs/platform-repository.md:482): a   *)
(* CI run that calls again, because the answer to a call that reached main *)
(* was lost, does not deploy a second time.  When another run deployed a   *)
(* newer tag in between, the repeated call puts the older one back.        *)
RepeatingADeployIsHarmless ==
  [][ \A r \in Writer : took[r] => written'[r] <= written[r] ]_allVars
=============================================================================
