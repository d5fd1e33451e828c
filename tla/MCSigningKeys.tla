--------------------------- MODULE MCSigningKeys ---------------------------
(* Two keys, two handlers, and a clock that outlasts the key set.          *)
EXTENDS SigningKeys
=============================================================================
