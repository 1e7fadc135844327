------------------------------- MODULE MCPortal -------------------------------
(***************************************************************************)
(* The portal's identities on small instances, for TLC. Tokens, requests   *)
(* and logins are interchangeable within their kind.                       *)
(***************************************************************************)
EXTENDS Portal, TLC

PortalSymmetry ==
  Permutations(Invites) \cup Permutations(Resets) \cup Permutations(Submits)
    \cup Permutations(Logins)
=============================================================================
