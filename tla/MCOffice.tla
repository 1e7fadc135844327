------------------------------- MODULE MCOffice -------------------------------
(***************************************************************************)
(* Who works with a firm and on what, on small instances, for TLC: the     *)
(* portal's accounts, the firm's own users, and its matters. Accounts and  *)
(* users share no row and no lock, and who may not act on a matter is only *)
(* refused, which the model of matters lets happen at any time. So one     *)
(* side moves while the others stay as they began: a property speaks of    *)
(* one side only. Values that are interchangeable on every side are used   *)
(* for all of them, so that one permutation serves the three.              *)
(***************************************************************************)
EXTENDS Portal, Staff, Matters, TLC

VARIABLE side  \* what this behaviour is about

officeVars == <<vars, staffVars, matterVars, side>>

OfficeInit == Init /\ StaffInit /\ MatterInit /\ side \in {"clients", "staff", "matters"}

ClientsMove == side = "clients" /\ Next /\ UNCHANGED <<staffVars, matterVars, side>>
StaffMove   == side = "staff" /\ StaffNext /\ UNCHANGED <<vars, matterVars, side>>
MattersMove == side = "matters" /\ MatterNext /\ UNCHANGED <<vars, staffVars, side>>

OfficeSpec == OfficeInit /\ [][ClientsMove \/ StaffMove \/ MattersMove]_officeVars

OfficeSymmetry ==
  Permutations(Invites) \cup Permutations(Resets) \cup Permutations(Submits)
    \cup Permutations(Logins)

\* Every variable stays in its type.
OfficeTypeOK == TypeOK /\ StaffTypeOK /\ MatterTypeOK
=============================================================================
