------------------------------ MODULE MCSupport ------------------------------
(* Instances of Support for TLC.                                           *)
EXTENDS Support, TLC

(* Calls, rows and administrators are interchangeable.                     *)
SupportSymmetry ==
  Permutations(Calls) \cup Permutations(Events) \cup Permutations(Users)
    \cup Permutations(Questions)
=============================================================================
