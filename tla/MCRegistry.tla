----------------------------- MODULE MCRegistry -----------------------------
(* ValidatorRegistry for TLC: two validators, one of them with the name      *)
(* "genesis"; two key pairs.                                                 *)
EXTENDS ValidatorRegistry

MCNames == {NoLeader, 1}
MCKeys == {1, 2}
MCStakes == {-1, 0, 1, 2, 4}
=============================================================================
