-------------------------- MODULE MCValidatorEpoch --------------------------
(***************************************************************************)
(* ValidatorEpoch for TLC: the validator, two miners, and a key that may   *)
(* take a uid from any of them and has no address that parses.             *)
(***************************************************************************)
EXTENDS ValidatorEpoch

CONSTANTS v, a, b, c

MCKeys == {v, a, b, c}
ThreeUids == {1, 2, 3}
ThreeOwners == [u \in ThreeUids |-> CASE u = 1 -> v [] u = 2 -> a [] u = 3 -> b]
TwoUids == {1, 2}
TwoOwners == [u \in TwoUids |-> IF u = 1 THEN v ELSE a]
=============================================================================
