---------------------------- MODULE MCSelfRecovery ----------------------------
(* Instances of the recovery chain for TLC. *)
EXTENDS SelfRecovery, TLC

CONSTANTS w1, w2, w3

TwoWorkers   == {w1, w2}
ThreeWorkers == {w1, w2, w3}
===============================================================================
