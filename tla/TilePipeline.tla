---------------------------- MODULE TilePipeline ----------------------------
(***************************************************************************)
(* What a persistent GEMM kernel promises for the tiles of one CTA: they   *)
(* enter the main loop in order and one at a time, leave it in order, have *)
(* the epilogue buffers in order and one at a time, and every slice of a   *)
(* tile that reaches the output does so after the tile was multiplied.     *)
(* The main loop of a tile may run while an earlier one is in the epilogue.*)
(***************************************************************************)
EXTENDS Naturals

VARIABLES
    work,       \* how many tiles this CTA has
    slices,     \* how many epilogue slices a tile has
    entered,    \* how many tiles have entered the main loop
    multiplied, \* how many have left it
    opened,     \* how many have had the epilogue buffers
    closed,     \* how many are through with them
    stored      \* per tile, how many slices are in the output

vars == <<work, slices, entered, multiplied, opened, closed, stored>>

Init ==
    /\ work = 0 /\ slices = 0
    /\ entered = 0 /\ multiplied = 0 /\ opened = 0 /\ closed = 0
    /\ stored = <<>>

\* The host launches the kernel.
Begin ==
    /\ work = 0
    /\ work' \in Nat
    /\ slices' \in Nat
    /\ stored' = [t \in 1 .. work' |-> 0]
    /\ UNCHANGED <<entered, multiplied, opened, closed>>

Enter ==
    /\ entered < work
    /\ entered = multiplied
    /\ entered' = entered + 1
    /\ UNCHANGED <<work, slices, multiplied, opened, closed, stored>>

Multiply ==
    /\ multiplied < entered
    /\ multiplied' = multiplied + 1
    /\ UNCHANGED <<work, slices, entered, opened, closed, stored>>

Open ==
    /\ opened < multiplied
    /\ opened = closed
    /\ opened' = opened + 1
    /\ UNCHANGED <<work, slices, entered, multiplied, closed, stored>>

Close ==
    /\ closed < opened
    /\ closed' = closed + 1
    /\ UNCHANGED <<work, slices, entered, multiplied, opened, stored>>

Store(t) ==
    /\ t <= opened
    /\ stored[t] < slices
    /\ stored' = [stored EXCEPT ![t] = @ + 1]
    /\ UNCHANGED <<work, slices, entered, multiplied, opened, closed>>

Next ==
    \/ Begin \/ Enter \/ Multiply \/ Open \/ Close
    \/ \E t \in DOMAIN stored : Store(t)

Spec == Init /\ [][Next]_vars
=============================================================================
