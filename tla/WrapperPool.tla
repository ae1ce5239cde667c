----------------------------- MODULE WrapperPool -----------------------------
(***************************************************************************)
(* The pool of B12xMoEWrapper objects that layers of one geometry share.   *)
(* The look-up and the creation are one step: both places of the code take *)
(* the lock of the pool around them.                                       *)
(***************************************************************************)
EXTENDS Integers, Sequences

VARIABLES
    pool,   \* _B12X_WRAPPER_POOL: the wrapper of a geometry
    made    \* every wrapper that was created; a wrapper is its place here

poolVars == <<pool, made>>

PoolInit == pool = <<>> /\ made = <<>>

Create(geometry, cudaGraph) ==
    made' = Append(made, [geometry |-> geometry, cudaGraph |-> cudaGraph])

\* w is the wrapper the caller gets.
OwnWrapper(geometry, cudaGraph, w) ==
    /\ w = Len(made) + 1
    /\ Create(geometry, cudaGraph)
    /\ UNCHANGED pool

\* Mutant: a wrapper is made but not put into the pool.
SharedWrapperForgets(geometry, cudaGraph, w) ==
    \/ /\ geometry \in DOMAIN pool
       /\ w = pool[geometry]
       /\ UNCHANGED poolVars
    \/ /\ geometry \notin DOMAIN pool
       /\ OwnWrapper(geometry, cudaGraph, w)

SharedWrapper(geometry, cudaGraph, w) ==
    \/ /\ geometry \in DOMAIN pool
       /\ w = pool[geometry]
       /\ UNCHANGED poolVars
    \/ /\ geometry \notin DOMAIN pool
       /\ w = Len(made) + 1
       /\ Create(geometry, cudaGraph)
       /\ pool' = [g \in DOMAIN pool \cup {geometry} |->
                     IF g = geometry THEN Len(made) + 1 ELSE pool[g]]

GetWrapper(shared, geometry, cudaGraph, w) ==
    IF shared THEN SharedWrapper(geometry, cudaGraph, w)
              ELSE OwnWrapper(geometry, cudaGraph, w)
=============================================================================
