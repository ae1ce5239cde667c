----------------------------- MODULE B12xExperts -----------------------------
(***************************************************************************)
(* What every MoE layer of the engine has: its weights, the W4A16 path of  *)
(* vLLM's B12xExperts that the plug-ins inherit from and fall back to, and *)
(* the batch it works on.  B12xExperts and b12x are not in the repository; *)
(* they are modelled as the plug-ins use them.                             *)
(*                                                                         *)
(* w13 stacks two matrices.  The loader leaves w1 (gate) before w3 (up),   *)
(* "w31" to b12x; "w13" is the other order.                                *)
(***************************************************************************)
EXTENDS TritonMoe

CONSTANTS
    NumLayers,  \* MoE layers, in the order of the forward pass
    SmallM,     \* tokens up to which b12x would take its direct kernel
    Batches     \* what the router may select, as sequences of rows

VARIABLES
    env,    \* the process environment and the model that is loaded
    host,   \* what the import of the plug-ins has installed
    phase,  \* of the engine
    layer,  \* the tensors of each layer
    at,     \* the layer that is loaded or runs, 0 if none
    tokens, \* M of the forward pass
    batch   \* the call of apply that runs

Layers == 1 .. NumLayers
Orders == {"w31", "w13"}
Swapped(order) == IF order = "w31" THEN "w13" ELSE "w31"

\* Class of a layer's experts: NVFP4 layers have experts of their own.
Class(l) == IF l \in env.nvfp4 THEN "overlay" ELSE host.class

FreshLayer(l) ==
    [w13 |-> "w31", w2 |-> "loaded", w4a16 |-> "none",
     s13 |-> IF l \in env.nvfp4 THEN "split" ELSE "w31"]

(***************************************************************************)
(* The packed prepare of b12x reads weights and scales in the order it is  *)
(* told and overwrites the weights in place.                               *)
(***************************************************************************)
Packed(r, told) ==
    [w13 |-> "repacked", w2 |-> "repacked", s13 |-> "released",
     w4a16 |-> IF r.w13 = told /\ r.s13 = told /\ r.w2 = "loaded"
                 THEN "packed" ELSE "wrong"]

W4A16Right(r) ==
    \/ r.w4a16 = "packed"
    \/ r.w4a16 = "native" /\ r.w13 = "w13" /\ r.w2 = "loaded"

\* The launches are planned for one layout and run with another.
PlanMismatch(r) == r.w4a16 = "native" /\ host.plan # "modelopt"

\* The direct kernel for small batches computes wrong numbers on native weights.
DirectKernel(r, m) == host.direct /\ r.w4a16 = "native" /\ m <= SmallM

-----------------------------------------------------------------------------
NoBatch == [stage |-> "idle", via |-> "none", ids |-> <<>>, out |-> <<>>,
            merged |-> {}, todo |-> {}]

BatchesOf(m) == {b \in Batches : Len(b) = m}

Answered(ids, via, right) ==
    [NoBatch EXCEPT !.stage = "answered", !.via = via, !.ids = ids,
        !.out = [i \in 1 .. Len(ids) |-> IF right THEN Exact(ids[i]) ELSE Garbage]]

Stop == phase' = "stopped" /\ UNCHANGED <<layer, at, tokens, batch>>

(***************************************************************************)
(* B12xExperts.apply.  Weights nobody has prepared are prepared now, which *)
(* the capture of a CUDA graph does not allow.                             *)
(***************************************************************************)
B12xApply(ids, told) ==
    LET r == IF layer[at].w4a16 = "none" THEN Packed(layer[at], told) ELSE layer[at]
    IN IF \/ layer[at].w4a16 = "none" /\ phase = "capture"
          \/ PlanMismatch(r)
       THEN Stop
       ELSE /\ layer' = [layer EXCEPT ![at] = r]
            /\ batch' = Answered(ids, "w4a16",
                          W4A16Right(r) /\ ~ DirectKernel(r, Len(ids)))
            /\ UNCHANGED <<phase, at, tokens>>
=============================================================================
