----------------------------- MODULE W4A4Experts -----------------------------
(***************************************************************************)
(* The experts of the W4A4 plug-in (routea_plugin_a1_bprime) and of the    *)
(* wrapper patch (flashinfer_b12x_moe.py).  Both run a B12xMoEWrapper; the *)
(* plug-in sends small batches to the W4A16 path, which it prepares from   *)
(* the same tensors.                                                       *)
(***************************************************************************)
EXTENDS B12xExperts, WrapperPool

CONSTANT W4A4MinM   \* VLLM_MOE_W4A4_MIN_M

VARIABLE kernel     \* attributes of each layer's experts

Full == env.w4a4 = "2"
Native == env.w4a4 = "1" /\ env.native

\* "view" is the layer's own tensor, an order a copy of it.
FreshKernel == [ready |-> FALSE, w13 |-> "none", w2 |-> "none", s13 |-> "none", wrapper |-> 0]
W13Of(k, r) == IF k.w13 = "view" THEN r.w13 ELSE k.w13
W2Of(k, r) == IF k.w2 = "view" THEN r.w2 ELSE k.w2

\* _w13_layout: the order the W4A16 path is told.
W13Layout == IF Native THEN "w13" ELSE "w31"

\* The kernel of the wrapper reads up before gate.
W4A4Right(k, r) ==
    W13Of(k, r) = "w13" /\ k.s13 = "w13" /\ W2Of(k, r) = "loaded"

(***************************************************************************)
(* _derive_w4a4: full and native swap the halves of weights and scales in  *)
(* place and share them; hybrid copies, since the packed prepare will      *)
(* destroy the original.                                                   *)
(***************************************************************************)
SwapHalves(r) == [r EXCEPT !.w13 = Swapped(r.w13), !.s13 = Swapped(r.s13)]

\* Mutant: w2 is used, not cloned.
DerivedKernelSharesW2(r, w) ==
    IF Full \/ Native
    THEN [ready |-> TRUE, w13 |-> "view", w2 |-> "view", s13 |-> Swapped(r.s13), wrapper |-> w]
    ELSE [ready |-> TRUE, w13 |-> Swapped(r.w13), w2 |-> "view", s13 |-> Swapped(r.s13), wrapper |-> w]

DerivedLayer(r) == IF Full \/ Native THEN SwapHalves(r) ELSE r
DerivedKernel(r, w) ==
    IF Full \/ Native
    THEN [ready |-> TRUE, w13 |-> "view", w2 |-> "view", s13 |-> Swapped(r.s13), wrapper |-> w]
    ELSE [ready |-> TRUE, w13 |-> Swapped(r.w13), w2 |-> r.w2, s13 |-> Swapped(r.s13), wrapper |-> w]

\* _prepare_native_w4a16 keeps the weights, then the source scales are released.
NativePrepared(r) ==
    [r EXCEPT !.w4a16 = IF r.w13 = "w13" /\ r.s13 = "w13" THEN "native" ELSE "wrong",
              !.s13 = "released"]

Prepared(r) ==
    IF Full THEN r ELSE IF Native THEN NativePrepared(r) ELSE Packed(r, W13Layout)

LoadW4A4 ==
    /\ Class(at) = "w4a4"
    /\ \E w \in 1 .. Len(made) + 1 :
         /\ GetWrapper(env.shared, env.geometry[at], env.cg, w)
         /\ layer' = [layer EXCEPT ![at] = Prepared(DerivedLayer(layer[at]))]
         /\ kernel' = [kernel EXCEPT ![at] = DerivedKernel(layer[at], w)]

\* _use_w4a4, and the wrapper does not weight its input.
UseW4A4(m) ==
    /\ kernel[at].ready
    /\ Full \/ m >= W4A4MinM
    /\ ~ env.inputWeights

ApplyW4A4 ==
    /\ batch.stage = "apply"
    /\ Class(at) = "w4a4"
    /\ \E ids \in BatchesOf(tokens) :
         IF UseW4A4(tokens)
         THEN /\ batch' = Answered(ids, "w4a4", W4A4Right(kernel[at], layer[at]))
              /\ UNCHANGED <<phase, layer, at, tokens>>
         ELSE B12xApply(ids, W13Layout)
    /\ UNCHANGED <<kernel, poolVars>>

-----------------------------------------------------------------------------
\* FlashInferB12xExperts folds the scale of the expert into the block scales
\* and lays them out for the kernel.
FoldScales(r) == [r EXCEPT !.s13 = "folded"]

LoadOverlay ==
    /\ Class(at) = "overlay"
    /\ layer' = [layer EXCEPT ![at] = FoldScales(layer[at])]
    /\ kernel' = [kernel EXCEPT ![at].ready = TRUE, ![at].s13 = FoldScales(layer[at]).s13]
    /\ UNCHANGED poolVars

\* _ensure_wrapper, on the first call; the next step runs the wrapper.
EnsureWrapper ==
    /\ batch.stage = "apply"
    /\ Class(at) = "overlay"
    /\ kernel[at].wrapper = 0
    /\ \E w \in 1 .. Len(made) + 1 :
         /\ GetWrapper(env.shared, env.geometry[at], TRUE, w)
         /\ kernel' = [kernel EXCEPT ![at].wrapper = w]
    /\ UNCHANGED <<phase, layer, at, tokens, batch>>

\* apply never looks at apply_router_weight_on_input, and the wrapper can only
\* weight the output.
ApplyOverlay ==
    /\ batch.stage = "apply"
    /\ Class(at) = "overlay"
    /\ kernel[at].wrapper # 0
    /\ \E ids \in BatchesOf(tokens) :
         batch' = Answered(ids, "w4a4", kernel[at].s13 = "folded" /\ ~ env.inputWeights)
    /\ UNCHANGED <<phase, layer, at, tokens, kernel, poolVars>>
=============================================================================
