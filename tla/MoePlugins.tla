------------------------------ MODULE MoePlugins ------------------------------
(***************************************************************************)
(* One engine process with the MoE plug-ins: import of the plug-ins, the   *)
(* weights of the layers one after the other, the profiling pass, the      *)
(* capture of the CUDA graphs, then forward passes.  A forward pass runs   *)
(* through the layers in order, on one stream.                             *)
(***************************************************************************)
EXTENDS MergedExperts

CONSTANTS
    Environments,   \* environments and checkpoints that are looked at
    ProfileSize,    \* tokens of the profiling pass
    CaptureSizes,   \* tokens of the graphs that are captured
    ServeSizes      \* tokens of the passes that are served

\* The documentation of both plug-ins: never the two in one process.
ASSUME OnePlugin ==
    \A e \in Environments : e.w4a4 \in {"0", "1", "2"} /\ (e.merged => e.w4a4 = "0")
ASSUME ShapesAssumption ==
    /\ {NumLayers, NumExperts, TopK, BlockM, ComboCap, TileM} \subseteq Nat \ {0}
    /\ {RowsPerExpert, HiddenSize} \subseteq Nat \ {0} /\ SampledRows \subseteq Nat
    /\ RowsPerExpert % 256 = 0 /\ HiddenSize % 128 = 0

ASSUME BatchesAssumption == Batches \subseteq Seq(Rows)

expertVars == <<layer, kernel, poolVars, mergedVars>>
passVars == <<phase, at, tokens, batch>>
vars == <<env, host, passVars, expertVars>>

Init ==
    /\ env \in Environments
    /\ host = [class |-> "base", plan |-> "packed", direct |-> TRUE]
    /\ phase = "import"
    /\ layer = [l \in Layers |-> FreshLayer(l)]
    /\ kernel = [l \in Layers |-> FreshKernel]
    /\ at = 0 /\ tokens = 0 /\ batch = NoBatch
    /\ PoolInit
    /\ combos = [l \in Layers |-> <<>>] /\ order = [l \in Layers |-> <<>>]
    /\ compiled = {} /\ late = {} /\ warmed = "no"

-----------------------------------------------------------------------------
(***************************************************************************)
(* install() of both packages.  The native mode also changes the layout    *)
(* that launches are planned for, if b12x still has the function, and      *)
(* turns the direct kernel off.                                            *)
(***************************************************************************)
InstalledClass ==
    IF env.w4a4 \in {"1", "2"} THEN "w4a4" ELSE IF env.merged THEN "merged" ELSE "base"

Install ==
    /\ phase = "import"
    /\ host' = [class |-> InstalledClass,
                plan |-> IF Native /\ env.policyKnown THEN "modelopt" ELSE "packed",
                direct |-> ~ Native]
    /\ phase' = "load"
    /\ at' = 1
    /\ UNCHANGED <<env, tokens, batch, expertVars>>

LoadBase ==
    /\ Class(at) = "base"
    /\ layer' = [layer EXCEPT ![at] = Packed(layer[at], "w31")]
    /\ UNCHANGED <<kernel, poolVars>>

\* process_weights_after_loading of the next layer.
Load ==
    /\ phase = "load"
    /\ \/ LoadMerged
       \/ (LoadW4A4 \/ LoadOverlay \/ LoadBase) /\ UNCHANGED mergedVars
    /\ IF at < NumLayers THEN at' = at + 1 /\ UNCHANGED phase
                         ELSE at' = 0 /\ phase' = "profile"
    /\ UNCHANGED <<env, host, tokens, batch>>

\* An exception while a layer is loaded, or a wrapper made, ends the engine.
LoadFails ==
    /\ \/ phase = "load"
       \/ phase # "stopped" /\ batch.stage = "apply" /\ Class(at) = "overlay"
    /\ Stop
    /\ UNCHANGED <<env, host, kernel, poolVars, mergedVars>>

-----------------------------------------------------------------------------
Begin(m) ==
    /\ at = 0
    /\ at' = 1
    /\ tokens' = m
    /\ batch' = [NoBatch EXCEPT !.stage = "apply"]
    /\ UNCHANGED <<env, host, phase, expertVars>>

Profile == phase = "profile" /\ Begin(ProfileSize)
Capture == phase = "capture" /\ \E m \in CaptureSizes : Begin(m)
Serve == phase = "serve" /\ \E m \in ServeSizes : Begin(m)

Captured ==
    /\ phase = "capture" /\ at = 0
    /\ phase' = "serve"
    /\ UNCHANGED <<env, host, at, tokens, batch, expertVars>>

ApplyBase ==
    /\ batch.stage = "apply"
    /\ Class(at) = "base"
    /\ \E ids \in BatchesOf(tokens) : B12xApply(ids, "w31")
    /\ UNCHANGED <<kernel, poolVars>>

Apply ==
    /\ phase # "stopped"
    /\ \/ ApplyMerged \/ Bucket \/ TritonFails \/ Triton
       \/ (ApplyW4A4 \/ EnsureWrapper \/ ApplyOverlay \/ ApplyBase) /\ UNCHANGED mergedVars
    /\ UNCHANGED <<env, host>>

\* The output goes to the next layer; the pass ends after the last.
NextLayer ==
    /\ batch.stage = "answered"
    /\ IF at < NumLayers
       THEN /\ at' = at + 1
            /\ batch' = [NoBatch EXCEPT !.stage = "apply"]
            /\ UNCHANGED <<phase, tokens>>
       ELSE /\ at' = 0 /\ tokens' = 0 /\ batch' = NoBatch
            /\ phase' = IF phase = "profile" THEN "capture" ELSE phase
    /\ UNCHANGED <<env, host, expertVars>>

Step == Install \/ Load \/ LoadFails \/ Apply \/ NextLayer
Next == Step \/ Profile \/ Capture \/ Captured \/ Serve

Spec == Init /\ [][Next]_vars /\ WF_vars(Step)

-----------------------------------------------------------------------------
(***************************************************************************)
(* Properties.                                                             *)
(***************************************************************************)
Outputs == {"packed", "native", "wrong", "none"}
TypeOK ==
    /\ env \in Environments
    /\ host.class \in {"base", "w4a4", "merged"} /\ host.plan \in {"packed", "modelopt"}
    /\ phase \in {"import", "load", "profile", "capture", "serve", "stopped"}
    /\ \A l \in Layers :
         /\ layer[l].w13 \in Orders \cup {"repacked"} /\ layer[l].w2 \in {"loaded", "repacked"}
         /\ layer[l].s13 \in Orders \cup {"released", "split", "folded"}
         /\ layer[l].w4a16 \in Outputs
         /\ kernel[l].wrapper \in 0 .. Len(made)
    /\ at \in 0 .. NumLayers
    /\ batch.stage \in {"idle", "apply", "rows", "answered"}
    /\ batch.merged \subseteq DOMAIN batch.ids
    /\ \A g \in DOMAIN pool : pool[g] \in DOMAIN made
    /\ late \subseteq compiled

(***************************************************************************)
(* Weights on the input are a case that only the W4A16 path knows.  The    *)
(* merged experts and the NVFP4 layers apply them to the output whatever   *)
(* the flag says, and the full mode falls back to weights it has not       *)
(* prepared.                                                               *)
(***************************************************************************)
Supported(l) ==
    env.inputWeights => Class(l) = "base" \/ (Class(l) = "w4a4" /\ ~ Full)

\* Whatever way a batch took, bucket by bucket, through exceptions and
\* fall-backs, each row is the sum over its valid slots, each once and with its
\* own weight, computed from the weights of the checkpoint.  After a fall-back
\* the weights of the layer are repacked, and the merged experts no longer right.
RowsExact ==
    (batch.stage = "answered" /\ Supported(at)
       /\ (batch.via = "merged" => layer[at].w4a16 = "none")) =>
      /\ Len(batch.out) = tokens
      /\ \A i \in 1 .. tokens : batch.out[i] = Exact(batch.ids[i])

\* The header of merged_experts.py (4-6): B12X is out of the way altogether, as its
\* repacking in place would destroy the views.  So whatever has failed before, a
\* batch that is answered from the views gets the rows of the checkpoint.
ViewsOutlastFallBacks ==
    (batch.stage = "answered" /\ batch.via = "merged" /\ Supported(at)) =>
      \A i \in 1 .. tokens : batch.out[i] = Exact(batch.ids[i])

\* Once a layer of the W4A4 plug-in is loaded, its wrapper is given weights and
\* scales that are up-first and intact, and the W4A16 path, if prepared, is
\* told the order the weights are in, though both may share one tensor.
KernelReadsItsOrder ==
    \A l \in Layers : Class(l) = "w4a4" /\ kernel[l].ready /\ Supported(l) =>
      /\ W4A4Right(kernel[l], layer[l])
      /\ layer[l].w4a16 # "none" => W4A16Right(layer[l])

\* The cache of w2 combinations keeps to its capacity, forgets in the cache what
\* it forgets in the order, and gives each set of experts its own weights.
CombosBounded ==
    \A l \in Layers :
      /\ Len(order[l]) <= ComboCap
      /\ IsInjective(order[l])
      /\ DOMAIN combos[l] = ToSet(order[l])
      /\ \A c \in DOMAIN combos[l] : combos[l][c].experts = c

\* After a warm-up that went through, no bucket within the tiers makes a pass
\* wait for a compilation, in whichever layer and with whichever experts.
NoCompileWhileServing ==
    warmed = "done" => \A key \in late : key[1] > TopTier

\* Layers of one geometry share one wrapper, whichever of the two classes asks
\* for it first, and every layer has one of its own geometry.
OneWrapperPerGeometry ==
    /\ env.shared => \A i, j \in DOMAIN made : made[i].geometry = made[j].geometry => i = j
    /\ \A l \in Layers : kernel[l].wrapper # 0 =>
         made[kernel[l].wrapper].geometry = env.geometry[l]

\* Loading and every forward pass come to an end: an answer from each layer, or
\* the end of the engine.
EveryPassEnds == (at # 0) ~> (at = 0 \/ phase = "stopped")
=============================================================================
