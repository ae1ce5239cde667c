--------------------------- MODULE MoePluginsProofs ---------------------------
(***************************************************************************)
(* The invariants of the engine with its plug-ins for any number of        *)
(* layers, experts and environments, any batches and any sizes.            *)
(***************************************************************************)
EXTENDS MoePlugins, SequenceTheorems, FiniteSetTheorems, WellFoundedInduction, TLAPS

Phases == {"import", "load", "profile", "capture", "serve", "stopped"}
Stages == {"idle", "apply", "rows", "answered"}
W13States == Orders \cup {"repacked"}
W2States == {"loaded", "repacked"}
ScaleStates == Orders \cup {"released", "split", "folded"}

LayerRecord == [w13 : W13States, w2 : W2States, w4a16 : Outputs, s13 : ScaleStates]
KernelRecord ==
    [ready : BOOLEAN, w13 : W13States \cup {"none", "view"}, w2 : W2States \cup {"none", "view"},
     s13 : ScaleStates \cup {"none"}, wrapper : Nat]
IsBatch(b) ==
    b \in [stage : Stages, via : {b.via}, ids : Seq(Rows), out : {b.out},
           merged : SUBSET DOMAIN b.ids, todo : {b.todo}]

Wrapper == [geometry : {env.geometry[l] : l \in Layers}, cudaGraph : {env.cg, TRUE}]

\* A pooled wrapper has the geometry it is found by; with sharing on, every
\* wrapper there is has been put into the pool.
PoolShape ==
    /\ made \in Seq(Wrapper)
    /\ \A g \in DOMAIN pool : pool[g] \in 1 .. Len(made) /\ made[pool[g]].geometry = g
    /\ env.shared => \A i \in 1 .. Len(made) :
         made[i].geometry \in DOMAIN pool /\ pool[made[i].geometry] = i

Types ==
    /\ env \in Environments
    /\ host \in [class : {"base", "w4a4", "merged"}, plan : {"packed", "modelopt"}, direct : BOOLEAN]
    /\ phase \in Phases
    /\ layer \in [Layers -> LayerRecord]
    /\ kernel \in [Layers -> KernelRecord]
    /\ at \in 0 .. NumLayers
    /\ IsBatch(batch)
    /\ late \subseteq compiled
    /\ PoolShape

\* Where the engine is: before the layers, at a layer that loads, or in a pass.
Control ==
    /\ phase = "import" =>
         /\ batch.stage = "idle"
         /\ layer = [l \in Layers |-> FreshLayer(l)]
         /\ kernel = [l \in Layers |-> FreshKernel]
    /\ phase = "load" => at # 0 /\ batch.stage = "idle"
    /\ batch.stage # "idle" => at # 0
    /\ batch.stage = "rows" => host.class = "merged"

TypeInv == Types /\ Control

-----------------------------------------------------------------------------
\* A fresh layer and fresh experts have their types.
LEMMA FreshTypes ==
    /\ \A l \in Layers : FreshLayer(l) \in LayerRecord
    /\ FreshKernel \in KernelRecord
    /\ IsBatch(NoBatch)
<1>1. \A l \in Layers : FreshLayer(l) \in LayerRecord
  BY DEF FreshLayer, LayerRecord, W13States, W2States, ScaleStates, Outputs, Orders
<1>2. FreshKernel \in KernelRecord
  BY DEF FreshKernel, KernelRecord
<1>3. <<>> \in Seq(Rows)
  OBVIOUS
<1>4. IsBatch(NoBatch)
  BY <1>3 DEF IsBatch, NoBatch, Stages
<1>5. QED
  BY <1>1, <1>2, <1>4

\* What loading makes of a layer keeps its type.
LEMMA LayerOperators ==
    ASSUME NEW r \in LayerRecord, NEW told
    PROVE  /\ Packed(r, told) \in LayerRecord
           /\ DerivedLayer(r) \in LayerRecord
           /\ Prepared(r) \in LayerRecord
           /\ FoldScales(r) \in LayerRecord
<1> USE DEF LayerRecord, W13States, W2States, ScaleStates, Outputs, Orders
<1>1. \A t : Packed(r, t) \in LayerRecord
  BY DEF Packed
<1>2. DerivedLayer(r) \in LayerRecord
  BY DEF DerivedLayer, SwapHalves, Swapped
<1>3. NativePrepared(r) \in LayerRecord
  BY DEF NativePrepared
<1>4. Prepared(r) \in LayerRecord
  BY <1>1, <1>3 DEF Prepared
<1>5. FoldScales(r) \in LayerRecord
  BY DEF FoldScales
<1>6. QED
  BY <1>1, <1>2, <1>4, <1>5

\* A batch that is answered keeps its rows.
LEMMA AnsweredType ==
    ASSUME NEW ids \in Seq(Rows), NEW via, NEW right
    PROVE  IsBatch(Answered(ids, via, right)) /\ Answered(ids, via, right).stage = "answered"
  BY DEF Answered, IsBatch, NoBatch, Stages

\* The batches of a size are rows of ids.
LEMMA BatchesTyped == \A mm, ids : ids \in BatchesOf(mm) => ids \in Seq(Rows)
  BY BatchesAssumption DEF BatchesOf

\* The base class answers or stops the engine; it touches no layer but its own,
\* and that only if nobody has prepared it.
LEMMA B12xEffect ==
    ASSUME Types, at \in Layers, NEW ids \in Seq(Rows), NEW told, B12xApply(ids, told)
    PROVE  /\ layer' \in [Layers -> LayerRecord]
           /\ \A l \in Layers : l # at \/ layer[l].w4a16 # "none" => layer'[l] = layer[l]
           /\ at' = at
           /\ \/ phase' = "stopped" /\ batch' = batch
              \/ phase' = phase /\ IsBatch(batch') /\ batch'.stage = "answered"
<1> DEFINE r == IF layer[at].w4a16 = "none" THEN Packed(layer[at], told) ELSE layer[at]
<1>1. layer[at] \in LayerRecord /\ r \in LayerRecord
  BY LayerOperators DEF Types
<1>2. CASE Stop
  BY <1>2 DEF Stop, Types
<1>3. CASE /\ layer' = [layer EXCEPT ![at] = r]
           /\ batch' = Answered(ids, "w4a16", W4A16Right(r) /\ ~ DirectKernel(r, Len(ids)))
           /\ UNCHANGED <<phase, at, tokens>>
  <2>1. layer' \in [Layers -> LayerRecord]
    BY <1>1, <1>3 DEF Types
  <2>2. \A l \in Layers : l # at \/ layer[l].w4a16 # "none" => layer'[l] = layer[l]
    BY <1>1, <1>3 DEF Types
  <2>3. IsBatch(batch') /\ batch'.stage = "answered"
    BY <1>3, AnsweredType
  <2>4. QED
    BY <1>3, <2>1, <2>2, <2>3
<1>4. QED
  BY <1>2, <1>3 DEF B12xApply

\* Whoever asks for a wrapper gets one of the geometry asked for, and nobody's
\* wrapper becomes another one.
LEMMA PoolEffect ==
    ASSUME PoolShape, env' = env, NEW l \in Layers, NEW cg \in {env.cg, TRUE}, NEW w,
           GetWrapper(env.shared, env.geometry[l], cg, w)
    PROVE  /\ PoolShape'
           /\ w \in 1 .. Len(made') /\ made'[w].geometry = env.geometry[l]
           /\ Len(made') >= Len(made)
           /\ \A i \in 1 .. Len(made) : made'[i] = made[i]
<1> DEFINE g == env.geometry[l]
           new == [geometry |-> g, cudaGraph |-> cg]
<1>1. new \in Wrapper /\ new.geometry = g /\ Len(made) \in Nat
  <2>1. g \in {env.geometry[k] : k \in Layers}
    OBVIOUS
  <2>2. new \in Wrapper /\ new.geometry = g
    BY <2>1 DEF Wrapper
  <2>3. Len(made) \in Nat
    BY DEF PoolShape
  <2>4. QED
    BY <2>2, <2>3
<1>2. Wrapper' = Wrapper
  BY DEF Wrapper, Layers
<1> HIDE DEF new
<1>3. ASSUME made' = Append(made, new)
      PROVE  /\ made' \in Seq(Wrapper) /\ Len(made') = Len(made) + 1
             /\ \A i \in 1 .. Len(made) : made'[i] = made[i]
             /\ made'[Len(made) + 1] = new
  BY <1>1, <1>3 DEF PoolShape
<1>4. CASE env.shared /\ g \in DOMAIN pool
  <2>1. w = pool[g] /\ UNCHANGED <<pool, made>>
    BY <1>4 DEF GetWrapper, SharedWrapper, poolVars
  <2>2. QED
    BY <2>1, <1>1, <1>2, <1>4 DEF PoolShape
<1>5. CASE env.shared /\ g \notin DOMAIN pool
  <2>1. /\ w = Len(made) + 1 /\ made' = Append(made, new)
        /\ pool' = [h \in DOMAIN pool \cup {g} |-> IF h = g THEN Len(made) + 1 ELSE pool[h]]
    BY <1>5 DEF GetWrapper, SharedWrapper, poolVars, Create, new
  <2>2. \A h \in DOMAIN pool' :
          pool'[h] \in 1 .. Len(made') /\ made'[pool'[h]].geometry = h
    BY <2>1, <1>1, <1>3 DEF PoolShape
  <2>3. \A i \in 1 .. Len(made') :
          made'[i].geometry \in DOMAIN pool' /\ pool'[made'[i].geometry] = i
    <3>1. \A i \in 1 .. Len(made) :
            made'[i].geometry \in DOMAIN pool /\ pool[made'[i].geometry] = i
      BY <2>1, <1>3, <1>5 DEF PoolShape
    <3>2. made'[Len(made) + 1].geometry = g
      BY <2>1, <1>1, <1>3
    <3>3. QED
      BY <3>1, <3>2, <2>1, <1>1, <1>3, <1>5
  <2>4. made' \in Seq(Wrapper')
    BY <2>1, <1>2, <1>3
  <2>5. PoolShape'
    BY <2>2, <2>3, <2>4 DEF PoolShape
  <2>6. QED
    BY <2>1, <2>5, <1>1, <1>3
<1>6. CASE ~ env.shared
  <2>1. w = Len(made) + 1 /\ made' = Append(made, new) /\ pool' = pool
    BY <1>6 DEF GetWrapper, OwnWrapper, Create, new
  <2>2. made' \in Seq(Wrapper')
    BY <2>1, <1>2, <1>3
  <2>3. \A h \in DOMAIN pool : pool[h] \in 1 .. Len(made') /\ made'[pool[h]].geometry = h
    BY <2>1, <1>1, <1>3 DEF PoolShape
  <2>4. PoolShape'
    BY <2>1, <2>2, <2>3, <1>6 DEF PoolShape
  <2>5. QED
    BY <2>1, <2>4, <1>1, <1>3
<1>7. QED
  BY <1>4, <1>5, <1>6

-----------------------------------------------------------------------------
\* Before the plug-ins are imported everything is as the loader left it.
LEMMA TypeInit == Init => TypeInv
<1> SUFFICES ASSUME Init PROVE TypeInv
  OBVIOUS
<1>1. layer \in [Layers -> LayerRecord] /\ kernel \in [Layers -> KernelRecord] /\ IsBatch(batch)
  BY FreshTypes DEF Init
<1>2. PoolShape
  BY DEF Init, PoolInit, PoolShape
<1>3. at \in 0 .. NumLayers
  BY ShapesAssumption DEF Init
<1>4. Types
  BY <1>1, <1>2, <1>3 DEF Init, Types, Phases
<1>5. Control
  BY DEF Init, Control, NoBatch
<1>6. QED
  BY <1>4, <1>5 DEF TypeInv

\* A pool nobody touches keeps its shape.
LEMMA PoolUntouched ==
    ASSUME PoolShape, env' = env, UNCHANGED poolVars
    PROVE  PoolShape'
<1>1. Wrapper' = Wrapper
  BY DEF Wrapper, Layers
<1>2. QED
  BY <1>1 DEF PoolShape, poolVars

\* The kernel of the W4A4 plug-in has its type.
LEMMA DerivedKernelType ==
    ASSUME NEW r \in LayerRecord, NEW w \in Nat
    PROVE  DerivedKernel(r, w) \in KernelRecord
<1>1. Swapped(r.s13) \in Orders /\ Swapped(r.w13) \in Orders /\ r.w2 \in W2States
  BY DEF LayerRecord, Swapped, Orders
<1>2. QED
  BY <1>1 DEF DerivedKernel, KernelRecord, W13States, W2States, ScaleStates, Orders

-----------------------------------------------------------------------------
\* What a step within apply has to keep.
LEMMA ApplyFrame ==
    ASSUME TypeInv, batch.stage # "idle", env' = env, host' = host,
           layer' \in [Layers -> LayerRecord], kernel' \in [Layers -> KernelRecord],
           at' = at, IsBatch(batch'), PoolShape', late' \subseteq compiled',
           phase' \in {phase, "stopped"},
           batch'.stage = "rows" => host.class = "merged"
    PROVE  TypeInv'
<1>1. Types'
  BY DEF TypeInv, Types, Phases, Layers, LayerRecord, KernelRecord, IsBatch,
         W13States, W2States, ScaleStates, Outputs, Orders, Stages
<1>2. Control'
  BY DEF TypeInv, Control
<1>3. QED
  BY <1>1, <1>2 DEF TypeInv

\* Every way through apply keeps the types.
LEMMA ApplyTypes == ASSUME TypeInv, Apply PROVE TypeInv'
<1>1. /\ env' = env /\ host' = host /\ Types /\ PoolShape /\ late \subseteq compiled
      /\ layer \in [Layers -> LayerRecord] /\ kernel \in [Layers -> KernelRecord]
      /\ IsBatch(batch)
  BY DEF Apply, TypeInv, Types
<1>2. batch.stage # "idle" => at \in Layers
  BY ShapesAssumption DEF TypeInv, Types, Control, Layers
<1>3. ASSUME UNCHANGED poolVars PROVE PoolShape'
  BY <1>1, <1>3, PoolUntouched
<1>4. ASSUME NEW ids \in Seq(Rows), NEW told, B12xApply(ids, told),
             batch.stage # "idle", UNCHANGED <<kernel, poolVars, mergedVars>>
      PROVE  TypeInv'
  <2>1. /\ layer' \in [Layers -> LayerRecord] /\ at' = at
        /\ \/ phase' = "stopped" /\ batch' = batch
           \/ phase' = phase /\ IsBatch(batch') /\ batch'.stage = "answered"
    BY <1>1, <1>2, <1>4, B12xEffect
  <2>2. IsBatch(batch') /\ (batch'.stage = "rows" => batch.stage = "rows")
    <3>1. CASE batch' = batch
      BY <3>1, <1>1
    <3>2. CASE batch'.stage = "answered" /\ IsBatch(batch')
      BY <3>2
    <3>3. QED
      BY <2>1, <3>1, <3>2
  <2>3. batch'.stage = "rows" => host.class = "merged"
    BY <2>2 DEF TypeInv, Control
  <2>4. kernel' = kernel /\ late' = late /\ compiled' = compiled /\ PoolShape'
    BY <1>3, <1>4 DEF mergedVars
  <2>5. QED
    BY <1>1, <1>4, <2>1, <2>2, <2>3, <2>4, ApplyFrame
<1>5. CASE ApplyMerged
  <2>1. PICK ids \in BatchesOf(tokens) :
          IF ~ kernel[at].ready \/ env.expertMap THEN B12xApply(ids, "w31")
          ELSE IF UseMerged(tokens) /\ phase = "capture" THEN Stop
          ELSE /\ batch' = [NoBatch EXCEPT
                    !.stage = "rows", !.ids = ids,
                    !.out = [i \in 1 .. tokens |-> Garbage],
                    !.todo = IF UseMerged(tokens) THEN LargeBuckets(ids) ELSE {}]
               /\ UNCHANGED <<phase, layer, at, tokens>>
    BY <1>5 DEF ApplyMerged
  <2>2. /\ batch.stage = "apply" /\ host.class = "merged" /\ ids \in Seq(Rows)
        /\ UNCHANGED <<kernel, poolVars, mergedVars>>
    BY <1>5, BatchesTyped DEF ApplyMerged, Class
  <2>3. kernel' = kernel /\ late' = late /\ compiled' = compiled /\ PoolShape'
    BY <1>3, <2>2 DEF mergedVars
  <2>4. CASE B12xApply(ids, "w31")
    BY <1>4, <2>2, <2>4
  <2>5. CASE Stop
    BY <1>1, <2>2, <2>3, <2>5, ApplyFrame DEF Stop
  <2>6. CASE /\ batch' = [NoBatch EXCEPT
                    !.stage = "rows", !.ids = ids,
                    !.out = [i \in 1 .. tokens |-> Garbage],
                    !.todo = IF UseMerged(tokens) THEN LargeBuckets(ids) ELSE {}]
             /\ UNCHANGED <<phase, layer, at, tokens>>
    <3>1. IsBatch(batch')
      BY <2>2, <2>6 DEF IsBatch, NoBatch, Stages
    <3>2. QED
      BY <1>1, <2>2, <2>3, <2>6, <3>1, ApplyFrame
  <2>7. QED
    BY <2>1, <2>4, <2>5, <2>6
<1>6. CASE Bucket
  <2> DEFINE key == Min(batch.todo)
             rows == RowsWith(batch.ids, key)
  <2>1. /\ batch.stage = "rows" /\ host.class = "merged"
        /\ UNCHANGED <<phase, layer, at, tokens, kernel, poolVars, warmed>>
    BY <1>6 DEF Bucket, TypeInv, Control
  <2>2. late' \subseteq compiled'
    <3>1. CASE UNCHANGED <<compiled, late>>
      BY <1>1, <3>1
    <3>2. ASSUME NEW keys, Compiling(keys) PROVE late' \subseteq compiled'
      BY <1>1, <3>2 DEF Compiling
    <3>3. UNCHANGED <<compiled, late>> \/ \E keys : Compiling(keys)
      BY <1>6 DEF Bucket
    <3>4. QED
      BY <3>1, <3>2, <3>3
  <2>3. rows \subseteq DOMAIN batch.ids
    BY <1>1 DEF IsBatch, RowsWith
  <2>4. IsBatch(batch')
    <3>1. \E todo, out, merged : /\ merged \subseteq DOMAIN batch.ids
            /\ batch' = [batch EXCEPT !.todo = todo, !.out = out, !.merged = merged]
      <4> DEFINE written == [i \in DOMAIN batch.out |->
                   IF i \in rows THEN MergedRow(batch.ids[i], SortedIds(batch.ids[Min(rows)]),
                                                Cached(SortedIds(batch.ids[Min(rows)])))
                                 ELSE batch.out[i]]
                 next == [batch EXCEPT !.todo = @ \ {key}]
      <4>1. \/ batch' = next
            \/ batch' = [next EXCEPT !.out = written]
            \/ batch' = [next EXCEPT !.out = written, !.merged = @ \cup rows]
        BY <1>6 DEF Bucket
      <4>2. batch.merged \subseteq DOMAIN batch.ids
        BY <1>1 DEF IsBatch
      <4>3. CASE batch' = next
        <5>1. batch' = [batch EXCEPT !.todo = batch.todo \ {key}, !.out = batch.out,
                                     !.merged = batch.merged]
          BY <4>3, <1>1 DEF IsBatch
        <5>2. QED
          BY <4>2, <5>1
      <4> HIDE DEF written, rows, key
      <4>4. CASE batch' = [next EXCEPT !.out = written]
        <5>1. batch' = [batch EXCEPT !.todo = batch.todo \ {key}, !.out = written,
                                     !.merged = batch.merged]
          BY <4>4, <1>1 DEF IsBatch
        <5>2. QED
          BY <4>2, <5>1
      <4>5. CASE batch' = [next EXCEPT !.out = written, !.merged = @ \cup rows]
        <5>1. batch' = [batch EXCEPT !.todo = batch.todo \ {key}, !.out = written,
                                     !.merged = batch.merged \cup rows]
          BY <4>5, <1>1 DEF IsBatch
        <5>2. QED
          BY <2>3, <4>2, <5>1
      <4>6. QED
        BY <4>1, <4>3, <4>4, <4>5
    <3>2. QED
      BY <1>1, <3>1 DEF IsBatch
  <2>5. batch'.stage = batch.stage
    BY <1>1, <1>6 DEF Bucket, IsBatch
  <2>6. QED
    BY <1>1, <1>3, <2>1, <2>2, <2>4, <2>5, ApplyFrame
<1>7. CASE TritonFails
  <2>1. batch.ids \in Seq(Rows)
    BY <1>1 DEF IsBatch
  <2>2. /\ batch.stage # "idle" /\ B12xApply(batch.ids, "w31")
        /\ UNCHANGED <<kernel, poolVars, mergedVars>>
    BY <1>7 DEF TritonFails
  <2>3. QED
    BY <2>1, <2>2, <1>4
<1>8. CASE Triton
  <2>1. /\ batch.stage = "rows"
        /\ UNCHANGED <<phase, layer, at, tokens, kernel, poolVars, mergedVars>>
    BY <1>8 DEF Triton
  <2>2. IsBatch(batch') /\ batch'.stage = "answered"
    <3>1. \E out : batch' = [batch EXCEPT !.stage = "answered", !.via = "merged", !.out = out]
      BY <1>8 DEF Triton
    <3>2. QED
      BY <1>1, <3>1 DEF IsBatch, Stages
  <2>3. late' = late /\ compiled' = compiled
    BY <2>1 DEF mergedVars
  <2>4. QED
    BY <1>1, <1>3, <2>1, <2>2, <2>3, ApplyFrame
<1>9. CASE ApplyW4A4 /\ UNCHANGED mergedVars
  <2>1. PICK ids \in BatchesOf(tokens) :
          IF UseW4A4(tokens)
          THEN /\ batch' = Answered(ids, "w4a4", W4A4Right(kernel[at], layer[at]))
               /\ UNCHANGED <<phase, layer, at, tokens>>
          ELSE B12xApply(ids, W13Layout)
    BY <1>9 DEF ApplyW4A4
  <2>2. batch.stage = "apply" /\ ids \in Seq(Rows) /\ UNCHANGED <<kernel, poolVars, mergedVars>>
    BY <1>9, BatchesTyped DEF ApplyW4A4
  <2>3. kernel' = kernel /\ late' = late /\ compiled' = compiled /\ PoolShape'
    BY <1>3, <2>2 DEF mergedVars
  <2>4. CASE UseW4A4(tokens)
    <3>1. IsBatch(batch') /\ batch'.stage = "answered"
      BY <2>1, <2>2, <2>4, AnsweredType
    <3>2. QED
      BY <1>1, <2>1, <2>2, <2>3, <2>4, <3>1, ApplyFrame
  <2>5. CASE ~ UseW4A4(tokens)
    BY <1>4, <2>1, <2>2, <2>5
  <2>6. QED
    BY <2>4, <2>5
<1>10. CASE EnsureWrapper /\ UNCHANGED mergedVars
  <2>1. PICK w \in 1 .. Len(made) + 1 :
          /\ GetWrapper(env.shared, env.geometry[at], TRUE, w)
          /\ kernel' = [kernel EXCEPT ![at].wrapper = w]
    BY <1>10 DEF EnsureWrapper
  <2>2. batch.stage = "apply" /\ UNCHANGED <<phase, layer, at, tokens, batch>>
    BY <1>10 DEF EnsureWrapper
  <2>3. at \in Layers /\ w \in Nat
    BY <1>1, <1>2, <2>2 DEF PoolShape
  <2>4. PoolShape'
    BY <1>1, <2>1, <2>3, PoolEffect
  <2>5. kernel' \in [Layers -> KernelRecord]
    <3>1. [kernel[at] EXCEPT !.wrapper = w] \in KernelRecord
      BY <1>1, <2>3 DEF KernelRecord
    <3>2. kernel' = [kernel EXCEPT ![at] = [kernel[at] EXCEPT !.wrapper = w]]
      BY <2>1
    <3>3. QED
      BY <1>1, <3>1, <3>2
  <2>6. late' = late /\ compiled' = compiled
    BY <1>10 DEF mergedVars
  <2>7. QED
    BY <1>1, <2>2, <2>4, <2>5, <2>6, ApplyFrame DEF TypeInv, Control
<1>11. CASE ApplyOverlay /\ UNCHANGED mergedVars
  <2>1. PICK ids \in BatchesOf(tokens) :
          batch' = Answered(ids, "w4a4", kernel[at].s13 = "folded" /\ ~ env.inputWeights)
    BY <1>11 DEF ApplyOverlay
  <2>2. /\ batch.stage = "apply"
        /\ UNCHANGED <<phase, layer, at, tokens, kernel, poolVars, mergedVars>>
    BY <1>11 DEF ApplyOverlay
  <2>3. IsBatch(batch') /\ batch'.stage = "answered"
    BY <2>1, BatchesTyped, AnsweredType
  <2>4. late' = late /\ compiled' = compiled
    BY <2>2 DEF mergedVars
  <2>5. QED
    BY <1>1, <1>3, <2>2, <2>3, <2>4, ApplyFrame
<1>12. CASE ApplyBase /\ UNCHANGED mergedVars
  <2>1. PICK ids \in BatchesOf(tokens) : B12xApply(ids, "w31")
    BY <1>12 DEF ApplyBase
  <2>2. ids \in Seq(Rows) /\ batch.stage # "idle" /\ UNCHANGED <<kernel, poolVars, mergedVars>>
    BY <1>12, BatchesTyped DEF ApplyBase
  <2>3. QED
    BY <2>1, <2>2, <1>4
<1>13. QED
  BY <1>5, <1>6, <1>7, <1>8, <1>9, <1>10, <1>11, <1>12 DEF Apply

\* The import changes the class of the experts, not the layers.
LEMMA InstallTypes == ASSUME TypeInv, Install PROVE TypeInv'
<1>1. /\ phase = "import" /\ phase' = "load" /\ at' = 1
      /\ UNCHANGED <<env, tokens, batch, layer, kernel, poolVars, mergedVars>>
  BY DEF Install, expertVars
<1>2. host' \in [class : {"base", "w4a4", "merged"}, plan : {"packed", "modelopt"}, direct : BOOLEAN]
  BY DEF Install, InstalledClass, Native
<1>3. PoolShape'
  BY <1>1, PoolUntouched DEF TypeInv, Types
<1>4. IsBatch(batch') /\ 1 \in 0 .. NumLayers
  BY <1>1, ShapesAssumption DEF TypeInv, Types
<1>5. Types'
  BY <1>1, <1>2, <1>3, <1>4
     DEF TypeInv, Types, Phases, Layers, LayerRecord, KernelRecord, W13States, W2States,
         ScaleStates, Outputs, Orders, mergedVars
<1>6. Control'
  BY <1>1 DEF TypeInv, Control
<1>7. QED
  BY <1>5, <1>6 DEF TypeInv

\* What loading makes of a layer and its experts keeps the types.
LEMMA LoadTypes == ASSUME TypeInv, Load PROVE TypeInv'
<1>1. /\ phase = "load" /\ UNCHANGED <<env, host, tokens, batch>>
      /\ IF at < NumLayers THEN at' = at + 1 /\ phase' = phase
                           ELSE at' = 0 /\ phase' = "profile"
  BY DEF Load
<1>2. /\ layer \in [Layers -> LayerRecord] /\ kernel \in [Layers -> KernelRecord]
      /\ PoolShape /\ at \in Layers /\ batch.stage = "idle" /\ IsBatch(batch)
      /\ late \subseteq compiled
  BY <1>1, ShapesAssumption DEF TypeInv, Types, Control, Layers
<1>3. layer[at] \in LayerRecord /\ kernel[at] \in KernelRecord
  BY <1>2
<1>4. /\ layer' \in [Layers -> LayerRecord] /\ kernel' \in [Layers -> KernelRecord]
      /\ PoolShape' /\ late' \subseteq compiled'
  <2>1. CASE LoadMerged
    <3>1. [ready |-> TRUE, w13 |-> "view", w2 |-> "view", s13 |-> layer[at].s13, wrapper |-> 0]
            \in KernelRecord
      BY <1>3 DEF KernelRecord, LayerRecord
    <3>2. layer' = layer /\ kernel' \in [Layers -> KernelRecord] /\ UNCHANGED poolVars
      BY <1>2, <2>1, <3>1 DEF LoadMerged
    <3>3. late' = late /\ compiled \subseteq compiled'
      BY <2>1 DEF LoadMerged, Warmup
    <3>4. QED
      BY <1>1, <1>2, <3>2, <3>3, PoolUntouched
  <2>2. CASE LoadW4A4 /\ UNCHANGED mergedVars
    <3>1. PICK w \in 1 .. Len(made) + 1 :
            /\ GetWrapper(env.shared, env.geometry[at], env.cg, w)
            /\ layer' = [layer EXCEPT ![at] = Prepared(DerivedLayer(layer[at]))]
            /\ kernel' = [kernel EXCEPT ![at] = DerivedKernel(layer[at], w)]
      BY <2>2 DEF LoadW4A4
    <3>2. w \in Nat
      BY <1>2, <3>1 DEF PoolShape
    <3>3. DerivedKernel(layer[at], w) \in KernelRecord
      BY <1>3, <3>2, DerivedKernelType
    <3>4. Prepared(DerivedLayer(layer[at])) \in LayerRecord
      BY <1>3, LayerOperators
    <3>5. PoolShape'
      BY <1>1, <1>2, <3>1, PoolEffect
    <3>6. late' = late /\ compiled' = compiled
      BY <2>2 DEF mergedVars
    <3>7. QED
      BY <1>2, <3>1, <3>3, <3>4, <3>5, <3>6
  <2>3. CASE LoadOverlay /\ UNCHANGED mergedVars
    <3>1. FoldScales(layer[at]) \in LayerRecord
      BY <1>3, LayerOperators
    <3>2. [kernel[at] EXCEPT !.ready = TRUE, !.s13 = FoldScales(layer[at]).s13] \in KernelRecord
      BY <1>3, <3>1 DEF KernelRecord, LayerRecord
    <3>3. kernel' = [kernel EXCEPT ![at] =
                      [kernel[at] EXCEPT !.ready = TRUE, !.s13 = FoldScales(layer[at]).s13]]
      BY <1>2, <1>3, <2>3 DEF LoadOverlay, KernelRecord
    <3>4. layer' = [layer EXCEPT ![at] = FoldScales(layer[at])] /\ UNCHANGED poolVars
      BY <2>3 DEF LoadOverlay
    <3>5. late' = late /\ compiled' = compiled
      BY <2>3 DEF mergedVars
    <3>6. QED
      BY <1>1, <1>2, <3>1, <3>2, <3>3, <3>4, <3>5, PoolUntouched
  <2>4. CASE LoadBase /\ UNCHANGED mergedVars
    <3>1. Packed(layer[at], "w31") \in LayerRecord
      BY <1>3, LayerOperators
    <3>2. late' = late /\ compiled' = compiled
      BY <2>4 DEF mergedVars
    <3>3. layer' \in [Layers -> LayerRecord] /\ kernel' = kernel /\ UNCHANGED poolVars
      BY <1>2, <2>4, <3>1 DEF LoadBase
    <3>4. QED
      BY <1>1, <1>2, <3>2, <3>3, PoolUntouched
  <2>5. QED
    BY <2>1, <2>2, <2>3, <2>4 DEF Load
<1>5. at' \in 0 .. NumLayers /\ phase' \in {"load", "profile"} /\ (phase' = "load" => at' # 0)
  BY <1>1, <1>2, ShapesAssumption DEF Layers
<1>6. Types'
  BY <1>1, <1>2, <1>4, <1>5
     DEF TypeInv, Types, Phases, Layers, LayerRecord, KernelRecord, IsBatch, W13States, W2States,
         ScaleStates, Outputs, Orders, Stages
<1>7. Control'
  BY <1>1, <1>2, <1>5 DEF Control
<1>8. QED
  BY <1>6, <1>7 DEF TypeInv

\* The steps between the layers keep the types.
LEMMA PassTypes ==
    ASSUME TypeInv, UNCHANGED <<env, host, expertVars>>,
           at' \in 0 .. NumLayers, phase' \in Phases \ {"import", "load"}, IsBatch(batch'),
           batch'.stage # "idle" => at' # 0, batch'.stage # "rows"
    PROVE  TypeInv'
<1>1. UNCHANGED <<layer, kernel, late, compiled>> /\ UNCHANGED poolVars
  BY DEF expertVars, mergedVars
<1>2. PoolShape'
  BY <1>1, PoolUntouched DEF TypeInv, Types
<1>3. Types'
  BY <1>1, <1>2 DEF TypeInv, Types, Layers
<1>4. Control'
  BY DEF Control
<1>5. QED
  BY <1>3, <1>4 DEF TypeInv

\* So do all steps.
LEMMA TypeNext == ASSUME TypeInv, [Next]_vars PROVE TypeInv'
<1>1. IsBatch(batch) /\ at \in 0 .. NumLayers /\ phase \in Phases
  BY DEF TypeInv, Types
<1>2. IsBatch(NoBatch) /\ NoBatch.stage = "idle"
  BY FreshTypes DEF NoBatch
<1>3. /\ IsBatch([NoBatch EXCEPT !.stage = "apply"])
      /\ [NoBatch EXCEPT !.stage = "apply"].stage = "apply"
  BY <1>2 DEF NoBatch, IsBatch, Stages
<1>4. CASE Install
  BY <1>4, InstallTypes
<1>5. CASE Load
  BY <1>5, LoadTypes
<1>6. CASE LoadFails
  <2>1. /\ UNCHANGED <<env, host, layer, kernel, at, batch, late, compiled>> /\ UNCHANGED poolVars
        /\ phase' = "stopped" /\ phase # "import"
    BY <1>6 DEF LoadFails, Stop, mergedVars, TypeInv, Control
  <2>2. PoolShape'
    BY <2>1, PoolUntouched DEF TypeInv, Types
  <2>3. Types'
    BY <2>1, <2>2 DEF TypeInv, Types, Layers, Phases
  <2>4. Control'
    BY <2>1 DEF TypeInv, Control
  <2>5. QED
    BY <2>3, <2>4 DEF TypeInv
<1>7. CASE Apply
  BY <1>7, ApplyTypes
<1>8. CASE NextLayer
  <2>1. phase \notin {"import", "load"}
    BY <1>8 DEF NextLayer, TypeInv, Control
  <2>2. UNCHANGED <<env, host, expertVars>> /\ phase' \in Phases \ {"import", "load"}
    BY <1>1, <1>8, <2>1 DEF NextLayer, Phases
  <2>3. CASE at < NumLayers
    <3>1. at' = at + 1 /\ batch' = [NoBatch EXCEPT !.stage = "apply"]
      BY <1>8, <2>3 DEF NextLayer
    <3>2. at' \in 0 .. NumLayers /\ at' # 0
      BY <1>1, <2>3, <3>1, ShapesAssumption
    <3>3. QED
      BY <1>3, <2>2, <3>1, <3>2, PassTypes
  <2>4. CASE ~ (at < NumLayers)
    <3>1. at' = 0 /\ batch' = NoBatch
      BY <1>8, <2>4 DEF NextLayer
    <3>2. 0 \in 0 .. NumLayers
      BY ShapesAssumption
    <3>3. QED
      BY <1>2, <2>2, <3>1, <3>2, PassTypes
  <2>5. QED
    BY <2>3, <2>4
<1>9. ASSUME NEW mm, Begin(mm), phase \in {"profile", "capture", "serve"} PROVE TypeInv'
  <2>1. /\ at' = 1 /\ batch' = [NoBatch EXCEPT !.stage = "apply"]
        /\ UNCHANGED <<env, host, phase, expertVars>>
    BY <1>9 DEF Begin
  <2>2. at' \in 0 .. NumLayers /\ at' # 0
    BY <2>1, ShapesAssumption
  <2>3. QED
    BY <1>3, <1>9, <2>1, <2>2, PassTypes DEF Phases
<1>10. CASE Profile \/ Capture \/ Serve
  BY <1>9, <1>10 DEF Profile, Capture, Serve
<1>11. CASE Captured
  <2>1. phase' = "serve" /\ at = 0 /\ UNCHANGED <<env, host, at, tokens, batch, expertVars>>
    BY <1>11 DEF Captured
  <2>2. batch.stage = "idle"
    BY <2>1 DEF TypeInv, Control
  <2>3. IsBatch(batch')
    BY <1>1, <2>1
  <2>4. QED
    BY <1>1, <2>1, <2>2, <2>3, PassTypes DEF Phases
<1>12. CASE UNCHANGED vars
  <2>1. UNCHANGED <<env, host, phase, at, tokens, batch, layer, kernel, late, compiled>>
        /\ UNCHANGED poolVars
    BY <1>12 DEF vars, passVars, expertVars, mergedVars
  <2>2. PoolShape'
    BY <2>1, PoolUntouched DEF TypeInv, Types
  <2>3. Types'
    BY <2>1, <2>2 DEF TypeInv, Types, Layers
  <2>4. Control'
    BY <2>1 DEF TypeInv, Control, FreshLayer, FreshKernel, Layers
  <2>5. QED
    BY <2>3, <2>4 DEF TypeInv
<1>13. QED
  BY <1>4, <1>5, <1>6, <1>7, <1>8, <1>10, <1>11, <1>12 DEF Next, Step

-----------------------------------------------------------------------------
\* For any number of layers and any environments every variable keeps its type,
\* the engine is where its phase says, and the pool has its shape.
THEOREM EngineTypes == Spec => []TypeInv
  BY TypeInit, TypeNext, PTL DEF Spec

-----------------------------------------------------------------------------
(***************************************************************************)
(* The wrappers.                                                           *)
(***************************************************************************)
WrapperInv ==
    \A l \in Layers : kernel[l].wrapper # 0 =>
      /\ kernel[l].wrapper \in 1 .. Len(made)
      /\ made[kernel[l].wrapper].geometry = env.geometry[l]

\* A wrapper that a layer has stays what it is.
LEMMA WrapperNext ==
    ASSUME TypeInv, TypeInv', WrapperInv, [Next]_vars
    PROVE  WrapperInv'
<1>1. /\ kernel \in [Layers -> KernelRecord] /\ PoolShape /\ Len(made) \in Nat
  BY DEF TypeInv, Types, PoolShape
<1>2. env' = env
  BY DEF Next, Step, Install, Load, LoadFails, Apply, NextLayer, Profile, Capture, Serve, Begin,
         Captured, vars
<1>3. ASSUME kernel' = kernel, UNCHANGED poolVars PROVE WrapperInv'
  BY <1>2, <1>3 DEF WrapperInv, poolVars, Layers
<1>4. ASSUME at \in Layers, NEW cg \in {env.cg, TRUE}, NEW w \in 1 .. Len(made) + 1,
             GetWrapper(env.shared, env.geometry[at], cg, w),
             \A l \in Layers : l # at => kernel'[l] = kernel[l],
             kernel'[at].wrapper = w
      PROVE  WrapperInv'
  <2>1. /\ w \in 1 .. Len(made') /\ made'[w].geometry = env.geometry[at]
        /\ Len(made') >= Len(made) /\ \A i \in 1 .. Len(made) : made'[i] = made[i]
    BY <1>1, <1>2, <1>4, PoolEffect
  <2>2. Len(made') \in Nat
    BY DEF TypeInv, Types, PoolShape
  <2>3. SUFFICES ASSUME NEW l \in Layers, kernel'[l].wrapper # 0
                 PROVE  /\ kernel'[l].wrapper \in 1 .. Len(made')
                        /\ made'[kernel'[l].wrapper].geometry = env.geometry[l]
    BY <1>2 DEF WrapperInv, Layers
  <2>4. CASE l = at
    BY <1>4, <2>1, <2>4
  <2>5. CASE l # at
    <3>1. /\ kernel[l].wrapper \in 1 .. Len(made)
          /\ made[kernel[l].wrapper].geometry = env.geometry[l]
          /\ kernel'[l] = kernel[l]
      BY <1>4, <2>3, <2>5 DEF WrapperInv
    <3>2. QED
      BY <3>1, <2>1, <2>2, <1>1
  <2>6. QED
    BY <2>4, <2>5
<1>5. CASE Install
  BY <1>3, <1>5 DEF Install, expertVars
<1>6. CASE Load
  <2>1. at \in Layers
    BY <1>6, ShapesAssumption DEF Load, TypeInv, Types, Control, Layers
  <2>2. CASE LoadMerged
    <3>1. UNCHANGED poolVars /\ kernel'[at].wrapper = 0
          /\ \A l \in Layers : l # at => kernel'[l] = kernel[l]
      BY <1>1, <2>1, <2>2 DEF LoadMerged
    <3>2. QED
      BY <1>2, <2>1, <3>1 DEF WrapperInv, poolVars, Layers
  <2>3. CASE LoadW4A4
    <3>1. PICK w \in 1 .. Len(made) + 1 :
            /\ GetWrapper(env.shared, env.geometry[at], env.cg, w)
            /\ kernel' = [kernel EXCEPT ![at] = DerivedKernel(layer[at], w)]
      BY <2>3 DEF LoadW4A4
    <3>2. DerivedKernel(layer[at], w).wrapper = w
      BY DEF DerivedKernel
    <3>3. kernel'[at].wrapper = w /\ \A l \in Layers : l # at => kernel'[l] = kernel[l]
      BY <1>1, <2>1, <3>1, <3>2
    <3>4. QED
      BY <1>4, <2>1, <3>1, <3>3
  <2>4. CASE LoadOverlay
    <3>1. UNCHANGED poolVars /\ \A l \in Layers : kernel'[l].wrapper = kernel[l].wrapper
      BY <1>1, <2>1, <2>4 DEF LoadOverlay, KernelRecord
    <3>2. QED
      BY <1>2, <3>1 DEF WrapperInv, poolVars, Layers
  <2>5. CASE LoadBase
    BY <1>3, <2>5 DEF LoadBase
  <2>6. QED
    BY <1>6, <2>2, <2>3, <2>4, <2>5 DEF Load
<1>7. CASE LoadFails
  BY <1>3, <1>7 DEF LoadFails
<1>8. CASE Apply
  <2>1. CASE EnsureWrapper
    <3>1. PICK w \in 1 .. Len(made) + 1 :
            /\ GetWrapper(env.shared, env.geometry[at], TRUE, w)
            /\ kernel' = [kernel EXCEPT ![at].wrapper = w]
      BY <2>1 DEF EnsureWrapper
    <3>2. at \in Layers
      BY <2>1, ShapesAssumption DEF EnsureWrapper, TypeInv, Types, Control, Layers
    <3>3. kernel'[at].wrapper = w /\ \A l \in Layers : l # at => kernel'[l] = kernel[l]
      BY <1>1, <3>1, <3>2 DEF KernelRecord
    <3>4. QED
      BY <1>4, <3>1, <3>2, <3>3
  <2>2. CASE ApplyMerged \/ Bucket \/ TritonFails \/ Triton \/ ApplyW4A4 \/ ApplyOverlay \/ ApplyBase
    BY <1>3, <2>2 DEF ApplyMerged, Bucket, TritonFails, Triton, ApplyW4A4, ApplyOverlay, ApplyBase
  <2>3. QED
    BY <1>8, <2>1, <2>2 DEF Apply
<1>9. CASE NextLayer \/ Profile \/ Capture \/ Serve \/ Captured
  BY <1>3, <1>9 DEF NextLayer, Profile, Capture, Serve, Begin, Captured, expertVars
<1>10. CASE UNCHANGED vars
  BY <1>3, <1>10 DEF vars, expertVars
<1>11. QED
  BY <1>5, <1>6, <1>7, <1>8, <1>9, <1>10 DEF Next, Step

\* Layers of one geometry share one wrapper, for any number of layers of both
\* classes and any geometries, however loading and the first calls interleave.
THEOREM OneWrapper == Spec => []OneWrapperPerGeometry
<1>1. Init => WrapperInv
  BY DEF Init, WrapperInv, FreshKernel
<1>2. TypeInv /\ WrapperInv => OneWrapperPerGeometry
  <2> SUFFICES ASSUME TypeInv, WrapperInv PROVE OneWrapperPerGeometry
    OBVIOUS
  <2>2. made \in Seq(Wrapper) /\ DOMAIN made = 1 .. Len(made)
    BY DEF TypeInv, Types, PoolShape
  <2>3. ASSUME env.shared, NEW i \in DOMAIN made, NEW j \in DOMAIN made,
               made[i].geometry = made[j].geometry
        PROVE  i = j
    <3>1. pool[made[i].geometry] = i /\ pool[made[j].geometry] = j
      BY <2>2, <2>3 DEF TypeInv, Types, PoolShape
    <3>2. QED
      BY <2>3, <3>1
  <2>4. QED
    BY <2>3 DEF OneWrapperPerGeometry, WrapperInv
<1>3. QED
  BY <1>1, <1>2, EngineTypes, WrapperNext, PTL DEF Spec

\* The type invariant of the run follows.
THEOREM MoeTypeCorrect == Spec => []TypeOK
<1>1. Init => WrapperInv
  BY DEF Init, WrapperInv, FreshKernel
<1>2. TypeInv /\ WrapperInv => TypeOK
  <2> SUFFICES ASSUME TypeInv, WrapperInv PROVE TypeOK
    OBVIOUS
  <2>2. ASSUME NEW l \in Layers
        PROVE  /\ layer[l].w13 \in Orders \cup {"repacked"} /\ layer[l].w2 \in {"loaded", "repacked"}
               /\ layer[l].s13 \in Orders \cup {"released", "split", "folded"}
               /\ layer[l].w4a16 \in Outputs
               /\ kernel[l].wrapper \in 0 .. Len(made)
    <3>1. layer[l] \in LayerRecord /\ kernel[l] \in KernelRecord /\ Len(made) \in Nat
      BY DEF TypeInv, Types, PoolShape
    <3>2. kernel[l].wrapper \in 0 .. Len(made)
      BY <3>1 DEF WrapperInv
    <3>3. QED
      BY <3>1, <3>2 DEF LayerRecord, W13States, W2States, ScaleStates
  <2>3. batch.stage \in Stages /\ batch.merged \subseteq DOMAIN batch.ids
    BY DEF TypeInv, Types, IsBatch
  <2>4. \A g \in DOMAIN pool : pool[g] \in DOMAIN made
    BY DEF TypeInv, Types, PoolShape
  <2>5. QED
    BY <2>2, <2>3, <2>4 DEF TypeOK, TypeInv, Types, Stages, Phases
<1>3. QED
  BY <1>1, <1>2, EngineTypes, WrapperNext, PTL DEF Spec

-----------------------------------------------------------------------------
(***************************************************************************)
(* The order of the halves.  KernelReadsItsOrder speaks of loaded layers;  *)
(* what makes it inductive is that a layer that is not loaded yet is fresh *)
(* and what exactly each of the three modes leaves of a layer.             *)
(***************************************************************************)
Running == {"profile", "capture", "serve"}

RightAfterLoad(k, r) ==
    /\ k.s13 = "w13"
    /\ Full \/ Native => k.w13 = "view" /\ k.w2 = "view" /\ r.w13 = "w13" /\ r.w2 = "loaded"
    /\ Full => r.w4a16 = "none"
    /\ Native => r.w4a16 = "native"
    /\ ~ Full /\ ~ Native => k.w13 = "w13" /\ k.w2 = "loaded" /\ r.w4a16 = "packed"

OrderInv ==
    \A l \in Layers : Class(l) = "w4a4" =>
      /\ phase \in Running => kernel[l].ready
      /\ phase = "load" => (kernel[l].ready <=> l < at)
      /\ kernel[l].ready => (Supported(l) => RightAfterLoad(kernel[l], layer[l]))
      /\ ~ kernel[l].ready => layer[l] = FreshLayer(l)

\* The derivation is right for each mode, from a layer as the loader leaves it.
LEMMA DerivationRight ==
    ASSUME NEW l \in Layers, l \notin env.nvfp4, NEW w
    PROVE  /\ RightAfterLoad(DerivedKernel(FreshLayer(l), w), Prepared(DerivedLayer(FreshLayer(l))))
           /\ DerivedKernel(FreshLayer(l), w).ready
<1> DEFINE f == [w13 |-> "w31", w2 |-> "loaded", w4a16 |-> "none", s13 |-> "w31"]
           sw == [w13 |-> "w13", w2 |-> "loaded", w4a16 |-> "none", s13 |-> "w13"]
<1>1. FreshLayer(l) = f
  BY DEF FreshLayer
<1>2. SwapHalves(f) = sw
  <2>1. f.w13 = "w31" /\ f.s13 = "w31" /\ Swapped("w31") = "w13"
    BY DEF Swapped
  <2>2. SwapHalves(f) = [f EXCEPT !.w13 = "w13", !.s13 = "w13"]
    BY <2>1 DEF SwapHalves
  <2>3. QED
    BY <2>2
<1>3. ~ (Full /\ Native)
  BY DEF Full, Native
<1>4. DerivedKernel(f, w).ready /\ DerivedKernel(f, w).s13 = "w13"
  BY DEF DerivedKernel, Swapped
<1>5. CASE Full
  <2>1. Prepared(DerivedLayer(f)) = sw
    BY <1>2, <1>5 DEF Prepared, DerivedLayer
  <2>2. DerivedKernel(f, w).w13 = "view" /\ DerivedKernel(f, w).w2 = "view"
    BY <1>5 DEF DerivedKernel
  <2>3. QED
    BY <1>1, <1>3, <1>4, <1>5, <2>1, <2>2 DEF RightAfterLoad
<1>6. CASE Native
  <2>1. Prepared(DerivedLayer(f)) = NativePrepared(sw)
    BY <1>2, <1>3, <1>6 DEF Prepared, DerivedLayer
  <2>2. /\ NativePrepared(sw).w13 = "w13" /\ NativePrepared(sw).w2 = "loaded"
        /\ NativePrepared(sw).w4a16 = "native"
    BY DEF NativePrepared
  <2>3. DerivedKernel(f, w).w13 = "view" /\ DerivedKernel(f, w).w2 = "view"
    BY <1>6 DEF DerivedKernel
  <2>4. QED
    BY <1>1, <1>3, <1>4, <1>6, <2>1, <2>2, <2>3 DEF RightAfterLoad
<1>7. CASE ~ Full /\ ~ Native
  <2>1. Prepared(DerivedLayer(f)) = Packed(f, "w31")
    BY <1>7 DEF Prepared, DerivedLayer, W13Layout
  <2>2. Packed(f, "w31").w4a16 = "packed"
    BY DEF Packed
  <2>3. DerivedKernel(f, w).w13 = "w13" /\ DerivedKernel(f, w).w2 = "loaded"
    BY <1>7 DEF DerivedKernel, Swapped
  <2>4. QED
    BY <1>1, <1>4, <1>7, <2>1, <2>2, <2>3 DEF RightAfterLoad
<1>8. QED
  BY <1>5, <1>6, <1>7

\* A step that leaves the layers of the W4A4 plug-in alone, the engine running
\* or not.
LEMMA OrderFrame ==
    ASSUME OrderInv, env' = env, host' = host, phase' \in Running => phase \in Running,
           phase' = "load" => phase = "load" /\ at' = at,
           \A l \in Layers : Class(l) = "w4a4" =>
             /\ kernel'[l] = kernel[l]
             /\ layer'[l] = layer[l] \/ (kernel[l].ready /\ ~ Supported(l))
    PROVE  OrderInv'
  BY DEF OrderInv, Class, Supported, RightAfterLoad, Full, Native, FreshLayer, Layers, Running

\* No other class is asked by a layer of the W4A4 plug-in.
LEMMA OneClass ==
    /\ host.class = "merged" => \A l \in Layers : Class(l) # "w4a4"
    /\ \A l, k : Class(l) = "w4a4" /\ Class(k) # "overlay" => Class(k) = "w4a4"
  BY DEF Class

\* Every step keeps what a ready kernel reads in the order it was derived for.
LEMMA OrderNext ==
    ASSUME TypeInv, OrderInv, [Next]_vars
    PROVE  OrderInv'
<1>1. layer \in [Layers -> LayerRecord] /\ kernel \in [Layers -> KernelRecord] /\ phase \in Phases
  BY DEF TypeInv, Types
<1>2. batch.stage # "idle" =>
        at \in Layers /\ phase \notin {"import", "load"} /\ (phase # "stopped" => phase \in Running)
  BY ShapesAssumption DEF TypeInv, Types, Control, Layers, Phases, Running
<1>3. ASSUME UNCHANGED <<env, host, layer, kernel>>, phase' \in Running => phase \in Running,
             phase' = "load" => phase = "load" /\ at' = at
      PROVE  OrderInv'
  BY <1>3, OrderFrame
<1>4. CASE Install
  <2>1. /\ phase = "import" /\ phase' = "load" /\ at' = 1
        /\ UNCHANGED <<env, layer, kernel>>
    BY <1>4 DEF Install, expertVars
  <2>2. \A l \in Layers : kernel[l].ready = FALSE /\ layer[l] = FreshLayer(l)
    BY <2>1 DEF TypeInv, Control, FreshKernel
  <2>3. \A l \in Layers : ~ (l < 1)
    BY ShapesAssumption DEF Layers
  <2>4. QED
    BY <2>1, <2>2, <2>3 DEF OrderInv, Running, FreshLayer, Layers
<1>5. CASE Load
  <2>1. /\ phase = "load" /\ at \in Layers /\ UNCHANGED <<env, host>>
        /\ IF at < NumLayers THEN at' = at + 1 /\ phase' = "load"
                             ELSE at' = 0 /\ phase' = "profile"
    BY <1>5, ShapesAssumption DEF Load, TypeInv, Types, Control, Layers
  <2>2. ASSUME \A l \in Layers : Class(l) = "w4a4" =>
                 /\ l # at => kernel'[l] = kernel[l] /\ layer'[l] = layer[l]
                 /\ l = at => kernel'[l].ready /\ RightAfterLoad(kernel'[l], layer'[l])
        PROVE  OrderInv'
    <3>1. SUFFICES ASSUME NEW l \in Layers, Class(l) = "w4a4"
                   PROVE  /\ phase' \in Running => kernel'[l].ready
                          /\ phase' = "load" => (kernel'[l].ready <=> l < at')
                          /\ kernel'[l].ready => (Supported(l) => RightAfterLoad(kernel'[l], layer'[l]))
                          /\ ~ kernel'[l].ready => layer'[l] = FreshLayer(l)
      BY <2>1 DEF OrderInv, Class, Supported, RightAfterLoad, Full, Native, FreshLayer, Layers
    <3>2. CASE l = at
      BY <2>1, <2>2, <3>1, <3>2, ShapesAssumption DEF Layers, Running
    <3>3. CASE l # at
      <4>1. kernel'[l] = kernel[l] /\ layer'[l] = layer[l]
        BY <2>2, <3>1, <3>3
      <4>2. /\ kernel[l].ready <=> l < at
            /\ kernel[l].ready => (Supported(l) => RightAfterLoad(kernel[l], layer[l]))
            /\ ~ kernel[l].ready => layer[l] = FreshLayer(l)
        BY <2>1, <3>1 DEF OrderInv
      <4>3. phase' = "load" => (l < at <=> l < at')
        BY <2>1, <3>3, ShapesAssumption DEF Layers
      <4>4. phase' \in Running => l < at
        BY <2>1, <3>3, ShapesAssumption DEF Layers, Running
      <4>5. QED
        BY <4>1, <4>2, <4>3, <4>4
    <3>4. QED
      BY <3>2, <3>3
  <2>3. CASE LoadMerged
    <3>1. \A l \in Layers : Class(l) # "w4a4"
      BY <2>3 DEF LoadMerged, Class
    <3>2. QED
      BY <2>2, <3>1
  <2>4. CASE LoadW4A4
    <3>1. PICK w \in 1 .. Len(made) + 1 :
            /\ layer' = [layer EXCEPT ![at] = Prepared(DerivedLayer(layer[at]))]
            /\ kernel' = [kernel EXCEPT ![at] = DerivedKernel(layer[at], w)]
      BY <2>4 DEF LoadW4A4
    <3>2. Class(at) = "w4a4" /\ at \notin env.nvfp4
      BY <2>4 DEF LoadW4A4, Class
    <3>3. layer[at] = FreshLayer(at)
      <4>1. ~ (at < at)
        BY <2>1, ShapesAssumption DEF Layers
      <4>2. QED
        BY <2>1, <3>2, <4>1 DEF OrderInv
    <3>4. /\ kernel'[at] = DerivedKernel(FreshLayer(at), w)
          /\ layer'[at] = Prepared(DerivedLayer(FreshLayer(at)))
          /\ \A l \in Layers : l # at => kernel'[l] = kernel[l] /\ layer'[l] = layer[l]
      BY <1>1, <2>1, <3>1, <3>3
    <3>5. kernel'[at].ready /\ RightAfterLoad(kernel'[at], layer'[at])
      BY <2>1, <3>2, <3>4, DerivationRight
    <3>6. QED
      BY <2>2, <3>4, <3>5
  <2>5. CASE LoadOverlay
    <3>1. Class(at) # "w4a4" /\ \A l \in Layers : l # at => kernel'[l] = kernel[l] /\ layer'[l] = layer[l]
      BY <1>1, <2>1, <2>5 DEF LoadOverlay, KernelRecord
    <3>2. QED
      BY <2>2, <3>1
  <2>6. CASE LoadBase
    <3>1. Class(at) # "w4a4" /\ \A l \in Layers : l # at => kernel'[l] = kernel[l] /\ layer'[l] = layer[l]
      BY <1>1, <2>1, <2>6 DEF LoadBase
    <3>2. QED
      BY <2>2, <3>1
  <2>7. QED
    BY <1>5, <2>3, <2>4, <2>5, <2>6 DEF Load
<1>6. CASE LoadFails
  <2>1. UNCHANGED <<env, host, layer, kernel>> /\ phase' = "stopped"
    BY <1>6 DEF LoadFails, Stop
  <2>2. QED
    BY <1>3, <2>1 DEF Running
<1>7. CASE Apply
  <2>1. /\ batch.stage # "idle" /\ env' = env /\ host' = host /\ phase \in Running
    <3>1. batch.stage # "idle" /\ phase # "stopped" /\ env' = env /\ host' = host
      BY <1>7 DEF Apply, ApplyMerged, Bucket, TritonFails, Triton, ApplyW4A4, EnsureWrapper,
                  ApplyOverlay, ApplyBase
    <3>2. QED
      BY <1>2, <3>1
  <2>2. ASSUME phase' \in {phase, "stopped"},
               \A l \in Layers : Class(l) = "w4a4" =>
                 /\ kernel'[l] = kernel[l]
                 /\ layer'[l] = layer[l] \/ (kernel[l].ready /\ ~ Supported(l))
        PROVE  OrderInv'
    BY <1>2, <2>1, <2>2, OrderFrame DEF Running
  <2>3. ASSUME NEW ids \in Seq(Rows), NEW told, B12xApply(ids, told)
        PROVE  /\ phase' \in {phase, "stopped"}
               /\ \A l \in Layers : l # at \/ layer[l].w4a16 # "none" => layer'[l] = layer[l]
    BY <1>2, <2>1, <2>3, B12xEffect DEF TypeInv
  <2>4. CASE host.class = "merged"
    <3>1. phase' \in {phase, "stopped"}
      <4>1. batch.ids \in Seq(Rows)
        BY DEF TypeInv, Types, IsBatch
      <4>2. CASE ApplyMerged
        BY <2>3, <4>2, BatchesTyped DEF ApplyMerged, Stop
      <4>3. CASE TritonFails
        BY <2>3, <4>1, <4>3 DEF TritonFails
      <4>4. CASE Bucket \/ Triton \/ EnsureWrapper \/ ApplyOverlay
        BY <4>4 DEF Bucket, Triton, EnsureWrapper, ApplyOverlay
      <4>5. CASE ApplyW4A4
        BY <2>4, <4>5 DEF ApplyW4A4, Class
      <4>6. CASE ApplyBase
        BY <2>4, <4>6 DEF ApplyBase, Class
      <4>7. QED
        BY <1>7, <4>2, <4>3, <4>4, <4>5, <4>6 DEF Apply
    <3>2. QED
      BY <2>2, <2>4, <3>1, OneClass
  <2>5. CASE host.class # "merged" /\ ApplyW4A4
    <3>1. PICK ids \in BatchesOf(tokens) :
            IF UseW4A4(tokens)
            THEN /\ batch' = Answered(ids, "w4a4", W4A4Right(kernel[at], layer[at]))
                 /\ UNCHANGED <<phase, layer, at, tokens>>
            ELSE B12xApply(ids, W13Layout)
      BY <2>5 DEF ApplyW4A4
    <3>2. ids \in Seq(Rows) /\ kernel' = kernel /\ Class(at) = "w4a4" /\ at \in Layers
      BY <1>2, <2>1, <2>5, BatchesTyped DEF ApplyW4A4
    <3>3. kernel[at].ready /\ (Supported(at) => RightAfterLoad(kernel[at], layer[at]))
      BY <2>1, <3>2 DEF OrderInv
    <3>4. CASE UseW4A4(tokens)
      BY <2>2, <3>1, <3>2, <3>4
    <3>5. CASE ~ UseW4A4(tokens)
      <4>1. B12xApply(ids, W13Layout)
        BY <3>1, <3>5
      <4>2. Supported(at) => ~ Full
        BY <3>2, <3>3, <3>5 DEF UseW4A4, Supported
      <4>3. Supported(at) => layer[at].w4a16 # "none"
        BY <3>3, <4>2 DEF RightAfterLoad
      <4>4. \A l \in Layers : layer'[l] = layer[l] \/ (l = at /\ ~ Supported(at))
        BY <2>3, <3>2, <4>1, <4>3
      <4>5. phase' \in {phase, "stopped"}
        BY <2>3, <3>2, <4>1
      <4>6. QED
        BY <2>2, <3>2, <3>3, <4>4, <4>5
    <3>6. QED
      BY <3>4, <3>5
  <2>6. CASE EnsureWrapper
    <3>1. Class(at) # "w4a4" /\ UNCHANGED <<phase, layer>> /\ at \in Layers
      BY <1>2, <2>1, <2>6 DEF EnsureWrapper
    <3>2. \A l \in Layers : l # at => kernel'[l] = kernel[l]
      BY <1>1, <2>6, <3>1 DEF EnsureWrapper, KernelRecord
    <3>3. QED
      BY <2>2, <3>1, <3>2
  <2>7. CASE ApplyOverlay
    BY <2>2, <2>7 DEF ApplyOverlay
  <2>8. CASE ApplyBase
    <3>1. PICK ids \in BatchesOf(tokens) : B12xApply(ids, "w31")
      BY <2>8 DEF ApplyBase
    <3>2. ids \in Seq(Rows) /\ kernel' = kernel /\ Class(at) # "w4a4"
      BY <2>8, BatchesTyped DEF ApplyBase
    <3>3. QED
      BY <2>2, <2>3, <3>1, <3>2
  <2>9. CASE ApplyMerged \/ Bucket \/ TritonFails \/ Triton
    BY <2>4, <2>9 DEF ApplyMerged, Bucket, TritonFails, Triton, Class, TypeInv, Control
  <2>10. QED
    BY <1>7, <2>4, <2>5, <2>6, <2>7, <2>8, <2>9 DEF Apply
<1>8. CASE NextLayer \/ Profile \/ Capture \/ Serve \/ Captured
  <2>1. UNCHANGED <<env, host, layer, kernel>>
    BY <1>8 DEF NextLayer, Profile, Capture, Serve, Begin, Captured, expertVars
  <2>2. phase' = phase \/ (phase \in Running /\ phase' \in Running)
    BY <1>8 DEF NextLayer, Profile, Capture, Serve, Begin, Captured, Running
  <2>3. phase # "load"
    <3>1. CASE NextLayer
      BY <1>2, <3>1 DEF NextLayer
    <3>2. CASE Profile \/ Capture \/ Serve \/ Captured
      BY <3>2 DEF Profile, Capture, Serve, Captured
    <3>3. QED
      BY <1>8, <3>1, <3>2
  <2>4. QED
    BY <1>3, <2>1, <2>2, <2>3 DEF Running
<1>9. CASE UNCHANGED vars
  BY <1>3, <1>9 DEF vars, passVars, expertVars
<1>10. QED
  BY <1>4, <1>5, <1>6, <1>7, <1>8, <1>9 DEF Next, Step

\* In every mode, for any number of layers next to NVFP4 layers or not, each
\* kernel is given weights and scales in the order it reads.
THEOREM OrderRead == Spec => []KernelReadsItsOrder
<1>1. Init => OrderInv
  BY DEF Init, OrderInv, Class, FreshKernel, Running
<1>2. OrderInv => KernelReadsItsOrder
  <2> SUFFICES ASSUME OrderInv, NEW l \in Layers, Class(l) = "w4a4", kernel[l].ready, Supported(l)
               PROVE  /\ W4A4Right(kernel[l], layer[l])
                      /\ layer[l].w4a16 # "none" => W4A16Right(layer[l])
    BY DEF KernelReadsItsOrder
  <2>1. RightAfterLoad(kernel[l], layer[l])
    BY DEF OrderInv
  <2>2. QED
    BY <2>1 DEF RightAfterLoad, W4A4Right, W13Of, W2Of, W4A16Right
<1>3. QED
  BY <1>1, <1>2, EngineTypes, OrderNext, PTL DEF Spec

-----------------------------------------------------------------------------
(***************************************************************************)
(* The cache of w2 combinations.                                           *)
(***************************************************************************)
IsSequence(s) == s \in Seq(ToSet(s))
ComboInv ==
    /\ order = [l \in Layers |-> order[l]] /\ combos = [l \in Layers |-> combos[l]]
    /\ \A l \in Layers : IsSequence(order[l])
    /\ CombosBounded

\* What KeepCombo leaves of an order s that c is appended to.
Newest(s, c, cap) ==
    IF Len(Append(s, c)) > cap
      THEN SubSeq(Append(s, c), Len(Append(s, c)) - cap + 1, Len(Append(s, c)))
      ELSE Append(s, c)

\* A new element at the end, the oldest ones dropped: still no element twice.
LEMMA FirstInFirstOut ==
    ASSUME NEW s, IsSequence(s), IsInjective(s), NEW c, c \notin ToSet(s),
           NEW cap \in Nat \ {0}, Len(s) <= cap, NEW kept,
           kept = Newest(s, c, cap)
    PROVE  /\ IsSequence(kept) /\ IsInjective(kept) /\ Len(kept) <= cap
           /\ ToSet(kept) \subseteq ToSet(s) \cup {c}
<1> DEFINE T == ToSet(s) \cup {c}
           a == Append(s, c)
<1>1. s \in Seq(T) /\ Len(s) \in Nat /\ DOMAIN s = 1 .. Len(s)
  <2>1. s \in Seq(ToSet(s))
    BY DEF IsSequence
  <2>2. s \in Seq(T)
    BY <2>1
  <2>3. QED
    BY <2>1, <2>2
<1>2. /\ a \in Seq(T) /\ Len(a) = Len(s) + 1 /\ DOMAIN a = 1 .. Len(a)
      /\ a[Len(a)] = c /\ \A i \in 1 .. Len(s) : a[i] = s[i]
  BY <1>1
<1> HIDE DEF a, T
<1>3. IsInjective(a)
  <2>1. SUFFICES ASSUME NEW i \in 1 .. Len(a), NEW j \in 1 .. Len(a), a[i] = a[j], i < j
                 PROVE  FALSE
    BY <1>1, <1>2 DEF IsInjective
  <2>2. i \in 1 .. Len(s) /\ a[i] = s[i] /\ s[i] \in ToSet(s)
    BY <1>1, <1>2, <2>1 DEF ToSet
  <2>3. CASE j = Len(a)
    BY <1>2, <2>1, <2>2, <2>3
  <2>4. CASE j # Len(a)
    <3>1. j \in 1 .. Len(s) /\ a[j] = s[j]
      BY <1>1, <1>2, <2>4
    <3>2. s[i] = s[j] /\ i \in DOMAIN s /\ j \in DOMAIN s
      BY <1>1, <2>1, <2>2, <3>1
    <3>3. i = j
      BY <3>2 DEF IsInjective
    <3>4. QED
      BY <2>1, <3>3
  <2>5. QED
    BY <2>3, <2>4
<1>4. PICK n \in Nat : /\ kept \in Seq(T) /\ Len(kept) = Len(a) - n /\ Len(kept) <= cap
                       /\ \A i \in 1 .. Len(kept) : kept[i] = a[i + n]
  <2>1. CASE Len(a) > cap
    <3>1. kept = SubSeq(a, Len(a) - cap + 1, Len(a))
      BY <2>1 DEF a, Newest
    <3>2. /\ Len(a) - cap \in Nat /\ Len(a) - cap + 1 \in 1 .. Len(a)
          /\ Len(a) \in Int /\ Len(a) - cap + 1 \in Int
      BY <1>1, <1>2, <2>1
    <3> DEFINE lo == Len(a) - cap + 1
               hi == Len(a)
    <3>a. \A i \in lo .. hi : a[i] \in T
      BY <1>2, <3>2, ElementOfSeq
    <3>b. /\ SubSeq(a, lo, hi) \in Seq(T)
          /\ Len(SubSeq(a, lo, hi)) = IF lo <= hi THEN hi - lo + 1 ELSE 0
          /\ \A i \in 1 .. hi - lo + 1 : SubSeq(a, lo, hi)[i] = a[lo + i - 1]
      <4> HIDE DEF lo, hi
      <4>1. lo \in Int /\ hi \in Int
        BY <3>2 DEF lo, hi
      <4>2. QED
        BY <3>a, <4>1, SubSeqProperties
    <3>c. lo <= hi /\ hi - lo + 1 = cap /\ kept = SubSeq(a, lo, hi)
      <4>1. lo <= hi /\ hi - lo + 1 = cap
        BY <3>2
      <4>2. kept = SubSeq(a, lo, hi)
        BY <3>1
      <4>3. QED
        BY <4>1, <4>2
    <3>3. kept \in Seq(T) /\ Len(kept) = cap
      <4> HIDE DEF lo, hi
      <4>1. QED
        BY <3>b, <3>c
    <3>4. \A i \in 1 .. Len(kept) : kept[i] = a[i + (Len(a) - cap)]
      <4>1. \A i \in 1 .. cap : kept[i] = a[lo + i - 1]
        <5> HIDE DEF lo, hi
        <5>1. QED
          BY <3>b, <3>c
      <4>2. \A i \in 1 .. cap : lo + i - 1 = i + (Len(a) - cap)
        BY <3>2
      <4>3. QED
        BY <3>3, <4>1, <4>2
    <3>5. Len(kept) = Len(a) - (Len(a) - cap) /\ Len(kept) <= cap
      BY <1>1, <1>2, <3>3
    <3>6. QED
      BY <3>2, <3>3, <3>4, <3>5
  <2>2. CASE ~ (Len(a) > cap)
    <3>1. kept = a
      BY <2>2 DEF a, Newest
    <3>2. Len(a) = Len(a) - 0 /\ Len(a) <= cap /\ \A i \in 1 .. Len(a) : a[i] = a[i + 0]
      BY <1>1, <1>2, <2>2
    <3>3. QED
      BY <1>2, <3>1, <3>2
  <2>3. QED
    BY <2>1, <2>2
<1>5. DOMAIN kept = 1 .. Len(kept) /\ Len(kept) \in Nat
  BY <1>4
<1>6. \A i \in 1 .. Len(kept) : kept[i] \in T
  BY <1>4, ElementOfSeq
<1>7. ToSet(kept) \subseteq T
  BY <1>5, <1>6 DEF ToSet
<1>8. kept \in Seq(ToSet(kept))
  <2>1. \A i \in 1 .. Len(kept) : kept[i] \in ToSet(kept)
    BY <1>5 DEF ToSet
  <2>2. kept \in [1 .. Len(kept) -> T]
    BY <1>4, LenProperties
  <2>3. kept \in [1 .. Len(kept) -> ToSet(kept)]
    BY <2>1, <2>2
  <2> DEFINE R == ToSet(kept)
  <2>4. kept \in [1 .. Len(kept) -> R]
    BY <2>3
  <2>5. kept \in Seq(R)
    <3> HIDE DEF R
    <3>1. QED
      BY <1>5, <2>4, SeqDef
  <2>6. QED
    BY <2>5
<1>9. IsInjective(kept)
  <2>1. SUFFICES ASSUME NEW i \in 1 .. Len(kept), NEW j \in 1 .. Len(kept), kept[i] = kept[j]
                 PROVE  i = j
    BY <1>5 DEF IsInjective
  <2>2. kept[i] = a[i + n] /\ kept[j] = a[j + n]
    BY <1>4
  <2>a. i + n \in 1 .. Len(a) /\ j + n \in 1 .. Len(a)
    BY <1>1, <1>2, <1>4, <1>5
  <2>3. i + n = j + n
    BY <1>2, <1>3, <2>1, <2>2, <2>a DEF IsInjective
  <2>4. QED
    BY <1>4, <2>3
<1>10. QED
  BY <1>4, <1>7, <1>8, <1>9 DEF IsSequence, T

\* Every step keeps the order and the cache of each layer in agreement.
LEMMA ComboNext ==
    ASSUME TypeInv, ComboInv, [Next]_vars
    PROVE  ComboInv'
<1>1. ASSUME combos' = combos, order' = order PROVE ComboInv'
  BY <1>1 DEF ComboInv, CombosBounded, Layers, IsSequence
<1>2. ASSUME at \in Layers, NEW combo, KeepCombo(combo) PROVE ComboInv'
  <2>1. CASE combo \in DOMAIN combos[at]
    BY <1>1, <1>2, <2>1 DEF KeepCombo
  <2>2. CASE combo \notin DOMAIN combos[at]
    <3> DEFINE appended == Append(order[at], combo)
               kept == IF Len(appended) > ComboCap
                         THEN SubSeq(appended, Len(appended) - ComboCap + 1, Len(appended))
                         ELSE appended
               cache == [c \in ToSet(kept) |-> IF c = combo THEN Cached(combo) ELSE combos[at][c]]
    <3>1. order' = [order EXCEPT ![at] = kept] /\ combos' = [combos EXCEPT ![at] = cache]
      BY <1>2, <2>2 DEF KeepCombo
    <3>2. /\ IsSequence(order[at]) /\ IsInjective(order[at]) /\ Len(order[at]) <= ComboCap
          /\ DOMAIN combos[at] = ToSet(order[at])
          /\ \A c \in DOMAIN combos[at] : combos[at][c].experts = c
      BY <1>2 DEF ComboInv, CombosBounded
    <3>3. ComboCap \in Nat \ {0}
      BY ShapesAssumption
    <3>4. /\ IsSequence(kept) /\ IsInjective(kept) /\ Len(kept) <= ComboCap
          /\ ToSet(kept) \subseteq ToSet(order[at]) \cup {combo}
      <4>1. combo \notin ToSet(order[at])
        BY <2>2, <3>2
      <4> HIDE DEF kept
      <4>2. kept = Newest(order[at], combo, ComboCap)
        BY DEF kept, Newest
      <4>3. QED
        BY <3>2, <3>3, <4>1, <4>2, FirstInFirstOut
    <3> HIDE DEF kept
    <3>5. DOMAIN cache = ToSet(kept)
      OBVIOUS
    <3>6. \A c \in ToSet(kept) : cache[c].experts = c
      <4>1. Cached(combo).experts = combo
        BY <2>2 DEF Cached
      <4>2. QED
        BY <3>2, <3>4, <4>1
    <3> HIDE DEF cache
    <3>7. /\ order' = [l \in Layers |-> order'[l]] /\ combos' = [l \in Layers |-> combos'[l]]
          /\ order'[at] = kept /\ combos'[at] = cache
          /\ \A l \in Layers : l # at => order'[l] = order[l] /\ combos'[l] = combos[l]
      <4>1. DOMAIN order = Layers /\ DOMAIN combos = Layers
        BY DEF ComboInv
      <4>2. QED
        BY <1>2, <3>1, <4>1
    <3>8. SUFFICES ASSUME NEW l \in Layers
                   PROVE  /\ IsSequence(order'[l]) /\ IsInjective(order'[l])
                          /\ Len(order'[l]) <= ComboCap
                          /\ DOMAIN combos'[l] = ToSet(order'[l])
                          /\ \A c \in DOMAIN combos'[l] : combos'[l][c].experts = c
      BY <3>7 DEF ComboInv, CombosBounded, Layers, IsSequence
    <3>9. CASE l = at
      BY <3>4, <3>5, <3>6, <3>7, <3>9
    <3>10. CASE l # at
      BY <3>7, <3>8, <3>10 DEF ComboInv, CombosBounded
    <3>11. QED
      BY <3>9, <3>10
  <2>3. QED
    BY <2>1, <2>2
<1>3. CASE Bucket
  <2>1. at \in Layers
    BY <1>3, ShapesAssumption DEF Bucket, TypeInv, Types, Control, Layers
  <2>2. UNCHANGED <<combos, order>> \/ \E combo : KeepCombo(combo)
    BY <1>3 DEF Bucket
  <2>3. QED
    BY <1>1, <1>2, <2>1, <2>2
<1>4. CASE Apply /\ ~ Bucket
  <2>1. UNCHANGED mergedVars
    BY <1>4 DEF Apply, ApplyMerged, TritonFails, Triton
  <2>2. QED
    BY <1>1, <2>1 DEF mergedVars
<1>5. CASE Load
  <2>1. combos' = combos /\ order' = order
    BY <1>5 DEF Load, LoadMerged, mergedVars
  <2>2. QED
    BY <1>1, <2>1
<1>6. CASE Install \/ LoadFails \/ NextLayer \/ Profile \/ Capture \/ Serve \/ Captured
  <2>1. UNCHANGED mergedVars
    BY <1>6 DEF Install, LoadFails, NextLayer, Profile, Capture, Serve, Begin, Captured, expertVars
  <2>2. QED
    BY <1>1, <2>1 DEF mergedVars
<1>7. CASE UNCHANGED vars
  BY <1>1, <1>7 DEF vars, expertVars, mergedVars
<1>8. QED
  BY <1>3, <1>4, <1>5, <1>6, <1>7 DEF Next, Step

\* At first every cache is empty.
LEMMA ComboInit == Init => ComboInv
<1> SUFFICES ASSUME Init PROVE ComboInv
  OBVIOUS
<1>1. \A l \in Layers : order[l] = <<>> /\ combos[l] = <<>>
  BY DEF Init
<1>2. /\ <<>> \in Seq(ToSet(<<>>)) /\ IsInjective(<<>>) /\ Len(<<>>) <= ComboCap
      /\ ToSet(<<>>) = {} /\ DOMAIN <<>> = {}
  BY ShapesAssumption DEF ToSet, IsInjective
<1>3. order = [l \in Layers |-> order[l]] /\ combos = [l \in Layers |-> combos[l]]
  BY DEF Init
<1>4. QED
  BY <1>1, <1>2, <1>3 DEF ComboInv, CombosBounded, IsSequence

\* For any capacity and any batches the cache and its order agree, nothing is in
\* it twice, and no set of experts is given the weights of another.
THEOREM ComboCacheRight == Spec => []CombosBounded
<1>1. ComboInv => CombosBounded
  BY DEF ComboInv
<1>2. QED
  BY <1>1, ComboInit, EngineTypes, ComboNext, PTL DEF Spec

-----------------------------------------------------------------------------
(***************************************************************************)
(* The compiled kernels.  What is compiled after loading was not warmed up *)
(* because nothing was: a warm-up that goes through comes before the first *)
(* bucket, and a bucket within the tiers has the key of a tier.            *)
(***************************************************************************)
LateInv ==
    /\ ~ env.warmup => warmed = "no"
    /\ env.warmup /\ warmed = "no" =>
         /\ late = {}
         /\ \A l \in Layers : Class(l) = "merged" => ~ kernel[l].ready
    /\ warmed = "done" => WarmKeys \subseteq compiled /\ \A key \in late : key[1] > TopTier
    /\ batch.stage = "rows" => Class(at) = "merged" /\ kernel[at].ready

\* Numbers have a least one.
Less == {ss \in Nat \X Nat : ss[1] < ss[2]}
LEMMA LeastNumber == ASSUME NEW S \in SUBSET Nat, S # {} PROVE Min(S) \in S
<1>1. IsWellFoundedOn(Less, Nat)
  BY NatLessThanWellFounded DEF OpToRel, Less
<1>2. PICK x \in S : \A y \in S : <<y, x>> \notin Less
  BY <1>1, WFMin
<1>3. ASSUME NEW y \in S PROVE x <= y
  <2>1. x \in Nat /\ y \in Nat /\ <<y, x>> \notin Less
    BY <1>2
  <2>2. ~ (y < x)
    BY <2>1 DEF Less
  <2>3. QED
    BY <2>1, <2>2
<1>4. QED
  BY <1>3 DEF Min

\* Whole tiles are no fewer rows than they hold.
LEMMA TilesHold ==
    ASSUME NEW m \in Nat, NEW t \in Nat \ {0}
    PROVE  ((m + t - 1) \div t) * t >= m
<1>1. PICK q \in Int, r \in Int : /\ q = (m + t - 1) \div t /\ r = (m + t - 1) % t
                                  /\ m + t - 1 = (t * q) + r /\ r < t
  OBVIOUS
<1>2. PICK p \in Int : p = t * q /\ p = q * t
  OBVIOUS
<1>3. p >= m
  BY <1>1, <1>2
<1>4. QED
  BY <1>1, <1>2, <1>3

\* The rows of a bucket get a tier, or more rows than any tier has.
LEMMA TierPicked ==
    ASSUME NEW m \in Nat
    PROVE  (\E i \in DOMAIN Tiers : PickTier(m) = Tiers[i]) \/ PickTier(m) > TopTier
<1> DEFINE fits == {i \in DOMAIN Tiers : Tiers[i] >= m}
<1>1. DOMAIN Tiers = 1 .. Len(Tiers) /\ Len(Tiers) \in DOMAIN Tiers /\ TopTier \in Nat
  BY TiersAssumption DEF TopTier, Last
<1>2. CASE fits # {}
  <2>1. fits \in SUBSET Nat
    BY <1>1
  <2>2. Min(fits) \in fits
    BY <1>2, <2>1, LeastNumber
  <2>3. PickTier(m) = Tiers[Min(fits)]
    BY <1>2 DEF PickTier
  <2>4. QED
    BY <2>2, <2>3
<1>3. CASE fits = {}
  <2>1. TopTier < m
    BY <1>1, <1>3 DEF TopTier, Last
  <2>2. PickTier(m) = ((m + TileM - 1) \div TileM) * TileM
    BY <1>3 DEF PickTier
  <2>3. PickTier(m) >= m
    BY <2>2, TilesHold, ShapesAssumption
  <2>4. PickTier(m) \in Int
    BY <2>2, ShapesAssumption
  <2>5. QED
    BY <1>1, <2>1, <2>3, <2>4
<1>4. QED
  BY <1>2, <1>3

\* With the tiers warmed up, what a bucket compiles is beyond the top tier.
LEMMA BucketCompiles ==
    ASSUME WarmTopK = TopK, NEW m \in Nat, NEW key \in Gemms(PickTier(m), TopK),
           key \notin WarmKeys
    PROVE  key[1] > TopTier
<1>1. key[1] = PickTier(m)
  BY DEF Gemms, W13Gemm, W2Gemm
<1>2. \A i \in DOMAIN Tiers : PickTier(m) # Tiers[i]
  BY DEF WarmKeys
<1>3. QED
  BY <1>1, <1>2, TierPicked

\* The rows of a bucket can be counted.
LEMMA BucketCounted ==
    ASSUME NEW ids \in Seq(Rows), NEW key
    PROVE  Cardinality(RowsWith(ids, key)) \in Nat
<1>1. IsFiniteSet(1 .. Len(ids))
  BY FS_Interval
<1>2. RowsWith(ids, key) \subseteq 1 .. Len(ids)
  BY DEF RowsWith
<1>3. QED
  BY <1>1, <1>2, FS_Subset, FS_CardinalityType

\* Every step keeps what is compiled and when.
LEMMA LateNext ==
    ASSUME WarmTopK = TopK, TypeInv, LateInv, [Next]_vars
    PROVE  LateInv'
<1>1. env' = env /\ (batch.stage # "idle" => at \in Layers) /\ (phase = "load" => at \in Layers)
  <2>1. env' = env
    BY DEF Next, Step, Install, Load, LoadFails, Apply, NextLayer, Profile, Capture, Serve,
           Begin, Captured, vars
  <2>2. QED
    BY <2>1, ShapesAssumption DEF TypeInv, Types, Control, Layers
\* The kernels of other classes, and the ones that stay, do not matter.
<1>2. ASSUME UNCHANGED mergedVars, host' = host,
             \A l \in Layers : Class(l) = "merged" => kernel'[l] = kernel[l],
             batch'.stage = "rows" =>
               (batch.stage = "rows" /\ at' = at) \/ (Class(at') = "merged" /\ kernel'[at'].ready)
      PROVE  LateInv'
  <2>1. \A l \in Layers : Class(l)' = Class(l)
    BY <1>1, <1>2 DEF Class
  <2>2. /\ warmed' = warmed /\ late' = late /\ compiled' = compiled /\ TopTier' = TopTier
        /\ WarmKeys' = WarmKeys /\ Layers' = Layers
    BY <1>2 DEF mergedVars, TopTier, WarmKeys, Layers, Gemms, W13Gemm, W2Gemm
  <2>3. batch'.stage = "rows" => Class(at)' = "merged" /\ kernel'[at'].ready
    <3>1. \A l : Class(l) = (IF l \in env.nvfp4 THEN "overlay" ELSE host.class)
      BY DEF Class
    <3>2. Class(at)' = (IF at' \in env'.nvfp4 THEN "overlay" ELSE host'.class)
      BY DEF Class
    <3>3. CASE batch.stage = "rows" /\ at' = at
      BY <1>1, <1>2, <3>1, <3>2, <3>3 DEF LateInv
    <3>4. CASE Class(at') = "merged" /\ kernel'[at'].ready
      BY <1>1, <1>2, <3>1, <3>2, <3>4
    <3>5. QED
      BY <1>2, <3>3, <3>4
  <2>4. ~ env'.warmup => warmed' = "no"
    BY <1>1, <2>2 DEF LateInv
  <2>5. env'.warmup /\ warmed' = "no" =>
          late' = {} /\ \A l \in Layers : Class(l)' = "merged" => ~ kernel'[l].ready
    BY <1>1, <1>2, <2>1, <2>2 DEF LateInv
  <2>6. warmed' = "done" => WarmKeys \subseteq compiled' /\ \A key \in late' : key[1] > TopTier
    BY <2>2 DEF LateInv
  <2>7. QED
    BY <2>2, <2>3, <2>4, <2>5, <2>6 DEF LateInv
<1>3. CASE Apply /\ Bucket
  <2>1. /\ UNCHANGED <<at, kernel, warmed>> /\ batch.stage = "rows" /\ at \in Layers
        /\ Class(at) = "merged" /\ kernel[at].ready
    BY <1>1, <1>3 DEF Bucket, LateInv
  <2>2. host' = host
    BY <1>3 DEF Apply
  <2>3. \A l : Class(l)' = Class(l)
    BY <1>1, <2>2 DEF Class
  <2>4. ~ (env.warmup /\ warmed = "no")
    BY <2>1 DEF LateInv
  <2>5. ASSUME warmed = "done"
        PROVE  WarmKeys \subseteq compiled' /\ \A key \in late' : key[1] > TopTier
    <3> DEFINE m == Cardinality(RowsWith(batch.ids, Min(batch.todo)))
    <3>1. WarmKeys \subseteq compiled /\ \A key \in late : key[1] > TopTier
      BY <2>5 DEF LateInv
    <3>2. m \in Nat
      BY BucketCounted DEF TypeInv, Types, IsBatch
    <3>3. \/ UNCHANGED <<compiled, late>>
          \/ \E keys \in SUBSET Gemms(PickTier(m), TopK) : Compiling(keys)
      BY <1>3 DEF Bucket, Gemms
    <3> HIDE DEF m
    <3>4. CASE UNCHANGED <<compiled, late>>
      BY <3>1, <3>4
    <3>5. ASSUME NEW keys \in SUBSET Gemms(PickTier(m), TopK), Compiling(keys)
          PROVE  WarmKeys \subseteq compiled' /\ \A key \in late' : key[1] > TopTier
      <4>1. compiled \subseteq compiled' /\ late' = late \cup (keys \ compiled)
        BY <3>5 DEF Compiling
      <4>2. \A key \in keys \ compiled : key[1] > TopTier
        BY <3>1, <3>2, BucketCompiles
      <4>3. QED
        BY <3>1, <4>1, <4>2
    <3>6. QED
      BY <3>3, <3>4, <3>5
  <2>6. WarmKeys' = WarmKeys /\ TopTier' = TopTier /\ Layers' = Layers
    BY DEF TopTier, WarmKeys, Layers, Gemms, W13Gemm, W2Gemm
  <2>7. Class(at)' = "merged" /\ kernel'[at'].ready
    BY <1>1, <2>1, <2>2 DEF Class
  <2>8. warmed' = "done" => WarmKeys \subseteq compiled' /\ \A key \in late' : key[1] > TopTier
    BY <2>1, <2>5
  <2>9. ~ env'.warmup => warmed' = "no"
    BY <1>1, <2>1 DEF LateInv
  <2>10. ~ (env'.warmup /\ warmed' = "no")
    BY <1>1, <2>1, <2>4
  <2>11. QED
    BY <2>6, <2>7, <2>8, <2>9, <2>10 DEF LateInv
<1>4. CASE Apply /\ ~ Bucket
  <2>1. UNCHANGED mergedVars /\ host' = host
    BY <1>4 DEF Apply, ApplyMerged, TritonFails, Triton
  <2>2. \A l \in Layers : Class(l) = "merged" => kernel'[l] = kernel[l]
    <3>1. CASE EnsureWrapper
      <4>1. kernel \in [Layers -> KernelRecord] /\ Class(at) = "overlay" /\ at \in Layers
        BY <1>1, <3>1 DEF EnsureWrapper, TypeInv, Types
      <4>2. \A l \in Layers : l # at => kernel'[l] = kernel[l]
        BY <3>1, <4>1 DEF EnsureWrapper
      <4>3. QED
        BY <4>1, <4>2
    <3>2. CASE ~ EnsureWrapper
      BY <1>4, <3>2 DEF Apply, ApplyMerged, TritonFails, Triton, ApplyW4A4, ApplyOverlay, ApplyBase
    <3>3. QED
      BY <3>1, <3>2
  <2>3. ASSUME NEW ids \in Seq(Rows), NEW told, B12xApply(ids, told), at \in Layers,
               batch'.stage = "rows"
        PROVE  batch.stage = "rows" /\ at' = at
    <3>1. /\ at' = at
          /\ (phase' = "stopped" /\ batch' = batch) \/ batch'.stage = "answered"
      BY <2>3, B12xEffect DEF TypeInv
    <3>2. CASE batch' = batch
      BY <2>3, <3>1, <3>2
    <3>3. CASE batch'.stage = "answered"
      BY <2>3, <3>3
    <3>4. QED
      BY <3>1, <3>2, <3>3
  <2>4. batch'.stage = "rows" =>
          (batch.stage = "rows" /\ at' = at) \/ (Class(at') = "merged" /\ kernel'[at'].ready)
    <3> SUFFICES ASSUME batch'.stage = "rows"
                 PROVE  (batch.stage = "rows" /\ at' = at)
                          \/ (Class(at') = "merged" /\ kernel'[at'].ready)
      OBVIOUS
    <3>1. at \in Layers /\ \A ids : ids \in BatchesOf(tokens) => ids \in Seq(Rows)
      BY <1>1, <1>4, BatchesTyped DEF Apply, ApplyMerged, TritonFails, Triton, ApplyW4A4,
                                      EnsureWrapper, ApplyOverlay, ApplyBase
    <3>2. CASE ApplyMerged
      <4>1. PICK ids \in BatchesOf(tokens) :
              IF ~ kernel[at].ready \/ env.expertMap THEN B12xApply(ids, "w31")
              ELSE IF UseMerged(tokens) /\ phase = "capture" THEN Stop
              ELSE /\ batch' = [NoBatch EXCEPT
                        !.stage = "rows", !.ids = ids,
                        !.out = [i \in 1 .. tokens |-> Garbage],
                        !.todo = IF UseMerged(tokens) THEN LargeBuckets(ids) ELSE {}]
                   /\ UNCHANGED <<phase, layer, at, tokens>>
        BY <3>2 DEF ApplyMerged
      <4>2. batch.stage = "apply" /\ Class(at) = "merged" /\ kernel' = kernel
        BY <3>2 DEF ApplyMerged
      <4>3. CASE ~ kernel[at].ready \/ env.expertMap
        BY <2>3, <3>1, <4>1, <4>2, <4>3
      <4>4. CASE kernel[at].ready /\ Stop
        BY <4>2, <4>4 DEF Stop
      <4>5. CASE kernel[at].ready /\ UNCHANGED <<phase, layer, at, tokens>>
        BY <4>2, <4>5
      <4>6. QED
        BY <4>1, <4>3, <4>4, <4>5
    <3>3. CASE TritonFails
      <4>1. batch.ids \in Seq(Rows)
        BY DEF TypeInv, Types, IsBatch
      <4>2. QED
        BY <2>3, <3>1, <3>3, <4>1 DEF TritonFails
    <3>4. CASE ApplyW4A4 \/ ApplyBase
      <4>1. PICK ids \in BatchesOf(tokens) :
              batch' = Answered(ids, "w4a4", W4A4Right(kernel[at], layer[at]))
                \/ \E told : B12xApply(ids, told)
        BY <3>4 DEF ApplyW4A4, ApplyBase
      <4>2. CASE batch' = Answered(ids, "w4a4", W4A4Right(kernel[at], layer[at]))
        BY <3>1, <4>2, AnsweredType
      <4>3. QED
        BY <2>3, <3>1, <4>1, <4>2
    <3>5. CASE Triton
      <4>1. PICK out : batch' = [batch EXCEPT !.stage = "answered", !.via = "merged", !.out = out]
        BY <3>5 DEF Triton
      <4>2. IsBatch(batch)
        BY DEF TypeInv, Types
      <4>3. batch'.stage = "answered"
        BY <4>1, <4>2 DEF IsBatch
      <4>4. QED
        BY <4>3
    <3>6. CASE EnsureWrapper
      BY <3>6 DEF EnsureWrapper
    <3>7. CASE ApplyOverlay
      <4>1. PICK ids \in BatchesOf(tokens) :
              batch' = Answered(ids, "w4a4", kernel[at].s13 = "folded" /\ ~ env.inputWeights)
        BY <3>7 DEF ApplyOverlay
      <4>2. batch'.stage = "answered"
        BY <3>1, <4>1, AnsweredType
      <4>3. QED
        BY <4>2
    <3>8. QED
      BY <1>4, <3>2, <3>3, <3>4, <3>5, <3>6, <3>7 DEF Apply
  <2>5. QED
    BY <1>2, <2>1, <2>2, <2>4
<1>5. CASE Load
  <2>1. /\ at \in Layers /\ batch.stage = "idle" /\ batch' = batch /\ host' = host
        /\ kernel \in [Layers -> KernelRecord]
    BY <1>1, <1>5 DEF Load, TypeInv, Types, Control
  <2>2. CASE LoadMerged
    <3>1. \A l : Class(l)' = Class(l)
      BY <1>1, <2>1 DEF Class
    <3>2. Warmup /\ late' = late
      BY <2>2 DEF LoadMerged
    <3>3. WarmKeys' = WarmKeys /\ TopTier' = TopTier
      BY DEF TopTier, WarmKeys, Gemms, W13Gemm, W2Gemm
    <3>4. CASE env.warmup /\ warmed = "no"
      <4>1. \/ warmed' = "done" /\ compiled' = compiled \cup WarmKeys
            \/ warmed' = "failed"
        BY <3>2, <3>4 DEF Warmup
      <4>2. late' = {}
        BY <3>2, <3>4 DEF LateInv
      <4>3. QED
        BY <1>1, <2>1, <3>3, <3>4, <4>1, <4>2 DEF LateInv
    <3>5. CASE ~ (env.warmup /\ warmed = "no")
      <4>1. UNCHANGED <<warmed, compiled>>
        BY <3>2, <3>5 DEF Warmup
      <4>2. QED
        BY <1>1, <2>1, <3>2, <3>3, <3>5, <4>1 DEF LateInv
    <3>6. QED
      BY <3>4, <3>5
  <2>3. CASE (LoadW4A4 \/ LoadOverlay \/ LoadBase) /\ UNCHANGED mergedVars
    <3>1. \A l \in Layers : Class(l) = "merged" => kernel'[l] = kernel[l]
      BY <2>1, <2>3 DEF LoadW4A4, LoadOverlay, LoadBase
    <3>2. QED
      BY <1>2, <2>1, <2>3, <3>1
  <2>4. QED
    BY <1>5, <2>2, <2>3 DEF Load
<1>6. CASE Install
  <2>1. /\ UNCHANGED <<kernel, late, compiled, warmed>> /\ batch'.stage = "idle"
        /\ \A l \in Layers : ~ kernel[l].ready
    BY <1>6 DEF Install, TypeInv, Control, FreshKernel, expertVars, mergedVars
  <2>2. WarmKeys' = WarmKeys /\ TopTier' = TopTier /\ Layers' = Layers
    BY DEF TopTier, WarmKeys, Layers, Gemms, W13Gemm, W2Gemm
  <2>3. QED
    BY <1>1, <2>1, <2>2 DEF LateInv
<1>7. CASE LoadFails \/ NextLayer \/ Profile \/ Capture \/ Serve \/ Captured \/ UNCHANGED vars
  <2>1. UNCHANGED mergedVars /\ host' = host /\ kernel' = kernel
    BY <1>7 DEF LoadFails, NextLayer, Profile, Capture, Serve, Begin, Captured, expertVars, vars
  <2>2. batch'.stage = "rows" => batch.stage = "rows" /\ at' = at
    BY <1>7 DEF LoadFails, Stop, NextLayer, Profile, Capture, Serve, Begin, Captured, vars,
                passVars, NoBatch
  <2>3. QED
    BY <1>2, <2>1, <2>2
<1>8. QED
  BY <1>3, <1>4, <1>5, <1>6, <1>7 DEF Next, Step

\* For any tiers, batches and layers: a warm-up that went through has compiled
\* whatever a bucket within the tiers asks for, if it was told the number of
\* experts of a row that the model has.
THEOREM NothingCompiledLate ==
    ASSUME WarmTopK = TopK
    PROVE  Spec => []NoCompileWhileServing
<1>1. Init => LateInv
  BY DEF Init, LateInv, NoBatch, FreshKernel, Class, Layers
<1>2. LateInv => NoCompileWhileServing
  BY DEF LateInv, NoCompileWhileServing
<1>3. TypeInv /\ LateInv /\ [Next]_vars => LateInv'
  BY LateNext
<1>4. QED
  BY <1>1, <1>2, <1>3, EngineTypes, PTL DEF Spec

-----------------------------------------------------------------------------
(***************************************************************************)
(* The layout of the scales.  The run compares the two address             *)
(* computations on sampled rows; here for every row, group and size.       *)
(***************************************************************************)

\* Dividing by 32 first or taking the remainder by 128 first finds the same quarter.
LEMMA QuarterOfBlock ==
    ASSUME NEW row \in Nat
    PROVE  (row % 128) \div 32 = (row \div 32) % 4
  BY SMT

\* K / 64 columns of blocks, whether counted from K or from the groups of 16.
LEMMA BlockColumns ==
    ASSUME NEW k \in Nat
    PROVE  (k \div 16) \div 4 = k \div 64
  BY SMT

\* Quotient and remainder are determined by the number they make up.
LEMMA QuotientUnique ==
    ASSUME NEW n \in Nat, NEW p \in Nat, NEW q \in Nat, NEW r \in Nat, NEW s \in Nat,
           r < n, s < n, p * n + r = q * n + s
    PROVE  p = q /\ r = s
<1>1. ASSUME NEW x \in Nat, NEW y \in Nat, x < y  PROVE x * n + n <= y * n
  <2>1. PICK d \in Nat : y = x + 1 + d
    <3>1. y - x - 1 \in Nat /\ y = x + 1 + (y - x - 1)
      BY <1>1
    <3>2. QED
      BY <3>1
  <2>2. y * n = x * n + n + d * n
    BY <2>1
  <2>3. d * n \in Nat /\ x * n \in Nat /\ y * n \in Nat
    BY <2>1
  <2>4. QED
    BY <2>2, <2>3
<1>2. p * n \in Nat /\ q * n \in Nat
  OBVIOUS
<1>3. ~ (p < q)
  <2>1. ASSUME p < q PROVE FALSE
    <3>1. p * n + n <= q * n
      BY <1>1, <2>1
    <3>2. QED
      BY <3>1, <1>2
  <2>2. QED
    BY <2>1
<1>4. ~ (q < p)
  <2>1. ASSUME q < p PROVE FALSE
    <3>1. q * n + n <= p * n
      BY <1>1, <2>1
    <3>2. QED
      BY <3>1, <1>2
  <2>2. QED
    BY <2>1
<1>5. p = q
  BY <1>3, <1>4
<1>6. QED
  BY <1>5, <1>2

\* The Triton kernel of the merged plug-in loads the scale of a row and a group
\* from the byte to which the host has written it, for every size of w13.
THEOREM TritonReadsWhatHostWrote ==
    ASSUME NEW row \in Nat, NEW group \in Nat, NEW k \in Nat
    PROVE  TritonAt(row, group, k) = SwizzledAt(row, group, (k \div 16) \div 4)
<1>1. PICK rk \in Nat : rk = k \div 64 /\ rk = (k \div 16) \div 4
  BY BlockColumns, SMT
<1>2. PICK b \in Nat : b = (row % 128) \div 32 /\ b = (row \div 32) % 4
  BY QuarterOfBlock, SMT
<1>3. PICK c \in Nat, a \in Nat, e \in Nat, d \in Nat :
         c = row \div 128 /\ a = row % 32 /\ e = group \div 4 /\ d = group % 4
  BY SMT
<1>4. 512 * rk * c + 512 * e + 16 * a + 4 * b + d
        = (((c * rk + e) * 32 + a) * 4 + b) * 4 + d
  BY SMT
<1>5. QED
  BY <1>1, <1>2, <1>3, <1>4 DEF TritonAt, SwizzledAt

\* A tensor of whole blocks of 128 rows is laid out within the bytes it has: the
\* kernel, which reads by the same address, never leaves the storage.
THEOREM SwizzleInStorage ==
    ASSUME NEW blocks \in Nat, NEW rk \in Nat, NEW row \in Nat, NEW group \in Nat,
           row < 128 * blocks, group < 4 * rk
    PROVE  SwizzledAt(row, group, rk) \in 0 .. (128 * blocks) * (4 * rk) - 1
<1>1. PICK c \in Nat, b \in 0 .. 3, a \in 0 .. 31, e \in Nat, d \in 0 .. 3 :
         /\ c = row \div 128 /\ b = (row % 128) \div 32 /\ a = row % 32
         /\ e = group \div 4 /\ d = group % 4
         /\ c < blocks /\ e < rk
  <2>1. /\ row \div 128 \in Nat /\ row \div 128 < blocks
        /\ (row % 128) \div 32 \in 0 .. 3 /\ row % 32 \in 0 .. 31
    <3>1. row \div 128 \in Nat /\ row \div 128 < blocks
      BY SMT
    <3>2. row % 128 \in 0 .. 127
      BY SMT
    <3>3. (row % 128) \div 32 \in 0 .. 3
      BY <3>2, SMT
    <3>4. row % 32 \in 0 .. 31
      BY SMT
    <3>5. QED
      BY <3>1, <3>3, <3>4
  <2>2. group \div 4 \in Nat /\ group \div 4 < rk /\ group % 4 \in 0 .. 3
    BY SMT
  <2>3. QED
    BY <2>1, <2>2, Zenon
<1>2. PICK x \in Nat : blocks = c + 1 + x
  <2>1. blocks - c - 1 \in Nat /\ blocks = c + 1 + (blocks - c - 1)
    BY <1>1
  <2>2. QED
    BY <2>1
<1>3. blocks * rk = c * rk + rk + x * rk
  BY <1>1, <1>2
<1>4. c * rk \in Nat /\ x * rk \in Nat /\ blocks * rk \in Nat
  BY <1>1, <1>2
<1>5. PICK u \in Nat : u = c * rk + e /\ u < blocks * rk
  BY <1>1, <1>3, <1>4
<1>6. (128 * blocks) * (4 * rk) = 512 * (blocks * rk)
  BY SMT
<1>7. SwizzledAt(row, group, rk) = ((u * 32 + a) * 4 + b) * 4 + d
  BY <1>1, <1>5 DEF SwizzledAt
<1>8. QED
  BY <1>1, <1>4, <1>5, <1>6, <1>7

\* No two scales of a tensor are written to one byte.
THEOREM SwizzleIsInjective ==
    ASSUME NEW rk \in Nat,
           NEW row1 \in Nat, NEW row2 \in Nat, NEW g1 \in Nat, NEW g2 \in Nat,
           g1 < 4 * rk, g2 < 4 * rk,
           SwizzledAt(row1, g1, rk) = SwizzledAt(row2, g2, rk)
    PROVE  row1 = row2 /\ g1 = g2
<1> DEFINE c(row) == row \div 128
           b(row) == (row % 128) \div 32
           a(row) == row % 32
           e(g) == g \div 4
           d(g) == g % 4
<1>1. \A row \in Nat : /\ c(row) \in Nat /\ b(row) \in 0 .. 3 /\ a(row) \in 0 .. 31
                       /\ row = c(row) * 128 + b(row) * 32 + a(row)
  BY SMT
<1>2. \A g \in Nat : e(g) \in Nat /\ d(g) \in 0 .. 3 /\ g = e(g) * 4 + d(g)
  BY SMT
<1>3. e(g1) < rk /\ e(g2) < rk
  BY SMT
<1>4. PICK u1 \in Nat, u2 \in Nat :
         u1 = c(row1) * rk + e(g1) /\ u2 = c(row2) * rk + e(g2)
  BY <1>1, <1>2
<1>5. (((u1 * 32 + a(row1)) * 4 + b(row1)) * 4) + d(g1)
        = (((u2 * 32 + a(row2)) * 4 + b(row2)) * 4) + d(g2)
  BY <1>4 DEF SwizzledAt
<1> HIDE DEF a, b, c, d, e
<1>6. u1 = u2 /\ a(row1) = a(row2) /\ b(row1) = b(row2) /\ d(g1) = d(g2)
  <2>1. /\ a(row1) \in Nat /\ a(row1) < 32 /\ a(row2) \in Nat /\ a(row2) < 32
        /\ b(row1) \in Nat /\ b(row1) < 4 /\ b(row2) \in Nat /\ b(row2) < 4
        /\ d(g1) \in Nat /\ d(g1) < 4 /\ d(g2) \in Nat /\ d(g2) < 4
    <3>1. /\ a(row1) \in 0 .. 31 /\ a(row2) \in 0 .. 31 /\ b(row1) \in 0 .. 3
          /\ b(row2) \in 0 .. 3 /\ d(g1) \in 0 .. 3 /\ d(g2) \in 0 .. 3
      BY <1>1, <1>2, Zenon
    <3>2. QED
      BY ONLY <3>1
  <2>2. PICK v1 \in Nat, v2 \in Nat : v1 = u1 * 32 + a(row1) /\ v2 = u2 * 32 + a(row2)
    BY ONLY <2>1, u1 \in Nat, u2 \in Nat
  <2>3. PICK w1 \in Nat, w2 \in Nat : w1 = v1 * 4 + b(row1) /\ w2 = v2 * 4 + b(row2)
    BY ONLY <2>1, v1 \in Nat, v2 \in Nat
  <2>4. w1 * 4 + d(g1) = w2 * 4 + d(g2)
    BY <1>5, <2>2, <2>3, Zenon
  <2>5. w1 = w2 /\ d(g1) = d(g2)
    BY ONLY <2>1, <2>4, w1 \in Nat, w2 \in Nat
  <2>6. v1 = v2 /\ b(row1) = b(row2)
    BY ONLY <2>1, <2>3, <2>5, v1 \in Nat, v2 \in Nat
  <2>7. u1 = u2 /\ a(row1) = a(row2)
    BY ONLY <2>1, <2>2, <2>6, u1 \in Nat, u2 \in Nat
  <2>8. QED
    BY <2>5, <2>6, <2>7
<1>7. c(row1) = c(row2) /\ e(g1) = e(g2)
  <2>1. /\ c(row1) \in Nat /\ c(row2) \in Nat
        /\ e(g1) \in Nat /\ e(g2) \in Nat /\ e(g1) < rk /\ e(g2) < rk
    BY <1>1, <1>2, <1>3, Zenon
  <2>2. PICK p \in Nat, q \in Nat, r \in Nat, s \in Nat :
          p = c(row1) /\ q = c(row2) /\ r = e(g1) /\ s = e(g2) /\ r < rk /\ s < rk
    BY <2>1, Zenon
  <2>3. p * rk + r = q * rk + s
    BY <1>4, <1>6, <2>2, Zenon
  <2>4. p = q /\ r = s
    BY ONLY <2>2, <2>3, QuotientUnique, rk \in Nat
  <2>5. QED
    BY <2>2, <2>4, Zenon
<1>8. QED
  BY <1>1, <1>2, <1>6, <1>7

-----------------------------------------------------------------------------
(***************************************************************************)
(* Counting.  A recursion over an interval is solved and followed by       *)
(* induction, for which the set of the numbers that satisfy a statement    *)
(* stands for the statement.                                               *)
(***************************************************************************)
\* Induction over an interval, for a set of numbers.
LEMMA IntervalInduction ==
    ASSUME NEW n \in Nat, NEW P \in SUBSET Nat, 0 \in P,
           \A i \in 1 .. n : i - 1 \in P => i \in P
    PROVE  0 .. n \subseteq P
<1> DEFINE bad == {i \in 0 .. n : i \notin P}
<1>1. SUFFICES ASSUME bad # {} PROVE FALSE
  OBVIOUS
<1>2. PICK x \in bad : \A y \in bad : <<y, x>> \notin Less
  <2>1. IsWellFoundedOn(Less, Nat)
    BY NatLessThanWellFounded DEF OpToRel, Less
  <2>2. bad \in SUBSET Nat
    OBVIOUS
  <2>3. QED
    BY <1>1, <2>1, <2>2, WFMin
<1>3. x \in 1 .. n /\ x - 1 \in Nat
  BY <1>2
<1>4. <<x - 1, x>> \in Less
  BY <1>3 DEF Less
<1>5. x - 1 \in P
  BY <1>2, <1>3, <1>4
<1>6. QED
  BY <1>2, <1>3, <1>5

\* A recursion over an interval has a solution.
LEMMA RecursionSolved ==
    ASSUME NEW n \in Nat, NEW base \in Nat, NEW step \in [Nat \X (1 .. n) -> Nat]
    PROVE  \E f \in [0 .. n -> Nat] :
             f[0] = base /\ \A i \in 1 .. n : f[i] = step[<<f[i - 1], i>>]
<1> DEFINE Solves(f, m) == f[0] = base /\ \A i \in 1 .. m : f[i] = step[<<f[i - 1], i>>]
           P == {m \in Nat : m <= n => \E f \in [0 .. m -> Nat] : Solves(f, m)}
<1>1. 0 \in P
  <2>1. [i \in 0 .. 0 |-> base] \in [0 .. 0 -> Nat] /\ Solves([i \in 0 .. 0 |-> base], 0)
    OBVIOUS
  <2>2. QED
    BY <2>1
<1>2. ASSUME NEW i \in 1 .. n, i - 1 \in P PROVE i \in P
  <2>1. PICK f \in [0 .. i - 1 -> Nat] : Solves(f, i - 1)
    BY <1>2
  <2> DEFINE g == [j \in 0 .. i |-> IF j = i THEN step[<<f[i - 1], i>>] ELSE f[j]]
  <2> HIDE DEF P
  <2>2. step[<<f[i - 1], i>>] \in Nat
    <3>1. f[i - 1] \in Nat
      OBVIOUS
    <3>2. <<f[i - 1], i>> \in Nat \X (1 .. n)
      BY <3>1
    <3> HIDE DEF Solves
    <3>3. QED
      BY <3>2
  <2>3. g \in [0 .. i -> Nat]
    BY <2>2
  <2>4. ASSUME NEW j \in 1 .. i PROVE g[j] = step[<<g[j - 1], j>>]
    <3>1. g[j - 1] = f[j - 1]
      OBVIOUS
    <3>2. CASE j = i
      <4>1. g[j] = step[<<f[i - 1], i>>] /\ g[j - 1] = f[i - 1]
        BY <3>1, <3>2
      <4>2. QED
        BY <3>2, <4>1
    <3>3. CASE j # i
      BY <2>1, <3>1, <3>3
    <3>4. QED
      BY <3>2, <3>3
  <2>5. g[0] = base
    BY <2>1
  <2> HIDE DEF g
  <2> USE DEF P
  <2>6. \E h \in [0 .. i -> Nat] : Solves(h, i)
    BY <2>3, <2>4, <2>5
  <2> HIDE DEF Solves
  <2>7. QED
    <3>1. i \in Nat
      OBVIOUS
    <3>2. QED
      BY <2>6, <3>1
<1>3. 0 .. n \subseteq P
  <2>1. P \in SUBSET Nat
    OBVIOUS
  <2> HIDE DEF P
  <2>2. QED
    BY <1>1, <1>2, <2>1, IntervalInduction
<1>4. QED
  <2> HIDE DEF P
  <2>1. n \in P
    BY <1>3
  <2> USE DEF P
  <2>2. QED
    BY <2>1

\* In a finite set with a strict total order, the number of smaller elements
\* gives every element a place of its own.
LEMMA PlacesInOrder ==
    ASSUME NEW S, IsFiniteSet(S), NEW before \in [S -> SUBSET S],
           \A x \in S : x \notin before[x],
           \A x, y, z \in S : x \in before[y] /\ y \in before[z] => x \in before[z],
           \A x, y \in S : x = y \/ x \in before[y] \/ y \in before[x]
    PROVE  /\ Cardinality(S) \in Nat
           /\ \A x \in S : Cardinality(before[x]) \in 0 .. Cardinality(S) - 1
           /\ \A x, y \in S : Cardinality(before[x]) < Cardinality(before[y]) <=> x \in before[y]
           /\ \A x, y \in S : Cardinality(before[x]) = Cardinality(before[y]) => x = y
           /\ \A k \in 0 .. Cardinality(S) - 1 : \E x \in S : Cardinality(before[x]) = k
<1> DEFINE place == [x \in S |-> Cardinality(before[x])]
<1>1. ASSUME NEW x \in S
      PROVE  IsFiniteSet(before[x]) /\ Cardinality(before[x]) \in Nat
             /\ place[x] = Cardinality(before[x])
  <2>1. before[x] \in SUBSET S
    OBVIOUS
  <2>2. QED
    BY <2>1, FS_Subset, FS_CardinalityType
<1>2. Cardinality(S) \in Nat
  BY FS_CardinalityType
<1> HIDE DEF place
<1>3. ASSUME NEW x \in S PROVE place[x] \in 0 .. Cardinality(S) - 1
  <2>1. before[x] \in SUBSET (S \ {x})
    OBVIOUS
  <2>2. IsFiniteSet(S \ {x}) /\ Cardinality(S \ {x}) = Cardinality(S) - 1
    BY FS_RemoveElement
  <2>3. Cardinality(before[x]) <= Cardinality(S \ {x})
    BY <2>1, <2>2, FS_Subset
  <2>4. QED
    BY <1>1, <1>2, <2>2, <2>3
<1>4. ASSUME NEW x \in S, NEW y \in S, x \in before[y] PROVE place[x] < place[y]
  <2>1. before[x] \cup {x} \in SUBSET before[y] /\ x \notin before[x]
    BY <1>4
  <2>2. Cardinality(before[x] \cup {x}) = Cardinality(before[x]) + 1
    BY <1>1, <2>1, FS_AddElement
  <2>3. Cardinality(before[x] \cup {x}) <= Cardinality(before[y])
    BY <1>1, <2>1, FS_Subset
  <2>4. QED
    BY <1>1, <2>2, <2>3
<1>5. \A x, y \in S : place[x] < place[y] <=> x \in before[y]
  <2>1. SUFFICES ASSUME NEW x \in S, NEW y \in S PROVE place[x] < place[y] <=> x \in before[y]
    OBVIOUS
  <2>2. place[x] \in Int /\ place[y] \in Int
    BY <1>3
  <2>3. x \in before[y] => place[x] < place[y]
    BY <1>4
  <2>4. y \in before[x] => place[y] < place[x]
    BY <1>4
  <2>5. QED
    BY <2>2, <2>3, <2>4
<1>6. \A x, y \in S : place[x] = place[y] => x = y
  <2>1. \A x \in S : place[x] \in Int
    BY <1>3
  <2>2. QED
    BY <1>5, <2>1
<1>7. ASSUME NEW k \in 0 .. Cardinality(S) - 1 PROVE \E x \in S : place[x] = k
  <2> DEFINE T == 0 .. Cardinality(S) - 1
  <2>1. IsFiniteSet(T) /\ Cardinality(T) = Cardinality(S)
    BY <1>2, FS_Interval
  <2>2. place \in Injection(S, T)
    <3>1. place \in [S -> T]
      BY <1>3 DEF place
    <3>2. QED
      BY <1>6, <3>1 DEF Injection, IsInjective
  <2>3. place \in Surjection(S, T)
    BY <2>1, <2>2, FS_Injection
  <2>4. QED
    BY <2>3 DEF Surjection
<1>8. QED
  BY <1>1, <1>2, <1>3, <1>5, <1>6, <1>7

\* The same for numbers and their natural order.
LEMMA PlacesOfNumbers ==
    ASSUME NEW S \in SUBSET Int, IsFiniteSet(S), NEW before \in [S -> SUBSET S],
           \A x, y \in S : x \in before[y] <=> x < y
    PROVE  /\ Cardinality(S) \in Nat
           /\ \A x \in S : Cardinality(before[x]) \in 0 .. Cardinality(S) - 1
           /\ \A x, y \in S : Cardinality(before[x]) < Cardinality(before[y]) <=> x < y
           /\ \A x, y \in S : Cardinality(before[x]) = Cardinality(before[y]) => x = y
           /\ \A k \in 0 .. Cardinality(S) - 1 : \E x \in S : Cardinality(before[x]) = k
<1>1. /\ \A x \in S : x \notin before[x]
      /\ \A x, y, z \in S : x \in before[y] /\ y \in before[z] => x \in before[z]
      /\ \A x, y \in S : x = y \/ x \in before[y] \/ y \in before[x]
  OBVIOUS
<1>2. QED
  BY <1>1, PlacesInOrder

-----------------------------------------------------------------------------
(***************************************************************************)
(* Triton: the pairs of a batch, the runs of the experts in the padded     *)
(* order, the position of each pair, and the sum.                          *)
(***************************************************************************)
\* Quotient and remainder, as facts the solver can use without dividing.
LEMMA Division ==
    ASSUME NEW q \in Int, NEW t \in Nat \ {0}
    PROVE  \E d \in Int, r \in 0 .. t - 1 : d = q \div t /\ r = q % t /\ q = d * t + r
  OBVIOUS

\* A product with a larger number is larger by a whole factor.
LEMMA ProductGrows ==
    ASSUME NEW n \in Nat, NEW x \in Int, NEW y \in Int, x < y
    PROVE  x * n + n <= y * n
<1>1. PICK d \in Nat : y = x + 1 + d
  <2>1. y - x - 1 \in Nat /\ y = x + 1 + (y - x - 1)
    OBVIOUS
  <2>2. QED
    BY <2>1
<1>2. y * n = x * n + n + d * n
  BY <1>1
<1>3. d * n \in Nat /\ x * n \in Int /\ y * n \in Int
  BY <1>1
<1>4. QED
  BY <1>2, <1>3

\* The number between two multiples has the quotient of the lower one.
LEMMA QuotientOf ==
    ASSUME NEW t \in Nat \ {0}, NEW i \in Int, NEW s \in 0 .. t - 1
    PROVE  (i * t + s) \div t = i /\ (i * t + s) % t = s
<1> DEFINE q == i * t + s
<1>1. q \in Int /\ i * t \in Int
  OBVIOUS
<1> HIDE DEF q
<1>2. PICK d \in Int, r \in 0 .. t - 1 : d = q \div t /\ r = q % t /\ q = d * t + r
  BY <1>1, Division
<1>3. d * t \in Int
  BY <1>2
<1>4. ~ (d < i)
  <2>1. SUFFICES ASSUME d < i PROVE FALSE
    OBVIOUS
  <2>2. d * t + t <= i * t
    BY <2>1, ProductGrows
  <2>3. QED
    BY <1>1, <1>2, <1>3, <2>2 DEF q
<1>5. ~ (i < d)
  <2>1. SUFFICES ASSUME i < d PROVE FALSE
    OBVIOUS
  <2>2. i * t + t <= d * t
    BY <2>1, ProductGrows
  <2>3. QED
    BY <1>1, <1>2, <1>3, <2>2 DEF q
<1>6. d = i
  BY <1>4, <1>5
<1>7. r = s
  BY <1>1, <1>2, <1>6 DEF q
<1>8. QED
  BY <1>2, <1>6, <1>7 DEF q

\* The expert a pair is sorted by.
ExpertOf(rows, q) == Clamped(Id(rows, q))
\* The pairs are the slots of all rows, each once.
LEMMA PairsOfRows ==
    ASSUME NEW b \in Seq(Rows)
    PROVE  /\ IsFiniteSet(Pairs(b)) /\ Pairs(b) \subseteq Nat
           /\ Cardinality(Pairs(b)) = Len(b) * TopK /\ Len(b) * TopK \in Nat
           /\ \A q \in Pairs(b) :
                /\ TokenOf(q) \in 1 .. Len(b) /\ SlotOf(q) \in Slots
                /\ Id(b, q) \in Int /\ ExpertOf(b, q) \in Experts
           /\ \A q, r \in Pairs(b) : TokenOf(q) = TokenOf(r) /\ SlotOf(q) = SlotOf(r) => q = r
           /\ \A i \in 1 .. Len(b), s \in Slots :
                \E q \in Pairs(b) : TokenOf(q) = i /\ SlotOf(q) = s
<1>1. TopK \in Nat \ {0} /\ NumExperts \in Nat \ {0} /\ Len(b) \in Nat
  BY ShapesAssumption
<1>2. PICK n \in Nat : n = Len(b) * TopK
  BY <1>1
<1>3. Pairs(b) = 0 .. n - 1
  BY <1>2 DEF Pairs
<1>4. IsFiniteSet(Pairs(b)) /\ Cardinality(Pairs(b)) = n
  BY <1>2, <1>3, FS_Interval
<1>5. ASSUME NEW q \in Pairs(b)
      PROVE  /\ TokenOf(q) \in 1 .. Len(b) /\ SlotOf(q) \in Slots
             /\ q = (TokenOf(q) - 1) * TopK + (SlotOf(q) - 1)
  <2>1. q \in Int
    BY <1>3
  <2>2. PICK d \in Int, r \in 0 .. TopK - 1 : d = q \div TopK /\ r = q % TopK /\ q = d * TopK + r
    BY <1>1, <2>1, Division
  <2>3. d * TopK \in Int /\ Len(b) * TopK = n /\ q < n /\ q >= 0
    BY <1>1, <1>2, <1>3
  <2>4. d >= 0
    <3>1. SUFFICES ASSUME d < 0 PROVE FALSE
      OBVIOUS
    <3>2. d * TopK + TopK <= 0 * TopK
      BY <1>1, <3>1, ProductGrows
    <3>3. QED
      BY <1>1, <2>2, <2>3, <3>2
  <2>5. d < Len(b)
    <3>1. SUFFICES ASSUME Len(b) <= d PROVE FALSE
      BY <1>1
    <3>2. CASE Len(b) = d
      BY <1>1, <2>2, <2>3, <3>2
    <3>3. CASE Len(b) < d
      <4>1. Len(b) * TopK + TopK <= d * TopK
        BY <1>1, <3>3, ProductGrows
      <4>2. QED
        BY <1>1, <2>2, <2>3, <4>1
    <3>4. QED
      BY <1>1, <3>1, <3>2, <3>3
  <2>6. TokenOf(q) = d + 1 /\ SlotOf(q) = r + 1
    BY <2>2 DEF TokenOf, SlotOf
  <2>7. TokenOf(q) - 1 = d /\ SlotOf(q) - 1 = r
    BY <2>6
  <2>8. q = (TokenOf(q) - 1) * TopK + (SlotOf(q) - 1)
    BY <2>2, <2>7
  <2>9. TokenOf(q) \in 1 .. Len(b) /\ SlotOf(q) \in Slots
    BY <1>1, <2>4, <2>5, <2>6 DEF Slots
  <2>10. QED
    BY <2>8, <2>9
<1>6. ASSUME NEW q \in Pairs(b) PROVE Id(b, q) \in Int /\ ExpertOf(b, q) \in Experts
  <2>1. b[TokenOf(q)] \in Rows
    BY <1>1, <1>5
  <2>2. Id(b, q) \in Int
    BY <1>5, <2>1 DEF Id, Rows
  <2>3. QED
    BY <1>1, <2>2 DEF ExpertOf, Clamped, Experts
<1>7. \A q, r \in Pairs(b) : TokenOf(q) = TokenOf(r) /\ SlotOf(q) = SlotOf(r) => q = r
  BY <1>5
<1>8. ASSUME NEW i \in 1 .. Len(b), NEW s \in Slots
      PROVE  \E q \in Pairs(b) : TokenOf(q) = i /\ SlotOf(q) = s
  <2>1. PICK j \in Nat, r \in 0 .. TopK - 1 : i = j + 1 /\ s = r + 1 /\ j < Len(b)
    <3>1. i - 1 \in Nat /\ s - 1 \in 0 .. TopK - 1 /\ i - 1 < Len(b)
      BY <1>1 DEF Slots
    <3>2. i = (i - 1) + 1 /\ s = (s - 1) + 1
      BY <1>1 DEF Slots
    <3>3. QED
      BY <3>1, <3>2
  <2>2. PICK q \in Int : q = j * TopK + r
    BY <1>1
  <2>3. q \div TopK = j /\ q % TopK = r
    BY <1>1, <2>2, QuotientOf
  <2>4. j * TopK + TopK <= Len(b) * TopK
    BY <1>1, <2>1, ProductGrows
  <2>5. j * TopK \in Nat
    BY <1>1
  <2>6. q \in Pairs(b)
    BY <1>1, <1>2, <1>3, <2>2, <2>4, <2>5
  <2>7. TokenOf(q) = i /\ SlotOf(q) = s
    BY <2>1, <2>3 DEF TokenOf, SlotOf
  <2>8. QED
    BY <2>6, <2>7
<1>9. QED
  BY <1>2, <1>3, <1>4, <1>5, <1>6, <1>7, <1>8

\* Where an expert's segment begins and ends.
EndOf(rows, e) == SegmentEnds(rows)[e]
StartOf(rows, e) == EndOf(rows, e) - Segment(rows, e)
\* An expert's segment is whole blocks, and less than a block larger than its run.
LEMMA SegmentHoldsRun ==
    ASSUME NEW b \in Seq(Rows), NEW e \in Experts
    PROVE  /\ Count(b, e) \in Nat /\ Segment(b, e) \in Nat
           /\ Count(b, e) <= Segment(b, e) /\ Segment(b, e) <= Count(b, e) + (BlockM - 1)
           /\ \E k \in Nat : Segment(b, e) = k * BlockM
<1>1. BlockM \in Nat \ {0}
  BY ShapesAssumption
<1>2. PICK n : n = Count(b, e)
  OBVIOUS
<1>3. n \in Nat
  <2>1. {q \in Pairs(b) : Clamped(Id(b, q)) = e} \in SUBSET Pairs(b)
    OBVIOUS
  <2>2. IsFiniteSet(Pairs(b))
    BY PairsOfRows
  <2>3. QED
    BY <1>2, <2>1, <2>2, FS_Subset, FS_CardinalityType DEF Count
<1>4. PICK d \in Int, r \in 0 .. BlockM - 1 : d = n \div BlockM /\ r = n % BlockM /\ n = d * BlockM + r
  BY <1>1, <1>3, Division
<1>5. d * BlockM \in Int /\ (d + 1) * BlockM = d * BlockM + BlockM
  BY <1>1
<1>6. d >= 0
  <2>1. SUFFICES ASSUME d < 0 PROVE FALSE
    OBVIOUS
  <2>2. d * BlockM + BlockM <= 0 * BlockM
    BY <1>1, <2>1, ProductGrows
  <2>3. QED
    BY <1>1, <1>3, <1>4, <1>5, <2>2
<1>7. Segment(b, e) = n + ((BlockM - r) % BlockM)
  BY <1>2, <1>4 DEF Segment, Padding
<1>8. CASE r = 0
  <2>1. BlockM % BlockM = 0
    <3>1. BlockM = 1 * BlockM + 0 /\ 0 \in 0 .. BlockM - 1
      BY <1>1
    <3>2. (1 * BlockM + 0) % BlockM = 0
      BY <1>1, <3>1, QuotientOf
    <3>3. QED
      BY <3>1, <3>2
  <2>2. BlockM - r = BlockM
    BY <1>1, <1>8
  <2>3. Segment(b, e) = n + 0
    BY <1>7, <2>1, <2>2
  <2>4. Segment(b, e) = n /\ n = d * BlockM
    BY <1>3, <1>4, <1>5, <1>8, <2>3
  <2>5. QED
    BY <1>1, <1>2, <1>3, <1>6, <2>4
<1>9. CASE r # 0
  <2>1. BlockM - r \in 0 .. BlockM - 1
    BY <1>1, <1>9
  <2>2. (0 * BlockM + (BlockM - r)) % BlockM = BlockM - r
    BY <1>1, <2>1, QuotientOf
  <2>3. 0 * BlockM + (BlockM - r) = BlockM - r
    BY <1>1
  <2>4. Segment(b, e) = n + (BlockM - r)
    BY <1>7, <2>2, <2>3
  <2>5. Segment(b, e) = (d + 1) * BlockM
    BY <1>1, <1>3, <1>4, <1>5, <2>4
  <2>6. /\ n \in Nat /\ n <= n + (BlockM - r) /\ n + (BlockM - r) <= n + (BlockM - 1)
        /\ n + (BlockM - r) \in Nat
    BY <1>1, <1>3, <1>9
  <2>7. d + 1 \in Nat
    BY <1>6
  <2>8. QED
    BY <1>2, <2>4, <2>5, <2>6, <2>7
<1>10. QED
  BY <1>8, <1>9

\* The recursion of the ends has a solution: each end is the one before and a segment.
LEMMA EndsAddUp ==
    ASSUME NEW b \in Seq(Rows)
    PROVE  /\ \A e \in Experts : EndOf(b, e) \in Nat
           /\ EndOf(b, 0) = Segment(b, 0)
           /\ \A e \in 1 .. NumExperts - 1 : EndOf(b, e) = EndOf(b, e - 1) + Segment(b, e)
<1>1. PICK n \in Nat : n = NumExperts - 1 /\ Experts = 0 .. n
  <2>1. NumExperts - 1 \in Nat
    BY ShapesAssumption
  <2>2. QED
    BY <2>1 DEF Experts
<1> DEFINE step == [x \in Nat \X (1 .. n) |-> x[1] + Segment(b, x[2])]
           R(f) == f = [e \in Experts |-> IF e = 0 THEN Segment(b, 0) ELSE f[e - 1] + Segment(b, e)]
<1>2. \A e \in Experts : Segment(b, e) \in Nat
  BY SegmentHoldsRun
<1>3. step \in [Nat \X (1 .. n) -> Nat]
  BY <1>1, <1>2
<1>4. Segment(b, 0) \in Nat
  BY <1>1, <1>2
<1>5. PICK f \in [0 .. n -> Nat] :
         f[0] = Segment(b, 0) /\ \A i \in 1 .. n : f[i] = step[<<f[i - 1], i>>]
  <2> HIDE DEF step
  <2>1. PICK base \in Nat : base = Segment(b, 0)
    BY <1>4
  <2>2. PICK f \in [0 .. n -> Nat] :
           f[0] = base /\ \A i \in 1 .. n : f[i] = step[<<f[i - 1], i>>]
    BY <1>3, RecursionSolved, Zenon
  <2>3. QED
    BY <2>1, <2>2
<1>6. ASSUME NEW i \in 1 .. n PROVE f[i] = f[i - 1] + Segment(b, i)
  <2>1. f[i - 1] \in Nat
    OBVIOUS
  <2>2. <<f[i - 1], i>> \in Nat \X (1 .. n)
    BY <2>1
  <2>3. step[<<f[i - 1], i>>] = f[i - 1] + Segment(b, i)
    BY <2>2
  <2>4. QED
    BY <1>5, <2>3
<1>7. R(f)
  <2> DEFINE g == [e \in Experts |-> IF e = 0 THEN Segment(b, 0) ELSE f[e - 1] + Segment(b, e)]
  <2>1. ASSUME NEW e \in Experts PROVE f[e] = g[e]
    <3>1. CASE e = 0
      BY <1>5, <3>1
    <3>2. CASE e # 0
      <4>1. e \in 1 .. n
        BY <1>1, <3>2
      <4>2. QED
        BY <1>6, <3>2, <4>1
    <3>3. QED
      BY <3>1, <3>2
  <2> HIDE DEF g
  <2>2. f = g
    <3>1. g = [e \in Experts |-> g[e]] /\ f = [e \in Experts |-> f[e]]
      BY <1>1 DEF g
    <3>2. QED
      BY <2>1, <3>1
  <2>3. QED
    BY <2>2 DEF g
<1>8. SegmentEnds(b) = CHOOSE h : R(h)
  BY DEF SegmentEnds
<1>9. R(SegmentEnds(b))
  <2> HIDE DEF R
  <2>1. QED
    BY <1>7, <1>8
<1> DEFINE s == SegmentEnds(b)
           P == {i \in Nat : i <= n => s[i] \in Nat}
<1> HIDE DEF s
<1>10. s = [e \in Experts |-> IF e = 0 THEN Segment(b, 0) ELSE s[e - 1] + Segment(b, e)]
  BY <1>9 DEF s
<1>11. s[0] = Segment(b, 0) /\ \A e \in 1 .. n : s[e] = s[e - 1] + Segment(b, e)
  <2>1. 0 \in Experts /\ \A e \in 1 .. n : e \in Experts /\ e # 0
    BY <1>1
  <2>2. QED
    BY <1>10, <2>1
<1>12. 0 .. n \subseteq P
  <2>1. P \in SUBSET Nat /\ 0 \in P
    BY <1>4, <1>11
  <2>2. ASSUME NEW i \in 1 .. n, i - 1 \in P PROVE i \in P
    <3>1. i \in Experts /\ Segment(b, i) \in Nat
      BY <1>1, <1>2
    <3>2. s[i - 1] \in Nat
      BY <2>2
    <3>3. s[i] = s[i - 1] + Segment(b, i)
      BY <1>11
    <3>4. QED
      BY <3>1, <3>2, <3>3
  <2> HIDE DEF P
  <2>3. QED
    BY <2>1, <2>2, IntervalInduction
<1>13. \A e \in Experts : s[e] \in Nat
  BY <1>1, <1>12
<1>14. QED
  BY <1>1, <1>11, <1>13 DEF EndOf, s

\* Runs follow one another in the order of the experts, each from a block border.
LEMMA RunsFollow ==
    ASSUME NEW b \in Seq(Rows)
    PROVE  /\ \A e \in Experts :
                /\ EndOf(b, e) \in Nat /\ StartOf(b, e) \in Nat /\ Count(b, e) \in Nat
                /\ StartOf(b, e) + Count(b, e) <= EndOf(b, e)
                /\ \E k \in Nat : StartOf(b, e) = k * BlockM
           /\ \A e, f \in Experts : e < f => EndOf(b, e) <= StartOf(b, f)
           /\ StartOf(b, 0) = 0
           /\ \A e \in 1 .. NumExperts - 1 : StartOf(b, e) = EndOf(b, e - 1)
<1>1. PICK n \in Nat : n = NumExperts - 1 /\ Experts = 0 .. n
  <2>1. NumExperts - 1 \in Nat
    BY ShapesAssumption
  <2>2. QED
    BY <2>1 DEF Experts
<1>2. /\ \A e \in Experts : EndOf(b, e) \in Nat
      /\ EndOf(b, 0) = Segment(b, 0)
      /\ \A e \in 1 .. n : EndOf(b, e) = EndOf(b, e - 1) + Segment(b, e)
  BY <1>1, EndsAddUp
<1>3. \A e \in Experts : Segment(b, e) \in Nat /\ Count(b, e) \in Nat /\ Count(b, e) <= Segment(b, e)
  BY SegmentHoldsRun
<1>4. BlockM \in Nat \ {0}
  BY ShapesAssumption
<1>5. StartOf(b, 0) = 0 /\ \A e \in 1 .. n : StartOf(b, e) = EndOf(b, e - 1)
  <2>1. ASSUME NEW e \in 1 .. n PROVE StartOf(b, e) = EndOf(b, e - 1)
    <3>1. e \in Experts /\ e - 1 \in Experts
      BY <1>1
    <3>2. EndOf(b, e - 1) \in Nat /\ Segment(b, e) \in Nat
      BY <1>2, <1>3, <3>1
    <3>3. QED
      BY <1>2, <3>2 DEF StartOf
  <2>2. 0 \in Experts
    BY <1>1
  <2>3. StartOf(b, 0) = 0
    BY <1>2, <1>3, <2>2 DEF StartOf
  <2>4. QED
    BY <2>1, <2>3
<1>6. \A e \in Experts : StartOf(b, e) \in Nat
  <2>1. SUFFICES ASSUME NEW e \in Experts PROVE StartOf(b, e) \in Nat
    OBVIOUS
  <2>2. CASE e = 0
    BY <1>5, <2>2
  <2>3. CASE e # 0
    <3>1. e \in 1 .. n /\ e - 1 \in Experts
      BY <1>1, <2>3
    <3>2. QED
      BY <1>2, <1>5, <3>1
  <2>4. QED
    BY <2>2, <2>3
<1>7. \A e \in Experts : EndOf(b, e) = StartOf(b, e) + Segment(b, e)
  <2>1. SUFFICES ASSUME NEW e \in Experts PROVE EndOf(b, e) = StartOf(b, e) + Segment(b, e)
    OBVIOUS
  <2>2. EndOf(b, e) \in Nat /\ Segment(b, e) \in Nat
    BY <1>2, <1>3
  <2>3. QED
    BY <2>2 DEF StartOf
<1> DEFINE P == {i \in Nat : i <= n => \E k \in Nat : StartOf(b, i) = k * BlockM}
<1>8. 0 .. n \subseteq P
  <2>1. P \in SUBSET Nat
    OBVIOUS
  <2>2. 0 \in P
    <3>1. StartOf(b, 0) = 0 * BlockM
      BY <1>4, <1>5
    <3>2. QED
      BY <3>1
  <2>3. ASSUME NEW i \in 1 .. n, i - 1 \in P PROVE i \in P
    <3>1. PICK k \in Nat : StartOf(b, i - 1) = k * BlockM
      BY <2>3
    <3>2. i - 1 \in Experts
      BY <1>1
    <3>3. PICK j \in Nat : Segment(b, i - 1) = j * BlockM
      BY <3>2, SegmentHoldsRun
    <3>4. StartOf(b, i) = StartOf(b, i - 1) + Segment(b, i - 1)
      BY <1>5, <1>7, <3>2
    <3>5. StartOf(b, i) = (k + j) * BlockM
      BY <1>4, <3>1, <3>3, <3>4
    <3>6. QED
      BY <3>5
  <2> HIDE DEF P
  <2>4. QED
    BY <2>1, <2>2, <2>3, IntervalInduction
<1>9. \A e \in Experts : \E k \in Nat : StartOf(b, e) = k * BlockM
  <2>1. \A e \in Experts : e \in P
    BY <1>1, <1>8
  <2>2. \A e \in Experts : e \in Nat /\ e <= n
    BY <1>1
  <2>3. QED
    BY <2>1, <2>2
<1>10. ASSUME NEW e \in Experts, NEW f \in Experts, e < f PROVE EndOf(b, e) <= StartOf(b, f)
  <2> DEFINE Q == {i \in Nat : e < i /\ i <= n => EndOf(b, e) <= StartOf(b, i)}
  <2>1. Q \in SUBSET Nat /\ 0 \in Q
    BY <1>1
  <2>2. ASSUME NEW i \in 1 .. n, i - 1 \in Q PROVE i \in Q
    <3>1. i - 1 \in Experts /\ i \in Experts /\ StartOf(b, i) = EndOf(b, i - 1)
      BY <1>1, <1>5
    <3>2. CASE e < i - 1
      <4>1. EndOf(b, e) <= StartOf(b, i - 1)
        BY <2>2, <3>2
      <4>2. EndOf(b, i - 1) = StartOf(b, i - 1) + Segment(b, i - 1)
        BY <1>7, <3>1
      <4>3. StartOf(b, i - 1) \in Nat /\ Segment(b, i - 1) \in Nat /\ EndOf(b, e) \in Nat
        BY <1>2, <1>3, <1>6, <3>1
      <4>4. QED
        BY <3>1, <4>1, <4>2, <4>3
    <3>3. CASE e = i - 1
      <4>1. EndOf(b, e) = StartOf(b, i) /\ EndOf(b, e) \in Nat
        BY <1>2, <3>1, <3>3
      <4>2. QED
        BY <4>1
    <3>4. CASE e >= i
      BY <1>1, <3>4
    <3>5. QED
      BY <1>1, <3>2, <3>3, <3>4
  <2>3. 0 .. n \subseteq Q
    <3> HIDE DEF Q
    <3>1. QED
      BY <2>1, <2>2, IntervalInduction
  <2>4. f \in Q /\ f <= n
    BY <1>1, <2>3
  <2>5. QED
    BY <1>10, <2>4
<1>11. ASSUME NEW e \in Experts PROVE StartOf(b, e) + Count(b, e) <= EndOf(b, e)
  <2>1. StartOf(b, e) \in Nat /\ Segment(b, e) \in Nat /\ Count(b, e) \in Nat /\ Count(b, e) <= Segment(b, e)
    BY <1>3, <1>6
  <2>2. QED
    BY <1>7, <2>1
<1>12. QED
  BY <1>1, <1>2, <1>3, <1>5, <1>6, <1>9, <1>10, <1>11

\* The length of the padded order of a batch.
Room(rows) == Capacity(Len(rows) * TopK)
\* All runs together fit the capacity, which is whole blocks.
LEMMA RunsFit ==
    ASSUME NEW b \in Seq(Rows)
    PROVE  /\ Room(b) \in Nat /\ \E c \in Nat : Room(b) = c * BlockM
           /\ \A e \in Experts : EndOf(b, e) <= Room(b)
<1>1. PICK n \in Nat : n = NumExperts - 1 /\ Experts = 0 .. n /\ NumExperts = n + 1
  <2>1. NumExperts - 1 \in Nat /\ NumExperts = (NumExperts - 1) + 1
    BY ShapesAssumption
  <2>2. QED
    BY <2>1 DEF Experts
<1>2. PICK m \in Nat : m = BlockM - 1 /\ BlockM = m + 1
  <2>1. BlockM - 1 \in Nat /\ BlockM = (BlockM - 1) + 1
    BY ShapesAssumption
  <2>2. QED
    BY <2>1
<1>3. PICK pairs \in Nat : pairs = Len(b) * TopK
  BY PairsOfRows
<1> DEFINE UpTo(e) == {q \in Pairs(b) : ExpertOf(b, q) <= e}
           Own(e) == {q \in Pairs(b) : ExpertOf(b, q) = e}
           P == {i \in Nat : i <= n => EndOf(b, i) <= Cardinality(UpTo(i)) + (i + 1) * m}
<1>4. IsFiniteSet(Pairs(b)) /\ Cardinality(Pairs(b)) = pairs
      /\ \A q \in Pairs(b) : ExpertOf(b, q) \in 0 .. n
  BY <1>1, <1>3, PairsOfRows
<1>5. \A e : IsFiniteSet(UpTo(e)) /\ Cardinality(UpTo(e)) \in Nat /\ Cardinality(UpTo(e)) <= pairs
  <2>1. ASSUME NEW e
        PROVE  IsFiniteSet(UpTo(e)) /\ Cardinality(UpTo(e)) \in Nat /\ Cardinality(UpTo(e)) <= pairs
    <3>1. UpTo(e) \in SUBSET Pairs(b)
      OBVIOUS
    <3> HIDE DEF UpTo
    <3>2. QED
      BY <1>4, <3>1, FS_Subset, FS_CardinalityType
  <2>2. QED
    BY <2>1
<1>6. \A e : IsFiniteSet(Own(e)) /\ Cardinality(Own(e)) = Count(b, e)
  <2>1. ASSUME NEW e PROVE IsFiniteSet(Own(e)) /\ Cardinality(Own(e)) = Count(b, e)
    <3>1. Own(e) \in SUBSET Pairs(b)
      OBVIOUS
    <3>2. Cardinality(Own(e)) = Count(b, e)
      BY DEF Count, ExpertOf
    <3> HIDE DEF Own
    <3>3. QED
      BY <1>4, <3>1, <3>2, FS_Subset
  <2>2. QED
    BY <2>1
<1>7. \A e \in Experts : EndOf(b, e) \in Nat /\ Count(b, e) \in Nat /\ Segment(b, e) \in Nat
                         /\ Segment(b, e) <= Count(b, e) + m
  BY <1>2, EndsAddUp, SegmentHoldsRun
<1>8. 0 .. n \subseteq P
  <2>1. P \in SUBSET Nat
    OBVIOUS
  <2>2. 0 \in P
    <3>1. UpTo(0) = Own(0) /\ 0 \in Experts
      BY <1>1, <1>4
    <3>2. EndOf(b, 0) = Segment(b, 0)
      BY EndsAddUp
    <3>3. Cardinality(UpTo(0)) = Count(b, 0) /\ (0 + 1) * m = m
      BY <1>2, <1>6, <3>1
    <3>4. EndOf(b, 0) <= Cardinality(UpTo(0)) + (0 + 1) * m
      BY <1>7, <3>1, <3>2, <3>3
    <3>5. QED
      BY <3>4
  <2>3. ASSUME NEW i \in 1 .. n, i - 1 \in P PROVE i \in P
    <3>1. i \in Experts /\ i - 1 \in Experts /\ i \in 1 .. NumExperts - 1
      BY <1>1
    <3>2. EndOf(b, i) = EndOf(b, i - 1) + Segment(b, i)
      BY <3>1, EndsAddUp
    <3>3. EndOf(b, i - 1) <= Cardinality(UpTo(i - 1)) + i * m
      BY <2>3
    <3>4. UpTo(i) = UpTo(i - 1) \cup Own(i) /\ UpTo(i - 1) \cap Own(i) = {}
      BY <1>4
    <3>5. Cardinality(UpTo(i)) = Cardinality(UpTo(i - 1)) + Count(b, i)
      <4> HIDE DEF UpTo, Own
      <4>1. Cardinality(UpTo(i - 1) \cup Own(i))
              = Cardinality(UpTo(i - 1)) + Cardinality(Own(i)) - Cardinality(UpTo(i - 1) \cap Own(i))
        BY <1>5, <1>6, FS_Union
      <4>2. Cardinality(UpTo(i - 1) \cap Own(i)) = 0
        BY <3>4, FS_EmptySet
      <4>3. Cardinality(UpTo(i - 1)) \in Nat /\ Count(b, i) \in Nat
        BY <1>5, <1>7, <3>1
      <4>4. QED
        BY <1>6, <3>4, <4>1, <4>2, <4>3
    <3>6. (i + 1) * m = i * m + m /\ i * m \in Nat
      OBVIOUS
    <3>7. /\ EndOf(b, i - 1) \in Nat /\ Segment(b, i) \in Nat /\ Count(b, i) \in Nat
          /\ Segment(b, i) <= Count(b, i) + m /\ Cardinality(UpTo(i - 1)) \in Nat
      BY <1>5, <1>7, <3>1
    <3> HIDE DEF UpTo
    <3>8. EndOf(b, i) <= Cardinality(UpTo(i)) + (i + 1) * m
      BY <3>2, <3>3, <3>5, <3>6, <3>7
    <3>9. i \in Nat
      OBVIOUS
    <3>10. QED
      BY <3>8, <3>9
  <2> HIDE DEF P
  <2>4. QED
    BY <2>1, <2>2, <2>3, IntervalInduction
<1>9. EndOf(b, n) <= pairs + NumExperts * m
  <2>1. n \in P /\ n \in Experts
    BY <1>1, <1>8
  <2>2. EndOf(b, n) <= Cardinality(UpTo(n)) + (n + 1) * m
    BY <2>1
  <2>3. Cardinality(UpTo(n)) \in Nat /\ Cardinality(UpTo(n)) <= pairs /\ EndOf(b, n) \in Nat
        /\ (n + 1) * m \in Nat
    <3> HIDE DEF UpTo, Own
    <3>1. (n + 1) * m \in Nat
      OBVIOUS
    <3>2. QED
      BY <1>5, <1>7, <2>1, <3>1
  <2> HIDE DEF UpTo
  <2>4. QED
    BY <1>1, <2>2, <2>3
<1>10. PICK need \in Nat : need = pairs + NumExperts * m
  BY <1>1
<1>11. PICK d \in Int : d = (need + BlockM - 1) \div BlockM
  BY <1>2
<1>12. Room(b) = d * BlockM
  BY <1>2, <1>3, <1>10, <1>11 DEF Room, Capacity
<1>13. d * BlockM >= need /\ BlockM \in Nat \ {0}
  BY <1>2, <1>11, TilesHold
<1>14. d \in Nat
  <2>1. ~ (d < 0)
    <3>1. SUFFICES ASSUME d < 0 PROVE FALSE
      OBVIOUS
    <3>2. d * BlockM + BlockM <= 0 * BlockM /\ d * BlockM \in Int
      BY <1>13, <3>1, ProductGrows
    <3>3. QED
      BY <1>13, <3>2
  <2>2. QED
    BY <2>1
<1>15. Room(b) \in Nat /\ Room(b) >= need
  BY <1>12, <1>13, <1>14
<1>16. ASSUME NEW e \in Experts PROVE EndOf(b, e) <= Room(b)
  <2>1. n \in Experts /\ EndOf(b, n) \in Nat /\ EndOf(b, e) \in Nat /\ EndOf(b, n) <= need
    BY <1>1, <1>7, <1>9, <1>10
  <2>2. EndOf(b, e) <= EndOf(b, n)
    <3>1. CASE e = n
      BY <2>1, <3>1
    <3>2. CASE e # n
      <4>1. e < n
        BY <1>1, <3>2
      <4>2. EndOf(b, e) <= StartOf(b, n) /\ StartOf(b, n) \in Nat
            /\ StartOf(b, n) + Count(b, n) <= EndOf(b, n) /\ Count(b, n) \in Nat
        BY <2>1, <4>1, RunsFollow
      <4>3. QED
        BY <2>1, <4>2
    <3>3. QED
      BY <3>1, <3>2
  <2>3. QED
    BY <1>15, <2>1, <2>2
<1>17. QED
  BY <1>12, <1>14, <1>15, <1>16

\* The segments, and the search of an expert by a position.
SegmentOf(rows, e) ==
    [expert |-> e, count |-> Count(rows, e), start |-> StartOf(rows, e), end |-> EndOf(rows, e)]
Segments(rows) == {SegmentOf(rows, e) : e \in Experts}
SlotAt(rows, p) == Cardinality({s \in Segments(rows) : s.end <= p})
\* The search finds the expert before whose end a position is.
LEMMA SlotCounts ==
    ASSUME NEW b, NEW p, NEW k \in 0 .. NumExperts,
           \A e \in Experts : EndOf(b, e) <= p <=> e < k
    PROVE  SlotAt(b, p) = k
<1> DEFINE T == {s \in Segments(b) : s.end <= p}
           f == [e \in 0 .. k - 1 |-> SegmentOf(b, e)]
<1>1. NumExperts \in Nat /\ Experts = 0 .. NumExperts - 1
  BY ShapesAssumption DEF Experts
<1>2. \A e : SegmentOf(b, e).end = EndOf(b, e) /\ SegmentOf(b, e).expert = e
  BY DEF SegmentOf
<1>3. \A e \in 0 .. k - 1 : e \in Experts /\ EndOf(b, e) <= p
  BY <1>1
<1>4. f \in Injection(0 .. k - 1, T)
  <2>1. \A e \in 0 .. k - 1 : f[e] \in T /\ f[e].expert = e
    BY <1>2, <1>3 DEF Segments
  <2>2. f \in [0 .. k - 1 -> T]
    <3> HIDE DEF T
    <3>1. QED
      BY <2>1
  <2> HIDE DEF f, T
  <2>3. QED
    BY <2>1, <2>2 DEF Injection, IsInjective
<1>5. f \in Surjection(0 .. k - 1, T)
  <2>1. ASSUME NEW s \in T PROVE \E e \in 0 .. k - 1 : f[e] = s
    <3>1. PICK e \in Experts : s = SegmentOf(b, e)
      BY DEF Segments
    <3>2. EndOf(b, e) <= p
      BY <1>2, <3>1
    <3>3. e \in 0 .. k - 1
      BY <1>1, <3>2
    <3>4. QED
      BY <3>1, <3>3
  <2>2. f \in [0 .. k - 1 -> T]
    BY <1>4 DEF Injection
  <2> HIDE DEF f, T
  <2>3. QED
    BY <2>1, <2>2 DEF Surjection
<1>6. IsFiniteSet(0 .. k - 1) /\ Cardinality(0 .. k - 1) = k
  BY FS_Interval
<1>7. Cardinality(T) = k
  <2>1. f \in Bijection(0 .. k - 1, T)
    BY <1>4, <1>5 DEF Bijection
  <2> HIDE DEF f, T
  <2>2. QED
    BY <1>6, <2>1, FS_Bijection DEF ExistsBijection
<1>8. QED
  BY <1>7 DEF SlotAt

\* Every position before an expert's end and not before its start is found to be its own.
LEMMA SlotInRun ==
    ASSUME NEW b \in Seq(Rows), NEW e \in Experts, NEW p \in Int,
           StartOf(b, e) <= p, p < EndOf(b, e)
    PROVE  SlotAt(b, p) = e
<1>1. e \in 0 .. NumExperts /\ NumExperts \in Nat /\ Experts = 0 .. NumExperts - 1
  BY ShapesAssumption DEF Experts
<1>2. ASSUME NEW x \in Experts PROVE EndOf(b, x) <= p <=> x < e
  <2>1. EndOf(b, x) \in Nat /\ EndOf(b, e) \in Nat /\ StartOf(b, e) \in Nat
        /\ StartOf(b, x) \in Nat /\ Count(b, x) \in Nat
        /\ StartOf(b, x) + Count(b, x) <= EndOf(b, x)
    BY RunsFollow
  <2>2. CASE x < e
    <3>1. EndOf(b, x) <= StartOf(b, e)
      BY <2>2, RunsFollow
    <3>2. QED
      BY <2>1, <2>2, <3>1
  <2>3. CASE x = e
    BY <1>1, <2>1, <2>3
  <2>4. CASE e < x
    <3>1. EndOf(b, e) <= StartOf(b, x)
      BY <2>4, RunsFollow
    <3>2. QED
      BY <1>1, <2>1, <2>4, <3>1
  <2>5. QED
    BY <1>1, <2>2, <2>3, <2>4
<1>3. QED
  BY <1>1, <1>2, SlotCounts

\* A position that is found to be an expert's is in its segment.
LEMMA PositionIsSomewhere ==
    ASSUME NEW b \in Seq(Rows), NEW p \in Nat, SlotAt(b, p) \in Experts
    PROVE  StartOf(b, SlotAt(b, p)) <= p /\ p < EndOf(b, SlotAt(b, p))
<1>1. PICK n \in Nat : n = NumExperts - 1 /\ Experts = 0 .. n /\ NumExperts = n + 1
  <2>1. NumExperts - 1 \in Nat /\ NumExperts = (NumExperts - 1) + 1
    BY ShapesAssumption
  <2>2. QED
    BY <2>1 DEF Experts
<1> DEFINE after == {e \in Experts : p < EndOf(b, e)}
<1>2. after # {}
  <2>1. SUFFICES ASSUME after = {} PROVE FALSE
    OBVIOUS
  <2>2. \A e \in Experts : EndOf(b, e) <= p <=> e < NumExperts
    <3>1. \A e \in Experts : ~ (p < EndOf(b, e))
      BY <2>1
    <3>2. \A e \in Experts : EndOf(b, e) \in Nat /\ e < NumExperts
      BY <1>1, RunsFollow
    <3>3. QED
      BY <3>1, <3>2
  <2>3. SlotAt(b, p) = NumExperts
    BY <1>1, <2>2, SlotCounts
  <2>4. QED
    BY <1>1, <2>3
<1>3. PICK e \in after : \A x \in after : e <= x
  <2>1. after \in SUBSET Nat
    BY <1>1
  <2>2. PICK x \in after : \A y \in after : <<y, x>> \notin Less
    <3>1. IsWellFoundedOn(Less, Nat)
      BY NatLessThanWellFounded DEF OpToRel, Less
    <3>2. QED
      BY <1>2, <2>1, <3>1, WFMin
  <2>3. \A y \in after : ~ (y < x) /\ y \in Nat /\ x \in Nat
    BY <2>1, <2>2 DEF Less
  <2>4. QED
    BY <2>3
<1>4. StartOf(b, e) <= p
  <2>1. CASE e = 0
    BY <2>1, RunsFollow
  <2>2. CASE e # 0
    <3>1. e \in 1 .. NumExperts - 1 /\ e - 1 \in Experts /\ ~ (e <= e - 1)
      BY <1>1, <2>2
    <3>2. ~ (p < EndOf(b, e - 1))
      BY <1>3, <3>1
    <3>3. StartOf(b, e) = EndOf(b, e - 1) /\ EndOf(b, e - 1) \in Nat
      BY <3>1, RunsFollow
    <3>4. QED
      BY <3>2, <3>3
  <2>3. QED
    BY <2>1, <2>2
<1>5. SlotAt(b, p) = e
  BY <1>4, SlotInRun
<1>6. QED
  BY <1>4, <1>5

\* Pairs of the same expert before a pair, and the place in the padded order
\* that this gives the pair.
EarlierOf(rows, q) == {r \in Pairs(rows) : ExpertOf(rows, r) = ExpertOf(rows, q) /\ r < q}
PositionOf(rows, q) == StartOf(rows, ExpertOf(rows, q)) + Cardinality(EarlierOf(rows, q))
BeforeOf(rows, q) ==
    {r \in Pairs(rows) : \/ ExpertOf(rows, r) < ExpertOf(rows, q)
                         \/ ExpertOf(rows, r) = ExpertOf(rows, q) /\ r < q}
ValidAt(rows) ==
    {p \in 0 .. Room(rows) - 1 :
       \E s \in Segments(rows) : s.expert = SlotAt(rows, p) /\ p - s.start < s.count}
\* The pairs of an expert have the places of its run, in their own order.
LEMMA RunOfExpert ==
    ASSUME NEW b \in Seq(Rows), NEW e \in Experts
    PROVE  /\ \A q \in Pairs(b) : ExpertOf(b, q) = e => Cardinality(EarlierOf(b, q)) \in 0 .. Count(b, e) - 1
           /\ \A q, r \in Pairs(b) : ExpertOf(b, q) = e /\ ExpertOf(b, r) = e =>
                (Cardinality(EarlierOf(b, q)) < Cardinality(EarlierOf(b, r)) <=> q < r)
           /\ \A k \in 0 .. Count(b, e) - 1 :
                \E q \in Pairs(b) : ExpertOf(b, q) = e /\ Cardinality(EarlierOf(b, q)) = k
<1> DEFINE S == {q \in Pairs(b) : ExpertOf(b, q) = e}
           before == [q \in S |-> EarlierOf(b, q)]
<1>1. S \in SUBSET Int /\ IsFiniteSet(S)
  <2>1. S \in SUBSET Pairs(b) /\ IsFiniteSet(Pairs(b)) /\ Pairs(b) \subseteq Nat
    BY PairsOfRows
  <2> HIDE DEF S
  <2>2. QED
    BY <2>1, FS_Subset
<1>2. Cardinality(S) = Count(b, e)
  BY DEF Count, ExpertOf
<1>3. before \in [S -> SUBSET S]
  BY DEF EarlierOf
<1>4. \A q, r \in S : q \in before[r] <=> q < r
  BY DEF EarlierOf
<1>5. /\ \A q \in S : Cardinality(before[q]) \in 0 .. Cardinality(S) - 1
      /\ \A q, r \in S : Cardinality(before[q]) < Cardinality(before[r]) <=> q < r
      /\ \A k \in 0 .. Cardinality(S) - 1 : \E q \in S : Cardinality(before[q]) = k
  <2> HIDE DEF S, before
  <2>1. QED
    BY <1>1, <1>3, <1>4, PlacesOfNumbers
<1>6. \A q \in S : before[q] = EarlierOf(b, q)
  OBVIOUS
<1> HIDE DEF before
<1>7. QED
  BY <1>2, <1>5, <1>6

\* Pairs have positions of their own, in the order of the sort.
LEMMA PositionsInOrder ==
    ASSUME NEW b \in Seq(Rows)
    PROVE  /\ \A q \in Pairs(b) :
                /\ PositionOf(b, q) \in Nat
                /\ StartOf(b, ExpertOf(b, q)) <= PositionOf(b, q)
                /\ PositionOf(b, q) < StartOf(b, ExpertOf(b, q)) + Count(b, ExpertOf(b, q))
                /\ PositionOf(b, q) < EndOf(b, ExpertOf(b, q))
           /\ \A q, r \in Pairs(b) : PositionOf(b, q) < PositionOf(b, r) <=> q \in BeforeOf(b, r)
           /\ \A q, r \in Pairs(b) : PositionOf(b, q) = PositionOf(b, r) => q = r
<1>1. \A q \in Pairs(b) : ExpertOf(b, q) \in Experts /\ q \in Nat
  BY PairsOfRows
<1>2. Experts \subseteq Nat
  BY DEF Experts
<1>3. ASSUME NEW q \in Pairs(b)
      PROVE  /\ PositionOf(b, q) \in Nat
             /\ StartOf(b, ExpertOf(b, q)) <= PositionOf(b, q)
             /\ PositionOf(b, q) < StartOf(b, ExpertOf(b, q)) + Count(b, ExpertOf(b, q))
             /\ PositionOf(b, q) < EndOf(b, ExpertOf(b, q))
  <2>1. PICK e \in Experts : e = ExpertOf(b, q)
    BY <1>1
  <2>2. Cardinality(EarlierOf(b, q)) \in 0 .. Count(b, e) - 1
    BY <2>1, RunOfExpert
  <2>3. StartOf(b, e) \in Nat /\ Count(b, e) \in Nat /\ EndOf(b, e) \in Nat
        /\ StartOf(b, e) + Count(b, e) <= EndOf(b, e)
    BY RunsFollow
  <2>4. PositionOf(b, q) = StartOf(b, e) + Cardinality(EarlierOf(b, q))
    BY <2>1 DEF PositionOf
  <2>5. QED
    BY <2>1, <2>2, <2>3, <2>4
<1>4. ASSUME NEW q \in Pairs(b), NEW r \in Pairs(b), q \in BeforeOf(b, r)
      PROVE  PositionOf(b, q) < PositionOf(b, r)
  <2>1. PICK e \in Experts : e = ExpertOf(b, q)
    BY <1>1
  <2>2. PICK f \in Experts : f = ExpertOf(b, r)
    BY <1>1
  <2>3. /\ StartOf(b, e) \in Nat /\ Count(b, e) \in Nat /\ EndOf(b, e) \in Nat
        /\ StartOf(b, e) + Count(b, e) <= EndOf(b, e) /\ StartOf(b, f) \in Nat
    BY RunsFollow
  <2>4. CASE e < f
    <3>1. EndOf(b, e) <= StartOf(b, f)
      BY <2>4, RunsFollow
    <3>2. PositionOf(b, q) < EndOf(b, e) /\ StartOf(b, f) <= PositionOf(b, r)
          /\ PositionOf(b, q) \in Nat /\ PositionOf(b, r) \in Nat
      BY <1>3, <2>1, <2>2
    <3>3. QED
      BY <2>3, <3>1, <3>2
  <2>5. CASE e = f /\ q < r
    <3>1. Cardinality(EarlierOf(b, q)) < Cardinality(EarlierOf(b, r))
      BY <2>1, <2>2, <2>5, RunOfExpert
    <3>2. Cardinality(EarlierOf(b, q)) \in Int /\ Cardinality(EarlierOf(b, r)) \in Int
      <4>1. Cardinality(EarlierOf(b, q)) \in 0 .. Count(b, e) - 1
            /\ Cardinality(EarlierOf(b, r)) \in 0 .. Count(b, e) - 1
        BY <2>1, <2>2, <2>5, RunOfExpert
      <4>2. QED
        BY <4>1
    <3>3. PositionOf(b, q) = StartOf(b, e) + Cardinality(EarlierOf(b, q))
          /\ PositionOf(b, r) = StartOf(b, e) + Cardinality(EarlierOf(b, r))
      BY <2>1, <2>2, <2>5 DEF PositionOf
    <3>4. QED
      BY <2>3, <3>1, <3>2, <3>3
  <2>6. QED
    BY <1>4, <2>1, <2>2, <2>4, <2>5 DEF BeforeOf
<1>5. \A q, r \in Pairs(b) : q = r \/ q \in BeforeOf(b, r) \/ r \in BeforeOf(b, q)
  <2>1. SUFFICES ASSUME NEW q \in Pairs(b), NEW r \in Pairs(b)
                 PROVE  q = r \/ q \in BeforeOf(b, r) \/ r \in BeforeOf(b, q)
    OBVIOUS
  <2>2. q \in Nat /\ r \in Nat /\ ExpertOf(b, q) \in Nat /\ ExpertOf(b, r) \in Nat
    BY <1>1, <1>2
  <2>3. QED
    BY <2>2 DEF BeforeOf
<1>6. ASSUME NEW q \in Pairs(b), NEW r \in Pairs(b)
      PROVE  /\ PositionOf(b, q) < PositionOf(b, r) <=> q \in BeforeOf(b, r)
             /\ PositionOf(b, q) = PositionOf(b, r) => q = r
  <2>1. PositionOf(b, q) \in Nat /\ PositionOf(b, r) \in Nat
    BY <1>3
  <2>2. q \in BeforeOf(b, r) => PositionOf(b, q) < PositionOf(b, r)
    BY <1>4
  <2>3. r \in BeforeOf(b, q) => PositionOf(b, r) < PositionOf(b, q)
    BY <1>4
  <2>4. q = r \/ q \in BeforeOf(b, r) \/ r \in BeforeOf(b, q)
    BY <1>5
  <2>5. QED
    BY <2>1, <2>2, <2>3, <2>4
<1>7. QED
  BY <1>3, <1>6

\* The valid positions are those of the pairs.
LEMMA ValidPositions ==
    ASSUME NEW b \in Seq(Rows)
    PROVE  ValidAt(b) = {PositionOf(b, q) : q \in Pairs(b)}
<1>1. ASSUME NEW q \in Pairs(b) PROVE PositionOf(b, q) \in ValidAt(b)
  <2>1. PICK e \in Experts : e = ExpertOf(b, q)
    BY PairsOfRows
  <2>2. PICK p \in Nat : p = PositionOf(b, q)
    BY PositionsInOrder
  <2>3. StartOf(b, e) <= p /\ p < StartOf(b, e) + Count(b, e) /\ p < EndOf(b, e)
    BY <2>1, <2>2, PositionsInOrder
  <2>4. EndOf(b, e) \in Nat /\ Room(b) \in Nat /\ EndOf(b, e) <= Room(b)
        /\ StartOf(b, e) \in Nat /\ Count(b, e) \in Nat
    BY RunsFollow, RunsFit
  <2>5. SlotAt(b, p) = e
    BY <2>3, SlotInRun
  <2>6. p \in 0 .. Room(b) - 1 /\ p - StartOf(b, e) < Count(b, e)
    BY <2>3, <2>4
  <2>7. SegmentOf(b, e) \in Segments(b) /\ SegmentOf(b, e).expert = e
        /\ SegmentOf(b, e).start = StartOf(b, e) /\ SegmentOf(b, e).count = Count(b, e)
    BY DEF Segments, SegmentOf
  <2>8. QED
    BY <2>2, <2>5, <2>6, <2>7 DEF ValidAt
<1>2. ASSUME NEW p \in ValidAt(b) PROVE \E q \in Pairs(b) : p = PositionOf(b, q)
  <2>1. p \in Nat
    BY DEF ValidAt
  <2>2. PICK e \in Experts : SlotAt(b, p) = e /\ p - StartOf(b, e) < Count(b, e)
    <3>1. PICK s \in Segments(b) : s.expert = SlotAt(b, p) /\ p - s.start < s.count
      BY DEF ValidAt
    <3>2. PICK e \in Experts : s = SegmentOf(b, e)
      BY <3>1 DEF Segments
    <3>3. s.expert = e /\ s.start = StartOf(b, e) /\ s.count = Count(b, e)
      BY <3>2 DEF SegmentOf
    <3>4. QED
      BY <3>1, <3>3
  <2>3. StartOf(b, e) <= p
    BY <2>1, <2>2, PositionIsSomewhere
  <2>4. StartOf(b, e) \in Nat /\ Count(b, e) \in Nat
    BY RunsFollow
  <2>5. PICK k \in 0 .. Count(b, e) - 1 : p = StartOf(b, e) + k
    <3>1. p - StartOf(b, e) \in 0 .. Count(b, e) - 1 /\ p = StartOf(b, e) + (p - StartOf(b, e))
      BY <2>1, <2>2, <2>3, <2>4
    <3>2. QED
      BY <3>1
  <2>6. PICK q \in Pairs(b) : ExpertOf(b, q) = e /\ Cardinality(EarlierOf(b, q)) = k
    BY RunOfExpert
  <2>7. QED
    BY <2>5, <2>6 DEF PositionOf
<1>3. QED
  BY <1>1, <1>2

\* The n-th valid position is the one of the n-th pair of the sort.
LEMMA NthPair ==
    ASSUME NEW b \in Seq(Rows), NEW q \in Pairs(b), NEW r \in Pairs(b)
    PROVE  Cardinality({v \in ValidAt(b) : v < PositionOf(b, r)}) = Cardinality(BeforeOf(b, q)) <=> q = r
<1> DEFINE T == {v \in ValidAt(b) : v < PositionOf(b, r)}
           B == BeforeOf(b, r)
           f == [x \in B |-> PositionOf(b, x)]
<1>1. B \subseteq Pairs(b) /\ IsFiniteSet(Pairs(b)) /\ IsFiniteSet(B)
  <2>1. B \in SUBSET Pairs(b)
    BY DEF BeforeOf
  <2>2. IsFiniteSet(Pairs(b))
    BY PairsOfRows
  <2>3. QED
    BY <2>1, <2>2, FS_Subset
<1>2. f \in [B -> T]
  BY <1>1, ValidPositions, PositionsInOrder
<1>3. f \in Injection(B, T)
  <2>1. \A x, y \in B : f[x] = f[y] => x = y
    BY <1>1, PositionsInOrder
  <2> HIDE DEF f, T, B
  <2>2. QED
    BY <1>2, <2>1 DEF Injection, IsInjective
<1>4. f \in Surjection(B, T)
  <2>1. ASSUME NEW v \in T PROVE \E x \in B : f[x] = v
    <3>1. PICK x \in Pairs(b) : v = PositionOf(b, x)
      BY ValidPositions
    <3>2. x \in B
      BY <3>1, PositionsInOrder
    <3>3. QED
      BY <3>1, <3>2
  <2> HIDE DEF f, T, B
  <2>2. QED
    BY <1>2, <2>1 DEF Surjection
<1>5. Cardinality(T) = Cardinality(B)
  <2> HIDE DEF f, T, B
  <2>1. QED
    BY <1>1, <1>3, <1>4, FS_Bijection DEF Bijection, ExistsBijection
<1> DEFINE before == [x \in Pairs(b) |-> BeforeOf(b, x)]
<1>6. before \in [Pairs(b) -> SUBSET Pairs(b)]
  BY DEF BeforeOf
<1>7. \A x, y \in Pairs(b) : x \in before[y] <=> PositionOf(b, x) < PositionOf(b, y)
  BY PositionsInOrder
<1>8. \A x \in Pairs(b) : PositionOf(b, x) \in Nat
  BY PositionsInOrder
<1>9. \A x, y \in Pairs(b) : PositionOf(b, x) = PositionOf(b, y) => x = y
  BY PositionsInOrder
<1>10. before[q] = BeforeOf(b, q) /\ before[r] = B
  OBVIOUS
<1> HIDE DEF before, B, T
<1>11. Cardinality(before[q]) = Cardinality(before[r]) => q = r
  <2>1. /\ \A x \in Pairs(b) : x \notin before[x]
        /\ \A x, y, z \in Pairs(b) : x \in before[y] /\ y \in before[z] => x \in before[z]
        /\ \A x, y \in Pairs(b) : x = y \/ x \in before[y] \/ y \in before[x]
    BY <1>7, <1>8, <1>9
  <2>2. QED
    BY <1>1, <1>6, <2>1, PlacesInOrder
<1>12. QED
  BY <1>5, <1>10, <1>11 DEF T, B

\* A block reads the weights of the expert whose pairs are in it.
LEMMA BlockOfPair ==
    ASSUME NEW b \in Seq(Rows), NEW q \in Pairs(b)
    PROVE  /\ PositionOf(b, q) \div BlockM \in 0 .. (Room(b) \div BlockM) - 1
           /\ SlotAt(b, (PositionOf(b, q) \div BlockM) * BlockM) = ExpertOf(b, q)
<1>1. BlockM \in Nat \ {0}
  BY ShapesAssumption
<1>2. PICK e \in Experts : e = ExpertOf(b, q)
  BY PairsOfRows
<1>3. PICK p \in Nat : p = PositionOf(b, q)
  BY PositionsInOrder
<1>4. StartOf(b, e) <= p /\ p < EndOf(b, e)
  BY <1>2, <1>3, PositionsInOrder
<1>5. EndOf(b, e) \in Nat /\ Room(b) \in Nat /\ EndOf(b, e) <= Room(b) /\ StartOf(b, e) \in Nat
  BY RunsFollow, RunsFit
<1>6. PICK k \in Nat : StartOf(b, e) = k * BlockM
  BY RunsFollow
<1>7. PICK c \in Nat : Room(b) = c * BlockM
  BY RunsFit
<1>8. PICK d \in Int, r \in 0 .. BlockM - 1 : d = p \div BlockM /\ r = p % BlockM /\ p = d * BlockM + r
  <2>1. p \in Int
    OBVIOUS
  <2>2. QED
    BY <1>1, <2>1, Division
<1>9. d * BlockM \in Int /\ k * BlockM \in Int /\ c * BlockM \in Int
  BY <1>1
<1>10. k <= d
  <2>1. SUFFICES ASSUME d < k PROVE FALSE
    OBVIOUS
  <2>2. d * BlockM + BlockM <= k * BlockM
    BY <1>1, <2>1, ProductGrows
  <2>3. QED
    BY <1>1, <1>4, <1>6, <1>8, <1>9, <2>2
<1>11. d < c
  <2>1. SUFFICES ASSUME c <= d PROVE FALSE
    OBVIOUS
  <2>2. c * BlockM <= d * BlockM
    <3>1. CASE c = d
      BY <1>9, <3>1
    <3>2. CASE c < d
      <4>1. c * BlockM + BlockM <= d * BlockM
        BY <1>1, <3>2, ProductGrows
      <4>2. QED
        BY <1>1, <1>9, <4>1
    <3>3. QED
      BY <2>1, <3>1, <3>2
  <2>3. QED
    BY <1>1, <1>4, <1>5, <1>7, <1>8, <1>9, <2>2
<1>12. k * BlockM <= d * BlockM
  <2>1. CASE k = d
    BY <1>9, <2>1
  <2>2. CASE k < d
    <3>1. k * BlockM + BlockM <= d * BlockM
      BY <1>1, <2>2, ProductGrows
    <3>2. QED
      BY <1>1, <1>9, <3>1
  <2>3. QED
    BY <1>10, <2>1, <2>2
<1>13. SlotAt(b, d * BlockM) = e
  <2>1. PICK x \in Int : x = d * BlockM
    BY <1>9
  <2>2. StartOf(b, e) <= x /\ x < EndOf(b, e)
    <3>1. p = x + r /\ StartOf(b, e) <= x
      BY <1>6, <1>8, <1>12, <2>1
    <3>2. QED
      BY <1>4, <1>5, <3>1
  <2>3. SlotAt(b, x) = e
    BY <2>2, SlotInRun
  <2>4. QED
    BY <2>1, <2>3
<1>14. Room(b) \div BlockM = c
  <2>1. (c * BlockM + 0) \div BlockM = c
    BY <1>1, QuotientOf
  <2>2. c * BlockM + 0 = c * BlockM
    BY <1>9
  <2>3. QED
    BY <1>7, <2>1, <2>2
<1>15. d \in 0 .. c - 1
  BY <1>10, <1>11
<1>16. QED
  BY <1>2, <1>3, <1>8, <1>13, <1>14, <1>15

\* Every pair is at its own position, every block has the expert that a search
\* for its first position finds.
LEMMA Aligned ==
    ASSUME NEW b \in Seq(Rows)
    PROVE  /\ AlignPairs(b, Room(b)).pairs = {<<PositionOf(b, q), q>> : q \in Pairs(b)}
           /\ AlignPairs(b, Room(b)).blocks =
                {<<k, SlotAt(b, k * BlockM)>> : k \in 0 .. (Room(b) \div BlockM) - 1}
<1> DEFINE ends == SegmentEnds(b)
           segments == {[expert |-> e, count |-> Count(b, e),
                         start |-> ends[e] - Segment(b, e), end |-> ends[e]] : e \in Experts}
           Slot(p) == Cardinality({s \in segments : s.end <= p})
           valid == {p \in 0 .. Room(b) - 1 :
                       \E s \in segments : s.expert = Slot(p) /\ p - s.start < s.count}
           pairs == {pq \in valid \X Pairs(b) :
                       <<Cardinality({v \in valid : v < pq[1]}), pq[2]>> \in Places(b)}
           blocks == {<<k, Slot(k * BlockM)>> : k \in 0 .. (Room(b) \div BlockM) - 1}
<1>1. AlignPairs(b, Room(b)) = [pairs |-> pairs, blocks |-> blocks]
  BY DEF AlignPairs
<1>2. segments = Segments(b)
  BY DEF Segments, SegmentOf, StartOf, EndOf
<1>3. \A p : Slot(p) = SlotAt(b, p)
  <2> HIDE DEF segments
  <2>1. QED
    BY <1>2 DEF SlotAt
<1>4. valid = ValidAt(b)
  <2> HIDE DEF segments, Slot
  <2>1. QED
    BY <1>2, <1>3 DEF ValidAt
<1>5. Places(b) = {<<Cardinality(BeforeOf(b, q)), q>> : q \in Pairs(b)}
  BY DEF Places, BeforeOf, ExpertOf
<1>6. pairs = {<<PositionOf(b, q), q>> : q \in Pairs(b)}
  <2> HIDE DEF valid
  <2>1. ASSUME NEW q \in Pairs(b) PROVE <<PositionOf(b, q), q>> \in pairs
    <3>1. PositionOf(b, q) \in valid
      BY <1>4, ValidPositions
    <3>2. Cardinality({v \in valid : v < PositionOf(b, q)}) = Cardinality(BeforeOf(b, q))
      BY <1>4, NthPair
    <3>3. QED
      BY <1>5, <3>1, <3>2
  <2>2. ASSUME NEW x \in pairs PROVE \E q \in Pairs(b) : x = <<PositionOf(b, q), q>>
    <3>1. PICK p \in valid, q \in Pairs(b) : x = <<p, q>>
      OBVIOUS
    <3>2. PICK r \in Pairs(b) : p = PositionOf(b, r)
      BY <1>4, <3>1, ValidPositions
    <3>3. Cardinality({v \in valid : v < PositionOf(b, r)}) = Cardinality(BeforeOf(b, q))
      BY <1>5, <3>1, <3>2
    <3>4. q = r
      BY <1>4, <3>3, NthPair
    <3>5. QED
      BY <3>1, <3>2, <3>4
  <2> HIDE DEF pairs
  <2>3. QED
    BY <2>1, <2>2
<1>7. blocks = {<<k, SlotAt(b, k * BlockM)>> : k \in 0 .. (Room(b) \div BlockM) - 1}
  <2> HIDE DEF Slot
  <2>1. QED
    BY <1>3
<1> HIDE DEF pairs, blocks
<1>8. QED
  BY <1>1, <1>6, <1>7

\* The table of powers is what its recursion says.
LEMMA PowersDouble ==
    /\ Power2[0] = 1
    /\ \A i \in 1 .. 255 : Power2[i] = 2 * Power2[i - 1]
    /\ \A i \in 0 .. 255 : Power2[i] \in Nat
<1> DEFINE step == [x \in Nat \X (1 .. 255) |-> 2 * x[1]]
           R(f) == f = [n \in 0 .. 255 |-> IF n = 0 THEN 1 ELSE 2 * f[n - 1]]
<1>1. step \in [Nat \X (1 .. 255) -> Nat]
  OBVIOUS
<1>2. PICK f \in [0 .. 255 -> Nat] :
         f[0] = 1 /\ \A i \in 1 .. 255 : f[i] = step[<<f[i - 1], i>>]
  <2> HIDE DEF step
  <2>1. PICK base \in Nat, last \in Nat : base = 1 /\ last = 255
    OBVIOUS
  <2>2. step \in [Nat \X (1 .. last) -> Nat]
    BY <1>1, <2>1
  <2>3. PICK f \in [0 .. last -> Nat] :
           f[0] = base /\ \A i \in 1 .. last : f[i] = step[<<f[i - 1], i>>]
    BY <2>2, RecursionSolved, Zenon
  <2>4. QED
    BY <2>1, <2>3
<1>3. ASSUME NEW i \in 1 .. 255 PROVE f[i] = 2 * f[i - 1]
  <2>1. f[i - 1] \in Nat
    OBVIOUS
  <2>2. step[<<f[i - 1], i>>] = 2 * f[i - 1]
    BY <2>1
  <2>3. QED
    BY <1>2, <2>2
<1>4. R(f)
  <2> DEFINE g == [n \in 0 .. 255 |-> IF n = 0 THEN 1 ELSE 2 * f[n - 1]]
  <2>1. ASSUME NEW n \in 0 .. 255 PROVE f[n] = g[n]
    <3>1. CASE n = 0
      BY <1>2, <3>1
    <3>2. CASE n # 0
      <4>1. n \in 1 .. 255 /\ g[n] = 2 * f[n - 1]
        BY <3>2
      <4>2. QED
        BY <1>3, <4>1
    <3>3. QED
      BY <3>1, <3>2
  <2>2. g = [n \in 0 .. 255 |-> g[n]] /\ f = [n \in 0 .. 255 |-> f[n]]
    OBVIOUS
  <2> HIDE DEF g
  <2>3. f = g
    BY <2>1, <2>2
  <2>4. QED
    BY <2>3 DEF g
<1>5. Power2 = CHOOSE h : R(h)
  BY DEF Power2
<1>6. R(Power2)
  <2> HIDE DEF R
  <2>1. QED
    BY <1>4, <1>5
<1>7. Power2[0] = 1 /\ \A i \in 1 .. 255 : Power2[i] = 2 * Power2[i - 1]
  BY <1>6
<1> DEFINE P == {i \in Nat : i <= 255 => Power2[i] \in Nat}
<1>8. 0 .. 255 \subseteq P
  <2>1. P \in SUBSET Nat /\ 0 \in P
    BY <1>7
  <2>2. ASSUME NEW i \in 1 .. 255, i - 1 \in P PROVE i \in P
    BY <1>7, <2>2
  <2> HIDE DEF P
  <2>3. 255 \in Nat
    OBVIOUS
  <2>4. QED
    BY <2>1, <2>2, <2>3, IntervalInduction
<1>9. QED
  BY <1>7, <1>8

\* What the table of E8M0 bytes gives the kernel has the value of the byte, as far
\* as an E4M3 byte has that value at all.
LEMMA ScaleConverted ==
    ASSUME NEW x \in 118 .. 135
    PROVE  E4M3Value(E8M0ToE4M3(x)) = E8M0Value(x)
<1>1. Power2[0] = 1 /\ Power2[1] = 2 /\ Power2[2] = 4
  <2>1. Power2[0] = 1 /\ Power2[1] = 2 * Power2[0] /\ Power2[2] = 2 * Power2[1]
    BY PowersDouble
  <2>2. QED
    BY <2>1
<1>2. CASE x <= 120
  <2>1. E8M0ToE4M3(x) = Power2[x - 118]
    <3>1. x - 127 + 9 = x - 118 /\ ~ (x - 127 > 8) /\ ~ (x - 127 >= -6) /\ x - 127 >= -9
      BY <1>2
    <3>2. QED
      BY <3>1 DEF E8M0ToE4M3
  <2>2. x - 118 \in {0, 1, 2}
    BY <1>2
  <2>3. PICK byte : byte = Power2[x - 118] /\ byte \in {1, 2, 4}
    BY <1>1, <2>2
  <2>4. E4M3Value(byte) = byte
    BY <2>3 DEF E4M3Value
  <2>5. QED
    BY <2>1, <2>3, <2>4 DEF E8M0Value
<1>3. CASE x > 120
  <2>1. PICK k \in 1 .. 15 : x = k + 120
    <3>1. x - 120 \in 1 .. 15 /\ x = (x - 120) + 120
      BY <1>3
    <3>2. QED
      BY <3>1
  <2>2. E8M0ToE4M3(x) = k * 8
    <3>1. x - 127 + 7 = k /\ ~ (x - 127 > 8) /\ x - 127 >= -6
      BY <2>1
    <3>2. QED
      BY <3>1 DEF E8M0ToE4M3
  <2>3. ~ (k * 8 < 8) /\ (k * 8) % 8 = 0 /\ (k * 8) \div 8 = k
    OBVIOUS
  <2>4. E4M3Value(k * 8) = 8 * Power2[k - 1]
    <3>1. E4M3Value(k * 8) = (8 + 0) * Power2[k - 1]
      BY <2>3 DEF E4M3Value
    <3>2. QED
      BY <3>1
  <2>5. /\ Power2[k] = 2 * Power2[k - 1] /\ Power2[k + 1] = 2 * Power2[k]
        /\ Power2[k + 2] = 2 * Power2[k + 1] /\ Power2[k - 1] \in Nat
    <3>1. /\ k \in 1 .. 255 /\ k + 1 \in 1 .. 255 /\ k + 2 \in 1 .. 255 /\ k - 1 \in 0 .. 255
          /\ (k + 1) - 1 = k /\ (k + 2) - 1 = k + 1
      OBVIOUS
    <3>2. QED
      BY <3>1, PowersDouble
  <2>6. x - 118 = k + 2
    BY <2>1
  <2>7. E8M0Value(x) = Power2[k + 2]
    BY <2>6 DEF E8M0Value
  <2>8. PICK p \in Nat : p = Power2[k - 1]
    BY <2>5
  <2>9. QED
    BY <2>2, <2>4, <2>5, <2>7, <2>8
<1>4. QED
  BY <1>2, <1>3

\* The scales of every expert reach the Triton kernel.
LEMMA AllScalesRead ==
    ASSUME SampledScales \subseteq 118 .. 135
    PROVE  RightScales = Experts
<1>1. SUFFICES ASSUME NEW e \in Experts PROVE ScalesRead(e)
  BY DEF RightScales
<1>2. e \in Nat /\ RowsPerExpert \in Nat /\ HiddenSize \in Nat /\ SampledRows \subseteq Nat
  BY ShapesAssumption DEF Experts
<1>3. ASSUME NEW n \in SampledRows, NEW g \in 0 .. (HiddenSize \div 16) - 1
      PROVE  TritonAt(e * RowsPerExpert + n, g, HiddenSize)
               = SwizzledAt(e * RowsPerExpert + n, g, (HiddenSize \div 16) \div 4)
  <2>1. e * RowsPerExpert \in Nat
    BY <1>2
  <2>2. PICK row \in Nat : row = e * RowsPerExpert + n
    BY <1>2, <2>1
  <2>3. g \in Nat
    OBVIOUS
  <2>4. TritonAt(row, g, HiddenSize) = SwizzledAt(row, g, (HiddenSize \div 16) \div 4)
    BY <1>2, <2>3, TritonReadsWhatHostWrote
  <2>5. QED
    BY <2>2, <2>4
<1>4. \A x \in SampledScales : E4M3Value(E8M0ToE4M3(x)) = E8M0Value(x)
  BY ScaleConverted
<1>5. QED
  BY <1>3, <1>4 DEF ScalesRead

\* All that triton_moe adds up for a batch.
AddedBy(rows) ==
    {<<pb[1][1], TokenOf(pb[1][2]), SlotOf(pb[1][2]), pb[2][2]>> :
       pb \in {x \in AlignPairs(rows, Room(rows)).pairs \X AlignPairs(rows, Room(rows)).blocks :
         /\ x[2][1] = x[1][1] \div BlockM
         /\ x[2][2] \in RightScales
         /\ ValidId(Id(rows, x[1][2]))}}
\* Each valid slot is added once, at its position and with its own expert.
LEMMA AddedOnce ==
    ASSUME NEW b \in Seq(Rows), RightScales = Experts
    PROVE  AddedBy(b) =
             {<<PositionOf(b, q), TokenOf(q), SlotOf(q), Id(b, q)>> :
                q \in {r \in Pairs(b) : ValidId(Id(b, r))}}
<1> DEFINE A == AlignPairs(b, Room(b)).pairs
           B == AlignPairs(b, Room(b)).blocks
           X == {x \in A \X B : /\ x[2][1] = x[1][1] \div BlockM
                                /\ x[2][2] \in RightScales
                                /\ ValidId(Id(b, x[1][2]))}
           C == {<<pb[1][1], TokenOf(pb[1][2]), SlotOf(pb[1][2]), pb[2][2]>> : pb \in X}
           D == {<<PositionOf(b, q), TokenOf(q), SlotOf(q), Id(b, q)>> :
                   q \in {r \in Pairs(b) : ValidId(Id(b, r))}}
<1>1. A = {<<PositionOf(b, q), q>> : q \in Pairs(b)}
      /\ B = {<<k, SlotAt(b, k * BlockM)>> : k \in 0 .. (Room(b) \div BlockM) - 1}
  BY Aligned
<1>2. ASSUME NEW q \in Pairs(b), ValidId(Id(b, q)) PROVE ExpertOf(b, q) = Id(b, q) /\ Id(b, q) \in Experts
  <2>1. Id(b, q) \in Int /\ Id(b, q) \in 0 .. NumExperts - 1 /\ NumExperts \in Nat
    BY <1>2, PairsOfRows, ShapesAssumption DEF ValidId, Experts
  <2>2. QED
    BY <1>2, <2>1 DEF ExpertOf, Clamped, ValidId
<1>3. ASSUME NEW x \in X PROVE \E q \in Pairs(b) : /\ ValidId(Id(b, q))
          /\ <<x[1][1], TokenOf(x[1][2]), SlotOf(x[1][2]), x[2][2]>> = <<PositionOf(b, q), TokenOf(q), SlotOf(q), Id(b, q)>>
  <2> HIDE DEF A, B
  <2>1. x[1] \in A /\ x[2] \in B /\ x[2][1] = x[1][1] \div BlockM /\ ValidId(Id(b, x[1][2]))
    OBVIOUS
  <2> HIDE DEF X
  <2>2. PICK q \in Pairs(b) : x[1] = <<PositionOf(b, q), q>>
    BY <1>1, <2>1
  <2>3. PICK k \in 0 .. (Room(b) \div BlockM) - 1 : x[2] = <<k, SlotAt(b, k * BlockM)>>
    BY <1>1, <2>1
  <2>4. x[1][1] = PositionOf(b, q) /\ x[1][2] = q /\ x[2][1] = k /\ x[2][2] = SlotAt(b, k * BlockM)
    BY <2>2, <2>3
  <2>5. k = PositionOf(b, q) \div BlockM /\ ValidId(Id(b, q))
    BY <2>1, <2>4
  <2>6. x[2][2] = Id(b, q)
    BY <1>2, <2>4, <2>5, BlockOfPair
  <2>7. QED
    BY <2>4, <2>5, <2>6
<1>4. ASSUME NEW q \in Pairs(b), ValidId(Id(b, q))
      PROVE  \E x \in X : <<x[1][1], TokenOf(x[1][2]), SlotOf(x[1][2]), x[2][2]>> = <<PositionOf(b, q), TokenOf(q), SlotOf(q), Id(b, q)>>
  <2> HIDE DEF A, B
  <2> DEFINE k == PositionOf(b, q) \div BlockM
             x == <<<<PositionOf(b, q), q>>, <<k, SlotAt(b, k * BlockM)>>>>
  <2>1. k \in 0 .. (Room(b) \div BlockM) - 1 /\ SlotAt(b, k * BlockM) = Id(b, q) /\ Id(b, q) \in Experts
    BY <1>2, <1>4, BlockOfPair
  <2>2. x[1] \in A
    BY <1>1
  <2> HIDE DEF k
  <2>3. x[2] \in B
    BY <1>1, <2>1
  <2>4. x[2][1] = x[1][1] \div BlockM /\ x[2][2] \in RightScales /\ x[1][2] = q
    BY <2>1 DEF k
  <2>5. x \in A \X B
    BY <2>2, <2>3
  <2>6. x \in X
    BY <1>4, <2>4, <2>5
  <2>7. <<x[1][1], TokenOf(x[1][2]), SlotOf(x[1][2]), x[2][2]>> = <<PositionOf(b, q), TokenOf(q), SlotOf(q), Id(b, q)>>
    BY <2>1
  <2> HIDE DEF x, X
  <2>8. QED
    BY <2>6, <2>7
<1>5. AddedBy(b) = C
  BY DEF AddedBy
<1>6. C = D
  <2> HIDE DEF X
  <2>1. \A y : y \in C => y \in D
    BY <1>3
  <2>2. \A y : y \in D => y \in C
    BY <1>4
  <2> HIDE DEF C, D
  <2>3. QED
    BY <2>1, <2>2
<1>7. QED
  BY <1>5, <1>6

\* For any batch, number of experts and block size triton_moe gives each row
\* exactly: every valid slot is added up once, by the block of its own expert,
\* and the padding of a block adds nothing.
THEOREM TritonRowsExact ==
    ASSUME NEW b \in Seq(Rows), SampledScales \subseteq 118 .. 135
    PROVE  TritonRows(b) = [i \in 1 .. Len(b) |-> Exact(b[i])]
<1>1. TopK \in Nat \ {0} /\ Len(b) \in Nat /\ Len(b) * TopK \in Nat
  BY ShapesAssumption, PairsOfRows
<1> DEFINE F == [i \in 1 .. Len(b) |-> [t \in Terms |->
                   Cardinality({x \in AddedBy(b) : x[2] = i /\ x[3] = t[2] /\ x[4] = t[1]})]]
<1>2. TritonRows(b) = IF Len(b) * TopK = 0 THEN <<>> ELSE F
  BY DEF TritonRows, AddedBy, Room
<1>3. CASE Len(b) * TopK = 0
  <2>1. Len(b) = 0
    BY <1>1, <1>3
  <2>2. [i \in 1 .. Len(b) |-> Exact(b[i])] = <<>>
    BY <2>1
  <2>3. QED
    BY <1>2, <1>3, <2>2
<1>4. ASSUME NEW i \in 1 .. Len(b), NEW t \in Terms
      PROVE  Cardinality({x \in AddedBy(b) : x[2] = i /\ x[3] = t[2] /\ x[4] = t[1]})
               = IF b[i][t[2]] = t[1] THEN 1 ELSE 0
  <2> DEFINE S == {x \in AddedBy(b) : x[2] = i /\ x[3] = t[2] /\ x[4] = t[1]}
  <2>1. t[1] \in Experts /\ t[2] \in Slots
    BY DEF Terms
  <2>2. PICK q \in Pairs(b) : TokenOf(q) = i /\ SlotOf(q) = t[2]
    BY <2>1, PairsOfRows
  <2>3. Id(b, q) = b[i][t[2]]
    BY <2>2 DEF Id
  <2>4. ASSUME NEW x \in S
        PROVE  x = <<PositionOf(b, q), TokenOf(q), SlotOf(q), Id(b, q)>> /\ b[i][t[2]] = t[1]
    <3>1. PICK r \in Pairs(b) : x = <<PositionOf(b, r), TokenOf(r), SlotOf(r), Id(b, r)>>
      BY AddedOnce, AllScalesRead
    <3>2. TokenOf(r) = i /\ SlotOf(r) = t[2] /\ Id(b, r) = t[1]
      BY <3>1
    <3>3. r = q
      BY <2>2, <3>2, PairsOfRows
    <3>4. QED
      BY <2>3, <3>1, <3>2, <3>3
  <2>5. CASE b[i][t[2]] = t[1]
    <3>1. ValidId(Id(b, q))
      BY <2>1, <2>3, <2>5 DEF ValidId
    <3> DEFINE y == <<PositionOf(b, q), TokenOf(q), SlotOf(q), Id(b, q)>>
    <3>2. y \in AddedBy(b)
      BY <3>1, AddedOnce, AllScalesRead
    <3>3. y \in S
      BY <2>2, <2>3, <2>5, <3>2
    <3> HIDE DEF S
    <3>4. S = {y}
      BY <2>4, <3>3
    <3>5. QED
      BY <2>5, <3>4, FS_Singleton DEF S
  <2>6. CASE b[i][t[2]] # t[1]
    <3>1. S = {}
      <4> HIDE DEF S
      <4>1. QED
        BY <2>4, <2>6
    <3>2. QED
      BY <2>6, <3>1, FS_EmptySet
  <2>7. QED
    BY <2>5, <2>6
<1>5. CASE Len(b) * TopK # 0
  <2>1. ASSUME NEW i \in 1 .. Len(b) PROVE F[i] = Exact(b[i])
    <3>1. F[i] = [t \in Terms |-> Cardinality({x \in AddedBy(b) : x[2] = i /\ x[3] = t[2] /\ x[4] = t[1]})]
      OBVIOUS
    <3>2. F[i] = [t \in Terms |-> IF b[i][t[2]] = t[1] THEN 1 ELSE 0]
      BY <1>4, <3>1
    <3>3. QED
      BY <3>2 DEF Exact
  <2>2. F = [i \in 1 .. Len(b) |-> F[i]]
    OBVIOUS
  <2> HIDE DEF F
  <2>3. QED
    BY <1>2, <1>5, <2>1, <2>2
<1>6. QED
  BY <1>3, <1>5

-----------------------------------------------------------------------------
(***************************************************************************)
(* The merged GEMMs: what rows of one key have in common.                  *)
(***************************************************************************)

\* The sort of a row gives each place a slot of its own, and leaves no slot out.
LEMMA SortPermutes ==
    ASSUME NEW row \in Rows
    PROVE  /\ SortedSlots(row) \in [Slots -> Slots]
           /\ \A i, j \in Slots : SortedSlots(row)[i] = SortedSlots(row)[j] => i = j
           /\ \A s \in Slots : \E i \in Slots : SortedSlots(row)[i] = s
<1>1. TopK \in Nat \ {0} /\ Slots = 1 .. TopK
  BY ShapesAssumption DEF Slots
<1> DEFINE Before(j) == {i \in Slots : row[i] < row[j] \/ (row[i] = row[j] /\ i < j)}
           before == [j \in Slots |-> Before(j)]
           sorted == SortedSlots(row)
<1>2. IsFiniteSet(Slots) /\ Cardinality(Slots) = TopK
  BY <1>1, FS_Interval
<1>3. before \in [Slots -> SUBSET Slots]
  OBVIOUS
<1>4. \A j \in Slots : row[j] \in Int
  BY DEF Rows
<1>5. /\ \A x \in Slots : x \notin before[x]
      /\ \A x, y, z \in Slots : x \in before[y] /\ y \in before[z] => x \in before[z]
      /\ \A x, y \in Slots : x = y \/ x \in before[y] \/ y \in before[x]
  BY <1>1, <1>4
<1>6. \A j \in Slots : before[j] = Before(j)
  OBVIOUS
<1> HIDE DEF before
<1>7. /\ \A x \in Slots : Cardinality(before[x]) \in 0 .. TopK - 1
      /\ \A x, y \in Slots : Cardinality(before[x]) = Cardinality(before[y]) => x = y
      /\ \A k \in 0 .. TopK - 1 : \E x \in Slots : Cardinality(before[x]) = k
  BY <1>2, <1>3, <1>5, PlacesInOrder
<1>8. sorted = [i \in Slots |-> CHOOSE j \in Slots : Cardinality(Before(j)) = i - 1]
  BY DEF SortedSlots
<1> HIDE DEF Before, sorted
<1>9. ASSUME NEW i \in Slots PROVE sorted[i] \in Slots /\ Cardinality(before[sorted[i]]) = i - 1
  <2>1. i - 1 \in 0 .. TopK - 1
    BY <1>1
  <2>2. \E j \in Slots : Cardinality(Before(j)) = i - 1
    BY <1>6, <1>7, <2>1
  <2>3. sorted[i] = CHOOSE j \in Slots : Cardinality(Before(j)) = i - 1
    BY <1>8
  <2>4. sorted[i] \in Slots /\ Cardinality(Before(sorted[i])) = i - 1
    BY <2>2, <2>3
  <2>5. QED
    BY <1>6, <2>4
<1>10. sorted \in [Slots -> Slots]
  BY <1>8, <1>9
<1>11. \A i, j \in Slots : sorted[i] = sorted[j] => i = j
  <2>1. \A i \in Slots : i \in Int
    BY <1>1
  <2>2. QED
    BY <1>9, <2>1
<1>12. ASSUME NEW s \in Slots PROVE \E i \in Slots : sorted[i] = s
  <2>1. PICK k \in 0 .. TopK - 1 : k = Cardinality(before[s])
    BY <1>7
  <2>2. k + 1 \in Slots /\ (k + 1) - 1 = k
    BY <1>1
  <2>3. sorted[k + 1] \in Slots /\ Cardinality(before[sorted[k + 1]]) = k
    BY <1>9, <2>2
  <2>4. sorted[k + 1] = s
    BY <1>7, <2>1, <2>3
  <2>5. QED
    BY <2>2, <2>4
<1>13. QED
  BY <1>10, <1>11, <1>12 DEF sorted

\* A row all of whose ids are experts.
ValidRow(row) == \A j \in Slots : ValidId(row[j])
\* A row's key is read off its sorted experts, one digit each.
LEMMA KeyDigits ==
    ASSUME NEW row \in Rows, ValidRow(row)
    PROVE  /\ SortedIds(row) \in [Slots -> Experts]
           /\ \E key \in [0 .. TopK -> Nat] :
                /\ \A i \in 1 .. TopK : key[i] = key[i - 1] * 256 + SortedIds(row)[i]
                /\ key[0] = 0 /\ BucketKey(row) = key[TopK]
<1>1. TopK \in Nat \ {0} /\ Slots = 1 .. TopK /\ Experts \subseteq Nat
  BY ShapesAssumption DEF Slots, Experts
<1>2. SortedIds(row) \in [Slots -> Experts]
  <2>1. \A i \in Slots : row[SortedSlots(row)[i]] \in Experts
    BY SortPermutes DEF ValidRow, ValidId
  <2>2. QED
    BY <2>1 DEF SortedIds
<1> DEFINE sorted == SortedIds(row)
           step == [x \in Nat \X (1 .. TopK) |-> x[1] * 256 + sorted[x[2]]]
           R(f) == f = [i \in 0 .. TopK |-> IF i = 0 THEN 0 ELSE f[i - 1] * 256 + sorted[i]]
<1>3. BucketKey(row) = (CHOOSE h : R(h))[TopK]
  BY DEF BucketKey, ValidRow
<1> HIDE DEF sorted
<1>4. \A i \in 1 .. TopK : sorted[i] \in Nat
  BY <1>1, <1>2 DEF sorted
<1>5. step \in [Nat \X (1 .. TopK) -> Nat]
  BY <1>4
<1>6. PICK f \in [0 .. TopK -> Nat] :
         f[0] = 0 /\ \A i \in 1 .. TopK : f[i] = step[<<f[i - 1], i>>]
  <2> HIDE DEF step
  <2>1. PICK base \in Nat, last \in Nat : base = 0 /\ last = TopK
    BY <1>1
  <2>2. step \in [Nat \X (1 .. last) -> Nat]
    BY <1>5, <2>1
  <2>3. PICK f \in [0 .. last -> Nat] :
           f[0] = base /\ \A i \in 1 .. last : f[i] = step[<<f[i - 1], i>>]
    BY <2>2, RecursionSolved, Zenon
  <2>4. QED
    BY <2>1, <2>3
<1>7. ASSUME NEW i \in 1 .. TopK PROVE f[i] = f[i - 1] * 256 + sorted[i]
  <2>1. f[i - 1] \in Nat
    BY <1>1
  <2>2. step[<<f[i - 1], i>>] = f[i - 1] * 256 + sorted[i]
    BY <2>1
  <2>3. QED
    BY <1>6, <2>2
<1>8. R(f)
  <2> DEFINE g == [i \in 0 .. TopK |-> IF i = 0 THEN 0 ELSE f[i - 1] * 256 + sorted[i]]
  <2>1. ASSUME NEW i \in 0 .. TopK PROVE f[i] = g[i]
    <3>1. CASE i = 0
      BY <1>6, <3>1
    <3>2. CASE i # 0
      <4>1. i \in 1 .. TopK /\ g[i] = f[i - 1] * 256 + sorted[i]
        BY <1>1, <3>2
      <4>2. QED
        BY <1>7, <4>1
    <3>3. QED
      BY <3>1, <3>2
  <2>2. g = [i \in 0 .. TopK |-> g[i]] /\ f = [i \in 0 .. TopK |-> f[i]]
    OBVIOUS
  <2> HIDE DEF g
  <2>3. f = g
    BY <2>1, <2>2
  <2>4. QED
    BY <2>3 DEF g
<1> DEFINE k == CHOOSE h : R(h)
<1>9. R(k)
  <2> HIDE DEF R
  <2>1. QED
    BY <1>8
<1> HIDE DEF k
<1>10. k[0] = 0 /\ \A i \in 1 .. TopK : k[i] = k[i - 1] * 256 + sorted[i]
  <2>1. 0 \in 0 .. TopK /\ \A i \in 1 .. TopK : i \in 0 .. TopK /\ i # 0
    BY <1>1
  <2>2. QED
    BY <1>9, <2>1
<1> DEFINE P == {i \in Nat : i <= TopK => k[i] \in Nat}
<1>11. 0 .. TopK \subseteq P
  <2>1. P \in SUBSET Nat /\ 0 \in P
    BY <1>10
  <2>2. ASSUME NEW i \in 1 .. TopK, i - 1 \in P PROVE i \in P
    <3>1. k[i - 1] \in Nat /\ sorted[i] \in Nat
      BY <1>1, <1>4, <2>2
    <3>2. k[i - 1] * 256 + sorted[i] \in Nat
      BY <3>1
    <3>3. i \in Nat
      BY <1>1
    <3>4. QED
      BY <1>10, <3>2, <3>3
  <2> HIDE DEF P
  <2>3. TopK \in Nat
    BY <1>1
  <2>4. QED
    BY <2>1, <2>2, <2>3, IntervalInduction
<1>12. k \in [0 .. TopK -> Nat]
  <2>1. k = [i \in 0 .. TopK |-> k[i]]
    BY <1>9
  <2>2. \A i \in 0 .. TopK : k[i] \in Nat
    BY <1>11
  <2>3. QED
    BY <2>1, <2>2
<1>13. BucketKey(row) = k[TopK]
  BY <1>3 DEF k
<1> HIDE DEF R
<1>14. QED
  BY <1>2, <1>10, <1>12, <1>13 DEF sorted

\* A row with a bad id has the key of no bucket, every other row one of its own.
LEMMA KeyOfValidRow ==
    ASSUME NEW row \in Rows
    PROVE  BucketKey(row) \in Int /\ (BucketKey(row) >= 0 <=> ValidRow(row))
<1>1. CASE ValidRow(row)
  <2>1. BucketKey(row) \in Nat
    <3>1. PICK key \in [0 .. TopK -> Nat] : BucketKey(row) = key[TopK]
      BY <1>1, KeyDigits
    <3>2. TopK \in 0 .. TopK
      BY ShapesAssumption
    <3>3. QED
      BY <3>1, <3>2
  <2>2. QED
    BY <1>1, <2>1
<1>2. CASE ~ ValidRow(row)
  <2>1. BucketKey(row) = -1
    BY <1>2 DEF BucketKey, ValidRow
  <2>2. QED
    BY <1>2, <2>1
<1>3. QED
  BY <1>1, <1>2

\* Rows of one bucket chose the same experts, as long as a digit holds an expert.
THEOREM SameKeySameExperts ==
    ASSUME NumExperts <= 256, NEW row \in Rows, NEW other \in Rows,
           ValidRow(row), ValidRow(other), BucketKey(row) = BucketKey(other)
    PROVE  SortedIds(row) = SortedIds(other)
<1>1. TopK \in Nat \ {0} /\ Slots = 1 .. TopK /\ NumExperts \in Nat
  BY ShapesAssumption DEF Slots
<1> DEFINE s == SortedIds(row)
           o == SortedIds(other)
<1>2. s \in [Slots -> Experts] /\ o \in [Slots -> Experts]
  BY KeyDigits
<1>3. PICK k \in [0 .. TopK -> Nat] :
         /\ \A i \in 1 .. TopK : k[i] = k[i - 1] * 256 + s[i]
         /\ BucketKey(row) = k[TopK]
  BY KeyDigits
<1>4. PICK l \in [0 .. TopK -> Nat] :
         /\ \A i \in 1 .. TopK : l[i] = l[i - 1] * 256 + o[i]
         /\ BucketKey(other) = l[TopK]
  BY KeyDigits
<1> HIDE DEF s, o
<1>5. \A i \in Slots : s[i] \in 0 .. 255 /\ o[i] \in 0 .. 255
  <2>1. Experts \subseteq 0 .. 255
    BY <1>1 DEF Experts
  <2>2. QED
    BY <1>2, <2>1
<1>6. ASSUME NEW i \in 1 .. TopK, k[i] = l[i] PROVE k[i - 1] = l[i - 1] /\ s[i] = o[i]
  <2>1. PICK a \in Nat, b \in Nat, c \in 0 .. 255, d \in 0 .. 255 :
           a = k[i - 1] /\ b = l[i - 1] /\ c = s[i] /\ d = o[i]
    <3>1. i - 1 \in 0 .. TopK /\ i \in Slots
      BY <1>1
    <3>2. QED
      BY <1>5, <3>1
  <2>2. a * 256 + c = b * 256 + d
    BY <1>3, <1>4, <1>6, <2>1
  <2>3. a = b /\ c = d
    BY <2>2
  <2>4. QED
    BY <2>1, <2>3
<1> DEFINE P == {i \in Nat : i <= TopK => k[TopK - i] = l[TopK - i]}
<1>7. 0 .. TopK \subseteq P
  <2>1. P \in SUBSET Nat /\ 0 \in P
    <3>1. k[TopK] = l[TopK]
      BY <1>3, <1>4
    <3>2. TopK - 0 = TopK
      BY <1>1
    <3>3. QED
      BY <3>1, <3>2
  <2>2. ASSUME NEW i \in 1 .. TopK, i - 1 \in P PROVE i \in P
    <3>1. TopK - (i - 1) \in 1 .. TopK /\ (TopK - (i - 1)) - 1 = TopK - i /\ i \in Nat
      BY <1>1
    <3>2. k[TopK - (i - 1)] = l[TopK - (i - 1)]
      BY <1>1, <2>2
    <3>3. k[TopK - i] = l[TopK - i]
      BY <1>6, <3>1, <3>2
    <3>4. QED
      BY <3>1, <3>3
  <2> HIDE DEF P
  <2>3. TopK \in Nat
    BY <1>1
  <2>4. QED
    BY <2>1, <2>2, <2>3, IntervalInduction
<1>8. \A i \in Slots : s[i] = o[i]
  <2>1. SUFFICES ASSUME NEW i \in Slots PROVE s[i] = o[i]
    OBVIOUS
  <2>2. TopK - i \in 0 .. TopK /\ TopK - (TopK - i) = i /\ TopK - i <= TopK
    BY <1>1
  <2>3. TopK - i \in P
    BY <1>7, <2>2
  <2>4. k[i] = l[i]
    BY <2>2, <2>3
  <2>5. QED
    BY <1>1, <1>6, <2>4
<1>9. s = o
  BY <1>2, <1>8
<1>10. QED
  BY <1>9 DEF s, o

\* The i-th block of the first GEMM is made of the tiles of the i-th expert.
LEMMA BlockOfExpert ==
    ASSUME NEW combo \in [Slots -> Experts], NEW i \in Slots
    PROVE  OwnerOfBlock(combo, i) = combo[i]
<1>1. TopK \in Nat \ {0} /\ Slots = 1 .. TopK /\ Experts \subseteq Nat
  BY ShapesAssumption DEF Slots, Experts
<1>2. PICK t \in Nat \ {0} : t = TilesPerExpert
  <2>1. RowsPerExpert \in Nat \ {0} /\ RowsPerExpert % 256 = 0
    BY ShapesAssumption
  <2>2. RowsPerExpert \div 128 \in Nat \ {0}
    BY <2>1
  <2>3. QED
    BY <2>2 DEF TilesPerExpert
<1>3. PICK j \in Nat : j = i - 1 /\ j < TopK
  BY <1>1
<1>4. ASSUME NEW k \in 0 .. t - 1 PROVE TileMap(combo)[j * t + k] = combo[i] * t + k
  <2>1. (j * t + k) \div t = j /\ (j * t + k) % t = k
    BY <1>2, QuotientOf
  <2>2. j * t + t <= TopK * t
    BY <1>1, <1>2, <1>3, ProductGrows
  <2>3. j * t \in Nat /\ TopK * t \in Nat
    BY <1>1
  <2>4. j * t + k \in 0 .. TopK * t - 1
    BY <2>2, <2>3
  <2>5. TileMap(combo)[j * t + k] = combo[(j * t + k) \div t + 1] * t + ((j * t + k) % t)
    BY <1>2, <2>4 DEF TileMap
  <2>6. j + 1 = i
    BY <1>1, <1>3
  <2>7. QED
    BY <2>1, <2>5, <2>6
<1> DEFINE owners == {e \in Experts : \A k \in 0 .. TilesPerExpert - 1 :
                        TileMap(combo)[(i - 1) * TilesPerExpert + k] = e * TilesPerExpert + k}
<1>5. owners = {combo[i]}
  <2>1. combo[i] \in owners
    BY <1>2, <1>3, <1>4
  <2>2. ASSUME NEW e \in owners PROVE e = combo[i]
    <3>1. 0 \in 0 .. t - 1
      BY <1>2
    <3>2. e * t + 0 = combo[i] * t + 0
      BY <1>2, <1>3, <1>4, <3>1
    <3>3. e \in Nat /\ combo[i] \in Nat
      BY <1>1
    <3> HIDE DEF owners
    <3>4. PICK c \in Nat : c = combo[i]
      BY <3>3
    <3>5. (e * t + 0) \div t = e /\ (c * t + 0) \div t = c
      BY <3>1, <3>3, QuotientOf
    <3>6. QED
      BY <3>2, <3>4, <3>5
  <2> HIDE DEF owners
  <2>3. QED
    BY <2>1, <2>2
<1>6. OwnerOfBlock(combo, i) = IF owners = {} THEN NumExperts ELSE CHOOSE e \in owners : TRUE
  BY DEF OwnerOfBlock
<1> HIDE DEF owners
<1>7. QED
  BY <1>5, <1>6

\* A row of a bucket comes out of the merged GEMMs exactly, if what they read is
\* intact and the second operand is that of the row's experts.
LEMMA MergedRowExact ==
    ASSUME NEW row \in Rows, ValidRow(row), SourceIntact,
           NEW item, item.intact, item.experts = SortedIds(row)
    PROVE  MergedRow(row, SortedIds(row), item) = Exact(row)
<1> DEFINE combo == SortedIds(row)
           sorted == SortedSlots(row)
<1>1. combo \in [Slots -> Experts] /\ \A i \in Slots : combo[i] = row[sorted[i]]
  BY KeyDigits DEF SortedIds
<1>2. \A i \in Slots : OwnerOfBlock(combo, i) = combo[i]
  <2> HIDE DEF combo
  <2>1. QED
    BY <1>1, BlockOfExpert
<1>3. MergedRow(row, combo, item) =
        [t \in Terms |-> Cardinality({i \in Slots : /\ OwnerOfBlock(combo, i) = t[1]
                                                    /\ item.experts[i] = t[1]
                                                    /\ sorted[i] = t[2]})]
  BY DEF MergedRow
<1>4. /\ \A i, j \in Slots : sorted[i] = sorted[j] => i = j
      /\ \A s \in Slots : \E i \in Slots : sorted[i] = s
  BY SortPermutes
<1>5. item.experts = combo
  OBVIOUS
<1> HIDE DEF combo, sorted
<1>6. ASSUME NEW t \in Terms
      PROVE  Cardinality({i \in Slots : /\ OwnerOfBlock(combo, i) = t[1]
                                        /\ item.experts[i] = t[1]
                                        /\ sorted[i] = t[2]})
               = IF row[t[2]] = t[1] THEN 1 ELSE 0
  <2> DEFINE S == {i \in Slots : /\ OwnerOfBlock(combo, i) = t[1]
                                 /\ item.experts[i] = t[1]
                                 /\ sorted[i] = t[2]}
  <2>1. t[2] \in Slots
    BY DEF Terms
  <2>2. PICK x \in Slots : sorted[x] = t[2]
    BY <1>4, <2>1
  <2>3. \A i : i \in S <=> i = x /\ row[t[2]] = t[1]
    BY <1>1, <1>2, <1>4, <1>5, <2>2
  <2> HIDE DEF S
  <2>4. CASE row[t[2]] = t[1]
    <3>1. S = {x}
      BY <2>3, <2>4
    <3>2. QED
      BY <2>4, <3>1, FS_Singleton DEF S
  <2>5. CASE row[t[2]] # t[1]
    <3>1. S = {}
      BY <2>3, <2>5
    <3>2. QED
      BY <2>5, <3>1, FS_EmptySet DEF S
  <2>6. QED
    BY <2>4, <2>5
<1>7. QED
  BY <1>3, <1>6 DEF Exact, combo

-----------------------------------------------------------------------------
(***************************************************************************)
(* The rows of an answer.  What makes RowsExact inductive is what loading  *)
(* and each fall-back leave of a layer (LayersRight), and that a row is    *)
(* exact from the moment a bucket has taken it (BatchRight).               *)
(***************************************************************************)
\* A layer that the engine has loaded, and what the loading leaves of it.
Loaded(l) == phase \in Running \/ (phase = "load" /\ l < at)
LayerRight(l) ==
    /\ phase = "load" /\ l >= at => layer[l] = FreshLayer(l) /\ kernel[l] = FreshKernel
    /\ Loaded(l) =>
         /\ Class(l) = "base" => layer[l].w4a16 = "packed"
         /\ Class(l) = "overlay" => kernel[l].s13 = "folded"
         /\ Class(l) = "merged" =>
              /\ kernel[l].ready /\ kernel[l].w13 = "view" /\ kernel[l].w2 = "view"
              /\ kernel[l].s13 = "w31"
              /\ layer[l] = FreshLayer(l) \/ layer[l].w4a16 = "packed"
    /\ layer[l].w4a16 = "none" => \A c \in DOMAIN combos[l] : combos[l][c].intact

LayersRight ==
    /\ phase # "import" => (host.direct <=> ~ Native)
    /\ \A l \in Layers : LayerRight(l)

ExactRows(ids) == [i \in 1 .. Len(ids) |-> Exact(ids[i])]
BatchRight ==
    /\ batch.stage = "rows" =>
         /\ Class(at) = "merged"
         /\ batch.ids \in BatchesOf(tokens)
         /\ batch.out = [i \in 1 .. tokens |-> batch.out[i]]
         /\ \A key \in batch.todo : key \in Nat /\ RowsWith(batch.ids, key) # {}
         /\ layer[at].w4a16 = "none" => \A i \in batch.merged : batch.out[i] = Exact(batch.ids[i])
    /\ batch.stage = "answered" =>
         /\ batch.ids \in BatchesOf(tokens)
         /\ (Supported(at) /\ (batch.via = "merged" => layer[at].w4a16 = "none")) =>
              batch.out = ExactRows(batch.ids)

\* A layer that a step leaves as it was, or repacks for the W4A16 path.
LEMMA LayerKept ==
    ASSUME NEW l \in Layers, LayerRight(l), env' = env, host' = host,
           phase' \in Running => phase \in Running,
           phase' = "load" => phase = "load" /\ at' = at /\ layer'[l] = layer[l] /\ kernel'[l] = kernel[l],
           kernel'[l].ready = kernel[l].ready, kernel'[l].w13 = kernel[l].w13,
           kernel'[l].w2 = kernel[l].w2, kernel'[l].s13 = kernel[l].s13,
           \/ layer'[l] = layer[l]
           \/ /\ layer'[l].w4a16 # "none"
              /\ Class(l) \in {"base", "merged"} => layer'[l].w4a16 = "packed",
           layer[l].w4a16 = "none" =>
             \A c \in DOMAIN combos'[l] : \/ combos'[l][c].intact
                                          \/ c \in DOMAIN combos[l] /\ combos'[l][c] = combos[l][c]
    PROVE  LayerRight(l)'
<1>1. Class(l)' = Class(l) /\ FreshLayer(l)' = FreshLayer(l) /\ FreshKernel' = FreshKernel
      /\ Running' = Running
  BY DEF Class, FreshLayer, FreshKernel, Running
<1>2. Loaded(l)' => Loaded(l)
  BY DEF Loaded, Running
<1>3. phase' = "load" /\ l >= at' => layer'[l] = FreshLayer(l) /\ kernel'[l] = FreshKernel
  BY DEF LayerRight
<1>4. Loaded(l)' =>
         /\ Class(l) = "base" => layer'[l].w4a16 = "packed"
         /\ Class(l) = "overlay" => kernel'[l].s13 = "folded"
         /\ Class(l) = "merged" =>
              /\ kernel'[l].ready /\ kernel'[l].w13 = "view" /\ kernel'[l].w2 = "view"
              /\ kernel'[l].s13 = "w31"
              /\ layer'[l] = FreshLayer(l) \/ layer'[l].w4a16 = "packed"
  BY <1>2 DEF LayerRight
<1>5. layer'[l].w4a16 = "none" => \A c \in DOMAIN combos'[l] : combos'[l][c].intact
  BY DEF LayerRight
<1>6. QED
  BY <1>1, <1>3, <1>4, <1>5 DEF LayerRight

\* The base class answers exactly from weights that are prepared, or that it
\* prepares in the order it is told.
PreparedRight(told) ==
    \/ layer[at].w4a16 = "packed"
    \/ /\ layer[at].w4a16 = "native" /\ layer[at].w13 = "w13" /\ layer[at].w2 = "loaded"
       /\ ~ host.direct
    \/ /\ layer[at].w4a16 = "none" /\ layer[at].w13 = told /\ layer[at].s13 = told
       /\ layer[at].w2 = "loaded"

\* The base class repacks at most its own layer, and answers or stops the engine.
LEMMA B12xRight ==
    ASSUME TypeInv, at \in Layers, NEW told, NEW ids \in BatchesOf(tokens), B12xApply(ids, told)
    PROVE  /\ \A l \in Layers : \/ layer'[l] = layer[l]
                                \/ /\ l = at /\ layer[at].w4a16 = "none" /\ layer'[at].w4a16 # "none"
                                   /\ PreparedRight(told) => layer'[at].w4a16 = "packed"
           /\ \/ phase' = "stopped" /\ UNCHANGED <<layer, at, tokens, batch>>
              \/ /\ UNCHANGED <<phase, at, tokens>>
                 /\ batch'.stage = "answered" /\ batch'.via = "w4a16" /\ batch'.ids = ids
                 /\ PreparedRight(told) => batch'.out = ExactRows(ids)
<1> DEFINE r == IF layer[at].w4a16 = "none" THEN Packed(layer[at], told) ELSE layer[at]
<1>1. layer \in [Layers -> LayerRecord]
  BY DEF TypeInv, Types
<1>2. CASE Stop
  BY <1>2 DEF Stop
<1>3. CASE /\ layer' = [layer EXCEPT ![at] = r]
           /\ batch' = Answered(ids, "w4a16", W4A16Right(r) /\ ~ DirectKernel(r, Len(ids)))
           /\ UNCHANGED <<phase, at, tokens>>
  <2>1. layer'[at] = r /\ \A l \in Layers : l # at => layer'[l] = layer[l]
    BY <1>1, <1>3
  <2>2. layer[at].w4a16 = "none" =>
          /\ r.w4a16 # "none"
          /\ PreparedRight(told) => r.w4a16 = "packed"
    BY DEF PreparedRight, Packed
  <2>3. PreparedRight(told) => W4A16Right(r) /\ ~ DirectKernel(r, Len(ids))
    <3>1. CASE layer[at].w4a16 = "none"
      BY <2>2, <3>1 DEF W4A16Right, DirectKernel
    <3>2. CASE layer[at].w4a16 # "none"
      BY <3>2 DEF PreparedRight, W4A16Right, DirectKernel
    <3>3. QED
      BY <3>1, <3>2
  <2>4. /\ batch'.stage = "answered" /\ batch'.via = "w4a16" /\ batch'.ids = ids
        /\ W4A16Right(r) /\ ~ DirectKernel(r, Len(ids)) => batch'.out = ExactRows(ids)
    BY <1>3 DEF Answered, NoBatch, ExactRows
  <2>5. layer[at].w4a16 # "none" => r = layer[at]
    OBVIOUS
  <2> HIDE DEF r
  <2>6. QED
    BY <1>3, <2>1, <2>2, <2>3, <2>4, <2>5
<1>4. QED
  BY <1>2, <1>3 DEF B12xApply

\* An answer that is exact whenever it has to be.
LEMMA AnswerRight ==
    ASSUME batch'.stage = "answered", batch'.ids \in BatchesOf(tokens), tokens' = tokens,
           Supported(at) /\ (batch'.via = "merged" => layer'[at'].w4a16 = "none") =>
             batch'.out = ExactRows(batch'.ids),
           env' = env, host' = host, at' = at
    PROVE  BatchRight'
<1>1. Supported(at)' = Supported(at)
  BY DEF Supported, Class, Full
<1>2. QED
  BY <1>1 DEF BatchRight, BatchesOf, ExactRows, Exact, Terms

\* A batch that does not change, on a layer that does not.
LEMMA BatchKept ==
    ASSUME BatchRight, env' = env, host' = host, tokens' = tokens, batch' = batch, at' = at,
           layer' = layer
    PROVE  BatchRight'
<1>1. Supported(at)' = Supported(at) /\ Class(at)' = Class(at)
  BY DEF Supported, Full, Class
<1>2. \A key : RowsWith(batch.ids, key)' = RowsWith(batch.ids, key)
  BY DEF RowsWith, BucketKey, ValidId, Experts, SortedIds, SortedSlots, Slots
<1>3. BatchesOf(tokens)' = BatchesOf(tokens) /\ ExactRows(batch.ids)' = ExactRows(batch.ids)
      /\ \A i : Exact(batch.ids[i])' = Exact(batch.ids[i])
  BY DEF BatchesOf, ExactRows, Exact, Terms, Experts, Slots
<1>4. QED
  BY <1>1, <1>2, <1>3 DEF BatchRight

\* Steps outside a layer: nothing of the layers changes.
LEMMA OutsideRight ==
    ASSUME LayersRight, BatchRight, UNCHANGED <<env, host, layer, kernel, combos>>,
           phase' \in Running => phase \in Running,
           phase' = "load" => phase = "load" /\ at' = at,
           phase = "import" => phase' = "import",
           batch'.stage \notin {"rows", "answered"} \/ (UNCHANGED <<at, tokens, batch>>)
    PROVE  LayersRight' /\ BatchRight'
<1>1. Layers' = Layers /\ Native' = Native
  BY DEF Layers, Native
<1>2. ASSUME NEW l \in Layers PROVE LayerRight(l)'
  <2>1. LayerRight(l)
    BY DEF LayersRight
  <2>2. QED
    BY <2>1, LayerKept
<1>3. phase' # "import" => (host'.direct <=> ~ Native')
  BY <1>1 DEF LayersRight
<1>4. LayersRight'
  BY <1>1, <1>2, <1>3 DEF LayersRight
<1>5. CASE UNCHANGED <<at, tokens, batch>>
  <2>1. BatchRight'
    BY <1>5, BatchKept
  <2>2. QED
    BY <1>4, <2>1
<1>6. CASE batch'.stage \notin {"rows", "answered"}
  <2>1. BatchRight'
    BY <1>6 DEF BatchRight
  <2>2. QED
    BY <1>4, <2>1
<1>7. QED
  BY <1>5, <1>6

\* Each class loads a fresh layer into what its answers need.
LEMMA LoadRight ==
    ASSUME TypeInv, LayersRight, Load
    PROVE  LayersRight' /\ BatchRight'
<1>1. /\ phase = "load" /\ at \in Layers /\ UNCHANGED <<env, host, tokens, batch>>
      /\ IF at < NumLayers THEN at' = at + 1 /\ phase' = "load"
                           ELSE at' = 0 /\ phase' = "profile"
      /\ batch.stage = "idle" /\ combos' = combos
      /\ layer \in [Layers -> LayerRecord] /\ kernel \in [Layers -> KernelRecord]
  <2>1. combos' = combos
    BY DEF Load, LoadMerged, mergedVars
  <2>2. QED
    BY <2>1, ShapesAssumption DEF Load, TypeInv, Types, Control, Layers
<1>2. layer[at] = FreshLayer(at)
  <2>1. LayerRight(at) /\ at >= at
    BY <1>1, ShapesAssumption DEF LayersRight, Layers
  <2>2. QED
    BY <1>1, <2>1 DEF LayerRight
<1>3. /\ \A l \in Layers : l # at => layer'[l] = layer[l] /\ kernel'[l] = kernel[l]
      /\ Class(at) = "base" => layer'[at].w4a16 = "packed"
      /\ Class(at) = "overlay" => kernel'[at].s13 = "folded"
      /\ Class(at) = "merged" =>
           /\ kernel'[at].ready /\ kernel'[at].w13 = "view" /\ kernel'[at].w2 = "view"
           /\ kernel'[at].s13 = "w31" /\ layer'[at] = FreshLayer(at)
  <2>1. CASE LoadMerged
    <3>1. Class(at) = "merged" /\ layer' = layer
          /\ kernel' = [kernel EXCEPT ![at] =
               [ready |-> TRUE, w13 |-> "view", w2 |-> "view", s13 |-> layer[at].s13, wrapper |-> 0]]
      BY <2>1 DEF LoadMerged
    <3>2. layer[at].s13 = "w31"
      BY <1>2, <3>1 DEF Class, FreshLayer
    <3>3. QED
      BY <1>1, <1>2, <3>1, <3>2
  <2>2. CASE LoadW4A4
    <3>1. Class(at) = "w4a4"
          /\ \E w : /\ layer' = [layer EXCEPT ![at] = Prepared(DerivedLayer(layer[at]))]
                    /\ kernel' = [kernel EXCEPT ![at] = DerivedKernel(layer[at], w)]
      BY <2>2 DEF LoadW4A4
    <3>2. QED
      BY <1>1, <3>1
  <2>3. CASE LoadOverlay
    <3>1. /\ Class(at) = "overlay"
          /\ layer' = [layer EXCEPT ![at] = FoldScales(layer[at])]
          /\ kernel' = [kernel EXCEPT ![at].ready = TRUE, ![at].s13 = FoldScales(layer[at]).s13]
      BY <2>3 DEF LoadOverlay
    <3>2. FoldScales(layer[at]).s13 = "folded"
      <4>1. layer[at] \in LayerRecord
        BY <1>1
      <4>2. QED
        BY <4>1 DEF FoldScales, LayerRecord
    <3>3. kernel'[at].s13 = "folded"
      BY <1>1, <3>1, <3>2 DEF KernelRecord
    <3>4. QED
      BY <1>1, <3>1, <3>3
  <2>4. CASE LoadBase
    <3>1. Class(at) = "base" /\ kernel' = kernel
          /\ layer' = [layer EXCEPT ![at] = Packed(layer[at], "w31")]
      BY <2>4 DEF LoadBase
    <3>2. Packed(layer[at], "w31").w4a16 = "packed"
      BY <1>2, <3>1 DEF Packed, FreshLayer, Class
    <3>3. QED
      BY <1>1, <3>1, <3>2
  <2>5. QED
    BY <2>1, <2>2, <2>3, <2>4 DEF Load
<1>4. ASSUME NEW l \in Layers PROVE LayerRight(l)'
  <2>1. LayerRight(l) /\ LayerRight(at)
    BY <1>1 DEF LayersRight
  <2>2. Class(l)' = Class(l) /\ FreshLayer(l)' = FreshLayer(l) /\ FreshKernel' = FreshKernel
        /\ Running' = Running
    BY <1>1 DEF Class, FreshLayer, FreshKernel, Running
  <2>3. at \in 1 .. NumLayers /\ l \in 1 .. NumLayers /\ NumLayers \in Nat
    BY <1>1, ShapesAssumption DEF Layers
  <2>4. CASE l = at
    <3>1. ~ (phase' = "load" /\ l >= at')
      BY <1>1, <2>3, <2>4
    <3>2. \A c \in DOMAIN combos[l] : combos[l][c].intact
      <4>1. FreshLayer(l).w4a16 = "none"
        BY DEF FreshLayer
      <4>2. QED
        BY <1>2, <2>1, <2>4, <4>1 DEF LayerRight
    <3>3. QED
      BY <1>1, <1>3, <2>2, <2>4, <3>1, <3>2 DEF LayerRight
  <2>5. CASE l # at
    <3>1. layer'[l] = layer[l] /\ kernel'[l] = kernel[l] /\ combos' = combos
      BY <1>1, <1>3, <2>5
    <3>2. /\ phase' = "load" /\ l >= at' => l >= at
          /\ Loaded(l)' => l < at
      BY <1>1, <2>3, <2>5 DEF Loaded, Running
    <3>3. Loaded(l)' => Loaded(l)
      BY <1>1, <3>2 DEF Loaded
    <3>4. phase' = "load" /\ l >= at' => layer'[l] = FreshLayer(l) /\ kernel'[l] = FreshKernel
      BY <1>1, <2>1, <3>1, <3>2 DEF LayerRight
    <3>5. QED
      BY <2>1, <2>2, <3>1, <3>3, <3>4 DEF LayerRight
  <2>6. QED
    BY <2>4, <2>5
<1>5. LayersRight'
  <2>1. Layers' = Layers /\ Native' = Native
    BY <1>1 DEF Layers, Native
  <2>2. phase' # "import" => (host'.direct <=> ~ Native')
    BY <1>1, <2>1 DEF LayersRight
  <2>3. QED
    BY <1>4, <2>1, <2>2 DEF LayersRight
<1>6. BatchRight'
  BY <1>1 DEF BatchRight
<1>7. QED
  BY <1>5, <1>6

\* Installing a plug-in finds every layer fresh, and turns the direct kernel off
\* for native weights.
LEMMA InstallRight ==
    ASSUME TypeInv, LayersRight, Install
    PROVE  LayersRight' /\ BatchRight'
<1>1. /\ phase = "import" /\ phase' = "load" /\ at' = 1
      /\ UNCHANGED <<env, layer, kernel, combos, batch>>
      /\ host'.direct = ~ Native
  BY DEF Install, expertVars, mergedVars
<1>2. /\ batch.stage = "idle"
      /\ \A l \in Layers : layer[l] = FreshLayer(l) /\ kernel[l] = FreshKernel
  BY <1>1 DEF TypeInv, Control
<1>3. \A l \in Layers : ~ (l < 1)
  BY ShapesAssumption DEF Layers
<1>4. Layers' = Layers /\ Native' = Native /\ FreshKernel' = FreshKernel /\ Running' = Running
      /\ \A l : FreshLayer(l)' = FreshLayer(l)
  BY <1>1 DEF Layers, Native, FreshKernel, Running, FreshLayer
<1>5. ASSUME NEW l \in Layers PROVE LayerRight(l)'
  <2>1. ~ Loaded(l)'
    BY <1>1, <1>3 DEF Loaded, Running
  <2>2. layer[l].w4a16 = "none" => \A c \in DOMAIN combos[l] : combos[l][c].intact
    BY DEF LayersRight, LayerRight
  <2>3. QED
    BY <1>1, <1>2, <1>4, <2>1, <2>2 DEF LayerRight
<1>6. LayersRight'
  BY <1>1, <1>4, <1>5 DEF LayersRight
<1>7. BatchRight'
  BY <1>1, <1>2 DEF BatchRight
<1>8. QED
  BY <1>6, <1>7

\* Where a batch is when a step of apply takes it.
LEMMA ApplyAt ==
    ASSUME TypeInv, LayersRight, phase # "stopped", batch.stage # "idle"
    PROVE  /\ at \in Layers /\ phase \in Running /\ LayerRight(at) /\ Loaded(at)
           /\ host.direct <=> ~ Native
           /\ layer \in [Layers -> LayerRecord] /\ kernel \in [Layers -> KernelRecord]
<1>1. at \in Layers /\ phase \in Running
      /\ layer \in [Layers -> LayerRecord] /\ kernel \in [Layers -> KernelRecord]
  BY ShapesAssumption DEF TypeInv, Types, Control, Layers, Phases, Running
<1>2. LayerRight(at) /\ (host.direct <=> ~ Native)
  BY <1>1 DEF LayersRight, Running
<1>3. QED
  BY <1>1, <1>2 DEF Loaded

\* A step of apply that touches at most its own layer, and that as it should.
LEMMA LayersKept ==
    ASSUME LayersRight, phase \in Running, env' = env, host' = host,
           phase' \in {phase, "stopped"},
           \A l \in Layers :
             /\ kernel'[l].ready = kernel[l].ready /\ kernel'[l].w13 = kernel[l].w13
             /\ kernel'[l].w2 = kernel[l].w2 /\ kernel'[l].s13 = kernel[l].s13
             /\ \/ layer'[l] = layer[l]
                \/ /\ layer'[l].w4a16 # "none"
                   /\ Class(l) \in {"base", "merged"} => layer'[l].w4a16 = "packed"
             /\ layer[l].w4a16 = "none" =>
                  \A c \in DOMAIN combos'[l] : \/ combos'[l][c].intact
                                               \/ c \in DOMAIN combos[l] /\ combos'[l][c] = combos[l][c]
    PROVE  LayersRight'
<1>1. Layers' = Layers /\ Native' = Native
  BY DEF Layers, Native
<1>2. phase' \in Running => phase \in Running
  OBVIOUS
<1>3. phase' # "load" /\ phase # "import"
  BY DEF Running
<1>4. ASSUME NEW l \in Layers PROVE LayerRight(l)'
  <2>1. LayerRight(l)
    BY DEF LayersRight
  <2>2. QED
    BY <1>2, <1>3, <2>1, LayerKept
<1>5. host'.direct <=> ~ Native'
  BY <1>1, <1>3 DEF LayersRight
<1>6. QED
  BY <1>1, <1>4, <1>5 DEF LayersRight

\* An answer carries its batch, and right rows if it is right.
LEMMA AnsweredRows ==
    ASSUME NEW ids, NEW via, NEW right
    PROVE  /\ Answered(ids, via, right).stage = "answered" /\ Answered(ids, via, right).via = via
           /\ Answered(ids, via, right).ids = ids
           /\ right => Answered(ids, via, right).out = ExactRows(ids)
  BY DEF Answered, NoBatch, ExactRows

\* A call of the base class keeps both invariants, if the weights are prepared
\* right wherever the answer counts, or get prepared right.
LEMMA FallBackRight ==
    ASSUME TypeInv, LayersRight, BatchRight, batch.stage # "idle", phase # "stopped",
           UNCHANGED <<env, host, kernel, combos>>,
           NEW told, NEW ids \in BatchesOf(tokens), B12xApply(ids, told),
           Supported(at) => PreparedRight(told),
           Class(at) \in {"base", "merged"} => PreparedRight(told)
    PROVE  LayersRight' /\ BatchRight'
<1>1. at \in Layers /\ phase \in Running
  BY ApplyAt
<1>2. /\ \A l \in Layers : \/ layer'[l] = layer[l]
                           \/ /\ l = at /\ layer[at].w4a16 = "none" /\ layer'[at].w4a16 # "none"
                              /\ PreparedRight(told) => layer'[at].w4a16 = "packed"
      /\ \/ phase' = "stopped" /\ UNCHANGED <<layer, at, tokens, batch>>
         \/ /\ UNCHANGED <<phase, at, tokens>>
            /\ batch'.stage = "answered" /\ batch'.via = "w4a16" /\ batch'.ids = ids
            /\ PreparedRight(told) => batch'.out = ExactRows(ids)
  BY <1>1, B12xRight
<1>3. LayersRight'
  <2>1. ASSUME NEW l \in Layers
        PROVE  \/ layer'[l] = layer[l]
               \/ /\ layer'[l].w4a16 # "none"
                  /\ Class(l) \in {"base", "merged"} => layer'[l].w4a16 = "packed"
    BY <1>2
  <2>2. phase' \in {phase, "stopped"}
    BY <1>2
  <2>3. QED
    BY <1>1, <2>1, <2>2, LayersKept
<1>4. CASE phase' = "stopped" /\ UNCHANGED <<layer, at, tokens, batch>>
  <2>1. BatchRight'
    BY <1>4, BatchKept
  <2>2. QED
    BY <1>3, <2>1
<1>5. CASE /\ UNCHANGED <<phase, at, tokens>>
           /\ batch'.stage = "answered" /\ batch'.via = "w4a16" /\ batch'.ids = ids
           /\ PreparedRight(told) => batch'.out = ExactRows(ids)
  <2>1. Supported(at) => batch'.out = ExactRows(batch'.ids)
    BY <1>5
  <2>2. BatchRight'
    BY <1>5, <2>1, AnswerRight
  <2>3. QED
    BY <1>3, <2>2
<1>6. QED
  BY <1>2, <1>4, <1>5

\* What the W4A16 path finds in a layer of each class.
LEMMA PreparedWhenLoaded ==
    ASSUME TypeInv, OrderInv, LayersRight, phase # "stopped", batch.stage # "idle"
    PROVE  /\ Class(at) \in {"base", "merged"} => PreparedRight("w31")
           /\ Class(at) = "w4a4" /\ Supported(at) /\ ~ Full => PreparedRight(W13Layout)
           /\ Class(at) = "w4a4" /\ Supported(at) =>
                kernel[at].ready /\ W4A4Right(kernel[at], layer[at])
<1>1. /\ at \in Layers /\ phase \in Running /\ LayerRight(at) /\ Loaded(at)
      /\ host.direct <=> ~ Native
  BY ApplyAt
<1>2. CASE Class(at) = "base"
  BY <1>1, <1>2 DEF LayerRight, PreparedRight
<1>3. CASE Class(at) = "merged"
  <2>1. layer[at] = FreshLayer(at) => PreparedRight("w31")
    BY <1>3 DEF FreshLayer, PreparedRight, Class
  <2>2. layer[at].w4a16 = "packed" => PreparedRight("w31")
    BY DEF PreparedRight
  <2>3. QED
    BY <1>1, <1>3, <2>1, <2>2 DEF LayerRight
<1>4. CASE Class(at) = "w4a4" /\ Supported(at)
  <2>1. kernel[at].ready /\ RightAfterLoad(kernel[at], layer[at])
    BY <1>1, <1>4 DEF OrderInv
  <2>2. W4A4Right(kernel[at], layer[at])
    BY <2>1 DEF RightAfterLoad, W4A4Right, W13Of, W2Of
  <2>3. ~ Full => PreparedRight(W13Layout)
    BY <1>1, <2>1 DEF RightAfterLoad, PreparedRight
  <2>4. QED
    BY <1>4, <2>1, <2>2, <2>3
<1>5. QED
  BY <1>2, <1>3, <1>4

\* The classes other than the merged one.
LEMMA OtherApplyRight ==
    ASSUME TypeInv, OrderInv, LayersRight, BatchRight, phase # "stopped",
           UNCHANGED <<env, host, mergedVars>>,
           ApplyW4A4 \/ EnsureWrapper \/ ApplyOverlay \/ ApplyBase
    PROVE  LayersRight' /\ BatchRight'
<1>1. batch.stage # "idle" /\ combos' = combos
  BY DEF ApplyW4A4, EnsureWrapper, ApplyOverlay, ApplyBase, mergedVars
<1>2. /\ at \in Layers /\ phase \in Running /\ LayerRight(at) /\ Loaded(at)
      /\ layer \in [Layers -> LayerRecord] /\ kernel \in [Layers -> KernelRecord]
  BY <1>1, ApplyAt
<1>3. ASSUME UNCHANGED <<phase, layer, at, tokens, kernel>>,
             NEW ids \in BatchesOf(tokens), NEW right,
             batch' = Answered(ids, "w4a4", right), Supported(at) => right
      PROVE  LayersRight' /\ BatchRight'
  <2>1. LayersRight'
    BY <1>1, <1>2, <1>3, LayersKept
  <2>2. /\ batch'.stage = "answered" /\ batch'.ids = ids
        /\ right => batch'.out = ExactRows(ids)
    BY <1>3, AnsweredRows
  <2>3. BatchRight'
    BY <1>3, <2>2, AnswerRight
  <2>4. QED
    BY <2>1, <2>3
<1>4. CASE ApplyW4A4
  <2>1. Class(at) = "w4a4" /\ kernel' = kernel
    BY <1>4 DEF ApplyW4A4
  <2>2. PICK ids \in BatchesOf(tokens) :
          IF UseW4A4(tokens)
          THEN /\ batch' = Answered(ids, "w4a4", W4A4Right(kernel[at], layer[at]))
               /\ UNCHANGED <<phase, layer, at, tokens>>
          ELSE B12xApply(ids, W13Layout)
    BY <1>4 DEF ApplyW4A4
  <2>3. CASE UseW4A4(tokens)
    <3>1. Supported(at) => W4A4Right(kernel[at], layer[at])
      BY <1>1, <2>1, PreparedWhenLoaded
    <3>2. QED
      BY <1>3, <2>1, <2>2, <2>3, <3>1
  <2>4. CASE ~ UseW4A4(tokens)
    <3>1. Supported(at) => ~ Full
      <4>1. Supported(at) => kernel[at].ready
        BY <1>1, <2>1, PreparedWhenLoaded
      <4>2. QED
        BY <2>1, <2>4, <4>1 DEF Supported, UseW4A4
    <3>2. Supported(at) => PreparedRight(W13Layout)
      BY <1>1, <2>1, <3>1, PreparedWhenLoaded
    <3>3. Class(at) \notin {"base", "merged"}
      BY <2>1
    <3>4. B12xApply(ids, W13Layout)
      BY <2>2, <2>4
    <3>5. QED
      BY <1>1, <2>1, <3>2, <3>3, <3>4, FallBackRight
  <2>5. QED
    BY <2>3, <2>4
<1>5. CASE EnsureWrapper
  <2>1. /\ UNCHANGED <<phase, layer, at, tokens, batch>>
        /\ \E w : kernel' = [kernel EXCEPT ![at].wrapper = w]
    BY <1>5 DEF EnsureWrapper
  <2>2. \A l \in Layers :
          /\ kernel'[l].ready = kernel[l].ready /\ kernel'[l].w13 = kernel[l].w13
          /\ kernel'[l].w2 = kernel[l].w2 /\ kernel'[l].s13 = kernel[l].s13
    <3>1. PICK w : kernel' = [kernel EXCEPT ![at].wrapper = w]
      BY <2>1
    <3>2. ASSUME NEW l \in Layers
          PROVE  /\ kernel'[l].ready = kernel[l].ready /\ kernel'[l].w13 = kernel[l].w13
                 /\ kernel'[l].w2 = kernel[l].w2 /\ kernel'[l].s13 = kernel[l].s13
      <4>1. kernel[l] \in KernelRecord
        BY <1>2
      <4>2. CASE l = at
        BY <1>2, <3>1, <4>1, <4>2 DEF KernelRecord
      <4>3. CASE l # at
        BY <1>2, <3>1, <4>3
      <4>4. QED
        BY <4>2, <4>3
    <3>3. QED
      BY <3>2
  <2>3. LayersRight'
    BY <1>1, <1>2, <2>1, <2>2, LayersKept
  <2>4. BatchRight'
    BY <2>1, BatchKept
  <2>5. QED
    BY <2>3, <2>4
<1>6. CASE ApplyOverlay
  <2>1. Class(at) = "overlay" /\ UNCHANGED <<phase, layer, at, tokens, kernel>>
        /\ \E ids \in BatchesOf(tokens) : batch' = Answered(ids, "w4a4", kernel[at].s13 = "folded" /\ ~ env.inputWeights)
    BY <1>6 DEF ApplyOverlay
  <2>2. Supported(at) => kernel[at].s13 = "folded" /\ ~ env.inputWeights
    BY <1>2, <2>1 DEF LayerRight, Supported
  <2>3. QED
    BY <1>3, <2>1, <2>2
<1>7. CASE ApplyBase
  <2>1. Class(at) = "base" /\ kernel' = kernel
        /\ \E ids \in BatchesOf(tokens) : B12xApply(ids, "w31")
    BY <1>7 DEF ApplyBase
  <2>2. PreparedRight("w31")
    BY <1>1, <2>1, PreparedWhenLoaded
  <2>3. QED
    BY <1>1, <2>1, <2>2, FallBackRight
<1>8. QED
  BY <1>4, <1>5, <1>6, <1>7

\* What a bucket adds to the cache, the cache has built from the layer's w2.
LEMMA ComboKept ==
    ASSUME ComboInv, at \in Layers, NEW combo, KeepCombo(combo)
    PROVE  /\ \A l \in Layers : l # at => combos'[l] = combos[l]
           /\ \A c \in DOMAIN combos'[at] :
                \/ c \in DOMAIN combos[at] /\ combos'[at][c] = combos[at][c]
                \/ c = combo /\ combos'[at][c] = Cached(combo)
<1>1. CASE combo \in DOMAIN combos[at]
  BY <1>1 DEF KeepCombo
<1>2. CASE combo \notin DOMAIN combos[at]
  <2> DEFINE appended == Append(order[at], combo)
             kept == IF Len(appended) > ComboCap
                       THEN SubSeq(appended, Len(appended) - ComboCap + 1, Len(appended))
                       ELSE appended
             cache == [c \in ToSet(kept) |-> IF c = combo THEN Cached(combo) ELSE combos[at][c]]
  <2>1. combos' = [combos EXCEPT ![at] = cache]
    BY <1>2 DEF KeepCombo
  <2>2. /\ IsSequence(order[at]) /\ IsInjective(order[at]) /\ Len(order[at]) <= ComboCap
        /\ DOMAIN combos[at] = ToSet(order[at]) /\ DOMAIN combos = Layers
    BY DEF ComboInv, CombosBounded
  <2>3. ToSet(kept) \subseteq ToSet(order[at]) \cup {combo}
    <3>1. combo \notin ToSet(order[at])
      BY <1>2, <2>2
    <3>2. ComboCap \in Nat \ {0}
      BY ShapesAssumption
    <3> HIDE DEF kept
    <3>3. kept = Newest(order[at], combo, ComboCap)
      BY DEF kept, Newest
    <3>4. QED
      BY <2>2, <3>1, <3>2, <3>3, FirstInFirstOut
  <2> HIDE DEF kept
  <2>4. \A c \in ToSet(kept) : \/ c \in DOMAIN combos[at] /\ cache[c] = combos[at][c]
                               \/ c = combo /\ cache[c] = Cached(combo)
    BY <2>2, <2>3
  <2>5. DOMAIN cache = ToSet(kept)
    OBVIOUS
  <2> HIDE DEF cache
  <2>6. combos'[at] = cache /\ \A l \in Layers : l # at => combos'[l] = combos[l]
    BY <2>1, <2>2
  <2>7. QED
    BY <2>4, <2>5, <2>6
<1>3. QED
  BY <1>1, <1>2

\* As long as nobody has repacked the layer, the views show the checkpoint's
\* weights, and so does every combination, cached or made now.
LEMMA IntactSource ==
    ASSUME LayersRight, ComboInv, at \in Layers, phase \in Running, Class(at) = "merged",
           layer[at].w4a16 = "none", NEW combo
    PROVE  SourceIntact /\ Cached(combo).intact /\ Cached(combo).experts = combo
<1>1. LayerRight(at)
  BY DEF LayersRight
<1>2. /\ kernel[at].w13 = "view" /\ kernel[at].w2 = "view" /\ kernel[at].s13 = "w31"
      /\ layer[at] = FreshLayer(at) /\ \A c \in DOMAIN combos[at] : combos[at][c].intact
  BY <1>1 DEF LayerRight, Loaded
<1>3. layer[at].w13 = "w31" /\ layer[at].w2 = "loaded"
  BY <1>2 DEF FreshLayer
<1>4. SourceIntact /\ W2Of(kernel[at], layer[at]) = "loaded"
  BY <1>2, <1>3 DEF SourceIntact, W13Of, W2Of
<1>5. \A c \in DOMAIN combos[at] : combos[at][c].experts = c
  BY DEF ComboInv, CombosBounded
<1>6. QED
  BY <1>2, <1>4, <1>5 DEF Cached

\* The rows of a bucket have sorted experts in common, and come out exactly.
LEMMA BucketRows ==
    ASSUME NumExperts <= 256, SourceIntact, NEW ids \in Seq(Rows), NEW key \in Nat,
           RowsWith(ids, key) # {}, NEW item, item.intact,
           item.experts = SortedIds(ids[Min(RowsWith(ids, key))])
    PROVE  \A i \in RowsWith(ids, key) :
             MergedRow(ids[i], SortedIds(ids[Min(RowsWith(ids, key))]), item) = Exact(ids[i])
<1> DEFINE rows == RowsWith(ids, key)
<1>1. rows \subseteq 1 .. Len(ids) /\ Len(ids) \in Nat
  BY DEF RowsWith
<1>2. \A i \in rows : ids[i] \in Rows /\ BucketKey(ids[i]) = key
  BY DEF RowsWith
<1> HIDE DEF rows
<1>3. PICK m \in rows : m = Min(rows)
  <2>1. rows \in SUBSET Nat /\ rows # {}
    BY <1>1 DEF rows
  <2>2. QED
    BY <2>1, LeastNumber
<1>4. ASSUME NEW i \in rows
      PROVE  MergedRow(ids[i], SortedIds(ids[m]), item) = Exact(ids[i])
  <2>1. PICK row \in Rows : row = ids[i] /\ BucketKey(row) = key
    BY <1>2
  <2>2. PICK first \in Rows : first = ids[m] /\ BucketKey(first) = key
    BY <1>2
  <2>3. ValidRow(row) /\ ValidRow(first)
    BY <2>1, <2>2, KeyOfValidRow
  <2>4. SortedIds(row) = SortedIds(first)
    BY <2>1, <2>2, <2>3, SameKeySameExperts
  <2>5. item.experts = SortedIds(row)
    BY <1>3, <2>2, <2>4 DEF rows
  <2>6. MergedRow(row, SortedIds(row), item) = Exact(row)
    BY <2>3, <2>5, MergedRowExact
  <2>7. QED
    BY <2>1, <2>2, <2>4, <2>6
<1>5. QED
  BY <1>3, <1>4 DEF rows

\* A bucket leaves the rows it takes exact, and the others as they are.
LEMMA BucketRight ==
    ASSUME NumExperts <= 256, TypeInv, ComboInv, LayersRight, BatchRight, phase # "stopped",
           UNCHANGED <<env, host>>, Bucket
    PROVE  LayersRight' /\ BatchRight'
<1>1. batch.stage = "rows" /\ batch.todo # {} /\ UNCHANGED <<phase, layer, at, tokens, kernel>>
  BY DEF Bucket
<1>2. at \in Layers /\ phase \in Running
  BY <1>1, ApplyAt
<1>3. /\ Class(at) = "merged" /\ batch.ids \in BatchesOf(tokens) /\ batch.ids \in Seq(Rows)
      /\ batch.out = [i \in 1 .. tokens |-> batch.out[i]]
      /\ \A key \in batch.todo : key \in Nat /\ RowsWith(batch.ids, key) # {}
      /\ layer[at].w4a16 = "none" => \A i \in batch.merged : batch.out[i] = Exact(batch.ids[i])
  BY <1>1, BatchesTyped DEF BatchRight
<1> DEFINE key == Min(batch.todo)
           rows == RowsWith(batch.ids, key)
           combo == SortedIds(batch.ids[Min(rows)])
           written == [i \in DOMAIN batch.out |->
                         IF i \in rows THEN MergedRow(batch.ids[i], combo, Cached(combo))
                                       ELSE batch.out[i]]
           next == [batch EXCEPT !.todo = @ \ {key}]
<1>4. /\ \/ batch' = next
         \/ batch' = [next EXCEPT !.out = written]
         \/ batch' = [next EXCEPT !.out = written, !.merged = @ \cup rows]
      /\ combos' = combos \/ KeepCombo(combo)
  BY DEF Bucket
<1>5. batch = [stage |-> batch.stage, via |-> batch.via, ids |-> batch.ids, out |-> batch.out,
               merged |-> batch.merged, todo |-> batch.todo]
  BY DEF TypeInv, Types, IsBatch
<1>6. key \in batch.todo
  <2>1. batch.todo \in SUBSET Nat
    BY <1>3
  <2>2. QED
    BY <1>1, <2>1, LeastNumber
<1>7. rows \subseteq 1 .. tokens
  BY <1>3 DEF RowsWith, BatchesOf
<1>8. layer[at].w4a16 = "none" =>
        /\ Cached(combo).intact
        /\ \A i \in rows : MergedRow(batch.ids[i], combo, Cached(combo)) = Exact(batch.ids[i])
  <2>1. SUFFICES ASSUME layer[at].w4a16 = "none"
                 PROVE  /\ Cached(combo).intact
                        /\ \A i \in rows :
                             MergedRow(batch.ids[i], combo, Cached(combo)) = Exact(batch.ids[i])
    OBVIOUS
  <2>2. SourceIntact /\ Cached(combo).intact /\ Cached(combo).experts = combo
    BY <1>2, <1>3, <2>1, IntactSource
  <2>3. key \in Nat /\ RowsWith(batch.ids, key) # {}
    BY <1>3, <1>6
  <2> HIDE DEF key
  <2>4. PICK item : item = Cached(combo)
    OBVIOUS
  <2>5. \A i \in RowsWith(batch.ids, key) :
          MergedRow(batch.ids[i], SortedIds(batch.ids[Min(RowsWith(batch.ids, key))]), item)
            = Exact(batch.ids[i])
    BY <1>3, <2>2, <2>3, <2>4, BucketRows
  <2>6. QED
    BY <2>2, <2>4, <2>5
<1> HIDE DEF key, combo, rows
<1>9. /\ batch'.stage = "rows" /\ batch'.ids = batch.ids /\ batch'.todo \subseteq batch.todo
      /\ \/ batch'.out = batch.out /\ batch'.merged = batch.merged
         \/ batch'.out = written /\ batch'.merged \subseteq batch.merged \cup rows
  BY <1>1, <1>4, <1>5
<1>10. LayersRight'
  <2>1. ASSUME NEW l \in Layers, layer[l].w4a16 = "none", NEW c \in DOMAIN combos'[l]
        PROVE  combos'[l][c].intact \/ (c \in DOMAIN combos[l] /\ combos'[l][c] = combos[l][c])
    <3>1. CASE combos' = combos
      BY <3>1
    <3>2. CASE KeepCombo(combo)
      <4>1. /\ l # at => combos'[l] = combos[l]
            /\ l = at => \/ c \in DOMAIN combos[at] /\ combos'[at][c] = combos[at][c]
                         \/ c = combo /\ combos'[at][c] = Cached(combo)
        BY <1>2, <3>2, ComboKept
      <4>2. QED
        BY <1>8, <2>1, <4>1
    <3>3. QED
      BY <1>4, <3>1, <3>2
  <2>2. QED
    BY <1>1, <1>2, <2>1, LayersKept
<1>11. batch'.out = [i \in 1 .. tokens |-> batch'.out[i]]
  <2>1. written = [i \in 1 .. tokens |-> written[i]]
    <3>1. DOMAIN batch.out = 1 .. tokens
      BY <1>3
    <3>2. QED
      BY <3>1
  <2> HIDE DEF written
  <2>2. QED
    BY <1>3, <1>9, <2>1
<1>12. layer[at].w4a16 = "none" => \A i \in batch'.merged : batch'.out[i] = Exact(batch.ids[i])
  <2>1. SUFFICES ASSUME layer[at].w4a16 = "none", NEW i \in batch'.merged
                 PROVE  batch'.out[i] = Exact(batch.ids[i])
    OBVIOUS
  <2>2. CASE batch'.out = batch.out /\ batch'.merged = batch.merged
    BY <1>3, <2>1, <2>2
  <2>3. CASE batch'.out = written /\ batch'.merged \subseteq batch.merged \cup rows
    <3>1. i \in batch.merged \cup rows
      BY <2>3
    <3>2. i \in 1 .. tokens
      <4>1. batch.merged \subseteq DOMAIN batch.ids
        BY DEF TypeInv, Types, IsBatch
      <4>2. DOMAIN batch.ids = 1 .. tokens
        BY <1>3 DEF BatchesOf
      <4>3. QED
        BY <1>7, <3>1, <4>1, <4>2
    <3>3. i \in DOMAIN batch.out
      BY <1>3, <3>2
    <3>4. written[i] = IF i \in rows THEN MergedRow(batch.ids[i], combo, Cached(combo)) ELSE batch.out[i]
      BY <3>3
    <3>5. QED
      BY <1>3, <1>8, <2>1, <2>3, <3>1, <3>4
  <2>4. QED
    BY <1>9, <2>2, <2>3
<1>13. BatchRight'
  <2>1. Class(at)' = "merged"
    BY <1>1, <1>3 DEF Class
  <2>2. \A k : RowsWith(batch.ids, k)' = RowsWith(batch'.ids, k)
    BY DEF RowsWith, BucketKey, ValidId, Experts, SortedIds, SortedSlots, Slots
  <2>3. \A i : Exact(batch.ids[i])' = Exact(batch'.ids[i])
    BY DEF Exact, Terms, Experts, Slots
  <2>4. BatchesOf(tokens)' = BatchesOf(tokens)
    BY <1>1 DEF BatchesOf
  <2>5. QED
    BY <1>1, <1>3, <1>9, <1>11, <1>12, <2>1, <2>2, <2>3, <2>4 DEF BatchRight
<1>14. QED
  BY <1>10, <1>13

\* The batch of its own names each row that no bucket has taken.
LEMMA RestListed ==
    ASSUME batch.ids \in Seq(Rows)
    PROVE  /\ Cardinality(DOMAIN batch.ids \ batch.merged) \in Nat
           /\ RestRows \in [1 .. Cardinality(DOMAIN batch.ids \ batch.merged) ->
                              DOMAIN batch.ids \ batch.merged]
           /\ \A i \in DOMAIN batch.ids \ batch.merged :
                \E k \in 1 .. Cardinality(DOMAIN batch.ids \ batch.merged) : RestRows[k] = i
<1> DEFINE rest == DOMAIN batch.ids \ batch.merged
           Before(i) == {j \in rest : j < i}
           before == [i \in rest |-> Before(i)]
           listed == RestRows
<1>1. rest \in SUBSET Int /\ IsFiniteSet(rest)
  <2>1. DOMAIN batch.ids = 1 .. Len(batch.ids) /\ Len(batch.ids) \in Nat
    OBVIOUS
  <2>2. IsFiniteSet(1 .. Len(batch.ids))
    BY <2>1, FS_Interval
  <2>3. rest \in SUBSET (1 .. Len(batch.ids))
    BY <2>1
  <2> HIDE DEF rest
  <2>4. IsFiniteSet(rest)
    BY <2>2, <2>3, FS_Subset
  <2>5. QED
    BY <2>1, <2>3, <2>4
<1>2. listed = [k \in 1 .. Cardinality(rest) |-> CHOOSE i \in rest : Cardinality(Before(i)) = k - 1]
  BY DEF RestRows
<1> HIDE DEF rest, listed
<1>3. before \in [rest -> SUBSET rest] /\ \A i \in rest : before[i] = Before(i)
  OBVIOUS
<1>4. \A i, j \in rest : i \in before[j] <=> i < j
  OBVIOUS
<1> HIDE DEF Before, before
<1>5. /\ Cardinality(rest) \in Nat
      /\ \A i \in rest : Cardinality(before[i]) \in 0 .. Cardinality(rest) - 1
      /\ \A i, j \in rest : Cardinality(before[i]) = Cardinality(before[j]) => i = j
      /\ \A k \in 0 .. Cardinality(rest) - 1 : \E i \in rest : Cardinality(before[i]) = k
  BY <1>1, <1>3, <1>4, PlacesOfNumbers
<1>6. ASSUME NEW k \in 1 .. Cardinality(rest)
      PROVE  listed[k] \in rest /\ Cardinality(before[listed[k]]) = k - 1
  <2>1. k - 1 \in 0 .. Cardinality(rest) - 1
    BY <1>5
  <2>2. \E i \in rest : Cardinality(Before(i)) = k - 1
    BY <1>3, <1>5, <2>1
  <2>3. listed[k] = CHOOSE i \in rest : Cardinality(Before(i)) = k - 1
    BY <1>2
  <2>4. listed[k] \in rest /\ Cardinality(Before(listed[k])) = k - 1
    BY <2>2, <2>3
  <2>5. QED
    BY <1>3, <2>4
<1>7. listed \in [1 .. Cardinality(rest) -> rest]
  BY <1>2, <1>6
<1>8. ASSUME NEW i \in rest PROVE \E k \in 1 .. Cardinality(rest) : listed[k] = i
  <2>1. PICK n \in 0 .. Cardinality(rest) - 1 : n = Cardinality(before[i])
    BY <1>5
  <2>2. n + 1 \in 1 .. Cardinality(rest) /\ (n + 1) - 1 = n
    BY <1>5
  <2>3. listed[n + 1] = i
    BY <1>5, <1>6, <2>1, <2>2
  <2>4. QED
    BY <2>2, <2>3
<1>9. QED
  BY <1>5, <1>7, <1>8 DEF rest, listed

\* The rest goes through Triton, and each row gets its own result back.
LEMMA TritonRight ==
    ASSUME SampledScales \subseteq 118 .. 135, TypeInv, ComboInv, LayersRight, BatchRight,
           phase # "stopped", UNCHANGED <<env, host>>, Triton
    PROVE  LayersRight' /\ BatchRight'
<1>1. /\ batch.stage = "rows"
      /\ UNCHANGED <<phase, layer, at, tokens, kernel, combos>>
  BY DEF Triton, mergedVars
<1>2. at \in Layers /\ phase \in Running
  BY <1>1, ApplyAt
<1>3. /\ Class(at) = "merged" /\ batch.ids \in BatchesOf(tokens) /\ batch.ids \in Seq(Rows)
      /\ batch.out = [i \in 1 .. tokens |-> batch.out[i]]
      /\ layer[at].w4a16 = "none" => \A i \in batch.merged : batch.out[i] = Exact(batch.ids[i])
  BY <1>1, BatchesTyped DEF BatchRight
<1>4. tokens \in Nat /\ Len(batch.ids) = tokens /\ DOMAIN batch.ids = 1 .. tokens
  BY <1>3 DEF BatchesOf
<1> DEFINE rest == RestRows
           rows == [k \in DOMAIN rest |-> batch.ids[rest[k]]]
           result == TritonRows(rows)
           out == [i \in DOMAIN batch.out |->
                     IF i \in batch.merged THEN batch.out[i]
                     ELSE IF SourceIntact THEN result[CHOOSE k \in DOMAIN rest : rest[k] = i]
                     ELSE Garbage]
<1>5. batch' = [batch EXCEPT !.stage = "answered", !.via = "merged", !.out = out]
  BY DEF Triton
<1>6. batch = [stage |-> batch.stage, via |-> batch.via, ids |-> batch.ids, out |-> batch.out,
               merged |-> batch.merged, todo |-> batch.todo]
  BY DEF TypeInv, Types, IsBatch
<1> HIDE DEF out, rest
<1>7. batch'.stage = "answered" /\ batch'.ids = batch.ids /\ batch'.out = out
  BY <1>5, <1>6
<1>8. PICK n \in Nat : /\ rest \in [1 .. n -> DOMAIN batch.ids \ batch.merged]
                       /\ \A i \in DOMAIN batch.ids \ batch.merged : \E k \in 1 .. n : rest[k] = i
  BY <1>3, RestListed DEF rest
<1>9. rows \in Seq(Rows) /\ Len(rows) = n /\ \A k \in 1 .. n : rows[k] = batch.ids[rest[k]]
  <2>1. rows = [k \in 1 .. n |-> batch.ids[rest[k]]]
    BY <1>8
  <2>2. \A k \in 1 .. n : batch.ids[rest[k]] \in Rows
    BY <1>3, <1>8
  <2> HIDE DEF rows
  <2>3. rows \in [1 .. n -> Rows]
    BY <2>1, <2>2
  <2>4. QED
    BY <2>1, <2>3
<1> HIDE DEF rows
<1>10. result = [k \in 1 .. n |-> Exact(rows[k])]
  BY <1>9, TritonRowsExact
<1> HIDE DEF result
<1>11. layer[at].w4a16 = "none" => out = ExactRows(batch.ids)
  <2>1. SUFFICES ASSUME layer[at].w4a16 = "none" PROVE out = ExactRows(batch.ids)
    OBVIOUS
  <2>2. SourceIntact
    BY <1>2, <1>3, <2>1, IntactSource
  <2>3. out = [i \in 1 .. tokens |-> out[i]]
    <3>1. DOMAIN batch.out = 1 .. tokens
      BY <1>3
    <3>2. QED
      BY <3>1 DEF out
  <2>4. ASSUME NEW i \in 1 .. tokens PROVE out[i] = Exact(batch.ids[i])
    <3>1. i \in DOMAIN batch.out
      BY <1>3
    <3>2. CASE i \in batch.merged
      BY <1>3, <2>1, <3>1, <3>2 DEF out
    <3>3. CASE i \notin batch.merged
      <4> DEFINE k == CHOOSE j \in DOMAIN rest : rest[j] = i
      <4>1. out[i] = result[k]
        BY <2>2, <3>1, <3>3 DEF out
      <4>2. k \in 1 .. n /\ rest[k] = i
        <5>1. DOMAIN rest = 1 .. n /\ \E j \in 1 .. n : rest[j] = i
          BY <1>4, <1>8, <3>3
        <5>2. QED
          BY <5>1
      <4> HIDE DEF k
      <4>3. result[k] = Exact(rows[k]) /\ rows[k] = batch.ids[i]
        BY <1>9, <1>10, <4>2
      <4>4. QED
        BY <4>1, <4>3
    <3>4. QED
      BY <3>2, <3>3
  <2>5. QED
    BY <1>4, <2>3, <2>4 DEF ExactRows
<1>12. batch'.via = "merged"
  BY <1>5, <1>6
<1>13. BatchRight'
  BY <1>1, <1>3, <1>7, <1>11, <1>12, AnswerRight
<1>14. LayersRight'
  BY <1>1, <1>2, LayersKept
<1>15. QED
  BY <1>13, <1>14

\* The merged experts: the buckets of a batch are those that some row is in.
LEMMA ApplyMergedRight ==
    ASSUME TypeInv, OrderInv, LayersRight, BatchRight, phase # "stopped",
           UNCHANGED <<env, host>>, ApplyMerged
    PROVE  LayersRight' /\ BatchRight'
<1>1. /\ batch.stage # "idle" /\ Class(at) = "merged" /\ UNCHANGED <<kernel, combos>>
  BY DEF ApplyMerged, mergedVars
<1>2. at \in Layers /\ phase \in Running
  BY <1>1, ApplyAt
<1>3. PICK ids \in BatchesOf(tokens) :
        IF ~ kernel[at].ready \/ env.expertMap THEN B12xApply(ids, "w31")
        ELSE IF UseMerged(tokens) /\ phase = "capture" THEN Stop
        ELSE /\ batch' = [NoBatch EXCEPT
                  !.stage = "rows", !.ids = ids,
                  !.out = [i \in 1 .. tokens |-> Garbage],
                  !.todo = IF UseMerged(tokens) THEN LargeBuckets(ids) ELSE {}]
             /\ UNCHANGED <<phase, layer, at, tokens>>
  BY DEF ApplyMerged
<1>4. CASE B12xApply(ids, "w31")
  <2>1. PreparedRight("w31")
    BY <1>1, PreparedWhenLoaded
  <2>2. QED
    BY <1>1, <1>4, <2>1, FallBackRight
<1>5. CASE Stop
  <2>1. phase' = "stopped" /\ UNCHANGED <<layer, at, tokens, batch>>
    BY <1>5 DEF Stop
  <2>2. QED
    BY <1>1, <1>2, <2>1, LayersKept, BatchKept
<1>6. CASE /\ batch' = [NoBatch EXCEPT
                 !.stage = "rows", !.ids = ids,
                 !.out = [i \in 1 .. tokens |-> Garbage],
                 !.todo = IF UseMerged(tokens) THEN LargeBuckets(ids) ELSE {}]
           /\ UNCHANGED <<phase, layer, at, tokens>>
  <2>1. /\ batch'.stage = "rows" /\ batch'.ids = ids /\ batch'.merged = {}
        /\ batch'.out = [i \in 1 .. tokens |-> Garbage]
        /\ batch'.todo \subseteq LargeBuckets(ids)
    BY <1>6 DEF NoBatch
  <2>2. ASSUME NEW key \in LargeBuckets(ids) PROVE key \in Nat /\ RowsWith(ids, key) # {}
    <3>1. PICK i \in 1 .. Len(ids) : key = BucketKey(ids[i]) /\ key >= 0
      <4> DEFINE keys == {<<i, BucketKey(ids[i])>> : i \in 1 .. Len(ids)}
      <4>1. PICK y \in keys : key = y[2] /\ y[2] >= 0
        BY DEF LargeBuckets
      <4>2. PICK i \in 1 .. Len(ids) : y = <<i, BucketKey(ids[i])>>
        OBVIOUS
      <4>3. y[2] = BucketKey(ids[i])
        BY <4>2
      <4>4. QED
        BY <4>1, <4>3
    <3>2. ids \in Seq(Rows)
      BY BatchesTyped
    <3>3. ids[i] \in Rows
      BY <3>2
    <3>4. key \in Int
      BY <3>1, <3>3, KeyOfValidRow
    <3>5. key \in Nat
      BY <3>1, <3>4
    <3>6. i \in RowsWith(ids, key)
      BY <3>1 DEF RowsWith
    <3>7. QED
      BY <3>5, <3>6
  <2>3. \A key \in batch'.todo : key \in Nat /\ RowsWith(batch'.ids, key) # {}
    BY <2>1, <2>2
  <2>4. batch'.out = [i \in 1 .. tokens |-> batch'.out[i]]
    BY <2>1
  <2>5. Class(at)' = "merged" /\ BatchesOf(tokens)' = BatchesOf(tokens)
    BY <1>1, <1>6 DEF Class, BatchesOf
  <2>6. \A k : RowsWith(batch.ids, k)' = RowsWith(batch'.ids, k)
    BY DEF RowsWith, BucketKey, ValidId, Experts, SortedIds, SortedSlots, Slots
  <2>7. BatchRight'
    BY <1>6, <2>1, <2>3, <2>4, <2>5, <2>6 DEF BatchRight
  <2>8. LayersRight'
    BY <1>1, <1>2, <1>6, LayersKept
  <2>9. QED
    BY <2>7, <2>8
<1>7. QED
  BY <1>3, <1>4, <1>5, <1>6

\* Triton fails: the base class takes the whole batch, on weights it can prepare.
LEMMA TritonFailsRight ==
    ASSUME TypeInv, OrderInv, LayersRight, BatchRight, phase # "stopped",
           UNCHANGED <<env, host>>, TritonFails
    PROVE  LayersRight' /\ BatchRight'
<1>1. /\ batch.stage = "rows" /\ UNCHANGED <<kernel, combos>> /\ B12xApply(batch.ids, "w31")
  BY DEF TritonFails, mergedVars
<1>2. batch.ids \in BatchesOf(tokens) /\ Class(at) = "merged"
  BY <1>1 DEF BatchRight
<1>3. PreparedRight("w31")
  BY <1>1, <1>2, PreparedWhenLoaded
<1>4. QED
  BY <1>1, <1>2, <1>3, FallBackRight

\* Every step keeps loaded layers right and answers exact.
LEMMA RightNext ==
    ASSUME NumExperts <= 256, SampledScales \subseteq 118 .. 135,
           TypeInv, OrderInv, ComboInv, LayersRight, BatchRight, [Next]_vars
    PROVE  LayersRight' /\ BatchRight'
<1>1. CASE Install
  BY <1>1, InstallRight
<1>2. CASE Load
  BY <1>2, LoadRight
<1>3. CASE LoadFails
  <2>1. UNCHANGED <<env, host, layer, kernel, combos, at, tokens, batch>> /\ phase' = "stopped"
        /\ phase # "import"
    BY <1>3 DEF LoadFails, Stop, mergedVars, TypeInv, Control
  <2>2. QED
    BY <2>1, OutsideRight DEF Running
<1>4. CASE Apply
  <2>1. phase # "stopped" /\ UNCHANGED <<env, host>>
    BY <1>4 DEF Apply
  <2>2. CASE ApplyMerged
    BY <2>1, <2>2, ApplyMergedRight
  <2>3. CASE Bucket
    BY <2>1, <2>3, BucketRight
  <2>4. CASE TritonFails
    BY <2>1, <2>4, TritonFailsRight
  <2>5. CASE Triton
    BY <2>1, <2>5, TritonRight
  <2>6. CASE (ApplyW4A4 \/ EnsureWrapper \/ ApplyOverlay \/ ApplyBase) /\ UNCHANGED mergedVars
    BY <2>1, <2>6, OtherApplyRight
  <2>7. QED
    BY <1>4, <2>2, <2>3, <2>4, <2>5, <2>6 DEF Apply
<1>5. CASE NextLayer
  <2>1. /\ UNCHANGED <<env, host, layer, kernel, combos>>
        /\ phase' = phase \/ (phase = "profile" /\ phase' = "capture")
        /\ batch.stage = "answered" /\ batch'.stage \in {"apply", "idle"}
    BY <1>5 DEF NextLayer, expertVars, mergedVars, NoBatch
  <2>2. phase \notin {"import", "load"}
    BY <2>1 DEF TypeInv, Control
  <2>3. QED
    BY <2>1, <2>2, OutsideRight DEF Running
<1>6. CASE Profile \/ Capture \/ Serve
  <2>1. /\ UNCHANGED <<env, host, phase, layer, kernel, combos>> /\ phase \in Running
        /\ batch'.stage = "apply"
    BY <1>6 DEF Profile, Capture, Serve, Begin, expertVars, mergedVars, NoBatch, Running
  <2>2. QED
    BY <2>1, OutsideRight DEF Running
<1>7. CASE Captured
  <2>1. /\ UNCHANGED <<env, host, layer, kernel, combos, at, tokens, batch>>
        /\ phase = "capture" /\ phase' = "serve"
    BY <1>7 DEF Captured, expertVars, mergedVars
  <2>2. QED
    BY <2>1, OutsideRight DEF Running
<1>8. CASE UNCHANGED vars
  <2>1. UNCHANGED <<env, host, phase, layer, kernel, combos, at, tokens, batch>>
    BY <1>8 DEF vars, passVars, expertVars, mergedVars
  <2>2. QED
    BY <2>1, OutsideRight
<1>9. QED
  BY <1>1, <1>2, <1>3, <1>4, <1>5, <1>6, <1>7, <1>8 DEF Next, Step

\* For any layers, experts, sizes, batches and environments, and whatever way a
\* batch takes: each row of an answer is the sum over its valid slots, each once
\* and with its own weight, as long as an expert fits the digit of base 256 that
\* the key of a bucket gives it, which the code takes for granted, and the scales
\* of the checkpoint are in the range that an E4M3 byte has.
THEOREM EveryRowExact ==
    ASSUME NumExperts <= 256, SampledScales \subseteq 118 .. 135
    PROVE  Spec => []RowsExact
<1>1. Init => OrderInv
  BY DEF Init, OrderInv, FreshKernel, Running
<1>2. Init => ComboInv
  BY ComboInit
<1>3. Init => LayersRight /\ BatchRight
  <2> SUFFICES ASSUME Init PROVE LayersRight /\ BatchRight
    OBVIOUS
  <2>1. phase = "import" /\ batch.stage = "idle" /\ \A l \in Layers : combos[l] = <<>>
    BY DEF Init, NoBatch
  <2>2. DOMAIN <<>> = {}
    OBVIOUS
  <2>3. LayersRight
    BY <2>1, <2>2 DEF LayersRight, LayerRight, Loaded, Running
  <2>4. BatchRight
    BY <2>1 DEF BatchRight
  <2>5. QED
    BY <2>3, <2>4
<1>4. TypeInv /\ OrderInv /\ [Next]_vars => OrderInv'
  BY OrderNext
<1>5. TypeInv /\ ComboInv /\ [Next]_vars => ComboInv'
  BY ComboNext
<1>6. TypeInv /\ OrderInv /\ ComboInv /\ LayersRight /\ BatchRight /\ [Next]_vars
        => LayersRight' /\ BatchRight'
  BY RightNext
<1>7. BatchRight => RowsExact
  <2> SUFFICES ASSUME BatchRight, batch.stage = "answered", Supported(at),
                      batch.via = "merged" => layer[at].w4a16 = "none"
               PROVE  /\ Len(batch.out) = tokens
                      /\ \A i \in 1 .. tokens : batch.out[i] = Exact(batch.ids[i])
    BY DEF RowsExact
  <2>1. batch.ids \in BatchesOf(tokens) /\ batch.out = ExactRows(batch.ids)
    BY DEF BatchRight
  <2>2. tokens \in Nat /\ Len(batch.ids) = tokens
    BY <2>1, BatchesTyped DEF BatchesOf
  <2>3. batch.out = [i \in 1 .. tokens |-> Exact(batch.ids[i])]
    BY <2>1, <2>2 DEF ExactRows
  <2>4. QED
    BY <2>2, <2>3
<1>8. QED
  BY <1>1, <1>2, <1>3, <1>4, <1>5, <1>6, <1>7, EngineTypes, PTL DEF Spec
=============================================================================
