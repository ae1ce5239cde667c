---------------------------- MODULE MergedExperts ----------------------------
(***************************************************************************)
(* The experts of the merged plug-in: rows that chose the same set of      *)
(* experts make a bucket; a bucket that is large enough runs as two merged *)
(* GEMMs, every other row in Triton.  Neither touches the layer's weights, *)
(* which nobody prepares for W4A16.                                        *)
(***************************************************************************)
EXTENDS W4A4Experts, SequencesExt, Functions

CONSTANTS
    MergedMinM,     \* VLLM_MOE_MERGED_MIN_M
    ComboCap,       \* VLLM_MOE_MERGED_W2_CAP
    Tiers,          \* M_TIERS, ascending
    TileM,          \* rows of a tile of the GEMM, 128
    WarmTopK        \* nc of _dsl_warmup

ASSUME TiersAssumption ==
    /\ Tiers \in Seq(Nat) /\ Len(Tiers) > 0
    /\ \A i, j \in DOMAIN Tiers : i < j => Tiers[i] < Tiers[j]

VARIABLES
    combos,     \* _w2_combo of each layer
    order,      \* _w2_combo_order of each layer
    compiled,   \* keys of _COMPILED
    late,       \* those compiled after loading
    warmed      \* outcome of the one warm-up of the process

mergedVars == <<combos, order, compiled, late, warmed>>

TopTier == Last(Tiers)
PickTier(m) ==
    LET fits == {i \in DOMAIN Tiers : Tiers[i] >= m}
    IN IF fits # {} THEN Tiers[Min(fits)] ELSE ((m + TileM - 1) \div TileM) * TileM

\* A compiled kernel is found by its M, N, K and the rows of B.
W13Gemm(tier, experts) ==
    <<tier, experts * RowsPerExpert, HiddenSize, NumExperts * RowsPerExpert>>
W2Gemm(tier, experts) ==
    <<tier, HiddenSize, experts * (RowsPerExpert \div 2), HiddenSize>>
Gemms(tier, experts) == {W13Gemm(tier, experts), W2Gemm(tier, experts)}
\* Mutant: only the first GEMM of a tier is warmed up.
WarmKeysW13Only == {W13Gemm(Tiers[i], WarmTopK) : i \in DOMAIN Tiers}

WarmKeys == UNION {Gemms(Tiers[i], WarmTopK) : i \in DOMAIN Tiers}

\* What an exception in the warm-up leaves: the tiers before it, half of its own.
WarmPrefixes ==
    UNION {LET before == UNION {Gemms(Tiers[j], WarmTopK) : j \in 1 .. i - 1}
           IN {before, before \cup {W13Gemm(Tiers[i], WarmTopK)}} : i \in DOMAIN Tiers}

(***************************************************************************)
(* _derive, instead of the packed prepare.  The warm-up runs for the first *)
(* layer of the process only, and may fail half way.                       *)
(***************************************************************************)
Warmup ==
    IF env.warmup /\ warmed = "no"
    THEN \/ warmed' = "done" /\ compiled' = compiled \cup WarmKeys
         \/ warmed' = "failed" /\ \E keys \in WarmPrefixes : compiled' = compiled \cup keys
    ELSE UNCHANGED <<warmed, compiled>>

LoadMerged ==
    /\ Class(at) = "merged"
    /\ kernel' = [kernel EXCEPT ![at] =
         [ready |-> TRUE, w13 |-> "view", w2 |-> "view", s13 |-> layer[at].s13, wrapper |-> 0]]
    /\ Warmup
    /\ UNCHANGED <<layer, poolVars, combos, order, late>>

-----------------------------------------------------------------------------
(***************************************************************************)
(* torch.sort of a row: the slot at each place.                            *)
(***************************************************************************)
SortedSlots(row) ==
    LET Before(j) == {i \in Slots : row[i] < row[j] \/ (row[i] = row[j] /\ i < j)}
    IN [i \in Slots |-> CHOOSE j \in Slots : Cardinality(Before(j)) = i - 1]
SortedIds(row) == [i \in Slots |-> row[SortedSlots(row)[i]]]

\* Mutant: the key is taken from the first slots only.
BucketKeyShort(row) ==
    IF \E j \in Slots : ~ ValidId(row[j]) THEN -1
    ELSE SortedIds(row)[1] * 256

\* key_bytes
BucketKey(row) ==
    IF \E j \in Slots : ~ ValidId(row[j]) THEN -1
    ELSE LET sorted == SortedIds(row)
             key[i \in 0 .. TopK] == IF i = 0 THEN 0 ELSE key[i - 1] * 256 + sorted[i]
         IN key[TopK]

RowsWith(ids, key) == {i \in 1 .. Len(ids) : BucketKey(ids[i]) = key}

\* The buckets that are worth a merged GEMM; rows with a bad id make none.
LargeBuckets(ids) ==
    LET keys == {<<i, BucketKey(ids[i])>> : i \in 1 .. Len(ids)}
        Bucketed(k) == k >= 0 /\ Cardinality({x \in keys : x[2] = k}) >= MergedMinM
    IN {x[2] : x \in {y \in keys : Bucketed(y[2])}}

UseMerged(m) == m >= MergedMinM /\ ~ env.inputWeights

\* Nothing has been written over the tensors the views show.
SourceIntact ==
    /\ W13Of(kernel[at], layer[at]) = "w31" /\ kernel[at].s13 = "w31"
    /\ W2Of(kernel[at], layer[at]) = "loaded"

\* tile_map, and the expert whose tiles make block i of the first GEMM.
TilesPerExpert == RowsPerExpert \div 128
TileMap(combo) ==
    [t \in 0 .. TopK * TilesPerExpert - 1 |->
       combo[(t \div TilesPerExpert) + 1] * TilesPerExpert + (t % TilesPerExpert)]
OwnerOfBlock(combo, i) ==
    LET owners == {e \in Experts : \A k \in 0 .. TilesPerExpert - 1 :
                     TileMap(combo)[(i - 1) * TilesPerExpert + k] = e * TilesPerExpert + k}
    IN IF owners = {} THEN NumExperts ELSE CHOOSE e \in owners : TRUE

(***************************************************************************)
(* _w2_combo_get: the concatenation of the experts' w2, first in first     *)
(* out.  The caller keeps what it got even if it is dropped at once.       *)
(***************************************************************************)
Cached(combo) ==
    IF combo \in DOMAIN combos[at] THEN combos[at][combo]
    ELSE [experts |-> combo, intact |-> W2Of(kernel[at], layer[at]) = "loaded"]

\* Mutant: the order forgets a combination, the cache does not.
KeepComboLeaks(combo) ==
    IF combo \in DOMAIN combos[at] THEN UNCHANGED <<combos, order>>
    ELSE LET appended == Append(order[at], combo)
             kept == IF Len(appended) > ComboCap
                       THEN SubSeq(appended, Len(appended) - ComboCap + 1, Len(appended))
                       ELSE appended
         IN /\ order' = [order EXCEPT ![at] = kept]
            /\ combos' = [combos EXCEPT ![at] =
                 [c \in ToSet(appended) |-> IF c = combo THEN Cached(combo) ELSE @[c]]]

KeepCombo(combo) ==
    IF combo \in DOMAIN combos[at] THEN UNCHANGED <<combos, order>>
    ELSE LET appended == Append(order[at], combo)
             kept == IF Len(appended) > ComboCap
                       THEN SubSeq(appended, Len(appended) - ComboCap + 1, Len(appended))
                       ELSE appended
         IN /\ order' = [order EXCEPT ![at] = kept]
            /\ combos' = [combos EXCEPT ![at] =
                 [c \in ToSet(kept) |-> IF c = combo THEN Cached(combo) ELSE @[c]]]

\* A row of the merged result: block i weighted with the i-th sorted weight,
\* against the i-th part of the cached w2.
MergedRow(row, combo, item) ==
    IF ~ (SourceIntact /\ item.intact) THEN Garbage
    ELSE [t \in Terms |->
            Cardinality({i \in Slots :
              /\ OwnerOfBlock(combo, i) = t[1]
              /\ item.experts[i] = t[1]
              /\ SortedSlots(row)[i] = t[2]})]

\* Mutant: a kernel is compiled but not kept.
CompilingForgets(keys) ==
    /\ late' = late \cup (keys \ compiled)
    /\ UNCHANGED compiled

Compiling(keys) ==
    /\ compiled' = compiled \cup keys
    /\ late' = late \cup (keys \ compiled)

-----------------------------------------------------------------------------
(***************************************************************************)
(* apply.  The buckets are found with a copy to the host, which the        *)
(* capture of a CUDA graph does not allow.                                 *)
(***************************************************************************)
ApplyMerged ==
    /\ batch.stage = "apply"
    /\ Class(at) = "merged"
    /\ \E ids \in BatchesOf(tokens) :
         IF ~ kernel[at].ready \/ env.expertMap THEN B12xApply(ids, "w31")
         ELSE IF UseMerged(tokens) /\ phase = "capture" THEN Stop
         ELSE /\ batch' = [NoBatch EXCEPT
                   !.stage = "rows", !.ids = ids,
                   !.out = [i \in 1 .. tokens |-> Garbage],
                   !.todo = IF UseMerged(tokens) THEN LargeBuckets(ids) ELSE {}]
              /\ UNCHANGED <<phase, layer, at, tokens>>
    /\ UNCHANGED <<kernel, poolVars, mergedVars>>

(***************************************************************************)
(* One bucket, in the order of the keys.  An exception may come before the *)
(* second operand is there, after it, or after the rows were written; the  *)
(* bucket is then left to Triton.                                          *)
(***************************************************************************)
Bucket ==
    /\ batch.stage = "rows"
    /\ batch.todo # {}
    /\ LET key == Min(batch.todo)
           rows == RowsWith(batch.ids, key)
           combo == SortedIds(batch.ids[Min(rows)])
           tier == PickTier(Cardinality(rows))
           item == Cached(combo)
           written == [i \in DOMAIN batch.out |->
                         IF i \in rows THEN MergedRow(batch.ids[i], combo, item)
                                       ELSE batch.out[i]]
           next == [batch EXCEPT !.todo = @ \ {key}]
       IN \/ /\ batch' = next
             /\ UNCHANGED <<combos, order, compiled, late>>
          \/ /\ batch' = next
             /\ KeepCombo(combo)
             /\ Compiling({W13Gemm(tier, TopK)})
          \/ /\ batch' = [next EXCEPT !.out = written]
             /\ KeepCombo(combo)
             /\ Compiling(Gemms(tier, TopK))
          \/ /\ tier >= Cardinality(rows) /\ tier % TileM = 0
             /\ batch' = [next EXCEPT !.out = written, !.merged = @ \cup rows]
             /\ KeepCombo(combo)
             /\ Compiling(Gemms(tier, TopK))
    /\ UNCHANGED <<phase, layer, at, tokens, kernel, poolVars, warmed>>

RestRows ==
    LET rest == DOMAIN batch.ids \ batch.merged
    IN [k \in 1 .. Cardinality(rest) |->
          CHOOSE i \in rest : Cardinality({j \in rest : j < i}) = k - 1]

\* The rows no bucket has taken, in a batch of their own.
Triton ==
    /\ batch.stage = "rows"
    /\ batch.todo = {}
    /\ LET rest == RestRows
           result == TritonRows([k \in DOMAIN rest |-> batch.ids[rest[k]]])
       IN batch' = [batch EXCEPT
            !.stage = "answered", !.via = "merged",
            !.out = [i \in DOMAIN batch.out |->
                       IF i \in batch.merged THEN batch.out[i]
                       ELSE IF SourceIntact
                         THEN result[CHOOSE k \in DOMAIN rest : rest[k] = i]
                         ELSE Garbage]]
    /\ UNCHANGED <<phase, layer, at, tokens, kernel, poolVars, mergedVars>>

\* Mutant: Triton fails and the batch is tried again.
TritonFailsRetries ==
    /\ batch.stage = "rows"
    /\ batch.todo = {}
    /\ tokens > 0
    /\ batch' = [NoBatch EXCEPT !.stage = "apply"]
    /\ UNCHANGED <<phase, layer, at, tokens, kernel, poolVars, mergedVars>>

\* Triton fails: the whole batch goes to the class the plug-in has replaced.
TritonFails ==
    /\ batch.stage = "rows"
    /\ batch.todo = {}
    /\ tokens > 0
    /\ B12xApply(batch.ids, "w31")
    /\ UNCHANGED <<kernel, poolVars, mergedVars>>
=============================================================================
