------------------------------ MODULE TritonMoe ------------------------------
(***************************************************************************)
(* triton_moe: the pairs of a token and an expert, sorted by expert, each  *)
(* expert's run padded to whole blocks, a grid of static capacity, and the *)
(* weighted sum back into the tokens.                                      *)
(*                                                                         *)
(* A batch is a sequence of rows; a row gives the expert of each of its    *)
(* TopK slots.  An output row counts, for an expert and a slot, how often  *)
(* that expert's result went into it with the weight of that slot.         *)
(***************************************************************************)
EXTENDS ScaleLayout, FiniteSetsExt, Sequences

CONSTANTS
    NumExperts,     \* E
    TopK,           \* T
    BlockM,         \* rows of a block, block_m
    HiddenSize,     \* K of w13
    RowsPerExpert,  \* N13
    SampledRows,    \* rows of an expert whose scales are looked at
    SampledScales   \* E8M0 bytes a checkpoint has

Experts == 0 .. NumExperts - 1
Slots == 1 .. TopK
Terms == Experts \X Slots
Rows == [Slots -> Int]

ValidId(id) == id \in Experts

\* What a row is: every slot with a valid expert once, nothing else.
Exact(row) == [t \in Terms |-> IF row[t[2]] = t[1] THEN 1 ELSE 0]
Garbage == [t \in Terms |-> -1]

\* The storage of w13's scales gives an expert's rows their own scale, and the
\* kernel reads the value the checkpoint had.
ScalesRead(e) ==
    /\ \A n \in SampledRows, g \in 0 .. (HiddenSize \div 16) - 1 :
         LET row == e * RowsPerExpert + n
         IN TritonAt(row, g, HiddenSize) = SwizzledAt(row, g, (HiddenSize \div 16) \div 4)
    /\ \A x \in SampledScales : E4M3Value(E8M0ToE4M3(x)) = E8M0Value(x)

RightScales == {e \in Experts : ScalesRead(e)}

-----------------------------------------------------------------------------
(***************************************************************************)
(* Pair q belongs to token q \div TopK and slot q % TopK.                  *)
(***************************************************************************)
Pairs(batch) == 0 .. Len(batch) * TopK - 1
TokenOf(q) == (q \div TopK) + 1
SlotOf(q) == (q % TopK) + 1
Id(batch, q) == batch[TokenOf(q)][SlotOf(q)]
Clamped(id) == IF id < 0 THEN 0 ELSE IF id >= NumExperts THEN NumExperts - 1 ELSE id

\* argsort(stable): the place of each pair in the order of the experts.
Places(batch) ==
    LET E(q) == Clamped(Id(batch, q))
        Before(q) == {r \in Pairs(batch) : E(r) < E(q) \/ (E(r) = E(q) /\ r < q)}
    IN {<<Cardinality(Before(q)), q>> : q \in Pairs(batch)}

Count(batch, e) == Cardinality({q \in Pairs(batch) : Clamped(Id(batch, q)) = e})
Padding(n) == (BlockM - (n % BlockM)) % BlockM
Segment(batch, e) == Count(batch, e) + Padding(Count(batch, e))

\* cumsum of the segments.
SegmentEnds(batch) ==
    LET end[e \in Experts] ==
          IF e = 0 THEN Segment(batch, 0) ELSE end[e - 1] + Segment(batch, e)
    IN end

\* The length of the padded order is fixed before the experts are known.
Capacity(pairs) ==
    ((pairs + NumExperts * (BlockM - 1) + BlockM - 1) \div BlockM) * BlockM

(***************************************************************************)
(* _align_pairs: which pair is at which position of the padded order, and  *)
(* the expert whose weights a block reads; NumExperts is the mark of a     *)
(* block that returns at once.                                             *)
(***************************************************************************)
AlignPairs(batch, cap) ==
    LET ends == SegmentEnds(batch)
        segments == {[expert |-> e, count |-> Count(batch, e),
                      start |-> ends[e] - Segment(batch, e), end |-> ends[e]] : e \in Experts}
        Slot(p) == Cardinality({s \in segments : s.end <= p})
        valid == {p \in 0 .. cap - 1 :
                    \E s \in segments : s.expert = Slot(p) /\ p - s.start < s.count}
        places == Places(batch)
    IN [pairs |-> {pq \in valid \X Pairs(batch) :
                     <<Cardinality({v \in valid : v < pq[1]}), pq[2]>> \in places},
        blocks |-> {<<b, Slot(b * BlockM)>> : b \in 0 .. (cap \div BlockM) - 1}]

\* The rows triton_moe returns, of a payload and scales that are right.
TritonRows(batch) ==
    LET n == Len(batch) * TopK
        aligned == AlignPairs(batch, Capacity(n))
        \* position, token, slot and expert of all that is added up
        added == {<<pb[1][1], TokenOf(pb[1][2]), SlotOf(pb[1][2]), pb[2][2]>> :
                    pb \in {x \in aligned.pairs \X aligned.blocks :
                      /\ x[2][1] = x[1][1] \div BlockM
                      /\ x[2][2] \in RightScales
                      /\ ValidId(Id(batch, x[1][2]))}}
    IN IF n = 0 THEN <<>>
       ELSE [i \in 1 .. Len(batch) |-> [t \in Terms |->
               Cardinality({x \in added : x[2] = i /\ x[3] = t[2] /\ x[4] = t[1]})]]
=============================================================================
