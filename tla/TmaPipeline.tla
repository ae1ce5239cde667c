---------------------------- MODULE TmaPipeline ----------------------------
(***************************************************************************)
(* The machine under the two GEMM kernels of an SM120 GPU: one CTA with a  *)
(* loader warp, two groups of MMA warps, a ring of shared-memory stages    *)
(* guarded by mbarriers, the asynchronous copies of the TMA engine, and    *)
(* the epilogue buffers its bulk stores read.  mbarriers, named barriers,  *)
(* the TMA engine, the pipeline classes and the tile scheduler are the     *)
(* CUTLASS DSL and the hardware: they are modelled from how the kernels    *)
(* use them.  A barrier remembers the parity of its phase and nothing      *)
(* else, as the hardware does: a wait passes when the phase of its parity  *)
(* is over, whichever round it belonged to.                                *)
(*                                                                         *)
(* A launch is a record: schedule, stages, kTiles and kBlocks (k tiles of  *)
(* a problem, MMA blocks of a tile), epiTiles and epiStages (slices of the *)
(* epilogue and their buffers), mTiles and tiles (output tiles), cta and   *)
(* grid (this CTA and how many there are), map (tile-N indirection),       *)
(* warps (MMA warps of a group).                                           *)
(***************************************************************************)
EXTENDS Integers, Sequences, FiniteSets

CONSTANTS
    Operands,   \* the tensors a stage holds: A, B and their scale factors
    NOperands   \* those of them that the tile map redirects: B and its scales

ASSUME OperandsAssumption ==
    /\ IsFiniteSet(Operands)
    /\ Operands # {}
    /\ NOperands \subseteq Operands

VARIABLES
    launch,     \* what the host launched
    loader,     \* the DMA warp: control, tiles executed, pipeline state
    pc,         \* control of the MMA warps
    warp,       \* their tiles executed, pipeline state and registers
    ord,        \* their states of the order barrier
    full,       \* per stage, the mbarrier the loads complete
    empty,      \* per stage, the mbarrier the MMA warps release
    order,      \* per depth and group, the mbarrier of the group's turn
    inflight,   \* TMA loads under way
    smem,       \* per stage and operand, the block of the source it holds
    bar,        \* the warps that wait at the named barrier of the epilogue
    sC,         \* per epilogue buffer, what each warp of the group wrote there
    stores,     \* per warp, the bulk stores it committed, oldest first
    out         \* per tile and epilogue slice, what was stored, in order

vars == <<launch, loader, pc, warp, ord, full, empty, order, inflight, smem, bar,
          sC, stores, out>>

Groups == {0, 1}
Warps(l) == Groups \X (0 .. l.warps - 1)
GroupOf(g) == {w \in Warps(launch) : w[1] = g}
Stages(l) == 0 .. l.stages - 1

(***************************************************************************)
(* The static persistent scheduler: a CTA takes every grid-th tile.  The   *)
(* batch dimension L is 1, as for every caller.                            *)
(***************************************************************************)
Linear(executed) == launch.cta + launch.grid * executed
\* Mutant: the last tile is left out.
ValidButLast(executed) == Linear(executed) < launch.tiles - 1

Valid(executed) == Linear(executed) < launch.tiles
TileM(t) == t % launch.mTiles
TileN(t) == t \div launch.mTiles

(***************************************************************************)
(* Pipeline states: the index of a stage, the parity the next wait on it   *)
(* has to see completed, and a count of the k tiles of this output tile.   *)
(***************************************************************************)
PipeState(parity) == [index |-> 0, phase |-> parity, count |-> 0]

\* Mutant: the index does not wrap.
AdvancedNoWrap(s) == [s EXCEPT !.index = @ + 1, !.count = @ + 1]

Advanced(s) ==
    [index |-> (s.index + 1) % launch.stages,
     phase |-> IF s.index + 1 = launch.stages THEN 1 - s.phase ELSE s.phase,
     count |-> s.count + 1]

Passes(b, parity) == b.phase # parity

(***************************************************************************)
(* An mbarrier that a set of warps arrives at: the phase ends with the     *)
(* last of them.                                                           *)
(***************************************************************************)
Arrived(b, w, expected) ==
    IF Cardinality(b.arrived \cup {w}) = expected
    THEN [phase |-> 1 - b.phase, arrived |-> {}]
    ELSE [b EXCEPT !.arrived = @ \cup {w}]

\* The loader arms a stage's barrier with the number of loads it waits for.
Armed(b, loads) == [phase |-> b.phase, armed |-> TRUE, tx |-> b.tx + loads]

\* One load has landed.
Landed(b) ==
    IF b.armed /\ b.tx = 1
    THEN [phase |-> 1 - b.phase, armed |-> FALSE, tx |-> 0]
    ELSE [b EXCEPT !.tx = @ - 1]

(***************************************************************************)
(* Values a kernel starts with.                                            *)
(***************************************************************************)
FreshLoader == [pc |-> "load", executed |-> 0, pipe |-> PipeState(1)]
FreshFull(l) == [s \in Stages(l) |-> [phase |-> 0, armed |-> FALSE, tx |-> 0]]
FreshBarrier == [phase |-> 0, arrived |-> {}]
FreshEmpty(l) == [s \in Stages(l) |-> FreshBarrier]
FreshOrder == [d \in {0, 1} |-> [g \in Groups |-> FreshBarrier]]
FreshSmem(l) == [s \in Stages(l) |-> [op \in Operands |-> <<>>]]
FreshBuffers(l) == [b \in 0 .. l.epiStages - 1 |-> <<>>]
FreshStores(l) == [w \in Warps(l) |-> <<>>]
FreshOut(l) == [t \in 0 .. l.tiles - 1 |-> [e \in 0 .. l.epiTiles - 1 |-> <<>>]]

(***************************************************************************)
(* What a launch may be, and the machine it finds.                         *)
(***************************************************************************)
Positive == Nat \ {0}

Launches(schedule) ==
    [schedule : {schedule}, stages : Positive, kTiles : Positive, kBlocks : Positive,
     epiTiles : Positive, epiStages : Positive, mTiles : Positive, tiles : Positive,
     cta : Nat, grid : Positive, map : Seq(Nat), warps : Positive]

FreshMachine ==
    /\ loader = FreshLoader
    /\ pc = [w \in Warps(launch) |-> "start"]
    /\ full = FreshFull(launch)
    /\ empty = FreshEmpty(launch)
    /\ inflight = {}
    /\ smem = FreshSmem(launch)
    /\ bar = {}
    /\ sC = FreshBuffers(launch)
    /\ stores = FreshStores(launch)
    /\ out = FreshOut(launch)

(***************************************************************************)
(* The TMA engine: loads land and stores are read, each in its own time.   *)
(* A load carries the coordinates of its source; a store reads its buffer  *)
(* when the engine gets to it, not when it was issued.                     *)
(***************************************************************************)
Land(x) ==
    /\ x \in inflight
    /\ inflight' = inflight \ {x}
    /\ smem' = [smem EXCEPT ![x.stage][x.op] = x.src]
    /\ full' = [full EXCEPT ![x.stage] = Landed(@)]
    /\ UNCHANGED <<launch, loader, pc, warp, ord, empty, order, bar, sC, stores, out>>

ReadStore(w, i) ==
    /\ i \in DOMAIN stores[w]
    /\ ~stores[w][i].read
    /\ LET s == stores[w][i] IN
       out' = [out EXCEPT ![s.tile][s.epi] = Append(@, sC[s.buf])]
    /\ stores' = [stores EXCEPT ![w][i].read = TRUE]
    /\ UNCHANGED <<launch, loader, pc, warp, ord, full, empty, order, inflight, smem,
                   bar, sC>>

\* cp.async.bulk.wait_group.read: at most n of the committed stores, the
\* youngest ones, may be unread.
AtMostUnread(w, n) ==
    \A i \in DOMAIN stores[w] : i <= Len(stores[w]) - n => stores[w][i].read

(***************************************************************************)
(* What a warp reads of a stage with ldmatrix: block b of every operand.   *)
(***************************************************************************)
Fragment(w, b) ==
    [block |-> b, from |-> smem[warp[w].pipe.index]]

(***************************************************************************)
(* The loader warp: one k tile of the current output tile into the next    *)
(* stage, B and its scales from tile tn of the N axis.                     *)
(***************************************************************************)
Source(op, t, k, tn) == IF op \in NOperands THEN <<tn, k>> ELSE <<TileM(t), k>>

\* The bytes the stage's barrier waits for: every operand's.
TxCount == Cardinality(Operands)

LoadFrom(tn) ==
    LET s == loader.pipe
        t == Linear(loader.executed)
        whole == s.count + 1 = launch.kTiles
    IN /\ loader.pc = "load"
       /\ Valid(loader.executed)
       /\ Passes(empty[s.index], s.phase)
       /\ full' = [full EXCEPT ![s.index] = Armed(@, TxCount)]
       /\ inflight' = inflight \cup
            {[stage |-> s.index, op |-> op, src |-> Source(op, t, s.count, tn)] :
                op \in Operands}
       /\ loader' = [loader EXCEPT
            !.pipe = IF whole THEN [Advanced(s) EXCEPT !.count = 0] ELSE Advanced(s),
            !.executed = IF whole THEN @ + 1 ELSE @]
       /\ UNCHANGED <<launch, pc, warp, ord, empty, order, smem, bar, sC, stores, out>>

\* producer_tail: wait until the stage filled last has been given back.
DrainLoader ==
    LET last == (loader.pipe.index + launch.stages - 1) % launch.stages
        parity == IF loader.pipe.index = 0 THEN loader.pipe.phase ELSE 1 - loader.pipe.phase
    IN /\ loader.pc = "load"
       /\ ~Valid(loader.executed)
       /\ Passes(empty[last], parity)
       /\ full' = [full EXCEPT ![last] = Armed(@, TxCount)]
       /\ loader' = [loader EXCEPT !.pc = "done"]
       /\ UNCHANGED <<launch, pc, warp, ord, empty, order, inflight, smem, bar, sC,
                      stores, out>>

(***************************************************************************)
(* What an MMA warp sees of a stage, and its registers after the copy of   *)
(* a block.                                                                *)
(***************************************************************************)
StageFull(w) == Passes(full[warp[w].pipe.index], warp[w].pipe.phase)

Copied(w, b) == [c \in DOMAIN warp[w].frag \cup {b} |->
                    IF c = b THEN Fragment(w, b) ELSE warp[w].frag[c]]

LastBlock == launch.kBlocks - 1
AtBlock(b) == IF b = LastBlock THEN "release" ELSE "block"

\* What no step of an MMA warp changes, and what the steps of its main loop
\* leave alone.
UnchangedButWarp == UNCHANGED <<launch, loader, full, inflight, smem, out>>
UnchangedInLoop == UnchangedButWarp /\ UNCHANGED <<ord, order, bar, sC, stores>>

Go(w, to) == pc' = [pc EXCEPT ![w] = to]
=============================================================================
