---------------------------- MODULE PingpongGemm ----------------------------
(***************************************************************************)
(* The persistent ping-pong kernel of                                      *)
(* dense_blockscaled_gemm_persistent_pingpong.py (the tile-map version):   *)
(* the two groups of MMA warps take the tiles of the CTA in turn, and an   *)
(* order barrier of depth two keeps one group in the main loop while the   *)
(* other is in the epilogue.  Both groups share one loader, one ring of    *)
(* stages, one named barrier and one set of epilogue buffers.              *)
(*                                                                         *)
(* pc of an MMA warp:                                                      *)
(*   start    before the clear of the accumulator and the turn in the      *)
(*            main loop                                                    *)
(*   first    has the turn, waits for the first stage of the tile          *)
(*   block    owns the stage, next: copy a block, multiply the one before  *)
(*   release  owns the stage, next: give it back                           *)
(*   next     waits for the next stage of the tile                         *)
(*   last     multiplies the last block, then hands over the main loop     *)
(*   cross    waits for the turn in the epilogue                           *)
(*   epilogue, sync1, write, sync2, store, acquire                         *)
(*            the two barriers of a slice, its write and its bulk store    *)
(*   finish   all slices issued; drains and hands over the epilogue        *)
(*   done     no tile left                                                 *)
(***************************************************************************)
EXTENDS TmaPipeline

\* Mutant: the parity is not toggled.
SkipTileKeepPhase(l, s) ==
    [s EXCEPT !.index = (@ + l.kTiles) % l.stages, !.count = @ + l.kTiles]

\* The k tiles of a whole output tile are skipped at once.
SkipTile(l, s) ==
    LET at == s.index + l.kTiles
        wrapped == \/ l.kTiles < l.stages /\ at >= l.stages
                   \/ l.kTiles >= l.stages /\ (at \div l.stages) % 2 = 1
    IN [index |-> at % l.stages,
        phase |-> IF wrapped THEN 1 - s.phase ELSE s.phase,
        count |-> s.count + l.kTiles]

\* Group 0 takes the first tile; group 1 leaves it, and its k tiles, alone.
FreshPingWarp(l, g) ==
    [executed |-> g,
     pipe |-> IF g = 1 THEN SkipTile(l, PipeState(0)) ELSE PipeState(0),
     frag |-> <<>>, acc |-> <<>>, blk |-> 0, epi |-> 0]

FreshPingWarps(l) == [w \in Warps(l) |-> FreshPingWarp(l, w[1])]

\* Mutant: the groups start with the same parity.
FreshOrdAlike(l) == [w \in Warps(l) |-> [index |-> 0, phase |-> 1]]

\* The order barrier lets group 0 pass first.
FreshOrd(l) == [w \in Warps(l) |-> [index |-> 0, phase |-> 1 - w[1]]]

\* The tile map redirects B and its scales to a tile of the stacked weight.
LoadStage == LoadFrom(launch.map[TileN(Linear(loader.executed)) + 1])

LoaderTail == DrainLoader

(***************************************************************************)
(* The order barrier: a group waits for the barrier of its own turn and    *)
(* arrives at the other group's.                                           *)
(***************************************************************************)
Turn(w) == Passes(order[ord[w].index][w[1]], ord[w].phase)

NextTurn(o) ==
    [index |-> 1 - o.index, phase |-> IF o.index = 1 THEN 1 - o.phase ELSE o.phase]

HandOver(w) ==
    LET d == ord[w].index
    IN /\ order' = [order EXCEPT ![d][1 - w[1]] = Arrived(@, w, launch.warps)]
       /\ ord' = [ord EXCEPT ![w] = NextTurn(@)]

(***************************************************************************)
(* The main loop.                                                          *)
(***************************************************************************)
StartTile(w) ==
    /\ pc[w] = "start"
    /\ Valid(warp[w].executed)
    /\ Turn(w)
    /\ Go(w, "first")
    /\ warp' = [warp EXCEPT ![w].acc = <<>>, ![w].pipe.count = 0]
    /\ UNCHANGED empty
    /\ UnchangedInLoop

ExitLoop(w) ==
    /\ pc[w] = "start"
    /\ ~Valid(warp[w].executed)
    /\ Go(w, "done")
    /\ UNCHANGED <<warp, empty>>
    /\ UnchangedInLoop

FirstBlock(w) ==
    /\ pc[w] = "first"
    /\ StageFull(w)
    /\ Go(w, AtBlock(0))
    /\ warp' = [warp EXCEPT ![w].blk = 0, ![w].frag = [b \in {0} |-> Fragment(w, 0)]]
    /\ UNCHANGED empty
    /\ UnchangedInLoop

\* The next block is copied before this one is multiplied.
CopyThenMultiply(w) ==
    LET b == warp[w].blk
        frag == Copied(w, b + 1)
    IN /\ pc[w] = "block"
       /\ Go(w, AtBlock(b + 1))
       /\ warp' = [warp EXCEPT ![w].blk = b + 1, ![w].frag = frag,
                               ![w].acc = Append(@, frag[b])]
       /\ UNCHANGED empty
       /\ UnchangedInLoop

ReleaseStage(w) ==
    LET s == warp[w].pipe
    IN /\ pc[w] = "release"
       /\ empty' = [empty EXCEPT ![s.index] = Arrived(@, w, launch.warps)]
       /\ Go(w, IF s.count + 1 = launch.kTiles THEN "last" ELSE "next")
       /\ warp' = [warp EXCEPT ![w].pipe = Advanced(s)]
       /\ UnchangedInLoop

\* The last block of a stage is multiplied after the next stage was waited
\* for and its first block copied.
NextStage(w) ==
    LET frag == Copied(w, 0)
    IN /\ pc[w] = "next"
       /\ StageFull(w)
       /\ Go(w, AtBlock(0))
       /\ warp' = [warp EXCEPT ![w].blk = 0, ![w].frag = frag,
                               ![w].acc = Append(@, frag[LastBlock])]
       /\ UNCHANGED empty
       /\ UnchangedInLoop

LeaveMainLoop(w) ==
    /\ pc[w] = "last"
    /\ HandOver(w)
    /\ Go(w, "cross")
    /\ warp' = [warp EXCEPT ![w].acc = Append(@, warp[w].frag[LastBlock])]
    /\ UnchangedButWarp
    /\ UNCHANGED <<empty, bar, sC, stores>>

(***************************************************************************)
(* The epilogue.                                                           *)
(***************************************************************************)
\* Mutant: no turn in the epilogue.
EnterEpilogueAtOnce(w) ==
    /\ pc[w] = "cross"
    /\ Go(w, "epilogue")
    /\ warp' = [warp EXCEPT ![w].epi = 0, ![w].pipe = SkipTile(launch, @)]
    /\ UNCHANGED empty
    /\ UnchangedInLoop

EnterEpilogue(w) ==
    /\ pc[w] = "cross"
    /\ Turn(w)
    /\ Go(w, "epilogue")
    /\ warp' = [warp EXCEPT ![w].epi = 0, ![w].pipe = SkipTile(launch, @)]
    /\ UNCHANGED empty
    /\ UnchangedInLoop

Leader(w) == w[2] = 0

\* After a slice: the next one, or the end of the tile.
LastSlice(w) == warp[w].epi + 1 = launch.epiTiles
SliceDone(w) == IF LastSlice(w) THEN "finish" ELSE "epilogue"
NextSlice(w) == IF LastSlice(w) THEN warp[w] ELSE [warp[w] EXCEPT !.epi = @ + 1]

\* The named barrier has no names: it opens for whoever waits when as many
\* warps as one group has are there.  Only the leader goes on to the store.
Sync(w, at) ==
    LET here == bar \cup {w}
        place(v) == IF v = w THEN at ELSE pc[v]
        after(v) == CASE place(v) = "sync1" -> "write"
                      [] place(v) = "sync2" /\ Leader(v) -> "store"
                      [] OTHER -> SliceDone(v)
    IN IF Cardinality(here) = launch.warps
       THEN /\ bar' = {}
            /\ pc' = [v \in Warps(launch) |-> IF v \in here THEN after(v) ELSE pc[v]]
            /\ warp' = [v \in Warps(launch) |->
                          IF v \in here /\ place(v) = "sync2" /\ ~Leader(v)
                          THEN NextSlice(v) ELSE warp[v]]
       ELSE bar' = here /\ Go(w, at) /\ warp' = warp

SyncBeforeWrite(w) ==
    /\ pc[w] = "epilogue"
    /\ Sync(w, "sync1")
    /\ UnchangedButWarp
    /\ UNCHANGED <<empty, ord, order, sC, stores>>

EpiBuffer(w) == warp[w].epi % launch.epiStages

\* What one warp puts in its part of a buffer.
Part(w) == [tile |-> Linear(warp[w].executed), epi |-> warp[w].epi, acc |-> warp[w].acc]

WriteSlice(w) ==
    LET b == EpiBuffer(w)
    IN /\ pc[w] = "write"
       /\ sC' = [sC EXCEPT ![b] =
                   [i \in DOMAIN @ \cup {w[2]} |-> IF i = w[2] THEN Part(w) ELSE @[i]]]
       /\ Sync(w, "sync2")
       /\ UnchangedButWarp
       /\ UNCHANGED <<empty, ord, order, stores>>

StoreSlice(w) ==
    /\ pc[w] = "store"
    /\ stores' = [stores EXCEPT ![w] = Append(@,
            [buf |-> EpiBuffer(w), tile |-> Linear(warp[w].executed),
             epi |-> warp[w].epi, read |-> FALSE])]
    /\ Go(w, "acquire")
    /\ UnchangedButWarp
    /\ UNCHANGED <<warp, empty, ord, order, bar, sC>>

\* Mutant: one unread store too many is let be.
AcquireBufferEarly(w) ==
    /\ pc[w] = "acquire"
    /\ AtMostUnread(w, launch.epiStages)
    /\ Go(w, SliceDone(w))
    /\ warp' = [warp EXCEPT ![w] = NextSlice(w)]
    /\ UNCHANGED empty
    /\ UnchangedInLoop

AcquireBuffer(w) ==
    /\ pc[w] = "acquire"
    /\ AtMostUnread(w, launch.epiStages - 1)
    /\ Go(w, SliceDone(w))
    /\ warp' = [warp EXCEPT ![w] = NextSlice(w)]
    /\ UNCHANGED empty
    /\ UnchangedInLoop

\* Mutant: the stores are not drained.
FinishTileUndrained(w) ==
    /\ pc[w] = "finish"
    /\ HandOver(w)
    /\ Go(w, "start")
    /\ warp' = [warp EXCEPT ![w].executed = @ + 2]
    /\ UnchangedButWarp
    /\ UNCHANGED <<empty, bar, sC, stores>>

\* The two advances skip the other group's tile; the group's own stores are
\* drained before the epilogue is handed over.
FinishTile(w) ==
    /\ pc[w] = "finish"
    /\ AtMostUnread(w, 0)
    /\ HandOver(w)
    /\ Go(w, "start")
    /\ warp' = [warp EXCEPT ![w].executed = @ + 2]
    /\ UnchangedButWarp
    /\ UNCHANGED <<empty, bar, sC, stores>>

PingWarp(w) ==
    \/ StartTile(w) \/ ExitLoop(w) \/ FirstBlock(w) \/ CopyThenMultiply(w)
    \/ ReleaseStage(w) \/ NextStage(w) \/ LeaveMainLoop(w) \/ EnterEpilogue(w)
    \/ SyncBeforeWrite(w) \/ WriteSlice(w) \/ StoreSlice(w) \/ AcquireBuffer(w)
    \/ FinishTile(w)

PingNext ==
    \/ LoadStage \/ LoaderTail
    \/ \E w \in Warps(launch) : PingWarp(w)
    \/ \E x \in inflight : Land(x)
    \/ \E w \in Warps(launch) : \E i \in DOMAIN stores[w] : ReadStore(w, i)

(***************************************************************************)
(* The kernel by itself, for any launch of its schedule.                   *)
(***************************************************************************)
PingLaunches == Launches("pingpong")

PingInit ==
    /\ launch \in PingLaunches
    /\ warp = FreshPingWarps(launch)
    /\ ord = FreshOrd(launch)
    /\ order = FreshOrder
    /\ FreshMachine

PingSpec == PingInit /\ [][PingNext]_vars

MainLoop == {"first", "block", "release", "next", "last"}
Epilogue == {"epilogue", "sync1", "write", "sync2", "store", "acquire", "finish"}

\* The order barrier of the ping-pong schedule: the two groups are never both
\* in the main loop nor both in the epilogue, where they would consume one ring
\* of stages out of turn and meet at one named barrier that counts warps of
\* either group.
OneGroupPerPart ==
    launch.schedule = "pingpong" =>
      \A v, w \in Warps(launch) :
        v[1] # w[1] => /\ ~(pc[v] \in MainLoop /\ pc[w] \in MainLoop)
                       /\ ~(pc[v] \in Epilogue /\ pc[w] \in Epilogue)
=============================================================================
