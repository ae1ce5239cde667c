-------------------------- MODULE CooperativeGemm --------------------------
(***************************************************************************)
(* The persistent cooperative kernel of                                    *)
(* dense_blockscaled_gemm_persistent_cooperative.py: all MMA warps work on *)
(* the same tile, so there is no order barrier; every warp gives back      *)
(* every stage, the named barrier of the epilogue counts all of them, and  *)
(* a warp that is through with its epilogue starts the next tile while     *)
(* bulk stores of this one are still to be read.  The control states are   *)
(* those of PingpongGemm.                                                  *)
(***************************************************************************)
EXTENDS TmaPipeline

AllWarps == 2 * launch.warps

FreshCoopWarp ==
    [executed |-> 0, pipe |-> PipeState(0), frag |-> <<>>, acc |-> <<>>, blk |-> 0,
     epi |-> 0, buf |-> 0]

FreshCoopWarps(l) == [w \in Warps(l) |-> FreshCoopWarp]

CoopLoadStage == LoadFrom(TileN(Linear(loader.executed)))

CoopLoaderTail == DrainLoader

(***************************************************************************)
(* The main loop.                                                          *)
(***************************************************************************)
CoopExitLoop(w) ==
    /\ pc[w] = "start"
    /\ ~Valid(warp[w].executed)
    /\ Go(w, "done")
    /\ UNCHANGED <<warp, empty>>
    /\ UnchangedInLoop

CoopFirstBlock(w) ==
    /\ pc[w] = "start"
    /\ Valid(warp[w].executed)
    /\ StageFull(w)
    /\ Go(w, AtBlock(0))
    /\ warp' = [warp EXCEPT ![w].blk = 0, ![w].acc = <<>>, ![w].pipe.count = 0,
                            ![w].frag = [b \in {0} |-> Fragment(w, 0)]]
    /\ UNCHANGED empty
    /\ UnchangedInLoop

\* The multiplication comes before the copy, except in the last k tile.
MultiplyAndCopy(w) ==
    LET b == warp[w].blk
        copied == Copied(w, b + 1)
        used == IF warp[w].pipe.count + 1 = launch.kTiles THEN copied ELSE warp[w].frag
    IN /\ pc[w] = "block"
       /\ Go(w, AtBlock(b + 1))
       /\ warp' = [warp EXCEPT ![w].blk = b + 1, ![w].frag = copied,
                               ![w].acc = Append(@, used[b])]
       /\ UNCHANGED empty
       /\ UnchangedInLoop

CoopReleaseStage(w) ==
    LET s == warp[w].pipe
    IN /\ pc[w] = "release"
       /\ empty' = [empty EXCEPT ![s.index] = Arrived(@, w, AllWarps)]
       /\ Go(w, IF s.count + 1 = launch.kTiles THEN "last" ELSE "next")
       /\ warp' = [warp EXCEPT ![w].pipe = Advanced(s)]
       /\ UnchangedInLoop

CoopNextStage(w) ==
    /\ pc[w] = "next"
    /\ StageFull(w)
    /\ Go(w, AtBlock(0))
    /\ warp' = [warp EXCEPT ![w].blk = 0, ![w].frag = Copied(w, 0),
                            ![w].acc = Append(@, warp[w].frag[LastBlock])]
    /\ UNCHANGED empty
    /\ UnchangedInLoop

\* The last block of the tile; then the first slice of the epilogue.
CoopLeaveMainLoop(w) ==
    /\ pc[w] = "last"
    /\ Go(w, "epilogue")
    /\ warp' = [warp EXCEPT ![w].epi = 0, ![w].acc = Append(@, warp[w].frag[LastBlock])]
    /\ UNCHANGED empty
    /\ UnchangedInLoop

(***************************************************************************)
(* The epilogue: the buffer index goes on from tile to tile.               *)
(***************************************************************************)
CoopLastSlice(w) == warp[w].epi + 1 = launch.epiTiles

CoopSliceDone(w) == IF CoopLastSlice(w) THEN "start" ELSE "epilogue"

CoopNextSlice(w) ==
    IF CoopLastSlice(w) THEN [warp[w] EXCEPT !.executed = @ + 1]
    ELSE [warp[w] EXCEPT !.epi = @ + 1]

CoopSync(w, at, registers) ==
    LET here == bar \cup {w}
        place(v) == IF v = w THEN at ELSE pc[v]
        onward(v) == place(v) = "sync2" /\ v # <<0, 0>>
    IN IF Cardinality(here) = AllWarps
       THEN /\ bar' = {}
            /\ pc' = [v \in Warps(launch) |->
                        CASE place(v) = "sync1" -> "write"
                          [] onward(v) -> CoopSliceDone(v)
                          [] OTHER -> "store"]
            /\ warp' = [v \in Warps(launch) |->
                          IF onward(v) THEN CoopNextSlice(v) ELSE registers[v]]
       ELSE bar' = here /\ Go(w, at) /\ warp' = registers

CoopSyncBeforeWrite(w) ==
    /\ pc[w] = "epilogue"
    /\ CoopSync(w, "sync1", [warp EXCEPT ![w].buf = (@ + 1) % launch.epiStages])
    /\ UnchangedButWarp
    /\ UNCHANGED <<empty, ord, order, sC, stores>>

CoopPart(w) ==
    [tile |-> Linear(warp[w].executed), epi |-> warp[w].epi, acc |-> warp[w].acc]

CoopWriteSlice(w) ==
    /\ pc[w] = "write"
    /\ sC' = [sC EXCEPT ![warp[w].buf] =
                [v \in DOMAIN @ \cup {w} |-> IF v = w THEN CoopPart(w) ELSE @[v]]]
    /\ CoopSync(w, "sync2", warp)
    /\ UnchangedButWarp
    /\ UNCHANGED <<empty, ord, order, stores>>

CoopStoreSlice(w) ==
    /\ pc[w] = "store"
    /\ stores' = [stores EXCEPT ![w] = Append(@,
            [buf |-> warp[w].buf, tile |-> Linear(warp[w].executed),
             epi |-> warp[w].epi, read |-> FALSE])]
    /\ Go(w, "acquire")
    /\ UnchangedButWarp
    /\ UNCHANGED <<warp, empty, ord, order, bar, sC>>

CoopAcquireBuffer(w) ==
    /\ pc[w] = "acquire"
    /\ AtMostUnread(w, launch.epiStages - 1)
    /\ Go(w, CoopSliceDone(w))
    /\ warp' = [warp EXCEPT ![w] = CoopNextSlice(w)]
    /\ UNCHANGED empty
    /\ UnchangedInLoop

CoopWarp(w) ==
    \/ CoopExitLoop(w) \/ CoopFirstBlock(w) \/ MultiplyAndCopy(w)
    \/ CoopReleaseStage(w) \/ CoopNextStage(w) \/ CoopLeaveMainLoop(w)
    \/ CoopSyncBeforeWrite(w) \/ CoopWriteSlice(w) \/ CoopStoreSlice(w)
    \/ CoopAcquireBuffer(w)

CoopInit ==
    /\ launch \in Launches("cooperative")
    /\ warp = FreshCoopWarps(launch)
    /\ FreshMachine

CoopNext ==
    \/ CoopLoadStage \/ CoopLoaderTail
    \/ \E w \in Warps(launch) : CoopWarp(w)
    \/ \E x \in inflight : Land(x)
    \/ \E w \in Warps(launch) : \E i \in DOMAIN stores[w] : ReadStore(w, i)
=============================================================================
