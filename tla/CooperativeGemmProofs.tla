----------------------- MODULE CooperativeGemmProofs -----------------------
(***************************************************************************)
(* The ring of stages under the cooperative kernel, for every launch.  All *)
(* MMA warps share every k tile; a warp's place in the sequence of k tiles *)
(* follows from its control state and its registers, and with it the       *)
(* invariant of TmaPipelineProofs holds: the loader and the warps compare  *)
(* parities only, and yet every wait that passes has seen its own round.   *)
(*                                                                         *)
(* The second half is about the epilogue all warps share: that they pass   *)
(* its barriers together, that a buffer is written by nobody while a store *)
(* reads it, and that the stores leave the products in the output.         *)
(***************************************************************************)
EXTENDS CooperativeGemm, TmaPipelineProofs

(***************************************************************************)
(* Control and registers.                                                  *)
(***************************************************************************)
CoopLoop == {"block", "release", "next", "last"}
CoopEpilogue == {"epilogue", "sync1", "write", "sync2", "store", "acquire"}
CoopPlaces == {"start", "done"} \cup CoopLoop \cup CoopEpilogue

CoopIn(part) == {w \in Warps(launch) : pc[w] \in part}

CoopShape ==
    /\ launch \in Launches("cooperative")
    /\ pc \in [Warps(launch) -> CoopPlaces]
    /\ bar \subseteq CoopIn({"sync1", "sync2"})
    /\ RegisterShape
    /\ \A w \in Warps(launch) : "buf" \in DOMAIN warp[w]

CoopBase(w) == warp[w].executed + (IF pc[w] \in CoopEpilogue THEN 1 ELSE 0)

\* The k tile a warp is at, counted from the first one of the CTA.
CoopPosition(w) ==
    launch.kTiles * CoopBase(w) + (IF pc[w] \in CoopLoop THEN warp[w].pipe.count ELSE 0)

CoopInPlace(w) ==
    /\ warp[w].executed \in Nat
    /\ StandsAt(warp[w].pipe, CoopPosition(w))
    /\ pc[w] \in {"block", "release", "next"} => warp[w].pipe.count \in 0 .. launch.kTiles - 1
    /\ pc[w] = "last" => warp[w].pipe.count = launch.kTiles
    /\ warp[w].blk \in 0 .. LastBlock
    /\ pc[w] = "block" => warp[w].blk < LastBlock
    /\ warp[w].epi \in 0 .. launch.epiTiles - 1
    /\ warp[w].buf \in 0 .. launch.epiStages - 1
    /\ pc[w] \notin {"start", "done"} => Valid(warp[w].executed)

CoopAllInPlace == \A w \in Warps(launch) : CoopInPlace(w)

LEMMA CoopNumbers ==
  ASSUME launch \in Launches("cooperative")
  PROVE  /\ launch.stages \in Nat /\ launch.stages > 0
         /\ launch.kTiles \in Nat /\ launch.kTiles > 0
         /\ launch.warps \in Nat /\ launch.warps > 0
         /\ LastBlock \in Nat
         /\ launch.epiTiles \in Nat /\ launch.epiTiles > 0
         /\ launch.epiStages \in Nat /\ launch.epiStages > 0
         /\ launch.cta \in Nat /\ launch.grid \in Nat
BY DEF Launches, Positive, LastBlock

\* Two groups of warps.
LEMMA WarpsOfCta ==
  ASSUME launch \in Launches("cooperative")
  PROVE  /\ IsFiniteSet(Warps(launch)) /\ Cardinality(Warps(launch)) = AllWarps
         /\ AllWarps \in Nat /\ AllWarps > 0
<1>1. launch.warps \in Nat /\ launch.warps > 0
  BY CoopNumbers
<1>2. IsFiniteSet(0 .. launch.warps - 1) /\ Cardinality(0 .. launch.warps - 1) = launch.warps
  <2>1. launch.warps - 1 \in Int /\ 0 \in Int
    BY <1>1
  <2>2. /\ IsFiniteSet(0 .. launch.warps - 1)
        /\ Cardinality(0 .. launch.warps - 1) =
              IF 0 > launch.warps - 1 THEN 0 ELSE launch.warps - 1 - 0 + 1
    BY <2>1, FS_Interval
  <2>. QED
    BY <1>1, <2>2
<1>3. IsFiniteSet(Groups) /\ Cardinality(Groups) = 2
  <2>1. Groups = 0 .. 1
    BY DEF Groups
  <2>2. 0 \in Int /\ 1 \in Int
    OBVIOUS
  <2>3. IsFiniteSet(0 .. 1) /\ Cardinality(0 .. 1) = IF 0 > 1 THEN 0 ELSE 1 - 0 + 1
    BY <2>2, FS_Interval
  <2>. QED
    BY <2>1, <2>3
<1>4. /\ IsFiniteSet(Groups \X (0 .. launch.warps - 1))
      /\ Cardinality(Groups \X (0 .. launch.warps - 1)) = 2 * launch.warps
  BY <1>2, <1>3, FS_Product
<1>. QED
  BY <1>1, <1>4 DEF Warps, AllWarps

\* The warps whose registers a step leaves alone.
CoopKept(w) == \A v \in Warps(launch) : v # w => warp'[v] = warp[v] /\ pc'[v] = pc[v]

LEMMA CoopFirstBlockRegisters ==
  ASSUME CoopShape, NEW w \in Warps(launch), CoopFirstBlock(w)
  PROVE  /\ RegisterShape' /\ (\A v \in Warps(launch) : "buf" \in DOMAIN warp'[v])
         /\ CoopKept(w) /\ pc'[w] = AtBlock(0)
         /\ warp'[w].executed = warp[w].executed
         /\ warp'[w].pipe.index = warp[w].pipe.index
         /\ warp'[w].pipe.phase = warp[w].pipe.phase
         /\ warp'[w].pipe.count = 0
         /\ warp'[w].frag = [b \in {0} |-> Fragment(w, 0)] /\ warp'[w].acc = <<>>
         /\ warp'[w].blk = 0 /\ warp'[w].epi = warp[w].epi /\ warp'[w].buf = warp[w].buf
BY DEF CoopFirstBlock, CoopShape, RegisterShape, CoopKept, UnchangedInLoop,
       UnchangedButWarp, Fields, PipeFields, Go

MultiplyFirst(w) ==
    IF warp[w].pipe.count + 1 = launch.kTiles THEN Copied(w, warp[w].blk + 1)
    ELSE warp[w].frag

LEMMA MultiplyAndCopyRegisters ==
  ASSUME CoopShape, NEW w \in Warps(launch), MultiplyAndCopy(w)
  PROVE  /\ RegisterShape' /\ (\A v \in Warps(launch) : "buf" \in DOMAIN warp'[v])
         /\ CoopKept(w) /\ pc'[w] = AtBlock(warp[w].blk + 1)
         /\ warp'[w].executed = warp[w].executed /\ warp'[w].pipe = warp[w].pipe
         /\ warp'[w].frag = Copied(w, warp[w].blk + 1)
         /\ warp'[w].acc = Append(warp[w].acc, MultiplyFirst(w)[warp[w].blk])
         /\ warp'[w].blk = warp[w].blk + 1
         /\ warp'[w].epi = warp[w].epi /\ warp'[w].buf = warp[w].buf
BY DEF MultiplyAndCopy, MultiplyFirst, CoopShape, RegisterShape, CoopKept,
       UnchangedInLoop, UnchangedButWarp, Fields, PipeFields, Go

LEMMA CoopReleaseRegisters ==
  ASSUME CoopShape, NEW w \in Warps(launch), CoopReleaseStage(w)
  PROVE  /\ RegisterShape' /\ (\A v \in Warps(launch) : "buf" \in DOMAIN warp'[v])
         /\ CoopKept(w)
         /\ pc'[w] = (IF warp[w].pipe.count + 1 = launch.kTiles THEN "last" ELSE "next")
         /\ warp'[w].executed = warp[w].executed /\ warp'[w].pipe = Advanced(warp[w].pipe)
         /\ warp'[w].frag = warp[w].frag /\ warp'[w].acc = warp[w].acc
         /\ warp'[w].blk = warp[w].blk
         /\ warp'[w].epi = warp[w].epi /\ warp'[w].buf = warp[w].buf
<1>1. DOMAIN Advanced(warp[w].pipe) = PipeFields
  BY DEF Advanced, PipeFields
<1>. QED
  BY <1>1 DEF CoopReleaseStage, CoopShape, RegisterShape, CoopKept, UnchangedInLoop,
              UnchangedButWarp, Fields, Go

LEMMA CoopNextStageRegisters ==
  ASSUME CoopShape, NEW w \in Warps(launch), CoopNextStage(w)
  PROVE  /\ RegisterShape' /\ (\A v \in Warps(launch) : "buf" \in DOMAIN warp'[v])
         /\ CoopKept(w) /\ pc'[w] = AtBlock(0)
         /\ warp'[w].executed = warp[w].executed /\ warp'[w].pipe = warp[w].pipe
         /\ warp'[w].frag = Copied(w, 0)
         /\ warp'[w].acc = Append(warp[w].acc, warp[w].frag[LastBlock])
         /\ warp'[w].blk = 0 /\ warp'[w].epi = warp[w].epi /\ warp'[w].buf = warp[w].buf
BY DEF CoopNextStage, CoopShape, RegisterShape, CoopKept, UnchangedInLoop,
       UnchangedButWarp, Fields, PipeFields, Go

LEMMA CoopLeaveMainLoopRegisters ==
  ASSUME CoopShape, NEW w \in Warps(launch), CoopLeaveMainLoop(w)
  PROVE  /\ RegisterShape' /\ (\A v \in Warps(launch) : "buf" \in DOMAIN warp'[v])
         /\ CoopKept(w) /\ pc'[w] = "epilogue"
         /\ warp'[w].executed = warp[w].executed /\ warp'[w].pipe = warp[w].pipe
         /\ warp'[w].frag = warp[w].frag
         /\ warp'[w].acc = Append(warp[w].acc, warp[w].frag[LastBlock])
         /\ warp'[w].blk = warp[w].blk /\ warp'[w].epi = 0 /\ warp'[w].buf = warp[w].buf
BY DEF CoopLeaveMainLoop, CoopShape, RegisterShape, CoopKept, UnchangedInLoop,
       UnchangedButWarp, Fields, PipeFields, Go

\* What a step does to a warp in the epilogue: it stays there and at most takes
\* the next buffer, or it is through with the slice.
SameSlice(v) ==
    /\ warp'[v].executed = warp[v].executed /\ warp'[v].pipe = warp[v].pipe
    /\ warp'[v].frag = warp[v].frag /\ warp'[v].acc = warp[v].acc
    /\ warp'[v].blk = warp[v].blk /\ warp'[v].epi = warp[v].epi
    /\ warp'[v].buf \in {warp[v].buf, (warp[v].buf + 1) % launch.epiStages}
    /\ pc'[v] = pc[v] \/ (pc[v] \in CoopEpilogue /\ pc'[v] \in CoopEpilogue)

SliceOver(v) ==
    /\ warp'[v].pipe = warp[v].pipe /\ warp'[v].frag = warp[v].frag
    /\ warp'[v].acc = warp[v].acc /\ warp'[v].blk = warp[v].blk
    /\ warp'[v].buf = warp[v].buf
    /\ pc[v] \in CoopEpilogue /\ pc'[v] = CoopSliceDone(v)
    /\ CoopLastSlice(v) => /\ warp'[v].executed = warp[v].executed + 1
                           /\ warp'[v].epi = warp[v].epi
    /\ ~CoopLastSlice(v) => /\ warp'[v].executed = warp[v].executed
                            /\ warp'[v].epi = warp[v].epi + 1

LEMMA NextSliceRegisters ==
  ASSUME CoopShape, NEW w \in Warps(launch), warp'[w] = CoopNextSlice(w),
         pc[w] \in CoopEpilogue, pc'[w] = CoopSliceDone(w)
  PROVE  /\ SliceOver(w) /\ DOMAIN warp'[w] = DOMAIN warp[w]
         /\ DOMAIN warp'[w].pipe = DOMAIN warp[w].pipe
<1>1. Fields \subseteq DOMAIN warp[w]
  BY DEF CoopShape, RegisterShape
<1>. QED
  BY <1>1 DEF CoopNextSlice, SliceOver, Fields

LEMMA AcquireSliceRegisters ==
  ASSUME CoopShape, NEW w \in Warps(launch), CoopAcquireBuffer(w)
  PROVE  /\ RegisterShape' /\ (\A v \in Warps(launch) : "buf" \in DOMAIN warp'[v])
         /\ CoopKept(w) /\ SliceOver(w)
<1>1. /\ launch' = launch /\ warp' = [warp EXCEPT ![w] = CoopNextSlice(w)]
      /\ pc' = [pc EXCEPT ![w] = CoopSliceDone(w)] /\ pc[w] = "acquire"
  BY DEF CoopAcquireBuffer, UnchangedInLoop, UnchangedButWarp, Go
<1>2. DOMAIN warp = Warps(launch) /\ pc \in [Warps(launch) -> CoopPlaces]
  BY DEF CoopShape, RegisterShape
<1>3. warp'[w] = CoopNextSlice(w) /\ pc'[w] = CoopSliceDone(w) /\ CoopKept(w)
  BY <1>1, <1>2 DEF CoopKept
<1>4. /\ SliceOver(w) /\ DOMAIN warp'[w] = DOMAIN warp[w]
      /\ DOMAIN warp'[w].pipe = DOMAIN warp[w].pipe
  BY <1>1, <1>3, NextSliceRegisters DEF CoopEpilogue
<1>. QED
  BY <1>1, <1>2, <1>3, <1>4 DEF CoopShape, RegisterShape, CoopKept

\* The named barrier opens for all warps of the CTA or for none.
LEMMA CoopSyncStep ==
  ASSUME CoopShape, NEW w \in Warps(launch), CoopSyncBeforeWrite(w) \/ CoopWriteSlice(w)
  PROVE  /\ launch' = launch /\ RegisterShape'
         /\ pc' \in [Warps(launch) -> CoopPlaces]
         /\ \A v \in Warps(launch) : "buf" \in DOMAIN warp'[v]
         /\ bar' \subseteq {v \in Warps(launch) : pc'[v] \in {"sync1", "sync2"}}
         /\ \A v \in Warps(launch) : SameSlice(v) \/ SliceOver(v)
<1>1. PICK at, regs :
        /\ at \in {"sync1", "sync2"}
        /\ pc[w] \in {"epilogue", "write"} /\ launch' = launch
        /\ CoopSync(w, at, regs)
        /\ regs = IF at = "sync1" THEN [warp EXCEPT ![w].buf = (@ + 1) % launch.epiStages]
                  ELSE warp
  <2>1. CASE CoopSyncBeforeWrite(w)
    BY <2>1 DEF CoopSyncBeforeWrite, UnchangedButWarp
  <2>2. CASE CoopWriteSlice(w)
    BY <2>2 DEF CoopWriteSlice, UnchangedButWarp
  <2>. QED
    BY <2>1, <2>2
<1>2. /\ launch \in Launches("cooperative") /\ pc \in [Warps(launch) -> CoopPlaces]
      /\ bar \subseteq CoopIn({"sync1", "sync2"}) /\ DOMAIN warp = Warps(launch)
      /\ \A v \in Warps(launch) : /\ Fields \cup {"buf"} \subseteq DOMAIN warp[v]
                                  /\ DOMAIN warp[v].pipe = PipeFields
  BY DEF CoopShape, RegisterShape
<1>3. /\ DOMAIN regs = Warps(launch)
      /\ \A v \in Warps(launch) :
           /\ DOMAIN regs[v] = DOMAIN warp[v] /\ regs[v].pipe = warp[v].pipe
           /\ regs[v].executed = warp[v].executed /\ regs[v].frag = warp[v].frag
           /\ regs[v].acc = warp[v].acc /\ regs[v].blk = warp[v].blk
           /\ regs[v].epi = warp[v].epi
           /\ regs[v].buf \in {warp[v].buf, (warp[v].buf + 1) % launch.epiStages}
  BY <1>1, <1>2 DEF Fields
<1>. DEFINE here == bar \cup {w}
            place(v) == IF v = w THEN at ELSE pc[v]
            onward(v) == place(v) = "sync2" /\ v # <<0, 0>>
<1>4. CASE Cardinality(here) = AllWarps
  <2>1. here = Warps(launch)
    <3>1. here \subseteq Warps(launch)
      BY <1>2 DEF CoopIn
    <3>. HIDE DEF here
    <3>. QED
      BY <1>2, <1>4, <3>1, WarpsOfCta, FS_Subset
  <2>2. /\ bar' = {}
        /\ pc' = [v \in Warps(launch) |->
                    CASE place(v) = "sync1" -> "write"
                      [] onward(v) -> CoopSliceDone(v)
                      [] OTHER -> "store"]
        /\ warp' = [v \in Warps(launch) |->
                      IF onward(v) THEN CoopNextSlice(v) ELSE regs[v]]
    BY <1>1, <1>4 DEF CoopSync
  <2>3. ASSUME NEW v \in Warps(launch)
        PROVE  /\ pc[v] \in CoopEpilogue
               /\ IF onward(v) THEN pc'[v] = CoopSliceDone(v)
                  ELSE pc'[v] \in {"write", "store"}
               /\ warp'[v] = IF onward(v) THEN CoopNextSlice(v) ELSE regs[v]
    <3>1. pc[v] \in CoopEpilogue
      BY <1>1, <1>2, <2>1 DEF CoopIn, CoopEpilogue
    <3>2. warp'[v] = IF onward(v) THEN CoopNextSlice(v) ELSE regs[v]
      BY <2>2
    <3>3. pc'[v] = CASE place(v) = "sync1" -> "write"
                     [] onward(v) -> CoopSliceDone(v)
                     [] OTHER -> "store"
      BY <2>2
    <3>. QED
      BY <3>1, <3>2, <3>3
  <2>. HIDE DEF here, onward
  <2>4. ASSUME NEW v \in Warps(launch)
        PROVE  /\ SameSlice(v) \/ SliceOver(v)
               /\ DOMAIN warp'[v] = DOMAIN warp[v]
               /\ DOMAIN warp'[v].pipe = DOMAIN warp[v].pipe
               /\ pc'[v] \in CoopPlaces
    <3>1. CASE onward(v)
      <4>1. warp'[v] = CoopNextSlice(v) /\ pc[v] \in CoopEpilogue /\ pc'[v] = CoopSliceDone(v)
        BY <2>3, <3>1
      <4>2. CoopSliceDone(v) \in CoopPlaces
        BY DEF CoopSliceDone, CoopPlaces, CoopEpilogue
      <4>. QED
        BY <4>1, <4>2, NextSliceRegisters
    <3>2. CASE ~onward(v)
      <4>1. warp'[v] = regs[v] /\ pc[v] \in CoopEpilogue /\ pc'[v] \in {"write", "store"}
        BY <2>3, <3>2
      <4>2. {"write", "store"} \subseteq CoopEpilogue /\ CoopEpilogue \subseteq CoopPlaces
        BY DEF CoopEpilogue, CoopPlaces
      <4>. QED
        BY <1>3, <4>1, <4>2 DEF SameSlice
    <3>. QED
      BY <3>1, <3>2
  <2>5. DOMAIN warp' = Warps(launch) /\ pc' \in [Warps(launch) -> CoopPlaces]
    BY <2>2, <2>4
  <2>. QED
    BY <1>1, <1>2, <2>2, <2>4, <2>5 DEF RegisterShape
<1>5. CASE Cardinality(here) # AllWarps
  <2>1. bar' = here /\ pc' = [pc EXCEPT ![w] = at] /\ warp' = regs
    BY <1>1, <1>5 DEF CoopSync, Go
  <2>2. pc[w] \in CoopEpilogue /\ at \in CoopEpilogue /\ CoopEpilogue \subseteq CoopPlaces
    BY <1>1 DEF CoopEpilogue, CoopPlaces
  <2>3. \A v \in Warps(launch) : pc'[v] = IF v = w THEN at ELSE pc[v]
    BY <1>2, <2>1
  <2>4. \A v \in Warps(launch) : SameSlice(v)
    BY <1>3, <2>1, <2>2, <2>3 DEF SameSlice
  <2>5. pc' \in [Warps(launch) -> CoopPlaces]
    BY <1>2, <2>1, <2>2
  <2>6. bar' \subseteq {v \in Warps(launch) : pc'[v] \in {"sync1", "sync2"}}
    BY <1>1, <1>2, <2>1, <2>3 DEF CoopIn
  <2>7. RegisterShape' /\ \A v \in Warps(launch) : "buf" \in DOMAIN warp'[v]
    BY <1>1, <1>2, <1>3, <2>1 DEF RegisterShape
  <2>. QED
    BY <1>1, <2>4, <2>5, <2>6, <2>7
<1>. QED
  BY <1>4, <1>5

(***************************************************************************)
(* The places of the warps.                                                *)
(***************************************************************************)
LEMMA CoopPositionNat ==
  ASSUME CoopShape, NEW w \in Warps(launch), CoopInPlace(w)
  PROVE  CoopBase(w) \in Nat /\ CoopPosition(w) \in Nat
<1>1. launch.kTiles \in Nat /\ warp[w].executed \in Nat
  BY CoopNumbers DEF CoopShape, CoopInPlace
<1>2. pc[w] \in CoopLoop => warp[w].pipe.count \in Nat
  BY <1>1 DEF CoopInPlace, CoopLoop
<1>3. CoopBase(w) \in Nat
  BY <1>1 DEF CoopBase
<1>4. launch.kTiles * CoopBase(w) \in Nat
  BY <1>1, <1>3
<1>. QED
  BY <1>2, <1>3, <1>4 DEF CoopPosition

LEMMA CoopUnmoved ==
  ASSUME launch' = launch, NEW v \in Warps(launch), CoopInPlace(v),
         pc'[v] = pc[v], warp'[v] = warp[v]
  PROVE  CoopInPlace(v)' /\ CoopPosition(v)' = CoopPosition(v)
<1>1. CoopPosition(v)' = CoopPosition(v)
  BY DEF CoopPosition, CoopBase
<1>2. LastBlock' = LastBlock /\ \A x : Valid(x)' = Valid(x)
  BY DEF LastBlock, Valid, Linear
<1>. QED
  BY <1>1, <1>2 DEF CoopInPlace, StandsAt, Place, Round

\* In the epilogue a warp stands behind the k tiles of its tile; when it goes on
\* to the next tile it stands in front of that tile's.
LEMMA CoopSliceMoves ==
  ASSUME CoopShape, launch' = launch, NEW v \in Warps(launch), CoopInPlace(v),
         SameSlice(v) \/ SliceOver(v)
  PROVE  CoopInPlace(v)' /\ CoopPosition(v)' = CoopPosition(v)
<1>1. /\ launch.kTiles \in Nat /\ launch.epiTiles \in Nat /\ launch.epiTiles > 0
      /\ launch.epiStages \in Nat /\ launch.epiStages > 0
      /\ warp[v].executed \in Nat /\ LastBlock \in Nat
  BY CoopNumbers DEF CoopShape, CoopInPlace
<1>2. /\ LastBlock' = LastBlock
      /\ \A y : Place(y)' = Place(y) /\ Round(y)' = Round(y) /\ Valid(y)' = Valid(y)
  BY DEF LastBlock, Place, Round, Valid, Linear
<1>3. CASE SameSlice(v)
  <2>1. CoopPosition(v)' = CoopPosition(v)
    BY <1>3 DEF SameSlice, CoopPosition, CoopBase, CoopLoop, CoopEpilogue
  <2>2. warp'[v].buf \in 0 .. launch.epiStages - 1
    <3>1. \A x \in Nat : (x + 1) % launch.epiStages \in 0 .. launch.epiStages - 1
      BY <1>1, Division
    <3>. QED
      BY <1>3, <3>1 DEF SameSlice, CoopInPlace
  <2>. QED
    BY <1>2, <1>3, <2>1, <2>2 DEF SameSlice, CoopInPlace, CoopEpilogue, StandsAt
<1>4. CASE SliceOver(v)
  <2>1. CoopPosition(v) = launch.kTiles * (warp[v].executed + 1) + 0
    BY <1>4 DEF SliceOver, CoopPosition, CoopBase, CoopEpilogue, CoopLoop
  <2>2. CASE CoopLastSlice(v)
    <3>1. /\ pc'[v] = "start" /\ warp'[v].executed = warp[v].executed + 1
          /\ warp'[v].epi = warp[v].epi
      BY <1>4, <2>2 DEF SliceOver, CoopSliceDone
    <3>2. CoopPosition(v)' = launch.kTiles * (warp[v].executed + 1 + 0) + 0
      BY <3>1 DEF CoopPosition, CoopBase, CoopEpilogue, CoopLoop
    <3>3. CoopPosition(v)' = CoopPosition(v)
      BY <1>1, <2>1, <3>2
    <3>. QED
      BY <1>1, <1>2, <1>4, <3>1, <3>3 DEF SliceOver, CoopInPlace, StandsAt
  <2>3. CASE ~CoopLastSlice(v)
    <3>1. /\ pc'[v] = "epilogue" /\ warp'[v].executed = warp[v].executed
          /\ warp'[v].epi = warp[v].epi + 1 /\ warp[v].epi + 1 # launch.epiTiles
      BY <1>4, <2>3 DEF SliceOver, CoopSliceDone, CoopLastSlice
    <3>2. CoopPosition(v)' = launch.kTiles * (warp[v].executed + 1) + 0
      BY <3>1 DEF CoopPosition, CoopBase, CoopEpilogue, CoopLoop
    <3>3. CoopPosition(v)' = CoopPosition(v)
      BY <2>1, <3>2
    <3>4. warp'[v].epi \in 0 .. launch.epiTiles - 1
      BY <1>1, <3>1 DEF CoopInPlace
    <3>5. Valid(warp[v].executed)
      BY <1>4 DEF SliceOver, CoopInPlace, CoopEpilogue
    <3>. QED
      BY <1>1, <1>2, <1>4, <3>1, <3>3, <3>4, <3>5 DEF SliceOver, CoopInPlace, StandsAt
  <2>. QED
    BY <2>2, <2>3
<1>. QED
  BY <1>3, <1>4

\* One warp moves and keeps its place.
LEMMA CoopOneMoves ==
  ASSUME CoopAllInPlace, launch' = launch, NEW w \in Warps(launch), CoopKept(w),
         CoopInPlace(w)', CoopPosition(w)' = CoopPosition(w)
  PROVE  CoopAllInPlace' /\ \A v \in Warps(launch) : CoopPosition(v)' = CoopPosition(v)
<1>1. ASSUME NEW v \in Warps(launch)
      PROVE  CoopInPlace(v)' /\ CoopPosition(v)' = CoopPosition(v)
  BY CoopUnmoved DEF CoopKept, CoopAllInPlace
<1>. QED
  BY <1>1 DEF CoopAllInPlace

\* A step of a warp that gives no stage back moves no warp to another k tile.
LEMMA CoopStillStep ==
  ASSUME CoopShape, CoopAllInPlace, NEW w \in Warps(launch),
         CoopWarp(w), ~CoopReleaseStage(w)
  PROVE  /\ launch' = launch /\ CoopAllInPlace'
         /\ \A v \in Warps(launch) : CoopPosition(v)' = CoopPosition(v)
<1>1. /\ launch' = launch /\ pc \in [Warps(launch) -> CoopPlaces] /\ CoopInPlace(w)
      /\ DOMAIN warp = Warps(launch)
  BY DEF CoopWarp, CoopExitLoop, CoopFirstBlock, MultiplyAndCopy, CoopNextStage,
         CoopLeaveMainLoop, CoopSyncBeforeWrite, CoopWriteSlice, CoopStoreSlice,
         CoopAcquireBuffer, UnchangedInLoop, UnchangedButWarp, CoopShape, RegisterShape,
         CoopAllInPlace
<1>2. /\ launch.kTiles \in Nat /\ launch.kTiles > 0 /\ LastBlock \in Nat
      /\ launch.epiTiles \in Nat /\ launch.epiTiles > 0 /\ warp[w].executed \in Nat
  BY <1>1, CoopNumbers DEF CoopShape, CoopInPlace
<1>3. /\ LastBlock' = LastBlock
      /\ \A y : Place(y)' = Place(y) /\ Round(y)' = Round(y) /\ Valid(y)' = Valid(y)
  BY <1>1 DEF LastBlock, Place, Round, Valid, Linear
<1>4. ASSUME CoopKept(w), CoopInPlace(w)', CoopPosition(w)' = CoopPosition(w)
      PROVE  CoopAllInPlace' /\ \A v \in Warps(launch) : CoopPosition(v)' = CoopPosition(v)
  BY <1>1, <1>4, CoopOneMoves
<1>5. CASE CoopFirstBlock(w)
  <2>1. pc[w] = "start" /\ Valid(warp[w].executed)
    BY <1>5 DEF CoopFirstBlock
  <2>2. /\ CoopKept(w) /\ pc'[w] = AtBlock(0)
        /\ warp'[w].executed = warp[w].executed
        /\ warp'[w].pipe.index = warp[w].pipe.index
        /\ warp'[w].pipe.phase = warp[w].pipe.phase /\ warp'[w].pipe.count = 0
        /\ warp'[w].blk = 0 /\ warp'[w].epi = warp[w].epi /\ warp'[w].buf = warp[w].buf
    BY <1>5, CoopFirstBlockRegisters
  <2>3. pc'[w] \in {"block", "release"} /\ (pc'[w] = "block" => 0 < LastBlock)
    BY <1>2, <2>2 DEF AtBlock
  <2>4. CoopPosition(w) = launch.kTiles * (warp[w].executed + 0) + 0
    BY <2>1 DEF CoopPosition, CoopBase, CoopLoop, CoopEpilogue
  <2>5. CoopPosition(w)' = launch.kTiles * (warp[w].executed + 0) + 0
    BY <1>1, <2>2, <2>3 DEF CoopPosition, CoopBase, CoopLoop, CoopEpilogue
  <2>6. CoopInPlace(w)'
    BY <1>1, <1>2, <1>3, <2>1, <2>2, <2>3, <2>4, <2>5 DEF CoopInPlace, StandsAt
  <2>. QED
    BY <1>1, <1>4, <2>2, <2>4, <2>5, <2>6
<1>6. CASE MultiplyAndCopy(w)
  <2>1. pc[w] = "block"
    BY <1>6 DEF MultiplyAndCopy
  <2>2. /\ CoopKept(w) /\ pc'[w] = AtBlock(warp[w].blk + 1)
        /\ warp'[w].executed = warp[w].executed /\ warp'[w].pipe = warp[w].pipe
        /\ warp'[w].blk = warp[w].blk + 1
        /\ warp'[w].epi = warp[w].epi /\ warp'[w].buf = warp[w].buf
    BY <1>6, MultiplyAndCopyRegisters
  <2>3. warp[w].blk \in 0 .. LastBlock /\ warp[w].blk < LastBlock
    BY <1>1, <2>1 DEF CoopInPlace
  <2>4. /\ pc'[w] \in {"block", "release"}
        /\ pc'[w] = "block" => warp[w].blk + 1 < LastBlock
    BY <1>2, <2>2, <2>3 DEF AtBlock
  <2>5. CoopPosition(w)' = CoopPosition(w)
    BY <1>1, <2>1, <2>2, <2>4 DEF CoopPosition, CoopBase, CoopLoop, CoopEpilogue
  <2>6. CoopInPlace(w)'
    BY <1>1, <1>2, <1>3, <2>1, <2>2, <2>3, <2>4, <2>5 DEF CoopInPlace, StandsAt
  <2>. QED
    BY <1>1, <1>4, <2>2, <2>5, <2>6
<1>7. CASE CoopNextStage(w)
  <2>1. pc[w] = "next"
    BY <1>7 DEF CoopNextStage
  <2>2. /\ CoopKept(w) /\ pc'[w] = AtBlock(0)
        /\ warp'[w].executed = warp[w].executed /\ warp'[w].pipe = warp[w].pipe
        /\ warp'[w].blk = 0 /\ warp'[w].epi = warp[w].epi /\ warp'[w].buf = warp[w].buf
    BY <1>7, CoopNextStageRegisters
  <2>3. pc'[w] \in {"block", "release"} /\ (pc'[w] = "block" => 0 < LastBlock)
    BY <1>2, <2>2 DEF AtBlock
  <2>4. CoopPosition(w)' = CoopPosition(w)
    BY <1>1, <2>1, <2>2, <2>3 DEF CoopPosition, CoopBase, CoopLoop, CoopEpilogue
  <2>5. CoopInPlace(w)'
    BY <1>1, <1>2, <1>3, <2>1, <2>2, <2>3, <2>4 DEF CoopInPlace, StandsAt
  <2>. QED
    BY <1>1, <1>4, <2>2, <2>4, <2>5
<1>8. CASE CoopLeaveMainLoop(w)
  <2>1. pc[w] = "last"
    BY <1>8 DEF CoopLeaveMainLoop
  <2>2. /\ CoopKept(w) /\ pc'[w] = "epilogue"
        /\ warp'[w].executed = warp[w].executed /\ warp'[w].pipe = warp[w].pipe
        /\ warp'[w].blk = warp[w].blk /\ warp'[w].epi = 0 /\ warp'[w].buf = warp[w].buf
    BY <1>8, CoopLeaveMainLoopRegisters
  <2>3. warp[w].pipe.count = launch.kTiles
    BY <1>1, <2>1 DEF CoopInPlace
  <2>4. CoopPosition(w) = launch.kTiles * (warp[w].executed + 0) + launch.kTiles
    BY <2>1, <2>3 DEF CoopPosition, CoopBase, CoopLoop, CoopEpilogue
  <2>5. CoopPosition(w)' = launch.kTiles * (warp[w].executed + 1) + 0
    BY <1>1, <2>2 DEF CoopPosition, CoopBase, CoopLoop, CoopEpilogue
  <2>6. CoopPosition(w)' = CoopPosition(w)
    BY <1>2, <2>4, <2>5
  <2>7. 0 \in 0 .. launch.epiTiles - 1
    BY <1>2
  <2>8. CoopInPlace(w)'
    BY <1>1, <1>2, <1>3, <2>1, <2>2, <2>6, <2>7 DEF CoopInPlace, StandsAt
  <2>. QED
    BY <1>1, <1>4, <2>2, <2>6, <2>8
<1>9. CASE CoopSyncBeforeWrite(w) \/ CoopWriteSlice(w)
  <2>1. \A v \in Warps(launch) : CoopInPlace(v)' /\ CoopPosition(v)' = CoopPosition(v)
    BY <1>1, <1>9, CoopSyncStep, CoopSliceMoves DEF CoopAllInPlace
  <2>. QED
    BY <1>1, <2>1 DEF CoopAllInPlace
<1>10. CASE CoopAcquireBuffer(w)
  <2>1. CoopKept(w) /\ SliceOver(w)
    BY <1>10, AcquireSliceRegisters
  <2>2. CoopInPlace(w)' /\ CoopPosition(w)' = CoopPosition(w)
    BY <1>1, <2>1, CoopSliceMoves
  <2>. QED
    BY <1>1, <1>4, <2>1, <2>2
<1>11. CASE CoopExitLoop(w) \/ CoopStoreSlice(w)
  <2>1. PICK to : /\ warp' = warp /\ pc' = [pc EXCEPT ![w] = to]
                  /\ \/ pc[w] = "start" /\ to = "done"
                     \/ pc[w] = "store" /\ to = "acquire"
    BY <1>11 DEF CoopExitLoop, CoopStoreSlice, Go
  <2>2. CoopKept(w) /\ pc'[w] = to
    BY <1>1, <2>1 DEF CoopKept
  <2>3. CoopPosition(w)' = CoopPosition(w)
    BY <1>1, <2>1, <2>2 DEF CoopPosition, CoopBase, CoopLoop, CoopEpilogue
  <2>4. CoopInPlace(w)'
    BY <1>1, <1>2, <1>3, <2>1, <2>2, <2>3 DEF CoopInPlace, StandsAt
  <2>. QED
    BY <1>1, <1>4, <2>2, <2>3, <2>4
<1>. QED
  BY <1>1, <1>5, <1>6, <1>7, <1>8, <1>9, <1>10, <1>11 DEF CoopWarp

(***************************************************************************)
(* The ring, with all warps as the consumers of every k tile.              *)
(***************************************************************************)
CoopOwners == [x \in Nat |-> Warps(launch)]

\* What k tile k of output tile t consists of: no tile map.
CoopContent(t, k) == [op \in Operands |-> Source(op, t, k, TileN(t))]

CoopContents ==
    [x \in Nat |-> CoopContent(Linear(x \div launch.kTiles), x % launch.kTiles)]

CoopPositions == [w \in Warps(launch) |-> CoopPosition(w)]

CoopHolders == CoopIn({"block", "release"})

CoopGhosts(own, src, n, p, in) ==
    own = CoopOwners /\ src = CoopContents /\ n = AllWarps /\ p = CoopPositions
    /\ in = CoopHolders

CoopRing ==
    \E own, src, n, p, in, load, issued, filled, freed :
       /\ CoopGhosts(own, src, n, p, in)
       /\ Ring(own, src, n, p, in, load, issued, filled, freed)

\* The shape of control and registers is kept.
LEMMA CoopShapeNext ==
  ASSUME CoopShape, NEW w \in Warps(launch), CoopWarp(w)
  PROVE  CoopShape'
<1>1. /\ launch \in Launches("cooperative") /\ pc \in [Warps(launch) -> CoopPlaces]
      /\ bar \subseteq CoopIn({"sync1", "sync2"}) /\ RegisterShape
      /\ \A v \in Warps(launch) : "buf" \in DOMAIN warp[v]
  BY DEF CoopShape
<1>2. CASE CoopSyncBeforeWrite(w) \/ CoopWriteSlice(w)
  BY <1>1, <1>2, CoopSyncStep DEF CoopShape, CoopIn
<1>3. ASSUME \/ CoopExitLoop(w) \/ CoopFirstBlock(w) \/ MultiplyAndCopy(w)
             \/ CoopReleaseStage(w) \/ CoopNextStage(w) \/ CoopLeaveMainLoop(w)
             \/ CoopStoreSlice(w) \/ CoopAcquireBuffer(w)
      PROVE  CoopShape'
  <2>1. PICK to \in CoopPlaces :
          /\ launch' = launch /\ bar' = bar /\ pc' = [pc EXCEPT ![w] = to]
          /\ pc[w] \notin {"sync1", "sync2"}
    <3>1. CASE CoopExitLoop(w) \/ CoopFirstBlock(w)
      BY <3>1 DEF CoopExitLoop, CoopFirstBlock, Go, UnchangedInLoop, UnchangedButWarp,
                  AtBlock, CoopPlaces, CoopLoop
    <3>2. CASE MultiplyAndCopy(w) \/ CoopReleaseStage(w) \/ CoopNextStage(w)
      BY <3>2 DEF MultiplyAndCopy, CoopReleaseStage, CoopNextStage, Go, UnchangedInLoop,
                  UnchangedButWarp, AtBlock, CoopPlaces, CoopLoop
    <3>3. CASE CoopLeaveMainLoop(w) \/ CoopStoreSlice(w) \/ CoopAcquireBuffer(w)
      BY <3>3 DEF CoopLeaveMainLoop, CoopStoreSlice, CoopAcquireBuffer, Go, UnchangedInLoop,
                  UnchangedButWarp, CoopSliceDone, CoopPlaces, CoopEpilogue
    <3>. QED
      BY <1>3, <3>1, <3>2, <3>3
  <2>2. RegisterShape' /\ \A v \in Warps(launch) : "buf" \in DOMAIN warp'[v]
    <3>1. CASE CoopExitLoop(w) \/ CoopStoreSlice(w)
      BY <1>1, <2>1, <3>1 DEF CoopExitLoop, CoopStoreSlice, RegisterShape
    <3>. QED
      BY <1>3, <3>1, CoopFirstBlockRegisters, MultiplyAndCopyRegisters,
         CoopReleaseRegisters, CoopNextStageRegisters, CoopLeaveMainLoopRegisters,
         AcquireSliceRegisters
  <2>3. pc' \in [Warps(launch) -> CoopPlaces]
    BY <1>1, <2>1
  <2>4. bar' \subseteq {v \in Warps(launch) : pc'[v] \in {"sync1", "sync2"}}
    BY <1>1, <2>1 DEF CoopIn
  <2>. QED
    BY <1>1, <2>1, <2>2, <2>3, <2>4 DEF CoopShape, CoopIn
<1>. QED
  BY <1>2, <1>3 DEF CoopWarp

\* The k tile of a warp in the main loop, in numbers.
LEMMA CoopOwnTile ==
  ASSUME CoopShape, NEW w \in Warps(launch), CoopInPlace(w),
         pc[w] \in {"block", "release", "next"}
  PROVE  /\ CoopPosition(w) = launch.kTiles * warp[w].executed + warp[w].pipe.count
         /\ launch.kTiles * warp[w].executed \in Nat
         /\ warp[w].pipe.count \in 0 .. launch.kTiles - 1
         /\ CoopPosition(w) \div launch.kTiles = warp[w].executed
         /\ CoopPosition(w) % launch.kTiles = warp[w].pipe.count
<1>. DEFINE K == launch.kTiles  e == warp[w].executed  c == warp[w].pipe.count
<1>1. K \in Nat /\ K > 0 /\ e \in Nat /\ c \in 0 .. K - 1
  BY CoopNumbers DEF CoopShape, CoopInPlace
<1>2. CoopPosition(w) = K * (e + 0) + c
  BY DEF CoopPosition, CoopBase, CoopLoop, CoopEpilogue
<1>3. K * e \in Nat /\ CoopPosition(w) = K * e + c
  BY <1>1, <1>2
<1>. HIDE DEF K, e, c
<1>4. (K * e + c) \div K = e /\ (K * e + c) % K = c
  BY <1>1, Quotient
<1>. QED
  BY <1>1, <1>3, <1>4 DEF K, e, c

\* A wait that passes has seen the warp's own k tile: the warp itself has used
\* the round before.
LEMMA CoopWaitIsRight ==
  ASSUME NEW own, NEW src, NEW n, NEW p, NEW in, NEW load, NEW issued, NEW filled, NEW freed,
         CoopGhosts(own, src, n, p, in),
         Ring(own, src, n, p, in, load, issued, filled, freed),
         CoopShape, CoopAllInPlace, NEW w \in Warps(launch), StageFull(w)
  PROVE  w \in own[p[w]] /\ p[w] < filled[Place(p[w])]
<1>1. CoopInPlace(w) /\ p[w] = CoopPosition(w) /\ own = CoopOwners
  BY DEF CoopAllInPlace, CoopGhosts, CoopPositions
<1>2. p[w] \in Nat
  BY <1>1, CoopPositionNat
<1>3. Passes(full[Place(p[w])], Round(p[w]))
  BY <1>1 DEF CoopInPlace, StandsAt, StageFull
<1>4. launch.stages \in Nat /\ launch.stages > 0
  BY CoopNumbers DEF CoopShape
<1>5. \A x \in Nat : own[x] = Warps(launch)
  BY <1>1 DEF CoopOwners
<1>6. p[w] >= launch.stages =>
         \E v \in own[p[w] - launch.stages] : p[w] - launch.stages < p[v]
  <2>. SUFFICES ASSUME p[w] >= launch.stages
                PROVE  w \in own[p[w] - launch.stages] /\ p[w] - launch.stages < p[w]
    OBVIOUS
  <2>. QED
    BY <1>2, <1>4, <1>5
<1>7. w \in own[p[w]]
  BY <1>2, <1>5
<1>. QED
  BY <1>3, <1>6, <1>7, WaitSeesTile

\* What the ghosts are made of.
LEMMA CoopGhostsKept ==
  ASSUME launch' = launch
  PROVE  CoopOwners' = CoopOwners /\ CoopContents' = CoopContents /\ AllWarps' = AllWarps
         /\ CoopPositions' = [w \in Warps(launch) |-> CoopPosition(w)']
BY DEF CoopOwners, CoopContents, CoopContent, Source, Linear, TileM, TileN, AllWarps,
       CoopPositions

\* The steps of a warp that give nothing back.
LEMMA CoopRingStill ==
  ASSUME CoopShape, CoopAllInPlace, CoopRing, NEW w \in Warps(launch),
         CoopWarp(w), ~CoopReleaseStage(w)
  PROVE  CoopRing'
<1>1. PICK own, src, n, p, in, load, issued, filled, freed :
         /\ CoopGhosts(own, src, n, p, in)
         /\ Ring(own, src, n, p, in, load, issued, filled, freed)
  BY DEF CoopRing
<1>2. /\ launch' = launch /\ CoopAllInPlace'
      /\ \A v \in Warps(launch) : CoopPosition(v)' = CoopPosition(v)
  BY CoopStillStep
<1>3. UNCHANGED RingVars
  BY DEF RingVars, CoopWarp, CoopExitLoop, CoopFirstBlock, MultiplyAndCopy, CoopNextStage,
         CoopLeaveMainLoop, CoopSyncBeforeWrite, CoopWriteSlice, CoopStoreSlice,
         CoopAcquireBuffer, UnchangedInLoop, UnchangedButWarp
<1>4. PICK in2 : in2 = CoopHolders'
  OBVIOUS
<1>5. in2 \in SUBSET Warps(launch)
  BY <1>2, <1>4 DEF CoopHolders, CoopIn
<1>6. ASSUME NEW v \in in2 \ in
      PROVE  v = w /\ StageFull(w)
  <2>1. v \in Warps(launch) /\ pc'[v] \in {"block", "release"} /\ pc[v] \notin {"block", "release"}
    BY <1>1, <1>2, <1>4, <1>6 DEF CoopGhosts, CoopHolders, CoopIn
  <2>2. pc \in [Warps(launch) -> CoopPlaces]
    BY DEF CoopShape
  <2>3. CASE CoopSyncBeforeWrite(w) \/ CoopWriteSlice(w)
    BY <2>1, <2>3, CoopSyncStep DEF SameSlice, SliceOver, CoopSliceDone, CoopEpilogue
  <2>4. CASE CoopExitLoop(w) \/ CoopLeaveMainLoop(w) \/ CoopStoreSlice(w) \/ CoopAcquireBuffer(w)
             \/ MultiplyAndCopy(w)
    <3>1. PICK to : /\ pc' = [pc EXCEPT ![w] = to]
                    /\ to \in {"block", "release"} => pc[w] = "block"
      BY <2>4 DEF CoopExitLoop, CoopLeaveMainLoop, CoopStoreSlice, CoopAcquireBuffer,
                  MultiplyAndCopy, Go, CoopSliceDone
    <3>. QED
      BY <2>1, <2>2, <3>1
  <2>5. CASE CoopFirstBlock(w) \/ CoopNextStage(w)
    BY <2>1, <2>2, <2>5 DEF CoopFirstBlock, CoopNextStage, Go
  <2>. QED
    BY <2>3, <2>4, <2>5 DEF CoopWarp
<1>7. \A v \in in2 \ in : v \in own[p[v]] /\ p[v] < filled[Place(p[v])]
  BY <1>1, <1>6, CoopWaitIsRight
<1>8. Ring(own, src, n, p, in2, load, issued, filled, freed)'
  BY <1>1, <1>3, <1>5, <1>7, RingQuiet
<1>9. CoopPositions' = CoopPositions
  BY <1>2, CoopGhostsKept DEF CoopPositions
<1>10. CoopGhosts(own, src, n, p, in2)'
  BY <1>1, <1>2, <1>4, <1>9, CoopGhostsKept DEF CoopGhosts
<1>. QED
  BY <1>8, <1>10 DEF CoopRing

\* Giving a stage back.
LEMMA CoopRingRelease ==
  ASSUME CoopShape, CoopAllInPlace, CoopRing, NEW w \in Warps(launch), CoopReleaseStage(w)
  PROVE  CoopAllInPlace' /\ CoopRing'
<1>1. PICK own, src, n, p, in, load, issued, filled, freed :
         /\ CoopGhosts(own, src, n, p, in)
         /\ Ring(own, src, n, p, in, load, issued, filled, freed)
  BY DEF CoopRing
<1>. DEFINE K == launch.kTiles  e == warp[w].executed  c == warp[w].pipe.count
            x == CoopPosition(w)
<1>2. /\ UNCHANGED <<launch, loader, full, inflight, smem>>
      /\ empty' = [empty EXCEPT ![warp[w].pipe.index] = Arrived(@, w, AllWarps)]
      /\ pc[w] = "release" /\ pc \in [Warps(launch) -> CoopPlaces]
      /\ pc' = [pc EXCEPT ![w] = IF c + 1 = K THEN "last" ELSE "next"]
  BY DEF CoopReleaseStage, Go, UnchangedInLoop, UnchangedButWarp, CoopShape
<1>3. /\ CoopKept(w) /\ warp'[w].executed = warp[w].executed
      /\ pc'[w] = (IF c + 1 = K THEN "last" ELSE "next")
      /\ warp'[w].pipe = Advanced(warp[w].pipe)
      /\ warp'[w].blk = warp[w].blk /\ warp'[w].epi = warp[w].epi
      /\ warp'[w].buf = warp[w].buf
  BY CoopReleaseRegisters
<1>4. CoopInPlace(w) /\ e \in Nat /\ K \in Nat
  BY CoopNumbers DEF CoopAllInPlace, CoopInPlace, CoopShape
<1>5. x = K * e + c /\ K * e \in Nat /\ c \in 0 .. K - 1 /\ x \in Nat
  BY <1>2, <1>4, CoopOwnTile, CoopPositionNat
<1>6. StandsAt(warp[w].pipe, x)
  BY <1>4 DEF CoopInPlace
<1>7. StandsAt(warp'[w].pipe, x + 1) /\ warp'[w].pipe.count = c + 1
  BY <1>3, <1>5, <1>6, AdvancedState, CoopNumbers DEF CoopShape
<1>8. CoopPosition(w)' = x + 1
  <2>1. CoopPosition(w)' = K * (e + 0) + (c + 1)
    BY <1>2, <1>3, <1>7 DEF CoopPosition, CoopBase, CoopLoop, CoopEpilogue
  <2>. QED
    BY <1>4, <1>5, <2>1
<1>9. CoopInPlace(w)'
  <2>1. /\ LastBlock' = LastBlock
        /\ \A y : Place(y)' = Place(y) /\ Round(y)' = Round(y) /\ Valid(y)' = Valid(y)
    BY <1>2 DEF LastBlock, Place, Round, Valid, Linear
  <2>. HIDE DEF x
  <2>. QED
    BY <1>2, <1>3, <1>4, <1>5, <1>7, <1>8, <2>1 DEF CoopInPlace, StandsAt
<1>10. \A v \in Warps(launch) : v # w => CoopInPlace(v)' /\ CoopPosition(v)' = CoopPosition(v)
  BY <1>2, <1>3, CoopUnmoved DEF CoopKept, CoopAllInPlace
<1>11. CoopAllInPlace'
  BY <1>2, <1>9, <1>10 DEF CoopAllInPlace
<1>12. w \in in /\ p[w] = x /\ Place(p[w]) = warp[w].pipe.index /\ n = AllWarps
  BY <1>1, <1>2, <1>6 DEF CoopGhosts, CoopHolders, CoopIn, CoopPositions, StandsAt
<1>13. PICK p2 : p2 = [p EXCEPT ![w] = @ + 1]
  OBVIOUS
<1>14. \E freed2 : Ring(own, src, n, p2, in \ {w}, load, issued, filled, freed2)'
  BY <1>1, <1>2, <1>12, <1>13, RingRelease
<1>15. CoopGhosts(own, src, n, p2, in \ {w})'
  <2>1. p2 = CoopPositions'
    <3>1. p = [v \in Warps(launch) |-> CoopPosition(v)]
      BY <1>1 DEF CoopGhosts, CoopPositions
    <3>2. p2 = [v \in Warps(launch) |-> IF v = w THEN x + 1 ELSE CoopPosition(v)]
      BY <1>12, <1>13, <3>1
    <3>3. CoopPositions' = [v \in Warps(launch) |-> CoopPosition(v)']
      BY <1>2, CoopGhostsKept
    <3>4. \A v \in Warps(launch) :
             (IF v = w THEN x + 1 ELSE CoopPosition(v)) = CoopPosition(v)'
      BY <1>8, <1>10
    <3>. HIDE DEF x
    <3>. QED
      BY <3>2, <3>3, <3>4
  <2>2. in \ {w} = CoopHolders'
    <3>1. in = {v \in Warps(launch) : pc[v] \in {"block", "release"}}
      BY <1>1 DEF CoopGhosts, CoopHolders, CoopIn
    <3>2. CoopHolders' = {v \in Warps(launch) : pc'[v] \in {"block", "release"}}
      BY <1>2 DEF CoopHolders, CoopIn
    <3>3. pc'[w] \notin {"block", "release"} /\ \A v \in Warps(launch) : v # w => pc'[v] = pc[v]
      BY <1>3 DEF CoopKept
    <3>. QED
      BY <3>1, <3>2, <3>3
  <2>. QED
    BY <1>1, <1>2, <2>1, <2>2, CoopGhostsKept DEF CoopGhosts
<1>. QED
  BY <1>11, <1>14, <1>15 DEF CoopRing

\* The steps that are not a warp's.
CoopOthersMove ==
    \/ UNCHANGED vars
    \/ CoopLoadStage \/ CoopLoaderTail
    \/ \E x \in inflight : Land(x)
    \/ \E w \in Warps(launch) : \E i \in DOMAIN stores[w] : ReadStore(w, i)

LEMMA CoopOthersStep ==
  ASSUME CoopShape, CoopAllInPlace, CoopRing, CoopOthersMove
  PROVE  CoopShape' /\ CoopAllInPlace' /\ CoopRing'
<1>1. PICK own, src, n, p, in, load, issued, filled, freed :
         /\ CoopGhosts(own, src, n, p, in)
         /\ Ring(own, src, n, p, in, load, issued, filled, freed)
  BY DEF CoopRing
<1>2. UNCHANGED <<launch, pc, warp, bar>>
  BY DEF CoopOthersMove, vars, CoopLoadStage, LoadFrom, CoopLoaderTail, DrainLoader, Land,
         ReadStore
<1>3. \A v \in Warps(launch) : CoopInPlace(v)' /\ CoopPosition(v)' = CoopPosition(v)
  BY <1>2, CoopUnmoved DEF CoopAllInPlace
<1>4. CoopShape' /\ CoopAllInPlace'
  BY <1>2, <1>3 DEF CoopShape, CoopIn, RegisterShape, CoopAllInPlace
<1>5. CoopGhosts(own, src, n, p, in)'
  <2>1. CoopHolders' = CoopHolders /\ CoopPositions' = CoopPositions
    BY <1>2, <1>3 DEF CoopHolders, CoopIn, CoopPositions
  <2>. QED
    BY <1>1, <1>2, <2>1, CoopGhostsKept DEF CoopGhosts
<1>6. CASE UNCHANGED vars \/ \E w \in Warps(launch) : \E i \in DOMAIN stores[w] : ReadStore(w, i)
  <2>1. UNCHANGED RingVars
    BY <1>6 DEF vars, RingVars, ReadStore
  <2>2. in \in SUBSET Warps(launch)
    BY <1>1 DEF CoopGhosts, CoopHolders, CoopIn
  <2>3. Ring(own, src, n, p, in, load, issued, filled, freed)'
    BY <1>1, <2>1, <2>2, RingQuiet
  <2>. QED
    BY <1>4, <1>5, <2>3 DEF CoopRing
<1>7. CASE CoopLoadStage
  <2>. DEFINE K == launch.kTiles  e == loader.executed  c == loader.pipe.count
              t == Linear(e)
  <2>1. /\ load \in Nat /\ e \in Nat /\ c \in Nat /\ c < K /\ K \in Nat /\ K > 0
        /\ load = K * e + c
    BY <1>1, CoopNumbers DEF Ring, LoaderAt, CoopShape
  <2>2. load \div K = e /\ load % K = c
    <3>. HIDE DEF K, e, c
    <3>. QED
      BY <2>1, Quotient
  <2>3. PICK tn : tn = TileN(t)
    OBVIOUS
  <2>4. LoadFrom(tn)
    BY <1>7, <2>3 DEF CoopLoadStage
  <2>5. src[load] = CoopContent(t, c)
    BY <1>1, <2>1, <2>2 DEF CoopGhosts, CoopContents
  <2>6. \A op \in Operands : src[load][op] = Source(op, t, c, tn)
    BY <2>3, <2>5 DEF CoopContent
  <2>7. \E issued2 : Ring(own, src, n, p, in, load + 1, issued2, filled, freed)'
    BY <1>1, <2>4, <2>6, RingLoad
  <2>. QED
    BY <1>4, <1>5, <2>7 DEF CoopRing
<1>8. CASE CoopLoaderTail
  <2>1. Ring(own, src, n, p, in, load, issued, filled, freed)'
    BY <1>1, <1>8, RingDrain DEF CoopLoaderTail
  <2>. QED
    BY <1>4, <1>5, <2>1 DEF CoopRing
<1>9. CASE \E x \in inflight : Land(x)
  <2>1. PICK x \in inflight : Land(x)
    BY <1>9
  <2>2. /\ UNCHANGED <<launch, loader, empty>>
        /\ inflight' = inflight \ {x}
        /\ smem' = [smem EXCEPT ![x.stage][x.op] = x.src]
        /\ full' = [full EXCEPT ![x.stage] = Landed(@)]
    BY <2>1 DEF Land
  <2>3. \E filled2 : Ring(own, src, n, p, in, load, issued, filled2, freed)'
    BY <1>1, <2>2, RingLand
  <2>. QED
    BY <1>4, <1>5, <2>3 DEF CoopRing
<1>. QED
  BY <1>6, <1>7, <1>8, <1>9 DEF CoopOthersMove

LEMMA CoopRingInit == CoopInit => CoopShape /\ CoopAllInPlace /\ CoopRing
<1>. SUFFICES ASSUME CoopInit PROVE CoopShape /\ CoopAllInPlace /\ CoopRing
  OBVIOUS
<1>1. /\ launch \in Launches("cooperative") /\ pc = [w \in Warps(launch) |-> "start"]
      /\ warp = [w \in Warps(launch) |-> FreshCoopWarp] /\ bar = {}
  BY DEF CoopInit, FreshMachine, FreshCoopWarps
<1>2. /\ launch.stages \in Nat /\ launch.stages > 0
      /\ launch.kTiles \in Nat /\ launch.kTiles > 0 /\ LastBlock \in Nat
      /\ launch.epiTiles \in Nat /\ launch.epiTiles > 0
      /\ launch.epiStages \in Nat /\ launch.epiStages > 0
  BY <1>1, CoopNumbers
<1>3. CoopShape
  <2>1. /\ Fields \cup {"buf"} \subseteq DOMAIN FreshCoopWarp
        /\ DOMAIN FreshCoopWarp.pipe = PipeFields
    BY DEF FreshCoopWarp, Fields, PipeState, PipeFields
  <2>. QED
    BY <1>1, <2>1 DEF CoopShape, CoopPlaces, RegisterShape
<1>4. StandsAt(PipeState(0), 0)
  <2>1. 0 = launch.stages * 0 + 0 /\ 0 % 2 = 0
    BY <1>2
  <2>2. 0 \div launch.stages = 0 /\ 0 % launch.stages = 0
    BY <1>2, <2>1, Quotient
  <2>. QED
    BY <2>1, <2>2 DEF StandsAt, PipeState, Place, Round
<1>5. ASSUME NEW w \in Warps(launch)
      PROVE  CoopInPlace(w) /\ CoopPosition(w) = 0
  <2>1. /\ pc[w] = "start" /\ warp[w].executed = 0 /\ warp[w].pipe = PipeState(0)
        /\ warp[w].blk = 0 /\ warp[w].epi = 0 /\ warp[w].buf = 0
    BY <1>1 DEF FreshCoopWarp
  <2>2. CoopPosition(w) = launch.kTiles * (0 + 0) + 0
    BY <2>1 DEF CoopPosition, CoopBase, CoopLoop, CoopEpilogue
  <2>3. CoopPosition(w) = 0
    BY <1>2, <2>2
  <2>. QED
    BY <1>2, <1>4, <2>1, <2>3 DEF CoopInPlace
<1>6. PICK own, src, n, p, in : CoopGhosts(own, src, n, p, in)
  BY DEF CoopGhosts
<1>7. /\ in = {} /\ p = [w \in Warps(launch) |-> CoopPosition(w)] /\ n = AllWarps
      /\ own = [x \in Nat |-> Warps(launch)]
  BY <1>1, <1>6 DEF CoopGhosts, CoopHolders, CoopIn, CoopPositions, CoopOwners
<1>8. Shares(own, n)
  BY <1>1, <1>7, WarpsOfCta DEF Shares
<1>9. /\ p \in [Warps(launch) -> Nat]
      /\ \A w \in Warps(launch) : \A x \in Nat : w \in own[x] => ~ (x < p[w])
  BY <1>5, <1>7
<1>10. \E load, issued, filled, freed : Ring(own, src, n, p, {}, load, issued, filled, freed)
  BY <1>2, <1>8, <1>9, RingInit DEF CoopInit, FreshMachine
<1>. QED
  BY <1>3, <1>5, <1>6, <1>7, <1>10 DEF CoopRing, CoopAllInPlace

(***************************************************************************)
(* The stores: a warp that is not waiting for a buffer has one unread      *)
(* store less than there are buffers at most.                              *)
(***************************************************************************)
CoopDrained ==
    /\ DOMAIN stores = Warps(launch)
    /\ \A w \in Warps(launch) :
         /\ stores[w] \in Seq([buf : Nat, tile : Nat, epi : Nat, read : BOOLEAN])
         /\ pc[w] # "acquire" => AtMostUnread(w, launch.epiStages - 1)

LEMMA CoopStoreKept ==
  ASSUME CoopShape, CoopAllInPlace, CoopDrained, NEW w \in Warps(launch), CoopStoreSlice(w)
  PROVE  CoopDrained'
<1>. DEFINE r == [buf |-> warp[w].buf, tile |-> Linear(warp[w].executed),
                  epi |-> warp[w].epi, read |-> FALSE]
            R == [buf : Nat, tile : Nat, epi : Nat, read : BOOLEAN]
<1>1. launch \in Launches("cooperative") /\ CoopInPlace(w) /\ pc \in [Warps(launch) -> CoopPlaces]
  BY DEF CoopShape, CoopAllInPlace
<1>2. /\ stores' = [stores EXCEPT ![w] = Append(stores[w], r)]
      /\ launch' = launch /\ pc' = [pc EXCEPT ![w] = "acquire"]
  BY DEF CoopStoreSlice, UnchangedButWarp, Go
<1>3. r \in R
  <2>1. /\ launch.cta \in Nat /\ launch.grid \in Nat
        /\ launch.epiStages \in Nat /\ launch.epiStages > 0
        /\ launch.epiTiles \in Nat /\ launch.epiTiles > 0
    BY <1>1, CoopNumbers
  <2>2. warp[w].executed \in Nat /\ warp[w].epi \in Nat /\ warp[w].buf \in Nat
    BY <1>1, <2>1 DEF CoopInPlace
  <2>3. Linear(warp[w].executed) \in Nat
    BY <2>1, <2>2 DEF Linear
  <2>. QED
    BY <2>2, <2>3
<1>. HIDE DEF r
<1>4. DOMAIN stores = Warps(launch) /\ stores[w] \in Seq(R)
  BY DEF CoopDrained
<1>5. Append(stores[w], r) \in Seq(R)
  BY <1>3, <1>4
<1>6. ASSUME NEW v \in Warps(launch)
      PROVE  /\ stores'[v] \in Seq(R)
             /\ pc'[v] # "acquire" => AtMostUnread(v, launch.epiStages - 1)'
  <2>1. CASE v = w
    BY <1>1, <1>2, <1>4, <1>5, <2>1
  <2>2. CASE v # w
    <3>1. stores'[v] = stores[v] /\ pc'[v] = pc[v]
      BY <1>1, <1>2, <1>4, <2>2
    <3>. QED
      BY <1>2, <3>1 DEF CoopDrained, AtMostUnread
  <2>. QED
    BY <2>1, <2>2
<1>. QED
  BY <1>2, <1>4, <1>6 DEF CoopDrained

LEMMA CoopReadKept ==
  ASSUME CoopDrained, NEW w \in Warps(launch), NEW i \in DOMAIN stores[w], ReadStore(w, i)
  PROVE  CoopDrained'
<1>. DEFINE R == [buf : Nat, tile : Nat, epi : Nat, read : BOOLEAN]
<1>1. stores' = [stores EXCEPT ![w][i].read = TRUE] /\ launch' = launch /\ pc' = pc
  BY DEF ReadStore
<1>2. DOMAIN stores = Warps(launch) /\ \A v \in Warps(launch) : stores[v] \in Seq(R)
  BY DEF CoopDrained
<1>3. /\ \A v \in Warps(launch) : v # w => stores'[v] = stores[v]
      /\ stores'[w] = [stores[w] EXCEPT ![i].read = TRUE]
      /\ DOMAIN stores' = Warps(launch)
  BY <1>1, <1>2
<1>4. stores[w][i] \in R
  <2>. HIDE DEF R
  <2>1. stores[w] \in Seq(R)
    BY <1>2
  <2>. QED
    BY <2>1
<1>5. PICK r : r = [stores[w][i] EXCEPT !.read = TRUE]
  OBVIOUS
<1>6. r \in R /\ r.read = TRUE /\ stores'[w] = [stores[w] EXCEPT ![i] = r]
  <2>1. r \in R /\ r.read = TRUE
    BY <1>4, <1>5
  <2>2. stores'[w] = [stores[w] EXCEPT ![i] = r]
    BY <1>3, <1>5
  <2>. QED
    BY <2>1, <2>2
<1>7. stores'[w] \in Seq(R) /\ Len(stores'[w]) = Len(stores[w])
  BY <1>2, <1>6
<1>8. \A k \in DOMAIN stores[w] : stores[w][k].read => stores'[w][k].read
  BY <1>2, <1>6
<1>9. DOMAIN stores'[w] = DOMAIN stores[w]
  BY <1>6
<1>10. AtMostUnread(w, launch.epiStages - 1) => AtMostUnread(w, launch.epiStages - 1)'
  BY <1>1, <1>7, <1>8, <1>9 DEF AtMostUnread
<1>11. \A v \in Warps(launch) : v # w =>
         (AtMostUnread(v, launch.epiStages - 1) => AtMostUnread(v, launch.epiStages - 1)')
  BY <1>1, <1>3 DEF AtMostUnread
<1>. QED
  BY <1>1, <1>2, <1>3, <1>7, <1>10, <1>11 DEF CoopDrained

LEMMA CoopDrainedStep ==
  ASSUME CoopShape, CoopAllInPlace, CoopDrained, [CoopNext]_vars
  PROVE  CoopDrained'
<1>1. pc \in [Warps(launch) -> CoopPlaces]
  BY DEF CoopShape
<1>2. ASSUME stores' = stores, launch' = launch,
             \A v \in Warps(launch) : pc'[v] # "acquire" =>
                pc[v] # "acquire" \/ AtMostUnread(v, launch.epiStages - 1)
      PROVE  CoopDrained'
  BY <1>2 DEF CoopDrained, AtMostUnread
<1>3. ASSUME NEW w \in Warps(launch), CoopWarp(w) PROVE CoopDrained'
  <2>1. CASE CoopStoreSlice(w)
    BY <2>1, CoopStoreKept
  <2>2. CASE CoopSyncBeforeWrite(w) \/ CoopWriteSlice(w)
    <3>1. /\ launch' = launch /\ stores' = stores
          /\ \A v \in Warps(launch) : pc[v] = "acquire" => pc'[v] = "acquire"
      <4>1. PICK at, regs :
              /\ at \in {"sync1", "sync2"}
              /\ pc[w] \in {"epilogue", "write"} /\ launch' = launch /\ stores' = stores
              /\ CoopSync(w, at, regs)
        BY <2>2 DEF CoopSyncBeforeWrite, CoopWriteSlice, UnchangedButWarp
      <4>2. CASE Cardinality(bar \cup {w}) = AllWarps
        <5>1. bar \cup {w} = Warps(launch)
          <6>1. bar \cup {w} \subseteq Warps(launch) /\ launch \in Launches("cooperative")
            BY DEF CoopShape, CoopIn
          <6>. QED
            BY <4>2, <6>1, WarpsOfCta, FS_Subset
        <5>2. \A v \in Warps(launch) : pc[v] # "acquire"
          BY <4>1, <5>1 DEF CoopShape, CoopIn
        <5>. QED
          BY <4>1, <5>2
      <4>3. CASE Cardinality(bar \cup {w}) # AllWarps
        BY <1>1, <4>1, <4>3 DEF CoopSync, Go
      <4>. QED
        BY <4>2, <4>3
    <3>. QED
      BY <1>2, <3>1
  <2>3. CASE CoopAcquireBuffer(w)
    <3>1. /\ launch' = launch /\ stores' = stores /\ AtMostUnread(w, launch.epiStages - 1)
          /\ pc' = [pc EXCEPT ![w] = CoopSliceDone(w)]
      BY <2>3 DEF CoopAcquireBuffer, Go, UnchangedInLoop, UnchangedButWarp
    <3>. QED
      BY <1>1, <1>2, <3>1
  <2>4. CASE CoopExitLoop(w) \/ CoopFirstBlock(w) \/ MultiplyAndCopy(w)
             \/ CoopReleaseStage(w) \/ CoopNextStage(w) \/ CoopLeaveMainLoop(w)
    <3>1. PICK to : /\ launch' = launch /\ stores' = stores
                    /\ pc' = [pc EXCEPT ![w] = to] /\ pc[w] # "acquire"
      BY <2>4 DEF CoopExitLoop, CoopFirstBlock, MultiplyAndCopy, CoopReleaseStage,
                  CoopNextStage, CoopLeaveMainLoop, Go, UnchangedInLoop, UnchangedButWarp
    <3>. QED
      BY <1>1, <1>2, <3>1
  <2>. QED
    BY <1>3, <2>1, <2>2, <2>3, <2>4 DEF CoopWarp
<1>4. CASE \/ UNCHANGED vars \/ CoopLoadStage \/ CoopLoaderTail
           \/ \E x \in inflight : Land(x)
  <2>1. stores' = stores /\ launch' = launch /\ pc' = pc
    BY <1>4 DEF vars, CoopLoadStage, LoadFrom, CoopLoaderTail, DrainLoader, Land
  <2>. QED
    BY <1>2, <2>1
<1>5. ASSUME NEW w \in Warps(launch), NEW i \in DOMAIN stores[w], ReadStore(w, i)
      PROVE  CoopDrained'
  BY <1>5, CoopReadKept
<1>. QED
  BY <1>3, <1>4, <1>5 DEF CoopNext

(***************************************************************************)
(* The invariant of the kernel.                                            *)
(***************************************************************************)
CoopInv == CoopShape /\ CoopAllInPlace /\ CoopRing /\ CoopDrained

LEMMA CoopInvInit == CoopInit => CoopInv
<1>. SUFFICES ASSUME CoopInit PROVE CoopInv
  OBVIOUS
<1>1. CoopDrained
  <2>1. launch \in Launches("cooperative") /\ stores = [w \in Warps(launch) |-> <<>>]
    BY DEF CoopInit, FreshMachine, FreshStores
  <2>. QED
    BY <2>1 DEF CoopDrained, AtMostUnread
<1>. QED
  BY <1>1, CoopRingInit DEF CoopInv

LEMMA CoopInvNext ==
  ASSUME CoopInv, [CoopNext]_vars
  PROVE  CoopInv'
<1>1. CoopShape /\ CoopAllInPlace /\ CoopRing /\ CoopDrained
  BY DEF CoopInv
<1>2. CoopDrained'
  BY <1>1, CoopDrainedStep
<1>3. ASSUME NEW w \in Warps(launch), CoopWarp(w)
      PROVE  CoopShape' /\ CoopAllInPlace' /\ CoopRing'
  <2>1. CoopShape'
    BY <1>1, <1>3, CoopShapeNext
  <2>2. CASE CoopReleaseStage(w)
    BY <1>1, <2>1, <2>2, CoopRingRelease
  <2>3. CASE ~CoopReleaseStage(w)
    BY <1>1, <1>3, <2>1, <2>3, CoopStillStep, CoopRingStill
  <2>. QED
    BY <2>2, <2>3
<1>4. ASSUME CoopOthersMove
      PROVE  CoopShape' /\ CoopAllInPlace' /\ CoopRing'
  BY <1>1, <1>4, CoopOthersStep
<1>5. CoopOthersMove \/ \E w \in Warps(launch) : CoopWarp(w)
  BY DEF CoopNext, CoopOthersMove
<1>6. CoopShape' /\ CoopAllInPlace' /\ CoopRing'
  BY <1>3, <1>4, <1>5
<1>. QED
  BY <1>2, <1>6 DEF CoopInv

\* A warp that owns a stage finds its own k tile there, whole, and no load into
\* the stage is under way.
LEMMA CoopHeld ==
  ASSUME CoopInv, NEW w \in Warps(launch), pc[w] \in {"block", "release"}
  PROVE  LET i == warp[w].pipe.index
         IN /\ smem[i] = CoopContent(Linear(warp[w].executed), warp[w].pipe.count)
            /\ \A x \in inflight : x.stage # i
<1>. DEFINE i == warp[w].pipe.index
<1>1. CoopShape /\ CoopInPlace(w)
  BY DEF CoopInv, CoopAllInPlace
<1>2. PICK own, src, n, p, in, load, issued, filled, freed :
         /\ CoopGhosts(own, src, n, p, in)
         /\ Ring(own, src, n, p, in, load, issued, filled, freed)
  BY DEF CoopInv, CoopRing
<1>3. w \in in /\ p[w] = CoopPosition(w) /\ src = CoopContents
  BY <1>2 DEF CoopGhosts, CoopHolders, CoopIn, CoopPositions
<1>4. /\ CoopPosition(w) \in Nat
      /\ CoopPosition(w) \div launch.kTiles = warp[w].executed
      /\ CoopPosition(w) % launch.kTiles = warp[w].pipe.count
  BY <1>1, CoopOwnTile, CoopPositionNat
<1>5. src[p[w]] = CoopContent(Linear(warp[w].executed), warp[w].pipe.count)
  BY <1>3, <1>4 DEF CoopContents
<1>6. Place(p[w]) = i
  BY <1>1, <1>3 DEF CoopInPlace, StandsAt
<1>7. /\ i \in Stages(launch) /\ Pending(i) = {}
      /\ \A op \in Operands : smem[i][op] = src[p[w]][op]
  BY <1>2, <1>3, <1>6, HeldStage
<1>8. smem[i] = [op \in Operands |-> smem[i][op]]
  BY <1>2, <1>7 DEF Ring, RingShape
<1>9. smem[i] = src[p[w]]
  BY <1>5, <1>7, <1>8 DEF CoopContent
<1>10. \A x \in inflight : x.stage # i
  BY <1>7 DEF Pending
<1>. QED
  BY <1>5, <1>9, <1>10

\* Where the warps are, and what their registers can hold.
LEMMA CoopTypes ==
  ASSUME CoopInv
  PROVE  /\ bar \subseteq Warps(launch)
         /\ \A w \in Warps(launch) :
              /\ pc[w] \in CoopPlaces
              /\ warp[w].pipe.index \in Stages(launch)
              /\ warp[w].pipe.phase \in {0, 1}
              /\ warp[w].blk \in 0 .. LastBlock
              /\ warp[w].epi \in 0 .. launch.epiTiles - 1
<1>1. CoopShape /\ CoopAllInPlace
  BY DEF CoopInv
<1>2. RingShape
  BY DEF CoopInv, CoopRing, Ring
<1>3. ASSUME NEW w \in Warps(launch)
      PROVE  warp[w].pipe.index \in Stages(launch) /\ warp[w].pipe.phase \in {0, 1}
  <2>1. CoopInPlace(w) /\ CoopPosition(w) \in Nat
    BY <1>1, CoopPositionNat DEF CoopAllInPlace
  <2>. QED
    BY <1>2, <2>1, PlaceOfTile DEF CoopInPlace, StandsAt
<1>4. \A w \in Warps(launch) :
        warp[w].blk \in 0 .. LastBlock /\ warp[w].epi \in 0 .. launch.epiTiles - 1
  BY <1>1 DEF CoopAllInPlace, CoopInPlace
<1>. QED
  BY <1>1, <1>3, <1>4 DEF CoopShape, CoopIn

(***************************************************************************)
(* What a warp takes to the epilogue: the sum of all blocks of all k tiles *)
(* of its output tile, for any number of blocks.                           *)
(***************************************************************************)
CoopTileAt(t) == [k \in Nat |-> CoopContent(t, k)]

CoopSums == \A w \in Warps(launch) : Summed(w, CoopTileAt(Linear(warp[w].executed)))

\* The tile a sum is of, in the next state.
LEMMA CoopSumsThen ==
  ASSUME launch' = launch, NEW v, NEW f, f = CoopTileAt(Linear(warp'[v].executed)),
         Summed(v, f)'
  PROVE  Summed(v, CoopTileAt(Linear(warp[v].executed)))'
<1>1. CoopTileAt(Linear(warp[v].executed))' = f
  BY DEF CoopTileAt, CoopContent, Source, TileM, TileN, Linear
<1>. QED
  BY <1>1 DEF Summed, Partial, Sum, Piece

LEMMA CoopStageHeld ==
  CoopInv => \A w \in Warps(launch) : pc[w] \in {"block", "release"} =>
     smem[warp[w].pipe.index] = CoopContent(Linear(warp[w].executed), warp[w].pipe.count)
BY CoopHeld

LEMMA CoopStageHeldThen ==
  CoopInv' => (\A w \in Warps(launch) : pc[w] \in {"block", "release"} =>
     smem[warp[w].pipe.index] = CoopContent(Linear(warp[w].executed), warp[w].pipe.count))'
BY CoopStageHeld, PTL

\* The stage a wait has seen.
LEMMA CoopStageSeen ==
  ASSUME CoopInv, CoopInv', NEW w \in Warps(launch), CoopFirstBlock(w) \/ CoopNextStage(w),
         NEW f, f = CoopTileAt(Linear(warp[w].executed)), warp'[w].pipe.count \in Nat
  PROVE  smem[warp[w].pipe.index] = f[warp'[w].pipe.count]
<1>1. launch' = launch /\ smem' = smem
  BY DEF CoopFirstBlock, CoopNextStage, UnchangedInLoop, UnchangedButWarp
<1>2. /\ warp'[w].pipe.index = warp[w].pipe.index /\ warp'[w].executed = warp[w].executed
      /\ pc'[w] = AtBlock(0)
  BY CoopFirstBlockRegisters, CoopNextStageRegisters DEF CoopInv
<1>3. pc'[w] \in {"block", "release"} /\ w \in Warps(launch)'
  BY <1>1, <1>2 DEF AtBlock
<1>4. smem'[warp'[w].pipe.index] =
         CoopContent(Linear(warp[w].executed), warp[w].pipe.count)'
  BY <1>3, CoopStageHeldThen
<1>5. CoopContent(Linear(warp[w].executed), warp[w].pipe.count)' =
         CoopContent(Linear(warp[w].executed), warp'[w].pipe.count)
  BY <1>1, <1>2 DEF CoopContent, Source, TileM, TileN, Linear
<1>. QED
  BY <1>1, <1>2, <1>4, <1>5 DEF CoopTileAt

\* Every step of a warp keeps every warp's sum right.
LEMMA CoopSumsOfWarp ==
  ASSUME CoopInv, CoopInv', CoopSums, NEW w \in Warps(launch), CoopWarp(w)
  PROVE  CoopSums'
<1>1. CoopShape /\ CoopInPlace(w) /\ launch \in Launches("cooperative")
  BY DEF CoopInv, CoopAllInPlace, CoopShape
<1>2. launch' = launch
  BY <1>1, CoopSyncStep
     DEF CoopWarp, CoopExitLoop, CoopFirstBlock, MultiplyAndCopy, CoopReleaseStage,
         CoopNextStage, CoopLeaveMainLoop, CoopStoreSlice, CoopAcquireBuffer,
         UnchangedInLoop, UnchangedButWarp
<1>3. BlockNumbers /\ LastBlock \in Nat
  BY <1>1, CoopNumbers DEF Launches, Positive, BlockNumbers
<1>4. PICK f : f = CoopTileAt(Linear(warp[w].executed))
  OBVIOUS
<1>5. Summed(w, f)
  BY <1>4 DEF CoopSums
<1>6. ASSUME \A v \in Warps(launch) : v # w => warp'[v] = warp[v] /\ pc'[v] = pc[v],
             Summed(w, f)', warp'[w].executed = warp[w].executed
      PROVE  CoopSums'
  <2>1. ASSUME NEW v \in Warps(launch), v # w
        PROVE  Summed(v, CoopTileAt(Linear(warp[v].executed)))'
    <3>1. PICK g : g = CoopTileAt(Linear(warp[v].executed))
      OBVIOUS
    <3>2. Summed(v, g) /\ pc'[v] = pc[v] /\ warp'[v] = warp[v]
      BY <1>6, <2>1, <3>1 DEF CoopSums
    <3>3. Summed(v, g)'
      BY <1>2, <3>2, SummedStill
    <3>. QED
      BY <1>2, <3>1, <3>2, <3>3, CoopSumsThen
  <2>2. Summed(w, CoopTileAt(Linear(warp[w].executed)))'
    BY <1>2, <1>4, <1>6, CoopSumsThen
  <2>. QED
    BY <1>2, <2>1, <2>2 DEF CoopSums
<1>8. CASE CoopExitLoop(w)
  <2>1. pc' = [pc EXCEPT ![w] = "done"] /\ warp' = warp
    BY <1>8 DEF CoopExitLoop, Go
  <2>2. pc'[w] = "done" /\ \A v \in Warps(launch) : v # w => pc'[v] = pc[v]
    BY <1>1, <2>1 DEF CoopShape
  <2>3. Summed(w, f)'
    BY <1>2, <1>5, <2>2, SummedStill
  <2>. QED
    BY <1>6, <2>1, <2>2, <2>3
<1>9. CASE CoopFirstBlock(w)
  <2>1. /\ CoopKept(w) /\ pc'[w] = AtBlock(0) /\ warp'[w].executed = warp[w].executed
        /\ warp'[w].pipe.count = 0 /\ warp'[w].acc = <<>> /\ warp'[w].blk = 0
        /\ warp'[w].frag = [b \in {0} |-> Fragment(w, 0)]
    BY <1>1, <1>9, CoopFirstBlockRegisters
  <2>2. smem[warp[w].pipe.index] = f[0]
    BY <1>4, <1>9, <2>1, CoopStageSeen
  <2>3. Summed(w, f)'
    BY <1>2, <1>3, <2>1, <2>2, SummedFirst
  <2>. QED
    BY <1>6, <2>1, <2>3 DEF CoopKept
<1>10. CASE MultiplyAndCopy(w)
  <2>1. /\ CoopKept(w) /\ pc'[w] = AtBlock(warp[w].blk + 1) /\ pc[w] = "block"
        /\ warp'[w].executed = warp[w].executed /\ warp'[w].pipe = warp[w].pipe
        /\ warp'[w].frag = Copied(w, warp[w].blk + 1)
        /\ warp'[w].acc = Append(warp[w].acc, MultiplyFirst(w)[warp[w].blk])
        /\ warp'[w].blk = warp[w].blk + 1
    BY <1>1, <1>10, MultiplyAndCopyRegisters DEF MultiplyAndCopy
  <2>2. /\ warp[w].blk \in 0 .. LastBlock /\ warp[w].blk < LastBlock
        /\ warp[w].pipe.count \in Nat
    BY <1>1, <2>1, CoopNumbers DEF CoopInPlace
  <2>3. MultiplyFirst(w)[warp[w].blk] = warp[w].frag[warp[w].blk]
    <3>1. warp[w].blk \in DOMAIN warp[w].frag /\ warp[w].blk # warp[w].blk + 1
      BY <1>5, <2>1, <2>2 DEF Summed
    <3>. QED
      BY <3>1 DEF MultiplyFirst, Copied
  <2>4. smem[warp[w].pipe.index] = f[warp[w].pipe.count]
    BY <1>4, <2>1, <2>2, CoopStageHeld DEF CoopTileAt
  <2>5. Summed(w, f)'
    BY <1>2, <1>3, <1>5, <2>1, <2>2, <2>3, <2>4, SummedCopy
  <2>. QED
    BY <1>6, <2>1, <2>5 DEF CoopKept
<1>11. CASE CoopReleaseStage(w)
  <2>1. /\ CoopKept(w) /\ pc[w] = "release" /\ pc'[w] \in {"next", "last"}
        /\ warp'[w].executed = warp[w].executed /\ warp'[w].pipe = Advanced(warp[w].pipe)
        /\ warp'[w].frag = warp[w].frag /\ warp'[w].acc = warp[w].acc
    BY <1>1, <1>11, CoopReleaseRegisters DEF CoopReleaseStage
  <2>2. warp[w].pipe.count \in Nat
    BY <1>1, <2>1, CoopNumbers DEF CoopInPlace
  <2>3. warp'[w].pipe.count = warp[w].pipe.count + 1
    BY <2>1 DEF Advanced
  <2>4. Summed(w, f)'
    BY <1>2, <1>5, <2>1, <2>2, <2>3, SummedRelease
  <2>. QED
    BY <1>6, <2>1, <2>4 DEF CoopKept
<1>12. CASE CoopNextStage(w)
  <2>1. /\ CoopKept(w) /\ pc'[w] = AtBlock(0) /\ pc[w] = "next"
        /\ warp'[w].executed = warp[w].executed /\ warp'[w].pipe = warp[w].pipe
        /\ warp'[w].frag = Copied(w, 0)
        /\ warp'[w].acc = Append(warp[w].acc, warp[w].frag[LastBlock])
        /\ warp'[w].blk = 0
    BY <1>1, <1>12, CoopNextStageRegisters DEF CoopNextStage
  <2>2. warp[w].pipe.count \in Nat
    BY <1>1, <2>1, CoopNumbers DEF CoopInPlace
  <2>3. smem[warp[w].pipe.index] = f[warp[w].pipe.count]
    BY <1>4, <1>12, <2>1, <2>2, CoopStageSeen
  <2>4. Summed(w, f)'
    BY <1>2, <1>3, <1>5, <2>1, <2>2, <2>3, SummedNext
  <2>. QED
    BY <1>6, <2>1, <2>4 DEF CoopKept
<1>13. CASE CoopLeaveMainLoop(w)
  <2>1. /\ CoopKept(w) /\ pc'[w] = "epilogue" /\ pc[w] = "last"
        /\ warp'[w].executed = warp[w].executed
        /\ warp'[w].acc = Append(warp[w].acc, warp[w].frag[LastBlock])
    BY <1>1, <1>13, CoopLeaveMainLoopRegisters DEF CoopLeaveMainLoop
  <2>2. warp[w].pipe.count = launch.kTiles
    BY <1>1, <2>1 DEF CoopInPlace
  <2>3. Summed(w, f)'
    BY <1>2, <1>3, <1>5, <2>1, <2>2, SummedLeave
  <2>. QED
    BY <1>6, <2>1, <2>3 DEF CoopKept
<1>14. CASE CoopStoreSlice(w)
  <2>1. pc' = [pc EXCEPT ![w] = "acquire"] /\ pc[w] = "store" /\ warp' = warp
    BY <1>14 DEF CoopStoreSlice, Go
  <2>2. pc'[w] = "acquire" /\ \A v \in Warps(launch) : v # w => pc'[v] = pc[v]
    BY <1>1, <2>1 DEF CoopShape
  <2>3. Summed(w, f)'
    <3>1. pc[w] \in Slicing /\ pc'[w] \in Slicing
      BY <2>1, <2>2 DEF Slicing
    <3>. QED
      BY <1>2, <1>5, <2>1, <3>1, SummedStill
  <2>. QED
    BY <1>6, <2>1, <2>2, <2>3
<1>15. CASE CoopSyncBeforeWrite(w) \/ CoopWriteSlice(w) \/ CoopAcquireBuffer(w)
  <2>1. ASSUME NEW v \in Warps(launch)
        PROVE  Summed(v, CoopTileAt(Linear(warp[v].executed)))'
    <3>1. PICK g : g = CoopTileAt(Linear(warp[v].executed))
      OBVIOUS
    <3>2. Summed(v, g)
      BY <3>1 DEF CoopSums
    <3>3. SameSlice(v) \/ SliceOver(v) \/ (pc'[v] = pc[v] /\ warp'[v] = warp[v])
      BY <1>1, <1>15, CoopSyncStep, AcquireSliceRegisters DEF CoopKept
    <3>4. CoopEpilogue \subseteq Slicing
      BY DEF CoopEpilogue, Slicing
    <3>5. CASE warp'[v].executed = warp[v].executed
      <4>1. \/ /\ pc[v] \in Slicing /\ pc'[v] \in Slicing /\ warp'[v].acc = warp[v].acc
            \/ pc'[v] = "start"
            \/ /\ pc'[v] = pc[v] /\ warp'[v].pipe = warp[v].pipe
               /\ warp'[v].blk = warp[v].blk
               /\ warp'[v].acc = warp[v].acc /\ warp'[v].frag = warp[v].frag
        <5>1. CASE SameSlice(v)
          BY <3>4, <5>1 DEF SameSlice
        <5>2. CASE SliceOver(v)
          <6>1. pc'[v] \in {"start", "epilogue"} /\ "epilogue" \in Slicing
            BY <5>2 DEF SliceOver, CoopSliceDone, Slicing
          <6>. QED
            BY <3>4, <5>2, <6>1 DEF SliceOver
        <5>. QED
          BY <3>3, <5>1, <5>2
      <4>2. Summed(v, g)'
        BY <1>2, <3>2, <4>1, SummedStill
      <4>. QED
        BY <1>2, <3>1, <3>5, <4>2, CoopSumsThen
    <3>6. CASE warp'[v].executed # warp[v].executed
      <4>1. SliceOver(v) /\ pc'[v] = "start"
        BY <3>3, <3>6 DEF SameSlice, SliceOver, CoopSliceDone
      <4>. QED
        BY <4>1 DEF Summed, Slicing
    <3>. QED
      BY <3>5, <3>6
  <2>. QED
    BY <1>2, <2>1 DEF CoopSums
<1>. QED
  BY <1>8, <1>9, <1>10, <1>11, <1>12, <1>13, <1>14, <1>15 DEF CoopWarp

LEMMA CoopSumsNext ==
  ASSUME CoopInv, CoopInv', CoopSums, [CoopNext]_vars
  PROVE  CoopSums'
<1>1. ASSUME CoopOthersMove PROVE CoopSums'
  <2>1. UNCHANGED <<launch, pc, warp>>
    BY <1>1 DEF CoopOthersMove, vars, CoopLoadStage, LoadFrom, CoopLoaderTail, DrainLoader,
                Land, ReadStore
  <2>2. ASSUME NEW v \in Warps(launch)
        PROVE  Summed(v, CoopTileAt(Linear(warp[v].executed)))'
    <3>1. PICK g : g = CoopTileAt(Linear(warp[v].executed))
      OBVIOUS
    <3>2. Summed(v, g)'
      BY <2>1, <3>1, SummedStill DEF CoopSums
    <3>. QED
      BY <2>1, <3>1, <3>2, CoopSumsThen
  <2>. QED
    BY <2>1, <2>2 DEF CoopSums
<1>. QED
  BY <1>1, CoopSumsOfWarp DEF CoopNext, CoopOthersMove

(***************************************************************************)
(* The barriers of the epilogue: all warps of the CTA have passed as many. *)
(***************************************************************************)
\* The slices a warp has begun before its own, and the barriers it has passed.
CoopBegun(w) == Begun(warp[w].executed, w)
CoopPassed(w) == Passed(warp[w].executed, w)

CoopTogether == \A v, w \in Warps(launch) : CoopPassed(v) = CoopPassed(w)

\* A warp that comes to a barrier and waits or opens it keeps what it has to write;
\* the one that comes to the first barrier takes the next buffer.
CoopKeeps(v) ==
    /\ warp'[v].executed = warp[v].executed /\ warp'[v].epi = warp[v].epi
    /\ warp'[v].acc = warp[v].acc

CoopTurns(v, w, at) ==
    warp'[v].buf = IF at = "sync1" /\ v = w THEN (warp[v].buf + 1) % launch.epiStages
                   ELSE warp[v].buf

CoopWaits(w, at) ==
    /\ pc' = [pc EXCEPT ![w] = at]
    /\ \A v \in Warps(launch) :
         (v # w => warp'[v] = warp[v]) /\ CoopKeeps(v) /\ CoopTurns(v, w, at)

CoopGoesOn(v, at) ==
    \/ at = "sync1" /\ pc'[v] = "write" /\ CoopKeeps(v)
    \/ at = "sync2" /\ v = <<0, 0>> /\ pc'[v] = "store" /\ CoopKeeps(v)
    \/ at = "sync2" /\ v # <<0, 0>> /\ pc'[v] = CoopSliceDone(v) /\ SliceOver(v)

CoopOpens(w, at) ==
    \A v \in Warps(launch) :
        /\ v # w => pc[v] = at
        /\ warp[v].executed = warp[w].executed /\ warp[v].epi = warp[w].epi
        /\ CoopGoesOn(v, at) /\ CoopTurns(v, w, at)

\* The numbers a warp's progress is counted in.
LEMMA CoopSliceNumbers ==
  ASSUME CoopInv, NEW v \in Warps(launch)
  PROVE  /\ warp[v].executed \in Nat /\ warp[v].epi \in Nat /\ warp[v].buf \in Nat
         /\ launch.epiTiles \in Nat /\ launch.epiTiles > 0
         /\ launch.epiStages \in Nat /\ launch.epiStages > 0
         /\ warp[v].epi < launch.epiTiles
         /\ launch.epiTiles * warp[v].executed \in Nat /\ CoopBegun(v) \in Nat
<1>1. launch \in Launches("cooperative") /\ CoopInPlace(v)
  BY DEF CoopInv, CoopShape, CoopAllInPlace
<1>2. /\ launch.epiTiles \in Nat /\ launch.epiTiles > 0
      /\ launch.epiStages \in Nat /\ launch.epiStages > 0
  BY <1>1, CoopNumbers
<1>3. /\ warp[v].executed \in Nat /\ warp[v].epi \in Nat /\ warp[v].buf \in Nat
      /\ warp[v].epi < launch.epiTiles
  BY <1>1, <1>2 DEF CoopInPlace
<1>4. launch.epiTiles * warp[v].executed \in Nat
  BY <1>2, <1>3
<1>. QED
  BY <1>2, <1>3, <1>4 DEF CoopBegun, Begun

LEMMA CoopBarrierOutcome ==
  ASSUME CoopInv, CoopTogether, NEW w \in Warps(launch), NEW at, NEW regs,
         \/ pc[w] = "epilogue" /\ at = "sync1"
         \/ pc[w] = "write" /\ at = "sync2",
         CoopSync(w, at, regs), DOMAIN regs = Warps(launch),
         \A v \in Warps(launch) :
            /\ v # w => regs[v] = warp[v]
            /\ regs[v].executed = warp[v].executed /\ regs[v].epi = warp[v].epi
            /\ regs[v].acc = warp[v].acc
            /\ regs[v].buf = IF at = "sync1" /\ v = w
                             THEN (warp[v].buf + 1) % launch.epiStages ELSE warp[v].buf
  PROVE  CoopWaits(w, at) \/ CoopOpens(w, at)
<1>. DEFINE here == bar \cup {w}
            place(v) == IF v = w THEN at ELSE pc[v]
            onward(v) == place(v) = "sync2" /\ v # <<0, 0>>
<1>1. /\ launch \in Launches("cooperative") /\ bar \subseteq CoopIn({"sync1", "sync2"})
      /\ CoopShape
  BY DEF CoopInv, CoopShape
<1>2. CASE Cardinality(here) # AllWarps
  BY <1>2 DEF CoopSync, CoopWaits, CoopKeeps, CoopTurns, Go
<1>3. CASE Cardinality(here) = AllWarps
  <2>1. here = Warps(launch)
    <3>1. here \subseteq Warps(launch)
      BY <1>1 DEF CoopIn
    <3>. HIDE DEF here
    <3>. QED
      BY <1>1, <1>3, <3>1, WarpsOfCta, FS_Subset
  <2>2. /\ pc' = [v \in Warps(launch) |->
                    CASE place(v) = "sync1" -> "write"
                      [] onward(v) -> CoopSliceDone(v)
                      [] OTHER -> "store"]
        /\ warp' = [v \in Warps(launch) |->
                      IF onward(v) THEN CoopNextSlice(v) ELSE regs[v]]
    BY <1>3 DEF CoopSync
  <2>3. ASSUME NEW v \in Warps(launch)
        PROVE  /\ v # w => pc[v] = at
               /\ warp[v].executed = warp[w].executed /\ warp[v].epi = warp[w].epi
    <3>1. CASE v = w
      BY <3>1
    <3>2. CASE v # w
      <4>1. pc[v] \in {"sync1", "sync2"}
        BY <1>1, <2>1, <3>2 DEF CoopIn
      <4>2. /\ pc[v] \in {"epilogue", "sync1", "write", "sync2"}
            /\ pc[w] \in {"epilogue", "sync1", "write", "sync2"}
        BY <4>1
      <4>3. Passed(warp[v].executed, v) = Passed(warp[w].executed, w)
        BY DEF CoopTogether, CoopPassed
      <4>4. /\ warp[v].epi \in 0 .. launch.epiTiles - 1
            /\ warp[w].epi \in 0 .. launch.epiTiles - 1
            /\ warp[v].executed \in Nat /\ warp[w].executed \in Nat
            /\ launch.epiTiles \in Nat /\ launch.epiTiles > 0
        BY CoopTypes, CoopSliceNumbers
      <4>5. /\ warp[v].executed = warp[w].executed /\ warp[v].epi = warp[w].epi
            /\ Half(v) = Half(w)
        <5>1. PICK p \in Nat, q \in Nat : p = warp[v].executed /\ q = warp[w].executed
          BY <4>4
        <5>2. p = q /\ warp[v].epi = warp[w].epi /\ Half(v) = Half(w)
          BY <4>2, <4>3, <4>4, <5>1, SamePoint
        <5>. QED
          BY <5>1, <5>2
      <4>6. pc[v] = at
        BY <4>1, <4>5 DEF Half
      <4>. QED
        BY <4>5, <4>6
    <3>. QED
      BY <3>1, <3>2
  <2>4. ASSUME NEW v \in Warps(launch)
        PROVE  CoopGoesOn(v, at) /\ CoopTurns(v, w, at)
    <3>1. place(v) = at /\ (at = "sync1" \/ at = "sync2")
      BY <2>3
    <3>2. pc[v] \in CoopEpilogue
      BY <2>3 DEF CoopEpilogue
    <3>3. CASE at = "sync1" \/ v = <<0, 0>>
      <4>1. warp'[v] = regs[v]
        BY <2>2, <3>1, <3>3
      <4>2. CoopKeeps(v) /\ CoopTurns(v, w, at)
        BY <4>1 DEF CoopKeeps, CoopTurns
      <4>3. pc'[v] = IF at = "sync1" THEN "write" ELSE "store"
        BY <2>2, <3>1, <3>3
      <4>. QED
        BY <3>1, <3>3, <4>2, <4>3 DEF CoopGoesOn
    <3>4. CASE at = "sync2" /\ v # <<0, 0>>
      <4>1. warp'[v] = CoopNextSlice(v) /\ pc'[v] = CoopSliceDone(v)
        BY <2>2, <3>1, <3>4
      <4>2. SliceOver(v)
        BY <1>1, <3>2, <4>1, NextSliceRegisters
      <4>. QED
        BY <3>4, <4>1, <4>2 DEF CoopGoesOn, CoopTurns, SliceOver
    <3>. QED
      BY <3>1, <3>3, <3>4
  <2>. QED
    BY <2>3, <2>4 DEF CoopOpens
<1>. QED
  BY <1>2, <1>3

\* The two steps that come to a barrier.
LEMMA CoopBarrier ==
  ASSUME CoopInv, CoopTogether, NEW w \in Warps(launch), NEW at,
         \/ CoopSyncBeforeWrite(w) /\ at = "sync1"
         \/ CoopWriteSlice(w) /\ at = "sync2"
  PROVE  /\ launch' = launch
         /\ at = "sync1" => pc[w] = "epilogue"
         /\ at = "sync2" => pc[w] = "write"
         /\ CoopWaits(w, at) \/ CoopOpens(w, at)
<1>1. /\ DOMAIN warp = Warps(launch)
      /\ \A v \in Warps(launch) : Fields \cup {"buf"} \subseteq DOMAIN warp[v]
  BY DEF CoopInv, CoopShape, RegisterShape
<1>2. CASE CoopSyncBeforeWrite(w) /\ at = "sync1"
  <2>1. PICK regs : regs = [warp EXCEPT ![w].buf = (@ + 1) % launch.epiStages]
    OBVIOUS
  <2>2. launch' = launch /\ pc[w] = "epilogue" /\ CoopSync(w, at, regs)
    BY <1>2, <2>1 DEF CoopSyncBeforeWrite, UnchangedButWarp
  <2>3. /\ DOMAIN regs = Warps(launch)
        /\ \A v \in Warps(launch) :
            /\ v # w => regs[v] = warp[v]
            /\ regs[v].executed = warp[v].executed /\ regs[v].epi = warp[v].epi
            /\ regs[v].acc = warp[v].acc
            /\ regs[v].buf = IF v = w
                             THEN (warp[v].buf + 1) % launch.epiStages ELSE warp[v].buf
    BY <1>1, <2>1 DEF Fields
  <2>. QED
    BY <1>2, <2>2, <2>3, CoopBarrierOutcome
<1>3. CASE CoopWriteSlice(w) /\ at = "sync2"
  <2>1. launch' = launch /\ pc[w] = "write" /\ CoopSync(w, at, warp)
    BY <1>3 DEF CoopWriteSlice, UnchangedButWarp
  <2>. QED
    BY <1>1, <1>3, <2>1, CoopBarrierOutcome
<1>. QED
  BY <1>2, <1>3

\* The end of a slice is the second barrier of it passed.
LEMMA CoopAfterSlice ==
  ASSUME CoopInv, launch' = launch, NEW v \in Warps(launch), SliceOver(v)
  PROVE  /\ CoopPassed(v)' = 2 * CoopBegun(v) + 2
         /\ CoopBegun(v)' = CoopBegun(v) + 1
         /\ pc'[v] \in {"start", "epilogue"}
<1>. DEFINE m == launch.epiTiles  q == warp[v].executed  e == warp[v].epi  x == m * q
<1>1. m \in Nat /\ q \in Nat /\ e \in Nat /\ x \in Nat
  BY CoopSliceNumbers
<1>2. CoopBegun(v) = x + e
  <2>1. pc[v] \in Slicing
    BY DEF SliceOver, CoopEpilogue, Slicing
  <2>. QED
    BY <2>1 DEF CoopBegun, Begun
<1>3. CASE CoopLastSlice(v)
  <2>1. pc'[v] = "start" /\ warp'[v].executed = q + 1 /\ e + 1 = m
    BY <1>3 DEF SliceOver, CoopSliceDone, CoopLastSlice
  <2>2. CoopBegun(v)' = m * (q + 1) + 0 /\ Half(v)' = 0
    BY <2>1 DEF CoopBegun, Begun, Half, Slicing
  <2>3. m * (q + 1) = x + m
    <3>. HIDE DEF m, q
    <3>. QED
      BY <1>1
  <2>. HIDE DEF x, q
  <2>4. CoopBegun(v)' = CoopBegun(v) + 1
    BY <1>1, <1>2, <2>1, <2>2, <2>3
  <2>5. CoopPassed(v)' = 2 * CoopBegun(v)' + Half(v)'
    BY DEF CoopPassed, CoopBegun, Passed
  <2>. QED
    BY <1>1, <1>2, <2>1, <2>2, <2>4, <2>5
<1>4. CASE ~CoopLastSlice(v)
  <2>1. pc'[v] = "epilogue" /\ warp'[v].executed = q /\ warp'[v].epi = e + 1
    BY <1>4 DEF SliceOver, CoopSliceDone
  <2>2. CoopBegun(v)' = x + (e + 1) /\ Half(v)' = 0
    BY <2>1 DEF CoopBegun, Begun, Half, Slicing
  <2>. HIDE DEF x, q, e
  <2>4. CoopBegun(v)' = CoopBegun(v) + 1
    BY <1>1, <1>2, <2>2
  <2>5. CoopPassed(v)' = 2 * CoopBegun(v)' + Half(v)'
    BY DEF CoopPassed, CoopBegun, Passed
  <2>. QED
    BY <1>1, <1>2, <2>1, <2>2, <2>4, <2>5
<1>. QED
  BY <1>3, <1>4

\* A warp whose counts of slices and tiles stay has the same place in them.
LEMMA CoopSamePassed ==
  ASSUME launch' = launch, NEW v, warp'[v].executed = warp[v].executed,
         \/ pc'[v] \in Slicing /\ pc[v] \in Slicing /\ warp'[v].epi = warp[v].epi
         \/ pc'[v] \notin Slicing /\ pc[v] \notin Slicing
  PROVE  /\ CoopBegun(v)' = CoopBegun(v)
         /\ Half(v)' = Half(v) => CoopPassed(v)' = CoopPassed(v)
<1>1. CoopBegun(v)' = CoopBegun(v)
  BY DEF CoopBegun, Begun
<1>. QED
  BY <1>1 DEF CoopPassed, CoopBegun, Passed

\* An open barrier takes every warp one further.
LEMMA CoopOnePassed ==
  ASSUME CoopInv, launch' = launch, NEW w \in Warps(launch), NEW at,
         \/ pc[w] = "epilogue" /\ at = "sync1"
         \/ pc[w] = "write" /\ at = "sync2",
         CoopOpens(w, at), NEW v \in Warps(launch)
  PROVE  CoopPassed(v)' = CoopPassed(v) + 1
<1>1. CoopGoesOn(v, at) /\ (v # w => pc[v] = at)
  BY DEF CoopOpens
<1>2. /\ pc[v] \in Slicing
      /\ at = "sync1" => Half(v) = 0
      /\ at = "sync2" => Half(v) = 1
  BY <1>1 DEF Slicing, Half
<1>3. CoopBegun(v) \in Nat /\ CoopPassed(v) = 2 * CoopBegun(v) + Half(v)
  BY CoopSliceNumbers DEF CoopPassed, CoopBegun, Passed
<1>4. CASE /\ pc'[v] \in {"write", "store"} /\ CoopKeeps(v)
           /\ at = "sync1" => pc'[v] = "write"
           /\ at = "sync2" => pc'[v] = "store"
  <2>1. Half(v)' = Half(v) + 1
    BY <1>2, <1>4 DEF Half
  <2>2. CoopBegun(v)' = CoopBegun(v)
    BY <1>2, <1>4, CoopSamePassed DEF CoopKeeps, Slicing
  <2>3. CoopPassed(v)' = 2 * CoopBegun(v)' + Half(v)'
    BY DEF CoopPassed, CoopBegun, Passed
  <2>. QED
    BY <1>2, <1>3, <2>1, <2>2, <2>3
<1>5. CASE at = "sync2" /\ SliceOver(v)
  <2>1. CoopPassed(v)' = 2 * CoopBegun(v) + 2
    BY <1>5, CoopAfterSlice
  <2>. QED
    BY <1>2, <1>3, <1>5, <2>1
<1>. QED
  BY <1>1, <1>4, <1>5 DEF CoopGoesOn

LEMMA CoopTogetherOpens ==
  ASSUME CoopInv, CoopTogether, launch' = launch, NEW w \in Warps(launch), NEW at,
         \/ pc[w] = "epilogue" /\ at = "sync1"
         \/ pc[w] = "write" /\ at = "sync2",
         CoopOpens(w, at)
  PROVE  CoopTogether'
<1>1. \A v \in Warps(launch) : CoopPassed(v)' = CoopPassed(v) + 1
  BY CoopOnePassed
<1>2. ASSUME NEW u \in Warps(launch), NEW v \in Warps(launch)
      PROVE  CoopPassed(u)' = CoopPassed(v)'
  <2>1. CoopPassed(u) = CoopPassed(v)
    BY DEF CoopTogether
  <2>. QED
    BY <1>1, <2>1
<1>. QED
  BY <1>2 DEF CoopTogether

LEMMA CoopTogetherKept ==
  ASSUME CoopTogether, launch' = launch,
         \A v \in Warps(launch) : CoopPassed(v)' = CoopPassed(v)
  PROVE  CoopTogether'
<1>1. ASSUME NEW u \in Warps(launch), NEW v \in Warps(launch)
      PROVE  CoopPassed(u)' = CoopPassed(v)'
  <2>1. CoopPassed(u) = CoopPassed(v)
    BY DEF CoopTogether
  <2>. QED
    BY <2>1
<1>. QED
  BY <1>1 DEF CoopTogether

(***************************************************************************)
(* What a step of one warp does to the control of all of them, and so that *)
(* all warps stay together, whatever the data.                             *)
(***************************************************************************)
CoopGoes(w, from, to) ==
    /\ CoopKept(w)
    /\ pc[w] \in from /\ pc'[w] \in to
    /\ warp'[w].executed = warp[w].executed

CoopSliced(w) ==
    \/ pc[w] = "epilogue" /\ (CoopWaits(w, "sync1") \/ CoopOpens(w, "sync1"))
    \/ pc[w] = "write" /\ (CoopWaits(w, "sync2") \/ CoopOpens(w, "sync2"))
    \/ CoopKept(w) /\ pc[w] = "store" /\ pc'[w] = "acquire" /\ warp'[w] = warp[w]
    \/ CoopKept(w) /\ pc[w] = "acquire" /\ SliceOver(w)

CoopControls(w) ==
    \/ CoopGoes(w, {"start"}, CoopLoop)
    \/ CoopGoes(w, {"start"}, {"done"})
    \/ CoopGoes(w, CoopLoop, CoopLoop)
    \/ CoopGoes(w, {"last"}, {"epilogue"}) /\ warp'[w].epi = 0
    \/ CoopSliced(w)

LEMMA CoopWarpControls ==
  ASSUME CoopInv, CoopTogether, NEW w \in Warps(launch), CoopWarp(w)
  PROVE  CoopControls(w) /\ launch' = launch /\ out' = out
<1>1. pc \in [Warps(launch) -> CoopPlaces] /\ CoopShape
  BY DEF CoopInv, CoopShape
<1>2. launch' = launch /\ out' = out
  BY DEF CoopWarp, CoopExitLoop, CoopFirstBlock, MultiplyAndCopy, CoopReleaseStage,
         CoopNextStage, CoopLeaveMainLoop, CoopSyncBeforeWrite, CoopWriteSlice,
         CoopStoreSlice, CoopAcquireBuffer, UnchangedInLoop, UnchangedButWarp
<1>3. ASSUME NEW to, Go(w, to), warp' = warp
      PROVE  pc'[w] = to /\ CoopKept(w)
  BY <1>1, <1>3 DEF Go, CoopKept
<1>4. \A b : AtBlock(b) \in CoopLoop
  BY DEF AtBlock, CoopLoop
<1>5. CASE CoopExitLoop(w)
  <2>1. pc[w] = "start" /\ Go(w, "done") /\ warp' = warp
    BY <1>5 DEF CoopExitLoop
  <2>. QED
    BY <1>2, <1>3, <2>1 DEF CoopControls, CoopGoes
<1>6. CASE CoopFirstBlock(w)
  <2>1. pc[w] = "start"
    BY <1>6 DEF CoopFirstBlock
  <2>. QED
    BY <1>1, <1>2, <1>4, <1>6, <2>1, CoopFirstBlockRegisters DEF CoopControls, CoopGoes
<1>7. CASE MultiplyAndCopy(w)
  <2>1. pc[w] \in CoopLoop
    BY <1>7 DEF MultiplyAndCopy, CoopLoop
  <2>. QED
    BY <1>1, <1>2, <1>4, <1>7, <2>1, MultiplyAndCopyRegisters DEF CoopControls, CoopGoes
<1>8. CASE CoopReleaseStage(w)
  <2>1. pc[w] \in CoopLoop
    BY <1>8 DEF CoopReleaseStage, CoopLoop
  <2>2. pc'[w] \in CoopLoop
    BY <1>1, <1>8, CoopReleaseRegisters DEF CoopLoop
  <2>. QED
    BY <1>1, <1>2, <1>8, <2>1, <2>2, CoopReleaseRegisters DEF CoopControls, CoopGoes
<1>9. CASE CoopNextStage(w)
  <2>1. pc[w] \in CoopLoop
    BY <1>9 DEF CoopNextStage, CoopLoop
  <2>. QED
    BY <1>1, <1>2, <1>4, <1>9, <2>1, CoopNextStageRegisters DEF CoopControls, CoopGoes
<1>10. CASE CoopLeaveMainLoop(w)
  <2>1. pc[w] = "last"
    BY <1>10 DEF CoopLeaveMainLoop
  <2>. QED
    BY <1>1, <1>2, <1>10, <2>1, CoopLeaveMainLoopRegisters DEF CoopControls, CoopGoes
<1>11. CASE CoopSyncBeforeWrite(w)
  BY <1>2, <1>11, CoopBarrier DEF CoopControls, CoopSliced
<1>12. CASE CoopWriteSlice(w)
  BY <1>2, <1>12, CoopBarrier DEF CoopControls, CoopSliced
<1>13. CASE CoopStoreSlice(w)
  <2>1. pc[w] = "store" /\ Go(w, "acquire") /\ warp' = warp
    BY <1>13 DEF CoopStoreSlice
  <2>. QED
    BY <1>2, <1>3, <2>1 DEF CoopControls, CoopSliced
<1>14. CASE CoopAcquireBuffer(w)
  <2>1. pc[w] = "acquire"
    BY <1>14 DEF CoopAcquireBuffer
  <2>. QED
    BY <1>1, <1>2, <1>14, <2>1, AcquireSliceRegisters DEF CoopControls, CoopSliced
<1>. QED
  BY <1>5, <1>6, <1>7, <1>8, <1>9, <1>10, <1>11, <1>12, <1>13, <1>14 DEF CoopWarp

\* All warps have passed as many barriers.
LEMMA CoopTogetherNext ==
  ASSUME CoopInv, CoopTogether, [CoopNext]_vars
  PROVE  CoopTogether'
<1>1. ASSUME NEW v \in Warps(launch), launch' = launch, pc'[v] = pc[v], warp'[v] = warp[v]
      PROVE  CoopPassed(v)' = CoopPassed(v)
  BY <1>1, CoopSamePassed DEF Half
<1>2. ASSUME NEW w \in Warps(launch), CoopWarp(w) PROVE CoopTogether'
  <2>1. CoopControls(w) /\ launch' = launch
    BY <1>2, CoopWarpControls
  <2>2. ASSUME CoopKept(w), CoopPassed(w)' = CoopPassed(w) PROVE CoopTogether'
    <3>1. \A v \in Warps(launch) : CoopPassed(v)' = CoopPassed(v)
      BY <1>1, <2>1, <2>2 DEF CoopKept
    <3>. QED
      BY <2>1, <3>1, CoopTogetherKept
  <2>3. CASE \/ CoopGoes(w, {"start"}, CoopLoop) \/ CoopGoes(w, {"start"}, {"done"})
             \/ CoopGoes(w, CoopLoop, CoopLoop)
             \/ CoopGoes(w, {"last"}, {"epilogue"}) /\ warp'[w].epi = 0
    <3>1. /\ CoopKept(w) /\ warp'[w].executed = warp[w].executed /\ pc[w] \notin Slicing
          /\ pc'[w] \notin Slicing \/ (pc'[w] = "epilogue" /\ warp'[w].epi = 0)
      BY <2>3 DEF CoopGoes, CoopLoop, Slicing
    <3>2. launch.epiTiles * warp[w].executed \in Nat
      BY CoopSliceNumbers
    <3>3. CoopBegun(w)' = CoopBegun(w)
      BY <2>1, <3>1, <3>2 DEF CoopBegun, Begun
    <3>4. Half(w) = 0 /\ Half(w)' = 0
      BY <3>1 DEF Half, Slicing
    <3>5. CoopPassed(w)' = CoopPassed(w)
      BY <3>3, <3>4 DEF CoopPassed, CoopBegun, Passed
    <3>. QED
      BY <2>2, <3>1, <3>5
  <2>4. ASSUME NEW at, \/ pc[w] = "epilogue" /\ at = "sync1"
                       \/ pc[w] = "write" /\ at = "sync2",
               CoopWaits(w, at)
        PROVE  CoopTogether'
    <3>1. pc \in [Warps(launch) -> CoopPlaces]
      BY DEF CoopInv, CoopShape
    <3>2. /\ pc'[w] = at /\ CoopKept(w)
          /\ warp'[w].executed = warp[w].executed /\ warp'[w].epi = warp[w].epi
      BY <2>4, <3>1 DEF CoopWaits, CoopKept, CoopKeeps
    <3>3. Half(w)' = Half(w)
      BY <2>4, <3>2 DEF Half
    <3>4. CoopPassed(w)' = CoopPassed(w)
      BY <2>1, <2>4, <3>2, <3>3, CoopSamePassed DEF Slicing
    <3>. QED
      BY <2>2, <3>2, <3>4
  <2>5. ASSUME NEW at, \/ pc[w] = "epilogue" /\ at = "sync1"
                       \/ pc[w] = "write" /\ at = "sync2",
               CoopOpens(w, at)
        PROVE  CoopTogether'
    BY <2>1, <2>5, CoopTogetherOpens
  <2>6. CASE CoopKept(w) /\ pc[w] = "store" /\ pc'[w] = "acquire" /\ warp'[w] = warp[w]
    <3>1. CoopPassed(w)' = CoopPassed(w)
      BY <2>1, <2>6, CoopSamePassed DEF Half, Slicing
    <3>. QED
      BY <2>2, <2>6, <3>1
  <2>7. CASE CoopKept(w) /\ pc[w] = "acquire" /\ SliceOver(w)
    <3>1. CoopPassed(w)' = 2 * CoopBegun(w) + 2 /\ Half(w) = 2
      BY <2>1, <2>7, CoopAfterSlice DEF Half
    <3>. QED
      BY <2>2, <2>7, <3>1 DEF CoopPassed, CoopBegun, Passed
  <2>. QED
    BY <2>1, <2>3, <2>4, <2>5, <2>6, <2>7 DEF CoopControls, CoopSliced
<1>3. CASE \/ UNCHANGED vars \/ CoopLoadStage \/ CoopLoaderTail
           \/ \E x \in inflight : Land(x)
           \/ \E w \in Warps(launch) : \E i \in DOMAIN stores[w] : ReadStore(w, i)
  <2>1. UNCHANGED <<launch, pc, warp>>
    BY <1>3 DEF vars, CoopLoadStage, LoadFrom, CoopLoaderTail, DrainLoader, Land, ReadStore
  <2>. QED
    BY <1>1, <2>1, CoopTogetherKept
<1>. QED
  BY <1>2, <1>3 DEF CoopNext

(***************************************************************************)
(* What the buffers hold and what the stores take from them.  Warp <<0, 0>>*)
(* alone stores: store i is of the i-th slice of the CTA, and the buffers  *)
(* are taken in turn through all tiles.                                    *)
(***************************************************************************)
CoopSliceOf(t, e) ==
    [i \in Warps(launch) |-> [tile |-> t, epi |-> e, acc |-> Sum(CoopTileAt(t))]]

CoopSlices == [t \in Nat |-> [e \in Nat |-> CoopSliceOf(t, e)]]

CoopPlan ==
    [w \in Warps(launch) |->
       [i \in Nat \ {0} |->
          [buf |-> i % launch.epiStages, tile |-> Linear((i - 1) \div launch.epiTiles),
           epi |-> (i - 1) % launch.epiTiles]]]

CoopStores ==
    \E lead, plan, slice :
       /\ lead = {<<0, 0>>} /\ plan = CoopPlan /\ slice = CoopSlices
       /\ Committed(lead, plan, slice) /\ OutputOf(slice)

CoopBuffers ==
    /\ DOMAIN sC = 0 .. launch.epiStages - 1
    /\ \A b \in DOMAIN sC : /\ sC[b] = [i \in DOMAIN sC[b] |-> sC[b][i]]
                            /\ DOMAIN sC[b] \subseteq Warps(launch)

CoopStands(w) == pc[w] \in {"store", "acquire"} => w = <<0, 0>>

\* The buffer of a warp follows from the slices it has begun.
CoopTurn(w) ==
    warp[w].buf = (IF pc[w] \in {"sync1", "write", "sync2", "store", "acquire"}
                   THEN CoopBegun(w) + 1 ELSE CoopBegun(w)) % launch.epiStages

CoopReady(w) ==
    /\ pc[w] = "sync2" =>
         w \in DOMAIN sC[warp[w].buf] /\ sC[warp[w].buf][w] = CoopPart(w)
    /\ pc[w] = "store" =>
         sC[warp[w].buf] = CoopSliceOf(Linear(warp[w].executed), warp[w].epi)

CoopLengths(w) ==
    w = <<0, 0>> => Len(stores[w]) = IF pc[w] = "acquire" THEN CoopBegun(w) + 1
                                     ELSE CoopBegun(w)

CoopWarpRight(w) == CoopStands(w) /\ CoopTurn(w) /\ CoopReady(w) /\ CoopLengths(w)

CoopEpilogueInv ==
    /\ CoopTogether
    /\ \A w \in Warps(launch) : CoopWarpRight(w)
    /\ CoopBuffers /\ StoreShape /\ CoopStores

\* What the launch says does not change.
LEMMA CoopSliceThen ==
  ASSUME launch' = launch
  PROVE  /\ Warps(launch)' = Warps(launch)
         /\ CoopPlan' = CoopPlan /\ CoopSlices' = CoopSlices
         /\ \A t, e : CoopSliceOf(t, e)' = CoopSliceOf(t, e)
<1>1. \A f : Sum(f)' = Sum(f)
  BY DEF Sum, Partial, Piece
<1>2. \A t : CoopTileAt(t)' = CoopTileAt(t)
  BY DEF CoopTileAt, CoopContent, Source, TileM, TileN
<1>3. \A t : Sum(CoopTileAt(t))' = Sum(CoopTileAt(t))
  BY <1>1, <1>2
<1>4. \A t, e : CoopSliceOf(t, e)' = CoopSliceOf(t, e)
  BY <1>3 DEF CoopSliceOf
<1>5. CoopSlices' = CoopSlices
  BY <1>4 DEF CoopSlices
<1>6. CoopPlan' = CoopPlan
  BY DEF CoopPlan, Linear
<1>. QED
  BY <1>4, <1>5, <1>6

\* No two stores are of the same slice.
LEMMA CoopDistinct ==
  ASSUME launch \in Launches("cooperative"), NEW lead, NEW plan,
         lead = {<<0, 0>>}, plan = CoopPlan, <<0, 0>> \in Warps(launch)
  PROVE  Distinct(lead, plan)
<1>. DEFINE m == launch.epiTiles
<1>1. m \in Nat /\ m > 0 /\ launch.cta \in Nat /\ launch.grid \in Nat /\ launch.grid > 0
  BY DEF Launches, Positive
<1>. SUFFICES ASSUME NEW v \in lead, NEW w \in lead, NEW i \in Nat \ {0}, NEW j \in Nat \ {0},
                     plan[v][i].tile = plan[w][j].tile, plan[v][i].epi = plan[w][j].epi
              PROVE  v = w /\ i = j
  BY DEF Distinct
<1>2. v = <<0, 0>> /\ w = <<0, 0>>
  OBVIOUS
<1>. DEFINE a == (i - 1) \div m  b == (j - 1) \div m
            x == (i - 1) % m  y == (j - 1) % m
<1>3. /\ a \in Nat /\ b \in Nat
      /\ i - 1 = m * a + x /\ j - 1 = m * b + y
  <2>1. i - 1 \in Nat /\ j - 1 \in Nat
    OBVIOUS
  <2>. HIDE DEF m
  <2>. QED
    BY <1>1, <2>1, Division
<1>4. Linear(a) = Linear(b) /\ x = y
  BY <1>2 DEF CoopPlan
<1>. HIDE DEF a, b, x, y
<1>5. a = b
  <2>1. launch.cta + launch.grid * a = launch.cta + launch.grid * b
    BY <1>4 DEF Linear
  <2>2. \A g \in Nat, c \in Nat : g > 0 /\ c + g * a = c + g * b => a = b
    BY <1>3
  <2>. QED
    BY <1>1, <2>1, <2>2
<1>6. i - 1 = j - 1
  BY <1>3, <1>4, <1>5
<1>. QED
  BY <1>2, <1>6

\* Nothing is written, committed or read.
LEMMA CoopStoresKept ==
  ASSUME CoopStores, CoopBuffers, StoreShape, UNCHANGED <<launch, sC, stores, out>>
  PROVE  CoopStores' /\ CoopBuffers' /\ StoreShape'
<1>1. PICK lead, plan, slice :
        /\ lead = {<<0, 0>>} /\ plan = CoopPlan /\ slice = CoopSlices
        /\ Committed(lead, plan, slice) /\ OutputOf(slice)
  BY DEF CoopStores
<1>2. Committed(lead, plan, slice)' /\ OutputOf(slice)'
  BY <1>1, StoresStill
<1>3. plan = CoopPlan' /\ slice = CoopSlices'
  BY <1>1, CoopSliceThen
<1>4. CoopStores'
  BY <1>1, <1>2, <1>3 DEF CoopStores
<1>5. CoopBuffers' /\ StoreShape'
  BY DEF CoopBuffers, StoreShape
<1>. QED
  BY <1>4, <1>5

\* A warp that does not move.
LEMMA CoopReadyStill ==
  ASSUME launch' = launch, sC' = sC, NEW v, CoopReady(v), pc'[v] = pc[v], warp'[v] = warp[v]
  PROVE  CoopReady(v)'
<1>1. \A t, e : CoopSliceOf(t, e)' = CoopSliceOf(t, e)
  BY CoopSliceThen
<1>2. CoopPart(v)' = CoopPart(v) /\ Linear(warp[v].executed)' = Linear(warp[v].executed)
  BY DEF CoopPart, Linear
<1>. QED
  BY <1>1, <1>2 DEF CoopReady

LEMMA CoopWarpStill ==
  ASSUME launch' = launch, NEW v, stores'[v] = stores[v], CoopWarpRight(v),
         pc'[v] = pc[v], warp'[v] = warp[v], CoopReady(v)'
  PROVE  CoopWarpRight(v)' /\ CoopPassed(v)' = CoopPassed(v)
<1>1. CoopBegun(v)' = CoopBegun(v) /\ CoopPassed(v)' = CoopPassed(v)
  BY CoopSamePassed DEF Half
<1>2. CoopStands(v)' /\ CoopTurn(v)' /\ CoopLengths(v)'
  BY <1>1 DEF CoopWarpRight, CoopStands, CoopTurn, CoopLengths
<1>. QED
  BY <1>1, <1>2 DEF CoopWarpRight

\* The main loop, and the steps of the loader and of the loads.
LEMMA CoopEpilogueStill ==
  ASSUME CoopInv, CoopEpilogueInv, UNCHANGED <<launch, sC, stores, out>>,
         \A v \in Warps(launch) :
            \/ pc'[v] = pc[v] /\ warp'[v] = warp[v]
            \/ /\ pc[v] \notin Slicing /\ warp'[v].executed = warp[v].executed
               /\ warp'[v].buf = warp[v].buf
               /\ \/ pc'[v] \notin Slicing
                  \/ pc'[v] = "epilogue" /\ warp'[v].epi = 0
  PROVE  CoopEpilogueInv'
<1>1. ASSUME NEW v \in Warps(launch)
      PROVE  CoopPassed(v)' = CoopPassed(v) /\ CoopWarpRight(v)'
  <2>1. CoopWarpRight(v)
    BY DEF CoopEpilogueInv
  <2>2. CASE pc'[v] = pc[v] /\ warp'[v] = warp[v]
    BY <2>1, <2>2, CoopWarpStill, CoopReadyStill DEF CoopWarpRight
  <2>3. CASE /\ pc[v] \notin Slicing /\ warp'[v].executed = warp[v].executed
             /\ warp'[v].buf = warp[v].buf
             /\ \/ pc'[v] \notin Slicing
                \/ pc'[v] = "epilogue" /\ warp'[v].epi = 0
    <3>1. CoopBegun(v)' = CoopBegun(v)
      <4>1. launch.epiTiles * warp[v].executed \in Nat
        BY CoopSliceNumbers
      <4>. QED
        BY <2>3, <4>1 DEF CoopBegun, Begun
    <3>2. Half(v) = 0 /\ Half(v)' = 0
      BY <2>3 DEF Half, Slicing
    <3>3. CoopStands(v)' /\ CoopReady(v)'
      BY <2>3 DEF CoopStands, CoopReady, Slicing
    <3>4. CoopTurn(v)' /\ CoopLengths(v)'
      BY <2>1, <2>3, <3>1 DEF CoopWarpRight, CoopTurn, CoopLengths, Slicing
    <3>. QED
      BY <3>1, <3>2, <3>3, <3>4 DEF CoopWarpRight, CoopPassed, CoopBegun, Passed
  <2>. QED
    BY <2>2, <2>3
<1>2. CoopTogether'
  BY <1>1, CoopTogetherKept DEF CoopEpilogueInv
<1>3. CoopStores' /\ CoopBuffers' /\ StoreShape'
  BY CoopStoresKept DEF CoopEpilogueInv
<1>. QED
  BY <1>1, <1>2, <1>3 DEF CoopEpilogueInv

\* A warp that comes to the first barrier, or goes on from it, has taken the next
\* buffer.
LEMMA CoopTakes ==
  ASSUME CoopInv, launch' = launch, stores' = stores, NEW w \in Warps(launch),
         NEW v \in Warps(launch), CoopWarpRight(v), CoopKeeps(v), CoopTurns(v, w, "sync1"),
         \/ v = w /\ pc[v] = "epilogue"
         \/ v # w /\ pc[v] = "sync1",
         pc'[v] \in {"sync1", "write"}
  PROVE  CoopWarpRight(v)'
<1>1. CoopBegun(v)' = CoopBegun(v)
  BY CoopSamePassed DEF CoopKeeps, Slicing
<1>2. CoopStands(v)' /\ CoopReady(v)'
  BY DEF CoopStands, CoopReady
<1>3. CoopLengths(v)'
  BY <1>1 DEF CoopWarpRight, CoopLengths
<1>4. CoopTurn(v)'
  <2>1. CASE v # w
    BY <1>1, <2>1 DEF CoopWarpRight, CoopTurn, CoopTurns
  <2>2. CASE v = w
    <3>1. /\ CoopBegun(v) \in Nat /\ launch.epiStages \in Nat /\ launch.epiStages > 0
      BY CoopSliceNumbers
    <3>2. warp[v].buf = CoopBegun(v) % launch.epiStages
      BY <2>2 DEF CoopWarpRight, CoopTurn
    <3>3. warp'[v].buf = (warp[v].buf + 1) % launch.epiStages
      BY <2>2 DEF CoopTurns
    <3>4. warp'[v].buf = (CoopBegun(v) + 1) % launch.epiStages
      BY <3>1, <3>2, <3>3, NextOnRing
    <3>. QED
      BY <1>1, <3>4 DEF CoopTurn
  <2>. QED
    BY <2>1, <2>2
<1>. QED
  BY <1>2, <1>3, <1>4 DEF CoopWarpRight

\* The barrier before the write.
LEMMA CoopEpilogueSync ==
  ASSUME CoopInv, CoopEpilogueInv, NEW w \in Warps(launch), CoopSyncBeforeWrite(w)
  PROVE  CoopEpilogueInv'
<1>1. UNCHANGED <<launch, sC, stores, out>> /\ pc[w] = "epilogue"
  BY DEF CoopSyncBeforeWrite, UnchangedButWarp
<1>2. CoopWaits(w, "sync1") \/ CoopOpens(w, "sync1")
  BY CoopBarrier DEF CoopEpilogueInv
<1>3. pc \in [Warps(launch) -> CoopPlaces]
  BY DEF CoopInv, CoopShape
<1>4. CoopStores' /\ CoopBuffers' /\ StoreShape'
  BY <1>1, CoopStoresKept DEF CoopEpilogueInv
<1>5. CASE CoopWaits(w, "sync1")
  <2>1. /\ pc'[w] = "sync1" /\ \A v \in Warps(launch) : v # w => pc'[v] = pc[v]
        /\ \A v \in Warps(launch) :
             (v # w => warp'[v] = warp[v]) /\ CoopKeeps(v) /\ CoopTurns(v, w, "sync1")
    BY <1>3, <1>5 DEF CoopWaits
  <2>2. ASSUME NEW v \in Warps(launch)
        PROVE  CoopPassed(v)' = CoopPassed(v) /\ CoopWarpRight(v)'
    <3>1. CoopWarpRight(v)
      BY DEF CoopEpilogueInv
    <3>2. CASE v = w
      <4>1. CoopWarpRight(v)'
        BY <1>1, <2>1, <3>1, <3>2, CoopTakes
      <4>2. Half(v)' = Half(v)
        BY <1>1, <2>1, <3>2 DEF Half
      <4>. QED
        BY <1>1, <2>1, <3>2, <4>1, <4>2, CoopSamePassed DEF CoopKeeps, Slicing
    <3>3. CASE v # w
      BY <1>1, <2>1, <3>1, <3>3, CoopWarpStill, CoopReadyStill DEF CoopWarpRight
    <3>. QED
      BY <3>2, <3>3
  <2>3. CoopTogether'
    BY <1>1, <2>2, CoopTogetherKept DEF CoopEpilogueInv
  <2>. QED
    BY <1>1, <1>4, <2>2, <2>3 DEF CoopEpilogueInv
<1>6. CASE CoopOpens(w, "sync1")
  <2>1. CoopTogether'
    BY <1>1, <1>6, CoopTogetherOpens DEF CoopEpilogueInv
  <2>2. ASSUME NEW v \in Warps(launch) PROVE CoopWarpRight(v)'
    <3>1. /\ pc'[v] = "write" /\ CoopKeeps(v) /\ CoopTurns(v, w, "sync1")
          /\ v # w => pc[v] = "sync1"
      BY <1>6 DEF CoopOpens, CoopGoesOn
    <3>. QED
      BY <1>1, <3>1, CoopTakes DEF CoopEpilogueInv
  <2>. QED
    BY <1>1, <1>4, <2>1, <2>2 DEF CoopEpilogueInv
<1>. QED
  BY <1>2, <1>5, <1>6

\* A warp that is through with a slice has its next buffer counted.
LEMMA CoopOver ==
  ASSUME CoopInv, launch' = launch, NEW v \in Warps(launch), stores'[v] = stores[v],
         CoopWarpRight(v), SliceOver(v), pc[v] \in {"write", "sync2", "acquire"},
         v = <<0, 0>> => pc[v] = "acquire"
  PROVE  CoopWarpRight(v)' /\ CoopPassed(v)' = 2 * CoopBegun(v) + 2
<1>1. /\ CoopPassed(v)' = 2 * CoopBegun(v) + 2 /\ CoopBegun(v)' = CoopBegun(v) + 1
      /\ pc'[v] \in {"start", "epilogue"}
  BY CoopAfterSlice
<1>2. CoopStands(v)' /\ CoopReady(v)'
  BY <1>1 DEF CoopStands, CoopReady
<1>3. CoopTurn(v)'
  <2>1. warp'[v].buf = warp[v].buf
    BY DEF SliceOver
  <2>. QED
    BY <1>1, <2>1 DEF CoopWarpRight, CoopTurn
<1>4. CoopLengths(v)'
  BY <1>1 DEF CoopWarpRight, CoopLengths
<1>. QED
  BY <1>1, <1>2, <1>3, <1>4 DEF CoopWarpRight

\* Warp <<0, 0>> goes on when few enough of its stores are unread.
LEMMA CoopEpilogueAcquire ==
  ASSUME CoopInv, CoopEpilogueInv, NEW w \in Warps(launch), CoopAcquireBuffer(w)
  PROVE  CoopEpilogueInv'
<1>1. UNCHANGED <<launch, sC, stores, out>> /\ pc[w] = "acquire"
  BY DEF CoopAcquireBuffer, UnchangedInLoop, UnchangedButWarp
<1>2. CoopKept(w) /\ SliceOver(w)
  BY AcquireSliceRegisters DEF CoopInv
<1>3. CoopWarpRight(w)
  BY DEF CoopEpilogueInv
<1>4. CoopWarpRight(w)' /\ CoopPassed(w)' = CoopPassed(w)
  <2>1. CoopWarpRight(w)' /\ CoopPassed(w)' = 2 * CoopBegun(w) + 2
    BY <1>1, <1>2, <1>3, CoopOver
  <2>2. Half(w) = 2
    BY <1>1 DEF Half
  <2>. QED
    BY <2>1, <2>2 DEF CoopPassed, CoopBegun, Passed
<1>5. ASSUME NEW v \in Warps(launch)
      PROVE  CoopPassed(v)' = CoopPassed(v) /\ CoopWarpRight(v)'
  <2>1. CASE v = w
    BY <1>4, <2>1
  <2>2. CASE v # w
    <3>1. pc'[v] = pc[v] /\ warp'[v] = warp[v] /\ CoopWarpRight(v)
      BY <1>2, <2>2 DEF CoopKept, CoopEpilogueInv
    <3>. QED
      BY <1>1, <3>1, CoopWarpStill, CoopReadyStill DEF CoopWarpRight
  <2>. QED
    BY <2>1, <2>2
<1>6. CoopTogether'
  BY <1>1, <1>5, CoopTogetherKept DEF CoopEpilogueInv
<1>7. CoopStores' /\ CoopBuffers' /\ StoreShape'
  BY <1>1, CoopStoresKept DEF CoopEpilogueInv
<1>. QED
  BY <1>1, <1>5, <1>6, <1>7 DEF CoopEpilogueInv

\* A store is committed of a slice that is whole.
LEMMA CoopEpilogueStore ==
  ASSUME CoopInv, CoopEpilogueInv, NEW w \in Warps(launch), CoopStoreSlice(w)
  PROVE  CoopEpilogueInv'
<1>. DEFINE m == launch.epiTiles  q == warp[w].executed  e == warp[w].epi
            t == Linear(warp[w].executed)
<1>0. PICK r : r = [buf |-> warp[w].buf, tile |-> t, epi |-> e, read |-> FALSE]
  OBVIOUS
<1>1. /\ UNCHANGED <<launch, warp, sC, out>> /\ pc[w] = "store"
      /\ stores' = [stores EXCEPT ![w] = Append(@, r)]
      /\ pc' = [pc EXCEPT ![w] = "acquire"]
  BY <1>0 DEF CoopStoreSlice, UnchangedButWarp, Go
<1>2. pc \in [Warps(launch) -> CoopPlaces] /\ launch \in Launches("cooperative")
  BY DEF CoopInv, CoopShape
<1>3. pc'[w] = "acquire" /\ \A v \in Warps(launch) : v # w => pc'[v] = pc[v]
  BY <1>1, <1>2
<1>4. CoopWarpRight(w) /\ w = <<0, 0>>
  BY <1>1 DEF CoopEpilogueInv, CoopWarpRight, CoopStands
<1>5. /\ m \in Nat /\ m > 0 /\ q \in Nat /\ e \in Nat /\ e < m /\ m * q \in Nat
      /\ warp[w].buf \in Nat /\ CoopBegun(w) \in Nat
  BY CoopSliceNumbers
<1>6. /\ CoopBegun(w) = m * q + e /\ Len(stores[w]) = CoopBegun(w)
      /\ warp[w].buf = (CoopBegun(w) + 1) % launch.epiStages
  BY <1>1, <1>4 DEF CoopWarpRight, CoopLengths, CoopTurn, CoopBegun, Begun, Slicing
<1>7. r \in StoreRecords /\ t \in Nat
  <2>1. launch.cta \in Nat /\ launch.grid \in Nat
    BY <1>2, CoopNumbers
  <2>2. t \in Nat
    BY <1>5, <2>1 DEF Linear
  <2>. HIDE DEF t
  <2>. QED
    BY <1>0, <1>5, <2>2 DEF StoreRecords
<1>8. PICK lead, plan, slice :
        /\ lead = {<<0, 0>>} /\ plan = CoopPlan /\ slice = CoopSlices
        /\ Committed(lead, plan, slice) /\ OutputOf(slice)
  BY DEF CoopEpilogueInv, CoopStores
<1>9. w \in lead
  BY <1>4, <1>8
<1>. DEFINE n == Len(stores[w]) + 1
<1>10. r.buf = plan[w][n].buf /\ r.tile = plan[w][n].tile /\ r.epi = plan[w][n].epi
  <2>1. n - 1 = m * q + e /\ n \in Nat \ {0} /\ n = CoopBegun(w) + 1
    BY <1>5, <1>6
  <2>2. (n - 1) \div m = q /\ (n - 1) % m = e
    <3>1. (m * q + e) \div m = q /\ (m * q + e) % m = e
      <4>. HIDE DEF m, q, e
      <4>. QED
        BY <1>5, Quotient
    <3>. QED
      BY <2>1, <3>1
  <2>. HIDE DEF n
  <2>3. plan[w][n] = [buf |-> n % launch.epiStages,
                      tile |-> Linear((n - 1) \div m), epi |-> (n - 1) % m]
    BY <1>8, <2>1 DEF CoopPlan
  <2>. QED
    BY <1>0, <1>6, <2>1, <2>2, <2>3
<1>11. sC[r.buf] = slice[r.tile][r.epi]
  <2>1. sC[warp[w].buf] = CoopSliceOf(t, e)
    BY <1>1, <1>4 DEF CoopWarpRight, CoopReady
  <2>2. slice[t][e] = CoopSliceOf(t, e)
    BY <1>5, <1>7, <1>8 DEF CoopSlices
  <2>. QED
    BY <1>0, <2>1, <2>2
<1>12. StoreShape
  BY DEF CoopEpilogueInv
<1>13. /\ StoreShape' /\ Committed(lead, plan, slice)' /\ OutputOf(slice)'
       /\ Len(stores'[w]) = n
  <2>1. r \in StoreRecords /\ UNCHANGED <<launch, sC, out>>
    BY <1>1, <1>7
  <2>2. Committed(lead, plan, slice) /\ OutputOf(slice)
    BY <1>8
  <2>3. Commits(w, r)
    BY <1>1 DEF Commits
  <2>. QED
    BY <1>9, <1>10, <1>11, <1>12, <2>1, <2>2, <2>3, StoresCommit
<1>14. CoopStores'
  <2>1. plan = CoopPlan' /\ slice = CoopSlices'
    BY <1>1, <1>8, CoopSliceThen
  <2>. QED
    BY <1>8, <1>13, <2>1 DEF CoopStores
<1>15. CoopBegun(w)' = CoopBegun(w) /\ CoopPassed(w)' = CoopPassed(w)
  <2>1. Half(w)' = Half(w)
    BY <1>1, <1>3 DEF Half
  <2>. QED
    BY <1>1, <1>3, <2>1, CoopSamePassed DEF Slicing
<1>16. CoopWarpRight(w)'
  <2>1. CoopStands(w)' /\ CoopReady(w)'
    BY <1>3, <1>4 DEF CoopStands, CoopReady
  <2>2. CoopTurn(w)'
    BY <1>1, <1>3, <1>6, <1>15 DEF CoopTurn
  <2>3. CoopLengths(w)'
    BY <1>3, <1>6, <1>13, <1>15 DEF CoopLengths
  <2>. QED
    BY <2>1, <2>2, <2>3 DEF CoopWarpRight
<1>17. ASSUME NEW v \in Warps(launch)
       PROVE  CoopPassed(v)' = CoopPassed(v) /\ CoopWarpRight(v)'
  <2>1. CASE v = w
    BY <1>15, <1>16, <2>1
  <2>2. CASE v # w
    <3>1. pc'[v] = pc[v] /\ warp'[v] = warp[v] /\ stores'[v] = stores[v]
      BY <1>1, <1>3, <1>12, <2>2 DEF StoreShape
    <3>2. CoopWarpRight(v)
      BY DEF CoopEpilogueInv
    <3>. QED
      BY <1>1, <3>1, <3>2, CoopWarpStill, CoopReadyStill DEF CoopWarpRight
  <2>. QED
    BY <2>1, <2>2
<1>18. CoopTogether'
  BY <1>1, <1>17, CoopTogetherKept DEF CoopEpilogueInv
<1>19. CoopBuffers'
  BY <1>1 DEF CoopEpilogueInv, CoopBuffers
<1>. QED
  BY <1>1, <1>13, <1>14, <1>17, <1>18, <1>19 DEF CoopEpilogueInv

\* A store is read while its buffer is still its own.
LEMMA CoopEpilogueRead ==
  ASSUME CoopInv, CoopEpilogueInv, NEW w \in Warps(launch), NEW i \in DOMAIN stores[w],
         ReadStore(w, i)
  PROVE  CoopEpilogueInv'
<1>1. UNCHANGED <<launch, pc, warp, sC>>
  BY DEF ReadStore
<1>2. PICK lead, plan, slice :
        /\ lead = {<<0, 0>>} /\ plan = CoopPlan /\ slice = CoopSlices
        /\ Committed(lead, plan, slice) /\ OutputOf(slice)
  BY DEF CoopEpilogueInv, CoopStores
<1>3. Distinct(lead, plan)
  <2>1. launch \in Launches("cooperative")
    BY DEF CoopInv, CoopShape
  <2>2. <<0, 0>> \in Warps(launch)
    BY <2>1, CoopNumbers DEF Warps, Groups
  <2>. QED
    BY <1>2, <2>1, <2>2, CoopDistinct
<1>4. StoreShape' /\ Committed(lead, plan, slice)' /\ OutputOf(slice)' /\ ReadsKept
  BY <1>2, <1>3, StoresRead DEF CoopEpilogueInv
<1>5. CoopStores'
  <2>1. plan = CoopPlan' /\ slice = CoopSlices'
    BY <1>1, <1>2, CoopSliceThen
  <2>. QED
    BY <1>2, <1>4, <2>1 DEF CoopStores
<1>6. ASSUME NEW v \in Warps(launch)
      PROVE  CoopPassed(v)' = CoopPassed(v) /\ CoopWarpRight(v)'
  <2>1. CoopWarpRight(v)
    BY DEF CoopEpilogueInv
  <2>2. CoopReady(v)'
    BY <1>1, <2>1, CoopReadyStill DEF CoopWarpRight
  <2>3. CoopBegun(v)' = CoopBegun(v) /\ CoopPassed(v)' = CoopPassed(v)
    BY <1>1, CoopSamePassed DEF Half
  <2>4. Len(stores'[v]) = Len(stores[v])
    BY <1>4 DEF ReadsKept
  <2>5. CoopStands(v)' /\ CoopTurn(v)' /\ CoopLengths(v)'
    BY <1>1, <2>1, <2>3, <2>4 DEF CoopWarpRight, CoopStands, CoopTurn, CoopLengths
  <2>. QED
    BY <2>2, <2>3, <2>5 DEF CoopWarpRight
<1>7. CoopTogether'
  BY <1>1, <1>6, CoopTogetherKept DEF CoopEpilogueInv
<1>8. CoopBuffers'
  BY <1>1 DEF CoopEpilogueInv, CoopBuffers
<1>. QED
  BY <1>1, <1>4, <1>5, <1>6, <1>7, <1>8 DEF CoopEpilogueInv

\* A warp at the write of a slice: all warps are between the barriers of it.
LEMMA CoopWriters ==
  ASSUME CoopInv, CoopEpilogueInv, NEW w \in Warps(launch), pc[w] = "write",
         NEW v \in Warps(launch)
  PROVE  /\ pc[v] \in {"write", "sync2"} /\ CoopBegun(v) = CoopBegun(w)
         /\ warp[v].executed = warp[w].executed /\ warp[v].epi = warp[w].epi
         /\ warp[v].buf = warp[w].buf
         /\ warp[v].buf = (CoopBegun(w) + 1) % launch.epiStages
<1>1. Passed(warp[v].executed, v) = Passed(warp[w].executed, w)
  BY DEF CoopEpilogueInv, CoopTogether, CoopPassed
<1>2. /\ warp[v].epi \in 0 .. launch.epiTiles - 1 /\ warp[w].epi \in 0 .. launch.epiTiles - 1
      /\ warp[v].epi \in Nat /\ warp[w].epi \in Nat
      /\ launch.epiTiles \in Nat /\ launch.epiTiles > 0
  BY CoopTypes, CoopSliceNumbers
<1>3. PICK p \in Nat, q \in Nat : p = warp[v].executed /\ q = warp[w].executed
  BY CoopSliceNumbers
<1>4. Passed(p, v) = Passed(q, w)
  BY <1>1, <1>3
<1>5. pc[v] \in {"write", "sync2"}
  BY <1>2, <1>4, BetweenBarriers
<1>6. p = q /\ warp[v].epi = warp[w].epi
  <2>1. /\ pc[v] \in {"epilogue", "sync1", "write", "sync2"}
        /\ pc[w] \in {"epilogue", "sync1", "write", "sync2"}
    BY <1>5
  <2>. QED
    BY <1>2, <1>4, <2>1, SamePoint
<1>7. CoopBegun(v) = CoopBegun(w)
  BY <1>3, <1>5, <1>6 DEF CoopBegun, Begun, Slicing
<1>8. CoopTurn(v) /\ CoopTurn(w)
  BY DEF CoopEpilogueInv, CoopWarpRight
<1>9. warp[v].buf = warp[w].buf /\ warp[v].buf = (CoopBegun(w) + 1) % launch.epiStages
  BY <1>5, <1>7, <1>8 DEF CoopTurn
<1>. QED
  BY <1>3, <1>5, <1>6, <1>7, <1>9

\* No store still has to read the buffer a warp writes, stores of the tile before
\* included.
LEMMA CoopBufferFree ==
  ASSUME CoopInv, CoopEpilogueInv, NEW w \in Warps(launch), pc[w] = "write",
         NEW v \in Warps(launch), NEW i \in DOMAIN stores[v], ~stores[v][i].read
  PROVE  stores[v][i].buf # warp[w].buf /\ stores[v][i].buf \in DOMAIN sC
<1>. DEFINE S == launch.epiStages  x == CoopBegun(w)
<1>1. CoopDrained /\ stores[v] \in Seq(StoreRecords)
  BY DEF CoopInv, CoopEpilogueInv, StoreShape
<1>2. i \in Nat /\ i > 0 /\ i <= Len(stores[v]) /\ Len(stores[v]) \in Nat
  BY <1>1
<1>3. PICK lead, plan, slice :
        /\ lead = {<<0, 0>>} /\ plan = CoopPlan /\ Committed(lead, plan, slice)
  BY DEF CoopEpilogueInv, CoopStores
<1>4. v = <<0, 0>>
  BY <1>1, <1>2, <1>3 DEF Committed
<1>5. /\ pc[v] \in {"write", "sync2"} /\ CoopBegun(v) = x /\ x \in Nat
      /\ warp[w].buf = (x + 1) % S
  BY CoopWriters, CoopSliceNumbers
<1>6. Len(stores[v]) = x
  BY <1>4, <1>5 DEF CoopEpilogueInv, CoopWarpRight, CoopLengths
<1>7. ~(i <= Len(stores[v]) - (S - 1))
  BY <1>1, <1>5 DEF CoopDrained, AtMostUnread
<1>8. S \in Nat /\ S > 0
  BY CoopSliceNumbers
<1>9. stores[v][i].buf = i % S
  <2>1. stores[v][i].buf = plan[v][i].buf
    BY <1>3 DEF Committed
  <2>2. plan[v][i].buf = i % S
    BY <1>2, <1>3 DEF CoopPlan
  <2>. QED
    BY <2>1, <2>2
<1>. HIDE DEF S, x
<1>10. i < x + 1 /\ x + 1 < i + S
  BY <1>2, <1>5, <1>6, <1>7, <1>8
<1>11. i % S # (x + 1) % S
  <2>1. PICK y \in Nat : y = x + 1
    BY <1>5
  <2>2. i % S = y % S => i + S <= y
    BY <1>2, <1>8, <1>10, <2>1, SamePlace
  <2>. QED
    BY <1>2, <1>8, <1>10, <2>1, <2>2
<1>12. i % S \in 0 .. S - 1
  BY <1>2, <1>8, Division
<1>13. DOMAIN sC = 0 .. S - 1
  BY DEF CoopEpilogueInv, CoopBuffers, S
<1>. QED
  BY <1>5, <1>9, <1>11, <1>12, <1>13

\* What the buffer of the slice holds after a warp has written its part.
CoopWritten(w) ==
    [v \in DOMAIN sC[warp[w].buf] \cup {w} |->
       IF v = w THEN CoopPart(w) ELSE sC[warp[w].buf][v]]

\* When all warps have written, the buffer holds the slice.
LEMMA CoopSliceWhole ==
  ASSUME CoopInv, CoopSums, CoopEpilogueInv, NEW w \in Warps(launch), pc[w] = "write",
         CoopOpens(w, "sync2")
  PROVE  CoopWritten(w) = CoopSliceOf(Linear(warp[w].executed), warp[w].epi)
<1>. DEFINE t == Linear(warp[w].executed)  e == warp[w].epi  b == warp[w].buf
<1>1. b \in DOMAIN sC /\ DOMAIN sC[b] \subseteq Warps(launch)
  <2>1. b \in 0 .. launch.epiStages - 1
    BY DEF CoopInv, CoopAllInPlace, CoopInPlace
  <2>. QED
    BY <2>1 DEF CoopEpilogueInv, CoopBuffers
<1>2. ASSUME NEW u \in Warps(launch)
      PROVE  /\ u \in DOMAIN sC[b] \cup {w}
             /\ (IF u = w THEN CoopPart(w) ELSE sC[b][u]) =
                   [tile |-> t, epi |-> e, acc |-> Sum(CoopTileAt(t))]
  <2>1. /\ warp[u].executed = warp[w].executed /\ warp[u].epi = warp[w].epi
        /\ u # w => pc[u] = "sync2"
    BY DEF CoopOpens
  <2>2. warp[u].buf = b
    BY CoopWriters
  <2>3. CoopPart(u) = [tile |-> t, epi |-> e, acc |-> Sum(CoopTileAt(t))]
    <3>1. pc[u] \in Slicing
      BY <2>1 DEF Slicing
    <3>2. warp[u].acc = Sum(CoopTileAt(Linear(warp[u].executed)))
      BY <3>1 DEF CoopSums, Summed
    <3>. QED
      BY <2>1, <3>2 DEF CoopPart
  <2>4. u # w => u \in DOMAIN sC[b] /\ sC[b][u] = CoopPart(u)
    BY <2>1, <2>2 DEF CoopEpilogueInv, CoopWarpRight, CoopReady
  <2>. QED
    BY <2>3, <2>4
<1>3. DOMAIN sC[b] \cup {w} = Warps(launch)
  BY <1>1, <1>2
<1>. QED
  BY <1>2, <1>3 DEF CoopWritten, CoopSliceOf

LEMMA CoopEpilogueWrite ==
  ASSUME CoopInv, CoopSums, CoopEpilogueInv, NEW w \in Warps(launch), CoopWriteSlice(w)
  PROVE  CoopEpilogueInv'
<1>0. PICK b, x : b = warp[w].buf /\ x = CoopWritten(w)
  OBVIOUS
<1>1. /\ UNCHANGED <<launch, stores, out>> /\ pc[w] = "write"
      /\ sC' = [sC EXCEPT ![b] = x]
  BY <1>0 DEF CoopWriteSlice, UnchangedButWarp, CoopWritten
<1>2. CoopWaits(w, "sync2") \/ CoopOpens(w, "sync2")
  BY CoopBarrier DEF CoopEpilogueInv
<1>3. pc \in [Warps(launch) -> CoopPlaces]
  BY DEF CoopInv, CoopShape
<1>4. DOMAIN sC = 0 .. launch.epiStages - 1 /\ b \in DOMAIN sC
  BY <1>0 DEF CoopInv, CoopAllInPlace, CoopInPlace, CoopEpilogueInv, CoopBuffers
<1>5. /\ DOMAIN sC' = DOMAIN sC /\ sC'[b] = x
      /\ \A c \in DOMAIN sC : c # b => sC'[c] = sC[c]
  BY <1>1, <1>4
<1>6. /\ x = [i \in DOMAIN x |-> x[i]] /\ DOMAIN x = DOMAIN sC[b] \cup {w}
      /\ x[w] = CoopPart(w)
      /\ \A v \in DOMAIN sC[b] : v # w => x[v] = sC[b][v]
  BY <1>0 DEF CoopWritten
<1>7. CoopBuffers'
  <2>1. DOMAIN x \subseteq Warps(launch)
    BY <1>4, <1>6 DEF CoopEpilogueInv, CoopBuffers
  <2>. QED
    BY <1>1, <1>4, <1>5, <1>6, <2>1 DEF CoopEpilogueInv, CoopBuffers
<1>8. CoopStores' /\ StoreShape'
  <2>1. PICK lead, plan, slice :
          /\ lead = {<<0, 0>>} /\ plan = CoopPlan /\ slice = CoopSlices
          /\ Committed(lead, plan, slice) /\ OutputOf(slice)
    BY DEF CoopEpilogueInv, CoopStores
  <2>2. \A v \in Warps(launch) : \A i \in DOMAIN stores[v] :
          ~stores[v][i].read => stores[v][i].buf # b /\ stores[v][i].buf \in DOMAIN sC
    BY <1>0, <1>1, CoopBufferFree
  <2>3. Overwrites(b, x) /\ UNCHANGED <<launch, stores, out>>
    BY <1>1 DEF Overwrites
  <2>4. Committed(lead, plan, slice)' /\ OutputOf(slice)'
    BY <2>1, <2>2, <2>3, StoresWrite
  <2>5. plan = CoopPlan' /\ slice = CoopSlices'
    BY <1>1, <2>1, CoopSliceThen
  <2>6. StoreShape'
    BY <1>1 DEF CoopEpilogueInv, StoreShape
  <2>. QED
    BY <2>1, <2>4, <2>5, <2>6 DEF CoopStores
<1>9. \A v \in Warps(launch) :
        /\ pc[v] \in {"write", "sync2"} /\ warp[v].executed = warp[w].executed
        /\ warp[v].epi = warp[w].epi /\ warp[v].buf = b /\ CoopWarpRight(v)
  BY <1>0, <1>1, CoopWriters DEF CoopEpilogueInv
<1>10. CASE CoopWaits(w, "sync2")
  <2>1. /\ pc'[w] = "sync2" /\ \A v \in Warps(launch) : v # w => pc'[v] = pc[v]
        /\ \A v \in Warps(launch) :
             (v # w => warp'[v] = warp[v]) /\ CoopKeeps(v) /\ warp'[v].buf = warp[v].buf
    BY <1>3, <1>10 DEF CoopWaits, CoopTurns
  <2>2. ASSUME NEW v \in Warps(launch)
        PROVE  CoopPassed(v)' = CoopPassed(v) /\ CoopWarpRight(v)'
    <3>1. CoopPart(v)' = CoopPart(v)
      BY <1>1, <2>1 DEF CoopPart, CoopKeeps, Linear
    <3>2. CoopReady(v)'
      <4>1. CASE v = w
        BY <1>5, <1>6, <1>9, <2>1, <3>1, <4>1 DEF CoopReady
      <4>2. CASE v # w
        <5>1. pc[v] = "sync2" => v \in DOMAIN sC[b] /\ sC[b][v] = CoopPart(v)
          BY <1>9 DEF CoopWarpRight, CoopReady
        <5>2. pc[v] = "sync2" => v \in DOMAIN x /\ x[v] = CoopPart(v)
          BY <1>6, <4>2, <5>1
        <5>3. pc'[v] = pc[v] /\ pc[v] # "store" /\ warp'[v].buf = b
          BY <1>9, <2>1, <4>2
        <5>. QED
          BY <1>5, <3>1, <5>2, <5>3 DEF CoopReady
      <4>. QED
        BY <4>1, <4>2
    <3>3. CASE v = w
      <4>1. Half(w)' = Half(w)
        BY <1>1, <2>1 DEF Half
      <4>2. CoopBegun(w)' = CoopBegun(w) /\ CoopPassed(w)' = CoopPassed(w)
        BY <1>1, <2>1, <4>1, CoopSamePassed DEF CoopKeeps, Slicing
      <4>3. CoopStands(w)' /\ CoopTurn(w)' /\ CoopLengths(w)'
        BY <1>1, <1>9, <2>1, <4>2 DEF CoopWarpRight, CoopStands, CoopTurn, CoopLengths
      <4>. QED
        BY <3>2, <3>3, <4>2, <4>3 DEF CoopWarpRight
    <3>4. CASE v # w
      BY <1>1, <1>9, <2>1, <3>2, <3>4, CoopWarpStill
    <3>. QED
      BY <3>3, <3>4
  <2>3. CoopTogether'
    BY <1>1, <2>2, CoopTogetherKept DEF CoopEpilogueInv
  <2>. QED
    BY <1>1, <1>7, <1>8, <2>2, <2>3 DEF CoopEpilogueInv
<1>11. CASE CoopOpens(w, "sync2")
  <2>1. CoopTogether'
    BY <1>1, <1>11, CoopTogetherOpens DEF CoopEpilogueInv
  <2>2. ASSUME NEW v \in Warps(launch) PROVE CoopWarpRight(v)'
    <3>1. CoopGoesOn(v, "sync2") /\ warp'[v].buf = warp[v].buf
      BY <1>11 DEF CoopOpens, CoopTurns
    <3>2. CASE v = <<0, 0>> /\ pc'[v] = "store" /\ CoopKeeps(v)
      <4>1. CoopReady(v)'
        <5>1. PICK t, e : t = Linear(warp[w].executed) /\ e = warp[w].epi
          OBVIOUS
        <5>2. x = CoopSliceOf(t, e) /\ CoopSliceOf(t, e)' = CoopSliceOf(t, e)
          BY <1>0, <1>1, <1>11, <5>1, CoopSliceWhole, CoopSliceThen
        <5>3. Linear(warp[v].executed)' = t /\ warp'[v].epi = e
          BY <1>1, <1>9, <3>2, <5>1 DEF CoopKeeps, Linear
        <5>4. CoopSliceOf(Linear(warp[v].executed), warp[v].epi)' = x
          BY <5>2, <5>3 DEF CoopSliceOf
        <5>5. warp'[v].buf = b /\ pc'[v] # "sync2"
          BY <1>9, <3>1, <3>2
        <5>. QED
          BY <1>5, <3>2, <5>4, <5>5 DEF CoopReady
      <4>2. CoopBegun(v)' = CoopBegun(v)
        BY <1>1, <1>9, <3>2, CoopSamePassed DEF CoopKeeps, Slicing
      <4>3. CoopStands(v)' /\ CoopTurn(v)' /\ CoopLengths(v)'
        BY <1>1, <1>9, <3>1, <3>2, <4>2 DEF CoopWarpRight, CoopStands, CoopTurn, CoopLengths
      <4>. QED
        BY <4>1, <4>3 DEF CoopWarpRight
    <3>3. CASE v # <<0, 0>> /\ SliceOver(v)
      BY <1>1, <1>9, <3>3, CoopOver
    <3>. QED
      BY <3>1, <3>2, <3>3 DEF CoopGoesOn
  <2>. QED
    BY <1>1, <1>7, <1>8, <2>1, <2>2 DEF CoopEpilogueInv
<1>. QED
  BY <1>2, <1>10, <1>11

\* Every step of the kernel keeps what the epilogue stores right.
LEMMA CoopEpilogueNext ==
  ASSUME CoopInv, CoopSums, CoopEpilogueInv, [CoopNext]_vars
  PROVE  CoopEpilogueInv'
<1>1. pc \in [Warps(launch) -> CoopPlaces] /\ CoopShape
  BY DEF CoopInv, CoopShape
<1>2. ASSUME NEW w \in Warps(launch), UNCHANGED <<launch, sC, stores, out>>, CoopKept(w),
             pc[w] \notin Slicing, warp'[w].executed = warp[w].executed,
             warp'[w].buf = warp[w].buf,
             \/ pc'[w] \notin Slicing
             \/ pc'[w] = "epilogue" /\ warp'[w].epi = 0
      PROVE  CoopEpilogueInv'
  <2>1. \A v \in Warps(launch) :
            \/ pc'[v] = pc[v] /\ warp'[v] = warp[v]
            \/ /\ pc[v] \notin Slicing /\ warp'[v].executed = warp[v].executed
               /\ warp'[v].buf = warp[v].buf
               /\ \/ pc'[v] \notin Slicing
                  \/ pc'[v] = "epilogue" /\ warp'[v].epi = 0
    BY <1>2 DEF CoopKept
  <2>. QED
    BY <1>2, <2>1, CoopEpilogueStill
<1>3. ASSUME NEW w \in Warps(launch), CoopWarp(w) PROVE CoopEpilogueInv'
  <2>1. CASE CoopExitLoop(w)
    <3>1. /\ UNCHANGED <<launch, sC, stores, out, warp>>
          /\ pc' = [pc EXCEPT ![w] = "done"] /\ pc[w] = "start"
      BY <2>1 DEF CoopExitLoop, Go, UnchangedInLoop, UnchangedButWarp
    <3>2. CoopKept(w) /\ pc'[w] = "done"
      BY <1>1, <3>1 DEF CoopKept
    <3>. QED
      BY <1>2, <3>1, <3>2 DEF Slicing
  <2>2. CASE CoopFirstBlock(w) \/ CoopNextStage(w)
    <3>1. UNCHANGED <<launch, sC, stores, out>> /\ pc[w] \in {"start", "next"}
      BY <2>2 DEF CoopFirstBlock, CoopNextStage, UnchangedInLoop, UnchangedButWarp
    <3>2. AtBlock(0) \notin Slicing
      BY DEF AtBlock, Slicing
    <3>. QED
      BY <1>1, <1>2, <2>2, <3>1, <3>2, CoopFirstBlockRegisters, CoopNextStageRegisters
         DEF Slicing
  <2>3. CASE MultiplyAndCopy(w)
    <3>1. UNCHANGED <<launch, sC, stores, out>> /\ pc[w] = "block"
      BY <2>3 DEF MultiplyAndCopy, UnchangedInLoop, UnchangedButWarp
    <3>2. AtBlock(warp[w].blk + 1) \notin Slicing
      BY DEF AtBlock, Slicing
    <3>. QED
      BY <1>1, <1>2, <2>3, <3>1, <3>2, MultiplyAndCopyRegisters DEF Slicing
  <2>4. CASE CoopReleaseStage(w)
    <3>1. UNCHANGED <<launch, sC, stores, out>> /\ pc[w] = "release"
      BY <2>4 DEF CoopReleaseStage, UnchangedInLoop, UnchangedButWarp
    <3>. QED
      BY <1>1, <1>2, <2>4, <3>1, CoopReleaseRegisters DEF Slicing
  <2>5. CASE CoopLeaveMainLoop(w)
    <3>1. UNCHANGED <<launch, sC, stores, out>> /\ pc[w] = "last"
      BY <2>5 DEF CoopLeaveMainLoop, UnchangedInLoop, UnchangedButWarp
    <3>. QED
      BY <1>1, <1>2, <2>5, <3>1, CoopLeaveMainLoopRegisters DEF Slicing
  <2>. QED
    BY <1>3, <2>1, <2>2, <2>3, <2>4, <2>5, CoopEpilogueSync, CoopEpilogueWrite,
       CoopEpilogueStore, CoopEpilogueAcquire DEF CoopWarp
<1>4. ASSUME NEW w \in Warps(launch), NEW i \in DOMAIN stores[w], ReadStore(w, i)
      PROVE  CoopEpilogueInv'
  BY <1>4, CoopEpilogueRead
<1>5. CASE UNCHANGED vars \/ CoopLoadStage \/ CoopLoaderTail \/ \E x \in inflight : Land(x)
  <2>1. UNCHANGED <<launch, pc, warp, sC, stores, out>>
    BY <1>5 DEF vars, CoopLoadStage, LoadFrom, CoopLoaderTail, DrainLoader, Land
  <2>. QED
    BY <2>1, CoopEpilogueStill
<1>. QED
  BY <1>3, <1>4, <1>5 DEF CoopNext

\* The epilogue before the first tile.
LEMMA CoopEpilogueInit ==
  ASSUME CoopInit
  PROVE  CoopSums /\ CoopEpilogueInv
<1>1. /\ launch \in Launches("cooperative") /\ pc = [w \in Warps(launch) |-> "start"]
      /\ warp = [w \in Warps(launch) |-> FreshCoopWarp]
      /\ stores = [w \in Warps(launch) |-> <<>>]
      /\ sC = [b \in 0 .. launch.epiStages - 1 |-> <<>>]
      /\ out = [t \in 0 .. launch.tiles - 1 |-> [e \in 0 .. launch.epiTiles - 1 |-> <<>>]]
  BY DEF CoopInit, FreshCoopWarps, FreshMachine, FreshStores, FreshBuffers, FreshOut
<1>2. CoopSums
  BY <1>1 DEF CoopSums, Summed, Slicing
<1>3. ASSUME NEW w \in Warps(launch)
      PROVE  CoopPassed(w) = 0 /\ CoopBegun(w) = 0 /\ warp[w].buf = 0
  <2>1. warp[w].executed = 0 /\ warp[w].buf = 0 /\ pc[w] = "start"
    BY <1>1 DEF FreshCoopWarp
  <2>2. launch.epiTiles * 0 = 0
    BY <1>1, CoopNumbers
  <2>. QED
    BY <2>1, <2>2 DEF CoopPassed, CoopBegun, Passed, Begun, Half, Slicing
<1>4. CoopTogether
  BY <1>3 DEF CoopTogether
<1>5. \A w \in Warps(launch) : CoopStands(w) /\ CoopReady(w) /\ CoopLengths(w)
  BY <1>1, <1>3 DEF CoopStands, CoopReady, CoopLengths
<1>6. \A w \in Warps(launch) : CoopTurn(w)
  <2>1. 0 % launch.epiStages = 0
    BY <1>1, CoopNumbers, SmallQuotient
  <2>. QED
    BY <1>1, <1>3, <2>1 DEF CoopTurn
<1>7. CoopBuffers /\ StoreShape
  BY <1>1 DEF CoopBuffers, StoreShape
<1>8. CoopStores
  <2>1. PICK lead, plan, slice : lead = {<<0, 0>>} /\ plan = CoopPlan /\ slice = CoopSlices
    OBVIOUS
  <2>2. Committed(lead, plan, slice)
    BY <1>1 DEF Committed
  <2>3. OutputOf(slice)
    BY <1>1 DEF OutputOf
  <2>. QED
    BY <2>1, <2>2, <2>3 DEF CoopStores
<1>. QED
  BY <1>2, <1>4, <1>5, <1>6, <1>7, <1>8 DEF CoopEpilogueInv, CoopWarpRight

\* What has been stored of a slice is nothing or the slice.
LEMMA CoopOutput ==
  ASSUME CoopEpilogueInv, NEW t \in DOMAIN out, t \in Nat, NEW e \in DOMAIN out[t], e \in Nat
  PROVE  out[t][e] \in {<<>>, <<CoopSliceOf(t, e)>>}
<1>1. PICK slice : slice = CoopSlices /\ OutputOf(slice)
  BY DEF CoopEpilogueInv, CoopStores
<1>2. slice[t][e] = CoopSliceOf(t, e)
  BY <1>1 DEF CoopSlices
<1>. QED
  BY <1>1, <1>2 DEF OutputOf
=============================================================================
