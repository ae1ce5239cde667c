------------------------------- MODULE GemmRun -------------------------------
(***************************************************************************)
(* One run of the block-scaled GEMM, from the command line or a direct     *)
(* call to run_bs to the last store of one CTA: the host's checks, the     *)
(* compilation that fixes the stages, the execution whose output run_bs    *)
(* returns, and the kernel of the schedule that was asked for.             *)
(***************************************************************************)
EXTENDS PingpongGemm, CooperativeGemm, GemmHost

CONSTANT Problems   \* the calls that are looked at

\* A call the code can get: sizes are positive, an epilogue tile is within the
\* output tile, argparse lets one of its choices through.  Nothing in the code
\* refuses a direct call whose tile leaves no room for a stage, a map given to
\* the cooperative kernel, which has none, or an N that ends within a tile of the
\* identity map: those calls are left out.
WellFormed(p) ==
    /\ p.schedule \in {"pingpong", "cooperative"}
    /\ p.m \in Positive /\ p.n \in Positive /\ p.k \in Positive
    /\ p.ctas \in Positive /\ p.warps \in Positive /\ p.cta \in Nat
    /\ p.a \in {"fp4"} \cup Fp8 /\ p.b \in {"fp4"} \cup Fp8
    /\ p.c \in {"f16", "bf16", "f32"} /\ p.vec \in {16, 32}
    /\ p.tile \in Positive \X Positive \X Positive /\ p.tile[3] >= 64
    /\ p.epi \in (1 .. p.tile[1]) \X (1 .. p.tile[2])
    /\ p.map \in Seq(Nat)
    /\ \/ p.entry = "cli" /\ p.tile \in CliTiles /\ p.epi \in CliEpiTiles
       \/ p.entry = "api" /\ (RunAccepts(p) /\ CompileAccepts(p) => AbStages(p) >= 1)
    /\ p.schedule = "cooperative" => p.map = <<>>
    /\ p.map = <<>> => CeilDiv(p.n, p.tile[2]) <= p.n \div 128

ASSUME ProblemsAssumption == \A p \in Problems : WellFormed(p)

VARIABLE host       \* where run_bs is, and with what

allVars == <<host, vars>>

Idle ==
    /\ launch = [schedule |-> "none"] /\ loader = <<>>
    /\ pc = <<>> /\ warp = <<>> /\ ord = <<>>
    /\ full = <<>> /\ empty = <<>> /\ order = <<>>
    /\ inflight = {} /\ smem = <<>> /\ bar = {}
    /\ sC = <<>> /\ stores = <<>> /\ out = <<>>

RunInit ==
    /\ \E p \in Problems :
         host = [pc |-> IF p.entry = "cli" THEN "parse" ELSE "check", problem |-> p]
    /\ Idle

Host(from, accepted, to, otherwise) ==
    /\ host.pc = from
    /\ host' = [host EXCEPT !.pc = IF accepted THEN to ELSE otherwise]
    /\ UNCHANGED vars

ParseArguments == Host("parse", CliAccepts(host.problem), "check", "refused_parse")
CheckProblem == Host("check", RunAccepts(host.problem), "compile", "refused_check")
Compile == Host("compile", CompileAccepts(host.problem), "execute", "refused_compile")

\* The tensors that the ping-pong run_bs returns are written by an execution of
\* their own, the last one.  The cooperative run_bs returns a time only: there
\* this is any of its launches, of the reference check or of the benchmark.
FinalExecution ==
    LET l == Launched(host.problem)
    IN /\ host.pc = "execute"
       /\ host' = [host EXCEPT !.pc = "running"]
       /\ launch' = l
       /\ loader' = FreshLoader
       /\ pc' = [w \in Warps(l) |-> "start"]
       /\ ord' = FreshOrd(l)
       /\ warp' = IF l.schedule = "pingpong" THEN FreshPingWarps(l) ELSE FreshCoopWarps(l)
       /\ full' = FreshFull(l)
       /\ empty' = FreshEmpty(l)
       /\ order' = FreshOrder
       /\ inflight' = {}
       /\ smem' = FreshSmem(l)
       /\ bar' = {}
       /\ sC' = FreshBuffers(l)
       /\ stores' = FreshStores(l)
       /\ out' = FreshOut(l)

Kernel ==
    /\ host.pc = "running"
    /\ \/ launch.schedule = "pingpong" /\ PingNext
       \/ launch.schedule = "cooperative" /\ CoopNext
    /\ UNCHANGED host

WarpsDone == \A w \in Warps(launch) : pc[w] = "done"

AllRead == \A w \in Warps(launch) : AtMostUnread(w, 0)

\* torch.cuda.synchronize(), then the output is returned.
Return ==
    /\ host.pc = "running"
    /\ loader.pc = "done" /\ WarpsDone /\ AllRead
    /\ host' = [host EXCEPT !.pc = "returned"]
    /\ UNCHANGED vars

Refused == {"refused_parse", "refused_check", "refused_compile"}

\* Nothing is left to do.
Over ==
    /\ host.pc \in {"returned"} \cup Refused
    /\ UNCHANGED allVars

RunNext ==
    \/ ParseArguments \/ CheckProblem \/ Compile \/ FinalExecution
    \/ Kernel \/ Return \/ Over

\* Warps are scheduled and copies complete: every step that stays possible is
\* taken.  A warp that waits at a barrier polls it.
RunSpec == RunInit /\ [][RunNext]_allVars /\ WF_allVars(RunNext)

(***************************************************************************)
(* Properties.                                                             *)
(***************************************************************************)
Running == host.pc \in {"running", "returned"}

\* Every variable of a running kernel has the type of the memory or register
\* it stands for; the transaction count of a stage is never negative.
TypeOK ==
    Running =>
      /\ loader.pc \in {"load", "done"}
      /\ loader.pipe.index \in Stages(launch)
      /\ \A w \in Warps(launch) :
           /\ pc[w] \in {"start", "cross", "done"} \cup MainLoop \cup Epilogue
           /\ warp[w].pipe.index \in Stages(launch)
           /\ warp[w].pipe.phase \in {0, 1}
           /\ warp[w].blk \in 0 .. LastBlock
           /\ warp[w].epi \in 0 .. launch.epiTiles - 1
      /\ \A s \in Stages(launch) :
           /\ full[s].phase \in {0, 1} /\ full[s].tx \in Nat
           /\ empty[s].phase \in {0, 1} /\ empty[s].arrived \subseteq Warps(launch)
      /\ bar \subseteq Warps(launch)
      /\ \A x \in inflight : x.stage \in Stages(launch) /\ x.op \in Operands

(***************************************************************************)
(* The product as the caller means it, from the problem and not from what  *)
(* was launched: output tile t is the sum over the k tiles of row tile     *)
(* TileM of A and the row tile of B the caller's map names.                *)
(***************************************************************************)
WantedN(t) == IF host.problem.map = <<>> THEN TileN(t) ELSE host.problem.map[TileN(t) + 1]

WantedStage(t, k) ==
    [op \in Operands |-> IF op \in NOperands THEN <<WantedN(t), k>> ELSE <<TileM(t), k>>]

Product(t) ==
    [i \in 1 .. launch.kTiles * launch.kBlocks |->
        [block |-> (i - 1) % launch.kBlocks,
         from |-> WantedStage(t, (i - 1) \div launch.kBlocks)]]

\* The warps that share a tile, as they share a buffer.
Slots == IF launch.schedule = "pingpong" THEN 0 .. launch.warps - 1 ELSE Warps(launch)

Slice(t, e) == [i \in Slots |-> [tile |-> t, epi |-> e, acc |-> Product(t)]]

\* Whatever reaches the output is, for its tile and slice, the product of the
\* whole of the k tiles, from all warps, once: no stage is read half loaded or
\* of another tile, no register fragment is used twice, no buffer is
\* overwritten before its store has read it.
OutputRight ==
    Running => \A t \in DOMAIN out : \A e \in DOMAIN out[t] :
                 out[t][e] \in {<<>>, <<Slice(t, e)>>}

\* While a warp owns a stage (between its wait and its release) the stage holds
\* all operands of the warp's own tile and k tile, and no load into it is under
\* way: the parity the warp waited for was not that of another round.
StageIntact ==
    Running => \A w \in Warps(launch) :
      pc[w] \in {"block", "release"} =>
        /\ smem[warp[w].pipe.index] =
              WantedStage(Linear(warp[w].executed), warp[w].pipe.count)
        /\ \A x \in inflight : x.stage # warp[w].pipe.index

\* No warp of the ping-pong kernel has ended while a store it committed still
\* has its buffer to read: shared memory goes with the last warp.  The
\* cooperative kernel drains nothing at its end; what its last acquire let be is
\* all that is left, one store less than there are buffers.
LeftAtExit == IF launch.schedule = "pingpong" THEN 0 ELSE launch.epiStages - 1

DrainedAtExit ==
    Running => \A w \in Warps(launch) : pc[w] = "done" => AtMostUnread(w, LeftAtExit)

\* What is launched fits: the four order mbarriers that PipelineOrder sets up
\* end before the first buffer although SharedStorage has room for two, and the
\* last buffer ends within the capacity less what the block reserves.
StorageFits ==
    host.pc \in {"execute", "running", "returned"} =>
      LET p == host.problem IN
      /\ OrderBarrierAt(p) + 8 * OrderBarriers(p) <= FirstBufferAt(p)
      /\ StorageEnd(p) <= SmemCapacity - Occupancy * 1024

\* What the command line lets through never fails to compile, and gets at least
\* one stage: the table of the parser and that of the dispatcher agree, and
\* nothing else checks the number of stages.
ParsedCompiles ==
    host.problem.entry = "cli" =>
      /\ host.pc # "refused_compile"
      /\ host.pc \in {"execute", "running", "returned"} => AbStages(host.problem) >= 1

\* A kernel that was launched comes to its end and run_bs returns with every
\* slice of every tile of this CTA stored.
Complete ==
    \A j \in 0 .. launch.tiles - 1 :
        Linear(j) < launch.tiles =>
            \A e \in 0 .. launch.epiTiles - 1 : out[Linear(j)][e] # <<>>

EveryTileStored == (host.pc = "running") ~> (host.pc = "returned" /\ Complete)

(***************************************************************************)
(* The kernels implement TilePipeline, whatever the schedule.              *)
(***************************************************************************)
Mine(w) == {j \in 0 .. launch.tiles - 1 :
              /\ Valid(j)
              /\ launch.schedule = "pingpong" => j % 2 = w[1]}

Before(w) == {j \in Mine(w) : j < warp[w].executed}
On(w, pcs) == IF pc[w] \in pcs THEN {warp[w].executed} ELSE {}

\* A warp has the buffers from its first write on.
HasBuffers(w) ==
    \/ pc[w] \in {"write", "sync2", "store", "acquire", "finish"}
    \/ pc[w] \in {"epilogue", "sync1"} /\ warp[w].epi > 0

TilesOf == IF Running THEN {j \in 0 .. launch.tiles - 1 : Valid(j)} ELSE {}

Some(begun(_)) ==
    IF Running THEN Cardinality(UNION {begun(w) : w \in Warps(launch)}) ELSE 0

Every(ended(_)) ==
    Cardinality({j \in TilesOf : \A w \in Warps(launch) : j \in Mine(w) => j \in ended(w)})

Entered(w) == Before(w) \cup On(w, MainLoop \cup Epilogue \cup {"cross"})
Multiplied(w) == Before(w) \cup On(w, Epilogue \cup {"cross"})
Opened(w) == Before(w) \cup (IF HasBuffers(w) THEN {warp[w].executed} ELSE {})

StoredSlices == [j \in 1 .. Cardinality(TilesOf) |->
    Cardinality({e \in DOMAIN out[Linear(j - 1)] : out[Linear(j - 1)][e] # <<>>})]

Pipeline == INSTANCE TilePipeline WITH
    work <- Cardinality(TilesOf),
    slices <- IF Running THEN launch.epiTiles ELSE 0,
    entered <- Some(Entered),
    multiplied <- Every(Multiplied),
    opened <- Some(Opened),
    closed <- Every(Before),
    stored <- StoredSlices

\* Every step of a run is a step of the abstract two-part pipeline or leaves it
\* alone: tiles pass the main loop and the epilogue in order, one in each.
TilesInOrder == Pipeline!Spec
=============================================================================
