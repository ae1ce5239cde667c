---------------------------- MODULE GemmRunProofs ----------------------------
(***************************************************************************)
(* A run of the GEMM from the call to the return, for every set of calls   *)
(* and every size: what the host launches is a launch of the kernels'      *)
(* proofs, whose invariants then hold in every state of the run, and the   *)
(* run is one of TilePipeline.                                             *)
(***************************************************************************)
EXTENDS GemmRun, PingpongGemmProofs, CooperativeGemmProofs

(***************************************************************************)
(* Arithmetic of the host.                                                 *)
(***************************************************************************)
LEMMA DivPositive ==
  ASSUME NEW x \in Nat, NEW y \in Nat, 0 < y, y <= x
  PROVE  x \div y \in Positive
<1>1. /\ x \div y \in Nat /\ x % y \in 0 .. y - 1
      /\ x = y * (x \div y) + (x % y)
  BY Division
<1>. DEFINE q == x \div y
<1>2. ASSUME q = 0 PROVE FALSE
  <2>1. x = y * 0 + (x % y)
    BY <1>1, <1>2
  <2>. QED
    BY <1>1, <2>1
<1>. QED
  BY <1>1, <1>2 DEF Positive

LEMMA CeilPositive ==
  ASSUME NEW x \in Positive, NEW y \in Positive
  PROVE  CeilDiv(x, y) \in Positive
<1>1. x + y - 1 \in Nat /\ y \in Nat /\ 0 < y /\ y <= x + y - 1
  BY DEF Positive
<1>. QED
  BY <1>1, DivPositive DEF CeilDiv

LEMMA TimesPositive ==
  ASSUME NEW x \in Positive, NEW y \in Positive
  PROVE  x * y \in Positive
BY DEF Positive

\* A tile of a grid of m by n tiles is in one of its n columns.
LEMMA ColumnOfTile ==
  ASSUME NEW m \in Positive, NEW n \in Nat, NEW t \in Nat, t < m * n
  PROVE  t \div m \in Nat /\ t \div m < n
<1>. DEFINE q == t \div m
<1>1. m \in Nat /\ m > 0
  BY DEF Positive
<1>2. q \in Nat /\ t % m \in 0 .. m - 1 /\ t = m * q + (t % m)
  BY <1>1, Division
<1>. HIDE DEF q
<1>3. ASSUME n = q PROVE FALSE
  BY <1>1, <1>2, <1>3
<1>4. ASSUME n < q PROVE FALSE
  <2>1. m * n + m <= m * q /\ m * n \in Nat /\ m * q \in Nat
    BY <1>1, <1>2, <1>4, Multiples
  <2>. QED
    BY <1>1, <1>2, <2>1
<1>. QED
  BY <1>2, <1>3, <1>4 DEF q

(***************************************************************************)
(* Bytes of a stage and of the epilogue buffers.                           *)
(***************************************************************************)
LEMMA OperandWidth ==
  ASSUME NEW type \in {"fp4"} \cup Fp8
  PROVE  Width(type) = IF type = "fp4" THEN 4 ELSE 8
BY DEF Width, Fp8

LEMMA OutputWidth ==
  ASSUME NEW type \in {"f16", "bf16", "f32"}
  PROVE  Width(type) = IF type = "f32" THEN 32 ELSE 16
BY DEF Width, Fp8

\* The bytes of a stage, for the tiles of the command line and the instructions
\* there are.
StageSizes(p) ==
    /\ ABytes(p) = BBytes(p)
    /\ ScaleBytes(p, p.tile[1]) = ScaleBytes(p, p.tile[2])
    /\ <<ABytes(p), ScaleBytes(p, p.tile[1])>> \in
          IF p.tile[3] = 128 THEN {<<8192, 1024>>, <<8192, 512>>, <<16384, 512>>}
          ELSE {<<16384, 2048>>, <<16384, 1024>>, <<32768, 1024>>}

LEMMA StageSize ==
  ASSUME NEW p, WellFormed(p), p.tile \in CliTiles, MmaOp(p) # "none"
  PROVE  StageSizes(p)
<1>1. /\ p.tile[1] = 128 /\ p.tile[2] = 128 /\ p.tile[3] \in {128, 256}
      /\ p.a \in {"fp4"} \cup Fp8 /\ p.b \in {"fp4"} \cup Fp8 /\ p.vec \in {16, 32}
  BY DEF WellFormed, CliTiles
<1>2. /\ Width(p.a) = IF p.a = "fp4" THEN 4 ELSE 8
      /\ Width(p.b) = IF p.b = "fp4" THEN 4 ELSE 8
  BY <1>1, OperandWidth
<1>3. \/ ~Mixed(p) /\ p.a = "fp4" /\ p.b = "fp4"
      \/ ~Mixed(p) /\ p.a \in Fp8 /\ p.b \in Fp8 /\ p.vec = 32
      \/ Mixed(p) /\ p.vec = 32
  BY <1>1 DEF MmaOp, Mixed, Fp8
<1>4. "fp4" \notin Fp8
  BY DEF Fp8
<1>5. \/ SmemWidth(p, p.a) = 4 /\ SmemWidth(p, p.b) = 4
      \/ SmemWidth(p, p.a) = 8 /\ SmemWidth(p, p.b) = 8 /\ p.vec = 32
  BY <1>2, <1>3, <1>4 DEF SmemWidth
<1>6. CASE p.tile[3] = 128
  BY <1>1, <1>5, <1>6 DEF StageSizes, ABytes, BBytes, ScaleBytes
<1>7. CASE p.tile[3] = 256
  BY <1>1, <1>5, <1>7 DEF StageSizes, ABytes, BBytes, ScaleBytes
<1>. QED
  BY <1>1, <1>6, <1>7

\* The epilogue buffers, for the choices of the command line and those between.
EpiShapes == {64, 128} \X {32, 64, 128}

EpilogueSizes(p) ==
    /\ EpiTiles(p) \in Positive /\ EpiStages(p) \in Positive
    /\ EpiBytes(p) \in {16384, 32768}

LEMMA EpilogueSize ==
  ASSUME NEW p, p.tile \in CliTiles, p.epi \in EpiShapes, Width(p.c) = 16
  PROVE  EpilogueSizes(p)
<1>1. p.tile[1] = 128 /\ p.tile[2] = 128
  BY DEF CliTiles
<1>2. p.epi[1] \in {64, 128} /\ p.epi[2] \in {32, 64, 128}
  BY DEF EpiShapes
<1>3. EpiTiles(p) = (128 \div p.epi[1]) * (128 \div p.epi[2])
  BY <1>1 DEF EpiTiles
<1>4. \/ EpiTiles(p) = 1 /\ p.epi[1] * p.epi[2] = 16384
      \/ EpiTiles(p) = 2 /\ p.epi[1] * p.epi[2] = 8192
      \/ EpiTiles(p) = 4 /\ p.epi[1] * p.epi[2] = 4096
      \/ EpiTiles(p) = 8 /\ p.epi[1] * p.epi[2] = 2048
  BY <1>2, <1>3
<1>5. EpiStages(p) = IF EpiTiles(p) = 8 THEN 4 ELSE EpiTiles(p)
  BY <1>4 DEF EpiStages
<1>. QED
  BY <1>4, <1>5 DEF EpiBytes, EpilogueSizes, Positive

LEMMA CliChoices ==
  ASSUME NEW p, p.epi \in CliEpiTiles
  PROVE  p.epi \in EpiShapes
BY DEF CliEpiTiles, EpiShapes

\* The table of the parser is within the dispatcher's.
LEMMA CliHasInstruction ==
  ASSUME NEW p, WellFormed(p), CliAccepts(p)
  PROVE  MmaOp(p) # "none"
BY DEF WellFormed, CliAccepts, MmaOp, Mixed, Fp8

\* A stage of whatever the command line lets through fits.
LEMMA CliStages ==
  ASSUME NEW p, WellFormed(p), p.entry = "cli", CliAccepts(p), RunAccepts(p)
  PROVE  AbStages(p) >= 1 /\ EpiStages(p) > 0 /\ MmaOp(p) # "none"
<1>1. p.tile \in CliTiles /\ p.epi \in CliEpiTiles /\ Width(p.c) = 16
  BY DEF WellFormed, RunAccepts
<1>2. MmaOp(p) # "none" /\ StageSizes(p) /\ EpilogueSizes(p)
  BY <1>1, CliHasInstruction, StageSize, CliChoices, EpilogueSize
<1>. DEFINE room == (SmemCapacity - Occupancy * 1024) \div Occupancy - BarrierHelperBytes
                       - EpiBytes(p)
<1>3. StageBytes(p) \in Nat /\ 0 < StageBytes(p) /\ StageBytes(p) <= 36864
  <2>1. p.tile[3] \in {128, 256}
    BY <1>1 DEF CliTiles
  <2>2. StageBytes(p) = ABytes(p) + ABytes(p) + ScaleBytes(p, p.tile[1])
                          + ScaleBytes(p, p.tile[1])
    BY <1>2 DEF StageBytes, StageSizes
  <2>3. <<ABytes(p), ScaleBytes(p, p.tile[1])>> \in
           {<<8192, 1024>>, <<8192, 512>>, <<16384, 512>>, <<16384, 2048>>, <<16384, 1024>>}
    <3>1. ASSUME ABytes(p) = 32768 PROVE FALSE
      <4>1. p.tile[3] = 256
        BY <1>2, <2>1, <3>1 DEF StageSizes
      <4>2. p.tile \notin Fp8Tiles
        BY <4>1 DEF Fp8Tiles
      <4>3. ~Mixed(p) /\ p.a = "fp4"
        BY <4>2 DEF CliAccepts
      <4>4. ABytes(p) = (128 * 256 * 4) \div 8
        BY <1>1, <4>1, <4>3, OperandWidth DEF CliTiles, ABytes, SmemWidth, Mixed
      <4>. QED
        BY <3>1, <4>4
    <3>. QED
      BY <1>2, <3>1 DEF StageSizes
  <2>. QED
    BY <2>2, <2>3
<1>4. room \in Nat /\ 36864 <= room
  <2>1. (SmemCapacity - Occupancy * 1024) \div Occupancy = SmemCapacity - 1024
    BY SmemCapacityAssumption DEF Occupancy
  <2>. QED
    BY <1>2, <2>1, SmemCapacityAssumption DEF EpilogueSizes, BarrierHelperBytes
<1>5. room \div StageBytes(p) \in Positive
  <2>. HIDE DEF room
  <2>. QED
    BY <1>3, <1>4, DivPositive
<1>6. AbStages(p) \in Positive
  BY <1>5 DEF AbStages
<1>. QED
  BY <1>2, <1>6 DEF Positive, EpilogueSizes

(***************************************************************************)
(* What the host launches.                                                 *)
(***************************************************************************)
LEMMA HostNumbers ==
  ASSUME NEW p, WellFormed(p), AbStages(p) >= 1
  PROVE  /\ AbStages(p) \in Positive
         /\ CeilDiv(p.k, p.tile[3]) \in Positive /\ p.tile[3] \div MmaK(p) \in Positive
         /\ EpiTiles(p) \in Positive /\ EpiStages(p) \in Positive
         /\ CeilDiv(p.m, p.tile[1]) \in Positive /\ CeilDiv(p.n, p.tile[2]) \in Positive
         /\ OutputTiles(p) \in Positive /\ Grid(p) \in Positive
         /\ TileMap(p) \in Seq(Nat)
<1>1. /\ p.m \in Positive /\ p.n \in Positive /\ p.k \in Positive /\ p.ctas \in Positive
      /\ p.tile[1] \in Positive /\ p.tile[2] \in Positive /\ p.tile[3] \in Positive
      /\ p.tile[3] >= 64 /\ p.epi[1] \in 1 .. p.tile[1] /\ p.epi[2] \in 1 .. p.tile[2]
      /\ p.a \in {"fp4"} \cup Fp8 /\ p.b \in {"fp4"} \cup Fp8
      /\ p.c \in {"f16", "bf16", "f32"} /\ p.vec \in {16, 32} /\ p.map \in Seq(Nat)
  BY DEF WellFormed
<1>2. /\ CeilDiv(p.k, p.tile[3]) \in Positive
      /\ CeilDiv(p.m, p.tile[1]) \in Positive /\ CeilDiv(p.n, p.tile[2]) \in Positive
  BY <1>1, CeilPositive
<1>3. OutputTiles(p) \in Positive /\ Grid(p) \in Positive
  <2>1. OutputTiles(p) \in Positive
    BY <1>2, TimesPositive DEF OutputTiles
  <2>. QED
    BY <1>1, <2>1 DEF Grid
<1>4. p.tile[3] \div MmaK(p) \in Positive
  <2>1. p.tile[3] \in Nat /\ MmaK(p) \in Nat /\ 0 < MmaK(p) /\ MmaK(p) <= p.tile[3]
    BY <1>1 DEF MmaK, Positive
  <2>. QED
    BY <2>1, DivPositive
<1>5. EpiTiles(p) \in Positive
  <2>1. p.tile[1] \div p.epi[1] \in Positive /\ p.tile[2] \div p.epi[2] \in Positive
    <3>1. /\ p.tile[1] \in Nat /\ p.epi[1] \in Nat /\ 0 < p.epi[1] /\ p.epi[1] <= p.tile[1]
          /\ p.tile[2] \in Nat /\ p.epi[2] \in Nat /\ 0 < p.epi[2] /\ p.epi[2] <= p.tile[2]
      BY <1>1 DEF Positive
    <3>. QED
      BY <3>1, DivPositive
  <2>. QED
    BY <2>1, TimesPositive DEF EpiTiles
<1>6. EpiStages(p) \in Positive
  BY <1>5 DEF EpiStages, Positive
<1>7. AbStages(p) \in Positive
  <2>. DEFINE room == (SmemCapacity - Occupancy * 1024) \div Occupancy - BarrierHelperBytes
                         - EpiBytes(p)
  <2>0. /\ p.tile[1] \in Nat /\ p.tile[1] >= 1 /\ p.tile[2] \in Nat
        /\ p.tile[3] \in Nat /\ p.tile[3] >= 64
        /\ p.epi[1] \in Nat /\ p.epi[2] \in Nat
    BY <1>1 DEF Positive
  <2>1. \A x \in {"fp4"} \cup Fp8 : Width(x) \in {4, 8}
    BY OperandWidth
  <2>2. Width(p.c) \in {16, 32}
    BY <1>1, OutputWidth
  <2>3. SmemWidth(p, p.a) \in {4, 8} /\ SmemWidth(p, p.b) \in {4, 8}
    BY <1>1, <2>1 DEF SmemWidth
  <2>4. \A x \in Nat : x \div 8 \in Nat /\ x \div 16 \in Nat /\ x \div 32 \in Nat
    OBVIOUS
  <2>5. ABytes(p) \in Nat /\ ABytes(p) > 0 /\ BBytes(p) \in Nat
    <3>1. \A x, y, z \in Nat : x * y * z \in Nat
      OBVIOUS
    <3>2. /\ p.tile[1] * p.tile[3] * SmemWidth(p, p.a) \in Nat
          /\ p.tile[2] * p.tile[3] * SmemWidth(p, p.b) \in Nat
      BY <1>1, <2>3, <3>1 DEF Positive
    <3>3. 8 <= p.tile[1] * p.tile[3] * SmemWidth(p, p.a)
      <4>1. \A x, y \in Nat : x >= 1 /\ y >= 64 => x * y \in Nat /\ x * y >= 64
        OBVIOUS
      <4>2. p.tile[1] * p.tile[3] \in Nat /\ p.tile[1] * p.tile[3] >= 64
        BY <2>0, <4>1
      <4>. QED
        BY <2>3, <4>2
    <3>4. (p.tile[1] * p.tile[3] * SmemWidth(p, p.a)) \div 8 \in Positive
      BY <3>2, <3>3, DivPositive
    <3>. QED
      BY <2>4, <3>2, <3>4 DEF ABytes, BBytes, Positive
  <2>6. ScaleBytes(p, p.tile[1]) \in Nat /\ ScaleBytes(p, p.tile[2]) \in Nat
    <3>1. p.tile[3] \div p.vec \in Nat
      BY <1>1, <2>4 DEF Positive
    <3>. QED
      BY <2>0, <3>1 DEF ScaleBytes
  <2>7. EpiBytes(p) \in Nat
    <3>1. p.epi[1] * p.epi[2] * Width(p.c) \in Nat
      <4>1. \A x, y, z \in Nat : x * y * z \in Nat
        OBVIOUS
      <4>2. Width(p.c) \in Nat
        BY <2>2
      <4>. QED
        BY <2>0, <4>1, <4>2
    <3>2. (p.epi[1] * p.epi[2] * Width(p.c)) \div 8 \in Nat
      BY <2>4, <3>1
    <3>. QED
      BY <1>6, <3>2 DEF EpiBytes, Positive
  <2>8. StageBytes(p) \in Nat /\ StageBytes(p) > 0 /\ room \in Int
    BY <2>5, <2>6, <2>7, SmemCapacityAssumption
       DEF StageBytes, Occupancy, BarrierHelperBytes
  <2>9. \A x \in Int, y \in Nat : y > 0 => x \div y \in Int
    OBVIOUS
  <2>10. AbStages(p) \in Int
    <3>. HIDE DEF room
    <3>. QED
      BY <2>8, <2>9 DEF AbStages, room
  <2>. QED
    BY <2>10 DEF Positive
<1>8. TileMap(p) \in Seq(Nat)
  <2>1. p.n \div 128 \in Nat
    BY <1>1, Division DEF Positive
  <2>2. [i \in 1 .. p.n \div 128 |-> i - 1] \in Seq(Nat)
    BY <2>1
  <2>. QED
    BY <1>1, <2>2 DEF TileMap
<1>. QED
  BY <1>2, <1>3, <1>4, <1>5, <1>6, <1>7, <1>8

LEMMA LaunchIsLaunch ==
  ASSUME NEW p, WellFormed(p), AbStages(p) >= 1
  PROVE  Launched(p) \in Launches(p.schedule)
<1>1. p.cta \in Nat /\ p.warps \in Positive
  BY DEF WellFormed
<1>. QED
  BY <1>1, HostNumbers DEF Launched, Launches

\* The map that was launched names for every tile the row tile of B the caller
\* means.
LEMMA WantedColumn ==
  ASSUME host.problem \in Problems, launch = Launched(host.problem),
         AbStages(host.problem) >= 1, NEW t \in Nat, t < launch.tiles
  PROVE  /\ WantedN(t) = launch.map[TileN(t) + 1]
         /\ launch.schedule = "cooperative" => WantedN(t) = TileN(t)
<1>. DEFINE p == host.problem
<1>1. WellFormed(p)
  BY ProblemsAssumption
<1>2. /\ launch.map = TileMap(p) /\ launch.schedule = p.schedule
      /\ launch.mTiles = CeilDiv(p.m, p.tile[1])
      /\ launch.tiles = CeilDiv(p.m, p.tile[1]) * CeilDiv(p.n, p.tile[2])
  BY DEF Launched, OutputTiles
<1>3. CASE p.map # <<>>
  BY <1>1, <1>2, <1>3 DEF WantedN, TileMap, WellFormed
<1>4. CASE p.map = <<>>
  <2>1. TileN(t) \in Nat /\ TileN(t) < CeilDiv(p.n, p.tile[2])
    <3>1. CeilDiv(p.m, p.tile[1]) \in Positive /\ CeilDiv(p.n, p.tile[2]) \in Nat
      BY <1>1, HostNumbers DEF Positive
    <3>. QED
      BY <1>2, <3>1, ColumnOfTile DEF TileN
  <2>2. CeilDiv(p.n, p.tile[2]) <= p.n \div 128 /\ p.n \in Nat
    BY <1>1, <1>4 DEF WellFormed, Positive
  <2>3. CeilDiv(p.n, p.tile[2]) \in Nat /\ p.n \div 128 \in Nat
    <3>1. CeilDiv(p.n, p.tile[2]) \in Nat
      BY <1>1, HostNumbers DEF Positive
    <3>2. \A x \in Nat : x \div 128 \in Nat
      OBVIOUS
    <3>. QED
      BY <2>2, <3>1, <3>2
  <2>4. TileN(t) + 1 \in 1 .. p.n \div 128
    BY <2>1, <2>2, <2>3
  <2>5. launch.map = [i \in 1 .. p.n \div 128 |-> i - 1]
    BY <1>2, <1>4 DEF TileMap
  <2>6. launch.map[TileN(t) + 1] = TileN(t)
    BY <2>1, <2>4, <2>5
  <2>. QED
    BY <1>4, <2>6 DEF WantedN
<1>. QED
  BY <1>3, <1>4

(***************************************************************************)
(* The layout of the shared memory of an SM120 GPU.                        *)
(***************************************************************************)
\* Aligning loses less than a kilobyte, and nothing of a multiple of one.
LEMMA Aligned ==
  /\ \A x \in Nat : Align(1024 * x) = 1024 * x
  /\ \A x \in Nat : Align(x) \in Nat /\ Align(x) <= x + 1023
BY DEF Align, BufferAlign

\* As many stages of D bytes as a room of R bytes has, between one and four.
LEMMA StagesInRoom ==
  ASSUME NEW D \in Nat, NEW R \in Nat, D >= 17408, R <= 82944, R \div D >= 1
  PROVE  R \div D \in 1 .. 4 /\ (R \div D) * D <= R
<1>. DEFINE q == R \div D  r == R % D
<1>1. q \in Nat /\ r \in Nat /\ R = D * q + r
  BY Division
<1>2. q >= 1
  OBVIOUS
<1>. HIDE DEF q, r
<1>3. D * q \in Nat /\ D * q = q * D
  BY <1>1
<1>4. ASSUME q >= 5 PROVE FALSE
  <2>1. \A x, y \in Nat : x >= 17408 /\ y >= 5 => x * y >= 87040
    OBVIOUS
  <2>2. D * q >= 87040
    BY <1>1, <1>4, <2>1
  <2>. QED
    BY <1>1, <1>3, <2>2
<1>5. q \in 1 .. 4
  BY <1>1, <1>2, <1>4
<1>6. q * D <= R
  BY <1>1, <1>3
<1>. QED
  BY <1>5, <1>6 DEF q

\* The four buffers one after the other, each aligned: x kilobytes of each
\* operand, y bytes of the scale factors of each.
Buffers(x, y) ==
    LET b == Align(1024 + 1024 * x) + 1024 * x
        sfa == Align(b) + y
        sfb == Align(sfa) + y
    IN Align(sfb)

\* Where they end: nothing is lost between them when the scale factors are whole
\* kilobytes too.
LEMMA BuffersEnd ==
  ASSUME NEW x \in Nat, NEW y \in Nat, NEW z \in Nat
  PROVE  /\ Buffers(x, y) \in Nat /\ Buffers(x, y) <= 3070 + 2048 * x + 2 * y
         /\ y = 1024 * z => Buffers(x, y) = 1024 + 2048 * x + 2 * y
<1>1. PICK b : b = Align(1024 + 1024 * x) + 1024 * x
  OBVIOUS
<1>2. PICK sfa : sfa = Align(b) + y
  OBVIOUS
<1>3. PICK sfb : sfb = Align(sfa) + y
  OBVIOUS
<1>4. Buffers(x, y) = Align(sfb)
  BY <1>1, <1>2, <1>3 DEF Buffers
<1>5. Align(b) = 1024 + 2048 * x
  <2>1. PICK u \in Nat : u = 1 + x
    OBVIOUS
  <2>2. PICK v \in Nat : v = 1 + 2 * x
    OBVIOUS
  <2>3. Align(1024 * u) = 1024 * u /\ Align(1024 * v) = 1024 * v
    BY Aligned
  <2>4. 1024 + 1024 * x = 1024 * u
    BY <2>1
  <2>5. b = 1024 * v
    BY <1>1, <2>1, <2>2, <2>3, <2>4
  <2>. QED
    BY <2>2, <2>3, <2>5
<1>6. /\ sfa \in Nat /\ sfa = 1024 + 2048 * x + y
      /\ Align(sfa) \in Nat /\ Align(sfa) <= sfa + 1023
  <2>1. sfa \in Nat /\ sfa = 1024 + 2048 * x + y
    BY <1>2, <1>5
  <2>. QED
    BY <2>1, Aligned
<1>7. /\ sfb \in Nat /\ Align(sfb) \in Nat /\ Align(sfb) <= sfb + 1023
  <2>1. sfb \in Nat
    BY <1>3, <1>6
  <2>. QED
    BY <2>1, Aligned
<1>8. ASSUME y = 1024 * z
      PROVE  Align(sfb) = 1024 + 2048 * x + 2 * y
  <2>1. PICK u \in Nat : u = 1 + 2 * x + z
    OBVIOUS
  <2>2. PICK v \in Nat : v = 1 + 2 * x + 2 * z
    OBVIOUS
  <2>3. Align(1024 * u) = 1024 * u /\ Align(1024 * v) = 1024 * v
    BY Aligned
  <2>4. sfa = 1024 * u
    BY <1>6, <1>8, <2>1
  <2>5. sfb = 1024 * v
    BY <1>3, <1>8, <2>1, <2>2, <2>3, <2>4
  <2>. QED
    BY <1>8, <2>2, <2>3, <2>5
<1>. QED
  BY <1>3, <1>4, <1>6, <1>7, <1>8

LEMMA BuffersFit ==
  ASSUME NEW x \in Nat, NEW y \in Nat, NEW z \in Nat, NEW E \in Nat,
         2048 * x + 2 * y + E <= 99328,
         y = 1024 * z \/ 2048 * x + 2 * y + E <= 97282
  PROVE  Buffers(x, y) + E <= 100352
<1>1. PICK B : B = Buffers(x, y)
  OBVIOUS
<1>2. /\ B \in Nat /\ B <= 3070 + 2048 * x + 2 * y
      /\ y = 1024 * z => B = 1024 + 2048 * x + 2 * y
  BY <1>1, BuffersEnd
<1>. QED
  BY <1>1, <1>2

\* One to four stages of the sizes there are, in what the E bytes of the epilogue
\* leave.
Sized(S, A, c, E) ==
    /\ S \in 1 .. 4 /\ A \in {8192, 16384, 32768} /\ c \in {512, 1024, 2048}
    /\ E \in {16384, 32768} /\ (c = 512 => A < 32768)
    /\ S * A + S * A + S * c + S * c <= 99328 - E

\* The operands' x kilobytes and the y bytes of the scale factors leave room too
\* for what aligning loses.
Placed(x, y, E) ==
    /\ 2048 * x + 2 * y + E <= 99328
    /\ \E z \in Nat : y = 1024 * z \/ 2048 * x + 2 * y + E <= 97282

LEMMA StagesFit ==
  ASSUME NEW S, NEW A, NEW c, NEW E, Sized(S, A, c, E)
  PROVE  \E x \in Nat, y \in Nat : S * A = 1024 * x /\ S * c = y /\ Placed(x, y, E)
<1>0. /\ S \in 1 .. 4 /\ A \in {8192, 16384, 32768} /\ c \in {512, 1024, 2048}
      /\ E \in {16384, 32768} /\ (c = 512 => A < 32768)
      /\ S * A + S * A + S * c + S * c <= 99328 - E
  BY DEF Sized
<1>1. PICK k \in {8, 16, 32} : A = 1024 * k
  BY <1>0
<1>2. PICK x \in Nat : x = S * k
  BY <1>0
<1>3. PICK y \in Nat : y = S * c
  BY <1>0
<1>4. S * A = 1024 * x
  BY <1>0, <1>1, <1>2
<1>5. 2048 * x + 2 * y + E <= 99328
  BY <1>0, <1>3, <1>4
<1>6. \E z \in Nat : y = 1024 * z \/ 2048 * x + 2 * y + E <= 97282
  <2>1. CASE c = 512
    <3>1. k \in {8, 16}
      BY <1>0, <1>1, <2>1
    <3>2. 2048 * x + 2 * y + E <= 97282
      BY <1>0, <1>2, <1>3, <1>5, <2>1, <3>1
    <3>. QED
      BY <3>2
  <2>2. CASE c \in {1024, 2048}
    <3>1. y \in {1024 * S, 1024 * (2 * S)} /\ S \in Nat /\ 2 * S \in Nat
      BY <1>0, <1>3, <2>2
    <3>. QED
      BY <3>1
  <2>. QED
    BY <1>0, <2>1, <2>2
<1>. QED
  BY <1>3, <1>4, <1>5, <1>6 DEF Placed

\* The 1024 bytes for the mbarriers hold them, and what is lost between buffers.
LEMMA StorageLayout ==
  ASSUME SmemCapacity = 101376, NEW p, WellFormed(p), p.tile \in CliTiles,
         p.epi \in EpiShapes, Width(p.c) = 16, MmaOp(p) # "none", AbStages(p) >= 1
  PROVE  /\ OrderBarrierAt(p) + 8 * OrderBarriers(p) <= FirstBufferAt(p)
         /\ StorageEnd(p) <= SmemCapacity - Occupancy * 1024
<1>1. PICK A : A = ABytes(p)
  OBVIOUS
<1>2. PICK c : c = ScaleBytes(p, p.tile[1])
  OBVIOUS
<1>3. PICK E : E = EpiBytes(p)
  OBVIOUS
<1>4. PICK S : S = AbStages(p)
  OBVIOUS
<1>5. /\ BBytes(p) = A /\ ScaleBytes(p, p.tile[2]) = c /\ E \in {16384, 32768}
      /\ A \in {8192, 16384, 32768} /\ c \in {512, 1024, 2048}
      /\ c = 512 => A < 32768
  <2>1. StageSizes(p) /\ EpilogueSizes(p)
    BY StageSize, EpilogueSize
  <2>2. <<A, c>> \in {<<8192, 1024>>, <<8192, 512>>, <<16384, 512>>, <<16384, 2048>>,
                      <<16384, 1024>>, <<32768, 1024>>}
    <3>1. CASE p.tile[3] = 128
      BY <1>1, <1>2, <2>1, <3>1 DEF StageSizes
    <3>2. CASE p.tile[3] # 128
      BY <1>1, <1>2, <2>1, <3>2 DEF StageSizes
    <3>. QED
      BY <3>1, <3>2
  <2>3. BBytes(p) = A /\ ScaleBytes(p, p.tile[2]) = c /\ E \in {16384, 32768}
    BY <1>1, <1>2, <1>3, <2>1 DEF StageSizes, EpilogueSizes
  <2>4. /\ A \in {8192, 16384, 32768} /\ c \in {512, 1024, 2048}
        /\ c = 512 => A < 32768
    BY <2>2
  <2>. QED
    BY <2>3, <2>4
<1>6. S \in 1 .. 4 /\ S * (A + A + c + c) <= 99328 - E
  <2>1. PICK D : D = A + A + c + c
    OBVIOUS
  <2>2. PICK R : R = 99328 - E
    OBVIOUS
  <2>3. D \in Nat /\ R \in Nat /\ D >= 17408 /\ R <= 82944
    BY <1>5, <2>1, <2>2
  <2>4. StageBytes(p) = D
    BY <1>1, <1>2, <1>5, <2>1 DEF StageBytes
  <2>5. (SmemCapacity - Occupancy * 1024) \div Occupancy - BarrierHelperBytes - EpiBytes(p) = R
    BY <1>3, <1>5, <2>2 DEF Occupancy, BarrierHelperBytes
  <2>6. S = R \div D
    BY <1>4, <2>4, <2>5 DEF AbStages
  <2>7. S \in 1 .. 4 /\ S * D <= R
    BY <1>4, <2>3, <2>6, StagesInRoom
  <2>. QED
    BY <2>1, <2>2, <2>7
<1>7. Sized(S, A, c, E)
  BY <1>5, <1>6 DEF Sized
<1>8. PICK x \in Nat, y \in Nat : S * A = 1024 * x /\ S * c = y /\ Placed(x, y, E)
  BY <1>7, StagesFit
<1>9. Buffers(x, y) + E <= 100352
  <2>1. PICK z \in Nat : y = 1024 * z \/ 2048 * x + 2 * y + E <= 97282
    BY <1>8 DEF Placed
  <2>2. 2048 * x + 2 * y + E <= 99328 /\ E \in Nat
    BY <1>5, <1>8 DEF Placed
  <2>. QED
    BY <2>1, <2>2, BuffersFit
<1>10. FirstBufferAt(p) = 1024 /\ OrderBarrierAt(p) + 8 * OrderBarriers(p) <= 1024
  <2>1. OrderBarrierAt(p) = 8 * (2 * S)
    BY <1>4 DEF OrderBarrierAt
  <2>2. PICK o : o = OrderBarrierAt(p)
    OBVIOUS
  <2>3. o \in {16, 32, 48, 64}
    BY <1>6, <2>1, <2>2
  <2>4. OrderRoom(p) \in {0, 2} /\ OrderBarriers(p) \in {0, 4}
    BY DEF OrderRoom, OrderBarriers
  <2>5. Align(o + 8 * OrderRoom(p)) = 1024
    BY <2>3, <2>4 DEF Align, BufferAlign
  <2>. QED
    BY <2>2, <2>3, <2>4, <2>5 DEF FirstBufferAt
<1>11. StorageEnd(p) = Buffers(x, y) + E
  BY <1>1, <1>2, <1>3, <1>4, <1>5, <1>8, <1>10 DEF StorageEnd, Buffers
<1>12. SmemCapacity - Occupancy * 1024 = 100352
  BY DEF Occupancy
<1>. QED
  BY <1>9, <1>10, <1>11, <1>12

(***************************************************************************)
(* The invariant of a run: what the host has checked when it launches, and *)
(* the invariant of the kernel from then on.                               *)
(***************************************************************************)
RunPlaces == {"parse", "check", "compile", "execute", "running", "returned"} \cup Refused

Parsed == host.pc \notin {"parse", "refused_parse"}
Checked == Parsed /\ host.pc \notin {"check", "refused_check"}
Compiled == host.pc \in {"execute", "running", "returned"}

HostInv ==
    /\ host.problem \in Problems
    /\ host = [pc |-> host.pc, problem |-> host.problem]
    /\ host.pc \in RunPlaces
    /\ Parsed /\ host.problem.entry = "cli" => CliAccepts(host.problem)
    /\ Checked => RunAccepts(host.problem)
    /\ Compiled => CompileAccepts(host.problem)

KernelInv ==
    /\ ~Running => launch.schedule = "none"
    /\ Running =>
         /\ launch = Launched(host.problem)
         /\ launch.schedule \in {"pingpong", "cooperative"}
         /\ launch.schedule = "pingpong" => PingInv
         /\ launch.schedule = "cooperative" => CoopInv

RunInv == HostInv /\ KernelInv

\* Whatever is launched has a stage.
LEMMA EnoughStages ==
  ASSUME HostInv, Compiled
  PROVE  WellFormed(host.problem) /\ AbStages(host.problem) >= 1
<1>1. WellFormed(host.problem) /\ RunAccepts(host.problem) /\ CompileAccepts(host.problem)
  BY ProblemsAssumption DEF HostInv, Checked, Parsed, Compiled
<1>2. CASE host.problem.entry = "cli"
  <2>1. CliAccepts(host.problem)
    BY <1>2 DEF HostInv, Parsed, Compiled
  <2>. QED
    BY <1>1, <1>2, <2>1, CliStages
<1>3. CASE host.problem.entry # "cli"
  BY <1>1, <1>3 DEF WellFormed
<1>. QED
  BY <1>2, <1>3

LEMMA RunInvInit == RunInit => RunInv
<1>. SUFFICES ASSUME RunInit PROVE RunInv
  OBVIOUS
<1>1. PICK p \in Problems :
        host = [pc |-> IF p.entry = "cli" THEN "parse" ELSE "check", problem |-> p]
  BY DEF RunInit
<1>2. /\ host.problem = p /\ host.pc = IF p.entry = "cli" THEN "parse" ELSE "check"
  BY <1>1
<1>3. HostInv
  BY <1>1, <1>2 DEF HostInv, RunPlaces, Parsed, Checked, Compiled
<1>4. KernelInv
  BY <1>2 DEF KernelInv, Running, RunInit, Idle
<1>. QED
  BY <1>3, <1>4 DEF RunInv

\* A check of the host either lets the problem pass or ends the run.
LEMMA HostStep ==
  ASSUME HostInv, NEW from, NEW to, NEW otherwise, NEW accepted \in BOOLEAN,
         Host(from, accepted, to, otherwise)
  PROVE  /\ host'.problem = host.problem
         /\ host' = [pc |-> host'.pc, problem |-> host'.problem]
         /\ host.pc = from
         /\ host'.pc = IF accepted THEN to ELSE otherwise
         /\ UNCHANGED vars
<1>1. PICK q : q = IF accepted THEN to ELSE otherwise
  OBVIOUS
<1>2. PICK p : p = host.problem
  OBVIOUS
<1>3. host = [pc |-> host.pc, problem |-> p] /\ host' = [host EXCEPT !.pc = q]
  BY <1>1, <1>2 DEF HostInv, Host
<1>4. host' = [pc |-> q, problem |-> p]
  BY <1>3
<1>. QED
  BY <1>1, <1>2, <1>4 DEF Host

\* The host's own steps, before a kernel runs.
LEMMA HostInvNext ==
  ASSUME HostInv, [RunNext]_allVars
  PROVE  HostInv'
<1>1. CASE ParseArguments
  <2>1. CliAccepts(host.problem) \in BOOLEAN
    BY DEF CliAccepts
  <2>2. /\ host'.problem = host.problem /\ host' = [pc |-> host'.pc, problem |-> host'.problem]
        /\ host'.pc = IF CliAccepts(host.problem) THEN "check" ELSE "refused_parse"
    BY <1>1, <2>1, HostStep DEF ParseArguments
  <2>. QED
    BY <2>2 DEF HostInv, RunPlaces, Refused, Parsed, Checked, Compiled
<1>2. CASE CheckProblem
  <2>1. RunAccepts(host.problem) \in BOOLEAN
    BY DEF RunAccepts
  <2>2. /\ host'.problem = host.problem /\ host' = [pc |-> host'.pc, problem |-> host'.problem]
        /\ host.pc = "check"
        /\ host'.pc = IF RunAccepts(host.problem) THEN "compile" ELSE "refused_check"
    BY <1>2, <2>1, HostStep DEF CheckProblem
  <2>. QED
    BY <2>2 DEF HostInv, RunPlaces, Refused, Parsed, Checked, Compiled
<1>3. CASE Compile
  <2>1. CompileAccepts(host.problem) \in BOOLEAN
    BY DEF CompileAccepts
  <2>2. /\ host'.problem = host.problem /\ host' = [pc |-> host'.pc, problem |-> host'.problem]
        /\ host.pc = "compile"
        /\ host'.pc = IF CompileAccepts(host.problem) THEN "execute" ELSE "refused_compile"
    BY <1>3, <2>1, HostStep DEF Compile
  <2>. QED
    BY <2>2 DEF HostInv, RunPlaces, Refused, Parsed, Checked, Compiled
<1>4. ASSUME NEW to, host' = [host EXCEPT !.pc = to], Compiled, to \in {"running", "returned"}
      PROVE  HostInv'
  <2>1. PICK p : p = host.problem
    OBVIOUS
  <2>2. host = [pc |-> host.pc, problem |-> p]
    BY <2>1 DEF HostInv
  <2>3. host' = [pc |-> to, problem |-> p]
    BY <1>4, <2>2
  <2>4. host'.pc = to /\ host'.problem = host.problem
        /\ host' = [pc |-> host'.pc, problem |-> host'.problem]
    BY <2>1, <2>3
  <2>. QED
    BY <1>4, <2>4 DEF HostInv, RunPlaces, Refused, Parsed, Checked, Compiled
<1>5. CASE FinalExecution
  BY <1>4, <1>5 DEF FinalExecution, Compiled
<1>6. CASE Return
  BY <1>4, <1>6 DEF Return, Compiled
<1>7. ASSUME UNCHANGED host PROVE HostInv'
  BY <1>7 DEF HostInv, Parsed, Checked, Compiled
<1>8. CASE Kernel
  BY <1>7, <1>8 DEF Kernel
<1>9. CASE UNCHANGED allVars
  BY <1>7, <1>9 DEF allVars
<1>. QED
  BY <1>1, <1>2, <1>3, <1>5, <1>6, <1>8, <1>9 DEF RunNext, Over

\* The launch stays what it is.
LEMMA KernelKeepsLaunch ==
  ASSUME [PingNext]_vars \/ [CoopNext]_vars
  PROVE  launch' = launch
<1>1. ASSUME NEW w \in Warps(launch), PingWarp(w) PROVE launch' = launch
  BY <1>1 DEF PingWarp, StartTile, ExitLoop, FirstBlock, CopyThenMultiply, ReleaseStage,
              NextStage, LeaveMainLoop, EnterEpilogue, SyncBeforeWrite, WriteSlice,
              StoreSlice, AcquireBuffer, FinishTile, UnchangedInLoop, UnchangedButWarp
<1>2. ASSUME NEW w \in Warps(launch), CoopWarp(w) PROVE launch' = launch
  BY <1>2 DEF CoopWarp, CoopExitLoop, CoopFirstBlock, MultiplyAndCopy, CoopReleaseStage,
              CoopNextStage, CoopLeaveMainLoop, CoopSyncBeforeWrite, CoopWriteSlice,
              CoopStoreSlice, CoopAcquireBuffer, UnchangedInLoop, UnchangedButWarp
<1>. QED
  BY <1>1, <1>2 DEF PingNext, CoopNext, vars, LoadStage, CoopLoadStage, LoadFrom, LoaderTail,
                    CoopLoaderTail, DrainLoader, Land, ReadStore

\* The same two facts of a state further on.
LEMMA PingStarts == PingInit' => PingInv'
BY PingInvInit, PTL

LEMMA CoopStarts == CoopInit' => CoopInv'
BY CoopInvInit, PTL

\* The state the final execution starts from.
LEMMA LaunchStarts ==
  ASSUME HostInv, FinalExecution
  PROVE  /\ launch' = Launched(host.problem) /\ FreshMachine'
         /\ host'.problem = host.problem /\ host'.pc = "running"
         /\ launch'.schedule \in {"pingpong", "cooperative"}
         /\ launch'.schedule = "pingpong" => PingInit'
         /\ launch'.schedule = "cooperative" => CoopInit'
<1>1. host' = [host EXCEPT !.pc = "running"] /\ launch' = Launched(host.problem)
  BY DEF FinalExecution
<1>2. host'.problem = host.problem /\ host'.pc = "running"
  BY <1>1 DEF HostInv
<1>3. WellFormed(host.problem) /\ AbStages(host.problem) >= 1
  BY EnoughStages DEF FinalExecution, Compiled
<1>4. launch' \in Launches(host.problem.schedule)
      /\ launch'.schedule = host.problem.schedule
      /\ host.problem.schedule \in {"pingpong", "cooperative"}
  BY <1>1, <1>3, LaunchIsLaunch DEF Launched, WellFormed
<1>5. FreshMachine'
  BY DEF FinalExecution, FreshMachine
<1>6. launch'.schedule = "pingpong" => PingInit'
  <2>. SUFFICES ASSUME launch'.schedule = "pingpong" PROVE PingInit'
    OBVIOUS
  <2>1. warp' = FreshPingWarps(launch') /\ ord' = FreshOrd(launch') /\ order' = FreshOrder
    BY DEF FinalExecution
  <2>. QED
    BY <1>4, <1>5, <2>1 DEF PingInit, PingLaunches
<1>7. launch'.schedule = "cooperative" => CoopInit'
  <2>. SUFFICES ASSUME launch'.schedule = "cooperative" PROVE CoopInit'
    OBVIOUS
  <2>1. warp' = FreshCoopWarps(launch')
    BY DEF FinalExecution
  <2>. QED
    BY <1>4, <1>5, <2>1 DEF CoopInit
<1>. QED
  BY <1>1, <1>2, <1>4, <1>5, <1>6, <1>7

LEMMA KernelInvNext ==
  ASSUME HostInv, KernelInv, [RunNext]_allVars
  PROVE  KernelInv'
<1>1. CASE ParseArguments \/ CheckProblem \/ Compile
  <2>1. /\ UNCHANGED vars
        /\ host.pc \in {"parse", "check", "compile"}
        /\ host'.pc \in {"check", "compile", "execute"} \cup Refused
    <3>1. CASE ParseArguments
      <4>1. CliAccepts(host.problem) \in BOOLEAN
        BY DEF CliAccepts
      <4>. QED
        BY <3>1, <4>1, HostStep DEF ParseArguments, Refused
    <3>2. CASE CheckProblem
      <4>1. RunAccepts(host.problem) \in BOOLEAN
        BY DEF RunAccepts
      <4>. QED
        BY <3>2, <4>1, HostStep DEF CheckProblem, Refused
    <3>3. CASE Compile
      <4>1. CompileAccepts(host.problem) \in BOOLEAN
        BY DEF CompileAccepts
      <4>. QED
        BY <3>3, <4>1, HostStep DEF Compile, Refused
    <3>. QED
      BY <1>1, <3>1, <3>2, <3>3
  <2>2. ~Running /\ ~Running' /\ launch' = launch
    BY <2>1 DEF Running, Refused, vars
  <2>. QED
    BY <2>2 DEF KernelInv
<1>2. CASE FinalExecution
  BY <1>2, LaunchStarts, PingStarts, CoopStarts DEF KernelInv, Running
<1>3. CASE Kernel
  <2>1. /\ host' = host /\ host.pc = "running"
        /\ \/ launch.schedule = "pingpong" /\ PingNext
           \/ launch.schedule = "cooperative" /\ CoopNext
    BY <1>3 DEF Kernel
  <2>2. launch' = launch
    BY <2>1, KernelKeepsLaunch
  <2>3. launch.schedule = "pingpong" => PingInv'
    BY <2>1, PingInvNext DEF KernelInv, Running
  <2>4. launch.schedule = "cooperative" => CoopInv'
    BY <2>1, CoopInvNext DEF KernelInv, Running
  <2>. QED
    BY <2>1, <2>2, <2>3, <2>4 DEF KernelInv, Running
<1>4. ASSUME UNCHANGED vars, Running' = Running, host'.problem = host.problem
      PROVE  KernelInv'
  <2>1. launch' = launch
    BY <1>4 DEF vars
  <2>2. Running /\ launch.schedule = "pingpong" => PingInv'
    BY <1>4, PingInvNext DEF KernelInv
  <2>3. Running /\ launch.schedule = "cooperative" => CoopInv'
    BY <1>4, CoopInvNext DEF KernelInv
  <2>. QED
    BY <1>4, <2>1, <2>2, <2>3 DEF KernelInv
<1>5. CASE Return
  <2>1. host' = [host EXCEPT !.pc = "returned"] /\ host.pc = "running" /\ UNCHANGED vars
    BY <1>5 DEF Return
  <2>2. host'.problem = host.problem /\ host'.pc = "returned"
    BY <2>1 DEF HostInv
  <2>3. Running' = Running
    BY <2>1, <2>2 DEF Running
  <2>. QED
    BY <1>4, <2>1, <2>2, <2>3
<1>6. CASE UNCHANGED allVars
  <2>1. UNCHANGED vars /\ host' = host /\ Running' = Running
    BY <1>6 DEF allVars, vars, Running
  <2>. QED
    BY <1>4, <2>1
<1>. QED
  BY <1>1, <1>2, <1>3, <1>5, <1>6 DEF RunNext, Over

\* What the host knows and the invariant of the kernel hold throughout a run.
LEMMA RunHolds == RunSpec => []RunInv
<1>1. RunInv /\ [RunNext]_allVars => RunInv'
  BY HostInvNext, KernelInvNext DEF RunInv
<1>. QED
  BY RunInvInit, <1>1, PTL DEF RunSpec

(***************************************************************************)
(* What holds in every state of a run.                                     *)
(***************************************************************************)
\* A launch of the two schedules is one of the launches of the kernels' proofs.
LEMMA RunningKernel ==
  ASSUME RunInv, Running
  PROVE  /\ launch = Launched(host.problem) /\ host.problem \in Problems
         /\ AbStages(host.problem) >= 1
         /\ \/ launch.schedule = "pingpong" /\ PingInv
            \/ launch.schedule = "cooperative" /\ CoopInv
<1>1. Compiled
  BY DEF Running, Compiled
<1>. QED
  BY <1>1, EnoughStages DEF RunInv, KernelInv, HostInv

\* Every value a running kernel keeps is of its type, the transaction count of a
\* full barrier included: it never goes below zero.
THEOREM RunTypes == RunSpec => []TypeOK
<1>1. RunInv => TypeOK
  <2>. SUFFICES ASSUME RunInv, Running PROVE TypeOK
    BY DEF TypeOK
  <2>1. CASE launch.schedule = "pingpong" /\ PingInv
    <3>1. PICK own, src, n, p, in, load, issued, filled, freed :
            Ring(own, src, n, p, in, load, issued, filled, freed)
      BY <2>1 DEF PingInv, PingRing
    <3>. QED
      BY <2>1, <3>1, PingTypes, RingTypes DEF TypeOK
  <2>2. CASE launch.schedule = "cooperative" /\ CoopInv
    <3>1. PICK own, src, n, p, in, load, issued, filled, freed :
            Ring(own, src, n, p, in, load, issued, filled, freed)
      BY <2>2 DEF CoopInv, CoopRing
    <3>2. CoopPlaces \subseteq {"start", "cross", "done"} \cup MainLoop \cup Epilogue
      BY DEF CoopPlaces, CoopLoop, CoopEpilogue, MainLoop, Epilogue
    <3>. QED
      BY <2>2, <3>1, <3>2, CoopTypes, RingTypes DEF TypeOK
  <2>. QED
    BY <2>1, <2>2, RunningKernel
<1>. QED
  BY <1>1, RunHolds, PTL

\* The parity a warp waits for is enough: for every problem, number of stages, k
\* tiles, warps and tiles, a stage that a warp owns holds every operand of the
\* warp's own tile and k tile, as the caller of run_bs means them, and no load
\* into it is under way.
THEOREM StagesStayIntact == RunSpec => []StageIntact
<1>1. RunInv => StageIntact
  <2>. SUFFICES ASSUME RunInv, Running, NEW w \in Warps(launch),
                       pc[w] \in {"block", "release"}
                PROVE  /\ smem[warp[w].pipe.index] =
                             WantedStage(Linear(warp[w].executed), warp[w].pipe.count)
                       /\ \A x \in inflight : x.stage # warp[w].pipe.index
    BY DEF StageIntact
  <2>. DEFINE t == Linear(warp[w].executed)
  <2>0. /\ launch = Launched(host.problem) /\ host.problem \in Problems
        /\ AbStages(host.problem) >= 1
    BY RunningKernel
  <2>1. CASE launch.schedule = "pingpong" /\ PingInv
    <3>1. /\ smem[warp[w].pipe.index] = Content(t, warp[w].pipe.count)
          /\ \A x \in inflight : x.stage # warp[w].pipe.index
          /\ warp[w].executed \in Nat /\ Valid(warp[w].executed)
      BY <2>1, PingHeld
    <3>2. t \in Nat /\ t < launch.tiles
      <4>1. launch.cta \in Nat /\ launch.grid \in Nat
        BY <2>1 DEF PingInv, PingBasics, OrderInv, Shape, PingLaunches, Launches, Positive
      <4>. QED
        BY <3>1, <4>1 DEF Linear, Valid
    <3>. HIDE DEF t
    <3>3. WantedN(t) = launch.map[TileN(t) + 1]
      BY <2>0, <3>2, WantedColumn
    <3>4. Content(t, warp[w].pipe.count) = WantedStage(t, warp[w].pipe.count)
      BY <3>3 DEF Content, WantedStage, Source
    <3>. QED
      BY <3>1, <3>4 DEF t
  <2>2. CASE launch.schedule = "cooperative" /\ CoopInv
    <3>1. /\ smem[warp[w].pipe.index] = CoopContent(t, warp[w].pipe.count)
          /\ \A x \in inflight : x.stage # warp[w].pipe.index
      BY <2>2, CoopHeld
    <3>2. t \in Nat /\ t < launch.tiles
      <4>1. launch.cta \in Nat /\ launch.grid \in Nat
        BY <2>2 DEF CoopInv, CoopShape, Launches, Positive
      <4>2. warp[w].executed \in Nat /\ Valid(warp[w].executed)
        BY <2>2 DEF CoopInv, CoopAllInPlace, CoopInPlace
      <4>. QED
        BY <4>1, <4>2 DEF Linear, Valid
    <3>. HIDE DEF t
    <3>3. WantedN(t) = TileN(t)
      BY <2>0, <2>2, <3>2, WantedColumn
    <3>4. CoopContent(t, warp[w].pipe.count) = WantedStage(t, warp[w].pipe.count)
      BY <3>3 DEF CoopContent, WantedStage, Source
    <3>. QED
      BY <3>1, <3>4 DEF t
  <2>. QED
    BY <2>1, <2>2, RunningKernel
<1>. QED
  BY <1>1, RunHolds, PTL

\* The groups take turns in a run too.
THEOREM RunGroupsTakeTurns == RunSpec => []OneGroupPerPart
<1>1. RunInv => OneGroupPerPart
  <2>. SUFFICES ASSUME RunInv PROVE OneGroupPerPart
    OBVIOUS
  <2>1. CASE ~Running
    BY <2>1 DEF RunInv, KernelInv, OneGroupPerPart
  <2>2. CASE launch.schedule = "pingpong" /\ PingInv
    BY <2>2, OrderApart DEF PingInv, PingBasics
  <2>3. CASE launch.schedule = "cooperative"
    BY <2>3 DEF OneGroupPerPart
  <2>. QED
    BY <2>1, <2>2, <2>3, RunningKernel
<1>. QED
  BY <1>1, RunHolds, PTL

\* A warp of the ping-pong kernel never ends with a store of its own unread; one
\* of the cooperative kernel leaves at most one store less than there are
\* buffers, whatever their number and that of the slices.
THEOREM RunDrained == RunSpec => []DrainedAtExit
<1>1. RunInv => DrainedAtExit
  <2>. SUFFICES ASSUME RunInv, Running, NEW w \in Warps(launch), pc[w] = "done"
                PROVE  AtMostUnread(w, LeftAtExit)
    BY DEF DrainedAtExit
  <2>1. CASE launch.schedule = "pingpong" /\ PingInv
    <3>1. LeftAtExit = 0 /\ pc[w] \notin Epilogue
      BY <2>1 DEF LeftAtExit, Epilogue
    <3>. QED
      BY <2>1, <3>1 DEF PingInv, Drained
  <2>2. CASE launch.schedule = "cooperative" /\ CoopInv
    BY <2>2 DEF CoopInv, CoopDrained, LeftAtExit
  <2>. QED
    BY <2>1, <2>2, RunningKernel
<1>. QED
  BY <1>1, RunHolds, PTL

\* Whatever the command line lets through compiles, and gets a stage.
THEOREM RunParsedCompiles == RunSpec => []ParsedCompiles
<1>1. RunInv /\ [RunNext]_allVars => RunInv'
  BY HostInvNext, KernelInvNext DEF RunInv
<1>. DEFINE Inv == host.problem.entry = "cli" => host.pc # "refused_compile"
<1>2. RunInv /\ Inv => ParsedCompiles
  BY EnoughStages DEF RunInv, Compiled, ParsedCompiles
<1>3. RunInit => Inv
  BY RunInvInit DEF RunInit
<1>4. ASSUME RunInv, Inv, [RunNext]_allVars PROVE Inv'
  <2>. SUFFICES ASSUME host'.problem.entry = "cli", host'.pc = "refused_compile" PROVE FALSE
    OBVIOUS
  <2>1. CASE Compile
    <3>1. CompileAccepts(host.problem) \in BOOLEAN
      BY DEF CompileAccepts
    <3>2. ~CompileAccepts(host.problem) /\ host.pc = "compile" /\ host'.problem = host.problem
      BY <1>4, <2>1, <3>1, HostStep DEF RunInv, Compile
    <3>3. CliAccepts(host.problem) /\ RunAccepts(host.problem) /\ WellFormed(host.problem)
      BY <1>4, <3>2, ProblemsAssumption DEF RunInv, HostInv, Parsed, Checked
    <3>. QED
      BY <3>2, <3>3, CliStages DEF CompileAccepts
  <2>2. CASE ParseArguments
    <3>1. CliAccepts(host.problem) \in BOOLEAN
      BY DEF CliAccepts
    <3>. QED
      BY <1>4, <2>2, <3>1, HostStep DEF RunInv, ParseArguments
  <2>3. CASE CheckProblem
    <3>1. RunAccepts(host.problem) \in BOOLEAN
      BY DEF RunAccepts
    <3>. QED
      BY <1>4, <2>3, <3>1, HostStep DEF RunInv, CheckProblem
  <2>4. CASE FinalExecution \/ Return
    BY <1>4, <2>4 DEF FinalExecution, Return, RunInv, HostInv
  <2>5. CASE UNCHANGED host
    BY <1>4, <2>5
  <2>. QED
    BY <1>4, <2>1, <2>2, <2>3, <2>4, <2>5 DEF RunNext, Over, Kernel, allVars
<1>5. RunInv /\ Inv /\ [RunNext]_allVars => Inv'
  BY <1>4
<1>. HIDE DEF Inv
<1>. QED
  BY <1>1, <1>2, <1>3, <1>5, RunInvInit, PTL DEF RunSpec

\* On an SM120 GPU (101376 bytes), for the tile shapes of the command line and
\* every epilogue tile from its smallest to its largest, what is launched fits
\* the shared memory and the order barriers end before the first buffer.
THEOREM RunStorageFits ==
  ASSUME SmemCapacity = 101376,
         \A p \in Problems : p.tile \in CliTiles /\ p.epi \in EpiShapes
  PROVE  RunSpec => []StorageFits
<1>1. RunInv => StorageFits
  <2>. SUFFICES ASSUME RunInv, Compiled
                PROVE  /\ OrderBarrierAt(host.problem) + 8 * OrderBarriers(host.problem)
                            <= FirstBufferAt(host.problem)
                       /\ StorageEnd(host.problem) <= SmemCapacity - Occupancy * 1024
    BY DEF StorageFits, Compiled
  <2>1. WellFormed(host.problem) /\ AbStages(host.problem) >= 1
    BY EnoughStages DEF RunInv
  <2>2. Width(host.problem.c) = 16 /\ MmaOp(host.problem) # "none"
    BY DEF RunInv, HostInv, Checked, Parsed, Compiled, RunAccepts, CompileAccepts
  <2>3. host.problem.tile \in CliTiles /\ host.problem.epi \in EpiShapes
    BY DEF RunInv, HostInv
  <2>. QED
    BY <2>1, <2>2, <2>3, StorageLayout
<1>. QED
  BY <1>1, RunHolds, PTL

(***************************************************************************)
(* What the run stores.                                                    *)
(***************************************************************************)
OutShape ==
    /\ DOMAIN out = 0 .. launch.tiles - 1
    /\ \A t \in DOMAIN out : DOMAIN out[t] = 0 .. launch.epiTiles - 1

\* Of both kernels: the sums the warps carry, the buffers and the stores.
OutputInv ==
    Running =>
      /\ OutShape
      /\ launch.schedule = "pingpong" => PingSums /\ EpilogueInv
      /\ launch.schedule = "cooperative" => CoopSums /\ CoopEpilogueInv

\* Two MMA blocks at least in every k tile of a ping-pong launch.
TwoBlocksEach == \A p \in Problems : p.schedule = "pingpong" => p.tile[3] >= 2 * MmaK(p)

LEMMA OutShapeKept ==
  ASSUME OutShape, [PingNext]_vars \/ [CoopNext]_vars
  PROVE  OutShape'
<1>1. launch' = launch
  BY KernelKeepsLaunch
<1>2. ASSUME out' = out PROVE OutShape'
  BY <1>1, <1>2 DEF OutShape
<1>3. ASSUME NEW w \in Warps(launch), NEW i \in DOMAIN stores[w], ReadStore(w, i)
      PROVE  OutShape'
  <2>1. PICK t, e, x : out' = [out EXCEPT ![t][e] = Append(out[t][e], x)]
    BY <1>3 DEF ReadStore
  <2>2. DOMAIN out' = DOMAIN out /\ \A u \in DOMAIN out : DOMAIN out'[u] = DOMAIN out[u]
    BY <2>1
  <2>. QED
    BY <1>1, <2>2 DEF OutShape
<1>4. ASSUME NEW w \in Warps(launch), PingWarp(w) PROVE out' = out
  BY <1>4 DEF PingWarp, StartTile, ExitLoop, FirstBlock, CopyThenMultiply, ReleaseStage,
              NextStage, LeaveMainLoop, EnterEpilogue, SyncBeforeWrite, WriteSlice,
              StoreSlice, AcquireBuffer, FinishTile, UnchangedInLoop, UnchangedButWarp
<1>5. ASSUME NEW w \in Warps(launch), CoopWarp(w) PROVE out' = out
  BY <1>5 DEF CoopWarp, CoopExitLoop, CoopFirstBlock, MultiplyAndCopy, CoopReleaseStage,
              CoopNextStage, CoopLeaveMainLoop, CoopSyncBeforeWrite, CoopWriteSlice,
              CoopStoreSlice, CoopAcquireBuffer, UnchangedInLoop, UnchangedButWarp
<1>6. CASE \/ UNCHANGED vars \/ LoadStage \/ CoopLoadStage \/ LoaderTail \/ CoopLoaderTail
           \/ \E x \in inflight : Land(x)
  BY <1>2, <1>6 DEF vars, LoadStage, CoopLoadStage, LoadFrom, LoaderTail, CoopLoaderTail,
                    DrainLoader, Land
<1>. QED
  BY <1>2, <1>3, <1>4, <1>5, <1>6 DEF PingNext, CoopNext

\* The first state of a kernel, and the same of a state further on.
LEMMA PingFresh == PingInit => PingSums /\ EpilogueInv
BY EpilogueInit

LEMMA PingFreshThen == PingInit' => PingSums' /\ EpilogueInv'
BY PingFresh, PTL

LEMMA CoopFresh == CoopInit => CoopSums /\ CoopEpilogueInv
BY CoopEpilogueInit

LEMMA CoopFreshThen == CoopInit' => CoopSums' /\ CoopEpilogueInv'
BY CoopFresh, PTL

LEMMA EnoughBlocks ==
  ASSUME TwoBlocksEach, RunInv, Running, launch.schedule = "pingpong"
  PROVE  TwoBlocks
<1>1. /\ launch = Launched(host.problem) /\ host.problem \in Problems
      /\ WellFormed(host.problem)
  BY RunningKernel, ProblemsAssumption
<1>2. PICK x, y : x = host.problem.tile[3] /\ y = MmaK(host.problem)
  OBVIOUS
<1>3. launch.kBlocks = x \div y /\ host.problem.schedule = "pingpong"
  BY <1>1, <1>2 DEF Launched
<1>4. y \in {32, 64} /\ x >= 2 * y /\ x \in Nat
  BY <1>1, <1>2, <1>3 DEF TwoBlocksEach, MmaK, WellFormed, Positive
<1>5. x \div y >= 2
  <2>1. \A z \in Nat : (z >= 64 => z \div 32 >= 2) /\ (z >= 128 => z \div 64 >= 2)
    OBVIOUS
  <2>. QED
    BY <1>4, <2>1
<1>. QED
  BY <1>3, <1>5 DEF TwoBlocks

LEMMA OutputInvNext ==
  ASSUME TwoBlocksEach, RunInv, RunInv', OutputInv, [RunNext]_allVars
  PROVE  OutputInv'
<1>1. CASE FinalExecution
  <2>1. /\ launch' = Launched(host.problem) /\ FreshMachine' /\ host'.pc = "running"
        /\ launch'.schedule \in {"pingpong", "cooperative"}
        /\ launch'.schedule = "pingpong" => PingInit'
        /\ launch'.schedule = "cooperative" => CoopInit'
    BY <1>1, LaunchStarts DEF RunInv
  <2>2. OutShape'
    BY <2>1 DEF OutShape, FreshMachine, FreshOut
  <2>. QED
    BY <2>1, <2>2, PingFreshThen, CoopFreshThen DEF OutputInv
<1>2. ASSUME Running' => Running, Running' => [PingNext]_vars \/ [CoopNext]_vars,
             Running' /\ launch.schedule = "pingpong" => [PingNext]_vars,
             Running' /\ launch.schedule = "cooperative" => [CoopNext]_vars
      PROVE  OutputInv'
  <2>. SUFFICES ASSUME Running'
                PROVE  /\ OutShape'
                       /\ launch'.schedule = "pingpong" => PingSums' /\ EpilogueInv'
                       /\ launch'.schedule = "cooperative" => CoopSums' /\ CoopEpilogueInv'
    BY DEF OutputInv
  <2>1. launch' = launch /\ OutShape' /\ Running
    BY <1>2, KernelKeepsLaunch, OutShapeKept DEF OutputInv
  <2>2. CASE launch.schedule = "pingpong"
    <3>1. PingInv /\ PingInv' /\ PingSums /\ EpilogueInv /\ [PingNext]_vars
      BY <1>2, <2>1, <2>2 DEF RunInv, KernelInv, OutputInv
    <3>2. TwoBlocks
      BY <2>1, <2>2, EnoughBlocks
    <3>. QED
      BY <2>1, <2>2, <3>1, <3>2, SumsNext, EpilogueNext
  <2>3. CASE launch.schedule = "cooperative"
    <3>1. CoopInv /\ CoopInv' /\ CoopSums /\ CoopEpilogueInv /\ [CoopNext]_vars
      BY <1>2, <2>1, <2>3 DEF RunInv, KernelInv, OutputInv
    <3>. QED
      BY <2>1, <2>3, <3>1, CoopSumsNext, CoopEpilogueNext
  <2>. QED
    BY <2>1, <2>2, <2>3
<1>3. CASE Kernel
  <2>1. /\ host' = host /\ host.pc = "running"
        /\ \/ launch.schedule = "pingpong" /\ PingNext
           \/ launch.schedule = "cooperative" /\ CoopNext
    BY <1>3 DEF Kernel
  <2>. QED
    BY <1>2, <2>1 DEF Running
<1>4. CASE ParseArguments \/ CheckProblem \/ Compile
  <2>1. ASSUME NEW from, NEW to, NEW otherwise, NEW accepted \in BOOLEAN,
               Host(from, accepted, to, otherwise),
               \A p \in {to, otherwise} : p \notin {"running", "returned"}
        PROVE  ~Running'
    <3>1. host'.pc = IF accepted THEN to ELSE otherwise
      BY <2>1, HostStep DEF RunInv
    <3>2. host'.pc \in {to, otherwise}
      BY <3>1
    <3>. QED
      BY <2>1, <3>2 DEF Running
  <2>2. /\ CliAccepts(host.problem) \in BOOLEAN /\ RunAccepts(host.problem) \in BOOLEAN
        /\ CompileAccepts(host.problem) \in BOOLEAN
    BY DEF CliAccepts, RunAccepts, CompileAccepts
  <2>3. ~Running'
    BY <1>4, <2>1, <2>2 DEF ParseArguments, CheckProblem, Compile
  <2>. QED
    BY <2>3 DEF OutputInv
<1>5. CASE Return
  <2>1. UNCHANGED vars /\ Running
    BY <1>5 DEF Return, Running
  <2>. QED
    BY <1>2, <2>1
<1>6. CASE UNCHANGED allVars
  <2>1. UNCHANGED vars /\ Running' = Running
    BY <1>6 DEF allVars, vars, Running
  <2>. QED
    BY <1>2, <2>1
<1>. QED
  BY <1>1, <1>3, <1>4, <1>5, <1>6 DEF RunNext, Over

\* The sum of a tile's blocks is the product of the tile, when its k tiles are
\* what the caller means.
LEMMA ProductIsSum ==
  ASSUME launch.kBlocks \in Nat, launch.kBlocks > 0, launch.kTiles \in Nat,
         NEW t, NEW f, \A k \in Nat : f[k] = WantedStage(t, k)
  PROVE  Sum(f) = Product(t)
<1>1. launch.kBlocks * launch.kTiles = launch.kTiles * launch.kBlocks
  OBVIOUS
<1>2. PICK n \in Nat : n = launch.kTiles * launch.kBlocks
  OBVIOUS
<1>3. ASSUME NEW i \in 1 .. n
      PROVE  Piece(f, (i - 1) \div launch.kBlocks, (i - 1) % launch.kBlocks) =
                [block |-> (i - 1) % launch.kBlocks,
                 from |-> WantedStage(t, (i - 1) \div launch.kBlocks)]
  <2>1. i - 1 \in Nat
    BY <1>2
  <2>2. (i - 1) \div launch.kBlocks \in Nat
    BY <2>1, Division
  <2>. QED
    BY <2>2 DEF Piece
<1>. QED
  BY <1>1, <1>2, <1>3 DEF Sum, Partial, Product

\* Whatever reaches the output is, for its tile and slice, the product the caller
\* asked for, from all warps and once: for every problem, number of stages,
\* tiles, slices, buffers and warps.  A k tile of the ping-pong kernel has to
\* have two MMA blocks, as every tile shape of the command line has; its main
\* loop multiplies the last block after the first of the next k tile is copied.
THEOREM OutputStaysRight ==
  ASSUME TwoBlocksEach
  PROVE  RunSpec => []OutputRight
<1>1. RunInit => OutputInv
  BY DEF RunInit, OutputInv, Running
<1>2. RunInv /\ RunInv' /\ OutputInv /\ [RunNext]_allVars => OutputInv'
  BY OutputInvNext
<1>3. RunInv /\ OutputInv => OutputRight
  <2>. SUFFICES ASSUME RunInv, OutputInv, Running,
                       NEW t \in DOMAIN out, NEW e \in DOMAIN out[t]
                PROVE  out[t][e] \in {<<>>, <<Slice(t, e)>>}
    BY DEF OutputRight
  <2>1. /\ launch = Launched(host.problem) /\ host.problem \in Problems
        /\ AbStages(host.problem) >= 1
    BY RunningKernel
  <2>2. PICK schedule : launch \in Launches(schedule)
    BY <2>1, LaunchIsLaunch, ProblemsAssumption
  <2>3. /\ launch.kBlocks \in Nat /\ launch.kBlocks > 0 /\ launch.kTiles \in Nat
        /\ launch.tiles \in Nat /\ launch.epiTiles \in Nat
    BY <2>2 DEF Launches, Positive
  <2>4. t \in Nat /\ t < launch.tiles /\ e \in Nat
    BY <2>3 DEF OutputInv, OutShape
  <2>5. /\ WantedN(t) = launch.map[TileN(t) + 1]
        /\ launch.schedule = "cooperative" => WantedN(t) = TileN(t)
    BY <2>1, <2>4, WantedColumn
  <2>6. CASE launch.schedule = "pingpong"
    <3>1. \A k \in Nat : TileAt(t)[k] = WantedStage(t, k)
      BY <2>5 DEF TileAt, Content, WantedStage, Source
    <3>2. Sum(TileAt(t)) = Product(t)
      <4>1. PICK f : f = TileAt(t)
        OBVIOUS
      <4>. QED
        BY <2>3, <3>1, <4>1, ProductIsSum
    <3>3. SliceOf(t, e) = Slice(t, e)
      BY <2>6, <3>2 DEF SliceOf, Slice, Slots
    <3>. QED
      BY <2>4, <2>6, <3>3, PingOutput DEF OutputInv
  <2>7. CASE launch.schedule = "cooperative"
    <3>1. \A k \in Nat : CoopTileAt(t)[k] = WantedStage(t, k)
      BY <2>5, <2>7 DEF CoopTileAt, CoopContent, WantedStage, Source
    <3>2. Sum(CoopTileAt(t)) = Product(t)
      <4>1. PICK f : f = CoopTileAt(t)
        OBVIOUS
      <4>. QED
        BY <2>3, <3>1, <4>1, ProductIsSum
    <3>3. CoopSliceOf(t, e) = Slice(t, e)
      BY <2>7, <3>2 DEF CoopSliceOf, Slice, Slots
    <3>. QED
      BY <2>4, <2>7, <3>3, CoopOutput DEF OutputInv
  <2>. QED
    BY <2>6, <2>7, RunningKernel
<1>4. RunInv /\ [RunNext]_allVars => RunInv'
  BY HostInvNext, KernelInvNext DEF RunInv
<1>. QED
  BY <1>1, <1>2, <1>3, <1>4, RunInvInit, PTL DEF RunSpec

(***************************************************************************)
(* The tiles pass in order.  Of the warps W and the tiles T: mine[w] are   *)
(* the tiles w has a share in, of which it has begun and ended some in one *)
(* part of the kernel.  No warp begins a tile there before all that have a *)
(* share in an earlier one have ended that one.                            *)
(***************************************************************************)
InTurn(W, T, mine, begun, ended) ==
    /\ IsFiniteSet(T) /\ T \subseteq Nat
    /\ \A w \in W : /\ mine[w] \subseteq T
                    /\ begun[w] \subseteq mine[w] /\ ended[w] \subseteq begun[w]
    /\ \A j \in T : \E w \in W : j \in mine[w]
    /\ \A v, w \in W : \A j \in begun[w] : \A i \in mine[v] : i < j => i \in ended[v]

BegunBy(W, begun) == UNION {begun[w] : w \in W}

EndedBy(W, T, mine, ended) ==
    {j \in T : \A w \in W : j \in mine[w] => j \in ended[w]}

\* So at most one tile has been begun and not ended by all.
LEMMA OneAtATime ==
  ASSUME NEW W, NEW T, NEW mine, NEW begun, NEW ended, InTurn(W, T, mine, begun, ended),
         NEW B, NEW D, B = BegunBy(W, begun), D = EndedBy(W, T, mine, ended)
  PROVE  /\ IsFiniteSet(B) /\ IsFiniteSet(D) /\ D \subseteq B /\ B \subseteq T
         /\ Cardinality(B) \in Nat /\ Cardinality(D) \in Nat /\ Cardinality(T) \in Nat
         /\ Cardinality(B) = Cardinality(D) \/ Cardinality(B) = Cardinality(D) + 1
         /\ Cardinality(B) <= Cardinality(T)
         /\ \A j \in B : \A i \in T : i < j => i \in D
<1>1. B \subseteq T
  BY DEF InTurn, BegunBy
<1>2. D \subseteq B
  <2>. SUFFICES ASSUME NEW j \in D PROVE j \in B
    OBVIOUS
  <2>1. PICK w \in W : j \in mine[w]
    BY DEF InTurn, EndedBy
  <2>2. j \in begun[w]
    BY <2>1 DEF InTurn, EndedBy
  <2>. QED
    BY <2>2 DEF BegunBy
<1>3. \A j \in B : \A i \in T : i < j => i \in D
  BY DEF InTurn, BegunBy, EndedBy
<1>4. /\ IsFiniteSet(B) /\ IsFiniteSet(D) /\ Cardinality(B) <= Cardinality(T)
      /\ Cardinality(B) \in Nat /\ Cardinality(D) \in Nat /\ Cardinality(T) \in Nat
  <2>1. IsFiniteSet(T)
    BY DEF InTurn
  <2>2. IsFiniteSet(B) /\ Cardinality(B) <= Cardinality(T)
    BY <1>1, <2>1, FS_Subset
  <2>3. IsFiniteSet(D)
    BY <1>2, <2>2, FS_Subset
  <2>. QED
    BY <2>1, <2>2, <2>3, FS_CardinalityType
<1>5. Cardinality(B) = Cardinality(D) \/ Cardinality(B) = Cardinality(D) + 1
  <2>1. CASE B = D
    BY <2>1
  <2>2. ASSUME NEW x \in B, x \notin D
        PROVE  Cardinality(B) = Cardinality(D) + 1
    <3>1. ASSUME NEW y \in B, y \notin D PROVE y = x
      <4>1. x \in T /\ y \in T /\ x \in Nat /\ y \in Nat
        BY <1>1 DEF InTurn
      <4>2. ~(x < y) /\ ~(y < x)
        BY <1>3, <2>2, <3>1, <4>1
      <4>. QED
        BY <4>1, <4>2
    <3>2. B = D \cup {x}
      BY <1>2, <2>2, <3>1
    <3>. QED
      BY <1>4, <2>2, <3>2, FS_AddElement
  <2>. QED
    BY <1>2, <2>1, <2>2
<1>. QED
  BY <1>1, <1>2, <1>3, <1>4, <1>5

\* A step in which warps begin tiles, or end them, and not both: nothing is seen
\* from outside, or one more tile has begun, or one more has ended.
OneMore(b, d, b2, d2, limit) ==
    \/ b2 = b /\ d2 = d
    \/ d2 = d /\ b = d /\ b2 = b + 1 /\ b2 <= limit
    \/ b2 = b /\ d < b /\ d2 = d + 1

LEMMA OneMoves ==
  ASSUME NEW W, NEW T, NEW mine, NEW begun, NEW ended, NEW begun2, NEW ended2,
         InTurn(W, T, mine, begun, ended), InTurn(W, T, mine, begun2, ended2),
         \/ \A w \in W : begun[w] \subseteq begun2[w] /\ ended2[w] = ended[w]
         \/ \A w \in W : ended[w] \subseteq ended2[w] /\ begun2[w] = begun[w]
  PROVE  OneMore(Cardinality(BegunBy(W, begun)), Cardinality(EndedBy(W, T, mine, ended)),
                 Cardinality(BegunBy(W, begun2)), Cardinality(EndedBy(W, T, mine, ended2)),
                 Cardinality(T))
<1>1. PICK B, D, B2, D2 :
        /\ B = BegunBy(W, begun) /\ D = EndedBy(W, T, mine, ended)
        /\ B2 = BegunBy(W, begun2) /\ D2 = EndedBy(W, T, mine, ended2)
  OBVIOUS
<1>2. /\ IsFiniteSet(B) /\ IsFiniteSet(D) /\ Cardinality(B) \in Nat /\ Cardinality(D) \in Nat
      /\ Cardinality(B) = Cardinality(D) \/ Cardinality(B) = Cardinality(D) + 1
  BY <1>1, OneAtATime
<1>3. /\ IsFiniteSet(B2) /\ IsFiniteSet(D2) /\ Cardinality(B2) \in Nat /\ Cardinality(D2) \in Nat
      /\ Cardinality(B2) = Cardinality(D2) \/ Cardinality(B2) = Cardinality(D2) + 1
      /\ Cardinality(B2) <= Cardinality(T)
  BY <1>1, OneAtATime
<1>4. CASE \A w \in W : begun[w] \subseteq begun2[w] /\ ended2[w] = ended[w]
  <2>1. B \subseteq B2 /\ D2 = D
    BY <1>1, <1>4 DEF BegunBy, EndedBy
  <2>2. Cardinality(B) <= Cardinality(B2) /\ Cardinality(D2) = Cardinality(D)
    BY <1>3, <2>1, FS_Subset
  <2>. QED
    BY <1>1, <1>2, <1>3, <2>2 DEF OneMore
<1>5. CASE \A w \in W : ended[w] \subseteq ended2[w] /\ begun2[w] = begun[w]
  <2>1. B2 = B /\ D \subseteq D2
    BY <1>1, <1>5 DEF BegunBy, EndedBy
  <2>2. Cardinality(B2) = Cardinality(B) /\ Cardinality(D) <= Cardinality(D2)
    BY <1>3, <2>1, FS_Subset
  <2>. QED
    BY <1>1, <1>2, <1>3, <2>2 DEF OneMore
<1>. QED
  BY <1>4, <1>5

(***************************************************************************)
(* What the abstract pipeline sees of a running kernel.                    *)
(***************************************************************************)
ShareOf == [w \in Warps(launch) |-> Mine(w)]
EnteredOf == [w \in Warps(launch) |-> Entered(w)]
MultipliedOf == [w \in Warps(launch) |-> Multiplied(w)]
OpenedOf == [w \in Warps(launch) |-> Opened(w)]
ClosedOf == [w \in Warps(launch) |-> Before(w)]

LoopInTurn == InTurn(Warps(launch), TilesOf, ShareOf, EnteredOf, MultipliedOf)
BuffersInTurn == InTurn(Warps(launch), TilesOf, ShareOf, OpenedOf, ClosedOf)

Ended(ended) == EndedBy(Warps(launch), TilesOf, ShareOf, ended)

LEMMA SeenOfKernel ==
  ASSUME Running
  PROVE  /\ Some(Entered) = Cardinality(BegunBy(Warps(launch), EnteredOf))
         /\ Some(Opened) = Cardinality(BegunBy(Warps(launch), OpenedOf))
         /\ Every(Multiplied) = Cardinality(Ended(MultipliedOf))
         /\ Every(Before) = Cardinality(Ended(ClosedOf))
<1>1. /\ UNION {Entered(w) : w \in Warps(launch)} = BegunBy(Warps(launch), EnteredOf)
      /\ UNION {Opened(w) : w \in Warps(launch)} = BegunBy(Warps(launch), OpenedOf)
  BY DEF BegunBy, EnteredOf, OpenedOf
<1>2. /\ {j \in TilesOf : \A w \in Warps(launch) : j \in Mine(w) => j \in Multiplied(w)} =
            Ended(MultipliedOf)
      /\ {j \in TilesOf : \A w \in Warps(launch) : j \in Mine(w) => j \in Before(w)} =
            Ended(ClosedOf)
  BY DEF Ended, EndedBy, MultipliedOf, ClosedOf, ShareOf
<1>. QED
  BY <1>1, <1>2 DEF Some, Every

LEMMA SeenThen ==
  Running' => (/\ Some(Entered) = Cardinality(BegunBy(Warps(launch), EnteredOf))
               /\ Some(Opened) = Cardinality(BegunBy(Warps(launch), OpenedOf))
               /\ Every(Multiplied) = Cardinality(Ended(MultipliedOf))
               /\ Every(Before) = Cardinality(Ended(ClosedOf)))'
BY SeenOfKernel, PTL

(***************************************************************************)
(* The tiles of the CTA are the first so many of its counting.             *)
(***************************************************************************)
\* How the linear number of a tile grows with its count.
LEMMA LinearGrows ==
  ASSUME launch.cta \in Nat, launch.grid \in Nat, launch.grid > 0,
         NEW i \in Nat, NEW j \in Nat
  PROVE  /\ Linear(j) \in Nat /\ j <= Linear(j)
         /\ i < j => Linear(i) < Linear(j)
<1>. DEFINE g == launch.grid  c == launch.cta
<1>1. PICK h \in Nat : g = h + 1
  <2>1. g - 1 \in Nat /\ g = (g - 1) + 1
    OBVIOUS
  <2>. QED
    BY <2>1
<1>2. g * j = h * j + j /\ h * j \in Nat
  BY <1>1
<1>3. i < j => g * i + g <= g * j
  BY Multiples
<1>4. g * i \in Nat /\ g * j \in Nat
  OBVIOUS
<1>5. Linear(j) = c + g * j /\ Linear(i) = c + g * i
  BY DEF Linear
<1>. DEFINE x == g * i  y == g * j  z == h * j
<1>6. z \in Nat /\ y = z + j /\ x \in Nat /\ y \in Nat /\ (i < j => x + g <= y)
  BY <1>2, <1>3, <1>4
<1>7. Linear(j) = c + y /\ Linear(i) = c + x
  BY <1>5
<1>. HIDE DEF x, y, z
<1>. QED
  BY <1>6, <1>7

\* The multiples up to a number.
LEMMA UpTo ==
  ASSUME NEW g \in Nat, g > 0, NEW x \in Nat
  PROVE  \E q \in Nat : \A j \in Nat : g * j <= x <=> j <= q
<1>1. PICK q, r : q = x \div g /\ r = x % g
  OBVIOUS
<1>2. q \in Nat /\ r \in 0 .. g - 1 /\ x = g * q + r
  BY <1>1, Division
<1>3. g * q \in Nat
  BY <1>2
<1>4. ASSUME NEW j \in Nat PROVE g * j <= x <=> j <= q
  <2>. DEFINE y == g * j  z == g * q
  <2>1. y \in Nat /\ z \in Nat /\ x = z + r
    BY <1>2, <1>3
  <2>2. j < q => y + g <= z
    BY <1>2, Multiples
  <2>3. q < j => z + g <= y
    BY <1>2, Multiples
  <2>4. j = q => y = z
    OBVIOUS
  <2>. HIDE DEF y, z
  <2>5. y <= x <=> j <= q
    BY <1>2, <2>1, <2>2, <2>3, <2>4
  <2>. QED
    BY <2>5 DEF y
<1>. QED
  BY <1>2, <1>4

LEMMA TilesOfCta ==
  ASSUME NEW schedule, launch \in Launches(schedule), Running
  PROVE  /\ IsFiniteSet(TilesOf) /\ TilesOf \subseteq Nat
         /\ Cardinality(TilesOf) \in Nat /\ TilesOf = 0 .. Cardinality(TilesOf) - 1
         /\ \A j \in Nat : j \in TilesOf <=> Valid(j)
<1>1. /\ launch.cta \in Nat /\ launch.grid \in Nat /\ launch.grid > 0
      /\ launch.tiles \in Nat
  BY DEF Launches, Positive
<1>2. \A j \in Nat : j \in TilesOf <=> Valid(j)
  <2>1. ASSUME NEW j \in Nat, Valid(j) PROVE j \in 0 .. launch.tiles - 1
    <3>1. j <= Linear(j) /\ Linear(j) \in Nat
      BY <1>1, LinearGrows
    <3>. QED
      BY <1>1, <2>1, <3>1 DEF Valid
  <2>. QED
    BY <2>1 DEF TilesOf
<1>3. PICK n \in Nat : \A j \in Nat : Valid(j) <=> j < n
  <2>1. CASE launch.cta < launch.tiles
    <3>. DEFINE g == launch.grid  x == launch.tiles - 1 - launch.cta
    <3>1. x \in Nat /\ g \in Nat /\ g > 0
      BY <1>1, <2>1
    <3>. HIDE DEF x, g
    <3>2. PICK q \in Nat : \A j \in Nat : g * j <= x <=> j <= q
      BY <3>1, UpTo
    <3>. USE DEF x, g
    <3>3. ASSUME NEW j \in Nat PROVE Valid(j) <=> j <= q
      <4>. DEFINE y == g * j
      <4>1. Linear(j) = launch.cta + y /\ y \in Nat
        BY <3>1 DEF Linear
      <4>2. y <= x <=> j <= q
        BY <3>2
      <4>. HIDE DEF y
      <4>. QED
        BY <1>1, <4>1, <4>2 DEF Valid
    <3>4. \A j \in Nat : Valid(j) <=> j < q + 1
      BY <3>2, <3>3
    <3>5. q + 1 \in Nat
      BY <3>2
    <3>. QED
      BY <3>4, <3>5
  <2>2. CASE ~(launch.cta < launch.tiles)
    <3>1. ASSUME NEW j \in Nat PROVE ~Valid(j)
      <4>1. launch.grid * j \in Nat
        BY <1>1
      <4>. QED
        BY <1>1, <2>2, <4>1 DEF Valid, Linear
    <3>. QED
      BY <3>1
  <2>. QED
    BY <2>1, <2>2
<1>4. TilesOf = 0 .. n - 1
  <2>1. TilesOf \subseteq Nat
    BY <1>1 DEF TilesOf
  <2>2. \A j : j \in 0 .. n - 1 <=> j \in Nat /\ j < n
    BY <1>3
  <2>. QED
    BY <1>2, <1>3, <2>1, <2>2
<1>5. IsFiniteSet(TilesOf) /\ Cardinality(TilesOf) = n
  <2>1. n - 1 \in Int /\ 0 \in Int
    OBVIOUS
  <2>2. /\ IsFiniteSet(0 .. n - 1)
        /\ Cardinality(0 .. n - 1) = IF 0 > n - 1 THEN 0 ELSE n - 1 - 0 + 1
    BY <2>1, FS_Interval
  <2>. QED
    BY <1>4, <2>2
<1>. QED
  BY <1>2, <1>4, <1>5

(***************************************************************************)
(* In both kernels the tiles pass in turn: through the main loop, through  *)
(* the buffers of the epilogue, and through the first before the second.   *)
(***************************************************************************)
AllInTurn ==
    /\ LoopInTurn /\ BuffersInTurn
    /\ BegunBy(Warps(launch), OpenedOf) \subseteq Ended(MultipliedOf)

\* It is enough to look at one warp and the tiles of another.
LEMMA InTurnOfWarps ==
  ASSUME NEW schedule, launch \in Launches(schedule), Running,
         \A j \in TilesOf : \E w \in Warps(launch) : j \in Mine(w),
         \A w \in Warps(launch) : pc[w] \notin {"start", "done"} => warp[w].executed \in Mine(w),
         \A v, w \in Warps(launch) : \A i \in Mine(v) :
            /\ \A j \in Entered(w) : i < j => i \in Multiplied(v)
            /\ \A j \in Opened(w) : i < j => i \in Before(v)
            /\ i \in Opened(w) => i \in Multiplied(v)
  PROVE  AllInTurn
<1>1. IsFiniteSet(TilesOf) /\ TilesOf \subseteq Nat
  BY TilesOfCta
<1>2. ASSUME NEW w \in Warps(launch)
      PROVE  /\ Mine(w) \subseteq TilesOf /\ Before(w) \subseteq Mine(w)
             /\ Entered(w) \subseteq Mine(w) /\ Opened(w) \subseteq Mine(w)
             /\ Multiplied(w) \subseteq Entered(w) /\ Before(w) \subseteq Opened(w)
  <2>1. Mine(w) \subseteq TilesOf /\ Before(w) \subseteq Mine(w)
    BY DEF Mine, TilesOf, Before
  <2>2. \A pcs : pcs \subseteq MainLoop \cup Epilogue \cup {"cross"} =>
            On(w, pcs) \subseteq Mine(w)
    BY DEF On, MainLoop, Epilogue
  <2>3. HasBuffers(w) => warp[w].executed \in Mine(w)
    BY DEF HasBuffers
  <2>. QED
    BY <2>1, <2>2, <2>3 DEF Entered, Multiplied, Opened, On
<1>3. LoopInTurn
  BY <1>1, <1>2 DEF LoopInTurn, InTurn, ShareOf, EnteredOf, MultipliedOf
<1>4. BuffersInTurn
  BY <1>1, <1>2 DEF BuffersInTurn, InTurn, ShareOf, OpenedOf, ClosedOf
<1>5. BegunBy(Warps(launch), OpenedOf) \subseteq Ended(MultipliedOf)
  BY <1>2 DEF BegunBy, Ended, EndedBy, OpenedOf, ShareOf, MultipliedOf
<1>. QED
  BY <1>3, <1>4, <1>5 DEF AllInTurn

LEMMA PingInTurn ==
  ASSUME PingInv, LinedUp, Running, launch.schedule = "pingpong"
  PROVE  AllInTurn
<1>1. launch \in PingLaunches /\ launch \in Launches("pingpong") /\ Shape
  BY DEF PingInv, PingBasics, OrderInv, Shape, PingLaunches
<1>2. PICK n0, a0, n1, a1 : InStep(n0, a0, n1, a1)
  BY DEF PingInv, PingBasics, OrderInv
<1>3. /\ TilesOf \subseteq Nat
      /\ \A j \in Nat : j \in TilesOf <=> Valid(j)
      /\ \A w : \A j : j \in Mine(w) <=> j \in TilesOf /\ j % 2 = w[1]
  BY <1>1, TilesOfCta DEF Mine, TilesOf
<1>4. ASSUME NEW w \in Warps(launch)
      PROVE  /\ Base(w) = 2 * a0[w] + w[1] /\ Base(w) \in Nat
             /\ warp[w].executed = 2 * a1[w] + w[1] /\ warp[w].executed \in Nat
             /\ warp[w].executed % 2 = w[1]
             /\ pc[w] \notin {"start", "done"} => warp[w].executed \in Mine(w)
  <2>1. Base(w) = 2 * a0[w] + w[1] /\ a0[w] \in Nat
    BY <1>1, <1>2, TilesOfGroup
  <2>2. warp[w].executed = 2 * a1[w] + w[1] /\ a1[w] \in Nat
    BY <1>2 DEF InStep, Counts
  <2>3. w[1] = 0 \/ w[1] = 1
    BY <1>1, WarpGroup
  <2>4. warp[w].executed % 2 = w[1] /\ warp[w].executed \in Nat /\ Base(w) \in Nat
    BY <2>1, <2>2, <2>3
  <2>5. pc[w] \notin {"start", "done"} => Valid(warp[w].executed)
    BY DEF PingInv, PingBasics, AllInPlace, InPlace
  <2>. QED
    BY <1>3, <2>1, <2>2, <2>4, <2>5
<1>5. ASSUME NEW j \in TilesOf PROVE \E w \in Warps(launch) : j \in Mine(w)
  <2>1. j % 2 \in {0, 1} /\ launch.warps \in Nat /\ launch.warps > 0
    BY <1>1, <1>3, LaunchNumbers
  <2>2. <<j % 2, 0>> \in Warps(launch)
    BY <2>1 DEF Warps, Groups
  <2>. QED
    BY <1>3, <2>2
<1>6. ASSUME NEW v \in Warps(launch), NEW w \in Warps(launch), NEW i \in Mine(v)
      PROVE  /\ \A j \in Entered(w) : i < j => i \in Multiplied(v)
             /\ \A j \in Opened(w) : i < j => i \in Before(v)
             /\ i \in Opened(w) => i \in Multiplied(v)
  <2>1. i \in Nat /\ i % 2 = v[1] /\ (v[1] = 0 \/ v[1] = 1)
    BY <1>1, <1>3, WarpGroup
  <2>2. /\ warp[v].executed \in Nat /\ warp[v].executed % 2 = v[1]
        /\ warp[w].executed \in Nat /\ warp[w].executed % 2 = w[1]
    BY <1>4
  <2>3. ASSUME i < Base(v) PROVE i \in Multiplied(v)
    <3>1. CASE pc[v] \in Late
      <4>1. Base(v) = warp[v].executed + 2
        BY <3>1 DEF Base
      <4>2. i < warp[v].executed \/ i = warp[v].executed
        BY <2>1, <2>2, <2>3, <4>1
      <4>. QED
        BY <3>1, <4>2 DEF Multiplied, Before, On, Late
    <3>2. CASE pc[v] \notin Late
      <4>1. Base(v) = warp[v].executed
        BY <2>2, <3>2 DEF Base
      <4>. QED
        BY <2>3, <4>1 DEF Multiplied, Before
    <3>. QED
      BY <3>1, <3>2
  <2>4. ASSUME NEW j \in Entered(w), i < j PROVE i \in Multiplied(v)
    <3>1. j \in Mine(w)
      BY <1>4 DEF Entered, Before, On, MainLoop, Epilogue
    <3>2. j \in Nat /\ j % 2 = w[1]
      BY <1>3, <3>1
    <3>3. j < warp[w].executed \/ (j = warp[w].executed /\ pc[w] \in MainLoop \cup Late)
      BY <2>4 DEF Entered, Before, On, Late
    <3>4. j < Base(w) \/ (j = Base(w) /\ w \in Within(MainLoop))
      <4>1. CASE pc[w] \in Late
        <5>1. Base(w) = warp[w].executed + 2
          BY <4>1 DEF Base
        <5>. QED
          BY <2>2, <3>2, <3>3, <5>1
      <4>2. CASE pc[w] \notin Late
        <5>1. Base(w) = warp[w].executed
          BY <2>2, <4>2 DEF Base
        <5>. QED
          BY <3>3, <4>2, <5>1 DEF Within
      <4>. QED
        BY <4>1, <4>2
    <3>5. Counts(n0, a0) /\ Rounds(order[0], Within(MainLoop), n0, a0)
      BY <1>2 DEF InStep
    <3>6. Within(MainLoop) \subseteq Warps(launch)
      BY DEF Within
    <3>7. Base(w) = 2 * a0[w] + w[1] /\ Base(v) = 2 * a0[v] + v[1]
      BY <1>4
    <3>8. PICK b, in, x, y :
             b = order[0] /\ in = Within(MainLoop) /\ x = i /\ y = j
      OBVIOUS
    <3>9. /\ in \in SUBSET Warps(launch) /\ x \in Nat /\ y \in Nat
          /\ Counts(n0, a0) /\ Rounds(b, in, n0, a0)
          /\ x % 2 = v[1] /\ y % 2 = w[1] /\ x < y
          /\ y < 2 * a0[w] + w[1] \/ (y = 2 * a0[w] + w[1] /\ w \in in)
      BY <2>1, <2>4, <3>2, <3>4, <3>5, <3>6, <3>7, <3>8
    <3>10. x < 2 * a0[v] + v[1]
      BY <1>1, <3>9, RoundsInTurn
    <3>. QED
      BY <2>3, <3>7, <3>8, <3>10
  <2>5. ASSUME NEW j \in Opened(w), i < j PROVE i \in Before(v)
    <3>1. HasBuffers(w) => pc[w] \in Epilogue
      BY DEF HasBuffers, Epilogue
    <3>2. j \in Mine(w)
      BY <1>4, <3>1 DEF Opened, Before, Epilogue
    <3>3. j \in Nat /\ j % 2 = w[1]
      BY <1>3, <3>2
    <3>4. j < warp[w].executed \/ (j = warp[w].executed /\ w \in Within(Epilogue))
      BY <2>5, <3>1 DEF Opened, Before, Within
    <3>5. Counts(n1, a1) /\ Rounds(order[1], Within(Epilogue), n1, a1)
      BY <1>2 DEF InStep
    <3>6. Within(Epilogue) \subseteq Warps(launch)
      BY DEF Within
    <3>7. /\ warp[w].executed = 2 * a1[w] + w[1]
          /\ warp[v].executed = 2 * a1[v] + v[1]
      BY <1>4
    <3>8. PICK b, in, x, y :
             b = order[1] /\ in = Within(Epilogue) /\ x = i /\ y = j
      OBVIOUS
    <3>9. /\ in \in SUBSET Warps(launch) /\ x \in Nat /\ y \in Nat
          /\ Counts(n1, a1) /\ Rounds(b, in, n1, a1)
          /\ x % 2 = v[1] /\ y % 2 = w[1] /\ x < y
          /\ y < 2 * a1[w] + w[1] \/ (y = 2 * a1[w] + w[1] /\ w \in in)
      BY <2>1, <2>5, <3>3, <3>4, <3>5, <3>6, <3>7, <3>8
    <3>10. x < 2 * a1[v] + v[1]
      BY <1>1, <3>9, RoundsInTurn
    <3>. QED
      BY <3>7, <3>8, <3>10 DEF Before
  <2>6. ASSUME i \in Opened(w) PROVE i \in Multiplied(v)
    <3>1. HasBuffers(w) => Half(w) > 0 \/ (pc[w] \in Slicing /\ warp[w].epi > 0)
      BY DEF HasBuffers, Half, Slicing
    <3>2. i < warp[w].executed \/ (i = warp[w].executed /\ HasBuffers(w))
      BY <2>6 DEF Opened, Before
    <3>3. i \in Mine(w)
      BY <1>4, <2>6 DEF Opened, Before, HasBuffers
    <3>4. v[1] = w[1]
      BY <1>3, <2>1, <3>3
    <3>5. Passed(Done(v), v) = Passed(Done(w), w)
      BY <3>4 DEF LinedUp, Together
    <3>6. /\ Done(v) \in Nat /\ warp[v].executed = 2 * Done(v) + v[1]
          /\ Done(w) \in Nat /\ warp[w].executed = 2 * Done(w) + w[1]
      BY DoneTiles
    <3>7. /\ launch.epiTiles \in Nat /\ launch.epiTiles > 0
          /\ warp[v].epi \in 0 .. launch.epiTiles - 1
          /\ warp[w].epi \in 0 .. launch.epiTiles - 1
      BY SliceNumbers
    <3>8. PICK p \in Nat, q \in Nat : p = Done(v) /\ q = Done(w)
      BY <3>6
    <3>9. /\ q <= p \/ (q = p + 1 /\ pc[v] \in Slicing)
          /\ Half(w) > 0 \/ (pc[w] \in Slicing /\ warp[w].epi > 0) =>
               q < p \/ (q = p /\ pc[v] \in Slicing)
      BY <3>5, <3>7, <3>8, PassedInTurn
    <3>10. /\ warp[v].executed = 2 * p + v[1] /\ warp[w].executed = 2 * q + v[1]
      BY <3>4, <3>6, <3>8
    <3>11. i < warp[v].executed \/ (i = warp[v].executed /\ pc[v] \in Slicing)
      <4>1. CASE i < warp[w].executed
        BY <2>1, <3>9, <3>10, <4>1
      <4>2. CASE i = warp[w].executed /\ HasBuffers(w)
        <5>1. q < p \/ (q = p /\ pc[v] \in Slicing)
          BY <3>1, <3>9, <4>2
        <5>. QED
          BY <2>1, <3>8, <3>10, <4>2, <5>1
      <4>. QED
        BY <3>2, <4>1, <4>2
    <3>. QED
      BY <3>11 DEF Multiplied, Before, On, Slicing, Epilogue
  <2>. QED
    BY <2>4, <2>5, <2>6
<1>7. \A w \in Warps(launch) : pc[w] \notin {"start", "done"} => warp[w].executed \in Mine(w)
  BY <1>4
<1>. QED
  BY <1>1, <1>5, <1>6, <1>7, InTurnOfWarps

LEMMA CoopInTurn ==
  ASSUME CoopInv, CoopTogether, Running, launch.schedule = "cooperative"
  PROVE  AllInTurn
<1>1. launch \in Launches("cooperative") /\ CoopShape
  BY DEF CoopInv, CoopShape
<1>2. /\ TilesOf \subseteq Nat
      /\ \A j \in Nat : j \in TilesOf <=> Valid(j)
      /\ \A w : Mine(w) = TilesOf
  BY <1>1, TilesOfCta DEF Mine, TilesOf
<1>3. ASSUME NEW w \in Warps(launch)
      PROVE  /\ warp[w].executed \in Nat
             /\ pc[w] \notin {"start", "done"} => warp[w].executed \in Mine(w)
  BY <1>2 DEF CoopInv, CoopAllInPlace, CoopInPlace
<1>4. ASSUME NEW j \in TilesOf PROVE \E w \in Warps(launch) : j \in Mine(w)
  <2>1. launch.warps \in Nat /\ launch.warps > 0
    BY <1>1, CoopNumbers
  <2>2. <<0, 0>> \in Warps(launch)
    BY <2>1 DEF Warps, Groups
  <2>. QED
    BY <1>2, <2>2
<1>5. ASSUME NEW v \in Warps(launch), NEW w \in Warps(launch), NEW i \in Mine(v)
      PROVE  /\ \A j \in Entered(w) : i < j => i \in Multiplied(v)
             /\ \A j \in Opened(w) : i < j => i \in Before(v)
             /\ i \in Opened(w) => i \in Multiplied(v)
  <2>1. i \in Nat
    BY <1>2
  <2>2. PICK p \in Nat, q \in Nat : p = warp[v].executed /\ q = warp[w].executed
    BY <1>3
  <2>3. /\ q <= p \/ (q = p + 1 /\ pc[v] \in Slicing)
        /\ Half(w) > 0 \/ (pc[w] \in Slicing /\ warp[w].epi > 0) =>
             q < p \/ (q = p /\ pc[v] \in Slicing)
    <3>1. /\ launch.epiTiles \in Nat /\ launch.epiTiles > 0
          /\ warp[v].epi \in 0 .. launch.epiTiles - 1
          /\ warp[w].epi \in 0 .. launch.epiTiles - 1
      BY CoopSliceNumbers
    <3>2. Passed(p, v) = Passed(q, w)
      BY <2>2 DEF CoopTogether, CoopPassed
    <3>. QED
      BY <3>1, <3>2, PassedInTurn
  <2>4. HasBuffers(w) => Half(w) > 0 \/ (pc[w] \in Slicing /\ warp[w].epi > 0)
    BY DEF HasBuffers, Half, Slicing
  <2>5. ASSUME i < p \/ (i = p /\ pc[v] \in Slicing)
        PROVE  i \in Multiplied(v)
    BY <2>2, <2>5 DEF Multiplied, Before, On, Slicing, Epilogue
  <2>6. ASSUME NEW j \in Entered(w), i < j PROVE i \in Multiplied(v)
    <3>1. j \in Nat /\ (j < q \/ j = q)
      BY <1>2, <2>2, <2>6 DEF Entered, Before, On
    <3>2. i < p \/ (i = p /\ pc[v] \in Slicing)
      BY <2>1, <2>3, <2>6, <3>1
    <3>. QED
      BY <2>5, <3>2
  <2>7. ASSUME i \in Opened(w) PROVE i < p \/ (i = p /\ pc[v] \in Slicing)
    <3>1. CASE i < q
      BY <2>1, <2>3, <3>1
    <3>2. CASE i = q /\ HasBuffers(w)
      <4>1. q < p \/ (q = p /\ pc[v] \in Slicing)
        BY <2>3, <2>4, <3>2
      <4>. QED
        BY <3>2, <4>1
    <3>. QED
      BY <2>2, <2>7, <3>1, <3>2 DEF Opened, Before
  <2>8. ASSUME NEW j \in Opened(w), i < j PROVE i < p
    <3>1. CASE j < q /\ j \in Nat
      BY <2>1, <2>3, <2>8, <3>1
    <3>2. CASE j = q /\ HasBuffers(w)
      <4>1. q <= p
        BY <2>3, <2>4, <3>2
      <4>. QED
        BY <2>1, <2>8, <3>2, <4>1
    <3>. QED
      BY <1>2, <2>2, <2>8, <3>1, <3>2 DEF Opened, Before
  <2>. QED
    BY <2>2, <2>5, <2>6, <2>7, <2>8 DEF Before
<1>6. \A w \in Warps(launch) : pc[w] \notin {"start", "done"} => warp[w].executed \in Mine(w)
  BY <1>3
<1>. QED
  BY <1>1, <1>4, <1>5, <1>6, InTurnOfWarps

(***************************************************************************)
(* What one step does to the tiles of the warps: in one of the four places *)
(* some warps take or leave a tile, in the others nothing changes.         *)
(***************************************************************************)
Moments == {"enter", "multiply", "open", "close"}

Gains(v, moment) ==
    /\ IF moment = "enter" THEN Entered(v) \subseteq Entered(v)' ELSE Entered(v)' = Entered(v)
    /\ IF moment = "multiply" THEN Multiplied(v) \subseteq Multiplied(v)'
       ELSE Multiplied(v)' = Multiplied(v)
    /\ IF moment = "open" THEN Opened(v) \subseteq Opened(v)' ELSE Opened(v)' = Opened(v)
    /\ IF moment = "close" THEN Before(v) \subseteq Before(v)' ELSE Before(v)' = Before(v)

Advance == \E moment \in Moments : \A v \in Warps(launch) : Gains(v, moment)

\* Where a warp is with its tile.
InTile(v) == pc[v] \in MainLoop \cup Epilogue \cup {"cross"}
PastLoop(v) == pc[v] \in Epilogue \cup {"cross"}

\* A warp that stays with its tile.
LEMMA SameTile ==
  ASSUME launch' = launch, NEW v, warp'[v].executed = warp[v].executed, NEW moment,
         IF moment = "enter" THEN InTile(v) => InTile(v)' ELSE InTile(v)' = InTile(v),
         IF moment = "multiply" THEN PastLoop(v) => PastLoop(v)'
         ELSE PastLoop(v)' = PastLoop(v),
         IF moment = "open" THEN HasBuffers(v) => HasBuffers(v)'
         ELSE HasBuffers(v)' = HasBuffers(v)
  PROVE  Gains(v, moment)
<1>1. Mine(v)' = Mine(v)
  BY DEF Mine, Valid, Linear
<1>2. Before(v)' = Before(v)
  BY <1>1 DEF Before
<1>3. /\ Entered(v) = Before(v) \cup (IF InTile(v) THEN {warp[v].executed} ELSE {})
      /\ Multiplied(v) = Before(v) \cup (IF PastLoop(v) THEN {warp[v].executed} ELSE {})
  BY DEF Entered, Multiplied, On, InTile, PastLoop
<1>4. /\ Entered(v)' = Before(v)' \cup (IF InTile(v)' THEN {warp'[v].executed} ELSE {})
      /\ Multiplied(v)' = Before(v)' \cup (IF PastLoop(v)' THEN {warp'[v].executed} ELSE {})
  BY DEF Entered, Multiplied, On, InTile, PastLoop
<1>5. /\ Opened(v) = Before(v) \cup (IF HasBuffers(v) THEN {warp[v].executed} ELSE {})
      /\ Opened(v)' = Before(v)' \cup (IF HasBuffers(v)' THEN {warp'[v].executed} ELSE {})
  BY DEF Opened
<1>. QED
  BY <1>2, <1>3, <1>4, <1>5 DEF Gains

\* A warp that nothing happens to, or that goes on in the same part.
LEMMA SamePart ==
  ASSUME launch' = launch, NEW v, warp'[v].executed = warp[v].executed, NEW moment,
         \/ pc'[v] = pc[v] /\ warp'[v].epi = warp[v].epi
         \/ pc[v] \in MainLoop /\ pc'[v] \in MainLoop
         \/ pc[v] = "start" /\ pc'[v] = "done"
         \/ pc[v] = "cross" /\ pc'[v] = "epilogue" /\ warp'[v].epi = 0
         \/ pc[v] = "epilogue" /\ pc'[v] = "sync1" /\ warp'[v].epi = warp[v].epi
         \/ HasBuffers(v) /\ HasBuffers(v)'
  PROVE  Gains(v, moment)
<1>1. InTile(v)' = InTile(v) /\ PastLoop(v)' = PastLoop(v) /\ HasBuffers(v)' = HasBuffers(v)
  BY DEF InTile, PastLoop, HasBuffers, MainLoop, Epilogue
<1>. QED
  BY <1>1, SameTile

\* A warp that is through with its tile and turns to its next.
LEMMA NextTile ==
  ASSUME launch' = launch, NEW v, warp[v].executed \in Mine(v), HasBuffers(v), pc'[v] = "start",
         \A j \in Mine(v) : j < warp'[v].executed <=> j <= warp[v].executed,
         Mine(v) \subseteq Nat
  PROVE  Gains(v, "close")
<1>1. Mine(v)' = Mine(v)
  BY DEF Mine, Valid, Linear
<1>2. Before(v)' = Before(v) \cup {warp[v].executed}
  BY <1>1 DEF Before
<1>3. Opened(v) = Before(v)' /\ Entered(v) = Before(v)' /\ Multiplied(v) = Before(v)'
  BY <1>2 DEF Opened, Entered, Multiplied, On, HasBuffers, Epilogue
<1>4. Opened(v)' = Before(v)' /\ Entered(v)' = Before(v)' /\ Multiplied(v)' = Before(v)'
  BY DEF Opened, Entered, Multiplied, On, HasBuffers, Epilogue, MainLoop
<1>. QED
  BY <1>2, <1>3, <1>4 DEF Gains

\* A warp within a tile has a share in it.
LEMMA PingTiles ==
  ASSUME PingInv, Running, launch.schedule = "pingpong", NEW w \in Warps(launch)
  PROVE  /\ Mine(w) \subseteq Nat /\ \A j \in Mine(w) : j % 2 = w[1]
         /\ warp[w].executed \in Nat /\ warp[w].executed % 2 = w[1]
         /\ w[1] = 0 \/ w[1] = 1
         /\ pc[w] \notin {"start", "done"} => warp[w].executed \in Mine(w)
<1>1. launch \in PingLaunches /\ launch \in Launches("pingpong")
  BY DEF PingInv, PingBasics, OrderInv, Shape, PingLaunches
<1>2. /\ TilesOf \subseteq Nat
      /\ \A j \in Nat : j \in TilesOf <=> Valid(j)
      /\ \A j : j \in Mine(w) <=> j \in TilesOf /\ j % 2 = w[1]
  BY <1>1, TilesOfCta DEF Mine, TilesOf
<1>3. /\ Done(w) \in Nat /\ warp[w].executed = 2 * Done(w) + w[1]
      /\ w[1] = 0 \/ w[1] = 1
  BY <1>1, DoneTiles, WarpGroup
<1>4. warp[w].executed \in Nat /\ warp[w].executed % 2 = w[1]
  BY <1>3
<1>5. pc[w] \notin {"start", "done"} => Valid(warp[w].executed)
  BY DEF PingInv, PingBasics, AllInPlace, InPlace
<1>. QED
  BY <1>2, <1>3, <1>4, <1>5

\* The end of a slice is not the end of the tile's time in the buffers.
LEMMA SliceKeepsBuffers ==
  ASSUME PingInv, NEW v \in Warps(launch), pc'[v] = SliceDone(v), warp'[v] = NextSlice(v)
  PROVE  HasBuffers(v)' /\ warp'[v].executed = warp[v].executed
<1>1. /\ warp'[v].executed = warp[v].executed
      /\ warp'[v].epi = IF LastSlice(v) THEN warp[v].epi ELSE warp[v].epi + 1
  BY SliceRegisters DEF PingInv, PingBasics
<1>2. warp[v].epi \in Nat
  BY SliceNumbers
<1>3. CASE LastSlice(v)
  BY <1>1, <1>3 DEF SliceDone, HasBuffers
<1>4. CASE ~LastSlice(v)
  <2>1. pc'[v] = "epilogue" /\ warp'[v].epi > 0
    BY <1>1, <1>2, <1>4 DEF SliceDone
  <2>. QED
    BY <1>1, <2>1 DEF HasBuffers
<1>. QED
  BY <1>3, <1>4

LEMMA PingSliceAdvances ==
  ASSUME PingInv, launch' = launch, NEW w \in Warps(launch), Sliced(w)
  PROVE  Advance
<1>1. ASSUME NEW v \in Warps(launch), pc'[v] = pc[v] /\ warp'[v] = warp[v]
      PROVE  \A moment : Gains(v, moment)
  BY <1>1, SamePart
<1>2. ASSUME OnlyMoves(w), \A moment : Gains(w, moment) PROVE Advance
  BY <1>1, <1>2 DEF OnlyMoves, Advance, Moments
<1>3. pc \in [Warps(launch) -> Places]
  BY DEF PingInv, PingBasics, OrderInv, Shape
<1>4. ASSUME NEW at, Waits(w, at)
      PROVE  pc'[w] = at /\ warp'[w] = warp[w] /\ OnlyMoves(w)
  BY <1>3, <1>4 DEF Waits, OnlyMoves
<1>5. CASE pc[w] = "epilogue" /\ Waits(w, "sync1")
  <2>1. pc'[w] = "sync1" /\ warp'[w] = warp[w] /\ OnlyMoves(w)
    BY <1>4, <1>5
  <2>. QED
    BY <1>2, <1>5, <2>1, SamePart
<1>6. CASE pc[w] = "write" /\ Waits(w, "sync2")
  <2>1. pc'[w] = "sync2" /\ warp'[w] = warp[w] /\ OnlyMoves(w)
    BY <1>4, <1>6
  <2>2. HasBuffers(w) /\ HasBuffers(w)'
    BY <1>6, <2>1 DEF HasBuffers
  <2>. QED
    BY <1>2, <2>1, <2>2, SamePart
<1>7. CASE pc[w] = "epilogue" /\ Opens(w, "sync1")
  <2>1. ASSUME NEW v \in Warps(launch) PROVE Gains(v, "open")
    <3>1. CASE v[1] # w[1]
      BY <1>1, <1>7, <3>1 DEF Opens
    <3>2. CASE v[1] = w[1]
      <4>1. pc[v] \in {"epilogue", "sync1"} /\ pc'[v] = "write" /\ warp'[v] = warp[v]
        BY <1>7, <3>2 DEF Opens, GoesOn
      <4>2. InTile(v) /\ InTile(v)' /\ PastLoop(v) /\ PastLoop(v)' /\ HasBuffers(v)'
        BY <4>1 DEF InTile, PastLoop, HasBuffers, Epilogue
      <4>. QED
        BY <4>1, <4>2, SameTile
    <3>. QED
      BY <3>1, <3>2
  <2>. QED
    BY <2>1 DEF Advance, Moments
<1>8. CASE pc[w] = "write" /\ Opens(w, "sync2")
  <2>1. ASSUME NEW v \in Warps(launch) PROVE Gains(v, "open")
    <3>1. CASE v[1] # w[1]
      BY <1>1, <1>8, <3>1 DEF Opens
    <3>2. CASE v[1] = w[1]
      <4>1. GoesOn(v, "sync2") /\ HasBuffers(v)
        BY <1>8, <3>2 DEF Opens, HasBuffers
      <4>2. HasBuffers(v)' /\ warp'[v].executed = warp[v].executed
        <5>1. CASE pc'[v] = "store" /\ warp'[v] = warp[v]
          BY <5>1 DEF HasBuffers
        <5>2. CASE pc'[v] = SliceDone(v) /\ warp'[v] = NextSlice(v)
          BY <5>2, SliceKeepsBuffers
        <5>. QED
          BY <4>1, <5>1, <5>2 DEF GoesOn
      <4>. QED
        BY <4>1, <4>2, SamePart
    <3>. QED
      BY <3>1, <3>2
  <2>. QED
    BY <2>1 DEF Advance, Moments
<1>9. CASE /\ OnlyMoves(w) /\ pc[w] = "store" /\ pc'[w] = "acquire" /\ warp'[w] = warp[w]
  <2>1. HasBuffers(w) /\ HasBuffers(w)'
    BY <1>9 DEF HasBuffers
  <2>. QED
    BY <1>2, <1>9, <2>1, SamePart
<1>10. CASE /\ OnlyMoves(w) /\ pc[w] = "acquire" /\ pc'[w] = SliceDone(w)
            /\ warp'[w] = NextSlice(w)
  <2>1. HasBuffers(w) /\ HasBuffers(w)' /\ warp'[w].executed = warp[w].executed
    BY <1>10, SliceKeepsBuffers DEF HasBuffers
  <2>. QED
    BY <1>2, <1>10, <2>1, SamePart
<1>. QED
  BY <1>5, <1>6, <1>7, <1>8, <1>9, <1>10 DEF Sliced

LEMMA PingAdvances ==
  ASSUME PingInv, LinedUp, Running, launch.schedule = "pingpong", [PingNext]_vars
  PROVE  Advance
<1>1. ASSUME NEW v \in Warps(launch), launch' = launch, pc'[v] = pc[v], warp'[v] = warp[v]
      PROVE  \A moment : Gains(v, moment)
  BY <1>1, SamePart
<1>2. ASSUME NEW w \in Warps(launch), PingWarp(w) PROVE Advance
  <2>1. Controls(w) /\ launch' = launch
    BY <1>2, WarpControls DEF LinedUp
  <2>2. ASSUME OnlyMoves(w), NEW moment \in Moments, Gains(w, moment) PROVE Advance
    BY <1>1, <2>1, <2>2 DEF OnlyMoves, Advance
  <2>3. CASE Goes(w, {"start"}, {"first"})
    <3>1. /\ InTile(w) => InTile(w)'
          /\ PastLoop(w)' = PastLoop(w) /\ HasBuffers(w)' = HasBuffers(w)
      BY <2>3 DEF Goes, InTile, PastLoop, HasBuffers, MainLoop, Epilogue
    <3>2. Gains(w, "enter")
      BY <2>1, <2>3, <3>1, SameTile DEF Goes
    <3>. QED
      BY <2>2, <2>3, <3>2 DEF Goes, Moments
  <2>4. CASE \/ Goes(w, {"start"}, {"done"}) \/ Goes(w, MainLoop, MainLoop)
             \/ Goes(w, {"cross"}, {"epilogue"}) /\ warp'[w].epi = 0
    <3>1. Gains(w, "enter")
      BY <2>1, <2>4, SamePart DEF Goes
    <3>. QED
      BY <2>2, <2>4, <3>1 DEF Goes, Moments
  <2>5. CASE Goes(w, {"last"}, {"cross"})
    <3>1. /\ InTile(w)' = InTile(w) /\ (PastLoop(w) => PastLoop(w)')
          /\ HasBuffers(w)' = HasBuffers(w)
      BY <2>5 DEF Goes, InTile, PastLoop, HasBuffers, MainLoop, Epilogue
    <3>2. Gains(w, "multiply")
      BY <2>1, <2>5, <3>1, SameTile DEF Goes
    <3>. QED
      BY <2>2, <2>5, <3>2 DEF Goes, Moments
  <2>6. CASE Sliced(w)
    BY <2>1, <2>6, PingSliceAdvances
  <2>7. CASE /\ OnlyMoves(w) /\ pc[w] = "finish" /\ pc'[w] = "start"
             /\ warp'[w].executed = warp[w].executed + 2
    <3>1. warp[w].executed \in Mine(w) /\ Mine(w) \subseteq Nat /\ HasBuffers(w)
      BY <2>7, PingTiles DEF HasBuffers
    <3>2. \A j \in Mine(w) : j < warp'[w].executed <=> j <= warp[w].executed
      BY <2>7, PingTiles
    <3>3. Gains(w, "close")
      BY <2>1, <2>7, <3>1, <3>2, NextTile
    <3>. QED
      BY <2>2, <2>7, <3>3 DEF Moments
  <2>. QED
    BY <2>1, <2>3, <2>4, <2>5, <2>6, <2>7 DEF Controls
<1>3. CASE OthersMove
  <2>1. launch' = launch /\ pc' = pc /\ warp' = warp
    BY <1>3 DEF OthersMove, vars, LoadStage, LoadFrom, LoaderTail, DrainLoader, Land, ReadStore
  <2>. QED
    BY <1>1, <2>1 DEF Advance, Moments
<1>. QED
  BY <1>2, <1>3 DEF PingNext, OthersMove

\* A warp of the cooperative kernel that is through with a slice: with the tile
\* as well, or it keeps the buffers.
LEMMA CoopSliceAdvances ==
  ASSUME CoopInv, Running, launch.schedule = "cooperative", launch' = launch,
         NEW v \in Warps(launch), HasBuffers(v), SliceOver(v)
  PROVE  Gains(v, "close")
<1>1. launch \in Launches("cooperative")
  BY DEF CoopInv, CoopShape
<1>2. /\ warp[v].executed \in Nat /\ Valid(warp[v].executed) /\ warp[v].epi \in Nat
  <2>1. pc[v] \notin {"start", "done"}
    BY DEF SliceOver, CoopEpilogue
  <2>. QED
    BY <2>1, CoopSliceNumbers DEF CoopInv, CoopAllInPlace, CoopInPlace
<1>3. Mine(v) \subseteq Nat /\ warp[v].executed \in Mine(v)
  <2>1. Mine(v) = TilesOf
    BY DEF Mine, TilesOf
  <2>. QED
    BY <1>1, <1>2, <2>1, TilesOfCta
<1>4. CASE CoopLastSlice(v)
  <2>1. pc'[v] = "start" /\ warp'[v].executed = warp[v].executed + 1
    BY <1>4 DEF SliceOver, CoopSliceDone
  <2>2. \A j \in Mine(v) : j < warp'[v].executed <=> j <= warp[v].executed
    BY <1>2, <1>3, <2>1
  <2>. QED
    BY <1>3, <2>1, <2>2, NextTile
<1>5. CASE ~CoopLastSlice(v)
  <2>1. /\ pc'[v] = "epilogue" /\ warp'[v].executed = warp[v].executed
        /\ warp'[v].epi = warp[v].epi + 1
    BY <1>5 DEF SliceOver, CoopSliceDone
  <2>2. HasBuffers(v)'
    BY <1>2, <2>1 DEF HasBuffers
  <2>. QED
    BY <2>1, <2>2, SamePart
<1>. QED
  BY <1>4, <1>5

LEMMA CoopAdvances ==
  ASSUME CoopInv, CoopTogether, Running, launch.schedule = "cooperative", [CoopNext]_vars
  PROVE  Advance
<1>1. ASSUME NEW v \in Warps(launch), launch' = launch, pc'[v] = pc[v], warp'[v] = warp[v]
      PROVE  \A moment : Gains(v, moment)
  BY <1>1, SamePart
<1>2. pc \in [Warps(launch) -> CoopPlaces]
  BY DEF CoopInv, CoopShape
<1>3. ASSUME NEW w \in Warps(launch), CoopWarp(w) PROVE Advance
  <2>1. CoopControls(w) /\ launch' = launch
    BY <1>3, CoopWarpControls
  <2>2. ASSUME CoopKept(w), NEW moment \in Moments, Gains(w, moment) PROVE Advance
    BY <1>1, <2>1, <2>2 DEF CoopKept, Advance
  <2>3. CASE CoopGoes(w, {"start"}, CoopLoop)
    <3>1. /\ InTile(w) => InTile(w)'
          /\ PastLoop(w)' = PastLoop(w) /\ HasBuffers(w)' = HasBuffers(w)
      BY <2>3 DEF CoopGoes, InTile, PastLoop, HasBuffers, MainLoop, Epilogue, CoopLoop
    <3>2. Gains(w, "enter")
      BY <2>1, <2>3, <3>1, SameTile DEF CoopGoes
    <3>. QED
      BY <2>2, <2>3, <3>2 DEF CoopGoes, Moments
  <2>4. CASE CoopGoes(w, {"start"}, {"done"}) \/ CoopGoes(w, CoopLoop, CoopLoop)
    <3>1. Gains(w, "enter")
      BY <2>1, <2>4, SamePart DEF CoopGoes, CoopLoop, MainLoop
    <3>. QED
      BY <2>2, <2>4, <3>1 DEF CoopGoes, Moments
  <2>5. CASE CoopGoes(w, {"last"}, {"epilogue"}) /\ warp'[w].epi = 0
    <3>1. /\ InTile(w)' = InTile(w) /\ (PastLoop(w) => PastLoop(w)')
          /\ HasBuffers(w)' = HasBuffers(w)
      BY <2>5 DEF CoopGoes, InTile, PastLoop, HasBuffers, MainLoop, Epilogue
    <3>2. Gains(w, "multiply")
      BY <2>1, <2>5, <3>1, SameTile DEF CoopGoes
    <3>. QED
      BY <2>2, <2>5, <3>2 DEF CoopGoes, Moments
  <2>6. ASSUME NEW at, CoopWaits(w, at)
        PROVE  /\ pc'[w] = at /\ CoopKept(w)
               /\ warp'[w].executed = warp[w].executed /\ warp'[w].epi = warp[w].epi
    BY <1>2, <2>6 DEF CoopWaits, CoopKept, CoopKeeps
  <2>7. CASE pc[w] = "epilogue" /\ CoopWaits(w, "sync1")
    <3>1. /\ pc'[w] = "sync1" /\ CoopKept(w)
          /\ warp'[w].executed = warp[w].executed /\ warp'[w].epi = warp[w].epi
      BY <2>6, <2>7
    <3>2. Gains(w, "enter")
      BY <2>1, <2>7, <3>1, SamePart
    <3>. QED
      BY <2>2, <3>1, <3>2 DEF Moments
  <2>8. CASE pc[w] = "write" /\ CoopWaits(w, "sync2")
    <3>1. /\ pc'[w] = "sync2" /\ CoopKept(w) /\ warp'[w].executed = warp[w].executed
      BY <2>6, <2>8
    <3>2. HasBuffers(w) /\ HasBuffers(w)'
      BY <2>8, <3>1 DEF HasBuffers
    <3>3. Gains(w, "enter")
      BY <2>1, <3>1, <3>2, SamePart
    <3>. QED
      BY <2>2, <3>1, <3>3 DEF Moments
  <2>9. CASE pc[w] = "epilogue" /\ CoopOpens(w, "sync1")
    <3>1. ASSUME NEW v \in Warps(launch) PROVE Gains(v, "open")
      <4>1. pc[v] \in {"epilogue", "sync1"} /\ pc'[v] = "write" /\ CoopKeeps(v)
        BY <2>9 DEF CoopOpens, CoopGoesOn
      <4>2. InTile(v) /\ InTile(v)' /\ PastLoop(v) /\ PastLoop(v)' /\ HasBuffers(v)'
        BY <4>1 DEF InTile, PastLoop, HasBuffers, Epilogue
      <4>. QED
        BY <2>1, <4>1, <4>2, SameTile DEF CoopKeeps
    <3>. QED
      BY <3>1 DEF Advance, Moments
  <2>10. CASE pc[w] = "write" /\ CoopOpens(w, "sync2")
    <3>1. ASSUME NEW v \in Warps(launch) PROVE Gains(v, "close")
      <4>1. CoopGoesOn(v, "sync2") /\ HasBuffers(v)
        BY <2>10 DEF CoopOpens, HasBuffers
      <4>2. CASE pc'[v] = "store" /\ CoopKeeps(v)
        <5>1. HasBuffers(v)' /\ warp'[v].executed = warp[v].executed
          BY <4>2 DEF HasBuffers, CoopKeeps
        <5>. QED
          BY <2>1, <4>1, <5>1, SamePart
      <4>3. CASE SliceOver(v)
        BY <2>1, <4>1, <4>3, CoopSliceAdvances
      <4>. QED
        BY <4>1, <4>2, <4>3 DEF CoopGoesOn
    <3>. QED
      BY <3>1 DEF Advance, Moments
  <2>11. CASE CoopKept(w) /\ pc[w] = "store" /\ pc'[w] = "acquire" /\ warp'[w] = warp[w]
    <3>1. HasBuffers(w) /\ HasBuffers(w)'
      BY <2>11 DEF HasBuffers
    <3>2. Gains(w, "enter")
      BY <2>1, <2>11, <3>1, SamePart
    <3>. QED
      BY <2>2, <2>11, <3>2 DEF Moments
  <2>12. CASE CoopKept(w) /\ pc[w] = "acquire" /\ SliceOver(w)
    <3>1. Gains(w, "close")
      BY <2>1, <2>12, CoopSliceAdvances DEF HasBuffers
    <3>. QED
      BY <2>2, <2>12, <3>1 DEF Moments
  <2>. QED
    BY <2>1, <2>3, <2>4, <2>5, <2>7, <2>8, <2>9, <2>10, <2>11, <2>12 DEF CoopControls, CoopSliced
<1>4. CASE \/ UNCHANGED vars \/ CoopLoadStage \/ CoopLoaderTail
           \/ \E x \in inflight : Land(x)
           \/ \E w \in Warps(launch) : \E i \in DOMAIN stores[w] : ReadStore(w, i)
  <2>1. UNCHANGED <<launch, pc, warp>>
    BY <1>4 DEF vars, CoopLoadStage, LoadFrom, CoopLoaderTail, DrainLoader, Land, ReadStore
  <2>. QED
    BY <1>1, <2>1 DEF Advance, Moments
<1>. QED
  BY <1>3, <1>4 DEF CoopNext

\* Seen as counts, such a step is at most one tile more in one place.
LEMMA CountsMove ==
  ASSUME Running, Running', launch' = launch, AllInTurn, AllInTurn', Advance
  PROVE  /\ TilesOf' = TilesOf
         /\ \/ /\ OneMore(Some(Entered), Every(Multiplied), Some(Entered)', Every(Multiplied)',
                          Cardinality(TilesOf))
               /\ Some(Opened)' = Some(Opened) /\ Every(Before)' = Every(Before)
            \/ /\ OneMore(Some(Opened), Every(Before), Some(Opened)', Every(Before)',
                          Cardinality(TilesOf))
               /\ Some(Entered)' = Some(Entered) /\ Every(Multiplied)' = Every(Multiplied)
         /\ Some(Opened)' <= Every(Multiplied)'
<1>1. TilesOf' = TilesOf /\ Warps(launch)' = Warps(launch) /\ ShareOf' = ShareOf
  BY DEF TilesOf, Valid, Linear, ShareOf, Mine
<1>2. PICK W, T, mine : W = Warps(launch) /\ T = TilesOf /\ mine = ShareOf
  OBVIOUS
<1>3. PICK e, m, o, c : e = EnteredOf /\ m = MultipliedOf /\ o = OpenedOf /\ c = ClosedOf
  OBVIOUS
<1>4. PICK e2, m2, o2, c2 :
         e2 = EnteredOf' /\ m2 = MultipliedOf' /\ o2 = OpenedOf' /\ c2 = ClosedOf'
  OBVIOUS
<1>5. /\ InTurn(W, T, mine, e, m) /\ InTurn(W, T, mine, o, c)
  BY <1>2, <1>3 DEF AllInTurn, LoopInTurn, BuffersInTurn
<1>6. /\ InTurn(W, T, mine, e2, m2) /\ InTurn(W, T, mine, o2, c2)
      /\ BegunBy(W, o2) \subseteq EndedBy(W, T, mine, m2)
  <2>1. /\ InTurn(Warps(launch)', TilesOf', ShareOf', EnteredOf', MultipliedOf')
        /\ InTurn(Warps(launch)', TilesOf', ShareOf', OpenedOf', ClosedOf')
        /\ BegunBy(Warps(launch)', OpenedOf') \subseteq
              EndedBy(Warps(launch)', TilesOf', ShareOf', MultipliedOf')
    BY DEF AllInTurn, LoopInTurn, BuffersInTurn, InTurn, BegunBy, EndedBy, Ended
  <2>. QED
    BY <1>1, <1>2, <1>4, <2>1
<1>7. /\ Some(Entered) = Cardinality(BegunBy(W, e)) /\ Some(Opened) = Cardinality(BegunBy(W, o))
      /\ Every(Multiplied) = Cardinality(EndedBy(W, T, mine, m))
      /\ Every(Before) = Cardinality(EndedBy(W, T, mine, c))
  BY <1>2, <1>3, SeenOfKernel DEF Ended
<1>8. /\ Some(Entered)' = Cardinality(BegunBy(W, e2))
      /\ Some(Opened)' = Cardinality(BegunBy(W, o2))
      /\ Every(Multiplied)' = Cardinality(EndedBy(W, T, mine, m2))
      /\ Every(Before)' = Cardinality(EndedBy(W, T, mine, c2))
  <2>1. /\ Some(Entered)' = Cardinality(BegunBy(Warps(launch)', EnteredOf'))
        /\ Some(Opened)' = Cardinality(BegunBy(Warps(launch)', OpenedOf'))
        /\ Every(Multiplied)' =
              Cardinality(EndedBy(Warps(launch)', TilesOf', ShareOf', MultipliedOf'))
        /\ Every(Before)' = Cardinality(EndedBy(Warps(launch)', TilesOf', ShareOf', ClosedOf'))
    BY SeenThen DEF Ended, BegunBy, EndedBy
  <2>. QED
    BY <1>1, <1>2, <1>4, <2>1
<1>9. \A w \in W : /\ e[w] = Entered(w) /\ m[w] = Multiplied(w)
                   /\ o[w] = Opened(w) /\ c[w] = Before(w)
  BY <1>2, <1>3 DEF EnteredOf, MultipliedOf, OpenedOf, ClosedOf
<1>10. \A w \in W : /\ e2[w] = Entered(w)' /\ m2[w] = Multiplied(w)'
                    /\ o2[w] = Opened(w)' /\ c2[w] = Before(w)'
  BY <1>1, <1>2, <1>4 DEF EnteredOf, MultipliedOf, OpenedOf, ClosedOf
<1>11. PICK moment \in Moments : \A w \in W : Gains(w, moment)
  BY <1>2 DEF Advance
<1>12. Some(Opened)' <= Every(Multiplied)'
  <2>1. IsFiniteSet(EndedBy(W, T, mine, m2))
    BY <1>6, OneAtATime
  <2>. QED
    BY <1>6, <1>8, <2>1, FS_Subset
<1>13. ASSUME NEW x, NEW y, \A w \in W : y[w] = x[w]
       PROVE  BegunBy(W, y) = BegunBy(W, x) /\ EndedBy(W, T, mine, y) = EndedBy(W, T, mine, x)
  BY <1>13 DEF BegunBy, EndedBy
<1>14. CASE moment \in {"enter", "multiply"}
  <2>1. \A w \in W : o2[w] = o[w] /\ c2[w] = c[w]
    BY <1>9, <1>10, <1>11, <1>14 DEF Gains
  <2>2. Some(Opened)' = Some(Opened) /\ Every(Before)' = Every(Before)
    BY <1>7, <1>8, <1>13, <2>1
  <2>3. \/ \A w \in W : e[w] \subseteq e2[w] /\ m2[w] = m[w]
        \/ \A w \in W : m[w] \subseteq m2[w] /\ e2[w] = e[w]
    BY <1>9, <1>10, <1>11, <1>14 DEF Gains
  <2>4. OneMore(Cardinality(BegunBy(W, e)), Cardinality(EndedBy(W, T, mine, m)),
                Cardinality(BegunBy(W, e2)), Cardinality(EndedBy(W, T, mine, m2)),
                Cardinality(T))
    BY <1>5, <1>6, <2>3, OneMoves
  <2>. QED
    BY <1>1, <1>2, <1>7, <1>8, <1>12, <2>2, <2>4
<1>15. CASE moment \in {"open", "close"}
  <2>1. \A w \in W : e2[w] = e[w] /\ m2[w] = m[w]
    BY <1>9, <1>10, <1>11, <1>15 DEF Gains
  <2>2. Some(Entered)' = Some(Entered) /\ Every(Multiplied)' = Every(Multiplied)
    BY <1>7, <1>8, <1>13, <2>1
  <2>3. \/ \A w \in W : o[w] \subseteq o2[w] /\ c2[w] = c[w]
        \/ \A w \in W : c[w] \subseteq c2[w] /\ o2[w] = o[w]
    BY <1>9, <1>10, <1>11, <1>15 DEF Gains
  <2>4. OneMore(Cardinality(BegunBy(W, o)), Cardinality(EndedBy(W, T, mine, c)),
                Cardinality(BegunBy(W, o2)), Cardinality(EndedBy(W, T, mine, c2)),
                Cardinality(T))
    BY <1>5, <1>6, <2>3, OneMoves
  <2>. QED
    BY <1>1, <1>2, <1>7, <1>8, <1>12, <2>2, <2>4
<1>. QED
  BY <1>11, <1>14, <1>15 DEF Moments

(***************************************************************************)
(* What a step does to the stores and to the output: nothing, or a store   *)
(* is read, or one is committed for the tile and the slice of its warp.    *)
(***************************************************************************)
Stored(w, s) ==
    /\ s.epi \in 0 .. launch.epiTiles - 1
    /\ \E j \in Opened(w) : s.tile = Linear(j)

StoresPlaced == \A w \in Warps(launch) : \A i \in DOMAIN stores[w] : Stored(w, stores[w][i])

OutSeqs == \E S : \A t \in DOMAIN out : \A e \in DOMAIN out[t] : out[t][e] \in Seq(S)

Committing(w, b) ==
    /\ pc[w] = "store"
    /\ Commits(w, [buf |-> b, tile |-> Linear(warp[w].executed), epi |-> warp[w].epi,
                   read |-> FALSE])

LEMMA StoresAndOutput ==
  ASSUME [PingNext]_vars \/ [CoopNext]_vars
  PROVE  \/ stores' = stores /\ out' = out
         \/ out' = out /\ \E w \in Warps(launch) : \E b : Committing(w, b)
         \/ \E w \in Warps(launch) : \E i \in DOMAIN stores[w] : ReadStore(w, i)
<1>1. ASSUME NEW w \in Warps(launch), PingWarp(w)
      PROVE  out' = out /\ (stores' = stores \/ \E b : Committing(w, b))
  <2>1. CASE StoreSlice(w)
    BY <2>1 DEF StoreSlice, Committing, Commits, UnchangedButWarp
  <2>2. CASE ~StoreSlice(w)
    BY <1>1, <2>2
       DEF PingWarp, StartTile, ExitLoop, FirstBlock, CopyThenMultiply, ReleaseStage,
           NextStage, LeaveMainLoop, EnterEpilogue, SyncBeforeWrite, WriteSlice,
           AcquireBuffer, FinishTile, UnchangedInLoop, UnchangedButWarp
  <2>. QED
    BY <2>1, <2>2
<1>2. ASSUME NEW w \in Warps(launch), CoopWarp(w)
      PROVE  out' = out /\ (stores' = stores \/ \E b : Committing(w, b))
  <2>1. CASE CoopStoreSlice(w)
    BY <2>1 DEF CoopStoreSlice, Committing, Commits, UnchangedButWarp
  <2>2. CASE ~CoopStoreSlice(w)
    BY <1>2, <2>2
       DEF CoopWarp, CoopExitLoop, CoopFirstBlock, MultiplyAndCopy, CoopReleaseStage,
           CoopNextStage, CoopLeaveMainLoop, CoopSyncBeforeWrite, CoopWriteSlice,
           CoopAcquireBuffer, UnchangedInLoop, UnchangedButWarp
  <2>. QED
    BY <2>1, <2>2
<1>3. CASE \/ UNCHANGED vars \/ LoadStage \/ CoopLoadStage \/ LoaderTail \/ CoopLoaderTail
           \/ \E x \in inflight : Land(x)
  BY <1>3 DEF vars, LoadStage, CoopLoadStage, LoadFrom, LoaderTail, CoopLoaderTail,
              DrainLoader, Land
<1>. QED
  BY <1>1, <1>2, <1>3 DEF PingNext, CoopNext

LEMMA StoresPlacedKept ==
  ASSUME launch' = launch, StoreShape, StoresPlaced, Advance,
         \A w \in Warps(launch) : pc[w] = "store" => warp[w].epi \in 0 .. launch.epiTiles - 1,
         \/ stores' = stores /\ out' = out
         \/ out' = out /\ \E w \in Warps(launch) : \E b : Committing(w, b)
         \/ \E w \in Warps(launch) : \E i \in DOMAIN stores[w] : ReadStore(w, i)
  PROVE  StoresPlaced'
<1>1. ASSUME NEW w \in Warps(launch) PROVE Opened(w) \subseteq Opened(w)'
  BY DEF Advance, Gains
<1>2. ASSUME NEW w \in Warps(launch), NEW s, NEW s2, Stored(w, s),
             s2.epi = s.epi, s2.tile = s.tile
      PROVE  /\ s2.epi \in 0 .. launch.epiTiles - 1
             /\ \E j \in Opened(w)' : s2.tile = Linear(j)
  BY <1>1, <1>2 DEF Stored
<1>3. ASSUME NEW w \in Warps(launch), NEW i \in DOMAIN stores'[w],
             NEW n \in DOMAIN stores[w],
             stores'[w][i].epi = stores[w][n].epi, stores'[w][i].tile = stores[w][n].tile
      PROVE  Stored(w, stores[w][i])'
  <2>1. Stored(w, stores[w][n])
    BY DEF StoresPlaced
  <2>2. PICK s, s2 : s = stores[w][n] /\ s2 = stores'[w][i]
    OBVIOUS
  <2>3. /\ s2.epi \in 0 .. launch.epiTiles - 1
        /\ \E j \in Opened(w)' : s2.tile = Linear(j)
    BY <1>2, <1>3, <2>1, <2>2
  <2>. QED
    BY <2>2, <2>3 DEF Stored, Linear
<1>4. CASE stores' = stores
  BY <1>3, <1>4 DEF StoresPlaced
<1>5. ASSUME NEW w \in Warps(launch), NEW b, Committing(w, b) PROVE StoresPlaced'
  <2>1. PICK r : r = [buf |-> b, tile |-> Linear(warp[w].executed), epi |-> warp[w].epi,
                      read |-> FALSE]
    OBVIOUS
  <2>2. PICK s : s = stores[w]
    OBVIOUS
  <2>3. /\ s \in Seq(StoreRecords) /\ Len(s) \in Nat /\ DOMAIN s = 1 .. Len(s)
        /\ DOMAIN stores = Warps(launch)
    BY <2>2 DEF StoreShape
  <2>4. /\ stores'[w] = Append(s, r)
        /\ \A v \in Warps(launch) : v # w => stores'[v] = stores[v]
    BY <1>5, <2>1, <2>2, <2>3 DEF Committing, Commits
  <2>5. /\ DOMAIN Append(s, r) = 1 .. Len(s) + 1
        /\ \A n \in 1 .. Len(s) : Append(s, r)[n] = s[n]
        /\ Append(s, r)[Len(s) + 1] = r
    BY <2>3
  <2>6. warp[w].executed \in Opened(w) /\ warp[w].epi \in 0 .. launch.epiTiles - 1
    BY <1>5 DEF Committing, Opened, HasBuffers
  <2>7. Stored(w, r)
    BY <2>1, <2>6 DEF Stored
  <2>8. ASSUME NEW i \in DOMAIN stores'[w] PROVE Stored(w, stores[w][i])'
    <3>1. CASE i \in 1 .. Len(s)
      <4>1. i \in DOMAIN stores[w] /\ stores'[w][i] = stores[w][i]
        BY <2>2, <2>3, <2>4, <2>5, <3>1
      <4>. QED
        BY <1>3, <4>1
    <3>2. CASE i = Len(s) + 1
      <4>1. stores'[w][i] = r
        BY <2>4, <2>5, <3>2
      <4>2. /\ r.epi \in 0 .. launch.epiTiles - 1
            /\ \E j \in Opened(w)' : r.tile = Linear(j)
        BY <1>2, <2>7
      <4>. QED
        BY <4>1, <4>2 DEF Stored, Linear
    <3>3. i \in 1 .. Len(s) \/ i = Len(s) + 1
      BY <2>3, <2>4, <2>5
    <3>. QED
      BY <3>1, <3>2, <3>3
  <2>9. ASSUME NEW v \in Warps(launch), v # w, NEW i \in DOMAIN stores'[v]
        PROVE  Stored(v, stores[v][i])'
    BY <1>3, <2>4, <2>9
  <2>. QED
    BY <2>8, <2>9 DEF StoresPlaced
<1>6. ASSUME NEW w \in Warps(launch), NEW n \in DOMAIN stores[w], ReadStore(w, n)
      PROVE  StoresPlaced'
  <2>1. /\ stores' = [stores EXCEPT ![w][n].read = TRUE]
        /\ DOMAIN stores = Warps(launch)
        /\ stores[w] \in Seq(StoreRecords)
    BY <1>6 DEF ReadStore, StoreShape
  <2>2. ASSUME NEW v \in Warps(launch), NEW i \in DOMAIN stores'[v]
        PROVE  /\ i \in DOMAIN stores[v]
               /\ stores'[v][i].epi = stores[v][i].epi
               /\ stores'[v][i].tile = stores[v][i].tile
    <3>1. CASE v # w
      BY <2>1, <3>1
    <3>2. CASE v = w
      <4>1. stores'[w] = [stores[w] EXCEPT ![n].read = TRUE]
        BY <2>1
      <4>2. DOMAIN stores'[w] = DOMAIN stores[w]
        BY <4>1
      <4>3. CASE i # n
        BY <3>2, <4>1, <4>2, <4>3
      <4>4. CASE i = n
        <5>1. stores[w][n] \in StoreRecords
          BY <2>1
        <5>2. stores'[w][n] = [stores[w][n] EXCEPT !.read = TRUE]
          BY <4>1
        <5>3. /\ stores'[w][n].epi = stores[w][n].epi
              /\ stores'[w][n].tile = stores[w][n].tile
          BY <5>1, <5>2 DEF StoreRecords
        <5>. QED
          BY <3>2, <4>2, <4>4, <5>3
      <4>. QED
        BY <4>3, <4>4
    <3>. QED
      BY <3>1, <3>2
  <2>3. ASSUME NEW v \in Warps(launch), NEW i \in DOMAIN stores'[v]
        PROVE  Stored(v, stores[v][i])'
    BY <1>3, <2>2
  <2>. QED
    BY <2>3 DEF StoresPlaced
<1>. QED
  BY <1>4, <1>5, <1>6

(***************************************************************************)
(* How many slices of every tile are in the output.                        *)
(***************************************************************************)
Filled(t) == {e \in DOMAIN out[t] : out[t][e] # <<>>}

\* One more slice of one tile is in the output: within the tiles that have had
\* the buffers, and no slice beyond those of a tile.
OneSliceMore ==
    \E t \in DOMAIN StoredSlices :
        /\ t <= Some(Opened)
        /\ StoredSlices[t] < launch.epiTiles
        /\ StoredSlices' = [StoredSlices EXCEPT ![t] = @ + 1]

\* A number that begins a tile has all before it begun.
LEMMA BegunSoFar ==
  ASSUME NEW schedule, launch \in Launches(schedule), Running, AllInTurn,
         NEW w \in Warps(launch), NEW j \in Opened(w)
  PROVE  /\ j \in TilesOf /\ j \in Nat /\ Some(Opened) \in Nat /\ j + 1 <= Some(Opened)
<1>1. PICK T, B, D : /\ T = TilesOf /\ B = BegunBy(Warps(launch), OpenedOf)
                     /\ D = Ended(ClosedOf)
  OBVIOUS
<1>2. /\ T = 0 .. Cardinality(T) - 1 /\ Cardinality(T) \in Nat
  BY <1>1, TilesOfCta
<1>3. InTurn(Warps(launch), T, ShareOf, OpenedOf, ClosedOf)
  BY <1>1 DEF AllInTurn, BuffersInTurn
<1>4. /\ B \subseteq T /\ D \subseteq B /\ IsFiniteSet(B) /\ Cardinality(B) \in Nat
      /\ \A x \in B : \A i \in T : i < x => i \in D
  BY <1>1, <1>3, OneAtATime DEF Ended
<1>5. j \in B /\ j \in T /\ j \in Nat
  BY <1>1, <1>2, <1>4 DEF BegunBy, OpenedOf
<1>6. 0 .. j \subseteq B
  <2>1. ASSUME NEW i \in 0 .. j PROVE i \in B
    <3>1. CASE i = j
      BY <1>5, <3>1
    <3>2. CASE i < j
      <4>1. i \in T
        BY <1>2, <1>5, <3>2
      <4>. QED
        BY <1>4, <1>5, <3>2, <4>1
    <3>. QED
      BY <1>5, <3>1, <3>2
  <2>. QED
    BY <2>1
<1>7. Cardinality(0 .. j) = j + 1
  <2>1. 0 \in Int /\ j \in Int /\ ~(0 > j)
    BY <1>5
  <2>2. Cardinality(0 .. j) = IF 0 > j THEN 0 ELSE j - 0 + 1
    BY <2>1, FS_Interval
  <2>. QED
    BY <2>1, <2>2
<1>8. j + 1 <= Cardinality(B)
  BY <1>4, <1>6, <1>7, FS_Subset
<1>. QED
  BY <1>1, <1>4, <1>5, <1>8, SeenOfKernel

\* A read store fills at most one slice.
LEMMA ReadFills ==
  ASSUME OutShape, OutSeqs, NEW w, NEW i, ReadStore(w, i),
         NEW t \in DOMAIN out, NEW e \in DOMAIN out[t],
         stores[w][i].tile = t, stores[w][i].epi = e
  PROVE  /\ Filled(t)' = Filled(t) \cup {e}
         /\ \A u \in DOMAIN out : u # t => Filled(u)' = Filled(u)
         /\ OutSeqs'
<1>1. PICK x : out' = [out EXCEPT ![t][e] = Append(out[t][e], x)]
  BY DEF ReadStore
<1>2. PICK S : \A u \in DOMAIN out : \A f \in DOMAIN out[u] : out[u][f] \in Seq(S)
  BY DEF OutSeqs
<1>3. PICK y, z : y = out[t][e] /\ z = Append(y, x)
  OBVIOUS
<1>4. /\ DOMAIN out' = DOMAIN out /\ \A u \in DOMAIN out : u # t => out'[u] = out[u]
      /\ DOMAIN out'[t] = DOMAIN out[t] /\ out'[t][e] = z
      /\ \A f \in DOMAIN out[t] : f # e => out'[t][f] = out[t][f]
  BY <1>1, <1>3
<1>5. y \in Seq(S)
  BY <1>2, <1>3
<1>6. PICK S2 : S2 = S \cup {x}
  OBVIOUS
<1>7. \A q \in Seq(S) : q \in Seq(S2)
  <2>. SUFFICES ASSUME NEW q \in Seq(S) PROVE q \in Seq(S2)
    OBVIOUS
  <2>1. Len(q) \in Nat /\ q \in [1 .. Len(q) -> S]
    OBVIOUS
  <2>2. q \in [1 .. Len(q) -> S2]
    BY <1>6, <2>1
  <2>. QED
    BY <2>1, <2>2
<1>8. z \in Seq(S2) /\ z # <<>>
  <2>1. y \in Seq(S2) /\ x \in S2
    BY <1>5, <1>6, <1>7
  <2>2. Append(y, x) \in Seq(S2) /\ Len(Append(y, x)) = Len(y) + 1 /\ Len(y) \in Nat
    BY <2>1
  <2>3. Len(<<>>) = 0
    OBVIOUS
  <2>. QED
    BY <1>3, <2>2, <2>3
<1>9. OutSeqs'
  <2>1. ASSUME NEW u \in DOMAIN out', NEW f \in DOMAIN out'[u] PROVE out'[u][f] \in Seq(S2)
    <3>1. CASE u = t /\ f = e
      BY <1>4, <1>8, <3>1
    <3>2. CASE ~(u = t /\ f = e)
      <4>1. u \in DOMAIN out /\ f \in DOMAIN out[u] /\ out'[u][f] = out[u][f]
        BY <1>4, <2>1, <3>2
      <4>. QED
        BY <1>2, <1>7, <4>1
    <3>. QED
      BY <3>1, <3>2
  <2>. QED
    BY <2>1 DEF OutSeqs
<1>10. Filled(t)' = Filled(t) \cup {e}
  BY <1>4, <1>8 DEF Filled
<1>11. ASSUME NEW u \in DOMAIN out, u # t PROVE Filled(u)' = Filled(u)
  BY <1>4, <1>11 DEF Filled
<1>. QED
  BY <1>9, <1>10, <1>11

LEMMA StoreMoves ==
  ASSUME NEW schedule, launch \in Launches(schedule), Running, AllInTurn, TilesOf' = TilesOf,
         launch' = launch, OutShape, OutSeqs, StoresPlaced,
         NEW w \in Warps(launch), NEW i \in DOMAIN stores[w], ReadStore(w, i)
  PROVE  /\ OutSeqs'
         /\ StoredSlices' = StoredSlices \/ OneSliceMore
<1>1. PICK j \in Opened(w), e \in 0 .. launch.epiTiles - 1 :
        stores[w][i].tile = Linear(j) /\ stores[w][i].epi = e
  BY DEF StoresPlaced, Stored
<1>2. j \in TilesOf /\ j \in Nat /\ Some(Opened) \in Nat /\ j + 1 <= Some(Opened)
  BY BegunSoFar
<1>3. PICK n : n = Cardinality(TilesOf)
  OBVIOUS
<1>4. /\ n \in Nat /\ TilesOf = 0 .. n - 1 /\ \A x \in Nat : x \in TilesOf => Valid(x)
  BY <1>3, TilesOfCta
<1>5. /\ launch.cta \in Nat /\ launch.grid \in Nat /\ launch.grid > 0 /\ launch.tiles \in Nat
      /\ launch.epiTiles \in Nat
  BY DEF Launches, Positive
<1>6. PICK t : t = Linear(j)
  OBVIOUS
<1>7. t \in DOMAIN out /\ e \in DOMAIN out[t]
  <2>1. t \in Nat /\ t < launch.tiles
    BY <1>2, <1>4, <1>5, <1>6, LinearGrows DEF Valid
  <2>2. t \in 0 .. launch.tiles - 1
    BY <1>5, <2>1
  <2>. QED
    BY <2>2, <1>1 DEF OutShape
<1>8. /\ Filled(t)' = Filled(t) \cup {e} /\ OutSeqs'
      /\ \A u \in DOMAIN out : u # t => Filled(u)' = Filled(u)
  BY <1>1, <1>6, <1>7, ReadFills
<1>9. /\ StoredSlices = [k \in 1 .. n |-> Cardinality(Filled(Linear(k - 1)))]
  BY <1>3 DEF StoredSlices, Filled
<1>10. /\ StoredSlices' = [k \in 1 .. n |-> Cardinality(Filled(Linear(k - 1))')]
  BY <1>3 DEF StoredSlices, Filled, Linear
<1>11. ASSUME NEW k \in 1 .. n, k # j + 1
       PROVE  Filled(Linear(k - 1))' = Filled(Linear(k - 1))
  <2>1. PICK x \in Nat : x = k - 1
    OBVIOUS
  <2>2. x \in TilesOf /\ x # j /\ Valid(x)
    BY <1>2, <1>4, <1>11, <2>1
  <2>3. Linear(x) \in Nat /\ Linear(x) < launch.tiles /\ Linear(x) # t
    <3>1. Linear(x) \in Nat /\ (x < j => Linear(x) < Linear(j))
      BY <1>2, <1>5, LinearGrows
    <3>2. Linear(j) \in Nat /\ (j < x => Linear(j) < Linear(x))
      BY <1>2, <1>5, LinearGrows
    <3>. QED
      BY <1>2, <1>6, <2>2, <3>1, <3>2 DEF Valid
  <2>4. Linear(x) \in DOMAIN out
    BY <1>5, <2>3 DEF OutShape
  <2>5. PICK u : u = Linear(x)
    OBVIOUS
  <2>6. Filled(u)' = Filled(u)
    BY <1>8, <2>3, <2>4, <2>5
  <2>7. Filled(Linear(x))' = Filled(Linear(x))
    BY <2>5, <2>6 DEF Filled, Linear
  <2>. QED
    BY <2>1, <2>7 DEF Filled, Linear
<1>12. PICK k \in 1 .. n : k = j + 1
  <2>1. j + 1 \in 1 .. n
    BY <1>2, <1>4
  <2>. QED
    BY <2>1
<1>13. Filled(Linear(k - 1)) = Filled(t) /\ Filled(Linear(k - 1))' = Filled(t)'
  <2>1. k - 1 = j
    BY <1>2, <1>12
  <2>. QED
    BY <1>6, <2>1 DEF Filled, Linear
<1>14. CASE e \in Filled(t)
  <2>1. Filled(t)' = Filled(t)
    BY <1>8, <1>14
  <2>2. \A x \in 1 .. n : Filled(Linear(x - 1))' = Filled(Linear(x - 1))
    BY <1>11, <1>12, <1>13, <2>1
  <2>3. StoredSlices' = StoredSlices
    BY <1>9, <1>10, <2>2
  <2>. QED
    BY <1>8, <2>3
<1>15. CASE e \notin Filled(t)
  <2>1. PICK F, F2, E : F = Filled(t) /\ F2 = Filled(t)' /\ E = 0 .. launch.epiTiles - 1
    OBVIOUS
  <2>2. F2 = F \cup {e} /\ e \notin F /\ F \subseteq E /\ F2 \subseteq E
    BY <1>1, <1>7, <1>8, <1>15, <2>1 DEF Filled, OutShape
  <2>3. IsFiniteSet(E) /\ Cardinality(E) = launch.epiTiles
    <3>1. 0 \in Int /\ launch.epiTiles - 1 \in Int
      BY <1>5
    <3>2. /\ IsFiniteSet(0 .. launch.epiTiles - 1)
          /\ Cardinality(0 .. launch.epiTiles - 1) =
               IF 0 > launch.epiTiles - 1 THEN 0 ELSE launch.epiTiles - 1 - 0 + 1
      BY <3>1, FS_Interval
    <3>. QED
      BY <1>5, <2>1, <3>2
  <2>4. IsFiniteSet(F) /\ Cardinality(F) \in Nat
    BY <2>2, <2>3, FS_Subset, FS_CardinalityType
  <2>5. Cardinality(F2) = Cardinality(F) + 1
    BY <2>2, <2>4, FS_AddElement
  <2>6. Cardinality(F2) <= launch.epiTiles
    BY <2>2, <2>3, FS_Subset
  <2>7. /\ StoredSlices[k] = Cardinality(F) /\ k \in DOMAIN StoredSlices
        /\ StoredSlices'[k] = Cardinality(F2)
    BY <1>9, <1>10, <1>12, <1>13, <2>1
  <2>8. /\ DOMAIN StoredSlices = 1 .. n /\ DOMAIN StoredSlices' = 1 .. n
        /\ \A x \in 1 .. n : x # k => StoredSlices'[x] = StoredSlices[x]
    BY <1>9, <1>10, <1>11, <1>12
  <2>9. PICK a, b : a = StoredSlices /\ b = StoredSlices'
    OBVIOUS
  <2>10. /\ a = [x \in 1 .. n |-> a[x]] /\ b = [x \in 1 .. n |-> b[x]]
    BY <1>9, <1>10, <2>9
  <2>11. b = [a EXCEPT ![k] = a[k] + 1]
    BY <2>5, <2>7, <2>8, <2>9, <2>10
  <2>12. k <= Some(Opened) /\ StoredSlices[k] < launch.epiTiles
    BY <1>2, <1>5, <1>12, <2>4, <2>5, <2>6, <2>7
  <2>13. OneSliceMore
    BY <2>7, <2>9, <2>11, <2>12 DEF OneSliceMore
  <2>. QED
    BY <1>8, <2>13
<1>. QED
  BY <1>14, <1>15

(***************************************************************************)
(* The run before a kernel, and the first state of a kernel.               *)
(***************************************************************************)
LEMMA NothingSeen ==
  ASSUME ~Running
  PROVE  /\ Cardinality(TilesOf) = 0 /\ StoredSlices = <<>>
         /\ Some(Entered) = 0 /\ Every(Multiplied) = 0
         /\ Some(Opened) = 0 /\ Every(Before) = 0
<1>1. TilesOf = {} /\ Cardinality({}) = 0
  BY FS_EmptySet DEF TilesOf
<1>2. Some(Entered) = 0 /\ Some(Opened) = 0
  BY DEF Some
<1>3. /\ {j \in TilesOf : \A w \in Warps(launch) : j \in Mine(w) => j \in Multiplied(w)} = {}
      /\ {j \in TilesOf : \A w \in Warps(launch) : j \in Mine(w) => j \in Before(w)} = {}
  BY <1>1
<1>4. Every(Multiplied) = 0 /\ Every(Before) = 0
  BY <1>1, <1>3 DEF Every
<1>5. StoredSlices = <<>>
  BY <1>1 DEF StoredSlices
<1>. QED
  BY <1>1, <1>2, <1>4, <1>5

\* How the counts of a kernel stand to each other.
LEMMA CountsOf ==
  ASSUME Running, AllInTurn
  PROVE  /\ Some(Entered) \in Nat /\ Every(Multiplied) \in Nat
         /\ Some(Opened) \in Nat /\ Every(Before) \in Nat
         /\ Cardinality(TilesOf) \in Nat
         /\ Every(Multiplied) <= Some(Entered) /\ Every(Before) <= Some(Opened)
<1>1. PICK W, T, mine : W = Warps(launch) /\ T = TilesOf /\ mine = ShareOf
  OBVIOUS
<1>2. PICK e, m, o, c : e = EnteredOf /\ m = MultipliedOf /\ o = OpenedOf /\ c = ClosedOf
  OBVIOUS
<1>3. InTurn(W, T, mine, e, m) /\ InTurn(W, T, mine, o, c)
  BY <1>1, <1>2 DEF AllInTurn, LoopInTurn, BuffersInTurn
<1>4. PICK B, D, B2, D2 :
        /\ B = BegunBy(W, e) /\ D = EndedBy(W, T, mine, m)
        /\ B2 = BegunBy(W, o) /\ D2 = EndedBy(W, T, mine, c)
  OBVIOUS
<1>5. /\ Cardinality(B) \in Nat /\ Cardinality(D) \in Nat /\ Cardinality(T) \in Nat
      /\ Cardinality(D) <= Cardinality(B)
  <2>1. /\ Cardinality(B) \in Nat /\ Cardinality(D) \in Nat /\ Cardinality(T) \in Nat
        /\ Cardinality(B) = Cardinality(D) \/ Cardinality(B) = Cardinality(D) + 1
    BY <1>3, <1>4, OneAtATime
  <2>. QED
    BY <2>1
<1>6. /\ Cardinality(B2) \in Nat /\ Cardinality(D2) \in Nat
      /\ Cardinality(D2) <= Cardinality(B2)
  <2>1. /\ Cardinality(B2) \in Nat /\ Cardinality(D2) \in Nat
        /\ Cardinality(B2) = Cardinality(D2) \/ Cardinality(B2) = Cardinality(D2) + 1
    BY <1>3, <1>4, OneAtATime
  <2>. QED
    BY <2>1
<1>. QED
  BY <1>1, <1>2, <1>4, <1>5, <1>6, SeenOfKernel DEF Ended

\* No warp has begun, nothing is stored.
Fresh ==
    /\ Running /\ AllInTurn /\ OutShape
    /\ \E schedule : launch \in Launches(schedule)
    /\ \A w \in Warps(launch) : Entered(w) = {} /\ Opened(w) = {}
    /\ \A t \in DOMAIN out : \A e \in DOMAIN out[t] : out[t][e] = <<>>

LEMMA FreshSeen ==
  Fresh => /\ Cardinality(TilesOf) \in Nat
           /\ Some(Entered) = 0 /\ Every(Multiplied) = 0
           /\ Some(Opened) = 0 /\ Every(Before) = 0
           /\ StoredSlices = [t \in 1 .. Cardinality(TilesOf) |-> 0]
<1>. SUFFICES ASSUME Fresh
              PROVE  /\ Cardinality(TilesOf) \in Nat
                     /\ Some(Entered) = 0 /\ Every(Multiplied) = 0
                     /\ Some(Opened) = 0 /\ Every(Before) = 0
                     /\ StoredSlices = [t \in 1 .. Cardinality(TilesOf) |-> 0]
  OBVIOUS
<1>1. PICK schedule : launch \in Launches(schedule)
  BY DEF Fresh
<1>2. Running /\ AllInTurn /\ OutShape
  BY DEF Fresh
<1>3. Some(Entered) = 0 /\ Some(Opened) = 0
  <2>1. BegunBy(Warps(launch), EnteredOf) = {} /\ BegunBy(Warps(launch), OpenedOf) = {}
    BY DEF Fresh, BegunBy, EnteredOf, OpenedOf
  <2>. QED
    BY <1>2, <2>1, SeenOfKernel, FS_EmptySet
<1>4. Every(Multiplied) = 0 /\ Every(Before) = 0
  BY <1>2, <1>3, CountsOf
<1>5. PICK n : n = Cardinality(TilesOf)
  OBVIOUS
<1>6. n \in Nat /\ TilesOf = 0 .. n - 1 /\ \A x \in Nat : x \in TilesOf => Valid(x)
  BY <1>1, <1>2, <1>5, TilesOfCta
<1>7. ASSUME NEW k \in 1 .. n PROVE Cardinality(Filled(Linear(k - 1))) = 0
  <2>1. PICK x \in Nat : x = k - 1
    OBVIOUS
  <2>2. Valid(x)
    BY <1>6, <2>1
  <2>3. Linear(x) \in Nat /\ Linear(x) < launch.tiles /\ launch.tiles \in Nat
    BY <1>1, <2>2, LinearGrows DEF Launches, Positive, Valid
  <2>4. Linear(x) \in DOMAIN out
    BY <1>2, <2>3 DEF OutShape
  <2>5. Filled(Linear(x)) = {}
    BY <2>4 DEF Fresh, Filled
  <2>. QED
    BY <2>1, <2>5, FS_EmptySet
<1>8. StoredSlices = [k \in 1 .. n |-> Cardinality(Filled(Linear(k - 1)))]
  BY <1>5 DEF StoredSlices, Filled
<1>9. StoredSlices = [k \in 1 .. n |-> 0]
  BY <1>7, <1>8
<1>. QED
  BY <1>3, <1>4, <1>5, <1>6, <1>9

\* The same of a state further on.
LEMMA FreshThen ==
  Fresh' => (/\ Cardinality(TilesOf) \in Nat
             /\ Some(Entered) = 0 /\ Every(Multiplied) = 0
             /\ Some(Opened) = 0 /\ Every(Before) = 0
             /\ StoredSlices = [t \in 1 .. Cardinality(TilesOf) |-> 0])'
BY FreshSeen, PTL

(***************************************************************************)
(* What the pipeline of a running kernel needs of its stores, its output   *)
(* and its warps.                                                          *)
(***************************************************************************)
PipelineInv ==
    Running =>
      /\ OutShape /\ OutSeqs /\ StoresPlaced
      /\ launch.schedule = "pingpong" => LinedUp
      /\ launch.schedule = "cooperative" => CoopTogether

LEMMA FreshOutput ==
  ASSUME FreshMachine
  PROVE  /\ OutShape /\ OutSeqs /\ StoresPlaced
         /\ \A t \in DOMAIN out : \A e \in DOMAIN out[t] : out[t][e] = <<>>
<1>1. OutShape /\ \A t \in DOMAIN out : \A e \in DOMAIN out[t] : out[t][e] = <<>>
  BY DEF FreshMachine, FreshOut, OutShape
<1>2. <<>> \in Seq({})
  OBVIOUS
<1>3. OutSeqs
  BY <1>1, <1>2 DEF OutSeqs
<1>4. \A w \in Warps(launch) : stores[w] = <<>>
  BY DEF FreshMachine, FreshStores
<1>5. DOMAIN <<>> = {}
  OBVIOUS
<1>6. StoresPlaced
  BY <1>4, <1>5 DEF StoresPlaced
<1>. QED
  BY <1>1, <1>3, <1>6

LEMMA FreshPing ==
  Running /\ PingInv /\ PingInit /\ launch.schedule = "pingpong" => Fresh /\ PipelineInv
<1>. SUFFICES ASSUME Running, PingInv, PingInit, launch.schedule = "pingpong"
              PROVE  Fresh /\ PipelineInv
  OBVIOUS
<1>1. LinedUp /\ FreshMachine /\ launch \in Launches("pingpong")
  BY LinedInit DEF PingInit, PingLaunches
<1>2. AllInTurn
  BY <1>1, PingInTurn
<1>3. ASSUME NEW w \in Warps(launch) PROVE Entered(w) = {} /\ Opened(w) = {}
  <2>1. pc[w] = "start" /\ warp[w].executed = w[1]
    BY DEF PingInit, FreshMachine, FreshPingWarps, FreshPingWarp
  <2>2. Mine(w) \subseteq Nat /\ (\A j \in Mine(w) : j % 2 = w[1]) /\ (w[1] = 0 \/ w[1] = 1)
    BY PingTiles
  <2>3. ASSUME NEW j \in Mine(w) PROVE ~(j < w[1])
    <3>1. j \in Nat /\ j % 2 = w[1] /\ (w[1] = 0 \/ w[1] = 1)
      BY <2>2
    <3>2. CASE w[1] = 0
      BY <3>1, <3>2
    <3>3. CASE w[1] = 1
      <4>1. j # 0
        BY <3>1, <3>3
      <4>. QED
        BY <3>1, <3>3, <4>1
    <3>. QED
      BY <3>1, <3>2, <3>3
  <2>4. Before(w) = {}
    BY <2>1, <2>3 DEF Before
  <2>. QED
    BY <2>1, <2>4 DEF Entered, Opened, On, HasBuffers, MainLoop, Epilogue
<1>. QED
  BY <1>1, <1>2, <1>3, FreshOutput DEF Fresh, PipelineInv

LEMMA FreshCoop ==
  Running /\ CoopInv /\ CoopInit /\ launch.schedule = "cooperative" => Fresh /\ PipelineInv
<1>. SUFFICES ASSUME Running, CoopInv, CoopInit, launch.schedule = "cooperative"
              PROVE  Fresh /\ PipelineInv
  OBVIOUS
<1>1. CoopTogether /\ FreshMachine /\ launch \in Launches("cooperative")
  BY CoopFresh DEF CoopInit, CoopEpilogueInv
<1>2. AllInTurn
  BY <1>1, CoopInTurn
<1>3. ASSUME NEW w \in Warps(launch) PROVE Entered(w) = {} /\ Opened(w) = {}
  <2>1. pc[w] = "start" /\ warp[w].executed = 0
    BY DEF CoopInit, FreshMachine, FreshCoopWarps, FreshCoopWarp
  <2>2. Mine(w) \subseteq Nat
    BY <1>1, TilesOfCta DEF Mine, TilesOf
  <2>3. Before(w) = {}
    BY <2>1, <2>2 DEF Before
  <2>. QED
    BY <2>1, <2>3 DEF Entered, Opened, On, HasBuffers, MainLoop, Epilogue
<1>. QED
  BY <1>1, <1>2, <1>3, FreshOutput DEF Fresh, PipelineInv

\* The same of a state further on.
LEMMA FreshPingThen ==
  (Running /\ PingInv /\ PingInit /\ launch.schedule = "pingpong")' => Fresh' /\ PipelineInv'
BY FreshPing, PTL

LEMMA FreshCoopThen ==
  (Running /\ CoopInv /\ CoopInit /\ launch.schedule = "cooperative")' => Fresh' /\ PipelineInv'
BY FreshCoop, PTL

LEMMA RunInTurn == RunInv /\ PipelineInv /\ Running => AllInTurn
BY RunningKernel, PingInTurn, CoopInTurn DEF PipelineInv

LEMMA RunInTurnThen == RunInv' /\ PipelineInv' /\ Running' => AllInTurn'
BY RunInTurn, PTL

\* A step of the kernel that runs, or none.
KernelSteps ==
    /\ launch.schedule = "pingpong" => [PingNext]_vars
    /\ launch.schedule = "cooperative" => [CoopNext]_vars

LEMMA RunningStep ==
  ASSUME RunInv, PipelineInv, Running, Running', KernelSteps
  PROVE  /\ launch' = launch /\ launch \in Launches(launch.schedule)
         /\ AllInTurn /\ Advance /\ PipelineInv'
         /\ StoredSlices' = StoredSlices \/ (UNCHANGED <<pc, warp>> /\ OneSliceMore)
<1>1. /\ OutShape /\ OutSeqs /\ StoresPlaced /\ AllInTurn
      /\ launch.schedule = "pingpong" => LinedUp
      /\ launch.schedule = "cooperative" => CoopTogether
  BY RunInTurn DEF PipelineInv
<1>2. \/ launch.schedule = "pingpong" /\ PingInv /\ [PingNext]_vars
      \/ launch.schedule = "cooperative" /\ CoopInv /\ [CoopNext]_vars
  BY RunningKernel DEF KernelSteps
<1>3. launch' = launch /\ OutShape'
  BY <1>1, <1>2, KernelKeepsLaunch, OutShapeKept
<1>4. TilesOf' = TilesOf
  BY <1>3 DEF TilesOf, Valid, Linear
<1>5. /\ launch \in Launches(launch.schedule) /\ Advance
      /\ launch.schedule = "pingpong" => LinedUp'
      /\ launch.schedule = "cooperative" => CoopTogether'
  <2>1. CASE launch.schedule = "pingpong" /\ PingInv /\ [PingNext]_vars
    <3>1. launch \in Launches("pingpong")
      BY <2>1 DEF PingInv, PingBasics, OrderInv, Shape, PingLaunches
    <3>. QED
      BY <1>1, <2>1, <3>1, PingAdvances, LinedNext
  <2>2. CASE launch.schedule = "cooperative" /\ CoopInv /\ [CoopNext]_vars
    <3>1. launch \in Launches("cooperative")
      BY <2>2 DEF CoopInv, CoopShape
    <3>. QED
      BY <1>1, <2>2, <3>1, CoopAdvances, CoopTogetherNext
  <2>. QED
    BY <1>2, <2>1, <2>2
<1>6. /\ StoreShape
      /\ \A w \in Warps(launch) : pc[w] = "store" => warp[w].epi \in 0 .. launch.epiTiles - 1
  <2>1. CASE launch.schedule = "pingpong" /\ PingInv
    BY <2>1, SliceNumbers DEF PingInv, Drained, StoreShape, StoreRecords
  <2>2. CASE launch.schedule = "cooperative" /\ CoopInv
    BY <2>2, CoopSliceNumbers DEF CoopInv, CoopDrained, StoreShape, StoreRecords
  <2>. QED
    BY <1>2, <2>1, <2>2
<1>7. \/ stores' = stores /\ out' = out
      \/ out' = out /\ \E w \in Warps(launch) : \E b : Committing(w, b)
      \/ \E w \in Warps(launch) : \E i \in DOMAIN stores[w] : ReadStore(w, i)
  BY <1>2, StoresAndOutput
<1>8. StoresPlaced'
  BY <1>1, <1>3, <1>5, <1>6, <1>7, StoresPlacedKept
<1>9. OutSeqs' /\ (StoredSlices' = StoredSlices \/ (UNCHANGED <<pc, warp>> /\ OneSliceMore))
  <2>1. CASE out' = out
    <3>1. StoredSlices' = StoredSlices
      BY <1>3, <1>4, <2>1 DEF StoredSlices, Linear
    <3>. QED
      BY <1>1, <2>1, <3>1 DEF OutSeqs
  <2>2. ASSUME NEW w \in Warps(launch), NEW i \in DOMAIN stores[w], ReadStore(w, i)
        PROVE  OutSeqs' /\ (StoredSlices' = StoredSlices \/ (UNCHANGED <<pc, warp>> /\ OneSliceMore))
    <3>1. UNCHANGED <<pc, warp>>
      BY <2>2 DEF ReadStore
    <3>. QED
      BY <1>1, <1>3, <1>4, <1>5, <2>2, <3>1, StoreMoves
  <2>. QED
    BY <1>7, <2>1, <2>2
<1>. QED
  BY <1>1, <1>3, <1>5, <1>8, <1>9 DEF PipelineInv

\* As a step of the abstract pipeline.
LEMMA KernelRefines ==
  ASSUME RunInv, RunInv', PipelineInv, Running, Running', KernelSteps
  PROVE  [Pipeline!Next]_(Pipeline!vars)
<1>1. /\ launch' = launch /\ AllInTurn /\ Advance /\ PipelineInv'
      /\ StoredSlices' = StoredSlices \/ (UNCHANGED <<pc, warp>> /\ OneSliceMore)
  BY RunningStep
<1>2. AllInTurn'
  BY <1>1, RunInTurnThen
<1>3. /\ TilesOf' = TilesOf
      /\ \/ /\ OneMore(Some(Entered), Every(Multiplied), Some(Entered)', Every(Multiplied)',
                       Cardinality(TilesOf))
            /\ Some(Opened)' = Some(Opened) /\ Every(Before)' = Every(Before)
         \/ /\ OneMore(Some(Opened), Every(Before), Some(Opened)', Every(Before)',
                       Cardinality(TilesOf))
            /\ Some(Entered)' = Some(Entered) /\ Every(Multiplied)' = Every(Multiplied)
      /\ Some(Opened)' <= Every(Multiplied)'
  BY <1>1, <1>2, CountsMove
<1>4. /\ Some(Entered) \in Nat /\ Every(Multiplied) \in Nat
      /\ Some(Opened) \in Nat /\ Every(Before) \in Nat /\ Cardinality(TilesOf) \in Nat
  BY <1>1, CountsOf
<1>5. /\ Cardinality(TilesOf)' = Cardinality(TilesOf)
      /\ (IF Running THEN launch.epiTiles ELSE 0) = launch.epiTiles
      /\ (IF Running THEN launch.epiTiles ELSE 0)' = launch.epiTiles
  BY <1>1, <1>3
<1>6. CASE UNCHANGED <<pc, warp>> /\ OneSliceMore
  <2>1. \A w : /\ Entered(w)' = Entered(w) /\ Multiplied(w)' = Multiplied(w)
               /\ Opened(w)' = Opened(w) /\ Before(w)' = Before(w) /\ Mine(w)' = Mine(w)
    BY <1>1, <1>6 DEF Entered, Multiplied, Opened, Before, On, HasBuffers, Mine, Valid, Linear
  <2>2. /\ Some(Entered)' = Some(Entered) /\ Every(Multiplied)' = Every(Multiplied)
        /\ Some(Opened)' = Some(Opened) /\ Every(Before)' = Every(Before)
    BY <1>1, <1>3, <2>1 DEF Some, Every
  <2>3. PICK t \in DOMAIN StoredSlices :
          /\ t <= Some(Opened) /\ StoredSlices[t] < launch.epiTiles
          /\ StoredSlices' = [StoredSlices EXCEPT ![t] = @ + 1]
    BY <1>6 DEF OneSliceMore
  <2>4. Pipeline!Store(t)
    BY <1>5, <2>2, <2>3 DEF Pipeline!Store
  <2>. QED
    BY <2>4 DEF Pipeline!Next
<1>7. CASE StoredSlices' = StoredSlices
  <2>1. CASE /\ OneMore(Some(Entered), Every(Multiplied), Some(Entered)', Every(Multiplied)',
                        Cardinality(TilesOf))
             /\ Some(Opened)' = Some(Opened) /\ Every(Before)' = Every(Before)
    <3>1. CASE Some(Entered)' = Some(Entered) /\ Every(Multiplied)' = Every(Multiplied)
      BY <1>5, <1>7, <2>1, <3>1 DEF Pipeline!vars
    <3>2. CASE /\ Every(Multiplied)' = Every(Multiplied) /\ Some(Entered) = Every(Multiplied)
               /\ Some(Entered)' = Some(Entered) + 1 /\ Some(Entered)' <= Cardinality(TilesOf)
      <4>1. Some(Entered) < Cardinality(TilesOf)
        BY <1>4, <3>2
      <4>2. Pipeline!Enter
        BY <1>5, <1>7, <2>1, <3>2, <4>1 DEF Pipeline!Enter
      <4>. QED
        BY <4>2 DEF Pipeline!Next
    <3>3. CASE /\ Some(Entered)' = Some(Entered) /\ Every(Multiplied) < Some(Entered)
               /\ Every(Multiplied)' = Every(Multiplied) + 1
      <4>1. Pipeline!Multiply
        BY <1>5, <1>7, <2>1, <3>3 DEF Pipeline!Multiply
      <4>. QED
        BY <4>1 DEF Pipeline!Next
    <3>. QED
      BY <2>1, <3>1, <3>2, <3>3 DEF OneMore
  <2>2. CASE /\ OneMore(Some(Opened), Every(Before), Some(Opened)', Every(Before)',
                        Cardinality(TilesOf))
             /\ Some(Entered)' = Some(Entered) /\ Every(Multiplied)' = Every(Multiplied)
    <3>1. CASE Some(Opened)' = Some(Opened) /\ Every(Before)' = Every(Before)
      BY <1>5, <1>7, <2>2, <3>1 DEF Pipeline!vars
    <3>2. CASE /\ Every(Before)' = Every(Before) /\ Some(Opened) = Every(Before)
               /\ Some(Opened)' = Some(Opened) + 1
      <4>1. Some(Opened) < Every(Multiplied)
        BY <1>3, <1>4, <2>2, <3>2
      <4>2. Pipeline!Open
        BY <1>5, <1>7, <2>2, <3>2, <4>1 DEF Pipeline!Open
      <4>. QED
        BY <4>2 DEF Pipeline!Next
    <3>3. CASE /\ Some(Opened)' = Some(Opened) /\ Every(Before) < Some(Opened)
               /\ Every(Before)' = Every(Before) + 1
      <4>1. Pipeline!Close
        BY <1>5, <1>7, <2>2, <3>3 DEF Pipeline!Close
      <4>. QED
        BY <4>1 DEF Pipeline!Next
    <3>. QED
      BY <2>2, <3>1, <3>2, <3>3 DEF OneMore
  <2>. QED
    BY <1>3, <2>1, <2>2
<1>. QED
  BY <1>1, <1>6, <1>7

LEMMA NothingThen ==
  ~Running' => (/\ Cardinality(TilesOf) = 0 /\ StoredSlices = <<>>
                /\ Some(Entered) = 0 /\ Every(Multiplied) = 0
                /\ Some(Opened) = 0 /\ Every(Before) = 0)'
BY NothingSeen, PTL

LEMMA LaunchRefines ==
  ASSUME RunInv, RunInv', FinalExecution
  PROVE  PipelineInv' /\ Pipeline!Begin
<1>1. /\ host'.pc = "running" /\ launch'.schedule \in {"pingpong", "cooperative"}
      /\ launch'.schedule = "pingpong" => PingInit'
      /\ launch'.schedule = "cooperative" => CoopInit'
  BY LaunchStarts DEF RunInv
<1>2. Running' /\ ~Running
  BY <1>1 DEF Running, FinalExecution
<1>3. /\ launch'.schedule = "pingpong" => PingInv'
      /\ launch'.schedule = "cooperative" => CoopInv'
  BY <1>2 DEF RunInv, KernelInv
<1>4. Fresh' /\ PipelineInv'
  BY <1>1, <1>2, <1>3, FreshPingThen, FreshCoopThen
<1>5. PICK n, e : n = Cardinality(TilesOf)' /\ e = launch'.epiTiles
  OBVIOUS
<1>6. /\ n \in Nat /\ StoredSlices' = [t \in 1 .. n |-> 0]
      /\ Some(Entered)' = 0 /\ Every(Multiplied)' = 0
      /\ Some(Opened)' = 0 /\ Every(Before)' = 0
  BY <1>4, <1>5, FreshThen
<1>7. e \in Nat
  BY <1>4, <1>5 DEF Fresh, Launches, Positive
<1>8. /\ Cardinality(TilesOf) = 0
      /\ Some(Entered) = 0 /\ Every(Multiplied) = 0 /\ Some(Opened) = 0 /\ Every(Before) = 0
  BY <1>2, NothingSeen
<1>9. (IF Running THEN launch.epiTiles ELSE 0)' = e
  BY <1>2, <1>5
<1>10. Pipeline!Begin
  BY <1>5, <1>6, <1>7, <1>8, <1>9 DEF Pipeline!Begin
<1>. QED
  BY <1>4, <1>10

LEMMA RunRefines ==
  ASSUME RunInv, RunInv', PipelineInv, [RunNext]_allVars
  PROVE  PipelineInv' /\ [Pipeline!Next]_(Pipeline!vars)
<1>1. ASSUME ~Running, ~Running' PROVE PipelineInv' /\ UNCHANGED Pipeline!vars
  <2>1. (IF Running THEN launch.epiTiles ELSE 0) = 0
        /\ (IF Running THEN launch.epiTiles ELSE 0)' = 0
    BY <1>1
  <2>2. UNCHANGED Pipeline!vars
    BY <1>1, <2>1, NothingSeen, NothingThen DEF Pipeline!vars
  <2>. QED
    BY <1>1, <2>2 DEF PipelineInv
<1>2. ASSUME Running, Running', KernelSteps
      PROVE  PipelineInv' /\ [Pipeline!Next]_(Pipeline!vars)
  BY <1>2, RunningStep, KernelRefines
<1>3. CASE ParseArguments \/ CheckProblem \/ Compile
  <2>1. ASSUME NEW from, NEW to, NEW otherwise, NEW accepted \in BOOLEAN,
               Host(from, accepted, to, otherwise),
               \A p \in {from, to, otherwise} : p \notin {"running", "returned"}
        PROVE  ~Running /\ ~Running'
    <3>1. host.pc = from /\ host'.pc = IF accepted THEN to ELSE otherwise
      BY <2>1, HostStep DEF RunInv
    <3>2. host'.pc \in {to, otherwise}
      BY <3>1
    <3>. QED
      BY <2>1, <3>1, <3>2 DEF Running
  <2>2. /\ CliAccepts(host.problem) \in BOOLEAN /\ RunAccepts(host.problem) \in BOOLEAN
        /\ CompileAccepts(host.problem) \in BOOLEAN
    BY DEF CliAccepts, RunAccepts, CompileAccepts
  <2>3. ~Running /\ ~Running'
    BY <1>3, <2>1, <2>2 DEF ParseArguments, CheckProblem, Compile
  <2>. QED
    BY <1>1, <2>3
<1>4. CASE FinalExecution
  BY <1>4, LaunchRefines DEF Pipeline!Next
<1>5. CASE Kernel
  <2>1. /\ host' = host /\ host.pc = "running"
        /\ \/ launch.schedule = "pingpong" /\ PingNext
           \/ launch.schedule = "cooperative" /\ CoopNext
    BY <1>5 DEF Kernel
  <2>2. Running /\ Running' /\ KernelSteps
    BY <2>1 DEF Running, KernelSteps
  <2>. QED
    BY <1>2, <2>2
<1>6. CASE Return
  <2>1. host' = [host EXCEPT !.pc = "returned"] /\ host.pc = "running" /\ UNCHANGED vars
    BY <1>6 DEF Return
  <2>2. host'.pc = "returned"
    BY <2>1 DEF RunInv, HostInv
  <2>3. Running /\ Running' /\ KernelSteps
    BY <2>1, <2>2 DEF Running, KernelSteps
  <2>. QED
    BY <1>2, <2>3
<1>7. CASE UNCHANGED allVars
  <2>1. UNCHANGED vars /\ Running' = Running
    BY <1>7 DEF allVars, vars, Running
  <2>2. KernelSteps
    BY <2>1 DEF KernelSteps
  <2>. QED
    BY <1>1, <1>2, <2>1, <2>2
<1>. QED
  BY <1>3, <1>4, <1>5, <1>6, <1>7 DEF RunNext, Over

\* Either kernel, launched for whatever problem, implements the two-part pipeline:
\* the tiles of the CTA enter the main loop one at a time and leave it before
\* they get the epilogue buffers, which they have one at a time as well; every
\* slice that is stored is one of a tile that has been multiplied.
THEOREM RunKeepsTilesInOrder == RunSpec => TilesInOrder
<1>1. RunInit => Pipeline!Init /\ PipelineInv
  <2>. SUFFICES ASSUME RunInit PROVE Pipeline!Init /\ PipelineInv
    OBVIOUS
  <2>1. ~Running
    BY DEF RunInit, Running
  <2>2. (IF Running THEN launch.epiTiles ELSE 0) = 0
    BY <2>1
  <2>3. Pipeline!Init
    BY <2>1, <2>2, NothingSeen DEF Pipeline!Init
  <2>. QED
    BY <2>1, <2>3 DEF PipelineInv
<1>2. RunInv /\ RunInv' /\ PipelineInv /\ [RunNext]_allVars => PipelineInv'
  BY RunRefines
<1>3. RunInv /\ RunInv' /\ PipelineInv /\ [RunNext]_allVars => [Pipeline!Next]_(Pipeline!vars)
  BY RunRefines
<1>. QED
  BY <1>1, <1>2, <1>3, RunHolds, PTL DEF RunSpec, TilesInOrder, Pipeline!Spec
=============================================================================
