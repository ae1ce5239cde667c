------------------------------ MODULE GemmHost ------------------------------
(***************************************************************************)
(* The host side of the block-scaled GEMM as operators: what the command   *)
(* line accepts, which MMA instruction is chosen, how many stages fit in   *)
(* the shared memory, how it is laid out, and which tiles a launch has.    *)
(*                                                                         *)
(* A problem is a record: entry ("cli" or "api"), schedule, m, n, k, a, b, *)
(* sf and c (data types), vec (elements per scale factor), tile (bM, bN,   *)
(* bK), epi (epilogue tile), map (tile-N indirection, <<>> for identity),  *)
(* stacked (rows of B), ctas (CTAs the device runs at once), cta (the one  *)
(* looked at), warps (MMA warps of a group, four in the code).             *)
(***************************************************************************)
EXTENDS Integers, Sequences, FiniteSetsExt

CONSTANT SmemCapacity  \* bytes of shared memory a block may have

\* Room for a stage of the largest tile the command line allows.
ASSUME SmemCapacityAssumption == SmemCapacity \in Nat /\ SmemCapacity >= 71680

Fp8 == {"e4m3", "e5m2"}

\* Bits of a value.
Width(type) ==
    CASE type = "fp4" -> 4
      [] type \in Fp8 \cup {"e8m0"} -> 8
      [] type \in {"f16", "bf16"} -> 16
      [] OTHER -> 32

Mixed(p) == p.a # p.b

(***************************************************************************)
(* parse_arguments: one entry per branch that does not raise.              *)
(***************************************************************************)
Fp4Tiles == {<<128, 128, 128>>, <<128, 128, 256>>}
Fp8Tiles == {<<128, 128, 128>>}

\* The choices of --tile_shape_mnk and --epi_tile.
CliTiles == {<<128, 128, 128>>, <<128, 128, 256>>}
CliEpiTiles == {<<128, 128>>, <<64, 32>>}

\* Mutant: the tile shape of FP8 operands is not looked at.
CliAcceptsAnyTile(p) ==
    /\ p.vec \in {16, 32}
    /\ p.a \notin Fp8 => p.a = "fp4"
    /\ p.vec = 16 => ~Mixed(p) /\ p.a = "fp4" /\ p.sf = "e4m3"
    /\ p.vec = 32 => p.sf = "e8m0"

CliAccepts(p) ==
    /\ p.vec \in {16, 32}
    /\ \/ /\ Mixed(p)
          /\ {p.a, p.b} \in {{"fp4", "e4m3"}, {"fp4", "e5m2"}}
          /\ p.vec = 32
          /\ p.sf = "e8m0"
          /\ p.tile \in Fp8Tiles
       \/ /\ ~Mixed(p)
          /\ p.a \in Fp8
          /\ p.vec = 32
          /\ p.sf = "e8m0"
          /\ p.tile \in Fp8Tiles
       \/ /\ ~Mixed(p)
          /\ p.a = "fp4"
          /\ p.vec = 16 => p.sf = "e4m3"
          /\ p.vec = 32 => p.sf = "e8m0" /\ p.tile[3] % 128 = 0
          /\ p.tile \in Fp4Tiles

(***************************************************************************)
(* make_sm120_blockscaled_mma_op: the instruction, or "none" where it      *)
(* raises.                                                                 *)
(***************************************************************************)
MmaOp(p) ==
    CASE ~Mixed(p) /\ p.a = "fp4" /\ p.vec = 16 /\ p.sf = "e4m3" -> "mxf4nvf4"
      [] ~Mixed(p) /\ p.a = "fp4" /\ p.vec = 32 /\ p.sf = "e8m0" -> "mxf4"
      [] ~Mixed(p) /\ p.a \in Fp8 /\ p.vec = 32 /\ p.sf = "e8m0" -> "mxf8"
      [] /\ Mixed(p) /\ "fp4" \in {p.a, p.b} /\ {p.a, p.b} \cap Fp8 # {}
         /\ p.vec = 32 /\ p.sf = "e8m0" -> "mxf8f6f4"
      [] OTHER -> "none"

\* K extent of one MMA block.
MmaK(p) == IF MmaOp(p) \in {"mxf8", "mxf8f6f4"} THEN 32 ELSE 64

(***************************************************************************)
(* run_bs: what it refuses before it compiles.                             *)
(***************************************************************************)
RowsOf16Bytes(type, extent) == extent % (128 \div Width(type)) = 0

\* B is checked with the data type of A.
ValidAlignment(p) ==
    /\ RowsOf16Bytes(p.a, p.k)
    /\ RowsOf16Bytes(p.c, p.n)

MapInRange(p) ==
    \/ p.map = <<>>
    \/ /\ Len(p.map) = p.n \div 128
       /\ Max({p.map[i] : i \in DOMAIN p.map}) < p.stacked \div 128
       /\ Min({p.map[i] : i \in DOMAIN p.map}) >= 0

RunAccepts(p) == ValidAlignment(p) /\ Width(p.c) = 16 /\ MapInRange(p)

TileMap(p) == IF p.map # <<>> THEN p.map ELSE [i \in 1 .. p.n \div 128 |-> i - 1]

(***************************************************************************)
(* _setup_attributes and _compute_stages: bytes of shared memory.          *)
(***************************************************************************)
\* An FP4 operand next to an FP8 one is stored a byte per value.
SmemWidth(p, type) == IF Mixed(p) THEN 8 ELSE Width(type)

ABytes(p) == (p.tile[1] * p.tile[3] * SmemWidth(p, p.a)) \div 8
BBytes(p) == (p.tile[2] * p.tile[3] * SmemWidth(p, p.b)) \div 8
ScaleBytes(p, rows) == rows * (p.tile[3] \div p.vec)
StageBytes(p) ==
    ABytes(p) + BBytes(p) + ScaleBytes(p, p.tile[1]) + ScaleBytes(p, p.tile[2])

EpiTiles(p) == (p.tile[1] \div p.epi[1]) * (p.tile[2] \div p.epi[2])
EpiStages(p) == IF EpiTiles(p) < 4 THEN EpiTiles(p) ELSE 4
EpiBytes(p) == ((p.epi[1] * p.epi[2] * Width(p.c)) \div 8) * EpiStages(p)

Occupancy == 1
\* Mutant: nothing is set aside for the mbarriers.
NoBarrierHelperBytes == 0

BarrierHelperBytes == 1024

AbStages(p) ==
    ((SmemCapacity - Occupancy * 1024) \div Occupancy - BarrierHelperBytes - EpiBytes(p))
        \div StageBytes(p)

CompileAccepts(p) == MmaOp(p) # "none" /\ EpiStages(p) > 0

(***************************************************************************)
(* SharedStorage: two mbarriers per stage, for the ping-pong kernel room   *)
(* for two order mbarriers, then the buffers, each aligned.                *)
(***************************************************************************)
BufferAlign == 1024
Align(x) == ((x + BufferAlign - 1) \div BufferAlign) * BufferAlign

OrderBarrierAt(p) == 8 * (2 * AbStages(p))
OrderRoom(p) == IF p.schedule = "pingpong" THEN 2 ELSE 0
\* Depth times length of PipelineOrder, eight bytes each.
OrderBarriers(p) == IF p.schedule = "pingpong" THEN 2 * 2 ELSE 0
FirstBufferAt(p) == Align(OrderBarrierAt(p) + 8 * OrderRoom(p))

StorageEnd(p) ==
    LET S == AbStages(p)
        a == FirstBufferAt(p) + S * ABytes(p)
        b == Align(a) + S * BBytes(p)
        sfa == Align(b) + S * ScaleBytes(p, p.tile[1])
        sfb == Align(sfa) + S * ScaleBytes(p, p.tile[2])
    IN Align(sfb) + EpiBytes(p)

(***************************************************************************)
(* _compute_grid and the launch.                                           *)
(***************************************************************************)
CeilDiv(x, y) == (x + y - 1) \div y

OutputTiles(p) == CeilDiv(p.m, p.tile[1]) * CeilDiv(p.n, p.tile[2])

Grid(p) == IF OutputTiles(p) < p.ctas THEN OutputTiles(p) ELSE p.ctas

Launched(p) ==
    [schedule |-> p.schedule,
     stages |-> AbStages(p),
     kTiles |-> CeilDiv(p.k, p.tile[3]),
     kBlocks |-> p.tile[3] \div MmaK(p),
     epiTiles |-> EpiTiles(p),
     epiStages |-> EpiStages(p),
     mTiles |-> CeilDiv(p.m, p.tile[1]),
     tiles |-> OutputTiles(p),
     cta |-> p.cta,
     grid |-> Grid(p),
     map |-> TileMap(p),
     warps |-> p.warps]
=============================================================================
