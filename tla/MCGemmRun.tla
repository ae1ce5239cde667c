------------------------------ MODULE MCGemmRun ------------------------------
(***************************************************************************)
(* Calls of run_bs for TLC.  Sizes, data types and the capacity are real   *)
(* ones; the bounds are the tiles of a CTA (three at most), the k tiles of *)
(* a problem (three at most) and the warps of a group (two or one where    *)
(* the kernel has four).                                                   *)
(***************************************************************************)
EXTENDS GemmRun

\* The default call of the kernel: NVFP4, 128 by 128 by 128.
Default ==
    [entry |-> "api", schedule |-> "pingpong", m |-> 128, n |-> 384, k |-> 256,
     a |-> "fp4", b |-> "fp4", sf |-> "e4m3", c |-> "f16", vec |-> 16,
     tile |-> <<128, 128, 128>>, epi |-> <<128, 128>>, map |-> <<>>,
     stacked |-> 384, ctas |-> 1, cta |-> 0, warps |-> 1]

\* Three stages, tiles of an indirect map, two warps in a group.
Mapped == [Default EXCEPT !.map = <<3, 0, 2>>, !.stacked = 512, !.warps = 2]

\* One stage: the tile of 256 along K.
OneStage == [Default EXCEPT !.tile = <<128, 128, 256>>, !.k = 768, !.entry = "cli"]

\* Eight epilogue slices over four buffers.
SmallEpilogue == [Default EXCEPT !.epi = <<64, 32>>, !.k = 128, !.n = 256]

\* The second of two CTAs, two rows of tiles.
SecondCta == [Default EXCEPT !.m = 256, !.n = 256, !.ctas = 2, !.cta = 1, !.entry = "cli"]

\* All warps on every tile.
Cooperative == [Default EXCEPT !.schedule = "cooperative", !.k = 384, !.n = 256]

\* And two slices over two buffers.
CooperativeSlices == [Cooperative EXCEPT !.epi = <<128, 64>>, !.k = 256]

Executed ==
    {Mapped, OneStage, SmallEpilogue, SecondCta, Cooperative, CooperativeSlices}

\* One tile in every combination of types, scale factors and tile shapes; of
\* the direct calls, those that have room for a stage.
Types == {"fp4", "e4m3", "e5m2"}
Tables ==
    {p \in {[Default EXCEPT !.entry = e, !.a = a, !.b = b, !.sf = sf, !.vec = v,
                            !.tile = t, !.n = 128, !.k = t[3], !.c = "bf16"] :
              e \in {"cli", "api"}, a \in Types, b \in Types, sf \in {"e4m3", "e8m0"},
              v \in {16, 32}, t \in {<<128, 128, 128>>, <<128, 128, 256>>}} :
        p.entry = "cli" \/ AbStages(p) > 0}

TurnedDown ==
    {[Default EXCEPT !.k = 40], [Default EXCEPT !.c = "f32"],
     [Default EXCEPT !.map = <<0, 1>>], [Default EXCEPT !.map = <<0, 3, 1>>]}

MCProblems == Executed \cup Tables \cup TurnedDown
=============================================================================
