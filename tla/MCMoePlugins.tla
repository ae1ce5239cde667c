----------------------------- MODULE MCMoePlugins -----------------------------
(***************************************************************************)
(* The engine for TLC: two layers, three experts of which a row selects    *)
(* two, blocks of two rows, at most four tokens.  Sizes that the real      *)
(* values keep apart are kept apart: 1 (direct kernel) < 2 (bucket, tile)  *)
(* < 3 (W4A4) < 4 (beyond the top tier).                                   *)
(***************************************************************************)
EXTENDS MoePlugins

Default ==
    [w4a4 |-> "0", native |-> FALSE, merged |-> FALSE, warmup |-> TRUE,
     shared |-> TRUE, cg |-> TRUE, inputWeights |-> FALSE, expertMap |-> FALSE,
     policyKnown |-> TRUE, nvfp4 |-> {}, geometry |-> <<"g", "g">>]

\* The W4A4 plug-in in its modes, next to layers of an NVFP4 checkpoint or not.
W4A4Environments ==
    {[Default EXCEPT !.w4a4 = w, !.native = n, !.shared = s, !.inputWeights = i,
                     !.policyKnown = n => k, !.nvfp4 = o, !.geometry = <<"g", g>>] :
       w \in {"0", "1", "2"}, n \in BOOLEAN, s \in BOOLEAN, i \in BOOLEAN,
       k \in BOOLEAN, o \in {{}, {1}, {2}}, g \in {"g", "h"}}

MergedEnvironments ==
    {[Default EXCEPT !.merged = TRUE, !.expertMap = x[1], !.inputWeights = x[2], !.warmup = x[3]] :
       x \in {<<FALSE, FALSE, TRUE>>, <<FALSE, TRUE, TRUE>>, <<TRUE, FALSE, FALSE>>}}

\* The merged plug-in as it is deployed.
MergedAlone == {[Default EXCEPT !.merged = TRUE]}

MCEnvironments == W4A4Environments \cup MergedEnvironments

\* The same experts in two orders, others with the same first expert, an id
\* below and one above the range.
A == <<0, 1>>
B == <<1, 0>>
C == <<2, 0>>
Low == <<-1, 1>>
High == <<2, 3>>

\* Four rows: one bucket beyond the top tier, two buckets, a bucket and a rest,
\* a batch that leaves everything to Triton.
MCBatches ==
    {<<>>, <<A>>, <<Low>>, <<A, B>>, <<C, High>>, <<C, High, C>>, <<B, C, Low>>,
     <<A, B, B, A>>, <<A, C, B, C>>, <<Low, High, C, B>>}

MCTiers == <<2>>
=============================================================================
