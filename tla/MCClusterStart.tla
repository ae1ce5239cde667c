---------------------------- MODULE MCClusterStart ----------------------------
(* Instances of the cluster start for TLC. *)
EXTENDS ClusterStart, TLC

\* A table with more than ten entries: the glob lists 10 before 3.
GlobOrder  == <<1, 10, 3>>
SlotWindow == {1, 3}

Port(k1, k10, k3) == 1 :> k1 @@ 10 :> k10 @@ 3 :> k3

\* Index 3; index 1; index 10, which is a hole of the other port.
Production == <<Port("v2", "hole", "v2"), Port("v2", "hole", "v2")>>
Lower      == <<Port("v2", "hole", "other"), Port("v2", "hole", "other")>>
Beyond     == <<Port("other", "v2", "other"), Port("v2", "hole", "other")>>
Holed      == <<Port("v2", "v2", "v2"), Port("v2", "v2", "hole")>>

Good == [tables |-> Production, lib |-> "ring", tools |-> TRUE, names |-> TRUE, mounted |-> TRUE]

\* Hosts that pass the gate, and hosts that do not.
Passing ==
    {Good, [Good EXCEPT !.tables = Lower], [Good EXCEPT !.tables = Beyond],
     [Good EXCEPT !.tools = FALSE], [Good EXCEPT !.names = FALSE],
     [Good EXCEPT !.mounted = FALSE]}
Failing ==
    {[Good EXCEPT !.tables = Holed], [Good EXCEPT !.tables = <<>>],
     [Good EXCEPT !.lib = "NOFILE"], [Good EXCEPT !.lib = "stock"]}
Bare == [Good EXCEPT !.tables = <<>>, !.tools = FALSE]

AllSites == Passing \cup Failing \cup {Bare}

\* One host is not like the others, or all are alike.
MixedPlacements ==
    {[h \in Ranks |-> IF h = g THEN s ELSE Good] : g \in Ranks, s \in AllSites}
        \cup {[h \in Ranks |-> s] : s \in AllSites}
===============================================================================
