------------------------- MODULE MCConcurrencyProxy -------------------------
(* Instances of the gateway for TLC. *)
EXTENDS ConcurrencyProxy, TLC

CONSTANTS c1, c2, c3, p, noClient

OneClient       == {c1}
ThreeClients    == {c1, c2, c3}
ClientsAndProbe == {c1, c2, p}
NoProbe         == {}
OneProbe        == {p}

\* Clients are interchangeable: nothing orders them but the queue.
Symmetry == Permutations(ThreeClients)
=============================================================================
