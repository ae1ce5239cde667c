------------------------------- MODULE RoceGid -------------------------------
(***************************************************************************)
(* What the RoCE checks of a host compute from its GID tables: the hole    *)
(* scan and the preflight (preflight_roce_gid.sh), the suggested index     *)
(* (probe_gid_index.sh) and the index that is injected into the container  *)
(* as NCCL_IB_GID_INDEX (gid_index_env.sh).                                *)
(*                                                                         *)
(* The tables of a host are a sequence with one function per port, from    *)
(* slots to kinds: "hole" (all zero or empty), "v2" (RoCE v2), "other" (a  *)
(* GID of another type).  A host without /sys/class/infiniband has no      *)
(* port; one whose directory exists and is empty is left out (there the    *)
(* probe suggests -1 instead of failing).  Ports and slots are visited in  *)
(* the order of a shell glob, which is lexical: slot 10 comes before 2.    *)
(***************************************************************************)
EXTENDS Integers, Sequences

CONSTANTS
    Glob,      \* the slots that exist, in the order of gids/[0-9]*
    Window     \* the slots the preflight looks at: 0 .. 3

ASSUME GlobAssumption ==
    /\ Glob \in Seq(Nat)
    /\ \A i, j \in DOMAIN Glob : Glob[i] = Glob[j] => i = j
ASSUME WindowAssumption == Window \subseteq {Glob[i] : i \in DOMAIN Glob}

Slots  == {Glob[i] : i \in DOMAIN Glob}
Kinds  == {"hole", "v2", "other"}
Tables == Seq([Slots -> Kinds])

Dynamic == -1      \* NCCL chooses the index itself

Least(S) == CHOOSE x \in S : \A y \in S : x <= y

Hole(t, n) == \E p \in DOMAIN t : n \in Slots /\ t[p][n] = "hole"
HasV2(t, p) == \E s \in Slots : t[p][s] = "v2"

\* Step 0.1 of the cluster script, and criterion 1 of the preflight.
HoleInWindow(t) == \E n \in Window : Hole(t, n)

\* Criterion 2 of the preflight.
V2InWindow(t) == \E p \in DOMAIN t, n \in Window : t[p][n] = "v2"

\* Exit code of preflight_roce_gid.sh --degrade [--expect-index n].
Preflight(t, n) ==
    IF t = <<>> \/ HoleInWindow(t) \/ ~V2InWindow(t) \/ (n # Dynamic /\ Hole(t, n))
    THEN 3 ELSE 0

\* Mutant: the place in the listing is taken for the slot.
PlaceOfV2(t) ==
    LET p == Least({q \in DOMAIN t : HasV2(t, q)})
    IN  Least({i \in DOMAIN Glob : t[p][Glob[i]] = "v2"})

\* FIRST_IPV4: the first slot of the first port with a RoCE v2 GID.
FirstV2(t) ==
    LET p == Least({q \in DOMAIN t : HasV2(t, q)})
    IN  Glob[Least({i \in DOMAIN Glob : t[p][Glob[i]] = "v2"})]

\* IDX_TYPE[3]: the last port whose slot 3 is no hole has the say.
Index3Valid(t) ==
    \E p \in DOMAIN t :
        /\ 3 \in Slots /\ t[p][3] = "v2"
        /\ \A q \in DOMAIN t : q > p => t[q][3] = "hole"

\* What probe_gid_index.sh suggests.
Suggest(t) ==
    IF \A p \in DOMAIN t : ~HasV2(t, p) THEN Dynamic
    ELSE IF Index3Valid(t) THEN 3
    ELSE FirstV2(t)

\* Mutant: the suggestion is taken without the fence against holes.
UnfencedIndex(t) == Suggest(t)

\* What gid_index_env.sh exports when the operator sets nothing.
GidIndexEnv(t) ==
    IF Hole(t, Suggest(t)) THEN Dynamic ELSE Suggest(t)

\* An index a container may be given: no port has a hole there, a port has
\* a RoCE v2 GID there, and the connect path trusts it blindly.
SafeIndex(t, n) ==
    n # Dynamic => /\ n \in Slots
                   /\ ~Hole(t, n)
                   /\ \E p \in DOMAIN t : t[p][n] = "v2"
===============================================================================
