------------------------- MODULE PingpongGemmProofs -------------------------
(***************************************************************************)
(* Proof that the order barrier of the ping-pong kernel keeps the two      *)
(* groups of MMA warps apart, for any number of warps in a group, of       *)
(* tiles, of k tiles, of stages and of epilogue slices.                    *)
(*                                                                         *)
(* An mbarrier remembers the parity of its phase only, so the invariant    *)
(* speaks of numbers the kernel does not keep: n[g], how many phases of    *)
(* the barrier of group g are over, and a[w], how often warp w has arrived *)
(* at it.  A warp that is behind cannot be overtaken by two phases, and    *)
(* within that distance the parity tells the phases apart.                 *)
(*                                                                         *)
(* The rest of the module puts the ring of stages under the kernel, and    *)
(* follows the data from there: what each warp has multiplied (PingSums),  *)
(* what it has in its buffers and on the way to the tensor (EpilogueInv),  *)
(* and so what is in the output at the end.                                *)
(***************************************************************************)
EXTENDS PingpongGemm, TmaPipelineProofs

(***************************************************************************)
(* One depth of the order barrier: B its two mbarriers, In the warps that  *)
(* are between their wait and their arrival.                               *)
(***************************************************************************)
Barriers == [Groups -> [phase : {0, 1}, arrived : SUBSET Warps(launch)]]

Rounds(B, In, n, a) ==
    /\ \A g \in Groups : B[g].phase = n[g] % 2
    /\ \A g \in Groups : B[g].arrived = {w \in GroupOf(1 - g) : a[w] = n[g] + 1}
    /\ \A g \in Groups : \E w \in GroupOf(1 - g) : a[w] = n[g]
    /\ \A w \in Warps(launch) : a[w] = n[1 - w[1]] \/ a[w] = n[1 - w[1]] + 1
    /\ \A w \in Warps(launch) : n[w[1]] >= a[w] + w[1] - 1
    /\ \A w \in In : n[w[1]] >= a[w] + w[1]

Counts(n, a) == n \in [Groups -> Nat] /\ a \in [Warps(launch) -> Nat]

\* A warp is a pair of its group and its place in it.
LEMMA WarpGroup ==
  ASSUME launch \in PingLaunches, NEW w \in Warps(launch)
  PROVE  /\ w[1] \in Groups /\ 1 - w[1] \in Groups
         /\ w \in GroupOf(w[1])
         /\ w[1] = 0 \/ w[1] = 1
BY DEF Warps, Groups, GroupOf

\* A group has launch.warps warps, at least one.
LEMMA GroupSize ==
  ASSUME launch \in PingLaunches, NEW g \in Groups
  PROVE  /\ IsFiniteSet(GroupOf(g))
         /\ Cardinality(GroupOf(g)) = launch.warps
<1>. DEFINE N == 0 .. launch.warps - 1
            f == [i \in N |-> <<g, i>>]
<1>1. launch.warps \in Nat /\ launch.warps >= 1
  BY DEF PingLaunches, Launches, Positive
<1>2. IsFiniteSet(N) /\ Cardinality(N) = launch.warps
  BY <1>1, FS_Interval
<1>3. GroupOf(g) = {<<g, i>> : i \in N}
  BY DEF GroupOf, Warps, Groups
<1>4. f \in Bijection(N, GroupOf(g))
  BY <1>3 DEF Bijection, Injection, Surjection, IsInjective
<1>5. ExistsBijection(N, GroupOf(g))
  BY <1>4 DEF ExistsBijection
<1>. QED
  BY <1>2, <1>5, FS_Bijection

\* Leaving a part is nothing to its barrier until the arrival.
LEMMA Narrow ==
  ASSUME NEW B, NEW In, NEW Less \in SUBSET In, NEW n, NEW a, Rounds(B, In, n, a)
  PROVE  Rounds(B, Less, n, a)
BY DEF Rounds

\* A wait that passes has seen the right phase, although it compared parities.
LEMMA Enter ==
  ASSUME launch \in PingLaunches, NEW B, NEW In, NEW n, NEW a,
         Counts(n, a), Rounds(B, In, n, a), NEW w \in Warps(launch),
         B[w[1]].phase # (a[w] + 1 - w[1]) % 2
  PROVE  Rounds(B, In \cup {w}, n, a)
<1>1. w[1] \in Groups /\ (w[1] = 0 \/ w[1] = 1)
  BY WarpGroup
<1>2. n[w[1]] \in Nat /\ a[w] \in Nat
  BY <1>1 DEF Counts
<1>3. n[w[1]] % 2 # (a[w] + 1 - w[1]) % 2
  BY <1>1 DEF Rounds
<1>4. n[w[1]] >= a[w] + w[1] - 1
  BY DEF Rounds
<1>5. n[w[1]] >= a[w] + w[1]
  <2>1. CASE w[1] = 0
    BY <1>2, <1>3, <1>4, <2>1
  <2>2. CASE w[1] = 1
    BY <1>2, <1>3, <1>4, <2>2
  <2>. QED
    BY <1>1, <2>1, <2>2
<1>. QED
  BY <1>5 DEF Rounds

\* A warp that is within the part has not arrived in this phase.
LEMMA NotYetArrived ==
  ASSUME launch \in PingLaunches, NEW B, NEW In \in SUBSET Warps(launch), NEW n, NEW a,
         Counts(n, a), Rounds(B, In, n, a), NEW w \in In
  PROVE  a[w] = n[1 - w[1]]
<1>. DEFINE g == w[1]  h == 1 - w[1]
<1>1. g \in Groups /\ h \in Groups /\ (g = 0 \/ g = 1) /\ 1 - h = g
  BY WarpGroup
<1>2. PICK v \in GroupOf(h) : a[v] = n[g]
  BY <1>1 DEF Rounds
<1>3. v \in Warps(launch) /\ v[1] = h
  BY <1>2 DEF GroupOf
<1>4. n[h] >= a[v] + h - 1
  BY <1>3 DEF Rounds
<1>5. n[g] >= a[w] + g
  BY DEF Rounds
<1>6. a[w] = n[h] \/ a[w] = n[h] + 1
  BY DEF Rounds
<1>7. n[g] \in Nat /\ n[h] \in Nat /\ a[w] \in Nat
  BY <1>1 DEF Counts
<1>. QED
  BY <1>1, <1>2, <1>4, <1>5, <1>6, <1>7

\* The tiles j of one warp and i of another, in the order the CTA has them: the
\* one that has come to the later tile in a part, or is behind it there, finds
\* the other through with the earlier one.
LEMMA RoundsInTurn ==
  ASSUME launch \in PingLaunches, NEW B, NEW In \in SUBSET Warps(launch), NEW n, NEW a,
         Counts(n, a), Rounds(B, In, n, a), NEW v \in Warps(launch), NEW w \in Warps(launch)
  PROVE  \A i, j \in Nat :
            /\ i % 2 = v[1] /\ j % 2 = w[1] /\ i < j
            /\ j < 2 * a[w] + w[1] \/ (j = 2 * a[w] + w[1] /\ w \in In)
            => i < 2 * a[v] + v[1]
<1>1. /\ v[1] = 0 \/ v[1] = 1
      /\ w[1] = 0 \/ w[1] = 1
  BY WarpGroup
<1>2. /\ a[v] = n[1 - v[1]] \/ a[v] = n[1 - v[1]] + 1
      /\ a[w] = n[1 - w[1]] \/ a[w] = n[1 - w[1]] + 1
      /\ n[w[1]] >= a[w] + w[1] - 1
      /\ w \in In => n[w[1]] >= a[w] + w[1]
  BY DEF Rounds
<1>3. ASSUME w \in In PROVE a[w] = n[1 - w[1]]
  BY <1>3, NotYetArrived
<1>4. n[0] \in Nat /\ n[1] \in Nat /\ a[v] \in Nat /\ a[w] \in Nat
  BY DEF Counts, Groups
<1>5. PICK x, y, m, k : x = a[v] /\ y = a[w] /\ m = n[0] /\ k = n[1]
  OBVIOUS
<1>. TAKE i, j \in Nat
<1>. HAVE /\ i % 2 = v[1] /\ j % 2 = w[1] /\ i < j
          /\ j < 2 * a[w] + w[1] \/ (j = 2 * a[w] + w[1] /\ w \in In)
<1>6. CASE v[1] = 0 /\ w[1] = 0
  BY <1>2, <1>3, <1>4, <1>5, <1>6
<1>7. CASE v[1] = 1 /\ w[1] = 1
  BY <1>2, <1>3, <1>4, <1>5, <1>7
<1>8. CASE v[1] = 0 /\ w[1] = 1
  <2>1. /\ x = k \/ x = k + 1
        /\ k >= y
        /\ w \in In => k >= y + 1
    BY <1>2, <1>4, <1>5, <1>8
  <2>. QED
    BY <1>4, <1>5, <1>8, <2>1
<1>9. CASE v[1] = 1 /\ w[1] = 0
  <2>1. /\ x = m \/ x = m + 1
        /\ m >= y - 1
        /\ w \in In => m >= y
    BY <1>2, <1>4, <1>5, <1>9
  <2>. QED
    BY <1>4, <1>5, <1>9, <2>1
<1>. QED
  BY <1>1, <1>6, <1>7, <1>8, <1>9

\* An arrival keeps the rounds, whether or not it is the last of its phase.
LEMMA Arrive ==
  ASSUME launch \in PingLaunches, NEW B \in Barriers, NEW In \in SUBSET Warps(launch),
         NEW n, NEW a, Counts(n, a), Rounds(B, In, n, a), NEW w \in In
  PROVE  LET B2 == [B EXCEPT ![1 - w[1]] = Arrived(@, w, launch.warps)]
             a2 == [a EXCEPT ![w] = @ + 1]
         IN \E n2 : Counts(n2, a2) /\ Rounds(B2, In \ {w}, n2, a2)
<1>. DEFINE g == w[1]
            h == 1 - w[1]
            B2 == [B EXCEPT ![h] = Arrived(@, w, launch.warps)]
            a2 == [a EXCEPT ![w] = @ + 1]
            here == B[h].arrived \cup {w}
            G == GroupOf(g)
<1>1. /\ w \in Warps(launch) /\ g \in Groups /\ h \in Groups
      /\ g = 0 \/ g = 1
      /\ 1 - h = g /\ w \in G /\ g # h
  BY WarpGroup
<1>2. a[w] = n[h]
  BY NotYetArrived
<1>3. B[h].arrived = {v \in G : a[v] = n[h] + 1}
  BY <1>1 DEF Rounds
<1>4. here \subseteq G
  BY <1>1, <1>3
<1>5. IsFiniteSet(G) /\ Cardinality(G) = launch.warps
  BY <1>1, GroupSize
<1>6. /\ n \in [Groups -> Nat] /\ a \in [Warps(launch) -> Nat]
      /\ a2 \in [Warps(launch) -> Nat]
      /\ n[g] \in Nat /\ n[h] \in Nat
      /\ \A v \in Warps(launch) : a2[v] = IF v = w THEN a[w] + 1 ELSE a[v]
  BY <1>1 DEF Counts
<1>7. B2[g] = B[g] /\ B2[h] = Arrived(B[h], w, launch.warps)
  BY <1>1 DEF Barriers
<1>8. \A v \in Warps(launch) : (v[1] = g \/ v[1] = h) /\ v \in GroupOf(v[1])
  BY <1>1, WarpGroup
<1>9. \A k \in Groups : k = g \/ k = h
  BY <1>1 DEF Groups
<1>10. /\ \A v \in GroupOf(h) : v \in Warps(launch) /\ v[1] = h /\ v # w
       /\ \A v \in G : v \in Warps(launch) /\ v[1] = g
  BY <1>1 DEF GroupOf
<1>11. n[g] >= a[w] + g
  BY DEF Rounds
\* the other group's arrivals are not touched
<1>12. /\ B2[g].phase = n[g] % 2
       /\ B2[g].arrived = {v \in GroupOf(1 - g) : a2[v] = n[g] + 1}
       /\ \E v \in GroupOf(1 - g) : a2[v] = n[g]
  <2>1. 1 - g = h
    BY <1>1
  <2>2. B2[g].phase = n[g] % 2
    BY <1>1, <1>7 DEF Rounds
  <2>3. \A v \in GroupOf(h) : a2[v] = a[v]
    BY <1>6, <1>10
  <2>4. B[g].arrived = {v \in GroupOf(1 - g) : a[v] = n[g] + 1}
    BY <1>1 DEF Rounds
  <2>5. PICK v \in GroupOf(1 - g) : a[v] = n[g]
    BY <1>1 DEF Rounds
  <2>. QED
    BY <1>7, <2>1, <2>2, <2>3, <2>4, <2>5
<1>13. CASE Cardinality(here) = launch.warps
  <2>. DEFINE n2 == [n EXCEPT ![h] = @ + 1]
  <2>1. here = G
    BY <1>4, <1>5, <1>13, FS_Subset
  <2>2. \A v \in G : a2[v] = n[h] + 1
    BY <1>2, <1>3, <1>6, <1>10, <2>1
  <2>3. n2 \in [Groups -> Nat] /\ n2[h] = n[h] + 1 /\ n2[g] = n[g]
    BY <1>1, <1>6
  <2>4. B2[h].phase = 1 - B[h].phase /\ B2[h].arrived = {}
    BY <1>7, <1>13 DEF Arrived
  <2>5. B2[h].phase = n2[h] % 2
    <3>1. B[h].phase = n[h] % 2
      BY <1>1 DEF Rounds
    <3>. QED
      BY <1>6, <2>3, <2>4, <3>1
  <2>6. B2[h].arrived = {v \in GroupOf(1 - h) : a2[v] = n2[h] + 1}
    BY <1>1, <1>6, <2>2, <2>3, <2>4
  <2>7. \E v \in GroupOf(1 - h) : a2[v] = n2[h]
    BY <1>1, <2>2, <2>3
  <2>8. \A v \in Warps(launch) :
          /\ a2[v] = n2[1 - v[1]] \/ a2[v] = n2[1 - v[1]] + 1
          /\ n2[v[1]] >= a2[v] + v[1] - 1
    <3>. SUFFICES ASSUME NEW v \in Warps(launch)
                  PROVE  /\ a2[v] = n2[1 - v[1]] \/ a2[v] = n2[1 - v[1]] + 1
                         /\ n2[v[1]] >= a2[v] + v[1] - 1
      OBVIOUS
    <3>1. CASE v[1] = g
      <4>1. a2[v] = n2[h] /\ 1 - v[1] = h
        BY <1>1, <1>8, <2>2, <2>3, <3>1
      <4>. QED
        BY <1>1, <1>2, <1>6, <1>11, <2>3, <3>1, <4>1
    <3>2. CASE v[1] = h
      <4>1. a2[v] = a[v] /\ 1 - v[1] = g
        BY <1>1, <1>6, <3>2
      <4>2. /\ a[v] = n[g] \/ a[v] = n[g] + 1
            /\ n[h] >= a[v] + h - 1
        BY <1>1, <3>2, <4>1 DEF Rounds
      <4>3. a[v] \in Nat
        BY <1>6
      <4>. QED
        BY <1>1, <1>6, <2>3, <3>2, <4>1, <4>2, <4>3
    <3>. QED
      BY <1>8, <3>1, <3>2
  <2>9. \A v \in In \ {w} : n2[v[1]] >= a2[v] + v[1]
    <3>. SUFFICES ASSUME NEW v \in In \ {w}
                  PROVE  n2[v[1]] >= a2[v] + v[1]
      OBVIOUS
    <3>1. v \in Warps(launch) /\ a2[v] = a[v] /\ a[v] \in Nat
      BY <1>6
    <3>2. n[v[1]] >= a[v] + v[1]
      BY DEF Rounds
    <3>. QED
      BY <1>1, <1>6, <1>8, <2>3, <3>1, <3>2
  <2>10. Rounds(B2, In \ {w}, n2, a2)
    <3>1. \A k \in Groups : /\ B2[k].phase = n2[k] % 2
                            /\ B2[k].arrived = {v \in GroupOf(1 - k) : a2[v] = n2[k] + 1}
                            /\ \E v \in GroupOf(1 - k) : a2[v] = n2[k]
      BY <1>9, <1>12, <2>3, <2>5, <2>6, <2>7
    <3>. QED
      BY <2>8, <2>9, <3>1 DEF Rounds
  <2>. QED
    BY <1>6, <2>3, <2>10 DEF Counts
<1>14. CASE Cardinality(here) # launch.warps
  <2>1. B2[h].phase = B[h].phase /\ B2[h].arrived = here
    <3>1. B[h] \in [phase : {0, 1}, arrived : SUBSET Warps(launch)]
      BY <1>1 DEF Barriers
    <3>. QED
      BY <1>7, <1>14, <3>1 DEF Arrived
  <2>2. PICK u \in G : u \notin here
    BY <1>4, <1>5, <1>14
  <2>3. u # w /\ a[u] = n[h]
    <3>1. u \in Warps(launch) /\ 1 - u[1] = h
      BY <1>1, <1>10
    <3>2. a[u] = n[h] \/ a[u] = n[h] + 1
      BY <3>1 DEF Rounds
    <3>. QED
      BY <1>3, <2>2, <3>2
  <2>4. \E v \in GroupOf(1 - h) : a2[v] = n[h]
    BY <1>1, <1>6, <1>10, <2>2, <2>3
  <2>5. B2[h].arrived = {v \in GroupOf(1 - h) : a2[v] = n[h] + 1}
    <3>1. \A v \in G : (v \in here) <=> (a2[v] = n[h] + 1)
      BY <1>2, <1>3, <1>6, <1>10
    <3>. QED
      BY <1>1, <1>4, <2>1, <3>1
  <2>6. B2[h].phase = n[h] % 2
    BY <1>1, <2>1 DEF Rounds
  <2>7. \A v \in Warps(launch) :
          /\ a2[v] = n[1 - v[1]] \/ a2[v] = n[1 - v[1]] + 1
          /\ n[v[1]] >= a2[v] + v[1] - 1
    <3>. SUFFICES ASSUME NEW v \in Warps(launch)
                  PROVE  /\ a2[v] = n[1 - v[1]] \/ a2[v] = n[1 - v[1]] + 1
                         /\ n[v[1]] >= a2[v] + v[1] - 1
      OBVIOUS
    <3>1. CASE v = w
      BY <1>1, <1>2, <1>6, <1>11, <3>1
    <3>2. CASE v # w
      <4>1. a2[v] = a[v]
        BY <1>6, <3>2
      <4>. QED
        BY <4>1 DEF Rounds
    <3>. QED
      BY <3>1, <3>2
  <2>8. \A v \in In \ {w} : n[v[1]] >= a2[v] + v[1]
    BY <1>6 DEF Rounds
  <2>9. Rounds(B2, In \ {w}, n, a2)
    <3>1. \A k \in Groups : /\ B2[k].phase = n[k] % 2
                            /\ B2[k].arrived = {v \in GroupOf(1 - k) : a2[v] = n[k] + 1}
                            /\ \E v \in GroupOf(1 - k) : a2[v] = n[k]
      BY <1>9, <1>12, <2>4, <2>5, <2>6
    <3>. QED
      BY <2>7, <2>8, <3>1 DEF Rounds
  <2>. QED
    BY <1>6, <2>9 DEF Counts
<1>. QED
  BY <1>13, <1>14

\* Two warps within the same part are of the same group.
LEMMA Apart ==
  ASSUME launch \in PingLaunches, NEW B, NEW In \in SUBSET Warps(launch), NEW n, NEW a,
         Counts(n, a), Rounds(B, In, n, a), NEW v \in In, NEW w \in In
  PROVE  v[1] = w[1]
<1>1. /\ v[1] = 0 \/ v[1] = 1
      /\ w[1] = 0 \/ w[1] = 1
  BY WarpGroup
<1>2. a[v] = n[1 - v[1]] /\ a[w] = n[1 - w[1]]
  BY NotYetArrived
<1>3. n[v[1]] >= a[v] + v[1] /\ n[w[1]] >= a[w] + w[1]
  BY DEF Rounds
<1>4. n[0] \in Nat /\ n[1] \in Nat
  BY DEF Counts, Groups
<1>. QED
  BY <1>1, <1>2, <1>3, <1>4

\* An arrival leaves a barrier a barrier.
LEMMA ArrivedIsBarrier ==
  ASSUME NEW B \in Barriers, NEW h \in Groups, NEW w \in Warps(launch), NEW m
  PROVE  [B EXCEPT ![h] = Arrived(@, w, m)] \in Barriers
<1>1. B[h] \in [phase : {0, 1}, arrived : SUBSET Warps(launch)]
  BY DEF Barriers
<1>2. Arrived(B[h], w, m) \in [phase : {0, 1}, arrived : SUBSET Warps(launch)]
  <2>1. CASE Cardinality(B[h].arrived \cup {w}) = m
    BY <1>1, <2>1 DEF Arrived
  <2>2. CASE Cardinality(B[h].arrived \cup {w}) # m
    BY <1>1, <2>2 DEF Arrived
  <2>. QED
    BY <2>1, <2>2
<1>. QED
  BY <1>2 DEF Barriers

(***************************************************************************)
(* What the steps of a warp do to the registers.                           *)
(***************************************************************************)
OthersKept(w) == \A v \in Warps(launch) : v # w => warp'[v] = warp[v]

LEMMA StartTileRegisters ==
  ASSUME RegisterShape, NEW w \in Warps(launch), StartTile(w)
  PROVE  /\ RegisterShape' /\ OthersKept(w)
         /\ warp'[w].executed = warp[w].executed
         /\ warp'[w].pipe.index = warp[w].pipe.index
         /\ warp'[w].pipe.phase = warp[w].pipe.phase
         /\ warp'[w].pipe.count = 0
         /\ warp'[w].frag = warp[w].frag /\ warp'[w].acc = <<>>
         /\ warp'[w].blk = warp[w].blk /\ warp'[w].epi = warp[w].epi
BY DEF StartTile, RegisterShape, OthersKept, UnchangedInLoop, UnchangedButWarp, Fields,
       PipeFields

LEMMA FirstBlockRegisters ==
  ASSUME RegisterShape, NEW w \in Warps(launch), FirstBlock(w)
  PROVE  /\ RegisterShape' /\ OthersKept(w)
         /\ warp'[w].executed = warp[w].executed /\ warp'[w].pipe = warp[w].pipe
         /\ warp'[w].frag = [b \in {0} |-> Fragment(w, 0)] /\ warp'[w].acc = warp[w].acc
         /\ warp'[w].blk = 0 /\ warp'[w].epi = warp[w].epi
BY DEF FirstBlock, RegisterShape, OthersKept, UnchangedInLoop, UnchangedButWarp, Fields,
       PipeFields

LEMMA CopyRegisters ==
  ASSUME RegisterShape, NEW w \in Warps(launch), CopyThenMultiply(w)
  PROVE  /\ RegisterShape' /\ OthersKept(w)
         /\ warp'[w].executed = warp[w].executed /\ warp'[w].pipe = warp[w].pipe
         /\ warp'[w].frag = Copied(w, warp[w].blk + 1)
         /\ warp'[w].acc = Append(warp[w].acc, Copied(w, warp[w].blk + 1)[warp[w].blk])
         /\ warp'[w].blk = warp[w].blk + 1 /\ warp'[w].epi = warp[w].epi
BY DEF CopyThenMultiply, RegisterShape, OthersKept, UnchangedInLoop, UnchangedButWarp,
       Fields, PipeFields

LEMMA ReleaseRegisters ==
  ASSUME RegisterShape, NEW w \in Warps(launch), ReleaseStage(w)
  PROVE  /\ RegisterShape' /\ OthersKept(w)
         /\ warp'[w].executed = warp[w].executed /\ warp'[w].pipe = Advanced(warp[w].pipe)
         /\ warp'[w].frag = warp[w].frag /\ warp'[w].acc = warp[w].acc
         /\ warp'[w].blk = warp[w].blk /\ warp'[w].epi = warp[w].epi
<1>1. DOMAIN Advanced(warp[w].pipe) = PipeFields
  BY DEF Advanced, PipeFields
<1>. QED
  BY <1>1 DEF ReleaseStage, RegisterShape, OthersKept, UnchangedInLoop, UnchangedButWarp,
              Fields

LEMMA NextStageRegisters ==
  ASSUME RegisterShape, NEW w \in Warps(launch), NextStage(w)
  PROVE  /\ RegisterShape' /\ OthersKept(w)
         /\ warp'[w].executed = warp[w].executed /\ warp'[w].pipe = warp[w].pipe
         /\ warp'[w].frag = Copied(w, 0)
         /\ warp'[w].acc = Append(warp[w].acc, Copied(w, 0)[LastBlock])
         /\ warp'[w].blk = 0 /\ warp'[w].epi = warp[w].epi
BY DEF NextStage, RegisterShape, OthersKept, UnchangedInLoop, UnchangedButWarp, Fields,
       PipeFields

LEMMA LeaveMainLoopRegisters ==
  ASSUME RegisterShape, NEW w \in Warps(launch), LeaveMainLoop(w)
  PROVE  /\ RegisterShape' /\ OthersKept(w)
         /\ warp'[w].executed = warp[w].executed /\ warp'[w].pipe = warp[w].pipe
         /\ warp'[w].frag = warp[w].frag
         /\ warp'[w].acc = Append(warp[w].acc, warp[w].frag[LastBlock])
         /\ warp'[w].blk = warp[w].blk /\ warp'[w].epi = warp[w].epi
BY DEF LeaveMainLoop, RegisterShape, OthersKept, UnchangedButWarp, Fields, PipeFields

LEMMA EnterEpilogueRegisters ==
  ASSUME RegisterShape, NEW w \in Warps(launch), EnterEpilogue(w)
  PROVE  /\ RegisterShape' /\ OthersKept(w)
         /\ warp'[w].executed = warp[w].executed
         /\ warp'[w].pipe = SkipTile(launch, warp[w].pipe)
         /\ warp'[w].frag = warp[w].frag /\ warp'[w].acc = warp[w].acc
         /\ warp'[w].blk = warp[w].blk /\ warp'[w].epi = 0
<1>1. DOMAIN SkipTile(launch, warp[w].pipe) = PipeFields
  BY DEF SkipTile, PipeFields
<1>. QED
  BY <1>1 DEF EnterEpilogue, RegisterShape, OthersKept, UnchangedInLoop, UnchangedButWarp,
              Fields

LEMMA FinishTileRegisters ==
  ASSUME RegisterShape, NEW w \in Warps(launch), FinishTile(w)
  PROVE  /\ RegisterShape' /\ OthersKept(w)
         /\ warp'[w].executed = warp[w].executed + 2 /\ warp'[w].pipe = warp[w].pipe
         /\ warp'[w].frag = warp[w].frag /\ warp'[w].acc = warp[w].acc
         /\ warp'[w].blk = warp[w].blk /\ warp'[w].epi = warp[w].epi
BY DEF FinishTile, RegisterShape, OthersKept, UnchangedButWarp, Fields, PipeFields

\* The slice a warp is at is all the epilogue changes.
SliceOnly(v) ==
    /\ warp'[v].executed = warp[v].executed /\ warp'[v].pipe = warp[v].pipe
    /\ warp'[v].frag = warp[v].frag /\ warp'[v].acc = warp[v].acc
    /\ warp'[v].blk = warp[v].blk
    /\ \/ warp'[v].epi = warp[v].epi
       \/ ~LastSlice(v) /\ warp'[v].epi = warp[v].epi + 1

LEMMA SyncRegisters ==
  ASSUME RegisterShape, NEW w \in Warps(launch), SyncBeforeWrite(w) \/ WriteSlice(w)
  PROVE  RegisterShape' /\ \A v \in Warps(launch) : SliceOnly(v)
<1>1. CASE SyncBeforeWrite(w)
  BY <1>1 DEF SyncBeforeWrite, Sync, NextSlice, SliceOnly, RegisterShape,
              UnchangedButWarp, Fields, PipeFields
<1>2. CASE WriteSlice(w)
  BY <1>2 DEF WriteSlice, Sync, NextSlice, SliceOnly, RegisterShape,
              UnchangedButWarp, Fields, PipeFields
<1>. QED
  BY <1>1, <1>2

LEMMA AcquireRegisters ==
  ASSUME RegisterShape, NEW w \in Warps(launch), AcquireBuffer(w)
  PROVE  RegisterShape' /\ OthersKept(w) /\ \A v \in Warps(launch) : SliceOnly(v)
BY DEF AcquireBuffer, NextSlice, SliceOnly, RegisterShape, OthersKept, UnchangedInLoop,
       UnchangedButWarp, Fields, PipeFields

\* All of it, for what the order barrier counts: only the end of a tile moves
\* the tiles a warp has executed.
SameExecuted == \A v \in Warps(launch) : warp'[v].executed = warp[v].executed

LEMMA WarpRegisters ==
  ASSUME RegisterShape, NEW w \in Warps(launch), PingWarp(w)
  PROVE  RegisterShape' /\ (~FinishTile(w) => SameExecuted)
<1>1. CASE ExitLoop(w) \/ StoreSlice(w)
  BY <1>1 DEF ExitLoop, StoreSlice, RegisterShape, UnchangedInLoop, UnchangedButWarp,
              SameExecuted
<1>2. CASE StartTile(w)
  BY <1>2, StartTileRegisters DEF OthersKept, SameExecuted
<1>3. CASE FirstBlock(w)
  BY <1>3, FirstBlockRegisters DEF OthersKept, SameExecuted
<1>4. CASE CopyThenMultiply(w)
  BY <1>4, CopyRegisters DEF OthersKept, SameExecuted
<1>5. CASE ReleaseStage(w)
  BY <1>5, ReleaseRegisters DEF OthersKept, SameExecuted
<1>6. CASE NextStage(w)
  BY <1>6, NextStageRegisters DEF OthersKept, SameExecuted
<1>7. CASE LeaveMainLoop(w)
  BY <1>7, LeaveMainLoopRegisters DEF OthersKept, SameExecuted
<1>8. CASE EnterEpilogue(w)
  BY <1>8, EnterEpilogueRegisters DEF OthersKept, SameExecuted
<1>9. CASE SyncBeforeWrite(w) \/ WriteSlice(w)
  BY <1>9, SyncRegisters DEF SliceOnly, SameExecuted
<1>10. CASE AcquireBuffer(w)
  BY <1>10, AcquireRegisters DEF SliceOnly, SameExecuted
<1>11. CASE FinishTile(w)
  BY <1>11, FinishTileRegisters
<1>. QED
  BY <1>1, <1>2, <1>3, <1>4, <1>5, <1>6, <1>7, <1>8, <1>9, <1>10, <1>11 DEF PingWarp

\* The steps that are not a warp's leave the warps' registers alone.
OthersMove ==
    \/ UNCHANGED vars
    \/ LoadStage \/ LoaderTail
    \/ \E x \in inflight : Land(x)
    \/ \E w \in Warps(launch) : \E i \in DOMAIN stores[w] : ReadStore(w, i)

LEMMA OthersRegisters ==
  ASSUME RegisterShape, OthersMove
  PROVE  /\ UNCHANGED <<launch, pc, warp, ord, order, bar>>
         /\ RegisterShape' /\ SameExecuted
<1>1. UNCHANGED <<launch, pc, warp, ord, order, bar>>
  BY DEF OthersMove, vars, LoadStage, LoadFrom, LoaderTail, DrainLoader, Land, ReadStore
<1>. QED
  BY <1>1 DEF RegisterShape, SameExecuted

(***************************************************************************)
(* The invariant.  A warp uses the two depths in turn: it is at depth 1    *)
(* from its arrival at depth 0 to its arrival at depth 1, and the parity   *)
(* of its state counts its rounds.                                         *)
(***************************************************************************)
Places == {"start", "cross", "done"} \cup MainLoop \cup Epilogue

Late == {"cross"} \cup Epilogue

Within(part) == {w \in Warps(launch) : pc[w] \in part}

Shape ==
    /\ launch \in PingLaunches
    /\ pc \in [Warps(launch) -> Places]
    /\ ord \in [Warps(launch) -> [index : {0, 1}, phase : {0, 1}]]
    /\ order \in [{0, 1} -> Barriers]
    /\ bar \subseteq Within({"sync1", "sync2"})

InStep(n0, a0, n1, a1) ==
    /\ Counts(n0, a0) /\ Rounds(order[0], Within(MainLoop), n0, a0)
    /\ Counts(n1, a1) /\ Rounds(order[1], Within(Epilogue), n1, a1)
    /\ \A w \in Warps(launch) :
         /\ ord[w].index = IF pc[w] \in Late THEN 1 ELSE 0
         /\ ord[w].phase = (a1[w] + 1 - w[1]) % 2
         /\ a0[w] = IF pc[w] \in Late THEN a1[w] + 1 ELSE a1[w]
         /\ warp[w].executed = 2 * a1[w] + w[1]

OrderInv == Shape /\ \E n0, a0, n1, a1 : InStep(n0, a0, n1, a1)

\* Before the first tile nobody has arrived anywhere.
LEMMA OrderInit == PingInit => OrderInv
<1>. SUFFICES ASSUME PingInit PROVE OrderInv
  OBVIOUS
<1>. DEFINE n == [g \in Groups |-> 0]
            a == [w \in Warps(launch) |-> 0]
<1>1. launch \in PingLaunches
  BY DEF PingInit, FreshMachine
<1>2. \A w \in Warps(launch) : w[1] \in Groups /\ (w[1] = 0 \/ w[1] = 1)
  BY <1>1, WarpGroup
<1>3. Within(MainLoop) = {} /\ Within(Epilogue) = {}
  BY DEF PingInit, FreshMachine, Within, MainLoop, Epilogue
<1>4. Shape
  <2>1. ord \in [Warps(launch) -> [index : {0, 1}, phase : {0, 1}]]
    BY <1>2 DEF PingInit, FreshMachine, FreshOrd
  <2>2. order \in [{0, 1} -> Barriers]
    BY DEF PingInit, FreshMachine, FreshOrder, FreshBarrier, Barriers
  <2>3. pc \in [Warps(launch) -> Places]
    BY DEF PingInit, FreshMachine, Places
  <2>4. bar \subseteq Within({"sync1", "sync2"})
    BY DEF PingInit, FreshMachine
  <2>. QED
    BY <1>1, <2>1, <2>2, <2>3, <2>4 DEF Shape
<1>5. Counts(n, a)
  BY DEF Counts
<1>6. ASSUME NEW d \in {0, 1} PROVE Rounds(order[d], {}, n, a)
  <2>1. order[d] = [g \in Groups |-> FreshBarrier]
    BY DEF PingInit, FreshMachine, FreshOrder
  <2>2. \A g \in Groups : \E w \in GroupOf(1 - g) : a[w] = n[g]
    <3>. SUFFICES ASSUME NEW g \in Groups
                  PROVE  \E w \in GroupOf(1 - g) : a[w] = n[g]
      OBVIOUS
    <3>1. <<1 - g, 0>> \in GroupOf(1 - g)
      BY <1>1 DEF GroupOf, Warps, Groups, PingLaunches, Launches, Positive
    <3>. QED
      BY <3>1 DEF GroupOf
  <2>3. \A g \in Groups : order[d][g].arrived = {w \in GroupOf(1 - g) : a[w] = n[g] + 1}
    BY <2>1 DEF FreshBarrier, GroupOf
  <2>4. \A g \in Groups : order[d][g].phase = n[g] % 2
    BY <2>1 DEF FreshBarrier
  <2>5. \A w \in Warps(launch) : /\ a[w] = n[1 - w[1]]
                                 /\ n[w[1]] >= a[w] + w[1] - 1
    BY <1>2 DEF Groups
  <2>. QED
    BY <2>2, <2>3, <2>4, <2>5 DEF Rounds
<1>7. \A w \in Warps(launch) : /\ pc[w] \notin Late
                               /\ ord[w].index = 0
                               /\ ord[w].phase = (a[w] + 1 - w[1]) % 2
                               /\ warp[w].executed = 2 * a[w] + w[1]
  <2>1. \A w \in Warps(launch) : /\ pc[w] \notin Late
                                 /\ ord[w].index = 0
                                 /\ ord[w].phase = (a[w] + 1 - w[1]) % 2
    BY <1>2 DEF PingInit, FreshMachine, FreshOrd, Late, Epilogue
  <2>2. \A w \in Warps(launch) : warp[w].executed = w[1]
    BY DEF PingInit, FreshMachine, FreshPingWarps, FreshPingWarp
  <2>. QED
    BY <1>2, <2>1, <2>2
<1>8. InStep(n, a, n, a)
  BY <1>3, <1>5, <1>6, <1>7 DEF InStep
<1>. QED
  BY <1>4, <1>8 DEF OrderInv

\* Steps that arrive nowhere and take no warp into or out of a part.
LEMMA Quiet ==
  ASSUME OrderInv, UNCHANGED <<launch, ord, order>>, SameExecuted,
         pc' \in [Warps(launch) -> Places],
         \A w \in Warps(launch) : /\ pc'[w] \in MainLoop <=> pc[w] \in MainLoop
                                  /\ pc'[w] \in Epilogue <=> pc[w] \in Epilogue
                                  /\ pc'[w] \in Late <=> pc[w] \in Late,
         \A w \in bar' : w \in Warps(launch) /\ pc'[w] \in {"sync1", "sync2"}
  PROVE  OrderInv'
<1>1. PICK n0, a0, n1, a1 : InStep(n0, a0, n1, a1)
  BY DEF OrderInv
<1>2. Shape'
  BY DEF OrderInv, Shape, Within, Barriers, Warps, Groups
<1>3. Within(MainLoop)' = Within(MainLoop) /\ Within(Epilogue)' = Within(Epilogue)
  BY DEF Within
<1>4. InStep(n0, a0, n1, a1)'
  BY <1>1, <1>3 DEF InStep, Counts, Rounds, GroupOf, SameExecuted
<1>. QED
  BY <1>2, <1>4 DEF OrderInv

\* The two steps that pass a wait.
LEMMA Entering ==
  ASSUME OrderInv, SameExecuted, NEW w \in Warps(launch), StartTile(w) \/ EnterEpilogue(w)
  PROVE  OrderInv'
<1>1. PICK n0, a0, n1, a1 : InStep(n0, a0, n1, a1)
  BY DEF OrderInv
<1>2. /\ Shape /\ launch \in PingLaunches
      /\ launch' = launch /\ ord' = ord /\ order' = order /\ bar' = bar
      /\ Turn(w)
      /\ \/ pc[w] = "start" /\ pc' = [pc EXCEPT ![w] = "first"]
         \/ pc[w] = "cross" /\ pc' = [pc EXCEPT ![w] = "epilogue"]
  BY DEF OrderInv, Shape, StartTile, EnterEpilogue, UnchangedInLoop, UnchangedButWarp, Go
<1>3. Shape'
  <2>1. pc' \in [Warps(launch) -> Places]
    BY <1>2 DEF Shape, Places, MainLoop, Epilogue
  <2>2. bar' \subseteq Within({"sync1", "sync2"})'
    BY <1>2 DEF Shape, Within
  <2>. QED
    BY <1>2, <2>1, <2>2 DEF Shape, Barriers, Warps, Groups
<1>4. w[1] \in Groups /\ (w[1] = 0 \/ w[1] = 1)
  BY <1>2, WarpGroup
<1>5. CASE pc[w] = "start" /\ pc' = [pc EXCEPT ![w] = "first"]
  <2>1. ord[w].index = 0 /\ ord[w].phase = (a0[w] + 1 - w[1]) % 2
    BY <1>1, <1>5 DEF InStep, Late, Epilogue
  <2>2. order[0][w[1]].phase # (a0[w] + 1 - w[1]) % 2
    BY <1>2, <2>1 DEF Turn, Passes
  <2>3. Rounds(order[0], Within(MainLoop) \cup {w}, n0, a0)
    BY <1>1, <1>2, <2>2, Enter DEF InStep
  <2>4. /\ Within(MainLoop)' = Within(MainLoop) \cup {w}
        /\ Within(Epilogue)' = Within(Epilogue)
        /\ \A v \in Warps(launch) : pc'[v] \in Late <=> pc[v] \in Late
    BY <1>2, <1>5 DEF Within, Shape, MainLoop, Epilogue, Late
  <2>5. InStep(n0, a0, n1, a1)'
    BY <1>1, <1>2, <2>3, <2>4 DEF InStep, Counts, Rounds, GroupOf, SameExecuted
  <2>. QED
    BY <1>3, <2>5 DEF OrderInv
<1>6. CASE pc[w] = "cross" /\ pc' = [pc EXCEPT ![w] = "epilogue"]
  <2>1. ord[w].index = 1 /\ ord[w].phase = (a1[w] + 1 - w[1]) % 2
    BY <1>1, <1>6 DEF InStep, Late, Epilogue
  <2>2. order[1][w[1]].phase # (a1[w] + 1 - w[1]) % 2
    BY <1>2, <2>1 DEF Turn, Passes
  <2>3. Rounds(order[1], Within(Epilogue) \cup {w}, n1, a1)
    BY <1>1, <1>2, <2>2, Enter DEF InStep
  <2>4. /\ Within(Epilogue)' = Within(Epilogue) \cup {w}
        /\ Within(MainLoop)' = Within(MainLoop)
        /\ \A v \in Warps(launch) : pc'[v] \in Late <=> pc[v] \in Late
    BY <1>2, <1>6 DEF Within, Shape, MainLoop, Epilogue, Late
  <2>5. InStep(n0, a0, n1, a1)'
    BY <1>1, <1>2, <2>3, <2>4 DEF InStep, Counts, Rounds, GroupOf, SameExecuted
  <2>. QED
    BY <1>3, <2>5 DEF OrderInv
<1>. QED
  BY <1>2, <1>5, <1>6

\* What a hand-over does to the two depths.
LEMMA HandOverStep ==
  ASSUME Shape, NEW w \in Warps(launch), HandOver(w)
  PROVE  /\ order' \in [{0, 1} -> Barriers]
         /\ order'[ord[w].index]
               = [order[ord[w].index] EXCEPT ![1 - w[1]] = Arrived(@, w, launch.warps)]
         /\ order'[1 - ord[w].index] = order[1 - ord[w].index]
         /\ ord' \in [Warps(launch) -> [index : {0, 1}, phase : {0, 1}]]
         /\ ord'[w] = NextTurn(ord[w])
         /\ \A v \in Warps(launch) : v # w => ord'[v] = ord[v]
<1>. DEFINE d == ord[w].index  h == 1 - w[1]
            B == [order[d] EXCEPT ![h] = Arrived(@, w, launch.warps)]
<1>1. /\ d \in {0, 1} /\ 1 - d \in {0, 1} /\ 1 - d # d
      /\ order[d] \in Barriers /\ order \in [{0, 1} -> Barriers]
      /\ ord[w] \in [index : {0, 1}, phase : {0, 1}]
  BY DEF Shape
<1>2. h \in Groups
  BY WarpGroup DEF Shape
<1>3. order' = [order EXCEPT ![d] = B]
  BY DEF HandOver
<1>4. B \in Barriers
  BY <1>1, <1>2, ArrivedIsBarrier
<1>5. order'[d] = B /\ order'[1 - d] = order[1 - d] /\ order' \in [{0, 1} -> Barriers]
  BY <1>1, <1>3, <1>4
<1>6. ord' = [ord EXCEPT ![w] = NextTurn(ord[w])]
  BY DEF HandOver
<1>7. NextTurn(ord[w]) \in [index : {0, 1}, phase : {0, 1}]
  BY <1>1 DEF NextTurn
<1>. QED
  BY <1>5, <1>6, <1>7 DEF Shape

\* The hand-over of the main loop.
LEMMA LeavingMainLoop ==
  ASSUME OrderInv, SameExecuted, NEW w \in Warps(launch), LeaveMainLoop(w)
  PROVE  OrderInv'
<1>1. PICK n0, a0, n1, a1 : InStep(n0, a0, n1, a1)
  BY DEF OrderInv
<1>2. /\ Shape /\ launch \in PingLaunches
      /\ launch' = launch /\ bar' = bar /\ HandOver(w)
      /\ pc[w] = "last" /\ pc' = [pc EXCEPT ![w] = "cross"]
  BY DEF OrderInv, Shape, LeaveMainLoop, UnchangedButWarp, Go
<1>3. ord[w].index = 0 /\ ord[w].phase \in {0, 1}
  BY <1>1, <1>2 DEF InStep, Late, Epilogue, Shape
<1>4. /\ order' \in [{0, 1} -> Barriers]
      /\ order'[0] = [order[0] EXCEPT ![1 - w[1]] = Arrived(@, w, launch.warps)]
      /\ order'[1] = order[1]
      /\ ord' \in [Warps(launch) -> [index : {0, 1}, phase : {0, 1}]]
      /\ ord'[w] = NextTurn(ord[w])
      /\ \A v \in Warps(launch) : v # w => ord'[v] = ord[v]
  BY <1>2, <1>3, HandOverStep
<1>5. Shape'
  <2>1. pc' \in [Warps(launch) -> Places]
    BY <1>2 DEF Shape, Places, MainLoop, Epilogue
  <2>2. bar' \subseteq Within({"sync1", "sync2"})'
    BY <1>2 DEF Shape, Within
  <2>. QED
    BY <1>2, <1>4, <2>1, <2>2 DEF Shape, Barriers, Warps, Groups
<1>. DEFINE a2 == [a0 EXCEPT ![w] = @ + 1]
<1>6. PICK n2 : Counts(n2, a2) /\ Rounds(order'[0], Within(MainLoop) \ {w}, n2, a2)
  <2>1. w \in Within(MainLoop) /\ Within(MainLoop) \in SUBSET Warps(launch)
    BY <1>2 DEF Within, MainLoop
  <2>2. order[0] \in Barriers
    BY <1>2 DEF Shape
  <2>3. Counts(n0, a0) /\ Rounds(order[0], Within(MainLoop), n0, a0)
    BY <1>1 DEF InStep
  <2>4. \E n2 : /\ Counts(n2, a2)
                /\ Rounds([order[0] EXCEPT ![1 - w[1]] = Arrived(@, w, launch.warps)],
                          Within(MainLoop) \ {w}, n2, a2)
    BY <1>2, <2>1, <2>2, <2>3, Arrive
  <2>. QED
    BY <1>4, <2>4
<1>7. /\ Within(MainLoop)' = Within(MainLoop) \ {w}
      /\ Within(Epilogue)' = Within(Epilogue)
      /\ pc[w] \notin Late /\ pc'[w] \in Late
      /\ \A v \in Warps(launch) : v # w => pc'[v] = pc[v]
  BY <1>2 DEF Within, Shape, MainLoop, Epilogue, Late
<1>8. \A v \in Warps(launch) :
         /\ ord'[v].index = IF pc'[v] \in Late THEN 1 ELSE 0
         /\ ord'[v].phase = (a1[v] + 1 - v[1]) % 2
         /\ a2[v] = IF pc'[v] \in Late THEN a1[v] + 1 ELSE a1[v]
  <2>1. NextTurn(ord[w]) = [index |-> 1, phase |-> ord[w].phase]
    BY <1>3 DEF NextTurn
  <2>2. a2[w] = a0[w] + 1 /\ \A v \in Warps(launch) : v # w => a2[v] = a0[v]
    BY <1>1 DEF InStep, Counts
  <2>. QED
    BY <1>1, <1>4, <1>7, <2>1, <2>2 DEF InStep
<1>9. Counts(n2, a2)' /\ Rounds(order[0], Within(MainLoop), n2, a2)'
  BY <1>2, <1>6, <1>7 DEF Counts, Rounds, GroupOf
<1>10. Counts(n1, a1)' /\ Rounds(order[1], Within(Epilogue), n1, a1)'
  BY <1>1, <1>2, <1>4, <1>7 DEF InStep, Counts, Rounds, GroupOf
<1>11. InStep(n2, a2, n1, a1)'
  <2>1. \A v \in Warps(launch) : warp'[v].executed = 2 * a1[v] + v[1]
    BY <1>1 DEF InStep, SameExecuted
  <2>. QED
    BY <1>2, <1>8, <1>9, <1>10, <2>1 DEF InStep
<1>. QED
  BY <1>5, <1>11 DEF OrderInv

\* The hand-over of the epilogue.
LEMMA LeavingEpilogue ==
  ASSUME OrderInv, RegisterShape, NEW w \in Warps(launch), FinishTile(w)
  PROVE  OrderInv'
<1>1. PICK n0, a0, n1, a1 : InStep(n0, a0, n1, a1)
  BY DEF OrderInv
<1>2. /\ Shape /\ launch \in PingLaunches
      /\ launch' = launch /\ bar' = bar /\ HandOver(w)
      /\ pc[w] = "finish" /\ pc' = [pc EXCEPT ![w] = "start"]
  BY DEF OrderInv, Shape, FinishTile, UnchangedButWarp, Go
<1>3. ord[w].index = 1 /\ ord[w].phase \in {0, 1}
  BY <1>1, <1>2 DEF InStep, Late, Epilogue, Shape
<1>4. /\ order' \in [{0, 1} -> Barriers]
      /\ order'[1] = [order[1] EXCEPT ![1 - w[1]] = Arrived(@, w, launch.warps)]
      /\ order'[0] = order[0]
      /\ ord' \in [Warps(launch) -> [index : {0, 1}, phase : {0, 1}]]
      /\ ord'[w] = NextTurn(ord[w])
      /\ \A v \in Warps(launch) : v # w => ord'[v] = ord[v]
  BY <1>2, <1>3, HandOverStep
<1>5. Shape'
  <2>1. pc' \in [Warps(launch) -> Places]
    BY <1>2 DEF Shape, Places, MainLoop, Epilogue
  <2>2. bar' \subseteq Within({"sync1", "sync2"})'
    BY <1>2 DEF Shape, Within
  <2>. QED
    BY <1>2, <1>4, <2>1, <2>2 DEF Shape, Barriers, Warps, Groups
<1>. DEFINE a2 == [a1 EXCEPT ![w] = @ + 1]
<1>6. PICK n2 : Counts(n2, a2) /\ Rounds(order'[1], Within(Epilogue) \ {w}, n2, a2)
  <2>1. w \in Within(Epilogue) /\ Within(Epilogue) \in SUBSET Warps(launch)
    BY <1>2 DEF Within, Epilogue
  <2>2. order[1] \in Barriers
    BY <1>2 DEF Shape
  <2>3. Counts(n1, a1) /\ Rounds(order[1], Within(Epilogue), n1, a1)
    BY <1>1 DEF InStep
  <2>4. \E n2 : /\ Counts(n2, a2)
                /\ Rounds([order[1] EXCEPT ![1 - w[1]] = Arrived(@, w, launch.warps)],
                          Within(Epilogue) \ {w}, n2, a2)
    BY <1>2, <2>1, <2>2, <2>3, Arrive
  <2>. QED
    BY <1>4, <2>4
<1>7. /\ Within(Epilogue)' = Within(Epilogue) \ {w}
      /\ Within(MainLoop)' = Within(MainLoop)
      /\ pc[w] \in Late /\ pc'[w] \notin Late
      /\ \A v \in Warps(launch) : v # w => pc'[v] = pc[v]
  BY <1>2 DEF Within, Shape, MainLoop, Epilogue, Late
<1>8. \A v \in Warps(launch) :
         /\ ord'[v].index = IF pc'[v] \in Late THEN 1 ELSE 0
         /\ ord'[v].phase = (a2[v] + 1 - v[1]) % 2
         /\ a0[v] = IF pc'[v] \in Late THEN a2[v] + 1 ELSE a2[v]
  <2>1. NextTurn(ord[w]) = [index |-> 0, phase |-> 1 - ord[w].phase]
    BY <1>3 DEF NextTurn
  <2>2. a2[w] = a1[w] + 1 /\ \A v \in Warps(launch) : v # w => a2[v] = a1[v]
    BY <1>1 DEF InStep, Counts
  <2>3. 1 - ((a1[w] + 1 - w[1]) % 2) = (a2[w] + 1 - w[1]) % 2
    <3>1. a1[w] \in Nat /\ (w[1] = 0 \/ w[1] = 1)
      BY <1>1, <1>2, WarpGroup DEF InStep, Counts
    <3>. QED
      BY <2>2, <3>1
  <2>4. ord'[w] = [index |-> 0, phase |-> 1 - ord[w].phase]
    BY <1>4, <2>1
  <2>5. ord[w].phase = (a1[w] + 1 - w[1]) % 2 /\ a0[w] = a1[w] + 1
    BY <1>1, <1>7 DEF InStep
  <2>6. \A v \in Warps(launch) : v # w =>
         /\ ord'[v].index = IF pc'[v] \in Late THEN 1 ELSE 0
         /\ ord'[v].phase = (a2[v] + 1 - v[1]) % 2
         /\ a0[v] = IF pc'[v] \in Late THEN a2[v] + 1 ELSE a2[v]
    BY <1>1, <1>4, <1>7, <2>2 DEF InStep
  <2>7. /\ ord'[w].index = 0 /\ ord'[w].phase = (a2[w] + 1 - w[1]) % 2
        /\ a0[w] = a2[w]
    BY <2>2, <2>3, <2>4, <2>5
  <2>. QED
    BY <1>7, <2>6, <2>7
<1>9. Counts(n2, a2)' /\ Rounds(order[1], Within(Epilogue), n2, a2)'
  BY <1>2, <1>6, <1>7 DEF Counts, Rounds, GroupOf
<1>10. Counts(n0, a0)' /\ Rounds(order[0], Within(MainLoop), n0, a0)'
  BY <1>1, <1>2, <1>4, <1>7 DEF InStep, Counts, Rounds, GroupOf
<1>11. InStep(n0, a0, n2, a2)'
  <2>1. /\ warp'[w].executed = warp[w].executed + 2
        /\ \A v \in Warps(launch) : v # w => warp'[v].executed = warp[v].executed
    BY FinishTileRegisters DEF OthersKept
  <2>2. /\ a1 \in [Warps(launch) -> Nat] /\ a2[w] = a1[w] + 1
        /\ \A v \in Warps(launch) : v # w => a2[v] = a1[v]
        /\ \A v \in Warps(launch) : warp[v].executed = 2 * a1[v] + v[1]
    BY <1>1 DEF InStep, Counts
  <2>3. w[1] = 0 \/ w[1] = 1
    BY <1>2, WarpGroup
  <2>. HIDE DEF a2
  <2>4. warp'[w].executed = 2 * a2[w] + w[1]
    BY <2>1, <2>2, <2>3
  <2>5. \A v \in Warps(launch) : warp'[v].executed = 2 * a2[v] + v[1]
    BY <2>1, <2>2, <2>4
  <2>. QED
    BY <1>2, <1>8, <1>9, <1>10, <2>5 DEF InStep
<1>. QED
  BY <1>5, <1>11 DEF OrderInv

\* The steps of a warp that stay within the main loop.
LEMMA LoopStep ==
  ASSUME OrderInv, SameExecuted, NEW w \in Warps(launch),
         FirstBlock(w) \/ CopyThenMultiply(w) \/ ReleaseStage(w) \/ NextStage(w)
  PROVE  OrderInv'
<1>1. PICK to \in MainLoop :
        /\ pc[w] \in MainLoop
        /\ pc' = [pc EXCEPT ![w] = to]
        /\ UNCHANGED <<launch, ord, order, bar>>
  BY DEF FirstBlock, CopyThenMultiply, ReleaseStage, NextStage, UnchangedInLoop,
         UnchangedButWarp, Go, AtBlock, MainLoop
<1>2. pc \in [Warps(launch) -> Places] /\ bar \subseteq Within({"sync1", "sync2"})
  BY DEF OrderInv, Shape
<1>3. /\ pc' \in [Warps(launch) -> Places]
      /\ \A v \in Warps(launch) : /\ pc'[v] \in MainLoop <=> pc[v] \in MainLoop
                                  /\ pc'[v] \in Epilogue <=> pc[v] \in Epilogue
                                  /\ pc'[v] \in Late <=> pc[v] \in Late
      /\ \A v \in bar' : v \in Warps(launch) /\ pc'[v] \in {"sync1", "sync2"}
  BY <1>1, <1>2 DEF Places, MainLoop, Epilogue, Late, Within
<1>. QED
  BY <1>1, <1>3, Quiet

\* What the named barrier does to the control of the warps: it opens for warps
\* of the epilogue only, and leaves them there.
LEMMA SyncControl ==
  ASSUME Shape, NEW w \in Warps(launch), SyncBeforeWrite(w) \/ WriteSlice(w)
  PROVE  /\ UNCHANGED <<launch, ord, order>>
         /\ pc' \in [Warps(launch) -> Places]
         /\ \A v \in Warps(launch) :
               pc'[v] = pc[v] \/ (pc[v] \in Epilogue /\ pc'[v] \in Epilogue)
         /\ \A v \in bar' : v \in Warps(launch) /\ pc'[v] \in {"sync1", "sync2"}
<1>1. PICK at \in {"sync1", "sync2"} :
        /\ pc[w] \in {"epilogue", "write"}
        /\ Sync(w, at)
        /\ UNCHANGED <<launch, ord, order>>
  BY DEF SyncBeforeWrite, WriteSlice, UnchangedButWarp
<1>2. pc \in [Warps(launch) -> Places] /\ bar \subseteq Within({"sync1", "sync2"})
  BY DEF Shape
<1>3. /\ pc' \in [Warps(launch) -> Places]
      /\ \A v \in Warps(launch) : pc'[v] = pc[v] \/ (pc[v] \in Epilogue /\ pc'[v] \in Epilogue)
      /\ \A v \in bar' : v \in Warps(launch) /\ pc'[v] \in {"sync1", "sync2"}
  <2>. DEFINE here == bar \cup {w}
              place(v) == IF v = w THEN at ELSE pc[v]
              after(v) == CASE place(v) = "sync1" -> "write"
                            [] place(v) = "sync2" /\ Leader(v) -> "store"
                            [] OTHER -> SliceDone(v)
  <2>1. \A v \in here : v \in Warps(launch) /\ pc[v] \in Epilogue
    BY <1>1, <1>2 DEF Within, Epilogue
  <2>2. CASE Cardinality(here) = launch.warps
    <3>1. /\ bar' = {}
          /\ pc' = [v \in Warps(launch) |-> IF v \in here THEN after(v) ELSE pc[v]]
      BY <1>1, <2>2 DEF Sync
    <3>2. \A v \in here : after(v) \in {"write", "store", "finish", "epilogue"}
      BY DEF SliceDone
    <3>3. {"write", "store", "finish", "epilogue"} \subseteq Epilogue \cap Places
      BY DEF Epilogue, Places
    <3>. HIDE DEF after, here
    <3>4. \A v \in Warps(launch) :
            pc'[v] = pc[v] \/ (pc[v] \in Epilogue /\ pc'[v] \in Epilogue)
      BY <2>1, <3>1, <3>2, <3>3
    <3>5. pc' \in [Warps(launch) -> Places]
      BY <1>2, <3>1, <3>2, <3>3
    <3>. QED
      BY <3>1, <3>4, <3>5
  <2>3. CASE Cardinality(here) # launch.warps
    <3>1. bar' = here /\ pc' = [pc EXCEPT ![w] = at]
      BY <1>1, <2>3 DEF Sync, Go
    <3>2. at \in Epilogue \cap Places
      BY <1>1 DEF Epilogue, Places
    <3>3. \A v \in Warps(launch) : pc'[v] = IF v = w THEN at ELSE pc[v]
      BY <1>2, <3>1
    <3>4. \A v \in bar' : v \in Warps(launch) /\ pc'[v] \in {"sync1", "sync2"}
      BY <1>1, <1>2, <3>1, <3>3 DEF Within
    <3>5. pc' \in [Warps(launch) -> Places]
      BY <1>2, <3>1, <3>2
    <3>. QED
      BY <2>1, <3>2, <3>3, <3>4, <3>5
  <2>. QED
    BY <2>2, <2>3
<1>. QED
  BY <1>1, <1>3

\* The steps that stay within the epilogue by the named barrier.
LEMMA SyncStep ==
  ASSUME OrderInv, SameExecuted, NEW w \in Warps(launch), SyncBeforeWrite(w) \/ WriteSlice(w)
  PROVE  OrderInv'
<1>1. /\ UNCHANGED <<launch, ord, order>>
      /\ pc' \in [Warps(launch) -> Places]
      /\ \A v \in Warps(launch) :
            pc'[v] = pc[v] \/ (pc[v] \in Epilogue /\ pc'[v] \in Epilogue)
      /\ \A v \in bar' : v \in Warps(launch) /\ pc'[v] \in {"sync1", "sync2"}
  BY SyncControl DEF OrderInv
<1>2. \A v \in Warps(launch) : /\ pc'[v] \in MainLoop <=> pc[v] \in MainLoop
                               /\ pc'[v] \in Epilogue <=> pc[v] \in Epilogue
                               /\ pc'[v] \in Late <=> pc[v] \in Late
  BY <1>1 DEF Epilogue, MainLoop, Late
<1>. QED
  BY <1>1, <1>2, Quiet

\* The other steps of the epilogue, and the end of a warp.
LEMMA EpilogueStep ==
  ASSUME OrderInv, SameExecuted, NEW w \in Warps(launch),
         StoreSlice(w) \/ AcquireBuffer(w) \/ ExitLoop(w)
  PROVE  OrderInv'
<1>1. PICK to \in Places :
        /\ \/ pc[w] \in {"store", "acquire"} /\ to \in Epilogue
           \/ pc[w] = "start" /\ to = "done"
        /\ pc' = [pc EXCEPT ![w] = to]
        /\ UNCHANGED <<launch, ord, order, bar>>
  BY DEF StoreSlice, AcquireBuffer, ExitLoop, UnchangedInLoop, UnchangedButWarp, Go,
         SliceDone, Places, Epilogue
<1>2. pc \in [Warps(launch) -> Places] /\ bar \subseteq Within({"sync1", "sync2"})
  BY DEF OrderInv, Shape
<1>3. pc' \in [Warps(launch) -> Places] /\ \A v \in Warps(launch) : v # w => pc'[v] = pc[v]
  BY <1>1, <1>2
<1>4. pc'[w] = to
  BY <1>1, <1>2
<1>5. \A v \in Warps(launch) : /\ pc'[v] \in MainLoop <=> pc[v] \in MainLoop
                               /\ pc'[v] \in Epilogue <=> pc[v] \in Epilogue
                               /\ pc'[v] \in Late <=> pc[v] \in Late
  BY <1>1, <1>3, <1>4 DEF MainLoop, Epilogue, Late
<1>6. \A v \in bar' : v \in Warps(launch) /\ pc'[v] \in {"sync1", "sync2"}
  BY <1>1, <1>2, <1>3 DEF Within
<1>. QED
  BY <1>1, <1>3, <1>5, <1>6, Quiet

\* The loader and the TMA engine touch neither the warps' control nor the
\* order barrier.
LEMMA OthersStep ==
  ASSUME OrderInv, RegisterShape, OthersMove
  PROVE  OrderInv'
<1>1. UNCHANGED <<launch, pc, ord, order, bar>> /\ SameExecuted
  BY OthersRegisters
<1>2. /\ pc' \in [Warps(launch) -> Places]
      /\ \A v \in bar' : v \in Warps(launch) /\ pc'[v] \in {"sync1", "sync2"}
  BY <1>1 DEF OrderInv, Shape, Within
<1>. QED
  BY <1>1, <1>2, Quiet

\* The turns are kept by every step of the kernel.
LEMMA OrderNext ==
  ASSUME OrderInv, RegisterShape, [PingNext]_vars
  PROVE  OrderInv' /\ RegisterShape'
<1>1. ASSUME NEW w \in Warps(launch), PingWarp(w) PROVE OrderInv' /\ RegisterShape'
  <2>1. RegisterShape' /\ (~FinishTile(w) => SameExecuted)
    BY <1>1, WarpRegisters
  <2>2. CASE FinishTile(w)
    BY <2>1, <2>2, LeavingEpilogue
  <2>3. CASE SameExecuted
    <3>1. CASE StartTile(w) \/ EnterEpilogue(w)
      BY <2>1, <2>3, <3>1, Entering
    <3>2. CASE LeaveMainLoop(w)
      BY <2>1, <2>3, <3>2, LeavingMainLoop
    <3>3. CASE FirstBlock(w) \/ CopyThenMultiply(w) \/ ReleaseStage(w) \/ NextStage(w)
      BY <2>1, <2>3, <3>3, LoopStep
    <3>4. CASE SyncBeforeWrite(w) \/ WriteSlice(w)
      BY <2>1, <2>3, <3>4, SyncStep
    <3>5. CASE StoreSlice(w) \/ AcquireBuffer(w) \/ ExitLoop(w)
      BY <2>1, <2>3, <3>5, EpilogueStep
    <3>. QED
      BY <1>1, <2>1, <2>2, <3>1, <3>2, <3>3, <3>4, <3>5 DEF PingWarp
  <2>. QED
    BY <2>1, <2>2, <2>3
<1>2. CASE OthersMove
  BY <1>2, OthersStep, OthersRegisters
<1>. QED
  BY <1>1, <1>2 DEF PingNext, OthersMove

\* The registers a kernel starts with.
LEMMA RegistersInit == PingInit => RegisterShape
<1>1. \A l, s : DOMAIN SkipTile(l, s) = PipeFields
  BY DEF SkipTile, PipeFields
<1>2. DOMAIN PipeState(0) = PipeFields
  BY DEF PipeState, PipeFields
<1>. QED
  BY <1>1, <1>2 DEF PingInit, FreshMachine, FreshPingWarps, FreshPingWarp, RegisterShape, Fields

(***************************************************************************)
(* The ring of stages under the ping-pong schedule.  The k tiles of output *)
(* tile j belong to group j % 2; a group counts those of the other group   *)
(* as passed when it hands over the main loop, although its pipeline state *)
(* skips them when it enters the epilogue.                                 *)
(***************************************************************************)
\* The output tile whose k tiles a warp consumes next.
Base(w) == warp[w].executed + (IF pc[w] \in Late THEN 2 ELSE 0)

Position(w) ==
    launch.kTiles * Base(w) + (IF pc[w] \in MainLoop THEN warp[w].pipe.count ELSE 0)

\* Where its pipeline state stands.
PipePosition(w) ==
    IF pc[w] = "cross" THEN launch.kTiles * (warp[w].executed + 1) ELSE Position(w)

InPlace(w) ==
    /\ warp[w].executed \in Nat
    /\ StandsAt(warp[w].pipe, PipePosition(w))
    /\ pc[w] \in {"first", "block", "release", "next"} =>
          warp[w].pipe.count \in 0 .. launch.kTiles - 1
    /\ pc[w] = "last" => warp[w].pipe.count = launch.kTiles
    /\ warp[w].blk \in 0 .. LastBlock
    /\ pc[w] = "block" => warp[w].blk < LastBlock
    /\ warp[w].epi \in 0 .. launch.epiTiles - 1
    /\ pc[w] \notin {"start", "done"} => Valid(warp[w].executed)

AllInPlace == \A w \in Warps(launch) : InPlace(w)

Owners == [x \in Nat |-> GroupOf((x \div launch.kTiles) % 2)]

\* What k tile k of output tile t consists of.
Content(t, k) ==
    [op \in Operands |-> Source(op, t, k, launch.map[TileN(t) + 1])]

Contents ==
    [x \in Nat |-> Content(Linear(x \div launch.kTiles), x % launch.kTiles)]

Positions == [w \in Warps(launch) |-> Position(w)]

Holders == Within({"block", "release"})

Ghosts(own, src, n, p, in) ==
    own = Owners /\ src = Contents /\ n = launch.warps /\ p = Positions /\ in = Holders

PingRing ==
    \E own, src, n, p, in, load, issued, filled, freed :
       Ghosts(own, src, n, p, in) /\ Ring(own, src, n, p, in, load, issued, filled, freed)

\* The numbers of a launch.
LEMMA LaunchNumbers ==
  ASSUME launch \in PingLaunches
  PROVE  /\ launch.stages \in Nat /\ launch.stages > 0
         /\ launch.kTiles \in Nat /\ launch.kTiles > 0
         /\ launch.warps \in Nat /\ launch.warps > 0
         /\ LastBlock \in Nat
         /\ launch.epiTiles \in Nat /\ launch.epiTiles > 0
BY DEF PingLaunches, Launches, Positive, LastBlock

\* Skipping the k tiles of an output tile goes on by as many, whether or not the
\* ring is longer than a tile.
LEMMA SkippedState ==
  ASSUME launch \in PingLaunches, NEW x \in Nat, NEW s, StandsAt(s, x)
  PROVE  StandsAt(SkipTile(launch, s), x + launch.kTiles)
<1>. DEFINE S == launch.stages  K == launch.kTiles  y == (x % S) + K
            wrapped == \/ K < S /\ y >= S
                       \/ K >= S /\ (y \div S) % 2 = 1
<1>1. S \in Nat /\ S > 0 /\ K \in Nat /\ K > 0
  BY LaunchNumbers
<1>2. x % S \in 0 .. S - 1 /\ x \div S \in Nat
  BY <1>1, Division
<1>3. y \in Nat /\ (x + K) % S = y % S /\ (x + K) \div S = x \div S + y \div S
  <2>. HIDE DEF S, K
  <2>. QED
    BY <1>1, SkipOnRing
<1>4. y \div S \in Nat
  <2>. HIDE DEF S, K, y
  <2>. QED
    BY <1>1, <1>3, Division
<1>5. K < S => y \div S = IF y >= S THEN 1 ELSE 0
  <2>1. CASE K < S /\ y >= S
    <3>1. y = S * 1 + (y - S) /\ y - S \in Nat /\ y - S < S
      BY <1>1, <1>2, <2>1
    <3>. HIDE DEF S, K, y
    <3>. QED
      BY <1>1, <2>1, <3>1, Quotient
  <2>2. CASE K < S /\ ~ (y >= S)
    <3>1. y = S * 0 + y /\ y < S
      BY <1>1, <1>2, <1>3, <2>2
    <3>. HIDE DEF S, K, y
    <3>. QED
      BY <1>1, <1>3, <2>2, <3>1, Quotient
  <2>. QED
    BY <2>1, <2>2
<1>6. (y \div S) % 2 = IF wrapped THEN 1 ELSE 0
  <2>1. 1 % 2 = 1 /\ 0 % 2 = 0 /\ \A q \in Nat : q % 2 \in {0, 1}
    OBVIOUS
  <2>2. (y \div S) % 2 \in {0, 1}
    BY <1>4, <2>1
  <2>3. CASE K < S
    <3>1. wrapped <=> y >= S
      BY <1>1, <2>3
    <3>. HIDE DEF S, K, y, wrapped
    <3>. QED
      BY <1>5, <2>1, <2>3, <3>1
  <2>4. CASE K >= S
    <3>1. wrapped <=> (y \div S) % 2 = 1
      BY <1>1, <2>4
    <3>. HIDE DEF S, K, y, wrapped
    <3>. QED
      BY <2>2, <3>1
  <2>. QED
    BY <1>1, <2>3, <2>4
<1>7. (x \div S + y \div S) % 2 =
         IF wrapped THEN 1 - ((x \div S) % 2) ELSE (x \div S) % 2
  <2>1. \A p, q \in Nat : /\ q % 2 = 1 => (p + q) % 2 = 1 - (p % 2)
                          /\ q % 2 = 0 => (p + q) % 2 = p % 2
    OBVIOUS
  <2>. HIDE DEF S, K, y, wrapped
  <2>. QED
    BY <1>2, <1>4, <1>6, <2>1
<1>8. s.index = x % S /\ s.phase = (x \div S) % 2
  BY DEF StandsAt, Place, Round
<1>9. SkipTile(launch, s).index = y % S
      /\ SkipTile(launch, s).phase = IF wrapped THEN 1 - s.phase ELSE s.phase
  BY <1>8 DEF SkipTile
<1>. QED
  BY <1>3, <1>7, <1>8, <1>9 DEF StandsAt, Place, Round

\* Positions are numbers.
LEMMA PositionNat ==
  ASSUME launch \in PingLaunches, NEW w \in Warps(launch), InPlace(w)
  PROVE  /\ Base(w) \in Nat /\ launch.kTiles * Base(w) \in Nat
         /\ Position(w) \in Nat /\ Position(w) >= launch.kTiles * Base(w)
         /\ pc[w] \in MainLoop =>
               /\ Base(w) = warp[w].executed
               /\ warp[w].pipe.count \in 0 .. launch.kTiles
<1>1. launch.kTiles \in Nat /\ launch.kTiles > 0 /\ warp[w].executed \in Nat
  BY LaunchNumbers DEF InPlace
<1>2. pc[w] \in MainLoop => warp[w].pipe.count \in 0 .. launch.kTiles
  BY <1>1 DEF InPlace, MainLoop
<1>3. Base(w) \in Nat /\ (pc[w] \in MainLoop => Base(w) = warp[w].executed)
  BY <1>1 DEF Base, MainLoop, Late, Epilogue
<1>4. launch.kTiles * Base(w) \in Nat
  BY <1>1, <1>3
<1>. QED
  BY <1>1, <1>2, <1>3, <1>4 DEF Position

\* A warp that does not move stays where it is.
LEMMA Unmoved ==
  ASSUME launch' = launch, NEW v \in Warps(launch), InPlace(v),
         pc'[v] = pc[v], warp'[v] = warp[v]
  PROVE  InPlace(v)' /\ Position(v)' = Position(v)
<1>1. Position(v)' = Position(v) /\ PipePosition(v)' = PipePosition(v)
  BY DEF Position, PipePosition, Base
<1>2. LastBlock' = LastBlock /\ \A x : Valid(x)' = Valid(x)
  BY DEF LastBlock, Valid, Linear
<1>. QED
  BY <1>1, <1>2 DEF InPlace, StandsAt, Place, Round

\* The two positions, from what they are made of.
LEMMA SamePosition ==
  ASSUME launch' = launch, NEW v, pc'[v] \in MainLoop, pc[v] \in MainLoop,
         warp'[v].executed = warp[v].executed, warp'[v].pipe.count = warp[v].pipe.count
  PROVE  Position(v)' = Position(v) /\ PipePosition(v)' = PipePosition(v)
BY DEF Position, PipePosition, Base, MainLoop, Late, Epilogue

\* The steps that move no warp to another k tile.
LEMMA StillStep ==
  ASSUME Shape, RegisterShape, AllInPlace, NEW w \in Warps(launch),
         \/ StartTile(w) \/ ExitLoop(w) \/ FirstBlock(w) \/ CopyThenMultiply(w)
         \/ NextStage(w) \/ EnterEpilogue(w) \/ SyncBeforeWrite(w) \/ WriteSlice(w)
         \/ StoreSlice(w) \/ AcquireBuffer(w) \/ FinishTile(w)
  PROVE  AllInPlace' /\ \A v \in Warps(launch) : Position(v)' = Position(v)
<1>1. /\ launch \in PingLaunches /\ pc \in [Warps(launch) -> Places] /\ InPlace(w)
  BY DEF Shape, AllInPlace
<1>2. /\ launch.kTiles \in Nat /\ launch.kTiles > 0 /\ LastBlock \in Nat
      /\ warp[w].executed \in Nat
  BY <1>1, LaunchNumbers DEF InPlace
<1>3. launch' = launch =>
        /\ Warps(launch') = Warps(launch) /\ LastBlock' = LastBlock
        /\ \A y : Place(y)' = Place(y) /\ Round(y)' = Round(y) /\ Valid(y)' = Valid(y)
  BY DEF LastBlock, Place, Round, Valid, Linear
\* one warp alone
<1>4. ASSUME launch' = launch, OthersKept(w),
             \A v \in Warps(launch) : v # w => pc'[v] = pc[v],
             InPlace(w)', Position(w)' = Position(w)
      PROVE  AllInPlace' /\ \A v \in Warps(launch) : Position(v)' = Position(v)
  <2>1. ASSUME NEW v \in Warps(launch)
        PROVE  InPlace(v)' /\ Position(v)' = Position(v)
    BY <1>4, Unmoved DEF OthersKept, AllInPlace
  <2>. QED
    BY <1>4, <2>1 DEF AllInPlace
<1>5. CASE StartTile(w)
  <2>1. /\ launch' = launch /\ pc[w] = "start" /\ pc'[w] = "first"
        /\ Valid(warp[w].executed)
        /\ \A v \in Warps(launch) : v # w => pc'[v] = pc[v]
    BY <1>1, <1>5 DEF StartTile, Go, UnchangedInLoop, UnchangedButWarp
  <2>2. /\ OthersKept(w) /\ warp'[w].executed = warp[w].executed
        /\ warp'[w].pipe.index = warp[w].pipe.index
        /\ warp'[w].pipe.phase = warp[w].pipe.phase
        /\ warp'[w].pipe.count = 0
        /\ warp'[w].blk = warp[w].blk /\ warp'[w].epi = warp[w].epi
    BY <1>5, StartTileRegisters
  <2>3. /\ Position(w) = launch.kTiles * warp[w].executed
        /\ PipePosition(w) = Position(w)
    BY <1>2, <2>1 DEF Position, PipePosition, Base, MainLoop, Late, Epilogue
  <2>4. /\ Position(w)' = launch.kTiles * warp[w].executed
        /\ PipePosition(w)' = Position(w)'
    BY <1>2, <2>1, <2>2 DEF Position, PipePosition, Base, MainLoop, Late, Epilogue
  <2>5. InPlace(w)'
    BY <1>1, <1>2, <1>3, <2>1, <2>2, <2>3, <2>4 DEF InPlace, StandsAt
  <2>. QED
    BY <1>4, <2>1, <2>2, <2>3, <2>4, <2>5
<1>6. CASE FirstBlock(w)
  <2>1. /\ launch' = launch /\ pc[w] = "first" /\ pc'[w] = AtBlock(0)
        /\ \A v \in Warps(launch) : v # w => pc'[v] = pc[v]
    BY <1>1, <1>6 DEF FirstBlock, Go, UnchangedInLoop, UnchangedButWarp
  <2>2. /\ OthersKept(w) /\ warp'[w].executed = warp[w].executed
        /\ warp'[w].pipe = warp[w].pipe
        /\ warp'[w].blk = 0 /\ warp'[w].epi = warp[w].epi
    BY <1>6, FirstBlockRegisters
  <2>3. /\ pc'[w] \in {"block", "release"} /\ (pc'[w] = "block" => 0 < LastBlock)
        /\ pc[w] \in MainLoop /\ pc'[w] \in MainLoop
    BY <1>2, <2>1 DEF AtBlock, MainLoop
  <2>4. Position(w)' = Position(w) /\ PipePosition(w)' = PipePosition(w)
    BY <2>1, <2>2, <2>3, SamePosition
  <2>5. InPlace(w)'
    BY <1>1, <1>2, <1>3, <2>1, <2>2, <2>3, <2>4 DEF InPlace, StandsAt
  <2>. QED
    BY <1>4, <2>1, <2>2, <2>4, <2>5
<1>7. CASE CopyThenMultiply(w)
  <2>1. /\ launch' = launch /\ pc[w] = "block" /\ pc'[w] = AtBlock(warp[w].blk + 1)
        /\ \A v \in Warps(launch) : v # w => pc'[v] = pc[v]
    BY <1>1, <1>7 DEF CopyThenMultiply, Go, UnchangedInLoop, UnchangedButWarp
  <2>2. /\ OthersKept(w) /\ warp'[w].executed = warp[w].executed
        /\ warp'[w].pipe = warp[w].pipe
        /\ warp'[w].blk = warp[w].blk + 1 /\ warp'[w].epi = warp[w].epi
    BY <1>7, CopyRegisters
  <2>3. warp[w].blk \in 0 .. LastBlock /\ warp[w].blk < LastBlock
    BY <1>1, <2>1 DEF InPlace
  <2>4. /\ pc'[w] \in {"block", "release"}
        /\ pc'[w] = "block" => warp[w].blk + 1 < LastBlock
        /\ pc[w] \in MainLoop /\ pc'[w] \in MainLoop
    BY <1>2, <2>1, <2>3 DEF AtBlock, MainLoop
  <2>5. Position(w)' = Position(w) /\ PipePosition(w)' = PipePosition(w)
    BY <2>1, <2>2, <2>4, SamePosition
  <2>6. InPlace(w)'
    BY <1>1, <1>2, <1>3, <2>1, <2>2, <2>3, <2>4, <2>5 DEF InPlace, StandsAt
  <2>. QED
    BY <1>4, <2>1, <2>2, <2>5, <2>6
<1>8. CASE NextStage(w)
  <2>1. /\ launch' = launch /\ pc[w] = "next" /\ pc'[w] = AtBlock(0)
        /\ \A v \in Warps(launch) : v # w => pc'[v] = pc[v]
    BY <1>1, <1>8 DEF NextStage, Go, UnchangedInLoop, UnchangedButWarp
  <2>2. /\ OthersKept(w) /\ warp'[w].executed = warp[w].executed
        /\ warp'[w].pipe = warp[w].pipe
        /\ warp'[w].blk = 0 /\ warp'[w].epi = warp[w].epi
    BY <1>8, NextStageRegisters
  <2>3. /\ pc'[w] \in {"block", "release"} /\ (pc'[w] = "block" => 0 < LastBlock)
        /\ pc[w] \in MainLoop /\ pc'[w] \in MainLoop
    BY <1>2, <2>1 DEF AtBlock, MainLoop
  <2>4. Position(w)' = Position(w) /\ PipePosition(w)' = PipePosition(w)
    BY <2>1, <2>2, <2>3, SamePosition
  <2>5. InPlace(w)'
    BY <1>1, <1>2, <1>3, <2>1, <2>2, <2>3, <2>4 DEF InPlace, StandsAt
  <2>. QED
    BY <1>4, <2>1, <2>2, <2>4, <2>5
<1>9. CASE EnterEpilogue(w)
  <2>1. /\ launch' = launch /\ pc[w] = "cross" /\ pc'[w] = "epilogue"
        /\ \A v \in Warps(launch) : v # w => pc'[v] = pc[v]
    BY <1>1, <1>9 DEF EnterEpilogue, Go, UnchangedInLoop, UnchangedButWarp
  <2>2. /\ OthersKept(w) /\ warp'[w].executed = warp[w].executed
        /\ warp'[w].pipe = SkipTile(launch, warp[w].pipe)
        /\ warp'[w].blk = warp[w].blk /\ warp'[w].epi = 0
    BY <1>9, EnterEpilogueRegisters
  <2>. DEFINE x == launch.kTiles * (warp[w].executed + 1)
  <2>3. /\ x \in Nat
        /\ launch.kTiles * (warp[w].executed + 2) = x + launch.kTiles
        /\ x + launch.kTiles \in Nat
    BY <1>2
  <2>4. PipePosition(w) = x
    BY <2>1 DEF PipePosition
  <2>. HIDE DEF x
  <2>5. Position(w) = x + launch.kTiles
    BY <1>2, <2>1, <2>3 DEF Position, Base, MainLoop, Late
  <2>6. Position(w)' = x + launch.kTiles /\ PipePosition(w)' = Position(w)'
    BY <1>2, <2>1, <2>2, <2>3 DEF Position, PipePosition, Base, MainLoop, Late, Epilogue
  <2>7. StandsAt(SkipTile(launch, warp[w].pipe), x + launch.kTiles)
    BY <1>1, <2>3, <2>4, SkippedState DEF InPlace
  <2>8. 0 \in 0 .. launch.epiTiles - 1
    BY <1>1, LaunchNumbers
  <2>9. InPlace(w)'
    BY <1>1, <1>2, <1>3, <2>1, <2>2, <2>6, <2>7, <2>8 DEF InPlace, StandsAt
  <2>. QED
    BY <1>4, <2>1, <2>2, <2>5, <2>6, <2>9
<1>10. CASE FinishTile(w)
  <2>1. /\ launch' = launch /\ pc[w] = "finish" /\ pc'[w] = "start"
        /\ \A v \in Warps(launch) : v # w => pc'[v] = pc[v]
    BY <1>1, <1>10 DEF FinishTile, Go, UnchangedButWarp
  <2>2. /\ OthersKept(w) /\ warp'[w].executed = warp[w].executed + 2
        /\ warp'[w].pipe = warp[w].pipe
        /\ warp'[w].blk = warp[w].blk /\ warp'[w].epi = warp[w].epi
    BY <1>10, FinishTileRegisters
  <2>3. /\ Position(w) = launch.kTiles * (warp[w].executed + 2) + 0
        /\ PipePosition(w) = Position(w)
    BY <2>1 DEF Position, PipePosition, Base, MainLoop, Late, Epilogue
  <2>4. /\ Position(w)' = launch.kTiles * (warp[w].executed + 2 + 0) + 0
        /\ PipePosition(w)' = Position(w)'
    BY <2>1, <2>2 DEF Position, PipePosition, Base, MainLoop, Late, Epilogue
  <2>5. Position(w)' = Position(w) /\ PipePosition(w)' = PipePosition(w)
    BY <1>2, <2>3, <2>4
  <2>6. InPlace(w)'
    BY <1>1, <1>2, <1>3, <2>1, <2>2, <2>5 DEF InPlace, StandsAt
  <2>. QED
    BY <1>4, <2>1, <2>2, <2>5, <2>6
\* steps of the epilogue, of one warp or of all that wait
<1>11. ASSUME launch' = launch, NEW v \in Warps(launch), SliceOnly(v),
              \/ pc'[v] = pc[v]
              \/ pc[v] \in Epilogue /\ pc'[v] \in Epilogue
              \/ pc[v] = "start" /\ pc'[v] = "done"
       PROVE  InPlace(v)' /\ Position(v)' = Position(v)
  <2>1. InPlace(v) /\ warp'[v].pipe = warp[v].pipe /\ warp'[v].executed = warp[v].executed
        /\ warp'[v].blk = warp[v].blk
    BY <1>11 DEF AllInPlace, SliceOnly
  <2>2. Position(v)' = Position(v) /\ PipePosition(v)' = PipePosition(v)
    BY <1>11, <2>1 DEF Position, PipePosition, Base, MainLoop, Late, Epilogue
  <2>3. warp'[v].epi \in 0 .. launch.epiTiles - 1
    <3>1. warp[v].epi \in 0 .. launch.epiTiles - 1
      BY <2>1 DEF InPlace
    <3>. QED
      BY <1>1, <1>11, <3>1, LaunchNumbers DEF SliceOnly, LastSlice
  <2>4. /\ pc'[v] # pc[v] => pc'[v] \notin MainLoop
        /\ pc'[v] \notin {"start", "done"} => pc[v] \notin {"start", "done"}
    BY <1>11 DEF MainLoop, Epilogue
  <2>. QED
    BY <1>3, <1>11, <2>1, <2>2, <2>3, <2>4 DEF InPlace, StandsAt, MainLoop
<1>12. CASE SyncBeforeWrite(w) \/ WriteSlice(w)
  BY <1>3, <1>11, <1>12, SyncControl, SyncRegisters DEF AllInPlace
<1>13. CASE AcquireBuffer(w)
  <2>1. /\ launch' = launch /\ pc[w] = "acquire" /\ pc'[w] = SliceDone(w)
        /\ \A v \in Warps(launch) : v # w => pc'[v] = pc[v]
    BY <1>1, <1>13 DEF AcquireBuffer, Go, UnchangedInLoop, UnchangedButWarp
  <2>2. pc[w] \in Epilogue /\ pc'[w] \in Epilogue
    BY <2>1 DEF SliceDone, Epilogue
  <2>. QED
    BY <1>3, <1>11, <1>13, <2>1, <2>2, AcquireRegisters DEF AllInPlace
<1>14. CASE ExitLoop(w) \/ StoreSlice(w)
  <2>1. /\ launch' = launch /\ warp' = warp
        /\ \/ pc[w] = "start" /\ pc'[w] = "done"
           \/ pc[w] \in Epilogue /\ pc'[w] \in Epilogue
        /\ \A v \in Warps(launch) : v # w => pc'[v] = pc[v]
    BY <1>1, <1>14 DEF ExitLoop, StoreSlice, Go, UnchangedInLoop, UnchangedButWarp, Epilogue
  <2>2. \A v \in Warps(launch) : SliceOnly(v)
    BY <2>1 DEF SliceOnly
  <2>. QED
    BY <1>3, <1>11, <2>1, <2>2 DEF AllInPlace
<1>. QED
  BY <1>5, <1>6, <1>7, <1>8, <1>9, <1>10, <1>12, <1>13, <1>14

\* A step of the ring that moves no warp.
LEMMA RingStill ==
  ASSUME NEW own, NEW src, NEW n, NEW p, NEW in, NEW load, NEW issued, NEW filled, NEW freed,
         Ghosts(own, src, n, p, in),
         Ring(own, src, n, p, in, load, issued, filled, freed),
         UNCHANGED RingVars,
         \A w \in Warps(launch) : Position(w)' = Position(w),
         \A w \in Holders' \ in : w \in own[p[w]] /\ p[w] < filled[Place(p[w])]
  PROVE  PingRing'
<1>1. launch' = launch /\ Warps(launch') = Warps(launch)
  BY DEF RingVars
<1>2. PICK in2 : in2 = Holders'
  OBVIOUS
<1>3. in2 \in SUBSET Warps(launch)
  BY <1>1, <1>2 DEF Holders, Within
<1>4. Ring(own, src, n, p, in2, load, issued, filled, freed)'
  BY <1>2, <1>3, RingQuiet
<1>5. Owners' = Owners /\ Contents' = Contents /\ Positions' = Positions
  <2>1. Owners' = Owners
    BY <1>1 DEF Owners, GroupOf
  <2>2. Contents' = Contents
    BY <1>1 DEF Contents, Content, Source, Linear, TileM, TileN
  <2>3. Positions' = Positions
    BY <1>1 DEF Positions
  <2>. QED
    BY <2>1, <2>2, <2>3
<1>6. Ghosts(own, src, n, p, in2)'
  BY <1>1, <1>2, <1>5 DEF Ghosts
<1>. QED
  BY <1>4, <1>6 DEF PingRing

\* The tile a warp is at belongs to its group, in the invariant's numbers.
LEMMA TilesOfGroup ==
  ASSUME Shape, NEW n0, NEW a0, NEW n1, NEW a1, InStep(n0, a0, n1, a1),
         NEW w \in Warps(launch)
  PROVE  Base(w) = 2 * a0[w] + w[1] /\ a0[w] \in Nat /\ Base(w) % 2 = w[1]
<1>1. /\ w[1] = 0 \/ w[1] = 1
      /\ a0[w] \in Nat /\ a1[w] \in Nat
      /\ a0[w] = IF pc[w] \in Late THEN a1[w] + 1 ELSE a1[w]
      /\ warp[w].executed = 2 * a1[w] + w[1]
  BY WarpGroup DEF Shape, InStep, Counts
<1>2. Base(w) = 2 * a0[w] + w[1]
  BY <1>1 DEF Base
<1>. QED
  BY <1>1, <1>2

\* A warp in the main loop: the warps of the other group are past all its tile's
\* predecessors, or a parity could be that of an earlier round.
LEMMA OthersPast ==
  ASSUME Shape, NEW n0, NEW a0, NEW n1, NEW a1, InStep(n0, a0, n1, a1),
         NEW w \in Within(MainLoop), NEW v \in Warps(launch), v[1] # w[1]
  PROVE  Base(v) > Base(w)
<1>1. w \in Warps(launch) /\ launch \in PingLaunches
  BY DEF Within, Shape
<1>2. /\ w[1] = 0 \/ w[1] = 1
      /\ v[1] = 0 \/ v[1] = 1
      /\ w[1] \in Groups /\ 1 - v[1] = w[1]
  BY <1>1, WarpGroup
<1>3. /\ Base(w) = 2 * a0[w] + w[1] /\ a0[w] \in Nat
      /\ Base(v) = 2 * a0[v] + v[1] /\ a0[v] \in Nat
  BY <1>1, TilesOfGroup
<1>4. /\ n0[w[1]] >= a0[w] + w[1]
      /\ a0[v] = n0[1 - v[1]] \/ a0[v] = n0[1 - v[1]] + 1
      /\ n0[w[1]] \in Nat
  BY <1>2 DEF InStep, Rounds, Counts
<1>. QED
  BY <1>2, <1>3, <1>4

\* The k tile a warp of the main loop is at is its group's.
LEMMA OwnTile ==
  ASSUME Shape, NEW n0, NEW a0, NEW n1, NEW a1, InStep(n0, a0, n1, a1),
         NEW w \in Warps(launch), InPlace(w), pc[w] \in {"first", "block", "release", "next"}
  PROVE  /\ Position(w) = launch.kTiles * warp[w].executed + warp[w].pipe.count
         /\ Position(w) \in Nat
         /\ Position(w) \div launch.kTiles = warp[w].executed
         /\ Position(w) % launch.kTiles = warp[w].pipe.count
         /\ w \in Owners[Position(w)]
<1>. DEFINE K == launch.kTiles  e == warp[w].executed  c == warp[w].pipe.count
<1>1. launch \in PingLaunches /\ pc[w] \in MainLoop
  BY DEF Shape, MainLoop
<1>2. K \in Nat /\ K > 0 /\ e \in Nat /\ c \in Nat /\ c < K
  BY <1>1, LaunchNumbers DEF InPlace
<1>3. Position(w) \in Nat /\ Base(w) = e
  BY <1>1, PositionNat
<1>4. Position(w) = K * e + c
  BY <1>1, <1>3 DEF Position
<1>5. e % 2 = w[1]
  BY <1>3, TilesOfGroup
<1>. HIDE DEF K, e, c
<1>6. (K * e + c) \div K = e /\ (K * e + c) % K = c
  BY <1>2, Quotient
<1>7. w \in GroupOf(w[1])
  BY <1>1, WarpGroup
<1>8. Owners[Position(w)] = GroupOf(w[1])
  BY <1>3, <1>4, <1>5, <1>6 DEF Owners, K
<1>. QED
  BY <1>3, <1>4, <1>6, <1>7, <1>8 DEF K, e, c

\* A wait of the main loop that passes has seen the k tile the warp is at,
\* although the warp compared parities.
LEMMA WaitIsRight ==
  ASSUME NEW own, NEW src, NEW n, NEW p, NEW in, NEW load, NEW issued, NEW filled, NEW freed,
         Ghosts(own, src, n, p, in),
         Ring(own, src, n, p, in, load, issued, filled, freed),
         Shape, AllInPlace, NEW n0, NEW a0, NEW n1, NEW a1, InStep(n0, a0, n1, a1),
         NEW w \in Warps(launch), pc[w] \in {"first", "next"}, StageFull(w)
  PROVE  w \in own[p[w]] /\ p[w] < filled[Place(p[w])]
<1>. DEFINE K == launch.kTiles  S == launch.stages  e == warp[w].executed
            c == warp[w].pipe.count  y == p[w] - S
<1>1. launch \in PingLaunches /\ InPlace(w) /\ w \in Within(MainLoop)
  BY DEF Shape, AllInPlace, Within, MainLoop
<1>2. /\ K \in Nat /\ K > 0 /\ S \in Nat /\ S > 0 /\ e \in Nat /\ c \in 0 .. K - 1
      /\ K * e \in Nat /\ Base(w) = e
  BY <1>1, LaunchNumbers, PositionNat DEF InPlace, Within
<1>3. /\ p[w] = K * e + c /\ p[w] \in Nat /\ w \in own[p[w]] /\ p[w] = Position(w)
  <2>1. p[w] = Position(w)
    BY DEF Ghosts, Positions
  <2>. QED
    BY <1>1, <2>1, OwnTile DEF Ghosts
<1>4. Passes(full[Place(p[w])], Round(p[w]))
  <2>1. StandsAt(warp[w].pipe, p[w])
    BY <1>1, <1>3 DEF InPlace, PipePosition
  <2>. QED
    BY <2>1 DEF StageFull, StandsAt
<1>5. ASSUME p[w] >= S
      PROVE  \E v \in own[y] : y < p[v]
  <2>. DEFINE j == y \div K  r == y % K
  <2>1. y \in Nat /\ y < p[w]
    BY <1>2, <1>3, <1>5
  <2>2. j \in Nat /\ r \in 0 .. K - 1 /\ y = K * j + r /\ K * j \in Nat
    <3>. HIDE DEF K, y
    <3>1. j \in Nat /\ r \in 0 .. K - 1 /\ y = K * j + r
      BY <1>2, <2>1, Division
    <3>. HIDE DEF j, r
    <3>. QED
      BY <1>2, <3>1
  <2>3. own[y] = GroupOf(j % 2)
    BY <2>1 DEF Ghosts, Owners
  <2>4. e % 2 = w[1] /\ (w[1] = 0 \/ w[1] = 1)
    BY <1>1, <1>2, TilesOfGroup, WarpGroup
  <2>5. CASE j % 2 = w[1]
    <3>1. w \in own[y]
      BY <1>1, <2>3, <2>5, WarpGroup
    <3>. QED
      BY <2>1, <3>1
  <2>6. CASE j % 2 # w[1]
    <3>1. j # e
      BY <2>4, <2>6
    <3>2. ~ (e < j)
      <4>. HIDE DEF K, S, e, c, y, j, r
      <4>1. ASSUME e < j PROVE FALSE
        <5>1. K * e + K <= K * j
          BY <1>2, <2>2, <4>1, Multiples
        <5>. QED
          BY <1>2, <1>3, <2>1, <2>2, <5>1
      <4>. QED
        BY <4>1
    <3>3. j < e
      <4>. HIDE DEF K, S, e, c, y, j, r
      <4>. QED
        BY <1>2, <2>2, <3>1, <3>2
    <3>4. K * j + K <= K * e
      <4>. HIDE DEF K, S, e, c, y, j, r
      <4>. QED
        BY <1>2, <2>2, <3>3, Multiples
    <3>5. y < K * e
      <4>. HIDE DEF K, S, e, c, y, j, r
      <4>. QED
        BY <1>2, <2>2, <3>4
    <3>6. j % 2 \in Groups
      BY <2>2 DEF Groups
    <3>7. own[y] # {}
      BY <2>1, ConsumersExist DEF Ring
    <3>8. PICK v \in own[y] : TRUE
      BY <3>7
    <3>9. v \in Warps(launch) /\ v[1] = j % 2
      BY <2>3, <3>8 DEF GroupOf
    <3>10. Base(v) > e /\ Base(v) \in Nat /\ p[v] = Position(v)
           /\ Position(v) \in Nat /\ Position(v) >= K * Base(v)
      <4>1. Base(v) > Base(w)
        BY <1>1, <2>6, <3>9, OthersPast
      <4>2. InPlace(v)
        BY <3>9 DEF AllInPlace
      <4>3. p[v] = Position(v)
        BY <3>9 DEF Ghosts, Positions
      <4>. QED
        BY <1>1, <1>2, <3>9, <4>1, <4>2, <4>3, PositionNat
    <3>11. K * e + K <= K * Base(v) /\ K * Base(v) \in Nat
      <4>. DEFINE b == Base(v)
      <4>1. b \in Nat /\ e < b
        BY <1>2, <3>10
      <4>. HIDE DEF K, e, b
      <4>2. K * e + K <= K * b /\ K * b \in Nat
        BY <1>2, <4>1, Multiples
      <4>. QED
        BY <4>2 DEF b
    <3>12. y < p[v]
      <4>. HIDE DEF K, S, e, c, y, j, r
      <4>. QED
        BY <1>2, <2>1, <3>5, <3>10, <3>11
    <3>. QED
      BY <3>8, <3>12
  <2>. QED
    BY <2>5, <2>6
<1>. HIDE DEF K, S, e, c
<1>6. p[w] < filled[Place(p[w])]
  BY <1>3, <1>4, <1>5, WaitSeesTile DEF S
<1>. QED
  BY <1>3, <1>6

(***************************************************************************)
(* The invariant of the kernel and its steps.                              *)
(***************************************************************************)
\* Outside of its epilogue a warp has no store that is still to be read.
Drained ==
    /\ DOMAIN stores = Warps(launch)
    /\ \A w \in Warps(launch) :
         /\ stores[w] \in Seq([buf : Nat, tile : Nat, epi : Nat, read : BOOLEAN])
         /\ pc[w] \notin Epilogue => AtMostUnread(w, 0)

PingBasics == OrderInv /\ RegisterShape /\ AllInPlace

\* The steps of a warp that wait for nothing of the ring and give nothing back.
LEMMA RingStillStep ==
  ASSUME PingBasics, PingRing, NEW w \in Warps(launch),
         \/ StartTile(w) \/ ExitLoop(w) \/ CopyThenMultiply(w)
         \/ EnterEpilogue(w) \/ SyncBeforeWrite(w) \/ WriteSlice(w)
         \/ StoreSlice(w) \/ AcquireBuffer(w) \/ FinishTile(w)
  PROVE  PingRing'
<1>1. Shape /\ RegisterShape /\ AllInPlace
  BY DEF PingBasics, OrderInv
<1>2. PICK own, src, n, p, in, load, issued, filled, freed :
         Ghosts(own, src, n, p, in) /\ Ring(own, src, n, p, in, load, issued, filled, freed)
  BY DEF PingRing
<1>3. UNCHANGED RingVars
  BY DEF RingVars, StartTile, ExitLoop, CopyThenMultiply, EnterEpilogue, SyncBeforeWrite,
         WriteSlice, StoreSlice, AcquireBuffer, FinishTile, UnchangedInLoop,
         UnchangedButWarp
<1>4. \A v \in Warps(launch) : Position(v)' = Position(v)
  BY <1>1, StillStep
<1>5. \A v \in Holders' : v \in Holders
  <2>1. launch' = launch /\ pc \in [Warps(launch) -> Places]
    BY <1>1, <1>3 DEF RingVars, Shape
  <2>2. CASE StartTile(w) \/ ExitLoop(w) \/ CopyThenMultiply(w) \/ EnterEpilogue(w)
             \/ StoreSlice(w) \/ AcquireBuffer(w) \/ FinishTile(w)
    <3>1. PICK to : /\ pc' = [pc EXCEPT ![w] = to]
                    /\ to \in {"block", "release"} => pc[w] = "block"
      BY <2>2 DEF StartTile, ExitLoop, CopyThenMultiply, EnterEpilogue, StoreSlice,
                  AcquireBuffer, FinishTile, Go, SliceDone
    <3>. QED
      BY <2>1, <3>1 DEF Holders, Within
  <2>3. CASE SyncBeforeWrite(w) \/ WriteSlice(w)
    <3>1. \A v \in Warps(launch) :
            pc'[v] = pc[v] \/ (pc[v] \in Epilogue /\ pc'[v] \in Epilogue)
      BY <1>1, <2>3, SyncControl
    <3>. QED
      BY <2>1, <3>1 DEF Holders, Within, Epilogue
  <2>. QED
    BY <2>2, <2>3
<1>6. in = Holders
  BY <1>2 DEF Ghosts
<1>. QED
  BY <1>2, <1>3, <1>4, <1>5, <1>6, RingStill

\* The two waits of the main loop.
LEMMA RingWaitStep ==
  ASSUME PingBasics, PingRing, NEW w \in Warps(launch), FirstBlock(w) \/ NextStage(w)
  PROVE  PingRing'
<1>1. Shape /\ RegisterShape /\ AllInPlace
  BY DEF PingBasics, OrderInv
<1>2. PICK own, src, n, p, in, load, issued, filled, freed :
         Ghosts(own, src, n, p, in) /\ Ring(own, src, n, p, in, load, issued, filled, freed)
  BY DEF PingRing
<1>3. PICK n0, a0, n1, a1 : InStep(n0, a0, n1, a1)
  BY DEF PingBasics, OrderInv
<1>4. UNCHANGED RingVars /\ pc[w] \in {"first", "next"} /\ StageFull(w)
  BY DEF RingVars, FirstBlock, NextStage, UnchangedInLoop, UnchangedButWarp
<1>5. w \in own[p[w]] /\ p[w] < filled[Place(p[w])]
  BY <1>1, <1>2, <1>3, <1>4, WaitIsRight
<1>6. \A v \in Warps(launch) : Position(v)' = Position(v)
  BY <1>1, StillStep
<1>7. \A v \in Holders' : v \in Holders \/ v = w
  <2>1. launch' = launch /\ pc \in [Warps(launch) -> Places]
    BY <1>1, <1>4 DEF RingVars, Shape
  <2>2. \A v \in Warps(launch) : v # w => pc'[v] = pc[v]
    BY <2>1 DEF FirstBlock, NextStage, Go
  <2>. QED
    BY <2>1, <2>2 DEF Holders, Within
<1>8. in = Holders
  BY <1>2 DEF Ghosts
<1>. QED
  BY <1>2, <1>4, <1>5, <1>6, <1>7, <1>8, RingStill

\* Giving a stage back.
LEMMA RingReleaseStep ==
  ASSUME PingBasics, PingRing, NEW w \in Warps(launch), ReleaseStage(w)
  PROVE  AllInPlace' /\ PingRing'
<1>1. Shape /\ RegisterShape /\ AllInPlace /\ InPlace(w) /\ launch \in PingLaunches
  BY DEF PingBasics, OrderInv, Shape, AllInPlace
<1>2. PICK own, src, n, p, in, load, issued, filled, freed :
         Ghosts(own, src, n, p, in) /\ Ring(own, src, n, p, in, load, issued, filled, freed)
  BY DEF PingRing
<1>3. PICK n0, a0, n1, a1 : InStep(n0, a0, n1, a1)
  BY DEF PingBasics, OrderInv
<1>. DEFINE K == launch.kTiles  e == warp[w].executed  c == warp[w].pipe.count
            x == Position(w)
<1>4. /\ UNCHANGED <<launch, loader, full, inflight, smem>>
      /\ empty' = [empty EXCEPT ![warp[w].pipe.index] = Arrived(@, w, launch.warps)]
      /\ pc[w] = "release" /\ pc \in [Warps(launch) -> Places]
      /\ pc' = [pc EXCEPT ![w] = IF c + 1 = K THEN "last" ELSE "next"]
  BY <1>1 DEF ReleaseStage, Go, UnchangedInLoop, UnchangedButWarp, Shape
<1>5. /\ OthersKept(w) /\ warp'[w].executed = warp[w].executed
      /\ warp'[w].pipe = Advanced(warp[w].pipe)
      /\ warp'[w].blk = warp[w].blk /\ warp'[w].epi = warp[w].epi
  BY <1>1, ReleaseRegisters
<1>6. /\ x = K * e + c /\ x \in Nat /\ w \in Owners[x] /\ c \in 0 .. K - 1
      /\ K * e \in Nat /\ K \in Nat /\ e \in Nat
  <2>1. x = K * e + c /\ x \in Nat /\ w \in Owners[x]
    BY <1>1, <1>3, <1>4, OwnTile
  <2>2. c \in 0 .. K - 1 /\ K \in Nat /\ e \in Nat
    BY <1>1, <1>4, LaunchNumbers DEF InPlace
  <2>3. K * e \in Nat
    BY <2>2
  <2>. QED
    BY <2>1, <2>2, <2>3
<1>7. StandsAt(warp[w].pipe, x)
  BY <1>1, <1>4 DEF InPlace, PipePosition
<1>8. StandsAt(warp'[w].pipe, x + 1) /\ warp'[w].pipe.count = c + 1
  BY <1>1, <1>5, <1>6, <1>7, AdvancedState, LaunchNumbers
<1>9. pc'[w] = (IF c + 1 = K THEN "last" ELSE "next")
      /\ \A v \in Warps(launch) : v # w => pc'[v] = pc[v]
  BY <1>4
<1>10. Position(w)' = x + 1 /\ PipePosition(w)' = x + 1
  <2>1. Position(w)' = K * (e + 0) + (c + 1) /\ PipePosition(w)' = Position(w)'
    BY <1>4, <1>5, <1>8, <1>9 DEF Position, PipePosition, Base, MainLoop, Late, Epilogue
  <2>. QED
    BY <1>6, <2>1
<1>11. InPlace(w)'
  <2>1. /\ LastBlock' = LastBlock
        /\ \A y : Place(y)' = Place(y) /\ Round(y)' = Round(y) /\ Valid(y)' = Valid(y)
    BY <1>4 DEF LastBlock, Place, Round, Valid, Linear
  <2>. HIDE DEF x
  <2>. QED
    BY <1>1, <1>4, <1>5, <1>6, <1>8, <1>9, <1>10, <2>1 DEF InPlace, StandsAt
<1>12. \A v \in Warps(launch) : v # w => InPlace(v)' /\ Position(v)' = Position(v)
  BY <1>1, <1>4, <1>5, <1>9, Unmoved DEF OthersKept, AllInPlace
<1>13. AllInPlace'
  BY <1>4, <1>11, <1>12 DEF AllInPlace
<1>14. in = Holders /\ p = Positions /\ n = launch.warps /\ own = Owners /\ src = Contents
  BY <1>2 DEF Ghosts
<1>15. w \in in
  BY <1>4, <1>14 DEF Holders, Within
<1>16. p[w] = x /\ empty' = [empty EXCEPT ![Place(p[w])] = Arrived(@, w, n)]
  BY <1>4, <1>7, <1>14 DEF Positions, StandsAt
<1>17. PICK p2 : p2 = [p EXCEPT ![w] = @ + 1]
  OBVIOUS
<1>18. PICK freed2 : Ring(own, src, n, p2, in \ {w}, load, issued, filled, freed2)'
  BY <1>2, <1>4, <1>15, <1>16, <1>17, RingRelease
<1>19. Positions' = p2
  <2>1. \A v \in Warps(launch) : Position(v)' = IF v = w THEN Position(w) + 1 ELSE Position(v)
    BY <1>10, <1>12
  <2>. HIDE DEF x
  <2>2. p = [v \in Warps(launch) |-> Position(v)]
    BY <1>14 DEF Positions
  <2>3. Positions' = [v \in Warps(launch) |-> Position(v)']
    BY <1>4 DEF Positions
  <2>. QED
    BY <1>17, <2>1, <2>2, <2>3
<1>20. Holders' = Holders \ {w}
  BY <1>4, <1>9 DEF Holders, Within
<1>21. Owners' = Owners /\ Contents' = Contents
  BY <1>4 DEF Owners, GroupOf, Contents, Content, Source, Linear, TileM, TileN
<1>22. Ghosts(own, src, n, p2, in \ {w})'
  BY <1>4, <1>14, <1>19, <1>20, <1>21 DEF Ghosts
<1>. QED
  BY <1>13, <1>18, <1>22 DEF PingRing

\* Handing over the main loop: the k tiles of the next output tile are not the
\* group's.
LEMMA RingSkipStep ==
  ASSUME PingBasics, PingRing, NEW w \in Warps(launch), LeaveMainLoop(w)
  PROVE  AllInPlace' /\ PingRing'
<1>1. Shape /\ RegisterShape /\ AllInPlace /\ InPlace(w) /\ launch \in PingLaunches
  BY DEF PingBasics, OrderInv, Shape, AllInPlace
<1>2. PICK own, src, n, p, in, load, issued, filled, freed :
         Ghosts(own, src, n, p, in) /\ Ring(own, src, n, p, in, load, issued, filled, freed)
  BY DEF PingRing
<1>3. PICK n0, a0, n1, a1 : InStep(n0, a0, n1, a1)
  BY DEF PingBasics, OrderInv
<1>. DEFINE K == launch.kTiles  e == warp[w].executed  x == Position(w)
            y == K * (e + 2)
<1>4. /\ UNCHANGED RingVars /\ launch' = launch
      /\ pc[w] = "last" /\ pc \in [Warps(launch) -> Places]
      /\ pc' = [pc EXCEPT ![w] = "cross"]
  BY <1>1 DEF LeaveMainLoop, Go, UnchangedButWarp, Shape, RingVars
<1>5. /\ OthersKept(w) /\ warp'[w].executed = warp[w].executed
      /\ warp'[w].pipe = warp[w].pipe
      /\ warp'[w].blk = warp[w].blk /\ warp'[w].epi = warp[w].epi
  BY <1>1, LeaveMainLoopRegisters
<1>6. /\ K \in Nat /\ K > 0 /\ e \in Nat /\ warp[w].pipe.count = K
      /\ K * e \in Nat /\ K * (e + 1) = K * e + K /\ y = K * e + K + K
      /\ K * (e + 1) \in Nat /\ y \in Nat
  BY <1>1, <1>4, LaunchNumbers DEF InPlace
<1>7. x = K * (e + 1) /\ PipePosition(w) = x
  <2>1. x = K * (e + 0) + K /\ PipePosition(w) = x
    BY <1>4, <1>6 DEF Position, PipePosition, Base, MainLoop, Late, Epilogue
  <2>. QED
    BY <1>6, <2>1
<1>8. Position(w)' = y /\ PipePosition(w)' = x
  <2>1. Position(w)' = y + 0 /\ PipePosition(w)' = K * (e + 1)
    BY <1>4, <1>5 DEF Position, PipePosition, Base, MainLoop, Late, Epilogue
  <2>. QED
    BY <1>6, <1>7, <2>1
<1>9. InPlace(w)'
  <2>1. /\ LastBlock' = LastBlock
        /\ \A t : Place(t)' = Place(t) /\ Round(t)' = Round(t) /\ Valid(t)' = Valid(t)
    BY <1>4 DEF LastBlock, Place, Round, Valid, Linear
  <2>2. pc'[w] = "cross"
    BY <1>4
  <2>. HIDE DEF x
  <2>. QED
    BY <1>1, <1>4, <1>5, <1>7, <1>8, <2>1, <2>2 DEF InPlace, StandsAt
<1>10. \A v \in Warps(launch) : v # w => InPlace(v)' /\ Position(v)' = Position(v)
  BY <1>1, <1>4, <1>5, Unmoved DEF OthersKept, AllInPlace
<1>11. AllInPlace'
  BY <1>4, <1>9, <1>10 DEF AllInPlace
<1>12. in = Holders /\ p = Positions /\ n = launch.warps /\ own = Owners /\ src = Contents
  BY <1>2 DEF Ghosts
<1>13. w \notin in /\ p[w] = x /\ p[w] <= y
  BY <1>4, <1>6, <1>7, <1>12 DEF Holders, Within, Positions
<1>14. ASSUME NEW z \in Nat, p[w] <= z, z < y
       PROVE  w \notin own[z]
  <2>1. z = K * (e + 1) + (z - x) /\ z - x \in Nat /\ z - x < K
    BY <1>6, <1>7, <1>13, <1>14
  <2>2. e + 1 \in Nat
    BY <1>6
  <2>3. z \div K = e + 1
    <3>. HIDE DEF K, e, x
    <3>1. PICK r : r = z - x
      OBVIOUS
    <3>2. PICK q : q = e + 1
      OBVIOUS
    <3>3. (K * q + r) \div K = q
      BY <1>6, <2>1, <2>2, <3>1, <3>2, Quotient
    <3>. QED
      BY <2>1, <3>1, <3>2, <3>3
  <2>4. e % 2 = w[1]
    <3>1. Base(w) = e
      BY <1>1, <1>4, PositionNat DEF MainLoop
    <3>. QED
      BY <1>1, <1>3, <3>1, TilesOfGroup
  <2>5. (e + 1) % 2 # w[1]
    BY <1>6, <2>4
  <2>6. own[z] = GroupOf((e + 1) % 2)
    BY <1>12, <2>3 DEF Owners
  <2>. QED
    BY <2>5, <2>6 DEF GroupOf
<1>15. PICK p2 : p2 = [p EXCEPT ![w] = y]
  OBVIOUS
<1>16. Ring(own, src, n, p2, in, load, issued, filled, freed)'
  <2>1. PICK u \in Nat : u = y
    BY <1>6
  <2>2. p2 = [p EXCEPT ![w] = u]
    BY <1>15, <2>1
  <2>. QED
    BY <1>2, <1>4, <1>13, <1>14, <2>1, <2>2, RingSkip
<1>17. Positions' = p2
  <2>1. \A v \in Warps(launch) : Position(v)' = IF v = w THEN y ELSE Position(v)
    BY <1>8, <1>10
  <2>. HIDE DEF x, y
  <2>2. p = [v \in Warps(launch) |-> Position(v)]
    BY <1>12 DEF Positions
  <2>3. Positions' = [v \in Warps(launch) |-> Position(v)']
    BY <1>4 DEF Positions
  <2>. QED
    BY <1>15, <2>1, <2>2, <2>3
<1>18. Holders' = Holders
  BY <1>4 DEF Holders, Within
<1>19. Owners' = Owners /\ Contents' = Contents
  BY <1>4 DEF Owners, GroupOf, Contents, Content, Source, Linear, TileM, TileN
<1>20. Ghosts(own, src, n, p2, in)'
  BY <1>4, <1>12, <1>17, <1>18, <1>19 DEF Ghosts
<1>. QED
  BY <1>11, <1>16, <1>20 DEF PingRing

\* The loader and the TMA engine.
LEMMA RingOthersStep ==
  ASSUME PingBasics, PingRing, OthersMove
  PROVE  AllInPlace' /\ PingRing'
<1>1. Shape /\ RegisterShape /\ AllInPlace /\ launch \in PingLaunches
  BY DEF PingBasics, OrderInv, Shape
<1>2. PICK own, src, n, p, in, load, issued, filled, freed :
         Ghosts(own, src, n, p, in) /\ Ring(own, src, n, p, in, load, issued, filled, freed)
  BY DEF PingRing
<1>3. UNCHANGED <<launch, pc, warp>>
  BY <1>1, OthersRegisters
<1>4. \A v \in Warps(launch) : InPlace(v)' /\ Position(v)' = Position(v)
  BY <1>1, <1>3, Unmoved DEF AllInPlace
<1>5. AllInPlace'
  BY <1>3, <1>4 DEF AllInPlace
<1>6. Ghosts(own, src, n, p, in)'
  <2>1. Owners' = Owners /\ Contents' = Contents
    BY <1>3 DEF Owners, GroupOf, Contents, Content, Source, Linear, TileM, TileN
  <2>2. Positions' = Positions /\ Holders' = Holders
    BY <1>3, <1>4 DEF Positions, Holders, Within
  <2>. QED
    BY <1>2, <1>3, <2>1, <2>2 DEF Ghosts
<1>7. CASE UNCHANGED vars \/ \E w \in Warps(launch) : \E i \in DOMAIN stores[w] : ReadStore(w, i)
  <2>1. UNCHANGED RingVars
    BY <1>7 DEF vars, RingVars, ReadStore
  <2>2. in \in SUBSET Warps(launch)
    BY <1>2 DEF Ghosts, Holders, Within
  <2>3. Ring(own, src, n, p, in, load, issued, filled, freed)'
    BY <1>2, <2>1, <2>2, RingQuiet
  <2>. QED
    BY <1>5, <1>6, <2>3 DEF PingRing
<1>8. CASE LoadStage
  <2>. DEFINE K == launch.kTiles  e == loader.executed  c == loader.pipe.count
              t == Linear(e)
  <2>1. /\ load \in Nat /\ e \in Nat /\ c \in Nat /\ c < K /\ K \in Nat /\ K > 0
        /\ load = K * e + c
    BY <1>1, <1>2, LaunchNumbers DEF Ring, LoaderAt
  <2>2. load \div K = e /\ load % K = c
    <3>. HIDE DEF K, e, c
    <3>. QED
      BY <2>1, Quotient
  <2>3. PICK tn : tn = launch.map[TileN(t) + 1]
    OBVIOUS
  <2>4. LoadFrom(tn)
    BY <1>8, <2>3 DEF LoadStage
  <2>5. src[load] = Content(t, c)
    BY <1>2, <2>1, <2>2 DEF Ghosts, Contents
  <2>6. \A op \in Operands : src[load][op] = Source(op, t, c, tn)
    BY <2>3, <2>5 DEF Content
  <2>7. \E issued2 : Ring(own, src, n, p, in, load + 1, issued2, filled, freed)'
    BY <1>2, <2>4, <2>6, RingLoad
  <2>. QED
    BY <1>5, <1>6, <2>7 DEF PingRing
<1>9. CASE LoaderTail
  <2>1. Ring(own, src, n, p, in, load, issued, filled, freed)'
    BY <1>2, <1>9, RingDrain DEF LoaderTail
  <2>. QED
    BY <1>5, <1>6, <2>1 DEF PingRing
<1>10. CASE \E x \in inflight : Land(x)
  <2>1. PICK x \in inflight : Land(x)
    BY <1>10
  <2>2. /\ UNCHANGED <<launch, loader, empty>>
        /\ inflight' = inflight \ {x}
        /\ smem' = [smem EXCEPT ![x.stage][x.op] = x.src]
        /\ full' = [full EXCEPT ![x.stage] = Landed(@)]
    BY <2>1 DEF Land
  <2>3. \E filled2 : Ring(own, src, n, p, in, load, issued, filled2, freed)'
    BY <1>2, <2>2, RingLand
  <2>. QED
    BY <1>5, <1>6, <2>3 DEF PingRing
<1>. QED
  BY <1>7, <1>8, <1>9, <1>10 DEF OthersMove

\* Group 0 starts at the first tile, group 1 at the second.
LEMMA RingPingInit == PingInit => AllInPlace /\ PingRing
<1>. SUFFICES ASSUME PingInit PROVE AllInPlace /\ PingRing
  OBVIOUS
<1>. DEFINE K == launch.kTiles
<1>1. /\ launch \in PingLaunches /\ pc = [w \in Warps(launch) |-> "start"]
      /\ warp = FreshPingWarps(launch)
  BY DEF PingInit, FreshMachine
<1>2. /\ launch.stages \in Nat /\ launch.stages > 0 /\ K \in Nat /\ K > 0
      /\ launch.warps \in Nat /\ launch.warps > 0
      /\ LastBlock \in Nat
      /\ launch.epiTiles \in Nat /\ launch.epiTiles > 0
  BY <1>1, LaunchNumbers
<1>3. StandsAt(PipeState(0), 0) /\ PipeState(0).count = 0
  <2>1. 0 = launch.stages * 0 + 0 /\ 0 % 2 = 0
    BY <1>2
  <2>2. 0 \div launch.stages = 0 /\ 0 % launch.stages = 0
    BY <1>2, <2>1, Quotient
  <2>. QED
    BY <2>1, <2>2 DEF StandsAt, PipeState, Place, Round
<1>4. StandsAt(SkipTile(launch, PipeState(0)), 0 + K)
  BY <1>1, <1>3, SkippedState
<1>5. ASSUME NEW w \in Warps(launch)
      PROVE  InPlace(w) /\ Position(w) = K * w[1]
  <2>1. w[1] = 0 \/ w[1] = 1
    BY <1>1, WarpGroup
  <2>2. /\ pc[w] = "start" /\ warp[w].executed = w[1]
        /\ warp[w].pipe = IF w[1] = 1 THEN SkipTile(launch, PipeState(0)) ELSE PipeState(0)
        /\ warp[w].blk = 0 /\ warp[w].epi = 0
    BY <1>1 DEF FreshPingWarps, FreshPingWarp
  <2>3. Position(w) = K * (w[1] + 0) + 0 /\ PipePosition(w) = Position(w)
    BY <2>2 DEF Position, PipePosition, Base, MainLoop, Late, Epilogue
  <2>4. Position(w) = K * w[1] /\ Position(w) = IF w[1] = 1 THEN 0 + K ELSE 0
    BY <1>2, <2>1, <2>3
  <2>5. StandsAt(warp[w].pipe, PipePosition(w))
    BY <1>3, <1>4, <2>1, <2>2, <2>3, <2>4
  <2>. QED
    BY <1>2, <2>1, <2>2, <2>4, <2>5 DEF InPlace
<1>6. PICK own, src, n, p, in : Ghosts(own, src, n, p, in)
  BY DEF Ghosts
<1>7. in = {} /\ p = [w \in Warps(launch) |-> Position(w)] /\ n = launch.warps /\ own = Owners
  BY <1>1, <1>6 DEF Ghosts, Holders, Within, Positions
<1>8. Shares(own, n)
  <2>1. \A x \in Nat : x \div K \in Nat
    BY <1>2, Division
  <2>2. \A x \in Nat : (x \div K) % 2 \in Groups
    <3>1. \A q \in Nat : q % 2 \in Groups
      BY DEF Groups
    <3>. HIDE DEF K
    <3>. QED
      BY <2>1, <3>1
  <2>3. \A x \in Nat : own[x] = GroupOf((x \div K) % 2)
    BY <1>7 DEF Owners
  <2>4. own \in [Nat -> SUBSET Warps(launch)]
    BY <1>7 DEF Owners, GroupOf
  <2>. HIDE DEF K
  <2>5. \A x \in Nat : IsFiniteSet(own[x]) /\ Cardinality(own[x]) = n
    BY <1>1, <1>7, <2>2, <2>3, GroupSize
  <2>. QED
    BY <1>2, <1>7, <2>4, <2>5 DEF Shares
<1>9. \A w \in Warps(launch) : K * w[1] \in Nat
  <2>1. \A w \in Warps(launch) : w[1] = 0 \/ w[1] = 1
    BY <1>1, WarpGroup
  <2>. QED
    BY <1>2, <2>1
<1>10. p \in [Warps(launch) -> Nat]
  BY <1>5, <1>7, <1>9
<1>11. ASSUME NEW w \in Warps(launch), NEW x \in Nat, w \in own[x], x < p[w]
       PROVE  FALSE
  <2>1. w[1] = 0 \/ w[1] = 1
    BY <1>1, WarpGroup
  <2>2. p[w] = K * w[1]
    BY <1>5, <1>7
  <2>3. w[1] = 1 /\ x < K
    BY <1>2, <1>11, <2>1, <2>2
  <2>4. x = K * 0 + x
    BY <1>2
  <2>5. x \div K = 0 /\ 0 % 2 = 0
    BY <1>2, <2>3, <2>4, Quotient
  <2>6. own[x] = GroupOf(0)
    BY <1>7, <2>5 DEF Owners
  <2>. QED
    BY <1>11, <2>3, <2>6 DEF GroupOf
<1>12. \E load, issued, filled, freed : Ring(own, src, n, p, {}, load, issued, filled, freed)
  BY <1>2, <1>8, <1>10, <1>11, RingInit DEF PingInit, FreshMachine
<1>. QED
  BY <1>5, <1>6, <1>7, <1>12 DEF PingRing, AllInPlace

\* A store that is committed is one to be read.
LEMMA StoreKept ==
  ASSUME Shape, AllInPlace, Drained, NEW w \in Warps(launch), StoreSlice(w)
  PROVE  Drained'
<1>. DEFINE r == [buf |-> EpiBuffer(w), tile |-> Linear(warp[w].executed),
                  epi |-> warp[w].epi, read |-> FALSE]
            R == [buf : Nat, tile : Nat, epi : Nat, read : BOOLEAN]
<1>1. launch \in PingLaunches /\ InPlace(w) /\ pc \in [Warps(launch) -> Places]
  BY DEF Shape, AllInPlace
<1>2. /\ stores' = [stores EXCEPT ![w] = Append(stores[w], r)]
      /\ launch' = launch /\ pc' = [pc EXCEPT ![w] = "acquire"]
  BY DEF StoreSlice, UnchangedButWarp, Go
<1>3. r \in R
  <2>1. /\ launch.cta \in Nat /\ launch.grid \in Nat
        /\ launch.epiStages \in Nat /\ launch.epiStages > 0
    BY <1>1 DEF PingLaunches, Launches, Positive
  <2>2. warp[w].executed \in Nat /\ warp[w].epi \in Nat
    BY <1>1, LaunchNumbers DEF InPlace
  <2>3. Linear(warp[w].executed) \in Nat
    BY <2>1, <2>2 DEF Linear
  <2>4. EpiBuffer(w) \in Nat
    BY <2>1, <2>2, Division DEF EpiBuffer
  <2>. QED
    BY <2>2, <2>3, <2>4
<1>. HIDE DEF r
<1>4. DOMAIN stores = Warps(launch) /\ stores[w] \in Seq(R)
  BY DEF Drained
<1>5. Append(stores[w], r) \in Seq(R)
  BY <1>3, <1>4
<1>6. ASSUME NEW v \in Warps(launch)
      PROVE  stores'[v] \in Seq(R) /\ (pc'[v] \notin Epilogue => AtMostUnread(v, 0)')
  <2>1. CASE v = w
    BY <1>1, <1>2, <1>4, <1>5, <2>1 DEF Epilogue
  <2>2. CASE v # w
    <3>1. stores'[v] = stores[v] /\ pc'[v] = pc[v]
      BY <1>1, <1>2, <1>4, <2>2
    <3>. QED
      BY <3>1 DEF Drained, AtMostUnread
  <2>. QED
    BY <2>1, <2>2
<1>. QED
  BY <1>2, <1>4, <1>6 DEF Drained

\* A store that is read stays read.
LEMMA ReadKept ==
  ASSUME Drained, NEW w \in Warps(launch), NEW i \in DOMAIN stores[w], ReadStore(w, i)
  PROVE  Drained'
<1>. DEFINE R == [buf : Nat, tile : Nat, epi : Nat, read : BOOLEAN]
<1>1. stores' = [stores EXCEPT ![w][i].read = TRUE] /\ launch' = launch /\ pc' = pc
  BY DEF ReadStore
<1>2. DOMAIN stores = Warps(launch) /\ \A v \in Warps(launch) : stores[v] \in Seq(R)
  BY DEF Drained
<1>3. /\ \A v \in Warps(launch) : v # w => stores'[v] = stores[v]
      /\ stores'[w] = [stores[w] EXCEPT ![i].read = TRUE]
      /\ DOMAIN stores' = Warps(launch)
  BY <1>1, <1>2
<1>4. stores[w][i] \in R
  <2>. HIDE DEF R
  <2>1. stores[w] \in Seq(R)
    BY <1>2
  <2>. QED
    BY <2>1
<1>5. PICK r : r = [stores[w][i] EXCEPT !.read = TRUE]
  OBVIOUS
<1>6. r \in R /\ r.read = TRUE /\ stores'[w] = [stores[w] EXCEPT ![i] = r]
  <2>1. r \in R /\ r.read = TRUE
    BY <1>4, <1>5
  <2>2. stores'[w] = [stores[w] EXCEPT ![i] = r]
    BY <1>3, <1>5
  <2>. QED
    BY <2>1, <2>2
<1>7. stores'[w] \in Seq(R) /\ Len(stores'[w]) = Len(stores[w])
  BY <1>2, <1>6
<1>8. \A k \in DOMAIN stores[w] : stores[w][k].read => stores'[w][k].read
  BY <1>2, <1>6
<1>9. DOMAIN stores'[w] = DOMAIN stores[w]
  BY <1>6
<1>10. AtMostUnread(w, 0) => AtMostUnread(w, 0)'
  BY <1>7, <1>8, <1>9 DEF AtMostUnread
<1>11. \A v \in Warps(launch) : v # w => (AtMostUnread(v, 0) => AtMostUnread(v, 0)')
  BY <1>3 DEF AtMostUnread
<1>. QED
  BY <1>1, <1>2, <1>3, <1>7, <1>10, <1>11 DEF Drained

\* The other steps commit and read nothing; the one that leaves an epilogue has
\* waited for all its reads.
LEMMA DrainedStep ==
  ASSUME PingBasics, Drained, [PingNext]_vars
  PROVE  Drained'
<1>1. Shape /\ AllInPlace /\ pc \in [Warps(launch) -> Places]
  BY DEF PingBasics, OrderInv, Shape
<1>2. ASSUME stores' = stores, launch' = launch,
             \A v \in Warps(launch) : pc'[v] \notin Epilogue =>
                pc[v] \notin Epilogue \/ AtMostUnread(v, 0)
      PROVE  Drained'
  BY <1>2 DEF Drained, AtMostUnread
<1>3. ASSUME NEW w \in Warps(launch), PingWarp(w) PROVE Drained'
  <2>1. CASE StoreSlice(w)
    BY <1>1, <2>1, StoreKept
  <2>2. CASE SyncBeforeWrite(w) \/ WriteSlice(w)
    <3>1. /\ launch' = launch
          /\ \A v \in Warps(launch) :
                pc'[v] = pc[v] \/ (pc[v] \in Epilogue /\ pc'[v] \in Epilogue)
      BY <1>1, <2>2, SyncControl
    <3>2. stores' = stores
      BY <2>2 DEF SyncBeforeWrite, WriteSlice
    <3>. QED
      BY <1>2, <3>1, <3>2
  <2>3. CASE FinishTile(w)
    <3>1. /\ launch' = launch /\ stores' = stores /\ AtMostUnread(w, 0)
          /\ pc' = [pc EXCEPT ![w] = "start"]
      BY <2>3 DEF FinishTile, Go, UnchangedButWarp
    <3>. QED
      BY <1>1, <1>2, <3>1
  <2>4. CASE StartTile(w) \/ ExitLoop(w) \/ FirstBlock(w) \/ CopyThenMultiply(w)
             \/ ReleaseStage(w) \/ NextStage(w) \/ LeaveMainLoop(w) \/ EnterEpilogue(w)
             \/ AcquireBuffer(w)
    <3>1. PICK to : /\ launch' = launch /\ stores' = stores
                    /\ pc' = [pc EXCEPT ![w] = to]
                    /\ pc[w] \in Epilogue => to \in Epilogue
      BY <2>4 DEF StartTile, ExitLoop, FirstBlock, CopyThenMultiply, ReleaseStage, NextStage,
                  LeaveMainLoop, EnterEpilogue, AcquireBuffer, Go, UnchangedInLoop,
                  UnchangedButWarp, SliceDone, Epilogue
    <3>. QED
      BY <1>1, <1>2, <3>1
  <2>. QED
    BY <1>3, <2>1, <2>2, <2>3, <2>4 DEF PingWarp
<1>4. CASE \/ UNCHANGED vars \/ LoadStage \/ LoaderTail
           \/ \E x \in inflight : Land(x)
  <2>1. stores' = stores /\ launch' = launch /\ pc' = pc
    BY <1>4 DEF vars, LoadStage, LoadFrom, LoaderTail, DrainLoader, Land
  <2>. QED
    BY <1>2, <2>1
<1>5. ASSUME NEW w \in Warps(launch), NEW i \in DOMAIN stores[w], ReadStore(w, i)
      PROVE  Drained'
  BY <1>5, ReadKept
<1>. QED
  BY <1>3, <1>4, <1>5 DEF PingNext

PingInv == PingBasics /\ PingRing /\ Drained

\* The invariant holds at the start of the kernel.
LEMMA PingInvInit == PingInit => PingInv
<1>. SUFFICES ASSUME PingInit PROVE PingInv
  OBVIOUS
<1>1. Drained
  <2>1. launch \in PingLaunches /\ stores = [w \in Warps(launch) |-> <<>>]
    BY DEF PingInit, FreshMachine, FreshStores
  <2>. QED
    BY <2>1 DEF Drained, AtMostUnread
<1>. QED
  BY <1>1, OrderInit, RegistersInit, RingPingInit DEF PingInv, PingBasics

\* Every step of the kernel keeps the invariant.
LEMMA PingInvNext ==
  ASSUME PingInv, [PingNext]_vars
  PROVE  PingInv'
<1>1. PingBasics /\ PingRing /\ Drained
  BY DEF PingInv
<1>2. OrderInv' /\ RegisterShape'
  BY <1>1, OrderNext DEF PingBasics
<1>3. Drained'
  BY <1>1, DrainedStep
<1>4. ASSUME NEW w \in Warps(launch), PingWarp(w) PROVE AllInPlace' /\ PingRing'
  <2>1. CASE ReleaseStage(w)
    BY <1>1, <2>1, RingReleaseStep
  <2>2. CASE LeaveMainLoop(w)
    BY <1>1, <2>2, RingSkipStep
  <2>3. CASE FirstBlock(w) \/ NextStage(w)
    <3>1. AllInPlace'
      BY <1>1, <2>3, StillStep DEF PingBasics, OrderInv
    <3>. QED
      BY <1>1, <2>3, <3>1, RingWaitStep
  <2>4. CASE \/ StartTile(w) \/ ExitLoop(w) \/ CopyThenMultiply(w)
             \/ EnterEpilogue(w) \/ SyncBeforeWrite(w) \/ WriteSlice(w)
             \/ StoreSlice(w) \/ AcquireBuffer(w) \/ FinishTile(w)
    <3>1. AllInPlace'
      BY <1>1, <2>4, StillStep DEF PingBasics, OrderInv
    <3>. QED
      BY <1>1, <2>4, <3>1, RingStillStep
  <2>. QED
    BY <1>4, <2>1, <2>2, <2>3, <2>4 DEF PingWarp
<1>5. ASSUME OthersMove PROVE AllInPlace' /\ PingRing'
  BY <1>1, <1>5, RingOthersStep
<1>6. OthersMove \/ \E w \in Warps(launch) : PingWarp(w)
  BY DEF PingNext, OthersMove
<1>7. AllInPlace' /\ PingRing'
  BY <1>4, <1>5, <1>6
<1>. QED
  BY <1>2, <1>3, <1>7 DEF PingInv, PingBasics

\* A warp that owns a stage finds its own k tile there, whole, and no load into
\* the stage is under way.
LEMMA PingHeld ==
  ASSUME PingInv, NEW w \in Warps(launch), pc[w] \in {"block", "release"}
  PROVE  LET i == warp[w].pipe.index
         IN /\ smem[i] = Content(Linear(warp[w].executed), warp[w].pipe.count)
            /\ \A x \in inflight : x.stage # i
            /\ warp[w].executed \in Nat /\ Valid(warp[w].executed)
<1>1. Shape /\ InPlace(w)
  BY DEF PingInv, PingBasics, OrderInv, AllInPlace
<1>2. PICK n0, a0, n1, a1 : InStep(n0, a0, n1, a1)
  BY DEF PingInv, PingBasics, OrderInv
<1>3. PICK own, src, n, p, in, load, issued, filled, freed :
         Ghosts(own, src, n, p, in) /\ Ring(own, src, n, p, in, load, issued, filled, freed)
  BY DEF PingInv, PingRing
<1>4. w \in in /\ p[w] = Position(w) /\ src = Contents
  BY <1>3 DEF Ghosts, Holders, Within, Positions
<1>5. /\ Position(w) \in Nat
      /\ Position(w) \div launch.kTiles = warp[w].executed
      /\ Position(w) % launch.kTiles = warp[w].pipe.count
  BY <1>1, <1>2, OwnTile
<1>6. src[p[w]] = Content(Linear(warp[w].executed), warp[w].pipe.count)
  BY <1>4, <1>5 DEF Contents
<1>7. Place(p[w]) = warp[w].pipe.index
  BY <1>1, <1>4 DEF InPlace, PipePosition, StandsAt
<1>. DEFINE i == warp[w].pipe.index
<1>8. /\ i \in Stages(launch) /\ Pending(i) = {}
      /\ \A op \in Operands : smem[i][op] = src[p[w]][op]
  BY <1>3, <1>4, <1>7, HeldStage
<1>9. smem[i] = [op \in Operands |-> smem[i][op]]
  BY <1>3, <1>8 DEF Ring, RingShape
<1>10. smem[i] = src[p[w]]
  BY <1>6, <1>8, <1>9 DEF Content
<1>11. \A x \in inflight : x.stage # i
  BY <1>8 DEF Pending
<1>. QED
  BY <1>1, <1>6, <1>10, <1>11 DEF InPlace

\* Where the warps are, and what their registers can hold.
LEMMA PingTypes ==
  ASSUME PingInv
  PROVE  /\ bar \subseteq Warps(launch)
         /\ \A w \in Warps(launch) :
              /\ pc[w] \in {"start", "cross", "done"} \cup MainLoop \cup Epilogue
              /\ warp[w].pipe.index \in Stages(launch)
              /\ warp[w].pipe.phase \in {0, 1}
              /\ warp[w].blk \in 0 .. LastBlock
              /\ warp[w].epi \in 0 .. launch.epiTiles - 1
<1>1. Shape /\ AllInPlace /\ launch \in PingLaunches
  BY DEF PingInv, PingBasics, OrderInv, Shape
<1>2. RingShape
  BY DEF PingInv, PingRing, Ring
<1>3. ASSUME NEW w \in Warps(launch)
      PROVE  warp[w].pipe.index \in Stages(launch) /\ warp[w].pipe.phase \in {0, 1}
  <2>1. InPlace(w)
    BY <1>1 DEF AllInPlace
  <2>2. PipePosition(w) \in Nat
    <3>1. launch.kTiles \in Nat /\ warp[w].executed \in Nat /\ Position(w) \in Nat
      BY <1>1, <2>1, LaunchNumbers, PositionNat DEF InPlace
    <3>. QED
      BY <3>1 DEF PipePosition
  <2>. QED
    BY <1>2, <2>1, <2>2, PlaceOfTile DEF InPlace, StandsAt
<1>4. \A w \in Warps(launch) :
        warp[w].blk \in 0 .. LastBlock /\ warp[w].epi \in 0 .. launch.epiTiles - 1
  BY <1>1 DEF AllInPlace, InPlace
<1>. QED
  BY <1>1, <1>3, <1>4 DEF Shape, Places, Within

\* Groups in step are apart in both parts.
LEMMA OrderApart == OrderInv => OneGroupPerPart
<1>. SUFFICES ASSUME OrderInv, NEW v \in Warps(launch), NEW w \in Warps(launch),
                     v[1] # w[1]
              PROVE  /\ ~(pc[v] \in MainLoop /\ pc[w] \in MainLoop)
                     /\ ~(pc[v] \in Epilogue /\ pc[w] \in Epilogue)
  BY DEF OneGroupPerPart
<1>1. PICK n0, a0, n1, a1 : InStep(n0, a0, n1, a1)
  BY DEF OrderInv
<1>2. launch \in PingLaunches
  BY DEF OrderInv, Shape
<1>3. ~(v \in Within(MainLoop) /\ w \in Within(MainLoop))
  <2>1. Within(MainLoop) \in SUBSET Warps(launch)
    BY DEF Within
  <2>. QED
    BY <1>1, <1>2, <2>1, Apart DEF InStep
<1>4. ~(v \in Within(Epilogue) /\ w \in Within(Epilogue))
  <2>1. Within(Epilogue) \in SUBSET Warps(launch)
    BY DEF Within
  <2>. QED
    BY <1>1, <1>2, <2>1, Apart DEF InStep
<1>. QED
  BY <1>3, <1>4 DEF Within

\* The parity of the order barrier is enough: for every number of warps in a
\* group, of tiles, k tiles, stages and slices, no two warps of different
\* groups are ever both in the main loop or both in the epilogue of the
\* ping-pong kernel.
THEOREM GroupsTakeTurns == PingSpec => []OneGroupPerPart
<1>1. PingInit => OrderInv /\ RegisterShape
  BY OrderInit, RegistersInit
<1>2. (OrderInv /\ RegisterShape) /\ [PingNext]_vars => (OrderInv /\ RegisterShape)'
  BY OrderNext
<1>. QED
  BY <1>1, <1>2, OrderApart, PTL DEF PingSpec

(***************************************************************************)
(* What a warp takes to the epilogue: the sum of all blocks of all k tiles *)
(* of its output tile.  The next block is copied before this one is        *)
(* multiplied, so a k tile of one block would lose it to the first block   *)
(* of the next: the proof is for two blocks at least.                      *)
(***************************************************************************)
TileAt(t) == [k \in Nat |-> Content(t, k)]

PingSums == \A w \in Warps(launch) : Summed(w, TileAt(Linear(warp[w].executed)))

TwoBlocks == launch.kBlocks >= 2

LEMMA PingBlocks ==
  ASSUME launch \in PingLaunches
  PROVE  BlockNumbers
BY DEF PingLaunches, Launches, Positive, BlockNumbers

\* The tile a sum is of, in the next state.
LEMMA SumsThen ==
  ASSUME launch' = launch, NEW v, NEW f, f = TileAt(Linear(warp'[v].executed)), Summed(v, f)'
  PROVE  Summed(v, TileAt(Linear(warp[v].executed)))'
<1>1. TileAt(Linear(warp[v].executed))' = f
  BY DEF TileAt, Content, Source, TileM, TileN, Linear
<1>. QED
  BY <1>1 DEF Summed, Partial, Sum, Piece

LEMMA StageHeld ==
  PingInv => \A w \in Warps(launch) : pc[w] \in {"block", "release"} =>
     smem[warp[w].pipe.index] = Content(Linear(warp[w].executed), warp[w].pipe.count)
BY PingHeld

LEMMA StageHeldThen ==
  PingInv' => (\A w \in Warps(launch) : pc[w] \in {"block", "release"} =>
     smem[warp[w].pipe.index] = Content(Linear(warp[w].executed), warp[w].pipe.count))'
BY StageHeld, PTL

\* The stage a wait has seen.
LEMMA StageSeen ==
  ASSUME PingInv', NEW w \in Warps(launch), FirstBlock(w) \/ NextStage(w),
         RegisterShape, pc \in [Warps(launch) -> Places],
         NEW f, f = TileAt(Linear(warp[w].executed)), warp[w].pipe.count \in Nat
  PROVE  smem[warp[w].pipe.index] = f[warp[w].pipe.count]
<1>1. /\ launch' = launch /\ smem' = smem /\ pc' = [pc EXCEPT ![w] = AtBlock(0)]
  BY DEF FirstBlock, NextStage, UnchangedInLoop, UnchangedButWarp, Go
<1>2. warp'[w].pipe = warp[w].pipe /\ warp'[w].executed = warp[w].executed
  BY FirstBlockRegisters, NextStageRegisters
<1>3. pc'[w] \in {"block", "release"} /\ w \in Warps(launch)'
  BY <1>1 DEF AtBlock
<1>4. smem'[warp'[w].pipe.index] =
         Content(Linear(warp[w].executed), warp[w].pipe.count)'
  BY <1>3, StageHeldThen
<1>5. Content(Linear(warp[w].executed), warp[w].pipe.count)' =
         Content(Linear(warp[w].executed), warp[w].pipe.count)
  BY <1>1, <1>2 DEF Content, Source, TileM, TileN, Linear
<1>. QED
  BY <1>1, <1>2, <1>4, <1>5 DEF TileAt

\* Every step of a warp keeps every warp's sum right.
LEMMA SumsOfWarp ==
  ASSUME PingInv, PingInv', PingSums, TwoBlocks, NEW w \in Warps(launch), PingWarp(w)
  PROVE  PingSums'
<1>1. /\ Shape /\ RegisterShape /\ InPlace(w) /\ pc \in [Warps(launch) -> Places]
      /\ launch \in PingLaunches
  BY DEF PingInv, PingBasics, OrderInv, AllInPlace, Shape
<1>2. launch' = launch
  BY DEF PingWarp, StartTile, ExitLoop, FirstBlock, CopyThenMultiply, ReleaseStage,
         NextStage, LeaveMainLoop, EnterEpilogue, SyncBeforeWrite, WriteSlice,
         StoreSlice, AcquireBuffer, FinishTile, UnchangedInLoop, UnchangedButWarp
<1>3. BlockNumbers /\ LastBlock \in Nat /\ LastBlock # 0
  BY <1>1, PingBlocks DEF TwoBlocks, BlockNumbers, LastBlock
<1>4. PICK f : f = TileAt(Linear(warp[w].executed))
  OBVIOUS
<1>5. Summed(w, f)
  BY <1>4 DEF PingSums
<1>6. ASSUME \A v \in Warps(launch) : v # w => pc'[v] = pc[v] /\ warp'[v] = warp[v],
             Summed(w, f)', warp'[w].executed = warp[w].executed
      PROVE  PingSums'
  <2>1. ASSUME NEW v \in Warps(launch), v # w
        PROVE  Summed(v, TileAt(Linear(warp[v].executed)))'
    <3>1. PICK g : g = TileAt(Linear(warp[v].executed))
      OBVIOUS
    <3>2. Summed(v, g) /\ pc'[v] = pc[v] /\ warp'[v] = warp[v]
      BY <1>6, <2>1, <3>1 DEF PingSums
    <3>3. Summed(v, g)'
      BY <1>2, <3>2, SummedStill
    <3>. QED
      BY <1>2, <3>1, <3>2, <3>3, SumsThen
  <2>2. Summed(w, TileAt(Linear(warp[w].executed)))'
    BY <1>2, <1>4, <1>6, SumsThen
  <2>. QED
    BY <1>2, <2>1, <2>2 DEF PingSums
<1>7. ASSUME NEW to, pc' = [pc EXCEPT ![w] = to], OthersKept(w)
      PROVE  /\ pc'[w] = to
             /\ \A v \in Warps(launch) : v # w => pc'[v] = pc[v] /\ warp'[v] = warp[v]
  BY <1>1, <1>7 DEF OthersKept
<1>8. CASE StartTile(w)
  <2>1. /\ OthersKept(w) /\ warp'[w].executed = warp[w].executed
        /\ warp'[w].acc = <<>> /\ warp'[w].pipe.count = 0
    BY <1>1, <1>8, StartTileRegisters
  <2>2. pc' = [pc EXCEPT ![w] = "first"]
    BY <1>8 DEF StartTile, Go
  <2>3. pc'[w] = "first"
    BY <1>7, <2>1, <2>2
  <2>4. Summed(w, f)'
    BY <2>1, <2>3 DEF Summed, Slicing
  <2>. QED
    BY <1>6, <1>7, <2>1, <2>2, <2>4
<1>9. CASE ExitLoop(w)
  <2>1. pc' = [pc EXCEPT ![w] = "done"] /\ warp' = warp
    BY <1>9 DEF ExitLoop, Go
  <2>2. pc'[w] = "done"
    BY <1>1, <2>1
  <2>3. Summed(w, f)'
    BY <1>2, <1>5, <2>2, SummedStill
  <2>. QED
    BY <1>1, <1>6, <2>1, <2>3
<1>10. CASE FirstBlock(w)
  <2>1. pc' = [pc EXCEPT ![w] = AtBlock(0)] /\ pc[w] = "first"
    BY <1>10 DEF FirstBlock, Go
  <2>2. /\ OthersKept(w) /\ warp'[w].executed = warp[w].executed
        /\ warp'[w].pipe = warp[w].pipe /\ warp'[w].acc = warp[w].acc /\ warp'[w].blk = 0
        /\ warp'[w].frag = [b \in {0} |-> Fragment(w, 0)]
    BY <1>1, <1>10, FirstBlockRegisters
  <2>3. warp[w].acc = <<>> /\ warp[w].pipe.count = 0
    BY <1>5, <2>1 DEF Summed
  <2>4. smem[warp[w].pipe.index] = f[0]
    BY <1>1, <1>4, <1>10, <2>3, StageSeen
  <2>5. pc'[w] = AtBlock(0)
    BY <1>7, <2>1, <2>2
  <2>6. Summed(w, f)'
    BY <1>2, <1>3, <2>2, <2>3, <2>4, <2>5, SummedFirst
  <2>. QED
    BY <1>6, <1>7, <2>1, <2>2, <2>6
<1>11. CASE CopyThenMultiply(w)
  <2>1. pc' = [pc EXCEPT ![w] = AtBlock(warp[w].blk + 1)] /\ pc[w] = "block"
    BY <1>11 DEF CopyThenMultiply, Go
  <2>2. /\ OthersKept(w) /\ warp'[w].executed = warp[w].executed
        /\ warp'[w].pipe = warp[w].pipe /\ warp'[w].blk = warp[w].blk + 1
        /\ warp'[w].frag = Copied(w, warp[w].blk + 1)
        /\ warp'[w].acc = Append(warp[w].acc, Copied(w, warp[w].blk + 1)[warp[w].blk])
    BY <1>1, <1>11, CopyRegisters
  <2>3. /\ warp[w].blk \in 0 .. LastBlock /\ warp[w].blk < LastBlock
        /\ warp[w].pipe.count \in Nat
    BY <1>1, <2>1, LaunchNumbers DEF InPlace
  <2>4. Copied(w, warp[w].blk + 1)[warp[w].blk] = warp[w].frag[warp[w].blk]
    <3>1. warp[w].blk \in DOMAIN warp[w].frag /\ warp[w].blk # warp[w].blk + 1
      BY <1>5, <2>1, <2>3 DEF Summed
    <3>. QED
      BY <3>1 DEF Copied
  <2>5. smem[warp[w].pipe.index] = f[warp[w].pipe.count]
    BY <1>4, <2>1, <2>3, StageHeld DEF TileAt
  <2>6. pc'[w] = AtBlock(warp[w].blk + 1)
    BY <1>7, <2>1, <2>2
  <2>7. Summed(w, f)'
    BY <1>2, <1>3, <1>5, <2>1, <2>2, <2>3, <2>4, <2>5, <2>6, SummedCopy
  <2>. QED
    BY <1>6, <1>7, <2>1, <2>2, <2>7
<1>12. CASE ReleaseStage(w)
  <2>1. PICK to \in {"next", "last"} : pc' = [pc EXCEPT ![w] = to]
    BY <1>12 DEF ReleaseStage, Go
  <2>2. /\ OthersKept(w) /\ warp'[w].executed = warp[w].executed
        /\ warp'[w].pipe = Advanced(warp[w].pipe)
        /\ warp'[w].frag = warp[w].frag /\ warp'[w].acc = warp[w].acc
    BY <1>1, <1>12, ReleaseRegisters
  <2>3. pc[w] = "release" /\ warp[w].pipe.count \in Nat
    BY <1>1, <1>12, LaunchNumbers DEF ReleaseStage, InPlace
  <2>4. warp'[w].pipe.count = warp[w].pipe.count + 1
    BY <2>2 DEF Advanced
  <2>5. pc'[w] \in {"next", "last"}
    BY <1>7, <2>1, <2>2
  <2>6. Summed(w, f)'
    BY <1>2, <1>5, <2>2, <2>3, <2>4, <2>5, SummedRelease
  <2>. QED
    BY <1>6, <1>7, <2>1, <2>2, <2>6
<1>13. CASE NextStage(w)
  <2>1. pc' = [pc EXCEPT ![w] = AtBlock(0)] /\ pc[w] = "next"
    BY <1>13 DEF NextStage, Go
  <2>2. /\ OthersKept(w) /\ warp'[w].executed = warp[w].executed
        /\ warp'[w].pipe = warp[w].pipe /\ warp'[w].blk = 0
        /\ warp'[w].frag = Copied(w, 0)
        /\ warp'[w].acc = Append(warp[w].acc, Copied(w, 0)[LastBlock])
    BY <1>1, <1>13, NextStageRegisters
  <2>3. warp[w].pipe.count \in Nat
    BY <1>1, <2>1, LaunchNumbers DEF InPlace
  <2>4. Copied(w, 0)[LastBlock] = warp[w].frag[LastBlock]
    <3>1. LastBlock \in DOMAIN warp[w].frag
      BY <1>5, <2>1 DEF Summed
    <3>. QED
      BY <1>3, <3>1 DEF Copied
  <2>5. smem[warp[w].pipe.index] = f[warp[w].pipe.count]
    BY <1>1, <1>4, <1>13, <2>3, StageSeen
  <2>6. pc'[w] = AtBlock(0)
    BY <1>7, <2>1, <2>2
  <2>7. Summed(w, f)'
    BY <1>2, <1>3, <1>5, <2>1, <2>2, <2>3, <2>4, <2>5, <2>6, SummedNext
  <2>. QED
    BY <1>6, <1>7, <2>1, <2>2, <2>7
<1>14. CASE LeaveMainLoop(w)
  <2>1. pc' = [pc EXCEPT ![w] = "cross"] /\ pc[w] = "last"
    BY <1>14 DEF LeaveMainLoop, Go
  <2>2. /\ OthersKept(w) /\ warp'[w].executed = warp[w].executed
        /\ warp'[w].acc = Append(warp[w].acc, warp[w].frag[LastBlock])
    BY <1>1, <1>14, LeaveMainLoopRegisters
  <2>3. warp[w].pipe.count = launch.kTiles /\ pc'[w] = "cross"
    BY <1>1, <1>7, <2>1, <2>2 DEF InPlace
  <2>4. Summed(w, f)'
    BY <1>2, <1>3, <1>5, <2>1, <2>2, <2>3, SummedLeave
  <2>. QED
    BY <1>6, <1>7, <2>1, <2>2, <2>4
<1>15. CASE EnterEpilogue(w)
  <2>1. pc' = [pc EXCEPT ![w] = "epilogue"] /\ pc[w] = "cross"
    BY <1>15 DEF EnterEpilogue, Go
  <2>2. /\ OthersKept(w) /\ warp'[w].executed = warp[w].executed
        /\ warp'[w].acc = warp[w].acc
    BY <1>1, <1>15, EnterEpilogueRegisters
  <2>3. pc'[w] \in Slicing /\ pc[w] \in Slicing \cup {"cross"}
    BY <1>7, <2>1, <2>2 DEF Slicing
  <2>4. Summed(w, f)'
    BY <1>2, <1>5, <2>2, <2>3, SummedStill
  <2>. QED
    BY <1>6, <1>7, <2>1, <2>2, <2>4
<1>16. ASSUME \A v \in Warps(launch) : SliceOnly(v),
              \A v \in Warps(launch) :
                 pc'[v] = pc[v] \/ (pc[v] \in Epilogue /\ pc'[v] \in Epilogue)
       PROVE  PingSums'
  <2>1. ASSUME NEW v \in Warps(launch)
        PROVE  Summed(v, TileAt(Linear(warp[v].executed)))'
    <3>1. PICK g : g = TileAt(Linear(warp[v].executed))
      OBVIOUS
    <3>2. Summed(v, g) /\ SliceOnly(v)
      BY <1>16, <3>1 DEF PingSums
    <3>3. Epilogue = Slicing
      BY DEF Epilogue, Slicing
    <3>4. \/ /\ pc[v] \in Slicing \cup {"cross"} /\ pc'[v] \in Slicing
             /\ warp'[v].acc = warp[v].acc
          \/ /\ pc'[v] = pc[v] /\ warp'[v].pipe = warp[v].pipe /\ warp'[v].blk = warp[v].blk
             /\ warp'[v].acc = warp[v].acc /\ warp'[v].frag = warp[v].frag
      BY <1>16, <3>2, <3>3 DEF SliceOnly
    <3>5. Summed(v, g)'
      BY <1>2, <3>2, <3>4, SummedStill
    <3>6. warp'[v].executed = warp[v].executed
      BY <3>2 DEF SliceOnly
    <3>. QED
      BY <1>2, <3>1, <3>5, <3>6, SumsThen
  <2>. QED
    BY <1>2, <2>1 DEF PingSums
<1>17. CASE SyncBeforeWrite(w) \/ WriteSlice(w)
  BY <1>1, <1>16, <1>17, SyncRegisters, SyncControl
<1>18. CASE StoreSlice(w)
  <2>1. pc' = [pc EXCEPT ![w] = "acquire"] /\ pc[w] = "store" /\ warp' = warp
    BY <1>18 DEF StoreSlice, Go
  <2>. QED
    BY <1>1, <1>16, <2>1 DEF SliceOnly, Epilogue
<1>19. CASE AcquireBuffer(w)
  <2>1. /\ pc' = [pc EXCEPT ![w] = SliceDone(w)] /\ pc[w] = "acquire"
        /\ SliceDone(w) \in Epilogue /\ pc[w] \in Epilogue
    BY <1>19 DEF AcquireBuffer, Go, SliceDone, Epilogue
  <2>. QED
    BY <1>1, <1>16, <1>19, <2>1, AcquireRegisters
<1>20. CASE FinishTile(w)
  <2>1. pc' = [pc EXCEPT ![w] = "start"]
    BY <1>20 DEF FinishTile, Go
  <2>2. OthersKept(w)
    BY <1>1, <1>20, FinishTileRegisters
  <2>3. pc'[w] = "start"
    BY <1>7, <2>1, <2>2
  <2>4. ASSUME NEW v \in Warps(launch), v # w
        PROVE  Summed(v, TileAt(Linear(warp[v].executed)))'
    <3>1. PICK g : g = TileAt(Linear(warp[v].executed))
      OBVIOUS
    <3>2. Summed(v, g) /\ pc'[v] = pc[v] /\ warp'[v] = warp[v]
      BY <1>7, <2>1, <2>2, <2>4, <3>1 DEF PingSums
    <3>3. Summed(v, g)'
      BY <1>2, <3>2, SummedStill
    <3>. QED
      BY <1>2, <3>1, <3>2, <3>3, SumsThen
  <2>5. Summed(w, TileAt(Linear(warp[w].executed)))'
    BY <2>3 DEF Summed, Slicing
  <2>. QED
    BY <1>2, <2>4, <2>5 DEF PingSums
<1>. QED
  BY <1>8, <1>9, <1>10, <1>11, <1>12, <1>13, <1>14, <1>15, <1>17, <1>18, <1>19, <1>20
     DEF PingWarp

\* The steps of the loader and of the TMA engine touch no register.
LEMMA SumsNext ==
  ASSUME PingInv, PingInv', PingSums, TwoBlocks, [PingNext]_vars
  PROVE  PingSums'
<1>1. ASSUME OthersMove PROVE PingSums'
  <2>1. UNCHANGED <<launch, pc, warp>>
    BY <1>1, OthersRegisters DEF PingInv, PingBasics
  <2>2. ASSUME NEW v \in Warps(launch)
        PROVE  Summed(v, TileAt(Linear(warp[v].executed)))'
    <3>1. PICK g : g = TileAt(Linear(warp[v].executed))
      OBVIOUS
    <3>2. Summed(v, g)'
      BY <2>1, <3>1, SummedStill DEF PingSums
    <3>. QED
      BY <2>1, <3>1, <3>2, SumsThen
  <2>. QED
    BY <2>1, <2>2 DEF PingSums
<1>. QED
  BY <1>1, SumsOfWarp DEF PingNext, OthersMove

(***************************************************************************)
(* The two barriers of a slice keep the warps of a group together: all of  *)
(* them have passed as many.                                               *)
(***************************************************************************)
\* The output tiles of its group that are behind a warp.
Done(w) == warp[w].executed \div 2

Together ==
    \A v, w \in Warps(launch) : v[1] = w[1] => Passed(Done(v), v) = Passed(Done(w), w)

\* Where only some warps, or only some slices, come.
Stands(w) ==
    /\ pc[w] \in {"store", "acquire"} => Leader(w)
    /\ pc[w] = "finish" => LastSlice(w)

LEMMA DoneTiles ==
  PingInv => \A w \in Warps(launch) :
     Done(w) \in Nat /\ warp[w].executed = 2 * Done(w) + w[1]
<1>. SUFFICES ASSUME PingInv, NEW w \in Warps(launch)
              PROVE  Done(w) \in Nat /\ warp[w].executed = 2 * Done(w) + w[1]
  OBVIOUS
<1>1. Shape
  BY DEF PingInv, PingBasics, OrderInv
<1>2. PICK n0, a0, n1, a1 : InStep(n0, a0, n1, a1)
  BY DEF PingInv, PingBasics, OrderInv
<1>3. a1[w] \in Nat /\ warp[w].executed = 2 * a1[w] + w[1] /\ (w[1] = 0 \/ w[1] = 1)
  BY <1>1, <1>2, WarpGroup DEF Shape, InStep, Counts
<1>. QED
  BY <1>3 DEF Done

LEMMA DoneTilesThen ==
  PingInv' => (\A w \in Warps(launch) :
     Done(w) \in Nat /\ warp[w].executed = 2 * Done(w) + w[1])'
BY DoneTiles, PTL

\* A warp that comes to a barrier and waits.
Waits(w, at) == pc' = [pc EXCEPT ![w] = at] /\ warp' = warp

\* A warp that comes to a barrier and opens it: all of its group are there, at
\* the same slice of the same tile, and all of them go on.
GoesOn(v, at) ==
    \/ at = "sync1" /\ pc'[v] = "write" /\ warp'[v] = warp[v]
    \/ at = "sync2" /\ Leader(v) /\ pc'[v] = "store" /\ warp'[v] = warp[v]
    \/ at = "sync2" /\ ~Leader(v) /\ pc'[v] = SliceDone(v) /\ warp'[v] = NextSlice(v)

Opens(w, at) ==
    /\ \A v \in Warps(launch) : v[1] # w[1] => pc'[v] = pc[v] /\ warp'[v] = warp[v]
    /\ \A v \in Warps(launch) : v[1] = w[1] =>
         /\ v # w => pc[v] = at
         /\ warp[v].executed = warp[w].executed /\ warp[v].epi = warp[w].epi
         /\ GoesOn(v, at)

\* The barrier counts warps of either group, and has those of one.
LEMMA BarrierOutcome ==
  ASSUME PingInv, Together, NEW w \in Warps(launch), NEW at,
         \/ pc[w] = "epilogue" /\ at = "sync1"
         \/ pc[w] = "write" /\ at = "sync2",
         Sync(w, at)
  PROVE  Waits(w, at) \/ Opens(w, at)
<1>. DEFINE here == bar \cup {w}
            place(v) == IF v = w THEN at ELSE pc[v]
            after(v) == CASE place(v) = "sync1" -> "write"
                          [] place(v) = "sync2" /\ Leader(v) -> "store"
                          [] OTHER -> SliceDone(v)
<1>1. /\ launch \in PingLaunches /\ bar \subseteq Within({"sync1", "sync2"})
      /\ OneGroupPerPart /\ launch.schedule = "pingpong"
  BY OrderApart DEF PingInv, PingBasics, OrderInv, Shape, PingLaunches, Launches
<1>2. CASE Cardinality(here) # launch.warps
  BY <1>2 DEF Sync, Waits, Go
<1>3. CASE Cardinality(here) = launch.warps
  <2>1. \A v \in here : v \in Warps(launch) /\ pc[v] \in Epilogue
    BY <1>1 DEF Within, Epilogue
  <2>2. here \subseteq GroupOf(w[1])
    BY <1>1, <2>1 DEF OneGroupPerPart, GroupOf
  <2>3. w[1] \in Groups
    BY <1>1, WarpGroup
  <2>4. IsFiniteSet(GroupOf(w[1])) /\ Cardinality(GroupOf(w[1])) = launch.warps
    BY <1>1, <2>3, GroupSize
  <2>5. here = GroupOf(w[1])
    <3>. HIDE DEF here
    <3>. QED
      BY <1>3, <2>2, <2>4, FS_Subset
  <2>6. /\ pc' = [v \in Warps(launch) |-> IF v \in here THEN after(v) ELSE pc[v]]
        /\ warp' = [v \in Warps(launch) |->
                      IF v \in here /\ place(v) = "sync2" /\ ~Leader(v)
                      THEN NextSlice(v) ELSE warp[v]]
    BY <1>3 DEF Sync
  <2>7. ASSUME NEW v \in Warps(launch), v[1] = w[1], v # w
        PROVE  pc[v] = at /\ Done(v) = Done(w) /\ warp[v].epi = warp[w].epi
    <3>1. v \in bar /\ pc[v] \in {"sync1", "sync2"}
      <4>1. v \in here
        BY <2>5, <2>7 DEF GroupOf
      <4>. QED
        BY <1>1, <2>7, <4>1 DEF Within
    <3>2. /\ warp[v].epi \in 0 .. launch.epiTiles - 1
          /\ warp[w].epi \in 0 .. launch.epiTiles - 1
          /\ Done(v) \in Nat /\ Done(w) \in Nat
          /\ launch.epiTiles \in Nat /\ launch.epiTiles > 0
      BY <1>1, PingTypes, DoneTiles, LaunchNumbers
    <3>3. Passed(Done(v), v) = Passed(Done(w), w)
      BY <2>7 DEF Together
    <3>4. Done(v) = Done(w) /\ warp[v].epi = warp[w].epi /\ Half(v) = Half(w)
      <4>1. /\ pc[v] \in {"epilogue", "sync1", "write", "sync2"}
            /\ pc[w] \in {"epilogue", "sync1", "write", "sync2"}
        BY <3>1
      <4>. QED
        BY <3>2, <3>3, <4>1, SamePoint
    <3>5. pc[v] = at
      BY <3>1, <3>4 DEF Half
    <3>. QED
      BY <3>4, <3>5
  <2>8. ASSUME NEW v \in Warps(launch), v[1] = w[1]
        PROVE  /\ v # w => pc[v] = at
               /\ warp[v].executed = warp[w].executed /\ warp[v].epi = warp[w].epi
               /\ GoesOn(v, at)
    <3>1. /\ v # w => pc[v] = at
          /\ warp[v].executed = warp[w].executed /\ warp[v].epi = warp[w].epi
      BY <2>7, <2>8, DoneTiles
    <3>2. place(v) = at /\ v \in here
      BY <2>5, <2>8, <3>1 DEF GroupOf
    <3>3. GoesOn(v, at)
      BY <2>6, <3>2 DEF GoesOn
    <3>. QED
      BY <3>1, <3>3
  <2>9. \A v \in Warps(launch) : v[1] # w[1] => pc'[v] = pc[v] /\ warp'[v] = warp[v]
    <3>1. \A v \in Warps(launch) : v[1] # w[1] => v \notin here
      BY <2>5 DEF GroupOf
    <3>. QED
      BY <2>6, <3>1
  <2>. QED
    BY <2>8, <2>9 DEF Opens
<1>. QED
  BY <1>2, <1>3

\* What going on to the next slice does to the registers.
LEMMA SliceRegisters ==
  ASSUME RegisterShape, NEW v \in Warps(launch), warp'[v] = NextSlice(v)
  PROVE  /\ warp'[v].executed = warp[v].executed /\ warp'[v].acc = warp[v].acc
         /\ warp'[v].epi = IF LastSlice(v) THEN warp[v].epi ELSE warp[v].epi + 1
BY DEF NextSlice, RegisterShape, Fields

\* The numbers a warp's progress is counted in.
LEMMA SliceNumbers ==
  ASSUME PingInv, NEW v \in Warps(launch)
  PROVE  /\ Done(v) \in Nat /\ warp[v].epi \in Nat
         /\ launch.epiTiles * Done(v) \in Nat /\ Begun(Done(v), v) \in Nat
         /\ launch.epiTiles \in Nat /\ launch.epiTiles > 0
         /\ warp[v].epi < launch.epiTiles
<1>1. /\ Done(v) \in Nat /\ warp[v].epi \in 0 .. launch.epiTiles - 1
      /\ launch.epiTiles \in Nat /\ launch.epiTiles > 0
  BY PingTypes, DoneTiles, LaunchNumbers DEF PingInv, PingBasics, OrderInv, Shape
<1>2. launch.epiTiles * Done(v) \in Nat
  BY <1>1
<1>. QED
  BY <1>1, <1>2 DEF Begun

\* The end of a slice is the second barrier of it passed.
LEMMA AfterSlice ==
  ASSUME PingInv, launch' = launch, NEW v \in Warps(launch), pc[v] \in Slicing,
         pc'[v] = SliceDone(v), warp'[v] = NextSlice(v)
  PROVE  /\ Done(v)' = Done(v)
         /\ Passed(Done(v), v)' = 2 * Begun(Done(v), v) + 2
         /\ Begun(Done(v), v)' + (IF pc'[v] = "finish" THEN 1 ELSE 0) = Begun(Done(v), v) + 1
<1>. DEFINE x == launch.epiTiles * Done(v)
<1>1. /\ warp'[v].executed = warp[v].executed
      /\ warp'[v].epi = IF LastSlice(v) THEN warp[v].epi ELSE warp[v].epi + 1
  BY SliceRegisters DEF PingInv, PingBasics
<1>2. Done(v)' = Done(v) /\ x' = x
  BY <1>1 DEF Done
<1>3. x \in Nat /\ warp[v].epi \in Nat
  BY SliceNumbers
<1>4. Begun(Done(v), v) = x + warp[v].epi
  BY DEF Begun
<1>5. CASE LastSlice(v)
  <2>1. pc'[v] = "finish" /\ warp'[v].epi = warp[v].epi
    BY <1>1, <1>5 DEF SliceDone
  <2>2. Half(v)' = 2 /\ Begun(Done(v), v)' = x + warp[v].epi
    BY <1>2, <2>1 DEF Half, Begun, Slicing
  <2>. QED
    BY <1>2, <1>3, <1>4, <2>1, <2>2 DEF Passed
<1>6. CASE ~LastSlice(v)
  <2>1. pc'[v] = "epilogue" /\ warp'[v].epi = warp[v].epi + 1
    BY <1>1, <1>6 DEF SliceDone
  <2>2. Half(v)' = 0 /\ Begun(Done(v), v)' = x + (warp[v].epi + 1)
    BY <1>2, <2>1 DEF Half, Begun, Slicing
  <2>. QED
    BY <1>2, <1>3, <1>4, <2>1, <2>2 DEF Passed
<1>. QED
  BY <1>5, <1>6

\* The end of a tile is the end of its last slice.
LEMMA AfterTile ==
  ASSUME PingInv, launch' = launch, NEW w \in Warps(launch), Stands(w),
         pc[w] = "finish", pc'[w] = "start", warp'[w].executed = warp[w].executed + 2
  PROVE  /\ Begun(Done(w), w)' \in Nat
         /\ Begun(Done(w), w)' = Begun(Done(w), w) + 1
         /\ Passed(Done(w), w)' = Passed(Done(w), w)
<1>. DEFINE m == launch.epiTiles  d == Done(w)  e == warp[w].epi
<1>1. /\ m \in Nat /\ d \in Nat /\ e \in Nat /\ m * d \in Nat /\ e + 1 = m
      /\ warp[w].executed = 2 * d + w[1] /\ (w[1] = 0 \/ w[1] = 1)
  <2>1. launch \in PingLaunches
    BY DEF PingInv, PingBasics, OrderInv, Shape
  <2>. QED
    BY <2>1, SliceNumbers, DoneTiles, WarpGroup DEF Stands, LastSlice
<1>2. Done(w)' = d + 1
  BY <1>1 DEF Done
<1>3. Begun(d, w) = m * d + e /\ Half(w) = 2
  BY DEF Begun, Half, Slicing
<1>4. m * (d + 1) \in Nat
  BY <1>1
<1>5. Begun(Done(w), w)' = m * (d + 1) /\ Half(w)' = 0
  BY <1>2, <1>4 DEF Begun, Half, Slicing
<1>6. m * (d + 1) = m * d + m
  <2>. HIDE DEF m, d
  <2>. QED
    BY <1>1
<1>7. Begun(Done(w), w)' = Begun(d, w) + 1
  <2>. DEFINE x == m * d
  <2>. HIDE DEF x
  <2>. QED
    BY <1>1, <1>3, <1>5, <1>6 DEF x
<1>8. Passed(Done(w), w)' = Passed(Done(w), w)
  <2>1. Begun(d, w) \in Nat
    BY SliceNumbers
  <2>. QED
    BY <1>3, <1>5, <1>7, <2>1 DEF Passed
<1>. QED
  BY <1>4, <1>5, <1>7, <1>8

\* A warp whose counts of slices and tiles stay has the same place in them.
LEMMA SamePassed ==
  ASSUME launch' = launch, NEW v,
         warp'[v].executed = warp[v].executed, Half(v)' = Half(v),
         \/ pc'[v] \in Slicing /\ pc[v] \in Slicing /\ warp'[v].epi = warp[v].epi
         \/ pc'[v] \notin Slicing /\ pc[v] \notin Slicing
  PROVE  /\ Done(v)' = Done(v) /\ Begun(Done(v), v)' = Begun(Done(v), v)
         /\ Passed(Done(v), v)' = Passed(Done(v), v)
<1>1. Done(v)' = Done(v)
  BY DEF Done
<1>2. Begun(Done(v), v)' = Begun(Done(v), v)
  BY <1>1 DEF Begun
<1>. QED
  BY <1>1, <1>2 DEF Passed

\* An open barrier takes every warp of the group one further.
LEMMA OnePassed ==
  ASSUME PingInv, launch' = launch, NEW w \in Warps(launch), NEW at,
         \/ pc[w] = "epilogue" /\ at = "sync1"
         \/ pc[w] = "write" /\ at = "sync2",
         Opens(w, at), NEW v \in Warps(launch), v[1] = w[1]
  PROVE  Done(v)' = Done(v) /\ Passed(Done(v), v)' = Passed(Done(v), v) + 1
<1>1. GoesOn(v, at) /\ (v # w => pc[v] = at)
  BY DEF Opens
<1>2. /\ pc[v] \in Slicing
      /\ at = "sync1" => Half(v) = 0
      /\ at = "sync2" => Half(v) = 1
  BY <1>1 DEF Slicing, Half
<1>3. Begun(Done(v), v) \in Nat
  BY SliceNumbers
<1>4. CASE /\ pc'[v] \in {"write", "store"} /\ warp'[v] = warp[v]
           /\ at = "sync1" => pc'[v] = "write"
           /\ at = "sync2" => pc'[v] = "store"
  <2>1. Half(v)' = Half(v) + 1
    BY <1>2, <1>4 DEF Half
  <2>2. Done(v)' = Done(v)
    BY <1>4 DEF Done
  <2>3. Begun(Done(v), v)' = Begun(Done(v), v)
    BY <1>2, <1>4, <2>2 DEF Begun, Slicing
  <2>. QED
    BY <1>2, <1>3, <2>1, <2>2, <2>3 DEF Passed
<1>5. CASE at = "sync2" /\ pc'[v] = SliceDone(v) /\ warp'[v] = NextSlice(v)
  <2>1. Done(v)' = Done(v) /\ Passed(Done(v), v)' = 2 * Begun(Done(v), v) + 2
    BY <1>2, <1>5, AfterSlice
  <2>. QED
    BY <1>2, <1>3, <1>5, <2>1 DEF Passed
<1>. QED
  BY <1>1, <1>4, <1>5 DEF GoesOn

LEMMA TogetherOpens ==
  ASSUME PingInv, Together, launch' = launch, NEW w \in Warps(launch), NEW at,
         \/ pc[w] = "epilogue" /\ at = "sync1"
         \/ pc[w] = "write" /\ at = "sync2",
         Opens(w, at)
  PROVE  Together'
<1>1. \A v \in Warps(launch) : v[1] = w[1] =>
        Passed(Done(v), v)' = Passed(Done(v), v) + 1
  BY OnePassed
<1>2. \A v \in Warps(launch) : v[1] # w[1] =>
        Passed(Done(v), v)' = Passed(Done(v), v)
  <2>. SUFFICES ASSUME NEW v \in Warps(launch), v[1] # w[1]
                PROVE  Passed(Done(v), v)' = Passed(Done(v), v)
    OBVIOUS
  <2>1. pc'[v] = pc[v] /\ warp'[v] = warp[v]
    BY DEF Opens
  <2>. QED
    BY <2>1, SamePassed DEF Half
<1>3. ASSUME NEW u \in Warps(launch), NEW v \in Warps(launch), u[1] = v[1]
      PROVE  Passed(Done(u), u)' = Passed(Done(v), v)'
  <2>1. Passed(Done(u), u) = Passed(Done(v), v)
    BY <1>3 DEF Together
  <2>. QED
    BY <1>1, <1>2, <1>3, <2>1
<1>. QED
  BY <1>3 DEF Together

LEMMA TogetherKept ==
  ASSUME Together, launch' = launch,
         \A v \in Warps(launch) : Passed(Done(v), v)' = Passed(Done(v), v)
  PROVE  Together'
<1>1. ASSUME NEW u \in Warps(launch), NEW v \in Warps(launch), u[1] = v[1]
      PROVE  Passed(Done(u), u)' = Passed(Done(v), v)'
  <2>1. Passed(Done(u), u) = Passed(Done(v), v)
    BY <1>1 DEF Together
  <2>. QED
    BY <2>1
<1>. QED
  BY <1>1 DEF Together

(***************************************************************************)
(* What a step of one warp does to the control of all of them, and so that *)
(* the warps of a group stay together, whatever the data.                  *)
(***************************************************************************)
OnlyMoves(w) == \A v \in Warps(launch) : v # w => pc'[v] = pc[v] /\ warp'[v] = warp[v]

Goes(w, from, to) ==
    /\ OnlyMoves(w)
    /\ pc[w] \in from /\ pc'[w] \in to
    /\ warp'[w].executed = warp[w].executed

Sliced(w) ==
    \/ pc[w] = "epilogue" /\ (Waits(w, "sync1") \/ Opens(w, "sync1"))
    \/ pc[w] = "write" /\ (Waits(w, "sync2") \/ Opens(w, "sync2"))
    \/ /\ OnlyMoves(w) /\ pc[w] = "store" /\ pc'[w] = "acquire" /\ warp'[w] = warp[w]
    \/ /\ OnlyMoves(w) /\ pc[w] = "acquire" /\ pc'[w] = SliceDone(w)
       /\ warp'[w] = NextSlice(w)

Controls(w) ==
    \/ Goes(w, {"start"}, {"first"})
    \/ Goes(w, {"start"}, {"done"})
    \/ Goes(w, MainLoop, MainLoop)
    \/ Goes(w, {"last"}, {"cross"})
    \/ Goes(w, {"cross"}, {"epilogue"}) /\ warp'[w].epi = 0
    \/ Sliced(w)
    \/ /\ OnlyMoves(w) /\ pc[w] = "finish" /\ pc'[w] = "start"
       /\ warp'[w].executed = warp[w].executed + 2

LEMMA WarpControls ==
  ASSUME PingInv, Together, NEW w \in Warps(launch), PingWarp(w)
  PROVE  Controls(w) /\ launch' = launch /\ out' = out
<1>1. pc \in [Warps(launch) -> Places] /\ RegisterShape /\ DOMAIN warp = Warps(launch)
  BY DEF PingInv, PingBasics, OrderInv, Shape, RegisterShape
<1>2. launch' = launch /\ out' = out
  BY DEF PingWarp, StartTile, ExitLoop, FirstBlock, CopyThenMultiply, ReleaseStage,
         NextStage, LeaveMainLoop, EnterEpilogue, SyncBeforeWrite, WriteSlice,
         StoreSlice, AcquireBuffer, FinishTile, UnchangedInLoop, UnchangedButWarp
<1>3. ASSUME NEW to, Go(w, to), OthersKept(w)
      PROVE  pc'[w] = to /\ OnlyMoves(w)
  BY <1>1, <1>3 DEF Go, OthersKept, OnlyMoves
<1>4. CASE StartTile(w)
  <2>1. pc[w] = "start" /\ Go(w, "first")
    BY <1>4 DEF StartTile
  <2>. QED
    BY <1>1, <1>2, <1>3, <1>4, <2>1, StartTileRegisters DEF Controls, Goes
<1>5. CASE ExitLoop(w)
  <2>1. pc[w] = "start" /\ Go(w, "done") /\ warp' = warp
    BY <1>5 DEF ExitLoop
  <2>. QED
    BY <1>2, <1>3, <2>1 DEF Controls, Goes, OthersKept
<1>6. \A b : AtBlock(b) \in MainLoop
  BY DEF AtBlock, MainLoop
<1>7. CASE FirstBlock(w) \/ NextStage(w)
  <2>1. pc[w] \in MainLoop /\ Go(w, AtBlock(0))
    BY <1>7 DEF FirstBlock, NextStage, MainLoop
  <2>2. OthersKept(w) /\ warp'[w].executed = warp[w].executed
    BY <1>1, <1>7, FirstBlockRegisters, NextStageRegisters
  <2>. QED
    BY <1>2, <1>3, <1>6, <2>1, <2>2 DEF Controls, Goes
<1>8. CASE CopyThenMultiply(w)
  <2>1. pc[w] \in MainLoop /\ Go(w, AtBlock(warp[w].blk + 1))
    BY <1>8 DEF CopyThenMultiply, MainLoop
  <2>2. OthersKept(w) /\ warp'[w].executed = warp[w].executed
    BY <1>1, <1>8, CopyRegisters
  <2>. QED
    BY <1>2, <1>3, <1>6, <2>1, <2>2 DEF Controls, Goes
<1>9. CASE ReleaseStage(w)
  <2>1. PICK to \in MainLoop : pc[w] \in MainLoop /\ Go(w, to)
    BY <1>9 DEF ReleaseStage, MainLoop
  <2>2. OthersKept(w) /\ warp'[w].executed = warp[w].executed
    BY <1>1, <1>9, ReleaseRegisters
  <2>. QED
    BY <1>2, <1>3, <2>1, <2>2 DEF Controls, Goes
<1>10. CASE LeaveMainLoop(w)
  <2>1. pc[w] = "last" /\ Go(w, "cross")
    BY <1>10 DEF LeaveMainLoop
  <2>2. OthersKept(w) /\ warp'[w].executed = warp[w].executed
    BY <1>1, <1>10, LeaveMainLoopRegisters
  <2>. QED
    BY <1>2, <1>3, <2>1, <2>2 DEF Controls, Goes
<1>11. CASE EnterEpilogue(w)
  <2>1. pc[w] = "cross" /\ Go(w, "epilogue")
    BY <1>11 DEF EnterEpilogue
  <2>2. OthersKept(w) /\ warp'[w].executed = warp[w].executed /\ warp'[w].epi = 0
    BY <1>1, <1>11, EnterEpilogueRegisters
  <2>. QED
    BY <1>2, <1>3, <2>1, <2>2 DEF Controls, Goes
<1>12. CASE SyncBeforeWrite(w)
  <2>1. pc[w] = "epilogue" /\ Sync(w, "sync1")
    BY <1>12 DEF SyncBeforeWrite
  <2>. QED
    BY <1>2, <2>1, BarrierOutcome DEF Controls, Sliced
<1>13. CASE WriteSlice(w)
  <2>1. pc[w] = "write" /\ Sync(w, "sync2")
    BY <1>13 DEF WriteSlice
  <2>. QED
    BY <1>2, <2>1, BarrierOutcome DEF Controls, Sliced
<1>14. CASE StoreSlice(w)
  <2>1. pc[w] = "store" /\ Go(w, "acquire") /\ warp' = warp
    BY <1>14 DEF StoreSlice
  <2>. QED
    BY <1>2, <1>3, <2>1 DEF Controls, Sliced, OthersKept
<1>15. CASE AcquireBuffer(w)
  <2>1. pc[w] = "acquire" /\ Go(w, SliceDone(w)) /\ warp' = [warp EXCEPT ![w] = NextSlice(w)]
    BY <1>15 DEF AcquireBuffer
  <2>2. OthersKept(w) /\ warp'[w] = NextSlice(w)
    BY <1>1, <2>1 DEF OthersKept
  <2>. QED
    BY <1>2, <1>3, <2>1, <2>2 DEF Controls, Sliced
<1>16. CASE FinishTile(w)
  <2>1. pc[w] = "finish" /\ Go(w, "start")
    BY <1>16 DEF FinishTile
  <2>2. OthersKept(w) /\ warp'[w].executed = warp[w].executed + 2
    BY <1>1, <1>16, FinishTileRegisters
  <2>. QED
    BY <1>2, <1>3, <2>1, <2>2 DEF Controls
<1>. QED
  BY <1>4, <1>5, <1>7, <1>8, <1>9, <1>10, <1>11, <1>12, <1>13, <1>14, <1>15, <1>16
     DEF PingWarp

LinedUp == Together /\ \A w \in Warps(launch) : Stands(w)

\* A warp outside the slices, or one that stays, changes nothing of it.
LEMMA LinedStill ==
  ASSUME PingInv, LinedUp, launch' = launch,
         \A v \in Warps(launch) :
            \/ pc'[v] = pc[v] /\ warp'[v] = warp[v]
            \/ /\ pc[v] \notin Slicing /\ warp'[v].executed = warp[v].executed
               /\ \/ pc'[v] \notin Slicing
                  \/ pc'[v] = "epilogue" /\ warp'[v].epi = 0
  PROVE  LinedUp'
<1>1. ASSUME NEW v \in Warps(launch)
      PROVE  Passed(Done(v), v)' = Passed(Done(v), v) /\ Stands(v)'
  <2>1. CASE pc'[v] = pc[v] /\ warp'[v] = warp[v]
    BY <2>1, SamePassed DEF Half, LinedUp, Stands, Leader, LastSlice
  <2>2. CASE /\ pc[v] \notin Slicing /\ warp'[v].executed = warp[v].executed
             /\ \/ pc'[v] \notin Slicing
                \/ pc'[v] = "epilogue" /\ warp'[v].epi = 0
    <3>1. Done(v)' = Done(v) /\ launch.epiTiles * Done(v) \in Nat
      BY <2>2, SliceNumbers DEF Done
    <3>2. Begun(Done(v), v)' = Begun(Done(v), v)
      BY <2>2, <3>1 DEF Begun
    <3>3. Half(v) = 0 /\ Half(v)' = 0 /\ Stands(v)'
      BY <2>2 DEF Half, Slicing, Stands
    <3>. QED
      BY <3>1, <3>2, <3>3 DEF Passed
  <2>. QED
    BY <2>1, <2>2
<1>. QED
  BY <1>1, TogetherKept DEF LinedUp

LEMMA LinedSliced ==
  ASSUME PingInv, LinedUp, launch' = launch, NEW w \in Warps(launch), Sliced(w)
  PROVE  LinedUp'
<1>1. pc \in [Warps(launch) -> Places] /\ RegisterShape
  BY DEF PingInv, PingBasics, OrderInv, Shape
<1>2. ASSUME NEW v \in Warps(launch), pc'[v] = pc[v] /\ warp'[v] = warp[v]
      PROVE  Passed(Done(v), v)' = Passed(Done(v), v) /\ Stands(v)'
  BY <1>2, SamePassed DEF Half, LinedUp, Stands, Leader, LastSlice
<1>3. ASSUME NEW v \in Warps(launch), pc[v] \in Slicing, pc'[v] = SliceDone(v),
             warp'[v] = NextSlice(v)
      PROVE  Stands(v)'
  <2>1. warp'[v].epi = IF LastSlice(v) THEN warp[v].epi ELSE warp[v].epi + 1
    BY <1>1, <1>3, SliceRegisters
  <2>. QED
    BY <1>3, <2>1 DEF Stands, SliceDone, LastSlice
<1>4. ASSUME NEW at, \/ pc[w] = "epilogue" /\ at = "sync1"
                     \/ pc[w] = "write" /\ at = "sync2",
             Waits(w, at)
      PROVE  LinedUp'
  <2>1. /\ pc'[w] = at /\ warp' = warp
        /\ \A v \in Warps(launch) : v # w => pc'[v] = pc[v]
    BY <1>1, <1>4 DEF Waits
  <2>2. Passed(Done(w), w)' = Passed(Done(w), w) /\ Stands(w)'
    BY <1>4, <2>1, SamePassed DEF Half, Slicing, Stands
  <2>3. \A v \in Warps(launch) : Passed(Done(v), v)' = Passed(Done(v), v) /\ Stands(v)'
    BY <1>2, <2>1, <2>2
  <2>. QED
    BY <2>3, TogetherKept DEF LinedUp
<1>5. ASSUME NEW at, \/ pc[w] = "epilogue" /\ at = "sync1"
                     \/ pc[w] = "write" /\ at = "sync2",
             Opens(w, at)
      PROVE  LinedUp'
  <2>1. Together'
    BY <1>5, TogetherOpens DEF LinedUp
  <2>2. ASSUME NEW v \in Warps(launch) PROVE Stands(v)'
    <3>1. CASE v[1] # w[1]
      BY <1>2, <1>5, <3>1 DEF Opens
    <3>2. CASE v[1] = w[1]
      <4>1. GoesOn(v, at) /\ pc[v] \in Slicing
        BY <1>5, <3>2 DEF Opens, Slicing
      <4>2. CASE pc'[v] = "write" \/ (Leader(v) /\ pc'[v] = "store")
        BY <4>2 DEF Stands, Leader
      <4>3. CASE pc'[v] = SliceDone(v) /\ warp'[v] = NextSlice(v)
        BY <1>3, <4>1, <4>3
      <4>. QED
        BY <4>1, <4>2, <4>3 DEF GoesOn
    <3>. QED
      BY <3>1, <3>2
  <2>. QED
    BY <2>1, <2>2 DEF LinedUp
<1>6. ASSUME OnlyMoves(w), Passed(Done(w), w)' = Passed(Done(w), w), Stands(w)'
      PROVE  LinedUp'
  <2>1. \A v \in Warps(launch) : Passed(Done(v), v)' = Passed(Done(v), v) /\ Stands(v)'
    BY <1>2, <1>6 DEF OnlyMoves
  <2>. QED
    BY <2>1, TogetherKept DEF LinedUp
<1>7. CASE /\ OnlyMoves(w) /\ pc[w] = "store" /\ pc'[w] = "acquire" /\ warp'[w] = warp[w]
  <2>1. Passed(Done(w), w)' = Passed(Done(w), w)
    BY <1>7, SamePassed DEF Half, Slicing
  <2>2. Stands(w)'
    BY <1>7 DEF LinedUp, Stands, Leader
  <2>. QED
    BY <1>6, <1>7, <2>1, <2>2
<1>8. CASE /\ OnlyMoves(w) /\ pc[w] = "acquire" /\ pc'[w] = SliceDone(w)
           /\ warp'[w] = NextSlice(w)
  <2>1. Passed(Done(w), w)' = 2 * Begun(Done(w), w) + 2
    BY <1>8, AfterSlice DEF Slicing
  <2>2. Passed(Done(w), w)' = Passed(Done(w), w)
    BY <1>8, <2>1 DEF Passed, Half
  <2>3. Stands(w)'
    BY <1>3, <1>8 DEF Slicing
  <2>. QED
    BY <1>6, <1>8, <2>2, <2>3
<1>. QED
  BY <1>4, <1>5, <1>7, <1>8 DEF Sliced

LEMMA LinedNext ==
  ASSUME PingInv, LinedUp, [PingNext]_vars
  PROVE  LinedUp'
<1>1. ASSUME NEW w \in Warps(launch), PingWarp(w) PROVE LinedUp'
  <2>1. Controls(w) /\ launch' = launch
    BY <1>1, WarpControls DEF LinedUp
  <2>2. ASSUME OnlyMoves(w), pc[w] \notin Slicing, warp'[w].executed = warp[w].executed,
               pc'[w] \notin Slicing \/ (pc'[w] = "epilogue" /\ warp'[w].epi = 0)
        PROVE  LinedUp'
    BY <2>1, <2>2, LinedStill DEF OnlyMoves
  <2>3. CASE \/ Goes(w, {"start"}, {"first"}) \/ Goes(w, {"start"}, {"done"})
             \/ Goes(w, MainLoop, MainLoop) \/ Goes(w, {"last"}, {"cross"})
             \/ Goes(w, {"cross"}, {"epilogue"}) /\ warp'[w].epi = 0
    BY <2>2, <2>3 DEF Goes, MainLoop, Slicing
  <2>4. CASE Sliced(w)
    BY <2>1, <2>4, LinedSliced
  <2>5. CASE /\ OnlyMoves(w) /\ pc[w] = "finish" /\ pc'[w] = "start"
             /\ warp'[w].executed = warp[w].executed + 2
    <3>1. Passed(Done(w), w)' = Passed(Done(w), w) /\ Stands(w)'
      BY <2>1, <2>5, AfterTile DEF LinedUp, Stands
    <3>2. ASSUME NEW v \in Warps(launch)
          PROVE  Passed(Done(v), v)' = Passed(Done(v), v) /\ Stands(v)'
      <4>1. CASE v # w
        BY <2>1, <2>5, <4>1, SamePassed DEF Half, LinedUp, Stands, Leader, LastSlice, OnlyMoves
      <4>. QED
        BY <3>1, <4>1
    <3>. QED
      BY <2>1, <3>2, TogetherKept DEF LinedUp
  <2>. QED
    BY <2>1, <2>3, <2>4, <2>5 DEF Controls
<1>2. CASE OthersMove
  BY <1>2, OthersRegisters, LinedStill DEF PingInv, PingBasics
<1>. QED
  BY <1>1, <1>2 DEF PingNext, OthersMove

LEMMA LinedInit == PingInit => LinedUp
<1>. SUFFICES ASSUME PingInit PROVE LinedUp
  OBVIOUS
<1>1. launch \in PingLaunches /\ pc = [w \in Warps(launch) |-> "start"]
  BY DEF PingInit, FreshMachine
<1>2. ASSUME NEW w \in Warps(launch)
      PROVE  Passed(Done(w), w) = 0 /\ Stands(w)
  <2>1. warp[w].executed = w[1] /\ (w[1] = 0 \/ w[1] = 1)
    BY <1>1, <1>2, WarpGroup DEF PingInit, FreshPingWarps, FreshPingWarp
  <2>2. Done(w) = 0 /\ launch.epiTiles * 0 = 0
    BY <1>1, <2>1, LaunchNumbers DEF Done
  <2>. QED
    BY <1>1, <2>2 DEF Passed, Begun, Half, Slicing, Stands
<1>. QED
  BY <1>2 DEF LinedUp, Together

(***************************************************************************)
(* What the buffers hold and what the stores take from them.  Store i of   *)
(* a leader is of the slice it committed i-th: its group's tiles in turn,  *)
(* each tile's slices in turn, each slice in the buffer after the last.    *)
(***************************************************************************)
Leaders == {w \in Warps(launch) : Leader(w)}

SliceOf(t, e) ==
    [i \in 0 .. launch.warps - 1 |-> [tile |-> t, epi |-> e, acc |-> Sum(TileAt(t))]]

PingSlices == [t \in Nat |-> [e \in Nat |-> SliceOf(t, e)]]

PingPlan ==
    [w \in Warps(launch) |->
       [i \in Nat \ {0} |->
          [buf |-> ((i - 1) % launch.epiTiles) % launch.epiStages,
           tile |-> Linear(2 * ((i - 1) \div launch.epiTiles) + w[1]),
           epi |-> (i - 1) % launch.epiTiles]]]

PingStores ==
    \E lead, plan, slice :
       /\ lead = Leaders /\ plan = PingPlan /\ slice = PingSlices
       /\ Committed(lead, plan, slice) /\ OutputOf(slice)

\* A buffer is what the warps of a group wrote there.
PingBuffers ==
    /\ DOMAIN sC = 0 .. launch.epiStages - 1
    /\ \A b \in DOMAIN sC : /\ sC[b] = [i \in DOMAIN sC[b] |-> sC[b][i]]
                            /\ DOMAIN sC[b] \subseteq 0 .. launch.warps - 1

Ready(w) ==
    /\ pc[w] = "sync2" =>
         w[2] \in DOMAIN sC[EpiBuffer(w)] /\ sC[EpiBuffer(w)][w[2]] = Part(w)
    /\ pc[w] = "store" =>
         sC[EpiBuffer(w)] = SliceOf(Linear(warp[w].executed), warp[w].epi)

\* How many stores a leader has committed, and which of them are read.
Lengths(w) ==
    /\ Leader(w) => Len(stores[w]) = Begun(Done(w), w) +
                      (IF pc[w] \in {"acquire", "finish"} THEN 1 ELSE 0)
    /\ \A i \in DOMAIN stores[w] : i <= launch.epiTiles * Done(w) => stores[w][i].read
    /\ pc[w] # "acquire" => AtMostUnread(w, launch.epiStages - 1)

EpilogueInv ==
    /\ Together
    /\ \A w \in Warps(launch) : Stands(w) /\ Ready(w) /\ Lengths(w)
    /\ PingBuffers /\ StoreShape /\ PingStores

\* What the launch says does not change.
LEMMA SliceThen ==
  ASSUME launch' = launch
  PROVE  /\ Warps(launch)' = Warps(launch) /\ Leaders' = Leaders
         /\ PingPlan' = PingPlan /\ PingSlices' = PingSlices
         /\ \A t, e : SliceOf(t, e)' = SliceOf(t, e)
<1>1. \A f : Sum(f)' = Sum(f)
  BY DEF Sum, Partial, Piece
<1>2. \A t : TileAt(t)' = TileAt(t)
  BY DEF TileAt, Content, Source, TileM, TileN
<1>3. \A t : Sum(TileAt(t))' = Sum(TileAt(t))
  BY <1>1, <1>2
<1>4. \A t, e : SliceOf(t, e)' = SliceOf(t, e)
  BY <1>3 DEF SliceOf
<1>5. PingSlices' = PingSlices
  BY <1>4 DEF PingSlices
<1>6. PingPlan' = PingPlan
  BY DEF PingPlan, Linear
<1>. QED
  BY <1>4, <1>5, <1>6 DEF Leaders, Leader

\* No two stores of the leaders are of the same slice.
LEMMA PingDistinct ==
  ASSUME launch \in PingLaunches, NEW lead, NEW plan, lead = Leaders, plan = PingPlan
  PROVE  Distinct(lead, plan)
<1>. DEFINE m == launch.epiTiles
<1>1. m \in Nat /\ m > 0 /\ launch.cta \in Nat /\ launch.grid \in Nat /\ launch.grid > 0
  BY DEF PingLaunches, Launches, Positive
<1>. SUFFICES ASSUME NEW v \in lead, NEW w \in lead, NEW i \in Nat \ {0}, NEW j \in Nat \ {0},
                     plan[v][i].tile = plan[w][j].tile, plan[v][i].epi = plan[w][j].epi
              PROVE  v = w /\ i = j
  BY DEF Distinct
<1>2. /\ v \in Warps(launch) /\ w \in Warps(launch) /\ Leader(v) /\ Leader(w)
      /\ v[1] = 0 \/ v[1] = 1
      /\ w[1] = 0 \/ w[1] = 1
  BY WarpGroup DEF Leaders
<1>. DEFINE a == (i - 1) \div m  b == (j - 1) \div m
            x == (i - 1) % m  y == (j - 1) % m
<1>3. /\ a \in Nat /\ b \in Nat
      /\ i - 1 = m * a + x /\ j - 1 = m * b + y
  <2>1. i - 1 \in Nat /\ j - 1 \in Nat
    OBVIOUS
  <2>. HIDE DEF m
  <2>. QED
    BY <1>1, <2>1, Division
<1>4. /\ Linear(2 * a + v[1]) = Linear(2 * b + w[1])
      /\ x = y
  BY <1>2 DEF PingPlan
<1>. HIDE DEF a, b, x, y
<1>5. 2 * a + v[1] = 2 * b + w[1]
  <2>. DEFINE p == 2 * a + v[1]  q == 2 * b + w[1]
  <2>1. p \in Nat /\ q \in Nat
    BY <1>2, <1>3
  <2>2. launch.cta + launch.grid * p = launch.cta + launch.grid * q
    BY <1>4 DEF Linear
  <2>. HIDE DEF p, q
  <2>3. \A g \in Nat, c \in Nat : g > 0 /\ c + g * p = c + g * q => p = q
    BY <2>1
  <2>4. p = q
    BY <1>1, <2>1, <2>2, <2>3
  <2>. QED
    BY <2>4 DEF p, q
<1>6. a = b /\ v[1] = w[1]
  BY <1>2, <1>3, <1>5
<1>7. i = j
  <2>1. i - 1 = j - 1
    BY <1>3, <1>4, <1>6
  <2>. QED
    BY <2>1
<1>8. v = w
  BY <1>2, <1>6 DEF Leader, Warps
<1>. QED
  BY <1>7, <1>8

\* Nothing is written, committed or read.
LEMMA PingStoresKept ==
  ASSUME PingStores, PingBuffers, StoreShape, UNCHANGED <<launch, sC, stores, out>>
  PROVE  PingStores' /\ PingBuffers' /\ StoreShape'
<1>1. PICK lead, plan, slice :
        /\ lead = Leaders /\ plan = PingPlan /\ slice = PingSlices
        /\ Committed(lead, plan, slice) /\ OutputOf(slice)
  BY DEF PingStores
<1>2. Committed(lead, plan, slice)' /\ OutputOf(slice)'
  BY <1>1, StoresStill
<1>3. lead = Leaders' /\ plan = PingPlan' /\ slice = PingSlices'
  BY <1>1, SliceThen
<1>4. PingStores'
  BY <1>2, <1>3 DEF PingStores
<1>5. PingBuffers' /\ StoreShape'
  BY DEF PingBuffers, StoreShape
<1>. QED
  BY <1>4, <1>5

LEMMA ReadyStill ==
  ASSUME launch' = launch, sC' = sC, NEW v, Ready(v),
         pc'[v] \in {"sync2", "store"} => pc'[v] = pc[v] /\ warp'[v] = warp[v]
  PROVE  Ready(v)'
<1>1. \A t, e : SliceOf(t, e)' = SliceOf(t, e)
  BY SliceThen
<1>2. CASE pc'[v] \notin {"sync2", "store"}
  BY <1>2 DEF Ready
<1>3. CASE pc'[v] = pc[v] /\ warp'[v] = warp[v]
  <2>1. /\ EpiBuffer(v)' = EpiBuffer(v) /\ Part(v)' = Part(v)
        /\ Linear(warp[v].executed)' = Linear(warp[v].executed)
    BY <1>3 DEF EpiBuffer, Part, Linear
  <2>. QED
    BY <1>1, <1>3, <2>1 DEF Ready
<1>. QED
  BY <1>2, <1>3

LEMMA LengthsStill ==
  ASSUME launch' = launch, NEW v, stores'[v] = stores[v], Lengths(v),
         Done(v)' = Done(v), Begun(Done(v), v)' = Begun(Done(v), v),
         Leader(v) => (pc'[v] \in {"acquire", "finish"} <=> pc[v] \in {"acquire", "finish"}),
         pc[v] = "acquire" => pc'[v] = "acquire"
  PROVE  Lengths(v)'
<1>1. Leader(v) => Len(stores'[v]) = Begun(Done(v), v)' +
                      (IF pc'[v] \in {"acquire", "finish"} THEN 1 ELSE 0)
  BY DEF Lengths
<1>2. \A i \in DOMAIN stores'[v] :
         i <= launch.epiTiles * Done(v)' => stores'[v][i].read
  BY DEF Lengths
<1>3. pc'[v] # "acquire" => AtMostUnread(v, launch.epiStages - 1)'
  BY DEF Lengths, AtMostUnread
<1>. QED
  BY <1>1, <1>2, <1>3 DEF Lengths, Leader

\* A warp that does not move.
LEMMA WarpStill ==
  ASSUME launch' = launch, sC' = sC, NEW v, stores'[v] = stores[v],
         Stands(v), Ready(v), Lengths(v), pc'[v] = pc[v], warp'[v] = warp[v]
  PROVE  Stands(v)' /\ Ready(v)' /\ Lengths(v)'
<1>1. Stands(v)'
  BY DEF Stands, Leader, LastSlice
<1>2. Done(v)' = Done(v) /\ Begun(Done(v), v)' = Begun(Done(v), v)
  BY SamePassed DEF Half
<1>. QED
  BY <1>1, <1>2, ReadyStill, LengthsStill

\* The main loop, and the steps of the loader and of the loads.
LEMMA EpilogueStill ==
  ASSUME PingInv, EpilogueInv, UNCHANGED <<launch, sC, stores, out>>,
         \A v \in Warps(launch) :
            \/ pc'[v] = pc[v] /\ warp'[v] = warp[v]
            \/ /\ pc[v] \notin Slicing /\ warp'[v].executed = warp[v].executed
               /\ \/ pc'[v] \notin Slicing
                  \/ pc'[v] = "epilogue" /\ warp'[v].epi = 0
  PROVE  EpilogueInv'
<1>1. ASSUME NEW v \in Warps(launch)
      PROVE  Passed(Done(v), v)' = Passed(Done(v), v) /\ (Stands(v) /\ Ready(v) /\ Lengths(v))'
  <2>1. Stands(v) /\ Ready(v) /\ Lengths(v)
    BY DEF EpilogueInv
  <2>2. CASE pc'[v] = pc[v] /\ warp'[v] = warp[v]
    BY <2>1, <2>2, WarpStill, SamePassed DEF Half
  <2>3. CASE /\ pc[v] \notin Slicing /\ warp'[v].executed = warp[v].executed
             /\ \/ pc'[v] \notin Slicing
                \/ pc'[v] = "epilogue" /\ warp'[v].epi = 0
    <3>1. Done(v)' = Done(v)
      BY <2>3 DEF Done
    <3>2. Begun(Done(v), v)' = Begun(Done(v), v)
      <4>1. launch.epiTiles * Done(v) \in Nat
        BY SliceNumbers
      <4>. QED
        BY <2>3, <3>1, <4>1 DEF Begun
    <3>3. Half(v) = 0 /\ Half(v)' = 0
      BY <2>3 DEF Half, Slicing
    <3>4. Stands(v)' /\ Ready(v)'
      BY <2>3 DEF Stands, Ready, Slicing
    <3>5. Lengths(v)'
      BY <2>1, <2>3, <3>1, <3>2, LengthsStill DEF Slicing
    <3>. QED
      BY <3>1, <3>2, <3>3, <3>4, <3>5 DEF Passed
  <2>. QED
    BY <2>2, <2>3
<1>2. Together'
  BY <1>1, TogetherKept DEF EpilogueInv
<1>3. PingStores' /\ PingBuffers' /\ StoreShape'
  BY PingStoresKept DEF EpilogueInv
<1>. QED
  BY <1>1, <1>2, <1>3 DEF EpilogueInv

\* A tile is behind a warp when its last slice is: its stores are all read.
LEMMA EpilogueFinish ==
  ASSUME PingInv, EpilogueInv, NEW w \in Warps(launch), FinishTile(w)
  PROVE  EpilogueInv'
<1>1. /\ UNCHANGED <<launch, sC, stores, out>> /\ pc[w] = "finish" /\ AtMostUnread(w, 0)
      /\ pc' = [pc EXCEPT ![w] = "start"]
  BY DEF FinishTile, UnchangedButWarp, Go
<1>2. warp'[w].executed = warp[w].executed + 2 /\ OthersKept(w)
  BY FinishTileRegisters DEF PingInv, PingBasics
<1>3. pc \in [Warps(launch) -> Places]
  BY DEF PingInv, PingBasics, OrderInv, Shape
<1>4. /\ pc'[w] = "start"
      /\ \A v \in Warps(launch) : v # w => pc'[v] = pc[v] /\ warp'[v] = warp[v]
  BY <1>1, <1>2, <1>3 DEF OthersKept
<1>5. Stands(w) /\ Ready(w) /\ Lengths(w)
  BY DEF EpilogueInv
<1>6. /\ Begun(Done(w), w)' \in Nat
      /\ Begun(Done(w), w)' = Begun(Done(w), w) + 1
      /\ Passed(Done(w), w)' = Passed(Done(w), w)
  BY <1>1, <1>2, <1>4, <1>5, AfterTile
<1>7. \A i \in DOMAIN stores[w] : stores[w][i].read
  <2>1. stores[w] \in Seq(StoreRecords)
    BY DEF EpilogueInv, StoreShape
  <2>2. \A i \in DOMAIN stores[w] : i <= Len(stores[w]) - 0
    BY <2>1
  <2>. QED
    BY <1>1, <2>2 DEF AtMostUnread
<1>8. (Stands(w) /\ Ready(w) /\ Lengths(w))'
  <2>1. Stands(w)' /\ Ready(w)'
    BY <1>4 DEF Stands, Ready
  <2>2. Leader(w) => Len(stores[w]) = Begun(Done(w), w) + 1
    BY <1>1, <1>5 DEF Lengths
  <2>3. Leader(w) => Len(stores'[w]) = Begun(Done(w), w)' + 0
    BY <1>1, <1>6, <2>2
  <2>4. \A i \in DOMAIN stores'[w] : stores'[w][i].read
    BY <1>1, <1>7
  <2>5. Lengths(w)'
    BY <1>4, <2>3, <2>4 DEF Lengths, Leader, AtMostUnread
  <2>. QED
    BY <2>1, <2>5
<1>9. ASSUME NEW v \in Warps(launch)
      PROVE  Passed(Done(v), v)' = Passed(Done(v), v) /\ (Stands(v) /\ Ready(v) /\ Lengths(v))'
  <2>1. CASE v = w
    BY <1>6, <1>8, <2>1
  <2>2. CASE v # w
    BY <1>1, <1>4, <2>2, WarpStill, SamePassed DEF Half, EpilogueInv
  <2>. QED
    BY <2>1, <2>2
<1>10. Together'
  BY <1>1, <1>9, TogetherKept DEF EpilogueInv
<1>11. PingStores' /\ PingBuffers' /\ StoreShape'
  BY <1>1, PingStoresKept DEF EpilogueInv
<1>. QED
  BY <1>1, <1>9, <1>10, <1>11 DEF EpilogueInv

\* The barrier before the write.
LEMMA EpilogueSync ==
  ASSUME PingInv, EpilogueInv, NEW w \in Warps(launch), SyncBeforeWrite(w)
  PROVE  EpilogueInv'
<1>1. UNCHANGED <<launch, sC, stores, out>> /\ pc[w] = "epilogue" /\ Sync(w, "sync1")
  BY DEF SyncBeforeWrite, UnchangedButWarp
<1>2. Waits(w, "sync1") \/ Opens(w, "sync1")
  BY <1>1, BarrierOutcome DEF EpilogueInv
<1>3. pc \in [Warps(launch) -> Places]
  BY DEF PingInv, PingBasics, OrderInv, Shape
<1>4. PingStores' /\ PingBuffers' /\ StoreShape'
  BY <1>1, PingStoresKept DEF EpilogueInv
<1>5. ASSUME NEW v \in Warps(launch),
             \/ pc'[v] = pc[v]
             \/ pc[v] = "epilogue" /\ pc'[v] = "sync1"
             \/ pc[v] \in {"epilogue", "sync1"} /\ pc'[v] = "write",
             warp'[v] = warp[v]
      PROVE  /\ (Stands(v) /\ Ready(v) /\ Lengths(v))'
             /\ pc'[v] # "write" \/ pc'[v] = pc[v] => Passed(Done(v), v)' = Passed(Done(v), v)
  <2>1. Stands(v) /\ Ready(v) /\ Lengths(v)
    BY DEF EpilogueInv
  <2>2. CASE pc'[v] = pc[v]
    BY <1>1, <1>5, <2>1, <2>2, WarpStill, SamePassed DEF Half
  <2>3. CASE pc[v] \in {"epilogue", "sync1"} /\ pc'[v] \in {"sync1", "write"}
    <3>1. Stands(v)' /\ Ready(v)'
      BY <2>3 DEF Stands, Ready
    <3>2. Done(v)' = Done(v)
      BY <1>5 DEF Done
    <3>3. Begun(Done(v), v)' = Begun(Done(v), v)
      BY <1>1, <1>5, <2>3, <3>2 DEF Begun, Slicing
    <3>4. Lengths(v)'
      BY <1>1, <2>1, <2>3, <3>2, <3>3, LengthsStill
    <3>5. pc'[v] # "write" => Half(v)' = Half(v)
      BY <2>3 DEF Half
    <3>6. pc'[v] # pc[v] \/ Half(v)' = Half(v)
      BY DEF Half
    <3>. QED
      BY <3>1, <3>2, <3>3, <3>4, <3>5, <3>6 DEF Passed
  <2>. QED
    BY <1>5, <2>2, <2>3
<1>6. CASE Waits(w, "sync1")
  <2>1. /\ pc'[w] = "sync1" /\ warp' = warp
        /\ \A v \in Warps(launch) : v # w => pc'[v] = pc[v]
    BY <1>3, <1>6 DEF Waits
  <2>2. \A v \in Warps(launch) :
          Passed(Done(v), v)' = Passed(Done(v), v) /\ (Stands(v) /\ Ready(v) /\ Lengths(v))'
    BY <1>1, <1>5, <2>1
  <2>3. Together'
    BY <1>1, <2>2, TogetherKept DEF EpilogueInv
  <2>. QED
    BY <1>1, <1>4, <2>2, <2>3 DEF EpilogueInv
<1>7. CASE Opens(w, "sync1")
  <2>1. Together'
    BY <1>1, <1>7, TogetherOpens DEF EpilogueInv
  <2>2. ASSUME NEW v \in Warps(launch) PROVE (Stands(v) /\ Ready(v) /\ Lengths(v))'
    <3>1. CASE v[1] # w[1]
      BY <1>5, <1>7, <3>1 DEF Opens
    <3>2. CASE v[1] = w[1]
      <4>1. GoesOn(v, "sync1") /\ (v = w \/ pc[v] = "sync1")
        BY <1>7, <3>2 DEF Opens
      <4>. QED
        BY <1>1, <1>5, <4>1 DEF GoesOn
    <3>. QED
      BY <3>1, <3>2
  <2>. QED
    BY <1>1, <1>4, <2>1, <2>2 DEF EpilogueInv
<1>. QED
  BY <1>2, <1>6, <1>7

\* The leader goes on when few enough of its stores are unread.
LEMMA EpilogueAcquire ==
  ASSUME PingInv, EpilogueInv, NEW w \in Warps(launch), AcquireBuffer(w)
  PROVE  EpilogueInv'
<1>1. /\ UNCHANGED <<launch, sC, stores, out>> /\ pc[w] = "acquire"
      /\ AtMostUnread(w, launch.epiStages - 1)
      /\ pc' = [pc EXCEPT ![w] = SliceDone(w)] /\ warp' = [warp EXCEPT ![w] = NextSlice(w)]
  BY DEF AcquireBuffer, UnchangedInLoop, UnchangedButWarp, Go
<1>2. pc \in [Warps(launch) -> Places] /\ RegisterShape /\ DOMAIN warp = Warps(launch)
  BY DEF PingInv, PingBasics, OrderInv, Shape, RegisterShape
<1>3. /\ pc'[w] = SliceDone(w) /\ warp'[w] = NextSlice(w)
      /\ \A v \in Warps(launch) : v # w => pc'[v] = pc[v] /\ warp'[v] = warp[v]
  BY <1>1, <1>2
<1>4. Stands(w) /\ Ready(w) /\ Lengths(w)
  BY DEF EpilogueInv
<1>5. /\ Done(w)' = Done(w)
      /\ Passed(Done(w), w)' = 2 * Begun(Done(w), w) + 2
      /\ Begun(Done(w), w)' + (IF pc'[w] = "finish" THEN 1 ELSE 0) = Begun(Done(w), w) + 1
  BY <1>1, <1>3, AfterSlice DEF Slicing
<1>6. Passed(Done(w), w)' = Passed(Done(w), w)
  BY <1>1, <1>5 DEF Passed, Half
<1>7. (Stands(w) /\ Ready(w) /\ Lengths(w))'
  <2>1. pc'[w] \in {"finish", "epilogue"} /\ (pc'[w] = "finish" => LastSlice(w))
    BY <1>3 DEF SliceDone
  <2>2. pc'[w] = "finish" => LastSlice(w)'
    <3>1. warp'[w].epi = IF LastSlice(w) THEN warp[w].epi ELSE warp[w].epi + 1
      BY <1>2, <1>3, SliceRegisters
    <3>. QED
      BY <1>1, <2>1, <3>1 DEF LastSlice
  <2>3. Stands(w)' /\ Ready(w)'
    BY <2>1, <2>2 DEF Stands, Ready
  <2>4. Leader(w) => Len(stores'[w]) = Begun(Done(w), w)' +
                       (IF pc'[w] \in {"acquire", "finish"} THEN 1 ELSE 0)
    BY <1>1, <1>4, <1>5, <2>1 DEF Lengths
  <2>5. \A i \in DOMAIN stores'[w] :
          i <= launch.epiTiles * Done(w)' => stores'[w][i].read
    BY <1>1, <1>4, <1>5 DEF Lengths
  <2>6. AtMostUnread(w, launch.epiStages - 1)'
    BY <1>1 DEF AtMostUnread
  <2>7. Lengths(w)'
    BY <1>1, <2>4, <2>5, <2>6 DEF Lengths, Leader
  <2>. QED
    BY <2>3, <2>7
<1>8. ASSUME NEW v \in Warps(launch)
      PROVE  Passed(Done(v), v)' = Passed(Done(v), v) /\ (Stands(v) /\ Ready(v) /\ Lengths(v))'
  <2>1. CASE v = w
    BY <1>6, <1>7, <2>1
  <2>2. CASE v # w
    BY <1>1, <1>3, <2>2, WarpStill, SamePassed DEF Half, EpilogueInv
  <2>. QED
    BY <2>1, <2>2
<1>9. Together'
  BY <1>1, <1>8, TogetherKept DEF EpilogueInv
<1>10. PingStores' /\ PingBuffers' /\ StoreShape'
  BY <1>1, PingStoresKept DEF EpilogueInv
<1>. QED
  BY <1>1, <1>8, <1>9, <1>10 DEF EpilogueInv

\* A store is committed of a slice that is whole.
LEMMA EpilogueStore ==
  ASSUME PingInv, EpilogueInv, NEW w \in Warps(launch), StoreSlice(w)
  PROVE  EpilogueInv'
<1>. DEFINE m == launch.epiTiles  d == Done(w)  e == warp[w].epi
            t == Linear(warp[w].executed)
<1>0. PICK r : r = [buf |-> EpiBuffer(w), tile |-> t, epi |-> e, read |-> FALSE]
  OBVIOUS
<1>1. /\ UNCHANGED <<launch, warp, sC, out>> /\ pc[w] = "store"
      /\ stores' = [stores EXCEPT ![w] = Append(@, r)]
      /\ pc' = [pc EXCEPT ![w] = "acquire"]
  BY <1>0 DEF StoreSlice, UnchangedButWarp, Go
<1>2. pc \in [Warps(launch) -> Places] /\ launch \in PingLaunches
  BY DEF PingInv, PingBasics, OrderInv, Shape
<1>3. pc'[w] = "acquire" /\ \A v \in Warps(launch) : v # w => pc'[v] = pc[v]
  BY <1>1, <1>2
<1>4. Stands(w) /\ Ready(w) /\ Lengths(w) /\ Leader(w)
  BY <1>1 DEF EpilogueInv, Stands
<1>5. /\ m \in Nat /\ m > 0 /\ d \in Nat /\ e \in Nat /\ e < m /\ m * d \in Nat
      /\ warp[w].executed = 2 * d + w[1] /\ (w[1] = 0 \/ w[1] = 1)
  BY <1>2, SliceNumbers, DoneTiles, WarpGroup
<1>6. Len(stores[w]) = m * d + e
  <2>1. Len(stores[w]) = Begun(d, w) + 0
    BY <1>1, <1>4 DEF Lengths
  <2>. DEFINE x == m * d
  <2>2. Begun(d, w) = x + e /\ x \in Nat
    BY <1>1, <1>5 DEF Begun, Slicing
  <2>. HIDE DEF x
  <2>3. Len(stores[w]) = x + e
    BY <1>5, <2>1, <2>2
  <2>. QED
    BY <2>3 DEF x
<1>7. r \in StoreRecords /\ t \in Nat
  <2>1. /\ launch.cta \in Nat /\ launch.grid \in Nat
        /\ launch.epiStages \in Nat /\ launch.epiStages > 0
    BY <1>2 DEF PingLaunches, Launches, Positive
  <2>2. warp[w].executed \in Nat
    BY <1>5
  <2>3. t \in Nat
    BY <2>1, <2>2 DEF Linear
  <2>4. EpiBuffer(w) \in Nat
    BY <1>5, <2>1, Division DEF EpiBuffer
  <2>. HIDE DEF t
  <2>. QED
    BY <1>0, <1>5, <2>3, <2>4 DEF StoreRecords
<1>8. PICK lead, plan, slice :
        /\ lead = Leaders /\ plan = PingPlan /\ slice = PingSlices
        /\ Committed(lead, plan, slice) /\ OutputOf(slice)
  BY DEF EpilogueInv, PingStores
<1>9. w \in lead
  BY <1>4, <1>8 DEF Leaders
<1>. DEFINE n == Len(stores[w]) + 1
<1>10. r.buf = plan[w][n].buf /\ r.tile = plan[w][n].tile /\ r.epi = plan[w][n].epi
  <2>1. n - 1 = m * d + e /\ n \in Nat \ {0}
    <3>. DEFINE x == m * d
    <3>1. x \in Nat /\ Len(stores[w]) = x + e
      BY <1>5, <1>6
    <3>. HIDE DEF x
    <3>2. n - 1 = x + e /\ n \in Nat \ {0}
      BY <1>5, <3>1
    <3>. QED
      BY <3>2 DEF x
  <2>2. (n - 1) \div m = d /\ (n - 1) % m = e
    <3>1. (m * d + e) \div m = d /\ (m * d + e) % m = e
      <4>. HIDE DEF m, d, e
      <4>. QED
        BY <1>5, Quotient
    <3>. QED
      BY <2>1, <3>1
  <2>. HIDE DEF n
  <2>3. plan[w][n] = [buf |-> ((n - 1) % m) % launch.epiStages,
                      tile |-> Linear(2 * ((n - 1) \div m) + w[1]), epi |-> (n - 1) % m]
    BY <1>8, <2>1 DEF PingPlan
  <2>. QED
    BY <1>0, <1>5, <2>2, <2>3 DEF EpiBuffer
<1>11. sC[r.buf] = slice[r.tile][r.epi]
  <2>1. sC[EpiBuffer(w)] = SliceOf(t, e)
    BY <1>1, <1>4 DEF Ready
  <2>2. slice[t][e] = SliceOf(t, e)
    BY <1>5, <1>7, <1>8 DEF PingSlices
  <2>. QED
    BY <1>0, <2>1, <2>2
<1>12. StoreShape
  BY DEF EpilogueInv
<1>13. /\ StoreShape' /\ Committed(lead, plan, slice)' /\ OutputOf(slice)'
       /\ Len(stores'[w]) = n
       /\ \A i \in DOMAIN stores[w] : i \in DOMAIN stores'[w] /\ stores'[w][i] = stores[w][i]
  <2>1. r \in StoreRecords /\ UNCHANGED <<launch, sC, out>>
    BY <1>1, <1>7
  <2>2. Committed(lead, plan, slice) /\ OutputOf(slice)
    BY <1>8
  <2>3. Commits(w, r)
    BY <1>1 DEF Commits
  <2>. QED
    BY <1>9, <1>10, <1>11, <1>12, <2>1, <2>2, <2>3, StoresCommit
<1>. HIDE DEF n
<1>14. PingStores'
  <2>1. lead = Leaders' /\ plan = PingPlan' /\ slice = PingSlices'
    BY <1>1, <1>8, SliceThen
  <2>. QED
    BY <1>13, <2>1 DEF PingStores
<1>15. Done(w)' = d /\ Begun(Done(w), w)' = Begun(d, w) /\ Half(w)' = Half(w)
  BY <1>1, <1>3 DEF Done, Begun, Half, Slicing
<1>16. (Stands(w) /\ Ready(w) /\ Lengths(w))'
  <2>1. Stands(w)' /\ Ready(w)'
    BY <1>3, <1>4 DEF Stands, Ready, Leader
  <2>2. Len(stores'[w]) = Begun(Done(w), w)' + 1
    <3>1. Len(stores[w]) = Begun(d, w) + 0 /\ Begun(d, w) \in Nat
      BY <1>1, <1>4, SliceNumbers DEF Lengths
    <3>. QED
      BY <1>13, <1>15, <3>1 DEF n
  <2>3. ASSUME NEW i \in DOMAIN stores'[w], i <= m * Done(w)'
        PROVE  stores'[w][i].read
    <3>1. stores[w] \in Seq(StoreRecords) /\ stores'[w] \in Seq(StoreRecords)
      BY <1>1, <1>12, <1>13 DEF StoreShape
    <3>. DEFINE x == m * d
    <3>2. x \in Nat /\ Len(stores[w]) = x + e
      BY <1>5, <1>6
    <3>3. i <= x
      BY <1>15, <2>3
    <3>. HIDE DEF x
    <3>4. i \in DOMAIN stores[w]
      BY <1>5, <1>13, <3>1, <3>2, <3>3 DEF n
    <3>5. stores[w][i].read
      BY <1>4, <3>3, <3>4 DEF Lengths, x
    <3>. QED
      BY <1>13, <3>4, <3>5
  <2>4. Lengths(w)'
    BY <1>1, <1>3, <2>2, <2>3 DEF Lengths, Leader
  <2>. QED
    BY <2>1, <2>4
<1>17. ASSUME NEW v \in Warps(launch)
       PROVE  Passed(Done(v), v)' = Passed(Done(v), v) /\ (Stands(v) /\ Ready(v) /\ Lengths(v))'
  <2>1. CASE v = w
    BY <1>15, <1>16, <2>1 DEF Passed
  <2>2. CASE v # w
    <3>1. pc'[v] = pc[v] /\ warp'[v] = warp[v] /\ stores'[v] = stores[v]
      BY <1>1, <1>3, <1>12, <2>2 DEF StoreShape
    <3>. QED
      BY <1>1, <3>1, WarpStill, SamePassed DEF Half, EpilogueInv
  <2>. QED
    BY <2>1, <2>2
<1>18. Together'
  BY <1>1, <1>17, TogetherKept DEF EpilogueInv
<1>19. PingBuffers'
  BY <1>1 DEF EpilogueInv, PingBuffers
<1>. QED
  BY <1>1, <1>13, <1>14, <1>17, <1>18, <1>19 DEF EpilogueInv

\* A store is read while its buffer is still its own.
LEMMA EpilogueRead ==
  ASSUME PingInv, EpilogueInv, NEW w \in Warps(launch), NEW i \in DOMAIN stores[w],
         ReadStore(w, i)
  PROVE  EpilogueInv'
<1>1. UNCHANGED <<launch, pc, warp, sC>>
  BY DEF ReadStore
<1>2. PICK lead, plan, slice :
        /\ lead = Leaders /\ plan = PingPlan /\ slice = PingSlices
        /\ Committed(lead, plan, slice) /\ OutputOf(slice)
  BY DEF EpilogueInv, PingStores
<1>3. Distinct(lead, plan)
  BY <1>2, PingDistinct DEF PingInv, PingBasics, OrderInv, Shape
<1>4. StoreShape' /\ Committed(lead, plan, slice)' /\ OutputOf(slice)' /\ ReadsKept
  BY <1>2, <1>3, StoresRead DEF EpilogueInv
<1>5. PingStores'
  <2>1. lead = Leaders' /\ plan = PingPlan' /\ slice = PingSlices'
    BY <1>1, <1>2, SliceThen
  <2>. QED
    BY <1>4, <2>1 DEF PingStores
<1>6. ASSUME NEW v \in Warps(launch)
      PROVE  Passed(Done(v), v)' = Passed(Done(v), v) /\ (Stands(v) /\ Ready(v) /\ Lengths(v))'
  <2>1. Stands(v) /\ Ready(v) /\ Lengths(v)
    BY DEF EpilogueInv
  <2>2. Stands(v)'
    BY <1>1, <2>1 DEF Stands, Leader, LastSlice
  <2>3. Ready(v)'
    BY <1>1, <2>1, ReadyStill
  <2>4. /\ Done(v)' = Done(v) /\ Begun(Done(v), v)' = Begun(Done(v), v)
        /\ Passed(Done(v), v)' = Passed(Done(v), v)
    BY <1>1, SamePassed DEF Half
  <2>5. Lengths(v)'
    <3>1. /\ DOMAIN stores'[v] = DOMAIN stores[v] /\ Len(stores'[v]) = Len(stores[v])
          /\ \A k \in DOMAIN stores[v] : stores[v][k].read => stores'[v][k].read
      BY <1>4 DEF ReadsKept
    <3>2. \A n : AtMostUnread(v, n) => AtMostUnread(v, n)'
      BY <3>1 DEF AtMostUnread
    <3>. QED
      BY <1>1, <2>1, <2>4, <3>1, <3>2 DEF Lengths, Leader
  <2>. QED
    BY <2>2, <2>3, <2>4, <2>5
<1>7. Together'
  BY <1>1, <1>6, TogetherKept DEF EpilogueInv
<1>8. PingBuffers'
  BY <1>1 DEF EpilogueInv, PingBuffers
<1>. QED
  BY <1>1, <1>4, <1>5, <1>6, <1>7, <1>8 DEF EpilogueInv

\* A warp at the write of a slice: no store of either group still has to read
\* the buffer, and the warps of its group that are between the barriers are at
\* the same slice.
LEMMA WriterAlone ==
  ASSUME PingInv, EpilogueInv, NEW w \in Warps(launch), pc[w] = "write", NEW v \in Warps(launch)
  PROVE  /\ v[1] # w[1] => pc[v] \notin Epilogue
         /\ v[1] = w[1] => /\ pc[v] \in {"write", "sync2"} /\ Done(v) = Done(w)
                           /\ warp[v].epi = warp[w].epi
<1>1. OneGroupPerPart /\ launch.schedule = "pingpong" /\ launch \in PingLaunches
  BY OrderApart DEF PingInv, PingBasics, OrderInv, Shape, PingLaunches, Launches
<1>2. v[1] # w[1] => pc[v] \notin Epilogue
  BY <1>1 DEF OneGroupPerPart, Epilogue
<1>3. ASSUME v[1] = w[1]
      PROVE  /\ pc[v] \in {"write", "sync2"} /\ Done(v) = Done(w)
             /\ warp[v].epi = warp[w].epi
  <2>1. Passed(Done(v), v) = Passed(Done(w), w)
    BY <1>3 DEF EpilogueInv, Together
  <2>2. /\ warp[v].epi \in 0 .. launch.epiTiles - 1 /\ warp[w].epi \in 0 .. launch.epiTiles - 1
        /\ Done(v) \in Nat /\ Done(w) \in Nat
        /\ launch.epiTiles \in Nat /\ launch.epiTiles > 0
    BY <1>1, PingTypes, DoneTiles, LaunchNumbers
  <2>3. pc[v] \in {"write", "sync2"}
    <3>1. warp[v].epi \in Nat /\ warp[w].epi \in Nat
      BY <2>2
    <3>. QED
      BY <2>1, <2>2, <3>1, BetweenBarriers
  <2>4. Done(v) = Done(w) /\ warp[v].epi = warp[w].epi
    <3>1. /\ pc[v] \in {"epilogue", "sync1", "write", "sync2"}
          /\ pc[w] \in {"epilogue", "sync1", "write", "sync2"}
      BY <2>3
    <3>. QED
      BY <2>1, <2>2, <3>1, SamePoint
  <2>. QED
    BY <2>3, <2>4
<1>. QED
  BY <1>2, <1>3

LEMMA BufferFree ==
  ASSUME PingInv, EpilogueInv, NEW w \in Warps(launch), pc[w] = "write",
         NEW v \in Warps(launch), NEW i \in DOMAIN stores[v], ~stores[v][i].read
  PROVE  stores[v][i].buf # EpiBuffer(w) /\ stores[v][i].buf \in DOMAIN sC
<1>. DEFINE m == launch.epiTiles  S == launch.epiStages  d == Done(w)  e == warp[w].epi
<1>1. launch \in PingLaunches /\ Drained /\ stores[v] \in Seq(StoreRecords)
  BY DEF PingInv, PingBasics, OrderInv, Shape, EpilogueInv, StoreShape
<1>2. i \in Nat /\ i > 0 /\ i <= Len(stores[v]) /\ Len(stores[v]) \in Nat
  BY <1>1
<1>3. pc[v] \in Epilogue
  <2>. SUFFICES ASSUME pc[v] \notin Epilogue PROVE FALSE
    OBVIOUS
  <2>1. AtMostUnread(v, 0)
    BY <1>1 DEF Drained
  <2>2. i <= Len(stores[v]) - 0
    BY <1>2
  <2>. QED
    BY <2>1, <2>2 DEF AtMostUnread
<1>4. v[1] = w[1] /\ pc[v] \in {"write", "sync2"} /\ Done(v) = d /\ warp[v].epi = e
  BY <1>3, WriterAlone
<1>5. PICK lead, plan, slice :
        /\ lead = Leaders /\ plan = PingPlan /\ Committed(lead, plan, slice)
  BY DEF EpilogueInv, PingStores
<1>6. Leader(v)
  BY <1>1, <1>2, <1>5 DEF Committed, Leaders
<1>7. Lengths(v)
  BY DEF EpilogueInv
<1>8. /\ m \in Nat /\ m > 0 /\ d \in Nat /\ e \in Nat /\ e < m /\ m * d \in Nat
      /\ S \in Nat /\ S > 0
  BY <1>1, SliceNumbers DEF PingLaunches, Launches, Positive
<1>. DEFINE x == m * d  r == i - 1 - x
<1>9. Len(stores[v]) = x + e
  <2>1. Len(stores[v]) = Begun(Done(v), v) + 0
    BY <1>4, <1>6, <1>7 DEF Lengths
  <2>2. Begun(Done(v), v) = x + e
    BY <1>4 DEF Begun, Slicing
  <2>3. x \in Nat
    BY <1>8
  <2>. HIDE DEF x
  <2>. QED
    BY <1>8, <2>1, <2>2, <2>3
<1>10. i > x
  <2>1. ~(i <= x)
    BY <1>4, <1>7 DEF Lengths
  <2>2. x \in Nat
    BY <1>8
  <2>. HIDE DEF x
  <2>. QED
    BY <1>2, <2>1, <2>2
<1>11. ~(i <= Len(stores[v]) - (S - 1))
  BY <1>4, <1>7 DEF Lengths, AtMostUnread
<1>12. r \in Nat /\ r < e /\ e < r + S /\ i - 1 = x + r
  <2>1. x \in Nat
    BY <1>8
  <2>. HIDE DEF x, m, d, S, e
  <2>2. i < x + e + 1 /\ x + e < i + S - 1
    BY <1>2, <1>8, <1>9, <1>11, <2>1
  <2>. QED
    BY <1>2, <1>8, <1>10, <2>1, <2>2
<1>13. stores[v][i].buf = ((i - 1) % m) % S
  <2>1. stores[v][i].buf = plan[v][i].buf
    BY <1>5 DEF Committed
  <2>2. plan[v][i].buf = ((i - 1) % m) % S
    BY <1>2, <1>5 DEF PingPlan
  <2>. QED
    BY <2>1, <2>2
<1>14. (i - 1) % m = r
  <2>1. r < m
    BY <1>8, <1>12
  <2>. HIDE DEF r, m, d
  <2>2. (m * d + r) % m = r
    BY <1>8, <1>12, <2>1, Quotient
  <2>. QED
    BY <1>12, <2>2
<1>. HIDE DEF r
<1>15. r % S # e % S
  <2>. HIDE DEF S, e
  <2>1. r % S = e % S => r + S <= e
    BY <1>8, <1>12, SamePlace
  <2>. QED
    BY <1>8, <1>12, <2>1
<1>16. r % S \in 0 .. S - 1
  BY <1>8, <1>12, Division
<1>17. DOMAIN sC = 0 .. S - 1
  BY DEF EpilogueInv, PingBuffers
<1>. QED
  BY <1>13, <1>14, <1>15, <1>16, <1>17 DEF EpiBuffer

\* What the buffer of the slice holds after a warp has written its part.
Written(w) ==
    [i \in DOMAIN sC[EpiBuffer(w)] \cup {w[2]} |->
       IF i = w[2] THEN Part(w) ELSE sC[EpiBuffer(w)][i]]

\* When all of a group have written, the buffer holds the slice.
LEMMA SliceWhole ==
  ASSUME PingInv, PingSums, EpilogueInv, NEW w \in Warps(launch), pc[w] = "write",
         Opens(w, "sync2")
  PROVE  Written(w) = SliceOf(Linear(warp[w].executed), warp[w].epi)
<1>. DEFINE t == Linear(warp[w].executed)  e == warp[w].epi  b == EpiBuffer(w)
<1>1. launch \in PingLaunches
  BY DEF PingInv, PingBasics, OrderInv, Shape
<1>2. b \in DOMAIN sC /\ DOMAIN sC[b] \subseteq 0 .. launch.warps - 1
  <2>1. DOMAIN sC = 0 .. launch.epiStages - 1
    BY DEF EpilogueInv, PingBuffers
  <2>2. launch.epiStages \in Nat /\ launch.epiStages > 0 /\ e \in Nat
    BY <1>1, SliceNumbers DEF PingLaunches, Launches, Positive
  <2>3. b \in 0 .. launch.epiStages - 1
    BY <2>2, Division DEF EpiBuffer
  <2>. QED
    BY <2>1, <2>3 DEF EpilogueInv, PingBuffers
<1>3. ASSUME NEW i \in 0 .. launch.warps - 1
      PROVE  /\ i \in DOMAIN sC[b] \cup {w[2]}
             /\ (IF i = w[2] THEN Part(w) ELSE sC[b][i]) =
                   [tile |-> t, epi |-> e, acc |-> Sum(TileAt(t))]
  <2>1. PICK u \in Warps(launch) : u[1] = w[1] /\ u[2] = i
    <3>1. <<w[1], i>> \in Warps(launch)
      BY DEF Warps
    <3>. QED
      BY <3>1
  <2>2. /\ warp[u].executed = warp[w].executed /\ warp[u].epi = warp[w].epi
        /\ u # w => pc[u] = "sync2"
    BY <2>1 DEF Opens
  <2>3. Part(u) = [tile |-> t, epi |-> e, acc |-> Sum(TileAt(t))]
    <3>1. pc[u] \in Slicing
      BY <2>2 DEF Slicing
    <3>2. warp[u].acc = Sum(TileAt(Linear(warp[u].executed)))
      BY <3>1 DEF PingSums, Summed
    <3>. QED
      BY <2>2, <3>2 DEF Part
  <2>4. CASE u = w
    BY <2>1, <2>3, <2>4
  <2>5. CASE u # w
    <3>1. i # w[2]
      BY <2>1, <2>5 DEF Warps
    <3>2. EpiBuffer(u) = b
      BY <2>2 DEF EpiBuffer
    <3>3. i \in DOMAIN sC[b] /\ sC[b][i] = Part(u)
      BY <2>1, <2>2, <2>5, <3>2 DEF EpilogueInv, Ready
    <3>. QED
      BY <2>3, <3>1, <3>3
  <2>. QED
    BY <2>4, <2>5
<1>4. w[2] \in 0 .. launch.warps - 1
  BY DEF Warps
<1>5. DOMAIN sC[b] \cup {w[2]} = 0 .. launch.warps - 1
  BY <1>2, <1>3, <1>4
<1>. QED
  BY <1>3, <1>5 DEF Written, SliceOf

\* A warp that stores nothing has nothing to wait for.
LEMMA NoLengths ==
  ASSUME NEW v, ~Leader(v), stores'[v] = <<>>
  PROVE  Lengths(v)'
BY DEF Lengths, Leader, AtMostUnread

LEMMA EpilogueWrite ==
  ASSUME PingInv, PingSums, EpilogueInv, NEW w \in Warps(launch), WriteSlice(w)
  PROVE  EpilogueInv'
<1>0. PICK b, x : b = EpiBuffer(w) /\ x = Written(w)
  OBVIOUS
<1>1. /\ UNCHANGED <<launch, stores, out>> /\ pc[w] = "write" /\ Sync(w, "sync2")
      /\ sC' = [sC EXCEPT ![b] = x]
  BY <1>0 DEF WriteSlice, UnchangedButWarp, Written
<1>2. Waits(w, "sync2") \/ Opens(w, "sync2")
  BY <1>1, BarrierOutcome DEF EpilogueInv
<1>3. pc \in [Warps(launch) -> Places] /\ launch \in PingLaunches /\ RegisterShape
  BY DEF PingInv, PingBasics, OrderInv, Shape
<1>4. DOMAIN sC = 0 .. launch.epiStages - 1 /\ b \in DOMAIN sC
  <2>1. launch.epiStages \in Nat /\ launch.epiStages > 0 /\ warp[w].epi \in Nat
    BY <1>3, SliceNumbers DEF PingLaunches, Launches, Positive
  <2>2. b \in 0 .. launch.epiStages - 1
    BY <1>0, <2>1, Division DEF EpiBuffer
  <2>. QED
    BY <2>2 DEF EpilogueInv, PingBuffers
<1>5. /\ DOMAIN sC' = DOMAIN sC /\ sC'[b] = x
      /\ \A c \in DOMAIN sC : c # b => sC'[c] = sC[c]
  BY <1>1, <1>4
<1>6. /\ x = [i \in DOMAIN x |-> x[i]] /\ DOMAIN x = DOMAIN sC[b] \cup {w[2]}
      /\ x[w[2]] = Part(w)
      /\ \A i \in DOMAIN sC[b] : i # w[2] => x[i] = sC[b][i]
  BY <1>0 DEF Written
<1>7. PingBuffers'
  <2>1. w[2] \in 0 .. launch.warps - 1
    BY DEF Warps
  <2>2. DOMAIN x \subseteq 0 .. launch.warps - 1
    BY <1>4, <1>6, <2>1 DEF EpilogueInv, PingBuffers
  <2>. QED
    BY <1>1, <1>4, <1>5, <1>6, <2>2 DEF EpilogueInv, PingBuffers
<1>8. PingStores' /\ StoreShape'
  <2>1. PICK lead, plan, slice :
          /\ lead = Leaders /\ plan = PingPlan /\ slice = PingSlices
          /\ Committed(lead, plan, slice) /\ OutputOf(slice)
    BY DEF EpilogueInv, PingStores
  <2>2. \A v \in Warps(launch) : \A i \in DOMAIN stores[v] :
          ~stores[v][i].read => stores[v][i].buf # b /\ stores[v][i].buf \in DOMAIN sC
    BY <1>0, <1>1, BufferFree
  <2>3. Overwrites(b, x) /\ UNCHANGED <<launch, stores, out>>
    BY <1>1 DEF Overwrites
  <2>4. Committed(lead, plan, slice)' /\ OutputOf(slice)'
    BY <2>1, <2>2, <2>3, StoresWrite
  <2>5. lead = Leaders' /\ plan = PingPlan' /\ slice = PingSlices'
    BY <1>1, <2>1, SliceThen
  <2>6. StoreShape'
    BY <1>1 DEF EpilogueInv, StoreShape
  <2>. QED
    BY <2>4, <2>5, <2>6 DEF PingStores
<1>9. ASSUME NEW v \in Warps(launch), v # w, pc'[v] = pc[v], warp'[v] = warp[v]
      PROVE  /\ Passed(Done(v), v)' = Passed(Done(v), v)
             /\ (Stands(v) /\ Ready(v) /\ Lengths(v))'
  <2>1. Stands(v) /\ Ready(v) /\ Lengths(v)
    BY DEF EpilogueInv
  <2>2. Stands(v)'
    BY <1>1, <1>9, <2>1 DEF Stands, Leader, LastSlice
  <2>3. /\ Done(v)' = Done(v) /\ Begun(Done(v), v)' = Begun(Done(v), v)
        /\ Passed(Done(v), v)' = Passed(Done(v), v)
    BY <1>1, <1>9, SamePassed DEF Half
  <2>4. Lengths(v)'
    BY <1>1, <1>9, <2>1, <2>3, LengthsStill
  <2>5. Ready(v)'
    <3>1. CASE pc[v] = "sync2"
      <4>1. v[1] = w[1] /\ warp[v].epi = warp[w].epi
        BY <1>1, <3>1, WriterAlone DEF Epilogue
      <4>2. EpiBuffer(v) = b /\ EpiBuffer(v)' = b /\ Part(v)' = Part(v)
        BY <1>0, <1>1, <1>9, <4>1 DEF EpiBuffer, Part, Linear
      <4>3. v[2] # w[2]
        BY <1>9, <4>1 DEF Warps
      <4>4. v[2] \in DOMAIN x /\ x[v[2]] = Part(v)
        BY <1>6, <2>1, <3>1, <4>2, <4>3 DEF Ready
      <4>. QED
        BY <1>5, <1>9, <3>1, <4>2, <4>4 DEF Ready
    <3>2. pc[v] # "store"
      BY <1>1, WriterAlone DEF Epilogue
    <3>. QED
      BY <1>9, <3>1, <3>2 DEF Ready
  <2>. QED
    BY <2>2, <2>3, <2>4, <2>5
<1>10. CASE Waits(w, "sync2")
  <2>1. /\ pc'[w] = "sync2" /\ warp' = warp
        /\ \A v \in Warps(launch) : v # w => pc'[v] = pc[v]
    BY <1>3, <1>10 DEF Waits
  <2>2. Stands(w)'
    BY <2>1 DEF Stands
  <2>3. Ready(w)'
    <3>1. EpiBuffer(w)' = b /\ Part(w)' = Part(w)
      BY <1>0, <1>1, <2>1 DEF EpiBuffer, Part, Linear
    <3>. QED
      BY <1>5, <1>6, <2>1, <3>1 DEF Ready
  <2>4. /\ Done(w)' = Done(w) /\ Begun(Done(w), w)' = Begun(Done(w), w)
        /\ Passed(Done(w), w)' = Passed(Done(w), w)
    <3>1. Half(w)' = Half(w)
      BY <1>1, <2>1 DEF Half
    <3>. QED
      BY <1>1, <2>1, <3>1, SamePassed DEF Slicing
  <2>5. Lengths(w)'
    BY <1>1, <2>1, <2>4, LengthsStill DEF EpilogueInv
  <2>6. \A v \in Warps(launch) :
          Passed(Done(v), v)' = Passed(Done(v), v) /\ (Stands(v) /\ Ready(v) /\ Lengths(v))'
    BY <1>9, <2>1, <2>2, <2>3, <2>4, <2>5
  <2>7. Together'
    BY <1>1, <2>6, TogetherKept DEF EpilogueInv
  <2>. QED
    BY <1>1, <1>7, <1>8, <2>6, <2>7 DEF EpilogueInv
<1>11. CASE Opens(w, "sync2")
  <2>1. Together'
    BY <1>1, <1>11, TogetherOpens DEF EpilogueInv
  <2>2. ASSUME NEW v \in Warps(launch), v[1] = w[1]
        PROVE  (Stands(v) /\ Ready(v) /\ Lengths(v))'
    <3>1. GoesOn(v, "sync2") /\ pc[v] \in {"write", "sync2"}
      BY <1>1, <1>11, <2>2 DEF Opens
    <3>2. CASE Leader(v) /\ pc'[v] = "store" /\ warp'[v] = warp[v]
      <4>1. Stands(v)'
        BY <3>2 DEF Stands, Leader
      <4>2. Ready(v)'
        <5>1. x = SliceOf(Linear(warp[w].executed), warp[w].epi)
          BY <1>0, <1>1, <1>11, SliceWhole
        <5>2. warp[v].executed = warp[w].executed /\ warp[v].epi = warp[w].epi
          BY <1>11, <2>2 DEF Opens
        <5>3. EpiBuffer(v)' = b
          BY <1>0, <1>1, <3>2, <5>2 DEF EpiBuffer
        <5>4. Linear(warp[v].executed)' = Linear(warp[w].executed) /\ warp'[v].epi = warp[w].epi
          BY <1>1, <3>2, <5>2 DEF Linear
        <5>5. SliceOf(Linear(warp[v].executed), warp[v].epi)' = x
          <6>1. PICK t, e : t = Linear(warp[w].executed) /\ e = warp[w].epi
            OBVIOUS
          <6>2. SliceOf(t, e)' = SliceOf(t, e)
            BY <1>1, SliceThen
          <6>. QED
            BY <5>1, <5>4, <6>1, <6>2 DEF SliceOf
        <5>. QED
          BY <1>5, <3>2, <5>3, <5>5 DEF Ready
      <4>3. Done(v)' = Done(v) /\ Begun(Done(v), v)' = Begun(Done(v), v)
        BY <1>1, <3>1, <3>2 DEF Done, Begun, Slicing
      <4>4. Lengths(v)'
        BY <1>1, <3>1, <3>2, <4>3, LengthsStill DEF EpilogueInv
      <4>. QED
        BY <4>1, <4>2, <4>4
    <3>3. CASE ~Leader(v) /\ pc'[v] = SliceDone(v) /\ warp'[v] = NextSlice(v)
      <4>1. pc'[v] \in {"finish", "epilogue"} /\ (pc'[v] = "finish" => LastSlice(v))
        BY <3>3 DEF SliceDone
      <4>2. pc'[v] = "finish" => LastSlice(v)'
        <5>1. warp'[v].epi = IF LastSlice(v) THEN warp[v].epi ELSE warp[v].epi + 1
          BY <1>3, <3>3, SliceRegisters
        <5>. QED
          BY <1>1, <4>1, <5>1 DEF LastSlice
      <4>3. Stands(v)' /\ Ready(v)'
        BY <4>1, <4>2 DEF Stands, Ready
      <4>4. stores[v] = <<>>
        BY <3>3 DEF EpilogueInv, PingStores, Committed, Leaders
      <4>5. Lengths(v)'
        BY <1>1, <3>3, <4>4, NoLengths
      <4>. QED
        BY <4>3, <4>5
    <3>. QED
      BY <3>1, <3>2, <3>3 DEF GoesOn
  <2>3. ASSUME NEW v \in Warps(launch) PROVE (Stands(v) /\ Ready(v) /\ Lengths(v))'
    <3>1. CASE v[1] = w[1]
      BY <2>2, <3>1
    <3>2. CASE v[1] # w[1]
      BY <1>9, <1>11, <3>2 DEF Opens
    <3>. QED
      BY <3>1, <3>2
  <2>. QED
    BY <1>1, <1>7, <1>8, <2>1, <2>3 DEF EpilogueInv
<1>. QED
  BY <1>2, <1>10, <1>11

\* Every step of the kernel keeps what the epilogue stores right.
LEMMA EpilogueNext ==
  ASSUME PingInv, PingSums, EpilogueInv, [PingNext]_vars
  PROVE  EpilogueInv'
<1>1. pc \in [Warps(launch) -> Places] /\ RegisterShape /\ DOMAIN warp = Warps(launch)
  BY DEF PingInv, PingBasics, OrderInv, Shape, RegisterShape
<1>2. ASSUME NEW w \in Warps(launch), NEW to,
             UNCHANGED <<launch, sC, stores, out>>, OthersKept(w),
             pc' = [pc EXCEPT ![w] = to], pc[w] \notin Slicing,
             warp'[w].executed = warp[w].executed,
             \/ to \notin Slicing
             \/ to = "epilogue" /\ warp'[w].epi = 0
      PROVE  EpilogueInv'
  <2>1. pc'[w] = to /\ \A v \in Warps(launch) : v # w => pc'[v] = pc[v] /\ warp'[v] = warp[v]
    BY <1>1, <1>2 DEF OthersKept
  <2>2. \A v \in Warps(launch) :
            \/ pc'[v] = pc[v] /\ warp'[v] = warp[v]
            \/ /\ pc[v] \notin Slicing /\ warp'[v].executed = warp[v].executed
               /\ \/ pc'[v] \notin Slicing
                  \/ pc'[v] = "epilogue" /\ warp'[v].epi = 0
    BY <1>2, <2>1
  <2>. QED
    BY <1>2, <2>2, EpilogueStill
<1>3. ASSUME NEW w \in Warps(launch), PingWarp(w) PROVE EpilogueInv'
  <2>1. CASE StartTile(w)
    <3>1. /\ UNCHANGED <<launch, sC, stores, out>>
          /\ pc' = [pc EXCEPT ![w] = "first"] /\ pc[w] = "start"
      BY <2>1 DEF StartTile, Go, UnchangedInLoop, UnchangedButWarp
    <3>. QED
      BY <1>1, <1>2, <2>1, <3>1, StartTileRegisters DEF Slicing
  <2>2. CASE ExitLoop(w)
    <3>1. /\ UNCHANGED <<launch, sC, stores, out, warp>>
          /\ pc' = [pc EXCEPT ![w] = "done"] /\ pc[w] = "start"
      BY <2>2 DEF ExitLoop, Go, UnchangedInLoop, UnchangedButWarp
    <3>. QED
      BY <1>2, <3>1 DEF Slicing, OthersKept
  <2>3. CASE FirstBlock(w) \/ NextStage(w)
    <3>1. /\ UNCHANGED <<launch, sC, stores, out>>
          /\ pc' = [pc EXCEPT ![w] = AtBlock(0)] /\ pc[w] \in {"first", "next"}
      BY <2>3 DEF FirstBlock, NextStage, Go, UnchangedInLoop, UnchangedButWarp
    <3>2. AtBlock(0) \notin Slicing
      BY DEF AtBlock, Slicing
    <3>. QED
      BY <1>1, <1>2, <2>3, <3>1, <3>2, FirstBlockRegisters, NextStageRegisters DEF Slicing
  <2>4. CASE CopyThenMultiply(w)
    <3>1. /\ UNCHANGED <<launch, sC, stores, out>>
          /\ pc' = [pc EXCEPT ![w] = AtBlock(warp[w].blk + 1)] /\ pc[w] = "block"
      BY <2>4 DEF CopyThenMultiply, Go, UnchangedInLoop, UnchangedButWarp
    <3>2. AtBlock(warp[w].blk + 1) \notin Slicing
      BY DEF AtBlock, Slicing
    <3>. QED
      BY <1>1, <1>2, <2>4, <3>1, <3>2, CopyRegisters DEF Slicing
  <2>5. CASE ReleaseStage(w)
    <3>1. PICK to \in {"last", "next"} :
            /\ UNCHANGED <<launch, sC, stores, out>>
            /\ pc' = [pc EXCEPT ![w] = to] /\ pc[w] = "release"
      BY <2>5 DEF ReleaseStage, Go, UnchangedInLoop, UnchangedButWarp
    <3>. QED
      BY <1>1, <1>2, <2>5, <3>1, ReleaseRegisters DEF Slicing
  <2>6. CASE LeaveMainLoop(w)
    <3>1. /\ UNCHANGED <<launch, sC, stores, out>>
          /\ pc' = [pc EXCEPT ![w] = "cross"] /\ pc[w] = "last"
      BY <2>6 DEF LeaveMainLoop, Go, UnchangedButWarp
    <3>. QED
      BY <1>1, <1>2, <2>6, <3>1, LeaveMainLoopRegisters DEF Slicing
  <2>7. CASE EnterEpilogue(w)
    <3>1. /\ UNCHANGED <<launch, sC, stores, out>>
          /\ pc' = [pc EXCEPT ![w] = "epilogue"] /\ pc[w] = "cross"
      BY <2>7 DEF EnterEpilogue, Go, UnchangedInLoop, UnchangedButWarp
    <3>. QED
      BY <1>1, <1>2, <2>7, <3>1, EnterEpilogueRegisters DEF Slicing
  <2>. QED
    BY <1>3, <2>1, <2>2, <2>3, <2>4, <2>5, <2>6, <2>7, EpilogueSync, EpilogueWrite,
       EpilogueStore, EpilogueAcquire, EpilogueFinish DEF PingWarp
<1>4. ASSUME NEW w \in Warps(launch), NEW i \in DOMAIN stores[w], ReadStore(w, i)
      PROVE  EpilogueInv'
  BY <1>4, EpilogueRead
<1>5. CASE UNCHANGED vars \/ LoadStage \/ LoaderTail \/ \E x \in inflight : Land(x)
  <2>1. UNCHANGED <<launch, pc, warp, sC, stores, out>>
    BY <1>5 DEF vars, LoadStage, LoadFrom, LoaderTail, DrainLoader, Land
  <2>. QED
    BY <2>1, EpilogueStill
<1>. QED
  BY <1>3, <1>4, <1>5 DEF PingNext

\* The epilogue before the first tile.
LEMMA EpilogueInit ==
  ASSUME PingInit
  PROVE  PingSums /\ EpilogueInv
<1>1. /\ launch \in PingLaunches /\ pc = [w \in Warps(launch) |-> "start"]
      /\ stores = [w \in Warps(launch) |-> <<>>]
      /\ sC = [b \in 0 .. launch.epiStages - 1 |-> <<>>]
      /\ out = [t \in 0 .. launch.tiles - 1 |-> [e \in 0 .. launch.epiTiles - 1 |-> <<>>]]
  BY DEF PingInit, FreshMachine, FreshStores, FreshBuffers, FreshOut
<1>2. PingSums
  BY <1>1 DEF PingSums, Summed, Slicing
<1>3. PingInv
  BY PingInvInit
<1>4. ASSUME NEW w \in Warps(launch)
      PROVE  Passed(Done(w), w) = 0 /\ Begun(Done(w), w) = 0
  <2>1. warp[w].executed = w[1] /\ (w[1] = 0 \/ w[1] = 1)
    BY <1>1, WarpGroup DEF PingInit, FreshPingWarps, FreshPingWarp
  <2>2. Done(w) = 0
    BY <2>1 DEF Done
  <2>3. launch.epiTiles * 0 = 0
    BY <1>1, LaunchNumbers
  <2>. QED
    BY <1>1, <2>2, <2>3 DEF Passed, Begun, Half, Slicing
<1>5. Together
  BY <1>4 DEF Together
<1>6. \A w \in Warps(launch) : Stands(w) /\ Ready(w)
  BY <1>1 DEF Stands, Ready
<1>7. \A w \in Warps(launch) : Lengths(w)
  BY <1>1, <1>4 DEF Lengths, AtMostUnread
<1>8. PingBuffers
  BY <1>1 DEF PingBuffers
<1>9. StoreShape
  BY <1>1 DEF StoreShape
<1>10. PingStores
  <2>1. PICK lead, plan, slice : lead = Leaders /\ plan = PingPlan /\ slice = PingSlices
    OBVIOUS
  <2>2. Committed(lead, plan, slice)
    BY <1>1 DEF Committed
  <2>3. OutputOf(slice)
    BY <1>1 DEF OutputOf
  <2>. QED
    BY <2>1, <2>2, <2>3 DEF PingStores
<1>. QED
  BY <1>2, <1>5, <1>6, <1>7, <1>8, <1>9, <1>10 DEF EpilogueInv

\* What has been stored of a slice is nothing or the slice.
LEMMA PingOutput ==
  ASSUME EpilogueInv, NEW t \in DOMAIN out, t \in Nat, NEW e \in DOMAIN out[t], e \in Nat
  PROVE  out[t][e] \in {<<>>, <<SliceOf(t, e)>>}
<1>1. PICK slice : slice = PingSlices /\ OutputOf(slice)
  BY DEF EpilogueInv, PingStores
<1>2. slice[t][e] = SliceOf(t, e)
  BY <1>1 DEF PingSlices
<1>. QED
  BY <1>1, <1>2 DEF OutputOf
=============================================================================
