-------------------------- MODULE TmaPipelineProofs --------------------------
(***************************************************************************)
(* Proof that the ring of stages works: a warp that holds a stage has the  *)
(* k tile it waited for there, whole, and nothing is on the way into the   *)
(* stage, for any number of stages, k tiles, consumers and operands.       *)
(*                                                                         *)
(* The kernels share the ring and differ in who consumes which k tile and  *)
(* when.  This module knows of a kernel only that every k tile has n       *)
(* consumers and that each consumer takes its k tiles in order; one lemma  *)
(* per way of stepping says that the ring stays one, and the modules of    *)
(* the kernels cite it for their actions.                                  *)
(***************************************************************************)
EXTENDS TmaPipeline, FiniteSetTheorems, TLAPS

(***************************************************************************)
(* Quotients and remainders.                                               *)
(***************************************************************************)
\* What div and mod are.
LEMMA Division ==
  ASSUME NEW n \in Nat, n > 0, NEW x \in Nat
  PROVE  /\ x \div n \in Nat /\ x % n \in 0 .. n - 1
         /\ x = n * (x \div n) + (x % n)
BY SMT

\* A larger quotient is a whole divisor away.
LEMMA Multiples ==
  ASSUME NEW n \in Nat, NEW p \in Nat, NEW q \in Nat, p < q
  PROVE  n * p + n <= n * q
<1>1. PICK d \in Nat : q = p + 1 + d
  <2>1. q - p - 1 \in Nat /\ q = p + 1 + (q - p - 1)
    OBVIOUS
  <2>. QED
    BY <2>1
<1>2. n * q = n * p + n + n * d
  BY <1>1
<1>3. n * d \in Nat /\ n * p \in Nat /\ n * q \in Nat
  BY <1>1
<1>. QED
  BY <1>2, <1>3

\* Quotient and remainder are determined by the number they make up.
LEMMA Quotient ==
  ASSUME NEW n \in Nat, n > 0, NEW q \in Nat, NEW r \in Nat, r < n
  PROVE  (n * q + r) \div n = q /\ (n * q + r) % n = r
<1>. DEFINE x == n * q + r
<1>1. n * q \in Nat /\ x \in Nat
  OBVIOUS
<1>. DEFINE p == x \div n  s == x % n
<1>2. p \in Nat /\ s \in 0 .. n - 1 /\ x = n * p + s /\ n * p \in Nat
  <2>1. p \in Nat /\ s \in 0 .. n - 1 /\ x = n * p + s
    BY <1>1, Division
  <2>. QED
    BY <2>1
<1>. HIDE DEF p, s
<1>3. ~ (p < q)
  BY <1>1, <1>2, Multiples
<1>4. ~ (q < p)
  BY <1>1, <1>2, Multiples
<1>5. p = q
  BY <1>2, <1>3, <1>4
<1>6. s = r
  BY <1>1, <1>2, <1>5
<1>. QED
  BY <1>5, <1>6 DEF p, s

LEMMA SmallQuotient ==
  ASSUME NEW n \in Nat, n > 0, NEW r \in Nat, r < n
  PROVE  r \div n = 0 /\ r % n = r
<1>1. n * 0 + r = r /\ 0 \in Nat
  OBVIOUS
<1>2. (n * 0 + r) \div n = 0 /\ (n * 0 + r) % n = r
  BY <1>1, Quotient
<1>. QED
  BY <1>1, <1>2

\* One step round a ring of n.
LEMMA NextOnRing ==
  ASSUME NEW n \in Nat, n > 0, NEW x \in Nat
  PROVE  /\ (x + 1) % n = ((x % n) + 1) % n
         /\ (x + 1) \div n = IF (x % n) + 1 = n THEN x \div n + 1 ELSE x \div n
<1>1. /\ x \div n \in Nat /\ x % n \in 0 .. n - 1
      /\ x = n * (x \div n) + (x % n) /\ n * (x \div n) \in Nat
  BY Division
<1>2. CASE (x % n) + 1 = n
  <2>1. x + 1 = n * (x \div n + 1) + 0
    BY <1>1, <1>2
  <2>2. (x + 1) \div n = x \div n + 1 /\ (x + 1) % n = 0
    BY <1>1, <2>1, Quotient
  <2>3. n = n * 1 + 0
    OBVIOUS
  <2>4. n % n = 0
    BY <2>3, Quotient
  <2>. QED
    BY <1>2, <2>2, <2>4
<1>3. CASE (x % n) + 1 < n
  <2>1. x + 1 = n * (x \div n) + ((x % n) + 1)
    BY <1>1
  <2>2. (x + 1) \div n = x \div n /\ (x + 1) % n = (x % n) + 1
    BY <1>1, <1>3, <2>1, Quotient
  <2>3. (x % n) + 1 = n * 0 + ((x % n) + 1)
    BY <1>1
  <2>4. ((x % n) + 1) % n = (x % n) + 1
    BY <1>1, <1>3, <2>3, Quotient
  <2>. QED
    BY <1>3, <2>2, <2>4
<1>. QED
  BY <1>1, <1>2, <1>3

\* Several steps round a ring of n.
LEMMA SkipOnRing ==
  ASSUME NEW n \in Nat, n > 0, NEW x \in Nat, NEW k \in Nat
  PROVE  /\ (x % n) + k \in Nat
         /\ (x + k) % n = ((x % n) + k) % n
         /\ (x + k) \div n = x \div n + ((x % n) + k) \div n
<1>. DEFINE y == (x % n) + k
<1>1. /\ x \div n \in Nat /\ x % n \in 0 .. n - 1
      /\ x = n * (x \div n) + (x % n) /\ n * (x \div n) \in Nat
  BY Division
<1>2. y \in Nat
  BY <1>1
<1>3. /\ y \div n \in Nat /\ y % n \in 0 .. n - 1
      /\ y = n * (y \div n) + (y % n) /\ n * (y \div n) \in Nat
  BY <1>2, Division
<1>4. n * (x \div n + y \div n) = n * (x \div n) + n * (y \div n)
  BY <1>1, <1>3
<1>5. x + k = n * (x \div n + y \div n) + (y % n)
  BY <1>1, <1>3, <1>4
<1>6. x \div n + y \div n \in Nat
  BY <1>1, <1>3
<1>. DEFINE q == x \div n + y \div n
            r == y % n
<1>7. q \in Nat /\ r \in Nat /\ r < n /\ x + k = n * q + r
  BY <1>3, <1>5, <1>6
<1>. HIDE DEF y, q, r
<1>8. (x + k) \div n = q /\ (x + k) % n = r
  BY <1>7, Quotient
<1>. QED
  BY <1>2, <1>8 DEF y, q, r

\* A whole round of a ring.
LEMMA RoundOfRing ==
  ASSUME NEW n \in Nat, n > 0, NEW x \in Nat
  PROVE  (x + n) % n = x % n /\ (x + n) \div n = x \div n + 1
<1>1. /\ x \div n \in Nat /\ x % n \in 0 .. n - 1
      /\ x = n * (x \div n) + (x % n)
  BY Division
<1>2. x + n = n * (x \div n + 1) + (x % n)
  BY <1>1
<1>. QED
  BY <1>1, <1>2, Quotient

\* Two numbers at the same place of a ring are whole rounds apart.
LEMMA SamePlace ==
  ASSUME NEW n \in Nat, n > 0, NEW x \in Nat, NEW y \in Nat, x < y, x % n = y % n
  PROVE  x + n <= y /\ x \div n < y \div n
<1>1. /\ x \div n \in Nat /\ x % n \in 0 .. n - 1
      /\ x = n * (x \div n) + (x % n) /\ n * (x \div n) \in Nat
  BY Division
<1>2. /\ y \div n \in Nat /\ y % n \in 0 .. n - 1
      /\ y = n * (y \div n) + (y % n) /\ n * (y \div n) \in Nat
  BY Division
<1>3. n * (x \div n) < n * (y \div n)
  BY <1>1, <1>2
<1>4. x \div n # y \div n
  BY <1>3
<1>5. ~ (y \div n < x \div n)
  <2>1. ASSUME y \div n < x \div n PROVE FALSE
    BY <1>1, <1>2, <1>3, <2>1, Multiples
  <2>. QED
    BY <2>1
<1>6. x \div n < y \div n
  BY <1>1, <1>2, <1>4, <1>5
<1>7. n * (x \div n) + n <= n * (y \div n)
  BY <1>1, <1>2, <1>6, Multiples
<1>. QED
  BY <1>1, <1>2, <1>6, <1>7

(***************************************************************************)
(* The ring of stages.  The k tiles of all output tiles of the CTA are     *)
(* numbered through: k tile x goes to stage x % stages.  own[x] are the    *)
(* warps that consume it, n of them, and src[x] is what it consists of;    *)
(* p[w] is the k tile warp w consumes next, in are the warps that hold     *)
(* theirs.  The barriers keep parities; the invariant speaks of what the   *)
(* kernel does not keep: load, the k tile that is loaded next, and per     *)
(* stage the k tile that is to be issued, filled and freed next.           *)
(***************************************************************************)
Shares(own, n) ==
    /\ n \in Nat /\ n > 0
    /\ own \in [Nat -> SUBSET Warps(launch)]
    /\ \A x \in Nat : IsFiniteSet(own[x]) /\ Cardinality(own[x]) = n

RingShape ==
    /\ launch.stages \in Nat /\ launch.stages > 0
    /\ launch.kTiles \in Nat /\ launch.kTiles > 0
    /\ loader = [pc |-> loader.pc, executed |-> loader.executed, pipe |-> loader.pipe]
    /\ loader.pipe = [index |-> loader.pipe.index, phase |-> loader.pipe.phase,
                      count |-> loader.pipe.count]
    /\ loader.pc \in {"load", "done"}
    /\ full \in [Stages(launch) -> [phase : {0, 1}, armed : BOOLEAN, tx : Nat]]
    /\ empty \in [Stages(launch) -> [phase : {0, 1}, arrived : SUBSET Warps(launch)]]
    /\ smem = [s \in Stages(launch) |-> [op \in Operands |-> smem[s][op]]]

LoaderAt(load) ==
    /\ load \in Nat
    /\ loader.executed \in Nat
    /\ loader.pipe.count \in 0 .. launch.kTiles - 1
    /\ load = launch.kTiles * loader.executed + loader.pipe.count
    /\ loader.pipe.index = load % launch.stages
    /\ loader.pipe.phase = 1 - ((load \div launch.stages) % 2)

Round(x) == (x \div launch.stages) % 2
Place(x) == x % launch.stages

Progress(load, issued, filled, freed) ==
    /\ issued \in [Stages(launch) -> Nat]
    /\ filled \in [Stages(launch) -> Nat]
    /\ freed \in [Stages(launch) -> Nat]
    /\ \A s \in Stages(launch) :
         /\ Place(issued[s]) = s /\ Place(filled[s]) = s /\ Place(freed[s]) = s
         /\ load <= issued[s] /\ issued[s] < load + launch.stages
         /\ issued[s] = filled[s] \/ issued[s] = filled[s] + launch.stages
         /\ issued[s] = freed[s] \/ issued[s] = freed[s] + launch.stages
         /\ full[s].phase = Round(filled[s])
         /\ empty[s].phase = Round(freed[s])

Request(src, issued, s, op) ==
    [stage |-> s, op |-> op, src |-> src[issued[s] - launch.stages][op]]

Pending(s) == {x \in inflight : x.stage = s}

Loads(src, issued, filled) ==
    /\ \A x \in inflight : \E s \in Stages(launch) : \E op \in Operands :
         x = Request(src, issued, s, op)
    /\ \A s \in Stages(launch) :
         /\ filled[s] = issued[s] =>
              /\ Pending(s) = {}
              /\ loader.pc = "load" => ~full[s].armed /\ full[s].tx = 0
         /\ filled[s] # issued[s] =>
              /\ full[s].armed
              /\ full[s].tx = Cardinality(Pending(s)) /\ full[s].tx > 0
         /\ issued[s] >= launch.stages => \A op \in Operands :
              \/ Request(src, issued, s, op) \in inflight
              \/ smem[s][op] = src[issued[s] - launch.stages][op]

Releases(own, p, freed) ==
    /\ \A s \in Stages(launch) :
         /\ empty[s].arrived = {w \in own[freed[s]] : freed[s] < p[w]}
         /\ \E w \in own[freed[s]] : ~ (freed[s] < p[w])
    /\ \A x \in Nat : x < freed[Place(x)] => \A w \in own[x] : x < p[w]

Consumers(own, p, in, filled) ==
    /\ p \in [Warps(launch) -> Nat]
    /\ in \subseteq Warps(launch)
    /\ \A w \in Warps(launch) : \A x \in Nat :
         w \in own[x] /\ x < p[w] => x < filled[Place(x)]
    /\ \A w \in in : w \in own[p[w]] /\ p[w] < filled[Place(p[w])]

Ring(own, src, n, p, in, load, issued, filled, freed) ==
    /\ Shares(own, n) /\ RingShape /\ LoaderAt(load)
    /\ Progress(load, issued, filled, freed)
    /\ Loads(src, issued, filled)
    /\ Releases(own, p, freed)
    /\ Consumers(own, p, in, filled)

(***************************************************************************)
(* The registers of the MMA warps: what is there to be overwritten.        *)
(***************************************************************************)
Fields == {"executed", "pipe", "frag", "acc", "blk", "epi"}
PipeFields == {"index", "phase", "count"}

RegisterShape ==
    /\ DOMAIN warp = Warps(launch)
    /\ \A w \in Warps(launch) :
         Fields \subseteq DOMAIN warp[w] /\ DOMAIN warp[w].pipe = PipeFields

\* A warp's pipeline state stands at k tile x.
StandsAt(s, x) == s.index = Place(x) /\ s.phase = Round(x)

\* Advancing a pipeline state is going on by one k tile.
LEMMA AdvancedState ==
  ASSUME launch.stages \in Nat, launch.stages > 0, NEW x \in Nat, NEW s, StandsAt(s, x)
  PROVE  StandsAt(Advanced(s), x + 1) /\ Advanced(s).count = s.count + 1
<1>. DEFINE S == launch.stages
<1>1. /\ x % S \in 0 .. S - 1 /\ x \div S \in Nat
      /\ (x + 1) % S = ((x % S) + 1) % S
      /\ (x + 1) \div S = IF (x % S) + 1 = S THEN x \div S + 1 ELSE x \div S
  <2>1. x % S \in 0 .. S - 1 /\ x \div S \in Nat
    BY Division
  <2>. HIDE DEF S
  <2>. QED
    BY <2>1, NextOnRing DEF S
<1>2. ((x \div S) + 1) % 2 = 1 - ((x \div S) % 2)
  <2>1. \A q \in Nat : (q + 1) % 2 = 1 - (q % 2)
    OBVIOUS
  <2>. HIDE DEF S
  <2>. QED
    BY <1>1, <2>1
<1>. QED
  BY <1>1, <1>2 DEF StandsAt, Advanced, Place, Round

\* Where a k tile goes.
LEMMA PlaceOfTile ==
  ASSUME RingShape, NEW x \in Nat
  PROVE  Place(x) \in Stages(launch) /\ Round(x) \in {0, 1}
<1>1. x \div launch.stages \in Nat /\ x % launch.stages \in 0 .. launch.stages - 1
  BY Division DEF RingShape
<1>. QED
  BY <1>1 DEF Place, Round, Stages

\* Every k tile has a consumer.
LEMMA ConsumersExist ==
  ASSUME NEW own, NEW n, Shares(own, n), NEW x \in Nat
  PROVE  own[x] # {}
<1>1. Cardinality(own[x]) = n /\ n \in Nat /\ n > 0
  BY DEF Shares
<1>2. Cardinality({}) = 0
  BY FS_EmptySet
<1>. QED
  BY <1>1, <1>2

\* Two numbers of k tiles of one stage are equal or rounds apart.
LEMMA RoundsApart ==
  ASSUME RingShape, NEW x \in Nat, NEW y \in Nat, Place(x) = Place(y), x < y
  PROVE  x + launch.stages <= y
BY SamePlace DEF RingShape, Place

\* The round after this one has the other parity and the same place.
LEMMA NextRound ==
  ASSUME RingShape, NEW x \in Nat
  PROVE  Place(x + launch.stages) = Place(x) /\ Round(x + launch.stages) = 1 - Round(x)
<1>1. /\ (x + launch.stages) % launch.stages = x % launch.stages
      /\ (x + launch.stages) \div launch.stages = x \div launch.stages + 1
      /\ x \div launch.stages \in Nat
  BY RoundOfRing, Division DEF RingShape
<1>. QED
  BY <1>1 DEF Place, Round

\* A wait for the parity of k tile x that passes has seen k tile x: the phase
\* is not that of another round.
LEMMA WaitSeesTile ==
  ASSUME NEW own, NEW src, NEW n, NEW p, NEW in, NEW load, NEW issued, NEW filled, NEW freed,
         Ring(own, src, n, p, in, load, issued, filled, freed),
         NEW w \in Warps(launch), w \in own[p[w]],
         Passes(full[Place(p[w])], Round(p[w])),
         p[w] >= launch.stages =>
            \E v \in own[p[w] - launch.stages] : p[w] - launch.stages < p[v]
  PROVE  p[w] < filled[Place(p[w])]
<1>. DEFINE x == p[w]  S == launch.stages  s == Place(x)
<1>1. x \in Nat /\ S \in Nat /\ S > 0 /\ s \in Stages(launch)
  BY PlaceOfTile DEF Ring, Consumers, RingShape
<1>2. /\ filled[s] \in Nat /\ Place(filled[s]) = s /\ freed[s] \in Nat
      /\ full[s].phase = Round(filled[s])
  BY <1>1 DEF Ring, Progress
<1>3. filled[s] # x
  BY <1>2 DEF Passes
<1>4. ASSUME filled[s] < x PROVE FALSE
  <2>1. filled[s] + S <= x
    BY <1>1, <1>2, <1>4, RoundsApart DEF Ring
  <2>2. x - S \in Nat /\ x >= S
    BY <1>1, <1>2, <2>1
  <2>3. PICK v \in own[x - S] : x - S < p[v]
    BY <2>2
  <2>4. v \in Warps(launch)
    BY <2>2 DEF Ring, Shares
  <2>5. x - S < filled[Place(x - S)]
    BY <2>2, <2>3, <2>4 DEF Ring, Consumers
  <2>6. Place(x - S) = s
    <3>1. Place((x - S) + S) = Place(x - S)
      BY <2>2, NextRound DEF Ring
    <3>. QED
      BY <1>1, <3>1
  <2>. QED
    BY <1>1, <1>2, <2>1, <2>5, <2>6
<1>. QED
  BY <1>1, <1>2, <1>3, <1>4

\* A warp that holds its stage has it alone: everything of its k tile is there,
\* nothing is on the way into the stage, and the stage is not freed.
LEMMA HeldStage ==
  ASSUME NEW own, NEW src, NEW n, NEW p, NEW in, NEW load, NEW issued, NEW filled, NEW freed,
         Ring(own, src, n, p, in, load, issued, filled, freed),
         NEW w \in in
  PROVE  LET s == Place(p[w])
         IN /\ s \in Stages(launch)
            /\ filled[s] = p[w] + launch.stages
            /\ issued[s] = p[w] + launch.stages
            /\ freed[s] = p[w]
            /\ Pending(s) = {}
            /\ \A op \in Operands : smem[s][op] = src[p[w]][op]
<1>. DEFINE x == p[w]  S == launch.stages  s == Place(x)
<1>1. w \in Warps(launch) /\ x \in Nat /\ S \in Nat /\ S > 0 /\ s \in Stages(launch)
  BY PlaceOfTile DEF Ring, Consumers, RingShape
<1>2. /\ filled[s] \in Nat /\ freed[s] \in Nat /\ issued[s] \in Nat
      /\ Place(filled[s]) = s /\ Place(freed[s]) = s
      /\ issued[s] = filled[s] \/ issued[s] = filled[s] + S
      /\ issued[s] = freed[s] \/ issued[s] = freed[s] + S
  BY <1>1 DEF Ring, Progress
<1>3. x < filled[s] /\ w \in own[x]
  BY DEF Ring, Consumers
<1>4. x + S <= filled[s]
  BY <1>1, <1>2, <1>3, RoundsApart DEF Ring
<1>5. ~ (x < freed[s])
  BY <1>1, <1>3 DEF Ring, Releases
<1>6. filled[s] = x + S /\ issued[s] = x + S /\ freed[s] = x
  BY <1>1, <1>2, <1>4, <1>5
<1>7. Pending(s) = {}
  BY <1>1, <1>6 DEF Ring, Loads
<1>8. issued[s] >= S /\ issued[s] - S = x
  BY <1>1, <1>6
<1>9. ASSUME NEW op \in Operands PROVE smem[s][op] = src[x][op]
  <2>1. Request(src, issued, s, op).stage = s
    BY DEF Request
  <2>2. Request(src, issued, s, op) \notin inflight
    BY <1>7, <2>1 DEF Pending
  <2>. QED
    BY <1>1, <1>8, <2>2 DEF Ring, Loads
<1>. QED
  BY <1>1, <1>6, <1>7, <1>9

(***************************************************************************)
(* The steps of the ring.                                                  *)
(***************************************************************************)
RingVars == <<launch, loader, full, empty, inflight, smem>>

\* A step that leaves the ring alone leaves it a ring, whoever holds less of it
\* or has just seen its k tile arrive.
LEMMA RingQuiet ==
  ASSUME NEW own, NEW src, NEW n, NEW p, NEW in, NEW load, NEW issued, NEW filled, NEW freed,
         Ring(own, src, n, p, in, load, issued, filled, freed),
         UNCHANGED RingVars,
         NEW in2 \in SUBSET Warps(launch),
         \A w \in in2 \ in : w \in own[p[w]] /\ p[w] < filled[Place(p[w])]
  PROVE  Ring(own, src, n, p, in2, load, issued, filled, freed)'
<1>1. Shares(own, n)' /\ RingShape' /\ LoaderAt(load)'
  BY DEF Ring, RingVars, Shares, RingShape, LoaderAt, Warps, Stages
<1>2. Progress(load, issued, filled, freed)'
  BY DEF Ring, RingVars, Progress, Place, Round, Stages
<1>3. Loads(src, issued, filled)'
  <2>1. \A s : Pending(s)' = Pending(s)
    BY DEF RingVars, Pending
  <2>. QED
    BY <2>1 DEF Ring, RingVars, Loads, Request, Stages
<1>4. Releases(own, p, freed)'
  BY DEF Ring, RingVars, Releases, Place, Stages
<1>5. Consumers(own, p, in2, filled)'
  BY DEF Ring, RingVars, Consumers, Place, Warps
<1>. QED
  BY <1>1, <1>2, <1>3, <1>4, <1>5 DEF Ring

\* A warp that goes past k tiles that are not its own.
LEMMA RingSkip ==
  ASSUME NEW own, NEW src, NEW n, NEW p, NEW in, NEW load, NEW issued, NEW filled, NEW freed,
         Ring(own, src, n, p, in, load, issued, filled, freed),
         UNCHANGED RingVars,
         NEW w \in Warps(launch), w \notin in, NEW y \in Nat, p[w] <= y,
         \A x \in Nat : p[w] <= x /\ x < y => w \notin own[x]
  PROVE  Ring(own, src, n, [p EXCEPT ![w] = y], in, load, issued, filled, freed)'
<1>. DEFINE p2 == [p EXCEPT ![w] = y]
<1>1. Shares(own, n)' /\ RingShape' /\ LoaderAt(load)'
  BY DEF Ring, RingVars, Shares, RingShape, LoaderAt, Warps, Stages
<1>2. Progress(load, issued, filled, freed)'
  BY DEF Ring, RingVars, Progress, Place, Round, Stages
<1>3. Loads(src, issued, filled)'
  <2>1. \A s : Pending(s)' = Pending(s)
    BY DEF RingVars, Pending
  <2>. QED
    BY <2>1 DEF Ring, RingVars, Loads, Request, Stages
<1>4. /\ p \in [Warps(launch) -> Nat] /\ p2 \in [Warps(launch) -> Nat]
      /\ p[w] \in Nat /\ p2[w] = y /\ \A v \in Warps(launch) : v # w => p2[v] = p[v]
  BY DEF Ring, Consumers
<1>5. \A x \in Nat : \A v \in own[x] : x < p2[v] <=> x < p[v]
  <2>. SUFFICES ASSUME NEW x \in Nat, NEW v \in own[x] PROVE x < p2[v] <=> x < p[v]
    OBVIOUS
  <2>1. v \in Warps(launch)
    BY DEF Ring, Shares
  <2>. QED
    BY <1>4, <2>1
<1>6. Releases(own, p2, freed)'
  <2>1. \A s \in Stages(launch) : freed[s] \in Nat
    BY DEF Ring, Progress
  <2>2. \A s \in Stages(launch) :
           /\ empty[s].arrived = {v \in own[freed[s]] : freed[s] < p2[v]}
           /\ \E v \in own[freed[s]] : ~ (freed[s] < p2[v])
    BY <1>5, <2>1 DEF Ring, Releases
  <2>3. \A x \in Nat : x < freed[Place(x)] => \A v \in own[x] : x < p2[v]
    BY <1>5 DEF Ring, Releases
  <2>. HIDE DEF p2
  <2>. QED
    BY <2>2, <2>3 DEF Releases, Place, Stages, RingVars
<1>7. Consumers(own, p2, in, filled)'
  <2>1. \A v \in Warps(launch) : \A x \in Nat :
          v \in own[x] /\ x < p2[v] => x < filled[Place(x)]
    BY <1>5 DEF Ring, Consumers
  <2>2. \A v \in in : v \in own[p2[v]] /\ p2[v] < filled[Place(p2[v])]
    BY <1>4 DEF Ring, Consumers
  <2>3. in \subseteq Warps(launch)
    BY DEF Ring, Consumers
  <2>. HIDE DEF p2
  <2>. QED
    BY <1>4, <2>1, <2>2, <2>3 DEF Consumers, Place, Warps, RingVars
<1>. QED
  BY <1>1, <1>2, <1>3, <1>6, <1>7 DEF Ring

\* A warp gives its stage back; the last one of the k tile frees it.
LEMMA RingRelease ==
  ASSUME NEW own, NEW src, NEW n, NEW p, NEW in, NEW load, NEW issued, NEW filled, NEW freed,
         Ring(own, src, n, p, in, load, issued, filled, freed),
         UNCHANGED <<launch, loader, full, inflight, smem>>,
         NEW w \in in,
         empty' = [empty EXCEPT ![Place(p[w])] = Arrived(@, w, n)]
  PROVE  \E freed2 : Ring(own, src, n, [p EXCEPT ![w] = @ + 1], in \ {w},
                          load, issued, filled, freed2)'
<1>. DEFINE x == p[w]  S == launch.stages  s == Place(x)
            p2 == [p EXCEPT ![w] = @ + 1]
            here == empty[s].arrived \cup {w}
            b2 == Arrived(empty[s], w, n)
<1>1. /\ w \in Warps(launch) /\ x \in Nat /\ S \in Nat /\ S > 0 /\ s \in Stages(launch)
      /\ p \in [Warps(launch) -> Nat] /\ p2 \in [Warps(launch) -> Nat]
      /\ p2[w] = x + 1 /\ \A v \in Warps(launch) : v # w => p2[v] = p[v]
      /\ w \in own[x] /\ x < filled[s]
  BY PlaceOfTile DEF Ring, Consumers, RingShape
<1>2. filled[s] = x + S /\ issued[s] = x + S /\ freed[s] = x
  BY HeldStage
<1>3. empty[s].arrived = {v \in own[x] : x < p[v]} /\ empty[s].phase = Round(x)
  BY <1>1, <1>2 DEF Ring, Releases, Progress
<1>4. IsFiniteSet(own[x]) /\ Cardinality(own[x]) = n /\ own[x] \subseteq Warps(launch)
  BY <1>1 DEF Ring, Shares
<1>5. here = {v \in own[x] : x < p2[v]} /\ here \subseteq own[x]
  BY <1>1, <1>3, <1>4
<1>6. \A y \in Nat : \A v \in own[y] : (x # y \/ v # w) => (y < p2[v] <=> y < p[v])
  <2>. SUFFICES ASSUME NEW y \in Nat, NEW v \in own[y], x # y \/ v # w
                PROVE  y < p2[v] <=> y < p[v]
    OBVIOUS
  <2>1. v \in Warps(launch)
    BY DEF Ring, Shares
  <2>. QED
    BY <1>1, <2>1
<1>7. /\ empty \in [Stages(launch) -> [phase : {0, 1}, arrived : SUBSET Warps(launch)]]
      /\ empty'[s] = b2 /\ \A t \in Stages(launch) : t # s => empty'[t] = empty[t]
  BY <1>1 DEF Ring, RingShape
<1>8. Shares(own, n)' /\ LoaderAt(load)' /\ Loads(src, issued, filled)'
  <2>1. \A t : Pending(t)' = Pending(t)
    BY DEF Pending
  <2>. QED
    BY <2>1 DEF Ring, Shares, LoaderAt, Loads, Request, Warps, Stages
<1>9. Consumers(own, p2, in \ {w}, filled)'
  <2>1. \A v \in Warps(launch) : \A y \in Nat :
          v \in own[y] /\ y < p2[v] => y < filled[Place(y)]
    <3>. SUFFICES ASSUME NEW v \in Warps(launch), NEW y \in Nat, v \in own[y], y < p2[v]
                  PROVE  y < filled[Place(y)]
      OBVIOUS
    <3>1. CASE x = y /\ v = w
      BY <1>1, <3>1
    <3>2. CASE x # y \/ v # w
      BY <1>6, <3>2 DEF Ring, Consumers
    <3>. QED
      BY <3>1, <3>2
  <2>2. \A v \in in \ {w} : v \in own[p2[v]] /\ p2[v] < filled[Place(p2[v])]
    BY <1>1 DEF Ring, Consumers
  <2>3. in \ {w} \subseteq Warps(launch)
    BY DEF Ring, Consumers
  <2>. HIDE DEF p2
  <2>. QED
    BY <1>1, <2>1, <2>2, <2>3 DEF Consumers, Place, Warps
<1>10. \A t \in Stages(launch) : t # s => freed[t] # x /\ freed[t] \in Nat
  BY <1>1 DEF Ring, Progress
<1>11. \A t \in Stages(launch) : t # s =>
         /\ empty'[t].arrived = {v \in own[freed[t]] : freed[t] < p2[v]}
         /\ \E v \in own[freed[t]] : ~ (freed[t] < p2[v])
  <2>. SUFFICES ASSUME NEW t \in Stages(launch), t # s
                PROVE  /\ empty'[t].arrived = {v \in own[freed[t]] : freed[t] < p2[v]}
                       /\ \E v \in own[freed[t]] : ~ (freed[t] < p2[v])
    OBVIOUS
  <2>1. \A v \in own[freed[t]] : freed[t] < p2[v] <=> freed[t] < p[v]
    BY <1>6, <1>10
  <2>. QED
    BY <1>7, <2>1 DEF Ring, Releases
<1>12. CASE Cardinality(here) = n
  <2>. PICK freed2 : freed2 = [freed EXCEPT ![s] = @ + S]
    OBVIOUS
  <2>1. here = own[x]
    BY <1>4, <1>5, <1>12, FS_Subset
  <2>2. b2 = [phase |-> 1 - empty[s].phase, arrived |-> {}]
    BY <1>12 DEF Arrived
  <2>3. /\ freed2 \in [Stages(launch) -> Nat] /\ freed2[s] = x + S
        /\ \A t \in Stages(launch) : t # s => freed2[t] = freed[t]
    BY <1>1, <1>2 DEF Ring, Progress
  <2>4. Place(x + S) = s /\ Round(x + S) = 1 - Round(x) /\ Round(x) \in {0, 1}
    BY <1>1, NextRound, PlaceOfTile DEF Ring
  <2>5. RingShape'
    <3>1. b2 \in [phase : {0, 1}, arrived : SUBSET Warps(launch)]
      BY <1>3, <2>2, <2>4
    <3>2. empty' \in [Stages(launch) -> [phase : {0, 1}, arrived : SUBSET Warps(launch)]]
      BY <1>1, <1>7, <3>1
    <3>. QED
      BY <3>2 DEF Ring, RingShape, Stages, Warps
  <2>6. Progress(load, issued, filled, freed2)'
    <3>1. \A t \in Stages(launch) :
            /\ Place(freed2[t]) = t
            /\ issued[t] = freed2[t] \/ issued[t] = freed2[t] + S
            /\ empty'[t].phase = Round(freed2[t])
      <4>. SUFFICES ASSUME NEW t \in Stages(launch)
                    PROVE  /\ Place(freed2[t]) = t
                           /\ issued[t] = freed2[t] \/ issued[t] = freed2[t] + S
                           /\ empty'[t].phase = Round(freed2[t])
        OBVIOUS
      <4>1. CASE t = s
        BY <1>2, <1>3, <1>7, <2>2, <2>3, <2>4, <4>1
      <4>2. CASE t # s
        BY <1>7, <2>3, <4>2 DEF Ring, Progress
      <4>. QED
        BY <4>1, <4>2
    <3>2. \A t \in Stages(launch) :
            /\ Place(issued[t]) = t /\ Place(filled[t]) = t
            /\ load <= issued[t] /\ issued[t] < load + S
            /\ issued[t] = filled[t] \/ issued[t] = filled[t] + S
            /\ full[t].phase = Round(filled[t])
      BY DEF Ring, Progress
    <3>3. issued \in [Stages(launch) -> Nat] /\ filled \in [Stages(launch) -> Nat]
      BY DEF Ring, Progress
    <3>4. Stages(launch') = Stages(launch) /\ launch' = launch /\ full' = full
      BY DEF Stages
    <3>5. \A y : Place(y)' = Place(y) /\ Round(y)' = Round(y)
      BY DEF Place, Round
    <3>. QED
      BY <2>3, <3>1, <3>2, <3>3, <3>4, <3>5 DEF Progress
  <2>7. Releases(own, p2, freed2)'
    <3>1. \A v \in own[x + S] : ~ (x + S < p2[v])
      <4>. SUFFICES ASSUME NEW v \in own[x + S], x + S < p2[v] PROVE FALSE
        OBVIOUS
      <4>1. v \in Warps(launch)
        BY <1>1 DEF Ring, Shares
      <4>2. x + S < p[v]
        BY <1>1, <1>6
      <4>3. x + S < filled[Place(x + S)]
        BY <1>1, <4>1, <4>2 DEF Ring, Consumers
      <4>. QED
        BY <1>1, <1>2, <2>4, <4>3
    <3>2. own[x + S] # {}
      BY <1>1, ConsumersExist DEF Ring
    <3>3. \A t \in Stages(launch) :
            /\ empty'[t].arrived = {v \in own[freed2[t]] : freed2[t] < p2[v]}
            /\ \E v \in own[freed2[t]] : ~ (freed2[t] < p2[v])
      BY <1>7, <1>11, <2>2, <2>3, <3>1, <3>2
    <3>4. \A y \in Nat : y < freed2[Place(y)] => \A v \in own[y] : y < p2[v]
      <4>. SUFFICES ASSUME NEW y \in Nat, y < freed2[Place(y)], NEW v \in own[y]
                    PROVE  y < p2[v]
        OBVIOUS
      <4>1. Place(y) \in Stages(launch)
        BY PlaceOfTile DEF Ring
      <4>2. CASE y = x
        BY <1>5, <2>1, <4>2
      <4>3. CASE y # x /\ y < freed[Place(y)]
        BY <1>6, <4>3 DEF Ring, Releases
      <4>4. CASE y # x /\ ~ (y < freed[Place(y)])
        <5>1. Place(y) = s /\ y < x + S /\ ~ (y < x)
          BY <1>2, <2>3, <4>1, <4>4
        <5>2. x + S <= y
          BY <1>1, <4>4, <5>1, RoundsApart DEF Ring
        <5>. QED
          BY <1>1, <5>1, <5>2
      <4>. QED
        BY <4>2, <4>3, <4>4
    <3>5. Stages(launch') = Stages(launch)
      BY DEF Stages
    <3>6. \A y : Place(y)' = Place(y)
      BY DEF Place
    <3>. HIDE DEF p2
    <3>. QED
      BY <3>3, <3>4, <3>5, <3>6 DEF Releases
  <2>. QED
    BY <1>8, <1>9, <2>5, <2>6, <2>7 DEF Ring
<1>13. CASE Cardinality(here) # n
  <2>1. b2 = [empty[s] EXCEPT !.arrived = here]
    BY <1>13 DEF Arrived
  <2>2. b2.phase = empty[s].phase /\ b2.arrived = here
        /\ b2 \in [phase : {0, 1}, arrived : SUBSET Warps(launch)]
    <3>1. here \in SUBSET Warps(launch)
      BY <1>4, <1>5
    <3>2. empty[s] \in [phase : {0, 1}, arrived : SUBSET Warps(launch)]
      BY <1>1, <1>7
    <3>. HIDE DEF here
    <3>. QED
      BY <2>1, <3>1, <3>2
  <2>3. RingShape'
    <3>1. empty' \in [Stages(launch) -> [phase : {0, 1}, arrived : SUBSET Warps(launch)]]
      BY <1>1, <1>7, <2>2
    <3>. QED
      BY <3>1 DEF Ring, RingShape, Stages, Warps
  <2>4. Progress(load, issued, filled, freed)'
    <3>1. \A t \in Stages(launch) : empty'[t].phase = empty[t].phase
      BY <1>7, <2>2
    <3>. QED
      BY <3>1 DEF Ring, Progress, Place, Round, Stages
  <2>5. Releases(own, p2, freed)'
    <3>1. \E v \in own[x] : ~ (x < p2[v])
      <4>1. here # own[x]
        BY <1>4, <1>13
      <4>. QED
        BY <1>5, <4>1
    <3>2. \A t \in Stages(launch) :
            /\ empty'[t].arrived = {v \in own[freed[t]] : freed[t] < p2[v]}
            /\ \E v \in own[freed[t]] : ~ (freed[t] < p2[v])
      BY <1>2, <1>5, <1>7, <1>11, <2>2, <3>1
    <3>3. \A y \in Nat : y < freed[Place(y)] => \A v \in own[y] : y < p2[v]
      <4>. SUFFICES ASSUME NEW y \in Nat, y < freed[Place(y)], NEW v \in own[y]
                    PROVE  y < p2[v]
        OBVIOUS
      <4>1. y # x
        BY <1>1, <1>2
      <4>. QED
        BY <1>6, <4>1 DEF Ring, Releases
    <3>. HIDE DEF p2
    <3>. QED
      BY <3>2, <3>3 DEF Releases, Place, Stages
  <2>. QED
    BY <1>8, <1>9, <2>3, <2>4, <2>5 DEF Ring
<1>. QED
  BY <1>12, <1>13

\* One request for each operand.
LEMMA Requests ==
  ASSUME NEW src, NEW issued, NEW s
  PROVE  LET R == {Request(src, issued, s, op) : op \in Operands}
         IN IsFiniteSet(R) /\ Cardinality(R) = TxCount
<1>. DEFINE R == {Request(src, issued, s, op) : op \in Operands}
            f == [op \in Operands |-> Request(src, issued, s, op)]
<1>1. f \in Bijection(Operands, R)
  <2>1. \A a, b \in Operands : f[a] = f[b] => a = b
    BY DEF Request
  <2>. QED
    BY <2>1 DEF Bijection, Injection, Surjection, IsInjective
<1>2. ExistsBijection(Operands, R)
  BY <1>1 DEF ExistsBijection
<1>. QED
  BY <1>2, FS_Bijection, OperandsAssumption DEF TxCount

\* What is on the way into a stage is finite.
LEMMA PendingFinite ==
  ASSUME NEW src, NEW issued, NEW filled, Loads(src, issued, filled), NEW s \in Stages(launch)
  PROVE  /\ IsFiniteSet(Pending(s)) /\ Cardinality(Pending(s)) \in Nat
         /\ \A x \in Pending(s) : \E op \in Operands : x = Request(src, issued, s, op)
<1>1. ASSUME NEW x \in Pending(s)
      PROVE  \E op \in Operands : x = Request(src, issued, s, op)
  <2>1. x \in inflight /\ x.stage = s
    BY DEF Pending
  <2>2. PICK t \in Stages(launch), op \in Operands : x = Request(src, issued, t, op)
    BY <2>1 DEF Loads
  <2>3. t = s
    BY <2>1, <2>2 DEF Request
  <2>. QED
    BY <2>2, <2>3
<1>2. Pending(s) \subseteq {Request(src, issued, s, op) : op \in Operands}
  BY <1>1
<1>. DEFINE R == {Request(src, issued, s, op) : op \in Operands}
<1>3. IsFiniteSet(R)
  BY Requests
<1>. HIDE DEF R
<1>4. IsFiniteSet(Pending(s))
  <2>1. Pending(s) \subseteq R
    BY <1>2 DEF R
  <2>. QED
    BY <1>3, <2>1, FS_Subset
<1>. QED
  BY <1>1, <1>4, FS_CardinalityType

\* A load lands; the last one of a k tile fills the stage.
LEMMA RingLand ==
  ASSUME NEW own, NEW src, NEW n, NEW p, NEW in, NEW load, NEW issued, NEW filled, NEW freed,
         Ring(own, src, n, p, in, load, issued, filled, freed),
         UNCHANGED <<launch, loader, empty>>,
         NEW x \in inflight,
         inflight' = inflight \ {x},
         smem' = [smem EXCEPT ![x.stage][x.op] = x.src],
         full' = [full EXCEPT ![x.stage] = Landed(@)]
  PROVE  \E filled2 : Ring(own, src, n, p, in, load, issued, filled2, freed)'
<1>. DEFINE S == launch.stages
<1>1. PICK s \in Stages(launch), op \in Operands : x = Request(src, issued, s, op)
  BY DEF Ring, Loads
<1>2. x.stage = s /\ x.op = op /\ x.src = src[issued[s] - S][op] /\ x \in Pending(s)
  BY <1>1 DEF Request, Pending
<1>3. /\ filled[s] # issued[s] /\ full[s].armed
      /\ full[s].tx = Cardinality(Pending(s))
      /\ full[s].tx \in Nat /\ full[s].tx > 0
  BY <1>2 DEF Ring, Loads, RingShape
<1>4. /\ filled[s] \in Nat /\ issued[s] = filled[s] + S /\ S \in Nat /\ S > 0
      /\ Place(issued[s]) = s /\ full[s].phase = Round(filled[s])
  BY <1>3 DEF Ring, Progress, RingShape
<1>5. /\ \A t : t = s => Pending(t)' = Pending(s) \ {x}
      /\ \A t : t # s => Pending(t)' = Pending(t)
  BY <1>2 DEF Pending
<1>6. IsFiniteSet(Pending(s)) /\ Cardinality(Pending(s) \ {x}) = full[s].tx - 1
  BY <1>2, <1>3, PendingFinite, FS_RemoveElement DEF Ring
<1>7. /\ full'[s] = Landed(full[s])
      /\ \A t \in Stages(launch) : t # s => full'[t] = full[t]
      /\ full \in [Stages(launch) -> [phase : {0, 1}, armed : BOOLEAN, tx : Nat]]
      /\ full' = [full EXCEPT ![s] = Landed(full[s])]
  BY <1>2 DEF Ring, RingShape
<1>8. /\ smem = [t \in Stages(launch) |-> [o \in Operands |-> smem[t][o]]]
      /\ smem' = [smem EXCEPT ![s][op] = x.src]
  BY <1>2 DEF Ring, RingShape
<1>9. /\ \A t \in Stages(launch) : \A o \in Operands :
           smem'[t][o] = IF t = s /\ o = op THEN x.src ELSE smem[t][o]
      /\ smem' = [t \in Stages(launch) |-> [o \in Operands |-> smem'[t][o]]]
  <2>1. \A t \in Stages(launch) : smem[t] = [o \in Operands |-> smem[t][o]]
    BY <1>8
  <2>2. smem' = [t \in Stages(launch) |->
                   IF t = s THEN [smem[s] EXCEPT ![op] = x.src] ELSE smem[t]]
    BY <1>8
  <2>3. \A t \in Stages(launch) :
          smem'[t] = IF t = s THEN [smem[s] EXCEPT ![op] = x.src] ELSE smem[t]
    BY <2>2
  <2>4. [smem[s] EXCEPT ![op] = x.src]
           = [o \in Operands |-> IF o = op THEN x.src ELSE smem[s][o]]
    BY <2>1
  <2>5. ASSUME NEW t \in Stages(launch)
        PROVE  /\ \A o \in Operands :
                    smem'[t][o] = IF t = s /\ o = op THEN x.src ELSE smem[t][o]
               /\ smem'[t] = [o \in Operands |-> smem'[t][o]]
    <3>1. CASE t = s
      <4>1. smem'[t] = [o \in Operands |-> IF o = op THEN x.src ELSE smem[s][o]]
        BY <2>3, <2>4, <3>1
      <4>. QED
        BY <3>1, <4>1
    <3>2. CASE t # s
      BY <2>1, <2>3, <3>2
    <3>. QED
      BY <3>1, <3>2
  <2>6. smem' = [t \in Stages(launch) |-> smem'[t]]
    BY <2>2
  <2>7. smem' = [t \in Stages(launch) |-> [o \in Operands |-> smem'[t][o]]]
    BY <2>5, <2>6
  <2>. QED
    BY <2>5, <2>7
<1>10. Stages(launch') = Stages(launch) /\ launch' = launch /\ loader' = loader
  BY DEF Stages
<1>11. \A y : Place(y)' = Place(y) /\ Round(y)' = Round(y)
  BY DEF Place, Round
<1>12. \A t, o : Request(src, issued, t, o)' = Request(src, issued, t, o)
  BY DEF Request
<1>13. Shares(own, n)' /\ LoaderAt(load)' /\ Releases(own, p, freed)'
  BY <1>10, <1>11 DEF Ring, Shares, LoaderAt, Releases, Warps
<1>14. \A t \in Stages(launch) : issued[t] >= S => \A o \in Operands :
         \/ Request(src, issued, t, o) \in inflight'
         \/ smem'[t][o] = src[issued[t] - S][o]
  <2>. SUFFICES ASSUME NEW t \in Stages(launch), issued[t] >= S, NEW o \in Operands,
                       Request(src, issued, t, o) \notin inflight'
                PROVE  smem'[t][o] = src[issued[t] - S][o]
    OBVIOUS
  <2>1. CASE t = s /\ o = op
    BY <1>2, <1>9, <2>1
  <2>2. CASE t # s \/ o # op
    <3>1. Request(src, issued, t, o) # x
      BY <1>2, <2>2 DEF Request
    <3>2. Request(src, issued, t, o) \notin inflight
      BY <3>1
    <3>3. smem[t][o] = src[issued[t] - S][o]
      BY <3>2 DEF Ring, Loads
    <3>. QED
      BY <1>9, <2>2, <3>3
  <2>. QED
    BY <2>1, <2>2
<1>15. CASE full[s].tx = 1
  <2>1. PICK filled2 : filled2 = [filled EXCEPT ![s] = @ + S]
    OBVIOUS
  <2>2. /\ filled2 \in [Stages(launch) -> Nat] /\ filled2[s] = issued[s]
        /\ \A t \in Stages(launch) : t # s => filled2[t] = filled[t]
    BY <1>4, <2>1 DEF Ring, Progress
  <2>3. full'[s] = [phase |-> 1 - full[s].phase, armed |-> FALSE, tx |-> 0]
    BY <1>3, <1>7, <1>15 DEF Landed
  <2>4. Round(issued[s]) = 1 - Round(filled[s]) /\ Round(filled[s]) \in {0, 1}
    BY <1>4, NextRound, PlaceOfTile DEF Ring
  <2>5. RingShape'
    <3>1. full'[s] \in [phase : {0, 1}, armed : BOOLEAN, tx : Nat]
      <4>1. 1 - full[s].phase \in {0, 1}
        BY <1>4, <2>4
      <4>2. \A ph \in {0, 1} : [phase |-> ph, armed |-> FALSE, tx |-> 0]
                                 \in [phase : {0, 1}, armed : BOOLEAN, tx : Nat]
        OBVIOUS
      <4>. QED
        BY <2>3, <4>1, <4>2
    <3>2. full' \in [Stages(launch) -> [phase : {0, 1}, armed : BOOLEAN, tx : Nat]]
      BY <1>7, <3>1
    <3>3. empty' \in [Stages(launch') -> [phase : {0, 1}, arrived : SUBSET Warps(launch')]]
      BY <1>10 DEF Ring, RingShape
    <3>. QED
      BY <1>9, <1>10, <3>2, <3>3 DEF Ring, RingShape
  <2>6. Progress(load, issued, filled2, freed)'
    <3>1. \A t \in Stages(launch) :
            /\ Place(filled2[t]) = t
            /\ issued[t] = filled2[t] \/ issued[t] = filled2[t] + S
            /\ full'[t].phase = Round(filled2[t])
      <4>. SUFFICES ASSUME NEW t \in Stages(launch)
                    PROVE  /\ Place(filled2[t]) = t
                           /\ issued[t] = filled2[t] \/ issued[t] = filled2[t] + S
                           /\ full'[t].phase = Round(filled2[t])
        OBVIOUS
      <4>1. CASE t = s
        BY <1>4, <2>2, <2>3, <2>4, <4>1
      <4>2. CASE t # s
        BY <1>7, <2>2, <4>2 DEF Ring, Progress
      <4>. QED
        BY <4>1, <4>2
    <3>2. \A t \in Stages(launch) :
            /\ Place(issued[t]) = t /\ Place(freed[t]) = t
            /\ load <= issued[t] /\ issued[t] < load + S
            /\ issued[t] = freed[t] \/ issued[t] = freed[t] + S
            /\ empty[t].phase = Round(freed[t])
      BY DEF Ring, Progress
    <3>3. issued \in [Stages(launch) -> Nat] /\ freed \in [Stages(launch) -> Nat]
      BY DEF Ring, Progress
    <3>. QED
      BY <1>10, <1>11, <2>2, <3>1, <3>2, <3>3 DEF Progress
  <2>7. Loads(src, issued, filled2)'
    <3>1. Pending(s)' = {}
      <4>1. IsFiniteSet(Pending(s) \ {x}) /\ Cardinality(Pending(s) \ {x}) = 0
        BY <1>6, <1>15, FS_Subset
      <4>. QED
        BY <1>5, <4>1, FS_EmptySet
    <3>2. \A t \in Stages(launch) :
            /\ filled2[t] = issued[t] =>
                 /\ Pending(t)' = {}
                 /\ loader.pc = "load" => ~full'[t].armed /\ full'[t].tx = 0
            /\ filled2[t] # issued[t] =>
                 /\ full'[t].armed
                 /\ full'[t].tx = Cardinality(Pending(t)') /\ full'[t].tx > 0
      <4>. SUFFICES ASSUME NEW t \in Stages(launch)
                    PROVE  /\ filled2[t] = issued[t] =>
                                /\ Pending(t)' = {}
                                /\ loader.pc = "load" => ~full'[t].armed /\ full'[t].tx = 0
                           /\ filled2[t] # issued[t] =>
                                /\ full'[t].armed
                                /\ full'[t].tx = Cardinality(Pending(t)')
                                /\ full'[t].tx > 0
        OBVIOUS
      <4>1. CASE t = s
        BY <2>2, <2>3, <3>1, <4>1
      <4>2. CASE t # s
        BY <1>5, <1>7, <2>2, <4>2 DEF Ring, Loads
      <4>. QED
        BY <4>1, <4>2
    <3>3. \A y \in inflight' : \E t \in Stages(launch) : \E o \in Operands :
            y = Request(src, issued, t, o)
      BY DEF Ring, Loads
    <3>. QED
      BY <1>10, <1>12, <1>14, <3>2, <3>3 DEF Loads
  <2>8. Consumers(own, p, in, filled2)'
    <3>1. \A y \in Nat : y < filled[Place(y)] => y < filled2[Place(y)]
      <4>. SUFFICES ASSUME NEW y \in Nat, y < filled[Place(y)]
                    PROVE  y < filled2[Place(y)]
        OBVIOUS
      <4>1. Place(y) \in Stages(launch)
        BY PlaceOfTile DEF Ring
      <4>. QED
        BY <1>4, <2>2, <4>1
    <3>2. p \in [Warps(launch) -> Nat] /\ in \subseteq Warps(launch)
      BY DEF Ring, Consumers
    <3>3. \A w \in Warps(launch) : \A y \in Nat :
            w \in own[y] /\ y < p[w] => y < filled2[Place(y)]
      BY <3>1 DEF Ring, Consumers
    <3>4. \A w \in in : w \in own[p[w]] /\ p[w] < filled2[Place(p[w])]
      BY <3>1, <3>2 DEF Ring, Consumers
    <3>. QED
      BY <1>10, <1>11, <3>2, <3>3, <3>4 DEF Consumers
  <2>. QED
    BY <1>13, <2>5, <2>6, <2>7, <2>8 DEF Ring
<1>16. CASE full[s].tx # 1
  <2>1. full'[s] = [full[s] EXCEPT !.tx = @ - 1]
    BY <1>3, <1>7, <1>16 DEF Landed
  <2>2. /\ full'[s].phase = full[s].phase /\ full'[s].armed
        /\ full'[s].tx = full[s].tx - 1
        /\ full'[s] \in [phase : {0, 1}, armed : BOOLEAN, tx : Nat]
    BY <1>3, <1>7, <2>1
  <2>3. RingShape'
    <3>1. full' \in [Stages(launch) -> [phase : {0, 1}, armed : BOOLEAN, tx : Nat]]
      BY <1>7, <2>2
    <3>2. empty' \in [Stages(launch') -> [phase : {0, 1}, arrived : SUBSET Warps(launch')]]
      BY <1>10 DEF Ring, RingShape
    <3>. QED
      BY <1>9, <1>10, <3>1, <3>2 DEF Ring, RingShape
  <2>4. Progress(load, issued, filled, freed)'
    <3>1. \A t \in Stages(launch) : full'[t].phase = full[t].phase
      BY <1>7, <2>2
    <3>. QED
      BY <1>10, <1>11, <3>1 DEF Ring, Progress
  <2>5. Loads(src, issued, filled)'
    <3>1. \A t \in Stages(launch) :
            /\ filled[t] = issued[t] =>
                 /\ Pending(t)' = {}
                 /\ loader.pc = "load" => ~full'[t].armed /\ full'[t].tx = 0
            /\ filled[t] # issued[t] =>
                 /\ full'[t].armed
                 /\ full'[t].tx = Cardinality(Pending(t)') /\ full'[t].tx > 0
      <4>. SUFFICES ASSUME NEW t \in Stages(launch)
                    PROVE  /\ filled[t] = issued[t] =>
                                /\ Pending(t)' = {}
                                /\ loader.pc = "load" => ~full'[t].armed /\ full'[t].tx = 0
                           /\ filled[t] # issued[t] =>
                                /\ full'[t].armed
                                /\ full'[t].tx = Cardinality(Pending(t)')
                                /\ full'[t].tx > 0
        OBVIOUS
      <4>1. CASE t = s
        <5>1. Pending(t)' = Pending(s) \ {x}
          BY <1>5, <4>1
        <5>2. Cardinality(Pending(t)') = full[s].tx - 1
          BY <1>6, <5>1
        <5>. QED
          BY <1>3, <1>16, <2>2, <4>1, <5>2
      <4>2. CASE t # s
        BY <1>5, <1>7, <4>2 DEF Ring, Loads
      <4>. QED
        BY <4>1, <4>2
    <3>2. \A y \in inflight' : \E t \in Stages(launch) : \E o \in Operands :
            y = Request(src, issued, t, o)
      BY DEF Ring, Loads
    <3>. QED
      BY <1>10, <1>12, <1>14, <3>1, <3>2 DEF Loads
  <2>6. Consumers(own, p, in, filled)'
    BY <1>10, <1>11 DEF Ring, Consumers
  <2>. QED
    BY <1>13, <2>3, <2>4, <2>5, <2>6 DEF Ring
<1>. QED
  BY <1>15, <1>16
\* A stage whose last wait for its consumers is over is empty: the k tile that
\* was in it has landed and has been consumed.
LEMMA FreedStage ==
  ASSUME NEW own, NEW src, NEW n, NEW p, NEW in, NEW load, NEW issued, NEW filled, NEW freed,
         Ring(own, src, n, p, in, load, issued, filled, freed),
         NEW s \in Stages(launch), Passes(empty[s], 1 - Round(issued[s]))
  PROVE  freed[s] = issued[s] /\ filled[s] = issued[s] /\ Pending(s) = {}
<1>. DEFINE S == launch.stages  x == issued[s]
<1>1. /\ x \in Nat /\ filled[s] \in Nat /\ freed[s] \in Nat /\ S \in Nat /\ S > 0
      /\ Place(x) = s /\ Place(freed[s]) = s /\ Place(filled[s]) = s
      /\ x = filled[s] \/ x = filled[s] + S
      /\ x = freed[s] \/ x = freed[s] + S
      /\ empty[s].phase = Round(freed[s])
  BY DEF Ring, Progress, RingShape
<1>2. Round(x) \in {0, 1} /\ Round(freed[s]) \in {0, 1}
  BY <1>1, PlaceOfTile DEF Ring
<1>3. freed[s] = x
  <2>1. ASSUME x = freed[s] + S PROVE FALSE
    <3>1. Round(x) = 1 - Round(freed[s])
      BY <1>1, <2>1, NextRound DEF Ring
    <3>. QED
      BY <1>1, <1>2, <3>1 DEF Passes
  <2>. QED
    BY <1>1, <2>1
<1>4. filled[s] = x
  <2>1. ASSUME x = filled[s] + S PROVE FALSE
    <3>. DEFINE y == filled[s]
    <3>1. y \in Nat /\ y < freed[Place(y)] /\ Place(y) = s
      BY <1>1, <1>3, <2>1
    <3>2. PICK w \in own[y] : w \in Warps(launch)
      BY <3>1, ConsumersExist DEF Ring, Shares
    <3>3. y < p[w]
      BY <3>1 DEF Ring, Releases
    <3>4. y < filled[Place(y)]
      BY <3>1, <3>2, <3>3 DEF Ring, Consumers
    <3>. QED
      BY <3>1, <3>4
  <2>. QED
    BY <1>1, <2>1
<1>. QED
  BY <1>3, <1>4 DEF Ring, Loads

\* The loader issues the loads of the next k tile.
LEMMA RingLoad ==
  ASSUME NEW own, NEW src, NEW n, NEW p, NEW in, NEW load, NEW issued, NEW filled, NEW freed,
         Ring(own, src, n, p, in, load, issued, filled, freed),
         NEW tn, LoadFrom(tn),
         \A op \in Operands :
            src[load][op] = Source(op, Linear(loader.executed), loader.pipe.count, tn)
  PROVE  \E issued2 : Ring(own, src, n, p, in, load + 1, issued2, filled, freed)'
<1>. DEFINE S == launch.stages  s == Place(load)  K == launch.kTiles
<1>1. /\ load \in Nat /\ S \in Nat /\ S > 0 /\ s \in Stages(launch) /\ Round(load) \in {0, 1}
      /\ loader.pipe.index = s /\ loader.pipe.phase = 1 - Round(load)
      /\ K \in Nat /\ K > 0 /\ loader.executed \in Nat
      /\ loader.pipe.count \in 0 .. K - 1 /\ load = K * loader.executed + loader.pipe.count
  BY PlaceOfTile DEF Ring, LoaderAt, RingShape, Place, Round
<1>2. issued[s] = load
  <2>1. issued[s] \in Nat /\ Place(issued[s]) = s /\ load <= issued[s] /\ issued[s] < load + S
    BY <1>1 DEF Ring, Progress
  <2>2. load < issued[s] => load + S <= issued[s]
    BY <1>1, <2>1, RoundsApart DEF Ring
  <2>. QED
    BY <1>1, <2>1, <2>2
<1>3. freed[s] = load /\ filled[s] = load /\ Pending(s) = {}
  <2>1. Passes(empty[s], 1 - Round(issued[s]))
    BY <1>1, <1>2 DEF LoadFrom
  <2>. QED
    BY <1>1, <1>2, <2>1, FreedStage
<1>4. ~full[s].armed /\ full[s].tx = 0
  BY <1>1, <1>2, <1>3 DEF Ring, Loads, LoadFrom
<1>5. TxCount \in Nat /\ TxCount > 0
  <2>1. Cardinality({}) = 0
    BY FS_EmptySet
  <2>2. TxCount \in Nat
    BY OperandsAssumption, FS_CardinalityType DEF TxCount
  <2>3. TxCount # 0
    BY OperandsAssumption, FS_EmptySet DEF TxCount
  <2>. QED
    BY <2>2, <2>3
<1>. PICK issued2 : issued2 = [issued EXCEPT ![s] = load + S]
  OBVIOUS
<1>6. /\ issued2 \in [Stages(launch) -> Nat] /\ issued2[s] = load + S
      /\ \A t \in Stages(launch) : t # s => issued2[t] = issued[t]
  BY <1>1 DEF Ring, Progress
<1>7. /\ full'[s] = [phase |-> full[s].phase, armed |-> TRUE, tx |-> TxCount]
      /\ \A t \in Stages(launch) : t # s => full'[t] = full[t]
      /\ full \in [Stages(launch) -> [phase : {0, 1}, armed : BOOLEAN, tx : Nat]]
      /\ full' = [full EXCEPT ![s] = Armed(full[s], TxCount)]
  <2>1. /\ full \in [Stages(launch) -> [phase : {0, 1}, armed : BOOLEAN, tx : Nat]]
        /\ full' = [full EXCEPT ![s] = Armed(full[s], TxCount)]
    BY <1>1 DEF Ring, RingShape, LoadFrom
  <2>2. full[s].tx + TxCount = TxCount
    BY <1>4, <1>5
  <2>3. Armed(full[s], TxCount) = [phase |-> full[s].phase, armed |-> TRUE, tx |-> TxCount]
    BY <2>2 DEF Armed
  <2>. QED
    BY <1>1, <2>1, <2>3
<1>8. /\ launch' = launch /\ empty' = empty /\ smem' = smem
      /\ Stages(launch') = Stages(launch)
  BY DEF LoadFrom, Stages
<1>9. \A y : Place(y)' = Place(y) /\ Round(y)' = Round(y)
  BY <1>8 DEF Place, Round
<1>. DEFINE whole == loader.pipe.count + 1 = K
<1>10. /\ loader' = [pc |-> "load",
                     executed |-> IF whole THEN loader.executed + 1 ELSE loader.executed,
                     pipe |-> loader'.pipe]
       /\ loader'.pipe = [index |-> (s + 1) % S,
                          phase |-> IF s + 1 = S THEN Round(load) ELSE 1 - Round(load),
                          count |-> IF whole THEN 0 ELSE loader.pipe.count + 1]
  <2>. PICK e, c, a : e = loader.executed /\ c = loader.pipe.count /\ a = Advanced(loader.pipe)
    OBVIOUS
  <2>1. loader = [pc |-> "load", executed |-> e, pipe |-> loader.pipe]
    BY DEF Ring, RingShape, LoadFrom
  <2>2. a = [index |-> (s + 1) % S,
             phase |-> IF s + 1 = S THEN Round(load) ELSE 1 - Round(load), count |-> c + 1]
    <3>1. 1 - (1 - Round(load)) = Round(load)
      BY <1>1
    <3>. QED
      BY <1>1, <3>1 DEF Advanced
  <2>3. loader' = [loader EXCEPT
            !.pipe = IF whole THEN [a EXCEPT !.count = 0] ELSE a,
            !.executed = IF whole THEN e + 1 ELSE e]
    BY DEF LoadFrom
  <2>4. loader' = [pc |-> "load", executed |-> IF whole THEN e + 1 ELSE e,
                   pipe |-> IF whole THEN [a EXCEPT !.count = 0] ELSE a]
    <3>0. PICK l, q, b, f : /\ l = loader /\ q = loader.pipe
                            /\ b = IF whole THEN [a EXCEPT !.count = 0] ELSE a
                            /\ f = IF whole THEN e + 1 ELSE e
      OBVIOUS
    <3>1. l = [pc |-> "load", executed |-> e, pipe |-> q]
      BY <2>1, <3>0
    <3>2. loader' = [l EXCEPT !.pipe = b, !.executed = f]
      BY <2>3, <3>0
    <3>. HIDE DEF whole, s, S, K
    <3>3. loader' = [pc |-> "load", executed |-> f, pipe |-> b]
      BY ONLY <3>1, <3>2
    <3>. QED
      BY <3>0, <3>3
  <2>5. (IF whole THEN [a EXCEPT !.count = 0] ELSE a)
          = [index |-> (s + 1) % S,
             phase |-> IF s + 1 = S THEN Round(load) ELSE 1 - Round(load),
             count |-> IF whole THEN 0 ELSE c + 1]
    BY <2>2
  <2>6. loader'.pipe = IF whole THEN [a EXCEPT !.count = 0] ELSE a
    BY <2>4
  <2>. QED
    BY <2>4, <2>5, <2>6
<1>11. RingShape'
  <2>1. full'[s] \in [phase : {0, 1}, armed : BOOLEAN, tx : Nat]
    BY <1>1, <1>5, <1>7
  <2>2. full' \in [Stages(launch) -> [phase : {0, 1}, armed : BOOLEAN, tx : Nat]]
    BY <1>7, <2>1
  <2>3. empty' \in [Stages(launch') -> [phase : {0, 1}, arrived : SUBSET Warps(launch')]]
    BY <1>8 DEF Ring, RingShape
  <2>4. /\ loader' = [pc |-> loader'.pc, executed |-> loader'.executed, pipe |-> loader'.pipe]
        /\ loader'.pipe = [index |-> loader'.pipe.index, phase |-> loader'.pipe.phase,
                           count |-> loader'.pipe.count]
        /\ loader'.pc = "load"
    BY <1>10
  <2>. QED
    BY <1>8, <2>2, <2>3, <2>4 DEF Ring, RingShape
<1>12. LoaderAt(load + 1)'
  <2>1. /\ (load + 1) % S = (s + 1) % S
        /\ (load + 1) \div S = IF s + 1 = S THEN load \div S + 1 ELSE load \div S
        /\ load \div S \in Nat
    BY <1>1, NextOnRing, Division DEF Place
  <2>2. /\ loader'.executed = IF whole THEN loader.executed + 1 ELSE loader.executed
        /\ loader'.pipe.count = IF whole THEN 0 ELSE loader.pipe.count + 1
        /\ loader'.pipe.index = (s + 1) % S
        /\ loader'.pipe.phase = IF s + 1 = S THEN Round(load) ELSE 1 - Round(load)
    BY <1>10
  <2>3. load + 1 = K * loader'.executed + loader'.pipe.count
        /\ loader'.executed \in Nat /\ loader'.pipe.count \in 0 .. K - 1
    <3>1. CASE whole
      <4>1. K * (loader.executed + 1) = K * loader.executed + K
        BY <1>1
      <4>. QED
        BY <1>1, <2>2, <3>1, <4>1
    <3>2. CASE ~whole
      <4>1. K * loader.executed \in Nat
        BY <1>1
      <4>. QED
        BY <1>1, <2>2, <3>2, <4>1
    <3>. QED
      BY <3>1, <3>2
  <2>4. loader'.pipe.phase = 1 - (((load + 1) \div S) % 2)
    <3>1. ((load \div S) + 1) % 2 = 1 - ((load \div S) % 2)
      BY <2>1
    <3>. QED
      BY <1>1, <2>1, <2>2, <3>1 DEF Round
  <2>5. launch'.stages = S /\ launch'.kTiles = K /\ load + 1 \in Nat
    BY <1>1, <1>8
  <2>. HIDE DEF whole, K, S, s
  <2>. QED
    BY <2>1, <2>2, <2>3, <2>4, <2>5 DEF LoaderAt
<1>13. Progress(load + 1, issued2, filled, freed)'
  <2>1. Place(load + S) = s
    BY <1>1, NextRound DEF Ring
  <2>2. ASSUME NEW t \in Stages(launch)
        PROVE  /\ Place(issued2[t]) = t
               /\ load + 1 <= issued2[t] /\ issued2[t] < load + 1 + S
               /\ issued2[t] = filled[t] \/ issued2[t] = filled[t] + S
               /\ issued2[t] = freed[t] \/ issued2[t] = freed[t] + S
               /\ full'[t].phase = full[t].phase
    <3>1. CASE t = s
      BY <1>1, <1>3, <1>6, <1>7, <2>1, <3>1
    <3>2. CASE t # s
      <4>1. /\ issued[t] \in Nat /\ Place(issued[t]) = t
            /\ load <= issued[t] /\ issued[t] < load + S
            /\ issued[t] = filled[t] \/ issued[t] = filled[t] + S
            /\ issued[t] = freed[t] \/ issued[t] = freed[t] + S
        BY DEF Ring, Progress
      <4>2. issued[t] # load
        BY <3>2, <4>1
      <4>. QED
        BY <1>1, <1>6, <1>7, <3>2, <4>1, <4>2
    <3>. QED
      BY <3>1, <3>2
  <2>3. /\ filled \in [Stages(launch) -> Nat] /\ freed \in [Stages(launch) -> Nat]
        /\ \A t \in Stages(launch) :
             /\ Place(filled[t]) = t /\ Place(freed[t]) = t
             /\ full[t].phase = Round(filled[t]) /\ empty[t].phase = Round(freed[t])
    BY DEF Ring, Progress
  <2>. QED
    BY <1>6, <1>8, <1>9, <2>2, <2>3 DEF Progress
<1>14. Loads(src, issued2, filled)'
  <2>. DEFINE new == {Request(src, issued2, s, op) : op \in Operands}
  <2>1. inflight' = inflight \cup new
    <3>1. \A op \in Operands : Request(src, issued2, s, op) =
            [stage |-> s, op |-> op,
             src |-> Source(op, Linear(loader.executed), loader.pipe.count, tn)]
      <4>1. issued2[s] - S = load
        BY <1>1, <1>6
      <4>. QED
        BY <4>1 DEF Request
    <3>2. inflight' = inflight \cup
            {[stage |-> s, op |-> op,
              src |-> Source(op, Linear(loader.executed), loader.pipe.count, tn)] :
                 op \in Operands}
      BY <1>1 DEF LoadFrom
    <3>. QED
      BY <3>1, <3>2
  <2>2. IsFiniteSet(new) /\ Cardinality(new) = TxCount
    BY Requests
  <2>3. \A t : t = s => Pending(t)' = new
    BY <1>3, <2>1 DEF Pending, Request
  <2>4. \A t : t # s => Pending(t)' = Pending(t)
    BY <2>1 DEF Pending, Request
  <2>5. \A t \in Stages(launch) : t # s =>
          \A o : Request(src, issued2, t, o) = Request(src, issued, t, o)
    BY <1>6 DEF Request
  <2>6. ASSUME NEW x \in inflight'
        PROVE  \E t \in Stages(launch) : \E op \in Operands : x = Request(src, issued2, t, op)
    <3>1. CASE x \in new
      BY <1>1, <3>1
    <3>2. CASE x \in inflight
      <4>1. PICK t \in Stages(launch), op \in Operands : x = Request(src, issued, t, op)
        BY <3>2 DEF Ring, Loads
      <4>2. t # s
        BY <1>3, <3>2, <4>1 DEF Pending, Request
      <4>. QED
        BY <2>5, <4>1, <4>2
    <3>. QED
      BY <2>1, <3>1, <3>2
  <2>7. ASSUME NEW t \in Stages(launch)
        PROVE  /\ filled[t] = issued2[t] =>
                    /\ Pending(t)' = {}
                    /\ loader'.pc = "load" => ~full'[t].armed /\ full'[t].tx = 0
               /\ filled[t] # issued2[t] =>
                    /\ full'[t].armed
                    /\ full'[t].tx = Cardinality(Pending(t)') /\ full'[t].tx > 0
               /\ issued2[t] >= S => \A op \in Operands :
                    \/ Request(src, issued2, t, op) \in inflight'
                    \/ smem[t][op] = src[issued2[t] - S][op]
    <3>1. CASE t = s
      <4>1. filled[t] # issued2[t]
        BY <1>1, <1>3, <1>6, <3>1
      <4>2. Cardinality(Pending(t)') = TxCount
        BY <2>2, <2>3, <3>1
      <4>3. \A op \in Operands : Request(src, issued2, t, op) \in inflight'
        BY <2>1, <3>1
      <4>4. full'[t].armed /\ full'[t].tx = TxCount
        BY <1>7, <3>1
      <4>. QED
        BY <1>5, <4>1, <4>2, <4>3, <4>4
    <3>2. CASE t # s
      <4>1. loader.pc = "load" /\ full'[t] = full[t] /\ issued2[t] = issued[t]
        BY <1>6, <1>7, <3>2 DEF LoadFrom
      <4>2. Pending(t)' = Pending(t)
        BY <2>4, <3>2
      <4>3. /\ filled[t] = issued[t] =>
                 Pending(t) = {} /\ ~full[t].armed /\ full[t].tx = 0
            /\ filled[t] # issued[t] =>
                 /\ full[t].armed
                 /\ full[t].tx = Cardinality(Pending(t)) /\ full[t].tx > 0
        BY <4>1 DEF Ring, Loads
      <4>4. issued[t] >= S => \A op \in Operands :
                 \/ Request(src, issued, t, op) \in inflight
                 \/ smem[t][op] = src[issued[t] - S][op]
        BY DEF Ring, Loads
      <4>5. issued2[t] >= S => \A op \in Operands :
                 \/ Request(src, issued2, t, op) \in inflight'
                 \/ smem[t][op] = src[issued2[t] - S][op]
        BY <2>1, <2>5, <3>2, <4>1, <4>4
      <4>. QED
        BY <4>1, <4>2, <4>3, <4>5
    <3>. QED
      BY <3>1, <3>2
  <2>8. \A t, o : Request(src, issued2, t, o)' = Request(src, issued2, t, o)
    BY <1>8 DEF Request
  <2>9. S = launch'.stages /\ smem' = smem
    BY <1>8
  <2>. HIDE DEF S, new
  <2>. QED
    <3>1. (\A x \in inflight : \E t \in Stages(launch) : \E op \in Operands :
             x = Request(src, issued2, t, op))'
      BY <1>8, <2>6, <2>8
    <3>2. (\A t \in Stages(launch) :
             /\ filled[t] = issued2[t] =>
                  Pending(t) = {} /\ (loader.pc = "load" => ~full[t].armed /\ full[t].tx = 0)
             /\ filled[t] # issued2[t] =>
                  /\ full[t].armed
                  /\ full[t].tx = Cardinality(Pending(t)) /\ full[t].tx > 0)'
      BY <1>8, <2>7
    <3>3. (\A t \in Stages(launch) : issued2[t] >= launch.stages => \A op \in Operands :
             \/ Request(src, issued2, t, op) \in inflight
             \/ smem[t][op] = src[issued2[t] - launch.stages][op])'
      <4>1. \A t \in Stages(launch) : issued2[t] >= S => \A op \in Operands :
               \/ Request(src, issued2, t, op) \in inflight'
               \/ smem[t][op] = src[issued2[t] - S][op]
        BY <2>7
      <4>2. \A t \in Stages(launch) : issued2[t] >= launch'.stages => \A op \in Operands :
               \/ Request(src, issued2, t, op)' \in inflight'
               \/ smem'[t][op] = src[issued2[t] - launch'.stages][op]
        <5>. SUFFICES ASSUME NEW t \in Stages(launch), issued2[t] >= launch'.stages,
                             NEW op \in Operands
                      PROVE  \/ Request(src, issued2, t, op)' \in inflight'
                             \/ smem'[t][op] = src[issued2[t] - launch'.stages][op]
          OBVIOUS
        <5>1. issued2[t] >= S
          BY <2>9
        <5>2. \/ Request(src, issued2, t, op) \in inflight'
              \/ smem[t][op] = src[issued2[t] - S][op]
          BY <4>1, <5>1
        <5>3. Request(src, issued2, t, op)' = Request(src, issued2, t, op)
          BY <2>8
        <5>4. smem'[t][op] = smem[t][op]
          BY <2>9
        <5>. QED
          BY <2>9, <5>2, <5>3, <5>4
      <4>. QED
        BY <1>8, <4>2
    <3>. QED
      BY <3>1, <3>2, <3>3 DEF Loads
<1>15. Shares(own, n)' /\ Releases(own, p, freed)' /\ Consumers(own, p, in, filled)'
  BY <1>8, <1>9 DEF Ring, Shares, Releases, Consumers, Warps
<1>. QED
  BY <1>11, <1>12, <1>13, <1>14, <1>15 DEF Ring

\* The loader drains: the stage it filled last is empty, and no load waits for it.
LEMMA RingDrain ==
  ASSUME NEW own, NEW src, NEW n, NEW p, NEW in, NEW load, NEW issued, NEW filled, NEW freed,
         Ring(own, src, n, p, in, load, issued, filled, freed),
         DrainLoader
  PROVE  Ring(own, src, n, p, in, load, issued, filled, freed)'
<1>. DEFINE S == launch.stages  i == loader.pipe.index
            last == (i + S - 1) % S  z == load + (S - 1)
            parity == IF i = 0 THEN loader.pipe.phase ELSE 1 - loader.pipe.phase
<1>1. /\ load \in Nat /\ S \in Nat /\ S > 0 /\ Round(load) \in {0, 1}
      /\ i = Place(load) /\ i \in Stages(launch) /\ loader.pipe.phase = 1 - Round(load)
  BY PlaceOfTile DEF Ring, LoaderAt, RingShape, Place, Round
<1>2. z \in Nat /\ S - 1 \in Nat /\ load <= z /\ z < load + S /\ i \in 0 .. S - 1
  BY <1>1 DEF Stages
<1>3. Place(z) = last /\ parity = 1 - Round(z)
  <2>1. /\ z % S = (i + (S - 1)) % S
        /\ z \div S = load \div S + (i + (S - 1)) \div S
        /\ load \div S \in Nat
    <3>1. /\ (load + (S - 1)) % S = ((load % S) + (S - 1)) % S
          /\ (load + (S - 1)) \div S = load \div S + ((load % S) + (S - 1)) \div S
      BY <1>1, <1>2, SkipOnRing
    <3>2. load \div S \in Nat
      BY <1>1, Division
    <3>. QED
      BY <1>1, <3>1, <3>2 DEF Place
  <2>2. i + (S - 1) = i + S - 1
    BY <1>1, <1>2
  <2>3. (i + (S - 1)) \div S = IF i = 0 THEN 0 ELSE 1
    <3>1. CASE i = 0
      <4>1. i + (S - 1) = S * 0 + (S - 1)
        BY <1>1, <1>2, <3>1
      <4>. QED
        BY <1>1, <1>2, <3>1, <4>1, Quotient
    <3>2. CASE i # 0
      <4>1. i + (S - 1) = S * 1 + (i - 1) /\ i - 1 \in Nat /\ i - 1 < S
        BY <1>1, <1>2, <3>2
      <4>. QED
        BY <1>1, <1>2, <3>2, <4>1, Quotient
    <3>. QED
      BY <3>1, <3>2
  <2>4. ((load \div S) + 1) % 2 = 1 - ((load \div S) % 2)
    BY <2>1
  <2>5. Round(z) = IF i = 0 THEN Round(load) ELSE 1 - Round(load)
    BY <2>1, <2>3, <2>4 DEF Round
  <2>. QED
    BY <1>1, <2>1, <2>2, <2>5 DEF Place
<1>4. last \in Stages(launch) /\ Round(z) \in {0, 1}
  BY <1>2, <1>3, PlaceOfTile DEF Ring
<1>5. issued[last] = z
  <2>1. /\ issued[last] \in Nat /\ Place(issued[last]) = last
        /\ load <= issued[last] /\ issued[last] < load + S
    BY <1>4 DEF Ring, Progress
  <2>2. z < issued[last] => z + S <= issued[last]
    BY <1>2, <1>3, <2>1, RoundsApart DEF Ring
  <2>3. issued[last] < z => issued[last] + S <= z
    BY <1>2, <1>3, <2>1, RoundsApart DEF Ring
  <2>. QED
    BY <1>1, <1>2, <2>1, <2>2, <2>3
<1>6. /\ Passes(empty[last], parity)
      /\ full' = [full EXCEPT ![last] = Armed(@, TxCount)]
      /\ loader' = [loader EXCEPT !.pc = "done"]
      /\ launch' = launch /\ empty' = empty /\ inflight' = inflight /\ smem' = smem
  BY DEF DrainLoader
<1>7. filled[last] = issued[last]
  BY <1>3, <1>4, <1>5, <1>6, FreedStage
<1>. HIDE DEF last, parity
<1>8. TxCount \in Nat
  BY OperandsAssumption, FS_CardinalityType DEF TxCount
<1>9. /\ full \in [Stages(launch) -> [phase : {0, 1}, armed : BOOLEAN, tx : Nat]]
      /\ full' \in [Stages(launch) -> [phase : {0, 1}, armed : BOOLEAN, tx : Nat]]
      /\ \A t \in Stages(launch) : full'[t].phase = full[t].phase
      /\ \A t \in Stages(launch) : t # last => full'[t] = full[t]
  <2>1. full \in [Stages(launch) -> [phase : {0, 1}, armed : BOOLEAN, tx : Nat]]
    BY DEF Ring, RingShape
  <2>2. Armed(full[last], TxCount) \in [phase : {0, 1}, armed : BOOLEAN, tx : Nat]
    BY <1>4, <1>8, <2>1 DEF Armed
  <2>3. Armed(full[last], TxCount).phase = full[last].phase
    BY DEF Armed
  <2>. QED
    BY <1>4, <1>6, <2>1, <2>2, <2>3
<1>10. Stages(launch') = Stages(launch)
  BY <1>6 DEF Stages
<1>11. \A y : Place(y)' = Place(y) /\ Round(y)' = Round(y)
  BY <1>6 DEF Place, Round
<1>12. loader' = [pc |-> "done", executed |-> loader.executed, pipe |-> loader.pipe]
  BY <1>6 DEF Ring, RingShape
<1>13. RingShape'
  <2>1. empty' \in [Stages(launch') -> [phase : {0, 1}, arrived : SUBSET Warps(launch')]]
    BY <1>6, <1>10 DEF Ring, RingShape
  <2>. QED
    BY <1>6, <1>9, <1>10, <1>12, <2>1 DEF Ring, RingShape
<1>14. LoaderAt(load)'
  BY <1>6, <1>12 DEF Ring, LoaderAt
<1>15. Progress(load, issued, filled, freed)'
  BY <1>6, <1>9, <1>10, <1>11 DEF Ring, Progress
<1>16. Loads(src, issued, filled)'
  <2>1. \A t : Pending(t)' = Pending(t)
    BY <1>6 DEF Pending
  <2>2. \A t, o : Request(src, issued, t, o)' = Request(src, issued, t, o)
    BY <1>6 DEF Request
  <2>3. loader'.pc = "done"
    BY <1>12
  <2>4. \A t \in Stages(launch) :
          /\ filled[t] = issued[t] => Pending(t) = {}
          /\ filled[t] # issued[t] =>
               /\ full'[t].armed
               /\ full'[t].tx = Cardinality(Pending(t)) /\ full'[t].tx > 0
          /\ issued[t] >= S => \A op \in Operands :
               \/ Request(src, issued, t, op) \in inflight
               \/ smem[t][op] = src[issued[t] - S][op]
    BY <1>7, <1>9 DEF Ring, Loads
  <2>5. \A x \in inflight : \E t \in Stages(launch) : \E op \in Operands :
          x = Request(src, issued, t, op)
    BY DEF Ring, Loads
  <2>. QED
    BY <1>6, <1>10, <2>1, <2>2, <2>3, <2>4, <2>5 DEF Loads
<1>17. Shares(own, n)' /\ Releases(own, p, freed)' /\ Consumers(own, p, in, filled)'
  BY <1>6, <1>10, <1>11 DEF Ring, Shares, Releases, Consumers, Warps
<1>. QED
  BY <1>13, <1>14, <1>15, <1>16, <1>17 DEF Ring

\* What the ring says of the types of its variables.
LEMMA RingTypes ==
  ASSUME NEW own, NEW src, NEW n, NEW p, NEW in, NEW load, NEW issued, NEW filled, NEW freed,
         Ring(own, src, n, p, in, load, issued, filled, freed)
  PROVE  /\ loader.pc \in {"load", "done"}
         /\ loader.pipe.index \in Stages(launch)
         /\ \A s \in Stages(launch) :
              /\ full[s].phase \in {0, 1} /\ full[s].tx \in Nat
              /\ empty[s].phase \in {0, 1} /\ empty[s].arrived \subseteq Warps(launch)
         /\ \A x \in inflight : x.stage \in Stages(launch) /\ x.op \in Operands
<1>1. RingShape
  BY DEF Ring
<1>2. loader.pipe.index \in Stages(launch)
  BY <1>1, PlaceOfTile DEF Ring, LoaderAt, Place
<1>3. \A s \in Stages(launch) :
        /\ full[s].phase \in {0, 1} /\ full[s].tx \in Nat
        /\ empty[s].phase \in {0, 1} /\ empty[s].arrived \subseteq Warps(launch)
  <2>. SUFFICES ASSUME NEW s \in Stages(launch)
                PROVE  /\ full[s].phase \in {0, 1} /\ full[s].tx \in Nat
                       /\ empty[s].phase \in {0, 1} /\ empty[s].arrived \subseteq Warps(launch)
    OBVIOUS
  <2>1. full[s] \in [phase : {0, 1}, armed : BOOLEAN, tx : Nat]
    BY <1>1 DEF RingShape
  <2>2. empty[s] \in [phase : {0, 1}, arrived : SUBSET Warps(launch)]
    BY <1>1 DEF RingShape
  <2>. QED
    BY <2>1, <2>2
<1>4. \A x \in inflight : x.stage \in Stages(launch) /\ x.op \in Operands
  BY DEF Ring, Loads, Request
<1>. QED
  BY <1>1, <1>2, <1>3, <1>4 DEF RingShape

\* Before the first load every stage waits for its first k tile.
LEMMA RingInit ==
  ASSUME NEW own, NEW src, NEW n, NEW p, Shares(own, n),
         launch.stages \in Nat, launch.stages > 0, launch.kTiles \in Nat, launch.kTiles > 0,
         loader = FreshLoader, full = FreshFull(launch), empty = FreshEmpty(launch),
         inflight = {}, smem = FreshSmem(launch),
         p \in [Warps(launch) -> Nat],
         \A w \in Warps(launch) : \A x \in Nat : w \in own[x] => ~ (x < p[w])
  PROVE  \E load, issued, filled, freed :
            Ring(own, src, n, p, {}, load, issued, filled, freed)
<1>. DEFINE S == launch.stages  first == [s \in Stages(launch) |-> s]
<1>1. RingShape
  <2>1. full \in [Stages(launch) -> [phase : {0, 1}, armed : BOOLEAN, tx : Nat]]
    <3>1. [phase |-> 0, armed |-> FALSE, tx |-> 0] \in [phase : {0, 1}, armed : BOOLEAN, tx : Nat]
      OBVIOUS
    <3>. QED
      BY <3>1 DEF FreshFull
  <2>2. empty \in [Stages(launch) -> [phase : {0, 1}, arrived : SUBSET Warps(launch)]]
    BY DEF FreshEmpty, FreshBarrier
  <2>3. smem = [s \in Stages(launch) |-> [op \in Operands |-> smem[s][op]]]
    BY DEF FreshSmem
  <2>. QED
    BY <2>1, <2>2, <2>3 DEF RingShape, FreshLoader, PipeState
<1>2. \A s \in Stages(launch) : s \in Nat /\ s < S /\ first[s] = s
  BY DEF Stages
<1>3. \A s \in Stages(launch) : Place(s) = s /\ Round(s) = 0
  <2>. SUFFICES ASSUME NEW s \in Stages(launch) PROVE Place(s) = s /\ Round(s) = 0
    OBVIOUS
  <2>2. s \div S = 0 /\ s % S = s
    BY <1>2, SmallQuotient
  <2>. QED
    BY <2>2 DEF Place, Round
<1>4. LoaderAt(0)
  <2>2. 0 \div S = 0 /\ 0 % S = 0
    BY SmallQuotient
  <2>. HIDE DEF S
  <2>3. 1 - ((0 \div S) % 2) = 1
    <3>1. 1 - (0 % 2) = 1
      OBVIOUS
    <3>. QED
      BY <2>2, <3>1
  <2>5. launch.kTiles * 0 + 0 = 0 /\ 0 \in 0 .. launch.kTiles - 1
    OBVIOUS
  <2>4. loader.executed = 0 /\ loader.pipe.index = 0 /\ loader.pipe.phase = 1
        /\ loader.pipe.count = 0
    BY DEF FreshLoader, PipeState
  <2>. QED
    BY <2>2, <2>3, <2>4, <2>5 DEF LoaderAt, S
<1>5. Progress(0, first, first, first)
  <2>1. first \in [Stages(launch) -> Nat]
    BY <1>2
  <2>2. \A s \in Stages(launch) : full[s].phase = 0 /\ empty[s].phase = 0
    BY DEF FreshFull, FreshEmpty, FreshBarrier
  <2>. HIDE DEF first
  <2>. QED
    BY <1>2, <1>3, <2>1, <2>2 DEF Progress
<1>6. Loads(src, first, first)
  <2>1. \A s \in Stages(launch) : Pending(s) = {} /\ ~full[s].armed /\ full[s].tx = 0
    BY DEF Pending, FreshFull
  <2>2. \A s \in Stages(launch) : ~ (first[s] >= S)
    BY <1>2
  <2>. HIDE DEF first
  <2>. QED
    BY <2>1, <2>2 DEF Loads
<1>7. Releases(own, p, first)
  <2>1. ASSUME NEW s \in Stages(launch)
        PROVE  /\ empty[s].arrived = {w \in own[s] : s < p[w]}
               /\ \E w \in own[s] : ~ (s < p[w])
    <3>1. own[s] \subseteq Warps(launch) /\ own[s] # {}
      BY <1>2, ConsumersExist DEF Shares
    <3>2. \A w \in own[s] : ~ (s < p[w])
      BY <1>2, <3>1
    <3>3. empty[s].arrived = {}
      BY DEF FreshEmpty, FreshBarrier
    <3>. QED
      BY <3>1, <3>2, <3>3
  <2>2. \A x \in Nat : ~ (x < first[Place(x)])
    <3>. SUFFICES ASSUME NEW x \in Nat PROVE ~ (x < first[Place(x)])
      OBVIOUS
    <3>1. Place(x) \in Stages(launch)
      BY <1>1, PlaceOfTile
    <3>2. PICK q, r : q = x \div S /\ r = x % S
      OBVIOUS
    <3>3. x = S * q + r /\ q \in Nat /\ r \in 0 .. S - 1
      BY <3>2, Division
    <3>4. S * q \in Nat
      BY <3>3
    <3>5. first[Place(x)] = r
      BY <1>2, <3>1, <3>2 DEF Place
    <3>. HIDE DEF first
    <3>. QED
      BY <3>3, <3>4, <3>5
  <2>. QED
    BY <1>2, <2>1, <2>2 DEF Releases
<1>8. Consumers(own, p, {}, first)
  BY DEF Consumers
<1>9. Ring(own, src, n, p, {}, 0, first, first, first)
  BY <1>1, <1>4, <1>5, <1>6, <1>7, <1>8 DEF Ring
<1>. QED
  BY <1>9

(***************************************************************************)
(* What a warp sums up in the main loop.  f says what the k tiles of its   *)
(* output tile consist of; a piece is a block of a k tile, and the whole   *)
(* of the sum is every block of every k tile, in order and once.           *)
(***************************************************************************)
Piece(f, k, b) == [block |-> b, from |-> f[k]]

Partial(f, n) ==
    [i \in 1 .. n |-> Piece(f, (i - 1) \div launch.kBlocks, (i - 1) % launch.kBlocks)]

Sum(f) == Partial(f, launch.kBlocks * launch.kTiles)

\* Where a warp is between the first barrier of a slice and the end of a tile.
Slicing == {"epilogue", "sync1", "write", "sync2", "store", "acquire", "finish"}

\* What is in the accumulator and what is in the registers to be multiplied next.
Summed(w, f) ==
    /\ pc[w] = "first" => warp[w].acc = <<>> /\ warp[w].pipe.count = 0
    /\ pc[w] \in {"block", "release"} =>
         /\ warp[w].acc = Partial(f, launch.kBlocks * warp[w].pipe.count + warp[w].blk)
         /\ warp[w].blk \in DOMAIN warp[w].frag
         /\ warp[w].frag[warp[w].blk] = Piece(f, warp[w].pipe.count, warp[w].blk)
    /\ pc[w] = "release" => warp[w].blk = LastBlock
    /\ pc[w] \in {"next", "last"} =>
         /\ warp[w].pipe.count > 0
         /\ warp[w].acc = Partial(f, launch.kBlocks * (warp[w].pipe.count - 1) + LastBlock)
         /\ LastBlock \in DOMAIN warp[w].frag
         /\ warp[w].frag[LastBlock] = Piece(f, warp[w].pipe.count - 1, LastBlock)
    /\ pc[w] \in Slicing \cup {"cross"} => warp[w].acc = Sum(f)

\* Blocks, as the loops over them count.
BlockNumbers == launch.kBlocks \in Nat /\ launch.kBlocks > 0 /\ launch.kTiles \in Nat

\* One more block is one more element of the sum.
LEMMA PartialGrows ==
  ASSUME BlockNumbers, NEW f, NEW k \in Nat, NEW b \in 0 .. LastBlock
  PROVE  Append(Partial(f, launch.kBlocks * k + b), Piece(f, k, b)) =
            Partial(f, launch.kBlocks * k + b + 1)
<1>. DEFINE K == launch.kBlocks  n == K * k + b  s == Partial(f, n)  e == Piece(f, k, b)
            S == {Piece(f, (i - 1) \div K, (i - 1) % K) : i \in Nat} \cup {e}
<1>1. K \in Nat /\ K > 0 /\ b \in Nat /\ b < K /\ n \in Nat
  BY DEF BlockNumbers, LastBlock
<1>2. n \div K = k /\ n % K = b
  <2>. HIDE DEF K
  <2>. QED
    BY <1>1, Quotient
<1>3. /\ s = [i \in 1 .. n |-> Piece(f, (i - 1) \div K, (i - 1) % K)]
      /\ Partial(f, n + 1) = [i \in 1 .. n + 1 |-> Piece(f, (i - 1) \div K, (i - 1) % K)]
  BY DEF Partial
<1>. HIDE DEF n, s, e, K
<1>4. s \in Seq(S) /\ Len(s) = n /\ e \in S
  <2>1. s \in [1 .. n -> S]
    BY <1>1, <1>3
  <2>. HIDE DEF S
  <2>2. s \in Seq(S)
    BY <1>1, <2>1
  <2>3. Len(s) = n
    BY <1>1, <1>3, <2>2
  <2>. QED
    BY <2>2, <2>3 DEF S
<1>. DEFINE a == Append(s, e)  t == Partial(f, n + 1)
<1>5. t \in [1 .. n + 1 -> S] /\ t \in Seq(S)
  <2>1. t \in [1 .. n + 1 -> S]
    BY <1>1, <1>3
  <2>. HIDE DEF S, t
  <2>. QED
    BY <1>1, <2>1
<1>. HIDE DEF S
<1>6. a \in Seq(S) /\ Len(a) = n + 1 /\ a[n + 1] = e /\ \A i \in 1 .. n : a[i] = s[i]
  BY <1>1, <1>4
<1>8. Len(t) = n + 1
  BY <1>1, <1>5
<1>. HIDE DEF a, t
<1>7. \A i \in 1 .. n + 1 : a[i] = t[i]
  <2>. TAKE i \in 1 .. n + 1
  <2>1. t[i] = Piece(f, (i - 1) \div K, (i - 1) % K)
    BY <1>3 DEF t
  <2>2. CASE i \in 1 .. n
    BY <1>3, <1>6, <2>1, <2>2
  <2>3. CASE i = n + 1
    <3>1. i - 1 = n
      BY <1>1, <2>3
    <3>2. a[i] = e
      BY <1>6, <2>3
    <3>3. t[i] = Piece(f, k, b)
      BY <1>2, <2>1, <3>1
    <3>. QED
      BY <3>2, <3>3 DEF e
  <2>. QED
    BY <1>1, <2>2, <2>3
<1>9. a = t
  BY <1>1, <1>5, <1>6, <1>7, <1>8
<1>. QED
  BY <1>9 DEF a, t, s, e, n, K

LEMMA EmptySum ==
  ASSUME NEW f
  PROVE  Partial(f, 0) = <<>>
<1>1. 1 .. 0 = {}
  OBVIOUS
<1>. QED
  BY <1>1 DEF Partial

\* The first block of the first k tile.
LEMMA SummedFirst ==
  ASSUME BlockNumbers, launch' = launch, NEW f, NEW w,
         pc'[w] = AtBlock(0), warp'[w].acc = <<>>, warp'[w].pipe.count = 0,
         warp'[w].blk = 0, warp'[w].frag = [b \in {0} |-> Fragment(w, 0)],
         smem[warp[w].pipe.index] = f[0]
  PROVE  Summed(w, f)'
<1>1. launch.kBlocks * 0 + 0 = 0
  BY DEF BlockNumbers
<1>2. Partial(f, 0)' = <<>>
  BY EmptySum DEF Partial
<1>3. pc'[w] \in {"block", "release"} /\ (pc'[w] = "release" => LastBlock = 0)
  BY DEF AtBlock
<1>4. 0 \in DOMAIN warp'[w].frag /\ warp'[w].frag[0] = Piece(f, 0, 0)
  BY DEF Fragment, Piece
<1>5. LastBlock' = LastBlock
  BY DEF LastBlock
<1>. QED
  BY <1>1, <1>2, <1>3, <1>4, <1>5 DEF Summed, Slicing, Piece

\* One block is multiplied and the next one copied.
LEMMA SummedCopy ==
  ASSUME BlockNumbers, launch' = launch, NEW f, NEW w, Summed(w, f),
         pc[w] = "block", warp[w].pipe.count \in Nat,
         warp[w].blk \in 0 .. LastBlock, warp[w].blk < LastBlock,
         pc'[w] = AtBlock(warp[w].blk + 1), warp'[w].pipe = warp[w].pipe,
         warp'[w].frag = Copied(w, warp[w].blk + 1), warp'[w].blk = warp[w].blk + 1,
         warp'[w].acc = Append(warp[w].acc, warp[w].frag[warp[w].blk]),
         smem[warp[w].pipe.index] = f[warp[w].pipe.count]
  PROVE  Summed(w, f)'
<1>. DEFINE K == launch.kBlocks  c == warp[w].pipe.count  b == warp[w].blk
<1>1. /\ K \in Nat /\ b \in Nat /\ c \in Nat /\ LastBlock \in Nat /\ K * c \in Nat
  BY DEF BlockNumbers, LastBlock
<1>2. /\ warp[w].acc = Partial(f, K * c + b)
      /\ warp[w].frag[b] = Piece(f, c, b)
  BY DEF Summed
<1>3. warp'[w].acc = Partial(f, K * c + (b + 1))
  <2>1. warp'[w].acc = Partial(f, K * c + b + 1)
    BY <1>2, PartialGrows
  <2>2. K * c + b + 1 = K * c + (b + 1)
    BY <1>1
  <2>. QED
    BY <2>1, <2>2
<1>4. b + 1 \in DOMAIN warp'[w].frag /\ warp'[w].frag[b + 1] = Piece(f, c, b + 1)
  BY DEF Copied, Fragment, Piece
<1>5. pc'[w] \in {"block", "release"} /\ (pc'[w] = "release" => b + 1 = LastBlock)
  BY DEF AtBlock
<1>6. LastBlock' = LastBlock /\ \A n : Partial(f, n)' = Partial(f, n)
  BY DEF LastBlock, Partial
<1>. QED
  BY <1>3, <1>4, <1>5, <1>6 DEF Summed, Slicing, Piece

\* Giving the stage back leaves the last block in the registers.
LEMMA SummedRelease ==
  ASSUME launch' = launch, NEW f, NEW w, Summed(w, f),
         pc[w] = "release", warp[w].pipe.count \in Nat, pc'[w] \in {"next", "last"},
         warp'[w].pipe.count = warp[w].pipe.count + 1,
         warp'[w].frag = warp[w].frag, warp'[w].acc = warp[w].acc
  PROVE  Summed(w, f)'
<1>. DEFINE c == warp[w].pipe.count
<1>1. c \in Nat /\ c + 1 > 0 /\ (c + 1) - 1 = c
  OBVIOUS
<1>2. /\ warp[w].blk = LastBlock /\ LastBlock \in DOMAIN warp[w].frag
      /\ warp[w].acc = Partial(f, launch.kBlocks * c + LastBlock)
      /\ warp[w].frag[LastBlock] = Piece(f, c, LastBlock)
  BY DEF Summed
<1>3. LastBlock' = LastBlock /\ \A n : Partial(f, n)' = Partial(f, n)
  BY DEF LastBlock, Partial
<1>. QED
  BY <1>1, <1>2, <1>3 DEF Summed, Slicing, Piece

\* The last block of a k tile makes the sum whole k tiles.
LEMMA WholeTiles ==
  ASSUME BlockNumbers, NEW f, NEW w, Summed(w, f), pc[w] \in {"next", "last"},
         warp[w].pipe.count \in Nat
  PROVE  Append(warp[w].acc, warp[w].frag[LastBlock]) =
            Partial(f, launch.kBlocks * warp[w].pipe.count)
<1>. DEFINE K == launch.kBlocks  c == warp[w].pipe.count  d == c - 1
<1>1. /\ warp[w].acc = Partial(f, K * d + LastBlock)
      /\ warp[w].frag[LastBlock] = Piece(f, d, LastBlock) /\ c > 0
  BY DEF Summed
<1>2. K \in Nat /\ K > 0 /\ d \in Nat /\ c = d + 1 /\ LastBlock \in 0 .. LastBlock
      /\ LastBlock = K - 1
  BY <1>1 DEF BlockNumbers, LastBlock
<1>3. Append(warp[w].acc, warp[w].frag[LastBlock]) = Partial(f, K * d + LastBlock + 1)
  BY <1>1, <1>2, PartialGrows
<1>. HIDE DEF K, d
<1>4. K * d + LastBlock + 1 = K * (d + 1)
  BY <1>2
<1>. QED
  BY <1>2, <1>3, <1>4 DEF K

\* The next stage: the last block of the one before is multiplied.
LEMMA SummedNext ==
  ASSUME BlockNumbers, launch' = launch, NEW f, NEW w, Summed(w, f),
         pc[w] = "next", warp[w].pipe.count \in Nat,
         pc'[w] = AtBlock(0), warp'[w].pipe = warp[w].pipe,
         warp'[w].frag = Copied(w, 0), warp'[w].blk = 0,
         warp'[w].acc = Append(warp[w].acc, warp[w].frag[LastBlock]),
         smem[warp[w].pipe.index] = f[warp[w].pipe.count]
  PROVE  Summed(w, f)'
<1>. DEFINE K == launch.kBlocks  c == warp[w].pipe.count
<1>1. K * c + 0 = K * c
  BY DEF BlockNumbers
<1>2. warp'[w].acc = Partial(f, K * c)
  BY WholeTiles
<1>3. 0 \in DOMAIN warp'[w].frag /\ warp'[w].frag[0] = Piece(f, c, 0)
  BY DEF Copied, Fragment, Piece
<1>4. pc'[w] \in {"block", "release"} /\ (pc'[w] = "release" => LastBlock = 0)
  BY DEF AtBlock
<1>5. LastBlock' = LastBlock /\ \A n : Partial(f, n)' = Partial(f, n)
  BY DEF LastBlock, Partial
<1>. QED
  BY <1>1, <1>2, <1>3, <1>4, <1>5 DEF Summed, Slicing, Piece

\* The last block of the last k tile completes the sum.
LEMMA SummedLeave ==
  ASSUME BlockNumbers, launch' = launch, NEW f, NEW w, Summed(w, f),
         pc[w] = "last", warp[w].pipe.count = launch.kTiles,
         pc'[w] \in {"cross", "epilogue"},
         warp'[w].acc = Append(warp[w].acc, warp[w].frag[LastBlock])
  PROVE  Summed(w, f)'
<1>1. warp'[w].acc = Sum(f)
  BY WholeTiles DEF BlockNumbers, Sum
<1>2. Sum(f)' = Sum(f)
  BY DEF Sum, Partial, Piece
<1>. QED
  BY <1>1, <1>2 DEF Summed

\* What leaves accumulator, registers and control of the main loop alone.
LEMMA SummedStill ==
  ASSUME launch' = launch, NEW f, NEW w, Summed(w, f),
         \/ pc'[w] \in {"start", "done"}
         \/ /\ pc[w] \in Slicing \cup {"cross"} /\ pc'[w] \in Slicing
            /\ warp'[w].acc = warp[w].acc
         \/ /\ pc'[w] = pc[w] /\ warp'[w].pipe = warp[w].pipe /\ warp'[w].blk = warp[w].blk
            /\ warp'[w].acc = warp[w].acc /\ warp'[w].frag = warp[w].frag
  PROVE  Summed(w, f)'
<1>1. LastBlock' = LastBlock /\ Sum(f)' = Sum(f) /\ \A n : Partial(f, n)' = Partial(f, n)
  BY DEF LastBlock, Partial, Sum, Piece
<1>2. CASE pc'[w] \in {"start", "done"}
  BY <1>2 DEF Summed, Slicing
<1>3. CASE /\ pc[w] \in Slicing \cup {"cross"} /\ pc'[w] \in Slicing
           /\ warp'[w].acc = warp[w].acc
  BY <1>1, <1>3 DEF Summed, Slicing
<1>4. CASE /\ pc'[w] = pc[w] /\ warp'[w].pipe = warp[w].pipe /\ warp'[w].blk = warp[w].blk
           /\ warp'[w].acc = warp[w].acc /\ warp'[w].frag = warp[w].frag
  BY <1>1, <1>4 DEF Summed, Piece
<1>. QED
  BY <1>2, <1>3, <1>4

(***************************************************************************)
(* The named barrier of the epilogue.  q output tiles are behind the warp; *)
(* what it counts, and no kernel keeps, is the slices it has begun and the *)
(* barriers it has passed since the kernel began.                          *)
(***************************************************************************)
Half(w) ==
    CASE pc[w] \in {"write", "sync2"} -> 1
      [] pc[w] \in {"store", "acquire", "finish"} -> 2
      [] OTHER -> 0

Begun(q, w) == launch.epiTiles * q + (IF pc[w] \in Slicing THEN warp[w].epi ELSE 0)
Passed(q, w) == 2 * Begun(q, w) + Half(w)

\* A warp between the two barriers of a slice keeps the others there.
LEMMA BetweenBarriers ==
  ASSUME launch.epiTiles \in Nat, NEW p \in Nat, NEW q \in Nat, NEW v, NEW w,
         warp[v].epi \in Nat, warp[w].epi \in Nat,
         Passed(p, v) = Passed(q, w), pc[w] \in {"write", "sync2"}
  PROVE  pc[v] \in {"write", "sync2"}
<1>1. Half(w) = 1 /\ Half(v) \in {0, 1, 2} /\ (Half(v) = 1 => pc[v] \in {"write", "sync2"})
  BY DEF Half
<1>2. Begun(p, v) \in Nat /\ Begun(q, w) \in Nat
  <2>1. launch.epiTiles * p \in Nat /\ launch.epiTiles * q \in Nat
    OBVIOUS
  <2>. QED
    BY <2>1 DEF Begun
<1>3. 2 * Begun(p, v) + Half(v) = 2 * Begun(q, w) + Half(w)
  BY DEF Passed
<1>. QED
  BY <1>1, <1>2, <1>3

\* Warps that have passed as many barriers, and wait at one or are between two,
\* are at the same one of the same slice of the same tile.
LEMMA SamePoint ==
  ASSUME launch.epiTiles \in Nat, launch.epiTiles > 0, NEW p \in Nat, NEW q \in Nat, NEW v, NEW w,
         warp[v].epi \in 0 .. launch.epiTiles - 1, warp[w].epi \in 0 .. launch.epiTiles - 1,
         pc[v] \in {"epilogue", "sync1", "write", "sync2"},
         pc[w] \in {"epilogue", "sync1", "write", "sync2"},
         Passed(p, v) = Passed(q, w)
  PROVE  p = q /\ warp[v].epi = warp[w].epi /\ Half(v) = Half(w)
<1>. DEFINE m == launch.epiTiles  d == warp[v].epi  e == warp[w].epi
<1>1. Half(v) \in {0, 1} /\ Half(w) \in {0, 1}
  BY DEF Half
<1>2. Begun(p, v) = m * p + d /\ Begun(q, w) = m * q + e
  BY DEF Begun, Slicing
<1>3. 2 * Begun(p, v) + Half(v) = 2 * Begun(q, w) + Half(w)
  BY DEF Passed
<1>4. m \in Nat /\ m > 0 /\ d \in Nat /\ e \in Nat /\ d < m /\ e < m
  OBVIOUS
<1>. HIDE DEF m, d, e
<1>5. m * p + d \in Nat /\ m * q + e \in Nat
  BY <1>4
<1>6. m * p + d = m * q + e /\ Half(v) = Half(w)
  <2>. DEFINE x == m * p + d  y == m * q + e
  <2>1. x \in Nat /\ y \in Nat /\ 2 * x + Half(v) = 2 * y + Half(w)
    BY <1>2, <1>3, <1>5
  <2>. HIDE DEF x, y
  <2>2. x = y /\ Half(v) = Half(w)
    BY <1>1, <2>1
  <2>. QED
    BY <2>2 DEF x, y
<1>7. p = q /\ d = e
  <2>1. (m * p + d) \div m = p /\ (m * p + d) % m = d
    BY <1>4, Quotient
  <2>2. (m * q + e) \div m = q /\ (m * q + e) % m = e
    BY <1>4, Quotient
  <2>. QED
    BY <1>6, <2>1, <2>2
<1>. QED
  BY <1>6, <1>7 DEF d, e

\* Warps that have passed as many barriers are at the same tile, or one of them
\* is in the epilogue of the tile before; it has to be there while the other has
\* begun to store.
LEMMA PassedInTurn ==
  ASSUME launch.epiTiles \in Nat, launch.epiTiles > 0, NEW p \in Nat, NEW q \in Nat,
         NEW v, NEW w,
         warp[v].epi \in 0 .. launch.epiTiles - 1, warp[w].epi \in 0 .. launch.epiTiles - 1,
         Passed(p, v) = Passed(q, w)
  PROVE  /\ q <= p \/ (q = p + 1 /\ pc[v] \in Slicing)
         /\ Half(w) > 0 \/ (pc[w] \in Slicing /\ warp[w].epi > 0) =>
               q < p \/ (q = p /\ pc[v] \in Slicing)
<1>. DEFINE m == launch.epiTiles  x == m * p  y == m * q
            d == warp[v].epi  e == warp[w].epi
<1>1. /\ Half(v) \in {0, 1, 2} /\ Half(w) \in {0, 1, 2}
      /\ Half(v) > 0 => pc[v] \in Slicing
      /\ Half(w) > 0 => pc[w] \in Slicing
  BY DEF Half, Slicing
<1>2. /\ x \in Nat /\ y \in Nat /\ m \in Nat /\ m > 0
      /\ d \in Nat /\ d < m /\ e \in Nat /\ e < m
  OBVIOUS
<1>3. /\ p < q => x + m <= y
      /\ p + 1 < q => x + m + m <= y
      /\ p = q => x = y
  <2>1. m * (p + 1) = x + m
    BY <1>2
  <2>2. p < q => x + m <= y
    BY Multiples
  <2>3. p + 1 < q => m * (p + 1) + m <= y
    BY Multiples
  <2>. HIDE DEF m
  <2>. QED
    BY <2>1, <2>2, <2>3
<1>. HIDE DEF m, x, y, d, e
<1>4. PICK a \in Nat, b \in Nat :
        /\ a = IF pc[v] \in Slicing THEN d ELSE 0
        /\ b = IF pc[w] \in Slicing THEN e ELSE 0
  BY <1>2
<1>5. 2 * (x + a) + Half(v) = 2 * (y + b) + Half(w)
  BY <1>4 DEF Passed, Begun, x, y, d, e, m
<1>6. /\ a < m /\ b < m
      /\ pc[v] \notin Slicing => a = 0 /\ Half(v) = 0
  BY <1>1, <1>2, <1>4
<1>7. ASSUME p < q PROVE q = p + 1 /\ pc[v] \in Slicing
  <2>1. y <= x + m
    BY <1>1, <1>2, <1>5, <1>6
  <2>2. ~(p + 1 < q)
    BY <1>2, <1>3, <2>1
  <2>3. pc[v] \in Slicing
    BY <1>1, <1>2, <1>3, <1>5, <1>6, <1>7
  <2>. QED
    BY <1>7, <2>2, <2>3
<1>8. ASSUME Half(w) > 0 \/ (pc[w] \in Slicing /\ e > 0)
      PROVE  q < p \/ (q = p /\ pc[v] \in Slicing)
  <2>1. 2 * b + Half(w) > 0
    BY <1>1, <1>2, <1>4, <1>8
  <2>2. ~(p < q)
    BY <1>1, <1>2, <1>3, <1>5, <1>6, <2>1
  <2>3. p = q => pc[v] \in Slicing
    BY <1>1, <1>2, <1>3, <1>5, <1>6, <2>1
  <2>. QED
    BY <2>2, <2>3
<1>. QED
  BY <1>7, <1>8 DEF e

(***************************************************************************)
(* The bulk stores.  lead are the warps that store, plan[w][i] is what the *)
(* i-th store of w is of and where it reads, slice[t][e] is what belongs   *)
(* into slice e of output tile t.                                          *)
(***************************************************************************)
StoreRecords == [buf : Nat, tile : Nat, epi : Nat, read : BOOLEAN]

StoreShape ==
    /\ DOMAIN stores = Warps(launch)
    /\ \A w \in Warps(launch) : stores[w] \in Seq(StoreRecords)

Committed(lead, plan, slice) ==
    /\ \A w \in Warps(launch) \ lead : stores[w] = <<>>
    /\ \A w \in Warps(launch) : \A i \in DOMAIN stores[w] :
         /\ stores[w][i].buf = plan[w][i].buf
         /\ stores[w][i].tile = plan[w][i].tile
         /\ stores[w][i].epi = plan[w][i].epi
         /\ ~stores[w][i].read =>
               sC[stores[w][i].buf] = slice[stores[w][i].tile][stores[w][i].epi]

\* No two stores are of the same slice.
Distinct(lead, plan) ==
    \A v, w \in lead : \A i, j \in Nat \ {0} :
        plan[v][i].tile = plan[w][j].tile /\ plan[v][i].epi = plan[w][j].epi =>
            v = w /\ i = j

ReadOf(t, e) ==
    \E w \in Warps(launch) : \E i \in DOMAIN stores[w] :
        stores[w][i].read /\ stores[w][i].tile = t /\ stores[w][i].epi = e

OutputOf(slice) ==
    \A t \in DOMAIN out : \A e \in DOMAIN out[t] :
        \/ out[t][e] = <<>>
        \/ out[t][e] = <<slice[t][e]>> /\ ReadOf(t, e)

\* Nothing of it moves.
LEMMA StoresStill ==
  ASSUME NEW lead, NEW plan, NEW slice, Committed(lead, plan, slice), OutputOf(slice),
         UNCHANGED <<launch, sC, stores, out>>
  PROVE  Committed(lead, plan, slice)' /\ OutputOf(slice)'
BY DEF Committed, OutputOf, ReadOf

Overwrites(b, x) == sC' = [sC EXCEPT ![b] = x]

\* A buffer is written that no unread store reads.
LEMMA StoresWrite ==
  ASSUME NEW lead, NEW plan, NEW slice, Committed(lead, plan, slice), OutputOf(slice),
         UNCHANGED <<launch, stores, out>>, NEW b, NEW x, Overwrites(b, x),
         \A w \in Warps(launch) : \A i \in DOMAIN stores[w] :
            ~stores[w][i].read => stores[w][i].buf # b /\ stores[w][i].buf \in DOMAIN sC
  PROVE  Committed(lead, plan, slice)' /\ OutputOf(slice)'
<1>1. \A c \in DOMAIN sC : c # b => sC'[c] = sC[c]
  BY DEF Overwrites
<1>2. Committed(lead, plan, slice)'
  BY <1>1 DEF Committed
<1>. QED
  BY <1>2 DEF OutputOf, ReadOf

Commits(w, r) == stores' = [stores EXCEPT ![w] = Append(@, r)]

\* A store is committed whose buffer is ready.
LEMMA StoresCommit ==
  ASSUME NEW lead, NEW plan, NEW slice, StoreShape, Committed(lead, plan, slice), OutputOf(slice),
         UNCHANGED <<launch, sC, out>>, NEW w \in Warps(launch), w \in lead,
         NEW r \in StoreRecords, Commits(w, r),
         LET n == Len(stores[w]) + 1
         IN r.buf = plan[w][n].buf /\ r.tile = plan[w][n].tile /\ r.epi = plan[w][n].epi,
         sC[r.buf] = slice[r.tile][r.epi]
  PROVE  /\ StoreShape' /\ Committed(lead, plan, slice)' /\ OutputOf(slice)'
         /\ Len(stores'[w]) = Len(stores[w]) + 1
         /\ \A i \in DOMAIN stores[w] : i \in DOMAIN stores'[w] /\ stores'[w][i] = stores[w][i]
<1>. DEFINE s == stores[w]  n == Len(s)
<1>1. s \in Seq(StoreRecords) /\ n \in Nat /\ DOMAIN s = 1 .. n
  BY DEF StoreShape
<1>2. /\ stores'[w] = Append(s, r) /\ DOMAIN stores' = Warps(launch)
      /\ \A v \in Warps(launch) : v # w => stores'[v] = stores[v]
  BY DEF StoreShape, Commits
<1>3. /\ Append(s, r) \in Seq(StoreRecords) /\ Len(Append(s, r)) = n + 1
      /\ DOMAIN Append(s, r) = 1 .. n + 1
      /\ \A i \in 1 .. n : Append(s, r)[i] = s[i]
      /\ Append(s, r)[n + 1] = r
  BY <1>1
<1>4. StoreShape'
  BY <1>2, <1>3 DEF StoreShape
<1>5. \A i \in DOMAIN s : i \in DOMAIN stores'[w] /\ stores'[w][i] = s[i]
  BY <1>1, <1>2, <1>3
<1>6. Committed(lead, plan, slice)'
  <2>1. \A v \in Warps(launch) \ lead : stores'[v] = <<>>
    BY <1>2 DEF Committed
  <2>2. ASSUME NEW v \in Warps(launch), NEW i \in DOMAIN stores'[v]
        PROVE  /\ stores'[v][i].buf = plan[v][i].buf
               /\ stores'[v][i].tile = plan[v][i].tile
               /\ stores'[v][i].epi = plan[v][i].epi
               /\ ~stores'[v][i].read =>
                     sC[stores'[v][i].buf] = slice[stores'[v][i].tile][stores'[v][i].epi]
    <3>1. CASE v # w
      BY <1>2, <3>1 DEF Committed
    <3>2. CASE v = w /\ i \in DOMAIN s
      BY <1>5, <3>2 DEF Committed
    <3>3. CASE v = w /\ i = n + 1
      BY <1>2, <1>3, <3>3
    <3>4. v = w => i \in DOMAIN s \/ i = n + 1
      BY <1>1, <1>2, <1>3
    <3>. QED
      BY <3>1, <3>2, <3>3, <3>4
  <2>. QED
    BY <2>1, <2>2 DEF Committed
<1>7. OutputOf(slice)'
  <2>1. ASSUME NEW t, NEW e, ReadOf(t, e) PROVE ReadOf(t, e)'
    <3>1. PICK v \in Warps(launch) : \E i \in DOMAIN stores[v] :
            stores[v][i].read /\ stores[v][i].tile = t /\ stores[v][i].epi = e
      BY <2>1 DEF ReadOf
    <3>2. \A i \in DOMAIN stores[v] : i \in DOMAIN stores'[v] /\ stores'[v][i] = stores[v][i]
      BY <1>2, <1>5
    <3>. QED
      BY <3>1, <3>2 DEF ReadOf
  <2>. QED
    BY <2>1 DEF OutputOf
<1>. QED
  BY <1>2, <1>3, <1>4, <1>5, <1>6, <1>7

\* What a read does to the stores.
ReadsKept ==
    \A v \in Warps(launch) :
        /\ DOMAIN stores'[v] = DOMAIN stores[v] /\ Len(stores'[v]) = Len(stores[v])
        /\ \A i \in DOMAIN stores[v] :
             /\ stores'[v][i].buf = stores[v][i].buf
             /\ stores'[v][i].tile = stores[v][i].tile
             /\ stores'[v][i].epi = stores[v][i].epi
             /\ stores[v][i].read => stores'[v][i].read

\* A store that is read puts what belongs there into a slice that has nothing yet.
LEMMA StoresRead ==
  ASSUME NEW lead, NEW plan, NEW slice, StoreShape, Committed(lead, plan, slice), OutputOf(slice),
         Distinct(lead, plan),
         NEW w \in Warps(launch), NEW i \in DOMAIN stores[w], ReadStore(w, i)
  PROVE  StoreShape' /\ Committed(lead, plan, slice)' /\ OutputOf(slice)' /\ ReadsKept
<1>1. PICK s : s = stores[w][i]
  OBVIOUS
<1>2. PICK t, e, x : t = s.tile /\ e = s.epi /\ x = sC[s.buf]
  OBVIOUS
<1>3. PICK r : r = [s EXCEPT !.read = TRUE]
  OBVIOUS
<1>4. /\ UNCHANGED <<launch, sC>> /\ ~s.read
      /\ stores' = [stores EXCEPT ![w][i].read = TRUE]
      /\ out' = [out EXCEPT ![t][e] = Append(@, x)]
  BY <1>1, <1>2 DEF ReadStore
<1>5. stores[w] \in Seq(StoreRecords) /\ DOMAIN stores = Warps(launch)
  BY DEF StoreShape
<1>6. s \in StoreRecords /\ i \in Nat \ {0}
  BY <1>1, <1>5
<1>7. r \in StoreRecords /\ r.read /\ r.buf = s.buf /\ r.tile = s.tile /\ r.epi = s.epi
  BY <1>3, <1>6 DEF StoreRecords
<1>8. /\ \A v \in Warps(launch) : v # w => stores'[v] = stores[v]
      /\ stores'[w] = [stores[w] EXCEPT ![i] = r]
      /\ DOMAIN stores' = Warps(launch)
  BY <1>1, <1>3, <1>4, <1>5
<1>9. /\ stores'[w] \in Seq(StoreRecords) /\ Len(stores'[w]) = Len(stores[w])
      /\ DOMAIN stores'[w] = DOMAIN stores[w]
      /\ stores'[w][i] = r
      /\ \A k \in DOMAIN stores[w] : k # i => stores'[w][k] = stores[w][k]
  BY <1>5, <1>7, <1>8
<1>10. StoreShape'
  BY <1>4, <1>8, <1>9 DEF StoreShape
<1>11. ReadsKept
  <2>1. ASSUME NEW v \in Warps(launch), NEW k \in DOMAIN stores[v]
        PROVE  /\ stores'[v][k].buf = stores[v][k].buf
               /\ stores'[v][k].tile = stores[v][k].tile
               /\ stores'[v][k].epi = stores[v][k].epi
               /\ stores[v][k].read => stores'[v][k].read
    BY <1>1, <1>7, <1>8, <1>9
  <2>2. \A v \in Warps(launch) :
          DOMAIN stores'[v] = DOMAIN stores[v] /\ Len(stores'[v]) = Len(stores[v])
    BY <1>8, <1>9
  <2>. QED
    BY <2>1, <2>2 DEF ReadsKept
<1>12. Committed(lead, plan, slice)'
  <2>1. \A v \in Warps(launch) \ lead : stores'[v] = <<>>
    <3>1. ASSUME NEW v \in Warps(launch) \ lead PROVE stores'[v] = <<>>
      <4>1. stores[v] = <<>>
        BY DEF Committed
      <4>2. v # w
        BY <4>1
      <4>. QED
        BY <1>8, <4>1, <4>2
    <3>. QED
      BY <3>1
  <2>2. ASSUME NEW v \in Warps(launch), NEW k \in DOMAIN stores'[v]
        PROVE  /\ stores'[v][k].buf = plan[v][k].buf
               /\ stores'[v][k].tile = plan[v][k].tile
               /\ stores'[v][k].epi = plan[v][k].epi
               /\ ~stores'[v][k].read =>
                     sC[stores'[v][k].buf] = slice[stores'[v][k].tile][stores'[v][k].epi]
    <3>1. k \in DOMAIN stores[v]
      BY <1>11 DEF ReadsKept
    <3>. QED
      BY <1>11, <3>1 DEF ReadsKept, Committed
  <2>. QED
    BY <1>4, <2>1, <2>2 DEF Committed
<1>13. \A t2, e2 : ReadOf(t2, e2) => ReadOf(t2, e2)'
  BY <1>4, <1>11 DEF ReadOf, ReadsKept
<1>14. ReadOf(t, e)'
  <2>1. w \in Warps(launch)' /\ i \in DOMAIN stores'[w] /\ stores'[w][i].read
        /\ stores'[w][i].tile = t /\ stores'[w][i].epi = e
    BY <1>2, <1>4, <1>7, <1>9
  <2>. QED
    BY <2>1 DEF ReadOf
<1>15. ~ReadOf(t, e)
  <2>. SUFFICES ASSUME ReadOf(t, e) PROVE FALSE
    OBVIOUS
  <2>1. PICK v \in Warps(launch) : \E k \in DOMAIN stores[v] :
          stores[v][k].read /\ stores[v][k].tile = t /\ stores[v][k].epi = e
    BY DEF ReadOf
  <2>2. PICK j \in DOMAIN stores[v] :
          stores[v][j].read /\ stores[v][j].tile = t /\ stores[v][j].epi = e
    BY <2>1
  <2>3. v \in lead /\ w \in lead
    BY DEF Committed
  <2>4. j \in Nat \ {0}
    <3>1. stores[v] \in Seq(StoreRecords)
      BY DEF StoreShape
    <3>. QED
      BY <3>1
  <2>5. plan[v][j].tile = plan[w][i].tile /\ plan[v][j].epi = plan[w][i].epi
    <3>1. stores[v][j].tile = plan[v][j].tile /\ stores[v][j].epi = plan[v][j].epi
      BY DEF Committed
    <3>2. stores[w][i].tile = plan[w][i].tile /\ stores[w][i].epi = plan[w][i].epi
      BY DEF Committed
    <3>. QED
      BY <1>1, <1>2, <2>2, <3>1, <3>2
  <2>6. v = w /\ j = i
    BY <1>6, <2>3, <2>4, <2>5 DEF Distinct
  <2>. QED
    BY <1>1, <1>4, <2>2, <2>6
<1>16. x = slice[t][e]
  BY <1>1, <1>2, <1>4 DEF Committed
<1>17. OutputOf(slice)'
  <2>1. DOMAIN out' = DOMAIN out
    BY <1>4
  <2>. SUFFICES ASSUME NEW t2 \in DOMAIN out, NEW e2 \in DOMAIN out'[t2]
                PROVE  out'[t2][e2] = <<>> \/ (out'[t2][e2] = <<slice[t2][e2]>> /\ ReadOf(t2, e2)')
    BY <2>1 DEF OutputOf
  <2>2. DOMAIN out'[t2] = DOMAIN out[t2]
    BY <1>4
  <2>3. CASE t2 # t \/ e2 # e
    <3>1. out'[t2][e2] = out[t2][e2]
      BY <1>4, <2>2, <2>3
    <3>. QED
      BY <1>13, <2>2, <3>1 DEF OutputOf
  <2>4. CASE t2 = t /\ e2 = e
    <3>1. out'[t2][e2] = Append(out[t][e], x)
      BY <1>4, <2>2, <2>4
    <3>2. out[t][e] = <<>>
      BY <1>15, <2>2, <2>4 DEF OutputOf
    <3>3. Append(<<>>, x) = <<x>>
      OBVIOUS
    <3>. QED
      BY <1>14, <1>16, <2>4, <3>1, <3>2, <3>3
  <2>. QED
    BY <2>3, <2>4
<1>. QED
  BY <1>10, <1>11, <1>12, <1>17
=============================================================================
