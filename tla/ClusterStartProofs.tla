-------------------------- MODULE ClusterStartProofs --------------------------
(***************************************************************************)
(* Proofs about the RoCE checks and the cluster start: the index that is   *)
(* injected is safe on every table, and the gate of step 0 holds in every  *)
(* cluster, for every number of workers, runs and failures.                *)
(***************************************************************************)
EXTENDS ClusterStart, WellFoundedInduction, TLAPS

-------------------------------------------------------------------------------
(* The index: lemmas about RoceGid. *)

Below == {ss \in Nat \X Nat : ss[1] < ss[2]}

\* A non-empty set of natural numbers has a least element.
LEMMA LeastIn ==
  ASSUME NEW S \in SUBSET Nat, S # {}
  PROVE  Least(S) \in S
<1>1. IsWellFoundedOn(Below, Nat)
  BY NatLessThanWellFounded DEF OpToRel, Below
<1>2. PICK x \in S : \A y \in S : <<y, x>> \notin Below
  BY <1>1, WFMin
<1>3. ASSUME NEW y \in S
      PROVE  x <= y
  <2>1. <<y, x>> \notin Below
    BY <1>2
  <2>2. x \in Nat /\ y \in Nat
    OBVIOUS
  <2>3. ASSUME y < x PROVE <<y, x>> \in Below
    <3>1. <<y, x>> \in Nat \X Nat
      BY <2>2
    <3>2. <<y, x>>[1] < <<y, x>>[2]
      BY <2>3
    <3>. QED
      BY <3>1, <3>2, Zenon DEF Below
  <2>. QED
    BY <2>1, <2>2, <2>3
<1>. QED
  BY <1>3 DEF Least

\* Slots are natural numbers, so the dynamic choice is none of them.
LEMMA SlotsAreNat == Slots \subseteq Nat /\ Dynamic \notin Slots
<1>1. Glob \in Seq(Nat)
  BY GlobAssumption, Zenon
<1>2. \A i \in DOMAIN Glob : Glob[i] \in Nat
  BY <1>1
<1>. QED
  BY <1>2 DEF Slots, Dynamic

\* The first RoCE v2 slot of a host that has one is a slot, and some port has
\* a RoCE v2 GID there.
LEMMA FirstV2IsV2 ==
  ASSUME NEW t \in Tables, \E p \in DOMAIN t : HasV2(t, p)
  PROVE  FirstV2(t) \in Slots /\ \E p \in DOMAIN t : t[p][FirstV2(t)] = "v2"
<1>. DEFINE Ports == {q \in DOMAIN t : HasV2(t, q)}
            first == Least(Ports)
            Places == {i \in DOMAIN Glob : t[first][Glob[i]] = "v2"}
<1>1. DOMAIN t \subseteq Nat /\ DOMAIN Glob \subseteq Nat
  BY GlobAssumption DEF Tables
<1>2. first \in DOMAIN t /\ HasV2(t, first)
  <2>1. Ports \in SUBSET Nat /\ Ports # {}
    BY <1>1
  <2>2. first \in Ports
    BY <2>1, LeastIn
  <2>. QED
    BY <2>2
<1>3. Places \in SUBSET Nat /\ Places # {}
  BY <1>1, <1>2 DEF HasV2, Slots
<1>4. Least(Places) \in Places
  BY <1>3, LeastIn
<1>5. FirstV2(t) = Glob[Least(Places)]
  BY DEF FirstV2
<1>. QED
  BY <1>2, <1>4, <1>5 DEF Slots

\* A suggested index is dynamic, or a slot where some port has a RoCE v2 GID.
LEMMA SuggestIsV2 ==
  ASSUME NEW t \in Tables, Suggest(t) # Dynamic
  PROVE  Suggest(t) \in Slots /\ \E p \in DOMAIN t : t[p][Suggest(t)] = "v2"
<1>1. \E p \in DOMAIN t : HasV2(t, p)
  BY DEF Suggest
<1>2. CASE Index3Valid(t)
  <2>1. Suggest(t) = 3
    BY <1>1, <1>2 DEF Suggest
  <2>. QED
    BY <1>2, <2>1 DEF Index3Valid
<1>3. CASE ~Index3Valid(t)
  <2>1. Suggest(t) = FirstV2(t)
    BY <1>1, <1>3 DEF Suggest
  <2>. QED
    BY <1>1, <2>1, FirstV2IsV2
<1>. QED
  BY <1>2, <1>3

\* On every GID table the index that gid_index_env.sh exports is dynamic, or
\* a slot that is a hole of no port and a RoCE v2 GID of some port.
THEOREM DecidedIndexSafe ==
  ASSUME NEW t \in Tables
  PROVE  SafeIndex(t, GidIndexEnv(t))
<1>1. CASE GidIndexEnv(t) = Dynamic
  BY <1>1 DEF SafeIndex
<1>2. CASE GidIndexEnv(t) # Dynamic
  <2>1. ~Hole(t, Suggest(t)) /\ GidIndexEnv(t) = Suggest(t)
    BY <1>2 DEF GidIndexEnv
  <2>. QED
    BY <1>2, <2>1, SuggestIsV2 DEF SafeIndex
<1>. QED
  BY <1>1, <1>2

\* A preflight that returns 0 leaves no hole in the slots it looks at, and a
\* RoCE v2 GID among them.
LEMMA PreflightSound ==
  ASSUME NEW t, NEW n, Preflight(t, n) # 3
  PROVE  ~HoleInWindow(t) /\ V2InWindow(t) /\ (n # Dynamic => ~Hole(t, n))
BY DEF Preflight

-------------------------------------------------------------------------------
(* The cluster start: type correctness. *)

LEMMA HostHasTables ==
  ASSUME site \in Placements, NEW h \in Ranks
  PROVE  site[h].tables \in Tables
BY PlacementsAssumption DEF Sites

LEMMA RanksAreNat == Ranks \subseteq 0 .. NumWorkers + 1 /\ 0 \in Ranks
                     /\ Workers \subseteq Ranks /\ Ranks \subseteq Nat
BY RunsAssumption DEF Ranks, Workers

\* The index a start script decides has its type.
LEMMA DecidedType ==
  ASSUME NEW t \in Tables
  PROVE  GidIndexEnv(t) \in Slots \cup {Dynamic}
BY SuggestIsV2 DEF GidIndexEnv

LEMMA InitType == Init => TypeOK
<1> SUFFICES ASSUME Init PROVE TypeOK
  OBVIOUS
<1>1. site \in Placements
  BY DEF Init
<1>2. mounted \in [Ranks -> BOOLEAN]
  <2>1. \A h \in Ranks : site[h].mounted \in BOOLEAN
    BY <1>1, PlacementsAssumption, Zenon DEF Sites
  <2>. QED
    BY <2>1, Zenon DEF Init
<1>3. cpc \in ClusterPcs /\ run \in 0 .. MaxRuns /\ pos \in 0 .. NumWorkers + 1
  BY RunsAssumption DEF Init, ClusterPcs, Ended
<1>4. gateFail \in BOOLEAN /\ gaveUp \in BOOLEAN
  BY Zenon DEF Init
<1>5. leaf \in [Runs -> [Ranks -> LeafStates]] /\ index \in [Runs -> [Ranks -> Slots \cup {Dynamic}]]
  BY DEF Init, LeafStates
<1>6. owner \in [Ranks -> 0 .. MaxRuns] /\ phase \in [Ranks -> Phases]
  BY RunsAssumption DEF Init, Phases
<1>7. libs \subseteq Libs \cup {"NOFILE"} /\ faults \in 0 .. MaxFaults
  BY RunsAssumption DEF Init
<1> QED
  BY <1>1, <1>2, <1>3, <1>4, <1>5, <1>6, <1>7 DEF TypeOK

LEMMA RemovedType ==
  ASSUME TypeOK, NEW h, Removed(h)
  PROVE  owner' \in [Ranks -> 0 .. MaxRuns] /\ phase' \in [Ranks -> Phases]
<1>1. owner' \in [Ranks -> 0 .. MaxRuns]
  <2>1. 0 \in 0 .. MaxRuns
    BY RunsAssumption
  <2>2. owner' = [owner EXCEPT ![h] = 0]
    BY DEF Removed
  <2>. QED
    BY <2>1, <2>2 DEF TypeOK
<1>2. ASSUME NEW g \in Ranks
      PROVE  phase'[g] \in Phases
  <2>1. phase[g] \in Phases
    BY DEF TypeOK
  <2>2. phase'[g] \in {"absent", "lost", "broken", phase[g]}
    BY DEF Removed
  <2>. QED
    BY <2>1, <2>2 DEF Phases
<1>3. phase' \in [Ranks -> Phases]
  BY <1>2, Zenon DEF Removed
<1> QED
  BY <1>1, <1>3

\* A start script moves on.
LEMMA LeafType ==
  ASSUME TypeOK, NEW r, NEW h, NEW step \in LeafStates
  PROVE  [leaf EXCEPT ![r][h] = step] \in [Runs -> [Ranks -> LeafStates]]
BY DEF TypeOK

LEMMA FaultType == TypeOK /\ (Fault \/ UNCHANGED faults) => faults' \in 0 .. MaxFaults
BY RunsAssumption DEF TypeOK, Fault

\* A step of the cluster script or one of its deadlines keeps the types.
LEMMA ClusterKeepsType ==
  ASSUME TypeOK, Launch \/ ClusterStep \/ Deadlines
  PROVE  TypeOK'
<1> USE RunsAssumption, FaultType DEF ClusterPcs, Ended, Starting, Aborts, Late,
        loopVars, clusterVars, leafVars, containerVars
<1>1. CASE Launch
  BY <1>1 DEF TypeOK, Launch
<1>2. CASE Preconditions
  <2>1. gaveUp' \in BOOLEAN
    BY <1>2, Zenon DEF TypeOK, Preconditions
  <2>2. cpc' \in ClusterPcs /\ pos' \in 0 .. NumWorkers + 1 /\ faults' \in 0 .. MaxFaults
    BY <1>2 DEF TypeOK, Preconditions
  <2>3. UNCHANGED <<site, mounted, run, libs, gateFail, leafVars, containerVars>>
    BY <1>2 DEF Preconditions
  <2>. QED
    BY <2>1, <2>2, <2>3 DEF TypeOK
<1>3. CASE CleanRank
  <2>1. owner' \in [Ranks -> 0 .. MaxRuns] /\ phase' \in [Ranks -> Phases]
    <3>1. CASE Removed(pos)
      BY <3>1, RemovedType
    <3>2. CASE UNCHANGED containerVars
      BY <3>2 DEF TypeOK
    <3>. QED
      BY <1>3, <3>1, <3>2 DEF CleanRank
  <2>2. pos' \in 0 .. NumWorkers + 1
    BY <1>3 DEF CleanRank, Ranks
  <2>. QED
    BY <1>3, <2>1, <2>2 DEF TypeOK, CleanRank
<1>4. CASE CheckPorts
  <2>1. gaveUp' \in BOOLEAN /\ gateFail' \in BOOLEAN
    BY <1>4, Zenon DEF TypeOK, CheckPorts
  <2>2. cpc' \in ClusterPcs /\ pos' \in 0 .. NumWorkers + 1 /\ faults' \in 0 .. MaxFaults
    BY <1>4 DEF TypeOK, CheckPorts
  <2>3. libs' \subseteq Libs \cup {"NOFILE"}
    BY <1>4 DEF TypeOK, CheckPorts
  <2>4. UNCHANGED <<site, mounted, run, leafVars, containerVars>>
    BY <1>4 DEF CheckPorts
  <2>. QED
    BY <2>1, <2>2, <2>3, <2>4 DEF TypeOK
<1>5. CASE CheckRank
  <2>1. gateFail' \in BOOLEAN
    BY <1>5, Zenon DEF CheckRank
  <2>2. pos' \in 0 .. NumWorkers + 1
    BY <1>5 DEF CheckRank, Ranks
  <2>3. libs' \subseteq Libs \cup {"NOFILE"}
    <3>1. site[pos].lib \in Libs \cup {"NOFILE"}
      BY <1>5, PlacementsAssumption DEF TypeOK, CheckRank, Sites
    <3>2. libs' = libs \cup {site[pos].lib} \/ libs' = libs
      BY <1>5 DEF CheckRank
    <3>. QED
      BY <3>1, <3>2 DEF TypeOK
  <2>4. faults' \in 0 .. MaxFaults
    BY <1>5 DEF CheckRank
  <2>5. UNCHANGED <<site, mounted, cpc, run, gaveUp, leafVars, containerVars>>
    BY <1>5 DEF CheckRank
  <2>. QED
    BY <2>1, <2>2, <2>3, <2>4, <2>5 DEF TypeOK
<1>6. CASE JudgeGate
  BY <1>6 DEF TypeOK, JudgeGate
<1>7. CASE StartHead \/ StartWorker
  <2>1. leaf' \in [Runs -> [Ranks -> LeafStates]]
    <3>1. \/ leaf' = [leaf EXCEPT ![run][0] = "decide"]
          \/ leaf' = [leaf EXCEPT ![run][pos] = "decide"]
          \/ leaf' = leaf
      BY <1>7 DEF StartHead, StartWorker
    <3>2. "decide" \in LeafStates
      BY DEF LeafStates
    <3>3. [leaf EXCEPT ![run][0] = "decide"] \in [Runs -> [Ranks -> LeafStates]]
      BY ONLY TypeOK, <3>2, LeafType, Zenon
    <3>4. [leaf EXCEPT ![run][pos] = "decide"] \in [Runs -> [Ranks -> LeafStates]]
      BY ONLY TypeOK, <3>2, LeafType, Zenon
    <3>. QED
      BY <3>1, <3>3, <3>4, Zenon DEF TypeOK
  <2>2. pos' \in 0 .. NumWorkers + 1
    BY <1>7 DEF TypeOK, StartHead, StartWorker, Workers
  <2>. QED
    BY <1>7, <2>1, <2>2 DEF TypeOK, StartHead, StartWorker
<1>8. CASE AwaitStore \/ WorkersStarted
  BY <1>8 DEF TypeOK, AwaitStore, WorkersStarted
<1>9. CASE AwaitContainer
  BY <1>9 DEF TypeOK, AwaitContainer, Workers
<1>10. CASE AwaitReady
  BY <1>10 DEF TypeOK, AwaitReady
<1>11. CASE Deadlines
  BY <1>11 DEF TypeOK, Deadlines, StoreLate, ContainerLate, ReadyLate
<1> QED
  BY <1>1, <1>2, <1>3, <1>4, <1>5, <1>6, <1>7, <1>8, <1>9, <1>10, <1>11 DEF ClusterStep

\* A step of a start script keeps the types.
LEMMA LeafKeepsType ==
  ASSUME TypeOK, NEW r \in Runs, NEW h \in Ranks, LeafStep(r, h) \/ ModelLate(r, h)
  PROVE  TypeOK'
<1> USE FaultType DEF LeafStates, loopVars, clusterVars, containerVars
<1>1. CASE Decide(r, h)
  <2>1. GidIndexEnv(site[h].tables) \in Slots \cup {Dynamic}
    BY HostHasTables, DecidedType DEF TypeOK
  <2>. QED
    BY <1>1, <2>1 DEF TypeOK, Decide
<1>2. CASE Checks(r, h) \/ ModelLate(r, h)
  BY <1>2 DEF TypeOK, Checks, ModelLate
<1>3. CASE ClearName(r, h)
  BY <1>3, RemovedType DEF TypeOK, ClearName
<1>4. CASE Create(r, h)
  <2>1. leaf' \in [Runs -> [Ranks -> LeafStates]]
    BY <1>4, LeafType DEF Create
  <2>2. owner' \in [Ranks -> 0 .. MaxRuns] /\ phase' \in [Ranks -> Phases]
    <3>1. r \in 0 .. MaxRuns /\ "up" \in Phases
      BY RunsAssumption DEF Runs, Phases
    <3>2. \/ owner' = [owner EXCEPT ![h] = r] /\ phase' = [phase EXCEPT ![h] = "up"]
          \/ owner' = owner /\ phase' = phase
      BY <1>4 DEF Create
    <3>. QED
      BY <3>1, <3>2 DEF TypeOK
  <2>. QED
    BY <1>4, <2>1, <2>2 DEF TypeOK, Create
<1> QED
  BY <1>1, <1>2, <1>3, <1>4 DEF LeafStep

\* A step of Docker, vLLM or a host keeps the types.
LEMMA SurroundingsKeepType ==
  ASSUME TypeOK,
         \/ Engines
         \/ \E h \in Ranks : ContainerExits(h)
         \/ \E w \in Workers : ModelMounted(w)
  PROVE  TypeOK'
<1> USE DEF loopVars, clusterVars, leafVars
<1>1. CASE Engines
  BY <1>1 DEF TypeOK, Engines, HeadListens, HeadServes, WorkerJoins, Phases
<1>2. ASSUME NEW h \in Ranks, ContainerExits(h) PROVE TypeOK'
  BY <1>2, RemovedType, FaultType DEF TypeOK, ContainerExits
<1>3. ASSUME NEW w \in Workers, ModelMounted(w) PROVE TypeOK'
  BY <1>3 DEF TypeOK, ModelMounted, containerVars
<1> QED
  BY <1>1, <1>2, <1>3

LEMMA NextKeepsType == TypeOK /\ [Next]_vars => TypeOK'
<1>1. CASE UNCHANGED vars
  BY <1>1 DEF TypeOK, vars, clusterVars, loopVars, leafVars, containerVars
<1> QED
  BY <1>1, ClusterKeepsType, LeafKeepsType, SurroundingsKeepType DEF Next

\* Type correctness, for every cluster.
THEOREM StartTypeCorrect == Spec => []TypeOK
BY InitType, NextKeepsType, PTL DEF Spec

-------------------------------------------------------------------------------
(* The gate of step 0, and the injected index. *)

\* Without a failure so far, the ranks behind the loop are in order and their
\* libraries are among those that will be compared.
CheckedSoFar ==
    cpc = "gate" /\ ~gateFail =>
        \A h \in Ranks : h < pos => HostGo(h) /\ site[h].lib \in libs

\* Nothing is started before the verdict.
StartingGo == cpc \in Starting => SiteGo

\* What any start script has decided is safe on its own host.
DecidedSafe == \A r \in Runs, h \in Ranks : SafeIndex(site[h].tables, index[r][h])

Inv == TypeOK /\ CheckedSoFar /\ StartingGo /\ GateHolds /\ DecidedSafe

LEMMA InitInv == Init => Inv
<1> SUFFICES ASSUME Init PROVE Inv
  OBVIOUS
<1>1. CheckedSoFar /\ StartingGo
  BY DEF Init, CheckedSoFar, StartingGo, Starting
<1>2. GateHolds
  BY DEF Init, GateHolds
<1>3. DecidedSafe
  BY DEF Init, DecidedSafe, SafeIndex
<1> QED
  BY <1>1, <1>2, <1>3, InitType DEF Inv

\* The site does not change.
LEMMA SiteStays == [Next]_vars => site' = site
BY DEF Next, vars, Launch, ClusterStep, Preconditions, CleanRank, CheckPorts, CheckRank,
       JudgeGate, StartHead, AwaitStore, StartWorker, WorkersStarted, AwaitContainer,
       AwaitReady, Deadlines, StoreLate, ContainerLate, ReadyLate, LeafStep, Decide, Checks,
       ClearName, Create, ModelLate, Engines, HeadListens, HeadServes, WorkerJoins,
       ContainerExits, ModelMounted

\* The verdict is sound.
LEMMA JudgeSound ==
  ASSUME Inv, JudgeGate, cpc' = "head"
  PROVE  SiteGo
<1>1. cpc = "gate" /\ ~gateFail /\ ~LibsDiffer(libs) /\ pos \notin Ranks
  BY DEF JudgeGate
<1>2. \A h \in Ranks : h < pos
  BY <1>1, RunsAssumption DEF Inv, TypeOK, Ranks
<1>3. \A h \in Ranks : HostGo(h) /\ site[h].lib \in libs
  BY <1>1, <1>2 DEF Inv, CheckedSoFar
<1>4. \A h \in Ranks : site[h].lib # "NOFILE" /\ site[h].lib = site[0].lib
  BY <1>1, <1>3, RanksAreNat DEF LibsDiffer
<1> QED
  BY <1>3, <1>4 DEF SiteGo

\* The loop of step 0 extends what is checked by one rank.
LEMMA CheckKeepsChecked ==
  ASSUME Inv, CheckRank
  PROVE  CheckedSoFar'
<1> SUFFICES ASSUME ~gateFail', NEW h \in Ranks, h < pos'
             PROVE  HostGo(h) /\ site[h].lib \in libs'
  BY DEF CheckedSoFar, HostGo, CheckRank
<1>1. cpc = "gate" /\ pos \in Ranks /\ pos' = pos + 1
  BY DEF CheckRank
<1>2. /\ ~gateFail /\ ~HoleInWindow(site[pos].tables)
      /\ ~(site[pos].tools /\ Preflight(site[pos].tables, Dynamic) = 3)
      /\ libs' = libs \cup {site[pos].lib}
  BY Zenon DEF CheckRank
<1>3. HostGo(pos)
  BY <1>2, PreflightSound DEF HostGo
<1>4. CASE h = pos
  BY <1>2, <1>3, <1>4
<1>5. CASE h # pos
  <2>1. h < pos
    BY <1>1, <1>5, RanksAreNat
  <2>. QED
    BY <1>1, <1>2, <2>1 DEF Inv, CheckedSoFar
<1> QED
  BY <1>4, <1>5

LEMMA NextKeepsChecked == Inv /\ [Next]_vars => CheckedSoFar' /\ StartingGo'
<1> SUFFICES ASSUME Inv, [Next]_vars PROVE CheckedSoFar' /\ StartingGo'
  OBVIOUS
<1>0. site' = site /\ (SiteGo => SiteGo')
  BY SiteStays DEF SiteGo, HostGo
<1>1. CASE UNCHANGED <<cpc, pos, libs, gateFail>>
  BY <1>0, <1>1 DEF Inv, CheckedSoFar, StartingGo, HostGo
<1>2. CASE CheckRank
  <2>1. StartingGo'
    BY <1>0, <1>2 DEF Inv, StartingGo, CheckRank, Starting
  <2>. QED
    BY <1>2, <2>1, CheckKeepsChecked
<1>3. CASE JudgeGate
  <2>1. cpc' # "gate"
    BY <1>3 DEF JudgeGate
  <2>2. cpc' = "head" \/ cpc' = "nogo"
    BY <1>3 DEF JudgeGate
  <2>. QED
    BY <1>0, <1>3, <2>1, <2>2, JudgeSound DEF CheckedSoFar, StartingGo, Starting
<1>4. CASE CheckPorts
  <2>1. cpc' = "gate" => pos' = 0
    BY <1>4 DEF CheckPorts, Aborts
  <2>2. cpc' \in {"gate", "aborted"}
    BY <1>4 DEF CheckPorts, Aborts
  <2>. QED
    BY <2>1, <2>2, RanksAreNat DEF CheckedSoFar, StartingGo, Starting
<1>5. CASE Launch \/ Preconditions \/ CleanRank
  <2>1. cpc' \in {"pre", "clean", "aborted"}
    BY <1>5 DEF Launch, Preconditions, CleanRank, Aborts
  <2>. QED
    BY <2>1 DEF CheckedSoFar, StartingGo, Starting
<1>6. CASE StartHead \/ AwaitStore \/ StartWorker \/ WorkersStarted \/ AwaitContainer \/ AwaitReady
  <2>1. cpc \in Starting /\ cpc' # "gate"
    BY <1>6 DEF StartHead, AwaitStore, StartWorker, WorkersStarted, AwaitContainer, AwaitReady, Starting
  <2>. QED
    BY <1>0, <2>1 DEF Inv, CheckedSoFar, StartingGo
<1>7. CASE Deadlines
  <2>1. cpc' = "aborted"
    BY <1>7 DEF Deadlines, StoreLate, ContainerLate, ReadyLate, Aborts
  <2>. QED
    BY <2>1 DEF CheckedSoFar, StartingGo, Starting
<1>8. CASE \E r \in Runs, h \in Ranks : LeafStep(r, h) \/ ModelLate(r, h)
  BY <1>1, <1>8 DEF LeafStep, Decide, Checks, ClearName, Create, ModelLate, clusterVars, loopVars
<1>9. CASE Engines \/ (\E h \in Ranks : ContainerExits(h)) \/ (\E w \in Workers : ModelMounted(w))
  BY <1>1, <1>9 DEF Engines, HeadListens, HeadServes, WorkerJoins, ContainerExits, ModelMounted,
                    clusterVars, loopVars
<1>10. CASE UNCHANGED vars
  BY <1>1, <1>10 DEF vars, clusterVars, loopVars
<1> QED
  BY <1>2, <1>3, <1>4, <1>5, <1>6, <1>7, <1>8, <1>9, <1>10 DEF Next, ClusterStep

\* Only a cluster script past its gate makes a start script leave "off".
LEMMA NextKeepsGate == Inv /\ [Next]_vars => GateHolds'
<1> SUFFICES ASSUME Inv, [Next]_vars, NEW g \in Runs, NEW k \in Ranks,
                    leaf'[g][k] # "off"
             PROVE  SiteGo'
  BY DEF GateHolds
<1>1. SiteGo => SiteGo'
  BY SiteStays DEF SiteGo, HostGo
<1>2. leaf \in [Runs -> [Ranks -> LeafStates]]
  BY DEF Inv, TypeOK
<1>3. CASE leaf' = leaf
  BY <1>1, <1>3 DEF Inv, GateHolds
<1>4. CASE StartHead \/ StartWorker
  BY <1>1, <1>4 DEF Inv, StartingGo, Starting, StartHead, StartWorker
<1>5. ASSUME NEW r \in Runs, NEW h \in Ranks, LeafStep(r, h) \/ ModelLate(r, h)
      PROVE  SiteGo'
  <2>1. leaf[r][h] # "off"
    BY <1>5 DEF LeafStep, Decide, Checks, ClearName, Create, ModelLate
  <2>. QED
    BY <1>1, <2>1 DEF Inv, GateHolds
<1>6. CASE Launch \/ ClusterStep \/ Deadlines
  BY <1>3, <1>4, <1>6 DEF Launch, ClusterStep, Preconditions, CleanRank, CheckPorts, CheckRank,
       JudgeGate, AwaitStore, WorkersStarted, AwaitContainer, AwaitReady, Deadlines, StoreLate,
       ContainerLate, ReadyLate, leafVars
<1>7. CASE Engines \/ (\E h \in Ranks : ContainerExits(h)) \/ (\E w \in Workers : ModelMounted(w))
  BY <1>3, <1>7 DEF Engines, HeadListens, HeadServes, WorkerJoins, ContainerExits, ModelMounted,
                    leafVars
<1>8. CASE UNCHANGED vars
  BY <1>3, <1>8 DEF vars, leafVars
<1> QED
  BY <1>5, <1>6, <1>7, <1>8 DEF Next

\* A decision is taken on the tables of the host it is for.
LEMMA NextKeepsDecided == Inv /\ [Next]_vars => DecidedSafe'
<1> SUFFICES ASSUME Inv, [Next]_vars, NEW g \in Runs, NEW k \in Ranks
             PROVE  SafeIndex(site'[k].tables, index'[g][k])
  BY DEF DecidedSafe
<1>1. site' = site /\ SafeIndex(site[k].tables, index[g][k])
  BY SiteStays DEF Inv, DecidedSafe
<1>2. CASE index' = index
  BY <1>1, <1>2
<1>3. ASSUME NEW r \in Runs, NEW h \in Ranks, Decide(r, h)
      PROVE  SafeIndex(site'[k].tables, index'[g][k])
  <2>1. index'[g][k] = index[g][k] \/ (g = r /\ k = h)
    BY <1>3 DEF Decide, Inv, TypeOK
  <2>2. CASE g = r /\ k = h
    <3>1. index'[g][k] = IF site[k].tools THEN GidIndexEnv(site[k].tables) ELSE Dynamic
      BY <1>3, <2>2 DEF Decide, Inv, TypeOK
    <3>2. SafeIndex(site[k].tables, GidIndexEnv(site[k].tables))
      BY HostHasTables, DecidedIndexSafe DEF Inv, TypeOK
    <3>. QED
      BY <1>1, <3>1, <3>2 DEF SafeIndex
  <2>. QED
    BY <1>1, <2>1, <2>2
<1>4. CASE Launch \/ ClusterStep \/ Deadlines
  BY <1>2, <1>4 DEF Launch, ClusterStep, Preconditions, CleanRank, CheckPorts, CheckRank,
       JudgeGate, StartHead, AwaitStore, StartWorker, WorkersStarted, AwaitContainer, AwaitReady,
       Deadlines, StoreLate, ContainerLate, ReadyLate, leafVars
<1>5. ASSUME NEW r \in Runs, NEW h \in Ranks, LeafStep(r, h) \/ ModelLate(r, h)
      PROVE  SafeIndex(site'[k].tables, index'[g][k])
  BY <1>2, <1>3, <1>5 DEF LeafStep, Checks, ClearName, Create, ModelLate
<1>6. CASE Engines \/ (\E h \in Ranks : ContainerExits(h)) \/ (\E w \in Workers : ModelMounted(w))
  BY <1>2, <1>6 DEF Engines, HeadListens, HeadServes, WorkerJoins, ContainerExits, ModelMounted,
                    leafVars
<1>7. CASE UNCHANGED vars
  BY <1>2, <1>7 DEF vars, leafVars
<1> QED
  BY <1>4, <1>5, <1>6, <1>7 DEF Next

LEMMA InvHolds == Spec => []Inv
<1>1. Inv /\ [Next]_vars => Inv'
  BY NextKeepsType, NextKeepsChecked, NextKeepsGate, NextKeepsDecided DEF Inv
<1> QED
  BY InitInv, <1>1, PTL DEF Spec

\* No start script of any run is started unless every host of the
\* cluster has passed step 0.
THEOREM GateBeforeStart == Spec => []GateHolds
<1>1. Inv => GateHolds
  BY DEF Inv
<1> QED
  BY <1>1, InvHolds, PTL

\* No container is ever given an index that is a hole of a port of its host.
THEOREM NoHoleInjected == Spec => []InjectedIndexSafe
<1>1. Inv => InjectedIndexSafe
  <2> SUFFICES ASSUME Inv, NEW h \in Ranks, owner[h] # 0
               PROVE  SafeIndex(site[h].tables, index[owner[h]][h])
    BY DEF InjectedIndexSafe
  <2>1. owner[h] \in Runs
    BY RunsAssumption DEF Inv, TypeOK, Runs
  <2> QED
    BY <2>1 DEF Inv, DecidedSafe
<1> QED
  BY <1>1, InvHolds, PTL
-------------------------------------------------------------------------------
(* Which run the containers belong to, as long as nothing has failed and no   *)
(* run has given up.                                                          *)

Calm    == faults = 0 /\ ~gaveUp
Active  == {"decide", "checks", "clear", "create"}
Waiting == {"store", "recheck", "workers", "exist", "logs"}

\* Only scripts of the present run are active; later ones have not started any.
OnlyPresent ==
  \A r \in Runs, h \in Ranks :
    /\ leaf[r][h] \in Active => r = run /\ cpc \in Waiting
    /\ r > run => leaf[r][h] = "off"

\* What the present run has not started yet.
NotYet ==
  /\ cpc \in {"pre", "clean", "gate", "head", "nogo"} => \A h \in Ranks : leaf[run][h] = "off"
  /\ cpc \in {"store", "recheck"} => \A w \in Workers : leaf[run][w] = "off"
  /\ cpc = "workers" => \A w \in Workers : w >= pos => leaf[run][w] = "off"

\* A container was created by a script that is done.
Created ==
  \A h \in Ranks : owner[h] # 0 => owner[h] \in Runs /\ leaf[owner[h]][h] = "created"

\* The clean-up has removed what it passed, and no other run adds to it.
CleanedUp ==
  /\ cpc = "clean" => \A h \in Ranks : h < pos => owner[h] = 0
  /\ cpc \in {"gate"} \cup Starting => \A h \in Ranks : owner[h] \in {0, run}

\* A rank without a container is absent; an engine that serves is whole.
Whole ==
  /\ \A h \in Ranks : owner[h] = 0 <=> phase[h] = "absent"
  /\ phase[0] = "serving" => \A w \in Workers : phase[w] = "joined"
  /\ cpc = "ready" => phase[0] = "serving" /\ \A h \in Ranks : owner[h] = run

\* A run that is not the first starts after one that has ended.
InRun == cpc # "aborted" /\ (cpc = "idle" <=> run = 0)

Undisturbed == OnlyPresent /\ NotYet /\ Created /\ CleanedUp /\ Whole /\ InRun
CalmInv == TypeOK /\ (Calm => Undisturbed)

\* What has failed has failed.
LEMMA CalmBefore ==
  ASSUME TypeOK, Next, Calm'
  PROVE  Calm
<1>1. gaveUp' = gaveUp \/ gaveUp' = TRUE
  BY DEF Next, Launch, ClusterStep, Preconditions, CleanRank, CheckPorts, CheckRank,
         JudgeGate, StartHead, AwaitStore, StartWorker, WorkersStarted, AwaitContainer,
         AwaitReady, Deadlines, StoreLate, ContainerLate, ReadyLate, LeafStep, Decide, Checks,
         ClearName, Create, ModelLate, Engines, HeadListens, HeadServes, WorkerJoins,
         ContainerExits, ModelMounted, Aborts, clusterVars
<1>2. faults' = faults \/ faults' = faults + 1
  BY DEF Next, Launch, ClusterStep, Preconditions, CleanRank, CheckPorts, CheckRank,
         JudgeGate, StartHead, AwaitStore, StartWorker, WorkersStarted, AwaitContainer,
         AwaitReady, Deadlines, StoreLate, ContainerLate, ReadyLate, LeafStep, Decide, Checks,
         ClearName, Create, ModelLate, Engines, HeadListens, HeadServes, WorkerJoins,
         ContainerExits, ModelMounted, Late, Fault
<1>3. faults \in Nat
  BY RunsAssumption DEF TypeOK
<1> QED
  BY <1>1, <1>2, <1>3 DEF Calm

\* What the present run and its rank 0 are.
LEMMA RunFacts ==
  ASSUME TypeOK
  PROVE  /\ run \in Nat /\ 0 \in Ranks /\ Workers = Ranks \ {0} /\ Runs \subseteq Nat \ {0}
         /\ (run # 0 => run \in Runs) /\ Ranks \subseteq Nat
         /\ pos \in Nat
         /\ DOMAIN leaf = Runs /\ (\A r \in Runs : DOMAIN leaf[r] = Ranks)
         /\ DOMAIN owner = Ranks /\ DOMAIN phase = Ranks
BY RunsAssumption DEF TypeOK, Runs, Ranks, Workers

\* The steps of the cluster script.
LEMMA ClusterUndisturbed ==
  ASSUME TypeOK, Undisturbed, Calm, Calm', Launch \/ ClusterStep \/ Deadlines
  PROVE  Undisturbed'
<1> USE RunFacts DEF Starting, Waiting, Active
<1> DEFINE Kept == leaf' = leaf /\ owner' = owner /\ phase' = phase
<1>0. ~ Fault /\ ~ Aborts
  BY DEF Calm, Fault, Aborts
<1>1. CASE Launch
  <2>1. Kept /\ cpc' = "pre" /\ run' = run + 1 /\ cpc \in Ended /\ run + 1 \in Runs
    BY <1>1, RunsAssumption DEF Launch, leafVars, containerVars, Runs
  <2>2. \A r \in Runs, h \in Ranks : leaf[r][h] \notin Active
    BY <2>1 DEF Undisturbed, OnlyPresent, Ended
  <2>3. OnlyPresent' /\ NotYet'
    BY <2>1, <2>2 DEF Undisturbed, OnlyPresent, NotYet
  <2>4. Created' /\ CleanedUp' /\ Whole' /\ InRun'
    BY <2>1 DEF Undisturbed, Created, CleanedUp, Whole, InRun
  <2> QED
    BY <2>3, <2>4 DEF Undisturbed
<1>2. CASE Preconditions
  <2>1. Kept /\ run' = run /\ cpc = "pre" /\ cpc' = "clean" /\ pos' = 0
    BY <1>0, <1>2 DEF Preconditions, leafVars, containerVars
  <2> QED
    BY <2>1 DEF Undisturbed, OnlyPresent, NotYet, Created, CleanedUp, Whole, InRun
<1>3. CASE CleanRank
  <2>1. /\ leaf' = leaf /\ run' = run /\ cpc = "clean" /\ cpc' = cpc
        /\ pos \in Ranks /\ pos' = pos + 1 /\ Removed(pos)
    BY <1>0, <1>3 DEF CleanRank, leafVars
  <2>2. /\ owner'[pos] = 0 /\ phase'[pos] = "absent" /\ phase'[0] # "serving"
        /\ \A h \in Ranks : h # pos => /\ owner'[h] = owner[h]
                                       /\ phase'[h] = "absent" <=> phase[h] = "absent"
    <3>1. /\ owner'[pos] = 0 /\ phase'[pos] = "absent"
          /\ \A h \in Ranks : h # pos => /\ owner'[h] = owner[h]
                                         /\ phase'[h] \in {"lost", "broken", phase[h]}
                                         /\ phase'[h] # phase[h] => phase[h] # "absent"
      BY <2>1 DEF Removed
    <3>2. pos # 0 => owner[0] = 0 /\ phase[0] = "absent"
      BY <2>1 DEF Undisturbed, CleanedUp, Whole
    <3> QED
      BY <3>1, <3>2
  <2>3. OnlyPresent' /\ NotYet' /\ InRun'
    BY <2>1 DEF Undisturbed, OnlyPresent, NotYet, InRun
  <2>4. Created'
    BY <2>1, <2>2 DEF Undisturbed, Created
  <2>5. CleanedUp' /\ Whole'
    BY <2>1, <2>2 DEF Undisturbed, CleanedUp, Whole
  <2> QED
    BY <2>3, <2>4, <2>5 DEF Undisturbed
<1>4. CASE CheckPorts
  <2>1. Kept /\ run' = run /\ cpc = "clean" /\ pos \notin Ranks /\ cpc' = "gate"
    BY <1>0, <1>4 DEF CheckPorts, leafVars, containerVars
  <2>2. \A h \in Ranks : h < pos
    BY <2>1, RunsAssumption DEF TypeOK, Ranks
  <2> QED
    BY <2>1, <2>2 DEF Undisturbed, OnlyPresent, NotYet, Created, CleanedUp, Whole, InRun
<1>5. CASE CheckRank \/ JudgeGate
  <2>1. /\ Kept /\ run' = run /\ cpc = "gate"
        /\ cpc' \in {"gate", "nogo", "head"}
    BY <1>5 DEF CheckRank, JudgeGate, leafVars, containerVars
  <2> QED
    BY <2>1 DEF Undisturbed, OnlyPresent, NotYet, Created, CleanedUp, Whole, InRun
<1>6. ASSUME NEW h \in Ranks, run' = run, owner' = owner, phase' = phase, run \in Runs,
             leaf' = [leaf EXCEPT ![run][h] = "decide"], leaf[run][h] = "off",
             cpc \in {"head", "workers"}, cpc' \in {"store", "workers"}
      PROVE  OnlyPresent' /\ Created' /\ CleanedUp' /\ Whole' /\ InRun'
  <2>1. /\ leaf'[run][h] = "decide" /\ DOMAIN leaf' = Runs
        /\ \A r \in Runs, g \in Ranks : r # run \/ g # h => leaf'[r][g] = leaf[r][g]
    BY <1>6
  <2>2. OnlyPresent'
    BY <1>6, <2>1 DEF Undisturbed, OnlyPresent
  <2>3. Created'
    BY <1>6, <2>1 DEF Undisturbed, Created
  <2>4. CleanedUp' /\ Whole' /\ InRun'
    BY <1>6 DEF Undisturbed, CleanedUp, Whole, InRun
  <2> QED
    BY <2>2, <2>3, <2>4
<1>7. CASE StartHead
  <2>1. /\ run' = run /\ owner' = owner /\ phase' = phase /\ cpc = "head" /\ cpc' = "store"
        /\ leaf' = [leaf EXCEPT ![run][0] = "decide"] /\ pos' = pos
    BY <1>7 DEF StartHead, containerVars, loopVars
  <2>2. run \in Runs /\ \A h \in Ranks : leaf[run][h] = "off"
    BY <2>1 DEF Undisturbed, InRun, NotYet
  <2>3. OnlyPresent' /\ Created' /\ CleanedUp' /\ Whole' /\ InRun'
    BY <1>6, <2>1, <2>2
  <2>4. NotYet'
    BY <2>1, <2>2 DEF NotYet
  <2> QED
    BY <2>3, <2>4 DEF Undisturbed
<1>8. CASE StartWorker
  <2>1. /\ run' = run /\ owner' = owner /\ phase' = phase /\ cpc = "workers" /\ cpc' = cpc
        /\ leaf' = [leaf EXCEPT ![run][pos] = "decide"] /\ pos \in Workers /\ pos' = pos + 1
    BY <1>0, <1>8 DEF StartWorker, containerVars
  <2>2. run \in Runs /\ leaf[run][pos] = "off"
    BY <2>1 DEF Undisturbed, InRun, NotYet
  <2>3. OnlyPresent' /\ Created' /\ CleanedUp' /\ Whole' /\ InRun'
    BY <1>6, <2>1, <2>2
  <2>4. NotYet'
    BY <2>1, <2>2 DEF Undisturbed, NotYet
  <2> QED
    BY <2>3, <2>4 DEF Undisturbed
<1>9. CASE AwaitStore \/ WorkersStarted \/ AwaitContainer
  <2>1. /\ Kept /\ run' = run
        /\ \/ cpc = "store" /\ cpc' = "recheck"
           \/ cpc = "recheck" /\ cpc' = "workers"
           \/ cpc = "workers" /\ cpc' = "exist"
           \/ cpc = "exist" /\ cpc' \in {"exist", "logs"}
    BY <1>9 DEF AwaitStore, WorkersStarted, AwaitContainer, leafVars, containerVars
  <2> QED
    BY <2>1 DEF Undisturbed, OnlyPresent, NotYet, Created, CleanedUp, Whole, InRun
<1>10. CASE AwaitReady
  <2>1. Kept /\ run' = run /\ cpc = "logs" /\ phase[0] = "serving" /\ cpc' = "ready"
    BY <1>10 DEF AwaitReady, leafVars, containerVars
  <2>2. \A h \in Ranks : phase[h] # "absent"
    BY <2>1 DEF Undisturbed, Whole
  <2>3. \A h \in Ranks : owner[h] = run /\ leaf[run][h] = "created"
    BY <2>1, <2>2 DEF Undisturbed, Whole, CleanedUp, Created
  <2>4. OnlyPresent' /\ NotYet' /\ InRun'
    BY <2>1, <2>3 DEF Undisturbed, OnlyPresent, NotYet, InRun
  <2>5. Created' /\ CleanedUp' /\ Whole'
    BY <2>1, <2>3 DEF Undisturbed, Created, CleanedUp, Whole
  <2> QED
    BY <2>4, <2>5 DEF Undisturbed
<1>11. CASE Deadlines
  BY <1>0, <1>11 DEF Deadlines, StoreLate, ContainerLate, ReadyLate
<1> QED
  BY <1>1, <1>2, <1>3, <1>4, <1>5, <1>7, <1>8, <1>9, <1>10, <1>11 DEF ClusterStep

\* The steps of the start scripts.
LEMMA LeafUndisturbed ==
  ASSUME TypeOK, Undisturbed, Calm, NEW r \in Runs, NEW h \in Ranks,
         LeafStep(r, h) \/ ModelLate(r, h)
  PROVE  Undisturbed'
<1> USE RunFacts DEF Starting, Waiting, Active
<1>1. leaf[r][h] \in Active /\ UNCHANGED <<cpc, run, pos>>
  BY DEF LeafStep, Decide, Checks, ClearName, Create, ModelLate, clusterVars, loopVars
<1>2. r = run /\ cpc \in Waiting /\ owner[h] = 0 /\ phase[h] = "absent"
  <2>1. r = run /\ cpc \in Waiting
    BY <1>1 DEF Undisturbed, OnlyPresent
  <2>2. owner[h] = 0
    BY <1>1, <2>1 DEF Undisturbed, CleanedUp, Created
  <2> QED
    BY <2>1, <2>2 DEF Undisturbed, Whole
<1>3. PICK step : leaf' = [leaf EXCEPT ![r][h] = step] /\ step # "off"
  BY DEF LeafStep, Decide, Checks, ClearName, Create, ModelLate
<1>4. /\ leaf'[r][h] = step /\ DOMAIN leaf' = Runs
      /\ \A q \in Runs, g \in Ranks : q # r \/ g # h => leaf'[q][g] = leaf[q][g]
  BY <1>3
<1>5. OnlyPresent' /\ InRun'
  BY <1>1, <1>2, <1>4 DEF Undisturbed, OnlyPresent, InRun
<1>6. NotYet'
  <2>1. cpc \in {"store", "recheck"} => h \notin Workers
    BY <1>1, <1>2 DEF Undisturbed, NotYet
  <2>2. cpc = "workers" /\ h \in Workers => ~ (h >= pos)
    BY <1>1, <1>2 DEF Undisturbed, NotYet
  <2> QED
    BY <1>1, <1>2, <1>4, <2>1, <2>2 DEF Undisturbed, NotYet
<1>7. CASE Create(r, h)
  <2>1. /\ owner' = [owner EXCEPT ![h] = r] /\ phase' = [phase EXCEPT ![h] = "up"]
        /\ leaf'[r][h] = "created"
    BY <1>2, <1>7 DEF Create
  <2>2. Created'
    BY <1>2, <1>4, <2>1 DEF Undisturbed, Created
  <2>3. CleanedUp'
    BY <1>1, <1>2, <2>1 DEF Undisturbed, CleanedUp
  <2>4. Whole'
    BY <1>1, <1>2, <2>1 DEF Undisturbed, Whole
  <2> QED
    BY <1>5, <1>6, <2>2, <2>3, <2>4 DEF Undisturbed
<1>8. CASE ~ Create(r, h)
  <2>1. /\ \A g \in Ranks : owner'[g] = owner[g]
        /\ phase'[0] = "serving" => phase[0] = "serving" /\ h # 0
        /\ \A g \in Ranks : phase'[g] = "absent" <=> phase[g] = "absent"
        /\ phase'[0] = "serving" => \A w \in Workers : phase'[w] = phase[w]
    <3>1. CASE ClearName(r, h)
      BY <1>2, <3>1 DEF ClearName, Removed
    <3>2. CASE ~ ClearName(r, h)
      <4>1. owner' = owner /\ phase' = phase
        BY <1>8, <3>2 DEF LeafStep, Decide, Checks, ModelLate, containerVars
      <4> QED
        BY <1>2, <4>1
    <3> QED
      BY <3>1, <3>2
  <2>2. Created'
    BY <1>1, <1>2, <1>4, <2>1 DEF Undisturbed, Created
  <2>3. CleanedUp' /\ Whole'
    BY <1>1, <1>2, <2>1 DEF Undisturbed, CleanedUp, Whole
  <2> QED
    BY <1>5, <1>6, <2>2, <2>3 DEF Undisturbed
<1> QED
  BY <1>7, <1>8

\* The steps of Docker, vLLM and the hosts.
LEMMA SurroundingsUndisturbed ==
  ASSUME TypeOK, Undisturbed, Calm, Calm',
         \/ Engines
         \/ \E h \in Ranks : ContainerExits(h)
         \/ \E w \in Workers : ModelMounted(w)
  PROVE  Undisturbed'
<1> USE RunFacts
<1>1. UNCHANGED <<cpc, run, pos, leaf, owner>>
  BY DEF Engines, HeadListens, HeadServes, WorkerJoins, ContainerExits, ModelMounted,
         Fault, Calm, clusterVars, loopVars, leafVars, containerVars
<1>2. OnlyPresent' /\ NotYet' /\ Created' /\ CleanedUp' /\ InRun'
  BY <1>1 DEF Undisturbed, OnlyPresent, NotYet, Created, CleanedUp, InRun
<1>3. Whole'
  <2>1. CASE HeadListens \/ HeadServes
    BY <1>1, <2>1 DEF HeadListens, HeadServes, Undisturbed, Whole
  <2>2. ASSUME NEW w \in Workers, WorkerJoins(w) PROVE Whole'
    BY <1>1, <2>2 DEF WorkerJoins, Undisturbed, Whole
  <2>3. CASE phase' = phase
    BY <1>1, <2>3 DEF Undisturbed, Whole
  <2>4. (\E h \in Ranks : ContainerExits(h)) => FALSE
    BY DEF ContainerExits, Fault, Calm
  <2>5. (\E w \in Workers : ModelMounted(w)) => phase' = phase
    BY DEF ModelMounted, containerVars
  <2> QED
    BY <2>1, <2>2, <2>3, <2>4, <2>5 DEF Engines
<1> QED
  BY <1>2, <1>3 DEF Undisturbed

\* As long as nothing fails and nobody gives up, runs do not disturb each other.
LEMMA CalmHolds == Spec => []CalmInv
<1>1. Init => CalmInv
  <2> SUFFICES ASSUME Init PROVE CalmInv
    OBVIOUS
  <2>1. TypeOK
    BY InitType
  <2>2. OnlyPresent /\ NotYet /\ Created
    BY RunFacts, <2>1 DEF Init, OnlyPresent, NotYet, Created, Active
  <2>3. CleanedUp /\ Whole /\ InRun
    BY RunFacts, <2>1 DEF Init, CleanedUp, Whole, InRun, Starting
  <2> QED
    BY <2>1, <2>2, <2>3 DEF CalmInv, Undisturbed
<1>2. CalmInv /\ [Next]_vars => CalmInv'
  <2> SUFFICES ASSUME CalmInv, [Next]_vars PROVE CalmInv'
    OBVIOUS
  <2>1. TypeOK /\ TypeOK' /\ (Calm => Undisturbed)
    BY NextKeepsType DEF CalmInv
  <2>2. CASE UNCHANGED vars
    BY <2>1, <2>2 DEF CalmInv, Calm, Undisturbed, OnlyPresent, NotYet, Created, CleanedUp,
       Whole, InRun, vars, clusterVars, loopVars, leafVars, containerVars
  <2>3. CASE Next /\ Calm'
    <3>1. Calm /\ Undisturbed
      BY <2>1, <2>3, CalmBefore
    <3>2. Undisturbed'
      BY <2>1, <2>3, <3>1, ClusterUndisturbed, LeafUndisturbed, SurroundingsUndisturbed DEF Next
    <3> QED
      BY <2>1, <3>2 DEF CalmInv
  <2> QED
    BY <2>1, <2>2, <2>3 DEF CalmInv
<1> QED
  BY <1>1, <1>2, PTL DEF Spec

\* Past its clean-up a run that nothing has disturbed meets no container of
\* another run, however many runs there have been.
THEOREM RunsApart == Spec => []OnlyThisRun
<1>1. CalmInv => OnlyThisRun
  BY DEF CalmInv, Calm, Undisturbed, CleanedUp, OnlyThisRun
<1> QED
  BY <1>1, CalmHolds, PTL

\* READY means a container of this run on each rank and all ranks joined.
THEOREM ReadyMeansWhole == Spec => []ReadyIsWhole
<1>1. CalmInv => ReadyIsWhole
  BY DEF CalmInv, Calm, Undisturbed, Whole, ReadyIsWhole
<1> QED
  BY <1>1, CalmHolds, PTL
===============================================================================
