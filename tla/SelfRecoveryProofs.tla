-------------------------- MODULE SelfRecoveryProofs --------------------------
(***************************************************************************)
(* The safety of the recovery chain, for any number of workers, any limits *)
(* and any number of failures.                                             *)
(***************************************************************************)
EXTENDS SelfRecovery, FiniteSetTheorems, TLAPS

\* While the ssh loop runs rank 0 is down, and on a host it has visited nothing
\* is left but what ssh could not reach or a start script was bringing up; no
\* new script is launched there, since no TCPStore listens.
ClearedStaysClear ==
    mon = "clearing" =>
        /\ head = "absent"
        /\ \A w \in Workers : worker[w] # "absent" => w \in toClear \cup unreached \cup late

Inv == TypeOK /\ ClearedStaysClear /\ HeadFirst

USE DEF HeadStates, Answering, StoreOpen, Containers, WorkerStates, MonitorStates, TimerStates

LEMMA ConnectionsType == TypeOK => Connections \in Nat
<1> SUFFICES ASSUME TypeOK PROVE Connections \in Nat
  OBVIOUS
<1>1. Joined \subseteq Workers
  BY DEF Joined
<1>2. IsFiniteSet(Joined)
  BY <1>1, WorkersAssumption, FS_Subset
<1>3. Cardinality(Joined) \in Nat
  BY <1>2, FS_CardinalityType
<1> QED
  BY <1>3, LimitsAssumption DEF Connections

LEMMA InvInit == Init => Inv
<1> SUFFICES ASSUME Init PROVE Inv
  OBVIOUS
<1>1. TypeOK
  <2>1. 0 \in 0 .. (StoreTries - 1) /\ 0 \in 0 .. (NoProgressLimit - 1) /\ 0 \in 0 .. MaxFaults
    BY LimitsAssumption
  <2>2. worker \in [Workers -> WorkerStates]
    BY DEF Init
  <2>3. grace \in BOOLEAN /\ abandoned \in BOOLEAN /\ cooling \in BOOLEAN
    BY Zenon DEF Init
  <2> QED
    BY <2>1, <2>2, <2>3 DEF Init, TypeOK
<1>2. ClearedStaysClear /\ HeadFirst
  BY DEF Init, ClearedStaysClear, HeadFirst
<1> QED
  BY <1>1, <1>2 DEF Inv

\* The container of rank 0 goes away and the monitor notices nothing yet.
LEMMA HeadGoneKeepsInv ==
    ASSUME Inv, HeadGone,
           timer' \in TimerStates, faults' \in 0 .. MaxFaults,
           UNCHANGED <<mon, toClear, unreached, gateVars, failcnt, cooling, late>>
    PROVE  Inv'
<1> USE DEF Inv, HeadGone, gateVars
<1>1. TypeOK'
  BY DEF TypeOK
<1>2. ClearedStaysClear' /\ HeadFirst'
  BY DEF TypeOK, ClearedStaysClear, HeadFirst
<1> QED
  BY <1>1, <1>2

LEMMA MonitorKeepsInv == Inv /\ Monitor => Inv'
<1> SUFFICES ASSUME Inv, Monitor PROVE Inv'
  OBVIOUS
<1> USE LimitsAssumption DEF Inv, gateVars, timerVars, historyVars, MonitorExits
<1>1. CASE MonitorFollows \/ FollowEnds
  BY <1>1 DEF MonitorFollows, FollowEnds, TypeOK, ClearedStaysClear, HeadFirst, Running
<1>2. CASE MonitorClears
  BY <1>2 DEF MonitorClears, TypeOK, ClearedStaysClear, HeadFirst, Running
<1>3. ASSUME NEW w \in Workers, ClearWorker(w) PROVE Inv'
  BY <1>3 DEF ClearWorker, TypeOK, ClearedStaysClear, HeadFirst
<1>4. CASE StartHead
  BY <1>4 DEF StartHead, TypeOK, ClearedStaysClear, HeadFirst
<1>5. CASE StoreReady \/ GatePasses
  BY <1>5 DEF StoreReady, GatePasses, TypeOK, ClearedStaysClear, HeadFirst
<1>6. CASE StoreNotReady
  BY <1>6 DEF StoreNotReady, TypeOK, ClearedStaysClear, HeadFirst
<1>7. CASE GateProgress
  <2>1. last' \in Nat
    BY <1>7, ConnectionsType DEF GateProgress
  <2> QED
    BY <1>7, <2>1 DEF GateProgress, TypeOK, ClearedStaysClear, HeadFirst
<1>8. CASE GateNoProgress
  <2>1. abandoned' \in BOOLEAN
    <3>1. CASE abandoned' = Running
      BY <3>1, Zenon DEF Running
    <3>2. CASE UNCHANGED abandoned
      BY <3>2 DEF TypeOK
    <3> QED
      BY <1>8, <3>1, <3>2, Zenon DEF GateNoProgress
  <2>2. mon' \in {"gate", "restarting"} /\ tries' \in 0 .. (StoreTries - 1)
    BY <1>8 DEF GateNoProgress, TypeOK
  <2>3. last' \in Nat /\ noProgress' \in 0 .. (NoProgressLimit - 1)
    BY <1>8 DEF GateNoProgress, TypeOK
  <2>4. UNCHANGED <<head, worker, grace, toClear, unreached, timerVars, late, faults>>
    BY <1>8 DEF GateNoProgress
  <2>5. TypeOK'
    BY <2>1, <2>2, <2>3, <2>4 DEF TypeOK
  <2>6. ClearedStaysClear' /\ HeadFirst'
    BY <2>2, <2>4 DEF ClearedStaysClear, HeadFirst
  <2> QED
    BY <2>5, <2>6
<1> QED
  BY <1>1, <1>2, <1>3, <1>4, <1>5, <1>6, <1>7, <1>8 DEF Monitor

LEMMA TimerKeepsInv == Inv /\ Timer => Inv'
<1> SUFFICES ASSUME Inv, Timer PROVE Inv'
  OBVIOUS
<1> USE DEF Inv, monitorVars, gateVars, historyVars
<1>1. CASE ProbePasses
  BY <1>1 DEF ProbePasses, TypeOK, ClearedStaysClear, HeadFirst
<1>2. CASE ProbeFails
  BY <1>2 DEF ProbeFails, TypeOK, ClearedStaysClear, HeadFirst
<1>4. CASE JudgeLeaves
  BY <1>4 DEF JudgeLeaves, TypeOK, ClearedStaysClear, HeadFirst
<1>5. CASE JudgeUnreachable
  <2>1. UNCHANGED <<head, worker, grace, monitorVars, abandoned, late, faults>>
    BY <1>5 DEF JudgeUnreachable
  <2>2. timer' \in TimerStates /\ failcnt' \in 0 .. 1
    BY <1>5 DEF JudgeUnreachable, TypeOK
  <2>3. cooling' = TRUE \/ UNCHANGED cooling
    BY <1>5, Zenon DEF JudgeUnreachable
  <2>4. cooling' \in BOOLEAN
    BY <2>3 DEF TypeOK
  <2> QED
    BY <2>1, <2>2, <2>4 DEF TypeOK, ClearedStaysClear, HeadFirst
<1>3. CASE TimerRemoves
  <2>1. timer' \in TimerStates /\ faults' \in 0 .. MaxFaults
    BY <1>3 DEF TimerRemoves, TypeOK
  <2> QED
    BY <1>3, <2>1, HeadGoneKeepsInv DEF TimerRemoves
<1> QED
  BY <1>1, <1>2, <1>3, <1>4, <1>5 DEF Timer

\* Rank 0 dies by itself, by its timeout, or by a worker's monitor.
LEMMA HeadLossKeepsInv ==
    ASSUME Inv, HeadExits \/ HeadTimesOut \/ \E w \in Workers : WorkerKillsHead(w)
    PROVE  Inv'
<1>1. faults' \in 0 .. MaxFaults
  BY LimitsAssumption DEF Inv, TypeOK, Fault, HeadExits, HeadTimesOut, WorkerKillsHead
<1>2. HeadGone /\ UNCHANGED <<mon, toClear, unreached, gateVars, timerVars, late>>
  BY DEF HeadExits, HeadTimesOut, WorkerKillsHead
<1>3. timer' \in TimerStates
  BY <1>2 DEF Inv, TypeOK, timerVars
<1> QED
  BY <1>1, <1>2, <1>3, HeadGoneKeepsInv DEF timerVars

LEMMA AfterLossCases ==
    \/ AfterLoss = head
    \/ head = "listening" /\ AfterLoss = "stalled"
    \/ head = "serving" /\ AfterLoss = "hung"
BY Zenon DEF AfterLoss

\* What vLLM and the workers do while rank 0 stays up.
LEMMA RanksKeepInv ==
    ASSUME Inv,
           \/ GraceEnds \/ CooldownEnds \/ StartHeadFails
           \/ HeadListens \/ HeadServes \/ HeadHears \/ HeadHangs \/ HeadDeafens
           \/ \E w \in Workers :
                 \/ ClearFails(w) \/ WorkerExits(w) \/ WorkerStartFails(w)
                 \/ WorkerLaunches(w) \/ WorkerCreates(w)
                 \/ WorkerJoins(w) \/ WorkerTimesOut(w)
    PROVE  Inv'
<1> USE LimitsAssumption DEF Inv, monitorVars, gateVars, timerVars, historyVars, Fault
<1>1. CASE GraceEnds \/ CooldownEnds
  <2>1. faults' \in 0 .. MaxFaults
    BY <1>1 DEF GraceEnds, CooldownEnds, TypeOK
  <2>2. TypeOK'
    BY <1>1, <2>1 DEF GraceEnds, CooldownEnds, TypeOK
  <2>3. ClearedStaysClear' /\ HeadFirst'
    BY <1>1 DEF GraceEnds, CooldownEnds, ClearedStaysClear, HeadFirst
  <2> QED
    BY <2>2, <2>3
<1>2. CASE StartHeadFails
  BY <1>2 DEF StartHeadFails, MonitorExits, TypeOK, ClearedStaysClear, HeadFirst
<1>3. CASE HeadListens \/ HeadServes \/ HeadHears \/ HeadHangs \/ HeadDeafens
  BY <1>3 DEF HeadListens, HeadServes, HeadHears, HeadHangs, HeadDeafens, Becomes,
              TypeOK, ClearedStaysClear, HeadFirst
<1>4. ASSUME NEW w \in Workers, ClearFails(w) PROVE Inv'
  BY <1>4 DEF ClearFails, TypeOK, ClearedStaysClear, HeadFirst
<1>5. ASSUME NEW w \in Workers, WorkerExits(w) PROVE Inv'
  <2>1. \/ head' = head
        \/ head = "listening" /\ head' = "stalled"
        \/ head = "serving" /\ head' = "hung"
    BY <1>5, AfterLossCases DEF WorkerExits
  <2>2. faults' \in 0 .. MaxFaults
    BY <1>5 DEF WorkerExits, TypeOK
  <2>3. worker' = [worker EXCEPT ![w] = "absent"]
    BY <1>5 DEF WorkerExits
  <2>4. UNCHANGED <<grace, monitorVars, timerVars, historyVars>>
    BY <1>5 DEF WorkerExits
  <2> QED
    BY <2>1, <2>2, <2>3, <2>4 DEF TypeOK, ClearedStaysClear, HeadFirst
<1>6. ASSUME NEW w \in Workers, WorkerStartFails(w) PROVE Inv'
  BY <1>6 DEF WorkerStartFails, TypeOK, ClearedStaysClear, HeadFirst
<1>7. ASSUME NEW w \in Workers, WorkerLaunches(w) PROVE Inv'
  BY <1>7 DEF WorkerLaunches, TypeOK, ClearedStaysClear, HeadFirst
<1>8. ASSUME NEW w \in Workers, WorkerCreates(w) PROVE Inv'
  BY <1>8 DEF WorkerCreates, TypeOK, ClearedStaysClear, HeadFirst
<1>9. ASSUME NEW w \in Workers, WorkerJoins(w) \/ WorkerTimesOut(w) PROVE Inv'
  BY <1>9 DEF WorkerJoins, WorkerTimesOut, TypeOK, ClearedStaysClear, HeadFirst
<1> QED
  BY <1>1, <1>2, <1>3, <1>4, <1>5, <1>6, <1>7, <1>8, <1>9

LEMMA InvStep == Inv /\ [Next]_vars => Inv'
<1> SUFFICES ASSUME Inv, [Next]_vars PROVE Inv'
  OBVIOUS
<1>1. CASE Monitor
  BY <1>1, MonitorKeepsInv
<1>2. CASE Timer
  BY <1>2, TimerKeepsInv
<1>3. CASE Environment
  BY <1>3, HeadLossKeepsInv, RanksKeepInv DEF Environment
<1>4. CASE Failure
  BY <1>4, HeadLossKeepsInv, RanksKeepInv DEF Failure
<1>5. CASE UNCHANGED vars
  BY <1>5 DEF vars, monitorVars, gateVars, timerVars, historyVars, Inv, TypeOK,
              ClearedStaysClear, HeadFirst
<1> QED
  BY <1>1, <1>2, <1>3, <1>4, <1>5 DEF Next

LEMMA InvAlways == Spec => []Inv
  BY InvInit, InvStep, PTL DEF Spec

\* Type correctness: the two scripts keep their counters within their limits,
\* whatever happens to the containers (monitor_tp4_head.sh:32-57).
THEOREM RecoveryTypeCorrect == Spec => []TypeOK
<1>1. Inv => TypeOK
  BY DEF Inv
<1> QED
  BY <1>1, InvAlways, PTL

\* Head first: what belonged to an earlier rank 0 meets the next one while it
\* boots only on a host that ssh could not reach, or where start_tp4_worker.sh
\* was between its first line and its docker run when the loop came by
\* (monitor_tp4_head.sh:25-29).
THEOREM HeadStartsFirst == Spec => []HeadFirst
<1>1. Inv => HeadFirst
  BY DEF Inv
<1> QED
  BY <1>1, InvAlways, PTL
===============================================================================
