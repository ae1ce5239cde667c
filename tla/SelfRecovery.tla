----------------------------- MODULE SelfRecovery -----------------------------
(***************************************************************************)
(* How the TP4 cluster comes back after a failure.  On the head host two   *)
(* scripts watch the container of rank 0, without knowing of each other:   *)
(*                                                                         *)
(*   - the monitor (monitor_tp4_head.sh), which systemd restarts whenever  *)
(*     it exits: it follows a running rank 0 with `docker wait', or else   *)
(*     removes the worker containers, starts rank 0 and waits for ranks;   *)
(*   - the health timer (healthcheck-rebuild.sh, once a minute), which     *)
(*     probes rank 0 (healthcheck_hardened.sh) and removes its container   *)
(*     when it finds it unreachable.                                       *)
(*                                                                         *)
(* On a worker host a monitor that is not in the repository launches       *)
(* start_tp4_worker.sh, which may take minutes before its docker run.      *)
(*                                                                         *)
(* vLLM, Docker and the workers' monitors are external: they are modelled  *)
(* by what the scripts see of them.  Time is abstracted: a poll may    *)
(* find anything that has happened, a wait may end at any moment, and what *)
(* the deployment calls a failure takes one unit of the budget MaxFaults.  *)
(***************************************************************************)
EXTENDS Naturals, FiniteSets

CONSTANTS
    Workers,          \* the hosts of ranks 1 .. 3
    OwnSockets,       \* sockets of rank 0 itself that ss lists on MASTER_PORT
    StoreTries,       \* polls of the TCPStore port before the monitor gives up (60)
    NoProgressLimit,  \* polls without a new rank before the gate gives up (12)
    MaxFaults         \* bound: failures per behaviour

ASSUME WorkersAssumption == IsFiniteSet(Workers)
ASSUME LimitsAssumption ==
    /\ OwnSockets \in Nat /\ MaxFaults \in Nat
    /\ StoreTries \in Nat \ {0} /\ NoProgressLimit \in Nat \ {0}

VARIABLES
    head,        \* the container of rank 0
    worker,      \* the container of each worker, or the script that starts it
    grace,       \* is the container of rank 0 younger than GRACE_SECONDS?
    mon,         \* where the monitor is; "restarting" while systemd waits RestartSec
    toClear,     \* hosts its ssh loop still has to visit
    tries,       \* polls of the TCPStore port so far
    last,        \* LAST: most connections seen
    noProgress,  \* NO_PROGRESS
    timer,       \* where the health timer's run is
    failcnt,     \* the file healthcheck-rebuild.head.failcnt
    cooling,     \* is the last removal less than COOLDOWN ago?
    faults,      \* failures so far
    abandoned,   \* history: has the gate given this rank 0 up?
    unreached,   \* history: hosts whose ssh failed in this round
    late         \* history: hosts it visited while a start script ran

gateVars    == <<tries, last, noProgress>>
monitorVars == <<mon, toClear, unreached, gateVars>>
timerVars   == <<timer, failcnt, cooling>>
historyVars == <<abandoned, late>>
vars == <<head, worker, grace, monitorVars, timerVars, historyVars, faults>>

(* Rank 0 is "absent" (exited or removed), "booting" until its TCPStore    *)
(* listens, "listening" until every rank has joined, "serving"; "hung"     *)
(* when /health still answers and nothing is generated; "deaf" when the    *)
(* container runs and /health does not answer; "stalled" when it has lost  *)
(* a rank before it served.                                                *)
HeadStates == {"absent", "booting", "listening", "serving", "hung", "deaf", "stalled"}
ColdStart  == {"booting", "listening", "stalled"}   \* no "Application startup complete" yet
Answering  == {"serving", "hung"}                   \* 8002/health is 200
StoreOpen  == HeadStates \ {"absent", "booting"}

\* "starting": start_tp4_worker.sh runs and has not created the container;
\* "stale": a rank of a rank 0 that is gone.
Containers    == {"joining", "joined", "stale"}
WorkerStates  == {"absent", "starting"} \cup Containers
MonitorStates == {"restarting", "follow", "clearing", "waitStore", "gate"}
TimerStates   == {"idle", "judging", "removing"}

Running == head # "absent"
Joined  == {w \in Workers : worker[w] = "joined"}

\* ss -tn state established | grep -c ":25999 "
Connections == IF head \in StoreOpen THEN OwnSockets + Cardinality(Joined) ELSE 0

Fault == faults < MaxFaults /\ faults' = faults + 1

Init ==
    /\ head = "absent"
    /\ worker = [w \in Workers |-> "absent"]
    /\ grace = FALSE
    /\ mon = "restarting"
    /\ toClear = {} /\ unreached = {}
    /\ tries = 0 /\ last = 0 /\ noProgress = 0
    /\ timer = "idle"
    /\ failcnt = 0
    /\ cooling = FALSE
    /\ faults = 0
    /\ abandoned = FALSE /\ late = {}

\* The container of rank 0 is gone: its ranks have lost their world.
HeadGone ==
    /\ head' = "absent"
    /\ worker' = [w \in Workers |-> IF worker[w] = "joined" THEN "stale" ELSE worker[w]]
    /\ grace' = FALSE
    /\ abandoned' = FALSE

(***************************************************************************)
(* The monitor of rank 0.                                                  *)
(***************************************************************************)
MonitorExits ==
    /\ mon' = "restarting"
    /\ tries' = 0 /\ last' = 0 /\ noProgress' = 0

\* docker ps lists rank 0: follow it.
MonitorFollows ==
    /\ mon = "restarting" /\ Running
    /\ mon' = "follow"
    /\ UNCHANGED <<head, worker, grace, toClear, unreached, gateVars, timerVars, historyVars, faults>>

MonitorClears ==
    /\ mon = "restarting" /\ ~Running
    /\ mon' = "clearing"
    /\ toClear' = Workers
    /\ unreached' = {} /\ late' = {}
    /\ UNCHANGED <<head, worker, grace, gateVars, timerVars, abandoned, faults>>

\* docker wait returns.
FollowEnds ==
    /\ mon = "follow" /\ ~Running
    /\ MonitorExits
    /\ UNCHANGED <<head, worker, grace, toClear, unreached, timerVars, historyVars, faults>>

\* docker rm -f removes a container; a start script that runs goes on.
ClearWorker(w) ==
    /\ mon = "clearing" /\ w \in toClear
    /\ toClear' = toClear \ {w}
    /\ IF worker[w] = "starting"
       THEN late' = late \cup {w} /\ UNCHANGED worker
       ELSE worker' = [worker EXCEPT ![w] = "absent"] /\ UNCHANGED late
    /\ UNCHANGED <<head, grace, mon, unreached, gateVars, timerVars, abandoned, faults>>

\* ssh ... || true
ClearFails(w) ==
    /\ mon = "clearing" /\ w \in toClear
    /\ Fault
    /\ toClear' = toClear \ {w}
    /\ unreached' = unreached \cup {w}
    /\ UNCHANGED <<head, worker, grace, mon, gateVars, timerVars, historyVars>>

\* Mutant: the ssh commands run in the background.
StartHeadEarly ==
    /\ mon = "clearing"
    /\ mon' = "waitStore"
    /\ head' = "booting"
    /\ grace' = TRUE
    /\ toClear' = {}
    /\ UNCHANGED <<worker, unreached, gateVars, timerVars, historyVars, faults>>

\* NO_WAIT=1 start_tp4_head.sh
StartHead ==
    /\ mon = "clearing" /\ toClear = {}
    /\ mon' = "waitStore"
    /\ head' = "booting"
    /\ grace' = TRUE
    /\ UNCHANGED <<worker, toClear, unreached, gateVars, timerVars, historyVars, faults>>

\* start_tp4_head.sh || exit 1
StartHeadFails ==
    /\ mon = "clearing" /\ toClear = {}
    /\ Fault
    /\ MonitorExits
    /\ UNCHANGED <<head, worker, grace, toClear, unreached, timerVars, historyVars>>

StoreReady ==
    /\ mon = "waitStore" /\ head \in StoreOpen
    /\ mon' = "gate"
    /\ tries' = 0
    /\ UNCHANGED <<head, worker, grace, toClear, unreached, last, noProgress, timerVars, historyVars, faults>>

\* The port is closed; on the last try the monitor exits and leaves rank 0.
StoreNotReady ==
    /\ mon = "waitStore" /\ head \notin StoreOpen
    /\ IF tries + 1 = StoreTries
       THEN MonitorExits
       ELSE tries' = tries + 1 /\ UNCHANGED <<mon, last, noProgress>>
    /\ UNCHANGED <<head, worker, grace, toClear, unreached, timerVars, historyVars, faults>>

\* "D3": every rank is connected, and the monitor goes on to docker wait.
GatePasses ==
    /\ mon = "gate" /\ Connections >= Cardinality(Workers)
    /\ mon' = "follow"
    /\ last' = 0 /\ noProgress' = 0
    /\ UNCHANGED <<head, worker, grace, toClear, unreached, tries, timerVars, historyVars, faults>>

GateProgress ==
    /\ mon = "gate" /\ Connections < Cardinality(Workers)
    /\ Connections > last
    /\ last' = Connections
    /\ noProgress' = 0
    /\ UNCHANGED <<head, worker, grace, mon, toClear, unreached, tries, timerVars, historyVars, faults>>

\* Mutant: the test is -gt, so the counter passes its limit.
GateNoProgressOff ==
    /\ mon = "gate" /\ Connections < Cardinality(Workers)
    /\ Connections <= last
    /\ IF noProgress + 1 > NoProgressLimit
       THEN MonitorExits /\ abandoned' = Running
       ELSE noProgress' = noProgress + 1 /\ UNCHANGED <<mon, tries, last, abandoned>>
    /\ UNCHANGED <<head, worker, grace, toClear, unreached, timerVars, late, faults>>

\* Mutant: the gate waits for ever.
GateNoProgressForever ==
    /\ mon = "gate" /\ Connections < Cardinality(Workers)
    /\ Connections <= last
    /\ UNCHANGED vars

\* Twelve polls without a new rank: the monitor exits and leaves rank 0.
GateNoProgress ==
    /\ mon = "gate" /\ Connections < Cardinality(Workers)
    /\ Connections <= last
    /\ IF noProgress + 1 >= NoProgressLimit
       THEN MonitorExits /\ abandoned' = Running
       ELSE noProgress' = noProgress + 1 /\ UNCHANGED <<mon, tries, last, abandoned>>
    /\ UNCHANGED <<head, worker, grace, toClear, unreached, timerVars, late, faults>>

Monitor ==
    \/ MonitorFollows \/ MonitorClears \/ FollowEnds
    \/ \E w \in Workers : ClearWorker(w)
    \/ StartHead \/ StoreReady \/ StoreNotReady
    \/ GatePasses \/ GateProgress \/ GateNoProgress

(***************************************************************************)
(* The health timer, --role head.                                          *)
(***************************************************************************)
\* In its grace a container without the ready mark is healthy.
InGrace == grace /\ head \in ColdStart

\* A serving engine answers in time, unless it is busy.
ProbePasses ==
    /\ timer = "idle"
    /\ InGrace \/ head = "serving"
    /\ failcnt' = 0
    /\ UNCHANGED <<head, worker, grace, monitorVars, timer, cooling, historyVars, faults>>

ProbeFails ==
    /\ timer = "idle"
    /\ ~InGrace
    /\ timer' = "judging"
    /\ UNCHANGED <<head, worker, grace, monitorVars, failcnt, cooling, historyVars, faults>>

\* The last removal is recent, or 8002 answers (BUSY): failcnt stays as it is.
JudgeLeaves ==
    /\ timer = "judging"
    /\ cooling \/ head \in Answering
    /\ timer' = "idle"
    /\ UNCHANGED <<head, worker, grace, monitorVars, failcnt, cooling, historyVars, faults>>

\* Mutant: the counter is cleared instead of written back.
JudgeForgets ==
    /\ timer = "judging"
    /\ ~cooling /\ head \notin Answering
    /\ timer' = "idle"
    /\ failcnt' = 0
    /\ UNCHANGED <<head, worker, grace, monitorVars, cooling, historyVars, faults>>

\* 8002 does not answer: the second time, write the state files and remove.
JudgeUnreachable ==
    /\ timer = "judging"
    /\ ~cooling /\ head \notin Answering
    /\ IF failcnt + 1 < 2
       THEN /\ failcnt' = failcnt + 1
            /\ timer' = "idle"
            /\ UNCHANGED cooling
       ELSE /\ failcnt' = 0
            /\ cooling' = TRUE
            /\ timer' = "removing"
    /\ UNCHANGED <<head, worker, grace, monitorVars, historyVars, faults>>

\* docker rm -f of whatever rank 0 there is now.
TimerRemoves ==
    /\ timer = "removing"
    /\ HeadGone
    /\ timer' = "idle"
    /\ UNCHANGED <<mon, toClear, unreached, gateVars, failcnt, cooling, late, faults>>

Timer == ProbePasses \/ ProbeFails \/ JudgeLeaves \/ JudgeUnreachable \/ TimerRemoves

(***************************************************************************)
(* Time.  A cold start is shorter than GRACE_SECONDS (900), and COOLDOWN   *)
(* (1800) is longer than a cold start: what breaks this is a failure.      *)
(***************************************************************************)
GraceEnds ==
    /\ grace
    /\ IF head \in {"booting", "listening"} THEN Fault ELSE UNCHANGED faults
    /\ grace' = FALSE
    /\ UNCHANGED <<head, worker, monitorVars, timerVars, historyVars>>

CooldownEnds ==
    /\ cooling
    /\ IF head \in {"absent", "booting", "listening"} THEN Fault ELSE UNCHANGED faults
    /\ cooling' = FALSE
    /\ UNCHANGED <<head, worker, grace, monitorVars, timer, failcnt, historyVars>>

(***************************************************************************)
(* vLLM and the workers' monitors.                                         *)
(***************************************************************************)
Becomes(from, to) ==
    /\ head = from
    /\ head' = to
    /\ UNCHANGED <<worker, grace, monitorVars, timerVars, historyVars>>

\* The round is over, and with it the history of its ssh loop.
HeadListens ==
    /\ head = "booting"
    /\ head' = "listening"
    /\ unreached' = {} /\ late' = {}
    /\ UNCHANGED <<worker, grace, mon, toClear, gateVars, timerVars, abandoned, faults>>

HeadServes  == Joined = Workers /\ Becomes("listening", "serving") /\ UNCHANGED faults
HeadHangs   == Becomes("serving", "hung") /\ Fault
HeadDeafens == Becomes("serving", "deaf") /\ Fault
HeadHears   == Becomes("deaf", "serving") /\ Joined = Workers /\ UNCHANGED faults

HeadExits ==
    /\ Running
    /\ Fault
    /\ HeadGone
    /\ UNCHANGED <<mon, toClear, unreached, gateVars, timerVars, late>>

\* --distributed-timeout-seconds: a rank 0 that waits for a lost rank exits.
HeadTimesOut ==
    /\ head \in {"hung", "stalled"}
    /\ HeadGone
    /\ UNCHANGED <<mon, toClear, unreached, gateVars, timerVars, late, faults>>

WorkerJoins(w) ==
    /\ worker[w] = "joining" /\ head = "listening"
    /\ worker' = [worker EXCEPT ![w] = "joined"]
    /\ UNCHANGED <<head, grace, monitorVars, timerVars, historyVars, faults>>

\* What rank 0 becomes when it loses a rank.
AfterLoss ==
    CASE head = "listening" -> "stalled"
      [] head = "serving"   -> "hung"
      [] OTHER              -> head

WorkerExits(w) ==
    /\ worker[w] \in Containers
    /\ Fault
    /\ worker' = [worker EXCEPT ![w] = "absent"]
    /\ head' = IF worker[w] = "joined" THEN AfterLoss ELSE head
    /\ UNCHANGED <<grace, monitorVars, timerVars, historyVars>>

\* A rank of a world that is gone, or that cannot join, exits in the end.
WorkerTimesOut(w) ==
    /\ \/ worker[w] = "stale"
       \/ worker[w] = "joining" /\ head # "listening"
    /\ worker' = [worker EXCEPT ![w] = "absent"]
    /\ UNCHANGED <<head, grace, monitorVars, timerVars, historyVars, faults>>

\* monitor_tp4_worker.sh: the container is gone and TCPStore listens.
WorkerLaunches(w) ==
    /\ worker[w] = "absent" /\ head \in StoreOpen
    /\ worker' = [worker EXCEPT ![w] = "starting"]
    /\ UNCHANGED <<head, grace, monitorVars, timerVars, historyVars, faults>>

\* start_tp4_worker.sh has found its model (it waits up to 300 s) and passed
\* its checks: docker run, whatever has become of rank 0 meanwhile.
WorkerCreates(w) ==
    /\ worker[w] = "starting"
    /\ worker' = [worker EXCEPT ![w] = "joining"]
    /\ UNCHANGED <<head, grace, monitorVars, timerVars, historyVars, faults>>

\* No model after 300 s, or a check or the preflight says No-Go.
WorkerStartFails(w) ==
    /\ worker[w] = "starting"
    /\ Fault
    /\ worker' = [worker EXCEPT ![w] = "absent"]
    /\ UNCHANGED <<head, grace, monitorVars, timerVars, historyVars>>

\* monitor_tp4_worker.sh: the container is gone and the head's API answers.
WorkerKillsHead(w) ==
    /\ worker[w] = "absent" /\ head \in Answering
    /\ HeadGone
    /\ UNCHANGED <<mon, toClear, unreached, gateVars, timerVars, late, faults>>

Failure ==
    \/ \E w \in Workers : ClearFails(w) \/ WorkerExits(w) \/ WorkerStartFails(w)
    \/ StartHeadFails \/ HeadHangs \/ HeadDeafens \/ HeadExits

Environment ==
    \/ GraceEnds \/ CooldownEnds
    \/ HeadListens \/ HeadServes \/ HeadHears \/ HeadTimesOut
    \/ \E w \in Workers :
          \/ WorkerLaunches(w) \/ WorkerCreates(w) \/ WorkerJoins(w)
          \/ WorkerTimesOut(w) \/ WorkerKillsHead(w)

Next == Monitor \/ Timer \/ Environment \/ Failure

Spec == Init /\ [][Next]_vars

(* The scripts run when they can: systemd restarts the monitor, the timer  *)
(* fires every minute, and each command returns (ssh and curl have         *)
(* timeouts).  vLLM boots, joins and times out.  Nothing is assumed of     *)
(* failures, of a deaf engine that hears again, or of a worker's monitor   *)
(* that could also kill rank 0.                                            *)
Fairness ==
    /\ WF_vars(Monitor)
    /\ WF_vars(ProbePasses \/ ProbeFails) /\ WF_vars(JudgeLeaves \/ JudgeUnreachable)
    /\ WF_vars(TimerRemoves)
    /\ WF_vars(CooldownEnds)
    /\ WF_vars(HeadListens) /\ WF_vars(HeadServes) /\ WF_vars(HeadTimesOut)
    /\ \A w \in Workers :
          /\ WF_vars(WorkerLaunches(w)) /\ WF_vars(WorkerCreates(w))
          /\ WF_vars(WorkerJoins(w)) /\ WF_vars(WorkerTimesOut(w))

FairSpec == Spec /\ Fairness

(***************************************************************************)
(* Properties.                                                             *)
(***************************************************************************)

\* Every variable keeps its type; in particular the gate's counters stay
\* below their limits and failcnt is 0 or 1 between two runs of the timer.
TypeOK ==
    /\ head \in HeadStates
    /\ worker \in [Workers -> WorkerStates]
    /\ grace \in BOOLEAN /\ abandoned \in BOOLEAN
    /\ cooling \in BOOLEAN
    /\ mon \in MonitorStates
    /\ toClear \subseteq Workers /\ unreached \subseteq Workers /\ late \subseteq Workers
    /\ tries \in 0 .. (StoreTries - 1)
    /\ last \in Nat /\ noProgress \in 0 .. (NoProgressLimit - 1)
    /\ timer \in TimerStates
    /\ failcnt \in 0 .. 1
    /\ faults \in 0 .. MaxFaults

\* Head first (monitor_tp4_head.sh:14): while a new rank 0 boots, no worker
\* container runs or is being started that could register with it out of turn,
\* but on a host whose ssh failed or where a start script was already running
\* when the loop came by; whatever failed before, and wherever.
HeadFirst ==
    head = "booting" => {w \in Workers : worker[w] # "absent"} \subseteq unreached \cup late

\* The recovery chain (self-recovery.md:3): when failures stop, the cluster
\* serves again, with every rank registered with the present rank 0.
Recovers == []<>(head = "serving" /\ Joined = Workers)

\* A rank 0 whose API is dead does not stay (the timer's purpose; docker
\* wait cannot see it).
DeafRebuilt == head = "deaf" ~> head # "deaf"

\* monitor_tp4_head.sh:15-16: a gate that gives up triggers a full rebuild,
\* head first; so the monitor never goes back to following that rank 0.
AbandonedHeadRebuilt == mon = "follow" => ~abandoned
===============================================================================
