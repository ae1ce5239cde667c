----------------------------- MODULE ClusterStart -----------------------------
(***************************************************************************)
(* How the TP4 cluster is started by hand: start_tp4_cluster.sh checks the *)
(* hosts, starts rank 0 (start_tp4_head.sh), waits for its TCPStore and    *)
(* starts the other ranks (start_tp4_worker.sh) over ssh.  The scripts it  *)
(* starts run in the background and outlive it: a run that has been given  *)
(* up may still start a container when the next run is under way.          *)
(*                                                                         *)
(* A rank is a host.  What the scripts read and never write is the site:   *)
(* GID tables, RINGONLY library, RoCE port names, the installed checks.    *)
(* It does not change while the model runs, except that a model that is    *)
(* not mounted may be mounted later.  Two polls in a row are one, and a    *)
(* deadline that passes although nothing is wrong takes one unit of the    *)
(* budget MaxFaults, as a failing command does.                            *)
(***************************************************************************)
EXTENDS RoceGid

CONSTANTS
    NumWorkers,     \* ranks 1 .. NumWorkers are workers (3)
    Libs,           \* versions of /opt/nccl-ringonly/libnccl.so.2
    Placements,     \* what the hosts of a cluster can be like
    MaxRuns,        \* bound: runs of start_tp4_cluster.sh
    MaxFaults       \* bound: failures per behaviour

ASSUME RunsAssumption ==
    NumWorkers \in Nat \ {0} /\ MaxRuns \in Nat \ {0} /\ MaxFaults \in Nat
ASSUME LibsAssumption == "NOFILE" \notin Libs

Workers == 1 .. NumWorkers
Ranks   == 0 .. NumWorkers      \* rank 0 is the head
Runs    == 1 .. MaxRuns

\* A host: its GID tables and its library; are the checks installed, are the
\* port names the expected ones, is the model mounted when the model starts?
Sites == [tables : Tables, lib : Libs \cup {"NOFILE"},
          tools : BOOLEAN, names : BOOLEAN, mounted : BOOLEAN]
ASSUME PlacementsAssumption ==
    \A p \in Placements : /\ DOMAIN p = Ranks
                          /\ \A h \in Ranks : p[h] \in Sites

VARIABLES
    site,        \* what the scripts find on each host
    mounted,     \* is the model visible on the host?
    cpc,         \* where the cluster script is, or how its last run ended
    run,         \* which run it is; 0 before the first
    pos,         \* the rank its loop is at
    libs,        \* NODE_MD5: what the ranks checked so far have
    gateFail,    \* cluster_gate_fail
    leaf,        \* the start script of each run on each host
    index,       \* NCCL_IB_GID_INDEX it has decided
    owner,       \* the run whose script started the container; 0: no container
    phase,       \* the container of each rank
    gaveUp,      \* history: has a run ended with exit 1?
    faults       \* failures so far

loopVars      == <<pos, libs, gateFail>>
clusterVars   == <<cpc, run, loopVars, gaveUp>>
leafVars      == <<leaf, index>>
containerVars == <<owner, phase>>
vars == <<site, mounted, clusterVars, leafVars, containerVars, faults>>

Ended       == {"idle", "nogo", "aborted", "ready"}
Starting    == {"head", "store", "recheck", "workers", "exist", "logs"}
ClusterPcs  == Ended \cup {"pre", "clean", "gate"} \cup Starting
LeafStates  == {"off", "decide", "checks", "clear", "create", "created", "failed"}
\* "broken": rank 0 has lost a rank before it served; "lost": a rank whose
\* rank 0 is gone.  "serving": the log holds "Application startup complete".
Phases      == {"absent", "up", "listening", "serving", "broken", "joined", "lost"}

StoreOpen == phase[0] \in {"listening", "serving", "broken"}
Fault == faults < MaxFaults /\ faults' = faults + 1

\* A deadline passes: excused by a reason, a failure otherwise.
Late(reason) == IF reason THEN UNCHANGED faults ELSE Fault

Init ==
    /\ site \in Placements
    /\ mounted = [h \in Ranks |-> site[h].mounted]
    /\ cpc = "idle" /\ run = 0
    /\ pos = 0 /\ libs = {} /\ gateFail = FALSE
    /\ leaf = [r \in Runs |-> [h \in Ranks |-> "off"]]
    /\ index = [r \in Runs |-> [h \in Ranks |-> Dynamic]]
    /\ owner = [h \in Ranks |-> 0]
    /\ phase = [h \in Ranks |-> "absent"]
    /\ gaveUp = FALSE
    /\ faults = 0

\* The container of rank h is removed or exits.
Removed(h) ==
    /\ owner' = [owner EXCEPT ![h] = 0]
    /\ phase' = [g \in Ranks |->
          IF g = h THEN "absent"
          ELSE IF h = 0 /\ phase[g] = "joined" THEN "lost"
          ELSE IF g = 0 /\ phase[h] = "joined" /\ phase[0] = "listening" THEN "broken"
          ELSE phase[g]]

(***************************************************************************)
(* start_tp4_cluster.sh                                                    *)
(***************************************************************************)
\* The operator runs the script, never twice at a time.
Launch ==
    /\ cpc \in Ended /\ run < MaxRuns
    /\ cpc' = "pre" /\ run' = run + 1
    /\ UNCHANGED <<site, mounted, loopVars, gaveUp, leafVars, containerVars, faults>>

\* A script that stops with exit 1.
Aborts == cpc' = "aborted" /\ gaveUp' = TRUE

\* Mounts, GPU, self-checks of the scripts.
Preconditions ==
    /\ cpc = "pre"
    /\ \/ cpc' = "clean" /\ pos' = 0 /\ UNCHANGED <<gaveUp, faults>>
       \/ Fault /\ Aborts /\ UNCHANGED pos
    /\ UNCHANGED <<site, mounted, run, libs, gateFail, leafVars, containerVars>>

\* Mutant: the last rank is forgotten.
CleanRankButLast ==
    /\ cpc = "clean" /\ pos \in Ranks
    /\ IF pos < NumWorkers THEN Removed(pos) ELSE UNCHANGED containerVars
    /\ pos' = pos + 1
    /\ UNCHANGED <<site, mounted, cpc, run, libs, gateFail, gaveUp, leafVars, faults>>

\* docker rm -f on every host; an ssh that fails is not noticed.
CleanRank ==
    /\ cpc = "clean" /\ pos \in Ranks
    /\ \/ Removed(pos) /\ UNCHANGED faults
       \/ pos \in Workers /\ Fault /\ UNCHANGED containerVars
    /\ pos' = pos + 1
    /\ UNCHANGED <<site, mounted, cpc, run, libs, gateFail, gaveUp, leafVars>>

\* Port 8002 must be free, and the gateway must listen on 8001.
CheckPorts ==
    /\ cpc = "clean" /\ pos \notin Ranks
    /\ \/ /\ phase[0] # "serving"
          /\ cpc' = "gate" /\ pos' = 0
          /\ libs' = {} /\ gateFail' = FALSE
          /\ UNCHANGED <<gaveUp, faults>>
       \/ Late(phase[0] = "serving") /\ Aborts /\ UNCHANGED loopVars
    /\ UNCHANGED <<site, mounted, run, leafVars, containerVars>>

\* Step 0 for one rank: hole scan, preflight, checksum of the library.  A
\* missing preflight (rc 255) is let through; an ssh that fails is not.
CheckRank ==
    /\ cpc = "gate" /\ pos \in Ranks
    /\ \/ /\ gateFail' = \/ gateFail
                         \/ HoleInWindow(site[pos].tables)
                         \/ site[pos].tools /\ Preflight(site[pos].tables, Dynamic) = 3
          /\ libs' = libs \cup {site[pos].lib}
          /\ UNCHANGED faults
       \/ /\ pos \in Workers /\ Fault
          /\ gateFail' = TRUE
          /\ UNCHANGED libs
    /\ pos' = pos + 1
    /\ UNCHANGED <<site, mounted, cpc, run, gaveUp, leafVars, containerVars>>

\* Mutant: a rank without the library is filtered out of the comparison.
SomeLibsDiffer(found) == \E a, b \in found \ {"NOFILE"} : a # b

LibsDiffer(found) == "NOFILE" \in found \/ \E a, b \in found : a # b

JudgeGate ==
    /\ cpc = "gate" /\ pos \notin Ranks
    /\ cpc' = IF gateFail \/ LibsDiffer(libs) THEN "nogo" ELSE "head"
    /\ UNCHANGED <<site, mounted, run, loopVars, gaveUp, leafVars, containerVars, faults>>

StartHead ==
    /\ cpc = "head"
    /\ cpc' = "store"
    /\ leaf' = [leaf EXCEPT ![run][0] = "decide"]
    /\ UNCHANGED <<site, mounted, run, loopVars, gaveUp, index, containerVars, faults>>

\* Mutant: the workers wait for the log of an engine that waits for them.
AwaitEngine ==
    /\ \/ cpc = "store" /\ StoreOpen /\ cpc' = "recheck" /\ UNCHANGED pos
       \/ cpc = "recheck" /\ phase[0] = "serving" /\ cpc' = "workers" /\ pos' = 1
    /\ UNCHANGED <<site, mounted, run, libs, gateFail, gaveUp, leafVars, containerVars, faults>>

\* Steps 2 and 2.5: port 25999 listens, and listens again.
AwaitStore ==
    /\ StoreOpen
    /\ \/ cpc = "store" /\ cpc' = "recheck" /\ UNCHANGED pos
       \/ cpc = "recheck" /\ cpc' = "workers" /\ pos' = 1
    /\ UNCHANGED <<site, mounted, run, libs, gateFail, gaveUp, leafVars, containerVars, faults>>

\* 600 s, then 300 s, or the head's log reports a failed engine.
StoreLate ==
    /\ cpc \in {"store", "recheck"} /\ ~StoreOpen
    /\ Late(leaf[run][0] = "failed")
    /\ Aborts
    /\ UNCHANGED <<site, mounted, run, loopVars, leafVars, containerVars>>

\* Step 3, one worker after the other; an ssh that fails is not noticed.
StartWorker ==
    /\ cpc = "workers" /\ pos \in Workers
    /\ \/ leaf' = [leaf EXCEPT ![run][pos] = "decide"] /\ UNCHANGED faults
       \/ Fault /\ UNCHANGED leaf
    /\ pos' = pos + 1
    /\ UNCHANGED <<site, mounted, cpc, run, libs, gateFail, gaveUp, index, containerVars>>

WorkersStarted ==
    /\ cpc = "workers" /\ pos \notin Workers
    /\ cpc' = "exist" /\ pos' = 1
    /\ UNCHANGED <<site, mounted, run, libs, gateFail, gaveUp, leafVars, containerVars, faults>>

\* Step 4: docker ps lists the container of the rank.
AwaitContainer ==
    /\ cpc = "exist"
    /\ \/ pos \in Workers /\ owner[pos] # 0 /\ pos' = pos + 1 /\ UNCHANGED cpc
       \/ pos \notin Workers /\ cpc' = "logs" /\ UNCHANGED pos
    /\ UNCHANGED <<site, mounted, run, libs, gateFail, gaveUp, leafVars, containerVars, faults>>

\* 120 s, while the worker's script waits for its model for up to 300 s.
ContainerLate ==
    /\ cpc = "exist" /\ pos \in Workers /\ owner[pos] = 0
    /\ Late(leaf[run][pos] \in {"off", "failed"} \/ ~mounted[pos])
    /\ Aborts
    /\ UNCHANGED <<site, mounted, run, loopVars, leafVars, containerVars>>

\* Mutant: an open TCPStore is taken for readiness.
AwaitReadyEarly ==
    /\ cpc = "logs" /\ StoreOpen
    /\ cpc' = "ready"
    /\ UNCHANGED <<site, mounted, run, loopVars, gaveUp, leafVars, containerVars, faults>>

\* docker logs of rank 0 holds "Application startup complete".
AwaitReady ==
    /\ cpc = "logs" /\ phase[0] = "serving"
    /\ cpc' = "ready"
    /\ UNCHANGED <<site, mounted, run, loopVars, gaveUp, leafVars, containerVars, faults>>

ReadyLate ==
    /\ cpc = "logs" /\ phase[0] # "serving"
    /\ Late(phase[0] \in {"absent", "broken"} \/ \E w \in Workers : phase[w] \in {"absent", "lost"})
    /\ Aborts
    /\ UNCHANGED <<site, mounted, run, loopVars, leafVars, containerVars>>

ClusterStep ==
    \/ Preconditions \/ CleanRank \/ CheckPorts \/ CheckRank \/ JudgeGate
    \/ StartHead \/ AwaitStore \/ StartWorker \/ WorkersStarted
    \/ AwaitContainer \/ AwaitReady

Deadlines == StoreLate \/ ContainerLate \/ ReadyLate

(***************************************************************************)
(* start_tp4_head.sh and start_tp4_worker.sh, started by run r on host h.  *)
(***************************************************************************)
\* source gid_index_env.sh; without the probe the index is dynamic.
Decide(r, h) ==
    /\ leaf[r][h] = "decide"
    /\ leaf' = [leaf EXCEPT ![r][h] = "checks"]
    /\ index' = [index EXCEPT ![r][h] =
                    IF site[h].tools THEN GidIndexEnv(site[h].tables) ELSE Dynamic]
    /\ UNCHANGED <<site, mounted, clusterVars, containerVars, faults>>

\* What stops the script before docker: port names (workers, exit 4), the
\* missing checks (exit 3), a probe that finds no /sys/class/infiniband (exit
\* 1, its output has no line to grep).  The preflight does not: `if ! cmd; then
\* RC=$?' reads 0, and the branch for exit codes 3 and 4 is never taken.
Blocked(h) ==
    \/ h \in Workers /\ (site[h].tables = <<>> \/ ~site[h].names)
    \/ ~site[h].tools
    \/ site[h].tables = <<>>

Checks(r, h) ==
    /\ leaf[r][h] = "checks"
    /\ h \in Workers => mounted[h]
    /\ \/ /\ leaf' = [leaf EXCEPT ![r][h] = IF Blocked(h) THEN "failed" ELSE "clear"]
          /\ UNCHANGED faults
       \/ Fault /\ leaf' = [leaf EXCEPT ![r][h] = "failed"]
    /\ UNCHANGED <<site, mounted, clusterVars, index, containerVars>>

\* "D1": 300 s without the model, exit 2.
ModelLate(r, h) ==
    /\ leaf[r][h] = "checks" /\ h \in Workers /\ ~mounted[h]
    /\ leaf' = [leaf EXCEPT ![r][h] = "failed"]
    /\ UNCHANGED <<site, mounted, clusterVars, index, containerVars, faults>>

ClearName(r, h) ==
    /\ leaf[r][h] = "clear"
    /\ leaf' = [leaf EXCEPT ![r][h] = "create"]
    /\ Removed(h)
    /\ UNCHANGED <<site, mounted, clusterVars, index, faults>>

\* docker run fails when the name is taken again.
Create(r, h) ==
    /\ leaf[r][h] = "create"
    /\ IF owner[h] = 0
       THEN /\ leaf' = [leaf EXCEPT ![r][h] = "created"]
            /\ owner' = [owner EXCEPT ![h] = r]
            /\ phase' = [phase EXCEPT ![h] = "up"]
       ELSE /\ leaf' = [leaf EXCEPT ![r][h] = "failed"]
            /\ UNCHANGED containerVars
    /\ UNCHANGED <<site, mounted, clusterVars, index, faults>>

LeafStep(r, h) == Decide(r, h) \/ Checks(r, h) \/ ClearName(r, h) \/ Create(r, h)

(***************************************************************************)
(* Docker, vLLM and the hosts.                                             *)
(***************************************************************************)
HeadListens ==
    /\ phase[0] = "up"
    /\ phase' = [phase EXCEPT ![0] = "listening"]
    /\ UNCHANGED <<site, mounted, clusterVars, leafVars, owner, faults>>

WorkerJoins(w) ==
    /\ phase[w] = "up" /\ phase[0] = "listening"
    /\ phase' = [phase EXCEPT ![w] = "joined"]
    /\ UNCHANGED <<site, mounted, clusterVars, leafVars, owner, faults>>

HeadServes ==
    /\ phase[0] = "listening" /\ \A w \in Workers : phase[w] = "joined"
    /\ phase' = [phase EXCEPT ![0] = "serving"]
    /\ UNCHANGED <<site, mounted, clusterVars, leafVars, owner, faults>>

ContainerExits(h) ==
    /\ owner[h] # 0
    /\ Fault
    /\ Removed(h)
    /\ UNCHANGED <<site, mounted, clusterVars, leafVars>>

ModelMounted(w) ==
    /\ ~mounted[w]
    /\ mounted' = [mounted EXCEPT ![w] = TRUE]
    /\ UNCHANGED <<site, clusterVars, leafVars, containerVars, faults>>

Engines == HeadListens \/ HeadServes \/ \E w \in Workers : WorkerJoins(w)

Next ==
    \/ Launch \/ ClusterStep \/ Deadlines
    \/ \E r \in Runs, h \in Ranks : LeafStep(r, h) \/ ModelLate(r, h)
    \/ Engines
    \/ \E h \in Ranks : ContainerExits(h)
    \/ \E w \in Workers : ModelMounted(w)

Spec == Init /\ [][Next]_vars

\* Scripts run, engines come up.  Nobody need launch, fail or mount.
FairSpec ==
    /\ Spec
    /\ WF_vars(ClusterStep) /\ WF_vars(Engines)
    /\ \A r \in Runs, h \in Ranks : WF_vars(LeafStep(r, h))

(***************************************************************************)
(* Properties.                                                             *)
(***************************************************************************)
\* What the gate lets through: no hole in slots 0 .. 3 of any host, a RoCE v2
\* GID where the preflight is installed, one library on all.
HostGo(h) ==
    /\ ~HoleInWindow(site[h].tables)
    /\ site[h].tools => V2InWindow(site[h].tables)
SiteGo ==
    \A h \in Ranks : HostGo(h) /\ site[h].lib # "NOFILE" /\ site[h].lib = site[0].lib

\* The variables have their types.
TypeOK ==
    /\ site \in Placements /\ mounted \in [Ranks -> BOOLEAN]
    /\ cpc \in ClusterPcs /\ run \in 0 .. MaxRuns
    /\ pos \in 0 .. NumWorkers + 1
    /\ libs \subseteq Libs \cup {"NOFILE"}
    /\ gateFail \in BOOLEAN /\ gaveUp \in BOOLEAN
    /\ leaf \in [Runs -> [Ranks -> LeafStates]]
    /\ index \in [Runs -> [Ranks -> Slots \cup {Dynamic}]]
    /\ owner \in [Ranks -> 0 .. MaxRuns]
    /\ phase \in [Ranks -> Phases]
    /\ faults \in 0 .. MaxFaults

\* No start script runs, in this run or a later one, unless every host of the
\* cluster passed the consistency gate of step 0.
GateHolds ==
    \A r \in Runs, h \in Ranks : leaf[r][h] # "off" => SiteGo

\* A container is never given an index at which a port of its host has a hole
\* or no port has a RoCE v2 GID (the hang of the cloned cluster).
InjectedIndexSafe ==
    \A h \in Ranks : owner[h] # 0 => SafeIndex(site[h].tables, index[owner[h]][h])

\* Past its clean-up a run finds no container of an earlier run, unless one of
\* them gave up (its scripts may still be waiting) or a command failed.
OnlyThisRun ==
    faults = 0 /\ ~gaveUp /\ cpc \in {"gate"} \cup Starting =>
        \A h \in Ranks : owner[h] \in {0, run}

\* A run reports READY only when each rank is in a container of this run and
\* has joined, unless a command failed or an earlier run gave up.
ReadyIsWhole ==
    faults = 0 /\ ~gaveUp /\ cpc = "ready" =>
        /\ \A h \in Ranks : owner[h] = run
        /\ \A w \in Workers : phase[w] = "joined"

\* "on any anomaly exit 3 (No-Go), never create the container first": a host
\* with a container passed the preflight of its start script.
NoGoNeverStarts ==
    \A h \in Ranks :
        owner[h] # 0 => Preflight(site[h].tables, Suggest(site[h].tables)) = 0

\* The first start of hosts that are in order comes to READY: the head does
\* not wait for workers that wait for the head.
InOrder ==
    /\ SiteGo
    /\ \A h \in Ranks : /\ site[h].tools /\ site[h].names /\ site[h].mounted
                        /\ site[h].tables # <<>>
FirstStartCompletes ==
    (run = 1 /\ InOrder) ~> (cpc = "ready" \/ faults > 0)
===============================================================================
