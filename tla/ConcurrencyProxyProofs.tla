----------------------- MODULE ConcurrencyProxyProofs -----------------------
(***************************************************************************)
(* Proofs about the gateway, for every set of clients, every concurrency   *)
(* and every queue size.  The inductive invariant says where a request can *)
(* be: its task is queued, or held by one worker, or done, and where its   *)
(* handler is tells which of these are possible.                           *)
(***************************************************************************)
EXTENDS ConcurrencyProxy, FiniteSetTheorems, SequenceTheorems, TLAPS

Held == {wtask[w] : w \in Busy}

\* A worker has a task exactly while it is between queue.get and the finally.
WorkersHold ==
    \A w \in Workers : IF wpc[w] \in BusyStages THEN wtask[w] \in Clients
                                                ELSE wtask[w] = NoClient

\* A done task is nowhere else.
DoneIsOver == \A c \in done : c \notin Queued /\ c \notin Held

\* What the state of the handler says about the task.
HandlerMatchesTask ==
    \A c \in Clients :
        /\ handler[c] \in {"new", "putting", "rejected", "ended"} \cup DirectStages =>
              c \notin Queued \cup Held \cup done \cup backend \cup cancelled
        /\ handler[c] = "waiting" =>
              c \in Queued \cup Held \cup done /\ c \notin cancelled
        /\ handler[c] \in {"served", "failed"} => c \in done /\ c \notin cancelled
        /\ handler[c] = "cancelled" /\ c \in Queued \cup Held \cup done => c \in cancelled

DeadAtExit == phase = "exited" => \A w \in Workers : wpc[w] = "dead"

Inv ==
    /\ TypeOK
    /\ SlotAccounting
    /\ ServedAtMostOnce
    /\ BackendOnlyForwarded
    /\ WorkersHold
    /\ DoneIsOver
    /\ HandlerMatchesTask
    /\ DeadAtExit

(***************************************************************************)
(* Lemmas on the queue and on the set of busy workers.                     *)
(***************************************************************************)
\* The elements of a queue after a put.
LEMMA AppendElements ==
    ASSUME NEW S, NEW q \in Seq(S), NEW c \in S
    PROVE  /\ Append(q, c) \in Seq(S)
           /\ Len(Append(q, c)) = Len(q) + 1
           /\ {Append(q, c)[i] : i \in DOMAIN Append(q, c)}
                = {q[i] : i \in DOMAIN q} \cup {c}
  <1>1. /\ Append(q, c) \in Seq(S)
        /\ DOMAIN q = 1 .. Len(q)
        /\ DOMAIN Append(q, c) = 1 .. (Len(q) + 1)
        /\ Len(Append(q, c)) = Len(q) + 1
        /\ Len(q) \in Nat
    OBVIOUS
  <1>2. /\ \A i \in 1 .. Len(q) : Append(q, c)[i] = q[i]
        /\ Append(q, c)[Len(q) + 1] = c
    OBVIOUS
  <1> QED BY <1>1, <1>2

\* A put of an element that is not queued keeps the elements distinct.
LEMMA AppendDistinct ==
    ASSUME NEW S, NEW q \in Seq(S), NEW c \in S,
           \A i, j \in DOMAIN q : q[i] = q[j] => i = j,
           c \notin {q[i] : i \in DOMAIN q}
    PROVE  \A i, j \in DOMAIN Append(q, c) : Append(q, c)[i] = Append(q, c)[j] => i = j
  <1>1. /\ DOMAIN q = 1 .. Len(q)
        /\ DOMAIN Append(q, c) = 1 .. (Len(q) + 1)
        /\ Len(q) \in Nat
    OBVIOUS
  <1>2. /\ \A i \in 1 .. Len(q) : Append(q, c)[i] = q[i]
        /\ Append(q, c)[Len(q) + 1] = c
    OBVIOUS
  <1> QED BY <1>1, <1>2

\* A get removes the head, and only the head, from a queue without repetition.
LEMMA TailElements ==
    ASSUME NEW S, NEW q \in Seq(S), q # <<>>,
           \A i, j \in DOMAIN q : q[i] = q[j] => i = j
    PROVE  /\ Tail(q) \in Seq(S)
           /\ Head(q) \in S
           /\ Len(Tail(q)) = Len(q) - 1
           /\ Len(q) \in Nat \ {0}
           /\ Head(q) \in {q[i] : i \in DOMAIN q}
           /\ {Tail(q)[i] : i \in DOMAIN Tail(q)} = {q[i] : i \in DOMAIN q} \ {Head(q)}
           /\ \A i, j \in DOMAIN Tail(q) : Tail(q)[i] = Tail(q)[j] => i = j
  <1>1. /\ Head(q) \in S /\ Tail(q) \in Seq(S) /\ Len(Tail(q)) = Len(q) - 1
        /\ \A i \in 1 .. Len(Tail(q)) : Tail(q)[i] = q[i + 1]
    BY HeadTailProperties
  <1>2. /\ DOMAIN q = 1 .. Len(q) /\ Len(q) \in Nat \ {0} /\ Head(q) = q[1]
        /\ DOMAIN Tail(q) = 1 .. (Len(q) - 1)
    BY <1>1
  <1>3. \A i \in 1 .. (Len(q) - 1) : Tail(q)[i] = q[i + 1] /\ Tail(q)[i] # Head(q)
    BY <1>1, <1>2
  <1>4. ASSUME NEW i \in 1 .. Len(q), q[i] # Head(q)
        PROVE  i - 1 \in 1 .. (Len(q) - 1) /\ Tail(q)[i - 1] = q[i]
    <2>1. i # 1 BY <1>2, <1>4
    <2>2. i - 1 \in 1 .. (Len(q) - 1) /\ (i - 1) + 1 = i BY <1>2, <2>1
    <2> QED BY <1>3, <2>2
  <1>5. {Tail(q)[i] : i \in DOMAIN Tail(q)} \subseteq {q[i] : i \in DOMAIN q} \ {Head(q)}
    BY <1>2, <1>3
  <1>6. ASSUME NEW x \in {q[i] : i \in DOMAIN q} \ {Head(q)}
        PROVE  x \in {Tail(q)[i] : i \in DOMAIN Tail(q)}
    <2>1. PICK i \in 1 .. Len(q) : x = q[i] BY <1>2
    <2>2. i - 1 \in DOMAIN Tail(q) /\ Tail(q)[i - 1] = x BY <1>2, <1>4, <2>1
    <2> QED BY <2>2
  <1>7. \A i, j \in DOMAIN Tail(q) : Tail(q)[i] = Tail(q)[j] => i = j
    BY <1>2, <1>3
  <1> QED BY <1>1, <1>2, <1>5, <1>6, <1>7

\* There are finitely many workers, so the busy ones can be counted.
LEMMA BusyFinite == IsFiniteSet(Busy) /\ Cardinality(Busy) \in Nat
  <1>1. IsFiniteSet(Workers)
    BY ConcAssumption, FS_Interval DEF Workers
  <1>2. Busy \in SUBSET Workers
    BY DEF Busy
  <1> QED BY <1>1, <1>2, FS_Subset, FS_CardinalityType

\* Steps that leave the workers alone leave the slots alone.
LEMMA SameSlots ==
    ASSUME UNCHANGED <<wpc, wtask>>
    PROVE  Busy' = Busy /\ Held' = Held
  BY DEF Busy, Held

\* A step of a worker from one stage of a forward to another keeps its slot.
LEMMA StageChange ==
    ASSUME TypeOK, NEW w \in Busy, NEW stage \in BusyStages,
           wpc' = [wpc EXCEPT ![w] = stage], UNCHANGED wtask
    PROVE  /\ Busy' = Busy
           /\ Held' = Held
           /\ wpc' \in [Workers -> WorkerStages]
  BY DEF TypeOK, Busy, Held, WorkerStages

\* An idle worker that takes a task adds one slot and one held request.
LEMMA SlotTaken ==
    ASSUME TypeOK, NEW w \in Workers, wpc[w] = "get", NEW c \in Clients,
           wpc' = [wpc EXCEPT ![w] = "body"], wtask' = [wtask EXCEPT ![w] = c]
    PROVE  /\ w \notin Busy
           /\ Busy' = Busy \cup {w}
           /\ Held' = Held \cup {c}
           /\ Cardinality(Busy') = Cardinality(Busy) + 1
           /\ wpc' \in [Workers -> WorkerStages]
           /\ wtask' \in [Workers -> Clients \cup {NoClient}]
  <1>1. w \notin Busy /\ Busy' = Busy \cup {w}
    BY DEF TypeOK, Busy, BusyStages, RelayStages
  <1>2. Held' = Held \cup {c}
    BY <1>1 DEF TypeOK, Held, Busy
  <1>3. Cardinality(Busy') = Cardinality(Busy) + 1
    BY <1>1, BusyFinite, FS_AddElement
  <1> QED BY <1>1, <1>2, <1>3 DEF TypeOK, WorkerStages, BusyStages, RelayStages

\* A busy worker that finishes gives back its slot and its request.
LEMMA SlotGiven ==
    ASSUME TypeOK, ServedAtMostOnce, NEW w \in Busy,
           wpc' = [wpc EXCEPT ![w] = "get"], wtask' = [wtask EXCEPT ![w] = NoClient]
    PROVE  /\ Busy' = Busy \ {w}
           /\ Held' = Held \ {wtask[w]}
           /\ Cardinality(Busy) > 0
           /\ Cardinality(Busy') = Cardinality(Busy) - 1
           /\ wpc' \in [Workers -> WorkerStages]
           /\ wtask' \in [Workers -> Clients \cup {NoClient}]
  <1>1. Busy' = Busy \ {w}
    BY DEF TypeOK, Busy, BusyStages, RelayStages
  <1>2. Held' = Held \ {wtask[w]}
    BY <1>1 DEF TypeOK, Held, Busy, ServedAtMostOnce
  <1>3. Cardinality(Busy') = Cardinality(Busy) - 1
    BY <1>1, BusyFinite, FS_RemoveElement
  <1>4. Cardinality(Busy) > 0
    BY BusyFinite, FS_EmptySet
  <1> QED BY <1>1, <1>2, <1>3, <1>4 DEF TypeOK, WorkerStages, BusyStages, RelayStages

(***************************************************************************)
(* The steps of the handlers.                                              *)
(***************************************************************************)
\* A put of a request of which there is no trace yet.
LEMMA EnqueuePreserves ==
    ASSUME Inv, NEW c \in Clients, handler[c] \in {"new", "putting"},
           Enqueue(c)
    PROVE  Inv'
  <1>1. /\ Queued' = Queued \cup {c}
        /\ queue' \in Seq(Clients)
        /\ Len(queue') = Len(queue) + 1
    <2>1. queue \in Seq(Clients) /\ queue' = Append(queue, c)
      BY DEF Inv, TypeOK, Enqueue
    <2>2. /\ Append(queue, c) \in Seq(Clients)
          /\ Len(Append(queue, c)) = Len(queue) + 1
          /\ {Append(queue, c)[i] : i \in DOMAIN Append(queue, c)}
               = {queue[i] : i \in DOMAIN queue} \cup {c}
      BY <2>1, AppendElements
    <2> QED BY <2>1, <2>2 DEF Queued
  <1>2. Busy' = Busy /\ Held' = Held
    BY SameSlots DEF Enqueue, workerVars
  <1>3. c \notin Queued \cup Held \cup done \cup backend \cup cancelled
    BY DEF Inv, HandlerMatchesTask
  <1>4. TypeOK'
    BY <1>1 DEF Inv, TypeOK, Enqueue, taskVars, workerVars, HandlerStates
  <1>5. SlotAccounting'
    <2>1. unfinished' = unfinished + 1 /\ in_flight' = in_flight
      BY DEF Enqueue
    <2>2. Len(queue) \in Nat /\ in_flight \in Nat
      BY DEF Inv, TypeOK
    <2> QED BY <1>1, <1>2, <2>1, <2>2 DEF Inv, SlotAccounting
  <1>6. ServedAtMostOnce'
    <2>1. \A i, j \in DOMAIN queue' : queue'[i] = queue'[j] => i = j
      BY <1>3, AppendDistinct DEF Inv, TypeOK, Enqueue, ServedAtMostOnce, Queued
    <2>2. \A w \in Busy : wtask[w] \notin Queued'
      BY <1>1, <1>3 DEF Inv, ServedAtMostOnce, Held
    <2> QED BY <1>2, <2>1, <2>2 DEF Inv, ServedAtMostOnce, Enqueue, workerVars
  <1>7. BackendOnlyForwarded'
    BY <1>2 DEF Inv, BackendOnlyForwarded, Enqueue, taskVars, Held
  <1>8. WorkersHold' /\ DoneIsOver'
    BY <1>1, <1>2, <1>3 DEF Inv, WorkersHold, DoneIsOver, Enqueue, taskVars, workerVars
  <1>9. HandlerMatchesTask'
    BY <1>1, <1>2, <1>3 DEF Inv, TypeOK, HandlerMatchesTask, Enqueue, taskVars, DirectStages
  <1>10. DeadAtExit'
    BY DEF Inv, DeadAtExit, Enqueue, workerVars
  <1> QED BY <1>4, <1>5, <1>6, <1>7, <1>8, <1>9, <1>10 DEF Inv

\* What a step of a control-plane handler changes.
LEMMA ProbeStep ==
    ASSUME NEW c \in Clients, ControlStep(c)
    PROVE  /\ handler[c] \in {"new"} \cup DirectStages
           /\ \E to \in DirectStages \cup {"ended"} : handler' = [handler EXCEPT ![c] = to]
           /\ UNCHANGED <<queue, countVars, cancelled, gone, taskVars, workerVars, backend, phase>>
  BY DEF ControlStep, ControlArrives, ControlBody, ControlBodyLost, ControlConnected,
         ControlReplies, ControlTimesOut, ProbeMoves, DirectStages

\* Steps of a handler that leave queue, slots and tasks alone.
LEMMA HandlerMovePreserves ==
    ASSUME Inv, NEW c \in Clients,
           \/ Block(c) \/ PutTimesOut(c) \/ HandlerReturns(c)
           \/ CancelHandler(c) \/ ControlStep(c)
    PROVE  Inv'
  <1>1. /\ UNCHANGED <<queue, countVars, gone, taskVars, workerVars, backend, phase>>
        /\ handler' \in [Clients -> HandlerStates]
        /\ cancelled' \in SUBSET Clients
    <2>1. CASE ControlStep(c)
      BY <2>1, ProbeStep DEF Inv, TypeOK, HandlerStates, Outcomes
    <2>2. CASE ~ControlStep(c)
      BY <2>2 DEF Inv, TypeOK, Block, PutTimesOut, HandlerReturns, CancelHandler, Unwound,
             HandlerStates, Outcomes
    <2> QED BY <2>1, <2>2
  <1>2. Queued' = Queued /\ Busy' = Busy /\ Held' = Held
    BY <1>1, SameSlots DEF Queued, workerVars
  <1>3. /\ TypeOK' /\ SlotAccounting' /\ ServedAtMostOnce' /\ BackendOnlyForwarded'
        /\ WorkersHold' /\ DoneIsOver' /\ DeadAtExit'
    BY <1>1, <1>2 DEF Inv, TypeOK, SlotAccounting, ServedAtMostOnce, BackendOnlyForwarded,
       WorkersHold, DoneIsOver, DeadAtExit, countVars, taskVars, workerVars, Held
  <1>4. HandlerMatchesTask'
    <2>1. done' = done /\ backend' = backend /\ handler \in [Clients -> HandlerStates]
      BY <1>1 DEF taskVars, Inv, TypeOK
    <2>2. HandlerMatchesTask
      BY DEF Inv
    <2>3. CASE Block(c)
      BY <1>2, <2>1, <2>2, <2>3 DEF Block, HandlerMatchesTask
    <2>4. CASE PutTimesOut(c)
      BY <1>2, <2>1, <2>2, <2>4 DEF PutTimesOut, HandlerMatchesTask
    <2>5. CASE HandlerReturns(c)
      BY <1>2, <2>1, <2>2, <2>5 DEF HandlerReturns, HandlerMatchesTask, DirectStages
    <2>6. CASE CancelHandler(c)
      BY <1>2, <2>1, <2>2, <2>6 DEF CancelHandler, Unwound, HandlerMatchesTask, DirectStages
    <2>7. CASE ControlStep(c)
      <3>1. PICK to \in DirectStages \cup {"ended"} : handler' = [handler EXCEPT ![c] = to]
        BY <2>7, ProbeStep
      <3>2. handler[c] \in {"new"} \cup DirectStages /\ cancelled' = cancelled
        BY <2>7, ProbeStep
      <3> QED BY <1>2, <2>1, <2>2, <3>1, <3>2 DEF HandlerMatchesTask, DirectStages
    <2> QED BY <2>3, <2>4, <2>5, <2>6, <2>7
  <1> QED BY <1>3, <1>4 DEF Inv

(***************************************************************************)
(* The environment and the life of the process.                            *)
(***************************************************************************)
LEMMA EnvironmentPreserves ==
    ASSUME Inv, NEW c \in Clients, EnvironmentStep(c)
    PROVE  Inv'
  <1>1. /\ UNCHANGED <<queue, countVars, workerVars, phase>>
        /\ done' \in SUBSET done /\ backend' \in SUBSET backend
    BY DEF Inv, TypeOK, EnvironmentStep, Disconnect, Recycle, BackendAborts,
           handlerVars, taskVars
  <1>2. Queued' = Queued /\ Busy' = Busy /\ Held' = Held
    BY <1>1, SameSlots DEF Queued, workerVars
  <1>3. TypeOK'
    BY <1>1 DEF Inv, TypeOK, EnvironmentStep, Disconnect, Recycle, BackendAborts,
           countVars, workerVars, handlerVars, taskVars, HandlerStates
  <1>4. SlotAccounting' /\ ServedAtMostOnce' /\ WorkersHold' /\ DoneIsOver' /\ DeadAtExit'
    BY <1>1, <1>2 DEF Inv, SlotAccounting, ServedAtMostOnce, WorkersHold, DoneIsOver,
       DeadAtExit, countVars, workerVars
  <1>5. BackendOnlyForwarded'
    BY <1>1, <1>2 DEF Inv, BackendOnlyForwarded, Held, EnvironmentStep, Disconnect,
       Recycle, BackendAborts, taskVars
  <1>6. HandlerMatchesTask'
    <2>1. HandlerMatchesTask /\ handler \in [Clients -> HandlerStates]
      BY DEF Inv, TypeOK
    <2>2. CASE Disconnect(c)
      BY <1>2, <2>1, <2>2 DEF Disconnect, HandlerMatchesTask, taskVars
    <2>3. CASE Recycle(c)
      <3>1. c \notin Held
        BY <2>3 DEF Recycle, Held, Busy
      <3> QED BY <1>2, <2>1, <2>3, <3>1 DEF Recycle, HandlerMatchesTask
    <2>4. CASE BackendAborts(c)
      BY <1>2, <2>1, <2>4 DEF BackendAborts, HandlerMatchesTask, handlerVars, taskVars
    <2> QED BY <2>2, <2>3, <2>4 DEF EnvironmentStep
  <1> QED BY <1>3, <1>4, <1>5, <1>6 DEF Inv

LEMMA ProcessPreserves ==
    ASSUME Inv, Sigterm \/ Exit
    PROVE  Inv'
  <1>1. UNCHANGED <<queue, countVars, gone, taskVars, wpc, wtask, backend>>
    BY DEF Sigterm, Exit, handlerVars, workerVars
  <1>2. Queued' = Queued /\ Busy' = Busy /\ Held' = Held
    BY <1>1, SameSlots DEF Queued
  <1>3. /\ TypeOK'
    <2>1. handler' \in [Clients -> HandlerStates]
      BY DEF Inv, TypeOK, Sigterm, Exit, handlerVars, Unwound, HandlerStates, Outcomes
    <2>2. cancelled' \in SUBSET Clients /\ cancelling' \in SUBSET Workers
          /\ phase' \in {"serving", "stopping", "exited"}
      BY DEF Inv, TypeOK, Sigterm, Exit, handlerVars, workerVars
    <2> QED BY <1>1, <2>1, <2>2 DEF Inv, TypeOK, countVars, taskVars
  <1>4. SlotAccounting' /\ ServedAtMostOnce' /\ WorkersHold' /\ DoneIsOver' /\ BackendOnlyForwarded'
    BY <1>1, <1>2 DEF Inv, SlotAccounting, ServedAtMostOnce, WorkersHold, DoneIsOver,
       BackendOnlyForwarded, countVars, taskVars, Held
  <1>5. DeadAtExit'
    BY DEF Inv, DeadAtExit, Sigterm, Exit, workerVars
  <1>6. HandlerMatchesTask'
    <2>1. HandlerMatchesTask /\ handler \in [Clients -> HandlerStates]
      BY DEF Inv, TypeOK
    <2>2. done' = done /\ backend' = backend
      BY <1>1 DEF taskVars
    <2>3. CASE Sigterm
      BY <1>2, <2>1, <2>2, <2>3 DEF Sigterm, HandlerMatchesTask, handlerVars
    <2>4. CASE Exit
      BY <1>2, <2>1, <2>2, <2>4 DEF Exit, Unwound, HandlerMatchesTask, DirectStages
    <2> QED BY <2>3, <2>4
  <1> QED BY <1>3, <1>4, <1>5, <1>6 DEF Inv

(***************************************************************************)
(* The steps of the workers.                                               *)
(***************************************************************************)
LEMMA SkipPreserves ==
    ASSUME Inv, NEW w \in Workers, SkipCancelled(w)
    PROVE  Inv'
  <1>1. /\ queue' \in Seq(Clients)
        /\ Len(queue') = Len(queue) - 1
        /\ Len(queue) \in Nat \ {0}
        /\ Head(queue) \in Queued
        /\ Queued' = Queued \ {Head(queue)}
        /\ \A i, j \in DOMAIN queue' : queue'[i] = queue'[j] => i = j
    <2>1. queue \in Seq(Clients) /\ queue # <<>> /\ queue' = Tail(queue)
      BY DEF Inv, TypeOK, SkipCancelled
    <2>2. \A i, j \in DOMAIN queue : queue[i] = queue[j] => i = j
      BY DEF Inv, ServedAtMostOnce
    <2> QED BY <2>1, <2>2, TailElements DEF Queued
  <1>2. Busy' = Busy /\ Held' = Held
    BY SameSlots DEF SkipCancelled, workerVars
  <1>3. SlotAccounting'
    <2>1. unfinished' = unfinished - 1 /\ in_flight' = in_flight
      BY DEF SkipCancelled, TaskDone
    <2>2. in_flight \in Nat BY DEF Inv, TypeOK
    <2> QED BY <1>1, <1>2, <2>1, <2>2 DEF Inv, SlotAccounting
  <1>4. unfinished' \in Nat
    BY <1>1, <1>3 DEF Inv, TypeOK, SlotAccounting, SkipCancelled
  <1>5. TypeOK'
    BY <1>1, <1>4 DEF Inv, TypeOK, SkipCancelled, handlerVars, taskVars, workerVars
  <1>6. ServedAtMostOnce' /\ BackendOnlyForwarded' /\ WorkersHold' /\ DoneIsOver' /\ DeadAtExit'
    BY <1>1, <1>2 DEF Inv, ServedAtMostOnce, BackendOnlyForwarded, WorkersHold, DoneIsOver,
       DeadAtExit, SkipCancelled, taskVars, workerVars, Held
  <1>7. HandlerMatchesTask'
    <2>1. Head(queue) \in cancelled BY DEF SkipCancelled
    <2> QED BY <1>1, <1>2, <2>1 DEF Inv, HandlerMatchesTask, SkipCancelled, handlerVars, taskVars
  <1> QED BY <1>3, <1>5, <1>6, <1>7 DEF Inv

LEMMA TakePreserves ==
    ASSUME Inv, NEW w \in Workers, TakeTask(w)
    PROVE  Inv'
  <1> DEFINE c == Head(queue)
  <1>1. /\ queue' \in Seq(Clients)
        /\ c \in Clients
        /\ Len(queue') = Len(queue) - 1
        /\ Len(queue) \in Nat \ {0}
        /\ c \in Queued
        /\ Queued' = Queued \ {c}
        /\ \A i, j \in DOMAIN queue' : queue'[i] = queue'[j] => i = j
    <2>1. queue \in Seq(Clients) /\ queue # <<>> /\ queue' = Tail(queue)
      BY DEF Inv, TypeOK, TakeTask
    <2>2. \A i, j \in DOMAIN queue : queue[i] = queue[j] => i = j
      BY DEF Inv, ServedAtMostOnce
    <2>3. /\ Tail(queue) \in Seq(Clients)
          /\ c \in Clients
          /\ Len(Tail(queue)) = Len(queue) - 1
          /\ Len(queue) \in Nat \ {0}
          /\ c \in {queue[i] : i \in DOMAIN queue}
          /\ {Tail(queue)[i] : i \in DOMAIN Tail(queue)}
               = {queue[i] : i \in DOMAIN queue} \ {c}
          /\ \A i, j \in DOMAIN Tail(queue) : Tail(queue)[i] = Tail(queue)[j] => i = j
      BY <2>1, <2>2, TailElements
    <2> HIDE DEF c
    <2> QED BY <2>1, <2>3 DEF Queued
  <1>2. /\ wpc[w] = "get"
        /\ wpc' = [wpc EXCEPT ![w] = "body"]
        /\ wtask' = [wtask EXCEPT ![w] = c]
        /\ in_flight' = in_flight + 1
        /\ UNCHANGED <<unfinished, cancelling, handlerVars, taskVars, backend, phase>>
    BY DEF TakeTask
  <1> HIDE DEF c
  <1>3. /\ w \notin Busy
        /\ Busy' = Busy \cup {w}
        /\ Held' = Held \cup {c}
        /\ Cardinality(Busy') = Cardinality(Busy) + 1
        /\ wpc' \in [Workers -> WorkerStages]
        /\ wtask' \in [Workers -> Clients \cup {NoClient}]
    BY <1>1, <1>2, SlotTaken DEF Inv
  <1>4. TypeOK'
    BY <1>1, <1>2, <1>3 DEF Inv, TypeOK, handlerVars, taskVars
  <1>5. SlotAccounting'
    <2>1. in_flight \in Nat BY DEF Inv, TypeOK
    <2> QED BY <1>1, <1>2, <1>3, <2>1, BusyFinite DEF Inv, SlotAccounting
  <1>6. c \notin Held /\ c \notin done
    BY <1>1 DEF Inv, ServedAtMostOnce, Held, DoneIsOver
  <1>7. ServedAtMostOnce'
    <2>1. \A v \in Busy : wtask'[v] = wtask[v] /\ wtask'[v] # c
      BY <1>2, <1>3, <1>6 DEF Inv, TypeOK, Busy, Held
    <2>2. wtask'[w] = c
      BY <1>2 DEF Inv, TypeOK
    <2> QED BY <1>1, <1>3, <2>1, <2>2 DEF Inv, ServedAtMostOnce
  <1>8. BackendOnlyForwarded'
    BY <1>2, <1>3 DEF Inv, BackendOnlyForwarded, Held, taskVars
  <1>9. WorkersHold'
    BY <1>1, <1>2 DEF Inv, TypeOK, WorkersHold, BusyStages, RelayStages
  <1>10. DoneIsOver' /\ DeadAtExit'
    BY <1>1, <1>2, <1>3, <1>6 DEF Inv, DoneIsOver, DeadAtExit, taskVars
  <1>11. HandlerMatchesTask'
    BY <1>1, <1>2, <1>3 DEF Inv, HandlerMatchesTask, handlerVars, taskVars
  <1> QED BY <1>4, <1>5, <1>7, <1>8, <1>9, <1>10, <1>11 DEF Inv

\* A worker goes from one stage of its forward to another.
MovesOn(w, stage) ==
    /\ wpc' = [wpc EXCEPT ![w] = stage]
    /\ UNCHANGED <<queue, countVars, handlerVars, done, result, wtask, phase>>
    /\ prepared' \in {prepared, prepared \cup {wtask[w]}}
    /\ backend' \in {backend, backend \cup {wtask[w]}, backend \ {wtask[w]}}

\* A worker leaves its forward.
Leaves(w, outcome) ==
    /\ Finish(w, outcome)
    /\ backend' \in {backend, backend \ {wtask[w]}}

\* Between queue.get and the finally clause a worker can do these two only.
LEMMA BusyStep ==
    ASSUME NEW w \in Workers, WorkerStep(w),
           ~SkipCancelled(w), ~TakeTask(w), ~CancelIdle(w)
    PROVE  /\ wpc[w] \in BusyStages
           /\ cancelling' \in SUBSET cancelling
           /\ \/ \E stage \in BusyStages : MovesOn(w, stage)
              \/ \E outcome \in {"response", "exc"} : Leaves(w, outcome)
  <1>1. CASE ReadBody(w) \/ Connected(w) \/ StreamStarts(w)
    BY <1>1 DEF ReadBody, Connected, StreamStarts, At, Goto, MovesOn, BusyStages, RelayStages
  <1>2. CASE Chunk(w) \/ ClientTakes(w) \/ StreamEnds(w)
    BY <1>2 DEF Chunk, ClientTakes, StreamEnds, At, Goto, MovesOn, BusyStages, RelayStages
  <1>3. CASE BodyLost(w) \/ ConnectFails(w) \/ BackendReplies(w)
    BY <1>3 DEF BodyLost, ConnectFails, BackendReplies, At, Leaves, BusyStages, RelayStages
  <1>4. CASE PrepareFails(w) \/ WriteFails(w) \/ EofWritten(w)
    BY <1>4 DEF PrepareFails, WriteFails, EofWritten, At, Leaves, BusyStages, RelayStages
  <1>5. CASE IdleTimeout(w) \/ BackendFails(w)
    <2>1. ReadFails(w) /\ backend' \in {backend, backend \ {wtask[w]}}
      BY <1>5 DEF IdleTimeout, BackendFails
    <2>2. CASE At(w, "await") /\ Finish(w, "exc") /\ UNCHANGED cancelling
      BY <2>1, <2>2 DEF At, Leaves, BusyStages, RelayStages
    <2>3. CASE At(w, "stream") /\ Goto(w, "abort") /\ UNCHANGED prepared
      BY <2>1, <2>3 DEF At, Goto, MovesOn, BusyStages, RelayStages
    <2> QED BY <2>1, <2>2, <2>3 DEF ReadFails
  <1>6. CASE CancelBusy(w)
    <2>1. CASE wpc[w] \in {"stream", "write"}
      <3>1. MovesOn(w, "abort")
        BY <1>6, <2>1 DEF CancelBusy, MovesOn, taskVars
      <3> QED BY <1>6, <2>1, <3>1 DEF CancelBusy, BusyStages, RelayStages
    <2>2. CASE wpc[w] \notin {"stream", "write"}
      BY <1>6, <2>2 DEF CancelBusy, Leaves
    <2> QED BY <2>1, <2>2
  <1> QED BY <1>1, <1>2, <1>3, <1>4, <1>5, <1>6 DEF WorkerStep

\* A worker moves on within its forward; the backend may get its request.
LEMMA StagePreserves ==
    ASSUME Inv, NEW w \in Workers, wpc[w] \in BusyStages,
           NEW stage \in BusyStages, MovesOn(w, stage),
           cancelling' \in SUBSET cancelling
    PROVE  Inv'
  <1>1. w \in Busy /\ wtask[w] \in Clients /\ wtask[w] \in Held
    BY DEF Inv, Busy, WorkersHold, Held
  <1>2. Busy' = Busy /\ Held' = Held /\ wpc' \in [Workers -> WorkerStages]
    BY <1>1, StageChange DEF Inv, MovesOn
  <1>3. Queued' = Queued
    BY DEF Queued, MovesOn
  <1>4. TypeOK'
    BY <1>1, <1>2 DEF Inv, TypeOK, MovesOn, countVars, handlerVars
  <1>5. SlotAccounting' /\ ServedAtMostOnce' /\ DoneIsOver' /\ DeadAtExit'
    BY <1>2, <1>3 DEF Inv, TypeOK, SlotAccounting, ServedAtMostOnce, DoneIsOver,
       DeadAtExit, MovesOn, countVars, BusyStages, RelayStages
  <1>6. BackendOnlyForwarded'
    BY <1>1, <1>2 DEF Inv, BackendOnlyForwarded, Held, MovesOn
  <1>7. WorkersHold'
    BY DEF Inv, TypeOK, WorkersHold, MovesOn
  <1>8. HandlerMatchesTask'
    BY <1>1, <1>2, <1>3 DEF Inv, HandlerMatchesTask, MovesOn, handlerVars
  <1> QED BY <1>4, <1>5, <1>6, <1>7, <1>8 DEF Inv

\* A worker leaves its forward, whatever the outcome.
LEMMA FinishPreserves ==
    ASSUME Inv, NEW w \in Workers, wpc[w] \in BusyStages,
           NEW outcome \in {"response", "exc"}, Leaves(w, outcome),
           cancelling' \in SUBSET cancelling
    PROVE  Inv'
  <1> DEFINE c == wtask[w]
  <1>1. w \in Busy /\ c \in Clients /\ c \in Held
    BY DEF Inv, Busy, WorkersHold, Held
  <1>2. /\ wpc' = [wpc EXCEPT ![w] = "get"]
        /\ wtask' = [wtask EXCEPT ![w] = NoClient]
        /\ result' = [result EXCEPT ![c] = outcome]
        /\ done' = done \cup {c}
        /\ in_flight' = in_flight - 1
        /\ unfinished' = unfinished - 1
        /\ UNCHANGED <<queue, handlerVars, prepared, phase>>
        /\ backend' \in {backend, backend \ {c}}
    BY DEF Leaves, Finish, TaskDone
  <1>3. /\ Busy' = Busy \ {w}
        /\ Held' = Held \ {c}
        /\ Cardinality(Busy) > 0
        /\ Cardinality(Busy') = Cardinality(Busy) - 1
        /\ wpc' \in [Workers -> WorkerStages]
        /\ wtask' \in [Workers -> Clients \cup {NoClient}]
    BY <1>1, <1>2, SlotGiven DEF Inv
  <1>4. Queued' = Queued /\ c \notin Queued
    BY <1>1, <1>2 DEF Inv, ServedAtMostOnce, Queued
  <1> HIDE DEF c
  <1>5. SlotAccounting' /\ in_flight' \in Nat /\ unfinished' \in Nat
    <2>1. in_flight \in Nat /\ Len(queue) \in Nat BY DEF Inv, TypeOK
    <2> QED BY <1>2, <1>3, <2>1, BusyFinite DEF Inv, SlotAccounting
  <1>6. TypeOK'
    BY <1>1, <1>2, <1>3, <1>5 DEF Inv, TypeOK, handlerVars
  <1>7. ServedAtMostOnce'
    <2>1. \A v \in Busy' : v \in Busy /\ wtask'[v] = wtask[v]
      BY <1>2, <1>3 DEF Inv, TypeOK, Busy
    <2> QED BY <1>2, <1>4, <2>1 DEF Inv, ServedAtMostOnce
  <1>8. BackendOnlyForwarded'
    <2>1. \A b \in backend : b \in done \cup Held
      BY DEF Inv, BackendOnlyForwarded, Held
    <2>2. \A b \in backend' : b \in done' \cup Held'
      BY <1>2, <1>3, <2>1
    <2> QED BY <2>2 DEF BackendOnlyForwarded, Held
  <1>9. WorkersHold'
    BY <1>2 DEF Inv, TypeOK, WorkersHold, BusyStages, RelayStages
  <1>10. DoneIsOver'
    BY <1>2, <1>3, <1>4 DEF Inv, DoneIsOver
  <1>11. HandlerMatchesTask'
    BY <1>1, <1>2, <1>3, <1>4 DEF Inv, HandlerMatchesTask, handlerVars
  <1>12. DeadAtExit'
    BY <1>2 DEF Inv, DeadAtExit, BusyStages, RelayStages
  <1> QED BY <1>5, <1>6, <1>7, <1>8, <1>9, <1>10, <1>11, <1>12 DEF Inv

\* Each step of a worker has one of the shapes above, or ends the worker.
LEMMA WorkerPreserves ==
    ASSUME Inv, NEW w \in Workers, WorkerStep(w)
    PROVE  Inv'
  <1>1. CASE SkipCancelled(w)
    BY <1>1, SkipPreserves
  <1>2. CASE TakeTask(w)
    BY <1>2, TakePreserves
  <1>3. CASE ~SkipCancelled(w) /\ ~TakeTask(w) /\ ~CancelIdle(w)
    <2>1. /\ wpc[w] \in BusyStages
          /\ cancelling' \in SUBSET cancelling
          /\ \/ \E stage \in BusyStages : MovesOn(w, stage)
             \/ \E outcome \in {"response", "exc"} : Leaves(w, outcome)
      BY <1>3, BusyStep
    <2> QED BY <2>1, StagePreserves, FinishPreserves
  <1>4. CASE CancelIdle(w)
    <2>1. wpc[w] \notin BusyStages /\ wpc'[w] \notin BusyStages
      BY <1>4 DEF CancelIdle, Inv, TypeOK, BusyStages, RelayStages
    <2>2. Busy' = Busy /\ Held' = Held /\ Queued' = Queued
      BY <1>4, <2>1 DEF CancelIdle, Inv, TypeOK, Busy, Held, Queued
    <2>3. TypeOK'
      BY <1>4 DEF CancelIdle, Inv, TypeOK, WorkerStages, countVars, handlerVars, taskVars
    <2>4. /\ SlotAccounting' /\ ServedAtMostOnce' /\ BackendOnlyForwarded' /\ DoneIsOver'
          /\ HandlerMatchesTask'
      BY <1>4, <2>2 DEF CancelIdle, Inv, SlotAccounting, ServedAtMostOnce, BackendOnlyForwarded,
         DoneIsOver, HandlerMatchesTask, countVars, handlerVars, taskVars, Held
    <2>5. WorkersHold' /\ DeadAtExit'
      BY <1>4, <2>1 DEF CancelIdle, Inv, TypeOK, WorkersHold, DeadAtExit
    <2> QED BY <2>3, <2>4, <2>5 DEF Inv
  <1> QED BY <1>1, <1>2, <1>3, <1>4

(***************************************************************************)
(* The theorems.                                                           *)
(***************************************************************************)
LEMMA InitInv == Init => Inv
  <1> SUFFICES ASSUME Init PROVE Inv OBVIOUS
  <1>1. Busy = {} /\ Queued = {} /\ Held = {}
    BY DEF Init, Busy, Queued, Held, BusyStages, RelayStages
  <1>2. TypeOK
    BY DEF Init, TypeOK, HandlerStates, WorkerStages
  <1>3. SlotAccounting
    BY <1>1, FS_EmptySet DEF Init, SlotAccounting
  <1>4. ServedAtMostOnce /\ BackendOnlyForwarded /\ WorkersHold /\ DoneIsOver /\ DeadAtExit
    BY <1>1 DEF Init, ServedAtMostOnce, BackendOnlyForwarded, WorkersHold, DoneIsOver,
       DeadAtExit, BusyStages, RelayStages
  <1>5. HandlerMatchesTask
    BY <1>1 DEF Init, HandlerMatchesTask
  <1> QED BY <1>2, <1>3, <1>4, <1>5 DEF Inv

LEMMA NextInv == Inv /\ [Next]_vars => Inv'
  <1> SUFFICES ASSUME Inv, [Next]_vars PROVE Inv' OBVIOUS
  <1>1. ASSUME NEW c \in Clients, HandlerStep(c) PROVE Inv'
    <2>1. CASE Arrive(c) \/ PutResumes(c)
      <3>1. handler[c] \in {"new", "putting"} /\ Enqueue(c)
        BY <2>1 DEF Arrive, PutResumes
      <3> QED BY <3>1, EnqueuePreserves
    <2>2. CASE \/ Block(c) \/ PutTimesOut(c) \/ HandlerReturns(c)
               \/ CancelHandler(c) \/ ControlStep(c)
      BY <2>2, HandlerMovePreserves
    <2> QED BY <1>1, <2>1, <2>2 DEF HandlerStep
  <1>2. ASSUME NEW c \in Clients, EnvironmentStep(c) PROVE Inv'
    BY <1>2, EnvironmentPreserves
  <1>3. ASSUME NEW w \in Workers, WorkerStep(w) PROVE Inv'
    BY <1>3, WorkerPreserves
  <1>4. CASE Sigterm \/ Exit
    BY <1>4, ProcessPreserves
  <1>5. CASE UNCHANGED vars
    <2>1. Busy' = Busy /\ Held' = Held /\ Queued' = Queued
      BY <1>5 DEF vars, workerVars, Busy, Held, Queued
    <2>2. TypeOK'
      BY <1>5 DEF vars, countVars, handlerVars, taskVars, workerVars, Inv, TypeOK
    <2> QED BY <1>5, <2>1, <2>2 DEF vars, countVars, handlerVars, taskVars, workerVars, Inv,
            SlotAccounting, ServedAtMostOnce, BackendOnlyForwarded, WorkersHold, DoneIsOver,
            HandlerMatchesTask, DeadAtExit, Held
  <1> QED BY <1>1, <1>2, <1>3, <1>4, <1>5 DEF Next

\* The inductive invariant holds in every reachable state.
THEOREM Invariance == Spec => []Inv
  BY InitInv, NextInv, PTL DEF Spec

\* Every variable of the gateway keeps its type; in particular neither
\* in_flight nor the queue's unfinished count ever goes below zero.
THEOREM TypeCorrect == Spec => []TypeOK
  <1>1. Inv => TypeOK BY DEF Inv
  <1> QED BY <1>1, Invariance, PTL

\* What the proxy reports as in flight is the number of occupied slots.
THEOREM SlotsAccounted == Spec => []SlotAccounting
  <1>1. Inv => SlotAccounting BY DEF Inv
  <1> QED BY <1>1, Invariance, PTL

\* No request is forwarded twice, or queued while it is being forwarded.
THEOREM NoDoubleService == Spec => []ServedAtMostOnce
  <1>1. Inv => ServedAtMostOnce BY DEF Inv
  <1> QED BY <1>1, Invariance, PTL

\* A handler that waits is waiting for a task that exists.
THEOREM NoRequestLost == Spec => []NoLostRequest
  <1>1. Inv => NoLostRequest
    BY DEF Inv, HandlerMatchesTask, NoLostRequest, Held
  <1> QED BY <1>1, Invariance, PTL

\* A client that was refused can retry: nothing of its request is left.
THEOREM RefusalIsClean == Spec => []RejectedLeavesNoTrace
  <1>1. Inv => RejectedLeavesNoTrace
    BY DEF Inv, HandlerMatchesTask, RejectedLeavesNoTrace, Held
  <1> QED BY <1>1, Invariance, PTL

\* A request that the backend runs without a slot has been answered.
THEOREM BackendAccounted == Spec => []BackendOnlyForwarded
  <1>1. Inv => BackendOnlyForwarded BY DEF Inv
  <1> QED BY <1>1, Invariance, PTL

-----------------------------------------------------------------------------
(***************************************************************************)
(* The gateway implements the admission queue: each step of a coroutine is *)
(* one step of AdmissionQueue or leaves its variables alone.  The mapping  *)
(* needs what the invariant gives: a queued task is marked as cancelled    *)
(* exactly when its handler is gone, and a request is in one place only.   *)
(***************************************************************************)

Verdicts == [c \in Clients |-> Verdict(c)]

\* A handler that moves from one state to another moves its verdict only.
LEMMA VerdictMoves ==
    ASSUME TypeOK, NEW c \in Clients, NEW s, handler' = [handler EXCEPT ![c] = s]
    PROVE  /\ \A d \in Clients \ {c} : Verdict(d)' = Verdict(d)
           /\ handler'[c] = s
  BY DEF TypeOK, Verdict

\* An idle worker leaves a slot of the admission queue free.
LEMMA SlotFree ==
    ASSUME Inv, NEW w \in Workers, wpc[w] = "get"
    PROVE  Cardinality(Held) < MaxConc
  <1>1. Busy \in SUBSET (Workers \ {w})
    BY DEF Busy, BusyStages, RelayStages
  <1>2. IsFiniteSet(Workers) /\ Cardinality(Workers) = MaxConc
    BY ConcAssumption, FS_Interval DEF Workers
  <1>3. IsFiniteSet(Workers \ {w}) /\ Cardinality(Workers \ {w}) = MaxConc - 1
    BY <1>2, FS_RemoveElement
  <1>4. Cardinality(Busy) <= MaxConc - 1
    BY <1>1, <1>3, FS_Subset
  <1>5. [v \in Busy |-> wtask[v]] \in Surjection(Busy, Held)
    BY DEF Surjection, Held
  <1>6. IsFiniteSet(Held) /\ Cardinality(Held) <= Cardinality(Busy)
    BY <1>5, BusyFinite, FS_Surjection
  <1>7. Cardinality(Held) \in Nat
    BY <1>6, FS_CardinalityType
  <1> QED BY <1>4, <1>6, <1>7, BusyFinite, ConcAssumption

LEMMA RefinesInit == Init => Abstract!Init
  <1> SUFFICES ASSUME Init PROVE Abstract!Init OBVIOUS
  <1>1. Busy = {} BY DEF Init, Busy, BusyStages, RelayStages
  <1> QED BY <1>1 DEF Init, Abstract!Init, Verdict

\* The steps of a handler.
LEMMA RefinesHandler ==
    ASSUME Inv, NEW c \in Clients, HandlerStep(c)
    PROVE  Abstract!Next \/ UNCHANGED Abstract!vars
  <1>1. UNCHANGED <<wpc, wtask, done>>
    <2>1. CASE ControlStep(c)
      BY <2>1, ProbeStep DEF workerVars, taskVars
    <2>2. CASE ~ControlStep(c)
      BY <2>2 DEF HandlerStep, Arrive, PutResumes, Enqueue, Block, PutTimesOut, HandlerReturns,
             CancelHandler, workerVars, taskVars
    <2> QED BY <2>1, <2>2
  <1>2. Busy' = Busy /\ Held' = Held
    BY <1>1, SameSlots
  <1>3. CASE Arrive(c) \/ PutResumes(c)
    <2>1. handler[c] \in {"new", "putting"} /\ Enqueue(c)
      BY <1>3 DEF Arrive, PutResumes
    <2>2. c \notin Queued \cup Held \cup done
      BY <2>1 DEF Inv, HandlerMatchesTask
    <2>3. Verdict(c) \in {"none", "open"} /\ Verdict(c)' = "open"
      BY <2>1, VerdictMoves DEF Verdict, Enqueue, Inv
    <2>4. \A d \in Clients \ {c} : Verdict(d)' = Verdict(d)
      BY <2>1, VerdictMoves DEF Enqueue, Inv
    <2>5. Abstract!Admit(c)
      BY <1>1, <1>2, <2>1, <2>2, <2>3, <2>4 DEF Enqueue, Abstract!Admit, Abstract!InLine, Queued, Held
    <2> QED BY <2>5 DEF Abstract!Next
  <1>4. CASE Block(c)
    <2>1. Verdict(c) = "none" /\ Verdict(c)' = "open"
      BY <1>4, VerdictMoves DEF Verdict, Block, Inv
    <2>2. \A d \in Clients \ {c} : Verdict(d)' = Verdict(d)
      BY <1>4, VerdictMoves DEF Block, Inv
    <2>3. Abstract!Ask(c)
      BY <1>1, <1>2, <1>4, <2>1, <2>2 DEF Block, Abstract!Ask, Held
    <2> QED BY <2>3 DEF Abstract!Next
  <1>5. CASE PutTimesOut(c)
    <2>1. Verdict(c) = "open" /\ Verdict(c)' = "refused"
      <3>1. handler[c] = "putting" /\ handler'[c] = "rejected"
        BY <1>5, VerdictMoves DEF PutTimesOut, Inv
      <3> QED BY <3>1 DEF Verdict
    <2>2. \A d \in Clients \ {c} : Verdict(d)' = Verdict(d)
      BY <1>5, VerdictMoves DEF PutTimesOut, Inv
    <2>3. c \notin Queued \cup Held \cup done
      BY <1>5 DEF Inv, HandlerMatchesTask, PutTimesOut
    <2>4. Abstract!Refuse(c)
      BY <1>1, <1>2, <1>5, <2>1, <2>2, <2>3 DEF PutTimesOut, Abstract!Refuse, Abstract!InLine, Queued, Held
    <2> QED BY <2>4 DEF Abstract!Next
  <1>6. CASE HandlerReturns(c)
    <2>1. Verdict(c) = "open" /\ Verdict(c)' = "answered"
      <3>1. handler[c] = "waiting" /\ handler'[c] \in {"served", "failed"}
        BY <1>6, VerdictMoves DEF HandlerReturns, Inv
      <3> QED BY <3>1 DEF Verdict
    <2>2. \A d \in Clients \ {c} : Verdict(d)' = Verdict(d)
      BY <1>6, VerdictMoves DEF HandlerReturns, Inv
    <2>3. Abstract!Answer(c)
      BY <1>1, <1>2, <1>6, <2>1, <2>2 DEF HandlerReturns, Abstract!Answer, Held
    <2> QED BY <2>3 DEF Abstract!Next
  <1>7. CASE CancelHandler(c)
    <2>1. \A d \in Clients \ {c} : Verdict(d)' = Verdict(d)
      BY <1>7, VerdictMoves DEF CancelHandler, Inv
    <2>2. CASE handler[c] \in DirectStages
      <3>1. Verdict(c) = "none" /\ Verdict(c)' = "none"
        BY <1>7, <2>2, VerdictMoves DEF CancelHandler, Unwound, Verdict, Inv, DirectStages
      <3> QED BY <1>1, <1>2, <1>7, <2>1, <3>1 DEF CancelHandler, Abstract!vars, Held
    <2>3. CASE handler[c] \notin DirectStages
      <3>1. Verdict(c) = "open" /\ Verdict(c)' = "abandoned"
        <4>1. handler[c] \in {"putting", "waiting"}
          BY <1>7, <2>3 DEF CancelHandler
        <4>2. handler' = [handler EXCEPT ![c] = "cancelled"]
          BY <1>7, <4>1 DEF CancelHandler, Unwound, DirectStages
        <4>3. handler'[c] = "cancelled"
          BY <4>2, VerdictMoves DEF Inv
        <4> QED BY <4>1, <4>3 DEF Verdict
      <3>2. Abstract!Abandon({c})
        BY <1>1, <1>2, <1>7, <2>1, <3>1 DEF CancelHandler, Abstract!Abandon, Held
      <3> QED BY <3>2 DEF Abstract!Next
    <2> QED BY <2>2, <2>3
  <1>8. CASE ControlStep(c)
    <2>1. PICK to \in DirectStages \cup {"ended"} : handler' = [handler EXCEPT ![c] = to]
      BY <1>8, ProbeStep
    <2>2. /\ \A d \in Clients \ {c} : Verdict(d)' = Verdict(d)
          /\ handler'[c] = to
      BY <2>1, VerdictMoves DEF Inv
    <2>3. Verdict(c) = "none" /\ Verdict(c)' = "none"
      BY <1>8, <2>2, ProbeStep DEF Verdict, DirectStages
    <2>4. queue' = queue
      BY <1>8, ProbeStep
    <2> QED BY <1>1, <1>2, <2>2, <2>3, <2>4 DEF Abstract!vars, Held
  <1> QED BY <1>3, <1>4, <1>5, <1>6, <1>7, <1>8 DEF HandlerStep

\* The next request of a client, and the changes the admission queue ignores.
LEMMA RefinesEnvironment ==
    ASSUME Inv, NEW c \in Clients, EnvironmentStep(c)
    PROVE  Abstract!Next \/ UNCHANGED Abstract!vars
  <1>1. UNCHANGED <<queue, wpc, wtask>>
    BY DEF EnvironmentStep, Disconnect, Recycle, BackendAborts, workerVars
  <1>2. Busy' = Busy /\ Held' = Held
    BY <1>1, SameSlots
  <1>3. CASE Disconnect(c) \/ BackendAborts(c)
    <2>1. handler' = handler /\ done' = done
      BY <1>3 DEF Disconnect, BackendAborts, handlerVars, taskVars
    <2>2. \A d \in Clients : Verdict(d)' = Verdict(d)
      BY <2>1 DEF Verdict
    <2> QED BY <1>1, <1>2, <2>1, <2>2 DEF Abstract!vars, Held
  <1>4. CASE Recycle(c)
    <2>1. \A d \in Clients \ {c} : Verdict(d)' = Verdict(d)
      BY <1>4, VerdictMoves DEF Recycle, Inv
    <2>2. Verdict(c)' = "none"
      <3>1. handler'[c] = "new" BY <1>4, VerdictMoves DEF Recycle, Inv
      <3> QED BY <3>1 DEF Verdict
    <2>3. done' = done \ {c} /\ handler[c] \in Outcomes
      BY <1>4 DEF Recycle
    <2>4. CASE handler[c] = "ended"
      <3>1. Verdict(c) = "none" BY <2>4 DEF Verdict
      <3>2. c \notin done BY <2>4 DEF Inv, HandlerMatchesTask
      <3> QED BY <1>1, <1>2, <2>1, <2>2, <2>3, <3>1, <3>2 DEF Abstract!vars, Held
    <2>5. CASE handler[c] # "ended"
      <3>1. Verdict(c) \in {"refused", "answered", "abandoned"}
        <4>1. CASE handler[c] = "rejected" BY <4>1 DEF Verdict
        <4>2. CASE handler[c] \in {"served", "failed"} BY <4>2 DEF Verdict
        <4>3. CASE handler[c] = "cancelled" BY <4>3 DEF Verdict
        <4> QED BY <2>3, <2>5, <4>1, <4>2, <4>3 DEF Outcomes
      <3>2. c \notin Queued \cup Held
        BY <1>4 DEF Recycle, Held, Busy
      <3>3. Abstract!Renew(c)
        BY <1>1, <1>2, <2>1, <2>2, <2>3, <3>1, <3>2
           DEF Abstract!Renew, Abstract!InLine, Queued, Held
      <3> QED BY <3>3 DEF Abstract!Next
    <2> QED BY <2>4, <2>5
  <1> QED BY <1>3, <1>4 DEF EnvironmentStep

\* A worker takes the head of the line, drops it, or completes its request.
LEMMA RefinesWorker ==
    ASSUME Inv, NEW w \in Workers, WorkerStep(w)
    PROVE  Abstract!Next \/ UNCHANGED Abstract!vars
  <1>1. handler' = handler
    BY DEF WorkerStep, SkipCancelled, TakeTask, ReadBody, BodyLost, Connected, ConnectFails,
       BackendReplies, StreamStarts, PrepareFails, Chunk, ClientTakes, WriteFails, StreamEnds,
       EofWritten, ReadFails, IdleTimeout, BackendFails, CancelIdle, CancelBusy, Goto, Finish,
       handlerVars
  <1>2. \A d \in Clients : Verdict(d)' = Verdict(d)
    BY <1>1 DEF Verdict
  <1>3. queue # <<>> => Head(queue) \in Queued /\ Head(queue) \in Clients
    <2>1. queue \in Seq(Clients) /\ \A i, j \in DOMAIN queue : queue[i] = queue[j] => i = j
      BY DEF Inv, TypeOK, ServedAtMostOnce
    <2> QED BY <2>1, TailElements DEF Queued
  <1>4. CASE SkipCancelled(w)
    <2>1. Busy' = Busy /\ Held' = Held /\ done' = done
      BY <1>4, SameSlots DEF SkipCancelled, workerVars, taskVars
    <2>2. queue # <<>> /\ queue' = Tail(queue) /\ Head(queue) \in cancelled
      BY <1>4 DEF SkipCancelled
    <2>3. handler[Head(queue)] = "cancelled"
      BY <1>3, <2>2 DEF Inv, TypeOK, HandlerMatchesTask, HandlerStates, Outcomes
    <2>4. Verdict(Head(queue)) = "abandoned"
      BY <2>3 DEF Verdict
    <2>5. Abstract!Drop
      BY <1>2, <1>3, <2>1, <2>2, <2>4 DEF Abstract!Drop, Held
    <2> QED BY <2>5 DEF Abstract!Next
  <1>5. CASE TakeTask(w)
    <2> DEFINE c == Head(queue)
    <2>1. /\ queue # <<>> /\ queue' = Tail(queue) /\ c \notin cancelled /\ wpc[w] = "get"
          /\ wpc' = [wpc EXCEPT ![w] = "body"] /\ wtask' = [wtask EXCEPT ![w] = c]
          /\ done' = done
      BY <1>5 DEF TakeTask, taskVars
    <2>2. c \in Queued /\ c \in Clients
      BY <1>3, <2>1
    <2> HIDE DEF c
    <2>3. Held' = Held \cup {c}
      BY <2>1, <2>2, SlotTaken DEF Inv
    <2>4. handler[c] = "waiting"
      BY <2>1, <2>2 DEF Inv, TypeOK, HandlerMatchesTask, HandlerStates, Outcomes, DoneIsOver
    <2>5. Verdict(c) = "open"
      BY <2>4 DEF Verdict
    <2>6. Cardinality(Held) < MaxConc
      BY <2>1, SlotFree
    <2>7. Abstract!Start
      <3>1. /\ Head(queue) \in Clients /\ Verdict(Head(queue)) = "open"
            /\ Held' = Held \cup {Head(queue)}
        BY <2>2, <2>3, <2>5 DEF c
      <3>2. [d \in Clients |-> Verdict(d)][Head(queue)] = "open"
        BY <3>1
      <3>3. [d \in Clients |-> Verdict(d)]' = [d \in Clients |-> Verdict(d)]
        BY <1>2
      <3>4. UNCHANGED <<done, [d \in Clients |-> Verdict(d)]>>
        BY <2>1, <3>3
      <3>5. Abstract!Cardinality(Held) < MaxConc
        BY <2>6 DEF Abstract!Cardinality, Cardinality, Abstract!IsFiniteSet, IsFiniteSet
      <3> QED BY <2>1, <3>1, <3>2, <3>4, <3>5 DEF Abstract!Start, Held
    <2> QED BY <2>7 DEF Abstract!Next
  <1>6. CASE ~SkipCancelled(w) /\ ~TakeTask(w) /\ ~CancelIdle(w)
    <2>1. /\ wpc[w] \in BusyStages
          /\ \/ \E stage \in BusyStages : MovesOn(w, stage)
             \/ \E outcome \in {"response", "exc"} : Leaves(w, outcome)
      BY <1>6, BusyStep
    <2>2. w \in Busy /\ wtask[w] \in Held /\ wtask[w] \in Clients
      BY <2>1 DEF Busy, Held, Inv, WorkersHold
    <2>3. CASE \E stage \in BusyStages : MovesOn(w, stage)
      <3>1. Held' = Held /\ queue' = queue /\ done' = done
        BY <2>2, <2>3, StageChange DEF MovesOn, Inv
      <3> QED BY <1>2, <3>1 DEF Abstract!vars, Held
    <2>4. CASE \E outcome \in {"response", "exc"} : Leaves(w, outcome)
      <3>1. PICK c \in Clients : c = wtask[w]
        BY <2>2
      <3>2. /\ wpc' = [wpc EXCEPT ![w] = "get"] /\ wtask' = [wtask EXCEPT ![w] = NoClient]
            /\ done' = done \cup {c} /\ queue' = queue
        BY <2>4, <3>1 DEF Leaves, Finish
      <3>3. Held' = Held \ {c}
        BY <2>2, <3>1, <3>2, SlotGiven DEF Inv
      <3>4. Abstract!Complete(c)
        BY <1>2, <2>2, <3>1, <3>2, <3>3 DEF Abstract!Complete, Held
      <3> QED BY <3>4 DEF Abstract!Next
    <2> QED BY <2>1, <2>3, <2>4
  <1>7. CASE CancelIdle(w)
    <2>1. Busy' = Busy /\ wtask' = wtask /\ queue' = queue /\ done' = done
      BY <1>7 DEF CancelIdle, Inv, TypeOK, Busy, BusyStages, RelayStages, taskVars
    <2>2. Held' = Held
      BY <2>1 DEF Held
    <2> QED BY <1>2, <2>1, <2>2 DEF Abstract!vars, Held
  <1> QED BY <1>4, <1>5, <1>6, <1>7

\* The end of the process leaves every client that still waits.
LEMMA RefinesProcess ==
    ASSUME Inv, Sigterm \/ Exit
    PROVE  Abstract!Next \/ UNCHANGED Abstract!vars
  <1>1. UNCHANGED <<queue, wpc, wtask, done>>
    BY DEF Sigterm, Exit, workerVars, taskVars
  <1>2. Busy' = Busy /\ Held' = Held
    BY <1>1, SameSlots
  <1>3. CASE Sigterm
    <2>1. \A d \in Clients : Verdict(d)' = Verdict(d)
      BY <1>3 DEF Sigterm, handlerVars, Verdict
    <2> QED BY <1>1, <1>2, <2>1 DEF Abstract!vars, Held
  <1>4. CASE Exit
    <2> DEFINE S == {c \in Clients : handler[c] \in {"putting", "waiting"}}
    <2>1. ASSUME NEW c \in S PROVE Verdict(c) = "open" /\ Verdict(c)' = "abandoned"
      <3>1. handler'[c] = "cancelled" BY <1>4 DEF Exit, Unwound, DirectStages
      <3> QED BY <3>1 DEF Verdict
    <2>2. ASSUME NEW c \in Clients \ S PROVE Verdict(c)' = Verdict(c)
      <3>1. CASE handler[c] \in DirectStages
        <4>1. handler'[c] = "ended" BY <1>4, <3>1 DEF Exit, Unwound
        <4> QED BY <3>1, <4>1 DEF Verdict, DirectStages
      <3>2. CASE handler[c] \notin DirectStages
        <4>1. handler'[c] = handler[c] BY <1>4, <2>2, <3>2 DEF Exit, Unwound
        <4> QED BY <4>1 DEF Verdict
      <3> QED BY <3>1, <3>2
    <2>3. S \in SUBSET Clients OBVIOUS
    <2> HIDE DEF S
    <2>4. Abstract!Abandon(S)
      BY <1>1, <1>2, <2>1, <2>2, <2>3 DEF Abstract!Abandon, Held
    <2> QED BY <2>3, <2>4 DEF Abstract!Next
  <1> QED BY <1>3, <1>4

\* The gateway keeps the promise of the admission queue: first come first
\* served, at most MaxConc at a time, refused requests never served, and
\* every answer after the request's own service.
THEOREM GatewayRefinesAdmissionQueue == Spec => ImplementsAdmissionQueue
  <1>1. Inv /\ [Next]_vars => [Abstract!Next]_(Abstract!vars)
    <2> SUFFICES ASSUME Inv, [Next]_vars PROVE Abstract!Next \/ UNCHANGED Abstract!vars
      OBVIOUS
    <2>1. CASE UNCHANGED vars
      BY <2>1 DEF vars, handlerVars, taskVars, workerVars, Abstract!vars, Busy, Verdict
    <2>2. CASE Next
      BY <2>2, RefinesHandler, RefinesEnvironment, RefinesWorker, RefinesProcess DEF Next
    <2> QED BY <2>1, <2>2
  <1> QED BY <1>1, RefinesInit, Invariance, PTL DEF Spec, ImplementsAdmissionQueue, Abstract!Spec
=============================================================================
