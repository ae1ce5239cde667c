-------------------------- MODULE ConcurrencyProxy --------------------------
(***************************************************************************)
(* The gateway in front of vLLM: concurrency_proxy.py.  One asyncio        *)
(* process accepts client requests, puts each in a bounded queue, and      *)
(* MAX_CONCURRENCY worker coroutines forward them to the backend.          *)
(*                                                                         *)
(* An element of Clients is a client connection: it carries one request at *)
(* a time, and after the answer it may carry another one (Recycle).  A     *)
(* step is what one coroutine does between two suspensions (two awaits     *)
(* that really suspend), so the interleavings are those of the event loop. *)
(*                                                                         *)
(* Abstracted: headers, bodies, URLs and chunk contents.  Time is          *)
(* abstracted to the possibility that a timer fires while its await is     *)
(* pending.                                                                *)
(***************************************************************************)
EXTENDS Naturals, Sequences, FiniteSets

CONSTANTS
    Clients,              \* client connections
    Probes,               \* those that only ask for control-plane paths
    NoClient,             \* "no request": the local variable task of an idle worker
    MaxConc,              \* MAX_CONCURRENCY
    MaxQueue,             \* MAX_QUEUE
    HandlerCancellation,  \* does aiohttp cancel a handler whose client has left?
    MayStop               \* may SIGTERM arrive in this instance?

ASSUME ConcAssumption    == MaxConc \in Nat \ {0}
ASSUME QueueAssumption   == MaxQueue \in Nat
ASSUME ClientsAssumption == NoClient \notin Clients /\ Probes \subseteq Clients
ASSUME SwitchAssumption  == HandlerCancellation \in BOOLEAN /\ MayStop \in BOOLEAN

Capacity == MaxQueue + MaxConc
Workers  == 0 .. (MaxConc - 1)

VARIABLES
    queue,       \* asyncio.Queue of tasks, each named by its client
    unfinished,  \* the queue's count of tasks without task_done()
    in_flight,   \* self.in_flight
    handler,     \* where the coroutine handle() of each client is
    cancelled,   \* clients whose task.cancelled is True
    done,        \* clients whose task.done is set
    result,      \* task.response / task.exc
    prepared,    \* clients that have already been sent a status line by a stream
    gone,        \* clients whose connection is lost
    wpc,         \* where each worker is in _worker and _forward_request
    wtask,       \* the worker's local variable task
    cancelling,  \* workers with a cancel() not yet delivered
    backend,     \* requests the backend is executing
    phase        \* the process: "serving", "stopping" (_shutdown) or "exited"

handlerVars == <<handler, cancelled, gone>>
taskVars    == <<done, result, prepared>>
workerVars  == <<wpc, wtask, cancelling>>
countVars   == <<in_flight, unfinished>>
vars == <<queue, countVars, handlerVars, taskVars, workerVars, backend, phase>>

(* "new" no request; "putting" blocked in queue.put; "waiting" on          *)
(* task.done; a probe in _forward_direct is in request.read ("reading"),   *)
(* connects, or asks the backend, and has "ended" after it; the others are *)
(* outcomes.                                                               *)
Outcomes      == {"rejected", "served", "failed", "cancelled", "ended"}
DirectStages  == {"reading", "connecting", "asking"}
HandlerStates == {"new", "putting", "waiting"} \cup DirectStages \cup Outcomes

(* "get" in queue.get; "body" in request.read; "connect" in session.request *)
(* before the connection exists; "await" until the backend has answered (or *)
(* has sent its headers, for a stream); "stream" in iter_any; "write" in    *)
(* client_resp.write; "eof" in the write_eof of a stream that has ended,    *)
(* "abort" in that of a stream that has failed; "dead" the coroutine has    *)
(* ended.                                                                   *)
RelayStages  == {"stream", "write", "eof", "abort"}
BusyStages   == {"body", "connect", "await"} \cup RelayStages
WorkerStages == {"get", "dead"} \cup BusyStages

Busy   == {w \in Workers : wpc[w] \in BusyStages}
Queued == {queue[i] : i \in DOMAIN queue}

Init ==
    /\ queue = <<>>
    /\ unfinished = 0
    /\ in_flight = 0
    /\ handler = [c \in Clients |-> "new"]
    /\ cancelled = {}
    /\ done = {}
    /\ result = [c \in Clients |-> "none"]
    /\ prepared = {}
    /\ gone = {}
    /\ wpc = [w \in Workers |-> "get"]
    /\ wtask = [w \in Workers |-> NoClient]
    /\ cancelling = {}
    /\ backend = {}
    /\ phase = "serving"

(***************************************************************************)
(* handle(): admission.                                                    *)
(***************************************************************************)
Enqueue(c) ==
    /\ Len(queue) < Capacity
    /\ queue' = Append(queue, c)
    /\ unfinished' = unfinished + 1
    /\ handler' = [handler EXCEPT ![c] = "waiting"]
    /\ UNCHANGED <<in_flight, cancelled, gone, taskVars, workerVars, backend, phase>>

\* A put on a queue with room does not suspend.
Arrive(c) ==
    /\ phase # "exited"
    /\ c \notin Probes
    /\ handler[c] = "new"
    /\ Enqueue(c)

\* The queue is full: the handler blocks in queue.put, under wait_for.
Block(c) ==
    /\ phase # "exited"
    /\ c \notin Probes
    /\ handler[c] = "new"
    /\ Len(queue) >= Capacity
    /\ handler' = [handler EXCEPT ![c] = "putting"]
    /\ UNCHANGED <<queue, countVars, cancelled, gone, taskVars, workerVars, backend, phase>>

\* A blocked put that finds room; newcomers may have taken it first.
PutResumes(c) ==
    /\ handler[c] = "putting"
    /\ Enqueue(c)

\* Mutant: the put goes on after its timeout (a shielded put).
PutTimesOutKeepsPut(c) ==
    /\ handler[c] = "putting"
    /\ queue' = Append(queue, c)
    /\ unfinished' = unfinished + 1
    /\ handler' = [handler EXCEPT ![c] = "rejected"]
    /\ UNCHANGED <<in_flight, cancelled, gone, taskVars, workerVars, backend, phase>>

\* QUEUE_PUT_TIMEOUT_S: 429, also when the room was made in the same iteration.
PutTimesOut(c) ==
    /\ handler[c] = "putting"
    /\ handler' = [handler EXCEPT ![c] = "rejected"]
    /\ UNCHANGED <<queue, countVars, cancelled, gone, taskVars, workerVars, backend, phase>>

\* task.done is set: the handler resumes and answers.
HandlerReturns(c) ==
    /\ handler[c] = "waiting"
    /\ c \in done
    /\ handler' = [handler EXCEPT ![c] = IF result[c] = "exc" THEN "failed" ELSE "served"]
    /\ UNCHANGED <<queue, countVars, cancelled, gone, taskVars, workerVars, backend, phase>>

\* Where a handler ends that CancelledError unwinds.
Unwound(c) ==
    CASE handler[c] \in {"putting", "waiting"} -> "cancelled"
      [] handler[c] \in DirectStages           -> "ended"
      [] OTHER                                 -> handler[c]

\* The CancelledError in handle(): a put is abandoned, a task is marked.
CancelHandler(c) ==
    /\ HandlerCancellation
    /\ c \in gone
    /\ handler[c] \in {"putting", "waiting"} \cup DirectStages
    /\ handler' = [handler EXCEPT ![c] = Unwound(c)]
    /\ cancelled' = IF handler[c] = "waiting" THEN cancelled \cup {c} ELSE cancelled
    /\ UNCHANGED <<queue, countVars, gone, taskVars, workerVars, backend, phase>>

\* Control-plane paths bypass the queue; the gateway's own health is told
\* without reading a body.
ControlArrives(c) ==
    /\ phase # "exited"
    /\ c \in Probes
    /\ handler[c] = "new"
    /\ \E stage \in {"reading", "connecting"} : handler' = [handler EXCEPT ![c] = stage]
    /\ UNCHANGED <<queue, countVars, cancelled, gone, taskVars, workerVars, backend, phase>>

ProbeMoves(c, from, to) ==
    /\ handler[c] = from
    /\ handler' = [handler EXCEPT ![c] = to]
    /\ UNCHANGED <<queue, countVars, cancelled, gone, taskVars, workerVars, backend, phase>>

\* request.read(): no timer bounds it, only the loss of the connection ends it.
ControlBody(c)      == ProbeMoves(c, "reading", "connecting")
ControlBodyLost(c)  == c \in gone /\ ProbeMoves(c, "reading", "ended")

ControlConnected(c) == ProbeMoves(c, "connecting", "asking")
ControlReplies(c)   == ProbeMoves(c, "asking", "ended")

\* The connection is refused, or a timer of _forward_direct or _proxy_health
\* fires.
ControlTimesOut(c) ==
    \/ ProbeMoves(c, "connecting", "ended")
    \/ ProbeMoves(c, "asking", "ended")

(***************************************************************************)
(* Clients (environment).                                                  *)
(***************************************************************************)
Disconnect(c) ==
    /\ handler[c] \in {"putting", "waiting"} \cup DirectStages
    /\ c \notin gone
    /\ gone' = gone \cup {c}
    /\ UNCHANGED <<queue, countVars, handler, cancelled, taskVars, workerVars, backend, phase>>

\* The next request of a client, once nothing of the previous one is left.
Recycle(c) ==
    /\ phase # "exited"
    /\ handler[c] \in Outcomes
    /\ c \notin Queued \cup backend
    /\ \A w \in Workers : wtask[w] # c
    /\ handler' = [handler EXCEPT ![c] = "new"]
    /\ result' = [result EXCEPT ![c] = "none"]
    /\ cancelled' = cancelled \ {c}
    /\ gone' = gone \ {c}
    /\ done' = done \ {c}
    /\ prepared' = prepared \ {c}
    /\ UNCHANGED <<queue, countVars, workerVars, backend, phase>>

(***************************************************************************)
(* _worker().                                                              *)
(***************************************************************************)
TaskDone == unfinished' = unfinished - 1

\* Mutant: a skipped task goes through the finally clause, too.
SkipCancelledDecrements(w) ==
    /\ wpc[w] = "get"
    /\ w \notin cancelling
    /\ queue # <<>>
    /\ Head(queue) \in cancelled
    /\ queue' = Tail(queue)
    /\ TaskDone
    /\ in_flight' = in_flight - 1
    /\ UNCHANGED <<handlerVars, taskVars, workerVars, backend, phase>>

SkipCancelled(w) ==
    /\ wpc[w] = "get"
    /\ w \notin cancelling
    /\ queue # <<>>
    /\ Head(queue) \in cancelled
    /\ queue' = Tail(queue)
    /\ TaskDone
    /\ UNCHANGED <<in_flight, handlerVars, taskVars, workerVars, backend, phase>>

\* Mutant: the task is read but stays in the queue until it is done.
TakeTaskPeeks(w) ==
    /\ wpc[w] = "get"
    /\ w \notin cancelling
    /\ queue # <<>>
    /\ Head(queue) \notin cancelled
    /\ wpc' = [wpc EXCEPT ![w] = "body"]
    /\ wtask' = [wtask EXCEPT ![w] = Head(queue)]
    /\ in_flight' = in_flight + 1
    /\ UNCHANGED <<queue, unfinished, cancelling, handlerVars, taskVars, backend, phase>>

\* Mutant: no check of task.cancelled.
TakeTaskUnchecked(w) ==
    /\ wpc[w] = "get"
    /\ w \notin cancelling
    /\ queue # <<>>
    /\ queue' = Tail(queue)
    /\ wpc' = [wpc EXCEPT ![w] = "body"]
    /\ wtask' = [wtask EXCEPT ![w] = Head(queue)]
    /\ in_flight' = in_flight + 1
    /\ UNCHANGED <<unfinished, cancelling, handlerVars, taskVars, backend, phase>>

TakeTask(w) ==
    /\ wpc[w] = "get"
    /\ w \notin cancelling
    /\ queue # <<>>
    /\ Head(queue) \notin cancelled
    /\ queue' = Tail(queue)
    /\ wpc' = [wpc EXCEPT ![w] = "body"]
    /\ wtask' = [wtask EXCEPT ![w] = Head(queue)]
    /\ in_flight' = in_flight + 1
    /\ UNCHANGED <<unfinished, cancelling, handlerVars, taskVars, backend, phase>>

\* Mutants: the decrement, or done.set(), is not in the finally clause.
FinishLeaksSlot(w, outcome) ==
    /\ wpc' = [wpc EXCEPT ![w] = "get"]
    /\ wtask' = [wtask EXCEPT ![w] = NoClient]
    /\ result' = [result EXCEPT ![wtask[w]] = outcome]
    /\ done' = done \cup {wtask[w]}
    /\ in_flight' = IF outcome = "exc" THEN in_flight ELSE in_flight - 1
    /\ TaskDone
    /\ UNCHANGED <<queue, handlerVars, prepared, phase>>

FinishForgetsDone(w, outcome) ==
    /\ wpc' = [wpc EXCEPT ![w] = "get"]
    /\ wtask' = [wtask EXCEPT ![w] = NoClient]
    /\ result' = [result EXCEPT ![wtask[w]] = outcome]
    /\ done' = IF outcome = "exc" THEN done ELSE done \cup {wtask[w]}
    /\ in_flight' = in_flight - 1
    /\ TaskDone
    /\ UNCHANGED <<queue, handlerVars, prepared, phase>>

\* The except and finally clauses, and the loop back to queue.get.
Finish(w, outcome) ==
    /\ wpc' = [wpc EXCEPT ![w] = "get"]
    /\ wtask' = [wtask EXCEPT ![w] = NoClient]
    /\ result' = [result EXCEPT ![wtask[w]] = outcome]
    /\ done' = done \cup {wtask[w]}
    /\ in_flight' = in_flight - 1
    /\ TaskDone
    /\ UNCHANGED <<queue, handlerVars, prepared, phase>>

(***************************************************************************)
(* _forward_request() and _relay_stream().                                 *)
(***************************************************************************)
At(w, stage) == wpc[w] = stage /\ w \notin cancelling

Goto(w, stage) ==
    /\ wpc' = [wpc EXCEPT ![w] = stage]
    /\ UNCHANGED <<queue, countVars, handlerVars, done, result, wtask, cancelling, phase>>

\* request.read(): no timer bounds it.
ReadBody(w) ==
    /\ At(w, "body")
    /\ Goto(w, "connect")
    /\ UNCHANGED <<prepared, backend>>

BodyLost(w) ==
    /\ At(w, "body")
    /\ wtask[w] \in gone
    /\ Finish(w, "exc")
    /\ UNCHANGED <<cancelling, backend>>

Connected(w) ==
    /\ At(w, "connect")
    /\ Goto(w, "await")
    /\ backend' = backend \cup {wtask[w]}
    /\ UNCHANGED prepared

\* Mutant: the exception is not caught and ends the worker.
ConnectFailsKillsWorker(w) ==
    /\ At(w, "connect")
    /\ Goto(w, "dead")
    /\ UNCHANGED <<prepared, backend>>

\* Refused, or CONNECT_TIMEOUT_S.
ConnectFails(w) ==
    /\ At(w, "connect")
    /\ Finish(w, "exc")
    /\ UNCHANGED <<cancelling, backend>>

\* A buffered answer has been read completely.
BackendReplies(w) ==
    /\ At(w, "await")
    /\ wtask[w] \in backend
    /\ Finish(w, "response")
    /\ backend' = backend \ {wtask[w]}
    /\ UNCHANGED cancelling

\* The headers of a stream: client_resp.prepare sends the status line.
StreamStarts(w) ==
    /\ At(w, "await")
    /\ wtask[w] \in backend
    /\ prepared' = prepared \cup {wtask[w]}
    /\ Goto(w, "stream")
    /\ UNCHANGED backend

\* prepare() raises for a lost client; it is outside the try of _relay_stream.
PrepareFails(w) ==
    /\ At(w, "await")
    /\ wtask[w] \in backend \cap gone
    /\ Finish(w, "exc")
    /\ UNCHANGED <<cancelling, backend>>

Chunk(w) ==
    /\ At(w, "stream")
    /\ wtask[w] \in backend
    /\ Goto(w, "write")
    /\ UNCHANGED <<prepared, backend>>

\* client_resp.write returns; nothing bounds the time a slow client takes.
ClientTakes(w) ==
    /\ At(w, "write")
    /\ wtask[w] \notin gone
    /\ Goto(w, "stream")
    /\ UNCHANGED <<prepared, backend>>

\* Mutant: the reset is swallowed inside the loop, which goes on writing.
WriteFailsGoesOn(w) ==
    /\ At(w, "write")
    /\ wtask[w] \in gone
    /\ Goto(w, "write")
    /\ UNCHANGED <<prepared, backend>>

\* ConnectionResetError: the relay stops, the backend connection is closed,
\* the task ends as a response.
WriteFails(w) ==
    /\ At(w, "write")
    /\ wtask[w] \in gone
    /\ Finish(w, "response")
    /\ UNCHANGED <<cancelling, backend>>

\* The finally clause: write_eof waits for the client like a write does.
StreamEnds(w) ==
    /\ At(w, "stream")
    /\ wtask[w] \in backend
    /\ Goto(w, "eof")
    /\ backend' = backend \ {wtask[w]}
    /\ UNCHANGED prepared

\* write_eof returns, or its exception for a lost client is swallowed.
EofWritten(w) ==
    /\ \/ At(w, "eof") /\ Finish(w, "response")
       \/ At(w, "abort") /\ Finish(w, "exc")
    /\ UNCHANGED <<cancelling, backend>>

\* The exception of a failed read: before the headers it leaves the forward,
\* within a stream it passes through the finally clause first.
ReadFails(w) ==
    \/ At(w, "await") /\ Finish(w, "exc") /\ UNCHANGED cancelling
    \/ At(w, "stream") /\ Goto(w, "abort") /\ UNCHANGED prepared

\* Mutants: the timer covers the headers only; a timeout is retried.
IdleTimeoutHeadersOnly(w) ==
    /\ At(w, "await")
    /\ Finish(w, "exc")
    /\ UNCHANGED <<cancelling, backend>>

IdleTimeoutRetries(w) ==
    /\ At(w, "await")
    /\ queue' = Append(queue, wtask[w])
    /\ wpc' = [wpc EXCEPT ![w] = "get"]
    /\ wtask' = [wtask EXCEPT ![w] = NoClient]
    /\ in_flight' = in_flight - 1
    /\ UNCHANGED <<unfinished, cancelling, handlerVars, taskVars, backend, phase>>

\* STREAM_IDLE_TIMEOUT_S (sock_read).
IdleTimeout(w) == ReadFails(w) /\ UNCHANGED backend

\* The backend drops the connection, or dies.
BackendFails(w) ==
    /\ wtask[w] \in backend
    /\ ReadFails(w)
    /\ backend' = backend \ {wtask[w]}

\* The backend finds out that the connection of a request was closed.
BackendAborts(c) ==
    /\ c \in backend
    /\ \A w \in Workers : wtask[w] # c
    /\ backend' = backend \ {c}
    /\ UNCHANGED <<queue, countVars, handlerVars, taskVars, workerVars, phase>>

(***************************************************************************)
(* run() and _shutdown().                                                  *)
(***************************************************************************)
Sigterm ==
    /\ MayStop
    /\ phase = "serving"
    /\ phase' = "stopping"
    /\ cancelling' = Workers
    /\ UNCHANGED <<queue, countVars, handlerVars, taskVars, wpc, wtask, backend>>

\* Mutant: the loop catches the CancelledError of queue.get, too.
CancelIdleCaught(w) ==
    /\ w \in cancelling
    /\ wpc[w] = "get"
    /\ cancelling' = cancelling \ {w}
    /\ UNCHANGED <<queue, countVars, handlerVars, taskVars, wpc, wtask, backend, phase>>

\* The CancelledError is thrown into a worker that waits in queue.get.
CancelIdle(w) ==
    /\ w \in cancelling
    /\ wpc[w] = "get"
    /\ wpc' = [wpc EXCEPT ![w] = "dead"]
    /\ cancelling' = cancelling \ {w}
    /\ UNCHANGED <<queue, countVars, handlerVars, taskVars, wtask, backend, phase>>

\* Inside the try of _worker the CancelledError is caught: the task gets
\* exc = "cancelled" and the while loop goes on.  In the try of _relay_stream
\* it meets the finally clause first.
CancelBusy(w) ==
    /\ w \in cancelling
    /\ IF wpc[w] \in {"stream", "write"}
          THEN /\ wpc' = [wpc EXCEPT ![w] = "abort"]
               /\ UNCHANGED <<queue, countVars, handlerVars, taskVars, wtask, phase>>
          ELSE wpc[w] \in BusyStages /\ Finish(w, "exc")
    /\ cancelling' = cancelling \ {w}
    /\ UNCHANGED backend

\* Mutant: the handlers are left.
ExitLeavesHandlers ==
    /\ phase = "stopping"
    /\ \A w \in Workers : wpc[w] = "dead"
    /\ phase' = "exited"
    /\ UNCHANGED <<queue, countVars, handlerVars, taskVars, workerVars, backend>>

\* gather() returns, the session is closed, asyncio.run cancels what is left.
Exit ==
    /\ phase = "stopping"
    /\ \A w \in Workers : wpc[w] = "dead"
    /\ phase' = "exited"
    /\ cancelled' = cancelled \cup {c \in Clients : handler[c] = "waiting"}
    /\ handler' = [c \in Clients |-> Unwound(c)]
    /\ UNCHANGED <<queue, countVars, gone, taskVars, workerVars, backend>>

(***************************************************************************)
(* The specification.                                                      *)
(***************************************************************************)
ControlStep(c) ==
    \/ ControlArrives(c) \/ ControlBody(c) \/ ControlBodyLost(c)
    \/ ControlConnected(c) \/ ControlReplies(c) \/ ControlTimesOut(c)

HandlerStep(c) ==
    \/ Arrive(c) \/ Block(c) \/ PutResumes(c) \/ PutTimesOut(c)
    \/ HandlerReturns(c) \/ CancelHandler(c) \/ ControlStep(c)

EnvironmentStep(c) == Disconnect(c) \/ Recycle(c) \/ BackendAborts(c)

WorkerStep(w) ==
    \/ SkipCancelled(w) \/ TakeTask(w)
    \/ ReadBody(w) \/ BodyLost(w) \/ Connected(w) \/ ConnectFails(w)
    \/ BackendReplies(w) \/ StreamStarts(w) \/ PrepareFails(w)
    \/ Chunk(w) \/ ClientTakes(w) \/ WriteFails(w) \/ StreamEnds(w)
    \/ EofWritten(w) \/ IdleTimeout(w) \/ BackendFails(w)
    \/ CancelIdle(w) \/ CancelBusy(w)

Next ==
    \/ \E c \in Clients : HandlerStep(c) \/ EnvironmentStep(c)
    \/ \E w \in Workers : WorkerStep(w)
    \/ Sigterm
    \/ Exit

Spec == Init /\ [][Next]_vars

(* The event loop runs every coroutine that can run, and every timer that  *)
(* is armed long enough fires.  Nothing is assumed of the clients: a body, *)
(* of a request or of a probe, may never come.  A backend may be silent; a *)
(* buffered answer that trickles in and keeps resetting sock_read is       *)
(* outside the model.                                                      *)
LoopFairness ==
    /\ \A c \in Clients : /\ WF_vars(HandlerReturns(c))
                          /\ WF_vars(PutResumes(c) \/ PutTimesOut(c))
                          /\ WF_vars(ControlBodyLost(c))
                          /\ WF_vars(ControlTimesOut(c))
    /\ \A w \in Workers : /\ WF_vars(SkipCancelled(w) \/ TakeTask(w))
                          /\ WF_vars(BodyLost(w))
                          /\ WF_vars(ConnectFails(w))
                          /\ WF_vars(IdleTimeout(w))
                          /\ WF_vars(WriteFails(w))
                          /\ WF_vars(wtask[w] \in gone /\ EofWritten(w))
                          /\ WF_vars(CancelIdle(w) \/ CancelBusy(w))
    /\ WF_vars(Exit)

(* Clients send the bodies they announced and read the streams they asked  *)
(* for; the backend ends every stream it keeps feeding (max_tokens).       *)
Cooperation ==
    \A w \in Workers : /\ WF_vars(ReadBody(w))
                       /\ WF_vars(ClientTakes(w))
                       /\ WF_vars(EofWritten(w))
                       /\ SF_vars(StreamEnds(w))

FairSpec        == Spec /\ LoopFairness
CooperativeSpec == FairSpec /\ Cooperation

(***************************************************************************)
(* Safety.                                                                 *)
(***************************************************************************)
TypeOK ==
    /\ queue \in Seq(Clients)
    /\ unfinished \in Nat
    /\ in_flight \in Nat
    /\ handler \in [Clients -> HandlerStates]
    /\ cancelled \in SUBSET Clients
    /\ done \in SUBSET Clients
    /\ result \in [Clients -> {"none", "response", "exc"}]
    /\ prepared \in SUBSET Clients
    /\ gone \in SUBSET Clients
    /\ wpc \in [Workers -> WorkerStages]
    /\ wtask \in [Workers -> Clients \cup {NoClient}]
    /\ cancelling \in SUBSET Workers
    /\ backend \in SUBSET Clients
    /\ phase \in {"serving", "stopping", "exited"}

(* What /v1/proxy/health reports as in_flight is the number of occupied    *)
(* slots on every path out of a forward, and the queue's unfinished count  *)
(* is exact, so that task_done() never raises in a finally clause and      *)
(* kills the worker.                                                       *)
SlotAccounting ==
    /\ in_flight = Cardinality(Busy)
    /\ unfinished = Len(queue) + in_flight

(* A task is at one place only: never twice in the queue, never with two   *)
(* workers, never queued again while it is being forwarded.                *)
ServedAtMostOnce ==
    /\ \A i, j \in DOMAIN queue : queue[i] = queue[j] => i = j
    /\ \A v, w \in Busy : wtask[v] = wtask[w] => v = w
    /\ \A w \in Busy : wtask[w] \notin Queued

(* No request is lost between the handler and the workers: a handler that  *)
(* waits on task.done has its task queued, with a worker, or done.         *)
NoLostRequest ==
    \A c \in Clients : handler[c] = "waiting" =>
        c \in Queued \cup done \cup {wtask[w] : w \in Busy}

(* A client that was told 429 has nothing queued or forwarded: a retry     *)
(* after Retry-After is never a second execution of the same request.      *)
RejectedLeavesNoTrace ==
    \A c \in Clients : handler[c] = "rejected" =>
        c \notin Queued \cup backend \cup {wtask[w] : w \in Busy}

(* The proxy holds at most one backend connection per worker, and every    *)
(* request the backend executes without one has already been answered.     *)
BackendOnlyForwarded ==
    \A c \in backend : c \in done \cup {wtask[w] : w \in Busy}

(***************************************************************************)
(* Liveness.                                                               *)
(***************************************************************************)
(* Every request that is accepted, or waits to be, gets an answer.         *)
EveryRequestAnswered ==
    \A c \in Clients : handler[c] \in {"putting", "waiting"} ~> handler[c] \in Outcomes

(* Every slot that is taken is given back.                                 *)
SlotReleased == \A w \in Workers : wpc[w] \in BusyStages ~> wpc[w] = "get"

(* A backend that goes silent, before or after its headers, cannot keep a  *)
(* slot: the worker gets back to the queue or is writing to its client.    *)
(* Nor can it keep a probe that has been read, whatever the queue and the  *)
(* slots look like.                                                        *)
SilentBackendHoldsNobody ==
    /\ \A w \in Workers :
          wpc[w] \in {"connect", "await", "stream"} ~> wpc[w] \in {"get", "write", "eof", "abort"}
    /\ \A c \in Probes :
          handler[c] \in {"connecting", "asking"} ~> handler[c] \notin {"connecting", "asking"}

(* A SIGTERM that finds every worker idle ends the process.  One that      *)
(* finds a worker forwarding may not: see CancelBusy.                      *)
IdleShutdownCompletes ==
    (phase = "stopping" /\ cancelling = Workers /\ Busy = {}) ~> phase = "exited"

(***************************************************************************)
(* The gateway implements the admission queue: a slot is a busy worker,    *)
(* and the workers take turns in the order of the line.                    *)
(***************************************************************************)
Verdict(c) ==
    CASE handler[c] \in {"putting", "waiting"} -> "open"
      [] handler[c] = "rejected"               -> "refused"
      [] handler[c] \in {"served", "failed"}   -> "answered"
      [] handler[c] = "cancelled"              -> "abandoned"
      [] OTHER                                 -> "none"

Abstract == INSTANCE AdmissionQueue WITH
    Slots    <- MaxConc,
    Room     <- Capacity,
    line     <- queue,
    serving  <- {wtask[w] : w \in Busy},
    finished <- done,
    verdict  <- [c \in Clients |-> Verdict(c)]

(* Requests start in the order they were accepted, at most MaxConc at a    *)
(* time and Capacity waiting; refused ones never start, abandoned ones are *)
(* dropped in the line, and an answer follows the request's own service.   *)
ImplementsAdmissionQueue == Abstract!Spec

(***************************************************************************)
(* What the documentation says and the code does not do (see README).      *)
(***************************************************************************)
(* concurrency_proxy.py:193: an exception in a forward is answered by 502, *)
(* so for a client that is there to read its answer, a 502 never follows a *)
(* status line that was already sent.                                      *)
FailureIs502 ==
    \A c \in Clients \ gone : handler[c] = "failed" => c \notin prepared
=============================================================================
