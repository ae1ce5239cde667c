--------------------------- MODULE AdmissionQueue ---------------------------
(***************************************************************************)
(* What the gateway promises, without coroutines, timers or streams: a     *)
(* bounded first-in first-out line in front of a bounded set of slots.     *)
(* A request is answered only when its own service is over, a refused one  *)
(* is never served, and one that was abandoned in the line is dropped when *)
(* its turn comes.                                                         *)
(***************************************************************************)
EXTENDS Naturals, Sequences, FiniteSets

CONSTANTS Clients, Slots, Room

VARIABLES
    line,      \* the requests waiting for a slot, oldest first
    serving,   \* the requests that hold a slot
    finished,  \* the requests whose service is over
    verdict    \* what each client knows of its request

vars == <<line, serving, finished, verdict>>

InLine == {line[i] : i \in DOMAIN line}

Init ==
    /\ line = <<>>
    /\ serving = {}
    /\ finished = {}
    /\ verdict = [c \in Clients |-> "none"]

Ask(c) ==
    /\ verdict[c] = "none"
    /\ verdict' = [verdict EXCEPT ![c] = "open"]
    /\ UNCHANGED <<line, serving, finished>>

Admit(c) ==
    /\ verdict[c] \in {"none", "open"}
    /\ c \notin InLine \cup serving \cup finished
    /\ Len(line) < Room
    /\ line' = Append(line, c)
    /\ verdict' = [verdict EXCEPT ![c] = "open"]
    /\ UNCHANGED <<serving, finished>>

Refuse(c) ==
    /\ verdict[c] = "open"
    /\ c \notin InLine \cup serving \cup finished
    /\ verdict' = [verdict EXCEPT ![c] = "refused"]
    /\ UNCHANGED <<line, serving, finished>>

Start ==
    /\ line # <<>>
    /\ verdict[Head(line)] = "open"
    /\ Cardinality(serving) < Slots
    /\ line' = Tail(line)
    /\ serving' = serving \cup {Head(line)}
    /\ UNCHANGED <<finished, verdict>>

Drop ==
    /\ line # <<>>
    /\ verdict[Head(line)] = "abandoned"
    /\ line' = Tail(line)
    /\ UNCHANGED <<serving, finished, verdict>>

Complete(c) ==
    /\ c \in serving
    /\ serving' = serving \ {c}
    /\ finished' = finished \cup {c}
    /\ UNCHANGED <<line, verdict>>

Answer(c) ==
    /\ verdict[c] = "open"
    /\ c \in finished
    /\ verdict' = [verdict EXCEPT ![c] = "answered"]
    /\ UNCHANGED <<line, serving, finished>>

\* One client leaves, or the gateway stops and leaves them all.
Abandon(S) ==
    /\ \A c \in S : verdict[c] = "open"
    /\ verdict' = [c \in Clients |-> IF c \in S THEN "abandoned" ELSE verdict[c]]
    /\ UNCHANGED <<line, serving, finished>>

\* A client's next request.
Renew(c) ==
    /\ verdict[c] \in {"refused", "answered", "abandoned"}
    /\ c \notin InLine \cup serving
    /\ verdict' = [verdict EXCEPT ![c] = "none"]
    /\ finished' = finished \ {c}
    /\ UNCHANGED <<line, serving>>

Next ==
    \/ \E c \in Clients : \/ Ask(c) \/ Admit(c) \/ Refuse(c)
                          \/ Complete(c) \/ Answer(c) \/ Renew(c)
    \/ \E S \in SUBSET Clients : Abandon(S)
    \/ Start
    \/ Drop

Spec == Init /\ [][Next]_vars
=============================================================================
