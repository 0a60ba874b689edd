------------------------------ MODULE LspSession ------------------------------
(***************************************************************************)
(* One language-server session (lsp-core/src/session.rs, client.rs): the   *)
(* handshake of start_named, the requests and the table of pending         *)
(* answers, the stdout pump that ends when the server does, and shutdown.  *)
(*                                                                         *)
(* A step is one critical section, or one await that ends.  Frames are in  *)
(* sets: answers to different requests may come in any order, and the      *)
(* order of the outbound frames is the subject of module PriorityWriter.   *)
(***************************************************************************)
EXTENDS Naturals, FiniteSets

CONSTANTS
    Callers,        \* requests of tool calls, one each
    Starter,        \* the task of start_named
    Stopper,        \* a task that shuts the session down
    None,
    MaxRetries,     \* content_modified_max_retries (3)
    OutboundCap     \* capacity of the outbound channel (64)

ASSUME SessionAssumption ==
    /\ IsFiniteSet(Callers)
    /\ Starter \notin Callers /\ Stopper \notin Callers /\ Starter # Stopper
    /\ MaxRetries \in Nat \ {0} /\ OutboundCap \in Nat \ {0}
    /\ None \notin Nat

Procs == Callers \cup {Starter, Stopper}

VARIABLES
    state,          \* SessionState
    slot,           \* the pump's weak reference to the session is bound
    serverUp,       \* the process of the language server
    writer,         \* the outbound channel is open: the writer task lives
    pump,           \* the stdout pump: it reads, or is at a step of on_eof
    pc,
    nextId,         \* next_id
    id,             \* process -> the id of its request
    attempt,        \* process -> answers ContentModified so far
    pending,        \* the ids in the pending table
    mail,           \* id -> what its oneshot was given
    outbound,       \* requests in the channel or the queues of the writer
    wire,           \* requests the server has read
    inbox           \* answers in the server's stdout

session == <<state, slot>>
ids == <<nextId, id, attempt>>
vars == <<session, serverUp, writer, pump, pc, ids, pending, mail, outbound, wire, inbox>>

-----------------------------------------------------------------------------
\* A process needs at most MaxRetries requests.
Ids == 1..(MaxRetries * Cardinality(Procs))

Kinds == {"ok", "modified"}
Request == [id : Ids, by : Procs]
Answer == [id : Ids, by : Procs, kind : Kinds]

\* Where a process is in request_at.
RequestPcs == {"insert", "send", "wait", "retry"}
Outcomes == {"ok", "rpc", "terminated", "timeout", "cancelled"}
StartPcs == {"new", "initialized", "ready", "returned", "failed"}
StopPcs == {"killed", "eofWait", "eofSeen", "stopped"}

TypeOK ==
    /\ state \in {"initializing", "ready", "failed"}
    /\ slot \in BOOLEAN /\ serverUp \in BOOLEAN
    /\ writer \in BOOLEAN
    /\ pump \in {"reading", "abort", "notify", "mark", "ended"}
    /\ pc \in [Procs -> {"idle"} \cup RequestPcs \cup Outcomes \cup StartPcs \cup StopPcs]
    /\ nextId \in Nat
    /\ id \in [Procs -> Ids \cup {None}]
    /\ attempt \in [Procs -> 0..MaxRetries]
    /\ pending \subseteq Ids
    /\ mail \in [Ids -> Kinds \cup {"none", "terminated"}]
    /\ outbound \subseteq Request /\ Cardinality(outbound) <= OutboundCap
    /\ wire \subseteq Request /\ inbox \subseteq Answer

Init ==
    /\ state = "initializing" /\ slot = FALSE
    /\ serverUp = TRUE /\ writer = TRUE /\ pump = "reading"
    /\ pc = [p \in Procs |-> IF p = Starter THEN "new" ELSE "idle"]
    /\ nextId = 1
    /\ id = [p \in Procs |-> None] /\ attempt = [p \in Procs |-> 0]
    /\ pending = {} /\ mail = [i \in Ids |-> "none"]
    /\ outbound = {} /\ wire = {} /\ inbox = {}

Goto(p, from, to) == pc[p] = from /\ pc' = [pc EXCEPT ![p] = to]

\* start_named has returned the session: now others know it.
Returned == pc[Starter] = "returned"

-----------------------------------------------------------------------------
(* Client::request_at and send_once_at.                                    *)

\* Session::request looks at the state first.
Call(c) ==
    /\ Returned
    /\ Goto(c, "idle", IF state = "ready" THEN "insert" ELSE "terminated")
    /\ UNCHANGED <<session, serverUp, writer, pump, ids, pending, mail, outbound, wire, inbox>>

\* Mutant of Insert: the counter is read and not advanced.
InsertSameId(p) ==
    /\ Goto(p, "insert", "send")
    /\ id' = [id EXCEPT ![p] = nextId]
    /\ pending' = pending \cup {nextId}
    /\ UNCHANGED <<session, serverUp, writer, pump, nextId, attempt, mail, outbound, wire, inbox>>

Insert(p) ==
    /\ Goto(p, "insert", "send")
    /\ nextId' = nextId + 1
    /\ id' = [id EXCEPT ![p] = nextId]
    /\ pending' = pending \cup {nextId}
    /\ UNCHANGED <<session, serverUp, writer, pump, attempt, mail, outbound, wire, inbox>>

\* Mutant of Send: the channel has no capacity.
SendUnbounded(p) ==
    /\ Goto(p, "send", "wait")
    /\ writer
    /\ outbound' = outbound \cup {[id |-> id[p], by |-> p]}
    /\ UNCHANGED <<session, serverUp, writer, pump, ids, pending, mail, wire, inbox>>

Send(p) ==
    /\ Goto(p, "send", "wait")
    /\ writer /\ Cardinality(outbound) < OutboundCap
    /\ outbound' = outbound \cup {[id |-> id[p], by |-> p]}
    /\ UNCHANGED <<session, serverUp, writer, pump, ids, pending, mail, wire, inbox>>

SendClosed(p) ==
    /\ Goto(p, "send", "terminated")
    /\ ~writer
    /\ pending' = pending \ {id[p]}
    /\ UNCHANGED <<session, serverUp, writer, pump, ids, mail, outbound, wire, inbox>>

\* The channel stays full until the request's time is up.
SendTimesOut(p) ==
    /\ Goto(p, "send", "timeout")
    /\ writer /\ Cardinality(outbound) = OutboundCap
    /\ pending' = pending \ {id[p]}
    /\ UNCHANGED <<session, serverUp, writer, pump, ids, mail, outbound, wire, inbox>>

\* The oneshot is completed.  ContentModified is retried for the methods of the
\* list (those of the tool calls); other errors of the server end the request as
\* an answer does.
Receive(p) ==
    /\ pc[p] = "wait" /\ mail[id[p]] # "none"
    /\ LET again == mail[id[p]] = "modified" /\ p \in Callers IN
         /\ pc' = [pc EXCEPT ![p] =
               IF again THEN IF attempt[p] + 1 >= MaxRetries THEN "rpc" ELSE "retry"
               ELSE IF mail[id[p]] = "modified" THEN "rpc" ELSE mail[id[p]]]
         /\ attempt' = IF again THEN [attempt EXCEPT ![p] = @ + 1] ELSE attempt
    /\ UNCHANGED <<session, serverUp, writer, pump, nextId, id, pending, mail, outbound, wire, inbox>>

\* Mutant of WaitTimesOut: the entry stays in the table.
WaitTimesOutKeeps(p) ==
    /\ Goto(p, "wait", "timeout")
    /\ mail[id[p]] = "none"
    /\ UNCHANGED <<session, serverUp, writer, pump, ids, pending, mail, outbound, wire, inbox>>

WaitTimesOut(p) ==
    /\ Goto(p, "wait", "timeout")
    /\ mail[id[p]] = "none"
    /\ pending' = pending \ {id[p]}
    /\ UNCHANGED <<session, serverUp, writer, pump, ids, mail, outbound, wire, inbox>>

\* start_named and shutdown put a timeout of the same length around the whole
\* request; when it is the first to fire, the future is dropped and the entry stays.
OuterTimesOut(p) ==
    /\ p \notin Callers /\ pc[p] \in {"send", "wait"}
    /\ pc' = [pc EXCEPT ![p] = "timeout"]
    /\ UNCHANGED <<session, serverUp, writer, pump, ids, pending, mail, outbound, wire, inbox>>

\* The 200 ms are over.
Retry(p) ==
    /\ Goto(p, "retry", "insert")
    /\ UNCHANGED <<session, serverUp, writer, pump, ids, pending, mail, outbound, wire, inbox>>

\* The future of the tool call is dropped; nothing takes its entry out.
Cancel(c) ==
    /\ pc[c] \in {"send", "wait", "retry"}
    /\ pc' = [pc EXCEPT ![c] = "cancelled"]
    /\ UNCHANGED <<session, serverUp, writer, pump, ids, pending, mail, outbound, wire, inbox>>

-----------------------------------------------------------------------------
(* The server and the pumps.                                               *)

Write(m) ==
    /\ writer /\ serverUp /\ m \in outbound
    /\ outbound' = outbound \ {m}
    /\ wire' = wire \cup {m}
    /\ UNCHANGED <<session, serverUp, writer, pump, pc, ids, pending, mail, inbox>>

\* A write finds the pipe broken: the writer returns and drops its receiver.
WriteFails ==
    /\ writer /\ ~serverUp
    /\ writer' = FALSE /\ outbound' = {}
    /\ UNCHANGED <<session, serverUp, pump, pc, ids, pending, mail, wire, inbox>>

Answers(m, k) ==
    /\ serverUp /\ m \in wire
    /\ wire' = wire \ {m}
    /\ inbox' = IF pump = "reading" THEN inbox \cup {[id |-> m.id, by |-> m.by, kind |-> k]} ELSE inbox
    /\ UNCHANGED <<session, serverUp, writer, pump, pc, ids, pending, mail, outbound>>

\* The process ends, with what it had read and not answered.
ServerEnds == serverUp' = FALSE /\ wire' = {}

Die ==
    /\ serverUp
    /\ ServerEnds
    /\ UNCHANGED <<session, writer, pump, pc, ids, pending, mail, outbound, inbox>>

\* Mutant of Dispatch: the entry is taken out and its oneshot is not completed.
DispatchPops(m) ==
    /\ pump = "reading" /\ m \in inbox
    /\ inbox' = inbox \ {m}
    /\ pending' = pending \ {m.id}
    /\ UNCHANGED <<session, serverUp, writer, pump, pc, ids, mail, outbound, wire>>

\* handle_message: an answer that nobody waits for is dropped.
Dispatch(m) ==
    /\ pump = "reading" /\ m \in inbox
    /\ inbox' = inbox \ {m}
    /\ pending' = pending \ {m.id}
    /\ mail' = IF m.id \in pending THEN [mail EXCEPT ![m.id] = m.kind] ELSE mail
    /\ UNCHANGED <<session, serverUp, writer, pump, pc, ids, outbound, wire>>

\* The end of stdout, or a frame that cannot be decoded: what comes after it is
\* not read.  on_eof follows.
PumpEnds ==
    /\ pump = "reading"
    /\ ~serverUp => inbox = {}
    /\ pump' = "abort"
    /\ inbox' = {}
    /\ UNCHANGED <<session, serverUp, writer, pc, ids, pending, mail, outbound, wire>>

AbortAll ==
    /\ pump = "abort" /\ pump' = "notify"
    /\ mail' = [i \in Ids |-> IF i \in pending THEN "terminated" ELSE mail[i]]
    /\ pending' = {}
    /\ UNCHANGED <<session, serverUp, writer, pc, ids, outbound, wire, inbox>>

\* notify_waiters: only who waits now is woken.
NotifyEof ==
    /\ pump = "notify" /\ pump' = "mark"
    /\ pc' = IF pc[Stopper] = "eofWait" THEN [pc EXCEPT ![Stopper] = "eofSeen"] ELSE pc
    /\ UNCHANGED <<session, serverUp, writer, ids, pending, mail, outbound, wire, inbox>>

MarkFailed ==
    /\ pump = "mark" /\ pump' = "ended"
    /\ state' = IF slot THEN "failed" ELSE state
    /\ UNCHANGED <<slot, serverUp, writer, pc, ids, pending, mail, outbound, wire, inbox>>

-----------------------------------------------------------------------------
(* start_named.                                                            *)

\* Mutant of BindSlot: the pump is never told of the session.
BindNothing ==
    /\ Goto(Starter, "new", "insert")
    /\ UNCHANGED <<session, serverUp, writer, pump, ids, pending, mail, outbound, wire, inbox>>

\* The pumps run already; then the handshake sends initialize.
BindSlot ==
    /\ Goto(Starter, "new", "insert")
    /\ slot' = TRUE
    /\ UNCHANGED <<state, serverUp, writer, pump, ids, pending, mail, outbound, wire, inbox>>

\* The initialized notification, which fails if the channel is closed or full.
SendInitialized ==
    /\ Goto(Starter, "ok", "initialized")
    /\ writer /\ Cardinality(outbound) < OutboundCap
    /\ UNCHANGED <<session, serverUp, writer, pump, ids, pending, mail, outbound, wire, inbox>>

InitializedFails ==
    /\ Goto(Starter, "ok", "terminated")
    /\ ~writer \/ Cardinality(outbound) = OutboundCap
    /\ UNCHANGED <<session, serverUp, writer, pump, ids, pending, mail, outbound, wire, inbox>>

\* The handshake is over: the state is set whatever it is by now.
BecomeReady ==
    /\ Goto(Starter, "initialized", "returned")
    /\ state' = "ready"
    /\ UNCHANGED <<slot, serverUp, writer, pump, ids, pending, mail, outbound, wire, inbox>>

\* The error branch: the process is killed and the session dropped.
StartFails ==
    /\ pc[Starter] \in {"rpc", "terminated", "timeout"}
    /\ pc' = [pc EXCEPT ![Starter] = "failed"]
    /\ ServerEnds
    /\ state' = "failed"
    /\ UNCHANGED <<slot, writer, pump, ids, pending, mail, outbound, inbox>>

-----------------------------------------------------------------------------
(* Session::shutdown.                                                      *)

\* The documents are closed (module DocSync), then the shutdown request is sent.
ShutdownBegins ==
    /\ Returned
    /\ Goto(Stopper, "idle", "insert")
    /\ UNCHANGED <<session, serverUp, writer, pump, ids, pending, mail, outbound, wire, inbox>>

\* Whatever became of the request: exit, and the process tree is killed.
Kill ==
    /\ pc[Stopper] \in {"ok", "rpc", "terminated", "timeout"}
    /\ pc' = [pc EXCEPT ![Stopper] = "killed"]
    /\ ServerEnds
    /\ UNCHANGED <<session, writer, pump, ids, pending, mail, outbound, inbox>>

\* notified() is created: notifications count from here on.
AwaitEof ==
    /\ Goto(Stopper, "killed", "eofWait")
    /\ UNCHANGED <<session, serverUp, writer, pump, ids, pending, mail, outbound, wire, inbox>>

\* Mutant of EofTimesOut: the wait for the notification has no timeout.
EofNeverTimesOut == FALSE /\ UNCHANGED vars

\* Nothing was notified for 5 s.
EofTimesOut ==
    /\ Goto(Stopper, "eofWait", "eofSeen")
    /\ UNCHANGED <<session, serverUp, writer, pump, ids, pending, mail, outbound, wire, inbox>>

Stopped ==
    /\ Goto(Stopper, "eofSeen", "stopped")
    /\ state' = "failed"
    /\ UNCHANGED <<slot, serverUp, writer, pump, ids, pending, mail, outbound, wire, inbox>>

-----------------------------------------------------------------------------
RequestStep(p) ==
    \/ Insert(p) \/ Send(p) \/ SendClosed(p) \/ SendTimesOut(p)
    \/ Receive(p) \/ WaitTimesOut(p) \/ OuterTimesOut(p) \/ Retry(p)

Pump == (\E m \in inbox : Dispatch(m)) \/ AbortAll \/ NotifyEof \/ MarkFailed

Start == BindSlot \/ SendInitialized \/ InitializedFails \/ BecomeReady \/ StartFails

Stop == Kill \/ AwaitEof \/ EofTimesOut \/ Stopped

Next ==
    \/ \E p \in Procs : RequestStep(p)
    \/ \E c \in Callers : Call(c) \/ Cancel(c)
    \/ \E m \in outbound : Write(m)
    \/ WriteFails
    \/ \E m \in wire, k \in Kinds : Answers(m, k)
    \/ Die
    \/ Pump \/ PumpEnds
    \/ Start \/ ShutdownBegins \/ Stop

Spec == Init /\ [][Next]_vars

\* Every task runs, every timeout ends, a dead process ends its stdout.  Nothing
\* is asked of the server, nor of the callers.
FairSpec ==
    /\ Spec
    /\ \A p \in Procs : WF_vars(RequestStep(p))
    /\ WF_vars(Pump) /\ WF_vars(~serverUp /\ PumpEnds)
    /\ WF_vars(Start) /\ WF_vars(Stop)

-----------------------------------------------------------------------------
\* Who waits gets the answer to its own request, and to its current attempt: the
\* answers in flight for an id are for the process that owns it.
AnswersMatch ==
    /\ \A m \in outbound \cup wire \cup inbox, p \in Procs : id[p] = m.id => m.by = p
    /\ \A p, q \in Procs : p # q /\ id[p] # None => id[p] # id[q]

\* The table holds requests that wait, and those whose future was dropped (by a
\* cancelled caller, or by the timeout around initialize and shutdown): an
\* answered, timed out or failed request leaves nothing behind.
PendingIsWaited ==
    \A i \in pending : \E p \in Procs :
        /\ id[p] = i
        /\ pc[p] \in {"send", "wait"}
             \cup IF p \in Callers THEN {"cancelled"} ELSE {"timeout", "failed"} \cup StopPcs

\* Nobody waits in vain: a request that times out was neither answered nor aborted.
TimeoutIsHonest ==
    [][\A p \in Procs : WaitTimesOut(p) => id[p] \in pending]_vars

\* A server that dies after start_named returned does not leave a Ready session.
DeathIsNoticed ==
    Returned /\ state = "ready" /\ pump = "reading" /\ ~serverUp ~> state = "failed"

\* shutdown ends, whatever the server does.
ShutdownEnds == pc[Stopper] = "insert" ~> pc[Stopper] = "stopped"

-----------------------------------------------------------------------------
(* What comments of the code say of it, and its interleavings do not keep. *)

\* "EOF also marks the session Failed; if it stayed Ready, none of the three
\* healing gates would see a dead session".
EndedIsFailed == Returned /\ pump = "ended" => state = "failed"

=============================================================================
