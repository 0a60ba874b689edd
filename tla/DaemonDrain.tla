----------------------------- MODULE DaemonDrain -----------------------------
(***************************************************************************)
(* How one daemon process ends (crates/daemon/src: http.rs, serve.rs,      *)
(* reaper.rs): tool requests that hold an in-flight guard, POST /shutdown  *)
(* and Ctrl-C that drain them, and the reaper task, which alone ends the   *)
(* process (process::exit), because it found draining set or because it    *)
(* judged the daemon idle.                                                 *)
(*                                                                         *)
(* Time is the age of two clocks, in units longer than the reaper's scan   *)
(* period; a timeout is an action that may fire whenever it is armed.      *)
(***************************************************************************)
EXTENDS Naturals, FiniteSets

CONSTANTS
    Reads,          \* requests for a tool that does not write
    Writes,         \* requests for a tool that writes
    Batches,        \* /batch requests with a writing call
    QuietSamples,   \* samples of in_flight = 0 that end the drain (500 ms of 20 ms)
    GlobalIdle,     \* age at which the daemon is idle; 0 = never
    LsIdle,         \* age at which a language server is idle; 0 = never
    NoLs            \* no language server is loaded

ASSUME DrainAssumption ==
    /\ Reads \cap Writes = {} /\ Reads \cap Batches = {} /\ Writes \cap Batches = {}
    /\ QuietSamples \in Nat \ {0, 1}
    /\ GlobalIdle \in Nat /\ LsIdle \in Nat
    /\ NoLs \notin Nat

Requests == Reads \cup Writes \cup Batches

VARIABLES
    draining,
    req,            \* request -> its progress
    counted,        \* the requests whose InFlightGuard lives; in_flight is its size
    server,         \* the axum server
    waiter,         \* who runs wait_drain: the task of /shutdown, or the signal handler
    quiet,          \* consecutive samples of in_flight = 0
    windowOver,     \* the drain window has passed
    reaper,         \* the reaper task
    actAge,         \* age of GLOBAL_LAST_ACTIVITY
    lsAge,          \* age of the newest last_used entry
    lock,           \* the lock file of this daemon is on disk
    exited

drain == <<waiter, quiet, windowOver>>
clocks == <<actAge, lsAge>>
vars == <<draining, req, counted, server, drain, reaper, clocks, lock, exited>>

-----------------------------------------------------------------------------
\* "checked" and "late" lie between the load of draining and the fetch_add of
\* in_flight; "detached" is a writing call whose client has gone.
ReqStates == {"new", "checked", "late", "running", "detached",
              "done", "refused", "dropped", "cut"}

\* The oldest age that is told apart.
MaxAge == IF GlobalIdle > LsIdle THEN GlobalIdle ELSE LsIdle

TypeOK ==
    /\ draining \in BOOLEAN /\ windowOver \in BOOLEAN /\ lock \in BOOLEAN /\ exited \in BOOLEAN
    /\ req \in [Requests -> ReqStates]
    /\ counted \subseteq Requests
    /\ server \in {"accepting", "closing", "returned"}
    /\ waiter \in {"none", "task", "signal"}
    /\ waiter # "none" => draining
    /\ quiet \in 0..QuietSamples
    /\ reaper \in {"select", "woken", "scan", "evict", "finish", "exit"}
    /\ actAge \in 0..MaxAge
    /\ lsAge \in (0..MaxAge) \cup {NoLs}

Init ==
    /\ draining = FALSE
    /\ req = [r \in Requests |-> "new"]
    /\ counted = {}
    /\ server = "accepting"
    /\ waiter = "none" /\ quiet = 0 /\ windowOver = FALSE
    /\ reaper = "select"
    /\ actAge = 0 /\ lsAge = NoLs
    /\ lock = TRUE
    /\ exited = FALSE

Executing(r) == req[r] \in {"running", "detached"}

Expired(age, limit) == limit # 0 /\ age # NoLs /\ age >= limit

-----------------------------------------------------------------------------
(* tools_post and batch_handler.                                           *)

Refuse(r) ==
    /\ ~exited /\ server = "accepting"
    /\ req[r] = "new" /\ draining
    /\ req' = [req EXCEPT ![r] = "refused"]
    /\ UNCHANGED <<draining, counted, server, drain, reaper, clocks, lock, exited>>

Admit(r) ==
    /\ ~exited /\ server = "accepting"
    /\ req[r] = "new" /\ ~draining
    /\ req' = [req EXCEPT ![r] = "checked"]
    /\ UNCHANGED <<draining, counted, server, drain, reaper, clocks, lock, exited>>

\* in_flight.fetch_add and note_activity.
Count(r) ==
    /\ ~exited /\ req[r] \in {"checked", "late"}
    /\ req' = [req EXCEPT ![r] = "running"]
    /\ counted' = counted \cup {r}
    /\ actAge' = 0
    /\ UNCHANGED <<draining, server, drain, reaper, lsAge, lock, exited>>

\* The call obtains its session: session_for touches last_used.
UseLs(r) ==
    /\ ~exited /\ Executing(r)
    /\ lsAge' = 0
    /\ UNCHANGED <<draining, req, counted, server, drain, reaper, actAge, lock, exited>>

Finish(r) ==
    /\ ~exited /\ Executing(r)
    /\ req' = [req EXCEPT ![r] = "done"]
    /\ counted' = counted \ {r}
    /\ UNCHANGED <<draining, server, drain, reaper, clocks, lock, exited>>

\* Mutant of Disconnect: a write is cancelled with its handler, like a read.
DisconnectCancels(r) ==
    /\ ~exited /\ req[r] = "running"
    /\ req' = [req EXCEPT ![r] = "dropped"]
    /\ counted' = counted \ {r}
    /\ UNCHANGED <<draining, server, drain, reaper, clocks, lock, exited>>

\* Mutant of Disconnect: the guard stays with the handler of a detached write.
DisconnectUncounts(r) ==
    /\ ~exited /\ req[r] = "running"
    /\ req' = [req EXCEPT ![r] = IF r \in Reads THEN "dropped" ELSE "detached"]
    /\ counted' = counted \ {r}
    /\ UNCHANGED <<draining, server, drain, reaper, clocks, lock, exited>>

\* The client goes away and the handler is dropped: a read is cancelled; the
\* spawned task of a write goes on with the guard; that of a call in a batch
\* goes on too, but the guard was the handler's.
Disconnect(r) ==
    /\ ~exited /\ req[r] = "running"
    /\ req' = [req EXCEPT ![r] = IF r \in Reads THEN "dropped" ELSE "detached"]
    /\ counted' = IF r \in Writes THEN counted ELSE counted \ {r}
    /\ UNCHANGED <<draining, server, drain, reaper, clocks, lock, exited>>

-----------------------------------------------------------------------------
(* shutdown_post, signal_shutdown and wait_drain.                          *)

\* Mutant of Shutdown: the drain starts before draining is set.
ShutdownUnflagged ==
    /\ ~exited /\ server = "accepting" /\ ~draining
    /\ waiter' = "task"
    /\ UNCHANGED <<draining, req, counted, server, quiet, windowOver, reaper, clocks, lock, exited>>

\* POST /shutdown; on a daemon that drains already it changes nothing.
Shutdown ==
    /\ ~exited /\ server = "accepting" /\ ~draining
    /\ draining' = TRUE
    /\ waiter' = "task"
    /\ UNCHANGED <<req, counted, server, quiet, windowOver, reaper, clocks, lock, exited>>

\* Ctrl-C ends the server's shutdown future at once if the daemon drains already.
CtrlC ==
    /\ ~exited /\ server = "accepting" /\ waiter # "signal"
    /\ IF draining
       THEN /\ server' = "closing"
            /\ UNCHANGED <<draining, waiter>>
       ELSE /\ draining' = TRUE
            /\ waiter' = "signal"
            /\ UNCHANGED server
    /\ UNCHANGED <<req, counted, quiet, windowOver, reaper, clocks, lock, exited>>

\* notify_waiters wakes those that wait now: nothing is stored for a reaper that
\* is busy, nor for a server whose future is past the notification.
Notify ==
    /\ server' = IF server = "accepting" THEN "closing" ELSE server
    /\ reaper' = IF reaper = "select" THEN "woken" ELSE reaper

DrainEnds ==
    /\ waiter' = "none"
    /\ Notify

\* Mutant of Sample: the first moment without a call in flight ends the drain.
SampleOnce ==
    /\ ~exited /\ waiter # "none" /\ ~windowOver
    /\ ~\E r \in Requests : req[r] = "late"
    /\ req' = [r \in Requests |-> IF req[r] = "checked" THEN "late" ELSE req[r]]
    /\ quiet' = 0
    /\ IF counted = {} THEN DrainEnds ELSE UNCHANGED <<waiter, server, reaper>>
    /\ UNCHANGED <<draining, counted, windowOver, clocks, lock, exited>>

\* One turn of the loop in wait_drain.  The two instructions between which a
\* request is "checked" are nanoseconds apart and the samples 20 ms: at most one
\* sample falls between them.
Sample ==
    /\ ~exited /\ waiter # "none" /\ ~windowOver
    /\ ~\E r \in Requests : req[r] = "late"
    /\ req' = [r \in Requests |-> IF req[r] = "checked" THEN "late" ELSE req[r]]
    /\ quiet' = IF counted = {} THEN quiet + 1 ELSE 0
    /\ IF quiet' = QuietSamples THEN DrainEnds ELSE UNCHANGED <<waiter, server, reaper>>
    /\ UNCHANGED <<draining, counted, windowOver, clocks, lock, exited>>

\* The deadline of wait_drain.
WindowEnds ==
    /\ ~exited /\ waiter # "none" /\ ~windowOver
    /\ windowOver' = TRUE
    /\ DrainEnds
    /\ UNCHANGED <<draining, req, counted, quiet, clocks, lock, exited>>

\* axum::serve returns when the open connections are done; serve() then awaits
\* the reaper.
ServerReturns ==
    /\ ~exited /\ server = "closing"
    /\ \A r \in Requests : req[r] \notin {"checked", "late", "running"}
    /\ server' = "returned"
    /\ UNCHANGED <<draining, req, counted, drain, reaper, clocks, lock, exited>>

-----------------------------------------------------------------------------
(* reaper_loop.                                                            *)

\* Mutant of ReaperTick: a daemon that drains waits for the notification only.
ReaperTickUnlessDraining ==
    /\ ~exited /\ reaper = "select" /\ ~draining
    /\ reaper' = "woken"
    /\ UNCHANGED <<draining, req, counted, server, drain, clocks, lock, exited>>

\* The scan period has passed.
ReaperTick ==
    /\ ~exited /\ reaper = "select"
    /\ reaper' = "woken"
    /\ UNCHANGED <<draining, req, counted, server, drain, clocks, lock, exited>>

\* draining is looked at once per turn; then evict_failed_instances is awaited.
ReaperWakes ==
    /\ ~exited /\ reaper = "woken"
    /\ reaper' = IF draining THEN "finish" ELSE "scan"
    /\ UNCHANGED <<draining, req, counted, server, drain, clocks, lock, exited>>

\* The newest activity is that of the loaded servers; the global clock counts
\* only when none is loaded.
NewestAge == IF lsAge = NoLs THEN actAge ELSE lsAge

Judge ==
    /\ ~exited /\ reaper = "scan"
    /\ IF Expired(NewestAge, GlobalIdle)
       THEN draining' = TRUE /\ reaper' = "finish"
       ELSE /\ reaper' = IF Expired(lsAge, LsIdle) THEN "evict" ELSE "select"
            /\ UNCHANGED draining
    /\ UNCHANGED <<req, counted, server, drain, clocks, lock, exited>>

\* The awaited evictions of the idle servers, by the ages read before.
EvictIdle ==
    /\ ~exited /\ reaper = "evict"
    /\ lsAge' = NoLs
    /\ reaper' = "select"
    /\ UNCHANGED <<draining, req, counted, server, drain, actAge, lock, exited>>

\* shutdown_cleanup: remove_owned (module DaemonLock), then notify_waiters.
CleanUp ==
    /\ ~exited /\ reaper = "finish"
    /\ lock' = FALSE
    /\ server' = IF server = "accepting" THEN "closing" ELSE server
    /\ reaper' = "exit"
    /\ UNCHANGED <<draining, req, counted, drain, clocks, exited>>

\* process::exit(0) ends every task of the process where it is.
Exit ==
    /\ ~exited /\ reaper = "exit"
    /\ exited' = TRUE
    /\ req' = [r \in Requests |->
                  IF req[r] \in {"checked", "late", "running", "detached"} THEN "cut" ELSE req[r]]
    /\ UNCHANGED <<draining, counted, server, drain, reaper, clocks, lock>>

Older(age) == IF age = NoLs \/ age = MaxAge THEN age ELSE age + 1

Tick ==
    /\ ~exited
    /\ actAge' = Older(actAge) /\ lsAge' = Older(lsAge)
    /\ UNCHANGED <<draining, req, counted, server, drain, reaper, lock, exited>>

-----------------------------------------------------------------------------
Handler(r) == Refuse(r) \/ Admit(r) \/ Count(r) \/ UseLs(r) \/ Finish(r) \/ Disconnect(r)

ReaperStep == ReaperWakes \/ Judge \/ EvictIdle \/ CleanUp \/ Exit

Next ==
    \/ \E r \in Requests : Handler(r)
    \/ Shutdown \/ CtrlC \/ Sample \/ WindowEnds \/ ServerReturns
    \/ ReaperTick \/ ReaperStep
    \/ Tick

Spec == Init /\ [][Next]_vars

\* The runtime polls the reaper, and its sleep ends.  Nothing is asked of the
\* requests: a tool call may run as long as it likes.
FairSpec == Spec /\ WF_vars(ReaperTick) /\ WF_vars(ReaperStep)

-----------------------------------------------------------------------------
\* The in-flight count is exact: a call of /tools is counted from its admission
\* to its end, also after its client has gone; only the detached calls of a
\* batch are not.
CountIsExact ==
    ~exited => counted = {r \in Requests : req[r] = "running"}
                            \cup {w \in Writes : req[w] = "detached"}

\* A drain that ends before its window does ends with nothing left to do: no
\* counted call, nor one that passed the draining check and is not counted yet.
DrainedMeansIdle ==
    [][waiter # "none" /\ waiter' = "none" /\ ~windowOver' =>
          \A r \in Requests : req[r] \notin {"checked", "late", "running"}
                              /\ (r \in Writes => req[r] # "detached")]_vars

\* A writing call that has begun ends by itself or with the process, whatever
\* its client does: its transaction is closed by its own code.
WritesRunToTheirEnd ==
    [][\A w \in Writes \cup Batches :
          Executing(w) => Executing(w)' \/ req'[w] = "done" \/ exited']_vars

\* A shutdown that was accepted ends the process, though the notification may
\* find the reaper busy and calls may never return.
ShutdownEnds == draining ~> exited

=============================================================================
