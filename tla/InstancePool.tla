----------------------------- MODULE InstancePool -----------------------------
(***************************************************************************)
(* The supervisor's pool of language-server sessions                       *)
(* (crates/supervisor/src/lib.rs): callers that obtain a session with      *)
(* session_for and heal a dead one with with_session_retry, the reaper     *)
(* that evicts sessions, and the environment (sessions that die, servers   *)
(* that are uninstalled, failure memos that expire).                       *)
(*                                                                         *)
(* The grain of an action is one critical section of the code: every table *)
(* of Supervisor has a mutex of its own and no two are held together, so   *)
(* other threads run between any two of them.                              *)
(*                                                                         *)
(* A session is reference counted (Arc<Session>): it exists while the pool *)
(* or an actor's local variable refers to it, and dropping the last        *)
(* reference kills its process (ls-runtime ProcessTreeGuard).  So an       *)
(* identity nobody refers to may be given to the next spawned session, and *)
(* the number of spawns needs no bound.                                    *)
(***************************************************************************)
EXTENDS Naturals, FiniteSets

CONSTANTS
    Callers,        \* concurrent tool calls
    Reapers,        \* the background reaper: one task in the daemon, none in direct mode
    Keys,           \* (root, language) pairs
    Sids,           \* session identities
    None,
    StreakEvict     \* TIMEOUT_STREAK_EVICT_THRESHOLD

ASSUME PoolAssumption ==
    /\ Reapers \cap Callers = {}
    /\ None \notin Callers \cup Keys \cup Sids
    /\ StreakEvict \in Nat \ {0}

Actors == Callers \cup Reapers

VARIABLES
    instances,      \* key -> the pooled session
    gate,           \* key -> the caller that holds its load gate
    lastUsed,       \* the keys with a last_used entry
    launchExe,      \* the keys with a registered LS executable
    memo,           \* the keys with a remembered failure
    streak,         \* key -> consecutive timeouts
    sess,           \* session -> its state and the key it was started for
    onDisk,         \* key -> whether the executable is installed
    pc,             \* actor -> next step
    key,            \* actor -> the key of its call (or of its eviction)
    cached,         \* actor -> the session in its local variable
    retried,        \* callers in the second attempt of with_session_retry
    todo            \* keys the reaper still evicts in this scan

tables == <<lastUsed, launchExe>>
locals == <<key, cached, retried, todo>>
vars == <<instances, gate, tables, memo, streak, sess, onDisk,
          pc, locals>>

-----------------------------------------------------------------------------
NoSession == [st |-> "none", key |-> None]
Session == [st : {"none", "starting", "ready", "failed", "stopped"}, key : Keys \cup {None}]

FastPcs == {"fastRead", "fastCheck", "fastExe", "fastPoolExe", "fastPool", "fastDisk",
            "fastRemove", "fastTouch", "gateWait"}

\* The part of session_for that runs under the load gate.
ColdPcs == {"slowRead", "slowCheck", "slowExe", "slowPoolExe", "slowPool", "slowDisk",
            "slowRemove", "slowTouch", "memo", "launch", "spawn", "handshake", "insert"}

\* evict after its first critical section, the one that takes the session out.
EvictPcs == {"evUsed", "evExe", "evMemo", "evStop"}

CallerPcs == FastPcs \cup ColdPcs \cup EvictPcs \cup {"idle", "use", "evict"}
ReaperPcs == EvictPcs \cup {"idle", "evict"}

TypeOK ==
    /\ instances \in [Keys -> Sids \cup {None}]
    /\ gate \in [Keys -> Callers \cup {None}]
    /\ lastUsed \subseteq Keys
    /\ launchExe \subseteq Keys
    /\ memo \subseteq Keys
    /\ streak \in [Keys -> Nat]
    /\ sess \in [Sids -> Session]
    /\ onDisk \in [Keys -> BOOLEAN]
    /\ pc \in [Actors -> CallerPcs]
    /\ \A r \in Reapers : pc[r] \in ReaperPcs
    /\ key \in [Actors -> Keys \cup {None}]
    /\ \A a \in Actors : pc[a] # "idle" => key[a] \in Keys
    /\ cached \in [Actors -> Sids \cup {None}]
    /\ retried \subseteq Callers
    /\ todo \subseteq Keys

Init ==
    /\ instances = [k \in Keys |-> None]
    /\ gate = [k \in Keys |-> None]
    /\ lastUsed = {} /\ launchExe = {}
    /\ memo = {}
    /\ streak = [k \in Keys |-> 0]
    /\ sess = [s \in Sids |-> NoSession]
    /\ onDisk = [k \in Keys |-> TRUE]
    /\ pc = [a \in Actors |-> "idle"]
    /\ key = [a \in Actors |-> None]
    /\ cached = [a \in Actors |-> None]
    /\ retried = {} /\ todo = {}

-----------------------------------------------------------------------------
Goto(a, from, to) == pc[a] = from /\ pc' = [pc EXCEPT ![a] = to]

\* Arc<Session> is counted in the pool inst or in a local variable of loc.
Held(s, inst, loc) == (\E k \in Keys : inst[k] = s) \/ (\E a \in Actors : loc[a] = s)
Referenced(s) == Held(s, instances, cached)

\* The session table st once the sessions without a reference are destroyed.
Kept(inst, loc, st) == [s \in Sids |-> IF Held(s, inst, loc) THEN st[s] ELSE NoSession]

\* SessionState::Failed, whether the server died or shutdown() put it there.
Dead(s) == sess[s].st \in {"failed", "stopped"}

\* The pooled session, if there is one, has not failed (reuse_allowed looks at what
\* the pool holds by now, not at what the caller read).
PoolAlive(k) == instances[k] # None => ~Dead(instances[k])

\* Mutant of Return: an early return leaves the load gate taken.
ReturnKeepsGate(c) ==
    /\ pc' = [pc EXCEPT ![c] = "idle"]
    /\ key' = [key EXCEPT ![c] = None]
    /\ cached' = [cached EXCEPT ![c] = None]
    /\ retried' = retried \ {c}
    /\ sess' = Kept(instances, cached', sess)
    /\ UNCHANGED gate

\* The caller returns: its locals are dropped, and the gate guard with them.
Return(c) ==
    /\ pc' = [pc EXCEPT ![c] = "idle"]
    /\ key' = [key EXCEPT ![c] = None]
    /\ cached' = [cached EXCEPT ![c] = None]
    /\ retried' = retried \ {c}
    /\ gate' = [k \in Keys |-> IF gate[k] = c THEN None ELSE gate[k]]
    /\ sess' = Kept(instances, cached', sess)

-----------------------------------------------------------------------------
(* session_for, the fast path.                                             *)

Call(c, k) ==
    /\ Goto(c, "idle", "fastRead")
    /\ key' = [key EXCEPT ![c] = k]
    /\ UNCHANGED <<instances, gate, tables, memo, streak, sess, onDisk, cached, retried, todo>>

ReadInstance(c, from, found, missing) ==
    /\ Goto(c, from, IF instances[key[c]] = None THEN missing ELSE found)
    /\ cached' = [cached EXCEPT ![c] = instances[key[c]]]
    /\ sess' = Kept(instances, cached', sess)
    /\ UNCHANGED <<instances, gate, tables, memo, streak, onDisk, key, retried, todo>>

\* One read of the reuse check.
Branch(c, from, holds, yes, no) ==
    /\ Goto(c, from, IF holds THEN yes ELSE no)
    /\ UNCHANGED <<instances, gate, tables, memo, streak, sess, onDisk, key, cached, retried, todo>>

\* instances.remove(&key): whatever the pool holds by now, not what was read.
RemoveInstance(c, from, to) ==
    /\ Goto(c, from, to)
    /\ instances' = [instances EXCEPT ![key[c]] = None]
    /\ sess' = Kept(instances', cached, sess)
    /\ UNCHANGED <<gate, tables, memo, streak, onDisk, locals>>

FastRead(c) == ReadInstance(c, "fastRead", "fastCheck", "gateWait")

\* The session read has not failed, and launch_exe_valid: the executable that is
\* registered, the state of the pooled session, and last whether that executable is
\* on disk (none registered counts as valid), each read at a time of its own.
FastCheck(c) ==
    \/ Branch(c, "fastCheck", ~Dead(cached[c]), "fastExe", "fastRemove")
    \/ Branch(c, "fastExe", key[c] \in launchExe, "fastPoolExe", "fastPool")
    \/ Branch(c, "fastPoolExe", PoolAlive(key[c]), "fastDisk", "fastRemove")
    \/ Branch(c, "fastPool", PoolAlive(key[c]), "fastTouch", "fastRemove")
    \/ Branch(c, "fastDisk", onDisk[key[c]], "fastTouch", "fastRemove")

FastRemove(c) == RemoveInstance(c, "fastRemove", "gateWait")

FastTouch(c) ==
    /\ Goto(c, "fastTouch", "use")
    /\ lastUsed' = lastUsed \cup {key[c]}
    /\ UNCHANGED <<instances, gate, launchExe, memo, streak, sess, onDisk, locals>>

-----------------------------------------------------------------------------
(* session_for, the slow path: everything below runs under the load gate.  *)

AcquireGate(c) ==
    /\ Goto(c, "gateWait", "slowRead")
    /\ gate[key[c]] = None
    /\ gate' = [gate EXCEPT ![key[c]] = c]
    /\ UNCHANGED <<instances, tables, memo, streak, sess, onDisk, locals>>

SlowRead(c) == ReadInstance(c, "slowRead", "slowCheck", "memo")

\* The double check reads the same four things, under the gate.
SlowCheck(c) ==
    \/ Branch(c, "slowCheck", ~Dead(cached[c]), "slowExe", "slowRemove")
    \/ Branch(c, "slowExe", key[c] \in launchExe, "slowPoolExe", "slowPool")
    \/ Branch(c, "slowPoolExe", PoolAlive(key[c]), "slowDisk", "slowRemove")
    \/ Branch(c, "slowPool", PoolAlive(key[c]), "slowTouch", "slowRemove")
    \/ Branch(c, "slowDisk", onDisk[key[c]], "slowTouch", "slowRemove")

SlowRemove(c) == RemoveInstance(c, "slowRemove", "memo")

\* The last step of both successful slow paths; returning drops the gate guard.
SlowTouch(c) ==
    /\ Goto(c, "slowTouch", "use")
    /\ lastUsed' = lastUsed \cup {key[c]}
    /\ gate' = [gate EXCEPT ![key[c]] = None]
    /\ UNCHANGED <<instances, launchExe, memo, streak, sess, onDisk, locals>>

\* Mutant of CheckMemo: only the session is looked at, not the memo.
CheckMemoSessionOnly(c) ==
    /\ Goto(c, "memo", "launch")
    /\ (cached[c] # None => ~Dead(cached[c]))
    /\ UNCHANGED <<instances, gate, tables, memo, streak, sess, onDisk, locals>>

\* failure_memo_check, then the Failed session of the double check, if any.
CheckMemo(c) ==
    /\ pc[c] = "memo"
    /\ key[c] \notin memo
    /\ (cached[c] # None => ~Dead(cached[c]))
    /\ Goto(c, "memo", "launch")
    /\ UNCHANGED <<instances, gate, tables, memo, streak, sess, onDisk, locals>>

FailFast(c) ==
    /\ pc[c] = "memo"
    /\ \/ key[c] \in memo
       \/ cached[c] # None /\ Dead(cached[c])
    /\ memo' = memo \cup {key[c]}
    /\ Return(c)
    /\ UNCHANGED <<instances, tables, streak, onDisk, todo>>

\* launch_info found the server: its executable is registered.
Launch(c) ==
    /\ Goto(c, "launch", "spawn")
    /\ onDisk[key[c]]
    /\ launchExe' = launchExe \cup {key[c]}
    /\ UNCHANGED <<instances, gate, lastUsed, memo, streak, sess, onDisk, locals>>

\* The server is not installed, or launch_info failed in another way; an unknown
\* language leaves no memo.
LaunchFails(c) ==
    /\ pc[c] = "launch"
    /\ memo' \in {memo, memo \cup {key[c]}}
    /\ Return(c)
    /\ UNCHANGED <<instances, tables, streak, onDisk, todo>>

Spawn(c) ==
    /\ Goto(c, "spawn", "handshake")
    /\ onDisk[key[c]]
    /\ \E s \in Sids :
          /\ ~Referenced(s)
          /\ cached' = [cached EXCEPT ![c] = s]
          /\ sess' = Kept(instances, cached', [sess EXCEPT ![s] = [st |-> "starting", key |-> key[c]]])
    /\ UNCHANGED <<instances, gate, tables, memo, streak, onDisk, key, retried, todo>>

\* The process could not be spawned (memo), or the root is no URI (no memo).
SpawnFails(c) ==
    /\ pc[c] = "spawn"
    /\ memo' \in {memo, memo \cup {key[c]}}
    /\ Return(c)
    /\ UNCHANGED <<instances, tables, streak, onDisk, todo>>

\* Session::start_named ended the initialize handshake: state Ready.
Handshake(c) ==
    /\ Goto(c, "handshake", "insert")
    /\ sess' = [sess EXCEPT ![cached[c]].st = "ready"]
    /\ UNCHANGED <<instances, gate, tables, memo, streak, onDisk, locals>>

\* The handshake met the end of the server (Terminated) or another error.
HandshakeFails(c) ==
    /\ pc[c] = "handshake"
    /\ memo' = memo \cup {key[c]}
    /\ Return(c)
    /\ UNCHANGED <<instances, tables, streak, onDisk, todo>>

\* After the ready probe (an await later) the session is published.
Insert(c) ==
    /\ Goto(c, "insert", "slowTouch")
    /\ instances' = [instances EXCEPT ![key[c]] = cached[c]]
    /\ sess' = Kept(instances', cached, sess)
    /\ UNCHANGED <<gate, tables, memo, streak, onDisk, locals>>

-----------------------------------------------------------------------------
(* with_session_retry around the call.                                     *)

\* The call succeeds, or fails in a way that is neither Terminated nor Timeout.
\* The result of the second attempt is returned as it is.
UseReturns(c) ==
    /\ pc[c] = "use"
    /\ streak' = IF c \in retried THEN streak ELSE [streak EXCEPT ![key[c]] = 0]
    /\ Return(c)
    /\ UNCHANGED <<instances, tables, memo, onDisk, todo>>

\* Terminated: the writer or the pending table of the session has been closed,
\* which may be before its state says so.
UseTerminated(c) ==
    /\ pc[c] = "use"
    /\ \/ /\ c \notin retried
          /\ streak' = [streak EXCEPT ![key[c]] = 0]
          /\ pc' = [pc EXCEPT ![c] = "evict"]
          /\ UNCHANGED <<gate, sess, key, cached, retried>>
       \/ /\ c \in retried
          /\ Return(c)
          /\ UNCHANGED streak
    /\ UNCHANGED <<instances, tables, memo, onDisk, todo>>

\* A timeout below the threshold, or in the second attempt, goes to the caller.
UseTimesOut(c) ==
    /\ pc[c] = "use"
    /\ IF c \in retried THEN UNCHANGED streak
       ELSE /\ streak[key[c]] + 1 < StreakEvict
            /\ streak' = [streak EXCEPT ![key[c]] = @ + 1]
    /\ Return(c)
    /\ UNCHANGED <<instances, tables, memo, onDisk, todo>>

\* The consecutive timeout that reaches the threshold heals the pool.  (The
\* increment and the removal of the counter are two critical sections; between
\* them a third caller would read a larger count and evict as well, as it does
\* when it times out next.)
UseHangs(c) ==
    /\ Goto(c, "use", "evict")
    /\ c \notin retried
    /\ streak[key[c]] + 1 >= StreakEvict
    /\ streak' = [streak EXCEPT ![key[c]] = 0]
    /\ UNCHANGED <<instances, gate, tables, memo, sess, onDisk, locals>>

\* The handler of a read is dropped when its client goes away (DaemonDrain), and
\* the future of the call with it, at whatever await it is suspended: the gate,
\* launch_info, the handshake, the ready probe, the tool, or evict's shutdown.
Cancel(c) ==
    /\ pc[c] \in {"gateWait", "launch", "handshake", "insert", "use", "evStop"}
    /\ Return(c)
    /\ UNCHANGED <<instances, tables, memo, streak, onDisk, todo>>

-----------------------------------------------------------------------------
(* evict: one critical section per table, then the awaited shutdown.       *)

\* Mutant of EvTake: the session is cloned out of the pool, not removed.
EvTakeClone(a) ==
    /\ Goto(a, "evict", "evUsed")
    /\ cached' = [cached EXCEPT ![a] = instances[key[a]]]
    /\ sess' = Kept(instances, cached', sess)
    /\ UNCHANGED <<instances, gate, tables, memo, streak, onDisk, key, retried, todo>>

EvTake(a) ==
    /\ Goto(a, "evict", "evUsed")
    /\ cached' = [cached EXCEPT ![a] = instances[key[a]]]
    /\ instances' = [instances EXCEPT ![key[a]] = None]
    /\ sess' = Kept(instances', cached', sess)
    /\ UNCHANGED <<gate, tables, memo, streak, onDisk, key, retried, todo>>

\* Mutant of EvUsed: the load gate goes with the other entries of the key.
EvUsedAndGate(a) ==
    /\ Goto(a, "evUsed", "evExe")
    /\ lastUsed' = lastUsed \ {key[a]}
    /\ gate' = [gate EXCEPT ![key[a]] = None]
    /\ UNCHANGED <<instances, launchExe, memo, streak, sess, onDisk, locals>>

EvUsed(a) ==
    /\ Goto(a, "evUsed", "evExe")
    /\ lastUsed' = lastUsed \ {key[a]}
    /\ UNCHANGED <<instances, gate, launchExe, memo, streak, sess, onDisk, locals>>

EvExe(a) ==
    /\ Goto(a, "evExe", "evMemo")
    /\ launchExe' = launchExe \ {key[a]}
    /\ UNCHANGED <<instances, gate, lastUsed, memo, streak, sess, onDisk, locals>>

EvMemo(a) ==
    /\ Goto(a, "evMemo", "evStop")
    /\ memo' = memo \ {key[a]}
    /\ UNCHANGED <<instances, gate, tables, streak, sess, onDisk, locals>>

\* Mutant of EvStop: the reaper, too, goes on to a second attempt.
EvStopRetries(a) ==
    /\ Goto(a, "evStop", "fastRead")
    /\ cached' = [cached EXCEPT ![a] = None]
    /\ sess' = IF cached[a] = None THEN sess
               ELSE Kept(instances, cached', [sess EXCEPT ![cached[a]].st = "stopped"])
    /\ UNCHANGED <<instances, gate, tables, memo, streak, onDisk, key, retried, todo>>

\* session.shutdown().await ends; the caller starts its second attempt, the
\* reaper turns to the next key of its scan.
EvStop(a) ==
    /\ Goto(a, "evStop", IF a \in Reapers THEN "idle" ELSE "fastRead")
    /\ cached' = [cached EXCEPT ![a] = None]
    /\ sess' = IF cached[a] = None THEN sess
               ELSE Kept(instances, cached', [sess EXCEPT ![cached[a]].st = "stopped"])
    /\ retried' = IF a \in Reapers THEN retried ELSE retried \cup {a}
    /\ key' = IF a \in Reapers THEN [key EXCEPT ![a] = None] ELSE key
    /\ UNCHANGED <<instances, gate, tables, memo, streak, onDisk, todo>>

-----------------------------------------------------------------------------
(* The reaper's scans.                                                     *)

\* Mutant of ScanFailed: only keys with a last_used entry are looked at.
ScanFailedUsed(r) ==
    /\ pc[r] = "idle" /\ todo = {}
    /\ todo' = {k \in lastUsed : instances[k] # None /\ Dead(instances[k])}
    /\ todo' # {}
    /\ UNCHANGED <<instances, gate, tables, memo, streak, sess, onDisk, pc, key, cached, retried>>

\* evict_failed_instances: the keys whose pooled session has failed.
ScanFailed(r) ==
    /\ pc[r] = "idle" /\ todo = {}
    /\ todo' = {k \in Keys : instances[k] # None /\ Dead(instances[k])}
    /\ todo' # {}
    /\ UNCHANGED <<instances, gate, tables, memo, streak, sess, onDisk, pc, key, cached, retried>>

\* loaded_entries: a snapshot of last_used; which entries have expired, or are
\* in excess of max_loaded_ls, is left open (module DaemonDrain decides when a server is idle).
ScanIdle(r) ==
    /\ pc[r] = "idle" /\ todo = {}
    /\ todo' \in SUBSET lastUsed \ {{}}
    /\ UNCHANGED <<instances, gate, tables, memo, streak, sess, onDisk, pc, key, cached, retried>>

ReapNext(r) ==
    /\ Goto(r, "idle", "evict")
    /\ \E k \in todo :
          /\ key' = [key EXCEPT ![r] = k]
          /\ todo' = todo \ {k}
    /\ UNCHANGED <<instances, gate, tables, memo, streak, sess, onDisk, cached, retried>>

-----------------------------------------------------------------------------
(* The environment.                                                        *)

\* on_eof: the server process ends.
Crash(s) ==
    /\ sess[s].st = "ready"
    /\ sess' = [sess EXCEPT ![s].st = "failed"]
    /\ UNCHANGED <<instances, gate, tables, memo, streak, onDisk, pc, locals>>

ToggleInstalled(k) ==
    /\ onDisk' = [onDisk EXCEPT ![k] = ~@]
    /\ UNCHANGED <<instances, gate, tables, memo, streak, sess, pc, locals>>

\* The time to live of a memo has passed when it is next looked up.
ExpireMemo(k) ==
    /\ k \in memo
    /\ memo' = memo \ {k}
    /\ UNCHANGED <<instances, gate, tables, streak, sess, onDisk, pc, locals>>

-----------------------------------------------------------------------------
Evict(a) == EvTake(a) \/ EvUsed(a) \/ EvExe(a) \/ EvMemo(a) \/ EvStop(a)

FastPath(c) == FastRead(c) \/ FastCheck(c) \/ FastRemove(c) \/ FastTouch(c)

ColdStart(c) ==
    \/ SlowRead(c) \/ SlowCheck(c) \/ SlowRemove(c) \/ SlowTouch(c)
    \/ CheckMemo(c) \/ FailFast(c) \/ Launch(c) \/ LaunchFails(c)
    \/ Spawn(c) \/ SpawnFails(c) \/ Handshake(c) \/ HandshakeFails(c)
    \/ Insert(c)

UseSession(c) == UseReturns(c) \/ UseTerminated(c) \/ UseTimesOut(c) \/ UseHangs(c)

CallerStep(c) == FastPath(c) \/ AcquireGate(c) \/ ColdStart(c) \/ UseSession(c) \/ Evict(c)

ReaperStep(r) == ReapNext(r) \/ Evict(r)

Next ==
    \/ \E c \in Callers : CallerStep(c) \/ Cancel(c) \/ \E k \in Keys : Call(c, k)
    \/ \E r \in Reapers : ReaperStep(r) \/ ScanFailed(r) \/ ScanIdle(r)
    \/ \E s \in Sids : Crash(s)
    \/ \E k \in Keys : ToggleInstalled(k) \/ ExpireMemo(k)

Spec == Init /\ [][Next]_vars

\* tokio runs every ready task, and every await of a call ends: requests, the
\* handshake and shutdown have timeouts.  tokio::sync::Mutex queues its waiters
\* first in, first out, which is more than strong fairness of the acquisition.
\* Nobody has to call, cancel, crash or uninstall anything.
CallersFair == \A c \in Callers : WF_vars(CallerStep(c)) /\ SF_vars(AcquireGate(c))

-----------------------------------------------------------------------------
(* What the pool promises.                                                 *)

\* At most one cold start of a key is under way: two callers are never both
\* behind the load gate of one key, however evictions interleave with them.
OneColdStart ==
    \A c, d \in Callers :
        c # d /\ pc[c] \in ColdPcs /\ pc[d] \in ColdPcs => key[c] # key[d]

\* What a lookup can find was started for that very key, has finished its
\* handshake and has not been shut down by an eviction.
PooledSessionsServe ==
    \A k \in Keys : LET s == instances[k] IN
        s # None => sess[s].key = k /\ sess[s].st \in {"ready", "failed"}

\* No server is started while a failure of its key is remembered: the memo read
\* before the launch is still what the table says when the process is spawned.
MemoStopsColdStarts ==
    \A c \in Callers :
        pc[c] \in {"launch", "spawn", "handshake", "insert"} => key[c] \notin memo

\* Every call returns: nobody waits for a load gate for ever.
CallsReturn == \A c \in Callers : pc[c] # "idle" ~> pc[c] = "idle"

=============================================================================
