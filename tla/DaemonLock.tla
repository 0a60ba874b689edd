------------------------------ MODULE DaemonLock ------------------------------
(***************************************************************************)
(* One daemon per user: how daemon processes arbitrate with the port and   *)
(* the lock file (daemon/src/lockfile.rs, serve.rs, the end of reaper.rs), *)
(* and how CLI calls find, spawn and reach the daemon (cli/src/main.rs).   *)
(*                                                                         *)
(* Every file system call and every connection is a step of its own.  The  *)
(* lock file is a name in a directory: removing it does not stop a process *)
(* that has it open (Unix), whose later write no reader sees.              *)
(***************************************************************************)
EXTENDS Naturals, FiniteSets

CONSTANTS
    Daemons,        \* process identities; (pid, boot_ms, token) is one identity
    Clients,        \* CLI calls
    Ports,
    DefaultPort,    \* the port of a daemon that a CLI spawns
    Elsewhere,      \* the daemons that may be started by hand on another port
    None,
    MaxCrashes,     \* bound on the processes that are killed
    MaxShutdowns    \* bound on the /shutdown requests and idle exits

ASSUME LockAssumption ==
    /\ DefaultPort \in Ports
    /\ None \notin Daemons \cup Ports
    /\ Elsewhere \subseteq Daemons
    /\ Daemons \cap Clients = {}
    /\ MaxCrashes \in Nat /\ MaxShutdowns \in Nat

Procs == Daemons \cup Clients

VARIABLES
    pc,
    port,           \* daemon -> the port it was started for
    listener,       \* port -> the daemon that is bound to it
    lock,           \* the daemon that created the lock file, and whether it has written it
    tok,            \* process -> the owner of the entry, or of the token, in its local
    base,           \* client -> the port it talks to
    crashes, shutdowns

counts == <<crashes, shutdowns>>
vars == <<pc, port, listener, lock, tok, base, counts>>

-----------------------------------------------------------------------------
NoLock == [owner |-> None, written |-> FALSE]
Locks == [owner : Daemons \cup {None}, written : BOOLEAN]

StartPcs == {"bind", "create", "write", "exists", "read", "probe", "remove"}
EndPcs == {"rmRead", "rmFile", "exit"}
DaemonPcs == StartPcs \cup EndPcs \cup {"off", "serving", "gone"}
ClientPcs == {"start", "entry", "probe", "status", "waitDrain", "spawn", "waitReady",
              "token", "send", "refresh", "resend", "served", "failed"}

TypeOK ==
    /\ pc \in [Procs -> DaemonPcs \cup ClientPcs]
    /\ \A d \in Daemons : pc[d] \in DaemonPcs
    /\ \A c \in Clients : pc[c] \in ClientPcs
    /\ port \in [Daemons -> Ports]
    /\ listener \in [Ports -> Daemons \cup {None}]
    /\ \A p \in Ports : listener[p] # None =>
          port[listener[p]] = p /\ pc[listener[p]] \notin {"off", "bind", "gone"}
    /\ lock \in Locks
    /\ tok \in [Procs -> Daemons \cup {None}]
    /\ base \in [Clients -> Ports]
    /\ crashes \in 0..MaxCrashes /\ shutdowns \in 0..MaxShutdowns

Init ==
    /\ pc = [x \in Procs |-> IF x \in Daemons THEN "off" ELSE "start"]
    /\ port = [d \in Daemons |-> DefaultPort]
    /\ listener = [p \in Ports |-> None]
    /\ lock = NoLock
    /\ tok = [x \in Procs |-> None]
    /\ base = [c \in Clients |-> DefaultPort]
    /\ crashes = 0 /\ shutdowns = 0

-----------------------------------------------------------------------------
Goto(x, from, to) == pc[x] = from /\ pc' = [pc EXCEPT ![x] = to]

\* The process has ended: the system closes its listener.
Free(d) == [p \in Ports |-> IF listener[p] = d THEN None ELSE listener[p]]

Answers(p) == listener[p] # None /\ pc[listener[p]] \in {"serving"} \cup EndPcs
Draining(d) == pc[d] \in EndPcs

-----------------------------------------------------------------------------
(* serve: bind, then try_become_daemon.                                    *)

\* A daemon started by hand, on whatever port it was configured with.
Start(d, p) ==
    /\ Goto(d, "off", "bind")
    /\ p = DefaultPort \/ d \in Elsewhere
    /\ port' = [port EXCEPT ![d] = p]
    /\ UNCHANGED <<listener, lock, tok, base, counts>>

\* Mutant of Bind: a daemon that cannot bind goes on to the lock all the same.
BindAnyway(d) ==
    /\ Goto(d, "bind", "create")
    /\ listener' = IF listener[port[d]] = None THEN [listener EXCEPT ![port[d]] = d] ELSE listener
    /\ UNCHANGED <<port, lock, tok, base, counts>>

\* The loser of the bind exits without touching the lock.
Bind(d) ==
    /\ Goto(d, "bind", IF listener[port[d]] = None THEN "create" ELSE "gone")
    /\ listener' = IF listener[port[d]] = None THEN [listener EXCEPT ![port[d]] = d] ELSE listener
    /\ UNCHANGED <<port, lock, tok, base, counts>>

\* create_new
CreateLock(d) ==
    /\ Goto(d, "create", IF lock = NoLock THEN "write" ELSE "exists")
    /\ lock' = IF lock = NoLock THEN [owner |-> d, written |-> FALSE] ELSE lock
    /\ UNCHANGED <<port, listener, tok, base, counts>>

\* write_all into the file that was created, wherever its name is now.
WriteLock(d) ==
    /\ Goto(d, "write", "serving")
    /\ lock' = IF lock.owner = d THEN [owner |-> d, written |-> TRUE] ELSE lock
    /\ UNCHANGED <<port, listener, tok, base, counts>>

\* read: exists()
LockExists(d) ==
    /\ Goto(d, "exists", IF lock = NoLock THEN "remove" ELSE "read")
    /\ UNCHANGED <<port, listener, lock, tok, base, counts>>

\* Mutant of ReadLock: a lock that is not written yet is read again.
ReadLockAgain(d) ==
    /\ pc[d] = "read"
    /\ pc' = [pc EXCEPT ![d] =
          CASE lock = NoLock -> "gone"
            [] lock # NoLock /\ ~lock.written -> "exists"
            [] lock.written -> IF port[lock.owner] = port[d] THEN "remove" ELSE "probe"]
    /\ listener' = IF lock = NoLock THEN Free(d) ELSE listener
    /\ tok' = [tok EXCEPT ![d] = IF lock.written THEN lock.owner ELSE None]
    /\ UNCHANGED <<port, lock, base, counts>>

\* read: read_to_string, an error when the file has gone meanwhile; a file not
\* written yet, or one that names this daemon's own port, is taken for dead.
ReadLock(d) ==
    /\ pc[d] = "read"
    /\ pc' = [pc EXCEPT ![d] =
          CASE lock = NoLock -> "gone"
            [] lock # NoLock /\ ~lock.written -> "remove"
            [] lock.written -> IF port[lock.owner] = port[d] THEN "remove" ELSE "probe"]
    /\ listener' = IF lock = NoLock THEN Free(d) ELSE listener
    /\ tok' = [tok EXCEPT ![d] = IF lock.written THEN lock.owner ELSE None]
    /\ UNCHANGED <<port, lock, base, counts>>

\* is_alive_graceful: the probe that is answered, or the last that is not.
ProbeOwner(d) ==
    /\ pc[d] = "probe"
    /\ LET alive == listener[port[tok[d]]] # None IN
         /\ pc' = [pc EXCEPT ![d] = IF alive THEN "gone" ELSE "remove"]
         /\ listener' = IF alive THEN Free(d) ELSE listener
    /\ UNCHANGED <<port, lock, tok, base, counts>>

\* Mutant of RemoveLock: the daemon serves without creating its own lock.
RemoveLockOnly(d) ==
    /\ Goto(d, "remove", "serving")
    /\ lock' = NoLock
    /\ UNCHANGED <<port, listener, tok, base, counts>>

\* remove_file, whatever the file is by now; then all over again.
RemoveLock(d) ==
    /\ Goto(d, "remove", "create")
    /\ lock' = NoLock
    /\ UNCHANGED <<port, listener, tok, base, counts>>

-----------------------------------------------------------------------------
(* The end of a daemon: /shutdown, Ctrl-C or the idle exit (DaemonDrain).  *)

Drain(d) ==
    /\ shutdowns < MaxShutdowns
    /\ Goto(d, "serving", "rmRead")
    /\ shutdowns' = shutdowns + 1
    /\ UNCHANGED <<port, listener, lock, tok, base, crashes>>

\* The server returns while the reaper is still at its clean-up, or before it.
StopListening(d) ==
    /\ pc[d] \in EndPcs /\ listener[port[d]] = d
    /\ listener' = Free(d)
    /\ UNCHANGED <<pc, port, lock, tok, base, counts>>

\* remove_owned: the lock is read, and names this very process or not.
RemoveOwnedRead(d) ==
    /\ Goto(d, "rmRead", IF lock.written /\ lock.owner = d THEN "rmFile" ELSE "exit")
    /\ UNCHANGED <<port, listener, lock, tok, base, counts>>

\* remove_owned: remove_file, whatever the file is by now.
RemoveOwnedFile(d) ==
    /\ Goto(d, "rmFile", "exit")
    /\ lock' = NoLock
    /\ UNCHANGED <<port, listener, tok, base, counts>>

\* Mutant of Exit: without process::exit the process lingers with its listener.
ExitLingers(d) ==
    /\ Goto(d, "exit", "gone")
    /\ UNCHANGED <<port, listener, lock, tok, base, counts>>

Exit(d) ==
    /\ Goto(d, "exit", "gone")
    /\ listener' = Free(d)
    /\ UNCHANGED <<port, lock, tok, base, counts>>

Kill(d) ==
    /\ crashes < MaxCrashes /\ crashes' = crashes + 1
    /\ pc[d] \notin {"off", "gone"}
    /\ pc' = [pc EXCEPT ![d] = "gone"]
    /\ listener' = Free(d)
    /\ UNCHANGED <<port, lock, tok, base, shutdowns>>

-----------------------------------------------------------------------------
(* forward_or_spawn: the daemon of the lock, or a new one.                 *)

\* read: exists()
LookEntry(c) ==
    /\ Goto(c, "start", IF lock = NoLock THEN "spawn" ELSE "entry")
    /\ UNCHANGED <<port, listener, lock, tok, base, counts>>

\* read_stale_tolerant: a lock that is not written counts as none, one that has gone
\* since exists() is an error.
ReadEntry(c) ==
    /\ pc[c] = "entry"
    /\ pc' = [pc EXCEPT ![c] =
          CASE lock = NoLock -> "failed"
            [] lock # NoLock /\ ~lock.written -> "spawn"
            [] lock.written -> "probe"]
    /\ tok' = [tok EXCEPT ![c] = IF lock.written THEN lock.owner ELSE None]
    /\ UNCHANGED <<port, listener, lock, base, counts>>

ProbeEntry(c) ==
    /\ Goto(c, "probe", IF listener[port[tok[c]]] # None THEN "status" ELSE "spawn")
    /\ UNCHANGED <<port, listener, lock, tok, base, counts>>

\* alive_but_draining: whatever is not a clear "draining" counts as alive, a
\* daemon that is starting and does not answer within the second included.
Status(c) ==
    /\ pc[c] = "status"
    /\ LET p == port[tok[c]] IN
         IF listener[p] = tok[c] /\ Draining(tok[c])
         THEN pc' = [pc EXCEPT ![c] = "waitDrain"] /\ UNCHANGED base
         ELSE pc' = [pc EXCEPT ![c] = "token"] /\ base' = [base EXCEPT ![c] = p]
    /\ UNCHANGED <<port, listener, lock, tok, counts>>

\* wait_drain_outcome, Attach: the lock names a daemon that does not drain.
AttachAfterDrain(c) ==
    /\ Goto(c, "waitDrain", "token")
    /\ lock.written
    /\ LET p == port[lock.owner] IN
         /\ listener[p] # None
         /\ ~(listener[p] = lock.owner /\ Draining(lock.owner))
         /\ base' = [base EXCEPT ![c] = p]
    /\ UNCHANGED <<port, listener, lock, tok, counts>>

\* wait_drain_outcome, ReadyToSpawn: no lock, and nobody listens.
SpawnAfterDrain(c) ==
    /\ Goto(c, "waitDrain", "spawn")
    /\ ~lock.written
    /\ listener[port[tok[c]]] = None
    /\ UNCHANGED <<port, listener, lock, tok, base, counts>>

DrainWaitTimesOut(c) ==
    /\ Goto(c, "waitDrain", "failed")
    /\ UNCHANGED <<port, listener, lock, tok, base, counts>>

\* spawn_daemon_child; the process may also fail to start.
SpawnDaemon(c) ==
    /\ pc[c] = "spawn"
    /\ \/ \E d \in Daemons :
             /\ pc[d] = "off"
             /\ pc' = [pc EXCEPT ![c] = "waitReady", ![d] = "bind"]
             /\ port' = [port EXCEPT ![d] = DefaultPort]
       \/ /\ pc' = [pc EXCEPT ![c] = "failed"]
          /\ UNCHANGED port
    /\ tok' = [tok EXCEPT ![c] = None]
    /\ base' = [base EXCEPT ![c] = DefaultPort]
    /\ UNCHANGED <<listener, lock, counts>>

\* wait_ready takes the token of the first lock it can read, and keeps it.
ReadyToken(c) ==
    /\ pc[c] = "waitReady" /\ tok[c] = None /\ lock.written
    /\ tok' = [tok EXCEPT ![c] = lock.owner]
    /\ UNCHANGED <<pc, port, listener, lock, base, counts>>

\* /status answers 200, and does not say "draining".
ReadyNow(c) ==
    LET d == listener[DefaultPort] IN d # None /\ pc[d] = "serving" /\ tok[c] = d

Ready(c) ==
    /\ Goto(c, "waitReady", "token")
    /\ ReadyNow(c)
    /\ UNCHANGED <<port, listener, lock, tok, base, counts>>

\* Mutant of ReadyTimesOut: the poll has no deadline.
ReadyNeverTimesOut(c) ==
    /\ pc[c] = "waitReady" /\ FALSE
    /\ UNCHANGED vars

\* The 10 s are up: longer than a daemon takes to start, or to read a lock.
ReadyTimesOut(c) ==
    /\ Goto(c, "waitReady", "failed")
    /\ ~ReadyNow(c) /\ ~(tok[c] = None /\ lock.written)
    /\ \A d \in Daemons : pc[d] \notin StartPcs
    /\ UNCHANGED <<port, listener, lock, tok, base, counts>>

-----------------------------------------------------------------------------
(* read_token_with_retry and forward.                                      *)

ReadToken(c) ==
    /\ Goto(c, "token", "send")
    /\ lock.written
    /\ tok' = [tok EXCEPT ![c] = lock.owner]
    /\ UNCHANGED <<port, listener, lock, base, counts>>

NoToken(c) ==
    /\ pc[c] \in {"token", "refresh"}
    /\ ~lock.written
    /\ pc' = [pc EXCEPT ![c] = "failed"]
    /\ UNCHANGED <<port, listener, lock, tok, base, counts>>

\* 403 for another daemon's token; 503 while draining, which starts all over
\* again until the retry window has passed.
Reply(c, forbidden) ==
    LET d == listener[base[c]] IN
        \/ d # tok[c] /\ pc' = [pc EXCEPT ![c] = forbidden]
        \/ d = tok[c] /\ ~Draining(d) /\ pc' = [pc EXCEPT ![c] = "served"]
        \/ d = tok[c] /\ Draining(d) /\ \E next \in {"start", "failed"} : pc' = [pc EXCEPT ![c] = next]

Send(c) ==
    /\ pc[c] \in {"send", "resend"}
    /\ Answers(base[c])
    /\ Reply(c, IF pc[c] = "send" THEN "refresh" ELSE "failed")
    /\ UNCHANGED <<port, listener, lock, tok, base, counts>>

\* Nobody listens, also after the retries of send_with_connect_retry.
SendRefused(c) ==
    /\ pc[c] \in {"send", "resend"}
    /\ listener[base[c]] = None
    /\ pc' = [pc EXCEPT ![c] = "failed"]
    /\ UNCHANGED <<port, listener, lock, tok, base, counts>>

\* refresh_token_if_stale: send once more if the lock has another token.
RefreshToken(c) ==
    /\ Goto(c, "refresh", IF lock.owner = tok[c] THEN "failed" ELSE "resend")
    /\ lock.written
    /\ tok' = [tok EXCEPT ![c] = lock.owner]
    /\ UNCHANGED <<port, listener, lock, base, counts>>

-----------------------------------------------------------------------------
Arbitrate(d) ==
    \/ Bind(d) \/ CreateLock(d) \/ WriteLock(d) \/ LockExists(d)
    \/ ReadLock(d) \/ ProbeOwner(d) \/ RemoveLock(d)

End(d) == RemoveOwnedRead(d) \/ RemoveOwnedFile(d) \/ Exit(d)

Call(c) ==
    \/ LookEntry(c) \/ ReadEntry(c) \/ ProbeEntry(c) \/ Status(c)
    \/ AttachAfterDrain(c) \/ SpawnAfterDrain(c) \/ DrainWaitTimesOut(c)
    \/ SpawnDaemon(c) \/ ReadyToken(c) \/ Ready(c) \/ ReadyTimesOut(c)
    \/ ReadToken(c) \/ NoToken(c) \/ Send(c) \/ SendRefused(c) \/ RefreshToken(c)

Next ==
    \/ \E d \in Daemons :
          \/ \E p \in Ports : Start(d, p)
          \/ Arbitrate(d) \/ End(d)
          \/ Drain(d) \/ StopListening(d) \/ Kill(d)
    \/ \E c \in Clients : Call(c)

Spec == Init /\ [][Next]_vars

\* Every process goes on; nobody has to start, stop or kill a daemon.
FairSpec ==
    /\ Spec
    /\ \A d \in Daemons : WF_vars(Arbitrate(d)) /\ WF_vars(End(d))
    /\ \A c \in Clients : WF_vars(Call(c))

-----------------------------------------------------------------------------
\* The daemons that CLI calls spawn are all started for the default port.
SamePort == \A d \in Daemons : port[d] = DefaultPort

\* Bind comes first, so a takeover never removes the lock of a daemon that
\* serves: whoever arbitrates for a port holds it.
TakeoverOfTheDead ==
    [][\A d \in Daemons :
          SamePort /\ RemoveLock(d) /\ lock # NoLock => pc[lock.owner] # "serving"]_vars

Found == \A d \in Daemons : pc[d] = "serving" => lock = [owner |-> d, written |-> TRUE]

\* A daemon that serves is found: the lock is there and names it, as long as no
\* daemon has begun to remove its own (remove_owned).
ServersAreFound == SamePort /\ shutdowns = 0 => Found

\* Every CLI call ends, whatever it finds and whoever dies meanwhile.
CallsEnd == \A c \in Clients : <>(pc[c] \in {"served", "failed"})

\* Every daemon that starts comes to serve or exits; also when another died
\* between creating its lock and writing it.
ArbitrationEnds == \A d \in Daemons : pc[d] = "bind" ~> pc[d] \notin StartPcs
=============================================================================
