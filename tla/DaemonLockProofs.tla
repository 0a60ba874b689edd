--------------------------- MODULE DaemonLockProofs ---------------------------
(***************************************************************************)
(* Proofs about DaemonLock, for any daemons, calls, ports, kills and       *)
(* shutdowns: a takeover removes no lock of a daemon that serves on the    *)
(* same port, and, until a daemon is shut down, who serves is found.       *)
(***************************************************************************)
EXTENDS DaemonLock, TLAPS

\* A lock that was written has an owner, and who asks a daemon has a token of one.
LockInv ==
    /\ lock.owner = None => ~lock.written
    /\ \A c \in Clients : pc[c] \in {"probe", "status", "waitDrain"} => tok[c] # None
    /\ \A d \in Daemons : pc[d] = "probe" => tok[d] # None

\* A daemon keeps its port from bind to the end of its service; one that was not started
\* yet would be started for the default port.
HoldInv ==
    /\ \A d \in Daemons : pc[d] \in (StartPcs \ {"bind"}) \cup {"serving"} => listener[port[d]] = d
    /\ \A d \in Daemons : pc[d] = "off" => port[d] = DefaultPort

\* With one port, and nobody shut down, the lock is that of the daemon that writes it or serves.
OwnedInv ==
    SamePort /\ shutdowns = 0 =>
        \A d \in Daemons :
            /\ pc[d] \notin EndPcs
            /\ pc[d] = "write" => lock = [owner |-> d, written |-> FALSE]
            /\ pc[d] = "serving" => lock = [owner |-> d, written |-> TRUE]

IInv == TypeOK /\ LockInv /\ HoldInv /\ OwnedInv

-----------------------------------------------------------------------------
LEMMA InitIInv == Init => IInv
<1> SUFFICES ASSUME Init PROVE IInv
  OBVIOUS
<1> USE LockAssumption DEF Init
<1>1. \A d \in Daemons : d \in Procs /\ d \notin Clients /\ pc[d] = "off"
  BY DEF Procs
<1>2. \A c \in Clients : c \in Procs /\ pc[c] = "start"
  BY DEF Procs
<1>3. TypeOK
  BY <1>1, <1>2 DEF TypeOK, DaemonPcs, ClientPcs, StartPcs, EndPcs, NoLock, Locks
<1>4. LockInv /\ HoldInv /\ OwnedInv
  BY <1>1, <1>2 DEF LockInv, HoldInv, OwnedInv, StartPcs, EndPcs, NoLock
<1> QED BY <1>3, <1>4 DEF IInv

\* What the type invariant says of the processes.
LEMMA Typed ==
  ASSUME IInv
  PROVE  /\ \A d \in Daemons : d \in Procs \ Clients /\ d # None /\ pc[d] \in DaemonPcs /\ port[d] \in Ports
         /\ \A c \in Clients : c \in Procs \ Daemons /\ pc[c] \in ClientPcs
         /\ pc \in [Procs -> DaemonPcs \cup ClientPcs]
         /\ lock \in Locks /\ (lock.written => lock.owner \in Daemons)
         /\ \A c \in Clients : pc[c] \in {"probe", "status", "waitDrain"} => tok[c] \in Daemons
         /\ \A p \in Ports : listener[p] \in Daemons \cup {None}
BY LockAssumption DEF IInv, TypeOK, LockInv, Procs, Locks

LEMMA TypeStep == IInv /\ [Next]_vars => TypeOK'
<1> SUFFICES ASSUME IInv, [Next]_vars PROVE TypeOK'
  OBVIOUS
<1>0. TypeOK /\ LockInv
  BY DEF IInv
<1> USE <1>0, Typed, LockAssumption
    DEF TypeOK, DaemonPcs, ClientPcs, StartPcs, EndPcs, Locks, NoLock, counts, Goto, Free
<1>1. ASSUME NEW d \in Daemons, NEW p \in Ports, Start(d, p) PROVE TypeOK'
  BY <1>1 DEF Start
<1>2. ASSUME NEW d \in Daemons, Arbitrate(d) PROVE TypeOK'
  <2>1. CASE Bind(d)
    BY <2>1 DEF Bind
  <2>2. CASE CreateLock(d)
    <3>1. lock' \in Locks
      BY <2>2 DEF CreateLock
    <3> QED BY <2>2, <3>1 DEF CreateLock
  <2>3. CASE WriteLock(d)
    <3>1. lock' \in Locks
      BY <2>3 DEF WriteLock
    <3> QED BY <2>3, <3>1 DEF WriteLock
  <2>4. CASE LockExists(d)
    BY <2>4 DEF LockExists
  <2>5. CASE RemoveLock(d)
    BY <2>5 DEF RemoveLock
  <2>6. CASE ReadLock(d)
    BY <2>6 DEF ReadLock
  <2>7. CASE ProbeOwner(d)
    BY <2>7 DEF ProbeOwner
  <2> QED BY <1>2, <2>1, <2>2, <2>3, <2>4, <2>5, <2>6, <2>7 DEF Arbitrate
<1>3. ASSUME NEW d \in Daemons, End(d) \/ Drain(d) \/ StopListening(d) \/ Kill(d) PROVE TypeOK'
  <2>1. CASE RemoveOwnedRead(d)
    BY <2>1 DEF RemoveOwnedRead
  <2>5. CASE RemoveOwnedFile(d)
    BY <2>5 DEF RemoveOwnedFile
  <2>2. CASE Exit(d) \/ StopListening(d)
    BY <2>2 DEF Exit, StopListening
  <2>3. CASE Drain(d)
    BY <2>3 DEF Drain
  <2>4. CASE Kill(d)
    BY <2>4 DEF Kill
  <2> QED BY <1>3, <2>1, <2>2, <2>3, <2>4, <2>5 DEF End
<1>4. ASSUME NEW c \in Clients, Call(c) PROVE TypeOK'
  <2>1. CASE LookEntry(c) \/ ReadEntry(c) \/ ProbeEntry(c) \/ SpawnAfterDrain(c) \/ DrainWaitTimesOut(c)
    BY <2>1 DEF LookEntry, ReadEntry, ProbeEntry, SpawnAfterDrain, DrainWaitTimesOut
  <2>2. CASE Status(c)
    BY <2>2 DEF Status
  <2>3. CASE AttachAfterDrain(c)
    BY <2>3 DEF AttachAfterDrain
  <2>4. CASE SpawnDaemon(c)
    BY <2>4 DEF SpawnDaemon
  <2>5. CASE ReadyToken(c) \/ Ready(c) \/ ReadyTimesOut(c)
    BY <2>5 DEF ReadyToken, Ready, ReadyTimesOut
  <2>6. CASE ReadToken(c) \/ NoToken(c) \/ SendRefused(c) \/ RefreshToken(c)
    BY <2>6 DEF ReadToken, NoToken, SendRefused, RefreshToken
  <2>7. CASE Send(c)
    BY <2>7 DEF Send, Reply
  <2> QED BY <1>4, <2>1, <2>2, <2>3, <2>4, <2>5, <2>6, <2>7 DEF Call
<1>5. CASE UNCHANGED vars
  BY <1>5 DEF vars
<1> QED BY <1>1, <1>2, <1>3, <1>4, <1>5 DEF Next

LEMMA LockStep == IInv /\ [Next]_vars => LockInv'
<1> SUFFICES ASSUME IInv, [Next]_vars PROVE LockInv'
  OBVIOUS
<1>0. LockInv /\ pc \in [Procs -> DaemonPcs \cup ClientPcs] /\ tok \in [Procs -> Daemons \cup {None}]
  BY DEF IInv, TypeOK
<1> USE <1>0, Typed, LockAssumption DEF LockInv, NoLock, Locks, counts, Goto
<1>1. ASSUME NEW d \in Daemons, NEW p \in Ports, Start(d, p) PROVE LockInv'
  BY <1>1 DEF Start
<1>2. ASSUME NEW d \in Daemons, Arbitrate(d) PROVE LockInv'
  BY <1>2 DEF Arbitrate, Bind, CreateLock, WriteLock, LockExists, ReadLock, ProbeOwner, RemoveLock
<1>3. ASSUME NEW d \in Daemons, End(d) \/ Drain(d) \/ StopListening(d) \/ Kill(d) PROVE LockInv'
  BY <1>3 DEF End, RemoveOwnedRead, RemoveOwnedFile, Exit, Drain, StopListening, Kill
<1>4. ASSUME NEW c \in Clients, Call(c) PROVE LockInv'
  <2>1. CASE LookEntry(c) \/ ReadEntry(c) \/ ProbeEntry(c) \/ SpawnAfterDrain(c) \/ DrainWaitTimesOut(c)
    BY <2>1 DEF LookEntry, ReadEntry, ProbeEntry, SpawnAfterDrain, DrainWaitTimesOut
  <2>2. CASE Status(c) \/ AttachAfterDrain(c)
    BY <2>2 DEF Status, AttachAfterDrain
  <2>3. CASE SpawnDaemon(c)
    BY <2>3 DEF SpawnDaemon
  <2>4. CASE ReadyToken(c) \/ Ready(c) \/ ReadyTimesOut(c)
    BY <2>4 DEF ReadyToken, Ready, ReadyTimesOut
  <2>5. CASE ReadToken(c) \/ NoToken(c) \/ SendRefused(c) \/ RefreshToken(c)
    BY <2>5 DEF ReadToken, NoToken, SendRefused, RefreshToken
  <2>6. CASE Send(c)
    BY <2>6 DEF Send, Reply
  <2> QED BY <1>4, <2>1, <2>2, <2>3, <2>4, <2>5, <2>6 DEF Call
<1>5. CASE UNCHANGED vars
  BY <1>5 DEF vars
<1> QED BY <1>1, <1>2, <1>3, <1>4, <1>5 DEF Next

\* A call touches no daemon but the one it spawns.
LEMMA OtherCalls ==
  ASSUME IInv, NEW c \in Clients, Call(c), ~SpawnDaemon(c)
  PROVE  /\ port' = port /\ listener' = listener /\ lock' = lock
         /\ \A d \in Daemons : pc'[d] = pc[d]
<1> DEFINE Goal == /\ port' = port /\ listener' = listener /\ lock' = lock
                   /\ \A d \in Daemons : pc'[d] = pc[d]
<1> USE Typed DEF Goto
<1>1. CASE LookEntry(c) \/ ReadEntry(c) \/ ProbeEntry(c) \/ SpawnAfterDrain(c) \/ DrainWaitTimesOut(c)
  BY <1>1 DEF LookEntry, ReadEntry, ProbeEntry, SpawnAfterDrain, DrainWaitTimesOut
<1>2. CASE Status(c)
  BY <1>2 DEF Status
<1>3. CASE AttachAfterDrain(c)
  BY <1>3 DEF AttachAfterDrain
<1>4. CASE ReadyToken(c) \/ Ready(c) \/ ReadyTimesOut(c)
  BY <1>4 DEF ReadyToken, Ready, ReadyTimesOut
<1>5. CASE ReadToken(c) \/ NoToken(c) \/ SendRefused(c) \/ RefreshToken(c)
  BY <1>5 DEF ReadToken, NoToken, SendRefused, RefreshToken
<1>6. CASE Send(c)
  <2>1. \E to : pc' = [pc EXCEPT ![c] = to]
    BY <1>6 DEF Send, Reply
  <2> QED BY <1>6, <2>1 DEF Send
<1> QED BY <1>1, <1>2, <1>3, <1>4, <1>5, <1>6 DEF Call

\* Whoever holds a port keeps it: the others free only what they hold.
LEMMA HoldStep == IInv /\ [Next]_vars => HoldInv'
<1> SUFFICES ASSUME IInv, [Next]_vars PROVE HoldInv'
  OBVIOUS
<1>0. /\ HoldInv /\ pc \in [Procs -> DaemonPcs \cup ClientPcs]
      /\ port \in [Daemons -> Ports] /\ listener \in [Ports -> Daemons \cup {None}]
  BY DEF IInv, TypeOK
<1> USE <1>0, Typed, LockAssumption DEF HoldInv, StartPcs, EndPcs, counts, Goto, Free
<1>1. ASSUME NEW d \in Daemons, NEW p \in Ports, Start(d, p) PROVE HoldInv'
  BY <1>1 DEF Start
<1>2. ASSUME NEW d \in Daemons, Arbitrate(d) PROVE HoldInv'
  <2>1. CASE Bind(d)
    BY <2>1 DEF Bind
  <2>2. CASE CreateLock(d) \/ WriteLock(d) \/ LockExists(d) \/ RemoveLock(d)
    <3>1. /\ pc[d] \in StartPcs \ {"bind"} /\ port' = port /\ listener' = listener
          /\ pc'[d] # "off" /\ \A e \in Daemons \ {d} : pc'[e] = pc[e]
      <4>1. CASE CreateLock(d)
        BY <4>1 DEF CreateLock
      <4>2. CASE WriteLock(d)
        BY <4>2 DEF WriteLock
      <4>3. CASE LockExists(d)
        BY <4>3 DEF LockExists
      <4>4. CASE RemoveLock(d)
        BY <4>4 DEF RemoveLock
      <4> QED BY <2>2, <4>1, <4>2, <4>3, <4>4
    <3> QED BY <3>1
  <2>3. CASE ReadLock(d)
    <3>1. port' = port /\ \A e \in Daemons \ {d} : pc'[e] = pc[e]
      BY <2>3 DEF ReadLock
    <3>2. CASE lock = NoLock
      <4>1. pc'[d] = "gone"
        BY <2>3, <3>2 DEF ReadLock, NoLock
      <4>2. \A e \in Daemons \ {d} : listener[port[e]] = e => listener'[port[e]] = e
        BY <2>3, <3>2 DEF ReadLock, NoLock
      <4> QED BY <3>1, <4>1, <4>2
    <3>3. CASE lock # NoLock
      <4>1. pc'[d] \in {"remove", "probe"} /\ listener' = listener /\ pc[d] = "read"
        BY <2>3, <3>3 DEF ReadLock, Locks
      <4> QED BY <3>1, <4>1
    <3> QED BY <3>2, <3>3
  <2>4. CASE ProbeOwner(d)
    BY <2>4 DEF ProbeOwner
  <2> QED BY <1>2, <2>1, <2>2, <2>3, <2>4 DEF Arbitrate
<1>3. ASSUME NEW d \in Daemons, End(d) \/ Drain(d) \/ StopListening(d) \/ Kill(d) PROVE HoldInv'
  BY <1>3 DEF End, RemoveOwnedRead, RemoveOwnedFile, Exit, Drain, StopListening, Kill
<1>4. ASSUME NEW c \in Clients, Call(c) PROVE HoldInv'
  <2>1. CASE SpawnDaemon(c)
    BY <2>1 DEF SpawnDaemon
  <2>2. CASE ~SpawnDaemon(c)
    BY <1>4, <2>2, OtherCalls
  <2> QED BY <2>1, <2>2
<1>5. CASE UNCHANGED vars
  BY <1>5 DEF vars
<1> QED BY <1>1, <1>2, <1>3, <1>4, <1>5 DEF Next

\* The ports do not come to agree, and a shutdown is not taken back.
LEMMA OneHolder ==
  ASSUME IInv, SamePort, NEW d \in Daemons, NEW e \in Daemons,
         pc[d] \in (StartPcs \ {"bind"}) \cup {"serving"},
         pc[e] \in (StartPcs \ {"bind"}) \cup {"serving"}
  PROVE  d = e
BY DEF IInv, HoldInv, SamePort

LEMMA OwnedStep == IInv /\ [Next]_vars => OwnedInv'
<1> SUFFICES ASSUME IInv, [Next]_vars, SamePort', shutdowns' = 0
             PROVE  \A d \in Daemons :
                      /\ pc'[d] \notin EndPcs
                      /\ pc'[d] = "write" => lock' = [owner |-> d, written |-> FALSE]
                      /\ pc'[d] = "serving" => lock' = [owner |-> d, written |-> TRUE]
  BY DEF OwnedInv
<1>0. /\ pc \in [Procs -> DaemonPcs \cup ClientPcs] /\ port \in [Daemons -> Ports]
      /\ shutdowns \in Nat
  BY LockAssumption DEF IInv, TypeOK
<1>1. SamePort /\ shutdowns = 0
  <2>1. ASSUME NEW d \in Daemons, port[d] # port'[d] PROVE pc[d] = "off"
    BY <2>1, <1>0 DEF Next, Start, Arbitrate, Bind, CreateLock, WriteLock, LockExists, ReadLock,
         ProbeOwner, RemoveLock, End, RemoveOwnedRead, RemoveOwnedFile, Exit, Drain, StopListening,
         Kill, Call, LookEntry, ReadEntry, ProbeEntry, Status, AttachAfterDrain, SpawnAfterDrain,
         DrainWaitTimesOut, SpawnDaemon, ReadyToken, Ready, ReadyTimesOut, ReadToken, NoToken, Send,
         SendRefused, RefreshToken, vars, Goto
  <2>2. SamePort
    BY <2>1 DEF IInv, HoldInv, SamePort
  <2>3. shutdowns' >= shutdowns
    BY <1>0 DEF Next, Start, Arbitrate, Bind, CreateLock, WriteLock, LockExists, ReadLock,
         ProbeOwner, RemoveLock, End, RemoveOwnedRead, RemoveOwnedFile, Exit, Drain, StopListening,
         Kill, Call, LookEntry, ReadEntry, ProbeEntry, Status, AttachAfterDrain, SpawnAfterDrain,
         DrainWaitTimesOut, SpawnDaemon, ReadyToken, Ready, ReadyTimesOut, ReadToken, NoToken, Send,
         SendRefused, RefreshToken, vars, counts
  <2> QED BY <2>2, <2>3, <1>0
<1>2. \A d \in Daemons :
         /\ pc[d] \notin EndPcs
         /\ pc[d] = "write" => lock = [owner |-> d, written |-> FALSE]
         /\ pc[d] = "serving" => lock = [owner |-> d, written |-> TRUE]
  BY <1>1 DEF IInv, OwnedInv
<1>3. \A d, e \in Daemons :
         /\ pc[d] \in {"create", "write", "exists", "read", "probe", "remove", "serving"}
         /\ pc[e] \in {"create", "write", "exists", "read", "probe", "remove", "serving"}
         => d = e
  BY <1>1, OneHolder DEF StartPcs
<1> USE <1>0, <1>1, <1>2, <1>3, Typed DEF counts, Goto, EndPcs, NoLock
<1> DEFINE Goal == \A d \in Daemons :
                      /\ pc'[d] \notin EndPcs
                      /\ pc'[d] = "write" => lock' = [owner |-> d, written |-> FALSE]
                      /\ pc'[d] = "serving" => lock' = [owner |-> d, written |-> TRUE]
<1>4. ASSUME NEW d \in Daemons, NEW p \in Ports, Start(d, p) PROVE Goal
  BY <1>4 DEF Start
<1>5. ASSUME NEW d \in Daemons, Arbitrate(d) PROVE Goal
  <2>1. CASE Bind(d)
    BY <2>1 DEF Bind
  <2>2. CASE CreateLock(d)
    <3>1. \A e \in Daemons \ {d} : pc'[e] = pc[e] /\ pc[e] \notin {"write", "serving"}
      BY <2>2 DEF CreateLock
    <3>2. CASE lock = NoLock
      BY <2>2, <3>1, <3>2 DEF CreateLock
    <3>3. CASE lock # NoLock
      <4>1. pc'[d] = "exists"
        BY <2>2, <3>3 DEF CreateLock
      <4> QED BY <3>1, <4>1
    <3> QED BY <3>2, <3>3
  <2>3. CASE WriteLock(d)
    <3>1. \A e \in Daemons \ {d} : pc'[e] = pc[e] /\ pc[e] \notin {"write", "serving"}
      BY <2>3 DEF WriteLock
    <3>2. pc'[d] = "serving" /\ lock' = [owner |-> d, written |-> TRUE]
      BY <2>3 DEF WriteLock
    <3> QED BY <3>1, <3>2
  <2>4. CASE LockExists(d)
    BY <2>4 DEF LockExists
  <2>5. CASE ReadLock(d)
    BY <2>5 DEF ReadLock
  <2>6. CASE ProbeOwner(d)
    BY <2>6 DEF ProbeOwner
  <2>7. CASE RemoveLock(d)
    BY <2>7 DEF RemoveLock
  <2> QED BY <1>5, <2>1, <2>2, <2>3, <2>4, <2>5, <2>6, <2>7 DEF Arbitrate
<1>6. ASSUME NEW d \in Daemons, End(d) \/ Drain(d) \/ StopListening(d) PROVE Goal
  BY <1>6 DEF End, RemoveOwnedRead, RemoveOwnedFile, Exit, Drain, StopListening
<1>7. ASSUME NEW d \in Daemons, Kill(d) PROVE Goal
  BY <1>7 DEF Kill
<1>8. ASSUME NEW c \in Clients, Call(c) PROVE Goal
  <2>1. CASE SpawnDaemon(c)
    BY <2>1 DEF SpawnDaemon
  <2>2. CASE ~SpawnDaemon(c)
    BY <1>8, <2>2, OtherCalls
  <2> QED BY <2>1, <2>2
<1>9. CASE UNCHANGED vars
  BY <1>9 DEF vars
<1> QED BY <1>4, <1>5, <1>6, <1>7, <1>8, <1>9 DEF Next

LEMMA Invariance == Spec => []IInv
<1>1. IInv /\ [Next]_vars => IInv'
  BY TypeStep, LockStep, HoldStep, OwnedStep DEF IInv
<1> QED BY InitIInv, <1>1, PTL DEF Spec

-----------------------------------------------------------------------------
\* The types; with them, that who listens at a port is alive and was started for it.
THEOREM TypeCorrect == Spec => []TypeOK
<1>1. IInv => TypeOK
  BY DEF IInv
<1> QED BY Invariance, <1>1, PTL

\* Until the first shutdown, a daemon that serves is the one the lock names, however many
\* daemons are started and killed at whatever step.
THEOREM ServersFound == Spec => []ServersAreFound
<1>1. IInv => ServersAreFound
  BY DEF IInv, OwnedInv, ServersAreFound, Found
<1> QED BY Invariance, <1>1, PTL

\* A takeover removes no lock of a daemon that serves on the same port, also after shutdowns.
THEOREM TakeoverSafe == Spec => TakeoverOfTheDead
<1> DEFINE Dead == \A d \in Daemons :
                     SamePort /\ RemoveLock(d) /\ lock # NoLock => pc[lock.owner] # "serving"
<1>1. IInv => [Dead]_vars
  <2> SUFFICES ASSUME IInv, NEW d \in Daemons, SamePort, RemoveLock(d), lock # NoLock,
                      pc[lock.owner] = "serving"
               PROVE  FALSE
    OBVIOUS
  <2>1. pc[d] = "remove"
    BY DEF RemoveLock, Goto
  <2>2. lock.owner \in Daemons
    BY Typed DEF NoLock, Locks, LockInv, IInv
  <2>3. d = lock.owner
    BY <2>1, <2>2, OneHolder DEF StartPcs
  <2> QED BY <2>1, <2>3
<1> QED BY Invariance, <1>1, PTL DEF Spec, TakeoverOfTheDead

=============================================================================
