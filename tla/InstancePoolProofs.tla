-------------------------- MODULE InstancePoolProofs --------------------------
(***************************************************************************)
(* What holds of the session pool for any number of callers, reapers, keys *)
(* and sessions.                                                           *)
(***************************************************************************)
EXTENDS InstancePool, TLAPS

\* The dropping of sessions leaves a table of sessions.
LEMMA KeptType ==
    ASSUME NEW inst, NEW loc, NEW st \in [Sids -> Session]
    PROVE  /\ Kept(inst, loc, st) \in [Sids -> Session]
           /\ \A s \in Sids : Held(s, inst, loc) => Kept(inst, loc, st)[s] = st[s]
  BY DEF Kept, Session, NoSession

\* A session that changes its state is still a session.
LEMMA StateType ==
    ASSUME NEW st \in [Sids -> Session], NEW x,
           NEW v \in {"starting", "ready", "failed", "stopped"}
    PROVE  [st EXCEPT ![x].st = v] \in [Sids -> Session]
<1>1. ASSUME NEW r \in Session PROVE [r EXCEPT !.st = v] \in Session
  BY <1>1 DEF Session
<1>2. ASSUME NEW s \in Sids PROVE [st EXCEPT ![x].st = v][s] \in Session
  <2>1. CASE s = x
    BY <1>1, <2>1
  <2>2. CASE s # x
    BY <2>2
  <2> QED BY <2>1, <2>2
<1> QED BY <1>2

\* Type correctness of the pool.
THEOREM TypeCorrect == Spec => []TypeOK
<1> USE PoolAssumption DEF TypeOK, Actors, CallerPcs, ReaperPcs, FastPcs, ColdPcs, EvictPcs
<1>1. Init => TypeOK
  BY DEF Init, Session, NoSession
<1>2. TypeOK /\ [Next]_vars => TypeOK'
  <2> SUFFICES ASSUME TypeOK, [Next]_vars PROVE TypeOK'
    OBVIOUS
  <2> USE DEF Goto, tables, locals
  <2>1. ASSUME NEW c \in Callers, NEW k \in Keys, Call(c, k) PROVE TypeOK'
    BY <2>1 DEF Call
  <2>2. ASSUME NEW c \in Callers, FastPath(c) PROVE TypeOK'
    <3>1. CASE FastRead(c)
      BY <3>1, KeptType DEF FastRead, ReadInstance
    <3>2. CASE FastCheck(c)
      BY <3>2 DEF FastCheck, Branch
    <3>3. CASE FastRemove(c)
      BY <3>3, KeptType DEF FastRemove, RemoveInstance
    <3>4. CASE FastTouch(c)
      BY <3>4 DEF FastTouch
    <3> QED BY <2>2, <3>1, <3>2, <3>3, <3>4 DEF FastPath
  <2>3. ASSUME NEW c \in Callers, AcquireGate(c) PROVE TypeOK'
    BY <2>3 DEF AcquireGate
  <2>4. ASSUME NEW c \in Callers, ColdStart(c) PROVE TypeOK'
    <3>1. CASE SlowRead(c)
      BY <3>1, KeptType DEF SlowRead, ReadInstance
    <3>2. CASE SlowCheck(c)
      BY <3>2 DEF SlowCheck, Branch
    <3>3. CASE SlowRemove(c)
      BY <3>3, KeptType DEF SlowRemove, RemoveInstance
    <3>4. CASE SlowTouch(c)
      BY <3>4 DEF SlowTouch
    <3>5. CASE CheckMemo(c)
      BY <3>5 DEF CheckMemo
    <3>6. CASE FailFast(c)
      BY <3>6, KeptType DEF FailFast, Return
    <3>7. CASE Launch(c)
      BY <3>7 DEF Launch
    <3>8. CASE LaunchFails(c)
      BY <3>8, KeptType DEF LaunchFails, Return
    <3>9. CASE Spawn(c)
      <4>1. PICK s \in Sids :
              sess' = Kept(instances, cached', [sess EXCEPT ![s] = [st |-> "starting", key |-> key[c]]])
              /\ cached' = [cached EXCEPT ![c] = s]
        BY <3>9 DEF Spawn
      <4>2. [st |-> "starting", key |-> key[c]] \in Session
        BY <3>9 DEF Spawn, Session
      <4>3. sess' \in [Sids -> Session]
        BY <4>1, <4>2, KeptType
      <4> QED BY <3>9, <4>1, <4>3 DEF Spawn
    <3>10. CASE SpawnFails(c)
      BY <3>10, KeptType DEF SpawnFails, Return
    <3>11. CASE Handshake(c)
      BY <3>11, StateType DEF Handshake
    <3>12. CASE HandshakeFails(c)
      BY <3>12, KeptType DEF HandshakeFails, Return
    <3>13. CASE Insert(c)
      BY <3>13, KeptType DEF Insert
    <3> QED BY <2>4, <3>1, <3>2, <3>3, <3>4, <3>5, <3>6, <3>7, <3>8, <3>9, <3>10,
               <3>11, <3>12, <3>13 DEF ColdStart
  <2>5. ASSUME NEW c \in Callers, UseSession(c) PROVE TypeOK'
    <3>1. CASE UseReturns(c)
      BY <3>1, KeptType DEF UseReturns, Return
    <3>2. CASE UseTerminated(c)
      BY <3>2, KeptType DEF UseTerminated, Return
    <3>3. CASE UseTimesOut(c)
      BY <3>3, KeptType DEF UseTimesOut, Return
    <3>4. CASE UseHangs(c)
      BY <3>4 DEF UseHangs
    <3> QED BY <2>5, <3>1, <3>2, <3>3, <3>4 DEF UseSession
  <2>6. ASSUME NEW a \in Actors, Evict(a) PROVE TypeOK'
    <3>1. CASE EvTake(a)
      BY <2>6, <3>1, KeptType DEF EvTake
    <3>2. CASE EvUsed(a)
      BY <3>2 DEF EvUsed
    <3>3. CASE EvExe(a)
      BY <3>3 DEF EvExe
    <3>4. CASE EvMemo(a)
      BY <3>4 DEF EvMemo
    <3>5. CASE EvStop(a)
      <4>1. [sess EXCEPT ![cached[a]].st = "stopped"] \in [Sids -> Session]
        BY StateType
      <4>2. sess' \in [Sids -> Session]
        BY <3>5, <4>1, KeptType DEF EvStop
      <4> QED BY <2>6, <3>5, <4>2 DEF EvStop
    <3> QED BY <2>6, <3>1, <3>2, <3>3, <3>4, <3>5 DEF Evict
  <2>7. ASSUME NEW r \in Reapers, ReapNext(r) \/ ScanFailed(r) \/ ScanIdle(r) PROVE TypeOK'
    BY <2>7 DEF ReapNext, ScanFailed, ScanIdle
  <2>8. ASSUME NEW s \in Sids, Crash(s) PROVE TypeOK'
    BY <2>8, StateType DEF Crash
  <2>9. ASSUME NEW k \in Keys, ToggleInstalled(k) \/ ExpireMemo(k) PROVE TypeOK'
    BY <2>9 DEF ToggleInstalled, ExpireMemo
  <2>10. CASE UNCHANGED vars
    BY <2>10 DEF vars
  <2>11. ASSUME NEW c \in Callers, Cancel(c) PROVE TypeOK'
    BY <2>11, KeptType DEF Cancel, Return
  <2> QED BY <2>1, <2>2, <2>3, <2>4, <2>5, <2>6, <2>7, <2>8, <2>9, <2>10, <2>11
          DEF Next, CallerStep, ReaperStep
<1>3. QED BY <1>1, <1>2, PTL DEF Spec

-----------------------------------------------------------------------------
(* The load gate.                                                          *)

\* Whoever is past the gate holds it: OneColdStart follows, because a gate has
\* one holder.  The second conjunct needs it: only the holder publishes.
GateInv ==
    /\ \A c \in Callers : pc[c] \in ColdPcs => gate[key[c]] = c
    /\ \A c \in Callers :
          pc[c] \in {"slowCheck", "slowExe", "slowPoolExe", "slowPool", "slowDisk", "slowRemove"}
              => instances[key[c]] \in {cached[c], None}
    /\ MemoStopsColdStarts

LEMMA GateInvariant == Spec => []GateInv
<1> USE PoolAssumption DEF Actors
<1>1. Init => GateInv
  BY DEF Init, GateInv, MemoStopsColdStarts, ColdPcs
<1>2. TypeOK /\ GateInv /\ [Next]_vars => GateInv'
  <2> SUFFICES ASSUME TypeOK, GateInv, [Next]_vars PROVE GateInv'
    OBVIOUS
  <2> USE DEF Goto, tables, locals, TypeOK, GateInv, MemoStopsColdStarts, ColdPcs
  <2>1. ASSUME NEW c \in Callers, NEW k \in Keys, Call(c, k) PROVE GateInv'
    BY <2>1 DEF Call
  <2>2. ASSUME NEW c \in Callers, FastPath(c) PROVE GateInv'
    <3>1. CASE FastRead(c)
      BY <3>1 DEF FastRead, ReadInstance
    <3>2. CASE FastCheck(c)
      BY <3>2 DEF FastCheck, Branch
    <3>3. CASE FastRemove(c)
      BY <3>3 DEF FastRemove, RemoveInstance
    <3>4. CASE FastTouch(c)
      BY <3>4 DEF FastTouch
    <3> QED BY <2>2, <3>1, <3>2, <3>3, <3>4 DEF FastPath
  <2>3. ASSUME NEW c \in Callers, AcquireGate(c) PROVE GateInv'
    BY <2>3 DEF AcquireGate
  <2>4. ASSUME NEW c \in Callers, ColdStart(c) PROVE GateInv'
    <3>1. CASE SlowRead(c)
      BY <3>1 DEF SlowRead, ReadInstance
    <3>2. CASE SlowCheck(c)
      BY <3>2 DEF SlowCheck, Branch
    <3>3. CASE SlowRemove(c)
      BY <3>3 DEF SlowRemove, RemoveInstance
    <3>4. CASE SlowTouch(c)
      BY <3>4 DEF SlowTouch
    <3>5. CASE CheckMemo(c)
      BY <3>5 DEF CheckMemo
    <3>6. CASE FailFast(c)
      BY <3>6 DEF FailFast, Return
    <3>7. CASE Launch(c)
      BY <3>7 DEF Launch
    <3>8. CASE LaunchFails(c)
      BY <3>8 DEF LaunchFails, Return
    <3>9. CASE Spawn(c)
      BY <3>9 DEF Spawn
    <3>10. CASE SpawnFails(c)
      BY <3>10 DEF SpawnFails, Return
    <3>11. CASE Handshake(c)
      BY <3>11 DEF Handshake
    <3>12. CASE HandshakeFails(c)
      BY <3>12 DEF HandshakeFails, Return
    <3>13. CASE Insert(c)
      BY <3>13 DEF Insert
    <3> QED BY <2>4, <3>1, <3>2, <3>3, <3>4, <3>5, <3>6, <3>7, <3>8, <3>9, <3>10,
               <3>11, <3>12, <3>13 DEF ColdStart
  <2>5. ASSUME NEW c \in Callers, UseSession(c) PROVE GateInv'
    <3>1. CASE UseReturns(c)
      BY <3>1 DEF UseReturns, Return
    <3>2. CASE UseTerminated(c)
      BY <3>2 DEF UseTerminated, Return
    <3>3. CASE UseTimesOut(c)
      BY <3>3 DEF UseTimesOut, Return
    <3>4. CASE UseHangs(c)
      BY <3>4 DEF UseHangs
    <3> QED BY <2>5, <3>1, <3>2, <3>3, <3>4 DEF UseSession
  <2>6. ASSUME NEW a \in Actors, Evict(a) PROVE GateInv'
    <3>1. CASE EvTake(a)
      BY <2>6, <3>1 DEF EvTake
    <3>2. CASE EvUsed(a)
      BY <2>6, <3>2 DEF EvUsed
    <3>3. CASE EvExe(a)
      BY <2>6, <3>3 DEF EvExe
    <3>4. CASE EvMemo(a)
      BY <2>6, <3>4 DEF EvMemo
    <3>5. CASE EvStop(a)
      BY <2>6, <3>5 DEF EvStop
    <3> QED BY <2>6, <3>1, <3>2, <3>3, <3>4, <3>5 DEF Evict
  <2>7. ASSUME NEW r \in Reapers, ReapNext(r) \/ ScanFailed(r) \/ ScanIdle(r) PROVE GateInv'
    BY <2>7 DEF ReapNext, ScanFailed, ScanIdle
  <2>8. ASSUME NEW s \in Sids, Crash(s) PROVE GateInv'
    BY <2>8 DEF Crash
  <2>9. ASSUME NEW k \in Keys, ToggleInstalled(k) \/ ExpireMemo(k) PROVE GateInv'
    BY <2>9 DEF ToggleInstalled, ExpireMemo
  <2>10. CASE UNCHANGED vars
    BY <2>10 DEF vars
  <2>11. ASSUME NEW c \in Callers, Cancel(c) PROVE GateInv'
    BY <2>11 DEF Cancel, Return
  <2> QED BY <2>1, <2>2, <2>3, <2>4, <2>5, <2>6, <2>7, <2>8, <2>9, <2>10, <2>11
          DEF Next, CallerStep, ReaperStep
<1>3. QED BY <1>1, <1>2, TypeCorrect, PTL DEF Spec

\* At most one cold start of a key is under way (session_for's load gate).
THEOREM ColdStartsExclude == Spec => []OneColdStart
<1>1. GateInv => OneColdStart
  BY DEF GateInv, OneColdStart
<1> QED BY <1>1, GateInvariant, PTL

\* No server is started while a failure of its key is remembered.
THEOREM MemoHonoured == Spec => []MemoStopsColdStarts
<1>1. GateInv => MemoStopsColdStarts
  BY DEF GateInv
<1> QED BY <1>1, GateInvariant, PTL

\* Under the gate a caller only takes out the session it found invalid (the fast path,
\* outside the gate, may take out another one).
SlowPathKeepsFresh ==
    [][\A c \in Callers : SlowRemove(c) => instances[key[c]] \in {cached[c], None}]_vars

\* The removal under the gate never loses a session published in between.
THEOREM SlowPathSafe == Spec => SlowPathKeepsFresh
<1>1. GateInv /\ [Next]_vars
        => [\A c \in Callers : SlowRemove(c) => instances[key[c]] \in {cached[c], None}]_vars
  BY DEF GateInv, SlowRemove, RemoveInstance, Goto
<1> QED BY <1>1, GateInvariant, PTL DEF Spec, SlowPathKeepsFresh

-----------------------------------------------------------------------------
(* Who may know a session.                                                 *)

\* A session being started is known to its starter alone, until Insert; one that
\* is being evicted is in the pool under no key.  So nobody can pool a session
\* that is not ready, nor stop one that is pooled.
Starting ==
    \A c \in Callers : pc[c] = "handshake" =>
        cached[c] \in Sids /\ sess[cached[c]] = [st |-> "starting", key |-> key[c]]

Started ==
    \A c \in Callers : pc[c] = "insert" =>
        /\ cached[c] \in Sids
        /\ sess[cached[c]].key = key[c] /\ sess[cached[c]].st \in {"ready", "failed"}

Private ==
    \A c \in Callers : pc[c] \in {"handshake", "insert"} =>
        /\ \A k \in Keys : instances[k] # cached[c]
        /\ \A a \in Actors : a # c => cached[a] # cached[c]

Evicting ==
    \A a \in Actors : pc[a] \in EvictPcs /\ cached[a] # None =>
        \A k \in Keys : instances[k] # cached[a]

OwnInv == PooledSessionsServe /\ Starting /\ Started /\ Private /\ Evicting

\* A step that starts no session, publishes none and begins no eviction: the pool
\* may lose entries, and locals may be dropped or read from the pool.
Quiet ==
    /\ \A k \in Keys : instances'[k] \in {instances[k], None}
    /\ \A a \in Actors : cached'[a] \in {cached[a], None} \/ \E k \in Keys : cached'[a] = instances[k]
    /\ \A c \in Callers : pc'[c] \in {"handshake", "insert"} =>
          pc'[c] = pc[c] /\ key'[c] = key[c] /\ cached'[c] = cached[c]
    /\ \A s \in Sids : Held(s, instances', cached') => sess'[s] = sess[s]
    /\ \A a \in Actors : pc'[a] \in EvictPcs /\ cached'[a] # None =>
          pc[a] \in EvictPcs /\ cached'[a] = cached[a]

LEMMA QuietPreserves == TypeOK /\ TypeOK' /\ OwnInv /\ Quiet => OwnInv'
<1> SUFFICES ASSUME TypeOK, TypeOK', OwnInv, Quiet PROVE OwnInv'
  OBVIOUS
<1> USE PoolAssumption DEF Actors
<1>1. PooledSessionsServe'
  BY DEF OwnInv, PooledSessionsServe, Quiet, Held, TypeOK
<1>2. Starting'
  BY DEF OwnInv, Starting, Quiet, Held
<1>3. Started'
  BY DEF OwnInv, Started, Quiet, Held
<1>4. Private'
  <2> SUFFICES ASSUME NEW c \in Callers, pc'[c] \in {"handshake", "insert"}
               PROVE  /\ \A k \in Keys : instances'[k] # cached'[c]
                      /\ \A a \in Actors : a # c => cached'[a] # cached'[c]
    BY DEF Private
  <2>1. pc[c] \in {"handshake", "insert"} /\ cached'[c] = cached[c] /\ cached[c] \in Sids
    BY DEF Quiet, OwnInv, Starting, Started
  <2> QED BY <2>1 DEF Quiet, OwnInv, Private
<1>5. Evicting'
  BY DEF OwnInv, Evicting, Quiet
<1> QED BY <1>1, <1>2, <1>3, <1>4, <1>5 DEF OwnInv

LEMMA OwnInvariant == Spec => []OwnInv
<1> USE PoolAssumption DEF Actors
<1>1. Init => OwnInv
  BY DEF Init, OwnInv, PooledSessionsServe, Starting, Started, Private, Evicting, EvictPcs
<1>2. TypeOK /\ TypeOK' /\ OwnInv /\ [Next]_vars => OwnInv'
  <2> SUFFICES ASSUME TypeOK, TypeOK', OwnInv, [Next]_vars PROVE OwnInv'
    OBVIOUS
  <2> USE DEF Goto, tables, locals
  <2>q. Quiet => OwnInv'
    BY QuietPreserves
  <2>1. ASSUME NEW c \in Callers, NEW k \in Keys, Call(c, k) PROVE Quiet
    BY <2>1 DEF Call, Quiet, TypeOK, EvictPcs
  <2>2. ASSUME NEW c \in Callers, FastPath(c) PROVE Quiet
    <3>1. CASE FastRead(c)
      BY <3>1, KeptType DEF FastRead, ReadInstance, Quiet, TypeOK, EvictPcs
    <3>2. CASE FastCheck(c)
      BY <3>2 DEF FastCheck, Branch, Quiet, TypeOK, EvictPcs
    <3>3. CASE FastRemove(c)
      BY <3>3, KeptType DEF FastRemove, RemoveInstance, Quiet, TypeOK, EvictPcs
    <3>4. CASE FastTouch(c)
      BY <3>4 DEF FastTouch, Quiet, TypeOK, EvictPcs
    <3> QED BY <2>2, <3>1, <3>2, <3>3, <3>4 DEF FastPath
  <2>3. ASSUME NEW c \in Callers, AcquireGate(c) PROVE Quiet
    BY <2>3 DEF AcquireGate, Quiet, TypeOK, EvictPcs
  <2>4. ASSUME NEW c \in Callers, ColdStart(c) PROVE OwnInv'
    <3>1. CASE SlowRead(c)
      <4>1. Quiet
        BY <3>1, KeptType DEF SlowRead, ReadInstance, Quiet, TypeOK, EvictPcs
      <4> QED BY <4>1, <2>q
    <3>2. CASE SlowCheck(c)
      <4>1. Quiet
        BY <3>2 DEF SlowCheck, Branch, Quiet, TypeOK, EvictPcs
      <4> QED BY <4>1, <2>q
    <3>3. CASE SlowRemove(c)
      <4>1. Quiet
        BY <3>3, KeptType DEF SlowRemove, RemoveInstance, Quiet, TypeOK, EvictPcs
      <4> QED BY <4>1, <2>q
    <3>4. CASE SlowTouch(c)
      <4>1. Quiet
        BY <3>4 DEF SlowTouch, Quiet, TypeOK, EvictPcs
      <4> QED BY <4>1, <2>q
    <3>5. CASE CheckMemo(c)
      <4>1. Quiet
        BY <3>5 DEF CheckMemo, Quiet, TypeOK, EvictPcs
      <4> QED BY <4>1, <2>q
    <3>6. CASE FailFast(c)
      <4>1. Quiet
        BY <3>6, KeptType DEF FailFast, Return, Quiet, TypeOK, EvictPcs
      <4> QED BY <4>1, <2>q
    <3>7. CASE Launch(c)
      <4>1. Quiet
        BY <3>7 DEF Launch, Quiet, TypeOK, EvictPcs
      <4> QED BY <4>1, <2>q
    <3>8. CASE LaunchFails(c)
      <4>1. Quiet
        BY <3>8, KeptType DEF LaunchFails, Return, Quiet, TypeOK, EvictPcs
      <4> QED BY <4>1, <2>q
    <3>9. CASE Spawn(c)
      <4>1. PICK s \in Sids :
              /\ ~Referenced(s)
              /\ cached' = [cached EXCEPT ![c] = s]
              /\ sess' = Kept(instances, cached', [sess EXCEPT ![s] = [st |-> "starting", key |-> key[c]]])
        BY <3>9 DEF Spawn
      <4>2. /\ pc[c] = "spawn" /\ pc' = [pc EXCEPT ![c] = "handshake"]
            /\ UNCHANGED <<instances, key>>
        BY <3>9 DEF Spawn
      <4>3. \A t \in Sids : t # s /\ Held(t, instances, cached') => sess'[t] = sess[t]
        BY <4>1 DEF Kept, TypeOK
      <4>4. sess'[s] = [st |-> "starting", key |-> key[c]]
        BY <4>1 DEF Kept, Held, TypeOK
      <4>5. /\ \A k \in Keys : instances[k] # s
            /\ \A a \in Actors : cached[a] # s
        BY <4>1 DEF Referenced, Held
      <4>6. cached'[c] = s /\ \A a \in Actors : a # c => cached'[a] = cached[a] /\ pc'[a] = pc[a]
        BY <4>1, <4>2 DEF TypeOK
      <4>7. \A d \in Callers : d # c /\ cached[d] \in Sids => sess'[cached[d]] = sess[cached[d]]
        BY <4>3, <4>5, <4>6 DEF Held
      <4>8. PooledSessionsServe'
        BY <4>2, <4>3, <4>5 DEF OwnInv, PooledSessionsServe, Held, TypeOK
      <4>9. Starting'
        BY <4>2, <4>4, <4>6, <4>7 DEF OwnInv, Starting
      <4>10. Started'
        BY <4>2, <4>6, <4>7 DEF OwnInv, Started, TypeOK
      <4>11. Private'
        BY <4>1, <4>2, <4>5, <4>6 DEF OwnInv, Private, TypeOK
      <4>12. Evicting'
        BY <4>2, <4>6 DEF OwnInv, Evicting, EvictPcs, TypeOK
      <4> QED BY <4>8, <4>9, <4>10, <4>11, <4>12 DEF OwnInv
    <3>10. CASE SpawnFails(c)
      <4>1. Quiet
        BY <3>10, KeptType DEF SpawnFails, Return, Quiet, TypeOK, EvictPcs
      <4> QED BY <4>1, <2>q
    <3>11. CASE Handshake(c)
      <4>1. /\ pc[c] = "handshake" /\ pc' = [pc EXCEPT ![c] = "insert"]
            /\ sess' = [sess EXCEPT ![cached[c]].st = "ready"]
            /\ UNCHANGED <<instances, key, cached>>
        BY <3>11 DEF Handshake
      <4>2. /\ cached[c] \in Sids
            /\ sess[cached[c]] = [st |-> "starting", key |-> key[c]]
            /\ \A k \in Keys : instances[k] # cached[c]
            /\ \A a \in Actors : a # c => cached[a] # cached[c]
        BY <4>1 DEF OwnInv, Starting, Private
      <4>3. sess'[cached[c]].st = "ready" /\ sess'[cached[c]].key = key[c]
        BY <4>1, <4>2 DEF TypeOK
      <4>4. \A t \in Sids : t # cached[c] => sess'[t] = sess[t]
        BY <4>1 DEF TypeOK
      <4>5. PooledSessionsServe'
        BY <4>1, <4>2, <4>4 DEF OwnInv, PooledSessionsServe, TypeOK
      <4>6. \A a \in Actors : a # c => pc'[a] = pc[a]
        BY <4>1 DEF TypeOK
      <4>7. Starting'
        BY <4>1, <4>2, <4>4, <4>6 DEF OwnInv, Starting, TypeOK
      <4>8. Started'
        BY <4>1, <4>2, <4>3, <4>4, <4>6 DEF OwnInv, Started, TypeOK
      <4>9. Private'
        BY <4>1, <4>2, <4>6 DEF OwnInv, Private
      <4>10. Evicting'
        BY <4>1, <4>6 DEF OwnInv, Evicting, EvictPcs, TypeOK
      <4> QED BY <4>5, <4>7, <4>8, <4>9, <4>10 DEF OwnInv
    <3>12. CASE HandshakeFails(c)
      <4>1. Quiet
        BY <3>12, KeptType DEF HandshakeFails, Return, Quiet, TypeOK, EvictPcs
      <4> QED BY <4>1, <2>q
    <3>13. CASE Insert(c)
      <4>1. /\ pc[c] = "insert" /\ pc' = [pc EXCEPT ![c] = "slowTouch"]
            /\ instances' = [instances EXCEPT ![key[c]] = cached[c]]
            /\ UNCHANGED <<key, cached>>
            /\ sess' = Kept(instances', cached, sess)
        BY <3>13 DEF Insert
      <4>2. /\ cached[c] \in Sids /\ key[c] \in Keys
            /\ sess[cached[c]].key = key[c] /\ sess[cached[c]].st \in {"ready", "failed"}
            /\ \A a \in Actors : a # c => cached[a] # cached[c]
        BY <4>1 DEF OwnInv, Started, Private, TypeOK
      <4>3. \A t \in Sids : Held(t, instances', cached) => sess'[t] = sess[t]
        BY <4>1, KeptType DEF TypeOK
      <4>4. /\ instances'[key[c]] = cached[c]
            /\ \A k \in Keys : k # key[c] => instances'[k] = instances[k]
            /\ pc'[c] = "slowTouch" /\ \A a \in Actors : a # c => pc'[a] = pc[a]
        BY <4>1, <4>2 DEF TypeOK
      <4>5. \A a \in Actors : cached[a] \in Sids => sess'[cached[a]] = sess[cached[a]]
        BY <4>3 DEF Held
      <4>6. PooledSessionsServe'
        <5> SUFFICES ASSUME NEW k \in Keys, instances'[k] # None
                     PROVE  sess'[instances'[k]].key = k /\ sess'[instances'[k]].st \in {"ready", "failed"}
          BY DEF PooledSessionsServe
        <5>1. CASE k = key[c]
          BY <4>2, <4>4, <4>5, <5>1
        <5>2. CASE k # key[c]
          BY <4>3, <4>4, <5>2 DEF OwnInv, PooledSessionsServe, Held, TypeOK
        <5> QED BY <5>1, <5>2
      <4>7. Starting'
        BY <4>1, <4>4, <4>5 DEF OwnInv, Starting
      <4>8. Started'
        <5> SUFFICES ASSUME NEW d \in Callers, pc'[d] = "insert"
                     PROVE  /\ cached'[d] \in Sids
                            /\ sess'[cached'[d]].key = key'[d]
                            /\ sess'[cached'[d]].st \in {"ready", "failed"}
          BY DEF Started
        <5>1. pc[d] = "insert"
          BY <4>4
        <5>2. cached[d] \in Sids /\ sess[cached[d]].key = key[d] /\ sess[cached[d]].st \in {"ready", "failed"}
          BY <5>1 DEF OwnInv, Started
        <5>3. sess'[cached[d]] = sess[cached[d]] /\ cached'[d] = cached[d] /\ key'[d] = key[d]
          BY <4>1, <4>5, <5>2
        <5> QED BY <5>2, <5>3
      <4>9. Private'
        BY <4>1, <4>2, <4>4 DEF OwnInv, Private
      <4>10. Evicting'
        BY <4>1, <4>2, <4>4 DEF OwnInv, Evicting, EvictPcs
      <4> QED BY <4>6, <4>7, <4>8, <4>9, <4>10 DEF OwnInv
    <3> QED BY <2>4, <3>1, <3>2, <3>3, <3>4, <3>5, <3>6, <3>7, <3>8, <3>9, <3>10,
               <3>11, <3>12, <3>13 DEF ColdStart
  <2>5. ASSUME NEW c \in Callers, UseSession(c) PROVE Quiet
    <3>1. CASE UseReturns(c)
      BY <3>1, KeptType DEF UseReturns, Return, Quiet, TypeOK, EvictPcs
    <3>2. CASE UseTerminated(c)
      BY <3>2, KeptType DEF UseTerminated, Return, Quiet, TypeOK, EvictPcs
    <3>3. CASE UseTimesOut(c)
      BY <3>3, KeptType DEF UseTimesOut, Return, Quiet, TypeOK, EvictPcs
    <3>4. CASE UseHangs(c)
      BY <3>4 DEF UseHangs, Quiet, TypeOK, EvictPcs
    <3> QED BY <2>5, <3>1, <3>2, <3>3, <3>4 DEF UseSession
  <2>6. ASSUME NEW a \in Actors, Evict(a) PROVE OwnInv'
    <3>1. CASE EvTake(a)
      <4>1. /\ pc[a] = "evict" /\ pc' = [pc EXCEPT ![a] = "evUsed"]
            /\ cached' = [cached EXCEPT ![a] = instances[key[a]]]
            /\ instances' = [instances EXCEPT ![key[a]] = None]
            /\ UNCHANGED key /\ key[a] \in Keys
            /\ sess' = Kept(instances', cached', sess)
        BY <3>1 DEF EvTake, TypeOK
      <4>2. \A t \in Sids : Held(t, instances', cached') => sess'[t] = sess[t]
        BY <4>1, KeptType DEF TypeOK
      <4>3. /\ instances'[key[a]] = None
            /\ \A k \in Keys : k # key[a] => instances'[k] = instances[k]
            /\ cached'[a] = instances[key[a]] /\ pc'[a] = "evUsed"
            /\ \A b \in Actors : b # a => pc'[b] = pc[b] /\ cached'[b] = cached[b]
        BY <2>6, <4>1 DEF TypeOK
      <4>4. PooledSessionsServe'
        <5> SUFFICES ASSUME NEW k \in Keys, instances'[k] # None
                     PROVE  sess'[instances'[k]].key = k /\ sess'[instances'[k]].st \in {"ready", "failed"}
          BY DEF PooledSessionsServe
        <5>1. k # key[a] /\ instances'[k] = instances[k] /\ instances[k] \in Sids
          BY <4>3 DEF TypeOK
        <5>2. sess'[instances[k]] = sess[instances[k]]
          BY <4>2, <5>1 DEF Held
        <5> QED BY <5>1, <5>2 DEF OwnInv, PooledSessionsServe
      <4>5. \A d \in Callers : pc'[d] \in {"handshake", "insert"} =>
              d # a /\ pc'[d] = pc[d] /\ cached'[d] = cached[d]
        BY <4>3
      <4>6. \A d \in Callers : pc'[d] \in {"handshake", "insert"} /\ cached[d] \in Sids =>
              sess'[cached[d]] = sess[cached[d]]
        BY <4>2, <4>5 DEF Held
      <4>7. Starting'
        BY <4>1, <4>5, <4>6 DEF OwnInv, Starting
      <4>8. Started'
        <5> SUFFICES ASSUME NEW d \in Callers, pc'[d] = "insert"
                     PROVE  /\ cached'[d] \in Sids
                            /\ sess'[cached'[d]].key = key'[d]
                            /\ sess'[cached'[d]].st \in {"ready", "failed"}
          BY DEF Started
        <5>1. pc[d] = "insert"
          BY <4>5
        <5>2. cached[d] \in Sids /\ sess[cached[d]].key = key[d] /\ sess[cached[d]].st \in {"ready", "failed"}
          BY <5>1 DEF OwnInv, Started
        <5>3. sess'[cached[d]] = sess[cached[d]] /\ cached'[d] = cached[d] /\ key'[d] = key[d]
          BY <4>1, <4>5, <4>6, <5>2
        <5> QED BY <5>2, <5>3
      <4>9. Private'
        <5> SUFFICES ASSUME NEW d \in Callers, pc'[d] \in {"handshake", "insert"}
                     PROVE  /\ \A k \in Keys : instances'[k] # cached'[d]
                            /\ \A b \in Actors : b # d => cached'[b] # cached'[d]
          BY DEF Private
        <5>1. cached[d] \in Sids /\ cached'[d] = cached[d] /\ pc[d] \in {"handshake", "insert"}
          BY <4>5 DEF OwnInv, Starting, Started
        <5> QED BY <4>1, <4>3, <5>1 DEF OwnInv, Private
      <4>10. Evicting'
        <5>1. \A k \in Keys : instances[key[a]] # None => instances'[k] # instances[key[a]]
          BY <4>1, <4>3 DEF OwnInv, PooledSessionsServe
        <5> QED BY <4>3, <5>1 DEF OwnInv, Evicting
      <4> QED BY <4>4, <4>7, <4>8, <4>9, <4>10 DEF OwnInv
    <3>2. CASE EvUsed(a)
      <4>1. Quiet
        BY <2>6, <3>2 DEF EvUsed, Quiet, TypeOK, EvictPcs
      <4> QED BY <4>1, <2>q
    <3>3. CASE EvExe(a)
      <4>1. Quiet
        BY <2>6, <3>3 DEF EvExe, Quiet, TypeOK, EvictPcs
      <4> QED BY <4>1, <2>q
    <3>4. CASE EvMemo(a)
      <4>1. Quiet
        BY <2>6, <3>4 DEF EvMemo, Quiet, TypeOK, EvictPcs
      <4> QED BY <4>1, <2>q
    <3>5. CASE EvStop(a)
      <4>1. /\ pc[a] = "evStop" /\ pc' = [pc EXCEPT ![a] = IF a \in Reapers THEN "idle" ELSE "fastRead"]
            /\ cached' = [cached EXCEPT ![a] = None]
            /\ key' = IF a \in Reapers THEN [key EXCEPT ![a] = None] ELSE key
            /\ UNCHANGED instances
        BY <3>5 DEF EvStop
      <4>2. CASE cached[a] = None
        <5>1. sess' = sess
          BY <3>5, <4>2 DEF EvStop
        <5>2. Quiet
          BY <2>6, <4>1, <5>1 DEF Quiet, TypeOK, EvictPcs
        <5> QED BY <5>2, <2>q
      <4>3. CASE cached[a] # None
        <5>1. [sess EXCEPT ![cached[a]].st = "stopped"] \in [Sids -> Session]
          BY StateType DEF TypeOK
        <5>2. sess' = Kept(instances, cached', [sess EXCEPT ![cached[a]].st = "stopped"])
          BY <3>5, <4>3 DEF EvStop
        <5>3. \A t \in Sids : t # cached[a] /\ Held(t, instances, cached') => sess'[t] = sess[t]
          BY <5>1, <5>2, KeptType DEF TypeOK
        <5>4. \A k \in Keys : instances[k] # cached[a]
          BY <2>6, <4>1, <4>3 DEF OwnInv, Evicting, EvictPcs
        <5>5. /\ cached'[a] = None /\ pc'[a] \in {"idle", "fastRead"}
              /\ \A b \in Actors : b # a => pc'[b] = pc[b] /\ cached'[b] = cached[b] /\ key'[b] = key[b]
          BY <2>6, <4>1 DEF TypeOK
        <5>6. PooledSessionsServe'
          BY <4>1, <5>3, <5>4 DEF OwnInv, PooledSessionsServe, Held, TypeOK
        <5>7. ASSUME NEW d \in Callers, pc'[d] \in {"handshake", "insert"}
              PROVE  /\ d # a /\ cached'[d] = cached[d] /\ key'[d] = key[d] /\ pc'[d] = pc[d]
                     /\ cached[d] \in Sids /\ sess'[cached[d]] = sess[cached[d]]
          <6>1. d # a /\ cached'[d] = cached[d] /\ key'[d] = key[d] /\ pc'[d] = pc[d]
            BY <5>5, <5>7
          <6>2. cached[d] \in Sids /\ cached[a] # cached[d]
            BY <2>6, <5>7, <6>1 DEF OwnInv, Starting, Started, Private
          <6> QED BY <5>3, <6>1, <6>2 DEF Held
        <5>8. Starting'
          BY <5>7 DEF OwnInv, Starting
        <5>9. Started'
          BY <5>7 DEF OwnInv, Started
        <5>10. Private'
          BY <2>6, <4>1, <5>5, <5>7 DEF OwnInv, Private
        <5>11. Evicting'
          BY <4>1, <5>5 DEF OwnInv, Evicting, EvictPcs
        <5> QED BY <5>6, <5>8, <5>9, <5>10, <5>11 DEF OwnInv
      <4> QED BY <4>2, <4>3
    <3> QED BY <2>6, <3>1, <3>2, <3>3, <3>4, <3>5 DEF Evict
  <2>7. ASSUME NEW r \in Reapers, ReapNext(r) \/ ScanFailed(r) \/ ScanIdle(r) PROVE Quiet
    BY <2>7 DEF ReapNext, ScanFailed, ScanIdle, Quiet, TypeOK, EvictPcs
  <2>8. ASSUME NEW s \in Sids, Crash(s) PROVE OwnInv'
    <3>1. /\ sess[s].st = "ready"
          /\ sess' = [sess EXCEPT ![s].st = "failed"]
          /\ UNCHANGED <<instances, pc, key, cached>>
      BY <2>8 DEF Crash
    <3>2. sess'[s].st = "failed" /\ sess'[s].key = sess[s].key
      BY <3>1 DEF TypeOK, Session
    <3>3. \A t \in Sids : t # s => sess'[t] = sess[t]
      BY <3>1 DEF TypeOK
    <3>4. PooledSessionsServe'
      BY <3>1, <3>2, <3>3 DEF OwnInv, PooledSessionsServe, TypeOK
    <3> QED BY <3>1, <3>2, <3>3, <3>4 DEF OwnInv, Starting, Started, Private, Evicting
  <2>9. ASSUME NEW k \in Keys, ToggleInstalled(k) \/ ExpireMemo(k) PROVE Quiet
    BY <2>9 DEF ToggleInstalled, ExpireMemo, Quiet, TypeOK, EvictPcs
  <2>10. CASE UNCHANGED vars
    <3>1. Quiet
      BY <2>10 DEF vars, Quiet, TypeOK, EvictPcs
    <3> QED BY <3>1, <2>q
  <2>11. ASSUME NEW c \in Callers, Cancel(c) PROVE Quiet
    BY <2>11, KeptType DEF Cancel, Return, Quiet, TypeOK, EvictPcs
  <2> QED BY <2>q, <2>1, <2>2, <2>3, <2>4, <2>5, <2>6, <2>7, <2>8, <2>9, <2>10, <2>11
          DEF Next, CallerStep, ReaperStep
<1>3. QED BY <1>1, <1>2, TypeCorrect, PTL DEF Spec

\* What a lookup finds was started for its key, is past its handshake and was not
\* shut down by an eviction.
THEOREM PoolServes == Spec => []PooledSessionsServe
<1>1. OwnInv => PooledSessionsServe
  BY DEF OwnInv
<1> QED BY <1>1, OwnInvariant, PTL

=============================================================================
