--------------------------- MODULE LspSessionProofs ---------------------------
(***************************************************************************)
(* Proofs about LspSession, for any callers and any number of retries:     *)
(* answers reach the requests they belong to, the pending table holds only *)
(* what is waited for, and who times out has not been answered.  Then,     *)
(* about Framing: whatever the chunks in which a stream of messages comes, *)
(* the pump dispatches these messages.                                     *)
(***************************************************************************)
EXTENDS MCLspSession, SequenceLemmas, FiniteSetTheorems, TLAPS

Pcs == {"idle"} \cup RequestPcs \cup Outcomes \cup StartPcs \cup StopPcs

\* How many requests a process has made, at most: as many as it was told ContentModified, and
\* the one it waits for; one that is through with them makes no more.
Asked(p) ==
    IF pc[p] \in {"idle", "new", "insert", "retry"} THEN attempt[p]
    ELSE IF pc[p] \in {"send", "wait"} THEN attempt[p] + 1
    ELSE MaxRetries

Turns == Procs \X (1..MaxRetries)
Used == {u \in Turns : u[2] <= Asked(u[1])}

\* No id is used twice and Ids has enough of them: there is one for each turn of a process.
BoundInv ==
    /\ nextId \in Nat \ {0} /\ nextId - 1 <= Cardinality(Used)
    /\ \A p \in Procs : pc[p] \in {"idle", "new", "insert", "retry", "send", "wait"} =>
            attempt[p] < MaxRetries

TypeInv == TypeOK /\ IsFiniteSet(outbound)

\* Ids that are in use have been given out.
OwnInv ==
    /\ \A p \in Procs : id[p] # None => id[p] < nextId
    /\ \A m \in outbound \cup wire \cup inbox : m.id < nextId

\* An entry is in the table, or its oneshot was completed, or it was given up.
TableInv ==
    \A i \in Ids :
        /\ i \in pending => i < nextId /\ mail[i] = "none"
        /\ i >= nextId => mail[i] = "none"

WaitInv ==
    \A p \in Procs : pc[p] \in {"send", "wait"} =>
        /\ id[p] \in Ids
        /\ mail[id[p]] = "none" => id[p] \in pending

IInv ==
    /\ TypeInv /\ BoundInv /\ OwnInv /\ TableInv /\ WaitInv
    /\ AnswersMatch /\ PendingIsWaited

-----------------------------------------------------------------------------
\* What the theorems of the library say of an element more or less.
LEMMA OneMore ==
  ASSUME NEW S, NEW x, IsFiniteSet(S)
  PROVE  /\ IsFiniteSet(S \cup {x}) /\ Cardinality(S) \in Nat
         /\ Cardinality(S \cup {x}) <= Cardinality(S) + 1
<1>1. Cardinality(S) \in Nat
  BY FS_CardinalityType
<1> QED BY <1>1, FS_AddElement

LEMMA OneLess ==
  ASSUME NEW S, NEW x, IsFiniteSet(S)
  PROVE  /\ IsFiniteSet(S \ {x}) /\ Cardinality(S) \in Nat
         /\ Cardinality(S \ {x}) <= Cardinality(S)
<1>1. Cardinality(S) \in Nat
  BY FS_CardinalityType
<1> QED BY <1>1, FS_RemoveElement

-----------------------------------------------------------------------------
(* There is an id for every request.                                       *)

LEMMA TurnsFinite ==
  /\ IsFiniteSet(Procs) /\ Cardinality(Procs) \in Nat
  /\ IsFiniteSet(Turns) /\ Cardinality(Turns) = Cardinality(Procs) * MaxRetries
<1>1. IsFiniteSet(Procs)
  <2>1. IsFiniteSet(Callers \cup {Starter})
    BY SessionAssumption, FS_AddElement
  <2>2. IsFiniteSet((Callers \cup {Starter}) \cup {Stopper})
    BY <2>1, FS_AddElement
  <2>3. Procs = (Callers \cup {Starter}) \cup {Stopper}
    BY DEF Procs
  <2> QED BY <2>2, <2>3
<1>2. IsFiniteSet(1..MaxRetries) /\ Cardinality(1..MaxRetries) = MaxRetries
  BY SessionAssumption, FS_Interval
<1> QED BY <1>1, <1>2, FS_Product, FS_CardinalityType DEF Turns

LEMMA IdLeft ==
  ASSUME TypeInv, BoundInv, NEW p \in Procs, pc[p] = "insert"
  PROVE  nextId \in Ids
<1> DEFINE u == <<p, attempt[p] + 1>>
<1>1. attempt[p] \in Nat /\ attempt[p] < MaxRetries /\ MaxRetries \in Nat
  BY SessionAssumption DEF TypeInv, TypeOK, BoundInv
<1>2. u \in Turns /\ u \notin Used
  BY <1>1 DEF Turns, Used, Asked
<1>3. IsFiniteSet(Used)
  BY TurnsFinite, FS_Subset DEF Used
<1>4. Cardinality(Used \cup {u}) = Cardinality(Used) + 1 /\ Cardinality(Used) \in Nat
  BY <1>2, <1>3, FS_AddElement, FS_CardinalityType
<1>5. Cardinality(Used \cup {u}) <= Cardinality(Turns)
  <2>1. Used \cup {u} \in SUBSET Turns
    BY <1>2 DEF Used
  <2> QED BY <2>1, TurnsFinite, FS_Subset
<1>6. nextId <= Cardinality(Turns) /\ nextId \in Nat \ {0} /\ Cardinality(Turns) \in Nat
  BY <1>4, <1>5, TurnsFinite, FS_CardinalityType DEF BoundInv
<1>7. Cardinality(Turns) = MaxRetries * Cardinality(Procs)
  BY <1>1, TurnsFinite
<1> HIDE DEF u
<1> QED BY <1>6, <1>7 DEF Ids

-----------------------------------------------------------------------------
(* The steps.                                                              *)

LEMMA InitIInv == Init => IInv
<1> SUFFICES ASSUME Init PROVE IInv
  OBVIOUS
<1> USE SessionAssumption DEF Init
<1>0. pc \in [Procs -> {"idle", "new"}] /\ MaxRetries > 0
  OBVIOUS
<1>1. TypeInv
  <2>1. IsFiniteSet(outbound) /\ Cardinality(outbound) <= OutboundCap
    BY FS_EmptySet
  <2>2. id \in [Procs -> Ids \cup {None}] /\ attempt \in [Procs -> 0..MaxRetries]
    OBVIOUS
  <2>3. mail \in [Ids -> Kinds \cup {"none", "terminated"}]
    OBVIOUS
  <2>4. pc \in [Procs -> {"idle"} \cup RequestPcs \cup Outcomes \cup StartPcs \cup StopPcs]
    BY <1>0 DEF StartPcs
  <2>5. /\ state \in {"initializing", "ready", "failed"} /\ nextId \in Nat
        /\ slot \in BOOLEAN /\ serverUp \in BOOLEAN /\ writer \in BOOLEAN
        /\ pump \in {"reading", "abort", "notify", "mark", "ended"}
    OBVIOUS
  <2> QED BY <2>1, <2>2, <2>3, <2>4, <2>5 DEF TypeInv, TypeOK
<1>2. BoundInv
  <2>1. IsFiniteSet(Used)
    BY TurnsFinite, FS_Subset DEF Used
  <2>2. Cardinality(Used) >= 0
    BY <2>1, FS_CardinalityType
  <2> QED BY <2>2, <1>0 DEF BoundInv
<1>3. OwnInv /\ TableInv
  BY DEF OwnInv, TableInv, Ids
<1>4. WaitInv /\ AnswersMatch /\ PendingIsWaited
  BY <1>0 DEF WaitInv, AnswersMatch, PendingIsWaited
<1> QED BY <1>1, <1>2, <1>3, <1>4 DEF IInv

LEMMA TypeStep == IInv /\ [Next]_vars => TypeInv'
<1> SUFFICES ASSUME IInv, [Next]_vars PROVE TypeInv'
  OBVIOUS
<1>0. TypeInv
  BY DEF IInv
<1> USE SessionAssumption, <1>0
    DEF TypeInv, TypeOK, RequestPcs, Outcomes, StartPcs, StopPcs, Kinds, Goto, session, ids
<1>1. ASSUME NEW p \in Procs, RequestStep(p) PROVE TypeInv'
  <2>1. CASE Insert(p)
    BY <2>1, IdLeft DEF Insert, IInv
  <2>2. CASE Send(p)
    <3>1. [id |-> id[p], by |-> p] \in Request
      BY <2>2 DEF Send, IInv, WaitInv, Request
    <3>2. IsFiniteSet(outbound') /\ Cardinality(outbound') <= OutboundCap
      <4> DEFINE m == [id |-> id[p], by |-> p]
      <4>1. outbound' = outbound \cup {m} /\ Cardinality(outbound) < OutboundCap
        BY <2>2 DEF Send
      <4>2. /\ IsFiniteSet(outbound') /\ Cardinality(outbound) \in Nat
            /\ Cardinality(outbound') <= Cardinality(outbound) + 1
        BY <4>1, OneMore
      <4>3. OutboundCap \in Nat /\ Cardinality(outbound') \in Nat
        BY <4>2, FS_CardinalityType
      <4> HIDE <1>0
      <4> QED BY <4>1, <4>2, <4>3
    <3> QED BY <2>2, <3>1, <3>2 DEF Send
  <2>3. CASE SendClosed(p) \/ SendTimesOut(p) \/ WaitTimesOut(p) \/ OuterTimesOut(p) \/ Retry(p)
    BY <2>3 DEF SendClosed, SendTimesOut, WaitTimesOut, OuterTimesOut, Retry
  <2>4. CASE Receive(p)
    <3>1. mail[id[p]] \in {"ok", "modified", "terminated"}
      BY <2>4 DEF Receive, IInv, WaitInv
    <3>2. attempt' \in [Procs -> 0..MaxRetries]
      BY <2>4 DEF Receive, IInv, BoundInv
    <3>3. pc' \in [Procs -> {"idle"} \cup RequestPcs \cup Outcomes \cup StartPcs \cup StopPcs]
      BY <2>4, <3>1 DEF Receive
    <3> QED BY <2>4, <3>2, <3>3 DEF Receive
  <2> QED BY <1>1, <2>1, <2>2, <2>3, <2>4 DEF RequestStep
<1>2. ASSUME NEW c \in Callers, Call(c) \/ Cancel(c) PROVE TypeInv'
  <2>1. c \in Procs
    BY DEF Procs
  <2>2. CASE Call(c)
    BY <2>1, <2>2 DEF Call
  <2>3. CASE Cancel(c)
    BY <2>1, <2>3 DEF Cancel
  <2> QED BY <1>2, <2>2, <2>3
<1>3. ASSUME NEW m \in outbound, Write(m) PROVE TypeInv'
  <2>1. IsFiniteSet(outbound') /\ Cardinality(outbound') <= OutboundCap
    <3>1. outbound' = outbound \ {m}
      BY <1>3 DEF Write
    <3>2. /\ IsFiniteSet(outbound') /\ Cardinality(outbound) \in Nat
          /\ Cardinality(outbound') <= Cardinality(outbound)
      BY <3>1, OneLess
    <3>3. Cardinality(outbound) <= OutboundCap /\ OutboundCap \in Nat
      OBVIOUS
    <3> HIDE <1>0
    <3> QED BY <3>2, <3>3, FS_CardinalityType
  <2> QED BY <1>3, <2>1 DEF Write
<1>4. CASE WriteFails
  <2>1. IsFiniteSet(outbound') /\ Cardinality(outbound') <= OutboundCap
    BY <1>4, FS_EmptySet DEF WriteFails
  <2> QED BY <1>4, <2>1 DEF WriteFails
<1>5. ASSUME NEW m \in wire, NEW k \in Kinds, Answers(m, k) PROVE TypeInv'
  <2>1. [id |-> m.id, by |-> m.by, kind |-> k] \in Answer
    BY <1>5 DEF Request, Answer
  <2> QED BY <1>5, <2>1 DEF Answers
<1>6. CASE Die \/ PumpEnds
  BY <1>6 DEF Die, ServerEnds, PumpEnds
<1>7. CASE Pump
  <2>1. ASSUME NEW m \in inbox, Dispatch(m) PROVE TypeInv'
    BY <2>1 DEF Dispatch, Answer
  <2>2. CASE AbortAll \/ NotifyEof \/ MarkFailed
    BY <2>2 DEF AbortAll, NotifyEof, MarkFailed
  <2> QED BY <1>7, <2>1, <2>2 DEF Pump
<1>8. CASE Start
  BY <1>8 DEF Start, BindSlot, SendInitialized, InitializedFails, BecomeReady, StartFails, ServerEnds
<1>9. CASE ShutdownBegins \/ Stop
  BY <1>9 DEF ShutdownBegins, Stop, Kill, AwaitEof, EofTimesOut, Stopped, ServerEnds
<1>10. CASE UNCHANGED vars
  BY <1>10 DEF vars
<1> QED BY <1>1, <1>2, <1>3, <1>4, <1>5, <1>6, <1>7, <1>8, <1>9, <1>10 DEF Next

\* BoundInv: a move that is no request, and leaves no more of them to make.
LEMMA Moved ==
  ASSUME TypeInv, TypeInv', BoundInv, nextId' = nextId,
         NEW p \in Procs, \A q \in Procs \ {p} : pc'[q] = pc[q] /\ attempt'[q] = attempt[q],
         \/ pc'[p] \notin {"idle", "new", "insert", "retry", "send", "wait"}
         \/ /\ attempt'[p] = attempt[p]
            /\ \/ pc'[p] = pc[p]
               \/ pc[p] \in {"idle", "new", "retry"} /\ pc'[p] = "insert"
               \/ pc[p] = "send" /\ pc'[p] = "wait"
         \/ /\ attempt'[p] = attempt[p] + 1 /\ attempt'[p] < MaxRetries
            /\ pc[p] = "wait" /\ pc'[p] = "retry"
  PROVE  BoundInv'
<1> USE SessionAssumption
<1>1. \A q \in Procs : attempt[q] \in 0..MaxRetries /\ attempt'[q] \in 0..MaxRetries
  BY DEF TypeInv, TypeOK
<1>2. \A q \in Procs : pc'[q] \in {"idle", "new", "insert", "retry", "send", "wait"} =>
            attempt'[q] < MaxRetries
  BY <1>1 DEF BoundInv
<1>3. \A q \in Procs : Asked(q) \in Nat /\ Asked(q)' \in Nat /\ Asked(q) <= Asked(q)'
  BY <1>1 DEF Asked, BoundInv
<1>4. Used \in SUBSET Used'
  BY <1>3 DEF Used, Turns
<1>5. IsFiniteSet(Used')
  BY TurnsFinite, FS_Subset DEF Used
<1>6. Cardinality(Used) <= Cardinality(Used') /\ Cardinality(Used) \in Nat /\ Cardinality(Used') \in Nat
  BY <1>4, <1>5, FS_Subset, FS_CardinalityType
<1> QED BY <1>2, <1>6 DEF BoundInv

LEMMA Asks ==
  ASSUME TypeInv, BoundInv, NEW p \in Procs, Insert(p)
  PROVE  BoundInv'
<1> DEFINE u == <<p, attempt[p] + 1>>
<1> USE SessionAssumption
<1>1. attempt' = attempt /\ attempt \in [Procs -> 0..MaxRetries] /\ nextId' = nextId + 1
  BY DEF Insert, ids, TypeInv, TypeOK
<1>2. pc[p] = "insert" /\ pc'[p] = "send" /\ \A q \in Procs \ {p} : pc'[q] = pc[q]
  BY DEF Insert, Goto, TypeInv, TypeOK
<1>3. attempt[p] < MaxRetries
  BY <1>2 DEF BoundInv
<1>4. u \in Turns /\ u \notin Used /\ Used \cup {u} \in SUBSET Used'
  BY <1>1, <1>2, <1>3 DEF Used, Turns, Asked
<1>5. IsFiniteSet(Used) /\ IsFiniteSet(Used')
  BY TurnsFinite, FS_Subset DEF Used
<1> HIDE DEF u
<1>6. Cardinality(Used \cup {u}) = Cardinality(Used) + 1 /\ Cardinality(Used) \in Nat
  BY <1>4, <1>5, FS_AddElement, FS_CardinalityType
<1>7. Cardinality(Used \cup {u}) <= Cardinality(Used') /\ Cardinality(Used') \in Nat
  BY <1>4, <1>5, FS_Subset, FS_CardinalityType
<1> QED BY <1>1, <1>2, <1>3, <1>6, <1>7 DEF BoundInv

LEMMA BoundStep == IInv /\ TypeInv' /\ [Next]_vars => BoundInv'
<1> SUFFICES ASSUME IInv, TypeInv', [Next]_vars PROVE BoundInv'
  OBVIOUS
<1>0. TypeInv /\ BoundInv /\ pc \in [Procs -> {"idle"} \cup RequestPcs \cup Outcomes \cup StartPcs \cup StopPcs]
  BY DEF IInv, TypeInv, TypeOK
<1>a. Starter \in Procs /\ Stopper \in Procs
  BY DEF Procs
<1>b. CASE pc' = pc /\ attempt' = attempt /\ nextId' = nextId
  BY <1>0, <1>a, <1>b, Moved
<1> USE <1>0, <1>a, Moved DEF Goto, ids, session
<1>1. ASSUME NEW p \in Procs, RequestStep(p) PROVE BoundInv'
  <2>1. CASE Insert(p)
    BY <2>1, Asks
  <2>2. CASE Receive(p)
    <3>1. mail[id[p]] \in {"ok", "modified", "terminated"} /\ attempt[p] \in Nat
      BY <2>2, SessionAssumption DEF Receive, IInv, WaitInv, TypeInv, TypeOK, Kinds
    <3>2. attempt \in [Procs -> 0..MaxRetries]
      BY DEF TypeInv, TypeOK
    <3>3. \A q \in Procs \ {p} : pc'[q] = pc[q] /\ attempt'[q] = attempt[q]
      BY <2>2, <3>2 DEF Receive
    <3>4. \/ pc'[p] \in {"rpc", "ok", "terminated"}
          \/ /\ pc'[p] = "retry" /\ pc[p] = "wait"
             /\ attempt'[p] = attempt[p] + 1 /\ attempt'[p] < MaxRetries
      <4> DEFINE again == mail[id[p]] = "modified" /\ p \in Callers
      <4>1. CASE ~again
        BY <2>2, <3>1, <4>1 DEF Receive
      <4>2. CASE again /\ attempt[p] + 1 >= MaxRetries
        BY <2>2, <3>1, <4>2 DEF Receive
      <4>3. CASE again /\ ~(attempt[p] + 1 >= MaxRetries)
        <5>1. attempt' = [attempt EXCEPT ![p] = attempt[p] + 1] /\ pc' = [pc EXCEPT ![p] = "retry"]
              /\ pc[p] = "wait"
          BY <2>2, <4>3 DEF Receive
        <5> QED BY <5>1, <3>1, <3>2, <4>3, SessionAssumption
      <4> QED BY <4>1, <4>2, <4>3
    <3>5. nextId' = nextId
      BY <2>2 DEF Receive
    <3>6. pc'[p] \in {"rpc", "ok", "terminated"} =>
                pc'[p] \notin {"idle", "new", "insert", "retry", "send", "wait"}
      OBVIOUS
    <3> QED BY <3>3, <3>4, <3>5, <3>6
  <2>3. CASE Send(p) \/ SendClosed(p) \/ SendTimesOut(p) \/ WaitTimesOut(p) \/ OuterTimesOut(p) \/ Retry(p)
    BY <2>3 DEF Send, SendClosed, SendTimesOut, WaitTimesOut, OuterTimesOut, Retry
  <2> QED BY <1>1, <2>1, <2>2, <2>3 DEF RequestStep
<1>2. ASSUME NEW c \in Callers, Call(c) \/ Cancel(c) PROVE BoundInv'
  <2>1. c \in Procs
    BY DEF Procs
  <2> QED BY <1>2, <2>1 DEF Call, Cancel
<1>3. CASE (\E m \in outbound : Write(m)) \/ WriteFails \/ (\E m \in wire, k \in Kinds : Answers(m, k))
  BY <1>3, <1>b DEF Write, WriteFails, Answers
<1>4. CASE Die \/ PumpEnds
  BY <1>4, <1>b DEF Die, PumpEnds
<1>5. CASE Pump
  <2>1. CASE NotifyEof
    BY <2>1 DEF NotifyEof
  <2>2. CASE (\E m \in inbox : Dispatch(m)) \/ AbortAll \/ MarkFailed
    BY <2>2, <1>b DEF Dispatch, AbortAll, MarkFailed
  <2> QED BY <1>5, <2>1, <2>2 DEF Pump
<1>6. CASE Start
  BY <1>6 DEF Start, BindSlot, SendInitialized, InitializedFails, BecomeReady, StartFails
<1>7. CASE ShutdownBegins \/ Stop
  BY <1>7 DEF ShutdownBegins, Stop, Kill, AwaitEof, EofTimesOut, Stopped
<1>8. CASE UNCHANGED vars
  BY <1>8, <1>b DEF vars
<1> QED BY <1>1, <1>2, <1>3, <1>4, <1>5, <1>6, <1>7, <1>8 DEF Next

\* No new id, and no new message but copies of messages.
LEMMA OwnKept ==
  ASSUME OwnInv, AnswersMatch, id' = id, nextId' = nextId,
         \A m \in outbound' \cup wire' \cup inbox' :
            \E n \in outbound \cup wire \cup inbox : m.id = n.id /\ m.by = n.by
  PROVE  OwnInv' /\ AnswersMatch'
  BY DEF OwnInv, AnswersMatch

LEMMA OwnStep == IInv /\ [Next]_vars => OwnInv' /\ AnswersMatch'
<1> SUFFICES ASSUME IInv, [Next]_vars PROVE OwnInv' /\ AnswersMatch'
  OBVIOUS
<1>0. OwnInv /\ AnswersMatch
  BY DEF IInv
<1> USE <1>0, OwnKept DEF Goto, ids, session
<1>1. ASSUME NEW p \in Procs, RequestStep(p) PROVE OwnInv' /\ AnswersMatch'
  <2>1. CASE Insert(p)
    <3>1. id \in [Procs -> Ids \cup {None}] /\ None \notin Nat /\ Ids \subseteq Nat /\ nextId \in Nat
      BY SessionAssumption DEF IInv, TypeInv, TypeOK, Ids
    <3>2. \A m \in outbound \cup wire \cup inbox : m.id \in Nat
      BY <3>1 DEF IInv, TypeInv, TypeOK, Request, Answer
    <3>3. /\ nextId' = nextId + 1 /\ id' = [id EXCEPT ![p] = nextId]
          /\ outbound' = outbound /\ wire' = wire /\ inbox' = inbox
      BY <2>1 DEF Insert
    <3>4. OwnInv'
      <4>1. ASSUME NEW q \in Procs, id'[q] # None PROVE id'[q] < nextId + 1
        <5>1. CASE q = p
          BY <3>1, <3>3, <5>1
        <5>2. CASE q # p
          <6>1. id'[q] = id[q] /\ id[q] \in Nat
            BY <3>1, <3>3, <4>1, <5>2
          <6> QED BY <6>1, <3>1, <4>1 DEF OwnInv
        <5> QED BY <5>1, <5>2
      <4>2. \A m \in outbound \cup wire \cup inbox : m.id < nextId + 1
        BY <3>1, <3>2 DEF OwnInv
      <4> QED BY <4>1, <4>2, <3>3 DEF OwnInv
    <3>5. \A m \in outbound \cup wire \cup inbox, q \in Procs : id'[q] = m.id => m.by = q
      BY <3>1, <3>2, <3>3 DEF OwnInv, AnswersMatch
    <3>6. \A q, r \in Procs : q # r /\ id'[q] # None => id'[q] # id'[r]
      BY <3>1, <3>3 DEF OwnInv, AnswersMatch
    <3> QED BY <3>3, <3>4, <3>5, <3>6 DEF AnswersMatch
  <2>2. CASE Send(p)
    <3> DEFINE m == [id |-> id[p], by |-> p]
    <3>1. /\ outbound' = outbound \cup {m} /\ id' = id /\ nextId' = nextId
          /\ wire' = wire /\ inbox' = inbox /\ id[p] \in Ids
      BY <2>2 DEF Send, IInv, WaitInv
    <3>2. m.id = id[p] /\ m.by = p /\ id[p] # None
      BY <3>1, SessionAssumption DEF Ids
    <3> HIDE DEF m
    <3> QED BY <3>1, <3>2 DEF OwnInv, AnswersMatch
  <2>3. CASE SendClosed(p) \/ SendTimesOut(p) \/ WaitTimesOut(p) \/ OuterTimesOut(p) \/ Retry(p) \/ Receive(p)
    BY <2>3 DEF SendClosed, SendTimesOut, WaitTimesOut, OuterTimesOut, Retry, Receive
  <2> QED BY <1>1, <2>1, <2>2, <2>3 DEF RequestStep
<1>2. ASSUME NEW c \in Callers, Call(c) \/ Cancel(c) PROVE OwnInv' /\ AnswersMatch'
  BY <1>2 DEF Call, Cancel
<1>3. ASSUME NEW m \in outbound, Write(m) PROVE OwnInv' /\ AnswersMatch'
  BY <1>3 DEF Write
<1>4. CASE WriteFails
  BY <1>4 DEF WriteFails
<1>5. ASSUME NEW m \in wire, NEW k \in Kinds, Answers(m, k) PROVE OwnInv' /\ AnswersMatch'
  <2> DEFINE a == [id |-> m.id, by |-> m.by, kind |-> k]
  <2>1. /\ wire' \subseteq wire /\ inbox' \subseteq inbox \cup {a} /\ outbound' = outbound
        /\ id' = id /\ nextId' = nextId
    BY <1>5 DEF Answers
  <2>2. a.id = m.id /\ a.by = m.by
    OBVIOUS
  <2> HIDE DEF a
  <2> QED BY <2>1, <2>2
<1>6. CASE Die \/ PumpEnds
  BY <1>6 DEF Die, ServerEnds, PumpEnds
<1>7. CASE Pump
  BY <1>7 DEF Pump, Dispatch, AbortAll, NotifyEof, MarkFailed
<1>8. CASE Start
  BY <1>8 DEF Start, BindSlot, SendInitialized, InitializedFails, BecomeReady, StartFails, ServerEnds
<1>9. CASE ShutdownBegins \/ Stop
  BY <1>9 DEF ShutdownBegins, Stop, Kill, AwaitEof, EofTimesOut, Stopped, ServerEnds
<1>10. CASE UNCHANGED vars
  BY <1>10 DEF vars
<1> QED BY <1>1, <1>2, <1>3, <1>4, <1>5, <1>6, <1>7, <1>8, <1>9, <1>10 DEF Next

LEMMA TableStep == IInv /\ [Next]_vars => TableInv'
<1> SUFFICES ASSUME IInv, [Next]_vars PROVE TableInv'
  OBVIOUS
<1>0. /\ TableInv /\ pending \subseteq Ids /\ nextId \in Nat
      /\ mail \in [Ids -> Kinds \cup {"none", "terminated"}] /\ Ids \subseteq Nat
  BY DEF IInv, TypeInv, TypeOK, Ids
<1>a. CASE mail' = mail /\ nextId' = nextId /\ pending' \subseteq pending
  BY <1>0, <1>a DEF TableInv
<1> USE <1>0, <1>a DEF Goto, ids, session
<1>1. ASSUME NEW p \in Procs, RequestStep(p) PROVE TableInv'
  <2>1. CASE Insert(p)
    BY <2>1 DEF Insert, TableInv
  <2>2. CASE Send(p) \/ SendClosed(p) \/ SendTimesOut(p) \/ WaitTimesOut(p) \/ OuterTimesOut(p) \/ Retry(p) \/ Receive(p)
    BY <2>2 DEF Send, SendClosed, SendTimesOut, WaitTimesOut, OuterTimesOut, Retry, Receive
  <2> QED BY <1>1, <2>1, <2>2 DEF RequestStep
<1>2. ASSUME NEW c \in Callers, Call(c) \/ Cancel(c) PROVE TableInv'
  BY <1>2 DEF Call, Cancel
<1>3. CASE (\E m \in outbound : Write(m)) \/ WriteFails \/ (\E m \in wire, k \in Kinds : Answers(m, k))
  BY <1>3 DEF Write, WriteFails, Answers
<1>4. CASE Die \/ PumpEnds
  BY <1>4 DEF Die, PumpEnds
<1>5. ASSUME NEW m \in inbox, Dispatch(m) PROVE TableInv'
  <2>1. m.id \in Ids
    BY DEF IInv, TypeInv, TypeOK, Answer
  <2> QED BY <1>5, <2>1 DEF Dispatch, TableInv
<1>6. CASE AbortAll
  BY <1>6 DEF AbortAll, TableInv
<1>7. CASE NotifyEof \/ MarkFailed
  BY <1>7 DEF NotifyEof, MarkFailed
<1>8. CASE Start
  BY <1>8 DEF Start, BindSlot, SendInitialized, InitializedFails, BecomeReady, StartFails
<1>9. CASE ShutdownBegins \/ Stop
  BY <1>9 DEF ShutdownBegins, Stop, Kill, AwaitEof, EofTimesOut, Stopped
<1>10. CASE UNCHANGED vars
  BY <1>10 DEF vars
<1> QED BY <1>1, <1>2, <1>3, <1>4, <1>5, <1>6, <1>7, <1>8, <1>9, <1>10 DEF Next, Pump

\* No new wait, and nothing of the old ones taken away.
LEMMA WaitKept ==
  ASSUME WaitInv, id' = id, mail' = mail, pending' = pending,
         \A p \in Procs : pc'[p] \in {"send", "wait"} => pc[p] \in {"send", "wait"}
  PROVE  WaitInv'
  BY DEF WaitInv

\* A request that gives up takes its own entry out of the table.
LEMMA GivenUp ==
  ASSUME WaitInv, AnswersMatch, id' = id, mail' = mail, pc \in [Procs -> Pcs],
         NEW p \in Procs, pc[p] \in {"send", "wait"}, NEW to, to \notin {"send", "wait"},
         pc' = [pc EXCEPT ![p] = to], pending' = pending \ {id[p]}
  PROVE  WaitInv'
<1>1. id[p] # None
  BY SessionAssumption DEF WaitInv, Ids
<1>2. \A q \in Procs : pc'[q] \in {"send", "wait"} => q # p /\ pc[q] = pc'[q]
  OBVIOUS
<1> QED BY <1>1, <1>2 DEF WaitInv, AnswersMatch

LEMMA WaitStep == IInv /\ [Next]_vars => WaitInv'
<1> SUFFICES ASSUME IInv, [Next]_vars PROVE WaitInv'
  OBVIOUS
<1>0. /\ WaitInv /\ AnswersMatch /\ pc \in [Procs -> Pcs]
      /\ id \in [Procs -> Ids \cup {None}] /\ mail \in [Ids -> Kinds \cup {"none", "terminated"}]
  BY DEF IInv, TypeInv, TypeOK, Pcs
<1> USE <1>0, WaitKept DEF Goto, ids, session
<1>1. ASSUME NEW p \in Procs, RequestStep(p) PROVE WaitInv'
  <2>1. CASE Insert(p)
    <3>1. nextId \in Ids
      BY <2>1, IdLeft DEF Insert, IInv
    <3> QED BY <2>1, <3>1 DEF Insert, WaitInv
  <2>2. CASE SendClosed(p) \/ SendTimesOut(p) \/ WaitTimesOut(p)
    BY <2>2, GivenUp DEF SendClosed, SendTimesOut, WaitTimesOut
  <2>3. CASE Receive(p)
    <3>1. mail[id[p]] \in {"ok", "modified", "terminated"}
      BY <2>3 DEF Receive, WaitInv, Kinds
    <3>2. pc'[p] \notin {"send", "wait"} /\ \A q \in Procs \ {p} : pc'[q] = pc[q]
      BY <2>3, <3>1 DEF Receive
    <3> QED BY <2>3, <3>2 DEF Receive
  <2>4. CASE Send(p) \/ OuterTimesOut(p) \/ Retry(p)
    BY <2>4 DEF Send, OuterTimesOut, Retry
  <2> QED BY <1>1, <2>1, <2>2, <2>3, <2>4 DEF RequestStep
<1>2. ASSUME NEW c \in Callers, Call(c) \/ Cancel(c) PROVE WaitInv'
  <2>1. c \in Procs
    BY DEF Procs
  <2> QED BY <1>2, <2>1 DEF Call, Cancel
<1>3. CASE (\E m \in outbound : Write(m)) \/ WriteFails \/ (\E m \in wire, k \in Kinds : Answers(m, k))
  BY <1>3 DEF Write, WriteFails, Answers
<1>4. CASE Die \/ PumpEnds
  BY <1>4 DEF Die, PumpEnds
<1>5. ASSUME NEW m \in inbox, Dispatch(m) PROVE WaitInv'
  <2>1. m.id \in Ids /\ m.kind # "none"
    BY DEF IInv, TypeInv, TypeOK, Answer, Kinds
  <2> QED BY <1>5, <2>1 DEF Dispatch, WaitInv
<1>6. CASE AbortAll
  BY <1>6 DEF AbortAll, WaitInv
<1>7. CASE NotifyEof \/ MarkFailed
  BY <1>7 DEF NotifyEof, MarkFailed
<1>8. CASE Start
  BY <1>8 DEF Start, BindSlot, SendInitialized, InitializedFails, BecomeReady, StartFails
<1>9. CASE ShutdownBegins \/ Stop
  BY <1>9 DEF ShutdownBegins, Stop, Kill, AwaitEof, EofTimesOut, Stopped
<1>10. CASE UNCHANGED vars
  BY <1>10 DEF vars
<1> QED BY <1>1, <1>2, <1>3, <1>4, <1>5, <1>6, <1>7, <1>8, <1>9, <1>10 DEF Next, Pump

-----------------------------------------------------------------------------
\* Where a process may be whose request is still in the table.
Holding(p) ==
    {"send", "wait"} \cup IF p \in Callers THEN {"cancelled"} ELSE {"timeout", "failed"} \cup StopPcs

LEMMA PendingKept ==
  ASSUME PendingIsWaited, id' = id, pending' \subseteq pending,
         \A p \in Procs : pc[p] \in Holding(p) => pc'[p] \in Holding(p) \/ id[p] \notin pending'
  PROVE  PendingIsWaited'
  BY DEF PendingIsWaited, Holding

LEMMA PendingStep == IInv /\ [Next]_vars => PendingIsWaited'
<1> SUFFICES ASSUME IInv, [Next]_vars PROVE PendingIsWaited'
  OBVIOUS
<1>0. /\ PendingIsWaited /\ pc \in [Procs -> Pcs]
      /\ id \in [Procs -> Ids \cup {None}]
  BY DEF IInv, TypeInv, TypeOK, Pcs
<1>a. Starter \in Procs \ Callers /\ Stopper \in Procs \ Callers /\ Callers \subseteq Procs
  BY SessionAssumption DEF Procs
<1> USE <1>0, <1>a, PendingKept DEF Goto, ids, session, Holding, StopPcs
<1>1. ASSUME NEW p \in Procs, RequestStep(p) PROVE PendingIsWaited'
  <2>1. CASE Insert(p)
    BY <2>1 DEF Insert, PendingIsWaited
  <2>2. CASE SendClosed(p) \/ SendTimesOut(p) \/ WaitTimesOut(p)
    BY <2>2 DEF SendClosed, SendTimesOut, WaitTimesOut
  <2>3. CASE Receive(p)
    <3>1. id[p] \notin pending
      BY <2>3 DEF Receive, IInv, WaitInv, TableInv
    <3>2. \A q \in Procs \ {p} : pc'[q] = pc[q]
      BY <2>3 DEF Receive
    <3> QED BY <2>3, <3>1, <3>2 DEF Receive
  <2>4. CASE Send(p) \/ OuterTimesOut(p) \/ Retry(p)
    BY <2>4 DEF Send, OuterTimesOut, Retry
  <2> QED BY <1>1, <2>1, <2>2, <2>3, <2>4 DEF RequestStep
<1>2. ASSUME NEW c \in Callers, Call(c) \/ Cancel(c) PROVE PendingIsWaited'
  BY <1>2 DEF Call, Cancel
<1>3. CASE (\E m \in outbound : Write(m)) \/ WriteFails \/ (\E m \in wire, k \in Kinds : Answers(m, k))
  BY <1>3 DEF Write, WriteFails, Answers
<1>4. CASE Die \/ PumpEnds
  BY <1>4 DEF Die, PumpEnds
<1>5. CASE (\E m \in inbox : Dispatch(m)) \/ AbortAll \/ MarkFailed
  BY <1>5 DEF Dispatch, AbortAll, MarkFailed
<1>6. CASE NotifyEof
  BY <1>6 DEF NotifyEof
<1>7. CASE Start
  BY <1>7 DEF Start, BindSlot, SendInitialized, InitializedFails, BecomeReady, StartFails
<1>8. CASE ShutdownBegins \/ Stop
  BY <1>8 DEF ShutdownBegins, Stop, Kill, AwaitEof, EofTimesOut, Stopped
<1>9. CASE UNCHANGED vars
  BY <1>9 DEF vars
<1> QED BY <1>1, <1>2, <1>3, <1>4, <1>5, <1>6, <1>7, <1>8, <1>9 DEF Next, Pump

LEMMA Invariance == Spec => []IInv
<1>1. IInv /\ [Next]_vars => IInv'
  BY TypeStep, BoundStep, OwnStep, TableStep, WaitStep, PendingStep DEF IInv
<1> QED BY InitIInv, <1>1, PTL DEF Spec

-----------------------------------------------------------------------------
\* The types; in particular Ids has an id for every request, however often it is retried, and
\* the channel keeps its capacity.
THEOREM TypeCorrect == Spec => []TypeOK
<1>1. IInv => TypeOK
  BY DEF IInv, TypeInv
<1> QED BY Invariance, <1>1, PTL

\* Whoever waits gets the answer to its own request and to its current attempt.
THEOREM AnswersReach == Spec => []AnswersMatch
<1>1. IInv => AnswersMatch
  BY DEF IInv
<1> QED BY Invariance, <1>1, PTL

\* An answered, timed-out or failed request leaves nothing behind in the table.
THEOREM PendingWaited == Spec => []PendingIsWaited
<1>1. IInv => PendingIsWaited
  BY DEF IInv
<1> QED BY Invariance, <1>1, PTL

\* A request that times out was neither answered nor aborted.
THEOREM TimeoutsHonest == Spec => TimeoutIsHonest
<1> DEFINE Honest == \A p \in Procs : WaitTimesOut(p) => id[p] \in pending
<1>1. IInv => [Honest]_vars
  BY DEF IInv, WaitInv, WaitTimesOut, Goto
<1> QED BY Invariance, <1>1, PTL DEF Spec, TimeoutIsHonest

-----------------------------------------------------------------------------
(* Delimiters and headers.                                                 *)

\* A delimiter begins after the first i bytes.
Delimits(buf, i) == i + 4 <= Len(buf) /\ SubSeq(buf, i + 1, i + 4) = Delimiter

\* The first one begins after h bytes.
FirstDelimiter(buf, h) == Delimits(buf, h) /\ \A i \in 0..h - 1 : ~Delimits(buf, i)

\* The lengths a header announces and the decoder takes: none, or one.
Fits(header) == {l \in Parsed(header) : l <= MaxFrameBody}

\* The search finds the first delimiter that begins at k or later, if there is one.
LEMMA HeaderEndsIs ==
  ASSUME NEW S, NEW buf \in Seq(S), NEW k \in Nat
  PROVE  /\ HeaderEnds(buf, k) = {} => \A i \in Nat : i >= k => ~Delimits(buf, i)
         /\ \A h \in HeaderEnds(buf, k) :
              /\ h \in Nat /\ h >= k /\ Delimits(buf, h)
              /\ \A i \in k..h - 1 : ~Delimits(buf, i)
              /\ HeaderEnds(buf, k) = {h}
<1> DEFINE found == {i \in k..Len(buf) - 4 : SubSeq(buf, i + 1, i + 4) = Delimiter}
<1>0. Len(buf) \in Nat
  OBVIOUS
<1>1. HeaderEnds(buf, k) = {i \in found : \A j \in found : i <= j}
  BY DEF HeaderEnds
<1>2. \A i \in Nat : i \in found <=> i >= k /\ Delimits(buf, i)
  BY <1>0 DEF Delimits
<1>3. found \in SUBSET Nat
  BY <1>0
<1> HIDE DEF found
<1>4. ASSUME HeaderEnds(buf, k) = {} PROVE found = {}
  BY <1>1, <1>3, <1>4, LeastIs
<1>5. ASSUME NEW h \in HeaderEnds(buf, k)
      PROVE  /\ h \in Nat /\ h >= k /\ Delimits(buf, h)
             /\ \A i \in k..h - 1 : ~Delimits(buf, i)
             /\ HeaderEnds(buf, k) = {h}
  <2>1. h \in found /\ h \in Nat /\ \A j \in found : h <= j
    BY <1>1, <1>3
  <2>2. \A i \in k..h - 1 : i \in Nat /\ i >= k /\ ~(h <= i)
    BY <2>1
  <2>3. \A g \in HeaderEnds(buf, k) : g \in Nat /\ g <= h /\ h <= g
    BY <1>1, <1>3, <2>1
  <2>4. HeaderEnds(buf, k) = {h}
    BY <2>3
  <2> QED BY <1>2, <2>1, <2>2, <2>4
<1> QED BY <1>2, <1>4, <1>5

\* There is one first delimiter.
LEMMA FirstIsOne ==
  ASSUME NEW buf, NEW g \in Nat, NEW h \in Nat, FirstDelimiter(buf, g), FirstDelimiter(buf, h)
  PROVE  g = h
BY DEF FirstDelimiter

\* Of the lengths in a header at most one counts.
LEMMA ParsedIs ==
  ASSUME NEW S, NEW header \in Seq(S)
  PROVE  /\ Parsed(header) \subseteq Nat
         /\ \A l, m \in Parsed(header) : l = m
         /\ Len(header) = 0 => Parsed(header) = {}
<1> DEFINE lines == {i \in 1..Len(header) : header[i] \in Lengths}
           last == {j \in lines : (\A k \in lines : k <= j) /\ \A k \in 1..Len(header) : header[k] # "bad"}
<1>1. Parsed(header) = {ContentLength[header[i]] : i \in last}
  BY DEF Parsed
<1>2. \A b \in Lengths : ContentLength[b] \in Nat
  BY FramingAssumption DEF Lengths, ContentLength
<1>3. \A i \in last : header[i] \in Lengths
  OBVIOUS
<1>4. \A i, j \in last : i = j
  OBVIOUS
<1>5. Len(header) = 0 => last = {}
  OBVIOUS
<1> HIDE DEF last
<1> QED BY <1>1, <1>2, <1>3, <1>4, <1>5

LEMMA FitsIs ==
  ASSUME NEW S, NEW header \in Seq(S), NEW l \in Fits(header)
  PROVE  l \in Nat /\ l <= MaxFrameBody /\ Fits(header) = {l} /\ Len(header) >= 1
<1>1. Len(header) \in Nat
  OBVIOUS
<1>2. /\ Parsed(header) \subseteq Nat /\ \A a, b \in Parsed(header) : a = b
      /\ Len(header) = 0 => Parsed(header) = {}
  BY ParsedIs
<1>3. l \in Parsed(header) /\ l <= MaxFrameBody /\ Fits(header) = {l}
  BY <1>2 DEF Fits
<1> QED BY <1>1, <1>2, <1>3

-----------------------------------------------------------------------------
(* One decode.                                                             *)

\* The bytes begin with a whole frame: h bytes of header, the delimiter and l of the body.
Whole(buf, h, l) == FirstDelimiter(buf, h) /\ l \in Fits(SubSeq(buf, 1, h)) /\ h + 4 + l <= Len(buf)

\* Its body, and what comes after it.
Body(buf, h, l) == SubSeq(buf, h + 5, h + 4 + l)
Rest(buf, h, l) == SubSeq(buf, h + 4 + l + 1, Len(buf))

\* They are the beginning of one, or may be.
Awaits(buf) ==
    \/ Len(buf) < MaxFrameBody /\ \A i \in Nat : ~Delimits(buf, i)
    \/ \E h \in Nat : \E l \in Fits(SubSeq(buf, 1, h)) : FirstDelimiter(buf, h) /\ Len(buf) < h + 4 + l

\* No message begins like this, or the frame is there and its body is none.
Broken(buf) ==
    \/ Len(buf) >= MaxFrameBody /\ \A i \in Nat : ~Delimits(buf, i)
    \/ \E h \in Nat : FirstDelimiter(buf, h) /\ Fits(SubSeq(buf, 1, h)) = {}
    \/ \E h, l \in Nat : Whole(buf, h, l) /\ ~IsJson(Body(buf, h, l))

\* A decoder that remembers nothing.
Afresh(buf) == [scanned |-> 0, header |-> 0, frame |-> 0, buf |-> buf]

\* The result of a decode that finds a whole frame.
Taken(buf, h, l, r) ==
    /\ Whole(buf, h, l) /\ r.d = Afresh(Rest(buf, h, l))
    /\ IF IsJson(Body(buf, h, l)) THEN r.how = "frame" /\ r.body = Body(buf, h, l)
       ELSE r.how = "error" /\ r.body = <<>>

\* The decoders, and their bytes.
Decoders(S) == [scanned : Nat, header : Nat, frame : Nat, buf : Seq(S)]

\* What a decoder remembers of its buffer is so.
Remembers(d) ==
    /\ d.scanned = 0 \/ d.scanned + 3 <= Len(d.buf)
    /\ \A i \in 0..d.scanned - 1 : ~Delimits(d.buf, i)
    /\ d.frame # 0 =>
        FirstDelimiter(d.buf, d.header) /\ d.frame - (d.header + 4) \in Fits(SubSeq(d.buf, 1, d.header))

\* The header before a delimiter.
LEMMA HeaderIs ==
  ASSUME NEW S, NEW buf \in Seq(S), NEW h \in Nat, Delimits(buf, h)
  PROVE  /\ SubSeq(buf, 1, h) \in Seq(S) /\ Len(SubSeq(buf, 1, h)) = h /\ h + 4 <= Len(buf)
         /\ \A l \in Fits(SubSeq(buf, 1, h)) :
              l \in Nat /\ l <= MaxFrameBody /\ Fits(SubSeq(buf, 1, h)) = {l} /\ h >= 1
<1>1. Len(buf) \in Nat /\ h + 4 <= Len(buf)
  BY DEF Delimits
<1>2. SubSeq(buf, 1, h) \in Seq(S) /\ Len(SubSeq(buf, 1, h)) = h
  BY <1>1
<1> QED BY <1>1, <1>2, FitsIs

\* The parts of a result.
LEMMA ResultIs ==
  ASSUME NEW how, NEW body, NEW d
  PROVE  Result(how, body, d).how = how /\ Result(how, body, d).body = body /\ Result(how, body, d).d = d
BY DEF Result

\* A decoder that knows the header takes the frame when it is whole.
LEMMA TakeFrameIs ==
  ASSUME NEW S, NEW d \in Decoders(S), Remembers(d), d.frame # 0
  PROVE  LET l == d.frame - (d.header + 4) IN
         /\ l \in Fits(SubSeq(d.buf, 1, d.header)) /\ FirstDelimiter(d.buf, d.header)
         /\ \/ Len(d.buf) < d.header + 4 + l /\ TakeFrame(d) = Result("none", <<>>, d)
            \/ Taken(d.buf, d.header, l, TakeFrame(d))
<1> DEFINE l == d.frame - (d.header + 4)
<1>1. d.buf \in Seq(S) /\ d.header \in Nat /\ d.frame \in Nat /\ Len(d.buf) \in Nat
  BY DEF Decoders
<1>2. l \in Fits(SubSeq(d.buf, 1, d.header)) /\ FirstDelimiter(d.buf, d.header)
  BY DEF Remembers
<1>3. l \in Nat /\ d.header + 4 + l = d.frame
  <2>1. l \in Nat
    BY <1>1, <1>2, HeaderIs DEF FirstDelimiter
  <2> QED BY <1>1, <2>1
<1>4. CASE Len(d.buf) < d.frame
  BY <1>2, <1>3, <1>4 DEF TakeFrame
<1>5. CASE ~(Len(d.buf) < d.frame)
  <2>1. Whole(d.buf, d.header, l)
    BY <1>1, <1>2, <1>3, <1>5 DEF Whole
  <2>2. PICK body, rest : /\ body = SubSeq(d.buf, d.header + 5, d.frame)
                          /\ rest = [Fresh EXCEPT !.buf = SubSeq(d.buf, d.frame + 1, Len(d.buf))]
    OBVIOUS
  <2>3. TakeFrame(d) = IF IsJson(body) THEN Result("frame", body, rest) ELSE Result("error", <<>>, rest)
    BY <1>5, <2>2 DEF TakeFrame
  <2>4. \A b : [Fresh EXCEPT !.buf = b] = Afresh(b)
    BY DEF Fresh, Afresh
  <2>5. body = Body(d.buf, d.header, l)
    BY <1>3, <2>2 DEF Body
  <2>6. rest = Afresh(Rest(d.buf, d.header, l))
    BY <1>3, <2>2, <2>4 DEF Rest
  <2>7. CASE IsJson(body)
    <3>1. TakeFrame(d).how = "frame" /\ TakeFrame(d).body = body /\ TakeFrame(d).d = rest
      BY <2>3, <2>7, ResultIs
    <3> QED BY <1>2, <2>1, <2>5, <2>6, <2>7, <3>1 DEF Taken
  <2>8. CASE ~IsJson(body)
    <3>1. TakeFrame(d).how = "error" /\ TakeFrame(d).body = <<>> /\ TakeFrame(d).d = rest
      BY <2>3, <2>8, ResultIs
    <3> QED BY <1>2, <2>1, <2>5, <2>6, <2>8, <3>1 DEF Taken
  <2> QED BY <2>7, <2>8
<1> QED BY <1>4, <1>5

\* A decode is a function of the bytes in the buffer: what the decoder remembers does not show.
LEMMA DecodeIs ==
  ASSUME NEW S, NEW d \in Decoders(S), Remembers(d)
  PROVE  LET r == Decode(d) IN
         \/ /\ r.how = "none" /\ r.body = <<>> /\ r.d \in Decoders(S) /\ r.d.buf = d.buf /\ Remembers(r.d)
            /\ Awaits(d.buf)
         \/ /\ r.how = "error" /\ r.body = <<>> /\ r.d = d /\ Broken(d.buf)
            /\ \A h, l \in Nat : ~Whole(d.buf, h, l)
         \/ \E h, l \in Nat : Taken(d.buf, h, l, r)
<1>1. /\ d.buf \in Seq(S) /\ Len(d.buf) \in Nat /\ d.scanned \in Nat /\ d.header \in Nat /\ d.frame \in Nat
      /\ d = [scanned |-> d.scanned, header |-> d.header, frame |-> d.frame, buf |-> d.buf]
  BY DEF Decoders
<1>2. CASE d.frame # 0
  <2>1. Decode(d) = TakeFrame(d)
    BY <1>2 DEF Decode
  <2>2. PICK l : l = d.frame - (d.header + 4)
    OBVIOUS
  <2>3. /\ l \in Fits(SubSeq(d.buf, 1, d.header)) /\ FirstDelimiter(d.buf, d.header)
        /\ \/ Len(d.buf) < d.header + 4 + l /\ TakeFrame(d) = Result("none", <<>>, d)
           \/ Taken(d.buf, d.header, l, TakeFrame(d))
    BY <1>2, <2>2, TakeFrameIs
  <2>4. l \in Nat
    BY <1>1, <2>3, HeaderIs DEF FirstDelimiter
  <2>5. CASE Len(d.buf) < d.header + 4 + l /\ TakeFrame(d) = Result("none", <<>>, d)
    <3>1. Awaits(d.buf)
      BY <1>1, <2>3, <2>5 DEF Awaits
    <3> QED BY <2>1, <2>5, <3>1 DEF Result
  <2>6. CASE Taken(d.buf, d.header, l, TakeFrame(d))
    <3>1. d.header \in Nat /\ Taken(d.buf, d.header, l, Decode(d))
      BY <1>1, <2>1, <2>6
    <3> QED BY <2>4, <3>1
  <2> QED BY <2>3, <2>5, <2>6
<1>3. CASE d.frame = 0
  <2> DEFINE start == IF d.scanned < Len(d.buf) THEN d.scanned ELSE Len(d.buf)
             ends == HeaderEnds(d.buf, start)
  <2>1. start = d.scanned
    BY <1>1 DEF Remembers
  <2>2. ends = HeaderEnds(d.buf, d.scanned)
    BY <2>1
  <2>3. /\ ends = {} => \A i \in Nat : i >= d.scanned => ~Delimits(d.buf, i)
        /\ \A h \in ends : /\ h \in Nat /\ h >= d.scanned /\ Delimits(d.buf, h)
                          /\ \A i \in d.scanned..h - 1 : ~Delimits(d.buf, i)
                          /\ ends = {h}
    BY <1>1, <2>2, HeaderEndsIs
  <2>4. \A i \in 0..d.scanned - 1 : ~Delimits(d.buf, i)
    BY DEF Remembers
  <2>5. Decode(d) =
          IF ends = {} THEN
            IF Len(d.buf) >= MaxFrameBody THEN Result("error", <<>>, d)
            ELSE Result("none", <<>>, [d EXCEPT !.scanned = Rescan(d.buf)])
          ELSE LET header == CHOOSE i \in ends : TRUE
                   length == {l \in Parsed(SubSeq(d.buf, 1, header)) : l <= MaxFrameBody}
               IN IF length = {} THEN Result("error", <<>>, d)
                  ELSE TakeFrame([d EXCEPT !.header = header,
                                           !.frame = header + 4 + (CHOOSE l \in length : TRUE)])
    BY <1>3 DEF Decode
  <2> HIDE DEF start, ends
  <2>6. CASE ends = {}
    <3>1. \A i \in Nat : ~Delimits(d.buf, i)
      <4> SUFFICES ASSUME NEW i \in Nat PROVE ~Delimits(d.buf, i)
        OBVIOUS
      <4>1. CASE i >= d.scanned
        BY <2>3, <2>6, <4>1
      <4>2. CASE i < d.scanned
        BY <1>1, <2>4, <4>2
      <4> QED BY <1>1, <4>1, <4>2
    <3>2. CASE Len(d.buf) >= MaxFrameBody
      <4>1. Decode(d) = Result("error", <<>>, d)
        BY <2>5, <2>6, <3>2
      <4>2. Broken(d.buf)
        BY <3>1, <3>2 DEF Broken
      <4>3. \A h, l \in Nat : ~Whole(d.buf, h, l)
        BY <3>1 DEF Whole, FirstDelimiter
      <4> QED BY <4>1, <4>2, <4>3 DEF Result
    <3>3. CASE ~(Len(d.buf) >= MaxFrameBody)
      <4>1. Decode(d) = Result("none", <<>>, [d EXCEPT !.scanned = Rescan(d.buf)])
        BY <2>5, <2>6, <3>3
      <4>2. PICK e : e = [d EXCEPT !.scanned = Rescan(d.buf)]
        OBVIOUS
      <4>3. Rescan(d.buf) \in Nat /\ (Rescan(d.buf) = 0 \/ Rescan(d.buf) + 3 <= Len(d.buf))
        BY <1>1 DEF Rescan
      <4>4. e = [scanned |-> Rescan(d.buf), header |-> d.header, frame |-> d.frame, buf |-> d.buf]
        BY <1>1, <4>2
      <4>5. e \in Decoders(S) /\ e.buf = d.buf
        BY <1>1, <4>3, <4>4 DEF Decoders
      <4>6. Remembers(e)
        BY <1>3, <3>1, <4>3, <4>4 DEF Remembers
      <4>7. Awaits(d.buf)
        BY <1>1, <3>1, <3>3, FramingAssumption DEF Awaits
      <4>8. Decode(d).how = "none" /\ Decode(d).body = <<>> /\ Decode(d).d = e
        BY <4>1, <4>2 DEF Result
      <4> QED BY <4>5, <4>6, <4>7, <4>8
    <3> QED BY <3>2, <3>3
  <2>7. CASE ends # {}
    <3>1. PICK h \in ends : TRUE
      BY <2>7
    <3>2. h \in Nat /\ h >= d.scanned /\ Delimits(d.buf, h) /\ ends = {h} /\ (CHOOSE i \in ends : TRUE) = h
      BY <2>3, <3>1
    <3>3. FirstDelimiter(d.buf, h)
      <4>1. \A i \in 0..h - 1 : i \in 0..d.scanned - 1 \/ i \in d.scanned..h - 1
        BY <1>1, <3>2
      <4> QED BY <2>3, <2>4, <3>1, <3>2, <4>1 DEF FirstDelimiter
    <3>4. Decode(d) =
            IF Fits(SubSeq(d.buf, 1, h)) = {} THEN Result("error", <<>>, d)
            ELSE TakeFrame([d EXCEPT !.header = h,
                                     !.frame = h + 4 + (CHOOSE l \in Fits(SubSeq(d.buf, 1, h)) : TRUE)])
      BY <2>5, <2>7, <3>2 DEF Fits
    <3>5. CASE Fits(SubSeq(d.buf, 1, h)) = {}
      <4>1. Broken(d.buf)
        BY <3>2, <3>3, <3>5 DEF Broken
      <4>2. \A g, l \in Nat : ~Whole(d.buf, g, l)
        <5> SUFFICES ASSUME NEW g \in Nat, NEW l \in Nat, Whole(d.buf, g, l) PROVE FALSE
          OBVIOUS
        <5>1. FirstDelimiter(d.buf, g) /\ Fits(SubSeq(d.buf, 1, g)) # {}
          BY DEF Whole
        <5>2. g = h
          BY <3>2, <3>3, <5>1, FirstIsOne
        <5> QED BY <3>5, <5>1, <5>2
      <4> QED BY <3>4, <3>5, <4>1, <4>2 DEF Result
    <3>6. CASE Fits(SubSeq(d.buf, 1, h)) # {}
      <4>1. PICK l \in Fits(SubSeq(d.buf, 1, h)) : TRUE
        BY <3>6
      <4>2. l \in Nat /\ Fits(SubSeq(d.buf, 1, h)) = {l}
        BY <1>1, <3>2, <4>1, HeaderIs
      <4>3. (CHOOSE m \in Fits(SubSeq(d.buf, 1, h)) : TRUE) = l
        BY <4>2
      <4>4. PICK e : e = [d EXCEPT !.header = h, !.frame = h + 4 + l]
        OBVIOUS
      <4>5. Decode(d) = TakeFrame(e)
        BY <3>4, <3>6, <4>3, <4>4
      <4>6. e = [scanned |-> d.scanned, header |-> h, frame |-> h + 4 + l, buf |-> d.buf]
        BY <1>1, <4>4
      <4>7. /\ e \in Decoders(S) /\ e.buf = d.buf /\ e.header = h /\ e.frame = h + 4 + l /\ e.frame # 0
            /\ e.scanned = d.scanned
        BY <1>1, <3>2, <4>2, <4>6 DEF Decoders
      <4>8. e.frame - (e.header + 4) = l
        BY <3>2, <4>2, <4>7
      <4>9. Remembers(e)
        BY <3>3, <4>1, <4>7, <4>8 DEF Remembers
      <4>10. \/ Len(d.buf) < h + 4 + l /\ TakeFrame(e) = Result("none", <<>>, e)
             \/ Taken(d.buf, h, l, TakeFrame(e))
        BY <4>7, <4>8, <4>9, TakeFrameIs
      <4>11. CASE Len(d.buf) < h + 4 + l /\ TakeFrame(e) = Result("none", <<>>, e)
        <5>1. Awaits(d.buf)
          BY <3>2, <3>3, <4>1, <4>11 DEF Awaits
        <5> QED BY <4>5, <4>7, <4>9, <4>11, <5>1 DEF Result
      <4>12. CASE Taken(d.buf, h, l, TakeFrame(e))
        BY <3>2, <4>2, <4>5, <4>12
      <4> QED BY <4>10, <4>11, <4>12
    <3> QED BY <3>5, <3>6
  <2> QED BY <2>6, <2>7
<1> QED BY <1>2, <1>3, <1>1

\* What begins with some bytes has their delimiters and headers.
LEMMA PrefixIs ==
  ASSUME NEW S, NEW p \in Seq(S), NEW q \in Seq(S), IsPrefix(p, q)
  PROVE  /\ Len(p) <= Len(q) /\ Len(p) \in Nat /\ Len(q) \in Nat
         /\ \A i \in 0..Len(p) : \A j \in i..Len(p) : SubSeq(p, i + 1, j) = SubSeq(q, i + 1, j)
         /\ \A h \in 0..Len(p) : SubSeq(p, 1, h) = SubSeq(q, 1, h)
         /\ \A i \in Nat : i + 4 <= Len(p) => (Delimits(p, i) <=> Delimits(q, i))
         /\ \A h \in Nat : h + 4 <= Len(p) => (FirstDelimiter(p, h) <=> FirstDelimiter(q, h))
<1>1. Len(p) <= Len(q) /\ Len(p) \in Nat /\ Len(q) \in Nat /\ p = SubSeq(q, 0 + 1, Len(p))
  <2>1. Len(p) <= Len(q) /\ SubSeq(p, 1, Len(p)) = SubSeq(q, 1, Len(p))
    BY DEF IsPrefix
  <2>2. Len(p) \in Nat /\ Len(q) \in Nat /\ SubSeq(p, 1, Len(p)) = p
    OBVIOUS
  <2> QED BY <2>1, <2>2
<1>2. \A i \in 0..Len(p) : \A j \in i..Len(p) : SubSeq(p, i + 1, j) = SubSeq(q, i + 1, j)
  <2> SUFFICES ASSUME NEW i \in 0..Len(p), NEW j \in i..Len(p)
               PROVE SubSeq(p, i + 1, j) = SubSeq(q, i + 1, j)
    OBVIOUS
  <2>1. 0 \in 0..Len(q) /\ Len(p) \in 0..Len(q) /\ i \in 0..Len(p) - 0 /\ j \in i..Len(p) - 0
    BY <1>1
  <2>2. SubSeq(SubSeq(q, 0 + 1, Len(p)), i + 1, j) = SubSeq(q, (0 + i) + 1, 0 + j)
    BY <2>1, StretchOfStretch
  <2> QED BY <1>1, <2>1, <2>2
<1>3. \A h \in 0..Len(p) : SubSeq(p, 1, h) = SubSeq(q, 1, h)
  <2> SUFFICES ASSUME NEW h \in 0..Len(p) PROVE SubSeq(p, 1, h) = SubSeq(q, 1, h)
    OBVIOUS
  <2>1. SubSeq(p, 0 + 1, h) = SubSeq(q, 0 + 1, h)
    BY <1>1, <1>2
  <2> QED BY <2>1
<1>4. \A i \in Nat : i + 4 <= Len(p) => (Delimits(p, i) <=> Delimits(q, i))
  <2> SUFFICES ASSUME NEW i \in Nat, i + 4 <= Len(p) PROVE Delimits(p, i) <=> Delimits(q, i)
    OBVIOUS
  <2>1. SubSeq(p, i + 1, i + 4) = SubSeq(q, i + 1, i + 4)
    BY <1>1, <1>2
  <2>2. i + 4 <= Len(q)
    BY <1>1
  <2> QED BY <2>1, <2>2 DEF Delimits
<1>5. \A h \in Nat : h + 4 <= Len(p) => (FirstDelimiter(p, h) <=> FirstDelimiter(q, h))
  <2> SUFFICES ASSUME NEW h \in Nat, h + 4 <= Len(p) PROVE FirstDelimiter(p, h) <=> FirstDelimiter(q, h)
    OBVIOUS
  <2>1. \A i \in 0..h - 1 : i \in Nat /\ i + 4 <= Len(p)
    BY <1>1
  <2> QED BY <1>4, <2>1 DEF FirstDelimiter
<1> QED BY <1>1, <1>2, <1>3, <1>4, <1>5

\* Bytes that begin with a whole frame begin with that one; they do not wait, and break only
\* when its body is no JSON.
LEMMA WholeIs ==
  ASSUME NEW S, NEW q \in Seq(S), NEW h \in Nat, NEW l \in Nat, Whole(q, h, l)
  PROVE  /\ FirstDelimiter(q, h) /\ Fits(SubSeq(q, 1, h)) = {l} /\ h + 4 + l <= Len(q) /\ h >= 1
         /\ \A g, m \in Nat : FirstDelimiter(q, g) /\ m \in Fits(SubSeq(q, 1, g)) => g = h /\ m = l
         /\ ~Awaits(q) /\ (IsJson(Body(q, h, l)) <=> ~Broken(q))
<1>1. FirstDelimiter(q, h) /\ Delimits(q, h) /\ l \in Fits(SubSeq(q, 1, h)) /\ h + 4 + l <= Len(q)
  BY DEF Whole, FirstDelimiter
<1>2. Fits(SubSeq(q, 1, h)) = {l} /\ h >= 1 /\ Len(q) \in Nat
  BY <1>1, HeaderIs
<1>3. \A g \in Nat : FirstDelimiter(q, g) => g = h
  BY <1>1, FirstIsOne
<1>4. ~Awaits(q)
  BY <1>1, <1>2, <1>3 DEF Awaits
<1>5. \A g, m \in Nat : FirstDelimiter(q, g) /\ m \in Fits(SubSeq(q, 1, g)) => g = h /\ m = l
  BY <1>2, <1>3
<1>6. IsJson(Body(q, h, l)) => ~Broken(q)
  <2> SUFFICES ASSUME IsJson(Body(q, h, l)), Broken(q) PROVE FALSE
    OBVIOUS
  <2>1. ASSUME NEW g \in Nat, NEW m \in Nat, Whole(q, g, m), ~IsJson(Body(q, g, m)) PROVE FALSE
    <3>1. g = h /\ m = l
      BY <1>5, <2>1 DEF Whole
    <3> QED BY <2>1, <3>1
  <2> QED BY <1>1, <1>2, <1>3, <2>1 DEF Broken
<1>7. ~IsJson(Body(q, h, l)) => Broken(q)
  BY DEF Broken
<1> QED BY <1>1, <1>2, <1>4, <1>5, <1>6, <1>7

\* More bytes do not change it.
LEMMA WholeStays ==
  ASSUME NEW S, NEW p \in Seq(S), NEW q \in Seq(S), IsPrefix(p, q),
         NEW h \in Nat, NEW l \in Nat, Whole(p, h, l)
  PROVE  Whole(q, h, l) /\ Body(q, h, l) = Body(p, h, l)
<1>1. FirstDelimiter(p, h) /\ l \in Fits(SubSeq(p, 1, h)) /\ h + 4 + l <= Len(p)
  BY DEF Whole
<1>2. Len(p) \in Nat /\ Len(q) \in Nat /\ Len(p) <= Len(q)
  BY PrefixIs
<1>3. h + 4 <= Len(p) /\ h \in 0..Len(p) /\ h + 4 + l <= Len(q)
  BY <1>1, <1>2
<1>4. FirstDelimiter(q, h) /\ SubSeq(p, 1, h) = SubSeq(q, 1, h)
  BY <1>1, <1>3, PrefixIs
<1>5. SubSeq(p, (h + 4) + 1, h + 4 + l) = SubSeq(q, (h + 4) + 1, h + 4 + l)
  <2>1. h + 4 \in 0..Len(p) /\ h + 4 + l \in h + 4..Len(p)
    BY <1>1, <1>2
  <2> QED BY <2>1, PrefixIs
<1>6. Body(q, h, l) = Body(p, h, l)
  <2>1. (h + 4) + 1 = h + 5
    OBVIOUS
  <2> QED BY <1>5, <2>1 DEF Body
<1> QED BY <1>1, <1>3, <1>4, <1>6 DEF Whole

\* What waits is not broken.
LEMMA NotBoth ==
  ASSUME NEW S, NEW buf \in Seq(S), Awaits(buf)
  PROVE  ~Broken(buf)
<1>1. MaxFrameBody \in Nat /\ Len(buf) \in Nat
  BY FramingAssumption
<1>2. \A h, l \in Nat : ~Whole(buf, h, l)
  BY WholeIs
<1>3. ASSUME Len(buf) < MaxFrameBody, \A i \in Nat : ~Delimits(buf, i), Broken(buf) PROVE FALSE
  BY <1>1, <1>2, <1>3 DEF Broken, FirstDelimiter
<1>4. ASSUME NEW h \in Nat, NEW l \in Fits(SubSeq(buf, 1, h)), FirstDelimiter(buf, h), Broken(buf) PROVE FALSE
  <2>1. \A i \in Nat : FirstDelimiter(buf, i) => i = h
    BY <1>4, FirstIsOne
  <2>2. Delimits(buf, h)
    BY <1>4 DEF FirstDelimiter
  <2> QED BY <1>2, <1>4, <2>1, <2>2 DEF Broken
<1> QED BY <1>3, <1>4 DEF Awaits

\* A decoder and one that remembers nothing return the same: what a decoder remembers saves
\* it a search and nothing else.
THEOREM DecoderIsAfresh ==
  ASSUME NEW S, NEW d \in Decoders(S), Remembers(d)
  PROVE  /\ Afresh(d.buf) \in Decoders(S) /\ Remembers(Afresh(d.buf))
         /\ Decode(d).how = Decode(Afresh(d.buf)).how /\ Decode(d).body = Decode(Afresh(d.buf)).body
         /\ Decode(d).d.buf = Decode(Afresh(d.buf)).d.buf
<1>1. PICK f : f = Afresh(d.buf)
  OBVIOUS
<1>2. d.buf \in Seq(S)
  BY DEF Decoders
<1>3. f \in Decoders(S) /\ Remembers(f) /\ f.buf = d.buf
  BY <1>1, <1>2 DEF Decoders, Remembers, Afresh
<1>4. PICK r, t : r = Decode(d) /\ t = Decode(f)
  OBVIOUS
<1>5. \/ r.how = "none" /\ r.body = <<>> /\ r.d.buf = d.buf /\ Awaits(d.buf)
      \/ r.how = "error" /\ r.body = <<>> /\ r.d = d /\ Broken(d.buf) /\ \A h, l \in Nat : ~Whole(d.buf, h, l)
      \/ \E h, l \in Nat : Taken(d.buf, h, l, r)
  BY <1>4, DecodeIs
<1>6. \/ t.how = "none" /\ t.body = <<>> /\ t.d.buf = d.buf /\ Awaits(d.buf)
      \/ t.how = "error" /\ t.body = <<>> /\ t.d = f /\ Broken(d.buf) /\ \A h, l \in Nat : ~Whole(d.buf, h, l)
      \/ \E h, l \in Nat : Taken(d.buf, h, l, t)
  <2>1. \/ t.how = "none" /\ t.body = <<>> /\ t.d.buf = f.buf /\ Awaits(f.buf)
        \/ t.how = "error" /\ t.body = <<>> /\ t.d = f /\ Broken(f.buf) /\ \A h, l \in Nat : ~Whole(f.buf, h, l)
        \/ \E h, l \in Nat : Taken(f.buf, h, l, t)
    BY <1>3, <1>4, DecodeIs
  <2> QED BY <1>3, <2>1
<1>7. r.how = t.how /\ r.body = t.body /\ r.d.buf = t.d.buf
  <2>1. \A h, l \in Nat : Whole(d.buf, h, l) => ~Awaits(d.buf)
    BY <1>2, WholeIs
  <2>3. Awaits(d.buf) => ~Broken(d.buf)
    BY <1>2, NotBoth
  <2>4. CASE Awaits(d.buf)
    BY <1>5, <1>6, <2>1, <2>3, <2>4 DEF Taken
  <2>5. CASE ~Awaits(d.buf) /\ \A h, l \in Nat : ~Whole(d.buf, h, l)
    BY <1>3, <1>5, <1>6, <2>5 DEF Taken
  <2>6. CASE ~Awaits(d.buf) /\ ~ \A h, l \in Nat : ~Whole(d.buf, h, l)
    <3>1. PICK h, l \in Nat : Taken(d.buf, h, l, r)
      BY <1>5, <2>6
    <3>2. PICK g, m \in Nat : Taken(d.buf, g, m, t)
      BY <1>6, <2>6
    <3>3. Whole(d.buf, h, l) /\ Whole(d.buf, g, m)
      BY <3>1, <3>2 DEF Taken
    <3>4. g = h /\ m = l
      BY <1>2, <3>3, WholeIs DEF Whole
    <3> QED BY <3>1, <3>2, <3>4 DEF Taken
  <2> QED BY <2>4, <2>5, <2>6
<1> QED BY <1>1, <1>3, <1>4, <1>7

-----------------------------------------------------------------------------
(* Messages in a stream.                                                   *)

\* The bytes are one message: a header that is not too long, the delimiter, and a body of JSON
\* of the length that the header announces.
Message(f, body) ==
    \E h, l \in Nat :
        /\ Whole(f, h, l) /\ h + 4 <= MaxFrameBody /\ Len(f) = h + 4 + l
        /\ body = Body(f, h, l) /\ IsJson(body)

\* Messages that end after so many bytes, and a tail that has no whole message at its beginning.
IsStream(bytes, ends, bodies) ==
    /\ ends[0] = 0
    /\ \A k \in 1..Len(bodies) :
        ends[k - 1] <= ends[k] /\ Message(SubSeq(bytes, ends[k - 1] + 1, ends[k]), bodies[k])
    /\ LET tail == SubSeq(bytes, ends[Len(bodies)] + 1, Len(bytes))
       IN  \A h, l \in Nat : Whole(tail, h, l) => ~IsJson(Body(tail, h, l))

\* The first k messages have been dispatched, and what came after them is in the buffer.
Dispatched(S, bytes, ends, bodies, reader, k, j) ==
    /\ k \in 0..Len(bodies) /\ ends[k] <= j
    /\ reader.out = SubSeq(bodies, 1, k)
    /\ reader.d \in Decoders(S) /\ Remembers(reader.d) /\ reader.d.buf = SubSeq(bytes, ends[k] + 1, j)

\* A message is found when it is there, whatever follows.
LEMMA MessageSeen ==
  ASSUME NEW S, NEW f \in Seq(S), NEW body, Message(f, body), NEW buf \in Seq(S), IsPrefix(f, buf)
  PROVE  \E h, l \in Nat : /\ Whole(buf, h, l) /\ Len(f) = h + 4 + l /\ h >= 1
                           /\ body = Body(buf, h, l) /\ IsJson(body)
<1>1. PICK h, l \in Nat : Whole(f, h, l) /\ Len(f) = h + 4 + l /\ body = Body(f, h, l) /\ IsJson(body)
  BY DEF Message
<1>2. Whole(buf, h, l) /\ body = Body(buf, h, l)
  BY <1>1, WholeStays
<1>3. h >= 1
  BY <1>1, WholeIs
<1> QED BY <1>1, <1>2, <1>3

\* As long as a part of it is missing the decoder waits.
LEMMA MessageAwaited ==
  ASSUME NEW S, NEW f \in Seq(S), NEW body, Message(f, body), NEW buf \in Seq(S), IsPrefix(buf, f),
         Len(buf) < Len(f)
  PROVE  ~Broken(buf) /\ \A h, l \in Nat : ~Whole(buf, h, l)
<1>1. PICK h, l \in Nat : Whole(f, h, l) /\ h + 4 <= MaxFrameBody /\ Len(f) = h + 4 + l
  BY DEF Message
<1>2. /\ FirstDelimiter(f, h) /\ Fits(SubSeq(f, 1, h)) = {l}
      /\ \A g, m \in Nat : FirstDelimiter(f, g) /\ m \in Fits(SubSeq(f, 1, g)) => g = h /\ m = l
  BY <1>1, WholeIs
<1>3. Len(buf) \in Nat /\ MaxFrameBody \in Nat
  BY FramingAssumption
<1>4. \A g, m \in Nat : ~Whole(buf, g, m)
  <2> SUFFICES ASSUME NEW g \in Nat, NEW m \in Nat, Whole(buf, g, m) PROVE FALSE
    OBVIOUS
  <2>1. Whole(f, g, m) /\ g + 4 + m <= Len(buf)
    BY WholeStays DEF Whole
  <2>2. g = h /\ m = l
    BY <1>2, <2>1 DEF Whole
  <2> QED BY <1>1, <1>3, <2>1, <2>2
<1>5. ~Broken(buf)
  <2>1. ASSUME Len(buf) >= MaxFrameBody, \A i \in Nat : ~Delimits(buf, i) PROVE FALSE
    <3>1. h + 4 <= Len(buf)
      BY <1>1, <1>3, <2>1
    <3>2. Delimits(buf, h)
      BY <1>2, <3>1, PrefixIs DEF FirstDelimiter
    <3> QED BY <2>1, <3>2
  <2>2. ASSUME NEW g \in Nat, FirstDelimiter(buf, g), Fits(SubSeq(buf, 1, g)) = {} PROVE FALSE
    <3>1. g + 4 <= Len(buf) /\ g \in 0..Len(buf)
      BY <1>3, <2>2 DEF FirstDelimiter, Delimits
    <3>2. FirstDelimiter(f, g) /\ SubSeq(buf, 1, g) = SubSeq(f, 1, g)
      BY <2>2, <3>1, PrefixIs
    <3>3. g = h
      BY <1>2, <3>2, FirstIsOne
    <3> QED BY <1>2, <2>2, <3>2, <3>3
  <2> QED BY <1>4, <2>1, <2>2 DEF Broken
<1> QED BY <1>4, <1>5

\* Stretches with the same beginning.
LEMMA StretchIsPrefix ==
  ASSUME NEW S, NEW q \in Seq(S), NEW i \in 0..Len(q), NEW j \in i..Len(q), NEW k \in j..Len(q)
  PROVE  /\ SubSeq(q, i + 1, j) \in Seq(S) /\ SubSeq(q, i + 1, k) \in Seq(S)
         /\ Len(SubSeq(q, i + 1, j)) = j - i /\ Len(SubSeq(q, i + 1, k)) = k - i
         /\ IsPrefix(SubSeq(q, i + 1, j), SubSeq(q, i + 1, k))
<1> DEFINE x == SubSeq(q, i + 1, j)
           y == SubSeq(q, i + 1, k)
<1>1. Len(q) \in Nat /\ i \in Nat /\ j \in Nat /\ k \in Nat /\ k \in i..Len(q) /\ i <= j /\ j <= k
  OBVIOUS
<1>2. x \in Seq(S) /\ Len(x) = j - i /\ y \in Seq(S) /\ Len(y) = k - i
  BY <1>1, StretchIs
<1>3. 0 \in 0..k - i /\ j - i \in 0..k - i /\ i + 0 = i /\ i + (j - i) = j /\ 0 + 1 = 1
  BY <1>1
<1>4. SubSeq(y, 0 + 1, j - i) = SubSeq(q, (i + 0) + 1, i + (j - i))
  BY <1>1, <1>3, StretchOfStretch
<1>5. SubSeq(y, 1, j - i) = x
  BY <1>3, <1>4
<1> HIDE DEF x, y
<1>6. SubSeq(x, 1, j - i) = x
  BY <1>2
<1>7. IsPrefix(x, y)
  BY <1>1, <1>2, <1>5, <1>6 DEF IsPrefix
<1> QED BY <1>2, <1>7 DEF x, y

\* What a pump sees of the messages after the first k, when j bytes of the stream have come and
\* those after the k messages are in the buffer.
Sees(bytes, ends, bodies, k, j, buf) ==
    /\ Len(buf) = j - ends[k] /\ ends[k] \in Nat
    /\ Broken(buf) => k = Len(bodies)
    /\ Awaits(buf) => k = Len(bodies) \/ j < ends[k + 1]
    /\ \A h, l \in Nat : Whole(buf, h, l) /\ IsJson(Body(buf, h, l)) =>
         /\ k < Len(bodies) /\ ends[k + 1] <= j /\ h >= 1 /\ ends[k + 1] = ends[k] + (h + 4 + l)
         /\ bodies[k + 1] = Body(buf, h, l)
         /\ Rest(buf, h, l) = SubSeq(bytes, ends[k + 1] + 1, j)

LEMMA BufferIs ==
  ASSUME NEW S, NEW bytes \in Seq(S), NEW bodies \in Seq(Seq(S)),
         NEW ends \in [0..Len(bodies) -> 0..Len(bytes)], IsStream(bytes, ends, bodies),
         NEW k \in 0..Len(bodies), NEW j \in ends[k]..Len(bytes)
  PROVE  /\ SubSeq(bytes, ends[k] + 1, j) \in Seq(S)
         /\ Sees(bytes, ends, bodies, k, j, SubSeq(bytes, ends[k] + 1, j))
<1>1. PICK i \in Nat : i = ends[k]
  OBVIOUS
<1>2. PICK buf : buf = SubSeq(bytes, i + 1, j)
  OBVIOUS
<1>3. Len(bytes) \in Nat /\ Len(bodies) \in Nat /\ i \in 0..Len(bytes) /\ j \in i..Len(bytes)
  BY <1>1
<1>4. buf \in Seq(S) /\ Len(buf) = j - i
  BY <1>2, <1>3, StretchIs
<1>5. CASE k = Len(bodies)
  <2>1. PICK tail : tail = SubSeq(bytes, i + 1, Len(bytes))
    OBVIOUS
  <2>2. tail \in Seq(S) /\ IsPrefix(buf, tail)
    <3>1. Len(bytes) \in j..Len(bytes)
      BY <1>3
    <3> QED BY <1>2, <1>3, <2>1, <3>1, StretchIsPrefix
  <2>3. \A h, l \in Nat : Whole(tail, h, l) => ~IsJson(Body(tail, h, l))
    BY <1>1, <1>5, <2>1 DEF IsStream
  <2>4. \A h, l \in Nat : Whole(buf, h, l) => ~IsJson(Body(buf, h, l))
    BY <1>4, <2>2, <2>3, WholeStays
  <2> QED BY <1>1, <1>2, <1>4, <1>5, <2>4 DEF Sees
<1>6. CASE k < Len(bodies)
  <2>0. k + 1 \in 1..Len(bodies) /\ k + 1 \in 0..Len(bodies) /\ (k + 1) - 1 = k
    BY <1>3, <1>6
  <2>1. PICK n \in 0..Len(bytes) : n = ends[k + 1]
    BY <2>0
  <2>2. PICK f : f = SubSeq(bytes, i + 1, n)
    OBVIOUS
  <2>3. PICK body : body = bodies[k + 1]
    OBVIOUS
  <2>4. i <= n /\ Message(f, body)
    BY <1>1, <2>0, <2>1, <2>2, <2>3 DEF IsStream
  <2>5. f \in Seq(S) /\ Len(f) = n - i
    <3>1. n \in i..Len(bytes)
      BY <1>3, <2>4
    <3> QED BY <1>3, <2>2, <3>1, StretchIs
  <2>6. CASE n <= j
    <3>1. IsPrefix(f, buf)
      <4>1. n \in i..Len(bytes) /\ j \in n..Len(bytes)
        BY <1>3, <2>4, <2>6
      <4> QED BY <1>2, <1>3, <2>2, <4>1, StretchIsPrefix
    <3>2. PICK h, l \in Nat : /\ Whole(buf, h, l) /\ Len(f) = h + 4 + l /\ h >= 1
                              /\ body = Body(buf, h, l) /\ IsJson(body)
      <4>1. f \in Seq(S) /\ buf \in Seq(S) /\ Message(f, body) /\ IsPrefix(f, buf)
        BY <1>4, <2>4, <2>5, <3>1
      <4> QED BY <4>1, MessageSeen
    <3>3. n = i + (h + 4 + l)
      BY <1>3, <2>5, <3>2
    <3>4. ~Awaits(buf) /\ ~Broken(buf) /\ \A g, m \in Nat : Whole(buf, g, m) => g = h /\ m = l
      BY <1>4, <3>2, WholeIs DEF Whole
    <3>5. Rest(buf, h, l) = SubSeq(bytes, n + 1, j)
      <4>1. h + 4 + l \in 0..j - i /\ j - i \in h + 4 + l..j - i /\ i + (j - i) = j
        BY <1>3, <2>6, <3>3
      <4>2. SubSeq(SubSeq(bytes, i + 1, j), (h + 4 + l) + 1, j - i)
              = SubSeq(bytes, (i + (h + 4 + l)) + 1, i + (j - i))
        BY <1>3, <4>1, StretchOfStretch
      <4> QED BY <1>2, <1>4, <3>3, <4>1, <4>2 DEF Rest
    <3>6. \A g, m \in Nat : Whole(buf, g, m) =>
              /\ k < Len(bodies) /\ n <= j /\ g >= 1 /\ n = i + (g + 4 + m)
              /\ body = Body(buf, g, m)
              /\ Rest(buf, g, m) = SubSeq(bytes, n + 1, j)
      BY <1>6, <2>6, <3>2, <3>3, <3>4, <3>5
    <3> QED BY <1>1, <1>2, <1>4, <2>1, <2>3, <3>4, <3>6 DEF Sees
  <2>7. CASE j < n
    <3>1. IsPrefix(buf, f)
      <4>1. n \in j..Len(bytes)
        BY <1>3, <2>4, <2>7
      <4> QED BY <1>2, <1>3, <2>2, <4>1, StretchIsPrefix
    <3>2. Len(buf) < Len(f)
      BY <1>3, <1>4, <2>5, <2>7
    <3>3. ~Broken(buf) /\ \A h, l \in Nat : ~Whole(buf, h, l)
      BY <1>4, <2>4, <2>5, <3>1, <3>2, MessageAwaited
    <3> QED BY <1>1, <1>2, <1>4, <2>1, <2>7, <3>3 DEF Sees
  <2>8. n <= j \/ j < n
    BY <1>3, <2>1
  <2> QED BY <2>6, <2>7, <2>8
<1>7. k = Len(bodies) \/ k < Len(bodies)
  BY <1>3
<1> QED BY <1>5, <1>6, <1>7

\* What a reader may be after a turn, when the first j bytes of the stream have come.
Turned(S, bytes, ends, bodies, t, k, j) ==
    /\ t = [d |-> t.d, out |-> t.out, state |-> t.state]
    /\ \/ /\ t.state = "decode" /\ k < Len(bodies) /\ ends[k] + 5 <= ends[k + 1]
          /\ Dispatched(S, bytes, ends, bodies, t, k + 1, j)
       \/ /\ t.state = "read" /\ Awaits(SubSeq(bytes, ends[k] + 1, j))
          /\ k = Len(bodies) \/ j < ends[k + 1]
          /\ Dispatched(S, bytes, ends, bodies, t, k, j)
       \/ /\ t.state = "ended" /\ Broken(SubSeq(bytes, ends[k] + 1, j)) /\ k = Len(bodies)
          /\ ends[k] <= j /\ t.out = SubSeq(bodies, 1, k)

\* One turn of the inner loop.
LEMMA TurnIs ==
  ASSUME NEW S, NEW bytes \in Seq(S), NEW bodies \in Seq(Seq(S)),
         NEW ends \in [0..Len(bodies) -> 0..Len(bytes)], IsStream(bytes, ends, bodies),
         NEW j \in 0..Len(bytes), NEW k \in Nat, NEW reader,
         reader = [d |-> reader.d, out |-> reader.out, state |-> "decode"],
         Dispatched(S, bytes, ends, bodies, reader, k, j)
  PROVE  Turned(S, bytes, ends, bodies, Turn(reader), k, j)
<1> DEFINE t == Turn(reader)
<1>1. /\ k \in 0..Len(bodies) /\ ends[k] <= j /\ Len(bytes) \in Nat /\ Len(bodies) \in Nat
      /\ reader.out = SubSeq(bodies, 1, k)
      /\ reader.d \in Decoders(S) /\ Remembers(reader.d) /\ reader.d.buf = SubSeq(bytes, ends[k] + 1, j)
  BY DEF Dispatched
<1>2. PICK buf : buf = SubSeq(bytes, ends[k] + 1, j)
  OBVIOUS
<1>3. j \in ends[k]..Len(bytes) /\ (k < Len(bodies) => k + 1 \in 0..Len(bodies))
  BY <1>1
<1>4. /\ buf \in Seq(S) /\ Len(buf) = j - ends[k] /\ ends[k] \in Nat
      /\ Broken(buf) => k = Len(bodies)
      /\ Awaits(buf) => k = Len(bodies) \/ j < ends[k + 1]
      /\ \A h, l \in Nat : Whole(buf, h, l) /\ IsJson(Body(buf, h, l)) =>
           /\ k < Len(bodies) /\ ends[k + 1] <= j /\ h >= 1 /\ ends[k + 1] = ends[k] + (h + 4 + l)
           /\ bodies[k + 1] = Body(buf, h, l)
           /\ Rest(buf, h, l) = SubSeq(bytes, ends[k + 1] + 1, j)
  <2>1. k \in 0..Len(bodies) /\ j \in ends[k]..Len(bytes)
    BY <1>1, <1>3
  <2>2. SubSeq(bytes, ends[k] + 1, j) \in Seq(S) /\ Sees(bytes, ends, bodies, k, j, SubSeq(bytes, ends[k] + 1, j))
    BY <2>1, BufferIs
  <2>3. buf \in Seq(S) /\ Sees(bytes, ends, bodies, k, j, buf)
    BY <1>2, <2>2
  <2> QED BY <2>3 DEF Sees
<1>5. PICK r : r = Decode(reader.d)
  OBVIOUS
<1>6. \/ /\ r.how = "none" /\ r.body = <<>> /\ r.d \in Decoders(S) /\ r.d.buf = buf /\ Remembers(r.d)
         /\ Awaits(buf)
      \/ r.how = "error" /\ Broken(buf)
      \/ /\ r.how = "frame"
         /\ \E h, l \in Nat :
             /\ Whole(buf, h, l) /\ IsJson(Body(buf, h, l)) /\ r.body = Body(buf, h, l)
             /\ r.d = Afresh(Rest(buf, h, l))
  <2>1. \/ /\ r.how = "none" /\ r.body = <<>> /\ r.d \in Decoders(S) /\ r.d.buf = buf /\ Remembers(r.d)
           /\ Awaits(buf)
        \/ r.how = "error" /\ Broken(buf)
        \/ \E h, l \in Nat : Taken(buf, h, l, r)
    BY <1>1, <1>2, <1>5, DecodeIs
  <2>2. ASSUME NEW h \in Nat, NEW l \in Nat, Taken(buf, h, l, r), ~IsJson(Body(buf, h, l))
        PROVE  r.how = "error" /\ Broken(buf)
    BY <2>2 DEF Taken, Broken
  <2>3. ASSUME NEW h \in Nat, NEW l \in Nat, Taken(buf, h, l, r), IsJson(Body(buf, h, l))
        PROVE  /\ r.how = "frame" /\ Whole(buf, h, l) /\ r.body = Body(buf, h, l)
               /\ r.d = Afresh(Rest(buf, h, l))
    BY <2>3 DEF Taken
  <2> QED BY <2>1, <2>2, <2>3
<1>7. t = [d |-> r.d,
           out |-> IF r.how = "frame" THEN Append(reader.out, r.body) ELSE reader.out,
           state |-> CASE r.how = "frame" -> "decode"
                       [] r.how = "none" -> "read"
                       [] r.how = "error" -> "ended"]
  <2>1. reader.state = "decode"
    OBVIOUS
  <2> QED BY <1>5, <2>1 DEF Turn
<1> HIDE DEF t
<1>8. CASE r.how = "none"
  <2>1. t = [d |-> r.d, out |-> reader.out, state |-> "read"]
    BY <1>7, <1>8
  <2>2. r.d \in Decoders(S) /\ r.d.buf = buf /\ Remembers(r.d) /\ Awaits(buf)
    BY <1>6, <1>8
  <2>3. Dispatched(S, bytes, ends, bodies, t, k, j)
    BY <1>1, <1>2, <2>1, <2>2 DEF Dispatched
  <2> QED BY <1>2, <1>4, <2>1, <2>2, <2>3 DEF t, Turned
<1>9. CASE r.how = "error"
  <2>1. t = [d |-> r.d, out |-> reader.out, state |-> "ended"]
    BY <1>7, <1>9
  <2>2. Broken(buf)
    BY <1>6, <1>9
  <2>3. t.out = SubSeq(bodies, 1, k)
    BY <1>1, <2>1
  <2> QED BY <1>1, <1>2, <1>4, <2>1, <2>2, <2>3 DEF t, Turned
<1>10. CASE r.how = "frame"
  <2>1. t = [d |-> r.d, out |-> Append(reader.out, r.body), state |-> "decode"]
    BY <1>7, <1>10
  <2>2. PICK h, l \in Nat : /\ Whole(buf, h, l) /\ IsJson(Body(buf, h, l)) /\ r.body = Body(buf, h, l)
                            /\ r.d = Afresh(Rest(buf, h, l))
    BY <1>6, <1>10
  <2>3. /\ k < Len(bodies) /\ ends[k + 1] <= j /\ h >= 1 /\ ends[k + 1] = ends[k] + (h + 4 + l)
        /\ bodies[k + 1] = r.body
        /\ r.d = Afresh(SubSeq(bytes, ends[k + 1] + 1, j))
    BY <1>4, <2>2
  <2>4. k + 1 \in 0..Len(bodies) /\ ends[k + 1] \in 0..Len(bytes)
    <3>1. k + 1 \in 0..Len(bodies)
      BY <1>3, <2>3
    <3> QED BY <3>1
  <2>5. ends[k] + 5 <= ends[k + 1]
    <3>1. ends[k] \in Nat /\ ends[k + 1] \in Nat
      BY <1>4, <2>4
    <3> QED BY <2>2, <2>3, <3>1
  <2>6. SubSeq(bytes, ends[k + 1] + 1, j) \in Seq(S)
    <3>1. j \in ends[k + 1]..Len(bytes)
      BY <2>3, <2>4
    <3> QED BY <2>4, <3>1, StretchIs
  <2>7. r.d \in Decoders(S) /\ Remembers(r.d) /\ r.d.buf = SubSeq(bytes, ends[k + 1] + 1, j)
    <3>1. PICK rest \in Seq(S) : rest = SubSeq(bytes, ends[k + 1] + 1, j)
      BY <2>6
    <3>2. r.d = [scanned |-> 0, header |-> 0, frame |-> 0, buf |-> rest]
      BY <2>3, <3>1 DEF Afresh
    <3>3. r.d \in Decoders(S) /\ r.d.buf = rest /\ r.d.scanned = 0 /\ r.d.frame = 0
      BY <3>2 DEF Decoders
    <3> QED BY <3>1, <3>3 DEF Remembers
  <2>8. Append(reader.out, r.body) = SubSeq(bodies, 1, k + 1)
    <3>1. Append(SubSeq(bodies, 1, k), bodies[k + 1]) = SubSeq(bodies, 1, k + 1)
      <4>1. k \in 0..Len(bodies) - 1
        BY <1>1, <2>3
      <4> QED BY <4>1, StretchOfOneMore
    <3> QED BY <1>1, <2>3, <3>1
  <2>9. Dispatched(S, bytes, ends, bodies, t, k + 1, j)
    BY <2>1, <2>3, <2>4, <2>7, <2>8 DEF Dispatched
  <2> QED BY <2>1, <2>3, <2>5, <2>9 DEF t, Turned
<1> QED BY <1>6, <1>8, <1>9, <1>10

\* The turns of a pump, one after the other.
LEMMA TurnsExist ==
  ASSUME NEW p, NEW n \in Nat
  PROVE  \E after : after = [k \in 0..n |-> IF k = 0 THEN p ELSE Turn(after[k - 1])]
<1> DEFINE Is(after, m) == after = [k \in 0..m |-> IF k = 0 THEN p ELSE Turn(after[k - 1])]
           missing == {m \in Nat : ~ \E after : Is(after, m)}
<1>1. ASSUME missing # {} PROVE FALSE
  <2>1. missing \in SUBSET Nat
    OBVIOUS
  <2>2. PICK m \in missing : \A i \in missing : m <= i
    <3> HIDE DEF missing
    <3> QED BY <1>1, <2>1, LeastIs
  <2>3. m \in Nat /\ ~ \E after : Is(after, m)
    OBVIOUS
  <2>4. CASE m = 0
    <3>1. PICK f : f = [k \in 0..0 |-> p]
      OBVIOUS
    <3>2. Is(f, m)
      BY <2>4, <3>1
    <3> QED BY <2>3, <3>2
  <2>5. CASE m > 0
    <3>1. m - 1 \in Nat /\ ~(m <= m - 1)
      BY <2>3, <2>5
    <3>2. PICK f : Is(f, m - 1)
      BY <2>2, <3>1
    <3>3. PICK g : g = [k \in 0..m |-> IF k = m THEN Turn(f[m - 1]) ELSE f[k]]
      OBVIOUS
    <3>4. \A k \in 0..m : g[k] = IF k = 0 THEN p ELSE Turn(g[k - 1])
      <4> SUFFICES ASSUME NEW k \in 0..m PROVE g[k] = IF k = 0 THEN p ELSE Turn(g[k - 1])
        OBVIOUS
      <4>1. \A i \in 0..m - 1 : f[i] = IF i = 0 THEN p ELSE Turn(f[i - 1])
        BY <3>2
      <4>2. CASE k = m
        <5>1. g[k] = Turn(f[m - 1]) /\ m - 1 \in 0..m /\ m - 1 # m
          BY <2>3, <2>5, <3>3, <4>2
        <5>2. g[m - 1] = f[m - 1]
          BY <3>3, <5>1
        <5> QED BY <2>5, <4>2, <5>1, <5>2
      <4>3. CASE k # m
        <5>1. k \in 0..m - 1 /\ g[k] = f[k]
          BY <2>3, <3>3, <4>3
        <5>2. CASE k = 0
          BY <4>1, <5>1, <5>2
        <5>3. CASE k # 0
          <6>1. k - 1 \in 0..m /\ k - 1 # m /\ g[k - 1] = f[k - 1]
            BY <2>3, <3>3, <4>3, <5>3
          <6> QED BY <4>1, <5>1, <5>3, <6>1
        <5> QED BY <5>2, <5>3
      <4> QED BY <4>2, <4>3
    <3>5. g = [k \in 0..m |-> g[k]]
      BY <3>3
    <3>6. Is(g, m)
      BY <3>4, <3>5
    <3> QED BY <2>3, <3>6
  <2> QED BY <2>3, <2>4, <2>5
<1>2. \E after : Is(after, n)
  BY <1>1
<1> QED BY <1>2

\* The type of a decoder.
LEMMA DecoderMade ==
  ASSUME NEW S, NEW a \in Nat, NEW b \in Nat, NEW c \in Nat, NEW buf \in Seq(S)
  PROVE  [scanned |-> a, header |-> b, frame |-> c, buf |-> buf] \in Decoders(S)
BY DEF Decoders

\* A decoder with more bytes in its buffer.
More(d, chunk) == [d EXCEPT !.buf = @ \o chunk]

\* More bytes come, and what the decoder remembers stays true.
LEMMA RemembersMore ==
  ASSUME NEW S, NEW d \in Decoders(S), Remembers(d), NEW chunk \in Seq(S)
  PROVE  /\ More(d, chunk) \in Decoders(S) /\ Remembers(More(d, chunk))
         /\ More(d, chunk).buf = d.buf \o chunk
<1>0. PICK e : e = More(d, chunk)
  OBVIOUS
<1>1. /\ d.buf \in Seq(S) /\ d.scanned \in Nat /\ d.header \in Nat /\ d.frame \in Nat
      /\ d = [scanned |-> d.scanned, header |-> d.header, frame |-> d.frame, buf |-> d.buf]
  BY DEF Decoders
<1>2. PICK buf : buf = d.buf \o chunk
  OBVIOUS
<1>3. buf \in Seq(S) /\ IsPrefix(d.buf, buf) /\ Len(d.buf) <= Len(buf) /\ Len(d.buf) \in Nat /\ Len(buf) \in Nat
  BY <1>1, <1>2, PrefixOfConcat
<1>4. e = [scanned |-> d.scanned, header |-> d.header, frame |-> d.frame, buf |-> buf]
  BY <1>0, <1>1, <1>2 DEF More
<1>5. /\ e \in Decoders(S) /\ e.buf = buf /\ e.scanned = d.scanned /\ e.frame = d.frame /\ e.header = d.header
  <2>1. /\ e.buf = buf /\ e.scanned = d.scanned /\ e.frame = d.frame /\ e.header = d.header
    BY <1>4
  <2>2. e \in Decoders(S)
    <3>1. [scanned |-> d.scanned, header |-> d.header, frame |-> d.frame, buf |-> buf] \in Decoders(S)
      BY <1>1, <1>3, DecoderMade
    <3> QED BY <1>4, <3>1, Zenon
  <2> QED BY <2>1, <2>2
<1>6. d.scanned = 0 \/ d.scanned + 3 <= Len(buf)
  BY <1>1, <1>3 DEF Remembers
<1>7. \A i \in 0..d.scanned - 1 : ~Delimits(buf, i)
  <2> SUFFICES ASSUME NEW i \in 0..d.scanned - 1 PROVE ~Delimits(buf, i)
    OBVIOUS
  <2>1. i \in Nat /\ i + 4 <= Len(d.buf) /\ ~Delimits(d.buf, i)
    BY <1>1, <1>3 DEF Remembers
  <2> QED BY <1>1, <1>3, <2>1, PrefixIs
<1>8. ASSUME d.frame # 0
      PROVE  FirstDelimiter(buf, d.header) /\ d.frame - (d.header + 4) \in Fits(SubSeq(buf, 1, d.header))
  <2>1. FirstDelimiter(d.buf, d.header) /\ d.frame - (d.header + 4) \in Fits(SubSeq(d.buf, 1, d.header))
    BY <1>8 DEF Remembers
  <2>2. d.header + 4 <= Len(d.buf) /\ d.header \in 0..Len(d.buf)
    BY <1>1, <1>3, <2>1 DEF FirstDelimiter, Delimits
  <2>3. FirstDelimiter(buf, d.header) /\ SubSeq(d.buf, 1, d.header) = SubSeq(buf, 1, d.header)
    BY <1>1, <1>3, <2>1, <2>2, PrefixIs
  <2> QED BY <2>1, <2>3
<1>9. Remembers(e)
  BY <1>5, <1>6, <1>7, <1>8 DEF Remembers
<1> QED BY <1>0, <1>2, <1>5, <1>9

\* The pump has read the first j bytes of a stream: it has dispatched the messages that are among
\* them, in their order, and waits for more, or it has ended and the messages were over.
HasRead(S, bytes, ends, bodies, reader, j) ==
    /\ reader = [d |-> reader.d, out |-> reader.out, state |-> reader.state]
    /\ \E k \in 0..Len(bodies) :
        /\ ends[k] <= j /\ (k = Len(bodies) \/ j < ends[k + 1])
        /\ reader.out = SubSeq(bodies, 1, k)
        /\ \/ /\ reader.state = "read" /\ Awaits(SubSeq(bytes, ends[k] + 1, j))
              /\ Dispatched(S, bytes, ends, bodies, reader, k, j)
           \/ /\ reader.state = "ended" /\ k = Len(bodies)
              /\ \E i \in ends[k]..j : Broken(SubSeq(bytes, ends[k] + 1, i))

\* Len \div 5 + 1 turns are enough: a message has five bytes at least.
LEMMA TurnsSuffice ==
  ASSUME NEW x \in Nat
  PROVE  x \div 5 + 1 \in Nat /\ 5 * (x \div 5 + 1) > x
<1>1. x \div 5 \in Nat /\ 5 * (x \div 5) + 5 > x
  OBVIOUS
<1> QED BY <1>1

\* The pump takes messages out, and the next one does not begin before the c-th byte.
Going(S, bytes, ends, bodies, r, j, c) ==
    /\ r = [d |-> r.d, out |-> r.out, state |-> "decode"]
    /\ \E q \in 0..Len(bodies) : Dispatched(S, bytes, ends, bodies, r, q, j) /\ c <= ends[q]

\* It is through with what has come.
Done(S, bytes, ends, bodies, r, j) == HasRead(S, bytes, ends, bodies, r, j) /\ r.state # "decode"

\* A turn takes out a message, or it is the last.
LEMMA TurnGoesOn ==
  ASSUME NEW S, NEW bytes \in Seq(S), NEW bodies \in Seq(Seq(S)),
         NEW ends \in [0..Len(bodies) -> 0..Len(bytes)], IsStream(bytes, ends, bodies),
         NEW j \in 0..Len(bytes), NEW r, NEW c \in Nat, Going(S, bytes, ends, bodies, r, j, c)
  PROVE  \/ Going(S, bytes, ends, bodies, Turn(r), j, c + 5)
         \/ Done(S, bytes, ends, bodies, Turn(r), j)
<1>1. PICK q \in 0..Len(bodies) : Dispatched(S, bytes, ends, bodies, r, q, j) /\ c <= ends[q]
  BY DEF Going
<1>2. r = [d |-> r.d, out |-> r.out, state |-> "decode"]
  BY DEF Going
<1>3. q \in Nat /\ Len(bodies) \in Nat
  OBVIOUS
<1>4. PICK t : t = Turn(r)
  OBVIOUS
<1>5. /\ t = [d |-> t.d, out |-> t.out, state |-> t.state]
      /\ \/ /\ t.state = "decode" /\ q < Len(bodies) /\ ends[q] + 5 <= ends[q + 1]
            /\ Dispatched(S, bytes, ends, bodies, t, q + 1, j)
         \/ /\ t.state = "read" /\ Awaits(SubSeq(bytes, ends[q] + 1, j))
            /\ q = Len(bodies) \/ j < ends[q + 1]
            /\ Dispatched(S, bytes, ends, bodies, t, q, j)
         \/ /\ t.state = "ended" /\ Broken(SubSeq(bytes, ends[q] + 1, j)) /\ q = Len(bodies)
            /\ ends[q] <= j /\ t.out = SubSeq(bodies, 1, q)
  <2>1. Turned(S, bytes, ends, bodies, Turn(r), q, j)
    BY <1>1, <1>2, <1>3, TurnIs
  <2> QED BY <1>4, <2>1 DEF Turned
<1>6. CASE /\ t.state = "decode" /\ q < Len(bodies) /\ ends[q] + 5 <= ends[q + 1]
           /\ Dispatched(S, bytes, ends, bodies, t, q + 1, j)
  <2>1. q + 1 \in 0..Len(bodies)
    BY <1>3, <1>6
  <2>2. ends[q] \in Nat /\ ends[q + 1] \in Nat
    <3>1. \A i \in 0..Len(bodies) : ends[i] \in 0..Len(bytes)
      OBVIOUS
    <3>2. \A x \in 0..Len(bytes) : x \in Nat
      OBVIOUS
    <3> QED BY <2>1, <3>1, <3>2
  <2>3. c + 5 <= ends[q + 1]
    BY <1>1, <1>6, <2>2
  <2>4. Going(S, bytes, ends, bodies, t, j, c + 5)
    BY <1>5, <1>6, <2>1, <2>3 DEF Going
  <2> QED BY <1>4, <2>4
<1>7. CASE /\ t.state = "read" /\ Awaits(SubSeq(bytes, ends[q] + 1, j))
           /\ q = Len(bodies) \/ j < ends[q + 1]
           /\ Dispatched(S, bytes, ends, bodies, t, q, j)
  <2>1. ends[q] <= j /\ t.out = SubSeq(bodies, 1, q)
    BY <1>7 DEF Dispatched
  <2>2. HasRead(S, bytes, ends, bodies, t, j)
    BY <1>5, <1>7, <2>1 DEF HasRead
  <2> QED BY <1>4, <1>7, <2>2 DEF Done
<1>8. CASE /\ t.state = "ended" /\ Broken(SubSeq(bytes, ends[q] + 1, j)) /\ q = Len(bodies)
           /\ ends[q] <= j /\ t.out = SubSeq(bodies, 1, q)
  <2>2. j \in ends[q]..j
    <3>1. ends[q] \in 0..Len(bytes)
      OBVIOUS
    <3> QED BY <1>8, <3>1
  <2>3. HasRead(S, bytes, ends, bodies, t, j)
    BY <1>5, <1>8, <2>2 DEF HasRead
  <2> QED BY <1>4, <1>8, <2>3 DEF Done
<1> QED BY <1>5, <1>6, <1>7, <1>8

\* The turns after a chunk take out one message after the other until there is none.
LEMMA TurnsSettle ==
  ASSUME NEW S, NEW bytes \in Seq(S), NEW bodies \in Seq(Seq(S)),
         NEW ends \in [0..Len(bodies) -> 0..Len(bytes)], IsStream(bytes, ends, bodies),
         NEW j \in 0..Len(bytes), NEW c \in Nat, NEW n \in Nat, c + 5 * n > j, NEW after,
         Going(S, bytes, ends, bodies, after[0], j, c),
         \A m \in 1..n : after[m] = Turn(after[m - 1])
  PROVE  HasRead(S, bytes, ends, bodies, after[n], j)
<1> DEFINE on(m) == Going(S, bytes, ends, bodies, after[m], j, c + 5 * m)
           done(m) == Done(S, bytes, ends, bodies, after[m], j)
           Good == {m \in 0..n : on(m) \/ done(m)}
<1>1. \A m \in 1..n : m - 1 \in Good => m \in Good
  <2> SUFFICES ASSUME NEW m \in 1..n, m - 1 \in Good PROVE m \in Good
    OBVIOUS
  <2>0. m \in Nat /\ m - 1 \in Nat /\ m - 1 \in 0..n /\ m \in 0..n
    OBVIOUS
  <2>1. (on(m - 1) \/ done(m - 1)) /\ after[m] = Turn(after[m - 1])
    OBVIOUS
  <2>2. CASE on(m - 1)
    <3>1. PICK e \in Nat : e = c + 5 * (m - 1)
      BY <2>0
    <3>2. e + 5 = c + 5 * m
      BY <2>0, <3>1
    <3>3. Going(S, bytes, ends, bodies, after[m - 1], j, e)
      BY <2>2, <3>1
    <3>4. \/ Going(S, bytes, ends, bodies, after[m], j, e + 5)
          \/ Done(S, bytes, ends, bodies, after[m], j)
      BY <2>1, <3>3, TurnGoesOn
    <3> QED BY <2>0, <3>2, <3>4
  <2>3. CASE done(m - 1)
    <3>1. after[m - 1].state # "decode"
      BY <2>3 DEF Done
    <3>2. after[m] = after[m - 1]
      BY <2>1, <3>1 DEF Turn
    <3> QED BY <2>0, <2>3, <3>2
  <2> QED BY <2>1, <2>2, <2>3
<1>2. 0 \in Good
  <2>1. c + 5 * 0 = c /\ 0 \in 0..n
    OBVIOUS
  <2> QED BY <2>1
<1>3. n \in Good
  <2> HIDE DEF Good
  <2> QED BY <1>1, <1>2, Reaches
<1>4. ~on(n)
  <2> SUFFICES ASSUME on(n) PROVE FALSE
    OBVIOUS
  <2>1. PICK q \in 0..Len(bodies) :
          Dispatched(S, bytes, ends, bodies, after[n], q, j) /\ c + 5 * n <= ends[q]
    BY DEF Going
  <2>2. ends[q] <= j
    BY <2>1 DEF Dispatched
  <2>3. PICK a, b \in Nat : a = ends[q] /\ b = c + 5 * n
    OBVIOUS
  <2> QED BY <2>1, <2>2, <2>3
<1>5. done(n)
  BY <1>3, <1>4
<1> QED BY <1>5 DEF Done

\* What AfterTurns is a fold of.
LEMMA AfterTurnsIs ==
  ASSUME NEW p, NEW n \in Nat
  PROVE  \E after : /\ after = [m \in 0..n |-> IF m = 0 THEN p ELSE Turn(after[m - 1])]
                    /\ AfterTurns(p, n) = after[n]
<1> DEFINE eqn(f) == f = [m \in 0..n |-> IF m = 0 THEN p ELSE Turn(f[m - 1])]
<1>1. AfterTurns(p, n) = (CHOOSE f : eqn(f))[n]
  BY DEF AfterTurns
<1>2. \E f : eqn(f)
  BY TurnsExist
<1>3. eqn(CHOOSE f : eqn(f))
  <2> HIDE DEF eqn
  <2> QED BY <1>2
<1> QED BY <1>1, <1>3

\* The next chunk of a stream.
LEMMA ChunkIsRead ==
  ASSUME NEW S, NEW bytes \in Seq(S), NEW bodies \in Seq(Seq(S)),
         NEW ends \in [0..Len(bodies) -> 0..Len(bytes)], IsStream(bytes, ends, bodies),
         NEW i \in 0..Len(bytes), NEW j \in i..Len(bytes), NEW reader,
         HasRead(S, bytes, ends, bodies, reader, i)
  PROVE  HasRead(S, bytes, ends, bodies, ReadChunk(reader, SubSeq(bytes, i + 1, j)), j)
<1>1. PICK chunk : chunk = SubSeq(bytes, i + 1, j)
  OBVIOUS
<1>2. /\ Len(bytes) \in Nat /\ Len(bodies) \in Nat /\ i \in Nat /\ j \in Nat /\ i <= j /\ j \in 0..Len(bytes)
  OBVIOUS
<1>3. reader = [d |-> reader.d, out |-> reader.out, state |-> reader.state]
  BY DEF HasRead
<1>4. PICK k \in 0..Len(bodies) :
        /\ ends[k] <= i /\ (k = Len(bodies) \/ i < ends[k + 1])
        /\ reader.out = SubSeq(bodies, 1, k)
        /\ \/ /\ reader.state = "read" /\ Awaits(SubSeq(bytes, ends[k] + 1, i))
              /\ Dispatched(S, bytes, ends, bodies, reader, k, i)
           \/ /\ reader.state = "ended" /\ k = Len(bodies)
              /\ \E x \in ends[k]..i : Broken(SubSeq(bytes, ends[k] + 1, x))
  BY DEF HasRead
<1>5. PICK c \in Nat : c = ends[k] /\ c \in 0..Len(bytes)
  <2>1. ends[k] \in 0..Len(bytes)
    OBVIOUS
  <2> QED BY <1>2, <2>1
<1>6. CASE reader.state = "ended"
  <2>1. ReadChunk(reader, chunk) = reader
    BY <1>6 DEF ReadChunk
  <2>2. k = Len(bodies) /\ ends[k] <= j
    BY <1>2, <1>4, <1>5, <1>6
  <2>3. PICK x \in c..i : Broken(SubSeq(bytes, ends[k] + 1, x))
    BY <1>4, <1>5, <1>6
  <2>4. x \in ends[k]..j
    BY <1>2, <1>5
  <2>5. HasRead(S, bytes, ends, bodies, reader, j)
    BY <1>3, <1>4, <1>6, <2>2, <2>3, <2>4 DEF HasRead
  <2> QED BY <1>1, <2>1, <2>5
<1>7. CASE reader.state = "read"
  <2>1. PICK d : d = reader.d
    OBVIOUS
  <2>2. /\ d \in Decoders(S) /\ Remembers(d) /\ d.buf = SubSeq(bytes, c + 1, i)
        /\ c <= i /\ reader.out = SubSeq(bodies, 1, k)
    BY <1>4, <1>5, <1>7, <2>1 DEF Dispatched
  <2>3. PICK e : e = More(d, chunk)
    OBVIOUS
  <2>4. chunk \in Seq(S) /\ d.buf \o chunk = SubSeq(bytes, c + 1, j) /\ Len(SubSeq(bytes, c + 1, j)) = j - c
    <3>1. i \in c..Len(bytes) /\ j \in c..Len(bytes) /\ c \in 0..Len(bytes)
      BY <1>2, <1>5, <2>2
    <3>2. chunk \in Seq(S)
      BY <1>1, StretchIs
    <3>3. SubSeq(bytes, c + 1, i) \o SubSeq(bytes, i + 1, j) = SubSeq(bytes, c + 1, j)
      BY <3>1, StretchesJoin
    <3>4. Len(SubSeq(bytes, c + 1, j)) = j - c
      BY <3>1, StretchIs
    <3> QED BY <1>1, <2>2, <3>2, <3>3, <3>4
  <2>5. e \in Decoders(S) /\ Remembers(e) /\ e.buf = SubSeq(bytes, c + 1, j)
    <3>1. e \in Decoders(S) /\ Remembers(e) /\ e.buf = d.buf \o chunk
      <4>1. d \in Decoders(S) /\ Remembers(d) /\ chunk \in Seq(S)
        BY <2>2, <2>4
      <4> QED BY <2>3, <4>1, RemembersMore
    <3> QED BY <2>4, <3>1
  <2>6. PICK p : p = [d |-> e, out |-> reader.out, state |-> "decode"]
    OBVIOUS
  <2>7. p.d = e /\ p.out = reader.out /\ p.state = "decode" /\ p = [d |-> p.d, out |-> p.out, state |-> "decode"]
    BY <2>6
  <2>8. ends[k] <= j
    BY <1>2, <1>5, <2>2
  <2>9. Dispatched(S, bytes, ends, bodies, p, k, j)
    BY <1>5, <2>2, <2>5, <2>7, <2>8 DEF Dispatched
  <2>10. PICK x, n : x = Len(e.buf) /\ n = x \div 5 + 1
    OBVIOUS
  <2>11. x \in Nat /\ x = j - c
    <3>1. x = j - c
      BY <2>4, <2>5, <2>10
    <3> QED BY <1>2, <1>5, <2>8, <3>1
  <2>12. n \in Nat /\ c + 5 * n > j
    <3>1. n \in Nat /\ 5 * n > x
      BY <2>10, <2>11, TurnsSuffice
    <3> QED BY <1>2, <2>11, <3>1
  <2>13. ReadChunk(reader, chunk) = AfterTurns(p, n)
    <3>1. reader.state # "ended"
      BY <1>7
    <3>2. ReadChunk(reader, chunk) = AfterTurns([d |-> e, out |-> reader.out, state |-> "decode"], Len(e.buf) \div 5 + 1)
      BY <2>1, <2>3, <3>1 DEF ReadChunk, More
    <3> QED BY <2>6, <2>10, <3>2
  <2>14. PICK after : /\ after = [m \in 0..n |-> IF m = 0 THEN p ELSE Turn(after[m - 1])]
                      /\ AfterTurns(p, n) = after[n]
    BY <2>12, AfterTurnsIs
  <2>15. after[0] = p /\ \A m \in 1..n : after[m] = Turn(after[m - 1])
    BY <2>12, <2>14
  <2>16. Going(S, bytes, ends, bodies, p, j, c)
    BY <1>2, <1>5, <2>7, <2>9 DEF Going
  <2>17. HasRead(S, bytes, ends, bodies, after[n], j)
    BY <1>2, <2>12, <2>15, <2>16, TurnsSettle
  <2> QED BY <1>1, <2>13, <2>14, <2>17
<1> QED BY <1>4, <1>6, <1>7

\* At the beginning nothing has been read.
LEMMA BegunHasRead ==
  ASSUME NEW S, NEW bytes \in Seq(S), NEW bodies \in Seq(Seq(S)),
         NEW ends \in [0..Len(bodies) -> 0..Len(bytes)], IsStream(bytes, ends, bodies)
  PROVE  HasRead(S, bytes, ends, bodies, Begun, 0)
<1>1. Len(bodies) \in Nat /\ Len(bytes) \in Nat /\ ends[0] = 0 /\ 0 \in 0..Len(bodies)
  BY DEF IsStream
<1>2. PICK e : e = SubSeq(bytes, 0 + 1, 0)
  OBVIOUS
<1>3. e = <<>> /\ e \in Seq(S) /\ Len(e) = 0
  BY <1>1, <1>2
<1>4. \A i \in Nat : ~Delimits(e, i)
  BY <1>3 DEF Delimits
<1>5. Awaits(e)
  BY <1>3, <1>4, FramingAssumption DEF Awaits
<1>6. /\ Begun = [d |-> Begun.d, out |-> Begun.out, state |-> Begun.state]
      /\ Begun.d = Afresh(<<>>) /\ Begun.out = <<>> /\ Begun.state = "read"
  BY DEF Begun, Fresh, Afresh
<1>7. Begun.d \in Decoders(S) /\ Begun.d.buf = e /\ Begun.d.scanned = 0 /\ Begun.d.frame = 0
  <2>1. <<>> \in Seq(S)
    OBVIOUS
  <2>2. Afresh(<<>>) \in Decoders(S)
    BY <2>1, DecoderMade DEF Afresh
  <2>3. Afresh(<<>>).buf = <<>> /\ Afresh(<<>>).scanned = 0 /\ Afresh(<<>>).frame = 0
    BY DEF Afresh
  <2> QED BY <1>3, <1>6, <2>2, <2>3
<1>8. Remembers(Begun.d)
  BY <1>7 DEF Remembers
<1>9. Begun.out = SubSeq(bodies, 1, 0)
  BY <1>6
<1>10. Dispatched(S, bytes, ends, bodies, Begun, 0, 0)
  BY <1>1, <1>2, <1>7, <1>8, <1>9 DEF Dispatched
<1>11. 0 = Len(bodies) \/ 0 < ends[0 + 1]
  <2>1. SUFFICES ASSUME Len(bodies) # 0 PROVE 0 < ends[1]
    OBVIOUS
  <2>2. 1 \in 1..Len(bodies) /\ 1 \in 0..Len(bodies) /\ 1 - 1 = 0
    BY <1>1, <2>1
  <2>3. PICK f : f = SubSeq(bytes, 0 + 1, ends[1])
    OBVIOUS
  <2>4. Message(f, bodies[1])
    BY <1>1, <2>2, <2>3 DEF IsStream
  <2>5. PICK n \in 0..Len(bytes) : n = ends[1]
    BY <2>2
  <2>6. Len(f) = n
    BY <1>1, <2>3, <2>5
  <2>7. PICK h, l \in Nat : Len(f) = h + 4 + l
    BY <2>4 DEF Message
  <2>8. n > 0
    BY <2>6, <2>7
  <2> QED BY <2>5, <2>8
<1>12. Awaits(SubSeq(bytes, ends[0] + 1, 0)) /\ ends[0] <= 0
  BY <1>1, <1>2, <1>5
<1>13. Begun = [d |-> Begun.d, out |-> Begun.out, state |-> Begun.state]
  BY <1>6
<1> QED BY <1>1, <1>6, <1>9, <1>10, <1>11, <1>12, <1>13, Zenon DEF HasRead

\* Whatever the chunks in which a stream of messages arrives, the pump that reads them has
\* dispatched the messages that have arrived, each once and in their order, and nothing else;
\* it ends when what comes after them is no message, be it for its header or for its body, and
\* only then (framing.rs:141-189, transport/stdio.rs:395-423).
THEOREM MessagesAreWhole ==
  ASSUME NEW S, NEW bytes \in Seq(S), NEW bodies \in Seq(Seq(S)),
         NEW ends \in [0..Len(bodies) -> 0..Len(bytes)], IsStream(bytes, ends, bodies),
         NEW n \in Nat, NEW cuts \in [0..n -> 0..Len(bytes)],
         cuts[0] = 0, \A m \in 1..n : cuts[m - 1] <= cuts[m],
         NEW readers, readers[0] = Begun,
         \A m \in 1..n : readers[m] = ReadChunk(readers[m - 1], SubSeq(bytes, cuts[m - 1] + 1, cuts[m]))
  PROVE  HasRead(S, bytes, ends, bodies, readers[n], cuts[n])
<1> DEFINE Good == {m \in 0..n : HasRead(S, bytes, ends, bodies, readers[m], cuts[m])}
<1>1. 0 \in Good
  BY BegunHasRead
<1>2. \A m \in 1..n : m - 1 \in Good => m \in Good
  <2> SUFFICES ASSUME NEW m \in 1..n, m - 1 \in Good PROVE m \in Good
    OBVIOUS
  <2>1. m - 1 \in 0..n /\ m \in 0..n
    OBVIOUS
  <2>2. PICK i, j : i = cuts[m - 1] /\ j = cuts[m]
    OBVIOUS
  <2>3. i \in 0..Len(bytes) /\ j \in i..Len(bytes)
    BY <2>1, <2>2
  <2>4. HasRead(S, bytes, ends, bodies, readers[m - 1], i)
    BY <2>2
  <2>5. readers[m] = ReadChunk(readers[m - 1], SubSeq(bytes, i + 1, j))
    BY <2>2
  <2>6. HasRead(S, bytes, ends, bodies, readers[m], j)
    BY <2>3, <2>4, <2>5, ChunkIsRead
  <2> QED BY <2>1, <2>2, <2>6
<1> HIDE DEF Good
<1>3. n \in Good
  BY <1>1, <1>2, Reaches
<1> QED BY <1>3 DEF Good

-----------------------------------------------------------------------------
(* The streams of FramesAreWhole are such streams.                         *)

Chars == {"r", "n", "x", "open", "shut", "bad", "l0", "l2", "l3", "l6", "big"}

\* A delimiter byte by byte.
LEMMA DelimitsIs ==
  ASSUME NEW S, NEW q \in Seq(S), NEW i \in Nat
  PROVE  Delimits(q, i) <=>
           i + 4 <= Len(q) /\ q[i + 1] = "r" /\ q[i + 2] = "n" /\ q[i + 3] = "r" /\ q[i + 4] = "n"
<1>1. CASE i + 4 <= Len(q)
  <2>1. i \in 0..Len(q) /\ i + 4 \in i..Len(q) /\ (i + 4) - i = 4
    BY <1>1
  <2>2. PICK s : s = SubSeq(q, i + 1, i + 4)
    OBVIOUS
  <2>3. s \in Seq(S) /\ Len(s) = 4 /\ \A l \in 1..4 : s[l] = q[i + l]
    BY <2>1, <2>2, StretchIs
  <2>4. s[1] = q[i + 1] /\ s[2] = q[i + 2] /\ s[3] = q[i + 3] /\ s[4] = q[i + 4]
    BY <2>3
  <2>5. PICK d : d = <<"r", "n", "r", "n">>
    OBVIOUS
  <2>6. Len(d) = 4 /\ d[1] = "r" /\ d[2] = "n" /\ d[3] = "r" /\ d[4] = "n" /\ d \in Seq({"r", "n"})
    BY <2>5
  <2>7. (\A l \in 1..4 : s[l] = d[l]) => s = d
    <3>1. PICK T : T = S \cup {"r", "n"}
      OBVIOUS
    <3>2. S \subseteq T /\ {"r", "n"} \subseteq T
      BY <3>1
    <3>3. s \in Seq(T) /\ d \in Seq(T)
      BY <2>3, <2>6, <3>2
    <3>4. Len(s) = Len(d) /\ 1..Len(s) = 1..4
      BY <2>3, <2>6
    <3> QED BY <3>3, <3>4, SameElements
  <2>8. s[1] = "r" /\ s[2] = "n" /\ s[3] = "r" /\ s[4] = "n" => \A l \in 1..4 : s[l] = d[l]
    BY <2>6
  <2>9. s = d <=> s[1] = "r" /\ s[2] = "n" /\ s[3] = "r" /\ s[4] = "n"
    BY <2>6, <2>7, <2>8
  <2> QED BY <1>1, <2>2, <2>4, <2>5, <2>9 DEF Delimits, Delimiter
<1>2. CASE ~(i + 4 <= Len(q))
  BY <1>2 DEF Delimits
<1> QED BY <1>1, <1>2

\* The last length in a header counts.
LEMMA LastCounts ==
  ASSUME NEW S, NEW header \in Seq(S), NEW i \in 1..Len(header), header[i] \in Lengths,
         \A j \in i + 1..Len(header) : header[j] \notin Lengths,
         \A j \in 1..Len(header) : header[j] # "bad"
  PROVE  Fits(header) = {l \in {ContentLength[header[i]]} : l <= MaxFrameBody}
<1> DEFINE lines == {j \in 1..Len(header) : header[j] \in Lengths}
           last == {j \in lines : (\A k \in lines : k <= j) /\ \A k \in 1..Len(header) : header[k] # "bad"}
<1>1. Len(header) \in Nat /\ i \in Nat
  OBVIOUS
<1>2. \A j \in lines : j <= i
  BY <1>1
<1>3. last = {i}
  BY <1>1, <1>2
<1>4. Parsed(header) = {ContentLength[header[j]] : j \in last}
  BY DEF Parsed
<1> HIDE DEF last
<1>5. Parsed(header) = {ContentLength[header[i]]}
  BY <1>3, <1>4
<1> QED BY <1>5 DEF Fits

\* Without a length there is none, nor with one that is no number.
LEMMA NoneCounts ==
  ASSUME NEW S, NEW header \in Seq(S),
         \/ \A j \in 1..Len(header) : header[j] \notin Lengths
         \/ \E j \in 1..Len(header) : header[j] = "bad"
  PROVE  Fits(header) = {}
<1> DEFINE lines == {j \in 1..Len(header) : header[j] \in Lengths}
           last == {j \in lines : (\A k \in lines : k <= j) /\ \A k \in 1..Len(header) : header[k] # "bad"}
<1>1. Parsed(header) = {ContentLength[header[j]] : j \in last}
  BY DEF Parsed
<1>2. last = {}
  OBVIOUS
<1> HIDE DEF last
<1>3. Parsed(header) = {}
  BY <1>1, <1>2
<1> QED BY <1>3 DEF Fits

\* The lengths that a header line may announce.
LEMMA LengthsAre ==
  /\ Lengths = {"l0", "l2", "l3", "l6", "big"}
  /\ ContentLength["l0"] = 0 /\ ContentLength["l2"] = 2 /\ ContentLength["l3"] = 3
  /\ ContentLength["l6"] = 6 /\ ContentLength["big"] = MaxFrameBody + 1
BY DEF Lengths, ContentLength

\* A header that announces the length l.
Announces(header, l) ==
    /\ Len(header) + 4 <= MaxFrameBody /\ Fits(header) = {l}
    /\ FirstDelimiter(header \o Delimiter, Len(header))

\* Such a header, the delimiter and a body of that length are a message when the body is JSON,
\* and break the stream when it is not.
LEMMA HeaderMakesMessage ==
  ASSUME NEW S, NEW header \in Seq(S), NEW body \in Seq(S), Delimiter \in Seq(S), Announces(header, Len(body))
  PROVE  /\ header \o Delimiter \o body \in Seq(S)
         /\ IF IsJson(body) THEN Message(header \o Delimiter \o body, body)
            ELSE Broken(header \o Delimiter \o body)
<1>1. PICK h, l \in Nat : h = Len(header) /\ l = Len(body)
  OBVIOUS
<1>2. PICK p : p = header \o Delimiter
  OBVIOUS
<1>3. Len(Delimiter) = 4
  BY DEF Delimiter
<1>4. p \in Seq(S) /\ Len(p) = h + 4 /\ SubSeq(p, 1, h) = header
  <2>1. /\ header \o Delimiter \in Seq(S) /\ Len(header \o Delimiter) = Len(header) + Len(Delimiter)
        /\ SubSeq(header \o Delimiter, 1, Len(header)) = header
    BY PartsOfConcat
  <2> QED BY <1>1, <1>2, <1>3, <2>1
<1>5. PICK q : q = p \o body
  OBVIOUS
<1>6. /\ q \in Seq(S) /\ Len(q) = h + 4 + l /\ SubSeq(q, h + 4 + 1, h + 4 + l) = body
      /\ \A j \in 0..h + 4 : SubSeq(q, 1, j) = SubSeq(p, 1, j)
  <2>1. p \in Seq(S)
    BY <1>4
  <2>2. /\ p \o body \in Seq(S) /\ Len(p \o body) = Len(p) + Len(body)
        /\ SubSeq(p \o body, Len(p) + 1, Len(p) + Len(body)) = body
        /\ \A j \in 0..Len(p) : SubSeq(p \o body, 1, j) = SubSeq(p, 1, j)
    BY <2>1, PartsOfConcat
  <2>3. Len(p) = h + 4 /\ Len(body) = l
    BY <1>1, <1>4
  <2> QED BY <1>5, <2>2, <2>3
<1>7. IsPrefix(p, q)
  BY <1>1, <1>4, <1>5, PrefixOfConcat
<1>8. FirstDelimiter(p, h)
  BY <1>1, <1>2 DEF Announces
<1>9. FirstDelimiter(q, h)
  <2>1. h + 4 <= Len(p)
    BY <1>1, <1>4
  <2> QED BY <1>1, <1>4, <1>6, <1>7, <1>8, <2>1, PrefixIs
<1>10. SubSeq(q, 1, h) = header
  BY <1>1, <1>4, <1>6
<1>11. Fits(header) = {l} /\ h + 4 <= MaxFrameBody
  BY <1>1 DEF Announces
<1>12. Whole(q, h, l)
  <2>1. l \in Fits(SubSeq(q, 1, h))
    BY <1>10, <1>11
  <2> QED BY <1>6, <1>9, <2>1 DEF Whole
<1>13. body = Body(q, h, l)
  <2>1. h + 4 + 1 = h + 5
    BY <1>1
  <2> QED BY <1>6, <2>1 DEF Body
<1>14. IF IsJson(body) THEN Message(q, body) ELSE Broken(q)
  <2>1. CASE IsJson(body)
    BY <1>1, <1>6, <1>11, <1>12, <1>13, <2>1 DEF Message
  <2>2. CASE ~IsJson(body)
    BY <1>1, <1>12, <1>13, <2>2 DEF Broken
  <2> QED BY <2>1, <2>2
<1>15. q = header \o Delimiter \o body
  BY <1>2, <1>5
<1> QED BY <1>6, <1>14, <1>15

-----------------------------------------------------------------------------
LEMMA DelimiterIs ==
  Delimiter \in Seq(Chars) /\ Len(Delimiter) = 4
  /\ Delimiter[1] = "r" /\ Delimiter[2] = "n" /\ Delimiter[3] = "r" /\ Delimiter[4] = "n"
BY DEF Delimiter, Chars

\* A header before the delimiter.
LEMMA HeaderFirst ==
  ASSUME NEW header \in Seq(Chars)
  PROVE  /\ header \o Delimiter \in Seq(Chars) /\ Len(header \o Delimiter) = Len(header) + 4
         /\ SubSeq(header \o Delimiter, Len(header) + 1, Len(header) + 4) = Delimiter
         /\ \A k \in 1..Len(header) : (header \o Delimiter)[k] = header[k]
<1>1. Delimiter \in Seq(Chars) /\ Len(Delimiter) = 4
  BY DelimiterIs
<1>2. /\ header \o Delimiter \in Seq(Chars) /\ Len(header \o Delimiter) = Len(header) + Len(Delimiter)
      /\ SubSeq(header \o Delimiter, Len(header) + 1, Len(header) + Len(Delimiter)) = Delimiter
  <2>1. Delimiter \in Seq(Chars)
    BY <1>1
  <2> QED BY <2>1, PartsOfConcat
<1>3. \A k \in 1..Len(header) : (header \o Delimiter)[k] = header[k]
  BY <1>1, ElementOfConcat
<1> QED BY <1>1, <1>2, <1>3

\* No delimiter begins within the header: it differs from one there.
Differs(header) ==
    \A i \in 0..Len(header) - 1 : \E k \in 1..4 : i + k <= Len(header) /\ header[i + k] # Delimiter[k]

\* The delimiter after such a header is the first one.
LEMMA HeaderDelimited ==
  ASSUME NEW header \in Seq(Chars), Differs(header)
  PROVE  FirstDelimiter(header \o Delimiter, Len(header))
<1>1. PICK h \in Nat : h = Len(header)
  OBVIOUS
<1>2. PICK p : p = header \o Delimiter
  OBVIOUS
<1>3. /\ p \in Seq(Chars) /\ Len(p) = h + 4 /\ SubSeq(p, h + 1, h + 4) = Delimiter
      /\ \A k \in 1..h : p[k] = header[k]
  BY <1>1, <1>2, HeaderFirst
<1>4. Delimits(p, h)
  BY <1>3 DEF Delimits
<1>5. \A i \in 0..h - 1 : ~Delimits(p, i)
  <2> SUFFICES ASSUME NEW i \in 0..h - 1, Delimits(p, i) PROVE FALSE
    OBVIOUS
  <2>1. PICK k \in 1..4 : i + k <= h /\ header[i + k] # Delimiter[k]
    BY <1>1 DEF Differs
  <2>2. i + k \in 1..h
    BY <2>1
  <2>3. p[i + k] # Delimiter[k]
    BY <1>3, <2>1, <2>2
  <2>4. p[i + 1] = "r" /\ p[i + 2] = "n" /\ p[i + 3] = "r" /\ p[i + 4] = "n"
    BY <1>3, DelimitsIs
  <2>5. k = 1 \/ k = 2 \/ k = 3 \/ k = 4
    OBVIOUS
  <2> QED BY <2>3, <2>4, <2>5, DelimiterIs
<1>6. FirstDelimiter(p, h)
  BY <1>4, <1>5 DEF FirstDelimiter
<1> QED BY <1>1, <1>2, <1>6

LEMMA AnnouncesIs ==
  ASSUME NEW header \in Seq(Chars), Len(header) + 4 <= MaxFrameBody, NEW l, Fits(header) = {l}, Differs(header)
  PROVE  Announces(header, l)
BY HeaderDelimited DEF Announces

\* The three headers of Frame.
LEMMA PlainAnnounces ==
  ASSUME MaxFrameBody >= 11, NEW l \in {"l0", "l2", "l3", "l6"}
  PROVE  <<l>> \in Seq(Chars) /\ Announces(<<l>>, ContentLength[l])
<1>1. PICK header : header = <<l>>
  OBVIOUS
<1>2. header \in Seq(Chars) /\ Len(header) = 1 /\ header[1] = l
  BY <1>1 DEF Chars
<1>3. MaxFrameBody \in Nat /\ l \in Lengths /\ ContentLength[l] <= MaxFrameBody
  BY FramingAssumption, LengthsAre
<1>4. Fits(header) = {n \in {ContentLength[header[1]]} : n <= MaxFrameBody}
  <2>1. 1 \in 1..Len(header) /\ header[1] \in Lengths /\ \A j \in 1 + 1..Len(header) : header[j] \notin Lengths
    BY <1>2, <1>3
  <2>2. \A j \in 1..Len(header) : header[j] # "bad"
    BY <1>2
  <2> QED BY <1>2, <2>1, <2>2, LastCounts
<1>5. Fits(header) = {ContentLength[l]}
  BY <1>2, <1>3, <1>4
<1>6. Differs(header)
  <2>1. 1 \in 1..4 /\ 0 + 1 <= Len(header) /\ header[0 + 1] # Delimiter[1]
    BY <1>2, DelimiterIs
  <2>2. \A i \in 0..Len(header) - 1 : i = 0
    BY <1>2
  <2> QED BY <2>1, <2>2 DEF Differs
<1>7. Len(header) + 4 <= MaxFrameBody
  BY <1>2, <1>3
<1> QED BY <1>1, <1>2, <1>5, <1>6, <1>7, AnnouncesIs

LEMMA TypedAnnounces ==
  ASSUME MaxFrameBody >= 11, NEW l \in {"l0", "l2", "l3", "l6"}
  PROVE  <<"x", "r", "n", l>> \in Seq(Chars) /\ Announces(<<"x", "r", "n", l>>, ContentLength[l])
<1>1. PICK header : header = <<"x", "r", "n", l>>
  OBVIOUS
<1>2. /\ header \in Seq(Chars) /\ Len(header) = 4
      /\ header[1] = "x" /\ header[2] = "r" /\ header[3] = "n" /\ header[4] = l
  BY <1>1 DEF Chars
<1>3. MaxFrameBody \in Nat /\ l \in Lengths /\ ContentLength[l] <= MaxFrameBody
  BY FramingAssumption, LengthsAre
<1>4. Fits(header) = {n \in {ContentLength[header[4]]} : n <= MaxFrameBody}
  <2>1. 4 \in 1..Len(header) /\ header[4] \in Lengths /\ \A j \in 4 + 1..Len(header) : header[j] \notin Lengths
    BY <1>2, <1>3
  <2>2. \A j \in 1..Len(header) : j = 1 \/ j = 2 \/ j = 3 \/ j = 4
    BY <1>2
  <2>3. \A j \in 1..Len(header) : header[j] # "bad"
    BY <1>2, <2>2
  <2> QED BY <1>2, <2>1, <2>3, LastCounts
<1>5. Fits(header) = {ContentLength[l]}
  BY <1>2, <1>3, <1>4
<1>6. Differs(header)
  <2>1. header[0 + 1] # Delimiter[1] /\ header[1 + 3] # Delimiter[3] /\ header[2 + 1] # Delimiter[1]
        /\ header[3 + 1] # Delimiter[1]
    BY <1>2, DelimiterIs
  <2>2. \A i \in 0..Len(header) - 1 : i = 0 \/ i = 1 \/ i = 2 \/ i = 3
    BY <1>2
  <2> QED BY <1>2, <2>1, <2>2 DEF Differs
<1>7. Len(header) + 4 <= MaxFrameBody
  BY <1>2, <1>3
<1> QED BY <1>1, <1>2, <1>5, <1>6, <1>7, AnnouncesIs

LEMMA TwiceAnnounces ==
  ASSUME MaxFrameBody >= 11, NEW l \in {"l0", "l2", "l3", "l6"}
  PROVE  /\ <<"l2", "r", "n", l, "r", "n", "x">> \in Seq(Chars)
         /\ Announces(<<"l2", "r", "n", l, "r", "n", "x">>, ContentLength[l])
<1>1. PICK header : header = <<"l2", "r", "n", l, "r", "n", "x">>
  OBVIOUS
<1>2. /\ header \in Seq(Chars) /\ Len(header) = 7
      /\ header[1] = "l2" /\ header[2] = "r" /\ header[3] = "n" /\ header[4] = l
      /\ header[5] = "r" /\ header[6] = "n" /\ header[7] = "x"
  BY <1>1 DEF Chars
<1>3. MaxFrameBody \in Nat /\ l \in Lengths /\ ContentLength[l] <= MaxFrameBody
  BY FramingAssumption, LengthsAre
<1>4. Fits(header) = {n \in {ContentLength[header[4]]} : n <= MaxFrameBody}
  <2>1. 4 \in 1..Len(header) /\ header[4] \in Lengths
    BY <1>2, <1>3
  <2>2. \A j \in 4 + 1..Len(header) : j = 5 \/ j = 6 \/ j = 7
    BY <1>2
  <2>3. \A j \in 4 + 1..Len(header) : header[j] \notin Lengths
    BY <1>2, <2>2, LengthsAre
  <2>4. \A j \in 1..Len(header) : j = 1 \/ j = 2 \/ j = 3 \/ j = 4 \/ j = 5 \/ j = 6 \/ j = 7
    BY <1>2
  <2>5. \A j \in 1..Len(header) : header[j] # "bad"
    BY <1>2, <2>4
  <2> QED BY <1>2, <2>1, <2>3, <2>5, LastCounts
<1>5. Fits(header) = {ContentLength[l]}
  BY <1>2, <1>3, <1>4
<1>6. Differs(header)
  <2>1. /\ header[0 + 1] # Delimiter[1] /\ header[1 + 3] # Delimiter[3] /\ header[2 + 1] # Delimiter[1]
        /\ header[3 + 1] # Delimiter[1] /\ header[4 + 3] # Delimiter[3] /\ header[5 + 1] # Delimiter[1]
        /\ header[6 + 1] # Delimiter[1]
    BY <1>2, DelimiterIs
  <2>2. \A i \in 0..Len(header) - 1 : i = 0 \/ i = 1 \/ i = 2 \/ i = 3 \/ i = 4 \/ i = 5 \/ i = 6
    BY <1>2
  <2> QED BY <1>2, <2>1, <2>2 DEF Differs
<1>7. Len(header) + 4 <= MaxFrameBody
  BY <1>2, <1>3
<1> QED BY <1>1, <1>2, <1>5, <1>6, <1>7, AnnouncesIs

\* The messages of Frames.
LEMMA FramesAre ==
  ASSUME MaxFrameBody >= 11, NEW f \in Frames({"plain", "typed", "twice"})
  PROVE  f.bytes \in Seq(Chars) /\ f.body \in Seq(Chars) /\ Message(f.bytes, f.body)
<1>1. PICK l \in {"l2", "l3", "l6"}, s \in {"plain", "typed", "twice"} :
        f = [body |-> Bodies[l], bytes |-> Frame(Bodies[l], l, s)]
  BY DEF Frames, Bodies
<1>2. PICK b : b = Bodies[l]
  OBVIOUS
<1>3. b \in Seq(Chars) /\ Len(b) = ContentLength[l] /\ IsJson(b) /\ l \in {"l0", "l2", "l3", "l6"}
  <2>1. CASE l = "l2"
    <3>1. b = <<"open", "shut">>
      BY <1>2, <2>1 DEF Bodies
    <3>2. b \in Seq(Chars) /\ Len(b) = 2 /\ b[1] = "open" /\ b[2] = "shut"
      BY <3>1 DEF Chars
    <3> QED BY <2>1, <3>2, LengthsAre DEF IsJson
  <2>2. CASE l = "l3"
    <3>1. b = <<"open", "l2", "shut">>
      BY <1>2, <2>2 DEF Bodies
    <3>2. b \in Seq(Chars) /\ Len(b) = 3 /\ b[1] = "open" /\ b[3] = "shut"
      BY <3>1 DEF Chars
    <3> QED BY <2>2, <3>2, LengthsAre DEF IsJson
  <2>3. CASE l = "l6"
    <3>1. b = <<"open", "r", "n", "r", "n", "shut">>
      BY <1>2, <2>3 DEF Bodies
    <3>2. b \in Seq(Chars) /\ Len(b) = 6 /\ b[1] = "open" /\ b[6] = "shut"
      BY <3>1 DEF Chars
    <3> QED BY <2>3, <3>2, LengthsAre DEF IsJson
  <2> QED BY <2>1, <2>2, <2>3
<1>4. f.body = b /\ f.bytes = Frame(b, l, s)
  BY <1>1, <1>2
<1>5. Delimiter \in Seq(Chars)
  BY DelimiterIs
<1>6. CASE s = "plain"
  <2>1. Frame(b, l, s) = <<l>> \o Delimiter \o b
    BY <1>6 DEF Frame
  <2>2. PICK header : header = <<l>>
    OBVIOUS
  <2>3. header \in Seq(Chars) /\ Announces(header, Len(b))
    BY <1>3, <2>2, PlainAnnounces
  <2>4. header \o Delimiter \o b \in Seq(Chars) /\ Message(header \o Delimiter \o b, b)
    BY <1>3, <1>5, <2>3, HeaderMakesMessage
  <2> QED BY <1>3, <1>4, <2>1, <2>2, <2>4
<1>7. CASE s = "typed"
  <2>1. Frame(b, l, s) = <<"x", "r", "n", l>> \o Delimiter \o b
    BY <1>7 DEF Frame
  <2>2. PICK header : header = <<"x", "r", "n", l>>
    OBVIOUS
  <2>3. header \in Seq(Chars) /\ Announces(header, Len(b))
    BY <1>3, <2>2, TypedAnnounces
  <2>4. header \o Delimiter \o b \in Seq(Chars) /\ Message(header \o Delimiter \o b, b)
    BY <1>3, <1>5, <2>3, HeaderMakesMessage
  <2> QED BY <1>3, <1>4, <2>1, <2>2, <2>4
<1>8. CASE s = "twice"
  <2>1. Frame(b, l, s) = <<"l2", "r", "n", l, "r", "n", "x">> \o Delimiter \o b
    BY <1>8 DEF Frame
  <2>2. PICK header : header = <<"l2", "r", "n", l, "r", "n", "x">>
    OBVIOUS
  <2>3. header \in Seq(Chars) /\ Announces(header, Len(b))
    BY <1>3, <2>2, TwiceAnnounces
  <2>4. header \o Delimiter \o b \in Seq(Chars) /\ Message(header \o Delimiter \o b, b)
    BY <1>3, <1>5, <2>3, HeaderMakesMessage
  <2> QED BY <1>3, <1>4, <2>1, <2>2, <2>4
<1> QED BY <1>6, <1>7, <1>8

-----------------------------------------------------------------------------
\* A header without a length that fits breaks the stream.
LEMMA HeaderBreaks ==
  ASSUME NEW header \in Seq(Chars), Differs(header), Fits(header) = {}
  PROVE  header \o Delimiter \in Seq(Chars) /\ Broken(header \o Delimiter)
<1>1. PICK h \in Nat : h = Len(header)
  OBVIOUS
<1>2. PICK p : p = header \o Delimiter
  OBVIOUS
<1>3. p \in Seq(Chars) /\ SubSeq(p, 1, h) = header
  <2>1. Delimiter \in Seq(Chars)
    BY DelimiterIs
  <2>2. header \o Delimiter \in Seq(Chars) /\ SubSeq(header \o Delimiter, 1, Len(header)) = header
    BY <2>1, PartsOfConcat
  <2> QED BY <1>1, <1>2, <2>2
<1>4. FirstDelimiter(p, h)
  BY <1>1, <1>2, HeaderDelimited
<1>5. Fits(SubSeq(p, 1, h)) = {}
  BY <1>3
<1> QED BY <1>2, <1>3, <1>4, <1>5 DEF Broken

\* What comes after the messages.
LEMMA TailsAre ==
  ASSUME MaxFrameBody >= 11, NEW t \in Tails
  PROVE  t \in Seq(Chars) /\ Broken(t)
<1>1. MaxFrameBody \in Nat
  BY FramingAssumption
<1>2. ASSUME NEW l \in {"x", "big"} PROVE <<l>> \o Delimiter \in Seq(Chars) /\ Broken(<<l>> \o Delimiter)
  <2>1. PICK header : header = <<l>>
    OBVIOUS
  <2>2. header \in Seq(Chars) /\ Len(header) = 1 /\ header[1] = l
    BY <2>1 DEF Chars
  <2>3. Fits(header) = {}
    <3>1. CASE l = "x"
      <4>1. \A j \in 1..Len(header) : header[j] \notin Lengths
        BY <2>2, <3>1, LengthsAre
      <4> QED BY <2>2, <4>1, NoneCounts
    <3>2. CASE l = "big"
      <4>1. 1 \in 1..Len(header) /\ header[1] \in Lengths /\ \A j \in 1 + 1..Len(header) : header[j] \notin Lengths
        BY <2>2, <3>2, LengthsAre
      <4>2. \A j \in 1..Len(header) : header[j] # "bad"
        BY <2>2, <3>2
      <4>3. Fits(header) = {n \in {ContentLength[header[1]]} : n <= MaxFrameBody}
        BY <2>2, <4>1, <4>2, LastCounts
      <4>4. ~(ContentLength[header[1]] <= MaxFrameBody)
        BY <1>1, <2>2, <3>2, LengthsAre
      <4> QED BY <4>3, <4>4
    <3> QED BY <3>1, <3>2
  <2>4. Differs(header)
    <3>1. 1 \in 1..4 /\ 0 + 1 <= Len(header) /\ header[0 + 1] # Delimiter[1]
      BY <2>2, DelimiterIs
    <3>2. \A i \in 0..Len(header) - 1 : i = 0
      BY <2>2
    <3> QED BY <3>1, <3>2 DEF Differs
  <2> QED BY <2>1, <2>2, <2>3, <2>4, HeaderBreaks
<1>3. PICK q : q = [i \in 1..MaxFrameBody |-> "x"]
  OBVIOUS
<1>4. q \in Seq(Chars) /\ Broken(q)
  <2>1. q \in Seq(Chars) /\ Len(q) = MaxFrameBody /\ \A i \in 1..MaxFrameBody : q[i] = "x"
    BY <1>1, <1>3 DEF Chars
  <2>2. ASSUME NEW i \in Nat, Delimits(q, i) PROVE FALSE
    <3>1. i + 4 <= Len(q) /\ q[i + 1] = "r"
      BY <2>1, <2>2, DelimitsIs
    <3>2. i + 1 \in 1..MaxFrameBody
      BY <1>1, <2>1, <3>1
    <3> QED BY <2>1, <3>1, <3>2
  <2>3. Len(q) >= MaxFrameBody
    BY <1>1, <2>1
  <2> QED BY <2>1, <2>2, <2>3 DEF Broken
<1>5. <<"bad", "r", "n", "l2">> \o Delimiter \in Seq(Chars) /\ Broken(<<"bad", "r", "n", "l2">> \o Delimiter)
  <2>1. PICK header : header = <<"bad", "r", "n", "l2">>
    OBVIOUS
  <2>2. /\ header \in Seq(Chars) /\ Len(header) = 4
        /\ header[1] = "bad" /\ header[2] = "r" /\ header[3] = "n" /\ header[4] = "l2"
    BY <2>1 DEF Chars
  <2>3. Fits(header) = {}
    <3>1. 1 \in 1..Len(header) /\ header[1] = "bad"
      BY <2>2
    <3> QED BY <2>2, <3>1, NoneCounts
  <2>4. Differs(header)
    <3>1. /\ header[0 + 1] # Delimiter[1] /\ header[1 + 3] # Delimiter[3]
          /\ header[2 + 1] # Delimiter[1] /\ header[3 + 1] # Delimiter[1]
      BY <2>2, DelimiterIs
    <3>2. \A i \in 0..Len(header) - 1 : i = 0 \/ i = 1 \/ i = 2 \/ i = 3
      BY <2>2
    <3> QED BY <2>2, <3>1, <3>2 DEF Differs
  <2> QED BY <2>1, <2>2, <2>3, <2>4, HeaderBreaks
<1>6. <<"l0">> \o Delimiter \in Seq(Chars) /\ Broken(<<"l0">> \o Delimiter)
  <2>1. PICK header, body : header = <<"l0">> /\ body = <<>>
    OBVIOUS
  <2>2. body \in Seq(Chars) /\ Len(body) = 0 /\ ~IsJson(body)
    BY <2>1 DEF IsJson
  <2>3. header \in Seq(Chars) /\ Announces(header, Len(body))
    BY <2>1, <2>2, PlainAnnounces, LengthsAre
  <2>4. header \o Delimiter \o body \in Seq(Chars) /\ Broken(header \o Delimiter \o body)
    BY <2>2, <2>3, DelimiterIs, HeaderMakesMessage
  <2>5. header \o Delimiter \o body = header \o Delimiter
    <3>1. header \o Delimiter \in Seq(Chars)
      BY <2>3, HeaderFirst
    <3> QED BY <2>1, <3>1
  <2> QED BY <2>1, <2>4, <2>5
<1>7. /\ <<"l3">> \o Delimiter \o <<"open", "x", "x">> \in Seq(Chars)
      /\ Broken(<<"l3">> \o Delimiter \o <<"open", "x", "x">>)
  <2>1. PICK header, body : header = <<"l3">> /\ body = <<"open", "x", "x">>
    OBVIOUS
  <2>2. body \in Seq(Chars) /\ Len(body) = 3 /\ body[3] = "x"
    BY <2>1 DEF Chars
  <2>3. ~IsJson(body)
    BY <2>2 DEF IsJson
  <2>4. header \in Seq(Chars) /\ Announces(header, Len(body))
    BY <2>1, <2>2, PlainAnnounces, LengthsAre
  <2>5. header \o Delimiter \o body \in Seq(Chars) /\ Broken(header \o Delimiter \o body)
    BY <2>2, <2>3, <2>4, DelimiterIs, HeaderMakesMessage
  <2> QED BY <2>1, <2>5
<1>8. \/ t = <<"x">> \o Delimiter \/ t = <<"big">> \o Delimiter \/ t = q
      \/ t = <<"bad", "r", "n", "l2">> \o Delimiter \/ t = <<"l0">> \o Delimiter
      \/ t = <<"l3">> \o Delimiter \o <<"open", "x", "x">>
  BY <1>3 DEF Tails
<1> QED BY <1>2, <1>4, <1>5, <1>6, <1>7, <1>8

-----------------------------------------------------------------------------
\* Two messages and what is none, and where they end.
Two(f, g, t) == f \o g \o t

EndsOf(f, g) == [k \in 0..2 |-> CASE k = 0 -> 0 [] k = 1 -> Len(f) [] k = 2 -> Len(f) + Len(g)]
Parted(S, f, g, t, bytes) ==
    /\ bytes \in Seq(S) /\ Len(bytes) = Len(f) + Len(g) + Len(t)
    /\ SubSeq(bytes, 0 + 1, Len(f)) = f
    /\ SubSeq(bytes, Len(f) + 1, Len(f) + Len(g)) = g
    /\ SubSeq(bytes, Len(f) + Len(g) + 1, Len(bytes)) = t

\* The parts of the stream.
LEMMA TwoIs ==
  ASSUME NEW S, NEW f \in Seq(S), NEW g \in Seq(S), NEW t \in Seq(S)
  PROVE  Parted(S, f, g, t, Two(f, g, t))
<1>1. PICK a, b, c \in Nat : a = Len(f) /\ b = Len(g) /\ c = Len(t)
  OBVIOUS
<1>2. PICK p : p = f \o g
  OBVIOUS
<1>3. p \in Seq(S) /\ Len(p) = a + b /\ SubSeq(p, 1, a) = f /\ SubSeq(p, a + 1, a + b) = g
  <2>1. /\ f \o g \in Seq(S) /\ Len(f \o g) = Len(f) + Len(g)
        /\ SubSeq(f \o g, 1, Len(f)) = f /\ SubSeq(f \o g, Len(f) + 1, Len(f) + Len(g)) = g
    BY PartsOfConcat
  <2> QED BY <1>1, <1>2, <2>1
<1>4. PICK q : q = p \o t
  OBVIOUS
<1>5. q = Two(f, g, t)
  BY <1>2, <1>4 DEF Two
<1>6. q \in Seq(S) /\ Len(q) = a + b + c /\ SubSeq(q, a + b + 1, a + b + c) = t
  <2>1. p \in Seq(S)
    BY <1>3
  <2>2. /\ p \o t \in Seq(S) /\ Len(p \o t) = Len(p) + Len(t)
        /\ SubSeq(p \o t, Len(p) + 1, Len(p) + Len(t)) = t
    BY <2>1, PartsOfConcat
  <2> QED BY <1>1, <1>3, <1>4, <2>2
<1>7. IsPrefix(p, q)
  BY <1>3, <1>4, PrefixOfConcat
<1>8. SubSeq(q, 1, a) = f /\ SubSeq(q, a + 1, a + b) = g
  <2>1. a \in 0..Len(p) /\ a + b \in a..Len(p)
    BY <1>3
  <2>2. SubSeq(p, 1, a) = SubSeq(q, 1, a) /\ SubSeq(p, a + 1, a + b) = SubSeq(q, a + 1, a + b)
    <3>1. p \in Seq(S) /\ q \in Seq(S)
      BY <1>3, <1>6
    <3>2. \A i \in 0..Len(p) : \A j \in i..Len(p) : SubSeq(p, i + 1, j) = SubSeq(q, i + 1, j)
      BY <1>7, <3>1, PrefixIs
    <3>3. 0 \in 0..Len(p) /\ a \in 0..Len(p) /\ 0 + 1 = 1
      BY <2>1
    <3>4. SubSeq(p, 0 + 1, a) = SubSeq(q, 0 + 1, a)
      BY <1>1, <3>2, <3>3
    <3> QED BY <2>1, <3>2, <3>3, <3>4
  <2> QED BY <1>3, <2>2
<1>9. 0 + 1 = 1
  OBVIOUS
<1> QED BY <1>1, <1>5, <1>6, <1>8, <1>9 DEF Parted

\* It is a stream of two messages.
LEMMA TwoIsStream ==
  ASSUME NEW S, NEW f \in Seq(S), NEW g \in Seq(S), NEW t \in Seq(S), NEW x \in Seq(S), NEW y \in Seq(S),
         Message(f, x), Message(g, y), Broken(t)
  PROVE  /\ EndsOf(f, g) \in [0..Len(<<x, y>>) -> 0..Len(Two(f, g, t))]
         /\ IsStream(Two(f, g, t), EndsOf(f, g), <<x, y>>)
<1>0. Parted(S, f, g, t, Two(f, g, t))
  BY TwoIs
<1>1. PICK bytes : bytes = Two(f, g, t)
  OBVIOUS
<1>2. PICK ends : ends = EndsOf(f, g)
  OBVIOUS
<1>3. PICK bodies : bodies = <<x, y>>
  OBVIOUS
<1>4. Len(f) \in Nat /\ Len(g) \in Nat /\ Len(t) \in Nat
  OBVIOUS
<1>5. ends[0] = 0 /\ ends[1] = Len(f) /\ ends[2] = Len(f) + Len(g) /\ ends = [k \in 0..2 |-> ends[k]]
  BY <1>2 DEF EndsOf
<1>6. Len(bodies) = 2 /\ bodies[1] = x /\ bodies[2] = y
  BY <1>3
<1>7. /\ Len(bytes) = Len(f) + Len(g) + Len(t)
      /\ SubSeq(bytes, ends[0] + 1, ends[1]) = f
      /\ SubSeq(bytes, ends[1] + 1, ends[2]) = g
      /\ SubSeq(bytes, ends[2] + 1, Len(bytes)) = t
  BY <1>0, <1>1, <1>5 DEF Parted
<1>8. ends \in [0..Len(bodies) -> 0..Len(bytes)]
  <2>1. \A k \in 0..2 : k = 0 \/ k = 1 \/ k = 2
    OBVIOUS
  <2>2. \A k \in 0..2 : ends[k] \in 0..Len(bytes)
    BY <1>4, <1>5, <1>7, <2>1
  <2> QED BY <1>5, <1>6, <2>2
<1>9. LET tail == SubSeq(bytes, ends[Len(bodies)] + 1, Len(bytes))
      IN  \A h, l \in Nat : Whole(tail, h, l) => ~IsJson(Body(tail, h, l))
  <2>1. \A h, l \in Nat : Whole(t, h, l) => ~IsJson(Body(t, h, l))
    BY WholeIs
  <2> QED BY <1>6, <1>7, <2>1
<1>10. \A k \in 1..Len(bodies) :
         ends[k - 1] <= ends[k] /\ Message(SubSeq(bytes, ends[k - 1] + 1, ends[k]), bodies[k])
  <2> SUFFICES ASSUME NEW k \in 1..2
               PROVE  ends[k - 1] <= ends[k] /\ Message(SubSeq(bytes, ends[k - 1] + 1, ends[k]), bodies[k])
    BY <1>6
  <2>1. CASE k = 1
    <3>1. k - 1 = 0
      BY <2>1
    <3>2. ends[k - 1] = ends[0] /\ ends[k] = ends[1] /\ bodies[k] = x
      BY <1>6, <2>1, <3>1
    <3>3. ends[k - 1] <= ends[k]
      BY <1>4, <1>5, <3>2
    <3> QED BY <1>7, <3>2, <3>3
  <2>2. CASE k = 2
    <3>1. k - 1 = 1
      BY <2>2
    <3>2. ends[k - 1] = ends[1] /\ ends[k] = ends[2] /\ bodies[k] = y
      BY <1>6, <2>2, <3>1
    <3>3. ends[k - 1] <= ends[k]
      BY <1>4, <1>5, <3>2
    <3> QED BY <1>7, <3>2, <3>3
  <2> QED BY <2>1, <2>2
<1>11. IsStream(bytes, ends, bodies)
  BY <1>5, <1>9, <1>10 DEF IsStream
<1> QED BY <1>1, <1>2, <1>3, <1>8, <1>11

\* What a pump that has read j bytes of two messages has dispatched.
Arrived(ends, x, y, j) ==
    (IF j >= ends[1] THEN <<x>> ELSE <<>>) \o (IF j >= ends[2] THEN <<y>> ELSE <<>>)
HasReadTwo(S, bytes, ends, x, y, reader, j) == HasRead(S, bytes, ends, <<x, y>>, reader, j)

LEMMA OutIs ==
  ASSUME NEW S, NEW bytes, NEW ends, NEW x, NEW y, NEW reader, NEW j \in Nat,
         ends[1] \in Nat, ends[2] \in Nat, ends[1] <= ends[2], HasReadTwo(S, bytes, ends, x, y, reader, j)
  PROVE  reader.out = Arrived(ends, x, y, j) /\ (j >= ends[2] => Arrived(ends, x, y, j) = <<x, y>>)
<1>1. PICK bodies : bodies = <<x, y>>
  OBVIOUS
<1>2. Len(bodies) = 2 /\ SubSeq(bodies, 1, 0) = <<>> /\ SubSeq(bodies, 1, 1) = <<x>> /\ SubSeq(bodies, 1, 2) = <<x, y>>
  BY <1>1, PairIs
<1>3. PICK k \in 0..2 : /\ ends[k] <= j /\ (k = 2 \/ j < ends[k + 1])
                        /\ reader.out = SubSeq(bodies, 1, k)
  BY <1>1, <1>2 DEF HasReadTwo, HasRead
<1>4. CASE k = 0
  <2>1. k + 1 = 1
    BY <1>4
  <2>2. j < ends[1]
    BY <1>3, <1>4, <2>1
  <2>3. ~(j >= ends[1]) /\ ~(j >= ends[2])
    BY <2>2
  <2>4. reader.out = <<>>
    BY <1>2, <1>3, <1>4
  <2> QED BY <2>3, <2>4 DEF Arrived
<1>5. CASE k = 1
  <2>1. k + 1 = 2
    BY <1>5
  <2>2. j >= ends[1] /\ ~(j >= ends[2])
    BY <1>3, <1>5, <2>1
  <2>3. reader.out = <<x>>
    BY <1>2, <1>3, <1>5
  <2> QED BY <2>2, <2>3 DEF Arrived
<1>6. CASE k = 2
  <2>1. j >= ends[2] /\ j >= ends[1]
    BY <1>3, <1>6
  <2>2. reader.out = <<x, y>>
    BY <1>2, <1>3, <1>6
  <2>3. <<x, y>> = <<x>> \o <<y>>
    BY PairIs
  <2> QED BY <2>1, <2>2, <2>3 DEF Arrived
<1>7. k = 0 \/ k = 1 \/ k = 2
  OBVIOUS
<1> QED BY <1>4, <1>5, <1>6, <1>7

\* A pump that has read everything has ended.
LEMMA EndIsReached ==
  ASSUME NEW S, NEW bytes, NEW ends, NEW bodies, Len(bodies) \in Nat, NEW reader, NEW n \in Nat,
         \A k \in 0..Len(bodies) : ends[k] \in Nat /\ ends[k] <= n,
         SubSeq(bytes, ends[Len(bodies)] + 1, n) \in Seq(S),
         Broken(SubSeq(bytes, ends[Len(bodies)] + 1, n)),
         HasRead(S, bytes, ends, bodies, reader, n)
  PROVE  reader.state = "ended"
<1>1. PICK k \in 0..Len(bodies) :
         /\ k = Len(bodies) \/ n < ends[k + 1]
         /\ \/ reader.state = "read" /\ Awaits(SubSeq(bytes, ends[k] + 1, n))
            \/ reader.state = "ended"
  BY DEF HasRead
<1>2. k = Len(bodies)
  <2> SUFFICES ASSUME k # Len(bodies) PROVE FALSE
    OBVIOUS
  <2>1. k + 1 \in 0..Len(bodies)
    OBVIOUS
  <2>2. ends[k + 1] \in Nat /\ ends[k + 1] <= n
    BY <2>1
  <2> QED BY <1>1, <2>2
<1> QED BY <1>1, <1>2, NotBoth

\* A stream, cut twice.
LEMMA CutTwice ==
  ASSUME NEW S, NEW bytes \in Seq(S), NEW bodies \in Seq(Seq(S)),
         NEW ends \in [0..Len(bodies) -> 0..Len(bytes)], IsStream(bytes, ends, bodies),
         NEW i \in 0..Len(bytes), NEW j \in i..Len(bytes)
  PROVE  \E first, second, third :
           /\ first = ReadChunk(Begun, SubSeq(bytes, 0 + 1, i))
           /\ second = ReadChunk(first, SubSeq(bytes, i + 1, j)) /\ HasRead(S, bytes, ends, bodies, second, j)
           /\ third = ReadChunk(second, SubSeq(bytes, j + 1, Len(bytes)))
           /\ HasRead(S, bytes, ends, bodies, third, Len(bytes))
<1>1. Len(bytes) \in Nat /\ j \in 0..Len(bytes) /\ 0 \in 0..Len(bytes) /\ i \in 0..Len(bytes) /\ Len(bytes) \in j..Len(bytes)
  OBVIOUS
<1>2. HasRead(S, bytes, ends, bodies, Begun, 0)
  BY BegunHasRead
<1>3. PICK first : first = ReadChunk(Begun, SubSeq(bytes, 0 + 1, i)) /\ HasRead(S, bytes, ends, bodies, first, i)
  BY <1>1, <1>2, ChunkIsRead
<1>4. PICK second : second = ReadChunk(first, SubSeq(bytes, i + 1, j)) /\ HasRead(S, bytes, ends, bodies, second, j)
  BY <1>3, ChunkIsRead
<1>5. PICK third : /\ third = ReadChunk(second, SubSeq(bytes, j + 1, Len(bytes)))
                   /\ HasRead(S, bytes, ends, bodies, third, Len(bytes))
  BY <1>1, <1>4, ChunkIsRead
<1> QED BY <1>3, <1>4, <1>5

\* What is to be shown of it.
ReadInPieces(bytes, x, y, a, b, i, j) ==
    \E first, second, third :
        /\ first = ReadChunk(Begun, SubSeq(bytes, 0 + 1, i))
        /\ second = ReadChunk(first, SubSeq(bytes, i + 1, j))
        /\ second.out = (IF j >= a THEN <<x>> ELSE <<>>) \o (IF j >= b THEN <<y>> ELSE <<>>)
        /\ third = ReadChunk(second, SubSeq(bytes, j + 1, Len(bytes)))
        /\ third.state = "ended" /\ third.out = <<x, y>>

\* Two messages and what is none, cut twice.
LEMMA TwoAreRead ==
  ASSUME NEW S, NEW f \in Seq(S), NEW g \in Seq(S), NEW t \in Seq(S), NEW x \in Seq(S), NEW y \in Seq(S),
         Message(f, x), Message(g, y), Broken(t),
         NEW i \in 0..Len(Two(f, g, t)), NEW j \in i..Len(Two(f, g, t))
  PROVE  ReadInPieces(Two(f, g, t), x, y, Len(f), Len(f) + Len(g), i, j)
<1>1. PICK bytes : bytes = Two(f, g, t) /\ Parted(S, f, g, t, bytes)
  BY TwoIs
<1>2. PICK ends : ends = EndsOf(f, g)
  OBVIOUS
<1>3. PICK bodies : bodies = <<x, y>>
  OBVIOUS
<1>4. ends \in [0..Len(bodies) -> 0..Len(bytes)] /\ IsStream(bytes, ends, bodies)
  BY <1>1, <1>2, <1>3, TwoIsStream
<1>5. bodies \in Seq(Seq(S)) /\ Len(bodies) = 2
  BY <1>3
<1>6. bytes \in Seq(S) /\ Len(bytes) \in Nat /\ i \in 0..Len(bytes) /\ j \in i..Len(bytes) /\ j \in Nat
  BY <1>1 DEF Parted
<1>7. PICK first, second, third :
           /\ first = ReadChunk(Begun, SubSeq(bytes, 0 + 1, i))
           /\ second = ReadChunk(first, SubSeq(bytes, i + 1, j)) /\ HasRead(S, bytes, ends, bodies, second, j)
           /\ third = ReadChunk(second, SubSeq(bytes, j + 1, Len(bytes)))
           /\ HasRead(S, bytes, ends, bodies, third, Len(bytes))
  BY <1>4, <1>5, <1>6, CutTwice
<1>8. PICK a, b \in Nat : a = Len(f) /\ b = Len(f) + Len(g)
  OBVIOUS
<1>9. a <= b /\ b <= Len(bytes) /\ ends[0] = 0 /\ ends[1] = a /\ ends[2] = b
  BY <1>1, <1>2, <1>8 DEF EndsOf, Parted
<1>10. second.out = (IF j >= a THEN <<x>> ELSE <<>>) \o (IF j >= b THEN <<y>> ELSE <<>>)
  <2>1. HasReadTwo(S, bytes, ends, x, y, second, j)
    BY <1>3, <1>7 DEF HasReadTwo
  <2>2. ends[1] \in Nat /\ ends[2] \in Nat /\ ends[1] <= ends[2]
    BY <1>9
  <2>3. second.out = Arrived(ends, x, y, j)
    BY <1>6, <2>1, <2>2, OutIs
  <2> QED BY <1>9, <2>3 DEF Arrived
<1>11. third.out = <<x, y>>
  <2>1. HasReadTwo(S, bytes, ends, x, y, third, Len(bytes))
    BY <1>3, <1>7 DEF HasReadTwo
  <2>2. ends[1] \in Nat /\ ends[2] \in Nat /\ ends[1] <= ends[2]
    BY <1>9
  <2>3. Len(bytes) >= ends[2] => third.out = <<x, y>>
    <3>1. /\ third.out = Arrived(ends, x, y, Len(bytes))
          /\ Len(bytes) >= ends[2] => Arrived(ends, x, y, Len(bytes)) = <<x, y>>
      BY <1>6, <2>1, <2>2, OutIs
    <3> QED BY <3>1
  <2> QED BY <1>6, <1>9, <2>3
<1>12. third.state = "ended"
  <2>1. SubSeq(bytes, ends[Len(bodies)] + 1, Len(bytes)) = t
    BY <1>1, <1>5, <1>8, <1>9 DEF Parted
  <2>2. Len(t) \in Nat
    OBVIOUS
  <2>3. \A k \in 0..2 : k = 0 \/ k = 1 \/ k = 2
    OBVIOUS
  <2>4. \A k \in 0..Len(bodies) : ends[k] \in Nat /\ ends[k] <= Len(bytes)
    BY <1>5, <1>6, <1>9, <2>3
  <2>5. HasRead(S, bytes, ends, bodies, third, Len(bytes))
    BY <1>7
  <2>6. Broken(SubSeq(bytes, ends[Len(bodies)] + 1, Len(bytes)))
    BY <2>1
  <2>7. SubSeq(bytes, ends[Len(bodies)] + 1, Len(bytes)) \in Seq(S) /\ Len(bodies) \in Nat
    <3>1. SubSeq(bytes, ends[Len(bodies)] + 1, Len(bytes)) \in Seq(S)
      BY <2>1
    <3>2. Len(bodies) \in Nat
      BY <1>5
    <3> QED BY <3>1, <3>2
  <2> QED BY <1>6, <2>4, <2>5, <2>6, <2>7, EndIsReached
<1> QED BY <1>1, <1>7, <1>8, <1>10, <1>11, <1>12 DEF ReadInPieces

\* For every limit of the code's kind, and every cut: each message is dispatched when it has
\* arrived, once, in its order, and the pump ends at the first thing that is no message.
THEOREM StreamsAreReadRightly ==
  ASSUME MaxFrameBody >= 11
  PROVE  Misread = {}
<1> SUFFICES ASSUME NEW s \in Streams, NEW i \in 1..Len(Bytes(s)), NEW j \in i..i + 4, j <= Len(Bytes(s))
             PROVE  ReadRightly(s, i, j)
  BY DEF Misread
<1>1. s[1] \in Frames({"plain", "typed", "twice"}) /\ s[2] \in Frames({"plain"}) /\ s[3] \in Tails
  BY DEF Streams
<1>2. s[2] \in Frames({"plain", "typed", "twice"})
  BY <1>1 DEF Frames
<1>3. PICK f, x : f = s[1].bytes /\ x = s[1].body
  OBVIOUS
<1>4. PICK g, y : g = s[2].bytes /\ y = s[2].body
  OBVIOUS
<1>5. PICK t : t = s[3]
  OBVIOUS
<1>6. /\ f \in Seq(Chars) /\ x \in Seq(Chars) /\ Message(f, x)
      /\ g \in Seq(Chars) /\ y \in Seq(Chars) /\ Message(g, y)
  BY <1>1, <1>2, <1>3, <1>4, FramesAre
<1>7. t \in Seq(Chars) /\ Broken(t)
  BY <1>1, <1>5, TailsAre
<1>8. PICK bytes : bytes = Bytes(s)
  OBVIOUS
<1>9. bytes = Two(f, g, t)
  BY <1>3, <1>4, <1>5, <1>8 DEF Bytes, Two
<1>10. bytes \in Seq(Chars) /\ Len(bytes) \in Nat
  <2>1. Parted(Chars, f, g, t, Two(f, g, t))
    BY <1>6, <1>7, TwoIs
  <2> QED BY <1>9, <2>1 DEF Parted
<1>11. i \in 0..Len(bytes) /\ j \in i..Len(bytes)
  BY <1>8, <1>10
<1>12. PICK first, second, third :
         /\ first = ReadChunk(Begun, SubSeq(bytes, 0 + 1, i))
         /\ second = ReadChunk(first, SubSeq(bytes, i + 1, j))
         /\ second.out = (IF j >= Len(f) THEN <<x>> ELSE <<>>) \o (IF j >= Len(f) + Len(g) THEN <<y>> ELSE <<>>)
         /\ third = ReadChunk(second, SubSeq(bytes, j + 1, Len(bytes)))
         /\ third.state = "ended" /\ third.out = <<x, y>>
  <2>1. i \in 0..Len(Two(f, g, t)) /\ j \in i..Len(Two(f, g, t))
    BY <1>9, <1>11
  <2>2. ReadInPieces(Two(f, g, t), x, y, Len(f), Len(f) + Len(g), i, j)
    BY <1>6, <1>7, <2>1, TwoAreRead
  <2> QED BY <1>9, <2>2 DEF ReadInPieces
<1>13. SubSeq(bytes, 0 + 1, i) = SubSeq(bytes, 1, i)
  OBVIOUS
<1>14. third.state = "ended"
  BY <1>12
<1>15. ReadChunk(third, f) = third
  BY <1>14 DEF ReadChunk
<1>16. Len(f \o g) = Len(f) + Len(g)
  BY <1>6
<1> QED BY <1>3, <1>4, <1>8, <1>12, <1>13, <1>14, <1>15, <1>16 DEF ReadRightly

\* The pump of a session dispatches each message of such a stream once, in order, wherever the
\* stream is cut, and ends at the first thing that is no message.  The streams have headers of
\* up to 11 bytes with their delimiter; MAX_FRAME_BODY is 64 MiB.
THEOREM FramesWhole ==
  ASSUME MaxFrameBody >= 11
  PROVE  Spec => []FramesAreWhole
<1>1. FramesAreWhole
  BY StreamsAreReadRightly DEF FramesAreWhole
<1> QED BY <1>1, PTL

=============================================================================
