-------------------------- MODULE DaemonDrainProofs --------------------------
(***************************************************************************)
(* Proofs about DaemonDrain, for any requests and any thresholds: the      *)
(* in-flight count is exact, a drain that ends early ends with nothing     *)
(* left to do, and a writing call that has begun runs to its end.          *)
(***************************************************************************)
EXTENDS DaemonDrain, TLAPS

\* Samples without a call in flight are counted by a waiting drain only, which ends with the
\* last of them; and after the first one nothing is admitted any more.
QuietInv ==
    /\ waiter # "none" => quiet < QuietSamples
    /\ quiet > 0 => draining /\ \A r \in Requests : req[r] # "checked"

\* The inductive invariant.
IInv == TypeOK /\ CountIsExact /\ QuietInv

-----------------------------------------------------------------------------
LEMMA InitIInv == Init => IInv
<1> SUFFICES ASSUME Init PROVE IInv
  OBVIOUS
<1> USE DrainAssumption DEF Init
<1>1. TypeOK
  <2>1. 0 \in 0..MaxAge /\ 0 \in 0..QuietSamples
    BY DEF MaxAge
  <2>2. req \in [Requests -> ReqStates]
    BY DEF ReqStates
  <2> QED BY <2>1, <2>2 DEF TypeOK
<1>2. CountIsExact
  <2>1. \A r \in Requests : req[r] = "new"
    OBVIOUS
  <2> QED BY <2>1 DEF CountIsExact, Requests
<1>3. QuietInv
  BY DEF QuietInv
<1> QED BY <1>1, <1>2, <1>3 DEF IInv

LEMMA OlderTyped ==
  ASSUME TypeOK
  PROVE  /\ Older(actAge) \in 0..MaxAge
         /\ Older(lsAge) \in (0..MaxAge) \cup {NoLs}
  BY DrainAssumption DEF TypeOK, Older, MaxAge

\* TypeOK is inductive.
LEMMA TypeStep == TypeOK /\ QuietInv /\ [Next]_vars => TypeOK'
<1> SUFFICES ASSUME TypeOK, QuietInv, [Next]_vars PROVE TypeOK'
  OBVIOUS
<1> USE DrainAssumption DEF TypeOK, ReqStates, drain, clocks
<1>1. ASSUME NEW r \in Requests, Handler(r) PROVE TypeOK'
  <2>1. 0 \in 0..MaxAge
    BY DEF MaxAge
  <2> QED BY <1>1, <2>1 DEF Handler, Refuse, Admit, Count, UseLs, Finish, Disconnect
<1>2. CASE Shutdown \/ CtrlC
  BY <1>2 DEF Shutdown, CtrlC
<1>3. CASE Sample
  BY <1>3 DEF Sample, DrainEnds, Notify, QuietInv
<1>4. CASE WindowEnds \/ ServerReturns
  BY <1>4 DEF WindowEnds, ServerReturns, DrainEnds, Notify
<1>5. CASE ReaperTick \/ ReaperStep
  BY <1>5 DEF ReaperTick, ReaperStep, ReaperWakes, Judge, EvictIdle, CleanUp, Exit
<1>6. CASE Tick
  BY <1>6, OlderTyped DEF Tick
<1>7. CASE UNCHANGED vars
  BY <1>7 DEF vars
<1> QED BY <1>1, <1>2, <1>3, <1>4, <1>5, <1>6, <1>7 DEF Next

\* What neither counts a request nor changes one to or from an execution.
LEMMA CountKept ==
  ASSUME CountIsExact, ~exited' => ~exited, counted' = counted,
         \A r \in Requests : /\ req'[r] = "running" <=> req[r] = "running"
                             /\ req'[r] = "detached" <=> req[r] = "detached"
  PROVE  CountIsExact'
  BY DEF CountIsExact, Requests

\* Only the handlers and the exit change what is counted or executing.
LEMMA CountStep == TypeOK /\ CountIsExact /\ [Next]_vars => CountIsExact'
<1> SUFFICES ASSUME TypeOK, CountIsExact, [Next]_vars, ~exited' PROVE CountIsExact'
  BY DEF CountIsExact
<1>0. req \in [Requests -> ReqStates] /\ counted \subseteq Requests
  BY DEF TypeOK
<1> USE DrainAssumption, <1>0 DEF CountIsExact, drain, clocks
<1>1. ASSUME NEW r \in Requests, Handler(r) PROVE CountIsExact'
  <2>1. CASE Refuse(r) \/ Admit(r) \/ UseLs(r)
    <3>1. UseLs(r) => req' = req
      BY DEF UseLs
    <3>2. counted' = counted /\ exited' = exited
      BY <2>1 DEF Refuse, Admit, UseLs
    <3> QED BY <2>1, <3>1, <3>2, CountKept DEF Refuse, Admit
  <2>2. CASE Count(r)
    BY <2>2 DEF Count
  <2>3. CASE Finish(r)
    BY <2>3 DEF Finish, Executing
  <2>4. CASE Disconnect(r)
    BY <2>4 DEF Disconnect, Requests
  <2> QED BY <1>1, <2>1, <2>2, <2>3, <2>4 DEF Handler
<1>2. CASE Shutdown \/ CtrlC \/ WindowEnds \/ ServerReturns \/ Tick
  BY <1>2 DEF Shutdown, CtrlC, WindowEnds, ServerReturns, Tick
<1>3. CASE Sample
  BY <1>3, CountKept DEF Sample
<1>4. CASE ReaperTick \/ ReaperStep
  BY <1>4 DEF ReaperTick, ReaperStep, ReaperWakes, Judge, EvictIdle, CleanUp, Exit
<1>5. CASE UNCHANGED vars
  BY <1>5 DEF vars
<1> QED BY <1>1, <1>2, <1>3, <1>4, <1>5 DEF Next

\* A drain begins with draining, and with it admissions end.
LEMMA QuietStep == TypeOK /\ QuietInv /\ [Next]_vars => QuietInv'
<1> SUFFICES ASSUME TypeOK, QuietInv, [Next]_vars PROVE QuietInv'
  OBVIOUS
<1> USE DrainAssumption DEF TypeOK, QuietInv, drain, clocks
<1>1. ASSUME NEW r \in Requests, Handler(r) PROVE QuietInv'
  BY <1>1 DEF Handler, Refuse, Admit, Count, UseLs, Finish, Disconnect
<1>2. CASE Shutdown \/ CtrlC
  BY <1>2 DEF Shutdown, CtrlC
<1>3. CASE Sample
  BY <1>3 DEF Sample, DrainEnds, Notify
<1>4. CASE WindowEnds \/ ServerReturns
  BY <1>4 DEF WindowEnds, ServerReturns, DrainEnds, Notify
<1>5. CASE ReaperTick \/ ReaperStep \/ Tick
  BY <1>5 DEF ReaperTick, ReaperStep, ReaperWakes, Judge, EvictIdle, CleanUp, Exit, Tick
<1>6. CASE UNCHANGED vars
  BY <1>6 DEF vars
<1> QED BY <1>1, <1>2, <1>3, <1>4, <1>5, <1>6 DEF Next

LEMMA Invariance == Spec => []IInv
<1>1. IInv /\ [Next]_vars => IInv'
  BY TypeStep, CountStep, QuietStep DEF IInv
<1> QED BY InitIInv, <1>1, PTL DEF Spec

-----------------------------------------------------------------------------
\* The types, and that whoever waits for the drain waits in a daemon that drains.
THEOREM TypeCorrect == Spec => []TypeOK
<1>1. IInv => TypeOK
  BY DEF IInv
<1> QED BY Invariance, <1>1, PTL

\* The in-flight count is exact, whoever disconnects, drains or ends what.
THEOREM CountExact == Spec => []CountIsExact
<1>1. IInv => CountIsExact
  BY DEF IInv
<1> QED BY Invariance, <1>1, PTL

\* A drain that ends before its window does leaves no call of /tools behind, neither a counted
\* one nor one that was between the draining check and the count.
THEOREM DrainHonest == Spec => DrainedMeansIdle
<1> DEFINE Ends == waiter # "none" /\ waiter' = "none" /\ ~windowOver'
           Idle == \A r \in Requests : req[r] \notin {"checked", "late", "running"}
                                        /\ (r \in Writes => req[r] # "detached")
<1>1. IInv /\ [Next]_vars /\ Ends => Idle
  <2> SUFFICES ASSUME IInv, [Next]_vars, Ends PROVE Idle
    OBVIOUS
  <2>1. Sample /\ quiet' = QuietSamples
    <3>1. ASSUME NEW r \in Requests, Handler(r) PROVE FALSE
      BY <3>1 DEF Handler, Refuse, Admit, Count, UseLs, Finish, Disconnect, drain
    <3>2. ~(Shutdown \/ CtrlC \/ WindowEnds \/ ServerReturns \/ Tick \/ ReaperTick \/ ReaperStep)
      BY DEF Shutdown, CtrlC, WindowEnds, ServerReturns, Tick, ReaperTick, ReaperStep,
             ReaperWakes, Judge, EvictIdle, CleanUp, Exit, drain
    <3>3. ~UNCHANGED vars
      BY DEF vars, drain
    <3>4. Sample
      BY <3>1, <3>2, <3>3 DEF Next
    <3> QED BY <3>4 DEF Sample
  <2>2. counted = {} /\ quiet > 0
    BY <2>1, DrainAssumption DEF Sample, IInv, TypeOK
  <2> QED BY <2>1, <2>2 DEF Sample, IInv, QuietInv, CountIsExact, Requests
<1>2. IInv /\ [Next]_vars => [Ends => Idle]_vars
  BY <1>1
<1> QED BY Invariance, <1>2, PTL DEF Spec, DrainedMeansIdle

\* A writing call that executes goes on executing until it is done or the process ends.
THEOREM WritesComplete == Spec => WritesRunToTheirEnd
<1> DEFINE Kept == \A w \in Writes \cup Batches :
                      Executing(w) => Executing(w)' \/ req'[w] = "done" \/ exited'
<1>1. IInv /\ [Next]_vars => [Kept]_vars
  <2> SUFFICES ASSUME IInv, Next, NEW w \in Writes \cup Batches, Executing(w), ~exited'
               PROVE  Executing(w)' \/ req'[w] = "done"
    BY DEF vars
  <2>0. req \in [Requests -> ReqStates] /\ w \in Requests /\ w \notin Reads
    BY DrainAssumption DEF IInv, TypeOK, Requests
  <2> USE <2>0 DEF Executing, drain, clocks
  <2>1. ASSUME NEW r \in Requests, Handler(r) PROVE Executing(w)' \/ req'[w] = "done"
    BY <2>1 DEF Handler, Refuse, Admit, Count, UseLs, Finish, Disconnect
  <2>2. CASE Shutdown \/ CtrlC \/ WindowEnds \/ ServerReturns \/ Tick
    BY <2>2 DEF Shutdown, CtrlC, WindowEnds, ServerReturns, Tick
  <2>3. CASE Sample
    BY <2>3 DEF Sample
  <2>4. CASE ReaperTick \/ ReaperStep
    BY <2>4 DEF ReaperTick, ReaperStep, ReaperWakes, Judge, EvictIdle, CleanUp, Exit
  <2> QED BY <2>1, <2>2, <2>3, <2>4 DEF Next
<1> QED BY Invariance, <1>1, PTL DEF Spec, WritesRunToTheirEnd

=============================================================================
