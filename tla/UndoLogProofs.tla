---------------------------- MODULE UndoLogProofs ----------------------------
(***************************************************************************)
(* Proofs about UndoLog, for any calls, files, contents and troubles: the  *)
(* write gate excludes, whatever changes a file is in a manifest           *)
(* beforehand, and an undo finds no conflict that nobody caused, both as   *)
(* long as no number is given to two calls.  At the end, for one call      *)
(* after the other, that UndoLog implements UndoHistory.                   *)
(***************************************************************************)
EXTENDS UndoRefinement, SequenceLemmas, WellFoundedInduction

Pcs == GatedPcs \cup FreePcs

\* The number of a call, also while it is not yet in OPEN_TXNS.
Num(c) == IF pc[c] = "Manifest" THEN cur[c].n ELSE open[c]

\* As long as no number was given out that a call had open, no two calls share one.
NumInv == ~reused => \A c, d \in Calls : c # d /\ Num(c) # 0 => Num(c) # Num(d)

Record(w) == [path |-> cur[w].path, before |-> cur[w].before, after |-> cur[w].after]

\* The number that is about to enter OPEN_TXNS, and the record of the write to come.
WriteInv ==
    \A w \in Calls :
        /\ pc[w] = "Manifest" => cur[w].n # 0 /\ open[w] = 0
        /\ pc[w] = "Write" =>
            open[w] # 0 /\ (~reused => Record(w) \in Range(Recs(open[w])))

\* An undo restores what the manifest says, while there is one.
RestoreInv ==
    \A u \in Calls : pc[u] = "Restore" /\ Present(job[u].n) =>
        Range(job[u].recs) \subseteq Range(Recs(job[u].n))

IInv == TypeOK /\ NumInv /\ WriteInv /\ RestoreInv

-----------------------------------------------------------------------------
(* Sets of numbers, and sequences.                                         *)

LEMMA MinExists ==
  ASSUME NEW T \in SUBSET Nat, T # {}
  PROVE  \E x \in T : \A y \in T : x <= y
<1> DEFINE R == {ss \in Nat \X Nat : ss[1] < ss[2]}
<1>1. IsWellFoundedOn(R, Nat)
  BY NatLessThanWellFounded DEF OpToRel
<1>2. \A x, y \in Nat : y < x => <<y, x>> \in R
  OBVIOUS
<1> HIDE DEF R
<1>3. PICK x \in T : \A y \in T : ~ (<<y, x>> \in R)
  BY <1>1, WFMin
<1>4. \A y \in T : x \in Nat /\ y \in Nat /\ ~(y < x)
  BY <1>2, <1>3
<1>5. \A y \in T : x <= y
  BY <1>4
<1> QED BY <1>5

\* CHOOSE finds what Max and Min stand for.
LEMMA MaxIs ==
  ASSUME NEW k \in Nat, NEW T \in SUBSET (0..k), T # {}
  PROVE  Max(T) \in T /\ \A y \in T : y <= Max(T)
<1> DEFINE U == {k - x : x \in T}
<1>0. \A x \in T : k - x \in Nat
  OBVIOUS
<1>1. U \in SUBSET Nat /\ U # {}
  BY <1>0
<1>2. PICK u \in U : \A y \in U : u <= y
  BY <1>1, MinExists
<1>3. PICK x \in T : u = k - x
  BY <1>2
<1>4. \A y \in T : y <= x
  <2> TAKE y \in T
  <2>1. k - y \in U
    OBVIOUS
  <2>2. k - x <= k - y
    BY <1>2, <1>3, <2>1
  <2> QED BY <2>2
<1>5. \E z \in T : \A y \in T : z >= y
  BY <1>4
<1> QED BY <1>5 DEF Max

LEMMA MinIs ==
  ASSUME NEW T \in SUBSET Nat, T # {}
  PROVE  Min(T) \in T
BY MinExists DEF Min

LEMMA NumbersFinite ==
  /\ IsFiniteSet(Numbers) /\ Numbers \in SUBSET (0..MaxN) /\ MaxN \in Nat
  /\ \A T \in SUBSET Numbers : IsFiniteSet(T) /\ Cardinality(T) \in Nat
<1>1. IsFiniteSet(Numbers)
  BY UndoAssumption, FS_Interval DEF Numbers
<1>2. \A T \in SUBSET Numbers : IsFiniteSet(T)
  BY <1>1, FS_Subset
<1> QED BY <1>1, <1>2, FS_CardinalityType, UndoAssumption DEF Numbers

LEMMA RangeAppend ==
  ASSUME NEW S, NEW q \in Seq(S), NEW e \in S
  PROVE  Append(q, e) \in Seq(S) /\ e \in Range(Append(q, e))
<1>1. Append(q, e)[Len(q) + 1] = e /\ Len(q) + 1 \in DOMAIN Append(q, e)
  OBVIOUS
<1> QED BY <1>1 DEF Range

LEMMA RangeTail ==
  ASSUME NEW S, NEW q \in Seq(S), q # <<>>
  PROVE  /\ Head(q) \in S /\ Tail(q) \in Seq(S)
         /\ Head(q) \in Range(q) /\ Range(Tail(q)) \subseteq Range(q)
<1>1. Head(q) = q[1] /\ 1 \in DOMAIN q
  OBVIOUS
<1>2. \A i \in DOMAIN Tail(q) : i + 1 \in DOMAIN q /\ Tail(q)[i] = q[i + 1]
  OBVIOUS
<1> QED BY <1>1, <1>2 DEF Range

-----------------------------------------------------------------------------
(* Pruning and numbering.                                                  *)

LEMMA AllocIsNew ==
  ASSUME NEW s \in [Numbers -> [at : {"none", "txn", "undone", "discarded"},
                                torn : BOOLEAN, recs : Seq(Rec)]]
  PROVE  /\ AllocTxnNum(s) \in Nat \ {0}
         /\ \A m \in Numbers : s[m].at # "none" => m < AllocTxnNum(s)
<1> DEFINE T == {0} \cup {n \in Numbers : s[n].at # "none"}
<1>1. T \in SUBSET (0..MaxN) /\ T # {} /\ MaxN \in Nat
  BY NumbersFinite
<1>2. Max(T) \in 0..MaxN /\ \A y \in T : y <= Max(T)
  BY <1>1, MaxIs
<1>3. AllocTxnNum(s) = 1 + Max(T)
  BY DEF AllocTxnNum
<1>4. \A m \in Numbers : s[m].at # "none" => m <= Max(T) /\ m \in Nat
  BY <1>1, <1>2
<1> HIDE DEF T
<1> QED BY <1>1, <1>2, <1>3, <1>4

-----------------------------------------------------------------------------
(* The types.                                                              *)

LEMMA InitIInv == Init => IInv
<1> SUFFICES ASSUME Init PROVE IInv
  OBVIOUS
<1> USE UndoAssumption DEF Init
<1>1. TypeOK
  <2>1. MaxN \in Nat /\ MaxTroubles \in Nat /\ MaxSteps \in Nat
    OBVIOUS
  <2>2. store \in [Numbers -> [at : {"none", "txn", "undone", "discarded"},
                               torn : BOOLEAN, recs : Seq(Rec)]]
    BY DEF NoTxn
  <2>3. job \in [Calls -> [op : {"undo", "redo"}, left : 0..MaxSteps, n : 0..MaxN, recs : Seq(Rec)]]
    BY <2>1 DEF NoJob
  <2>4. cur \in [Calls -> [path : Files \cup {None}, before : Contents \cup {Absent},
                           after : Contents \cup {Absent}, n : 0..MaxN]]
    BY <2>1 DEF NoWrite
  <2>5. \A n \in Numbers : store[n].recs = <<>>
    BY DEF NoTxn
  <2>6. /\ gate \in Calls \cup {None} /\ pc \in [Calls -> GatedPcs \cup FreePcs]
        /\ \A c \in Calls : gate # c /\ pc[c] = "Idle" /\ "Idle" \notin GatedPcs
    BY DEF GatedPcs, FreePcs
  <2>7. \A c \in Calls : job[c].n = 0
    BY DEF NoJob
  <2>8. /\ disk \in Image /\ open \in [Calls -> 0..MaxN]
        /\ phase \in [Calls -> {"tool", "format", "formatted"}]
        /\ wrote \in [Calls -> SUBSET Files]
    BY <2>1 DEF Image
  <2>9. /\ crashes \in Nat /\ mishaps \in Nat /\ crashes + mishaps <= MaxTroubles
    BY <2>1
  <2>10. reused \in BOOLEAN
    OBVIOUS
  <2>11. \A c \in Calls : pc[c] = "Idle"
    OBVIOUS
  <2> HIDE DEF Init
  <2> QED BY <2>2, <2>3, <2>4, <2>5, <2>6, <2>7, <2>8, <2>9, <2>10, <2>11 DEF TypeOK
<1>2. NumInv /\ WriteInv /\ RestoreInv
  BY DEF NumInv, WriteInv, RestoreInv, Num
<1> QED BY <1>1, <1>2 DEF IInv

Txns == [at : {"none", "txn", "undone", "discarded"}, torn : BOOLEAN, recs : Seq(Rec)]
StoreType(s) ==
    /\ s \in [Numbers -> Txns]
    /\ \A n \in Numbers : s[n].torn \/ s[n].at = "none" => s[n].recs = <<>>

LEMMA StoreSteps ==
  ASSUME TypeOK
  PROVE  /\ StoreType(store) /\ NoTxn \in Txns
         /\ \A n \in Numbers : StoreType([store EXCEPT ![n] = NoTxn])
         /\ \A k : StoreType(Pruned(k))
<1>1. StoreType(store)
  BY DEF TypeOK, StoreType, Txns
<1>2. NoTxn \in Txns /\ NoTxn.recs = <<>>
  BY DEF NoTxn, Txns
<1>3. \A n \in Numbers : StoreType([store EXCEPT ![n] = NoTxn])
  BY <1>1, <1>2 DEF StoreType
<1>4. \A k : StoreType(Pruned(k))
  BY <1>1, <1>2 DEF StoreType, Pruned
<1> QED BY <1>1, <1>2, <1>3, <1>4

LEMMA StoreOne ==
  ASSUME TypeOK, NEW n \in Numbers, NEW t \in Txns, t.torn \/ t.at = "none" => t.recs = <<>>,
         store' = [store EXCEPT ![n] = t]
  PROVE  StoreType(store)'
BY StoreSteps DEF StoreType

LEMMA RenameType ==
  ASSUME TypeOK, NEW n \in Numbers, NEW p \in {"txn", "undone", "discarded"},
         store' = [store EXCEPT ![n].at = p]
  PROVE  StoreType(store)'
<1> DEFINE t == [store[n] EXCEPT !.at = p]
<1>1. store[n] \in Txns /\ (store[n].torn => store[n].recs = <<>>)
  BY StoreSteps DEF StoreType
<1>2. t \in Txns /\ (t.torn \/ t.at = "none" => t.recs = <<>>)
  BY <1>1 DEF Txns
<1>3. store' = [store EXCEPT ![n] = t]
  OBVIOUS
<1> HIDE DEF t
<1> QED BY <1>2, <1>3, StoreOne

Jobs == [op : {"undo", "redo"}, left : 0..MaxSteps, n : 0..MaxN, recs : Seq(Rec)]

\* The types without those of the store.
RestType ==
    /\ disk \in Image
    /\ open \in [Calls -> 0..MaxN]
    /\ gate \in Calls \cup {None}
    /\ pc \in [Calls -> Pcs]
    /\ \A c \in Calls : gate = c <=> pc[c] \in GatedPcs
    /\ phase \in [Calls -> {"tool", "format", "formatted"}]
    /\ wrote \in [Calls -> SUBSET Files]
    /\ cur \in [Calls -> [path : Files \cup {None}, before : Contents \cup {Absent},
                           after : Contents \cup {Absent}, n : 0..MaxN]]
    /\ \A w \in Calls : pc[w] \in {"Record", "Manifest", "Write"} =>
        cur[w].path \in Files /\ cur[w].after \in Contents
    /\ job \in [Calls -> Jobs]
    /\ \A u \in Calls :
        /\ pc[u] = "Restore" <=> job[u].n # 0
        /\ pc[u] = "Restore" => job[u].left > 0
    /\ crashes \in Nat /\ mishaps \in Nat /\ crashes + mishaps <= MaxTroubles
    /\ reused \in BOOLEAN

LEMMA TypeParts == TypeOK <=> RestType /\ StoreType(store)
BY DEF TypeOK, RestType, StoreType, Txns, Jobs, Pcs

LEMMA TypeParts2 == TypeOK' <=> RestType' /\ StoreType(store)'
BY DEF TypeOK, RestType, StoreType, Txns, Jobs, Pcs

LEMMA MishapCounts ==
  ASSUME RestType, crashes' = crashes, Mishap \/ mishaps' = mishaps
  PROVE  mishaps' \in Nat /\ crashes' \in Nat /\ crashes' + mishaps' <= MaxTroubles
<1>1. /\ crashes \in Nat /\ mishaps \in Nat /\ MaxTroubles \in Nat
      /\ crashes + mishaps <= MaxTroubles
  BY UndoAssumption DEF RestType
<1> QED BY <1>1 DEF Mishap

\* A directory is made for w, and a number allocated.
LEMMA MakeDirIs ==
  ASSUME TypeOK, NEW w \in Calls, MakeDir(w)
  PROVE  \E k \in 0..MaxN, n \in Numbers :
            /\ Prune(k) /\ n = AllocTxnNum(Pruned(k))
            /\ \A m \in Numbers : Pruned(k)[m].at # "none" => m < n
            /\ store' = [Pruned(k) EXCEPT ![n] = [at |-> "txn", torn |-> TRUE, recs |-> <<>>]]
            /\ cur' = [cur EXCEPT ![w].n = n]
            /\ reused' = (reused \/ \E v \in Calls : open[v] = n)
<1>1. PICK k \in 0..MaxN :
        LET n == AllocTxnNum(Pruned(k)) IN
            /\ Prune(k) /\ n <= MaxN
            /\ store' = [Pruned(k) EXCEPT ![n] = [at |-> "txn", torn |-> TRUE, recs |-> <<>>]]
            /\ cur' = [cur EXCEPT ![w].n = n]
            /\ reused' = (reused \/ \E v \in Calls : open[v] = n)
  BY DEF MakeDir
<1>2. Pruned(k) \in [Numbers -> Txns]
  BY StoreSteps, TypeParts DEF StoreType
<1>3. /\ AllocTxnNum(Pruned(k)) \in Nat \ {0}
      /\ \A m \in Numbers : Pruned(k)[m].at # "none" => m < AllocTxnNum(Pruned(k))
  BY <1>2, AllocIsNew DEF Txns
<1>4. AllocTxnNum(Pruned(k)) \in Numbers
  BY <1>1, <1>3, UndoAssumption DEF Numbers
<1> QED BY <1>1, <1>3, <1>4

LEMMA NumberedType ==
  ASSUME RestType, NEW w \in Calls, NEW n \in 0..MaxN, cur' = [cur EXCEPT ![w].n = n]
  PROVE  /\ cur' \in [Calls -> [path : Files \cup {None}, before : Contents \cup {Absent},
                                 after : Contents \cup {Absent}, n : 0..MaxN]]
         /\ \A x \in Calls : cur'[x].path = cur[x].path /\ cur'[x].after = cur[x].after
<1>1. cur \in [Calls -> [path : Files \cup {None}, before : Contents \cup {Absent},
                         after : Contents \cup {Absent}, n : 0..MaxN]]
  BY DEF RestType
<1> QED BY <1>1

LEMMA ToolTypes ==
  ASSUME TypeOK, NEW w \in Calls, ToolNext(w)
  PROVE  TypeOK'
<1>0. RestType /\ StoreType(store)
  BY TypeParts
<1> USE UndoAssumption, <1>0
<1>1. RestType'
  <2> USE DEF RestType, Pcs, GatedPcs, FreePcs, volatile, budgets, Goto, Acquire, Release
  <2>1. CASE StartTool(w)
    BY <2>1 DEF StartTool
  <2>2. ASSUME NEW f \in Files, NEW c \in Contents, ReadBefore(w, f, c) PROVE RestType'
    <3>1. disk[f] \in Contents \cup {Absent}
      BY DEF Image
    <3> QED BY <2>2, <3>1 DEF ReadBefore
  <2>3. CASE MakeDir(w)
    <3>1. PICK k \in 0..MaxN, n \in Numbers :
            /\ Prune(k) /\ cur' = [cur EXCEPT ![w].n = n]
            /\ reused' = (reused \/ \E v \in Calls : open[v] = n)
      BY <2>3, MakeDirIs
    <3>2. n \in 0..MaxN
      BY NumbersFinite
    <3>3. /\ cur' \in [Calls -> [path : Files \cup {None}, before : Contents \cup {Absent},
                                  after : Contents \cup {Absent}, n : 0..MaxN]]
          /\ \A x \in Calls : cur'[x].path = cur[x].path /\ cur'[x].after = cur[x].after
      <4> HIDE DEF RestType
      <4> QED BY <3>1, <3>2, NumberedType
    <3>4. /\ pc[w] = "Record" /\ pc' = [pc EXCEPT ![w] = "Manifest"]
          /\ UNCHANGED <<disk, open, gate, phase, wrote, job, crashes>>
      BY <2>3 DEF MakeDir
    <3>5. mishaps' \in Nat /\ crashes' \in Nat /\ crashes' + mishaps' <= MaxTroubles
      <4> HIDE DEF RestType
      <4> QED BY <3>1, <3>4, MishapCounts DEF Prune
    <3>6. reused' \in BOOLEAN
      BY <3>1
    <3> QED BY <3>3, <3>4, <3>5, <3>6
  <2>4. CASE WriteEmptyManifest(w)
    <3>1. cur[w].n \in 0..MaxN
      OBVIOUS
    <3> QED BY <2>4, <3>1 DEF WriteEmptyManifest
  <2>5. CASE WalAppend(w)
    BY <2>5 DEF WalAppend
  <2>6. CASE WriteTarget(w)
    <3>1. cur[w].path \in Files /\ cur[w].after \in Contents
      BY <2>6 DEF WriteTarget
    <3> QED BY <2>6, <3>1 DEF WriteTarget, NoWrite, Image
  <2>7. CASE Return(w)
    BY <2>7 DEF Return
  <2>8. CASE StartFormat(w)
    <3>1. mishaps' \in Nat /\ crashes' \in Nat /\ crashes' + mishaps' <= MaxTroubles
      <4> HIDE DEF RestType
      <4> QED BY <2>8, MishapCounts DEF StartFormat
    <3> QED BY <2>8, <3>1 DEF StartFormat
  <2>9. CASE Fail(w)
    <3>1. mishaps' \in Nat /\ crashes' \in Nat /\ crashes' + mishaps' <= MaxTroubles
      <4> HIDE DEF RestType
      <4> QED BY <2>9, MishapCounts DEF Fail
    <3> QED BY <2>9, <3>1 DEF Fail, NoWrite
  <2>10. CASE StartCommit(w)
    BY <2>10 DEF StartCommit
  <2>11. CASE CommitTimesOut(w)
    <3>1. mishaps' \in Nat /\ crashes' \in Nat /\ crashes' + mishaps' <= MaxTroubles
      <4> HIDE DEF RestType
      <4> QED BY <2>11, MishapCounts DEF CommitTimesOut
    <3> QED BY <2>11, <3>1 DEF CommitTimesOut
  <2>12. CASE RemoveUndone(w)
    BY <2>12 DEF RemoveUndone
  <2>13. CASE Commit(w)
    BY <2>13 DEF Commit, EndTool
  <2>14. CASE Abort(w)
    BY <2>14 DEF Abort, EndTool
  <2> QED BY <2>1, <2>2, <2>3, <2>4, <2>5, <2>6, <2>7, <2>8, <2>9, <2>10, <2>11, <2>12, <2>13, <2>14
       DEF ToolNext
<1>2. StoreType(store)'
  <2> USE DEF StoreType
  <2>1. CASE MakeDir(w)
    <3> DEFINE t == [at |-> "txn", torn |-> TRUE, recs |-> <<>>]
    <3>1. t \in Txns /\ t.recs = <<>>
      BY DEF Txns
    <3>2. PICK k \in 0..MaxN : store' = [Pruned(k) EXCEPT ![AllocTxnNum(Pruned(k))] = t]
      BY <2>1 DEF MakeDir
    <3>3. StoreType(Pruned(k))
      BY StoreSteps
    <3> HIDE DEF t
    <3>4. PICK s, n : StoreType(s) /\ store' = [s EXCEPT ![n] = t]
      BY <3>2, <3>3
    <3> QED BY <3>1, <3>4
  <2>2. CASE WriteEmptyManifest(w)
    <3> DEFINE n == cur[w].n
               t == [store[n] EXCEPT !.torn = FALSE]
    <3>1. store' = [store EXCEPT ![n] = t]
      BY <2>2 DEF WriteEmptyManifest
    <3>2. CASE n \in Numbers
      <4>1. t \in Txns /\ (t.at = "none" => t.recs = <<>>) /\ ~t.torn
        BY <3>2, ZenonT(40) DEF Txns
      <4> HIDE DEF t, n
      <4> QED BY <3>1, <3>2, <4>1, StoreOne
    <3>3. CASE n \notin Numbers
      <4>1. store' = store
        BY <3>1, <3>3
      <4> QED BY <4>1
    <3> QED BY <3>2, <3>3
  <2>3. CASE WalAppend(w)
    <3> DEFINE r == [path |-> cur[w].path, before |-> cur[w].before, after |-> cur[w].after]
    <3>1. r \in Rec
      BY <2>3 DEF WalAppend, RestType, Rec
    <3>2. /\ open[w] \in Numbers /\ store[open[w]].at = "txn" /\ ~store[open[w]].torn
          /\ store' = [store EXCEPT ![open[w]].recs = Append(@, r)]
      BY <2>3 DEF WalAppend, ManifestRead, RestType, Numbers
    <3>3. Append(store[open[w]].recs, r) \in Seq(Rec)
      BY <3>1, <3>2 DEF Txns
    <3> HIDE DEF r
    <3> QED BY <3>2, <3>3 DEF Txns
  <2>4. CASE RemoveUndone(w) \/ Abort(w)
    <3>0. open[w] \in 0..MaxN
      BY DEF RestType
    <3>1. store' = store \/ \E n \in Numbers : store' = [store EXCEPT ![n] = NoTxn]
      <4>1. CASE RemoveUndone(w)
        BY <4>1 DEF RemoveUndone, RemoveDir, Under
      <4>2. CASE Abort(w) /\ open[w] # 0 /\ store[open[w]].at = "txn"
        <5>1. open[w] \in Numbers
          BY <4>2, <3>0 DEF Numbers
        <5> QED BY <4>2, <5>1 DEF Abort, RemoveDir
      <4>3. CASE Abort(w) /\ ~(open[w] # 0 /\ store[open[w]].at = "txn")
        BY <4>3 DEF Abort
      <4> QED BY <2>4, <4>1, <4>2, <4>3
    <3> QED BY <3>1, StoreSteps
  <2>5. CASE UNCHANGED store
    BY <2>5
  <2> QED BY <2>1, <2>2, <2>3, <2>4, <2>5
       DEF ToolNext, StartTool, ReadBefore, WriteTarget, Return, StartFormat, Fail, StartCommit,
           CommitTimesOut, Commit
<1> QED BY <1>1, <1>2, TypeParts2

LEMMA JobIs ==
  ASSUME RestType, NEW u \in Calls, NEW j \in Jobs, job' = [job EXCEPT ![u] = j]
  PROVE  /\ job' \in [Calls -> Jobs] /\ job'[u] = j
         /\ \A c \in Calls \ {u} : job'[c] = job[c]
BY DEF RestType

LEMMA UndoTypes ==
  ASSUME TypeOK, NEW u \in Calls, UndoNext(u)
  PROVE  TypeOK'
<1>0. RestType /\ StoreType(store)
  BY TypeParts
<1>j. /\ job[u] \in Jobs /\ job[u].left \in 0..MaxSteps /\ job[u].recs \in Seq(Rec)
      /\ job[u].n \in 0..MaxN /\ (pc[u] = "Restore" <=> job[u].n # 0)
      /\ (pc[u] = "Restore" => job[u].left > 0)
      /\ NoJob \in Jobs /\ NoJob.n = 0
  BY <1>0, UndoAssumption DEF RestType, Jobs, NoJob
<1> USE UndoAssumption, <1>0, <1>j
<1>1. RestType'
  <2>t. ASSUME NEW j \in Jobs, job' = [job EXCEPT ![u] = j], NEW q \in {"Top", "Restore", "Idle"},
               pc' = [pc EXCEPT ![u] = q], q = "Restore" <=> j.n # 0, j.n # 0 => j.left > 0,
               \/ pc[u] = "Idle" /\ gate = None /\ gate' = u /\ q = "Top"
               \/ pc[u] \in {"Top", "Restore"} /\ gate' = gate /\ q # "Idle"
               \/ pc[u] \in {"Top", "Restore"} /\ gate' = None /\ q = "Idle",
               UNCHANGED <<open, phase, wrote, cur, reused>>, disk' \in Image,
               mishaps' \in Nat /\ crashes' \in Nat /\ crashes' + mishaps' <= MaxTroubles
        PROVE  RestType'
    <3>1. /\ job' \in [Calls -> Jobs] /\ job'[u] = j
          /\ \A c \in Calls \ {u} : job'[c] = job[c]
      BY <2>t, JobIs
    <3>2. gate' \in Calls \cup {None} /\ \A c \in Calls : gate' = c <=> pc'[c] \in GatedPcs
      BY <2>t, ZenonT(40) DEF RestType, Pcs, GatedPcs, FreePcs
    <3>3. pc' \in [Calls -> Pcs] /\ \A c \in Calls :
            pc'[c] \in {"Record", "Manifest", "Write"} => pc[c] \in {"Record", "Manifest", "Write"}
      BY <2>t DEF RestType, Pcs, GatedPcs, FreePcs
    <3>4. \A c \in Calls : /\ pc'[c] = "Restore" <=> job'[c].n # 0
                           /\ pc'[c] = "Restore" => job'[c].left > 0
      BY <2>t, <3>1 DEF RestType
    <3> QED BY <2>t, <3>1, <3>2, <3>3, <3>4 DEF RestType
  <2>g. /\ gate \in Calls \cup {None} /\ (gate = u <=> pc[u] \in GatedPcs) /\ u # None
        /\ pc \in [Calls -> Pcs] /\ disk \in Image
        /\ crashes \in Nat /\ mishaps \in Nat /\ crashes + mishaps <= MaxTroubles
    BY DEF RestType
  <2> USE DEF Goto
  <2>1. ASSUME NEW op \in {"undo", "redo"}, NEW k \in 0..MaxSteps, StartUndo(u, op, k)
        PROVE  RestType'
    <3> DEFINE j == [op |-> op, left |-> k, n |-> 0, recs |-> <<>>]
    <3>1. j \in Jobs /\ j.n = 0
      BY DEF Jobs
    <3>2. job' = [job EXCEPT ![u] = j] /\ pc' = [pc EXCEPT ![u] = "Top"] /\ pc[u] = "Idle"
          /\ gate = None /\ gate' = u /\ UNCHANGED <<disk, open, phase, wrote, cur, budgets>>
      BY <2>1 DEF StartUndo, Acquire
    <3> HIDE DEF j
    <3> QED BY <3>1, <3>2, <2>g, <2>t DEF budgets
  <2>2. CASE List(u)
    <3>1. mishaps' \in Nat /\ crashes' \in Nat /\ crashes' + mishaps' <= MaxTroubles
      BY <2>2, MishapCounts DEF List, Prune
    <3> QED BY <2>2, <3>1 DEF List, volatile, RestType
  <2>e. ASSUME EndUndo(u), pc[u] \in {"Top", "Restore"},
               UNCHANGED <<disk, open, phase, wrote, cur, reused>>,
               mishaps' \in Nat /\ crashes' \in Nat /\ crashes' + mishaps' <= MaxTroubles
        PROVE  RestType'
    <3>1. gate' = None
      BY <2>e, <2>g DEF EndUndo, Release, GatedPcs
    <3> QED BY <2>e, <2>g, <2>t, <3>1 DEF EndUndo
  <2>3. CASE NothingLeft(u)
    BY <2>3, <2>e, <2>g DEF NothingLeft, budgets
  <2>4. ASSUME NEW n \in Numbers, Discard(u, n) \/ NothingToDo(u, n) PROVE RestType'
    <3>1. PICK left \in 0..MaxSteps : job' = [job EXCEPT ![u].left = left]
      BY <2>4 DEF Discard, NothingToDo, Counted
    <3> DEFINE j == [job[u] EXCEPT !.left = left]
    <3>2. j \in Jobs /\ j.n = job[u].n
      BY DEF Jobs
    <3>3. pc[u] = "Top" /\ UNCHANGED <<disk, open, gate, pc, phase, wrote, cur, budgets>>
      BY <2>4 DEF Discard, NothingToDo, Works
    <3>4. job' = [job EXCEPT ![u] = j] /\ pc' = [pc EXCEPT ![u] = "Top"]
      BY <3>1, <3>3, <2>g
    <3> HIDE DEF j
    <3> QED BY <3>2, <3>3, <3>4, <2>g, <2>t DEF budgets
  <2>5. ASSUME NEW n \in Numbers, StartRestore(u, n) PROVE RestType'
    <3>1. Recs(n) \in Seq(Rec) /\ n \in 1..MaxN
      BY DEF StoreType, Txns, Recs, Numbers
    <3> DEFINE j == [job[u] EXCEPT !.n = n, !.recs = Recs(n)]
    <3>2. j \in Jobs /\ j.n = n /\ j.left = job[u].left
      <4>1. n \in 0..MaxN /\ Recs(n) \in Seq(Rec) /\ job[u] \in Jobs
        BY <3>1
      <4> HIDE <1>j
      <4> QED BY <4>1 DEF Jobs
    <3>3. /\ pc[u] = "Top" /\ job[u].left > 0 /\ pc' = [pc EXCEPT ![u] = "Restore"]
          /\ job' = [job EXCEPT ![u] = j] /\ UNCHANGED <<disk, open, gate, phase, wrote, cur, budgets>>
      BY <2>5 DEF StartRestore, Works
    <3>4. j.n # 0 /\ j.left > 0
      BY <3>1, <3>2, <3>3
    <3>5. disk' \in Image /\ gate' = gate /\ reused' = reused
          /\ mishaps' \in Nat /\ crashes' \in Nat /\ crashes' + mishaps' <= MaxTroubles
      BY <3>3, <2>g DEF budgets
    <3> HIDE DEF j
    <3> HIDE <1>j
    <3> QED BY <3>2, <3>3, <3>4, <3>5, <2>t
  <2>6. CASE RestoreFile(u)
    <3>1. /\ Head(job[u].recs) \in Rec /\ Tail(job[u].recs) \in Seq(Rec)
      BY <2>6, RangeTail DEF RestoreFile
    <3>2. disk' \in Image
      BY <2>6, <2>g, <3>1 DEF RestoreFile, Image, Rec
    <3> DEFINE j == [job[u] EXCEPT !.recs = Tail(@)]
    <3>3. j \in Jobs /\ j.n = job[u].n /\ j.left = job[u].left
      BY <3>1 DEF Jobs
    <3>4. /\ pc[u] = "Restore" /\ job' = [job EXCEPT ![u] = j]
          /\ UNCHANGED <<open, gate, pc, phase, wrote, cur, budgets>>
      BY <2>6 DEF RestoreFile
    <3>5. pc' = [pc EXCEPT ![u] = "Restore"]
      BY <3>4, <2>g
    <3> HIDE DEF j
    <3> QED BY <3>2, <3>3, <3>4, <3>5, <2>g, <2>t DEF budgets
  <2>7. CASE Mark(u)
    <3> DEFINE j == [job[u] EXCEPT !.left = job[u].left - 1, !.n = 0]
    <3>1. pc[u] = "Restore" /\ job' = [job EXCEPT ![u] = j] /\ pc' = [pc EXCEPT ![u] = "Top"]
          /\ UNCHANGED <<disk, open, gate, phase, wrote, cur, budgets>>
      BY <2>7 DEF Mark
    <3>2. j \in Jobs /\ j.n = 0
      <4>1. job[u].left - 1 \in 0..MaxSteps /\ 0 \in 0..MaxN /\ job[u] \in Jobs
        BY <3>1
      <4> HIDE <1>j
      <4> QED BY <4>1 DEF Jobs
    <3> HIDE DEF j
    <3> QED BY <3>1, <3>2, <2>g, <2>t DEF budgets
  <2>8. CASE RestoreFails(u)
    <3>1. mishaps' \in Nat /\ crashes' \in Nat /\ crashes' + mishaps' <= MaxTroubles
      BY <2>8, MishapCounts DEF RestoreFails
    <3> QED BY <2>8, <3>1, <2>e DEF RestoreFails
  <2>9. ASSUME NEW k \in 1..MaxSteps, StartUndo(u, "undo", k) PROVE RestType'
    BY <2>1, <2>9
  <2>10. CASE StartUndo(u, "redo", 1)
    BY <2>1, <2>10
  <2> QED BY <2>2, <2>3, <2>4, <2>5, <2>6, <2>7, <2>8, <2>9, <2>10 DEF UndoNext
<1>2. StoreType(store)'
  <2> USE DEF StoreType
  <2>1. CASE List(u)
    <3>1. PICK k \in 0..MaxN : store' = Pruned(k)
      BY <2>1 DEF List
    <3> QED BY <3>1, StoreSteps
  <2>2. ASSUME NEW n \in Numbers, Discard(u, n) \/ NothingToDo(u, n) PROVE StoreType(store)'
    <3>1. PICK p \in {"txn", "undone", "discarded"} : store' = [store EXCEPT ![n].at = p]
      BY <2>2 DEF Discard, NothingToDo, Rename, To, RestType
    <3> QED BY <2>2, <3>1, RenameType
  <2>3. CASE Mark(u)
    <3>1. job[u].n \in Numbers
      BY <2>3 DEF Mark, RestType, Numbers
    <3>2. PICK p \in {"txn", "undone", "discarded"} : store' = [store EXCEPT ![job[u].n].at = p]
      BY <2>3 DEF Mark, Rename, To
    <3> QED BY <3>1, <3>2, RenameType
  <2>4. CASE UNCHANGED store
    BY <2>4
  <2> QED BY <2>1, <2>2, <2>3, <2>4
       DEF UndoNext, StartUndo, NothingLeft, StartRestore, RestoreFile, RestoreFails
<1> QED BY <1>1, <1>2, TypeParts2

LEMMA TypeStep ==
  ASSUME TypeOK, [Next]_vars
  PROVE  TypeOK'
<1>1. ASSUME NEW c \in Calls, ToolNext(c) PROVE TypeOK'
  BY <1>1, ToolTypes
<1>2. ASSUME NEW c \in Calls, UndoNext(c) PROVE TypeOK'
  BY <1>2, UndoTypes
<1>3. CASE Crash
  BY <1>3, UndoAssumption DEF Crash, TypeOK, NoWrite, NoJob, GatedPcs, FreePcs
<1>4. CASE Edit
  <2>1. disk' \in Image
    BY <1>4 DEF Edit, TypeOK, Image
  <2>2. RestType
    BY TypeParts
  <2>3. mishaps' \in Nat /\ crashes' \in Nat /\ crashes' + mishaps' <= MaxTroubles
    BY <1>4, <2>2, MishapCounts DEF Edit
  <2> QED BY <1>4, <2>1, <2>3 DEF Edit, TypeOK, volatile
<1>5. CASE UNCHANGED vars
  BY <1>5 DEF TypeOK, vars, volatile, budgets
<1> QED BY <1>1, <1>2, <1>3, <1>4, <1>5 DEF Next

-----------------------------------------------------------------------------
(* The numbers.                                                            *)

LEMMA OneGate ==
  ASSUME TypeOK
  PROVE  /\ \A c, d \in Calls : pc[c] \in GatedPcs /\ pc[d] \in GatedPcs => c = d
         /\ gate = None => \A c \in Calls : pc[c] \notin GatedPcs
         /\ \A c \in Calls : Num(c) \in 0..MaxN
BY UndoAssumption DEF TypeOK, Num

LEMMA NumShrinks ==
  ASSUME NumInv, reused' = reused, \A c \in Calls : Num(c)' \in {Num(c), 0}
  PROVE  NumInv'
BY DEF NumInv

\* A number that nobody has open is new.
LEMMA NumAdded ==
  ASSUME IInv, NEW w \in Calls, MakeDir(w)
  PROVE  NumInv' /\ (~reused' => ~reused)
<1>0. TypeOK /\ NumInv
  BY DEF IInv
<1>1. PICK n \in Numbers : /\ cur' = [cur EXCEPT ![w].n = n]
                           /\ reused' = (reused \/ \E v \in Calls : open[v] = n)
  BY <1>0, MakeDirIs
<1>2. /\ pc[w] = "Record" /\ open[w] = 0 /\ pc' = [pc EXCEPT ![w] = "Manifest"] /\ open' = open
      /\ pc \in [Calls -> GatedPcs \cup FreePcs]
      /\ cur'[w].n = n
  BY <1>0, <1>1 DEF MakeDir, Goto, TypeOK
<1>3. Num(w)' = n
  BY <1>1, <1>2 DEF Num
<1>4. \A c \in Calls \ {w} : Num(c)' = Num(c) /\ Num(c) = open[c]
  <2>1. \A c \in Calls \ {w} : pc[c] # "Manifest"
    BY <1>0, <1>2, OneGate DEF GatedPcs
  <2> QED BY <1>2, <2>1 DEF Num
<1>5. ~reused' => ~reused /\ \A c \in Calls \ {w} : Num(c)' # n
  BY <1>1, <1>4
<1>6. ~reused' => \A c, d \in Calls : c # d /\ Num(c)' # 0 => Num(c)' # Num(d)'
  <2> SUFFICES ASSUME ~reused', NEW c \in Calls, NEW d \in Calls, c # d, Num(c)' # 0
               PROVE  Num(c)' # Num(d)'
    OBVIOUS
  <2>1. CASE c = w \/ d = w
    BY <2>1, <1>3, <1>5
  <2>2. CASE c # w /\ d # w
    BY <2>2, <1>0, <1>4, <1>5 DEF NumInv
  <2> QED BY <2>1, <2>2
<1> QED BY <1>5, <1>6 DEF NumInv

-----------------------------------------------------------------------------
(* The steps of the tools.                                                 *)

\* Without a new directory a call keeps its number, or gives it up.
LEMMA ToolNumbers ==
  ASSUME IInv, NEW w \in Calls, ToolNext(w), ~MakeDir(w)
  PROVE  reused' = reused /\ \A c \in Calls : Num(c)' \in {Num(c), 0}
<1>1. /\ TypeOK /\ WriteInv /\ open \in [Calls -> 0..MaxN] /\ pc \in [Calls -> GatedPcs \cup FreePcs]
  BY DEF IInv, TypeOK
<1>2. \A c \in Calls \ {w} : pc'[c] = pc[c] /\ open'[c] = open[c] /\ cur'[c] = cur[c]
  BY <1>1 DEF ToolNext, StartTool, ReadBefore, MakeDir, WriteEmptyManifest, WalAppend,
     WriteTarget, Return, StartFormat, Fail, StartCommit, CommitTimesOut, RemoveUndone, Commit,
     Abort, EndTool, Goto, volatile, TypeOK
<1>3. \A c \in Calls \ {w} : Num(c)' = Num(c)
  BY <1>2 DEF Num
<1>4. reused' = reused
  BY DEF ToolNext, StartTool, ReadBefore, WriteEmptyManifest, WalAppend,
     WriteTarget, Return, StartFormat, Fail, StartCommit, CommitTimesOut, RemoveUndone, Commit,
     Abort, budgets
<1>5. CASE WriteEmptyManifest(w)
  <2>1. pc[w] = "Manifest" /\ pc'[w] = "Record" /\ open'[w] = cur[w].n
    BY <1>1, <1>5 DEF WriteEmptyManifest, Goto
  <2> QED BY <2>1, <1>3, <1>4 DEF Num
<1>6. CASE RemoveUndone(w)
  <2>1. open' = open /\ pc' = pc /\ cur' = cur
    BY <1>6 DEF RemoveUndone, volatile
  <2> QED BY <2>1, <1>4 DEF Num
<1>7. CASE ~WriteEmptyManifest(w) /\ ~RemoveUndone(w)
  <2>1. pc'[w] # "Manifest" /\ open'[w] \in {open[w], 0}
    BY <1>1, <1>7 DEF ToolNext, StartTool, ReadBefore, WalAppend,
       WriteTarget, Return, StartFormat, Fail, StartCommit, CommitTimesOut, Commit,
       Abort, EndTool, Goto
  <2>2. pc[w] = "Manifest" => open[w] = 0
    BY <1>1 DEF WriteInv
  <2>3. Num(w)' \in {Num(w), 0}
    BY <2>1, <2>2 DEF Num
  <2> QED BY <2>3, <1>3, <1>4
<1> QED BY <1>5, <1>6, <1>7

\* Beside whoever holds the gate, a call can only give up, and takes with it no directory
\* but its own.
LEMMA OthersGiveUp ==
  ASSUME IInv, NEW w \in Calls, ToolNext(w), NEW c \in Calls \ {w}, pc[c] \in GatedPcs
  PROVE  /\ disk' = disk /\ job' = job /\ reused' = reused
         /\ ~reused /\ Num(c) # 0 => store'[Num(c)] = store[Num(c)]
         /\ \/ store' = store
            \/ /\ pc[w] = "Abort" /\ open[w] \in Numbers
               /\ store' = [store EXCEPT ![open[w]] = NoTxn]
<1>1. TypeOK /\ NumInv /\ open \in [Calls -> 0..MaxN] /\ StoreType(store)
  BY StoreSteps DEF IInv, TypeOK
<1>2. pc[w] \notin GatedPcs /\ gate # None
  BY <1>1, OneGate
<1>3. Abort(w) \/ CommitTimesOut(w)
  BY <1>2 DEF ToolNext, StartTool, ReadBefore, MakeDir, WriteEmptyManifest, WalAppend, WriteTarget,
     Return, StartFormat, Fail, StartCommit, RemoveUndone, Commit, Acquire, GatedPcs
<1>4. CASE CommitTimesOut(w)
  BY <1>4 DEF CommitTimesOut
<1>5. CASE Abort(w)
  <2>1. Num(w) = open[w]
    BY <1>2 DEF Num, GatedPcs
  <2>2. ~reused /\ Num(c) # 0 => Num(c) # open[w]
    BY <1>1, <2>1 DEF NumInv
  <2>3. \/ store' = store
        \/ open[w] \in Numbers /\ store' = [store EXCEPT ![open[w]] = NoTxn]
    BY <1>1, <1>5 DEF Abort, RemoveDir, Numbers
  <2>4. Num(c) # 0 => Num(c) \in Numbers
    BY <1>1, OneGate DEF Numbers
  <2>5. disk' = disk /\ job' = job /\ reused' = reused /\ pc[w] = "Abort"
    BY <1>5 DEF Abort, budgets
  <2> QED BY <1>1, <2>2, <2>3, <2>4, <2>5 DEF StoreType
<1> QED BY <1>3, <1>4, <1>5

LEMMA ToolStep ==
  ASSUME IInv, NEW w \in Calls, ToolNext(w)
  PROVE  NumInv' /\ WriteInv' /\ RestoreInv'
<1>1. /\ TypeOK /\ NumInv /\ WriteInv /\ RestoreInv /\ StoreType(store)
      /\ open \in [Calls -> 0..MaxN] /\ pc \in [Calls -> GatedPcs \cup FreePcs]
      /\ cur \in [Calls -> [path : Files \cup {None}, before : Contents \cup {Absent},
                             after : Contents \cup {Absent}, n : 0..MaxN]]
  BY StoreSteps DEF IInv, TypeOK
<1>2. /\ \A c \in Calls \ {w} : pc'[c] = pc[c] /\ open'[c] = open[c] /\ cur'[c] = cur[c]
      /\ job' = job /\ pc'[w] \notin {"Top", "Restore"}
  BY <1>1 DEF ToolNext, StartTool, ReadBefore, MakeDir, WriteEmptyManifest, WalAppend,
     WriteTarget, Return, StartFormat, Fail, StartCommit, CommitTimesOut, RemoveUndone, Commit,
     Abort, EndTool, Goto, volatile
<1>3. NumInv' /\ (~reused' => ~reused)
  BY <1>1, NumAdded, NumShrinks, ToolNumbers
<1>4. ASSUME NEW c \in Calls \ {w}
      PROVE  /\ pc'[c] = "Manifest" => cur'[c].n # 0 /\ open'[c] = 0
             /\ pc'[c] = "Write" =>
                    open'[c] # 0 /\ (~reused' => Record(c)' \in Range(Recs(open[c]))')
  <2>1. CASE pc[c] = "Write"
    <3>1. open[c] # 0 /\ (~reused => Record(c) \in Range(Recs(open[c]))) /\ Num(c) = open[c]
      BY <2>1, <1>1 DEF WriteInv, Num
    <3>2. ~reused => store'[open[c]] = store[open[c]]
      BY <2>1, <3>1, OthersGiveUp DEF GatedPcs
    <3>3. Record(c)' = Record(c) /\ (~reused => Recs(open[c])' = Recs(open[c]))
      BY <1>2, <3>2 DEF Record, Recs
    <3> QED BY <3>1, <3>3, <1>2, <1>3, <2>1
  <2>2. CASE pc[c] # "Write"
    BY <2>2, <1>1, <1>2 DEF WriteInv
  <2> QED BY <2>1, <2>2
<1>5. /\ pc'[w] = "Manifest" => cur'[w].n # 0 /\ open'[w] = 0
      /\ pc'[w] = "Write" =>
            open'[w] # 0 /\ (~reused' => Record(w)' \in Range(Recs(open[w]))')
  <2>1. CASE MakeDir(w)
    <3>1. PICK n \in Numbers : cur' = [cur EXCEPT ![w].n = n]
      BY <2>1, <1>1, MakeDirIs
    <3>2. cur'[w].n # 0
      BY <3>1, <1>1 DEF Numbers
    <3>3. open'[w] = 0 /\ pc'[w] # "Write"
      BY <2>1, <1>1 DEF MakeDir, Goto
    <3> QED BY <3>2, <3>3
  <2>2. CASE WalAppend(w)
    <3> DEFINE n == open[w]
               q == store[n].recs
               r == [path |-> cur[w].path, before |-> cur[w].before, after |-> cur[w].after]
    <3>1. /\ n \in Numbers /\ cur' = cur /\ open' = open /\ pc'[w] = "Write"
          /\ store' = [store EXCEPT ![n].recs = Append(@, r)]
      BY <2>2, <1>1 DEF WalAppend, Goto, Numbers
    <3>2. r \in Rec /\ q \in Seq(Rec)
      BY <2>2, <3>1, <1>1 DEF WalAppend, TypeOK, Rec, StoreType, Txns
    <3>3. store'[n].recs = Append(q, r)
      BY <3>1, <1>1 DEF StoreType, Txns
    <3>4. r \in Range(store'[n].recs)
      <4> HIDE DEF q, r, n
      <4> QED BY <3>2, <3>3, RangeAppend
    <3>5. Record(w)' = r /\ Recs(open[w])' = store'[n].recs /\ open'[w] # 0
      BY <3>1 DEF Record, Recs, Numbers
    <3> QED BY <3>1, <3>4, <3>5
  <2>3. CASE pc'[w] \notin {"Manifest", "Write"}
    BY <2>3
  <2>4. pc'[w] \notin {"Manifest", "Write"} \/ MakeDir(w) \/ WalAppend(w) \/ RemoveUndone(w)
    BY <1>1 DEF ToolNext, StartTool, ReadBefore, WriteEmptyManifest, WriteTarget, Return,
       StartFormat, Fail, StartCommit, CommitTimesOut, Commit, Abort, EndTool, Goto
  <2>5. RemoveUndone(w) => pc'[w] \notin {"Manifest", "Write"}
    BY DEF RemoveUndone, volatile
  <2> QED BY <2>1, <2>2, <2>3, <2>4, <2>5
<1>6. RestoreInv'
  <2> SUFFICES ASSUME NEW u \in Calls, pc'[u] = "Restore", Present(job[u].n)'
               PROVE  Range(job'[u].recs) \subseteq Range(Recs(job[u].n))'
    BY DEF RestoreInv
  <2>1. u # w /\ pc[u] = "Restore" /\ job'[u] = job[u]
    BY <1>2
  <2>2. PICK n : n = job[u].n /\ n \in Numbers
    BY <1>1, <2>1 DEF TypeOK, Numbers
  <2>3. store' = store \/ \E m \in Numbers : store' = [store EXCEPT ![m] = NoTxn]
    BY <2>1, OthersGiveUp DEF GatedPcs
  <2>4. store'[n].at # "none"
    BY <2>1, <2>2 DEF Present
  <2>5. store'[n] = store[n]
    BY <2>2, <2>3, <2>4, <1>1 DEF NoTxn, StoreType
  <2>6. Recs(job[u].n)' = Recs(n) /\ Present(n)
    BY <2>1, <2>2, <2>4, <2>5 DEF Recs, Present
  <2> QED BY <1>1, <2>1, <2>2, <2>6 DEF RestoreInv
<1> QED BY <1>3, <1>4, <1>5, <1>6 DEF WriteInv

-----------------------------------------------------------------------------
(* The steps of undo and redo.                                             *)

LEMMA UndoStep ==
  ASSUME IInv, NEW u \in Calls, UndoNext(u)
  PROVE  NumInv' /\ WriteInv' /\ RestoreInv'
<1>1. /\ TypeOK /\ NumInv /\ RestoreInv /\ StoreType(store)
      /\ pc \in [Calls -> GatedPcs \cup FreePcs] /\ job \in [Calls -> Jobs]
  BY StoreSteps DEF IInv, TypeOK, Jobs
<1>2. /\ gate = None \/ pc[u] \in {"Top", "Restore"}
      /\ UNCHANGED <<open, cur, reused>>
  BY DEF UndoNext, StartUndo, List, NothingLeft, Discard, NothingToDo, StartRestore, RestoreFile,
     RestoreFails, Mark, Works, Acquire, volatile, budgets
<1>3. /\ \A c \in Calls : pc'[c] = pc[c] \/ (c = u /\ pc'[c] \in {"Idle", "Top", "Restore"})
      /\ \A c \in Calls \ {u} : job'[c] = job[c]
  BY <1>1 DEF UndoNext, StartUndo, List, NothingLeft, Discard, NothingToDo, StartRestore, RestoreFile,
     RestoreFails, Mark, Works, EndUndo, Counted, Goto, volatile
<1>5. \A c \in Calls : c # u => pc[c] \notin GatedPcs
  BY <1>1, <1>2, OneGate DEF GatedPcs
<1>6. pc[u] \notin {"Manifest", "Write"}
  BY <1>1, <1>2, OneGate DEF GatedPcs
<1>7. \A c \in Calls : pc[c] \notin {"Manifest", "Write"} /\ pc'[c] \notin {"Manifest", "Write"}
  BY <1>3, <1>5, <1>6 DEF GatedPcs
<1>8. \A c \in Calls : Num(c)' = Num(c)
  BY <1>2, <1>7 DEF Num
<1>9. NumInv' /\ WriteInv'
  <2>1. NumInv'
    BY <1>1, <1>2, <1>8, NumShrinks
  <2> QED BY <2>1, <1>7 DEF WriteInv
<1>10. pc'[u] = "Restore" /\ Present(job[u].n)' => Range(job'[u].recs) \subseteq Range(Recs(job[u].n))'
  <2>1. ASSUME NEW n \in Numbers, StartRestore(u, n), pc'[u] = "Restore"
        PROVE  Range(job'[u].recs) \subseteq Range(Recs(job[u].n))'
    <3>1. job' = [job EXCEPT ![u].n = n, ![u].recs = Recs(n)] /\ store' = store
      BY <2>1 DEF StartRestore
    <3>2. job'[u].n = n /\ job'[u].recs = Recs(n)
      BY <3>1, <1>1 DEF Jobs
    <3>3. Recs(job[u].n)' = Recs(n)
      BY <3>1, <3>2 DEF Recs
    <3> QED BY <3>2, <3>3
  <2>2. ASSUME RestoreFile(u), Present(job[u].n)'
        PROVE  Range(job'[u].recs) \subseteq Range(Recs(job[u].n))'
    <3>1. /\ pc[u] = "Restore" /\ store' = store /\ job[u].recs # <<>> /\ job[u].recs \in Seq(Rec)
          /\ job' = [job EXCEPT ![u].recs = Tail(@)]
      BY <2>2, <1>1 DEF RestoreFile, Jobs
    <3>2. job'[u].recs = Tail(job[u].recs) /\ job'[u].n = job[u].n
      BY <3>1, <1>1 DEF Jobs
    <3>3. Range(Tail(job[u].recs)) \subseteq Range(job[u].recs)
      BY <3>1, RangeTail
    <3>4. Recs(job[u].n)' = Recs(job[u].n) /\ Present(job[u].n)
      BY <2>2, <3>1, <3>2 DEF Recs, Present
    <3> QED BY <3>1, <3>2, <3>3, <3>4, <1>1 DEF RestoreInv
  <2>3. pc'[u] # "Restore" \/ RestoreFile(u) \/ \E n \in Numbers : StartRestore(u, n)
    BY <1>1 DEF UndoNext, StartUndo, List, NothingLeft, Discard, NothingToDo, RestoreFails, Mark, Works,
       EndUndo, Goto, volatile
  <2> QED BY <2>1, <2>2, <2>3
<1>11. RestoreInv'
  BY <1>3, <1>5, <1>10 DEF RestoreInv, GatedPcs
<1> QED BY <1>9, <1>11

LEMMA Invariance == Spec => []IInv
<1>1. ASSUME IInv, [Next]_vars PROVE IInv'
  <2>1. TypeOK'
    BY <1>1, TypeStep DEF IInv
  <2>2. NumInv' /\ WriteInv' /\ RestoreInv'
    <3>1. ASSUME NEW c \in Calls, ToolNext(c) PROVE NumInv' /\ WriteInv' /\ RestoreInv'
      BY <1>1, <3>1, ToolStep
    <3>2. ASSUME NEW c \in Calls, UndoNext(c) PROVE NumInv' /\ WriteInv' /\ RestoreInv'
      BY <1>1, <3>2, UndoStep
    <3>3. CASE Crash
      <4>1. \A c \in Calls : open'[c] = 0 /\ pc'[c] = "Idle"
        BY <3>3 DEF Crash
      <4>2. \A c \in Calls : Num(c)' = 0
        BY <4>1 DEF Num
      <4> QED BY <4>1, <4>2 DEF NumInv, WriteInv, RestoreInv
    <3>4. CASE UNCHANGED <<store, volatile, reused>>
      <4>1. NumInv /\ WriteInv /\ RestoreInv
        BY <1>1 DEF IInv
      <4> QED BY <3>4, <4>1 DEF NumInv, WriteInv, RestoreInv, Num, Present, Record, Recs, volatile
    <3>5. Edit \/ UNCHANGED vars => UNCHANGED <<store, volatile, reused>>
      BY DEF Edit, vars, budgets
    <3> QED BY <1>1, <3>1, <3>2, <3>3, <3>4, <3>5 DEF Next
  <2> QED BY <2>1, <2>2 DEF IInv
<1> QED BY InitIInv, <1>1, PTL DEF Spec

-----------------------------------------------------------------------------
\* The types; with them, that the write gate is held by the one call that is at a place
\* under it, through failures, time-outs and crashes.
THEOREM TypeCorrect == Spec => []TypeOK
<1>1. IInv => TypeOK
  BY DEF IInv
<1> QED BY Invariance, <1>1, PTL

\* What changes a file is in a manifest beforehand, however many calls, transactions,
\* undos, prunes and crashes there are, and wherever an undo comes between a tool and its
\* commit or abort: as long as no number is given to two calls, and but for the restores of
\* a transaction that its own tool's abort has just removed.
THEOREM WalIsFirst == Spec => WalFirst
<1> DEFINE Recorded == \A f \in Files : disk'[f] # disk[f] /\ mishaps' = mishaps /\ ~reused =>
                         \/ \E n \in Numbers, r \in Rec :
                            /\ r \in Range(Recs(n)) /\ r.path = f
                            /\ disk'[f] \in {r.before, r.after}
                         \/ \E u \in Calls : pc[u] = "Restore" /\ ~Present(job[u].n)
<1>1. ASSUME IInv, [Next]_vars PROVE Recorded
  <2> SUFFICES ASSUME NEW f \in Files, disk'[f] # disk[f], mishaps' = mishaps, ~reused,
                      \A u \in Calls : pc[u] = "Restore" => Present(job[u].n)
               PROVE  \E n \in Numbers, r \in Rec :
                        r \in Range(Recs(n)) /\ r.path = f /\ disk'[f] \in {r.before, r.after}
    OBVIOUS
  <2>1. /\ TypeOK /\ StoreType(store) /\ disk \in Image /\ mishaps \in Nat
        /\ open \in [Calls -> 0..MaxN] /\ job \in [Calls -> Jobs] /\ WriteInv /\ RestoreInv
    BY <1>1, StoreSteps DEF IInv, TypeOK, Jobs
  <2>2. ASSUME NEW n \in Numbers, NEW r \in Range(Recs(n)), r.path = f, disk'[f] \in {r.before, r.after}
        PROVE  \E i \in Numbers, q \in Rec :
                 q \in Range(Recs(i)) /\ q.path = f /\ disk'[f] \in {q.before, q.after}
    <3>1. Recs(n) \in Seq(Rec)
      BY <2>1 DEF StoreType, Txns, Recs
    <3>2. r \in Rec
      BY <3>1 DEF Range
    <3> QED BY <2>2, <3>2
  <2>3. ASSUME NEW w \in Calls, WriteTarget(w)
        PROVE  \E n \in Numbers : \E r \in Range(Recs(n)) : r.path = f /\ disk'[f] \in {r.before, r.after}
    <3>1. open[w] \in Numbers /\ Record(w) \in Range(Recs(open[w]))
      BY <2>1, <2>3 DEF WriteInv, WriteTarget, Numbers
    <3>2. f = cur[w].path /\ disk'[f] = cur[w].after
      BY <2>1, <2>3 DEF WriteTarget, Image
    <3>3. Record(w).path = f /\ Record(w).after = disk'[f]
      BY <3>2 DEF Record
    <3> QED BY <3>1, <3>3
  <2>4. ASSUME NEW u \in Calls, RestoreFile(u)
        PROVE  \E n \in Numbers : \E r \in Range(Recs(n)) : r.path = f /\ disk'[f] \in {r.before, r.after}
    <3> DEFINE r == Head(job[u].recs)
    <3>1. /\ pc[u] = "Restore" /\ job[u].n # 0 /\ job[u].n \in 0..MaxN
          /\ job[u].recs \in Seq(Rec) /\ job[u].recs # <<>>
          /\ Range(job[u].recs) \subseteq Range(Recs(job[u].n))
      BY <2>1, <2>4 DEF RestoreFile, TypeOK, Jobs, RestoreInv
    <3>2. job[u].n \in Numbers /\ r \in Range(Recs(job[u].n))
      BY <3>1, RangeTail DEF Numbers
    <3>3. f = r.path /\ disk'[f] \in {r.before, r.after}
      BY <2>1, <2>4 DEF RestoreFile, Image
    <3> QED BY <3>2, <3>3
  <2>5. disk' # disk
    OBVIOUS
  <2>6. ASSUME NEW w \in Calls, ToolNext(w) PROVE WriteTarget(w)
    BY <2>5, <2>6 DEF ToolNext, StartTool, ReadBefore, MakeDir, WriteEmptyManifest, WalAppend, Return,
       StartFormat, Fail, StartCommit, CommitTimesOut, RemoveUndone, Commit, Abort
  <2>7. ASSUME NEW u \in Calls, UndoNext(u) PROVE RestoreFile(u)
    BY <2>5, <2>7 DEF UndoNext, StartUndo, List, NothingLeft, Discard, NothingToDo, StartRestore,
       RestoreFails, Mark
  <2>8. ~Crash /\ ~Edit /\ ~UNCHANGED vars
    BY <2>1, <2>5 DEF Crash, Edit, Mishap, vars
  <2>9. \E w \in Calls : WriteTarget(w) \/ RestoreFile(w)
    BY <1>1, <2>6, <2>7, <2>8 DEF Next
  <2> QED BY <2>2, <2>3, <2>4, <2>9
<1>2. Spec => [][Recorded]_vars
  BY Invariance, <1>1, PTL DEF Spec
<1> QED BY <1>2 DEF WalFirst

-----------------------------------------------------------------------------
(* What an undo finds: the records of the transactions that can be undone,  *)
(* and what a file holds, for transaction n, when all the later ones have   *)
(* been undone.                                                            *)

Acts == [n \in Numbers |-> IF store[n].at = "txn" THEN Range(Recs(n)) ELSE {}]

Sees(a, d, n, f, x) ==
    \/ x = d[f] /\ \A m \in Numbers : n < m => \A r \in a[m] : r.path # f
    \/ \E m \in Numbers :
        /\ n < m /\ \E r \in a[m] : r.path = f /\ r.before = x
        /\ \A k \in Numbers : n < k /\ k < m => \A r \in a[k] : r.path # f

\* A tool call has recorded its write of f, and may not have done it yet.
Busy(n, f) == \E w \in Calls : open[w] = n /\ f \notin wrote[w]

\* Each transaction finds what it left when the later ones are undone.
Chain ==
    \A n \in Numbers : \A r \in Acts[n] : \A x \in Contents \cup {Absent} :
        Sees(Acts, disk, n, r.path, x) => x = r.before \/ (x = r.after /\ ~Busy(n, r.path))

OncePerFile == \A n \in Numbers : \A r, s \in Acts[n] : r.path = s.path => r = s

Newest(n) == store[n].at = "txn" /\ \A m \in Numbers : Present(m) => m <= n

Writing == {"Work", "Record", "Manifest", "Write"}

\* A call at work owns the newest transaction, and what that records is written or about to be.
WriterOK(w) ==
    /\ phase[w] = "tool"
    /\ pc[w] \in {"Idle", "Top", "Restore"} => open[w] = 0
    /\ pc[w] = "Abort" => wrote[w] = {}
    /\ pc[w] \in Writing /\ Num(w) # 0 =>
        /\ Newest(Num(w))
        /\ \A r \in Range(Recs(Num(w))) :
            r.path \in wrote[w] \/ (pc[w] = "Write" /\ r.path = cur[w].path)
    /\ pc[w] = "Manifest" => Recs(cur[w].n) = <<>>
    /\ pc[w] \in {"Record", "Manifest", "Write"} =>
        cur[w].before = disk[cur[w].path] /\ cur[w].path \notin wrote[w]

\* An undo works on the last transaction; what it has not yet restored is still in its
\* list.  When an abort has taken the transaction away, there was nothing to restore.
UndoerOK(u) ==
    /\ job[u].op = "undo"
    /\ pc[u] = "Restore" /\ Present(job[u].n) =>
        /\ job[u].n \in Under("txn") /\ \A m \in Under("txn") : m <= job[u].n
        /\ \A r \in Range(Recs(job[u].n)) : r \in Range(job[u].recs) \/ disk[r.path] = r.before
    /\ pc[u] = "Restore" /\ ~Present(job[u].n) =>
        \A r \in Range(job[u].recs) : r.path \in Files /\ disk[r.path] = r.before

Fit == Chain /\ OncePerFile /\ \A c \in Calls : WriterOK(c) /\ UndoerOK(c)

-----------------------------------------------------------------------------
LEMMA SeesAbove ==
  ASSUME NEW a, NEW b, NEW d, NEW e, NEW n \in Numbers, NEW f, NEW x,
         e[f] = d[f], \A m \in Numbers : n < m => b[m] = a[m],
         Sees(b, e, n, f, x)
  PROVE  Sees(a, d, n, f, x)
BY DEF Sees, Numbers

LEMMA SeesTouched ==
  ASSUME NEW a, NEW d, NEW e, NEW n \in Numbers, NEW f, NEW x,
         NEW m \in Numbers, n < m, NEW r \in a[m], r.path = f,
         Sees(a, e, n, f, x)
  PROVE  Sees(a, d, n, f, x)
BY DEF Sees, Numbers

\* With nothing above it, a transaction finds what is on disk.
LEMMA SeesTop ==
  ASSUME NEW a, NEW d, NEW n \in Numbers, NEW f, \A m \in Numbers : n < m => a[m] = {}
  PROVE  \A x : Sees(a, d, n, f, x) <=> x = d[f]
BY DEF Sees, Numbers

\* A transaction that finds all its files as they were before it can go: those below it
\* find what they found.
LEMMA SeesRemoved ==
  ASSUME NEW a, NEW b, NEW d, NEW p \in Numbers, NEW n \in Numbers, n # p, NEW f, NEW x,
         b[p] = {}, \A m \in Numbers \ {p} : b[m] = a[m],
         \A r \in a[p] : Sees(a, d, p, r.path, x) => x = r.before,
         Sees(b, d, n, f, x)
  PROVE  Sees(a, d, n, f, x)
<1>n. /\ \A k \in Numbers : k \in Nat
  BY UndoAssumption DEF Numbers
<1>1. CASE p < n \/ \A r \in a[p] : r.path # f
  <2>1. \A m \in Numbers : n < m => ((\A r \in b[m] : r.path # f) <=> (\A r \in a[m] : r.path # f))
    BY <1>1, <1>n
  <2>2. \A m \in Numbers : \A r \in b[m] : r \in a[m]
    OBVIOUS
  <2> QED BY <2>1, <2>2, <1>n DEF Sees
<1>2. CASE n < p /\ \E r \in a[p] : r.path = f
  <2>1. PICK q \in a[p] : q.path = f
    BY <1>2
  <2>2. CASE x = d[f] /\ \A m \in Numbers : n < m => \A r \in b[m] : r.path # f
    <3>1. \A m \in Numbers : p < m => \A r \in a[m] : r.path # f
      BY <2>2, <1>2, <1>n
    <3>2. Sees(a, d, p, f, x)
      BY <2>2, <3>1 DEF Sees
    <3>3. q.before = x
      BY <2>1, <3>2
    <3>4. \A k \in Numbers : n < k /\ k < p => \A r \in a[k] : r.path # f
      BY <2>2, <1>n
    <3> QED BY <3>3, <3>4, <2>1, <1>2 DEF Sees
  <2>3. ASSUME NEW m \in Numbers, n < m, NEW r \in b[m], r.path = f, r.before = x,
               \A k \in Numbers : n < k /\ k < m => \A s \in b[k] : s.path # f
        PROVE  Sees(a, d, n, f, x)
    <3>0. m # p /\ r \in a[m]
      BY <2>3
    <3>1. CASE m < p
      <4>1. \A k \in Numbers : n < k /\ k < m => \A s \in a[k] : s.path # f
        BY <2>3, <3>1, <1>n
      <4> QED BY <4>1, <3>0, <2>3 DEF Sees
    <3>2. CASE p < m
      <4>1. \A k \in Numbers : p < k /\ k < m => \A s \in a[k] : s.path # f
        BY <2>3, <3>2, <1>2, <1>n
      <4>2. Sees(a, d, p, f, x)
        BY <4>1, <3>0, <3>2, <2>3 DEF Sees
      <4>3. q.before = x
        BY <2>1, <4>2
      <4>4. \A k \in Numbers : n < k /\ k < p => \A s \in a[k] : s.path # f
        BY <2>3, <3>2, <1>n
      <4> QED BY <4>3, <4>4, <2>1, <1>2 DEF Sees
    <3> QED BY <3>0, <3>1, <3>2, <1>n
  <2> QED BY <2>2, <2>3 DEF Sees
<1> QED BY <1>1, <1>2, <1>n

\* The newest transaction records one more file, as it is on disk.
LEMMA SeesAdded ==
  ASSUME NEW a, NEW b, NEW d, NEW p \in Numbers, NEW n \in Numbers, NEW f, NEW x,
         NEW r, b[p] = a[p] \cup {r}, \A m \in Numbers \ {p} : b[m] = a[m],
         r.before = d[r.path], \A s \in a[p] : s.path # r.path,
         \A m \in Numbers : p < m => a[m] = {},
         Sees(b, d, n, f, x)
  PROVE  Sees(a, d, n, f, x)
<1>n. \A k \in Numbers : k \in Nat
  BY UndoAssumption DEF Numbers
<1>1. CASE p <= n
  <2>1. \A m \in Numbers : n < m => b[m] = a[m]
    BY <1>1, <1>n
  <2> QED BY <2>1, SeesAbove
<1>2. CASE n < p /\ f # r.path
  <2>1. \A m \in Numbers : ((\A s \in b[m] : s.path # f) <=> (\A s \in a[m] : s.path # f))
    BY <1>2
  <2>2. \A m \in Numbers : \A s \in b[m] : s.path = f => s \in a[m]
    BY <1>2
  <2> QED BY <2>1, <2>2 DEF Sees
<1>3. CASE n < p /\ f = r.path
  <2>1. PICK m \in Numbers : /\ n < m /\ \E s \in b[m] : s.path = f /\ s.before = x
                             /\ \A k \in Numbers : n < k /\ k < m => \A s \in b[k] : s.path # f
    BY <1>3 DEF Sees
  <2>2. PICK s \in b[m] : s.path = f /\ s.before = x
    BY <2>1
  <2>3. \A k \in Numbers : n < k /\ k < m => \A q \in a[k] : q.path # f
    BY <2>1
  <2>4. CASE m # p
    BY <2>1, <2>2, <2>3, <2>4 DEF Sees
  <2>5. CASE m = p
    <3>1. x = d[f]
      BY <2>2, <2>5, <1>3
    <3>2. \A k \in Numbers : n < k => \A q \in a[k] : q.path # f
      BY <2>3, <2>5, <1>3, <1>n
    <3> QED BY <3>1, <3>2 DEF Sees
  <2> QED BY <2>4, <2>5
<1> QED BY <1>1, <1>2, <1>3, <1>n

LEMMA RangeHeadTail ==
  ASSUME NEW S, NEW q \in Seq(S), q # <<>>, NEW e \in Range(q)
  PROVE  e = Head(q) \/ e \in Range(Tail(q))
<1>1. PICK i \in 1..Len(q) : e = q[i]
  BY DEF Range
<1>2. i # 1 => i - 1 \in DOMAIN Tail(q) /\ Tail(q)[i - 1] = q[i]
  BY <1>1
<1>3. Head(q) = q[1]
  OBVIOUS
<1> QED BY <1>1, <1>2, <1>3 DEF Range

LEMMA RangeOfAppend ==
  ASSUME NEW S, NEW q \in Seq(S), NEW e
  PROVE  Range(Append(q, e)) = Range(q) \cup {e}
<1>1. /\ Len(q) \in Nat /\ DOMAIN q = 1..Len(q) /\ DOMAIN Append(q, e) = 1..(Len(q) + 1)
      /\ Append(q, e)[Len(q) + 1] = e /\ \A i \in 1..Len(q) : Append(q, e)[i] = q[i]
  OBVIOUS
<1>2. DOMAIN Append(q, e) = DOMAIN q \cup {Len(q) + 1}
  BY <1>1
<1> QED BY <1>1, <1>2 DEF Range

-----------------------------------------------------------------------------
LEMMA ActsIs ==
  /\ \A n \in Numbers : Acts[n] = IF store[n].at = "txn" THEN Range(Recs(n)) ELSE {}
  /\ \A n \in Numbers : Acts'[n] = IF store'[n].at = "txn" THEN Range(Recs(n)') ELSE {}
BY DEF Acts

LEMMA ActsSame ==
  ASSUME \A n \in Numbers : store'[n].at = store[n].at /\ store'[n].recs = store[n].recs
  PROVE  Acts' = Acts
BY DEF Acts, Recs

LEMMA RecordTypes ==
  ASSUME TypeOK, NEW n \in Numbers
  PROVE  /\ Recs(n) \in Seq(Rec) /\ \A r \in Range(Recs(n)) : r \in Rec
         /\ \A r \in Acts[n] : r \in Rec
<1>1. Recs(n) \in Seq(Rec)
  BY StoreSteps DEF StoreType, Txns, Recs
<1> QED BY <1>1 DEF Range, Acts

LEMMA BusyLess ==
  ASSUME \A c \in Calls : open'[c] = 0 \/ (open'[c] = open[c] /\ wrote[c] \subseteq wrote'[c])
  PROVE  \A n \in Numbers : \A f : Busy(n, f)' => Busy(n, f)
BY UndoAssumption DEF Busy, Numbers

LEMMA ChainKept ==
  ASSUME Chain, OncePerFile,
         \A n \in Numbers : Acts'[n] \subseteq Acts[n],
         \A n \in Numbers : \A r \in Acts'[n], x \in Contents \cup {Absent} :
            Sees(Acts', disk', n, r.path, x) => Sees(Acts, disk, n, r.path, x),
         \A n \in Numbers : \A r \in Acts'[n] : Busy(n, r.path)' => Busy(n, r.path)
  PROVE  Chain' /\ OncePerFile'
<1>1. OncePerFile'
  BY DEF OncePerFile
<1>2. Chain'
  <2> SUFFICES ASSUME NEW n \in Numbers, NEW r \in Acts'[n], NEW x \in Contents \cup {Absent},
                      Sees(Acts', disk', n, r.path, x)
               PROVE  x = r.before \/ (x = r.after /\ ~Busy(n, r.path)')
    BY DEF Chain
  <2>1. r \in Acts[n] /\ Sees(Acts, disk, n, r.path, x)
    OBVIOUS
  <2>2. x = r.before \/ (x = r.after /\ ~Busy(n, r.path))
    BY <2>1 DEF Chain
  <2> QED BY <2>2
<1> QED BY <1>1, <1>2

\* Nothing changes that the chain is about, but for calls that give up.
LEMMA ChainSame ==
  ASSUME Chain, OncePerFile, Acts' = Acts, disk' = disk,
         \A n \in Numbers : \A r \in Acts[n] : Busy(n, r.path)' => Busy(n, r.path)
  PROVE  Chain' /\ OncePerFile'
BY ChainKept

\* A transaction goes that finds its files as they were before it.
LEMMA ChainRemoved ==
  ASSUME Chain, OncePerFile, NEW p \in Numbers, Acts'[p] = {},
         \A m \in Numbers \ {p} : Acts'[m] = Acts[m],
         \A r \in Acts[p] : \A x \in Contents \cup {Absent} :
            Sees(Acts, disk, p, r.path, x) => x = r.before,
         disk' = disk,
         \A n \in Numbers : \A r \in Acts[n] : Busy(n, r.path)' => Busy(n, r.path)
  PROVE  Chain' /\ OncePerFile'
<1>1. \A n \in Numbers : Acts'[n] \subseteq Acts[n]
  OBVIOUS
<1>2. ASSUME NEW n \in Numbers, NEW r \in Acts'[n], NEW x \in Contents \cup {Absent},
             Sees(Acts', disk', n, r.path, x)
      PROVE  Sees(Acts, disk, n, r.path, x)
  <2>1. n # p
    OBVIOUS
  <2>2. \A s \in Acts[p] : Sees(Acts, disk, p, s.path, x) => x = s.before
    OBVIOUS
  <2>3. PICK a, b, d : a = Acts /\ b = Acts' /\ d = disk /\ d = disk'
    OBVIOUS
  <2>4. Sees(b, d, n, r.path, x) /\ b[p] = {} /\ \A m \in Numbers \ {p} : b[m] = a[m]
    BY <1>2, <2>3
  <2>5. Sees(a, d, n, r.path, x)
    BY <2>1, <2>2, <2>3, <2>4, SeesRemoved
  <2> QED BY <2>3, <2>5
<1> QED BY <1>1, <1>2, ChainKept

\* The oldest transactions go.
LEMMA ChainPruned ==
  ASSUME Chain, OncePerFile, disk' = disk,
         \A n \in Numbers : Acts'[n] \in {Acts[n], {}},
         \A n, m \in Numbers : Acts'[n] # {} /\ n < m => Acts'[m] = Acts[m],
         \A n \in Numbers : \A r \in Acts[n] : Busy(n, r.path)' => Busy(n, r.path)
  PROVE  Chain' /\ OncePerFile'
<1>1. \A n \in Numbers : Acts'[n] \subseteq Acts[n]
  OBVIOUS
<1>2. ASSUME NEW n \in Numbers, NEW r \in Acts'[n], NEW x \in Contents \cup {Absent},
             Sees(Acts', disk', n, r.path, x)
      PROVE  Sees(Acts, disk, n, r.path, x)
  <2>1. \A m \in Numbers : n < m => Acts'[m] = Acts[m]
    BY <1>2
  <2> QED BY <1>2, <2>1, SeesAbove
<1> QED BY <1>1, <1>2, ChainKept

\* A directory that is older than a pruned one is pruned too.
LEMMA OldestDown ==
  ASSUME NEW k \in Nat, NEW m \in Oldest(k), NEW j \in Numbers, Present(j), j < m
  PROVE  j \in Oldest(k)
<1> DEFINE UpTo(x) == {n \in 1..x : Present(n)}
<1>1. m \in Numbers /\ Cardinality(UpTo(m)) <= k
  BY DEF Oldest
<1>2. UpTo(j) \in SUBSET UpTo(m) /\ UpTo(m) \in SUBSET Numbers /\ UpTo(j) \in SUBSET Numbers
  BY <1>1, UndoAssumption DEF Numbers
<1>3. IsFiniteSet(UpTo(m)) /\ Cardinality(UpTo(m)) \in Nat /\ Cardinality(UpTo(j)) \in Nat
  BY <1>2, NumbersFinite
<1> HIDE DEF UpTo
<1>4. Cardinality(UpTo(j)) <= Cardinality(UpTo(m))
  BY <1>2, <1>3, FS_Subset
<1>5. Cardinality(UpTo(j)) <= k
  BY <1>1, <1>3, <1>4
<1> QED BY <1>5 DEF Oldest, UpTo

\* Pruning takes away the oldest; the number that is given out is above all.
LEMMA PrunedActs ==
  ASSUME TypeOK, NEW k \in Nat,
         \/ store' = Pruned(k)
         \/ \E n \in Numbers :
              /\ \A m \in Numbers : Pruned(k)[m].at # "none" => m < n
              /\ store' = [Pruned(k) EXCEPT ![n] = [at |-> "txn", torn |-> TRUE, recs |-> <<>>]]
  PROVE  /\ \A n \in Numbers : Acts'[n] \in {Acts[n], {}}
         /\ \A n, m \in Numbers : Acts'[n] # {} /\ n < m => Acts'[m] = Acts[m]
<1>n. \A m \in Numbers : m \in Nat
  BY UndoAssumption DEF Numbers
<1>1. ASSUME NEW m \in Numbers, Acts'[m] # Acts[m]
      PROVE  Acts'[m] = {} /\ m \in Oldest(k)
  <2>1. PICK n : \/ store' = Pruned(k)
                 \/ store' = [Pruned(k) EXCEPT ![n] = [at |-> "txn", torn |-> TRUE, recs |-> <<>>]]
                    /\ n \in Numbers /\ \A i \in Numbers : Pruned(k)[i].at # "none" => i < n
    OBVIOUS
  <2>2. Range(<<>>) = {}
    BY DEF Range
  <2>3. CASE store' # Pruned(k) /\ m = n
    <3>1. Acts'[m] = {}
      BY <2>1, <2>2, <2>3, ActsIs DEF Recs, Pruned
    <3>2. Pruned(k)[m].at = "none"
      BY <2>1, <2>3, <1>n
    <3>3. Acts[m] # {}
      BY <3>1, <1>1
    <3>4. store[m].at = "txn"
      BY <3>3, ActsIs
    <3> QED BY <3>1, <3>2, <3>4 DEF Pruned
  <2>4. CASE store' = Pruned(k) \/ m # n
    <3>1. store'[m] = Pruned(k)[m]
      BY <2>1, <2>4 DEF Pruned
    <3>2. m \in Oldest(k) /\ store'[m] = NoTxn
      <4>1. CASE m \notin Oldest(k)
        <5>1. store'[m] = store[m]
          BY <3>1, <4>1 DEF Pruned
        <5> QED BY <5>1, <1>1, ActsIs DEF Recs
      <4> QED BY <4>1, <3>1 DEF Pruned
    <3> QED BY <3>2, ActsIs DEF NoTxn
  <2> QED BY <2>3, <2>4
<1>2. ASSUME NEW n \in Numbers, NEW m \in Numbers, Acts'[n] # {}, n < m
      PROVE  Acts'[m] = Acts[m]
  <2> SUFFICES ASSUME Acts'[m] # Acts[m] PROVE FALSE
    OBVIOUS
  <2>1. Acts'[n] = Acts[n] /\ m \in Oldest(k)
    BY <1>1, <1>2
  <2>2. Present(n)
    BY <2>1, <1>2, ActsIs DEF Present
  <2>3. n \in Oldest(k)
    BY <2>1, <2>2, <1>2, OldestDown
  <2>4. Pruned(k)[n] = NoTxn
    BY <2>3 DEF Pruned
  <2>5. store'[n] = NoTxn \/ store'[n].recs = <<>>
    <3>1. CASE store' = Pruned(k)
      BY <2>4, <3>1
    <3>2. ASSUME NEW i \in Numbers,
                 store' = [Pruned(k) EXCEPT ![i] = [at |-> "txn", torn |-> TRUE, recs |-> <<>>]]
          PROVE  store'[n] = NoTxn \/ store'[n].recs = <<>>
      BY <2>4, <3>2 DEF Pruned
    <3> QED BY <3>1, <3>2
  <2>6. Range(<<>>) = {}
    BY DEF Range
  <2>7. Acts'[n] = {}
    BY <2>5, <2>6, ActsIs DEF NoTxn, Recs
  <2> QED BY <2>7, <1>2
<1> QED BY <1>1, <1>2

-----------------------------------------------------------------------------
(* The steps of the tools.                                                 *)

LEMMA ToolChain ==
  ASSUME IInv, Fit, mishaps' = mishaps, ~reused, NEW w \in Calls, ToolNext(w)
  PROVE  Chain' /\ OncePerFile'
<1>1. /\ TypeOK /\ NumInv /\ WriteInv /\ StoreType(store) /\ mishaps \in Nat
      /\ open \in [Calls -> 0..MaxN] /\ pc \in [Calls -> GatedPcs \cup FreePcs]
      /\ wrote \in [Calls -> SUBSET Files] /\ disk \in Image
      /\ Chain /\ OncePerFile /\ \A c \in Calls : WriterOK(c)
  BY StoreSteps DEF IInv, TypeOK, Fit
<1>2. \A n \in Numbers : n \in Nat \ {0}
  BY UndoAssumption DEF Numbers
<1>3. ~WriteEmptyManifest(w) =>
        \A c \in Calls : open'[c] = 0 \/ (open'[c] = open[c] /\ wrote[c] \subseteq wrote'[c])
  BY <1>1 DEF ToolNext, StartTool, ReadBefore, MakeDir, WalAppend, WriteTarget, Return, StartFormat,
     Fail, StartCommit, CommitTimesOut, RemoveUndone, Commit, Abort, EndTool, volatile
<1>4. ~WriteEmptyManifest(w) => \A n \in Numbers : \A f : Busy(n, f)' => Busy(n, f)
  BY <1>3, BusyLess
<1>5. CASE StartTool(w) \/ (\E f \in Files, c \in Contents : ReadBefore(w, f, c))
           \/ Return(w) \/ StartFormat(w) \/ Fail(w) \/ StartCommit(w) \/ CommitTimesOut(w) \/ Commit(w)
  <2>1. disk' = disk /\ store' = store /\ (pc'[w] # "Record" \/ pc[w] = "Work")
    BY <1>1, <1>5 DEF StartTool, ReadBefore, Return, StartFormat, Fail, StartCommit, CommitTimesOut,
       Commit, EndTool, Goto
  <2>2. Acts' = Acts
    BY <2>1, ActsSame
  <2>3. ~WriteEmptyManifest(w)
    BY <2>1, <1>1 DEF WriteEmptyManifest, Goto
  <2> QED BY <1>1, <1>4, <2>1, <2>2, <2>3, ChainSame
<1>6. CASE RemoveUndone(w)
  <2>1. PICK n \in Numbers : store[n].at = "undone" /\ store' = [store EXCEPT ![n] = NoTxn]
    BY <1>6 DEF RemoveUndone, RemoveDir, Under
  <2>2. Acts' = Acts
    BY <2>1, <1>1 DEF Acts, Recs, NoTxn, StoreType
  <2>3. disk' = disk /\ ~WriteEmptyManifest(w)
    BY <1>6 DEF RemoveUndone, WriteEmptyManifest
  <2> QED BY <1>1, <1>4, <2>2, <2>3, ChainSame
<1>7. CASE WriteEmptyManifest(w)
  <2>1. /\ pc[w] = "Manifest" /\ disk' = disk /\ wrote' = wrote
        /\ store' = [store EXCEPT ![cur[w].n].torn = FALSE]
        /\ open' = [open EXCEPT ![w] = cur[w].n]
    BY <1>7 DEF WriteEmptyManifest
  <2>2. Acts' = Acts
    <3>1. \A n \in Numbers : store'[n].at = store[n].at /\ store'[n].recs = store[n].recs
      BY <2>1, <1>1 DEF StoreType, Txns
    <3> QED BY <3>1, ActsSame
  <2>3. Recs(cur[w].n) = <<>>
    BY <2>1, <1>1 DEF WriterOK
  <2>4. ASSUME NEW n \in Numbers, NEW r \in Acts[n], Busy(n, r.path)' PROVE Busy(n, r.path)
    <3>0. Range(<<>>) = {}
      BY DEF Range
    <3>1. n # cur[w].n
      BY <2>3, <2>4, <3>0, ActsIs
    <3>2. PICK c \in Calls : open'[c] = n /\ r.path \notin wrote'[c]
      BY <2>4 DEF Busy
    <3>3. open[c] = n /\ r.path \notin wrote[c]
      BY <2>1, <3>1, <3>2, <1>1
    <3> QED BY <3>3 DEF Busy
  <2> QED BY <1>1, <2>1, <2>2, <2>4, ChainSame
<1>8. CASE MakeDir(w)
  <2>1. PICK k \in 0..MaxN, n \in Numbers :
            /\ \A m \in Numbers : Pruned(k)[m].at # "none" => m < n
            /\ store' = [Pruned(k) EXCEPT ![n] = [at |-> "txn", torn |-> TRUE, recs |-> <<>>]]
    BY <1>1, <1>8, MakeDirIs
  <2>k. k \in Nat
    BY UndoAssumption
  <2>2. /\ \A m \in Numbers : Acts'[m] \in {Acts[m], {}}
        /\ \A i, m \in Numbers : Acts'[i] # {} /\ i < m => Acts'[m] = Acts[m]
    BY <2>1, <2>k, <1>1, PrunedActs
  <2>3. disk' = disk /\ ~WriteEmptyManifest(w)
    BY <1>8 DEF MakeDir, WriteEmptyManifest
  <2> QED BY <1>1, <1>4, <2>2, <2>3, ChainPruned
<1>9. CASE Abort(w)
  <2>1. disk' = disk /\ pc[w] = "Abort" /\ ~WriteEmptyManifest(w)
    BY <1>9 DEF Abort, WriteEmptyManifest
  <2>2. CASE store' = store
    <3>1. Acts' = Acts
      BY <2>2, ActsSame
    <3> QED BY <1>1, <1>4, <2>1, <3>1, ChainSame
  <2>3. CASE store' # store
    <3> DEFINE p == open[w]
    <3>1. p \in Numbers /\ store' = [store EXCEPT ![p] = NoTxn]
      BY <1>1, <1>9, <2>3 DEF Abort, RemoveDir, Numbers
    <3>2. Acts'[p] = {} /\ \A m \in Numbers \ {p} : Acts'[m] = Acts[m]
      BY <3>1, <1>1, ActsIs DEF NoTxn, Recs, StoreType
    <3>3. ASSUME NEW r \in Acts[p], NEW x \in Contents \cup {Absent}, Sees(Acts, disk, p, r.path, x)
          PROVE  x = r.before
      <4>1. Busy(p, r.path)
        BY <2>1, <1>1 DEF WriterOK, Busy
      <4> QED BY <3>1, <3>3, <4>1, <1>1 DEF Chain
    <3> HIDE DEF p
    <3> QED BY <1>1, <1>4, <2>1, <3>1, <3>2, <3>3, ChainRemoved
  <2> QED BY <2>2, <2>3
<1>10. ASSUME WalAppend(w) \/ WriteTarget(w)
       PROVE  /\ open[w] \in Numbers /\ store[open[w]].at = "txn" /\ Num(w) = open[w]
              /\ \A m \in Numbers : open[w] < m => Acts[m] = {}
              /\ disk[cur[w].path] = cur[w].before /\ cur[w].path \notin wrote[w] /\ cur[w].path \in Files
              /\ ~WriteEmptyManifest(w)
              /\ Acts[open[w]] = Range(Recs(open[w]))
  <2>1. pc[w] \in {"Record", "Write"} /\ ~WriteEmptyManifest(w)
    BY <1>10 DEF WalAppend, WriteTarget, WriteEmptyManifest
  <2>2. open[w] \in Numbers
    BY <1>10, <1>1 DEF WalAppend, WriteTarget, WriteInv, Numbers
  <2>3. Num(w) = open[w] /\ Newest(open[w])
    BY <2>1, <2>2, <1>1, <1>2 DEF Num, WriterOK, Writing
  <2>4. \A m \in Numbers : open[w] < m => Acts[m] = {}
    BY <2>2, <2>3, <1>2, ActsIs DEF Newest, Present
  <2> QED BY <2>1, <2>2, <2>3, <2>4, <1>1, ActsIs DEF WriterOK, Newest, TypeOK
<1>11. CASE WalAppend(w)
  <2>0. PICK p, r : p = open[w] /\ r = Record(w)
    OBVIOUS
  <2> USE <2>0
  <2>1. /\ p \in Numbers /\ disk' = disk /\ pc[w] = "Record"
        /\ store' = [store EXCEPT ![p].recs = Append(@, r)]
    BY <1>10, <1>11 DEF WalAppend, Record
  <2>2. Acts'[p] = Acts[p] \cup {r} /\ \A m \in Numbers \ {p} : Acts'[m] = Acts[m]
    <3>1. store'[p].at = "txn" /\ store'[p].recs = Append(store[p].recs, r) /\ store[p].recs \in Seq(Rec)
      BY <2>1, <1>1, <1>10, <1>11 DEF StoreType, Txns
    <3>2. Range(Append(store[p].recs, r)) = Range(store[p].recs) \cup {r}
      <4> HIDE <2>0
      <4> QED BY <3>1, RangeOfAppend
    <3>3. \A m \in Numbers \ {p} : store'[m] = store[m]
      BY <2>1, <1>1 DEF StoreType
    <3>4. Acts[p] = Range(store[p].recs)
      BY <1>10, <1>11 DEF Recs
    <3>5. Acts'[p] = Range(store'[p].recs)
      BY <2>1, <3>1, ActsIs DEF Recs
    <3>6. \A m \in Numbers \ {p} : Acts'[m] = Acts[m]
      BY <3>3, ActsIs DEF Recs
    <3> QED BY <3>1, <3>2, <3>4, <3>5, <3>6
  <2>3. r.path = cur[w].path /\ r.before = disk[r.path]
    BY <1>10, <1>11 DEF Record
  <2>4. \A s \in Acts[p] : s.path # r.path
    <3>1. \A s \in Range(Recs(Num(w))) : s.path \in wrote[w]
      BY <2>1, <1>1, <1>2, <1>10, <1>11 DEF WriterOK, Writing
    <3> QED BY <3>1, <2>3, <1>10, <1>11
  <2>5. \A m \in Numbers : p < m => Acts[m] = {}
    BY <1>10, <1>11
  <2>6. OncePerFile'
    BY <2>2, <2>4, <1>1 DEF OncePerFile
  <2>7. ASSUME NEW n \in Numbers, NEW s \in Acts'[n], NEW x \in Contents \cup {Absent},
               Sees(Acts', disk', n, s.path, x)
        PROVE  x = s.before \/ (x = s.after /\ ~Busy(n, s.path)')
    <3> HIDE <2>0
    <3>1. PICK a, b, d : a = Acts /\ b = Acts' /\ d = disk /\ d = disk'
      BY <2>1
    <3>2. /\ b[p] = a[p] \cup {r} /\ \A m \in Numbers \ {p} : b[m] = a[m]
          /\ r.before = d[r.path] /\ \A q \in a[p] : q.path # r.path
          /\ \A m \in Numbers : p < m => a[m] = {}
          /\ Sees(b, d, n, s.path, x)
      BY <2>2, <2>3, <2>4, <2>5, <2>7, <3>1
    <3>3. Sees(a, d, n, s.path, x)
      <4>1. PICK f : f = s.path
        OBVIOUS
      <4>2. Sees(b, d, n, f, x) /\ p \in Numbers
        BY <2>1, <3>2, <4>1
      <4> HIDE <2>1
      <4>3. Sees(a, d, n, f, x)
        BY <3>2, <4>2, SeesAdded
      <4> QED BY <4>1, <4>3
    <3>4. CASE s \in Acts[n]
      BY <3>1, <3>3, <3>4, <1>1, <1>4, <1>10, <1>11 DEF Chain
    <3>5. CASE s \notin Acts[n]
      <4>1. n = p /\ s = r
        BY <2>2, <2>7, <3>5
      <4>2. x = d[r.path]
        BY <3>2, <3>3, <4>1, <2>1, SeesTop
      <4> QED BY <4>1, <4>2, <2>3, <3>1
    <3> QED BY <3>4, <3>5
  <2> QED BY <2>6, <2>7 DEF Chain
<1>12. CASE WriteTarget(w)
  <2>0. PICK p, f : p = open[w] /\ f = cur[w].path
    OBVIOUS
  <2> USE <2>0
  <2>1. /\ p \in Numbers /\ pc[w] = "Write" /\ store' = store /\ f \in Files /\ open' = open
        /\ disk' = [disk EXCEPT ![f] = cur[w].after]
        /\ wrote' = [wrote EXCEPT ![w] = @ \cup {f}]
    BY <1>10, <1>12 DEF WriteTarget
  <2>2. Record(w) \in Acts[p] /\ Record(w).path = f /\ Record(w).after = cur[w].after
    BY <2>1, <1>1, <1>10, <1>12 DEF WriteInv, Record
  <2>3. Acts' = Acts
    BY <2>1, ActsSame
  <2>4. OncePerFile'
    BY <2>3, <1>1 DEF OncePerFile
  <2>5. disk'[f] = cur[w].after /\ \A g \in Files \ {f} : disk'[g] = disk[g]
    BY <2>1, <1>1 DEF Image
  <2>6. ~Busy(p, f)'
    <3> SUFFICES ASSUME NEW c \in Calls, open[c] = p, f \notin wrote'[c] PROVE FALSE
      BY <2>1 DEF Busy
    <3>1. c # w
      BY <2>1, <1>1
    <3>2. Num(c) = open[c]
      BY <2>1, <1>1, <1>2 DEF Num, WriteInv
    <3> QED BY <3>1, <3>2, <2>1, <1>1, <1>2, <1>10, <1>12 DEF NumInv
  <2>7. ASSUME NEW n \in Numbers, NEW s \in Acts[n], NEW x \in Contents \cup {Absent},
               Sees(Acts, disk', n, s.path, x)
        PROVE  x = s.before \/ (x = s.after /\ ~Busy(n, s.path)')
    <3>1. s.path \in Files
      BY <1>1, RecordTypes DEF Rec
    <3>2. ASSUME Sees(Acts, disk, n, s.path, x) PROVE x = s.before \/ (x = s.after /\ ~Busy(n, s.path)')
      BY <3>2, <1>1, <1>4, <1>10, <1>12 DEF Chain
    <3>3. CASE s.path # f
      <4>1. disk'[s.path] = disk[s.path]
        BY <3>1, <3>3, <2>5
      <4>2. Sees(Acts, disk, n, s.path, x)
        BY <4>1, <2>7, SeesAbove
      <4> QED BY <4>2, <3>2
    <3>4. CASE s.path = f /\ n < p
      <4>1. Sees(Acts, disk, n, s.path, x)
        BY <3>4, <2>1, <2>2, <2>7, SeesTouched
      <4> QED BY <4>1, <3>2
    <3>5. CASE s.path = f /\ n = p
      <4>1. s = Record(w)
        BY <3>5, <2>1, <2>2, <1>1 DEF OncePerFile
      <4>2. \A m \in Numbers : n < m => Acts[m] = {}
        BY <3>5, <1>10, <1>12
      <4>3. x = disk'[f]
        BY <3>5, <4>2, <2>7, SeesTop
      <4>4. x = Record(w).after
        BY <4>3, <2>2, <2>5
      <4>5. ~Busy(n, s.path)'
        BY <3>5, <2>6
      <4> QED BY <4>1, <4>4, <4>5
    <3>6. ~(p < n)
      <4>1. p < n => Acts[n] = {}
        BY <1>10, <1>12
      <4> QED BY <4>1
    <3> QED BY <3>3, <3>4, <3>5, <3>6, <2>1, <1>2
  <2> QED BY <2>3, <2>4, <2>7 DEF Chain
<1> QED BY <1>5, <1>6, <1>7, <1>8, <1>9, <1>11, <1>12 DEF ToolNext

LEMMA ToolWriters ==
  ASSUME IInv, Fit, mishaps' = mishaps, ~reused, NEW w \in Calls, ToolNext(w)
  PROVE  \A c \in Calls : WriterOK(c)'
<1>1. /\ TypeOK /\ NumInv /\ WriteInv /\ StoreType(store) /\ mishaps \in Nat
      /\ open \in [Calls -> 0..MaxN] /\ pc \in [Calls -> GatedPcs \cup FreePcs]
      /\ wrote \in [Calls -> SUBSET Files] /\ disk \in Image
      /\ phase \in [Calls -> {"tool", "format", "formatted"}]
      /\ cur \in [Calls -> [path : Files \cup {None}, before : Contents \cup {Absent},
                             after : Contents \cup {Absent}, n : 0..MaxN]]
      /\ \A c \in Calls : WriterOK(c)
  BY StoreSteps DEF IInv, TypeOK, Fit
<1>2. /\ \A n \in Numbers : n \in Nat \ {0}
      /\ \A c \in Calls : Num(c) \in 0..MaxN /\ (Num(c) # 0 => Num(c) \in Numbers)
  BY <1>1, OneGate, UndoAssumption DEF Numbers
<1>3. ASSUME NEW c \in Calls \ {w} PROVE WriterOK(c)'
  <2>1. /\ pc'[c] = pc[c] /\ open'[c] = open[c] /\ cur'[c] = cur[c] /\ phase'[c] = phase[c]
        /\ wrote'[c] = wrote[c]
    BY <1>1 DEF ToolNext, StartTool, ReadBefore, MakeDir, WriteEmptyManifest, WalAppend,
       WriteTarget, Return, StartFormat, Fail, StartCommit, CommitTimesOut, RemoveUndone, Commit,
       Abort, EndTool, Goto, volatile
  <2>2. Num(c)' = Num(c)
    BY <2>1 DEF Num
  <2>3. CASE pc[c] \notin Writing
    BY <2>1, <2>3, <1>1 DEF WriterOK, Writing
  <2>4. CASE pc[c] \in Writing
    <3>1. /\ disk' = disk
          /\ Num(c) # 0 => store'[Num(c)] = store[Num(c)]
          /\ \A m \in Numbers : store'[m] = store[m] \/ store'[m] = NoTxn
      <4>1. /\ disk' = disk /\ (Num(c) # 0 => store'[Num(c)] = store[Num(c)])
            /\ store' = store \/ \E n \in Numbers : store' = [store EXCEPT ![n] = NoTxn]
        BY <2>4, OthersGiveUp DEF Writing, GatedPcs
      <4> QED BY <4>1, <1>1 DEF StoreType
    <3>2. PICK n : n = Num(c) /\ n = Num(c)'
      BY <2>2
    <3>3. pc[c] = "Manifest" => n = cur[c].n /\ n # 0
      BY <3>2, <1>1 DEF Num, WriteInv
    <3>4. n # 0 => Newest(n)' /\ Recs(n)' = Recs(n)
      <4> SUFFICES ASSUME n # 0 PROVE Newest(n)' /\ Recs(n)' = Recs(n)
        OBVIOUS
      <4>1. Newest(n) /\ store'[n] = store[n]
        BY <2>4, <3>1, <3>2, <1>1, ZenonT(40) DEF WriterOK
      <4>2. \A m \in Numbers : Present(m)' => Present(m)
        BY <3>1 DEF Present, NoTxn
      <4> QED BY <4>1, <4>2 DEF Newest, Recs
    <3>5. pc'[c] = "Manifest" => Recs(cur[c].n)' = <<>>
      <4>1. pc'[c] = "Manifest" => Recs(n) = <<>> /\ cur'[c].n = n
        BY <2>1, <3>3, <1>1 DEF WriterOK
      <4> QED BY <4>1, <2>1, <3>3, <3>4 DEF Recs
    <3>6. pc'[c] \in Writing /\ Num(c)' # 0 =>
            /\ Newest(Num(c))'
            /\ \A r \in Range(Recs(Num(c)))' :
                r.path \in wrote'[c] \/ (pc'[c] = "Write" /\ r.path = cur'[c].path)
      <4> SUFFICES ASSUME n # 0
                   PROVE  /\ Newest(n)'
                          /\ \A r \in Range(Recs(n)') :
                              r.path \in wrote'[c] \/ (pc'[c] = "Write" /\ r.path = cur'[c].path)
        BY <3>2 DEF Newest, Recs, Range
      <4>1. \A r \in Range(Recs(n)) : r.path \in wrote[c] \/ (pc[c] = "Write" /\ r.path = cur[c].path)
        BY <2>4, <3>2, <1>1 DEF WriterOK
      <4> QED BY <4>1, <3>4, <2>1
    <3>7. /\ phase'[c] = "tool"
          /\ pc'[c] \notin {"Idle", "Abort", "Top", "Restore"}
          /\ pc'[c] \in {"Record", "Manifest", "Write"} =>
                cur'[c].before = disk'[cur'[c].path] /\ cur'[c].path \notin wrote'[c]
      BY <2>1, <2>4, <3>1, <1>1 DEF WriterOK, Writing
    <3> QED BY <3>5, <3>6, <3>7 DEF WriterOK
  <2> QED BY <2>3, <2>4
<1>4. WriterOK(w)'
  <2>1. CASE pc'[w] \in {"Unlocked", "Commit", "Idle", "Abort", "Top", "Restore"}
    <3>1. phase'[w] = "tool"
      BY <1>1 DEF ToolNext, StartTool, ReadBefore, MakeDir, WriteEmptyManifest, WalAppend,
         WriteTarget, Return, StartFormat, Fail, StartCommit, CommitTimesOut, RemoveUndone, Commit,
         Abort, EndTool, Goto, volatile, Mishap, WriterOK
    <3>2. pc'[w] \in {"Idle", "Top", "Restore"} => open'[w] = 0
      BY <2>1, <1>1 DEF ToolNext, StartTool, ReadBefore, MakeDir, WriteEmptyManifest, WalAppend,
         WriteTarget, Return, StartFormat, Fail, StartCommit, CommitTimesOut, RemoveUndone, Commit,
         Abort, EndTool, Goto, volatile
    <3>3. pc'[w] = "Abort" => wrote'[w] = {}
      BY <2>1, <1>1 DEF ToolNext, StartTool, ReadBefore, MakeDir, WriteEmptyManifest, WalAppend,
         WriteTarget, Return, StartFormat, Fail, StartCommit, CommitTimesOut, RemoveUndone, Commit,
         Abort, EndTool, Goto, volatile, Mishap, WriterOK
    <3> QED BY <2>1, <3>1, <3>2, <3>3 DEF WriterOK, Writing
  <2>2. CASE StartTool(w)
    <3>1. pc'[w] = "Work" /\ phase'[w] = "tool" /\ Num(w)' = 0
      BY <2>2, <1>1 DEF StartTool, Goto, WriterOK, Num
    <3> QED BY <3>1 DEF WriterOK
  <2>3. ASSUME NEW f \in Files, NEW c \in Contents, ReadBefore(w, f, c) PROVE WriterOK(w)'
    <3>1. /\ pc[w] = "Work" /\ pc'[w] = "Record" /\ phase'[w] = "tool" /\ f \notin wrote[w]
          /\ wrote' = wrote /\ disk' = disk /\ store' = store /\ open' = open
          /\ cur'[w].path = f /\ cur'[w].before = disk[f]
      BY <2>3, <1>1 DEF ReadBefore, Goto, WriterOK
    <3>2. PICK n : n = Num(w) /\ n = Num(w)' /\ n = open[w]
      BY <3>1 DEF Num
    <3>3. n # 0 => Newest(n)' /\ \A r \in Range(Recs(n)') : r.path \in wrote'[w]
      <4>1. Newest(n)' <=> Newest(n)
        BY <3>1 DEF Newest, Present
      <4>2. n # 0 => Newest(n) /\ \A r \in Range(Recs(n)) : r.path \in wrote[w]
        BY <3>1, <3>2, <1>1 DEF WriterOK, Writing
      <4>3. Recs(n)' = Recs(n)
        BY <3>1 DEF Recs
      <4> QED BY <4>1, <4>2, <4>3, <3>1
    <3>4. Num(w)' # 0 => Newest(Num(w))' /\ \A r \in Range(Recs(Num(w)))' : r.path \in wrote'[w]
      BY <3>2, <3>3 DEF Newest, Recs
    <3> QED BY <3>1, <3>4 DEF WriterOK
  <2>4. CASE MakeDir(w)
    <3>1. PICK k \in 0..MaxN, n \in Numbers :
              /\ Prune(k) /\ n = AllocTxnNum(Pruned(k))
              /\ \A m \in Numbers : Pruned(k)[m].at # "none" => m < n
              /\ store' = [Pruned(k) EXCEPT ![n] = [at |-> "txn", torn |-> TRUE, recs |-> <<>>]]
              /\ cur' = [cur EXCEPT ![w].n = n]
      BY <1>1, <2>4, MakeDirIs
    <3>2. /\ pc[w] = "Record" /\ pc'[w] = "Manifest" /\ phase'[w] = "tool" /\ disk' = disk
          /\ wrote' = wrote
      BY <2>4, <1>1 DEF MakeDir, Goto, WriterOK
    <3>3. /\ cur'[w].n = n /\ cur'[w].path = cur[w].path /\ cur'[w].before = cur[w].before
      BY <3>1, <1>1
    <3>4. store'[n].at = "txn" /\ store'[n].recs = <<>>
          /\ \A m \in Numbers \ {n} : store'[m] = Pruned(k)[m]
      BY <3>1 DEF Pruned
    <3>5. Newest(n)'
      BY <3>1, <3>4, <1>2 DEF Newest, Present
    <3>6. Recs(n)' = <<>> /\ Range(<<>>) = {}
      BY <3>4 DEF Recs, Range
    <3>7. Num(w)' = n
      BY <3>2, <3>3 DEF Num
    <3>8. Newest(Num(w))' /\ Recs(Num(w))' = <<>> /\ Recs(cur[w].n)' = <<>>
      BY <3>3, <3>5, <3>6, <3>7 DEF Newest, Recs
    <3>9. Range(Recs(Num(w)))' = {}
      BY <3>6, <3>8 DEF Range
    <3>10. cur'[w].before = disk'[cur'[w].path] /\ cur'[w].path \notin wrote'[w]
      BY <3>2, <3>3, <1>1 DEF WriterOK
    <3> QED BY <3>2, <3>8, <3>9, <3>10 DEF WriterOK
  <2>5. CASE WriteEmptyManifest(w)
    <3>1. /\ pc[w] = "Manifest" /\ pc'[w] = "Record" /\ phase'[w] = "tool" /\ disk' = disk
          /\ wrote' = wrote /\ cur' = cur /\ open'[w] = cur[w].n
          /\ store' = [store EXCEPT ![cur[w].n].torn = FALSE]
      BY <2>5, <1>1 DEF WriteEmptyManifest, Goto, WriterOK
    <3>2. PICK n : n = Num(w) /\ n = Num(w)' /\ n = cur[w].n
      BY <3>1 DEF Num
    <3>3. n # 0 /\ n \in Numbers
      BY <3>1, <3>2, <1>1, <1>2 DEF WriteInv
    <3>4. \A m \in Numbers : store'[m].at = store[m].at /\ store'[m].recs = store[m].recs
      BY <3>1, <1>1 DEF StoreType, Txns
    <3>5. Newest(n) /\ Recs(n) = <<>>
      BY <3>1, <3>2, <3>3, <1>1 DEF WriterOK, Writing
    <3>6. Newest(n)' /\ Recs(n)' = <<>> /\ Range(<<>>) = {}
      BY <3>3, <3>4, <3>5 DEF Newest, Present, Recs, Range
    <3>7. Newest(Num(w))' /\ Recs(Num(w))' = <<>>
      BY <3>2, <3>6 DEF Newest, Recs
    <3>8. Range(Recs(Num(w)))' = {}
      BY <3>6, <3>7 DEF Range
    <3>9. cur'[w].before = disk'[cur'[w].path] /\ cur'[w].path \notin wrote'[w]
      BY <3>1, <1>1 DEF WriterOK
    <3> QED BY <3>1, <3>7, <3>8, <3>9 DEF WriterOK
  <2>6. CASE WalAppend(w)
    <3>0. PICK n, r : n = open[w] /\ r = Record(w)
      OBVIOUS
    <3>1. /\ n \in Numbers /\ pc[w] = "Record" /\ pc'[w] = "Write" /\ phase'[w] = "tool" /\ disk' = disk
          /\ wrote' = wrote /\ cur' = cur /\ open' = open
          /\ store' = [store EXCEPT ![n].recs = Append(@, r)]
      BY <2>6, <3>0, <1>1 DEF WalAppend, Goto, WriterOK, Numbers, Record
    <3>2. Num(w)' = n /\ Num(w) = n
      BY <3>0, <3>1 DEF Num
    <3>3. store'[n].at = store[n].at /\ store'[n].recs = Append(store[n].recs, r)
          /\ store[n].recs \in Seq(Rec) /\ \A m \in Numbers : store'[m].at = store[m].at
      BY <3>1, <1>1 DEF StoreType, Txns
    <3>4. Newest(n) /\ \A q \in Range(Recs(n)) : q.path \in wrote[w]
      BY <3>1, <3>2, <1>1, <1>2 DEF WriterOK, Writing
    <3>5. Range(Append(store[n].recs, r)) = Range(store[n].recs) \cup {r}
      BY <3>3, RangeOfAppend
    <3>6. Range(Recs(n)') = Range(Recs(n)) \cup {r}
      BY <3>3, <3>5 DEF Recs
    <3>7. Newest(n)'
      BY <3>1, <3>3, <3>4 DEF Newest, Present
    <3>8. \A q \in Range(Recs(n)') : q.path \in wrote'[w] \/ q.path = cur'[w].path
      BY <3>0, <3>1, <3>4, <3>6 DEF Record
    <3>9. Newest(Num(w))' /\ \A q \in Range(Recs(Num(w)))' : q.path \in wrote'[w] \/ q.path = cur'[w].path
      BY <3>2, <3>7, <3>8 DEF Newest, Recs
    <3>10. cur'[w].before = disk'[cur'[w].path] /\ cur'[w].path \notin wrote'[w]
      BY <3>1, <1>1 DEF WriterOK
    <3> QED BY <3>1, <3>9, <3>10 DEF WriterOK
  <2>7. CASE WriteTarget(w)
    <3>1. /\ pc[w] = "Write" /\ pc'[w] = "Work" /\ phase'[w] = "tool"
          /\ store' = store /\ open' = open /\ wrote'[w] = wrote[w] \cup {cur[w].path}
      BY <2>7, <1>1 DEF WriteTarget, Goto, WriterOK
    <3>2. PICK n : n = Num(w) /\ n = Num(w)' /\ n = open[w]
      BY <3>1 DEF Num
    <3>3. n # 0 => Newest(n)' /\ \A r \in Range(Recs(n)') : r.path \in wrote'[w]
      <4>1. Newest(n)' <=> Newest(n)
        BY <3>1 DEF Newest, Present
      <4>2. n # 0 => Newest(n) /\ \A r \in Range(Recs(n)) : r.path \in wrote[w] \cup {cur[w].path}
        BY <3>1, <3>2, <1>1 DEF WriterOK, Writing
      <4>3. Recs(n)' = Recs(n)
        BY <3>1 DEF Recs
      <4> QED BY <4>1, <4>2, <4>3, <3>1
    <3>4. Num(w)' # 0 => Newest(Num(w))' /\ \A r \in Range(Recs(Num(w)))' : r.path \in wrote'[w]
      BY <3>2, <3>3 DEF Newest, Recs
    <3> QED BY <3>1, <3>4 DEF WriterOK
  <2>8. CASE StartFormat(w)
    BY <2>8, <1>1 DEF StartFormat, Mishap
  <2>9. CASE Return(w) \/ Fail(w) \/ StartCommit(w) \/ CommitTimesOut(w) \/ RemoveUndone(w)
             \/ Commit(w) \/ Abort(w)
    <3>1. pc'[w] \in {"Unlocked", "Commit", "Idle", "Abort"}
      BY <2>9, <1>1 DEF Return, Fail, StartCommit, CommitTimesOut, RemoveUndone, Commit, Abort, EndTool,
         Goto, volatile
    <3> QED BY <3>1, <2>1
  <2> QED BY <2>2, <2>3, <2>4, <2>5, <2>6, <2>7, <2>8, <2>9 DEF ToolNext
<1> QED BY <1>3, <1>4

\* An abort beside the undo takes away its transaction only when nothing of it was written.
LEMMA ToolUndoers ==
  ASSUME IInv, Fit, NEW w \in Calls, ToolNext(w)
  PROVE  \A u \in Calls : UndoerOK(u)'
<1>1. /\ TypeOK /\ RestoreInv /\ pc \in [Calls -> GatedPcs \cup FreePcs] /\ StoreType(store)
      /\ Chain /\ disk \in Image /\ \A u \in Calls : UndoerOK(u) /\ WriterOK(u)
  BY StoreSteps DEF IInv, TypeOK, Fit
<1>2. /\ \A c \in Calls \ {w} : pc'[c] = pc[c]
      /\ job' = job /\ pc'[w] # "Restore"
  BY <1>1 DEF ToolNext, StartTool, ReadBefore, MakeDir, WriteEmptyManifest, WalAppend,
     WriteTarget, Return, StartFormat, Fail, StartCommit, CommitTimesOut, RemoveUndone, Commit,
     Abort, EndTool, Goto, volatile
<1> SUFFICES ASSUME NEW u \in Calls PROVE UndoerOK(u)'
  OBVIOUS
<1>3. CASE pc'[u] # "Restore"
  BY <1>1, <1>2, <1>3 DEF UndoerOK
<1>4. CASE pc'[u] = "Restore"
  <2>1. u # w /\ pc[u] = "Restore" /\ job'[u] = job[u]
    BY <1>2, <1>4
  <2>2. /\ disk' = disk
        /\ \/ store' = store
           \/ /\ pc[w] = "Abort" /\ open[w] \in Numbers
              /\ store' = [store EXCEPT ![open[w]] = NoTxn]
    BY <2>1, OthersGiveUp DEF GatedPcs
  <2>3. PICK n : n = job[u].n /\ n \in Numbers
    BY <1>1, <2>1 DEF TypeOK, Numbers
  <2>4. CASE store' = store
    BY <1>1, <2>1, <2>2, <2>4 DEF UndoerOK, Under, Recs, Present
  <2>5. ASSUME NEW p \in Numbers, p = open[w], pc[w] = "Abort", store' = [store EXCEPT ![p] = NoTxn]
        PROVE  UndoerOK(u)'
    <3>1. \A m \in Numbers : store'[m] = IF m = p THEN NoTxn ELSE store[m]
      BY <2>5, <1>1 DEF StoreType
    <3>2. job[u].op = "undo"
      BY <1>1 DEF UndoerOK
    <3>3. CASE n # p
      <4>1. /\ store'[n] = store[n]
            /\ \A m \in Numbers : store'[m].at = "txn" => store[m].at = "txn"
        BY <3>1, <3>3, <2>3 DEF NoTxn
      <4>2. (Present(n)' <=> Present(n)) /\ Recs(n)' = Recs(n)
        BY <4>1 DEF Present, Recs
      <4>3. Present(n) =>
              /\ n \in Under("txn")' /\ \A m \in Under("txn")' : m <= n
              /\ \A r \in Range(Recs(n)) : r \in Range(job[u].recs) \/ disk[r.path] = r.before
        BY <1>1, <2>1, <2>3, <4>1 DEF UndoerOK, Under
      <4>4. ~Present(n) =>
              \A r \in Range(job[u].recs) : r.path \in Files /\ disk[r.path] = r.before
        BY <1>1, <2>1, <2>3 DEF UndoerOK
      <4> QED BY <2>1, <2>2, <2>3, <3>2, <4>2, <4>3, <4>4 DEF UndoerOK, Present, Recs, Range
    <3>4. CASE n = p
      <4>1. ~Present(n)'
        BY <3>1, <3>4, <2>3 DEF Present, NoTxn
      <4>2. CASE ~Present(n)
        <5>1. \A r \in Range(job[u].recs) : r.path \in Files /\ disk[r.path] = r.before
          BY <1>1, <2>1, <2>3, <4>2 DEF UndoerOK
        <5> QED BY <2>1, <2>2, <2>3, <3>2, <4>1, <5>1 DEF UndoerOK, Present
      <4>3. CASE Present(n)
        <5>1. n \in Under("txn") /\ \A m \in Under("txn") : m <= n
          BY <1>1, <2>1, <2>3, <4>3 DEF UndoerOK
        <5>2. Acts[n] = Range(Recs(n)) /\ Range(job[u].recs) \subseteq Range(Recs(n))
          BY <1>1, <2>1, <2>3, <4>3, <5>1, ActsIs DEF RestoreInv, Under
        <5>3. \A m \in Numbers : n < m => Acts[m] = {}
          <6> SUFFICES ASSUME NEW m \in Numbers, n < m PROVE store[m].at # "txn"
            BY ActsIs
          <6>1. ~(m <= n)
            BY <2>3, UndoAssumption DEF Numbers
          <6> QED BY <6>1, <5>1 DEF Under
        <5>4. ASSUME NEW r \in Range(job[u].recs) PROVE r.path \in Files /\ disk[r.path] = r.before
          <6>1. r \in Acts[n] /\ r.path \in Files
            BY <5>2, <5>4, <2>3, <1>1, RecordTypes DEF Rec
          <6>2. disk[r.path] \in Contents \cup {Absent}
            BY <6>1, <1>1 DEF Image
          <6>3. Sees(Acts, disk, n, r.path, disk[r.path])
            <7>1. PICK f, x : f = r.path /\ x = disk[f]
              OBVIOUS
            <7>2. Sees(Acts, disk, n, f, x)
              <8>1. n \in Numbers
                BY <2>3
              <8> QED BY <7>1, <8>1, <5>3, SeesTop
            <7> QED BY <7>1, <7>2
          <6>4. wrote[w] = {} /\ Busy(n, r.path)
            BY <2>5, <3>4, <1>1 DEF WriterOK, Busy
          <6> QED BY <2>3, <6>1, <6>2, <6>3, <6>4, <1>1 DEF Chain
        <5> QED BY <2>1, <2>2, <2>3, <3>2, <4>1, <5>4 DEF UndoerOK, Present
      <4> QED BY <4>2, <4>3
    <3> QED BY <3>3, <3>4
  <2> QED BY <2>2, <2>4, <2>5
<1> QED BY <1>3, <1>4

-----------------------------------------------------------------------------
(* The steps of an undo.                                                   *)

\* The last transaction finds its files as they are on disk, and each as it was before
\* or after it.
LEMMA TopFits ==
  ASSUME IInv, Fit, Under("txn") # {}
  PROVE  LET n == Max(Under("txn")) IN
            /\ n \in Under("txn") /\ \A m \in Under("txn") : m <= n
            /\ \A m \in Numbers : n < m => Acts[m] = {}
            /\ \A r \in Acts[n] : disk[r.path] = r.before \/ disk[r.path] = r.after
<1>1. TypeOK /\ Chain /\ disk \in Image
  BY DEF IInv, Fit, TypeOK
<1>2. Under("txn") \in SUBSET (0..MaxN) /\ MaxN \in Nat /\ Under("txn") \in SUBSET Numbers
  BY NumbersFinite DEF Under
<1>3. PICK n : n = Max(Under("txn"))
  OBVIOUS
<1>4. n \in Under("txn") /\ \A m \in Under("txn") : m <= n
  BY <1>2, <1>3, MaxIs
<1>5. \A m \in Numbers : n < m => Acts[m] = {}
  <2> SUFFICES ASSUME NEW m \in Numbers, n < m PROVE store[m].at # "txn"
    BY ActsIs
  <2>1. ~(m <= n)
    BY <1>2, <1>4, UndoAssumption DEF Numbers
  <2> QED BY <2>1, <1>4 DEF Under
<1>6. ASSUME NEW r \in Acts[n] PROVE disk[r.path] = r.before \/ disk[r.path] = r.after
  <2>1. r.path \in Files /\ n \in Numbers
    BY <1>1, <1>2, <1>4, <1>6, RecordTypes DEF Rec
  <2>2. disk[r.path] \in Contents \cup {Absent}
    BY <2>1, <1>1 DEF Image
  <2>3. Sees(Acts, disk, n, r.path, disk[r.path])
    BY <2>1, <1>5, SeesTop
  <2> QED BY <2>1, <2>2, <2>3, <1>1 DEF Chain
<1> QED BY <1>3, <1>4, <1>5, <1>6

\* The newest transaction, all of whose files are as they were before it, goes.
LEMMA TopGoes ==
  ASSUME IInv, Fit, NEW n \in Numbers, \A m \in Numbers : n < m => Acts[m] = {},
         \A r \in Acts[n] : disk[r.path] = r.before,
         NEW q \in {"undone", "discarded"}, store' = [store EXCEPT ![n].at = q],
         disk' = disk, open' = open, wrote' = wrote
  PROVE  Chain' /\ OncePerFile'
<1>1. TypeOK /\ Chain /\ OncePerFile /\ StoreType(store)
  BY StoreSteps DEF IInv, Fit
<1>2. store'[n].at = q /\ \A m \in Numbers \ {n} : store'[m] = store[m]
  BY <1>1 DEF StoreType, Txns
<1>3. Acts'[n] = {} /\ \A m \in Numbers \ {n} : Acts'[m] = Acts[m]
  BY <1>2, ActsIs DEF Recs
<1>4. \A r \in Acts[n] : \A x \in Contents \cup {Absent} : Sees(Acts, disk, n, r.path, x) => x = r.before
  <2> SUFFICES ASSUME NEW r \in Acts[n], NEW x, Sees(Acts, disk, n, r.path, x) PROVE x = r.before
    OBVIOUS
  <2>1. x = disk[r.path]
    BY SeesTop
  <2> QED BY <2>1
<1>5. \A m \in Numbers : \A r \in Acts[m] : Busy(m, r.path)' => Busy(m, r.path)
  BY DEF Busy
<1> QED BY <1>1, <1>3, <1>4, <1>5, ChainRemoved

LEMMA UndoChain ==
  ASSUME IInv, Fit, "redo" \notin Ops, NEW u \in Calls, UndoNext(u)
  PROVE  Chain' /\ OncePerFile'
<1>1. /\ TypeOK /\ StoreType(store) /\ disk \in Image /\ Chain /\ OncePerFile
      /\ UndoerOK(u) /\ RestoreInv /\ job \in [Calls -> Jobs]
  BY StoreSteps DEF IInv, TypeOK, Fit, Jobs
<1>2. open' = open /\ wrote' = wrote
  BY DEF UndoNext, StartUndo, List, NothingLeft, Discard, NothingToDo, StartRestore, RestoreFile,
     RestoreFails, Mark, EndUndo, volatile
<1>3. \A n \in Numbers : \A f : Busy(n, f)' => Busy(n, f)
  BY <1>2 DEF Busy
<1>4. CASE disk' = disk /\ store' = store
  BY <1>1, <1>3, <1>4, ActsSame, ChainSame
<1>5. CASE List(u)
  <2>1. PICK k \in 0..MaxN : store' = Pruned(k)
    BY <1>5 DEF List
  <2>2. k \in Nat /\ disk' = disk
    BY <1>5, UndoAssumption DEF List
  <2>3. /\ \A m \in Numbers : Acts'[m] \in {Acts[m], {}}
        /\ \A i, m \in Numbers : Acts'[i] # {} /\ i < m => Acts'[m] = Acts[m]
    BY <2>1, <2>2, <1>1, PrunedActs
  <2> QED BY <1>1, <1>3, <2>2, <2>3, ChainPruned
<1>6. ASSUME NEW n \in Numbers, Discard(u, n) \/ NothingToDo(u, n)
      PROVE  Chain' /\ OncePerFile'
  <2>1. /\ Under("txn") # {} /\ n = Max(Under("txn")) /\ disk' = disk
        /\ \/ /\ store[n].torn \/ "external" \in Classes(n)
              /\ store' = [store EXCEPT ![n].at = "discarded"]
           \/ /\ Classes(n) \subseteq {"before"}
              /\ store' = [store EXCEPT ![n].at = "undone"]
    BY <1>1, <1>6 DEF Discard, NothingToDo, Works, From, To, Side, Candidate, Rename, UndoerOK
  <2>2. /\ \A m \in Numbers : n < m => Acts[m] = {}
        /\ \A r \in Acts[n] : disk[r.path] = r.before \/ disk[r.path] = r.after
        /\ store[n].at = "txn"
    BY <2>1, TopFits DEF Under
  <2>3. Acts[n] = Range(Recs(n))
    BY <2>2, ActsIs
  <2>4. "external" \notin Classes(n)
    <3> SUFFICES ASSUME NEW r \in Range(Recs(n)) PROVE Classify(r) # "external"
      BY DEF Classes
    <3> QED BY <2>2, <2>3 DEF Classify
  <2>5. \A r \in Acts[n] : disk[r.path] = r.before
    <3> SUFFICES ASSUME NEW r \in Acts[n] PROVE disk[r.path] = r.before
      OBVIOUS
    <3>1. CASE store[n].torn
      <4>1. Recs(n) = <<>> /\ Range(<<>>) = {}
        BY <3>1, <1>1 DEF StoreType, Recs, Range
      <4> QED BY <4>1, <2>3
    <3>2. CASE Classes(n) \subseteq {"before"}
      <4>1. Classify(r) = "before"
        BY <3>2, <2>3 DEF Classes
      <4> QED BY <4>1 DEF Classify
    <3> QED BY <3>1, <3>2, <2>1, <2>4
  <2> QED BY <2>1, <2>2, <2>5, <1>2, TopGoes
<1>7. ASSUME pc[u] = "Restore", Present(job[u].n)
      PROVE  /\ job[u].op = "undo" /\ job[u].n \in Numbers
             /\ \A m \in Numbers : job[u].n < m => Acts[m] = {}
             /\ Acts[job[u].n] = Range(Recs(job[u].n))
             /\ job[u].recs \in Seq(Rec) /\ Range(job[u].recs) \subseteq Range(Recs(job[u].n))
  <2>1. job[u].op = "undo" /\ job[u].n \in Under("txn") /\ \A m \in Under("txn") : m <= job[u].n
    BY <1>1, <1>7 DEF UndoerOK
  <2>2. job[u].n \in Numbers /\ store[job[u].n].at = "txn"
    BY <2>1 DEF Under
  <2>3. ASSUME NEW m \in Numbers, job[u].n < m PROVE store[m].at # "txn"
    <3>1. ~(m <= job[u].n)
      BY <2>2, <2>3, UndoAssumption DEF Numbers
    <3> QED BY <3>1, <2>1 DEF Under
  <2> QED BY <2>1, <2>2, <2>3, <1>1, <1>7, ActsIs DEF RestoreInv, Jobs
<1>8. CASE RestoreFile(u) /\ Present(job[u].n)
  <2>1. PICK p, r : p = job[u].n /\ r = Head(job[u].recs)
    OBVIOUS
  <2>2. /\ pc[u] = "Restore" /\ job[u].recs # <<>> /\ store' = store
        /\ disk' = [disk EXCEPT ![r.path] = r.before]
    BY <1>7, <1>8, <2>1 DEF RestoreFile
  <2>3. p \in Numbers /\ r \in Acts[p] /\ \A m \in Numbers : p < m => Acts[m] = {}
    BY <1>7, <1>8, <2>1, <2>2, RangeTail
  <2>4. Acts' = Acts
    BY <2>2, ActsSame
  <2>5. OncePerFile'
    BY <2>4, <1>1 DEF OncePerFile
  <2>6. ASSUME NEW n \in Numbers, NEW s \in Acts[n], NEW x \in Contents \cup {Absent},
               Sees(Acts, disk', n, s.path, x)
        PROVE  x = s.before \/ (x = s.after /\ ~Busy(n, s.path)')
    <3>1. s.path \in Files /\ r.path \in Files
      BY <1>1, <2>3, RecordTypes DEF Rec
    <3>2. ASSUME Sees(Acts, disk, n, s.path, x) PROVE x = s.before \/ (x = s.after /\ ~Busy(n, s.path)')
      BY <3>2, <1>1, <1>3 DEF Chain
    <3>3. CASE s.path # r.path
      <4>1. disk'[s.path] = disk[s.path]
        BY <3>1, <3>3, <2>2, <1>1 DEF Image
      <4>2. Sees(Acts, disk, n, s.path, x)
        BY <4>1, <2>6, SeesAbove
      <4> QED BY <4>2, <3>2
    <3>4. CASE s.path = r.path /\ n < p
      <4>1. Sees(Acts, disk, n, s.path, x)
        BY <3>4, <2>3, <2>6, SeesTouched
      <4> QED BY <4>1, <3>2
    <3>5. CASE s.path = r.path /\ n = p
      <4>1. s = r
        BY <3>5, <2>3, <1>1 DEF OncePerFile
      <4>2. \A m \in Numbers : n < m => Acts[m] = {}
        BY <3>5, <2>3
      <4>3. x = disk'[r.path]
        BY <3>5, <4>2, <2>6, SeesTop
      <4>4. disk'[r.path] = r.before
        BY <3>1, <2>2, <1>1 DEF Image
      <4> QED BY <4>1, <4>3, <4>4
    <3>6. ~(p < n)
      BY <2>3
    <3> QED BY <3>3, <3>4, <3>5, <3>6, <2>3, UndoAssumption DEF Numbers
  <2> QED BY <2>4, <2>5, <2>6 DEF Chain
<1>10. CASE RestoreFile(u) /\ ~Present(job[u].n)
  <2>1. /\ pc[u] = "Restore" /\ job[u].recs # <<>> /\ job[u].recs \in Seq(Rec)
        /\ job[u].op = "undo" /\ store' = store
    BY <1>1, <1>10 DEF RestoreFile, UndoerOK, Jobs
  <2>2. PICK r \in Range(job[u].recs) : disk' = [disk EXCEPT ![r.path] = r.before]
    BY <2>1, <1>10, RangeTail DEF RestoreFile
  <2>3. r.path \in Files /\ disk[r.path] = r.before
    BY <2>1, <1>1, <1>10 DEF UndoerOK
  <2>4. disk' = disk
    BY <2>2, <2>3, <1>1 DEF Image
  <2> QED BY <2>1, <2>4, <1>4
<1>9. CASE Mark(u)
  <2>0. Present(job[u].n)
    BY <1>1, <1>9 DEF Mark, Present, From
  <2> USE <2>0
  <2>1. PICK p : p = job[u].n
    OBVIOUS
  <2>2. /\ pc[u] = "Restore" /\ job[u].recs = <<>> /\ disk' = disk
        /\ store' = [store EXCEPT ![p].at = To(job[u].op)]
    BY <1>9, <2>1 DEF Mark, Rename
  <2>3. /\ p \in Numbers /\ \A m \in Numbers : p < m => Acts[m] = {}
        /\ Acts[p] = Range(Recs(p)) /\ To(job[u].op) = "undone"
    BY <1>7, <2>1, <2>2 DEF To
  <2>4. \A r \in Acts[p] : disk[r.path] = r.before
    <3>1. Range(<<>>) = {}
      BY DEF Range
    <3>2. \A r \in Range(Recs(p)) : r \in Range(job[u].recs) \/ disk[r.path] = r.before
      BY <2>1, <2>2, <1>1 DEF UndoerOK
    <3> QED BY <3>1, <3>2, <2>2, <2>3
  <2>5. store' = [store EXCEPT ![p].at = "undone"]
    BY <2>2, <2>3
  <2> QED BY <2>2, <2>3, <2>4, <2>5, <1>2, TopGoes
<1> QED BY <1>4, <1>5, <1>6, <1>8, <1>9, <1>10
     DEF UndoNext, StartUndo, NothingLeft, StartRestore, RestoreFails

LEMMA UndoCalls ==
  ASSUME IInv, Fit, "redo" \notin Ops, NEW u \in Calls, UndoNext(u)
  PROVE  \A c \in Calls : WriterOK(c)' /\ UndoerOK(c)'
<1>1. /\ TypeOK /\ StoreType(store) /\ disk \in Image /\ RestoreInv /\ OncePerFile
      /\ pc \in [Calls -> GatedPcs \cup FreePcs] /\ job \in [Calls -> Jobs]
      /\ \A c \in Calls : WriterOK(c) /\ UndoerOK(c)
  BY StoreSteps DEF IInv, TypeOK, Fit, Jobs
<1>2. /\ pc[u] = pc'[u] \/ pc[u] \in {"Idle", "Top", "Restore"}
      /\ (gate = None /\ pc[u] \notin GatedPcs) \/ pc[u] \in {"Top", "Restore"}
      /\ open' = open /\ wrote' = wrote /\ phase' = phase
  BY <1>1, OneGate DEF UndoNext, StartUndo, List, NothingLeft, Discard, NothingToDo, StartRestore, RestoreFile,
     RestoreFails, Mark, Works, EndUndo, Acquire, volatile
<1>3. /\ \A c \in Calls : pc'[c] = pc[c] \/ (c = u /\ pc'[c] \in {"Idle", "Top", "Restore"})
      /\ \A c \in Calls \ {u} : job'[c] = job[c]
  BY <1>1 DEF UndoNext, StartUndo, List, NothingLeft, Discard, NothingToDo, StartRestore, RestoreFile,
     RestoreFails, Mark, Works, EndUndo, Counted, Goto, volatile
<1>4. \A c \in Calls : pc'[c] \in {"Idle", "Top", "Restore"} => open[c] = 0
  BY <1>1, <1>2, <1>3 DEF WriterOK
<1>5. \A c \in Calls : c # u => pc[c] \notin GatedPcs
  BY <1>1, <1>2, OneGate DEF GatedPcs
<1>6. pc[u] \notin Writing
  BY <1>2 DEF GatedPcs, Writing
<1>7. ASSUME NEW c \in Calls PROVE WriterOK(c)'
  <2>1. pc'[c] \notin Writing
    BY <1>3, <1>5, <1>6 DEF GatedPcs, Writing
  <2>2. pc'[c] = "Abort" => pc[c] = "Abort"
    BY <1>3
  <2> QED BY <2>1, <2>2, <1>1, <1>2, <1>4 DEF WriterOK, Writing
<1>8. ASSUME NEW c \in Calls \ {u} PROVE UndoerOK(c)'
  BY <1>1, <1>3, <1>5 DEF UndoerOK, GatedPcs
<1>9. UndoerOK(u)'
  <2>1. job'[u].op = "undo"
    <3>1. ASSUME NEW op, NEW k, StartUndo(u, op, k), op \in {"undo", "redo"} PROVE job'[u].op = "undo"
      BY <3>1, <1>1 DEF StartUndo
    <3>2. CASE NothingLeft(u) \/ RestoreFails(u)
      BY <3>2, <1>1 DEF NothingLeft, RestoreFails, EndUndo, NoJob
    <3>3. CASE List(u)
      BY <3>3, <1>1 DEF List, volatile, UndoerOK
    <3>4. ASSUME NEW n \in Numbers, Discard(u, n) \/ NothingToDo(u, n) \/ StartRestore(u, n)
          PROVE  job'[u].op = "undo"
      BY <3>4, <1>1 DEF Discard, NothingToDo, StartRestore, Counted, UndoerOK, Jobs
    <3>5. CASE RestoreFile(u) \/ Mark(u)
      BY <3>5, <1>1 DEF RestoreFile, Mark, UndoerOK, Jobs
    <3> QED BY <3>1, <3>2, <3>3, <3>4, <3>5 DEF UndoNext
  <2>2. CASE pc'[u] # "Restore"
    BY <2>1, <2>2 DEF UndoerOK
  <2>3. ASSUME NEW n \in Numbers, StartRestore(u, n) PROVE UndoerOK(u)'
    <3>1. /\ Under("txn") # {} /\ n = Max(Under("txn")) /\ store' = store
          /\ job' = [job EXCEPT ![u].n = n, ![u].recs = Recs(n)]
      BY <2>3, <1>1 DEF StartRestore, Works, From, Candidate, UndoerOK
    <3>2. n \in Under("txn") /\ \A m \in Under("txn") : m <= n
      BY <3>1, TopFits
    <3>3. job'[u].n = n /\ job'[u].recs = Recs(n)
      BY <3>1, <1>1 DEF Jobs
    <3>4. Under("txn")' = Under("txn") /\ Recs(job[u].n)' = Recs(n)
      BY <3>1, <3>3 DEF Under, Recs
    <3>5. \A r \in Range(Recs(job[u].n)') : r \in Range(job'[u].recs)
      BY <3>3, <3>4
    <3>6. Present(job[u].n)'
      BY <3>1, <3>2, <3>3 DEF Present, Under
    <3> QED BY <2>1, <3>2, <3>3, <3>4, <3>5, <3>6 DEF UndoerOK, Range
  <2>4. CASE RestoreFile(u) /\ Present(job[u].n)
    <3>1. PICK p, q : p = job[u].n /\ q = job[u].recs
      OBVIOUS
    <3>2. /\ pc[u] = "Restore" /\ q # <<>> /\ q \in Seq(Rec) /\ store' = store /\ job[u].op = "undo"
          /\ disk' = [disk EXCEPT ![Head(q).path] = Head(q).before]
          /\ job' = [job EXCEPT ![u].recs = Tail(q)]
      BY <2>4, <3>1, <1>1 DEF RestoreFile, UndoerOK, Jobs
    <3>3. job'[u].n = p /\ job'[u].recs = Tail(q)
      BY <3>1, <3>2, <1>1 DEF Jobs
    <3>4. /\ p \in Under("txn") /\ \A m \in Under("txn") : m <= p
          /\ \A r \in Range(Recs(p)) : r \in Range(q) \/ disk[r.path] = r.before
          /\ Range(q) \subseteq Range(Recs(p))
      BY <2>4, <3>1, <3>2, <1>1 DEF UndoerOK, RestoreInv
    <3>5. /\ Under("txn")' = Under("txn") /\ Recs(job[u].n)' = Recs(p)
          /\ Present(job[u].n)'
      BY <2>4, <3>1, <3>2, <3>3 DEF Under, Recs, Present
    <3>6. ASSUME NEW r \in Range(Recs(p)) PROVE r \in Range(Tail(q)) \/ disk'[r.path] = r.before
      <4>1. p \in Numbers /\ Head(q) \in Range(Recs(p)) /\ store[p].at = "txn"
        BY <3>2, <3>4, RangeTail DEF Under
      <4>2. r \in Rec /\ Head(q) \in Rec /\ r \in Acts[p] /\ Head(q) \in Acts[p]
        BY <1>1, <3>6, <4>1, RecordTypes, ActsIs
      <4>3. CASE r.path = Head(q).path
        <5>1. r = Head(q)
          BY <4>1, <4>2, <4>3, <1>1 DEF OncePerFile
        <5> QED BY <4>2, <5>1, <3>2, <1>1 DEF Image, Rec
      <4>4. CASE r.path # Head(q).path
        <5>1. disk'[r.path] = disk[r.path]
          BY <4>2, <4>4, <3>2, <1>1 DEF Image, Rec
        <5>2. r \in Range(q) => r \in Range(Tail(q))
          <6>1. r \in Range(q) => r = Head(q) \/ r \in Range(Tail(q))
            BY <3>2, RangeHeadTail
          <6> QED BY <6>1, <4>4
        <5> QED BY <5>1, <5>2, <3>4
      <4> QED BY <4>3, <4>4
    <3>7. \A r \in Range(Recs(job[u].n)') : r \in Range(job'[u].recs) \/ disk'[r.path] = r.before
      BY <3>3, <3>5, <3>6
    <3> QED BY <2>1, <3>3, <3>4, <3>5, <3>7 DEF UndoerOK, Range
  <2>7. CASE RestoreFile(u) /\ ~Present(job[u].n)
    <3>1. PICK p, q : p = job[u].n /\ q = job[u].recs
      OBVIOUS
    <3>2. /\ pc[u] = "Restore" /\ q # <<>> /\ q \in Seq(Rec) /\ store' = store /\ job[u].op = "undo"
          /\ disk' = [disk EXCEPT ![Head(q).path] = Head(q).before]
          /\ job' = [job EXCEPT ![u].recs = Tail(q)]
      BY <2>7, <3>1, <1>1 DEF RestoreFile, UndoerOK, Jobs
    <3>3. job'[u].n = p /\ job'[u].recs = Tail(q)
      BY <3>1, <3>2, <1>1 DEF Jobs
    <3>4. \A r \in Range(q) : r.path \in Files /\ disk[r.path] = r.before
      BY <2>7, <3>1, <3>2, <1>1 DEF UndoerOK
    <3>5. Head(q) \in Range(q) /\ Range(Tail(q)) \subseteq Range(q)
      BY <3>2, RangeTail
    <3>6. disk' = disk
      BY <3>2, <3>4, <3>5, <1>1 DEF Image
    <3>7. ~Present(job[u].n)'
      BY <2>7, <3>1, <3>2, <3>3 DEF Present
    <3> QED BY <2>1, <3>3, <3>4, <3>5, <3>6, <3>7 DEF UndoerOK
  <2>5. CASE List(u)
    <3>1. pc[u] # "Restore" /\ pc' = pc
      BY <2>5 DEF List, volatile
    <3> QED BY <3>1, <2>2
  <2>6. pc'[u] # "Restore" \/ RestoreFile(u) \/ List(u) \/ \E n \in Numbers : StartRestore(u, n)
    BY <1>1 DEF UndoNext, StartUndo, NothingLeft, Discard, NothingToDo, RestoreFails, Mark, Works,
       EndUndo, Goto
  <2> QED BY <2>2, <2>3, <2>4, <2>5, <2>6, <2>7
<1> QED BY <1>7, <1>8, <1>9

-----------------------------------------------------------------------------
LEMMA MishapsAddUp ==
  ASSUME [Next]_vars
  PROVE  mishaps' = mishaps \/ mishaps' = mishaps + 1
<1>1. ASSUME NEW c \in Calls, ToolNext(c) PROVE mishaps' = mishaps \/ mishaps' = mishaps + 1
  BY <1>1 DEF ToolNext, StartTool, ReadBefore, MakeDir, WriteEmptyManifest, WalAppend,
     WriteTarget, Return, StartFormat, Fail, StartCommit, CommitTimesOut, RemoveUndone, Commit,
     Abort, Prune, Mishap, budgets
<1>2. ASSUME NEW c \in Calls, UndoNext(c) PROVE mishaps' = mishaps \/ mishaps' = mishaps + 1
  BY <1>2 DEF UndoNext, StartUndo, List, NothingLeft, Discard, NothingToDo, StartRestore, RestoreFile,
     RestoreFails, Mark, Prune, Mishap, budgets
<1> QED BY <1>1, <1>2 DEF Next, Crash, Edit, Mishap, vars, budgets

LEMMA ReusedStays ==
  ASSUME [Next]_vars, ~reused'
  PROVE  ~reused
<1>1. ASSUME NEW c \in Calls, ToolNext(c) PROVE ~reused
  <2>1. MakeDir(c) => ~reused
    BY DEF MakeDir
  <2> QED BY <1>1, <2>1 DEF ToolNext, StartTool, ReadBefore, WriteEmptyManifest, WalAppend,
     WriteTarget, Return, StartFormat, Fail, StartCommit, CommitTimesOut, RemoveUndone, Commit,
     Abort, budgets
<1>2. ASSUME NEW c \in Calls, UndoNext(c) PROVE ~reused
  BY <1>2 DEF UndoNext, StartUndo, List, NothingLeft, Discard, NothingToDo, StartRestore, RestoreFile,
     RestoreFails, Mark, budgets
<1> QED BY <1>1, <1>2 DEF Next, Crash, Edit, vars, budgets

LEMMA FitStep ==
  ASSUME IInv, Fit, "redo" \notin Ops, [Next]_vars, mishaps' = mishaps, ~reused
  PROVE  Fit'
<1>1. ASSUME NEW c \in Calls, ToolNext(c) PROVE Fit'
  BY <1>1, ToolChain, ToolWriters, ToolUndoers DEF Fit
<1>2. ASSUME NEW c \in Calls, UndoNext(c) PROVE Fit'
  BY <1>2, UndoChain, UndoCalls DEF Fit
<1>3. CASE Crash
  <2>1. /\ disk' = disk /\ Acts' = Acts /\ \A c \in Calls : open'[c] = 0 /\ pc'[c] = "Idle"
    BY <1>3, ActsSame DEF Crash
  <2>2. \A n \in Numbers : \A f : ~Busy(n, f)'
    BY <2>1, UndoAssumption DEF Busy, Numbers
  <2>3. Chain' /\ OncePerFile'
    BY <2>1, <2>2, ChainSame DEF Fit
  <2>4. \A c \in Calls : WriterOK(c)' /\ UndoerOK(c)'
    BY <1>3, <2>1 DEF Crash, WriterOK, UndoerOK, Writing, NoJob
  <2> QED BY <2>3, <2>4 DEF Fit
<1>4. ~Edit
  <2>1. mishaps \in Nat
    BY DEF IInv, TypeOK
  <2> QED BY <2>1 DEF Edit, Mishap
<1>5. CASE UNCHANGED vars
  <2>1. Acts' = Acts /\ disk' = disk
    BY <1>5 DEF Acts, Recs, vars
  <2>2. \A n \in Numbers : \A f : Busy(n, f)' => Busy(n, f)
    BY <1>5 DEF Busy, vars, volatile
  <2>3. Chain' /\ OncePerFile'
    BY <2>1, <2>2, ChainSame DEF Fit
  <2>4. \A c \in Calls : WriterOK(c)' /\ UndoerOK(c)'
    BY <1>5 DEF Fit, WriterOK, UndoerOK, Num, Newest, Present, Recs, Under, vars, volatile
  <2> QED BY <2>3, <2>4 DEF Fit
<1> QED BY <1>1, <1>2, <1>3, <1>4, <1>5 DEF Next

\* Without redo, an undo puts no change aside as a conflict unless something outside the
\* tools caused it, or a number was given to two calls: however many calls there are,
\* wherever they were cut off, whatever has been pruned, and also when an undo comes
\* between a tool and its commit or abort.
THEOREM ConflictsHaveCauses == "redo" \notin Ops => (Spec => []TopIsUndoable)
<1> SUFFICES ASSUME "redo" \notin Ops PROVE Spec => []TopIsUndoable
  OBVIOUS
<1> DEFINE Fitting == mishaps = 0 /\ ~reused => Fit
<1>1. Init => Fitting
  <2> SUFFICES ASSUME Init PROVE Fit
    OBVIOUS
  <2>1. \A n \in Numbers : Acts[n] = {}
    BY DEF Init, NoTxn, Acts
  <2>2. \A c \in Calls : WriterOK(c) /\ UndoerOK(c)
    BY DEF Init, WriterOK, UndoerOK, Writing, NoJob
  <2> QED BY <2>1, <2>2 DEF Fit, Chain, OncePerFile
<1>2. IInv /\ Fitting /\ [Next]_vars => Fitting'
  <2> SUFFICES ASSUME IInv, mishaps = 0 /\ ~reused => Fit, [Next]_vars, mishaps' = 0, ~reused'
               PROVE  Fit'
    OBVIOUS
  <2>1. mishaps \in Nat
    BY DEF IInv, TypeOK
  <2>2. mishaps = 0 /\ mishaps' = mishaps
    BY <2>1, MishapsAddUp
  <2> QED BY <2>2, FitStep, ReusedStays
<1>3. IInv /\ Fitting => TopIsUndoable
  <2> SUFFICES ASSUME IInv, Fit, Under("txn") # {}
               PROVE  "external" \notin Classes(Max(Under("txn")))
    BY DEF TopIsUndoable
  <2>1. PICK n : n = Max(Under("txn"))
    OBVIOUS
  <2>2. n \in Under("txn") /\ \A r \in Acts[n] : disk[r.path] = r.before \/ disk[r.path] = r.after
    BY <2>1, TopFits
  <2>3. Acts[n] = Range(Recs(n))
    BY <2>2, ActsIs DEF Under
  <2>4. \A r \in Range(Recs(n)) : Classify(r) # "external"
    BY <2>2, <2>3 DEF Classify
  <2> QED BY <2>1, <2>4 DEF Classes
<1> HIDE DEF Fitting
<1> QED BY Invariance, <1>1, <1>2, <1>3, PTL DEF Spec

-----------------------------------------------------------------------------
(* The images of the past and of the future, for any set of transactions.  *)

\* The next transaction of the set that records the same file found what this one left.
Linked(txns, changes, img) ==
    \A n \in txns : \A r \in changes[n] :
        /\ (\A m \in txns : n < m => \A s \in changes[m] : s.path # r.path) => r.after = img[r.path]
        /\ \A m \in txns : \A s \in changes[m] :
            n < m /\ s.path = r.path
                /\ (\A k \in txns : n < k /\ k < m => \A q \in changes[k] : q.path # r.path)
              => r.after = s.before

\* The same of the undone ones, for which the earlier one is redone first.
LinkedAhead(txns, changes, img) ==
    \A n \in txns : \A r \in changes[n] :
        /\ (\A m \in txns : m < n => \A s \in changes[m] : s.path # r.path) => r.before = img[r.path]
        /\ \A m \in txns : \A s \in changes[m] :
            m < n /\ s.path = r.path
                /\ (\A k \in txns : m < k /\ k < n => \A q \in changes[k] : q.path # r.path)
              => r.before = s.after

Once(changes) == \A n \in Numbers : \A r, s \in changes[n] : r.path = s.path => r = s
InFiles(changes) == \A n \in Numbers : \A r \in changes[n] : r.path \in Files

LEMMA NumbersAreNat == Numbers \in SUBSET Nat /\ Numbers \in SUBSET (0..MaxN) /\ MaxN \in Nat
BY UndoAssumption DEF Numbers

LEMMA ImagesAre ==
  ASSUME NEW D, NEW R, NEW P, NEW n
  PROVE  /\ Back(D, R, P, n) = [f \in Files |-> Back(D, R, P, n)[f]]
         /\ Ahead(D, R, P, n) = [f \in Files |-> Ahead(D, R, P, n)[f]]
BY DEF Back, Ahead

LEMMA BackUntouched ==
  ASSUME NEW D \in SUBSET Numbers, NEW R, NEW P, NEW n \in Numbers, NEW f \in Files,
         \A m \in D : n <= m => \A r \in R[m] : r.path # f
  PROVE  Back(D, R, P, n)[f] = P[f]
<1>1. {m \in Touching(D, R, f) : n <= m} = {}
  BY DEF Touching
<1> QED BY <1>1 DEF Back

LEMMA BackTouched ==
  ASSUME NEW D \in SUBSET Numbers, NEW R, Once(R), NEW P, NEW n \in Numbers, NEW f \in Files,
         NEW m \in D, NEW r \in R[m], n <= m, r.path = f,
         \A k \in D : n <= k /\ k < m => \A s \in R[k] : s.path # f
  PROVE  Back(D, R, P, n)[f] = r.before
<1>1. PICK T : T = {k \in Touching(D, R, f) : n <= k}
  OBVIOUS
<1>2. m \in T /\ T \in SUBSET Nat /\ \A k \in T : m <= k
  <2>1. m \in T /\ T \in SUBSET D /\ \A k \in T : n <= k /\ \E s \in R[k] : s.path = f
    BY <1>1 DEF Touching
  <2>2. \A k \in D : k \in Nat
    BY NumbersAreNat
  <2>3. \A k \in T : ~(k < m)
    BY <2>1
  <2> QED BY <2>1, <2>2, <2>3
<1>3. Min(T) = m
  <2>1. Min(T) \in T /\ \A y \in T : Min(T) <= y
    BY <1>2, MinExists DEF Min
  <2>2. Min(T) <= m /\ m <= Min(T) /\ Min(T) \in Nat /\ m \in Nat
    BY <1>2, <2>1
  <2> QED BY <2>2
<1>4. Of(R[m], f) = r
  BY DEF Of, Once
<1> QED BY <1>1, <1>2, <1>3, <1>4 DEF Back

\* The first transaction from n on that records f, and the last one up to n, if any does.
TouchedFrom(D, R, n, f) ==
    \/ \A m \in D : n <= m => \A r \in R[m] : r.path # f
    \/ \E m \in D : \E r \in R[m] :
        /\ n <= m /\ r.path = f
        /\ \A k \in D : n <= k /\ k < m => \A s \in R[k] : s.path # f
TouchedUpTo(D, R, n, f) ==
    \/ \A m \in D : m <= n => \A r \in R[m] : r.path # f
    \/ \E m \in D : \E r \in R[m] :
        /\ m <= n /\ r.path = f
        /\ \A k \in D : m < k /\ k <= n => \A s \in R[k] : s.path # f

LEMMA FirstTouch ==
  ASSUME NEW D \in SUBSET Numbers, NEW R, NEW n \in Numbers, NEW f
  PROVE  TouchedFrom(D, R, n, f)
<1>1. PICK T : T = {k \in Touching(D, R, f) : n <= k}
  OBVIOUS
<1>2. CASE T = {}
  BY <1>1, <1>2 DEF Touching, TouchedFrom
<1>3. CASE T # {}
  <2>1. T \in SUBSET Nat
    BY <1>1, NumbersAreNat DEF Touching
  <2>2. PICK m \in T : \A k \in T : m <= k
    BY <1>3, <2>1, MinExists
  <2>3. \A k \in D : n <= k /\ k < m => \A s \in R[k] : s.path # f
    BY <1>1, <2>1, <2>2, NumbersAreNat DEF Touching
  <2> QED BY <1>1, <2>2, <2>3 DEF Touching, TouchedFrom
<1> QED BY <1>2, <1>3

LEMMA AheadUntouched ==
  ASSUME NEW D \in SUBSET Numbers, NEW R, NEW P, NEW n \in Numbers, NEW f \in Files,
         \A m \in D : m <= n => \A r \in R[m] : r.path # f
  PROVE  Ahead(D, R, P, n)[f] = P[f]
<1>1. {m \in Touching(D, R, f) : m <= n} = {}
  BY DEF Touching
<1> QED BY <1>1 DEF Ahead

LEMMA AheadTouched ==
  ASSUME NEW D \in SUBSET Numbers, NEW R, Once(R), NEW P, NEW n \in Numbers, NEW f \in Files,
         NEW m \in D, NEW r \in R[m], m <= n, r.path = f,
         \A k \in D : m < k /\ k <= n => \A s \in R[k] : s.path # f
  PROVE  Ahead(D, R, P, n)[f] = r.after
<1>1. PICK T : T = {k \in Touching(D, R, f) : k <= n}
  OBVIOUS
<1>2. m \in T /\ T \in SUBSET (0..MaxN) /\ \A k \in T : k <= m
  <2>1. m \in T /\ T \in SUBSET D /\ \A k \in T : k <= n /\ \E s \in R[k] : s.path = f
    BY <1>1 DEF Touching
  <2>2. \A k \in D : k \in Nat /\ k \in 0..MaxN
    BY NumbersAreNat
  <2>3. \A k \in T : ~(m < k)
    BY <2>1
  <2> QED BY <2>1, <2>2, <2>3
<1>3. Max(T) = m
  <2>1. Max(T) \in T /\ \A y \in T : y <= Max(T)
    BY <1>2, MaxIs, NumbersAreNat
  <2>2. Max(T) <= m /\ m <= Max(T)
    BY <1>2, <2>1
  <2>3. Max(T) \in 0..MaxN /\ m \in 0..MaxN
    BY <1>2, <2>1
  <2>4. Max(T) \in Nat /\ m \in Nat
    BY <2>3, NumbersAreNat
  <2> QED BY <2>2, <2>4
<1>4. Of(R[m], f) = r
  BY DEF Of, Once
<1> QED BY <1>1, <1>2, <1>3, <1>4 DEF Ahead

LEMMA LastTouch ==
  ASSUME NEW D \in SUBSET Numbers, NEW R, NEW n \in Numbers, NEW f
  PROVE  TouchedUpTo(D, R, n, f)
<1>1. PICK T : T = {k \in Touching(D, R, f) : k <= n}
  OBVIOUS
<1>2. CASE T = {}
  BY <1>1, <1>2 DEF Touching, TouchedUpTo
<1>3. CASE T # {}
  <2>1. T \in SUBSET (0..MaxN)
    BY <1>1, NumbersAreNat DEF Touching
  <2>2. PICK m \in T : \A k \in T : k <= m
    BY <1>3, <2>1, MaxIs, NumbersAreNat
  <2>3. \A k \in D : m < k /\ k <= n => \A s \in R[k] : s.path # f
    BY <1>1, <2>1, <2>2, NumbersAreNat DEF Touching
  <2> QED BY <1>1, <2>2, <2>3 DEF Touching, TouchedUpTo
<1> QED BY <1>2, <1>3

\* p comes after a set of transactions: it takes the image P to Q.
Takes(R, p, P, Q) ==
    /\ \A r \in R[p] : P[r.path] = r.before /\ Q[r.path] = r.after
    /\ \A f \in Files : (\A r \in R[p] : r.path # f) => Q[f] = P[f]

LEMMA PushBack ==
  ASSUME NEW D \in SUBSET Numbers, NEW p \in Numbers, \A m \in D : m < p,
         NEW R, Once(R), InFiles(R), NEW P \in Image, NEW Q \in Image, Takes(R, p, P, Q)
  PROVE  /\ Back(D \cup {p}, R, Q, p) = P
         /\ \A n \in D : Back(D \cup {p}, R, Q, n) = Back(D, R, P, n)
         /\ Linked(D \cup {p}, R, Q) <=> Linked(D, R, P)
<1>n. D \cup {p} \in SUBSET Numbers /\ \A m \in Numbers : m \in Nat
  BY NumbersAreNat
<1>d. P = [f \in Files |-> P[f]]
  BY DEF Image
<1>1. ASSUME NEW f \in Files PROVE Back(D \cup {p}, R, Q, p)[f] = P[f]
  <2>1. CASE \A r \in R[p] : r.path # f
    <3>1. \A m \in D \cup {p} : p <= m => \A r \in R[m] : r.path # f
      BY <2>1, <1>n
    <3>2. Back(D \cup {p}, R, Q, p)[f] = Q[f]
      BY <1>n, <3>1, BackUntouched
    <3> QED BY <2>1, <3>2 DEF Takes
  <2>2. ASSUME NEW r \in R[p], r.path = f PROVE Back(D \cup {p}, R, Q, p)[f] = P[f]
    <3>1. \A k \in D \cup {p} : ~(p <= k /\ k < p)
      BY <1>n
    <3>2. Back(D \cup {p}, R, Q, p)[f] = r.before
      <4>1. PICK E : E = D \cup {p}
        OBVIOUS
      <4>2. E \in SUBSET Numbers /\ p \in E /\ p <= p
        BY <4>1, <1>n
      <4>3. Back(E, R, Q, p)[f] = r.before
        BY <3>1, <2>2, <4>1, <4>2, BackTouched
      <4> QED BY <4>1, <4>3
    <3> QED BY <2>2, <3>2 DEF Takes
  <2> QED BY <2>1, <2>2
<1>2. ASSUME NEW n \in D, NEW f \in Files PROVE Back(D \cup {p}, R, Q, n)[f] = Back(D, R, P, n)[f]
  <2>0. PICK E : E = D \cup {p} /\ E \in SUBSET Numbers /\ n \in Numbers /\ n < p
    BY <1>n
  <2>1. CASE \A m \in D : n <= m => \A r \in R[m] : r.path # f
    <3>1. Back(D, R, P, n)[f] = P[f]
      BY <2>1, <1>n, BackUntouched
    <3>2. CASE \A r \in R[p] : r.path # f
      <4>1. \A m \in E : n <= m => \A r \in R[m] : r.path # f
        BY <2>0, <2>1, <3>2
      <4>2. Back(E, R, Q, n)[f] = Q[f]
        BY <2>0, <4>1, BackUntouched
      <4> QED BY <2>0, <3>1, <3>2, <4>2 DEF Takes
    <3>3. ASSUME NEW r \in R[p], r.path = f PROVE Back(E, R, Q, n)[f] = P[f]
      <4>1. \A k \in E : n <= k /\ k < p => \A s \in R[k] : s.path # f
        BY <2>0, <2>1, <1>n
      <4>2. p \in E /\ n <= p
        BY <2>0, <1>n
      <4>3. Back(E, R, Q, n)[f] = r.before
        BY <2>0, <3>3, <4>1, <4>2, BackTouched
      <4> QED BY <4>3, <3>3 DEF Takes
    <3> QED BY <2>0, <3>1, <3>2, <3>3
  <2>2. ASSUME NEW m \in D, NEW r \in R[m], n <= m, r.path = f,
               \A k \in D : n <= k /\ k < m => \A s \in R[k] : s.path # f
        PROVE  Back(E, R, Q, n)[f] = Back(D, R, P, n)[f]
    <3>1. Back(D, R, P, n)[f] = r.before
      BY <2>2, <2>0, BackTouched
    <3>2. \A k \in E : n <= k /\ k < m => \A s \in R[k] : s.path # f
      <4>1. ~(p < m)
        BY <1>n
      <4> QED BY <2>0, <2>2, <4>1
    <3>3. m \in E
      BY <2>0
    <3>4. Back(E, R, Q, n)[f] = r.before
      BY <2>2, <2>0, <3>2, <3>3, BackTouched
    <3> QED BY <3>1, <3>4
  <2>3. TouchedFrom(D, R, n, f)
    BY <2>0, FirstTouch
  <2> QED BY <2>0, <2>1, <2>2, <2>3 DEF TouchedFrom
<1>3. ASSUME Linked(D, R, P) PROVE Linked(D \cup {p}, R, Q)
  <2> SUFFICES ASSUME NEW n \in D \cup {p}, NEW r \in R[n]
               PROVE  /\ (\A m \in D \cup {p} : n < m => \A s \in R[m] : s.path # r.path)
                            => r.after = Q[r.path]
                      /\ \A m \in D \cup {p} : \A s \in R[m] :
                            n < m /\ s.path = r.path
                                /\ (\A k \in D \cup {p} : n < k /\ k < m => \A q \in R[k] : q.path # r.path)
                              => r.after = s.before
    BY DEF Linked
  <2>1. r.path \in Files
    BY <1>n DEF InFiles
  <2>2. CASE n = p
    BY <2>2, <1>n DEF Takes
  <2>3. CASE n \in D
    <3>1. ASSUME \A m \in D \cup {p} : n < m => \A s \in R[m] : s.path # r.path
          PROVE  r.after = Q[r.path]
      <4>1. r.after = P[r.path]
        BY <1>3, <2>3, <3>1 DEF Linked
      <4>2. \A s \in R[p] : s.path # r.path
        BY <2>3, <3>1
      <4> QED BY <2>1, <4>1, <4>2 DEF Takes
    <3>2. ASSUME NEW m \in D \cup {p}, NEW s \in R[m], n < m, s.path = r.path,
                 \A k \in D \cup {p} : n < k /\ k < m => \A q \in R[k] : q.path # r.path
          PROVE  r.after = s.before
      <4>1. CASE m \in D
        BY <1>3, <2>3, <3>2, <4>1 DEF Linked
      <4>2. CASE m = p
        <5>1. \A k \in D : n < k => \A q \in R[k] : q.path # r.path
          BY <3>2, <4>2
        <5>2. r.after = P[r.path]
          BY <1>3, <2>3, <5>1 DEF Linked
        <5> QED BY <3>2, <4>2, <5>2 DEF Takes
      <4> QED BY <4>1, <4>2
    <3> QED BY <3>1, <3>2
  <2> QED BY <2>2, <2>3
<1>4. ASSUME Linked(D \cup {p}, R, Q) PROVE Linked(D, R, P)
  <2> SUFFICES ASSUME NEW n \in D, NEW r \in R[n]
               PROVE  /\ (\A m \in D : n < m => \A s \in R[m] : s.path # r.path)
                            => r.after = P[r.path]
                      /\ \A m \in D : \A s \in R[m] :
                            n < m /\ s.path = r.path
                                /\ (\A k \in D : n < k /\ k < m => \A q \in R[k] : q.path # r.path)
                              => r.after = s.before
    BY DEF Linked
  <2>1. r.path \in Files /\ n < p
    BY DEF InFiles
  <2>2. ASSUME \A m \in D : n < m => \A s \in R[m] : s.path # r.path
        PROVE  r.after = P[r.path]
    <3>1. ASSUME NEW s \in R[p], s.path = r.path PROVE r.after = P[r.path]
      <4>1. \A k \in D \cup {p} : n < k /\ k < p => \A q \in R[k] : q.path # r.path
        BY <2>2, <1>n
      <4>2. r.after = s.before
        BY <1>4, <2>1, <3>1, <4>1 DEF Linked
      <4> QED BY <3>1, <4>2 DEF Takes
    <3>2. CASE \A s \in R[p] : s.path # r.path
      <4>1. r.after = Q[r.path]
        BY <1>4, <2>2, <3>2 DEF Linked
      <4> QED BY <2>1, <3>2, <4>1 DEF Takes
    <3> QED BY <3>1, <3>2
  <2>3. ASSUME NEW m \in D, NEW s \in R[m], n < m, s.path = r.path,
               \A k \in D : n < k /\ k < m => \A q \in R[k] : q.path # r.path
        PROVE  r.after = s.before
    <3>1. ~(p < m)
      BY <1>n
    <3>2. \A k \in D \cup {p} : n < k /\ k < m => \A q \in R[k] : q.path # r.path
      BY <2>3, <3>1
    <3> QED BY <1>4, <2>3, <3>2 DEF Linked
  <2> QED BY <2>2, <2>3
<1>5. Back(D \cup {p}, R, Q, p) = P
  BY <1>1, <1>d, ImagesAre
<1>6. \A n \in D : Back(D \cup {p}, R, Q, n) = Back(D, R, P, n)
  <2> TAKE n \in D
  <2>1. \A f \in Files : Back(D \cup {p}, R, Q, n)[f] = Back(D, R, P, n)[f]
    BY <1>2
  <2>2. PICK g, h : /\ g = Back(D \cup {p}, R, Q, n) /\ h = Back(D, R, P, n)
                    /\ g = [f \in Files |-> g[f]] /\ h = [f \in Files |-> h[f]]
    BY ImagesAre
  <2> QED BY <2>1, <2>2
<1> QED BY <1>3, <1>4, <1>5, <1>6

LEMMA PushAhead ==
  ASSUME NEW U \in SUBSET Numbers, NEW p \in Numbers, \A m \in U : p < m,
         NEW R, Once(R), InFiles(R), NEW Q \in Image, NEW P \in Image, Takes(R, p, P, Q)
  PROVE  /\ Ahead(U \cup {p}, R, P, p) = Q
         /\ \A n \in U : Ahead(U \cup {p}, R, P, n) = Ahead(U, R, Q, n)
         /\ LinkedAhead(U \cup {p}, R, P) <=> LinkedAhead(U, R, Q)
<1>n. U \cup {p} \in SUBSET Numbers /\ \A m \in Numbers : m \in Nat
  BY NumbersAreNat
<1>d. Q = [f \in Files |-> Q[f]]
  BY DEF Image
<1>1. ASSUME NEW f \in Files PROVE Ahead(U \cup {p}, R, P, p)[f] = Q[f]
  <2>1. CASE \A r \in R[p] : r.path # f
    <3>1. \A m \in U \cup {p} : m <= p => \A r \in R[m] : r.path # f
      BY <2>1, <1>n
    <3>2. Ahead(U \cup {p}, R, P, p)[f] = P[f]
      BY <1>n, <3>1, AheadUntouched
    <3> QED BY <2>1, <3>2 DEF Takes
  <2>2. ASSUME NEW r \in R[p], r.path = f PROVE Ahead(U \cup {p}, R, P, p)[f] = Q[f]
    <3>1. \A k \in U \cup {p} : ~(p < k /\ k <= p)
      BY <1>n
    <3>2. Ahead(U \cup {p}, R, P, p)[f] = r.after
      <4>1. PICK E : E = U \cup {p}
        OBVIOUS
      <4>2. E \in SUBSET Numbers /\ p \in E /\ p <= p
        BY <4>1, <1>n
      <4>3. Ahead(E, R, P, p)[f] = r.after
        BY <3>1, <2>2, <4>1, <4>2, AheadTouched
      <4> QED BY <4>1, <4>3
    <3> QED BY <2>2, <3>2 DEF Takes
  <2> QED BY <2>1, <2>2
<1>2. ASSUME NEW n \in U, NEW f \in Files PROVE Ahead(U \cup {p}, R, P, n)[f] = Ahead(U, R, Q, n)[f]
  <2>0. PICK E : E = U \cup {p} /\ E \in SUBSET Numbers /\ n \in Numbers /\ p < n
    BY <1>n
  <2>1. CASE \A m \in U : m <= n => \A r \in R[m] : r.path # f
    <3>1. Ahead(U, R, Q, n)[f] = Q[f]
      BY <2>1, <1>n, AheadUntouched
    <3>2. CASE \A r \in R[p] : r.path # f
      <4>1. \A m \in E : m <= n => \A r \in R[m] : r.path # f
        BY <2>0, <2>1, <3>2
      <4>2. Ahead(E, R, P, n)[f] = P[f]
        BY <2>0, <4>1, AheadUntouched
      <4> QED BY <2>0, <3>1, <3>2, <4>2 DEF Takes
    <3>3. ASSUME NEW r \in R[p], r.path = f PROVE Ahead(E, R, P, n)[f] = Q[f]
      <4>1. \A k \in E : p < k /\ k <= n => \A s \in R[k] : s.path # f
        BY <2>0, <2>1, <1>n
      <4>2. p \in E /\ p <= n
        BY <2>0, <1>n
      <4>3. Ahead(E, R, P, n)[f] = r.after
        BY <2>0, <3>3, <4>1, <4>2, AheadTouched
      <4> QED BY <4>3, <3>3 DEF Takes
    <3> QED BY <2>0, <3>1, <3>2, <3>3
  <2>2. ASSUME NEW m \in U, NEW r \in R[m], m <= n, r.path = f,
               \A k \in U : m < k /\ k <= n => \A s \in R[k] : s.path # f
        PROVE  Ahead(E, R, P, n)[f] = Ahead(U, R, Q, n)[f]
    <3>1. Ahead(U, R, Q, n)[f] = r.after
      BY <2>2, <2>0, AheadTouched
    <3>2. \A k \in E : m < k /\ k <= n => \A s \in R[k] : s.path # f
      <4>1. ~(m < p)
        BY <1>n
      <4> QED BY <2>0, <2>2, <4>1
    <3>3. m \in E
      BY <2>0
    <3>4. Ahead(E, R, P, n)[f] = r.after
      BY <2>2, <2>0, <3>2, <3>3, AheadTouched
    <3> QED BY <3>1, <3>4
  <2>3. TouchedUpTo(U, R, n, f)
    BY <2>0, LastTouch
  <2> QED BY <2>0, <2>1, <2>2, <2>3 DEF TouchedUpTo
<1>3. ASSUME LinkedAhead(U, R, Q) PROVE LinkedAhead(U \cup {p}, R, P)
  <2> SUFFICES ASSUME NEW n \in U \cup {p}, NEW r \in R[n]
               PROVE  /\ (\A m \in U \cup {p} : m < n => \A s \in R[m] : s.path # r.path)
                            => r.before = P[r.path]
                      /\ \A m \in U \cup {p} : \A s \in R[m] :
                            m < n /\ s.path = r.path
                                /\ (\A k \in U \cup {p} : m < k /\ k < n => \A q \in R[k] : q.path # r.path)
                              => r.before = s.after
    BY DEF LinkedAhead
  <2>1. r.path \in Files
    BY <1>n DEF InFiles
  <2>2. CASE n = p
    BY <2>2, <1>n DEF Takes
  <2>3. CASE n \in U
    <3>1. ASSUME \A m \in U \cup {p} : m < n => \A s \in R[m] : s.path # r.path
          PROVE  r.before = P[r.path]
      <4>1. r.before = Q[r.path]
        BY <1>3, <2>3, <3>1 DEF LinkedAhead
      <4>2. \A s \in R[p] : s.path # r.path
        BY <2>3, <3>1
      <4> QED BY <2>1, <4>1, <4>2 DEF Takes
    <3>2. ASSUME NEW m \in U \cup {p}, NEW s \in R[m], m < n, s.path = r.path,
                 \A k \in U \cup {p} : m < k /\ k < n => \A q \in R[k] : q.path # r.path
          PROVE  r.before = s.after
      <4>1. CASE m \in U
        BY <1>3, <2>3, <3>2, <4>1 DEF LinkedAhead
      <4>2. CASE m = p
        <5>1. \A k \in U : k < n => \A q \in R[k] : q.path # r.path
          BY <3>2, <4>2
        <5>2. r.before = Q[r.path]
          BY <1>3, <2>3, <5>1 DEF LinkedAhead
        <5> QED BY <3>2, <4>2, <5>2 DEF Takes
      <4> QED BY <4>1, <4>2
    <3> QED BY <3>1, <3>2
  <2> QED BY <2>2, <2>3
<1>4. ASSUME LinkedAhead(U \cup {p}, R, P) PROVE LinkedAhead(U, R, Q)
  <2> SUFFICES ASSUME NEW n \in U, NEW r \in R[n]
               PROVE  /\ (\A m \in U : m < n => \A s \in R[m] : s.path # r.path)
                            => r.before = Q[r.path]
                      /\ \A m \in U : \A s \in R[m] :
                            m < n /\ s.path = r.path
                                /\ (\A k \in U : m < k /\ k < n => \A q \in R[k] : q.path # r.path)
                              => r.before = s.after
    BY DEF LinkedAhead
  <2>1. r.path \in Files /\ p < n
    BY DEF InFiles
  <2>2. ASSUME \A m \in U : m < n => \A s \in R[m] : s.path # r.path
        PROVE  r.before = Q[r.path]
    <3>1. ASSUME NEW s \in R[p], s.path = r.path PROVE r.before = Q[r.path]
      <4>1. \A k \in U \cup {p} : p < k /\ k < n => \A q \in R[k] : q.path # r.path
        BY <2>2, <1>n
      <4>2. r.before = s.after
        BY <1>4, <2>1, <3>1, <4>1 DEF LinkedAhead
      <4> QED BY <3>1, <4>2 DEF Takes
    <3>2. CASE \A s \in R[p] : s.path # r.path
      <4>1. r.before = P[r.path]
        BY <1>4, <2>2, <3>2 DEF LinkedAhead
      <4> QED BY <2>1, <3>2, <4>1 DEF Takes
    <3> QED BY <3>1, <3>2
  <2>3. ASSUME NEW m \in U, NEW s \in R[m], m < n, s.path = r.path,
               \A k \in U : m < k /\ k < n => \A q \in R[k] : q.path # r.path
        PROVE  r.before = s.after
    <3>1. ~(m < p)
      BY <1>n
    <3>2. \A k \in U \cup {p} : m < k /\ k < n => \A q \in R[k] : q.path # r.path
      BY <2>3, <3>1
    <3> QED BY <1>4, <2>3, <3>2 DEF LinkedAhead
  <2> QED BY <2>2, <2>3
<1>5. Ahead(U \cup {p}, R, P, p) = Q
  BY <1>1, <1>d, ImagesAre
<1>6. \A n \in U : Ahead(U \cup {p}, R, P, n) = Ahead(U, R, Q, n)
  <2> TAKE n \in U
  <2>1. \A f \in Files : Ahead(U \cup {p}, R, P, n)[f] = Ahead(U, R, Q, n)[f]
    BY <1>2
  <2>2. PICK g, h : /\ g = Ahead(U \cup {p}, R, P, n) /\ h = Ahead(U, R, Q, n)
                    /\ g = [f \in Files |-> g[f]] /\ h = [f \in Files |-> h[f]]
    BY ImagesAre
  <2> QED BY <2>1, <2>2
<1> QED BY <1>3, <1>4, <1>5, <1>6

-----------------------------------------------------------------------------
(* The numbers of a set in ascending order.                                *)

UpTo(S, n) == {m \in S : m <= n}

LEMMA SetsAre ==
  ASSUME NEW S \in SUBSET Numbers
  PROVE  /\ IsFiniteSet(S) /\ Cardinality(S) \in Nat
         /\ \A n : IsFiniteSet(UpTo(S, n)) /\ Cardinality(UpTo(S, n)) \in Nat
         /\ \A n : Cardinality(UpTo(S, n)) <= Cardinality(S)
<1>1. IsFiniteSet(S) /\ Cardinality(S) \in Nat
  BY NumbersFinite
<1>2. \A n : UpTo(S, n) \in SUBSET Numbers /\ UpTo(S, n) \in SUBSET S
  BY DEF UpTo
<1>3. \A n : IsFiniteSet(UpTo(S, n)) /\ Cardinality(UpTo(S, n)) \in Nat
  BY <1>2, NumbersFinite
<1>4. \A n : Cardinality(UpTo(S, n)) <= Cardinality(S)
  BY <1>1, <1>2, FS_Subset
<1> QED BY <1>1, <1>3, <1>4

\* The ranks of the numbers are those from 1 to their count.
LEMMA NthExists ==
  ASSUME NEW S \in SUBSET Numbers, NEW i \in 1..Cardinality(S)
  PROVE  Nth(S, i) \in S /\ Cardinality(UpTo(S, Nth(S, i))) = i
<1> DEFINE rank == [n \in S |-> Cardinality(UpTo(S, n))]
<1>n. (\A x \in S : x \in Nat) /\ IsFiniteSet(S) /\ Cardinality(S) \in Nat
  BY SetsAre, NumbersAreNat
<1>1. rank \in [S -> 1..Cardinality(S)]
  <2> SUFFICES ASSUME NEW n \in S PROVE Cardinality(UpTo(S, n)) \in 1..Cardinality(S)
    OBVIOUS
  <2>1. n \in UpTo(S, n)
    BY <1>n DEF UpTo
  <2>2. Cardinality(UpTo(S, n)) # 0
    BY <2>1, SetsAre, FS_EmptySet
  <2> QED BY <2>2, <1>n, SetsAre
<1>2. ASSUME NEW m \in S, NEW n \in S, m < n PROVE rank[m] < rank[n]
  <2>1. UpTo(S, m) \in SUBSET UpTo(S, n) /\ n \in UpTo(S, n) /\ n \notin UpTo(S, m)
    BY <1>2, <1>n DEF UpTo
  <2>2. PICK A, B : A = UpTo(S, m) /\ B = UpTo(S, n)
    OBVIOUS
  <2>3. IsFiniteSet(A) /\ IsFiniteSet(B) /\ Cardinality(A) \in Nat /\ Cardinality(B) \in Nat
    BY <2>2, SetsAre
  <2>4. A \in SUBSET (B \ {n}) /\ n \in B
    BY <2>1, <2>2
  <2>5. IsFiniteSet(B \ {n}) /\ Cardinality(B \ {n}) = Cardinality(B) - 1
    BY <2>3, <2>4, FS_RemoveElement
  <2>6. Cardinality(A) <= Cardinality(B \ {n})
    BY <2>4, <2>5, FS_Subset
  <2>7. Cardinality(A) < Cardinality(B)
    BY <2>3, <2>5, <2>6
  <2> QED BY <2>2, <2>7
<1>3. \A m, n \in S : rank[m] = rank[n] => m = n
  <2> SUFFICES ASSUME NEW m \in S, NEW n \in S, rank[m] = rank[n], m # n PROVE FALSE
    OBVIOUS
  <2>1. m < n \/ n < m
    BY <1>n
  <2>2. rank[m] < rank[n] \/ rank[n] < rank[m]
    BY <1>2, <2>1
  <2>3. rank[m] \in Nat
    BY <1>1, <1>n
  <2> HIDE DEF rank
  <2> QED BY <2>2, <2>3
<1> HIDE DEF rank
<1>4. \E n \in S : rank[n] = i
  <2> SUFFICES ASSUME \A n \in S : rank[n] # i PROVE FALSE
    OBVIOUS
  <2> DEFINE K == (1..Cardinality(S)) \ {i}
  <2>1. rank \in Injection(S, K)
    <3>1. \A n \in S : rank[n] \in K
      BY <1>1
    <3>2. rank \in [S -> K]
      BY <1>1, <3>1
    <3> HIDE DEF K
    <3> QED BY <1>3, <3>2 DEF Injection, IsInjective
  <2>2. IsFiniteSet(1..Cardinality(S)) /\ Cardinality(1..Cardinality(S)) = Cardinality(S)
    BY <1>n, FS_Interval
  <2>3. IsFiniteSet(K) /\ Cardinality(K) = Cardinality(S) - 1
    BY <2>2, FS_RemoveElement
  <2> HIDE DEF K
  <2>4. Cardinality(S) <= Cardinality(K)
    BY <2>1, <2>3, <1>n, FS_Injection
  <2> QED BY <2>3, <2>4, <1>n
<1>5. \E n \in S : Cardinality({m \in S : m <= n}) = i
  BY <1>4 DEF rank, UpTo
<1> QED BY <1>5 DEF Nth, UpTo

LEMMA NthIs ==
  ASSUME NEW S \in SUBSET Numbers, NEW n \in S, NEW i \in 1..Cardinality(S),
         Cardinality(UpTo(S, n)) = i
  PROVE  Nth(S, i) = n
<1>1. PICK k : k = Nth(S, i)
  OBVIOUS
<1>2. k \in S /\ Cardinality(UpTo(S, k)) = i
  BY <1>1, NthExists
<1>3. ASSUME NEW a \in S, NEW b \in S, a < b PROVE Cardinality(UpTo(S, a)) # Cardinality(UpTo(S, b))
  <2>1. PICK A, B : A = UpTo(S, a) /\ B = UpTo(S, b)
    OBVIOUS
  <2>n. \A x \in S : x \in Nat
    BY NumbersAreNat
  <2>2. A \in SUBSET B /\ b \in B /\ b \notin A
    BY <2>1, <2>n, <1>3 DEF UpTo
  <2>3. IsFiniteSet(A) /\ IsFiniteSet(B) /\ Cardinality(A) \in Nat /\ Cardinality(B) \in Nat
    BY <2>1, SetsAre
  <2>4. A \in SUBSET (B \ {b})
    BY <2>2
  <2>5. IsFiniteSet(B \ {b}) /\ Cardinality(B \ {b}) = Cardinality(B) - 1
    BY <2>2, <2>3, FS_RemoveElement
  <2>6. Cardinality(A) <= Cardinality(B \ {b})
    BY <2>4, <2>5, FS_Subset
  <2> QED BY <2>1, <2>3, <2>5, <2>6
<1>4. n \in Nat /\ k \in Nat
  BY <1>2, NumbersAreNat
<1> QED BY <1>1, <1>2, <1>3, <1>4

LEMMA NthOfMore ==
  ASSUME NEW S \in SUBSET Numbers, NEW p \in Numbers, \A m \in S : m < p
  PROVE  /\ Cardinality(S \cup {p}) = Cardinality(S) + 1
         /\ Nth(S \cup {p}, Cardinality(S) + 1) = p
         /\ \A i \in 1..Cardinality(S) : Nth(S \cup {p}, i) = Nth(S, i)
<1>n. /\ (\A x \in S : x \in Nat) /\ p \in Nat /\ IsFiniteSet(S) /\ Cardinality(S) \in Nat /\ p \notin S
  BY SetsAre, NumbersAreNat
<1>1. Cardinality(S \cup {p}) = Cardinality(S) + 1
  BY <1>n, FS_AddElement
<1>2. PICK E : E = S \cup {p} /\ E \in SUBSET Numbers /\ p \in E /\ S \subseteq E
  OBVIOUS
<1>c. Cardinality(E) = Cardinality(S) + 1
  BY <1>1, <1>2
<1>3. UpTo(E, p) = E
  <2>1. \A m \in E : m <= p
    BY <1>n, <1>2
  <2> QED BY <2>1 DEF UpTo
<1>4. Nth(E, Cardinality(S) + 1) = p
  <2>1. Cardinality(S) + 1 \in 1..Cardinality(E) /\ Cardinality(UpTo(E, p)) = Cardinality(S) + 1
    BY <1>n, <1>c, <1>3
  <2> QED BY <1>2, <2>1, NthIs
<1>5. ASSUME NEW i \in 1..Cardinality(S) PROVE Nth(E, i) = Nth(S, i)
  <2>1. PICK n : n = Nth(S, i)
    OBVIOUS
  <2>2. n \in S /\ Cardinality(UpTo(S, n)) = i
    BY <2>1, NthExists
  <2>3. UpTo(E, n) = UpTo(S, n)
    BY <2>2, <1>n, <1>2 DEF UpTo
  <2>4. i \in 1..Cardinality(E) /\ n \in E
    BY <1>n, <1>1, <1>2, <2>2
  <2>5. Nth(E, i) = n
    BY <1>2, <2>2, <2>3, <2>4, NthIs
  <2> QED BY <2>1, <2>5
<1> QED BY <1>1, <1>2, <1>4, <1>5

LEMMA NthOfLess ==
  ASSUME NEW S \in SUBSET Numbers, NEW p \in Numbers, \A m \in S : p < m
  PROVE  /\ Cardinality(S \cup {p}) = Cardinality(S) + 1
         /\ Nth(S \cup {p}, 1) = p
         /\ \A i \in 1..Cardinality(S) : Nth(S \cup {p}, i + 1) = Nth(S, i)
<1>n. /\ (\A x \in S : x \in Nat) /\ p \in Nat /\ IsFiniteSet(S) /\ Cardinality(S) \in Nat /\ p \notin S
  BY SetsAre, NumbersAreNat
<1>1. Cardinality(S \cup {p}) = Cardinality(S) + 1
  BY <1>n, FS_AddElement
<1>2. PICK E : E = S \cup {p} /\ E \in SUBSET Numbers /\ p \in E /\ S \subseteq E
  OBVIOUS
<1>c. Cardinality(E) = Cardinality(S) + 1
  BY <1>1, <1>2
<1>3. UpTo(E, p) = {p}
  <2>1. \A m \in E : m <= p <=> m = p
    BY <1>n, <1>2
  <2> QED BY <1>2, <2>1 DEF UpTo
<1>4. Nth(E, 1) = p
  <2>1. 1 \in 1..Cardinality(E) /\ Cardinality(UpTo(E, p)) = 1
    BY <1>n, <1>c, <1>3, FS_Singleton
  <2> QED BY <1>2, <2>1, NthIs
<1>5. ASSUME NEW i \in 1..Cardinality(S) PROVE Nth(E, i + 1) = Nth(S, i)
  <2>1. PICK n : n = Nth(S, i)
    OBVIOUS
  <2>2. n \in S /\ Cardinality(UpTo(S, n)) = i
    BY <2>1, NthExists
  <2>3. UpTo(E, n) = UpTo(S, n) \cup {p} /\ p \notin UpTo(S, n)
    BY <2>2, <1>n, <1>2 DEF UpTo
  <2>4. i + 1 \in 1..Cardinality(E) /\ n \in E
    BY <1>n, <1>1, <1>2, <2>2
  <2>5. Cardinality(UpTo(E, n)) = i + 1
    <3>1. IsFiniteSet(UpTo(S, n)) /\ Cardinality(UpTo(S, n)) = i
      BY <2>2, SetsAre
    <3> QED BY <2>3, <3>1, FS_AddElement
  <2>6. Nth(E, i + 1) = n
    BY <1>2, <2>4, <2>5, NthIs
  <2> QED BY <2>1, <2>6
<1> QED BY <1>1, <1>2, <1>4, <1>5

-----------------------------------------------------------------------------
(* The past and the future as sequences.                                   *)

PastOf(D, R, P) == [i \in 1..Cardinality(D) |-> Back(D, R, P, Nth(D, i))]
FutureOf(U, R, P) == [i \in 1..Cardinality(U) |-> Ahead(U, R, P, Nth(U, i))]

LEMMA ImagesAreOf ==
  /\ PastImages = PastOf(Done, Changes, PresentImage)
  /\ FutureImages = FutureOf(Undone, Changes, PresentImage)
BY DEF PastImages, FutureImages, PastOf, FutureOf

LEMMA ImagesAreOfNext ==
  /\ PastImages' = PastOf(Done', Changes', PresentImage')
  /\ FutureImages' = FutureOf(Undone', Changes', PresentImage')
BY DEF PastImages, FutureImages, PastOf, FutureOf, Back, Ahead, Touching, Of, Nth

LEMMA PastOfIs ==
  ASSUME NEW D, NEW R, NEW P, NEW n, Cardinality(D) = n
  PROVE  /\ Indexed(PastOf(D, R, P), n)
         /\ \A i \in 1..n : PastOf(D, R, P)[i] = Back(D, R, P, Nth(D, i))
<1>1. PastOf(D, R, P) = [i \in 1..n |-> Back(D, R, P, Nth(D, i))]
  BY DEF PastOf
<1> QED BY <1>1 DEF Indexed

LEMMA FutureOfIs ==
  ASSUME NEW U, NEW R, NEW P, NEW n, Cardinality(U) = n
  PROVE  /\ Indexed(FutureOf(U, R, P), n)
         /\ \A i \in 1..n : FutureOf(U, R, P)[i] = Ahead(U, R, P, Nth(U, i))
<1>1. FutureOf(U, R, P) = [i \in 1..n |-> Ahead(U, R, P, Nth(U, i))]
  BY DEF FutureOf
<1> QED BY <1>1 DEF Indexed

LEMMA Recent ==
  ASSUME NEW D \in SUBSET Numbers, NEW p \in Numbers, \A m \in D : m < p,
         NEW R, Once(R), InFiles(R), NEW P \in Image, NEW Q \in Image, Takes(R, p, P, Q)
  PROVE  OneLater(PastOf(D \cup {p}, R, Q), PastOf(D, R, P), P)
<1>1. PICK n : n = Cardinality(D) /\ n \in Nat
  BY SetsAre
<1>2. PICK E : E = D \cup {p}
  OBVIOUS
<1>3. /\ Cardinality(E) = n + 1 /\ Nth(E, n + 1) = p
      /\ \A i \in 1..n : Nth(E, i) = Nth(D, i) /\ Nth(D, i) \in D
  BY <1>1, <1>2, NthOfMore, NthExists
<1>4. Back(E, R, Q, p) = P /\ \A m \in D : Back(E, R, Q, m) = Back(D, R, P, m)
  BY <1>2, PushBack
<1>5. PICK s : s = PastOf(D, R, P) /\ Indexed(s, n)
               /\ \A i \in 1..n : s[i] = Back(D, R, P, Nth(D, i))
  BY <1>1, PastOfIs
<1>6. PICK t : t = PastOf(E, R, Q) /\ Indexed(t, n + 1)
               /\ \A i \in 1..(n + 1) : t[i] = Back(E, R, Q, Nth(E, i))
  BY <1>3, PastOfIs
<1>7. \A i \in 1..n : t[i] = s[i]
  <2> SUFFICES ASSUME NEW i \in 1..n PROVE t[i] = s[i]
    OBVIOUS
  <2>1. i \in 1..(n + 1)
    BY <1>1
  <2> QED BY <2>1, <1>3, <1>4, <1>5, <1>6
<1>8. t[n + 1] = P
  <2>1. n + 1 \in 1..(n + 1)
    BY <1>1
  <2> QED BY <2>1, <1>3, <1>4, <1>6
<1>9. OneLater(t, s, P)
  BY <1>1, <1>5, <1>6, <1>7, <1>8, AppendOne
<1> QED BY <1>2, <1>5, <1>6, <1>9

LEMMA Coming ==
  ASSUME NEW U \in SUBSET Numbers, NEW p \in Numbers, \A m \in U : p < m,
         NEW R, Once(R), InFiles(R), NEW Q \in Image, NEW P \in Image, Takes(R, p, P, Q)
  PROVE  OneSooner(FutureOf(U \cup {p}, R, P), FutureOf(U, R, Q), Q)
<1>1. PICK n : n = Cardinality(U) /\ n \in Nat
  BY SetsAre
<1>2. PICK E : E = U \cup {p}
  OBVIOUS
<1>3. /\ Cardinality(E) = n + 1 /\ Nth(E, 1) = p
      /\ \A i \in 1..n : Nth(E, i + 1) = Nth(U, i) /\ Nth(U, i) \in U
  BY <1>1, <1>2, NthOfLess, NthExists
<1>4. Ahead(E, R, P, p) = Q /\ \A m \in U : Ahead(E, R, P, m) = Ahead(U, R, Q, m)
  BY <1>2, PushAhead
<1>5. PICK s : s = FutureOf(U, R, Q) /\ Indexed(s, n)
               /\ \A i \in 1..n : s[i] = Ahead(U, R, Q, Nth(U, i))
  BY <1>1, FutureOfIs
<1>6. PICK t : t = FutureOf(E, R, P) /\ Indexed(t, n + 1)
               /\ \A i \in 1..(n + 1) : t[i] = Ahead(E, R, P, Nth(E, i))
  BY <1>3, FutureOfIs
<1>7. Shifted(s, t, n)
  <2> SUFFICES ASSUME NEW i \in 1..n PROVE t[i + 1] = s[i]
    BY DEF Shifted
  <2>1. i + 1 \in 1..(n + 1)
    BY <1>1
  <2>2. t[i + 1] = Ahead(E, R, P, Nth(E, i + 1))
    BY <2>1, <1>6
  <2> QED BY <2>2, <1>3, <1>4, <1>5
<1>8. t[1] = Q
  <2>1. 1 \in 1..(n + 1)
    BY <1>1
  <2> QED BY <2>1, <1>3, <1>4, <1>6
<1>9. OneSooner(t, s, Q)
  BY <1>1, <1>5, <1>6, <1>7, <1>8, PrependOne
<1> QED BY <1>2, <1>5, <1>6, <1>9

\* What the other transactions record does not matter.
LEMMA SameImages ==
  ASSUME NEW D \in SUBSET Numbers, NEW R, NEW S, \A n \in D : S[n] = R[n], NEW P
  PROVE  /\ PastOf(D, S, P) = PastOf(D, R, P) /\ FutureOf(D, S, P) = FutureOf(D, R, P)
         /\ Linked(D, S, P) <=> Linked(D, R, P)
         /\ LinkedAhead(D, S, P) <=> LinkedAhead(D, R, P)
<1>1. \A f : Touching(D, S, f) = Touching(D, R, f)
  BY DEF Touching
<1>2. ASSUME NEW n, NEW f PROVE LET T == {m \in Touching(D, R, f) : n <= m}
                                IN  T # {} => Of(S[Min(T)], f) = Of(R[Min(T)], f)
  <2>1. PICK T : T = {m \in Touching(D, R, f) : n <= m}
    OBVIOUS
  <2>2. T # {} => Min(T) \in D
    <3>1. T \in SUBSET Nat /\ T \in SUBSET D
      BY <2>1, NumbersAreNat DEF Touching
    <3> QED BY <3>1, MinIs, MinExists
  <2> QED BY <2>1, <2>2
<1>3. ASSUME NEW n, NEW f PROVE LET T == {m \in Touching(D, R, f) : m <= n}
                                IN  T # {} => Of(S[Max(T)], f) = Of(R[Max(T)], f)
  <2>1. PICK T : T = {m \in Touching(D, R, f) : m <= n}
    OBVIOUS
  <2>2. T # {} => Max(T) \in D
    <3>1. T \in SUBSET (0..MaxN) /\ T \in SUBSET D
      BY <2>1, NumbersAreNat DEF Touching
    <3> QED BY <3>1, NumbersAreNat, MaxIs
  <2> QED BY <2>1, <2>2
<1>4. \A n : Back(D, S, P, n) = Back(D, R, P, n)
  BY <1>1, <1>2 DEF Back
<1>5. \A n : Ahead(D, S, P, n) = Ahead(D, R, P, n)
  BY <1>1, <1>3 DEF Ahead
<1>6. Linked(D, S, P) <=> Linked(D, R, P)
  BY DEF Linked
<1>7. LinkedAhead(D, S, P) <=> LinkedAhead(D, R, P)
  BY DEF LinkedAhead
<1> QED BY <1>4, <1>5, <1>6, <1>7 DEF PastOf, FutureOf

\* The image that a set of records makes of another.
LEMMA PutIs ==
  ASSUME NEW img \in Image, NEW recs \in SUBSET Rec, \A r, s \in recs : r.path = s.path => r = s,
         NEW side \in {"before", "after"}
  PROVE  /\ Put(img, recs, side) \in Image
         /\ \A r \in recs : Put(img, recs, side)[r.path] = r[side]
         /\ \A f \in Files : (\A r \in recs : r.path # f) => Put(img, recs, side)[f] = img[f]
<1>1. \A r \in recs : r.path \in Files /\ r[side] \in Contents \cup {Absent} /\ Of(recs, r.path) = r
  BY DEF Of, Rec
<1>2. \A f \in Files : Put(img, recs, side)[f] = IF \E r \in recs : r.path = f THEN Of(recs, f)[side] ELSE img[f]
  BY DEF Put
<1>3. \A r \in recs : Put(img, recs, side)[r.path] = r[side]
  BY <1>1, <1>2
<1>4. \A f \in Files : (\A r \in recs : r.path # f) => Put(img, recs, side)[f] = img[f]
  BY <1>2
<1>5. \A f \in Files : Put(img, recs, side)[f] \in Contents \cup {Absent}
  BY <1>1, <1>3, <1>4 DEF Image
<1>6. Put(img, recs, side) = [f \in Files |-> Put(img, recs, side)[f]]
  BY DEF Put
<1> QED BY <1>3, <1>4, <1>5, <1>6 DEF Image

\* Images that agree on the files of some records and on the others are the same.
LEMMA SamePut ==
  ASSUME NEW img \in Image, NEW recs \in SUBSET Rec, \A r, s \in recs : r.path = s.path => r = s,
         NEW side \in {"before", "after"}, NEW p \in Image,
         \A r \in recs : p[r.path] = r[side],
         \A f \in Files : (\A r \in recs : r.path # f) => p[f] = img[f]
  PROVE  Put(img, recs, side) = p
<1>1. PICK q : q = Put(img, recs, side)
  OBVIOUS
<1>2. /\ q \in Image /\ \A r \in recs : q[r.path] = r[side]
      /\ \A f \in Files : (\A r \in recs : r.path # f) => q[f] = img[f]
  BY <1>1, PutIs
<1>3. \A f \in Files : q[f] = p[f]
  BY <1>2
<1> QED BY <1>1, <1>2, <1>3 DEF Image

-----------------------------------------------------------------------------
(* One call at a time, no troubles, no prune.                              *)

Sequential == (\A c, d \in Calls : c = d) /\ MaxTroubles = 0 /\ MaxN <= MaxTxns

\* The records that the call in progress has made or works on, and on which side of them
\* the project is until it commits or has marked them.
Ours(c) == IF open[c] # 0 /\ pc[c] # "Commit" THEN {open[c]} ELSE {}
Mask(c) ==
    IF pc[c] = "Restore" THEN Range(Recs(job[c].n))
    ELSE UNION {Range(Recs(n)) : n \in Ours(c)}
MaskSide(c) == IF pc[c] = "Restore" /\ job[c].op = "undo" THEN "after" ELSE "before"

Shows(img, c) ==
    /\ img \in Image
    /\ \A r \in Mask(c) : img[r.path] = r[MaskSide(c)]
    /\ \A f \in Files : (\A r \in Mask(c) : r.path # f) => img[f] = disk[f]

\* A call at work: its transaction is the newest, and what that records is written or about to be.
OwnFits(c) ==
    open[c] # 0 =>
        /\ Newest(open[c]) /\ ~store[open[c]].torn
        /\ \A r \in Range(Recs(open[c])) :
            \/ r.path \in wrote[c] /\ disk[r.path] = r.after
            \/ pc[c] \in {"Write", "Abort"} /\ r.path \notin wrote[c] /\ disk[r.path] = r.before

NextFits(c) ==
    /\ pc[c] \in {"Record", "Manifest", "Write"} =>
        cur[c].before = disk[cur[c].path] /\ cur[c].path \notin wrote[c]
    /\ pc[c] = "Write" =>
        /\ open[c] # 0 /\ Record(c) \in Range(Recs(open[c]))
        /\ \A r \in Range(Recs(open[c])) : r.path \in wrote[c] \/ r = Record(c)

PlaceFits(c) ==
    /\ phase[c] = "tool"
    /\ pc[c] \in {"Idle", "Manifest", "Top", "Restore"} => open[c] = 0
    /\ pc[c] = "Abort" => wrote[c] = {}
    /\ pc[c] \in {"Work", "Unlocked", "Commit"} /\ open[c] # 0 => Recs(open[c]) # <<>>
    /\ pc[c] = "Manifest" => cur[c].n # 0 /\ Newest(cur[c].n) /\ store[cur[c].n].torn

ToolFits(c) == OwnFits(c) /\ NextFits(c) /\ PlaceFits(c)

\* An undo works on the last of the past, a redo on the first of the future.
JobFits(u) ==
    pc[u] = "Restore" =>
        /\ IF job[u].op = "undo"
           THEN job[u].n \in Done /\ \A m \in Done : m <= job[u].n
           ELSE job[u].n \in Undone /\ \A m \in Undone : job[u].n <= m
        /\ Range(job[u].recs) \subseteq Range(Recs(job[u].n))
        /\ \A r \in Range(Recs(job[u].n)) :
            r \in Range(job[u].recs) \/ disk[r.path] = r[Side(job[u].op)]

Images ==
    /\ Once(Changes) /\ \A n \in Done, m \in Undone : n < m
    /\ Linked(Done, Changes, PresentImage) /\ LinkedAhead(Undone, Changes, PresentImage)

HistInv == Images /\ \A c \in Calls : ToolFits(c) /\ JobFits(c)

\* A step that no user sees.
Kept ==
    /\ Done' = Done /\ Undone' = Undone /\ PresentImage' = PresentImage
    /\ \A n \in Done \cup Undone : Changes'[n] = Changes[n]

LEMMA ViewIs ==
  ASSUME Sequential, NEW c \in Calls
  PROVE  /\ Uncommitted = Ours(c)
         /\ Clearing <=> pc[c] = "Commit" /\ ClearsRedo(c)
         /\ PresentImage = Put(disk, Mask(c), MaskSide(c))
<1>1. Calls = {c}
  BY DEF Sequential
<1>2. Uncommitted = Ours(c)
  BY <1>1 DEF Uncommitted, Ours
<1>3. (\E d \in Calls : pc[d] = "Restore") => (CHOOSE d \in Calls : pc[d] = "Restore") = c
  BY <1>1
<1>4. PresentImage = Put(disk, Mask(c), MaskSide(c))
  BY <1>1, <1>2, <1>3 DEF PresentImage, Mask, MaskSide
<1> QED BY <1>1, <1>2, <1>4 DEF Clearing

LEMMA ViewIsNext ==
  ASSUME Sequential, NEW c \in Calls
  PROVE  /\ Uncommitted' = Ours(c)'
         /\ Clearing' <=> (pc[c] = "Commit" /\ ClearsRedo(c))'
         /\ PresentImage' = Put(disk', Mask(c)', MaskSide(c)')
<1>1. Calls = {c}
  BY DEF Sequential
<1>2. Uncommitted' = Ours(c)'
  BY <1>1 DEF Uncommitted, Ours
<1>3. (\E d \in Calls : pc'[d] = "Restore") => (CHOOSE d \in Calls : pc'[d] = "Restore") = c
  BY <1>1
<1>4. PresentImage' = Put(disk', Mask(c)', MaskSide(c)')
  BY <1>1, <1>2, <1>3 DEF PresentImage, Mask, MaskSide, Put, Of
<1> QED BY <1>1, <1>2, <1>4 DEF Clearing

LEMMA RecordsAre ==
  TypeOK => \A n \in Numbers : Recs(n) \in Seq(Rec) /\ Range(Recs(n)) \in SUBSET Rec
                                /\ Changes[n] = Range(Recs(n))
BY DEF TypeOK, Recs, Range, Changes

LEMMA RecordsAreNext ==
  TypeOK' => \A n \in Numbers : Recs(n)' \in Seq(Rec) /\ Range(Recs(n))' \in SUBSET Rec
                                /\ Changes'[n] = Range(Recs(n))'
BY DEF TypeOK, Recs, Range, Changes

LEMMA MaskIs ==
  ASSUME TypeOK, Once(Changes), NEW c \in Calls
  PROVE  /\ Mask(c) \in SUBSET Rec /\ MaskSide(c) \in {"before", "after"}
         /\ \A r, s \in Mask(c) : r.path = s.path => r = s
         /\ open[c] # 0 => open[c] \in Numbers
         /\ pc[c] = "Restore" => job[c].n \in Numbers
<1>1. (open[c] # 0 => open[c] \in Numbers) /\ (pc[c] = "Restore" => job[c].n \in Numbers)
  BY UndoAssumption DEF TypeOK, Numbers
<1>2. \A n \in Numbers : Range(Recs(n)) \in SUBSET Rec
                         /\ \A r, s \in Range(Recs(n)) : r.path = s.path => r = s
  BY RecordsAre DEF Once
<1>3. Mask(c) = {} \/ \E n \in Numbers : Mask(c) = Range(Recs(n))
  BY <1>1 DEF Mask, Ours
<1>4. MaskSide(c) \in {"before", "after"}
  BY DEF MaskSide
<1> QED BY <1>1, <1>2, <1>3, <1>4

LEMMA MaskIsNext ==
  ASSUME TypeOK', Once(Changes)', NEW c \in Calls
  PROVE  /\ Mask(c)' \in SUBSET Rec /\ MaskSide(c)' \in {"before", "after"}
         /\ \A r, s \in Mask(c)' : r.path = s.path => r = s
<1>1. (open'[c] # 0 => open'[c] \in Numbers) /\ (pc'[c] = "Restore" => job'[c].n \in Numbers)
  <2>1. open'[c] \in 0..MaxN /\ job'[c].n \in 0..MaxN /\ (pc'[c] = "Restore" <=> job'[c].n # 0)
    BY DEF TypeOK
  <2> QED BY <2>1, UndoAssumption DEF Numbers
<1>2. \A n \in Numbers : Range(Recs(n))' \in SUBSET Rec
                         /\ \A r, s \in Range(Recs(n))' : r.path = s.path => r = s
  BY RecordsAreNext DEF Once
<1>3. Mask(c)' = {} \/ \E n \in Numbers : Mask(c)' = Range(Recs(n))'
  BY <1>1 DEF Mask, Ours
<1>4. MaskSide(c)' \in {"before", "after"}
  BY DEF MaskSide
<1> QED BY <1>1, <1>2, <1>3, <1>4

\* What the image of the present shows, and that nothing else does.
LEMMA PresentShows ==
  ASSUME Sequential, TypeOK, Once(Changes), NEW c \in Calls
  PROVE  Shows(PresentImage, c)
<1>1. disk \in Image
  BY DEF TypeOK
<1> QED BY <1>1, ViewIs, MaskIs, PutIs DEF Shows

LEMMA PresentNext ==
  ASSUME Sequential, TypeOK', Once(Changes)', NEW c \in Calls, NEW img,
         img \in Image, \A r \in Mask(c)' : img[r.path] = r[MaskSide(c)'],
         \A f \in Files : (\A r \in Mask(c)' : r.path # f) => img[f] = disk'[f]
  PROVE  PresentImage' = img
<1>1. disk' \in Image
  BY DEF TypeOK
<1> QED BY <1>1, ViewIsNext, MaskIsNext, SamePut

LEMMA NoTroubles ==
  ASSUME Sequential, TypeOK
  PROVE  ~Mishap /\ ~Crash /\ ~Edit
<1>1. ~(crashes + mishaps < MaxTroubles)
  BY DEF Sequential, TypeOK
<1> QED BY <1>1 DEF Mishap, Crash, Edit

LEMMA ImagesNext ==
  Images' <=> /\ Once(Changes') /\ \A n \in Done', m \in Undone' : n < m
              /\ Linked(Done', Changes', PresentImage')
              /\ LinkedAhead(Undone', Changes', PresentImage')
BY DEF Images, Linked, LinkedAhead, Once

LEMMA SetsOfNumbers ==
  /\ Done \in SUBSET Numbers /\ Undone \in SUBSET Numbers
  /\ Done' \in SUBSET Numbers /\ Undone' \in SUBSET Numbers
BY DEF Done, Undone, Under

LEMMA ChangesInFiles ==
  ASSUME TypeOK PROVE InFiles(Changes)
BY RecordsAre DEF InFiles, Rec

LEMMA ChangesInFilesNext ==
  ASSUME TypeOK' PROVE InFiles(Changes')
BY RecordsAreNext DEF InFiles, Rec

\* A step that no user sees is none of the history.
LEMMA NothingSeen ==
  ASSUME Images, Kept, Once(Changes)'
  PROVE  Images' /\ UNCHANGED <<PastImages, PresentImage, FutureImages>>
<1>1. PICK D, U, R, S, P : /\ D = Done /\ U = Undone /\ R = Changes /\ S = Changes'
                           /\ P = PresentImage
  OBVIOUS
<1>2. /\ D \in SUBSET Numbers /\ U \in SUBSET Numbers
      /\ Done' = D /\ Undone' = U /\ PresentImage' = P
      /\ (\A n \in D : S[n] = R[n]) /\ (\A n \in U : S[n] = R[n])
  BY <1>1, SetsOfNumbers DEF Kept
<1>3. /\ PastOf(D, S, P) = PastOf(D, R, P) /\ FutureOf(U, S, P) = FutureOf(U, R, P)
      /\ Linked(D, S, P) <=> Linked(D, R, P)
      /\ LinkedAhead(U, S, P) <=> LinkedAhead(U, R, P)
  BY <1>2, SameImages
<1>4. Once(S)
  BY <1>1 DEF Once
<1>5. Images'
  BY <1>1, <1>2, <1>3, <1>4, ImagesNext DEF Images
<1>6. PastImages' = PastImages /\ FutureImages' = FutureImages
  BY <1>1, <1>2, <1>3, ImagesAreOf, ImagesAreOfNext
<1> QED BY <1>1, <1>2, <1>5, <1>6

LEMMA WriteSeen ==
  ASSUME Images, TypeOK', Once(Changes)', PresentImage \in Image, PresentImage' \in Image,
         NEW p \in Numbers, \A m \in Done : m < p, Done' = Done \cup {p}, Undone' = {},
         \A n \in Done : Changes'[n] = Changes[n],
         Takes(Changes', p, PresentImage, PresentImage')
  PROVE  Images' /\ History!Write
<1>1. PICK D, R, S, P, Q : /\ D = Done /\ R = Changes /\ S = Changes'
                           /\ P = PresentImage /\ Q = PresentImage'
  OBVIOUS
<1>2. /\ D \in SUBSET Numbers /\ Done' = D \cup {p} /\ Undone' = {} /\ P \in Image /\ Q \in Image
      /\ (\A n \in D : S[n] = R[n]) /\ Takes(S, p, P, Q) /\ \A m \in D : m < p
  BY <1>1, SetsOfNumbers
<1>3. Once(S) /\ InFiles(S)
  BY <1>1, ChangesInFilesNext DEF Once
<1>4. PastOf(D, S, P) = PastOf(D, R, P) /\ (Linked(D, S, P) <=> Linked(D, R, P))
  BY <1>2, SameImages
<1>5. Linked(D \cup {p}, S, Q) <=> Linked(D, S, P)
  BY <1>2, <1>3, PushBack
<1>6. OneLater(PastOf(D \cup {p}, S, Q), PastOf(D, S, P), P)
  BY <1>2, <1>3, Recent
<1>7. LinkedAhead({}, S, Q)
  BY DEF LinkedAhead
<1>8. Images'
  BY <1>1, <1>2, <1>3, <1>4, <1>5, <1>7, ImagesNext DEF Images
<1>9. FutureOf({}, S, Q) = <<>>
  <2>1. Cardinality({}) = 0 /\ 1..0 = {}
    BY FS_EmptySet
  <2> QED BY <2>1 DEF FutureOf
<1>10. OneLater(PastImages', PastImages, PresentImage) /\ FutureImages' = <<>>
  BY <1>1, <1>2, <1>4, <1>6, <1>9, ImagesAreOf, ImagesAreOfNext
<1> QED BY <1>8, <1>10 DEF History!Write, OneLater

LEMMA UndoSeen ==
  ASSUME Images, TypeOK, TypeOK', Once(Changes)', PresentImage \in Image, PresentImage' \in Image,
         NEW p \in Done, \A m \in Done : m <= p, Done' = Done \ {p}, Undone' = Undone \cup {p},
         \A n \in Numbers : Changes'[n] = Changes[n],
         Takes(Changes, p, PresentImage', PresentImage)
  PROVE  Images' /\ History!Undo
<1>1. PICK D, U, R, S, P, Q : /\ D = Done \ {p} /\ U = Undone /\ R = Changes /\ S = Changes'
                              /\ P = PresentImage' /\ Q = PresentImage
  OBVIOUS
<1>2. /\ D \in SUBSET Numbers /\ U \in SUBSET Numbers /\ p \in Numbers
      /\ Done = D \cup {p} /\ Done' = D /\ Undone' = U \cup {p}
      /\ P \in Image /\ Q \in Image /\ \A n \in Numbers : S[n] = R[n]
  BY <1>1, SetsOfNumbers
<1>3. /\ \A m \in D : m < p
      /\ \A m \in U : p < m
      /\ \A n \in D, m \in U : n < m
  <2>1. /\ \A n \in Numbers : n \in Nat
        /\ \A m \in Done : m <= p
        /\ \A n \in Done, m \in Undone : n < m
    BY NumbersAreNat DEF Images
  <2>2. p \notin D
    BY <1>1
  <2> QED BY <1>1, <1>2, <2>1, <2>2
<1>4. Once(R) /\ Once(S) /\ InFiles(R) /\ Takes(R, p, P, Q)
  BY <1>1, ChangesInFiles DEF Images, Once
<1>5. /\ PastOf(D, S, P) = PastOf(D, R, P) /\ (Linked(D, S, P) <=> Linked(D, R, P))
      /\ FutureOf(U \cup {p}, S, P) = FutureOf(U \cup {p}, R, P)
      /\ LinkedAhead(U \cup {p}, S, P) <=> LinkedAhead(U \cup {p}, R, P)
  <2>1. (\A n \in D : S[n] = R[n]) /\ (\A n \in U \cup {p} : S[n] = R[n]) /\ U \cup {p} \in SUBSET Numbers
    BY <1>2
  <2> QED BY <1>2, <2>1, SameImages
<1>6. Linked(D \cup {p}, R, Q) <=> Linked(D, R, P)
  BY <1>2, <1>3, <1>4, PushBack
<1>7. OneLater(PastOf(D \cup {p}, R, Q), PastOf(D, R, P), P)
  BY <1>2, <1>3, <1>4, Recent
<1>8. LinkedAhead(U \cup {p}, R, P) <=> LinkedAhead(U, R, Q)
  BY <1>2, <1>3, <1>4, PushAhead
<1>9. OneSooner(FutureOf(U \cup {p}, R, P), FutureOf(U, R, Q), Q)
  BY <1>2, <1>3, <1>4, Coming
<1>10. \A n \in D, m \in U \cup {p} : n < m
  BY <1>3
<1>11. Images'
  BY <1>1, <1>2, <1>4, <1>5, <1>6, <1>8, <1>10, ImagesNext DEF Images
<1>12. /\ OneLater(PastImages, PastImages', PresentImage')
       /\ OneSooner(FutureImages', FutureImages, PresentImage)
  BY <1>1, <1>2, <1>5, <1>7, <1>9, ImagesAreOf, ImagesAreOfNext
<1> QED BY <1>11, <1>12 DEF History!Undo, History!Front, History!Last, Front, Last, OneLater, OneSooner

LEMMA RedoSeen ==
  ASSUME Images, TypeOK, TypeOK', Once(Changes)', PresentImage \in Image, PresentImage' \in Image,
         NEW p \in Undone, \A m \in Undone : p <= m, Done' = Done \cup {p}, Undone' = Undone \ {p},
         \A n \in Numbers : Changes'[n] = Changes[n],
         Takes(Changes, p, PresentImage, PresentImage')
  PROVE  Images' /\ History!Redo
<1>1. PICK D, U, R, S, P, Q : /\ D = Done /\ U = Undone \ {p} /\ R = Changes /\ S = Changes'
                              /\ P = PresentImage /\ Q = PresentImage'
  OBVIOUS
<1>2. /\ D \in SUBSET Numbers /\ U \in SUBSET Numbers /\ p \in Numbers
      /\ Undone = U \cup {p} /\ Done' = D \cup {p} /\ Undone' = U
      /\ P \in Image /\ Q \in Image /\ \A n \in Numbers : S[n] = R[n]
  BY <1>1, SetsOfNumbers
<1>3. /\ \A m \in D : m < p
      /\ \A m \in U : p < m
      /\ \A n \in D, m \in U : n < m
  <2>1. /\ \A n \in Numbers : n \in Nat
        /\ \A m \in Undone : p <= m
        /\ \A n \in Done, m \in Undone : n < m
    BY NumbersAreNat DEF Images
  <2>2. p \notin U
    BY <1>1
  <2> QED BY <1>1, <1>2, <2>1, <2>2
<1>4. Once(R) /\ Once(S) /\ InFiles(R) /\ Takes(R, p, P, Q)
  BY <1>1, ChangesInFiles DEF Images, Once
<1>5. /\ PastOf(D \cup {p}, S, Q) = PastOf(D \cup {p}, R, Q)
      /\ Linked(D \cup {p}, S, Q) <=> Linked(D \cup {p}, R, Q)
      /\ FutureOf(U, S, Q) = FutureOf(U, R, Q) /\ (LinkedAhead(U, S, Q) <=> LinkedAhead(U, R, Q))
  <2>1. (\A n \in D \cup {p} : S[n] = R[n]) /\ (\A n \in U : S[n] = R[n]) /\ D \cup {p} \in SUBSET Numbers
    BY <1>2
  <2> QED BY <1>2, <2>1, SameImages
<1>6. Linked(D \cup {p}, R, Q) <=> Linked(D, R, P)
  BY <1>2, <1>3, <1>4, PushBack
<1>7. OneLater(PastOf(D \cup {p}, R, Q), PastOf(D, R, P), P)
  BY <1>2, <1>3, <1>4, Recent
<1>8. LinkedAhead(U \cup {p}, R, P) <=> LinkedAhead(U, R, Q)
  BY <1>2, <1>3, <1>4, PushAhead
<1>9. OneSooner(FutureOf(U \cup {p}, R, P), FutureOf(U, R, Q), Q)
  BY <1>2, <1>3, <1>4, Coming
<1>10. \A n \in D \cup {p}, m \in U : n < m
  BY <1>3
<1>11. Images'
  BY <1>1, <1>2, <1>4, <1>5, <1>6, <1>8, <1>10, ImagesNext DEF Images
<1>12. /\ OneLater(PastImages', PastImages, PresentImage)
       /\ OneSooner(FutureImages, FutureImages', PresentImage')
  BY <1>1, <1>2, <1>5, <1>7, <1>9, ImagesAreOf, ImagesAreOfNext
<1> QED BY <1>11, <1>12 DEF History!Redo, OneLater, OneSooner

-----------------------------------------------------------------------------
(* The steps.                                                              *)

LEMMA SetsAreView ==
  ASSUME Sequential, NEW c \in Calls
  PROVE  /\ Done = {n \in Numbers : store[n].at = "txn" /\ ~store[n].torn /\ n \notin Ours(c)}
         /\ Undone = {n \in Numbers : /\ store[n].at = "undone" /\ ~store[n].torn
                                      /\ ~(pc[c] = "Commit" /\ ClearsRedo(c))}
         /\ Done' = {n \in Numbers : store'[n].at = "txn" /\ ~store'[n].torn /\ n \notin Ours(c)'}
         /\ Undone' = {n \in Numbers : /\ store'[n].at = "undone" /\ ~store'[n].torn
                                       /\ ~(pc[c] = "Commit" /\ ClearsRedo(c))'}
<1>1. Uncommitted = Ours(c) /\ (Clearing <=> pc[c] = "Commit" /\ ClearsRedo(c))
  BY ViewIs
<1>2. Uncommitted' = Ours(c)' /\ (Clearing' <=> (pc[c] = "Commit" /\ ClearsRedo(c))')
  BY ViewIsNext
<1> QED BY <1>1, <1>2 DEF Done, Undone, Under

\* A step that changes neither files nor transactions, outside of commits and restores.
LEMMA Idling ==
  ASSUME Sequential, TypeOK, TypeOK', Once(Changes), NEW c \in Calls,
         disk' = disk, store' = store, open' = open,
         pc[c] \notin {"Commit", "Restore"}, pc'[c] \notin {"Commit", "Restore"}
  PROVE  Kept /\ Once(Changes)'
<1>1. Changes' = Changes
  BY DEF Changes, Recs
<1>2. Once(Changes)'
  BY <1>1 DEF Once
<1>3. Ours(c)' = Ours(c) /\ Mask(c)' = Mask(c) /\ MaskSide(c)' = MaskSide(c)
  BY DEF Ours, Mask, MaskSide, Recs
<1>4. Done' = Done /\ Undone' = Undone
  <2>1. Done' = {n \in Numbers : store[n].at = "txn" /\ ~store[n].torn /\ n \notin Ours(c)}
    BY <1>3, SetsAreView
  <2>2. Undone' = {n \in Numbers : store[n].at = "undone" /\ ~store[n].torn}
    BY SetsAreView
  <2>3. Undone = {n \in Numbers : store[n].at = "undone" /\ ~store[n].torn}
    BY SetsAreView
  <2> QED BY <2>1, <2>2, <2>3, SetsAreView
<1>5. PICK img : img = PresentImage
  OBVIOUS
<1>6. Shows(img, c)
  BY <1>5, PresentShows
<1>7. PresentImage' = img
  BY <1>2, <1>3, <1>6, PresentNext DEF Shows
<1> QED BY <1>1, <1>2, <1>4, <1>5, <1>7 DEF Kept

LEMMA QuietTool ==
  ASSUME Sequential, TypeOK, TypeOK', HistInv, NEW c \in Calls,
         \/ StartTool(c) \/ Return(c) \/ Fail(c)
         \/ \E f \in Files, x \in Contents : ReadBefore(c, f, x)
  PROVE  Kept /\ Once(Changes)' /\ ToolFits(c)' /\ JobFits(c)'
<1>0. OwnFits(c) /\ NextFits(c) /\ PlaceFits(c) /\ Once(Changes)
  BY DEF HistInv, Images, ToolFits
<1>1. /\ disk' = disk /\ store' = store /\ open' = open /\ wrote' = wrote
      /\ pc[c] \in {"Idle", "Work", "Record", "Manifest", "Write"}
      /\ pc'[c] \in {"Work", "Record", "Unlocked", "Abort"}
  BY <1>0, ZenonT(40) DEF StartTool, Return, Fail, ReadBefore, Goto, TypeOK, PlaceFits
<1>2. Kept /\ Once(Changes)'
  BY <1>0, <1>1, Idling
<1>3. JobFits(c)'
  BY <1>1 DEF JobFits
<1>4. phase'[c] = "tool"
  <2>1. ~(StartTool(c) \/ Return(c) \/ Fail(c)) => \E f \in Files, x \in Contents : ReadBefore(c, f, x)
    OBVIOUS
  <2>2. phase[c] = "tool"
    BY <1>0 DEF PlaceFits
  <2> QED BY <2>1, <2>2 DEF StartTool, Return, Fail, ReadBefore
<1>5. Fail(c) \/ pc[c] # "Write"
  BY DEF StartTool, Return, ReadBefore
<1>6. pc'[c] = "Abort" => wrote[c] = {} /\ Fail(c)
  <2> SUFFICES ASSUME pc'[c] = "Abort" PROVE wrote[c] = {} /\ Fail(c)
    OBVIOUS
  <2>1. Fail(c)
    BY DEF StartTool, Return, ReadBefore, Goto, TypeOK
  <2> QED BY <1>0, <2>1, NoTroubles DEF Fail, PlaceFits
<1>7. pc[c] = "Write" => pc'[c] = "Abort"
  BY <1>0, <1>5 DEF Fail, Goto, TypeOK, PlaceFits
<1>8. OwnFits(c)'
  <2> SUFFICES ASSUME open[c] # 0
               PROVE  /\ Newest(open[c]) /\ ~store[open[c]].torn
                      /\ \A r \in Range(Recs(open[c])) :
                            \/ r.path \in wrote[c] /\ disk[r.path] = r.after
                            \/ pc'[c] \in {"Write", "Abort"} /\ r.path \notin wrote[c] /\ disk[r.path] = r.before
    BY <1>1 DEF OwnFits, Newest, Present, Recs
  <2> QED BY <1>0, <1>1, <1>7 DEF OwnFits
<1>9. NextFits(c)'
  <2>1. pc'[c] # "Write" /\ pc'[c] # "Manifest"
    BY <1>1
  <2>2. pc'[c] = "Record" => cur'[c].before = disk[cur'[c].path] /\ cur'[c].path \notin wrote[c]
    <3> SUFFICES ASSUME pc'[c] = "Record"
                 PROVE  cur'[c].before = disk[cur'[c].path] /\ cur'[c].path \notin wrote[c]
      OBVIOUS
    <3>1. PICK f \in Files, x \in Contents : ReadBefore(c, f, x)
      BY DEF StartTool, Return, Fail, Goto, TypeOK
    <3> QED BY <1>0, <3>1 DEF ReadBefore, TypeOK, PlaceFits
  <2> QED BY <1>1, <2>1, <2>2 DEF NextFits
<1>10. PlaceFits(c)'
  <2>1. pc'[c] \in {"Work", "Unlocked"} /\ open[c] # 0 => Recs(open[c]) # <<>>
    <3>1. pc'[c] \in {"Work", "Unlocked"} => StartTool(c) \/ Return(c)
      BY <1>0, <1>1 DEF Fail, ReadBefore, Goto, TypeOK, PlaceFits
    <3> QED BY <1>0, <3>1 DEF StartTool, Return, PlaceFits
  <2> QED BY <1>1, <1>4, <1>6, <2>1 DEF PlaceFits, Recs
<1> QED BY <1>2, <1>3, <1>8, <1>9, <1>10 DEF ToolFits

LEMMA QuietUndo ==
  ASSUME Sequential, TypeOK, TypeOK', HistInv, NEW c \in Calls,
         NothingLeft(c) \/ \E op \in {"undo", "redo"}, k \in 1..MaxSteps : StartUndo(c, op, k)
  PROVE  Kept /\ Once(Changes)' /\ ToolFits(c)' /\ JobFits(c)'
<1>0. PlaceFits(c) /\ Once(Changes)
  BY DEF HistInv, Images, ToolFits
<1>1. /\ disk' = disk /\ store' = store /\ open' = open /\ phase' = phase /\ wrote' = wrote /\ cur' = cur
      /\ pc[c] \in {"Idle", "Top"} /\ pc'[c] \in {"Idle", "Top"}
  BY DEF NothingLeft, EndUndo, StartUndo, Goto, TypeOK
<1>2. Kept /\ Once(Changes)'
  BY <1>0, <1>1, Idling
<1>3. JobFits(c)'
  BY <1>1 DEF JobFits
<1>4. OwnFits(c)' /\ NextFits(c)' /\ PlaceFits(c)'
  BY <1>0, <1>1 DEF OwnFits, NextFits, PlaceFits
<1> QED BY <1>2, <1>3, <1>4 DEF ToolFits

\* What cannot happen to one call without troubles.
LEMMA NoMore ==
  ASSUME Sequential, TypeOK, HistInv, NEW c \in Calls
  PROVE  ~StartFormat(c) /\ ~CommitTimesOut(c) /\ ~RestoreFails(c)
<1>1. ~StartFormat(c)
  BY NoTroubles DEF StartFormat
<1>2. ~CommitTimesOut(c)
  <2>1. pc[c] = "Unlocked" => gate # c
    BY DEF TypeOK, GatedPcs
  <2>2. gate = None \/ gate = c
    BY DEF TypeOK, Sequential
  <2> QED BY <2>1, <2>2 DEF CommitTimesOut
<1>3. ~RestoreFails(c)
  <2> SUFFICES ASSUME RestoreFails(c), pc[c] = "Restore" PROVE FALSE
    BY DEF RestoreFails
  <2>1. JobFits(c) /\ job[c].op \in {"undo", "redo"}
    BY DEF HistInv, TypeOK
  <2>2. store[job[c].n].at = From(job[c].op)
    BY <2>1 DEF JobFits, From, Done, Undone, Under
  <2> QED BY <2>2, NoTroubles DEF RestoreFails
<1> QED BY <1>1, <1>2, <1>3

LEMMA KeptIs ==
  ASSUME Sequential, TypeOK, TypeOK', Once(Changes), Once(Changes)', NEW c \in Calls,
         Done' = Done, Undone' = Undone, \A n \in Done \cup Undone : store'[n].recs = store[n].recs,
         \A img : Shows(img, c) => Shows(img, c)'
  PROVE  Kept
<1>1. PICK img : img = PresentImage
  OBVIOUS
<1>2. Shows(img, c)'
  BY <1>1, PresentShows
<1>3. PresentImage' = img
  BY <1>2, PresentNext DEF Shows
<1>4. \A n \in Done \cup Undone : Changes'[n] = Changes[n]
  BY SetsOfNumbers DEF Changes, Recs
<1> QED BY <1>1, <1>3, <1>4 DEF Kept

\* Without excess and expiry nothing is pruned.
LEMMA NoPrune ==
  ASSUME Sequential, TypeOK, NEW k \in 0..MaxN, Prune(k)
  PROVE  Pruned(k) = store
<1>1. PICK A : A = {n \in Numbers : Present(n)}
  OBVIOUS
<1>2. IsFiniteSet(A) /\ Cardinality(A) \in Nat /\ Cardinality(A) <= MaxN
  <2>1. IsFiniteSet(1..MaxN) /\ Cardinality(1..MaxN) = MaxN
    BY FS_Interval, UndoAssumption
  <2> QED BY <1>1, <2>1, FS_Subset, FS_CardinalityType DEF Numbers
<1>3. Excess = 0
  <2>1. MaxN \in Nat /\ MaxTxns \in Nat /\ MaxN <= MaxTxns
    BY UndoAssumption DEF Sequential
  <2>2. ~(Cardinality(A) > MaxTxns)
    BY <1>2, <2>1
  <2> QED BY <1>1, <2>2 DEF Excess
<1>4. k = 0
  BY <1>3, NoTroubles DEF Prune
<1>5. Oldest(0) = {}
  <2> SUFFICES ASSUME NEW n \in Numbers, Present(n), Cardinality({m \in 1..n : Present(m)}) <= 0
               PROVE  FALSE
    BY DEF Oldest
  <2>1. PICK B : B = {m \in 1..n : Present(m)}
    OBVIOUS
  <2>2. n \in Nat /\ n >= 1
    BY UndoAssumption DEF Numbers
  <2>3. n \in B /\ IsFiniteSet(B) /\ Cardinality(B) \in Nat
    <3>1. IsFiniteSet(1..n)
      BY <2>2, FS_Interval
    <3> QED BY <2>1, <2>2, <3>1, FS_Subset, FS_CardinalityType
  <2>4. Cardinality(B) = 0
    BY <2>1, <2>3
  <2> QED BY <2>3, <2>4, FS_EmptySet
<1>6. store = [n \in Numbers |-> store[n]]
  BY DEF TypeOK
<1> QED BY <1>4, <1>5, <1>6 DEF Pruned

LEMMA MakesDir ==
  ASSUME Sequential, TypeOK, TypeOK', HistInv, NEW c \in Calls, MakeDir(c)
  PROVE  Kept /\ Once(Changes)' /\ ToolFits(c)' /\ JobFits(c)'
<1>0. OwnFits(c) /\ NextFits(c) /\ PlaceFits(c) /\ Once(Changes)
  BY DEF HistInv, Images, ToolFits
<1>1. PICK n \in Numbers :
         /\ \A m \in Numbers : store[m].at # "none" => m < n
         /\ store' = [store EXCEPT ![n] = [at |-> "txn", torn |-> TRUE, recs |-> <<>>]]
         /\ cur' = [cur EXCEPT ![c].n = n]
  BY MakeDirIs, NoPrune
<1>2. /\ pc[c] = "Record" /\ pc'[c] = "Manifest" /\ open[c] = 0 /\ open' = open /\ disk' = disk
      /\ wrote' = wrote /\ phase' = phase
  BY DEF MakeDir, Goto, TypeOK
<1>3. store[n].at = "none" /\ store[n].recs = <<>>
  <2>1. ~(n < n)
    BY UndoAssumption DEF Numbers
  <2> QED BY <1>1, <2>1 DEF TypeOK
<1>4. /\ store'[n] = [at |-> "txn", torn |-> TRUE, recs |-> <<>>]
      /\ \A m \in Numbers \ {n} : store'[m] = store[m]
  BY <1>1 DEF TypeOK
<1>5. \A m \in Numbers : store'[m].recs = store[m].recs
  BY <1>3, <1>4
<1>6. Once(Changes)'
  <2>1. Changes' = Changes
    BY <1>5 DEF Changes, Recs
  <2> QED BY <1>0, <2>1 DEF Once
<1>7. Done' = Done /\ Undone' = Undone
  <2>1. Ours(c) = {} /\ Ours(c)' = {}
    BY <1>2 DEF Ours
  <2>2. \A m \in Numbers : /\ store'[m].at = "txn" /\ ~store'[m].torn <=> store[m].at = "txn" /\ ~store[m].torn
                           /\ store'[m].at = "undone" /\ ~store'[m].torn <=> store[m].at = "undone" /\ ~store[m].torn
    BY <1>3, <1>4
  <2> QED BY <1>2, <2>1, <2>2, SetsAreView
<1>8. \A img : Shows(img, c) => Shows(img, c)'
  BY <1>2 DEF Shows, Mask, Ours
<1>9. Kept
  BY <1>0, <1>5, <1>6, <1>7, <1>8, KeptIs, SetsOfNumbers
<1>10. OwnFits(c)'
  BY <1>2 DEF OwnFits
<1>11. NextFits(c)'
  <2>1. cur'[c].before = cur[c].before /\ cur'[c].path = cur[c].path
    BY <1>1 DEF TypeOK
  <2> QED BY <1>0, <1>2, <2>1 DEF NextFits
<1>12. PlaceFits(c)'
  <2>1. cur'[c].n = n /\ n # 0
    BY <1>1, UndoAssumption DEF TypeOK, Numbers
  <2>2. Newest(n)'
    <3>1. \A m \in Numbers : store'[m].at # "none" => m <= n
      BY <1>1, <1>4, NumbersAreNat
    <3> QED BY <3>1, <1>4 DEF Newest, Present
  <2>3. store'[n].torn
    BY <1>4
  <2>4. Newest(cur[c].n)' /\ store'[cur'[c].n].torn
    BY <2>1, <2>2, <2>3 DEF Newest
  <2> QED BY <1>0, <1>2, <2>1, <2>4 DEF PlaceFits
<1>13. JobFits(c)'
  BY <1>2 DEF JobFits
<1> QED BY <1>6, <1>9, <1>10, <1>11, <1>12, <1>13 DEF ToolFits

LEMMA WritesManifest ==
  ASSUME Sequential, TypeOK, TypeOK', HistInv, NEW c \in Calls, WriteEmptyManifest(c)
  PROVE  Kept /\ Once(Changes)' /\ ToolFits(c)' /\ JobFits(c)'
<1>0. OwnFits(c) /\ NextFits(c) /\ PlaceFits(c) /\ Once(Changes)
  BY DEF HistInv, Images, ToolFits
<1>1. PICK n : n = cur[c].n
  OBVIOUS
<1>2. /\ pc[c] = "Manifest" /\ pc'[c] = "Record" /\ open[c] = 0 /\ open'[c] = n /\ disk' = disk
      /\ wrote' = wrote /\ phase' = phase /\ cur' = cur
  BY <1>0, <1>1 DEF WriteEmptyManifest, Goto, TypeOK, PlaceFits
<1>3. n \in Numbers /\ n # 0 /\ Newest(n) /\ store[n].torn /\ store[n].at = "txn" /\ store[n].recs = <<>>
  <2>1. n \in Numbers /\ n # 0 /\ Newest(n) /\ store[n].torn
    <3>1. n # 0 /\ Newest(n) /\ store[n].torn
      BY <1>0, <1>1, <1>2 DEF PlaceFits
    <3>2. n \in 0..MaxN
      BY <1>1 DEF TypeOK
    <3> QED BY <3>1, <3>2, UndoAssumption DEF Numbers
  <2> QED BY <2>1 DEF Newest, TypeOK
<1>4. /\ store'[n].at = "txn" /\ store'[n].recs = <<>> /\ ~store'[n].torn
      /\ \A m \in Numbers \ {n} : store'[m] = store[m]
  BY <1>1, <1>3 DEF WriteEmptyManifest, TypeOK
<1>5. \A m \in Numbers : store'[m].recs = store[m].recs /\ store'[m].at = store[m].at
  BY <1>3, <1>4
<1>6. Once(Changes)'
  <2>1. Changes' = Changes
    BY <1>5 DEF Changes, Recs
  <2> QED BY <1>0, <2>1 DEF Once
<1>7. Done' = Done /\ Undone' = Undone
  <2>1. Ours(c) = {} /\ Ours(c)' = {n}
    BY <1>2, <1>3 DEF Ours
  <2>2. \A m \in Numbers : store'[m].at = "txn" /\ ~store'[m].torn /\ m # n <=> store[m].at = "txn" /\ ~store[m].torn
    BY <1>3, <1>4
  <2>3. \A m \in Numbers : store'[m].at = "undone" /\ ~store'[m].torn <=> store[m].at = "undone" /\ ~store[m].torn
    BY <1>3, <1>4
  <2>4. Done' = Done
    BY <2>1, <2>2, SetsAreView
  <2>5. Undone' = Undone
    BY <1>2, <2>3, SetsAreView
  <2> QED BY <2>4, <2>5
<1>8. \A img : Shows(img, c) => Shows(img, c)'
  <2>1. Mask(c) = {} /\ Mask(c)' = {}
    <3>1. Ours(c) = {} /\ Ours(c)' = {n}
      BY <1>2, <1>3 DEF Ours
    <3>2. Recs(n)' = <<>> /\ Range(<<>>) = {}
      BY <1>4 DEF Recs, Range
    <3>3. Mask(c)' = Range(Recs(n)')
      BY <1>2, <3>1 DEF Mask, Recs
    <3> QED BY <1>2, <3>1, <3>2, <3>3 DEF Mask
  <2> QED BY <1>2, <2>1 DEF Shows
<1>9. Kept
  BY <1>0, <1>5, <1>6, <1>7, <1>8, KeptIs, SetsOfNumbers
<1>10. OwnFits(c)'
  <2>1. Newest(n)'
    BY <1>3, <1>5 DEF Newest, Present
  <2>2. Newest(open[c])' /\ ~store'[open'[c]].torn
    BY <1>2, <1>4, <2>1 DEF Newest
  <2>3. Range(Recs(open[c]))' = {}
    BY <1>2, <1>4 DEF Recs, Range
  <2> QED BY <2>2, <2>3 DEF OwnFits
<1>11. NextFits(c)'
  BY <1>0, <1>2 DEF NextFits
<1>12. PlaceFits(c)'
  BY <1>0, <1>2 DEF PlaceFits
<1>13. JobFits(c)'
  BY <1>2 DEF JobFits
<1> QED BY <1>6, <1>9, <1>10, <1>11, <1>12, <1>13 DEF ToolFits

LEMMA AppendsRecord ==
  ASSUME Sequential, TypeOK, TypeOK', HistInv, NEW c \in Calls, WalAppend(c)
  PROVE  Kept /\ Once(Changes)' /\ ToolFits(c)' /\ JobFits(c)'
<1>0. OwnFits(c) /\ NextFits(c) /\ PlaceFits(c) /\ Once(Changes)
  BY DEF HistInv, Images, ToolFits
<1>1. PICK n, e : n = open[c] /\ e = Record(c)
  OBVIOUS
<1>2. /\ pc[c] = "Record" /\ pc'[c] = "Write" /\ open[c] = n /\ open' = open /\ disk' = disk
      /\ wrote' = wrote /\ phase' = phase /\ cur' = cur /\ n # 0 /\ Record(c)' = e
  BY <1>1 DEF WalAppend, Goto, TypeOK, Record
<1>3. n \in Numbers /\ Newest(n) /\ ~store[n].torn /\ store[n].at = "txn" /\ e \in Rec
      /\ store[n].recs \in Seq(Rec)
  <2>1. n \in Numbers /\ Newest(n) /\ ~store[n].torn
    BY <1>0, <1>2, MaskIs DEF OwnFits
  <2>2. e \in Rec
    BY <1>1, <1>2 DEF Record, Rec, TypeOK
  <2> QED BY <2>1, <2>2 DEF Newest, TypeOK
<1>4. /\ store'[n].at = "txn" /\ store'[n].recs = Append(store[n].recs, e) /\ ~store'[n].torn
      /\ \A m \in Numbers \ {n} : store'[m] = store[m]
  BY <1>1, <1>3 DEF WalAppend, TypeOK, Record
<1>5. /\ Range(Recs(n))' = Range(Recs(n)) \cup {e}
      /\ \A m \in Numbers \ {n} : Recs(m)' = Recs(m)
  BY <1>3, <1>4, RangeOfAppend DEF Recs
<1>6. /\ e.path \in Files /\ e.path = cur[c].path /\ e.before = disk[e.path]
      /\ \A r \in Range(Recs(n)) : r.path \in wrote[c] /\ r.path # e.path
  <2>1. e.path \in Files /\ e.path = cur[c].path /\ e.before = cur[c].before
    BY <1>1, <1>3 DEF Record, Rec
  <2>2. cur[c].before = disk[cur[c].path] /\ cur[c].path \notin wrote[c]
    BY <1>0, <1>2 DEF NextFits
  <2>3. \A r \in Range(Recs(n)) : r.path \in wrote[c]
    BY <1>0, <1>2 DEF OwnFits
  <2> QED BY <2>1, <2>2, <2>3
<1>7. Once(Changes)'
  <2> SUFFICES ASSUME NEW m \in Numbers, NEW r \in Range(Recs(m))', NEW s \in Range(Recs(m))', r.path = s.path
               PROVE  r = s
    BY RecordsAreNext DEF Once
  <2>1. CASE m = n
    <3>1. \A q, t \in Range(Recs(n)) : q.path = t.path => q = t
      BY <1>0, <1>3, RecordsAre DEF Once
    <3> QED BY <2>1, <3>1, <1>5, <1>6
  <2>2. CASE m # n
    <3>1. \A q, t \in Range(Recs(m)) : q.path = t.path => q = t
      BY <1>0, RecordsAre DEF Once
    <3> QED BY <2>2, <3>1, <1>5
  <2> QED BY <2>1, <2>2
<1>8. Ours(c) = {n} /\ Ours(c)' = {n}
  BY <1>2 DEF Ours
<1>9. Done' = Done /\ Undone' = Undone
  <2>1. \A m \in Numbers \ {n} : store'[m] = store[m]
    BY <1>4
  <2>2. Done' = Done
    BY <1>8, <2>1, SetsAreView, ZenonT(40)
  <2>3. \A m \in Numbers : store'[m].at = "undone" /\ ~store'[m].torn <=> store[m].at = "undone" /\ ~store[m].torn
    BY <1>3, <1>4
  <2>4. Undone' = Undone
    BY <1>2, <2>3, SetsAreView
  <2> QED BY <2>2, <2>4
<1>10. \A img : Shows(img, c) => Shows(img, c)'
  <2>1. Mask(c) = Range(Recs(n)) /\ Mask(c)' = Range(Recs(n)) \cup {e}
    <3>1. Mask(c)' = Range(Recs(n))'
      BY <1>2, <1>8 DEF Mask, Recs
    <3> QED BY <1>2, <1>5, <1>8, <3>1 DEF Mask
  <2>2. MaskSide(c) = "before" /\ MaskSide(c)' = "before"
    BY <1>2 DEF MaskSide
  <2> SUFFICES ASSUME NEW img, Shows(img, c) PROVE Shows(img, c)'
    OBVIOUS
  <2>3. img[e.path] = e["before"]
    <3>1. img[e.path] = disk[e.path]
      BY <1>6, <2>1 DEF Shows
    <3> QED BY <3>1, <1>6
  <2>4. \A r \in Mask(c)' : img[r.path] = r["before"]
    BY <2>1, <2>2, <2>3 DEF Shows
  <2>5. \A f \in Files : (\A r \in Mask(c)' : r.path # f) => img[f] = disk[f]
    BY <2>1 DEF Shows
  <2> QED BY <1>2, <2>2, <2>4, <2>5 DEF Shows
<1>11. Kept
  <2>1. \A m \in Done \cup Undone : store'[m].recs = store[m].recs
    BY <1>3, <1>4, <1>8, SetsAreView
  <2> QED BY <1>0, <1>7, <1>9, <1>10, <2>1, KeptIs
<1>12. OwnFits(c)'
  <2>1. Newest(n)'
    <3>1. \A m \in Numbers : store'[m].at = store[m].at
      BY <1>3, <1>4
    <3> QED BY <1>3, <3>1 DEF Newest, Present
  <2>2. Newest(open[c])' /\ ~store'[open'[c]].torn
    BY <1>2, <1>4, <2>1 DEF Newest
  <2>3. Range(Recs(open[c]))' = Range(Recs(n)) \cup {e}
    BY <1>2, <1>5 DEF Recs
  <2>4. \A r \in Range(Recs(n)) : r.path \in wrote[c] /\ disk[r.path] = r.after
    BY <1>0, <1>2 DEF OwnFits
  <2>5. disk[e.path] = e.before /\ e.path \notin wrote[c]
    BY <1>0, <1>2, <1>6 DEF NextFits
  <2> QED BY <1>2, <2>2, <2>3, <2>4, <2>5 DEF OwnFits
<1>13. NextFits(c)'
  <2>1. cur[c].before = disk[cur[c].path] /\ cur[c].path \notin wrote[c]
    BY <1>0, <1>2 DEF NextFits
  <2>2. Range(Recs(open[c]))' = Range(Recs(n)) \cup {e}
    BY <1>2, <1>5 DEF Recs
  <2> QED BY <1>2, <1>6, <2>1, <2>2 DEF NextFits
<1>14. PlaceFits(c)'
  BY <1>0, <1>2 DEF PlaceFits
<1>15. JobFits(c)'
  BY <1>2 DEF JobFits
<1> QED BY <1>7, <1>11, <1>12, <1>13, <1>14, <1>15 DEF ToolFits

LEMMA WritesTarget ==
  ASSUME Sequential, TypeOK, TypeOK', HistInv, NEW c \in Calls, WriteTarget(c)
  PROVE  Kept /\ Once(Changes)' /\ ToolFits(c)' /\ JobFits(c)'
<1>0. OwnFits(c) /\ NextFits(c) /\ PlaceFits(c) /\ Once(Changes)
  BY DEF HistInv, Images, ToolFits
<1>1. PICK n, e : n = open[c] /\ e = Record(c)
  OBVIOUS
<1>2. /\ pc[c] = "Write" /\ pc'[c] = "Work" /\ open[c] = n /\ open' = open /\ store' = store
      /\ phase' = phase /\ n # 0
  BY <1>0, <1>1 DEF WriteTarget, Goto, TypeOK, NextFits
<1>3. n \in Numbers /\ e \in Range(Recs(n)) /\ e.path \in Files /\ e.path = cur[c].path
      /\ e.after = cur[c].after
      /\ \A r \in Range(Recs(n)) : (r.path \in wrote[c] \/ r = e) /\ (r.path = e.path => r = e)
  <2>1. n \in Numbers /\ e \in Range(Recs(n)) /\ \A r \in Range(Recs(n)) : r.path \in wrote[c] \/ r = e
    BY <1>0, <1>1, <1>2, MaskIs DEF NextFits
  <2>2. e.path = cur[c].path /\ e.after = cur[c].after /\ e.path \in Files
    BY <1>1, <1>2 DEF Record, TypeOK
  <2>3. \A r \in Range(Recs(n)) : r.path = e.path => r = e
    BY <1>0, <2>1, RecordsAre DEF Once
  <2> QED BY <2>1, <2>2, <2>3
<1>4. /\ disk'[e.path] = e.after /\ \A f \in Files \ {e.path} : disk'[f] = disk[f]
      /\ wrote'[c] = wrote[c] \cup {e.path}
  BY <1>3 DEF WriteTarget, TypeOK, Image
<1>5. \A m : Recs(m)' = Recs(m)
  BY <1>2 DEF Recs
<1>6. Once(Changes)'
  <2>1. Changes' = Changes
    BY <1>2 DEF Changes, Recs
  <2> QED BY <1>0, <2>1 DEF Once
<1>7. Ours(c) = {n} /\ Ours(c)' = {n}
  BY <1>2 DEF Ours
<1>8. Done' = Done /\ Undone' = Undone
  <2>1. Done' = Done
    BY <1>2, <1>7, SetsAreView
  <2>2. Undone' = Undone
    BY <1>2, SetsAreView
  <2> QED BY <2>1, <2>2
<1>9. \A img : Shows(img, c) => Shows(img, c)'
  <2>1. Mask(c) = Range(Recs(n)) /\ Mask(c)' = Range(Recs(n)) /\ MaskSide(c)' = MaskSide(c)
    BY <1>2, <1>7 DEF Mask, MaskSide, Recs
  <2> QED BY <1>3, <1>4, <2>1 DEF Shows
<1>10. Kept
  BY <1>0, <1>2, <1>6, <1>8, <1>9, KeptIs
<1>11. OwnFits(c)'
  <2>1. Newest(n) /\ ~store[n].torn
    BY <1>0, <1>2 DEF OwnFits
  <2>2. Newest(open[c])' /\ ~store'[open'[c]].torn
    BY <1>2, <2>1 DEF Newest, Present
  <2>3. Range(Recs(open[c]))' = Range(Recs(n))
    BY <1>2 DEF Recs
  <2>4. \A r \in Range(Recs(n)) : r.path \in wrote'[c] /\ disk'[r.path] = r.after
    <3> SUFFICES ASSUME NEW r \in Range(Recs(n)), r # e PROVE r.path \in wrote'[c] /\ disk'[r.path] = r.after
      BY <1>3, <1>4
    <3>1. r.path \in wrote[c] /\ r.path # e.path /\ r.path \in Files
      BY <1>3, RecordsAre DEF Rec
    <3>2. disk[r.path] = r.after
      BY <1>0, <1>2, <3>1 DEF OwnFits
    <3> QED BY <1>4, <3>1, <3>2
  <2> QED BY <2>2, <2>3, <2>4 DEF OwnFits
<1>12. NextFits(c)'
  BY <1>2 DEF NextFits
<1>13. PlaceFits(c)'
  <2>1. Recs(n) # <<>>
    BY <1>3 DEF Range
  <2> QED BY <1>0, <1>2, <1>5, <2>1 DEF PlaceFits, Recs
<1>14. JobFits(c)'
  BY <1>2 DEF JobFits
<1> QED BY <1>6, <1>10, <1>11, <1>12, <1>13, <1>14 DEF ToolFits

LEMMA StartsCommit ==
  ASSUME Sequential, TypeOK, TypeOK', HistInv, NEW c \in Calls, StartCommit(c)
  PROVE  /\ Kept \/ (Images' /\ History!Write)
         /\ Once(Changes)' /\ ToolFits(c)' /\ JobFits(c)'
<1>0. OwnFits(c) /\ NextFits(c) /\ PlaceFits(c) /\ Images /\ Once(Changes)
  BY DEF HistInv, Images, ToolFits
<1>2. /\ pc[c] = "Unlocked" /\ pc'[c] = "Commit" /\ open' = open /\ disk' = disk /\ store' = store
      /\ wrote' = wrote /\ phase' = phase /\ cur' = cur
  BY DEF StartCommit, Goto, TypeOK
<1>s. \A m : Newest(m)' = Newest(m) /\ Recs(m)' = Recs(m)
  BY <1>2 DEF Newest, Present, Recs
<1>3. Changes' = Changes /\ Once(Changes)'
  <2>1. Changes' = Changes
    BY <1>2 DEF Changes, Recs
  <2> QED BY <1>0, <2>1 DEF Once
<1>4. OwnFits(c)'
  <2>1. open[c] # 0 => Newest(open[c])' /\ Recs(open[c])' = Recs(open[c])
    BY <1>0, <1>2 DEF OwnFits, Newest, Present, Recs
  <2>2. open[c] # 0 => /\ ~store[open[c]].torn
                       /\ \A r \in Range(Recs(open[c])) : r.path \in wrote[c] /\ disk[r.path] = r.after
    BY <1>0, <1>2 DEF OwnFits
  <2> QED BY <1>2, <2>1, <2>2 DEF OwnFits, Recs
<1>5. NextFits(c)'
  BY <1>2 DEF NextFits
<1>6. PlaceFits(c)'
  BY <1>0, <1>2 DEF PlaceFits, Recs
<1>7. JobFits(c)'
  BY <1>2 DEF JobFits
<1>8. CASE open[c] = 0
  <2>1. Ours(c) = {} /\ Ours(c)' = {} /\ ~(pc[c] = "Commit" /\ ClearsRedo(c))' /\ pc[c] # "Commit"
    BY <1>2, <1>8 DEF Ours, ClearsRedo
  <2>2. Done' = Done /\ Undone' = Undone
    BY <1>2, <2>1, SetsAreView
  <2>3. \A img : Shows(img, c) => Shows(img, c)'
    BY <1>2, <2>1 DEF Shows, Mask, MaskSide
  <2> QED BY <1>0, <1>2, <1>3, <1>4, <1>5, <1>6, <1>7, <2>2, <2>3, KeptIs DEF ToolFits
<1>9. CASE open[c] # 0
  <2>1. PICK n : n = open[c]
    OBVIOUS
  <2>2. n \in Numbers /\ n # 0 /\ Newest(n) /\ ~store[n].torn /\ store[n].at = "txn" /\ Recs(n) # <<>>
    BY <1>0, <1>2, <1>9, <2>1, MaskIs DEF OwnFits, PlaceFits, Newest
  <2>3. Ours(c) = {n} /\ Ours(c)' = {} /\ (pc[c] = "Commit" /\ ClearsRedo(c))'
    BY <1>2, <1>9, <2>1, <2>2 DEF Ours, ClearsRedo, ManifestRead, Recs
  <2>4. Undone' = {}
    BY <2>3, SetsAreView
  <2>5. Done' = Done \cup {n}
    BY <1>2, <2>2, <2>3, SetsAreView
  <2>6. \A m \in Done : m < n
    <3>1. \A m \in Done : m \in Numbers /\ m # n /\ Present(m)
      BY <2>3, SetsAreView DEF Present
    <3>2. \A m \in Done : m <= n
      BY <2>2, <3>1 DEF Newest
    <3>3. n \in Nat /\ \A m \in Done : m \in Nat
      BY <2>2, <3>1, NumbersAreNat
    <3> QED BY <3>1, <3>2, <3>3
  <2>7. PICK P : P = PresentImage
    OBVIOUS
  <2>8. Mask(c) = Range(Recs(n)) /\ MaskSide(c) = "before" /\ Mask(c)' = {}
    BY <1>2, <2>3 DEF Mask, MaskSide
  <2>9. /\ P \in Image /\ \A r \in Range(Recs(n)) : P[r.path] = r["before"]
        /\ \A f \in Files : (\A r \in Range(Recs(n)) : r.path # f) => P[f] = disk[f]
    BY <1>0, <2>7, <2>8, PresentShows DEF Shows
  <2>10. PresentImage' = disk /\ disk \in Image
    <3>1. disk \in Image
      BY DEF TypeOK
    <3> QED BY <1>2, <1>3, <2>8, <3>1, PresentNext
  <2>11. Takes(Changes, n, P, disk)
    <3>1. Changes[n] = Range(Recs(n))
      BY <2>2, RecordsAre
    <3>2. \A r \in Range(Recs(n)) : disk[r.path] = r.after
      BY <1>0, <1>2, <2>1, <2>2 DEF OwnFits
    <3> QED BY <2>9, <3>1, <3>2 DEF Takes
  <2>12. Takes(Changes', n, PresentImage, PresentImage')
    BY <1>3, <2>7, <2>10, <2>11
  <2>13. Images' /\ History!Write
    BY <1>0, <1>3, <2>2, <2>4, <2>5, <2>6, <2>7, <2>9, <2>10, <2>12, WriteSeen
  <2> QED BY <1>3, <1>4, <1>5, <1>6, <1>7, <2>13 DEF ToolFits
<1> QED BY <1>8, <1>9

LEMMA RemovesUndone ==
  ASSUME Sequential, TypeOK, TypeOK', HistInv, NEW c \in Calls, RemoveUndone(c)
  PROVE  Kept /\ Once(Changes)' /\ ToolFits(c)' /\ JobFits(c)'
<1>0. OwnFits(c) /\ NextFits(c) /\ PlaceFits(c) /\ Once(Changes)
  BY DEF HistInv, Images, ToolFits
<1>1. PICK k \in Numbers : store[k].at = "undone" /\ store' = [store EXCEPT ![k] = NoTxn]
  BY DEF RemoveUndone, RemoveDir, Under
<1>2. /\ pc[c] = "Commit" /\ pc' = pc /\ open' = open /\ disk' = disk /\ ClearsRedo(c)
      /\ wrote' = wrote /\ phase' = phase /\ cur' = cur
  BY DEF RemoveUndone, volatile
<1>3. /\ store'[k].at = "none" /\ store'[k].recs = <<>>
      /\ \A m \in Numbers \ {k} : store'[m] = store[m]
  BY <1>1 DEF TypeOK, NoTxn
<1>4. PICK n : n = open[c] /\ n \in Numbers /\ n # 0 /\ n # k /\ store[n].at = "txn" /\ ~store[n].torn
  <2>1. open[c] # 0 /\ store[open[c]].at = "txn" /\ ~store[open[c]].torn
    BY <1>2 DEF ClearsRedo, ManifestRead
  <2> QED BY <1>0, <1>1, <2>1, MaskIs
<1>5. store'[n] = store[n] /\ Recs(n)' = Recs(n)
  BY <1>3, <1>4 DEF Recs
<1>6. Once(Changes)'
  <2> SUFFICES ASSUME NEW m \in Numbers, NEW r \in Range(Recs(m))', NEW s \in Range(Recs(m))', r.path = s.path
               PROVE  r = s
    BY RecordsAreNext DEF Once
  <2>1. m # k
    BY <1>3 DEF Recs, Range
  <2>2. \A q, t \in Range(Recs(m)) : q.path = t.path => q = t
    BY <1>0, RecordsAre DEF Once
  <2> QED BY <2>1, <2>2, <1>3 DEF Recs
<1>7. ClearsRedo(c)'
  BY <1>2, <1>4, <1>5 DEF ClearsRedo, ManifestRead, Recs
<1>8. Done' = Done /\ Undone' = Undone
  <2>1. Ours(c) = {} /\ Ours(c)' = {}
    BY <1>2 DEF Ours
  <2>2. \A m \in Numbers : store'[m].at = "txn" /\ ~store'[m].torn <=> store[m].at = "txn" /\ ~store[m].torn
    BY <1>1, <1>3
  <2>3. Done' = Done
    BY <2>1, <2>2, SetsAreView
  <2>4. Undone' = {} /\ Undone = {}
    BY <1>2, <1>7, SetsAreView
  <2> QED BY <2>3, <2>4
<1>9. \A img : Shows(img, c) => Shows(img, c)'
  BY <1>2 DEF Shows, Mask, MaskSide, Ours
<1>10. Kept
  <2>1. Undone = {} /\ \A m \in Done : m \in Numbers \ {k}
    BY <1>1, <1>2, SetsAreView
  <2>2. \A m \in Done \cup Undone : store'[m].recs = store[m].recs
    BY <1>3, <2>1
  <2> QED BY <1>0, <1>6, <1>8, <1>9, <2>2, KeptIs
<1>11. OwnFits(c)'
  <2>1. Newest(n) /\ \A r \in Range(Recs(n)) : r.path \in wrote[c] /\ disk[r.path] = r.after
    BY <1>0, <1>2, <1>4 DEF OwnFits
  <2>2. Newest(n)'
    <3>1. \A m \in Numbers : store'[m].at # "none" => store[m].at # "none"
      BY <1>3
    <3> QED BY <1>4, <1>5, <2>1, <3>1 DEF Newest, Present
  <2>3. Newest(open[c])' /\ ~store'[open'[c]].torn
    BY <1>2, <1>4, <1>5, <2>2 DEF Newest
  <2>4. Range(Recs(open[c]))' = Range(Recs(n))
    BY <1>2, <1>4, <1>5 DEF Recs
  <2> QED BY <1>2, <2>1, <2>3, <2>4 DEF OwnFits
<1>12. NextFits(c)'
  BY <1>2 DEF NextFits
<1>13. PlaceFits(c)'
  <2>1. (Recs(open[c]) # <<>>)'
    BY <1>2, <1>4, <1>5 DEF ClearsRedo, Recs
  <2> QED BY <1>0, <1>2, <2>1 DEF PlaceFits
<1>14. JobFits(c)'
  BY <1>2 DEF JobFits
<1> QED BY <1>6, <1>10, <1>11, <1>12, <1>13, <1>14 DEF ToolFits

LEMMA Commits ==
  ASSUME Sequential, TypeOK, TypeOK', HistInv, NEW c \in Calls, Commit(c)
  PROVE  Kept /\ Once(Changes)' /\ ToolFits(c)' /\ JobFits(c)'
<1>0. OwnFits(c) /\ PlaceFits(c) /\ Once(Changes)
  BY DEF HistInv, Images, ToolFits
<1>2. /\ pc[c] = "Commit" /\ pc'[c] = "Idle" /\ open'[c] = 0 /\ disk' = disk /\ store' = store
      /\ phase'[c] = "tool" /\ (ClearsRedo(c) => Under("undone") = {})
  BY DEF Commit, EndTool, Goto, TypeOK
<1>3. Changes' = Changes /\ Once(Changes)'
  <2>1. Changes' = Changes
    BY <1>2 DEF Changes, Recs
  <2> QED BY <1>0, <2>1 DEF Once
<1>4. Ours(c) = {} /\ Ours(c)' = {} /\ ~(pc[c] = "Commit" /\ ClearsRedo(c))'
  BY <1>2 DEF Ours
<1>5. Done' = Done
  BY <1>2, <1>4, SetsAreView
<1>6. Undone' = Undone
  <2>1. Undone' = {m \in Numbers : store[m].at = "undone" /\ ~store[m].torn}
    BY <1>2, <1>4, SetsAreView
  <2>2. CASE ClearsRedo(c)
    <3>1. Undone = {}
      BY <1>2, <2>2, SetsAreView
    <3>2. \A m \in Numbers : store[m].at # "undone"
      BY <1>2, <2>2 DEF Under
    <3> QED BY <2>1, <3>1, <3>2
  <2>3. CASE ~ClearsRedo(c)
    BY <2>1, <2>3, SetsAreView
  <2> QED BY <2>2, <2>3
<1>7. \A img : Shows(img, c) => Shows(img, c)'
  BY <1>2, <1>4 DEF Shows, Mask, MaskSide
<1>8. Kept
  BY <1>0, <1>2, <1>3, <1>5, <1>6, <1>7, KeptIs
<1>9. OwnFits(c)' /\ NextFits(c)' /\ PlaceFits(c)'
  BY <1>2 DEF OwnFits, NextFits, PlaceFits
<1>10. JobFits(c)'
  BY <1>2 DEF JobFits
<1> QED BY <1>3, <1>8, <1>9, <1>10 DEF ToolFits

LEMMA Aborts ==
  ASSUME Sequential, TypeOK, TypeOK', HistInv, NEW c \in Calls, Abort(c)
  PROVE  Kept /\ Once(Changes)' /\ ToolFits(c)' /\ JobFits(c)'
<1>0. OwnFits(c) /\ PlaceFits(c) /\ Once(Changes)
  BY DEF HistInv, Images, ToolFits
<1>2. /\ pc[c] = "Abort" /\ pc'[c] = "Idle" /\ open'[c] = 0 /\ disk' = disk
      /\ phase'[c] = "tool" /\ wrote[c] = {}
  BY <1>0 DEF Abort, EndTool, Goto, TypeOK, PlaceFits
<1>9. OwnFits(c)' /\ NextFits(c)' /\ PlaceFits(c)'
  BY <1>2 DEF OwnFits, NextFits, PlaceFits
<1>10. JobFits(c)'
  BY <1>2 DEF JobFits
<1>11. Ours(c)' = {} /\ Mask(c)' = {} /\ ~(pc[c] = "Commit" /\ ClearsRedo(c))'
  BY <1>2 DEF Ours, Mask
<1>12. CASE open[c] = 0
  <2>1. store' = store /\ Ours(c) = {} /\ Mask(c) = {}
    BY <1>2, <1>12 DEF Abort, Ours, Mask
  <2>2. Changes' = Changes /\ Once(Changes)'
    <3>1. Changes' = Changes
      BY <2>1 DEF Changes, Recs
    <3> QED BY <1>0, <3>1 DEF Once
  <2>3. Done' = Done /\ Undone' = Undone
    BY <1>2, <1>11, <2>1, SetsAreView
  <2>4. \A img : Shows(img, c) => Shows(img, c)'
    BY <1>2, <1>11, <2>1 DEF Shows
  <2>5. Kept
    BY <1>0, <2>1, <2>2, <2>3, <2>4, KeptIs
  <2> QED BY <1>9, <1>10, <2>2, <2>5 DEF ToolFits
<1>13. CASE open[c] # 0
  <2>1. PICK n : n = open[c] /\ n \in Numbers /\ n # 0 /\ store[n].at = "txn" /\ ~store[n].torn
    BY <1>0, <1>13, MaskIs DEF OwnFits, Newest
  <2>2. /\ store'[n].at = "none" /\ store'[n].recs = <<>>
        /\ \A m \in Numbers \ {n} : store'[m] = store[m]
    BY <1>13, <2>1, StoreSteps DEF Abort, RemoveDir, NoTxn, StoreType
  <2>3. Ours(c) = {n} /\ Mask(c) = Range(Recs(n)) /\ MaskSide(c) = "before"
    <3>1. Ours(c) = {n}
      BY <1>2, <1>13, <2>1 DEF Ours
    <3> QED BY <1>2, <3>1 DEF Mask, MaskSide
  <2>4. Once(Changes)'
    <3> SUFFICES ASSUME NEW m \in Numbers, NEW r \in Range(Recs(m))', NEW s \in Range(Recs(m))', r.path = s.path
                 PROVE  r = s
      BY RecordsAreNext DEF Once
    <3>1. m # n
      BY <2>2 DEF Recs, Range
    <3>2. \A q, t \in Range(Recs(m)) : q.path = t.path => q = t
      BY <1>0, RecordsAre DEF Once
    <3> QED BY <3>1, <3>2, <2>2 DEF Recs
  <2>5. Done' = Done
    <3>1. \A m \in Numbers : store'[m].at = "txn" /\ ~store'[m].torn
                              <=> store[m].at = "txn" /\ ~store[m].torn /\ m # n
      BY <2>1, <2>2
    <3> QED BY <1>11, <2>3, <3>1, SetsAreView, ZenonT(40)
  <2>6. Undone' = Undone
    <3>1. \A m \in Numbers : store'[m].at = "undone" /\ ~store'[m].torn
                              <=> store[m].at = "undone" /\ ~store[m].torn
      BY <2>1, <2>2
    <3> QED BY <1>2, <1>11, <3>1, SetsAreView
  <2>7. \A r \in Range(Recs(n)) : disk[r.path] = r.before
    BY <1>0, <1>2, <1>13, <2>1 DEF OwnFits
  <2>8. \A img : Shows(img, c) => Shows(img, c)'
    <3> SUFFICES ASSUME NEW img, Shows(img, c) PROVE Shows(img, c)'
      OBVIOUS
    <3>1. \A r \in Range(Recs(n)) : img[r.path] = disk[r.path]
      <4>1. \A r \in Range(Recs(n)) : img[r.path] = r["before"]
        BY <2>3 DEF Shows
      <4> QED BY <4>1, <2>7
    <3>2. \A f \in Files : img[f] = disk[f]
      BY <2>3, <3>1 DEF Shows
    <3> QED BY <1>2, <1>11, <3>2 DEF Shows
  <2>9. \A m \in Done \cup Undone : store'[m].recs = store[m].recs
    <3>1. n \notin Done /\ n \notin Undone
      BY <2>1, <2>3, SetsAreView
    <3> QED BY <2>2, <3>1, SetsOfNumbers
  <2>10. Kept
    BY <1>0, <2>4, <2>5, <2>6, <2>8, <2>9, KeptIs
  <2> QED BY <1>9, <1>10, <2>4, <2>10 DEF ToolFits
<1> QED BY <1>12, <1>13

-----------------------------------------------------------------------------
LEMMA MinLeast ==
  ASSUME NEW T \in SUBSET Nat, T # {}
  PROVE  Min(T) \in T /\ \A y \in T : Min(T) <= y
BY MinExists DEF Min

\* The transaction that an undo or a redo takes is at the present's end of the past or the
\* future, and is found as the one before or after it has left the files.
LEMMA TopIs ==
  ASSUME Sequential, TypeOK, HistInv, NEW c \in Calls, NEW n \in Numbers, Works(c, n)
  PROVE  /\ pc[c] = "Top" /\ open[c] = 0 /\ PresentImage = disk /\ disk \in Image
         /\ store[n].at = From(job[c].op)
         /\ ~store[n].torn =>
              /\ job[c].op = "undo" => /\ n \in Done /\ \A m \in Done : m <= n
                                       /\ \A r \in Range(Recs(n)) : disk[r.path] = r.after
              /\ job[c].op = "redo" => /\ n \in Undone /\ \A m \in Undone : n <= m
                                       /\ \A r \in Range(Recs(n)) : disk[r.path] = r.before
<1>0. PlaceFits(c) /\ Images /\ Once(Changes)
  BY DEF HistInv, Images, ToolFits
<1>1. pc[c] = "Top" /\ open[c] = 0 /\ disk \in Image
  BY <1>0 DEF Works, PlaceFits, TypeOK
<1>2. Ours(c) = {} /\ Mask(c) = {}
  BY <1>1 DEF Ours, Mask
<1>3. PresentImage = disk
  <2>1. PICK P : P = PresentImage /\ P \in Image /\ \A f \in Files : P[f] = disk[f]
    BY <1>0, <1>2, PresentShows DEF Shows
  <2> QED BY <1>1, <2>1 DEF Image
<1>4. /\ Under("txn") \in SUBSET (0..MaxN) /\ Under("undone") \in SUBSET Nat /\ MaxN \in Nat
      /\ \A m \in Numbers : m \in Nat
  BY NumbersAreNat DEF Under
<1>5. /\ Done = {m \in Numbers : store[m].at = "txn" /\ ~store[m].torn}
      /\ Undone = {m \in Numbers : store[m].at = "undone" /\ ~store[m].torn}
  <2>1. Done = {m \in Numbers : store[m].at = "txn" /\ ~store[m].torn /\ m \notin Ours(c)}
    BY SetsAreView
  <2>2. Undone = {m \in Numbers : store[m].at = "undone" /\ ~store[m].torn}
    BY <1>1, SetsAreView
  <2> QED BY <1>2, <2>1, <2>2
<1>6. CASE job[c].op = "undo"
  <2>1. n \in Under("txn") /\ \A m \in Under("txn") : m <= n
    BY <1>4, <1>6, MaxIs DEF Works, Candidate, From
  <2>2. n \in Done => \A m \in Done : m <= n
    BY <1>5, <2>1 DEF Under
  <2>3. ASSUME n \in Done, NEW r \in Range(Recs(n)) PROVE disk[r.path] = r.after
    <3>1. r \in Changes[n]
      BY <2>3, RecordsAre
    <3>2. \A m \in Done : ~(n < m)
      BY <1>4, <1>5, <2>2, <2>3
    <3> QED BY <1>0, <1>3, <2>3, <3>1, <3>2 DEF Images, Linked
  <2> QED BY <1>1, <1>3, <1>5, <1>6, <2>1, <2>2, <2>3 DEF Under, From
<1>7. CASE job[c].op # "undo"
  <2>1. n \in Under("undone") /\ \A m \in Under("undone") : n <= m
    BY <1>4, <1>7, MinLeast DEF Works, Candidate, From
  <2>2. n \in Undone => \A m \in Undone : n <= m
    BY <1>5, <2>1 DEF Under
  <2>3. ASSUME n \in Undone, NEW r \in Range(Recs(n)) PROVE disk[r.path] = r.before
    <3>1. r \in Changes[n]
      BY <2>3, RecordsAre
    <3>2. \A m \in Undone : ~(m < n)
      BY <1>4, <1>5, <2>2, <2>3
    <3> QED BY <1>0, <1>3, <2>3, <3>1, <3>2 DEF Images, LinkedAhead
  <2> QED BY <1>1, <1>3, <1>5, <1>7, <2>1, <2>2, <2>3 DEF Under, From
<1> QED BY <1>6, <1>7

\* A transaction gets another prefix, or none does.
LEMMA Renames ==
  ASSUME Sequential, TypeOK, TypeOK', HistInv, NEW c \in Calls, NEW n \in Numbers,
         NEW q \in {"txn", "undone", "discarded"}, Rename(n, q)
  PROVE  /\ store'[n].at = q /\ store'[n].torn = store[n].torn
         /\ \A m \in Numbers \ {n} : store'[m] = store[m]
         /\ \A m \in Numbers : Recs(m)' = Recs(m) /\ store'[m].recs = store[m].recs
         /\ Changes' = Changes /\ Once(Changes)'
<1>1. /\ store'[n].at = q /\ store'[n].torn = store[n].torn /\ store'[n].recs = store[n].recs
      /\ \A m \in Numbers \ {n} : store'[m] = store[m]
  BY DEF Rename, TypeOK
<1>2. \A m \in Numbers : Recs(m)' = Recs(m) /\ store'[m].recs = store[m].recs
  BY <1>1 DEF Recs
<1>3. Changes' = Changes
  BY <1>2 DEF Changes, Recs
<1>4. Once(Changes)'
  BY <1>3 DEF HistInv, Images, Once
<1> QED BY <1>1, <1>2, <1>3, <1>4

\* A step of an undo or a redo that leaves files and calls alone.
LEMMA UndoPlaces ==
  ASSUME TypeOK, TypeOK', HistInv, NEW c \in Calls, pc[c] \in {"Top", "Restore"},
         pc'[c] \in {"Top", "Restore"}, open' = open, phase' = phase, wrote' = wrote
  PROVE  ToolFits(c)' /\ open[c] = 0 /\ open'[c] = 0
<1>1. PlaceFits(c)
  BY DEF HistInv, ToolFits
<1>2. open[c] = 0 /\ phase[c] = "tool"
  BY <1>1 DEF PlaceFits
<1>3. OwnFits(c)' /\ NextFits(c)' /\ PlaceFits(c)'
  BY <1>2 DEF OwnFits, NextFits, PlaceFits
<1> QED BY <1>2, <1>3 DEF ToolFits

LEMMA Discards ==
  ASSUME Sequential, TypeOK, TypeOK', HistInv, NEW c \in Calls, NEW n \in Numbers, Discard(c, n)
  PROVE  Kept /\ Once(Changes)' /\ ToolFits(c)' /\ JobFits(c)'
<1>0. Once(Changes) /\ job[c].op \in {"undo", "redo"}
  BY DEF HistInv, Images, TypeOK
<1>1. /\ pc[c] = "Top" /\ pc' = pc /\ open' = open /\ disk' = disk /\ phase' = phase /\ wrote' = wrote
      /\ Rename(n, "discarded")
  BY DEF Discard, Works
<1>2. store[n].torn
  <2> SUFFICES ASSUME ~store[n].torn PROVE "external" \notin Classes(n)
    BY DEF Discard
  <2>1. \A r \in Range(Recs(n)) : disk[r.path] = r.after \/ disk[r.path] = r.before
    BY <1>0, TopIs DEF Discard
  <2> QED BY <2>1 DEF Classes, Classify
<1>3. ToolFits(c)' /\ open[c] = 0 /\ open'[c] = 0
  BY <1>1, UndoPlaces
<1>4. Ours(c) = {} /\ Ours(c)' = {} /\ Mask(c) = {} /\ Mask(c)' = {}
  BY <1>1, <1>3 DEF Ours, Mask
<1>5. /\ \A m \in Numbers : store'[m].at = "txn" /\ ~store'[m].torn <=> store[m].at = "txn" /\ ~store[m].torn
      /\ \A m \in Numbers : store'[m].at = "undone" /\ ~store'[m].torn <=> store[m].at = "undone" /\ ~store[m].torn
  BY <1>1, <1>2, Renames
<1>6. Done' = Done /\ Undone' = Undone
  <2>1. Done' = Done
    BY <1>4, <1>5, SetsAreView
  <2>2. Undone' = Undone
    BY <1>1, <1>5, SetsAreView
  <2> QED BY <2>1, <2>2
<1>7. \A img : Shows(img, c) => Shows(img, c)'
  BY <1>1, <1>4 DEF Shows
<1>8. Once(Changes)' /\ \A m \in Numbers : store'[m].recs = store[m].recs
  BY <1>1, Renames
<1>9. Kept
  BY <1>0, <1>6, <1>7, <1>8, KeptIs, SetsOfNumbers
<1>10. JobFits(c)'
  BY <1>1 DEF JobFits
<1> QED BY <1>3, <1>8, <1>9, <1>10

\* What an undo and a redo make of the two sets, when they give a transaction its prefix.
LEMMA Moves ==
  ASSUME Sequential, TypeOK, TypeOK', HistInv, NEW c \in Calls, NEW n \in Numbers,
         Rename(n, To(job[c].op)), store[n].at = From(job[c].op), ~store[n].torn,
         pc[c] \in {"Top", "Restore"}, pc'[c] \in {"Top", "Restore"}, open[c] = 0, open'[c] = 0
  PROVE  /\ job[c].op = "undo" => Done' = Done \ {n} /\ Undone' = Undone \cup {n}
         /\ job[c].op # "undo" => Done' = Done \cup {n} /\ Undone' = Undone \ {n}
<1>1. Ours(c) = {} /\ Ours(c)' = {}
  BY DEF Ours
<1>2. To(job[c].op) \in {"txn", "undone", "discarded"}
  BY DEF To
<1>3. /\ store'[n].at = To(job[c].op) /\ ~store'[n].torn
      /\ \A m \in Numbers \ {n} : store'[m] = store[m]
  BY <1>2, Renames
<1>4. /\ Done = {m \in Numbers : store[m].at = "txn" /\ ~store[m].torn}
      /\ Undone = {m \in Numbers : store[m].at = "undone" /\ ~store[m].torn}
      /\ Done' = {m \in Numbers : store'[m].at = "txn" /\ ~store'[m].torn}
      /\ Undone' = {m \in Numbers : store'[m].at = "undone" /\ ~store'[m].torn}
  <2>1. Done = {m \in Numbers : store[m].at = "txn" /\ ~store[m].torn /\ m \notin Ours(c)}
    BY SetsAreView
  <2>2. Done' = {m \in Numbers : store'[m].at = "txn" /\ ~store'[m].torn /\ m \notin Ours(c)'}
    BY SetsAreView
  <2>3. Undone = {m \in Numbers : store[m].at = "undone" /\ ~store[m].torn}
    BY SetsAreView
  <2>4. Undone' = {m \in Numbers : store'[m].at = "undone" /\ ~store'[m].torn}
    BY SetsAreView
  <2> QED BY <1>1, <2>1, <2>2, <2>3, <2>4
<1>5. CASE job[c].op = "undo"
  <2>1. store'[n].at = "undone" /\ store[n].at = "txn"
    BY <1>3, <1>5 DEF To, From
  <2> QED BY <1>3, <1>4, <1>5, <2>1
<1>6. CASE job[c].op # "undo"
  <2>1. store'[n].at = "txn" /\ store[n].at = "undone"
    BY <1>3, <1>6 DEF To, From
  <2> QED BY <1>3, <1>4, <1>6, <2>1
<1> QED BY <1>5, <1>6

LEMMA DoesNothing ==
  ASSUME Sequential, TypeOK, TypeOK', HistInv, NEW c \in Calls, NEW n \in Numbers, NothingToDo(c, n)
  PROVE  /\ Images' /\ (History!Undo \/ History!Redo)
         /\ ToolFits(c)' /\ JobFits(c)'
<1>0. Images /\ Once(Changes) /\ job[c].op \in {"undo", "redo"}
  BY DEF HistInv, Images, TypeOK
<1>1. /\ pc[c] = "Top" /\ pc' = pc /\ open' = open /\ disk' = disk /\ phase' = phase /\ wrote' = wrote
      /\ Rename(n, To(job[c].op)) /\ ~store[n].torn /\ Works(c, n)
  BY DEF NothingToDo, Works
<1>2. To(job[c].op) \in {"txn", "undone", "discarded"}
  BY DEF To
<1>3. ToolFits(c)' /\ open[c] = 0 /\ open'[c] = 0
  BY <1>1, UndoPlaces
<1>4. JobFits(c)'
  BY <1>1 DEF JobFits
<1>5. Changes' = Changes /\ Once(Changes)' /\ Changes[n] = Range(Recs(n))
  BY <1>1, <1>2, Renames, RecordsAre
<1>6. PresentImage = disk /\ disk \in Image /\ store[n].at = From(job[c].op)
  BY <1>1, TopIs
<1>7. PresentImage' = disk
  <2>1. Mask(c)' = {}
    BY <1>1, <1>3 DEF Mask, Ours
  <2> QED BY <1>1, <1>5, <1>6, <2>1, PresentNext
<1>8. \A m \in Numbers : Changes'[m] = Changes[m]
  BY <1>5
<1>9. CASE job[c].op = "undo"
  <2>1. n \in Done /\ (\A m \in Done : m <= n) /\ \A r \in Range(Recs(n)) : disk[r.path] = r.after
    BY <1>1, <1>9, TopIs
  <2>2. Range(Recs(n)) = {}
    <3> SUFFICES ASSUME NEW r \in Range(Recs(n)) PROVE FALSE
      OBVIOUS
    <3>1. Classify(r) = "after" /\ Classify(r) \in Classes(n)
      BY <2>1 DEF Classify, Classes
    <3> QED BY <1>9, <3>1 DEF NothingToDo, Side
  <2>3. Takes(Changes, n, PresentImage', PresentImage)
    BY <1>5, <1>6, <1>7, <2>2 DEF Takes
  <2>4. Done' = Done \ {n} /\ Undone' = Undone \cup {n}
    BY <1>1, <1>3, <1>6, <1>9, Moves
  <2>5. Images' /\ History!Undo
    BY <1>0, <1>5, <1>6, <1>7, <1>8, <2>1, <2>3, <2>4, UndoSeen
  <2> QED BY <1>3, <1>4, <2>5
<1>10. CASE job[c].op = "redo"
  <2>1. n \in Undone /\ (\A m \in Undone : n <= m) /\ \A r \in Range(Recs(n)) : disk[r.path] = r.before
    BY <1>1, <1>10, TopIs
  <2>2. \A r \in Range(Recs(n)) : disk[r.path] = r.after
    <3> SUFFICES ASSUME NEW r \in Range(Recs(n)) PROVE disk[r.path] = r.after
      OBVIOUS
    <3>1. Classify(r) \in Classes(n)
      BY DEF Classes
    <3>2. Classify(r) = "after"
      BY <1>10, <3>1 DEF NothingToDo, Side
    <3> QED BY <3>2 DEF Classify
  <2>3. Takes(Changes, n, PresentImage, PresentImage')
    BY <1>5, <1>6, <1>7, <2>1, <2>2 DEF Takes
  <2>4. Done' = Done \cup {n} /\ Undone' = Undone \ {n}
    BY <1>1, <1>3, <1>6, <1>10, Moves
  <2>5. Images' /\ History!Redo
    BY <1>0, <1>5, <1>6, <1>7, <1>8, <2>1, <2>3, <2>4, RedoSeen
  <2> QED BY <1>3, <1>4, <2>5
<1> QED BY <1>0, <1>9, <1>10

LEMMA Lists ==
  ASSUME Sequential, TypeOK, TypeOK', HistInv, NEW c \in Calls, List(c)
  PROVE  Kept /\ Once(Changes)' /\ ToolFits(c)' /\ JobFits(c)'
<1>0. OwnFits(c) /\ NextFits(c) /\ PlaceFits(c) /\ Once(Changes)
  BY DEF HistInv, Images, ToolFits
<1>1. /\ pc[c] = "Idle" /\ pc' = pc /\ open' = open /\ disk' = disk /\ phase' = phase
  BY DEF List, volatile
<1>2. store' = store
  BY NoPrune DEF List
<1>3. Kept /\ Once(Changes)'
  BY <1>0, <1>1, <1>2, Idling
<1>4. OwnFits(c)' /\ NextFits(c)' /\ PlaceFits(c)'
  BY <1>0, <1>1 DEF OwnFits, NextFits, PlaceFits
<1>5. JobFits(c)'
  BY <1>1 DEF JobFits
<1> QED BY <1>3, <1>4, <1>5 DEF ToolFits

LEMMA StartsRestore ==
  ASSUME Sequential, TypeOK, TypeOK', HistInv, NEW c \in Calls, NEW n \in Numbers, StartRestore(c, n)
  PROVE  Kept /\ Once(Changes)' /\ ToolFits(c)' /\ JobFits(c)'
<1>0. Once(Changes) /\ job[c].op \in {"undo", "redo"}
  BY DEF HistInv, Images, TypeOK
<1>1. /\ pc[c] = "Top" /\ pc'[c] = "Restore" /\ open' = open /\ disk' = disk /\ phase' = phase
      /\ wrote' = wrote /\ store' = store /\ Works(c, n) /\ ~store[n].torn
      /\ job'[c].n = n /\ job'[c].recs = Recs(n) /\ job'[c].op = job[c].op
  BY ZenonT(40) DEF StartRestore, Works, Goto, TypeOK
<1>2. ToolFits(c)' /\ open[c] = 0 /\ open'[c] = 0
  BY <1>1, UndoPlaces
<1>3. Changes' = Changes /\ Once(Changes)'
  <2>1. Changes' = Changes
    BY <1>1 DEF Changes, Recs
  <2> QED BY <1>0, <2>1 DEF Once
<1>4. Ours(c) = {} /\ Ours(c)' = {} /\ Mask(c) = {} /\ Mask(c)' = Range(Recs(n))
  BY <1>1, <1>2 DEF Ours, Mask, Recs
<1>5. Done' = Done /\ Undone' = Undone
  <2>1. Done' = Done
    BY <1>1, <1>4, SetsAreView
  <2>2. Undone' = Undone
    BY <1>1, SetsAreView
  <2> QED BY <2>1, <2>2
<1>6. /\ job[c].op = "undo" => /\ n \in Done /\ \A m \in Done : m <= n
                               /\ \A r \in Range(Recs(n)) : disk[r.path] = r.after
      /\ job[c].op = "redo" => /\ n \in Undone /\ \A m \in Undone : n <= m
                               /\ \A r \in Range(Recs(n)) : disk[r.path] = r.before
  BY <1>1, TopIs
<1>7. \A r \in Range(Recs(n)) : disk[r.path] = r[MaskSide(c)']
  <2>1. CASE job[c].op = "undo"
    <3>1. MaskSide(c)' = "after"
      BY <1>1, <2>1 DEF MaskSide
    <3> QED BY <1>6, <2>1, <3>1
  <2>2. CASE job[c].op = "redo"
    <3>1. MaskSide(c)' = "before"
      BY <1>1, <2>2 DEF MaskSide
    <3> QED BY <1>6, <2>2, <3>1
  <2> QED BY <1>0, <2>1, <2>2
<1>8. \A img : Shows(img, c) => Shows(img, c)'
  <2> SUFFICES ASSUME NEW img, Shows(img, c) PROVE Shows(img, c)'
    OBVIOUS
  <2>1. img \in Image /\ \A f \in Files : img[f] = disk[f]
    BY <1>4 DEF Shows
  <2>2. \A r \in Range(Recs(n)) : r.path \in Files
    BY RecordsAre DEF Rec
  <2>3. \A r \in Range(Recs(n)) : img[r.path] = r[MaskSide(c)']
    BY <1>7, <2>1, <2>2
  <2> QED BY <1>1, <1>4, <2>1, <2>3 DEF Shows
<1>9. Kept
  BY <1>0, <1>1, <1>3, <1>5, <1>8, KeptIs
<1>10. JobFits(c)'
  <2>1. Range(job[c].recs)' = Range(Recs(n)) /\ Range(Recs(job[c].n))' = Range(Recs(n))
    BY <1>1 DEF Recs
  <2>2. CASE job[c].op = "undo"
    BY <1>1, <1>5, <1>6, <2>1, <2>2 DEF JobFits
  <2>3. CASE job[c].op = "redo"
    BY <1>1, <1>5, <1>6, <2>1, <2>3 DEF JobFits
  <2> QED BY <1>0, <2>2, <2>3
<1> QED BY <1>2, <1>3, <1>9, <1>10

\* A file that is restored is hidden behind the transaction until that is marked.
LEMMA RestoresFile ==
  ASSUME Sequential, TypeOK, TypeOK', HistInv, NEW c \in Calls, RestoreFile(c)
  PROVE  Kept /\ Once(Changes)' /\ ToolFits(c)' /\ JobFits(c)'
<1>0. Once(Changes) /\ job[c].op \in {"undo", "redo"} /\ JobFits(c)
  BY DEF HistInv, Images, TypeOK
<1>1. PICK n, q : n = job[c].n /\ q = job[c].recs
  OBVIOUS
<1>2. /\ pc[c] = "Restore" /\ pc' = pc /\ open' = open /\ phase' = phase /\ wrote' = wrote
      /\ store' = store /\ q # <<>> /\ q \in Seq(Rec) /\ n \in Numbers
  BY <1>0, <1>1, MaskIs DEF RestoreFile, TypeOK
<1>3. job'[c].n = n /\ job'[c].recs = Tail(q) /\ job'[c].op = job[c].op
  BY <1>1 DEF RestoreFile, TypeOK
<1>4. PICK r : r = Head(q) /\ r \in Range(q) /\ r \in Rec
  BY <1>2, RangeTail
<1>5. /\ disk'[r.path] = r[Side(job[c].op)]
      /\ \A f \in Files : f # r.path => disk'[f] = disk[f]
  <2>1. disk' = [disk EXCEPT ![r.path] = r[Side(job[c].op)]]
    BY <1>0, <1>1, <1>4 DEF RestoreFile, Side
  <2>2. r.path \in Files /\ disk \in Image
    BY <1>4 DEF Rec, TypeOK
  <2> QED BY <2>1, <2>2 DEF Image
<1>6. r \in Range(Recs(n)) /\ \A s \in Range(Recs(n)) : s.path = r.path => s = r
  <2>1. r \in Range(Recs(n))
    BY <1>0, <1>1, <1>2, <1>4 DEF JobFits
  <2>2. \A s, t \in Range(Recs(n)) : s.path = t.path => s = t
    BY <1>0, <1>2, RecordsAre DEF Once
  <2> QED BY <2>1, <2>2
<1>7. Changes' = Changes /\ Once(Changes)'
  <2>1. Changes' = Changes
    BY <1>2 DEF Changes, Recs
  <2> QED BY <1>0, <2>1 DEF Once
<1>8. ToolFits(c)' /\ open[c] = 0 /\ open'[c] = 0
  BY <1>2, UndoPlaces
<1>9. /\ Ours(c) = {} /\ Ours(c)' = {} /\ Mask(c) = Range(Recs(n)) /\ Mask(c)' = Range(Recs(n))
      /\ MaskSide(c)' = MaskSide(c)
  BY <1>1, <1>2, <1>3, <1>8 DEF Ours, Mask, MaskSide, Recs
<1>10. Done' = Done /\ Undone' = Undone
  <2>1. Done' = Done
    BY <1>2, <1>9, SetsAreView
  <2>2. Undone' = Undone
    BY <1>2, SetsAreView
  <2> QED BY <2>1, <2>2
<1>11. \A img : Shows(img, c) => Shows(img, c)'
  <2> SUFFICES ASSUME NEW img, Shows(img, c) PROVE Shows(img, c)'
    OBVIOUS
  <2>1. ASSUME NEW f \in Files, \A s \in Range(Recs(n)) : s.path # f PROVE img[f] = disk'[f]
    <3>1. f # r.path
      BY <1>6, <2>1
    <3> QED BY <1>5, <1>9, <2>1, <3>1 DEF Shows
  <2> QED BY <1>9, <2>1 DEF Shows
<1>12. Kept
  BY <1>0, <1>2, <1>7, <1>10, <1>11, KeptIs
<1>13. JobFits(c)'
  <2>1. Range(job[c].recs)' = Range(Tail(q)) /\ Range(Recs(job[c].n))' = Range(Recs(n))
    BY <1>2, <1>3 DEF Recs
  <2>2. Range(Tail(q)) \subseteq Range(Recs(n))
    BY <1>0, <1>1, <1>2, RangeTail DEF JobFits
  <2>3. ASSUME NEW s \in Range(Recs(n))
        PROVE  s \in Range(Tail(q)) \/ disk'[s.path] = s[Side(job[c].op)]
    <3>1. CASE s.path = r.path
      BY <1>5, <1>6, <3>1
    <3>2. CASE s.path # r.path
      <4>1. s.path \in Files
        BY <1>2, RecordsAre DEF Rec
      <4>2. s \in Range(q) \/ disk[s.path] = s[Side(job[c].op)]
        BY <1>0, <1>1, <1>2 DEF JobFits
      <4>3. s \in Range(q) => s \in Range(Tail(q))
        BY <1>2, <1>4, <3>2, RangeHeadTail
      <4> QED BY <1>5, <3>2, <4>1, <4>2, <4>3
    <3> QED BY <3>1, <3>2
  <2>4. IF job[c].op = "undo"
        THEN n \in Done' /\ \A m \in Done' : m <= n
        ELSE n \in Undone' /\ \A m \in Undone' : n <= m
    BY <1>0, <1>1, <1>2, <1>10 DEF JobFits
  <2> QED BY <1>3, <2>1, <2>2, <2>3, <2>4 DEF JobFits
<1> QED BY <1>7, <1>8, <1>12, <1>13

\* When all files are restored, the mark is the step of the history.
LEMMA Marks ==
  ASSUME Sequential, TypeOK, TypeOK', HistInv, NEW c \in Calls, Mark(c)
  PROVE  /\ Images' /\ (History!Undo \/ History!Redo)
         /\ ToolFits(c)' /\ JobFits(c)'
<1>0. Images /\ Once(Changes) /\ job[c].op \in {"undo", "redo"} /\ JobFits(c)
  BY DEF HistInv, Images, TypeOK
<1>1. PICK n : n = job[c].n
  OBVIOUS
<1>2. /\ pc[c] = "Restore" /\ pc'[c] = "Top" /\ open' = open /\ disk' = disk /\ phase' = phase
      /\ wrote' = wrote /\ Rename(n, To(job[c].op)) /\ store[n].at = From(job[c].op)
      /\ Range(job[c].recs) = {} /\ n \in Numbers
  <2>1. n \in Numbers
    BY <1>0, <1>1, MaskIs DEF Mark
  <2>2. job[c].recs = <<>> => Range(job[c].recs) = {}
    BY DEF Range
  <2> QED BY <1>1, <2>1, <2>2 DEF Mark, Goto, TypeOK
<1>3. To(job[c].op) \in {"txn", "undone", "discarded"}
  BY DEF To
<1>4. ToolFits(c)' /\ open[c] = 0 /\ open'[c] = 0
  BY <1>2, UndoPlaces
<1>5. JobFits(c)'
  BY <1>2 DEF JobFits
<1>6. Changes' = Changes /\ Once(Changes)' /\ Changes[n] = Range(Recs(n))
  BY <1>2, <1>3, Renames, RecordsAre
<1>7. disk \in Image /\ \A r \in Range(Recs(n)) : disk[r.path] = r[Side(job[c].op)]
  BY <1>0, <1>1, <1>2 DEF JobFits, TypeOK
<1>8. PresentImage' = disk
  <2>1. Mask(c)' = {}
    BY <1>2, <1>4 DEF Mask, Ours
  <2> QED BY <1>2, <1>6, <1>7, <2>1, PresentNext
<1>9. PICK P : P = PresentImage /\ Shows(P, c)
  BY <1>0, PresentShows
<1>10. /\ P \in Image /\ \A r \in Range(Recs(n)) : P[r.path] = r[MaskSide(c)]
       /\ \A f \in Files : (\A r \in Range(Recs(n)) : r.path # f) => P[f] = disk[f]
  <2>1. Mask(c) = Range(Recs(n))
    BY <1>1, <1>2 DEF Mask
  <2> QED BY <1>9, <2>1 DEF Shows
<1>11. \A m \in Numbers : Changes'[m] = Changes[m]
  BY <1>6
<1>12. CASE job[c].op = "undo"
  <2>1. n \in Done /\ \A m \in Done : m <= n
    BY <1>0, <1>1, <1>2, <1>12 DEF JobFits
  <2>2. \A r \in Range(Recs(n)) : P[r.path] = r.after /\ disk[r.path] = r.before
    <3>1. MaskSide(c) = "after" /\ Side(job[c].op) = "before"
      BY <1>2, <1>12 DEF MaskSide, Side
    <3> QED BY <1>7, <1>10, <3>1
  <2>3. Takes(Changes, n, PresentImage', PresentImage)
    BY <1>6, <1>8, <1>9, <1>10, <2>2 DEF Takes
  <2>4. ~store[n].torn
    BY <2>1 DEF Done
  <2>5. Done' = Done \ {n} /\ Undone' = Undone \cup {n}
    BY <1>2, <1>4, <1>12, <2>4, Moves
  <2>6. Images' /\ History!Undo
    BY <1>0, <1>6, <1>7, <1>8, <1>9, <1>10, <1>11, <2>1, <2>3, <2>5, UndoSeen
  <2> QED BY <1>4, <1>5, <2>6
<1>13. CASE job[c].op = "redo"
  <2>1. n \in Undone /\ \A m \in Undone : n <= m
    BY <1>0, <1>1, <1>2, <1>13 DEF JobFits
  <2>2. \A r \in Range(Recs(n)) : P[r.path] = r.before /\ disk[r.path] = r.after
    <3>1. MaskSide(c) = "before" /\ Side(job[c].op) = "after"
      BY <1>2, <1>13 DEF MaskSide, Side
    <3> QED BY <1>7, <1>10, <3>1
  <2>3. Takes(Changes, n, PresentImage, PresentImage')
    BY <1>6, <1>8, <1>9, <1>10, <2>2 DEF Takes
  <2>4. ~store[n].torn
    BY <1>2, <2>1, SetsAreView DEF Undone
  <2>5. Done' = Done \cup {n} /\ Undone' = Undone \ {n}
    BY <1>2, <1>4, <1>13, <2>4, Moves
  <2>6. Images' /\ History!Redo
    BY <1>0, <1>6, <1>7, <1>8, <1>9, <1>10, <1>11, <2>1, <2>3, <2>5, RedoSeen
  <2> QED BY <1>4, <1>5, <2>6
<1> QED BY <1>0, <1>12, <1>13

-----------------------------------------------------------------------------
(* The steps together.                                                     *)

\* A step is one of the history, or none.
Seen == Images' /\ (\/ History!Next
                    \/ UNCHANGED <<PastImages, PresentImage, FutureImages>>)

LEMMA KeptIsSeen ==
  ASSUME HistInv, Kept, Once(Changes)'
  PROVE  Seen
BY NothingSeen DEF HistInv, Seen

LEMMA ToolSeen ==
  ASSUME Sequential, TypeOK, TypeOK', HistInv, NEW c \in Calls, ToolNext(c)
  PROVE  Seen /\ ToolFits(c)' /\ JobFits(c)'
<1>1. ASSUME StartTool(c) \/ Return(c) \/ Fail(c) \/ \E f \in Files, x \in Contents : ReadBefore(c, f, x)
      PROVE  Seen /\ ToolFits(c)' /\ JobFits(c)'
  BY <1>1, QuietTool, KeptIsSeen
<1>2. ASSUME MakeDir(c) PROVE Seen /\ ToolFits(c)' /\ JobFits(c)'
  BY <1>2, MakesDir, KeptIsSeen
<1>3. ASSUME WriteEmptyManifest(c) PROVE Seen /\ ToolFits(c)' /\ JobFits(c)'
  BY <1>3, WritesManifest, KeptIsSeen
<1>4. ASSUME WalAppend(c) PROVE Seen /\ ToolFits(c)' /\ JobFits(c)'
  BY <1>4, AppendsRecord, KeptIsSeen
<1>5. ASSUME WriteTarget(c) PROVE Seen /\ ToolFits(c)' /\ JobFits(c)'
  BY <1>5, WritesTarget, KeptIsSeen
<1>6. ASSUME StartCommit(c) PROVE Seen /\ ToolFits(c)' /\ JobFits(c)'
  <2>1. (Kept \/ (Images' /\ History!Write)) /\ Once(Changes)' /\ ToolFits(c)' /\ JobFits(c)'
    BY <1>6, StartsCommit
  <2>2. ASSUME Images', History!Write PROVE Seen
    BY <2>2 DEF Seen, History!Next
  <2> QED BY <2>1, <2>2, KeptIsSeen
<1>7. ASSUME RemoveUndone(c) PROVE Seen /\ ToolFits(c)' /\ JobFits(c)'
  BY <1>7, RemovesUndone, KeptIsSeen
<1>8. ASSUME Commit(c) PROVE Seen /\ ToolFits(c)' /\ JobFits(c)'
  BY <1>8, Commits, KeptIsSeen
<1>9. ASSUME Abort(c) PROVE Seen /\ ToolFits(c)' /\ JobFits(c)'
  BY <1>9, Aborts, KeptIsSeen
<1>10. ~StartFormat(c) /\ ~CommitTimesOut(c)
  BY NoMore
<1> QED BY <1>1, <1>2, <1>3, <1>4, <1>5, <1>6, <1>7, <1>8, <1>9, <1>10 DEF ToolNext

LEMMA UndoIsSeen ==
  ASSUME Sequential, TypeOK, TypeOK', HistInv, NEW c \in Calls, UndoNext(c)
  PROVE  Seen /\ ToolFits(c)' /\ JobFits(c)'
<1>1. ASSUME NothingLeft(c) \/ \E op \in {"undo", "redo"}, k \in 1..MaxSteps : StartUndo(c, op, k)
      PROVE  Seen /\ ToolFits(c)' /\ JobFits(c)'
  BY <1>1, QuietUndo, KeptIsSeen
<1>2. ASSUME List(c) PROVE Seen /\ ToolFits(c)' /\ JobFits(c)'
  BY <1>2, Lists, KeptIsSeen
<1>3. ASSUME NEW n \in Numbers, Discard(c, n) PROVE Seen /\ ToolFits(c)' /\ JobFits(c)'
  BY <1>3, Discards, KeptIsSeen
<1>4. ASSUME NEW n \in Numbers, NothingToDo(c, n) PROVE Seen /\ ToolFits(c)' /\ JobFits(c)'
  <2>1. Images' /\ (History!Undo \/ History!Redo) /\ ToolFits(c)' /\ JobFits(c)'
    BY <1>4, DoesNothing
  <2> QED BY <2>1 DEF Seen, History!Next
<1>5. ASSUME NEW n \in Numbers, StartRestore(c, n) PROVE Seen /\ ToolFits(c)' /\ JobFits(c)'
  BY <1>5, StartsRestore, KeptIsSeen
<1>6. ASSUME RestoreFile(c) PROVE Seen /\ ToolFits(c)' /\ JobFits(c)'
  BY <1>6, RestoresFile, KeptIsSeen
<1>7. ASSUME Mark(c) PROVE Seen /\ ToolFits(c)' /\ JobFits(c)'
  <2>1. Images' /\ (History!Undo \/ History!Redo) /\ ToolFits(c)' /\ JobFits(c)'
    BY <1>7, Marks
  <2> QED BY <2>1 DEF Seen, History!Next
<1>8. ~RestoreFails(c)
  BY NoMore
<1>9. 1 \in 1..MaxSteps
  BY UndoAssumption
<1>10. CASE (\E k \in 1..MaxSteps : StartUndo(c, "undo", k)) \/ StartUndo(c, "redo", 1) \/ NothingLeft(c)
  <2>1. NothingLeft(c) \/ \E op \in {"undo", "redo"}, k \in 1..MaxSteps : StartUndo(c, op, k)
    BY <1>9, <1>10
  <2> QED BY <1>1, <2>1
<1> QED BY <1>2, <1>3, <1>4, <1>5, <1>6, <1>7, <1>8, <1>10 DEF UndoNext

LEMMA StepSeen ==
  ASSUME Sequential, TypeOK, TypeOK', HistInv, [Next]_vars
  PROVE  HistInv' /\ [History!Next]_<<PastImages, PresentImage, FutureImages>>
<1>1. ASSUME NEW c \in Calls, ToolNext(c) \/ UndoNext(c)
      PROVE  HistInv' /\ Seen
  <2>1. Seen /\ ToolFits(c)' /\ JobFits(c)'
    BY <1>1, ToolSeen, UndoIsSeen
  <2>2. \A d \in Calls : d = c
    BY DEF Sequential
  <2>3. \A d \in Calls : ToolFits(d)' /\ JobFits(d)'
    BY <2>1, <2>2
  <2> QED BY <2>1, <2>3 DEF HistInv, Seen
<1>2. ASSUME UNCHANGED vars
      PROVE  HistInv' /\ UNCHANGED <<PastImages, PresentImage, FutureImages>>
  <2>1. /\ disk' = disk /\ store' = store /\ open' = open /\ pc' = pc /\ job' = job
        /\ phase' = phase /\ wrote' = wrote /\ cur' = cur
    BY <1>2 DEF vars, volatile
  <2>2. Done' = Done /\ Undone' = Undone /\ Changes' = Changes
    BY <2>1 DEF Done, Undone, Changes, Under, Uncommitted, Clearing, ClearsRedo, ManifestRead, Recs
  <2>3. PresentImage' = PresentImage
    BY <2>1 DEF PresentImage, Uncommitted, Put, Of, Recs
  <2>4. Once(Changes) /\ Once(Changes)'
    BY <2>2 DEF HistInv, Images, Once
  <2>5. Images' /\ UNCHANGED <<PastImages, PresentImage, FutureImages>>
    BY <2>2, <2>3, <2>4, NothingSeen DEF HistInv, Kept
  <2>6. ASSUME NEW c \in Calls PROVE ToolFits(c)' /\ JobFits(c)'
    <3>1. ToolFits(c) /\ JobFits(c)
      BY DEF HistInv
    <3>2. OwnFits(c)'
      BY <2>1, <3>1 DEF ToolFits, OwnFits, Newest, Present, Recs
    <3>3. NextFits(c)'
      BY <2>1, <3>1 DEF ToolFits, NextFits, Recs, Record
    <3>4. PlaceFits(c)'
      BY <2>1, <3>1 DEF ToolFits, PlaceFits, Newest, Present, Recs
    <3>5. JobFits(c)'
      BY <2>1, <2>2, <3>1 DEF JobFits, Recs
    <3> QED BY <3>2, <3>3, <3>4, <3>5 DEF ToolFits
  <2> QED BY <2>5, <2>6 DEF HistInv
<1>3. ~Crash /\ ~Edit
  BY NoTroubles
<1>4. CASE Next
  <2>1. PICK c \in Calls : ToolNext(c) \/ UndoNext(c)
    BY <1>3, <1>4 DEF Next
  <2>2. HistInv' /\ Seen
    BY <1>1, <2>1
  <2> QED BY <2>2 DEF Seen
<1> QED BY <1>2, <1>4

LEMMA FirstSeen ==
  ASSUME Init
  PROVE  HistInv /\ History!Init
<1>1. Done = {} /\ Undone = {} /\ Uncommitted = {} /\ \A n \in Numbers : Changes[n] = {}
  BY DEF Init, NoTxn, Done, Undone, Under, Uncommitted, Clearing, Changes, Recs, Range
<1>2. PresentImage = Put(disk, {}, "before")
  <2>1. UNION {Range(Recs(n)) : n \in Uncommitted} = {}
    BY <1>1
  <2>2. ~\E c \in Calls : pc[c] = "Restore"
    BY DEF Init
  <2> QED BY <2>1, <2>2 DEF PresentImage
<1>3. PresentImage \in Image
  <2>1. disk \in Image
    BY DEF Init, Image
  <2> QED BY <1>2, <2>1, PutIs
<1>4. Images
  BY <1>1 DEF Images, Once, Linked, LinkedAhead
<1>5. \A c \in Calls : ToolFits(c) /\ JobFits(c)
  BY DEF Init, ToolFits, OwnFits, NextFits, PlaceFits, JobFits
<1>6. PastImages = <<>> /\ FutureImages = <<>>
  <2>1. Cardinality({}) = 0 /\ 1..0 = {}
    BY FS_EmptySet
  <2> QED BY <1>1, <2>1 DEF PastImages, FutureImages
<1> QED BY <1>3, <1>4, <1>5, <1>6 DEF HistInv, History!Init

\* One call after the other, without crashes, mishaps and prunes, what a user sees of the
\* store is a history of images, however many files, contents and transactions there are:
\* a commit with records is its write, a transaction that is marked or has nothing left to
\* do its undo or its redo, and every other step none.
THEOREM HistoryKept == Sequential => (Spec => HistoryIsKept)
<1> SUFFICES ASSUME Sequential PROVE Spec => HistoryIsKept
  OBVIOUS
<1>1. Init => HistInv /\ History!Init
  BY FirstSeen
<1>2. TypeOK /\ TypeOK' /\ HistInv /\ [Next]_vars
        => HistInv' /\ [History!Next]_<<PastImages, PresentImage, FutureImages>>
  BY StepSeen
<1> QED BY TypeCorrect, <1>1, <1>2, PTL DEF Spec, HistoryIsKept, History!Spec, History!history

=============================================================================
