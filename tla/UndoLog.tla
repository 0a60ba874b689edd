------------------------------- MODULE UndoLog -------------------------------
(***************************************************************************)
(* The undo store (supervisor/src/undo.rs) and the writing tools that feed *)
(* it (execute_tool in supervisor/src/lib.rs): a directory txn-N for every *)
(* tool call, whose manifest names what each file held before and after,   *)
(* written before the file itself.  Undo renames it to undone-N, redo back *)
(* to txn-N, and a transaction that does not fit the files on disk is put  *)
(* aside as discarded-N.                                                   *)
(*                                                                         *)
(* A step is one operation on the file system; the renames and the atomic  *)
(* writes are single steps, and so is the removal of a directory.          *)
(***************************************************************************)
EXTENDS Naturals, Sequences, FiniteSets, FiniteSetsExt, Functions

CONSTANTS
    Calls,          \* tool calls in progress at a time
    Ops,            \* those of {"undo", "redo", "list"} that are called beside writing tools
    Files, Contents,
    Absent,         \* a file that does not exist
    None,
    MaxN,           \* bound: the largest transaction number
    MaxTxns,        \* MAX_TXNS (20)
    MaxSteps,       \* bound: the largest `steps` of an undo
    MaxTroubles     \* bound: crashes and mishaps together

ASSUME UndoAssumption ==
    /\ None \notin Calls /\ Ops \subseteq {"undo", "redo", "list"}
    /\ Absent \notin Contents
    /\ {MaxN, MaxTxns, MaxTroubles} \subseteq Nat /\ MaxSteps \in Nat \ {0}

Numbers == 1..MaxN
Image == [Files -> Contents \cup {Absent}]

\* A FileRec: `created` is before = Absent.  Hashes are the contents themselves.
Rec == [path : Files, before : Contents \cup {Absent}, after : Contents]

NoTxn == [at |-> "none", torn |-> FALSE, recs |-> <<>>]

VARIABLES
    disk,       \* the files of the project
    store,      \* the directory of each number: its prefix, its manifest (or none: torn)
    open,       \* OPEN_TXNS: the number a call has opened, 0 for none
    gate,       \* who holds the write gate
    pc,
    phase,      \* of a writer: its tool, or the formatter that runs after it
    wrote,      \* of a writer: the files it has written
    cur,        \* of a writer: the record of its next write, and the number it allocates
    job,        \* of an undoer: what it does, how often, and where it is
    crashes,    \* ends of the daemon so far
    mishaps,    \* edits from outside, failures half-way, expiries, runs of the formatter
    reused      \* history: whether a number was given out while a call had it open

volatile == <<open, gate, pc, phase, wrote, cur, job>>
budgets == <<crashes, mishaps, reused>>
vars == <<disk, store, volatile, budgets>>

NoWrite == [path |-> None, before |-> Absent, after |-> Absent, n |-> 0]
NoJob == [op |-> "undo", left |-> 0, n |-> 0, recs |-> <<>>]

\* The places at which a call holds the gate, and the others.
GatedPcs == {"Work", "Record", "Manifest", "Write", "Commit", "Top", "Restore"}
FreePcs == {"Idle", "Unlocked", "Abort"}

TypeOK ==
    /\ disk \in Image
    /\ store \in [Numbers -> [at : {"none", "txn", "undone", "discarded"},
                               torn : BOOLEAN, recs : Seq(Rec)]]
    /\ \A n \in Numbers : store[n].torn \/ store[n].at = "none" => store[n].recs = <<>>
    /\ open \in [Calls -> 0..MaxN]
    /\ gate \in Calls \cup {None}
    /\ pc \in [Calls -> GatedPcs \cup FreePcs]
    /\ \A c \in Calls : gate = c <=> pc[c] \in GatedPcs
    /\ phase \in [Calls -> {"tool", "format", "formatted"}]
    /\ wrote \in [Calls -> SUBSET Files]
    /\ cur \in [Calls -> [path : Files \cup {None}, before : Contents \cup {Absent},
                           after : Contents \cup {Absent}, n : 0..MaxN]]
    /\ \A w \in Calls : pc[w] \in {"Record", "Manifest", "Write"} =>
        cur[w].path \in Files /\ cur[w].after \in Contents
    /\ job \in [Calls -> [op : {"undo", "redo"}, left : 0..MaxSteps, n : 0..MaxN, recs : Seq(Rec)]]
    /\ \A u \in Calls :
        /\ pc[u] = "Restore" <=> job[u].n # 0
        /\ pc[u] = "Restore" => job[u].left > 0
    /\ crashes \in Nat /\ mishaps \in Nat /\ crashes + mishaps <= MaxTroubles
    /\ reused \in BOOLEAN

\* Files come to be by tools and edits.
Init ==
    /\ disk = [f \in Files |-> Absent]
    /\ store = [n \in Numbers |-> NoTxn]
    /\ open = [w \in Calls |-> 0]
    /\ gate = None
    /\ pc = [c \in Calls |-> "Idle"]
    /\ phase = [w \in Calls |-> "tool"]
    /\ wrote = [w \in Calls |-> {}]
    /\ cur = [w \in Calls |-> NoWrite]
    /\ job = [u \in Calls |-> NoJob]
    /\ crashes = 0 /\ mishaps = 0 /\ reused = FALSE

-----------------------------------------------------------------------------
(* The store.                                                              *)

Mishap == crashes + mishaps < MaxTroubles /\ mishaps' = mishaps + 1

Present(n) == store[n].at # "none"
Under(prefix) == {n \in Numbers : store[n].at = prefix}
ManifestRead(n) == store[n].at = "txn" /\ ~store[n].torn

\* prune_at goes from the oldest on, until MaxTxns are left.  That it goes further,
\* because they are too old or too large, counts as a mishap; what came after a running
\* call opened its own transaction is neither.
Oldest(k) == {n \in Numbers : Present(n) /\ Cardinality({m \in 1..n : Present(m)}) <= k}
Excess == LET all == Cardinality({n \in Numbers : Present(n)})
          IN  IF all > MaxTxns THEN all - MaxTxns ELSE 0
Prune(k) ==
    \/ k = Excess /\ UNCHANGED mishaps
    \/ k > Excess /\ Mishap /\ \A n \in Oldest(k), w \in Calls : open[w] = 0 \/ n < open[w]
Pruned(k) == [n \in Numbers |-> IF n \in Oldest(k) THEN NoTxn ELSE store[n]]

\* alloc_txn_num: active, undone and discarded directories count.
AllocTxnNum(s) == 1 + Max({0} \cup {n \in Numbers : s[n].at # "none"})

\* Mutant of Classify: what was not written, or is already restored, is a conflict.
ClassifyAfterOnly(r) == IF disk[r.path] = r.after THEN "after" ELSE "external"

\* classify_for_undo and classify_for_redo: the content after the transaction is
\* looked at first.
Classify(r) ==
    IF disk[r.path] = r.after THEN "after"
    ELSE IF disk[r.path] = r.before THEN "before"
    ELSE "external"

Recs(n) == store[n].recs
Classes(n) == {Classify(r) : r \in Range(Recs(n))}

Rename(n, prefix) == store' = [store EXCEPT ![n].at = prefix]
RemoveDir(n) == store' = [store EXCEPT ![n] = NoTxn]

-----------------------------------------------------------------------------
(* The write gate.                                                         *)

Goto(c, place) == pc' = [pc EXCEPT ![c] = place]

Acquire(c) == gate = None /\ gate' = c
Release(c) == gate' = IF gate = c THEN None ELSE gate

\* A call that waits for the gate has done nothing yet, and has not when its wait of
\* 60 s is over; only the second acquisition of a tool call can time out.

-----------------------------------------------------------------------------
(* A writing tool.                                                         *)

StartTool(w) ==
    /\ pc[w] = "Idle" /\ Acquire(w)
    /\ Goto(w, "Work")
    /\ UNCHANGED <<disk, store, open, phase, wrote, cur, job, budgets>>

\* recorded_write reads the file.  A tool writes a file once; the formatter writes
\* one of the tool's files again.
ReadBefore(w, f, c) ==
    /\ pc[w] = "Work"
    /\ \/ phase[w] = "tool" /\ f \notin wrote[w] /\ phase' = phase
       \/ phase[w] = "format" /\ f \in wrote[w] /\ phase' = [phase EXCEPT ![w] = "formatted"]
    /\ cur' = [cur EXCEPT ![w] = [path |-> f, before |-> disk[f], after |-> c, n |-> 0]]
    /\ Goto(w, "Record")
    /\ UNCHANGED <<disk, store, open, gate, wrote, job, budgets>>

\* wal_open: prune, allocate a number, make the directory.  The number of a directory that
\* was removed is free again, whoever has it open.
MakeDir(w) ==
    /\ pc[w] = "Record" /\ open[w] = 0
    /\ \E k \in 0..MaxN :
        /\ Prune(k)
        /\ LET n == AllocTxnNum(Pruned(k)) IN
            /\ n <= MaxN
            /\ store' = [Pruned(k) EXCEPT ![n] = [at |-> "txn", torn |-> TRUE, recs |-> <<>>]]
            /\ cur' = [cur EXCEPT ![w].n = n]
            /\ reused' = (reused \/ \E v \in Calls : open[v] = n)
    /\ Goto(w, "Manifest")
    /\ UNCHANGED <<disk, open, gate, phase, wrote, job, crashes>>

\* wal_open: the empty manifest, and the entry in OPEN_TXNS.
WriteEmptyManifest(w) ==
    /\ pc[w] = "Manifest"
    /\ store' = [store EXCEPT ![cur[w].n].torn = FALSE]
    /\ open' = [open EXCEPT ![w] = cur[w].n]
    /\ Goto(w, "Record")
    /\ UNCHANGED <<disk, gate, phase, wrote, cur, job, budgets>>

\* wal_append: the directory is found by the number that was opened.
WalAppend(w) ==
    /\ pc[w] = "Record" /\ open[w] # 0 /\ ManifestRead(open[w])
    /\ store' = [store EXCEPT ![open[w]].recs =
                    Append(@, [path |-> cur[w].path, before |-> cur[w].before,
                               after |-> cur[w].after])]
    /\ Goto(w, "Write")
    /\ UNCHANGED <<disk, open, gate, phase, wrote, cur, job, budgets>>

WriteTarget(w) ==
    /\ pc[w] = "Write"
    /\ disk' = [disk EXCEPT ![cur[w].path] = cur[w].after]
    /\ wrote' = [wrote EXCEPT ![w] = @ \cup {cur[w].path}]
    /\ cur' = [cur EXCEPT ![w] = NoWrite]
    /\ Goto(w, "Work")
    /\ UNCHANGED <<store, open, gate, phase, job, budgets>>

\* The tool ends, or the formatter does; the gate is given back.
Return(w) ==
    /\ pc[w] = "Work"
    /\ Goto(w, "Unlocked") /\ Release(w)
    /\ UNCHANGED <<disk, store, open, phase, wrote, cur, job, budgets>>

\* format_on_write_for: a second turn under the gate, in the same transaction.
StartFormat(w) ==
    /\ pc[w] = "Unlocked" /\ phase[w] = "tool" /\ wrote[w] # {}
    /\ Mishap
    /\ Acquire(w)
    /\ phase' = [phase EXCEPT ![w] = "format"]
    /\ Goto(w, "Work")
    /\ UNCHANGED <<disk, store, open, wrote, cur, job, crashes, reused>>

\* Mutant of Fail: the gate is kept.
FailKeepsGate(w) ==
    /\ pc[w] \in {"Work", "Record", "Manifest", "Write"}
    /\ wrote[w] = {}
    /\ Goto(w, "Abort")
    /\ UNCHANGED <<disk, store, open, gate, phase, wrote, cur, job, budgets>>

\* An error of the file system, of the language server, of the tool.  That of the
\* formatter is swallowed.  It is a mishap when files have been written.
Fail(w) ==
    /\ pc[w] \in {"Work", "Record", "Manifest", "Write"}
    /\ IF wrote[w] = {} \/ phase[w] # "tool"
       THEN UNCHANGED mishaps
       ELSE Mishap
    /\ cur' = [cur EXCEPT ![w] = NoWrite]
    /\ Goto(w, IF phase[w] = "tool" THEN "Abort" ELSE "Unlocked")
    /\ Release(w)
    /\ UNCHANGED <<disk, store, open, phase, wrote, job, crashes, reused>>

\* execute_tool takes the gate again for the commit.
StartCommit(w) ==
    /\ pc[w] = "Unlocked" /\ Acquire(w)
    /\ Goto(w, "Commit")
    /\ UNCHANGED <<disk, store, open, phase, wrote, cur, job, budgets>>

\* That acquisition times out: the TxnGuard aborts.
CommitTimesOut(w) ==
    /\ pc[w] = "Unlocked" /\ gate # None
    /\ IF wrote[w] = {}
       THEN UNCHANGED mishaps
       ELSE Mishap
    /\ Goto(w, "Abort")
    /\ UNCHANGED <<disk, store, open, gate, phase, wrote, cur, job, crashes, reused>>

EndTool(w) ==
    /\ open' = [open EXCEPT ![w] = 0]
    /\ phase' = [phase EXCEPT ![w] = "tool"]
    /\ wrote' = [wrote EXCEPT ![w] = {}]
    /\ Goto(w, "Idle")

\* commit_at: a transaction with records removes what was undone, one directory at a
\* time, and any other does nothing.
ClearsRedo(w) == open[w] # 0 /\ ManifestRead(open[w]) /\ Recs(open[w]) # <<>>

RemoveUndone(w) ==
    /\ pc[w] = "Commit" /\ ClearsRedo(w)
    /\ \E n \in Under("undone") : RemoveDir(n)
    /\ UNCHANGED <<disk, volatile, budgets>>

Commit(w) ==
    /\ pc[w] = "Commit"
    /\ ClearsRedo(w) => Under("undone") = {}
    /\ EndTool(w) /\ Release(w)
    /\ UNCHANGED <<disk, store, cur, job, budgets>>

\* Mutant of Abort: the latest transaction is removed.
AbortLatest(w) ==
    /\ pc[w] = "Abort"
    /\ IF open[w] # 0 /\ Under("txn") # {}
       THEN RemoveDir(Max(Under("txn"))) ELSE UNCHANGED store
    /\ EndTool(w)
    /\ UNCHANGED <<disk, gate, cur, job, budgets>>

\* abort removes the directory of the number that was opened, whoever holds the gate.
Abort(w) ==
    /\ pc[w] = "Abort"
    /\ IF open[w] # 0 /\ store[open[w]].at = "txn" THEN RemoveDir(open[w]) ELSE UNCHANGED store
    /\ EndTool(w)
    /\ UNCHANGED <<disk, gate, cur, job, budgets>>

-----------------------------------------------------------------------------
(* undo and redo.  They differ in the prefix they look for and the one they *)
(* leave, in the end of the stack they take from, and in what ends them.    *)

From(op) == IF op = "undo" THEN "txn" ELSE "undone"
To(op) == IF op = "undo" THEN "undone" ELSE "txn"
Side(op) == IF op = "undo" THEN "before" ELSE "after"

\* Mutant of Candidate: redo begins with the latest transaction as well.
CandidateLatest(op) == Max(Under(From(op)))

\* top_active and bottom_undone.
Candidate(op) == IF op = "undo" THEN Max(Under("txn")) ELSE Min(Under("undone"))

StartUndo(u, op, k) ==
    /\ pc[u] = "Idle" /\ op \in Ops /\ Acquire(u)
    /\ job' = [job EXCEPT ![u] = [op |-> op, left |-> k, n |-> 0, recs |-> <<>>]]
    /\ Goto(u, "Top")
    /\ UNCHANGED <<disk, store, open, phase, wrote, cur, budgets>>

EndUndo(u) ==
    /\ job' = [job EXCEPT ![u] = NoJob]
    /\ Goto(u, "Idle") /\ Release(u)

\* list_at prunes under the gate.
List(u) ==
    /\ pc[u] = "Idle" /\ "list" \in Ops /\ gate = None
    /\ \E k \in 0..MaxN : Prune(k) /\ store' = Pruned(k)
    /\ UNCHANGED <<disk, volatile, crashes, reused>>

NothingLeft(u) ==
    /\ pc[u] = "Top"
    /\ job[u].left = 0 \/ Under(From(job[u].op)) = {}
    /\ EndUndo(u)
    /\ UNCHANGED <<disk, store, open, phase, wrote, cur, budgets>>

\* u is about to work on transaction n.
Works(u, n) ==
    /\ pc[u] = "Top" /\ job[u].left > 0
    /\ Under(From(job[u].op)) # {} /\ n = Candidate(job[u].op)

Counted(u, left) == job' = [job EXCEPT ![u].left = left]

\* A transaction without a manifest, or that does not fit the disk, is put aside.
\* The latter ends an undo; a redo goes on.
Discard(u, n) ==
    /\ Works(u, n) /\ (store[n].torn \/ "external" \in Classes(n))
    /\ Rename(n, "discarded")
    /\ Counted(u, IF job[u].op = "undo" /\ ~store[n].torn THEN 0 ELSE job[u].left)
    /\ UNCHANGED <<disk, open, gate, pc, phase, wrote, cur, budgets>>

\* NothingToRevert, which is no step of an undo, and NothingToReplay, which ends a redo.
NothingToDo(u, n) ==
    /\ Works(u, n) /\ ~store[n].torn /\ Classes(n) \subseteq {Side(job[u].op)}
    /\ Rename(n, To(job[u].op))
    /\ Counted(u, IF job[u].op = "undo" THEN job[u].left ELSE 0)
    /\ UNCHANGED <<disk, open, gate, pc, phase, wrote, cur, budgets>>

StartRestore(u, n) ==
    /\ Works(u, n) /\ ~store[n].torn /\ "external" \notin Classes(n)
    /\ ~(Classes(n) \subseteq {Side(job[u].op)})
    /\ job' = [job EXCEPT ![u].n = n, ![u].recs = Recs(n)]
    /\ Goto(u, "Restore")
    /\ UNCHANGED <<disk, store, open, gate, phase, wrote, cur, budgets>>

\* restore_before, or the replay of `after`, in the order of the records.
RestoreFile(u) ==
    /\ pc[u] = "Restore" /\ job[u].recs # <<>>
    /\ LET r == Head(job[u].recs) IN
        disk' = [disk EXCEPT ![r.path] = IF job[u].op = "undo" THEN r.before ELSE r.after]
    /\ job' = [job EXCEPT ![u].recs = Tail(@)]
    /\ UNCHANGED <<store, open, gate, pc, phase, wrote, cur, budgets>>

\* mark_undone, mark_active.
Mark(u) ==
    /\ pc[u] = "Restore" /\ job[u].recs = <<>>
    /\ store[job[u].n].at = From(job[u].op)
    /\ Rename(job[u].n, To(job[u].op))
    /\ job' = [job EXCEPT ![u].left = @ - 1, ![u].n = 0]
    /\ Goto(u, "Top")
    /\ UNCHANGED <<disk, open, gate, phase, wrote, cur, budgets>>

\* A mishap, unless an abort has taken the directory away.
RestoreFails(u) ==
    /\ pc[u] = "Restore"
    /\ IF store[job[u].n].at = From(job[u].op) THEN Mishap ELSE UNCHANGED mishaps
    /\ EndUndo(u)
    /\ UNCHANGED <<disk, store, open, phase, wrote, cur, crashes, reused>>

-----------------------------------------------------------------------------
(* The environment.                                                        *)

\* The daemon ends, at any point, and another one starts.
Crash ==
    /\ crashes + mishaps < MaxTroubles /\ crashes' = crashes + 1
    /\ open' = [w \in Calls |-> 0]
    /\ gate' = None
    /\ pc' = [c \in Calls |-> "Idle"]
    /\ phase' = [w \in Calls |-> "tool"]
    /\ wrote' = [w \in Calls |-> {}]
    /\ cur' = [w \in Calls |-> NoWrite]
    /\ job' = [u \in Calls |-> NoJob]
    /\ UNCHANGED <<disk, store, mishaps, reused>>

\* An editor knows nothing of the gate.
Edit ==
    /\ Mishap
    /\ \E f \in Files, c \in Contents \cup {Absent} : disk' = [disk EXCEPT ![f] = c]
    /\ UNCHANGED <<store, volatile, crashes, reused>>

-----------------------------------------------------------------------------
ToolNext(w) ==
    \/ StartTool(w)
    \/ \E f \in Files, c \in Contents : ReadBefore(w, f, c)
    \/ MakeDir(w) \/ WriteEmptyManifest(w) \/ WalAppend(w) \/ WriteTarget(w)
    \/ Return(w) \/ StartFormat(w) \/ Fail(w)
    \/ StartCommit(w) \/ CommitTimesOut(w) \/ RemoveUndone(w) \/ Commit(w) \/ Abort(w)

UndoNext(u) ==
    \/ \E k \in 1..MaxSteps : StartUndo(u, "undo", k)
    \/ StartUndo(u, "redo", 1)
    \/ List(u) \/ NothingLeft(u)
    \/ \E n \in Numbers : Discard(u, n) \/ NothingToDo(u, n) \/ StartRestore(u, n)
    \/ RestoreFile(u) \/ RestoreFails(u) \/ Mark(u)

Next == (\E c \in Calls : ToolNext(c) \/ UndoNext(c)) \/ Crash \/ Edit

Spec == Init /\ [][Next]_vars

-----------------------------------------------------------------------------
(* Properties.                                                             *)

\* Whatever a tool or an undo does to a file is in a manifest beforehand, so that no end
\* of the daemon leaves a change without a record (undo.rs:17-20).  The steps that count
\* a mishap are the edits from outside.  It is not so in two cases: after a number was
\* given out that another call still had open, and when the abort of a tool, which does
\* not wait for the gate, has removed the transaction that an undo is restoring.
WalFirst ==
    [][\A f \in Files : disk'[f] # disk[f] /\ mishaps' = mishaps /\ ~reused =>
        \/ \E n \in Numbers, r \in Rec :
            /\ r \in Range(Recs(n)) /\ r.path = f
            /\ disk'[f] \in {r.before, r.after}
        \/ \E u \in Calls : pc[u] = "Restore" /\ ~Present(job[u].n)]_vars

\* With nobody but the tools and undo at work, and no number given to two calls, the
\* transaction that an undo takes first always fits the disk, wherever the daemon was cut
\* off, whoever else was writing, and whether the tools of the transactions it undoes had
\* ended: no change is put aside as a conflict that nobody caused (undo.rs:21-29).  A redo
\* that is cut off does break it.
TopIsUndoable ==
    mishaps = 0 /\ ~reused /\ gate = None /\ Under("txn") # {}
        => "external" \notin Classes(Max(Under("txn")))

=============================================================================
