--------------------------- MODULE UndoRefinement ---------------------------
(***************************************************************************)
(* UndoLog implements UndoHistory, as long as nobody but one call after    *)
(* the other touches the project and the store: the images of the past and *)
(* of the future are what the manifests make of the files on disk.         *)
(***************************************************************************)
EXTENDS UndoLog, SequencesExt

\* What a set of records says of a file.
Of(recs, f) == CHOOSE r \in recs : r.path = f

\* The files of a transaction as they were before or after it.
Put(img, recs, side) ==
    [f \in Files |-> IF \E r \in recs : r.path = f THEN Of(recs, f)[side] ELSE img[f]]

Changes == [n \in Numbers |-> Range(Recs(n))]

\* A transaction counts from the start of its commit on, one without a manifest never.
Uncommitted == {open[c] : c \in {d \in Calls : pc[d] # "Commit"}} \ {0}
Clearing == \E c \in Calls : pc[c] = "Commit" /\ ClearsRedo(c)

Done == {n \in Under("txn") \ Uncommitted : ~store[n].torn}
Undone == IF Clearing THEN {} ELSE {n \in Under("undone") : ~store[n].torn}

\* The files without what the call in progress has done so far.
PresentImage ==
    IF \E c \in Calls : pc[c] = "Restore"
    THEN LET j == job[CHOOSE c \in Calls : pc[c] = "Restore"]
         IN  Put(disk, Range(Recs(j.n)), IF j.op = "undo" THEN "after" ELSE "before")
    ELSE Put(disk, UNION {Range(Recs(n)) : n \in Uncommitted}, "before")

Touching(txns, changes, f) == {n \in txns : \E r \in changes[n] : r.path = f}

\* When n and all after it are undone, a file is what the first of these found.
Back(txns, changes, img, n) ==
    [f \in Files |->
        LET later == {m \in Touching(txns, changes, f) : n <= m}
        IN  IF later = {} THEN img[f] ELSE Of(changes[Min(later)], f).before]

\* When n and all before it are redone, a file is what the last of these left.
Ahead(txns, changes, img, n) ==
    [f \in Files |->
        LET earlier == {m \in Touching(txns, changes, f) : m <= n}
        IN  IF earlier = {} THEN img[f] ELSE Of(changes[Max(earlier)], f).after]

\* The numbers of a set in ascending order.
Nth(S, i) == CHOOSE n \in S : Cardinality({m \in S : m <= n}) = i

PastImages ==
    [i \in 1..Cardinality(Done) |-> Back(Done, Changes, PresentImage, Nth(Done, i))]
FutureImages ==
    [i \in 1..Cardinality(Undone) |-> Ahead(Undone, Changes, PresentImage, Nth(Undone, i))]

History == INSTANCE UndoHistory
    WITH past <- PastImages, present <- PresentImage, future <- FutureImages

\* What a user sees of the store are writes, undos and redos of whole transactions:
\* undo goes back to the image before the latest one, redo forward in the order of the
\* writes, and a new write drops what was undone (undo.rs:1-52).
HistoryIsKept == History!Spec
=============================================================================
