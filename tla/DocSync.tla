------------------------------- MODULE DocSync -------------------------------
(***************************************************************************)
(* The documents a session keeps open in its language server               *)
(* (lsp-core/src/docsync.rs): a table under a lock, with the time stamp    *)
(* and the version of what was last announced, and the number of guards;   *)
(* notifications that leave after the lock is given back; files that       *)
(* nobody guards any more and that stay open until they are evicted.       *)
(*                                                                         *)
(* A step is one critical section of the table, one operation on the file  *)
(* system, or one message.  didOpen, didChange, didClose and the requests  *)
(* on documents are all High, and leave in the order they are sent in      *)
(* (PriorityWriter), so that a message takes effect where it is sent.      *)
(* WritePath adds the tools that use the table.                            *)
(***************************************************************************)
EXTENDS Naturals, Sequences, FiniteSets, SequencesExt

CONSTANTS
    Callers,        \* tool calls in progress at a time
    Files,
    None,
    Capacity,       \* FILE_BUFFER_CAPACITY (32)
    MaxTroubles     \* bound: refused messages, evictions and edits from outside together

ASSUME DocSyncAssumption ==
    /\ None \notin Callers \cup Files
    /\ IsFiniteSet(Callers) /\ IsFiniteSet(Files)
    /\ Capacity \in Nat \ {0} /\ MaxTroubles \in Nat

VARIABLES
    disk,       \* a file: whether it is there, and its stamp, new with every write of it
    buffers,    \* Session.buffers
    released,   \* the files without a guard, in the order of last_released_at
    view,       \* what the language server has of a document
    opening,    \* the ensure_open a call is in, or how its last one ended
    guards,     \* the FileGuards of a call
    closing,    \* the documents a call has taken from the table and has not yet closed
    over,       \* the outbound channel is closed
    crossed,    \* files on which one call has acted within the steps of another
    troubles

syncVars == <<buffers, released, view, opening, guards, closing, crossed>>
docVars == <<disk, syncVars, over, troubles>>

\* A stamp stands for mtime and size, and for the text read under it.
NoBuffer == [stamp |-> 0, version |-> 0, refs |-> 0, resync |-> FALSE]
Unseen == [open |-> FALSE, text |-> 0, version |-> 0]

Ended(how) ==
    [phase |-> how, file |-> None, stat |-> 0, snap |-> NoBuffer, text |-> 0, version |-> 0]

Buffered == {f \in Files : buffers[f] # NoBuffer}
Phases == {"read", "book", "send", "rollback", "settle", "close"}
InPhase(c, f, phases) == opening[c].file = f /\ opening[c].phase \in phases

\* The calls that have changed the entry of f and not yet told the language server, or
\* not yet written down how that went.
Due(f) == {c \in Callers : InPhase(c, f, {"send", "rollback", "settle"}) \/ f \in closing[c]}

\* How often a call counts in the entry of f, and all of them together.
Held(c, f) ==
    guards[c][f] + (IF InPhase(c, f, {"send", "rollback", "settle", "close"}) THEN 1 ELSE 0)
Holders(f) == Cardinality(UNION {{c} \X (1..Held(c, f)) : c \in Callers})

Buffers == [stamp : Nat, version : Nat, refs : Nat, resync : BOOLEAN]
Openings == [phase : Phases \cup {"ok", "err"}, file : Files \cup {None}, stat : Nat,
             snap : Buffers, text : Nat, version : Nat]

DocTypeOK ==
    /\ disk \in [Files -> [there : BOOLEAN, stamp : Nat]]
    /\ buffers \in [Files -> Buffers]
    /\ released \in Seq(Files) /\ IsInjective(released)
    /\ ToSet(released) = {f \in Buffered : buffers[f].refs = 0}
    /\ view \in [Files -> [open : BOOLEAN, text : Nat, version : Nat]]
    /\ opening \in [Callers -> Openings]
    /\ \A c \in Callers :
        IF opening[c].phase \in Phases THEN opening[c].file \in Files
        ELSE opening[c] = Ended(opening[c].phase)
    /\ guards \in [Callers -> [Files -> Nat]]
    /\ closing \in [Callers -> SUBSET Files]
    /\ over \in BOOLEAN /\ crossed \subseteq Files /\ troubles \in 0..MaxTroubles

DocInit ==
    /\ disk = [f \in Files |-> [there |-> TRUE, stamp |-> 1]]
    /\ buffers = [f \in Files |-> NoBuffer]
    /\ released = <<>>
    /\ view = [f \in Files |-> Unseen]
    /\ opening = [c \in Callers |-> Ended("ok")]
    /\ guards = [c \in Callers |-> [f \in Files |-> 0]]
    /\ closing = [c \in Callers |-> {}]
    /\ over = FALSE /\ crossed = {} /\ troubles = 0

-----------------------------------------------------------------------------
(* Messages.                                                               *)

Trouble == troubles < MaxTroubles /\ troubles' = troubles + 1

\* A message is taken by the channel, or refused: the channel is full, which is a
\* trouble, or closed.
Taken == ~over /\ UNCHANGED troubles
Refused == \/ ~over /\ Trouble
           \/ over /\ UNCHANGED troubles

\* Whoever acts on f while another call is due on f may come before that call's message.
Cross(c, f) == crossed' = IF Due(f) \ {c} # {} THEN crossed \cup {f} ELSE crossed

Goto(c, phase) == opening' = [opening EXCEPT ![c].phase = phase]

-----------------------------------------------------------------------------
(* ensure_open.                                                            *)

\* fs::metadata, once, before the loop; it fails for a file that is not there.
Stat(c, f) ==
    opening' = [opening EXCEPT ![c] =
        IF disk[f].there
        THEN [Ended("ok") EXCEPT !.phase = "read", !.file = f, !.stat = disk[f].stamp]
        ELSE Ended("err")]

\* What the second look at the table compares with the first.
Snapshot(f) == [buffers[f] EXCEPT !.refs = IF f \in Buffered THEN 1 ELSE 0]

\* The entry fits the file, and no didChange is missing.
IsUnchanged(snap, stat) == snap.stamp = stat /\ ~snap.resync

\* The snapshot, and the file unless the entry fits.  Between the two of them nothing
\* matters that the second look at the table does not find.
Read(c) ==
    /\ opening[c].phase = "read"
    /\ LET o == opening[c] f == o.file snap == Snapshot(f) d == disk[f] IN
        opening' = [opening EXCEPT ![c] =
            IF IsUnchanged(snap, o.stat) THEN [o EXCEPT !.phase = "book", !.snap = snap, !.text = 0]
            ELSE IF d.there THEN [o EXCEPT !.phase = "book", !.snap = snap, !.text = d.stamp]
            ELSE Ended("err")]
    /\ UNCHANGED <<disk, buffers, released, view, guards, closing, over, crossed, troubles>>

\* Others have changed the entry since the snapshot.
Drift(c) ==
    /\ opening[c].phase = "book" /\ Snapshot(opening[c].file) # opening[c].snap
    /\ Goto(c, "read")
    /\ UNCHANGED <<disk, buffers, released, view, guards, closing, over, crossed, troubles>>

\* Mutant of NeedEvict: the file that is being opened is not counted.
NeedEvictOneLess(n) == IF n <= Capacity THEN 0 ELSE n - Capacity

\* evict_lru_idle_locked: room for one more, as far as there are files without a guard.
NeedEvict(n) == IF n < Capacity THEN 0 ELSE n - (Capacity - 1)

\* A file that is new to the table; those released longest ago make room for it.
BookNew(c) ==
    /\ opening[c].phase = "book" /\ Snapshot(opening[c].file) = opening[c].snap
    /\ opening[c].file \notin Buffered
    /\ LET o == opening[c]
           f == o.file
           need == NeedEvict(Cardinality(Buffered) + 1)
           k == IF need < Len(released) THEN need ELSE Len(released)
           gone == ToSet(SubSeq(released, 1, k))
           new == [stamp |-> o.stat, version |-> 1, refs |-> 1, resync |-> FALSE]
       IN
        /\ buffers' = [g \in Files |-> IF g = f THEN new ELSE IF g \in gone THEN NoBuffer
                                        ELSE buffers[g]]
        /\ released' = SubSeq(released, k + 1, Len(released))
        /\ closing' = [closing EXCEPT ![c] = gone]
        /\ crossed' = crossed \cup {g \in {f} \cup gone : Due(g) \ {c} # {}}
        /\ opening' = [opening EXCEPT ![c] = [o EXCEPT !.phase = "send", !.version = 1]]
    /\ UNCHANGED <<disk, view, guards, over, troubles>>

\* Mutant of NextVersion: a new text keeps the version.
NextVersionKept(b) == b.version

NextVersion(b) == b.version + 1

\* The others stay in their order.
Without(s, f) ==
    IF f \in ToSet(s) THEN RemoveAt(s, CHOOSE i \in DOMAIN s : s[i] = f) ELSE s

\* One more guard; the new text, if there is one, gets the next version.
BookAgain(c) ==
    /\ opening[c].phase = "book" /\ Snapshot(opening[c].file) = opening[c].snap
    /\ opening[c].file \in Buffered
    /\ LET o == opening[c] f == o.file b == buffers[f] IN
        /\ released' = Without(released, f)
        /\ Cross(c, f)
        /\ IF o.text = 0
           THEN /\ buffers' = [buffers EXCEPT ![f].refs = @ + 1]
                /\ opening' = [opening EXCEPT ![c] = Ended("ok")]
                /\ guards' = [guards EXCEPT ![c][f] = @ + 1]
           ELSE /\ buffers' = [buffers EXCEPT ![f] = [stamp |-> o.stat, version |-> NextVersion(b),
                                                refs |-> b.refs + 1, resync |-> b.resync]]
                /\ opening' = [opening EXCEPT ![c] = [o EXCEPT !.phase = "send", !.version = NextVersion(b)]]
                /\ UNCHANGED guards
    /\ UNCHANGED <<disk, view, closing, over, troubles>>

\* didOpen for the first version of an entry, didChange for the others.
Announces(c) == IF opening[c].snap = NoBuffer THEN "didOpen" ELSE "didChange"

\* The guard is handed out.
Opened(c) ==
    /\ guards' = [guards EXCEPT ![c][opening[c].file] = @ + 1]
    /\ opening' = [opening EXCEPT ![c] = Ended("ok")]

\* The language server takes the text, unless it is a change of a document that it does
\* not have open.
Send(c) ==
    /\ opening[c].phase = "send" /\ Taken
    /\ LET o == opening[c] f == o.file IN
        /\ view' = [view EXCEPT ![f] =
                        IF Announces(c) = "didChange" /\ ~@.open THEN @
                        ELSE [open |-> TRUE, text |-> o.text, version |-> o.version]]
        /\ Cross(c, f)
    /\ IF Announces(c) = "didOpen" /\ closing[c] = {} THEN Opened(c)
       ELSE /\ Goto(c, IF Announces(c) = "didOpen" THEN "close" ELSE "settle")
            /\ UNCHANGED guards
    /\ UNCHANGED <<disk, buffers, released, closing, over>>

SendRefused(c) ==
    /\ opening[c].phase = "send" /\ Refused
    /\ Goto(c, "rollback")
    /\ UNCHANGED <<disk, buffers, released, view, guards, closing, over, crossed>>

\* The language server has what the entry says.
Settle(c) ==
    /\ opening[c].phase = "settle"
    /\ LET f == opening[c].file IN
        /\ buffers' = IF f \in Buffered THEN [buffers EXCEPT ![f].resync = FALSE] ELSE buffers
        /\ Cross(c, f)
    /\ Opened(c)
    /\ UNCHANGED <<disk, released, view, closing, over, troubles>>

\* Some guards less; the last one puts the file at the end of the released ones.
Less(f, k) == IF buffers[f].refs > k THEN buffers[f].refs - k ELSE 0
Released(f, refs) == IF refs = 0 THEN Append(Without(released, f), f) ELSE released

\* Mutant of RolledBack: the entry is not marked.
RolledBackUnmarked(b, method) == [b EXCEPT !.refs = @ - 1]

\* Mutant of RolledBack: the entry goes, whoever else holds it.
RolledBackToNothing(b, method) == NoBuffer

\* An entry that others hold as well stays, with a mark if the message was a change.
RolledBack(b, method) ==
    [b EXCEPT !.refs = IF @ > 0 THEN @ - 1 ELSE 0, !.resync = @ \/ method = "didChange"]

\* The message was refused: an entry that only this call holds goes.  What was evicted to
\* make room for it is not closed.
Rollback(c) ==
    /\ opening[c].phase = "rollback"
    /\ LET f == opening[c].file
           b == IF buffers[f].refs = 1 \/ f \notin Buffered THEN NoBuffer
                ELSE RolledBack(buffers[f], Announces(c))
       IN
        /\ buffers' = [buffers EXCEPT ![f] = b]
        /\ released' = IF b # NoBuffer THEN Released(f, b.refs) ELSE released
        /\ Cross(c, f)
    /\ opening' = [opening EXCEPT ![c] = Ended("err")]
    /\ closing' = [closing EXCEPT ![c] = {}]
    /\ UNCHANGED <<disk, view, guards, over, troubles>>

\* didClose of what was taken from the table; that it is refused is ignored.  For an
\* ensure_open it is the last thing to do.
CloseNext(c) ==
    /\ opening[c].phase \in {"ok", "err", "close"}
    /\ \E f \in closing[c] :
        /\ closing' = [closing EXCEPT ![c] = @ \ {f}]
        /\ \/ Taken /\ view' = [view EXCEPT ![f] = Unseen]
           \/ Refused /\ UNCHANGED view
        /\ Cross(c, f)
    /\ IF opening[c].phase = "close" /\ closing'[c] = {} THEN Opened(c)
       ELSE UNCHANGED <<opening, guards>>
    /\ UNCHANGED <<disk, buffers, released, over>>

OpenSteps(c) ==
    \/ Read(c) \/ Drift(c) \/ BookNew(c) \/ BookAgain(c)
    \/ Send(c) \/ SendRefused(c) \/ Settle(c) \/ Rollback(c) \/ CloseNext(c)

-----------------------------------------------------------------------------
(* The rest of the table's operations.                                     *)

\* FileGuard::drop, of k guards of a file; none of them fails for an entry that is gone.
DropGuards(c, f, k) ==
    /\ guards' = [guards EXCEPT ![c][f] = @ - k]
    /\ IF f \in Buffered
       THEN /\ buffers' = [buffers EXCEPT ![f].refs = Less(f, k)]
            /\ released' = Released(f, Less(f, k))
       ELSE UNCHANGED <<buffers, released>>

\* Some entries leave the table, and the rest of the released ones stay; their documents are closed after the lock.
TakeOut(c, gone, rest) ==
    /\ buffers' = [g \in Files |-> IF g \in gone THEN NoBuffer ELSE buffers[g]]
    /\ released' = rest
    /\ closing' = [closing EXCEPT ![c] = gone]
    /\ crossed' = crossed \cup {g \in gone : Due(g) \ {c} # {} \/ Holders(g) > 0}

\* evict_idle_buffers: those whose TTL is over.
EvictIdle(c) ==
    /\ \E k \in 1..Len(released) : 
        TakeOut(c, ToSet(SubSeq(released, 1, k)), SubSeq(released, k + 1, Len(released)))
    /\ UNCHANGED <<disk, view, opening, guards, over>>

\* evict_all_buffers.
EvictAll(c) ==
    /\ TakeOut(c, Buffered, <<>>)
    /\ UNCHANGED <<disk, view, opening, guards, over>>

\* force_close.
ForceClose(c, f) ==
    /\ TakeOut(c, {f} \cap Buffered, Without(released, f))
    /\ UNCHANGED <<disk, view, opening, guards, over>>

-----------------------------------------------------------------------------
(* Properties.                                                             *)

\* The language server has at least the text whose stamp the entry bears, under the version
\* of the entry, unless a message is due or the entry is marked for the next ensure_open
\* (docsync.rs:110-115, 307-309).  Where calls have crossed each other this may fail.
EntriesAreTrue ==
    \A f \in Buffered \ crossed :
        ~buffers[f].resync /\ Due(f) = {} =>
            view[f].open /\ view[f].text >= buffers[f].stamp /\ view[f].version = buffers[f].version

\* The count of an entry is never more than the guards there are and the calls that are
\* about to get one: nothing keeps a file open for ever.  It is never less, either, and the
\* entry is there, unless a file was closed under its guards or during a call
\* (docsync.rs:295-298, 306-309, 469).
CountsAreGuards ==
    \A f \in Files :
        LET holders == Holders(f) IN
        /\ buffers[f].refs <= holders
        /\ f \notin crossed => buffers[f].refs = holders

\* After a file has been put into the table, the table is below its capacity or all files in it
\* are held (docsync.rs:618-620).
TableStaysSmall ==
    [][\A f \in Files : f \notin Buffered /\ f \in Buffered' =>
        Cardinality(Buffered') < Capacity \/ released' = <<>>]_docVars

\* A didChange bears a higher version than what the language server has, whichever tools sent
\* the two and whatever was refused between them (edit_tools.rs:223-226).
VersionsRise ==
    [][\A c \in Callers, f \in Files \ crossed' :
        InPhase(c, f, {"send"}) /\ Announces(c) = "didChange" /\ view'[f] # view[f] =>
            view'[f].version > view[f].version]_docVars

=============================================================================
