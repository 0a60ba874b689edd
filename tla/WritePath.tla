------------------------------ MODULE WritePath ------------------------------
(***************************************************************************)
(* The tools that write files (supervisor/src/lib.rs, edit_tools.rs) and   *)
(* the documents of the language server they go by (DocSync).  A writing   *)
(* tool takes the write gate, brings the document up to date, asks the     *)
(* language server where a symbol is, reads the file, writes it with the   *)
(* answer applied, and brings the document up to date again.               *)
(*                                                                         *)
(* What a tool does is the sequence of its steps; a step that fails ends   *)
(* the call.  Some of the tools that only ask keep what the language       *)
(* server answered (Supervisor::symbol_cache).                             *)
(***************************************************************************)
EXTENDS DocSync

CONSTANTS
    First,          \* a caller
    FirstTools,     \* the kinds of its calls: a subset of DOMAIN Plan
    OtherTools,     \* those of the other callers' calls
    MaxWrites,      \* bound: writes of all files together
    CacheMax        \* SYMBOL_CACHE_MAX_ENTRIES (512)

VARIABLES
    gate,       \* who holds the write gate
    tool,       \* what a call does, None between calls
    steps,      \* the steps it has left
    file,       \* the file it is at
    base,       \* the text of each file from which the language server answered it
    text,       \* the text of its file that the call has read or written
    cache       \* Supervisor::symbol_cache: a file, the stamp of the key, the text answered for

pathVars == <<gate, tool, steps, file, base, text, cache>>
vars == <<docVars, pathVars>>

\* Mutant of EditPlan: the gate is taken when the language server has answered.
EditPlanLateGate == <<"open", "ask", "gate", "load", "write", "open">>

\* Mutant of EditPlan: what has been written is left to the next call's ensure_open.
EditPlanUnrefreshed == <<"gate", "open", "ask", "load", "write">>

\* The edits inside a symbol.
EditPlan == <<"gate", "open", "ask", "load", "write", "open">>

\* The tools that only ask.
ReadPlan == <<"open", "ask">>

\* overview and symbol-body, which first look for an answer that was kept.
OutlinePlan == <<"look", "tidy", "open", "ask", "keep">>

\* replace-body, which waits for the index before the gate.
ReplacePlan == <<"open", "gate", "open", "ask", "load", "write", "readback", "drop", "open">>

\* safe-delete-symbol: the symbol, and who refers to it.
DeletePlan == <<"gate", "open", "ask", "ask", "load", "write", "readback", "drop", "open">>

\* rename-symbol, which goes through the files of the answer.
RenamePlan == <<"open", "gate", "ask", "pick">>
RenameFilePlan == <<"load", "write", "open", "drop", "pick">>

\* The formatter after a write.
FormatPlan == <<"open", "ask", "drop", "gate", "open", "load", "write", "open">>

\* insert-at-line, replace-lines, delete-lines.
LinePlan == <<"gate", "open", "load", "write", "open">>

\* create-text-file.
CreatePlan == <<"gate", "create", "open">>

\* undo and redo.
UndoPlan == <<"gate", "restore", "ungate", "sync">>

\* And the eviction at the start of a call, and the end of the session.
Plan ==
    [read |-> ReadPlan, outline |-> OutlinePlan, edit |-> EditPlan, line |-> LinePlan, replace |-> ReplacePlan,
     delete |-> DeletePlan, rename |-> RenamePlan, format |-> FormatPlan, create |-> CreatePlan,
     undo |-> UndoPlan, reclaim |-> <<"reclaim">>, shutdown |-> <<"evict", "kill">>]

ASSUME WritePathAssumption ==
    /\ First \in Callers /\ FirstTools \cup OtherTools \subseteq DOMAIN Plan /\ None \notin DOMAIN Plan
    /\ MaxWrites \in Nat /\ CacheMax \in Nat \ {0}

Tools(c) == IF c = First THEN FirstTools ELSE OtherTools

NoText == [f \in Files |-> 0]
Idle(c) == tool[c] = None

\* An ensure_open ends, and documents are closed, before the next step.
Ready(c) == opening[c].phase \in {"ok", "err"} /\ closing[c] = {}
At(c, step) == steps[c] # <<>> /\ Head(steps[c]) = step /\ Ready(c)

TypeOK ==
    /\ DocTypeOK
    /\ gate \in Callers \cup {None}
    /\ \A c \in Callers :
        /\ tool[c] \in Tools(c) \cup {None} /\ file[c] \in Files \cup {None}
        /\ base[c] \in [Files -> Nat] /\ text[c] \in Nat
        /\ At(c, "load") \/ At(c, "write") \/ At(c, "readback") => gate = c
        /\ Idle(c) => gate # c /\ guards[c] = NoText /\ steps[c] = <<>> /\ Ready(c)
    /\ cache \subseteq [file : Files, key : Nat, text : Nat] /\ Cardinality(cache) <= CacheMax

Init ==
    /\ DocInit
    /\ gate = None
    /\ tool = [c \in Callers |-> None]
    /\ steps = [c \in Callers |-> <<>>]
    /\ file = [c \in Callers |-> None]
    /\ base = [c \in Callers |-> NoText]
    /\ text = [c \in Callers |-> 0]
    /\ cache = {}

-----------------------------------------------------------------------------
(* The frame of a call.                                                    *)

Then(c, rest) == steps' = [steps EXCEPT ![c] = rest]
NextStep(c) == Then(c, Tail(steps[c]))
Quit(c) == Then(c, <<>>)

\* execute_tool refuses calls for a file that is not there; what begins when the session is
\* being shut down gets another session.
Begin(c) ==
    /\ Idle(c) /\ ~over /\ \A d \in Callers : tool[d] # "shutdown"
    /\ \E t \in Tools(c), f \in Files :
        /\ disk[f].there \/ t \in {"create", "undo", "reclaim", "shutdown"}
        /\ tool' = [tool EXCEPT ![c] = t]
        /\ file' = [file EXCEPT ![c] = f]
        /\ Then(c, Plan[t])
    /\ UNCHANGED <<docVars, gate, base, text, cache>>

\* Mutant of GateAfter: the gate is kept.
GateKept(c) == gate

GateAfter(c) == IF gate = c THEN None ELSE gate

\* post_diag_for_write: the tools that have written then empty the cache, except rename-symbol,
\* create-text-file, the formatter, undo and redo.
Forgets(c) == tool[c] \in {"edit", "line", "replace", "delete"} /\ text[c] # 0

\* What is left of a call is dropped: the guards of one file after the other, and the gate.
End(c) ==
    /\ ~Idle(c) /\ Ready(c) /\ steps[c] = <<>>
    /\ LET held == {f \in Files : guards[c][f] > 0} IN
        /\ IF held = {} THEN UNCHANGED <<buffers, released, guards>>
           ELSE \E f \in held : DropGuards(c, f, guards[c][f])
        /\ IF Cardinality(held) > 1 THEN UNCHANGED <<gate, tool, steps, file, base, text>>
           ELSE /\ gate' = GateAfter(c)
                /\ IF Forgets(c) THEN Then(c, <<"forget">>) /\ UNCHANGED tool
                   ELSE tool' = [tool EXCEPT ![c] = None] /\ UNCHANGED steps
                /\ file' = [file EXCEPT ![c] = None]
                /\ base' = [base EXCEPT ![c] = NoText]
                /\ text' = [text EXCEPT ![c] = 0]
    /\ UNCHANGED <<disk, view, opening, closing, over, crossed, troubles, cache>>

Forget(c) ==
    /\ At(c, "forget")
    /\ cache' = {}
    /\ NextStep(c)
    /\ UNCHANGED <<docVars, gate, tool, file, base, text>>

TakeGate(c) ==
    /\ At(c, "gate") /\ gate = None
    /\ gate' = c
    /\ NextStep(c)
    /\ UNCHANGED <<docVars, tool, file, base, text, cache>>

\* After 60 s of waiting.
GateTimesOut(c) ==
    /\ At(c, "gate") /\ gate # None
    /\ Quit(c)
    /\ UNCHANGED <<docVars, gate, tool, file, base, text, cache>>

Ungate(c) ==
    /\ At(c, "ungate")
    /\ gate' = None
    /\ NextStep(c)
    /\ UNCHANGED <<docVars, tool, file, base, text, cache>>

-----------------------------------------------------------------------------
(* The documents.                                                          *)

OpenStarts(c) ==
    /\ At(c, "open")
    /\ Stat(c, file[c])
    /\ IF disk[file[c]].there THEN NextStep(c) ELSE Quit(c)
    /\ UNCHANGED <<disk, buffers, released, view, guards, closing, over, crossed, troubles>>
    /\ UNCHANGED <<gate, tool, file, base, text, cache>>

\* An ensure_open that fails ends the call.
OpenGoesOn(c) ==
    /\ opening[c].phase \in Phases
    /\ OpenSteps(c)
    /\ IF opening'[c].phase = "err" THEN Quit(c) ELSE UNCHANGED steps
    /\ UNCHANGED <<gate, tool, file, base, text, cache>>

\* What the language server goes by: the open document, or the file.
Known(f) == IF view[f].open THEN view[f].text
            ELSE IF disk[f].there THEN disk[f].stamp ELSE 0

\* A request, and an answer that comes from what the language server knows when the
\* request arrives; an answer for rename-symbol is about all files.
Ask(c) ==
    /\ At(c, "ask") /\ Taken
    /\ LET asked == IF tool[c] = "rename" THEN Files ELSE {file[c]} IN
        /\ base' = IF tool[c] = "read" THEN base
                   ELSE [base EXCEPT ![c] = [f \in Files |-> IF f \in asked THEN Known(f) ELSE 0]]
        /\ crossed' = crossed \cup {f \in asked : Due(f) \ {c} # {}}
    /\ NextStep(c)
    /\ UNCHANGED <<disk, buffers, released, view, opening, guards, closing, over>>
    /\ UNCHANGED <<gate, tool, file, text, cache>>

\* The request is refused, answered with an error or too late, or the symbol is not there.
AskFails(c) ==
    /\ At(c, "ask")
    /\ Quit(c)
    /\ UNCHANGED <<docVars, gate, tool, file, base, text, cache>>

\* doc_symbol_cache_key: a file that is not there has a key as well.
Key(f) == IF disk[f].there THEN disk[f].stamp ELSE 0

\* An answer that was kept under the key of the file is given again; otherwise the key is what
\* the answer will be kept under.
Look(c) ==
    /\ At(c, "look")
    /\ LET f == file[c] IN
        IF \E e \in cache : e.file = f /\ e.key = Key(f) THEN Quit(c) /\ UNCHANGED text
        ELSE NextStep(c) /\ text' = [text EXCEPT ![c] = Key(f)]
    /\ UNCHANGED <<docVars, gate, tool, file, base, cache>>

\* The answers that are kept for the file under other keys than the one it has by now are
\* dropped.
Tidy(c) ==
    /\ At(c, "tidy")
    /\ cache' = {e \in cache : e.file # file[c] \/ e.key = Key(file[c])}
    /\ NextStep(c)
    /\ UNCHANGED <<docVars, gate, tool, file, base, text>>

\* Mutant of KeptUnder: the key is made when the answer is there.
KeptUnderLate(c) == Key(file[c])

KeptUnder(c) == text[c]

\* symbol_cache_put_impl: a full cache is emptied, an empty answer is not kept.
Keep(c) ==
    /\ At(c, "keep")
    /\ LET f == file[c]
           entry == [file |-> f, key |-> KeptUnder(c), text |-> base[c][f]]
           room == IF Cardinality(cache) >= CacheMax THEN {} ELSE cache
       IN  \/ cache' = {e \in room : e.file # f \/ e.key # entry.key} \cup {entry}
           \/ UNCHANGED cache
    /\ NextStep(c)
    /\ UNCHANGED <<docVars, gate, tool, file, base, text>>

DropOne(c) ==
    /\ At(c, "drop")
    /\ DropGuards(c, file[c], 1)
    /\ NextStep(c)
    /\ UNCHANGED <<disk, view, opening, closing, over, crossed, troubles>>
    /\ UNCHANGED <<gate, tool, file, base, text, cache>>

CloseGoesOn(c) ==
    /\ CloseNext(c) /\ opening[c].phase # "close"
    /\ UNCHANGED pathVars

-----------------------------------------------------------------------------
(* The files.                                                              *)

\* rename-symbol skips a file it cannot read.
Load(c) ==
    /\ At(c, "load")
    /\ IF disk[file[c]].there
       THEN NextStep(c) /\ text' = [text EXCEPT ![c] = disk[file[c]].stamp] /\ UNCHANGED base
       ELSE /\ Then(c, IF tool[c] = "rename" THEN <<"pick">> ELSE <<>>)
            /\ base' = [base EXCEPT ![c][file[c]] = 0]
            /\ text' = [text EXCEPT ![c] = 0]
    /\ UNCHANGED <<docVars, gate, tool, file, cache>>

WriteFile(f) ==
    /\ SumFunction([g \in Files |-> disk[g].stamp]) < Cardinality(Files) + MaxWrites
    /\ disk' = [disk EXCEPT ![f] = [there |-> TRUE, stamp |-> disk[f].stamp + 1]]

\* recorded_write.
Write(c) ==
    /\ At(c, "write")
    /\ WriteFile(file[c])
    /\ text' = [text EXCEPT ![c] = disk'[file[c]].stamp]
    /\ base' = [base EXCEPT ![c][file[c]] = 0]
    /\ NextStep(c)
    /\ UNCHANGED <<syncVars, over, troubles, gate, tool, file, cache>>

\* The transaction cannot be recorded, the write fails, or the answer does not fit the
\* text; in the last case, or when the answer changes nothing, rename-symbol goes on to
\* the next file.
WriteFails(c) ==
    /\ At(c, "write")
    /\ \/ Quit(c) /\ UNCHANGED base
       \/ /\ tool[c] = "rename"
          /\ Then(c, <<"pick">>)
          /\ base' = [base EXCEPT ![c][file[c]] = 0]
    /\ text' = [text EXCEPT ![c] = 0]
    /\ UNCHANGED <<docVars, gate, tool, file, cache>>

\* What was written is there; otherwise the old text is written over it, and the call ends.  It
\* ends without a write when there is nothing to read.
Readback(c) ==
    /\ At(c, "readback")
    /\ LET found == disk[file[c]] IN
        \/ found = [there |-> TRUE, stamp |-> text[c]] /\ NextStep(c) /\ UNCHANGED disk
        \/ found # [there |-> TRUE, stamp |-> text[c]] /\ Quit(c)
             /\ IF found.there THEN WriteFile(file[c]) ELSE UNCHANGED disk
    /\ UNCHANGED <<syncVars, over, troubles, gate, tool, file, base, text, cache>>

\* create-text-file looks under the gate whether the file is there.
Create(c) ==
    /\ At(c, "create")
    /\ IF disk[file[c]].there
       THEN Quit(c) /\ UNCHANGED <<disk, text>>
       ELSE /\ WriteFile(file[c])
            /\ text' = [text EXCEPT ![c] = disk'[file[c]].stamp]
            /\ NextStep(c)
    /\ UNCHANGED <<syncVars, over, troubles, gate, tool, file, base, cache>>

\* rename-symbol goes to one file of the answer after the other, each once.
Pick(c) ==
    /\ At(c, "pick")
    /\ \E f \in Files :
        /\ base[c][f] # 0
        /\ file' = [file EXCEPT ![c] = f]
        /\ Then(c, RenameFilePlan)
    /\ UNCHANGED <<docVars, gate, tool, base, text, cache>>

\* The answer names no other file.
NoMore(c) ==
    /\ At(c, "pick")
    /\ Quit(c)
    /\ UNCHANGED <<docVars, gate, tool, file, base, text, cache>>

\* An undo or a redo gives the file another text, or takes it away.
Restore(c) ==
    /\ At(c, "restore")
    /\ \/ WriteFile(file[c])
       \/ disk[file[c]].there /\ disk' = [disk EXCEPT ![file[c]].there = FALSE]
    /\ NextStep(c)
    /\ UNCHANGED <<syncVars, over, troubles, gate, tool, file, base, text, cache>>

\* sync_ls_after_undo: only files the language server has open.
Sync(c) ==
    /\ At(c, "sync")
    /\ IF ~disk[file[c]].there
       THEN ForceClose(c, file[c]) /\ Quit(c)
       ELSE /\ Then(c, IF file[c] \in Buffered THEN <<"open">> ELSE <<>>)
            /\ UNCHANGED <<disk, syncVars, over>>
    /\ UNCHANGED <<troubles, gate, tool, file, base, text, cache>>

-----------------------------------------------------------------------------
(* Evictions, the end of the session, and edits from outside.              *)

Reclaim(c) ==
    /\ At(c, "reclaim")
    /\ Trouble
    /\ EvictIdle(c)
    /\ NextStep(c)
    /\ UNCHANGED <<gate, tool, file, base, text, cache>>

Shutdown(c) ==
    /\ At(c, "evict")
    /\ EvictAll(c)
    /\ NextStep(c)
    /\ UNCHANGED <<troubles, gate, tool, file, base, text, cache>>

Kill(c) ==
    /\ At(c, "kill")
    /\ over' = TRUE
    /\ NextStep(c)
    /\ UNCHANGED <<disk, syncVars, troubles, gate, tool, file, base, text, cache>>

\* An editor knows nothing of the gate; it crosses the one who holds it.
Edit ==
    /\ Trouble
    /\ \E f \in Files :
        /\ WriteFile(f)
        /\ crossed' = IF gate # None /\ file[gate] = f THEN crossed \cup {f} ELSE crossed
    /\ UNCHANGED <<buffers, released, view, opening, guards, closing, over, pathVars>>

-----------------------------------------------------------------------------
CallNext(c) ==
    \/ Begin(c) \/ End(c) \/ TakeGate(c) \/ GateTimesOut(c) \/ Ungate(c)
    \/ OpenStarts(c) \/ OpenGoesOn(c) \/ CloseGoesOn(c)
    \/ Ask(c) \/ AskFails(c) \/ DropOne(c) \/ Look(c) \/ Tidy(c) \/ Keep(c) \/ Forget(c)
    \/ Load(c) \/ Write(c) \/ WriteFails(c) \/ Readback(c) \/ Create(c)
    \/ Pick(c) \/ NoMore(c)
    \/ Restore(c) \/ Sync(c)
    \/ Reclaim(c) \/ Shutdown(c) \/ Kill(c)

Next == (\E c \in Callers : CallNext(c)) \/ Edit

Spec == Init /\ [][Next]_vars

-----------------------------------------------------------------------------
(* Properties.                                                             *)

\* The answer of the language server is applied to the text it was computed from, and this
\* is the text of the file (write_gate.rs:3-5, lib.rs:4576-4580).  For the tools that ask
\* under the gate, after their own ensure_open, where no other call and no editor has
\* come between.
EditsFit ==
    \A c \in Callers :
        At(c, "write") /\ tool[c] \in {"edit", "replace", "delete"} /\ file[c] \notin crossed =>
            /\ base[c][file[c]] = text[c]
            /\ text[c] = disk[file[c]].stamp

\* The same of rename-symbol, which has opened its file before it waits for the gate.
RenamesFit ==
    \A c \in Callers :
        At(c, "write") /\ tool[c] = "rename" /\ file[c] \notin crossed =>
            base[c][file[c]] = text[c]

\* While a file is the one that an answer was kept for, the answer is what the language server
\* says of it: none is given again that was computed from another text (lib.rs:325-331, 2904-2909),
\* though the file may be written, restored, closed and evicted between the key and the answer.
KeptAnswersFit ==
    \A e \in cache :
        disk[e.file] = [there |-> TRUE, stamp |-> e.key] /\ e.file \notin crossed => e.text = e.key

\* A writing tool does not give the gate back before the language server has what it has
\* written, unless its ensure_open has failed (ARCHITECTURE.md:499, 504).  An undo does.
WritesArrive ==
    \A c \in Callers :
        /\ gate = c /\ steps[c] = <<>> /\ text[c] # 0 /\ guards[c][file[c]] > 0
        /\ opening[c].phase = "ok" /\ file[c] \notin crossed
        => view[file[c]].open /\ view[file[c]].text >= text[c]

=============================================================================
