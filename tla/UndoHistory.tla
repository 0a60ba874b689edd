----------------------------- MODULE UndoHistory -----------------------------
(***************************************************************************)
(* What the undo store promises its users: a history of images of the      *)
(* project in which undo and redo move, and from which a new write drops   *)
(* whatever was undone (supervisor/src/undo.rs, the contract at its head). *)
(***************************************************************************)
EXTENDS SequencesExt

CONSTANT Image      \* an image is the contents of all files

VARIABLES
    past,       \* the images that undo goes back to, the latest last
    present,
    future      \* the images that redo goes on to, the next first

history == <<past, present, future>>

HistoryOK == past \in Seq(Image) /\ present \in Image /\ future \in Seq(Image)

Init == past = <<>> /\ present \in Image /\ future = <<>>

Write ==
    /\ past' = Append(past, present)
    /\ present' \in Image
    /\ future' = <<>>

Undo ==
    /\ past # <<>>
    /\ past' = Front(past)
    /\ present' = Last(past)
    /\ future' = <<present>> \o future

Redo ==
    /\ future # <<>>
    /\ past' = Append(past, present)
    /\ present' = Head(future)
    /\ future' = Tail(future)

Next == Write \/ Undo \/ Redo

Spec == Init /\ [][Next]_history
=============================================================================
