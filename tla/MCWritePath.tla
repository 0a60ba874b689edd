----------------------------- MODULE MCWritePath -----------------------------
(* WritePath for TLC: model values, and the symmetry of files; and the texts *)
(* that its writes produce.                                                  *)
EXTENDS WritePath, TextEdits

Symmetry == Permutations(Files)

\* Calls that have crossed each other are not followed.
Uncrossed == crossed = {}

\* An outline is asked for beside calls for the same file; while an answer is kept, the first
\* caller does nothing else, and asks again when the other's call has ended.
KeptForReads ==
    /\ tool[First] = "outline" => \A c \in Callers : file[c] \in {None, file[First]}
    /\ cache # {} /\ tool[First] # "outline" => \A c \in Callers : Idle(c)

-----------------------------------------------------------------------------
Writing == \E c \in Callers : At(c, "write") \/ At(c, "create")

\* The edits of a language server that are written land on the characters they name, though
\* they are applied one after the other and in either encoding (offsets.rs:15,
\* edit_tools.rs:405-440); insertions, replacements and deletions of lines change these lines
\* and no others, and the lines that come in end as those that are there (edit_tools.rs:485-488,
\* 503-504, 538, 552-553).
WritesHitTheirPlaces == Writing => Displaced = {} /\ Disarranged = {}
=============================================================================
