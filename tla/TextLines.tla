------------------------------ MODULE TextLines ------------------------------
(***************************************************************************)
(* Texts and their lines, as lsp-core/src/offsets.rs and                   *)
(* supervisor/src/edit_tools.rs cut them.  A text is a sequence of         *)
(* characters; "n" is the one that ends a line.                            *)
(***************************************************************************)
EXTENDS Naturals, Sequences, FiniteSets

\* The sum of the lengths of the characters.
Length(s, of) ==
    LET upTo[k \in 0..Len(s)] == IF k = 0 THEN 0 ELSE upTo[k - 1] + of[s[k]]
    IN  upTo[Len(s)]
Prefix(s, k) == SubSeq(s, 1, k)

Ascending(T) == [l \in 1..Cardinality(T) |-> CHOOSE e \in T : Cardinality({f \in T : f <= e}) = l]

\* The line ends among the first k characters.
Breaks(doc, k) == {i \in 1..k : doc[i] = "n"}

\* line_byte_ranges: where lines end, the last one at the end of the text.
LineEnds(doc) == Ascending(Breaks(doc, Len(doc)) \cup {Len(doc) + 1})

\* The number of characters before a line, which counts from 0, and the line itself.
LineBegin(doc, l) == IF l = 0 THEN 0 ELSE LineEnds(doc)[l]
LineAt(doc, l) == SubSeq(doc, LineBegin(doc, l) + 1, LineEnds(doc)[l + 1] - 1)

\* line_starts: the characters before each line; the end of the text is the last anchor.
LineStarts(doc) == Ascending({0, Len(doc)} \cup Breaks(doc, Len(doc)))

Total(doc) == Len(LineStarts(doc)) - 1

\* The lines of a text, with their ends: what the properties of TextEdits speak of.
LinesOf(doc) ==
    LET ends == Ascending({i \in 1..Len(doc) : doc[i] = "n" \/ i = Len(doc)})
    IN  [l \in 1..Len(ends) |-> SubSeq(doc, IF l = 1 THEN 1 ELSE ends[l - 1] + 1, ends[l])]

=============================================================================
