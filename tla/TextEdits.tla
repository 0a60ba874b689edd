------------------------------ MODULE TextEdits ------------------------------
(***************************************************************************)
(* What the writing tools make of a text: edits by positions of the        *)
(* language server, which count lines and code units while the program     *)
(* cuts strings at bytes (lsp-core/src/offsets.rs and its callers), and    *)
(* edits by whole lines (supervisor/src/edit_tools.rs).                    *)
(*                                                                         *)
(* A character stands for all that have its lengths.  Nothing here has a   *)
(* state: the properties quantify over all texts up to a length.           *)
(***************************************************************************)
EXTENDS Naturals, Sequences, FiniteSets, SequencesExt, TextLines

CONSTANTS
    OutOfRange,     \* OffsetError::OutOfRange
    MaxText         \* bound: the length of the texts the properties are about

\* A letter, a character outside the BMP, \n and \r.
Utf8 == [a |-> 1, s |-> 4, n |-> 1, r |-> 1]
Utf16 == [a |-> 1, s |-> 2, n |-> 1, r |-> 1]
Chars == DOMAIN Utf8

ASSUME TextEditsAssumption == OutOfRange \notin Nat \cup Seq(Chars) /\ MaxText \in Nat

-----------------------------------------------------------------------------
(* Offsets.                                                                *)

Bytes(s) == Length(s, Utf8)

\* Mutant of Units: a character is a unit.
UnitsOfScalars(s, enc) == Len(s)

\* len_utf8, len_utf16.
Units(s, enc) == Length(s, enc)

\* unit_to_byte_in_line: the end of the first character that reaches so far, or its
\* beginning, when it goes beyond.  There is none in an empty line.
UnitToByte(line, character, enc) ==
    LET reach == {i \in 1..Len(line) : character <= Units(Prefix(line, i), enc)}
        i == CHOOSE i \in reach : \A j \in reach : i <= j
    IN  IF reach = {} THEN OutOfRange
        ELSE IF character < Units(Prefix(line, i), enc) THEN Bytes(Prefix(line, i - 1))
        ELSE Bytes(Prefix(line, i))

PositionToByte(doc, pos, enc) ==
    IF pos.line >= Len(LineEnds(doc)) THEN OutOfRange
    ELSE LET b == UnitToByte(LineAt(doc, pos.line), pos.character, enc) IN
         IF b = OutOfRange THEN OutOfRange
         ELSE Bytes(Prefix(doc, LineBegin(doc, pos.line))) + b

\* byte_to_unit_in_line: the units of the characters that end before the byte or at it.
ByteToUnit(line, byte, enc) ==
    Units(Prefix(line, Cardinality({i \in 1..Len(line) : Bytes(Prefix(line, i)) <= byte})), enc)

\* A line ends where its \n begins.
ByteToPosition(doc, byte, enc) ==
    LET begin(l) == Bytes(Prefix(doc, LineBegin(doc, l)))
        lines == {l \in 0..Len(LineEnds(doc)) - 1 :
                    begin(l) <= byte /\ byte <= begin(l) + Bytes(LineAt(doc, l))}
        l == CHOOSE i \in lines : \A j \in lines : i <= j
    IN  IF byte > Bytes(doc) THEN OutOfRange
        ELSE [line |-> l, character |-> ByteToUnit(LineAt(doc, l), byte - begin(l), enc)]

\* Strings are cut at bytes.
CharsBefore(doc, b) == CHOOSE k \in 0..Len(doc) : Bytes(Prefix(doc, k)) = b

\* An edit: a range and the text that takes its place.  The formatter's edits are checked:
\* a range that ends before it begins is refused; rename-symbol doubles what lies between.
ApplyEdit(doc, e, enc, checked) ==
    LET from == PositionToByte(doc, e.from, enc)
        to == PositionToByte(doc, e.to, enc)
    IN  IF OutOfRange \in {from, to} THEN OutOfRange
        ELSE IF checked /\ to < from THEN OutOfRange
        ELSE Prefix(doc, CharsBefore(doc, from)) \o e.new
                \o SubSeq(doc, CharsBefore(doc, to) + 1, Len(doc))

\* slice_at.
SliceAt(doc, p, q, enc) ==
    LET from == PositionToByte(doc, p, enc)
        to == PositionToByte(doc, q, enc)
    IN  IF OutOfRange \in {from, to} \/ to < from THEN OutOfRange
        ELSE SubSeq(doc, CharsBefore(doc, from) + 1, CharsBefore(doc, to))

Before(p, q) == p.line < q.line \/ (p.line = q.line /\ p.character < q.character)

\* From the end of the text to its beginning; the sort is stable.
InOrder(edits) ==
    LET ahead(i, j) == \/ Before(edits[j].from, edits[i].from)
                       \/ edits[i].from = edits[j].from /\ i <= j
        place(j) == Cardinality({i \in 1..Len(edits) : ahead(i, j)})
    IN  [l \in 1..Len(edits) |-> edits[CHOOSE j \in 1..Len(edits) : place(j) = l]]

\* The edits of one file of a rename, or those of a formatter, one after the other; one that
\* is out of range gives all of them up.
ApplyEdits(doc, edits, enc, checked) ==
    LET after[k \in 0..Len(edits)] ==
            IF k = 0 THEN doc
            ELSE IF after[k - 1] = OutOfRange THEN OutOfRange
            ELSE ApplyEdit(after[k - 1], InOrder(edits)[k], enc, checked)
    IN  after[Len(edits)]

-----------------------------------------------------------------------------
(* Lines.                                                                  *)

CrLf == <<"r", "n">>
EndsWith(s, end) == Len(s) >= Len(end) /\ SubSeq(s, Len(s) - Len(end) + 1, Len(s)) = end

\* dominant_eol.
Eol(doc) ==
    LET lf == Breaks(doc, Len(doc))
        crlf == {i \in lf : EndsWith(Prefix(doc, i), CrLf)}
    IN  IF Cardinality(crlf) * 2 > Cardinality(lf) THEN CrLf ELSE <<"n">>

\* The new lines end as those of the file do, the last one as well.
Normalised(content, eol) ==
    LET upTo[k \in 0..Len(content)] ==
            IF k = 0 THEN <<>>
            ELSE IF content[k] # "n" THEN Append(upTo[k - 1], content[k])
            ELSE (IF EndsWith(Prefix(content, k), CrLf) THEN Front(upTo[k - 1]) ELSE upTo[k - 1]) \o eol
        out == upTo[Len(content)]
    IN  IF EndsWith(out, eol) THEN out ELSE out \o eol

\* end_line_col: the line and the column, from 1, after k characters.
EndLineCol(doc, k) ==
    LET line == Cardinality(Breaks(doc, k))
    IN  [line |-> line + 1, col |-> k - LineBegin(doc, line) + 1]

InsertAtLine(doc, line, content) ==
    IF line = 0 \/ line > Total(doc) + 1 THEN OutOfRange
    ELSE LET at == LineStarts(doc)[line]
             new == Normalised(content, Eol(doc))
             out == Prefix(doc, at) \o new \o SubSeq(doc, at + 1, Len(doc))
         IN  [text |-> out, end |-> EndLineCol(out, at + Len(new))]

\* What takes the place of the lines from first to last.
Spliced(doc, first, last, new) ==
    IF first = 0 \/ last < first \/ last > Total(doc) THEN OutOfRange
    ELSE Prefix(doc, LineStarts(doc)[first]) \o new
            \o SubSeq(doc, LineStarts(doc)[last + 1] + 1, Len(doc))

DeleteLines(doc, first, last) == Spliced(doc, first, last, <<>>)

ReplaceLines(doc, first, last, content) ==
    Spliced(doc, first, last, Normalised(content, Eol(doc)))

\* delete_text_in_symbol, in the lines of the symbol: str::lines drops the end of a line,
\* \n or \r\n, and one byte is counted for it.  A last line that is empty is none; line 0 is
\* line 1.
DeleteText(doc, from, to, symbol) ==
    LET first == IF from = 0 THEN 1 ELSE from
        last == IF to = 0 THEN 1 ELSE to
        count == Len(LineEnds(doc)) - (IF Last(doc) = "n" THEN 1 ELSE 0)
        chars(l) == IF EndsWith(LineAt(doc, l - 1), <<"r">>) /\ LineEnds(doc)[l] <= Len(doc)
                    THEN Len(LineAt(doc, l - 1)) - 1 ELSE Len(LineAt(doc, l - 1))
        begin[l \in 1..count] == IF l = 1 THEN 0 ELSE begin[l - 1] + chars(l - 1) + 1
    IN  IF doc = <<>> \/ last > count \/ first > last \/ first < symbol.first \/ last > symbol.last
        THEN OutOfRange
        ELSE Prefix(doc, begin[first]) \o SubSeq(doc, begin[last] + chars(last) + 1, Len(doc))

\* delete_symbol_text: from the beginning of its first line; with the end of its last line
\* when nothing else stands there.
DeleteSymbol(doc, p, q, enc) ==
    LET first == PositionToByte(doc, [line |-> p.line, character |-> 0], enc)
        to == PositionToByte(doc, q, enc)
        from == CharsBefore(doc, first)
        rest == SubSeq(doc, CharsBefore(doc, to) + 1, LineEnds(doc)[q.line + 1] - 1)
        blank == ToSet(rest) \subseteq {"r"}
        end == IF ~blank THEN CharsBefore(doc, to)
               ELSE IF LineEnds(doc)[q.line + 1] <= Len(doc) THEN LineEnds(doc)[q.line + 1]
               ELSE Len(doc)
    IN  IF OutOfRange \in {first, to} THEN OutOfRange
        ELSE Prefix(doc, from) \o SubSeq(doc, end + 1, Len(doc))

-----------------------------------------------------------------------------
(* Properties.                                                             *)

Texts(chars, k) == UNION {[1..j -> chars] : j \in 0..k}

\* What the protocol calls the place after the first k characters.
PositionOf(doc, k, enc) ==
    LET line == Cardinality(Breaks(doc, k))
    IN  [line |-> line, character |-> Length(SubSeq(doc, LineBegin(doc, line) + 1, k), enc)]

OnEmptyLine(doc, k) ==
    (k = 0 \/ doc[k] = "n") /\ (k = Len(doc) \/ doc[k + 1] = "n")

\* Places and bytes name each other, and slices are what lies between; but a place on an empty
\* line has no byte, which offsets.rs:15 does not say.
PlacesAgree(doc, enc) ==
    \A k \in 0..Len(doc) :
        LET place(i) == PositionOf(doc, i, enc) IN
        /\ ByteToPosition(doc, Bytes(Prefix(doc, k)), enc) = place(k)
        /\ \A i \in 0..k :
            SliceAt(doc, place(i), place(k), enc) =
                IF OnEmptyLine(doc, i) \/ OnEmptyLine(doc, k) THEN OutOfRange
                ELSE SubSeq(doc, i + 1, k)

EditOf(doc, i, j, new, enc) ==
    [from |-> PositionOf(doc, i, enc), to |-> PositionOf(doc, j, enc), new |-> new]

\* Two edits that do not touch make of the text what they make of it at once, in any order.
HitTheirRanges(doc, enc) ==
    \A i1, j1, i2, j2 \in 0..Len(doc) : i1 <= j1 /\ j1 < i2 /\ i2 <= j2 =>
    \A new \in {<<>>, <<"n", "s">>} :
        LET d == EditOf(doc, i1, j1, new, enc)
            e == EditOf(doc, i2, j2, <<"s", "a">>, enc)
            atOnce == Prefix(doc, i1) \o new \o SubSeq(doc, j1 + 1, i2)
                        \o <<"s", "a">> \o SubSeq(doc, j2 + 1, Len(doc))
        IN  \A edits \in {<<d, e>>, <<e, d>>}, checked \in BOOLEAN :
                ApplyEdits(doc, edits, enc, checked) =
                    IF \E k \in {i1, j1, i2, j2} : OnEmptyLine(doc, k) THEN OutOfRange ELSE atOnce

\* All lines end alike.
Pure(doc, eol) == \A l \in ToSet(LinesOf(doc)) : EndsWith(l, eol) /\ (eol = CrLf \/ ~EndsWith(l, CrLf))

\* An insertion after a last line that has no end is left out: it becomes a part of that
\* line.  The end position of an insertion is the line after it.
HitTheirLines(doc, content) ==
    LET lines == LinesOf(doc)
        new == LinesOf(Normalised(content, Eol(doc)))
        part(i, j) == SubSeq(lines, i, j)
        keeps(out) == \A eol \in {CrLf, <<"n">>} : doc # <<>> /\ Pure(doc, eol) => Pure(out, eol)
    IN  /\ \A n \in 1..Len(lines) + 1 :
                n <= Len(lines) \/ doc = <<>> \/ Last(doc) = "n" =>
                LET out == InsertAtLine(doc, n, content) IN
                    /\ LinesOf(out.text) = part(1, n - 1) \o new \o part(n, Len(lines))
                    /\ out.end = [line |-> n + Len(new), col |-> 1]
                    /\ keeps(out.text)
        /\ \A i \in 1..Len(lines) : \A j \in i..Len(lines) :
                /\ LinesOf(ReplaceLines(doc, i, j, content)) =
                        part(1, i - 1) \o new \o part(j + 1, Len(lines))
                /\ LinesOf(DeleteLines(doc, i, j)) =
                        part(1, i - 1) \o part(j + 1, Len(lines))
                /\ keeps(ReplaceLines(doc, i, j, content))

\* Inside a symbol that is the whole text: the lines are emptied, and the end of the last one
\* stays.  A text with \r\n is left out: there DeleteText misses by one byte per line.
HitsTheText(doc) ==
    LET symbol == [first |-> 1, last |-> Len(LinesOf(doc))] IN
    "r" \notin ToSet(doc) =>
        \A i \in 1..Len(LinesOf(doc)) : \A j \in i..Len(LinesOf(doc)) :
            DeleteText(doc, i, j, symbol) =
                Prefix(doc, LineBegin(doc, i - 1)) \o SubSeq(doc, LineEnds(doc)[j], Len(doc))

\* A symbol goes with its lines, or with what stands before it on the first one and without
\* what stands behind it on the last one.
HitsTheSymbol(doc) ==
    \A i, j \in 0..Len(doc) :
        LET p == PositionOf(doc, i, Utf8)
            q == PositionOf(doc, j, Utf8)
            out == DeleteSymbol(doc, p, q, Utf8)
            rest == SubSeq(LineAt(doc, q.line), q.character + 1, Len(LineAt(doc, q.line)))
            below == SubSeq(LinesOf(doc), q.line + 2, Len(LinesOf(doc)))
        IN  i <= j /\ ~OnEmptyLine(doc, LineBegin(doc, p.line)) /\ ~OnEmptyLine(doc, j) =>
                /\ ToSet(rest) \subseteq {"r"} =>
                        LinesOf(out) = SubSeq(LinesOf(doc), 1, p.line) \o below
                /\ "a" \in ToSet(rest) =>
                        out = Prefix(doc, LineBegin(doc, p.line)) \o SubSeq(doc, j + 1, Len(doc))

\* What is hit otherwise: sets of constants, which TLC computes once.
Displaced ==
    {t \in Texts({"a", "s", "n"}, MaxText) \X {Utf8, Utf16} :
        ~(PlacesAgree(t[1], t[2]) /\ HitTheirRanges(t[1], t[2]))}
Disarranged ==
    {t \in Texts({"a", "r", "n"}, MaxText) \X Texts({"a", "n"}, 2) :
        ~(HitTheirLines(t[1], t[2]) /\ HitsTheText(t[1]) /\ HitsTheSymbol(t[1]))}

=============================================================================
