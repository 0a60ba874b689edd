------------------------------- MODULE Framing -------------------------------
(***************************************************************************)
(* How the stdout pump of a session finds the messages in the bytes of the *)
(* language server (lsp-core/src/framing.rs, transport/stdio.rs): chunks   *)
(* of any size go into a buffer, and a decoder that remembers how far it   *)
(* has searched takes frames out of it.                                    *)
(*                                                                         *)
(* A byte is "r" or "n" (the two of the delimiter), "open" or "shut" (the  *)
(* braces of an object), "x" (any other), a member of Lengths, which       *)
(* stands for a whole header line of that content length but for its end,  *)
(* or "bad", which stands for what spoils a header: a content length that  *)
(* is no number, or bytes that are no UTF-8.                               *)
(***************************************************************************)
EXTENDS Naturals, Sequences, FiniteSets, SequencesExt

CONSTANT MaxFrameBody       \* MAX_FRAME_BODY (64 MiB)

ASSUME FramingAssumption == MaxFrameBody \in Nat \ {0}

ContentLength == [l0 |-> 0, l2 |-> 2, l3 |-> 3, l6 |-> 6, big |-> MaxFrameBody + 1]
Lengths == DOMAIN ContentLength
Delimiter == <<"r", "n", "r", "n">>

\* Decoder, with the buffer beside it.  No header has the length 0.
Fresh == [scanned |-> 0, header |-> 0, frame |-> 0, buf |-> <<>>]

\* What a decode returns beside the decoder: a message, nothing yet, or an error.
Result(how, body, d) == [how |-> how, body |-> body, d |-> d]

\* The bytes before the first delimiter that begins after the first k bytes; none, or one.
HeaderEnds(buf, k) ==
    LET found == {i \in k..Len(buf) - 4 : SubSeq(buf, i + 1, i + 4) = Delimiter}
    IN  {i \in found : \A j \in found : i <= j}

\* parse_content_length: of several lines the last one counts, but each must be a number.
Parsed(header) ==
    LET lines == {i \in 1..Len(header) : header[i] \in Lengths}
    IN  {ContentLength[header[i]] : i \in {j \in lines :
            (\A k \in lines : k <= j) /\ \A k \in 1..Len(header) : header[k] # "bad"}}

\* Whether serde_json makes a message of the body.  Of what it looks at, the model keeps the
\* braces at the two ends: an empty body is none.
IsJson(body) == Len(body) >= 2 /\ body[1] = "open" /\ body[Len(body)] = "shut"

\* Mutant of Rescan: the next search begins where the buffer ends.
RescanNothing(buf) == Len(buf)

\* A delimiter may have begun in the last three bytes.
Rescan(buf) == IF Len(buf) > 3 THEN Len(buf) - 3 ELSE 0

\* The header is known: the frame is taken out when it is there, and then its body is parsed.
TakeFrame(d) ==
    LET body == SubSeq(d.buf, d.header + 5, d.frame)
        rest == [Fresh EXCEPT !.buf = SubSeq(d.buf, d.frame + 1, Len(d.buf))]
    IN  IF Len(d.buf) < d.frame THEN Result("none", <<>>, d)
        ELSE IF IsJson(body) THEN Result("frame", body, rest)
        ELSE Result("error", <<>>, rest)

\* Decoder::decode.
Decode(d) ==
    LET start == IF d.scanned < Len(d.buf) THEN d.scanned ELSE Len(d.buf)
        ends == HeaderEnds(d.buf, start)
    IN  IF d.frame # 0 THEN TakeFrame(d)
        ELSE IF ends = {} THEN
            IF Len(d.buf) >= MaxFrameBody THEN Result("error", <<>>, d)
            ELSE Result("none", <<>>, [d EXCEPT !.scanned = Rescan(d.buf)])
        ELSE LET header == CHOOSE i \in ends : TRUE
                 length == {l \in Parsed(SubSeq(d.buf, 1, header)) : l <= MaxFrameBody}
             IN IF length = {} THEN Result("error", <<>>, d)
                ELSE TakeFrame([d EXCEPT !.header = header,
                                         !.frame = header + 4 + (CHOOSE l \in length : TRUE)])

\* The pump: its decoder, the messages it has dispatched, and what it does.
Begun == [d |-> Fresh, out |-> <<>>, state |-> "read"]

\* One turn of the inner loop.
Turn(reader) ==
    LET r == Decode(reader.d) IN
    IF reader.state # "decode" THEN reader
    ELSE [d |-> r.d,
          out |-> IF r.how = "frame" THEN Append(reader.out, r.body) ELSE reader.out,
          state |-> CASE r.how = "frame" -> "decode"
                      [] r.how = "none" -> "read"
                      [] r.how = "error" -> "ended"]

AfterTurns(reader, n) ==
    LET after[k \in 0..n] == IF k = 0 THEN reader ELSE Turn(after[k - 1])
    IN  after[n]

\* A chunk is read, and decoded until there is nothing more in the buffer.  A frame has at
\* least five bytes.
ReadChunk(reader, chunk) ==
    IF reader.state = "ended" THEN reader
    ELSE LET d == [reader.d EXCEPT !.buf = @ \o chunk]
         IN  AfterTurns([d |-> d, out |-> reader.out, state |-> "decode"], Len(d.buf) \div 5 + 1)

-----------------------------------------------------------------------------
(* The property.                                                           *)

\* A message as a language server may send it: its length, perhaps with another header line
\* before or behind it, perhaps announced twice.
Frame(body, length, style) ==
    CASE style = "plain" -> <<length>> \o Delimiter \o body
      [] style = "typed" -> <<"x", "r", "n", length>> \o Delimiter \o body
      [] style = "twice" -> <<"l2", "r", "n", length, "r", "n", "x">> \o Delimiter \o body

\* The last one holds a delimiter.
Bodies ==
    [l2 |-> <<"open", "shut">>, l3 |-> <<"open", "l2", "shut">>,
     l6 |-> <<"open", "r", "n", "r", "n", "shut">>]

Frames(styles) ==
    {[body |-> Bodies[l], bytes |-> Frame(Bodies[l], l, s)] : l \in DOMAIN Bodies, s \in styles}

\* What is no message: a header without a length, with one that is too long or is no number,
\* a body that is empty or no JSON, or bytes without a delimiter and without an end.
Tails ==
    {<<"x">> \o Delimiter, <<"big">> \o Delimiter, <<"bad", "r", "n", "l2">> \o Delimiter,
     <<"l0">> \o Delimiter, <<"l3">> \o Delimiter \o <<"open", "x", "x">>,
     [i \in 1..MaxFrameBody |-> "x"]}

\* Two messages and a tail.
Streams == Frames({"plain", "typed", "twice"}) \X Frames({"plain"}) \X Tails

Bytes(s) == s[1].bytes \o s[2].bytes \o s[3]

\* A stream that is read in chunks of i, j - i and the remaining bytes.
ReadRightly(s, i, j) ==
    LET second == ReadChunk(ReadChunk(Begun, SubSeq(Bytes(s), 1, i)), SubSeq(Bytes(s), i + 1, j))
        third == ReadChunk(second, SubSeq(Bytes(s), j + 1, Len(Bytes(s))))
    IN  /\ second.out = (IF j >= Len(s[1].bytes) THEN <<s[1].body>> ELSE <<>>)
                          \o (IF j >= Len(s[1].bytes \o s[2].bytes) THEN <<s[2].body>> ELSE <<>>)
        /\ third.state = "ended"
        /\ ReadChunk(third, s[1].bytes).out = <<s[1].body, s[2].body>>

\* The middle chunk is short enough to lie within a delimiter.
Misread ==
    {s \in Streams :
        \E i \in 1..Len(Bytes(s)) : \E j \in {k \in i..i + 4 : k <= Len(Bytes(s))} : ~ReadRightly(s, i, j)}

=============================================================================
