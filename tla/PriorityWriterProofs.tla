------------------------- MODULE PriorityWriterProofs -------------------------
(***************************************************************************)
(* Proofs about PriorityWriter, for any frames, replies and capacities: no *)
(* accepted frame is lost or repeated, and High frames are written in the  *)
(* order in which they were sent.                                          *)
(***************************************************************************)
EXTENDS PriorityWriter, SequenceLemmas

\* Where a frame waits or was written.
Placed == ToSet(outbound) \cup ToSet(high) \cup ToSet(normal) \cup ToSet(bg) \cup ToSet(written)

Fresh == unsent \cap ToSet(sent) = {}

Counted ==
    Len(outbound) + Len(high) + Len(normal) + Len(bg) + Len(written) = Len(sent)

\* g is ahead of place l of q.
Ahead(g, q, l) == \E k \in 1..(l - 1) : q[k] = g

\* f was sent before g, both with High.
Before(f, g) ==
    f \in High /\ g \in High /\ \E i, j \in DOMAIN sent : i < j /\ sent[i] = f /\ sent[j] = g

\* On each part of the way to stdin, whatever was sent before g is further on than g.
Ordered ==
    \A f, g \in High : Before(f, g) =>
        /\ \A l \in DOMAIN written : written[l] = g => Ahead(f, written, l)
        /\ \A l \in DOMAIN high : high[l] = g => f \in ToSet(written) \/ Ahead(f, high, l)
        /\ \A l \in DOMAIN outbound : outbound[l] = g =>
              f \in ToSet(written) \cup ToSet(high) \/ Ahead(f, outbound, l)

IInv == TypeOK /\ Fresh /\ Counted /\ Placed = ToSet(sent) /\ Ordered

-----------------------------------------------------------------------------
(* What the steps do with the queues.                                      *)

QueueTypes ==
    /\ high \in Seq(High) /\ normal \in Seq(Normal) /\ bg \in Seq(Normal \cup Background)
    /\ since \in {"none", "fresh", "aged"}
    /\ since # "none" => normal # <<>>

Queued == ToSet(high) \cup ToSet(normal) \cup ToSet(bg)
QueuedLen == Len(high) + Len(normal) + Len(bg)

\* Routing puts one frame into one queue.
LEMMA RouteIs ==
  ASSUME TypeOK, NEW f \in Frames, Route(f)
  PROVE  /\ QueueTypes'
         /\ Queued' = Queued \cup {f} /\ QueuedLen' = QueuedLen + 1
         /\ high' = IF f \in High THEN Append(high, f) ELSE high
<1>0. QueueTypes
  BY DEF TypeOK, QueueTypes
<1>1. CASE f \in High
  <2>1. high' = Append(high, f) /\ since' = "none" /\ normal' = normal /\ bg' = bg
    BY <1>1 DEF Route, RoutedHigh
  <2>2. high' \in Seq(High) /\ Len(high') = Len(high) + 1 /\ ToSet(high') = ToSet(high) \cup {f}
    BY <1>0, <1>1, <2>1, AppendIs DEF QueueTypes
  <2> QED BY <1>0, <1>1, <2>1, <2>2 DEF QueueTypes, Queued, QueuedLen
<1>2. CASE f \notin High /\ f \in Normal
  <2>1. /\ normal' = Append(normal, f) /\ high' = high /\ bg' = bg
        /\ since' = IF since = "none" THEN "fresh" ELSE since
    BY <1>2 DEF Route
  <2>2. normal' \in Seq(Normal) /\ Len(normal') = Len(normal) + 1 /\ ToSet(normal') = ToSet(normal) \cup {f}
    BY <1>0, <1>2, <2>1, AppendIs DEF QueueTypes
  <2>3. normal' # <<>>
    BY <1>0, <2>1, <2>2 DEF QueueTypes
  <2> QED BY <1>0, <1>2, <2>1, <2>2, <2>3 DEF QueueTypes, Queued, QueuedLen
<1>3. CASE f \notin High /\ f \notin Normal
  <2>1. bg' = Append(bg, f) /\ since' = "none" /\ high' = high /\ normal' = normal
    BY <1>3 DEF Route
  <2>2. bg' \in Seq(Normal \cup Background) /\ Len(bg') = Len(bg) + 1 /\ ToSet(bg') = ToSet(bg) \cup {f}
    BY <1>0, <1>3, <2>1, AppendIs DEF QueueTypes, Frames
  <2> QED BY <1>0, <1>3, <2>1, <2>2 DEF QueueTypes, Queued, QueuedLen
<1> QED BY <1>1, <1>2, <1>3

\* A demotion moves a frame from one queue to the other.
LEMMA SettleIs ==
  ASSUME NEW n \in Seq(Normal), NEW b \in Seq(Normal \cup Background),
         NEW s \in {"none", "fresh", "aged"}, s # "none" => n # <<>>,
         Settle(n, b, s)
  PROVE  /\ normal' \in Seq(Normal) /\ bg' \in Seq(Normal \cup Background)
         /\ since' \in {"none", "fresh", "aged"} /\ (since' # "none" => normal' # <<>>)
         /\ ToSet(normal') \cup ToSet(bg') = ToSet(n) \cup ToSet(b)
         /\ Len(normal') + Len(bg') = Len(n) + Len(b)
<1>1. CASE s = "aged"
  <2>1. n # <<>> /\ normal' = Tail(n) /\ bg' = Append(b, Head(n)) /\ since' = "none"
    BY <1>1 DEF Settle
  <2>2. /\ Head(n) \in Normal /\ Tail(n) \in Seq(Normal) /\ Len(Tail(n)) = Len(n) - 1
        /\ ToSet(n) = {Head(n)} \cup ToSet(Tail(n)) /\ Len(n) \in Nat \ {0}
    BY <2>1, TailIs
  <2>3. /\ Append(b, Head(n)) \in Seq(Normal \cup Background)
        /\ Len(Append(b, Head(n))) = Len(b) + 1
        /\ ToSet(Append(b, Head(n))) = ToSet(b) \cup {Head(n)}
    BY <2>2, AppendIs
  <2> QED BY <2>1, <2>2, <2>3
<1>2. CASE s # "aged"
  BY <1>2 DEF Settle
<1> QED BY <1>1, <1>2

-----------------------------------------------------------------------------
(* The order of the High frames.                                           *)

LEMMA SendKeepsOrder ==
  ASSUME IInv, NEW f \in Frames, Send(f)
  PROVE  Ordered'
<1>1. /\ f \notin ToSet(sent) /\ outbound' = Append(outbound, f) /\ sent' = Append(sent, f)
      /\ high' = high /\ written' = written
      /\ outbound \in Seq(Frames) /\ sent \in Seq(Frames)
  BY DEF IInv, Fresh, Send, TypeOK, queues
<1>2. ToSet(high) \cup ToSet(outbound) \cup ToSet(written) \subseteq ToSet(sent)
  BY DEF IInv, Placed
<1>3. \A g \in ToSet(sent) : g \in High => g \in ToSet(high) \cup ToSet(outbound) \cup ToSet(written)
  <2>1. ToSet(normal) \cup ToSet(bg) \subseteq Normal \cup Background
    BY DEF IInv, TypeOK, ToSet
  <2> QED BY <2>1, WriterAssumption DEF IInv, Placed
<1> SUFFICES ASSUME NEW g \in High, NEW h \in High, Before(g, h)'
             PROVE  /\ \A l \in DOMAIN written : written[l] = h => Ahead(g, written, l)
                    /\ \A l \in DOMAIN high : high[l] = h => g \in ToSet(written) \/ Ahead(g, high, l)
                    /\ \A l \in DOMAIN outbound' : outbound'[l] = h =>
                          g \in ToSet(written) \cup ToSet(high) \/ Ahead(g, outbound', l)
  BY <1>1 DEF Ordered, Ahead
<1>4. Before(g, h) \/ (h = f /\ g \in ToSet(sent))
  <2>1. PICK i, j \in DOMAIN sent' : i < j /\ sent'[i] = g /\ sent'[j] = h
    BY DEF Before
  <2>2. i \in DOMAIN sent /\ sent[i] = g
    BY <1>1, <2>1, AppendIs
  <2>3. (j \in DOMAIN sent /\ sent[j] = h) \/ h = f
    BY <1>1, <2>1, AppendIs
  <2> QED BY <2>1, <2>2, <2>3 DEF Before, ToSet
<1>5. \A l \in DOMAIN outbound' : \/ l \in DOMAIN outbound /\ outbound'[l] = outbound[l]
                                  \/ l = Len(outbound) + 1 /\ outbound'[l] = f
  BY <1>1, AppendIs
<1>6. \A l \in DOMAIN outbound : Ahead(g, outbound, l) => Ahead(g, outbound', l)
  <2>1. \A l \in DOMAIN outbound : \A k \in 1..(l - 1) : k \in DOMAIN outbound /\ outbound'[k] = outbound[k]
    BY <1>1
  <2> QED BY <2>1 DEF Ahead
<1>7. g \in ToSet(outbound) => Ahead(g, outbound', Len(outbound) + 1)
  <2>1. \A k \in DOMAIN outbound : k \in 1..((Len(outbound) + 1) - 1) /\ outbound'[k] = outbound[k]
    BY <1>1
  <2> QED BY <2>1 DEF Ahead, ToSet
<1>8. CASE Before(g, h)
  <2>1. h \in ToSet(sent)
    BY <1>8 DEF Before, ToSet
  <2> QED BY <1>1, <1>5, <1>6, <1>8, <2>1 DEF IInv, Ordered
<1>9. CASE h = f /\ g \in ToSet(sent)
  <2>1. h \notin ToSet(written) /\ h \notin ToSet(high) /\ h \notin ToSet(outbound)
    BY <1>1, <1>2, <1>9
  <2>2. /\ \A l \in DOMAIN written : written[l] # h
        /\ \A l \in DOMAIN high : high[l] # h
        /\ \A l \in DOMAIN outbound : outbound[l] # h
    BY <2>1 DEF ToSet
  <2> QED BY <1>3, <1>5, <1>7, <1>9, <2>2
<1> QED BY <1>4, <1>8, <1>9

LEMMA TakeKeepsOrder ==
  ASSUME IInv, Take, sent' = sent, written' = written
  PROVE  Ordered'
<1> DEFINE f == Head(outbound)
<1>1. /\ outbound # <<>> /\ outbound' = Tail(outbound) /\ Route(f)
      /\ outbound \in Seq(Frames) /\ high \in Seq(High)
  BY DEF IInv, Take, TypeOK
<1>2. /\ f \in Frames /\ 1 \in DOMAIN outbound /\ outbound[1] = f
      /\ \A l \in DOMAIN outbound' : l + 1 \in DOMAIN outbound /\ outbound'[l] = outbound[l + 1]
  BY <1>1, TailIs
<1>3. high' = IF f \in High THEN Append(high, f) ELSE high
  BY <1>1, <1>2, RouteIs DEF IInv
<1> HIDE DEF f
<1> SUFFICES ASSUME NEW g \in High, NEW h \in High, Before(g, h)
             PROVE  /\ \A l \in DOMAIN written : written[l] = h => Ahead(g, written, l)
                    /\ \A l \in DOMAIN high' : high'[l] = h => g \in ToSet(written) \/ Ahead(g, high', l)
                    /\ \A l \in DOMAIN outbound' : outbound'[l] = h =>
                          g \in ToSet(written) \cup ToSet(high') \/ Ahead(g, outbound', l)
  BY DEF Ordered, Ahead, Before
<1>4. /\ \A l \in DOMAIN written : written[l] = h => Ahead(g, written, l)
      /\ \A l \in DOMAIN high : high[l] = h => g \in ToSet(written) \/ Ahead(g, high, l)
      /\ \A l \in DOMAIN outbound : outbound[l] = h =>
            g \in ToSet(written) \cup ToSet(high) \/ Ahead(g, outbound, l)
  BY DEF IInv, Ordered
<1>5. ToSet(high) \subseteq ToSet(high') /\ (g = f => g \in ToSet(high'))
  BY <1>1, <1>3, AppendIs
<1>6. \A l \in DOMAIN outbound' : outbound'[l] = h =>
          g \in ToSet(written) \cup ToSet(high') \/ Ahead(g, outbound', l)
  <2> SUFFICES ASSUME NEW l \in DOMAIN outbound', outbound'[l] = h,
                      g \notin ToSet(written) \cup ToSet(high')
               PROVE  Ahead(g, outbound', l)
    OBVIOUS
  <2>1. l + 1 \in DOMAIN outbound /\ outbound[l + 1] = h
    BY <1>2
  <2>2. Ahead(g, outbound, l + 1)
    BY <1>4, <1>5, <2>1
  <2>3. PICK k \in 1..((l + 1) - 1) : outbound[k] = g
    BY <2>2 DEF Ahead
  <2>4. k # 1
    BY <1>2, <1>5, <2>3
  <2>5. DOMAIN outbound' = 1..(Len(outbound) - 1) /\ Len(outbound) \in Nat
    BY <1>1
  <2>6. k - 1 \in 1..(l - 1) /\ k - 1 \in DOMAIN outbound'
    BY <2>3, <2>4, <2>5
  <2>7. outbound'[k - 1] = outbound[(k - 1) + 1]
    BY <1>2, <2>6
  <2> QED BY <2>3, <2>6, <2>7 DEF Ahead
<1>7. CASE f \in High
  <2>1. high' = Append(high, f)
    BY <1>3, <1>7
  <2>2. \A l \in DOMAIN high' : \/ l \in DOMAIN high /\ high'[l] = high[l]
                                \/ l = Len(high) + 1 /\ high'[l] = f
    BY <1>1, <1>7, <2>1, AppendIs
  <2>3. \A l \in DOMAIN high : Ahead(g, high, l) => Ahead(g, high', l)
    <3>1. \A l \in DOMAIN high : \A k \in 1..(l - 1) : k \in DOMAIN high /\ high'[k] = high[k]
      BY <1>1, <2>1
    <3> QED BY <3>1 DEF Ahead
  <2>4. g \in ToSet(high) => Ahead(g, high', Len(high) + 1)
    <3>1. \A k \in DOMAIN high : k \in 1..((Len(high) + 1) - 1) /\ high'[k] = high[k]
      BY <1>1, <2>1
    <3> QED BY <3>1 DEF Ahead, ToSet
  <2>5. ~Ahead(g, outbound, 1)
    BY DEF Ahead
  <2>6. f = h => g \in ToSet(written) \/ g \in ToSet(high)
    BY <1>2, <1>4, <2>5
  <2>7. \A l \in DOMAIN high' : high'[l] = h => g \in ToSet(written) \/ Ahead(g, high', l)
    BY <1>4, <2>2, <2>3, <2>4, <2>6
  <2> QED BY <1>4, <1>6, <2>7
<1>8. CASE f \notin High
  BY <1>3, <1>4, <1>6, <1>8
<1> QED BY <1>7, <1>8

\* A frame is written: the first of the High ones, or one of another priority.
LEMMA WriteKeepsOrder ==
  ASSUME IInv, NEW f \in Frames, written' = Append(written, f),
         sent' = sent, outbound' = outbound,
         \/ high # <<>> /\ f = Head(high) /\ high' = Tail(high)
         \/ f \notin High /\ high' = high
  PROVE  Ordered'
<1>1. written \in Seq(Frames) /\ high \in Seq(High)
  BY DEF IInv, TypeOK
<1> SUFFICES ASSUME NEW g \in High, NEW h \in High, Before(g, h)
             PROVE  /\ \A l \in DOMAIN written' : written'[l] = h => Ahead(g, written', l)
                    /\ \A l \in DOMAIN high' : high'[l] = h => g \in ToSet(written') \/ Ahead(g, high', l)
                    /\ \A l \in DOMAIN outbound : outbound[l] = h =>
                          g \in ToSet(written') \cup ToSet(high') \/ Ahead(g, outbound, l)
  BY DEF Ordered, Ahead, Before
<1>2. /\ \A l \in DOMAIN written : written[l] = h => Ahead(g, written, l)
      /\ \A l \in DOMAIN high : high[l] = h => g \in ToSet(written) \/ Ahead(g, high, l)
      /\ \A l \in DOMAIN outbound : outbound[l] = h =>
            g \in ToSet(written) \cup ToSet(high) \/ Ahead(g, outbound, l)
  BY DEF IInv, Ordered
<1>3. /\ ToSet(written') = ToSet(written) \cup {f}
      /\ \A l \in DOMAIN written' : \/ l \in DOMAIN written /\ written'[l] = written[l]
                                    \/ l = Len(written) + 1 /\ written'[l] = f
  BY <1>1, AppendIs
<1>4. \A l \in DOMAIN written : Ahead(g, written, l) => Ahead(g, written', l)
  <2>1. \A l \in DOMAIN written : \A k \in 1..(l - 1) : k \in DOMAIN written /\ written'[k] = written[k]
    BY <1>1
  <2> QED BY <2>1 DEF Ahead
<1>5. g \in ToSet(written) => Ahead(g, written', Len(written) + 1)
  <2>1. \A k \in DOMAIN written : k \in 1..((Len(written) + 1) - 1) /\ written'[k] = written[k]
    BY <1>1
  <2> QED BY <2>1 DEF Ahead, ToSet
<1>6. CASE high # <<>> /\ f = Head(high) /\ high' = Tail(high)
  <2>1. /\ 1 \in DOMAIN high /\ high[1] = f /\ ToSet(high) = {f} \cup ToSet(high')
        /\ \A l \in DOMAIN high' : l + 1 \in DOMAIN high /\ high'[l] = high[l + 1]
    BY <1>1, <1>6, TailIs
  <2>2. ~Ahead(g, high, 1)
    BY DEF Ahead
  <2>3. f = h => g \in ToSet(written)
    BY <1>2, <2>1, <2>2
  <2>4. \A l \in DOMAIN high' : high'[l] = h => g \in ToSet(written') \/ Ahead(g, high', l)
    <3> SUFFICES ASSUME NEW l \in DOMAIN high', high'[l] = h, g \notin ToSet(written')
                 PROVE  Ahead(g, high', l)
      OBVIOUS
    <3>1. Ahead(g, high, l + 1)
      BY <1>2, <1>3, <2>1
    <3>2. PICK k \in 1..((l + 1) - 1) : high[k] = g
      BY <3>1 DEF Ahead
    <3>3. k # 1
      BY <1>3, <2>1, <3>2
    <3>4. DOMAIN high' = 1..(Len(high) - 1) /\ Len(high) \in Nat
      BY <1>1, <1>6
    <3>5. k - 1 \in 1..(l - 1) /\ k - 1 \in DOMAIN high'
      BY <3>2, <3>3, <3>4
    <3>6. high'[k - 1] = high[(k - 1) + 1]
      BY <2>1, <3>5
    <3> QED BY <3>2, <3>5, <3>6 DEF Ahead
  <2>5. \A l \in DOMAIN written' : written'[l] = h => Ahead(g, written', l)
    BY <1>2, <1>3, <1>4, <1>5, <2>3
  <2> QED BY <1>2, <1>3, <2>1, <2>4, <2>5
<1>7. CASE f \notin High /\ high' = high
  <2>1. \A l \in DOMAIN written' : written'[l] = h => Ahead(g, written', l)
    BY <1>2, <1>3, <1>4, <1>7
  <2> QED BY <1>2, <1>3, <1>7, <2>1
<1> QED BY <1>6, <1>7

-----------------------------------------------------------------------------
(* The inductive invariant.                                                *)

LEMMA InitIInv == Init => IInv
<1> SUFFICES ASSUME Init PROVE IInv
  OBVIOUS
<1>1. TypeOK
  <2>1. \A S : <<>> \in Seq(S) /\ Len(<<>>) = 0
    OBVIOUS
  <2>2. Burst \in 0..Burst /\ 0 <= OutboundCap /\ 0 <= ReplyCap
    BY WriterAssumption
  <2> QED BY <2>1, <2>2 DEF Init, TypeOK
<1>2. sent = <<>> /\ written = <<>> /\ high = <<>> /\ outbound = <<>> /\ normal = <<>> /\ bg = <<>>
  BY DEF Init
<1>3. Fresh /\ Counted /\ Placed = ToSet(sent)
  BY <1>2 DEF Fresh, Counted, Placed, ToSet
<1>4. Ordered
  BY <1>2 DEF Ordered, Before
<1> QED BY <1>1, <1>3, <1>4 DEF IInv

LEMMA Lengths ==
  ASSUME TypeOK
  PROVE  /\ Len(outbound) \in Nat /\ Len(high) \in Nat /\ Len(normal) \in Nat
         /\ Len(bg) \in Nat /\ Len(written) \in Nat /\ Len(sent) \in Nat
BY DEF TypeOK

\* Arithmetic, apart from the sequences it is about.
LEMMA WriteSum ==
  ASSUME NEW o \in Nat, NEW h \in Nat, NEW n \in Nat, NEW b \in Nat, NEW w \in Nat, NEW k \in Nat,
         NEW hh \in Nat, NEW nn \in Nat, NEW bb \in Nat,
         o + h + n + b + w = k, h + n + b = hh + nn + bb + 1
  PROVE  o + hh + nn + bb + (w + 1) = k
OBVIOUS

LEMMA MoveSum ==
  ASSUME NEW h \in Nat, NEW n \in Nat, NEW b \in Nat, NEW t \in Nat, NEW nn \in Nat, NEW bb \in Nat,
         nn + bb = t + b, t = n - 1
  PROVE  h + n + b = h + nn + bb + 1
OBVIOUS

LEMMA SendStep ==
  ASSUME IInv, NEW f \in Frames, Send(f)
  PROVE  IInv'
<1>0. TypeOK /\ Fresh /\ Counted /\ Placed = ToSet(sent)
  BY DEF IInv
<1>1. /\ f \in unsent /\ unsent' = unsent \ {f} /\ Len(outbound) < OutboundCap
      /\ outbound' = Append(outbound, f) /\ sent' = Append(sent, f)
      /\ UNCHANGED <<pc, closed, outClosed, replies, high, normal, bg, since, tokens, written>>
  BY DEF Send, queues
<1>2. /\ outbound' \in Seq(Frames) /\ Len(outbound') = Len(outbound) + 1
      /\ ToSet(outbound') = ToSet(outbound) \cup {f}
  BY <1>0, <1>1, AppendIs DEF TypeOK
<1>3. sent' \in Seq(Frames) /\ Len(sent') = Len(sent) + 1 /\ ToSet(sent') = ToSet(sent) \cup {f}
  BY <1>0, <1>1, AppendIs DEF TypeOK
<1>4. TypeOK'
  BY <1>0, <1>1, <1>2, <1>3, Lengths, WriterAssumption DEF TypeOK
<1>5. Fresh'
  BY <1>0, <1>1, <1>3 DEF Fresh
<1>6. Counted'
  BY <1>0, <1>1, <1>2, <1>3, Lengths DEF Counted
<1>7. Placed' = ToSet(sent')
  BY <1>0, <1>1, <1>2, <1>3 DEF Placed
<1> QED BY <1>4, <1>5, <1>6, <1>7, SendKeepsOrder DEF IInv

LEMMA TakeStep ==
  ASSUME IInv, Take, pc' \in {"select", "drain", "drainReply"},
         UNCHANGED <<closed, outClosed, replies, tokens, history, unsent>>
  PROVE  IInv'
<1>0. TypeOK /\ Fresh /\ Counted /\ Placed = ToSet(sent)
  BY DEF IInv
<1>1. /\ outbound # <<>> /\ outbound' = Tail(outbound) /\ Route(Head(outbound))
      /\ UNCHANGED <<closed, outClosed, replies, tokens, sent, written, unsent>>
  BY DEF Take, history
<1>2. /\ Head(outbound) \in Frames /\ outbound' \in Seq(Frames) /\ Len(outbound') = Len(outbound) - 1
      /\ ToSet(outbound) = {Head(outbound)} \cup ToSet(outbound')
  BY <1>0, <1>1, TailIs DEF TypeOK
<1>3. /\ QueueTypes'
      /\ Queued' = Queued \cup {Head(outbound)} /\ QueuedLen' = QueuedLen + 1
  BY <1>0, <1>1, <1>2, RouteIs
<1>4. TypeOK'
  BY <1>0, <1>1, <1>2, <1>3, Lengths, WriterAssumption DEF TypeOK, QueueTypes, Ended
<1>5. Counted'
  <2>1. Len(high') \in Nat /\ Len(normal') \in Nat /\ Len(bg') \in Nat
    BY <1>3 DEF QueueTypes
  <2>2. /\ Len(written') = Len(written) /\ Len(sent') = Len(sent)
        /\ Len(outbound') = Len(outbound) - 1
        /\ Len(high') + Len(normal') + Len(bg') = Len(high) + Len(normal) + Len(bg) + 1
    BY <1>1, <1>2, <1>3 DEF QueuedLen
  <2>3. Len(outbound) + Len(high) + Len(normal) + Len(bg) + Len(written) = Len(sent)
    BY <1>0 DEF Counted
  <2>4. /\ Len(outbound) \in Nat /\ Len(high) \in Nat /\ Len(normal) \in Nat
        /\ Len(bg) \in Nat /\ Len(written) \in Nat /\ Len(sent) \in Nat
    BY <1>0, Lengths
  <2>5. Len(outbound') + Len(high') + Len(normal') + Len(bg') + Len(written') = Len(sent')
    BY <2>1, <2>2, <2>3, <2>4
  <2> QED BY <2>5 DEF Counted
<1>6. Placed' = ToSet(sent')
  BY <1>0, <1>1, <1>2, <1>3 DEF Placed, Queued
<1>7. Ordered'
  BY <1>1, TakeKeepsOrder
<1> QED BY <1>0, <1>1, <1>4, <1>5, <1>6, <1>7 DEF IInv, Fresh

\* What the three writes have in common.
LEMMA WriteStep ==
  ASSUME IInv, NEW f \in Frames, written' = Append(written, f), QueueTypes',
         Queued = Queued' \cup {f}, QueuedLen = QueuedLen' + 1,
         \/ high # <<>> /\ f = Head(high) /\ high' = Tail(high)
         \/ f \notin High /\ high' = high,
         tokens' \in 0..Burst,
         UNCHANGED <<pc, outbound, closed, outClosed, replies, sent, unsent>>
  PROVE  IInv'
<1>0. TypeOK /\ Fresh /\ Counted /\ Placed = ToSet(sent)
  BY DEF IInv
<1>1. /\ written' \in Seq(Frames) /\ Len(written') = Len(written) + 1
      /\ ToSet(written') = ToSet(written) \cup {f}
  BY <1>0, AppendIs DEF TypeOK
<1>2. TypeOK'
  BY <1>0, <1>1 DEF TypeOK, QueueTypes
<1>3. Counted'
  <2>1. Len(high') \in Nat /\ Len(normal') \in Nat /\ Len(bg') \in Nat
    BY DEF QueueTypes
  <2>2. /\ Len(written') = Len(written) + 1 /\ Len(sent') = Len(sent)
        /\ Len(outbound') = Len(outbound)
        /\ Len(high) + Len(normal) + Len(bg) = Len(high') + Len(normal') + Len(bg') + 1
    BY <1>1 DEF QueuedLen
  <2>3. Len(outbound) + Len(high) + Len(normal) + Len(bg) + Len(written) = Len(sent)
    BY <1>0 DEF Counted
  <2>4. /\ Len(outbound) \in Nat /\ Len(high) \in Nat /\ Len(normal) \in Nat
        /\ Len(bg) \in Nat /\ Len(written) \in Nat /\ Len(sent) \in Nat
    BY <1>0, Lengths
  <2>5. Len(outbound') + Len(high') + Len(normal') + Len(bg') + Len(written') = Len(sent')
    BY <2>1, <2>2, <2>3, <2>4, WriteSum
  <2> QED BY <2>5 DEF Counted
<1>4. Placed' = ToSet(sent')
  BY <1>0, <1>1 DEF Placed, Queued
<1>5. Ordered'
  BY WriteKeepsOrder
<1> QED BY <1>0, <1>2, <1>3, <1>4, <1>5 DEF IInv, Fresh

LEMMA WriteHighStep ==
  ASSUME IInv, WriteHigh
  PROVE  IInv'
<1>0. TypeOK /\ QueueTypes
  BY DEF IInv, TypeOK, QueueTypes
<1>1. /\ high # <<>> /\ high' = Tail(high) /\ written' = Append(written, Head(high))
      /\ Settle(normal, bg, since)
      /\ UNCHANGED <<pc, outbound, closed, outClosed, replies, tokens, sent, unsent>>
  BY DEF WriteHigh
<1>2. /\ Head(high) \in High /\ high' \in Seq(High) /\ Len(high') = Len(high) - 1
      /\ ToSet(high) = {Head(high)} \cup ToSet(high')
  BY <1>0, <1>1, TailIs DEF TypeOK
<1>3. /\ normal' \in Seq(Normal) /\ bg' \in Seq(Normal \cup Background)
      /\ since' \in {"none", "fresh", "aged"} /\ (since' # "none" => normal' # <<>>)
      /\ ToSet(normal') \cup ToSet(bg') = ToSet(normal) \cup ToSet(bg)
      /\ Len(normal') + Len(bg') = Len(normal) + Len(bg)
  BY <1>0, <1>1, SettleIs DEF TypeOK
<1>4. QueueTypes'
  BY <1>2, <1>3 DEF QueueTypes
<1>5. Queued = Queued' \cup {Head(high)}
  BY <1>2, <1>3 DEF Queued
<1>6. QueuedLen = QueuedLen' + 1
  <2>1. Len(high) \in Nat /\ Len(normal) \in Nat /\ Len(bg) \in Nat
    BY <1>0, Lengths
  <2>2. Len(normal') \in Nat /\ Len(bg') \in Nat
    BY <1>3
  <2>3. Len(high) + Len(normal) + Len(bg) = Len(high') + Len(normal') + Len(bg') + 1
    BY <1>2, <1>3, <2>1, <2>2
  <2> QED BY <2>3 DEF QueuedLen
<1>7. Head(high) \in Frames /\ tokens' \in 0..Burst
  BY <1>0, <1>1, <1>2 DEF Frames, TypeOK
<1> QED BY <1>1, <1>4, <1>5, <1>6, <1>7, WriteStep

LEMMA WriteNormalStep ==
  ASSUME IInv, WriteNormal
  PROVE  IInv'
<1> DEFINE s == IF Len(normal) = 1 THEN "none" ELSE since
<1>0. TypeOK /\ QueueTypes
  BY DEF IInv, TypeOK, QueueTypes
<1>1. /\ normal # <<>> /\ written' = Append(written, Head(normal)) /\ high' = high
      /\ Settle(Tail(normal), bg, s)
      /\ UNCHANGED <<pc, outbound, closed, outClosed, replies, tokens, sent, unsent>>
  BY DEF WriteNormal
<1>2. /\ Head(normal) \in Normal /\ Tail(normal) \in Seq(Normal) /\ Len(normal) \in Nat \ {0}
      /\ Len(Tail(normal)) = Len(normal) - 1
      /\ ToSet(normal) = {Head(normal)} \cup ToSet(Tail(normal))
  BY <1>0, <1>1, TailIs DEF TypeOK
<1>3. s \in {"none", "fresh", "aged"} /\ (s # "none" => Tail(normal) # <<>>)
  <2>1. Len(<<>>) = 0
    OBVIOUS
  <2>2. Len(normal) # 1 => Tail(normal) # <<>>
    BY <1>2, <2>1
  <2> QED BY <1>0, <2>2 DEF TypeOK
<1> HIDE DEF s
<1>4. /\ normal' \in Seq(Normal) /\ bg' \in Seq(Normal \cup Background)
      /\ since' \in {"none", "fresh", "aged"} /\ (since' # "none" => normal' # <<>>)
      /\ ToSet(normal') \cup ToSet(bg') = ToSet(Tail(normal)) \cup ToSet(bg)
      /\ Len(normal') + Len(bg') = Len(Tail(normal)) + Len(bg)
  BY <1>0, <1>1, <1>2, <1>3, SettleIs DEF TypeOK
<1>5. QueueTypes'
  BY <1>0, <1>1, <1>4 DEF QueueTypes
<1>6. Queued = Queued' \cup {Head(normal)}
  BY <1>1, <1>2, <1>4 DEF Queued
<1>7. QueuedLen = QueuedLen' + 1
  <2>1. Len(high) \in Nat /\ Len(normal) \in Nat /\ Len(bg) \in Nat
    BY <1>0, Lengths
  <2>2. Len(normal') \in Nat /\ Len(bg') \in Nat
    BY <1>4
  <2>3. Len(high) + Len(normal) + Len(bg) = Len(high') + Len(normal') + Len(bg') + 1
    <3>1. Len(high') = Len(high) /\ Len(Tail(normal)) \in Nat
      BY <1>1, <1>2
    <3> QED BY <1>2, <1>4, <2>1, <2>2, <3>1, MoveSum
  <2> QED BY <2>3 DEF QueuedLen
<1>8. /\ Head(normal) \in Frames /\ Head(normal) \notin High /\ tokens' \in 0..Burst
  BY <1>0, <1>1, <1>2, WriterAssumption DEF Frames, TypeOK
<1> QED BY <1>1, <1>5, <1>6, <1>7, <1>8, WriteStep

LEMMA WriteBackgroundStep ==
  ASSUME IInv, WriteBackground
  PROVE  IInv'
<1>0. TypeOK /\ QueueTypes
  BY DEF IInv, TypeOK, QueueTypes
<1>1. /\ bg # <<>> /\ written' = Append(written, Head(bg)) /\ bg' = Tail(bg)
      /\ tokens > 0 /\ tokens' = tokens - 1
      /\ UNCHANGED <<pc, outbound, closed, outClosed, replies, high, normal, since, sent, unsent>>
  BY DEF WriteBackground
<1>2. /\ Head(bg) \in Normal \cup Background /\ bg' \in Seq(Normal \cup Background)
      /\ Len(bg') = Len(bg) - 1
      /\ ToSet(bg) = {Head(bg)} \cup ToSet(bg')
  BY <1>0, <1>1, TailIs DEF TypeOK
<1>3. QueueTypes'
  BY <1>0, <1>1, <1>2 DEF QueueTypes
<1>4. Queued = Queued' \cup {Head(bg)}
  BY <1>1, <1>2 DEF Queued
<1>5. QueuedLen = QueuedLen' + 1
  BY <1>0, <1>1, <1>2, Lengths DEF QueuedLen
<1>6. Head(bg) \in Frames /\ Head(bg) \notin High /\ tokens' \in 0..Burst
  BY <1>0, <1>1, <1>2, WriterAssumption DEF Frames, TypeOK
<1> QED BY <1>1, <1>3, <1>4, <1>5, <1>6, WriteStep

\* Every other step leaves the frames where they are, but for a demotion.
LEMMA OtherStep ==
  ASSUME IInv, TypeOK', unsent' \subseteq unsent,
         ToSet(normal') \cup ToSet(bg') = ToSet(normal) \cup ToSet(bg),
         Len(normal') + Len(bg') = Len(normal) + Len(bg),
         UNCHANGED <<outbound, high, sent, written>>
  PROVE  IInv'
<1>1. Fresh' /\ Placed' = ToSet(sent')
  BY DEF IInv, Fresh, Placed
<1>2. Counted'
  <2>1. Len(normal') \in Nat /\ Len(bg') \in Nat
    BY DEF TypeOK
  <2> QED BY <2>1, Lengths DEF IInv, Counted
<1>3. Ordered'
  BY DEF IInv, Ordered, Before, Ahead
<1> QED BY <1>1, <1>2, <1>3 DEF IInv

LEMMA IInvStep == IInv /\ [Next]_vars => IInv'
<1> SUFFICES ASSUME IInv, [Next]_vars PROVE IInv'
  OBVIOUS
<1> USE DEF queues, history
<1>0. TypeOK
  BY DEF IInv
<1>1. ASSUME NEW f \in Frames, Send(f) PROVE IInv'
  BY <1>1, SendStep
<1>2. ASSUME NEW f \in Frames, SendFails(f) PROVE IInv'
  <2>1. TypeOK'
    BY <1>0, <1>2 DEF SendFails, TypeOK
  <2> QED BY <1>2, <2>1, OtherStep DEF SendFails
<1>3. ASSUME NEW r \in Replies, Reply(r) PROVE IInv'
  <2>1. /\ Append(replies, r) \in Seq(Replies) /\ Len(Append(replies, r)) = Len(replies) + 1
        /\ Len(replies) \in Nat
    BY <1>0 DEF TypeOK
  <2>2. replies' \in Seq(Replies) /\ Len(replies') <= ReplyCap
    BY <1>0, <1>3, <2>1, WriterAssumption DEF Reply, TypeOK
  <2>3. TypeOK'
    BY <1>0, <1>3, <2>2 DEF Reply, TypeOK
  <2> QED BY <1>3, <2>3, OtherStep DEF Reply
<1>4. CASE Close
  <2>1. TypeOK'
    BY <1>0, <1>4 DEF Close, TypeOK
  <2> QED BY <1>4, <2>1, OtherStep DEF Close
<1>5. CASE SelectReply \/ InnerReply
  <2>1. /\ Tail(replies) \in Seq(Replies) /\ Len(Tail(replies)) <= ReplyCap
    <3>1. replies \in Seq(Replies) /\ replies # <<>> /\ Len(replies) <= ReplyCap
      BY <1>0, <1>5 DEF SelectReply, InnerReply, TypeOK
    <3>2. /\ Tail(replies) \in Seq(Replies) /\ Len(Tail(replies)) = Len(replies) - 1
          /\ Len(replies) \in Nat \ {0}
      BY <3>1, TailIs
    <3> QED BY <3>1, <3>2, WriterAssumption
  <2>2. TypeOK'
    BY <1>0, <1>5, <2>1 DEF SelectReply, InnerReply, TypeOK
  <2> QED BY <1>5, <2>2, OtherStep DEF SelectReply, InnerReply
<1>6. CASE SelectFrame \/ Drain
  BY <1>6, TakeStep DEF SelectFrame, Drain
<1>7. CASE Drained \/ SelectClosed \/ NoToken \/ Wake \/ InnerEnds \/ WriteFails
  <2>1. /\ pc' \in {"select", "drain", "drainReply", "reply", "inner", "sleep"} \cup Ended
        /\ outClosed' \in BOOLEAN
        /\ UNCHANGED <<outbound, closed, replies, queues, tokens, history, unsent>>
    BY <1>0, <1>7 DEF Drained, SelectClosed, NoToken, Wake, InnerEnds, WriteFails, TypeOK, Ended
  <2>2. TypeOK'
    BY <1>0, <2>1 DEF TypeOK
  <2> QED BY <2>1, <2>2, OtherStep
<1>8. CASE WriteReply
  <2>1. /\ normal' \in Seq(Normal) /\ bg' \in Seq(Normal \cup Background)
        /\ since' \in {"none", "fresh", "aged"} /\ (since' # "none" => normal' # <<>>)
        /\ ToSet(normal') \cup ToSet(bg') = ToSet(normal) \cup ToSet(bg)
        /\ Len(normal') + Len(bg') = Len(normal) + Len(bg)
    BY <1>0, <1>8, SettleIs DEF WriteReply, TypeOK
  <2>2. TypeOK'
    BY <1>0, <1>8, <2>1 DEF WriteReply, TypeOK
  <2> QED BY <1>8, <2>1, <2>2, OtherStep DEF WriteReply
<1>9. CASE WriteHigh
  BY <1>9, WriteHighStep
<1>10. CASE WriteNormal
  BY <1>10, WriteNormalStep
<1>11. CASE WriteBackground
  BY <1>11, WriteBackgroundStep
<1>12. CASE Age
  <2>1. TypeOK'
    BY <1>0, <1>12 DEF Age, TypeOK
  <2> QED BY <1>12, <2>1, OtherStep DEF Age
<1>13. CASE Refill
  <2>1. TypeOK'
    BY <1>0, <1>13, WriterAssumption DEF Refill, TypeOK
  <2> QED BY <1>13, <2>1, OtherStep DEF Refill
<1>14. CASE UNCHANGED vars
  <2>1. TypeOK'
    BY <1>0, <1>14 DEF vars, TypeOK
  <2> QED BY <1>14, <2>1, OtherStep DEF vars
<1> QED
  BY <1>1, <1>2, <1>3, <1>4, <1>5, <1>6, <1>7, <1>8, <1>9, <1>10, <1>11, <1>12, <1>13, <1>14
     DEF Next, Writer

LEMMA IInvAlways == Spec => []IInv
BY InitIInv, IInvStep, PTL DEF Spec

-----------------------------------------------------------------------------
\* The queues hold frames of their priorities, the channels are within their capacities,
\* first_normal_at is set only while a Normal frame waits (else a demotion would find none).
THEOREM TypeCorrect == Spec => []TypeOK
<1>1. IInv => TypeOK
  BY DEF IInv
<1> QED BY IInvAlways, <1>1, PTL

\* No frame that the channel accepted is lost or repeated between the channel, the queues
\* and stdin, whatever is demoted: route_into, demote_one_normal and pick_next only move frames.
THEOREM FramesAreKept == Spec => []NoFrameIsLost
<1>1. IInv => NoFrameIsLost
  <2> SUFFICES ASSUME IInv PROVE NoFrameIsLost
    OBVIOUS
  <2> DEFINE S == Frames
  <2>1. /\ outbound \in Seq(S) /\ high \in Seq(S) /\ normal \in Seq(S) /\ bg \in Seq(S) /\ written \in Seq(S)
    <3>1. High \subseteq S /\ Normal \subseteq S /\ Background \subseteq S
      BY DEF Frames
    <3> HIDE DEF S
    <3>2. \A T \in SUBSET S : Seq(T) \subseteq Seq(S)
      OBVIOUS
    <3>3. outbound \in Seq(S) /\ written \in Seq(S)
      BY DEF IInv, TypeOK, S
    <3>4. high \in Seq(High) /\ normal \in Seq(Normal) /\ bg \in Seq(Normal \cup Background)
      BY DEF IInv, TypeOK
    <3>5. Normal \cup Background \in SUBSET S /\ High \in SUBSET S /\ Normal \in SUBSET S
      BY <3>1
    <3> QED BY <3>2, <3>3, <3>4, <3>5
  <2>2. /\ Len(outbound \o high \o normal \o bg \o written)
             = Len(outbound) + Len(high) + Len(normal) + Len(bg) + Len(written)
        /\ ToSet(outbound \o high \o normal \o bg \o written)
             = ToSet(outbound) \cup ToSet(high) \cup ToSet(normal) \cup ToSet(bg) \cup ToSet(written)
    BY <2>1, FiveConcat
  <2> QED BY <2>2 DEF IInv, Counted, Placed, NoFrameIsLost
<1> QED BY IInvAlways, <1>1, PTL

\* High frames reach stdin in the order of their sends, for any traffic, capacities and
\* demotions: didOpen before the request about the document.
THEOREM HighStaysInOrder == Spec => []HighInOrder
<1>1. IInv => HighInOrder
  BY DEF IInv, Ordered, Before, Ahead, HighInOrder
<1> QED BY IInvAlways, <1>1, PTL

=============================================================================
