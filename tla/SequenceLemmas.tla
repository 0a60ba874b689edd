---------------------------- MODULE SequenceLemmas ----------------------------
(***************************************************************************)
(* What the operations on sequences do to their elements, as far as the    *)
(* proofs about PriorityWriter, WritePath, UndoLog and Framing need it;    *)
(* and what the lines of texts are, for those about TextEdits.             *)
(***************************************************************************)
EXTENDS Integers, SequencesExt, TextLines, FiniteSetTheorems, WellFoundedInduction, TLAPS

LEMMA AppendIs ==
  ASSUME NEW S, NEW q \in Seq(S), NEW e \in S
  PROVE  /\ Append(q, e) \in Seq(S) /\ Len(Append(q, e)) = Len(q) + 1
         /\ ToSet(Append(q, e)) = ToSet(q) \cup {e}
         /\ \A l \in DOMAIN Append(q, e) :
              \/ l \in DOMAIN q /\ Append(q, e)[l] = q[l]
              \/ l = Len(q) + 1 /\ Append(q, e)[l] = e
         /\ \A l \in DOMAIN q : l \in DOMAIN Append(q, e) /\ Append(q, e)[l] = q[l]
<1>1. /\ Append(q, e) \in Seq(S) /\ Len(Append(q, e)) = Len(q) + 1
      /\ Append(q, e)[Len(q) + 1] = e /\ Len(q) + 1 \in DOMAIN Append(q, e)
      /\ \A l \in DOMAIN q : l \in DOMAIN Append(q, e) /\ Append(q, e)[l] = q[l]
      /\ \A l \in DOMAIN Append(q, e) : l \in DOMAIN q \/ l = Len(q) + 1
  OBVIOUS
<1>2. ToSet(Append(q, e)) = ToSet(q) \cup {e}
  BY <1>1 DEF ToSet
<1> QED BY <1>1, <1>2

LEMMA TailIs ==
  ASSUME NEW S, NEW q \in Seq(S), q # <<>>
  PROVE  /\ Head(q) \in S /\ Tail(q) \in Seq(S) /\ Len(Tail(q)) = Len(q) - 1
         /\ ToSet(q) = {Head(q)} \cup ToSet(Tail(q))
         /\ 1 \in DOMAIN q /\ q[1] = Head(q) /\ Len(q) \in Nat \ {0}
         /\ \A l \in DOMAIN Tail(q) : l + 1 \in DOMAIN q /\ Tail(q)[l] = q[l + 1]
<1>1. /\ Head(q) \in S /\ Tail(q) \in Seq(S) /\ Len(Tail(q)) = Len(q) - 1
      /\ 1 \in DOMAIN q /\ q[1] = Head(q) /\ Len(q) \in Nat \ {0}
      /\ DOMAIN q = 1..Len(q) /\ DOMAIN Tail(q) = 1..(Len(q) - 1)
      /\ \A l \in DOMAIN Tail(q) : l + 1 \in DOMAIN q /\ Tail(q)[l] = q[l + 1]
  OBVIOUS
<1>2. \A l \in DOMAIN q \ {1} : l - 1 \in DOMAIN Tail(q) /\ Tail(q)[l - 1] = q[l]
  BY <1>1
<1>3. \A x : (\E l \in DOMAIN q : q[l] = x) <=> (x = Head(q) \/ \E l \in DOMAIN Tail(q) : Tail(q)[l] = x)
  BY <1>1, <1>2
<1>4. ToSet(q) = {Head(q)} \cup ToSet(Tail(q))
  BY <1>3 DEF ToSet
<1> QED BY <1>1, <1>4

LEMMA ConcatIs ==
  ASSUME NEW S, NEW q \in Seq(S), NEW r \in Seq(S)
  PROVE  /\ q \o r \in Seq(S) /\ Len(q \o r) = Len(q) + Len(r)
         /\ ToSet(q \o r) = ToSet(q) \cup ToSet(r)
<1>1. /\ q \o r \in Seq(S) /\ Len(q \o r) = Len(q) + Len(r)
      /\ Len(q) \in Nat /\ Len(r) \in Nat
      /\ DOMAIN q = 1..Len(q) /\ DOMAIN r = 1..Len(r) /\ DOMAIN (q \o r) = 1..(Len(q) + Len(r))
  OBVIOUS
<1>2. \A l \in DOMAIN q : l \in DOMAIN (q \o r) /\ (q \o r)[l] = q[l]
  BY <1>1
<1>3. \A l \in DOMAIN r : l + Len(q) \in DOMAIN (q \o r) /\ (q \o r)[l + Len(q)] = r[l]
  BY <1>1
<1>4. \A l \in DOMAIN (q \o r) :
         \/ l \in DOMAIN q /\ (q \o r)[l] = q[l]
         \/ l - Len(q) \in DOMAIN r /\ (q \o r)[l] = r[l - Len(q)]
  BY <1>1
<1>5. \A x : (\E l \in DOMAIN (q \o r) : (q \o r)[l] = x)
               <=> (\E l \in DOMAIN q : q[l] = x) \/ (\E l \in DOMAIN r : r[l] = x)
  BY <1>2, <1>3, <1>4
<1>6. ToSet(q \o r) = ToSet(q) \cup ToSet(r)
  BY <1>5 DEF ToSet
<1> QED BY <1>1, <1>6

LEMMA FiveConcat ==
  ASSUME NEW S, NEW p \in Seq(S), NEW q \in Seq(S), NEW r \in Seq(S), NEW t \in Seq(S), NEW u \in Seq(S)
  PROVE  /\ Len(p \o q \o r \o t \o u) = Len(p) + Len(q) + Len(r) + Len(t) + Len(u)
         /\ ToSet(p \o q \o r \o t \o u)
              = ToSet(p) \cup ToSet(q) \cup ToSet(r) \cup ToSet(t) \cup ToSet(u)
<1>1. \A x, y \in Seq(S) : /\ x \o y \in Seq(S) /\ Len(x \o y) = Len(x) + Len(y)
                           /\ ToSet(x \o y) = ToSet(x) \cup ToSet(y)
  BY ConcatIs
<1>2. /\ p \o q \in Seq(S) /\ p \o q \o r \in Seq(S) /\ p \o q \o r \o t \in Seq(S)
  BY <1>1
<1>3. /\ Len(p \o q) = Len(p) + Len(q)
      /\ Len(p \o q \o r) = Len(p \o q) + Len(r)
      /\ Len(p \o q \o r \o t) = Len(p \o q \o r) + Len(t)
      /\ Len(p \o q \o r \o t \o u) = Len(p \o q \o r \o t) + Len(u)
  BY <1>1, <1>2
<1>4. /\ ToSet(p \o q) = ToSet(p) \cup ToSet(q)
      /\ ToSet(p \o q \o r) = ToSet(p \o q) \cup ToSet(r)
      /\ ToSet(p \o q \o r \o t) = ToSet(p \o q \o r) \cup ToSet(t)
      /\ ToSet(p \o q \o r \o t \o u) = ToSet(p \o q \o r \o t) \cup ToSet(u)
  BY <1>1, <1>2
<1> QED BY <1>3, <1>4

-----------------------------------------------------------------------------
LEMMA SubSeqIs ==
  ASSUME NEW S, NEW q \in Seq(S), NEW m \in 1..(Len(q) + 1), NEW n \in 0..Len(q)
  PROVE  /\ SubSeq(q, m, n) \in Seq(S)
         /\ Len(SubSeq(q, m, n)) = IF m <= n THEN n - m + 1 ELSE 0
         /\ DOMAIN SubSeq(q, m, n) = 1..(n - m + 1)
         /\ \A l \in 1..(n - m + 1) : SubSeq(q, m, n)[l] = q[l + m - 1]
OBVIOUS

\* A part of a sequence without repetitions.
LEMMA PartIs ==
  ASSUME NEW S, NEW q \in Seq(S), IsInjective(q), NEW k \in 0..Len(q)
  PROVE  /\ SubSeq(q, 1, k) \in Seq(S) /\ SubSeq(q, k + 1, Len(q)) \in Seq(S)
         /\ IsInjective(SubSeq(q, k + 1, Len(q)))
         /\ ToSet(SubSeq(q, k + 1, Len(q))) = ToSet(q) \ ToSet(SubSeq(q, 1, k))
         /\ IsFiniteSet(ToSet(SubSeq(q, 1, k))) /\ Cardinality(ToSet(SubSeq(q, 1, k))) = k
         /\ ToSet(SubSeq(q, 1, k)) \subseteq ToSet(q)
         /\ k = Len(q) => SubSeq(q, k + 1, Len(q)) = <<>>
<1> DEFINE a == SubSeq(q, 1, k)
           b == SubSeq(q, k + 1, Len(q))
<1>0. Len(q) \in Nat /\ DOMAIN q = 1..Len(q) /\ k \in Nat /\ k <= Len(q)
  OBVIOUS
<1>1. a \in Seq(S) /\ DOMAIN a = 1..k /\ \A l \in 1..k : a[l] = q[l]
  BY <1>0, SubSeqIs
<1>2. b \in Seq(S) /\ DOMAIN b = 1..(Len(q) - k) /\ \A l \in 1..(Len(q) - k) : b[l] = q[l + k]
  BY <1>0, SubSeqIs
<1> HIDE DEF a, b
<1>3. IsInjective(b)
  <2> SUFFICES ASSUME NEW x \in DOMAIN b, NEW y \in DOMAIN b, b[x] = b[y] PROVE x = y
    BY DEF IsInjective
  <2>1. q[x + k] = q[y + k] /\ x + k \in DOMAIN q /\ y + k \in DOMAIN q
    BY <1>0, <1>2
  <2>2. x + k = y + k
    BY <2>1 DEF IsInjective
  <2> QED BY <1>0, <1>2, <2>2
<1>4. ToSet(b) = ToSet(q) \ ToSet(a)
  <2>1. \A x : x \in ToSet(b) <=> \E l \in (k + 1)..Len(q) : q[l] = x
    <3>1. \A l \in (k + 1)..Len(q) : l - k \in 1..(Len(q) - k) /\ b[l - k] = q[l]
      BY <1>0, <1>2
    <3>2. \A l \in 1..(Len(q) - k) : l + k \in (k + 1)..Len(q)
      BY <1>0
    <3>3. \A x : (\E l \in 1..(Len(q) - k) : b[l] = x) <=> (\E l \in (k + 1)..Len(q) : q[l] = x)
      BY <1>2, <3>1, <3>2
    <3> QED BY <1>2, <3>3 DEF ToSet
  <2>2. \A x : x \in ToSet(a) <=> \E l \in 1..k : q[l] = x
    BY <1>1 DEF ToSet
  <2>3. \A x : x \in ToSet(q) <=> \E l \in 1..Len(q) : q[l] = x
    BY <1>0 DEF ToSet
  <2>4. \A l, m \in 1..Len(q) : q[l] = q[m] => l = m
    BY <1>0 DEF IsInjective
  <2> QED BY <1>0, <2>1, <2>2, <2>3, <2>4
<1>5. IsFiniteSet(ToSet(a)) /\ Cardinality(ToSet(a)) = k
  <2> DEFINE f == [l \in 1..k |-> q[l]]
  <2>1. \A l, m \in 1..k : q[l] = q[m] => l = m
    BY <1>0 DEF IsInjective
  <2>2. ToSet(a) = {q[l] : l \in 1..k}
    BY <1>1 DEF ToSet
  <2>3. f \in Bijection(1..k, ToSet(a))
    BY <2>1, <2>2 DEF Bijection, Injection, Surjection, IsInjective
  <2>4. IsFiniteSet(1..k) /\ Cardinality(1..k) = k
    BY <1>0, FS_Interval
  <2> QED BY <2>3, <2>4, FS_Bijection DEF ExistsBijection
<1>6. ToSet(a) \subseteq ToSet(q)
  BY <1>0, <1>1 DEF ToSet
<1>7. k = Len(q) => b = <<>>
  BY <1>0, <1>2
<1> QED BY <1>1, <1>2, <1>3, <1>4, <1>5, <1>6, <1>7 DEF a, b

\* One element less.
LEMMA RemoveAtIs ==
  ASSUME NEW S, NEW q \in Seq(S), IsInjective(q), NEW i \in DOMAIN q
  PROVE  /\ RemoveAt(q, i) \in Seq(S) /\ IsInjective(RemoveAt(q, i))
         /\ ToSet(RemoveAt(q, i)) = ToSet(q) \ {q[i]}
<1> DEFINE a == SubSeq(q, 1, i - 1)
           b == SubSeq(q, i + 1, Len(q))
           r == RemoveAt(q, i)
<1>0. Len(q) \in Nat /\ DOMAIN q = 1..Len(q) /\ i \in 1..Len(q)
  OBVIOUS
<1>1. a \in Seq(S) /\ Len(a) = i - 1 /\ \A l \in 1..(i - 1) : a[l] = q[l]
  BY <1>0, SubSeqIs
<1>2. b \in Seq(S) /\ Len(b) = Len(q) - i /\ \A l \in 1..(Len(q) - i) : b[l] = q[l + i]
  BY <1>0, SubSeqIs
<1>3. r = a \o b
  BY DEF RemoveAt
<1> HIDE DEF a, b, r
<1>4. r \in Seq(S) /\ DOMAIN r = 1..(Len(q) - 1)
  <2>1. r \in Seq(S) /\ Len(r) = Len(a) + Len(b)
    BY <1>1, <1>2, <1>3, ConcatIs
  <2> QED BY <1>0, <1>1, <1>2, <2>1
<1>5. \A l \in 1..(Len(q) - 1) : r[l] = IF l < i THEN q[l] ELSE q[l + 1]
  <2> SUFFICES ASSUME NEW l \in 1..(Len(q) - 1) PROVE r[l] = IF l < i THEN q[l] ELSE q[l + 1]
    OBVIOUS
  <2>1. CASE l < i
    BY <1>0, <1>1, <1>2, <1>3, <2>1
  <2>2. CASE ~(l < i)
    <3>1. r[l] = b[l - (i - 1)]
      BY <1>0, <1>1, <1>2, <1>3, <2>2
    <3>2. l - (i - 1) \in 1..(Len(q) - i) /\ (l - (i - 1)) + i = l + 1
      BY <1>0, <2>2
    <3> QED BY <1>2, <2>2, <3>1, <3>2
  <2> QED BY <2>1, <2>2
<1>6. \A l, m \in 1..Len(q) : q[l] = q[m] => l = m
  BY <1>0 DEF IsInjective
<1>7. IsInjective(r)
  <2> SUFFICES ASSUME NEW x \in DOMAIN r, NEW y \in DOMAIN r, r[x] = r[y] PROVE x = y
    BY DEF IsInjective
  <2> QED BY <1>0, <1>4, <1>5, <1>6
<1>8. \A x : x \in ToSet(r) <=> x \in ToSet(q) /\ x # q[i]
  <2>1. \A x : x \in ToSet(q) <=> \E l \in 1..Len(q) : q[l] = x
    BY <1>0 DEF ToSet
  <2>2. \A x : x \in ToSet(r) <=> \E l \in 1..(Len(q) - 1) : r[l] = x
    BY <1>4 DEF ToSet
  <2>3. \A l \in 1..(Len(q) - 1) : \E m \in 1..Len(q) : m # i /\ r[l] = q[m]
    BY <1>0, <1>5
  <2>4. \A m \in 1..Len(q) : m # i => \E l \in 1..(Len(q) - 1) : r[l] = q[m]
    <3> SUFFICES ASSUME NEW m \in 1..Len(q), m # i PROVE \E l \in 1..(Len(q) - 1) : r[l] = q[m]
      OBVIOUS
    <3>1. CASE m < i
      <4>1. m \in 1..(Len(q) - 1) /\ r[m] = q[m]
        BY <1>0, <1>5, <3>1
      <4> QED BY <4>1
    <3>2. CASE m > i
      <4>1. m - 1 \in 1..(Len(q) - 1) /\ r[m - 1] = q[(m - 1) + 1] /\ (m - 1) + 1 = m
        BY <1>0, <1>5, <3>2
      <4> QED BY <4>1
    <3> QED BY <1>0, <3>1, <3>2
  <2>5. \A x : x \in ToSet(r) => \E m \in 1..Len(q) : m # i /\ x = q[m]
    BY <2>2, <2>3
  <2>6. \A m \in 1..Len(q) : m # i => q[m] # q[i]
    BY <1>0, <1>6
  <2>7. \A x : x \in ToSet(r) => x \in ToSet(q) /\ x # q[i]
    BY <2>1, <2>5, <2>6
  <2>8. \A x : x \in ToSet(q) /\ x # q[i] => x \in ToSet(r)
    BY <2>1, <2>2, <2>4
  <2> QED BY <2>7, <2>8
<1> QED BY <1>4, <1>7, <1>8 DEF r

-----------------------------------------------------------------------------
(* Functions on the first numbers.                                         *)

Indexed(s, n) == s = [i \in 1..n |-> s[i]]
Shifted(s, t, n) == \A i \in 1..n : t[i + 1] = s[i]

\* Any function on the first n numbers is a sequence.
LEMMA FunctionIsSeq ==
  ASSUME NEW n \in Nat, NEW s, Indexed(s, n)
  PROVE  \E T : s \in Seq(T) /\ Len(s) = n
<1> DEFINE T == {s[i] : i \in 1..n}
<1>1. \A i \in 1..n : s[i] \in T
  OBVIOUS
<1> HIDE DEF T
<1>2. s \in [1..n -> T]
  BY <1>1 DEF Indexed
<1>3. s \in Seq(T) /\ Len(s) = n
  BY <1>2
<1> QED BY <1>3

\* One more at the end, one more at the beginning.
OneLater(t, s, e) == t = Append(s, e) /\ t # <<>> /\ Front(t) = s /\ Last(t) = e
OneSooner(t, s, e) == t = <<e>> \o s /\ t # <<>> /\ Tail(t) = s /\ Head(t) = e

LEMMA AppendOne ==
  ASSUME NEW n \in Nat, NEW s, Indexed(s, n), NEW e,
         NEW t, Indexed(t, n + 1), t[n + 1] = e, \A i \in 1..n : t[i] = s[i]
  PROVE  OneLater(t, s, e)
<1>1. PICK S : s \in Seq(S) /\ Len(s) = n
  BY FunctionIsSeq
<1>2. PICK T : t \in Seq(T) /\ Len(t) = n + 1
  <2>1. n + 1 \in Nat
    OBVIOUS
  <2>2. PICK m : m = n + 1
    OBVIOUS
  <2>3. Indexed(t, m)
    BY <2>2
  <2>4. \E T : t \in Seq(T) /\ Len(t) = m
    BY <2>1, <2>2, <2>3, FunctionIsSeq
  <2> QED BY <2>2, <2>4
<1>3. t = Append(s, e)
  <2>1. Append(s, e) = [i \in 1..(n + 1) |-> IF i = n + 1 THEN e ELSE s[i]]
    BY <1>1 DEF Indexed
  <2>2. \A i \in 1..(n + 1) : t[i] = IF i = n + 1 THEN e ELSE s[i]
    <3>1. \A i \in 1..(n + 1) : i = n + 1 \/ i \in 1..n
      OBVIOUS
    <3>2. \A i \in 1..n : i # n + 1
      OBVIOUS
    <3> QED BY <3>1, <3>2
  <2> QED BY <2>1, <2>2 DEF Indexed
<1>4. Front(t) = s
  <2>1. Front(t) = [i \in 1..n |-> t[i]]
    BY <1>2 DEF Front
  <2> QED BY <2>1 DEF Indexed
<1> QED BY <1>2, <1>3, <1>4 DEF Last, OneLater

LEMMA PrependOne ==
  ASSUME NEW n \in Nat, NEW s, Indexed(s, n), NEW e,
         NEW t, Indexed(t, n + 1), t[1] = e, Shifted(s, t, n)
  PROVE  OneSooner(t, s, e)
<1>1. PICK S : s \in Seq(S) /\ Len(s) = n
  BY FunctionIsSeq
<1>2. PICK T : t \in Seq(T) /\ Len(t) = n + 1
  <2>1. n + 1 \in Nat
    OBVIOUS
  <2>2. PICK m : m = n + 1
    OBVIOUS
  <2>3. Indexed(t, m)
    BY <2>2
  <2>4. \E T : t \in Seq(T) /\ Len(t) = m
    BY <2>1, <2>2, <2>3, FunctionIsSeq
  <2> QED BY <2>2, <2>4
<1>3. t = <<e>> \o s
  <2>1. <<e>> \o s = [i \in 1..(n + 1) |-> IF i <= 1 THEN e ELSE s[i - 1]]
    <3>1. <<e>> \in Seq({e}) /\ Len(<<e>>) = 1 /\ <<e>>[1] = e
      OBVIOUS
    <3>2. \A i \in 1..1 : i = 1
      OBVIOUS
    <3> QED BY <1>1, <3>1, <3>2
  <2>2. \A i \in 1..(n + 1) : t[i] = IF i <= 1 THEN e ELSE s[i - 1]
    <3>1. \A i \in 1..(n + 1) : i = 1 \/ (~(i <= 1) /\ i - 1 \in 1..n /\ (i - 1) + 1 = i)
      OBVIOUS
    <3>2. ASSUME NEW i \in 1..(n + 1), i = 1 PROVE t[i] = IF i <= 1 THEN e ELSE s[i - 1]
      BY <3>2
    <3>3. ASSUME NEW i \in 1..(n + 1), ~(i <= 1), i - 1 \in 1..n, (i - 1) + 1 = i
          PROVE  t[i] = IF i <= 1 THEN e ELSE s[i - 1]
      BY <3>3 DEF Shifted
    <3> QED BY <3>1, <3>2, <3>3
  <2> QED BY <2>1, <2>2 DEF Indexed
<1>4. Tail(t) = s
  <2>1. Tail(t) = [i \in 1..n |-> t[i + 1]]
    BY <1>2 DEF Indexed
  <2> QED BY <2>1 DEF Indexed, Shifted
<1> QED BY <1>2, <1>3, <1>4 DEF OneSooner

-----------------------------------------------------------------------------
(* Stretches of a sequence, and the least of some numbers.                 *)

\* A set of numbers has a least one.
LEMMA LeastIs ==
  ASSUME NEW T \in SUBSET Nat, T # {}
  PROVE  \E m \in T : \A k \in T : m <= k
<1> DEFINE R == OpToRel(<, Nat)
<1>1. IsWellFoundedOn(R, Nat)
  BY NatLessThanWellFounded
<1> HIDE DEF R
<1>2. PICK m \in T : \A k \in T : ~ (<<k, m>> \in R)
  BY <1>1, WFMin
<1>3. \A k \in T : ~ (k < m)
  BY <1>2 DEF R, OpToRel
<1> QED BY <1>3

LEMMA Reaches ==
  ASSUME NEW n \in Nat, NEW Good, 0 \in Good, \A m \in 1..n : m - 1 \in Good => m \in Good
  PROVE  n \in Good
<1> DEFINE bad == {m \in 0..n : m \notin Good}
<1>1. ASSUME bad # {} PROVE FALSE
  <2>1. bad \in SUBSET Nat
    OBVIOUS
  <2>2. PICK m \in bad : \A i \in bad : m <= i
    <3> HIDE DEF bad
    <3> QED BY <1>1, <2>1, LeastIs
  <2>3. m \in 1..n /\ m - 1 \in 0..n /\ ~(m <= m - 1) /\ m \notin Good
    OBVIOUS
  <2>4. m - 1 \in Good
    BY <2>2, <2>3
  <2> QED BY <2>3, <2>4
<1>2. n \in 0..n
  OBVIOUS
<1> QED BY <1>1, <1>2

\* The bytes after the first i, up to the first j.
LEMMA StretchIs ==
  ASSUME NEW S, NEW q \in Seq(S), NEW i \in 0..Len(q), NEW j \in i..Len(q)
  PROVE  /\ SubSeq(q, i + 1, j) \in Seq(S) /\ Len(SubSeq(q, i + 1, j)) = j - i
         /\ \A l \in 1..j - i : SubSeq(q, i + 1, j)[l] = q[i + l]
OBVIOUS

\* A stretch of a stretch.
LEMMA StretchOfStretch ==
  ASSUME NEW S, NEW q \in Seq(S), NEW i \in 0..Len(q), NEW j \in i..Len(q),
         NEW a \in 0..j - i, NEW b \in a..j - i
  PROVE  SubSeq(SubSeq(q, i + 1, j), a + 1, b) = SubSeq(q, (i + a) + 1, i + b)
<1> DEFINE p == SubSeq(q, i + 1, j)
           x == SubSeq(p, a + 1, b)
           y == SubSeq(q, (i + a) + 1, i + b)
<1>1. p \in Seq(S) /\ Len(p) = j - i /\ \A l \in 1..j - i : p[l] = q[i + l]
  BY StretchIs
<1>2. i + a \in 0..Len(q) /\ i + b \in (i + a)..Len(q) /\ a \in 0..Len(p) /\ b \in a..Len(p)
  BY <1>1
<1> HIDE DEF p
<1>3. x \in Seq(S) /\ Len(x) = b - a /\ \A l \in 1..b - a : x[l] = p[a + l]
  BY <1>1, <1>2, StretchIs
<1>4. y \in Seq(S) /\ Len(y) = b - a /\ \A l \in 1..b - a : y[l] = q[i + a + l]
  BY <1>2, StretchIs
<1>5. \A l \in 1..b - a : a + l \in 1..j - i /\ i + (a + l) = i + a + l
  OBVIOUS
<1> HIDE DEF x, y
<1>6. \A l \in 1..b - a : x[l] = y[l]
  BY <1>1, <1>3, <1>4, <1>5
<1>7. x = y
  BY <1>3, <1>4, <1>6
<1> QED BY <1>7 DEF x, y, p

\* What is where when one sequence follows another.
LEMMA ElementOfConcat ==
  ASSUME NEW S, NEW x \in Seq(S), NEW y \in Seq(S)
  PROVE  /\ \A l \in 1..Len(x) : (x \o y)[l] = x[l]
         /\ \A l \in Len(x) + 1..Len(x) + Len(y) : (x \o y)[l] = y[l - Len(x)]
OBVIOUS

\* Sequences of the same elements are the same.
LEMMA SameElements ==
  ASSUME NEW S, NEW x \in Seq(S), NEW y \in Seq(S), Len(x) = Len(y),
         \A l \in 1..Len(x) : x[l] = y[l]
  PROVE  x = y
OBVIOUS

\* Stretches that follow one another are one stretch.
LEMMA StretchesJoin ==
  ASSUME NEW S, NEW q \in Seq(S), NEW i \in 0..Len(q), NEW j \in i..Len(q), NEW k \in j..Len(q)
  PROVE  SubSeq(q, i + 1, j) \o SubSeq(q, j + 1, k) = SubSeq(q, i + 1, k)
<1> DEFINE x == SubSeq(q, i + 1, j)
           y == SubSeq(q, j + 1, k)
           z == SubSeq(q, i + 1, k)
<1>1. x \in Seq(S) /\ Len(x) = j - i /\ \A l \in 1..j - i : x[l] = q[i + l]
  BY StretchIs
<1>2. y \in Seq(S) /\ Len(y) = k - j /\ \A l \in 1..k - j : y[l] = q[j + l]
  BY StretchIs
<1>3. z \in Seq(S) /\ Len(z) = k - i /\ \A l \in 1..k - i : z[l] = q[i + l]
  BY StretchIs
<1> HIDE DEF x, y, z
<1>4. x \o y \in Seq(S) /\ Len(x \o y) = k - i
  <2>1. x \o y \in Seq(S) /\ Len(x \o y) = Len(x) + Len(y)
    <3>1. x \in Seq(S) /\ y \in Seq(S)
      BY <1>1, <1>2
    <3> QED BY <3>1, ConcatIs
  <2> QED BY <1>1, <1>2, <2>1
<1>5. \A l \in 1..k - i : (x \o y)[l] = q[i + l]
  <2> SUFFICES ASSUME NEW l \in 1..k - i PROVE (x \o y)[l] = q[i + l]
    OBVIOUS
  <2> Len(q) \in Nat
    OBVIOUS
  <2>0. /\ l \in 1..Len(x) => (x \o y)[l] = x[l]
        /\ l \in Len(x) + 1..Len(x) + Len(y) => (x \o y)[l] = y[l - Len(x)]
    <3>1. x \in Seq(S) /\ y \in Seq(S)
      BY <1>1, <1>2
    <3> QED BY <3>1, ElementOfConcat
  <2>1. CASE l <= j - i
    BY <1>1, <2>0, <2>1
  <2>2. CASE l > j - i
    <3>1. l - (j - i) \in 1..k - j /\ j + (l - (j - i)) = i + l
      BY <2>2
    <3>2. l \in Len(x) + 1..Len(x) + Len(y) /\ Len(x) = j - i
      BY <1>1, <1>2, <2>2
    <3>3. (x \o y)[l] = y[l - (j - i)]
      BY <2>0, <3>2
    <3> QED BY <1>2, <3>1, <3>3
  <2>3. l <= j - i \/ l > j - i
    OBVIOUS
  <2> QED BY <2>1, <2>2, <2>3
<1>6. x \o y = z
  BY <1>3, <1>4, <1>5, SameElements
<1> QED BY <1>6 DEF x, y, z

\* The first k elements and the next.
LEMMA StretchOfOneMore ==
  ASSUME NEW S, NEW q \in Seq(S), NEW k \in 0..Len(q) - 1
  PROVE  Append(SubSeq(q, 1, k), q[k + 1]) = SubSeq(q, 1, k + 1)
OBVIOUS

\* A sequence is how it and what follows it begin.
LEMMA PrefixOfConcat ==
  ASSUME NEW S, NEW p \in Seq(S), NEW c \in Seq(S)
  PROVE  IsPrefix(p, p \o c) /\ p \o c \in Seq(S) /\ Len(p) <= Len(p \o c) /\ Len(p) \in Nat
<1>1. p \o c \in Seq(S) /\ Len(p \o c) = Len(p) + Len(c) /\ Len(p) \in Nat /\ Len(c) \in Nat
  BY ConcatIs
<1>2. \A l \in 1..Len(p) : (p \o c)[l] = p[l]
  BY ElementOfConcat
<1>3. PICK q \in Seq(S) : q = p \o c
  BY <1>1
<1>4. Len(p) \in 0..Len(q) /\ \A l \in 1..Len(p) : q[l] = p[l]
  BY <1>1, <1>2, <1>3
<1>5. SubSeq(p, 1, Len(p)) = SubSeq(q, 1, Len(p))
  BY <1>4
<1> QED BY <1>1, <1>3, <1>4, <1>5 DEF IsPrefix

\* The two parts of what one sequence and another make.
LEMMA PartsOfConcat ==
  ASSUME NEW S, NEW p \in Seq(S), NEW c \in Seq(S)
  PROVE  /\ p \o c \in Seq(S) /\ Len(p \o c) = Len(p) + Len(c)
         /\ SubSeq(p \o c, 1, Len(p)) = p /\ SubSeq(p \o c, Len(p) + 1, Len(p) + Len(c)) = c
         /\ \A j \in 0..Len(p) : SubSeq(p \o c, 1, j) = SubSeq(p, 1, j)
<1>1. /\ p \o c \in Seq(S) /\ Len(p \o c) = Len(p) + Len(c) /\ Len(p) \in Nat /\ Len(c) \in Nat
  BY ConcatIs
<1>2. /\ \A l \in 1..Len(p) : (p \o c)[l] = p[l]
      /\ \A l \in Len(p) + 1..Len(p) + Len(c) : (p \o c)[l] = c[l - Len(p)]
  BY ElementOfConcat
<1>3. PICK q \in Seq(S) : q = p \o c
  BY <1>1
<1>4. PICK a, b \in Nat : a = Len(p) /\ b = Len(c) /\ Len(q) = a + b
  BY <1>1, <1>3
<1>5. SubSeq(q, a + 1, a + b) = c
  <2>1. PICK s : s = SubSeq(q, a + 1, a + b)
    OBVIOUS
  <2>2. s \in Seq(S) /\ Len(s) = (a + b) - a /\ \A l \in 1..(a + b) - a : s[l] = q[a + l]
    <3>1. a \in 0..Len(q) /\ a + b \in a..Len(q)
      BY <1>4
    <3> QED BY <2>1, <3>1, StretchIs
  <2>3. \A l \in 1..b : a + l \in a + 1..a + b /\ (a + l) - a = l
    BY <1>4
  <2>4. \A l \in 1..b : q[a + l] = c[l]
    BY <1>2, <1>3, <1>4, <2>3
  <2>5. (a + b) - a = b
    BY <1>4
  <2>6. s = c
    BY <1>4, <2>2, <2>4, <2>5, SameElements
  <2> QED BY <2>1, <2>6
<1>6. \A j \in 0..a : SubSeq(q, 1, j) = SubSeq(p, 1, j)
  <2> SUFFICES ASSUME NEW j \in 0..a PROVE SubSeq(q, 1, j) = SubSeq(p, 1, j)
    OBVIOUS
  <2>1. p = SubSeq(q, 0 + 1, a)
    BY <1>1, <1>2, <1>3, <1>4
  <2>2. 0 \in 0..Len(q) /\ a \in 0..Len(q) /\ 0 \in 0..a - 0 /\ j \in 0..a - 0
    BY <1>4
  <2>3. SubSeq(SubSeq(q, 0 + 1, a), 0 + 1, j) = SubSeq(q, (0 + 0) + 1, 0 + j)
    BY <2>2, StretchOfStretch
  <2>4. (0 + 0) + 1 = 1 /\ 0 + 1 = 1 /\ 0 + j = j
    OBVIOUS
  <2> QED BY <2>1, <2>3, <2>4
<1>7. SubSeq(p, 1, a) = p
  BY <1>4
<1>8. SubSeq(q, 1, a) = p
  BY <1>4, <1>6, <1>7
<1> QED BY <1>1, <1>3, <1>4, <1>5, <1>6, <1>8

\* A sequence of two.
LEMMA PairIs ==
  ASSUME NEW x, NEW y
  PROVE  /\ Len(<<x, y>>) = 2 /\ SubSeq(<<x, y>>, 1, 0) = <<>> /\ SubSeq(<<x, y>>, 1, 1) = <<x>>
         /\ SubSeq(<<x, y>>, 1, 2) = <<x, y>> /\ <<x, y>> = <<x>> \o <<y>>
<1>1. PICK S : S = {x, y}
  OBVIOUS
<1>2. PICK q : q = <<x, y>>
  OBVIOUS
<1>3. q \in Seq(S) /\ Len(q) = 2 /\ q[1] = x /\ q[2] = y
  BY <1>1, <1>2
<1>4. <<x>> \in Seq(S) /\ <<y>> \in Seq(S) /\ Len(<<x>>) = 1 /\ Len(<<y>>) = 1 /\ <<x>>[1] = x /\ <<y>>[1] = y
  BY <1>1
<1>5. SubSeq(q, 1, 2) = q
  BY <1>3
<1>6. SubSeq(q, 1, 1) = <<x>>
  <2>1. PICK p : p = SubSeq(q, 1, 1)
    OBVIOUS
  <2>2. p \in Seq(S) /\ Len(p) = 1 /\ p[1] = q[1]
    BY <1>3, <2>1
  <2>3. PICK r : r = <<x>>
    OBVIOUS
  <2>4. \A l \in 1..1 : p[l] = r[l]
    BY <1>3, <1>4, <2>2, <2>3
  <2>5. p = r
    BY <1>4, <2>2, <2>3, <2>4, SameElements
  <2> QED BY <2>1, <2>3, <2>5
<1>7. SubSeq(q, 1, 0) = <<>>
  BY <1>3
<1>8. q = <<x>> \o <<y>>
  <2>1. PICK r : r = <<x>> \o <<y>>
    OBVIOUS
  <2>2. r \in Seq(S) /\ Len(r) = 2 /\ r[1] = x /\ r[2] = y
    BY <1>4, <2>1
  <2>3. \A l \in 1..2 : l = 1 \/ l = 2
    OBVIOUS
  <2>4. \A l \in 1..2 : q[l] = r[l]
    BY <1>3, <2>2, <2>3
  <2>5. q = r
    BY <1>3, <2>2, <2>4, SameElements
  <2> QED BY <2>1, <2>5
<1> QED BY <1>2, <1>3, <1>5, <1>6, <1>7, <1>8

-----------------------------------------------------------------------------
(* Sequences put together, and their parts.                                *)

LEMMA ConcatAssoc ==
  ASSUME NEW S, NEW p \in Seq(S), NEW q \in Seq(S), NEW r \in Seq(S)
  PROVE  (p \o q) \o r = p \o (q \o r)
OBVIOUS

\* What follows a place inside the first of two sequences.
LEMMA RestOfConcat ==
  ASSUME NEW S, NEW p \in Seq(S), NEW c \in Seq(S), NEW j \in 0..Len(p)
  PROVE  SubSeq(p \o c, j + 1, Len(p \o c)) = SubSeq(p, j + 1, Len(p)) \o c
<1> DEFINE x == SubSeq(p \o c, j + 1, Len(p \o c))
           y == SubSeq(p, j + 1, Len(p)) \o c
           t == SubSeq(p, j + 1, Len(p))
<1>1. PICK a \in Nat, b \in Nat : a = Len(p) /\ b = Len(c)
  OBVIOUS
<1>2. p \o c \in Seq(S) /\ Len(p \o c) = a + b
  BY <1>1, ConcatIs
<1>3. j \in 0..a /\ a \in j..a /\ j \in 0..a + b /\ a + b \in j..a + b
  BY <1>1
<1>4. t \in Seq(S) /\ Len(t) = a - j /\ \A l \in 1..a - j : t[l] = p[j + l]
  BY <1>1, <1>3, StretchIs
<1>5. x \in Seq(S) /\ Len(x) = (a + b) - j /\ \A l \in 1..(a + b) - j : x[l] = (p \o c)[j + l]
  BY <1>2, <1>3, StretchIs
<1>6. y \in Seq(S) /\ Len(y) = (a - j) + b
  BY <1>1, <1>4, ConcatIs
<1>7. ASSUME NEW l \in 1..a - j PROVE x[l] = y[l]
  <2>1. l \in 1..(a + b) - j /\ j + l \in 1..a
    BY <1>3
  <2>2. x[l] = (p \o c)[j + l]
    BY <1>5, <2>1
  <2>3. (p \o c)[j + l] = p[j + l]
    BY <1>1, <2>1, ElementOfConcat
  <2>4. y[l] = t[l]
    BY <1>1, <1>4, ElementOfConcat
  <2> QED BY <1>4, <2>2, <2>3, <2>4
<1>8. ASSUME NEW l \in (a - j) + 1..(a - j) + b PROVE x[l] = y[l]
  <2>1. l \in 1..(a + b) - j /\ j + l \in a + 1..a + b /\ (j + l) - a = l - (a - j)
    BY <1>3
  <2>2. x[l] = (p \o c)[j + l]
    BY <1>5, <2>1
  <2>3. (p \o c)[j + l] = c[(j + l) - a]
    BY <1>1, <2>1, ElementOfConcat
  <2>4. y[l] = c[l - (a - j)]
    BY <1>1, <1>4, ElementOfConcat
  <2> QED BY <2>1, <2>2, <2>3, <2>4
<1>9. (a + b) - j = (a - j) + b /\ \A l \in 1..(a + b) - j : l \in 1..a - j \/ l \in (a - j) + 1..(a - j) + b
  BY <1>3
<1> HIDE DEF x, y, t
<1>10. \A l \in 1..Len(x) : x[l] = y[l]
  BY <1>5, <1>7, <1>8, <1>9
<1>11. Len(x) = Len(y)
  BY <1>5, <1>6, <1>9
<1>12. x = y
  BY <1>5, <1>6, <1>10, <1>11, SameElements
<1> QED BY <1>12 DEF x, y, t

\* Sequences put together from the front, and from behind.
Three(p, q, r) == p \o q \o r
ThreeFromBehind(p, q, r) == p \o (q \o r)

LEMMA ThreeInOne ==
  ASSUME NEW S, NEW p \in Seq(S), NEW q \in Seq(S), NEW r \in Seq(S)
  PROVE  Three(p, q, r) = ThreeFromBehind(p, q, r)
BY DEF Three, ThreeFromBehind

Five(p, q, r, t, u) == p \o q \o r \o t \o u
FiveFromBehind(p, q, r, t, u) == (p \o q) \o (r \o (t \o u))

LEMMA FiveInOne ==
  ASSUME NEW S, NEW p \in Seq(S), NEW q \in Seq(S), NEW r \in Seq(S), NEW t \in Seq(S), NEW u \in Seq(S)
  PROVE  Five(p, q, r, t, u) = FiveFromBehind(p, q, r, t, u)
<1>1. PICK a \in Seq(S) : a = p \o q
  BY ConcatIs
<1>2. PICK b \in Seq(S) : b = a \o r
  BY ConcatIs
<1>3. PICK c \in Seq(S) : c = t \o u
  BY ConcatIs
<1>4. (b \o t) \o u = b \o (t \o u)
  OBVIOUS
<1>5. (a \o r) \o c = a \o (r \o c)
  OBVIOUS
<1> QED BY <1>1, <1>2, <1>3, <1>4, <1>5 DEF Five, FiveFromBehind

\* A stretch of the first of two sequences, and one of the second.
LEMMA StretchOfConcat ==
  ASSUME NEW S, NEW p \in Seq(S), NEW c \in Seq(S)
  PROVE  /\ \A i \in 0..Len(p) : \A j \in i..Len(p) : SubSeq(p \o c, i + 1, j) = SubSeq(p, i + 1, j)
         /\ \A i \in 0..Len(c) : \A j \in i..Len(c) :
                SubSeq(p \o c, (Len(p) + i) + 1, Len(p) + j) = SubSeq(c, i + 1, j)
<1>1. PICK q \in Seq(S) : q = p \o c
  BY ConcatIs
<1>2. PICK a \in Nat, b \in Nat : a = Len(p) /\ b = Len(c) /\ Len(q) = a + b
  BY <1>1, ConcatIs
<1>3. \A l \in 1..a : q[l] = p[l]
  BY <1>1, <1>2, ElementOfConcat
<1>4. \A l \in a + 1..a + b : q[l] = c[l - a]
  BY <1>1, <1>2, ElementOfConcat
<1>5. ASSUME NEW i \in 0..a, NEW j \in i..a PROVE SubSeq(q, i + 1, j) = SubSeq(p, i + 1, j)
  <2>1. i \in 0..Len(q) /\ j \in i..Len(q) /\ i \in 0..Len(p) /\ j \in i..Len(p)
    BY <1>2
  <2>2. PICK x : x = SubSeq(q, i + 1, j)
    OBVIOUS
  <2>x. x \in Seq(S) /\ Len(x) = j - i /\ \A l \in 1..j - i : x[l] = q[i + l]
    BY <2>1, <2>2, StretchIs
  <2>3. PICK y : y = SubSeq(p, i + 1, j)
    OBVIOUS
  <2>y. y \in Seq(S) /\ Len(y) = j - i /\ \A l \in 1..j - i : y[l] = p[i + l]
    BY <2>1, <2>3, StretchIs
  <2>4. \A l \in 1..j - i : x[l] = y[l]
    <3> SUFFICES ASSUME NEW l \in 1..j - i PROVE x[l] = y[l]
      OBVIOUS
    <3>1. i + l \in 1..a
      OBVIOUS
    <3> QED BY <1>3, <2>x, <2>y, <3>1
  <2>5. x = y
    BY <2>x, <2>y, <2>4, SameElements
  <2> QED BY <2>2, <2>3, <2>5
<1>6. ASSUME NEW i \in 0..b, NEW j \in i..b PROVE SubSeq(q, (a + i) + 1, a + j) = SubSeq(c, i + 1, j)
  <2>1. a + i \in 0..Len(q) /\ a + j \in a + i..Len(q) /\ i \in 0..Len(c) /\ j \in i..Len(c) /\ (a + j) - (a + i) = j - i
    BY <1>2
  <2>2. PICK x : x = SubSeq(q, (a + i) + 1, a + j)
    OBVIOUS
  <2>x. x \in Seq(S) /\ Len(x) = j - i /\ \A l \in 1..j - i : x[l] = q[(a + i) + l]
    BY <2>1, <2>2, StretchIs
  <2>3. PICK y : y = SubSeq(c, i + 1, j)
    OBVIOUS
  <2>y. y \in Seq(S) /\ Len(y) = j - i /\ \A l \in 1..j - i : y[l] = c[i + l]
    BY <2>1, <2>3, StretchIs
  <2>4. \A l \in 1..j - i : x[l] = y[l]
    <3> SUFFICES ASSUME NEW l \in 1..j - i PROVE x[l] = y[l]
      OBVIOUS
    <3>1. (a + i) + l \in a + 1..a + b /\ ((a + i) + l) - a = i + l
      OBVIOUS
    <3>2. q[(a + i) + l] = c[((a + i) + l) - a]
      BY <1>4, <3>1
    <3> QED BY <2>x, <2>y, <3>1, <3>2
  <2>5. x = y
    BY <2>x, <2>y, <2>4, SameElements
  <2> QED BY <2>2, <2>3, <2>5
<1> QED BY <1>1, <1>2, <1>5, <1>6

\* A text in two parts.
LEMMA TwoParts ==
  ASSUME NEW S, NEW q \in Seq(S), NEW p \in 0..Len(q)
  PROVE  /\ SubSeq(q, 1, p) \in Seq(S) /\ SubSeq(q, p + 1, Len(q)) \in Seq(S)
         /\ Len(SubSeq(q, 1, p)) = p /\ Len(SubSeq(q, p + 1, Len(q))) = Len(q) - p
         /\ \A l \in 1..p : SubSeq(q, 1, p)[l] = q[l]
         /\ \A l \in 1..Len(q) - p : SubSeq(q, p + 1, Len(q))[l] = q[p + l]
         /\ q = SubSeq(q, 1, p) \o SubSeq(q, p + 1, Len(q))
<1>1. 0 \in 0..Len(q) /\ p \in 0..Len(q) /\ Len(q) \in p..Len(q) /\ p - 0 = p /\ 0 + 1 = 1
  OBVIOUS
<1>2. /\ SubSeq(q, 1, p) \in Seq(S) /\ Len(SubSeq(q, 1, p)) = p
      /\ \A l \in 1..p : SubSeq(q, 1, p)[l] = q[l]
  OBVIOUS
<1>3. /\ SubSeq(q, p + 1, Len(q)) \in Seq(S) /\ Len(SubSeq(q, p + 1, Len(q))) = Len(q) - p
      /\ \A l \in 1..Len(q) - p : SubSeq(q, p + 1, Len(q))[l] = q[p + l]
  BY <1>1, StretchIs
<1>4. SubSeq(q, 0 + 1, p) \o SubSeq(q, p + 1, Len(q)) = SubSeq(q, 0 + 1, Len(q))
  BY <1>1, StretchesJoin
<1>5. SubSeq(q, 0 + 1, Len(q)) = q
  <2>1. SubSeq(q, 1, Len(q)) = q
    OBVIOUS
  <2> QED BY <2>1
<1> QED BY <1>1, <1>2, <1>3, <1>4, <1>5

-----------------------------------------------------------------------------
(* Recursion.                                                              *)

\* A function that recurs over 0..n exists.
Recurs(f, X, z, n, step) ==
    f \in [0..n -> X] /\ f = [k \in 0..n |-> IF k = 0 THEN z ELSE step[k][f[k - 1]]]

LEMMA RecursionExists ==
  ASSUME NEW X, NEW z \in X, NEW n \in Nat, NEW step \in [1..n -> [X -> X]]
  PROVE  \E f : Recurs(f, X, z, n, step)
<1> DEFINE Is(f, m) == Recurs(f, X, z, m, step)
           Good == {m \in 0..n : \E f : Is(f, m)}
<1>1. 0 \in Good
  <2>1. PICK f : f = [k \in 0..0 |-> z]
    OBVIOUS
  <2>2. Is(f, 0)
    BY <2>1 DEF Recurs
  <2> HIDE DEF Is
  <2> QED BY <2>2
<1>2. \A m \in 1..n : m - 1 \in Good => m \in Good
  <2> SUFFICES ASSUME NEW m \in 1..n, m - 1 \in Good PROVE m \in Good
    OBVIOUS
  <2>1. PICK f : Is(f, m - 1)
    <3> HIDE DEF Is
    <3> QED OBVIOUS
  <2>2. /\ \A k \in 0..m - 1 : f[k] \in X /\ f[k] = IF k = 0 THEN z ELSE step[k][f[k - 1]]
        /\ \A k \in 0..m : k = m \/ k \in 0..m - 1
        /\ m - 1 \in 0..m - 1 /\ m # m - 1 /\ m # 0 /\ m - 1 \in 0..m
        /\ \A k \in 0..m - 1 : k # m /\ k \in 0..m /\ (k # 0 => k - 1 \in 0..m - 1)
    BY <2>1 DEF Recurs
  <2>3. PICK g : g = [k \in 0..m |-> IF k = m THEN step[m][f[m - 1]] ELSE f[k]]
    OBVIOUS
  <2>4. g[m] = step[m][f[m - 1]] /\ \A k \in 0..m - 1 : g[k] = f[k]
    BY <2>2, <2>3
  <2>5. \A k \in 0..m : g[k] = IF k = 0 THEN z ELSE step[k][g[k - 1]]
    <3> SUFFICES ASSUME NEW k \in 0..m PROVE g[k] = IF k = 0 THEN z ELSE step[k][g[k - 1]]
      OBVIOUS
    <3>1. CASE k = m
      <4>1. g[m - 1] = f[m - 1]
        BY <2>2, <2>4
      <4> QED BY <2>2, <2>4, <3>1, <4>1
    <3>2. CASE k \in 0..m - 1
      <4>1. CASE k = 0
        BY <2>2, <2>4, <3>2, <4>1
      <4>2. CASE k # 0
        <5>1. k - 1 \in 0..m - 1
          BY <2>2, <3>2, <4>2
        <5>2. g[k - 1] = f[k - 1]
          BY <2>4, <5>1
        <5>3. f[k] = step[k][f[k - 1]]
          BY <2>2, <3>2, <4>2
        <5> QED BY <2>4, <3>2, <4>2, <5>2, <5>3
      <4> QED BY <4>1, <4>2
    <3> QED BY <2>2, <3>1, <3>2
  <2>6. \A k \in 0..m : g[k] \in X
    <3>1. step[m] \in [X -> X] /\ f[m - 1] \in X
      BY <2>2
    <3>2. step[m][f[m - 1]] \in X
      BY <3>1
    <3> QED BY <2>2, <2>4, <3>2
  <2>7. g = [k \in 0..m |-> g[k]]
    BY <2>3
  <2>8. g \in [0..m -> X]
    BY <2>6, <2>7
  <2>9. Is(g, m)
    <3>1. g = [k \in 0..m |-> IF k = 0 THEN z ELSE step[k][g[k - 1]]]
      BY <2>5, <2>7
    <3> QED BY <2>8, <3>1 DEF Recurs
  <2>10. m \in 0..n
    OBVIOUS
  <2> HIDE DEF Is
  <2> QED BY <2>9, <2>10
<1>3. n \in Good
  <2> HIDE DEF Good
  <2> QED BY <1>1, <1>2, Reaches
<1> QED BY <1>3

\* What does not fall from each number to the next does not fall at all, and what rises rises.
LEMMA Rises ==
  ASSUME NEW n \in Nat, NEW f, \A k \in 0..n : f[k] \in Nat, \A k \in 1..n : f[k - 1] < f[k]
  PROVE  \A i \in 0..n : \A j \in 0..n : i < j => f[i] < f[j]
<1> SUFFICES ASSUME NEW i \in 0..n PROVE \A j \in 0..n : i < j => f[i] < f[j]
  OBVIOUS
<1> DEFINE Good == {j \in 0..n : i < j => f[i] < f[j]}
<1>1. 0 \in Good
  OBVIOUS
<1>2. \A j \in 1..n : j - 1 \in Good => j \in Good
  <2> SUFFICES ASSUME NEW j \in 1..n, j - 1 \in Good, i < j PROVE f[i] < f[j]
    OBVIOUS
  <2>1. f[j - 1] < f[j] /\ j - 1 \in 0..n /\ f[j - 1] \in Nat /\ f[j] \in Nat /\ f[i] \in Nat
    OBVIOUS
  <2>2. CASE i = j - 1
    BY <2>1, <2>2
  <2>3. CASE i < j - 1
    BY <2>1, <2>3
  <2> QED BY <2>2, <2>3
<1>3. ASSUME NEW j \in 0..n PROVE j \in Good
  <2>1. \A k \in 1..j : k - 1 \in Good => k \in Good
    BY <1>2
  <2> HIDE DEF Good
  <2> QED BY <1>1, <2>1, Reaches
<1> QED BY <1>3

-----------------------------------------------------------------------------
(* Lengths.                                                                *)

\* Characters of some lengths, of which none is 0.
Counts(C, of) == of \in [C -> Nat \ {0}]

\* The lengths of what comes before, summed up.
Sums(f, s, of) == f[0] = 0 /\ \A k \in 1..Len(s) : f[k] = f[k - 1] + of[s[k]]

LEMMA LengthIs ==
  ASSUME NEW C, NEW s \in Seq(C), NEW of, Counts(C, of)
  PROVE  \E f \in [0..Len(s) -> Nat] : Sums(f, s, of) /\ Length(s, of) = f[Len(s)]
<1>1. PICK n \in Nat : n = Len(s)
  OBVIOUS
<1>2. \A k \in 1..n : of[s[k]] \in Nat
  BY <1>1 DEF Counts
<1>3. PICK step : step = [k \in 1..n |-> [v \in Nat |-> v + of[s[k]]]]
  OBVIOUS
<1>4. step \in [1..n -> [Nat -> Nat]]
  <2>1. ASSUME NEW k \in 1..n PROVE [v \in Nat |-> v + of[s[k]]] \in [Nat -> Nat]
    BY <1>2
  <2> QED BY <1>3, <2>1
<1> DEFINE eqn(f) == f = [k \in 0..n |-> IF k = 0 THEN 0 ELSE f[k - 1] + of[s[k]]]
<1>5. PICK f : Recurs(f, Nat, 0, n, step)
  BY <1>4, RecursionExists
<1>6. f = [k \in 0..n |-> f[k]] /\ \A k \in 0..n : f[k] \in Nat /\ f[k] = IF k = 0 THEN 0 ELSE step[k][f[k - 1]]
  BY <1>5 DEF Recurs
<1>7. \A k \in 0..n : f[k] = IF k = 0 THEN 0 ELSE f[k - 1] + of[s[k]]
  <2> SUFFICES ASSUME NEW k \in 0..n PROVE f[k] = IF k = 0 THEN 0 ELSE f[k - 1] + of[s[k]]
    OBVIOUS
  <2>1. CASE k = 0
    BY <1>6, <2>1
  <2>2. CASE k # 0
    <3>1. k \in 1..n /\ k - 1 \in 0..n
      BY <2>2
    <3>2. f[k - 1] \in Nat /\ f[k] = step[k][f[k - 1]]
      BY <1>6, <2>2, <3>1
    <3> QED BY <1>3, <2>2, <3>1, <3>2
  <2> QED BY <2>1, <2>2
<1>8. eqn(f)
  BY <1>6, <1>7
<1>9. Length(s, of) = (CHOOSE g : eqn(g))[n]
  BY <1>1 DEF Length
<1>10. PICK g : g = (CHOOSE h : eqn(h)) /\ eqn(g)
  <2> HIDE DEF eqn
  <2> QED BY <1>8
<1>11. g = [k \in 0..n |-> g[k]] /\ \A k \in 0..n : g[k] = IF k = 0 THEN 0 ELSE g[k - 1] + of[s[k]]
  <2>1. g = [k \in 0..n |-> IF k = 0 THEN 0 ELSE g[k - 1] + of[s[k]]]
    BY <1>10
  <2>2. PICK h : h = g
    OBVIOUS
  <2>3. g = [k \in 0..n |-> IF k = 0 THEN 0 ELSE h[k - 1] + of[s[k]]]
    BY <2>1, <2>2
  <2>4. g = [k \in 0..n |-> g[k]] /\ \A k \in 0..n : g[k] = IF k = 0 THEN 0 ELSE h[k - 1] + of[s[k]]
    BY <2>3
  <2> QED BY <2>2, <2>4
<1>12. Sums(g, s, of)
  BY <1>1, <1>11 DEF Sums
<1>13. g \in [0..n -> Nat]
  <2> DEFINE Good == {k \in 0..n : g[k] \in Nat}
  <2>1. 0 \in Good
    BY <1>11
  <2>2. \A k \in 1..n : k - 1 \in Good => k \in Good
    <3> SUFFICES ASSUME NEW k \in 1..n, k - 1 \in Good PROVE k \in Good
      OBVIOUS
    <3>1. of[s[k]] \in Nat
      BY <1>2
    <3>2. g[k - 1] \in Nat
      OBVIOUS
    <3>3. g[k] = g[k - 1] + of[s[k]]
      BY <1>12, <1>1 DEF Sums
    <3> QED BY <3>1, <3>2, <3>3
  <2>3. ASSUME NEW j \in 0..n PROVE j \in Good
    <3>1. \A k \in 1..j : k - 1 \in Good => k \in Good
      BY <2>2
    <3> HIDE DEF Good
    <3> QED BY <2>1, <3>1, Reaches
  <2> QED BY <1>11, <2>3
<1>14. Length(s, of) = g[n]
  <2> HIDE DEF eqn
  <2> QED BY <1>9, <1>10
<1> QED BY <1>1, <1>12, <1>13, <1>14

\* What sums them up is the length.
LEMMA LengthIsIt ==
  ASSUME NEW C, NEW s \in Seq(C), NEW of, Counts(C, of), NEW f, Sums(f, s, of)
  PROVE  Length(s, of) = f[Len(s)]
<1>1. PICK n \in Nat : n = Len(s)
  OBVIOUS
<1>2. PICK g \in [0..n -> Nat] : Sums(g, s, of) /\ Length(s, of) = g[n]
  BY <1>1, LengthIs
<1> DEFINE Good == {k \in 0..n : g[k] = f[k]}
<1>3. 0 \in Good
  BY <1>2 DEF Sums
<1>4. \A k \in 1..n : k - 1 \in Good => k \in Good
  BY <1>1, <1>2 DEF Sums
<1>5. n \in Good
  <2> HIDE DEF Good
  <2> QED BY <1>3, <1>4, Reaches
<1> QED BY <1>1, <1>2, <1>5

\* The length of a prefix, character by character.
LEMMA PrefixLengths ==
  ASSUME NEW C, NEW s \in Seq(C), NEW of, Counts(C, of)
  PROVE  /\ Length(Prefix(s, 0), of) = 0
         /\ \A k \in 0..Len(s) : Length(Prefix(s, k), of) \in Nat
         /\ \A k \in 1..Len(s) : Length(Prefix(s, k), of) = Length(Prefix(s, k - 1), of) + of[s[k]]
         /\ Length(Prefix(s, Len(s)), of) = Length(s, of)
<1>1. PICK n \in Nat : n = Len(s)
  OBVIOUS
<1>2. PICK f \in [0..n -> Nat] : Sums(f, s, of)
  BY <1>1, LengthIs
<1>3. ASSUME NEW k \in 0..n PROVE Length(Prefix(s, k), of) = f[k]
  <2>1. PICK p : p = Prefix(s, k)
    OBVIOUS
  <2>2. p \in Seq(C) /\ Len(p) = k /\ \A i \in 1..k : p[i] = s[i] /\ i \in 1..n
    BY <1>1, <2>1 DEF Prefix
  <2>3. Sums(f, p, of)
    BY <1>1, <1>2, <2>2 DEF Sums
  <2>4. Length(p, of) = f[Len(p)]
    BY <2>2, <2>3, LengthIsIt
  <2> QED BY <2>1, <2>2, <2>4
<1>4. Prefix(s, n) = s
  BY <1>1 DEF Prefix
<1>5. \A k \in 1..n : k \in 0..n /\ k - 1 \in 0..n
  OBVIOUS
<1>6. 0 \in 0..n
  OBVIOUS
<1> QED BY <1>1, <1>2, <1>3, <1>4, <1>5, <1>6 DEF Sums

-----------------------------------------------------------------------------
(* Numbers in ascending order.                                             *)

Below(T, n) == {m \in T : m <= n}
Rank(T, n) == Cardinality(Below(T, n))

Numbered(T) == T \in SUBSET Nat /\ IsFiniteSet(T)

LEMMA RankIs ==
  ASSUME NEW T, Numbered(T)
  PROVE  /\ Cardinality(T) \in Nat
         /\ \A n \in Nat : IsFiniteSet(Below(T, n)) /\ Rank(T, n) \in 0..Cardinality(T)
         /\ \A e \in T : Rank(T, e) \in 1..Cardinality(T)
         /\ \A d \in Nat : \A e \in T : d < e => Rank(T, d) < Rank(T, e)
         /\ \A d \in Nat : \A e \in Nat : d < e => Rank(T, d) <= Rank(T, e)
<1>1. Cardinality(T) \in Nat
  BY FS_CardinalityType DEF Numbered
<1>2. ASSUME NEW n \in Nat
      PROVE  IsFiniteSet(Below(T, n)) /\ Rank(T, n) \in 0..Cardinality(T)
  <2>1. PICK B : B = Below(T, n)
    OBVIOUS
  <2>2. B \in SUBSET T
    BY <2>1 DEF Below
  <2>3. IsFiniteSet(B) /\ Cardinality(B) <= Cardinality(T)
    BY <2>2, FS_Subset DEF Numbered
  <2>4. Cardinality(B) \in Nat
    BY <2>3, FS_CardinalityType
  <2> QED BY <1>1, <2>1, <2>3, <2>4 DEF Rank
<1>3. ASSUME NEW d \in Nat, NEW e \in Nat, d < e
      PROVE  Rank(T, d) <= Rank(T, e) /\ (e \in T => Rank(T, d) < Rank(T, e))
  <2>1. PICK A, B : A = Below(T, d) /\ B = Below(T, e)
    OBVIOUS
  <2>2. IsFiniteSet(A) /\ IsFiniteSet(B)
    BY <1>2, <2>1
  <2>3. \A m \in A : m \in B /\ m # e
    BY <1>3, <2>1 DEF Below, Numbered
  <2>4. Cardinality(A) \in Nat /\ Cardinality(B) \in Nat
    BY <2>2, FS_CardinalityType
  <2>5. Cardinality(A) <= Cardinality(B)
    BY <2>2, <2>3, FS_Subset
  <2>6. ASSUME e \in T PROVE Cardinality(A) < Cardinality(B)
    <3>1. e \in B
      BY <2>1, <2>6 DEF Below
    <3>2. IsFiniteSet(B \ {e}) /\ Cardinality(B \ {e}) = Cardinality(B) - 1
      BY <2>2, <3>1, FS_RemoveElement
    <3>3. A \in SUBSET (B \ {e})
      BY <2>3
    <3>4. Cardinality(A) <= Cardinality(B \ {e})
      BY <3>2, <3>3, FS_Subset
    <3> QED BY <2>4, <3>2, <3>4
  <2> QED BY <2>1, <2>5, <2>6 DEF Rank
<1>4. ASSUME NEW e \in T PROVE Rank(T, e) \in 1..Cardinality(T)
  <2>1. e \in Nat /\ e \in Below(T, e)
    BY DEF Numbered, Below
  <2>2. IsFiniteSet(Below(T, e)) /\ Rank(T, e) \in 0..Cardinality(T)
    BY <1>2, <2>1
  <2>3. Rank(T, e) # 0
    BY <2>1, <2>2, FS_EmptySet DEF Rank
  <2> QED BY <1>1, <2>2, <2>3
<1>5. \A e \in T : e \in Nat
  BY DEF Numbered
<1> QED BY <1>1, <1>2, <1>3, <1>4, <1>5

LEMMA RankReaches ==
  ASSUME NEW T, Numbered(T), NEW l \in 1..Cardinality(T)
  PROVE  \E e \in T : Rank(T, e) = l
<1>1. PICK n : n = Cardinality(T) /\ n \in Nat
  BY RankIs
<1> SUFFICES ASSUME \A e \in T : Rank(T, e) # l PROVE FALSE
  OBVIOUS
<1> DEFINE rank == [e \in T |-> Rank(T, e)]
           K == (1..n) \ {l}
<1>2. \A e \in T : Rank(T, e) \in K
  BY <1>1, RankIs
<1>3. rank \in [T -> K]
  BY <1>2
<1>4. \A d, e \in T : d # e => rank[d] # rank[e]
  <2> SUFFICES ASSUME NEW d \in T, NEW e \in T, d # e PROVE Rank(T, d) # Rank(T, e)
    OBVIOUS
  <2>1. d \in Nat /\ e \in Nat
    BY DEF Numbered
  <2>2. d < e \/ e < d
    BY <2>1
  <2>3. Rank(T, d) < Rank(T, e) \/ Rank(T, e) < Rank(T, d)
    BY <2>1, <2>2, RankIs
  <2>4. Rank(T, d) \in 1..n
    BY <1>1, RankIs
  <2> QED BY <2>3, <2>4
<1>5. rank \in Injection(T, K)
  <2> HIDE DEF rank, K
  <2> QED BY <1>3, <1>4 DEF Injection, IsInjective
<1>6. IsFiniteSet(1..n) /\ Cardinality(1..n) = n
  BY <1>1, FS_Interval
<1>7. IsFiniteSet(K) /\ Cardinality(K) = n - 1
  BY <1>1, <1>6, FS_RemoveElement
<1> HIDE DEF rank, K
<1>8. Cardinality(T) <= Cardinality(K)
  BY <1>5, <1>7, FS_Injection
<1> QED BY <1>1, <1>7, <1>8

LEMMA AscendingIs ==
  ASSUME NEW T, Numbered(T)
  PROVE  /\ Ascending(T) \in Seq(T) /\ Len(Ascending(T)) = Cardinality(T)
         /\ \A l \in 1..Cardinality(T) : Ascending(T)[l] \in T /\ Rank(T, Ascending(T)[l]) = l
         /\ \A e \in T : Ascending(T)[Rank(T, e)] = e
         /\ \A i, j \in 1..Cardinality(T) : i < j => Ascending(T)[i] < Ascending(T)[j]
<1>1. PICK n : n = Cardinality(T) /\ n \in Nat
  BY RankIs
<1>2. PICK A : A = Ascending(T)
  OBVIOUS
<1>3. A = [l \in 1..n |-> CHOOSE e \in T : Rank(T, e) = l]
  BY <1>1, <1>2 DEF Ascending, Rank, Below
<1>4. ASSUME NEW l \in 1..n PROVE A[l] \in T /\ Rank(T, A[l]) = l
  BY <1>1, <1>3, RankReaches
<1>5. A \in Seq(T) /\ Len(A) = n
  BY <1>1, <1>3, <1>4
<1>6. ASSUME NEW d \in T, NEW e \in T, Rank(T, d) <= Rank(T, e) PROVE d <= e
  <2>n. d \in Nat /\ e \in Nat
    BY DEF Numbered
  <2>1. d \in Nat /\ e \in Nat /\ Rank(T, d) \in Nat /\ Rank(T, e) \in Nat
    <3>1. Rank(T, d) \in 1..n /\ Rank(T, e) \in 1..n
      BY <1>1, RankIs
    <3> QED BY <2>n, <3>1
  <2>2. e < d => Rank(T, e) < Rank(T, d)
    BY <2>1, RankIs
  <2> QED BY <1>6, <2>1, <2>2
<1>7. ASSUME NEW e \in T PROVE A[Rank(T, e)] = e
  <2>1. Rank(T, e) \in 1..n
    BY <1>1, RankIs
  <2>2. PICK d : d = A[Rank(T, e)] /\ d \in T /\ Rank(T, d) = Rank(T, e)
    BY <1>4, <2>1
  <2>3. d <= e /\ e <= d /\ d \in Nat /\ e \in Nat
    BY <1>6, <2>1, <2>2 DEF Numbered
  <2> QED BY <2>2, <2>3
<1>8. ASSUME NEW i \in 1..n, NEW j \in 1..n, i < j PROVE A[i] < A[j]
  <2>1. PICK d, e : d = A[i] /\ e = A[j]
    OBVIOUS
  <2>2. d \in T /\ e \in T /\ Rank(T, d) = i /\ Rank(T, e) = j
    BY <1>4, <2>1
  <2>3. d <= e
    BY <1>6, <1>8, <2>2
  <2>4. d \in Nat /\ e \in Nat /\ d # e
    BY <1>8, <2>2 DEF Numbered
  <2> QED BY <2>1, <2>3, <2>4
<1> QED BY <1>1, <1>2, <1>4, <1>5, <1>7, <1>8

\* Numbers that rise and are those of a set are the set in ascending order.
LEMMA AscendingIsIt ==
  ASSUME NEW n \in Nat, NEW L \in [1..n -> Nat],
         \A i, j \in 1..n : i < j => L[i] < L[j],
         NEW T, \A e : e \in T <=> \E i \in 1..n : L[i] = e
  PROVE  Numbered(T) /\ Cardinality(T) = n /\ Ascending(T) = L
<1>1. ASSUME NEW m \in 0..n, NEW S, \A e : e \in S <=> \E i \in 1..m : L[i] = e
      PROVE  IsFiniteSet(S) /\ Cardinality(S) = m
  <2> DEFINE g == [i \in 1..m |-> L[i]]
  <2>1. \A i \in 1..m : i \in 1..n
    OBVIOUS
  <2>2. g \in [1..m -> S]
    BY <1>1
  <2>3. \A i, j \in 1..m : g[i] = g[j] => i = j
    <3> SUFFICES ASSUME NEW i \in 1..m, NEW j \in 1..m, i # j PROVE L[i] # L[j]
      OBVIOUS
    <3>1. i < j \/ j < i
      OBVIOUS
    <3>2. L[i] < L[j] \/ L[j] < L[i]
      BY <2>1, <3>1
    <3>3. L[i] \in Nat /\ L[j] \in Nat
      BY <2>1
    <3> QED BY <3>2, <3>3
  <2>4. \A e \in S : \E i \in 1..m : g[i] = e
    BY <1>1
  <2>5. g \in Bijection(1..m, S)
    <3> HIDE DEF g
    <3> QED BY <2>2, <2>3, <2>4 DEF Bijection, Injection, Surjection, IsInjective
  <2>6. IsFiniteSet(1..m) /\ Cardinality(1..m) = m
    BY FS_Interval
  <2> HIDE DEF g
  <2> QED BY <2>5, <2>6, FS_Bijection DEF ExistsBijection
<1>2. IsFiniteSet(T) /\ Cardinality(T) = n
  BY <1>1
<1>3. Numbered(T)
  BY <1>2 DEF Numbered
<1>4. ASSUME NEW l \in 1..n PROVE L[l] \in T /\ Rank(T, L[l]) = l
  <2>1. L[l] \in T
    OBVIOUS
  <2>2. \A i \in 1..n : L[i] <= L[l] <=> i <= l
    <3> SUFFICES ASSUME NEW i \in 1..n PROVE L[i] <= L[l] <=> i <= l
      OBVIOUS
    <3>1. L[i] \in Nat /\ L[l] \in Nat
      OBVIOUS
    <3>2. CASE i = l
      BY <3>1, <3>2
    <3>3. CASE i < l
      BY <3>1, <3>3
    <3>4. CASE l < i
      BY <3>1, <3>4
    <3> QED BY <3>2, <3>3, <3>4
  <2>3. \A i \in 1..l : i \in 1..n
    OBVIOUS
  <2>4. \A e : e \in Below(T, L[l]) <=> \E i \in 1..l : L[i] = e
    BY <2>2, <2>3 DEF Below
  <2>5. l \in 0..n
    OBVIOUS
  <2>6. Cardinality(Below(T, L[l])) = l
    BY <1>1, <2>4, <2>5
  <2> QED BY <2>1, <2>6 DEF Rank
<1>5. ASSUME NEW l \in 1..n PROVE Ascending(T)[l] = L[l]
  <2>1. \A e \in T : Ascending(T)[Rank(T, e)] = e
    BY <1>3, AscendingIs
  <2> QED BY <1>4, <2>1
<1>6. Ascending(T) \in Seq(T) /\ Len(Ascending(T)) = n
  BY <1>2, <1>3, AscendingIs
<1>7. Ascending(T) = [l \in 1..n |-> Ascending(T)[l]]
  BY <1>6
<1>8. L = [l \in 1..n |-> L[l]]
  OBVIOUS
<1>9. [l \in 1..n |-> Ascending(T)[l]] = [l \in 1..n |-> L[l]]
  BY <1>5
<1> QED BY <1>2, <1>3, <1>7, <1>8, <1>9

-----------------------------------------------------------------------------
(* Lengths of stretches.                                                   *)

LEMMA StretchLength ==
  ASSUME NEW C, NEW s \in Seq(C), NEW of, Counts(C, of), NEW i \in 0..Len(s), NEW j \in i..Len(s)
  PROVE  /\ Length(SubSeq(s, i + 1, j), of) \in Nat
         /\ Length(Prefix(s, j), of) = Length(Prefix(s, i), of) + Length(SubSeq(s, i + 1, j), of)
<1>1. PICK p : p = SubSeq(s, i + 1, j)
  OBVIOUS
<1>2. p \in Seq(C) /\ Len(p) = j - i /\ \A l \in 1..j - i : p[l] = s[i + l]
  BY <1>1, StretchIs
<1>3. PICK g : g = [k \in 0..Len(s) |-> Length(Prefix(s, k), of)]
  OBVIOUS
<1>4. /\ \A k \in 0..Len(s) : g[k] \in Nat
      /\ \A k \in 1..Len(s) : g[k] = g[k - 1] + of[s[k]]
  <2>1. \A k \in 0..Len(s) : g[k] = Length(Prefix(s, k), of)
    BY <1>3
  <2>2. \A k \in 1..Len(s) : k \in 0..Len(s) /\ k - 1 \in 0..Len(s)
    OBVIOUS
  <2>3. \A k \in 0..Len(s) : Length(Prefix(s, k), of) \in Nat
    BY PrefixLengths
  <2>4. \A k \in 1..Len(s) : Length(Prefix(s, k), of) = Length(Prefix(s, k - 1), of) + of[s[k]]
    BY PrefixLengths
  <2> QED BY <2>1, <2>2, <2>3, <2>4
<1>5. PICK f : f = [m \in 0..j - i |-> g[i + m] - g[i]]
  OBVIOUS
<1>6. Sums(f, p, of)
  <2>1. \A m \in 0..j - i : i + m \in 0..Len(s) /\ f[m] = g[i + m] - g[i] /\ g[i + m] \in Nat
    BY <1>4, <1>5
  <2>2. ASSUME NEW m \in 1..j - i PROVE f[m] = f[m - 1] + of[p[m]]
    <3>1. m - 1 \in 0..j - i /\ m \in 0..j - i /\ i + m \in 1..Len(s) /\ i + (m - 1) = (i + m) - 1
      OBVIOUS
    <3>2. g[i + m] = g[(i + m) - 1] + of[s[i + m]]
      BY <1>4, <3>1
    <3>3. of[s[i + m]] \in Nat
      BY <3>1 DEF Counts
    <3>4. f[m] = g[i + m] - g[i] /\ f[m - 1] = g[(i + m) - 1] - g[i]
      BY <2>1, <3>1
    <3>5. g[i + m] \in Nat /\ g[(i + m) - 1] \in Nat /\ g[i] \in Nat
      BY <1>4, <2>1, <3>1
    <3>6. p[m] = s[i + m]
      BY <1>2
    <3> QED BY <3>2, <3>3, <3>4, <3>5, <3>6
  <2>3. f[0] = 0
    BY <1>4, <1>5
  <2> QED BY <1>2, <2>2, <2>3 DEF Sums
<1>7. Length(p, of) = f[j - i]
  BY <1>2, <1>6, LengthIsIt
<1>8. Length(p, of) \in Nat
  BY <1>2, PrefixLengths
<1>9. f[j - i] = g[j] - g[i] /\ g[i] \in Nat /\ g[j] \in Nat
  BY <1>4, <1>5
<1>10. g[i] = Length(Prefix(s, i), of) /\ g[j] = Length(Prefix(s, j), of)
  BY <1>3
<1> QED BY <1>1, <1>7, <1>8, <1>9, <1>10

LEMMA LengthsRise ==
  ASSUME NEW C, NEW s \in Seq(C), NEW of, Counts(C, of)
  PROVE  \A i, j \in 0..Len(s) : i < j => Length(Prefix(s, i), of) < Length(Prefix(s, j), of)
<1>1. PICK g : g = [k \in 0..Len(s) |-> Length(Prefix(s, k), of)]
  OBVIOUS
<1>2. \A k \in 0..Len(s) : g[k] \in Nat
  BY <1>1, PrefixLengths
<1>3. \A k \in 1..Len(s) : g[k - 1] < g[k]
  <2> SUFFICES ASSUME NEW k \in 1..Len(s) PROVE g[k - 1] < g[k]
    OBVIOUS
  <2>1. Length(Prefix(s, k), of) = Length(Prefix(s, k - 1), of) + of[s[k]]
    BY PrefixLengths
  <2>2. of[s[k]] \in Nat \ {0}
    BY DEF Counts
  <2>3. g[k] = Length(Prefix(s, k), of) /\ g[k - 1] = Length(Prefix(s, k - 1), of)
    BY <1>1
  <2>4. g[k - 1] \in Nat
    BY <1>2
  <2> QED BY <2>1, <2>2, <2>3, <2>4
<1>4. PICK n \in Nat : n = Len(s)
  OBVIOUS
<1>5. \A i, j \in 0..n : i < j => g[i] < g[j]
  <2>1. \A k \in 0..n : g[k] \in Nat
    BY <1>2, <1>4
  <2>2. \A k \in 1..n : g[k - 1] < g[k]
    BY <1>3, <1>4
  <2> QED BY <2>1, <2>2, Rises
<1> QED BY <1>1, <1>4, <1>5

\* The least of some numbers.
LEMMA LeastIsIt ==
  ASSUME NEW T \in SUBSET Nat, NEW i \in T, \A j \in T : i <= j
  PROVE  (CHOOSE k \in T : \A j \in T : k <= j) = i
<1>1. PICK k : k = CHOOSE h \in T : \A j \in T : h <= j
  OBVIOUS
<1>2. k \in T /\ \A j \in T : k <= j
  BY <1>1
<1>3. k <= i /\ i <= k /\ i \in Nat /\ k \in Nat
  BY <1>2
<1> QED BY <1>1, <1>3

-----------------------------------------------------------------------------
(* Lines.                                                                  *)

Ends(doc) == Breaks(doc, Len(doc)) \cup {Len(doc) + 1}
LineNo(doc, k) == Cardinality(Breaks(doc, k))

LEMMA EndsAre ==
  ASSUME NEW C, NEW doc \in Seq(C)
  PROVE  /\ Numbered(Ends(doc)) /\ \A e \in Ends(doc) : e \in 1..Len(doc) + 1
         /\ \A k \in 0..Len(doc) : Rank(Ends(doc), k) = LineNo(doc, k)
         /\ Cardinality(Ends(doc)) = LineNo(doc, Len(doc)) + 1
         /\ LineNo(doc, Len(doc)) \in Nat /\ LineNo(doc, 0) = 0
<1>1. PICK n \in Nat : n = Len(doc)
  OBVIOUS
<1>2. PICK B : B = Breaks(doc, n)
  OBVIOUS
<1>3. B \in SUBSET (1..n)
  BY <1>2 DEF Breaks
<1>4. IsFiniteSet(B)
  <2>1. IsFiniteSet(1..n)
    BY FS_Interval
  <2> QED BY <1>3, <2>1, FS_Subset
<1>5. n + 1 \notin B
  BY <1>3
<1>6. IsFiniteSet(B \cup {n + 1}) /\ Cardinality(B \cup {n + 1}) = Cardinality(B) + 1
  BY <1>4, <1>5, FS_AddElement
<1>7. Cardinality(B) \in Nat
  BY <1>4, FS_CardinalityType
<1>8. Ends(doc) = B \cup {n + 1}
  BY <1>1, <1>2 DEF Ends
<1>9. ASSUME NEW k \in 0..n PROVE Rank(Ends(doc), k) = LineNo(doc, k)
  <2>1. ASSUME NEW e PROVE e \in Below(Ends(doc), k) <=> e \in Breaks(doc, k)
    BY <1>2, <1>8 DEF Below, Breaks
  <2>2. Below(Ends(doc), k) = Breaks(doc, k)
    BY <2>1
  <2> QED BY <2>2 DEF Rank, LineNo
<1>10. Breaks(doc, 0) = {}
  BY DEF Breaks
<1>11. LineNo(doc, 0) = 0
  BY <1>10, FS_EmptySet DEF LineNo
<1>12. LineNo(doc, n) = Cardinality(B)
  BY <1>2 DEF LineNo
<1>13. \A e \in Ends(doc) : e \in 1..n + 1
  <2> SUFFICES ASSUME NEW e \in Ends(doc) PROVE e \in 1..n + 1
    OBVIOUS
  <2>1. CASE e \in B
    <3>1. e \in 1..n
      BY <1>3, <2>1
    <3> QED BY <3>1
  <2>2. CASE e = n + 1
    BY <2>2
  <2> QED BY <1>8, <2>1, <2>2
<1>14. Numbered(Ends(doc))
  BY <1>6, <1>8, <1>13 DEF Numbered
<1>15. Cardinality(Ends(doc)) = LineNo(doc, n) + 1 /\ LineNo(doc, n) \in Nat
  BY <1>6, <1>7, <1>8, <1>12
<1> QED BY <1>1, <1>9, <1>11, <1>13, <1>14, <1>15

\* A line: its end is that of the text, or a \n, as is the place before it; there is none inside.
Line(doc, b, e) ==
    /\ b \in 0..Len(doc) /\ e \in b + 1..Len(doc) + 1
    /\ b = 0 \/ doc[b] = "n"
    /\ e = Len(doc) + 1 \/ doc[e] = "n"
    /\ \A i \in b + 1..e - 1 : doc[i] # "n"

LEMMA LineIs ==
  ASSUME NEW C, NEW doc \in Seq(C), NEW l \in 0..Len(LineEnds(doc)) - 1
  PROVE  /\ Line(doc, LineBegin(doc, l), LineEnds(doc)[l + 1])
         /\ \A k \in LineBegin(doc, l)..LineEnds(doc)[l + 1] - 1 : LineNo(doc, k) = l
         /\ LineEnds(doc) \in Seq(Nat) /\ Len(LineEnds(doc)) = LineNo(doc, Len(doc)) + 1
<1>1. PICK n \in Nat : n = Len(doc)
  OBVIOUS
<1>2. PICK T, A : T = Ends(doc) /\ A = LineEnds(doc)
  OBVIOUS
<1>3. /\ Numbered(T) /\ \A e \in T : e \in 1..n + 1
      /\ \A k \in 0..n : Rank(T, k) = LineNo(doc, k)
      /\ Cardinality(T) = LineNo(doc, n) + 1
      /\ LineNo(doc, n) \in Nat /\ LineNo(doc, 0) = 0
  BY <1>1, <1>2, EndsAre
<1>4. A = Ascending(T)
  BY <1>2 DEF LineEnds, Ends
<1>5. PICK m \in Nat : m = Cardinality(T)
  BY <1>3
<1>6. /\ A \in Seq(T) /\ Len(A) = m
      /\ \A i \in 1..m : A[i] \in T /\ Rank(T, A[i]) = i
      /\ \A i, j \in 1..m : i < j => A[i] < A[j]
  BY <1>3, <1>4, <1>5, AscendingIs
<1>7. l \in 0..m - 1
  BY <1>2, <1>6
<1>8. PICK b, e : b = LineBegin(doc, l) /\ e = A[l + 1]
  OBVIOUS
<1>9. b = IF l = 0 THEN 0 ELSE A[l]
  BY <1>2, <1>8 DEF LineBegin
<1>10. e \in T /\ e \in 1..n + 1 /\ Rank(T, e) = l + 1
  BY <1>3, <1>6, <1>7, <1>8
<1>11. b \in 0..n /\ b < e /\ Rank(T, b) = l /\ (b = 0 \/ b \in T)
  <2>1. CASE l = 0
    <3>1. Rank(T, 0) = 0
      BY <1>3
    <3> QED BY <1>9, <1>10, <2>1, <3>1
  <2>2. CASE l # 0
    <3>1. b \in T /\ Rank(T, b) = l
      BY <1>6, <1>7, <1>9, <2>2
    <3>2. l \in 1..m /\ l + 1 \in 1..m /\ l < l + 1
      BY <1>7, <2>2
    <3>3. b < e
      BY <1>6, <1>8, <1>9, <2>2, <3>2
    <3>4. b \in 1..n + 1
      BY <1>3, <3>1
    <3> QED BY <1>10, <3>1, <3>3, <3>4
  <2> QED BY <2>1, <2>2
<1>12. \A i \in T : i = n + 1 \/ (i \in 1..n /\ doc[i] = "n")
  BY <1>1, <1>2 DEF Ends, Breaks
<1>13. \A i \in 1..n : doc[i] = "n" => i \in T
  BY <1>1, <1>2 DEF Ends, Breaks
<1>14. ASSUME NEW i \in b + 1..e - 1 PROVE doc[i] # "n"
  <2> SUFFICES ASSUME doc[i] = "n" PROVE FALSE
    OBVIOUS
  <2>1. i \in 1..n /\ b \in Nat /\ i \in Nat /\ e \in Nat /\ b < i /\ i < e
    BY <1>10, <1>11
  <2>2. i \in T
    BY <1>13, <2>1
  <2>3. Rank(T, b) < Rank(T, i)
    BY <1>3, <2>1, <2>2, RankIs
  <2>4. Rank(T, i) < Rank(T, e)
    BY <1>3, <1>10, <2>1, RankIs
  <2>5. Rank(T, i) \in 1..m
    BY <1>3, <1>5, <2>2, RankIs
  <2> QED BY <1>10, <1>11, <2>3, <2>4, <2>5
<1>15. ASSUME NEW k \in b..e - 1 PROVE LineNo(doc, k) = l
  <2>1. k \in 0..n /\ k \in Nat /\ b \in Nat /\ e \in Nat /\ k < e /\ (b = k \/ b < k)
    BY <1>10, <1>11
  <2>2. Rank(T, k) < Rank(T, e)
    BY <1>3, <1>10, <2>1, RankIs
  <2>3. Rank(T, b) <= Rank(T, k)
    <3>1. CASE b < k
      BY <1>3, <2>1, <3>1, RankIs
    <3>2. CASE b = k
      BY <1>11, <3>2
    <3> QED BY <2>1, <3>1, <3>2
  <2>4. Rank(T, k) \in 0..m
    BY <1>3, <1>5, <2>1, RankIs
  <2>5. Rank(T, k) = l
    BY <1>7, <1>10, <1>11, <2>2, <2>3, <2>4
  <2> QED BY <1>3, <2>1, <2>5
<1>16. Line(doc, b, e)
  BY <1>1, <1>10, <1>11, <1>12, <1>14 DEF Line
<1>17. A \in Seq(Nat)
  <2>1. \A i \in 1..m : A[i] \in Nat
    BY <1>3, <1>6
  <2> QED BY <1>6, <2>1
<1> QED BY <1>1, <1>2, <1>3, <1>5, <1>6, <1>8, <1>15, <1>16, <1>17

\* The line of a place.
LEMMA LineOf ==
  ASSUME NEW C, NEW doc \in Seq(C), NEW k \in 0..Len(doc)
  PROVE  /\ LineNo(doc, k) \in 0..Len(LineEnds(doc)) - 1
         /\ LineBegin(doc, LineNo(doc, k)) \in 0..k
         /\ LineEnds(doc)[LineNo(doc, k) + 1] \in k + 1..Len(doc) + 1
<1>1. PICK n \in Nat : n = Len(doc)
  OBVIOUS
<1>2. PICK T : T = Ends(doc)
  OBVIOUS
<1>3. /\ Numbered(T) /\ \A e \in T : e \in 1..n + 1
      /\ \A i \in 0..n : Rank(T, i) = LineNo(doc, i)
      /\ Cardinality(T) = LineNo(doc, n) + 1 /\ LineNo(doc, n) \in Nat
  BY <1>1, <1>2, EndsAre
<1>4. n + 1 \in T
  BY <1>1, <1>2 DEF Ends
<1>5. Ascending(T) = LineEnds(doc)
  BY <1>2 DEF Ends, LineEnds
<1>6. Len(LineEnds(doc)) = LineNo(doc, n) + 1
  <2>1. Len(Ascending(T)) = Cardinality(T)
    BY <1>3, AscendingIs
  <2> QED BY <1>3, <1>5, <2>1
<1>7. PICK l : l = LineNo(doc, k)
  OBVIOUS
<1>8. l = Rank(T, k) /\ k \in Nat /\ k < n + 1
  BY <1>1, <1>3, <1>7
<1>9. l \in 0..LineNo(doc, n)
  <2>1. Rank(T, k) \in 0..Cardinality(T)
    BY <1>3, <1>8, RankIs
  <2>2. Rank(T, n + 1) \in 1..Cardinality(T)
    BY <1>3, <1>4, RankIs
  <2>3. Rank(T, k) < Rank(T, n + 1)
    BY <1>3, <1>4, <1>8, RankIs
  <2> QED BY <1>3, <1>8, <2>1, <2>2, <2>3
<1>10. l \in 0..Len(LineEnds(doc)) - 1
  BY <1>3, <1>6, <1>9
<1>11. PICK b, e : b = LineBegin(doc, l) /\ e = LineEnds(doc)[l + 1]
  OBVIOUS
<1>12. Line(doc, b, e) /\ \A i \in b..e - 1 : LineNo(doc, i) = l
  BY <1>10, <1>11, LineIs
<1>13. b \in 0..n /\ e \in b + 1..n + 1 /\ b \in T \cup {0} /\ e \in T
  BY <1>1, <1>2, <1>12 DEF Line, Ends, Breaks
<1>14. Rank(T, b) = l
  BY <1>3, <1>12, <1>13
<1>15. Rank(T, e) > l
  <2>1. b \in Nat /\ b < e
    BY <1>13
  <2>2. Rank(T, b) < Rank(T, e)
    BY <1>3, <1>13, <2>1, RankIs
  <2>3. Rank(T, e) \in 1..Cardinality(T)
    BY <1>3, <1>13, RankIs
  <2> QED BY <1>3, <1>9, <1>14, <2>2, <2>3
<1>16. b <= k
  <2> SUFFICES ASSUME k < b PROVE FALSE
    BY <1>8, <1>13
  <2>1. b \in T
    BY <1>8, <1>13
  <2>2. Rank(T, k) < Rank(T, b)
    BY <1>3, <1>8, <2>1, RankIs
  <2> QED BY <1>8, <1>9, <1>14, <2>2
<1>17. k < e
  <2> SUFFICES ASSUME e <= k PROVE FALSE
    BY <1>8, <1>13
  <2>1. e \in Nat /\ (e = k \/ e < k)
    BY <1>8, <1>13
  <2>2. CASE e < k
    <3>1. Rank(T, e) <= Rank(T, k)
      BY <1>3, <1>8, <2>1, <2>2, RankIs
    <3>2. Rank(T, e) \in 1..Cardinality(T)
      BY <1>3, <1>13, RankIs
    <3> QED BY <1>3, <1>8, <1>9, <1>15, <3>1, <3>2
  <2>3. CASE e = k
    BY <1>8, <1>9, <1>15, <2>3
  <2> QED BY <2>1, <2>2, <2>3
<1>18. b \in 0..k /\ e \in k + 1..n + 1
  BY <1>8, <1>13, <1>16, <1>17
<1> QED BY <1>1, <1>7, <1>10, <1>11, <1>18

\* Where the line of a place begins.
LEMMA LineBeginIs ==
  ASSUME NEW C, NEW doc \in Seq(C), NEW k \in 0..Len(doc), NEW b \in 0..k,
         b = 0 \/ doc[b] = "n", \A i \in b + 1..k : doc[i] # "n"
  PROVE  LineBegin(doc, LineNo(doc, k)) = b
<1>1. PICK l, a, e : l = LineNo(doc, k) /\ a = LineBegin(doc, l) /\ e = LineEnds(doc)[l + 1]
  OBVIOUS
<1>2. l \in 0..Len(LineEnds(doc)) - 1 /\ a \in 0..k /\ e \in k + 1..Len(doc) + 1
  BY <1>1, LineOf
<1>3. Line(doc, a, e)
  BY <1>1, <1>2, LineIs
<1>4. ~(a < b)
  <2> SUFFICES ASSUME a < b PROVE FALSE
    OBVIOUS
  <2>1. b \in a + 1..e - 1 /\ doc[b] = "n"
    BY <1>2
  <2> QED BY <1>3, <2>1 DEF Line
<1>5. ~(b < a)
  <2> SUFFICES ASSUME b < a PROVE FALSE
    OBVIOUS
  <2>1. a \in b + 1..k /\ a # 0
    BY <1>2
  <2> QED BY <1>3, <2>1 DEF Line
<1> QED BY <1>1, <1>2, <1>4, <1>5

-----------------------------------------------------------------------------
(* The lines of a text.                                                    *)

LineSet(doc) == {i \in 1..Len(doc) : doc[i] = "n" \/ i = Len(doc)}
Stops(doc) == Ascending(LineSet(doc))
StopBefore(doc, l) == IF l = 1 THEN 0 ELSE Stops(doc)[l - 1]

LEMMA StopsAre ==
  ASSUME NEW C, NEW doc \in Seq(C)
  PROVE  /\ Numbered(LineSet(doc)) /\ Cardinality(LineSet(doc)) \in Nat
         /\ Stops(doc) \in Seq(Nat) /\ Len(Stops(doc)) = Cardinality(LineSet(doc))
         /\ \A l \in 1..Len(Stops(doc)) :
                /\ Stops(doc)[l] \in LineSet(doc) /\ Rank(LineSet(doc), Stops(doc)[l]) = l
                /\ Stops(doc)[l] \in 1..Len(doc)
                /\ StopBefore(doc, l) \in 0..Stops(doc)[l] - 1
                /\ StopBefore(doc, l) = 0 \/ doc[StopBefore(doc, l)] = "n"
         /\ \A i, j \in 1..Len(Stops(doc)) : i < j => Stops(doc)[i] < Stops(doc)[j]
         /\ \A e \in LineSet(doc) : /\ Rank(LineSet(doc), e) \in 1..Len(Stops(doc))
                                    /\ Stops(doc)[Rank(LineSet(doc), e)] = e
         /\ doc = <<>> <=> Len(Stops(doc)) = 0
         /\ doc # <<>> => Stops(doc)[Len(Stops(doc))] = Len(doc)
<1>1. PICK T : T = LineSet(doc)
  OBVIOUS
<1>2. PICK n \in Nat : n = Len(doc)
  OBVIOUS
<1>3. \A e \in T : e \in 1..n /\ (doc[e] = "n" \/ e = n)
  BY <1>1, <1>2 DEF LineSet
<1>4. Numbered(T)
  <2>1. IsFiniteSet(1..n)
    BY <1>2, FS_Interval
  <2>2. IsFiniteSet(T)
    BY <1>3, <2>1, FS_Subset
  <2> QED BY <1>3, <2>2 DEF Numbered
<1>5. PICK m \in Nat : m = Cardinality(T)
  BY <1>4, RankIs
<1>6. PICK A : A = Stops(doc) /\ A = Ascending(T)
  BY <1>1 DEF Stops
<1>7. /\ A \in Seq(T) /\ Len(A) = m
      /\ \A l \in 1..m : A[l] \in T /\ Rank(T, A[l]) = l
      /\ \A e \in T : A[Rank(T, e)] = e
      /\ \A i, j \in 1..m : i < j => A[i] < A[j]
  BY <1>4, <1>5, <1>6, AscendingIs
<1>8. A \in Seq(Nat)
  <2>1. \A l \in 1..m : A[l] \in Nat
    BY <1>3, <1>7
  <2> QED BY <1>7, <2>1
<1>9. \A e \in T : Rank(T, e) \in 1..m
  BY <1>4, <1>5, RankIs
<1>10. ASSUME NEW l \in 1..m
       PROVE  /\ StopBefore(doc, l) \in 0..A[l] - 1
              /\ StopBefore(doc, l) = 0 \/ doc[StopBefore(doc, l)] = "n"
  <2>1. A[l] \in 1..n
    BY <1>3, <1>7
  <2>2. CASE l = 1
    BY <2>1, <2>2 DEF StopBefore
  <2>3. CASE l # 1
    <3>1. l - 1 \in 1..m /\ l - 1 < l
      BY <2>3
    <3>2. PICK b : b = A[l - 1]
      OBVIOUS
    <3>3. StopBefore(doc, l) = b
      BY <1>6, <2>3, <3>2 DEF StopBefore
    <3>4. b < A[l] /\ b \in T
      BY <1>7, <3>1, <3>2
    <3>5. b \in 1..n /\ (doc[b] = "n" \/ b = n)
      BY <1>3, <3>4
    <3>6. b # n
      BY <2>1, <3>4
    <3> QED BY <2>1, <3>3, <3>4, <3>5, <3>6
  <2> QED BY <2>2, <2>3
<1>11. doc = <<>> <=> n = 0
  BY <1>2
<1>12. n # 0 => n \in T
  BY <1>1, <1>2 DEF LineSet
<1>13. n = 0 => m = 0
  <2> SUFFICES ASSUME n = 0 PROVE m = 0
    OBVIOUS
  <2>1. T = {}
    BY <1>3
  <2> QED BY <1>5, <2>1, FS_EmptySet
<1>14. n # 0 => m # 0 /\ A[m] = n
  <2> SUFFICES ASSUME n # 0 PROVE m # 0 /\ A[m] = n
    OBVIOUS
  <2>1. PICK r : r = Rank(T, n)
    OBVIOUS
  <2>2. r \in 1..m /\ A[r] = n
    BY <1>7, <1>9, <1>12, <2>1
  <2>3. A[m] \in 1..n
    <3>1. m \in 1..m
      BY <2>2
    <3>2. A[m] \in T
      BY <1>7, <3>1
    <3> QED BY <1>3, <3>2
  <2>4. r < m => A[r] < A[m]
    BY <1>7, <2>2
  <2>5. ~(r < m)
    BY <2>2, <2>3, <2>4
  <2> QED BY <2>2, <2>5
<1>15. \A l \in 1..m : A[l] \in 1..n
  BY <1>3, <1>7
<1> QED BY <1>1, <1>2, <1>4, <1>5, <1>6, <1>7, <1>8, <1>9, <1>10, <1>11, <1>13, <1>14, <1>15

LEMMA LinesAre ==
  ASSUME NEW C, NEW doc \in Seq(C)
  PROVE  /\ LinesOf(doc) \in Seq(Seq(C)) /\ Len(LinesOf(doc)) = Len(Stops(doc))
         /\ \A l \in 1..Len(Stops(doc)) :
                LinesOf(doc)[l] = SubSeq(doc, StopBefore(doc, l) + 1, Stops(doc)[l])
<1>1. PICK m \in Nat : m = Len(Stops(doc))
  BY StopsAre
<1>2. PICK E : E = Stops(doc)
  OBVIOUS
<1>3. LinesOf(doc) = [l \in 1..m |-> SubSeq(doc, IF l = 1 THEN 1 ELSE E[l - 1] + 1, E[l])]
  BY <1>1, <1>2 DEF LinesOf, Stops, LineSet
<1>4. ASSUME NEW l \in 1..m
      PROVE  LinesOf(doc)[l] = SubSeq(doc, StopBefore(doc, l) + 1, E[l]) /\ LinesOf(doc)[l] \in Seq(C)
  <2>1. (IF l = 1 THEN 1 ELSE E[l - 1] + 1) = StopBefore(doc, l) + 1
    <3>1. CASE l = 1
      BY <3>1 DEF StopBefore
    <3>2. CASE l # 1
      BY <1>2, <3>2 DEF StopBefore
    <3> QED BY <3>1, <3>2
  <2>2. LinesOf(doc)[l] = SubSeq(doc, StopBefore(doc, l) + 1, E[l])
    BY <1>3, <2>1
  <2>3. StopBefore(doc, l) \in 0..E[l] - 1 /\ E[l] \in 1..Len(doc)
    BY <1>1, <1>2, StopsAre
  <2>4. StopBefore(doc, l) \in 0..Len(doc) /\ E[l] \in StopBefore(doc, l)..Len(doc)
    BY <2>3
  <2> QED BY <2>2, <2>4, StretchIs
<1>5. LinesOf(doc) = [l \in 1..m |-> LinesOf(doc)[l]]
  BY <1>3
<1>6. LinesOf(doc) \in Seq(Seq(C)) /\ Len(LinesOf(doc)) = m
  BY <1>4, <1>5
<1> QED BY <1>1, <1>2, <1>4, <1>6

Terminated(s) == s = <<>> \/ s[Len(s)] = "n"

\* The lines of a text that ends one and of what follows.
LEMMA LinesJoin ==
  ASSUME NEW C, NEW p \in Seq(C), NEW c \in Seq(C), Terminated(p)
  PROVE  LinesOf(p \o c) = LinesOf(p) \o LinesOf(c)
<1>1. PICK q \in Seq(C) : q = p \o c
  BY ConcatIs
<1>2. PICK a \in Nat, b \in Nat : a = Len(p) /\ b = Len(c) /\ Len(q) = a + b
  BY <1>1, ConcatIs
<1>3. PICK A, B : A = Stops(p) /\ B = Stops(c)
  OBVIOUS
<1>4. PICK m \in Nat, n \in Nat : m = Len(A) /\ n = Len(B)
  BY <1>3, StopsAre
<1>5. /\ \A l \in 1..m : /\ A[l] \in LineSet(p) /\ A[l] \in 1..a
                         /\ StopBefore(p, l) \in 0..A[l] - 1
      /\ \A i, j \in 1..m : i < j => A[i] < A[j]
      /\ a = 0 <=> m = 0
      /\ a # 0 => A[m] = a
  <2>1. p = <<>> <=> a = 0
    BY <1>2
  <2> QED BY <1>2, <1>3, <1>4, <2>1, StopsAre
<1>6. /\ \A l \in 1..n : /\ B[l] \in LineSet(c) /\ B[l] \in 1..b
                         /\ StopBefore(c, l) \in 0..B[l] - 1
      /\ \A i, j \in 1..n : i < j => B[i] < B[j]
  BY <1>2, <1>3, <1>4, StopsAre
<1>7. CASE b = 0
  <2>1. c = <<>> /\ q = p
    BY <1>1, <1>2, <1>7
  <2>2. LinesOf(c) \in Seq(Seq(C)) /\ Len(LinesOf(c)) = 0
    BY <2>1, LinesAre, StopsAre
  <2>3. LinesOf(c) = <<>> /\ LinesOf(p) \in Seq(Seq(C))
    BY <2>2, LinesAre
  <2>4. LinesOf(p) \o LinesOf(c) = LinesOf(p)
    BY <2>3
  <2> QED BY <1>1, <2>1, <2>4
<1>8. CASE b # 0
  <2>1. PICK L : L = [l \in 1..m + n |-> IF l \in 1..m THEN A[l] ELSE a + B[l - m]]
    OBVIOUS
  <2>2. /\ \A l \in 1..m : L[l] = A[l] /\ L[l] \in 1..a
        /\ \A l \in m + 1..m + n : l - m \in 1..n /\ L[l] = a + B[l - m] /\ L[l] \in a + 1..a + b
        /\ \A l \in 1..m + n : l \in 1..m \/ l \in m + 1..m + n
    <3>1. ASSUME NEW l \in 1..m PROVE L[l] = A[l] /\ L[l] \in 1..a
      <4>1. l \in 1..m + n /\ A[l] \in 1..a
        BY <1>5
      <4>2. L[l] = A[l]
        BY <2>1, <4>1
      <4> QED BY <4>1, <4>2
    <3>2. ASSUME NEW l \in m + 1..m + n
          PROVE  l - m \in 1..n /\ L[l] = a + B[l - m] /\ L[l] \in a + 1..a + b
      <4>1. l \in 1..m + n /\ l \notin 1..m /\ l - m \in 1..n
        OBVIOUS
      <4>2. L[l] = a + B[l - m]
        BY <2>1, <4>1
      <4>3. B[l - m] \in 1..b
        BY <1>6, <4>1
      <4> QED BY <4>1, <4>2, <4>3
    <3> QED BY <3>1, <3>2
  <2>3. L \in [1..m + n -> Nat]
    <3>1. \A l \in 1..m + n : L[l] \in Nat
      BY <2>2
    <3> QED BY <2>1, <3>1
  <2>4. ASSUME NEW i \in 1..m + n, NEW j \in 1..m + n, i < j PROVE L[i] < L[j]
    <3>1. CASE j \in 1..m
      <4>1. i \in 1..m
        BY <2>4, <3>1
      <4> QED BY <1>5, <2>2, <2>4, <3>1, <4>1
    <3>2. CASE i \in 1..m /\ j \in m + 1..m + n
      <4>1. L[i] \in 1..a /\ L[j] \in a + 1..a + b
        BY <2>2, <3>2
      <4> QED BY <4>1
    <3>3. CASE i \in m + 1..m + n /\ j \in m + 1..m + n
      <4>1. PICK x \in 1..n, y \in 1..n : x = i - m /\ y = j - m /\ x < y
        BY <2>2, <2>4, <3>3
      <4>2. B[x] < B[y] /\ B[x] \in 1..b /\ B[y] \in 1..b
        BY <1>6, <4>1
      <4>3. L[i] = a + B[x] /\ L[j] = a + B[y]
        BY <2>2, <3>3, <4>1
      <4> QED BY <4>2, <4>3
    <3> QED BY <2>2, <3>1, <3>2, <3>3
  <2>5. ASSUME NEW e PROVE e \in LineSet(q) <=> \E l \in 1..m + n : L[l] = e
    <3>1. \A l \in 1..a : q[l] = p[l]
      BY <1>1, <1>2, ElementOfConcat
    <3>2. \A l \in a + 1..a + b : q[l] = c[l - a]
      BY <1>1, <1>2, ElementOfConcat
    <3>3. ASSUME e \in LineSet(q) PROVE \E l \in 1..m + n : L[l] = e
      <4>1. e \in 1..a + b /\ (q[e] = "n" \/ e = a + b)
        BY <1>2, <3>3 DEF LineSet
      <4>2. CASE e \in 1..a
        <5>1. p[e] = "n"
          BY <1>8, <3>1, <4>1, <4>2
        <5>2. e \in LineSet(p)
          BY <1>2, <4>2, <5>1 DEF LineSet
        <5>3. PICK l : l = Rank(LineSet(p), e)
          OBVIOUS
        <5>4. l \in 1..m /\ A[l] = e
          BY <1>3, <1>4, <5>2, <5>3, StopsAre
        <5>5. l \in 1..m + n
          BY <5>4
        <5> QED BY <2>2, <5>4, <5>5
      <4>3. CASE e \in a + 1..a + b
        <5>1. e - a \in 1..b /\ (c[e - a] = "n" \/ e - a = b)
          BY <3>2, <4>1, <4>3
        <5>2. e - a \in LineSet(c)
          BY <1>2, <5>1 DEF LineSet
        <5>3. PICK l : l = Rank(LineSet(c), e - a)
          OBVIOUS
        <5>4. l \in 1..n /\ B[l] = e - a
          BY <1>3, <1>4, <5>2, <5>3, StopsAre
        <5>5. m + l \in m + 1..m + n /\ m + l \in 1..m + n /\ (m + l) - m = l
          BY <5>4
        <5>6. L[m + l] = a + B[l]
          BY <2>2, <5>5
        <5>7. L[m + l] = e
          BY <4>3, <5>4, <5>6
        <5> QED BY <5>5, <5>7
      <4>4. e \in 1..a \/ e \in a + 1..a + b
        BY <4>1
      <4> QED BY <4>2, <4>3, <4>4
    <3>4. ASSUME NEW l \in 1..m + n, L[l] = e PROVE e \in LineSet(q)
      <4>1. CASE l \in 1..m
        <5>1. e \in LineSet(p) /\ e \in 1..a
          BY <1>5, <2>2, <3>4, <4>1
        <5>2. p[e] = "n"
          <6>1. p # <<>>
            BY <1>2, <5>1
          <6>2. p[e] = "n" \/ e = Len(p)
            BY <5>1 DEF LineSet
          <6> QED BY <6>1, <6>2 DEF Terminated
        <5>3. e \in 1..Len(q) /\ q[e] = "n"
          BY <1>2, <3>1, <5>1, <5>2
        <5> QED BY <5>3 DEF LineSet
      <4>2. CASE l \in m + 1..m + n
        <5>1. PICK x \in 1..n : x = l - m
          BY <2>2, <4>2
        <5>2. e = a + B[x] /\ B[x] \in 1..b /\ B[x] \in LineSet(c)
          BY <1>6, <2>2, <3>4, <4>2, <5>1
        <5>3. c[B[x]] = "n" \/ B[x] = b
          BY <1>2, <5>2 DEF LineSet
        <5>4. e \in a + 1..a + b /\ e - a = B[x]
          BY <5>2
        <5>5. q[e] = c[B[x]]
          BY <3>2, <5>4
        <5>6. e \in 1..Len(q) /\ (q[e] = "n" \/ e = Len(q))
          <6>1. e \in 1..a + b
            BY <5>4
          <6>2. c[B[x]] = "n" => q[e] = "n"
            BY <5>5
          <6>3. B[x] = b => e = a + b
            BY <5>2
          <6> QED BY <1>2, <5>3, <6>1, <6>2, <6>3
        <5> QED BY <5>6 DEF LineSet
      <4> QED BY <2>2, <4>1, <4>2
    <3> QED BY <3>3, <3>4
  <2>6. Stops(q) = L
    <3>1. m + n \in Nat
      OBVIOUS
    <3> HIDE DEF Stops
    <3>2. Ascending(LineSet(q)) = L
      BY <2>3, <2>4, <2>5, <3>1, AscendingIsIt
    <3> QED BY <3>2 DEF Stops
  <2>7. Len(Stops(q)) = m + n
    <3>1. L \in Seq(Nat)
      BY <2>6, StopsAre
    <3> QED BY <2>1, <2>6, <3>1
  <2>8. PICK x, y, z : x = LinesOf(p) /\ y = LinesOf(c) /\ z = LinesOf(q)
    OBVIOUS
  <2>9. /\ x \in Seq(Seq(C)) /\ y \in Seq(Seq(C)) /\ z \in Seq(Seq(C))
        /\ Len(x) = m /\ Len(y) = n /\ Len(z) = m + n
    BY <1>3, <1>4, <2>7, <2>8, LinesAre
  <2>10. ASSUME NEW l \in 1..m PROVE z[l] = x[l]
    <3>1. l \in 1..m + n
      OBVIOUS
    <3>2. StopBefore(q, l) = StopBefore(p, l)
      <4>1. CASE l = 1
        BY <4>1 DEF StopBefore
      <4>2. CASE l # 1
        <5>1. l - 1 \in 1..m
          BY <4>2
        <5>2. Stops(q)[l - 1] = A[l - 1]
          BY <2>2, <2>6, <5>1
        <5> QED BY <1>3, <4>2, <5>2 DEF StopBefore
      <4> QED BY <4>1, <4>2
    <3>3. PICK s : s = StopBefore(p, l)
      OBVIOUS
    <3>4. s \in 0..A[l] - 1 /\ A[l] \in 1..a
      BY <1>5, <3>3
    <3>5. x[l] = SubSeq(p, s + 1, A[l])
      BY <1>3, <1>4, <2>8, <3>3, LinesAre
    <3>6. z[l] = SubSeq(q, s + 1, A[l])
      <4>1. z[l] = SubSeq(q, StopBefore(q, l) + 1, Stops(q)[l])
        BY <2>7, <2>8, <3>1, LinesAre
      <4>2. Stops(q)[l] = A[l]
        BY <2>2, <2>6
      <4> QED BY <3>2, <3>3, <4>1, <4>2
    <3>7. PICK t \in Nat : t = A[l]
      BY <3>4
    <3>8. s \in 0..Len(p) /\ t \in s..Len(p)
      BY <1>2, <3>4, <3>7
    <3>9. SubSeq(p \o c, s + 1, t) = SubSeq(p, s + 1, t)
      BY <3>8, StretchOfConcat
    <3> QED BY <1>1, <3>5, <3>6, <3>7, <3>9
  <2>11. ASSUME NEW l \in m + 1..m + n PROVE z[l] = y[l - m]
    <3>1. PICK k \in 1..n : k = l - m
      BY <2>2
    <3>0. l \in 1..m + n
      OBVIOUS
    <3>2. PICK s : s = StopBefore(c, k)
      OBVIOUS
    <3>3. s \in 0..B[k] - 1 /\ B[k] \in 1..b
      BY <1>6, <3>2
    <3>4. StopBefore(q, l) = a + s
      <4>1. CASE k # 1
        <5>1. k - 1 \in 1..n /\ l - 1 \in m + 1..m + n /\ (l - 1) - m = k - 1 /\ l # 1
          BY <3>1, <4>1
        <5>2. Stops(q)[l - 1] = a + B[k - 1]
          BY <2>2, <2>6, <5>1
        <5>3. s = B[k - 1]
          BY <1>3, <3>2, <4>1 DEF StopBefore
        <5> QED BY <5>1, <5>2, <5>3 DEF StopBefore
      <4>2. CASE k = 1 /\ m = 0
        <5>1. l = 1 /\ a = 0 /\ s = 0
          BY <1>5, <3>1, <3>2, <4>2 DEF StopBefore
        <5> QED BY <5>1 DEF StopBefore
      <4>3. CASE k = 1 /\ m # 0
        <5>1. l - 1 = m /\ l # 1 /\ s = 0
          BY <3>1, <3>2, <4>3 DEF StopBefore
        <5>2. m \in 1..m /\ a # 0
          BY <1>5, <4>3
        <5>3. Stops(q)[m] = a
          BY <1>5, <2>2, <2>6, <5>2
        <5> QED BY <5>1, <5>3 DEF StopBefore
      <4> QED BY <4>1, <4>2, <4>3
    <3>5. y[k] = SubSeq(c, s + 1, B[k])
      BY <1>3, <1>4, <2>8, <3>2, LinesAre
    <3>6. z[l] = SubSeq(q, (a + s) + 1, a + B[k])
      <4>1. z[l] = SubSeq(q, StopBefore(q, l) + 1, Stops(q)[l])
        BY <2>7, <2>8, <3>0, LinesAre
      <4>2. Stops(q)[l] = a + B[k]
        BY <2>2, <2>6, <3>1
      <4> QED BY <3>4, <4>1, <4>2
    <3>7. PICK t \in Nat : t = B[k]
      BY <3>3
    <3>8. s \in 0..Len(c) /\ t \in s..Len(c)
      BY <1>2, <3>3, <3>7
    <3>9. SubSeq(p \o c, (Len(p) + s) + 1, Len(p) + t) = SubSeq(c, s + 1, t)
      BY <3>8, StretchOfConcat
    <3> QED BY <1>1, <1>2, <3>1, <3>5, <3>6, <3>7, <3>9
  <2>12. PICK w \in Seq(Seq(C)) : w = x \o y
    BY <2>9, ConcatIs
  <2>13. /\ Len(w) = m + n /\ \A l \in 1..m : w[l] = x[l]
         /\ \A l \in m + 1..m + n : w[l] = y[l - m]
    <3>1. Len(x \o y) = Len(x) + Len(y)
      BY <2>9, ConcatIs
    <3>2. \A l \in 1..Len(x) : (x \o y)[l] = x[l]
      BY <2>9, ElementOfConcat
    <3>3. \A l \in Len(x) + 1..Len(x) + Len(y) : (x \o y)[l] = y[l - Len(x)]
      BY <2>9, ElementOfConcat
    <3> QED BY <2>9, <2>12, <3>1, <3>2, <3>3
  <2>14. \A l \in 1..m + n : z[l] = w[l]
    BY <2>2, <2>10, <2>11, <2>13
  <2>15. z = w
    BY <2>9, <2>13, <2>14, SameElements
  <2> QED BY <1>1, <2>8, <2>12, <2>15
<1> QED BY <1>7, <1>8

\* Where the lines begin, and the end of the text.
LEMMA StartsAre ==
  ASSUME NEW C, NEW doc \in Seq(C)
  PROVE  /\ Len(LineStarts(doc)) = Len(Stops(doc)) + 1 /\ Total(doc) = Len(Stops(doc))
         /\ \A l \in 1..Len(Stops(doc)) + 1 : LineStarts(doc)[l] = StopBefore(doc, l)
<1>1. PICK A : A = Stops(doc)
  OBVIOUS
<1>2. PICK m \in Nat : m = Len(A)
  BY <1>1, StopsAre
<1>3. PICK n \in Nat : n = Len(doc)
  OBVIOUS
<1>4. /\ \A l \in 1..m : A[l] \in 1..n /\ A[l] \in LineSet(doc)
      /\ \A i, j \in 1..m : i < j => A[i] < A[j]
  BY <1>1, <1>2, <1>3, StopsAre
<1>5. PICK L : L = [l \in 1..m + 1 |-> IF l = 1 THEN 0 ELSE A[l - 1]]
  OBVIOUS
<1>6. /\ L[1] = 0
      /\ \A l \in 2..m + 1 : l - 1 \in 1..m /\ L[l] = A[l - 1] /\ L[l] \in 1..n
      /\ \A l \in 1..m + 1 : l = 1 \/ l \in 2..m + 1
  <2>1. L[1] = 0
    <3>1. 1 \in 1..m + 1
      OBVIOUS
    <3> QED BY <1>5, <3>1
  <2>2. ASSUME NEW l \in 2..m + 1 PROVE l - 1 \in 1..m /\ L[l] = A[l - 1] /\ L[l] \in 1..n
    <3>1. l - 1 \in 1..m /\ l \in 1..m + 1 /\ l # 1
      OBVIOUS
    <3>2. L[l] = A[l - 1]
      BY <1>5, <3>1
    <3> QED BY <1>4, <3>1, <3>2
  <2> QED BY <2>1, <2>2
<1>7. L \in [1..m + 1 -> Nat]
  <2>1. \A l \in 1..m + 1 : L[l] \in Nat
    BY <1>6
  <2> QED BY <1>5, <2>1
<1>8. ASSUME NEW i \in 1..m + 1, NEW j \in 1..m + 1, i < j PROVE L[i] < L[j]
  <2>1. j \in 2..m + 1
    BY <1>8
  <2>2. CASE i = 1
    BY <1>6, <2>1, <2>2
  <2>3. CASE i # 1
    <3>1. i \in 2..m + 1 /\ i - 1 \in 1..m /\ j - 1 \in 1..m /\ i - 1 < j - 1
      BY <1>8, <2>1, <2>3
    <3>2. A[i - 1] < A[j - 1]
      BY <1>4, <3>1
    <3> QED BY <1>6, <2>1, <3>1, <3>2
  <2> QED BY <2>2, <2>3
<1>9. PICK T : T = {0, Len(doc)} \cup Breaks(doc, Len(doc))
  OBVIOUS
<1>10. ASSUME NEW e PROVE e \in T <=> \E i \in 1..m + 1 : L[i] = e
  <2>1. e \in T <=> e = 0 \/ e \in LineSet(doc)
    BY <1>9 DEF Breaks, LineSet
  <2>2. ASSUME e = 0 PROVE \E i \in 1..m + 1 : L[i] = e
    <3>1. 1 \in 1..m + 1
      OBVIOUS
    <3> QED BY <1>6, <2>2, <3>1
  <2>3. ASSUME e \in LineSet(doc) PROVE \E i \in 1..m + 1 : L[i] = e
    <3>1. PICK r : r = Rank(LineSet(doc), e)
      OBVIOUS
    <3>2. r \in 1..m /\ A[r] = e
      BY <1>1, <1>2, <2>3, <3>1, StopsAre
    <3>3. r + 1 \in 2..m + 1 /\ r + 1 \in 1..m + 1 /\ (r + 1) - 1 = r
      BY <3>2
    <3> QED BY <1>6, <3>2, <3>3
  <2>4. ASSUME NEW i \in 1..m + 1, L[i] = e PROVE e = 0 \/ e \in LineSet(doc)
    <3>1. CASE i = 1
      BY <1>6, <2>4, <3>1
    <3>2. CASE i \in 2..m + 1
      BY <1>4, <1>6, <2>4, <3>2
    <3> QED BY <1>6, <3>1, <3>2
  <2> QED BY <2>1, <2>2, <2>3, <2>4
<1>11. Ascending(T) = L
  <2>1. m + 1 \in Nat
    OBVIOUS
  <2> QED BY <1>7, <1>8, <1>10, <2>1, AscendingIsIt
<1>12. LineStarts(doc) = L
  BY <1>9, <1>11 DEF LineStarts
<1>13. Len(L) = m + 1
  BY <1>5, <1>7
<1>14. ASSUME NEW l \in 1..m + 1 PROVE L[l] = StopBefore(doc, l)
  BY <1>1, <1>5 DEF StopBefore
<1> QED BY <1>1, <1>2, <1>12, <1>13, <1>14 DEF Total

\* The first lines of a text, and the others.
LEMMA CutIs ==
  ASSUME NEW C, NEW doc \in Seq(C), NEW n \in 0..Len(LinesOf(doc)), NEW p, p = LineStarts(doc)[n + 1]
  PROVE  /\ p \in 0..Len(doc)
         /\ LinesOf(Prefix(doc, p)) = SubSeq(LinesOf(doc), 1, n)
         /\ LinesOf(SubSeq(doc, p + 1, Len(doc))) = SubSeq(LinesOf(doc), n + 1, Len(LinesOf(doc)))
         /\ n < Len(LinesOf(doc)) => Terminated(Prefix(doc, p)) /\ p < Len(doc)
         /\ n = Len(LinesOf(doc)) => p = Len(doc)
<1>1. PICK m \in Nat : m = Len(Stops(doc)) /\ m = Len(LinesOf(doc))
  BY StopsAre, LinesAre
<1>2. n \in 0..m /\ n + 1 \in 1..m + 1
  BY <1>1
<1>3. p = StopBefore(doc, n + 1)
  BY <1>1, <1>2, StartsAre
<1>4. PICK d \in Nat : d = Len(doc)
  OBVIOUS
<1>5. p = IF n = 0 THEN 0 ELSE Stops(doc)[n]
  BY <1>2, <1>3 DEF StopBefore
<1>6. p \in 0..d
  <2>1. CASE n = 0
    BY <1>5, <2>1
  <2>2. CASE n # 0
    <3>1. n \in 1..m
      BY <1>2, <2>2
    <3>2. n \in 1..Len(Stops(doc))
      BY <1>1, <3>1
    <3>3. Stops(doc)[n] \in 1..Len(doc)
      BY <3>2, StopsAre
    <3> QED BY <1>4, <1>5, <2>2, <3>3
  <2> QED BY <2>1, <2>2
<1>7. ASSUME n < m PROVE (p = 0 \/ doc[p] = "n") /\ p < d
  <2>1. n + 1 \in 1..m
    BY <1>2, <1>7
  <2>2. PICK l \in 1..Len(Stops(doc)) : l = n + 1
    BY <1>1, <2>1
  <2>3. /\ Stops(doc)[l] \in 1..Len(doc) /\ StopBefore(doc, l) \in 0..Stops(doc)[l] - 1
        /\ (StopBefore(doc, l) = 0 \/ doc[StopBefore(doc, l)] = "n")
    BY StopsAre
  <2>4. p = StopBefore(doc, l)
    BY <1>3, <2>2
  <2> QED BY <1>4, <2>3, <2>4
<1>8. ASSUME n = m PROVE p = d
  <2>1. CASE m = 0
    <3>1. doc = <<>>
      BY <1>1, <2>1, StopsAre
    <3> QED BY <1>4, <1>5, <1>8, <2>1, <3>1
  <2>2. CASE m # 0
    <3>1. doc # <<>>
      BY <1>1, <2>2, StopsAre
    <3> QED BY <1>1, <1>4, <1>5, <1>8, <2>2, <3>1, StopsAre
  <2> QED BY <2>1, <2>2
<1>9. PICK s \in Seq(C), t \in Seq(C) :
        /\ s = SubSeq(doc, 1, p) /\ t = SubSeq(doc, p + 1, Len(doc)) /\ doc = s \o t
        /\ Len(s) = p /\ Len(t) = d - p /\ \A l \in 1..p : s[l] = doc[l]
  <2>1. p \in 0..Len(doc)
    BY <1>4, <1>6
  <2>2. /\ SubSeq(doc, 1, p) \in Seq(C) /\ SubSeq(doc, p + 1, Len(doc)) \in Seq(C)
        /\ Len(SubSeq(doc, 1, p)) = p /\ Len(SubSeq(doc, p + 1, Len(doc))) = Len(doc) - p
        /\ \A l \in 1..p : SubSeq(doc, 1, p)[l] = doc[l]
        /\ doc = SubSeq(doc, 1, p) \o SubSeq(doc, p + 1, Len(doc))
    <3>1. SubSeq(doc, 1, p) \in Seq(C) /\ SubSeq(doc, p + 1, Len(doc)) \in Seq(C)
      BY <2>1, TwoParts
    <3>2. Len(SubSeq(doc, 1, p)) = p /\ Len(SubSeq(doc, p + 1, Len(doc))) = Len(doc) - p
      BY <2>1, TwoParts
    <3>3. \A l \in 1..p : SubSeq(doc, 1, p)[l] = doc[l]
      BY <2>1, TwoParts
    <3>4. doc = SubSeq(doc, 1, p) \o SubSeq(doc, p + 1, Len(doc))
      BY <2>1, TwoParts
    <3> QED BY <3>1, <3>2, <3>3, <3>4
  <2> QED BY <1>4, <2>2
<1>10. n < m => Terminated(s)
  <2> SUFFICES ASSUME n < m PROVE Terminated(s)
    OBVIOUS
  <2>1. CASE p = 0
    BY <1>9, <2>1 DEF Terminated
  <2>2. CASE p # 0
    <3>1. p \in 1..p
      BY <1>6, <2>2
    <3> QED BY <1>7, <1>9, <2>2, <3>1 DEF Terminated
  <2> QED BY <2>1, <2>2
<1>11. PICK x \in Seq(Seq(C)), y \in Seq(Seq(C)), z \in Seq(Seq(C)) :
         x = LinesOf(s) /\ y = LinesOf(t) /\ z = LinesOf(doc)
  BY LinesAre
<1>12. z = x \o y
  <2>1. CASE n < m
    BY <1>9, <1>10, <1>11, <2>1, LinesJoin
  <2>2. CASE n = m
    <3>0. p = d
      BY <1>8, <2>2
    <3>1. t = <<>> /\ s = doc
      <4>1. Len(t) = 0
        <5>1. Len(t) = d - p /\ d \in Nat
          BY <1>9
        <5> QED BY <3>0, <5>1
      <4>2. SubSeq(doc, 1, Len(doc)) = doc
        OBVIOUS
      <4>3. s = SubSeq(doc, 1, Len(doc)) /\ t \in Seq(C)
        BY <1>4, <1>9, <3>0
      <4> QED BY <4>1, <4>2, <4>3
    <3>2. Len(y) = 0
      BY <1>11, <3>1, LinesAre, StopsAre
    <3>3. y = <<>>
      BY <3>2
    <3> QED BY <1>11, <3>1, <3>3
  <2> QED BY <1>2, <2>1, <2>2
<1>13. Len(x) = n
  <2>1. Len(x) = Cardinality(LineSet(s))
    BY <1>9, <1>11, LinesAre, StopsAre
  <2>2. CASE n = 0
    <3>1. s = <<>>
      BY <1>5, <1>9, <2>2
    <3> QED BY <1>11, <2>2, <3>1, LinesAre, StopsAre
  <2>3. CASE n # 0
    <3>1. n \in 1..m /\ p = Stops(doc)[n]
      BY <1>2, <1>5, <2>3
    <3>0. n \in 1..Len(Stops(doc))
      BY <1>1, <3>1
    <3>2. p \in LineSet(doc) /\ Rank(LineSet(doc), p) = n
      BY <3>0, <3>1, StopsAre
    <3>3. p \in 1..d /\ (doc[p] = "n" \/ p = d)
      BY <1>4, <3>2 DEF LineSet
    <3>4. LineSet(s) = Below(LineSet(doc), p)
      <4>1. ASSUME NEW i PROVE i \in LineSet(s) <=> i \in 1..p /\ (doc[i] = "n" \/ i = p)
        BY <1>9 DEF LineSet
      <4>2. ASSUME NEW i PROVE i \in Below(LineSet(doc), p) <=> i \in 1..d /\ (doc[i] = "n" \/ i = d) /\ i <= p
        BY <1>4 DEF LineSet, Below
      <4>3. ASSUME NEW i PROVE i \in LineSet(s) <=> i \in Below(LineSet(doc), p)
        <5>1. i \in 1..p <=> i \in 1..d /\ i <= p
          BY <1>6
        <5>2. i \in 1..p => (doc[i] = "n" \/ i = p <=> doc[i] = "n" \/ i = d)
          <6>1. i \in 1..p /\ i = d => i = p
            BY <1>6
          <6> QED BY <3>3, <6>1
        <5> QED BY <4>1, <4>2, <5>1, <5>2
      <4> QED BY <4>3
    <3> QED BY <2>1, <3>2, <3>4 DEF Rank
  <2> QED BY <2>2, <2>3
<1>14. Len(z) = m
  BY <1>1, <1>11
<1>15. SubSeq(z, 1, n) = x /\ SubSeq(z, n + 1, Len(z)) = y
  BY <1>12, <1>13, PartsOfConcat
<1> QED BY <1>1, <1>4, <1>6, <1>7, <1>8, <1>9, <1>10, <1>11, <1>15 DEF Prefix

=============================================================================
