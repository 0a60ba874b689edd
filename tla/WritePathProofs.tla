--------------------------- MODULE WritePathProofs ---------------------------
(***************************************************************************)
(* Proofs about WritePath and DocSync, for any callers, files, tools and   *)
(* bounds: the table of open documents is true of the language server, the *)
(* references are counted, the table stays small, the gate is held where   *)
(* files are written, and edits go into the text they were computed from.  *)
(* And about TextEdits, for texts of any length: edits by positions and by *)
(* lines hit their places.                                                 *)
(***************************************************************************)
EXTENDS MCWritePath, SequenceLemmas

-----------------------------------------------------------------------------
(* Counting what callers hold.                                             *)

Pairs(h) == UNION {{c} \X (1..h[c]) : c \in Callers}

LEMMA PairsFinite ==
  ASSUME NEW h \in [Callers -> Nat]
  PROVE  IsFiniteSet(Pairs(h)) /\ Cardinality(Pairs(h)) \in Nat
<1> DEFINE g == [c \in Callers |-> {c} \X (1..h[c])]
           T == {{c} \X (1..h[c]) : c \in Callers}
<1>1. g \in Surjection(Callers, T)
  BY DEF Surjection
<1>2. IsFiniteSet(T)
  BY <1>1, FS_Surjection, DocSyncAssumption
<1>3. \A X \in T : IsFiniteSet(X)
  <2> SUFFICES ASSUME NEW c \in Callers PROVE IsFiniteSet({c} \X (1..h[c]))
    OBVIOUS
  <2>1. IsFiniteSet({c})
    BY FS_Singleton
  <2>2. IsFiniteSet(1..h[c])
    BY FS_Interval
  <2> QED BY <2>1, <2>2, FS_Product
<1>4. IsFiniteSet(UNION T)
  BY <1>2, <1>3, FS_UNION
<1> QED BY <1>4, FS_CardinalityType DEF Pairs

\* One caller holds k more.
LEMMA PairsPlus ==
  ASSUME NEW h \in [Callers -> Nat], NEW m \in [Callers -> Nat], NEW c \in Callers, NEW k \in Nat,
         m[c] = h[c] + k, \A d \in Callers \ {c} : m[d] = h[d]
  PROVE  Cardinality(Pairs(m)) = Cardinality(Pairs(h)) + k
<1> DEFINE I == (h[c] + 1)..(h[c] + k)
           B == {c} \X I
<1>1. IsFiniteSet(I) /\ Cardinality(I) = k
  <2>1. h[c] + 1 \in Int /\ h[c] + k \in Int
    OBVIOUS
  <2>2. (h[c] + k) - (h[c] + 1) + 1 = k /\ (h[c] + 1 > h[c] + k => k = 0)
    OBVIOUS
  <2> QED BY <2>1, <2>2, FS_Interval
<1>2. IsFiniteSet({c}) /\ Cardinality({c}) = 1
  BY FS_Singleton
<1>3. IsFiniteSet(B) /\ Cardinality(B) = k
  BY <1>1, <1>2, FS_Product
<1>4. 1..m[c] = (1..h[c]) \cup I /\ (1..h[c]) \cap I = {}
  OBVIOUS
<1> HIDE DEF I
<1>5. Pairs(m) = Pairs(h) \cup B
  <2>1. \A p : p \in Pairs(m) <=> \E d \in Callers : p \in {d} \X (1..m[d])
    BY DEF Pairs
  <2>2. \A p : p \in Pairs(h) <=> \E d \in Callers : p \in {d} \X (1..h[d])
    BY DEF Pairs
  <2>3. {c} \X (1..m[c]) = ({c} \X (1..h[c])) \cup B
    BY <1>4
  <2>4. \A d \in Callers \ {c} : {d} \X (1..m[d]) = {d} \X (1..h[d])
    OBVIOUS
  <2> HIDE DEF B
  <2> QED BY <2>1, <2>2, <2>3, <2>4
<1>6. Pairs(h) \cap B = {}
  <2> SUFFICES ASSUME NEW p, p \in Pairs(h), p \in B PROVE FALSE
    OBVIOUS
  <2>1. PICK d \in Callers : p \in {d} \X (1..h[d])
    BY DEF Pairs
  <2> QED BY <1>4, <2>1
<1> HIDE DEF B
<1>7. Cardinality(Pairs(h) \cup B) = Cardinality(Pairs(h)) + Cardinality(B) - Cardinality(Pairs(h) \cap B)
  BY <1>3, PairsFinite, FS_Union
<1>8. Cardinality(Pairs(h) \cap B) = 0
  BY <1>6, FS_EmptySet
<1> QED BY <1>3, <1>5, <1>7, <1>8, PairsFinite

HeldBy(f) == [c \in Callers |-> Held(c, f)]

LEMMA HeldType ==
  ASSUME guards \in [Callers -> [Files -> Nat]], NEW f \in Files
  PROVE  HeldBy(f) \in [Callers -> Nat] /\ \A c \in Callers : Held(c, f) \in Nat
BY DEF HeldBy, Held

LEMMA HoldersPairs ==
  ASSUME NEW f \in Files
  PROVE  Holders(f) = Cardinality(Pairs(HeldBy(f)))
BY DEF Holders, Pairs, HeldBy

LEMMA HoldersType ==
  ASSUME guards \in [Callers -> [Files -> Nat]], NEW f \in Files
  PROVE  Holders(f) \in Nat
BY HoldersPairs, HeldType, PairsFinite

\* Nobody holds more than all together.
LEMMA HoldersBound ==
  ASSUME guards \in [Callers -> [Files -> Nat]], NEW f \in Files, NEW c \in Callers
  PROVE  Held(c, f) <= Holders(f)
<1> DEFINE h == HeldBy(f)
           z == [h EXCEPT ![c] = 0]
<1>1. h \in [Callers -> Nat] /\ h[c] = Held(c, f)
  BY HeldType DEF HeldBy
<1> HIDE DEF h
<1>2. z \in [Callers -> Nat] /\ z[c] = 0 /\ \A d \in Callers \ {c} : h[d] = z[d]
  BY <1>1
<1> HIDE DEF z
<1>3. Cardinality(Pairs(h)) = Cardinality(Pairs(z)) + h[c]
  BY <1>1, <1>2, PairsPlus
<1>4. Cardinality(Pairs(z)) \in Nat
  BY <1>2, PairsFinite
<1> QED BY <1>1, <1>3, <1>4, HoldersPairs DEF h

LEMMA HoldersStep ==
  ASSUME guards \in [Callers -> [Files -> Nat]], guards' \in [Callers -> [Files -> Nat]],
         NEW f \in Files, NEW c \in Callers, NEW k \in Nat,
         \A d \in Callers \ {c} : Held(d, f)' = Held(d, f)
  PROVE  /\ Held(c, f)' = Held(c, f) + k => Holders(f)' = Holders(f) + k
         /\ Held(c, f) = Held(c, f)' + k => Holders(f) = Holders(f)' + k
<1> DEFINE h == HeldBy(f)
           m == [d \in Callers |-> Held(d, f)']
<1>1. /\ h \in [Callers -> Nat] /\ h[c] = Held(c, f)
      /\ \A d \in Callers : h[d] = Held(d, f)
  BY HeldType DEF HeldBy
<1>2. /\ m \in [Callers -> Nat] /\ m[c] = Held(c, f)'
      /\ \A d \in Callers : m[d] = Held(d, f)'
  BY DEF Held
<1>3. Holders(f) = Cardinality(Pairs(h))
  BY HoldersPairs
<1>4. Holders(f)' = Cardinality(Pairs(m))
  BY DEF Holders, Pairs
<1> HIDE DEF h, m
<1>5. \A d \in Callers \ {c} : m[d] = h[d]
  BY <1>1, <1>2
<1>6. ASSUME Held(c, f)' = Held(c, f) + k PROVE Holders(f)' = Holders(f) + k
  <2>1. m[c] = h[c] + k
    BY <1>1, <1>2, <1>6
  <2> QED BY <1>1, <1>2, <1>3, <1>4, <1>5, <2>1, PairsPlus
<1>7. ASSUME Held(c, f) = Held(c, f)' + k PROVE Holders(f) = Holders(f)' + k
  <2>1. h[c] = m[c] + k
    BY <1>1, <1>2, <1>7
  <2>2. \A d \in Callers \ {c} : h[d] = m[d]
    BY <1>5
  <2>3. Cardinality(Pairs(h)) = Cardinality(Pairs(m)) + k
    BY <1>1, <1>2, <2>1, <2>2, PairsPlus
  <2> QED BY <1>3, <1>4, <2>3
<1> QED BY <1>6, <1>7

LEMMA HoldersSame ==
  ASSUME NEW f \in Files, \A d \in Callers : Held(d, f)' = Held(d, f)
  PROVE  Holders(f)' = Holders(f)
BY DEF Holders

-----------------------------------------------------------------------------
(* The order of the released files.                                        *)

LEMMA WithoutIs ==
  ASSUME NEW q \in Seq(Files), IsInjective(q), NEW f \in Files
  PROVE  /\ Without(q, f) \in Seq(Files) /\ IsInjective(Without(q, f))
         /\ ToSet(Without(q, f)) = ToSet(q) \ {f}
<1>1. CASE f \in ToSet(q)
  <2> DEFINE i == CHOOSE i \in DOMAIN q : q[i] = f
  <2>1. i \in DOMAIN q /\ q[i] = f
    BY <1>1 DEF ToSet
  <2>2. Without(q, f) = RemoveAt(q, i)
    BY <1>1 DEF Without
  <2> HIDE DEF i
  <2> QED BY <2>1, <2>2, RemoveAtIs
<1>2. CASE f \notin ToSet(q)
  BY <1>2 DEF Without
<1> QED BY <1>1, <1>2

LEMMA ReleasedIs ==
  ASSUME NEW q \in Seq(Files), IsInjective(q), NEW f \in Files
  PROVE  /\ Append(Without(q, f), f) \in Seq(Files) /\ IsInjective(Append(Without(q, f), f))
         /\ ToSet(Append(Without(q, f), f)) = ToSet(q) \cup {f}
<1> DEFINE w == Without(q, f)
<1>1. w \in Seq(Files) /\ IsInjective(w) /\ ToSet(w) = ToSet(q) \ {f}
  BY WithoutIs
<1> HIDE DEF w
<1>2. /\ Append(w, f) \in Seq(Files) /\ Len(Append(w, f)) = Len(w) + 1
      /\ ToSet(Append(w, f)) = ToSet(w) \cup {f}
      /\ \A l \in DOMAIN Append(w, f) :
           \/ l \in DOMAIN w /\ Append(w, f)[l] = w[l]
           \/ l = Len(w) + 1 /\ Append(w, f)[l] = f
  BY <1>1, AppendIs
<1>3. \A l \in DOMAIN w : w[l] # f
  BY <1>1 DEF ToSet
<1>4. IsInjective(Append(w, f))
  <2> SUFFICES ASSUME NEW x \in DOMAIN Append(w, f), NEW y \in DOMAIN Append(w, f),
                      Append(w, f)[x] = Append(w, f)[y]
               PROVE  x = y
    BY DEF IsInjective
  <2>1. \A l, m \in DOMAIN w : w[l] = w[m] => l = m
    BY <1>1 DEF IsInjective
  <2> QED BY <1>2, <1>3, <2>1
<1> QED BY <1>1, <1>2, <1>4 DEF w

-----------------------------------------------------------------------------
(* What is true of the table, file by file.                                *)

Active == {"send", "rollback", "settle", "close"}

\* What an ensure_open has found out so far.
OpenOK(c) ==
    opening[c].phase \in Phases =>
        /\ opening[c].phase \in {"read", "book", "settle"} \/ opening[c].snap # NoBuffer => closing[c] = {}
        /\ opening[c].stat > 0 /\ opening[c].stat <= disk[opening[c].file].stamp
        /\ opening[c].snap = NoBuffer \/ opening[c].snap.version > 0
        /\ opening[c].phase = "book" =>
              IF opening[c].text = 0 THEN opening[c].snap.stamp = opening[c].stat
              ELSE opening[c].text >= opening[c].stat
        /\ opening[c].phase \in Active =>
              opening[c].text >= opening[c].stat /\ opening[c].version > 0

\* What the call that is due on a file will tell the language server.
DueOK(c, f) ==
    /\ InPhase(c, f, {"send", "rollback"}) =>
        /\ buffers[f] # NoBuffer
        /\ buffers[f].version = opening[c].version /\ buffers[f].stamp = opening[c].stat
        /\ Announces(c) = "didOpen" => guards[c][f] = 0 /\ \A d \in Callers \ {c} : Held(d, f) = 0
        /\ Announces(c) = "didChange" => view[f].open /\ view[f].version < opening[c].version
    /\ InPhase(c, f, {"settle"}) =>
        /\ buffers[f] # NoBuffer /\ view[f].open
        /\ view[f].version = buffers[f].version /\ view[f].text >= buffers[f].stamp
    /\ f \in closing[c] => buffers[f] = NoBuffer

\* The entry of a file on which calls have not crossed.
EntryOK(f) ==
    /\ \A c, d \in Due(f) : c = d
    /\ \A c \in Callers : DueOK(c, f)
    /\ buffers[f] # NoBuffer /\ Due(f) = {} =>
        /\ view[f].open /\ view[f].version <= buffers[f].version
        /\ ~buffers[f].resync =>
              view[f].text >= buffers[f].stamp /\ view[f].version = buffers[f].version

FileOK(f) ==
    /\ disk[f].stamp > 0 /\ (buffers[f] # NoBuffer => buffers[f].version > 0)
    /\ buffers[f].refs <= Holders(f)
    /\ f \notin crossed => buffers[f].refs = Holders(f) /\ EntryOK(f)

ReleasedOK ==
    /\ released \in Seq(Files) /\ IsInjective(released)
    /\ \A f \in Files : f \in ToSet(released) <=> buffers[f] # NoBuffer /\ buffers[f].refs = 0

RestOK ==
    /\ disk \in [Files -> [there : BOOLEAN, stamp : Nat]]
    /\ buffers \in [Files -> Buffers]
    /\ view \in [Files -> [open : BOOLEAN, text : Nat, version : Nat]]
    /\ guards \in [Callers -> [Files -> Nat]]
    /\ closing \in [Callers -> SUBSET Files]
    /\ over \in BOOLEAN /\ crossed \subseteq Files /\ troubles \in 0..MaxTroubles

PhasesOK ==
    /\ opening \in [Callers -> Openings]
    /\ \A c \in Callers :
        IF opening[c].phase \in Phases THEN opening[c].file \in Files
        ELSE opening[c] = Ended(opening[c].phase)

DocInv ==
    /\ RestOK /\ ReleasedOK /\ PhasesOK
    /\ \A c \in Callers : OpenOK(c)
    /\ \A f \in Files : FileOK(f)

LEMMA TypeParts ==
  ASSUME RestOK, ReleasedOK, PhasesOK
  PROVE  DocTypeOK
<1>1. ToSet(released) \subseteq Files
  BY DEF ReleasedOK, ToSet
<1> QED BY <1>1 DEF RestOK, ReleasedOK, PhasesOK, DocTypeOK, Buffered

\* A step that leaves what is due on g, and who holds it, as it is.
LEMMA Untouched ==
  ASSUME NEW g \in Files, FileOK(g), RestOK, RestOK', disk'[g].stamp >= disk[g].stamp,
         buffers'[g] = buffers[g], view'[g] = view[g], crossed \subseteq crossed',
         \A d \in Callers : Held(d, g)' = Held(d, g),
         \A d \in Callers : g \in closing'[d] <=> g \in closing[d],
         \A d \in Callers : \/ opening'[d] = opening[d]
                            \/ /\ ~InPhase(d, g, {"send", "rollback", "settle"})
                               /\ ~InPhase(d, g, {"send", "rollback", "settle"})'
  PROVE  FileOK(g)'
<1> DEFINE T == {"send", "rollback", "settle"}
<1>1. Holders(g)' = Holders(g)
  BY HoldersSame
<1>2. \A d \in Callers : \A X \in SUBSET T : InPhase(d, g, X)' <=> InPhase(d, g, X)
  BY DEF InPhase
<1>3. T \in SUBSET T /\ {"send", "rollback"} \in SUBSET T /\ {"settle"} \in SUBSET T
  OBVIOUS
<1>4. Due(g)' = Due(g)
  <2>1. \A d \in Callers : InPhase(d, g, T)' <=> InPhase(d, g, T)
    BY <1>2, <1>3
  <2> QED BY <2>1 DEF Due
<1>5. ASSUME NEW d \in Callers, DueOK(d, g) PROVE DueOK(d, g)'
  <2>1. InPhase(d, g, {"send", "rollback"}) =>
          opening'[d] = opening[d] /\ guards'[d][g] = guards[d][g]
    <3>1. guards'[d][g] \in Nat /\ guards[d][g] \in Nat
      BY DEF RestOK
    <3> QED BY <3>1 DEF InPhase, Held
  <2>2. InPhase(d, g, {"settle"}) => opening'[d] = opening[d]
    BY DEF InPhase
  <2> QED BY <1>2, <1>3, <1>5, <2>1, <2>2 DEF DueOK, Announces
<1>6. disk'[g].stamp > 0
  BY DEF FileOK, RestOK
<1> QED BY <1>1, <1>4, <1>5, <1>6 DEF FileOK, EntryOK

\* A step that has nothing to do with g.
LEMMA Apart ==
  ASSUME NEW g \in Files, FileOK(g), RestOK, RestOK', disk'[g].stamp >= disk[g].stamp,
         buffers'[g] = buffers[g], view'[g] = view[g], crossed \subseteq crossed',
         \A d \in Callers : guards'[d][g] = guards[d][g],
         \A d \in Callers : g \in closing'[d] <=> g \in closing[d],
         \A d \in Callers : \/ opening'[d] = opening[d]
                            \/ ~InPhase(d, g, Active) /\ ~InPhase(d, g, Active)'
  PROVE  FileOK(g)'
<1>1. \A d \in Callers : Held(d, g)' = Held(d, g)
  BY DEF Held, InPhase, Active
<1>2. \A d \in Callers : \/ opening'[d] = opening[d]
                         \/ /\ ~InPhase(d, g, {"send", "rollback", "settle"})
                            /\ ~InPhase(d, g, {"send", "rollback", "settle"})'
  BY DEF InPhase, Active
<1> QED BY <1>1, <1>2, Untouched

LEMMA OpenApart ==
  ASSUME NEW c \in Callers, OpenOK(c), PhasesOK, opening'[c] = opening[c], closing'[c] = closing[c],
         \A f \in Files : disk[f].stamp \in Nat /\ disk'[f].stamp \in Nat /\ disk'[f].stamp >= disk[f].stamp
  PROVE  OpenOK(c)'
<1>1. opening[c] \in Openings /\ (opening[c].phase \in Phases => opening[c].file \in Files)
  BY DEF PhasesOK
<1>2. opening[c].phase \in Phases => opening[c].stat \in Nat
  BY <1>1 DEF Openings
<1> QED BY <1>1, <1>2 DEF OpenOK

\* A step of one call that has to do with some files.
LEMMA SomeFiles ==
  ASSUME DocInv, NEW c \in Callers, NEW F \in SUBSET Files,
         RestOK', ReleasedOK', PhasesOK', OpenOK(c)', \A f \in F : FileOK(f)',
         \A g \in Files : disk'[g].stamp >= disk[g].stamp,
         \A d \in Callers \ {c} : /\ opening'[d] = opening[d] /\ closing'[d] = closing[d]
                                 /\ guards'[d] = guards[d],
         \A g \in Files \ F : /\ buffers'[g] = buffers[g] /\ view'[g] = view[g]
                               /\ guards'[c][g] = guards[c][g] /\ (g \in closing'[c] <=> g \in closing[c]),
         crossed \subseteq crossed',
         opening'[c] = opening[c] \/ \A g \in Files \ F : ~InPhase(c, g, Active) /\ ~InPhase(c, g, Active)'
  PROVE  DocInv'
<1>1. \A g \in Files : disk[g].stamp \in Nat /\ disk'[g].stamp \in Nat
  BY DEF DocInv, RestOK
<1>2. ASSUME NEW d \in Callers PROVE OpenOK(d)'
  <2>1. CASE d = c
    BY <2>1
  <2>2. CASE d # c
    BY <1>1, <2>2, OpenApart DEF DocInv
  <2> QED BY <2>1, <2>2
<1>3. ASSUME NEW g \in Files PROVE FileOK(g)'
  <2>1. CASE g \in F
    BY <2>1
  <2>2. CASE g \notin F
    <3>1. FileOK(g)
      BY DEF DocInv
    <3>2. \A d \in Callers : guards'[d][g] = guards[d][g]
      BY <2>2
    <3>3. \A d \in Callers : g \in closing'[d] <=> g \in closing[d]
      <4> SUFFICES ASSUME NEW d \in Callers PROVE g \in closing'[d] <=> g \in closing[d]
        OBVIOUS
      <4>1. CASE d = c
        BY <2>2, <4>1
      <4>2. CASE d # c
        BY <4>2
      <4> QED BY <4>1, <4>2
    <3>4. ASSUME NEW d \in Callers
          PROVE  opening'[d] = opening[d] \/ (~InPhase(d, g, Active) /\ ~InPhase(d, g, Active)')
      <4>1. CASE d = c
        BY <2>2, <4>1
      <4>2. CASE d # c
        BY <4>2
      <4> QED BY <4>1, <4>2
    <3> QED BY <1>1, <2>2, <3>1, <3>2, <3>3, <3>4, Apart DEF DocInv
  <2> QED BY <2>1, <2>2
<1> QED BY <1>2, <1>3 DEF DocInv

\* A step of one call that has to do with one file.
LEMMA OneFile ==
  ASSUME DocInv, NEW c \in Callers, NEW f \in Files,
         RestOK', ReleasedOK', PhasesOK', OpenOK(c)', FileOK(f)',
         \A g \in Files : disk'[g].stamp >= disk[g].stamp,
         \A d \in Callers \ {c} : /\ opening'[d] = opening[d] /\ closing'[d] = closing[d]
                                 /\ guards'[d] = guards[d],
         \A g \in Files \ {f} : /\ buffers'[g] = buffers[g] /\ view'[g] = view[g]
                               /\ guards'[c][g] = guards[c][g] /\ (g \in closing'[c] <=> g \in closing[c]),
         crossed \subseteq crossed',
         opening'[c] = opening[c] \/ \A g \in Files \ {f} : ~InPhase(c, g, Active) /\ ~InPhase(c, g, Active)'
  PROVE  DocInv'
BY SomeFiles, {f} \in SUBSET Files

\* Where calls have not crossed, no other call is due on the file.
LEMMA Alone ==
  ASSUME NEW c \in Callers, NEW f \in Files, Cross(c, f), f \notin crossed'
  PROVE  f \notin crossed /\ \A d \in Callers \ {c} : d \notin Due(f)
BY DEF Cross

LEMMA StaysAlone ==
  ASSUME NEW c \in Callers, NEW f \in Files, \A d \in Callers \ {c} : d \notin Due(f),
         \A d \in Callers \ {c} : opening'[d] = opening[d] /\ closing'[d] = closing[d]
  PROVE  Due(f) \subseteq {c} /\ Due(f)' \subseteq {c}
BY DEF Due, InPhase

\* When one call at most is due on the file.
LEMMA OneDue ==
  ASSUME NEW c \in Callers, NEW f \in Files, Due(f)' \subseteq {c}, DueOK(c, f)',
         buffers'[f] # NoBuffer /\ Due(f)' = {} =>
            /\ view'[f].open /\ view'[f].version <= buffers'[f].version
            /\ ~buffers'[f].resync =>
                  view'[f].text >= buffers'[f].stamp /\ view'[f].version = buffers'[f].version
  PROVE  EntryOK(f)'
<1>1. ASSUME NEW d \in Callers PROVE DueOK(d, f)'
  <2>1. CASE d = c
    BY <2>1
  <2>2. CASE d # c
    <3>1. d \notin Due(f)'
      BY <2>2
    <3>2. f \notin closing'[d] /\ ~(opening'[d].file = f /\ opening'[d].phase \in {"send", "rollback", "settle"})
      BY <3>1 DEF Due, InPhase
    <3> QED BY <3>2 DEF DueOK, InPhase
  <2> QED BY <2>1, <2>2
<1>2. \A d, e \in Due(f)' : d = e
  OBVIOUS
<1> QED BY <1>1, <1>2 DEF EntryOK

\* A call goes on to another phase.
LEMMA Moved ==
  ASSUME PhasesOK, NEW c \in Callers, NEW o \in Openings, opening' = [opening EXCEPT ![c] = o],
         IF o.phase \in Phases THEN o.file \in Files ELSE o = Ended(o.phase)
  PROVE  PhasesOK' /\ opening'[c] = o /\ \A d \in Callers \ {c} : opening'[d] = opening[d]
<1>1. opening \in [Callers -> Openings]
  BY DEF PhasesOK
<1>2. /\ opening' \in [Callers -> Openings] /\ opening'[c] = o
      /\ \A d \in Callers \ {c} : opening'[d] = opening[d]
  BY <1>1
<1>3. ASSUME NEW d \in Callers
      PROVE  IF opening'[d].phase \in Phases THEN opening'[d].file \in Files
             ELSE opening'[d] = Ended(opening'[d].phase)
  <2>1. CASE d = c
    BY <1>2, <2>1
  <2>2. CASE d # c
    BY <1>2, <2>2 DEF PhasesOK
  <2> QED BY <2>1, <2>2
<1> QED BY <1>2, <1>3 DEF PhasesOK

LEMMA EndedIs ==
  ASSUME NEW how \in {"ok", "err"}
  PROVE  /\ Ended(how) \in Openings /\ Ended(how).phase = how /\ how \notin Phases
         /\ Ended(how).file = None /\ Ended(how) = Ended(Ended(how).phase)
BY DEF Ended, Openings, Buffers, NoBuffer, Phases

-----------------------------------------------------------------------------
(* The steps of ensure_open.                                               *)

\* A step that only moves a call on, which has not changed the table yet.
LEMMA Looks ==
  ASSUME DocInv, NEW c \in Callers, PhasesOK', OpenOK(c)',
         \A d \in Callers \ {c} : opening'[d] = opening[d],
         opening[c].phase \notin Active, opening'[c].phase \notin Active,
         UNCHANGED <<disk, buffers, released, view, guards, closing, over, crossed, troubles>>
  PROVE  DocInv'
<1>1. RestOK' /\ ReleasedOK'
  BY DEF DocInv, RestOK, ReleasedOK
<1>2. \A g \in Files : disk[g].stamp \in Nat /\ disk'[g].stamp \in Nat /\ disk'[g].stamp >= disk[g].stamp
  BY DEF DocInv, RestOK
<1>3. ASSUME NEW d \in Callers PROVE OpenOK(d)'
  <2>1. CASE d = c
    BY <2>1
  <2>2. CASE d # c
    BY <1>2, <2>2, OpenApart DEF DocInv
  <2> QED BY <2>1, <2>2
<1>4. ASSUME NEW g \in Files PROVE FileOK(g)'
  <2>1. ASSUME NEW d \in Callers
        PROVE  opening'[d] = opening[d] \/ (~InPhase(d, g, Active) /\ ~InPhase(d, g, Active)')
    <3>1. CASE d = c
      BY <3>1 DEF InPhase
    <3>2. CASE d # c
      BY <3>2
    <3> QED BY <3>1, <3>2
  <2> QED BY <1>1, <1>2, <2>1, Apart DEF DocInv
<1> QED BY <1>1, <1>3, <1>4 DEF DocInv

LEMMA StatKeeps ==
  ASSUME DocInv, NEW c \in Callers, NEW f \in Files, Ready(c), Stat(c, f),
         UNCHANGED <<disk, buffers, released, view, guards, closing, over, crossed, troubles>>
  PROVE  DocInv'
<1> DEFINE p == [Ended("ok") EXCEPT !.phase = "read", !.file = f, !.stat = disk[f].stamp]
           o == IF disk[f].there THEN p ELSE Ended("err")
<1>1. /\ disk[f].stamp \in Nat /\ disk[f].stamp > 0
      /\ closing[c] = {} /\ opening[c].phase \in {"ok", "err"}
  BY DEF DocInv, PhasesOK, RestOK, FileOK, Ready
<1>2. /\ p \in Openings /\ p.phase = "read" /\ p.file = f /\ p.stat = disk[f].stamp
      /\ p.snap = NoBuffer
  BY <1>1 DEF Openings, Phases, Ended, Buffers, NoBuffer
<1>3. o = Ended("err") \/ o = p
  OBVIOUS
<1>4. opening' = [opening EXCEPT ![c] = o]
  BY DEF Stat
<1> HIDE DEF p, o
<1>5. PhasesOK' /\ opening'[c] = o /\ \A d \in Callers \ {c} : opening'[d] = opening[d]
  <2>1. o \in Openings /\ IF o.phase \in Phases THEN o.file \in Files ELSE o = Ended(o.phase)
    BY <1>2, <1>3, EndedIs DEF Phases
  <2> QED BY <1>4, <2>1, Moved DEF DocInv
<1>6. OpenOK(c)'
  BY <1>1, <1>2, <1>3, <1>5, EndedIs DEF OpenOK, Active
<1>7. opening[c].phase \notin Active /\ opening'[c].phase \notin Active
  BY <1>1, <1>2, <1>3, <1>5, EndedIs DEF Active
<1> QED BY <1>5, <1>6, <1>7, Looks

\* What an ensure_open has before it looks at the table for the second time.
LEMMA Looking ==
  ASSUME DocInv, NEW c \in Callers, opening[c].phase \in Phases
  PROVE  /\ opening \in [Callers -> Openings] /\ opening[c] \in Openings /\ opening[c].file \in Files
         /\ disk[opening[c].file].stamp \in Nat /\ opening[c].stat \in Nat /\ opening[c].stat > 0
         /\ opening[c].stat <= disk[opening[c].file].stamp /\ opening[c].text \in Nat
         /\ opening[c].version \in Nat /\ opening[c].snap \in Buffers
         /\ (opening[c].phase \in {"read", "book", "settle"} => closing[c] = {})
BY DEF DocInv, PhasesOK, RestOK, OpenOK, Openings

LEMMA SnapshotIs ==
  ASSUME DocInv, NEW f \in Files
  PROVE  /\ Snapshot(f) \in Buffers /\ (f \notin Buffered => Snapshot(f) = NoBuffer)
         /\ f \in Buffered => /\ Snapshot(f).version = buffers[f].version
                              /\ Snapshot(f).stamp = buffers[f].stamp /\ Snapshot(f) # NoBuffer
<1>1. buffers[f] \in Buffers
  BY DEF DocInv, RestOK
<1>2. Snapshot(f) = [stamp |-> buffers[f].stamp, version |-> buffers[f].version,
                     refs |-> IF f \in Buffered THEN 1 ELSE 0, resync |-> buffers[f].resync]
  BY <1>1 DEF Snapshot, Buffers
<1>3. f \notin Buffered => buffers[f] = NoBuffer
  BY DEF Buffered
<1> QED BY <1>1, <1>2, <1>3 DEF Buffers, NoBuffer

LEMMA ReadKeeps ==
  ASSUME DocInv, NEW c \in Callers, Read(c)
  PROVE  DocInv'
<1> DEFINE o == opening[c]
           f == o.file
           snap == Snapshot(f)
           p == [o EXCEPT !.phase = "book", !.snap = snap, !.text = 0]
           q == [o EXCEPT !.phase = "book", !.snap = snap, !.text = disk[f].stamp]
<1>1. /\ o.phase = "read" /\ o.phase \in Phases
  BY DEF Read, Phases
<1>2. /\ opening \in [Callers -> Openings] /\ o \in Openings /\ f \in Files
      /\ disk[f].stamp \in Nat /\ o.stat \in Nat /\ o.stat > 0 /\ o.stat <= disk[f].stamp
      /\ closing[c] = {}
  BY <1>1, Looking
<1>3. snap \in Buffers /\ (snap = NoBuffer \/ snap.version > 0)
  <2>1. f \in Buffered => buffers[f].version > 0
    BY <1>2 DEF DocInv, FileOK, Buffered
  <2> QED BY <1>2, <2>1, SnapshotIs
<1>4. \/ IsUnchanged(snap, o.stat) /\ opening' = [opening EXCEPT ![c] = p]
      \/ opening' = [opening EXCEPT ![c] = q]
      \/ opening' = [opening EXCEPT ![c] = Ended("err")]
  BY DEF Read
<1>5. /\ p \in Openings /\ p.phase = "book" /\ p.file = f /\ p.stat = o.stat /\ p.snap = snap /\ p.text = 0
      /\ q \in Openings /\ q.phase = "book" /\ q.file = f /\ q.stat = o.stat /\ q.snap = snap
      /\ q.text = disk[f].stamp
      /\ Ended("err") \in Openings /\ Ended("err").phase = "err"
  BY <1>2, <1>3 DEF Openings, Phases, Ended, NoBuffer, Buffers
<1>6. UNCHANGED <<disk, buffers, released, view, guards, closing, over, crossed, troubles>>
  BY DEF Read
<1> HIDE DEF p, q, snap, f, o
<1>7. opening' \in [Callers -> Openings] /\ \A d \in Callers \ {c} : opening'[d] = opening[d]
  BY <1>2, <1>4, <1>5
<1>8. \/ IsUnchanged(snap, o.stat) /\ opening'[c] = p
      \/ opening'[c] = q
      \/ opening'[c] = Ended("err")
  BY <1>2, <1>4
<1>9. PhasesOK'
  <2>1. p.phase \in Phases /\ q.phase \in Phases
    BY <1>5 DEF Phases
  <2> QED BY <1>2, <1>4, <1>5, <2>1, Moved, EndedIs DEF DocInv
<1>10. OpenOK(c)'
  <2>1. CASE IsUnchanged(snap, o.stat) /\ opening'[c] = p
    BY <1>2, <1>3, <1>5, <1>6, <2>1 DEF OpenOK, Active, IsUnchanged
  <2>2. CASE opening'[c] = q
    <3>1. q.text > 0
      BY <1>2, <1>5
    <3> QED BY <1>2, <1>3, <1>5, <1>6, <2>2, <3>1 DEF OpenOK, Active
  <2>3. CASE opening'[c] = Ended("err")
    BY <1>5, <2>3 DEF OpenOK, Phases
  <2> QED BY <1>8, <2>1, <2>2, <2>3
<1>11. opening[c].phase \notin Active /\ opening'[c].phase \notin Active
  BY <1>1, <1>5, <1>8 DEF Active, o
<1> QED BY <1>6, <1>7, <1>9, <1>10, <1>11, Looks

LEMMA DriftKeeps ==
  ASSUME DocInv, NEW c \in Callers, Drift(c)
  PROVE  DocInv'
<1> DEFINE o == opening[c]
           p == [o EXCEPT !.phase = "read"]
<1>1. /\ o.phase = "book" /\ o.phase \in Phases
  BY DEF Drift, Phases
<1>2. /\ opening \in [Callers -> Openings] /\ o \in Openings /\ o.file \in Files
      /\ o.stat \in Nat /\ o.stat > 0 /\ o.stat <= disk[o.file].stamp /\ closing[c] = {}
      /\ (o.snap = NoBuffer \/ o.snap.version > 0)
  BY <1>1, Looking DEF DocInv, OpenOK
<1>3. opening' = [opening EXCEPT ![c] = p]
  BY <1>2 DEF Drift, Goto
<1>4. p \in Openings /\ p.phase = "read" /\ p.file = o.file /\ p.stat = o.stat /\ p.snap = o.snap
  BY <1>2 DEF Openings, Phases
<1>5. UNCHANGED <<disk, buffers, released, view, guards, closing, over, crossed, troubles>>
  BY DEF Drift
<1> HIDE DEF p, o
<1>6. /\ opening' \in [Callers -> Openings] /\ \A d \in Callers \ {c} : opening'[d] = opening[d]
      /\ opening'[c] = p
  BY <1>2, <1>3, <1>4
<1>7. PhasesOK'
  BY <1>2, <1>3, <1>4, Moved DEF Phases, DocInv
<1>8. OpenOK(c)'
  BY <1>2, <1>4, <1>5, <1>6 DEF OpenOK, Active
<1>9. opening[c].phase \notin Active /\ opening'[c].phase \notin Active
  BY <1>1, <1>4, <1>6 DEF Active, o
<1> QED BY <1>5, <1>6, <1>7, <1>8, <1>9, Looks

\* A step of one call by which it holds k more, or k less, of a file.
LEMMA CountMoves ==
  ASSUME RestOK, RestOK', NEW c \in Callers, NEW f \in Files, NEW k \in Nat,
         \A d \in Callers \ {c} : opening'[d] = opening[d] /\ guards'[d] = guards[d]
  PROVE  /\ Held(c, f)' = Held(c, f) + k => Holders(f)' = Holders(f) + k
         /\ Held(c, f) = Held(c, f)' + k => Holders(f) = Holders(f)' + k
         /\ \A d \in Callers \ {c} : Held(d, f)' = Held(d, f)
<1>1. \A d \in Callers \ {c} : Held(d, f)' = Held(d, f)
  BY DEF Held, InPhase
<1>2. guards \in [Callers -> [Files -> Nat]] /\ guards' \in [Callers -> [Files -> Nat]]
  BY DEF RestOK
<1> QED BY <1>1, <1>2, HoldersStep

LEMMA HoldersTypeNext ==
  ASSUME RestOK', NEW f \in Files
  PROVE  Holders(f)' \in Nat
<1> DEFINE m == [d \in Callers |-> Held(d, f)']
<1>1. m \in [Callers -> Nat]
  BY DEF RestOK, Held
<1>2. Holders(f)' = Cardinality(Pairs(m))
  BY DEF Holders, Pairs
<1> QED BY <1>1, <1>2, PairsFinite

LEMMA HoldersZero ==
  ASSUME NEW f \in Files, \A d \in Callers : Held(d, f)' = 0
  PROVE  Holders(f)' = 0
<1>1. Holders(f)' = Cardinality(UNION {{d} \X (1..Held(d, f)') : d \in Callers})
  BY DEF Holders
<1>2. \A d \in Callers : {d} \X (1..Held(d, f)') = {}
  OBVIOUS
<1>3. UNION {{d} \X (1..Held(d, f)') : d \in Callers} = {}
  BY <1>2
<1> QED BY <1>1, <1>3, FS_EmptySet

LEMMA BookAgainKeeps ==
  ASSUME DocInv, NEW c \in Callers, BookAgain(c)
  PROVE  DocInv'
<1>f. PICK f \in Files : opening[c].file = f
  BY Looking DEF BookAgain, Phases
<1> DEFINE o == opening[c]
           b == buffers[f]
           new == IF o.text = 0 THEN [b EXCEPT !.refs = b.refs + 1]
                  ELSE [stamp |-> o.stat, version |-> NextVersion(b), refs |-> b.refs + 1, resync |-> b.resync]
           p == IF o.text = 0 THEN Ended("ok") ELSE [o EXCEPT !.phase = "send", !.version = NextVersion(b)]
<1>1. o.phase = "book" /\ o.phase \in Phases /\ f \in Buffered /\ Snapshot(f) = o.snap
  BY <1>f DEF BookAgain, Phases
<1>2. /\ opening \in [Callers -> Openings] /\ o \in Openings /\ f \in Files
      /\ o.stat \in Nat /\ o.stat > 0 /\ o.stat <= disk[f].stamp /\ o.text \in Nat
      /\ closing[c] = {} /\ o.snap \in Buffers
  BY <1>1, <1>f, Looking
<1>3. o.text # 0 => o.text >= o.stat
  BY <1>1 DEF DocInv, OpenOK
<1>4. /\ b \in Buffers /\ b # NoBuffer /\ b.version > 0 /\ b.version \in Nat /\ b.refs \in Nat
      /\ o.snap # NoBuffer /\ o.snap.version = b.version
  BY <1>1, <1>2, SnapshotIs DEF DocInv, RestOK, FileOK, Buffered, Buffers
<1>0. opening[c] = o /\ o.file = f /\ buffers[f] = b
  BY <1>f
<1>5. /\ released' = Without(released, f) /\ Cross(c, f)
      /\ buffers' = [buffers EXCEPT ![f] = new] /\ opening' = [opening EXCEPT ![c] = p]
      /\ IF o.text = 0 THEN guards' = [guards EXCEPT ![c][f] = @ + 1] ELSE guards' = guards
      /\ UNCHANGED <<disk, view, closing, over, troubles>>
  BY <1>f DEF BookAgain, Ended
<1>6. /\ new \in Buffers /\ new.refs = b.refs + 1 /\ new # NoBuffer /\ new.resync = b.resync
      /\ IF o.text = 0 THEN new.version = b.version /\ new.stamp = b.stamp
         ELSE new.version = b.version + 1 /\ new.stamp = o.stat
  BY <1>2, <1>4 DEF Buffers, NoBuffer, NextVersion
<1>7. /\ p \in Openings
      /\ IF o.text = 0 THEN p = Ended("ok")
         ELSE /\ p.phase = "send" /\ p.file = f /\ p.stat = o.stat /\ p.snap = o.snap /\ p.text = o.text
              /\ p.version = b.version + 1
  <2>1. CASE o.text = 0
    BY <2>1, EndedIs
  <2>2. CASE o.text # 0
    <3>1. p = [o EXCEPT !.phase = "send", !.version = b.version + 1] /\ "send" \in Phases /\ o.file = f
      BY <1>f, <2>2 DEF NextVersion, Phases
    <3>2. b.version + 1 \in Nat
      BY <1>4
    <3> HIDE DEF p, b, o
    <3>3. /\ p \in Openings /\ p.phase = "send" /\ p.file = o.file /\ p.stat = o.stat
          /\ p.snap = o.snap /\ p.text = o.text /\ p.version = b.version + 1
      BY <1>2, <3>1, <3>2 DEF Openings
    <3> QED BY <2>2, <3>1, <3>3
  <2> QED BY <2>1, <2>2
<1> HIDE DEF new, p, o, b
<1>8. PhasesOK' /\ opening'[c] = p /\ \A d \in Callers \ {c} : opening'[d] = opening[d]
  <2>1. IF p.phase \in Phases THEN p.file \in Files ELSE p = Ended(p.phase)
    BY <1>2, <1>7, EndedIs DEF Phases
  <2> QED BY <1>5, <1>7, <2>1, Moved DEF DocInv
<1>g. guards \in [Callers -> [Files -> Nat]] /\ buffers \in [Files -> Buffers] /\ crossed \subseteq Files
  BY DEF DocInv, RestOK
<1>9. /\ buffers'[f] = new /\ \A g \in Files \ {f} : buffers'[g] = buffers[g]
      /\ guards'[c][f] = IF o.text = 0 THEN guards[c][f] + 1 ELSE guards[c][f]
      /\ \A g \in Files \ {f} : guards'[c][g] = guards[c][g]
      /\ \A d \in Callers \ {c} : guards'[d] = guards[d]
      /\ crossed \subseteq crossed'
  <2>1. /\ guards'[c][f] = IF o.text = 0 THEN guards[c][f] + 1 ELSE guards[c][f]
        /\ \A g \in Files \ {f} : guards'[c][g] = guards[c][g]
        /\ \A d \in Callers \ {c} : guards'[d] = guards[d]
    BY <1>5, <1>g
  <2>2. crossed \subseteq crossed'
    BY <1>5 DEF Cross
  <2> QED BY <1>5, <1>g, <2>1, <2>2
<1>10. RestOK'
  <2>1. guards' \in [Callers -> [Files -> Nat]] /\ buffers' \in [Files -> Buffers] /\ crossed' \subseteq Files
    <3>1. guards' \in [Callers -> [Files -> Nat]]
      <4>1. CASE o.text = 0
        BY <1>5, <1>g, <4>1
      <4>2. CASE o.text # 0
        BY <1>5, <1>g, <4>2
      <4> QED BY <4>1, <4>2
    <3>2. buffers' \in [Files -> Buffers]
      BY <1>5, <1>6, <1>g
    <3>3. crossed' \subseteq Files
      BY <1>5, <1>g DEF Cross
    <3> QED BY <3>1, <3>2, <3>3
  <2> QED BY <1>5, <2>1 DEF DocInv, RestOK
<1>11. ReleasedOK'
  <2>1. /\ Without(released, f) \in Seq(Files) /\ IsInjective(Without(released, f))
        /\ ToSet(Without(released, f)) = ToSet(released) \ {f}
    BY <1>2, WithoutIs DEF DocInv, ReleasedOK
  <2> QED BY <1>2, <1>4, <1>5, <1>6, <1>9, <2>1 DEF DocInv, ReleasedOK
<1>12. OpenOK(c)'
  BY <1>2, <1>3, <1>4, <1>5, <1>7, <1>8, EndedIs DEF OpenOK, Active
<1>13. Held(c, f)' = Held(c, f) + 1
  <2>1. Held(c, f) = guards[c][f] + 0
    BY <1>0, <1>1 DEF Held, InPhase
  <2>2. guards[c][f] \in Nat
    BY <1>2, <1>g
  <2>3. CASE o.text = 0
    <3>1. Held(c, f)' = guards'[c][f] + 0
      BY <1>7, <1>8, <2>3, EndedIs DEF Held, InPhase
    <3> QED BY <1>9, <2>1, <2>2, <2>3, <3>1
  <2>4. CASE o.text # 0
    <3>1. Held(c, f)' = guards'[c][f] + 1
      BY <1>7, <1>8, <2>4 DEF Held, InPhase
    <3> QED BY <1>9, <2>1, <2>2, <2>4, <3>1
  <2> QED BY <2>3, <2>4
<1>14. Holders(f)' = Holders(f) + 1 /\ Holders(f) \in Nat
  <2>1. RestOK
    BY DEF DocInv
  <2>2. Holders(f) \in Nat
    BY <1>2, <1>g, HoldersType
  <2> QED BY <1>2, <1>8, <1>9, <1>10, <1>13, <2>1, <2>2, CountMoves
<1>15. ASSUME f \notin crossed' PROVE EntryOK(f)'
  <2>1. f \notin crossed /\ \A d \in Callers \ {c} : d \notin Due(f)
    BY <1>2, <1>5, <1>15, Alone
  <2>2. c \notin Due(f)
    BY <1>0, <1>1, <1>2 DEF Due, InPhase
  <2>3. /\ view[f].open /\ view[f].version <= b.version /\ view[f].version \in Nat
        /\ ~b.resync => view[f].text >= b.stamp /\ view[f].version = b.version
    <3>1. Due(f) = {}
      BY <2>1, <2>2 DEF Due
    <3> QED BY <1>0, <1>2, <1>4, <2>1, <3>1 DEF DocInv, FileOK, EntryOK, RestOK
  <2>4. Due(f)' \subseteq {c}
    <3>1. \A d \in Callers \ {c} : opening'[d] = opening[d] /\ closing'[d] = closing[d]
      BY <1>5, <1>8
    <3> QED BY <1>2, <2>1, <3>1, StaysAlone
  <2>5. CASE o.text = 0
    <3>1. ~InPhase(c, f, {"send", "rollback", "settle"})' /\ f \notin closing'[c]
      BY <1>2, <1>5, <1>7, <1>8, <2>5, EndedIs DEF InPhase
    <3>2. DueOK(c, f)'
      BY <3>1 DEF DueOK, InPhase
    <3>3. /\ view'[f].open /\ view'[f].version <= buffers'[f].version
          /\ ~buffers'[f].resync =>
                view'[f].text >= buffers'[f].stamp /\ view'[f].version = buffers'[f].version
      BY <1>5, <1>6, <1>9, <2>3, <2>5
    <3> QED BY <1>2, <2>4, <3>2, <3>3, OneDue
  <2>6. CASE o.text # 0
    <3>1. Announces(c)' = "didChange"
      BY <1>4, <1>7, <1>8, <2>6 DEF Announces
    <3>2. DueOK(c, f)'
      BY <1>2, <1>4, <1>5, <1>6, <1>7, <1>8, <1>9, <2>3, <2>6, <3>1 DEF DueOK, InPhase
    <3>3. c \in Due(f)'
      BY <1>7, <1>8, <2>6 DEF Due, InPhase
    <3> QED BY <1>2, <2>4, <3>2, <3>3, OneDue
  <2> QED BY <2>5, <2>6
<1>16. FileOK(f)'
  <2>1. buffers[f].refs <= Holders(f) /\ (f \notin crossed => buffers[f].refs = Holders(f)) /\ disk[f].stamp > 0
    BY <1>2 DEF DocInv, FileOK
  <2> QED BY <1>0, <1>4, <1>5, <1>6, <1>9, <1>14, <1>15, <2>1 DEF FileOK
<1>17. \A g \in Files \ {f} : ~InPhase(c, g, Active) /\ ~InPhase(c, g, Active)'
  BY <1>0, <1>1, <1>7, <1>8, EndedIs DEF InPhase, Active
<1>18. \A g \in Files : disk'[g].stamp >= disk[g].stamp
  BY <1>5 DEF DocInv, RestOK
<1> QED BY <1>2, <1>5, <1>8, <1>9, <1>10, <1>11, <1>12, <1>16, <1>17, <1>18, OneFile

\* What the call that is about to tell the language server knows of the file.
LEMMA Sending ==
  ASSUME DocInv, NEW c \in Callers, opening[c].phase \in {"send", "rollback", "settle"}
  PROVE  \E f \in Files :
           /\ opening[c].file = f /\ InPhase(c, f, {opening[c].phase}) /\ c \in Due(f)
           /\ opening[c] \in Openings /\ opening[c].text >= opening[c].stat
           /\ opening[c].text \in Nat /\ opening[c].stat \in Nat /\ opening[c].stat > 0
           /\ opening[c].version \in Nat /\ opening[c].version > 0
           /\ guards[c][f] \in Nat /\ Held(c, f) = guards[c][f] + 1
           /\ f \notin crossed => /\ DueOK(c, f) /\ buffers[f] # NoBuffer /\ f \notin closing[c]
                                  /\ buffers[f].refs = Holders(f)
<1>1. opening[c].phase \in Phases /\ opening[c].phase \in Active
  BY DEF Phases, Active
<1>2. PICK f \in Files : opening[c].file = f
  BY <1>1, Looking
<1>3. /\ opening[c] \in Openings /\ opening[c].text \in Nat /\ opening[c].stat \in Nat
      /\ opening[c].stat > 0 /\ opening[c].version \in Nat
  BY <1>1, Looking
<1>4. opening[c].text >= opening[c].stat /\ opening[c].version > 0
  BY <1>1 DEF DocInv, OpenOK
<1>5. InPhase(c, f, {opening[c].phase}) /\ InPhase(c, f, {"send", "rollback", "settle"})
  BY <1>2 DEF InPhase
<1>6. c \in Due(f)
  BY <1>5 DEF Due
<1>7. guards[c][f] \in Nat /\ Held(c, f) = guards[c][f] + 1
  BY <1>2 DEF DocInv, RestOK, Held, InPhase
<1>8. ASSUME f \notin crossed
      PROVE  /\ DueOK(c, f) /\ buffers[f] # NoBuffer /\ f \notin closing[c] /\ buffers[f].refs = Holders(f)
  <2>1. DueOK(c, f) /\ buffers[f].refs = Holders(f)
    BY <1>8 DEF DocInv, FileOK, EntryOK
  <2>2. buffers[f] # NoBuffer
    BY <1>2, <2>1 DEF DueOK, InPhase
  <2> QED BY <2>1, <2>2 DEF DueOK
<1> QED BY <1>2, <1>3, <1>4, <1>5, <1>6, <1>7, <1>8

LEMMA SendRefusedKeeps ==
  ASSUME DocInv, NEW c \in Callers, SendRefused(c)
  PROVE  DocInv'
<1> DEFINE o == opening[c]
           p == [o EXCEPT !.phase = "rollback"]
<1>1. o.phase = "send" /\ UNCHANGED <<disk, buffers, released, view, guards, closing, over, crossed>>
  BY DEF SendRefused
<1>2. PICK f \in Files :
        /\ o.file = f /\ o \in Openings
        /\ f \notin crossed => DueOK(c, f)
  BY <1>1, Sending
<1>3. opening \in [Callers -> Openings]
  BY DEF DocInv, PhasesOK
<1>4. /\ p \in Openings /\ p.phase = "rollback" /\ p.file = f /\ p.stat = o.stat /\ p.snap = o.snap
      /\ p.text = o.text /\ p.version = o.version
  BY <1>2 DEF Openings, Phases
<1>5. opening' = [opening EXCEPT ![c] = p]
  BY <1>3 DEF SendRefused, Goto
<1>0. opening[c] = o
  OBVIOUS
<1> HIDE DEF p, o
<1>6. PhasesOK' /\ opening'[c] = p /\ \A d \in Callers \ {c} : opening'[d] = opening[d]
  BY <1>4, <1>5, Moved DEF DocInv, Phases
<1>7. RestOK' /\ ReleasedOK'
  <2>1. troubles' \in 0..MaxTroubles
    BY DocSyncAssumption DEF SendRefused, Refused, Trouble, DocInv, RestOK
  <2> QED BY <1>1, <2>1 DEF DocInv, RestOK, ReleasedOK
<1>8. OpenOK(c)'
  BY <1>0, <1>1, <1>2, <1>4, <1>6 DEF DocInv, OpenOK, Phases, Active
<1>9. \A d \in Callers : Held(d, f)' = Held(d, f)
  BY <1>0, <1>1, <1>2, <1>4, <1>6 DEF Held, InPhase
<1>10. Holders(f)' = Holders(f)
  BY <1>9, HoldersSame
<1>11. ASSUME f \notin crossed PROVE EntryOK(f)'
  <2>1. \A d \in Callers : InPhase(d, f, {"send", "rollback", "settle"})'
                         <=> InPhase(d, f, {"send", "rollback", "settle"})
    BY <1>0, <1>1, <1>2, <1>4, <1>6 DEF InPhase
  <2>2. Due(f)' = Due(f)
    BY <1>1, <2>1 DEF Due
  <2>3. ASSUME NEW d \in Callers PROVE DueOK(d, f)'
    <3>1. CASE d = c
      <4>1. Announces(c)' = Announces(c)
        BY <1>0, <1>4, <1>6 DEF Announces
      <4> QED BY <1>0, <1>1, <1>2, <1>4, <1>6, <1>9, <1>11, <3>1, <4>1 DEF DueOK, InPhase
    <3>2. CASE d # c
      <4>1. DueOK(d, f)
        BY <1>11 DEF DocInv, FileOK, EntryOK
      <4>2. Announces(d)' = Announces(d) /\ opening'[d] = opening[d]
        BY <1>6, <3>2 DEF Announces
      <4> QED BY <1>1, <1>9, <4>1, <4>2 DEF DueOK, InPhase
    <3> QED BY <3>1, <3>2
  <2> QED BY <1>1, <1>11, <2>2, <2>3 DEF DocInv, FileOK, EntryOK
<1>12. FileOK(f)'
  BY <1>1, <1>10, <1>11 DEF DocInv, FileOK
<1>13. \A g \in Files \ {f} : ~InPhase(c, g, Active) /\ ~InPhase(c, g, Active)'
  BY <1>0, <1>2, <1>4, <1>6 DEF InPhase
<1>14. \A g \in Files : disk'[g].stamp >= disk[g].stamp
  BY <1>1 DEF DocInv, RestOK
<1> QED BY <1>1, <1>2, <1>6, <1>7, <1>8, <1>12, <1>13, <1>14, OneFile

\* The guard is handed out: the call holds as much of the file as before.
LEMMA OpenedIs ==
  ASSUME DocInv, NEW c \in Callers, NEW f \in Files, opening[c].file = f, opening[c].phase \in Active,
         Opened(c)
  PROVE  /\ PhasesOK' /\ opening'[c] = Ended("ok") /\ opening'[c].phase = "ok" /\ opening'[c].file = None
         /\ \A d \in Callers \ {c} : opening'[d] = opening[d] /\ guards'[d] = guards[d]
         /\ guards' \in [Callers -> [Files -> Nat]]
         /\ \A g \in Files \ {f} : guards'[c][g] = guards[c][g]
         /\ \A d \in Callers, g \in Files : Held(d, g)' = Held(d, g)
         /\ \A g \in Files : ~InPhase(c, g, Active)' /\ ~InPhase(c, g, {"send", "rollback", "settle"})'
<1>1. PhasesOK /\ guards \in [Callers -> [Files -> Nat]]
  BY DEF DocInv, RestOK
<1>2. opening' = [opening EXCEPT ![c] = Ended("ok")] /\ guards' = [guards EXCEPT ![c][f] = @ + 1]
  BY DEF Opened
<1>3. /\ PhasesOK' /\ opening'[c] = Ended("ok") /\ opening'[c].phase = "ok" /\ opening'[c].file = None
      /\ \A d \in Callers \ {c} : opening'[d] = opening[d]
  BY <1>1, <1>2, EndedIs, Moved
<1>4. /\ guards' \in [Callers -> [Files -> Nat]] /\ guards'[c][f] = guards[c][f] + 1
      /\ \A d \in Callers \ {c} : guards'[d] = guards[d]
      /\ \A g \in Files \ {f} : guards'[c][g] = guards[c][g]
  BY <1>1, <1>2
<1>5. \A g \in Files : ~InPhase(c, g, Active)' /\ ~InPhase(c, g, {"send", "rollback", "settle"})'
  BY <1>3 DEF InPhase, Active
<1>6. ASSUME NEW d \in Callers, NEW g \in Files PROVE Held(d, g)' = Held(d, g)
  <2>1. CASE d # c
    BY <1>3, <1>4, <2>1 DEF Held, InPhase
  <2>2. CASE d = c /\ g # f
    <3>1. ~InPhase(c, g, Active)
      BY <2>2 DEF InPhase
    <3> QED BY <1>4, <1>5, <2>2, <3>1 DEF Held, InPhase, Active
  <2>3. CASE d = c /\ g = f
    <3>1. Held(c, f) = guards[c][f] + 1
      BY DEF Held, InPhase, Active
    <3>2. Held(c, f)' = guards'[c][f] + 0
      BY <1>3 DEF Held, InPhase
    <3> QED BY <1>1, <1>4, <2>3, <3>1, <3>2
  <2> QED BY <2>1, <2>2, <2>3
<1> QED BY <1>3, <1>4, <1>5, <1>6

LEMMA SendKeeps ==
  ASSUME DocInv, NEW c \in Callers, Send(c)
  PROVE  DocInv'
<1> DEFINE o == opening[c]
<1>1. o.phase = "send" /\ UNCHANGED <<disk, buffers, released, closing, over, troubles>>
  BY DEF Send, Taken
<1>2. PICK f \in Files :
        /\ o.file = f /\ o \in Openings /\ o.text >= o.stat
        /\ o.text \in Nat /\ o.stat \in Nat /\ o.version \in Nat /\ o.version > 0
        /\ f \notin crossed => DueOK(c, f) /\ buffers[f] # NoBuffer /\ f \notin closing[c]
  BY <1>1, Sending
<1> DEFINE how == Announces(c)
           p == [o EXCEPT !.phase = IF how = "didOpen" THEN "close" ELSE "settle"]
<1>3. opening \in [Callers -> Openings]
  BY DEF DocInv, PhasesOK
<1>4. /\ p \in Openings /\ p.phase = (IF how = "didOpen" THEN "close" ELSE "settle")
      /\ p.file = f /\ p.stat = o.stat /\ p.snap = o.snap /\ p.text = o.text /\ p.version = o.version
  BY <1>2 DEF Openings, Phases
<1>5. IF how = "didOpen" /\ closing[c] = {} THEN Opened(c)
      ELSE opening' = [opening EXCEPT ![c] = p] /\ UNCHANGED guards
  BY <1>3 DEF Send, Goto
<1>6. view' = [view EXCEPT ![f] = IF how = "didChange" /\ ~view[f].open THEN view[f]
                                  ELSE [open |-> TRUE, text |-> o.text, version |-> o.version]]
  BY <1>2 DEF Send
<1>7. Cross(c, f)
  BY <1>2 DEF Send
<1>8. how = (IF o.snap = NoBuffer THEN "didOpen" ELSE "didChange")
  BY DEF Announces
<1>0. opening[c] = o
  OBVIOUS
<1> HIDE DEF p, o, how
<1>9. /\ PhasesOK' /\ \A d \in Callers \ {c} : opening'[d] = opening[d] /\ guards'[d] = guards[d]
      /\ guards' \in [Callers -> [Files -> Nat]]
      /\ \A g \in Files \ {f} : guards'[c][g] = guards[c][g]
      /\ \A d \in Callers : Held(d, f)' = Held(d, f)
      /\ \A g \in Files \ {f} : ~InPhase(c, g, Active) /\ ~InPhase(c, g, Active)'
      /\ IF how = "didOpen" /\ closing[c] = {} THEN opening'[c].phase = "ok" ELSE opening'[c] = p
  <2>0. \A g \in Files \ {f} : ~InPhase(c, g, Active)
    BY <1>0, <1>2 DEF InPhase
  <2>1. CASE how = "didOpen" /\ closing[c] = {}
    BY <1>0, <1>1, <1>2, <1>5, <2>0, <2>1, OpenedIs DEF Active
  <2>2. CASE ~(how = "didOpen" /\ closing[c] = {})
    <3>1. opening' = [opening EXCEPT ![c] = p] /\ guards' = guards
      BY <1>5, <2>2
    <3>2. PhasesOK' /\ opening'[c] = p /\ \A d \in Callers \ {c} : opening'[d] = opening[d]
      BY <1>2, <1>4, <3>1, Moved DEF DocInv, Phases
    <3>3. \A d \in Callers : Held(d, f)' = Held(d, f)
      BY <1>0, <1>1, <1>2, <1>4, <3>1, <3>2 DEF Held, InPhase
    <3>4. \A g \in Files \ {f} : ~InPhase(c, g, Active)'
      BY <1>4, <3>2 DEF InPhase
    <3> QED BY <2>0, <2>2, <3>1, <3>2, <3>3, <3>4 DEF DocInv, RestOK
  <2> QED BY <2>1, <2>2
<1>10. /\ view' \in [Files -> [open : BOOLEAN, text : Nat, version : Nat]]
       /\ \A g \in Files \ {f} : view'[g] = view[g]
       /\ view'[f] = IF how = "didChange" /\ ~view[f].open THEN view[f]
                     ELSE [open |-> TRUE, text |-> o.text, version |-> o.version]
  BY <1>2, <1>6 DEF DocInv, RestOK
<1>11. RestOK' /\ ReleasedOK' /\ crossed \subseteq crossed'
  BY <1>1, <1>7, <1>9, <1>10 DEF DocInv, RestOK, ReleasedOK, Cross
<1>12. OpenOK(c)'
  <2>1. CASE how = "didOpen" /\ closing[c] = {}
    BY <1>9, <2>1 DEF OpenOK, Phases
  <2>2. CASE ~(how = "didOpen" /\ closing[c] = {})
    BY <1>0, <1>1, <1>2, <1>4, <1>8, <1>9, <2>2 DEF DocInv, OpenOK, Phases, Active
  <2> QED BY <2>1, <2>2
<1>13. Holders(f)' = Holders(f)
  BY <1>9, HoldersSame
<1>14. ASSUME f \notin crossed' PROVE EntryOK(f)'
  <2>1. f \notin crossed /\ \A d \in Callers \ {c} : d \notin Due(f)
    BY <1>7, <1>14, Alone
  <2>2. Due(f)' \subseteq {c}
    <3>1. \A d \in Callers \ {c} : opening'[d] = opening[d] /\ closing'[d] = closing[d]
      BY <1>1, <1>9
    <3> QED BY <2>1, <3>1, StaysAlone
  <2>3. /\ DueOK(c, f) /\ buffers[f] # NoBuffer /\ f \notin closing'[c]
        /\ InPhase(c, f, {"send", "rollback"}) /\ ~InPhase(c, f, {"settle"})
    BY <1>0, <1>1, <1>2, <2>1 DEF InPhase
  <2>4. /\ view'[f].open /\ view'[f].text = o.text /\ view'[f].version = o.version
        /\ buffers'[f].version = o.version /\ buffers'[f].stamp = o.stat
    BY <1>0, <1>1, <1>8, <1>10, <2>3 DEF DueOK, how
  <2>5. ~InPhase(c, f, {"send", "rollback"})'
    BY <1>4, <1>9 DEF InPhase
  <2>6. DueOK(c, f)'
    BY <1>1, <1>2, <2>3, <2>4, <2>5 DEF DueOK
  <2> QED BY <1>2, <2>2, <2>4, <2>6, OneDue
<1>15. FileOK(f)'
  BY <1>1, <1>13, <1>14, <1>11 DEF DocInv, FileOK
<1>16. \A g \in Files : disk'[g].stamp >= disk[g].stamp
  BY <1>1 DEF DocInv, RestOK
<1>17. \A d \in Callers \ {c} : closing'[d] = closing[d] /\ opening'[d] = opening[d] /\ guards'[d] = guards[d]
  BY <1>1, <1>9
<1>18. \A g \in Files \ {f} : /\ buffers'[g] = buffers[g] /\ view'[g] = view[g]
                              /\ guards'[c][g] = guards[c][g] /\ (g \in closing'[c] <=> g \in closing[c])
  BY <1>1, <1>9, <1>10
<1> QED BY <1>2, <1>9, <1>11, <1>12, <1>15, <1>16, <1>17, <1>18, OneFile

LEMMA SettleKeeps ==
  ASSUME DocInv, NEW c \in Callers, Settle(c)
  PROVE  DocInv'
<1>1. /\ opening[c].phase = "settle" /\ opening[c].phase \in Active /\ opening[c].phase \in Phases
      /\ UNCHANGED <<disk, released, view, closing, over, troubles>>
  BY DEF Settle, Active, Phases
<1>2. PICK f \in Files :
        /\ opening[c].file = f /\ InPhase(c, f, {"settle"})
        /\ f \notin crossed => DueOK(c, f) /\ buffers[f] # NoBuffer /\ f \notin closing[c]
  BY <1>1, Sending
<1> DEFINE b == buffers[f]
           new == IF b # NoBuffer THEN [b EXCEPT !.resync = FALSE] ELSE b
<1>3. buffers' = [buffers EXCEPT ![f] = new] /\ Cross(c, f)
  BY <1>2 DEF Settle, Buffered, DocInv, RestOK
<1>4. b \in Buffers /\ (b # NoBuffer => b.version > 0)
  BY DEF DocInv, RestOK, FileOK
<1>5. /\ new \in Buffers /\ new.stamp = b.stamp /\ new.version = b.version /\ new.refs = b.refs
      /\ (new = NoBuffer <=> b = NoBuffer)
  <2> DEFINE r == [b EXCEPT !.resync = FALSE]
  <2>1. r \in Buffers /\ r.stamp = b.stamp /\ r.version = b.version /\ r.refs = b.refs
    BY <1>4 DEF Buffers
  <2>2. NoBuffer.version = 0
    BY DEF NoBuffer
  <2>3. new = IF b # NoBuffer THEN r ELSE b
    OBVIOUS
  <2> HIDE DEF r, new
  <2> QED BY <1>4, <2>1, <2>2, <2>3
<1>0. buffers[f] = b
  OBVIOUS
<1> HIDE DEF b, new
<1>6. /\ buffers' \in [Files -> Buffers] /\ buffers'[f] = new
      /\ \A g \in Files \ {f} : buffers'[g] = buffers[g]
  BY <1>3, <1>5 DEF DocInv, RestOK
<1>7. /\ PhasesOK' /\ opening'[c].phase = "ok" /\ opening'[c].file = None
      /\ \A d \in Callers \ {c} : opening'[d] = opening[d] /\ guards'[d] = guards[d]
      /\ guards' \in [Callers -> [Files -> Nat]]
      /\ \A g \in Files \ {f} : guards'[c][g] = guards[c][g]
      /\ \A d \in Callers, g \in Files : Held(d, g)' = Held(d, g)
      /\ \A g \in Files : ~InPhase(c, g, Active)' /\ ~InPhase(c, g, {"send", "rollback", "settle"})'
  <2>1. Opened(c)
    BY DEF Settle
  <2> QED BY <1>1, <1>2, <2>1, OpenedIs
<1>8. RestOK' /\ crossed \subseteq crossed'
  BY <1>1, <1>3, <1>6, <1>7 DEF DocInv, RestOK, Cross
<1>9. ReleasedOK'
  BY <1>0, <1>1, <1>5, <1>6 DEF DocInv, ReleasedOK
<1>10. OpenOK(c)'
  BY <1>7 DEF OpenOK, Phases
<1>11. Holders(f)' = Holders(f)
  BY <1>7, HoldersSame
<1>12. ASSUME f \notin crossed' PROVE EntryOK(f)'
  <2>1. f \notin crossed /\ \A d \in Callers \ {c} : d \notin Due(f)
    BY <1>3, <1>12, Alone
  <2>2. Due(f)' \subseteq {c}
    <3>1. \A d \in Callers \ {c} : opening'[d] = opening[d] /\ closing'[d] = closing[d]
      BY <1>1, <1>7
    <3> QED BY <2>1, <3>1, StaysAlone
  <2>3. DueOK(c, f) /\ f \notin closing'[c]
    BY <1>1, <1>2, <2>1
  <2>4. /\ view'[f].open /\ view'[f].version = buffers'[f].version /\ view'[f].text >= buffers'[f].stamp
        /\ view'[f].version \in Nat
    <3>1. view[f].open /\ view[f].version = b.version /\ view[f].text >= b.stamp
      BY <1>0, <1>2, <2>3 DEF DueOK
    <3> QED BY <1>1, <1>5, <1>6, <3>1 DEF DocInv, RestOK
  <2>5. DueOK(c, f)'
    BY <1>7, <2>3 DEF DueOK, InPhase
  <2> QED BY <2>2, <2>4, <2>5, OneDue
<1>13. FileOK(f)'
  BY <1>0, <1>1, <1>4, <1>5, <1>6, <1>8, <1>11, <1>12 DEF DocInv, FileOK
<1>14. \A g \in Files \ {f} : ~InPhase(c, g, Active) /\ ~InPhase(c, g, Active)'
  BY <1>2, <1>7 DEF InPhase
<1>15. \A g \in Files : disk'[g].stamp >= disk[g].stamp
  BY <1>1 DEF DocInv, RestOK
<1> QED BY <1>1, <1>6, <1>7, <1>8, <1>9, <1>10, <1>13, <1>14, <1>15, OneFile

LEMMA RollbackKeeps ==
  ASSUME DocInv, NEW c \in Callers, Rollback(c)
  PROVE  DocInv'
<1>1. /\ opening[c].phase = "rollback" /\ opening[c].phase \in Active /\ opening[c].phase \in Phases
      /\ UNCHANGED <<disk, view, guards, over, troubles>>
      /\ opening' = [opening EXCEPT ![c] = Ended("err")]
      /\ closing' = [closing EXCEPT ![c] = {}]
  BY DEF Rollback, Active, Phases
<1>2. PICK f \in Files :
        /\ opening[c].file = f /\ InPhase(c, f, {"rollback"}) /\ c \in Due(f)
        /\ guards[c][f] \in Nat /\ Held(c, f) = guards[c][f] + 1
        /\ f \notin crossed => /\ DueOK(c, f) /\ buffers[f] # NoBuffer /\ f \notin closing[c]
                               /\ buffers[f].refs = Holders(f)
  BY <1>1, Sending
<1> DEFINE b == buffers[f]
           method == Announces(c)
           new == IF b.refs = 1 \/ b = NoBuffer THEN NoBuffer ELSE RolledBack(b, method)
<1>3. /\ buffers' = [buffers EXCEPT ![f] = new] /\ Cross(c, f)
      /\ released' = IF new # NoBuffer THEN Released(f, new.refs) ELSE released
  BY <1>2 DEF Rollback, Buffered
<1>4. b \in Buffers /\ (b # NoBuffer => b.version > 0)
  BY DEF DocInv, RestOK, FileOK
<1>5. /\ \/ new = NoBuffer /\ (b.refs = 1 \/ b = NoBuffer)
         \/ /\ b.refs # 1 /\ b # NoBuffer /\ new # NoBuffer
            /\ new.stamp = b.stamp /\ new.version = b.version
            /\ new.refs = (IF b.refs > 0 THEN b.refs - 1 ELSE 0)
            /\ new.resync = (b.resync \/ method = "didChange")
      /\ new \in Buffers
  <2> DEFINE r == RolledBack(b, method)
  <2>1. /\ r \in Buffers /\ r.stamp = b.stamp /\ r.version = b.version
        /\ r.refs = (IF b.refs > 0 THEN b.refs - 1 ELSE 0)
        /\ r.resync = (b.resync \/ method = "didChange")
    <3>1. (IF b.refs > 0 THEN b.refs - 1 ELSE 0) \in Nat /\ (b.resync \/ method = "didChange") \in BOOLEAN
      BY <1>4 DEF Buffers
    <3> QED BY <1>4, <3>1 DEF Buffers, RolledBack
  <2>2. NoBuffer.version = 0 /\ NoBuffer \in Buffers
    BY DEF NoBuffer, Buffers
  <2> HIDE DEF r
  <2>3. new = IF b.refs = 1 \/ b = NoBuffer THEN NoBuffer ELSE r
    BY DEF r
  <2> HIDE DEF new
  <2> QED BY <1>4, <2>1, <2>2, <2>3
<1>7. method \in {"didOpen", "didChange"}
  BY DEF Announces
<1>0. buffers[f] = b /\ method = Announces(c) /\ NoBuffer.refs = 0
  BY DEF NoBuffer
<1> HIDE DEF b, new, method
<1>8. /\ buffers' \in [Files -> Buffers] /\ buffers'[f] = new
      /\ \A g \in Files \ {f} : buffers'[g] = buffers[g]
  BY <1>3, <1>5 DEF DocInv, RestOK
<1>9. /\ PhasesOK' /\ opening'[c].phase = "err" /\ opening'[c].file = None
      /\ \A d \in Callers \ {c} : opening'[d] = opening[d]
  BY <1>1, EndedIs, Moved DEF DocInv
<1>10. /\ closing' \in [Callers -> SUBSET Files] /\ closing'[c] = {}
       /\ \A d \in Callers \ {c} : closing'[d] = closing[d]
  BY <1>1 DEF DocInv, RestOK
<1>11. RestOK' /\ RestOK /\ crossed \subseteq crossed'
  BY <1>1, <1>3, <1>8, <1>10 DEF DocInv, RestOK, Cross
<1>12. ReleasedOK'
  <2>1. /\ released \in Seq(Files) /\ IsInjective(released)
        /\ \A g \in Files : g \in ToSet(released) <=> buffers[g] # NoBuffer /\ buffers[g].refs = 0
    BY DEF DocInv, ReleasedOK
  <2>2. CASE new = NoBuffer
    <3>1. f \notin ToSet(released)
      BY <1>0, <1>2, <1>5, <2>1, <2>2
    <3> QED BY <1>0, <1>3, <1>8, <2>1, <2>2, <3>1 DEF ReleasedOK
  <2>3. CASE new # NoBuffer /\ new.refs = 0
    <3>1. released' = Append(Without(released, f), f)
      BY <1>3, <2>3 DEF Released
    <3>2. /\ released' \in Seq(Files) /\ IsInjective(released')
          /\ ToSet(released') = ToSet(released) \cup {f}
      BY <2>1, <3>1, ReleasedIs
    <3> QED BY <1>8, <2>1, <2>3, <3>2 DEF ReleasedOK
  <2>4. CASE new # NoBuffer /\ new.refs # 0
    <3>1. released' = released
      BY <1>3, <2>4 DEF Released
    <3>2. b.refs # 0 /\ b # NoBuffer
      BY <1>4, <1>5, <2>4 DEF Buffers
    <3> QED BY <1>0, <1>8, <2>1, <2>4, <3>1, <3>2 DEF ReleasedOK
  <2> QED BY <2>2, <2>3, <2>4
<1>13. OpenOK(c)'
  BY <1>9 DEF OpenOK, Phases
<1>14. Held(c, f)' = guards[c][f] /\ \A g \in Files \ {f} : Held(c, g)' = Held(c, g)
  <2>1. Held(c, f)' = guards[c][f] + 0
    BY <1>1, <1>9 DEF Held, InPhase
  <2> QED BY <1>1, <1>2, <1>9, <2>1 DEF Held, InPhase
<1>15. Holders(f) = Holders(f)' + 1 /\ Holders(f)' \in Nat
  <2>1. Held(c, f) = Held(c, f)' + 1
    BY <1>2, <1>14
  <2>2. Holders(f)' \in Nat
    BY <1>11, HoldersTypeNext
  <2> QED BY <1>1, <1>9, <1>11, <2>1, <2>2, CountMoves
<1>16. ASSUME f \notin crossed'
       PROVE  buffers'[f].refs = Holders(f)' /\ EntryOK(f)'
  <2>1. f \notin crossed /\ \A d \in Callers \ {c} : d \notin Due(f)
    BY <1>3, <1>16, Alone
  <2>2. Due(f)' \subseteq {c}
    BY <1>9, <1>10, <2>1, StaysAlone
  <2>3. /\ ~InPhase(c, f, {"send", "rollback", "settle"})' /\ ~InPhase(c, f, {"send", "rollback"})'
        /\ ~InPhase(c, f, {"settle"})' /\ f \notin closing'[c]
    BY <1>9, <1>10 DEF InPhase
  <2>4. DueOK(c, f)'
    BY <2>3 DEF DueOK
  <2>5. /\ DueOK(c, f) /\ InPhase(c, f, {"send", "rollback"}) /\ b.refs = Holders(f) /\ b # NoBuffer
    BY <1>0, <1>2, <2>1 DEF InPhase
  <2>6. CASE method = "didOpen"
    <3>1. guards[c][f] = 0 /\ \A d \in Callers \ {c} : Held(d, f) = 0
      BY <1>0, <2>5, <2>6 DEF DueOK
    <3>2. \A d \in Callers : Held(d, f)' = 0
      BY <1>1, <1>9, <1>14, <3>1 DEF Held, InPhase
    <3>3. Holders(f)' = 0
      BY <3>2, HoldersZero
    <3>4. new = NoBuffer
      BY <1>5, <1>15, <2>5, <3>3
    <3> QED BY <1>0, <1>8, <2>2, <2>4, <3>3, <3>4, OneDue
  <2>7. CASE method = "didChange"
    <3>1. /\ view[f].open /\ view[f].version < opening[c].version /\ b.version = opening[c].version
      BY <1>0, <2>5, <2>7 DEF DueOK
    <3>2. new.refs = Holders(f)'
      <4>1. b.refs \in Nat
        BY <1>4 DEF Buffers
      <4> QED BY <1>0, <1>5, <1>15, <2>5, <4>1
    <3>3. new # NoBuffer => view'[f].open /\ view'[f].version <= new.version /\ new.resync
      <4>1. view[f].version \in Nat /\ b.version \in Nat
        BY <1>4, <1>11 DEF RestOK, Buffers
      <4>2. view' = view
        BY <1>1
      <4>3. view[f].version <= b.version
        BY <3>1, <4>1
      <4> QED BY <1>5, <2>7, <3>1, <4>2, <4>3
    <3> QED BY <1>8, <2>2, <2>4, <3>2, <3>3, OneDue
  <2> QED BY <1>7, <2>6, <2>7
<1>17. FileOK(f)'
  <2>1. buffers[f].refs <= Holders(f) /\ disk[f].stamp > 0
    BY DEF DocInv, FileOK
  <2>2. new.refs <= Holders(f)'
    <3>1. b.refs \in Nat
      BY <1>4 DEF Buffers
    <3> QED BY <1>0, <1>5, <1>15, <2>1, <3>1
  <2> QED BY <1>1, <1>4, <1>5, <1>8, <1>16, <2>1, <2>2 DEF FileOK
<1>18. ASSUME NEW g \in closing[c], g # f PROVE FileOK(g)'
  <2>1. g \in Files
    BY DEF DocInv, RestOK
  <2>2. \A d \in Callers : Held(d, g)' = Held(d, g)
    BY <1>1, <1>9, <1>14, <1>18, <2>1 DEF Held, InPhase
  <2>3. Holders(g)' = Holders(g)
    BY <2>1, <2>2, HoldersSame
  <2>4. ASSUME g \notin crossed' PROVE EntryOK(g)'
    <3>1. g \notin crossed
      BY <1>11, <2>4
    <3>2. EntryOK(g) /\ c \in Due(g)
      BY <1>18, <2>1, <3>1 DEF DocInv, FileOK, Due
    <3>3. buffers[g] = NoBuffer /\ \A d \in Callers \ {c} : d \notin Due(g)
      BY <1>18, <3>2 DEF EntryOK, DueOK
    <3>4. Due(g)' \subseteq {c}
      BY <1>9, <1>10, <2>1, <3>3, StaysAlone
    <3>5. DueOK(c, g)'
      BY <1>9, <1>10 DEF DueOK, InPhase
    <3> QED BY <1>8, <1>18, <2>1, <3>3, <3>4, <3>5, OneDue
  <2> QED BY <1>1, <1>8, <1>11, <1>18, <2>1, <2>3, <2>4 DEF DocInv, FileOK
<1>19. /\ \A d \in Callers \ {c} : opening'[d] = opening[d] /\ closing'[d] = closing[d] /\ guards'[d] = guards[d]
       /\ \A g \in Files : disk'[g].stamp >= disk[g].stamp
  BY <1>1, <1>9, <1>10, <1>11 DEF RestOK
<1> DEFINE F == {f} \cup closing[c]
<1>20. F \in SUBSET Files /\ \A g \in F : FileOK(g)'
  BY <1>17, <1>18 DEF DocInv, RestOK
<1>21. /\ \A g \in Files \ F : /\ buffers'[g] = buffers[g] /\ view'[g] = view[g]
                               /\ guards'[c][g] = guards[c][g] /\ (g \in closing'[c] <=> g \in closing[c])
       /\ \A g \in Files \ F : ~InPhase(c, g, Active) /\ ~InPhase(c, g, Active)'
  <2>1. \A g \in Files \ F : g # f /\ g \notin closing[c]
    OBVIOUS
  <2> HIDE DEF F
  <2>2. \A g \in Files \ F : ~InPhase(c, g, Active) /\ ~InPhase(c, g, Active)'
    BY <1>2, <1>9, <2>1 DEF InPhase, Active
  <2> QED BY <1>1, <1>8, <1>10, <2>1, <2>2
<1> HIDE DEF F
<1> QED BY <1>9, <1>11, <1>12, <1>13, <1>19, <1>20, <1>21, SomeFiles

LEMMA BufferedFinite ==
  IsFiniteSet(Buffered) /\ Cardinality(Buffered) \in Nat
<1>1. Buffered \subseteq Files
  BY DEF Buffered
<1> QED BY <1>1, FS_Subset, FS_CardinalityType, DocSyncAssumption

\* What a new file puts out of the table.
LEMMA RoomIs ==
  ASSUME DocInv, NEW k \in 0..Len(released)
  PROVE  /\ ToSet(SubSeq(released, 1, k)) \subseteq ToSet(released)
         /\ \A g \in ToSet(SubSeq(released, 1, k)) : g \in Files /\ g \in Buffered /\ buffers[g].refs = 0
         /\ IsFiniteSet(ToSet(SubSeq(released, 1, k))) /\ Cardinality(ToSet(SubSeq(released, 1, k))) = k
         /\ LET rest == SubSeq(released, k + 1, Len(released)) IN
              /\ rest \in Seq(Files) /\ IsInjective(rest)
              /\ ToSet(rest) = ToSet(released) \ ToSet(SubSeq(released, 1, k))
              /\ k = Len(released) => rest = <<>>
<1>1. /\ released \in Seq(Files) /\ IsInjective(released)
      /\ \A g \in Files : g \in ToSet(released) <=> buffers[g] # NoBuffer /\ buffers[g].refs = 0
  BY DEF DocInv, ReleasedOK
<1>2. ToSet(released) \subseteq Files
  BY <1>1 DEF ToSet
<1> QED BY <1>1, <1>2, PartIs DEF Buffered

LEMMA BookNewKeeps ==
  ASSUME DocInv, NEW c \in Callers, BookNew(c)
  PROVE  DocInv'
<1>1. /\ opening[c].phase = "book" /\ opening[c].phase \in Phases
      /\ Snapshot(opening[c].file) = opening[c].snap /\ opening[c].file \notin Buffered
      /\ UNCHANGED <<disk, view, guards, over, troubles>>
  BY DEF BookNew, Phases
<1>2. PICK f \in Files : opening[c].file = f
  BY <1>1, Looking
<1> DEFINE o == opening[c]
           need == NeedEvict(Cardinality(Buffered) + 1)
           k == IF need < Len(released) THEN need ELSE Len(released)
           gone == ToSet(SubSeq(released, 1, k))
           rest == SubSeq(released, k + 1, Len(released))
           new == [stamp |-> o.stat, version |-> 1, refs |-> 1, resync |-> FALSE]
           p == [o EXCEPT !.phase = "send", !.version = 1]
<1>3. /\ o \in Openings /\ o.stat \in Nat /\ o.stat > 0 /\ o.stat <= disk[f].stamp /\ o.text \in Nat
      /\ closing[c] = {} /\ o.snap = NoBuffer /\ buffers[f] = NoBuffer
  BY <1>1, <1>2, Looking, SnapshotIs DEF Buffered
<1>4. o.text >= o.stat
  <2>1. o.text # 0
    BY <1>1, <1>3 DEF DocInv, OpenOK, NoBuffer
  <2> QED BY <1>1, <2>1 DEF DocInv, OpenOK
<1>5. /\ buffers' = [g \in Files |-> IF g = f THEN new ELSE IF g \in gone THEN NoBuffer ELSE buffers[g]]
      /\ released' = rest /\ closing' = [closing EXCEPT ![c] = gone]
      /\ crossed' = crossed \cup {g \in {f} \cup gone : Due(g) \ {c} # {}}
      /\ opening' = [opening EXCEPT ![c] = p]
  BY <1>2 DEF BookNew
<1>6. /\ gone \subseteq Files /\ f \notin gone /\ \A g \in gone : g \in Buffered /\ buffers[g].refs = 0
      /\ rest \in Seq(Files) /\ IsInjective(rest) /\ ToSet(rest) = ToSet(released) \ gone
  <2>1. k \in 0..Len(released)
    <3>1. need \in Nat
      BY BufferedFinite, DocSyncAssumption DEF NeedEvict
    <3>2. Len(released) \in Nat
      BY DEF DocInv, ReleasedOK
    <3> HIDE DEF need
    <3> QED BY <3>1, <3>2
  <2> HIDE DEF k
  <2> QED BY <1>1, <1>2, <2>1, RoomIs
<1>7. /\ p \in Openings /\ p.phase = "send" /\ p.file = f /\ p.stat = o.stat /\ p.snap = NoBuffer
      /\ p.text = o.text /\ p.version = 1
  BY <1>2, <1>3 DEF Openings, Phases
<1>8. new \in Buffers /\ new.stamp = o.stat /\ new.version = 1 /\ new.refs = 1 /\ new # NoBuffer
  BY <1>3 DEF Buffers, NoBuffer
<1>0. opening[c] = o
  OBVIOUS
<1> HIDE DEF o, need, k, gone, rest, new, p
<1>9. PhasesOK' /\ opening'[c] = p /\ \A d \in Callers \ {c} : opening'[d] = opening[d]
  BY <1>5, <1>7, Moved DEF DocInv, Phases
<1>10. /\ buffers' \in [Files -> Buffers] /\ buffers'[f] = new
       /\ \A g \in gone : buffers'[g] = NoBuffer
       /\ \A g \in Files \ ({f} \cup gone) : buffers'[g] = buffers[g]
  <2>1. buffers \in [Files -> Buffers] /\ NoBuffer \in Buffers
    BY DEF DocInv, RestOK, NoBuffer, Buffers
  <2> QED BY <1>5, <1>6, <1>8, <2>1
<1>11. /\ closing' \in [Callers -> SUBSET Files] /\ closing'[c] = gone
       /\ \A d \in Callers \ {c} : closing'[d] = closing[d]
       /\ crossed \subseteq crossed' /\ crossed' \subseteq Files
  BY <1>5, <1>6 DEF DocInv, RestOK
<1>12. RestOK' /\ RestOK
  BY <1>1, <1>10, <1>11 DEF DocInv, RestOK
<1>13. ReleasedOK'
  <2>1. /\ \A g \in Files : g \in ToSet(released) <=> buffers[g] # NoBuffer /\ buffers[g].refs = 0
    BY DEF DocInv, ReleasedOK
  <2>2. \A g \in Files : g \in ToSet(rest) <=> buffers'[g] # NoBuffer /\ buffers'[g].refs = 0
    BY <1>3, <1>6, <1>8, <1>10, <2>1
  <2> QED BY <1>5, <1>6, <2>2 DEF ReleasedOK
<1>14. OpenOK(c)'
  BY <1>1, <1>3, <1>4, <1>7, <1>9 DEF OpenOK, Active
<1>15. /\ guards[c][f] \in Nat /\ Held(c, f) = guards[c][f] /\ Held(c, f)' = Held(c, f) + 1
  <2>1. guards[c][f] \in Nat
    BY DEF DocInv, RestOK
  <2>2. Held(c, f) = guards[c][f] + 0
    BY <1>1, <1>2 DEF Held, InPhase
  <2>3. Held(c, f)' = guards[c][f] + 1
    BY <1>1, <1>7, <1>9 DEF Held, InPhase
  <2> QED BY <2>1, <2>2, <2>3
<1>16. /\ Holders(f)' = Holders(f) + 1 /\ Holders(f) \in Nat
       /\ \A d \in Callers \ {c} : Held(d, f)' = Held(d, f)
  BY <1>1, <1>9, <1>12, <1>15, CountMoves, HoldersType DEF RestOK
<1>17. ASSUME f \notin crossed' PROVE new.refs = Holders(f)' /\ EntryOK(f)'
  <2>1. f \notin crossed /\ \A d \in Callers \ {c} : d \notin Due(f)
    BY <1>5, <1>17 DEF Due
  <2>2. Holders(f) = 0
    BY <1>3, <2>1 DEF DocInv, FileOK, NoBuffer
  <2>3. \A d \in Callers : Held(d, f) = 0
    <3> SUFFICES ASSUME NEW d \in Callers PROVE Held(d, f) = 0
      OBVIOUS
    <3>1. guards \in [Callers -> [Files -> Nat]]
      BY <1>12 DEF RestOK
    <3>2. Held(d, f) <= Holders(f) /\ Held(d, f) \in Nat
      BY <3>1, HeldType, HoldersBound
    <3> QED BY <2>2, <3>2
  <2>4. Due(f)' \subseteq {c} /\ c \in Due(f)'
    <3>1. Due(f)' \subseteq {c}
      BY <1>9, <1>11, <2>1, StaysAlone
    <3>2. c \in Due(f)'
      BY <1>7, <1>9 DEF Due, InPhase
    <3> QED BY <3>1, <3>2
  <2>5. DueOK(c, f)'
    <3>1. Announces(c)' = "didOpen"
      BY <1>7, <1>9 DEF Announces
    <3>2. guards'[c][f] = 0 /\ \A d \in Callers \ {c} : Held(d, f)' = 0
      BY <1>1, <1>15, <1>16, <2>3
    <3> QED BY <1>6, <1>7, <1>8, <1>9, <1>10, <1>11, <3>1, <3>2 DEF DueOK, InPhase
  <2> QED BY <1>8, <1>16, <2>2, <2>4, <2>5, OneDue
<1>18. FileOK(f)'
  <2>1. disk[f].stamp > 0 /\ new.refs <= Holders(f)'
    BY <1>8, <1>16 DEF DocInv, FileOK
  <2> QED BY <1>1, <1>8, <1>10, <1>17, <2>1 DEF FileOK
<1>19. \A g \in Files \ {f} : ~InPhase(c, g, Active) /\ ~InPhase(c, g, Active)'
  BY <1>0, <1>2, <1>7, <1>9 DEF InPhase
<1>20. ASSUME NEW g \in gone PROVE FileOK(g)'
  <2>1. g \in Files /\ g # f /\ buffers[g].refs = 0 /\ buffers'[g] = NoBuffer /\ NoBuffer.refs = 0
    BY <1>6, <1>10 DEF NoBuffer
  <2>2. \A d \in Callers : Held(d, g)' = Held(d, g)
    <3>1. \A d \in Callers \ {c} : Held(d, g)' = Held(d, g)
      BY <1>1, <1>9 DEF Held, InPhase
    <3>2. Held(c, g)' = Held(c, g)
      BY <1>1, <1>19, <2>1 DEF Held, InPhase, Active
    <3> QED BY <3>1, <3>2
  <2>3. Holders(g)' = Holders(g) /\ Holders(g) \in Nat
    BY <1>12, <2>1, <2>2, HoldersSame, HoldersType DEF RestOK
  <2>4. ASSUME g \notin crossed' PROVE Holders(g)' = 0 /\ EntryOK(g)'
    <3>1. g \notin crossed /\ \A d \in Callers \ {c} : d \notin Due(g)
      BY <1>5, <2>4 DEF Due
    <3>2. Due(g)' \subseteq {c}
      BY <1>9, <1>11, <2>1, <3>1, StaysAlone
    <3>3. DueOK(c, g)'
      BY <1>7, <1>9, <2>1 DEF DueOK, InPhase
    <3>4. Holders(g) = 0
      BY <2>1, <3>1 DEF DocInv, FileOK
    <3> QED BY <2>1, <2>3, <3>2, <3>3, <3>4, OneDue
  <2> QED BY <1>1, <2>1, <2>3, <2>4 DEF DocInv, FileOK
<1> DEFINE F == {f} \cup gone
<1>21. F \in SUBSET Files /\ \A g \in F : FileOK(g)'
  BY <1>6, <1>18, <1>20
<1>22. /\ \A g \in Files \ F : /\ buffers'[g] = buffers[g] /\ view'[g] = view[g]
                               /\ guards'[c][g] = guards[c][g] /\ (g \in closing'[c] <=> g \in closing[c])
       /\ \A g \in Files \ F : ~InPhase(c, g, Active) /\ ~InPhase(c, g, Active)'
  BY <1>1, <1>3, <1>10, <1>11, <1>19
<1>23. /\ \A d \in Callers \ {c} : opening'[d] = opening[d] /\ closing'[d] = closing[d] /\ guards'[d] = guards[d]
       /\ \A g \in Files : disk'[g].stamp >= disk[g].stamp
  BY <1>1, <1>9, <1>11, <1>12 DEF RestOK
<1> HIDE DEF F
<1> QED BY <1>9, <1>11, <1>12, <1>13, <1>14, <1>21, <1>22, <1>23, SomeFiles

LEMMA CloseNextKeeps ==
  ASSUME DocInv, NEW c \in Callers, CloseNext(c)
  PROVE  DocInv'
<1>1. /\ opening[c].phase \in {"ok", "err", "close"}
      /\ UNCHANGED <<disk, buffers, released, over>>
      /\ IF opening[c].phase = "close" /\ closing'[c] = {} THEN Opened(c) ELSE UNCHANGED <<opening, guards>>
  BY DEF CloseNext
<1>2. PICK f \in closing[c] :
        /\ closing' = [closing EXCEPT ![c] = @ \ {f}]
        /\ \/ Taken /\ view' = [view EXCEPT ![f] = Unseen]
           \/ Refused /\ UNCHANGED view
        /\ Cross(c, f)
  BY DEF CloseNext
<1>3. f \in Files /\ RestOK
  BY DEF DocInv, RestOK
<1>4. troubles' \in 0..MaxTroubles
  BY <1>2, DocSyncAssumption DEF Taken, Refused, Trouble, DocInv, RestOK
<1>5. /\ closing' \in [Callers -> SUBSET Files] /\ closing'[c] = closing[c] \ {f}
      /\ \A d \in Callers \ {c} : closing'[d] = closing[d]
  BY <1>2, <1>3 DEF RestOK
<1>6. /\ view' \in [Files -> [open : BOOLEAN, text : Nat, version : Nat]]
      /\ \A g \in Files \ {f} : view'[g] = view[g]
  <2>1. view \in [Files -> [open : BOOLEAN, text : Nat, version : Nat]]
    BY <1>3 DEF RestOK
  <2>2. Unseen \in [open : BOOLEAN, text : Nat, version : Nat]
    BY DEF Unseen
  <2>3. view' = [view EXCEPT ![f] = Unseen] \/ view' = view
    BY <1>2
  <2> QED BY <1>3, <2>1, <2>2, <2>3
<1>7. /\ PhasesOK' /\ \A d \in Callers \ {c} : opening'[d] = opening[d] /\ guards'[d] = guards[d]
      /\ guards' \in [Callers -> [Files -> Nat]]
      /\ \A d \in Callers, g \in Files : Held(d, g)' = Held(d, g)
      /\ \A g \in Files : /\ ~InPhase(c, g, {"send", "rollback", "settle"})
                          /\ ~InPhase(c, g, {"send", "rollback", "settle"})'
      /\ (opening'[c] = opening[c] /\ guards' = guards) \/ opening'[c].phase = "ok"
  <2>0. \A g \in Files : ~InPhase(c, g, {"send", "rollback", "settle"})
    BY <1>1 DEF InPhase
  <2>1. CASE opening[c].phase = "close" /\ closing'[c] = {}
    <3>1. PICK h \in Files : opening[c].file = h
      BY <2>1, Looking DEF Phases
    <3> QED BY <1>1, <2>0, <2>1, <3>1, OpenedIs DEF Active
  <2>2. CASE ~(opening[c].phase = "close" /\ closing'[c] = {})
    BY <1>1, <1>3, <2>0, <2>2 DEF DocInv, PhasesOK, RestOK, InPhase, Held
  <2> QED BY <2>1, <2>2
<1>8. RestOK' /\ crossed \subseteq crossed'
  BY <1>1, <1>2, <1>3, <1>4, <1>5, <1>6, <1>7 DEF RestOK, Cross
<1>9. ReleasedOK'
  BY <1>1 DEF DocInv, ReleasedOK
<1>10. \A g \in Files : disk'[g].stamp >= disk[g].stamp
  BY <1>1 DEF DocInv, RestOK
<1>11. OpenOK(c)'
  <2>1. CASE opening'[c].phase = "ok"
    BY <2>1 DEF OpenOK, Phases
  <2>2. CASE opening'[c] = opening[c] /\ opening[c].phase = "close"
    <3>1. closing[c] = {} => closing'[c] = {}
      BY <1>5
    <3> QED BY <1>1, <1>5, <2>2, <3>1 DEF DocInv, OpenOK
  <2>3. CASE opening'[c] = opening[c] /\ opening[c].phase \in {"ok", "err"}
    BY <2>3 DEF OpenOK, Phases
  <2> QED BY <1>1, <1>7, <2>1, <2>2, <2>3
<1>12. Holders(f)' = Holders(f)
  BY <1>3, <1>7, HoldersSame
<1>13. ASSUME f \notin crossed' PROVE EntryOK(f)'
  <2>1. f \notin crossed /\ \A d \in Callers \ {c} : d \notin Due(f)
    BY <1>2, <1>3, <1>13, Alone
  <2>2. Due(f)' \subseteq {c}
    BY <1>3, <1>5, <1>7, <2>1, StaysAlone
  <2>3. buffers'[f] = NoBuffer
    BY <1>1, <1>3, <2>1 DEF DocInv, FileOK, EntryOK, DueOK
  <2>4. DueOK(c, f)'
    BY <1>3, <1>5, <1>7 DEF DueOK, InPhase
  <2> QED BY <1>3, <2>2, <2>3, <2>4, OneDue
<1>14. FileOK(f)'
  BY <1>1, <1>3, <1>8, <1>12, <1>13 DEF DocInv, FileOK
<1>15. ASSUME NEW g \in Files, g # f PROVE FileOK(g)'
  <2>1. \A d \in Callers : g \in closing'[d] <=> g \in closing[d]
    BY <1>5, <1>15
  <2>2. ASSUME NEW d \in Callers
        PROVE  \/ opening'[d] = opening[d]
               \/ /\ ~InPhase(d, g, {"send", "rollback", "settle"})
                  /\ ~InPhase(d, g, {"send", "rollback", "settle"})'
    <3>1. CASE d = c
      BY <1>7, <3>1
    <3>2. CASE d # c
      BY <1>7, <3>2
    <3> QED BY <3>1, <3>2
  <2>3. FileOK(g) /\ view'[g] = view[g] /\ buffers'[g] = buffers[g]
    BY <1>1, <1>6, <1>15 DEF DocInv
  <2> QED BY <1>3, <1>7, <1>8, <1>10, <2>1, <2>2, <2>3, Untouched
<1>16. ASSUME NEW d \in Callers PROVE OpenOK(d)'
  <2>1. CASE d = c
    BY <1>11, <2>1
  <2>2. CASE d # c
    <3>1. \A g \in Files : disk[g].stamp \in Nat /\ disk'[g].stamp \in Nat /\ disk'[g].stamp >= disk[g].stamp
      BY <1>3, <1>8, <1>10 DEF RestOK
    <3> QED BY <1>5, <1>7, <2>2, <3>1, OpenApart DEF DocInv
  <2> QED BY <2>1, <2>2
<1> QED BY <1>7, <1>8, <1>9, <1>14, <1>15, <1>16 DEF DocInv

-----------------------------------------------------------------------------
(* The rest of the table's operations.                                     *)

LEMMA DropGuardsKeeps ==
  ASSUME DocInv, NEW c \in Callers, NEW f \in Files, NEW k \in Nat, 0 < k, k <= guards[c][f],
         Ready(c), DropGuards(c, f, k), UNCHANGED <<disk, view, opening, closing, over, crossed, troubles>>
  PROVE  DocInv'
<1> DEFINE b == buffers[f]
           new == [b EXCEPT !.refs = Less(f, k)]
<1>1. /\ RestOK /\ b \in Buffers /\ b.refs \in Nat /\ (b # NoBuffer => b.version > 0)
      /\ guards[c][f] \in Nat
  BY DEF DocInv, RestOK, FileOK, Buffers
<1>2. Less(f, k) = (IF b.refs > k THEN b.refs - k ELSE 0) /\ Less(f, k) \in Nat
  BY <1>1 DEF Less
<1>3. new \in Buffers /\ new.stamp = b.stamp /\ new.version = b.version /\ new.resync = b.resync
      /\ new.refs = Less(f, k)
  BY <1>1, <1>2 DEF Buffers
<1>4. NoBuffer.refs = 0 /\ NoBuffer.version = 0
  BY DEF NoBuffer
<1>5. /\ guards' = [guards EXCEPT ![c][f] = @ - k]
      /\ IF b # NoBuffer THEN /\ buffers' = [buffers EXCEPT ![f] = new]
                              /\ released' = Released(f, Less(f, k))
         ELSE UNCHANGED <<buffers, released>>
  BY DEF DropGuards, Buffered
<1>0. buffers[f] = b
  OBVIOUS
<1> HIDE DEF b, new
<1>6. /\ guards' \in [Callers -> [Files -> Nat]] /\ guards'[c][f] = guards[c][f] - k
      /\ \A g \in Files \ {f} : guards'[c][g] = guards[c][g]
      /\ \A d \in Callers \ {c} : guards'[d] = guards[d]
  <2>1. guards[c][f] - k \in Nat
    BY <1>1
  <2> QED BY <1>1, <1>5, <2>1 DEF RestOK
<1>7. /\ buffers' \in [Files -> Buffers] /\ \A g \in Files \ {f} : buffers'[g] = buffers[g]
      /\ buffers'[f].version = b.version /\ buffers'[f].stamp = b.stamp /\ buffers'[f].resync = b.resync
      /\ (buffers'[f] = NoBuffer <=> b = NoBuffer)
      /\ buffers'[f].refs = Less(f, k)
  <2>1. CASE b # NoBuffer
    BY <1>1, <1>3, <1>4, <1>5, <2>1 DEF RestOK
  <2>2. CASE b = NoBuffer
    BY <1>0, <1>1, <1>2, <1>4, <1>5, <2>2 DEF RestOK
  <2> QED BY <2>1, <2>2
<1>8. RestOK'
  BY <1>1, <1>6, <1>7 DEF RestOK
<1>9. ReleasedOK'
  <2>1. /\ released \in Seq(Files) /\ IsInjective(released)
        /\ \A g \in Files : g \in ToSet(released) <=> buffers[g] # NoBuffer /\ buffers[g].refs = 0
    BY DEF DocInv, ReleasedOK
  <2>2. CASE b = NoBuffer
    BY <1>5, <2>1, <2>2 DEF ReleasedOK
  <2>3. CASE b # NoBuffer /\ Less(f, k) = 0
    <3>1. released' = Append(Without(released, f), f)
      BY <1>5, <2>3 DEF Released
    <3>2. /\ released' \in Seq(Files) /\ IsInjective(released')
          /\ ToSet(released') = ToSet(released) \cup {f}
      BY <2>1, <3>1, ReleasedIs
    <3> QED BY <1>7, <2>1, <2>3, <3>2 DEF ReleasedOK
  <2>4. CASE b # NoBuffer /\ Less(f, k) # 0
    <3>1. released' = released
      BY <1>5, <2>4 DEF Released
    <3>2. b.refs # 0
      BY <1>1, <1>2, <2>4
    <3> QED BY <1>0, <1>7, <2>1, <2>4, <3>1, <3>2 DEF ReleasedOK
  <2> QED BY <2>2, <2>3, <2>4
<1>10. opening[c].phase \in {"ok", "err"} /\ closing[c] = {}
  BY DEF Ready
<1>11. Held(c, f) = guards[c][f] /\ Held(c, f) = Held(c, f)' + k
  <2>1. Held(c, f) = guards[c][f] + 0
    BY <1>10 DEF Held, InPhase
  <2>2. Held(c, f)' = guards'[c][f] + 0
    BY <1>10 DEF Held, InPhase
  <2> QED BY <1>1, <1>6, <2>1, <2>2
<1>12. /\ Holders(f) = Holders(f)' + k /\ Holders(f)' \in Nat
       /\ \A d \in Callers \ {c} : Held(d, f)' = Held(d, f)
  <2>1. Holders(f)' \in Nat
    BY <1>8, HoldersTypeNext
  <2> QED BY <1>1, <1>6, <1>8, <1>11, <2>1, CountMoves
<1>13. Due(f)' = Due(f)
  BY DEF Due, InPhase
<1>14. ASSUME f \notin crossed' PROVE buffers'[f].refs = Holders(f)' /\ EntryOK(f)'
  <2>1. f \notin crossed /\ b.refs = Holders(f) /\ EntryOK(f)
    BY <1>0, <1>14 DEF DocInv, FileOK
  <2>2. Less(f, k) = Holders(f)'
    BY <1>2, <1>12, <2>1
  <2>3. ASSUME NEW d \in Callers PROVE DueOK(d, f)'
    <3>1. DueOK(d, f) /\ Announces(d)' = Announces(d)
      BY <2>1 DEF EntryOK, Announces
    <3>2. CASE d = c
      BY <1>10, <3>2 DEF DueOK, InPhase
    <3>3. CASE d # c
      <4>1. ~(InPhase(d, f, {"send", "rollback"}) /\ Announces(d) = "didOpen")
        <5>1. Held(c, f) # 0
          BY <1>1, <1>11
        <5> QED BY <3>1, <3>3, <5>1 DEF DueOK
      <4> QED BY <1>0, <1>7, <3>1, <4>1 DEF DueOK, InPhase
    <3> QED BY <3>2, <3>3
  <2> QED BY <1>0, <1>7, <1>13, <2>1, <2>2, <2>3 DEF EntryOK
<1>15. FileOK(f)'
  <2>1. b.refs <= Holders(f) /\ disk[f].stamp > 0
    BY <1>0 DEF DocInv, FileOK
  <2>2. Less(f, k) <= Holders(f)'
    BY <1>1, <1>2, <1>12, <2>1
  <2> QED BY <1>1, <1>7, <1>14, <2>1, <2>2 DEF FileOK
<1>16. PhasesOK' /\ OpenOK(c)'
  BY DEF DocInv, PhasesOK, OpenOK
<1>17. \A g \in Files : disk'[g].stamp >= disk[g].stamp
  BY <1>1 DEF RestOK
<1> QED BY <1>6, <1>7, <1>8, <1>9, <1>15, <1>16, <1>17, OneFile

LEMMA TakeOutKeeps ==
  ASSUME DocInv, NEW c \in Callers, NEW gone, NEW rest, gone \subseteq Buffered, Ready(c),
         rest \in Seq(Files), IsInjective(rest), ToSet(rest) = ToSet(released) \ gone,
         TakeOut(c, gone, rest), troubles' \in 0..MaxTroubles, UNCHANGED <<disk, view, opening, guards, over>>
  PROVE  DocInv'
<1>1. RestOK /\ opening[c].phase \in {"ok", "err"} /\ closing[c] = {} /\ gone \subseteq Files
  BY DEF DocInv, Ready, Buffered
<1>2. /\ buffers' = [g \in Files |-> IF g \in gone THEN NoBuffer ELSE buffers[g]]
      /\ released' = rest /\ closing' = [closing EXCEPT ![c] = gone]
      /\ crossed' = crossed \cup {g \in gone : Due(g) \ {c} # {} \/ Holders(g) > 0}
  BY DEF TakeOut
<1>3. /\ buffers' \in [Files -> Buffers] /\ \A g \in gone : buffers'[g] = NoBuffer
      /\ \A g \in Files \ gone : buffers'[g] = buffers[g]
  <2>1. buffers \in [Files -> Buffers] /\ NoBuffer \in Buffers
    BY <1>1 DEF RestOK, NoBuffer, Buffers
  <2> QED BY <1>1, <1>2, <2>1
<1>4. /\ closing' \in [Callers -> SUBSET Files] /\ closing'[c] = gone
      /\ \A d \in Callers \ {c} : closing'[d] = closing[d]
      /\ crossed \subseteq crossed' /\ crossed' \subseteq Files
  BY <1>1, <1>2 DEF RestOK
<1>5. RestOK' /\ PhasesOK' /\ OpenOK(c)'
  BY <1>1, <1>3, <1>4 DEF DocInv, RestOK, PhasesOK, OpenOK, Phases
<1>6. ReleasedOK'
  BY <1>1, <1>2, <1>3 DEF DocInv, ReleasedOK
<1>7. ASSUME NEW g \in gone PROVE FileOK(g)'
  <2>1. g \in Files /\ buffers'[g] = NoBuffer /\ NoBuffer.refs = 0
    BY <1>1, <1>3 DEF NoBuffer
  <2>2. Holders(g)' = Holders(g) /\ Holders(g) \in Nat
    <3>1. \A d \in Callers : Held(d, g)' = Held(d, g)
      BY DEF Held, InPhase
    <3> QED BY <1>1, <2>1, <3>1, HoldersSame, HoldersType DEF RestOK
  <2>3. ASSUME g \notin crossed' PROVE Holders(g)' = 0 /\ EntryOK(g)'
    <3>1. Holders(g) = 0 /\ \A d \in Callers \ {c} : d \notin Due(g)
      BY <1>2, <2>2, <2>3 DEF Due
    <3>2. Due(g)' \subseteq {c}
      BY <1>4, <2>1, <3>1, StaysAlone
    <3>3. DueOK(c, g)'
      BY <1>1, <2>1 DEF DueOK, InPhase
    <3> QED BY <2>1, <2>2, <3>1, <3>2, <3>3, OneDue
  <2> QED BY <1>1, <2>1, <2>2, <2>3 DEF DocInv, FileOK
<1>8. /\ \A g \in Files \ gone : /\ buffers'[g] = buffers[g] /\ view'[g] = view[g]
                                 /\ guards'[c][g] = guards[c][g] /\ (g \in closing'[c] <=> g \in closing[c])
      /\ \A g \in Files : disk'[g].stamp >= disk[g].stamp
      /\ \A d \in Callers \ {c} : opening'[d] = opening[d] /\ closing'[d] = closing[d] /\ guards'[d] = guards[d]
  BY <1>1, <1>3, <1>4 DEF RestOK
<1> QED BY <1>1, <1>4, <1>5, <1>6, <1>7, <1>8, SomeFiles

\* Nothing happens to the table, and stamps only grow.
LEMMA OutsideKeeps ==
  ASSUME DocInv, disk' \in [Files -> [there : BOOLEAN, stamp : Nat]],
         \A f \in Files : disk'[f].stamp >= disk[f].stamp,
         over' \in BOOLEAN, troubles' \in 0..MaxTroubles, crossed \subseteq crossed', crossed' \subseteq Files,
         UNCHANGED <<buffers, released, view, opening, guards, closing>>
  PROVE  DocInv'
<1>1. RestOK /\ RestOK' /\ ReleasedOK' /\ PhasesOK'
  BY DEF DocInv, RestOK, ReleasedOK, PhasesOK
<1>2. ASSUME NEW d \in Callers PROVE OpenOK(d)'
  BY <1>1, OpenApart DEF DocInv, RestOK
<1>3. ASSUME NEW g \in Files PROVE FileOK(g)'
  BY <1>1, Apart DEF DocInv
<1> QED BY <1>1, <1>2, <1>3 DEF DocInv

-----------------------------------------------------------------------------
(* The order of the steps of a call.                                       *)

StepNames == {"gate", "open", "ask", "load", "write", "readback", "drop", "look", "tidy", "keep", "create",
              "restore", "ungate", "sync", "reclaim", "evict", "kill", "pick", "forget"}

\* The steps that are only made under the gate.
Gated == {"load", "write", "readback", "pick", "ungate", "create", "restore"}

\* They come after the gate is taken, none of them comes after it is given back; and a guard is
\* dropped once, after it has been taken.
GateFirst(s) == \A i \in DOMAIN s : s[i] \in Gated => \E k \in DOMAIN s : k < i /\ s[k] = "gate"
OpenFirst(s) == \A i \in DOMAIN s : s[i] = "drop" => \E k \in DOMAIN s : k < i /\ s[k] = "open"
Orderly(s) ==
    \A i, k \in DOMAIN s : i < k =>
        /\ s[i] = "ungate" => s[k] \notin Gated
        /\ s[i] = "drop" => s[k] # "drop"

LEMMA NothingLeft == <<>> \in Seq(StepNames) /\ GateFirst(<<>>) /\ OpenFirst(<<>>) /\ Orderly(<<>>)
BY DEF GateFirst, OpenFirst, Orderly

\* What is left after the next step.
LEMMA RestIs ==
  ASSUME NEW s \in Seq(StepNames), s # <<>>
  PROVE  /\ Tail(s) \in Seq(StepNames) /\ Head(s) \in StepNames
         /\ Orderly(s) => /\ Orderly(Tail(s))
                          /\ Head(s) = "ungate" => GateFirst(Tail(s))
                          /\ Head(s) = "drop" => OpenFirst(Tail(s))
         /\ GateFirst(s) => Head(s) \notin Gated /\ (Head(s) # "gate" => GateFirst(Tail(s)))
         /\ OpenFirst(s) => Head(s) # "drop" /\ (Head(s) # "open" => OpenFirst(Tail(s)))
<1> DEFINE q == Tail(s)
<1>1. /\ q \in Seq(StepNames) /\ Head(s) \in StepNames /\ 1 \in DOMAIN s /\ s[1] = Head(s)
      /\ \A l \in DOMAIN q : l \in Nat \ {0} /\ l + 1 \in DOMAIN s /\ q[l] = s[l + 1]
  BY TailIs
<1>2. \A l \in DOMAIN s : l \in Nat \ {0} /\ (l # 1 => l - 1 \in DOMAIN q)
  OBVIOUS
<1>3. \A i, k \in DOMAIN q : i < k => i + 1 < k + 1
  BY <1>1
<1> HIDE DEF q
<1>4. Orderly(s) => Orderly(q)
  BY <1>1, <1>3 DEF Orderly
<1>5. \A l \in DOMAIN q : 1 < l + 1
  BY <1>1
<1>6. ASSUME Orderly(s), Head(s) = "ungate" PROVE GateFirst(q)
  BY <1>1, <1>5, <1>6 DEF Orderly, GateFirst
<1>7. ASSUME Orderly(s), Head(s) = "drop" PROVE OpenFirst(q)
  BY <1>1, <1>5, <1>7 DEF Orderly, OpenFirst
<1>8. \A k \in DOMAIN s : ~(k < 1)
  BY <1>2
<1>9. ASSUME GateFirst(s) PROVE Head(s) \notin Gated /\ (Head(s) # "gate" => GateFirst(q))
  <2>1. Head(s) \notin Gated
    BY <1>1, <1>8, <1>9 DEF GateFirst
  <2>2. ASSUME Head(s) # "gate", NEW i \in DOMAIN q, q[i] \in Gated
        PROVE  \E k \in DOMAIN q : k < i /\ q[k] = "gate"
    <3>1. PICK k \in DOMAIN s : k < i + 1 /\ s[k] = "gate"
      BY <1>1, <1>9, <2>2 DEF GateFirst
    <3>2. k # 1
      BY <1>1, <2>2, <3>1
    <3>3. k - 1 \in DOMAIN q /\ k \in Nat /\ i \in Nat
      BY <1>1, <1>2, <3>2
    <3>4. k - 1 < i /\ (k - 1) + 1 = k
      BY <3>1, <3>3
    <3>5. q[k - 1] = s[k]
      BY <1>1, <3>3, <3>4
    <3> QED BY <3>1, <3>3, <3>4, <3>5
  <2> QED BY <2>1, <2>2 DEF GateFirst
<1>10. ASSUME OpenFirst(s) PROVE Head(s) # "drop" /\ (Head(s) # "open" => OpenFirst(q))
  <2>1. Head(s) # "drop"
    BY <1>1, <1>8, <1>10 DEF OpenFirst
  <2>2. ASSUME Head(s) # "open", NEW i \in DOMAIN q, q[i] = "drop"
        PROVE  \E k \in DOMAIN q : k < i /\ q[k] = "open"
    <3>1. PICK k \in DOMAIN s : k < i + 1 /\ s[k] = "open"
      BY <1>1, <1>10, <2>2 DEF OpenFirst
    <3>2. k # 1
      BY <1>1, <2>2, <3>1
    <3>3. k - 1 \in DOMAIN q /\ k \in Nat /\ i \in Nat
      BY <1>1, <1>2, <3>2
    <3>4. k - 1 < i /\ (k - 1) + 1 = k
      BY <3>1, <3>3
    <3>5. q[k - 1] = s[k]
      BY <1>1, <3>3, <3>4
    <3> QED BY <3>1, <3>3, <3>4, <3>5
  <2> QED BY <2>1, <2>2 DEF OpenFirst
<1> QED BY <1>1, <1>4, <1>6, <1>7, <1>9, <1>10 DEF q

\* The plans are in this order.
LEMMA PlansAreOrderly ==
  ASSUME NEW t \in DOMAIN Plan
  PROVE  Plan[t] \in Seq(StepNames) /\ GateFirst(Plan[t]) /\ OpenFirst(Plan[t]) /\ Orderly(Plan[t])
<1> DEFINE OK(s) == s \in Seq(StepNames) /\ GateFirst(s) /\ OpenFirst(s) /\ Orderly(s)
<1>1. OK(ReadPlan) /\ OK(OutlinePlan)
  BY DEF ReadPlan, OutlinePlan, StepNames, GateFirst, OpenFirst, Orderly, Gated
<1>2. OK(EditPlan) /\ OK(LinePlan)
  BY DEF EditPlan, LinePlan, StepNames, GateFirst, OpenFirst, Orderly, Gated
<1>3. OK(ReplacePlan)
  BY DEF ReplacePlan, StepNames, GateFirst, OpenFirst, Orderly, Gated
<1>4. OK(DeletePlan)
  BY DEF DeletePlan, StepNames, GateFirst, OpenFirst, Orderly, Gated
<1>5. OK(RenamePlan) /\ OK(CreatePlan)
  BY DEF RenamePlan, CreatePlan, StepNames, GateFirst, OpenFirst, Orderly, Gated
<1>6. OK(FormatPlan)
  BY DEF FormatPlan, StepNames, GateFirst, OpenFirst, Orderly, Gated
<1>7. OK(UndoPlan) /\ OK(<<"reclaim">>) /\ OK(<<"evict", "kill">>)
  BY DEF UndoPlan, StepNames, GateFirst, OpenFirst, Orderly, Gated
<1> HIDE DEF OK
<1>8. OK(Plan[t])
  BY <1>1, <1>2, <1>3, <1>4, <1>5, <1>6, <1>7 DEF Plan
<1> QED BY <1>8 DEF OK

\* What rename-symbol does with a file, under the gate.
LEMMA RenameFileIsOrderly ==
  /\ RenameFilePlan \in Seq(StepNames) /\ OpenFirst(RenameFilePlan) /\ Orderly(RenameFilePlan)
  /\ <<"pick">> \in Seq(StepNames) /\ OpenFirst(<<"pick">>) /\ Orderly(<<"pick">>)
  /\ <<"open">> \in Seq(StepNames) /\ OpenFirst(<<"open">>) /\ Orderly(<<"open">>) /\ GateFirst(<<"open">>)
  /\ <<"forget">> \in Seq(StepNames) /\ OpenFirst(<<"forget">>) /\ Orderly(<<"forget">>)
  /\ GateFirst(<<"forget">>)
BY DEF RenameFilePlan, StepNames, GateFirst, OpenFirst, Orderly, Gated

-----------------------------------------------------------------------------
(* The invariant.                                                          *)

Typed ==
    /\ gate \in Callers \cup {None}
    /\ tool \in [Callers -> DOMAIN Plan \cup {None}]
    /\ steps \in [Callers -> Seq(StepNames)]
    /\ file \in [Callers -> Files \cup {None}]
    /\ base \in [Callers -> [Files -> Nat]]
    /\ text \in [Callers -> Nat]

CacheOK ==
    /\ cache \subseteq [file : Files, key : Nat, text : Nat]
    /\ IsFiniteSet(cache) /\ Cardinality(cache) <= CacheMax

\* A call: it has the gate, or will take it, before the steps that need it, and a guard before it
\* drops one; its ensure_open is about its file; and it leaves nothing behind.
Guarded(c) == file[c] \in Files /\ guards[c][file[c]] > 0
Opening(c) == opening[c].phase \in Phases
OnlyForgets(s) == \A i \in DOMAIN s : s[i] = "forget"

CallOK(c) ==
    /\ tool[c] \in Tools(c) \cup {None}
    /\ Orderly(steps[c])
    /\ gate = c \/ GateFirst(steps[c])
    /\ Guarded(c) \/ Opening(c) \/ OpenFirst(steps[c])
    /\ OnlyForgets(steps[c]) \/ file[c] \in Files
    /\ Opening(c) => ~Idle(c) /\ opening[c].file = file[c] /\ file[c] \in Files
    /\ Idle(c) => gate # c /\ guards[c] = NoText /\ steps[c] = <<>> /\ Ready(c)

IInv == DocInv /\ Typed /\ CacheOK /\ \A c \in Callers : CallOK(c)

LEMMA Initially ==
  ASSUME Init
  PROVE  IInv
<1>1. DocInit /\ gate = None
  BY DEF Init
<1>2. RestOK
  <2>1. NoBuffer \in Buffers /\ Unseen \in [open : BOOLEAN, text : Nat, version : Nat]
    BY DEF NoBuffer, Buffers, Unseen
  <2>2. /\ disk \in [Files -> [there : BOOLEAN, stamp : Nat]] /\ buffers \in [Files -> Buffers]
        /\ view \in [Files -> [open : BOOLEAN, text : Nat, version : Nat]]
    BY <1>1, <2>1 DEF DocInit
  <2>3. guards \in [Callers -> [Files -> Nat]] /\ closing \in [Callers -> SUBSET Files]
    BY <1>1 DEF DocInit
  <2>4. over \in BOOLEAN /\ crossed \subseteq Files
    BY <1>1 DEF DocInit
  <2>5. troubles \in 0..MaxTroubles
    BY <1>1, DocSyncAssumption DEF DocInit
  <2> QED BY <2>2, <2>3, <2>4, <2>5 DEF RestOK
<1>3. ReleasedOK
  BY <1>1 DEF DocInit, ReleasedOK, ToSet, IsInjective
<1>4. /\ opening \in [Callers -> Openings]
      /\ \A c \in Callers : opening[c].phase = "ok" /\ opening[c] = Ended("ok") /\ opening[c].file = None
  BY <1>1, EndedIs DEF DocInit
<1>5. PhasesOK
  BY <1>4 DEF PhasesOK, Phases
<1>6. \A c \in Callers : OpenOK(c)
  BY <1>4 DEF OpenOK, Phases
<1>7. ASSUME NEW f \in Files PROVE FileOK(f)
  <2>1. /\ buffers[f] = NoBuffer /\ disk[f].stamp = 1 /\ NoBuffer.refs = 0
        /\ \A c \in Callers : guards[c][f] = 0 /\ closing[c] = {}
    BY <1>1 DEF DocInit, NoBuffer
  <2>2. Due(f) = {}
    BY <1>4, <2>1 DEF Due, InPhase
  <2>3. Holders(f) = 0
    <3>1. \A c \in Callers : Held(c, f) = 0
      <4> SUFFICES ASSUME NEW c \in Callers PROVE Held(c, f) = 0
        OBVIOUS
      <4>1. ~InPhase(c, f, {"send", "rollback", "settle", "close"})
        BY <1>4 DEF InPhase
      <4> QED BY <2>1, <4>1 DEF Held
    <3>2. \A c \in Callers : {c} \X (1..Held(c, f)) = {}
      BY <3>1
    <3>3. UNION {{c} \X (1..Held(c, f)) : c \in Callers} = {}
      BY <3>2
    <3> QED BY <3>3, FS_EmptySet DEF Holders
  <2>4. \A c \in Callers : DueOK(c, f)
    BY <1>4, <2>1 DEF DueOK, InPhase
  <2> QED BY <2>1, <2>2, <2>3, <2>4 DEF FileOK, EntryOK
<1>8. DocInv
  BY <1>2, <1>3, <1>5, <1>6, <1>7 DEF DocInv
<1>9. Typed
  BY NothingLeft DEF Init, Typed, NoText
<1>10. CacheOK
  BY FS_EmptySet, WritePathAssumption DEF Init, CacheOK
<1>11. ASSUME NEW c \in Callers PROVE CallOK(c)
  <2>1. steps[c] = <<>> /\ tool[c] = None /\ file[c] = None /\ closing[c] = {} /\ guards[c] = NoText
    BY <1>1 DEF Init, DocInit, NoText
  <2>2. gate # c
    BY <1>1, DocSyncAssumption
  <2>3. OnlyForgets(<<>>)
    BY DEF OnlyForgets
  <2> QED BY <1>4, <2>1, <2>2, <2>3, NothingLeft DEF CallOK, Opening, Phases, Ready
<1> QED BY <1>8, <1>9, <1>10, <1>11 DEF IInv

\* A call is at a step.
LEMMA AtStep ==
  ASSUME IInv, NEW c \in Callers, NEW s, At(c, s)
  PROVE  /\ steps[c] \in Seq(StepNames) /\ steps[c] # <<>> /\ Head(steps[c]) = s
         /\ ~Idle(c) /\ Ready(c) /\ ~Opening(c) /\ closing[c] = {}
         /\ s # "forget" => file[c] \in Files
         /\ s \in Gated => gate = c
         /\ s = "drop" => file[c] \in Files /\ guards[c][file[c]] > 0
<1>1. /\ CallOK(c) /\ steps[c] \in Seq(StepNames) /\ steps[c] # <<>> /\ Head(steps[c]) = s /\ Ready(c)
  BY DEF IInv, Typed, At
<1>2. ~Idle(c) /\ ~Opening(c) /\ closing[c] = {}
  BY <1>1 DEF CallOK, Ready, Opening, Phases
<1>3. 1 \in DOMAIN steps[c] /\ steps[c][1] = s
  BY <1>1, TailIs
<1>4. s # "forget" => file[c] \in Files
  BY <1>1, <1>3 DEF CallOK, OnlyForgets
<1>5. s \in Gated => gate = c
  BY <1>1, RestIs DEF CallOK
<1>6. s = "drop" => Guarded(c)
  BY <1>1, <1>2, RestIs DEF CallOK
<1> QED BY <1>1, <1>2, <1>4, <1>5, <1>6 DEF Guarded

\* What may be left of its steps then.
LEMMA LeftOver ==
  ASSUME IInv, NEW c \in Callers, NEW s, At(c, s), NEW r, r = Tail(steps[c]) \/ r = <<>>
  PROVE  /\ r \in Seq(StepNames) /\ Orderly(r)
         /\ s # "gate" => gate = c \/ GateFirst(r)
         /\ s # "open" => Guarded(c) \/ OpenFirst(r)
         /\ s = "ungate" => GateFirst(r)
         /\ s = "drop" => OpenFirst(r)
         /\ OnlyForgets(r) \/ file[c] \in Files
<1>1. CallOK(c) /\ steps[c] \in Seq(StepNames) /\ steps[c] # <<>> /\ Head(steps[c]) = s /\ ~Opening(c)
  BY AtStep DEF IInv
<1>2. CASE r = <<>>
  BY <1>2, NothingLeft DEF OnlyForgets
<1>3. CASE r = Tail(steps[c])
  <2>1. /\ r \in Seq(StepNames) /\ Orderly(r)
        /\ s = "ungate" => GateFirst(r)
        /\ s = "drop" => OpenFirst(r)
    BY <1>1, <1>3, RestIs DEF CallOK
  <2>2. s # "gate" => gate = c \/ GateFirst(r)
    BY <1>1, <1>3, RestIs DEF CallOK
  <2>3. s # "open" => Guarded(c) \/ OpenFirst(r)
    BY <1>1, <1>3, RestIs DEF CallOK
  <2>4. OnlyForgets(steps[c]) => OnlyForgets(r)
    <3>1. \A l \in DOMAIN r : l + 1 \in DOMAIN steps[c] /\ r[l] = steps[c][l + 1]
      BY <1>1, <1>3, TailIs
    <3> QED BY <3>1 DEF OnlyForgets
  <2> QED BY <1>1, <2>1, <2>2, <2>3, <2>4 DEF CallOK
<1> QED BY <1>2, <1>3

\* A step of one call that leaves r of its steps.
LEMMA GoesOn ==
  ASSUME IInv, NEW c \in Callers, NEW r \in Seq(StepNames), Then(c, r), ~Idle(c),
         Orderly(r), gate' = c \/ GateFirst(r), Guarded(c)' \/ Opening(c)' \/ OpenFirst(r),
         OnlyForgets(r) \/ file'[c] \in Files, tool'[c] = tool[c],
         Opening(c)' => opening'[c].file = file'[c] /\ file'[c] \in Files,
         \A d \in Callers \ {c} : /\ tool'[d] = tool[d] /\ file'[d] = file[d] /\ opening'[d] = opening[d]
                                 /\ guards'[d] = guards[d] /\ closing'[d] = closing[d]
                                 /\ (gate' = d <=> gate = d)
  PROVE  steps' \in [Callers -> Seq(StepNames)] /\ \A d \in Callers : CallOK(d)'
<1>1. steps \in [Callers -> Seq(StepNames)]
  BY DEF IInv, Typed
<1>2. /\ steps' \in [Callers -> Seq(StepNames)] /\ steps'[c] = r
      /\ \A d \in Callers \ {c} : steps'[d] = steps[d]
  BY <1>1 DEF Then
<1>3. ASSUME NEW d \in Callers PROVE CallOK(d)'
  <2>1. CASE d = c
    <3>1. CallOK(c)
      BY DEF IInv
    <3>2. ~Idle(c)'
      BY DEF Idle
    <3>3. CallOK(c)'
      BY <1>2, <3>1, <3>2 DEF CallOK
    <3> QED BY <2>1, <3>3
  <2>2. CASE d # c
    <3>1. CallOK(d)
      BY DEF IInv
    <3>2. /\ tool'[d] = tool[d] /\ file'[d] = file[d] /\ opening'[d] = opening[d] /\ steps'[d] = steps[d]
          /\ guards'[d] = guards[d] /\ closing'[d] = closing[d] /\ (gate' = d <=> gate = d)
      BY <1>2, <2>2
    <3>3. (Idle(d)' <=> Idle(d)) /\ (Opening(d)' <=> Opening(d)) /\ (Guarded(d)' <=> Guarded(d))
          /\ (Ready(d)' <=> Ready(d))
      BY <3>2 DEF Idle, Opening, Guarded, Ready
    <3> QED BY <3>1, <3>2, <3>3 DEF CallOK
  <2> QED BY <2>1, <2>2
<1> QED BY <1>2, <1>3

\* A step after which the call goes on, or quits, without further ado.
LEMMA GoesPlainly ==
  ASSUME IInv, NEW c \in Callers, NEW s, At(c, s), NextStep(c) \/ Quit(c),
         s \notin {"gate", "open", "ungate", "drop"} \/ Quit(c),
         UNCHANGED <<tool, gate, file, opening, guards>>,
         \A d \in Callers \ {c} : closing'[d] = closing[d]
  PROVE  steps' \in [Callers -> Seq(StepNames)] /\ \A d \in Callers : CallOK(d)'
<1>1. PICK r : Then(c, r) /\ (r = Tail(steps[c]) \/ r = <<>>) /\ (s \in {"gate", "open"} => r = <<>>)
  BY DEF NextStep, Quit
<1>2. /\ r \in Seq(StepNames) /\ Orderly(r)
      /\ s # "gate" => gate = c \/ GateFirst(r)
      /\ s # "open" => Guarded(c) \/ OpenFirst(r)
      /\ OnlyForgets(r) \/ file[c] \in Files
  BY <1>1, LeftOver
<1>3. r = <<>> => GateFirst(r) /\ OpenFirst(r)
  BY NothingLeft
<1>4. ~Idle(c) /\ ~Opening(c)
  BY AtStep
<1>5. ~Opening(c)' /\ (Guarded(c)' <=> Guarded(c))
  BY <1>4 DEF Opening, Guarded
<1> QED BY <1>1, <1>2, <1>3, <1>4, <1>5, GoesOn

-----------------------------------------------------------------------------
(* The steps of a call.                                                    *)

LEMMA BeginKeeps ==
  ASSUME IInv, NEW c \in Callers, Begin(c)
  PROVE  IInv'
<1>1. PICK t \in Tools(c), f \in Files :
        /\ tool' = [tool EXCEPT ![c] = t] /\ file' = [file EXCEPT ![c] = f]
        /\ steps' = [steps EXCEPT ![c] = Plan[t]]
  BY DEF Begin, Then
<1>2. Idle(c) /\ UNCHANGED <<docVars, gate, base, text, cache>>
  BY DEF Begin
<1>3. t \in DOMAIN Plan /\ t # None
  BY WritePathAssumption DEF Tools
<1>4. /\ Plan[t] \in Seq(StepNames) /\ GateFirst(Plan[t]) /\ OpenFirst(Plan[t]) /\ Orderly(Plan[t])
  BY <1>3, PlansAreOrderly
<1>5. Typed /\ CallOK(c) /\ DocInv /\ CacheOK
  BY DEF IInv
<1>6. DocInv'
  <2>1. \A f1 \in Files : disk'[f1].stamp >= disk[f1].stamp
    BY <1>2, <1>5 DEF DocInv, RestOK, docVars, syncVars
  <2> QED BY <1>2, <1>5, <2>1, OutsideKeeps DEF DocInv, RestOK, docVars, syncVars
<1>7. Typed' /\ CacheOK'
  BY <1>1, <1>2, <1>3, <1>4, <1>5 DEF Typed, CacheOK
<1>8. ASSUME NEW d \in Callers PROVE CallOK(d)'
  <2>0. UNCHANGED <<opening, guards, closing, gate>>
    BY <1>2 DEF docVars, syncVars
  <2>1. CASE d = c
    <3>1. tool'[c] = t /\ file'[c] = f /\ steps'[c] = Plan[t]
      BY <1>1, <1>5 DEF Typed
    <3>2. ~Opening(c)
      BY <1>2, <1>5 DEF CallOK, Ready, Opening, Phases
    <3>3. ~Opening(c)' /\ ~Idle(c)'
      BY <1>3, <2>0, <3>1, <3>2 DEF Opening, Idle
    <3>4. CallOK(c)'
      BY <1>4, <3>1, <3>3 DEF CallOK
    <3> QED BY <2>1, <3>4
  <2>2. CASE d # c
    <3>1. CallOK(d)
      BY DEF IInv
    <3>2. tool'[d] = tool[d] /\ file'[d] = file[d] /\ steps'[d] = steps[d]
      BY <1>1, <1>5, <2>2 DEF Typed
    <3>3. (Idle(d)' <=> Idle(d)) /\ (Opening(d)' <=> Opening(d)) /\ (Guarded(d)' <=> Guarded(d))
          /\ (Ready(d)' <=> Ready(d))
      BY <2>0, <3>2 DEF Idle, Opening, Guarded, Ready
    <3> QED BY <2>0, <3>1, <3>2, <3>3 DEF CallOK
  <2> QED BY <2>1, <2>2
<1> QED BY <1>6, <1>7, <1>8 DEF IInv

LEMMA DocsSame ==
  ASSUME DocInv, UNCHANGED docVars
  PROVE  DocInv'
<1>1. UNCHANGED <<disk, buffers, released, view, opening, guards, closing, over, crossed, troubles>>
  BY DEF docVars, syncVars
<1>2. RestOK
  BY DEF DocInv
<1> QED BY <1>1, <1>2, OutsideKeeps DEF RestOK

\* Steps that wait for the gate, take it, or give it back.
LEMMA GateStepsKeep ==
  ASSUME IInv, NEW c \in Callers, TakeGate(c) \/ GateTimesOut(c) \/ Ungate(c)
  PROVE  IInv'
<1>1. UNCHANGED <<docVars, tool, file, base, text, cache>>
  BY DEF TakeGate, GateTimesOut, Ungate
<1>2. DocInv' /\ CacheOK'
  BY <1>1, DocsSame DEF IInv, CacheOK
<1>3. UNCHANGED <<opening, guards, closing>>
  BY <1>1 DEF docVars, syncVars
<1>4. ASSUME TakeGate(c) \/ Ungate(c)
      PROVE  /\ steps' \in [Callers -> Seq(StepNames)] /\ gate' \in Callers \cup {None}
             /\ \A d \in Callers : CallOK(d)'
  <2> DEFINE r == Tail(steps[c])
  <2>1. Then(c, r)
    BY <1>4 DEF TakeGate, Ungate, NextStep
  <2>2. PICK s \in {"gate", "ungate"} :
          /\ At(c, s)
          /\ IF s = "gate" THEN gate = None /\ gate' = c ELSE gate' = None
    BY <1>4 DEF TakeGate, Ungate
  <2>3. /\ r \in Seq(StepNames) /\ Orderly(r) /\ (s = "ungate" => GateFirst(r))
        /\ (Guarded(c) \/ OpenFirst(r)) /\ (OnlyForgets(r) \/ file[c] \in Files)
    BY <2>2, LeftOver
  <2>4. ~Idle(c) /\ ~Opening(c) /\ (s = "ungate" => gate = c)
    BY <2>2, AtStep DEF Gated
  <2>5. (Guarded(c)' <=> Guarded(c)) /\ ~Opening(c)'
    BY <1>1, <1>3, <2>4 DEF Guarded, Opening
  <2>6. \A d \in Callers \ {c} : gate' = d <=> gate = d
    BY <2>2, <2>4, DocSyncAssumption
  <2>7. gate' \in Callers \cup {None}
    BY <2>2
  <2> HIDE DEF r
  <2> QED BY <1>1, <1>3, <2>1, <2>2, <2>3, <2>4, <2>5, <2>6, <2>7, GoesOn
<1>5. ASSUME GateTimesOut(c)
      PROVE  /\ steps' \in [Callers -> Seq(StepNames)] /\ gate' \in Callers \cup {None}
             /\ \A d \in Callers : CallOK(d)'
  <2>1. At(c, "gate") /\ Quit(c) /\ UNCHANGED gate
    BY <1>5 DEF GateTimesOut
  <2>2. gate \in Callers \cup {None}
    BY DEF IInv, Typed
  <2> QED BY <1>1, <1>3, <2>1, <2>2, GoesPlainly
<1> QED BY <1>1, <1>2, <1>4, <1>5 DEF IInv, Typed

\* Steps that only read.
LEMMA PlainStepsKeep ==
  ASSUME IInv, NEW c \in Callers, NEW s, At(c, s), s \notin {"gate", "open", "ungate", "drop"} \/ Quit(c),
         NextStep(c) \/ Quit(c), DocInv', CacheOK', UNCHANGED <<tool, gate, file, opening, guards>>,
         \A d \in Callers \ {c} : closing'[d] = closing[d],
         base' \in [Callers -> [Files -> Nat]], text' \in [Callers -> Nat]
  PROVE  IInv'
<1>1. steps' \in [Callers -> Seq(StepNames)] /\ \A d \in Callers : CallOK(d)'
  BY GoesPlainly
<1> QED BY <1>1 DEF IInv, Typed

LEMMA AskFailsKeeps ==
  ASSUME IInv, NEW c \in Callers, AskFails(c) \/ NoMore(c)
  PROVE  IInv'
<1>1. PICK s \in {"ask", "pick"} : At(c, s)
  BY DEF AskFails, NoMore
<1>2. Quit(c) /\ UNCHANGED <<docVars, gate, tool, file, base, text, cache>>
  BY DEF AskFails, NoMore
<1>3. DocInv' /\ CacheOK' /\ base' \in [Callers -> [Files -> Nat]] /\ text' \in [Callers -> Nat]
  BY <1>2, DocsSame DEF IInv, CacheOK, Typed
<1> QED BY <1>1, <1>2, <1>3, PlainStepsKeep DEF docVars, syncVars

LEMMA KeyType ==
  ASSUME DocInv, NEW f \in Files
  PROVE  Key(f) \in Nat /\ Known(f) \in Nat
BY DEF DocInv, RestOK, Key, Known

LEMMA CacheShrinks ==
  ASSUME CacheOK, NEW C, C \subseteq cache
  PROVE  /\ C \subseteq [file : Files, key : Nat, text : Nat] /\ IsFiniteSet(C)
         /\ Cardinality(C) \in Nat /\ Cardinality(C) <= Cardinality(cache) /\ Cardinality(C) <= CacheMax
<1>1. /\ IsFiniteSet(C) /\ Cardinality(C) <= Cardinality(cache) /\ Cardinality(C) \in Nat
      /\ Cardinality(cache) \in Nat
  BY FS_Subset, FS_CardinalityType DEF CacheOK
<1>2. CacheMax \in Nat /\ Cardinality(cache) <= CacheMax
  BY WritePathAssumption DEF CacheOK
<1> QED BY <1>1, <1>2 DEF CacheOK

LEMMA LookKeeps ==
  ASSUME IInv, NEW c \in Callers, Look(c)
  PROVE  IInv'
<1>1. /\ At(c, "look") /\ file[c] \in Files /\ (NextStep(c) \/ Quit(c))
      /\ UNCHANGED <<docVars, gate, tool, file, base>>
  BY AtStep DEF Look
<1>2. /\ cache' = cache
      /\ text' = text \/ text' = [text EXCEPT ![c] = Key(file[c])]
  BY DEF Look
<1>3. DocInv /\ CacheOK /\ Typed
  BY DEF IInv
<1>4. text' \in [Callers -> Nat] /\ base' \in [Callers -> [Files -> Nat]]
  BY <1>1, <1>2, <1>3, KeyType DEF Typed
<1>5. DocInv'
  BY <1>1, <1>3, DocsSame
<1>6. CacheOK'
  BY <1>2, <1>3, CacheShrinks DEF CacheOK
<1> QED BY <1>1, <1>4, <1>5, <1>6, PlainStepsKeep DEF docVars, syncVars

LEMMA TidyKeeps ==
  ASSUME IInv, NEW c \in Callers, Tidy(c)
  PROVE  IInv'
<1>1. At(c, "tidy") /\ file[c] \in Files /\ NextStep(c) /\ UNCHANGED <<docVars, gate, tool, file, base, text>>
  BY AtStep DEF Tidy
<1>2. cache' \subseteq cache
  BY DEF Tidy
<1>3. DocInv /\ CacheOK /\ Typed
  BY DEF IInv
<1>4. text' \in [Callers -> Nat] /\ base' \in [Callers -> [Files -> Nat]]
  BY <1>1, <1>3 DEF Typed
<1>5. DocInv'
  BY <1>1, <1>3, DocsSame
<1>6. CacheOK'
  BY <1>2, <1>3, CacheShrinks DEF CacheOK
<1> QED BY <1>1, <1>4, <1>5, <1>6, PlainStepsKeep DEF docVars, syncVars

LEMMA KeepKeeps ==
  ASSUME IInv, NEW c \in Callers, Keep(c)
  PROVE  IInv'
<1>1. At(c, "keep") /\ file[c] \in Files /\ NextStep(c) /\ UNCHANGED <<docVars, gate, tool, file, base, text>>
  BY AtStep DEF Keep
<1>2. DocInv /\ CacheOK /\ Typed
  BY DEF IInv
<1> DEFINE entry == [file |-> file[c], key |-> KeptUnder(c), text |-> base[c][file[c]]]
           room == IF Cardinality(cache) >= CacheMax THEN {} ELSE cache
           left == {e \in room : e.file # file[c] \/ e.key # entry.key}
<1>3. cache' = left \cup {entry} \/ cache' = cache
  BY DEF Keep
<1>4. entry \in [file : Files, key : Nat, text : Nat]
  BY <1>1, <1>2 DEF Typed, KeptUnder
<1>5. left \subseteq cache /\ IsFiniteSet(left) /\ Cardinality(left) \in Nat /\ Cardinality(left) < CacheMax
      /\ left \subseteq [file : Files, key : Nat, text : Nat]
  <2>1. CacheMax \in Nat \ {0} /\ Cardinality(cache) \in Nat
    BY <1>2, WritePathAssumption, FS_CardinalityType DEF CacheOK
  <2>2. left \subseteq cache
    OBVIOUS
  <2>3. CASE Cardinality(cache) >= CacheMax
    <3>1. left = {}
      BY <2>3
    <3> QED BY <2>1, <3>1, FS_EmptySet
  <2>4. CASE ~(Cardinality(cache) >= CacheMax)
    <3> HIDE DEF left
    <3> QED BY <1>2, <2>1, <2>2, <2>4, CacheShrinks
  <2> QED BY <2>3, <2>4
<1> HIDE DEF left, entry
<1>6. /\ IsFiniteSet(left \cup {entry}) /\ Cardinality(left \cup {entry}) <= CacheMax
  <2>1. /\ IsFiniteSet(left \cup {entry})
        /\ Cardinality(left \cup {entry}) = Cardinality(left) \/ Cardinality(left \cup {entry}) = Cardinality(left) + 1
    BY <1>5, FS_AddElement
  <2>2. CacheMax \in Nat
    BY WritePathAssumption
  <2> QED BY <1>5, <2>1, <2>2
<1>7. CacheOK'
  <2>1. CASE cache' = left \cup {entry}
    BY <1>4, <1>5, <1>6, <2>1 DEF CacheOK
  <2>2. CASE cache' = cache
    BY <1>2, <2>2 DEF CacheOK
  <2> QED BY <1>3, <2>1, <2>2
<1>8. DocInv' /\ text' \in [Callers -> Nat] /\ base' \in [Callers -> [Files -> Nat]]
  BY <1>1, <1>2, DocsSame DEF Typed
<1> QED BY <1>1, <1>7, <1>8, PlainStepsKeep DEF docVars, syncVars

LEMMA ForgetKeeps ==
  ASSUME IInv, NEW c \in Callers, Forget(c)
  PROVE  IInv'
<1>1. /\ At(c, "forget") /\ NextStep(c) /\ cache' = {} /\ UNCHANGED <<docVars, gate, tool, file, base, text>>
  BY DEF Forget
<1>2. CacheOK'
  <2>1. IsFiniteSet({}) /\ Cardinality({}) = 0
    BY FS_EmptySet
  <2> QED BY <1>1, <2>1, WritePathAssumption DEF CacheOK
<1>3. DocInv' /\ text' \in [Callers -> Nat] /\ base' \in [Callers -> [Files -> Nat]]
  BY <1>1, DocsSame DEF IInv, Typed
<1> QED BY <1>1, <1>2, <1>3, PlainStepsKeep DEF docVars, syncVars

\* rename-symbol goes on to the next file.
LEMMA PicksNext ==
  ASSUME IInv, NEW c \in Callers, NEW s \in {"load", "write"}, At(c, s), Then(c, <<"pick">>), DocInv', CacheOK',
         UNCHANGED <<tool, gate, file, opening, guards, closing>>,
         base' \in [Callers -> [Files -> Nat]], text' \in [Callers -> Nat]
  PROVE  IInv'
<1>1. /\ <<"pick">> \in Seq(StepNames) /\ OpenFirst(<<"pick">>) /\ Orderly(<<"pick">>)
      /\ ~Idle(c) /\ ~Opening(c) /\ file[c] \in Files /\ gate = c
  BY RenameFileIsOrderly, AtStep DEF Gated
<1>2. ~Opening(c)'
  BY <1>1 DEF Opening
<1> DEFINE r == <<"pick">>
<1>3. Then(c, r) /\ r \in Seq(StepNames) /\ OpenFirst(r) /\ Orderly(r)
  BY <1>1
<1> HIDE DEF r
<1>4. steps' \in [Callers -> Seq(StepNames)] /\ \A d \in Callers : CallOK(d)'
  BY <1>1, <1>2, <1>3, GoesOn
<1> QED BY <1>4 DEF IInv, Typed

LEMMA LoadKeeps ==
  ASSUME IInv, NEW c \in Callers, Load(c)
  PROVE  IInv'
<1>1. At(c, "load") /\ file[c] \in Files /\ UNCHANGED <<docVars, gate, tool, file, cache>>
  BY AtStep DEF Load
<1>2. /\ base' = base \/ base' = [base EXCEPT ![c][file[c]] = 0]
      /\ text' = [text EXCEPT ![c] = disk[file[c]].stamp] \/ text' = [text EXCEPT ![c] = 0]
      /\ NextStep(c) \/ Quit(c) \/ Then(c, <<"pick">>)
  BY DEF Load, Quit
<1>3. DocInv' /\ CacheOK' /\ disk[file[c]].stamp \in Nat
  BY <1>1, DocsSame DEF IInv, CacheOK, DocInv, RestOK
<1>4. base' \in [Callers -> [Files -> Nat]] /\ text' \in [Callers -> Nat]
  <2>1. base \in [Callers -> [Files -> Nat]] /\ text \in [Callers -> Nat]
    BY DEF IInv, Typed
  <2>2. text' \in [Callers -> Nat]
    BY <1>2, <1>3, <2>1
  <2>3. base' \in [Callers -> [Files -> Nat]]
    <3>1. CASE base' = base
      BY <2>1, <3>1
    <3>2. CASE base' = [base EXCEPT ![c][file[c]] = 0]
      BY <1>1, <2>1, <3>2
    <3> QED BY <1>2, <3>1, <3>2
  <2> QED BY <2>2, <2>3
<1>5. UNCHANGED <<tool, gate, file, opening, guards, closing>>
  BY <1>1 DEF docVars, syncVars
<1>6. CASE NextStep(c) \/ Quit(c)
  BY <1>1, <1>3, <1>4, <1>5, <1>6, PlainStepsKeep
<1>7. CASE Then(c, <<"pick">>)
  BY <1>1, <1>3, <1>4, <1>5, <1>7, PicksNext
<1> QED BY <1>2, <1>6, <1>7

LEMMA WriteFailsKeeps ==
  ASSUME IInv, NEW c \in Callers, WriteFails(c)
  PROVE  IInv'
<1>1. At(c, "write") /\ file[c] \in Files /\ UNCHANGED <<docVars, gate, tool, file, cache>>
  BY AtStep DEF WriteFails
<1>2. /\ base' = base \/ base' = [base EXCEPT ![c][file[c]] = 0]
      /\ text' = [text EXCEPT ![c] = 0]
      /\ Quit(c) \/ Then(c, <<"pick">>)
  BY DEF WriteFails
<1>3. DocInv' /\ CacheOK'
  BY <1>1, DocsSame DEF IInv, CacheOK
<1>4. base' \in [Callers -> [Files -> Nat]] /\ text' \in [Callers -> Nat]
  <2>1. base \in [Callers -> [Files -> Nat]] /\ text \in [Callers -> Nat]
    BY DEF IInv, Typed
  <2>2. text' \in [Callers -> Nat]
    BY <1>2, <2>1
  <2>3. base' \in [Callers -> [Files -> Nat]]
    <3>1. CASE base' = base
      BY <2>1, <3>1
    <3>2. CASE base' = [base EXCEPT ![c][file[c]] = 0]
      BY <1>1, <2>1, <3>2
    <3> QED BY <1>2, <3>1, <3>2
  <2> QED BY <2>2, <2>3
<1>5. UNCHANGED <<tool, gate, file, opening, guards, closing>>
  BY <1>1 DEF docVars, syncVars
<1>6. CASE Quit(c)
  BY <1>1, <1>3, <1>4, <1>5, <1>6, PlainStepsKeep
<1>7. CASE Then(c, <<"pick">>)
  BY <1>1, <1>3, <1>4, <1>5, <1>7, PicksNext
<1> QED BY <1>2, <1>6, <1>7

LEMMA PickKeeps ==
  ASSUME IInv, NEW c \in Callers, Pick(c)
  PROVE  IInv'
<1>1. PICK f \in Files : file' = [file EXCEPT ![c] = f] /\ Then(c, RenameFilePlan)
  BY DEF Pick
<1>2. At(c, "pick") /\ UNCHANGED <<docVars, gate, tool, base, text, cache>>
  BY DEF Pick
<1>3. ~Idle(c) /\ ~Opening(c) /\ gate = c
  BY <1>2, AtStep DEF Gated
<1>4. DocInv' /\ CacheOK' /\ UNCHANGED <<opening, guards, closing>>
  BY <1>2, DocsSame DEF IInv, CacheOK, docVars, syncVars
<1>5. file' \in [Callers -> Files \cup {None}] /\ file'[c] = f /\ \A d \in Callers \ {c} : file'[d] = file[d]
  BY <1>1 DEF IInv, Typed
<1>6. ~Opening(c)'
  BY <1>3, <1>4 DEF Opening
<1>7. steps' \in [Callers -> Seq(StepNames)] /\ \A d \in Callers : CallOK(d)'
  BY <1>1, <1>2, <1>3, <1>4, <1>5, <1>6, RenameFileIsOrderly, GoesOn
<1> QED BY <1>2, <1>4, <1>5, <1>7 DEF IInv, Typed

-----------------------------------------------------------------------------
(* The files.                                                              *)

LEMMA WriteFileIs ==
  ASSUME DocInv, NEW f \in Files, WriteFile(f)
  PROVE  /\ disk' \in [Files -> [there : BOOLEAN, stamp : Nat]]
         /\ \A g \in Files : disk'[g].stamp >= disk[g].stamp
         /\ disk'[f].stamp = disk[f].stamp + 1 /\ disk'[f].there
<1>1. disk \in [Files -> [there : BOOLEAN, stamp : Nat]]
  BY DEF DocInv, RestOK
<1> DEFINE new == [there |-> TRUE, stamp |-> disk[f].stamp + 1]
<1>2. new \in [there : BOOLEAN, stamp : Nat] /\ new.stamp = disk[f].stamp + 1 /\ new.there
  BY <1>1
<1>3. disk' = [disk EXCEPT ![f] = new]
  BY DEF WriteFile
<1> HIDE DEF new
<1> QED BY <1>1, <1>2, <1>3

\* A write, or none, leaves the table alone.
LEMMA DiskKeeps ==
  ASSUME DocInv, NEW f \in Files, WriteFile(f) \/ UNCHANGED disk, UNCHANGED <<syncVars, over, troubles>>
  PROVE  DocInv' /\ disk'[f].stamp \in Nat
<1>1. RestOK
  BY DEF DocInv
<1>2. /\ disk' \in [Files -> [there : BOOLEAN, stamp : Nat]]
      /\ \A g \in Files : disk'[g].stamp >= disk[g].stamp
  <2>1. CASE WriteFile(f)
    BY <2>1, WriteFileIs
  <2>2. CASE UNCHANGED disk
    BY <1>1, <2>2 DEF RestOK
  <2> QED BY <2>1, <2>2
<1> QED BY <1>1, <1>2, OutsideKeeps DEF RestOK, syncVars

LEMMA FileStepsKeep ==
  ASSUME IInv, NEW c \in Callers, NEW s \in {"write", "readback", "create", "restore"}, At(c, s),
         WriteFile(file[c]) \/ UNCHANGED disk, NextStep(c) \/ Quit(c),
         text' = text \/ text' = [text EXCEPT ![c] = disk'[file[c]].stamp],
         base' = base \/ base' = [base EXCEPT ![c][file[c]] = 0],
         UNCHANGED <<syncVars, over, troubles, gate, tool, file, cache>>
  PROVE  IInv'
<1>1. file[c] \in Files /\ DocInv
  BY AtStep DEF IInv
<1>2. DocInv' /\ disk'[file[c]].stamp \in Nat /\ CacheOK'
  BY <1>1, DiskKeeps DEF IInv, CacheOK
<1>3. base' \in [Callers -> [Files -> Nat]] /\ text' \in [Callers -> Nat]
  <2>1. base \in [Callers -> [Files -> Nat]] /\ text \in [Callers -> Nat]
    BY DEF IInv, Typed
  <2>2. text' \in [Callers -> Nat]
    BY <1>2, <2>1
  <2>3. base' \in [Callers -> [Files -> Nat]]
    <3>1. CASE base' = base
      BY <2>1, <3>1
    <3>2. CASE base' = [base EXCEPT ![c][file[c]] = 0]
      BY <1>1, <2>1, <3>2
    <3> QED BY <3>1, <3>2
  <2> QED BY <2>2, <2>3
<1> QED BY <1>2, <1>3, PlainStepsKeep DEF syncVars

LEMMA WriteKeeps ==
  ASSUME IInv, NEW c \in Callers, Write(c) \/ Readback(c) \/ Create(c)
  PROVE  IInv'
<1>1. CASE Write(c)
  BY <1>1, FileStepsKeep DEF Write
<1>2. CASE Readback(c)
  BY <1>2, FileStepsKeep DEF Readback
<1>3. CASE Create(c)
  BY <1>3, FileStepsKeep DEF Create
<1> QED BY <1>1, <1>2, <1>3

LEMMA RestoreKeeps ==
  ASSUME IInv, NEW c \in Callers, Restore(c)
  PROVE  IInv'
<1>1. /\ At(c, "restore") /\ file[c] \in Files /\ NextStep(c)
      /\ UNCHANGED <<syncVars, over, troubles, gate, tool, file, base, text, cache>>
  BY AtStep DEF Restore
<1>2. CASE WriteFile(file[c])
  BY <1>1, <1>2, FileStepsKeep
<1>3. CASE disk' = [disk EXCEPT ![file[c]].there = FALSE]
  <2>1. RestOK /\ disk \in [Files -> [there : BOOLEAN, stamp : Nat]]
    BY DEF IInv, DocInv, RestOK
  <2> DEFINE new == [disk[file[c]] EXCEPT !.there = FALSE]
  <2>2. new \in [there : BOOLEAN, stamp : Nat] /\ new.stamp = disk[file[c]].stamp
    BY <1>1, <2>1
  <2>3. disk' = [disk EXCEPT ![file[c]] = new]
    BY <1>3
  <2> HIDE DEF new
  <2>4. /\ disk' \in [Files -> [there : BOOLEAN, stamp : Nat]]
        /\ \A g \in Files : disk'[g].stamp >= disk[g].stamp
    BY <1>1, <2>1, <2>2, <2>3
  <2>5. DocInv'
    BY <1>1, <2>1, <2>4, OutsideKeeps DEF IInv, RestOK, syncVars
  <2>6. CacheOK' /\ base' \in [Callers -> [Files -> Nat]] /\ text' \in [Callers -> Nat]
    BY <1>1 DEF IInv, CacheOK, Typed
  <2> QED BY <1>1, <2>5, <2>6, PlainStepsKeep DEF syncVars
<1> QED BY <1>2, <1>3 DEF Restore

LEMMA AskKeeps ==
  ASSUME IInv, NEW c \in Callers, Ask(c)
  PROVE  IInv'
<1> DEFINE asked == IF tool[c] = "rename" THEN Files ELSE {file[c]}
           answer == [f \in Files |-> IF f \in asked THEN Known(f) ELSE 0]
<1>1. /\ At(c, "ask") /\ file[c] \in Files /\ NextStep(c) /\ DocInv
      /\ base' = base \/ base' = [base EXCEPT ![c] = answer]
      /\ crossed' = crossed \cup {f \in asked : Due(f) \ {c} # {}}
      /\ UNCHANGED <<disk, buffers, released, view, opening, guards, closing, over, troubles>>
      /\ UNCHANGED <<gate, tool, file, text, cache>>
  BY AtStep DEF Ask, Taken, IInv
<1>2. asked \subseteq Files
  BY <1>1
<1>3. answer \in [Files -> Nat]
  BY <1>1, KeyType
<1> HIDE DEF asked, answer
<1>4. base' \in [Callers -> [Files -> Nat]] /\ text' \in [Callers -> Nat] /\ CacheOK'
  BY <1>1, <1>3 DEF IInv, Typed, CacheOK
<1>5. RestOK /\ crossed \subseteq crossed' /\ crossed' \subseteq Files
  BY <1>1, <1>2 DEF DocInv, RestOK
<1>6. DocInv'
  <2>1. \A f \in Files : disk'[f].stamp >= disk[f].stamp
    BY <1>1, <1>5 DEF RestOK
  <2> QED BY <1>1, <1>5, <2>1, OutsideKeeps DEF RestOK
<1> QED BY <1>1, <1>4, <1>6, PlainStepsKeep

LEMMA KillKeeps ==
  ASSUME IInv, NEW c \in Callers, Kill(c)
  PROVE  IInv'
<1>1. /\ At(c, "kill") /\ NextStep(c) /\ over' = TRUE /\ DocInv /\ RestOK
      /\ UNCHANGED <<disk, buffers, released, view, opening, guards, closing, crossed, troubles>>
      /\ UNCHANGED <<gate, tool, file, base, text, cache>>
  BY DEF Kill, IInv, DocInv, syncVars
<1>2. base' \in [Callers -> [Files -> Nat]] /\ text' \in [Callers -> Nat] /\ CacheOK'
  BY <1>1 DEF IInv, Typed, CacheOK
<1>3. DocInv'
  <2>1. \A f \in Files : disk'[f].stamp >= disk[f].stamp
    BY <1>1 DEF RestOK
  <2>2. over' \in BOOLEAN
    BY <1>1
  <2> QED BY <1>1, <2>1, <2>2, OutsideKeeps DEF RestOK
<1> QED BY <1>1, <1>2, <1>3, PlainStepsKeep

\* A step that leaves the calls alone.
LEMMA EditKeeps ==
  ASSUME IInv, Edit
  PROVE  IInv'
<1>1. PICK f \in Files :
        /\ WriteFile(f)
        /\ crossed' = IF gate # None /\ file[gate] = f THEN crossed \cup {f} ELSE crossed
  BY DEF Edit
<1>2. /\ Trouble /\ UNCHANGED <<buffers, released, view, opening, guards, closing, over>>
      /\ UNCHANGED <<gate, tool, steps, file, base, text, cache>>
  BY DEF Edit, pathVars
<1>3. DocInv /\ RestOK
  BY DEF IInv, DocInv
<1>4. /\ disk' \in [Files -> [there : BOOLEAN, stamp : Nat]]
      /\ \A g \in Files : disk'[g].stamp >= disk[g].stamp
  BY <1>1, <1>3, WriteFileIs
<1>5. troubles' \in 0..MaxTroubles
  BY <1>2, <1>3, DocSyncAssumption DEF Trouble, RestOK
<1>6. over' \in BOOLEAN
  BY <1>2, <1>3 DEF RestOK
<1>7. crossed \subseteq crossed' /\ crossed' \subseteq Files
  BY <1>1, <1>3 DEF RestOK
<1>8. DocInv'
  BY <1>2, <1>3, <1>4, <1>5, <1>6, <1>7, OutsideKeeps
<1>9. Typed' /\ CacheOK'
  BY <1>2 DEF IInv, Typed, CacheOK
<1>10. ASSUME NEW c \in Callers PROVE CallOK(c)'
  BY <1>2 DEF IInv, CallOK, Guarded, Opening, Idle, Ready
<1> QED BY <1>8, <1>9, <1>10 DEF IInv

-----------------------------------------------------------------------------
(* The documents.                                                          *)

LEMMA OpenStepsKeepDocs ==
  ASSUME DocInv, NEW c \in Callers, OpenSteps(c)
  PROVE  DocInv'
BY ReadKeeps, DriftKeeps, BookNewKeeps, BookAgainKeeps, SendKeeps, SendRefusedKeeps, SettleKeeps,
   RollbackKeeps, CloseNextKeeps DEF OpenSteps

\* How an ensure_open goes on or ends.
Proceeds(c) ==
    \/ Opening(c)' /\ opening'[c].file = opening[c].file
    \/ opening'[c].phase = "ok" /\ guards'[c][opening[c].file] > 0
    \/ opening'[c].phase = "err"

LEMMA OpenedProceeds ==
  ASSUME DocInv, NEW c \in Callers, Opening(c), Opened(c)
  PROVE  /\ Proceeds(c)
         /\ \A d \in Callers \ {c} : opening'[d] = opening[d] /\ guards'[d] = guards[d]
<1>1. /\ opening \in [Callers -> Openings] /\ opening[c].file \in Files
      /\ guards \in [Callers -> [Files -> Nat]]
  BY Looking DEF Opening, DocInv, RestOK
<1>2. /\ guards' = [guards EXCEPT ![c][opening[c].file] = @ + 1]
      /\ opening' = [opening EXCEPT ![c] = Ended("ok")]
  BY DEF Opened
<1>3. guards'[c][opening[c].file] = guards[c][opening[c].file] + 1
  BY <1>1, <1>2
<1>4. guards'[c][opening[c].file] > 0
  BY <1>1, <1>3
<1>5. opening'[c] = Ended("ok") /\ \A d \in Callers \ {c} : opening'[d] = opening[d] /\ guards'[d] = guards[d]
  BY <1>1, <1>2
<1> QED BY <1>4, <1>5, EndedIs DEF Proceeds

LEMMA GotoProceeds ==
  ASSUME DocInv, NEW c \in Callers, Opening(c), NEW phase \in Phases, Goto(c, phase)
  PROVE  Proceeds(c) /\ \A d \in Callers \ {c} : opening'[d] = opening[d]
<1>1. opening \in [Callers -> Openings] /\ opening[c] \in Openings
  BY Looking DEF Opening
<1>2. opening' = [opening EXCEPT ![c] = [opening[c] EXCEPT !.phase = phase]]
  BY <1>1 DEF Goto
<1>3. /\ opening'[c] = [opening[c] EXCEPT !.phase = phase]
      /\ \A d \in Callers \ {c} : opening'[d] = opening[d]
  BY <1>1, <1>2
<1>4. opening'[c].phase = phase /\ opening'[c].file = opening[c].file
  BY <1>1, <1>3 DEF Openings
<1> QED BY <1>3, <1>4 DEF Proceeds, Opening

LEMMA OpenStepsProceed ==
  ASSUME DocInv, NEW c \in Callers, OpenSteps(c)
  PROVE  /\ \/ Opening(c) /\ Proceeds(c)
            \/ opening'[c] = opening[c] /\ guards' = guards /\ ~Ready(c)
         /\ \A d \in Callers \ {c} : opening'[d] = opening[d] /\ guards'[d] = guards[d] /\ closing'[d] = closing[d]
<1>0. /\ opening \in [Callers -> Openings] /\ guards \in [Callers -> [Files -> Nat]]
      /\ closing \in [Callers -> SUBSET Files]
  BY DEF DocInv, PhasesOK, RestOK
<1>1. CASE Read(c)
  <2>1. Opening(c) /\ UNCHANGED <<guards, closing>>
    BY <1>1 DEF Read, Opening, Phases
  <2>2. opening[c] \in Openings
    BY <1>0
  <2> DEFINE p == [opening[c] EXCEPT !.phase = "book", !.snap = Snapshot(opening[c].file), !.text = 0]
             q == [opening[c] EXCEPT !.phase = "book", !.snap = Snapshot(opening[c].file),
                                     !.text = disk[opening[c].file].stamp]
  <2>3. /\ p.phase = "book" /\ p.file = opening[c].file
        /\ q.phase = "book" /\ q.file = opening[c].file
    BY <2>2 DEF Openings
  <2>4. PICK o \in {p, q, Ended("err")} : opening' = [opening EXCEPT ![c] = o]
    BY <1>1 DEF Read
  <2> HIDE DEF p, q
  <2>5. opening'[c] = o /\ \A d \in Callers \ {c} : opening'[d] = opening[d]
    BY <1>0, <2>4
  <2>6. Proceeds(c)
    BY <2>3, <2>4, <2>5, EndedIs DEF Proceeds, Opening, Phases
  <2> QED BY <2>1, <2>5, <2>6
<1>2. CASE Drift(c)
  BY <1>2, GotoProceeds DEF Drift, Opening, Phases
<1>3. CASE BookNew(c)
  <2> DEFINE p == [opening[c] EXCEPT !.phase = "send", !.version = 1]
  <2>1. /\ Opening(c) /\ UNCHANGED guards /\ opening' = [opening EXCEPT ![c] = p]
        /\ \E gone : closing' = [closing EXCEPT ![c] = gone]
    BY <1>3 DEF BookNew, Opening, Phases
  <2>2. p.phase = "send" /\ p.file = opening[c].file
    BY <1>0 DEF Openings
  <2> HIDE DEF p
  <2>3. /\ opening'[c] = p
        /\ \A d \in Callers \ {c} : opening'[d] = opening[d] /\ closing'[d] = closing[d]
    BY <1>0, <2>1
  <2> QED BY <2>1, <2>2, <2>3 DEF Proceeds, Opening, Phases
<1>4. CASE BookAgain(c)
  <2>1. Opening(c) /\ UNCHANGED closing
    BY <1>4 DEF BookAgain, Opening, Phases
  <2>2. CASE opening[c].text = 0
    <3>1. Opened(c)
      BY <1>4, <2>2 DEF BookAgain, Opened
    <3> QED BY <2>1, <3>1, OpenedProceeds
  <2>3. CASE opening[c].text # 0
    <3> DEFINE p == [opening[c] EXCEPT !.phase = "send", !.version = NextVersion(buffers[opening[c].file])]
    <3>1. UNCHANGED guards /\ opening' = [opening EXCEPT ![c] = p]
      BY <1>4, <2>3 DEF BookAgain
    <3>2. p.phase = "send" /\ p.file = opening[c].file
      BY <1>0 DEF Openings
    <3> HIDE DEF p
    <3>3. opening'[c] = p /\ \A d \in Callers \ {c} : opening'[d] = opening[d]
      BY <1>0, <3>1
    <3> QED BY <2>1, <3>1, <3>2, <3>3 DEF Proceeds, Opening, Phases
  <2> QED BY <2>2, <2>3
<1>5. CASE Send(c)
  <2>1. Opening(c) /\ UNCHANGED closing
    BY <1>5 DEF Send, Opening, Phases
  <2>2. CASE Opened(c)
    BY <2>1, <2>2, OpenedProceeds
  <2>3. CASE ~Opened(c)
    <3>1. PICK phase \in Phases : Goto(c, phase) /\ UNCHANGED guards
      BY <1>5, <2>3 DEF Send, Phases
    <3> QED BY <2>1, <3>1, GotoProceeds
  <2> QED BY <2>2, <2>3
<1>6. CASE SendRefused(c)
  BY <1>6, GotoProceeds DEF SendRefused, Opening, Phases
<1>7. CASE Settle(c)
  BY <1>7, OpenedProceeds DEF Settle, Opening, Phases
<1>8. CASE Rollback(c)
  <2>1. /\ Opening(c) /\ UNCHANGED guards /\ opening' = [opening EXCEPT ![c] = Ended("err")]
        /\ closing' = [closing EXCEPT ![c] = {}]
    BY <1>8 DEF Rollback, Opening, Phases
  <2>2. /\ opening'[c] = Ended("err")
        /\ \A d \in Callers \ {c} : opening'[d] = opening[d] /\ closing'[d] = closing[d]
    BY <1>0, <2>1
  <2> QED BY <2>1, <2>2, EndedIs DEF Proceeds
<1>9. CASE CloseNext(c)
  <2>1. /\ IF opening[c].phase = "close" /\ closing'[c] = {} THEN Opened(c) ELSE UNCHANGED <<opening, guards>>
        /\ \E f \in closing[c] : closing' = [closing EXCEPT ![c] = @ \ {f}]
    BY <1>9 DEF CloseNext
  <2>2. ~Ready(c) /\ \A d \in Callers \ {c} : closing'[d] = closing[d]
    BY <1>0, <2>1 DEF Ready
  <2>3. CASE opening[c].phase = "close" /\ closing'[c] = {}
    BY <2>1, <2>2, <2>3, OpenedProceeds DEF Opening, Phases
  <2>4. CASE ~(opening[c].phase = "close" /\ closing'[c] = {})
    BY <2>1, <2>2, <2>4
  <2> QED BY <2>3, <2>4
<1> QED BY <1>1, <1>2, <1>3, <1>4, <1>5, <1>6, <1>7, <1>8, <1>9 DEF OpenSteps

LEMMA OpenStartsKeeps ==
  ASSUME IInv, NEW c \in Callers, OpenStarts(c)
  PROVE  IInv'
<1>1. /\ At(c, "open") /\ Stat(c, file[c])
      /\ UNCHANGED <<disk, buffers, released, view, guards, closing, over, crossed, troubles>>
      /\ UNCHANGED <<gate, tool, file, base, text, cache>>
  BY DEF OpenStarts
<1>2. file[c] \in Files /\ ~Idle(c) /\ Ready(c)
  BY <1>1, AtStep
<1>3. DocInv'
  BY <1>1, <1>2, StatKeeps DEF IInv
<1>4. CacheOK' /\ gate' = gate
  BY <1>1 DEF IInv, CacheOK
<1>5. opening \in [Callers -> Openings]
  BY DEF IInv, DocInv, PhasesOK
<1>6. PICK r : /\ Then(c, r) /\ (r = Tail(steps[c]) \/ r = <<>>)
               /\ disk[file[c]].there \/ r = <<>>
  BY DEF OpenStarts, NextStep, Quit
<1>7. /\ r \in Seq(StepNames) /\ Orderly(r) /\ (gate = c \/ GateFirst(r))
      /\ OnlyForgets(r) \/ file[c] \in Files
  BY <1>1, <1>6, LeftOver
<1>8. /\ \A d \in Callers \ {c} : opening'[d] = opening[d]
      /\ \/ disk[file[c]].there /\ Opening(c)' /\ opening'[c].file = file[c]
         \/ ~disk[file[c]].there /\ ~Opening(c)'
  <2> DEFINE p == [Ended("ok") EXCEPT !.phase = "read", !.file = file[c], !.stat = disk[file[c]].stamp]
             o == IF disk[file[c]].there THEN p ELSE Ended("err")
  <2>1. p.phase = "read" /\ p.file = file[c]
    BY DEF Ended
  <2>2. opening' = [opening EXCEPT ![c] = o]
    BY <1>1 DEF Stat
  <2>3. opening'[c] = o /\ \A d \in Callers \ {c} : opening'[d] = opening[d]
    BY <1>5, <2>2
  <2>4. \/ o = p /\ disk[file[c]].there
        \/ o = Ended("err") /\ ~disk[file[c]].there
    OBVIOUS
  <2> HIDE DEF p, o
  <2> QED BY <2>1, <2>3, <2>4, EndedIs DEF Opening, Phases
<1>9. Guarded(c)' \/ Opening(c)' \/ OpenFirst(r)
  BY <1>6, <1>8, NothingLeft
<1>10. steps' \in [Callers -> Seq(StepNames)] /\ \A d \in Callers : CallOK(d)'
  <2>1. gate' = c \/ GateFirst(r)
    BY <1>4, <1>7
  <2>2. \A d \in Callers \ {c} : /\ tool'[d] = tool[d] /\ file'[d] = file[d] /\ opening'[d] = opening[d]
                                 /\ guards'[d] = guards[d] /\ closing'[d] = closing[d]
                                 /\ (gate' = d <=> gate = d)
    BY <1>1, <1>8
  <2>3. OnlyForgets(r) \/ file'[c] \in Files
    BY <1>1, <1>7
  <2>4. Opening(c)' => opening'[c].file = file'[c] /\ file'[c] \in Files
    BY <1>1, <1>2, <1>8
  <2> QED BY <1>1, <1>2, <1>6, <1>7, <1>9, <2>1, <2>2, <2>3, <2>4, GoesOn
<1> QED BY <1>1, <1>3, <1>4, <1>10 DEF IInv, Typed

LEMMA OpenGoesOnKeeps ==
  ASSUME IInv, NEW c \in Callers, OpenGoesOn(c)
  PROVE  IInv'
<1>1. OpenSteps(c) /\ UNCHANGED <<gate, tool, file, base, text, cache>>
  BY DEF OpenGoesOn
<1>2. DocInv' /\ CacheOK'
  BY <1>1, OpenStepsKeepDocs DEF IInv, CacheOK
<1>3. CallOK(c) /\ steps[c] \in Seq(StepNames) /\ steps \in [Callers -> Seq(StepNames)]
  BY DEF IInv, Typed
<1>4. /\ \/ Opening(c) /\ Proceeds(c)
         \/ opening'[c] = opening[c] /\ guards' = guards /\ ~Ready(c)
      /\ \A d \in Callers \ {c} : opening'[d] = opening[d] /\ guards'[d] = guards[d] /\ closing'[d] = closing[d]
  BY <1>1, OpenStepsProceed DEF IInv
<1>5. PICK r \in {steps[c], <<>>} : Then(c, r) /\ (opening'[c].phase = "err" => r = <<>>)
  <2>1. CASE opening'[c].phase = "err"
    BY <2>1 DEF OpenGoesOn, Quit
  <2>2. CASE opening'[c].phase # "err"
    <3>1. steps' = steps
      BY <2>2 DEF OpenGoesOn
    <3>2. steps' = [steps EXCEPT ![c] = steps[c]]
      BY <1>3, <3>1
    <3> QED BY <2>2, <3>2 DEF Then
  <2> QED BY <2>1, <2>2
<1>6. /\ r \in Seq(StepNames) /\ Orderly(r) /\ (gate = c \/ GateFirst(r))
      /\ (Guarded(c) \/ Opening(c) \/ OpenFirst(r)) /\ (OnlyForgets(r) \/ file[c] \in Files)
  <2>1. CASE r = steps[c]
    BY <1>3, <2>1 DEF CallOK
  <2>2. CASE r = <<>>
    BY <2>2, NothingLeft DEF OnlyForgets
  <2> QED BY <1>5, <2>1, <2>2
<1>7. ~Idle(c)
  BY <1>3, <1>4 DEF CallOK
<1>8. /\ Guarded(c)' \/ Opening(c)' \/ OpenFirst(r)
      /\ Opening(c)' => opening'[c].file = file'[c] /\ file'[c] \in Files
  <2>1. CASE Opening(c) /\ Proceeds(c)
    <3>1. opening[c].file = file[c] /\ file[c] \in Files /\ file' = file
      BY <1>1, <1>3, <2>1 DEF CallOK
    <3>2. CASE Opening(c)' /\ opening'[c].file = opening[c].file
      BY <3>1, <3>2
    <3>3. CASE opening'[c].phase = "ok" /\ guards'[c][opening[c].file] > 0
      BY <3>1, <3>3 DEF Guarded, Opening, Phases
    <3>4. CASE opening'[c].phase = "err"
      BY <1>5, <3>4, NothingLeft DEF Opening, Phases
    <3> QED BY <2>1, <3>2, <3>3, <3>4 DEF Proceeds
  <2>2. CASE opening'[c] = opening[c] /\ guards' = guards /\ ~Ready(c)
    BY <1>1, <1>3, <1>6, <2>2 DEF CallOK, Opening, Guarded
  <2> QED BY <1>4, <2>1, <2>2
<1>9. steps' \in [Callers -> Seq(StepNames)] /\ \A d \in Callers : CallOK(d)'
  <2>1. gate' = c \/ GateFirst(r)
    BY <1>1, <1>6
  <2>2. \A d \in Callers \ {c} : /\ tool'[d] = tool[d] /\ file'[d] = file[d] /\ opening'[d] = opening[d]
                                 /\ guards'[d] = guards[d] /\ closing'[d] = closing[d]
                                 /\ (gate' = d <=> gate = d)
    BY <1>1, <1>4
  <2>3. OnlyForgets(r) \/ file'[c] \in Files
    BY <1>1, <1>6
  <2> QED BY <1>1, <1>5, <1>6, <1>7, <1>8, <2>1, <2>2, <2>3, GoesOn
<1> QED BY <1>1, <1>2, <1>9 DEF IInv, Typed

LEMMA CloseGoesOnKeeps ==
  ASSUME IInv, NEW c \in Callers, CloseGoesOn(c)
  PROVE  IInv'
<1>1. CloseNext(c) /\ opening[c].phase # "close" /\ UNCHANGED <<gate, tool, steps, file, base, text, cache>>
  BY DEF CloseGoesOn, pathVars
<1>2. DocInv' /\ CacheOK' /\ Typed'
  BY <1>1, CloseNextKeeps DEF IInv, CacheOK, Typed
<1>3. UNCHANGED <<opening, guards>>
  BY <1>1 DEF CloseNext
<1>4. ~Ready(c) /\ \A d \in Callers \ {c} : closing'[d] = closing[d]
  <2>1. closing \in [Callers -> SUBSET Files]
    BY DEF IInv, DocInv, RestOK
  <2> QED BY <1>1, <2>1 DEF CloseNext, Ready
<1>5. ASSUME NEW d \in Callers PROVE CallOK(d)'
  <2>1. CallOK(d)
    BY DEF IInv
  <2>2. (Idle(d)' <=> Idle(d)) /\ (Opening(d)' <=> Opening(d)) /\ (Guarded(d)' <=> Guarded(d))
    BY <1>1, <1>3 DEF Idle, Opening, Guarded
  <2>3. CASE d = c
    <3>1. ~Idle(d)
      BY <1>4, <2>1, <2>3 DEF CallOK
    <3> QED BY <1>1, <1>3, <2>1, <2>2, <3>1 DEF CallOK
  <2>4. CASE d # c
    <3>1. Ready(d)' <=> Ready(d)
      BY <1>3, <1>4, <2>4 DEF Ready
    <3> QED BY <1>1, <1>3, <2>1, <2>2, <3>1 DEF CallOK
  <2> QED BY <2>3, <2>4
<1> QED BY <1>2, <1>5 DEF IInv

LEMMA DropGuardsIs ==
  ASSUME DocInv, NEW c \in Callers, NEW f \in Files, NEW k \in Nat, k <= guards[c][f], DropGuards(c, f, k)
  PROVE  /\ guards' \in [Callers -> [Files -> Nat]] /\ guards'[c][f] = guards[c][f] - k
         /\ \A g \in Files \ {f} : guards'[c][g] = guards[c][g]
         /\ \A d \in Callers \ {c} : guards'[d] = guards[d]
<1>1. guards \in [Callers -> [Files -> Nat]]
  BY DEF DocInv, RestOK
<1>2. guards[c][f] - k \in Nat
  BY <1>1
<1>3. guards' = [guards EXCEPT ![c][f] = guards[c][f] - k]
  BY DEF DropGuards
<1> QED BY <1>1, <1>2, <1>3

LEMMA DropOneKeeps ==
  ASSUME IInv, NEW c \in Callers, DropOne(c)
  PROVE  IInv'
<1>1. /\ At(c, "drop") /\ DropGuards(c, file[c], 1) /\ Then(c, Tail(steps[c]))
      /\ UNCHANGED <<disk, view, opening, closing, over, crossed, troubles>>
      /\ UNCHANGED <<gate, tool, file, base, text, cache>>
  BY DEF DropOne, NextStep
<1>2. /\ file[c] \in Files /\ guards[c][file[c]] > 0 /\ guards[c][file[c]] \in Nat
      /\ Ready(c) /\ ~Idle(c) /\ ~Opening(c)
  BY <1>1, AtStep DEF IInv, DocInv, RestOK
<1>3. 1 <= guards[c][file[c]]
  BY <1>2
<1>4. DocInv' /\ CacheOK'
  BY <1>1, <1>2, <1>3, DropGuardsKeeps DEF IInv, CacheOK
<1>5. \A d \in Callers \ {c} : guards'[d] = guards[d]
  BY <1>1, <1>2, <1>3, DropGuardsIs DEF IInv
<1>6. PICK r, s : Then(c, r) /\ r = Tail(steps[c]) /\ s = "drop" /\ At(c, s)
  BY <1>1
<1>9. /\ r \in Seq(StepNames) /\ Orderly(r)
      /\ gate = c \/ GateFirst(r)
      /\ OpenFirst(r)
      /\ OnlyForgets(r) \/ file[c] \in Files
  <2>1. At(c, s) /\ (r = Tail(steps[c]) \/ r = <<>>)
    BY <1>6
  <2>2. s # "gate" /\ s = "drop"
    BY <1>6
  <2>3. /\ r \in Seq(StepNames) /\ Orderly(r)
        /\ s # "gate" => gate = c \/ GateFirst(r)
        /\ s = "drop" => OpenFirst(r)
        /\ OnlyForgets(r) \/ file[c] \in Files
    BY <2>1, LeftOver
  <2> QED BY <2>2, <2>3
<1>7. ~Opening(c)'
  BY <1>1, <1>2 DEF Opening
<1>8. steps' \in [Callers -> Seq(StepNames)] /\ \A d \in Callers : CallOK(d)'
  BY <1>1, <1>2, <1>5, <1>6, <1>7, <1>9, GoesOn
<1> QED BY <1>1, <1>4, <1>8 DEF IInv, Typed

\* What is left of a call that has no step left is dropped.
LEMMA EndKeepsDocs ==
  ASSUME IInv, NEW c \in Callers, End(c)
  PROVE  /\ DocInv' /\ UNCHANGED <<opening, closing>>
         /\ \A d \in Callers \ {c} : guards'[d] = guards[d]
         /\ Cardinality({f \in Files : guards[c][f] > 0}) > 1 \/ guards'[c] = NoText
<1> DEFINE held == {f \in Files : guards[c][f] > 0}
<1>1. /\ Ready(c) /\ UNCHANGED <<disk, view, opening, closing, over, crossed, troubles>>
      /\ DocInv /\ guards \in [Callers -> [Files -> Nat]]
  BY DEF End, IInv, DocInv, RestOK
<1>2. CASE held = {}
  <2>1. UNCHANGED <<buffers, released, guards>>
    BY <1>2 DEF End
  <2>2. UNCHANGED docVars
    BY <1>1, <2>1 DEF docVars, syncVars
  <2>3. guards[c] \in [Files -> Nat] /\ \A f \in Files : guards[c][f] = 0
    BY <1>1, <1>2
  <2>4. guards[c] = NoText
    BY <2>3 DEF NoText
  <2> QED BY <1>1, <2>1, <2>2, <2>4, DocsSame
<1>3. CASE held # {}
  <2>1. PICK f \in held : DropGuards(c, f, guards[c][f])
    BY <1>3 DEF End
  <2>2. f \in Files /\ guards[c][f] \in Nat /\ 0 < guards[c][f] /\ guards[c][f] <= guards[c][f]
    BY <1>1, <2>1
  <2>3. DocInv'
    BY <1>1, <2>1, <2>2, DropGuardsKeeps
  <2>4. /\ guards' \in [Callers -> [Files -> Nat]] /\ guards'[c][f] = guards[c][f] - guards[c][f]
        /\ \A g \in Files \ {f} : guards'[c][g] = guards[c][g]
        /\ \A d \in Callers \ {c} : guards'[d] = guards[d]
    BY <1>1, <2>1, <2>2, DropGuardsIs
  <2>5. ASSUME ~(Cardinality(held) > 1) PROVE guards'[c] = NoText
    <3>1. IsFiniteSet(held)
      BY FS_Subset, DocSyncAssumption
    <3>2. held \ {f} = {}
      <4>1. IsFiniteSet(held \ {f}) /\ Cardinality(held \ {f}) = Cardinality(held) - 1
        BY <2>1, <3>1, FS_RemoveElement
      <4>2. Cardinality(held \ {f}) \in Nat /\ Cardinality(held) \in Nat
        BY <3>1, <4>1, FS_CardinalityType
      <4>3. Cardinality(held \ {f}) = 0
        BY <2>5, <4>1, <4>2
      <4> QED BY <4>1, <4>3, FS_EmptySet
    <3>3. \A g \in Files \ {f} : guards[c][g] = 0
      BY <1>1, <3>2
    <3>4. guards'[c] \in [Files -> Nat] /\ \A g \in Files : guards'[c][g] = 0
      BY <2>2, <2>4, <3>3
    <3> QED BY <3>4 DEF NoText
  <2> QED BY <1>1, <2>3, <2>4, <2>5
<1> QED BY <1>2, <1>3

LEMMA EndKeeps ==
  ASSUME IInv, NEW c \in Callers, End(c)
  PROVE  IInv'
<1>1. /\ ~Idle(c) /\ Ready(c) /\ steps[c] = <<>> /\ UNCHANGED cache
      /\ UNCHANGED <<opening, closing>> /\ DocInv'
      /\ \A d \in Callers \ {c} : guards'[d] = guards[d]
  BY EndKeepsDocs DEF End
<1>2. CacheOK' /\ CallOK(c) /\ Typed
  BY <1>1 DEF IInv, CacheOK
<1>3. ~Opening(c) /\ ~Opening(c)'
  BY <1>1 DEF Ready, Opening, Phases
<1>4. CASE UNCHANGED <<gate, tool, steps, file, base, text>>
  <2>1. steps' = [steps EXCEPT ![c] = <<>>]
    BY <1>1, <1>2, <1>4 DEF Typed
  <2>2. OnlyForgets(<<>>)
    BY DEF OnlyForgets
  <2>3. Then(c, <<>>)
    BY <2>1 DEF Then
  <2>4. steps' \in [Callers -> Seq(StepNames)] /\ \A d \in Callers : CallOK(d)'
    BY <1>1, <1>3, <1>4, <2>2, <2>3, NothingLeft, GoesOn
  <2> QED BY <1>1, <1>2, <1>4, <2>4 DEF IInv, Typed
<1>5. CASE ~UNCHANGED <<gate, tool, steps, file, base, text>>
  <2>1. /\ gate' = GateAfter(c)
        /\ IF Forgets(c) THEN Then(c, <<"forget">>) /\ UNCHANGED tool
           ELSE tool' = [tool EXCEPT ![c] = None] /\ UNCHANGED steps
        /\ file' = [file EXCEPT ![c] = None]
        /\ base' = [base EXCEPT ![c] = NoText]
        /\ text' = [text EXCEPT ![c] = 0]
        /\ guards'[c] = NoText
    BY <1>5, EndKeepsDocs DEF End
  <2>2. NoText \in [Files -> Nat]
    BY DEF NoText
  <2>3. /\ gate' \in Callers \cup {None} /\ gate' # c
        /\ \A d \in Callers \ {c} : gate' = d <=> gate = d
    BY <1>2, <2>1, DocSyncAssumption DEF GateAfter, Typed
  <2>4. /\ file' \in [Callers -> Files \cup {None}] /\ file'[c] = None
        /\ \A d \in Callers \ {c} : file'[d] = file[d]
        /\ base' \in [Callers -> [Files -> Nat]] /\ text' \in [Callers -> Nat]
    BY <1>2, <2>1, <2>2 DEF Typed
  <2>5. CASE Forgets(c)
    <3>1. Then(c, <<"forget">>) /\ UNCHANGED tool
      BY <2>1, <2>5
    <3>2. OnlyForgets(<<"forget">>)
      BY DEF OnlyForgets
    <3>3. steps' \in [Callers -> Seq(StepNames)] /\ \A d \in Callers : CallOK(d)'
      BY <1>1, <1>3, <2>3, <2>4, <3>1, <3>2, RenameFileIsOrderly, GoesOn
    <3> QED BY <1>1, <1>2, <2>3, <2>4, <3>1, <3>3 DEF IInv, Typed
  <2>6. CASE ~Forgets(c)
    <3>1. tool' = [tool EXCEPT ![c] = None] /\ UNCHANGED steps
      BY <2>1, <2>6
    <3>2. /\ tool' \in [Callers -> DOMAIN Plan \cup {None}] /\ tool'[c] = None
          /\ \A d \in Callers \ {c} : tool'[d] = tool[d]
      BY <1>2, <3>1 DEF Typed
    <3>3. ASSUME NEW d \in Callers PROVE CallOK(d)'
      <4>1. CASE d = c
        <5>1. Ready(c)'
          BY <1>1 DEF Ready
        <5>2. CallOK(c)'
          BY <1>1, <1>3, <2>1, <2>3, <3>1, <3>2, <5>1, NothingLeft DEF CallOK, OnlyForgets
        <5> QED BY <4>1, <5>2
      <4>2. CASE d # c
        <5>1. CallOK(d)
          BY DEF IInv
        <5>2. /\ tool'[d] = tool[d] /\ file'[d] = file[d] /\ steps'[d] = steps[d]
              /\ guards'[d] = guards[d] /\ opening'[d] = opening[d] /\ (gate' = d <=> gate = d)
          BY <1>1, <2>3, <2>4, <3>1, <3>2, <4>2
        <5>3. (Idle(d)' <=> Idle(d)) /\ (Opening(d)' <=> Opening(d)) /\ (Guarded(d)' <=> Guarded(d))
              /\ (Ready(d)' <=> Ready(d))
          BY <1>1, <5>2 DEF Idle, Opening, Guarded, Ready
        <5> QED BY <5>1, <5>2, <5>3 DEF CallOK
      <4> QED BY <4>1, <4>2
    <3> QED BY <1>1, <1>2, <2>3, <2>4, <3>1, <3>2, <3>3 DEF IInv, Typed
  <2> QED BY <2>5, <2>6
<1> QED BY <1>4, <1>5

-----------------------------------------------------------------------------
(* Documents that leave the table.                                         *)

\* A step that takes some out and leaves the calls alone otherwise.
LEMMA TakesOutKeeps ==
  ASSUME IInv, NEW c \in Callers, NEW s, At(c, s), s \notin {"gate", "open", "ungate", "drop"},
         NextStep(c) \/ Quit(c), NEW gone, NEW rest, gone \subseteq Buffered,
         rest \in Seq(Files), IsInjective(rest), ToSet(rest) = ToSet(released) \ gone,
         TakeOut(c, gone, rest), troubles' \in 0..MaxTroubles, UNCHANGED <<disk, view, opening, guards, over>>,
         UNCHANGED <<gate, tool, file, base, text, cache>>
  PROVE  IInv'
<1>1. DocInv /\ Ready(c) /\ closing \in [Callers -> SUBSET Files]
  BY AtStep DEF IInv, DocInv, RestOK
<1>2. DocInv'
  BY <1>1, TakeOutKeeps
<1>3. CacheOK' /\ base' \in [Callers -> [Files -> Nat]] /\ text' \in [Callers -> Nat]
  BY DEF IInv, CacheOK, Typed
<1>4. \A d \in Callers \ {c} : closing'[d] = closing[d]
  BY <1>1 DEF TakeOut
<1> QED BY <1>2, <1>3, <1>4, PlainStepsKeep

LEMMA ReclaimKeeps ==
  ASSUME IInv, NEW c \in Callers, Reclaim(c)
  PROVE  IInv'
<1>1. /\ At(c, "reclaim") /\ NextStep(c) /\ Trouble /\ EvictIdle(c) /\ DocInv
      /\ UNCHANGED <<gate, tool, file, base, text, cache>>
  BY DEF Reclaim, IInv
<1>2. PICK k \in 1..Len(released) :
        TakeOut(c, ToSet(SubSeq(released, 1, k)), SubSeq(released, k + 1, Len(released)))
  BY <1>1 DEF EvictIdle
<1> DEFINE gone == ToSet(SubSeq(released, 1, k))
           rest == SubSeq(released, k + 1, Len(released))
<1>3. k \in 0..Len(released)
  BY <1>2
<1>4. /\ gone \subseteq Buffered
      /\ rest \in Seq(Files) /\ IsInjective(rest) /\ ToSet(rest) = ToSet(released) \ gone
  BY <1>1, <1>3, RoomIs
<1>5. troubles' \in 0..MaxTroubles
  BY <1>1, DocSyncAssumption DEF Trouble, DocInv, RestOK
<1>6. TakeOut(c, gone, rest)
  BY <1>2
<1>7. UNCHANGED <<disk, view, opening, guards, over>>
  BY <1>1 DEF EvictIdle
<1> HIDE DEF gone, rest
<1> QED BY <1>1, <1>4, <1>5, <1>6, <1>7, TakesOutKeeps

LEMMA ReleasedAreBuffered ==
  ASSUME DocInv
  PROVE  released \in Seq(Files) /\ IsInjective(released) /\ ToSet(released) \subseteq Buffered
<1>1. released \in Seq(Files) /\ IsInjective(released)
  BY DEF DocInv, ReleasedOK
<1>2. \A f \in ToSet(released) : f \in Files
  BY <1>1 DEF ToSet
<1> QED BY <1>1, <1>2 DEF DocInv, ReleasedOK, Buffered

LEMMA ShutdownKeeps ==
  ASSUME IInv, NEW c \in Callers, Shutdown(c)
  PROVE  IInv'
<1>1. /\ At(c, "evict") /\ NextStep(c) /\ EvictAll(c) /\ DocInv
      /\ UNCHANGED <<troubles, gate, tool, file, base, text, cache>>
  BY DEF Shutdown, IInv
<1>2. PICK rest : rest = <<>>
  OBVIOUS
<1>3. rest \in Seq(Files) /\ IsInjective(rest) /\ ToSet(rest) = {}
  BY <1>2 DEF IsInjective, ToSet
<1>4. ToSet(rest) = ToSet(released) \ Buffered
  BY <1>1, <1>3, ReleasedAreBuffered
<1>5. TakeOut(c, Buffered, rest) /\ UNCHANGED <<disk, view, opening, guards, over>>
  BY <1>1, <1>2 DEF EvictAll
<1>6. troubles' \in 0..MaxTroubles
  BY <1>1 DEF DocInv, RestOK
<1>7. PICK gone : gone = Buffered
  OBVIOUS
<1>8. PICK s : s = "evict" /\ At(c, s)
  BY <1>1
<1> QED BY <1>1, <1>3, <1>4, <1>5, <1>6, <1>7, <1>8, TakesOutKeeps

LEMMA SyncKeeps ==
  ASSUME IInv, NEW c \in Callers, Sync(c)
  PROVE  IInv'
<1>1. At(c, "sync") /\ UNCHANGED <<troubles, gate, tool, file, base, text, cache>> /\ DocInv
  BY DEF Sync, IInv
<1>2. file[c] \in Files
  BY <1>1, AtStep
<1>3. CASE ~disk[file[c]].there
  <2>1. ForceClose(c, file[c]) /\ Quit(c)
    BY <1>3 DEF Sync
  <2>2. PICK gone, rest : gone = {file[c]} \cap Buffered /\ rest = Without(released, file[c])
    OBVIOUS
  <2>3. TakeOut(c, gone, rest) /\ UNCHANGED <<disk, view, opening, guards, over>>
    BY <2>1, <2>2 DEF ForceClose
  <2>4. /\ released \in Seq(Files) /\ IsInjective(released) /\ ToSet(released) \subseteq Buffered
    BY <1>1, ReleasedAreBuffered
  <2>5. /\ rest \in Seq(Files) /\ IsInjective(rest) /\ ToSet(rest) = ToSet(released) \ {file[c]}
    BY <1>2, <2>2, <2>4, WithoutIs
  <2>6. gone \subseteq Buffered /\ ToSet(rest) = ToSet(released) \ gone
    BY <2>2, <2>4, <2>5
  <2>7. troubles' \in 0..MaxTroubles
    BY <1>1 DEF DocInv, RestOK
  <2>8. PICK s : s = "sync" /\ At(c, s)
    BY <1>1
  <2> QED BY <1>1, <2>1, <2>3, <2>5, <2>6, <2>7, <2>8, TakesOutKeeps
<1>4. CASE disk[file[c]].there
  <2>1. PICK r \in {<<"open">>, <<>>} : Then(c, r)
    BY <1>4 DEF Sync
  <2>2. UNCHANGED docVars
    BY <1>1, <1>4 DEF Sync, docVars
  <2>3. DocInv' /\ CacheOK' /\ UNCHANGED <<opening, guards, closing>>
    BY <1>1, <2>2, DocsSame DEF IInv, CacheOK, docVars, syncVars
  <2>4. r \in Seq(StepNames) /\ Orderly(r) /\ GateFirst(r) /\ OpenFirst(r)
    BY <2>1, NothingLeft, RenameFileIsOrderly
  <2>5. ~Idle(c) /\ ~Opening(c)
    BY <1>1, AtStep
  <2>6. ~Opening(c)'
    BY <2>3, <2>5 DEF Opening
  <2>7. steps' \in [Callers -> Seq(StepNames)] /\ \A d \in Callers : CallOK(d)'
    BY <1>1, <1>2, <2>1, <2>3, <2>4, <2>5, <2>6, GoesOn
  <2> QED BY <1>1, <2>3, <2>7 DEF IInv, Typed
<1> QED BY <1>3, <1>4

-----------------------------------------------------------------------------
(* The invariant is inductive.                                             *)

LEMMA CallKeeps ==
  ASSUME IInv, NEW c \in Callers, CallNext(c)
  PROVE  IInv'
<1>1. CASE Begin(c) \/ End(c)
  BY <1>1, BeginKeeps, EndKeeps
<1>2. CASE TakeGate(c) \/ GateTimesOut(c) \/ Ungate(c)
  BY <1>2, GateStepsKeep
<1>3. CASE OpenStarts(c) \/ OpenGoesOn(c) \/ CloseGoesOn(c)
  BY <1>3, OpenStartsKeeps, OpenGoesOnKeeps, CloseGoesOnKeeps
<1>4. CASE Ask(c) \/ AskFails(c) \/ NoMore(c)
  BY <1>4, AskKeeps, AskFailsKeeps
<1>5. CASE DropOne(c) \/ Look(c) \/ Tidy(c) \/ Keep(c) \/ Forget(c)
  BY <1>5, DropOneKeeps, LookKeeps, TidyKeeps, KeepKeeps, ForgetKeeps
<1>6. CASE Load(c) \/ Write(c) \/ WriteFails(c) \/ Readback(c) \/ Create(c)
  BY <1>6, LoadKeeps, WriteKeeps, WriteFailsKeeps
<1>7. CASE Pick(c) \/ Restore(c) \/ Sync(c)
  BY <1>7, PickKeeps, RestoreKeeps, SyncKeeps
<1>8. CASE Reclaim(c) \/ Shutdown(c) \/ Kill(c)
  BY <1>8, ReclaimKeeps, ShutdownKeeps, KillKeeps
<1> QED BY <1>1, <1>2, <1>3, <1>4, <1>5, <1>6, <1>7, <1>8 DEF CallNext

LEMMA NextKeeps ==
  ASSUME IInv, [Next]_vars
  PROVE  IInv'
<1>1. CASE Next
  BY <1>1, CallKeeps, EditKeeps DEF Next
<1>2. CASE UNCHANGED vars
  <2>1. UNCHANGED docVars /\ UNCHANGED <<gate, tool, steps, file, base, text, cache>>
    BY <1>2 DEF vars, pathVars
  <2>2. DocInv' /\ UNCHANGED <<opening, guards, closing>>
    BY <2>1, DocsSame DEF IInv, docVars, syncVars
  <2>3. \A c \in Callers : CallOK(c)'
    BY <2>1, <2>2 DEF IInv, CallOK, Guarded, Opening, Idle, Ready
  <2> QED BY <2>1, <2>2, <2>3 DEF IInv, Typed, CacheOK
<1> QED BY <1>1, <1>2

LEMMA Invariance == Spec => []IInv
<1>1. Init => IInv
  BY Initially
<1>2. IInv /\ [Next]_vars => IInv'
  BY NextKeeps
<1> QED BY <1>1, <1>2, PTL DEF Spec

\* The state is always well typed; a file is read for a write, written and read back only under
\* the write gate, and a call that has ended has given back the gate and all its guards
\* (write_gate.rs, the FileGuards of lsp-core/src/docsync.rs).
THEOREM TypeCorrect == Spec => []TypeOK
<1>1. IInv => TypeOK
  <2> SUFFICES ASSUME IInv PROVE TypeOK
    OBVIOUS
  <2>1. DocTypeOK
    BY TypeParts DEF IInv, DocInv
  <2>2. ASSUME NEW c \in Callers
        PROVE  /\ tool[c] \in Tools(c) \cup {None} /\ file[c] \in Files \cup {None}
               /\ base[c] \in [Files -> Nat] /\ text[c] \in Nat
               /\ Idle(c) => gate # c /\ guards[c] = NoText /\ steps[c] = <<>> /\ Ready(c)
    BY DEF IInv, Typed, CallOK
  <2>3. ASSUME NEW c \in Callers, NEW s \in {"load", "write", "readback"}, At(c, s)
        PROVE  gate = c
    BY <2>3, AtStep DEF Gated
  <2> QED BY <2>1, <2>2, <2>3 DEF TypeOK, IInv, Typed, CacheOK
<1> QED BY <1>1, Invariance, PTL

\* Session.buffers: the count of an entry is never more than the guards there are and the calls
\* that are about to get one, and it is just that many unless the file was closed under them.
THEOREM ReferencesAreCounted == Spec => []CountsAreGuards
<1>1. IInv => CountsAreGuards
  BY DEF IInv, DocInv, FileOK, CountsAreGuards
<1> QED BY <1>1, Invariance, PTL

\* What an entry of Session.buffers says of the document is what the language server has, unless
\* a message is due, the entry is marked, or calls have crossed on the file.
THEOREM EntriesStayTrue == Spec => []EntriesAreTrue
<1>1. IInv => EntriesAreTrue
  <2> SUFFICES ASSUME IInv, NEW f \in Buffered \ crossed, ~buffers[f].resync, Due(f) = {}
               PROVE  view[f].open /\ view[f].text >= buffers[f].stamp /\ view[f].version = buffers[f].version
    BY DEF EntriesAreTrue
  <2>1. f \in Files /\ buffers[f] # NoBuffer
    BY DEF Buffered
  <2> QED BY <2>1 DEF IInv, DocInv, FileOK, EntryOK
<1> QED BY <1>1, Invariance, PTL

-----------------------------------------------------------------------------
(* The table stays small.                                                  *)

NoNewEntry == \A g \in Files : buffers'[g] # NoBuffer => buffers[g] # NoBuffer

LEMMA DropsAddNothing ==
  ASSUME DocInv, NEW c, NEW f \in Files, NEW k, DropGuards(c, f, k)
  PROVE  NoNewEntry
<1>1. buffers \in [Files -> Buffers]
  BY DEF DocInv, RestOK
<1>2. CASE f \in Buffered
  <2>1. \E new : buffers' = [buffers EXCEPT ![f] = new]
    BY <1>2 DEF DropGuards
  <2> QED BY <1>1, <1>2, <2>1 DEF NoNewEntry, Buffered
<1>3. CASE f \notin Buffered
  BY <1>3 DEF DropGuards, NoNewEntry
<1> QED BY <1>2, <1>3

\* Of the steps of an ensure_open, only BookNew puts an entry into the table.
LEMMA OnlyBookNewAdds ==
  ASSUME DocInv, NEW c \in Callers, OpenSteps(c), ~BookNew(c)
  PROVE  NoNewEntry
<1>1. buffers \in [Files -> Buffers]
  BY DEF DocInv, RestOK
<1>2. CASE Read(c) \/ Drift(c) \/ Send(c) \/ SendRefused(c) \/ CloseNext(c)
  <2>1. UNCHANGED buffers
    BY <1>2 DEF Read, Drift, Send, SendRefused, CloseNext
  <2> QED BY <2>1 DEF NoNewEntry
<1>3. CASE BookAgain(c)
  <2>1. opening[c].file \in Buffered
    BY <1>3 DEF BookAgain
  <2>2. \E new : buffers' = [buffers EXCEPT ![opening[c].file] = new]
    BY <1>3 DEF BookAgain
  <2> QED BY <1>1, <2>1, <2>2 DEF NoNewEntry, Buffered
<1>4. CASE Settle(c)
  <2>1. CASE opening[c].file \in Buffered
    <3>1. \E new : buffers' = [buffers EXCEPT ![opening[c].file] = new]
      BY <1>4, <2>1 DEF Settle
    <3> QED BY <1>1, <2>1, <3>1 DEF NoNewEntry, Buffered
  <2>2. CASE opening[c].file \notin Buffered
    BY <1>4, <2>2 DEF Settle, NoNewEntry
  <2> QED BY <2>1, <2>2
<1>5. CASE Rollback(c)
  <2>1. PICK b : /\ buffers' = [buffers EXCEPT ![opening[c].file] = b]
                 /\ opening[c].file \notin Buffered => b = NoBuffer
    BY <1>5 DEF Rollback
  <2>2. opening[c].file \in Files
    BY <1>5, Looking DEF Rollback, Phases
  <2> QED BY <1>1, <2>1, <2>2 DEF NoNewEntry, Buffered
<1> QED BY <1>2, <1>3, <1>4, <1>5 DEF OpenSteps

LEMMA TakingOutAddsNothing ==
  ASSUME NEW c, NEW gone, NEW rest, TakeOut(c, gone, rest)
  PROVE  NoNewEntry
BY DEF TakeOut, NoNewEntry

LEMMA CallsAddOnlyByBookNew ==
  ASSUME IInv, NEW c \in Callers, CallNext(c)
  PROVE  NoNewEntry \/ BookNew(c)
<1>0. DocInv
  BY DEF IInv
<1>1. CASE End(c)
  <2>1. CASE UNCHANGED buffers
    BY <2>1 DEF NoNewEntry
  <2>2. CASE \E f \in Files : DropGuards(c, f, guards[c][f])
    BY <1>0, <2>2, DropsAddNothing
  <2> QED BY <1>1, <2>1, <2>2 DEF End
<1>2. CASE DropOne(c)
  BY <1>0, <1>2, AtStep, DropsAddNothing DEF DropOne
<1>3. CASE OpenGoesOn(c)
  BY <1>0, <1>3, OnlyBookNewAdds DEF OpenGoesOn
<1>4. CASE Reclaim(c) \/ Shutdown(c)
  BY <1>4, TakingOutAddsNothing DEF Reclaim, Shutdown, EvictIdle, EvictAll
<1>5. CASE Sync(c)
  <2>1. CASE UNCHANGED buffers
    BY <2>1 DEF NoNewEntry
  <2>2. CASE ForceClose(c, file[c])
    BY <2>2, TakingOutAddsNothing DEF ForceClose
  <2> QED BY <1>5, <2>1, <2>2 DEF Sync, syncVars
<1>6. CASE Begin(c) \/ TakeGate(c) \/ GateTimesOut(c) \/ Ungate(c) \/ OpenStarts(c) \/ CloseGoesOn(c)
  <2>1. UNCHANGED buffers
    BY <1>6 DEF Begin, TakeGate, GateTimesOut, Ungate, OpenStarts, CloseGoesOn, CloseNext, docVars, syncVars
  <2> QED BY <2>1 DEF NoNewEntry
<1>7. CASE Ask(c) \/ AskFails(c) \/ Look(c) \/ Tidy(c) \/ Keep(c) \/ Forget(c) \/ Pick(c) \/ NoMore(c) \/ Load(c)
  <2>1. UNCHANGED buffers
    BY <1>7 DEF Ask, AskFails, Look, Tidy, Keep, Forget, Pick, NoMore, Load, docVars, syncVars
  <2> QED BY <2>1 DEF NoNewEntry
<1>8. CASE Write(c) \/ WriteFails(c) \/ Readback(c) \/ Create(c) \/ Restore(c) \/ Kill(c)
  <2>1. UNCHANGED buffers
    BY <1>8 DEF Write, WriteFails, Readback, Create, Restore, Kill, docVars, syncVars
  <2> QED BY <2>1 DEF NoNewEntry
<1> QED BY <1>1, <1>2, <1>3, <1>4, <1>5, <1>6, <1>7, <1>8 DEF CallNext

\* A new file has put out as many as it must, or all that could go.
LEMMA BookNewMakesRoom ==
  ASSUME DocInv, NEW c \in Callers, BookNew(c)
  PROVE  Cardinality(Buffered') < Capacity \/ released' = <<>>
<1> DEFINE need == NeedEvict(Cardinality(Buffered) + 1)
           k == IF need < Len(released) THEN need ELSE Len(released)
           gone == ToSet(SubSeq(released, 1, k))
           rest == SubSeq(released, k + 1, Len(released))
           n == Cardinality(Buffered)
<1>1. PICK f, new : /\ f = opening[c].file /\ f \notin Buffered
                    /\ new.version = 1
                    /\ buffers' = [g \in Files |-> IF g = f THEN new ELSE IF g \in gone THEN NoBuffer
                                                   ELSE buffers[g]]
                    /\ released' = rest
  BY DEF BookNew
<1>2. f \in Files
  BY <1>1, Looking DEF BookNew, Phases
<1>3. /\ n \in Nat /\ IsFiniteSet(Buffered) /\ Capacity \in Nat \ {0}
      /\ released \in Seq(Files) /\ Len(released) \in Nat
  BY BufferedFinite, DocSyncAssumption DEF DocInv, ReleasedOK
<1>4. /\ n + 1 < Capacity => need = 0
      /\ ~(n + 1 < Capacity) => need = (n + 1) - (Capacity - 1)
      /\ need \in Nat
  BY <1>3 DEF NeedEvict
<1> HIDE DEF need, n
<1>5. k \in 0..Len(released)
  BY <1>3, <1>4
<1>6. /\ gone \subseteq Buffered /\ IsFiniteSet(gone) /\ Cardinality(gone) = k
      /\ k = Len(released) => rest = <<>>
  BY <1>5, RoomIs
<1>7. CASE k = Len(released)
  BY <1>1, <1>6, <1>7
<1>8. CASE k # Len(released)
  <2>1. k = need
    BY <1>8
  <2> HIDE DEF k, gone, rest
  <2>2. Buffered' = (Buffered \ gone) \cup {f}
    <3>1. NoBuffer.version = 0 /\ new # NoBuffer
      BY <1>1 DEF NoBuffer
    <3>2. \A g \in Files : buffers'[g] # NoBuffer <=> g = f \/ (g \notin gone /\ buffers[g] # NoBuffer)
      BY <1>1, <3>1
    <3> QED BY <1>2, <3>2 DEF Buffered
  <2>3. Cardinality(Buffered \ gone) = n - k /\ IsFiniteSet(Buffered \ gone)
    <3>1. Buffered \cap gone = gone
      BY <1>6
    <3>2. /\ IsFiniteSet(Buffered \ gone)
          /\ Cardinality(Buffered \ gone) = Cardinality(Buffered) - Cardinality(Buffered \cap gone)
      BY <1>3, FS_Difference
    <3> QED BY <1>6, <3>1, <3>2 DEF n
  <2>4. Cardinality(Buffered') = (n - k) + 1
    BY <1>1, <2>2, <2>3, FS_AddElement
  <2>5. (n - k) + 1 < Capacity
    BY <1>3, <1>4, <2>1
  <2> QED BY <2>4, <2>5
<1> QED BY <1>7, <1>8

\* evict_lru_idle_locked: when a file has been put into the table, the table is below its capacity
\* or every file in it is held.
THEOREM CapacityIsKept == Spec => TableStaysSmall
<1> DEFINE Room == \A f \in Files : f \notin Buffered /\ f \in Buffered' =>
                       Cardinality(Buffered') < Capacity \/ released' = <<>>
<1>1. IInv /\ [Next]_vars => [Room]_docVars
  <2> SUFFICES ASSUME IInv, [Next]_vars PROVE Room \/ UNCHANGED docVars
    OBVIOUS
  <2>1. ASSUME NoNewEntry PROVE Room
    BY <2>1 DEF NoNewEntry, Buffered
  <2>2. CASE UNCHANGED vars
    BY <2>2 DEF vars
  <2>3. CASE Edit
    <3>1. NoNewEntry
      BY <2>3 DEF Edit, NoNewEntry
    <3> QED BY <2>1, <3>1
  <2>4. ASSUME NEW c \in Callers, CallNext(c) PROVE Room
    BY <2>1, <2>4, CallsAddOnlyByBookNew, BookNewMakesRoom DEF IInv
  <2> QED BY <2>2, <2>3, <2>4 DEF Next
<1> QED BY <1>1, Invariance, PTL DEF Spec, TableStaysSmall

-----------------------------------------------------------------------------
(* Versions rise.                                                          *)

\* Only a message changes what the language server has, and whoever sends it crosses the others
\* that are due on the file.
LEMMA ViewChanges ==
  ASSUME IInv, NEW c \in Callers, CallNext(c), NEW f \in Files, view'[f] # view[f]
  PROVE  /\ (Send(c) /\ opening[c].file = f) \/ CloseNext(c)
         /\ Cross(c, f)
<1>1. view \in [Files -> [open : BOOLEAN, text : Nat, version : Nat]]
  BY DEF IInv, DocInv, RestOK
<1>2. CASE OpenGoesOn(c) \/ CloseGoesOn(c)
  <2>1. Send(c) \/ CloseNext(c)
    BY <1>2 DEF OpenGoesOn, CloseGoesOn, OpenSteps, Read, Drift, BookNew, BookAgain, SendRefused, Settle, Rollback
  <2>2. CASE Send(c)
    <3>1. PICK g, new : /\ g = opening[c].file /\ view' = [view EXCEPT ![g] = new] /\ Cross(c, g)
      BY <2>2 DEF Send
    <3>2. g = f
      BY <1>1, <3>1
    <3> QED BY <2>2, <3>1, <3>2
  <2>3. CASE CloseNext(c)
    <3>1. PICK g : /\ view' = [view EXCEPT ![g] = Unseen] \/ view' = view
                   /\ Cross(c, g)
      BY <2>3 DEF CloseNext
    <3>2. g = f
      BY <1>1, <3>1
    <3> QED BY <2>3, <3>1, <3>2
  <2> QED BY <2>1, <2>2, <2>3
<1>3. CASE Begin(c) \/ End(c) \/ TakeGate(c) \/ GateTimesOut(c) \/ Ungate(c) \/ OpenStarts(c) \/ DropOne(c)
  BY <1>3 DEF Begin, End, TakeGate, GateTimesOut, Ungate, OpenStarts, DropOne, docVars, syncVars
<1>4. CASE Ask(c) \/ AskFails(c) \/ Look(c) \/ Tidy(c) \/ Keep(c) \/ Forget(c) \/ Pick(c) \/ NoMore(c) \/ Load(c)
  BY <1>4 DEF Ask, AskFails, Look, Tidy, Keep, Forget, Pick, NoMore, Load, docVars, syncVars
<1>5. CASE Write(c) \/ WriteFails(c) \/ Readback(c) \/ Create(c) \/ Restore(c) \/ Kill(c)
  BY <1>5 DEF Write, WriteFails, Readback, Create, Restore, Kill, docVars, syncVars
<1>6. CASE Reclaim(c) \/ Shutdown(c) \/ Sync(c)
  BY <1>6 DEF Reclaim, Shutdown, Sync, EvictIdle, EvictAll, ForceClose, syncVars
<1> QED BY <1>2, <1>3, <1>4, <1>5, <1>6 DEF CallNext

\* send_doc_notification: a didChange bears a higher version than what the language server has,
\* whichever tools sent the two, and whatever was refused between them.
THEOREM ChangesRise == Spec => VersionsRise
<1> DEFINE Rise == \A c \in Callers, f \in Files \ crossed' :
                       InPhase(c, f, {"send"}) /\ Announces(c) = "didChange" /\ view'[f] # view[f] =>
                           view'[f].version > view[f].version
<1>1. IInv /\ [Next]_vars => [Rise]_docVars
  <2> SUFFICES ASSUME IInv, [Next]_vars PROVE Rise \/ UNCHANGED docVars
    OBVIOUS
  <2>1. CASE UNCHANGED vars
    BY <2>1 DEF vars
  <2>2. CASE Edit
    BY <2>2 DEF Edit
  <2>3. ASSUME NEW d \in Callers, CallNext(d) PROVE Rise
    <3> SUFFICES ASSUME NEW c \in Callers, NEW f \in Files \ crossed',
                        InPhase(c, f, {"send"}), Announces(c) = "didChange", view'[f] # view[f]
                 PROVE  view'[f].version > view[f].version
      OBVIOUS
    <3>1. /\ (Send(d) /\ opening[d].file = f) \/ CloseNext(d)
          /\ Cross(d, f)
      BY <2>3, ViewChanges
    <3>2. f \notin crossed /\ \A e \in Callers \ {d} : e \notin Due(f)
      BY <3>1, Alone
    <3>3. c \in Due(f)
      BY DEF Due, InPhase
    <3>4. d = c
      BY <3>2, <3>3
    <3>5. Send(c) /\ opening[c].file = f
      BY <3>1, <3>4 DEF InPhase, CloseNext
    <3>6. view[f].open /\ view[f].version < opening[c].version
      BY <3>2 DEF IInv, DocInv, FileOK, EntryOK, DueOK, InPhase
    <3>7. /\ view \in [Files -> [open : BOOLEAN, text : Nat, version : Nat]] /\ opening[c] \in Openings
      BY DEF IInv, DocInv, RestOK, PhasesOK
    <3>8. view'[f] = [open |-> TRUE, text |-> opening[c].text, version |-> opening[c].version]
      BY <3>5, <3>6, <3>7 DEF Send
    <3>9. view'[f].version = opening[c].version
      BY <3>8
    <3> QED BY <3>6, <3>7, <3>9 DEF Openings
  <2> QED BY <2>1, <2>2, <2>3 DEF Next
<1> QED BY <1>1, Invariance, PTL DEF Spec, VersionsRise

-----------------------------------------------------------------------------
(* What the language server has been told, and what it answers.            *)
(*                                                                         *)
(* While an entry stays in the table its version only rises.  A call that  *)
(* looks twice and finds one version has missed no text in between; what   *)
(* it sends, or finds sent already, is at least the text of its stamp.     *)
(* Under a guard this text stays: Arrived is not undone.  The rest of the  *)
(* invariant carries it, along the steps of a plan, from the ensure_open   *)
(* to the question, the answer and the write.                              *)

\* No entry is taken out of the table between the two looks that an ensure_open takes at it.
Undisturbed ==
    \A f \in Files : f \in Buffered /\ f \notin Buffered'
        => \A c \in Callers : ~InPhase(c, f, {"book"})

\* The language server has the text t or a later one, and no message will change that.
Arrived(f, t) ==
    /\ view[f].open /\ view[f].text >= t
    /\ \A d \in Callers : f \notin closing[d] /\ (InPhase(d, f, {"send"}) => opening[d].text >= t)

\* No text is later than the file.
TextsOK ==
    /\ \A f \in Files : view[f].text <= disk[f].stamp
    /\ \A c \in Callers : Opening(c) => opening[c].text <= disk[opening[c].file].stamp

\* Nothing later than the text t has been sent for f, or will be.
Upto(f, t) ==
    /\ view[f].text <= t
    /\ \A d \in Callers : InPhase(d, f, {"send"}) => opening[d].text <= t

\* An ensure_open that finds the entry as it saw it has the latest text there is.
LookOK(c) ==
    LET o == opening[c] IN
    o.phase = "book" =>
        /\ o.snap.version <= buffers[o.file].version
        /\ o.text = 0 => ~o.snap.resync
        /\ o.text # 0 /\ o.snap.version = buffers[o.file].version => Upto(o.file, o.text)

\* The language server has been told of the text that an ensure_open was called for.
ToldOK(c) ==
    opening[c].phase \in {"settle", "close"} /\ opening[c].file \notin crossed =>
        Arrived(opening[c].file, opening[c].stat)

TextsFit == TextsOK /\ \A c \in Callers : LookOK(c) /\ ToldOK(c)

\* The tools that edit inside a symbol, and those whose question must be about the file.
Editors == {"edit", "replace", "delete"}
Askers == Editors \cup {"outline"}

\* The steps that come before a call has read or written its file.
Early == {"gate", "ask", "create", "look", "sync"}

\* What comes before a step, what comes after it, and which steps a tool has.
Leads(t, s) ==
    \A i, k \in DOMAIN s : k = i + 1 =>
        /\ s[k] = "write" => s[i] = "load"
        /\ s[k] = "readback" => s[i] = "write"
        /\ s[k] = "keep" => s[i] = "ask"
        /\ t \in Askers => (s[k] = "ask" => s[i] \in {"open", "ask"}) /\ (s[k] = "load" => s[i] = "ask")
Lasts(s) ==
    \A i \in DOMAIN s :
        /\ s[i] \in {"load", "write", "create"} => \E k \in DOMAIN s : i < k /\ s[k] = "open"
        /\ \A k \in DOMAIN s : i < k =>
              s[i] # "pick" /\ (s[i] \in {"load", "write", "create"} => s[k] \notin Early)
Names(t, s) ==
    \A i \in DOMAIN s :
        /\ t \in Askers => s[i] \notin {"pick", "ungate"}
        /\ t = "outline" => s[i] # "gate"
        /\ t # "outline" => s[i] \notin {"look", "keep"}
StepsInOrder(t, s) == Leads(t, s) /\ Lasts(s) /\ Names(t, s)
AskGated(t, s) ==
    t \in Editors => \A i \in DOMAIN s : s[i] = "ask" => \E k \in DOMAIN s : k < i /\ s[k] = "gate"

\* A step of a kind is left; it is the next one.
Left(c, S) == \E i \in DOMAIN steps[c] : steps[c][i] \in S
Faces(c, s) == steps[c] # <<>> /\ Head(steps[c]) = s /\ ~Opening(c)

\* Not the first steps, and not the ones after an ensure_open.
Later(t) == {"write", "readback", "keep"} \cup (IF t \in Askers THEN {"load"} ELSE {})

\* The order of what is left, and what a call keeps of its file until then.
OrderOK(c) ==
    /\ StepsInOrder(tool[c], steps[c])
    /\ gate = c \/ AskGated(tool[c], steps[c])
    /\ tool[c] = "outline" => gate # c
    /\ Opening(c) /\ steps[c] # <<>> => Head(steps[c]) \notin Later(tool[c])
    /\ Idle(c) => file[c] = None
    /\ file[c] = None => text[c] = 0
    /\ text[c] # 0 /\ tool[c] # "outline" => ~Left(c, Early)

\* The text that a call has read or written is not later than the file; nor is the one under which
\* a kept answer will be found.
TextOK(c) == file[c] \in Files /\ ~Faces(c, "load") => text[c] <= disk[file[c]].stamp

\* An ensure_open under the gate is about the text that is there.
StatOK(c) ==
    Opening(c) =>
        /\ gate = c /\ file[c] \notin crossed => opening[c].stat = disk[file[c]].stamp
        /\ tool[c] = "outline" => text[c] <= opening[c].stat

\* A question is asked when the text it is about has arrived.
AskOK(c) ==
    tool[c] \in Askers /\ Faces(c, "ask") =>
        /\ guards[c][file[c]] > 0
        /\ file[c] \notin crossed =>
              Arrived(file[c], IF tool[c] = "outline" THEN text[c] ELSE disk[file[c]].stamp)

\* The answer is for the text of the file, which is the one that was read or written.
AnswerOK(c) ==
    /\ tool[c] \in Editors /\ (Faces(c, "load") \/ Faces(c, "write")) /\ file[c] \notin crossed =>
          base[c][file[c]] = disk[file[c]].stamp
    /\ Faces(c, "write") /\ file[c] \notin crossed => text[c] = disk[file[c]].stamp
    /\ Faces(c, "readback") /\ file[c] \notin crossed => disk[file[c]] = [there |-> TRUE, stamp |-> text[c]]
    /\ Faces(c, "keep") => /\ base[c][file[c]] <= disk[file[c]].stamp
                           /\ file[c] \notin crossed => text[c] <= base[c][file[c]]

\* What was written has arrived after the last ensure_open.
WroteOK(c) ==
    /\ gate = c /\ text[c] # 0 /\ ~Left(c, {"open"}) /\ opening[c].phase = "ok"
    /\ file[c] \notin crossed /\ file[c] \in Files /\ guards[c][file[c]] > 0
    => Arrived(file[c], text[c])

\* A kept answer was computed from the text of its key, or from a later one.
KeptOK ==
    \A e \in cache : e.text <= disk[e.file].stamp /\ (e.file \notin crossed => e.key <= e.text)

\* All that is true of a call, and of the documents, the kept answers and the calls.
CallFits(c) ==
    OrderOK(c) /\ TextOK(c) /\ StatOK(c) /\ AskOK(c) /\ AnswerOK(c) /\ WroteOK(c)

FitInv == TextsFit /\ KeptOK /\ \A c \in Callers : CallFits(c)

-----------------------------------------------------------------------------
(* What a step does to the documents.                                      *)

\* Under somebody's guard a text that has arrived is not taken back.
Kept ==
    \A f \in Files \ crossed', t \in Nat :
        Arrived(f, t) /\ buffers[f].refs > 0 => Arrived(f, t)'

\* A later text comes with a higher version.
Rising ==
    \A f \in Files, t \in Nat : Upto(f, t) => Upto(f, t)' \/ buffers'[f].version > buffers[f].version

\* Nobody who looks at an entry finds an earlier version of it.
Ahead ==
    \A f \in Files, d \in Callers :
        InPhase(d, f, {"book"}) => buffers'[f].version >= buffers[f].version

\* What the proofs below need of the types.
LEMMA DocTypes ==
  ASSUME DocInv
  PROVE  /\ RestOK /\ \A f \in Files : /\ disk[f].stamp \in Nat /\ disk[f].stamp > 0
                                      /\ view[f].text \in Nat /\ buffers[f] \in Buffers
                                      /\ buffers[f].version \in Nat /\ buffers[f].refs \in Nat
         /\ opening \in [Callers -> Openings]
         /\ \A c \in Callers : /\ opening[c] \in Openings /\ opening[c].text \in Nat /\ opening[c].stat \in Nat
                               /\ opening[c].snap.version \in Nat /\ opening[c].version \in Nat
                               /\ opening[c].phase \in Phases => opening[c].file \in Files
<1>1. RestOK /\ PhasesOK
  BY DEF DocInv
<1>2. ASSUME NEW f \in Files
      PROVE  /\ disk[f].stamp \in Nat /\ disk[f].stamp > 0 /\ view[f].text \in Nat /\ buffers[f] \in Buffers
             /\ buffers[f].version \in Nat /\ buffers[f].refs \in Nat
  <2>1. FileOK(f) /\ buffers[f] \in Buffers
    BY <1>1 DEF DocInv, RestOK
  <2> QED BY <1>1, <2>1 DEF RestOK, FileOK, Buffers
<1>3. ASSUME NEW c \in Callers
      PROVE  /\ opening[c] \in Openings /\ opening[c].text \in Nat /\ opening[c].stat \in Nat
             /\ opening[c].snap.version \in Nat /\ opening[c].version \in Nat
             /\ opening[c].phase \in Phases => opening[c].file \in Files
  <2>1. opening[c] \in Openings
    BY <1>1 DEF PhasesOK
  <2>2. opening[c].snap \in Buffers
    BY <2>1 DEF Openings
  <2> QED BY <1>1, <2>1, <2>2 DEF PhasesOK, Openings, Buffers
<1> QED BY <1>1, <1>2, <1>3 DEF PhasesOK

\* A file that a call holds is in the table, with a reference.
LEMMA HeldIsCounted ==
  ASSUME DocInv, NEW f \in Files, f \notin crossed, NEW c \in Callers,
         guards[c][f] > 0 \/ InPhase(c, f, {"send", "rollback", "settle", "close"})
  PROVE  buffers[f].refs > 0 /\ f \in Buffered
<1>1. guards \in [Callers -> [Files -> Nat]] /\ guards[c][f] \in Nat
  BY DEF DocInv, RestOK
<1>2. Held(c, f) > 0 /\ Held(c, f) \in Nat
  BY <1>1 DEF Held
<1>3. Held(c, f) <= Holders(f) /\ Holders(f) \in Nat
  BY <1>1, HoldersBound, HoldersType
<1>4. buffers[f].refs = Holders(f)
  BY DEF DocInv, FileOK
<1>5. NoBuffer.refs = 0
  BY DEF NoBuffer
<1> QED BY <1>2, <1>3, <1>4, <1>5 DEF Buffered

\* What a step does to each ensure_open.
LEMMA OthersAreTold ==
  ASSUME DocInv, DocInv', TextsFit, \A d \in Callers : opening'[d] = opening[d] \/ (LookOK(d)' /\ ToldOK(d)'),
         crossed \subseteq crossed', Ahead, Kept, Rising, TextsOK'
  PROVE  TextsFit'
<1> SUFFICES ASSUME NEW d \in Callers PROVE LookOK(d)' /\ ToldOK(d)'
  BY DEF TextsFit
<1>1. CASE LookOK(d)' /\ ToldOK(d)'
  BY <1>1
<1>2. CASE opening'[d] = opening[d]
  <2>1. opening'[d] = opening[d] /\ LookOK(d) /\ ToldOK(d)
    BY <1>2 DEF TextsFit
  <2>2. opening[d].text \in Nat /\ opening[d].stat \in Nat /\ opening[d].snap.version \in Nat
    BY DocTypes
  <2>3. LookOK(d)'
    <3> SUFFICES ASSUME opening[d].phase = "book"
                 PROVE  LookOK(d)'
      BY <2>1 DEF LookOK
    <3>0. PICK f \in Files : f = opening[d].file
      BY DocTypes DEF Phases
    <3>1. InPhase(d, f, {"book"})
      BY <3>0 DEF InPhase
    <3>2. buffers[f].version \in Nat /\ buffers'[f].version \in Nat /\ buffers'[f].version >= buffers[f].version
      BY <3>1, DocTypes DEF Ahead, DocInv, RestOK, Buffers
    <3>3. opening[d].snap.version <= buffers[f].version /\ (opening[d].text = 0 => ~opening[d].snap.resync)
      BY <2>1, <3>0 DEF LookOK
    <3>4. ASSUME opening[d].text # 0, opening[d].snap.version = buffers'[f].version
          PROVE  Upto(f, opening[d].text)'
      <4>1. opening[d].snap.version = buffers[f].version /\ ~(buffers'[f].version > buffers[f].version)
        BY <2>2, <3>2, <3>3, <3>4
      <4>4. PICK t \in Nat : t = opening[d].text
        BY <2>2
      <4>2. Upto(f, t)
        BY <2>1, <3>0, <3>4, <4>1, <4>4 DEF LookOK
      <4>5. Upto(f, t)'
        BY <4>1, <4>2 DEF Rising
      <4> QED BY <2>1, <4>4, <4>5
    <3>5. opening[d].snap.version <= buffers'[f].version
      BY <2>2, <3>2, <3>3
    <3> QED BY <2>1, <3>0, <3>3, <3>4, <3>5 DEF LookOK
  <2>4. ToldOK(d)'
    <3> SUFFICES ASSUME opening[d].phase \in {"settle", "close"}, opening[d].file \notin crossed'
                 PROVE  ToldOK(d)'
      BY <2>1 DEF ToldOK
    <3>0. PICK f \in Files, t \in Nat : f = opening[d].file /\ t = opening[d].stat
      BY <2>2, DocTypes DEF Phases
    <3>1. InPhase(d, f, {"send", "rollback", "settle", "close"}) /\ f \notin crossed
      BY <3>0 DEF InPhase
    <3>2. Arrived(f, t)
      BY <2>1, <3>0, <3>1 DEF ToldOK
    <3>3. buffers[f].refs > 0
      BY <3>1, HeldIsCounted
    <3>4. Arrived(f, t)'
      BY <3>0, <3>2, <3>3 DEF Kept
    <3> QED BY <2>1, <3>0, <3>4 DEF ToldOK
  <2> QED BY <2>3, <2>4
<1> QED BY <1>1, <1>2

\* An entry gets an earlier version only by being taken out.
LEMMA AheadIs ==
  ASSUME DocInv, Undisturbed,
         \A f \in Files : buffers'[f] = NoBuffer \/ buffers'[f].version >= buffers[f].version
  PROVE  Ahead
<1> SUFFICES ASSUME NEW f \in Files, NEW d \in Callers, InPhase(d, f, {"book"})
             PROVE  buffers'[f].version >= buffers[f].version
  BY DEF Ahead
<1>1. buffers[f].version \in Nat /\ NoBuffer.version = 0
  BY DocTypes DEF NoBuffer
<1>2. CASE f \in Buffered
  BY <1>2 DEF Undisturbed, Buffered
<1>3. CASE f \notin Buffered
  <2>1. buffers[f].version = 0
    BY <1>1, <1>3 DEF Buffered
  <2> QED BY <1>1, <2>1
<1> QED BY <1>2, <1>3

\* A step after which nothing new is sent.
LEMMA NothingSent ==
  ASSUME DocInv, \A f \in Files : view'[f] = view[f] \/ view'[f] = Unseen,
         \A d \in Callers : \/ opening'[d] = opening[d]
                            \/ opening'[d].phase # "send"
  PROVE  Rising
<1> SUFFICES ASSUME NEW f \in Files, NEW t \in Nat, Upto(f, t) PROVE Upto(f, t)'
  BY DEF Rising
<1>1. view'[f].text <= t
  BY DEF Upto, Unseen
<1> QED BY <1>1 DEF Upto, InPhase

\* A step that sends nothing, closes nothing, and takes no text up.
LEMMA Quiet ==
  ASSUME DocInv, DocInv', TextsFit, NEW c \in Callers, Ahead, crossed \subseteq crossed', view' = view,
         \A f \in Files : disk'[f].stamp >= disk[f].stamp,
         \A d \in Callers : closing'[d] \subseteq closing[d],
         \A d \in Callers \ {c} : opening'[d] = opening[d],
         \/ opening'[c] = opening[c]
         \/ /\ opening'[c].phase \in {"read", "rollback", "ok", "err"}
            /\ Opening(c)' => opening'[c].text <= disk'[opening'[c].file].stamp
  PROVE  TextsFit' /\ Kept
<1>1. \A f \in Files, t \in Nat : Arrived(f, t) => Arrived(f, t)'
  BY DEF Arrived, InPhase
<1>2. Kept
  BY <1>1 DEF Kept
<1>3. Rising
  BY NothingSent
<1>4. TextsOK'
  <2>1. \A f \in Files : view'[f].text <= disk'[f].stamp
    BY DocTypes DEF TextsFit, TextsOK, DocInv, RestOK
  <2>2. ASSUME NEW d \in Callers, Opening(d)' PROVE opening'[d].text <= disk'[opening'[d].file].stamp
    <3>1. CASE opening'[d] = opening[d]
      <4>1. Opening(d) /\ opening[d].file \in Files /\ opening[d].text \in Nat
        BY <2>2, <3>1, DocTypes DEF Opening
      <4>2. opening[d].text <= disk[opening[d].file].stamp
        BY <4>1 DEF TextsFit, TextsOK
      <4>3. PICK f \in Files : f = opening[d].file
        BY <4>1
      <4>4. disk'[f].stamp \in Nat /\ disk[f].stamp \in Nat /\ disk'[f].stamp >= disk[f].stamp
        BY DocTypes DEF DocInv, RestOK
      <4> QED BY <3>1, <4>1, <4>2, <4>3, <4>4
    <3>2. CASE opening'[d] # opening[d]
      BY <2>2, <3>2
    <3> QED BY <3>1, <3>2
  <2> QED BY <2>1, <2>2 DEF TextsOK
<1>5. \A d \in Callers : opening'[d] = opening[d] \/ (LookOK(d)' /\ ToldOK(d)')
  <2>1. opening'[c].phase \in {"read", "rollback", "ok", "err"} => LookOK(c)' /\ ToldOK(c)'
    BY DEF LookOK, ToldOK
  <2> QED BY <2>1
<1> QED BY <1>2, <1>3, <1>4, <1>5, OthersAreTold

\* The snapshot is of the entry as it is, and the text is the latest there is.
LEMMA ReadFits ==
  ASSUME DocInv, DocInv', TextsFit, NEW c \in Callers, Ahead, Read(c)
  PROVE  TextsFit' /\ Kept
<1>1. /\ opening[c].phase = "read" /\ opening[c].phase \in Phases
      /\ UNCHANGED <<disk, buffers, view, closing, crossed>>
  BY DEF Read, Phases
<1>2. PICK f \in Files : f = opening[c].file
  BY <1>1, DocTypes
<1> DEFINE o == opening[c]
           p == [o EXCEPT !.phase = "book", !.snap = Snapshot(f), !.text = 0]
           q == [o EXCEPT !.phase = "book", !.snap = Snapshot(f), !.text = disk[f].stamp]
<1>3. o \in Openings /\ opening \in [Callers -> Openings]
  BY DocTypes
<1>4. /\ p.phase = "book" /\ p.file = f /\ p.snap = Snapshot(f) /\ p.text = 0
      /\ q.phase = "book" /\ q.file = f /\ q.snap = Snapshot(f) /\ q.text = disk[f].stamp
  BY <1>2, <1>3 DEF Openings
<1>5. PICK n \in {p, q, Ended("err")} :
        opening' = [opening EXCEPT ![c] = n] /\ (n = p => ~Snapshot(f).resync)
  <2>1. opening' = [opening EXCEPT ![c] = IF IsUnchanged(Snapshot(f), o.stat) THEN p
                                          ELSE IF disk[f].there THEN q ELSE Ended("err")]
    BY <1>2 DEF Read
  <2> HIDE DEF p, q
  <2>2. p # q
    <3>1. disk[f].stamp > 0 /\ disk[f].stamp \in Nat
      BY DocTypes
    <3> QED BY <1>4, <3>1
  <2>3. p # Ended("err")
    BY <1>4, EndedIs
  <2> QED BY <2>1, <2>2, <2>3 DEF IsUnchanged
<1> HIDE DEF p, q
<1>6. opening'[c] = n /\ \A d \in Callers \ {c} : opening'[d] = opening[d]
  BY <1>3, <1>5
<1>7. /\ disk[f].stamp \in Nat /\ disk[f].stamp > 0 /\ buffers[f].version \in Nat
      /\ Snapshot(f).version = buffers[f].version
  BY DocTypes, SnapshotIs DEF Snapshot, Buffers
<1>8. \A d \in Callers : opening'[d] = opening[d] \/ opening'[d].phase # "send"
  BY <1>4, <1>5, <1>6, EndedIs
<1>9. Kept
  <2> SUFFICES ASSUME NEW g \in Files, NEW t \in Nat, Arrived(g, t) PROVE Arrived(g, t)'
    BY DEF Kept
  <2> QED BY <1>1, <1>8 DEF Arrived, InPhase
<1>10. Rising
  BY <1>1, <1>8, NothingSent
<1>11. Upto(f, disk[f].stamp)'
  <2>1. view[f].text <= disk[f].stamp
    BY DEF TextsFit, TextsOK
  <2>2. ASSUME NEW d \in Callers, InPhase(d, f, {"send"}) PROVE opening[d].text <= disk[f].stamp
    BY <2>2 DEF TextsFit, TextsOK, InPhase, Opening, Phases
  <2> QED BY <1>1, <1>8, <2>1, <2>2 DEF Upto, InPhase
<1>12. TextsOK'
  <2>1. \A g \in Files : view'[g].text <= disk'[g].stamp
    BY <1>1 DEF TextsFit, TextsOK
  <2>2. Opening(c)' => opening'[c].text <= disk'[opening'[c].file].stamp
    BY <1>1, <1>4, <1>5, <1>6, <1>7, EndedIs DEF Opening
  <2>3. \A d \in Callers \ {c} : Opening(d)' => opening'[d].text <= disk'[opening'[d].file].stamp
    BY <1>1, <1>6 DEF TextsFit, TextsOK, Opening
  <2> QED BY <2>1, <2>2, <2>3 DEF TextsOK
<1>13. LookOK(c)' /\ ToldOK(c)'
  <2>1. CASE n = p
    BY <1>1, <1>4, <1>5, <1>6, <1>7, <2>1 DEF LookOK, ToldOK
  <2>2. CASE n = q
    <3>1. PICK s \in Nat : s = disk[f].stamp /\ s > 0 /\ Upto(f, s)'
      BY <1>1, <1>7, <1>11
    <3> QED BY <1>1, <1>4, <1>6, <1>7, <2>2, <3>1 DEF LookOK, ToldOK
  <2>3. CASE n = Ended("err")
    BY <1>6, <2>3, EndedIs DEF LookOK, ToldOK
  <2> QED BY <1>5, <2>1, <2>2, <2>3
<1>14. \A d \in Callers : opening'[d] = opening[d] \/ (LookOK(d)' /\ ToldOK(d)')
  BY <1>6, <1>13
<1> QED BY <1>1, <1>9, <1>10, <1>12, <1>14, OthersAreTold

\* The new entry starts with its first version, and what goes for it has no reference.
LEMMA BookNewFits ==
  ASSUME DocInv, DocInv', TextsFit, NEW c \in Callers, Ahead, BookNew(c)
  PROVE  TextsFit' /\ Kept
<1>1. /\ opening[c].phase = "book" /\ opening[c].phase \in Phases /\ opening[c].file \notin Buffered
      /\ UNCHANGED <<disk, view, guards>>
  BY DEF BookNew, Phases
<1>2. PICK f \in Files : f = opening[c].file
  BY <1>1, DocTypes
<1> DEFINE need == NeedEvict(Cardinality(Buffered) + 1)
           k == IF need < Len(released) THEN need ELSE Len(released)
           gone == ToSet(SubSeq(released, 1, k))
           new == [stamp |-> opening[c].stat, version |-> 1, refs |-> 1, resync |-> FALSE]
           p == [opening[c] EXCEPT !.phase = "send", !.version = 1]
<1>3. /\ buffers' = [g \in Files |-> IF g = f THEN new ELSE IF g \in gone THEN NoBuffer ELSE buffers[g]]
      /\ closing' = [closing EXCEPT ![c] = gone]
      /\ crossed' = crossed \cup {g \in {f} \cup gone : Due(g) \ {c} # {}}
      /\ opening' = [opening EXCEPT ![c] = p]
  BY <1>2 DEF BookNew
<1>4. \A g \in gone : buffers[g].refs = 0
  <2>1. /\ Len(released) \in Nat /\ need \in Nat
    BY BufferedFinite, DocSyncAssumption DEF NeedEvict, DocInv, ReleasedOK
  <2>2. k \in 0..Len(released)
    BY <2>1
  <2> HIDE DEF k
  <2> QED BY <2>2, RoomIs
<1> HIDE DEF gone
<1>5. p.phase = "send" /\ p.file = f /\ p.text = opening[c].text
  BY <1>2, DocTypes DEF Openings
<1> HIDE DEF p
<1>6. /\ opening'[c] = p /\ \A d \in Callers \ {c} : opening'[d] = opening[d]
      /\ closing'[c] = gone /\ \A d \in Callers \ {c} : closing'[d] = closing[d]
  BY <1>3, DocTypes DEF RestOK
<1>7. buffers[f].version = 0 /\ buffers[f].refs = 0 /\ buffers'[f].version = 1
  BY <1>1, <1>2, <1>3 DEF Buffered, NoBuffer
<1>8. Kept
  <2> SUFFICES ASSUME NEW g \in Files, NEW t \in Nat, Arrived(g, t), buffers[g].refs > 0
               PROVE  Arrived(g, t)'
    BY DEF Kept
  <2>1. g # f /\ g \notin gone
    BY <1>4, <1>7
  <2>2. ASSUME NEW d \in Callers
        PROVE  g \notin closing'[d] /\ (InPhase(d, g, {"send"})' => opening'[d].text >= t)
    BY <1>5, <1>6, <2>1 DEF Arrived, InPhase
  <2> QED BY <1>1, <2>2 DEF Arrived
<1>9. Rising
  <2> SUFFICES ASSUME NEW g \in Files, NEW t \in Nat, Upto(g, t), g # f PROVE Upto(g, t)'
    BY <1>7 DEF Rising
  <2>1. \A d \in Callers : InPhase(d, g, {"send"})' => InPhase(d, g, {"send"}) /\ opening'[d] = opening[d]
    BY <1>5, <1>6 DEF InPhase
  <2> QED BY <1>1, <2>1 DEF Upto
<1>10. TextsOK'
  BY <1>1, <1>2, <1>5, <1>6 DEF TextsFit, TextsOK, Opening
<1>11. \A d \in Callers : opening'[d] = opening[d] \/ (LookOK(d)' /\ ToldOK(d)')
  BY <1>5, <1>6 DEF LookOK, ToldOK
<1> QED BY <1>3, <1>8, <1>9, <1>10, <1>11, OthersAreTold

\* A new text bears the next version, and it is the latest, for the entry is as it was found.
LEMMA BookAgainFits ==
  ASSUME DocInv, DocInv', TextsFit, NEW c \in Callers, Ahead, BookAgain(c)
  PROVE  TextsFit' /\ Kept
<1>1. /\ opening[c].phase = "book" /\ opening[c].phase \in Phases /\ opening[c].file \in Buffered
      /\ Snapshot(opening[c].file) = opening[c].snap
      /\ UNCHANGED <<disk, view, closing>>
  BY DEF BookAgain, Phases
<1>2. PICK f \in Files, s \in Nat : f = opening[c].file /\ s = opening[c].text
  BY <1>1, DocTypes
<1>3. crossed \subseteq crossed'
  BY <1>2 DEF BookAgain, Cross
<1>4. CASE s = 0
  <2>1. opening' = [opening EXCEPT ![c] = Ended("ok")]
    BY <1>2, <1>4 DEF BookAgain
  <2>2. opening'[c] = Ended("ok") /\ \A d \in Callers \ {c} : opening'[d] = opening[d]
    BY <2>1, DocTypes
  <2>3. opening'[c].phase = "ok" /\ ~Opening(c)'
    BY <2>2, EndedIs DEF Opening
  <2>4. \A g \in Files : disk'[g].stamp >= disk[g].stamp
    BY <1>1, DocTypes
  <2> QED BY <1>1, <1>3, <2>2, <2>3, <2>4, Quiet
<1>5. CASE s # 0
  <2> DEFINE b == buffers[f]
             new == [stamp |-> opening[c].stat, version |-> NextVersion(b), refs |-> b.refs + 1, resync |-> b.resync]
             p == [opening[c] EXCEPT !.phase = "send", !.version = NextVersion(b)]
  <2>1. buffers' = [buffers EXCEPT ![f] = new] /\ opening' = [opening EXCEPT ![c] = p]
    BY <1>2, <1>5 DEF BookAgain
  <2>2. buffers'[f].version = buffers[f].version + 1 /\ \A g \in Files \ {f} : buffers'[g] = buffers[g]
    BY <2>1, DocTypes DEF NextVersion, RestOK
  <2>3. p.phase = "send" /\ p.file = f /\ p.text = s
    BY <1>2, DocTypes DEF Openings
  <2> HIDE DEF p
  <2>4. opening'[c] = p /\ \A d \in Callers \ {c} : opening'[d] = opening[d]
    BY <2>1, DocTypes
  <2>5. Upto(f, s)
    <3>1. opening[c].snap.version = buffers[f].version
      BY <1>1, <1>2, SnapshotIs
    <3> QED BY <1>1, <1>2, <1>5, <3>1 DEF TextsFit, LookOK
  <2>6. Kept
    <3> SUFFICES ASSUME NEW g \in Files, NEW t \in Nat, Arrived(g, t) PROVE Arrived(g, t)'
      BY DEF Kept
    <3>1. g = f => s >= t
      <4>1. view[f].text \in Nat /\ view[f].text <= s
        BY <2>5, DocTypes DEF Upto
      <4> QED BY <4>1 DEF Arrived
    <3>2. ASSUME NEW d \in Callers
          PROVE  g \notin closing'[d] /\ (InPhase(d, g, {"send"})' => opening'[d].text >= t)
      BY <1>1, <2>3, <2>4, <3>1 DEF Arrived, InPhase
    <3> QED BY <1>1, <3>2 DEF Arrived
  <2>7. Rising
    <3> SUFFICES ASSUME NEW g \in Files, NEW t \in Nat, Upto(g, t), g # f PROVE Upto(g, t)'
      BY <2>2, DocTypes DEF Rising
    <3>1. \A d \in Callers : InPhase(d, g, {"send"})' => InPhase(d, g, {"send"}) /\ opening'[d] = opening[d]
      BY <2>3, <2>4 DEF InPhase
    <3> QED BY <1>1, <3>1 DEF Upto
  <2>8. TextsOK'
    BY <1>1, <1>2, <2>3, <2>4 DEF TextsFit, TextsOK, Opening
  <2>9. \A d \in Callers : opening'[d] = opening[d] \/ (LookOK(d)' /\ ToldOK(d)')
    BY <2>3, <2>4 DEF LookOK, ToldOK
  <2> QED BY <1>3, <2>6, <2>7, <2>8, <2>9, OthersAreTold
<1> QED BY <1>4, <1>5

\* Where no other call is due on the file, its text has arrived.
LEMMA SendArrives ==
  ASSUME DocInv, DocInv', NEW c \in Callers, Send(c), NEW f \in Files, f = opening[c].file, f \notin crossed',
         NEW t, t = opening[c].stat
  PROVE  Arrived(f, t)'
<1>1. /\ opening[c].phase = "send" /\ opening[c].phase \in Phases /\ Cross(c, f) /\ UNCHANGED closing
      /\ view' = [view EXCEPT ![f] = IF Announces(c) = "didChange" /\ ~@.open THEN @
                                     ELSE [open |-> TRUE, text |-> opening[c].text, version |-> opening[c].version]]
  BY DEF Send, Phases
<1>2. f \notin crossed /\ \A d \in Callers \ {c} : d \notin Due(f)
  BY <1>1, Alone
<1>3. DueOK(c, f) /\ InPhase(c, f, {"send", "rollback"}) /\ opening[c].text >= opening[c].stat
  BY <1>1, <1>2 DEF DocInv, FileOK, EntryOK, InPhase, OpenOK, Active
<1>4. f \notin closing[c] /\ (Announces(c) = "didChange" => view[f].open)
  BY <1>3 DEF DueOK
<1>5. view'[f] = [open |-> TRUE, text |-> opening[c].text, version |-> opening[c].version]
  BY <1>1, <1>4, DocTypes DEF RestOK
<1>6. \A d \in Callers \ {c} : f \notin closing'[d] /\ ~InPhase(d, f, {"send"})'
  <2>1. \A d \in Callers \ {c} : opening'[d] = opening[d]
    BY DocTypes DEF Send, Goto, Opened
  <2> QED BY <1>1, <1>2, <2>1 DEF Due, InPhase
<1>7. opening'[c].phase # "send"
  BY DocTypes, EndedIs DEF Send, Goto, Opened, Openings
<1>8. \A d \in Callers : f \notin closing'[d] /\ ~InPhase(d, f, {"send"})'
  BY <1>1, <1>4, <1>6, <1>7 DEF InPhase
<1>9. view'[f].open /\ view'[f].text >= t
  BY <1>3, <1>5
<1> QED BY <1>8, <1>9 DEF Arrived

\* A message is of the latest text.
LEMMA SendFits ==
  ASSUME DocInv, DocInv', TextsFit, NEW c \in Callers, Ahead, Send(c)
  PROVE  TextsFit' /\ Kept
<1>1. /\ opening[c].phase = "send" /\ opening[c].phase \in Phases
      /\ UNCHANGED <<disk, buffers, closing>>
  BY DEF Send, Phases
<1>2. PICK f \in Files, s \in Nat, a \in Nat : f = opening[c].file /\ s = opening[c].text /\ a = opening[c].stat
  BY <1>1, DocTypes
<1>3. /\ \A g \in Files \ {f} : view'[g] = view[g]
      /\ \/ view'[f] = view[f]
         \/ view'[f].open /\ view'[f].text = s
  <2>1. PICK n : /\ view' = [view EXCEPT ![f] = n]
                 /\ n = view[f] \/ n = [open |-> TRUE, text |-> s, version |-> opening[c].version]
    BY <1>2 DEF Send
  <2> QED BY <2>1, DocTypes DEF RestOK
<1>4. view[f].open => view'[f].open
  BY <1>3
<1>5. crossed \subseteq crossed'
  BY <1>2 DEF Send, Cross
<1>6. \/ opening' = [opening EXCEPT ![c] = Ended("ok")]
      \/ \E phase \in {"close", "settle"} : opening' = [opening EXCEPT ![c] = [opening[c] EXCEPT !.phase = phase]]
  BY DocTypes DEF Send, Goto, Opened
<1>7. /\ \A d \in Callers \ {c} : opening'[d] = opening[d]
      /\ \/ opening'[c] = Ended("ok")
         \/ /\ opening'[c].phase \in {"close", "settle"} /\ opening'[c].file = f
            /\ opening'[c].text = s /\ opening'[c].stat = a
  BY <1>2, <1>6, DocTypes DEF Openings
<1>8. \A d \in Callers : InPhase(d, f, {"send"})' => InPhase(d, f, {"send"}) /\ opening'[d] = opening[d]
  BY <1>7, EndedIs DEF InPhase
<1>9. \A d \in Callers, g \in Files : InPhase(d, g, {"send"})' => InPhase(d, g, {"send"}) /\ opening'[d] = opening[d]
  BY <1>7, EndedIs DEF InPhase
<1>10. InPhase(c, f, {"send"})
  BY <1>1, <1>2 DEF InPhase
<1>11. Kept
  <2> SUFFICES ASSUME NEW g \in Files, NEW t \in Nat, Arrived(g, t) PROVE Arrived(g, t)'
    BY DEF Kept
  <2>1. view'[g].open /\ view'[g].text >= t
    BY <1>2, <1>3, <1>4, <1>10 DEF Arrived
  <2> QED BY <1>1, <1>9, <2>1 DEF Arrived
<1>12. Rising
  <2> SUFFICES ASSUME NEW g \in Files, NEW t \in Nat, Upto(g, t) PROVE Upto(g, t)'
    BY DEF Rising
  <2>1. view'[g].text <= t
    BY <1>2, <1>3, <1>10 DEF Upto
  <2> QED BY <1>9, <2>1 DEF Upto
<1>13. TextsOK'
  <2>1. s <= disk[f].stamp
    BY <1>1, <1>2 DEF TextsFit, TextsOK, Opening
  <2>2. \A g \in Files : view'[g].text <= disk'[g].stamp
    BY <1>1, <1>3, <2>1 DEF TextsFit, TextsOK
  <2>3. ASSUME NEW d \in Callers, Opening(d)' PROVE opening'[d].text <= disk'[opening'[d].file].stamp
    <3>1. CASE d = c
      BY <1>1, <1>7, <2>1, <2>3, <3>1, EndedIs DEF Opening
    <3>2. CASE d # c
      BY <1>1, <1>7, <2>3, <3>2 DEF TextsFit, TextsOK, Opening
    <3> QED BY <3>1, <3>2
  <2> QED BY <2>2, <2>3 DEF TextsOK
<1>14. LookOK(c)' /\ ToldOK(c)'
  <2>1. f \notin crossed' => Arrived(f, a)'
    BY <1>2, SendArrives
  <2> QED BY <1>7, <2>1, EndedIs DEF LookOK, ToldOK
<1>15. \A d \in Callers : opening'[d] = opening[d] \/ (LookOK(d)' /\ ToldOK(d)')
  BY <1>7, <1>14
<1> QED BY <1>5, <1>11, <1>12, <1>13, <1>15, OthersAreTold

\* A document that is closed has nobody's guard, unless calls have crossed.
LEMMA CloseNextFits ==
  ASSUME DocInv, DocInv', TextsFit, NEW c \in Callers, Ahead, CloseNext(c)
  PROVE  TextsFit' /\ Kept
<1>1. PICK f \in closing[c] : /\ closing' = [closing EXCEPT ![c] = @ \ {f}]
                              /\ view' = [view EXCEPT ![f] = Unseen] \/ view' = view
                              /\ Cross(c, f)
  BY DEF CloseNext
<1>2. /\ opening' = opening \/ opening' = [opening EXCEPT ![c] = Ended("ok")]
      /\ UNCHANGED <<disk, buffers>>
  BY DEF CloseNext, Opened
<1>3. f \in Files /\ crossed \subseteq crossed'
  BY <1>1, DocTypes DEF RestOK, Cross
<1>4. /\ \A g \in Files \ {f} : view'[g] = view[g]
      /\ view'[f] = view[f] \/ view'[f] = Unseen
      /\ \A d \in Callers : closing'[d] \subseteq closing[d]
  BY <1>1, <1>3, DocTypes DEF RestOK
<1>5. \A d \in Callers : opening'[d] = opening[d] \/ opening'[d] = Ended("ok")
  BY <1>2, DocTypes
<1>6. \A d \in Callers, g \in Files : InPhase(d, g, {"send"})' => InPhase(d, g, {"send"}) /\ opening'[d] = opening[d]
  BY <1>5, EndedIs DEF InPhase
<1>7. Kept
  <2> SUFFICES ASSUME NEW g \in Files, NEW t \in Nat, Arrived(g, t) PROVE Arrived(g, t)'
    BY DEF Kept
  <2>1. g # f
    BY <1>1 DEF Arrived
  <2> QED BY <1>4, <1>6, <2>1 DEF Arrived
<1>8. Rising
  BY <1>4, <1>5, EndedIs, NothingSent
<1>9. TextsOK'
  <2>1. \A g \in Files : view'[g].text <= disk'[g].stamp
    BY <1>2, <1>4, DocTypes DEF TextsFit, TextsOK, Unseen
  <2>2. \A d \in Callers : Opening(d)' => opening'[d].text <= disk'[opening'[d].file].stamp
    BY <1>2, <1>5, EndedIs DEF TextsFit, TextsOK, Opening
  <2> QED BY <2>1, <2>2 DEF TextsOK
<1>10. \A d \in Callers : opening'[d] = opening[d] \/ (LookOK(d)' /\ ToldOK(d)')
  <2>1. \A d \in Callers : opening'[d] = Ended("ok") => LookOK(d)' /\ ToldOK(d)'
    BY EndedIs DEF LookOK, ToldOK
  <2> QED BY <1>5, <2>1
<1> QED BY <1>3, <1>7, <1>8, <1>9, <1>10, OthersAreTold

\* The version of an entry does not fall.
Standing == \A f \in Files : buffers'[f] = NoBuffer \/ buffers'[f].version >= buffers[f].version

\* A new version of one entry, none of another.
LEMMA OneEntryStands ==
  ASSUME DocInv, NEW f \in Files, NEW b, b = NoBuffer \/ b.version >= buffers[f].version,
         buffers' = [buffers EXCEPT ![f] = b]
  PROVE  Standing
<1>1. buffers'[f] = b /\ \A g \in Files \ {f} : buffers'[g] = buffers[g]
  BY DocTypes DEF RestOK
<1>2. \A g \in Files : buffers[g].version \in Nat
  BY DocTypes
<1> QED BY <1>1, <1>2 DEF Standing

\* No entry changes.
LEMMA SameStands ==
  ASSUME DocInv, UNCHANGED buffers
  PROVE  Standing
BY DocTypes DEF Standing

\* Versions do not fall while the entry stays.
LEMMA OpenStepsStand ==
  ASSUME DocInv, NEW c \in Callers, OpenSteps(c)
  PROVE  Standing
<1>1. CASE Read(c) \/ Drift(c) \/ Send(c) \/ SendRefused(c) \/ CloseNext(c)
  BY <1>1, SameStands DEF Read, Drift, Send, SendRefused, CloseNext
<1>2. CASE BookNew(c)
  <2>0. PICK need, k, gone, new :
          /\ need = NeedEvict(Cardinality(Buffered) + 1)
          /\ k = IF need < Len(released) THEN need ELSE Len(released)
          /\ gone = ToSet(SubSeq(released, 1, k))
          /\ new = [stamp |-> opening[c].stat, version |-> 1, refs |-> 1, resync |-> FALSE]
    OBVIOUS
  <2>3. PICK f : f = opening[c].file
    OBVIOUS
  <2>1. /\ f \notin Buffered /\ new.version = 1
        /\ buffers' = [g \in Files |-> IF g = f THEN new ELSE IF g \in gone THEN NoBuffer ELSE buffers[g]]
    BY <1>2, <2>0, <2>3 DEF BookNew
  <2>2. ASSUME NEW g \in Files PROVE buffers'[g] = NoBuffer \/ buffers'[g].version >= buffers[g].version
    <3>1. g = f => buffers[g].version = 0
      BY <2>1 DEF Buffered, NoBuffer
    <3> QED BY <2>1, <3>1, DocTypes
  <2> QED BY <2>2 DEF Standing
<1>3. CASE BookAgain(c) \/ Settle(c) \/ Rollback(c)
  <2>1. PICK f \in Files : f = opening[c].file
    BY <1>3, DocTypes DEF BookAgain, Settle, Rollback, Phases
  <2>2. CASE UNCHANGED buffers
    BY <2>2, SameStands
  <2>3. CASE BookAgain(c)
    <3>1. PICK b : /\ buffers' = [buffers EXCEPT ![f] = b]
                   /\ \/ b = [buffers[f] EXCEPT !.refs = @ + 1]
                      \/ b.version = NextVersion(buffers[f])
      BY <2>1, <2>3 DEF BookAgain
    <3>2. b.version >= buffers[f].version
      BY <3>1, DocTypes DEF NextVersion, Buffers
    <3> QED BY <3>1, <3>2, OneEntryStands
  <2>4. CASE Settle(c) /\ ~UNCHANGED buffers
    <3>1. PICK b : /\ buffers' = [buffers EXCEPT ![f] = b]
                   /\ b = [buffers[f] EXCEPT !.resync = FALSE]
      BY <2>1, <2>4 DEF Settle
    <3>2. b.version >= buffers[f].version
      BY <3>1, DocTypes DEF Buffers
    <3> QED BY <3>1, <3>2, OneEntryStands
  <2>5. CASE Rollback(c)
    <3>1. PICK b : /\ buffers' = [buffers EXCEPT ![f] = b]
                   /\ b = NoBuffer \/ b = RolledBack(buffers[f], Announces(c))
      BY <2>1, <2>5 DEF Rollback
    <3>2. RolledBack(buffers[f], Announces(c)).version = buffers[f].version
      BY DocTypes DEF RolledBack, Buffers
    <3>3. b = NoBuffer \/ b.version >= buffers[f].version
      BY <3>1, <3>2, DocTypes
    <3> QED BY <3>1, <3>3, OneEntryStands
  <2> QED BY <1>3, <2>2, <2>3, <2>4, <2>5
<1> QED BY <1>1, <1>2, <1>3 DEF OpenSteps

\* The steps of an ensure_open.
LEMMA OpenStepsFit ==
  ASSUME DocInv, TextsFit, NEW c \in Callers, OpenSteps(c), Undisturbed
  PROVE  TextsFit' /\ Kept
<1>1. DocInv' /\ Ahead
  BY OpenStepsKeepDocs, OpenStepsStand, AheadIs DEF Standing
<1>2. CASE Read(c) \/ BookNew(c) \/ BookAgain(c) \/ Send(c) \/ CloseNext(c)
  BY <1>1, <1>2, ReadFits, BookNewFits, BookAgainFits, SendFits, CloseNextFits
<1>3. CASE Drift(c) \/ SendRefused(c) \/ Settle(c) \/ Rollback(c)
  <2>1. /\ opening[c].phase \in Phases /\ UNCHANGED <<disk, view>>
        /\ closing' = closing \/ closing' = [closing EXCEPT ![c] = {}]
    BY <1>3 DEF Drift, SendRefused, Settle, Rollback, Phases
  <2>2. crossed \subseteq crossed'
    BY <1>3 DEF Drift, SendRefused, Settle, Rollback, Cross
  <2>3. \A d \in Callers : closing'[d] \subseteq closing[d]
    BY <2>1, DocTypes DEF RestOK
  <2>4. \A f \in Files : disk'[f].stamp >= disk[f].stamp
    BY <2>1, DocTypes
  <2>5. \/ \E how \in {"ok", "err"} : opening' = [opening EXCEPT ![c] = Ended(how)]
        \/ \E phase \in {"read", "rollback"} : opening' = [opening EXCEPT ![c] = [opening[c] EXCEPT !.phase = phase]]
    BY <1>3, DocTypes DEF Drift, SendRefused, Settle, Rollback, Goto, Opened
  <2>6. /\ \A d \in Callers \ {c} : opening'[d] = opening[d]
        /\ \/ opening'[c].phase \in {"ok", "err"}
           \/ /\ opening'[c].phase \in {"read", "rollback"} /\ opening'[c].file = opening[c].file
              /\ opening'[c].text = opening[c].text
    BY <2>5, DocTypes, EndedIs DEF Openings
  <2>7. Opening(c)' => opening'[c].text <= disk'[opening'[c].file].stamp
    BY <2>1, <2>6 DEF TextsFit, TextsOK, Opening, Phases
  <2> QED BY <1>1, <2>1, <2>2, <2>3, <2>4, <2>6, <2>7, Quiet
<1> QED BY <1>2, <1>3 DEF OpenSteps

\* Entries that are taken out have nobody's guard, unless calls cross.
LEMMA TakeOutFits ==
  ASSUME DocInv, DocInv', TextsFit, NEW c \in Callers, NEW gone, NEW rest, gone \subseteq Buffered, Undisturbed,
         TakeOut(c, gone, rest), closing[c] = {}, UNCHANGED <<disk, view, opening, guards, over>>
  PROVE  TextsFit' /\ Kept
<1>1. /\ buffers' = [g \in Files |-> IF g \in gone THEN NoBuffer ELSE buffers[g]]
      /\ closing' = [closing EXCEPT ![c] = gone]
      /\ crossed' = crossed \cup {g \in gone : Due(g) \ {c} # {} \/ Holders(g) > 0}
  BY DEF TakeOut
<1>2. closing'[c] = gone /\ \A d \in Callers \ {c} : closing'[d] = closing[d]
  BY <1>1, DocTypes DEF RestOK
<1>3. Ahead
  <2>1. Standing
    BY <1>1, DocTypes DEF Standing
  <2> QED BY <2>1, AheadIs DEF Standing
<1>4. Kept
  <2> SUFFICES ASSUME NEW g \in Files \ crossed', NEW t \in Nat, Arrived(g, t), buffers[g].refs > 0
               PROVE  Arrived(g, t)'
    BY DEF Kept
  <2>1. g \notin crossed
    BY <1>1
  <2>2. buffers[g].refs = Holders(g)
    BY <2>1 DEF DocInv, FileOK
  <2>3. g \notin gone
    BY <1>1, <2>2
  <2> QED BY <1>2, <2>3 DEF Arrived, InPhase
<1>5. Rising
  BY NothingSent
<1>6. TextsOK'
  BY DEF TextsFit, TextsOK, Opening
<1> QED BY <1>1, <1>3, <1>4, <1>5, <1>6, OthersAreTold

-----------------------------------------------------------------------------
(* What a step of a call leaves alone.                                     *)

\* Guards are dropped.
LEMMA DropGuardsFits ==
  ASSUME DocInv, DocInv', TextsFit, NEW c \in Callers, NEW f \in Files, NEW k, DropGuards(c, f, k), Undisturbed,
         UNCHANGED <<disk, view, opening, closing, over, crossed>>
  PROVE  TextsFit' /\ Kept
<1>1. Standing
  <2>1. CASE f \in Buffered
    <3>1. PICK b : buffers' = [buffers EXCEPT ![f] = b] /\ b = [buffers[f] EXCEPT !.refs = Less(f, k)]
      BY <2>1 DEF DropGuards
    <3>2. b.version >= buffers[f].version
      BY <3>1, DocTypes DEF Buffers
    <3> QED BY <3>1, <3>2, OneEntryStands
  <2>2. CASE f \notin Buffered
    BY <2>2, SameStands DEF DropGuards
  <2> QED BY <2>1, <2>2
<1>2. Ahead /\ \A g \in Files : disk'[g].stamp >= disk[g].stamp
  BY <1>1, AheadIs, DocTypes DEF Standing
<1> QED BY <1>2, Quiet

\* Only files change, and what calls cross.
LEMMA FilesFit ==
  ASSUME DocInv, DocInv', TextsFit, NEW c \in Callers, crossed \subseteq crossed',
         UNCHANGED <<buffers, view, opening, closing>>, \A f \in Files : disk'[f].stamp >= disk[f].stamp
  PROVE  TextsFit' /\ Kept
<1>1. Ahead
  BY DocTypes DEF Ahead
<1> QED BY <1>1, Quiet

\* An ensure_open begins.
LEMMA StatFits ==
  ASSUME DocInv, DocInv', TextsFit, NEW c \in Callers, NEW f \in Files, Stat(c, f),
         UNCHANGED <<disk, buffers, view, closing, crossed>>
  PROVE  TextsFit' /\ Kept
<1>1. Ahead /\ \A g \in Files : disk'[g].stamp >= disk[g].stamp
  BY DocTypes DEF Ahead
<1> DEFINE p == [Ended("ok") EXCEPT !.phase = "read", !.file = f, !.stat = disk[f].stamp]
<1>2. p.phase = "read" /\ p.file = f /\ p.text = 0
  BY DEF Ended
<1>3. PICK o \in {p, Ended("err")} : opening' = [opening EXCEPT ![c] = o]
  BY DEF Stat
<1> HIDE DEF p
<1>4. opening'[c] = o /\ \A d \in Callers \ {c} : opening'[d] = opening[d]
  BY <1>3, DocTypes
<1>5. opening'[c].phase \in {"read", "err"} /\ (Opening(c)' => opening'[c].text <= disk'[opening'[c].file].stamp)
  BY <1>2, <1>3, <1>4, EndedIs, DocTypes DEF Opening
<1> QED BY <1>1, <1>4, <1>5, Quiet

\* A file is only written under the gate, and it is the one the call is at.
LEMMA CallsWriteTheirFile ==
  ASSUME IInv, NEW c \in Callers, CallNext(c)
  PROVE  /\ \A f \in Files : disk'[f].stamp >= disk[f].stamp
         /\ disk' = disk \/ (gate = c /\ \A g \in Files \ {file[c]} : disk'[g] = disk[g])
         /\ crossed \subseteq crossed'
<1>0. DocInv /\ \A f \in Files : disk[f].stamp \in Nat
  BY DocTypes DEF IInv
<1>1. CASE Begin(c) \/ End(c) \/ TakeGate(c) \/ GateTimesOut(c) \/ Ungate(c) \/ OpenStarts(c) \/ DropOne(c)
           \/ AskFails(c) \/ Look(c) \/ Tidy(c) \/ Keep(c) \/ Forget(c) \/ Pick(c) \/ NoMore(c) \/ Load(c) \/ WriteFails(c)
  <2>1. UNCHANGED <<disk, crossed>>
    BY <1>1 DEF Begin, End, TakeGate, GateTimesOut, Ungate, OpenStarts, DropOne, AskFails, Look, Tidy, Keep, Forget,
                Pick, NoMore, Load, WriteFails, docVars, syncVars
  <2> QED BY <1>0, <2>1
<1>2. CASE OpenGoesOn(c) \/ CloseGoesOn(c)
  <2>1. OpenSteps(c)
    BY <1>2 DEF OpenGoesOn, CloseGoesOn, OpenSteps
  <2>2. UNCHANGED disk
    BY <2>1 DEF OpenSteps, Read, Drift, BookNew, BookAgain, Send, SendRefused, Settle, Rollback, CloseNext
  <2>3. crossed \subseteq crossed'
    BY <2>1 DEF OpenSteps, Read, Drift, BookNew, BookAgain, Send, SendRefused, Settle, Rollback, CloseNext, Cross
  <2> QED BY <1>0, <2>2, <2>3
<1>3. CASE Ask(c) \/ Kill(c)
  BY <1>0, <1>3 DEF Ask, Kill, syncVars
<1>4. CASE Reclaim(c) \/ Shutdown(c) \/ Sync(c)
  <2>1. UNCHANGED disk /\ crossed \subseteq crossed'
    BY <1>4 DEF Reclaim, Shutdown, Sync, EvictIdle, EvictAll, ForceClose, TakeOut, syncVars
  <2> QED BY <1>0, <2>1
<1>5. CASE Write(c) \/ Readback(c) \/ Create(c) \/ Restore(c)
  <2>1. PICK s \in Gated : At(c, s)
    BY <1>5 DEF Write, Readback, Create, Restore, Gated
  <2>2. gate = c /\ file[c] \in Files
    BY <2>1, AtStep DEF Gated
  <2>3. UNCHANGED crossed
    BY <1>5 DEF Write, Readback, Create, Restore, syncVars
  <2>4. CASE UNCHANGED disk
    BY <1>0, <2>3, <2>4
  <2>5. CASE WriteFile(file[c])
    <3>1. \A f \in Files : disk'[f].stamp >= disk[f].stamp
      BY <1>0, <2>2, <2>5, WriteFileIs
    <3>2. \A g \in Files \ {file[c]} : disk'[g] = disk[g]
      BY <1>0, <2>5, DocTypes DEF WriteFile, RestOK
    <3> QED BY <2>2, <2>3, <3>1, <3>2
  <2>6. CASE disk' = [disk EXCEPT ![file[c]].there = FALSE]
    <3> DEFINE new == [disk[file[c]] EXCEPT !.there = FALSE]
    <3>3. disk' = [disk EXCEPT ![file[c]] = new]
      BY <2>6
    <3>1. new.stamp = disk[file[c]].stamp
      BY <1>0, <2>2, DocTypes DEF RestOK
    <3> HIDE DEF new
    <3>2. /\ disk'[file[c]].stamp = disk[file[c]].stamp
          /\ \A g \in Files \ {file[c]} : disk'[g] = disk[g]
      BY <1>0, <2>2, <3>1, <3>3, DocTypes DEF RestOK
    <3> QED BY <1>0, <2>2, <2>3, <3>2
  <2>7. UNCHANGED disk \/ WriteFile(file[c]) \/ disk' = [disk EXCEPT ![file[c]].there = FALSE]
    BY <1>5 DEF Write, Readback, Create, Restore
  <2> QED BY <2>4, <2>5, <2>6, <2>7
<1> QED BY <1>1, <1>2, <1>3, <1>4, <1>5 DEF CallNext

\* What every step of a call does to the documents.
LEMMA CallsFitDocs ==
  ASSUME IInv, TextsFit, NEW c \in Callers, CallNext(c), Undisturbed
  PROVE  TextsFit' /\ Kept
<1>0. DocInv /\ DocInv' /\ crossed \subseteq crossed' /\ \A f \in Files : disk'[f].stamp >= disk[f].stamp
  BY CallKeeps, CallsWriteTheirFile DEF IInv
<1>1. CASE End(c)
  <2>1. UNCHANGED <<disk, view, opening, closing, over, crossed>>
    BY <1>1 DEF End
  <2>2. CASE \E f \in Files : DropGuards(c, f, guards[c][f])
    BY <1>0, <2>1, <2>2, DropGuardsFits
  <2>3. CASE UNCHANGED buffers
    BY <1>0, <2>1, <2>3, FilesFit
  <2> QED BY <1>1, <2>2, <2>3 DEF End
<1>2. CASE DropOne(c)
  <2>1. /\ DropGuards(c, file[c], 1) /\ file[c] \in Files
        /\ UNCHANGED <<disk, view, opening, closing, over, crossed>>
    BY <1>2, AtStep DEF DropOne
  <2> QED BY <1>0, <2>1, DropGuardsFits
<1>3. CASE OpenStarts(c)
  <2>1. file[c] \in Files /\ Stat(c, file[c]) /\ UNCHANGED <<disk, buffers, view, closing, crossed>>
    BY <1>3, AtStep DEF OpenStarts
  <2> QED BY <1>0, <2>1, StatFits
<1>4. CASE OpenGoesOn(c) \/ CloseGoesOn(c)
  <2>1. OpenSteps(c)
    BY <1>4 DEF OpenGoesOn, CloseGoesOn, OpenSteps
  <2> QED BY <1>0, <2>1, OpenStepsFit
<1>5. CASE Reclaim(c) \/ Shutdown(c) \/ Sync(c)
  <2>1. PICK s : At(c, s)
    BY <1>5 DEF Reclaim, Shutdown, Sync
  <2>2. closing[c] = {}
    BY <2>1, AtStep
  <2>3. CASE \E gone \in SUBSET Buffered : \E rest : TakeOut(c, gone, rest) /\ UNCHANGED <<disk, view, opening, guards, over>>
    <3>1. PICK gone \in SUBSET Buffered :
            \E rest : TakeOut(c, gone, rest) /\ UNCHANGED <<disk, view, opening, guards, over>>
      BY <2>3
    <3>2. PICK rest : TakeOut(c, gone, rest) /\ UNCHANGED <<disk, view, opening, guards, over>>
      BY <3>1
    <3> QED BY <1>0, <2>2, <3>2, TakeOutFits
  <2>4. CASE UNCHANGED <<disk, syncVars>>
    BY <1>0, <2>4, FilesFit DEF syncVars
  <2>5. CASE Reclaim(c)
    <3>1. PICK k \in 1..Len(released) :
            TakeOut(c, ToSet(SubSeq(released, 1, k)), SubSeq(released, k + 1, Len(released)))
      BY <2>5 DEF Reclaim, EvictIdle
    <3>2. k \in 0..Len(released)
      BY <3>1
    <3>3. ToSet(SubSeq(released, 1, k)) \subseteq Buffered
      BY <1>0, <3>2, RoomIs
    <3> QED BY <2>3, <2>5, <3>1, <3>3 DEF Reclaim, EvictIdle
  <2>6. CASE Shutdown(c)
    BY <2>3, <2>6 DEF Shutdown, EvictAll
  <2>7. CASE Sync(c)
    <3>1. \/ ForceClose(c, file[c])
          \/ UNCHANGED <<disk, syncVars>>
      BY <2>7 DEF Sync
    <3> QED BY <2>3, <2>4, <3>1 DEF ForceClose
  <2> QED BY <1>5, <2>5, <2>6, <2>7
<1>6. CASE Begin(c) \/ TakeGate(c) \/ GateTimesOut(c) \/ Ungate(c) \/ Ask(c) \/ AskFails(c) \/ Look(c) \/ Tidy(c) \/ Keep(c)
           \/ Forget(c) \/ Pick(c) \/ NoMore(c) \/ Load(c)
  <2>1. UNCHANGED <<buffers, view, opening, closing>>
    BY <1>6 DEF Begin, TakeGate, GateTimesOut, Ungate, Ask, AskFails, Look, Tidy, Keep, Forget, Pick, NoMore, Load,
                docVars, syncVars
  <2> QED BY <1>0, <2>1, FilesFit
<1>7. CASE Write(c) \/ WriteFails(c) \/ Readback(c) \/ Create(c) \/ Restore(c) \/ Kill(c)
  <2>1. UNCHANGED <<buffers, view, opening, closing>>
    BY <1>7 DEF Write, WriteFails, Readback, Create, Restore, Kill, docVars, syncVars
  <2> QED BY <1>0, <2>1, FilesFit
<1> QED BY <1>1, <1>2, <1>3, <1>4, <1>5, <1>6, <1>7 DEF CallNext

-----------------------------------------------------------------------------
(* The order of the steps, once more.                                      *)

\* What is left after the next step, and what the next step tells of it.
LEMMA RestInOrder ==
  ASSUME NEW t, NEW s \in Seq(StepNames), s # <<>>, StepsInOrder(t, s)
  PROVE  /\ StepsInOrder(t, Tail(s))
         /\ Tail(s) # <<>> =>
              /\ Head(Tail(s)) = "write" => Head(s) = "load"
              /\ Head(Tail(s)) = "readback" => Head(s) = "write"
              /\ Head(Tail(s)) = "keep" => Head(s) = "ask"
              /\ t \in Askers => /\ Head(Tail(s)) = "ask" => Head(s) \in {"open", "ask"}
                                 /\ Head(Tail(s)) = "load" => Head(s) = "ask"
         /\ Head(s) \in {"load", "write", "create"} =>
              /\ \E k \in DOMAIN Tail(s) : Tail(s)[k] = "open"
              /\ \A k \in DOMAIN Tail(s) : Tail(s)[k] \notin Early
         /\ Head(s) = "pick" => Tail(s) = <<>>
         /\ t \in Askers => Head(s) \notin {"pick", "ungate"}
         /\ t = "outline" => Head(s) # "gate"
         /\ t # "outline" => Head(s) \notin {"look", "keep"}
<1> DEFINE q == Tail(s)
<1>1. /\ q \in Seq(StepNames) /\ 1 \in DOMAIN s /\ s[1] = Head(s)
      /\ \A l \in DOMAIN q : l \in Nat \ {0} /\ l + 1 \in DOMAIN s /\ q[l] = s[l + 1]
  BY TailIs
<1>2. \A l \in DOMAIN s : l \in Nat \ {0} /\ (l # 1 => l - 1 \in DOMAIN q)
  OBVIOUS
<1>3. \A i, k \in DOMAIN q : /\ i < k => i + 1 < k + 1
                             /\ k = i + 1 => k + 1 = (i + 1) + 1
  BY <1>1
<1>4. \A l \in DOMAIN q : 1 < l + 1
  BY <1>1
<1>5. q # <<>> => 1 \in DOMAIN q /\ q[1] = Head(q) /\ 2 \in DOMAIN s /\ s[2] = Head(q) /\ 2 = 1 + 1
  <2>1. q # <<>> => 1 \in DOMAIN q /\ q[1] = Head(q)
    BY <1>1, TailIs
  <2>2. 1 + 1 = 2
    OBVIOUS
  <2> QED BY <1>1, <2>1, <2>2
<1>6. q = <<>> <=> DOMAIN q = {}
  <2>1. DOMAIN q = 1..Len(q) /\ Len(q) \in Nat
    BY <1>1
  <2> QED BY <1>1, <2>1
<1> HIDE DEF q
<1>7. Leads(t, q)
  <2>1. Leads(t, s)
    BY DEF StepsInOrder
  <2> SUFFICES ASSUME NEW i \in DOMAIN q, NEW k \in DOMAIN q, k = i + 1
               PROVE  /\ q[k] = "write" => q[i] = "load"
                      /\ q[k] = "readback" => q[i] = "write"
                      /\ q[k] = "keep" => q[i] = "ask"
                      /\ t \in Askers => /\ q[k] = "ask" => q[i] \in {"open", "ask"}
                                         /\ q[k] = "load" => q[i] = "ask"
    BY DEF Leads
  <2>2. i + 1 \in DOMAIN s /\ k + 1 \in DOMAIN s /\ k + 1 = (i + 1) + 1 /\ q[i] = s[i + 1] /\ q[k] = s[k + 1]
    BY <1>1, <1>3
  <2> QED BY <2>1, <2>2 DEF Leads
<1>8. Lasts(q)
  <2>1. Lasts(s)
    BY DEF StepsInOrder
  <2>2. ASSUME NEW i \in DOMAIN q, q[i] \in {"load", "write", "create"}
        PROVE  \E k \in DOMAIN q : i < k /\ q[k] = "open"
    <3>1. i + 1 \in DOMAIN s /\ s[i + 1] = q[i] /\ i \in Nat
      BY <1>1
    <3>2. PICK k \in DOMAIN s : i + 1 < k /\ s[k] = "open"
      BY <2>1, <2>2, <3>1 DEF Lasts
    <3>3. k \in Nat /\ k # 1 /\ k - 1 \in DOMAIN q /\ i < k - 1 /\ (k - 1) + 1 = k
      BY <1>2, <3>1, <3>2
    <3>4. q[k - 1] = s[k]
      BY <1>1, <3>3
    <3> QED BY <3>2, <3>3, <3>4
  <2>3. ASSUME NEW i \in DOMAIN q, NEW k \in DOMAIN q, i < k
        PROVE  q[i] # "pick" /\ (q[i] \in {"load", "write", "create"} => q[k] \notin Early)
    <3>1. i + 1 \in DOMAIN s /\ k + 1 \in DOMAIN s /\ i + 1 < k + 1 /\ q[i] = s[i + 1] /\ q[k] = s[k + 1]
      BY <1>1, <1>3, <2>3
    <3> QED BY <2>1, <3>1 DEF Lasts
  <2> QED BY <2>2, <2>3 DEF Lasts
<1>9. Names(t, q)
  BY <1>1 DEF StepsInOrder, Names
<1>10. q # <<>> => /\ Head(q) = "write" => Head(s) = "load"
                   /\ Head(q) = "readback" => Head(s) = "write"
                   /\ Head(q) = "keep" => Head(s) = "ask"
                   /\ t \in Askers => /\ Head(q) = "ask" => Head(s) \in {"open", "ask"}
                                      /\ Head(q) = "load" => Head(s) = "ask"
  BY <1>1, <1>5 DEF StepsInOrder, Leads
<1>11. ASSUME Head(s) \in {"load", "write", "create"}
       PROVE  /\ \E k \in DOMAIN q : q[k] = "open"
              /\ \A k \in DOMAIN q : q[k] \notin Early
  <2>1. PICK k \in DOMAIN s : 1 < k /\ s[k] = "open"
    BY <1>1, <1>11 DEF StepsInOrder, Lasts
  <2>2. k \in Nat /\ k # 1 /\ k - 1 \in DOMAIN q /\ (k - 1) + 1 = k
    BY <1>2, <2>1
  <2>3. q[k - 1] = s[k]
    BY <1>1, <2>2
  <2>4. \A l \in DOMAIN q : q[l] \notin Early
    BY <1>1, <1>4, <1>11 DEF StepsInOrder, Lasts
  <2> QED BY <2>1, <2>2, <2>3, <2>4
<1>12. Head(s) = "pick" => q = <<>>
  BY <1>1, <1>4, <1>6 DEF StepsInOrder, Lasts
<1>13. /\ t \in Askers => Head(s) \notin {"pick", "ungate"}
       /\ t = "outline" => Head(s) # "gate"
       /\ t # "outline" => Head(s) \notin {"look", "keep"}
  BY <1>1 DEF StepsInOrder, Names
<1> QED BY <1>7, <1>8, <1>9, <1>10, <1>11, <1>12, <1>13 DEF StepsInOrder, q

\* The gate that comes before the questions of an edit is taken by then.
LEMMA RestIsGated ==
  ASSUME NEW t, NEW s \in Seq(StepNames), s # <<>>, AskGated(t, s)
  PROVE  /\ t \in Editors => Head(s) # "ask"
         /\ Head(s) # "gate" => AskGated(t, Tail(s))
<1> DEFINE q == Tail(s)
<1>1. /\ q \in Seq(StepNames) /\ 1 \in DOMAIN s /\ s[1] = Head(s)
      /\ \A l \in DOMAIN q : l \in Nat \ {0} /\ l + 1 \in DOMAIN s /\ q[l] = s[l + 1]
  BY TailIs
<1>2. \A l \in DOMAIN s : l \in Nat \ {0} /\ (l # 1 => l - 1 \in DOMAIN q)
  OBVIOUS
<1> HIDE DEF q
<1>3. t \in Editors => Head(s) # "ask"
  <2>1. \A k \in DOMAIN s : ~(k < 1)
    BY <1>2
  <2> QED BY <1>1, <2>1 DEF AskGated
<1>4. ASSUME Head(s) # "gate", t \in Editors, NEW i \in DOMAIN q, q[i] = "ask"
      PROVE  \E k \in DOMAIN q : k < i /\ q[k] = "gate"
  <2>1. PICK k \in DOMAIN s : k < i + 1 /\ s[k] = "gate"
    BY <1>1, <1>4 DEF AskGated
  <2>2. k # 1 /\ k - 1 \in DOMAIN q /\ k \in Nat /\ i \in Nat
    BY <1>1, <1>2, <1>4, <2>1
  <2>3. k - 1 < i /\ (k - 1) + 1 = k
    BY <2>1, <2>2
  <2>4. q[k - 1] = s[k]
    BY <1>1, <2>2, <2>3
  <2> QED BY <2>1, <2>2, <2>3, <2>4
<1> QED BY <1>3, <1>4 DEF AskGated, q

\* Nothing is left.
LEMMA NothingLeftFits == \A t : StepsInOrder(t, <<>>) /\ AskGated(t, <<>>)
BY DEF StepsInOrder, Leads, Lasts, Names, AskGated

\* The plans are in this order, and none begins with a step that depends on another.
LEMMA PlansFit ==
  ASSUME NEW t \in DOMAIN Plan
  PROVE  /\ StepsInOrder(t, Plan[t]) /\ AskGated(t, Plan[t])
         /\ Head(Plan[t]) \notin {"ask", "load", "write", "readback", "keep"}
<1> DEFINE OK(u, s) == StepsInOrder(u, s) /\ AskGated(u, s) /\ Head(s) \notin {"ask", "load", "write", "readback", "keep"}
<1>1. OK("read", ReadPlan)
  BY DEF ReadPlan, StepsInOrder, Leads, Lasts, Names, AskGated, Askers, Editors, Early
<1>2. OK("outline", OutlinePlan)
  BY DEF OutlinePlan, StepsInOrder, Leads, Lasts, Names, AskGated, Askers, Editors, Early
<1>3. OK("edit", EditPlan)
  BY DEF EditPlan, StepsInOrder, Leads, Lasts, Names, AskGated, Askers, Editors, Early
<1>4. OK("line", LinePlan)
  BY DEF LinePlan, StepsInOrder, Leads, Lasts, Names, AskGated, Askers, Editors, Early
<1>5. OK("replace", ReplacePlan)
  BY DEF ReplacePlan, StepsInOrder, Leads, Lasts, Names, AskGated, Askers, Editors, Early
<1>6. OK("delete", DeletePlan)
  BY DEF DeletePlan, StepsInOrder, Leads, Lasts, Names, AskGated, Askers, Editors, Early
<1>7. OK("rename", RenamePlan)
  BY DEF RenamePlan, StepsInOrder, Leads, Lasts, Names, AskGated, Askers, Editors, Early
<1>8. OK("format", FormatPlan)
  BY DEF FormatPlan, StepsInOrder, Leads, Lasts, Names, AskGated, Askers, Editors, Early
<1>9. OK("create", CreatePlan)
  BY DEF CreatePlan, StepsInOrder, Leads, Lasts, Names, AskGated, Askers, Editors, Early
<1>10. OK("undo", UndoPlan)
  BY DEF UndoPlan, StepsInOrder, Leads, Lasts, Names, AskGated, Askers, Editors, Early
<1>11. OK("reclaim", <<"reclaim">>) /\ OK("shutdown", <<"evict", "kill">>)
  BY DEF StepsInOrder, Leads, Lasts, Names, AskGated, Askers, Editors, Early
<1> HIDE DEF OK
<1>12. OK(t, Plan[t])
  BY <1>1, <1>2, <1>3, <1>4, <1>5, <1>6, <1>7, <1>8, <1>9, <1>10, <1>11 DEF Plan
<1> QED BY <1>12 DEF OK

\* So is what rename-symbol does with a file, and what may be put in place of a plan.
LEMMA OthersFit ==
  /\ \A t : t \notin Askers => StepsInOrder(t, RenameFilePlan) /\ StepsInOrder(t, <<"pick">>)
  /\ \A t : StepsInOrder(t, <<"open">>) /\ StepsInOrder(t, <<"forget">>)
  /\ \A t : AskGated(t, RenameFilePlan) /\ AskGated(t, <<"pick">>) /\ AskGated(t, <<"open">>) /\ AskGated(t, <<"forget">>)
  /\ Head(RenameFilePlan) = "load" /\ \E i \in DOMAIN RenameFilePlan : RenameFilePlan[i] = "open"
  /\ \A i \in DOMAIN RenameFilePlan : RenameFilePlan[i] \notin Early
<1> DEFINE OK(s) ==
      /\ \A t : t \notin Askers => StepsInOrder(t, s)
      /\ \A t : AskGated(t, s)
<1>1. OK(RenameFilePlan) /\ OK(<<"pick">>)
  BY DEF RenameFilePlan, StepsInOrder, Leads, Lasts, Names, AskGated, Early
<1>2. \A t : StepsInOrder(t, <<"open">>) /\ AskGated(t, <<"open">>) /\ StepsInOrder(t, <<"forget">>) /\ AskGated(t, <<"forget">>)
  BY DEF StepsInOrder, Leads, Lasts, Names, AskGated
<1>3. Head(RenameFilePlan) = "load" /\ \E i \in DOMAIN RenameFilePlan : RenameFilePlan[i] = "open"
  BY DEF RenameFilePlan
<1>4. \A i \in DOMAIN RenameFilePlan : RenameFilePlan[i] \notin Early
  BY DEF RenameFilePlan, Early
<1> QED BY <1>1, <1>2, <1>3, <1>4

-----------------------------------------------------------------------------
(* What a step leaves of what is true of a call.                           *)

\* Under what a call is at a step.
LEMMA Facing ==
  ASSUME IInv, NEW c \in Callers, OrderOK(c), NEW s, Faces(c, s)
  PROVE  /\ s \in Gated => gate = c
         /\ s = "ask" /\ tool[c] \in Editors => gate = c
         /\ s # "forget" => file[c] \in Files
<1>1. /\ CallOK(c) /\ steps[c] \in Seq(StepNames) /\ steps[c] # <<>> /\ Head(steps[c]) = s /\ ~Opening(c)
  BY DEF IInv, Typed, Faces
<1>2. 1 \in DOMAIN steps[c] /\ steps[c][1] = s
  BY <1>1, TailIs
<1>3. s # "forget" => file[c] \in Files
  BY <1>1, <1>2 DEF CallOK, OnlyForgets
<1>4. s \in Gated => gate = c
  BY <1>1, RestIs DEF CallOK
<1>5. s = "ask" /\ tool[c] \in Editors => gate = c
  BY <1>1, RestIsGated DEF OrderOK
<1> QED BY <1>3, <1>4, <1>5

\* A step of another call, or of an editor.
LEMMA OthersKeepFit ==
  ASSUME IInv, IInv', NEW c \in Callers, CallFits(c), Kept, crossed \subseteq crossed',
         \A f \in Files : disk'[f].stamp >= disk[f].stamp,
         gate = c /\ file[c] \in Files \ crossed' => disk'[file[c]] = disk[file[c]],
         tool'[c] = tool[c], steps'[c] = steps[c], file'[c] = file[c], base'[c] = base[c], text'[c] = text[c],
         opening'[c] = opening[c], guards'[c] = guards[c], gate' = c <=> gate = c
  PROVE  CallFits(c)'
<1>1. /\ Opening(c)' <=> Opening(c)
      /\ \A s : Faces(c, s)' <=> Faces(c, s)
      /\ \A S : Left(c, S)' <=> Left(c, S)
      /\ Idle(c)' <=> Idle(c)
  BY DEF Opening, Faces, Left, Idle
<1>2. OrderOK(c) /\ TextOK(c) /\ StatOK(c) /\ AskOK(c) /\ AnswerOK(c) /\ WroteOK(c)
  BY DEF CallFits
<1>3. \A f \in Files : disk[f].stamp \in Nat /\ disk'[f].stamp \in Nat
  BY DocTypes DEF IInv, DocInv, RestOK
<1>4. text[c] \in Nat /\ base[c] \in [Files -> Nat] /\ guards[c] \in [Files -> Nat]
  BY DEF IInv, Typed, DocInv, RestOK
<1>5. OrderOK(c)'
  BY <1>1, <1>2 DEF OrderOK
<1>6. TextOK(c)'
  <2> SUFFICES ASSUME file[c] \in Files, ~Faces(c, "load") PROVE text[c] <= disk'[file[c]].stamp
    BY <1>1 DEF TextOK
  <2>1. text[c] <= disk[file[c]].stamp
    BY <1>2 DEF TextOK
  <2> QED BY <1>3, <1>4, <2>1
<1>7. StatOK(c)'
  <2>1. Opening(c) => file[c] \in Files
    BY DEF IInv, CallOK
  <2> QED BY <1>1, <1>2, <2>1 DEF StatOK
\* What has arrived, stays.
<1>8. ASSUME file[c] \in Files \ crossed', guards[c][file[c]] > 0, NEW t \in Nat, Arrived(file[c], t)
      PROVE  Arrived(file[c], t)'
  <2>1. PICK f \in Files \ crossed' : f = file[c]
    BY <1>8
  <2>2. buffers[f].refs > 0
    BY <1>8, <2>1, HeldIsCounted DEF IInv
  <2>3. Arrived(f, t)'
    BY <1>8, <2>1, <2>2 DEF Kept
  <2> QED BY <2>1, <2>3
<1>9. AskOK(c)'
  <2> SUFFICES ASSUME tool[c] \in Askers, Faces(c, "ask") PROVE AskOK(c)'
    BY <1>1 DEF AskOK
  <2>1. file[c] \in Files /\ guards[c][file[c]] > 0 /\ (tool[c] \in Editors => gate = c)
    BY <1>2, Facing DEF AskOK
  <2>2. ASSUME file[c] \notin crossed'
        PROVE  Arrived(file[c], IF tool[c] = "outline" THEN text[c] ELSE disk[file[c]].stamp)'
    <3>1. Arrived(file[c], IF tool[c] = "outline" THEN text[c] ELSE disk[file[c]].stamp)
      BY <1>2, <2>2 DEF AskOK
    <3>2. CASE tool[c] = "outline"
      BY <1>4, <1>8, <2>1, <2>2, <3>1, <3>2
    <3>3. CASE tool[c] # "outline"
      <4>1. disk'[file[c]] = disk[file[c]]
        BY <2>1, <2>2, <3>3 DEF Askers
      <4>2. PICK t \in Nat : t = disk[file[c]].stamp
        BY <1>3, <2>1
      <4>3. Arrived(file[c], t)'
        BY <1>8, <2>1, <2>2, <3>1, <3>3, <4>2
      <4> QED BY <3>3, <4>1, <4>2, <4>3
    <3> QED BY <3>2, <3>3
  <2> QED BY <2>1, <2>2 DEF AskOK
<1>10. AnswerOK(c)'
  <2>1. Faces(c, "load") \/ Faces(c, "write") \/ Faces(c, "readback") => gate = c /\ file[c] \in Files
    BY <1>2, Facing DEF Gated
  <2>2. ASSUME Faces(c, "load") \/ Faces(c, "write") \/ Faces(c, "readback"), file[c] \notin crossed'
        PROVE  disk'[file[c]] = disk[file[c]]
    BY <2>1, <2>2
  <2>3. Faces(c, "keep") => base[c][file[c]] <= disk'[file[c]].stamp
    <3>1. Faces(c, "keep") => file[c] \in Files /\ base[c][file[c]] <= disk[file[c]].stamp
      BY <1>2, Facing DEF AnswerOK
    <3> QED BY <1>3, <1>4, <3>1
  <2> QED BY <1>1, <1>2, <2>2, <2>3 DEF AnswerOK
<1>11. WroteOK(c)'
  <2> SUFFICES ASSUME gate = c, text[c] # 0, ~Left(c, {"open"}), opening[c].phase = "ok",
                      file[c] \in Files \ crossed', guards[c][file[c]] > 0
               PROVE  Arrived(file[c], text[c])'
    BY <1>1 DEF WroteOK
  <2>1. Arrived(file[c], text[c])
    BY <1>2 DEF WroteOK
  <2> QED BY <1>4, <1>8, <2>1
<1> QED BY <1>5, <1>6, <1>7, <1>9, <1>10, <1>11 DEF CallFits

\* A step of a call leaves the other calls as they are.
LEMMA OthersUntouched ==
  ASSUME IInv, NEW c \in Callers, CallNext(c), NEW d \in Callers \ {c}
  PROVE  /\ tool'[d] = tool[d] /\ steps'[d] = steps[d] /\ file'[d] = file[d] /\ base'[d] = base[d]
         /\ text'[d] = text[d] /\ opening'[d] = opening[d] /\ guards'[d] = guards[d]
         /\ gate' = d <=> gate = d
<1>0. Typed /\ DocInv /\ opening \in [Callers -> Openings] /\ guards \in [Callers -> [Files -> Nat]]
  BY DocTypes DEF IInv, RestOK
<1>1. tool'[d] = tool[d] /\ file'[d] = file[d]
  <2>1. \/ UNCHANGED tool
        \/ \E t : tool' = [tool EXCEPT ![c] = t]
    BY DEF CallNext, Begin, End, TakeGate, GateTimesOut, Ungate, OpenStarts, OpenGoesOn, CloseGoesOn, Ask, AskFails,
           DropOne, Look, Tidy, Keep, Forget, Load, Write, WriteFails, Readback, Create, Pick, NoMore, Restore, Sync,
           Reclaim, Shutdown, Kill, pathVars
  <2>2. \/ UNCHANGED file
        \/ \E f : file' = [file EXCEPT ![c] = f]
    BY DEF CallNext, Begin, End, TakeGate, GateTimesOut, Ungate, OpenStarts, OpenGoesOn, CloseGoesOn, Ask, AskFails,
           DropOne, Look, Tidy, Keep, Forget, Load, Write, WriteFails, Readback, Create, Pick, NoMore, Restore, Sync,
           Reclaim, Shutdown, Kill, pathVars
  <2> QED BY <1>0, <2>1, <2>2 DEF Typed
<1>2. steps'[d] = steps[d]
  <2>1. \/ UNCHANGED steps
        \/ \E r : steps' = [steps EXCEPT ![c] = r]
    BY DEF CallNext, Begin, End, TakeGate, GateTimesOut, Ungate, OpenStarts, OpenGoesOn, CloseGoesOn, Ask, AskFails,
           DropOne, Look, Tidy, Keep, Forget, Load, Write, WriteFails, Readback, Create, Pick, NoMore, Restore, Sync,
           Reclaim, Shutdown, Kill, pathVars, NextStep, Quit, Then
  <2> QED BY <1>0, <2>1 DEF Typed
<1>3. base'[d] = base[d] /\ text'[d] = text[d]
  <2>1. \/ UNCHANGED text
        \/ \E t : text' = [text EXCEPT ![c] = t]
    BY DEF CallNext, Begin, End, TakeGate, GateTimesOut, Ungate, OpenStarts, OpenGoesOn, CloseGoesOn, Ask, AskFails,
           DropOne, Look, Tidy, Keep, Forget, Load, Write, WriteFails, Readback, Create, Pick, NoMore, Restore, Sync,
           Reclaim, Shutdown, Kill, pathVars
  <2>2. \/ UNCHANGED base
        \/ \E b : base' = [base EXCEPT ![c] = b]
    BY DEF CallNext, Begin, End, TakeGate, GateTimesOut, Ungate, OpenStarts, OpenGoesOn, CloseGoesOn, Ask, AskFails,
           DropOne, Look, Tidy, Keep, Forget, Load, Write, WriteFails, Readback, Create, Pick, NoMore, Restore, Sync,
           Reclaim, Shutdown, Kill, pathVars
  <2> QED BY <1>0, <2>1, <2>2 DEF Typed
<1>4. gate' = d <=> gate = d
  <2>1. CASE TakeGate(c)
    BY <2>1, DocSyncAssumption DEF TakeGate
  <2>2. CASE Ungate(c)
    <3>1. At(c, "ungate") /\ gate' = None
      BY <2>2 DEF Ungate
    <3>2. gate = c
      BY <3>1, AtStep DEF Gated
    <3> QED BY <3>1, <3>2, DocSyncAssumption
  <2>3. CASE End(c)
    <3>1. gate' = gate \/ gate' = GateAfter(c)
      BY <2>3 DEF End
    <3> QED BY <3>1, DocSyncAssumption DEF GateAfter
  <2>4. CASE UNCHANGED gate
    BY <2>4
  <2> QED BY <2>1, <2>2, <2>3, <2>4
      DEF CallNext, Begin, GateTimesOut, OpenStarts, OpenGoesOn, CloseGoesOn, Ask, AskFails,
           DropOne, Look, Tidy, Keep, Forget, Load, Write, WriteFails, Readback, Create, Pick, NoMore, Restore, Sync,
           Reclaim, Shutdown, Kill, pathVars
<1>5. opening'[d] = opening[d] /\ guards'[d] = guards[d]
  <2>1. CASE OpenGoesOn(c) \/ CloseGoesOn(c)
    <3>1. OpenSteps(c)
      BY <2>1 DEF OpenGoesOn, CloseGoesOn, OpenSteps
    <3> QED BY <1>0, <3>1, OpenStepsProceed
  <2>2. CASE OpenStarts(c)
    BY <1>0, <2>2 DEF OpenStarts, Stat
  <2>3. CASE End(c) \/ DropOne(c)
    <3>1. /\ UNCHANGED opening
          /\ UNCHANGED guards \/ \E f, k : guards' = [guards EXCEPT ![c][f] = @ - k]
      BY <2>3 DEF End, DropOne, DropGuards
    <3> QED BY <1>0, <3>1
  <2>4. CASE UNCHANGED <<opening, guards>>
    BY <2>4
  <2>5. CASE Reclaim(c) \/ Shutdown(c) \/ Sync(c)
    BY <2>5 DEF Reclaim, Shutdown, Sync, EvictIdle, EvictAll, ForceClose, syncVars
  <2>6. CASE Begin(c) \/ TakeGate(c) \/ GateTimesOut(c) \/ Ungate(c) \/ Ask(c) \/ AskFails(c) \/ Look(c) \/ Tidy(c) \/ Keep(c)
           \/ Forget(c) \/ Pick(c) \/ NoMore(c) \/ Load(c) \/ Write(c) \/ WriteFails(c) \/ Readback(c) \/ Create(c)
           \/ Restore(c) \/ Kill(c)
    BY <2>6 DEF Begin, TakeGate, GateTimesOut, Ungate, Ask, AskFails, Look, Tidy, Keep, Forget, Pick, NoMore, Load,
                Write, WriteFails, Readback, Create, Restore, Kill, docVars, syncVars
  <2> QED BY <2>1, <2>2, <2>3, <2>5, <2>6 DEF CallNext
<1> QED BY <1>1, <1>2, <1>3, <1>4, <1>5

\* What may be left of a call's steps, after the step s.
LEMMA Rests ==
  ASSUME IInv, NEW c \in Callers, OrderOK(c), NEW s, At(c, s), NEW r, r = Tail(steps[c]) \/ r = <<>>
  PROVE  /\ StepsInOrder(tool[c], r)
         /\ s # "gate" => gate = c \/ AskGated(tool[c], r)
         /\ r # <<>> =>
              /\ Head(r) = "write" => s = "load"
              /\ Head(r) = "readback" => s = "write"
              /\ Head(r) = "keep" => s = "ask"
              /\ tool[c] \in Askers => /\ Head(r) = "ask" => s \in {"open", "ask"}
                                       /\ Head(r) = "load" => s = "ask"
         /\ s \in {"load", "write", "create"} =>
              /\ r = Tail(steps[c]) => \E k \in DOMAIN r : r[k] = "open"
              /\ \A k \in DOMAIN r : r[k] \notin Early
         /\ s = "pick" => r = <<>>
         /\ tool[c] \in Askers => s \notin {"pick", "ungate"}
         /\ tool[c] = "outline" => s # "gate"
         /\ tool[c] # "outline" => s \notin {"look", "keep"}
         /\ \A k \in DOMAIN r : \E l \in DOMAIN steps[c] : r[k] = steps[c][l]
<1>1. /\ steps[c] \in Seq(StepNames) /\ steps[c] # <<>> /\ Head(steps[c]) = s
      /\ StepsInOrder(tool[c], steps[c]) /\ (gate = c \/ AskGated(tool[c], steps[c]))
  BY AtStep DEF OrderOK
<1>2. \E t : \E q \in Seq(StepNames) : t = tool[c] /\ q = steps[c]
  BY <1>1
<1>2a. PICK t : \E q \in Seq(StepNames) : t = tool[c] /\ q = steps[c]
  BY <1>2
<1>2b. PICK q \in Seq(StepNames) : t = tool[c] /\ q = steps[c]
  BY <1>2a
<1>3. /\ DOMAIN <<>> = {}
      /\ \A i \in DOMAIN Tail(q) : i + 1 \in DOMAIN q /\ Tail(q)[i] = q[i + 1]
      /\ \A i \in DOMAIN q : i = 1 \/ (i - 1 \in DOMAIN Tail(q) /\ Tail(q)[i - 1] = q[i])
  <2>1. \A i \in DOMAIN Tail(q) : i \in Nat \ {0} /\ i + 1 \in DOMAIN q /\ Tail(q)[i] = q[i + 1]
    BY <1>1, <1>2b, TailIs
  <2>2. ASSUME NEW i \in DOMAIN q, i # 1 PROVE i - 1 \in DOMAIN Tail(q) /\ Tail(q)[i - 1] = q[i]
    <3>1. i - 1 \in DOMAIN Tail(q) /\ (i - 1) + 1 = i
      BY <1>1, <1>2b, <2>2
    <3> QED BY <2>1, <3>1
  <2> QED BY <2>1, <2>2
<1>4. StepsInOrder(t, r) /\ (s # "gate" => gate = c \/ AskGated(t, r))
  <2>1. CASE r = <<>>
    BY <2>1, NothingLeftFits
  <2>2. CASE r = Tail(q)
    BY <1>1, <1>2b, <2>2, RestInOrder, RestIsGated
  <2> QED BY <1>2b, <2>1, <2>2
<1>5. /\ r # <<>> =>
              /\ Head(r) = "write" => s = "load"
              /\ Head(r) = "readback" => s = "write"
              /\ Head(r) = "keep" => s = "ask"
              /\ t \in Askers => /\ Head(r) = "ask" => s \in {"open", "ask"}
                                 /\ Head(r) = "load" => s = "ask"
      /\ s \in {"load", "write", "create"} =>
              /\ r = Tail(q) => \E k \in DOMAIN r : r[k] = "open"
              /\ \A k \in DOMAIN r : r[k] \notin Early
      /\ s = "pick" => r = <<>>
      /\ t \in Askers => s \notin {"pick", "ungate"}
      /\ t = "outline" => s # "gate"
      /\ t # "outline" => s \notin {"look", "keep"}
  <2>1. StepsInOrder(t, q) /\ q # <<>> /\ Head(q) = s
    BY <1>1, <1>2b
  <2>2. CASE r = <<>>
    BY <1>3, <2>1, <2>2, RestInOrder
  <2>3. CASE r = Tail(q)
    BY <2>1, <2>3, RestInOrder
  <2> QED BY <1>2b, <2>2, <2>3
<1>6. \A k \in DOMAIN r : \E l \in DOMAIN q : r[k] = q[l]
  <2>1. CASE r = <<>>
    BY <1>3, <2>1
  <2>2. CASE r = Tail(q)
    BY <1>3, <2>2
  <2> QED BY <1>2b, <2>1, <2>2
<1> QED BY <1>2b, <1>4, <1>5, <1>6

\* Which step may come after s.
LEMMA FirstLeft ==
  ASSUME IInv, NEW c \in Callers, OrderOK(c), NEW s, At(c, s), NEW r, r = Tail(steps[c]), r # <<>>
  PROVE  /\ s # "load" => Head(r) # "write"
         /\ s # "write" => Head(r) # "readback"
         /\ s # "ask" => Head(r) # "keep"
         /\ tool[c] \in Askers => (s # "ask" => Head(r) # "load") /\ (s \notin {"open", "ask"} => Head(r) # "ask")
<1>1. steps[c] \in Seq(StepNames) /\ steps[c] # <<>> /\ Head(steps[c]) = s /\ StepsInOrder(tool[c], steps[c])
  BY AtStep DEF OrderOK
<1> QED BY <1>1, RestInOrder

\* What is written is told afterwards.
LEMMA OpenComes ==
  ASSUME IInv, NEW c \in Callers, OrderOK(c), NEW s \in {"load", "write", "create"}, At(c, s)
  PROVE  \E k \in DOMAIN Tail(steps[c]) : Tail(steps[c])[k] = "open"
<1>1. steps[c] \in Seq(StepNames) /\ steps[c] # <<>> /\ Head(steps[c]) = s /\ StepsInOrder(tool[c], steps[c])
  BY AtStep DEF OrderOK
<1> QED BY <1>1, RestInOrder

\* An ensure_open that is not the next step is still there after it.
LEMMA OpenIsLeft ==
  ASSUME NEW s \in Seq(StepNames), s # <<>>, Head(s) # "open", NEW i \in DOMAIN s, s[i] = "open"
  PROVE  \E k \in DOMAIN Tail(s) : Tail(s)[k] = "open"
<1>1. s[1] = Head(s) /\ \A l \in DOMAIN Tail(s) : Tail(s)[l] = s[l + 1]
  BY TailIs
<1>2. i - 1 \in DOMAIN Tail(s) /\ (i - 1) + 1 = i
  BY <1>1
<1>3. Tail(s)[i - 1] = s[i]
  BY <1>1, <1>2
<1> QED BY <1>2, <1>3

\* Whoever has steps left, and what the first of them is.
LEMMA FacesNext ==
  ASSUME NEW c \in Callers, NEW r, steps'[c] = r
  PROVE  /\ \A s : Faces(c, s)' => r # <<>> /\ Head(r) = s
         /\ \A S : Left(c, S)' <=> \E i \in DOMAIN r : r[i] \in S
         /\ Opening(c)' => \A s : ~Faces(c, s)'
BY DEF Faces, Left

\* A step that comes from the plan keeps the order.
LEMMA OrderStays ==
  ASSUME IInv, NEW c \in Callers, OrderOK(c), NEW s, At(c, s), NEW r, r = Tail(steps[c]) \/ r = <<>>,
         steps'[c] = r, tool'[c] = tool[c], file'[c] = file[c],
         \/ gate' = gate /\ (s # "gate" \/ r = <<>>)
         \/ gate' = c /\ s = "gate"
         \/ gate' = None /\ s = "ungate",
         Opening(c)' => s = "open",
         \/ text'[c] = text[c] \/ text'[c] = 0
         \/ file[c] \in Files /\ (s \in {"load", "write", "create"} \/ tool[c] = "outline")
  PROVE  OrderOK(c)'
<1>0. None \notin Callers /\ None \notin Files /\ ~Idle(c) /\ (Idle(c)' <=> Idle(c))
  BY AtStep, DocSyncAssumption DEF Idle
<1>1. StepsInOrder(tool[c], r)
  BY Rests
<1>2. gate' = c \/ AskGated(tool[c], r)
  <2>1. s # "gate" => gate = c \/ AskGated(tool[c], r)
    BY Rests
  <2>2. s = "ungate" => AskGated(tool[c], r)
    <3>1. s = "ungate" => tool[c] \notin Editors
      BY Rests DEF Askers
    <3> QED BY <3>1 DEF AskGated
  <2>3. r = <<>> => AskGated(tool[c], r)
    BY NothingLeftFits
  <2> QED BY <2>1, <2>2, <2>3
<1>3. tool[c] = "outline" => gate' # c
  <2>1. tool[c] = "outline" => s # "gate" /\ gate # c
    BY Rests DEF OrderOK
  <2> QED BY <1>0, <2>1
<1>4. Opening(c)' /\ r # <<>> => Head(r) \notin Later(tool[c])
  <2> SUFFICES ASSUME s = "open", r # <<>> PROVE Head(r) \notin Later(tool[c])
    OBVIOUS
  <2>1. /\ Head(r) \notin {"write", "readback", "keep"}
        /\ tool[c] \in Askers => Head(r) # "load"
    BY Rests
  <2> QED BY <2>1 DEF Later
<1>5. file[c] = None => text'[c] = 0
  BY <1>0 DEF OrderOK
<1>6. ASSUME text'[c] # 0, tool[c] # "outline", NEW i \in DOMAIN r PROVE r[i] \notin Early
  <2>1. CASE s \in {"load", "write", "create"}
    BY <1>6, <2>1, Rests
  <2>2. CASE text'[c] = text[c]
    <3>1. ~Left(c, Early)
      BY <1>6, <2>2 DEF OrderOK
    <3>2. PICK l \in DOMAIN steps[c] : r[i] = steps[c][l]
      BY <1>6, Rests
    <3> QED BY <3>1, <3>2 DEF Left
  <2> QED BY <1>6, <2>1, <2>2
<1>7. text'[c] # 0 /\ tool[c] # "outline" => ~Left(c, Early)'
  BY <1>6, FacesNext
<1> QED BY <1>0, <1>1, <1>2, <1>3, <1>4, <1>5, <1>7 DEF OrderOK

\* A call whose next step does not depend on the one before.
Fresh(t, r) == r = <<>> \/ Head(r) \notin Later(t) \cup (IF t \in Askers THEN {"ask"} ELSE {})

\* The step that comes next has no condition.
LEMMA FreshFits ==
  ASSUME NEW c \in Callers, NEW r, steps'[c] = r, Fresh(tool'[c], r), ~Opening(c)'
  PROVE  StatOK(c)' /\ AskOK(c)' /\ AnswerOK(c)'
<1>1. \A s : Faces(c, s)' => r # <<>> /\ Head(r) = s
  BY FacesNext
<1>2. /\ ~Faces(c, "write")' /\ ~Faces(c, "readback")' /\ ~Faces(c, "keep")'
      /\ tool'[c] \in Askers => ~Faces(c, "load")' /\ ~Faces(c, "ask")'
  BY <1>1 DEF Fresh, Later
<1>3. tool'[c] \in Editors => tool'[c] \in Askers
  BY DEF Askers
<1> QED BY <1>2, <1>3 DEF StatOK, AskOK, AnswerOK

\* What has been written and told stays told.
LEMMA WroteStays ==
  ASSUME IInv, NEW c \in Callers, WroteOK(c), Kept, crossed \subseteq crossed',
         text'[c] = text[c], file'[c] = file[c],
         /\ gate' = c /\ text[c] # 0 /\ ~Left(c, {"open"})' /\ opening'[c].phase = "ok"
         /\ file[c] \in Files \ crossed' /\ guards'[c][file[c]] > 0
         => gate = c /\ ~Left(c, {"open"}) /\ opening[c].phase = "ok" /\ guards[c][file[c]] > 0
  PROVE  WroteOK(c)'
<1> SUFFICES ASSUME gate' = c, text[c] # 0, ~Left(c, {"open"})', opening'[c].phase = "ok",
                    file[c] \in Files \ crossed', guards'[c][file[c]] > 0
             PROVE  Arrived(file[c], text[c])'
  BY DEF WroteOK
<1>1. PICK f \in Files, t \in Nat : f = file[c] /\ t = text[c]
  BY DEF IInv, Typed
<1>2. Arrived(f, t) /\ f \notin crossed' /\ f \notin crossed /\ guards[c][f] > 0
  BY <1>1 DEF WroteOK
<1>3. buffers[f].refs > 0
  BY <1>2, HeldIsCounted DEF IInv
<1>4. Arrived(f, t)'
  BY <1>2, <1>3 DEF Kept
<1> QED BY <1>1, <1>4

\* A step that only leaves steps behind.
LEMMA PlainFits ==
  ASSUME IInv, IInv', NEW c \in Callers, CallFits(c), Kept, crossed \subseteq crossed',
         \A f \in Files : disk'[f].stamp >= disk[f].stamp,
         NEW s, At(c, s), NEW r, steps'[c] = r, s \notin {"load", "write", "open"},
         \/ r = Tail(steps[c]) /\ s # "ask"
         \/ r = <<>> /\ (s \in Early \/ file[c] \in crossed'),
         tool'[c] = tool[c], file'[c] = file[c], text'[c] = text[c], opening'[c] = opening[c],
         file[c] \in Files /\ guards'[c][file[c]] > 0 => guards[c][file[c]] > 0,
         \/ gate' = gate /\ (s # "gate" \/ r = <<>>)
         \/ gate' = c /\ s = "gate"
         \/ gate' = None /\ s = "ungate"
  PROVE  CallFits(c)'
<1>0. /\ OrderOK(c) /\ TextOK(c) /\ WroteOK(c) /\ ~Opening(c) /\ Head(steps[c]) = s /\ (r = Tail(steps[c]) \/ r = <<>>)
  BY AtStep DEF CallFits
<1>1. ~Opening(c)'
  BY <1>0 DEF Opening
<1>2. OrderOK(c)'
  BY <1>0, <1>1, OrderStays
<1>3. TextOK(c)'
  <2> SUFFICES ASSUME file[c] \in Files PROVE text[c] <= disk'[file[c]].stamp
    BY DEF TextOK
  <2>1. PICK f \in Files : f = file[c]
    OBVIOUS
  <2>2. text[c] <= disk[f].stamp
    BY <1>0, <2>1 DEF TextOK, Faces
  <2>3. disk[f].stamp \in Nat /\ disk'[f].stamp \in Nat /\ disk'[f].stamp >= disk[f].stamp /\ text[c] \in Nat
    BY DocTypes DEF IInv, Typed, DocInv, RestOK
  <2> QED BY <2>1, <2>2, <2>3
<1>4. Fresh(tool[c], r)
  <2>1. r # <<>> =>
              /\ Head(r) \notin {"write", "readback", "keep"}
              /\ tool[c] \in Askers => Head(r) \notin {"ask", "load"}
    BY <1>0, Rests
  <2> QED BY <2>1 DEF Fresh, Later
<1>5. StatOK(c)' /\ AskOK(c)' /\ AnswerOK(c)'
  BY <1>1, <1>4, FreshFits
<1>6. WroteOK(c)'
  <2> SUFFICES ASSUME gate' = c, text[c] # 0, ~Left(c, {"open"})', opening[c].phase = "ok",
                      file[c] \in Files \ crossed', guards'[c][file[c]] > 0
               PROVE  gate = c /\ ~Left(c, {"open"}) /\ guards[c][file[c]] > 0
    BY <1>0, WroteStays
  <2>1. s \notin Early
    <3>1. ASSUME s \in Early PROVE FALSE
      <4>1. 1 \in DOMAIN steps[c] /\ steps[c][1] = s
        BY <1>0, AtStep, TailIs
      <4>2. Left(c, Early)
        BY <3>1, <4>1 DEF Left
      <4>3. tool[c] = "outline"
        BY <1>0, <4>2 DEF OrderOK
      <4>4. gate' # c
        BY <1>2, <4>3 DEF OrderOK
      <4> QED BY <4>4
    <3> QED BY <3>1
  <2>2. gate = c
    BY <2>1, DocSyncAssumption DEF Early
  <2>3. r = Tail(steps[c])
    BY <2>1
  <2>4. ~Left(c, {"open"})
    <3>1. ~\E k \in DOMAIN r : r[k] = "open"
      BY FacesNext
    <3>2. ~\E i \in DOMAIN steps[c] : steps[c][i] = "open"
      BY <1>0, <2>3, <3>1, AtStep, OpenIsLeft
    <3> QED BY <3>2 DEF Left
  <2> QED BY <2>2, <2>4
<1> QED BY <1>2, <1>3, <1>5, <1>6 DEF CallFits

-----------------------------------------------------------------------------
(* What a call's own steps keep of what is true of it.                     *)

\* What is left after a step.
LEMMA ThenIs ==
  ASSUME IInv, NEW c \in Callers
  PROVE  /\ \A r : Then(c, r) => steps'[c] = r
         /\ NextStep(c) => steps'[c] = Tail(steps[c])
         /\ Quit(c) => steps'[c] = <<>>
BY DEF IInv, Typed, Then, NextStep, Quit

\* The steps that wait for the gate, take it, or give it back.
LEMMA GateStepsFit ==
  ASSUME IInv, IInv', NEW c \in Callers, CallFits(c), Kept, crossed \subseteq crossed',
         \A f \in Files : disk'[f].stamp >= disk[f].stamp,
         TakeGate(c) \/ GateTimesOut(c) \/ Ungate(c)
  PROVE  CallFits(c)'
<1>1. UNCHANGED <<opening, guards, tool, file, text>>
  BY DEF TakeGate, GateTimesOut, Ungate, docVars, syncVars
<1>2. CASE TakeGate(c)
  <2>1. PICK s, r : s = "gate" /\ At(c, s) /\ gate' = c /\ r = Tail(steps[c]) /\ steps'[c] = r
    BY <1>2, ThenIs DEF TakeGate
  <2>2. s \notin {"load", "write", "open", "ask"}
    BY <2>1
  <2> QED BY <1>1, <2>1, <2>2, PlainFits
<1>3. CASE GateTimesOut(c)
  <2>1. PICK s, r : s = "gate" /\ At(c, s) /\ gate' = gate /\ r = <<>> /\ steps'[c] = r
    BY <1>3, ThenIs DEF GateTimesOut
  <2>2. s \in Early
    BY <2>1 DEF Early
  <2> QED BY <1>1, <2>1, <2>2, PlainFits
<1>4. CASE Ungate(c)
  <2>1. PICK s, r : s = "ungate" /\ At(c, s) /\ gate' = None /\ r = Tail(steps[c]) /\ steps'[c] = r
    BY <1>4, ThenIs DEF Ungate
  <2>2. s \notin {"load", "write", "open", "ask", "gate"}
    BY <2>1
  <2> QED BY <1>1, <2>1, <2>2, PlainFits
<1> QED BY <1>2, <1>3, <1>4

\* The steps that go on, and leave the text and the guards of the call alone.
LEMMA GoingOnFits ==
  ASSUME IInv, IInv', NEW c \in Callers, CallFits(c), Kept, crossed \subseteq crossed',
         \A f \in Files : disk'[f].stamp >= disk[f].stamp,
         Forget(c) \/ Tidy(c) \/ DropOne(c) \/ Reclaim(c) \/ Shutdown(c) \/ Kill(c) \/ Keep(c) \/ Restore(c)
  PROVE  CallFits(c)'
<1>1. UNCHANGED <<opening, gate, tool, file, text>>
  BY DEF Forget, Tidy, DropOne, Reclaim, Shutdown, Kill, Keep, Restore, EvictIdle, EvictAll, docVars, syncVars
<1>2. PICK s \in {"forget", "tidy", "drop", "reclaim", "evict", "kill", "keep", "restore"} : At(c, s) /\ NextStep(c)
  BY DEF Forget, Tidy, DropOne, Reclaim, Shutdown, Kill, Keep, Restore
<1>3. steps'[c] = Tail(steps[c])
  BY <1>2, ThenIs
<1>4. file[c] \in Files /\ guards'[c][file[c]] > 0 => guards[c][file[c]] > 0
  <2>1. CASE DropOne(c)
    <3>1. At(c, "drop") /\ DropGuards(c, file[c], 1)
      BY <2>1 DEF DropOne
    <3> QED BY <3>1, AtStep
  <2>2. CASE ~DropOne(c)
    <3>1. UNCHANGED guards
      BY <2>2 DEF Forget, Tidy, Reclaim, Shutdown, Kill, Keep, Restore, EvictIdle, EvictAll, docVars, syncVars
    <3> QED BY <3>1
  <2> QED BY <2>1, <2>2
<1>5. s \notin {"load", "write", "open", "ask", "gate"}
  BY <1>2
<1> QED BY <1>1, <1>2, <1>3, <1>4, <1>5, PlainFits

\* The steps that end a call before it has read or written its file.
LEMMA QuittingFits ==
  ASSUME IInv, IInv', NEW c \in Callers, CallFits(c), Kept, crossed \subseteq crossed',
         \A f \in Files : disk'[f].stamp >= disk[f].stamp, Quit(c), UNCHANGED text,
         AskFails(c) \/ Look(c) \/ Create(c) \/ Sync(c)
  PROVE  CallFits(c)'
<1>1. UNCHANGED <<opening, guards, gate, tool, file>>
  BY DEF AskFails, Look, Create, Sync, ForceClose, docVars, syncVars
<1>2. PICK s \in {"ask", "look", "create", "sync"} : At(c, s)
  BY DEF AskFails, Look, Create, Sync
<1>3. s \in Early /\ s \notin {"load", "write", "open", "gate"}
  BY <1>2 DEF Early
<1>4. PICK r : r = <<>> /\ steps'[c] = r
  BY ThenIs
<1> QED BY <1>1, <1>2, <1>3, <1>4, PlainFits

\* rename-symbol goes to its next file, or ends.
LEMMA PicksFit ==
  ASSUME IInv, IInv', NEW c \in Callers, CallFits(c), Kept, crossed \subseteq crossed',
         \A f \in Files : disk'[f].stamp >= disk[f].stamp,
         Pick(c) \/ NoMore(c)
  PROVE  CallFits(c)'
<1>1. At(c, "pick") /\ UNCHANGED <<docVars, gate, tool, base, text, cache>>
  BY DEF Pick, NoMore
<1>2. /\ gate = c /\ OrderOK(c) /\ ~Opening(c) /\ ~Idle(c) /\ tool[c] \notin Askers
  BY <1>1, AtStep, Rests DEF CallFits, Gated
<1>3. CASE NoMore(c)
  <2>1. PICK s, r : s = "pick" /\ At(c, s) /\ r = Tail(steps[c])
    BY <1>1
  <2>2. r = <<>>
    BY <1>2, <2>1, Rests
  <2>3. UNCHANGED <<opening, guards, gate, tool, file, text>> /\ steps'[c] = r
    BY <1>1, <1>3, <2>2, ThenIs DEF NoMore, docVars, syncVars
  <2>4. s \notin {"load", "write", "open", "ask", "gate"}
    BY <2>1
  <2> QED BY <2>1, <2>3, <2>4, PlainFits
<1>4. CASE Pick(c)
  <2>1. PICK f \in Files : file' = [file EXCEPT ![c] = f] /\ Then(c, RenameFilePlan)
    BY <1>4 DEF Pick
  <2>2. file'[c] = f /\ steps'[c] = RenameFilePlan /\ f # None
    BY <2>1, ThenIs, DocSyncAssumption DEF IInv, Typed
  <2>3. ~Opening(c)' /\ ~Idle(c)'
    BY <1>1, <1>2 DEF docVars, syncVars, Opening, Idle
  <2>4. \A s : Faces(c, s)' => s = "load"
    BY <2>2, OthersFit, FacesNext
  <2>5. Left(c, {"open"})' /\ ~Left(c, Early)'
    BY <2>2, OthersFit DEF Left
  <2>6. Faces(c, "load")'
    BY <2>2, <2>3, OthersFit DEF Faces, RenameFilePlan
  <2>7. OrderOK(c)'
    BY <1>1, <1>2, <2>2, <2>3, <2>5, OthersFit DEF OrderOK, Askers
  <2>8. TextOK(c)' /\ WroteOK(c)'
    BY <2>5, <2>6 DEF TextOK, WroteOK
  <2>9. StatOK(c)' /\ AskOK(c)' /\ AnswerOK(c)'
    BY <1>1, <1>2, <2>3, <2>4 DEF StatOK, AskOK, AnswerOK, Askers
  <2> QED BY <2>7, <2>8, <2>9 DEF CallFits
<1> QED BY <1>3, <1>4

\* A file that is not there, and a write that fails.
LEMMA NothingReadFits ==
  ASSUME IInv, IInv', NEW c \in Callers, CallFits(c), NEW s \in {"load", "write"}, At(c, s),
         NEW r, steps'[c] = r, r = <<>> \/ (tool[c] = "rename" /\ r = <<"pick">>),
         text'[c] = 0, UNCHANGED <<disk, gate, tool, file, opening>>
  PROVE  CallFits(c)'
<1>1. gate = c /\ OrderOK(c) /\ ~Opening(c) /\ ~Idle(c)
  BY AtStep DEF CallFits, Gated
<1>2. ~Opening(c)' /\ ~Idle(c)'
  BY <1>1 DEF Opening, Idle
<1>3. StepsInOrder(tool[c], r)
  BY NothingLeftFits, OthersFit DEF Askers, Editors
<1>4. Fresh(tool[c], r)
  <2>1. Head(<<"pick">>) = "pick"
    OBVIOUS
  <2> QED BY <2>1 DEF Fresh, Later
<1>5. OrderOK(c)'
  BY <1>1, <1>2, <1>3 DEF OrderOK
<1>6. TextOK(c)'
  <2>1. \A f \in Files : disk'[f].stamp \in Nat
    BY DocTypes DEF IInv, DocInv, RestOK
  <2> QED BY <2>1 DEF TextOK
<1>7. WroteOK(c)'
  BY DEF WroteOK
<1> QED BY <1>2, <1>4, <1>5, <1>6, <1>7, FreshFits DEF CallFits

\* The text of the file is read from it.
LEMMA LoadFits ==
  ASSUME IInv, IInv', NEW c \in Callers, CallFits(c), Load(c)
  PROVE  CallFits(c)'
<1>1. At(c, "load") /\ file[c] \in Files /\ UNCHANGED <<disk, gate, tool, file, opening, crossed, guards>>
  BY AtStep DEF Load, docVars, syncVars
<1>2. OrderOK(c) /\ AnswerOK(c) /\ gate = c /\ ~Opening(c) /\ Faces(c, "load")
  BY <1>1, AtStep DEF CallFits, Gated, Faces
<1>3. CASE disk[file[c]].there
  <2>1. PICK s, r : s = "load" /\ At(c, s) /\ r = Tail(steps[c]) /\ steps'[c] = r
    BY <1>1, <1>3, ThenIs DEF Load
  <2>2. text'[c] = disk[file[c]].stamp /\ base' = base
    BY <1>3 DEF Load, IInv, Typed
  <2>3. ~Opening(c)'
    BY <1>1, <1>2 DEF Opening
  <2>4. OrderOK(c)'
    BY <1>1, <1>2, <2>1, <2>3, OrderStays
  <2>5. r # <<>> => /\ Head(r) \notin {"readback", "keep"}
                    /\ tool[c] \in Askers => Head(r) \notin {"ask", "load"}
    <3>1. s \notin {"write", "ask", "open"} /\ OrderOK(c) /\ At(c, s) /\ r = Tail(steps[c])
      BY <1>2, <2>1
    <3> QED BY <3>1, FirstLeft
  <2>5a. \E k \in DOMAIN r : r[k] = "open"
    <3>1. s \in {"load", "write", "create"}
      BY <2>1
    <3> QED BY <1>2, <2>1, <3>1, OpenComes
  <2>6. TextOK(c)'
    <3>1. disk[file[c]].stamp \in Nat
      BY <1>1, DocTypes DEF IInv
    <3> QED BY <1>1, <2>2, <3>1 DEF TextOK
  <2>7. StatOK(c)' /\ AskOK(c)'
    <3>1. tool[c] \in Askers => ~Faces(c, "ask")'
      BY <2>1, <2>5, FacesNext
    <3> QED BY <1>1, <2>3, <3>1 DEF StatOK, AskOK
  <2>8. AnswerOK(c)'
    <3>1. /\ ~Faces(c, "readback")' /\ ~Faces(c, "keep")'
          /\ tool[c] \in Editors => ~Faces(c, "load")'
      BY <2>1, <2>5, FacesNext DEF Askers
    <3>2. tool[c] \in Editors /\ file[c] \notin crossed => base[c][file[c]] = disk[file[c]].stamp
      BY <1>2 DEF AnswerOK
    <3> QED BY <1>1, <2>2, <3>1, <3>2 DEF AnswerOK
  <2>9. WroteOK(c)'
    <3>1. Left(c, {"open"})'
      BY <2>1, <2>5a DEF Left
    <3> QED BY <3>1 DEF WroteOK
  <2> QED BY <2>4, <2>6, <2>7, <2>8, <2>9 DEF CallFits
<1>4. CASE ~disk[file[c]].there
  <2>1. PICK r : steps'[c] = r /\ (r = <<>> \/ (tool[c] = "rename" /\ r = <<"pick">>))
    BY <1>4, ThenIs DEF Load
  <2>2. text'[c] = 0
    BY <1>4 DEF Load, IInv, Typed
  <2>3. PICK s \in {"load", "write"} : At(c, s)
    BY <1>1
  <2> QED BY <1>1, <2>1, <2>2, <2>3, NothingReadFits
<1> QED BY <1>3, <1>4

\* A write that fails forgets what was read.
LEMMA WriteFailsFits ==
  ASSUME IInv, IInv', NEW c \in Callers, CallFits(c), WriteFails(c)
  PROVE  CallFits(c)'
<1>1. At(c, "write") /\ UNCHANGED <<disk, gate, tool, file, opening>>
  BY DEF WriteFails, docVars, syncVars
<1>2. PICK r : steps'[c] = r /\ (r = <<>> \/ (tool[c] = "rename" /\ r = <<"pick">>))
  BY ThenIs DEF WriteFails
<1>3. text'[c] = 0
  BY DEF WriteFails, IInv, Typed
<1>4. PICK s \in {"load", "write"} : At(c, s)
  BY <1>1
<1> QED BY <1>1, <1>2, <1>3, <1>4, NothingReadFits

\* The key an answer will be kept under is of the file as it is, or was.
LEMMA LookFits ==
  ASSUME IInv, IInv', NEW c \in Callers, CallFits(c), Kept, crossed \subseteq crossed',
         \A f \in Files : disk'[f].stamp >= disk[f].stamp, Look(c)
  PROVE  CallFits(c)'
<1>1. /\ At(c, "look") /\ file[c] \in Files
      /\ UNCHANGED <<disk, gate, tool, file, opening, crossed, guards>>
  BY AtStep DEF Look, docVars, syncVars
<1>2. CASE Quit(c) /\ UNCHANGED text
  BY <1>2, QuittingFits
<1>3. CASE NextStep(c) /\ text' = [text EXCEPT ![c] = Key(file[c])]
  <2>1. PICK s, r : s = "look" /\ At(c, s) /\ r = Tail(steps[c]) /\ steps'[c] = r
    BY <1>1, <1>3, ThenIs
  <2>2. OrderOK(c) /\ tool[c] = "outline" /\ ~Opening(c)
    BY <2>1, Rests, AtStep DEF CallFits
  <2>3. ~Opening(c)'
    BY <1>1, <2>2 DEF Opening
  <2>4. OrderOK(c)'
    <3>1. s \notin {"gate", "ungate", "open"}
      BY <2>1
    <3> QED BY <1>1, <2>1, <2>2, <2>3, <3>1, OrderStays
  <2>5. text'[c] = Key(file[c]) /\ Key(file[c]) <= disk[file[c]].stamp
    <3>1. disk[file[c]].stamp \in Nat
      BY <1>1, DocTypes DEF IInv
    <3> QED BY <1>3, <3>1 DEF IInv, Typed, Key
  <2>6. Fresh(tool[c], r)
    <3>1. s \notin {"load", "write", "ask", "open"}
      BY <2>1
    <3> QED BY <2>1, <2>2, <3>1, FirstLeft DEF Fresh, Later
  <2>7. TextOK(c)'
    BY <1>1, <2>5 DEF TextOK
  <2>8. WroteOK(c)'
    BY <2>2, <2>4, <1>1 DEF WroteOK, OrderOK
  <2> QED BY <1>1, <2>1, <2>3, <2>4, <2>6, <2>7, <2>8, FreshFits DEF CallFits
<1> QED BY <1>2, <1>3 DEF Look

\* What has been written is what the file says; the ensure_open that tells of it is yet to come.
LEMMA WritesFit ==
  ASSUME IInv, IInv', NEW c \in Callers, CallFits(c), NEW s \in {"write", "create"}, At(c, s),
         NEW r, steps'[c] = r, r = Tail(steps[c]), WriteFile(file[c]), text' = [text EXCEPT ![c] = disk'[file[c]].stamp],
         UNCHANGED <<gate, tool, file, opening, crossed, guards>>
  PROVE  CallFits(c)'
<1>1. file[c] \in Files /\ OrderOK(c) /\ gate = c /\ ~Opening(c)
  BY AtStep DEF CallFits, Gated
<1>2. text'[c] = disk'[file[c]].stamp /\ disk'[file[c]] = [there |-> TRUE, stamp |-> text'[c]]
      /\ disk'[file[c]].stamp \in Nat
  <2>1. text'[c] = disk'[file[c]].stamp
    BY DEF IInv, Typed
  <2>2. disk'[file[c]] = [there |-> TRUE, stamp |-> disk[file[c]].stamp + 1]
    BY <1>1 DEF WriteFile, IInv, DocInv, RestOK
  <2>3. disk[file[c]].stamp \in Nat
    BY <1>1, DocTypes DEF IInv
  <2>4. PICK n \in Nat : n = disk[file[c]].stamp + 1
    BY <2>3
  <2>5. disk'[file[c]] = [there |-> TRUE, stamp |-> n]
    BY <2>2, <2>4
  <2>6. disk'[file[c]].stamp = n
    BY <2>5
  <2> QED BY <2>1, <2>5, <2>6
<1>3. ~Opening(c)'
  BY <1>1 DEF Opening
<1>4. OrderOK(c)'
  <2>1. s # "open" /\ s # "gate" /\ s \in {"load", "write", "create"}
    OBVIOUS
  <2> QED BY <1>1, <1>3, <2>1, OrderStays
<1>5. r # <<>> => /\ Head(r) \notin {"write", "keep"}
                  /\ tool[c] \in Askers => Head(r) \notin {"ask", "load"}
  <2>1. s \notin {"load", "ask", "open"}
    OBVIOUS
  <2> QED BY <1>1, <2>1, FirstLeft
<1>6. \E k \in DOMAIN r : r[k] = "open"
  <2>1. s \in {"load", "write", "create"}
    OBVIOUS
  <2> QED BY <1>1, <2>1, OpenComes
<1>7. TextOK(c)'
  BY <1>2 DEF TextOK
<1>8. StatOK(c)' /\ AskOK(c)'
  <2>1. tool[c] \in Askers => ~Faces(c, "ask")'
    BY <1>5, FacesNext
  <2> QED BY <1>3, <2>1 DEF StatOK, AskOK
<1>9. AnswerOK(c)'
  <2>1. /\ ~Faces(c, "write")' /\ ~Faces(c, "keep")'
        /\ tool[c] \in Editors => ~Faces(c, "load")'
    BY <1>5, FacesNext DEF Askers
  <2> QED BY <1>2, <2>1 DEF AnswerOK
<1>10. WroteOK(c)'
  <2>1. Left(c, {"open"})'
    BY <1>6 DEF Left
  <2> QED BY <2>1 DEF WroteOK
<1> QED BY <1>4, <1>7, <1>8, <1>9, <1>10 DEF CallFits

\* A file is written or created.
LEMMA WriteFits ==
  ASSUME IInv, IInv', NEW c \in Callers, CallFits(c), Kept, crossed \subseteq crossed',
         \A f \in Files : disk'[f].stamp >= disk[f].stamp, Write(c) \/ Create(c)
  PROVE  CallFits(c)'
<1>1. UNCHANGED <<gate, tool, file, opening, crossed, guards>>
  BY DEF Write, Create, syncVars
<1>2. CASE Create(c) /\ Quit(c) /\ UNCHANGED text
  BY <1>2, QuittingFits
<1>3. CASE /\ Write(c) \/ Create(c)
           /\ NextStep(c) /\ WriteFile(file[c]) /\ text' = [text EXCEPT ![c] = disk'[file[c]].stamp]
  <2>1. PICK s \in {"write", "create"} : At(c, s) /\ steps'[c] = Tail(steps[c])
    BY <1>3, ThenIs DEF Write, Create
  <2>2. PICK r : r = Tail(steps[c]) /\ steps'[c] = r
    BY <2>1
  <2> QED BY <1>1, <1>3, <2>1, <2>2, WritesFit
<1> QED BY <1>2, <1>3 DEF Write, Create

\* Whoever finds another text than it has written has been crossed.
LEMMA ReadbackFits ==
  ASSUME IInv, IInv', NEW c \in Callers, CallFits(c), Kept, crossed \subseteq crossed',
         \A f \in Files : disk'[f].stamp >= disk[f].stamp, Readback(c)
  PROVE  CallFits(c)'
<1>1. PICK s : s = "readback" /\ At(c, s)
  BY DEF Readback
<1>2. UNCHANGED <<gate, tool, file, text, opening, guards>>
  BY DEF Readback, syncVars
<1>3. s \notin {"load", "write", "open", "ask", "gate"}
  BY <1>1
<1>4. PICK r : steps'[c] = r /\ (r = Tail(steps[c]) \/ (r = <<>> /\ file[c] \in crossed'))
  <2>1. CASE disk[file[c]] = [there |-> TRUE, stamp |-> text[c]]
    BY <2>1, ThenIs DEF Readback
  <2>2. CASE disk[file[c]] # [there |-> TRUE, stamp |-> text[c]]
    <3>1. Faces(c, "readback") /\ AnswerOK(c)
      BY <1>1, AtStep DEF Faces, CallFits
    <3>2. file[c] \in crossed
      BY <2>2, <3>1 DEF AnswerOK
    <3> QED BY <2>2, <3>2, ThenIs DEF Readback
  <2> QED BY <2>1, <2>2
<1> QED BY <1>1, <1>2, <1>3, <1>4, PlainFits

\* An undo closes the document, or brings it up to date.
LEMMA SyncFits ==
  ASSUME IInv, IInv', NEW c \in Callers, CallFits(c), Kept, crossed \subseteq crossed',
         \A f \in Files : disk'[f].stamp >= disk[f].stamp, Sync(c)
  PROVE  CallFits(c)'
<1>1. /\ At(c, "sync") /\ file[c] \in Files /\ ~Opening(c)
      /\ UNCHANGED <<disk, gate, tool, file, text, opening, guards>>
  BY AtStep DEF Sync, ForceClose, syncVars
<1>2. CASE Quit(c)
  BY <1>1, <1>2, QuittingFits
<1>3. CASE Then(c, <<"open">>)
  <2>1. PICK r : r = <<"open">> /\ steps'[c] = r
    BY <1>3, ThenIs
  <2>2. StepsInOrder(tool[c], r) /\ AskGated(tool[c], r)
    BY <2>1, OthersFit
  <2>3. Fresh(tool[c], r)
    BY <2>1 DEF Fresh, Later
  <2>4. ~Opening(c)' /\ (Idle(c)' <=> Idle(c)) /\ OrderOK(c) /\ TextOK(c)
    BY <1>1 DEF Opening, Idle, CallFits
  <2>5. ~Left(c, Early)' /\ Left(c, {"open"})'
    BY <2>1 DEF Left, Early
  <2>6. OrderOK(c)'
    BY <1>1, <2>1, <2>2, <2>4, <2>5 DEF OrderOK
  <2>7. TextOK(c)'
    <3>1. ~Faces(c, "load")
      BY <1>1, AtStep DEF Faces
    <3> QED BY <1>1, <2>4, <3>1 DEF TextOK
  <2>8. WroteOK(c)'
    BY <2>5 DEF WroteOK
  <2> QED BY <1>1, <2>1, <2>3, <2>4, <2>6, <2>7, <2>8, FreshFits DEF CallFits
<1> QED BY <1>2, <1>3 DEF Sync, Quit

-----------------------------------------------------------------------------
(* The documents and the answers.                                          *)

\* What the language server has been told is what it answers from.
LEMMA KnownIs ==
  ASSUME DocInv, TextsFit, NEW f \in Files
  PROVE  /\ Known(f) \in Nat /\ Known(f) <= disk[f].stamp
         /\ \A t \in Nat : Arrived(f, t) => Known(f) >= t
<1>1. view[f].text <= disk[f].stamp /\ view[f].text \in Nat /\ disk[f].stamp \in Nat
  BY DocTypes DEF TextsFit, TextsOK
<1> QED BY <1>1 DEF Known, Arrived

\* An answer comes from what has arrived.
LEMMA AskFits ==
  ASSUME IInv, IInv', TextsFit, NEW c \in Callers, CallFits(c), Kept, crossed \subseteq crossed', Ask(c)
  PROVE  CallFits(c)'
<1>1. /\ At(c, "ask") /\ file[c] \in Files /\ Faces(c, "ask")
      /\ UNCHANGED <<disk, buffers, view, closing, gate, tool, file, text, opening, guards>>
  BY AtStep DEF Ask, Faces
<1>2. PICK s, r : s = "ask" /\ At(c, s) /\ r = Tail(steps[c]) /\ steps'[c] = r
  BY <1>1, ThenIs DEF Ask
<1>3. OrderOK(c) /\ TextOK(c) /\ AskOK(c) /\ WroteOK(c) /\ ~Opening(c) /\ s \notin {"open", "load", "write", "gate", "ungate"}
  BY <1>2, AtStep DEF CallFits
<1>4. ~Opening(c)'
  BY <1>1, <1>3 DEF Opening
<1>5. OrderOK(c)'
  BY <1>1, <1>2, <1>3, <1>4, OrderStays
<1>6. TextOK(c)'
  BY <1>1, <1>2, <1>3 DEF TextOK, Faces
<1>7. StatOK(c)'
  BY <1>4 DEF StatOK
<1>8. AskOK(c)'
  BY <1>1, <1>3 DEF AskOK, Arrived, InPhase
<1>9. AnswerOK(c)'
  <2>1. ~Faces(c, "write")' /\ ~Faces(c, "readback")' /\ (Faces(c, "keep")' => tool[c] = "outline")
    <3>1. r # <<>> => Head(r) # "write" /\ Head(r) # "readback"
      BY <1>2, <1>3, FirstLeft
    <3>2. Faces(c, "keep")' => r # <<>> /\ Head(r) = "keep"
      BY <1>2, FacesNext
    <3>3. r # <<>> /\ Head(r) = "keep" => tool[c] = "outline"
      <4>1. StepsInOrder(tool[c], r) /\ r \in Seq(StepNames)
        BY <1>2, <1>3, Rests, LeftOver
      <4>2. r # <<>> => 1 \in DOMAIN r /\ r[1] = Head(r)
        BY <4>1, TailIs
      <4> QED BY <4>1, <4>2 DEF StepsInOrder, Names
    <3> QED BY <1>2, <3>1, <3>2, <3>3, FacesNext
  <2>2. tool[c] \in Askers => base'[c][file[c]] = Known(file[c])
    <3> SUFFICES ASSUME tool[c] \in Askers PROVE base'[c][file[c]] = Known(file[c])
      OBVIOUS
    <3>1. tool[c] # "rename" /\ tool[c] # "read"
      BY DEF Askers, Editors
    <3>2. base' = [base EXCEPT ![c] = [f \in Files |-> IF f \in {file[c]} THEN Known(f) ELSE 0]]
      BY <3>1 DEF Ask
    <3>3. base'[c] = [f \in Files |-> IF f \in {file[c]} THEN Known(f) ELSE 0]
      BY <3>2 DEF IInv, Typed
    <3> QED BY <1>1, <3>3
  <2>3. PICK f \in Files : f = file[c]
    BY <1>1
  <2>4. Known(f) \in Nat /\ Known(f) <= disk[f].stamp /\ disk[f].stamp \in Nat
    BY KnownIs, DocTypes DEF IInv
  <2>5. ASSUME tool[c] \in Editors, f \notin crossed' PROVE base'[c][f] = disk[f].stamp
    <3>1. PICK t \in Nat : t = disk[f].stamp
      BY <2>4
    <3>2. tool[c] # "outline"
      BY <2>5 DEF Editors
    <3>3. Arrived(f, t)
      BY <1>1, <1>3, <2>3, <2>5, <3>1, <3>2 DEF AskOK, Askers
    <3>4. Known(f) >= t
      BY <3>3, KnownIs DEF IInv
    <3> QED BY <2>2, <2>3, <2>4, <2>5, <3>1, <3>4 DEF Askers
  <2>6. ASSUME tool[c] = "outline"
        PROVE  base'[c][f] <= disk[f].stamp /\ (f \notin crossed' => text[c] <= base'[c][f])
    <3>1. PICK t \in Nat : t = text[c]
      BY DEF IInv, Typed
    <3>2. f \notin crossed' => Arrived(f, t)
      BY <1>1, <1>3, <2>3, <2>6, <3>1 DEF AskOK, Askers
    <3>3. f \notin crossed' => Known(f) >= t
      BY <3>2, KnownIs DEF IInv
    <3>4. base'[c][f] = Known(f)
      BY <2>2, <2>3, <2>6 DEF Askers
    <3> QED BY <2>4, <3>1, <3>3, <3>4
  <2> QED BY <1>1, <2>1, <2>3, <2>5, <2>6 DEF AnswerOK
<1>10. WroteOK(c)'
  <2> SUFFICES ASSUME gate = c, ~Left(c, {"open"})' PROVE gate = c /\ ~Left(c, {"open"})
    BY <1>1, <1>3, WroteStays
  <2>1. ~\E k \in DOMAIN r : r[k] = "open"
    BY <1>2, FacesNext
  <2>2. ~\E i \in DOMAIN steps[c] : steps[c][i] = "open"
    BY <1>2, <1>3, <2>1, AtStep, OpenIsLeft
  <2> QED BY <2>2 DEF Left
<1> QED BY <1>5, <1>6, <1>7, <1>8, <1>9, <1>10 DEF CallFits

\* An ensure_open begins with the stamp of the file.
LEMMA OpenStartsFits ==
  ASSUME IInv, IInv', NEW c \in Callers, CallFits(c), OpenStarts(c)
  PROVE  CallFits(c)'
<1>1. /\ At(c, "open") /\ file[c] \in Files /\ ~Faces(c, "load")
      /\ UNCHANGED <<disk, gate, tool, file, text, guards, crossed>>
      /\ text[c] <= disk[file[c]].stamp
  <2>1. At(c, "open") /\ file[c] \in Files
    BY AtStep DEF OpenStarts
  <2>2. ~Faces(c, "load")
    BY <2>1, AtStep DEF Faces
  <2> QED BY <2>1, <2>2 DEF OpenStarts, CallFits, TextOK
<1>2. PICK s, r : /\ s = "open" /\ At(c, s) /\ steps'[c] = r
                  /\ IF disk[file[c]].there THEN r = Tail(steps[c]) ELSE r = <<>>
  BY <1>1, ThenIs DEF OpenStarts
<1>3. /\ disk[file[c]].there => opening'[c].phase = "read" /\ opening'[c].stat = disk[file[c]].stamp
      /\ ~disk[file[c]].there => opening'[c].phase = "err"
  <2> DEFINE p == [Ended("ok") EXCEPT !.phase = "read", !.file = file[c], !.stat = disk[file[c]].stamp]
             o == IF disk[file[c]].there THEN p ELSE Ended("err")
  <2>1. p.phase = "read" /\ p.stat = disk[file[c]].stamp
    BY DEF Ended
  <2>2. opening' = [opening EXCEPT ![c] = o]
    BY DEF OpenStarts, Stat
  <2>3. opening'[c] = o
    BY <2>2, DocTypes DEF IInv
  <2>4. \/ o = p /\ disk[file[c]].there
        \/ o = Ended("err") /\ ~disk[file[c]].there
    OBVIOUS
  <2> HIDE DEF p, o
  <2> QED BY <2>1, <2>3, <2>4, EndedIs
<1>4. OrderOK(c)'
  <2>1. s \notin {"gate", "ungate"} /\ OrderOK(c)
    BY <1>2 DEF CallFits
  <2> QED BY <1>1, <1>2, <2>1, OrderStays
<1>5. TextOK(c)'
  BY <1>1 DEF TextOK
<1>6. WroteOK(c)'
  BY <1>3 DEF WroteOK
<1>7. CASE disk[file[c]].there
  <2>1. Opening(c)'
    BY <1>3, <1>7 DEF Opening, Phases
  <2>2. StatOK(c)'
    BY <1>1, <1>3, <1>7 DEF StatOK
  <2>3. AskOK(c)' /\ AnswerOK(c)'
    BY <2>1 DEF AskOK, AnswerOK, Faces
  <2> QED BY <1>4, <1>5, <1>6, <2>2, <2>3 DEF CallFits
<1>8. CASE ~disk[file[c]].there
  <2>1. ~Opening(c)' /\ Fresh(tool'[c], r)
    BY <1>2, <1>3, <1>8 DEF Opening, Phases, Fresh
  <2> QED BY <1>2, <1>4, <1>5, <1>6, <2>1, FreshFits DEF CallFits
<1> QED BY <1>7, <1>8

\* An ensure_open stays with its file and its stamp.
LEMMA StatStays ==
  ASSUME DocInv, NEW c \in Callers, Opening(c), OpenSteps(c), Opening(c)'
  PROVE  opening'[c].stat = opening[c].stat
<1>0. opening[c] \in Openings /\ opening \in [Callers -> Openings]
  BY DocTypes
<1>1. CASE Read(c)
  <2> DEFINE p == [opening[c] EXCEPT !.phase = "book", !.snap = Snapshot(opening[c].file), !.text = 0]
             q == [opening[c] EXCEPT !.phase = "book", !.snap = Snapshot(opening[c].file),
                                     !.text = disk[opening[c].file].stamp]
  <2>1. p.stat = opening[c].stat /\ q.stat = opening[c].stat
    BY <1>0 DEF Openings
  <2>2. \E n \in {p, q, Ended("err")} : opening' = [opening EXCEPT ![c] = n]
    <3>1. opening' = [opening EXCEPT ![c] = IF IsUnchanged(Snapshot(opening[c].file), opening[c].stat) THEN p
                                            ELSE IF disk[opening[c].file].there THEN q ELSE Ended("err")]
      BY <1>1 DEF Read
    <3> HIDE DEF p, q
    <3> QED BY <3>1
  <2> HIDE DEF p, q
  <2>3. opening'[c] \in {p, q, Ended("err")}
    BY <1>0, <2>2
  <2> QED BY <2>1, <2>3, EndedIs DEF Opening
<1>2. CASE Drift(c) \/ SendRefused(c)
  <2>1. \E phase : opening' = [opening EXCEPT ![c] = [opening[c] EXCEPT !.phase = phase]]
    BY <1>0, <1>2 DEF Drift, SendRefused, Goto
  <2> QED BY <1>0, <2>1 DEF Openings
<1>3. CASE BookNew(c)
  <2>1. opening' = [opening EXCEPT ![c] = [opening[c] EXCEPT !.phase = "send", !.version = 1]]
    BY <1>3 DEF BookNew
  <2> QED BY <1>0, <2>1 DEF Openings
<1>4. CASE BookAgain(c)
  <2>1. \/ opening' = [opening EXCEPT ![c] = Ended("ok")]
        \/ \E v : opening' = [opening EXCEPT ![c] = [opening[c] EXCEPT !.phase = "send", !.version = v]]
    BY <1>4 DEF BookAgain
  <2>2. CASE opening' = [opening EXCEPT ![c] = Ended("ok")]
    <3>1. opening'[c].phase = "ok"
      BY <1>0, <2>2, EndedIs
    <3> QED BY <3>1 DEF Opening, Phases
  <2>3. CASE \E v : opening' = [opening EXCEPT ![c] = [opening[c] EXCEPT !.phase = "send", !.version = v]]
    <3>1. PICK v : opening' = [opening EXCEPT ![c] = [opening[c] EXCEPT !.phase = "send", !.version = v]]
      BY <2>3
    <3> QED BY <1>0, <3>1 DEF Openings
  <2> QED BY <2>1, <2>2, <2>3
<1>5. CASE Send(c)
  <2>1. \/ opening' = [opening EXCEPT ![c] = Ended("ok")]
        \/ \E phase : opening' = [opening EXCEPT ![c] = [opening[c] EXCEPT !.phase = phase]]
    BY <1>0, <1>5 DEF Send, Goto, Opened
  <2> QED BY <1>0, <2>1, EndedIs DEF Openings, Opening
<1>6. CASE Settle(c) \/ Rollback(c) \/ CloseNext(c)
  <2>1. \/ opening' = opening
        \/ \E how \in {"ok", "err"} : opening' = [opening EXCEPT ![c] = Ended(how)]
    BY <1>6 DEF Settle, Rollback, CloseNext, Opened
  <2> QED BY <1>0, <2>1, EndedIs DEF Opening
<1> QED BY <1>1, <1>2, <1>3, <1>4, <1>5, <1>6 DEF OpenSteps

\* When an ensure_open has succeeded, the language server has the text it was called for.
LEMMA OpenEnds ==
  ASSUME DocInv, DocInv', TextsFit, Kept, NEW c \in Callers, Opening(c), OpenSteps(c), opening'[c].phase = "ok",
         NEW f \in Files, f = opening[c].file, f \notin crossed', crossed \subseteq crossed',
         NEW t \in Nat, t = opening[c].stat
  PROVE  Arrived(f, t)'
<1>0. opening[c] \in Openings /\ opening \in [Callers -> Openings]
  BY DocTypes
<1>1. CASE Send(c)
  BY <1>1, SendArrives
<1>2. CASE Settle(c) \/ CloseNext(c)
  <2>1. opening[c].phase \in {"settle", "close"}
    BY <1>2 DEF Settle, CloseNext, Opening, Phases
  <2>2. Arrived(f, t)
    BY <2>1 DEF TextsFit, ToldOK
  <2>3. InPhase(c, f, {"send", "rollback", "settle", "close"}) /\ f \notin crossed
    BY <2>1 DEF InPhase
  <2>4. buffers[f].refs > 0
    BY <2>3, HeldIsCounted
  <2> QED BY <2>2, <2>4 DEF Kept
<1>3. CASE BookAgain(c)
  <2>1. /\ opening[c].phase = "book" /\ f \in Buffered /\ Snapshot(f) = opening[c].snap
        /\ Cross(c, f) /\ UNCHANGED <<disk, view, closing>>
    BY <1>3 DEF BookAgain
  <2>2. opening[c].text = 0 /\ opening' = [opening EXCEPT ![c] = Ended("ok")]
    <3>1. CASE opening[c].text = 0
      BY <1>3, <3>1 DEF BookAgain
    <3>2. CASE opening[c].text # 0
      <4>1. \E v : opening' = [opening EXCEPT ![c] = [opening[c] EXCEPT !.phase = "send", !.version = v]]
        BY <1>3, <3>2 DEF BookAgain
      <4>2. opening'[c].phase = "send"
        BY <1>0, <4>1 DEF Openings
      <4> QED BY <4>2
    <3> QED BY <3>1, <3>2
  <2>3. f \notin crossed /\ \A d \in Callers \ {c} : d \notin Due(f)
    BY <2>1, Alone
  <2>4. c \notin Due(f)
    <3>1. closing[c] = {}
      BY <2>1 DEF DocInv, OpenOK, Phases
    <3> QED BY <2>1, <3>1 DEF Due, InPhase
  <2>5. Due(f) = {}
    BY <2>3, <2>4 DEF Due
  <2>6. ~buffers[f].resync /\ buffers[f].stamp = t
    <3>1. ~opening[c].snap.resync /\ opening[c].snap.stamp = t
      <4>1. LookOK(c) /\ OpenOK(c)
        BY DEF TextsFit, DocInv
      <4> QED BY <2>1, <2>2, <4>1 DEF LookOK, OpenOK, Phases
    <3>2. Snapshot(f).resync = buffers[f].resync /\ Snapshot(f).stamp = buffers[f].stamp
      BY DocTypes DEF Snapshot, Buffers
    <3> QED BY <2>1, <3>1, <3>2
  <2>7. view[f].open /\ view[f].text >= t
    BY <2>1, <2>3, <2>5, <2>6 DEF DocInv, FileOK, EntryOK, Buffered
  <2>8. ASSUME NEW d \in Callers PROVE f \notin closing'[d] /\ ~InPhase(d, f, {"send"})'
    <3>1. f \notin closing[d] /\ ~InPhase(d, f, {"send"})
      BY <2>5 DEF Due, InPhase
    <3>2. opening'[d] = opening[d] \/ opening'[d] = Ended("ok")
      BY <1>0, <2>2
    <3> QED BY <2>1, <3>1, <3>2, EndedIs DEF InPhase
  <2> QED BY <2>1, <2>7, <2>8 DEF Arrived
<1>4. CASE Read(c)
  <2> DEFINE p == [opening[c] EXCEPT !.phase = "book", !.snap = Snapshot(f), !.text = 0]
             q == [opening[c] EXCEPT !.phase = "book", !.snap = Snapshot(f), !.text = disk[f].stamp]
  <2>1. p.phase = "book" /\ q.phase = "book"
    BY <1>0 DEF Openings
  <2>2. \E n \in {p, q, Ended("err")} : opening' = [opening EXCEPT ![c] = n]
    <3>1. opening' = [opening EXCEPT ![c] = IF IsUnchanged(Snapshot(f), opening[c].stat) THEN p
                                            ELSE IF disk[f].there THEN q ELSE Ended("err")]
      BY <1>4 DEF Read
    <3> HIDE DEF p, q
    <3> QED BY <3>1
  <2> HIDE DEF p, q
  <2>3. opening'[c] \in {p, q, Ended("err")}
    BY <1>0, <2>2
  <2> QED BY <2>1, <2>3, EndedIs
<1>5. CASE Drift(c) \/ BookNew(c) \/ SendRefused(c)
  <2> DEFINE p == [opening[c] EXCEPT !.phase = "read"]
             q == [opening[c] EXCEPT !.phase = "rollback"]
             r == [opening[c] EXCEPT !.phase = "send", !.version = 1]
  <2>1. p.phase = "read" /\ q.phase = "rollback" /\ r.phase = "send"
    BY <1>0 DEF Openings
  <2>2. \E n \in {p, q, r} : opening' = [opening EXCEPT ![c] = n]
    BY <1>0, <1>5 DEF Drift, BookNew, SendRefused, Goto
  <2> HIDE DEF p, q, r
  <2>3. opening'[c] \in {p, q, r}
    BY <1>0, <2>2
  <2> QED BY <2>1, <2>3
<1>6. CASE Rollback(c)
  <2>1. opening' = [opening EXCEPT ![c] = Ended("err")]
    BY <1>6 DEF Rollback
  <2> QED BY <1>0, <2>1, EndedIs
<1> QED BY <1>1, <1>2, <1>3, <1>4, <1>5, <1>6 DEF OpenSteps

\* An ensure_open goes on, fails, or has told the language server.
LEMMA OpenGoesOnFits ==
  ASSUME IInv, IInv', TextsFit, NEW c \in Callers, CallFits(c), Kept, crossed \subseteq crossed', OpenGoesOn(c)
  PROVE  CallFits(c)'
<1>1. /\ OpenSteps(c) /\ Opening(c) /\ UNCHANGED <<disk, gate, tool, file, base, text>>
      /\ OrderOK(c) /\ TextOK(c) /\ StatOK(c)
      /\ opening[c].file = file[c] /\ file[c] \in Files /\ ~Idle(c) /\ ~Idle(c)'
  <2>1. OpenSteps(c) /\ Opening(c) /\ UNCHANGED <<disk, gate, tool, file, base, text>>
    BY DEF OpenGoesOn, Opening, OpenSteps, Read, Drift, BookNew, BookAgain, Send, SendRefused, Settle, Rollback, CloseNext
  <2>2. CallOK(c)
    BY DEF IInv
  <2> QED BY <2>1, <2>2 DEF CallOK, CallFits, Idle
<1>2. PICK f \in Files, t \in Nat : f = file[c] /\ t = opening[c].stat
  BY <1>1, DocTypes DEF IInv
<1>3. TextOK(c)'
  BY <1>1 DEF TextOK, Faces
<1>4. CASE Opening(c)'
  <2>1. opening'[c].phase # "err" /\ opening'[c].phase # "ok"
    BY <1>4 DEF Opening, Phases
  <2>2. UNCHANGED steps
    BY <2>1 DEF OpenGoesOn
  <2>3. opening'[c].stat = opening[c].stat
    BY <1>1, <1>4, StatStays DEF IInv
  <2>4. OrderOK(c)'
    BY <1>1, <1>4, <2>2 DEF OrderOK, Left
  <2>5. StatOK(c)'
    BY <1>1, <2>3 DEF StatOK
  <2>6. AskOK(c)' /\ AnswerOK(c)' /\ WroteOK(c)'
    BY <1>4, <2>1 DEF AskOK, AnswerOK, WroteOK, Faces
  <2> QED BY <1>3, <2>4, <2>5, <2>6 DEF CallFits
<1>5. CASE opening'[c].phase = "err"
  <2>1. steps'[c] = <<>>
    BY <1>5, ThenIs DEF OpenGoesOn
  <2>2. ~Opening(c)'
    BY <1>5 DEF Opening, Phases
  <2>3. \A S : ~Left(c, S)'
    BY <2>1 DEF Left
  <2>4. OrderOK(c)'
    BY <1>1, <2>1, <2>2, <2>3, NothingLeftFits DEF OrderOK
  <2>5. WroteOK(c)'
    BY <1>5 DEF WroteOK
  <2>6. Fresh(tool'[c], <<>>)
    BY DEF Fresh
  <2> QED BY <1>3, <2>1, <2>2, <2>4, <2>5, <2>6, FreshFits DEF CallFits
<1>6. CASE opening'[c].phase = "ok" /\ guards'[c][file[c]] > 0
  <2>1. UNCHANGED steps /\ ~Opening(c)'
    BY <1>6 DEF OpenGoesOn, Opening, Phases
  <2>2. OrderOK(c)'
    BY <1>1, <2>1 DEF OrderOK, Left
  <2>3. f \notin crossed' => Arrived(f, t)'
    BY <1>1, <1>2, <1>6, OpenEnds DEF IInv
  <2>4. \A s \in Nat : s <= t /\ Arrived(f, t)' => Arrived(f, s)'
    <3>1. view'[f].text \in Nat /\ \A d \in Callers : opening'[d].text \in Nat
      BY DocTypes DEF IInv, DocInv, RestOK, PhasesOK, Openings
    <3> QED BY <3>1 DEF Arrived
  <2>5. disk[f].stamp \in Nat /\ text[c] \in Nat /\ text[c] <= disk[f].stamp
    BY <1>1, <1>2, DocTypes DEF IInv, Typed, TextOK, Faces
  <2>6. gate = c /\ f \notin crossed' => t = disk[f].stamp
    BY <1>1, <1>2 DEF StatOK
  <2>7. AskOK(c)'
    <3> SUFFICES ASSUME tool[c] \in Askers, Faces(c, "ask")'
                 PROVE  f \notin crossed' =>
                          Arrived(f, IF tool[c] = "outline" THEN text[c] ELSE disk[f].stamp)'
      BY <1>1, <1>2, <1>6 DEF AskOK
    <3>1. CASE tool[c] = "outline"
      <4>1. text[c] <= t
        BY <1>1, <1>2, <3>1 DEF StatOK
      <4>2. PICK s \in Nat : s = text[c]
        BY <2>5
      <4>3. f \notin crossed' => Arrived(f, s)'
        BY <2>3, <2>4, <4>1, <4>2
      <4> QED BY <1>1, <3>1, <4>2, <4>3
    <3>2. CASE tool[c] # "outline"
      <4>1. tool'[c] \in Editors /\ OrderOK(c)' /\ Faces(c, "ask")'
        BY <1>1, <2>2, <3>2 DEF Askers
      <4>2. gate = c
        <5>1. gate' = c
          <6>1. steps'[c] \in Seq(StepNames) /\ steps'[c] # <<>> /\ Head(steps'[c]) = "ask"
            BY <4>1 DEF Faces, IInv, Typed
          <6> QED BY <4>1, <6>1, RestIsGated DEF OrderOK
        <5> QED BY <1>1, <5>1
      <4>3. f \notin crossed' => t = disk[f].stamp
        BY <2>6, <4>2
      <4> QED BY <1>1, <2>3, <3>2, <4>3
    <3> QED BY <3>1, <3>2
  <2>8. AnswerOK(c)'
    <3>1. \A s : Faces(c, s)' => s \notin Later(tool[c])
      BY <1>1, <2>1 DEF OrderOK, Faces
    <3>2. /\ ~Faces(c, "write")' /\ ~Faces(c, "readback")' /\ ~Faces(c, "keep")'
          /\ tool[c] \in Editors => ~Faces(c, "load")'
      BY <3>1 DEF Later, Askers
    <3> QED BY <1>1, <3>2 DEF AnswerOK
  <2>9. WroteOK(c)'
    <3> SUFFICES ASSUME gate = c, f \notin crossed' PROVE Arrived(f, text[c])'
      BY <1>1, <1>2 DEF WroteOK
    <3>1. PICK s \in Nat : s = text[c]
      BY <2>5
    <3>2. Arrived(f, s)'
      BY <2>3, <2>4, <2>5, <2>6, <3>1
    <3> QED BY <1>1, <3>1, <3>2
  <2>10. StatOK(c)'
    BY <2>1 DEF StatOK
  <2> QED BY <1>3, <2>2, <2>7, <2>8, <2>9, <2>10 DEF CallFits
<1> QED BY <1>1, <1>4, <1>5, <1>6, OpenStepsProceed DEF Proceeds, IInv, OpenGoesOn, Ready, Opening, Phases

\* Documents that are closed after an ensure_open has failed.
LEMMA CloseGoesOnFits ==
  ASSUME IInv, IInv', NEW c \in Callers, CallFits(c), Kept, crossed \subseteq crossed', CloseGoesOn(c)
  PROVE  CallFits(c)'
<1>1. UNCHANGED <<disk, guards, gate, tool, steps, file, base, text>> /\ opening'[c] = opening[c]
  BY DEF CloseGoesOn, CloseNext, pathVars
<1>2. \A f \in Files : disk'[f].stamp >= disk[f].stamp
  BY <1>1, DocTypes DEF IInv
<1> QED BY <1>1, <1>2, OthersKeepFit

\* A call begins with the first step of its plan.
LEMMA BeginFits ==
  ASSUME IInv, IInv', NEW c \in Callers, CallFits(c), Begin(c)
  PROVE  CallFits(c)'
<1>1. PICK t \in Tools(c), f \in Files :
        /\ tool' = [tool EXCEPT ![c] = t] /\ file' = [file EXCEPT ![c] = f] /\ Then(c, Plan[t])
  BY DEF Begin
<1>2. Idle(c) /\ UNCHANGED <<docVars, gate, base, text, cache>>
  BY DEF Begin
<1>3. t \in DOMAIN Plan /\ t # None /\ f # None
  BY WritePathAssumption, DocSyncAssumption DEF Tools
<1>4. PICK r : r = Plan[t]
  OBVIOUS
<1>5. tool'[c] = t /\ file'[c] = f /\ steps'[c] = r
  BY <1>1, <1>4, ThenIs DEF IInv, Typed
<1>6. gate' # c /\ text'[c] = 0 /\ ~Opening(c)' /\ ~Idle(c)'
  <2>1. CallOK(c) /\ OrderOK(c)
    BY DEF IInv, CallFits
  <2>2. gate # c /\ ~Opening(c)
    BY <1>2, <2>1 DEF CallOK, Ready, Opening, Phases
  <2>3. text[c] = 0
    BY <1>2, <2>1 DEF OrderOK
  <2> QED BY <1>2, <1>3, <1>5, <2>2, <2>3 DEF Opening, Idle, docVars, syncVars
<1>7. StepsInOrder(t, r) /\ AskGated(t, r) /\ Head(r) \notin {"ask", "load", "write", "readback", "keep"}
  BY <1>3, <1>4, PlansFit
<1>8. OrderOK(c)'
  BY <1>3, <1>5, <1>6, <1>7 DEF OrderOK
<1>9. TextOK(c)'
  <2>1. \A g \in Files : disk'[g].stamp \in Nat
    BY DocTypes DEF IInv, DocInv, RestOK
  <2> QED BY <1>6, <2>1 DEF TextOK
<1>10. Fresh(t, r)
  <2>1. Head(r) \notin Later(t) \cup {"ask"}
    BY <1>7 DEF Later
  <2> QED BY <2>1 DEF Fresh
<1>11. StatOK(c)' /\ AskOK(c)' /\ AnswerOK(c)'
  BY <1>5, <1>6, <1>10, FreshFits
<1>12. WroteOK(c)'
  BY <1>6 DEF WroteOK
<1> QED BY <1>8, <1>9, <1>11, <1>12 DEF CallFits

\* A call ends.
LEMMA EndFits ==
  ASSUME IInv, IInv', NEW c \in Callers, CallFits(c), Kept, crossed \subseteq crossed', End(c)
  PROVE  CallFits(c)'
<1>1. /\ ~Idle(c) /\ Ready(c) /\ steps[c] = <<>> /\ UNCHANGED <<disk, opening>>
      /\ Typed /\ OrderOK(c) /\ TextOK(c) /\ WroteOK(c)
  BY DEF End, IInv, CallFits
<1>2. ~Opening(c) /\ ~Opening(c)'
  BY <1>1 DEF Ready, Opening, Phases
<1>3. \A f \in Files : disk'[f].stamp \in Nat
  BY DocTypes DEF IInv, DocInv, RestOK
<1>4. CASE UNCHANGED <<gate, tool, steps, file, base, text>>
  <2>1. OrderOK(c)'
    BY <1>1, <1>2, <1>4 DEF OrderOK, Left, Idle
  <2>2. TextOK(c)'
    BY <1>1, <1>2, <1>4 DEF TextOK, Faces
  <2>3. file[c] \in Files /\ guards'[c][file[c]] > 0 => guards[c][file[c]] > 0
    <3>1. CASE UNCHANGED guards
      BY <3>1
    <3>2. CASE \E f \in Files : guards[c][f] > 0 /\ DropGuards(c, f, guards[c][f])
      <4>1. PICK f \in Files : guards[c][f] > 0 /\ DropGuards(c, f, guards[c][f])
        BY <3>2
      <4>2. DocInv /\ guards[c][f] \in Nat /\ guards[c][f] <= guards[c][f]
        BY DEF IInv, DocInv, RestOK
      <4>3. \A g \in Files \ {f} : guards'[c][g] = guards[c][g]
        BY <4>1, <4>2, DropGuardsIs
      <4> QED BY <4>1, <4>3
    <3> QED BY <3>1, <3>2 DEF End
  <2>4. WroteOK(c)'
    BY <1>1, <1>4, <2>3, WroteStays DEF Left
  <2>5. Fresh(tool'[c], steps'[c])
    BY <1>1, <1>4 DEF Fresh
  <2> QED BY <1>2, <2>1, <2>2, <2>4, <2>5, FreshFits DEF CallFits
<1>5. CASE ~UNCHANGED <<gate, tool, steps, file, base, text>>
  <2>1. /\ gate' = GateAfter(c)
        /\ IF Forgets(c) THEN Then(c, <<"forget">>) /\ UNCHANGED tool
           ELSE tool' = [tool EXCEPT ![c] = None] /\ UNCHANGED steps
        /\ file' = [file EXCEPT ![c] = None]
        /\ text' = [text EXCEPT ![c] = 0]
    BY <1>5 DEF End
  <2>2. gate' # c /\ file'[c] = None /\ text'[c] = 0
    BY <1>1, <2>1, DocSyncAssumption DEF GateAfter, Typed
  <2>3. PICK r \in {<<"forget">>, <<>>} : steps'[c] = r
    BY <1>1, <2>1, ThenIs
  <2>4. StepsInOrder(tool'[c], r) /\ AskGated(tool'[c], r)
    BY OthersFit, NothingLeftFits
  <2>5. Fresh(tool'[c], r)
    <3>1. Head(<<"forget">>) = "forget"
      OBVIOUS
    <3> QED BY <3>1 DEF Fresh, Later
  <2>6. OrderOK(c)'
    BY <1>2, <2>2, <2>3, <2>4 DEF OrderOK
  <2>7. TextOK(c)' /\ WroteOK(c)'
    BY <1>3, <2>2 DEF TextOK, WroteOK
  <2> QED BY <1>2, <2>3, <2>5, <2>6, <2>7, FreshFits DEF CallFits
<1> QED BY <1>4, <1>5

\* What a call's own step keeps of what is true of it.
LEMMA OwnStepFits ==
  ASSUME IInv, IInv', TextsFit, NEW c \in Callers, CallFits(c), Kept, crossed \subseteq crossed',
         \A f \in Files : disk'[f].stamp >= disk[f].stamp, CallNext(c)
  PROVE  CallFits(c)'
<1>1. CASE Begin(c) \/ End(c)
  BY <1>1, BeginFits, EndFits
<1>2. CASE TakeGate(c) \/ GateTimesOut(c) \/ Ungate(c)
  BY <1>2, GateStepsFit
<1>3. CASE OpenStarts(c) \/ OpenGoesOn(c) \/ CloseGoesOn(c)
  BY <1>3, OpenStartsFits, OpenGoesOnFits, CloseGoesOnFits
<1>4. CASE Ask(c) \/ AskFails(c) \/ Look(c) \/ Sync(c)
  <2>1. CASE AskFails(c)
    <3>1. Quit(c) /\ UNCHANGED text
      BY <2>1 DEF AskFails
    <3> QED BY <2>1, <3>1, QuittingFits
  <2> QED BY <1>4, <2>1, AskFits, LookFits, SyncFits
<1>5. CASE Forget(c) \/ Tidy(c) \/ DropOne(c) \/ Reclaim(c) \/ Shutdown(c) \/ Kill(c) \/ Keep(c) \/ Restore(c)
  BY <1>5, GoingOnFits
<1>6. CASE Pick(c) \/ NoMore(c)
  BY <1>6, PicksFit
<1>7. CASE Load(c) \/ Write(c) \/ Create(c) \/ WriteFails(c) \/ Readback(c)
  BY <1>7, LoadFits, WriteFits, WriteFailsFits, ReadbackFits
<1> QED BY <1>1, <1>2, <1>3, <1>4, <1>5, <1>6, <1>7 DEF CallNext

\* Answers are kept when they were computed from the text of their key or a later one.
LEMMA KeptFits ==
  ASSUME IInv, IInv', KeptOK, crossed \subseteq crossed', \A f \in Files : disk'[f].stamp >= disk[f].stamp,
         \/ cache' \subseteq cache
         \/ \E c \in Callers : CallFits(c) /\ Keep(c)
  PROVE  KeptOK'
<1>1. /\ \A f \in Files : disk[f].stamp \in Nat /\ disk'[f].stamp \in Nat
      /\ cache \subseteq [file : Files, key : Nat, text : Nat]
  BY DocTypes DEF IInv, DocInv, RestOK, CacheOK
<1>2. ASSUME NEW e \in cache
      PROVE  e.text <= disk'[e.file].stamp /\ (e.file \notin crossed' => e.key <= e.text)
  <2>1. e.file \in Files /\ e.text \in Nat /\ e.text <= disk[e.file].stamp /\ (e.file \notin crossed => e.key <= e.text)
    BY <1>1 DEF KeptOK
  <2>2. PICK f \in Files : f = e.file
    BY <2>1
  <2>3. e.text <= disk'[f].stamp
    BY <1>1, <2>1, <2>2
  <2> QED BY <2>1, <2>2, <2>3
<1>3. CASE cache' \subseteq cache
  BY <1>2, <1>3 DEF KeptOK
<1>4. CASE \E c \in Callers : CallFits(c) /\ Keep(c)
  <2>1. PICK c \in Callers : CallFits(c) /\ Keep(c)
    BY <1>4
  <2>2. /\ At(c, "keep") /\ file[c] \in Files /\ Faces(c, "keep")
        /\ UNCHANGED <<disk, crossed>>
    BY <2>1, AtStep DEF Keep, Faces, docVars, syncVars
  <2>3. PICK e : e = [file |-> file[c], key |-> text[c], text |-> base[c][file[c]]]
    OBVIOUS
  <2>4. cache' \subseteq cache \cup {e}
    BY <2>1, <2>3 DEF Keep, KeptUnder
  <2>5. e.text <= disk'[e.file].stamp /\ (e.file \notin crossed' => e.key <= e.text)
    BY <2>1, <2>2, <2>3 DEF CallFits, AnswerOK
  <2> QED BY <1>2, <2>4, <2>5 DEF KeptOK
<1> QED BY <1>3, <1>4

\* Only Keep adds to the answers that are kept.
LEMMA CachedBy ==
  ASSUME NEW c \in Callers, CallNext(c), ~Keep(c)
  PROVE  cache' \subseteq cache
BY DEF CallNext, Begin, End, TakeGate, GateTimesOut, Ungate, OpenStarts, OpenGoesOn, CloseGoesOn, Ask, AskFails,
       DropOne, Look, Tidy, Forget, Load, Write, WriteFails, Readback, Create, Pick, NoMore, Restore, Sync,
       Reclaim, Shutdown, Kill, pathVars

\* The step of a call.
LEMMA CallStepFits ==
  ASSUME IInv, FitInv, NEW c \in Callers, CallNext(c), Undisturbed
  PROVE  FitInv'
<1>1. IInv' /\ TextsFit /\ KeptOK /\ \A d \in Callers : CallFits(d)
  BY CallKeeps DEF FitInv
<1>2. /\ \A f \in Files : disk'[f].stamp >= disk[f].stamp
      /\ disk' = disk \/ (gate = c /\ \A g \in Files \ {file[c]} : disk'[g] = disk[g])
      /\ crossed \subseteq crossed'
  BY CallsWriteTheirFile
<1>3. TextsFit' /\ Kept
  BY <1>1, CallsFitDocs
<1>4. KeptOK'
  BY <1>1, <1>2, CachedBy, KeptFits
<1>5. ASSUME NEW d \in Callers PROVE CallFits(d)'
  <2>1. CASE d = c
    BY <1>1, <1>2, <1>3, <2>1, OwnStepFits
  <2>2. CASE d # c
    <3>1. /\ tool'[d] = tool[d] /\ steps'[d] = steps[d] /\ file'[d] = file[d] /\ base'[d] = base[d]
          /\ text'[d] = text[d] /\ opening'[d] = opening[d] /\ guards'[d] = guards[d]
          /\ gate' = d <=> gate = d
      BY <2>2, OthersUntouched
    <3>2. gate = d /\ file[d] \in Files \ crossed' => disk'[file[d]] = disk[file[d]]
      BY <1>2, <2>2
    <3> QED BY <1>1, <1>2, <1>3, <3>1, <3>2, OthersKeepFit
  <2> QED BY <2>1, <2>2
<1> QED BY <1>3, <1>4, <1>5 DEF FitInv

\* The step of an editor.
LEMMA EditFits ==
  ASSUME IInv, FitInv, Edit
  PROVE  FitInv'
<1>1. IInv' /\ TextsFit /\ KeptOK /\ DocInv /\ DocInv' /\ \A d \in Callers : CallFits(d)
  BY EditKeeps DEF FitInv, IInv
<1>2. PICK f \in Files :
        /\ WriteFile(f)
        /\ crossed' = IF gate # None /\ file[gate] = f THEN crossed \cup {f} ELSE crossed
  BY DEF Edit
<1>3. UNCHANGED <<buffers, view, opening, guards, closing, gate, tool, steps, file, base, text, cache>>
  BY DEF Edit, pathVars
<1>4. \A g \in Files : disk'[g].stamp >= disk[g].stamp
  BY <1>1, <1>2, WriteFileIs
<1>5. \A g \in Files \ {f} : disk'[g] = disk[g]
  BY <1>1, <1>2, DocTypes DEF WriteFile, RestOK
<1>6. crossed \subseteq crossed'
  BY <1>2
<1>7. First \in Callers
  BY WritePathAssumption
<1>8. TextsFit' /\ Kept
  BY <1>1, <1>3, <1>4, <1>6, <1>7, FilesFit
<1>9. KeptOK'
  BY <1>1, <1>3, <1>4, <1>6, KeptFits
<1>10. ASSUME NEW d \in Callers PROVE CallFits(d)'
  <2>1. gate = d /\ file[d] \in Files \ crossed' => disk'[file[d]] = disk[file[d]]
    BY <1>2, <1>5, DocSyncAssumption
  <2> QED BY <1>1, <1>3, <1>4, <1>6, <1>8, <2>1, OthersKeepFit
<1> QED BY <1>8, <1>9, <1>10 DEF FitInv

\* Every step keeps the invariant, if no entry is taken out between two looks.
LEMMA NextFits ==
  ASSUME IInv, FitInv, [Next]_vars, [Undisturbed]_vars
  PROVE  FitInv'
<1>1. CASE UNCHANGED vars
  <2>1. /\ UNCHANGED <<disk, buffers, view, opening, guards, closing, crossed, gate, tool, steps, file, base, text, cache>>
        /\ IInv' /\ TextsFit /\ KeptOK /\ DocInv /\ DocInv' /\ \A d \in Callers : CallFits(d)
    BY <1>1, NextKeeps DEF vars, docVars, syncVars, pathVars, FitInv, IInv
  <2>2. \A f \in Files : disk'[f].stamp >= disk[f].stamp
    BY <2>1, DocTypes
  <2>3. First \in Callers
    BY WritePathAssumption
  <2>4. TextsFit' /\ Kept
    BY <2>1, <2>2, <2>3, FilesFit
  <2>5. KeptOK'
    BY <2>1, <2>2, KeptFits
  <2>6. \A d \in Callers : CallFits(d)'
    BY <2>1, <2>2, <2>4, OthersKeepFit
  <2> QED BY <2>4, <2>5, <2>6 DEF FitInv
<1>2. CASE Next /\ Undisturbed
  BY <1>2, CallStepFits, EditFits DEF Next
<1> QED BY <1>1, <1>2

\* It holds at the start.
LEMMA FitInitially ==
  ASSUME Init, IInv
  PROVE  FitInv
<1>1. /\ DocInit /\ \A c \in Callers : /\ tool[c] = None /\ steps[c] = <<>> /\ file[c] = None
                                       /\ text[c] = 0 /\ opening[c] = Ended("ok")
      /\ gate = None /\ cache = {}
  BY DEF Init, DocInit
<1>2. \A c \in Callers : opening[c].phase = "ok" /\ ~Opening(c) /\ gate # c
  BY <1>1, EndedIs, DocSyncAssumption DEF Opening, Phases
<1>3. TextsFit
  <2>1. \A f \in Files : view[f].text = 0 /\ disk[f].stamp = 1
    BY <1>1 DEF DocInit, Unseen
  <2> QED BY <1>2, <2>1 DEF TextsFit, TextsOK, LookOK, ToldOK
<1>4. KeptOK
  BY <1>1 DEF KeptOK
<1>5. ASSUME NEW c \in Callers PROVE CallFits(c)
  <2>1. OrderOK(c)
    BY <1>1, <1>2, NothingLeftFits DEF OrderOK
  <2>2. TextOK(c) /\ StatOK(c) /\ AskOK(c) /\ AnswerOK(c) /\ WroteOK(c)
    BY <1>1, <1>2, DocSyncAssumption DEF TextOK, StatOK, AskOK, AnswerOK, WroteOK, Faces
  <2> QED BY <2>1, <2>2 DEF CallFits
<1> QED BY <1>3, <1>4, <1>5 DEF FitInv

\* It always holds, on the same condition.
LEMMA FitInvariance == Spec /\ [][Undisturbed]_vars => [](IInv /\ FitInv)
<1>1. Init => IInv /\ FitInv
  BY Initially, FitInitially
<1>2. IInv /\ FitInv /\ [Next]_vars /\ [Undisturbed]_vars => (IInv /\ FitInv)'
  BY NextKeeps, NextFits
<1> QED BY <1>1, <1>2, PTL DEF Spec

\* A tool that edits inside a symbol applies the answer of the language server to the text that the
\* answer was computed from, and this is the text of the file, unless calls or an editor have
\* crossed on the file (write_gate.rs:3-5, lib.rs:4576-4580).  For any number of callers, as long
\* as no entry is taken out of the table while an ensure_open is between its two looks at it.
THEOREM EditsAlwaysFit == Spec /\ [][Undisturbed]_vars => []EditsFit
<1>1. IInv /\ FitInv => EditsFit
  <2> SUFFICES ASSUME IInv, FitInv, NEW c \in Callers,
                      At(c, "write"), tool[c] \in {"edit", "replace", "delete"}, file[c] \notin crossed
               PROVE  base[c][file[c]] = text[c] /\ text[c] = disk[file[c]].stamp
    BY DEF EditsFit
  <2>1. Faces(c, "write") /\ AnswerOK(c)
    BY AtStep DEF Faces, FitInv, CallFits
  <2> QED BY <2>1 DEF AnswerOK, Editors
<1> QED BY <1>1, FitInvariance, PTL

\* A writing tool does not give the gate back before the language server has what it has written,
\* unless its ensure_open has failed or calls have crossed on the file (ARCHITECTURE.md:499, 504).
\* Under the same condition.
THEOREM WritesAlwaysArrive == Spec /\ [][Undisturbed]_vars => []WritesArrive
<1>1. IInv /\ FitInv => WritesArrive
  <2> SUFFICES ASSUME IInv, FitInv, NEW c \in Callers, gate = c, steps[c] = <<>>, text[c] # 0,
                      guards[c][file[c]] > 0, opening[c].phase = "ok", file[c] \notin crossed
               PROVE  view[file[c]].open /\ view[file[c]].text >= text[c]
    BY DEF WritesArrive
  <2>1. OrderOK(c) /\ WroteOK(c) /\ ~Left(c, {"open"})
    BY DEF FitInv, CallFits, Left
  <2>2. file[c] \in Files
    BY <2>1 DEF OrderOK, IInv, Typed
  <2> QED BY <2>1, <2>2 DEF WroteOK, Arrived
<1> QED BY <1>1, FitInvariance, PTL

\* While a file is the one that an answer was kept for, the answer is what the language server says
\* of it (Supervisor::symbol_cache, lib.rs:325-331, 2904-2909).  Under the same condition.
THEOREM KeptAnswersAlwaysFit == Spec /\ [][Undisturbed]_vars => []KeptAnswersFit
<1>1. IInv /\ FitInv => KeptAnswersFit
  <2> SUFFICES ASSUME IInv, FitInv, NEW e \in cache,
                      disk[e.file] = [there |-> TRUE, stamp |-> e.key], e.file \notin crossed
               PROVE  e.text = e.key
    BY DEF KeptAnswersFit
  <2>1. e.text \in Nat /\ e.key \in Nat
    BY DEF IInv, CacheOK
  <2>2. e.text <= e.key /\ e.key <= e.text
    BY DEF FitInv, KeptOK
  <2> QED BY <2>1, <2>2
<1> QED BY <1>1, FitInvariance, PTL

-----------------------------------------------------------------------------
(* Places.                                                                 *)

Encodings == {Utf8, Utf16}

LEMMA CharsAre == Chars = {"a", "s", "n", "r"}
  BY DEF Chars, Utf8

LEMMA EncodingsCount == \A enc \in Encodings : Counts(Chars, enc) /\ Counts(Chars, Utf8)
<1>1. Counts(Chars, Utf8)
  BY CharsAre DEF Counts, Utf8
<1>2. Counts(Chars, Utf16)
  BY CharsAre DEF Counts, Utf16
<1> QED BY <1>1, <1>2 DEF Encodings

\* The units before a character lead to its bytes.
LEMMA UnitToByteIs ==
  ASSUME NEW line \in Seq(Chars), NEW enc \in Encodings, NEW m \in 0..Len(line)
  PROVE  UnitToByte(line, Units(Prefix(line, m), enc), enc) =
            IF line = <<>> THEN OutOfRange ELSE Bytes(Prefix(line, m))
<1>1. PICK n \in Nat : n = Len(line)
  OBVIOUS
<1>2. PICK u : u = [i \in 0..n |-> Units(Prefix(line, i), enc)]
  OBVIOUS
<1>3. \A i \in 0..n : u[i] = Units(Prefix(line, i), enc)
  BY <1>2
<1>4. \A i \in 0..n : u[i] \in Nat
  <2>1. \A i \in 0..n : Length(Prefix(line, i), enc) \in Nat
    BY <1>1, EncodingsCount, PrefixLengths
  <2> QED BY <1>3, <2>1 DEF Units
<1>5. \A i, j \in 0..n : i < j => u[i] < u[j]
  <2>1. \A i, j \in 0..n : i < j => Length(Prefix(line, i), enc) < Length(Prefix(line, j), enc)
    BY <1>1, EncodingsCount, LengthsRise
  <2> QED BY <1>3, <2>1 DEF Units
<1> DEFINE reach == {i \in 1..n : u[m] <= u[i]}
           least == CHOOSE i \in reach : \A j \in reach : i <= j
<1>6. UnitToByte(line, u[m], enc) =
        IF reach = {} THEN OutOfRange
        ELSE IF u[m] < u[least] THEN Bytes(Prefix(line, least - 1))
        ELSE Bytes(Prefix(line, least))
  <2>1. \A i \in 1..Len(line) : u[i] = Units(Prefix(line, i), enc)
    BY <1>1, <1>3
  <2>2. reach = {i \in 1..Len(line) : u[m] <= Units(Prefix(line, i), enc)}
    BY <1>1, <2>1
  <2>3. PICK R : R = reach
    OBVIOUS
  <2>4. PICK i : i = CHOOSE x \in R : \A y \in R : x <= y
    OBVIOUS
  <2>5. UnitToByte(line, u[m], enc) =
          IF R = {} THEN OutOfRange
          ELSE IF u[m] < Units(Prefix(line, i), enc) THEN Bytes(Prefix(line, i - 1))
          ELSE Bytes(Prefix(line, i))
    <3> HIDE DEF reach
    <3> QED BY <2>2, <2>3, <2>4 DEF UnitToByte
  <2>6. R # {} => i \in R
    <3>1. R \in SUBSET Nat
      BY <2>3
    <3>2. R # {} => \E x \in R : \A y \in R : x <= y
      BY <3>1, LeastIs
    <3> QED BY <2>4, <3>2
  <2>7. R # {} => Units(Prefix(line, i), enc) = u[i]
    BY <1>1, <2>1, <2>3, <2>6
  <2>8. i = least
    BY <2>3, <2>4
  <2> HIDE DEF reach, least
  <2> QED BY <2>3, <2>5, <2>7, <2>8
<1>7. CASE n = 0
  <2>0. reach = {} /\ m = 0 /\ Len(line) = 0
    BY <1>1, <1>7
  <2>1. line = <<>>
    BY <2>0
  <2> HIDE DEF reach, least
  <2> QED BY <1>1, <1>3, <1>6, <2>0, <2>1
<1>8. CASE n # 0 /\ m # 0
  <2>1. m \in reach /\ \A j \in reach : m <= j
    <3>1. m \in 1..n /\ m \in 0..n
      BY <1>1, <1>8
    <3>2. u[m] <= u[m]
      BY <1>4, <3>1
    <3>3. ASSUME NEW j \in reach PROVE m <= j
      <4>1. j \in 0..n /\ u[m] <= u[j]
        OBVIOUS
      <4>2. j < m => u[j] < u[m]
        BY <1>5, <3>1, <4>1
      <4>3. u[j] \in Nat /\ u[m] \in Nat
        BY <1>4, <3>1, <4>1
      <4> QED BY <4>1, <4>2, <4>3, <3>1
    <3> QED BY <3>1, <3>2, <3>3
  <2>2. reach \in SUBSET Nat
    OBVIOUS
  <2>3. least = m
    <3> HIDE DEF reach
    <3> QED BY <2>1, <2>2, LeastIsIt
  <2>4. ~(u[m] < u[m])
    BY <1>1, <1>4
  <2>5. line # <<>>
    BY <1>1, <1>8
  <2>6. reach # {}
    BY <2>1
  <2> HIDE DEF reach, least
  <2> QED BY <1>1, <1>3, <1>6, <2>3, <2>4, <2>5, <2>6
<1>9. CASE n # 0 /\ m = 0
  <2>1. 1 \in 1..n /\ 0 \in 0..n /\ 1 \in 0..n /\ u[0] < u[1]
    BY <1>5, <1>9
  <2>2. 1 \in reach /\ \A j \in reach : 1 <= j
    BY <1>4, <1>9, <2>1
  <2>3. reach \in SUBSET Nat
    OBVIOUS
  <2>4. least = 1
    <3> HIDE DEF reach
    <3> QED BY <2>2, <2>3, LeastIsIt
  <2>5. line # <<>>
    BY <1>1, <1>9
  <2>6. reach # {}
    BY <2>2
  <2>7. least - 1 = m
    <3> HIDE DEF least
    <3> QED BY <1>9, <2>4
  <2> HIDE DEF reach, least
  <2> QED BY <1>1, <1>3, <1>6, <1>9, <2>1, <2>4, <2>5, <2>6, <2>7
<1> QED BY <1>7, <1>8, <1>9

\* A place, its line and what stands there.
LEMMA PlaceIs ==
  ASSUME NEW doc \in Seq(Chars), NEW k \in 0..Len(doc), NEW enc \in Encodings
  PROVE  \E b \in 0..k : \E e \in k + 1..Len(doc) + 1 :
            /\ Line(doc, b, e) /\ b = LineBegin(doc, LineNo(doc, k)) /\ e = LineEnds(doc)[LineNo(doc, k) + 1]
            /\ LineNo(doc, k) \in 0..Len(LineEnds(doc)) - 1
            /\ LineAt(doc, LineNo(doc, k)) = SubSeq(doc, b + 1, e - 1)
            /\ SubSeq(doc, b + 1, e - 1) \in Seq(Chars) /\ Len(SubSeq(doc, b + 1, e - 1)) = e - 1 - b
            /\ PositionOf(doc, k, enc) =
                [line |-> LineNo(doc, k),
                 character |-> Units(Prefix(SubSeq(doc, b + 1, e - 1), k - b), enc)]
            /\ Prefix(SubSeq(doc, b + 1, e - 1), k - b) = SubSeq(doc, b + 1, k)
            /\ OnEmptyLine(doc, k) <=> e = b + 1
<1>1. PICK l, b, e : l = LineNo(doc, k) /\ b = LineBegin(doc, l) /\ e = LineEnds(doc)[l + 1]
  OBVIOUS
<1>2. l \in 0..Len(LineEnds(doc)) - 1 /\ b \in 0..k /\ e \in k + 1..Len(doc) + 1
  BY <1>1, LineOf
<1>3. Line(doc, b, e)
  BY <1>1, <1>2, LineIs
<1>4. LineAt(doc, l) = SubSeq(doc, b + 1, e - 1)
  BY <1>1 DEF LineAt
<1>5. b \in 0..Len(doc) /\ e - 1 \in b..Len(doc) /\ 0 \in 0..(e - 1) - b /\ k - b \in 0..(e - 1) - b /\ b \in Nat /\ k \in Nat
  BY <1>2
<1>6. SubSeq(doc, b + 1, e - 1) \in Seq(Chars) /\ Len(SubSeq(doc, b + 1, e - 1)) = (e - 1) - b
  BY <1>5, StretchIs
<1>7. Prefix(SubSeq(doc, b + 1, e - 1), k - b) = SubSeq(doc, b + 1, k)
  <2>1. SubSeq(SubSeq(doc, b + 1, e - 1), 0 + 1, k - b) = SubSeq(doc, (b + 0) + 1, b + (k - b))
    BY <1>5, StretchOfStretch
  <2>2. 0 + 1 = 1 /\ (b + 0) + 1 = b + 1 /\ b + (k - b) = k
    BY <1>5
  <2> QED BY <2>1, <2>2 DEF Prefix
<1>8. PositionOf(doc, k, enc) = [line |-> l, character |-> Length(SubSeq(doc, b + 1, k), enc)]
  BY <1>1 DEF PositionOf, LineNo
<1>9. OnEmptyLine(doc, k) <=> e = b + 1
  <2>1. ASSUME OnEmptyLine(doc, k) PROVE e = b + 1
    <3>1. b = k
      <4> SUFFICES ASSUME b # k PROVE FALSE
        OBVIOUS
      <4>1. k \in b + 1..e - 1 /\ k # 0
        BY <1>2
      <4> QED BY <1>3, <2>1, <4>1 DEF Line, OnEmptyLine
    <3>2. e = k + 1
      <4> SUFFICES ASSUME e # k + 1 PROVE FALSE
        OBVIOUS
      <4>1. k + 1 \in b + 1..e - 1 /\ k # Len(doc)
        BY <1>2
      <4> QED BY <1>3, <2>1, <4>1 DEF Line, OnEmptyLine
    <3> QED BY <3>1, <3>2
  <2>2. ASSUME e = b + 1 PROVE OnEmptyLine(doc, k)
    <3>1. b = k /\ e = k + 1
      BY <1>2, <2>2
    <3>2. k + 1 = Len(doc) + 1 => k = Len(doc)
      OBVIOUS
    <3> QED BY <1>3, <3>1, <3>2 DEF Line, OnEmptyLine
  <2> QED BY <2>1, <2>2
<1> QED BY <1>1, <1>2, <1>3, <1>4, <1>6, <1>7, <1>8, <1>9 DEF Units

\* The byte of a place, but on an empty line.
LEMMA PositionToByteIs ==
  ASSUME NEW doc \in Seq(Chars), NEW k \in 0..Len(doc), NEW enc \in Encodings
  PROVE  PositionToByte(doc, PositionOf(doc, k, enc), enc) =
            IF OnEmptyLine(doc, k) THEN OutOfRange ELSE Bytes(Prefix(doc, k))
<1>1. PICK l, p : l = LineNo(doc, k) /\ p = PositionOf(doc, k, enc)
  OBVIOUS
<1>2. PICK b \in 0..k, e \in k + 1..Len(doc) + 1 :
        /\ b = LineBegin(doc, l) /\ l \in 0..Len(LineEnds(doc)) - 1
        /\ LineAt(doc, l) = SubSeq(doc, b + 1, e - 1)
        /\ SubSeq(doc, b + 1, e - 1) \in Seq(Chars) /\ Len(SubSeq(doc, b + 1, e - 1)) = e - 1 - b
        /\ p = [line |-> l, character |-> Units(Prefix(SubSeq(doc, b + 1, e - 1), k - b), enc)]
        /\ Prefix(SubSeq(doc, b + 1, e - 1), k - b) = SubSeq(doc, b + 1, k)
        /\ OnEmptyLine(doc, k) <=> e = b + 1
  BY <1>1, PlaceIs, ZenonT(40)
<1>3. PICK line : line = SubSeq(doc, b + 1, e - 1)
  OBVIOUS
<1>4. PICK x : x = UnitToByte(line, p.character, enc)
  OBVIOUS
<1>5. line \in Seq(Chars) /\ Len(line) = e - 1 - b /\ k - b \in 0..Len(line)
  <2>1. line \in Seq(Chars) /\ Len(line) = e - 1 - b
    BY <1>2, <1>3
  <2>2. k - b \in 0..e - 1 - b
    OBVIOUS
  <2> QED BY <2>1, <2>2
<1>6. x = IF line = <<>> THEN OutOfRange ELSE Bytes(SubSeq(doc, b + 1, k))
  <2>1. UnitToByte(line, Units(Prefix(line, k - b), enc), enc) =
            IF line = <<>> THEN OutOfRange ELSE Bytes(Prefix(line, k - b))
    BY <1>5, UnitToByteIs
  <2>2. Prefix(line, k - b) = SubSeq(doc, b + 1, k)
    <3>1. Prefix(SubSeq(doc, b + 1, e - 1), k - b) = SubSeq(doc, b + 1, k)
      BY <1>2
    <3> QED BY <1>3, <3>1, Zenon
  <2>3. PICK c : c = Units(Prefix(line, k - b), enc)
    OBVIOUS
  <2>4. p = [line |-> l, character |-> c]
    BY <1>2, <1>3, <2>3
  <2>5. p.character = c
    BY <2>4
  <2> QED BY <1>4, <2>1, <2>2, <2>3, <2>5
<1>7. line = <<>> <=> OnEmptyLine(doc, k)
  <2>1. e \in Nat /\ b \in Nat
    BY <1>2
  <2>2. line = <<>> <=> Len(line) = 0
    BY <1>5
  <2>3. OnEmptyLine(doc, k) <=> e = b + 1
    BY <1>2
  <2>4. Len(line) = e - 1 - b
    BY <1>5
  <2> QED BY <2>1, <2>2, <2>3, <2>4
<1>8. /\ Bytes(SubSeq(doc, b + 1, k)) \in Nat
      /\ Bytes(Prefix(doc, k)) = Bytes(Prefix(doc, b)) + Bytes(SubSeq(doc, b + 1, k))
  <2>1. b \in 0..Len(doc) /\ k \in b..Len(doc)
    BY <1>2
  <2> QED BY <2>1, EncodingsCount, StretchLength DEF Bytes
<1>9. PositionToByte(doc, p, enc) = IF x = OutOfRange THEN OutOfRange ELSE Bytes(Prefix(doc, b)) + x
  <2>1. p.line = l /\ ~(l >= Len(LineEnds(doc)))
    <3>1. LineEnds(doc) \in Seq(Nat)
      BY <1>2, LineIs
    <3>2. Len(LineEnds(doc)) \in Nat
      BY <3>1
    <3> QED BY <1>2, <3>2
  <2>2. UnitToByte(LineAt(doc, p.line), p.character, enc) = x
    BY <1>2, <1>3, <1>4, <2>1
  <2>3. LineBegin(doc, p.line) = b
    BY <1>2, <2>1
  <2> QED BY <2>1, <2>2, <2>3 DEF PositionToByte
<1>10. Bytes(SubSeq(doc, b + 1, k)) # OutOfRange
  BY <1>8, TextEditsAssumption
<1> QED BY <1>1, <1>6, <1>7, <1>8, <1>9, <1>10

LEMMA CharsBeforeIs ==
  ASSUME NEW doc \in Seq(Chars), NEW k \in 0..Len(doc)
  PROVE  CharsBefore(doc, Bytes(Prefix(doc, k))) = k
<1>1. \A i, j \in 0..Len(doc) : i < j => Bytes(Prefix(doc, i)) < Bytes(Prefix(doc, j))
  BY EncodingsCount, LengthsRise DEF Bytes, Encodings
<1>2. \A i \in 0..Len(doc) : Bytes(Prefix(doc, i)) \in Nat
  BY EncodingsCount, PrefixLengths DEF Bytes, Encodings
<1>3. ASSUME NEW i \in 0..Len(doc), Bytes(Prefix(doc, i)) = Bytes(Prefix(doc, k)) PROVE i = k
  <2> SUFFICES ASSUME i # k PROVE FALSE
    OBVIOUS
  <2>1. i < k \/ k < i
    OBVIOUS
  <2> QED BY <1>1, <1>2, <1>3, <2>1
<1> QED BY <1>3 DEF CharsBefore

LEMMA BytesRise ==
  ASSUME NEW doc \in Seq(Chars)
  PROVE  /\ \A i \in 0..Len(doc) : Bytes(Prefix(doc, i)) \in Nat
         /\ \A i, j \in 0..Len(doc) : Bytes(Prefix(doc, i)) <= Bytes(Prefix(doc, j)) <=> i <= j
         /\ Bytes(Prefix(doc, Len(doc))) = Bytes(doc)
<1>1. \A i, j \in 0..Len(doc) : i < j => Bytes(Prefix(doc, i)) < Bytes(Prefix(doc, j))
  BY EncodingsCount, LengthsRise DEF Bytes, Encodings
<1>2. \A i \in 0..Len(doc) : Bytes(Prefix(doc, i)) \in Nat
  BY EncodingsCount, PrefixLengths DEF Bytes, Encodings
<1>3. Bytes(Prefix(doc, Len(doc))) = Bytes(doc)
  BY EncodingsCount, PrefixLengths DEF Bytes, Encodings
<1>4. ASSUME NEW i \in 0..Len(doc), NEW j \in 0..Len(doc)
      PROVE  Bytes(Prefix(doc, i)) <= Bytes(Prefix(doc, j)) <=> i <= j
  <2>1. PICK x, y : x = Bytes(Prefix(doc, i)) /\ y = Bytes(Prefix(doc, j))
    OBVIOUS
  <2>2. x \in Nat /\ y \in Nat /\ (i < j => x < y) /\ (j < i => y < x) /\ (i = j => x = y)
    BY <1>1, <1>2, <2>1
  <2>3. x <= y <=> i <= j
    BY <2>2
  <2> QED BY <2>1, <2>3
<1> QED BY <1>2, <1>3, <1>4

LEMMA ByteToUnitIs ==
  ASSUME NEW line \in Seq(Chars), NEW enc \in Encodings, NEW m \in 0..Len(line)
  PROVE  ByteToUnit(line, Bytes(Prefix(line, m)), enc) = Units(Prefix(line, m), enc)
<1>1. \A i \in 0..Len(line) : Bytes(Prefix(line, i)) <= Bytes(Prefix(line, m)) <=> i <= m
  BY BytesRise
<1>2. {i \in 1..Len(line) : Bytes(Prefix(line, i)) <= Bytes(Prefix(line, m))} = 1..m
  <2>1. ASSUME NEW i \in 1..Len(line) PROVE Bytes(Prefix(line, i)) <= Bytes(Prefix(line, m)) <=> i \in 1..m
    <3>1. i \in 0..Len(line)
      OBVIOUS
    <3>2. i <= m <=> i \in 1..m
      OBVIOUS
    <3> QED BY <1>1, <3>1, <3>2
  <2>2. \A i \in 1..m : i \in 1..Len(line)
    OBVIOUS
  <2> QED BY <2>1, <2>2
<1>3. Cardinality(1..m) = m
  BY FS_Interval
<1> QED BY <1>2, <1>3 DEF ByteToUnit

\* The place of a byte.
LEMMA ByteToPositionIs ==
  ASSUME NEW doc \in Seq(Chars), NEW k \in 0..Len(doc), NEW enc \in Encodings
  PROVE  ByteToPosition(doc, Bytes(Prefix(doc, k)), enc) = PositionOf(doc, k, enc)
<1>1. PICK x : x = Bytes(Prefix(doc, k))
  OBVIOUS
<1>2. PICK l : l = LineNo(doc, k)
  OBVIOUS
<1>3. PICK b \in 0..k, e \in k + 1..Len(doc) + 1 :
        /\ b = LineBegin(doc, l) /\ e = LineEnds(doc)[l + 1]
        /\ l \in 0..Len(LineEnds(doc)) - 1
        /\ LineAt(doc, l) = SubSeq(doc, b + 1, e - 1)
        /\ SubSeq(doc, b + 1, e - 1) \in Seq(Chars) /\ Len(SubSeq(doc, b + 1, e - 1)) = e - 1 - b
        /\ PositionOf(doc, k, enc) = [line |-> l, character |-> Units(Prefix(SubSeq(doc, b + 1, e - 1), k - b), enc)]
        /\ Prefix(SubSeq(doc, b + 1, e - 1), k - b) = SubSeq(doc, b + 1, k)
  BY <1>2, PlaceIs
<1> DEFINE begin(i) == Bytes(Prefix(doc, LineBegin(doc, i)))
           lines == {i \in 0..Len(LineEnds(doc)) - 1 :
                        begin(i) <= x /\ x <= begin(i) + Bytes(LineAt(doc, i))}
<1>4. ASSUME NEW i \in 0..Len(LineEnds(doc)) - 1
      PROVE  i \in lines <=> i = l
  <2>1. PICK c, d : c = LineBegin(doc, i) /\ d = LineEnds(doc)[i + 1]
    OBVIOUS
  <2>2. Line(doc, c, d) /\ \A j \in c..d - 1 : LineNo(doc, j) = i
    BY <2>1, LineIs
  <2>3. c \in 0..Len(doc) /\ d - 1 \in c..Len(doc) /\ d - 1 \in 0..Len(doc) /\ d \in Nat /\ c \in Nat
    BY <2>2 DEF Line
  <2>4. Bytes(Prefix(doc, d - 1)) = Bytes(Prefix(doc, c)) + Bytes(SubSeq(doc, c + 1, d - 1))
    BY <2>3, EncodingsCount, StretchLength DEF Bytes, Encodings
  <2>5. begin(i) = Bytes(Prefix(doc, c)) /\ begin(i) + Bytes(LineAt(doc, i)) = Bytes(Prefix(doc, d - 1))
    BY <2>1, <2>4 DEF LineAt
  <2>6. begin(i) <= x <=> c <= k
    BY <1>1, <2>3, <2>5, BytesRise
  <2>7. x <= begin(i) + Bytes(LineAt(doc, i)) <=> k <= d - 1
    BY <1>1, <2>3, <2>5, BytesRise
  <2>8. i \in lines <=> c <= k /\ k <= d - 1
    <3> HIDE DEF begin
    <3> QED BY <2>6, <2>7
  <2>9. ASSUME c <= k, k <= d - 1 PROVE i = l
    <3>1. k \in c..d - 1
      BY <2>3, <2>9
    <3> QED BY <1>2, <2>2, <3>1
  <2>10. ASSUME i = l PROVE c <= k /\ k <= d - 1
    <3>1. c = b /\ d = e
      BY <1>3, <2>1, <2>10
    <3> QED BY <3>1
  <2> QED BY <2>8, <2>9, <2>10
<1>5. lines = {l}
  BY <1>3, <1>4
<1>6. l \in Nat
  <2>1. l \in 0..Len(LineEnds(doc)) - 1
    BY <1>3
  <2> QED BY <2>1
<1>7. (CHOOSE i \in lines : \A j \in lines : i <= j) = l
  <2> HIDE DEF lines
  <2>1. lines \in SUBSET Nat /\ l \in lines /\ \A j \in lines : l <= j
    BY <1>5, <1>6
  <2> QED BY <2>1, LeastIsIt
<1>8. ~(x > Bytes(doc))
  <2>1. Len(doc) \in 0..Len(doc) /\ k <= Len(doc)
    OBVIOUS
  <2>2. x <= Bytes(doc) /\ x \in Nat
    BY <1>1, <2>1, BytesRise
  <2>3. Bytes(doc) \in Nat
    BY <2>1, BytesRise
  <2> QED BY <2>2, <2>3
<1>9. ByteToPosition(doc, x, enc) = [line |-> l, character |-> ByteToUnit(LineAt(doc, l), x - begin(l), enc)]
  <2>1. PICK m : m = CHOOSE i \in lines : \A j \in lines : i <= j
    OBVIOUS
  <2>2. ByteToPosition(doc, x, enc) = [line |-> m, character |-> ByteToUnit(LineAt(doc, m), x - begin(m), enc)]
    BY <1>8, <2>1 DEF ByteToPosition
  <2>3. m = l
    BY <1>7, <2>1
  <2> HIDE DEF lines, begin
  <2> QED BY <2>2, <2>3
<1>10. x - begin(l) = Bytes(SubSeq(doc, b + 1, k))
  <2>1. begin(l) = Bytes(Prefix(doc, b))
    BY <1>3
  <2>2. b \in 0..Len(doc) /\ k \in b..Len(doc)
    OBVIOUS
  <2>3. x = Bytes(Prefix(doc, b)) + Bytes(SubSeq(doc, b + 1, k)) /\ Bytes(SubSeq(doc, b + 1, k)) \in Nat
    BY <1>1, <2>2, EncodingsCount, StretchLength DEF Bytes, Encodings
  <2>4. Bytes(Prefix(doc, b)) \in Nat
    BY <2>2, BytesRise
  <2> HIDE DEF begin
  <2> QED BY <2>1, <2>3, <2>4
<1>11. PICK line : line = SubSeq(doc, b + 1, e - 1)
  OBVIOUS
<1>12. line \in Seq(Chars) /\ k - b \in 0..Len(line)
  <2>1. line \in Seq(Chars) /\ Len(line) = e - 1 - b
    BY <1>3, <1>11
  <2>2. k - b \in 0..e - 1 - b
    OBVIOUS
  <2> QED BY <2>1, <2>2
<1>13. Prefix(line, k - b) = SubSeq(doc, b + 1, k)
  <2>1. Prefix(SubSeq(doc, b + 1, e - 1), k - b) = SubSeq(doc, b + 1, k)
    BY <1>3
  <2> QED BY <1>11, <2>1, Zenon
<1>14. ByteToUnit(line, Bytes(Prefix(line, k - b)), enc) = Units(Prefix(line, k - b), enc)
  BY <1>12, ByteToUnitIs
<1>15. LineAt(doc, l) = line
  BY <1>3, <1>11
<1>16. PositionOf(doc, k, enc) = [line |-> l, character |-> Units(Prefix(line, k - b), enc)]
  BY <1>3, <1>11
<1> HIDE DEF begin, lines
<1> QED BY <1>1, <1>9, <1>10, <1>13, <1>14, <1>15, <1>16

LEMMA SliceAtIs ==
  ASSUME NEW doc \in Seq(Chars), NEW k \in 0..Len(doc), NEW i \in 0..k, NEW enc \in Encodings
  PROVE  SliceAt(doc, PositionOf(doc, i, enc), PositionOf(doc, k, enc), enc) =
            IF OnEmptyLine(doc, i) \/ OnEmptyLine(doc, k) THEN OutOfRange
            ELSE SubSeq(doc, i + 1, k)
<1>1. PICK p, q : p = PositionOf(doc, i, enc) /\ q = PositionOf(doc, k, enc)
  OBVIOUS
<1>2. PICK from, to : from = PositionToByte(doc, p, enc) /\ to = PositionToByte(doc, q, enc)
  OBVIOUS
<1>3. i \in 0..Len(doc) /\ i <= k
  OBVIOUS
<1>4. from = IF OnEmptyLine(doc, i) THEN OutOfRange ELSE Bytes(Prefix(doc, i))
  BY <1>1, <1>2, <1>3, PositionToByteIs
<1>5. to = IF OnEmptyLine(doc, k) THEN OutOfRange ELSE Bytes(Prefix(doc, k))
  BY <1>1, <1>2, PositionToByteIs
<1>6. /\ Bytes(Prefix(doc, i)) \in Nat /\ Bytes(Prefix(doc, k)) \in Nat
      /\ Bytes(Prefix(doc, i)) <= Bytes(Prefix(doc, k))
  BY <1>3, BytesRise
<1>7. CharsBefore(doc, Bytes(Prefix(doc, i))) = i /\ CharsBefore(doc, Bytes(Prefix(doc, k))) = k
  BY <1>3, CharsBeforeIs
<1>8. SliceAt(doc, p, q, enc) =
        IF OutOfRange \in {from, to} \/ to < from THEN OutOfRange
        ELSE SubSeq(doc, CharsBefore(doc, from) + 1, CharsBefore(doc, to))
  BY <1>2 DEF SliceAt
<1>9. CASE OnEmptyLine(doc, i) \/ OnEmptyLine(doc, k)
  BY <1>1, <1>4, <1>5, <1>8, <1>9
<1>10. CASE ~OnEmptyLine(doc, i) /\ ~OnEmptyLine(doc, k)
  <2>1. from = Bytes(Prefix(doc, i)) /\ to = Bytes(Prefix(doc, k))
    BY <1>4, <1>5, <1>10
  <2>2. OutOfRange \notin {from, to} /\ ~(to < from)
    BY <1>6, <2>1, TextEditsAssumption
  <2>3. SubSeq(doc, CharsBefore(doc, from) + 1, CharsBefore(doc, to)) = SubSeq(doc, i + 1, k)
    BY <1>7, <2>1
  <2> QED BY <1>1, <1>8, <1>10, <2>2, <2>3
<1> QED BY <1>9, <1>10

\* Positions and bytes name the same places, and slices are what lies between two of them
\* (byte_to_position, position_to_byte and slice_at in offsets.rs), in every text.
THEOREM PlacesHold ==
  ASSUME NEW doc \in Seq(Chars), NEW enc \in {Utf8, Utf16}
  PROVE  PlacesAgree(doc, enc)
<1>1. enc \in Encodings
  BY DEF Encodings
<1>2. \A k \in 0..Len(doc) : ByteToPosition(doc, Bytes(Prefix(doc, k)), enc) = PositionOf(doc, k, enc)
  BY <1>1, ByteToPositionIs
<1>3. \A k \in 0..Len(doc) : \A i \in 0..k :
        SliceAt(doc, PositionOf(doc, i, enc), PositionOf(doc, k, enc), enc) =
            IF OnEmptyLine(doc, i) \/ OnEmptyLine(doc, k) THEN OutOfRange
            ELSE SubSeq(doc, i + 1, k)
  BY <1>1, SliceAtIs
<1> QED BY <1>2, <1>3 DEF PlacesAgree

-----------------------------------------------------------------------------
(* Two edits.                                                              *)

\* Those that come before the j-th of two edits, and itself.
AheadOfTwo(s, j) ==
    {i \in 1..2 : Before(s[j].from, s[i].from) \/ (s[i].from = s[j].from /\ i <= j)}

LEMMA InOrderOfTwo ==
  ASSUME NEW s, Len(s) = 2, NEW p \in 1..2, NEW q \in 1..2, p # q,
         Cardinality(AheadOfTwo(s, 1)) = p, Cardinality(AheadOfTwo(s, 2)) = q
  PROVE  InOrder(s) = [l \in 1..2 |-> IF l = p THEN s[1] ELSE s[2]]
<1>2. PICK a, b : s[1] = a /\ s[2] = b
  OBVIOUS
<1>3. PICK place : place = [j \in 1..2 |-> Cardinality(AheadOfTwo(s, j))]
  OBVIOUS
<1>4. place[1] = p /\ place[2] = q
  <2>1. 1 \in 1..2 /\ 2 \in 1..2
    OBVIOUS
  <2>2. place[1] = Cardinality(AheadOfTwo(s, 1)) /\ place[2] = Cardinality(AheadOfTwo(s, 2))
    BY <1>3, <2>1, Zenon
  <2> QED BY <2>2
<1>5. InOrder(s) = [l \in 1..2 |-> s[CHOOSE j \in 1..2 : place[j] = l]]
  <2>1. InOrder(s) = [l \in 1..Len(s) |-> s[CHOOSE j \in 1..Len(s) :
            Cardinality({i \in 1..Len(s) : \/ Before(s[j].from, s[i].from)
                                           \/ s[i].from = s[j].from /\ i <= j}) = l]]
    BY DEF InOrder
  <2>2. InOrder(s) = [l \in 1..2 |-> s[CHOOSE j \in 1..2 : Cardinality(AheadOfTwo(s, j)) = l]]
    BY <1>2, <2>1 DEF AheadOfTwo
  <2>3. \A j \in 1..2 : place[j] = Cardinality(AheadOfTwo(s, j))
    BY <1>3
  <2>4. \A l \in 1..2 : (CHOOSE j \in 1..2 : Cardinality(AheadOfTwo(s, j)) = l) = (CHOOSE j \in 1..2 : place[j] = l)
    BY <2>3
  <2> QED BY <2>2, <2>4
<1>6. ASSUME NEW l \in 1..2 PROVE s[CHOOSE j \in 1..2 : place[j] = l] = IF l = p THEN a ELSE b
  <2>1. PICK j : j = CHOOSE i \in 1..2 : place[i] = l
    OBVIOUS
  <2>2. \A i \in 1..2 : i = 1 \/ i = 2
    OBVIOUS
  <2>3. p = l \/ q = l
    BY <2>2
  <2>4. \E i \in 1..2 : place[i] = l
    BY <1>4, <2>3
  <2>5. j \in 1..2 /\ place[j] = l
    BY <2>1, <2>4
  <2>6. j = IF l = p THEN 1 ELSE 2
    BY <1>4, <2>2, <2>5
  <2>7. s[j] = IF l = p THEN a ELSE b
    BY <1>2, <2>6
  <2> QED BY <2>1, <2>7
<1>7. InOrder(s) = [l \in 1..2 |-> IF l = p THEN a ELSE b]
  BY <1>5, <1>6
<1> QED BY <1>2, <1>7

\* The sort puts the later one first.
LEMMA InOrderIs ==
  ASSUME NEW d, NEW e, Before(d.from, e.from), ~Before(e.from, d.from), d.from # e.from
  PROVE  \A edits \in {<<d, e>>, <<e, d>>} : InOrder(edits) = <<e, d>>
<1>1. 1..2 = {1, 2}
  OBVIOUS
<1>2. Cardinality({1}) = 1 /\ Cardinality({2}) = 1 /\ Cardinality({1, 2}) = 2
  <2>1. Cardinality(1..2) = 2
    <3>1. \A n \in Nat : Cardinality(1..n) = n
      BY FS_Interval
    <3>2. 2 \in Nat
      OBVIOUS
    <3> QED BY <3>1, <3>2, Zenon
  <2> QED BY <1>1, <2>1, FS_Singleton
<1>3. <<d, e>>[1] = d /\ <<d, e>>[2] = e /\ <<e, d>>[1] = e /\ <<e, d>>[2] = d
  OBVIOUS
<1>4. InOrder(<<d, e>>) = <<e, d>>
  <2>1. AheadOfTwo(<<d, e>>, 1) = {1, 2}
    BY <1>1, <1>3 DEF AheadOfTwo
  <2>2. AheadOfTwo(<<d, e>>, 2) = {2}
    BY <1>1, <1>3 DEF AheadOfTwo
  <2>3. 1 \in 1..2 /\ 2 \in 1..2 /\ 2 # 1
    OBVIOUS
  <2>6. Cardinality(AheadOfTwo(<<d, e>>, 1)) = 2 /\ Cardinality(AheadOfTwo(<<d, e>>, 2)) = 1
    BY <1>2, <2>1, <2>2
  <2>4. InOrder(<<d, e>>) = [l \in 1..2 |-> IF l = 2 THEN d ELSE e]
    <3>1. PICK s : s = <<d, e>>
      OBVIOUS
    <3>2. Len(s) = 2 /\ s[1] = d /\ s[2] = e /\ Cardinality(AheadOfTwo(s, 1)) = 2 /\ Cardinality(AheadOfTwo(s, 2)) = 1
      BY <2>6, <3>1
    <3>3. InOrder(s) = [l \in 1..2 |-> IF l = 2 THEN s[1] ELSE s[2]]
      BY <2>3, <3>2, InOrderOfTwo
    <3> QED BY <3>1, <3>2, <3>3
  <2>5. [l \in 1..2 |-> IF l = 2 THEN d ELSE e] = <<e, d>>
    OBVIOUS
  <2> QED BY <2>4, <2>5
<1>5. InOrder(<<e, d>>) = <<e, d>>
  <2>1. AheadOfTwo(<<e, d>>, 1) = {1}
    BY <1>1, <1>3 DEF AheadOfTwo
  <2>2. AheadOfTwo(<<e, d>>, 2) = {1, 2}
    BY <1>1, <1>3 DEF AheadOfTwo
  <2>3. 1 \in 1..2 /\ 2 \in 1..2 /\ 1 # 2
    OBVIOUS
  <2>6. Cardinality(AheadOfTwo(<<e, d>>, 1)) = 1 /\ Cardinality(AheadOfTwo(<<e, d>>, 2)) = 2
    BY <1>2, <2>1, <2>2
  <2>4. InOrder(<<e, d>>) = [l \in 1..2 |-> IF l = 1 THEN e ELSE d]
    <3>1. PICK s : s = <<e, d>>
      OBVIOUS
    <3>2. Len(s) = 2 /\ s[1] = e /\ s[2] = d /\ Cardinality(AheadOfTwo(s, 1)) = 1 /\ Cardinality(AheadOfTwo(s, 2)) = 2
      BY <2>6, <3>1
    <3>3. InOrder(s) = [l \in 1..2 |-> IF l = 1 THEN s[1] ELSE s[2]]
      BY <2>3, <3>2, InOrderOfTwo
    <3> QED BY <3>1, <3>2, <3>3
  <2>5. [l \in 1..2 |-> IF l = 1 THEN e ELSE d] = <<e, d>>
    OBVIOUS
  <2> QED BY <2>4, <2>5
<1> QED BY <1>4, <1>5

\* Of two places the earlier one comes before the other, and is another.
LEMMA BeforeIs ==
  ASSUME NEW doc \in Seq(Chars), NEW enc \in Encodings, NEW i \in 0..Len(doc), NEW j \in 0..Len(doc), i < j
  PROVE  /\ Before(PositionOf(doc, i, enc), PositionOf(doc, j, enc))
         /\ ~Before(PositionOf(doc, j, enc), PositionOf(doc, i, enc))
         /\ PositionOf(doc, i, enc) # PositionOf(doc, j, enc)
<1>1. PICK l, m : l = LineNo(doc, i) /\ m = LineNo(doc, j)
  OBVIOUS
<1>2. l \in Nat /\ m \in Nat /\ l <= m
  <2>1. /\ Numbered(Ends(doc))
        /\ Rank(Ends(doc), i) = l /\ Rank(Ends(doc), j) = m
    BY <1>1, EndsAre
  <2>2. i \in Nat /\ j \in Nat
    OBVIOUS
  <2>3. Rank(Ends(doc), i) \in 0..Cardinality(Ends(doc)) /\ Rank(Ends(doc), j) \in 0..Cardinality(Ends(doc))
    BY <2>1, <2>2, RankIs
  <2>4. Rank(Ends(doc), i) <= Rank(Ends(doc), j)
    BY <2>1, <2>2, RankIs
  <2> QED BY <2>1, <2>3, <2>4
<1>3. PICK p, q : p = PositionOf(doc, i, enc) /\ q = PositionOf(doc, j, enc)
  OBVIOUS
<1>4. PICK b, e : b = LineBegin(doc, l) /\ e = LineEnds(doc)[l + 1]
  OBVIOUS
<1>5. b \in 0..i /\ SubSeq(doc, b + 1, e - 1) \in Seq(Chars) /\ Len(SubSeq(doc, b + 1, e - 1)) = e - 1 - b
      /\ e \in i + 1..Len(doc) + 1
      /\ p = [line |-> l, character |-> Units(Prefix(SubSeq(doc, b + 1, e - 1), i - b), enc)]
  BY <1>1, <1>3, <1>4, PlaceIs, ZenonT(40)
<1>6. PICK c \in 0..j, d \in j + 1..Len(doc) + 1 :
        /\ c = LineBegin(doc, m) /\ d = LineEnds(doc)[m + 1]
        /\ q = [line |-> m, character |-> Units(Prefix(SubSeq(doc, c + 1, d - 1), j - c), enc)]
  BY <1>1, <1>3, PlaceIs
<1>7. p.line = l /\ q.line = m
  BY <1>5, <1>6
<1>8. CASE l = m
  <2>1. c = b /\ d = e
    BY <1>4, <1>6, <1>8
  <2>2. PICK line : line = SubSeq(doc, b + 1, e - 1)
    OBVIOUS
  <2>3. line \in Seq(Chars) /\ Len(line) = e - 1 - b
    BY <1>5, <2>2
  <2>4. PICK x, y : x = i - b /\ y = j - b
    OBVIOUS
  <2>5. e \in j + 1..Len(doc) + 1 /\ b \in 0..i /\ x \in Int /\ y \in Int
    BY <1>5, <1>6, <2>1, <2>4
  <2>6. x \in 0..Len(line) /\ y \in 0..Len(line) /\ x < y
    BY <2>3, <2>4, <2>5
  <2>7. Units(Prefix(line, x), enc) < Units(Prefix(line, y), enc)
    BY <2>3, <2>6, EncodingsCount, LengthsRise DEF Units
  <2>8. Units(Prefix(line, x), enc) \in Nat /\ Units(Prefix(line, y), enc) \in Nat
    BY <2>3, <2>6, EncodingsCount, PrefixLengths DEF Units
  <2>9. p.character = Units(Prefix(line, x), enc)
    BY <1>5, <2>2, <2>4
  <2>10. q.character = Units(Prefix(line, y), enc)
    BY <1>6, <2>1, <2>2, <2>4
  <2>11. p.character < q.character /\ p.character \in Nat /\ q.character \in Nat
    BY <2>7, <2>8, <2>9, <2>10
  <2>12. Before(p, q) /\ ~Before(q, p) /\ p # q
    BY <1>2, <1>7, <1>8, <2>11 DEF Before
  <2> QED BY <1>3, <2>12
<1>9. CASE l # m
  <2>1. Before(p, q) /\ ~Before(q, p) /\ p # q
    BY <1>2, <1>7, <1>9 DEF Before
  <2> QED BY <1>3, <2>1
<1> QED BY <1>8, <1>9

\* What a place is called depends on what is before it.
LEMMA SamePlace ==
  ASSUME NEW doc \in Seq(Chars), NEW out \in Seq(Chars), NEW enc \in Encodings,
         NEW k \in 0..Len(doc), k <= Len(out), Prefix(doc, k) = Prefix(out, k)
  PROVE  PositionOf(doc, k, enc) = PositionOf(out, k, enc)
<1>1. k \in 0..Len(doc) /\ k \in 0..Len(out) /\ 0 \in 0..Len(doc) /\ k \in Nat
  OBVIOUS
<1>2. \A i \in 1..k : doc[i] = out[i]
  <2> SUFFICES ASSUME NEW i \in 1..k PROVE doc[i] = out[i]
    OBVIOUS
  <2>1. Prefix(doc, k)[i] = doc[i]
    BY <1>1 DEF Prefix
  <2>2. Prefix(out, k)[i] = out[i]
    BY <1>1 DEF Prefix
  <2> QED BY <2>1, <2>2
<1>3. Breaks(doc, k) = Breaks(out, k)
  BY <1>2 DEF Breaks
<1>4. PICK l, b : l = LineNo(doc, k) /\ b = LineBegin(doc, l)
  OBVIOUS
<1>5. LineNo(out, k) = l
  BY <1>3, <1>4 DEF LineNo
<1>6. PICK e : e = LineEnds(doc)[l + 1] /\ b \in 0..k /\ e \in k + 1..Len(doc) + 1 /\ Line(doc, b, e)
  <2>1. l \in 0..Len(LineEnds(doc)) - 1 /\ b \in 0..k /\ LineEnds(doc)[l + 1] \in k + 1..Len(doc) + 1
    BY <1>4, LineOf
  <2>2. Line(doc, b, LineEnds(doc)[l + 1])
    BY <1>4, <2>1, LineIs
  <2> QED BY <2>1, <2>2
<1>7. (b = 0 \/ out[b] = "n") /\ \A i \in b + 1..k : out[i] # "n"
  <2>1. b = 0 \/ b \in 1..k
    BY <1>6
  <2>2. b = 0 \/ out[b] = "n"
    BY <1>2, <1>6, <2>1 DEF Line
  <2>3. \A i \in b + 1..k : i \in 1..k /\ i \in b + 1..e - 1
    BY <1>6
  <2>4. \A i \in b + 1..k : out[i] # "n"
    BY <1>2, <1>6, <2>3 DEF Line
  <2> QED BY <2>2, <2>4
<1>8. LineBegin(out, l) = b
  BY <1>1, <1>5, <1>6, <1>7, LineBeginIs
<1>9. SubSeq(doc, b + 1, k) = SubSeq(out, b + 1, k)
  <2>1. b \in 0..k /\ k \in b..k /\ 0 \in 0..Len(doc) /\ 0 \in 0..Len(out) /\ k \in 0..Len(doc) /\ k \in 0..Len(out)
        /\ b \in 0..k - 0 /\ k \in b..k - 0
    BY <1>1, <1>6
  <2>2. SubSeq(SubSeq(doc, 0 + 1, k), b + 1, k) = SubSeq(doc, (0 + b) + 1, 0 + k)
    BY <2>1, StretchOfStretch
  <2>3. SubSeq(SubSeq(out, 0 + 1, k), b + 1, k) = SubSeq(out, (0 + b) + 1, 0 + k)
    BY <2>1, StretchOfStretch
  <2>4. 0 + 1 = 1 /\ (0 + b) + 1 = b + 1 /\ 0 + k = k
    BY <2>1
  <2> QED BY <2>2, <2>3, <2>4 DEF Prefix
<1>10. PositionOf(doc, k, enc) = [line |-> l, character |-> Length(SubSeq(doc, b + 1, k), enc)]
  BY <1>4 DEF PositionOf, LineNo
<1>11. PositionOf(out, k, enc) = [line |-> l, character |-> Length(SubSeq(out, b + 1, k), enc)]
  BY <1>5, <1>8 DEF PositionOf, LineNo
<1> QED BY <1>9, <1>10, <1>11

LEMMA ApplyEditIs ==
  ASSUME NEW doc \in Seq(Chars), NEW enc \in Encodings, NEW i \in 0..Len(doc), NEW j \in 0..Len(doc),
         NEW new, NEW checked \in BOOLEAN, i <= j
  PROVE  ApplyEdit(doc, EditOf(doc, i, j, new, enc), enc, checked) =
            IF OnEmptyLine(doc, i) \/ OnEmptyLine(doc, j) THEN OutOfRange
            ELSE Prefix(doc, i) \o new \o SubSeq(doc, j + 1, Len(doc))
<1>e. PICK e : e = EditOf(doc, i, j, new, enc)
  OBVIOUS
<1>0. e.from = PositionOf(doc, i, enc) /\ e.to = PositionOf(doc, j, enc) /\ e.new = new
  BY <1>e DEF EditOf
<1>1. PICK from, to : from = PositionToByte(doc, e.from, enc) /\ to = PositionToByte(doc, e.to, enc)
  OBVIOUS
<1>2. from = IF OnEmptyLine(doc, i) THEN OutOfRange ELSE Bytes(Prefix(doc, i))
  BY <1>0, <1>1, PositionToByteIs
<1>3. to = IF OnEmptyLine(doc, j) THEN OutOfRange ELSE Bytes(Prefix(doc, j))
  BY <1>0, <1>1, PositionToByteIs
<1>4. Bytes(Prefix(doc, i)) # OutOfRange /\ Bytes(Prefix(doc, j)) # OutOfRange
  <2>1. Bytes(Prefix(doc, i)) \in Nat /\ Bytes(Prefix(doc, j)) \in Nat
    BY BytesRise
  <2>2. OutOfRange \notin Nat
    BY TextEditsAssumption
  <2> QED BY <2>1, <2>2
<1>5. CharsBefore(doc, Bytes(Prefix(doc, i))) = i /\ CharsBefore(doc, Bytes(Prefix(doc, j))) = j
  BY CharsBeforeIs
<1>6. ApplyEdit(doc, e, enc, checked) =
        IF OutOfRange \in {from, to} THEN OutOfRange
        ELSE IF checked /\ to < from THEN OutOfRange
        ELSE Prefix(doc, CharsBefore(doc, from)) \o new \o SubSeq(doc, CharsBefore(doc, to) + 1, Len(doc))
  BY <1>0, <1>1 DEF ApplyEdit
<1>7. CASE OnEmptyLine(doc, i) \/ OnEmptyLine(doc, j)
  BY <1>e, <1>2, <1>3, <1>6, <1>7
<1>8. CASE ~OnEmptyLine(doc, i) /\ ~OnEmptyLine(doc, j)
  <2>1. from = Bytes(Prefix(doc, i)) /\ to = Bytes(Prefix(doc, j))
    BY <1>2, <1>3, <1>8
  <2>2. OutOfRange \notin {from, to}
    BY <1>4, <2>1
  <2>3. CharsBefore(doc, from) = i /\ CharsBefore(doc, to) = j
    BY <1>5, <2>1
  <2>4. ~(to < from)
    <3>1. Bytes(Prefix(doc, i)) <= Bytes(Prefix(doc, j)) /\ Bytes(Prefix(doc, i)) \in Nat /\ Bytes(Prefix(doc, j)) \in Nat
      BY BytesRise
    <3> QED BY <2>1, <3>1
  <2> QED BY <1>e, <1>6, <1>8, <2>2, <2>3, <2>4
<1> QED BY <1>7, <1>8

\* Two edits one after the other.
LEMMA ApplyTwoIs ==
  ASSUME NEW doc, NEW enc, NEW edits, NEW checked, Len(edits) = 2, doc # OutOfRange
  PROVE  ApplyEdits(doc, edits, enc, checked) =
            IF ApplyEdit(doc, InOrder(edits)[1], enc, checked) = OutOfRange THEN OutOfRange
            ELSE ApplyEdit(ApplyEdit(doc, InOrder(edits)[1], enc, checked), InOrder(edits)[2], enc, checked)
<1> DEFINE eqn(f) == f = [k \in 0..2 |->
                IF k = 0 THEN doc
                ELSE IF f[k - 1] = OutOfRange THEN OutOfRange
                ELSE ApplyEdit(f[k - 1], InOrder(edits)[k], enc, checked)]
<1>1. PICK x : x = ApplyEdit(doc, InOrder(edits)[1], enc, checked)
  OBVIOUS
<1>2. PICK y : y = IF x = OutOfRange THEN OutOfRange ELSE ApplyEdit(x, InOrder(edits)[2], enc, checked)
  OBVIOUS
<1>3. PICK g : g = [k \in 0..2 |-> IF k = 0 THEN doc ELSE IF k = 1 THEN x ELSE y]
  OBVIOUS
<1>4. g[0] = doc /\ g[1] = x /\ g[2] = y
  BY <1>3
<1>5. \A k \in 0..2 : k = 0 \/ k = 1 \/ k = 2
  OBVIOUS
<1>6. \A k \in 0..2 : g[k] = IF k = 0 THEN doc
                             ELSE IF g[k - 1] = OutOfRange THEN OutOfRange
                             ELSE ApplyEdit(g[k - 1], InOrder(edits)[k], enc, checked)
  <2>1. g[1] = IF g[1 - 1] = OutOfRange THEN OutOfRange ELSE ApplyEdit(g[1 - 1], InOrder(edits)[1], enc, checked)
    <3>1. 1 - 1 = 0
      OBVIOUS
    <3> QED BY <1>1, <1>4, <3>1
  <2>2. g[2] = IF g[2 - 1] = OutOfRange THEN OutOfRange ELSE ApplyEdit(g[2 - 1], InOrder(edits)[2], enc, checked)
    <3>1. 2 - 1 = 1
      OBVIOUS
    <3> QED BY <1>2, <1>4, <3>1
  <2> QED BY <1>4, <1>5, <2>1, <2>2
<1>7. eqn(g)
  BY <1>3, <1>6
<1>8. PICK h : h = (CHOOSE f : eqn(f)) /\ eqn(h)
  <2> HIDE DEF eqn
  <2> QED BY <1>7
<1>9. h[2] = y
  <2>1. h[0] = doc
    BY <1>8
  <2>2. h[1] = IF h[0] = OutOfRange THEN OutOfRange ELSE ApplyEdit(h[0], InOrder(edits)[1], enc, checked)
    BY <1>8
  <2>3. h[2] = IF h[1] = OutOfRange THEN OutOfRange ELSE ApplyEdit(h[1], InOrder(edits)[2], enc, checked)
    BY <1>8
  <2> HIDE DEF eqn
  <2> QED BY <1>1, <1>2, <2>1, <2>2, <2>3
<1>10. ApplyEdits(doc, edits, enc, checked) = (CHOOSE f : eqn(f))[2]
  BY DEF ApplyEdits
<1> HIDE DEF eqn
<1> QED BY <1>1, <1>2, <1>8, <1>9, <1>10

Cut(doc, i, c) == Prefix(doc, i) \o c

\* What an edit leaves alone before it.
KeptBefore(doc, i, c, out) ==
    /\ out \in Seq(Chars) /\ Len(out) = i + Len(c) /\ Len(out) \in Nat
    /\ \A k \in 0..i : k \in 0..Len(doc) /\ k \in 0..Len(out) /\ Prefix(out, k) = Prefix(doc, k)
    /\ \A k \in 1..i : out[k] = doc[k]
    /\ \A k \in 0..i - 1 : OnEmptyLine(out, k) <=> OnEmptyLine(doc, k)
    /\ \A k \in 0..i : SubSeq(out, k + 1, Len(out)) = SubSeq(doc, k + 1, i) \o c

LEMMA UpToAnEdit ==
  ASSUME NEW doc \in Seq(Chars), NEW c \in Seq(Chars), NEW i \in 0..Len(doc)
  PROVE  KeptBefore(doc, i, c, Cut(doc, i, c))
<1>o. PICK out : out = Cut(doc, i, c)
  OBVIOUS
<1>0. i \in Nat /\ i <= Len(doc) /\ 0 \in 0..Len(doc) /\ i \in 0..Len(doc) /\ Len(doc) \in Nat
  OBVIOUS
<1>1. PICK p : p = Prefix(doc, i)
  OBVIOUS
<1>2. p \in Seq(Chars) /\ Len(p) = i /\ \A k \in 1..i : p[k] = doc[k]
  BY <1>0, <1>1 DEF Prefix
<1>c. out = p \o c
  BY <1>1, <1>o DEF Cut
<1>3. out \in Seq(Chars) /\ Len(out) = i + Len(c) /\ Len(c) \in Nat
  <2>1. p \o c \in Seq(Chars) /\ Len(p \o c) = Len(p) + Len(c) /\ Len(c) \in Nat
    BY <1>2, ConcatIs
  <2> QED BY <1>c, <1>2, <2>1
<1>4. \A k \in 1..i : out[k] = doc[k]
  <2>1. \A k \in 1..i : out[k] = p[k]
    BY <1>c, <1>2, ElementOfConcat
  <2> QED BY <1>2, <2>1
<1>5. ASSUME NEW k \in 0..i
      PROVE  k \in 0..Len(doc) /\ k \in 0..Len(out) /\ Prefix(out, k) = Prefix(doc, k)
  <2>1. k \in 0..Len(doc) /\ k \in 0..Len(out)
    BY <1>0, <1>3
  <2>2. SubSeq(p \o c, 1, k) = SubSeq(p, 1, k)
    BY <1>2, PartsOfConcat
  <2>3. SubSeq(SubSeq(doc, 0 + 1, i), 0 + 1, k) = SubSeq(doc, (0 + 0) + 1, 0 + k)
    <3>1. i \in 0..Len(doc) /\ 0 \in 0..i - 0 /\ k \in 0..i - 0
      BY <1>0
    <3> QED BY <1>0, <3>1, StretchOfStretch
  <2>4. 0 + 1 = 1 /\ (0 + 0) + 1 = 1 /\ 0 + k = k
    OBVIOUS
  <2>5. SubSeq(p, 1, k) = SubSeq(doc, 1, k)
    BY <1>1, <2>3, <2>4 DEF Prefix
  <2> QED BY <1>c, <2>1, <2>2, <2>5 DEF Prefix
<1>6. ASSUME NEW k \in 0..i - 1
      PROVE  OnEmptyLine(out, k) <=> OnEmptyLine(doc, k)
  <2>1. k # Len(doc) /\ k # Len(out) /\ k + 1 \in 1..i /\ (k = 0 \/ k \in 1..i)
    BY <1>0, <1>3
  <2>2. out[k + 1] = doc[k + 1] /\ (k = 0 \/ out[k] = doc[k])
    BY <1>4, <2>1
  <2> QED BY <2>1, <2>2 DEF OnEmptyLine
<1>7. ASSUME NEW k \in 0..i
      PROVE  SubSeq(out, k + 1, Len(out)) = SubSeq(doc, k + 1, i) \o c
  <2>1. SubSeq(p \o c, k + 1, Len(p \o c)) = SubSeq(p, k + 1, Len(p)) \o c
    BY <1>2, RestOfConcat
  <2>2. SubSeq(SubSeq(doc, 0 + 1, i), k + 1, i) = SubSeq(doc, (0 + k) + 1, 0 + i)
    <3>1. i \in 0..Len(doc) /\ k \in 0..i - 0 /\ i \in k..i - 0
      BY <1>0
    <3> QED BY <1>0, <3>1, StretchOfStretch
  <2>3. 0 + 1 = 1 /\ (0 + k) + 1 = k + 1 /\ 0 + i = i
    BY <1>0
  <2>4. SubSeq(p, k + 1, i) = SubSeq(doc, k + 1, i)
    BY <1>1, <2>2, <2>3 DEF Prefix
  <2> QED BY <1>c, <1>2, <2>1, <2>4
<1>8. Len(out) \in Nat
  BY <1>0, <1>3
<1> QED BY <1>o, <1>3, <1>4, <1>5, <1>6, <1>7, <1>8 DEF KeptBefore

Rightly(doc, edits, enc, checked, i1, j1, u, i2, j2, v) ==
    ApplyEdits(doc, edits, enc, checked) =
        IF \E k \in {i1, j1, i2, j2} : OnEmptyLine(doc, k) THEN OutOfRange
        ELSE Prefix(doc, i1) \o u \o SubSeq(doc, j1 + 1, i2) \o v \o SubSeq(doc, j2 + 1, Len(doc))

\* The two orders.
Orders(doc, enc, i1, j1, u, i2, j2, v) ==
    {<<EditOf(doc, i1, j1, u, enc), EditOf(doc, i2, j2, v, enc)>>,
     <<EditOf(doc, i2, j2, v, enc), EditOf(doc, i1, j1, u, enc)>>}

\* One edit behind another: each finds its range, whichever is given first.
LEMMA TwoEdits ==
  ASSUME NEW doc \in Seq(Chars), NEW enc \in Encodings,
         NEW i1 \in 0..Len(doc), NEW j1 \in 0..Len(doc), NEW i2 \in 0..Len(doc), NEW j2 \in 0..Len(doc),
         i1 <= j1, j1 < i2, i2 <= j2,
         NEW u \in Seq(Chars), NEW v \in Seq(Chars),
         NEW edits \in Orders(doc, enc, i1, j1, u, i2, j2, v), NEW checked \in BOOLEAN
  PROVE  Rightly(doc, edits, enc, checked, i1, j1, u, i2, j2, v)
<1> SUFFICES ApplyEdits(doc, edits, enc, checked) =
                IF \E k \in {i1, j1, i2, j2} : OnEmptyLine(doc, k) THEN OutOfRange
                ELSE Prefix(doc, i1) \o u \o SubSeq(doc, j1 + 1, i2) \o v \o SubSeq(doc, j2 + 1, Len(doc))
  BY DEF Rightly
<1>0. /\ i1 < i2 /\ i1 \in 0..i2 /\ j1 \in 0..i2 /\ i1 \in 0..i2 - 1 /\ j1 \in 0..i2 - 1
      /\ i1 \in 0..Len(doc) /\ j1 \in 0..Len(doc) /\ i2 \in j1..Len(doc)
      /\ j2 \in 0..Len(doc) /\ Len(doc) \in j2..Len(doc) /\ 0 \in 0..Len(doc) /\ i1 \in 0..Len(doc)
  OBVIOUS
<1>le. i1 <= j1 /\ i2 <= j2
  OBVIOUS
<1>d. PICK d : d = EditOf(doc, i1, j1, u, enc)
  OBVIOUS
<1>e. PICK e : e = EditOf(doc, i2, j2, v, enc)
  OBVIOUS
<1>s. edits \in {<<d, e>>, <<e, d>>}
  BY <1>d, <1>e DEF Orders
<1>1. OutOfRange \notin Seq(Chars)
  BY TextEditsAssumption
<1>2. Len(edits) = 2
  BY <1>s
<1>3. InOrder(edits)[1] = e /\ InOrder(edits)[2] = d
  <2>0. /\ d.from = PositionOf(doc, i1, enc)
        /\ e.from = PositionOf(doc, i2, enc)
    BY <1>d, <1>e DEF EditOf
  <2>1. Before(d.from, e.from) /\ ~Before(e.from, d.from) /\ d.from # e.from
    BY <1>0, <2>0, BeforeIs
  <2>2. InOrder(edits) = <<e, d>>
    BY <1>s, <2>1, InOrderIs
  <2> QED BY <2>2
<1>4. PICK t \in Seq(Chars) : t = SubSeq(doc, j2 + 1, Len(doc))
  BY <1>0, StretchIs
<1>5. PICK s \in Seq(Chars) : s = SubSeq(doc, j1 + 1, i2)
  BY <1>0, StretchIs
<1>6. Prefix(doc, i1) \in Seq(Chars) /\ Prefix(doc, i2) \in Seq(Chars)
  BY DEF Prefix
<1>7. PICK c \in Seq(Chars) : c = v \o t
  BY ConcatIs
<1>8. c \in Seq(Chars)
  OBVIOUS
<1>9. PICK out : out = Prefix(doc, i2) \o c
  OBVIOUS
<1>10. Prefix(doc, i2) \o v \o t = out
  <2>1. PICK p \in Seq(Chars) : p = Prefix(doc, i2)
    BY <1>6
  <2>3. Three(p, v, t) = ThreeFromBehind(p, v, t)
    BY ThreeInOne
  <2>2. (p \o v) \o t = p \o (v \o t)
    BY <2>3 DEF Three, ThreeFromBehind
  <2> QED BY <1>7, <1>9, <2>1, <2>2
<1>11. ApplyEdit(doc, e, enc, checked) = IF OnEmptyLine(doc, i2) \/ OnEmptyLine(doc, j2) THEN OutOfRange ELSE out
  <2>1. ApplyEdit(doc, e, enc, checked) =
            IF OnEmptyLine(doc, i2) \/ OnEmptyLine(doc, j2) THEN OutOfRange
            ELSE Prefix(doc, i2) \o v \o SubSeq(doc, j2 + 1, Len(doc))
    BY <1>e, <1>le, ApplyEditIs, ZenonT(120)
  <2> QED BY <1>4, <1>10, <2>1
<1>o. out = Cut(doc, i2, c)
  BY <1>9 DEF Cut
<1>12. /\ out \in Seq(Chars)
       /\ \A k \in 0..i2 : k \in 0..Len(out) /\ Prefix(out, k) = Prefix(doc, k)
       /\ \A k \in 0..i2 - 1 : OnEmptyLine(out, k) <=> OnEmptyLine(doc, k)
       /\ \A k \in 0..i2 : SubSeq(out, k + 1, Len(out)) = SubSeq(doc, k + 1, i2) \o c
  <2>1. KeptBefore(doc, i2, c, out)
    BY <1>o, UpToAnEdit
  <2> QED BY <2>1 DEF KeptBefore
<1>l. Len(out) \in Nat
  <2>1. KeptBefore(doc, i2, c, out)
    BY <1>o, UpToAnEdit
  <2> QED BY <2>1 DEF KeptBefore
<1>13. ASSUME NEW k \in 0..i2 PROVE PositionOf(out, k, enc) = PositionOf(doc, k, enc)
  <2>1. k \in 0..Len(doc) /\ k \in 0..Len(out) /\ Prefix(doc, k) = Prefix(out, k)
    <3>1. k \in 0..Len(doc)
      OBVIOUS
    <3> QED BY <1>12, <3>1
  <2>2. k <= Len(out)
    BY <1>l, <2>1
  <2> QED BY <1>12, <2>1, <2>2, SamePlace
<1>14. ApplyEdit(out, d, enc, checked) =
        IF OnEmptyLine(doc, i1) \/ OnEmptyLine(doc, j1) THEN OutOfRange
        ELSE Prefix(doc, i1) \o u \o (s \o c)
  <2>1. i1 \in 0..Len(out) /\ j1 \in 0..Len(out)
    BY <1>0, <1>12
  <2>2. d = EditOf(out, i1, j1, u, enc)
    BY <1>0, <1>13, <1>d DEF EditOf
  <2>3. ApplyEdit(out, d, enc, checked) =
            IF OnEmptyLine(out, i1) \/ OnEmptyLine(out, j1) THEN OutOfRange
            ELSE Prefix(out, i1) \o u \o SubSeq(out, j1 + 1, Len(out))
    <3>1. PICK o \in Seq(Chars) : o = out
      BY <1>12
    <3>2. i1 \in 0..Len(o) /\ j1 \in 0..Len(o) /\ d = EditOf(o, i1, j1, u, enc)
      BY <2>1, <2>2, <3>1
    <3>3. ApplyEdit(o, EditOf(o, i1, j1, u, enc), enc, checked) =
            IF OnEmptyLine(o, i1) \/ OnEmptyLine(o, j1) THEN OutOfRange
            ELSE Prefix(o, i1) \o u \o SubSeq(o, j1 + 1, Len(o))
      BY <1>le, <3>2, ApplyEditIs, ZenonT(120)
    <3> QED BY <3>1, <3>2, <3>3
  <2>4. /\ OnEmptyLine(out, i1) <=> OnEmptyLine(doc, i1)
        /\ OnEmptyLine(out, j1) <=> OnEmptyLine(doc, j1)
        /\ Prefix(out, i1) = Prefix(doc, i1)
        /\ SubSeq(out, j1 + 1, Len(out)) = s \o c
    BY <1>0, <1>5, <1>12
  <2> QED BY <2>3, <2>4
<1>15. Prefix(doc, i1) \o u \o s \o v \o t = Prefix(doc, i1) \o u \o (s \o c)
  <2>1. PICK p \in Seq(Chars) : p = Prefix(doc, i1)
    BY <1>6
  <2>3. Five(p, u, s, v, t) = FiveFromBehind(p, u, s, v, t)
    BY FiveInOne
  <2>2. p \o u \o s \o v \o t = (p \o u) \o (s \o (v \o t))
    BY <2>3 DEF Five, FiveFromBehind
  <2> QED BY <1>7, <2>1, <2>2
<1>16. doc # OutOfRange /\ out # OutOfRange
  BY <1>1, <1>12
<1>17. ApplyEdits(doc, edits, enc, checked) =
            IF ApplyEdit(doc, e, enc, checked) = OutOfRange THEN OutOfRange
            ELSE ApplyEdit(ApplyEdit(doc, e, enc, checked), d, enc, checked)
  BY <1>2, <1>3, <1>16, ApplyTwoIs
<1>18. CASE OnEmptyLine(doc, i2) \/ OnEmptyLine(doc, j2)
  <2>1. ApplyEdits(doc, edits, enc, checked) = OutOfRange
    BY <1>11, <1>17, <1>18
  <2>2. \E k \in {i1, j1, i2, j2} : OnEmptyLine(doc, k)
    BY <1>18
  <2> QED BY <2>1, <2>2
<1>19. CASE ~OnEmptyLine(doc, i2) /\ ~OnEmptyLine(doc, j2)
  <2>1. ApplyEdits(doc, edits, enc, checked) = ApplyEdit(out, d, enc, checked)
    BY <1>11, <1>16, <1>17, <1>19
  <2>2. CASE OnEmptyLine(doc, i1) \/ OnEmptyLine(doc, j1)
    <3>1. \E k \in {i1, j1, i2, j2} : OnEmptyLine(doc, k)
      BY <2>2
    <3> QED BY <1>14, <2>1, <2>2, <3>1
  <2>3. CASE ~OnEmptyLine(doc, i1) /\ ~OnEmptyLine(doc, j1)
    <3>1. ~\E k \in {i1, j1, i2, j2} : OnEmptyLine(doc, k)
      BY <1>19, <2>3
    <3> QED BY <1>4, <1>5, <1>14, <1>15, <2>1, <2>3, <3>1
  <2> QED BY <2>2, <2>3
<1> QED BY <1>18, <1>19

LEMMA RangesAreHit ==
  ASSUME NEW doc \in Seq(Chars), NEW enc \in Encodings
  PROVE  HitTheirRanges(doc, enc)
<1>1. <<"s", "a">> \in Seq(Chars) /\ <<>> \in Seq(Chars) /\ <<"n", "s">> \in Seq(Chars)
  <2>1. "s" \in Chars /\ "a" \in Chars /\ "n" \in Chars
    BY CharsAre
  <2> QED BY <2>1
<1>2. PICK v \in Seq(Chars) : v = <<"s", "a">>
  BY <1>1
<1>3. ASSUME NEW i1 \in 0..Len(doc), NEW j1 \in 0..Len(doc), NEW i2 \in 0..Len(doc), NEW j2 \in 0..Len(doc),
             i1 <= j1, j1 < i2, i2 <= j2, NEW u \in {<<>>, <<"n", "s">>},
             NEW edits \in Orders(doc, enc, i1, j1, u, i2, j2, v), NEW checked \in BOOLEAN
      PROVE  Rightly(doc, edits, enc, checked, i1, j1, u, i2, j2, v)
  <2>1. u \in Seq(Chars)
    BY <1>1
  <2> QED BY <1>3, <2>1, TwoEdits
<1> SUFFICES ASSUME NEW i1 \in 0..Len(doc), NEW j1 \in 0..Len(doc), NEW i2 \in 0..Len(doc), NEW j2 \in 0..Len(doc),
                    i1 <= j1 /\ j1 < i2 /\ i2 <= j2, NEW u \in {<<>>, <<"n", "s">>},
                    NEW edits \in {<<EditOf(doc, i1, j1, u, enc), EditOf(doc, i2, j2, <<"s", "a">>, enc)>>,
                                   <<EditOf(doc, i2, j2, <<"s", "a">>, enc), EditOf(doc, i1, j1, u, enc)>>},
                    NEW checked \in BOOLEAN
             PROVE  Rightly(doc, edits, enc, checked, i1, j1, u, i2, j2, <<"s", "a">>)
  BY DEF HitTheirRanges, Rightly
<1>4. edits \in Orders(doc, enc, i1, j1, u, i2, j2, v)
  BY <1>2 DEF Orders
<1>5. Rightly(doc, edits, enc, checked, i1, j1, u, i2, j2, v)
  BY <1>3, <1>4
<1> QED BY <1>2, <1>5

LEMMA TextsAre ==
  ASSUME NEW C, NEW k, NEW t \in Texts(C, k), k \in Nat
  PROVE  t \in Seq(C)
BY DEF Texts

\* The edits of a language server land on the characters they name, one after the other and in
\* either encoding (offsets.rs, apply_format_edits and the edits of a rename), in texts of any length.
THEOREM EditsLand == Displaced = {}
<1> SUFFICES ASSUME NEW t \in Texts({"a", "s", "n"}, MaxText) \X {Utf8, Utf16}
             PROVE  PlacesAgree(t[1], t[2]) /\ HitTheirRanges(t[1], t[2])
  BY DEF Displaced
<1>1. t[1] \in Texts({"a", "s", "n"}, MaxText) /\ t[2] \in {Utf8, Utf16}
  OBVIOUS
<1>2. t[1] \in Seq({"a", "s", "n"})
  BY <1>1, TextsAre, TextEditsAssumption
<1>3. t[1] \in Seq(Chars)
  BY <1>2, CharsAre
<1>4. t[2] \in Encodings
  BY <1>1 DEF Encodings
<1> QED BY <1>1, <1>3, <1>4, PlacesHold, RangesAreHit

-----------------------------------------------------------------------------
(* The ends of lines.                                                      *)

Eols == {CrLf, <<"n">>}

\* The lines of a text end alike, and all of them end.
Alike(s, eol) == \A i \in 1..Len(s) : s[i] = "n" => (eol = CrLf <=> i > 1 /\ s[i - 1] = "r")
Clean(s, eol) == Terminated(s) /\ Alike(s, eol)

LEMMA EndsWithIs ==
  ASSUME NEW s \in Seq(Chars)
  PROVE  /\ EndsWith(s, <<"n">>) <=> s # <<>> /\ s[Len(s)] = "n"
         /\ EndsWith(s, <<"r">>) <=> s # <<>> /\ s[Len(s)] = "r"
         /\ EndsWith(s, CrLf) <=> Len(s) > 1 /\ s[Len(s) - 1] = "r" /\ s[Len(s)] = "n"
<1>1. PICK n \in Nat : n = Len(s)
  OBVIOUS
<1>2. s = <<>> <=> n = 0
  BY <1>1
<1>3. ASSUME NEW c \in Chars PROVE EndsWith(s, <<c>>) <=> s # <<>> /\ s[n] = c
  <2>1. Len(<<c>>) = 1 /\ <<c>> \in Seq(Chars) /\ <<c>>[1] = c
    OBVIOUS
  <2>2. CASE n = 0
    BY <1>1, <1>2, <2>1, <2>2 DEF EndsWith
  <2>3. CASE n # 0
    <3>1. PICK m \in Nat : n = m + 1 /\ m \in 0..n /\ n \in m..n /\ n - m = 1
      <4>1. n - 1 \in Nat /\ n = (n - 1) + 1
        BY <2>3
      <4> QED BY <4>1
    <3>2. PICK t : t = SubSeq(s, m + 1, n)
      OBVIOUS
    <3>3. t \in Seq(Chars) /\ Len(t) = 1 /\ t[1] = s[m + 1]
      <4>1. m \in 0..Len(s) /\ n \in m..Len(s) /\ 1 \in 1..n - m
        BY <1>1, <3>1
      <4> QED BY <3>1, <3>2, <4>1, StretchIs
    <3>4. EndsWith(s, <<c>>) <=> t = <<c>>
      <4>1. n - 1 + 1 = m + 1 /\ n >= 1
        BY <3>1
      <4> QED BY <1>1, <2>1, <3>2, <4>1 DEF EndsWith
    <3>5. t = <<c>> <=> t[1] = c
      <4>1. ASSUME t[1] = c PROVE t = <<c>>
        <5>1. Len(t) = Len(<<c>>) /\ \A l \in 1..Len(t) : t[l] = <<c>>[l]
          BY <2>1, <3>3, <4>1
        <5> QED BY <2>1, <3>3, <5>1, SameElements
      <4> QED BY <2>1, <4>1
    <3> QED BY <1>2, <2>3, <3>1, <3>3, <3>4, <3>5
  <2> QED BY <2>2, <2>3
<1>4. EndsWith(s, CrLf) <=> n > 1 /\ s[n - 1] = "r" /\ s[n] = "n"
  <2>1. PICK e \in Seq(Chars) : e = CrLf /\ Len(e) = 2 /\ e[1] = "r" /\ e[2] = "n"
    <3>1. "r" \in Chars /\ "n" \in Chars
      BY CharsAre
    <3>2. <<"r", "n">> \in Seq(Chars)
      BY <3>1
    <3>3. Len(<<"r", "n">>) = 2 /\ <<"r", "n">>[1] = "r" /\ <<"r", "n">>[2] = "n"
      OBVIOUS
    <3> QED BY <3>2, <3>3 DEF CrLf
  <2>2. CASE n < 2
    BY <1>1, <2>1, <2>2 DEF EndsWith
  <2>3. CASE n >= 2
    <3>1. PICK m \in Nat : n = m + 2 /\ m \in 0..n /\ n \in m..n /\ n - m = 2
      <4>1. n - 2 \in Nat /\ n = (n - 2) + 2
        BY <2>3
      <4> QED BY <4>1
    <3>2. PICK t : t = SubSeq(s, m + 1, n)
      OBVIOUS
    <3>3. t \in Seq(Chars) /\ Len(t) = 2 /\ t[1] = s[m + 1] /\ t[2] = s[m + 2]
      <4>1. m \in 0..Len(s) /\ n \in m..Len(s) /\ 1 \in 1..n - m /\ 2 \in 1..n - m
        BY <1>1, <3>1
      <4>2. t \in Seq(Chars) /\ Len(t) = n - m /\ \A l \in 1..n - m : t[l] = s[m + l]
        BY <3>2, <4>1, StretchIs
      <4> QED BY <3>1, <4>1, <4>2
    <3>4. EndsWith(s, CrLf) <=> t = e
      <4>1. n - 2 + 1 = m + 1
        BY <3>1
      <4> QED BY <1>1, <2>1, <2>3, <3>2, <4>1 DEF EndsWith
    <3>5. t = e <=> t[1] = "r" /\ t[2] = "n"
      <4>1. ASSUME t[1] = "r" /\ t[2] = "n" PROVE t = e
        <5>1. Len(t) = Len(e) /\ \A l \in 1..Len(t) : t[l] = e[l]
          BY <2>1, <3>3, <4>1
        <5> QED BY <3>3, <5>1, SameElements
      <4> QED BY <2>1, <4>1
    <3>6. n - 1 = m + 1 /\ n > 1
      BY <3>1
    <3> QED BY <3>1, <3>3, <3>4, <3>5, <3>6
  <2> QED BY <2>2, <2>3
<1>5. "n" \in Chars /\ "r" \in Chars
  BY CharsAre
<1> QED BY <1>1, <1>3, <1>4, <1>5

\* What has no \r at its end, and how it goes on.
Open(eol) == {s \in Seq(Chars) : Alike(s, eol) /\ (s = <<>> \/ s[Len(s)] # "r")}

LEMMA OpenWithLetter ==
  ASSUME NEW eol, NEW s \in Open(eol)
  PROVE  Append(s, "a") \in Open(eol)
<1>1. s \in Seq(Chars) /\ Alike(s, eol) /\ "a" \in Chars
  BY CharsAre DEF Open
<1>2. PICK t \in Seq(Chars) : t = Append(s, "a")
  BY <1>1, AppendIs
<1>3. Len(t) = Len(s) + 1 /\ t[Len(t)] = "a" /\ \A l \in 1..Len(s) : t[l] = s[l]
  BY <1>1, <1>2
<1>4. Alike(t, eol)
  <2> SUFFICES ASSUME NEW i \in 1..Len(t), t[i] = "n" PROVE eol = CrLf <=> i > 1 /\ t[i - 1] = "r"
    BY DEF Alike
  <2>1. i \in 1..Len(s)
    BY <1>1, <1>3
  <2>2. s[i] = "n" /\ (i > 1 => t[i - 1] = s[i - 1])
    BY <1>3, <2>1
  <2> QED BY <1>1, <2>1, <2>2 DEF Alike
<1>5. t[Len(t)] # "r"
  BY <1>3
<1> QED BY <1>2, <1>4, <1>5 DEF Open

LEMMA OpenWithEnd ==
  ASSUME NEW eol \in Eols, NEW s \in Open(eol)
  PROVE  /\ s \o eol \in Open(eol) /\ s \o eol # <<>> /\ Clean(s \o eol, eol)
         /\ EndsWith(s \o eol, eol)
<1>1. s \in Seq(Chars) /\ Alike(s, eol) /\ (s = <<>> \/ s[Len(s)] # "r")
  BY DEF Open
<1>2. PICK e \in Seq(Chars) : /\ e = eol
                              /\ \/ Len(e) = 1 /\ e[1] = "n" /\ e # CrLf /\ eol = <<"n">>
                                 \/ Len(e) = 2 /\ e[1] = "r" /\ e[2] = "n" /\ e = CrLf
  <2>0. "r" \in Chars /\ "n" \in Chars
    BY CharsAre
  <2>1. CASE eol = CrLf
    <3>1. CrLf \in Seq(Chars) /\ Len(CrLf) = 2 /\ CrLf[1] = "r" /\ CrLf[2] = "n"
      BY <2>0 DEF CrLf
    <3> QED BY <2>1, <3>1
  <2>2. CASE eol = <<"n">>
    <3>1. <<"n">> \in Seq(Chars) /\ Len(<<"n">>) = 1 /\ <<"n">>[1] = "n"
      BY <2>0
    <3>2. <<"n">> # CrLf
      BY DEF CrLf
    <3> QED BY <2>2, <3>1, <3>2
  <2> QED BY <2>1, <2>2 DEF Eols
<1>3. PICK t \in Seq(Chars) : t = s \o eol
  BY <1>1, <1>2, ConcatIs
<1>4. PICK n \in Nat, m \in Nat : n = Len(s) /\ m = Len(e) /\ Len(t) = n + m
  BY <1>1, <1>2, <1>3, ConcatIs
<1>5. /\ \A l \in 1..n : t[l] = s[l]
      /\ \A l \in n + 1..n + m : t[l] = e[l - n]
  BY <1>1, <1>2, <1>3, <1>4, ElementOfConcat
<1>6. CASE m = 1 /\ e[1] = "n" /\ eol # CrLf /\ eol = <<"n">>
  <2>1. n + 1 \in n + 1..n + m /\ (n + 1) - n = 1 /\ Len(t) = n + 1
    BY <1>4, <1>6
  <2>2. t[n + 1] = "n"
    BY <1>5, <1>6, <2>1
  <2>3. n > 0 => t[n] # "r"
    <3>1. n > 0 => n \in 1..n /\ s # <<>>
      BY <1>4
    <3> QED BY <1>1, <1>4, <1>5, <3>1
  <2>4. Alike(t, eol)
    <3> SUFFICES ASSUME NEW i \in 1..n + 1, t[i] = "n" PROVE ~(i > 1 /\ t[i - 1] = "r")
      BY <1>6, <2>1 DEF Alike
    <3>1. CASE i = n + 1
      <4>1. i - 1 = n
        BY <3>1
      <4> QED BY <2>3, <3>1, <4>1
    <3>2. CASE i # n + 1
      <4>1. i \in 1..n /\ (i > 1 => i - 1 \in 1..n)
        BY <3>2
      <4>2. s[i] = "n" /\ (i > 1 => t[i - 1] = s[i - 1])
        BY <1>5, <4>1
      <4> QED BY <1>1, <1>4, <1>6, <4>1, <4>2 DEF Alike
    <3> QED BY <3>1, <3>2
  <2>5. t # <<>> /\ t[Len(t)] = "n"
    BY <2>1, <2>2
  <2> QED BY <1>3, <1>6, <2>4, <2>5, EndsWithIs DEF Open, Clean, Terminated
<1>7. CASE m = 2 /\ e[1] = "r" /\ e[2] = "n" /\ eol = CrLf
  <2>1. /\ n + 1 \in n + 1..n + m /\ (n + 1) - n = 1 /\ n + 2 \in n + 1..n + m /\ (n + 2) - n = 2
        /\ Len(t) = n + 2 /\ n + 2 - 1 = n + 1 /\ n + 2 > 1
    BY <1>4, <1>7
  <2>2. t[n + 1] = "r" /\ t[n + 2] = "n"
    BY <1>5, <1>7, <2>1
  <2>4. Alike(t, eol)
    <3> SUFFICES ASSUME NEW i \in 1..n + 2, t[i] = "n" PROVE i > 1 /\ t[i - 1] = "r"
      BY <1>7, <2>1 DEF Alike
    <3>1. CASE i = n + 2
      BY <2>1, <2>2, <3>1
    <3>2. CASE i = n + 1
      BY <2>2, <3>2
    <3>3. CASE i \in 1..n
      <4>2. s[i] = "n"
        BY <1>5, <3>3
      <4>3. i > 1 /\ s[i - 1] = "r"
        BY <1>1, <1>4, <1>7, <3>3, <4>2 DEF Alike
      <4>4. i - 1 \in 1..n
        BY <3>3, <4>3
      <4> QED BY <1>5, <4>3, <4>4
    <3> QED BY <3>1, <3>2, <3>3
  <2>5. t # <<>> /\ t[Len(t)] = "n" /\ Len(t) > 1 /\ t[Len(t) - 1] = "r"
    BY <2>1, <2>2
  <2> QED BY <1>3, <1>7, <2>4, <2>5, EndsWithIs DEF Open, Clean, Terminated
<1> QED BY <1>2, <1>4, <1>6, <1>7

\* What is put in ends as the lines of the file do.
LEMMA NormalisedIs ==
  ASSUME NEW content \in Seq({"a", "n"}), NEW eol \in Eols
  PROVE  /\ Normalised(content, eol) \in Seq(Chars) /\ Normalised(content, eol) # <<>>
         /\ Clean(Normalised(content, eol), eol)
<1>1. PICK n \in Nat : n = Len(content)
  OBVIOUS
<1>2. \A k \in 1..n : content[k] \in {"a", "n"} /\ ~EndsWith(Prefix(content, k), CrLf)
  <2> SUFFICES ASSUME NEW k \in 1..n PROVE content[k] \in {"a", "n"} /\ ~EndsWith(Prefix(content, k), CrLf)
    OBVIOUS
  <2>1. PICK p : p = Prefix(content, k)
    OBVIOUS
  <2>2. p \in Seq({"a", "n"}) /\ content[k] \in {"a", "n"}
    BY <1>1, <2>1 DEF Prefix
  <2>3. p \in Seq(Chars)
    BY <2>2, CharsAre
  <2>4. Len(p) > 1 => p[Len(p) - 1] # "r"
    BY <2>2
  <2> QED BY <2>1, <2>2, <2>3, <2>4, EndsWithIs
<1>3. PICK X : X = Open(eol)
  OBVIOUS
<1>4. <<>> \in X
  BY <1>3 DEF Open, Alike
<1>5. \A x \in X : Append(x, "a") \in X /\ x \o eol \in X
  BY <1>3, OpenWithLetter, OpenWithEnd
<1>6. PICK step : step = [k \in 1..n |-> [x \in X |-> IF content[k] # "n" THEN Append(x, content[k]) ELSE x \o eol]]
  OBVIOUS
<1>7. step \in [1..n -> [X -> X]]
  <2>1. ASSUME NEW k \in 1..n
        PROVE  [x \in X |-> IF content[k] # "n" THEN Append(x, content[k]) ELSE x \o eol] \in [X -> X]
    <3>1. ASSUME NEW x \in X PROVE (IF content[k] # "n" THEN Append(x, content[k]) ELSE x \o eol) \in X
      BY <1>2, <1>5
    <3> QED BY <3>1
  <2> QED BY <1>6, <2>1
<1> DEFINE next(f, k) == IF content[k] # "n" THEN Append(f[k - 1], content[k])
                         ELSE (IF EndsWith(Prefix(content, k), CrLf) THEN Front(f[k - 1]) ELSE f[k - 1]) \o eol
           eqn(f) == f = [k \in 0..n |-> IF k = 0 THEN <<>> ELSE next(f, k)]
<1>8. PICK f : Recurs(f, X, <<>>, n, step)
  BY <1>4, <1>7, RecursionExists
<1>9. f = [k \in 0..n |-> f[k]] /\ \A k \in 0..n : f[k] \in X /\ f[k] = IF k = 0 THEN <<>> ELSE step[k][f[k - 1]]
  BY <1>8 DEF Recurs
<1>10. \A k \in 0..n : f[k] = IF k = 0 THEN <<>> ELSE next(f, k)
  <2> SUFFICES ASSUME NEW k \in 0..n PROVE f[k] = IF k = 0 THEN <<>> ELSE next(f, k)
    OBVIOUS
  <2>1. CASE k = 0
    BY <1>9, <2>1
  <2>2. CASE k # 0
    <3>1. k \in 1..n /\ k - 1 \in 0..n
      BY <2>2
    <3>2. f[k - 1] \in X /\ f[k] = step[k][f[k - 1]]
      BY <1>9, <2>2, <3>1
    <3>3. f[k] = IF content[k] # "n" THEN Append(f[k - 1], content[k]) ELSE f[k - 1] \o eol
      BY <1>6, <3>1, <3>2
    <3> QED BY <1>2, <2>2, <3>1, <3>3
  <2> QED BY <2>1, <2>2
<1>11. eqn(f)
  <2> HIDE DEF next
  <2> QED BY <1>9, <1>10
<1>12. PICK g : g = (CHOOSE h : eqn(h)) /\ eqn(g)
  <2> HIDE DEF eqn
  <2> QED BY <1>11
<1>13. g[0] = <<>> /\ \A k \in 1..n : g[k] = IF content[k] # "n" THEN Append(g[k - 1], content[k]) ELSE g[k - 1] \o eol
  <2>1. PICK h : h = g
    OBVIOUS
  <2>0. g = [k \in 0..n |-> IF k = 0 THEN <<>> ELSE next(g, k)]
    BY <1>12, Zenon
  <2>2. g = [k \in 0..n |-> IF k = 0 THEN <<>> ELSE next(h, k)]
    <3> HIDE DEF next
    <3>1. \A k \in 0..n : next(g, k) = next(h, k)
      BY <2>1
    <3> QED BY <2>0, <3>1
  <2>3. \A k \in 0..n : g[k] = IF k = 0 THEN <<>> ELSE next(h, k)
    <3> HIDE DEF next
    <3> QED BY <2>2
  <2>4. ASSUME NEW k \in 1..n PROVE g[k] = IF content[k] # "n" THEN Append(g[k - 1], content[k]) ELSE g[k - 1] \o eol
    <3>1. k \in 0..n /\ k # 0
      OBVIOUS
    <3>2. g[k] = next(h, k)
      BY <2>3, <3>1
    <3> QED BY <1>2, <2>1, <3>2
  <2>5. g[0] = <<>>
    BY <2>3
  <2> QED BY <2>4, <2>5
<1>14. g[n] \in X
  <2> DEFINE Good == {k \in 0..n : g[k] \in X}
  <2>1. 0 \in Good
    BY <1>4, <1>13
  <2>2. \A k \in 1..n : k - 1 \in Good => k \in Good
    <3> SUFFICES ASSUME NEW k \in 1..n, k - 1 \in Good PROVE k \in Good
      OBVIOUS
    <3>1. g[k] = IF content[k] # "n" THEN Append(g[k - 1], content[k]) ELSE g[k - 1] \o eol
      BY <1>13
    <3> QED BY <1>2, <1>5, <3>1
  <2>3. n \in Good
    <3> HIDE DEF Good
    <3> QED BY <2>1, <2>2, Reaches
  <2> QED BY <2>3
<1>15. PICK out : out = g[n]
  OBVIOUS
<1>16. Normalised(content, eol) = IF EndsWith(out, eol) THEN out ELSE out \o eol
  <2>1. Normalised(content, eol) = LET u == (CHOOSE h : eqn(h))[n] IN IF EndsWith(u, eol) THEN u ELSE u \o eol
    BY <1>1 DEF Normalised
  <2> HIDE DEF eqn
  <2> QED BY <1>12, <1>15, <2>1
<1>17. out \in Open(eol)
  BY <1>3, <1>14, <1>15
<1>18. CASE EndsWith(out, eol)
  <2>1. out \in Seq(Chars) /\ Alike(out, eol)
    BY <1>17 DEF Open
  <2>2. out # <<>> /\ out[Len(out)] = "n"
    <3>1. EndsWith(out, CrLf) \/ EndsWith(out, <<"n">>)
      BY <1>18 DEF Eols
    <3>2. Len(out) > 1 => out # <<>>
      OBVIOUS
    <3> QED BY <2>1, <3>1, <3>2, EndsWithIs
  <2> QED BY <1>16, <1>18, <2>1, <2>2 DEF Clean, Terminated
<1>19. CASE ~EndsWith(out, eol)
  BY <1>16, <1>17, <1>19, OpenWithEnd DEF Open
<1> QED BY <1>18, <1>19

\* How a line ends.
LEMMA EndOfLine ==
  ASSUME NEW s \in Seq(Chars), NEW l \in 1..Len(Stops(s)), NEW e, e = Stops(s)[l]
  PROVE  /\ EndsWith(LinesOf(s)[l], <<"n">>) <=> s[e] = "n"
         /\ EndsWith(LinesOf(s)[l], CrLf) <=> s[e] = "n" /\ e > 1 /\ s[e - 1] = "r"
<1>1. PICK b : b = StopBefore(s, l)
  OBVIOUS
<1>2. b \in 0..e - 1 /\ e \in 1..Len(s) /\ (b = 0 \/ s[b] = "n")
  BY <1>1, StopsAre
<1>3. PICK t : t = LinesOf(s)[l]
  OBVIOUS
<1>4. t = SubSeq(s, b + 1, e)
  BY <1>1, <1>3, LinesAre
<1>5. b \in 0..Len(s) /\ e \in b..Len(s) /\ e - b \in Nat \ {0}
  BY <1>2
<1>6. t \in Seq(Chars) /\ Len(t) = e - b /\ \A i \in 1..e - b : t[i] = s[b + i]
  BY <1>4, <1>5, StretchIs
<1>7. t # <<>> /\ t[Len(t)] = s[e]
  <2>1. e - b \in 1..e - b /\ b + (e - b) = e
    BY <1>2
  <2> QED BY <1>6, <2>1
<1>8. Len(t) > 1 /\ t[Len(t) - 1] = "r" <=> e > 1 /\ s[e - 1] = "r"
  <2>1. CASE e - b = 1
    <3>1. e - 1 = b /\ ~(Len(t) > 1)
      BY <1>2, <1>6, <2>1
    <3>2. b = 0 => ~(e > 1)
      BY <3>1, <1>2
    <3> QED BY <1>2, <3>1, <3>2
  <2>2. CASE e - b # 1
    <3>1. e - b - 1 \in 1..e - b /\ b + (e - b - 1) = e - 1 /\ e > 1 /\ e - b > 1
      BY <1>2, <2>2
    <3> QED BY <1>6, <3>1
  <2> QED BY <2>1, <2>2
<1> QED BY <1>3, <1>6, <1>7, <1>8, EndsWithIs

LEMMA PureIs ==
  ASSUME NEW s \in Seq(Chars), NEW eol \in Eols
  PROVE  Pure(s, eol) <=> Clean(s, eol)
<1>1. PICK m \in Nat : m = Len(Stops(s)) /\ m = Len(LinesOf(s))
  BY StopsAre, LinesAre
<1> DEFINE Returned(e) == e > 1 /\ s[e - 1] = "r"
           Good(e) == s[e] = "n" /\ (eol = CrLf <=> Returned(e))
<1>2. eol = CrLf \/ eol = <<"n">>
  BY DEF Eols
<1>0. <<"n">> # CrLf
  BY DEF CrLf
<1>3. ASSUME NEW l \in 1..m
      PROVE  EndsWith(LinesOf(s)[l], eol) /\ (eol = CrLf \/ ~EndsWith(LinesOf(s)[l], CrLf)) <=> Good(Stops(s)[l])
  <2>1. PICK e : e = Stops(s)[l]
    OBVIOUS
  <2>2. /\ EndsWith(LinesOf(s)[l], <<"n">>) <=> s[e] = "n"
        /\ EndsWith(LinesOf(s)[l], CrLf) <=> s[e] = "n" /\ Returned(e)
    BY <1>1, <2>1, EndOfLine, ZenonT(40)
  <2> HIDE DEF Returned
  <2> QED BY <1>0, <1>2, <2>1, <2>2
<1>4. Pure(s, eol) <=> \A l \in 1..m : Good(Stops(s)[l])
  <2> HIDE DEF Good
  <2>1. LinesOf(s) \in Seq(Seq(Chars))
    BY LinesAre
  <2>2. ToSet(LinesOf(s)) = {LinesOf(s)[l] : l \in 1..m}
    <3>1. DOMAIN LinesOf(s) = 1..m
      BY <1>1, <2>1
    <3> QED BY <3>1 DEF ToSet
  <2> QED BY <1>3, <2>2 DEF Pure
<1>5. ASSUME \A l \in 1..m : Good(Stops(s)[l]) PROVE Clean(s, eol)
  <2>1. Terminated(s)
    <3>1. CASE s = <<>>
      BY <3>1 DEF Terminated
    <3>2. CASE s # <<>>
      <4>1. m \in 1..m /\ Stops(s)[m] = Len(s)
        <5>1. Len(Stops(s)) # 0 /\ Stops(s)[Len(Stops(s))] = Len(s)
          BY <3>2, StopsAre
        <5> QED BY <1>1, <5>1
      <4> QED BY <1>5, <4>1 DEF Terminated
    <3> QED BY <3>1, <3>2
  <2>2. ASSUME NEW i \in 1..Len(s), s[i] = "n" PROVE eol = CrLf <=> Returned(i)
    <3>1. i \in LineSet(s)
      BY <2>2 DEF LineSet
    <3>2. PICK r : r = Rank(LineSet(s), i)
      OBVIOUS
    <3>3. r \in 1..m /\ Stops(s)[r] = i
      BY <1>1, <3>1, <3>2, StopsAre
    <3> QED BY <1>5, <3>3
  <2> QED BY <2>1, <2>2 DEF Clean, Alike
<1>6. ASSUME Clean(s, eol), NEW l \in 1..m PROVE Good(Stops(s)[l])
  <2>1. PICK e : e = Stops(s)[l]
    OBVIOUS
  <2>2. e \in 1..Len(s) /\ e \in LineSet(s)
    BY <1>1, <2>1, StopsAre
  <2>3. s[e] = "n"
    <3>1. s # <<>>
      BY <2>2
    <3> QED BY <1>6, <2>2, <3>1 DEF Clean, Terminated, LineSet
  <2> QED BY <1>6, <2>1, <2>2, <2>3 DEF Clean, Alike
<1> HIDE DEF Good
<1> QED BY <1>4, <1>5, <1>6

\* The ends a text has, most of the time.
LEMMA EolIs ==
  ASSUME NEW doc \in Seq(Chars), NEW eol \in Eols
  PROVE  /\ Eol(doc) \in Eols
         /\ doc # <<>> /\ Clean(doc, eol) => Eol(doc) = eol
<1>1. Eol(doc) \in Eols
  BY DEF Eol, Eols
<1>2. ASSUME doc # <<>>, Clean(doc, eol) PROVE Eol(doc) = eol
  <2>1. PICK n \in Nat : n = Len(doc) /\ n # 0
    BY <1>2
  <2>2. PICK lf : lf = Breaks(doc, Len(doc))
    OBVIOUS
  <2>3. PICK crlf : crlf = {i \in lf : EndsWith(Prefix(doc, i), CrLf)}
    OBVIOUS
  <2>4. \A i \in lf : i \in 1..n /\ doc[i] = "n"
    BY <2>1, <2>2 DEF Breaks
  <2>5. ASSUME NEW i \in lf PROVE i \in crlf <=> eol = CrLf
    <3>1. i \in 1..n /\ doc[i] = "n" /\ (eol = CrLf <=> i > 1 /\ doc[i - 1] = "r")
      BY <1>2, <2>1, <2>4 DEF Clean, Alike
    <3>2. PICK p \in Seq(Chars) : p = Prefix(doc, i) /\ Len(p) = i /\ \A l \in 1..i : p[l] = doc[l]
      <4>1. i \in 0..Len(doc) /\ \A l \in 1..i : l \in 1..Len(doc)
        BY <2>1, <3>1
      <4>2. SubSeq(doc, 1, i) \in Seq(Chars) /\ Len(SubSeq(doc, 1, i)) = i
        BY <4>1, TwoParts
      <4>3. \A l \in 1..i : SubSeq(doc, 1, i)[l] = doc[l]
        BY <4>1, TwoParts
      <4> QED BY <4>2, <4>3 DEF Prefix
    <3>3. EndsWith(p, CrLf) <=> i > 1 /\ p[i - 1] = "r" /\ p[i] = "n"
      BY <3>2, EndsWithIs
    <3>4. i \in 1..i /\ (i > 1 => i - 1 \in 1..i)
      BY <3>1
    <3> QED BY <2>3, <3>1, <3>2, <3>3, <3>4
  <2>6. n \in lf /\ lf # {}
    BY <1>2, <2>1, <2>2 DEF Breaks, Clean, Terminated
  <2>7. IsFiniteSet(lf)
    <3>1. IsFiniteSet(1..n)
      BY FS_Interval
    <3>2. lf \subseteq 1..n
      BY <2>4
    <3> QED BY <3>1, <3>2, FS_Subset
  <2>8. PICK c \in Nat : c = Cardinality(lf) /\ c # 0
    BY <2>6, <2>7, FS_CardinalityType, FS_EmptySet
  <2>9. Eol(doc) = IF Cardinality(crlf) * 2 > Cardinality(lf) THEN CrLf ELSE <<"n">>
    BY <2>2, <2>3 DEF Eol
  <2>10. CASE eol = CrLf
    <3>1. crlf = lf
      BY <2>3, <2>5, <2>10
    <3>2. c * 2 > c
      BY <2>8
    <3> QED BY <2>8, <2>9, <2>10, <3>1, <3>2
  <2>11. CASE eol = <<"n">> /\ eol # CrLf
    <3>1. crlf = {}
      BY <2>3, <2>5, <2>11
    <3>2. Cardinality(crlf) = 0
      BY <3>1, FS_EmptySet
    <3>3. ~(0 * 2 > c)
      BY <2>8
    <3> QED BY <2>8, <2>9, <2>11, <3>2, <3>3
  <2> QED BY <2>10, <2>11 DEF Eols
<1> QED BY <1>1, <1>2

LEMMA CleanJoins ==
  ASSUME NEW p \in Seq(Chars), NEW c \in Seq(Chars), NEW eol, Clean(p, eol), Clean(c, eol)
  PROVE  Clean(p \o c, eol) /\ p \o c \in Seq(Chars)
<1>1. PICK q \in Seq(Chars) : q = p \o c
  BY ConcatIs
<1>2. PICK a \in Nat, b \in Nat : a = Len(p) /\ b = Len(c) /\ Len(q) = a + b
  BY <1>1, ConcatIs
<1>3. /\ \A l \in 1..a : q[l] = p[l]
      /\ \A l \in a + 1..a + b : q[l] = c[l - a]
  BY <1>1, <1>2, ElementOfConcat
<1>4. (a = 0 \/ p[a] = "n") /\ (b = 0 \/ c[b] = "n")
  BY <1>2 DEF Clean, Terminated
<1>5. Terminated(q)
  <2>1. CASE b # 0
    <3>1. a + b \in a + 1..a + b /\ (a + b) - a = b
      BY <2>1
    <3> QED BY <1>2, <1>3, <1>4, <2>1, <3>1 DEF Terminated
  <2>2. CASE b = 0 /\ a # 0
    <3>1. a \in 1..a /\ a + b = a
      BY <2>2
    <3> QED BY <1>2, <1>3, <1>4, <2>2, <3>1 DEF Terminated
  <2>3. CASE b = 0 /\ a = 0
    BY <1>2, <2>3 DEF Terminated
  <2> QED BY <2>1, <2>2, <2>3
<1>6. ASSUME NEW i \in 1..a + b, q[i] = "n" PROVE eol = CrLf <=> i > 1 /\ q[i - 1] = "r"
  <2>1. CASE i \in 1..a
    <3>1. p[i] = "n" /\ (i > 1 => i - 1 \in 1..a)
      BY <1>3, <1>6, <2>1
    <3>2. i > 1 => q[i - 1] = p[i - 1]
      BY <1>3, <3>1
    <3>3. eol = CrLf <=> i > 1 /\ p[i - 1] = "r"
      BY <1>2, <2>1, <3>1 DEF Clean, Alike
    <3> QED BY <3>2, <3>3
  <2>2. CASE i \in a + 1..a + b
    <3>1. PICK j \in 1..b : i = a + j /\ i - a = j
      <4>1. i - a \in 1..b /\ i = a + (i - a)
        BY <2>2
      <4> QED BY <4>1
    <3>2. c[j] = "n"
      BY <1>3, <1>6, <2>2, <3>1
    <3>3. eol = CrLf <=> j > 1 /\ c[j - 1] = "r"
      BY <1>2, <3>2 DEF Clean, Alike
    <3>4. CASE j > 1
      <4>1. i - 1 \in a + 1..a + b /\ (i - 1) - a = j - 1 /\ i > 1
        BY <3>1, <3>4
      <4>2. q[i - 1] = c[j - 1]
        BY <1>3, <4>1
      <4> QED BY <3>3, <3>4, <4>1, <4>2
    <3>5. CASE j = 1
      <4>1. i - 1 = a /\ (a = 0 => ~(i > 1)) /\ (a # 0 => a \in 1..a)
        BY <3>1, <3>5
      <4>2. a # 0 => q[i - 1] = "n"
        BY <1>3, <1>4, <4>1
      <4> QED BY <3>3, <3>5, <4>1, <4>2
    <3> QED BY <3>4, <3>5
  <2> QED BY <2>1, <2>2
<1>7. Alike(q, eol)
  BY <1>2, <1>6 DEF Alike
<1> QED BY <1>1, <1>5, <1>7 DEF Clean

LEMMA CleanCut ==
  ASSUME NEW doc \in Seq(Chars), NEW p \in 0..Len(doc), NEW eol,
         Clean(doc, eol), Terminated(Prefix(doc, p))
  PROVE  Clean(Prefix(doc, p), eol) /\ Clean(SubSeq(doc, p + 1, Len(doc)), eol)
<1>1. PICK d \in Nat : d = Len(doc) /\ p \in 0..d
  OBVIOUS
<1>2. PICK s : s = Prefix(doc, p)
  OBVIOUS
<1>3. PICK t : t = SubSeq(doc, p + 1, Len(doc))
  OBVIOUS
<1>4. s \in Seq(Chars) /\ Len(s) = p /\ \A l \in 1..p : s[l] = doc[l]
  BY <1>2, TwoParts DEF Prefix
<1>5. t \in Seq(Chars) /\ Len(t) = d - p /\ \A l \in 1..d - p : t[l] = doc[p + l]
  BY <1>1, <1>3, TwoParts
<1>6. p = 0 \/ doc[p] = "n"
  <2>1. p # 0 => p \in 1..p /\ s # <<>>
    BY <1>4
  <2> QED BY <1>2, <1>4, <2>1 DEF Terminated
<1>7. ASSUME NEW i \in 1..d, doc[i] = "n" PROVE eol = CrLf <=> i > 1 /\ doc[i - 1] = "r"
  BY <1>1, <1>7 DEF Clean, Alike
<1>8. Alike(s, eol)
  <2> SUFFICES ASSUME NEW i \in 1..p, s[i] = "n" PROVE eol = CrLf <=> i > 1 /\ s[i - 1] = "r"
    BY <1>4 DEF Alike
  <2>1. doc[i] = "n" /\ (i > 1 => i - 1 \in 1..p) /\ i \in 1..d
    BY <1>1, <1>4
  <2>2. i > 1 => s[i - 1] = doc[i - 1]
    BY <1>4, <2>1
  <2> QED BY <1>7, <2>1, <2>2
<1>9. Alike(t, eol)
  <2> SUFFICES ASSUME NEW i \in 1..d - p, t[i] = "n" PROVE eol = CrLf <=> i > 1 /\ t[i - 1] = "r"
    BY <1>5 DEF Alike
  <2>1. p + i \in 1..d /\ doc[p + i] = "n"
    BY <1>1, <1>5
  <2>2. eol = CrLf <=> p + i > 1 /\ doc[p + i - 1] = "r"
    BY <1>7, <2>1
  <2>3. CASE i > 1
    <3>1. i - 1 \in 1..d - p /\ p + (i - 1) = p + i - 1 /\ p + i > 1
      BY <1>1, <2>3
    <3>2. t[i - 1] = doc[p + i - 1]
      BY <1>5, <3>1
    <3> QED BY <2>2, <2>3, <3>1, <3>2
  <2>4. CASE i = 1
    <3>1. p + i - 1 = p /\ (p = 0 => ~(p + i > 1))
      BY <1>1, <2>4
    <3> QED BY <1>6, <2>2, <2>4, <3>1
  <2> QED BY <2>3, <2>4
<1>10. Terminated(t)
  <2>1. CASE d = p
    <3>1. Len(t) = 0
      BY <1>1, <1>5, <2>1
    <3> QED BY <1>5, <3>1 DEF Terminated
  <2>2. CASE d # p
    <3>1. d - p \in 1..d - p /\ p + (d - p) = d /\ d # 0
      BY <1>1, <2>2
    <3>2. doc[d] = "n"
      BY <1>1, <3>1 DEF Clean, Terminated
    <3> QED BY <1>5, <3>1, <3>2 DEF Terminated
  <2> QED BY <2>1, <2>2
<1> QED BY <1>2, <1>3, <1>8, <1>9, <1>10 DEF Clean

-----------------------------------------------------------------------------
(* Edits by lines.                                                         *)

\* What is put in between two lines, or takes the place of those between.
Splice(doc, i, new, j) ==
    Prefix(doc, LineStarts(doc)[i + 1]) \o new \o SubSeq(doc, LineStarts(doc)[j + 1] + 1, Len(doc))

LinesAround(doc, i, new, j) ==
    SubSeq(LinesOf(doc), 1, i) \o LinesOf(new) \o SubSeq(LinesOf(doc), j + 1, Len(LinesOf(doc)))

LEMMA SpliceIs ==
  ASSUME NEW doc \in Seq(Chars), NEW i \in 0..Len(LinesOf(doc)), NEW j \in i..Len(LinesOf(doc)),
         Terminated(Prefix(doc, LineStarts(doc)[i + 1])), NEW new \in Seq(Chars), Terminated(new)
  PROVE  /\ Splice(doc, i, new, j) \in Seq(Chars)
         /\ LinesOf(Splice(doc, i, new, j)) = LinesAround(doc, i, new, j)
         /\ \A eol : Clean(doc, eol) /\ Clean(new, eol) => Clean(Splice(doc, i, new, j), eol)
<1>1. PICK m \in Nat : m = Len(LinesOf(doc))
  BY LinesAre, StopsAre
<1>2. i \in 0..m /\ j \in i..m /\ j \in 0..m
  BY <1>1
<1>3. PICK a, b : a = LineStarts(doc)[i + 1] /\ b = LineStarts(doc)[j + 1]
  OBVIOUS
<1>4. a \in 0..Len(doc) /\ LinesOf(Prefix(doc, a)) = SubSeq(LinesOf(doc), 1, i)
  BY <1>1, <1>2, <1>3, CutIs
<1>5. /\ b \in 0..Len(doc)
      /\ LinesOf(SubSeq(doc, b + 1, Len(doc))) = SubSeq(LinesOf(doc), j + 1, Len(LinesOf(doc)))
      /\ j < m => Terminated(Prefix(doc, b))
      /\ j = m => b = Len(doc)
  BY <1>1, <1>2, <1>3, CutIs
<1>6. PICK p \in Seq(Chars) : p = Prefix(doc, a) /\ Terminated(p)
  BY <1>3, <1>4, TwoParts DEF Prefix
<1>7. PICK r \in Seq(Chars) : r = SubSeq(doc, b + 1, Len(doc))
  BY <1>5, TwoParts
<1>8. PICK y \in Seq(Chars) : y = new \o r
  BY ConcatIs
<1>9. Splice(doc, i, new, j) = p \o new \o r
  BY <1>3, <1>6, <1>7 DEF Splice
<1>10. Splice(doc, i, new, j) = p \o y /\ p \o y \in Seq(Chars)
  <2>0. Three(p, new, r) = ThreeFromBehind(p, new, r)
    BY ThreeInOne
  <2>1. (p \o new) \o r = p \o (new \o r)
    BY <2>0 DEF Three, ThreeFromBehind
  <2> QED BY <1>8, <1>9, <2>1, ConcatIs
<1>11. PICK u \in Seq(Seq(Chars)), v \in Seq(Seq(Chars)), w \in Seq(Seq(Chars)) :
         u = LinesOf(p) /\ v = LinesOf(new) /\ w = LinesOf(r)
  BY LinesAre
<1>12. LinesOf(p \o y) = u \o (v \o w)
  <2>1. LinesOf(p \o y) = u \o LinesOf(y)
    BY <1>6, <1>11, LinesJoin
  <2>2. LinesOf(y) = v \o w
    BY <1>8, <1>11, LinesJoin
  <2> QED BY <2>1, <2>2
<1>13. (u \o v) \o w = u \o (v \o w)
  <2>1. Three(u, v, w) = ThreeFromBehind(u, v, w)
    BY ThreeInOne
  <2> QED BY <2>1 DEF Three, ThreeFromBehind
<1>14. LinesAround(doc, i, new, j) = (u \o v) \o w
  BY <1>4, <1>5, <1>6, <1>7, <1>11 DEF LinesAround
<1>15. ASSUME NEW eol, Clean(doc, eol), Clean(new, eol) PROVE Clean(p \o y, eol)
  <2>1. Clean(p, eol)
    BY <1>4, <1>6, <1>15, CleanCut
  <2>2. Terminated(Prefix(doc, b))
    <3>1. CASE j < m
      BY <1>5, <3>1
    <3>2. CASE j = m
      <4>1. SubSeq(doc, 1, Len(doc)) = doc
        OBVIOUS
      <4> QED BY <1>5, <1>15, <3>2, <4>1 DEF Prefix, Clean
    <3> QED BY <1>2, <3>1, <3>2
  <2>3. Clean(r, eol)
    BY <1>5, <1>7, <1>15, <2>2, CleanCut
  <2>4. Clean(y, eol)
    BY <1>8, <1>15, <2>3, CleanJoins
  <2> QED BY <2>1, <2>4, CleanJoins
<1> QED BY <1>10, <1>12, <1>13, <1>14, <1>15

\* Where an edit that puts lines in ends.
LEMMA EndLineColIs ==
  ASSUME NEW p \in Seq(Chars), NEW r \in Seq(Chars), Terminated(p), p # <<>>
  PROVE  EndLineCol(p \o r, Len(p)) = [line |-> Len(LinesOf(p)) + 1, col |-> 1]
<1>1. PICK q \in Seq(Chars) : q = p \o r
  BY ConcatIs
<1>2. PICK k \in Nat : k = Len(p) /\ k # 0 /\ Len(q) = k + Len(r)
  BY <1>1, ConcatIs
<1>3. \A l \in 1..k : q[l] = p[l]
  BY <1>1, <1>2, ElementOfConcat
<1>4. p[k] = "n"
  BY <1>2 DEF Terminated
<1>5. Breaks(q, k) = LineSet(p)
  BY <1>2, <1>3, <1>4 DEF Breaks, LineSet
<1>6. Cardinality(Breaks(q, k)) = Len(LinesOf(p)) /\ Len(LinesOf(p)) \in Nat
  BY <1>5, LinesAre, StopsAre
<1>7. LineBegin(q, LineNo(q, k)) = k
  <2>1. /\ k \in 0..Len(q) /\ k \in 0..k /\ q[k] = "n"
        /\ \A i \in k + 1..k : q[i] # "n"
    BY <1>2, <1>3, <1>4
  <2> QED BY <2>1, LineBeginIs
<1>8. EndLineCol(q, k) = [line |-> Cardinality(Breaks(q, k)) + 1, col |-> k - LineBegin(q, LineNo(q, k)) + 1]
  BY DEF EndLineCol, LineNo
<1>9. k - k + 1 = 1
  BY <1>2
<1> QED BY <1>1, <1>2, <1>6, <1>7, <1>8, <1>9

KeepsEnds(doc, out) == \A eol \in Eols : doc # <<>> /\ Pure(doc, eol) => Pure(out, eol)

LEMMA NewLinesAre ==
  ASSUME NEW doc \in Seq(Chars), NEW content \in Seq({"a", "n"}), NEW new, new = Normalised(content, Eol(doc)),
         NEW i \in 0..Len(LinesOf(doc)), NEW j \in i..Len(LinesOf(doc)),
         Terminated(Prefix(doc, LineStarts(doc)[i + 1]))
  PROVE  /\ new \in Seq(Chars) /\ new # <<>> /\ Terminated(new)
         /\ Splice(doc, i, new, j) \in Seq(Chars)
         /\ LinesOf(Splice(doc, i, new, j)) = LinesAround(doc, i, new, j)
         /\ KeepsEnds(doc, Splice(doc, i, new, j))
<1>1. PICK e \in Eols : e = Eol(doc)
  BY EolIs DEF Eols
<1>2. new \in Seq(Chars) /\ new # <<>> /\ Clean(new, e)
  BY <1>1, NormalisedIs
<1>3. Terminated(new)
  BY <1>2 DEF Clean
<1>4. PICK out : out = Splice(doc, i, new, j)
  OBVIOUS
<1>5. /\ out \in Seq(Chars) /\ LinesOf(out) = LinesAround(doc, i, new, j)
      /\ \A eol : Clean(doc, eol) /\ Clean(new, eol) => Clean(out, eol)
  BY <1>2, <1>3, <1>4, SpliceIs
<1>6. ASSUME NEW eol \in Eols, doc # <<>>, Pure(doc, eol) PROVE Pure(out, eol)
  <2>1. Clean(doc, eol)
    BY <1>6, PureIs
  <2>2. e = eol
    BY <1>1, <1>6, <2>1, EolIs
  <2>3. Clean(out, eol)
    BY <1>2, <1>5, <2>1, <2>2
  <2> QED BY <1>5, <2>3, PureIs
<1> QED BY <1>2, <1>3, <1>4, <1>5, <1>6 DEF KeepsEnds

LEMMA InsertAtLineIs ==
  ASSUME NEW doc \in Seq(Chars), NEW content \in Seq({"a", "n"}), NEW new, new = Normalised(content, Eol(doc)),
         NEW n \in 1..Len(LinesOf(doc)) + 1, n <= Len(LinesOf(doc)) \/ doc = <<>> \/ doc[Len(doc)] = "n"
  PROVE  /\ LinesOf(InsertAtLine(doc, n, content).text) = LinesAround(doc, n - 1, new, n - 1)
         /\ InsertAtLine(doc, n, content).end = [line |-> n + Len(LinesOf(new)), col |-> 1]
         /\ KeepsEnds(doc, InsertAtLine(doc, n, content).text)
<1>1. PICK m \in Nat : m = Len(LinesOf(doc)) /\ m = Total(doc)
  BY LinesAre, StopsAre, StartsAre
<1>2. PICK i \in 0..m : i = n - 1 /\ n = i + 1
  <2>1. n - 1 \in 0..m /\ n = (n - 1) + 1
    BY <1>1
  <2> QED BY <2>1
<1>3. PICK at : at = LineStarts(doc)[n]
  OBVIOUS
<1>4. /\ at \in 0..Len(doc) /\ LinesOf(Prefix(doc, at)) = SubSeq(LinesOf(doc), 1, i)
      /\ i < m => Terminated(Prefix(doc, at))
      /\ i = m => at = Len(doc)
  <2>1. i \in 0..Len(LinesOf(doc)) /\ at = LineStarts(doc)[i + 1]
    BY <1>1, <1>2, <1>3
  <2>2. /\ at \in 0..Len(doc) /\ LinesOf(Prefix(doc, at)) = SubSeq(LinesOf(doc), 1, i)
        /\ i < Len(LinesOf(doc)) => Terminated(Prefix(doc, at))
        /\ i = Len(LinesOf(doc)) => at = Len(doc)
    BY <2>1, CutIs
  <2> QED BY <1>1, <2>2
<1>5. Terminated(Prefix(doc, at))
  <2>1. CASE i = m
    <3>1. SubSeq(doc, 1, Len(doc)) = doc
      OBVIOUS
    <3>2. doc = <<>> \/ doc[Len(doc)] = "n"
      BY <1>1, <1>2, <2>1
    <3> QED BY <1>4, <2>1, <3>1, <3>2 DEF Prefix, Terminated
  <2> QED BY <1>2, <1>4, <2>1
<1>6. PICK out : out = Splice(doc, i, new, i)
  OBVIOUS
<1>7. /\ new \in Seq(Chars) /\ new # <<>> /\ Terminated(new)
      /\ LinesOf(out) = LinesAround(doc, i, new, i) /\ KeepsEnds(doc, out)
  <2>1. i \in 0..Len(LinesOf(doc)) /\ i \in i..Len(LinesOf(doc)) /\ Terminated(Prefix(doc, LineStarts(doc)[i + 1]))
    BY <1>1, <1>2, <1>3, <1>5
  <2> QED BY <1>6, <2>1, NewLinesAre
<1>8. InsertAtLine(doc, n, content) = [text |-> out, end |-> EndLineCol(out, at + Len(new))]
  <2>1. ~(n = 0 \/ n > Total(doc) + 1)
    BY <1>1, <1>2
  <2>2. out = Prefix(doc, at) \o new \o SubSeq(doc, at + 1, Len(doc))
    BY <1>2, <1>3, <1>6 DEF Splice
  <2> QED BY <1>3, <2>1, <2>2 DEF InsertAtLine
<1>9. PICK a \in Seq(Chars) : a = Prefix(doc, at) /\ Len(a) = at /\ Terminated(a) /\ LinesOf(a) = SubSeq(LinesOf(doc), 1, i)
  <2>1. SubSeq(doc, 1, at) \in Seq(Chars) /\ Len(SubSeq(doc, 1, at)) = at
    BY <1>4, TwoParts
  <2> QED BY <1>4, <1>5, <2>1 DEF Prefix
<1>10. PICK r \in Seq(Chars) : r = SubSeq(doc, at + 1, Len(doc))
  BY <1>4, TwoParts
<1>11. PICK p \in Seq(Chars) : p = a \o new
  BY <1>7, ConcatIs
<1>12. out = p \o r /\ Len(p) = at + Len(new)
  <2>1. Len(p) = at + Len(new)
    BY <1>7, <1>9, <1>11, ConcatIs
  <2> QED BY <1>2, <1>3, <1>6, <1>9, <1>10, <1>11, <2>1 DEF Splice
<1>13. Terminated(p) /\ p # <<>>
  <2>1. PICK k \in Nat, l \in Nat : k = Len(a) /\ l = Len(new) /\ l # 0 /\ Len(p) = k + l
    BY <1>7, <1>9, <1>11, ConcatIs
  <2>2. new[l] = "n"
    BY <1>7, <2>1 DEF Terminated
  <2>3. k + l \in k + 1..k + l /\ (k + l) - k = l /\ k + l # 0
    BY <2>1
  <2>4. p[k + l] = new[(k + l) - k]
    BY <1>7, <1>11, <2>1, <2>3, ElementOfConcat
  <2> QED BY <2>1, <2>2, <2>3, <2>4 DEF Terminated
<1>14. EndLineCol(out, at + Len(new)) = [line |-> Len(LinesOf(p)) + 1, col |-> 1]
  BY <1>12, <1>13, EndLineColIs
<1>15. Len(LinesOf(p)) = i + Len(LinesOf(new)) /\ Len(LinesOf(new)) \in Nat
  <2>1. LinesOf(p) = LinesOf(a) \o LinesOf(new)
    BY <1>7, <1>9, <1>11, LinesJoin
  <2>2. PICK u \in Seq(Seq(Chars)), v \in Seq(Seq(Chars)) : u = LinesOf(a) /\ v = LinesOf(new)
    BY <1>7, LinesAre
  <2>3. Len(u) = i
    <3>1. LinesOf(doc) \in Seq(Seq(Chars)) /\ i \in 0..Len(LinesOf(doc))
      BY <1>1, LinesAre
    <3> QED BY <1>9, <2>2, <3>1, TwoParts
  <2>4. Len(u \o v) = Len(u) + Len(v)
    BY ConcatIs
  <2> QED BY <2>1, <2>2, <2>3, <2>4
<1>16. Len(LinesOf(p)) + 1 = n + Len(LinesOf(new))
  BY <1>2, <1>15
<1> QED BY <1>2, <1>7, <1>8, <1>14, <1>16

LEMMA SplicedIs ==
  ASSUME NEW doc \in Seq(Chars), NEW i \in 1..Len(LinesOf(doc)), NEW j \in i..Len(LinesOf(doc)), NEW new
  PROVE  /\ Spliced(doc, i, j, new) = Splice(doc, i - 1, new, j)
         /\ i - 1 \in 0..Len(LinesOf(doc)) /\ j \in i - 1..Len(LinesOf(doc))
         /\ Terminated(Prefix(doc, LineStarts(doc)[(i - 1) + 1]))
<1>1. PICK m \in Nat : m = Len(LinesOf(doc)) /\ m = Total(doc)
  BY LinesAre, StopsAre, StartsAre
<1>2. i - 1 \in 0..m /\ j \in i - 1..m /\ (i - 1) + 1 = i /\ ~(i = 0 \/ j < i \/ j > m) /\ i - 1 < m
  BY <1>1
<1>3. Spliced(doc, i, j, new) = Splice(doc, i - 1, new, j)
  BY <1>1, <1>2 DEF Spliced, Splice
<1>4. Terminated(Prefix(doc, LineStarts(doc)[(i - 1) + 1]))
  <2>1. PICK k \in 0..Len(LinesOf(doc)) : k = i - 1 /\ k < Len(LinesOf(doc))
    BY <1>1, <1>2
  <2>2. Terminated(Prefix(doc, LineStarts(doc)[k + 1]))
    BY <2>1, CutIs
  <2> QED BY <2>1, <2>2
<1> QED BY <1>1, <1>2, <1>3, <1>4

LEMMA LinesAreHit ==
  ASSUME NEW doc \in Seq(Chars), NEW content \in Seq({"a", "n"})
  PROVE  HitTheirLines(doc, content)
<1>1. PICK new : new = Normalised(content, Eol(doc))
  OBVIOUS
<1>2. PICK m \in Nat : m = Len(LinesOf(doc))
  BY LinesAre, StopsAre
<1> DEFINE lines == LinesOf(doc)
<1>3. ASSUME NEW n \in 1..m + 1, n <= m \/ doc = <<>> \/ Last(doc) = "n"
      PROVE  LET out == InsertAtLine(doc, n, content) IN
               /\ LinesOf(out.text) = SubSeq(lines, 1, n - 1) \o LinesOf(new) \o SubSeq(lines, n, m)
               /\ out.end = [line |-> n + Len(LinesOf(new)), col |-> 1]
               /\ KeepsEnds(doc, out.text)
  <2>1. n <= m \/ doc = <<>> \/ doc[Len(doc)] = "n"
    BY <1>3 DEF Last
  <2>2. (n - 1) + 1 = n
    OBVIOUS
  <2>3. n \in 1..Len(lines) + 1 /\ (n <= Len(lines) \/ doc = <<>> \/ doc[Len(doc)] = "n")
    BY <1>2, <2>1
  <2>4. PICK out : out = InsertAtLine(doc, n, content)
    OBVIOUS
  <2>5. /\ LinesOf(out.text) = LinesAround(doc, n - 1, new, n - 1)
        /\ out.end = [line |-> n + Len(LinesOf(new)), col |-> 1]
        /\ KeepsEnds(doc, out.text)
    BY <1>1, <2>3, <2>4, InsertAtLineIs
  <2>6. LinesAround(doc, n - 1, new, n - 1) = SubSeq(lines, 1, n - 1) \o LinesOf(new) \o SubSeq(lines, n, m)
    BY <1>2, <2>2 DEF LinesAround
  <2> QED BY <2>4, <2>5, <2>6
<1>4. ASSUME NEW i \in 1..m, NEW j \in i..m
      PROVE  /\ LinesOf(ReplaceLines(doc, i, j, content)) = SubSeq(lines, 1, i - 1) \o LinesOf(new) \o SubSeq(lines, j + 1, m)
             /\ LinesOf(DeleteLines(doc, i, j)) = SubSeq(lines, 1, i - 1) \o SubSeq(lines, j + 1, m)
             /\ KeepsEnds(doc, ReplaceLines(doc, i, j, content))
  <2>1. PICK k : k = i - 1
    OBVIOUS
  <2>2. /\ k \in 0..Len(lines) /\ j \in k..Len(lines)
        /\ Terminated(Prefix(doc, LineStarts(doc)[k + 1]))
        /\ \A t : Spliced(doc, i, j, t) = Splice(doc, k, t, j)
    BY <1>2, <2>1, SplicedIs
  <2>3. ReplaceLines(doc, i, j, content) = Splice(doc, k, new, j)
    BY <1>1, <2>2 DEF ReplaceLines
  <2>4. DeleteLines(doc, i, j) = Splice(doc, k, <<>>, j)
    BY <2>2 DEF DeleteLines
  <2>5. LinesOf(Splice(doc, k, new, j)) = LinesAround(doc, k, new, j) /\ KeepsEnds(doc, Splice(doc, k, new, j))
    BY <1>1, <2>2, NewLinesAre
  <2>6. LinesOf(Splice(doc, k, <<>>, j)) = LinesAround(doc, k, <<>>, j)
    <3>1. <<>> \in Seq(Chars) /\ Terminated(<<>>)
      BY DEF Terminated
    <3> QED BY <2>2, <3>1, SpliceIs
  <2>7. LinesAround(doc, k, <<>>, j) = SubSeq(lines, 1, k) \o SubSeq(lines, j + 1, m)
    <3>1. PICK e \in Seq(Seq(Chars)) : e = LinesOf(<<>>) /\ Len(e) = 0
      <4>1. <<>> \in Seq(Chars)
        OBVIOUS
      <4>2. LinesOf(<<>>) \in Seq(Seq(Chars)) /\ Len(LinesOf(<<>>)) = Len(Stops(<<>>))
        BY <4>1, LinesAre
      <4>3. Len(Stops(<<>>)) = 0
        BY <4>1, StopsAre
      <4> QED BY <4>2, <4>3
    <3>2. PICK x \in Seq(Seq(Chars)) : x = SubSeq(lines, 1, k)
      BY <2>2, LinesAre, TwoParts
    <3>3. x \o e = x
      BY <3>1
    <3> QED BY <1>2, <3>1, <3>2, <3>3 DEF LinesAround
  <2>8. LinesAround(doc, k, new, j) = SubSeq(lines, 1, k) \o LinesOf(new) \o SubSeq(lines, j + 1, m)
    BY <1>2 DEF LinesAround
  <2> QED BY <2>1, <2>3, <2>4, <2>5, <2>6, <2>7, <2>8
<1>5. \A out : KeepsEnds(doc, out) <=> \A eol \in {CrLf, <<"n">>} : doc # <<>> /\ Pure(doc, eol) => Pure(out, eol)
  BY DEF KeepsEnds, Eols
<1> QED BY <1>1, <1>2, <1>3, <1>4, <1>5 DEF HitTheirLines

\* Lines as they are kept, with their ends, and as they are counted by line ends.
LEMMA LinesAreCounted ==
  ASSUME NEW doc \in Seq(Chars), doc # <<>>
  PROVE  /\ doc[Len(doc)] = "n" => Len(LineEnds(doc)) = Len(LinesOf(doc)) + 1
         /\ doc[Len(doc)] # "n" => Len(LineEnds(doc)) = Len(LinesOf(doc))
         /\ Len(LinesOf(doc)) \in Nat
<1>1. PICK n \in Nat : n = Len(doc) /\ n # 0
  OBVIOUS
<1>2. PICK m \in Nat : m = Len(LinesOf(doc)) /\ m = Cardinality(LineSet(doc))
  BY LinesAre, StopsAre
<1>3. PICK B : B = Breaks(doc, n)
  OBVIOUS
<1>4. Len(LineEnds(doc)) = Cardinality(B) + 1 /\ Cardinality(B) \in Nat
  <2>1. LineNo(doc, Len(doc)) \in Nat /\ 0 \in 0..LineNo(doc, Len(doc))
    BY EndsAre
  <2>2. 0 \in 0..Len(LineEnds(doc)) - 1
    <3>1. 0 \in 0..Len(doc)
      OBVIOUS
    <3>2. LineNo(doc, 0) \in 0..Len(LineEnds(doc)) - 1 /\ LineNo(doc, 0) = 0
      BY <3>1, LineOf, EndsAre
    <3> QED BY <3>2
  <2> QED BY <1>1, <1>3, <2>1, <2>2, LineIs DEF LineNo
<1>5. \A i : i \in B <=> i \in 1..n /\ doc[i] = "n"
  BY <1>3 DEF Breaks
<1>6. \A i : i \in LineSet(doc) <=> i \in 1..n /\ (doc[i] = "n" \/ i = n)
  BY <1>1 DEF LineSet
<1>7. CASE doc[n] = "n"
  <2>1. LineSet(doc) = B
    BY <1>5, <1>6, <1>7
  <2> QED BY <1>1, <1>2, <1>4, <1>7, <2>1
<1>8. CASE doc[n] # "n"
  <2>1. n \notin B /\ LineSet(doc) = B \cup {n}
    BY <1>1, <1>5, <1>6, <1>8
  <2>2. IsFiniteSet(B)
    <3>1. IsFiniteSet(1..n) /\ B \subseteq 1..n
      BY <1>5, FS_Interval
    <3> QED BY <3>1, FS_Subset
  <2>3. Cardinality(LineSet(doc)) = Cardinality(B) + 1
    BY <2>1, <2>2, FS_AddElement
  <2> QED BY <1>1, <1>2, <1>4, <1>8, <2>3
<1> QED BY <1>1, <1>2, <1>7, <1>8

\* A line without its end.
LEMMA LineAtIs ==
  ASSUME NEW doc \in Seq(Chars), NEW l \in 0..Len(LineEnds(doc)) - 1
  PROVE  /\ LineAt(doc, l) \in Seq(Chars)
         /\ LineBegin(doc, l) \in 0..Len(doc) /\ LineEnds(doc)[l + 1] \in LineBegin(doc, l) + 1..Len(doc) + 1
         /\ Len(LineAt(doc, l)) = LineEnds(doc)[l + 1] - 1 - LineBegin(doc, l)
         /\ \A i \in 1..LineEnds(doc)[l + 1] - 1 - LineBegin(doc, l) :
                LineAt(doc, l)[i] = doc[LineBegin(doc, l) + i]
<1>1. PICK b, e : b = LineBegin(doc, l) /\ e = LineEnds(doc)[l + 1]
  OBVIOUS
<1>2. b \in 0..Len(doc) /\ e \in b + 1..Len(doc) + 1
  BY <1>1, LineIs DEF Line
<1>3. PICK f \in Nat : f = e - 1 /\ f \in b..Len(doc) /\ b \in 0..Len(doc)
  <2>1. e - 1 \in Nat /\ e - 1 \in b..Len(doc)
    BY <1>2
  <2> QED BY <1>2, <2>1
<1>4. LineAt(doc, l) = SubSeq(doc, b + 1, f)
  BY <1>1, <1>3 DEF LineAt
<1>5. /\ LineAt(doc, l) \in Seq(Chars) /\ Len(LineAt(doc, l)) = f - b
      /\ \A i \in 1..f - b : LineAt(doc, l)[i] = doc[b + i]
  BY <1>3, <1>4, StretchIs, SMTT(30)
<1> QED BY <1>1, <1>2, <1>3, <1>5

LEMMA TextIsHit ==
  ASSUME NEW doc \in Seq(Chars)
  PROVE  HitsTheText(doc)
<1> SUFFICES ASSUME "r" \notin ToSet(doc), NEW i \in 1..Len(LinesOf(doc)), NEW j \in i..Len(LinesOf(doc))
             PROVE  DeleteText(doc, i, j, [first |-> 1, last |-> Len(LinesOf(doc))]) =
                      Prefix(doc, LineBegin(doc, i - 1)) \o SubSeq(doc, LineEnds(doc)[j], Len(doc))
  BY DEF HitsTheText
<1>1. PICK m \in Nat : m = Len(LinesOf(doc))
  BY LinesAre, StopsAre
<1>2. doc # <<>> /\ i \in 1..m /\ j \in i..m
  <2>1. doc = <<>> => m = 0
    BY <1>1, LinesAre, StopsAre
  <2> QED BY <1>1, <2>1
<1>3. Len(LineEnds(doc)) - (IF Last(doc) = "n" THEN 1 ELSE 0) = m
  BY <1>1, <1>2, LinesAreCounted DEF Last
<1>4. m <= Len(LineEnds(doc)) /\ Len(LineEnds(doc)) \in Nat
  BY <1>1, <1>2, LinesAreCounted
<1>5. PICK symbol : symbol = [first |-> 1, last |-> m]
  OBVIOUS
<1> DEFINE chars(l) == IF EndsWith(LineAt(doc, l - 1), <<"r">>) /\ LineEnds(doc)[l] <= Len(doc)
                       THEN Len(LineAt(doc, l - 1)) - 1 ELSE Len(LineAt(doc, l - 1))
           count == Len(LineEnds(doc)) - (IF Last(doc) = "n" THEN 1 ELSE 0)
           eqn(f) == f = [l \in 1..count |-> IF l = 1 THEN 0 ELSE f[l - 1] + chars(l - 1) + 1]
           begin(l) == LineBegin(doc, l - 1)
<1>6. ASSUME NEW l \in 1..m
      PROVE  /\ begin(l) \in Nat /\ LineEnds(doc)[l] \in Nat /\ chars(l) = LineEnds(doc)[l] - 1 - begin(l)
             /\ begin(l) + chars(l) + 1 = LineEnds(doc)[l]
  <2>1. PICK k : k = l - 1 /\ k \in 0..Len(LineEnds(doc)) - 1 /\ k + 1 = l
    BY <1>4
  <2>2. PICK b, e, t : b = LineBegin(doc, k) /\ e = LineEnds(doc)[l] /\ t = LineAt(doc, k)
    OBVIOUS
  <2>3. /\ t \in Seq(Chars) /\ b \in 0..Len(doc) /\ e \in b + 1..Len(doc) + 1 /\ Len(t) = e - 1 - b
        /\ \A x \in 1..e - 1 - b : t[x] = doc[b + x]
    BY <2>1, <2>2, LineAtIs, SMTT(30)
  <2>4. ~EndsWith(t, <<"r">>)
    <3> SUFFICES ASSUME t # <<>>, t[Len(t)] = "r" PROVE FALSE
      BY <2>3, EndsWithIs
    <3>1. e - 1 - b \in 1..e - 1 - b /\ b + (e - 1 - b) \in 1..Len(doc)
      BY <2>3
    <3>2. doc[b + (e - 1 - b)] = "r"
      BY <2>3, <3>1
    <3> QED BY <3>1, <3>2 DEF ToSet
  <2>5. chars(l) = Len(t)
    BY <2>1, <2>2, <2>4
  <2>6. begin(l) = b /\ LineEnds(doc)[l] = e
    BY <2>1, <2>2
  <2>7. b \in Nat /\ e \in Nat /\ Len(t) = e - 1 - b /\ b + Len(t) + 1 = e
    BY <2>3
  <2> HIDE DEF chars, begin
  <2> QED BY <2>5, <2>6, <2>7
<1>7. ASSUME NEW l \in 2..m PROVE begin(l) = LineEnds(doc)[l - 1] /\ l - 1 \in 1..m
  BY DEF LineBegin
<1>8. begin(1) = 0
  BY DEF LineBegin
<1> HIDE DEF begin, chars
<1>9. \E f : eqn(f)
  <2>1. PICK f : f = [l \in 1..m |-> begin(l)]
    OBVIOUS
  <2>2. \A l \in 1..m : begin(l) = IF l = 1 THEN 0 ELSE f[l - 1] + chars(l - 1) + 1
    <3> SUFFICES ASSUME NEW l \in 1..m PROVE begin(l) = IF l = 1 THEN 0 ELSE f[l - 1] + chars(l - 1) + 1
      OBVIOUS
    <3>1. CASE l = 1
      BY <1>8, <3>1
    <3>2. CASE l # 1
      <4>1. l \in 2..m
        BY <3>2
      <4> QED BY <1>6, <1>7, <2>1, <3>2, <4>1
    <3> QED BY <3>1, <3>2
  <2>3. f = [l \in 1..m |-> IF l = 1 THEN 0 ELSE f[l - 1] + chars(l - 1) + 1]
    BY <2>1, <2>2
  <2> QED BY <1>3, <2>3
<1>10. PICK g : g = (CHOOSE h : eqn(h)) /\ eqn(g)
  <2> HIDE DEF eqn
  <2> QED BY <1>9
<1>11. \A l \in 1..m : g[l] = begin(l)
  <2> DEFINE Good == {l \in 0..m : l = 0 \/ g[l] = begin(l)}
  <2>1. 0 \in Good
    OBVIOUS
  <2>2. \A l \in 1..m : g[l] = IF l = 1 THEN 0 ELSE g[l - 1] + chars(l - 1) + 1
    <3>1. PICK h : h = g
      OBVIOUS
    <3>2. g = [l \in 1..m |-> IF l = 1 THEN 0 ELSE h[l - 1] + chars(l - 1) + 1]
      <4>1. g = [l \in 1..m |-> IF l = 1 THEN 0 ELSE g[l - 1] + chars(l - 1) + 1]
        BY <1>3, <1>10
      <4> QED BY <3>1, <4>1
    <3>3. \A l \in 1..m : g[l] = IF l = 1 THEN 0 ELSE h[l - 1] + chars(l - 1) + 1
      BY <3>2
    <3> QED BY <3>1, <3>3
  <2>3. \A l \in 1..m : l - 1 \in Good => l \in Good
    <3> SUFFICES ASSUME NEW l \in 1..m, l - 1 \in Good PROVE l \in Good
      OBVIOUS
    <3>1. CASE l = 1
      BY <1>8, <2>2, <3>1
    <3>2. CASE l # 1
      <4>1. l \in 2..m /\ l - 1 \in 1..m
        BY <3>2
      <4>2. g[l - 1] = begin(l - 1)
        BY <4>1
      <4>3. g[l] = begin(l - 1) + chars(l - 1) + 1
        BY <2>2, <3>2, <4>2
      <4>4. g[l] = LineEnds(doc)[l - 1]
        BY <1>6, <4>1, <4>3
      <4> QED BY <1>7, <4>1, <4>4
    <3> QED BY <3>1, <3>2
  <2>4. ASSUME NEW l \in 1..m PROVE l \in Good
    <3>1. l \in Nat /\ \A k \in 1..l : k - 1 \in Good => k \in Good
      BY <2>3
    <3> HIDE DEF Good
    <3> QED BY <2>1, <3>1, Reaches
  <2> QED BY <2>4
<1>12. ~(doc = <<>> \/ j > m \/ i > j \/ i < symbol.first \/ j > symbol.last)
  BY <1>2, <1>5
<1>f. (IF i = 0 THEN 1 ELSE i) = i /\ (IF j = 0 THEN 1 ELSE j) = j
  BY <1>2
<1>13. DeleteText(doc, i, j, symbol) = Prefix(doc, g[i]) \o SubSeq(doc, g[j] + chars(j) + 1, Len(doc))
  <2>1. DeleteText(doc, i, j, symbol) =
          IF doc = <<>> \/ j > count \/ i > j \/ i < symbol.first \/ j > symbol.last THEN OutOfRange
          ELSE Prefix(doc, (CHOOSE h : eqn(h))[i]) \o SubSeq(doc, (CHOOSE h : eqn(h))[j] + chars(j) + 1, Len(doc))
    BY <1>f DEF DeleteText, chars
  <2>2. count = m
    BY <1>3
  <2> HIDE DEF eqn, count
  <2> QED BY <1>10, <1>12, <2>1, <2>2
<1>14. g[i] = begin(i) /\ g[j] + chars(j) + 1 = LineEnds(doc)[j]
  BY <1>2, <1>6, <1>11
<1> QED BY <1>1, <1>5, <1>13, <1>14 DEF begin

-----------------------------------------------------------------------------
(* Symbols.                                                                *)

\* The line ends among the first characters, up to one that ends a line.
LEMMA BreaksAre ==
  ASSUME NEW doc \in Seq(Chars)
  PROVE  /\ \A k \in 0..Len(doc) : IsFiniteSet(Breaks(doc, k)) /\ LineNo(doc, k) \in Nat
         /\ \A i, j \in 0..Len(doc) : i <= j => LineNo(doc, i) <= LineNo(doc, j)
         /\ \A s \in 1..Len(doc) : doc[s] = "n" => LineNo(doc, s) = LineNo(doc, s - 1) + 1
         /\ \A s \in LineSet(doc) : Rank(LineSet(doc), s) = LineNo(doc, s - 1) + 1
<1>1. PICK n \in Nat : n = Len(doc)
  OBVIOUS
<1>2. \A k \in 0..n : \A i : i \in Breaks(doc, k) <=> i \in 1..k /\ doc[i] = "n"
  BY DEF Breaks
<1>3. ASSUME NEW k \in 0..n PROVE IsFiniteSet(Breaks(doc, k)) /\ LineNo(doc, k) \in Nat
  <2>1. IsFiniteSet(1..k) /\ Breaks(doc, k) \subseteq 1..k
    BY <1>2, FS_Interval
  <2> QED BY <2>1, FS_Subset, FS_CardinalityType DEF LineNo
<1>4. ASSUME NEW i \in 0..n, NEW j \in 0..n, i <= j PROVE LineNo(doc, i) <= LineNo(doc, j)
  <2>1. \A l : l \in 1..i => l \in 1..j
    BY <1>4
  <2>2. Breaks(doc, i) \subseteq Breaks(doc, j)
    BY <1>2, <2>1
  <2> QED BY <1>3, <2>2, FS_Subset DEF LineNo
<1>5. ASSUME NEW s \in 1..n, NEW T, \A f : f \in T <=> f \in Breaks(doc, s - 1) \/ f = s
      PROVE  Cardinality(T) = LineNo(doc, s - 1) + 1
  <2>1. s - 1 \in 0..n /\ s \notin 1..s - 1
    OBVIOUS
  <2>2. T = Breaks(doc, s - 1) \cup {s} /\ s \notin Breaks(doc, s - 1)
    BY <1>2, <1>5, <2>1
  <2> QED BY <1>3, <2>1, <2>2, FS_AddElement DEF LineNo
<1>6. ASSUME NEW s \in 1..n, doc[s] = "n" PROVE LineNo(doc, s) = LineNo(doc, s - 1) + 1
  <2>1. s \in 0..n /\ s - 1 \in 0..n /\ \A f : f \in 1..s <=> f \in 1..s - 1 \/ f = s
    OBVIOUS
  <2>2. \A f : f \in Breaks(doc, s) <=> f \in Breaks(doc, s - 1) \/ f = s
    BY <1>2, <1>6, <2>1
  <2>3. PICK T : T = Breaks(doc, s)
    OBVIOUS
  <2>4. Cardinality(T) = LineNo(doc, s - 1) + 1
    BY <1>5, <2>2, <2>3
  <2> QED BY <2>3, <2>4 DEF LineNo
<1>7. ASSUME NEW s \in LineSet(doc) PROVE Rank(LineSet(doc), s) = LineNo(doc, s - 1) + 1
  <2>1. s \in 1..n /\ (doc[s] = "n" \/ s = n)
    BY <1>1 DEF LineSet
  <2>2. PICK T : T = Below(LineSet(doc), s)
    OBVIOUS
  <2>3. ASSUME NEW f PROVE f \in T <=> f \in Breaks(doc, s - 1) \/ f = s
    <3>1. f \in T <=> f \in 1..n /\ (doc[f] = "n" \/ f = n) /\ f <= s
      BY <1>1, <2>2 DEF Below, LineSet
    <3>2. s - 1 \in 0..n
      BY <2>1
    <3>3. f \in Breaks(doc, s - 1) <=> f \in 1..s - 1 /\ doc[f] = "n"
      BY <1>2, <3>2
    <3>4. CASE f = s
      <4>1. s <= s
        BY <2>1
      <4> QED BY <2>1, <3>1, <3>4, <4>1
    <3>5. CASE f # s
      <4>1. f \in 1..n /\ f <= s <=> f \in 1..s - 1
        BY <2>1, <3>5
      <4>2. f \in 1..s - 1 => f # n
        BY <2>1
      <4> QED BY <3>1, <3>3, <3>5, <4>1, <4>2
    <3> QED BY <3>4, <3>5
  <2>4. Cardinality(T) = LineNo(doc, s - 1) + 1
    BY <1>5, <2>1, <2>3
  <2> QED BY <2>2, <2>4 DEF Rank
<1> QED BY <1>1, <1>3, <1>4, <1>6, <1>7

\* The line of a character, which is one of those that are kept, unless it is empty and
\* the last one: where it begins, and where the next one does.
LEMMA LineStops ==
  ASSUME NEW doc \in Seq(Chars), NEW k \in 0..Len(doc), ~OnEmptyLine(doc, k),
         NEW e, e = LineEnds(doc)[LineNo(doc, k) + 1]
  PROVE  /\ LineNo(doc, k) \in Nat /\ LineNo(doc, k) < Len(LinesOf(doc)) /\ e \in k + 1..Len(doc) + 1
         /\ LineStarts(doc)[LineNo(doc, k) + 1 + 1] = IF e <= Len(doc) THEN e ELSE Len(doc)
<1>1. PICK b \in 0..k :
        /\ Line(doc, b, e) /\ e \in k + 1..Len(doc) + 1 /\ b = LineBegin(doc, LineNo(doc, k))
        /\ e # b + 1
  BY PlaceIs DEF Encodings
<1>2. PICK n \in Nat : n = Len(doc)
  OBVIOUS
<1>3. PICK l \in Nat : l = LineNo(doc, k)
  BY BreaksAre
<1>4. /\ e \in b + 2..n + 1
      /\ e = n + 1 \/ doc[e] = "n"
      /\ \A i \in b + 1..e - 1 : doc[i] # "n"
  BY <1>1, <1>2 DEF Line
<1>5. PICK s : s = (IF e <= n THEN e ELSE n)
  OBVIOUS
<1>6. s \in LineSet(doc) /\ s - 1 \in b..e - 1
  <2>1. s \in 1..n /\ (doc[s] = "n" \/ s = n) /\ s - 1 \in b..e - 1
    <3>1. CASE e <= n
      BY <1>4, <1>5, <3>1
    <3>2. CASE e = n + 1
      BY <1>4, <1>5, <3>2
    <3> QED BY <1>4, <3>1, <3>2
  <2> QED BY <1>2, <2>1 DEF LineSet
<1>7. LineNo(doc, s - 1) = l
  <2>1. l \in 0..Len(LineEnds(doc)) - 1
    BY <1>3, LineOf
  <2>2. \A i \in LineBegin(doc, l)..LineEnds(doc)[l + 1] - 1 : LineNo(doc, i) = l
    BY <2>1, LineIs
  <2> QED BY <1>1, <1>3, <1>6, <2>2
<1>8. Rank(LineSet(doc), s) = l + 1
  BY <1>6, <1>7, BreaksAre
<1>9. l + 1 \in 1..Len(Stops(doc)) /\ Stops(doc)[l + 1] = s
  BY <1>6, <1>8, StopsAre
<1>10. PICK m \in Nat : m = Len(Stops(doc)) /\ m = Len(LinesOf(doc))
  BY StopsAre, LinesAre
<1>11. LineStarts(doc)[l + 1 + 1] = s
  <2>1. l + 1 + 1 \in 1..Len(Stops(doc)) + 1 /\ l + 1 + 1 # 1 /\ l + 1 + 1 - 1 = l + 1
    BY <1>9, <1>10
  <2>2. LineStarts(doc)[l + 1 + 1] = StopBefore(doc, l + 1 + 1)
    BY <2>1, StartsAre
  <2> QED BY <1>9, <2>1, <2>2 DEF StopBefore
<1>12. l < m
  BY <1>9, <1>10
<1> QED BY <1>1, <1>2, <1>3, <1>5, <1>10, <1>11, <1>12

LEMMA LineStartsThere ==
  ASSUME NEW doc \in Seq(Chars), NEW k \in 0..Len(doc), LineNo(doc, k) <= Len(LinesOf(doc))
  PROVE  LineStarts(doc)[LineNo(doc, k) + 1] = LineBegin(doc, LineNo(doc, k))
<1>1. PICK l \in Nat : l = LineNo(doc, k)
  BY BreaksAre
<1>2. PICK m \in Nat : m = Len(Stops(doc)) /\ m = Len(LinesOf(doc))
  BY StopsAre, LinesAre
<1>3. PICK b : b = LineBegin(doc, l)
  OBVIOUS
<1>4. LineStarts(doc)[l + 1] = StopBefore(doc, l + 1)
  <2>1. l + 1 \in 1..Len(Stops(doc)) + 1
    BY <1>1, <1>2
  <2> QED BY <2>1, StartsAre
<1>5. l \in 0..Len(LineEnds(doc)) - 1
  BY <1>1, LineOf
<1>6. /\ b \in 0..Len(doc) /\ (b = 0 \/ doc[b] = "n")
      /\ LineNo(doc, b) = l
  <2>1. Line(doc, b, LineEnds(doc)[l + 1]) /\ \A i \in b..LineEnds(doc)[l + 1] - 1 : LineNo(doc, i) = l
    BY <1>3, <1>5, LineIs
  <2>2. b \in 0..Len(doc) /\ LineEnds(doc)[l + 1] \in b + 1..Len(doc) + 1 /\ (b = 0 \/ doc[b] = "n")
    BY <2>1 DEF Line
  <2>3. b \in b..LineEnds(doc)[l + 1] - 1
    BY <2>2
  <2> QED BY <2>1, <2>2, <2>3
<1>7. CASE l = 0
  BY <1>1, <1>4, <1>7 DEF StopBefore, LineBegin
<1>8. CASE l # 0
  <2>1. b # 0
    <3>1. LineNo(doc, 0) = 0
      BY EndsAre
    <3> QED BY <1>6, <1>8, <3>1
  <2>2. b \in 1..Len(doc) /\ doc[b] = "n"
    BY <1>6, <2>1
  <2>3. b \in LineSet(doc)
    BY <2>2 DEF LineSet
  <2>4. Rank(LineSet(doc), b) = l
    BY <1>6, <2>2, <2>3, BreaksAre
  <2>5. Stops(doc)[l] = b
    BY <2>3, <2>4, StopsAre
  <2>6. l + 1 # 1 /\ l + 1 - 1 = l
    BY <1>8
  <2> QED BY <1>1, <1>3, <1>4, <2>5, <2>6 DEF StopBefore
<1> QED BY <1>7, <1>8

\* Without characters of more than one byte, lengths are counts.
LEMMA LengthIsCount ==
  ASSUME NEW s \in Seq({"a", "r", "n"})
  PROVE  Length(s, Utf8) = Len(s)
<1>1. PICK f : f = [k \in 0..Len(s) |-> k]
  OBVIOUS
<1>2. \A k \in 1..Len(s) : Utf8[s[k]] = 1
  <2>1. \A c \in {"a", "r", "n"} : Utf8[c] = 1
    BY DEF Utf8
  <2> QED BY <2>1
<1>3. Sums(f, s, Utf8)
  <2>1. f[0] = 0
    BY <1>1
  <2>2. ASSUME NEW k \in 1..Len(s) PROVE f[k] = f[k - 1] + Utf8[s[k]]
    <3>1. k \in 0..Len(s) /\ k - 1 \in 0..Len(s) /\ k = (k - 1) + 1
      OBVIOUS
    <3> QED BY <1>1, <1>2, <3>1
  <2> QED BY <2>1, <2>2 DEF Sums
<1>4. s \in Seq(Chars)
  BY CharsAre
<1>5. Counts(Chars, Utf8)
  BY EncodingsCount DEF Encodings
<1>6. Length(s, Utf8) = f[Len(s)]
  BY <1>3, <1>4, <1>5, LengthIsIt
<1> QED BY <1>1, <1>6

\* What DeleteSymbol leaves, when both of its places are found.
SymbolGone(doc, b, j, e) ==
    Prefix(doc, b) \o
    SubSeq(doc, (IF ~(ToSet(SubSeq(doc, j + 1, e - 1)) \subseteq {"r"}) THEN j
                 ELSE IF e <= Len(doc) THEN e ELSE Len(doc)) + 1, Len(doc))

LEMMA DeleteSymbolIs ==
  ASSUME NEW doc \in Seq(Chars), NEW i \in 0..Len(doc), NEW j \in 0..Len(doc),
         ~OnEmptyLine(doc, LineBegin(doc, LineNo(doc, i))), ~OnEmptyLine(doc, j)
  PROVE  DeleteSymbol(doc, PositionOf(doc, i, Utf8), PositionOf(doc, j, Utf8), Utf8) =
            SymbolGone(doc, LineBegin(doc, LineNo(doc, i)), j, LineEnds(doc)[LineNo(doc, j) + 1])
<1>0. PICK b, e : b = LineBegin(doc, LineNo(doc, i)) /\ e = LineEnds(doc)[LineNo(doc, j) + 1]
  OBVIOUS
<1>1. PICK p, q : p = PositionOf(doc, i, Utf8) /\ q = PositionOf(doc, j, Utf8)
  OBVIOUS
<1>2. p.line = LineNo(doc, i) /\ q.line = LineNo(doc, j)
  BY <1>1 DEF PositionOf, LineNo
<1>3. b \in 0..Len(doc) /\ LineNo(doc, b) = LineNo(doc, i) /\ ~OnEmptyLine(doc, b)
  <2>1. PICK l : l = LineNo(doc, i) /\ l \in 0..Len(LineEnds(doc)) - 1
    BY LineOf
  <2>2. Line(doc, b, LineEnds(doc)[l + 1]) /\ \A k \in b..LineEnds(doc)[l + 1] - 1 : LineNo(doc, k) = l
    BY <1>0, <2>1, LineIs
  <2>3. b \in 0..Len(doc) /\ LineEnds(doc)[l + 1] \in b + 1..Len(doc) + 1
    BY <2>2 DEF Line
  <2>4. b \in b..LineEnds(doc)[l + 1] - 1
    BY <2>3
  <2> QED BY <1>0, <2>1, <2>2, <2>3, <2>4
<1>4. PositionOf(doc, b, Utf8) = [line |-> p.line, character |-> 0]
  <2>1. PositionOf(doc, b, Utf8) = [line |-> LineNo(doc, b), character |-> Length(SubSeq(doc, b + 1, b), Utf8)]
    <3>1. LineBegin(doc, LineNo(doc, b)) = b
      BY <1>0, <1>3
    <3> QED BY <3>1 DEF PositionOf, LineNo
  <2>2. SubSeq(doc, b + 1, b) = <<>>
    <3>1. b \in 0..Len(doc) /\ b \in b..Len(doc) /\ b - b = 0
      BY <1>3
    <3>2. SubSeq(doc, b + 1, b) \in Seq(Chars) /\ Len(SubSeq(doc, b + 1, b)) = 0
      BY <3>1, StretchIs
    <3> QED BY <3>2
  <2>3. <<>> \in Seq({"a", "r", "n"}) /\ Len(<<>>) = 0
    OBVIOUS
  <2>4. Length(<<>>, Utf8) = 0
    BY <2>3, LengthIsCount
  <2> QED BY <1>2, <1>3, <2>1, <2>2, <2>4
<1>5. PICK first, to : /\ first = PositionToByte(doc, [line |-> p.line, character |-> 0], Utf8)
                       /\ to = PositionToByte(doc, q, Utf8)
  OBVIOUS
<1>6. first = Bytes(Prefix(doc, b)) /\ to = Bytes(Prefix(doc, j))
  BY <1>1, <1>3, <1>4, <1>5, PositionToByteIs DEF Encodings
<1>7. CharsBefore(doc, first) = b /\ CharsBefore(doc, to) = j
  BY <1>3, <1>6, CharsBeforeIs
<1>8. OutOfRange \notin {first, to}
  <2>1. first \in Nat /\ to \in Nat
    BY <1>3, <1>6, BytesRise
  <2>2. OutOfRange \notin Nat
    BY TextEditsAssumption
  <2> QED BY <2>1, <2>2
<1>9. LineEnds(doc)[q.line + 1] = e
  BY <1>0, <1>2
<1>10. DeleteSymbol(doc, p, q, Utf8) =
         LET rest == SubSeq(doc, CharsBefore(doc, to) + 1, LineEnds(doc)[q.line + 1] - 1)
             blank == ToSet(rest) \subseteq {"r"}
             end == IF ~blank THEN CharsBefore(doc, to)
                    ELSE IF LineEnds(doc)[q.line + 1] <= Len(doc) THEN LineEnds(doc)[q.line + 1]
                    ELSE Len(doc)
         IN  Prefix(doc, CharsBefore(doc, first)) \o SubSeq(doc, end + 1, Len(doc))
  BY <1>5, <1>8 DEF DeleteSymbol
<1> QED BY <1>0, <1>1, <1>7, <1>9, <1>10 DEF SymbolGone

LEMMA SymbolIsHit ==
  ASSUME NEW doc \in Seq({"a", "r", "n"})
  PROVE  HitsTheSymbol(doc)
<1> SUFFICES ASSUME NEW i \in 0..Len(doc), NEW j \in 0..Len(doc), i <= j,
                    ~OnEmptyLine(doc, LineBegin(doc, PositionOf(doc, i, Utf8).line)), ~OnEmptyLine(doc, j)
             PROVE  LET p == PositionOf(doc, i, Utf8)
                        q == PositionOf(doc, j, Utf8)
                        out == DeleteSymbol(doc, p, q, Utf8)
                        rest == SubSeq(LineAt(doc, q.line), q.character + 1, Len(LineAt(doc, q.line)))
                        below == SubSeq(LinesOf(doc), q.line + 2, Len(LinesOf(doc)))
                    IN  /\ ToSet(rest) \subseteq {"r"} =>
                              LinesOf(out) = SubSeq(LinesOf(doc), 1, p.line) \o below
                        /\ "a" \in ToSet(rest) =>
                              out = Prefix(doc, LineBegin(doc, p.line)) \o SubSeq(doc, j + 1, Len(doc))
  BY DEF HitsTheSymbol
<1>1. doc \in Seq(Chars)
  BY CharsAre
<1>2. PICK p, q : p = PositionOf(doc, i, Utf8) /\ q = PositionOf(doc, j, Utf8)
  OBVIOUS
<1>3. PICK l \in Nat, k \in Nat : l = LineNo(doc, i) /\ k = LineNo(doc, j) /\ l <= k
  BY <1>1, BreaksAre
<1>4. p.line = l /\ q.line = k
  BY <1>2, <1>3 DEF PositionOf, LineNo
<1>5. PICK b, e : b = LineBegin(doc, l) /\ e = LineEnds(doc)[k + 1]
  OBVIOUS
<1>6. PICK out : out = DeleteSymbol(doc, p, q, Utf8)
  OBVIOUS
<1>7. PICK rest : rest = SubSeq(LineAt(doc, k), q.character + 1, Len(LineAt(doc, k)))
  OBVIOUS
<1>8. rest = SubSeq(doc, j + 1, e - 1)
  <2>1. PICK a : /\ a = LineBegin(doc, k) /\ a \in 0..j /\ e \in j + 1..Len(doc) + 1
    BY <1>1, <1>3, <1>5, LineOf
  <2>2. PICK f \in Nat : f = e - 1 /\ a \in 0..Len(doc) /\ f \in a..Len(doc) /\ j \in a..f
    <3>1. e - 1 \in Nat /\ a \in 0..Len(doc) /\ e - 1 \in a..Len(doc) /\ j \in a..e - 1
      BY <2>1
    <3> QED BY <3>1
  <2>3. PICK line : line = LineAt(doc, k) /\ line = SubSeq(doc, a + 1, f)
    BY <1>5, <2>1, <2>2 DEF LineAt
  <2>4. Len(line) = f - a
    BY <1>1, <2>2, <2>3, StretchIs
  <2>5. q.character = j - a
    <3>1. q.character = Length(SubSeq(doc, a + 1, j), Utf8)
      BY <1>2, <1>3, <2>1 DEF PositionOf, LineNo
    <3>2. a \in 0..Len(doc) /\ j \in a..Len(doc)
      BY <2>2
    <3>3. SubSeq(doc, a + 1, j) \in Seq({"a", "r", "n"}) /\ Len(SubSeq(doc, a + 1, j)) = j - a
      BY <3>2, StretchIs
    <3> QED BY <3>1, <3>3, LengthIsCount
  <2>6. PICK x, y : x = j - a /\ y = f - a /\ x \in 0..f - a /\ y \in x..f - a /\ a + x = j /\ a + y = f
    BY <2>2
  <2>7. SubSeq(SubSeq(doc, a + 1, f), x + 1, y) = SubSeq(doc, (a + x) + 1, a + y)
    <3>1. PICK a1 \in 0..Len(doc) : a1 = a
      BY <2>2
    <3>2. PICK f1 \in a1..Len(doc) : f1 = f
      BY <2>2, <3>1
    <3>3. PICK x1 \in 0..f1 - a1 : x1 = x
      BY <2>6, <3>1, <3>2
    <3>4. PICK y1 \in x1..f1 - a1 : y1 = y
      BY <2>6, <3>1, <3>2, <3>3
    <3>5. SubSeq(SubSeq(doc, a1 + 1, f1), x1 + 1, y1) = SubSeq(doc, (a1 + x1) + 1, a1 + y1)
      BY <1>1, StretchOfStretch
    <3> QED BY <3>1, <3>2, <3>3, <3>4, <3>5
  <2> QED BY <1>7, <2>2, <2>3, <2>4, <2>5, <2>6, <2>7
<1>9. ~OnEmptyLine(doc, b)
  BY <1>2, <1>4, <1>5
<1>10. out = Prefix(doc, b) \o
             SubSeq(doc, (IF ~(ToSet(rest) \subseteq {"r"}) THEN j
                          ELSE IF e <= Len(doc) THEN e ELSE Len(doc)) + 1, Len(doc))
  <2>1. b = LineBegin(doc, LineNo(doc, i)) /\ e = LineEnds(doc)[LineNo(doc, j) + 1]
    BY <1>3, <1>5
  <2>2. DeleteSymbol(doc, PositionOf(doc, i, Utf8), PositionOf(doc, j, Utf8), Utf8) =
            SymbolGone(doc, LineBegin(doc, LineNo(doc, i)), j, LineEnds(doc)[LineNo(doc, j) + 1])
    <3>1. ~OnEmptyLine(doc, LineBegin(doc, LineNo(doc, i)))
      BY <1>9, <2>1
    <3> QED BY <1>1, <3>1, DeleteSymbolIs
  <2>3. out = SymbolGone(doc, b, j, e)
    BY <1>2, <1>6, <2>1, <2>2
  <2> QED BY <1>8, <2>3 DEF SymbolGone
<1>11. ASSUME "a" \in ToSet(rest) PROVE out = Prefix(doc, b) \o SubSeq(doc, j + 1, Len(doc))
  <2>1. ~(ToSet(rest) \subseteq {"r"})
    BY <1>11
  <2> QED BY <1>10, <2>1
<1>12. ASSUME ToSet(rest) \subseteq {"r"}
       PROVE  LinesOf(out) = SubSeq(LinesOf(doc), 1, l) \o SubSeq(LinesOf(doc), k + 2, Len(LinesOf(doc)))
  <2>1. PICK m \in Nat : m = Len(LinesOf(doc))
    BY <1>1, LinesAre, StopsAre
  <2>2. PICK s : s = (IF e <= Len(doc) THEN e ELSE Len(doc))
    OBVIOUS
  <2>3. k < m /\ LineStarts(doc)[k + 1 + 1] = s
    BY <1>1, <1>3, <1>5, <2>1, <2>2, LineStops
  <2>4. LineStarts(doc)[l + 1] = b
    <3>1. LineNo(doc, i) <= Len(LinesOf(doc))
      BY <1>3, <2>1, <2>3
    <3> QED BY <1>1, <1>3, <1>5, <3>1, LineStartsThere
  <2>5. out = Prefix(doc, b) \o SubSeq(doc, s + 1, Len(doc))
    BY <1>10, <1>12, <2>2
  <2>6. l \in 0..Len(LinesOf(doc)) /\ l < Len(LinesOf(doc)) /\ k + 1 \in l..Len(LinesOf(doc))
    BY <1>3, <2>1, <2>3
  <2>7. b \in 0..Len(doc) /\ Terminated(Prefix(doc, b))
    BY <1>1, <2>4, <2>6, CutIs
  <2>8. s \in 0..Len(doc)
    <3>1. k + 1 \in 0..Len(LinesOf(doc))
      BY <1>3, <2>1, <2>3
    <3> QED BY <1>1, <2>3, <3>1, CutIs
  <2>9. PICK a \in Seq(Chars), c \in Seq(Chars) : a = Prefix(doc, b) /\ c = SubSeq(doc, s + 1, Len(doc))
    BY <1>1, <2>7, <2>8, TwoParts DEF Prefix
  <2>10. out = Splice(doc, l, <<>>, k + 1)
    <3>1. a \o <<>> = a
      OBVIOUS
    <3> QED BY <2>3, <2>4, <2>5, <2>9, <3>1 DEF Splice
  <2>11. LinesOf(out) = LinesAround(doc, l, <<>>, k + 1)
    <3>1. <<>> \in Seq(Chars) /\ Terminated(<<>>)
      BY DEF Terminated
    <3> QED BY <1>1, <2>4, <2>6, <2>7, <2>10, <3>1, SpliceIs
  <2>12. LinesAround(doc, l, <<>>, k + 1) = SubSeq(LinesOf(doc), 1, l) \o SubSeq(LinesOf(doc), k + 2, m)
    <3>1. PICK x \in Seq(Seq(Chars)) : x = SubSeq(LinesOf(doc), 1, l)
      <4>1. LinesOf(doc) \in Seq(Seq(Chars))
        BY <1>1, LinesAre
      <4> QED BY <2>6, <4>1, TwoParts
    <3>2. LinesOf(<<>>) = <<>>
      <4>1. <<>> \in Seq(Chars)
        OBVIOUS
      <4>2. LinesOf(<<>>) \in Seq(Seq(Chars)) /\ Len(LinesOf(<<>>)) = Len(Stops(<<>>))
        BY <4>1, LinesAre
      <4>3. Len(Stops(<<>>)) = 0
        BY <4>1, StopsAre
      <4> QED BY <4>2, <4>3
    <3>3. x \o <<>> = x
      OBVIOUS
    <3>4. k + 1 + 1 = k + 2
      OBVIOUS
    <3> QED BY <2>1, <3>1, <3>2, <3>3, <3>4 DEF LinesAround
  <2> QED BY <2>1, <2>11, <2>12
<1> QED BY <1>2, <1>4, <1>5, <1>6, <1>7, <1>11, <1>12

\* What the tools make of a text by its lines: an insertion, a replacement and a deletion hit the
\* lines they name and leave the others alone, and the ends of lines stay what they were; the
\* lines of a symbol are emptied, and a symbol goes with its lines (edit_tools.rs).
THEOREM LineEditsLand == Disarranged = {}
<1>1. ASSUME NEW doc \in Seq({"a", "r", "n"}), NEW content \in Seq({"a", "n"})
      PROVE  HitTheirLines(doc, content) /\ HitsTheText(doc) /\ HitsTheSymbol(doc)
  <2>1. doc \in Seq(Chars)
    BY CharsAre
  <2> QED BY <2>1, LinesAreHit, TextIsHit, SymbolIsHit
<1>2. ASSUME NEW t \in Texts({"a", "r", "n"}, MaxText) \X Texts({"a", "n"}, 2)
      PROVE  HitTheirLines(t[1], t[2]) /\ HitsTheText(t[1]) /\ HitsTheSymbol(t[1])
  <2>1. PICK d \in Texts({"a", "r", "n"}, MaxText), c \in Texts({"a", "n"}, 2) : d = t[1] /\ c = t[2]
    OBVIOUS
  <2>2. MaxText \in Nat /\ 2 \in Nat
    BY TextEditsAssumption
  <2>3. d \in Seq({"a", "r", "n"}) /\ c \in Seq({"a", "n"})
    BY <2>1, <2>2, TextsAre
  <2> QED BY <1>1, <2>1, <2>3
<1> QED BY <1>2 DEF Disarranged

\* Nothing is written that lands elsewhere: the edits of a language server hit the characters they
\* name, and edits by line the lines (offsets.rs:15, edit_tools.rs:405-562), whatever bound
\* is set to the length of the texts.
THEOREM WritesAlwaysHit == Spec => []WritesHitTheirPlaces
<1>1. WritesHitTheirPlaces
  BY EditsLand, LineEditsLand DEF WritesHitTheirPlaces
<1> QED BY <1>1, PTL

=============================================================================
