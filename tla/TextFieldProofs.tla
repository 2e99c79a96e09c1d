----------------------------- MODULE TextFieldProofs -----------------------------
(***************************************************************************)
(* RangesFit, AnchorIsHeld, MarkIsComposition and Utf16Agrees of           *)
(* TextField, for texts of any length over any alphabet.                   *)
(***************************************************************************)
EXTENDS TextField, SequenceTheorems, FiniteSetTheorems, WellFoundedInduction, TLAPS

LEMMA LeastIsLeast ==
  ASSUME NEW S \in SUBSET Nat, S # {}
  PROVE  Least(S) \in S /\ \A y \in S : Least(S) <= y
<1>1. \E x \in S : \A y \in S : ~(<<y, x>> \in OpToRel(<, Nat))
  BY NatLessThanWellFounded, WFMin
<1>2. \E x \in S : \A y \in S : x <= y
  <2>1. PICK x \in S : \A y \in S : ~(<<y, x>> \in OpToRel(<, Nat))
    BY <1>1
  <2>2. ASSUME NEW y \in S PROVE x <= y
    <3>1. <<y, x>> \in Nat \X Nat /\ <<y, x>>[1] = y /\ <<y, x>>[2] = x
      OBVIOUS
    <3>2. ~(y < x)
      BY <2>1, <3>1 DEF OpToRel
    <3> QED
      BY <3>2
  <2> QED
    BY <2>2
<1> QED
  BY <1>2 DEF Least

LEMMA GreatestIsGreatest ==
  ASSUME NEW n \in Nat, NEW S \in SUBSET (0 .. n), S # {}
  PROVE  Greatest(S) \in S /\ \A y \in S : Greatest(S) >= y
<1> DEFINE T == {n - x : x \in S}
<1>1. T \in SUBSET Nat /\ T # {}
  <2>1. \A x \in S : x \in 0 .. n /\ n - x \in Nat
    OBVIOUS
  <2>2. \E x \in S : n - x \in T
    OBVIOUS
  <2> QED
    BY <2>1, <2>2
<1>2. Least(T) \in T /\ \A y \in T : Least(T) <= y
  BY <1>1, LeastIsLeast
<1>3. PICK x \in S : Least(T) = n - x
  BY <1>2
<1>4. \A y \in S : x >= y
  <2> SUFFICES ASSUME NEW y \in S PROVE x >= y
    OBVIOUS
  <2>1. n - y \in T
    OBVIOUS
  <2>2. n - x <= n - y
    BY <1>2, <1>3, <2>1
  <2> QED
    BY <2>2
<1> QED
  BY <1>4 DEF Greatest
-----------------------------------------------------------------------------
(* Boundaries.                                                             *)

LEMMA StringType ==
  ASSUME NEW s \in Strings
  PROVE  /\ s \in Seq(Bytes) /\ Len(s) \in Nat
         /\ \A i \in 1 .. Len(s) : s[i] \in Bytes
         /\ Len(s) > 0 => s[1] \in Lead
         /\ Boundary(s, 0) /\ Boundary(s, Len(s))
         /\ \A b : Boundary(s, b) => b \in Nat
<1>1. s \in Seq(Bytes) /\ (s = <<>> \/ s[1] \in Lead)
  BY DEF Strings
<1>2. Len(s) \in Nat /\ (\A i \in 1 .. Len(s) : s[i] \in Bytes) /\ (Len(s) > 0 => s # <<>>)
  BY <1>1
<1> QED
  BY <1>1, <1>2 DEF Boundary

\* An offset counted in UTF-16 units becomes one between two characters, and
\* the order of offsets is kept.
LEMMA Utf8OffsetIsBoundary ==
  ASSUME NEW s \in Strings, NEW u \in Nat
  PROVE  /\ Utf8OffsetOf(s, u) \in Nat
         /\ Boundary(s, Utf8OffsetOf(s, u))
         /\ \A v \in Nat : u <= v => Utf8OffsetOf(s, u) <= Utf8OffsetOf(s, v)
<1> DEFINE Past(w) == {b \in Boundaries(s) : Units(s, b) >= w \/ b = Len(s)}
<1>1. Len(s) \in Nat /\ Len(s) \in Boundaries(s) /\ Boundaries(s) \subseteq Nat
  BY StringType DEF Boundaries
<1>2. \A w : Past(w) \in SUBSET Nat /\ Past(w) # {}
  BY <1>1
<1>3. \A w : Least(Past(w)) \in Past(w) /\ \A y \in Past(w) : Least(Past(w)) <= y
  BY <1>2, LeastIsLeast
<1>4. ASSUME NEW b \in Nat PROVE Units(s, b) \in Nat
  <2>1. IsFiniteSet(1 .. b)
    BY FS_Interval
  <2>2. /\ IsFiniteSet({i \in 1 .. b : s[i] \in Lead})
        /\ IsFiniteSet({i \in 1 .. b : s[i] \in Wide})
    BY <2>1, FS_Subset
  <2> QED
    BY <2>2, FS_CardinalityType DEF Units
<1>5. ASSUME NEW v \in Nat, u <= v PROVE Past(v) \subseteq Past(u)
  BY <1>1, <1>4, <1>5
<1>6. \A w : Utf8OffsetOf(s, w) = Least(Past(w))
  BY DEF Utf8OffsetOf
<1> HIDE DEF Past
<1>7. Utf8OffsetOf(s, u) \in Past(u)
  BY <1>3, <1>6
<1>8. \A v \in Nat : u <= v => Utf8OffsetOf(s, u) <= Utf8OffsetOf(s, v)
  BY <1>3, <1>5, <1>6
<1> QED
  BY <1>7, <1>8, <1>1 DEF Past, Boundaries

LEMMA GraphemesAreBoundaries ==
  ASSUME text \in Strings, NEW o \in Nat
  PROVE  Boundary(text, PreviousBoundary(o)) /\ Boundary(text, NextBoundary(o))
<1>1. Len(text) \in Nat /\ Boundary(text, 0) /\ Boundary(text, Len(text))
  BY StringType
<1>2. \A i \in GraphemeStarts(text) : i \in 0 .. Len(text) /\ Boundary(text, i)
  BY <1>1 DEF GraphemeStarts, Boundary
<1> DEFINE before == {i \in GraphemeStarts(text) : i < o}
           after == {i \in GraphemeStarts(text) : i > o}
<1>3. before # {} => Greatest(before) \in before
  <2>1. before \in SUBSET (0 .. Len(text))
    BY <1>2
  <2> QED
    BY <1>1, <2>1, GreatestIsGreatest
<1>4. after # {} => Least(after) \in after
  <2>1. after \in SUBSET Nat
    BY <1>1, <1>2
  <2> QED
    BY <2>1, LeastIsLeast
<1>5. Boundary(text, PreviousBoundary(o))
  BY <1>1, <1>2, <1>3 DEF PreviousBoundary
<1>6. Boundary(text, NextBoundary(o))
  BY <1>1, <1>2, <1>4 DEF NextBoundary
<1> QED
  BY <1>5, <1>6

LEMMA ThreeParts ==
  ASSUME NEW S, NEW h \in Seq(S), NEW m \in Seq(S), NEW t \in Seq(S)
  PROVE  /\ h \o m \o t \in Seq(S)
         /\ Len(h \o m \o t) = Len(h) + Len(m) + Len(t)
         /\ \A i \in 1 .. Len(h) : (h \o m \o t)[i] = h[i]
         /\ \A i \in 1 .. Len(m) : (h \o m \o t)[Len(h) + i] = m[i]
         /\ \A i \in 1 .. Len(t) : (h \o m \o t)[Len(h) + Len(m) + i] = t[i]
<1>1. Len(h) \in Nat /\ Len(m) \in Nat /\ Len(t) \in Nat
  BY LenProperties
<1>2. /\ h \o m \in Seq(S)
      /\ Len(h \o m) = Len(h) + Len(m)
      /\ \A i \in 1 .. Len(h) + Len(m) : (h \o m)[i] = IF i <= Len(h) THEN h[i] ELSE m[i - Len(h)]
  BY ConcatProperties
<1>3. \A i \in 1 .. Len(m) : (h \o m)[Len(h) + i] = m[i]
  <2> SUFFICES ASSUME NEW i \in 1 .. Len(m) PROVE (h \o m)[Len(h) + i] = m[i]
    OBVIOUS
  <2>1. Len(h) + i \in 1 .. Len(h) + Len(m) /\ ~(Len(h) + i <= Len(h)) /\ Len(h) + i - Len(h) = i
    BY <1>1
  <2> QED
    BY <1>2, <2>1
<1> DEFINE hm == h \o m
<1>4. /\ hm \o t \in Seq(S)
      /\ Len(hm \o t) = Len(hm) + Len(t)
      /\ \A i \in 1 .. Len(hm) + Len(t) : (hm \o t)[i] = IF i <= Len(hm) THEN hm[i] ELSE t[i - Len(hm)]
  <2>1. hm \in Seq(S)
    BY <1>2
  <2> HIDE DEF hm
  <2> QED
    BY <2>1, ConcatProperties
<1>5. hm = h \o m
  OBVIOUS
<1> HIDE DEF hm
<1>6. Len(hm) = Len(h) + Len(m)
  BY <1>2, <1>5
<1>7. \A i \in 1 .. Len(h) : (hm \o t)[i] = h[i]
  BY <1>1, <1>2, <1>4, <1>5, <1>6
<1>8. \A i \in 1 .. Len(m) : (hm \o t)[Len(h) + i] = m[i]
  <2> SUFFICES ASSUME NEW i \in 1 .. Len(m) PROVE (hm \o t)[Len(h) + i] = m[i]
    OBVIOUS
  <2>1. Len(h) + i \in 1 .. Len(hm) + Len(t) /\ Len(h) + i <= Len(hm)
    BY <1>1, <1>6
  <2> QED
    BY <1>3, <1>4, <1>5, <2>1
<1>9. \A i \in 1 .. Len(t) : (hm \o t)[Len(h) + Len(m) + i] = t[i]
  <2> SUFFICES ASSUME NEW i \in 1 .. Len(t) PROVE (hm \o t)[Len(h) + Len(m) + i] = t[i]
    OBVIOUS
  <2> DEFINE k == Len(h) + Len(m) + i
  <2>1. k \in 1 .. Len(hm) + Len(t) /\ ~(k <= Len(hm)) /\ k - Len(hm) = i
    BY <1>1, <1>6
  <2> HIDE DEF k
  <2>2. (hm \o t)[k] = t[i]
    BY <1>4, <2>1
  <2> QED
    BY <2>2 DEF k
<1> QED
  BY <1>4, <1>5, <1>6, <1>7, <1>8, <1>9

\* A text cut at two boundaries with a string put between the parts is the
\* first part, the string and the last part.
LEMMA SplicedParts ==
  ASSUME text \in Strings, NEW new \in Strings, NEW a, NEW b, Cuttable(a, b)
  PROVE  /\ Spliced(a, b, new) \in Seq(Bytes)
         /\ Len(Spliced(a, b, new)) = a + Len(new) + (Len(text) - b)
         /\ \A i \in 1 .. a : Spliced(a, b, new)[i] = text[i]
         /\ \A i \in 1 .. Len(new) : Spliced(a, b, new)[a + i] = new[i]
         /\ \A i \in 1 .. Len(text) - b : Spliced(a, b, new)[a + Len(new) + i] = text[b + i]
<1> DEFINE head == SubSeq(text, 1, a)
           tail == SubSeq(text, b + 1, Len(text))
           all == Spliced(a, b, new)
<1>1. /\ Len(text) \in Nat /\ \A i \in 1 .. Len(text) : text[i] \in Bytes
      /\ Len(text) > 0 => text[1] \in Lead
      /\ new \in Seq(Bytes) /\ Len(new) \in Nat
      /\ Len(new) > 0 => new[1] \in Lead
  BY StringType
<1>2. /\ a \in 0 .. Len(text) /\ (a < Len(text) => text[a + 1] \in Lead)
      /\ b \in 0 .. Len(text) /\ (b < Len(text) => text[b + 1] \in Lead)
  BY DEF Cuttable, Boundary
<1>3. /\ head \in Seq(Bytes) /\ Len(head) = a
      /\ \A i \in 1 .. a : head[i] = text[i]
  <2>1. \A i \in 1 .. a : text[i] \in Bytes
    BY <1>1, <1>2
  <2>2. a \in Int /\ (a < 1 => a = 0) /\ a - 1 + 1 = a
    BY <1>1, <1>2
  <2>3. /\ head \in Seq(Bytes)
        /\ Len(head) = IF 1 <= a THEN a - 1 + 1 ELSE 0
        /\ \A i \in 1 .. a - 1 + 1 : head[i] = text[1 + i - 1]
    BY <2>1, <2>2, SubSeqProperties
  <2> QED
    BY <2>2, <2>3
<1>4. /\ tail \in Seq(Bytes) /\ Len(tail) = Len(text) - b
      /\ \A i \in 1 .. Len(text) - b : tail[i] = text[b + i]
  <2>1. \A i \in b + 1 .. Len(text) : text[i] \in Bytes
    BY <1>1, <1>2
  <2>2. b + 1 \in Int /\ Len(text) \in Int /\ b \in Nat /\ b <= Len(text)
    BY <1>1, <1>2
  <2>3. /\ tail \in Seq(Bytes)
        /\ Len(tail) = IF b + 1 <= Len(text) THEN Len(text) - (b + 1) + 1 ELSE 0
        /\ \A i \in 1 .. Len(text) - (b + 1) + 1 : tail[i] = text[b + 1 + i - 1]
    BY <2>1, <2>2, SubSeqProperties
  <2> QED
    BY <2>2, <2>3
<1> HIDE DEF head, tail
<1>5. all = head \o new \o tail
  BY DEF Spliced, head, tail
<1> HIDE DEF all
<1>6. /\ all \in Seq(Bytes)
      /\ Len(all) = a + Len(new) + (Len(text) - b)
      /\ \A i \in 1 .. a : all[i] = text[i]
      /\ \A i \in 1 .. Len(new) : all[a + i] = new[i]
      /\ \A i \in 1 .. Len(text) - b : all[a + Len(new) + i] = text[b + i]
  <2>1. /\ all \in Seq(Bytes)
        /\ Len(all) = Len(head) + Len(new) + Len(tail)
        /\ \A i \in 1 .. Len(head) : all[i] = head[i]
        /\ \A i \in 1 .. Len(new) : all[Len(head) + i] = new[i]
        /\ \A i \in 1 .. Len(tail) : all[Len(head) + Len(new) + i] = tail[i]
    <3>1. head \in Seq(Bytes) /\ new \in Seq(Bytes) /\ tail \in Seq(Bytes)
      BY <1>1, <1>3, <1>4
    <3>2. /\ head \o new \o tail \in Seq(Bytes)
          /\ Len(head \o new \o tail) = Len(head) + Len(new) + Len(tail)
          /\ \A i \in 1 .. Len(head) : (head \o new \o tail)[i] = head[i]
          /\ \A i \in 1 .. Len(new) : (head \o new \o tail)[Len(head) + i] = new[i]
          /\ \A i \in 1 .. Len(tail) :
               (head \o new \o tail)[Len(head) + Len(new) + i] = tail[i]
      <4> DEFINE h == head
                 t == tail
      <4>1. /\ h \o new \o t \in Seq(Bytes)
            /\ Len(h \o new \o t) = Len(h) + Len(new) + Len(t)
        BY <3>1, ThreeParts
      <4>2. \A i \in 1 .. Len(h) : (h \o new \o t)[i] = h[i]
        BY <3>1, ThreeParts
      <4>3. \A i \in 1 .. Len(new) : (h \o new \o t)[Len(h) + i] = new[i]
        BY <3>1, ThreeParts
      <4>4. \A i \in 1 .. Len(t) : (h \o new \o t)[Len(h) + Len(new) + i] = t[i]
        BY <3>1, ThreeParts
      <4> QED
        BY <4>1, <4>2, <4>3, <4>4
    <3> QED
      BY <1>5, <3>2
  <2> QED
    BY <1>3, <1>4, <2>1
<1> QED
  BY <1>6 DEF all

\* Cutting a text at two boundaries and putting a string between the parts
\* gives a string, and the string's own boundaries are boundaries of it.
LEMMA SplicedString ==
  ASSUME text \in Strings, NEW new \in Strings, NEW a, NEW b, Cuttable(a, b)
  PROVE  /\ Spliced(a, b, new) \in Strings
         /\ \A c : Boundary(new, c) => Boundary(Spliced(a, b, new), a + c)
<1> DEFINE all == Spliced(a, b, new)
<1>1. /\ Len(text) \in Nat /\ \A i \in 1 .. Len(text) : text[i] \in Bytes
      /\ Len(text) > 0 => text[1] \in Lead
      /\ new \in Seq(Bytes) /\ Len(new) \in Nat
      /\ Len(new) > 0 => new[1] \in Lead
  BY StringType
<1>2. /\ a \in 0 .. Len(text) /\ (a < Len(text) => text[a + 1] \in Lead)
      /\ b \in 0 .. Len(text) /\ (b < Len(text) => text[b + 1] \in Lead)
  BY DEF Cuttable, Boundary
<1>3. /\ all \in Seq(Bytes)
      /\ Len(all) = a + Len(new) + (Len(text) - b)
      /\ \A i \in 1 .. a : all[i] = text[i]
      /\ \A i \in 1 .. Len(new) : all[a + i] = new[i]
      /\ \A i \in 1 .. Len(text) - b : all[a + Len(new) + i] = text[b + i]
  BY SplicedParts
<1> HIDE DEF all
<1>4. Len(all) > 0 => all[1] \in Lead
  <2>1. CASE a > 0
    BY <1>1, <1>2, <1>3, <2>1
  <2>2. CASE a = 0 /\ Len(new) > 0
    BY <1>1, <1>3, <2>2
  <2>3. CASE a = 0 /\ Len(new) = 0 /\ b < Len(text)
    BY <1>1, <1>2, <1>3, <2>3
  <2>4. CASE a = 0 /\ Len(new) = 0 /\ b = Len(text)
    BY <1>1, <1>3, <2>4
  <2> QED
    BY <1>1, <1>2, <2>1, <2>2, <2>3, <2>4
<1>5. ASSUME NEW c, Boundary(new, c) PROVE Boundary(all, a + c)
  <2>1. c \in 0 .. Len(new) /\ (c < Len(new) => new[c + 1] \in Lead)
    BY <1>5 DEF Boundary
  <2>2. a + c \in 0 .. Len(all)
    BY <1>1, <1>2, <1>3, <2>1
  <2>3. ASSUME a + c < Len(all) PROVE all[a + c + 1] \in Lead
    <3>1. CASE c < Len(new)
      <4>1. c + 1 \in 1 .. Len(new) /\ a + c + 1 = a + (c + 1)
        BY <1>1, <1>2, <2>1, <3>1
      <4> QED
        BY <1>3, <2>1, <3>1, <4>1
    <3>2. CASE c = Len(new)
      <4>1. /\ 1 \in 1 .. Len(text) - b
            /\ a + c + 1 = a + Len(new) + 1
            /\ b < Len(text)
        BY <1>1, <1>2, <1>3, <2>1, <2>3, <3>2
      <4>2. all[a + c + 1] = text[b + 1]
        BY <1>3, <4>1
      <4> QED
        BY <1>2, <4>1, <4>2
    <3> QED
      BY <1>1, <2>1, <3>1, <3>2
  <2> QED
    BY <2>2, <2>3 DEF Boundary
<1>6. Spliced(a, b, new) = all
  BY DEF all
<1>7. all \in Strings
  BY <1>3, <1>4 DEF Strings
<1> QED
  BY <1>5, <1>6, <1>7
-----------------------------------------------------------------------------
(* The actions.                                                            *)

\* What the handlers share: types, and the ranges as the last event left them.
Sound ==
  /\ RangesFit
  /\ ~panicked

LEMMA Offsets ==
  ASSUME Sound
  PROVE  /\ text \in Strings /\ Len(text) \in Nat
         /\ start \in Nat /\ end \in Nat /\ Cursor \in Nat
         /\ stale \in BOOLEAN /\ reversed \in BOOLEAN /\ selecting \in BOOLEAN
         /\ Boundary(text, 0) /\ Boundary(text, Len(text))
         /\ ~stale => Boundary(text, start) /\ Boundary(text, end)
         /\ \A b : Boundary(text, b) => b \in Nat
         /\ Boundary(text, PreviousBoundary(Cursor))
         /\ Boundary(text, NextBoundary(Cursor))
         /\ Boundary(text, NextBoundary(end))
<1>1. /\ text \in Strings /\ start \in Nat /\ end \in Nat /\ Cursor \in Nat
      /\ stale \in BOOLEAN /\ reversed \in BOOLEAN /\ selecting \in BOOLEAN
      /\ ~stale => Boundary(text, start) /\ Boundary(text, end)
  BY DEF Sound, RangesFit, TypeOK, SelectionFits, Cursor
<1>2. /\ Len(text) \in Nat /\ Boundary(text, 0) /\ Boundary(text, Len(text))
      /\ \A b : Boundary(text, b) => b \in Nat
  BY <1>1, StringType
<1> QED
  BY <1>1, <1>2, GraphemesAreBoundaries

\* Moving the cursor.
LEMMA MoveKeeps ==
  ASSUME Sound, NEW o \in Nat, NEW old \in BOOLEAN, ~old => Boundary(text, o), MoveTo(o, old),
         UNCHANGED <<text, marked, layout, composed, panicked>>, selecting' \in BOOLEAN
  PROVE  RangesFit'
<1>1. TypeOK' /\ MarkFits'
  BY DEF Sound, RangesFit, TypeOK, MarkFits, MoveTo, Boundary
<1>2. ~stale' => SelectionFits' /\ ~panicked'
  BY DEF Sound, SelectionFits, MoveTo, Boundary
<1> QED
  BY <1>1, <1>2 DEF RangesFit

\* Moving one end of the selection, perhaps past the other one.
LEMMA SelectKeeps ==
  ASSUME Sound, NEW o \in Nat, NEW old \in BOOLEAN, ~old => Boundary(text, o), SelectTo(o, old),
         UNCHANGED <<text, marked, layout, composed, panicked>>, selecting' \in BOOLEAN
  PROVE  RangesFit'
<1>1. /\ start \in Nat /\ end \in Nat /\ reversed \in BOOLEAN /\ stale \in BOOLEAN
      /\ ~stale => Boundary(text, start) /\ Boundary(text, end)
  BY Offsets
<1>2. start' \in Nat /\ end' \in Nat /\ start' <= end'
  BY <1>1 DEF SelectTo
<1>3. stale' \in BOOLEAN /\ reversed' \in BOOLEAN
  BY <1>1 DEF SelectTo
<1>4. ~stale' => Boundary(text, start') /\ Boundary(text, end')
  BY <1>1 DEF SelectTo
<1>5. TypeOK' /\ MarkFits'
  BY <1>2, <1>3 DEF Sound, RangesFit, TypeOK, MarkFits, Boundary
<1>6. ~stale' => SelectionFits' /\ ~panicked'
  BY <1>2, <1>4 DEF Sound, SelectionFits, Boundary
<1> QED
  BY <1>5, <1>6 DEF RangesFit

\* Replacing a range that is cuttable unless the selection is stale.
LEMMA EditKeeps ==
  ASSUME Sound, NEW a, NEW b, ~stale => Cuttable(a, b),
         NEW new \in Strings, ReplaceRange(a, b, new)
  PROVE  RangesFit'
<1>1. CASE ~Cuttable(a, b) /\ Panics
  BY <1>1 DEF Panics, selVars, Sound, RangesFit, TypeOK, MarkFits, SelectionFits, Boundary
<1>2. CASE /\ Cuttable(a, b)
           /\ text' = Spliced(a, b, new)
           /\ start' = a + Len(new) /\ end' = a + Len(new)
           /\ reversed' = FALSE
           /\ stale' = FALSE
           /\ AfterEdit
           /\ UNCHANGED <<selecting, layout, panicked>>
  <2>1. text \in Strings /\ Boundary(new, Len(new))
    BY Offsets, StringType
  <2>2. text' \in Strings /\ Boundary(text', a + Len(new))
    BY <1>2, <2>1, SplicedString
  <2>3. a + Len(new) \in Nat
    BY <2>2, StringType
  <2>4. SelectionFits'
    BY <1>2, <2>2, <2>3 DEF SelectionFits, Boundary
  <2>5. <<>> \in Strings
    BY DEF Strings
  <2>6. TypeOK' /\ MarkFits'
    BY <1>2, <2>2, <2>3, <2>5 DEF AfterEdit, Sound, RangesFit, TypeOK, MarkFits
  <2> QED
    BY <1>2, <2>4, <2>6 DEF Sound, RangesFit
<1> QED
  BY <1>1, <1>2 DEF ReplaceRange
-----------------------------------------------------------------------------
LEMMA KeyStep == Sound /\ Key => RangesFit'
<1> SUFFICES ASSUME Sound, Key PROVE RangesFit'
  OBVIOUS
<1>1. /\ text \in Strings /\ Len(text) \in Nat
      /\ start \in Nat /\ end \in Nat /\ Cursor \in Nat
      /\ stale \in BOOLEAN /\ reversed \in BOOLEAN /\ selecting \in BOOLEAN
      /\ Boundary(text, 0) /\ Boundary(text, Len(text))
      /\ ~stale => Boundary(text, start) /\ Boundary(text, end)
      /\ \A b : Boundary(text, b) => b \in Nat
      /\ Boundary(text, PreviousBoundary(Cursor))
      /\ Boundary(text, NextBoundary(Cursor))
      /\ Boundary(text, NextBoundary(end))
  BY Offsets
<1>2. <<>> \in Strings /\ Typed \subseteq Strings
  BY TextFieldAssumption DEF Strings
<1>3. CASE Left
  <2> DEFINE o == IF start = end THEN PreviousBoundary(Cursor) ELSE start
             old == stale /\ start # end
  <2>1. o \in Nat /\ old \in BOOLEAN /\ (~old => Boundary(text, o))
    BY <1>1
  <2>2. MoveTo(o, old) /\ KeyKeeps
    BY <1>3 DEF Left
  <2> HIDE DEF o, old
  <2> QED
    BY <1>1, <2>1, <2>2, MoveKeeps DEF KeyKeeps
<1>4. CASE Right
  <2> DEFINE o == IF start = end THEN NextBoundary(end) ELSE end
             old == stale /\ start # end
  <2>1. o \in Nat /\ old \in BOOLEAN /\ (~old => Boundary(text, o))
    BY <1>1
  <2>2. MoveTo(o, old) /\ KeyKeeps
    BY <1>4 DEF Right
  <2> HIDE DEF o, old
  <2> QED
    BY <1>1, <2>1, <2>2, MoveKeeps DEF KeyKeeps
<1>5. CASE SelectLeft \/ SelectRight
  BY <1>1, <1>5, SelectKeeps DEF SelectLeft, SelectRight, KeyKeeps
<1>6. CASE SelectAll
  <2>1. /\ start' = 0 /\ end' = Len(text) /\ reversed' \in BOOLEAN /\ stale' = FALSE
        /\ UNCHANGED <<text, marked, selecting, layout, composed, panicked>>
    BY <1>6 DEF SelectAll, KeyKeeps
  <2>2. TypeOK' /\ MarkFits'
    BY <1>1, <2>1 DEF Sound, RangesFit, TypeOK, MarkFits, Boundary
  <2>3. SelectionFits' /\ ~panicked'
    BY <1>1, <2>1 DEF Sound, SelectionFits, Boundary
  <2> QED
    BY <2>2, <2>3 DEF RangesFit
<1>7. CASE HomeKey \/ EndKey
  BY <1>1, <1>7, MoveKeeps DEF HomeKey, EndKey, KeyKeeps
<1>8. ASSUME NEW to, Boundary(text, to), Erase(to) PROVE RangesFit'
  <2> DEFINE lo == IF start # end \/ Cursor <= to THEN start ELSE to
             hi == IF start # end \/ to <= Cursor THEN end ELSE to
  <2>1. ~stale => Cuttable(lo, hi)
    BY <1>1, <1>8 DEF Cuttable
  <2>2. ReplaceRange(lo, hi, <<>>)
    BY <1>8 DEF Erase
  <2> HIDE DEF lo, hi
  <2> QED
    BY <1>2, <2>1, <2>2, EditKeeps
<1>9. CASE Backspace \/ Delete
  BY <1>1, <1>8, <1>9 DEF Backspace, Delete
<1>10. ~stale => Cuttable(start, end)
  BY <1>1 DEF Cuttable
<1>11. CASE Cut \/ \E s \in Typed : Paste(s)
  BY <1>2, <1>10, <1>11, EditKeeps DEF Cut, Paste, ReplaceSelection
<1>12. CASE Copy
  BY <1>10, <1>12 DEF Copy, Panics, selVars, Sound, RangesFit, TypeOK, MarkFits, Boundary
<1> QED
  BY <1>3, <1>4, <1>5, <1>6, <1>7, <1>9, <1>11, <1>12 DEF Key

LEMMA MouseStep == Sound /\ Mouse => RangesFit'
<1> SUFFICES ASSUME Sound, Mouse PROVE RangesFit'
  OBVIOUS
<1>1. ASSUME NEW o \in MouseIndex
      PROVE  /\ o \in Nat /\ FromOldLayout(o) \in BOOLEAN
             /\ ~FromOldLayout(o) => Boundary(text, o)
  <2>1. Len(text) \in Nat /\ Boundary(text, 0) /\ Boundary(text, Len(text))
    BY Offsets
  <2>2. layout # NoLayout => \A b \in Boundaries(layout) : b \in Nat /\ Boundary(layout, b)
    BY StringType DEF Sound, RangesFit, TypeOK, Boundaries
  <2> QED
    BY <2>1, <2>2 DEF MouseIndex, FromOldLayout
<1>2. selecting \in BOOLEAN
  BY Offsets
<1>3. ASSUME NEW o \in MouseIndex, NEW shift \in BOOLEAN, MouseDown(o, shift) PROVE RangesFit'
  BY <1>1, <1>3, MoveKeeps, SelectKeeps DEF MouseDown
<1>4. ASSUME NEW o \in MouseIndex, MouseMove(o) PROVE RangesFit'
  BY <1>1, <1>2, <1>4, SelectKeeps DEF MouseMove, KeyKeeps
<1>5. CASE MouseUp
  BY <1>5 DEF MouseUp, selVars, Sound, RangesFit, TypeOK, MarkFits, SelectionFits, Boundary
<1> QED
  BY <1>3, <1>4, <1>5 DEF Mouse

LEMMA InputStep == Sound /\ InputMethod => RangesFit'
<1> SUFFICES ASSUME Sound, InputMethod PROVE RangesFit'
  OBVIOUS
<1>1. Typed \subseteq Strings /\ \A r \in Ranges : r[1] \in Nat /\ r[2] \in Nat /\ r[1] <= r[2]
  <2>1. Typed \subseteq Strings
    BY TextFieldAssumption
  <2>2. \A r \in Ranges : r \in Nat \X Nat /\ r[1] <= r[2]
    BY TextFieldAssumption, Zenon
  <2>3. \A r \in Nat \X Nat : r[1] \in Nat /\ r[2] \in Nat
    OBVIOUS
  <2> QED
    BY <2>1, <2>2, <2>3
<1>2. text \in Strings /\ (~stale => Boundary(text, start) /\ Boundary(text, end) /\ start <= end)
  BY DEF Sound, RangesFit, TypeOK, SelectionFits
\* Only the selection itself may be stale.
<1>3. ASSUME NEW r \in Ranges \cup {NoRange}
      PROVE  ~stale => Cuttable(PendingRange(r)[1], PendingRange(r)[2])
                       /\ PendingRange(r)[1] <= PendingRange(r)[2]
  <2>1. CASE r # NoRange
    <3>1. r[1] \in Nat /\ r[2] \in Nat /\ r[1] <= r[2]
      BY <1>1, <2>1
    <3>2. /\ Boundary(text, Utf8OffsetOf(text, r[1])) /\ Boundary(text, Utf8OffsetOf(text, r[2]))
          /\ Utf8OffsetOf(text, r[1]) <= Utf8OffsetOf(text, r[2])
      BY <1>2, <3>1, Utf8OffsetIsBoundary
    <3> QED
      BY <2>1, <3>2 DEF PendingRange, RangeFromUtf16, Cuttable
  <2>2. CASE r = NoRange /\ marked # NoRange
    BY <2>2 DEF PendingRange, Sound, RangesFit, MarkFits, Cuttable
  <2>3. CASE r = NoRange /\ marked = NoRange
    BY <1>2, <2>3 DEF PendingRange, Cuttable
  <2> QED
    BY <2>1, <2>2, <2>3
<1>4. ASSUME NEW s \in Typed, NEW r \in Ranges \cup {NoRange}, ReplaceTextInRange(r, s)
      PROVE  RangesFit'
  BY <1>1, <1>3, <1>4, EditKeeps DEF ReplaceTextInRange
<1>5. ASSUME NEW s \in Typed, NEW r \in Ranges \cup {NoRange}, NEW sel \in Ranges \cup {NoRange},
             ReplaceAndMark(r, s, sel)
      PROVE  RangesFit'
  <2> DEFINE a == PendingRange(r)[1]
             b == PendingRange(r)[2]
             within == NewSelection(a, s, sel)
  <2>1. CASE ~Cuttable(a, b) /\ Panics
    BY <1>3, <2>1 DEF Panics, selVars, Sound, RangesFit, TypeOK, MarkFits, Boundary
  <2>2. CASE /\ Cuttable(a, b)
             /\ text' = Spliced(a, b, s)
             /\ marked' = IF s = <<>> THEN NoRange ELSE <<a, a + Len(s)>>
             /\ start' = within[1] /\ end' = within[2]
             /\ reversed' = FALSE
             /\ stale' = FALSE
             /\ composed' = s
             /\ UNCHANGED <<selecting, layout, panicked>>
    <3>1. s \in Strings /\ Boundary(s, 0) /\ Boundary(s, Len(s)) /\ Len(s) \in Nat
      BY <1>1, StringType
    <3>2. text' \in Strings /\ \A c : Boundary(s, c) => Boundary(text', a + c)
      BY <1>2, <2>2, <3>1, SplicedString
    <3>3. a \in Nat
      BY <1>2, <2>2, StringType DEF Cuttable
    <3>4. \E c, d : within = <<a + c, a + d>> /\ Boundary(s, c) /\ Boundary(s, d) /\ c <= d
                   /\ c \in Nat /\ d \in Nat
      <4>1. CASE sel = NoRange
        <5>1. within = <<a + Len(s), a + Len(s)>>
          BY <4>1 DEF NewSelection
        <5>2. Len(s) \in Nat /\ Boundary(s, Len(s)) /\ Len(s) <= Len(s)
          BY <3>1
        <5> HIDE DEF a, within
        <5> QED
          BY <5>1, <5>2, Zenon
      <4>2. CASE sel # NoRange
        <5>1. sel[1] \in Nat /\ sel[2] \in Nat /\ sel[1] <= sel[2]
          BY <1>1, <4>2
        <5>2. /\ Boundary(s, Utf8OffsetOf(s, sel[1])) /\ Boundary(s, Utf8OffsetOf(s, sel[2]))
              /\ Utf8OffsetOf(s, sel[1]) <= Utf8OffsetOf(s, sel[2])
              /\ Utf8OffsetOf(s, sel[1]) \in Nat /\ Utf8OffsetOf(s, sel[2]) \in Nat
          BY <3>1, <5>1, Utf8OffsetIsBoundary
        <5> QED
          BY <4>2, <5>2 DEF NewSelection
      <4> QED
        BY <4>1, <4>2
    <3>5. PICK c, d : within = <<a + c, a + d>> /\ Boundary(s, c) /\ Boundary(s, d) /\ c <= d
                      /\ c \in Nat /\ d \in Nat
      BY <3>4
    <3>6. start' = a + c /\ end' = a + d
      BY <2>2, <3>5
    <3>7. SelectionFits'
      BY <3>2, <3>3, <3>5, <3>6 DEF SelectionFits
    <3>8. MarkFits'
      <4>1. Boundary(text', a + 0) /\ a + 0 = a /\ Boundary(text', a + Len(s))
        BY <3>1, <3>2, <3>3
      <4> QED
        BY <2>2, <3>1, <3>3, <4>1 DEF MarkFits
    <3>9. TypeOK'
      <4>1. marked' \in (Nat \X Nat) \cup {NoRange}
        BY <2>2, <3>1, <3>3
      <4>2. text' \in Strings /\ composed' \in Strings
        BY <2>2, <3>1, <3>2
      <4>3. start' \in Nat /\ end' \in Nat
        BY <3>3, <3>5, <3>6
      <4>4. reversed' = FALSE /\ stale' = FALSE
        BY <2>2
      <4>5. /\ layout' \in Strings \cup {NoLayout}
            /\ selecting' \in BOOLEAN
            /\ panicked' \in BOOLEAN
        <5>1. layout' = layout /\ selecting' = selecting /\ panicked' = panicked
          BY <2>2
        <5> QED
          BY <5>1, Zenon DEF Sound, RangesFit, TypeOK
      <4> QED
        BY <4>1, <4>2, <4>3, <4>4, <4>5, Zenon DEF TypeOK
    <3> QED
      BY <2>2, <3>7, <3>8, <3>9 DEF Sound, RangesFit
  <2> QED
    BY <1>5, <2>1, <2>2 DEF ReplaceAndMark
<1>6. CASE UnmarkText
  <2>1. <<>> \in Strings
    BY DEF Strings
  <2> QED
    BY <1>6, <2>1 DEF UnmarkText, selVars, Sound, RangesFit, TypeOK, MarkFits, SelectionFits, Boundary
<1> QED
  BY <1>4, <1>5, <1>6 DEF InputMethod

LEMMA PaintStep == Sound /\ Paint => RangesFit'
BY TextFieldAssumption
DEF Paint, selVars, Sound, RangesFit, TypeOK, MarkFits, SelectionFits, Boundary

\* No sequence of keys, mouse and input method events, on texts of any length
\* and over any characters, takes the selection or the composition outside
\* the text or into a character, or ends in a panic, unless a mouse event was
\* looked up in the layout of another text (ui_widgets.rs).
THEOREM RangesAlwaysFit == Spec => []RangesFit
<1>1. Init => RangesFit
  <2> SUFFICES ASSUME Init PROVE RangesFit
    OBVIOUS
  <2>1. text \in Strings /\ <<>> \in Strings
    BY TextFieldAssumption DEF Init, Strings
  <2>2. Boundary(text, 0)
    BY <2>1, StringType
  <2>3. 0 \in Nat /\ 0 <= 0
    OBVIOUS
  <2>4. TypeOK
    BY <2>1, <2>3, Zenon DEF Init, TypeOK
  <2>5. MarkFits
    BY Zenon DEF Init, MarkFits
  <2>6. SelectionFits /\ ~panicked
    <3>1. start = 0 /\ end = 0 /\ panicked = FALSE
      BY DEF Init
    <3> QED
      BY <2>2, <2>3, <3>1, Zenon DEF SelectionFits
  <2> QED
    BY <2>4, <2>5, <2>6, Zenon DEF RangesFit
<1>2. RangesFit /\ [Next]_vars => RangesFit'
  <2> SUFFICES ASSUME RangesFit, [Next]_vars PROVE RangesFit'
    OBVIOUS
  <2>1. CASE UNCHANGED vars
    BY <2>1 DEF vars, RangesFit, TypeOK, MarkFits, SelectionFits, Boundary
  <2>2. CASE Next
    BY <2>2, KeyStep, MouseStep, InputStep, PaintStep DEF Next, Sound
  <2> QED
    BY <2>1, <2>2
<1> QED
  BY <1>1, <1>2, PTL DEF Spec
-----------------------------------------------------------------------------
(* Selecting.                                                              *)

LEMMA SelectHoldsAnchor ==
  ASSUME reversed \in BOOLEAN, NEW o, NEW old, SelectTo(o, old)
  PROVE  Anchor' = Anchor
<1>1. CASE reversed = FALSE
  BY <1>1 DEF SelectTo, Anchor
<1>2. CASE reversed = TRUE
  BY <1>2 DEF SelectTo, Anchor
<1> QED
  BY <1>1, <1>2

\* A selection that is extended by key or mouse, past its other end and back,
\* keeps the end where it was begun (select_to of ui_widgets.rs), also when
\* the mouse was looked up in the layout of another text.
THEOREM AnchorAlwaysHeld == Spec => AnchorIsHeld
<1>1. RangesFit /\ [Next]_vars => [Extends => Anchor' = Anchor]_vars
  <2> SUFFICES ASSUME RangesFit, Extends PROVE Anchor' = Anchor
    OBVIOUS
  <2>1. reversed \in BOOLEAN
    BY DEF RangesFit, TypeOK
  <2>2. CASE SelectLeft \/ SelectRight
    BY <2>1, <2>2, SelectHoldsAnchor DEF SelectLeft, SelectRight
  <2>3. ASSUME NEW o \in MouseIndex, MouseMove(o) \/ MouseDown(o, TRUE) PROVE Anchor' = Anchor
    BY <2>1, <2>3, SelectHoldsAnchor DEF MouseMove, MouseDown
  <2> QED
    BY <2>2, <2>3 DEF Extends
<1> QED
  BY <1>1, RangesAlwaysFit, PTL DEF Spec, AnchorIsHeld
-----------------------------------------------------------------------------
(* Composing.                                                              *)

\* The inserted string is found where it was put.
LEMMA SplicedHolds ==
  ASSUME text \in Strings, NEW new \in Strings, NEW a, NEW b, Cuttable(a, b)
  PROVE  /\ a + Len(new) <= Len(Spliced(a, b, new))
         /\ SubSeq(Spliced(a, b, new), a + 1, a + Len(new)) = new
<1> DEFINE all == Spliced(a, b, new)
<1>1. Len(text) \in Nat /\ new \in Seq(Bytes) /\ Len(new) \in Nat
  BY StringType
<1>2. a \in 0 .. Len(text) /\ b \in 0 .. Len(text)
  BY DEF Cuttable, Boundary
<1>3. /\ all \in Seq(Bytes) /\ Len(all) = a + Len(new) + (Len(text) - b)
      /\ \A i \in 1 .. Len(new) : all[a + i] = new[i]
  BY SplicedParts
<1> HIDE DEF all
<1>4. a + Len(new) <= Len(all)
  BY <1>1, <1>2, <1>3
<1> DEFINE cut == SubSeq(all, a + 1, a + Len(new))
<1>5. cut \in Seq(Bytes) /\ Len(cut) = Len(new) /\ \A i \in 1 .. Len(new) : cut[i] = new[i]
  <2> DEFINE m == a + 1
             n == a + Len(new)
  <2>1. m \in Int /\ n \in Int
    BY <1>1, <1>2
  <2>2. n - m + 1 = Len(new) /\ \A i \in 1 .. Len(new) : m + i - 1 = a + i
    BY <1>1, <1>2
  <2>3. (m <= n => n - m + 1 = Len(new)) /\ (~(m <= n) => Len(new) = 0)
    BY <1>1, <1>2
  <2>4. \A i \in m .. n : all[i] \in Bytes
    <3>1. \A i \in 1 .. Len(all) : all[i] \in Bytes
      BY <1>3
    <3>2. Len(all) \in Nat /\ \A i \in m .. n : i \in 1 .. Len(all)
      BY <1>1, <1>2, <1>3, <1>4
    <3> QED
      BY <3>1, <3>2
  <2> HIDE DEF m, n
  <2>5. /\ SubSeq(all, m, n) \in Seq(Bytes)
        /\ Len(SubSeq(all, m, n)) = IF m <= n THEN n - m + 1 ELSE 0
        /\ \A i \in 1 .. n - m + 1 : SubSeq(all, m, n)[i] = all[m + i - 1]
    BY <2>1, <2>4, SubSeqProperties
  <2>6. Len(SubSeq(all, m, n)) = Len(new)
    BY <2>3, <2>5
  <2>7. \A i \in 1 .. Len(new) : SubSeq(all, m, n)[i] = new[i]
    BY <1>3, <2>5, <2>2
  <2> QED
    BY <2>5, <2>6, <2>7 DEF m, n
<1> HIDE DEF cut
<1>6. cut = new
  BY <1>1, <1>5, SeqEqual
<1> QED
  BY <1>4, <1>6 DEF all, cut

\* What the steps that leave the text alone leave.
LEMMA MarkStays ==
  MarkIsComposition /\ UNCHANGED <<text, marked, composed>> => MarkIsComposition'
BY DEF MarkIsComposition

\* ReplaceRange takes the mark away wherever it cuts.
LEMMA EditUnmarks ==
  ASSUME MarkIsComposition, NEW a, NEW b, NEW new, ReplaceRange(a, b, new)
  PROVE  MarkIsComposition'
<1>1. CASE Panics
  BY <1>1, MarkStays DEF Panics
<1>2. CASE AfterEdit
  BY <1>2 DEF AfterEdit, MarkIsComposition
<1> QED
  BY <1>1, <1>2 DEF ReplaceRange

LEMMA MarkStep == Sound /\ MarkIsComposition /\ [Next]_vars => MarkIsComposition'
<1> SUFFICES ASSUME Sound, MarkIsComposition, [Next]_vars PROVE MarkIsComposition'
  OBVIOUS
<1>1. CASE Paint \/ UNCHANGED vars
  BY <1>1, MarkStays DEF Paint, vars
<1>2. CASE Mouse
  BY <1>2, MarkStays DEF Mouse, MouseDown, MouseMove, MouseUp, KeyKeeps
<1>3. CASE Key
  <2>1. CASE \/ Left \/ Right \/ SelectLeft \/ SelectRight \/ SelectAll \/ HomeKey \/ EndKey
             \/ Copy
    BY <2>1, MarkStays
    DEF Left, Right, SelectLeft, SelectRight, SelectAll, HomeKey, EndKey, Copy, KeyKeeps, Panics
  <2>2. CASE Backspace \/ Delete
    <3>1. ASSUME NEW to, Erase(to) PROVE MarkIsComposition'
      BY <3>1, EditUnmarks DEF Erase
    <3> QED
      BY <2>2, <3>1 DEF Backspace, Delete
  <2>3. CASE Cut \/ \E s \in Typed : Paste(s)
    BY <2>3, EditUnmarks DEF Cut, Paste, ReplaceSelection
  <2> QED
    BY <1>3, <2>1, <2>2, <2>3 DEF Key
<1>4. CASE InputMethod
  <2>1. ASSUME NEW s \in Typed, NEW r \in Ranges \cup {NoRange}, ReplaceTextInRange(r, s)
        PROVE  MarkIsComposition'
    BY <2>1, EditUnmarks DEF ReplaceTextInRange
  <2>2. CASE UnmarkText
    BY <2>2 DEF UnmarkText, MarkIsComposition
  <2>3. ASSUME NEW s \in Typed, NEW r \in Ranges \cup {NoRange}, NEW sel \in Ranges \cup {NoRange},
               ReplaceAndMark(r, s, sel)
        PROVE  MarkIsComposition'
    <3> DEFINE a == PendingRange(r)[1]
               b == PendingRange(r)[2]
    <3>1. CASE Panics
      BY <3>1, MarkStays DEF Panics
    <3>2. CASE /\ Cuttable(a, b)
               /\ text' = Spliced(a, b, s)
               /\ marked' = IF s = <<>> THEN NoRange ELSE <<a, a + Len(s)>>
               /\ composed' = s
      <4>1. text \in Strings /\ s \in Strings
        BY TextFieldAssumption DEF Sound, RangesFit, TypeOK
      <4>2. a + Len(s) <= Len(text') /\ SubSeq(text', a + 1, a + Len(s)) = s
        BY <3>2, <4>1, SplicedHolds
      <4> HIDE DEF a, b
      <4>3. marked' # NoRange => marked'[1] = a /\ marked'[2] = a + Len(s)
        BY <3>2
      <4> QED
        BY <3>2, <4>2, <4>3 DEF MarkIsComposition
    <3> QED
      BY <2>3, <3>1, <3>2 DEF ReplaceAndMark
  <2> QED
    BY <1>4, <2>1, <2>2, <2>3 DEF InputMethod
<1> QED
  BY <1>1, <1>2, <1>3, <1>4 DEF Next

\* What is marked is what the input method put there, in whatever order keys,
\* pastes, the mouse and the input method come: the mark never stays on other
\* text (replace_range and replace_and_mark_text_in_range of ui_widgets.rs).
THEOREM MarkAlwaysComposition == Spec => []MarkIsComposition
<1>1. Init => MarkIsComposition
  BY DEF Init, MarkIsComposition
<1>2. RangesFit /\ MarkIsComposition /\ [Next]_vars => MarkIsComposition'
  <2> SUFFICES ASSUME RangesFit, MarkIsComposition, [Next]_vars PROVE MarkIsComposition'
    OBVIOUS
  <2>1. CASE Next
    BY <2>1, MarkStep DEF Next, Sound
  <2>2. CASE UNCHANGED vars
    BY <2>2, MarkStays DEF vars
  <2> QED
    BY <2>1, <2>2
<1> QED
  BY <1>1, <1>2, RangesAlwaysFit, PTL DEF Spec
-----------------------------------------------------------------------------
(* Offsets in UTF-16 units.                                                *)

\* Between two boundaries there is a character, which counts.
LEMMA UnitsGrow ==
  ASSUME NEW s \in Strings, NEW b, Boundary(s, b), NEW c, Boundary(s, c)
  PROVE  /\ Units(s, b) \in Nat
         /\ b < c => Units(s, b) < Units(s, c)
<1> DEFINE leadsB == {i \in 1 .. b : s[i] \in Lead}
           leadsC == {i \in 1 .. c : s[i] \in Lead}
           widesB == {i \in 1 .. b : s[i] \in Wide}
           widesC == {i \in 1 .. c : s[i] \in Wide}
<1>1. b \in Nat /\ c \in Nat /\ Len(s) \in Nat /\ b <= Len(s) /\ c <= Len(s)
  BY StringType DEF Boundary
<1>2. IsFiniteSet(leadsB) /\ IsFiniteSet(leadsC) /\ IsFiniteSet(widesB) /\ IsFiniteSet(widesC)
  <2>1. IsFiniteSet(1 .. b) /\ IsFiniteSet(1 .. c)
    BY <1>1, FS_Interval
  <2>2. /\ leadsB \in SUBSET (1 .. b) /\ widesB \in SUBSET (1 .. b)
        /\ leadsC \in SUBSET (1 .. c) /\ widesC \in SUBSET (1 .. c)
    OBVIOUS
  <2> HIDE DEF leadsB, leadsC, widesB, widesC
  <2> QED
    BY <2>1, <2>2, FS_Subset
<1>3. /\ Units(s, b) = Cardinality(leadsB) + Cardinality(widesB)
      /\ Units(s, c) = Cardinality(leadsC) + Cardinality(widesC)
  BY DEF Units
<1>4. ASSUME b < c
      PROVE  leadsB \in SUBSET leadsC /\ widesB \in SUBSET widesC /\ leadsB # leadsC
  <2>1. leadsB \in SUBSET leadsC /\ widesB \in SUBSET widesC
    BY <1>1, <1>4
  <2>2. s[b + 1] \in Lead
    BY <1>1, <1>4 DEF Boundary
  <2>3. b + 1 \in leadsC /\ b + 1 \notin leadsB
    BY <1>1, <1>4, <2>2
  <2> HIDE DEF leadsB, leadsC, widesB, widesC
  <2> QED
    BY <2>1, <2>3
<1> HIDE DEF leadsB, leadsC, widesB, widesC
<1>5. /\ Cardinality(leadsB) \in Nat /\ Cardinality(leadsC) \in Nat
      /\ Cardinality(widesB) \in Nat /\ Cardinality(widesC) \in Nat
  BY <1>2, FS_CardinalityType
<1>6. Units(s, b) \in Nat
  BY <1>3, <1>5
<1>7. ASSUME b < c PROVE Units(s, b) < Units(s, c)
  <2>1. Cardinality(leadsB) <= Cardinality(leadsC) /\ Cardinality(leadsC) # Cardinality(leadsB)
    BY <1>2, <1>4, <1>7, FS_Subset
  <2>2. Cardinality(widesB) <= Cardinality(widesC)
    BY <1>2, <1>4, <1>7, FS_Subset
  <2> QED
    BY <1>3, <1>5, <2>1, <2>2
<1> QED
  BY <1>6, <1>7

\* The least element of a set is the one that is known to be.
LEMMA LeastIs ==
  ASSUME NEW S, NEW o \in S, o \in Nat, \A b \in S : b \in Nat /\ o <= b
  PROVE  Least(S) = o
<1>1. S \in SUBSET Nat /\ S # {}
  OBVIOUS
<1>2. Least(S) \in S /\ Least(S) <= o
  BY <1>1, LeastIsLeast
<1>3. Least(S) \in Nat /\ o <= Least(S)
  BY <1>2
<1> QED
  BY <1>2, <1>3

\* An offset between two characters comes back when it is told in UTF-16
\* units, and its units are those of the bytes before it.
LEMMA UnitsComeBack ==
  ASSUME NEW s \in Strings, NEW o, Boundary(s, o)
  PROVE  /\ OffsetToUtf16(s, o) = Units(s, o)
         /\ Utf8OffsetOf(s, Units(s, o)) = o
<1>1. o \in Nat /\ Len(s) \in Nat /\ o <= Len(s)
  BY StringType DEF Boundary
<1> DEFINE from == {b \in Boundaries(s) : b >= o \/ b = Len(s)}
           past == {b \in Boundaries(s) : Units(s, b) >= Units(s, o) \/ b = Len(s)}
<1>2. \A b \in Boundaries(s) : b \in Nat /\ b <= Len(s) /\ Boundary(s, b)
  BY <1>1 DEF Boundaries
<1>3. o \in Boundaries(s)
  BY <1>1 DEF Boundaries
<1>4. Least(from) = o
  <2>1. o \in from /\ \A b \in from : b \in Nat /\ o <= b
    BY <1>1, <1>2, <1>3
  <2> HIDE DEF from
  <2> QED
    BY <1>1, <2>1, LeastIs
<1>5. Least(past) = o
  <2>1. \A b \in Boundaries(s) : b < o => Units(s, b) < Units(s, o)
    BY <1>2, UnitsGrow
  <2>2. \A b \in Boundaries(s) : Units(s, b) \in Nat
    BY <1>2, UnitsGrow
  <2>3. o \in past
    BY <1>3, <2>2
  <2>4. ASSUME NEW b \in past PROVE b \in Nat /\ o <= b
    <3>1. b \in Boundaries(s) /\ (Units(s, b) >= Units(s, o) \/ b = Len(s))
      OBVIOUS
    <3>2. b \in Nat /\ Units(s, b) \in Nat /\ Units(s, o) \in Nat
          /\ (b < o => Units(s, b) < Units(s, o))
      BY <1>2, <1>3, <2>1, <2>2, <3>1
    <3> QED
      BY <1>1, <3>1, <3>2
  <2> HIDE DEF past
  <2> QED
    BY <1>1, <2>3, <2>4, LeastIs
<1> QED
  BY <1>4, <1>5 DEF OffsetToUtf16, Utf8OffsetOf

\* What an input method is told of the selection, of its composition and of a
\* point, in UTF-16 units, comes back as the same bytes, for characters of
\* one and of two units (range_to_utf16 and range_from_utf16).
THEOREM Utf16AlwaysAgrees == Spec => []Utf16Agrees
<1>1. RangesFit => Utf16Agrees
  <2> SUFFICES ASSUME RangesFit PROVE Utf16Agrees
    OBVIOUS
  <2>1. text \in Strings
    BY DEF RangesFit, TypeOK
  <2>2. ASSUME NEW a, NEW b, Boundary(text, a), Boundary(text, b)
        PROVE  RangeFromUtf16(text, RangeToUtf16(text, <<a, b>>)) = <<a, b>>
    BY <2>1, <2>2, UnitsComeBack DEF RangeFromUtf16, RangeToUtf16
  <2>3. ~stale => RangeFromUtf16(text, RangeToUtf16(text, <<start, end>>)) = <<start, end>>
    BY <2>2 DEF RangesFit, SelectionFits
  <2>4. marked # NoRange => RangeFromUtf16(text, RangeToUtf16(text, marked)) = marked
    <3>1. marked # NoRange => marked = <<marked[1], marked[2]>>
      BY DEF RangesFit, TypeOK
    <3> QED
      BY <2>2, <3>1 DEF RangesFit, MarkFits
  <2>5. ASSUME NEW u \in CharacterIndexForPoint
        PROVE  OffsetToUtf16(text, Utf8OffsetOf(text, u)) = u
    <3>1. PICK b : Boundary(text, b) /\ u = OffsetToUtf16(text, b)
      BY <2>5 DEF CharacterIndexForPoint, Boundaries
    <3> QED
      BY <2>1, <3>1, UnitsComeBack
  <2> QED
    BY <2>3, <2>4, <2>5 DEF Utf16Agrees
<1> QED
  BY <1>1, RangesAlwaysFit, PTL
=============================================================================
