-------------------------------- MODULE Cells_proofs --------------------------------
(* For every layout, every row and every declaration of missing values: where the bytes of a *)
(* cell lie in the row, that a string comes back as it was written, to its padding, and that    *)
(* comparing keys is comparing strings up to their padding.  From these two facts about the      *)
(* row and about the declarations the two properties follow, because a cell depends on nothing    *)
(* but the row and the layout, in whatever order cells are asked for.                              *)
EXTENDS Cells, SequenceLemmas

-----------------------------------------------------------------------------------
(* Where the bytes of a cell lie *)

(* What CellOf(variable, cell) is to be: each segment at its offset from the first. *)
CellSpreads(variable, cell) ==
  /\ Len(CellOf(variable, cell))
       = EndOf(variable.segments[Len(variable.segments)]) - variable.segments[1].offset
  /\ \A k \in 1..Len(variable.segments): \A i \in 1..variable.segments[k].stride:
       /\ (variable.segments[k].offset - variable.segments[1].offset) + i \in 1..Len(CellOf(variable, cell))
       /\ CellOf(variable, cell)[(variable.segments[k].offset - variable.segments[1].offset) + i]
            = WrittenByte(variable, cell, k - 1, i - 1)

LEMMA SegmentFacts ==
  ASSUME NEW variable, WellFormed(variable)
  PROVE  /\ Len(variable.segments) \in Nat \ {0} /\ DOMAIN variable.segments = 1..Len(variable.segments)
         /\ \A k \in 1..Len(variable.segments):
              /\ variable.segments[k].offset \in Nat /\ variable.segments[k].content \in Nat
              /\ variable.segments[k].stride \in Nat \ {0}
              /\ variable.segments[k].content <= variable.segments[k].stride
              /\ EndOf(variable.segments[k]) \in Nat
         /\ \A k \in 1..Len(variable.segments) - 1:
              variable.segments[k + 1].offset = EndOf(variable.segments[k])
<1>1. variable.segments \in Seq(SegmentLayout) /\ variable.segments # << >>
  BY DEF WellFormed
<1>2. \A k \in 1..Len(variable.segments): variable.segments[k] \in SegmentLayout
  BY <1>1
<1>3. Len(variable.segments) \in Nat \ {0} /\ DOMAIN variable.segments = 1..Len(variable.segments)
  BY <1>1
<1>4. \A k \in 1..Len(variable.segments):
        /\ variable.segments[k].offset \in Nat /\ variable.segments[k].content \in Nat
        /\ variable.segments[k].stride \in Nat \ {0}
  BY <1>2 DEF SegmentLayout
<1>5. \A k \in 1..Len(variable.segments): EndOf(variable.segments[k]) \in Nat
  BY <1>4 DEF EndOf
<1>6. \A k \in 1..Len(variable.segments): variable.segments[k].content <= variable.segments[k].stride
  BY <1>3, Zenon DEF WellFormed
<1>7. \A k \in 1..Len(variable.segments) - 1: variable.segments[k + 1].offset = EndOf(variable.segments[k])
  BY Zenon DEF WellFormed
<1> QED
  BY <1>3, <1>4, <1>5, <1>6, <1>7

LEMMA CellIsItsSegments ==
  ASSUME NEW variable, NEW cell, WellFormed(variable), NEW S,
         \A k \in Nat: \A d \in Nat: WrittenByte(variable, cell, k, d) \in S
  PROVE  CellOf(variable, cell) \in Seq(S) /\ CellSpreads(variable, cell)
<1> DEFINE segments == variable.segments
           n     == Len(segments)
           o     == segments[1].offset
           parts == [k \in DOMAIN segments |-> SegmentOf(variable, cell, k)]
           start == [k \in 1..(n + 1) |-> IF k <= n THEN segments[k].offset - o ELSE EndOf(segments[n]) - o]
<1>1. /\ n \in Nat \ {0} /\ DOMAIN segments = 1..n
      /\ \A k \in 1..n: /\ segments[k].offset \in Nat /\ segments[k].stride \in Nat \ {0}
                        /\ EndOf(segments[k]) = segments[k].offset + segments[k].stride
      /\ \A k \in 1..n - 1: segments[k + 1].offset = EndOf(segments[k])
  BY SegmentFacts DEF EndOf
<1> HIDE DEF segments, n
<1>2. ASSUME NEW k \in 1..n
      PROVE  /\ parts[k] \in Seq(S) /\ Len(parts[k]) = segments[k].stride
             /\ \A i \in 1..segments[k].stride: parts[k][i] = WrittenByte(variable, cell, k - 1, i - 1)
  <2>1. parts[k] = [d \in 1..segments[k].stride |-> WrittenByte(variable, cell, k - 1, d - 1)]
    BY <1>1 DEF SegmentOf, segments
  <2>2. \A d \in 1..segments[k].stride: WrittenByte(variable, cell, k - 1, d - 1) \in S
    BY <1>1
  <2>3. segments[k].stride \in Nat
    BY <1>1
  <2> HIDE DEF parts
  <2> QED
    BY <2>1, <2>2, <2>3
<1>3. parts \in Seq(Seq(S)) /\ Len(parts) = n
  BY <1>1, <1>2
<1> HIDE DEF parts
<1>4. start[1] = 0
  <2>1. o \in Nat /\ 1 \in 1..(n + 1) /\ 1 <= n
    BY <1>1
  <2> QED
    BY <2>1
<1>5. \A k \in 1..n: start[k + 1] = start[k] + Len(parts[k])
  <2> SUFFICES ASSUME NEW k \in 1..n PROVE start[k + 1] = start[k] + Len(parts[k])
    OBVIOUS
  <2>1. start[k] = segments[k].offset - o /\ o \in Nat
    BY <1>1
  <2>2. start[k + 1] = EndOf(segments[k]) - o
    <3>1. CASE k = n
      BY <1>1, <3>1
    <3>2. CASE k # n
      <4>1. k \in 1..n - 1 /\ k + 1 <= n /\ k + 1 \in 1..(n + 1)
        BY <1>1, <3>2
      <4> QED
        BY <1>1, <4>1
    <3> QED
      BY <3>1, <3>2
  <2>3. Len(parts[k]) = segments[k].stride
    BY <1>2
  <2> HIDE DEF start, o
  <2> QED
    BY <1>1, <2>1, <2>2, <2>3
<1>6. \A k \in 1..n: start[k] = segments[k].offset - o
  BY <1>1
<1>7. start[n + 1] = EndOf(segments[n]) - o
  BY <1>1
<1> HIDE DEF start, o
<1>8. CellOf(variable, cell) = FlattenSeq(parts)
  BY DEF CellOf, parts, segments
<1>9. Spread(FlattenSeq(parts), parts, start, n) /\ FlattenSeq(parts) \in Seq(S)
  BY <1>3, <1>4, <1>5, FlattenSpreads, FlattenTyped
<1>10. Len(FlattenSeq(parts)) = EndOf(segments[n]) - o
  BY <1>7, <1>9 DEF Spread
<1>11. \A k \in 1..n: \A i \in 1..segments[k].stride:
         /\ (segments[k].offset - o) + i \in 1..Len(FlattenSeq(parts))
         /\ FlattenSeq(parts)[(segments[k].offset - o) + i] = WrittenByte(variable, cell, k - 1, i - 1)
  <2> SUFFICES ASSUME NEW k \in 1..n, NEW i \in 1..segments[k].stride
               PROVE  /\ (segments[k].offset - o) + i \in 1..Len(FlattenSeq(parts))
                      /\ FlattenSeq(parts)[(segments[k].offset - o) + i] = WrittenByte(variable, cell, k - 1, i - 1)
    OBVIOUS
  <2>1. i \in 1..Len(parts[k]) /\ parts[k][i] = WrittenByte(variable, cell, k - 1, i - 1)
    BY <1>2
  <2>2. start[k] + i \in 1..Len(FlattenSeq(parts)) /\ FlattenSeq(parts)[start[k] + i] = parts[k][i]
    BY <1>9, <2>1, Zenon DEF Spread
  <2> QED
    BY <1>6, <2>1, <2>2
<1> QED
  BY <1>8, <1>9, <1>10, <1>11 DEF CellSpreads, segments, n, o

(* What RowOf(l, cells) is to be: every segment of every variable at its offset. *)
RowSpreads(l, cells) ==
  \A v \in DOMAIN l: \A k \in 1..Len(l[v].segments): \A i \in 1..l[v].segments[k].stride:
    /\ l[v].segments[k].offset + i \in 1..Len(RowOf(l, cells))
    /\ RowOf(l, cells)[l[v].segments[k].offset + i] = WrittenByte(l[v], cells[v], k - 1, i - 1)

LEMMA RowIsItsCells ==
  ASSUME NEW l, LaysOut(l), NEW cells, NEW S,
         \A v \in DOMAIN l: \A k \in Nat: \A d \in Nat: WrittenByte(l[v], cells[v], k, d) \in S
  PROVE  RowOf(l, cells) \in Seq(S) /\ RowSpreads(l, cells)
<1> DEFINE n        == Len(l)
           ends(v)  == EndOf(l[v].segments[Len(l[v].segments)])
           first(v) == l[v].segments[1].offset
           parts    == [v \in DOMAIN l |-> CellOf(l[v], cells[v])]
           start    == [v \in 1..(n + 1) |-> IF v = 1 THEN 0 ELSE ends(v - 1)]
           flat     == FlattenSeq(parts)
<1>1. DOMAIN l = 1..n /\ n \in Nat
  BY DEF LaysOut
<1>2. \A v \in 1..n: WellFormed(l[v]) /\ first(v) = IF v = 1 THEN 0 ELSE ends(v - 1)
  BY <1>1 DEF LaysOut
<1>3. \A v \in 1..n: first(v) \in Nat /\ ends(v) \in Nat
  <2> SUFFICES ASSUME NEW v \in 1..n PROVE first(v) \in Nat /\ ends(v) \in Nat
    OBVIOUS
  <2>1. WellFormed(l[v])
    BY <1>2
  <2>2. Len(l[v].segments) \in Nat \ {0}
        /\ \A k \in 1..Len(l[v].segments): l[v].segments[k].offset \in Nat /\ EndOf(l[v].segments[k]) \in Nat
    BY <2>1, SegmentFacts
  <2> QED
    BY <2>2
<1>4. \A v \in 1..n: /\ parts[v] \in Seq(S) /\ parts[v] = CellOf(l[v], cells[v])
                     /\ CellSpreads(l[v], cells[v]) /\ Len(parts[v]) = ends(v) - first(v)
  <2> SUFFICES ASSUME NEW v \in 1..n
               PROVE  /\ parts[v] \in Seq(S) /\ parts[v] = CellOf(l[v], cells[v])
                      /\ CellSpreads(l[v], cells[v]) /\ Len(parts[v]) = ends(v) - first(v)
    OBVIOUS
  <2>1. parts[v] = CellOf(l[v], cells[v])
    BY <1>1
  <2>2. CellOf(l[v], cells[v]) \in Seq(S) /\ CellSpreads(l[v], cells[v])
    BY <1>1, <1>2, CellIsItsSegments
  <2> HIDE DEF parts
  <2> QED
    BY <2>1, <2>2 DEF CellSpreads
<1>5. parts \in Seq(Seq(S)) /\ Len(parts) = n
  BY <1>1, <1>4
<1>6. start[1] = 0
  BY <1>1
<1>7. \A v \in 1..n: start[v] = first(v) /\ start[v + 1] = ends(v)
  <2> SUFFICES ASSUME NEW v \in 1..n PROVE start[v] = first(v) /\ start[v + 1] = ends(v)
    OBVIOUS
  <2>1. v \in 1..(n + 1) /\ v + 1 \in 1..(n + 1) /\ v + 1 # 1 /\ (v + 1) - 1 = v
    BY <1>1
  <2>2. first(v) = IF v = 1 THEN 0 ELSE ends(v - 1)
    BY <1>2
  <2> HIDE DEF ends, first
  <2> QED
    BY <2>1, <2>2
<1> HIDE DEF start, ends, first, parts
<1>8. \A v \in 1..Len(parts): start[v + 1] = start[v] + Len(parts[v])
  BY <1>3, <1>4, <1>5, <1>7
<1>9. flat \in Seq(S) /\ Spread(flat, parts, start, n)
  BY <1>5, <1>6, <1>8, FlattenSpreads, FlattenTyped
<1>10. RowOf(l, cells) = flat
  BY DEF RowOf, parts
<1> HIDE DEF flat
<1>11. ASSUME NEW v \in DOMAIN l, NEW k \in 1..Len(l[v].segments), NEW i \in 1..l[v].segments[k].stride
       PROVE  /\ l[v].segments[k].offset + i \in 1..Len(flat)
              /\ flat[l[v].segments[k].offset + i] = WrittenByte(l[v], cells[v], k - 1, i - 1)
  <2> DEFINE at == (l[v].segments[k].offset - l[v].segments[1].offset) + i
  <2>1. v \in 1..n
    BY <1>1
  <2>2. at \in 1..Len(parts[v]) /\ parts[v][at] = WrittenByte(l[v], cells[v], k - 1, i - 1)
    BY <1>4, <2>1 DEF CellSpreads
  <2>3. l[v].segments[k].offset \in Nat /\ l[v].segments[k].stride \in Nat
    <3>1. WellFormed(l[v])
      BY <1>2, <2>1
    <3> QED
      BY <3>1, SegmentFacts
  <2>4. first(v) + at = l[v].segments[k].offset + i
    <3>1. first(v) \in Nat /\ first(v) = l[v].segments[1].offset
      BY <1>3, <2>1 DEF first
    <3> QED
      BY <2>3, <3>1
  <2> HIDE DEF at
  <2>5. start[v] + at \in 1..Len(flat) /\ flat[start[v] + at] = parts[v][at]
    BY <1>9, <2>1, <2>2, Zenon DEF Spread
  <2> QED
    BY <1>7, <2>1, <2>2, <2>4, <2>5
<1> QED
  BY <1>9, <1>10, <1>11 DEF RowSpreads

LEMMA ContributionOf ==
  ASSUME NEW l, LaysOut(l), NEW cells, row = RowOf(l, cells), RowSpreads(l, cells),
         NEW S, row \in Seq(S), NEW v \in DOMAIN l, NEW k \in 1..Len(l[v].segments)
  PROVE  /\ SegmentBytes(l[v].segments[k]) \in Seq(S)
         /\ Len(SegmentBytes(l[v].segments[k])) = l[v].segments[k].content
         /\ \A i \in 1..l[v].segments[k].content:
              SegmentBytes(l[v].segments[k])[i] = WrittenByte(l[v], cells[v], k - 1, i - 1)
<1> DEFINE o == l[v].segments[k].offset
           content == l[v].segments[k].content
           stride  == l[v].segments[k].stride
           byte(i) == WrittenByte(l[v], cells[v], k - 1, i - 1)
           slice   == SegmentBytes(l[v].segments[k])
<1>1. o \in Nat /\ content \in Nat /\ stride \in Nat \ {0} /\ content <= stride
  <2>1. WellFormed(l[v])
    BY DEF LaysOut
  <2> QED
    BY <2>1, SegmentFacts
<1>2. \A i \in 1..stride: o + i \in 1..Len(row) /\ row[o + i] = byte(i)
  BY DEF RowSpreads
<1>3. slice = SubSeq(row, o + 1, o + content)
  BY DEF SegmentBytes
<1> HIDE DEF o, content, stride, byte, slice
<1>4. o + stride \in 1..Len(row)
  BY <1>1, <1>2
<1>5. o + 1 \in 1..Len(row) + 1 /\ o + content \in (o + 1) - 1..Len(row) /\ Len(row) \in Nat
  BY <1>1, <1>4
<1>6. /\ slice \in Seq(S) /\ Len(slice) = (o + content) - (o + 1) + 1
      /\ \A i \in 1..(o + content) - (o + 1) + 1: slice[i] = row[(o + 1) + i - 1]
  BY <1>3, <1>5, SubSeqProperties
<1>7. (o + content) - (o + 1) + 1 = content
  BY <1>1
<1>8. \A i \in 1..content: i \in 1..stride /\ (o + 1) + i - 1 = o + i
  BY <1>1
<1>9. \A i \in 1..content: slice[i] = byte(i)
  BY <1>2, <1>6, <1>7, <1>8
<1> QED
  BY <1>6, <1>7, <1>9 DEF content, slice, byte

-----------------------------------------------------------------------------------
(* Padding *)

(* What Trim(s) is to be: the first n elements, up to the last that is no padding. *)
TrimmedTo(s, n) ==
  /\ n \in 0..Len(s)
  /\ Trim(s) = SubSeq(s, 1, n)
  /\ Len(Trim(s)) = n /\ \A i \in 1..n: Trim(s)[i] = s[i]
  /\ n # 0 => ~Pads(s[n])
  /\ \A i \in (n + 1)..Len(s): Pads(s[i])

LEMMA TrimIsAPrefix ==
  ASSUME NEW S, NEW s \in Seq(S)
  PROVE  Trim(s) \in Seq(S) /\ \E n \in Nat: TrimmedTo(s, n)
<1> DEFINE Significant == {j \in 1..Len(s): ~Pads(s[j])}
<1>1. Len(s) \in Nat /\ DOMAIN s = 1..Len(s) /\ Significant \in SUBSET (1..Len(s))
  OBVIOUS
<1>2. PICK n \in 0..Len(s): /\ n # 0 => ~Pads(s[n])
                            /\ \A i \in (n + 1)..Len(s): Pads(s[i])
  <2>1. CASE Significant = {}
    <3>1. \A i \in (0 + 1)..Len(s): Pads(s[i])
      BY <2>1
    <3> QED
      BY <1>1, <3>1
  <2>2. CASE Significant # {}
    <3> HIDE DEF Significant
    <3>1. Max(Significant) \in Significant /\ \A y \in Significant: y <= Max(Significant)
      BY <1>1, <2>2, GreatestNumber
    <3>2. PICK m \in Significant: \A y \in Significant: y <= m
      BY <3>1
    <3>3. m \in 1..Len(s) /\ ~Pads(s[m])
      BY <3>2 DEF Significant
    <3>4. \A i \in (m + 1)..Len(s): i \in 1..Len(s) /\ ~(i <= m)
      BY <1>1, <3>3
    <3>5. \A i \in (m + 1)..Len(s): Pads(s[i])
      BY <3>2, <3>4 DEF Significant
    <3> QED
      BY <1>1, <3>3, <3>5
  <2> QED
    BY <2>1, <2>2
<1>3. Kept(s) = 1..n
  <2>1. ASSUME NEW i \in Kept(s) PROVE i \in 1..n
    <3>1. i \in 1..Len(s) /\ \E j \in 1..Len(s): i <= j /\ ~Pads(s[j])
      BY <1>1 DEF Kept, Pads
    <3>2. PICK j \in 1..Len(s): i <= j /\ ~Pads(s[j])
      BY <3>1
    <3>3. j <= n
      BY <1>1, <1>2, <3>2
    <3> QED
      BY <1>1, <1>2, <3>1, <3>2, <3>3
  <2>2. ASSUME NEW i \in 1..n PROVE i \in Kept(s)
    <3>1. n \in 1..Len(s) /\ i \in 1..Len(s) /\ i <= n /\ ~Pads(s[n])
      BY <1>1, <1>2
    <3> QED
      BY <1>1, <3>1 DEF Kept, Pads
  <2> QED
    BY <2>1, <2>2
<1>4. Trim(s) = [i \in 1..n |-> s[i]]
  BY <1>3 DEF Trim
<1>5. SubSeq(s, 1, n) \in Seq(S) /\ Len(SubSeq(s, 1, n)) = n /\ \A i \in 1..n: SubSeq(s, 1, n)[i] = s[i]
  <2>1. 1 \in 1..Len(s) + 1 /\ n \in 1 - 1..Len(s) /\ n - 1 + 1 = n /\ \A i \in 1..n: 1 + i - 1 = i
    BY <1>1, <1>2
  <2> QED
    BY <2>1, SubSeqProperties
<1>6. Trim(s) \in Seq(S) /\ Len(Trim(s)) = n /\ \A i \in 1..n: Trim(s)[i] = s[i]
  <2>1. \A i \in 1..n: s[i] \in S
    BY <1>1, <1>2
  <2>2. n \in Nat
    BY <1>1, <1>2
  <2> QED
    BY <1>4, <2>1, <2>2
<1>7. Trim(s) = SubSeq(s, 1, n)
  <2> DEFINE t == Trim(s)
             r == SubSeq(s, 1, n)
  <2>1. t \in Seq(S) /\ r \in Seq(S) /\ Len(t) = Len(r) /\ \A i \in 1..Len(t): t[i] = r[i]
    BY <1>5, <1>6
  <2> HIDE DEF t, r
  <2>2. t = r
    BY <2>1, SeqEqual
  <2> QED
    BY <2>2 DEF t, r
<1> QED
  BY <1>2, <1>6, <1>7 DEF TrimmedTo

(* Padding at the end makes no difference. *)
LEMMA TrimDropsPadding ==
  ASSUME NEW S, NEW s \in Seq(S), NEW t \in Seq(S), Len(t) <= Len(s),
         \A i \in 1..Len(t): s[i] = t[i],
         \A i \in (Len(t) + 1)..Len(s): Pads(s[i])
  PROVE  Trim(s) = Trim(t)
<1>1. /\ DOMAIN s = 1..Len(s) /\ DOMAIN t = 1..Len(t) /\ Len(s) \in Nat /\ Len(t) \in Nat
  OBVIOUS
<1>2. Kept(s) = Kept(t)
  <2>1. ASSUME NEW i \in Kept(s) PROVE i \in Kept(t)
    <3>1. i \in 1..Len(s) /\ \E j \in 1..Len(s): i <= j /\ ~Pads(s[j])
      BY <1>1 DEF Kept, Pads
    <3>2. PICK j \in 1..Len(s): i <= j /\ ~Pads(s[j])
      BY <3>1
    <3>3. j \in 1..Len(t)
      BY <1>1, <3>2
    <3>4. i \in 1..Len(t)
      BY <1>1, <3>1, <3>2, <3>3
    <3> QED
      BY <1>1, <3>2, <3>3, <3>4 DEF Kept, Pads
  <2>2. ASSUME NEW i \in Kept(t) PROVE i \in Kept(s)
    <3>1. i \in 1..Len(t) /\ \E j \in 1..Len(t): i <= j /\ ~Pads(t[j])
      BY <1>1 DEF Kept, Pads
    <3>2. PICK j \in 1..Len(t): i <= j /\ ~Pads(t[j])
      BY <3>1
    <3>3. j \in 1..Len(s) /\ i \in 1..Len(s)
      BY <1>1, <3>1
    <3> QED
      BY <1>1, <3>2, <3>3 DEF Kept, Pads
  <2> QED
    BY <2>1, <2>2
<1>3. \A i \in Kept(t): s[i] = t[i]
  BY <1>1 DEF Kept
<1> QED
  BY <1>2, <1>3 DEF Trim

-----------------------------------------------------------------------------------
(* A string comes back *)

(* What is written past a string's width in its one segment is padding, so that trimming      *)
(* drops it; several segments are joined and cut to the width.                                  *)
LEMMA StringComesBack ==
  ASSUME PastWidth \in {Space, Nul},
         NEW l, LaysOut(l), NEW cells, row = RowOf(l, cells), RowSpreads(l, cells),
         NEW S, row \in Seq(S), NEW v \in DOMAIN l,
         l[v].width # NumericWidth, cells[v] \in [1..l[v].width -> Bytes]
  PROVE  ParseStringCell(l[v]) = Trim(cells[v])
<1> DEFINE segments == l[v].segments
           n        == Len(segments)
           width    == l[v].width
           cell     == cells[v]
           W        == SegmentMax
           T        == S \cup Bytes
<1>1. WellFormed(l[v]) /\ width \in Nat
  BY DEF LaysOut, WellFormed
<1>2. /\ n \in Nat \ {0} /\ DOMAIN segments = 1..n /\ W \in Nat \ {0}
      /\ \A k \in 1..n: segments[k].content \in Nat
  BY <1>1, SegmentFacts, WidthAssumption
<1>3. /\ \A k \in 1..n - 1: segments[k].content = W
      /\ (n - 1) * W + segments[n].content >= width
  BY <1>1, Zenon DEF WellFormed, SegmentsHold
<1>4. cell \in Seq(T) /\ Len(cell) = width
  BY <1>1
<1>5. \A k \in 1..n: /\ SegmentBytes(segments[k]) \in Seq(S)
                     /\ Len(SegmentBytes(segments[k])) = segments[k].content
                     /\ \A i \in 1..segments[k].content:
                          SegmentBytes(segments[k])[i] = WrittenByte(l[v], cell, k - 1, i - 1)
  BY ContributionOf
<1>6. \A k \in 1..n: \A i \in 1..segments[k].content:
        (k - 1) * W + i <= width => WrittenByte(l[v], cell, k - 1, i - 1) = cell[(k - 1) * W + i]
  <2> SUFFICES ASSUME NEW k \in 1..n, NEW i \in 1..segments[k].content, (k - 1) * W + i <= width
               PROVE  WrittenByte(l[v], cell, k - 1, i - 1) = cell[(k - 1) * W + i]
    OBVIOUS
  <2>1. (k - 1) * W \in Int
    BY <1>2
  <2> DEFINE before == (k - 1) * W
  <2>2. before \in Int /\ before + i <= width
    BY <2>1
  <2>3. /\ (k - 1) + 1 = k /\ ~(i - 1 >= segments[k].content)
        /\ before + (i - 1) < width /\ before + (i - 1) + 1 = before + i
    <3> HIDE DEF before, segments, width
    <3> QED
      BY <1>1, <1>2, <2>2
  <2>4. WrittenByte(l[v], cell, k - 1, i - 1)
          = IF i - 1 >= segments[(k - 1) + 1].content THEN Gap
            ELSE IF before + (i - 1) < width THEN cell[before + (i - 1) + 1]
            ELSE IF n = 1 THEN PastWidth ELSE Gap
    BY DEF WrittenByte
  <2> HIDE DEF before
  <2>5. WrittenByte(l[v], cell, k - 1, i - 1) = cell[before + i]
    BY <2>3, <2>4
  <2> QED
    BY <2>5 DEF before
<1> HIDE DEF segments, n, width, cell, W
<1>7. CASE n = 1
  <2> DEFINE slice == SegmentBytes(segments[1])
  <2>1. /\ slice \in Seq(S) /\ Len(slice) = segments[1].content
        /\ \A i \in 1..segments[1].content: slice[i] = WrittenByte(l[v], cell, 0, i - 1)
    <3>1. 1 \in 1..n /\ 1 - 1 = 0
      BY <1>7
    <3> QED
      BY <1>5, <3>1
  <2>2. segments[1].content >= width /\ segments[1].content \in Nat
    <3>1. (n - 1) * W = 0
      BY <1>2, <1>7
    <3> QED
      BY <1>2, <1>3, <1>7, <3>1
  <2>3. \A i \in 1..width: WrittenByte(l[v], cell, 0, i - 1) = cell[i]
    <3> SUFFICES ASSUME NEW i \in 1..width PROVE WrittenByte(l[v], cell, 0, i - 1) = cell[i]
      OBVIOUS
    <3>1. 1 \in 1..n /\ i \in 1..segments[1].content /\ i <= width
      BY <1>1, <1>7, <2>2
    <3>2. 1 - 1 = 0 /\ (1 - 1) * W = 0 /\ 0 + i = i
      BY <1>1, <1>2
    <3>3. (1 - 1) * W + i <= width => WrittenByte(l[v], cell, 1 - 1, i - 1) = cell[(1 - 1) * W + i]
      BY <1>6, <3>1
    <3> QED
      BY <3>1, <3>2, <3>3
  <2>4. \A i \in (width + 1)..segments[1].content: WrittenByte(l[v], cell, 0, i - 1) = PastWidth
    <3> SUFFICES ASSUME NEW i \in (width + 1)..segments[1].content
                 PROVE  WrittenByte(l[v], cell, 0, i - 1) = PastWidth
      OBVIOUS
    <3>1. WrittenByte(l[v], cell, 0, i - 1)
            = IF i - 1 >= segments[0 + 1].content THEN Gap
              ELSE IF 0 * W + (i - 1) < width THEN cell[0 * W + (i - 1) + 1]
              ELSE IF n = 1 THEN PastWidth ELSE Gap
      BY DEF WrittenByte, segments, n, width, cell, W
    <3>2. 0 + 1 = 1 /\ 0 * W + (i - 1) = i - 1 /\ ~(i - 1 >= segments[1].content) /\ ~(i - 1 < width)
      BY <1>1, <1>2, <2>2
    <3> QED
      BY <1>7, <3>1, <3>2
  <2> HIDE DEF slice
  <2>5. slice \in Seq(T)
    BY <2>1
  <2>6. \A i \in 1..Len(cell): slice[i] = cell[i]
    <3> SUFFICES ASSUME NEW i \in 1..Len(cell) PROVE slice[i] = cell[i]
      OBVIOUS
    <3>1. i \in 1..width /\ i \in 1..segments[1].content
      BY <1>1, <1>4, <2>2
    <3> QED
      BY <2>1, <2>3, <3>1
  <2>7. \A i \in (Len(cell) + 1)..Len(slice): Pads(slice[i])
    <3> SUFFICES ASSUME NEW i \in (Len(cell) + 1)..Len(slice) PROVE Pads(slice[i])
      OBVIOUS
    <3>1. i \in (width + 1)..segments[1].content /\ i \in 1..segments[1].content
      BY <1>1, <1>4, <2>1, <2>2
    <3> QED
      BY <2>1, <2>4, <3>1 DEF Pads
  <2>8. Len(cell) <= Len(slice)
    BY <1>4, <2>1, <2>2
  <2>9. Trim(slice) = Trim(cell)
    <3> HIDE DEF T
    <3> QED
      BY <1>4, <2>5, <2>6, <2>7, <2>8, TrimDropsPadding
  <2> QED
    BY <1>7, <2>9 DEF ParseStringCell, slice, segments, n, cell
<1>8. CASE n # 1
  <2> DEFINE parts == [k \in DOMAIN segments |-> SegmentBytes(segments[k])]
             start == [k \in 1..(n + 1) |-> IF k = n + 1 THEN (n - 1) * W + segments[n].content ELSE (k - 1) * W]
             flat  == FlattenSeq(parts)
  <2>1. \A k \in 1..n: parts[k] = SegmentBytes(segments[k]) /\ Len(parts[k]) = segments[k].content
    BY <1>2, <1>5
  <2>2. parts \in Seq(Seq(S)) /\ Len(parts) = n
    BY <1>2, <1>5
  <2>3. start[1] = 0
    <3>1. 1 \in 1..(n + 1) /\ 1 # n + 1 /\ (1 - 1) * W = 0
      BY <1>2
    <3> QED
      BY <3>1
  <2>4. \A k \in 1..n: start[k] = (k - 1) * W
    <3>1. \A k \in 1..n: k \in 1..(n + 1) /\ k # n + 1
      BY <1>2
    <3> QED
      BY <3>1
  <2>5. start[n + 1] = (n - 1) * W + segments[n].content
    BY <1>2
  <2> HIDE DEF parts, start
  <2>6. \A k \in 1..n: start[k + 1] = start[k] + Len(parts[k])
    <3> SUFFICES ASSUME NEW k \in 1..n PROVE start[k + 1] = start[k] + Len(parts[k])
      OBVIOUS
    <3>1. CASE k = n
      BY <2>1, <2>4, <2>5, <3>1
    <3>2. CASE k # n
      <4>1. k \in 1..n - 1 /\ k + 1 \in 1..n /\ (k + 1) - 1 = k
        BY <1>2, <3>2
      <4>2. k * W = (k - 1) * W + W
        BY <1>2
      <4>3. start[k + 1] = k * W /\ start[k] = (k - 1) * W /\ Len(parts[k]) = W
        BY <1>3, <2>1, <2>4, <4>1
      <4> QED
        BY <4>2, <4>3
    <3> QED
      BY <3>1, <3>2
  <2>7. flat \in Seq(S) /\ Spread(flat, parts, start, n)
    BY <2>2, <2>3, <2>6, FlattenSpreads, FlattenTyped
  <2> HIDE DEF flat
  <2>8. Len(flat) = (n - 1) * W + segments[n].content /\ Len(flat) \in Nat /\ width <= Len(flat)
    <3>1. Len(flat) = start[n + 1] /\ start[n + 1] \in Nat
      BY <2>7, Zenon DEF Spread
    <3>2. (n - 1) * W + segments[n].content >= width
      BY <1>3
    <3> QED
      BY <1>1, <2>5, <3>1, <3>2
  <2>9. \A p \in 1..width: flat[p] = cell[p]
    <3> SUFFICES ASSUME NEW p \in 1..width PROVE flat[p] = cell[p]
      OBVIOUS
    <3>1. p \in 1..Len(flat) /\ p <= width
      BY <1>1, <2>8
    <3>2. \E k \in 1..n: \E i \in 1..Len(parts[k]): p = start[k] + i
      BY <2>7, <3>1, Zenon DEF Spread
    <3>3. PICK k \in 1..n: \E i \in 1..Len(parts[k]): p = start[k] + i
      BY <3>2
    <3>4. PICK i \in 1..Len(parts[k]): p = start[k] + i
      BY <3>3
    <3>5. flat[p] = parts[k][i]
      <4>1. flat[start[k] + i] = parts[k][i]
        BY <2>7, <3>3, <3>4, Zenon DEF Spread
      <4> QED
        BY <3>4, <4>1
    <3>6. /\ i \in 1..segments[k].content /\ p = (k - 1) * W + i
          /\ parts[k][i] = WrittenByte(l[v], cell, k - 1, i - 1)
      BY <1>5, <2>1, <2>4, <3>4
    <3>7. (k - 1) * W + i <= width => WrittenByte(l[v], cell, k - 1, i - 1) = cell[(k - 1) * W + i]
      BY <1>6, <3>6
    <3> QED
      BY <3>1, <3>5, <3>6, <3>7
  <2>10. SubSeq(flat, 1, width) = cell
    <3> DEFINE cut == SubSeq(flat, 1, width)
    <3>1. \A p \in 1..width: flat[p] \in T
      BY <1>4, <2>9
    <3>2. /\ cut \in Seq(T) /\ Len(cut) = IF 1 <= width THEN width - 1 + 1 ELSE 0
          /\ \A p \in 1..width - 1 + 1: cut[p] = flat[1 + p - 1]
      <4> HIDE DEF T
      <4> QED
        BY <1>1, <3>1, SubSeqProperties
    <3>3. Len(cut) = width /\ width - 1 + 1 = width /\ \A p \in 1..width: 1 + p - 1 = p
      BY <1>1, <3>2
    <3> HIDE DEF cut, T
    <3>4. \A p \in 1..Len(cut): cut[p] = cell[p]
      BY <2>9, <3>2, <3>3
    <3>5. cut = cell
      BY <1>4, <3>2, <3>3, <3>4, SeqEqual
    <3> QED
      BY <3>5 DEF cut
  <2>11. ParseStringCell(l[v]) = Trim(SubSeq(flat, 1, width))
    BY <1>8 DEF ParseStringCell, flat, parts, segments, n, width
  <2> QED
    BY <2>10, <2>11 DEF cell
<1> QED
  BY <1>7, <1>8

-----------------------------------------------------------------------------------
(* Keys *)

(* What ComparisonKey(s) is to be: the first n elements, up to the last of those compared that is no padding. *)
KeyedTo(s, n) ==
  /\ n \in 0..KeyLen /\ n <= Len(s)
  /\ Len(ComparisonKey(s)) = n /\ \A i \in 1..n: ComparisonKey(s)[i] = s[i]
  /\ n # 0 => ~Pads(s[n])
  /\ \A i \in (n + 1)..KeyLen: i <= Len(s) => Pads(s[i])

LEMMA KeyIsAPrefix ==
  ASSUME NEW S, NEW s \in Seq(S)
  PROVE  ComparisonKey(s) \in Seq(S) /\ \E n \in Nat: KeyedTo(s, n)
<1> DEFINE m == IF Len(s) < KeyLen THEN Len(s) ELSE KeyLen
           t == SubSeq(s, 1, m)
<1>1. Len(s) \in Nat /\ KeyLen \in Nat /\ m \in Nat /\ m <= Len(s) /\ m <= KeyLen
      /\ \A i \in 1..KeyLen: i <= Len(s) => i \in 1..m
  BY KeyLenAssumption
<1>2. ComparisonKey(s) = Trim(t)
  BY DEF ComparisonKey
<1> HIDE DEF m
<1>3. t \in Seq(S) /\ Len(t) = m /\ \A i \in 1..m: t[i] = s[i]
  <2>1. \A i \in 1..m: s[i] \in S
    BY <1>1
  <2>2. m - 1 + 1 = m /\ \A i \in 1..m: 1 + i - 1 = i
    BY <1>1
  <2>3. t \in Seq(S) /\ (Len(t) = IF 1 <= m THEN m - 1 + 1 ELSE 0) /\ \A i \in 1..m - 1 + 1: t[i] = s[1 + i - 1]
    BY <1>1, <2>1, SubSeqProperties
  <2> HIDE DEF t
  <2> QED
    BY <1>1, <2>2, <2>3
<1> HIDE DEF t
<1>4. Trim(t) \in Seq(S) /\ \E n \in Nat: TrimmedTo(t, n)
  BY <1>3, TrimIsAPrefix
<1>5. PICK n \in Nat: TrimmedTo(t, n)
  BY <1>4
<1>6. /\ n \in 0..m /\ Len(Trim(t)) = n /\ (\A i \in 1..n: Trim(t)[i] = t[i])
      /\ (n # 0 => ~Pads(t[n])) /\ \A i \in (n + 1)..m: Pads(t[i])
  BY <1>3, <1>5 DEF TrimmedTo
<1>7. \A i \in 1..n: i \in 1..m
  BY <1>1, <1>6
<1>8. n \in 0..KeyLen /\ n <= Len(s) /\ (n # 0 => n \in 1..m)
  BY <1>1, <1>6
<1>9. \A i \in (n + 1)..KeyLen: i <= Len(s) => i \in (n + 1)..m /\ i \in 1..m
  BY <1>1, <1>6
<1> QED
  BY <1>2, <1>3, <1>4, <1>6, <1>7, <1>8, <1>9 DEF KeyedTo

(* Comparing keys is comparing up to the padding, within the bytes that are compared. *)
LEMMA KeysCompareStrings ==
  ASSUME NEW S, NEW s \in Seq(S), NEW t \in Seq(S)
  PROVE  ComparisonKey(s) = ComparisonKey(t) <=> SameToADeclaration(s, t)
<1>1. PICK m \in Nat: KeyedTo(s, m)
  BY KeyIsAPrefix
<1>2. PICK n \in Nat: KeyedTo(t, n)
  BY KeyIsAPrefix
<1>3. Len(s) \in Nat /\ Len(t) \in Nat /\ KeyLen \in Nat
  BY KeyLenAssumption
<1>4. ASSUME ComparisonKey(s) = ComparisonKey(t) PROVE SameToADeclaration(s, t)
  <2>1. m = n
    BY <1>1, <1>2, <1>4 DEF KeyedTo
  <2>2. \A i \in 1..n: s[i] = t[i]
    BY <1>1, <1>2, <1>4, <2>1 DEF KeyedTo
  <2>3. n \in 0..KeyLen /\ n <= Len(s) /\ n <= Len(t)
    BY <1>1, <1>2, <2>1 DEF KeyedTo
  <2>4. \A i \in (n + 1)..KeyLen: (i <= Len(s) => Pads(s[i])) /\ (i <= Len(t) => Pads(t[i]))
    BY <1>1, <1>2, <2>1 DEF KeyedTo
  <2> QED
    BY <2>2, <2>3, <2>4 DEF SameToADeclaration
<1>5. ASSUME SameToADeclaration(s, t) PROVE ComparisonKey(s) = ComparisonKey(t)
  <2>1. PICK c \in 0..KeyLen:
          /\ c <= Len(s) /\ c <= Len(t)
          /\ \A i \in 1..c: s[i] = t[i]
          /\ \A i \in (c + 1)..KeyLen: (i <= Len(s) => Pads(s[i])) /\ (i <= Len(t) => Pads(t[i]))
    BY <1>5 DEF SameToADeclaration
  <2>2. m <= c /\ m <= n
    <3>1. CASE m = 0
      BY <1>2, <1>3, <2>1, <3>1
    <3>2. CASE m # 0
      <4>1. m \in 1..KeyLen /\ m <= Len(s) /\ ~Pads(s[m])
        BY <1>1, <3>2 DEF KeyedTo
      <4>2. m <= c
        <5> SUFFICES ASSUME m > c PROVE FALSE
          BY <2>1, <4>1
        <5>1. m \in (c + 1)..KeyLen
          BY <1>3, <2>1, <4>1
        <5> QED
          BY <2>1, <4>1, <5>1
      <4>3. s[m] = t[m] /\ m <= Len(t)
        BY <1>3, <2>1, <4>1, <4>2
      <4>4. m <= n
        <5> SUFFICES ASSUME m > n PROVE FALSE
          BY <1>2, <4>1
        <5>1. m \in (n + 1)..KeyLen
          BY <1>2, <1>3, <4>1
        <5>2. Pads(t[m])
          BY <1>2, <4>3, <5>1 DEF KeyedTo
        <5> QED
          BY <4>1, <4>3, <5>2
      <4> QED
        BY <4>2, <4>4
    <3> QED
      BY <3>1, <3>2
  <2>3. n <= m
    <3>1. CASE n = 0
      BY <1>1, <3>1
    <3>2. CASE n # 0
      <4>1. n \in 1..KeyLen /\ n <= Len(t) /\ ~Pads(t[n])
        BY <1>2, <3>2 DEF KeyedTo
      <4>2. n <= c
        <5> SUFFICES ASSUME n > c PROVE FALSE
          BY <2>1, <4>1
        <5>1. n \in (c + 1)..KeyLen
          BY <1>3, <2>1, <4>1
        <5> QED
          BY <2>1, <4>1, <5>1
      <4>3. s[n] = t[n] /\ n <= Len(s)
        BY <1>3, <2>1, <4>1, <4>2
      <4> SUFFICES ASSUME n > m PROVE FALSE
        BY <1>1, <4>1
      <4>4. n \in (m + 1)..KeyLen
        BY <1>1, <1>3, <4>1
      <4>5. Pads(s[n])
        BY <1>1, <4>3, <4>4 DEF KeyedTo
      <4> QED
        BY <4>1, <4>3, <4>5
    <3> QED
      BY <3>1, <3>2
  <2>4. m = n
    BY <1>1, <1>2, <2>2, <2>3
  <2>5. \A i \in 1..n: i \in 1..c
    BY <2>1, <2>2, <2>4
  <2>6. \A i \in 1..n: ComparisonKey(s)[i] = ComparisonKey(t)[i]
    BY <1>1, <1>2, <2>1, <2>4, <2>5 DEF KeyedTo
  <2>7. Len(ComparisonKey(s)) = n /\ Len(ComparisonKey(t)) = n
    BY <1>1, <1>2, <2>4 DEF KeyedTo
  <2>8. ComparisonKey(s) \in Seq(S) /\ ComparisonKey(t) \in Seq(S)
    BY KeyIsAPrefix
  <2> QED
    BY <2>6, <2>7, <2>8, SeqEqual
<1> QED
  BY <1>4, <1>5

(* A cell is compared trimmed: that compares what was written. *)
LEMMA TrimmingKeepsTheKey ==
  ASSUME NEW S, NEW s \in Seq(S)
  PROVE  Trim(s) \in Seq(S) /\ ComparisonKey(Trim(s)) = ComparisonKey(s)
<1>1. Trim(s) \in Seq(S)
  BY TrimIsAPrefix
<1>2. PICK n \in Nat: TrimmedTo(s, n)
  BY TrimIsAPrefix
<1> DEFINE t == Trim(s)
           c == IF n <= KeyLen THEN n ELSE KeyLen
<1>3. Len(s) \in Nat /\ KeyLen \in Nat /\ Len(t) = n /\ n <= Len(s)
  BY <1>2, KeyLenAssumption DEF TrimmedTo
<1>4. c \in 0..KeyLen /\ c <= n /\ c <= Len(s) /\ \A i \in 1..c: i \in 1..n
  BY <1>3
<1>5. \A i \in 1..c: t[i] = s[i]
  BY <1>2, <1>4 DEF TrimmedTo
<1>6. \A i \in (c + 1)..KeyLen: ~(i <= n) /\ (i <= Len(s) => i \in (n + 1)..Len(s))
  BY <1>3
<1> HIDE DEF c
<1>7. \A i \in (c + 1)..KeyLen: (i <= Len(t) => Pads(t[i])) /\ (i <= Len(s) => Pads(s[i]))
  BY <1>2, <1>3, <1>6 DEF TrimmedTo
<1> HIDE DEF t
<1>8. SameToADeclaration(t, s)
  BY <1>3, <1>4, <1>5, <1>7 DEF SameToADeclaration
<1>9. ComparisonKey(t) = ComparisonKey(s)
  BY <1>1, <1>8, KeysCompareStrings DEF t
<1> QED
  BY <1>1, <1>9 DEF t

-----------------------------------------------------------------------------------
(* Numbers *)

(* The record's own sentinels, or the defaults. *)
LEMMA SentinelsAreSpecial ==
  ASSUME declared \in SentinelRecords
  PROVE  /\ Special = {FileSentinels}
         /\ FileSentinels.systemMissing \in Int /\ FileSentinels.lowest \in Int /\ FileSentinels.highest \in Int
<1>1. CASE declared = {}
  BY <1>1 DEF Special, FileSentinels, ResolveSentinels, SpssDefaults, SentinelsOf, SysMis, Lowest, Highest
<1>2. CASE declared # {}
  <2>1. FileSentinels = (CHOOSE sentinels \in declared: TRUE) /\ Special = declared
    BY <1>2 DEF Special, FileSentinels, ResolveSentinels
  <2>2. FileSentinels \in declared
    BY <1>2, <2>1
  <2>3. /\ declared \subseteq [systemMissing: Int, lowest: Int, highest: Int]
        /\ \A one, other \in declared: one = other
    BY SentinelsAssumption
  <2>4. declared = {FileSentinels}
    BY <2>2, <2>3
  <2> QED
    BY <2>1, <2>2, <2>3, <2>4
<1> QED
  BY <1>1, <1>2

LEMMA NumbersMatch ==
  ASSUME declared \in SentinelRecords, NEW raw, NEW number,
         raw.kind \in {"None", "Discrete", "Range"}
  PROVE  MatchesNumber(DecodeNumeric(raw, format, FileSentinels), number)
           <=> raw.kind # "None" /\ Declares(raw, number)
<1> DEFINE spec == DecodeNumeric(raw, format, FileSentinels)
           ends(i) == Decode(raw.entries[i], format)
<1>1. CASE raw.kind = "None"
  <2>1. spec = NoMissing
    BY <1>1 DEF DecodeNumeric
  <2> QED
    BY <1>1, <2>1 DEF MatchesNumber, NoMissing
<1>2. CASE raw.kind = "Discrete"
  <2>1. spec = [kind |-> "Discrete", values |-> {ends(i): i \in DOMAIN raw.entries}]
    BY <1>2 DEF DecodeNumeric
  <2>2. MatchesNumber(spec, number) <=> \E i \in DOMAIN raw.entries: ends(i) = number
    BY <2>1 DEF MatchesNumber
  <2>3. Declares(raw, number) <=> \E i \in DOMAIN raw.entries: ends(i) = number
    BY <1>2 DEF Declares
  <2> QED
    BY <1>2, <2>2, <2>3
<1>3. CASE raw.kind = "Range"
  <2>1. spec = [kind   |-> "Range",
                low    |-> Bound(raw.entries[1], FileSentinels.lowest, format),
                high   |-> Bound(raw.entries[2], FileSentinels.highest, format),
                values |-> {ends(i): i \in 3..Len(raw.entries)}]
    BY <1>3 DEF DecodeNumeric
  <2>2. (\A bound \in spec.low: number >= bound)
          <=> (\E s \in Special: raw.entries[1] = s.lowest) \/ number >= ends(1)
    BY <2>1, SentinelsAreSpecial DEF Bound
  <2>3. (\A bound \in spec.high: number <= bound)
          <=> (\E s \in Special: raw.entries[2] = s.highest) \/ number <= ends(2)
    BY <2>1, SentinelsAreSpecial DEF Bound
  <2>4. number \in spec.values <=> \E i \in 3..Len(raw.entries): ends(i) = number
    BY <2>1
  <2>5. spec.kind = "Range"
    BY <2>1
  <2>6. MatchesNumber(spec, number)
          <=> \/ (\A bound \in spec.low: number >= bound) /\ (\A bound \in spec.high: number <= bound)
              \/ number \in spec.values
    BY <2>5 DEF MatchesNumber, InRange
  <2>7. Declares(raw, number)
          <=> \/ \E i \in 3..Len(raw.entries): ends(i) = number
              \/ /\ (\E s \in Special: raw.entries[1] = s.lowest) \/ number >= ends(1)
                 /\ (\E s \in Special: raw.entries[2] = s.highest) \/ number <= ends(2)
    BY <1>3 DEF Declares
  <2> QED
    BY <1>3, <2>2, <2>3, <2>4, <2>6, <2>7
<1> QED
  BY <1>1, <1>2, <1>3

-----------------------------------------------------------------------------------
(* Cells *)

(* A state's row is the one its layout and cells make. *)
RowStands ==
  /\ layout \in Layouts /\ declared \in SentinelRecords /\ cellsWritten \in Rows(layout)
  /\ row = RowOf(layout, cellsWritten)

LEMMA RowFacts ==
  ASSUME RowStands
  PROVE  /\ LaysOut(layout) /\ \A v \in DOMAIN layout: cellsWritten[v] \in Writable(layout[v])
         /\ RowSpreads(layout, cellsWritten) /\ \E S: row \in Seq(S)
<1> DEFINE S == {WrittenByte(layout[v], cellsWritten[v], k, d): v \in DOMAIN layout, k \in Nat, d \in Nat}
<1>1. LaysOut(layout) /\ \A v \in DOMAIN layout: cellsWritten[v] \in Writable(layout[v])
  BY LayoutsAssumption, RowsAssumption DEF RowStands
<1>2. \A v \in DOMAIN layout: \A k \in Nat: \A d \in Nat: WrittenByte(layout[v], cellsWritten[v], k, d) \in S
  OBVIOUS
<1> HIDE DEF S
<1>3. RowOf(layout, cellsWritten) \in Seq(S) /\ RowSpreads(layout, cellsWritten)
  BY <1>1, <1>2, RowIsItsCells
<1> QED
  BY <1>1, <1>3 DEF RowStands

(* What parse_cell makes of a string. *)
LEMMA ParsedString ==
  ASSUME PastWidth \in {Space, Nul}, RowStands,
         NEW v \in DOMAIN layout, layout[v].width # NumericWidth
  PROVE  /\ cellsWritten[v] \in Seq(Bytes) /\ Len(cellsWritten[v]) = layout[v].width
         /\ ParseCell(v).raw = Trim(cellsWritten[v])
         /\ ParseCell(v).class =
              IF Declared(layout[v].raw, cellsWritten[v], FALSE) THEN "declared missing" ELSE "present"
<1> DEFINE cell == cellsWritten[v]
           raw  == layout[v].raw
           B    == Bytes \cup {Space, Nul}
           spec == DecodeMissing(raw, FALSE, format, FileSentinels)
<1>1. LaysOut(layout) /\ RowSpreads(layout, cellsWritten) /\ cell \in Writable(layout[v])
  BY RowFacts
<1>2. PICK S: row \in Seq(S)
  BY RowFacts
<1>3. cell \in [1..layout[v].width -> Bytes] /\ layout[v].width \in Nat
  BY <1>1 DEF Writable, LaysOut, WellFormed
<1>4. cell \in Seq(Bytes) /\ cell \in Seq(B) /\ Len(cell) = layout[v].width
  BY <1>3
<1>5. ParseStringCell(layout[v]) = Trim(cell)
  BY <1>1, <1>2, <1>3, StringComesBack DEF RowStands
<1>6. ParseCell(v) = [class |-> StringCell(Trim(cell), spec), raw |-> Trim(cell)]
  BY <1>5 DEF ParseCell
<1>7. /\ raw.kind \in {"None", "Discrete", "Range"} /\ (raw.kind = "None" => raw.entries = << >>)
      /\ raw.entries \in Seq(Seq(B))
  <2>1. WellDeclared(layout[v])
    BY <1>1 DEF LaysOut
  <2> QED
    BY <2>1 DEF WellDeclared
<1> HIDE DEF cell, raw, spec, B
<1>8. MatchesBytes(spec, Trim(cell)) <=> \E i \in DOMAIN raw.entries: ComparisonKey(raw.entries[i]) = ComparisonKey(Trim(cell))
  <2>1. CASE raw.kind = "None"
    <3>1. spec.kind # "String" /\ DOMAIN raw.entries = {}
      BY <1>7, <2>1 DEF spec, DecodeMissing, DecodeString, NoMissing
    <3> QED
      BY <3>1 DEF MatchesBytes
  <2>2. CASE raw.kind # "None"
    <3>1. spec.kind = "String" /\ spec.keys = {raw.entries[i]: i \in DOMAIN raw.entries}
      BY <2>2 DEF spec, DecodeMissing, DecodeString
    <3> QED
      BY <3>1 DEF MatchesBytes
  <2> QED
    BY <2>1, <2>2
<1>9. \A i \in DOMAIN raw.entries:
        ComparisonKey(raw.entries[i]) = ComparisonKey(Trim(cell)) <=> SameToADeclaration(raw.entries[i], cell)
  <2> SUFFICES ASSUME NEW i \in DOMAIN raw.entries
               PROVE  ComparisonKey(raw.entries[i]) = ComparisonKey(Trim(cell))
                        <=> SameToADeclaration(raw.entries[i], cell)
    OBVIOUS
  <2>1. raw.entries[i] \in Seq(B)
    BY <1>7
  <2>2. ComparisonKey(Trim(cell)) = ComparisonKey(cell)
    BY <1>4, TrimmingKeepsTheKey
  <2>3. ComparisonKey(raw.entries[i]) = ComparisonKey(cell) <=> SameToADeclaration(raw.entries[i], cell)
    BY <1>4, <2>1, KeysCompareStrings
  <2> QED
    BY <2>2, <2>3
<1>10. MatchesBytes(spec, Trim(cell)) <=> Declared(raw, cell, FALSE)
  BY <1>8, <1>9 DEF Declared
<1>11. ParseCell(v).raw = Trim(cell) /\ ParseCell(v).class = StringCell(Trim(cell), spec)
  BY <1>6
<1>12. StringCell(Trim(cell), spec) = IF Declared(raw, cell, FALSE) THEN "declared missing" ELSE "present"
  BY <1>10 DEF StringCell
<1> QED
  BY <1>4, <1>11, <1>12 DEF cell, raw

(* What parse_cell makes of a number. *)
LEMMA ParsedNumber ==
  ASSUME RowStands, NEW v \in DOMAIN layout, layout[v].width = NumericWidth
  PROVE  ParseCell(v).class =
           IF \E s \in Special: cellsWritten[v] \in {MissingCommand, s.systemMissing} THEN "system missing"
           ELSE IF Declared(layout[v].raw, cellsWritten[v], TRUE) THEN "declared missing"
           ELSE "present"
<1> DEFINE cell    == cellsWritten[v]
           raw     == layout[v].raw
           spec    == DecodeMissing(raw, TRUE, format, FileSentinels)
           pattern == Pattern(cell)
           first   == layout[v].segments[1]
<1>1. LaysOut(layout) /\ RowSpreads(layout, cellsWritten) /\ cell \in Patterns \cup {MissingCommand}
  BY RowFacts DEF Writable
<1>2. WellFormed(layout[v]) /\ WellDeclared(layout[v])
  BY <1>1 DEF LaysOut
<1>3. row[first.offset + 1] = pattern
  <2>1. 1 \in 1..Len(layout[v].segments) /\ 1 \in 1..first.stride
    <3>1. Len(layout[v].segments) \in Nat \ {0}
          /\ \A k \in 1..Len(layout[v].segments): layout[v].segments[k].stride \in Nat \ {0}
      BY <1>2, SegmentFacts
    <3> QED
      BY <3>1
  <2>2. row[first.offset + 1] = WrittenByte(layout[v], cell, 1 - 1, 1 - 1)
    BY <1>1, <2>1 DEF RowSpreads, RowStands
  <2>3. WrittenByte(layout[v], cell, 1 - 1, 1 - 1) = pattern
    BY DEF WrittenByte
  <2> QED
    BY <2>2, <2>3
<1>4. ParseCell(v).class = NumericCell(pattern, spec, format, FileSentinels.systemMissing)
  BY <1>3 DEF ParseCell
<1>5. pattern = IF cell = MissingCommand THEN FileSentinels.systemMissing ELSE cell
  BY DEF Pattern, RowCoding
<1>6. Special = {FileSentinels}
  BY SentinelsAreSpecial DEF RowStands
<1>7. pattern = FileSentinels.systemMissing
        <=> \E s \in Special: cell \in {MissingCommand, s.systemMissing}
  BY <1>5, <1>6
<1>8. raw.kind \in {"None", "Discrete", "Range"}
  BY <1>2 DEF WellDeclared
<1> HIDE DEF cell, raw, pattern
<1>9. MatchesNumber(spec, Decode(cell, format)) <=> Declared(raw, cell, TRUE)
  <2>1. spec = DecodeNumeric(raw, format, FileSentinels)
    BY DEF DecodeMissing
  <2> HIDE DEF spec
  <2>2. MatchesNumber(DecodeNumeric(raw, format, FileSentinels), Decode(cell, format))
          <=> raw.kind # "None" /\ Declares(raw, Decode(cell, format))
    BY <1>8, NumbersMatch DEF RowStands
  <2> QED
    BY <2>1, <2>2 DEF Declared
<1> HIDE DEF spec
<1>10. CASE pattern = FileSentinels.systemMissing
  BY <1>4, <1>7, <1>10 DEF NumericCell, cell
<1>11. CASE pattern # FileSentinels.systemMissing
  <2>1. pattern = cell
    BY <1>5, <1>11
  <2> QED
    BY <1>4, <1>7, <1>9, <1>11, <2>1 DEF NumericCell, cell, raw
<1> QED
  BY <1>10, <1>11

-----------------------------------------------------------------------------------
(* The two properties *)

(* Every cell that was given is what parse_cell makes of the row, however it was asked for. *)
CellsInv ==
  /\ RowStands
  /\ \E C: values \in Seq(C)
  /\ Len(values) <= Len(layout) /\ \A v \in DOMAIN values: values[v] = ParseCell(v)
  /\ DOMAIN lazy \subseteq 1..Len(layout) + 1 /\ \A i \in DOMAIN lazy: lazy[i] = ParseCell(i)

LEMMA CellsStart == CellsInit => CellsInv
<1> SUFFICES ASSUME CellsInit PROVE CellsInv
  OBVIOUS
<1>1. RowStands
  BY DEF CellsInit, RowStands
<1>2. DOMAIN layout = 1..Len(layout) /\ Len(layout) \in Nat
  BY <1>1, RowFacts DEF LaysOut
<1>3. (\E C: values \in Seq(C)) /\ Len(values) = 0 /\ DOMAIN values = {}
  <2>1. values = << >>
    BY DEF CellsInit
  <2>2. values \in Seq(Nat)
    BY <2>1, EmptySeq
  <2> QED
    BY <2>1, <2>2
<1>4. DOMAIN lazy = {}
  BY DEF CellsInit
<1> QED
  BY <1>1, <1>2, <1>3, <1>4 DEF CellsInv

LEMMA CellsStep == CellsInv /\ [CellsNext]_cellsVars => CellsInv'
<1> SUFFICES ASSUME CellsInv, [CellsNext]_cellsVars PROVE CellsInv'
  OBVIOUS
<1> DEFINE n == Len(layout)
<1>1. DOMAIN layout = 1..n /\ n \in Nat
  BY RowFacts DEF CellsInv, LaysOut
<1>2. ASSUME UNCHANGED <<file, cellsWritten, row>>
      PROVE  RowStands' /\ n' = n /\ \A i: ParseCell(i)' = ParseCell(i)
  <2>1. layout' = layout /\ format' = format /\ declared' = declared /\ cellsWritten' = cellsWritten /\ row' = row
    BY <1>2 DEF file
  <2>2. RowStands'
    BY <2>1 DEF CellsInv, RowStands, RowOf, CellOf, SegmentOf, WrittenByte, Pattern, RowCoding, FileSentinels
  <2>3. \A i: ParseCell(i)' = ParseCell(i)
    BY <2>1 DEF ParseCell, ParseStringCell, SegmentBytes, FileSentinels
  <2> QED
    BY <2>1, <2>2, <2>3
<1>3. CASE ReadNext
  <2>1. UNCHANGED <<file, cellsWritten, row, lazy>>
    BY <1>3 DEF ReadNext
  <2>2. RowStands' /\ n' = n /\ \A i: ParseCell(i)' = ParseCell(i)
    BY <1>2, <2>1
  <2> DEFINE m == Len(values)
             new == ParseCell(m + 1)
  <2>3. PICK C: values \in Seq(C)
    BY DEF CellsInv
  <2>4. m \in Nat /\ m < n /\ values' = Append(values, new) /\ DOMAIN values = 1..m
    BY <1>3, <2>3 DEF ReadNext
  <2> HIDE DEF new
  <2>5. /\ values' \in Seq(C \cup {new}) /\ Len(values') = m + 1
        /\ values'[m + 1] = new /\ \A i \in 1..m: values'[i] = values[i]
    <3>1. values \in Seq(C \cup {new}) /\ new \in C \cup {new}
      BY <2>3
    <3>2. /\ Append(values, new) \in Seq(C \cup {new}) /\ Len(Append(values, new)) = m + 1
          /\ Append(values, new)[m + 1] = new
          /\ \A i \in 1..m: Append(values, new)[i] = values[i]
      BY <3>1, AppendProperties
    <3> QED
      BY <2>4, <3>2
  <2>6. DOMAIN values' = 1..(m + 1)
    BY <2>5
  <2>7. ASSUME NEW v \in DOMAIN values' PROVE values'[v] = ParseCell(v)
    <3>1. CASE v = m + 1
      BY <2>5, <3>1 DEF new
    <3>2. CASE v # m + 1
      <4>1. v \in 1..m
        BY <2>4, <2>6, <3>2
      <4> QED
        BY <2>4, <2>5, <4>1 DEF CellsInv
    <3> QED
      BY <3>1, <3>2
  <2>8. m + 1 <= n
    BY <1>1, <2>4
  <2> HIDE DEF m
  <2>9. (\E D: values' \in Seq(D)) /\ Len(values') <= n'
    BY <2>2, <2>5, <2>8
  <2>10. \A v \in DOMAIN values': values'[v] = ParseCell(v)'
    BY <2>2, <2>7
  <2>11. DOMAIN lazy' \subseteq 1..n' + 1 /\ \A i \in DOMAIN lazy': lazy'[i] = ParseCell(i)'
    BY <2>1, <2>2 DEF CellsInv
  <2> QED
    BY <2>2, <2>9, <2>10, <2>11 DEF CellsInv
<1>4. ASSUME NEW index \in 1..n + 1, ValueAt(index) PROVE CellsInv'
  <2>1. UNCHANGED <<file, cellsWritten, row, values>>
    BY <1>4 DEF ValueAt
  <2>2. RowStands' /\ n' = n /\ \A i: ParseCell(i)' = ParseCell(i)
    BY <1>2, <2>1
  <2>3. lazy' = [i \in DOMAIN lazy \cup {index} |-> IF i = index THEN ParseCell(i) ELSE lazy[i]]
    BY <1>4 DEF ValueAt
  <2>4. DOMAIN lazy' \subseteq 1..n' + 1
    BY <2>2, <2>3 DEF CellsInv
  <2>5. \A i \in DOMAIN lazy': lazy'[i] = ParseCell(i)
    BY <2>3 DEF CellsInv
  <2>6. (\E C: values' \in Seq(C)) /\ Len(values') <= n' /\ \A v \in DOMAIN values': values'[v] = ParseCell(v)'
    BY <2>1, <2>2 DEF CellsInv
  <2> QED
    BY <2>2, <2>4, <2>5, <2>6 DEF CellsInv
<1>5. CASE UNCHANGED cellsVars
  <2>1. UNCHANGED <<file, cellsWritten, row, values, lazy>>
    BY <1>5 DEF cellsVars
  <2>2. RowStands' /\ n' = n /\ \A i: ParseCell(i)' = ParseCell(i)
    BY <1>2, <2>1
  <2> QED
    BY <2>1, <2>2 DEF CellsInv
<1> QED
  BY <1>3, <1>4, <1>5 DEF CellsNext

(* What was answered, by the variable it was answered for. *)
LEMMA AnswersStand ==
  ASSUME CellsInv, NEW answer \in Answers
  PROVE  answer[1] \in DOMAIN layout /\ answer[2] = ParseCell(answer[1])
<1>1. DOMAIN layout = 1..Len(layout) /\ Len(layout) \in Nat
  BY RowFacts DEF CellsInv, LaysOut
<1>2. CASE answer \in {<<v, values[v]>>: v \in DOMAIN values}
  <2>1. PICK v \in DOMAIN values: answer = <<v, values[v]>>
    BY <1>2
  <2>2. DOMAIN values = 1..Len(values) /\ Len(values) \in Nat
    <3>1. PICK C: values \in Seq(C)
      BY DEF CellsInv
    <3> QED
      BY <3>1
  <2>3. v \in 1..Len(layout) /\ values[v] = ParseCell(v)
    BY <1>1, <2>1, <2>2 DEF CellsInv
  <2> QED
    BY <1>1, <2>1, <2>3
<1>3. CASE answer \in {<<i, lazy[i]>>: i \in DOMAIN lazy \ {Len(layout) + 1}}
  <2>1. PICK i \in DOMAIN lazy \ {Len(layout) + 1}: answer = <<i, lazy[i]>>
    BY <1>3
  <2>2. i \in 1..Len(layout) + 1 /\ lazy[i] = ParseCell(i)
    BY <2>1 DEF CellsInv
  <2>3. i \in 1..Len(layout)
    BY <1>1, <2>1, <2>2
  <2> QED
    BY <1>1, <2>1, <2>2, <2>3
<1> QED
  BY <1>2, <1>3 DEF Answers

LEMMA CellsAreRight ==
  ASSUME PastWidth \in {Space, Nul}, CellsInv
  PROVE  CellsAreTheRows
<1>1. RowStands /\ Len(values) <= Len(layout)
  BY DEF CellsInv
<1>2. \A i \in DOMAIN lazy: lazy[i] = NoCell <=> i \notin DOMAIN layout
  <2> SUFFICES ASSUME NEW i \in DOMAIN lazy PROVE lazy[i] = NoCell <=> i \notin DOMAIN layout
    OBVIOUS
  <2>1. lazy[i] = ParseCell(i)
    BY DEF CellsInv
  <2>2. CASE i \notin DOMAIN layout
    BY <2>1, <2>2 DEF ParseCell
  <2>3. CASE i \in DOMAIN layout
    <3>1. ParseCell(i).class \in {"system missing", "declared missing", "present"}
      <4>1. CASE layout[i].width = NumericWidth
        BY <1>1, <2>3, <4>1, ParsedNumber
      <4>2. CASE layout[i].width # NumericWidth
        BY <1>1, <2>3, <4>2, ParsedString
      <4> QED
        BY <4>1, <4>2
    <3>2. NoCell.class = "none"
      BY DEF NoCell
    <3> QED
      BY <2>1, <2>3, <3>1, <3>2
  <2> QED
    BY <2>2, <2>3
<1>3. ASSUME NEW answer \in Answers, layout[answer[1]].width # NumericWidth
      PROVE  /\ Len(answer[2].raw) <= layout[answer[1]].width
             /\ answer[2].raw = SubSeq(cellsWritten[answer[1]], 1, Len(answer[2].raw))
             /\ answer[2].raw # << >> => ~Pads(Last(answer[2].raw))
             /\ \A i \in Len(answer[2].raw) + 1..layout[answer[1]].width: Pads(cellsWritten[answer[1]][i])
  <2> DEFINE v    == answer[1]
             raw  == answer[2].raw
             cell == cellsWritten[v]
  <2>1. v \in DOMAIN layout /\ answer[2] = ParseCell(v)
    BY AnswersStand
  <2>2. cell \in Seq(Bytes) /\ Len(cell) = layout[v].width /\ raw = Trim(cell)
    BY <1>1, <1>3, <2>1, ParsedString
  <2> HIDE DEF v, raw, cell
  <2>3. Trim(cell) \in Seq(Bytes) /\ \E n \in Nat: TrimmedTo(cell, n)
    BY <2>2, TrimIsAPrefix
  <2>4. PICK n \in Nat: TrimmedTo(cell, n)
    BY <2>3
  <2>5. /\ n \in 0..Len(cell) /\ raw = SubSeq(cell, 1, n) /\ Len(raw) = n
        /\ \A i \in 1..n: raw[i] = cell[i]
        /\ n # 0 => ~Pads(cell[n])
        /\ \A i \in (n + 1)..Len(cell): Pads(cell[i])
    BY <2>2, <2>4 DEF TrimmedTo
  <2>6. Len(raw) <= layout[v].width /\ raw = SubSeq(cell, 1, Len(raw))
        /\ \A i \in Len(raw) + 1..layout[v].width: Pads(cell[i])
    BY <2>2, <2>5
  <2>7. raw # << >> => ~Pads(Last(raw))
    <3> SUFFICES ASSUME raw # << >> PROVE ~Pads(Last(raw))
      OBVIOUS
    <3>1. raw \in Seq(Bytes) /\ n # 0
      BY <2>2, <2>3, <2>5
    <3>2. Last(raw) = raw[n] /\ n \in 1..n
      BY <2>4, <2>5, <3>1 DEF Last
    <3> QED
      BY <2>5, <3>1, <3>2
  <2> QED
    BY <2>6, <2>7 DEF v, raw, cell
<1> QED
  BY <1>1, <1>2, <1>3, Zenon DEF CellsAreTheRows

LEMMA MissingIsRight ==
  ASSUME PastWidth \in {Space, Nul}, CellsInv
  PROVE  MissingAsDeclared
<1>1. RowStands
  BY DEF CellsInv
<1>2. ASSUME NEW answer \in Answers
      PROVE  answer[2].class =
               IF layout[answer[1]].width = NumericWidth
                  /\ \E s \in Special: cellsWritten[answer[1]] \in {MissingCommand, s.systemMissing}
               THEN "system missing"
               ELSE IF Declared(layout[answer[1]].raw, cellsWritten[answer[1]], layout[answer[1]].width = NumericWidth)
               THEN "declared missing" ELSE "present"
  <2> DEFINE v == answer[1]
  <2>1. v \in DOMAIN layout /\ answer[2] = ParseCell(v)
    BY AnswersStand
  <2> HIDE DEF v
  <2>2. CASE layout[v].width = NumericWidth
    <3>1. Declared(layout[v].raw, cellsWritten[v], layout[v].width = NumericWidth)
            <=> Declared(layout[v].raw, cellsWritten[v], TRUE)
      BY <2>2 DEF Declared
    <3>2. ParseCell(v).class =
            IF \E s \in Special: cellsWritten[v] \in {MissingCommand, s.systemMissing} THEN "system missing"
            ELSE IF Declared(layout[v].raw, cellsWritten[v], TRUE) THEN "declared missing"
            ELSE "present"
      BY <1>1, <2>1, <2>2, ParsedNumber
    <3> QED
      BY <2>1, <2>2, <3>1, <3>2 DEF v
  <2>3. CASE layout[v].width # NumericWidth
    <3>1. Declared(layout[v].raw, cellsWritten[v], layout[v].width = NumericWidth)
            <=> Declared(layout[v].raw, cellsWritten[v], FALSE)
      BY <2>3 DEF Declared
    <3>2. ParseCell(v).class =
            IF Declared(layout[v].raw, cellsWritten[v], FALSE) THEN "declared missing" ELSE "present"
      BY <1>1, <2>1, <2>3, ParsedString
    <3> QED
      BY <2>1, <2>3, <3>1, <3>2 DEF v
  <2> QED
    BY <2>2, <2>3
<1> QED
  BY <1>2 DEF MissingAsDeclared

(* For every layout, row and order of asking: a string cell is what was written, to the last    *)
(* byte that is no padding, provided a writer pads what a width leaves of its segment; where it   *)
(* does not, the one segment of a narrower claim is handed out whole (parse_string_cell,           *)
(* read_record, LazySavRecord::value).                                                              *)
THEOREM CellsCellsAreTheRows ==
  ASSUME PastWidth \in {Space, Nul}
  PROVE  CellsSpec => []CellsAreTheRows
<1>1. CellsInv => CellsAreTheRows
  BY CellsAreRight
<1> QED
  BY <1>1, CellsStart, CellsStep, PTL DEF CellsSpec

(* Under the same condition a cell is missing exactly when its variable's declaration says so of   *)
(* what was written (parse_numeric_cell, Text::classify, low_bound, resolve_sentinels, row_coding). *)
THEOREM CellsMissingAsDeclared ==
  ASSUME PastWidth \in {Space, Nul}
  PROVE  CellsSpec => []MissingAsDeclared
<1>1. CellsInv => MissingAsDeclared
  BY MissingIsRight
<1> QED
  BY <1>1, CellsStart, CellsStep, PTL DEF CellsSpec

===================================================================================
