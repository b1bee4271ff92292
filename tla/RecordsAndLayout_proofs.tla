---------------------------- MODULE RecordsAndLayout_proofs ----------------------------
(* From the payload of an extension record to the layout its entries are laid over.          *)
(* For every set of names, types and widths: the segments tile the row, the variables tile    *)
(* the segments whatever the very-long-string entries claim, and each has the bytes it         *)
(* declares.  The argument for the last two is that a width is only claimed where all the       *)
(* segments it counts exist and agree with it, and that no segment is added or changed after    *)
(* the first claim.                                                                             *)
(* For every payload: a parser's loop ends, since what is left of the payload is a sequence of   *)
(* which each turn takes some (ParserInv); a record that does not parse is kept whole, since     *)
(* nothing the parsers do touches the payload and no warning of theirs names the subtype          *)
(* (KeepInv); and the character code is read alike from bytes and from the record, since a        *)
(* record of subtype 3 is refused by its shape or not at all (CodeInv).                           *)
(* And nothing of a record that is read is lost: with the letters of the items and those of what   *)
(* is left one has the letters of the text (LetterInv), and with the bytes the long strings so far  *)
(* are written as, in the form each had, and what is left, the payload (LongInv).                   *)
EXTENDS DataLayout, ExtensionRecords, SequenceLemmas

-----------------------------------------------------------------------------------
(* The layout *)

ClaimsFit ==
  \A i \in 1..Len(claimed):
    claimed[i] # Unclaimed => i + SegmentCount(claimed[i]) <= Len(segments) + 1

NothingSpanned ==
  /\ building \in {"adding", "setting"} => entry = 0 /\ claimed = << >>
  /\ building \in {"adding", "setting", "claiming"} => spans = << >> /\ index = 1

LayoutInv ==
  /\ TypeOK
  /\ SegmentsArePacked
  /\ ClaimsFit
  /\ NothingSpanned
  /\ SpansCoverTheSegments

-----------------------------------------------------------------------------------

LEMMA StrideIsUnits ==
  ASSUME NEW type \in Types
  PROVE  /\ Stride(type) \in Nat
         /\ Stride(type) % UnitLen = 0
         /\ Stride(type) - ContentLen(type) \in 0..UnitLen - 1
<1> type \in 0..255
  BY TypesAssumption DEF SegmentWidthMax
<1>1. CASE type = Numeric
  BY <1>1 DEF Stride, ContentLen, UnitLen
<1>2. CASE type # Numeric
  <2> DEFINE units == (type + 7) \div 8
  <2>1. units \in Nat /\ 8 * units \in type..type + 7
    OBVIOUS
  <2>2. Stride(type) = 8 * units /\ ContentLen(type) = type
    BY <1>2, <2>1 DEF Stride, ContentLen, Padded, CeilDiv, UnitLen
  <2> HIDE DEF units
  <2>3. (8 * units) % 8 = 0
    BY <2>1
  <2> QED
    BY <2>1, <2>2, <2>3 DEF UnitLen
<1> QED
  BY <1>1, <1>2

LEMMA UnitsAdd ==
  ASSUME NEW m \in Nat, NEW n \in Nat, m % UnitLen = 0, n % UnitLen = 0
  PROVE  (m + n) % UnitLen = 0
BY DEF UnitLen

LEMMA SegmentCountType ==
  ASSUME NEW w \in Nat
  PROVE  SegmentCount(w) \in Nat \ {0}
<1>1. CASE w <= 255
  BY <1>1 DEF SegmentCount, SegmentWidthMax
<1>2. CASE w > 255
  <2>1. (w + 252 - 1) \div 252 \in Nat /\ (w + 252 - 1) \div 252 >= 1
    BY <1>2
  <2> QED
    BY <1>2, <2>1 DEF SegmentCount, SegmentWidthMax, SegmentStride, CeilDiv
<1> QED
  BY <1>1, <1>2

(* What a claim has been checked for: all its segments exist. *)
LEMMA AgreedSegmentsExist ==
  ASSUME NEW start \in Nat, NEW w \in Nat, segments \in Seq(Segment),
         SegmentsAgree(start, w)
  PROVE  start + SegmentCount(w) <= Len(segments) + 1
<1>1. SegmentCount(w) \in Nat \ {0}
  BY SegmentCountType
<1>2. SegmentCount(w) - 1 \in 0..SegmentCount(w) - 1
  BY <1>1
<1>3. start + (SegmentCount(w) - 1) <= Len(segments)
  BY <1>2 DEF SegmentsAgree
<1> QED
  BY <1>1, <1>3

LEMMA NamedSegment ==
  ASSUME NEW name, segments \in Seq(Segment), Declaring(name) # {}
  PROVE  SegmentIndexOf(name) \in 1..Len(segments)
<1>1. Declaring(name) \in SUBSET Nat
  BY DEF Declaring
<1>2. \E i \in Declaring(name): \A j \in Declaring(name): i <= j
  BY <1>1, LeastNumber
<1> QED
  BY <1>2 DEF SegmentIndexOf, Declaring

-----------------------------------------------------------------------------------

LEMMA InitLayoutInv == Init => LayoutInv
<1> SUFFICES ASSUME Init PROVE LayoutInv
  OBVIOUS
<1>1. TypeOK
  BY DEF Init, TypeOK
<1>2. SegmentsArePacked
  BY DEF Init, SegmentsArePacked, UnitLen
<1>3. ClaimsFit /\ NothingSpanned /\ SpansCoverTheSegments
  BY DEF Init, ClaimsFit, NothingSpanned, SpansCoverTheSegments
<1> QED
  BY <1>1, <1>2, <1>3 DEF LayoutInv

(* The steps after the last segment was added keep the segments as they are. *)
LEMMA PackingStays ==
  ASSUME SegmentsArePacked, UNCHANGED <<segments, rowLen>>
  PROVE  SegmentsArePacked'
BY DEF SegmentsArePacked, Abuts

LEMMA AddVariablePacks ==
  ASSUME TypeOK, SegmentsArePacked, NEW name \in Names, NEW type \in Types,
         AddVariable(name, type)
  PROVE  segments' \in Seq(Segment) /\ rowLen' \in Nat /\ SegmentsArePacked'
<1> DEFINE n == Len(segments)
           new == [name |-> name, type |-> type, offset |-> rowLen]
<1>1. segments' = Append(segments, new) /\ rowLen' = rowLen + Stride(type)
  BY DEF AddVariable
<1>2. segments \in Seq(Segment) /\ rowLen \in Nat /\ n \in Nat
  BY DEF TypeOK
<1>3. new \in Segment
  BY <1>2 DEF Segment
<1>4. segments' \in Seq(Segment)
  BY <1>1, <1>2, <1>3
<1>5. /\ Stride(type) \in Nat /\ Stride(type) % UnitLen = 0
      /\ Stride(type) - ContentLen(type) \in 0..UnitLen - 1
  BY StrideIsUnits
<1>6. rowLen % UnitLen = 0
  BY DEF SegmentsArePacked
<1>7. rowLen' \in Nat /\ rowLen' % UnitLen = 0
  <2>1. (rowLen + Stride(type)) % UnitLen = 0
    BY <1>2, <1>5, <1>6, UnitsAdd
  <2>2. rowLen + Stride(type) \in Nat
    BY <1>2, <1>5
  <2> QED
    BY <1>1, <2>1, <2>2
<1>8. /\ Len(segments') = n + 1 /\ segments'[n + 1] = new /\ segments' # << >>
      /\ \A i \in 1..n: segments'[i] = segments[i]
  BY <1>1, <1>2
<1>9. ASSUME NEW i \in 1..n + 1
      PROVE  /\ segments'[i].offset % UnitLen = 0
             /\ i = 1 => segments'[i].offset = 0
             /\ i < n + 1 => Abuts(segments'[i], segments'[i + 1].offset)
             /\ i = n + 1 => Abuts(segments'[i], rowLen')
  <2>1. CASE i = n + 1
    <3>1. segments'[i] = new
      BY <1>8, <2>1
    <3>2. n = 0 => rowLen = 0
      BY <1>2 DEF SegmentsArePacked
    <3>3. Abuts(new, rowLen')
      <4>1. rowLen' - new.offset - ContentLen(new.type) = Stride(type) - ContentLen(type)
        <5> type \in Nat /\ ContentLen(type) \in Nat
          BY TypesAssumption DEF SegmentWidthMax, ContentLen, UnitLen
        <5> QED
          BY <1>1, <1>2, <1>5
      <4> QED
        BY <1>5, <4>1 DEF Abuts
    <3> QED
      BY <1>2, <1>6, <2>1, <3>1, <3>2, <3>3
  <2>2. CASE i # n + 1
    <3>1. i \in 1..n /\ segments'[i] = segments[i]
      BY <1>2, <1>8, <2>2
    <3>2. /\ segments[i].offset % UnitLen = 0
          /\ i = 1 => segments[i].offset = 0
          /\ i < n => Abuts(segments[i], segments[i + 1].offset)
          /\ i = n => Abuts(segments[i], rowLen)
      BY <3>1 DEF SegmentsArePacked
    <3>3. Abuts(segments'[i], segments'[i + 1].offset)
      <4>1. CASE i = n
        BY <1>8, <3>1, <3>2, <4>1
      <4>2. CASE i < n
        <5>1. segments'[i + 1] = segments[i + 1]
          BY <1>2, <1>8, <3>1, <4>2
        <5> QED
          BY <3>1, <3>2, <4>2, <5>1
      <4> QED
        BY <1>2, <3>1, <4>1, <4>2
    <3> QED
      BY <2>2, <3>1, <3>2, <3>3
  <2> QED
    BY <2>1, <2>2
<1>10. SegmentsArePacked'
  <2>1. segments' = << >> => rowLen' = 0
    BY <1>8
  <2>2. \A i \in 1..Len(segments'):
          /\ segments'[i].offset % UnitLen = 0
          /\ i = 1 => segments'[i].offset = 0
          /\ i < Len(segments') => Abuts(segments'[i], segments'[i + 1].offset)
          /\ i = Len(segments') => Abuts(segments'[i], rowLen')
    BY <1>8, <1>9
  <2> QED
    BY <1>7, <2>1, <2>2 DEF SegmentsArePacked, Abuts
<1> QED
  BY <1>4, <1>7, <1>10

LEMMA StepLayoutInv == LayoutInv /\ [Next]_vars => LayoutInv'
<1> SUFFICES ASSUME LayoutInv, [Next]_vars PROVE LayoutInv'
  OBVIOUS
<1>0. /\ TypeOK /\ SegmentsArePacked /\ ClaimsFit /\ NothingSpanned /\ SpansCoverTheSegments
  BY DEF LayoutInv
<1>1. ASSUME NEW name \in Names, NEW type \in Types, AddVariable(name, type)
      PROVE  LayoutInv'
  <2>1. segments' \in Seq(Segment) /\ rowLen' \in Nat /\ SegmentsArePacked'
    BY <1>0, <1>1, AddVariablePacks
  <2>2. building = "adding" /\ Len(segments') = Len(segments) + 1
    BY <1>0, <1>1 DEF AddVariable, TypeOK
  <2>3. TypeOK'
    <3>1. /\ building' = "adding"
          /\ UNCHANGED <<veryLongStrings, entry, claimed, spans, index>>
      BY <1>1 DEF AddVariable
    <3> QED
      BY <1>0, <2>1, <3>1 DEF TypeOK
  <2>4. ClaimsFit'
    BY <1>0, <1>1 DEF AddVariable, ClaimsFit, NothingSpanned
  <2>5. NothingSpanned' /\ SpansCoverTheSegments'
    BY <1>0, <1>1, <2>2 DEF AddVariable, NothingSpanned, SpansCoverTheSegments, TypeOK
  <2> QED
    BY <2>1, <2>3, <2>4, <2>5 DEF LayoutInv
<1>2. ASSUME NEW entries \in Entries, SetVeryLongStrings(entries)
      PROVE  LayoutInv'
  <2>1. entries \in Seq(Entry) /\ Len(entries) \in Nat
    BY DEF Entries
  <2>2. SegmentsArePacked'
    BY <1>0, <1>2, PackingStays DEF SetVeryLongStrings
  <2>3. TypeOK'
    <3>1. /\ building' = "setting" /\ veryLongStrings' = entries /\ entry = 0
          /\ UNCHANGED <<segments, rowLen, entry, claimed, spans, index>>
      BY <1>0, <1>2 DEF SetVeryLongStrings, NothingSpanned
    <3> QED
      BY <1>0, <2>1, <3>1 DEF TypeOK
  <2>4. ClaimsFit' /\ NothingSpanned' /\ SpansCoverTheSegments'
    BY <1>0, <1>2 DEF SetVeryLongStrings, ClaimsFit, NothingSpanned, SpansCoverTheSegments
  <2> QED
    BY <2>2, <2>3, <2>4 DEF LayoutInv
<1>3. CASE Build
  <2>1. SegmentsArePacked'
    BY <1>0, <1>3, PackingStays DEF Build
  <2>2. claimed' \in Seq(Widths \cup {Unclaimed}) /\ Len(claimed') = Len(segments)
    BY <1>0, <1>3 DEF Build, NoClaim, TypeOK
  <2>3. TypeOK'
    BY <1>0, <1>3, <2>2 DEF Build, TypeOK
  <2>4. ClaimsFit'
    BY <1>0, <1>3 DEF Build, NoClaim, ClaimsFit, TypeOK
  <2>5. NothingSpanned' /\ SpansCoverTheSegments'
    BY <1>0, <1>3 DEF Build, NothingSpanned, SpansCoverTheSegments
  <2> QED
    BY <2>1, <2>3, <2>4, <2>5 DEF LayoutInv
<1>4. CASE ClaimNext
  <2> DEFINE claim == veryLongStrings[entry + 1]
             start == SegmentIndexOf(claim.name)
  <2>1. SegmentsArePacked'
    BY <1>0, <1>4, PackingStays DEF ClaimNext
  <2>2. NothingSpanned' /\ SpansCoverTheSegments'
    BY <1>0, <1>4 DEF ClaimNext, NothingSpanned, SpansCoverTheSegments
  <2>3. entry' = entry + 1 /\ entry' <= Len(veryLongStrings) /\ entry' \in Nat
    BY <1>0, <1>4 DEF ClaimNext, TypeOK
  <2>4. claim \in Entry
    BY <1>0, <1>4 DEF ClaimNext, TypeOK
  <2>5. claim.width \in Widths /\ claim.width \in Nat
    BY <2>4, WidthsAssumption DEF Entry
  <2>6. segments \in Seq(Segment) /\ Len(claimed) = Len(segments)
        /\ claimed \in Seq(Widths \cup {Unclaimed})
    BY <1>0, <1>4 DEF ClaimNext, TypeOK
  <2>7. \/ UNCHANGED claimed
        \/ /\ Declaring(claim.name) # {}
           /\ SegmentsAgree(start, claim.width)
           /\ claimed' = [claimed EXCEPT ![start] = claim.width]
    BY <1>4 DEF ClaimNext
  <2>8. claimed' \in Seq(Widths \cup {Unclaimed}) /\ Len(claimed') = Len(claimed) /\ ClaimsFit'
    <3>1. CASE UNCHANGED claimed
      BY <1>0, <1>4, <2>6, <3>1 DEF ClaimNext, ClaimsFit
    <3>2. CASE /\ Declaring(claim.name) # {}
               /\ SegmentsAgree(start, claim.width)
               /\ claimed' = [claimed EXCEPT ![start] = claim.width]
      <4>1. start \in 1..Len(segments)
        BY <2>6, <3>2, NamedSegment
      <4>2. start + SegmentCount(claim.width) <= Len(segments) + 1
        BY <2>5, <2>6, <3>2, <4>1, AgreedSegmentsExist
      <4> HIDE DEF start, claim
      <4>3. claimed' \in Seq(Widths \cup {Unclaimed}) /\ Len(claimed') = Len(claimed)
        <5> DEFINE C == Widths \cup {Unclaimed}
        <5>1. claimed \in [1..Len(claimed) -> C] /\ Len(claimed) \in Nat /\ claim.width \in C
          BY <2>5, <2>6
        <5> HIDE DEF C
        <5>2. claimed' \in [1..Len(claimed) -> C]
          BY <3>2, <5>1
        <5>3. claimed' \in Seq(C) /\ Len(claimed') = Len(claimed)
          BY <5>1, <5>2
        <5> QED
          BY <5>3 DEF C
      <4>4. ASSUME NEW i \in 1..Len(claimed'), claimed'[i] # Unclaimed
            PROVE  i + SegmentCount(claimed'[i]) <= Len(segments) + 1
        <5>1. CASE i = start
          <6>1. claimed'[i] = claim.width
            BY <2>6, <3>2, <4>1, <5>1
          <6> QED
            BY <4>2, <5>1, <6>1
        <5>2. CASE i # start
          <6>1. claimed'[i] = claimed[i] /\ i \in 1..Len(claimed)
            BY <2>6, <3>2, <4>3, <5>2
          <6> QED
            BY <1>0, <4>4, <6>1 DEF ClaimsFit
        <5> QED
          BY <5>1, <5>2
      <4>5. segments' = segments
        BY <1>4 DEF ClaimNext
      <4> QED
        BY <4>3, <4>4, <4>5 DEF ClaimsFit
    <3> QED
      BY <2>7, <3>1, <3>2
  <2>9. TypeOK'
    <3>1. UNCHANGED <<building, segments, rowLen, veryLongStrings, spans, index>>
      BY <1>4 DEF ClaimNext
    <3> QED
      BY <1>0, <2>3, <2>6, <2>8, <3>1 DEF TypeOK
  <2> QED
    BY <2>1, <2>2, <2>8, <2>9 DEF LayoutInv
<1>5. CASE Claimed
  <2>1. SegmentsArePacked'
    BY <1>0, <1>5, PackingStays DEF Claimed
  <2>2. TypeOK'
    BY <1>0, <1>5 DEF Claimed, TypeOK
  <2>3. ClaimsFit' /\ NothingSpanned' /\ SpansCoverTheSegments'
    BY <1>0, <1>5 DEF Claimed, ClaimsFit, NothingSpanned, SpansCoverTheSegments
  <2> QED
    BY <2>1, <2>2, <2>3 DEF LayoutInv
<1>6. CASE SpanNext
  <2> DEFINE n == Len(segments)
             new == SpanAt(index)
  <2>1. SegmentsArePacked'
    BY <1>0, <1>6, PackingStays DEF SpanNext
  <2>2. /\ index \in 1..n /\ n \in Nat /\ Len(claimed) = n
        /\ claimed \in Seq(Widths \cup {Unclaimed}) /\ segments \in Seq(Segment)
        /\ spans \in Seq(Span)
    BY <1>0, <1>6 DEF SpanNext, TypeOK
  <2>3. new \in Span /\ new.start = index /\ index + new.len <= n + 1
    <3>1. CASE claimed[index] = Unclaimed
      <4>1. segments[index] \in Segment
        BY <2>2
      <4>2. segments[index].type \in Nat
        <5>1. segments[index].type \in Types
          BY <4>1 DEF Segment
        <5>2. \A type \in Types: type \in Nat
          BY TypesAssumption DEF SegmentWidthMax
        <5> QED
          BY <5>1, <5>2
      <4>3. new = [start |-> index, len |-> 1, type |-> segments[index].type]
        BY <3>1 DEF SpanAt
      <4>4. index \in Nat \ {0} /\ index + 1 <= n + 1
        BY <2>2
      <4> HIDE DEF new
      <4>5. new \in Span
        BY <4>2, <4>3, <4>4 DEF Span
      <4> QED
        BY <4>3, <4>4, <4>5
    <3>2. CASE claimed[index] # Unclaimed
      <4>1. claimed[index] \in Nat
        <5>1. claimed[index] \in Widths \cup {Unclaimed}
          BY <2>2
        <5> QED
          BY <3>2, <5>1, WidthsAssumption
      <4>2. SegmentCount(claimed[index]) \in Nat \ {0}
        BY <4>1, SegmentCountType
      <4>3. index + SegmentCount(claimed[index]) <= n + 1
        BY <1>0, <2>2, <3>2 DEF ClaimsFit
      <4> QED
        BY <2>2, <3>2, <4>1, <4>2, <4>3 DEF SpanAt, Span
    <3> QED
      BY <3>1, <3>2
  <2>4. spans' = Append(spans, new) /\ index' = index + new.len
    BY <1>6 DEF SpanNext
  <2> HIDE DEF new
  <2>5. new.len \in Nat \ {0}
    BY <2>3 DEF Span
  <2>6. spans' \in Seq(Span) /\ index' \in Nat \ {0} /\ index' <= n + 1
    BY <2>2, <2>3, <2>4, <2>5
  <2>7. TypeOK'
    BY <1>0, <1>6, <2>6 DEF SpanNext, TypeOK
  <2>8. ClaimsFit'
    BY <1>0, <1>6 DEF SpanNext, ClaimsFit
  <2>9. NothingSpanned'
    BY <1>6 DEF SpanNext, NothingSpanned
  <2>10. /\ Len(spans') = Len(spans) + 1 /\ spans'[Len(spans) + 1] = new /\ spans' # << >>
         /\ \A k \in 1..Len(spans): spans'[k] = spans[k]
    <3>1. spans \in Seq(Span) /\ new \in Span /\ spans' = Append(spans, new)
      BY <2>2, <2>3, <2>4
    <3>2. Len(spans') = Len(spans) + 1 /\ spans'[Len(spans) + 1] = new
      BY <3>1
    <3>3. spans' # << >>
      BY <3>1
    <3>4. \A k \in 1..Len(spans): spans'[k] = spans[k]
      BY <3>1
    <3> QED
      BY <3>2, <3>3, <3>4
  <2>11. index' = spans'[Len(spans')].start + spans'[Len(spans')].len
    BY <2>3, <2>4, <2>10
  <2>12. spans'[1].start = 1
    <3>1. CASE Len(spans) = 0
      BY <1>0, <2>2, <2>3, <2>10, <3>1 DEF SpansCoverTheSegments
    <3>2. CASE Len(spans) # 0
      <4>1. spans # << >> /\ 1 \in 1..Len(spans)
        BY <2>2, <3>2
      <4>2. spans[1].start = 1
        BY <1>0, <4>1 DEF SpansCoverTheSegments
      <4> QED
        BY <2>10, <4>1, <4>2
    <3> QED
      BY <3>1, <3>2
  <2>13. ASSUME NEW k \in 1..Len(spans') - 1
         PROVE  spans'[k + 1].start = spans'[k].start + spans'[k].len
    <3>1. Len(spans) \in Nat /\ k \in 1..Len(spans) /\ spans # << >>
      BY <2>2, <2>10
    <3>2. CASE k = Len(spans)
      BY <1>0, <2>3, <2>10, <3>1, <3>2 DEF SpansCoverTheSegments
    <3>3. CASE k # Len(spans)
      <4>1. k \in 1..Len(spans) - 1 /\ k + 1 \in 1..Len(spans)
        BY <3>1, <3>3
      <4>2. spans[k + 1].start = spans[k].start + spans[k].len
        BY <1>0, <3>1, <4>1 DEF SpansCoverTheSegments
      <4> QED
        BY <2>10, <3>1, <4>1, <4>2
    <3> QED
      BY <3>2, <3>3
  <2>14. segments' = segments /\ building' = "spanning"
    BY <1>6 DEF SpanNext
  <2>15. SpansCoverTheSegments'
    BY <2>6, <2>10, <2>11, <2>12, <2>13, <2>14 DEF SpansCoverTheSegments
  <2> QED
    BY <2>1, <2>7, <2>8, <2>9, <2>15 DEF LayoutInv
<1>7. CASE Built
  <2>1. SegmentsArePacked'
    BY <1>0, <1>7, PackingStays DEF Built
  <2>2. TypeOK'
    BY <1>0, <1>7 DEF Built, TypeOK
  <2>3. ClaimsFit' /\ NothingSpanned'
    BY <1>0, <1>7 DEF Built, ClaimsFit, NothingSpanned
  <2>4. index = Len(segments) + 1
    BY <1>0, <1>7 DEF Built, SpansCoverTheSegments, TypeOK
  <2>5. SpansCoverTheSegments'
    BY <1>0, <1>7, <2>4 DEF Built, SpansCoverTheSegments
  <2> QED
    BY <2>1, <2>2, <2>3, <2>5 DEF LayoutInv
<1>8. CASE UNCHANGED vars
  <2>1. SegmentsArePacked'
    BY <1>0, <1>8, PackingStays DEF vars
  <2>2. TypeOK'
    BY <1>0, <1>8 DEF vars, TypeOK
  <2>3. ClaimsFit' /\ NothingSpanned' /\ SpansCoverTheSegments'
    BY <1>0, <1>8 DEF vars, ClaimsFit, NothingSpanned, SpansCoverTheSegments
  <2> QED
    BY <2>1, <2>2, <2>3 DEF LayoutInv
<1> QED
  BY <1>1, <1>2, <1>3, <1>4, <1>5, <1>6, <1>7, <1>8 DEF Next

LEMMA LayoutInvHolds == Spec => []LayoutInv
BY InitLayoutInv, StepLayoutInv, PTL DEF Spec

-----------------------------------------------------------------------------------

(* The layout's state is of its type, for any names, types and widths: among others,  *)
(* a run given to a variable is never empty (SpanNext always moves on).               *)
THEOREM LayoutTypes == Spec => []TypeOK
<1>1. LayoutInv => TypeOK
  BY DEF LayoutInv
<1> QED
  BY <1>1, LayoutInvHolds, PTL

(* The segments tile the row in whole units, for any types a variable can declare     *)
(* (DataLayoutBuilder::add_variable).                                                 *)
THEOREM LayoutIsPacked == Spec => []SegmentsArePacked
<1>1. LayoutInv => SegmentsArePacked
  BY DEF LayoutInv
<1> QED
  BY <1>1, LayoutInvHolds, PTL

(* The variables tile the segments, for any very-long-string records, true or not     *)
(* (DataLayoutBuilder::resolve_spans; the slice in variable_layout stays in bounds).  *)
THEOREM LayoutSpansCover == Spec => []SpansCoverTheSegments
<1>1. LayoutInv => SpansCoverTheSegments
  BY DEF LayoutInv
<1> QED
  BY <1>1, LayoutInvHolds, PTL

-----------------------------------------------------------------------------------
(* Widths: a claim was checked against its segments, and no segment changes after that. *)

ClaimsAgree ==
  \A i \in 1..Len(claimed): claimed[i] # Unclaimed => SegmentsAgree(i, claimed[i])

WidthInv == ClaimsAgree /\ SpansHoldTheirWidth

LEMMA TotalOfOne ==
  ASSUME NEW n \in Nat
  PROVE  Total(<<n>>) = n
<1>1. << >> \in Seq(Nat) /\ <<n>> = Append(<< >>, n)
  OBVIOUS
<1>2. Total(Append(<< >>, n)) = Total(<< >>) + n
  BY <1>1, TotalAppend
<1> QED
  BY <1>1, <1>2, TotalEmpty

(* Segments that all contribute as much as a segment can. *)
LEMMA TotalOfFull ==
  ASSUME NEW numbers \in Seq(Nat), \A k \in 1..Len(numbers): numbers[k] = 255
  PROVE  Total(numbers) = 255 * Len(numbers)
<1> DEFINE Full(s) == \A k \in 1..Len(s): s[k] = 255
           N == {n \in Nat: \A s \in Seq(Nat): Len(s) = n /\ Full(s) => Total(s) = 255 * n}
<1>1. 0 \in N
  BY TotalEmpty, EmptySeq
<1>2. ASSUME NEW n \in N, NEW s \in Seq(Nat), Len(s) = n + 1, Full(s)
      PROVE  Total(s) = 255 * (n + 1)
  <2> DEFINE front == SubSeq(s, 1, n)
             last  == s[n + 1]
  <2>1. /\ n \in Nat /\ front \in Seq(Nat) /\ Len(front) = n
        /\ last \in Nat /\ s = Append(front, last)
    BY <1>2, SeqIsAppend
  <2>2. \A k \in 1..n: front[k] = s[k]
    BY <1>2, <2>1
  <2> HIDE DEF front
  <2>3. Full(front) /\ last = 255
    BY <1>2, <2>1, <2>2
  <2> HIDE DEF last
  <2>4. Total(front) = 255 * n
    BY <2>1, <2>3
  <2> HIDE DEF N, Full
  <2>5. Total(s) = Total(front) + last
    BY <2>1, TotalAppend
  <2> QED
    BY <2>1, <2>3, <2>4, <2>5
<1>3. \A n \in N: n \in Nat /\ n + 1 \in Nat
  OBVIOUS
<1>4. N \in SUBSET Nat /\ \A n \in N: n + 1 \in N
  BY <1>2, <1>3, Zenon
<1> HIDE DEF N
<1>5. N = Nat
  BY <1>1, <1>4, SetInduction
<1>6. Len(numbers) \in N /\ Full(numbers)
  BY <1>5, LenProperties
<1> HIDE DEF Full
<1> QED
  BY <1>6, Zenon DEF N

(* A width that is cut into n segments: all but the last are full, and the last one is what *)
(* remains of the width, within a segment.                                                  *)
LEMMA WidthIsCut ==
  ASSUME NEW w \in Nat \ {0}
  PROVE  /\ SegmentCount(w) \in Nat \ {0}
         /\ \A k \in 0..SegmentCount(w) - 2: SegmentWidth(w, k) = 255
         /\ SegmentWidth(w, SegmentCount(w) - 1) \in 1..255
         /\ w = 252 * (SegmentCount(w) - 1) + SegmentWidth(w, SegmentCount(w) - 1)
<1> DEFINE n == SegmentCount(w)
<1>1. n \in Nat \ {0}
  BY SegmentCountType
<1>2. \A k \in 0..n - 2: SegmentWidth(w, k) = 255
  <2> HIDE DEF n
  <2>1. \A k \in 0..n - 2: k + 1 < n
    BY <1>1
  <2> QED
    BY <2>1 DEF SegmentWidth, SegmentWidthMax, n
<1>3. SegmentWidth(w, n - 1) = w - (n - 1) * 252
  <2> HIDE DEF n
  <2>1. ~((n - 1) + 1 < n)
    BY <1>1
  <2> QED
    BY <2>1 DEF SegmentWidth, SegmentStride, n
<1>4. w - (n - 1) * 252 \in 1..255
  <2>1. CASE w <= 255
    <3>1. n = 1
      BY <2>1 DEF SegmentCount, SegmentWidthMax
    <3> HIDE DEF n
    <3> QED
      BY <2>1, <3>1
  <2>2. CASE w > 255
    <3>1. n = (w + 252 - 1) \div 252
      BY <2>2 DEF SegmentCount, SegmentWidthMax, SegmentStride, CeilDiv
    <3> HIDE DEF n
    <3> QED
      BY <1>1, <3>1
  <2> QED
    BY <2>1, <2>2
<1> HIDE DEF n
<1>5. w = 252 * (n - 1) + SegmentWidth(w, n - 1) /\ SegmentWidth(w, n - 1) \in 1..255
  BY <1>1, <1>3, <1>4
<1> QED
  BY <1>1, <1>2, <1>5 DEF n

LEMMA PaddedWithinUnit ==
  ASSUME NEW w \in Nat
  PROVE  Padded(w) \in Nat /\ Padded(w) <= w + 7 /\ (w = 0 => Padded(w) = 0)
<1> DEFINE units == (w + 7) \div 8
<1>1. units \in Nat /\ 8 * units <= w + 7 /\ (w = 0 => units = 0)
  OBVIOUS
<1>2. Padded(w) = units * 8
  BY DEF Padded, CeilDiv, UnitLen
<1> HIDE DEF units
<1> QED
  BY <1>1, <1>2

(* No segment is as narrow as nothing, so no width of zero is claimed. *)
LEMMA AgreedIsWide ==
  ASSUME NEW start, SegmentsAgree(start, 0)
  PROVE  FALSE
<1>1. SegmentCount(0) = 1
  BY DEF SegmentCount, SegmentWidthMax
<1>2. SegmentWidth(0, 0) = 0
  BY <1>1 DEF SegmentWidth, SegmentStride
<1>3. 0 \in 0..SegmentCount(0) - 1 /\ 0 + 1 = SegmentCount(0)
  BY <1>1
<1>4. segments[start + 0].type # 0 /\ Accepted(0, segments[start + 0].type, TRUE)
  BY <1>2, <1>3 DEF SegmentsAgree, Numeric
<1>5. Padded(0) = 0
  BY PaddedWithinUnit
<1> QED
  BY <1>4, <1>5 DEF Accepted

(* What a run of segments that agrees with a width contributes. *)
LEMMA AgreedContribution ==
  ASSUME segments \in Seq(Segment), NEW start \in 1..Len(segments), NEW w \in Nat \ {0},
         SegmentsAgree(start, w)
  PROVE  /\ \A i \in start..start + SegmentCount(w) - 1: segments[i].type # Numeric
         /\ Contribution(start, SegmentCount(w)) - w
              \in 0..3 * (SegmentCount(w) - 1) + 7
<1> DEFINE n == SegmentCount(w)
           parts == [k \in 1..n |-> ContentLen(segments[start + k - 1].type)]
           expected == SegmentWidth(w, n - 1)
           full == [k \in 1..(n - 1) |-> parts[k]]
           last == parts[n]
<1>1. /\ n \in Nat \ {0}
      /\ \A k \in 0..n - 2: SegmentWidth(w, k) = 255
      /\ expected \in 1..255
      /\ w = 252 * (n - 1) + expected
  BY WidthIsCut
<1>2. start + n <= Len(segments) + 1 /\ start \in Nat
  BY AgreedSegmentsExist
<1>3. \A k \in 0..n - 1: /\ segments[start + k].type # Numeric
                         /\ Accepted(SegmentWidth(w, k), segments[start + k].type, k + 1 = n)
  BY DEF SegmentsAgree
<1>4. \A k \in 1..n: k - 1 \in 0..n - 1 /\ start + (k - 1) = start + k - 1
  <2> HIDE DEF n
  <2> QED
    BY <1>1, <1>2
<1>5. \A k \in 1..n: parts[k] = segments[start + (k - 1)].type
  BY <1>3, <1>4 DEF ContentLen
<1>6. \A k \in 1..(n - 1): parts[k] = 255
  <2> SUFFICES ASSUME NEW k \in 1..(n - 1) PROVE parts[k] = 255
    OBVIOUS
  <2> HIDE DEF n, parts
  <2>1. k \in 1..n /\ k - 1 \in 0..n - 2 /\ k - 1 \in 0..n - 1 /\ ~((k - 1) + 1 = n)
    BY <1>1
  <2>2. segments[start + (k - 1)].type = SegmentWidth(w, k - 1)
    <3>1. Accepted(SegmentWidth(w, k - 1), segments[start + (k - 1)].type, (k - 1) + 1 = n)
      BY <1>3, <2>1, Zenon
    <3> QED
      BY <2>1, <3>1, Zenon DEF Accepted
  <2>3. SegmentWidth(w, k - 1) = 255
    BY <1>1, <2>1, Zenon
  <2> QED
    BY <1>5, <2>1, <2>2, <2>3, Zenon
<1>7. last \in expected..Padded(expected)
  <2> HIDE DEF parts, n
  <2>1. n \in 1..n /\ n - 1 \in 0..n - 1 /\ (n - 1) + 1 = n
    BY <1>1
  <2> HIDE DEF expected
  <2>2. Accepted(SegmentWidth(w, n - 1), segments[start + (n - 1)].type, TRUE)
    BY <1>3, <2>1
  <2>3. Accepted(expected, segments[start + (n - 1)].type, TRUE)
    BY <2>2 DEF expected
  <2>4. last = segments[start + (n - 1)].type
    BY <1>5, <2>1
  <2>5. segments[start + (n - 1)].type \in expected..Padded(expected)
    BY <2>3, Zenon DEF Accepted
  <2> HIDE DEF last
  <2> QED
    BY <2>4, <2>5, Zenon
<1>8. Padded(expected) \in Nat /\ Padded(expected) <= expected + 7 /\ expected \in Nat
  <2> HIDE DEF n, expected
  <2>1. expected \in Nat
    BY <1>1
  <2> QED
    BY <2>1, PaddedWithinUnit
<1>9. last \in Nat /\ last >= expected /\ last <= expected + 7
  <2> HIDE DEF last, expected
  <2> QED
    BY <1>7, <1>8
<1>10. full \in Seq(Nat) /\ Len(full) = n - 1 /\ \A k \in 1..Len(full): full[k] = 255
  <2> HIDE DEF n, parts
  <2>1. n - 1 \in Nat
    BY <1>1
  <2>2. \A k \in 1..(n - 1): full[k] = 255
    BY <1>6
  <2>3. full \in [1..(n - 1) -> Nat]
    BY <1>6
  <2> HIDE DEF full
  <2>4. full \in Seq(Nat) /\ Len(full) = n - 1
    BY <2>1, <2>3
  <2> QED
    BY <2>2, <2>4
<1>11. Total(full) = 255 * (n - 1)
  <2> HIDE DEF full, n
  <2> QED
    BY <1>10, TotalOfFull
<1>12. parts = Append(full, last)
  <2> HIDE DEF last, n
  <2>1. DOMAIN parts = 1..n /\ parts = [i \in DOMAIN parts |-> parts[i]]
    OBVIOUS
  <2>2. \A k \in 1..(n - 1): parts[k] = full[k]
    OBVIOUS
  <2>3. parts[n] = last
    BY DEF last
  <2> HIDE DEF parts, full
  <2>4. DOMAIN parts = 1..(Len(full) + 1) /\ parts[Len(full) + 1] = last
        /\ \A k \in 1..Len(full): parts[k] = full[k]
    BY <1>1, <1>10, <2>1, <2>2, <2>3
  <2> QED
    BY <1>9, <1>10, <2>1, <2>4, OneMore
<1>13. Total(parts) = Total(full) + last
  <2> HIDE DEF parts, full, last
  <2> QED
    BY <1>9, <1>10, <1>12, TotalAppend
<1>14. Contribution(start, n) = Total(parts)
  BY Zenon DEF Contribution, Total
<1>15. Contribution(start, n) - w \in 0..3 * (n - 1) + 7
  <2> HIDE DEF n, parts, expected, full, last
  <2> QED
    BY <1>1, <1>9, <1>11, <1>13, <1>14
<1>16. \A i \in start..start + n - 1: segments[i].type # Numeric
  <2> SUFFICES ASSUME NEW i \in start..start + n - 1 PROVE segments[i].type # Numeric
    OBVIOUS
  <2> HIDE DEF n
  <2>1. i - start \in 0..n - 1 /\ start + (i - start) = i
    BY <1>1, <1>2
  <2> QED
    BY <1>3, <2>1
<1> QED
  BY <1>15, <1>16

LEMMA SpanHoldsItsWidth ==
  ASSUME LayoutInv, ClaimsAgree, building = "spanning", index <= Len(segments)
  PROVE  HoldsItsWidth(SpanAt(index))
<1> DEFINE span == SpanAt(index)
<1>1. /\ index \in 1..Len(segments) /\ segments \in Seq(Segment) /\ Len(claimed) = Len(segments)
      /\ claimed \in Seq(Widths \cup {Unclaimed}) /\ Len(segments) \in Nat
  BY DEF LayoutInv, TypeOK
<1>2. CASE claimed[index] = Unclaimed
  <2> DEFINE type == segments[index].type
             parts == [k \in 1..1 |-> ContentLen(segments[index + k - 1].type)]
  <2>1. span.start = index /\ span.len = 1 /\ span.type = type
    BY <1>2 DEF SpanAt
  <2>2. type \in Nat
    <3>1. segments[index] \in Segment
      BY <1>1
    <3>2. type \in Types
      BY <3>1 DEF Segment
    <3>3. \A t \in Types: t \in Nat
      BY TypesAssumption DEF SegmentWidthMax
    <3> HIDE DEF type
    <3> QED
      BY <3>2, <3>3
  <2>3. CASE type = Numeric
    BY <2>1, <2>3 DEF HoldsItsWidth
  <2>4. CASE type # Numeric
    <3>1. parts = <<type>>
      <4>1. index + 1 - 1 = index
        BY <1>1
      <4>2. parts[1] = type
        BY <2>4, <4>1 DEF ContentLen
      <4>3. parts = [k \in 1..1 |-> parts[k]]
        OBVIOUS
      <4> HIDE DEF parts, type
      <4> QED
        BY <4>2, <4>3
    <3>2. Contribution(index, 1) = Total(parts)
      BY Zenon DEF Contribution, Total
    <3> HIDE DEF parts
    <3>3. Contribution(index, 1) - type = 0
      <4> HIDE DEF type
      <4> QED
        BY <2>2, <3>1, <3>2, TotalOfOne
    <3>4. \A i \in index..index + 1 - 1: segments[i].type # Numeric
      BY <1>1, <2>4
    <3>5. (SegmentWidthMax - SegmentStride) * (1 - 1) + UnitLen - 1 = 7
      BY DEF SegmentWidthMax, SegmentStride, UnitLen
    <3> HIDE DEF span, type
    <3>6. HoldsItsWidth(span)
      BY <2>1, <2>4, <3>3, <3>4, <3>5 DEF HoldsItsWidth
    <3> QED
      BY <3>6 DEF span
  <2> QED
    BY <2>3, <2>4
<1>3. CASE claimed[index] # Unclaimed
  <2> DEFINE w == claimed[index]
  <2>1. w \in Nat
    <3>1. w \in Widths \cup {Unclaimed}
      BY <1>1
    <3> QED
      BY <1>3, <3>1, WidthsAssumption
  <2>2. SegmentsAgree(index, w)
    BY <1>1, <1>3 DEF ClaimsAgree
  <2>3. w # 0
    BY <2>2, AgreedIsWide
  <2>4. span.start = index /\ span.len = SegmentCount(w) /\ span.type = w
    BY <1>3 DEF SpanAt
  <2> HIDE DEF w, span
  <2>5. /\ \A i \in index..index + SegmentCount(w) - 1: segments[i].type # Numeric
        /\ Contribution(index, SegmentCount(w)) - w \in 0..3 * (SegmentCount(w) - 1) + 7
    BY <1>1, <2>1, <2>2, <2>3, AgreedContribution
  <2>6. SegmentCount(w) \in Nat
    BY <2>1, SegmentCountType
  <2>7. (SegmentWidthMax - SegmentStride) * (SegmentCount(w) - 1) + UnitLen - 1
          = 3 * (SegmentCount(w) - 1) + 7
    BY <2>6 DEF SegmentWidthMax, SegmentStride, UnitLen
  <2>8. w # Numeric
    BY <2>3 DEF Numeric
  <2>9. HoldsItsWidth(span)
    BY <2>4, <2>5, <2>7, <2>8 DEF HoldsItsWidth
  <2> QED
    BY <2>9 DEF span
<1> QED
  BY <1>2, <1>3

(* Nothing that was found of the segments changes while they stay as they are. *)
ContributionsAreTotals ==
  \A start, len: Contribution(start, len) =
    Total([k \in 1..len |-> ContentLen(segments[start + k - 1].type)])

LEMMA ContributionIsATotal == ContributionsAreTotals
BY Zenon DEF Contribution, Total, ContributionsAreTotals

LEMMA ContributionsStay ==
  ASSUME UNCHANGED segments
  PROVE  \A start, len: Contribution(start, len)' = Contribution(start, len)
<1>1. ContributionsAreTotals /\ ContributionsAreTotals'
  BY ContributionIsATotal, PTL
<1> SUFFICES ASSUME NEW start, NEW len
             PROVE  Contribution(start, len)' = Contribution(start, len)
  OBVIOUS
<1> DEFINE parts == [k \in 1..len |-> ContentLen(segments[start + k - 1].type)]
<1>2. Contribution(start, len) = Total(parts) /\ Contribution(start, len)' = Total(parts')
  BY <1>1 DEF ContributionsAreTotals
<1>3. parts' = parts
  OBVIOUS
<1> QED
  BY <1>2, <1>3

LEMMA WidthStays ==
  ASSUME WidthInv, UNCHANGED <<segments, claimed, spans>>
  PROVE  WidthInv'
<1>1. ClaimsAgree'
  BY DEF WidthInv, ClaimsAgree, SegmentsAgree
<1>2. SpansHoldTheirWidth'
  <2>1. \A start, len: Contribution(start, len)' = Contribution(start, len)
    BY ContributionsStay
  <2> QED
    BY <2>1 DEF WidthInv, SpansHoldTheirWidth, HoldsItsWidth
<1> QED
  BY <1>1, <1>2 DEF WidthInv

(* As long as nothing is claimed or spanned there is nothing to hold. *)
LEMMA WidthUnclaimed ==
  ASSUME \A i \in 1..Len(claimed): claimed[i] = Unclaimed, spans = << >>
  PROVE  WidthInv
BY DEF WidthInv, ClaimsAgree, SpansHoldTheirWidth

LEMMA InitWidthInv == Init => WidthInv
BY WidthUnclaimed DEF Init

LEMMA StepWidthInv == LayoutInv /\ WidthInv /\ [Next]_vars => WidthInv'
<1> SUFFICES ASSUME LayoutInv, WidthInv, [Next]_vars PROVE WidthInv'
  OBVIOUS
<1>0. TypeOK /\ NothingSpanned
  BY DEF LayoutInv
<1>1. ASSUME NEW name \in Names, NEW type \in Types, AddVariable(name, type)
      PROVE  WidthInv'
  <2>1. claimed' = << >> /\ spans' = << >>
    BY <1>0, <1>1 DEF AddVariable, NothingSpanned
  <2>2. \A i \in 1..Len(claimed'): claimed'[i] = Unclaimed
    BY <2>1
  <2> QED
    BY <2>1, <2>2 DEF WidthInv, ClaimsAgree, SpansHoldTheirWidth
<1>2. ASSUME NEW entries \in Entries, SetVeryLongStrings(entries)
      PROVE  WidthInv'
  BY <1>2, WidthStays DEF SetVeryLongStrings
<1>3. CASE Build
  <2>1. claimed' = NoClaim /\ spans' = << >> /\ Len(segments) \in Nat
    BY <1>0, <1>3 DEF Build, NothingSpanned, TypeOK
  <2>2. \A i \in 1..Len(claimed'): claimed'[i] = Unclaimed
    BY <2>1 DEF NoClaim
  <2> QED
    BY <2>1, <2>2 DEF WidthInv, ClaimsAgree, SpansHoldTheirWidth
<1>4. CASE ClaimNext
  <2> DEFINE claim == veryLongStrings[entry + 1]
             start == SegmentIndexOf(claim.name)
  <2>1. spans' = << >> /\ segments' = segments /\ claimed \in Seq(Widths \cup {Unclaimed})
        /\ spans = << >>
    BY <1>0, <1>4 DEF ClaimNext, NothingSpanned, TypeOK
  <2>2. CASE UNCHANGED claimed
    BY <2>1, <2>2, WidthStays
  <2>3. CASE /\ SegmentsAgree(start, claim.width)
             /\ claimed' = [claimed EXCEPT ![start] = claim.width]
    <3> HIDE DEF claim, start
    <3>1. DOMAIN claimed = 1..Len(claimed)
      BY <2>1
    <3>2. DOMAIN claimed' = DOMAIN claimed
      BY <2>3
    <3>3. Len(claimed') = Len(claimed)
      <4>1. Len(claimed) \in Nat
        BY <2>1
      <4> QED
        BY <3>1, <3>2, <4>1
    <3>4. ASSUME NEW i \in 1..Len(claimed'), claimed'[i] # Unclaimed
          PROVE  SegmentsAgree(i, claimed'[i])
      <4>1. CASE i = start
        BY <2>3, <3>1, <3>3, <4>1
      <4>2. CASE i # start
        BY <2>3, <3>1, <3>3, <3>4, <4>2 DEF WidthInv, ClaimsAgree
      <4> QED
        BY <4>1, <4>2
    <3>5. ClaimsAgree'
      BY <2>1, <3>4 DEF ClaimsAgree, SegmentsAgree
    <3>6. SpansHoldTheirWidth'
      BY <2>1 DEF SpansHoldTheirWidth
    <3> QED
      BY <3>5, <3>6 DEF WidthInv
  <2>4. \/ UNCHANGED claimed
        \/ /\ SegmentsAgree(start, claim.width)
           /\ claimed' = [claimed EXCEPT ![start] = claim.width]
    BY <1>4 DEF ClaimNext
  <2> QED
    BY <2>2, <2>3, <2>4
<1>5. CASE Claimed
  BY <1>5, WidthStays DEF Claimed
<1>6. CASE SpanNext
  <2> DEFINE new == SpanAt(index)
  <2>1. /\ spans' = Append(spans, new) /\ UNCHANGED <<segments, claimed>>
        /\ building = "spanning" /\ index <= Len(segments) /\ spans \in Seq(Span)
    BY <1>0, <1>6 DEF SpanNext, TypeOK
  <2>2. HoldsItsWidth(new)
    BY <2>1, SpanHoldsItsWidth DEF WidthInv
  <2> HIDE DEF new
  <2>3. \A k \in 1..Len(spans'): \/ k \in 1..Len(spans) /\ spans'[k] = spans[k]
                                 \/ spans'[k] = new
    BY <2>1
  <2>4. \A k \in 1..Len(spans'): HoldsItsWidth(spans'[k])
    BY <2>2, <2>3 DEF WidthInv, SpansHoldTheirWidth
  <2>5. SpansHoldTheirWidth'
    <3>1. \A start, len: Contribution(start, len)' = Contribution(start, len)
      BY <2>1, ContributionsStay
    <3> QED
      BY <2>1, <2>4, <3>1 DEF SpansHoldTheirWidth, HoldsItsWidth
  <2>6. ClaimsAgree'
    BY <2>1 DEF WidthInv, ClaimsAgree, SegmentsAgree
  <2> QED
    BY <2>5, <2>6 DEF WidthInv
<1>7. CASE Built
  BY <1>7, WidthStays DEF Built
<1>8. CASE UNCHANGED vars
  BY <1>8, WidthStays DEF vars
<1> QED
  BY <1>1, <1>2, <1>3, <1>4, <1>5, <1>6, <1>7, <1>8 DEF Next

(* Every variable has the bytes it declares, and no more than its segments' own padding, *)
(* for any names, types and widths and any very-long-string records, true or not          *)
(* (DataLayoutBuilder::segments_agree, resolve_spans).                                     *)
THEOREM LayoutSpansHoldTheirWidth == Spec => []SpansHoldTheirWidth
<1>1. WidthInv => SpansHoldTheirWidth
  BY DEF WidthInv
<1>2. Spec => []WidthInv
  BY InitWidthInv, StepWidthInv, LayoutInvHolds, PTL DEF Spec
<1> QED
  BY <1>1, <1>2, PTL

-----------------------------------------------------------------------------------
(* A number is read from its bytes *)

(* iter reads the digits at any set of the first k positions. *)
ReadsDigits(iter, digits, k) ==
  iter = [s \in SUBSET (1..k) |-> IF s = {} THEN 0 ELSE (iter[s \ {Max(s)}] * Base) + digits[Max(s)]]

LEMMA DigitsGrow ==
  ASSUME NEW digits, NEW k \in Nat, NEW f, ReadsDigits(f, digits, k)
  PROVE  \E g: ReadsDigits(g, digits, k + 1)
<1> DEFINE g == [s \in SUBSET (1..(k + 1)) |->
                   IF k + 1 \in s THEN (f[s \ {k + 1}] * Base) + digits[k + 1] ELSE f[s]]
<1>1. \A s \in SUBSET (1..(k + 1)): s \ {k + 1} \in SUBSET (1..k)
  OBVIOUS
<1>2. \A s \in SUBSET (1..k): f[s] = IF s = {} THEN 0 ELSE (f[s \ {Max(s)}] * Base) + digits[Max(s)]
  BY Zenon DEF ReadsDigits
<1>3. ASSUME NEW s \in SUBSET (1..(k + 1))
      PROVE  g[s] = IF s = {} THEN 0 ELSE (g[s \ {Max(s)}] * Base) + digits[Max(s)]
  <2>1. CASE k + 1 \in s
    <3>1. Max(s) = k + 1 /\ s # {}
      BY <2>1, LastIsMax
    <3>2. g[s] = (f[s \ {k + 1}] * Base) + digits[k + 1]
      BY <2>1
    <3>3. s \ {k + 1} \in SUBSET (1..(k + 1)) /\ k + 1 \notin s \ {k + 1}
      OBVIOUS
    <3>4. g[s \ {k + 1}] = f[s \ {k + 1}]
      BY <3>3
    <3> HIDE DEF g
    <3> QED
      BY <3>1, <3>2, <3>4, Zenon
  <2>2. CASE k + 1 \notin s
    <3>1. s \in SUBSET (1..k)
      BY <1>1, <2>2
    <3>2. g[s] = f[s]
      BY <2>2
    <3>3. s \ {Max(s)} \in SUBSET (1..(k + 1)) /\ k + 1 \notin s \ {Max(s)}
      BY <2>2
    <3>4. g[s \ {Max(s)}] = f[s \ {Max(s)}]
      BY <3>3
    <3> HIDE DEF g
    <3> QED
      BY <1>2, <3>1, <3>2, <3>4, Zenon
  <2> QED
    BY <2>1, <2>2
<1>4. g = [s \in SUBSET (1..(k + 1)) |-> g[s]]
  OBVIOUS
<1> HIDE DEF g
<1>5. ReadsDigits(g, digits, k + 1)
  BY <1>3, <1>4, Zenon DEF ReadsDigits
<1> QED
  BY <1>5

LEMMA DigitsExist ==
  ASSUME NEW digits, NEW n \in Nat
  PROVE  \E f: ReadsDigits(f, digits, n)
<1> DEFINE S == {k \in Nat: \E f: ReadsDigits(f, digits, k)}
<1>1. ReadsDigits([s \in SUBSET (1..0) |-> 0], digits, 0)
  BY DEF ReadsDigits
<1>2. \A k \in S: k + 1 \in S
  BY DigitsGrow
<1>3. S \in SUBSET Nat /\ 0 \in S
  BY <1>1
<1> HIDE DEF S
<1>4. S = Nat
  BY <1>2, <1>3, SetInduction
<1> QED
  BY <1>4 DEF S

LEMMA OneMorePosition ==
  ASSUME NEW n \in Nat, NEW k \in Nat, k + 1 <= n
  PROVE  1..(k + 1) \in SUBSET (1..n) /\ 1..(k + 1) # {} /\ (1..(k + 1)) \ {k + 1} = 1..k
<1>1. \A i \in 1..(k + 1): i \in 1..n
  OBVIOUS
<1>2. k + 1 \in 1..(k + 1)
  OBVIOUS
<1>3. (1..(k + 1)) \ {k + 1} = 1..k
  OBVIOUS
<1> QED
  BY <1>1, <1>2, <1>3

LEMMA DigitsAreANumber ==
  ASSUME NEW digits, NEW n \in Nat, \A i \in 1..n: digits[i] \in Nat, NEW f, ReadsDigits(f, digits, n)
  PROVE  f[1..n] \in Nat
<1> DEFINE S == {k \in Nat: k <= n => f[1..k] \in Nat}
<1>1. \A s \in SUBSET (1..n): f[s] = IF s = {} THEN 0 ELSE (f[s \ {Max(s)}] * Base) + digits[Max(s)]
  BY Zenon DEF ReadsDigits
<1>2. 0 \in S
  <2>1. 1..0 = {} /\ 1..0 \in SUBSET (1..n)
    OBVIOUS
  <2>2. f[1..0] = 0
    BY <1>1, <2>1
  <2> QED
    BY <2>2
<1>3. ASSUME NEW k \in S, k + 1 <= n
      PROVE  f[1..(k + 1)] \in Nat
  <2> DEFINE s == 1..(k + 1)
  <2>1. k \in Nat /\ k + 1 <= n /\ f[1..k] \in Nat /\ digits[k + 1] \in Nat
    BY <1>3
  <2> HIDE DEF S
  <2>2. s \in SUBSET (1..n) /\ s # {} /\ s \ {k + 1} = 1..k
    BY <2>1, OneMorePosition
  <2>3. Max(s) = k + 1
    BY <2>1, LastIsMax
  <2> HIDE DEF s
  <2>4. f[s] = (f[1..k] * Base) + digits[k + 1]
    BY <1>1, <2>2, <2>3
  <2>5. f[1..k] * Base \in Nat
    BY <2>1, BytesAssumption
  <2> QED
    BY <2>1, <2>4, <2>5 DEF s
<1>4. S \in SUBSET Nat /\ \A k \in S: k + 1 \in S
  BY <1>3
<1> HIDE DEF S
<1>5. S = Nat
  BY <1>2, <1>4, SetInduction
<1> QED
  BY <1>5 DEF S

LEMMA NumberRead ==
  ASSUME NEW order, NEW bytes \in Seq(Byte)
  PROVE  ReadU32(order, bytes) \in Nat
<1> DEFINE digits == IF order = "BigEndian" THEN bytes ELSE Reverse(bytes)
           n      == Len(bytes)
           f      == CHOOSE h: ReadsDigits(h, digits, n)
<1>1. /\ n \in Nat /\ DOMAIN bytes = 1..n
      /\ \A i \in 1..n: bytes[i] \in Nat
  BY BytesAssumption DEF Byte
<1>2. DOMAIN digits = 1..n /\ \A i \in 1..n: digits[i] \in Nat
  BY <1>1 DEF Reverse
<1>3. ReadU32(order, bytes) = FoldLeft(LAMBDA number, byte: (number * Base) + byte, 0, digits)
  BY Zenon DEF ReadU32
<1> HIDE DEF digits, n
<1>4. ReadsDigits(f, digits, n)
  BY <1>1, DigitsExist
<1>5. ReadU32(order, bytes) = f[1..n]
  BY <1>2, <1>3, Zenon DEF FoldLeft, MapThenFoldSet, ReadsDigits
<1> HIDE DEF f
<1> QED
  BY <1>1, <1>2, <1>4, <1>5, DigitsAreANumber
-----------------------------------------------------------------------------------
(* What is taken off the front of a payload, and what it leaves *)

LEMMA FoundWithin ==
  ASSUME NEW T, NEW bytes \in Seq(T), NEW byte
  PROVE  Find(bytes, byte) \in 0..Len(bytes)
<1> DEFINE I == {i \in 1..Len(bytes): bytes[i] = byte}
<1>1. Len(bytes) \in Nat /\ I \in SUBSET (1..Len(bytes)) /\ I \in SUBSET Nat
  OBVIOUS
<1>2. Find(bytes, byte) = IF I # {} THEN Min(I) ELSE 0
  BY Zenon DEF Find, SelectInSeq
<1> HIDE DEF I
<1>3. CASE I = {}
  BY <1>1, <1>2, <1>3
<1>4. CASE I # {}
  <2>1. \E i \in I: \A j \in I: i <= j
    BY <1>1, <1>4, LeastNumber
  <2>2. Min(I) \in I
    BY <2>1, Zenon DEF Min
  <2>3. Find(bytes, byte) = Min(I)
    BY <1>2, <1>4
  <2>4. Min(I) \in 1..Len(bytes)
    BY <1>1, <2>2
  <2> QED
    BY <1>1, <2>3, <2>4
<1> QED
  BY <1>3, <1>4

LEMMA AfterIsShorter ==
  ASSUME NEW T, NEW bytes \in Seq(T), NEW n \in 0..Len(bytes)
  PROVE  After(bytes, n) \in Seq(T) /\ Len(After(bytes, n)) = Len(bytes) - n
BY TwoSlices DEF After

LEMMA BytesTaken ==
  ASSUME NEW T, NEW bytes \in Seq(T), NEW n \in Nat, TakeBytes(bytes, n).ok
  PROVE  /\ n <= Len(bytes)
         /\ TakeBytes(bytes, n).value \in Seq(T)
         /\ TakeBytes(bytes, n).rest \in Seq(T)
         /\ Len(TakeBytes(bytes, n).rest) = Len(bytes) - n
<1>1. Len(bytes) \in Nat
  OBVIOUS
<1>2. ~(Len(bytes) < n)
  BY DEF TakeBytes, Truncated
<1>3. /\ TakeBytes(bytes, n).value = SubSeq(bytes, 1, n)
      /\ TakeBytes(bytes, n).rest = SubSeq(bytes, n + 1, Len(bytes))
  BY <1>2 DEF TakeBytes, Taken
<1>4. n <= Len(bytes)
  BY <1>1, <1>2
<1>5. /\ SubSeq(bytes, 1, n) \in Seq(T)
      /\ SubSeq(bytes, n + 1, Len(bytes)) \in Seq(T)
      /\ Len(SubSeq(bytes, n + 1, Len(bytes))) = Len(bytes) - n
  BY <1>4, TwoSlices
<1> QED
  BY <1>3, <1>4, <1>5

LEMMA WordTaken ==
  ASSUME NEW order, NEW bytes \in Seq(Byte), TakeU32(order, bytes).ok
  PROVE  /\ TakeU32(order, bytes).value \in Nat
         /\ TakeU32(order, bytes).rest \in Seq(Byte)
         /\ Len(TakeU32(order, bytes).rest) = Len(bytes) - WordLen
         /\ WordLen <= Len(bytes)
<1> DEFINE word == TakeBytes(bytes, WordLen)
<1>1. WordLen \in Nat
  BY BytesAssumption
<1>2. word.ok
  BY DEF TakeU32, Truncated
<1>3. /\ TakeU32(order, bytes).value = ReadU32(order, word.value)
      /\ TakeU32(order, bytes).rest = word.rest
  BY <1>2 DEF TakeU32, Taken
<1>4. /\ WordLen <= Len(bytes) /\ word.value \in Seq(Byte)
      /\ word.rest \in Seq(Byte) /\ Len(word.rest) = Len(bytes) - WordLen
  BY <1>1, <1>2, BytesTaken
<1> HIDE DEF word
<1>5. ReadU32(order, word.value) \in Nat
  BY <1>4, NumberRead
<1> QED
  BY <1>3, <1>4, <1>5

LEMMA PrefixedTaken ==
  ASSUME NEW order, NEW bytes \in Seq(Byte), TakeLengthPrefixed(order, bytes).ok
  PROVE  /\ TakeLengthPrefixed(order, bytes).rest \in Seq(Byte)
         /\ Len(TakeLengthPrefixed(order, bytes).rest) < Len(bytes)
<1> DEFINE length == TakeU32(order, bytes)
           taken  == TakeBytes(length.rest, length.value)
<1>1. length.ok /\ TakeLengthPrefixed(order, bytes) = taken
  BY DEF TakeLengthPrefixed, Truncated
<1>2. /\ length.value \in Nat /\ length.rest \in Seq(Byte)
      /\ Len(length.rest) = Len(bytes) - WordLen /\ WordLen <= Len(bytes)
  BY <1>1, WordTaken
<1>3. taken.ok
  BY <1>1
<1> HIDE DEF length
<1>4. taken.rest \in Seq(Byte) /\ Len(taken.rest) = Len(length.rest) - length.value
  BY <1>2, <1>3, BytesTaken
<1> HIDE DEF taken
<1>5. Len(bytes) \in Nat /\ Len(taken.rest) \in Nat /\ WordLen \in Nat /\ WordLen > 0
  BY <1>4, BytesAssumption
<1>6. Len(taken.rest) < Len(bytes)
  BY <1>2, <1>4, <1>5
<1> QED
  BY <1>1, <1>4, <1>6

LEMMA ByteTaken ==
  ASSUME NEW bytes \in Seq(Byte), TakeU8(bytes).ok
  PROVE  TakeU8(bytes).rest \in Seq(Byte) /\ Len(TakeU8(bytes).rest) < Len(bytes)
<1>1. bytes # << >> /\ TakeU8(bytes).rest = Tail(bytes)
  BY DEF TakeU8, Truncated, Taken
<1> HIDE DEF Byte
<1>2. Tail(bytes) \in Seq(Byte) /\ Len(Tail(bytes)) < Len(bytes)
  BY <1>1
<1> QED
  BY <1>1, <1>2
-----------------------------------------------------------------------------------
(* The loops of the parsers *)

Characters == IF subtype \in TextSubtypes THEN Range(payload) ELSE Byte

ParserInv ==
  /\ payload \in Seq(Characters) /\ rest \in Seq(Characters)
  /\ due \in Nat /\ width \in Nat

(* What a turn of a loop takes off the payload, or what else moves on. *)
Moves == Len(rest') < Len(rest) \/ due' < due \/ outcome' # outcome

ParserStep == ParserInv' /\ Moves

LEMMA RecordInitParser == RecordInit => ParserInv
<1> SUFFICES ASSUME RecordInit PROVE ParserInv
  OBVIOUS
<1>1. PICK form \in Forms(subtype, written, byteOrder): payload \in {form} \cup Damaged(subtype, form)
  BY DEF RecordInit
<1>2. IsPayload(subtype, payload)
  BY <1>1, PayloadsAssumption DEF RecordInit
<1>3. payload \in Seq(Characters)
  BY <1>2 DEF IsPayload, Characters
<1>4. rest = payload /\ due = 0 /\ width = 0
  BY DEF RecordInit
<1> QED
  BY <1>3, <1>4 DEF ParserInv

LEMMA CharactersStay == UNCHANGED given => Characters' = Characters /\ payload' = payload
BY DEF given, Characters

LEMMA StaysParser ==
  ASSUME ParserInv, UNCHANGED given, rest' \in Seq(Characters), due' \in Nat, width' \in Nat
  PROVE  ParserInv'
BY CharactersStay DEF ParserInv

LEMMA EndsParser ==
  ASSUME ParserInv, UNCHANGED <<given, rest, due, width>>, outcome' # outcome
  PROVE  ParserStep
<1>1. rest' \in Seq(Characters) /\ due' \in Nat /\ width' \in Nat
  BY DEF ParserInv
<1> QED
  BY <1>1, StaysParser DEF ParserStep, Moves

LEMMA RefuseParser ==
  ASSUME ParserInv, UNCHANGED <<due, width>>, Refuse, outcome # "refused"
  PROVE  ParserStep
BY EndsParser DEF Refuse

(* What is left after a part of the payload is shorter by that part. *)
LEMMA TakesParser ==
  ASSUME ParserInv, UNCHANGED given, UNCHANGED <<due, width>>,
         NEW n \in 1..Len(rest), rest' = After(rest, n)
  PROVE  ParserStep
<1>1. Len(rest) \in Nat /\ n \in 0..Len(rest) /\ rest \in Seq(Characters)
  BY DEF ParserInv
<1>2. rest' \in Seq(Characters) /\ Len(rest') = Len(rest) - n
  BY <1>1, AfterIsShorter
<1>3. Len(rest') < Len(rest)
  BY <1>1, <1>2
<1>4. due' \in Nat /\ width' \in Nat
  BY DEF ParserInv
<1> QED
  BY <1>2, <1>3, <1>4, StaysParser DEF ParserStep, Moves

LEMMA SomethingLeft ==
  ASSUME ParserInv
  PROVE  /\ Len(rest) \in Nat
         /\ rest # << >> => Len(rest) > 0
         /\ \A byte: Find(rest, byte) \in 0..Len(rest)
<1>1. rest \in Seq(Characters)
  BY DEF ParserInv
<1>2. \A byte: Find(rest, byte) \in 0..Len(rest)
  BY <1>1, FoundWithin
<1>3. Len(rest) \in Nat /\ (rest # << >> => Len(rest) > 0)
  BY <1>1, EmptySeq
<1> QED
  BY <1>2, <1>3

LEMMA TurnParser ==
  ASSUME ParserInv, UNCHANGED <<due, width>>, NEW subtypes, NEW separator, NEW parsed,
         Turn(subtypes, separator, parsed)
  PROVE  ParserStep
<1> DEFINE end == Find(rest, separator)
<1>1. outcome = "reading" /\ rest # << >>
  BY DEF Turn, Reading
<1>2. Len(rest) \in Nat /\ Len(rest) > 0 /\ end \in 0..Len(rest) /\ rest \in Seq(Characters)
  BY <1>1, SomethingLeft DEF ParserInv
<1>3. CASE Refuse
  BY <1>1, <1>3, RefuseParser
<1>4. CASE UNCHANGED given /\ rest' = IF end = 0 THEN << >> ELSE After(rest, end)
  <2> HIDE DEF end
  <2>1. CASE end = 0
    <3>1. After(rest, Len(rest)) \in Seq(Characters) /\ Len(After(rest, Len(rest))) = 0
      BY <1>2, AfterIsShorter
    <3>2. rest' = After(rest, Len(rest))
      BY <1>4, <2>1, <3>1, EmptySeq
    <3> QED
      BY <1>2, <1>4, <3>2, TakesParser
  <2>2. CASE end # 0
    BY <1>2, <1>4, <2>2, TakesParser
  <2> QED
    BY <2>1, <2>2
<1> QED
  BY <1>3, <1>4 DEF Turn

LEMMA TakeAllParser ==
  ASSUME ParserInv, UNCHANGED <<due, width>>, NEW subtypes, NEW text, TakeAll(subtypes, text)
  PROVE  ParserStep
<1>1. outcome = "reading" /\ outcome' = "read" /\ rest' = << >> /\ UNCHANGED given
  BY DEF TakeAll, Reading
<1>2. rest' \in Seq(Characters) /\ due' \in Nat /\ width' \in Nat
  BY <1>1 DEF ParserInv
<1> QED
  BY <1>1, <1>2, StaysParser DEF ParserStep, Moves

LEMMA NameParser ==
  ASSUME ParserInv, UNCHANGED <<due, width>>, outcome = "reading",
         NEW terminator, NEW next, NEW named, Name(terminator, next, named)
  PROVE  ParserStep
<1> DEFINE end == Find(rest, terminator)
<1>1. Len(rest) \in Nat /\ end \in 0..Len(rest)
  BY SomethingLeft
<1>2. CASE Refuse
  BY <1>2, RefuseParser
<1>3. CASE end > 1 /\ UNCHANGED given /\ rest' = After(rest, end)
  <2> HIDE DEF end
  <2>1. end \in 1..Len(rest)
    BY <1>1, <1>3
  <2> QED
    BY <1>3, <2>1, TakesParser
<1> QED
  BY <1>2, <1>3 DEF Name

LEMMA SetEndsParser ==
  ASSUME ParserInv, UNCHANGED <<due, width>>, SetEnds
  PROVE  ParserStep
<1>1. /\ outcome = "reading" /\ UNCHANGED given /\ rest' = After(rest, 1)
      /\ outcome' = IF rest' = << >> THEN "read" ELSE "reading"
  BY DEF SetEnds, Reading
<1>2. CASE rest = << >>
  <2>1. rest' = << >>
    BY <1>1, <1>2 DEF After
  <2> QED
    BY <1>1, <1>2, <2>1, EndsParser
<1>3. CASE rest # << >>
  <2>1. 1 \in 1..Len(rest)
    BY <1>3, SomethingLeft
  <2> DEFINE one == 1
  <2>2. one \in 1..Len(rest) /\ rest' = After(rest, one)
    BY <1>1, <2>1
  <2> HIDE DEF one
  <2> QED
    BY <1>1, <2>2, TakesParser
<1> QED
  BY <1>2, <1>3

LEMMA ValueParser ==
  ASSUME ParserInv, UNCHANGED <<due, width>>, Value
  PROVE  ParserStep
<1> DEFINE end  == Find(rest, LF)
           last == rest[end + 1] = ")"
           gone == IF last THEN end + 1 ELSE end
<1>1. outcome = "reading"
  BY DEF Value, Reading
<1>2. Len(rest) \in Nat /\ end \in 0..Len(rest)
  BY SomethingLeft
<1>3. CASE Refuse
  BY <1>1, <1>3, RefuseParser
<1>4. CASE end # 0 /\ end # Len(rest) /\ UNCHANGED given /\ rest' = After(rest, gone)
  <2> HIDE DEF end, last
  <2>1. gone \in 1..Len(rest)
    BY <1>2, <1>4
  <2> HIDE DEF gone
  <2> QED
    BY <1>4, <2>1, TakesParser
<1> QED
  BY <1>3, <1>4 DEF Value

LEMMA TextParser ==
  ASSUME ParserInv, UNCHANGED <<due, width>>, TextNext
  PROVE  ParserStep
<1>1. CASE VariableSetLine
  BY <1>1, TurnParser DEF VariableSetLine
<1>2. CASE ResponseSetLine
  BY <1>2, TurnParser DEF ResponseSetLine
<1>3. CASE LongNamePair
  BY <1>3, TurnParser DEF LongNamePair
<1>4. CASE VeryLongPair
  BY <1>4, TurnParser DEF VeryLongPair
<1>5. CASE EndOfPieces
  BY <1>5, EndsParser DEF EndOfPieces, Reading
<1>6. CASE ExtraProductInfo
  BY <1>6, TakeAllParser DEF ExtraProductInfo
<1>7. CASE Uuid
  BY <1>7, TakeAllParser DEF Uuid
<1>8. CASE CharacterEncoding
  BY <1>8, TakeAllParser DEF CharacterEncoding
<1>9. CASE VariableName
  BY <1>9, NameParser DEF VariableName, Reading
<1>10. CASE AttributeName
  BY <1>10, NameParser DEF AttributeName, Reading
<1>11. CASE SetEnds
  BY <1>11, SetEndsParser
<1>12. CASE NoGroups
  BY <1>12, EndsParser DEF NoGroups, Reading
<1>13. CASE Value
  BY <1>13, ValueParser
<1>14. CASE CollapseAttributes
  BY <1>14, EndsParser DEF CollapseAttributes
<1> QED
  BY <1>1, <1>2, <1>3, <1>4, <1>5, <1>6, <1>7, <1>8, <1>9, <1>10, <1>11, <1>12, <1>13, <1>14 DEF TextNext

(* A binary record is of bytes. *)
LEMMA BytesLeft ==
  ASSUME ParserInv, subtype \in {21, 22}
  PROVE  Characters = Byte /\ rest \in Seq(Byte)
<1>1. subtype \notin TextSubtypes
  BY DEF TextSubtypes, Responses, WholeText, Attributes
<1> QED
  BY <1>1 DEF Characters, ParserInv

LEMMA LongLabelRecordParser ==
  ASSUME ParserInv, LongLabelRecord
  PROVE  ParserStep
<1> DEFINE name   == TakeLengthPrefixed(byteOrder, rest)
           strlen == TakeU32(byteOrder, name.rest)
           count  == TakeU32(byteOrder, strlen.rest)
           whole  == name.ok /\ strlen.ok /\ count.ok
<1>1. outcome = "reading" /\ subtype \in {21, 22} /\ rest \in Seq(Byte)
  BY BytesLeft DEF LongLabelRecord, AtRecord, Reading
<1>2. CASE RefuseRecord
  BY <1>1, <1>2, RefuseParser DEF RefuseRecord, binary
<1>3. CASE whole /\ rest' = count.rest /\ due' = count.value /\ UNCHANGED <<given, width>>
  <2>1. name.rest \in Seq(Byte) /\ Len(name.rest) < Len(rest)
    BY <1>1, <1>3, PrefixedTaken
  <2> HIDE DEF name
  <2>2. strlen.rest \in Seq(Byte) /\ Len(strlen.rest) = Len(name.rest) - WordLen
    BY <1>3, <2>1, WordTaken
  <2> HIDE DEF strlen
  <2>3. count.value \in Nat /\ count.rest \in Seq(Byte) /\ Len(count.rest) = Len(strlen.rest) - WordLen
    BY <1>3, <2>2, WordTaken
  <2> HIDE DEF count
  <2>4. WordLen \in Nat /\ Len(rest) \in Nat /\ Len(name.rest) \in Nat /\ Len(strlen.rest) \in Nat
    BY <1>1, <2>1, <2>2, BytesAssumption
  <2>5. Len(rest') < Len(rest)
    BY <1>3, <2>1, <2>2, <2>3, <2>4
  <2>6. rest' \in Seq(Characters) /\ due' \in Nat /\ width' \in Nat
    BY <1>1, <1>3, <2>3, BytesLeft DEF ParserInv
  <2> QED
    BY <1>3, <2>5, <2>6, StaysParser DEF ParserStep, Moves
<1> QED
  BY <1>2, <1>3 DEF LongLabelRecord, envelope

LEMMA LongLabelParser ==
  ASSUME ParserInv, LongLabel
  PROVE  ParserStep
<1> DEFINE value == TakeLengthPrefixed(byteOrder, rest)
           label == TakeLengthPrefixed(byteOrder, value.rest)
<1>1. outcome = "reading" /\ subtype \in {21, 22} /\ rest \in Seq(Byte)
  BY BytesLeft DEF LongLabel, Reading
<1>2. CASE RefuseRecord
  BY <1>1, <1>2, RefuseParser DEF RefuseRecord, binary
<1>3. CASE value.ok /\ label.ok /\ rest' = label.rest /\ due' = due - 1 /\ due > 0 /\ UNCHANGED <<given, width>>
  <2>1. value.rest \in Seq(Byte)
    BY <1>1, <1>3, PrefixedTaken
  <2> HIDE DEF value
  <2>2. label.rest \in Seq(Byte)
    BY <1>3, <2>1, PrefixedTaken
  <2> HIDE DEF label
  <2>3. due' \in Nat /\ due' < due /\ width' \in Nat
    BY <1>3 DEF ParserInv
  <2>4. rest' \in Seq(Characters)
    BY <1>1, <1>3, <2>2, BytesLeft
  <2> QED
    BY <1>3, <2>3, <2>4, StaysParser DEF ParserStep, Moves
<1> QED
  BY <1>2, <1>3 DEF LongLabel, envelope

LEMMA LongMissingRecordParser ==
  ASSUME ParserInv, LongMissingRecord
  PROVE  ParserStep
<1> DEFINE name   == TakeLengthPrefixed(byteOrder, rest)
           count  == TakeU8(name.rest)
           strlen == TakeU32(byteOrder, count.rest)
           whole  == name.ok /\ count.ok /\ count.value \in 1..MaxMissingValues /\ strlen.ok
<1>1. outcome = "reading" /\ subtype \in {21, 22} /\ rest \in Seq(Byte)
  BY BytesLeft DEF LongMissingRecord, AtRecord, Reading
<1>2. CASE RefuseRecord
  BY <1>1, <1>2, RefuseParser DEF RefuseRecord, binary
<1>3. CASE whole /\ rest' = strlen.rest /\ due' = count.value /\ width' = strlen.value /\ UNCHANGED given
  <2>1. name.rest \in Seq(Byte) /\ Len(name.rest) < Len(rest)
    BY <1>1, <1>3, PrefixedTaken
  <2> HIDE DEF name
  <2>2. count.rest \in Seq(Byte) /\ Len(count.rest) < Len(name.rest)
    BY <1>3, <2>1, ByteTaken
  <2>3. count.value \in Nat
    BY <1>3 DEF MaxMissingValues
  <2> HIDE DEF count
  <2>4. strlen.value \in Nat /\ strlen.rest \in Seq(Byte) /\ Len(strlen.rest) = Len(count.rest) - WordLen
    BY <1>3, <2>2, WordTaken
  <2> HIDE DEF strlen
  <2>5. WordLen \in Nat /\ Len(rest) \in Nat /\ Len(name.rest) \in Nat /\ Len(count.rest) \in Nat
    BY <1>1, <2>1, <2>2, BytesAssumption
  <2>6. Len(rest') < Len(rest)
    BY <1>3, <2>1, <2>2, <2>4, <2>5
  <2>7. rest' \in Seq(Characters) /\ due' \in Nat /\ width' \in Nat
    BY <1>1, <1>3, <2>3, <2>4, BytesLeft
  <2> QED
    BY <1>3, <2>6, <2>7, StaysParser DEF ParserStep, Moves
<1> QED
  BY <1>2, <1>3 DEF LongMissingRecord, envelope

LEMMA LongMissingParser ==
  ASSUME ParserInv, LongMissing
  PROVE  ParserStep
<1> DEFINE from  == IF HasWidthAgain THEN TakeU32(byteOrder, rest).rest ELSE rest
           value == TakeBytes(from, width)
<1>1. outcome = "reading" /\ subtype \in {21, 22} /\ rest \in Seq(Byte)
  BY BytesLeft DEF LongMissing, Reading
<1>2. CASE RefuseRecord
  BY <1>1, <1>2, RefuseParser DEF RefuseRecord, binary
<1>3. CASE value.ok /\ rest' = value.rest /\ due' = due - 1 /\ due > 0 /\ UNCHANGED <<given, width>>
  <2>1. from \in Seq(Byte)
    <3>1. CASE HasWidthAgain
      <4>1. WordLen \in Nat /\ ~(Len(rest) < WordLen)
        BY <1>1, <3>1, BytesAssumption DEF HasWidthAgain, PeeksAt
      <4>2. TakeU32(byteOrder, rest).ok
        BY <4>1 DEF TakeU32, TakeBytes, Taken
      <4>3. TakeU32(byteOrder, rest).rest \in Seq(Byte)
        BY <1>1, <4>2, WordTaken
      <4> QED
        BY <3>1, <4>3
    <3>2. CASE ~HasWidthAgain
      BY <1>1, <3>2
    <3> QED
      BY <3>1, <3>2
  <2> HIDE DEF from
  <2>2. width \in Nat
    BY DEF ParserInv
  <2>3. value.rest \in Seq(Byte)
    BY <1>3, <2>1, <2>2, BytesTaken
  <2> HIDE DEF value
  <2>4. due' \in Nat /\ due' < due /\ width' \in Nat
    BY <1>3 DEF ParserInv
  <2>5. rest' \in Seq(Characters)
    BY <1>1, <1>3, <2>3, BytesLeft
  <2> QED
    BY <1>3, <2>4, <2>5, StaysParser DEF ParserStep, Moves
<1> QED
  BY <1>2, <1>3 DEF LongMissing, envelope

LEMMA NextParser ==
  ASSUME ParserInv, RecordNext
  PROVE  ParserStep
<1>1. CASE MisshapenRecord
  BY <1>1, RefuseParser DEF MisshapenRecord, RefuseRecord, binary
<1>2. CASE MachineInfo
  BY <1>2, EndsParser DEF MachineInfo, ReadWhole, Opens, envelope, cursor
<1>3. CASE Sentinels
  BY <1>3, EndsParser DEF Sentinels, ReadWhole, Opens, envelope, cursor
<1>4. CASE NumberOfCases
  BY <1>4, EndsParser DEF NumberOfCases, ReadWhole, Opens, envelope, cursor
<1>5. CASE DisplayParameters
  BY <1>5, EndsParser DEF DisplayParameters, Opens, envelope, cursor
<1>6. CASE StartReading
  BY <1>6, EndsParser DEF StartReading, envelope, cursor
<1>7. CASE TextNext /\ UNCHANGED binary
  BY <1>7, TextParser DEF binary
<1>8. CASE LongLabelRecord
  BY <1>8, LongLabelRecordParser
<1>9. CASE LongLabel
  BY <1>9, LongLabelParser
<1>10. CASE LongMissingRecord
  BY <1>10, LongMissingRecordParser
<1>11. CASE LongMissing
  BY <1>11, LongMissingParser
<1>12. CASE EndOfRecords
  BY <1>12, EndsParser DEF EndOfRecords, Reading, envelope, cursor
<1>13. CASE DegradeToUnknown
  BY <1>13, EndsParser DEF DegradeToUnknown, Keep, envelope, cursor
<1>14. CASE DecodeUnknownExtension
  BY <1>14, EndsParser DEF DecodeUnknownExtension, Keep, envelope, cursor
<1> QED
  BY <1>1, <1>2, <1>3, <1>4, <1>5, <1>6, <1>7, <1>8, <1>9, <1>10, <1>11, <1>12, <1>13, <1>14 DEF RecordNext

(* Whatever the payload, each turn of a parser's loop takes something off its front, or has *)
(* one value less to come, or ends the record: with empty sets between separators, and with   *)
(* a count of labels far beyond the payload (parse_attribute_set, parse_record).               *)
THEOREM EveryTurnConsumes == RecordSpec => EachTurnConsumes
<1>1. ParserInv /\ [RecordNext]_recordVars => ParserInv'
  <2> SUFFICES ASSUME ParserInv, [RecordNext]_recordVars PROVE ParserInv'
    OBVIOUS
  <2>1. CASE RecordNext
    BY <2>1, NextParser DEF ParserStep
  <2>2. CASE UNCHANGED recordVars
    BY <2>2, CharactersStay DEF recordVars, envelope, cursor, ParserInv
  <2> QED
    BY <2>1, <2>2
<1>2. ParserInv /\ [RecordNext]_recordVars
        => [Len(rest') < Len(rest) \/ due' < due \/ outcome' # outcome]_recordVars
  BY NextParser DEF ParserStep, Moves
<1> QED
  BY <1>1, <1>2, RecordInitParser, PTL DEF RecordSpec, EachTurnConsumes
-----------------------------------------------------------------------------------
(* What does not parse *)

EnvelopeFits == elementSize \in Nat /\ elementCount \in Nat /\ Len(payload) = elementSize * elementCount

OnlyRepeatedLengths == \A j \in DOMAIN complaints: OfRepeatedLengths(complaints[j])

(* A refused record leaves nothing, its subtype is a known one, and until a record is read or *)
(* kept nothing is said of it but lengths that were repeated.                                  *)
KeepInv ==
  /\ EnvelopeFits
  /\ \E S: complaints \in Seq(S)
  /\ outcome \in {"opened", "refused"} => items = << >>
  /\ outcome \in {"opened", "reading", "refused"} => OnlyRepeatedLengths
  /\ outcome \in {"reading", "refused"} => subtype \in Recognized
  /\ KeptAsItCame

LEMMA WholeElements ==
  ASSUME NEW length \in Nat, NEW size \in Nat \ {0}, length % size = 0
  PROVE  length \div size \in Nat /\ length = size * (length \div size)
<1>1. length = size * (length \div size) + (length % size)
  OBVIOUS
<1>2. length \div size \in Nat
  OBVIOUS
<1> QED
  BY <1>1, <1>2

LEMMA RecordInitKeep == RecordInit => KeepInv
<1> SUFFICES ASSUME RecordInit PROVE KeepInv
  OBVIOUS
<1>1. Len(payload) \in Nat
  BY RecordInitParser DEF ParserInv
<1>2. /\ elementSize \in {1, WordLen, 2 * WordLen} /\ Len(payload) % elementSize = 0
      /\ elementCount = Len(payload) \div elementSize
      /\ items = << >> /\ complaints = << >> /\ outcome = "opened"
  BY DEF RecordInit
<1>3. elementSize \in Nat \ {0}
  BY <1>2, BytesAssumption
<1>4. EnvelopeFits
  BY <1>1, <1>2, <1>3, WholeElements DEF EnvelopeFits
<1>5. complaints \in Seq({}) /\ OnlyRepeatedLengths
  BY <1>2, EmptySeq DEF OnlyRepeatedLengths
<1> QED
  BY <1>2, <1>4, <1>5 DEF KeepInv, KeptAsItCame

(* The record stays as it was opened. *)
LEMMA StaysKeep ==
  ASSUME KeepInv, UNCHANGED <<envelope, complaints>>, outcome' # "kept",
         outcome' \in {"opened", "refused"} => items' = << >>,
         outcome' \in {"opened", "reading", "refused"} => outcome \in {"opened", "reading", "refused"},
         outcome = "opened" /\ outcome' \in {"reading", "refused"} => subtype \in Recognized
  PROVE  KeepInv'
<1>1. subtype' = subtype /\ EnvelopeFits'
  BY DEF KeepInv, EnvelopeFits, envelope, given
<1>2. outcome' \in {"opened", "reading", "refused"} => OnlyRepeatedLengths'
  BY <1>1 DEF KeepInv, OnlyRepeatedLengths, OfRepeatedLengths
<1>3. \E S: complaints' \in Seq(S)
  BY DEF KeepInv
<1>4. outcome' \in {"reading", "refused"} => subtype' \in Recognized'
  BY <1>1 DEF KeepInv, Recognized, TextSubtypes, Responses, WholeText, Attributes
<1> QED
  BY <1>1, <1>2, <1>3, <1>4 DEF KeepInv, KeptAsItCame

(* One complaint more, and the earlier ones as they were. *)
LEMMA OneMoreComplaint ==
  ASSUME NEW S, complaints \in Seq(S), NEW w, complaints' = Append(complaints, w)
  PROVE  /\ complaints' \in Seq(S \cup {w})
         /\ Len(complaints) \in Nat /\ DOMAIN complaints = 1..Len(complaints)
         /\ DOMAIN complaints' = 1..(Len(complaints) + 1)
         /\ complaints'[Len(complaints) + 1] = w
         /\ \A j \in 1..Len(complaints): complaints'[j] = complaints[j]
<1>1. Len(complaints) \in Nat /\ DOMAIN complaints = 1..Len(complaints)
      /\ \A j \in 1..Len(complaints): complaints[j] \in S
  OBVIOUS
<1>2. complaints = [j \in 1..Len(complaints) |-> complaints[j]]
  OBVIOUS
<1>3. complaints \in Seq(S \cup {w})
  BY <1>1, <1>2
<1> QED
  BY <1>1, <1>3, AppendProperties

LEMMA LongMissingKeep ==
  ASSUME KeepInv, LongMissing
  PROVE  KeepInv'
<1> DEFINE w == RepeatedLength(Last(items).variableName)
<1>1. outcome = "reading" /\ subtype = 22
  BY DEF LongMissing, Reading
<1>2. CASE RefuseRecord
  BY <1>1, <1>2, StaysKeep DEF RefuseRecord, Refuse, binary, envelope
<1>3. CASE UNCHANGED <<envelope, outcome>> /\ complaints' = complaints
  BY <1>1, <1>3, StaysKeep
<1>4. CASE UNCHANGED <<envelope, outcome>> /\ complaints' = Append(complaints, w)
  <2>1. PICK S: complaints \in Seq(S)
    BY DEF KeepInv
  <2>2. w.kind = "RepeatedLongMissingValueLength"
    BY DEF RepeatedLength, Warning
  <2> HIDE DEF w
  <2>3. /\ complaints' \in Seq(S \cup {w})
        /\ Len(complaints) \in Nat /\ DOMAIN complaints = 1..Len(complaints)
        /\ DOMAIN complaints' = 1..(Len(complaints) + 1)
        /\ complaints'[Len(complaints) + 1] = w
        /\ \A j \in 1..Len(complaints): complaints'[j] = complaints[j]
    BY <1>4, <2>1, OneMoreComplaint
  <2>4. subtype' = subtype /\ outcome' = "reading" /\ EnvelopeFits'
    BY <1>1, <1>4 DEF KeepInv, EnvelopeFits, envelope, given
  <2>5. \A j \in DOMAIN complaints: OfRepeatedLengths(complaints[j])
    BY <1>1 DEF KeepInv, OnlyRepeatedLengths
  <2>6. \A j \in 1..(Len(complaints) + 1): j \in 1..Len(complaints) \/ j = Len(complaints) + 1
    BY <2>3
  <2>7. OnlyRepeatedLengths'
    BY <1>1, <2>2, <2>3, <2>4, <2>5, <2>6 DEF OnlyRepeatedLengths, OfRepeatedLengths
  <2>8. subtype' \in Recognized'
    BY <1>1, <2>4 DEF Recognized
  <2> QED
    BY <2>3, <2>4, <2>7, <2>8 DEF KeepInv, KeptAsItCame
<1> QED
  BY <1>2, <1>3, <1>4 DEF LongMissing

LEMMA KeptKeep ==
  ASSUME KeepInv, NEW kind, Keep(kind), outcome \in {"opened", "refused"},
         Warning(kind, << >>, subtype) = Refusal
  PROVE  KeepInv'
<1> DEFINE w == Warning(kind, << >>, subtype)
<1>1. PICK S: complaints \in Seq(S)
  BY DEF KeepInv
<1>2. complaints' = Append(complaints, w)
  BY DEF Keep
<1>3. w = Refusal
  OBVIOUS
<1> HIDE DEF w
<1>4. /\ complaints' \in Seq(S \cup {w})
      /\ Len(complaints) \in Nat /\ DOMAIN complaints = 1..Len(complaints)
      /\ DOMAIN complaints' = 1..(Len(complaints) + 1)
      /\ complaints'[Len(complaints) + 1] = w
      /\ \A j \in 1..Len(complaints): complaints'[j] = complaints[j]
  BY <1>1, <1>2, OneMoreComplaint
<1>5. /\ outcome' = "kept" /\ UNCHANGED <<envelope, items>>
      /\ kept' = UnknownExtension(subtype, elementSize, elementCount, payload)
  BY DEF Keep
<1>6. /\ subtype' = subtype /\ payload' = payload
      /\ elementSize' = elementSize /\ elementCount' = elementCount
  BY <1>5 DEF envelope, given
<1>7. EnvelopeFits'
  BY <1>6 DEF KeepInv, EnvelopeFits
<1>8. items' = << >>
  BY <1>5 DEF KeepInv
<1>9. /\ kept'.payload = payload' /\ kept'.elementSize = elementSize' /\ kept'.elementCount = elementCount'
  BY <1>5, <1>6 DEF UnknownExtension
<1>10. Len(kept'.payload) = kept'.elementSize * kept'.elementCount
  BY <1>7, <1>9 DEF EnvelopeFits
<1>11. Len(complaints') = Len(complaints) + 1 /\ complaints' # << >>
  BY <1>2, <1>4
<1>12. Refusal' = Refusal
  BY <1>6 DEF Refusal, Warning, Recognized, TextSubtypes, Responses, WholeText, Attributes
<1>13. complaints'[Len(complaints')] = Refusal'
  BY <1>3, <1>4, <1>11, <1>12
<1>14. \A j \in 1..(Len(complaints') - 1): OfRepeatedLengths(complaints[j])'
  <2>1. Len(complaints') - 1 = Len(complaints)
    BY <1>4, <1>11
  <2>2. \A j \in 1..Len(complaints): complaints'[j].kind = "RepeatedLongMissingValueLength" /\ subtype' = 22
    BY <1>4, <1>6 DEF KeepInv, OnlyRepeatedLengths, OfRepeatedLengths
  <2> QED
    BY <2>1, <2>2 DEF OfRepeatedLengths
<1>15. KeptAsItCame'
  BY <1>8, <1>9, <1>10, <1>11, <1>13, <1>14 DEF KeptAsItCame, OfRepeatedLengths
<1> QED
  BY <1>4, <1>5, <1>7, <1>15 DEF KeepInv

LEMMA TextKeep ==
  ASSUME KeepInv, TextNext, UNCHANGED binary
  PROVE  KeepInv'
<1>1. UNCHANGED <<elementCount, byteOrder, floatFormat, complaints>>
  BY DEF binary
<1>2. CASE Refuse /\ outcome = "reading"
  BY <1>1, <1>2, StaysKeep DEF Refuse, envelope
<1>3. CASE outcome = "reading" /\ outcome' \in {"reading", "read"} /\ UNCHANGED given
  BY <1>1, <1>3, StaysKeep DEF envelope
<1>4. CASE CollapseAttributes
  BY <1>1, <1>4, StaysKeep DEF CollapseAttributes, envelope
<1>5. \/ Refuse /\ outcome = "reading"
      \/ outcome = "reading" /\ outcome' \in {"reading", "read"} /\ UNCHANGED given
      \/ CollapseAttributes
  <2>1. CASE VariableSetLine \/ ResponseSetLine \/ LongNamePair \/ VeryLongPair
    BY <2>1 DEF VariableSetLine, ResponseSetLine, LongNamePair, VeryLongPair, Turn, Reading
  <2>2. CASE ExtraProductInfo \/ Uuid \/ CharacterEncoding
    BY <2>2 DEF ExtraProductInfo, Uuid, CharacterEncoding, TakeAll, Reading
  <2>3. CASE EndOfPieces \/ NoGroups \/ SetEnds
    BY <2>3 DEF EndOfPieces, NoGroups, SetEnds, Reading
  <2>4. CASE VariableName \/ AttributeName
    BY <2>4 DEF VariableName, AttributeName, Name, Reading
  <2>5. CASE Value
    BY <2>5 DEF Value, Reading
  <2> QED
    BY <2>1, <2>2, <2>3, <2>4, <2>5 DEF TextNext
<1> QED
  BY <1>2, <1>3, <1>4, <1>5

LEMMA NextKeep ==
  ASSUME KeepInv, RecordNext
  PROVE  KeepInv'
<1>1. CASE MisshapenRecord
  BY <1>1, StaysKeep DEF MisshapenRecord, RefuseRecord, Refuse, binary, envelope
<1>2. CASE MachineInfo
  <2>1. /\ outcome = "opened" /\ outcome' = "read" /\ UNCHANGED envelope
        /\ complaints' = complaints \o CrossCheck(MachineIntegerInfo(Words32))
    BY <1>2 DEF MachineInfo, ReadWhole, Opens
  <2>2. PICK S: complaints \in Seq(S)
    BY DEF KeepInv
  <2> DEFINE told == CrossCheck(MachineIntegerInfo(Words32))
  <2>3. \E T: told \in Seq(T)
    <3>1. \A a, b: <<a>> \o <<b>> \in Seq({a, b}) /\ <<a>> \o << >> \in Seq({a, b})
                   /\ << >> \o <<b>> \in Seq({a, b}) /\ << >> \o << >> \in Seq({a, b})
      OBVIOUS
    <3> QED
      BY <3>1 DEF CrossCheck
  <2> HIDE DEF told
  <2>4. PICK T: told \in Seq(T)
    BY <2>3
  <2>5. complaints \o told \in Seq(S \cup T)
    <3>1. complaints = [j \in 1..Len(complaints) |-> complaints[j]]
          /\ Len(complaints) \in Nat /\ \A j \in 1..Len(complaints): complaints[j] \in S \cup T
      BY <2>2
    <3>2. told = [j \in 1..Len(told) |-> told[j]]
          /\ Len(told) \in Nat /\ \A j \in 1..Len(told): told[j] \in S \cup T
      BY <2>4
    <3>3. complaints \in Seq(S \cup T)
      BY <3>1
    <3>4. told \in Seq(S \cup T)
      BY <3>2
    <3> QED
      BY <3>3, <3>4, ConcatProperties
  <2>6. complaints' \in Seq(S \cup T)
    BY <2>1, <2>5 DEF told
  <2>7. EnvelopeFits'
    BY <2>1 DEF KeepInv, EnvelopeFits, envelope, given
  <2> QED
    BY <2>1, <2>6, <2>7 DEF KeepInv, KeptAsItCame
<1>3. CASE Sentinels \/ NumberOfCases \/ DisplayParameters
  <2>1. outcome = "opened" /\ outcome' = "read" /\ UNCHANGED <<envelope, complaints>>
    BY <1>3 DEF Sentinels, NumberOfCases, DisplayParameters, ReadWhole, Opens
  <2> QED
    BY <2>1, StaysKeep
<1>4. CASE StartReading
  BY <1>4, StaysKeep DEF StartReading, Recognized
<1>5. CASE TextNext /\ UNCHANGED binary
  BY <1>5, TextKeep
<1>6. CASE LongLabelRecord \/ LongLabel \/ LongMissingRecord
  <2>1. outcome = "reading"
    BY <1>6 DEF LongLabelRecord, LongLabel, LongMissingRecord, AtRecord, Reading
  <2>2. CASE RefuseRecord
    BY <2>1, <2>2, StaysKeep DEF RefuseRecord, Refuse, binary, envelope
  <2>3. CASE UNCHANGED <<envelope, complaints, outcome>>
    BY <2>1, <2>3, StaysKeep
  <2>4. RefuseRecord \/ UNCHANGED <<envelope, complaints, outcome>>
    BY <1>6 DEF LongLabelRecord, LongLabel, LongMissingRecord
  <2> QED
    BY <2>2, <2>3, <2>4
<1>7. CASE LongMissing
  BY <1>7, LongMissingKeep
<1>8. CASE EndOfRecords
  BY <1>8, StaysKeep DEF EndOfRecords, Reading
<1>9. CASE DegradeToUnknown \/ DecodeUnknownExtension
  <2>1. CASE DegradeToUnknown
    <3>1. outcome = "refused" /\ subtype \in Recognized
      BY <2>1 DEF DegradeToUnknown, KeepInv
    <3> QED
      BY <2>1, <3>1, KeptKeep DEF DegradeToUnknown, Refusal
  <2>2. CASE DecodeUnknownExtension
    BY <2>2, KeptKeep DEF DecodeUnknownExtension, Refusal
  <2> QED
    BY <1>9, <2>1, <2>2
<1> QED
  BY <1>1, <1>2, <1>3, <1>4, <1>5, <1>6, <1>7, <1>8, <1>9 DEF RecordNext

LEMMA KeepInvStays == KeepInv /\ [RecordNext]_recordVars => KeepInv'
<1> SUFFICES ASSUME KeepInv, [RecordNext]_recordVars PROVE KeepInv'
  OBVIOUS
<1>1. CASE RecordNext
  BY <1>1, NextKeep
<1>2. CASE UNCHANGED recordVars
  BY <1>2 DEF recordVars, envelope, given, cursor, KeepInv, EnvelopeFits, OnlyRepeatedLengths,
    OfRepeatedLengths, Refusal, KeptAsItCame
<1> QED
  BY <1>1, <1>2

(* A record that does not parse, or that nobody knows, comes to the caller with every byte of *)
(* its payload, those its parser had passed included, in elements of the declared size and      *)
(* number, with nothing of what was parsed; the last of its warnings is that it was kept, and      *)
(* why, and any before it are of lengths repeated in a record of subtype 22 (degrade_to_unknown,    *)
(* decode_unknown_extension).                                                                         *)
THEOREM UnparsedIsKeptAsItCame == RecordSpec => []KeptAsItCame
<1>1. KeepInv => KeptAsItCame
  BY DEF KeepInv
<1> QED
  BY <1>1, KeepInvStays, RecordInitKeep, PTL DEF RecordSpec
-----------------------------------------------------------------------------------
(* The character code *)

MachineShape == elementSize = WordLen /\ elementCount = 8

(* A record of subtype 3 is read or refused at once, by its shape. *)
CodeInv ==
  subtype = 3 =>
    /\ outcome \in {"opened", "read", "refused", "kept"}
    /\ outcome \in {"refused", "kept"} => ~MachineShape
    /\ BothReadOneCode

LEMMA CodeOfShape ==
  CharacterCode = IF MachineShape THEN {ReadI32(byteOrder, Slab(payload, 8, WordLen))} ELSE {}
<1>1. CASE MachineShape
  BY <1>1 DEF CharacterCode, MachineShape
<1>2. CASE ~MachineShape
  BY <1>2 DEF CharacterCode, MachineShape
<1> QED
  BY <1>1, <1>2

LEMMA EnvelopeKeepsTheCode ==
  ASSUME UNCHANGED envelope
  PROVE  subtype' = subtype /\ MachineShape' = MachineShape /\ CharacterCode' = CharacterCode
BY DEF envelope, given, MachineShape, CharacterCode

LEMMA RecordInitCode == RecordInit => CodeInv
BY DEF RecordInit, CodeInv, BothReadOneCode

LEMMA MachineInfoCode ==
  ASSUME CodeInv, KeepInv, MachineInfo
  PROVE  CodeInv'
<1>1. subtype = 3 /\ ShapeFits /\ UNCHANGED envelope
  BY DEF MachineInfo, ReadWhole, Opens
<1>2. MachineShape
  BY <1>1 DEF ShapeFits, ExpectedSize, ExpectedCount, FixedShape, MachineShape
<1>3. outcome' = "read" /\ items' = <<MachineIntegerInfo(Words32)>>
  BY DEF MachineInfo, ReadWhole
<1>4. 8 \in 1..(Len(payload) \div WordLen)
  <2>1. Len(payload) = WordLen * 8 /\ WordLen \in Nat \ {0}
    BY <1>2, BytesAssumption DEF KeepInv, EnvelopeFits, MachineShape
  <2>2. (WordLen * 8) \div WordLen = 8
    BY <2>1
  <2> QED
    BY <2>1, <2>2
<1>5. Words32[8] = ReadI32(byteOrder, Slab(payload, 8, WordLen))
  BY <1>4 DEF Words32
<1>6. items'[1].characterCode = Words32[8]
  BY <1>3 DEF MachineIntegerInfo
<1>7. CharacterCode' = {items'[1].characterCode}
  BY <1>1, <1>2, <1>5, <1>6, CodeOfShape, EnvelopeKeepsTheCode
<1> QED
  BY <1>3, <1>7 DEF CodeInv, BothReadOneCode

LEMMA MisshapenCode ==
  ASSUME CodeInv, UNCHANGED envelope, outcome' \in {"refused", "kept"}, subtype = 3 => ~MachineShape
  PROVE  CodeInv'
<1>1. subtype' = subtype /\ MachineShape' = MachineShape /\ CharacterCode' = CharacterCode
  BY EnvelopeKeepsTheCode
<1>2. subtype = 3 => CharacterCode' = {}
  BY <1>1, CodeOfShape
<1> QED
  BY <1>1, <1>2 DEF CodeInv, BothReadOneCode

LEMMA NextCode ==
  ASSUME CodeInv, KeepInv, RecordNext
  PROVE  CodeInv'
<1>1. CASE subtype # 3
  <2>1. UNCHANGED given \/ UNCHANGED envelope
    <3>1. CASE TextNext
      BY <3>1 DEF TextNext, VariableSetLine, ResponseSetLine, LongNamePair, VeryLongPair, Turn, EndOfPieces,
           ExtraProductInfo, Uuid, CharacterEncoding, TakeAll, VariableName, AttributeName, Name, SetEnds,
           NoGroups, Value, CollapseAttributes, Refuse
    <3>2. CASE ~TextNext
      BY <3>2 DEF RecordNext, MisshapenRecord, MachineInfo, Sentinels, NumberOfCases, DisplayParameters, ReadWhole,
           StartReading, LongLabelRecord, LongLabel, LongMissingRecord, LongMissing, EndOfRecords,
           DegradeToUnknown, DecodeUnknownExtension, Keep, RefuseRecord, Refuse
    <3> QED
      BY <3>1, <3>2
  <2>2. subtype' = subtype
    BY <2>1 DEF envelope, given
  <2> QED
    BY <1>1, <2>2 DEF CodeInv
<1>2. CASE subtype = 3
  <2>1. outcome \in {"opened", "read", "refused", "kept"}
    BY <1>2 DEF CodeInv
  <2>2. subtype \notin TextSubtypes
    BY <1>2 DEF TextSubtypes, Responses, WholeText, Attributes
  <2>3. ~(TextNext /\ UNCHANGED binary)
    BY <1>2, <2>1 DEF TextNext, VariableSetLine, ResponseSetLine, LongNamePair, VeryLongPair, Turn, EndOfPieces,
         ExtraProductInfo, Uuid, CharacterEncoding, TakeAll, VariableName, AttributeName, SetEnds,
         NoGroups, Value, CollapseAttributes, Reading
  <2>4. MisshapenRecord \/ MachineInfo \/ DegradeToUnknown
    <3>1. ~(Sentinels \/ NumberOfCases \/ DisplayParameters)
      BY <1>2 DEF Sentinels, NumberOfCases, DisplayParameters, Opens
    <3>2. ~StartReading
      BY <1>2, <2>2 DEF StartReading
    <3>3. ~(LongLabelRecord \/ LongLabel \/ LongMissingRecord \/ LongMissing \/ EndOfRecords)
      BY <2>1 DEF LongLabelRecord, LongLabel, LongMissingRecord, LongMissing, EndOfRecords, AtRecord, Reading
    <3>4. ~DecodeUnknownExtension
      BY <1>2 DEF DecodeUnknownExtension, Recognized
    <3> QED
      BY <2>3, <3>1, <3>2, <3>3, <3>4 DEF RecordNext
  <2>5. CASE MisshapenRecord
    <3>1. ~MachineShape
      BY <1>2, <2>5 DEF MisshapenRecord, ShapeFits, ExpectedSize, ExpectedCount, FixedShape, MachineShape
    <3>2. UNCHANGED envelope /\ outcome' = "refused"
      BY <2>5 DEF MisshapenRecord, RefuseRecord, Refuse, binary, envelope
    <3> QED
      BY <3>1, <3>2, MisshapenCode
  <2>6. CASE MachineInfo
    BY <2>6, MachineInfoCode
  <2>7. CASE DegradeToUnknown
    <3>1. ~MachineShape
      BY <1>2, <2>7 DEF DegradeToUnknown, CodeInv
    <3>2. UNCHANGED envelope /\ outcome' = "kept"
      BY <2>7 DEF DegradeToUnknown, Keep
    <3> QED
      BY <3>1, <3>2, MisshapenCode
  <2> QED
    BY <2>4, <2>5, <2>6, <2>7
<1> QED
  BY <1>1, <1>2

(* The code the encoding is resolved by, taken from the bytes of a subtype-3 record before *)
(* anything is decoded, is the one the caller is shown later: one and the same when the      *)
(* record parses, and none when it does not (character_code, parse).                           *)
THEOREM OneCodeIsRead == RecordSpec => []BothReadOneCode
<1>1. CodeInv => BothReadOneCode
  BY DEF CodeInv, BothReadOneCode
<1>2. KeepInv /\ [RecordNext]_recordVars => KeepInv'
  BY KeepInvStays
<1>3. CodeInv /\ KeepInv /\ [RecordNext]_recordVars => CodeInv'
  <2> SUFFICES ASSUME CodeInv, KeepInv, [RecordNext]_recordVars PROVE CodeInv'
    OBVIOUS
  <2>1. CASE RecordNext
    BY <2>1, NextCode
  <2>2. CASE UNCHANGED recordVars
    <3>1. UNCHANGED <<envelope, items, outcome>>
      BY <2>2 DEF recordVars
    <3>2. subtype' = subtype /\ MachineShape' = MachineShape /\ CharacterCode' = CharacterCode
      BY <3>1, EnvelopeKeepsTheCode
    <3> QED
      BY <3>1, <3>2 DEF CodeInv, BothReadOneCode
  <2> QED
    BY <2>1, <2>2
<1> QED
  BY <1>1, <1>2, <1>3, RecordInitKeep, RecordInitCode, PTL DEF RecordSpec

-----------------------------------------------------------------------------------
(* The letters of a text *)

Told(bytes) == LettersOf(Text(bytes))

LetterParts(text) == [i \in DOMAIN text |-> IF text[i] \in Letters THEN <<text[i]>> ELSE << >>]

LEMMA LetterPartsTyped ==
  ASSUME NEW C, NEW text \in Seq(C)
  PROVE  LetterParts(text) \in Seq(Seq(Letters)) /\ Len(LetterParts(text)) = Len(text)
<1> DEFINE part(i) == IF text[i] \in Letters THEN <<text[i]>> ELSE << >>
<1>1. Len(text) \in Nat /\ DOMAIN text = 1..Len(text)
  OBVIOUS
<1>2. \A i \in 1..Len(text): part(i) \in Seq(Letters)
  <2> HIDE DEF Letters
  <2> QED
    OBVIOUS
<1>3. LetterParts(text) = [i \in 1..Len(text) |-> part(i)]
  BY <1>1, Zenon DEF LetterParts
<1> HIDE DEF part
<1>4. [i \in 1..Len(text) |-> part(i)] \in Seq(Seq(Letters))
  BY <1>1, <1>2
<1> QED
  BY <1>1, <1>3, <1>4

LEMMA LettersTyped ==
  ASSUME NEW C, NEW text \in Seq(C)
  PROVE  LettersOf(text) \in Seq(Letters)
<1>1. LettersOf(text) = FlattenSeq(LetterParts(text))
  BY Zenon DEF LettersOf, LetterParts
<1> QED
  BY <1>1, LetterPartsTyped, FlattenTyped

LEMMA LettersConcat ==
  ASSUME NEW C, NEW s \in Seq(C), NEW t \in Seq(C)
  PROVE  LettersOf(s \o t) = LettersOf(s) \o LettersOf(t)
<1> DEFINE p == LetterParts(s)
           q == LetterParts(t)
           r == LetterParts(s \o t)
<1>1. /\ p \in Seq(Seq(Letters)) /\ Len(p) = Len(s)
      /\ q \in Seq(Seq(Letters)) /\ Len(q) = Len(t)
  BY LetterPartsTyped
<1>2. /\ s \o t \in Seq(C) /\ Len(s \o t) = Len(s) + Len(t)
      /\ Len(s) \in Nat /\ Len(t) \in Nat
      /\ DOMAIN s = 1..Len(s) /\ DOMAIN t = 1..Len(t) /\ DOMAIN (s \o t) = 1..(Len(s) + Len(t))
      /\ \A i \in 1..Len(s): (s \o t)[i] = s[i] /\ i \in 1..(Len(s) + Len(t))
      /\ \A i \in 1..Len(t): (s \o t)[Len(s) + i] = t[i] /\ Len(s) + i \in 1..(Len(s) + Len(t))
  OBVIOUS
<1>3. DOMAIN r = 1..(Len(p) + Len(q)) /\ r = [i \in DOMAIN r |-> r[i]]
  BY <1>1, <1>2 DEF LetterParts
<1>4. \A i \in 1..Len(p): r[i] = p[i]
  BY <1>1, <1>2, Zenon DEF LetterParts
<1>5. \A i \in 1..Len(q): r[Len(p) + i] = q[i]
  BY <1>1, <1>2, Zenon DEF LetterParts
<1> HIDE DEF p, q, r
<1>6. r = p \o q
  BY <1>1, <1>3, <1>4, <1>5, IsConcat
<1>7. FlattenSeq(r) = FlattenSeq(p) \o FlattenSeq(q)
  BY <1>1, <1>6, FlattenConcat
<1> QED
  BY <1>7, Zenon DEF LettersOf, LetterParts, p, q, r

LEMMA LettersOfNothing == LettersOf(<< >>) = << >>
<1>1. << >> \in Seq({})
  OBVIOUS
<1>2. LettersOf(<< >>) = FlattenSeq([i \in {} |-> IF << >>[i] \in Letters THEN << << >>[i] >> ELSE << >>])
  BY DEF LettersOf
<1>3. LettersOf(<< >>) = FlattenSeq(<< >>)
  BY <1>2
<1> QED
  BY <1>3, FlattenEmpty

LEMMA TextTyped ==
  ASSUME NEW C, Replacement \in C, NEW bytes \in Seq(C)
  PROVE  /\ Text(bytes) \in Seq(C) /\ Len(Text(bytes)) = Len(bytes)
         /\ \A i \in 1..Len(bytes): Text(bytes)[i] = IF bytes[i] \in Undecodable THEN Replacement ELSE bytes[i]
<1>1. Len(bytes) \in Nat /\ DOMAIN bytes = 1..Len(bytes)
  OBVIOUS
<1>2. Text(bytes) = [i \in 1..Len(bytes) |-> IF bytes[i] \in Undecodable THEN Replacement ELSE bytes[i]]
  BY <1>1, Zenon DEF Text
<1> HIDE DEF Replacement
<1> QED
  BY <1>1, <1>2

LEMMA TextConcat ==
  ASSUME NEW C, Replacement \in C, NEW s \in Seq(C), NEW t \in Seq(C)
  PROVE  Text(s \o t) = Text(s) \o Text(t)
<1> DEFINE p == Text(s)
           q == Text(t)
           r == Text(s \o t)
<1>1. /\ s \o t \in Seq(C) /\ Len(s \o t) = Len(s) + Len(t)
      /\ Len(s) \in Nat /\ Len(t) \in Nat
      /\ \A i \in 1..Len(s): (s \o t)[i] = s[i] /\ i \in 1..(Len(s) + Len(t))
      /\ \A i \in 1..Len(t): (s \o t)[Len(s) + i] = t[i] /\ Len(s) + i \in 1..(Len(s) + Len(t))
  OBVIOUS
<1>2. /\ p \in Seq(C) /\ Len(p) = Len(s)
      /\ \A i \in 1..Len(s): p[i] = IF s[i] \in Undecodable THEN Replacement ELSE s[i]
  BY TextTyped
<1>3. /\ q \in Seq(C) /\ Len(q) = Len(t)
      /\ \A i \in 1..Len(t): q[i] = IF t[i] \in Undecodable THEN Replacement ELSE t[i]
  BY TextTyped
<1>4. /\ r \in Seq(C) /\ Len(r) = Len(s) + Len(t)
      /\ \A i \in 1..(Len(s) + Len(t)):
           r[i] = IF (s \o t)[i] \in Undecodable THEN Replacement ELSE (s \o t)[i]
  BY <1>1, TextTyped
<1>5. DOMAIN r = 1..(Len(p) + Len(q)) /\ r = [i \in DOMAIN r |-> r[i]]
  BY <1>2, <1>3, <1>4
<1> HIDE DEF p, q, r, Replacement
<1>6. \A i \in 1..Len(p): r[i] = p[i]
  BY <1>1, <1>2, <1>4
<1>7. \A i \in 1..Len(q): r[Len(p) + i] = q[i]
  BY <1>1, <1>2, <1>3, <1>4
<1>8. r = p \o q
  BY <1>2, <1>3, <1>5, <1>6, <1>7, IsConcat
<1> QED
  BY <1>8 DEF p, q, r

LEMMA ToldTyped ==
  ASSUME NEW C, Replacement \in C, NEW bytes \in Seq(C)
  PROVE  Told(bytes) \in Seq(Letters)
BY TextTyped, LettersTyped DEF Told

LEMMA ToldConcat ==
  ASSUME NEW C, Replacement \in C, NEW s \in Seq(C), NEW t \in Seq(C)
  PROVE  Told(s \o t) = Told(s) \o Told(t)
<1>1. Text(s) \in Seq(C) /\ Text(t) \in Seq(C) /\ Text(s \o t) = Text(s) \o Text(t)
  BY TextTyped, TextConcat
<1> QED
  BY <1>1, LettersConcat DEF Told

LEMMA ToldNothing == Told(<< >>) = << >>
<1>1. Text(<< >>) = << >>
  BY DEF Text
<1> QED
  BY <1>1, LettersOfNothing DEF Told

LEMMA NoLetterInGrammar == Grammar \cap Letters = {}
<1>1. Range(Digits) = {"0", "1", "2", "3", "4", "5", "6", "7", "8", "9"}
  <2>1. DOMAIN Digits = 1..10
    BY DEF Digits
  <2>2. 1..10 = {1, 2, 3, 4, 5, 6, 7, 8, 9, 10}
    OBVIOUS
  <2>3. Range(Digits) = {Digits[i]: i \in {1, 2, 3, 4, 5, 6, 7, 8, 9, 10}}
    BY <2>1, <2>2, Zenon DEF Range
  <2> QED
    BY <2>3 DEF Digits
<1> QED
  BY <1>1 DEF Grammar, Letters, Replacement, LF, CR, TAB, NUL, SPACE

(* What plays a part in a grammar tells nothing. *)
LEMMA GrammarTellsNothing ==
  ASSUME NEW C, Replacement \in C, NEW bytes \in Seq(C), \A i \in 1..Len(bytes): bytes[i] \in Grammar
  PROVE  Told(bytes) = << >>
<1> DEFINE text == Text(bytes)
           parts == LetterParts(text)
<1>1. /\ text \in Seq(C) /\ Len(text) = Len(bytes) /\ Len(bytes) \in Nat
      /\ \A i \in 1..Len(bytes): text[i] = IF bytes[i] \in Undecodable THEN Replacement ELSE bytes[i]
  BY TextTyped
<1> HIDE DEF text, Grammar, Letters
<1>2. \A i \in 1..Len(bytes): text[i] \notin Letters
  BY <1>1, AsciiAssumption, NoLetterInGrammar
<1>3. parts = [i \in 1..Len(bytes) |-> << >>]
  BY <1>1, <1>2 DEF LetterParts
<1>4. parts \in Seq(Seq({}))
  BY <1>1, <1>3
<1>5. FlattenSeq(parts) = << >>
  BY <1>4, NothingFlattened
<1> QED
  BY <1>5, Zenon DEF Told, LettersOf, LetterParts, text

-----------------------------------------------------------------------------------
(* A fold over a sequence has a value after each element *)

(* iter folds step, from base on, over the elements of x at any set of the first n positions. *)
IsFold(iter, step, base, x, n) ==
  \A s \in SUBSET (1..n): iter[s] = IF s = {} THEN base ELSE step[<<iter[s \ {Max(s)}], x[Max(s)]>>]
HasFold(D, step, base, x, n) == \E g \in [SUBSET (1..n) -> D]: IsFold(g, step, base, x, n)

LEMMA FoldGrows ==
  ASSUME NEW D, NEW T, NEW base \in D, NEW step \in [D \X T -> D], NEW x, NEW k \in Nat, x[k + 1] \in T,
         NEW f \in [SUBSET (1..k) -> D], IsFold(f, step, base, x, k)
  PROVE  HasFold(D, step, base, x, k + 1)
<1> DEFINE g == [s \in SUBSET (1..(k + 1)) |->
                   IF k + 1 \in s THEN step[<<f[s \ {k + 1}], x[k + 1]>>] ELSE f[s]]
<1>1. \A s \in SUBSET (1..(k + 1)): s \ {k + 1} \in SUBSET (1..k) /\ (k + 1 \notin s => s \in SUBSET (1..k))
  OBVIOUS
<1>2. \A s \in SUBSET (1..k): f[s] = IF s = {} THEN base ELSE step[<<f[s \ {Max(s)}], x[Max(s)]>>]
  BY Zenon DEF IsFold
<1>3. ASSUME NEW s \in SUBSET (1..(k + 1))
      PROVE  g[s] \in D
  <2>1. CASE k + 1 \in s
    <3>1. f[s \ {k + 1}] \in D
      BY <1>1
    <3>2. <<f[s \ {k + 1}], x[k + 1]>> \in D \X T
      BY <3>1
    <3> QED
      BY <2>1, <3>2
  <2>2. CASE k + 1 \notin s
    BY <1>1, <2>2
  <2> QED
    BY <2>1, <2>2
<1>4. ASSUME NEW s \in SUBSET (1..(k + 1))
      PROVE  g[s] = IF s = {} THEN base ELSE step[<<g[s \ {Max(s)}], x[Max(s)]>>]
  <2>1. CASE k + 1 \in s
    <3>1. Max(s) = k + 1 /\ s # {}
      BY <2>1, LastIsMax
    <3>2. g[s] = step[<<f[s \ {k + 1}], x[k + 1]>>]
      BY <2>1
    <3>3. s \ {k + 1} \in SUBSET (1..(k + 1)) /\ k + 1 \notin s \ {k + 1}
      OBVIOUS
    <3>4. g[s \ {k + 1}] = f[s \ {k + 1}]
      BY <3>3
    <3> HIDE DEF g
    <3> QED
      BY <3>1, <3>2, <3>4, Zenon
  <2>2. CASE k + 1 \notin s
    <3>1. s \in SUBSET (1..k)
      BY <1>1, <2>2
    <3>2. g[s] = f[s]
      BY <2>2
    <3>3. s \ {Max(s)} \in SUBSET (1..(k + 1)) /\ k + 1 \notin s \ {Max(s)}
      BY <2>2
    <3>4. g[s \ {Max(s)}] = f[s \ {Max(s)}]
      BY <3>3
    <3> HIDE DEF g
    <3> QED
      BY <1>2, <3>1, <3>2, <3>4, Zenon
  <2> QED
    BY <2>1, <2>2
<1>5. g = [s \in SUBSET (1..(k + 1)) |-> g[s]]
  OBVIOUS
<1> HIDE DEF g
<1>6. g \in [SUBSET (1..(k + 1)) -> D]
  BY <1>3, <1>5
<1>7. IsFold(g, step, base, x, k + 1)
  BY <1>4 DEF IsFold
<1> QED
  BY <1>6, <1>7 DEF HasFold

LEMMA FoldExists ==
  ASSUME NEW D, NEW T, NEW base \in D, NEW step \in [D \X T -> D], NEW x, NEW n \in Nat,
         \A i \in 1..n: x[i] \in T
  PROVE  HasFold(D, step, base, x, n)
<1> DEFINE Folds(k) == HasFold(D, step, base, x, k)
           S == {k \in Nat: k <= n => Folds(k)}
<1>1. 0 \in S
  <2> DEFINE g == [s \in SUBSET (1..0) |-> base]
  <2>1. g \in [SUBSET (1..0) -> D] /\ IsFold(g, step, base, x, 0)
    BY DEF IsFold
  <2> QED
    BY <2>1 DEF HasFold
<1>2. ASSUME NEW k \in S, k + 1 <= n
      PROVE  Folds(k + 1)
  <2>1. k \in Nat /\ k <= n /\ x[k + 1] \in T
    BY <1>2
  <2>2. PICK f \in [SUBSET (1..k) -> D]: IsFold(f, step, base, x, k)
    BY <2>1 DEF HasFold
  <2> HIDE DEF S
  <2> QED
    BY <2>1, <2>2, FoldGrows
<1> HIDE DEF Folds
<1>3. S \in SUBSET Nat /\ \A k \in S: k + 1 \in S
  BY <1>2
<1> HIDE DEF S
<1>4. S = Nat
  BY <1>1, <1>3, SetInduction
<1>5. Folds(n)
  BY <1>4 DEF S
<1> QED
  BY <1>5 DEF Folds

-----------------------------------------------------------------------------------
(* Numbers in a text *)

LEMMA FoundThere ==
  ASSUME NEW T, NEW bytes \in Seq(T), NEW byte, Find(bytes, byte) # 0
  PROVE  Find(bytes, byte) \in 1..Len(bytes) /\ bytes[Find(bytes, byte)] = byte
<1> DEFINE I == {i \in 1..Len(bytes): bytes[i] = byte}
<1>1. Len(bytes) \in Nat /\ I \in SUBSET Nat
  OBVIOUS
<1>2. Find(bytes, byte) = IF I # {} THEN Min(I) ELSE 0
  BY Zenon DEF Find, SelectInSeq
<1> HIDE DEF I
<1>3. I # {}
  BY <1>2
<1>4. \E i \in I: \A j \in I: i <= j
  BY <1>1, <1>3, LeastNumber
<1>5. Find(bytes, byte) \in I
  BY <1>2, <1>3, <1>4, Zenon DEF Min
<1> QED
  BY <1>5 DEF I

LEMMA DigitInGrammar ==
  ASSUME NEW byte, ~(Digit(byte) < 0)
  PROVE  Digit(byte) \in Nat /\ byte \in Grammar
<1>1. Digits \in Seq({Digits[i]: i \in 1..10}) /\ DOMAIN Digits = 1..Len(Digits)
  <2>1. DOMAIN Digits = 1..10 /\ Len(Digits) = 10 /\ Digits = [i \in 1..10 |-> Digits[i]]
    BY DEF Digits
  <2> QED
    BY <2>1
<1>2. Digit(byte) = Find(Digits, byte) - 1
  BY Zenon DEF Digit, Find
<1>3. Find(Digits, byte) \in 0..Len(Digits)
  BY <1>1, FoundWithin
<1>4. Find(Digits, byte) # 0 /\ Find(Digits, byte) \in Nat
  BY <1>1, <1>2, <1>3
<1>5. Find(Digits, byte) \in DOMAIN Digits /\ Digits[Find(Digits, byte)] = byte
  BY <1>1, <1>4, FoundThere
<1>6. byte \in Range(Digits)
  BY <1>5, Zenon DEF Range
<1> QED
  BY <1>2, <1>4, <1>6 DEF Grammar

NextDigit(number, byte) ==
  IF number = NotANumber \/ number * 10 + Digit(byte) > MaxU32 THEN NotANumber
  ELSE number * 10 + Digit(byte)

Numbers32 == (0..MaxU32) \cup {NotANumber}

LEMMA NextDigitTyped ==
  ASSUME NEW number \in Numbers32, NEW byte, Digit(byte) \in Nat
  PROVE  NextDigit(number, byte) \in Numbers32
<1>1. CASE number = NotANumber \/ number * 10 + Digit(byte) > MaxU32
  BY <1>1 DEF NextDigit, Numbers32
<1>2. CASE ~(number = NotANumber \/ number * 10 + Digit(byte) > MaxU32)
  <2>1. number \in Nat
    BY <1>2, WordAssumption DEF Numbers32
  <2>2. number * 10 + Digit(byte) \in 0..MaxU32
    BY <1>2, <2>1, WordAssumption
  <2> QED
    BY <1>2, <2>2 DEF NextDigit, Numbers32
<1> QED
  BY <1>1, <1>2

(* A number of decimal digits, where it is one, fits an unsigned word. *)
LEMMA DecimalRead ==
  ASSUME NEW C, NEW bytes \in Seq(C), Decimal(bytes) # NotANumber
  PROVE  Decimal(bytes) \in 0..MaxU32 /\ \A i \in 1..Len(bytes): bytes[i] \in Grammar
<1> DEFINE n == Len(bytes)
           T == {b \in C: Digit(b) \in Nat}
           IsReading(f) ==
             f = [s \in SUBSET (1..n) |-> IF s = {} THEN 0 ELSE NextDigit(f[s \ {Max(s)}], bytes[Max(s)])]
           step == [p \in Numbers32 \X T |-> NextDigit(p[1], p[2])]
<1>1. n \in Nat /\ DOMAIN bytes = 1..n /\ \A i \in 1..n: bytes[i] \in C
  OBVIOUS
<1>2. bytes # << >> /\ \A i \in 1..n: ~(Digit(bytes[i]) < 0)
  BY <1>1 DEF Decimal
<1>3. \A i \in 1..n: Digit(bytes[i]) \in Nat /\ bytes[i] \in Grammar /\ bytes[i] \in T
  BY <1>1, <1>2, DigitInGrammar
<1>4. Decimal(bytes) =
        FoldLeft(LAMBDA number, byte:
                   IF number = NotANumber \/ number * 10 + Digit(byte) > MaxU32 THEN NotANumber
                   ELSE number * 10 + Digit(byte), 0, bytes)
  BY <1>1, <1>2, Zenon DEF Decimal
<1>5. step \in [Numbers32 \X T -> Numbers32]
  BY NextDigitTyped
<1>6. 0 \in Numbers32
  BY WordAssumption DEF Numbers32
<1>7. PICK g \in [SUBSET (1..n) -> Numbers32]: IsFold(g, step, 0, bytes, n)
  <2>1. \A i \in 1..n: bytes[i] \in T
    BY <1>3
  <2>2. n \in Nat
    OBVIOUS
  <2> HIDE DEF step, T, n
  <2>3. HasFold(Numbers32, step, 0, bytes, n)
    BY <1>5, <1>6, <2>1, <2>2, FoldExists
  <2> QED
    BY <2>3 DEF HasFold
<1>8. IsReading(g)
  <2>1. ASSUME NEW s \in SUBSET (1..n)
        PROVE  g[s] = IF s = {} THEN 0 ELSE NextDigit(g[s \ {Max(s)}], bytes[Max(s)])
    <3>1. g[s] = IF s = {} THEN 0 ELSE step[<<g[s \ {Max(s)}], bytes[Max(s)]>>]
      BY <1>7, Zenon DEF IsFold
    <3>2. s # {} => Max(s) \in 1..n
      BY <1>1, GreatestNumber
    <3>3. g[s \ {Max(s)}] \in Numbers32
      OBVIOUS
    <3> HIDE DEF T
    <3>4. s # {} => step[<<g[s \ {Max(s)}], bytes[Max(s)]>>] = NextDigit(g[s \ {Max(s)}], bytes[Max(s)])
      BY <1>3, <3>2, <3>3
    <3> QED
      BY <3>1, <3>4, Zenon
  <2>2. g = [s \in SUBSET (1..n) |-> g[s]]
    OBVIOUS
  <2> QED
    BY <2>1, <2>2, Zenon
<1> DEFINE f == CHOOSE h: IsReading(h)
<1>9. IsReading(f)
  BY <1>8, Zenon
<1>10. Decimal(bytes) = f[1..n]
  BY <1>1, <1>4, Zenon DEF FoldLeft, MapThenFoldSet, NextDigit
<1> HIDE DEF f, step, T
<1>11. \A s \in SUBSET (1..n): f[s] = IF s = {} THEN 0 ELSE NextDigit(f[s \ {Max(s)}], bytes[Max(s)])
  BY <1>9, Zenon
<1> DEFINE S == {k \in Nat: k <= n => f[1..k] \in Numbers32}
<1>12. 0 \in S
  <2>1. 1..0 = {} /\ 1..0 \in SUBSET (1..n)
    OBVIOUS
  <2>2. f[1..0] = 0
    BY <1>11, <2>1
  <2> QED
    BY <1>6, <2>2
<1>13. ASSUME NEW k \in S, k + 1 <= n
       PROVE  f[1..(k + 1)] \in Numbers32
  <2> DEFINE s == 1..(k + 1)
  <2>1. k \in Nat /\ k <= n /\ f[1..k] \in Numbers32 /\ k + 1 \in 1..n
    BY <1>1, <1>13
  <2> HIDE DEF S
  <2>2. s \in SUBSET (1..n) /\ s # {} /\ s \ {k + 1} = 1..k
    BY <1>1, <1>13, <2>1, OneMorePosition
  <2>3. Max(s) = k + 1
    BY <2>1, LastIsMax
  <2> HIDE DEF s
  <2>4. f[s] = NextDigit(f[1..k], bytes[k + 1])
    BY <1>11, <2>2, <2>3
  <2>5. f[s] \in Numbers32
    BY <1>3, <2>1, <2>4, NextDigitTyped
  <2> QED
    BY <2>5 DEF s
<1>14. S \in SUBSET Nat /\ \A k \in S: k + 1 \in S
  BY <1>13
<1> HIDE DEF S
<1>15. S = Nat
  BY <1>12, <1>14, SetInduction
<1>16. f[1..n] \in Numbers32
  BY <1>1, <1>15 DEF S
<1> QED
  BY <1>3, <1>10, <1>16 DEF Numbers32

-----------------------------------------------------------------------------------
(* A text is cut at a character of its grammar *)

LEMMA BeforeAndAfter ==
  ASSUME NEW C, NEW bytes \in Seq(C), NEW p \in 1..Len(bytes)
  PROVE  /\ Before(bytes, p) \in Seq(C) /\ After(bytes, p) \in Seq(C) /\ <<bytes[p]>> \in Seq(C)
         /\ Len(After(bytes, p)) = Len(bytes) - p
         /\ bytes = (Before(bytes, p) \o <<bytes[p]>>) \o After(bytes, p)
<1>1. Len(bytes) \in Nat /\ p \in Nat /\ p - 1 \in Nat /\ p <= Len(bytes) /\ p - 1 < Len(bytes)
      /\ p - 1 <= Len(bytes) /\ (p - 1) + 1 = p
  OBVIOUS
<1>2. /\ SubSeq(bytes, 1, p) \in Seq(C)
      /\ SubSeq(bytes, p + 1, Len(bytes)) \in Seq(C) /\ Len(SubSeq(bytes, p + 1, Len(bytes))) = Len(bytes) - p
      /\ bytes = SubSeq(bytes, 1, p) \o SubSeq(bytes, p + 1, Len(bytes))
  BY <1>1, TwoSlices
<1> DEFINE front == SubSeq(bytes, 1, p - 1)
<1>3. front \in Seq(C)
  BY <1>1, TwoSlices
<1>4. bytes[p] \in C /\ SubSeq(bytes, 1, p) = Append(front, bytes[p])
  <2> DEFINE k == p - 1
  <2>1. k \in Nat /\ k < Len(bytes) /\ k + 1 = p
    BY <1>1
  <2> HIDE DEF k
  <2>2. bytes[k + 1] \in C /\ SubSeq(bytes, 1, k + 1) = Append(SubSeq(bytes, 1, k), bytes[k + 1])
    BY <2>1, NextSlice
  <2> QED
    BY <2>1, <2>2 DEF k
<1> HIDE DEF front
<1>5. Append(front, bytes[p]) = front \o <<bytes[p]>> /\ <<bytes[p]>> \in Seq(C)
  BY <1>3, <1>4, AppendIsConcat
<1> QED
  BY <1>2, <1>3, <1>4, <1>5 DEF Before, After, front

LEMMA ToldAround ==
  ASSUME NEW C, Replacement \in C, NEW bytes \in Seq(C), NEW p \in 1..Len(bytes), bytes[p] \in Grammar
  PROVE  Told(bytes) = Told(Before(bytes, p)) \o Told(After(bytes, p))
<1> DEFINE a == Before(bytes, p)
           m == <<bytes[p]>>
           z == After(bytes, p)
<1>1. a \in Seq(C) /\ m \in Seq(C) /\ z \in Seq(C) /\ bytes = (a \o m) \o z
  BY BeforeAndAfter
<1>2. Told(m) = << >>
  <2>1. Len(m) = 1 /\ m[1] = bytes[p]
    OBVIOUS
  <2> HIDE DEF m
  <2>2. \A i \in 1..Len(m): m[i] \in Grammar
    BY <2>1
  <2> QED
    BY <1>1, <2>2, GrammarTellsNothing
<1> HIDE DEF a, m, z
<1>3. a \o m \in Seq(C)
  BY <1>1, ConcatProperties
<1>4. Told(bytes) = (Told(a) \o Told(m)) \o Told(z)
  <2>1. Told(a \o m) = Told(a) \o Told(m)
    BY <1>1, ToldConcat
  <2>2. Told((a \o m) \o z) = Told(a \o m) \o Told(z)
    BY <1>1, <1>3, ToldConcat
  <2> QED
    BY <1>1, <2>1, <2>2
<1>5. Told(a) \in Seq(Letters)
  BY <1>1, ToldTyped
<1>6. Told(a) \o Told(m) = Told(a)
  BY <1>2, <1>5, ConcatEmptySeq
<1> QED
  BY <1>4, <1>6 DEF a, z

(* From the front on: what stands before the first character of a kind, and after it. *)
LEMMA ToldAroundFound ==
  ASSUME NEW C, Replacement \in C, NEW bytes \in Seq(C), NEW byte \in Grammar, Find(bytes, byte) # 0
  PROVE  LET end == Find(bytes, byte)
         IN  /\ end \in 1..Len(bytes) /\ bytes[end] = byte
             /\ Before(bytes, end) \in Seq(C) /\ After(bytes, end) \in Seq(C)
             /\ Told(bytes) = Told(Before(bytes, end)) \o Told(After(bytes, end))
<1> DEFINE end == Find(bytes, byte)
<1>1. end \in 1..Len(bytes) /\ bytes[end] = byte
  BY FoundThere
<1> HIDE DEF end
<1>2. /\ Before(bytes, end) \in Seq(C) /\ After(bytes, end) \in Seq(C)
      /\ Told(bytes) = Told(Before(bytes, end)) \o Told(After(bytes, end))
  BY <1>1, BeforeAndAfter, ToldAround
<1> QED
  BY <1>1, <1>2 DEF end

LEMMA ToldAfterHead ==
  ASSUME NEW C, Replacement \in C, NEW bytes \in Seq(C), bytes # << >>, Head(bytes) \in Grammar
  PROVE  Tail(bytes) \in Seq(C) /\ Told(Tail(bytes)) = Told(bytes)
<1>1. 1 \in 1..Len(bytes) /\ bytes[1] = Head(bytes)
  <2> HIDE DEF Grammar
  <2> QED
    BY EmptySeq
<1>2. Before(bytes, 1) = << >> /\ After(bytes, 1) = Tail(bytes)
  <2>1. Tail(bytes) = SubSeq(bytes, 2, Len(bytes))
    BY TailIsSubSeq
  <2>2. After(bytes, 1) = SubSeq(bytes, 2, Len(bytes))
    BY DEF After
  <2>3. Before(bytes, 1) = SubSeq(bytes, 1, 0)
    BY DEF Before
  <2>4. SubSeq(bytes, 1, 0) = << >>
    OBVIOUS
  <2> QED
    BY <2>1, <2>2, <2>3, <2>4
<1>3. Told(bytes) = Told(<< >>) \o Told(Tail(bytes)) /\ Tail(bytes) \in Seq(C)
  BY <1>1, <1>2, ToldAround, BeforeAndAfter
<1>4. Told(Tail(bytes)) \in Seq(Letters)
  BY <1>3, ToldTyped
<1> QED
  BY <1>3, <1>4, ToldNothing, ConcatEmptySeq

LEMMA ToldBeforeLast ==
  ASSUME NEW C, Replacement \in C, NEW bytes \in Seq(C), bytes # << >>, Last(bytes) \in Grammar
  PROVE  Front(bytes) \in Seq(C) /\ Told(Front(bytes)) = Told(bytes)
<1> DEFINE n == Len(bytes)
<1>1. n \in 1..Len(bytes) /\ bytes[n] = Last(bytes) /\ n \in Nat
  BY EmptySeq DEF Last
<1>2. Before(bytes, n) = Front(bytes)
  BY DEF Before, Front
<1>3. /\ Told(bytes) = Told(Front(bytes)) \o Told(After(bytes, n)) /\ Front(bytes) \in Seq(C)
      /\ After(bytes, n) \in Seq(C) /\ Len(After(bytes, n)) = 0
  <2> HIDE DEF n
  <2>1. /\ Before(bytes, n) \in Seq(C) /\ After(bytes, n) \in Seq(C) /\ Len(After(bytes, n)) = Len(bytes) - n
        /\ Told(bytes) = Told(Before(bytes, n)) \o Told(After(bytes, n))
    BY <1>1, ToldAround, BeforeAndAfter
  <2> QED
    BY <1>1, <1>2, <2>1 DEF n
<1>4. After(bytes, n) = << >>
  BY <1>3, EmptySeq
<1>5. Told(Front(bytes)) \in Seq(Letters)
  BY <1>3, ToldTyped
<1> QED
  BY <1>3, <1>4, <1>5, ToldNothing, ConcatEmptySeq

(* Padding tells nothing. *)
LEMMA ToldWithoutPads ==
  ASSUME NEW C, Replacement \in C, NEW bytes \in Seq(C), NEW pads \in SUBSET Grammar
  PROVE  TrimEnd(bytes, pads) \in Seq(C) /\ Told(TrimEnd(bytes, pads)) = Told(bytes)
<1> DEFINE n == Len(bytes)
           last == LastNot(bytes, pads)
           others == {i \in DOMAIN bytes: bytes[i] \notin pads}
           pad == SubSeq(bytes, last + 1, n)
<1>1. n \in Nat /\ DOMAIN bytes = 1..n
  OBVIOUS
<1>2. last \in 0..n /\ \A i \in 1..n: i > last => bytes[i] \in pads
  <2> DEFINE S == {0} \cup others
             M == {m + 1: m \in S}
  <2>1. M \in SUBSET (1..(n + 1)) /\ 1 \in M
    BY <1>1
  <2>2. \A m \in S: m \in 0..n
    BY <1>1
  <2>3. \E x \in S: \A y \in S: x >= y
    <3>1. M # {} /\ n + 1 \in Nat
      BY <1>1, <2>1
    <3> HIDE DEF M
    <3>2. Max(M) \in M /\ \A y \in M: y <= Max(M)
      BY <2>1, <3>1, GreatestNumber
    <3>3. PICK m \in S: Max(M) = m + 1
      BY <3>2 DEF M
    <3>4. \A y \in S: y + 1 <= m + 1
      BY <3>2, <3>3 DEF M
    <3> QED
      BY <2>2, <3>3, <3>4
  <2>4. Max(S) \in S /\ \A y \in S: Max(S) >= y
    BY <2>3, Zenon DEF Max
  <2>5. last = Max(S)
    BY Zenon DEF LastNot
  <2> HIDE DEF last, M
  <2>6. \A i \in 1..n: i > last => i \notin S
    BY <2>2, <2>4, <2>5
  <2>7. \A i \in 1..n: i > last => bytes[i] \in pads
    BY <1>1, <2>6
  <2> QED
    BY <2>2, <2>4, <2>5, <2>7
<1>3. TrimEnd(bytes, pads) = SubSeq(bytes, 1, last)
  BY DEF TrimEnd
<1> HIDE DEF last
<1>4. /\ SubSeq(bytes, 1, last) \in Seq(C) /\ pad \in Seq(C) /\ Len(pad) = n - last
      /\ bytes = SubSeq(bytes, 1, last) \o pad
  <2>1. last \in Nat /\ last <= Len(bytes)
    BY <1>1, <1>2
  <2> QED
    BY <2>1, TwoSlices
<1>5. \A i \in 1..Len(pad): pad[i] \in Grammar
  <2>1. \A i \in 1..(n - last): last + i \in 1..n /\ last + i > last
    BY <1>1, <1>2
  <2>2. pad = SubSeq(bytes, last + 1, n) /\ \A i \in 1..(n - last): pad[i] = bytes[last + i]
    <3>1. \A i \in (last + 1)..n: bytes[i] \in C
      BY <1>1, <1>2
    <3>2. last + 1 \in Int /\ n \in Int /\ n - (last + 1) + 1 = n - last
      BY <1>1, <1>2
    <3>3. \A i \in 1..(n - last): (last + 1) + i - 1 = last + i
      BY <1>1, <1>2
    <3>4. \A i \in 1..(n - (last + 1) + 1): pad[i] = bytes[(last + 1) + i - 1]
      BY <3>1, <3>2, SubSeqProperties
    <3> QED
      BY <3>2, <3>3, <3>4
  <2> HIDE DEF pad, n
  <2> QED
    BY <1>2, <1>4, <2>1, <2>2
<1> HIDE DEF pad
<1>6. Told(pad) = << >>
  BY <1>4, <1>5, GrammarTellsNothing
<1>7. Told(bytes) = Told(SubSeq(bytes, 1, last)) \o Told(pad)
  BY <1>4, ToldConcat
<1>8. Told(SubSeq(bytes, 1, last)) \in Seq(Letters)
  BY <1>4, ToldTyped
<1> QED
  BY <1>3, <1>4, <1>6, <1>7, <1>8, ConcatEmptySeq

-----------------------------------------------------------------------------------
(* The tokens of a text *)

(* The last of several sequences goes on. *)
LEMMA LastGoesOn ==
  ASSUME NEW S, NEW ss \in Seq(Seq(S)), ss # << >>, NEW v \in Seq(S)
  PROVE  LET tt == [ss EXCEPT ![Len(ss)] = @ \o v]
         IN  /\ tt \in Seq(Seq(S)) /\ tt # << >> /\ Len(tt) = Len(ss)
             /\ FlattenSeq(tt) = FlattenSeq(ss) \o v
<1> DEFINE tt == [ss EXCEPT ![Len(ss)] = @ \o v]
           n == Len(ss) - 1
           front == SubSeq(ss, 1, n)
           last == ss[n + 1]
<1>1. n \in Nat /\ Len(ss) = n + 1 /\ Len(ss) \in Nat
  BY EmptySeq
<1> HIDE DEF n
<1>2. /\ front \in Seq(Seq(S)) /\ Len(front) = n /\ last \in Seq(S) /\ ss = Append(front, last)
  BY <1>1, SeqIsAppend
<1>3. last \o v \in Seq(S)
  BY <1>2, ConcatProperties
<1>4. DOMAIN tt = 1..(n + 1) /\ tt[n + 1] = last \o v /\ \A i \in 1..n: tt[i] = ss[i]
  <2>1. DOMAIN ss = 1..(n + 1)
    BY <1>1
  <2>2. \A i \in 1..n: i \in 1..(n + 1) /\ i # n + 1
    BY <1>1
  <2>3. n + 1 \in 1..(n + 1)
    BY <1>1
  <2> QED
    BY <1>1, <2>1, <2>2, <2>3
<1>5. \A i \in 1..n: front[i] = ss[i]
  BY <1>1
<1>6. tt = [i \in DOMAIN tt |-> tt[i]]
  OBVIOUS
<1> HIDE DEF tt, front, last
<1>7. tt = Append(front, last \o v)
  BY <1>2, <1>3, <1>4, <1>5, <1>6, OneMore
<1>8. FlattenSeq(ss) = FlattenSeq(front) \o last /\ FlattenSeq(tt) = FlattenSeq(front) \o (last \o v)
  BY <1>2, <1>3, <1>7, FlattenAppend
<1>9. FlattenSeq(front) \in Seq(S)
  BY <1>2, FlattenTyped
<1>10. Associates(FlattenSeq(front), last, v)
  BY <1>2, <1>9, ConcatAssociates
<1>11. FlattenSeq(tt) = FlattenSeq(ss) \o v
  BY <1>8, <1>10, Zenon DEF Associates
<1>12. tt \in Seq(Seq(S)) /\ tt # << >> /\ Len(tt) = Len(front) + 1
  <2> DEFINE T == Seq(S)
  <2>1. front \in Seq(T) /\ last \o v \in T
    BY <1>2, <1>3
  <2> HIDE DEF T
  <2>2. tt \in Seq(T) /\ tt # << >> /\ Len(tt) = Len(front) + 1
    BY <1>7, <2>1, AppendProperties
  <2> QED
    BY <2>2 DEF T
<1> QED
  BY <1>1, <1>2, <1>11, <1>12 DEF tt

NextToken(tokens, byte) ==
  IF byte = SPACE THEN Append(tokens, << >>)
  ELSE [tokens EXCEPT ![Len(tokens)] = Append(@, byte)]

LEMMA NextTokenTold ==
  ASSUME NEW C, Replacement \in C, NEW tokens \in Seq(Seq(C)) \ {<< >>}, NEW byte \in C
  PROVE  /\ NextToken(tokens, byte) \in Seq(Seq(C)) \ {<< >>}
         /\ Told(FlattenSeq(NextToken(tokens, byte))) = Told(FlattenSeq(tokens)) \o Told(<<byte>>)
<1>1. tokens \in Seq(Seq(C)) /\ tokens # << >> /\ <<byte>> \in Seq(C) /\ << >> \in Seq(C)
  OBVIOUS
<1>2. FlattenSeq(tokens) \in Seq(C)
  BY <1>1, FlattenTyped
<1>3. CASE byte = SPACE
  <2>1. NextToken(tokens, byte) = Append(tokens, << >>)
    BY <1>3 DEF NextToken
  <2>2. FlattenSeq(Append(tokens, << >>)) = FlattenSeq(tokens) \o << >>
    BY <1>1, FlattenAppend
  <2>3. FlattenSeq(tokens) \o << >> = FlattenSeq(tokens)
    BY <1>2, ConcatEmptySeq
  <2>4. Told(<<byte>>) = << >>
    <3> DEFINE one == <<byte>>
    <3>1. Len(one) = 1 /\ one[1] = byte /\ one \in Seq(C)
      OBVIOUS
    <3>2. byte \in Grammar
      BY <1>3 DEF Grammar
    <3> HIDE DEF one
    <3>3. \A i \in 1..Len(one): one[i] \in Grammar
      BY <3>1, <3>2
    <3>4. Told(one) = << >>
      BY <3>1, <3>3, GrammarTellsNothing
    <3> QED
      BY <3>4 DEF one
  <2>5. Told(FlattenSeq(tokens)) \o << >> = Told(FlattenSeq(tokens))
    BY <1>2, ToldTyped, ConcatEmptySeq
  <2>6. Append(tokens, << >>) \in Seq(Seq(C)) /\ Append(tokens, << >>) # << >>
    BY <1>1, AppendProperties
  <2> QED
    BY <2>1, <2>2, <2>3, <2>4, <2>5, <2>6
<1>4. CASE byte # SPACE
  <2> DEFINE n == Len(tokens)
  <2>1. n \in DOMAIN tokens /\ tokens[n] \in Seq(C)
    BY <1>1
  <2>2. Append(tokens[n], byte) = tokens[n] \o <<byte>>
    BY <2>1, AppendIsConcat
  <2>3. NextToken(tokens, byte) = [tokens EXCEPT ![Len(tokens)] = @ \o <<byte>>]
    BY <1>4, <2>1, <2>2 DEF NextToken
  <2>4. /\ NextToken(tokens, byte) \in Seq(Seq(C)) /\ NextToken(tokens, byte) # << >>
        /\ FlattenSeq(NextToken(tokens, byte)) = FlattenSeq(tokens) \o <<byte>>
    <3> DEFINE next == [tokens EXCEPT ![Len(tokens)] = @ \o <<byte>>]
    <3>1. next \in Seq(Seq(C)) /\ next # << >> /\ FlattenSeq(next) = FlattenSeq(tokens) \o <<byte>>
      BY <1>1, LastGoesOn, Zenon
    <3> HIDE DEF next
    <3>2. NextToken(tokens, byte) = next
      BY <2>3 DEF next
    <3> QED
      BY <3>1, <3>2
  <2>5. Told(FlattenSeq(tokens) \o <<byte>>) = Told(FlattenSeq(tokens)) \o Told(<<byte>>)
    BY <1>1, <1>2, ToldConcat
  <2> QED
    BY <2>4, <2>5
<1> QED
  BY <1>3, <1>4

CutAtSpaces(bytes) ==
  FoldLeft(LAMBDA tokens, byte:
             IF byte = SPACE THEN Append(tokens, << >>)
             ELSE [tokens EXCEPT ![Len(tokens)] = Append(@, byte)], << << >> >>, bytes)

LEMMA CutTold ==
  ASSUME NEW C, Replacement \in C, NEW bytes \in Seq(C)
  PROVE  CutAtSpaces(bytes) \in Seq(Seq(C)) /\ Told(FlattenSeq(CutAtSpaces(bytes))) = Told(bytes)
<1> DEFINE n == Len(bytes)
           D == Seq(Seq(C)) \ {<< >>}
           none == << << >> >>
           IsCutting(f) ==
             f = [s \in SUBSET (1..n) |-> IF s = {} THEN none ELSE NextToken(f[s \ {Max(s)}], bytes[Max(s)])]
           step == [p \in D \X C |-> NextToken(p[1], p[2])]
<1>1. n \in Nat /\ DOMAIN bytes = 1..n /\ \A i \in 1..n: bytes[i] \in C
  OBVIOUS
<1>2. none \in D
  OBVIOUS
<1>3. step \in [D \X C -> D]
  BY NextTokenTold
<1>4. PICK g \in [SUBSET (1..n) -> D]: IsFold(g, step, none, bytes, n)
  <2> HIDE DEF step, D, none, n
  <2>1. HasFold(D, step, none, bytes, n)
    BY <1>1, <1>2, <1>3, FoldExists
  <2> QED
    BY <2>1 DEF HasFold
<1> HIDE DEF none
<1>5. IsCutting(g)
  <2>1. ASSUME NEW s \in SUBSET (1..n)
        PROVE  g[s] = IF s = {} THEN none ELSE NextToken(g[s \ {Max(s)}], bytes[Max(s)])
    <3>1. g[s] = IF s = {} THEN none ELSE step[<<g[s \ {Max(s)}], bytes[Max(s)]>>]
      BY <1>4, Zenon DEF IsFold
    <3>2. s # {} => Max(s) \in 1..n
      BY <1>1, GreatestNumber
    <3>3. g[s \ {Max(s)}] \in D
      OBVIOUS
    <3> HIDE DEF D
    <3>4. s # {} => step[<<g[s \ {Max(s)}], bytes[Max(s)]>>] = NextToken(g[s \ {Max(s)}], bytes[Max(s)])
      BY <1>1, <3>2, <3>3
    <3> QED
      BY <3>1, <3>4, Zenon
  <2>2. g = [s \in SUBSET (1..n) |-> g[s]]
    OBVIOUS
  <2> QED
    BY <2>1, <2>2, Zenon
<1> DEFINE f == CHOOSE h: IsCutting(h)
<1>6. IsCutting(f)
  BY <1>5, Zenon
<1>7. CutAtSpaces(bytes) = f[1..n]
  BY <1>1, Zenon DEF CutAtSpaces, FoldLeft, MapThenFoldSet, NextToken, none
<1> HIDE DEF f, step
<1>8. \A s \in SUBSET (1..n): f[s] = IF s = {} THEN none ELSE NextToken(f[s \ {Max(s)}], bytes[Max(s)])
  BY <1>6, Zenon
<1> DEFINE Upto(k) == f[1..k] \in D /\ Told(FlattenSeq(f[1..k])) = Told(SubSeq(bytes, 1, k))
           S == {k \in Nat: k <= n => Upto(k)}
<1>9. 0 \in S
  <2>1. 1..0 = {} /\ 1..0 \in SUBSET (1..n)
    OBVIOUS
  <2>2. f[1..0] = none
    BY <1>8, <2>1
  <2>3. none = Append(<< >>, << >>) /\ << >> \in Seq(Seq(C)) /\ << >> \in Seq(C)
    BY DEF none
  <2>4. FlattenSeq(none) = << >>
    <3>1. FlattenSeq(Append(<< >>, << >>)) = FlattenSeq(<< >>) \o << >>
      BY <2>3, FlattenAppend
    <3> QED
      BY <2>3, <3>1, FlattenEmpty, ConcatEmptySeq
  <2>5. SubSeq(bytes, 1, 0) = << >>
    OBVIOUS
  <2> HIDE DEF D
  <2>6. Upto(0)
    BY <1>2, <2>2, <2>4, <2>5
  <2> QED
    BY <2>6
<1>10. ASSUME NEW k \in S, k + 1 <= n
       PROVE  Upto(k + 1)
  <2> DEFINE s == 1..(k + 1)
             byte == bytes[k + 1]
             old == f[1..k]
             new == f[1..(k + 1)]
             part == SubSeq(bytes, 1, k)
  <2>1. k \in Nat /\ k <= n /\ k < Len(bytes) /\ Upto(k) /\ byte \in C
    BY <1>1, <1>10
  <2> HIDE DEF S
  <2>2. s \in SUBSET (1..n) /\ s # {} /\ s \ {k + 1} = 1..k
    BY <1>1, <1>10, <2>1, OneMorePosition
  <2>3. Max(s) = k + 1
    BY <2>1, LastIsMax
  <2> HIDE DEF s
  <2>4. f[s] = NextToken(f[1..k], bytes[k + 1])
    BY <1>8, <2>2, <2>3
  <2>5. new = NextToken(old, byte)
    BY <2>4 DEF s
  <2>6. old \in D /\ Told(FlattenSeq(old)) = Told(part)
    BY <2>1
  <2>7. SubSeq(bytes, 1, k + 1) = Append(part, byte) /\ part \in Seq(C)
    BY <2>1, NextSlice, TwoSlices
  <2>8. Append(part, byte) = part \o <<byte>> /\ <<byte>> \in Seq(C)
    BY <2>1, <2>7, AppendIsConcat
  <2> HIDE DEF old, new, part, byte
  <2>9. Told(part \o <<byte>>) = Told(part) \o Told(<<byte>>)
    BY <2>7, <2>8, ToldConcat
  <2>10. new \in D /\ Told(FlattenSeq(new)) = Told(FlattenSeq(old)) \o Told(<<byte>>)
    BY <2>1, <2>5, <2>6, NextTokenTold
  <2>11. new \in D /\ Told(FlattenSeq(new)) = Told(SubSeq(bytes, 1, k + 1))
    BY <2>6, <2>7, <2>8, <2>9, <2>10
  <2> HIDE DEF D
  <2> QED
    BY <2>11 DEF new
<1> HIDE DEF Upto
<1>11. S \in SUBSET Nat /\ \A k \in S: k + 1 \in S
  BY <1>10
<1> HIDE DEF S
<1>12. S = Nat
  BY <1>9, <1>11, SetInduction
<1>13. Upto(n)
  BY <1>1, <1>12 DEF S
<1>14. SubSeq(bytes, 1, n) = bytes
  BY WholeSlice
<1> QED
  BY <1>7, <1>13, <1>14 DEF Upto

KeptTokens(tokens) ==
  FlattenSeq([k \in DOMAIN tokens |-> IF tokens[k] = << >> THEN << >> ELSE <<Text(tokens[k])>>])

(* Empty tokens are not missed. *)
LEMMA KeptTold ==
  ASSUME NEW C, Replacement \in C, NEW tokens \in Seq(Seq(C))
  PROVE  KeptTokens(tokens) \in Seq(Seq(C)) /\ FlattenSeq(KeptTokens(tokens)) = Text(FlattenSeq(tokens))
<1> DEFINE Keeps(ss) == KeptTokens(ss) \in Seq(Seq(C)) /\ FlattenSeq(KeptTokens(ss)) = Text(FlattenSeq(ss))
           N == {n \in Nat: \A ss \in Seq(Seq(C)): Len(ss) = n => Keeps(ss)}
<1>1. 0 \in N
  <2>1. KeptTokens(<< >>) = << >>
    <3> DEFINE none == [k \in DOMAIN << >> |-> IF << >>[k] = << >> THEN << >> ELSE <<Text(<< >>[k])>>]
    <3>1. none = << >>
      OBVIOUS
    <3> HIDE DEF none
    <3>2. FlattenSeq(none) = << >>
      BY <3>1, FlattenEmpty
    <3> QED
      BY <3>2, Zenon DEF KeptTokens, none
  <2>2. Text(<< >>) = << >>
    BY DEF Text
  <2>3. Keeps(<< >>)
    BY <2>1, <2>2, FlattenEmpty, EmptySeq
  <2> HIDE DEF Keeps
  <2>4. \A ss \in Seq(Seq(C)): Len(ss) = 0 => ss = << >>
    OBVIOUS
  <2> QED
    BY <2>3, <2>4
<1>2. ASSUME NEW n \in N, NEW ss \in Seq(Seq(C)), Len(ss) = n + 1
      PROVE  Keeps(ss)
  <2> DEFINE front == SubSeq(ss, 1, n)
             last  == ss[n + 1]
             more  == IF last = << >> THEN << >> ELSE <<Text(last)>>
             Kept(tt) == [k \in DOMAIN tt |-> IF tt[k] = << >> THEN << >> ELSE <<Text(tt[k])>>]
  <2>1. /\ n \in Nat /\ front \in Seq(Seq(C)) /\ Len(front) = n
        /\ last \in Seq(C) /\ ss = Append(front, last)
    BY <1>2, SeqIsAppend
  <2>2. Keeps(front)
    BY <2>1
  <2> HIDE DEF N
  <2>3. Text(last) \in Seq(C)
    BY <2>1, TextTyped
  <2>4. more \in Seq(Seq(C))
    BY <2>3
  <2>5. /\ DOMAIN Kept(ss) = 1..(Len(Kept(front)) + 1) /\ Kept(ss) = [k \in DOMAIN Kept(ss) |-> Kept(ss)[k]]
        /\ Kept(front) \in Seq(Seq(Seq(C))) /\ Kept(ss)[Len(Kept(front)) + 1] = more
        /\ \A k \in 1..Len(Kept(front)): Kept(ss)[k] = Kept(front)[k]
    <3>1. DOMAIN ss = 1..(n + 1) /\ DOMAIN front = 1..n /\ \A k \in 1..n: front[k] = ss[k] /\ k \in 1..(n + 1)
      BY <1>2, <2>1
    <3>2. \A k \in 1..n: front[k] \in Seq(C) /\ Text(front[k]) \in Seq(C)
      <4>1. \A k \in 1..n: front[k] \in Seq(C)
        BY <2>1
      <4> QED
        BY <4>1, TextTyped
    <3> HIDE DEF front, last
    <3>3. Kept(front) = [k \in 1..n |-> IF front[k] = << >> THEN << >> ELSE <<Text(front[k])>>]
      BY <3>1
    <3>4. \A k \in 1..n: (IF front[k] = << >> THEN << >> ELSE <<Text(front[k])>>) \in Seq(Seq(C))
      BY <3>2
    <3>5. Kept(front) \in Seq(Seq(Seq(C))) /\ Len(Kept(front)) = n
      BY <2>1, <3>3, <3>4
    <3>6. n + 1 \in 1..(n + 1)
      BY <2>1
    <3>7. Kept(ss)[n + 1] = more /\ DOMAIN Kept(ss) = 1..(n + 1)
      BY <3>1, <3>6 DEF last
    <3>8. \A k \in 1..n: Kept(ss)[k] = Kept(front)[k]
      BY <3>1, <3>3
    <3> QED
      BY <3>5, <3>7, <3>8
  <2> HIDE DEF front, last, more, Kept
  <2>6. Kept(ss) = Append(Kept(front), more)
    BY <2>4, <2>5, OneMore
  <2>7. KeptTokens(ss) = KeptTokens(front) \o more
    <3>1. FlattenSeq(Append(Kept(front), more)) = FlattenSeq(Kept(front)) \o more
      BY <2>4, <2>5, FlattenAppend
    <3>2. KeptTokens(ss) = FlattenSeq(Kept(ss)) /\ KeptTokens(front) = FlattenSeq(Kept(front))
      BY Zenon DEF KeptTokens, Kept
    <3> QED
      BY <2>6, <3>1, <3>2
  <2>8. /\ KeptTokens(front) \in Seq(Seq(C)) /\ FlattenSeq(KeptTokens(front)) = Text(FlattenSeq(front))
        /\ FlattenSeq(front) \in Seq(C)
    BY <2>1, <2>2, FlattenTyped
  <2>9. FlattenSeq(KeptTokens(front) \o more) = FlattenSeq(KeptTokens(front)) \o Text(last)
    <3>1. CASE last = << >>
      <4>1. more = << >> /\ Text(last) = << >>
        BY <3>1 DEF more, Text
      <4>2. FlattenSeq(KeptTokens(front)) \in Seq(C)
        BY <2>8, FlattenTyped
      <4> QED
        BY <2>8, <4>1, <4>2, ConcatEmptySeq
    <3>2. CASE last # << >>
      <4>1. more = <<Text(last)>>
        BY <3>2 DEF more
      <4>2. KeptTokens(front) \o <<Text(last)>> = Append(KeptTokens(front), Text(last))
        BY <2>3, <2>8, AppendIsConcat
      <4> QED
        BY <2>3, <2>8, <4>1, <4>2, FlattenAppend
    <3> QED
      BY <3>1, <3>2
  <2>10. Text(FlattenSeq(ss)) = Text(FlattenSeq(front)) \o Text(last)
    <3>1. FlattenSeq(ss) = FlattenSeq(front) \o last
      BY <2>1, FlattenAppend
    <3> QED
      BY <2>1, <2>8, <3>1, TextConcat
  <2>11. KeptTokens(front) \o more \in Seq(Seq(C))
    BY <2>4, <2>8, ConcatProperties
  <2> QED
    BY <2>7, <2>8, <2>9, <2>10, <2>11
<1> HIDE DEF Keeps
<1>3. \A n \in N: n \in Nat /\ n + 1 \in Nat
  OBVIOUS
<1>4. N \in SUBSET Nat /\ \A n \in N: n + 1 \in N
  BY <1>2, <1>3, Zenon
<1> HIDE DEF N
<1>5. N = Nat
  BY <1>1, <1>4, SetInduction
<1>6. Len(tokens) \in N
  BY <1>5, LenProperties
<1>7. Keeps(tokens)
  BY <1>6, Zenon DEF N
<1> QED
  BY <1>7 DEF Keeps

(* The tokens tell all that the text does. *)
LEMMA TokensTold ==
  ASSUME NEW C, Replacement \in C, NEW bytes \in Seq(C)
  PROVE  Tokens(bytes) \in Seq(Seq(C)) /\ LettersOf(FlattenSeq(Tokens(bytes))) = Told(bytes)
<1> DEFINE cut == CutAtSpaces(bytes)
<1>1. Tokens(bytes) = KeptTokens(cut)
  BY Zenon DEF Tokens, KeptTokens, CutAtSpaces
<1>2. cut \in Seq(Seq(C)) /\ Told(FlattenSeq(cut)) = Told(bytes)
  BY CutTold
<1> HIDE DEF cut
<1>3. KeptTokens(cut) \in Seq(Seq(C)) /\ FlattenSeq(KeptTokens(cut)) = Text(FlattenSeq(cut))
  BY <1>2, KeptTold
<1> QED
  BY <1>1, <1>2, <1>3 DEF Told

-----------------------------------------------------------------------------------
(* The pieces of the line grammars *)

LEMMA LettersOfTwo ==
  ASSUME NEW C, NEW a \in Seq(C), NEW b \in Seq(C)
  PROVE  /\ a \o b \in Seq(C) /\ LettersOf(a) \in Seq(Letters) /\ LettersOf(b) \in Seq(Letters)
         /\ LettersOf(a \o b) = LettersOf(a) \o LettersOf(b)
BY ConcatProperties, LettersTyped, LettersConcat

LettersAddUp(a, b, c, d) ==
  LettersOf(a \o b \o c \o d) = LettersOf(a) \o (LettersOf(b) \o (LettersOf(c) \o LettersOf(d)))

LEMMA LettersOfFour ==
  ASSUME NEW C, NEW a \in Seq(C), NEW b \in Seq(C), NEW c \in Seq(C), NEW d \in Seq(C)
  PROVE  LettersAddUp(a, b, c, d)
<1>1. /\ LettersOf(a) \in Seq(Letters) /\ LettersOf(b) \in Seq(Letters)
      /\ LettersOf(c) \in Seq(Letters) /\ LettersOf(d) \in Seq(Letters)
  BY LettersTyped
<1>2. PICK ab: ab = a \o b
  OBVIOUS
<1>3. ab \in Seq(C) /\ LettersOf(ab) = LettersOf(a) \o LettersOf(b)
  BY <1>2, LettersOfTwo
<1>4. PICK abc: abc = ab \o c
  OBVIOUS
<1>5. abc \in Seq(C) /\ LettersOf(abc) = LettersOf(ab) \o LettersOf(c)
  BY <1>3, <1>4, LettersOfTwo
<1>6. abc \o d \in Seq(C) /\ LettersOf(abc \o d) = LettersOf(abc) \o LettersOf(d)
  BY <1>5, LettersOfTwo
<1>7. LettersOf(a) \o LettersOf(b) \in Seq(Letters) /\ LettersOf(c) \o LettersOf(d) \in Seq(Letters)
  BY <1>1, ConcatProperties
<1>8. /\ Associates(LettersOf(a) \o LettersOf(b), LettersOf(c), LettersOf(d))
      /\ Associates(LettersOf(a), LettersOf(b), LettersOf(c) \o LettersOf(d))
  BY <1>1, <1>7, ConcatAssociates, Zenon
<1> QED
  BY <1>2, <1>3, <1>4, <1>5, <1>6, <1>8, Zenon DEF Associates, LettersAddUp

VariableSets(C) == [name: Seq(C), variables: Seq(Seq(C))]
LongNames(C)    == [short: Seq(C), long: Seq(C)]
VeryLong(C)     == [short: Seq(C), width: 0..MaxU32]
LabelSources    == {"none", VariableLabels} \cup {CountedValues(n): n \in 0..MaxU32}
Kinds7(C)       == [kind: {"MultipleCategory", "MultipleDichotomy"}, counted: Seq(C), labels: LabelSources]
ResponseSets(C) == [name: Seq(C), label: Seq(C), kind: Kinds7(C), variables: Seq(Seq(C))]

(* A piece that parses gives nothing and tells nothing, or gives an item that tells all it tells. *)
ToldByItems(parsed, X, Says(_), letters) ==
  \/ parsed.items = << >> /\ letters = << >>
  \/ \E x \in X: parsed.items = <<x>> /\ LettersOf(Says(x)) = letters

LEMMA LongNameTold ==
  ASSUME NEW C, Replacement \in C, NEW pair \in Seq(C), LongNameOf(pair).ok
  PROVE  ToldByItems(LongNameOf(pair), LongNames(C), LAMBDA x: x.short \o x.long, Told(pair))
<1> DEFINE end == Find(pair, "=")
           item == LongVariableName(Text(Before(pair, end)), Text(After(pair, end)))
<1>1. CASE pair = << >>
  <2>1. LongNameOf(pair).items = << >>
    BY <1>1 DEF LongNameOf, Parsed
  <2> QED
    BY <1>1, <2>1, ToldNothing DEF ToldByItems
<1>2. CASE pair # << >>
  <2>1. ~(end <= 1 \/ end = Len(pair)) /\ LongNameOf(pair).items = <<item>>
    BY <1>2 DEF LongNameOf, Malformed, Parsed
  <2>2. end # 0 /\ "=" \in Grammar
    BY <2>1 DEF Grammar
  <2>3. /\ Before(pair, end) \in Seq(C) /\ After(pair, end) \in Seq(C)
        /\ Told(pair) = Told(Before(pair, end)) \o Told(After(pair, end))
    BY <2>2, ToldAroundFound
  <2>4. Text(Before(pair, end)) \in Seq(C) /\ Text(After(pair, end)) \in Seq(C)
    BY <2>3, TextTyped
  <2>5. item \in LongNames(C)
    BY <2>4 DEF LongNames, LongVariableName
  <2>6. LettersOf(item.short \o item.long) = Told(pair)
    <3>1. item.short = Text(Before(pair, end)) /\ item.long = Text(After(pair, end))
      BY DEF LongVariableName
    <3> QED
      BY <2>3, <2>4, <3>1, LettersConcat DEF Told
  <2> QED
    BY <2>1, <2>5, <2>6 DEF ToldByItems
<1> QED
  BY <1>1, <1>2

LEMMA WidthTold ==
  ASSUME NEW C, Replacement \in C, NEW padded \in Seq(C), WidthOf(padded).ok
  PROVE  ToldByItems(WidthOf(padded), VeryLong(C), LAMBDA x: x.short, Told(padded))
<1> DEFINE pair == TrimEnd(padded, {NUL})
           end  == Find(pair, "=")
           columns == Decimal(After(pair, end))
           item == VeryLongString(Text(Before(pair, end)), columns)
<1>1. pair \in Seq(C) /\ Told(pair) = Told(padded)
  <2>1. {NUL} \in SUBSET Grammar
    BY DEF Grammar
  <2> QED
    BY <2>1, ToldWithoutPads
<1> HIDE DEF pair
<1>2. CASE pair = << >>
  <2>1. WidthOf(padded).items = << >>
    BY <1>2 DEF WidthOf, Parsed, pair
  <2> QED
    BY <1>1, <1>2, <2>1, ToldNothing DEF ToldByItems
<1>3. CASE pair # << >>
  <2>1. ~(end <= 1) /\ columns # NotANumber /\ WidthOf(padded).items = <<item>>
    BY <1>3 DEF WidthOf, Malformed, Parsed, pair
  <2>2. end # 0 /\ "=" \in Grammar
    BY <2>1 DEF Grammar
  <2>3. /\ Before(pair, end) \in Seq(C) /\ After(pair, end) \in Seq(C)
        /\ Told(pair) = Told(Before(pair, end)) \o Told(After(pair, end))
    BY <1>1, <2>2, ToldAroundFound
  <2>4. columns \in 0..MaxU32 /\ Told(After(pair, end)) = << >>
    BY <2>1, <2>3, DecimalRead, GrammarTellsNothing
  <2>5. Text(Before(pair, end)) \in Seq(C) /\ Told(Before(pair, end)) \in Seq(Letters)
    BY <2>3, TextTyped, ToldTyped
  <2>6. item \in VeryLong(C) /\ item.short = Text(Before(pair, end))
    BY <2>4, <2>5 DEF VeryLong, VeryLongString
  <2>7. LettersOf(item.short) = Told(padded)
    BY <1>1, <2>3, <2>4, <2>5, <2>6, ConcatEmptySeq DEF Told
  <2> QED
    BY <2>1, <2>6, <2>7 DEF ToldByItems
<1> QED
  BY <1>2, <1>3

LEMMA MembersTold ==
  ASSUME NEW C, Replacement \in C, NEW bytes \in Seq(C)
  PROVE  Members(bytes) \in Seq(Seq(C)) /\ LettersOf(FlattenSeq(Members(bytes))) = Told(bytes)
<1>1. CASE bytes # << >> /\ Head(bytes) = SPACE
  <2>1. Members(bytes) = Tokens(Tail(bytes))
    BY <1>1 DEF Members
  <2>2. Head(bytes) \in Grammar
    BY <1>1 DEF Grammar
  <2>3. Tail(bytes) \in Seq(C) /\ Told(Tail(bytes)) = Told(bytes)
    BY <1>1, <2>2, ToldAfterHead
  <2> QED
    BY <2>1, <2>3, TokensTold
<1>2. CASE ~(bytes # << >> /\ Head(bytes) = SPACE)
  <2>1. Members(bytes) = Tokens(bytes)
    BY <1>2 DEF Members
  <2> QED
    BY <2>1, TokensTold
<1> QED
  BY <1>1, <1>2

LEMMA VariableSetTold ==
  ASSUME NEW C, Replacement \in C, NEW line \in Seq(C), VariableSetOf(line).ok
  PROVE  ToldByItems(VariableSetOf(line), VariableSets(C), LAMBDA x: x.name \o FlattenSeq(x.variables), Told(line))
<1> DEFINE set == IF line # << >> /\ Last(line) = CR THEN Front(line) ELSE line
           end == Find(set, "=")
           item == VariableSet(Text(Before(set, end)), Members(After(set, end)))
<1>1. set \in Seq(C) /\ Told(set) = Told(line)
  <2>1. CASE line # << >> /\ Last(line) = CR
    <3>1. Last(line) \in Grammar
      BY <2>1 DEF Grammar
    <3> QED
      BY <2>1, <3>1, ToldBeforeLast
  <2>2. CASE ~(line # << >> /\ Last(line) = CR)
    BY <2>2
  <2> QED
    BY <2>1, <2>2
<1> HIDE DEF set
<1>2. CASE set = << >>
  <2>1. VariableSetOf(line).items = << >>
    BY <1>2 DEF VariableSetOf, Parsed, set
  <2> QED
    BY <1>1, <1>2, <2>1, ToldNothing DEF ToldByItems
<1>3. CASE set # << >>
  <2>1. ~(end <= 1) /\ VariableSetOf(line).items = <<item>>
    BY <1>3 DEF VariableSetOf, Malformed, Parsed, set
  <2>2. end # 0 /\ "=" \in Grammar
    BY <2>1 DEF Grammar
  <2>3. /\ Before(set, end) \in Seq(C) /\ After(set, end) \in Seq(C)
        /\ Told(set) = Told(Before(set, end)) \o Told(After(set, end))
    BY <1>1, <2>2, ToldAroundFound
  <2> DEFINE name == Text(Before(set, end))
             members == Members(After(set, end))
  <2>4. name \in Seq(C) /\ members \in Seq(Seq(C)) /\ LettersOf(FlattenSeq(members)) = Told(After(set, end))
    BY <2>3, TextTyped, MembersTold
  <2>5. item \in VariableSets(C) /\ item.name = name /\ item.variables = members
    BY <2>4 DEF VariableSets, VariableSet
  <2>6. LettersOf(name \o FlattenSeq(members)) = LettersOf(name) \o LettersOf(FlattenSeq(members))
    BY <2>4, FlattenTyped, LettersConcat
  <2>7. LettersOf(item.name \o FlattenSeq(item.variables)) = Told(line)
    BY <1>1, <2>3, <2>4, <2>5, <2>6 DEF Told
  <2> QED
    BY <2>1, <2>5, <2>7 DEF ToldByItems
<1> QED
  BY <1>2, <1>3

-----------------------------------------------------------------------------------
(* The pieces of a multiple response set *)

(* Two characters of the grammar, one after the other. *)
LEMMA ToldAroundTwo ==
  ASSUME NEW C, Replacement \in C, NEW bytes \in Seq(C), NEW p \in 1..Len(bytes), p + 1 \in 1..Len(bytes),
         bytes[p] \in Grammar, bytes[p + 1] \in Grammar
  PROVE  /\ Before(bytes, p) \in Seq(C) /\ After(bytes, p + 1) \in Seq(C)
         /\ Told(bytes) = Told(Before(bytes, p)) \o Told(After(bytes, p + 1))
<1> DEFINE front == Before(bytes, p)
           two == Before(bytes, p + 1)
<1>1. Told(bytes) = Told(two) \o Told(After(bytes, p + 1)) /\ After(bytes, p + 1) \in Seq(C) /\ two \in Seq(C)
  BY ToldAround, BeforeAndAfter
<1>2. two = front \o <<bytes[p]>> /\ front \in Seq(C) /\ <<bytes[p]>> \in Seq(C)
  <2>1. front \in Seq(C) /\ <<bytes[p]>> \in Seq(C)
    BY BeforeAndAfter
  <2>2. PICK k \in Nat: p = k + 1 /\ k < Len(bytes)
    <3>1. p - 1 \in Nat /\ p = (p - 1) + 1 /\ p - 1 < Len(bytes)
      OBVIOUS
    <3> QED
      BY <3>1
  <2>3. SubSeq(bytes, 1, k + 1) = Append(SubSeq(bytes, 1, k), bytes[k + 1]) /\ bytes[k + 1] \in C
    BY <2>2, NextSlice
  <2>4. (k + 1) - 1 = k /\ ((k + 1) + 1) - 1 = k + 1
    BY <2>2
  <2>5. front = SubSeq(bytes, 1, k) /\ two = SubSeq(bytes, 1, k + 1)
    BY <2>2, <2>4 DEF Before
  <2>6. two = Append(front, bytes[p]) /\ bytes[p] \in C
    BY <2>2, <2>3, <2>5
  <2> HIDE DEF front, two
  <2> QED
    BY <2>1, <2>6, AppendIsConcat
<1>3. Told(<<bytes[p]>>) = << >>
  <2>1. PICK one: one = <<bytes[p]>>
    OBVIOUS
  <2>2. one \in Seq(C) /\ \A i \in 1..Len(one): one[i] \in Grammar
    <3>1. Len(one) = 1 /\ one[1] = bytes[p]
      BY <2>1
    <3> HIDE DEF Grammar
    <3> QED
      BY <1>2, <2>1, <3>1
  <2> QED
    BY <2>1, <2>2, GrammarTellsNothing
<1> HIDE DEF front, two
<1>4. Told(two) = Told(front) \o << >>
  BY <1>2, <1>3, ToldConcat
<1>5. Told(two) = Told(front)
  BY <1>2, <1>4, ToldTyped, ConcatEmptySeq
<1> QED
  BY <1>1, <1>2, <1>5 DEF front

LEMMA SeparatedTold ==
  ASSUME NEW C, Replacement \in C, NEW bytes \in Seq(C), Separated(bytes).ok
  PROVE  Separated(bytes).rest \in Seq(C) /\ Told(Separated(bytes).rest) = Told(bytes)
<1>1. bytes # << >> /\ Head(bytes) = SPACE /\ Separated(bytes).rest = Tail(bytes)
  BY DEF Separated, Unreadable, Read
<1>2. Head(bytes) \in Grammar
  BY <1>1 DEF Grammar
<1> QED
  BY <1>1, <1>2, ToldAfterHead

(* What was read tells what it took off the bytes. *)
Tells(C, text, after, bytes) ==
  text \in Seq(C) /\ after \in Seq(C) /\ Told(bytes) = LettersOf(text) \o Told(after)

(* A number, up to the space after it, tells nothing. *)
LEMMA NumberTold ==
  ASSUME NEW C, Replacement \in C, NEW bytes \in Seq(C),
         Find(bytes, SPACE) # 0, Decimal(Before(bytes, Find(bytes, SPACE))) # NotANumber
  PROVE  /\ Decimal(Before(bytes, Find(bytes, SPACE))) \in 0..MaxU32
         /\ After(bytes, Find(bytes, SPACE)) \in Seq(C)
         /\ Told(After(bytes, Find(bytes, SPACE))) = Told(bytes)
<1> DEFINE space == Find(bytes, SPACE)
<1>1. SPACE \in Grammar
  BY DEF Grammar
<1>2. /\ Before(bytes, space) \in Seq(C) /\ After(bytes, space) \in Seq(C)
      /\ Told(bytes) = Told(Before(bytes, space)) \o Told(After(bytes, space))
  BY <1>1, ToldAroundFound
<1>3. Decimal(Before(bytes, space)) \in 0..MaxU32 /\ Told(Before(bytes, space)) = << >>
  BY <1>2, DecimalRead, GrammarTellsNothing
<1>4. Told(After(bytes, space)) \in Seq(Letters)
  BY <1>2, ToldTyped
<1> QED
  BY <1>2, <1>3, <1>4, ConcatEmptySeq

LEMMA CountedTold ==
  ASSUME NEW C, Replacement \in C, NEW bytes \in Seq(C), CountedString(bytes).ok
  PROVE  Tells(C, CountedString(bytes).value, CountedString(bytes).rest, bytes)
<1> DEFINE space  == Find(bytes, SPACE)
           length == Decimal(Before(bytes, space))
           left   == After(bytes, space)
           slice  == SubSeq(left, 1, length)
<1>1. /\ space # 0 /\ length # NotANumber /\ ~(length > Len(left))
      /\ CountedString(bytes).value = Text(slice) /\ CountedString(bytes).rest = After(left, length)
  BY DEF CountedString, Unreadable, Read
<1>2. length \in 0..MaxU32 /\ left \in Seq(C) /\ Told(left) = Told(bytes)
  BY <1>1, NumberTold
<1> HIDE DEF length, left, space
<1>3. length \in Nat /\ length <= Len(left)
  BY <1>1, <1>2, WordAssumption
<1>4. slice \in Seq(C) /\ After(left, length) \in Seq(C) /\ left = slice \o After(left, length)
  BY <1>2, <1>3, TwoSlices DEF After
<1> HIDE DEF slice
<1>5. Told(left) = Told(slice) \o Told(After(left, length)) /\ Text(slice) \in Seq(C)
  BY <1>4, ToldConcat, TextTyped
<1> QED
  BY <1>1, <1>2, <1>4, <1>5 DEF Tells, Told

LEMMA CategoryTold ==
  ASSUME NEW C, Replacement \in C, NEW bytes \in Seq(C), CategoryKind(bytes).ok
  PROVE  /\ CategoryKind(bytes).value \in Kinds7(C)
         /\ Tells(C, CategoryKind(bytes).value.counted, CategoryKind(bytes).rest, bytes)
<1>1. /\ Separated(bytes).ok /\ CategoryKind(bytes).value = MultipleCategory
      /\ CategoryKind(bytes).rest = Separated(bytes).rest
  BY DEF CategoryKind, Read
<1>2. Separated(bytes).rest \in Seq(C) /\ Told(Separated(bytes).rest) = Told(bytes)
  BY <1>1, SeparatedTold
<1>3. MultipleCategory \in Kinds7(C) /\ MultipleCategory.counted = << >> /\ << >> \in Seq(C)
  BY DEF MultipleCategory, Kinds7, LabelSources
<1>4. << >> \o Told(bytes) = Told(bytes)
  BY ToldTyped, ConcatEmptySeq
<1> QED
  BY <1>1, <1>2, <1>3, <1>4, LettersOfNothing DEF Tells

LEMMA DichotomyTyped ==
  ASSUME NEW C, NEW text \in Seq(C), NEW source \in LabelSources
  PROVE  MultipleDichotomy(text, source) \in Kinds7(C) /\ MultipleDichotomy(text, source).counted = text
BY DEF MultipleDichotomy, Kinds7

LEMMA VariableLabelsTold ==
  ASSUME NEW C, Replacement \in C, NEW bytes \in Seq(C), VariableLabelsKind(bytes).ok
  PROVE  /\ VariableLabelsKind(bytes).value \in Kinds7(C)
         /\ Tells(C, VariableLabelsKind(bytes).value.counted, VariableLabelsKind(bytes).rest, bytes)
<1> DEFINE counted == CountedString(bytes)
           label == Separated(counted.rest)
<1>1. /\ counted.ok /\ label.ok /\ VariableLabelsKind(bytes).rest = label.rest
      /\ VariableLabelsKind(bytes).value = MultipleDichotomy(counted.value, VariableLabels)
  BY DEF VariableLabelsKind, Unreadable, Read
<1>2. Tells(C, counted.value, counted.rest, bytes)
  BY <1>1, CountedTold
<1> HIDE DEF counted
<1>3. label.rest \in Seq(C) /\ Told(label.rest) = Told(counted.rest)
  BY <1>1, <1>2, SeparatedTold DEF Tells
<1>4. VariableLabels \in LabelSources
  BY DEF LabelSources
<1>5. /\ MultipleDichotomy(counted.value, VariableLabels) \in Kinds7(C)
      /\ MultipleDichotomy(counted.value, VariableLabels).counted = counted.value
  BY <1>2, <1>4, DichotomyTyped DEF Tells
<1> HIDE DEF label
<1> QED
  BY <1>1, <1>2, <1>3, <1>5 DEF Tells

LEMMA CountedValuesTold ==
  ASSUME NEW C, Replacement \in C, NEW bytes \in Seq(C), CountedValuesKind(bytes).ok
  PROVE  /\ CountedValuesKind(bytes).value \in Kinds7(C)
         /\ Tells(C, CountedValuesKind(bytes).value.counted, CountedValuesKind(bytes).rest, bytes)
<1> DEFINE source  == Separated(bytes)
           space   == Find(source.rest, SPACE)
           number  == Decimal(Before(source.rest, space))
           left    == After(source.rest, space)
           counted == CountedString(left)
           label   == Separated(counted.rest)
<1>1. /\ source.ok /\ space # 0 /\ number # NotANumber /\ counted.ok /\ label.ok
      /\ CountedValuesKind(bytes).rest = label.rest
      /\ CountedValuesKind(bytes).value = MultipleDichotomy(counted.value, CountedValues(number))
  BY DEF CountedValuesKind, Unreadable, Read
<1>2. source.rest \in Seq(C) /\ Told(source.rest) = Told(bytes)
  BY <1>1, SeparatedTold
<1> HIDE DEF source
<1>3. number \in 0..MaxU32 /\ left \in Seq(C) /\ Told(left) = Told(source.rest)
  BY <1>1, <1>2, NumberTold
<1> HIDE DEF left, number
<1>4. Tells(C, counted.value, counted.rest, left)
  BY <1>1, <1>3, CountedTold
<1> HIDE DEF counted
<1>5. label.rest \in Seq(C) /\ Told(label.rest) = Told(counted.rest)
  BY <1>1, <1>4, SeparatedTold DEF Tells
<1>6. CountedValues(number) \in LabelSources
  BY <1>3 DEF LabelSources
<1>7. /\ MultipleDichotomy(counted.value, CountedValues(number)) \in Kinds7(C)
      /\ MultipleDichotomy(counted.value, CountedValues(number)).counted = counted.value
  BY <1>4, <1>6, DichotomyTyped DEF Tells
<1> HIDE DEF label
<1> QED
  BY <1>1, <1>2, <1>3, <1>4, <1>5, <1>7 DEF Tells

LEMMA KindTold ==
  ASSUME NEW C, Replacement \in C, NEW bytes \in Seq(C), NEW letter, KindOf(letter, bytes).ok
  PROVE  /\ letter \in Grammar /\ KindOf(letter, bytes).value \in Kinds7(C)
         /\ Tells(C, KindOf(letter, bytes).value.counted, KindOf(letter, bytes).rest, bytes)
<1>1. CASE letter = "C"
  <2>1. KindOf(letter, bytes) = CategoryKind(bytes)
    BY <1>1 DEF KindOf
  <2> QED
    BY <1>1, <2>1, CategoryTold DEF Grammar
<1>2. CASE letter = "D"
  <2>1. KindOf(letter, bytes) = VariableLabelsKind(bytes)
    BY <1>2 DEF KindOf
  <2> QED
    BY <1>2, <2>1, VariableLabelsTold DEF Grammar
<1>3. CASE letter = "E"
  <2>1. KindOf(letter, bytes) = CountedValuesKind(bytes)
    BY <1>3 DEF KindOf
  <2> QED
    BY <1>3, <2>1, CountedValuesTold DEF Grammar
<1>4. CASE letter \notin {"C", "D", "E"}
  <2>1. KindOf(letter, bytes) = Unreadable(bytes)
    BY <1>4 DEF KindOf
  <2> QED
    BY <2>1 DEF Unreadable
<1> QED
  BY <1>1, <1>2, <1>3, <1>4

LEMMA ResponseSetTold ==
  ASSUME NEW C, Replacement \in C, NEW line \in Seq(C), ResponseSetOf(line).ok
  PROVE  ToldByItems(ResponseSetOf(line), ResponseSets(C),
           LAMBDA x: x.name \o x.kind.counted \o x.label \o FlattenSeq(x.variables), Told(line))
<1> DEFINE end   == Find(line, "=")
           body  == After(line, end + 1)
           kind  == KindOf(line[end + 1], body)
           label == CountedString(kind.rest)
           name  == Text(Before(line, end))
           names == Tokens(label.rest)
           item  == ResponseSet(name, label.value, kind.value, names)
<1>1. CASE line = << >>
  <2>1. ResponseSetOf(line).items = << >>
    BY <1>1 DEF ResponseSetOf, Parsed
  <2> QED
    BY <1>1, <2>1, ToldNothing DEF ToldByItems
<1>2. CASE line # << >>
  <2>1. ~(end <= 1 \/ end = Len(line)) /\ kind.ok /\ label.ok /\ ResponseSetOf(line).items = <<item>>
    BY <1>2 DEF ResponseSetOf, Malformed, Parsed
  <2>2. end \in 1..Len(line) /\ line[end] = "=" /\ "=" \in Grammar
    BY <2>1, FoundThere DEF Grammar
  <2> HIDE DEF end
  <2>3. end + 1 \in 1..Len(line)
    BY <2>1, <2>2
  <2>4. body \in Seq(C)
    BY <2>3, BeforeAndAfter
  <2> HIDE DEF body
  <2>5. /\ line[end + 1] \in Grammar /\ kind.value \in Kinds7(C)
        /\ Tells(C, kind.value.counted, kind.rest, body)
    BY <2>1, <2>4, KindTold
  <2>6. Before(line, end) \in Seq(C) /\ Told(line) = Told(Before(line, end)) \o Told(body)
    BY <2>2, <2>3, <2>5, ToldAroundTwo DEF body
  <2> HIDE DEF kind
  <2>7. Tells(C, label.value, label.rest, kind.rest)
    BY <2>1, <2>5, CountedTold DEF Tells
  <2> HIDE DEF label
  <2>8. names \in Seq(Seq(C)) /\ LettersOf(FlattenSeq(names)) = Told(label.rest)
    BY <2>7, TokensTold DEF Tells
  <2>9. name \in Seq(C) /\ FlattenSeq(names) \in Seq(C)
    BY <2>6, <2>8, TextTyped, FlattenTyped
  <2> HIDE DEF names, Kinds7
  <2>10. /\ item \in ResponseSets(C) /\ item.name = name /\ item.kind = kind.value
         /\ item.label = label.value /\ item.variables = names
    BY <2>5, <2>7, <2>8, <2>9 DEF ResponseSets, ResponseSet, Tells
  <2> HIDE DEF item, name
  <2>11. kind.value.counted \in Seq(C) /\ label.value \in Seq(C)
    BY <2>5, <2>7 DEF Tells
  <2>12. LettersOf(name \o kind.value.counted \o label.value \o FlattenSeq(names)) =
           LettersOf(name) \o (LettersOf(kind.value.counted) \o (LettersOf(label.value) \o LettersOf(FlattenSeq(names))))
    <3>1. LettersAddUp(name, kind.value.counted, label.value, FlattenSeq(names))
      BY <2>9, <2>11, LettersOfFour
    <3> QED
      BY <3>1, Zenon DEF LettersAddUp
  <2>13. Told(line) =
           LettersOf(name) \o (LettersOf(kind.value.counted) \o (LettersOf(label.value) \o LettersOf(FlattenSeq(names))))
    BY <2>5, <2>6, <2>7, <2>8 DEF Tells, Told, name
  <2> QED
    BY <2>1, <2>10, <2>12, <2>13 DEF ToldByItems
<1> QED
  BY <1>1, <1>2

-----------------------------------------------------------------------------------
(* What the items of a record tell *)

AttributeSets(C)   == [name: Seq(C), values: Seq(Seq(C))]
VariableRecords(C) == [variable: Seq(C), attributes: Seq(AttributeSets(C))]

ItemSet(type, C) ==
  CASE type = 5 -> VariableSets(C)
    [] type \in Responses -> ResponseSets(C)
    [] type = 13 -> LongNames(C)
    [] type = 14 -> VeryLong(C)
    [] type = 17 -> AttributeSets(C)
    [] type = 18 -> VariableRecords(C)
    [] OTHER -> Seq(C)

Texts(type, xs) == [i \in DOMAIN xs |-> TextOf(type, xs[i])]
Tell(type, xs)  == LettersOf(FlattenSeq(Texts(type, xs)))

NamesOf(list) == [i \in DOMAIN list |-> NamedText(list[i])]

LEMMA NamedTextTyped ==
  ASSUME NEW C, NEW x \in AttributeSets(C)
  PROVE  NamedText(x) \in Seq(C)
<1>1. x.name \in Seq(C) /\ x.values \in Seq(Seq(C))
  BY DEF AttributeSets
<1> QED
  BY <1>1, FlattenTyped, ConcatProperties DEF NamedText

LEMMA NamedTextsTyped ==
  ASSUME NEW C, NEW list \in Seq(AttributeSets(C))
  PROVE  /\ NamesOf(list) \in Seq(Seq(C)) /\ Len(NamesOf(list)) = Len(list)
         /\ NamedTexts(list) = FlattenSeq(NamesOf(list)) /\ NamedTexts(list) \in Seq(C)
<1>1. Len(list) \in Nat /\ DOMAIN list = 1..Len(list)
  OBVIOUS
<1>2. \A i \in 1..Len(list): list[i] \in AttributeSets(C)
  OBVIOUS
<1>3. \A i \in 1..Len(list): NamedText(list[i]) \in Seq(C)
  BY <1>2, NamedTextTyped
<1>4. NamesOf(list) = [i \in 1..Len(list) |-> NamedText(list[i])]
  BY <1>1 DEF NamesOf
<1>5. NamesOf(list) \in Seq(Seq(C)) /\ Len(NamesOf(list)) = Len(list)
  BY <1>1, <1>3, <1>4
<1>6. NamedTexts(list) = FlattenSeq(NamesOf(list))
  BY Zenon DEF NamedTexts, NamesOf
<1> QED
  BY <1>5, <1>6, FlattenTyped

LEMMA TextOfTyped ==
  ASSUME NEW C, NEW type \in TextSubtypes, NEW x \in ItemSet(type, C)
  PROVE  TextOf(type, x) \in Seq(C)
<1>1. CASE type = 5
  <2>1. x.name \in Seq(C) /\ x.variables \in Seq(Seq(C))
    BY <1>1 DEF ItemSet, VariableSets, Responses
  <2>2. x.name \o FlattenSeq(x.variables) \in Seq(C)
    BY <2>1, FlattenTyped, ConcatProperties
  <2> QED
    BY <1>1, <2>2 DEF TextOf, Responses
<1>2. CASE type \in Responses
  <2>1. x \in ResponseSets(C)
    BY <1>2 DEF ItemSet, Responses
  <2>2. x.name \in Seq(C) /\ x.label \in Seq(C) /\ x.variables \in Seq(Seq(C)) /\ x.kind \in Kinds7(C)
    BY <2>1 DEF ResponseSets
  <2>3. x.kind.counted \in Seq(C)
    BY <2>2 DEF Kinds7
  <2>4. x.name \o x.kind.counted \in Seq(C)
    BY <2>2, <2>3, ConcatProperties
  <2>5. x.name \o x.kind.counted \o x.label \in Seq(C)
    BY <2>2, <2>4, ConcatProperties
  <2>6. x.name \o x.kind.counted \o x.label \o FlattenSeq(x.variables) \in Seq(C)
    BY <2>2, <2>5, FlattenTyped, ConcatProperties
  <2> QED
    BY <1>2, <2>6 DEF TextOf, Responses
<1>3. CASE type = 13
  <2>1. x.short \in Seq(C) /\ x.long \in Seq(C)
    BY <1>3 DEF ItemSet, LongNames, Responses
  <2> QED
    BY <1>3, <2>1, ConcatProperties DEF TextOf, Responses
<1>4. CASE type = 14
  BY <1>4 DEF ItemSet, VeryLong, TextOf, Responses
<1>5. CASE type = 17
  <2>1. x \in AttributeSets(C)
    BY <1>5 DEF ItemSet, Responses
  <2>2. TextOf(type, x) = NamedText(x)
    BY <1>5 DEF TextOf, Responses
  <2> QED
    BY <2>1, <2>2, NamedTextTyped
<1>6. CASE type = 18
  <2>1. x \in VariableRecords(C)
    BY <1>6 DEF ItemSet, Responses
  <2>2. x.variable \in Seq(C) /\ x.attributes \in Seq(AttributeSets(C))
    BY <2>1 DEF VariableRecords
  <2>3. TextOf(type, x) = x.variable \o NamedTexts(x.attributes)
    <3>1. ~(type = 5) /\ ~(type \in Responses) /\ ~(type = 13) /\ ~(type = 14) /\ ~(type = 17)
      BY <1>6 DEF Responses
    <3> QED
      BY <1>6, <3>1, Zenon DEF TextOf
  <2>4. NamedTexts(x.attributes) \in Seq(C)
    BY <2>2, NamedTextsTyped
  <2> QED
    BY <2>2, <2>3, <2>4, ConcatProperties
<1>7. CASE type \in WholeText
  BY <1>7 DEF ItemSet, TextOf, Responses, WholeText
<1> QED
  BY <1>1, <1>2, <1>3, <1>4, <1>5, <1>6, <1>7 DEF TextSubtypes, Attributes

LEMMA TextsTyped ==
  ASSUME NEW C, NEW type \in TextSubtypes, NEW xs \in Seq(ItemSet(type, C))
  PROVE  Texts(type, xs) \in Seq(Seq(C)) /\ Len(Texts(type, xs)) = Len(xs)
<1>1. Len(xs) \in Nat /\ DOMAIN xs = 1..Len(xs)
  OBVIOUS
<1>2. \A i \in 1..Len(xs): xs[i] \in ItemSet(type, C)
  OBVIOUS
<1>3. \A i \in 1..Len(xs): TextOf(type, xs[i]) \in Seq(C)
  BY <1>2, TextOfTyped
<1>4. Texts(type, xs) = [i \in 1..Len(xs) |-> TextOf(type, xs[i])]
  BY <1>1 DEF Texts
<1> QED
  BY <1>1, <1>3, <1>4

LEMMA TellTyped ==
  ASSUME NEW C, NEW type \in TextSubtypes, NEW xs \in Seq(ItemSet(type, C))
  PROVE  FlattenSeq(Texts(type, xs)) \in Seq(C) /\ Tell(type, xs) \in Seq(Letters)
BY TextsTyped, FlattenTyped, LettersTyped DEF Tell

(* One more item *)
LEMMA OneMoreTold ==
  ASSUME NEW C, NEW type \in TextSubtypes, NEW xs \in Seq(ItemSet(type, C)), NEW x \in ItemSet(type, C)
  PROVE  /\ Append(xs, x) \in Seq(ItemSet(type, C))
         /\ Tell(type, Append(xs, x)) = Tell(type, xs) \o LettersOf(TextOf(type, x))
<1> DEFINE more == Append(xs, x)
           texts == Texts(type, xs)
           text == TextOf(type, x)
           X == ItemSet(type, C)
<1>1. /\ more \in Seq(X) /\ Len(more) = Len(xs) + 1 /\ Len(xs) \in Nat /\ more[Len(xs) + 1] = x
      /\ DOMAIN xs = 1..Len(xs) /\ DOMAIN more = 1..(Len(xs) + 1) /\ \A i \in 1..Len(xs): more[i] = xs[i]
  <2> HIDE DEF X
  <2>1. xs \in Seq(X) /\ x \in X
    BY DEF X
  <2> QED
    BY <2>1, AppendFacts
<1>2. texts \in Seq(Seq(C)) /\ Len(texts) = Len(xs) /\ text \in Seq(C)
  BY TextsTyped, TextOfTyped
<1> HIDE DEF more
<1>3. /\ DOMAIN Texts(type, more) = 1..(Len(texts) + 1) /\ Texts(type, more)[Len(texts) + 1] = text
      /\ Texts(type, more) = [i \in DOMAIN Texts(type, more) |-> Texts(type, more)[i]]
      /\ \A i \in 1..Len(texts): Texts(type, more)[i] = texts[i]
  <2>1. Len(xs) + 1 \in 1..(Len(xs) + 1) /\ \A i \in 1..Len(xs): i \in 1..(Len(xs) + 1)
    BY <1>1
  <2> HIDE DEF X
  <2> QED
    BY <1>1, <1>2, <2>1 DEF Texts
<1> HIDE DEF text, texts
<1>4. Texts(type, more) = Append(texts, text)
  BY <1>2, <1>3, OneMore
<1>5. FlattenSeq(Texts(type, more)) = FlattenSeq(texts) \o text /\ FlattenSeq(texts) \in Seq(C)
  BY <1>2, <1>4, FlattenAppend, FlattenTyped
<1>6. LettersOf(FlattenSeq(Texts(type, more))) = LettersOf(FlattenSeq(texts)) \o LettersOf(text)
  BY <1>2, <1>5, LettersConcat
<1> QED
  BY <1>1, <1>6 DEF Tell, more, text, texts, X

WithLast(xs, x) == [xs EXCEPT ![Len(xs)] = x]
Continues(more, text, v) == more = text \o v

(* The last item goes on *)
LEMMA LastToldOn ==
  ASSUME NEW C, NEW type \in TextSubtypes, NEW xs \in Seq(ItemSet(type, C)), xs # << >>,
         NEW x \in ItemSet(type, C), NEW v \in Seq(C), Continues(TextOf(type, x), TextOf(type, xs[Len(xs)]), v)
  PROVE  /\ WithLast(xs, x) \in Seq(ItemSet(type, C))
         /\ WithLast(xs, x) # << >> /\ Len(WithLast(xs, x)) = Len(xs)
         /\ WithLast(xs, x)[Len(xs)] = x
         /\ Tell(type, WithLast(xs, x)) = Tell(type, xs) \o LettersOf(v)
<1> DEFINE ys == [xs EXCEPT ![Len(xs)] = x]
           n == Len(xs)
           texts == Texts(type, xs)
           X == ItemSet(type, C)
<1>1. n \in Nat /\ n # 0 /\ n \in 1..n /\ DOMAIN xs = 1..n
  BY EmptySeq
<1>2. /\ ys \in Seq(X) /\ Len(ys) = n /\ ys[n] = x /\ DOMAIN ys = 1..n
      /\ \A i \in 1..n: i # n => ys[i] = xs[i]
  <2> HIDE DEF X
  <2>1. xs \in Seq(X) /\ x \in X
    BY DEF X
  <2>2. DOMAIN ys = 1..n /\ ys[n] = x /\ \A i \in 1..n: i # n => ys[i] = xs[i]
    BY <1>1
  <2>3. \A i \in 1..n: ys[i] \in X
    <3>1. \A i \in 1..n: xs[i] \in X
      BY <1>1, <2>1
    <3> HIDE DEF ys
    <3> QED
      BY <2>1, <2>2, <3>1
  <2>4. ys = [i \in 1..n |-> ys[i]]
    BY <2>2
  <2> HIDE DEF ys, n
  <2> QED
    BY <1>1, <2>2, <2>3, <2>4
<1>3. ys # << >>
  BY <1>1, <1>2
<1>4. texts \in Seq(Seq(C)) /\ Len(texts) = n
  BY TextsTyped
<1>5. texts # << >>
  BY <1>1, <1>4
<1> HIDE DEF ys, X, n
<1>6. Texts(type, ys) = [texts EXCEPT ![Len(texts)] = @ \o v]
  <2>1. Texts(type, ys) = [i \in 1..n |-> TextOf(type, ys[i])]
    BY <1>2 DEF Texts
  <2>2. DOMAIN texts = 1..n /\ \A i \in 1..n: texts[i] = TextOf(type, xs[i])
    BY <1>1 DEF Texts
  <2>3. TextOf(type, ys[n]) = texts[n] \o v
    BY <1>1, <1>2, <2>2 DEF n, Continues
  <2>4. \A i \in 1..n: i # n => TextOf(type, ys[i]) = texts[i]
    BY <1>2, <2>2
  <2>5. texts = [i \in 1..n |-> texts[i]]
    BY <2>2 DEF Texts
  <2> HIDE DEF texts
  <2> QED
    BY <1>1, <1>4, <2>1, <2>2, <2>3, <2>4
<1> HIDE DEF texts
<1>7. FlattenSeq(Texts(type, ys)) = FlattenSeq(texts) \o v /\ FlattenSeq(texts) \in Seq(C)
  BY <1>4, <1>5, <1>6, LastGoesOn, FlattenTyped
<1>8. LettersOf(FlattenSeq(Texts(type, ys))) = LettersOf(FlattenSeq(texts)) \o LettersOf(v)
  BY <1>7, LettersConcat
<1> QED
  BY <1>2, <1>3, <1>8 DEF Tell, WithLast, ys, texts, X, n

(* What the items come to tell the payload no longer has. *)
LEMMA TellsOn ==
  ASSUME NEW C, Replacement \in C, NEW type \in TextSubtypes,
         NEW xs \in Seq(ItemSet(type, C)), NEW old \in Seq(C), NEW new \in Seq(C), NEW more, NEW letters \in Seq(Letters),
         more = Tell(type, xs) \o letters, Told(old) = letters \o Told(new)
  PROVE  more \o Told(new) = Tell(type, xs) \o Told(old)
<1>1. Tell(type, xs) \in Seq(Letters) /\ Told(new) \in Seq(Letters)
  BY TellTyped, ToldTyped
<1> HIDE DEF Letters
<1>2. Associates(Tell(type, xs), letters, Told(new))
  BY <1>1, ConcatAssociates
<1> QED
  BY <1>2 DEF Associates

LEMMA AttributeValueTold ==
  ASSUME NEW C, Replacement \in C, NEW bytes \in Seq(C)
  PROVE  AttributeValue(bytes) \in Seq(C) /\ LettersOf(AttributeValue(bytes)) = Told(bytes)
<1> DEFINE n == Len(bytes)
<1>1. CASE n >= 2 /\ bytes[1] = "'" /\ bytes[n] = "'"
  <2> DEFINE front == Front(bytes)
  <2>1. n \in Nat /\ bytes # << >> /\ Last(bytes) = "'" /\ "'" \in Grammar
    BY <1>1 DEF Last, Grammar
  <2>2. front \in Seq(C) /\ Told(front) = Told(bytes)
    BY <2>1, ToldBeforeLast
  <2>3. n - 1 \in Nat /\ n - 1 <= n /\ 1 \in 1..(n - 1)
    BY <1>1, <2>1
  <2>4. Len(front) = n - 1 /\ \A i \in 1..(n - 1): front[i] = bytes[i]
    BY <2>3, TwoSlices DEF Front
  <2>5. front # << >> /\ Head(front) = "'"
    <3> HIDE DEF front
    <3> QED
      BY <1>1, <2>2, <2>3, <2>4
  <2>6. Tail(front) \in Seq(C) /\ Told(Tail(front)) = Told(front)
    BY <2>1, <2>2, <2>5, ToldAfterHead
  <2>7. Tail(front) = SubSeq(bytes, 2, n - 1)
    <3> HIDE DEF front
    <3>1. Tail(front) = [i \in 1..(n - 2) |-> front[i + 1]]
      <4>1. Tail(front) = [i \in 1..(Len(front) - 1) |-> front[i + 1]]
        <5>1. Tail(front) = SubSeq(front, 2, Len(front))
          BY <2>2, <2>5, TailIsSubSeq
        <5>2. Len(front) \in Nat /\ Len(front) - 1 \in Nat
          BY <2>3, <2>4
        <5>3. SubSeq(front, 2, Len(front)) = [i \in 1..(Len(front) - 1) |-> front[i + 1]]
          BY <5>2
        <5> QED
          BY <5>1, <5>3
      <4>2. Len(front) - 1 = n - 2
        BY <2>1, <2>4
      <4> QED
        BY <4>1, <4>2
    <3>2. SubSeq(bytes, 2, n - 1) = [i \in 1..(n - 2) |-> bytes[i + 1]]
      BY <2>1, <2>3
    <3>3. \A i \in 1..(n - 2): i + 1 \in 1..(n - 1)
      BY <2>1
    <3>4. \A i \in 1..(n - 2): front[i + 1] = bytes[i + 1]
      BY <2>4, <3>3
    <3> QED
      BY <3>1, <3>2, <3>4
  <2>8. AttributeValue(bytes) = Text(Tail(front))
    BY <1>1, <2>7 DEF AttributeValue
  <2> HIDE DEF front
  <2> QED
    BY <2>2, <2>6, <2>8, TextTyped DEF Told
<1>2. CASE ~(n >= 2 /\ bytes[1] = "'" /\ bytes[n] = "'")
  <2>1. AttributeValue(bytes) = Text(bytes)
    BY <1>2 DEF AttributeValue
  <2> QED
    BY <2>1, TextTyped DEF Told
<1> QED
  BY <1>1, <1>2

-----------------------------------------------------------------------------------
(* Whatever was consumed is told by the items *)

AllCharacters == Characters \cup {Replacement}

Accounted ==
  /\ items \in Seq(ItemSet(subtype, AllCharacters))
  /\ Tell(subtype, items) \o Told(rest) = Told(payload)

(* Where the attribute grammar stands. *)
AtItsStage ==
  /\ subtype \in Attributes /\ stage = "values" => items # << >>
  /\ subtype = 18 /\ stage \in {"set", "values"} => items # << >>
  /\ subtype = 18 /\ stage = "values" => items[Len(items)].attributes # << >>

Parses == subtype \in TextSubtypes /\ outcome \in {"opened", "reading", "read"}

LetterInv ==
  Parses =>
    /\ Accounted /\ AtItsStage
    /\ outcome = "read" => rest = << >>
    /\ subtype \in WholeText /\ outcome # "read" => items = << >>

LEMMA MoreCharacters ==
  ASSUME NEW S, NEW s \in Seq(S), NEW e
  PROVE  s \in Seq(S \cup {e})
<1>1. Len(s) \in Nat /\ DOMAIN s = 1..Len(s) /\ \A i \in 1..Len(s): s[i] \in S \cup {e}
  OBVIOUS
<1>2. s = [i \in 1..Len(s) |-> s[i]]
  OBVIOUS
<1> DEFINE T == S \cup {e}
<1>3. \A i \in 1..Len(s): s[i] \in T
  BY <1>1
<1> HIDE DEF T
<1>4. s \in Seq(T)
  BY <1>1, <1>2, <1>3
<1> QED
  BY <1>4 DEF T

LEMMA AllLeft ==
  ASSUME ParserInv
  PROVE  /\ Replacement \in AllCharacters
         /\ rest \in Seq(AllCharacters) /\ payload \in Seq(AllCharacters)
         /\ << >> \in Seq(AllCharacters)
<1>1. rest \in Seq(Characters) /\ payload \in Seq(Characters)
  BY DEF ParserInv
<1> QED
  BY <1>1, MoreCharacters DEF AllCharacters

LEMMA AllCharactersStay == UNCHANGED given => AllCharacters' = AllCharacters /\ subtype' = subtype /\ payload' = payload
BY CharactersStay DEF AllCharacters, given

LEMMA NothingTold ==
  ASSUME NEW C, NEW type
  PROVE  << >> \in Seq(ItemSet(type, C)) /\ Tell(type, << >>) = << >>
<1>1. Texts(type, << >>) = << >>
  BY DEF Texts
<1> QED
  BY <1>1, FlattenEmpty, LettersOfNothing DEF Tell

LEMMA RecordInitLetters == ParserInv /\ RecordInit => LetterInv
<1> SUFFICES ASSUME ParserInv, RecordInit, Parses PROVE LetterInv
  BY DEF LetterInv
<1>1. items = << >> /\ rest = payload /\ outcome = "opened" /\ stage = IF subtype = 18 THEN "group" ELSE "set"
  BY DEF RecordInit
<1>2. items \in Seq(ItemSet(subtype, AllCharacters)) /\ Tell(subtype, items) = << >>
  BY <1>1, NothingTold
<1>3. << >> \o Told(rest) = Told(payload)
  BY <1>1, AllLeft, ToldTyped, ConcatEmptySeq
<1>4. AtItsStage
  BY <1>1 DEF AtItsStage
<1> QED
  BY <1>1, <1>2, <1>3, <1>4 DEF LetterInv, Accounted

(* Other records, and those that end otherwise. *)
LEMMA LeavesLetters ==
  ASSUME UNCHANGED given, subtype \notin TextSubtypes \/ outcome' \notin {"opened", "reading", "read"}
  PROVE  LetterInv'
<1>1. ~Parses'
  BY AllCharactersStay DEF Parses
<1> QED
  BY <1>1 DEF LetterInv

LEMMA StaysLetters ==
  ASSUME ParserInv, LetterInv, UNCHANGED <<given, rest, stage, items, outcome>>
  PROVE  LetterInv'
<1>1. AllCharacters' = AllCharacters /\ subtype' = subtype /\ payload' = payload
  BY AllCharactersStay
<1> QED
  BY <1>1 DEF LetterInv, Accounted, AtItsStage, Parses

LEMMA Accounts ==
  ASSUME ParserInv, Accounted, subtype \in TextSubtypes, UNCHANGED given,
         items' \in Seq(ItemSet(subtype, AllCharacters)), rest' \in Seq(AllCharacters),
         NEW letters \in Seq(Letters),
         Tell(subtype, items') = Tell(subtype, items) \o letters, Told(rest) = letters \o Told(rest')
  PROVE  Accounted'
<1>1. Replacement \in AllCharacters /\ rest \in Seq(AllCharacters)
  BY AllLeft
<1>2. items \in Seq(ItemSet(subtype, AllCharacters)) /\ Tell(subtype, items) \o Told(rest) = Told(payload)
  BY DEF Accounted
<1>3. Tell(subtype, items') \o Told(rest') = Tell(subtype, items) \o Told(rest)
  <2>1. PICK type \in TextSubtypes: type = subtype
    OBVIOUS
  <2>2. PICK C: C = AllCharacters
    OBVIOUS
  <2>3. PICK new \in Seq(C): new = rest'
    BY <2>2
  <2>4. PICK old \in Seq(C): old = rest
    BY <1>1, <2>2
  <2>5. PICK xs \in Seq(ItemSet(type, C)): xs = items
    BY <1>2, <2>1, <2>2
  <2>6. PICK more: more = Tell(subtype, items')
    OBVIOUS
  <2>7. more = Tell(type, xs) \o letters /\ Told(old) = letters \o Told(new) /\ Replacement \in C
    BY <1>1, <2>1, <2>2, <2>3, <2>4, <2>5, <2>6
  <2>8. more \o Told(new) = Tell(type, xs) \o Told(old)
    BY <2>7, TellsOn
  <2> QED
    BY <2>1, <2>3, <2>4, <2>5, <2>6, <2>8
<1>4. AllCharacters' = AllCharacters /\ subtype' = subtype /\ payload' = payload
  BY AllCharactersStay
<1>5. (Tell(subtype, items) \o Told(rest))' = Tell(subtype, items') \o Told(rest')
  BY <1>4 DEF Tell, Told, Texts
<1> QED
  BY <1>2, <1>3, <1>4, <1>5 DEF Accounted

-----------------------------------------------------------------------------------
(* Lines, pairs and whole texts *)

LeftAfter(separator) ==
  LET end == Find(rest, separator) IN IF end = 0 THEN << >> ELSE After(rest, end)

(* What a turn of a loop over pieces takes off is the piece and its separator. *)
LEMMA PieceTold ==
  ASSUME ParserInv, NEW separator \in Grammar
  PROVE  /\ Piece(separator) \in Seq(AllCharacters) /\ LeftAfter(separator) \in Seq(AllCharacters)
         /\ Told(rest) = Told(Piece(separator)) \o Told(LeftAfter(separator))
<1> DEFINE end == Find(rest, separator)
<1>1. Replacement \in AllCharacters /\ rest \in Seq(AllCharacters) /\ << >> \in Seq(AllCharacters)
  BY AllLeft
<1>2. CASE end = 0
  <2>1. Piece(separator) = rest /\ LeftAfter(separator) = << >>
    BY <1>2 DEF Piece, LeftAfter
  <2>2. Told(rest) \o Told(<< >>) = Told(rest)
    BY <1>1, ToldNothing, ToldTyped, ConcatEmptySeq
  <2> QED
    BY <1>1, <2>1, <2>2
<1>3. CASE end # 0
  <2>1. Piece(separator) = Before(rest, end) /\ LeftAfter(separator) = After(rest, end)
    BY <1>3 DEF Piece, LeftAfter
  <2>2. /\ Before(rest, end) \in Seq(AllCharacters) /\ After(rest, end) \in Seq(AllCharacters)
        /\ Told(rest) = Told(Before(rest, end)) \o Told(After(rest, end))
    BY <1>1, <1>3, ToldAroundFound
  <2> HIDE DEF end
  <2> QED
    BY <2>1, <2>2
<1> QED
  BY <1>2, <1>3

LEMMA TurnLetters ==
  ASSUME ParserInv, LetterInv, NEW subtypes, subtypes \cap (Attributes \cup WholeText) = {}, subtypes \subseteq TextSubtypes,
         NEW separator \in Grammar, NEW parsed, Turn(subtypes, separator, parsed),
         parsed.ok => \/ parsed.items = << >> /\ Told(Piece(separator)) = << >>
                      \/ \E x \in ItemSet(subtype, AllCharacters):
                           parsed.items = <<x>> /\ LettersOf(TextOf(subtype, x)) = Told(Piece(separator))
  PROVE  LetterInv'
<1> DEFINE left == LeftAfter(separator)
<1>1. subtype \in subtypes /\ subtype \in TextSubtypes /\ subtype \notin Attributes \cup WholeText /\ outcome = "reading"
  BY DEF Turn, Reading
<1>2. Accounted /\ items \in Seq(ItemSet(subtype, AllCharacters))
  BY <1>1 DEF LetterInv, Parses, Accounted
<1>3. CASE Refuse
  <2>1. UNCHANGED given /\ outcome' = "refused"
    BY <1>3 DEF Refuse
  <2> QED
    BY <2>1, LeavesLetters
<1>4. CASE /\ parsed.ok /\ items' = items \o parsed.items /\ rest' = left
           /\ UNCHANGED <<given, stage, outcome>>
  <2>1. /\ Piece(separator) \in Seq(AllCharacters) /\ left \in Seq(AllCharacters)
        /\ Told(rest) = Told(Piece(separator)) \o Told(left)
    BY PieceTold
  <2> HIDE DEF left
  <2>2. Replacement \in AllCharacters /\ Told(Piece(separator)) \in Seq(Letters) /\ Told(left) \in Seq(Letters)
    BY <2>1, AllLeft, ToldTyped
  <2>3. /\ items' \in Seq(ItemSet(subtype, AllCharacters))
        /\ Tell(subtype, items') = Tell(subtype, items) \o Told(Piece(separator))
    <3>1. CASE parsed.items = << >> /\ Told(Piece(separator)) = << >>
      <4>1. items' = items
        BY <1>2, <1>4, <3>1, ConcatEmptySeq
      <4>2. Tell(subtype, items) \in Seq(Letters)
        BY <1>1, <1>2, TellTyped
      <4> QED
        BY <1>2, <3>1, <4>1, <4>2, ConcatEmptySeq
    <3>2. ASSUME NEW x \in ItemSet(subtype, AllCharacters), parsed.items = <<x>>,
                 LettersOf(TextOf(subtype, x)) = Told(Piece(separator))
          PROVE  /\ items' \in Seq(ItemSet(subtype, AllCharacters))
                 /\ Tell(subtype, items') = Tell(subtype, items) \o Told(Piece(separator))
      <4>1. items' = Append(items, x)
        <5>1. Append(items, x) = items \o <<x>>
          BY <1>2, AppendIsConcat
        <5> QED
          BY <1>4, <3>2, <5>1
      <4>2. /\ Append(items, x) \in Seq(ItemSet(subtype, AllCharacters))
            /\ Tell(subtype, Append(items, x)) = Tell(subtype, items) \o LettersOf(TextOf(subtype, x))
        BY <1>1, <1>2, OneMoreTold
      <4> QED
        BY <3>2, <4>1, <4>2
    <3> QED
      BY <1>4, <3>1, <3>2
  <2>4. Told(rest) = Told(Piece(separator)) \o Told(rest') /\ rest' \in Seq(AllCharacters)
    BY <1>4, <2>1
  <2>5. Accounted'
    BY <1>1, <1>2, <1>4, <2>2, <2>3, <2>4, Accounts
  <2>6. subtype' = subtype /\ outcome' = "reading"
    BY <1>1, <1>4 DEF given
  <2>7. AtItsStage'
    BY <1>1, <2>6 DEF AtItsStage, Attributes
  <2> QED
    BY <1>1, <2>5, <2>6, <2>7 DEF LetterInv
<1> QED
  BY <1>3, <1>4 DEF Turn, LeftAfter

LEMMA SeparatorsInGrammar == LF \in Grammar /\ TAB \in Grammar
BY DEF Grammar

LEMMA VariableSetLetters ==
  ASSUME ParserInv, LetterInv, VariableSetLine
  PROVE  LetterInv'
<1> DEFINE line == Piece(LF)
           parsed == VariableSetOf(line)
<1>1. subtype = 5 /\ Turn({5}, LF, parsed)
  BY DEF VariableSetLine, Turn, Reading
<1>2. line \in Seq(AllCharacters) /\ Replacement \in AllCharacters
  BY SeparatorsInGrammar, PieceTold, AllLeft
<1>3. ItemSet(subtype, AllCharacters) = VariableSets(AllCharacters)
  BY <1>1 DEF ItemSet, Responses
<1>4. \A x \in VariableSets(AllCharacters): TextOf(subtype, x) = x.name \o FlattenSeq(x.variables)
  <2>1. ~(subtype \in Responses) /\ subtype = 5 /\ subtype # 13 /\ subtype # 14 /\ subtype # 17 /\ subtype # 18
    BY <1>1 DEF Responses
  <2> QED
    BY <2>1, Zenon DEF TextOf
<1>5. parsed.ok => ToldByItems(parsed, VariableSets(AllCharacters), LAMBDA x: x.name \o FlattenSeq(x.variables), Told(line))
  BY <1>2, VariableSetTold
<1>6. parsed.ok => \/ parsed.items = << >> /\ Told(line) = << >>
                   \/ \E x \in ItemSet(subtype, AllCharacters):
                        parsed.items = <<x>> /\ LettersOf(TextOf(subtype, x)) = Told(line)
  BY <1>3, <1>4, <1>5, Zenon DEF ToldByItems
<1>7. {5} \cap (Attributes \cup WholeText) = {} /\ {5} \subseteq TextSubtypes
  BY DEF Attributes, WholeText, TextSubtypes
<1> HIDE DEF parsed
<1> QED
  BY <1>1, <1>6, <1>7, SeparatorsInGrammar, TurnLetters

LEMMA ResponseSetLetters ==
  ASSUME ParserInv, LetterInv, ResponseSetLine
  PROVE  LetterInv'
<1> DEFINE line == Piece(LF)
           parsed == ResponseSetOf(line)
<1>1. subtype \in Responses /\ Turn(Responses, LF, parsed)
  BY DEF ResponseSetLine, Turn, Reading
<1>2. line \in Seq(AllCharacters) /\ Replacement \in AllCharacters
  BY SeparatorsInGrammar, PieceTold, AllLeft
<1>3. ItemSet(subtype, AllCharacters) = ResponseSets(AllCharacters)
  BY <1>1 DEF ItemSet, Responses
<1>4. \A x \in ResponseSets(AllCharacters):
        TextOf(subtype, x) = x.name \o x.kind.counted \o x.label \o FlattenSeq(x.variables)
  <2>1. subtype \in Responses /\ subtype # 5 /\ subtype # 13 /\ subtype # 14 /\ subtype # 17 /\ subtype # 18
    BY <1>1 DEF Responses
  <2> QED
    BY <2>1, Zenon DEF TextOf
<1>5. parsed.ok => ToldByItems(parsed, ResponseSets(AllCharacters),
                     LAMBDA x: x.name \o x.kind.counted \o x.label \o FlattenSeq(x.variables), Told(line))
  BY <1>2, ResponseSetTold
<1>6. parsed.ok => \/ parsed.items = << >> /\ Told(line) = << >>
                   \/ \E x \in ItemSet(subtype, AllCharacters):
                        parsed.items = <<x>> /\ LettersOf(TextOf(subtype, x)) = Told(line)
  BY <1>3, <1>4, <1>5, Zenon DEF ToldByItems
<1>7. Responses \cap (Attributes \cup WholeText) = {} /\ Responses \subseteq TextSubtypes
  BY DEF Attributes, WholeText, TextSubtypes, Responses
<1> HIDE DEF parsed
<1> QED
  BY <1>1, <1>6, <1>7, SeparatorsInGrammar, TurnLetters

LEMMA LongNameLetters ==
  ASSUME ParserInv, LetterInv, LongNamePair
  PROVE  LetterInv'
<1> DEFINE pair == Piece(TAB)
           parsed == LongNameOf(pair)
<1>1. subtype = 13 /\ Turn({13}, TAB, parsed)
  BY DEF LongNamePair, Turn, Reading
<1>2. pair \in Seq(AllCharacters) /\ Replacement \in AllCharacters
  BY SeparatorsInGrammar, PieceTold, AllLeft
<1>3. ItemSet(subtype, AllCharacters) = LongNames(AllCharacters)
  BY <1>1 DEF ItemSet, Responses
<1>4. \A x \in LongNames(AllCharacters): TextOf(subtype, x) = x.short \o x.long
  <2>1. ~(subtype \in Responses) /\ subtype # 5 /\ subtype = 13 /\ subtype # 14 /\ subtype # 17 /\ subtype # 18
    BY <1>1 DEF Responses
  <2> QED
    BY <2>1, Zenon DEF TextOf
<1>5. parsed.ok => ToldByItems(parsed, LongNames(AllCharacters), LAMBDA x: x.short \o x.long, Told(pair))
  BY <1>2, LongNameTold
<1>6. parsed.ok => \/ parsed.items = << >> /\ Told(pair) = << >>
                   \/ \E x \in ItemSet(subtype, AllCharacters):
                        parsed.items = <<x>> /\ LettersOf(TextOf(subtype, x)) = Told(pair)
  BY <1>3, <1>4, <1>5, Zenon DEF ToldByItems
<1>7. {13} \cap (Attributes \cup WholeText) = {} /\ {13} \subseteq TextSubtypes
  BY DEF Attributes, WholeText, TextSubtypes
<1> HIDE DEF parsed
<1> QED
  BY <1>1, <1>6, <1>7, SeparatorsInGrammar, TurnLetters

LEMMA WidthLetters ==
  ASSUME ParserInv, LetterInv, VeryLongPair
  PROVE  LetterInv'
<1> DEFINE pair == Piece(TAB)
           parsed == WidthOf(pair)
<1>1. subtype = 14 /\ Turn({14}, TAB, parsed)
  BY DEF VeryLongPair, Turn, Reading
<1>2. pair \in Seq(AllCharacters) /\ Replacement \in AllCharacters
  BY SeparatorsInGrammar, PieceTold, AllLeft
<1>3. ItemSet(subtype, AllCharacters) = VeryLong(AllCharacters)
  BY <1>1 DEF ItemSet, Responses
<1>4. \A x \in VeryLong(AllCharacters): TextOf(subtype, x) = x.short
  <2>1. ~(subtype \in Responses) /\ subtype # 5 /\ subtype # 13 /\ subtype = 14 /\ subtype # 17 /\ subtype # 18
    BY <1>1 DEF Responses
  <2> QED
    BY <2>1, Zenon DEF TextOf
<1>5. parsed.ok => ToldByItems(parsed, VeryLong(AllCharacters), LAMBDA x: x.short, Told(pair))
  BY <1>2, WidthTold
<1>6. parsed.ok => \/ parsed.items = << >> /\ Told(pair) = << >>
                   \/ \E x \in ItemSet(subtype, AllCharacters):
                        parsed.items = <<x>> /\ LettersOf(TextOf(subtype, x)) = Told(pair)
  BY <1>3, <1>4, <1>5, Zenon DEF ToldByItems
<1>7. {14} \cap (Attributes \cup WholeText) = {} /\ {14} \subseteq TextSubtypes
  BY DEF Attributes, WholeText, TextSubtypes
<1> HIDE DEF parsed
<1> QED
  BY <1>1, <1>6, <1>7, SeparatorsInGrammar, TurnLetters

LEMMA EndOfPiecesLetters ==
  ASSUME ParserInv, LetterInv, EndOfPieces
  PROVE  LetterInv'
<1>1. /\ outcome = "reading" /\ outcome' = "read" /\ rest = << >> /\ UNCHANGED <<given, rest, stage, items>>
      /\ subtype \in {5, 13, 14} \cup Responses
  BY DEF EndOfPieces, Reading
<1>2. AllCharacters' = AllCharacters /\ subtype' = subtype /\ payload' = payload
  BY <1>1, AllCharactersStay
<1>3. subtype \in TextSubtypes
  BY <1>1 DEF TextSubtypes
<1>4. Parses
  BY <1>1, <1>3 DEF Parses
<1>5. Accounted /\ AtItsStage
  BY <1>4 DEF LetterInv
<1>6. Accounted' /\ AtItsStage'
  BY <1>1, <1>2, <1>5 DEF Accounted, AtItsStage
<1> QED
  BY <1>1, <1>6 DEF LetterInv

LEMMA TakeAllLetters ==
  ASSUME ParserInv, LetterInv, NEW subtypes \in SUBSET WholeText, NEW text \in Seq(AllCharacters),
         LettersOf(text) = Told(rest), TakeAll(subtypes, text)
  PROVE  LetterInv'
<1>1. /\ outcome = "reading" /\ subtype \in WholeText /\ subtype \in TextSubtypes
      /\ items' = <<text>> /\ rest' = << >> /\ outcome' = "read" /\ UNCHANGED <<given, stage>>
  BY DEF TakeAll, Reading, TextSubtypes
<1>2. Accounted /\ items = << >>
  BY <1>1 DEF LetterInv, Parses
<1>3. Replacement \in AllCharacters /\ rest \in Seq(AllCharacters) /\ << >> \in Seq(AllCharacters)
  BY AllLeft
<1>4. ItemSet(subtype, AllCharacters) = Seq(AllCharacters) /\ TextOf(subtype, text) = text
  <2>1. /\ ~(subtype \in Responses) /\ subtype # 5 /\ subtype # 13 /\ subtype # 14
        /\ subtype # 17 /\ subtype # 18
    BY <1>1 DEF Responses, WholeText
  <2> QED
    BY <2>1, Zenon DEF TextOf, ItemSet
<1>5. items \in Seq(ItemSet(subtype, AllCharacters)) /\ Append(items, text) = <<text>>
  BY <1>2, NothingTold
<1>6. /\ items' \in Seq(ItemSet(subtype, AllCharacters))
      /\ Tell(subtype, items') = Tell(subtype, items) \o Told(rest)
  <2>1. text \in ItemSet(subtype, AllCharacters)
    BY <1>4
  <2>2. /\ Append(items, text) \in Seq(ItemSet(subtype, AllCharacters))
        /\ Tell(subtype, Append(items, text)) = Tell(subtype, items) \o LettersOf(TextOf(subtype, text))
    BY <1>1, <1>5, <2>1, OneMoreTold
  <2> QED
    BY <1>1, <1>4, <1>5, <2>2
<1>7. Told(rest) \in Seq(Letters) /\ Told(rest) = Told(rest) \o Told(rest') /\ rest' \in Seq(AllCharacters)
  BY <1>1, <1>3, ToldTyped, ToldNothing, ConcatEmptySeq
<1>8. Accounted'
  BY <1>1, <1>2, <1>6, <1>7, Accounts
<1>9. subtype' = subtype
  BY <1>1 DEF given
<1>10. AtItsStage'
  BY <1>1, <1>9 DEF AtItsStage, Attributes, WholeText
<1> QED
  BY <1>1, <1>8, <1>9, <1>10 DEF LetterInv

LEMMA WholeTextLetters ==
  ASSUME ParserInv, LetterInv, ExtraProductInfo \/ Uuid \/ CharacterEncoding
  PROVE  LetterInv'
<1>1. Replacement \in AllCharacters /\ rest \in Seq(AllCharacters)
  BY AllLeft
<1>2. Text(rest) \in Seq(AllCharacters) /\ LettersOf(Text(rest)) = Told(rest)
  BY <1>1, TextTyped DEF Told
<1>3. CASE ExtraProductInfo \/ Uuid
  BY <1>2, <1>3, TakeAllLetters DEF ExtraProductInfo, Uuid, WholeText
<1>4. CASE CharacterEncoding
  <2> DEFINE label == TrimEnd(rest, {SPACE, NUL})
  <2>1. {SPACE, NUL} \in SUBSET Grammar
    BY DEF Grammar
  <2>2. label \in Seq(AllCharacters) /\ Told(label) = Told(rest)
    BY <1>1, <2>1, ToldWithoutPads
  <2> HIDE DEF label
  <2>3. Text(label) \in Seq(AllCharacters) /\ LettersOf(Text(label)) = Told(rest)
    BY <1>1, <2>2, TextTyped DEF Told
  <2> QED
    BY <1>4, <2>3, TakeAllLetters DEF CharacterEncoding, WholeText, label
<1> QED
  BY <1>3, <1>4

-----------------------------------------------------------------------------------
(* The attribute grammar *)

LEMMA ValueAdded ==
  ASSUME NEW C, NEW x \in AttributeSets(C), NEW v \in Seq(C)
  PROVE  /\ [x EXCEPT !.values = Append(@, v)] \in AttributeSets(C)
         /\ Continues(NamedText([x EXCEPT !.values = Append(@, v)]), NamedText(x), v)
<1> DEFINE more == Append(x.values, v)
           y == [x EXCEPT !.values = more]
<1>1. x.name \in Seq(C) /\ x.values \in Seq(Seq(C))
  BY DEF AttributeSets
<1>2. more \in Seq(Seq(C))
  <2> DEFINE T == Seq(C)
  <2>1. x.values \in Seq(T) /\ v \in T
    BY <1>1
  <2> HIDE DEF T
  <2>2. Append(x.values, v) \in Seq(T)
    BY <2>1, AppendProperties
  <2> QED
    BY <2>2 DEF T
<1> HIDE DEF more
<1>3. y \in AttributeSets(C)
  BY <1>2 DEF AttributeSets
<1>4. y.name = x.name /\ y.values = more
  BY DEF AttributeSets
<1> HIDE DEF y
<1>5. FlattenSeq(y.values) = FlattenSeq(x.values) \o v /\ FlattenSeq(x.values) \in Seq(C)
  BY <1>1, <1>4, FlattenAppend, FlattenTyped DEF more
<1>6. Associates(x.name, FlattenSeq(x.values), v)
  BY <1>1, <1>5, ConcatAssociates
<1>7. NamedText(y) = NamedText(x) \o v
  BY <1>4, <1>5, <1>6, Zenon DEF NamedText, Associates
<1>8. y = [x EXCEPT !.values = Append(@, v)]
  BY DEF y, more
<1> QED
  BY <1>3, <1>7, <1>8 DEF Continues

LEMMA TextOfRecord ==
  ASSUME NEW C, NEW r \in VariableRecords(C)
  PROVE  /\ r.variable \in Seq(C) /\ r.attributes \in Seq(AttributeSets(C))
         /\ NamedTexts(r.attributes) \in Seq(C)
         /\ TextOf(18, r) = r.variable \o NamedTexts(r.attributes)
<1>1. r.variable \in Seq(C) /\ r.attributes \in Seq(AttributeSets(C))
  BY DEF VariableRecords
<1>2. ~(18 = 5) /\ ~(18 \in Responses) /\ ~(18 = 13) /\ ~(18 = 14) /\ ~(18 = 17)
  BY DEF Responses
<1>3. TextOf(18, r) = r.variable \o NamedTexts(r.attributes)
  BY <1>2, Zenon DEF TextOf
<1> QED
  BY <1>1, <1>3, NamedTextsTyped

(* A record whose attributes tell more. *)
WithAttributes(r, list) == [r EXCEPT !.attributes = list]

LEMMA RecordToldOn ==
  ASSUME NEW C, NEW r \in VariableRecords(C), NEW list \in Seq(AttributeSets(C)), NEW v \in Seq(C),
         Continues(NamedTexts(list), NamedTexts(r.attributes), v)
  PROVE  /\ WithAttributes(r, list) \in VariableRecords(C)
         /\ WithAttributes(r, list).attributes = list
         /\ Continues(TextOf(18, WithAttributes(r, list)), TextOf(18, r), v)
<1> DEFINE s == [r EXCEPT !.attributes = list]
<1>1. s \in VariableRecords(C) /\ s.attributes = list /\ s.variable = r.variable
  BY DEF VariableRecords
<1> HIDE DEF s
<1>2. /\ r.variable \in Seq(C) /\ NamedTexts(r.attributes) \in Seq(C)
      /\ TextOf(18, r) = r.variable \o NamedTexts(r.attributes)
      /\ TextOf(18, s) = s.variable \o NamedTexts(s.attributes)
  BY <1>1, TextOfRecord
<1>3. Associates(r.variable, NamedTexts(r.attributes), v)
  BY <1>2, ConcatAssociates
<1>4. TextOf(18, s) = TextOf(18, r) \o v
  BY <1>1, <1>2, <1>3, Zenon DEF Associates, Continues
<1> QED
  BY <1>1, <1>4 DEF WithAttributes, Continues, s

LEMMA AttributeAdded ==
  ASSUME NEW C, NEW list \in Seq(AttributeSets(C)), NEW x \in AttributeSets(C)
  PROVE  /\ Append(list, x) \in Seq(AttributeSets(C)) /\ Append(list, x) # << >>
         /\ NamedTexts(Append(list, x)) = NamedTexts(list) \o NamedText(x)
<1> DEFINE more == Append(list, x)
           names == NamesOf(list)
           name == NamedText(x)
           X == AttributeSets(C)
<1>1. /\ more \in Seq(X) /\ Len(more) = Len(list) + 1 /\ Len(list) \in Nat /\ more[Len(list) + 1] = x
      /\ DOMAIN list = 1..Len(list) /\ DOMAIN more = 1..(Len(list) + 1) /\ more # << >>
      /\ \A i \in 1..Len(list): more[i] = list[i]
  <2> HIDE DEF X
  <2>1. list \in Seq(X) /\ x \in X
    BY DEF X
  <2> QED
    BY <2>1, AppendFacts, AppendProperties
<1>2. names \in Seq(Seq(C)) /\ Len(names) = Len(list) /\ name \in Seq(C)
  BY NamedTextsTyped, NamedTextTyped
<1> HIDE DEF more
<1>3. /\ DOMAIN NamesOf(more) = 1..(Len(names) + 1) /\ NamesOf(more)[Len(names) + 1] = name
      /\ NamesOf(more) = [i \in DOMAIN NamesOf(more) |-> NamesOf(more)[i]]
      /\ \A i \in 1..Len(names): NamesOf(more)[i] = names[i]
  <2>1. Len(list) + 1 \in 1..(Len(list) + 1) /\ \A i \in 1..Len(list): i \in 1..(Len(list) + 1)
    BY <1>1
  <2> HIDE DEF X
  <2> QED
    BY <1>1, <1>2, <2>1 DEF NamesOf
<1> HIDE DEF name, names
<1>4. NamesOf(more) = Append(names, name)
  BY <1>2, <1>3, OneMore
<1>5. FlattenSeq(NamesOf(more)) = FlattenSeq(names) \o name
  BY <1>2, <1>4, FlattenAppend
<1> QED
  BY <1>1, <1>5, NamedTextsTyped DEF more, name, names, X

LEMMA AttributeToldOn ==
  ASSUME NEW C, NEW list \in Seq(AttributeSets(C)), list # << >>, NEW v \in Seq(C),
         NEW x \in AttributeSets(C), Continues(NamedText(x), NamedText(list[Len(list)]), v)
  PROVE  /\ WithLast(list, x) \in Seq(AttributeSets(C)) /\ WithLast(list, x) # << >>
         /\ Continues(NamedTexts(WithLast(list, x)), NamedTexts(list), v)
<1> DEFINE ys == [list EXCEPT ![Len(list)] = x]
           n == Len(list)
           names == NamesOf(list)
           X == AttributeSets(C)
<1>1. n \in Nat /\ n # 0 /\ n \in 1..n /\ DOMAIN list = 1..n
  BY EmptySeq
<1>2. /\ ys \in Seq(X) /\ Len(ys) = n /\ ys[n] = x /\ DOMAIN ys = 1..n
      /\ \A i \in 1..n: i # n => ys[i] = list[i]
  <2> HIDE DEF X
  <2>1. list \in Seq(X) /\ x \in X
    BY DEF X
  <2>2. DOMAIN ys = 1..n /\ ys[n] = x /\ \A i \in 1..n: i # n => ys[i] = list[i]
    BY <1>1
  <2>3. \A i \in 1..n: ys[i] \in X
    <3>1. \A i \in 1..n: list[i] \in X
      BY <1>1, <2>1
    <3> HIDE DEF ys
    <3> QED
      BY <2>1, <2>2, <3>1
  <2>4. ys = [i \in 1..n |-> ys[i]]
    BY <2>2
  <2> HIDE DEF ys, n
  <2> QED
    BY <1>1, <2>2, <2>3, <2>4
<1>3. ys # << >>
  BY <1>1, <1>2
<1>4. names \in Seq(Seq(C)) /\ Len(names) = n
  BY NamedTextsTyped
<1>5. names # << >>
  BY <1>1, <1>4
<1> HIDE DEF ys, X, n
<1>6. NamesOf(ys) = [names EXCEPT ![Len(names)] = @ \o v]
  <2>1. NamesOf(ys) = [i \in 1..n |-> NamedText(ys[i])]
    BY <1>2 DEF NamesOf
  <2>2. DOMAIN names = 1..n /\ \A i \in 1..n: names[i] = NamedText(list[i])
    BY <1>1 DEF NamesOf
  <2>3. NamedText(ys[n]) = names[n] \o v
    BY <1>1, <1>2, <2>2 DEF n, Continues
  <2>4. \A i \in 1..n: i # n => NamedText(ys[i]) = names[i]
    BY <1>2, <2>2
  <2>5. names = [i \in 1..n |-> names[i]]
    BY <2>2 DEF NamesOf
  <2> HIDE DEF names
  <2> QED
    BY <1>1, <1>4, <2>1, <2>2, <2>3, <2>4
<1> HIDE DEF names
<1>7. FlattenSeq(NamesOf(ys)) = FlattenSeq(names) \o v
  BY <1>4, <1>5, <1>6, LastGoesOn
<1> QED
  BY <1>2, <1>3, <1>7, NamedTextsTyped DEF Continues, WithLast, ys, names, X, n

LEMMA ItemSetsOfAttributes ==
  ASSUME NEW C
  PROVE  ItemSet(17, C) = AttributeSets(C) /\ ItemSet(18, C) = VariableRecords(C)
BY DEF ItemSet, Responses

LEMMA NameLetters ==
  ASSUME ParserInv, LetterInv, subtype \in Attributes, outcome = "reading",
         NEW terminator \in Grammar, NEW next, NEW named, Name(terminator, next, named),
         Find(rest, terminator) > 1 =>
           /\ named \in Seq(ItemSet(subtype, AllCharacters)) /\ named # << >>
           /\ Tell(subtype, named) = Tell(subtype, items) \o LettersOf(UpTo(terminator))
           /\ subtype = 18 /\ next = "values" => named[Len(named)].attributes # << >>
  PROVE  LetterInv'
<1> DEFINE end == Find(rest, terminator)
<1>1. CASE Refuse
  <2>1. UNCHANGED given /\ outcome' = "refused"
    BY <1>1 DEF Refuse
  <2> QED
    BY <2>1, LeavesLetters
<1>2. CASE /\ end > 1 /\ items' = named /\ rest' = After(rest, end) /\ stage' = next
           /\ UNCHANGED <<given, outcome>>
  <2>1. subtype \in TextSubtypes /\ Accounted
    BY DEF LetterInv, Parses, TextSubtypes
  <2>2. Replacement \in AllCharacters /\ rest \in Seq(AllCharacters)
    BY AllLeft
  <2>3. end # 0
    BY <1>2
  <2>4. /\ Before(rest, end) \in Seq(AllCharacters) /\ After(rest, end) \in Seq(AllCharacters)
        /\ Told(rest) = Told(Before(rest, end)) \o Told(After(rest, end))
    BY <2>2, <2>3, ToldAroundFound
  <2>5. LettersOf(UpTo(terminator)) = Told(Before(rest, end)) /\ Told(Before(rest, end)) \in Seq(Letters)
    BY <2>2, <2>4, ToldTyped DEF UpTo, Told
  <2>6. /\ items' \in Seq(ItemSet(subtype, AllCharacters)) /\ items' # << >>
        /\ Tell(subtype, items') = Tell(subtype, items) \o Told(Before(rest, end))
        /\ subtype = 18 /\ next = "values" => items'[Len(items')].attributes # << >>
    BY <1>2, <2>5
  <2> HIDE DEF end
  <2>7. Told(rest) = Told(Before(rest, end)) \o Told(rest') /\ rest' \in Seq(AllCharacters) /\ UNCHANGED given
    BY <1>2, <2>4
  <2>8. Accounted'
    BY <2>1, <2>5, <2>6, <2>7, Accounts
  <2>9. subtype' = subtype /\ stage' = next /\ outcome' = "reading"
    BY <1>2 DEF given
  <2>10. AtItsStage'
    BY <2>6, <2>9 DEF AtItsStage
  <2>11. subtype \notin WholeText
    BY DEF Attributes, WholeText
  <2> QED
    BY <2>8, <2>9, <2>10, <2>11 DEF LetterInv
<1> QED
  BY <1>1, <1>2 DEF Name

LEMMA UpToTyped ==
  ASSUME ParserInv, NEW terminator \in Grammar, Find(rest, terminator) > 1
  PROVE  UpTo(terminator) \in Seq(AllCharacters)
<1>1. Replacement \in AllCharacters /\ rest \in Seq(AllCharacters) /\ Find(rest, terminator) # 0
  BY AllLeft
<1>2. Before(rest, Find(rest, terminator)) \in Seq(AllCharacters)
  BY <1>1, ToldAroundFound
<1> QED
  BY <1>1, <1>2, TextTyped DEF UpTo

LEMMA VariableNameLetters ==
  ASSUME ParserInv, LetterInv, VariableName
  PROVE  LetterInv'
<1> DEFINE C == AllCharacters
           name == UpTo(":")
           record == AttributeRecord(name, << >>)
           named == Append(items, record)
<1>1. subtype = 18 /\ outcome = "reading" /\ Name(":", "set", named)
  BY DEF VariableName, Reading
<1>2. subtype \in Attributes /\ 18 \in TextSubtypes /\ ":" \in Grammar
  BY <1>1 DEF Attributes, TextSubtypes, Grammar
<1>3. items \in Seq(ItemSet(18, C))
  BY <1>1, <1>2 DEF LetterInv, Parses, Accounted
<1>4. ASSUME Find(rest, ":") > 1
      PROVE  named \in Seq(ItemSet(18, C)) /\ named # << >> /\ Tell(18, named) = Tell(18, items) \o LettersOf(name)
  <2>1. name \in Seq(C)
    BY <1>2, <1>4, UpToTyped
  <2> HIDE DEF C, name
  <2>2. record \in VariableRecords(C) /\ record.variable = name /\ record.attributes = << >>
    <3>1. << >> \in Seq(AttributeSets(C))
      OBVIOUS
    <3> HIDE DEF AttributeSets
    <3> QED
      BY <2>1, <3>1 DEF VariableRecords, AttributeRecord
  <2>3. TextOf(18, record) = name
    <3>1. NamesOf(<< >>) = << >>
      BY DEF NamesOf
    <3>2. NamedTexts(<< >>) = << >>
      <4>1. NamedTexts(<< >>) = FlattenSeq(NamesOf(<< >>))
        <5>1. << >> \in Seq(AttributeSets(C))
          OBVIOUS
        <5> QED
          BY <5>1, NamedTextsTyped
      <4> QED
        BY <3>1, <4>1, FlattenEmpty
    <3>3. TextOf(18, record) = record.variable \o NamedTexts(record.attributes)
      BY <2>2, TextOfRecord
    <3> HIDE DEF record
    <3> QED
      BY <2>1, <2>2, <3>2, <3>3, ConcatEmptySeq
  <2> HIDE DEF record
  <2>4. record \in ItemSet(18, C)
    BY <2>2, ItemSetsOfAttributes
  <2>5. named \in Seq(ItemSet(18, C)) /\ Tell(18, named) = Tell(18, items) \o LettersOf(TextOf(18, record))
    BY <1>2, <1>3, <2>4, OneMoreTold
  <2>6. named # << >>
    <3> DEFINE X == ItemSet(18, C)
    <3>1. items \in Seq(X) /\ record \in X
      BY <1>3, <2>4
    <3> HIDE DEF X
    <3> QED
      BY <3>1, AppendProperties
  <2> QED
    BY <2>3, <2>5, <2>6
<1>5. Find(rest, ":") > 1 =>
        /\ named \in Seq(ItemSet(subtype, AllCharacters)) /\ named # << >>
        /\ Tell(subtype, named) = Tell(subtype, items) \o LettersOf(UpTo(":"))
        /\ subtype = 18 /\ "set" = "values" => named[Len(named)].attributes # << >>
  BY <1>1, <1>4
<1> HIDE DEF named
<1> QED
  BY <1>1, <1>2, <1>5, NameLetters

LEMMA AttributeNameLetters ==
  ASSUME ParserInv, LetterInv, AttributeName
  PROVE  LetterInv'
<1> DEFINE C == AllCharacters
           name == UpTo("(")
           attribute == Attribute(name, << >>)
           named == WithAttribute(attribute)
<1>1. subtype \in {17, 18} /\ outcome = "reading" /\ stage = "set" /\ Name("(", "values", named)
  BY DEF AttributeName, Reading, Attributes
<1>2. subtype \in Attributes /\ subtype \in TextSubtypes /\ "(" \in Grammar
  BY <1>1 DEF Attributes, TextSubtypes, Grammar
<1>3. items \in Seq(ItemSet(subtype, C)) /\ (subtype = 18 => items # << >>)
  BY <1>1, <1>2 DEF LetterInv, Parses, Accounted, AtItsStage
<1>4. ASSUME Find(rest, "(") > 1
      PROVE  /\ named \in Seq(ItemSet(subtype, C)) /\ named # << >>
             /\ Tell(subtype, named) = Tell(subtype, items) \o LettersOf(name)
             /\ subtype = 18 => named[Len(named)].attributes # << >>
  <2>1. name \in Seq(C)
    BY <1>2, <1>4, UpToTyped
  <2> HIDE DEF C, name
  <2>2. attribute \in AttributeSets(C) /\ attribute.name = name /\ attribute.values = << >>
    <3>1. << >> \in Seq(Seq(C))
      OBVIOUS
    <3> QED
      BY <2>1, <3>1 DEF AttributeSets, Attribute
  <2>3. NamedText(attribute) = name
    <3> HIDE DEF attribute
    <3> QED
      BY <2>1, <2>2, FlattenEmpty, ConcatEmptySeq DEF NamedText
  <2> HIDE DEF attribute
  <2>4. CASE subtype = 17
    <3>1. named = Append(items, attribute)
      BY <2>4 DEF WithAttribute
    <3>2. attribute \in ItemSet(subtype, C)
      BY <2>2, <2>4, ItemSetsOfAttributes
    <3>3. /\ Append(items, attribute) \in Seq(ItemSet(subtype, C))
          /\ Tell(subtype, Append(items, attribute)) = Tell(subtype, items) \o LettersOf(TextOf(subtype, attribute))
      BY <1>2, <1>3, <3>2, OneMoreTold
    <3>4. TextOf(subtype, attribute) = name
      <4>1. ~(17 = 5) /\ ~(17 \in Responses) /\ ~(17 = 13) /\ ~(17 = 14) /\ ~(17 = 18)
        BY DEF Responses
      <4>2. TextOf(17, attribute) = NamedText(attribute)
        BY <4>1, Zenon DEF TextOf
      <4> QED
        BY <2>3, <2>4, <4>2
    <3>5. Append(items, attribute) # << >>
      <4> DEFINE X == ItemSet(subtype, C)
      <4>1. items \in Seq(X) /\ attribute \in X
        BY <1>3, <3>2
      <4> HIDE DEF X
      <4> QED
        BY <4>1, AppendProperties
    <3> HIDE DEF named
    <3> QED
      BY <2>4, <3>1, <3>3, <3>4, <3>5
  <2>5. CASE subtype = 18
    <3> DEFINE n == Len(items)
               record == items[n]
               list == Append(record.attributes, attribute)
               longer == WithAttributes(record, list)
    <3>1. items \in Seq(VariableRecords(C)) /\ items # << >>
      BY <1>3, <2>5, ItemSetsOfAttributes
    <3>2. n \in DOMAIN items /\ record \in VariableRecords(C)
      <4> HIDE DEF VariableRecords
      <4> QED
        BY <3>1, EmptySeq
    <3>3. record.attributes \in Seq(AttributeSets(C))
      BY <3>2 DEF VariableRecords
    <3>4. /\ list \in Seq(AttributeSets(C)) /\ list # << >>
          /\ Continues(NamedTexts(list), NamedTexts(record.attributes), name)
      BY <2>2, <2>3, <3>3, AttributeAdded DEF Continues
    <3>5. named = WithLast(items, longer)
      BY <2>5, <3>2 DEF WithAttribute, WithAttributes, WithLast
    <3> HIDE DEF list, n
    <3>6. /\ longer \in VariableRecords(C) /\ longer.attributes = list
          /\ Continues(TextOf(18, longer), TextOf(18, record), name)
      BY <2>1, <3>2, <3>4, RecordToldOn
    <3> HIDE DEF longer
    <3>7. longer \in ItemSet(subtype, C) /\ Continues(TextOf(subtype, longer), TextOf(subtype, items[Len(items)]), name)
      BY <2>5, <3>6, ItemSetsOfAttributes DEF n
    <3>8. /\ WithLast(items, longer) \in Seq(ItemSet(subtype, C))
          /\ WithLast(items, longer) # << >>
          /\ Len(WithLast(items, longer)) = Len(items)
          /\ WithLast(items, longer)[Len(items)] = longer
          /\ Tell(subtype, WithLast(items, longer)) = Tell(subtype, items) \o LettersOf(name)
      BY <1>2, <1>3, <2>1, <3>1, <3>7, LastToldOn
    <3> HIDE DEF named
    <3> QED
      BY <3>4, <3>5, <3>6, <3>8
  <2> QED
    BY <1>1, <2>4, <2>5
<1>5. Find(rest, "(") > 1 =>
        /\ named \in Seq(ItemSet(subtype, AllCharacters)) /\ named # << >>
        /\ Tell(subtype, named) = Tell(subtype, items) \o LettersOf(UpTo("("))
        /\ subtype = 18 /\ "values" = "values" => named[Len(named)].attributes # << >>
  BY <1>4
<1> HIDE DEF named
<1> QED
  BY <1>1, <1>2, <1>5, NameLetters

(* A set ends, or there is none: nothing but a separator goes. *)
LEMMA NothingMoreTold ==
  ASSUME ParserInv, LetterInv, Parses, UNCHANGED <<given, items>>,
         rest' \in Seq(AllCharacters), Told(rest') = Told(rest)
  PROVE  Accounted'
<1>1. Accounted /\ items \in Seq(ItemSet(subtype, AllCharacters)) /\ subtype \in TextSubtypes
  BY DEF LetterInv, Accounted, Parses
<1>2. << >> \in Seq(Letters) /\ Replacement \in AllCharacters /\ rest \in Seq(AllCharacters)
  BY AllLeft
<1>3. Tell(subtype, items) \in Seq(Letters) /\ Told(rest) \in Seq(Letters)
  BY <1>1, <1>2, TellTyped, ToldTyped
<1>4. Tell(subtype, items) \o << >> = Tell(subtype, items) /\ << >> \o Told(rest) = Told(rest)
  BY <1>3, ConcatEmptySeq
<1> DEFINE letters == << >>
<1>5. /\ letters \in Seq(Letters) /\ Tell(subtype, items') = Tell(subtype, items) \o letters
      /\ Told(rest) = letters \o Told(rest') /\ items' \in Seq(ItemSet(subtype, AllCharacters)) /\ UNCHANGED given
  BY <1>1, <1>2, <1>4
<1> HIDE DEF letters
<1> QED
  BY <1>1, <1>5, Accounts

LEMMA SetEndsLetters ==
  ASSUME ParserInv, LetterInv, SetEnds
  PROVE  LetterInv'
<1>1. /\ subtype \in Attributes /\ outcome = "reading" /\ stage = "set"
      /\ rest = << >> \/ IsPrefix(<<"/">>, rest)
      /\ rest' = After(rest, 1) /\ stage' = IF subtype = 17 THEN "set" ELSE "group"
      /\ outcome' = IF rest' = << >> THEN "read" ELSE "reading"
      /\ UNCHANGED <<given, items>>
  BY DEF SetEnds, Reading
<1>2. Parses /\ subtype \notin WholeText /\ subtype' = subtype
  BY <1>1 DEF Parses, Attributes, TextSubtypes, WholeText, given
<1>3. Replacement \in AllCharacters /\ rest \in Seq(AllCharacters)
  BY AllLeft
<1>4. rest' \in Seq(AllCharacters) /\ Told(rest') = Told(rest)
  <2>1. CASE rest = << >>
    <3>1. rest' = rest
      BY <1>1, <2>1 DEF After
    <3> QED
      BY <1>3, <3>1
  <2>2. CASE rest # << >>
    <3>1. rest[1] = "/"
      <4>1. IsPrefix(<<"/">>, rest)
        BY <1>1, <2>2
      <4>2. 1 \in DOMAIN <<"/">> /\ <<"/">>[1] = "/"
        OBVIOUS
      <4> QED
        BY <4>1, <4>2 DEF IsPrefix
    <3>2. Head(rest) = "/" /\ rest' = Tail(rest)
      <4>1. Head(rest) = rest[1] /\ Tail(rest) = SubSeq(rest, 2, Len(rest))
        BY <1>3, <2>2, TailIsSubSeq, EmptySeq
      <4> QED
        BY <1>1, <3>1, <4>1 DEF After
    <3>3. Head(rest) \in Grammar
      BY <3>2 DEF Grammar
    <3> QED
      BY <1>3, <2>2, <3>2, <3>3, ToldAfterHead
  <2> QED
    BY <2>1, <2>2
<1>5. Accounted'
  BY <1>1, <1>2, <1>4, NothingMoreTold
<1>6. AtItsStage'
  <2>1. subtype = 18 => stage' = "group"
    BY <1>1
  <2>2. stage' # "values"
    BY <1>1
  <2> QED
    BY <1>2, <2>1, <2>2 DEF AtItsStage
<1> QED
  BY <1>1, <1>2, <1>5, <1>6 DEF LetterInv

LEMMA NoGroupsLetters ==
  ASSUME ParserInv, LetterInv, NoGroups
  PROVE  LetterInv'
<1>1. /\ subtype = 18 /\ outcome = "reading" /\ stage = "group" /\ rest = << >> /\ outcome' = "read"
      /\ UNCHANGED <<given, rest, stage, items>>
  BY DEF NoGroups, Reading
<1>2. Parses /\ subtype \notin WholeText /\ subtype' = subtype
  BY <1>1 DEF Parses, Attributes, TextSubtypes, WholeText, given
<1>3. rest' \in Seq(AllCharacters) /\ Told(rest') = Told(rest)
  BY <1>1, AllLeft
<1>4. Accounted'
  BY <1>1, <1>2, <1>3, NothingMoreTold
<1>5. AtItsStage'
  BY <1>1, <1>2 DEF AtItsStage
<1> QED
  BY <1>1, <1>2, <1>4, <1>5 DEF LetterInv

(* What a value takes off the payload. *)
LEMMA ValueTold ==
  ASSUME ParserInv, Find(rest, LF) # 0, Find(rest, LF) # Len(rest), NEW last, last = (rest[Find(rest, LF) + 1] = ")")
  PROVE  LET end  == Find(rest, LF)
             left == After(rest, IF last THEN end + 1 ELSE end)
         IN  /\ Before(rest, end) \in Seq(AllCharacters) /\ left \in Seq(AllCharacters)
             /\ Told(rest) = Told(Before(rest, end)) \o Told(left)
<1> DEFINE end == Find(rest, LF)
<1>1. Replacement \in AllCharacters /\ rest \in Seq(AllCharacters) /\ LF \in Grammar
  BY AllLeft, SeparatorsInGrammar
<1>2. /\ end \in 1..Len(rest) /\ rest[end] = LF
      /\ Before(rest, end) \in Seq(AllCharacters) /\ After(rest, end) \in Seq(AllCharacters)
      /\ Told(rest) = Told(Before(rest, end)) \o Told(After(rest, end))
  BY <1>1, ToldAroundFound
<1>3. end # Len(rest)
  OBVIOUS
<1>4. last = (rest[end + 1] = ")")
  OBVIOUS
<1> HIDE DEF end
<1>5. CASE last
  <2>1. rest[end + 1] = ")" /\ ")" \in Grammar
    BY <1>4, <1>5 DEF Grammar
  <2>2. end + 1 \in 1..Len(rest)
    BY <1>2, <1>3
  <2>3. /\ After(rest, end + 1) \in Seq(AllCharacters)
        /\ Told(rest) = Told(Before(rest, end)) \o Told(After(rest, end + 1))
    BY <1>1, <1>2, <2>1, <2>2, ToldAroundTwo
  <2> QED
    BY <1>2, <1>5, <2>3 DEF end
<1>6. CASE ~last
  BY <1>2, <1>6 DEF end
<1> QED
  BY <1>5, <1>6

LEMMA WithValueTold ==
  ASSUME ParserInv, LetterInv, Parses, subtype \in Attributes, stage = "values", NEW v \in Seq(AllCharacters)
  PROVE  /\ WithValue(v) \in Seq(ItemSet(subtype, AllCharacters)) /\ WithValue(v) # << >>
         /\ Tell(subtype, WithValue(v)) = Tell(subtype, items) \o LettersOf(v)
         /\ subtype = 18 => WithValue(v)[Len(WithValue(v))].attributes # << >>
<1> DEFINE C == AllCharacters
           n == Len(items)
<1>1. subtype \in TextSubtypes /\ subtype \in {17, 18}
  BY DEF Parses, Attributes
<1>2. /\ items \in Seq(ItemSet(subtype, C)) /\ items # << >>
      /\ subtype = 18 => items[Len(items)].attributes # << >>
  BY DEF LetterInv, Accounted, AtItsStage
<1> HIDE DEF C
<1>3. v \in Seq(C)
  BY DEF C
<1>4. n \in DOMAIN items /\ items[n] \in ItemSet(subtype, C)
  <2> DEFINE X == ItemSet(subtype, C)
  <2>1. items \in Seq(X) /\ items # << >>
    BY <1>2
  <2> HIDE DEF X
  <2>2. n \in DOMAIN items /\ items[n] \in X
    BY <2>1, EmptySeq
  <2> QED
    BY <2>2 DEF X
<1>5. CASE subtype = 17
  <2> DEFINE longer == [items[n] EXCEPT !.values = Append(@, v)]
  <2>1. items[n] \in AttributeSets(C)
    BY <1>4, <1>5, ItemSetsOfAttributes
  <2>2. WithValue(v) = WithLast(items, longer)
    BY <1>4, <1>5 DEF WithValue, WithLast
  <2>3. longer \in AttributeSets(C) /\ Continues(NamedText(longer), NamedText(items[n]), v)
    BY <1>3, <2>1, ValueAdded
  <2> HIDE DEF longer, n
  <2>4. longer \in ItemSet(subtype, C) /\ Continues(TextOf(subtype, longer), TextOf(subtype, items[n]), v)
    <3>1. ~(17 = 5) /\ ~(17 \in Responses) /\ ~(17 = 13) /\ ~(17 = 14) /\ ~(17 = 18)
      BY DEF Responses
    <3>2. TextOf(17, longer) = NamedText(longer) /\ TextOf(17, items[n]) = NamedText(items[n])
      BY <3>1, Zenon DEF TextOf
    <3>3. longer \in ItemSet(17, C)
      BY <2>3, ItemSetsOfAttributes
    <3> QED
      BY <1>5, <2>3, <3>2, <3>3
  <2>5. /\ WithLast(items, longer) \in Seq(ItemSet(subtype, C)) /\ WithLast(items, longer) # << >>
        /\ Tell(subtype, WithLast(items, longer)) = Tell(subtype, items) \o LettersOf(v)
    BY <1>1, <1>2, <1>3, <2>4, LastToldOn DEF n
  <2> QED
    BY <1>5, <2>2, <2>5 DEF C
<1>6. CASE subtype = 18
  <2> DEFINE record == items[n]
             list   == record.attributes
             m      == Len(list)
             fuller == [list[m] EXCEPT !.values = Append(@, v)]
             longer == WithAttributes(record, WithLast(list, fuller))
  <2>1. record \in VariableRecords(C) /\ list # << >>
    BY <1>2, <1>4, <1>6, ItemSetsOfAttributes
  <2>2. list \in Seq(AttributeSets(C))
    BY <2>1 DEF VariableRecords
  <2>3. m \in DOMAIN list /\ list[m] \in AttributeSets(C)
    <3> DEFINE X == AttributeSets(C)
    <3>1. list \in Seq(X) /\ list # << >>
      BY <2>1, <2>2
    <3> HIDE DEF X, list
    <3>2. m \in DOMAIN list /\ list[m] \in X
      BY <3>1, EmptySeq
    <3> QED
      BY <3>2 DEF X
  <2>4. WithValue(v) = WithLast(items, longer)
    <3>1. DOMAIN items = DOMAIN items /\ n \in DOMAIN items
      BY <1>4
    <3> QED
      BY <1>6, <3>1, <2>3 DEF WithValue, WithLast, WithAttributes
  <2>5. fuller \in AttributeSets(C) /\ Continues(NamedText(fuller), NamedText(list[m]), v)
    BY <1>3, <2>3, ValueAdded
  <2> HIDE DEF fuller
  <2>6. /\ WithLast(list, fuller) \in Seq(AttributeSets(C)) /\ WithLast(list, fuller) # << >>
        /\ Continues(NamedTexts(WithLast(list, fuller)), NamedTexts(list), v)
    BY <1>3, <2>1, <2>2, <2>5, AttributeToldOn
  <2>7. /\ longer \in VariableRecords(C) /\ longer.attributes = WithLast(list, fuller)
        /\ Continues(TextOf(18, longer), TextOf(18, record), v)
    <3> HIDE DEF record
    <3> QED
      BY <1>3, <2>1, <2>6, RecordToldOn
  <2> HIDE DEF longer
  <2>8. longer \in ItemSet(subtype, C) /\ Continues(TextOf(subtype, longer), TextOf(subtype, items[Len(items)]), v)
    BY <1>6, <2>7, ItemSetsOfAttributes
  <2>9. /\ WithLast(items, longer) \in Seq(ItemSet(subtype, C)) /\ WithLast(items, longer) # << >>
        /\ Len(WithLast(items, longer)) = Len(items) /\ WithLast(items, longer)[Len(items)] = longer
        /\ Tell(subtype, WithLast(items, longer)) = Tell(subtype, items) \o LettersOf(v)
    BY <1>1, <1>2, <1>3, <2>8, LastToldOn
  <2> QED
    BY <2>4, <2>6, <2>7, <2>9 DEF C
<1> QED
  BY <1>1, <1>5, <1>6

LEMMA ValueLetters ==
  ASSUME ParserInv, LetterInv, Value
  PROVE  LetterInv'
<1> DEFINE end  == Find(rest, LF)
           last == rest[end + 1] = ")"
           left == After(rest, IF last THEN end + 1 ELSE end)
           v    == AttributeValue(Before(rest, end))
<1>1. subtype \in Attributes /\ outcome = "reading" /\ stage = "values"
  BY DEF Value, Reading
<1>2. Parses /\ subtype \notin WholeText /\ subtype \in TextSubtypes
  BY <1>1 DEF Parses, Attributes, TextSubtypes, WholeText
<1>3. CASE Refuse
  <2>1. UNCHANGED given /\ outcome' = "refused"
    BY <1>3 DEF Refuse
  <2> QED
    BY <2>1, LeavesLetters
<1>4. CASE /\ end # 0 /\ end # Len(rest) /\ items' = WithValue(v) /\ rest' = left
           /\ stage' = (IF last THEN "set" ELSE "values") /\ UNCHANGED <<given, outcome>>
  <2>1. Replacement \in AllCharacters
    BY AllLeft
  <2>2. PICK closed: closed = last
    OBVIOUS
  <2>3. /\ Before(rest, end) \in Seq(AllCharacters) /\ left \in Seq(AllCharacters)
        /\ Told(rest) = Told(Before(rest, end)) \o Told(left)
    BY <1>4, <2>2, ValueTold
  <2> HIDE DEF left, end
  <2>4. v \in Seq(AllCharacters) /\ LettersOf(v) = Told(Before(rest, end)) /\ Told(Before(rest, end)) \in Seq(Letters)
    BY <2>1, <2>3, AttributeValueTold, ToldTyped
  <2> HIDE DEF v
  <2>5. /\ WithValue(v) \in Seq(ItemSet(subtype, AllCharacters)) /\ WithValue(v) # << >>
        /\ Tell(subtype, WithValue(v)) = Tell(subtype, items) \o LettersOf(v)
        /\ subtype = 18 => WithValue(v)[Len(WithValue(v))].attributes # << >>
    BY <1>1, <1>2, <2>4, WithValueTold
  <2>6. Accounted
    BY <1>2 DEF LetterInv
  <2>7. /\ items' \in Seq(ItemSet(subtype, AllCharacters)) /\ rest' \in Seq(AllCharacters)
        /\ Tell(subtype, items') = Tell(subtype, items) \o Told(Before(rest, end))
        /\ Told(rest) = Told(Before(rest, end)) \o Told(rest') /\ UNCHANGED given
    BY <1>4, <2>3, <2>4, <2>5
  <2>8. Accounted'
    BY <1>2, <2>4, <2>6, <2>7, Accounts
  <2>9. subtype' = subtype /\ outcome' = "reading"
    BY <1>1, <1>4 DEF given
  <2>10. AtItsStage'
    BY <1>4, <2>5, <2>9 DEF AtItsStage
  <2> QED
    BY <1>2, <2>8, <2>9, <2>10 DEF LetterInv
<1> QED
  BY <1>3, <1>4 DEF Value

LEMMA TextLetters ==
  ASSUME ParserInv, LetterInv, TextNext
  PROVE  LetterInv'
<1>1. CASE VariableSetLine
  BY <1>1, VariableSetLetters
<1>2. CASE ResponseSetLine
  BY <1>2, ResponseSetLetters
<1>3. CASE LongNamePair
  BY <1>3, LongNameLetters
<1>4. CASE VeryLongPair
  BY <1>4, WidthLetters
<1>5. CASE EndOfPieces
  BY <1>5, EndOfPiecesLetters
<1>6. CASE ExtraProductInfo \/ Uuid \/ CharacterEncoding
  BY <1>6, WholeTextLetters
<1>7. CASE VariableName
  BY <1>7, VariableNameLetters
<1>8. CASE AttributeName
  BY <1>8, AttributeNameLetters
<1>9. CASE SetEnds
  BY <1>9, SetEndsLetters
<1>10. CASE NoGroups
  BY <1>10, NoGroupsLetters
<1>11. CASE Value
  BY <1>11, ValueLetters
<1>12. CASE CollapseAttributes
  BY <1>12, LeavesLetters DEF CollapseAttributes
<1> QED
  BY <1>1, <1>2, <1>3, <1>4, <1>5, <1>6, <1>7, <1>8, <1>9, <1>10, <1>11, <1>12 DEF TextNext

LEMMA BinaryIsNoText == \A type \in {3, 4, 11, 16, 21, 22}: type \notin TextSubtypes
BY DEF TextSubtypes, Responses, WholeText, Attributes

LEMMA NextLetters ==
  ASSUME ParserInv, LetterInv, RecordNext
  PROVE  LetterInv'
<1>1. CASE MisshapenRecord
  BY <1>1, LeavesLetters DEF MisshapenRecord, RefuseRecord, Refuse
<1>2. CASE MachineInfo
  BY <1>2, LeavesLetters, BinaryIsNoText DEF MachineInfo, ReadWhole, Opens, envelope, given
<1>3. CASE Sentinels
  BY <1>3, LeavesLetters, BinaryIsNoText DEF Sentinels, ReadWhole, Opens, envelope, given
<1>4. CASE NumberOfCases
  BY <1>4, LeavesLetters, BinaryIsNoText DEF NumberOfCases, ReadWhole, Opens, envelope, given
<1>5. CASE DisplayParameters
  BY <1>5, LeavesLetters, BinaryIsNoText DEF DisplayParameters, Opens, envelope, given
<1>6. CASE StartReading
  <2>1. /\ outcome = "opened" /\ outcome' = "reading" /\ UNCHANGED <<given, rest, stage, items>>
    BY <1>6 DEF StartReading, envelope, cursor
  <2>2. AllCharacters' = AllCharacters /\ subtype' = subtype /\ payload' = payload
    BY <2>1, AllCharactersStay
  <2>3. CASE Parses
    <3>1. Accounted /\ AtItsStage /\ (subtype \in WholeText => items = << >>)
      BY <2>1, <2>3 DEF LetterInv
    <3>2. Accounted' /\ AtItsStage'
      BY <2>1, <2>2, <3>1 DEF Accounted, AtItsStage
    <3> QED
      BY <2>1, <2>2, <3>1, <3>2 DEF LetterInv
  <2>4. CASE ~Parses
    BY <2>1, <2>4, LeavesLetters DEF Parses
  <2> QED
    BY <2>3, <2>4
<1>7. CASE TextNext
  BY <1>7, TextLetters
<1>8. CASE LongLabelRecord \/ LongLabel
  BY <1>8, LeavesLetters, BinaryIsNoText
     DEF LongLabelRecord, LongLabel, AtRecord, Reading, RefuseRecord, Refuse, envelope, given
<1>9. CASE LongMissingRecord \/ LongMissing
  BY <1>9, LeavesLetters, BinaryIsNoText
     DEF LongMissingRecord, LongMissing, AtRecord, Reading, RefuseRecord, Refuse, envelope, given
<1>10. CASE EndOfRecords
  BY <1>10, LeavesLetters, BinaryIsNoText DEF EndOfRecords, Reading, envelope, given
<1>11. CASE DegradeToUnknown \/ DecodeUnknownExtension
  BY <1>11, LeavesLetters DEF DegradeToUnknown, DecodeUnknownExtension, Keep, envelope, given
<1> QED
  BY <1>1, <1>2, <1>3, <1>4, <1>5, <1>6, <1>7, <1>8, <1>9, <1>10, <1>11 DEF RecordNext

LEMMA LettersHold == RecordSpec => [](ParserInv /\ LetterInv)
<1>1. RecordInit => ParserInv /\ LetterInv
  BY RecordInitParser, RecordInitLetters
<1>2. ParserInv /\ LetterInv /\ [RecordNext]_recordVars => (ParserInv /\ LetterInv)'
  <2> SUFFICES ASSUME ParserInv, LetterInv, [RecordNext]_recordVars PROVE (ParserInv /\ LetterInv)'
    OBVIOUS
  <2>1. CASE RecordNext
    BY <2>1, NextParser, NextLetters DEF ParserStep
  <2>2. CASE UNCHANGED recordVars
    <3>1. UNCHANGED <<given, rest, stage, items, outcome, due, width>>
      BY <2>2 DEF recordVars, envelope, cursor
    <3>2. rest' \in Seq(Characters) /\ due' \in Nat /\ width' \in Nat
      BY <3>1 DEF ParserInv
    <3> QED
      BY <3>1, <3>2, StaysParser, StaysLetters
  <2> QED
    BY <2>1, <2>2
<1> QED
  BY <1>1, <1>2, PTL DEF RecordSpec

(* Whatever the payload of a text record, its length and its damage: once the record is read, *)
(* the letters of its items, one item after the other, are the letters of the payload, none     *)
(* missing and none added, and a width is a number of the entries' range.                        *)
LEMMA NoLetterDisappears == RecordSpec => []NoLetterIsLost
<1>1. ParserInv /\ LetterInv => NoLetterIsLost
  <2> SUFFICES ASSUME ParserInv, LetterInv, outcome = "read", subtype \in TextSubtypes
               PROVE  /\ LettersOf(FlattenSeq([i \in DOMAIN items |-> TextOf(subtype, items[i])]))
                           = LettersOf(Text(payload))
                      /\ subtype = 14 => \A i \in DOMAIN items: items[i].width \in 0..MaxU32
    BY DEF NoLetterIsLost
  <2>1. Accounted /\ rest = << >>
    BY DEF LetterInv, Parses
  <2>2. Tell(subtype, items) = Told(payload)
    <3>1. Tell(subtype, items) \o << >> = Told(payload)
      BY <2>1, ToldNothing DEF Accounted
    <3>2. Tell(subtype, items) \in Seq(Letters)
      BY <2>1, TellTyped DEF Accounted
    <3> QED
      BY <3>1, <3>2, ConcatEmptySeq
  <2>3. LettersOf(FlattenSeq([i \in DOMAIN items |-> TextOf(subtype, items[i])])) = LettersOf(Text(payload))
    BY <2>2, Zenon DEF Tell, Texts, Told
  <2>4. ASSUME subtype = 14 PROVE \A i \in DOMAIN items: items[i].width \in 0..MaxU32
    <3>1. items \in Seq(VeryLong(AllCharacters))
      <4>1. ItemSet(14, AllCharacters) = VeryLong(AllCharacters)
        BY DEF ItemSet, Responses
      <4> QED
        BY <2>1, <2>4, <4>1 DEF Accounted
    <3>2. SUFFICES ASSUME NEW i \in DOMAIN items PROVE items[i].width \in 0..MaxU32
      OBVIOUS
    <3>3. items[i] \in VeryLong(AllCharacters)
      <4> DEFINE V == VeryLong(AllCharacters)
      <4> HIDE DEF V
      <4> QED
        BY <3>1, ElementOfSeq DEF V
    <3> QED
      BY <3>3 DEF VeryLong
  <2> QED
    BY <2>3, <2>4
<1> QED
  BY <1>1, LettersHold, PTL

-----------------------------------------------------------------------------------
(* A number read is a number written *)

LEMMA LastDigit ==
  ASSUME NEW number \in Nat, NEW digit \in Byte
  PROVE  /\ number * Base + digit \in Nat
         /\ (number * Base + digit) \div Base = number
         /\ (number * Base + digit) % Base = digit
<1>1. Base \in Nat \ {0} /\ digit \in 0..(Base - 1)
  BY BytesAssumption DEF Byte
<1>2. number * Base + digit \in Nat
  BY <1>1
<1>3. (number * Base + digit) \div Base = number
  BY <1>1, SMTT(30)
<1>4. (number * Base + digit) % Base = digit
  BY <1>1, SMTT(30)
<1> QED
  BY <1>2, <1>3, <1>4

(* The number of the first k digits. *)
LEMMA NumbersOfDigits ==
  ASSUME NEW digits, NEW n \in Nat, \A i \in 1..n: digits[i] \in Byte, NEW f, ReadsDigits(f, digits, n)
  PROVE  /\ f[1..0] = 0
         /\ \A k \in 0..n: f[1..k] \in Nat
         /\ \A k \in 0..(n - 1): f[1..(k + 1)] = f[1..k] * Base + digits[k + 1]
<1>1. \A s \in SUBSET (1..n): f[s] = IF s = {} THEN 0 ELSE (f[s \ {Max(s)}] * Base) + digits[Max(s)]
  BY Zenon DEF ReadsDigits
<1>2. f[1..0] = 0
  <2>1. 1..0 = {} /\ 1..0 \in SUBSET (1..n)
    OBVIOUS
  <2> QED
    BY <1>1, <2>1
<1>3. ASSUME NEW k \in 0..(n - 1)
      PROVE  f[1..(k + 1)] = f[1..k] * Base + digits[k + 1]
  <2> DEFINE s == 1..(k + 1)
  <2>1. k \in Nat /\ k + 1 <= n
    OBVIOUS
  <2>2. s \in SUBSET (1..n) /\ s # {} /\ s \ {k + 1} = 1..k
    BY <2>1, OneMorePosition
  <2>3. Max(s) = k + 1
    BY <2>1, LastIsMax
  <2> HIDE DEF s
  <2>4. f[s] = f[1..k] * Base + digits[k + 1]
    BY <1>1, <2>2, <2>3
  <2> QED
    BY <2>4 DEF s
<1> DEFINE S == {k \in Nat: k <= n => f[1..k] \in Nat}
<1>4. 0 \in S
  BY <1>2
<1>5. ASSUME NEW k \in S, k + 1 <= n
      PROVE  f[1..(k + 1)] \in Nat
  <2>1. k \in 0..(n - 1) /\ f[1..k] \in Nat /\ digits[k + 1] \in Byte
    BY <1>5
  <2> QED
    BY <1>3, <2>1, LastDigit
<1>6. S \in SUBSET Nat /\ \A k \in S: k + 1 \in S
  <2>1. \A k \in S: k \in Nat /\ k + 1 \in Nat /\ (k + 1 <= n => f[1..(k + 1)] \in Nat)
    BY <1>5
  <2> QED
    BY <2>1
<1> HIDE DEF S
<1>7. S = Nat
  BY <1>4, <1>6, SetInduction
<1>8. \A k \in 0..n: f[1..k] \in Nat
  BY <1>7 DEF S
<1> QED
  BY <1>2, <1>3, <1>8

(* A number divided by the base again and again. *)
Divides(q, number, n) == q = [k \in 0..n |-> IF k = 0 THEN number ELSE q[k - 1] \div Base]
HasQuotients(number, n) == \E q \in [0..n -> Nat]: Divides(q, number, n)

LEMMA QuotientsGrow ==
  ASSUME NEW number \in Nat, NEW n \in Nat, HasQuotients(number, n)
  PROVE  HasQuotients(number, n + 1)
<1>1. PICK q \in [0..n -> Nat]: Divides(q, number, n)
  BY DEF HasQuotients
<1> DEFINE more == [k \in 0..(n + 1) |-> IF k = n + 1 THEN q[n] \div Base ELSE q[k]]
<1>2. \A k \in 0..n: q[k] = IF k = 0 THEN number ELSE q[k - 1] \div Base
  BY <1>1, Zenon DEF Divides
<1>3. q[n] \div Base \in Nat
  BY BytesAssumption
<1>4. more \in [0..(n + 1) -> Nat]
  BY <1>3
<1>5. ASSUME NEW k \in 0..(n + 1)
      PROVE  more[k] = IF k = 0 THEN number ELSE more[k - 1] \div Base
  <2>1. CASE k = n + 1
    BY <2>1
  <2>2. CASE k # n + 1
    <3>1. k \in 0..n /\ (k # 0 => k - 1 \in 0..n /\ k - 1 \in 0..(n + 1) /\ k - 1 # n + 1)
      BY <2>2
    <3>2. more[k] = q[k] /\ (k # 0 => more[k - 1] = q[k - 1])
      BY <2>2, <3>1
    <3> HIDE DEF more
    <3> QED
      BY <1>2, <3>1, <3>2
  <2> QED
    BY <2>1, <2>2
<1>6. more = [k \in 0..(n + 1) |-> more[k]]
  OBVIOUS
<1> HIDE DEF more
<1>7. Divides(more, number, n + 1)
  <2>1. [k \in 0..(n + 1) |-> more[k]]
          = [k \in 0..(n + 1) |-> IF k = 0 THEN number ELSE more[k - 1] \div Base]
    BY <1>5, Zenon
  <2> QED
    BY <1>6, <2>1, Zenon DEF Divides
<1> QED
  BY <1>4, <1>7 DEF HasQuotients

LEMMA QuotientsExist ==
  ASSUME NEW number \in Nat, NEW n \in Nat
  PROVE  HasQuotients(number, n)
<1> DEFINE S == {k \in Nat: HasQuotients(number, k)}
<1>1. 0 \in S
  <2> DEFINE q == [k \in 0..0 |-> number]
  <2>1. q \in [0..0 -> Nat]
    OBVIOUS
  <2>2. q = [k \in 0..0 |-> IF k = 0 THEN number ELSE q[k - 1] \div Base]
    OBVIOUS
  <2> HIDE DEF q
  <2> QED
    BY <2>1, <2>2 DEF HasQuotients, Divides
<1>2. S \in SUBSET Nat /\ \A k \in S: k + 1 \in S
  BY QuotientsGrow
<1> HIDE DEF S
<1>3. S = Nat
  BY <1>1, <1>2, SetInduction
<1> QED
  BY <1>3 DEF S

BigDigits(q, n) == [i \in 1..n |-> q[n - i] % Base]

LEMMA NumberWritten ==
  ASSUME NEW order, NEW number \in Nat, NEW n \in Nat
  PROVE  \E q \in [0..n -> Nat]:
           /\ q[0] = number /\ \A k \in 0..(n - 1): q[k + 1] = q[k] \div Base
           /\ Number(order, number, n) = IF order = "BigEndian" THEN BigDigits(q, n) ELSE Reverse(BigDigits(q, n))
<1> DEFINE q == CHOOSE h: Divides(h, number, n)
<1>1. PICK g \in [0..n -> Nat]: Divides(g, number, n)
  BY QuotientsExist DEF HasQuotients
<1>2. Divides(q, number, n)
  BY <1>1, Zenon
<1>3. Number(order, number, n) = IF order = "BigEndian" THEN BigDigits(q, n) ELSE Reverse(BigDigits(q, n))
  BY Zenon DEF Number, BigDigits, Divides
<1> HIDE DEF q
<1>4. q = [k \in 0..n |-> IF k = 0 THEN number ELSE q[k - 1] \div Base]
  BY <1>2, Zenon DEF Divides
<1>5. \A k \in 0..n: q[k] = IF k = 0 THEN number ELSE q[k - 1] \div Base
  BY <1>4, Zenon
<1>6. q[0] = number /\ \A k \in 0..(n - 1): q[k + 1] = q[k] \div Base
  <2>1. \A k \in 0..(n - 1): k + 1 \in 0..n /\ k + 1 # 0 /\ (k + 1) - 1 = k
    OBVIOUS
  <2> QED
    BY <1>5, <2>1
<1> DEFINE S == {k \in Nat: k <= n => q[k] \in Nat}
<1>7. S \in SUBSET Nat /\ 0 \in S
  BY <1>6
<1>8. ASSUME NEW k \in S
      PROVE  k + 1 \in S
  <2>1. k + 1 <= n => k \in 0..(n - 1) /\ q[k] \in Nat
    BY <1>8
  <2>2. \A m \in Nat: m \div Base \in Nat
    BY BytesAssumption
  <2>3. k + 1 <= n => q[k + 1] = q[k] \div Base
    BY <1>6, <2>1
  <2>4. k + 1 \in Nat
    BY <1>8
  <2> HIDE DEF S
  <2>5. k + 1 <= n => q[k + 1] \in Nat
    BY <2>1, <2>2, <2>3
  <2> QED
    BY <2>4, <2>5 DEF S
<1> HIDE DEF S
<1>9. S = Nat
  BY <1>7, <1>8, SetInduction
<1>10. \A k \in 0..n: q[k] \in Nat
  BY <1>9 DEF S
<1>11. q \in [0..n -> Nat]
  <2>1. q = [k \in 0..n |-> q[k]]
    BY <1>4, Zenon
  <2> QED
    BY <1>10, <2>1
<1> QED
  BY <1>3, <1>6, <1>11

LEMMA Reversed ==
  ASSUME NEW T, NEW s \in Seq(T)
  PROVE  Reverse(s) \in Seq(T) /\ Len(Reverse(s)) = Len(s) /\ Reverse(Reverse(s)) = s
<1> DEFINE n == Len(s)
           r == Reverse(s)
<1>1. n \in Nat /\ DOMAIN s = 1..n /\ \A i \in 1..n: s[i] \in T /\ (n - i) + 1 \in 1..n /\ (n - ((n - i) + 1)) + 1 = i
  OBVIOUS
<1>2. r = [i \in 1..n |-> s[(n - i) + 1]]
  BY DEF Reverse
<1>3. r \in Seq(T) /\ Len(r) = n /\ DOMAIN r = 1..n
  BY <1>1, <1>2
<1>4. \A i \in 1..n: r[(n - i) + 1] = s[i]
  BY <1>1, <1>2
<1> HIDE DEF r
<1>5. Reverse(r) = [i \in 1..n |-> r[(n - i) + 1]]
  BY <1>3 DEF Reverse
<1>6. s = [i \in 1..n |-> s[i]]
  BY <1>1
<1>7. Reverse(r) = s
  BY <1>4, <1>5, <1>6
<1> QED
  BY <1>3, <1>7 DEF r

LEMMA NumberTyped ==
  ASSUME NEW order, NEW number \in Nat, NEW n \in Nat
  PROVE  Number(order, number, n) \in Seq(Byte) /\ Len(Number(order, number, n)) = n
<1>1. PICK q \in [0..n -> Nat]:
        Number(order, number, n) = IF order = "BigEndian" THEN BigDigits(q, n) ELSE Reverse(BigDigits(q, n))
  BY NumberWritten
<1>2. \A i \in 1..n: n - i \in 0..n /\ q[n - i] % Base \in Byte
  BY BytesAssumption DEF Byte
<1>3. BigDigits(q, n) \in Seq(Byte) /\ Len(BigDigits(q, n)) = n
  <2> HIDE DEF Byte
  <2> QED
    BY <1>2 DEF BigDigits
<1> QED
  BY <1>1, <1>3, Reversed

(* What the digits of a number that was read are. *)
LEMMA NumberReadBack ==
  ASSUME NEW order, NEW bytes \in Seq(Byte)
  PROVE  Number(order, ReadU32(order, bytes), Len(bytes)) = bytes
<1> DEFINE digits == IF order = "BigEndian" THEN bytes ELSE Reverse(bytes)
           n      == Len(bytes)
           f      == CHOOSE h: ReadsDigits(h, digits, n)
           number == ReadU32(order, bytes)
<1>1. n \in Nat /\ digits \in Seq(Byte) /\ Len(digits) = n
  BY Reversed
<1>2. DOMAIN digits = 1..n /\ \A i \in 1..n: digits[i] \in Byte
  <2> HIDE DEF digits
  <2> QED
    BY <1>1
<1>3. number = FoldLeft(LAMBDA total, byte: (total * Base) + byte, 0, digits)
  BY Zenon DEF ReadU32
<1> HIDE DEF n
<1>4. ReadsDigits(f, digits, n)
  <2> HIDE DEF digits
  <2> QED
    BY <1>1, DigitsExist
<1>5. number = f[1..n]
  BY <1>2, <1>3, Zenon DEF FoldLeft, MapThenFoldSet, ReadsDigits
<1>6. number \in Nat
  BY NumberRead
<1> HIDE DEF f, digits, number
<1>7. /\ \A k \in 0..n: f[1..k] \in Nat
      /\ \A k \in 0..(n - 1): f[1..(k + 1)] = f[1..k] * Base + digits[k + 1]
  BY <1>1, <1>2, <1>4, NumbersOfDigits
<1>8. PICK q \in [0..n -> Nat]:
        /\ q[0] = number /\ \A k \in 0..(n - 1): q[k + 1] = q[k] \div Base
        /\ Number(order, number, n) = IF order = "BigEndian" THEN BigDigits(q, n) ELSE Reverse(BigDigits(q, n))
  BY <1>1, <1>6, NumberWritten
<1> DEFINE S == {k \in Nat: k <= n => q[k] = f[1..(n - k)]}
<1>9. 0 \in S
  BY <1>1, <1>5, <1>8
<1>10. ASSUME NEW k \in S, k + 1 <= n
       PROVE  q[k + 1] = f[1..(n - (k + 1))]
  <2> DEFINE j == n - (k + 1)
  <2>1. k \in 0..(n - 1) /\ q[k] = f[1..(n - k)] /\ j \in 0..(n - 1) /\ j + 1 = n - k /\ j + 1 \in 1..n /\ j \in 0..n
    BY <1>1, <1>10
  <2> HIDE DEF j, S
  <2>2. q[k + 1] = (f[1..j] * Base + digits[j + 1]) \div Base
    BY <1>7, <1>8, <2>1
  <2>3. f[1..j] \in Nat /\ digits[j + 1] \in Byte
    BY <1>2, <1>7, <2>1
  <2>4. q[k + 1] = f[1..j]
    BY <2>2, <2>3, LastDigit
  <2> QED
    BY <2>4 DEF j
<1>11. S \in SUBSET Nat /\ \A k \in S: k + 1 \in S
  BY <1>10
<1> HIDE DEF S
<1>12. S = Nat
  BY <1>9, <1>11, SetInduction
<1>13. ASSUME NEW i \in 1..n
       PROVE  q[n - i] % Base = digits[i]
  <2>1. n - i \in Nat /\ n - i <= n /\ n - (n - i) = i /\ i - 1 \in 0..(n - 1) /\ i - 1 \in 0..n /\ (i - 1) + 1 = i
    BY <1>1
  <2>2. q[n - i] = f[1..i]
    BY <1>12, <2>1 DEF S
  <2>3. f[1..i] = f[1..(i - 1)] * Base + digits[i] /\ f[1..(i - 1)] \in Nat /\ digits[i] \in Byte
    BY <1>2, <1>7, <2>1
  <2> QED
    BY <2>2, <2>3, LastDigit
<1>14. BigDigits(q, n) = digits
  <2>1. digits = [i \in 1..n |-> digits[i]]
    BY <1>1
  <2> QED
    BY <1>13, <2>1, Zenon DEF BigDigits
<1>15. order # "BigEndian" => Reverse(digits) = bytes
  BY Reversed DEF digits
<1>16. order = "BigEndian" => digits = bytes
  BY DEF digits
<1>17. Number(order, number, n) = bytes
  BY <1>8, <1>14, <1>15, <1>16
<1> QED
  BY <1>17 DEF n, number

-----------------------------------------------------------------------------------
(* Bytes the encoding reads alike *)

Alike(a, b) == Decoded(a) = Decoded(b)

LEMMA DecodedTyped ==
  ASSUME NEW bytes \in Seq(Nat)
  PROVE  /\ Decoded(bytes) \in Seq(Nat) /\ Len(Decoded(bytes)) = Len(bytes)
         /\ \A i \in 1..Len(bytes): Decoded(bytes)[i] = IF bytes[i] \in Illegible THEN NoCharacter ELSE bytes[i]
<1>1. Len(bytes) \in Nat /\ DOMAIN bytes = 1..Len(bytes) /\ \A i \in 1..Len(bytes): bytes[i] \in Nat
  OBVIOUS
<1>2. NoCharacter \in Nat
  BY BytesAssumption DEF NoCharacter
<1>3. Decoded(bytes) = [i \in 1..Len(bytes) |-> IF bytes[i] \in Illegible THEN NoCharacter ELSE bytes[i]]
  BY <1>1, Zenon DEF Decoded
<1> QED
  BY <1>1, <1>2, <1>3

LEMMA DecodedConcat ==
  ASSUME NEW a \in Seq(Nat), NEW b \in Seq(Nat)
  PROVE  Decoded(a \o b) = Decoded(a) \o Decoded(b)
<1> DEFINE p == Decoded(a)
           q == Decoded(b)
           r == Decoded(a \o b)
           Reads(c) == IF c \in Illegible THEN NoCharacter ELSE c
<1>1. /\ a \o b \in Seq(Nat) /\ Len(a \o b) = Len(a) + Len(b) /\ Len(a) \in Nat /\ Len(b) \in Nat
      /\ \A i \in 1..Len(a): (a \o b)[i] = a[i] /\ i \in 1..(Len(a) + Len(b))
      /\ \A i \in 1..Len(b): (a \o b)[Len(a) + i] = b[i] /\ Len(a) + i \in 1..(Len(a) + Len(b))
  BY ConcatProperties
<1>2. /\ p \in Seq(Nat) /\ Len(p) = Len(a) /\ \A i \in 1..Len(a): p[i] = Reads(a[i])
      /\ q \in Seq(Nat) /\ Len(q) = Len(b) /\ \A i \in 1..Len(b): q[i] = Reads(b[i])
      /\ r \in Seq(Nat) /\ Len(r) = Len(a) + Len(b) /\ \A i \in 1..(Len(a) + Len(b)): r[i] = Reads((a \o b)[i])
  BY <1>1, DecodedTyped
<1> HIDE DEF p, q, r, Reads
<1>3. /\ \A i \in 1..Len(p): r[i] = p[i]
      /\ \A i \in 1..Len(q): r[Len(p) + i] = q[i]
  BY <1>1, <1>2
<1>4. DOMAIN r = 1..(Len(p) + Len(q)) /\ r = [i \in DOMAIN r |-> r[i]]
  BY <1>2
<1>5. r = p \o q
  BY <1>2, <1>3, <1>4, IsConcat
<1> QED
  BY <1>5 DEF p, q, r

LEMMA AlikeConcat ==
  ASSUME NEW a \in Seq(Nat), NEW b \in Seq(Nat), NEW c \in Seq(Nat), NEW d \in Seq(Nat), Alike(a, c), Alike(b, d)
  PROVE  Alike(a \o b, c \o d)
<1>1. Decoded(a \o b) = Decoded(a) \o Decoded(b) /\ Decoded(c \o d) = Decoded(c) \o Decoded(d)
  BY DecodedConcat
<1> QED
  BY <1>1, Zenon DEF Alike

(* What was decoded is decoded. *)
LEMMA AlikeDecoded ==
  ASSUME NEW bytes \in Seq(Byte)
  PROVE  /\ bytes \in Seq(Nat) /\ Decoded(bytes) \in Seq(Nat)
         /\ Len(Decoded(bytes)) = Len(bytes) /\ Alike(bytes, Decoded(bytes))
<1> DEFINE n == Len(bytes)
           read == Decoded(bytes)
           again == Decoded(read)
<1>1. bytes \in Seq(Nat)
  <2>1. Byte \subseteq Nat
    BY BytesAssumption DEF Byte
  <2> HIDE DEF Byte
  <2> QED
    BY <2>1, SeqMonotonic
<1>2. /\ n \in Nat /\ read \in Seq(Nat) /\ Len(read) = n
      /\ \A i \in 1..n: read[i] = IF bytes[i] \in Illegible THEN NoCharacter ELSE bytes[i]
  BY <1>1, DecodedTyped
<1>3. /\ again \in Seq(Nat) /\ Len(again) = n
      /\ \A i \in 1..n: again[i] = IF read[i] \in Illegible THEN NoCharacter ELSE read[i]
  BY <1>2, DecodedTyped
<1>4. NoCharacter \notin Illegible
  BY BytesAssumption DEF NoCharacter
<1> HIDE DEF read, again, n
<1>5. again = read
  <2>1. \A i \in 1..n: again[i] = read[i]
    BY <1>2, <1>3, <1>4
  <2> QED
    BY <1>2, <1>3, <2>1, SeqEqual
<1> QED
  BY <1>1, <1>2, <1>5 DEF Alike, again, read, n

LEMMA AlikeFlatten ==
  ASSUME NEW ss \in Seq(Seq(Nat)), NEW tt \in Seq(Seq(Nat)), Len(ss) = Len(tt),
         \A i \in 1..Len(ss): Alike(ss[i], tt[i])
  PROVE  Alike(FlattenSeq(ss), FlattenSeq(tt))
<1> DEFINE T == Seq(Nat)
           Pairs(n) == {p \in Seq(T) \X Seq(T): Len(p[1]) = n /\ Len(p[2]) = n /\ \A i \in 1..n: Alike(p[1][i], p[2][i])}
           N == {n \in Nat: \A p \in Pairs(n): Alike(FlattenSeq(p[1]), FlattenSeq(p[2]))}
<1>1. 0 \in N
  <2> SUFFICES ASSUME NEW p \in Pairs(0) PROVE Alike(FlattenSeq(p[1]), FlattenSeq(p[2]))
    OBVIOUS
  <2>1. p[1] \in Seq(T) /\ p[2] \in Seq(T) /\ Len(p[1]) = 0 /\ Len(p[2]) = 0
    OBVIOUS
  <2> HIDE DEF T
  <2>2. p[1] = << >> /\ p[2] = << >>
    BY <2>1, EmptySeq
  <2> QED
    BY <2>2, Zenon DEF Alike
<1>2. ASSUME NEW n \in N, NEW p \in Pairs(n + 1)
      PROVE  Alike(FlattenSeq(p[1]), FlattenSeq(p[2]))
  <2>1. /\ n \in Nat /\ p[1] \in Seq(T) /\ p[2] \in Seq(T) /\ Len(p[1]) = n + 1 /\ Len(p[2]) = n + 1
        /\ \A i \in 1..(n + 1): Alike(p[1][i], p[2][i])
    OBVIOUS
  <2>2. \A q \in Pairs(n): Alike(FlattenSeq(q[1]), FlattenSeq(q[2]))
    OBVIOUS
  <2> DEFINE a == SubSeq(p[1], 1, n)
             b == SubSeq(p[2], 1, n)
             x == p[1][n + 1]
             y == p[2][n + 1]
  <2> HIDE DEF T, N
  <2>3. /\ a \in Seq(T) /\ Len(a) = n /\ x \in T /\ p[1] = Append(a, x)
        /\ b \in Seq(T) /\ Len(b) = n /\ y \in T /\ p[2] = Append(b, y)
    BY <2>1, SeqIsAppend
  <2> HIDE DEF a, b, x, y
  <2>4. \A i \in 1..n: a[i] = p[1][i] /\ b[i] = p[2][i] /\ i \in 1..(n + 1)
    BY <2>1, <2>3
  <2>5. <<a, b>> \in Pairs(n)
    BY <2>1, <2>3, <2>4
  <2>6. Alike(FlattenSeq(a), FlattenSeq(b))
    BY <2>2, <2>5
  <2>7. Alike(x, y)
    BY <2>1 DEF x, y
  <2>8. /\ FlattenSeq(p[1]) = FlattenSeq(a) \o x /\ FlattenSeq(p[2]) = FlattenSeq(b) \o y
        /\ FlattenSeq(a) \in Seq(Nat) /\ FlattenSeq(b) \in Seq(Nat) /\ x \in Seq(Nat) /\ y \in Seq(Nat)
    BY <2>3, FlattenAppend, FlattenTyped DEF T
  <2> QED
    BY <2>6, <2>7, <2>8, AlikeConcat
<1>3. N \in SUBSET Nat /\ \A n \in N: n + 1 \in N
  <2> HIDE DEF Pairs
  <2>1. \A n \in N: n + 1 \in Nat /\ \A p \in Pairs(n + 1): Alike(FlattenSeq(p[1]), FlattenSeq(p[2]))
    BY <1>2
  <2> QED
    BY <2>1
<1> HIDE DEF N
<1>4. N = Nat
  BY <1>1, <1>3, SetInduction
<1>5. Len(ss) \in Nat /\ Len(ss) \in N
  BY <1>4
<1>6. <<ss, tt>> \in Pairs(Len(ss))
  OBVIOUS
<1> HIDE DEF Pairs
<1> QED
  BY <1>5, <1>6 DEF N

-----------------------------------------------------------------------------------
(* What is taken is the front of what was there *)

LEMMA ContinuesOn ==
  ASSUME NEW S, NEW a \in Seq(S), NEW b \in Seq(S), NEW left \in Seq(S), NEW all, NEW middle,
         Continues(all, a, middle), Continues(middle, b, left)
  PROVE  Continues(all, a \o b, left)
<1>1. all = a \o middle /\ middle = b \o left
  BY DEF Continues
<1>2. Associates(a, b, left)
  BY ConcatAssociates
<1> QED
  BY <1>1, <1>2, Zenon DEF Continues, Associates

LEMMA FrontBytes ==
  ASSUME NEW T, NEW bytes \in Seq(T), NEW n \in Nat, TakeBytes(bytes, n).ok
  PROVE  /\ TakeBytes(bytes, n).value \in Seq(T) /\ Len(TakeBytes(bytes, n).value) = n
         /\ TakeBytes(bytes, n).rest \in Seq(T)
         /\ Continues(bytes, TakeBytes(bytes, n).value, TakeBytes(bytes, n).rest)
<1>1. Len(bytes) \in Nat
  OBVIOUS
<1>2. ~(Len(bytes) < n)
  BY DEF TakeBytes, Truncated
<1>3. /\ TakeBytes(bytes, n).value = SubSeq(bytes, 1, n)
      /\ TakeBytes(bytes, n).rest = SubSeq(bytes, n + 1, Len(bytes))
  BY <1>2 DEF TakeBytes, Taken
<1>4. n <= Len(bytes)
  BY <1>1, <1>2
<1>5. /\ SubSeq(bytes, 1, n) \in Seq(T) /\ Len(SubSeq(bytes, 1, n)) = n
      /\ SubSeq(bytes, n + 1, Len(bytes)) \in Seq(T)
      /\ bytes = SubSeq(bytes, 1, n) \o SubSeq(bytes, n + 1, Len(bytes))
  BY <1>4, TwoSlices
<1>6. Continues(bytes, TakeBytes(bytes, n).value, TakeBytes(bytes, n).rest)
  BY <1>3, <1>5, Zenon DEF Continues
<1> QED
  BY <1>3, <1>5, <1>6

LEMMA FrontWord ==
  ASSUME NEW order, NEW bytes \in Seq(Byte), TakeU32(order, bytes).ok
  PROVE  /\ TakeU32(order, bytes).value \in Nat
         /\ TakeU32(order, bytes).rest \in Seq(Byte)
         /\ Word(order, TakeU32(order, bytes).value) \in Seq(Byte)
         /\ Continues(bytes, Word(order, TakeU32(order, bytes).value), TakeU32(order, bytes).rest)
<1> DEFINE word == TakeBytes(bytes, WordLen)
           n    == TakeU32(order, bytes).value
           left == TakeU32(order, bytes).rest
<1>1. WordLen \in Nat
  BY BytesAssumption
<1>2. word.ok
  BY DEF TakeU32, Truncated
<1>3. n = ReadU32(order, word.value) /\ left = word.rest
  BY <1>2 DEF TakeU32, Taken
<1>4. /\ word.value \in Seq(Byte) /\ Len(word.value) = WordLen /\ word.rest \in Seq(Byte)
      /\ Continues(bytes, word.value, word.rest)
  BY <1>1, <1>2, FrontBytes
<1> HIDE DEF word, n, left
<1>5. n \in Nat /\ Number(order, n, Len(word.value)) = word.value
  BY <1>3, <1>4, NumberRead, NumberReadBack
<1>6. Word(order, n) = word.value
  BY <1>4, <1>5 DEF Word
<1>7. n \in Nat /\ left \in Seq(Byte) /\ Word(order, n) \in Seq(Byte) /\ Continues(bytes, Word(order, n), left)
  BY <1>3, <1>4, <1>5, <1>6
<1> QED
  BY <1>7 DEF n, left

LEMMA FrontPrefixed ==
  ASSUME NEW order, NEW bytes \in Seq(Byte), TakeLengthPrefixed(order, bytes).ok
  PROVE  /\ TakeLengthPrefixed(order, bytes).value \in Seq(Byte)
         /\ TakeLengthPrefixed(order, bytes).rest \in Seq(Byte)
         /\ Prefixed(order, TakeLengthPrefixed(order, bytes).value) \in Seq(Byte)
         /\ Continues(bytes, Prefixed(order, TakeLengthPrefixed(order, bytes).value), TakeLengthPrefixed(order, bytes).rest)
<1> DEFINE length == TakeU32(order, bytes)
           taken  == TakeBytes(length.rest, length.value)
           word   == Word(order, length.value)
<1>1. length.ok /\ TakeLengthPrefixed(order, bytes) = taken
  BY DEF TakeLengthPrefixed, Truncated
<1>2. /\ length.value \in Nat /\ length.rest \in Seq(Byte) /\ word \in Seq(Byte)
      /\ Continues(bytes, word, length.rest)
  BY <1>1, FrontWord
<1>3. taken.ok
  BY <1>1
<1> HIDE DEF length
<1>4. /\ taken.value \in Seq(Byte) /\ Len(taken.value) = length.value /\ taken.rest \in Seq(Byte)
      /\ Continues(length.rest, taken.value, taken.rest)
  BY <1>2, <1>3, FrontBytes
<1> HIDE DEF taken
<1>5. Prefixed(order, taken.value) = word \o taken.value
  BY <1>4, Zenon DEF Prefixed
<1> HIDE DEF word
<1>6. Continues(bytes, word \o taken.value, taken.rest) /\ word \o taken.value \in Seq(Byte)
  BY <1>2, <1>4, ContinuesOn, ConcatProperties
<1>7. Continues(bytes, Prefixed(order, taken.value), taken.rest) /\ Prefixed(order, taken.value) \in Seq(Byte)
  BY <1>5, <1>6, Zenon
<1> QED
  BY <1>1, <1>4, <1>7

LEMMA FrontByte ==
  ASSUME NEW bytes \in Seq(Byte), TakeU8(bytes).ok
  PROVE  /\ TakeU8(bytes).value \in Byte /\ TakeU8(bytes).rest \in Seq(Byte)
         /\ Continues(bytes, <<TakeU8(bytes).value>>, TakeU8(bytes).rest)
<1>1. bytes # << >> /\ TakeU8(bytes).value = Head(bytes) /\ TakeU8(bytes).rest = Tail(bytes)
  BY DEF TakeU8, Truncated, Taken
<1> HIDE DEF Byte
<1>2. Head(bytes) \in Byte /\ Tail(bytes) \in Seq(Byte) /\ bytes = <<Head(bytes)>> \o Tail(bytes)
  BY <1>1
<1> QED
  BY <1>1, <1>2, Zenon DEF Continues

-----------------------------------------------------------------------------------
(* What a record so far is written as *)

LongLabels     == [value: Seq(Byte), label: Seq(Nat)]
LabelRecords   == [variableName: Seq(Nat), width: Nat, labels: Seq(LongLabels)]
MissingRecords == [variableName: Seq(Nat), values: Seq(Seq(Byte))]

LabelForm(order, x)       == Prefixed(order, x.value) \o Prefixed(order, x.label)
LabelForms(order, labels) == [i \in DOMAIN labels |-> LabelForm(order, labels[i])]

ValueForm(order, value, strlen, again) == IF again THEN Word(order, strlen) \o value ELSE value
ValueForms(order, values, strlen, marks) ==
  [i \in DOMAIN values |-> ValueForm(order, values[i], strlen, i \in marks)]

(* A record of which so many labels, or values, are still to come. *)
LabelsSoFar(order, x, owed) ==
  Prefixed(order, x.variableName) \o Word(order, x.width) \o Word(order, Len(x.labels) + owed)
    \o FlattenSeq(LabelForms(order, x.labels))
MissingSoFar(order, x, strlen, marks, owed) ==
  Prefixed(order, x.variableName) \o <<Len(x.values) + owed>> \o Word(order, strlen)
    \o FlattenSeq(ValueForms(order, x.values, strlen, marks))

LEMMA BytesAreNumbers == Seq(Byte) \subseteq Seq(Nat)
<1>1. Byte \subseteq Nat
  BY BytesAssumption DEF Byte
<1> HIDE DEF Byte
<1> QED
  BY <1>1, SeqMonotonic

LEMMA WordTyped ==
  ASSUME NEW order, NEW number \in Nat
  PROVE  Word(order, number) \in Seq(Nat)
<1>1. WordLen \in Nat
  BY BytesAssumption
<1>2. Word(order, number) \in Seq(Byte)
  BY <1>1, NumberTyped DEF Word
<1> QED
  BY <1>2, BytesAreNumbers

LEMMA PrefixedTyped ==
  ASSUME NEW order, NEW bytes \in Seq(Nat)
  PROVE  Prefixed(order, bytes) \in Seq(Nat)
<1>1. Word(order, Len(bytes)) \in Seq(Nat)
  BY WordTyped
<1>2. Word(order, Len(bytes)) \o bytes \in Seq(Nat)
  BY <1>1, ConcatProperties
<1> QED
  BY <1>2, Zenon DEF Prefixed

(* Name and label are shown decoded; their form is read as the bytes were. *)
LEMMA PrefixedAlike ==
  ASSUME NEW order, NEW bytes \in Seq(Byte)
  PROVE  /\ Decoded(bytes) \in Seq(Nat) /\ Prefixed(order, Decoded(bytes)) \in Seq(Nat)
         /\ Prefixed(order, bytes) \in Seq(Nat)
         /\ Alike(Prefixed(order, bytes), Prefixed(order, Decoded(bytes)))
<1> DEFINE word == Word(order, Len(bytes))
           read == Decoded(bytes)
<1>1. bytes \in Seq(Nat) /\ read \in Seq(Nat) /\ Len(read) = Len(bytes) /\ Alike(bytes, read)
  BY AlikeDecoded
<1>2. word \in Seq(Nat) /\ Alike(word, word)
  BY WordTyped, <1>1 DEF Alike
<1>3. Prefixed(order, bytes) = word \o bytes
  BY Zenon DEF Prefixed
<1>4. Prefixed(order, read) = word \o read
  BY <1>1, Zenon DEF Prefixed
<1> HIDE DEF word, read
<1>5. Alike(word \o bytes, word \o read)
  BY <1>1, <1>2, AlikeConcat
<1>6. Alike(Prefixed(order, bytes), Prefixed(order, read))
  BY <1>3, <1>4, <1>5, Zenon
<1>7. Prefixed(order, bytes) \in Seq(Nat) /\ Prefixed(order, read) \in Seq(Nat)
  BY <1>1, PrefixedTyped
<1> QED
  BY <1>1, <1>6, <1>7 DEF read

LEMMA LabelFormTyped ==
  ASSUME NEW order, NEW x \in LongLabels
  PROVE  LabelForm(order, x) \in Seq(Nat)
<1>1. x.value \in Seq(Nat) /\ x.label \in Seq(Nat)
  BY BytesAreNumbers DEF LongLabels
<1>2. Prefixed(order, x.value) \in Seq(Nat) /\ Prefixed(order, x.label) \in Seq(Nat)
  BY <1>1, PrefixedTyped
<1>3. Prefixed(order, x.value) \o Prefixed(order, x.label) \in Seq(Nat)
  BY <1>2, ConcatProperties
<1> QED
  BY <1>3, Zenon DEF LabelForm

LEMMA LabelFormsTyped ==
  ASSUME NEW order, NEW labels \in Seq(LongLabels)
  PROVE  /\ LabelForms(order, labels) \in Seq(Seq(Nat)) /\ Len(LabelForms(order, labels)) = Len(labels)
         /\ FlattenSeq(LabelForms(order, labels)) \in Seq(Nat)
<1> DEFINE L == LongLabels
           T == Seq(Nat)
           form(i) == LabelForm(order, labels[i])
<1>1. labels \in Seq(L)
  OBVIOUS
<1> HIDE DEF L
<1>2. Len(labels) \in Nat /\ DOMAIN labels = 1..Len(labels) /\ \A i \in 1..Len(labels): labels[i] \in L
  BY <1>1
<1>3. \A i \in 1..Len(labels): form(i) \in T
  BY <1>2, LabelFormTyped DEF L
<1>4. LabelForms(order, labels) = [i \in 1..Len(labels) |-> form(i)]
  BY <1>2, Zenon DEF LabelForms
<1> HIDE DEF form, T
<1>5. LabelForms(order, labels) \in Seq(T) /\ Len(LabelForms(order, labels)) = Len(labels)
  BY <1>2, <1>3, <1>4
<1> QED
  BY <1>5, FlattenTyped DEF T

LEMMA LabelFormsAppend ==
  ASSUME NEW order, NEW labels \in Seq(LongLabels), NEW x \in LongLabels
  PROVE  LabelForms(order, Append(labels, x)) = Append(LabelForms(order, labels), LabelForm(order, x))
<1> DEFINE L == LongLabels
           T == Seq(Nat)
           n == Len(labels)
           old == LabelForms(order, labels)
           new == LabelForms(order, Append(labels, x))
           last == LabelForm(order, x)
           form(i) == LabelForm(order, labels[i])
<1>1. labels \in Seq(L) /\ x \in L
  OBVIOUS
<1>2. old \in Seq(T) /\ Len(old) = n /\ last \in T
  BY LabelFormsTyped, LabelFormTyped
<1> HIDE DEF L
<1>3. /\ n \in Nat /\ DOMAIN labels = 1..n
      /\ DOMAIN Append(labels, x) = 1..(n + 1)
      /\ \A i \in 1..n: Append(labels, x)[i] = labels[i]
      /\ Append(labels, x)[n + 1] = x
  BY <1>1, AppendFacts
<1>4. DOMAIN new = 1..(n + 1) /\ new = [i \in DOMAIN new |-> new[i]]
  BY <1>3 DEF LabelForms
<1>5. \A i \in 1..n: new[i] = old[i]
  BY <1>3 DEF LabelForms
<1>6. new[n + 1] = last
  BY <1>3 DEF LabelForms
<1> HIDE DEF old, new, last, T, n
<1>7. new = Append(old, last)
  BY <1>2, <1>4, <1>5, <1>6, OneMore
<1> QED
  BY <1>7 DEF new, old, last

LEMMA LabelsSoFarTyped ==
  ASSUME NEW order, NEW x \in LabelRecords, NEW owed \in Nat
  PROVE  /\ LabelsSoFar(order, x, owed) \in Seq(Nat)
         /\ Prefixed(order, x.variableName) \o Word(order, x.width) \o Word(order, Len(x.labels) + owed) \in Seq(Nat)
<1>1. x.variableName \in Seq(Nat) /\ x.width \in Nat /\ x.labels \in Seq(LongLabels)
  BY DEF LabelRecords
<1>2. Len(x.labels) + owed \in Nat
  BY <1>1
<1>3. /\ Prefixed(order, x.variableName) \in Seq(Nat) /\ Word(order, x.width) \in Seq(Nat)
      /\ Word(order, Len(x.labels) + owed) \in Seq(Nat) /\ FlattenSeq(LabelForms(order, x.labels)) \in Seq(Nat)
  BY <1>1, <1>2, PrefixedTyped, WordTyped, LabelFormsTyped
<1>4. Prefixed(order, x.variableName) \o Word(order, x.width) \o Word(order, Len(x.labels) + owed) \in Seq(Nat)
  BY <1>3, ConcatProperties
<1>5. Prefixed(order, x.variableName) \o Word(order, x.width) \o Word(order, Len(x.labels) + owed)
        \o FlattenSeq(LabelForms(order, x.labels)) \in Seq(Nat)
  BY <1>3, <1>4, ConcatProperties
<1> QED
  BY <1>4, <1>5, Zenon DEF LabelsSoFar

(* One label more and one fewer to come *)
LEMMA LabelsGrow ==
  ASSUME NEW order, NEW x \in LabelRecords, NEW owed \in Nat, owed > 0, NEW label \in LongLabels,
         NEW more, more = [x EXCEPT !.labels = Append(@, label)]
  PROVE  /\ more \in LabelRecords
         /\ Continues(LabelsSoFar(order, more, owed - 1), LabelsSoFar(order, x, owed), LabelForm(order, label))
<1> DEFINE L == LongLabels
           front == Prefixed(order, x.variableName) \o Word(order, x.width) \o Word(order, Len(x.labels) + owed)
           flat == FlattenSeq(LabelForms(order, x.labels))
           last == LabelForm(order, label)
<1>1. x.labels \in Seq(L) /\ label \in L
  BY DEF LabelRecords
<1>2. /\ LabelForms(order, x.labels) \in Seq(Seq(Nat)) /\ flat \in Seq(Nat) /\ last \in Seq(Nat)
      /\ LabelForms(order, Append(x.labels, label)) = Append(LabelForms(order, x.labels), last)
  BY <1>1, LabelFormsTyped, LabelFormTyped, LabelFormsAppend
<1>3. FlattenSeq(LabelForms(order, Append(x.labels, label))) = flat \o last
  BY <1>2, FlattenAppend
<1>4. front \in Seq(Nat)
  BY LabelsSoFarTyped, Zenon
<1> HIDE DEF L
<1>5. Len(Append(x.labels, label)) + (owed - 1) = Len(x.labels) + owed /\ Append(x.labels, label) \in Seq(L)
  BY <1>1
<1>6. /\ more.variableName = x.variableName /\ more.width = x.width /\ more.labels = Append(x.labels, label)
      /\ more \in LabelRecords
  BY <1>5 DEF LabelRecords, L
<1>7. LabelsSoFar(order, x, owed) = front \o flat
  BY Zenon DEF LabelsSoFar
<1>8. LabelsSoFar(order, more, owed - 1) = front \o (flat \o last)
  BY <1>3, <1>5, <1>6, Zenon DEF LabelsSoFar
<1> HIDE DEF front, flat, last
<1>9. Associates(front, flat, last)
  BY <1>2, <1>4, ConcatAssociates
<1>10. LabelsSoFar(order, more, owed - 1) = LabelsSoFar(order, x, owed) \o last
  BY <1>7, <1>8, <1>9, Zenon DEF Associates
<1> QED
  BY <1>6, <1>10, Zenon DEF Continues, last

LEMMA ValueFormTyped ==
  ASSUME NEW order, NEW value \in Seq(Byte), NEW strlen \in Nat, NEW again
  PROVE  ValueForm(order, value, strlen, again) \in Seq(Nat)
<1>1. value \in Seq(Nat) /\ Word(order, strlen) \in Seq(Nat)
  BY BytesAreNumbers, WordTyped
<1>2. Word(order, strlen) \o value \in Seq(Nat)
  BY <1>1, ConcatProperties
<1> QED
  BY <1>1, <1>2, Zenon DEF ValueForm

LEMMA ValueFormsTyped ==
  ASSUME NEW order, NEW values \in Seq(Seq(Byte)), NEW strlen \in Nat, NEW marks
  PROVE  /\ ValueForms(order, values, strlen, marks) \in Seq(Seq(Nat))
         /\ Len(ValueForms(order, values, strlen, marks)) = Len(values)
         /\ FlattenSeq(ValueForms(order, values, strlen, marks)) \in Seq(Nat)
<1> DEFINE L == Seq(Byte)
           T == Seq(Nat)
           form(i) == ValueForm(order, values[i], strlen, i \in marks)
           forms == ValueForms(order, values, strlen, marks)
<1>1. values \in Seq(L)
  OBVIOUS
<1> HIDE DEF L
<1>2. Len(values) \in Nat /\ DOMAIN values = 1..Len(values) /\ \A i \in 1..Len(values): values[i] \in L
  BY <1>1
<1>3. \A i \in 1..Len(values): form(i) \in T
  <2> SUFFICES ASSUME NEW i \in 1..Len(values) PROVE form(i) \in T
    OBVIOUS
  <2>1. values[i] \in Seq(Byte)
    BY <1>2 DEF L
  <2> QED
    BY <2>1, ValueFormTyped, Zenon
<1>4. forms = [i \in 1..Len(values) |-> form(i)]
  BY <1>2, Zenon DEF ValueForms
<1> HIDE DEF form, T, forms
<1>5. forms \in Seq(T) /\ Len(forms) = Len(values)
  BY <1>2, <1>3, <1>4
<1> QED
  BY <1>5, FlattenTyped DEF T, forms

LEMMA ValueFormsAppend ==
  ASSUME NEW order, NEW values \in Seq(Seq(Byte)), NEW value \in Seq(Byte), NEW strlen \in Nat,
         NEW marks \in SUBSET (1..Len(values)), NEW again \in BOOLEAN
  PROVE  ValueForms(order, Append(values, value), strlen, marks \cup (IF again THEN {Len(values) + 1} ELSE {}))
           = Append(ValueForms(order, values, strlen, marks), ValueForm(order, value, strlen, again))
<1> DEFINE L == Seq(Byte)
           T == Seq(Nat)
           n == Len(values)
           more == marks \cup (IF again THEN {n + 1} ELSE {})
           old == ValueForms(order, values, strlen, marks)
           new == ValueForms(order, Append(values, value), strlen, more)
           last == ValueForm(order, value, strlen, again)
<1>1. values \in Seq(L) /\ value \in L
  OBVIOUS
<1>2. old \in Seq(T) /\ Len(old) = n /\ last \in T
  BY ValueFormsTyped, ValueFormTyped
<1> HIDE DEF L
<1>3. /\ n \in Nat /\ DOMAIN values = 1..n
      /\ DOMAIN Append(values, value) = 1..(n + 1)
      /\ \A i \in 1..n: Append(values, value)[i] = values[i]
      /\ Append(values, value)[n + 1] = value
  BY <1>1, AppendFacts
<1>4. /\ \A i \in 1..n: (i \in more) = (i \in marks)
      /\ (n + 1 \in more) = again
  BY <1>3
<1> HIDE DEF more, n
<1>5. DOMAIN new = 1..(n + 1) /\ new = [i \in DOMAIN new |-> new[i]]
  BY <1>3 DEF ValueForms
<1>6. \A i \in 1..n: new[i] = old[i]
  <2> SUFFICES ASSUME NEW i \in 1..n PROVE new[i] = old[i]
    OBVIOUS
  <2>1. i \in 1..(n + 1)
    BY <1>3
  <2>2. new[i] = ValueForm(order, Append(values, value)[i], strlen, i \in more)
    BY <1>3, <2>1 DEF ValueForms
  <2>3. old[i] = ValueForm(order, values[i], strlen, i \in marks)
    BY <1>3 DEF ValueForms
  <2> QED
    BY <1>3, <1>4, <2>2, <2>3
<1>7. new[n + 1] = last
  <2>1. n + 1 \in 1..(n + 1)
    BY <1>3
  <2>2. new[n + 1] = ValueForm(order, Append(values, value)[n + 1], strlen, n + 1 \in more)
    BY <1>3, <2>1 DEF ValueForms
  <2> QED
    BY <1>3, <1>4, <2>2
<1> HIDE DEF old, new, last, T
<1>8. new = Append(old, last)
  BY <1>2, <1>5, <1>6, <1>7, OneMore
<1> QED
  BY <1>8 DEF new, old, last, more, n

LEMMA MissingSoFarTyped ==
  ASSUME NEW order, NEW x \in MissingRecords, NEW strlen \in Nat, NEW marks, NEW owed \in Nat
  PROVE  /\ MissingSoFar(order, x, strlen, marks, owed) \in Seq(Nat)
         /\ Prefixed(order, x.variableName) \o <<Len(x.values) + owed>> \o Word(order, strlen) \in Seq(Nat)
<1>1. x.variableName \in Seq(Nat) /\ x.values \in Seq(Seq(Byte))
  BY DEF MissingRecords
<1>2. Len(x.values) + owed \in Nat
  BY <1>1
<1>3. /\ Prefixed(order, x.variableName) \in Seq(Nat) /\ Word(order, strlen) \in Seq(Nat)
      /\ <<Len(x.values) + owed>> \in Seq(Nat) /\ FlattenSeq(ValueForms(order, x.values, strlen, marks)) \in Seq(Nat)
  BY <1>1, <1>2, PrefixedTyped, WordTyped, ValueFormsTyped
<1>4. Prefixed(order, x.variableName) \o <<Len(x.values) + owed>> \o Word(order, strlen) \in Seq(Nat)
  BY <1>3, ConcatProperties
<1>5. Prefixed(order, x.variableName) \o <<Len(x.values) + owed>> \o Word(order, strlen)
        \o FlattenSeq(ValueForms(order, x.values, strlen, marks)) \in Seq(Nat)
  BY <1>3, <1>4, ConcatProperties
<1> QED
  BY <1>4, <1>5, Zenon DEF MissingSoFar

(* One value more, its width before it or not, and one fewer to come *)
WithMissing(x, value) == [x EXCEPT !.values = Append(@, value)]
MarkedOn(x, marked, again) == marked \cup (IF again THEN {Len(x.values) + 1} ELSE {})

LEMMA MissingGrows ==
  ASSUME NEW order, NEW x \in MissingRecords, NEW strlen \in Nat, NEW marks \in SUBSET (1..Len(x.values)),
         NEW owed \in Nat, owed > 0, NEW value \in Seq(Byte), NEW again \in BOOLEAN,
         NEW more, more = WithMissing(x, value)
  PROVE  /\ more \in MissingRecords /\ more.variableName = x.variableName /\ more.values = Append(x.values, value)
         /\ Continues(MissingSoFar(order, more, strlen, MarkedOn(x, marks, again), owed - 1),
                      MissingSoFar(order, x, strlen, marks, owed), ValueForm(order, value, strlen, again))
<1> DEFINE L == Seq(Byte)
           front == Prefixed(order, x.variableName) \o <<Len(x.values) + owed>> \o Word(order, strlen)
           flat == FlattenSeq(ValueForms(order, x.values, strlen, marks))
           last == ValueForm(order, value, strlen, again)
           marked == marks \cup (IF again THEN {Len(x.values) + 1} ELSE {})
<1>1. x.values \in Seq(L) /\ value \in L
  BY DEF MissingRecords
<1>2. /\ ValueForms(order, x.values, strlen, marks) \in Seq(Seq(Nat)) /\ flat \in Seq(Nat) /\ last \in Seq(Nat)
      /\ ValueForms(order, Append(x.values, value), strlen, marked) = Append(ValueForms(order, x.values, strlen, marks), last)
  BY <1>1, ValueFormsTyped, ValueFormTyped, ValueFormsAppend
<1>3. FlattenSeq(ValueForms(order, Append(x.values, value), strlen, marked)) = flat \o last
  BY <1>2, FlattenAppend
<1>4. front \in Seq(Nat)
  BY MissingSoFarTyped, Zenon
<1> HIDE DEF L, marked
<1>5. Len(Append(x.values, value)) + (owed - 1) = Len(x.values) + owed /\ Append(x.values, value) \in Seq(L)
  BY <1>1
<1>6. /\ more.variableName = x.variableName /\ more.values = Append(x.values, value)
      /\ more \in MissingRecords
  BY <1>5 DEF MissingRecords, L, WithMissing
<1>7. MissingSoFar(order, x, strlen, marks, owed) = front \o flat
  BY Zenon DEF MissingSoFar
<1>8. MissingSoFar(order, more, strlen, marked, owed - 1) = front \o (flat \o last)
  BY <1>3, <1>5, <1>6, Zenon DEF MissingSoFar
<1> HIDE DEF front, flat, last
<1>9. Associates(front, flat, last)
  BY <1>2, <1>4, ConcatAssociates
<1>10. MissingSoFar(order, more, strlen, marked, owed - 1) = MissingSoFar(order, x, strlen, marks, owed) \o last
  BY <1>7, <1>8, <1>9, Zenon DEF Associates
<1>11. Continues(MissingSoFar(order, more, strlen, marked, owed - 1), MissingSoFar(order, x, strlen, marks, owed), last)
  BY <1>10, Zenon DEF Continues
<1> QED
  BY <1>6, <1>11, Zenon DEF last, marked, MarkedOn

-----------------------------------------------------------------------------------
(* The payload so far, record by record *)

RecordsOf(type) == IF type = 21 THEN LabelRecords ELSE MissingRecords
Complaints == {RepeatedLength(name): name \in Seq(Nat)}
NoteOf(x, marked) == IF marked = {} THEN << >> ELSE <<RepeatedLength(x.variableName)>>

(* x is what part reads as, with `owed` labels or values to come; the marked values had the *)
(* width before them.                                                                           *)
Reads(x, part, marked, strlen, owed) ==
  IF subtype = 21 THEN marked = {} /\ Alike(part, LabelsSoFar(byteOrder, x, owed))
  ELSE /\ Len(x.values) + owed \in 1..MaxMissingValues
       /\ marked \subseteq 2..Len(x.values)
       /\ x.values # << >> => Len(x.values[1]) = strlen
       /\ Alike(part, MissingSoFar(byteOrder, x, strlen, marked, owed))

Done(x, part, marked, note) ==
  note = NoteOf(x, marked) /\ \E strlen \in Nat: Reads(x, part, marked, strlen, 0)
Coming(x, part, marked, note, strlen, owed, again) ==
  /\ note = << >> /\ Reads(x, part, marked, strlen, owed)
  /\ subtype = 22 => again = (marked # {})
Standing(x, part, marked, note, strlen, owed, again) ==
  IF owed = 0 THEN Done(x, part, marked, note) ELSE Coming(x, part, marked, note, strlen, owed, again)

Aligned(xs, parts, marks, notes) ==
  /\ xs \in Seq(RecordsOf(subtype)) /\ parts \in Seq(Seq(Byte))
  /\ marks \in Seq(SUBSET Nat) /\ notes \in Seq(Seq(Complaints))
  /\ Len(parts) = Len(xs) /\ Len(marks) = Len(xs) /\ Len(notes) = Len(xs)

Traced(xs, left, strlen, owed, again, said, parts, marks, notes) ==
  /\ Aligned(xs, parts, marks, notes)
  /\ left \in Seq(Byte) /\ Continues(payload, FlattenSeq(parts), left)
  /\ said = FlattenSeq(notes)
  /\ \A r \in 1..(Len(xs) - 1): Done(xs[r], parts[r], marks[r], notes[r])
  /\ IF xs = << >> THEN owed = 0
     ELSE Standing(xs[Len(xs)], parts[Len(xs)], marks[Len(xs)], notes[Len(xs)], strlen, owed, again)

LEMMA AppendLast ==
  ASSUME NEW T, NEW s \in Seq(T), NEW e \in T
  PROVE  /\ Append(s, e) \in Seq(T) /\ Len(Append(s, e)) = Len(s) + 1 /\ Len(s) \in Nat
         /\ \A i \in 1..Len(s): Append(s, e)[i] = s[i]
         /\ Append(s, e)[Len(s) + 1] = e
OBVIOUS

(* One element more *)
Grown(ys, xs, x) ==
  Len(ys) = Len(xs) + 1 /\ ys[Len(xs) + 1] = x /\ \A i \in 1..Len(xs): ys[i] = xs[i]

LEMMA AppendGrows ==
  ASSUME NEW T, NEW s \in Seq(T), NEW e \in T
  PROVE  Append(s, e) \in Seq(T) /\ Grown(Append(s, e), s, e)
BY AppendLast DEF Grown

LEMMA AlignedAppends ==
  ASSUME NEW xs, NEW parts, NEW marks, NEW notes, Aligned(xs, parts, marks, notes),
         NEW x \in RecordsOf(subtype), NEW part \in Seq(Byte), NEW marked \in SUBSET Nat, NEW note \in Seq(Complaints)
  PROVE  /\ Aligned(Append(xs, x), Append(parts, part), Append(marks, marked), Append(notes, note))
         /\ Grown(Append(xs, x), xs, x) /\ Grown(Append(parts, part), parts, part)
         /\ Grown(Append(marks, marked), marks, marked) /\ Grown(Append(notes, note), notes, note)
<1> DEFINE X == RecordsOf(subtype)
           P == Seq(Byte)
           M == SUBSET Nat
           W == Seq(Complaints)
<1>1. /\ xs \in Seq(X) /\ parts \in Seq(P) /\ marks \in Seq(M) /\ notes \in Seq(W)
      /\ Len(parts) = Len(xs) /\ Len(marks) = Len(xs) /\ Len(notes) = Len(xs)
      /\ x \in X /\ part \in P /\ marked \in M /\ note \in W
  BY DEF Aligned
<1> HIDE DEF X, P, M, W
<1>2. Append(xs, x) \in Seq(X) /\ Grown(Append(xs, x), xs, x)
  BY <1>1, AppendGrows
<1>3. Append(parts, part) \in Seq(P) /\ Grown(Append(parts, part), parts, part)
  BY <1>1, AppendGrows
<1>4. Append(marks, marked) \in Seq(M) /\ Grown(Append(marks, marked), marks, marked)
  BY <1>1, AppendGrows
<1>5. Append(notes, note) \in Seq(W) /\ Grown(Append(notes, note), notes, note)
  BY <1>1, AppendGrows
<1>6. /\ Len(Append(xs, x)) = Len(xs) + 1 /\ Len(Append(parts, part)) = Len(xs) + 1
      /\ Len(Append(marks, marked)) = Len(xs) + 1 /\ Len(Append(notes, note)) = Len(xs) + 1
  BY <1>1, <1>2, <1>3, <1>4, <1>5, Zenon DEF Grown
<1>7. Aligned(Append(xs, x), Append(parts, part), Append(marks, marked), Append(notes, note))
  BY <1>2, <1>3, <1>4, <1>5, <1>6, Zenon DEF Aligned, X, P, M, W
<1> QED
  BY <1>2, <1>3, <1>4, <1>5, <1>7, Zenon

(* A record begins *)
LEMMA TraceAppends ==
  ASSUME NEW xs, NEW left, NEW strlen, NEW again, NEW said, NEW parts, NEW marks, NEW notes,
         Traced(xs, left, strlen, 0, again, said, parts, marks, notes),
         NEW x \in RecordsOf(subtype), NEW part \in Seq(Byte), NEW marked \in SUBSET Nat,
         NEW wide, NEW owed \in Nat, NEW repeats, Standing(x, part, marked, << >>, wide, owed, repeats),
         NEW lasts \in Seq(Byte), Continues(left, part, lasts)
  PROVE  Traced(Append(xs, x), lasts, wide, owed, repeats, said,
                Append(parts, part), Append(marks, marked), Append(notes, << >>))
<1> DEFINE n  == Len(xs)
           ys == Append(xs, x)
           ps == Append(parts, part)
           ms == Append(marks, marked)
           ns == Append(notes, << >>)
<1>1. /\ Aligned(xs, parts, marks, notes) /\ Continues(payload, FlattenSeq(parts), left)
      /\ said = FlattenSeq(notes)
      /\ \A r \in 1..(n - 1): Done(xs[r], parts[r], marks[r], notes[r])
      /\ xs # << >> => Done(xs[n], parts[n], marks[n], notes[n])
  BY DEF Traced, Standing
<1>2. << >> \in Seq(Complaints)
  BY EmptySeq
<1>3. /\ Aligned(ys, ps, ms, ns) /\ n \in Nat /\ Len(ys) = n + 1
      /\ ys[n + 1] = x /\ ps[n + 1] = part /\ ms[n + 1] = marked /\ ns[n + 1] = << >>
      /\ \A i \in 1..n: ys[i] = xs[i] /\ ps[i] = parts[i] /\ ms[i] = marks[i] /\ ns[i] = notes[i]
  <2>1. Aligned(ys, ps, ms, ns) /\ Grown(ys, xs, x) /\ Grown(ps, parts, part) /\ Grown(ms, marks, marked) /\ Grown(ns, notes, << >>)
    BY <1>1, <1>2, AlignedAppends, Zenon
  <2>2. n \in Nat /\ Len(parts) = n /\ Len(marks) = n /\ Len(notes) = n
    BY <1>1 DEF Aligned
  <2> HIDE DEF ys, ps, ms, ns
  <2> QED
    BY <2>1, <2>2 DEF Grown
<1>4. parts \in Seq(Seq(Byte)) /\ notes \in Seq(Seq(Complaints)) /\ xs \in Seq(RecordsOf(subtype))
  BY <1>1 DEF Aligned
<1>5. FlattenSeq(ps) = FlattenSeq(parts) \o part /\ FlattenSeq(parts) \in Seq(Byte)
  BY <1>4, FlattenAppend, FlattenTyped, Zenon
<1>6. FlattenSeq(ns) = FlattenSeq(notes) \o << >> /\ FlattenSeq(notes) \in Seq(Complaints)
  BY <1>2, <1>4, FlattenAppend, FlattenTyped, Zenon
<1>7. FlattenSeq(ns) = said
  BY <1>1, <1>6, ConcatEmptySeq
<1>8. Continues(payload, FlattenSeq(parts) \o part, lasts)
  BY <1>1, <1>5, ContinuesOn, Zenon
<1>9. Continues(payload, FlattenSeq(ps), lasts)
  BY <1>5, <1>8, Zenon
<1>10. n # 0 => xs # << >>
  BY <1>4, EmptySeq
<1> HIDE DEF ys, ps, ms, ns, n
<1>11. ASSUME NEW r \in 1..(Len(ys) - 1)
       PROVE  Done(ys[r], ps[r], ms[r], ns[r])
  <2>1. r \in 1..n /\ n # 0 /\ (r = n \/ r \in 1..(n - 1))
    BY <1>3
  <2>2. Done(xs[r], parts[r], marks[r], notes[r])
    BY <1>1, <1>10, <2>1
  <2> QED
    BY <1>3, <2>1, <2>2
<1>12. Len(ys) # 0 /\ ys # << >>
  <2>1. ys \in Seq(RecordsOf(subtype))
    BY <1>3 DEF Aligned
  <2> QED
    BY <1>3, <2>1, EmptySeq
<1>13. Standing(ys[Len(ys)], ps[Len(ys)], ms[Len(ys)], ns[Len(ys)], wide, owed, repeats)
  BY <1>3, Zenon
<1>14. Traced(ys, lasts, wide, owed, repeats, said, ps, ms, ns)
  BY <1>3, <1>7, <1>9, <1>11, <1>12, <1>13, Zenon DEF Traced
<1> QED
  BY <1>14 DEF ys, ps, ms, ns

(* Another last element *)
Renewed(ys, xs, x) ==
  Len(ys) = Len(xs) /\ ys[Len(xs)] = x /\ \A i \in 1..(Len(xs) - 1): ys[i] = xs[i]

LEMMA WithLastRenews ==
  ASSUME NEW T, NEW s \in Seq(T), s # << >>, NEW e \in T
  PROVE  WithLast(s, e) \in Seq(T) /\ Renewed(WithLast(s, e), s, e)
<1>1. Len(s) \in 1..Len(s) /\ Len(s) \in Nat
  BY EmptySeq
<1>2. /\ [s EXCEPT ![Len(s)] = e] \in Seq(T) /\ Len([s EXCEPT ![Len(s)] = e]) = Len(s)
      /\ \A j \in 1..Len(s): [s EXCEPT ![Len(s)] = e][j] = IF j = Len(s) THEN e ELSE s[j]
  BY <1>1, ExceptSeq
<1> DEFINE t == [s EXCEPT ![Len(s)] = e]
<1>3. t \in Seq(T) /\ Len(t) = Len(s) /\ \A j \in 1..Len(s): t[j] = IF j = Len(s) THEN e ELSE s[j]
  BY <1>2
<1> HIDE DEF t
<1>4. \A i \in 1..(Len(s) - 1): i \in 1..Len(s) /\ i # Len(s)
  BY <1>1
<1>5. Renewed(t, s, e)
  BY <1>1, <1>3, <1>4 DEF Renewed
<1> QED
  BY <1>3, <1>5 DEF t, WithLast

LEMMA LastPartGoesOn ==
  ASSUME NEW S, NEW ss \in Seq(Seq(S)), ss # << >>, NEW v \in Seq(S), NEW more, Continues(more, ss[Len(ss)], v)
  PROVE  FlattenSeq(WithLast(ss, more)) = FlattenSeq(ss) \o v
<1>1. FlattenSeq([ss EXCEPT ![Len(ss)] = @ \o v]) = FlattenSeq(ss) \o v
  BY LastGoesOn, Zenon
<1>2. more = ss[Len(ss)] \o v
  BY DEF Continues
<1> QED
  BY <1>1, <1>2, Zenon DEF WithLast

LEMMA AlignedRenews ==
  ASSUME NEW xs, NEW parts, NEW marks, NEW notes, Aligned(xs, parts, marks, notes), xs # << >>,
         NEW x \in RecordsOf(subtype), NEW part \in Seq(Byte), NEW marked \in SUBSET Nat, NEW note \in Seq(Complaints)
  PROVE  /\ Aligned(WithLast(xs, x), WithLast(parts, part), WithLast(marks, marked), WithLast(notes, note))
         /\ Renewed(WithLast(xs, x), xs, x) /\ Renewed(WithLast(parts, part), parts, part)
         /\ Renewed(WithLast(marks, marked), marks, marked) /\ Renewed(WithLast(notes, note), notes, note)
         /\ parts # << >> /\ marks # << >> /\ notes # << >>
<1> DEFINE X == RecordsOf(subtype)
           P == Seq(Byte)
           M == SUBSET Nat
           W == Seq(Complaints)
<1>1. /\ xs \in Seq(X) /\ parts \in Seq(P) /\ marks \in Seq(M) /\ notes \in Seq(W)
      /\ Len(parts) = Len(xs) /\ Len(marks) = Len(xs) /\ Len(notes) = Len(xs)
      /\ x \in X /\ part \in P /\ marked \in M /\ note \in W
  BY DEF Aligned
<1> HIDE DEF X, P, M, W
<1>2. parts # << >> /\ marks # << >> /\ notes # << >>
  <2>1. Len(xs) # 0 /\ Len(<< >>) = 0
    BY <1>1, EmptySeq
  <2> QED
    BY <1>1, <2>1
<1>3. WithLast(xs, x) \in Seq(X) /\ Renewed(WithLast(xs, x), xs, x)
  BY <1>1, WithLastRenews
<1>4. WithLast(parts, part) \in Seq(P) /\ Renewed(WithLast(parts, part), parts, part)
  BY <1>1, <1>2, WithLastRenews
<1>5. WithLast(marks, marked) \in Seq(M) /\ Renewed(WithLast(marks, marked), marks, marked)
  BY <1>1, <1>2, WithLastRenews
<1>6. WithLast(notes, note) \in Seq(W) /\ Renewed(WithLast(notes, note), notes, note)
  BY <1>1, <1>2, WithLastRenews
<1>7. /\ Len(WithLast(xs, x)) = Len(xs) /\ Len(WithLast(parts, part)) = Len(xs)
      /\ Len(WithLast(marks, marked)) = Len(xs) /\ Len(WithLast(notes, note)) = Len(xs)
  BY <1>1, <1>3, <1>4, <1>5, <1>6, Zenon DEF Renewed
<1>8. Aligned(WithLast(xs, x), WithLast(parts, part), WithLast(marks, marked), WithLast(notes, note))
  BY <1>3, <1>4, <1>5, <1>6, <1>7, Zenon DEF Aligned, X, P, M, W
<1> QED
  BY <1>2, <1>3, <1>4, <1>5, <1>6, <1>8, Zenon

(* A record goes on *)
LEMMA TraceGoesOn ==
  ASSUME NEW xs, NEW left, NEW strlen, NEW owed \in Nat, owed > 0, NEW again, NEW said, NEW parts, NEW marks, NEW notes,
         Traced(xs, left, strlen, owed, again, said, parts, marks, notes),
         NEW x \in RecordsOf(subtype), NEW v \in Seq(Byte), NEW part, Continues(part, parts[Len(xs)], v),
         NEW marked \in SUBSET Nat, NEW note \in Seq(Complaints),
         NEW repeats, Standing(x, part, marked, note, strlen, owed - 1, repeats),
         NEW lasts \in Seq(Byte), Continues(left, v, lasts)
  PROVE  Traced(WithLast(xs, x), lasts, strlen, owed - 1, repeats, said \o note,
                WithLast(parts, part), WithLast(marks, marked), WithLast(notes, note))
<1> DEFINE n  == Len(xs)
           ys == WithLast(xs, x)
           ps == WithLast(parts, part)
           ms == WithLast(marks, marked)
           ns == WithLast(notes, note)
<1>1. /\ Aligned(xs, parts, marks, notes) /\ Continues(payload, FlattenSeq(parts), left)
      /\ said = FlattenSeq(notes) /\ xs # << >>
      /\ \A r \in 1..(n - 1): Done(xs[r], parts[r], marks[r], notes[r])
      /\ Coming(xs[n], parts[n], marks[n], notes[n], strlen, owed, again)
  BY DEF Traced, Standing
<1>2. /\ parts \in Seq(Seq(Byte)) /\ notes \in Seq(Seq(Complaints)) /\ xs \in Seq(RecordsOf(subtype))
      /\ Len(parts) = n /\ Len(notes) = n /\ Len(marks) = n
  BY <1>1 DEF Aligned
<1>3. n \in Nat /\ n # 0 /\ n \in 1..n
  BY <1>1, <1>2, EmptySeq
<1>4. parts[n] \in Seq(Byte) /\ part \in Seq(Byte)
  <2> DEFINE P == Seq(Byte)
  <2>1. parts \in Seq(P) /\ v \in P
    BY <1>2
  <2> HIDE DEF P
  <2>2. parts[n] \in P
    BY <1>2, <1>3, <2>1
  <2>3. parts[n] \o v \in P
    BY <2>1, <2>2, ConcatProperties DEF P
  <2>4. part \in P
    BY <2>3, Zenon DEF Continues
  <2> QED
    BY <2>2, <2>4 DEF P
<1>5. /\ Aligned(ys, ps, ms, ns) /\ Renewed(ys, xs, x) /\ Renewed(ps, parts, part)
      /\ Renewed(ms, marks, marked) /\ Renewed(ns, notes, note)
      /\ parts # << >> /\ notes # << >>
  BY <1>1, <1>4, AlignedRenews, Zenon
<1>6. /\ Len(ys) = n /\ ys[n] = x /\ ps[n] = part /\ ms[n] = marked /\ ns[n] = note
      /\ \A i \in 1..(n - 1): ys[i] = xs[i] /\ ps[i] = parts[i] /\ ms[i] = marks[i] /\ ns[i] = notes[i]
  <2> HIDE DEF ys, ps, ms, ns
  <2> QED
    BY <1>2, <1>5 DEF Renewed
<1>7. FlattenSeq(ps) = FlattenSeq(parts) \o v /\ FlattenSeq(parts) \in Seq(Byte)
  <2>1. Continues(part, parts[Len(parts)], v)
    BY <1>2
  <2> QED
    BY <1>2, <1>5, <2>1, LastPartGoesOn, FlattenTyped, Zenon
<1>8. FlattenSeq(ns) = said \o note
  <2>1. << >> \o note = note
    BY ConcatEmptySeq
  <2>2. Continues(note, notes[Len(notes)], note)
    BY <1>1, <1>2, <2>1, Zenon DEF Coming, Continues
  <2>3. FlattenSeq(ns) = FlattenSeq(notes) \o note
    BY <1>2, <1>5, <2>2, LastPartGoesOn, Zenon
  <2> QED
    BY <1>1, <2>3, Zenon
<1>9. Continues(payload, FlattenSeq(parts) \o v, lasts)
  BY <1>1, <1>7, ContinuesOn, Zenon
<1>10. Continues(payload, FlattenSeq(ps), lasts)
  BY <1>7, <1>9, Zenon
<1> HIDE DEF ys, ps, ms, ns
<1>11. \A r \in 1..(Len(ys) - 1): Done(ys[r], ps[r], ms[r], ns[r])
  BY <1>1, <1>6
<1>12. ys # << >>
  <2>1. ys \in Seq(RecordsOf(subtype))
    BY <1>5 DEF Aligned
  <2> QED
    BY <1>3, <1>6, <2>1, EmptySeq
<1>13. Standing(ys[Len(ys)], ps[Len(ys)], ms[Len(ys)], ns[Len(ys)], strlen, owed - 1, repeats)
  BY <1>6, Zenon
<1>14. Traced(ys, lasts, strlen, owed - 1, repeats, said \o note, ps, ms, ns)
  BY <1>5, <1>8, <1>10, <1>11, <1>12, <1>13, Zenon DEF Traced
<1> QED
  BY <1>14 DEF ys, ps, ms, ns

LEMMA LabelsAreWritten ==
  ASSUME NEW order, NEW x \in LabelRecords
  PROVE  LabelsWritten(order, x) = LabelsSoFar(order, x, 0)
<1>1. Len(x.labels) + 0 = Len(x.labels)
  BY DEF LabelRecords
<1> QED
  BY <1>1, Zenon DEF LabelsWritten, LabelsSoFar, LabelForms, LabelForm

LEMMA MissingAreWritten ==
  ASSUME NEW order, NEW x \in MissingRecords, NEW marked
  PROVE  MissingWritten(order, x, marked) = MissingSoFar(order, x, Len(x.values[1]), marked, 0)
<1>1. Len(x.values) + 0 = Len(x.values)
  BY DEF MissingRecords
<1> QED
  BY <1>1, Zenon DEF MissingWritten, MissingSoFar, ValueForms, ValueForm

Marked(xs, marks) == {p \in (DOMAIN xs) \X (2..MaxMissingValues): p[2] \in marks[p[1]]}
WrittenAt(xs, marks, r) ==
  IF subtype = 21 THEN LabelsWritten(byteOrder, xs[r])
  ELSE MissingWritten(byteOrder, xs[r], {i \in DOMAIN xs[r].values: <<r, i>> \in Marked(xs, marks)})

(* The form of a record that is done is the writer's. *)
InWritersForm(xs, parts, marks, notes, r) ==
  /\ WrittenAt(xs, marks, r) \in Seq(Nat) /\ Alike(parts[r], WrittenAt(xs, marks, r))
  /\ \A p \in Marked(xs, marks): p[1] = r => p \in Later(subtype, xs)
  /\ notes[r] = IF \E p \in Marked(xs, marks): p[1] = r THEN <<RepeatedLength(xs[r].variableName)>> ELSE << >>

LEMMA DoneIsWritten ==
  ASSUME subtype \in {21, 22}, NEW xs, NEW parts, NEW marks, NEW notes, Aligned(xs, parts, marks, notes),
         NEW r \in 1..Len(xs), Done(xs[r], parts[r], marks[r], notes[r])
  PROVE  InWritersForm(xs, parts, marks, notes, r)
<1>1. DOMAIN xs = 1..Len(xs) /\ xs[r] \in RecordsOf(subtype)
  <2> DEFINE X == RecordsOf(subtype)
  <2>1. xs \in Seq(X)
    BY DEF Aligned
  <2> HIDE DEF X
  <2>2. DOMAIN xs = 1..Len(xs) /\ xs[r] \in X
    BY <2>1
  <2> QED
    BY <2>2 DEF X
<1>2. PICK strlen \in Nat: Reads(xs[r], parts[r], marks[r], strlen, 0)
  BY DEF Done
<1>3. notes[r] = NoteOf(xs[r], marks[r])
  BY DEF Done
<1>4. CASE subtype = 21
  <2>1. xs[r] \in LabelRecords /\ marks[r] = {} /\ Alike(parts[r], LabelsSoFar(byteOrder, xs[r], 0))
    BY <1>1, <1>2, <1>4 DEF Reads, RecordsOf
  <2>2. WrittenAt(xs, marks, r) = LabelsSoFar(byteOrder, xs[r], 0)
    BY <1>4, <2>1, LabelsAreWritten DEF WrittenAt
  <2>3. LabelsSoFar(byteOrder, xs[r], 0) \in Seq(Nat)
    BY <2>1, LabelsSoFarTyped
  <2>4. \A p \in Marked(xs, marks): p[1] # r
    BY <2>1 DEF Marked
  <2>5. notes[r] = << >>
    BY <1>3, <2>1 DEF NoteOf
  <2> QED
    BY <2>1, <2>2, <2>3, <2>4, <2>5 DEF InWritersForm
<1>5. CASE subtype = 22
  <2> DEFINE x == xs[r]
             marked == marks[r]
  <2>1. /\ x \in MissingRecords /\ Len(x.values) + 0 \in 1..MaxMissingValues /\ marked \subseteq 2..Len(x.values)
        /\ (x.values # << >> => Len(x.values[1]) = strlen)
        /\ Alike(parts[r], MissingSoFar(byteOrder, x, strlen, marked, 0))
    BY <1>1, <1>2, <1>5 DEF Reads, RecordsOf
  <2>2. x.values \in Seq(Seq(Byte))
    BY <2>1 DEF MissingRecords
  <2>3. Len(x.values) \in 1..MaxMissingValues /\ DOMAIN x.values = 1..Len(x.values) /\ x.values # << >>
    BY <2>1, <2>2
  <2> HIDE DEF x, marked
  <2>4. \A i \in marked: i \in 2..MaxMissingValues /\ i \in DOMAIN x.values
    <3>1. PICK m \in 1..MaxMissingValues: m = Len(x.values)
      BY <2>3
    <3>2. marked \subseteq 2..m /\ DOMAIN x.values = 1..m
      BY <2>1, <2>3, <3>1
    <3>3. ASSUME NEW i \in marked
          PROVE  i \in 2..MaxMissingValues /\ i \in DOMAIN x.values
      <4>1. i \in 2..m /\ m \in 1..3
        BY <3>1, <3>2 DEF MaxMissingValues
      <4>2. i \in 2..3 /\ i \in 1..m
        BY <4>1
      <4> QED
        BY <3>2, <4>2 DEF MaxMissingValues
    <3> QED
      BY <3>3
  <2>5. {i \in DOMAIN x.values: <<r, i>> \in Marked(xs, marks)} = marked
    BY <1>1, <2>4 DEF Marked, marked
  <2>6. WrittenAt(xs, marks, r) = MissingSoFar(byteOrder, x, strlen, marked, 0)
    <3>1. WrittenAt(xs, marks, r) = MissingWritten(byteOrder, x, marked)
      <4>1. subtype # 21
        BY <1>5
      <4>2. {i \in DOMAIN xs[r].values: <<r, i>> \in Marked(xs, marks)} = marked
        BY <2>5 DEF x
      <4>3. WrittenAt(xs, marks, r) = MissingWritten(byteOrder, xs[r], {i \in DOMAIN xs[r].values: <<r, i>> \in Marked(xs, marks)})
        BY <4>1, Zenon DEF WrittenAt
      <4> QED
        BY <4>2, <4>3, Zenon DEF x
    <3>2. MissingWritten(byteOrder, x, marked) = MissingSoFar(byteOrder, x, Len(x.values[1]), marked, 0)
      BY <2>1, MissingAreWritten
    <3> QED
      BY <2>1, <2>3, <3>1, <3>2
  <2>7. MissingSoFar(byteOrder, x, strlen, marked, 0) \in Seq(Nat)
    BY <2>1, MissingSoFarTyped
  <2>8. \A p \in Marked(xs, marks): p[1] = r => p \in Later(subtype, xs)
    BY <1>5, <2>4 DEF Marked, Later, x, marked
  <2>9. (\E p \in Marked(xs, marks): p[1] = r) <=> marked # {}
    <3>1. ASSUME NEW i \in marked PROVE <<r, i>> \in Marked(xs, marks)
      BY <1>1, <2>4 DEF Marked, marked
    <3> QED
      BY <3>1 DEF Marked, marked
  <2>10. notes[r] = IF \E p \in Marked(xs, marks): p[1] = r THEN <<RepeatedLength(x.variableName)>> ELSE << >>
    BY <1>3, <2>9, Zenon DEF NoteOf, x, marked
  <2> QED
    BY <2>1, <2>6, <2>7, <2>8, <2>10, Zenon DEF x, InWritersForm
<1> QED
  BY <1>4, <1>5

(* At the end the writer's form of the records is read as the payload is. *)
LEMMA TraceIsWhole ==
  ASSUME subtype \in {21, 22}, NEW strlen, NEW again, NEW parts, NEW marks, NEW notes,
         Traced(items, << >>, strlen, 0, again, complaints, parts, marks, notes)
  PROVE  ReadToTheLastByte
<1> DEFINE n == Len(items)
           marked == Marked(items, marks)
           form(r) == WrittenAt(items, marks, r)
           forms == [r \in DOMAIN items |-> form(r)]
           note(r) == IF \E p \in marked: p[1] = r THEN <<RepeatedLength(items[r].variableName)>> ELSE << >>
<1>1. /\ Aligned(items, parts, marks, notes) /\ Continues(payload, FlattenSeq(parts), << >>)
      /\ complaints = FlattenSeq(notes)
      /\ \A r \in 1..(n - 1): Done(items[r], parts[r], marks[r], notes[r])
      /\ items # << >> => Done(items[n], parts[n], marks[n], notes[n])
  BY DEF Traced, Standing
<1>2. /\ items \in Seq(RecordsOf(subtype)) /\ parts \in Seq(Seq(Byte)) /\ notes \in Seq(Seq(Complaints))
      /\ Len(parts) = n /\ Len(notes) = n
  BY <1>1 DEF Aligned
<1>3. n \in Nat /\ DOMAIN items = 1..n /\ (n # 0 => items # << >>)
  BY <1>2, EmptySeq
<1>4. ASSUME NEW r \in 1..n
      PROVE  /\ form(r) \in Seq(Nat) /\ Alike(parts[r], form(r))
             /\ \A p \in marked: p[1] = r => p \in Later(subtype, items)
             /\ notes[r] = note(r)
  <2> HIDE DEF n, form, marked, note
  <2>1. (r = n \/ r \in 1..(n - 1)) /\ n # 0
    BY <1>3
  <2>2. Done(items[r], parts[r], marks[r], notes[r])
    BY <1>1, <1>3, <2>1
  <2>3. r \in 1..Len(items)
    BY DEF n
  <2>4. InWritersForm(items, parts, marks, notes, r)
    BY <1>1, <2>2, <2>3, DoneIsWritten
  <2> QED
    BY <2>4, Zenon DEF form, marked, note, InWritersForm
<1>5. marked \in SUBSET Later(subtype, items)
  <2>1. \A p \in marked: p[1] \in 1..n
    BY <1>3 DEF Marked
  <2> HIDE DEF marked
  <2> QED
    BY <1>4, <2>1
<1> HIDE DEF marked, form
<1>6. Alike(FlattenSeq(parts), FlattenSeq(forms))
  <2> DEFINE T == Seq(Nat)
             P == Seq(Byte)
  <2>1. parts \in Seq(P) /\ P \subseteq T
    BY <1>2, BytesAreNumbers
  <2>2. \A r \in 1..n: form(r) \in T
    BY <1>4
  <2> HIDE DEF T, P
  <2>3. parts \in Seq(T)
    BY <2>1, SeqMonotonic
  <2>4. forms \in Seq(T) /\ Len(forms) = n /\ \A r \in 1..n: forms[r] = form(r)
    BY <1>3, <2>2
  <2> HIDE DEF forms
  <2>5. \A r \in 1..n: Alike(parts[r], forms[r])
    BY <1>4, <2>4
  <2> QED
    BY <1>2, <2>3, <2>4, <2>5, AlikeFlatten DEF T
<1>7. payload = FlattenSeq(parts)
  <2>1. FlattenSeq(parts) \in Seq(Byte)
    BY <1>2, FlattenTyped
  <2>2. FlattenSeq(parts) \o << >> = FlattenSeq(parts)
    BY <2>1, ConcatEmptySeq
  <2> QED
    BY <1>1, <2>2, Zenon DEF Continues
<1>8. Written(subtype, items, byteOrder, marked) = FlattenSeq(forms)
  BY Zenon DEF Written, form, WrittenAt, marked
<1>9. Decoded(payload) = Decoded(Written(subtype, items, byteOrder, marked))
  BY <1>6, <1>7, <1>8, Zenon DEF Alike
<1>10. notes = [r \in DOMAIN items |-> note(r)]
  <2>1. notes = [r \in 1..n |-> notes[r]]
    BY <1>2
  <2> HIDE DEF note
  <2> QED
    BY <1>3, <1>4, <2>1, Zenon
<1>11. complaints = FlattenSeq([r \in DOMAIN items |-> note(r)])
  BY <1>1, <1>10, Zenon
<1> QED
  BY <1>5, <1>9, <1>11, Zenon DEF ReadToTheLastByte

(* A record's head *)
LEMMA LabelsBegin ==
  ASSUME subtype = 21, NEW name \in Seq(Byte), NEW strlen \in Nat, NEW count \in Nat,
         NEW x, x = LongValueLabelRecord(Decoded(name), strlen, << >>), NEW wide,
         NEW part, part = Prefixed(byteOrder, name) \o Word(byteOrder, strlen) \o Word(byteOrder, count)
  PROVE  x \in RecordsOf(subtype) /\ Reads(x, part, {}, wide, count)
<1> DEFINE shown == Decoded(name)
           front == Prefixed(byteOrder, name)
           front2 == Prefixed(byteOrder, shown)
           u == Word(byteOrder, strlen)
           w == Word(byteOrder, count)
<1>1. /\ shown \in Seq(Nat) /\ front \in Seq(Nat) /\ front2 \in Seq(Nat) /\ Alike(front, front2)
      /\ u \in Seq(Nat) /\ w \in Seq(Nat) /\ Alike(u, u) /\ Alike(w, w)
  BY PrefixedAlike, WordTyped DEF Alike
<1>2. << >> \in Seq(LongLabels) /\ Len(<< >>) = 0 /\ 0 + count = count
  BY EmptySeq
<1>3. x.variableName = shown /\ x.width = strlen /\ x.labels = << >>
  BY DEF LongValueLabelRecord
<1>4. x \in LabelRecords
  BY <1>1, <1>2 DEF LongValueLabelRecord, LabelRecords
<1>5. FlattenSeq(LabelForms(byteOrder, x.labels)) = << >>
  <2>1. LabelForms(byteOrder, << >>) = << >>
    BY DEF LabelForms
  <2> QED
    BY <1>3, <2>1, FlattenEmpty, Zenon
<1> HIDE DEF shown, front, front2, u, w
<1>6. Alike(front \o u, front2 \o u) /\ front \o u \in Seq(Nat) /\ front2 \o u \in Seq(Nat)
  BY <1>1, AlikeConcat, ConcatProperties
<1>7. Alike((front \o u) \o w, (front2 \o u) \o w) /\ (front2 \o u) \o w \in Seq(Nat)
  BY <1>1, <1>6, AlikeConcat, ConcatProperties
<1>8. ((front2 \o u) \o w) \o << >> = (front2 \o u) \o w
  BY <1>7, ConcatEmptySeq
<1>9. LabelsSoFar(byteOrder, x, count) = ((front2 \o u) \o w) \o << >>
  BY <1>2, <1>3, <1>5, Zenon DEF LabelsSoFar, front2, u, w, shown
<1>10. part = (front \o u) \o w
  BY Zenon DEF front, u, w
<1>11. Alike(part, LabelsSoFar(byteOrder, x, count))
  BY <1>7, <1>8, <1>9, <1>10, Zenon
<1> QED
  BY <1>4, <1>11 DEF RecordsOf, Reads

LEMMA MissingBegin ==
  ASSUME subtype = 22, NEW name \in Seq(Byte), NEW strlen \in Nat, NEW count \in 1..MaxMissingValues,
         NEW x, x = LongMissingValueRecord(Decoded(name), << >>),
         NEW part, part = Prefixed(byteOrder, name) \o <<count>> \o Word(byteOrder, strlen)
  PROVE  x \in RecordsOf(subtype) /\ Reads(x, part, {}, strlen, count)
<1> DEFINE shown == Decoded(name)
           front == Prefixed(byteOrder, name)
           front2 == Prefixed(byteOrder, shown)
           u == <<count>>
           w == Word(byteOrder, strlen)
<1>1. /\ shown \in Seq(Nat) /\ front \in Seq(Nat) /\ front2 \in Seq(Nat) /\ Alike(front, front2)
      /\ u \in Seq(Nat) /\ w \in Seq(Nat) /\ Alike(u, u) /\ Alike(w, w)
  <2>1. count \in Nat
    BY DEF MaxMissingValues
  <2> QED
    BY <2>1, PrefixedAlike, WordTyped DEF Alike
<1>2. << >> \in Seq(Seq(Byte)) /\ Len(<< >>) = 0 /\ 0 + count = count
  BY EmptySeq DEF MaxMissingValues
<1>3. x.variableName = shown /\ x.values = << >>
  BY DEF LongMissingValueRecord
<1>4. x \in MissingRecords
  BY <1>1, <1>2 DEF LongMissingValueRecord, MissingRecords
<1>5. FlattenSeq(ValueForms(byteOrder, x.values, strlen, {})) = << >>
  <2>1. ValueForms(byteOrder, << >>, strlen, {}) = << >>
    BY DEF ValueForms
  <2> QED
    BY <1>3, <2>1, FlattenEmpty, Zenon
<1> HIDE DEF shown, front, front2, u, w
<1>6. Alike(front \o u, front2 \o u) /\ front \o u \in Seq(Nat) /\ front2 \o u \in Seq(Nat)
  BY <1>1, AlikeConcat, ConcatProperties
<1>7. Alike((front \o u) \o w, (front2 \o u) \o w) /\ (front2 \o u) \o w \in Seq(Nat)
  BY <1>1, <1>6, AlikeConcat, ConcatProperties
<1>8. ((front2 \o u) \o w) \o << >> = (front2 \o u) \o w
  BY <1>7, ConcatEmptySeq
<1>9. MissingSoFar(byteOrder, x, strlen, {}, count) = ((front2 \o u) \o w) \o << >>
  BY <1>2, <1>3, <1>5, Zenon DEF MissingSoFar, front2, u, w, shown
<1>10. part = (front \o u) \o w
  BY Zenon DEF front, u, w
<1>11. Alike(part, MissingSoFar(byteOrder, x, strlen, {}, count))
  BY <1>7, <1>8, <1>9, <1>10, Zenon
<1>12. Len(x.values) + count \in 1..MaxMissingValues /\ ~(x.values # << >>) /\ {} \subseteq 2..Len(x.values)
  BY <1>2, <1>3
<1> QED
  BY <1>4, <1>11, <1>12 DEF RecordsOf, Reads

(* One label, or value, more *)
LEMMA LabelReads ==
  ASSUME subtype = 21, NEW x \in LabelRecords, NEW part \in Seq(Byte), NEW marked, NEW strlen,
         NEW owed \in Nat, owed > 0, Reads(x, part, marked, strlen, owed),
         NEW value \in Seq(Byte), NEW label \in Seq(Byte),
         NEW more, more = [x EXCEPT !.labels = Append(@, LongValueLabel(value, Decoded(label)))],
         NEW v, v = Prefixed(byteOrder, value) \o Prefixed(byteOrder, label)
  PROVE  more \in RecordsOf(subtype) /\ Reads(more, part \o v, marked, strlen, owed - 1)
<1> DEFINE shown == LongValueLabel(value, Decoded(label))
           a == Prefixed(byteOrder, value)
           b == Prefixed(byteOrder, label)
           c == Prefixed(byteOrder, Decoded(label))
           old == LabelsSoFar(byteOrder, x, owed)
           new == LabelsSoFar(byteOrder, more, owed - 1)
           form == LabelForm(byteOrder, shown)
<1>1. marked = {} /\ Alike(part, old)
  BY DEF Reads
<1>2. /\ value \in Seq(Nat) /\ a \in Seq(Nat) /\ b \in Seq(Nat) /\ c \in Seq(Nat)
      /\ Decoded(label) \in Seq(Nat) /\ Alike(b, c) /\ Alike(a, a) /\ part \in Seq(Nat)
  BY PrefixedAlike, PrefixedTyped, BytesAreNumbers DEF Alike
<1>3. shown \in LongLabels
  BY <1>2 DEF LongValueLabel, LongLabels
<1>4. form = a \o c
  <2>1. shown.value = value /\ shown.label = Decoded(label)
    BY DEF LongValueLabel
  <2> HIDE DEF shown
  <2> QED
    BY <2>1, Zenon DEF LabelForm
<1>5. v = a \o b
  BY Zenon
<1>6. more \in LabelRecords /\ Continues(new, old, form)
  <2> HIDE DEF shown
  <2>1. more = [x EXCEPT !.labels = Append(@, shown)]
    BY DEF shown
  <2> QED
    BY <1>3, <2>1, LabelsGrow
<1>7. old \in Seq(Nat)
  BY LabelsSoFarTyped
<1> HIDE DEF shown, a, b, c, old, new, form
<1>8. Alike(v, form) /\ v \in Seq(Nat) /\ form \in Seq(Nat)
  BY <1>2, <1>4, <1>5, AlikeConcat, ConcatProperties
<1>9. Alike(part \o v, old \o form)
  BY <1>1, <1>2, <1>7, <1>8, AlikeConcat
<1>10. Alike(part \o v, new)
  BY <1>6, <1>9, Zenon DEF Continues
<1> QED
  BY <1>1, <1>6, <1>10 DEF RecordsOf, Reads, new

LEMMA ValueReads ==
  ASSUME subtype = 22, NEW x \in MissingRecords, NEW part \in Seq(Byte), NEW marked, NEW strlen \in Nat,
         NEW owed \in Nat, owed > 0, Reads(x, part, marked, strlen, owed),
         NEW value \in Seq(Byte), Len(value) = strlen, NEW again \in BOOLEAN, again => x.values # << >>,
         NEW more, more = WithMissing(x, value),
         NEW v \in Seq(Byte), v = ValueForm(byteOrder, value, strlen, again)
  PROVE  /\ more \in RecordsOf(subtype) /\ more.variableName = x.variableName
         /\ Reads(more, part \o v, MarkedOn(x, marked, again), strlen, owed - 1)
<1> DEFINE old == MissingSoFar(byteOrder, x, strlen, marked, owed)
           marks == MarkedOn(x, marked, again)
           new == MissingSoFar(byteOrder, more, strlen, marks, owed - 1)
           n == Len(x.values)
<1>1. /\ n + owed \in 1..MaxMissingValues /\ marked \subseteq 2..n
      /\ x.values # << >> => Len(x.values[1]) = strlen
      /\ Alike(part, old)
  BY DEF Reads
<1>2. x.values \in Seq(Seq(Byte))
  BY DEF MissingRecords
<1>3. n \in Nat /\ (x.values # << >> => n >= 1)
  BY <1>2, EmptySeq
<1>4. marked \in SUBSET (1..n)
  BY <1>1, <1>3
<1>5. /\ more \in MissingRecords /\ more.variableName = x.variableName /\ more.values = Append(x.values, value)
      /\ Continues(new, old, v)
  <2>1. more \in MissingRecords /\ more.variableName = x.variableName /\ more.values = Append(x.values, value)
    <3> DEFINE P == Seq(Byte)
    <3>1. x.values \in Seq(P) /\ value \in P
      BY <1>2
    <3> HIDE DEF P
    <3>2. Append(x.values, value) \in Seq(P)
      BY <3>1
    <3> QED
      BY <3>2 DEF WithMissing, MissingRecords, P
  <2>2. Continues(new, old, ValueForm(byteOrder, value, strlen, again))
    BY <1>4, MissingGrows
  <2> QED
    BY <2>1, <2>2, Zenon
<1>6. old \in Seq(Nat) /\ part \in Seq(Nat) /\ v \in Seq(Nat)
  BY MissingSoFarTyped, BytesAreNumbers
<1>7. /\ Len(more.values) = n + 1
      /\ \A i \in 1..n: more.values[i] = x.values[i]
      /\ more.values[n + 1] = value
  <2> DEFINE P == Seq(Byte)
  <2>1. x.values \in Seq(P) /\ value \in P
    BY <1>2
  <2> HIDE DEF P
  <2> QED
    BY <1>5, <2>1, AppendLast
<1>8. marks \subseteq 2..(n + 1)
  <2>1. again => n + 1 \in 2..(n + 1)
    BY <1>3
  <2>2. 2..n \subseteq 2..(n + 1)
    BY <1>3
  <2> QED
    BY <1>1, <2>1, <2>2 DEF MarkedOn
<1>9. Len(more.values[1]) = strlen
  <2>1. CASE x.values = << >>
    BY <1>7, <2>1
  <2>2. CASE x.values # << >>
    BY <1>1, <1>3, <1>7, <2>2
  <2> QED
    BY <2>1, <2>2
<1>10. Len(more.values) + (owed - 1) \in 1..MaxMissingValues
  <2>1. Len(more.values) + (owed - 1) = n + owed
    BY <1>3, <1>7
  <2> QED
    BY <1>1, <2>1
<1> HIDE DEF old, new, marks, n
<1>11. Alike(part \o v, old \o v)
  BY <1>1, <1>6, AlikeConcat DEF Alike
<1>12. Alike(part \o v, new)
  BY <1>5, <1>11, Zenon DEF Continues
<1>13. subtype # 21 /\ marks \subseteq 2..Len(more.values)
  BY <1>7, <1>8
<1>14. Reads(more, part \o v, marks, strlen, owed - 1)
  BY <1>9, <1>10, <1>12, <1>13, Zenon DEF Reads, new
<1> QED
  BY <1>5, <1>14 DEF RecordsOf, marks

(* The payload is what the items so far are written as, and what is left of it. *)
Trace == \E parts, marks, notes: Traced(items, rest, width, due, repeated, complaints, parts, marks, notes)

LongInv ==
  subtype \in {21, 22} /\ outcome \in {"opened", "reading", "read"} =>
    Trace /\ (outcome = "read" => due = 0 /\ rest = << >>)

LEMMA LeavesLong ==
  ASSUME outcome' \notin {"opened", "reading", "read"} \/ subtype' \notin {21, 22}
  PROVE  LongInv'
BY DEF LongInv

(* The trace of the next state is one in this state's terms. *)
LEMMA TraceMoves ==
  ASSUME UNCHANGED <<given, byteOrder>>, NEW parts, NEW marks, NEW notes,
         Traced(items', rest', width', due', repeated', complaints', parts, marks, notes)
  PROVE  Trace'
<1>1. subtype' = subtype /\ payload' = payload /\ byteOrder' = byteOrder
  BY DEF given
<1>2. Aligned(items', parts, marks, notes) /\ Continues(payload', FlattenSeq(parts), rest')
  BY <1>1, Zenon DEF Traced
<1>3. Aligned(items, parts, marks, notes)'
  BY <1>1, <1>2 DEF Aligned
<1>4. ASSUME NEW r
      PROVE  Done(items'[r], parts[r], marks[r], notes[r]) => Done(items[r], parts[r], marks[r], notes[r])'
  BY <1>1 DEF Done, Reads
<1>5. Standing(items'[Len(items')], parts[Len(items')], marks[Len(items')], notes[Len(items')], width', due', repeated')
      => Standing(items[Len(items)], parts[Len(items)], marks[Len(items)], notes[Len(items)], width, due, repeated)'
  BY <1>1 DEF Standing, Coming, Done, Reads
<1>6. Traced(items, rest, width, due, repeated, complaints, parts, marks, notes)'
  BY <1>1, <1>2, <1>3, <1>4, <1>5 DEF Traced
<1> QED
  BY <1>6 DEF Trace

LEMMA StaysLong ==
  ASSUME LongInv, UNCHANGED <<given, byteOrder, items, rest, width, due, repeated, complaints>>,
         outcome \in {"opened", "reading", "read"} \/ outcome' \notin {"opened", "reading", "read"},
         outcome' = "read" => outcome = "read" \/ (due = 0 /\ rest = << >>)
  PROVE  LongInv'
<1>1. subtype' = subtype
  BY DEF given
<1>2. CASE subtype \in {21, 22} /\ outcome' \in {"opened", "reading", "read"}
  <2>1. PICK parts, marks, notes: Traced(items, rest, width, due, repeated, complaints, parts, marks, notes)
    BY <1>2 DEF LongInv, Trace
  <2>2. Traced(items', rest', width', due', repeated', complaints', parts, marks, notes)
    BY <2>1, Zenon
  <2>3. Trace'
    BY <2>2, TraceMoves
  <2>4. outcome' = "read" => due' = 0 /\ rest' = << >>
    BY <1>2 DEF LongInv
  <2> QED
    BY <2>3, <2>4 DEF LongInv
<1> QED
  BY <1>1, <1>2, LeavesLong

LEMMA RecordInitLong == ParserInv /\ RecordInit => LongInv
<1> SUFFICES ASSUME ParserInv, RecordInit, subtype \in {21, 22} PROVE LongInv
  BY DEF LongInv
<1>1. /\ items = << >> /\ rest = payload /\ due = 0 /\ complaints = << >> /\ outcome = "opened"
      /\ rest \in Seq(Byte)
  BY BytesLeft DEF RecordInit
<1>2. Aligned(<< >>, << >>, << >>, << >>)
  BY EmptySeq DEF Aligned
<1>3. FlattenSeq(<< >>) = << >>
  BY FlattenEmpty
<1>4. << >> \o payload = payload
  BY <1>1, ConcatEmptySeq
<1>5. Continues(payload, FlattenSeq(<< >>), payload)
  BY <1>3, <1>4, Zenon DEF Continues
<1>6. 1..(Len(<< >>) - 1) = {}
  BY EmptySeq
<1>7. Traced(<< >>, payload, width, 0, repeated, << >>, << >>, << >>, << >>)
  BY <1>1, <1>2, <1>3, <1>5, <1>6 DEF Traced
<1>8. Trace
  BY <1>1, <1>7, Zenon DEF Trace
<1> QED
  BY <1>1, <1>8 DEF LongInv

LEMMA LongLabelRecordLong ==
  ASSUME ParserInv, LongInv, LongLabelRecord
  PROVE  LongInv'
<1> DEFINE name   == TakeLengthPrefixed(byteOrder, rest)
           strlen == TakeU32(byteOrder, name.rest)
           count  == TakeU32(byteOrder, strlen.rest)
           x      == LongValueLabelRecord(Decoded(name.value), strlen.value, << >>)
           part   == Prefixed(byteOrder, name.value) \o Word(byteOrder, strlen.value) \o Word(byteOrder, count.value)
<1>1. outcome = "reading" /\ subtype = 21 /\ due = 0 /\ rest \in Seq(Byte)
  BY BytesLeft DEF LongLabelRecord, AtRecord, Reading
<1>2. CASE RefuseRecord
  BY <1>2, LeavesLong DEF RefuseRecord, Refuse
<1>3. CASE /\ name.ok /\ strlen.ok /\ count.ok
           /\ items' = Append(items, x) /\ rest' = count.rest /\ due' = count.value
           /\ UNCHANGED <<given, byteOrder, width, repeated, complaints, outcome>>
  <2>1. /\ name.value \in Seq(Byte) /\ name.rest \in Seq(Byte)
        /\ Prefixed(byteOrder, name.value) \in Seq(Byte)
        /\ Continues(rest, Prefixed(byteOrder, name.value), name.rest)
    BY <1>1, <1>3, FrontPrefixed
  <2> HIDE DEF name
  <2>2. /\ strlen.value \in Nat /\ strlen.rest \in Seq(Byte) /\ Word(byteOrder, strlen.value) \in Seq(Byte)
        /\ Continues(name.rest, Word(byteOrder, strlen.value), strlen.rest)
    BY <1>3, <2>1, FrontWord
  <2> HIDE DEF strlen
  <2>3. /\ count.value \in Nat /\ count.rest \in Seq(Byte) /\ Word(byteOrder, count.value) \in Seq(Byte)
        /\ Continues(strlen.rest, Word(byteOrder, count.value), count.rest)
    BY <1>3, <2>2, FrontWord
  <2> HIDE DEF count
  <2>4. part \in Seq(Byte) /\ Continues(rest, part, count.rest)
    <3> DEFINE front == Prefixed(byteOrder, name.value) \o Word(byteOrder, strlen.value)
    <3>1. front \in Seq(Byte) /\ Continues(rest, front, strlen.rest)
      BY <2>1, <2>2, ContinuesOn, ConcatProperties
    <3> HIDE DEF front
    <3>2. front \o Word(byteOrder, count.value) \in Seq(Byte) /\ Continues(rest, front \o Word(byteOrder, count.value), count.rest)
      BY <2>3, <3>1, ContinuesOn, ConcatProperties
    <3> QED
      BY <3>2 DEF front
  <2>5. x \in RecordsOf(subtype) /\ \A wide: Reads(x, part, {}, wide, count.value)
    BY <1>1, <2>1, <2>2, <2>3, LabelsBegin
  <2> HIDE DEF x, part
  <2>6. Standing(x, part, {}, << >>, width, count.value, repeated)
    <3>1. << >> = NoteOf(x, {})
      BY DEF NoteOf
    <3>2. 0 \in Nat /\ subtype # 22
      BY <1>1
    <3>3. count.value = 0 => Done(x, part, {}, << >>)
      BY <2>5, <3>1, <3>2 DEF Done
    <3>4. Coming(x, part, {}, << >>, width, count.value, repeated)
      BY <2>5, <3>2, Zenon DEF Coming
    <3> QED
      BY <3>3, <3>4, Zenon DEF Standing
  <2>7. PICK parts, marks, notes: Traced(items, rest, width, 0, repeated, complaints, parts, marks, notes)
    BY <1>1 DEF LongInv, Trace
  <2>8. Traced(Append(items, x), count.rest, width, count.value, repeated, complaints,
               Append(parts, part), Append(marks, {}), Append(notes, << >>))
    <3>1. {} \in SUBSET Nat
      OBVIOUS
    <3> QED
      BY <2>3, <2>4, <2>5, <2>6, <2>7, <3>1, TraceAppends
  <2>9. Traced(items', rest', width', due', repeated', complaints',
               Append(parts, part), Append(marks, {}), Append(notes, << >>))
    BY <1>3, <2>8, Zenon
  <2>10. Trace'
    BY <1>3, <2>9, TraceMoves
  <2> QED
    BY <1>1, <1>3, <2>10 DEF LongInv
<1> QED
  BY <1>2, <1>3 DEF LongLabelRecord, envelope

LEMMA EndsLong ==
  ASSUME LongInv, EndOfRecords
  PROVE  LongInv'
BY StaysLong DEF EndOfRecords, Reading, envelope, cursor

Recalls(again, marked) == again = (marked # {})

(* While labels or values are to come there is a record they belong to. *)
LEMMA Underway ==
  ASSUME NEW xs, NEW left, NEW strlen, NEW owed \in Nat, owed > 0, NEW again, NEW said, NEW parts, NEW marks, NEW notes,
         Traced(xs, left, strlen, owed, again, said, parts, marks, notes)
  PROVE  /\ xs # << >> /\ Len(xs) \in DOMAIN xs /\ xs[Len(xs)] \in RecordsOf(subtype)
         /\ parts[Len(xs)] \in Seq(Byte) /\ marks[Len(xs)] \in SUBSET Nat
         /\ said \in Seq(Complaints) /\ notes[Len(xs)] = << >>
         /\ Reads(xs[Len(xs)], parts[Len(xs)], marks[Len(xs)], strlen, owed)
         /\ subtype = 22 => Recalls(again, marks[Len(xs)])
<1> DEFINE n == Len(xs)
<1>1. /\ Aligned(xs, parts, marks, notes) /\ said = FlattenSeq(notes) /\ xs # << >>
      /\ Coming(xs[n], parts[n], marks[n], notes[n], strlen, owed, again)
  BY DEF Traced, Standing
<1>2. n \in DOMAIN xs /\ xs[n] \in RecordsOf(subtype) /\ parts[n] \in Seq(Byte) /\ marks[n] \in SUBSET Nat
  <2> DEFINE X == RecordsOf(subtype)
             P == Seq(Byte)
             M == SUBSET Nat
  <2>1. xs \in Seq(X) /\ parts \in Seq(P) /\ marks \in Seq(M) /\ Len(parts) = Len(xs) /\ Len(marks) = Len(xs)
    BY <1>1 DEF Aligned
  <2> HIDE DEF X, P, M
  <2>2. n \in 1..n /\ n \in DOMAIN xs
    BY <1>1, <2>1, EmptySeq
  <2>3. xs[n] \in X /\ parts[n] \in P /\ marks[n] \in M
    BY <2>1, <2>2
  <2> QED
    BY <2>2, <2>3 DEF X, P, M
<1>3. said \in Seq(Complaints)
  <2>1. notes \in Seq(Seq(Complaints))
    BY <1>1 DEF Aligned
  <2> QED
    BY <1>1, <2>1, FlattenTyped
<1> QED
  BY <1>1, <1>2, <1>3 DEF Coming, Recalls

LEMMA LongLabelLong ==
  ASSUME ParserInv, LongInv, LongLabel
  PROVE  LongInv'
<1> DEFINE value == TakeLengthPrefixed(byteOrder, rest)
           label == TakeLengthPrefixed(byteOrder, value.rest)
           n     == Len(items)
           x     == items[n]
           more  == [x EXCEPT !.labels = Append(@, LongValueLabel(value.value, Decoded(label.value)))]
           v     == Prefixed(byteOrder, value.value) \o Prefixed(byteOrder, label.value)
<1>1. outcome = "reading" /\ subtype = 21 /\ due > 0 /\ due \in Nat /\ rest \in Seq(Byte)
  BY BytesLeft DEF LongLabel, Reading, ParserInv
<1>2. CASE RefuseRecord
  BY <1>2, LeavesLong DEF RefuseRecord, Refuse
<1>3. CASE /\ value.ok /\ label.ok
           /\ items' = [items EXCEPT ![Len(items)].labels =
                          Append(@, LongValueLabel(value.value, Decoded(label.value)))]
           /\ rest' = label.rest /\ due' = due - 1
           /\ UNCHANGED <<given, byteOrder, width, repeated, complaints, outcome>>
  <2>1. /\ value.value \in Seq(Byte) /\ value.rest \in Seq(Byte)
        /\ Prefixed(byteOrder, value.value) \in Seq(Byte)
        /\ Continues(rest, Prefixed(byteOrder, value.value), value.rest)
    BY <1>1, <1>3, FrontPrefixed
  <2>2. PICK parts, marks, notes: Traced(items, rest, width, due, repeated, complaints, parts, marks, notes)
    BY <1>1 DEF LongInv, Trace
  <2>3. /\ items # << >> /\ n \in DOMAIN items /\ x \in RecordsOf(subtype)
        /\ parts[n] \in Seq(Byte) /\ marks[n] \in SUBSET Nat /\ complaints \in Seq(Complaints)
        /\ Reads(x, parts[n], marks[n], width, due)
    BY <1>1, <2>2, Underway
  <2>4. items' = WithLast(items, more)
    BY <1>3, <2>3 DEF WithLast
  <2> HIDE DEF value
  <2>5. /\ label.value \in Seq(Byte) /\ label.rest \in Seq(Byte)
        /\ Prefixed(byteOrder, label.value) \in Seq(Byte)
        /\ Continues(value.rest, Prefixed(byteOrder, label.value), label.rest)
    BY <1>3, <2>1, FrontPrefixed
  <2> HIDE DEF label
  <2>6. v \in Seq(Byte) /\ Continues(rest, v, label.rest)
    BY <2>1, <2>5, ContinuesOn, ConcatProperties
  <2> HIDE DEF x
  <2>7. x \in LabelRecords /\ marks[n] = {}
    BY <1>1, <2>3 DEF RecordsOf, Reads
  <2> DEFINE part == parts[n] \o v
  <2>8. more \in RecordsOf(subtype) /\ Reads(more, part, marks[n], width, due - 1)
    BY <1>1, <2>1, <2>3, <2>5, <2>7, LabelReads
  <2>9. Continues(part, parts[n], v)
    BY Zenon DEF Continues
  <2> HIDE DEF more, v, part
  <2>10. Standing(more, part, marks[n], << >>, width, due - 1, repeated)
    <3>1. << >> = NoteOf(more, marks[n])
      BY <2>7 DEF NoteOf
    <3>2. width \in Nat /\ subtype # 22
      BY <1>1 DEF ParserInv
    <3>3. due - 1 = 0 => Done(more, part, marks[n], << >>)
      BY <2>8, <3>1, <3>2 DEF Done
    <3>4. Coming(more, part, marks[n], << >>, width, due - 1, repeated)
      BY <2>8, <3>2, Zenon DEF Coming
    <3> QED
      BY <3>3, <3>4, Zenon DEF Standing
  <2>11. << >> \in Seq(Complaints) /\ complaints \o << >> = complaints
    BY <2>3, EmptySeq, ConcatEmptySeq
  <2>12. Traced(WithLast(items, more), label.rest, width, due - 1, repeated, complaints \o << >>,
                WithLast(parts, part), WithLast(marks, marks[n]), WithLast(notes, << >>))
    BY <1>1, <2>2, <2>3, <2>5, <2>6, <2>8, <2>9, <2>10, <2>11, TraceGoesOn
  <2>13. Traced(items', rest', width', due', repeated', complaints',
                WithLast(parts, part), WithLast(marks, marks[n]), WithLast(notes, << >>))
    BY <1>3, <2>4, <2>11, <2>12, Zenon
  <2>14. Trace'
    BY <1>3, <2>13, TraceMoves
  <2> QED
    BY <1>1, <1>3, <2>14 DEF LongInv
<1> QED
  BY <1>2, <1>3 DEF LongLabel, envelope

LEMMA LongMissingRecordLong ==
  ASSUME ParserInv, LongInv, LongMissingRecord
  PROVE  LongInv'
<1> DEFINE name   == TakeLengthPrefixed(byteOrder, rest)
           count  == TakeU8(name.rest)
           strlen == TakeU32(byteOrder, count.rest)
           x      == LongMissingValueRecord(Decoded(name.value), << >>)
           part   == Prefixed(byteOrder, name.value) \o <<count.value>> \o Word(byteOrder, strlen.value)
<1>1. outcome = "reading" /\ subtype = 22 /\ due = 0 /\ rest \in Seq(Byte)
  BY BytesLeft DEF LongMissingRecord, AtRecord, Reading
<1>2. CASE RefuseRecord
  BY <1>2, LeavesLong DEF RefuseRecord, Refuse
<1>3. CASE /\ name.ok /\ count.ok /\ count.value \in 1..MaxMissingValues /\ strlen.ok
           /\ items' = Append(items, x) /\ rest' = strlen.rest /\ due' = count.value
           /\ width' = strlen.value /\ repeated' = FALSE
           /\ UNCHANGED <<given, byteOrder, complaints, outcome>>
  <2>1. /\ name.value \in Seq(Byte) /\ name.rest \in Seq(Byte)
        /\ Prefixed(byteOrder, name.value) \in Seq(Byte)
        /\ Continues(rest, Prefixed(byteOrder, name.value), name.rest)
    BY <1>1, <1>3, FrontPrefixed
  <2> HIDE DEF name
  <2>2. /\ count.value \in Byte /\ count.rest \in Seq(Byte) /\ Continues(name.rest, <<count.value>>, count.rest)
    BY <1>3, <2>1, FrontByte
  <2>3. <<count.value>> \in Seq(Byte) /\ count.value \in 1..MaxMissingValues /\ count.value # 0 /\ count.value \in Nat
    <3>1. count.value # 0 /\ count.value \in Nat
      BY <1>3 DEF MaxMissingValues
    <3> HIDE DEF Byte, count
    <3> QED
      BY <1>3, <2>2, <3>1
  <2> HIDE DEF count
  <2>4. /\ strlen.value \in Nat /\ strlen.rest \in Seq(Byte) /\ Word(byteOrder, strlen.value) \in Seq(Byte)
        /\ Continues(count.rest, Word(byteOrder, strlen.value), strlen.rest)
    BY <1>3, <2>2, FrontWord
  <2> HIDE DEF strlen
  <2>5. part \in Seq(Byte) /\ Continues(rest, part, strlen.rest)
    <3> DEFINE front == Prefixed(byteOrder, name.value) \o <<count.value>>
               w == Word(byteOrder, strlen.value)
    <3> HIDE DEF Byte, w
    <3>1. front \in Seq(Byte) /\ Continues(rest, front, count.rest)
      BY <2>1, <2>2, <2>3, ContinuesOn, ConcatProperties
    <3> HIDE DEF front
    <3>2. w \in Seq(Byte) /\ Continues(count.rest, w, strlen.rest)
      BY <2>4 DEF w
    <3>3. front \o w \in Seq(Byte) /\ Continues(rest, front \o w, strlen.rest)
      BY <2>4, <3>1, <3>2, ContinuesOn, ConcatProperties
    <3> QED
      BY <3>3 DEF front, w
  <2>6. x \in RecordsOf(subtype) /\ Reads(x, part, {}, strlen.value, count.value)
    BY <1>1, <2>1, <2>3, <2>4, MissingBegin
  <2> HIDE DEF x, part
  <2>7. Standing(x, part, {}, << >>, strlen.value, count.value, FALSE)
    <3>1. Coming(x, part, {}, << >>, strlen.value, count.value, FALSE)
      BY <2>6 DEF Coming
    <3> QED
      BY <2>3, <3>1, Zenon DEF Standing
  <2>8. PICK parts, marks, notes: Traced(items, rest, width, 0, repeated, complaints, parts, marks, notes)
    BY <1>1 DEF LongInv, Trace
  <2>9. Traced(Append(items, x), strlen.rest, strlen.value, count.value, FALSE, complaints,
               Append(parts, part), Append(marks, {}), Append(notes, << >>))
    <3>1. {} \in SUBSET Nat
      OBVIOUS
    <3> QED
      BY <2>3, <2>4, <2>5, <2>6, <2>7, <2>8, <3>1, TraceAppends
  <2>10. Traced(items', rest', width', due', repeated', complaints',
               Append(parts, part), Append(marks, {}), Append(notes, << >>))
    BY <1>3, <2>9, Zenon
  <2>11. Trace'
    BY <1>3, <2>10, TraceMoves
  <2> QED
    BY <1>1, <1>3, <2>3, <2>11 DEF LongInv
<1> QED
  BY <1>2, <1>3 DEF LongMissingRecord, envelope

LEMMA LongMissingLong ==
  ASSUME ParserInv, LongInv, LongMissing
  PROVE  LongInv'
<1> DEFINE again == HasWidthAgain
           word  == TakeU32(byteOrder, rest)
           value == TakeBytes(IF again THEN word.rest ELSE rest, width)
           n     == Len(items)
           x     == items[n]
           more  == WithMissing(x, value.value)
           v     == ValueForm(byteOrder, value.value, width, again)
           note  == IF due = 1 /\ repeated' THEN <<RepeatedLength(x.variableName)>> ELSE << >>
<1>1. outcome = "reading" /\ subtype = 22 /\ due > 0 /\ due \in Nat /\ width \in Nat /\ rest \in Seq(Byte)
  BY BytesLeft DEF LongMissing, Reading, ParserInv
<1>2. CASE RefuseRecord
  BY <1>2, LeavesLong DEF RefuseRecord, Refuse
<1>3. CASE /\ value.ok
           /\ items' = [items EXCEPT ![Len(items)].values = Append(@, value.value)]
           /\ rest' = value.rest /\ due' = due - 1 /\ repeated' = SomeRepeated(again)
           /\ complaints' = IF due = 1 /\ repeated'
                            THEN Append(complaints, RepeatedLength(Last(items).variableName)) ELSE complaints
           /\ UNCHANGED <<given, byteOrder, width, outcome>>
  <2>1. PICK parts, marks, notes: Traced(items, rest, width, due, repeated, complaints, parts, marks, notes)
    BY <1>1 DEF LongInv, Trace
  <2>2. /\ items # << >> /\ n \in DOMAIN items /\ x \in RecordsOf(subtype)
        /\ parts[n] \in Seq(Byte) /\ marks[n] \in SUBSET Nat /\ complaints \in Seq(Complaints)
        /\ Reads(x, parts[n], marks[n], width, due) /\ repeated = (marks[n] # {})
    <3>1. /\ items # << >> /\ n \in DOMAIN items /\ x \in RecordsOf(subtype)
          /\ parts[n] \in Seq(Byte) /\ marks[n] \in SUBSET Nat /\ complaints \in Seq(Complaints)
          /\ Reads(x, parts[n], marks[n], width, due) /\ Recalls(repeated, marks[n])
      BY <1>1, <2>1, Underway
    <3> QED
      BY <3>1, Zenon DEF Recalls
  <2>3. items' = WithLast(items, more) /\ Last(items) = x
    BY <1>3, <2>2 DEF WithLast, WithMissing, Last
  <2>4. again \in BOOLEAN /\ (again => x.values # << >>)
    BY <2>3 DEF HasWidthAgain, PeeksAt
  <2>5. /\ value.value \in Seq(Byte) /\ Len(value.value) = width /\ value.rest \in Seq(Byte)
        /\ v \in Seq(Byte) /\ Continues(rest, v, value.rest)
    <3>1. CASE again
      <4>1. WordLen \in Nat /\ ~(Len(rest) < WordLen) /\ ReadU32(byteOrder, SubSeq(rest, 1, WordLen)) = width
        BY <1>1, <3>1, BytesAssumption DEF HasWidthAgain, PeeksAt
      <4>2. word.ok /\ word.value = width
        BY <4>1 DEF TakeU32, TakeBytes, Taken
      <4>3. word.rest \in Seq(Byte) /\ Word(byteOrder, width) \in Seq(Byte) /\ Continues(rest, Word(byteOrder, width), word.rest)
        BY <1>1, <4>2, FrontWord
      <4>4. value = TakeBytes(word.rest, width)
        BY <3>1
      <4> HIDE DEF word, value
      <4>5. /\ value.value \in Seq(Byte) /\ Len(value.value) = width /\ value.rest \in Seq(Byte)
            /\ Continues(word.rest, value.value, value.rest)
        BY <1>1, <1>3, <4>3, <4>4, FrontBytes
      <4>6. v = Word(byteOrder, width) \o value.value
        BY <3>1, Zenon DEF ValueForm
      <4> HIDE DEF v
      <4>7. v \in Seq(Byte) /\ Continues(rest, v, value.rest)
        BY <4>3, <4>5, <4>6, ContinuesOn, ConcatProperties
      <4> QED
        BY <4>5, <4>7
    <3>2. CASE ~again
      <4>1. value = TakeBytes(rest, width)
        BY <3>2
      <4> HIDE DEF value
      <4>2. /\ value.value \in Seq(Byte) /\ Len(value.value) = width /\ value.rest \in Seq(Byte)
            /\ Continues(rest, value.value, value.rest)
        BY <1>1, <1>3, <4>1, FrontBytes
      <4>3. v = value.value
        BY <3>2, Zenon DEF ValueForm
      <4> QED
        BY <4>2, <4>3
    <3> QED
      BY <2>4, <3>1, <3>2
  <2> HIDE DEF again, word, value, x
  <2>6. x \in MissingRecords
    BY <1>1, <2>2 DEF RecordsOf
  <2> DEFINE part   == parts[n] \o v
             marked == MarkedOn(x, marks[n], again)
  <2>7. /\ more \in RecordsOf(subtype) /\ more.variableName = x.variableName
        /\ Reads(more, part, marked, width, due - 1)
    BY <1>1, <2>2, <2>4, <2>5, <2>6, ValueReads
  <2>8. Continues(part, parts[n], v)
    BY Zenon DEF Continues
  <2>9. repeated' = (marked # {}) /\ marked \in SUBSET Nat
    <3>1. repeated' = (repeated \/ again)
      BY <1>3 DEF SomeRepeated
    <3>2. Len(x.values) + 1 \in Nat
      BY <2>6 DEF MissingRecords
    <3>3. CASE again
      <4>1. marked = marks[n] \cup {Len(x.values) + 1}
        BY <3>3, Zenon DEF MarkedOn
      <4> QED
        BY <2>2, <3>1, <3>2, <3>3, <4>1
    <3>4. CASE ~again
      <4>1. marked = marks[n] \cup {}
        BY <3>4, Zenon DEF MarkedOn
      <4> QED
        BY <2>2, <3>1, <3>4, <4>1
    <3> QED
      BY <3>3, <3>4
  <2>10. x.variableName \in Seq(Nat) /\ RepeatedLength(x.variableName) \in Complaints
    BY <2>6 DEF MissingRecords, Complaints
  <2>11. note \in Seq(Complaints) /\ complaints' = complaints \o note
    <3> DEFINE complaint == RepeatedLength(x.variableName)
               C == Complaints
    <3>1. complaint \in C /\ complaints \in Seq(C)
      BY <2>2, <2>10
    <3>2. complaints' = IF due = 1 /\ repeated' THEN Append(complaints, complaint) ELSE complaints
      BY <1>3, <2>3
    <3> HIDE DEF complaint, C
    <3>3. <<complaint>> \in Seq(C) /\ << >> \in Seq(C)
      BY <3>1
    <3>4. Append(complaints, complaint) = complaints \o <<complaint>> /\ complaints \o << >> = complaints
      BY <3>1
    <3>5. note = IF due = 1 /\ repeated' THEN <<complaint>> ELSE << >>
      BY DEF complaint
    <3> HIDE DEF note
    <3>6. note \in Seq(C) /\ complaints' = complaints \o note
      BY <3>2, <3>3, <3>4, <3>5
    <3> QED
      BY <3>6 DEF C
  <2>12. Standing(more, part, marked, note, width, due - 1, repeated')
    <3> HIDE DEF more, part, marked
    <3>1. CASE due = 1
      <4>1. due - 1 = 0
        BY <3>1
      <4>2. note = NoteOf(more, marked)
        BY <2>7, <2>9, <3>1, Zenon DEF NoteOf
      <4>3. \E strlen \in Nat: Reads(more, part, marked, strlen, 0)
        BY <1>1, <2>7, <4>1
      <4>4. Done(more, part, marked, note)
        BY <4>2, <4>3, Zenon DEF Done
      <4> QED
        BY <4>1, <4>4, Zenon DEF Standing
    <3>2. CASE due # 1
      <4>1. due - 1 # 0
        BY <1>1, <3>2
      <4>2. note = << >>
        BY <3>2
      <4>3. Coming(more, part, marked, note, width, due - 1, repeated')
        BY <2>7, <2>9, <4>2, Zenon DEF Coming
      <4> QED
        BY <4>1, <4>3, Zenon DEF Standing
    <3> QED
      BY <3>1, <3>2
  <2> HIDE DEF more, v, part, marked, note
  <2>13. Traced(WithLast(items, more), value.rest, width, due - 1, repeated', complaints \o note,
                WithLast(parts, part), WithLast(marks, marked), WithLast(notes, note))
    BY <1>1, <2>1, <2>2, <2>5, <2>7, <2>8, <2>9, <2>11, <2>12, TraceGoesOn
  <2>14. Traced(items', rest', width', due', repeated', complaints',
                WithLast(parts, part), WithLast(marks, marked), WithLast(notes, note))
    BY <1>3, <2>3, <2>11, <2>13, Zenon
  <2>15. Trace'
    BY <1>3, <2>14, TraceMoves
  <2> QED
    BY <1>1, <1>3, <2>15 DEF LongInv
<1> QED
  BY <1>2, <1>3 DEF LongMissing, envelope

LEMMA TextNextIsText == TextNext => subtype \in TextSubtypes /\ subtype' = subtype
<1>1. VariableSetLine \/ ResponseSetLine \/ LongNamePair \/ VeryLongPair \/ EndOfPieces
        => subtype \in TextSubtypes /\ subtype' = subtype
  BY DEF VariableSetLine, ResponseSetLine, LongNamePair, VeryLongPair, Turn, EndOfPieces, Reading, Refuse, given, TextSubtypes
<1>2. ExtraProductInfo \/ Uuid \/ CharacterEncoding => subtype \in TextSubtypes /\ subtype' = subtype
  BY DEF ExtraProductInfo, Uuid, CharacterEncoding, TakeAll, Reading, given, TextSubtypes, WholeText
<1>3. VariableName \/ AttributeName => subtype \in TextSubtypes /\ subtype' = subtype
  BY DEF VariableName, AttributeName, Name, Refuse, Reading, given, TextSubtypes, Attributes
<1>4. SetEnds \/ NoGroups \/ CollapseAttributes => subtype \in TextSubtypes /\ subtype' = subtype
  BY DEF SetEnds, NoGroups, CollapseAttributes, Reading, given, TextSubtypes, Attributes
<1>5. Value => subtype \in TextSubtypes /\ subtype' = subtype
  BY DEF Value, Refuse, Reading, given, TextSubtypes, Attributes
<1> QED
  BY <1>1, <1>2, <1>3, <1>4, <1>5 DEF TextNext

LEMMA NextLong ==
  ASSUME ParserInv, LongInv, RecordNext
  PROVE  LongInv'
<1>1. CASE MisshapenRecord
  BY <1>1, LeavesLong DEF MisshapenRecord, RefuseRecord, Refuse
<1>2. CASE MachineInfo \/ Sentinels \/ NumberOfCases \/ DisplayParameters
  BY <1>2, LeavesLong
     DEF MachineInfo, Sentinels, NumberOfCases, DisplayParameters, ReadWhole, Opens, envelope, given
<1>3. CASE StartReading
  BY <1>3, StaysLong DEF StartReading, envelope, cursor
<1>4. CASE TextNext
  <2>1. subtype \in TextSubtypes /\ subtype' = subtype
    BY <1>4, TextNextIsText
  <2> QED
    BY <2>1, LeavesLong, BinaryIsNoText
<1>5. CASE LongLabelRecord
  BY <1>5, LongLabelRecordLong
<1>6. CASE LongLabel
  BY <1>6, LongLabelLong
<1>7. CASE LongMissingRecord
  BY <1>7, LongMissingRecordLong
<1>8. CASE LongMissing
  BY <1>8, LongMissingLong
<1>9. CASE EndOfRecords
  BY <1>9, EndsLong
<1>10. CASE DegradeToUnknown \/ DecodeUnknownExtension
  BY <1>10, LeavesLong DEF DegradeToUnknown, DecodeUnknownExtension, Keep
<1> QED
  BY <1>1, <1>2, <1>3, <1>4, <1>5, <1>6, <1>7, <1>8, <1>9, <1>10 DEF RecordNext

LEMMA LongStringsHold == RecordSpec => [](ParserInv /\ LongInv)
<1>1. RecordInit => ParserInv /\ LongInv
  BY RecordInitParser, RecordInitLong
<1>2. ParserInv /\ LongInv /\ [RecordNext]_recordVars => (ParserInv /\ LongInv)'
  <2> SUFFICES ASSUME ParserInv, LongInv, [RecordNext]_recordVars PROVE (ParserInv /\ LongInv)'
    OBVIOUS
  <2>1. CASE RecordNext
    BY <2>1, NextParser, NextLong DEF ParserStep
  <2>2. CASE UNCHANGED recordVars
    <3>1. UNCHANGED <<given, byteOrder, items, rest, width, due, repeated, complaints, outcome>>
      BY <2>2 DEF recordVars, envelope, cursor
    <3>2. rest' \in Seq(Characters) /\ due' \in Nat /\ width' \in Nat
      BY <3>1 DEF ParserInv
    <3>3. LongInv'
      BY <3>1, StaysLong DEF LongInv
    <3> QED
      BY <3>1, <3>2, <3>3, StaysParser
  <2> QED
    BY <2>1, <2>2
<1> QED
  BY <1>1, <1>2, PTL DEF RecordSpec

(* Whatever the payload of an extension record, its length and its damage, nothing of it is lost *)
(* when the record is read: of a text record every letter is in some item, and the payload of a    *)
(* record of long strings is what the items are written as, in the byte order of the header, with   *)
(* the width again before just the values whose variables are reported.                              *)
THEOREM RecordsAreReadWhole == RecordSpec => []ReadIsWhole
<1>1. ParserInv /\ LongInv => LongStringsAreWhole
  <2> SUFFICES ASSUME ParserInv, LongInv, outcome = "read", subtype \in {21, 22} PROVE ReadToTheLastByte
    BY DEF LongStringsAreWhole
  <2>1. Trace /\ due = 0 /\ rest = << >>
    BY DEF LongInv
  <2>2. PICK parts, marks, notes: Traced(items, << >>, width, 0, repeated, complaints, parts, marks, notes)
    BY <2>1 DEF Trace
  <2> QED
    BY <2>2, TraceIsWhole
<1>2. RecordSpec => []NoLetterIsLost
  BY NoLetterDisappears
<1>3. NoLetterIsLost /\ LongStringsAreWhole => ReadIsWhole
  BY DEF ReadIsWhole
<1> QED
  BY <1>1, <1>2, <1>3, LongStringsHold, PTL
===================================================================================
