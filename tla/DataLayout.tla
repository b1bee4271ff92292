-------------------------------- MODULE DataLayout --------------------------------
(* DataLayoutBuilder: where each variable's bytes lie within a row.  Every primary *)
(* record opens a segment; the very-long-string records (subtype 14) claim runs of *)
(* segments for one wide variable; every other segment is a variable of its own.   *)
(* The loops over the entries and over the segments take one turn per action.      *)
EXTENDS Integers, Sequences, FiniteSets, SequencesExt

CONSTANTS
  Names,        \* short names, two spellings that differ in case being one name
  Types,        \* bound: the declared types of the model's segments, 0 for numeric
  Widths,       \* bound: the logical widths its very-long-string entries declare
  MaxSegments,  \* bound: the segments of a file
  MaxEntries    \* bound: the entries of a very-long-string record

UnitLen         == 8       \* DATA_UNIT_LEN
SegmentWidthMax == 255     \* SEGMENT_WIDTH_MAX
SegmentStride   == 252     \* SEGMENT_WIDTH_STRIDE
U16Max          == 65535   \* u16::MAX, the widest string a variable can be
Numeric         == 0

ASSUME TypesAssumption == Types \subseteq 0..SegmentWidthMax
ASSUME WidthsAssumption == Widths \subseteq Nat
ASSUME BoundsAssumption == MaxSegments \in Nat /\ MaxEntries \in Nat

Unclaimed == -1   \* no entry has claimed the run that starts here

Entry   == [name: Names, width: Widths]
Segment == [name: Names, type: Types, offset: Nat]
Span    == [start: Nat \ {0}, len: Nat \ {0}, type: Nat]

VARIABLES
  building,         \* "adding", "setting", "claiming", "spanning" or "built"
  segments,         \* the segments, in file order
  rowLen,           \* row_len: the bytes of a row so far
  veryLongStrings,  \* the entries of the last very-long-string record
  entry,            \* how many of them claim_segments has dealt with
  claimed,          \* the width claimed for the run that starts at each segment
  spans,            \* the variables, as runs of segments
  index,            \* resolve_spans: the next segment to be given to a variable
  warnings          \* the entries warned about, by their position and why

vars == <<building, segments, rowLen, veryLongStrings, entry, claimed, spans, index, warnings>>

Init ==
  /\ building = "adding"
  /\ segments = << >>
  /\ rowLen = 0
  /\ veryLongStrings = << >>
  /\ entry = 0
  /\ claimed = << >>
  /\ spans = << >>
  /\ index = 1
  /\ warnings = << >>

-----------------------------------------------------------------------------------
(* Widths *)

CeilDiv(n, d) == (n + d - 1) \div d
Padded(width) == CeilDiv(width, UnitLen) * UnitLen

(* Mutant: a string occupies what it contributes. *)
StrideUnpadded(type) == IF type = Numeric THEN UnitLen ELSE type

(* SegmentLayout::stride: what a segment occupies of the row. *)
Stride(type) == IF type = Numeric THEN UnitLen ELSE Padded(type)

(* SegmentLayout::content_len: what it contributes to its variable. *)
ContentLen(type) == IF type = Numeric THEN UnitLen ELSE type

SegmentCount(width) == IF width <= SegmentWidthMax THEN 1 ELSE CeilDiv(width, SegmentStride)

(* segment_width: what the k-th of its segments, from 0, is to declare. *)
SegmentWidth(width, k) ==
  IF k + 1 < SegmentCount(width) THEN SegmentWidthMax ELSE width - k * SegmentStride

(* Mutant: the last segment may as well be narrower. *)
AcceptedNarrower(expected, actual, isLast) ==
  IF isLast THEN actual \in 1..Padded(expected) ELSE actual = expected

(* segment_width_accepted: the last one may be wider, within its own padding. *)
Accepted(expected, actual, isLast) ==
  IF isLast THEN actual \in expected..Padded(expected) ELSE actual = expected

(* Mutant: a run may reach beyond the last segment. *)
SegmentsAgreeWhileTheyLast(start, width) ==
  \A k \in 0..SegmentCount(width) - 1:
    start + k <= Len(segments) =>
      /\ segments[start + k].type # Numeric
      /\ Accepted(SegmentWidth(width, k), segments[start + k].type, k + 1 = SegmentCount(width))

(* segments_agree *)
SegmentsAgree(start, width) ==
  \A k \in 0..SegmentCount(width) - 1:
    /\ start + k <= Len(segments)
    /\ segments[start + k].type # Numeric
    /\ Accepted(SegmentWidth(width, k), segments[start + k].type, k + 1 = SegmentCount(width))

-----------------------------------------------------------------------------------
(* What the skeleton feeds *)

AddVariable(name, type) ==
  /\ building = "adding"
  /\ Len(segments) < MaxSegments
  /\ segments' = Append(segments, [name |-> name, type |-> type, offset |-> rowLen])
  /\ rowLen' = rowLen + Stride(type)
  /\ UNCHANGED <<building, veryLongStrings, entry, claimed, spans, index, warnings>>

(* set_very_long_strings: a later record replaces an earlier one. *)
SetVeryLongStrings(entries) ==
  /\ building \in {"adding", "setting"}
  /\ building' = "setting"
  /\ veryLongStrings' = entries
  /\ UNCHANGED <<segments, rowLen, entry, claimed, spans, index, warnings>>

-----------------------------------------------------------------------------------
(* build *)

NoClaim == [i \in 1..Len(segments) |-> Unclaimed]

Build ==
  /\ building \in {"adding", "setting"}
  /\ building' = "claiming"
  /\ claimed' = NoClaim
  /\ UNCHANGED <<segments, rowLen, veryLongStrings, entry, spans, index, warnings>>

Declaring(name) == {i \in 1..Len(segments): segments[i].name = name}

(* segment_index_of: the first segment of that name. *)
SegmentIndexOf(name) == CHOOSE i \in Declaring(name): \A j \in Declaring(name): i <= j

Warn(why) == warnings' = Append(warnings, [entry |-> entry + 1, why |-> why])

(* One turn of claim_segments. *)
ClaimNext ==
  LET claim == veryLongStrings[entry + 1]
      start == SegmentIndexOf(claim.name)
  IN  /\ building = "claiming"
      /\ entry < Len(veryLongStrings)
      /\ entry' = entry + 1
      /\ \/ /\ Declaring(claim.name) = {}
            /\ Warn("UnknownVariableInExtension")
            /\ UNCHANGED claimed
         \/ /\ Declaring(claim.name) # {}
            /\ claim.width > U16Max \/ ~SegmentsAgree(start, claim.width)
            /\ Warn("VeryLongStringSegmentMismatch")
            /\ UNCHANGED claimed
         \/ /\ Declaring(claim.name) # {}
            /\ claim.width <= U16Max /\ SegmentsAgree(start, claim.width)
            /\ claimed' = [claimed EXCEPT ![start] = claim.width]
            /\ UNCHANGED warnings
      /\ UNCHANGED <<building, segments, rowLen, veryLongStrings, spans, index>>

Claimed ==
  /\ building = "claiming"
  /\ entry = Len(veryLongStrings)
  /\ building' = "spanning"
  /\ UNCHANGED <<segments, rowLen, veryLongStrings, entry, claimed, spans, index, warnings>>

SpanAt(i) ==
  IF claimed[i] = Unclaimed
  THEN [start |-> i, len |-> 1, type |-> segments[i].type]
  ELSE [start |-> i, len |-> SegmentCount(claimed[i]), type |-> claimed[i]]

(* One turn of resolve_spans. *)
SpanNext ==
  /\ building = "spanning"
  /\ index <= Len(segments)
  /\ spans' = Append(spans, SpanAt(index))
  /\ index' = index + SpanAt(index).len
  /\ UNCHANGED <<building, segments, rowLen, veryLongStrings, entry, claimed, warnings>>

Built ==
  /\ building = "spanning"
  /\ index > Len(segments)
  /\ building' = "built"
  /\ UNCHANGED <<segments, rowLen, veryLongStrings, entry, claimed, spans, index, warnings>>

Entries == UNION {[1..n -> Entry]: n \in 0..MaxEntries}

Next ==
  \/ \E name \in Names, type \in Types: AddVariable(name, type)
  \/ \E entries \in Entries: SetVeryLongStrings(entries)
  \/ Build
  \/ ClaimNext
  \/ Claimed
  \/ SpanNext
  \/ Built

Spec == Init /\ [][Next]_vars

-----------------------------------------------------------------------------------
(* Properties *)

TypeOK ==
  /\ building \in {"adding", "setting", "claiming", "spanning", "built"}
  /\ segments \in Seq(Segment)
  /\ rowLen \in Nat
  /\ veryLongStrings \in Seq(Entry)
  /\ entry \in Nat /\ entry <= Len(veryLongStrings)
  /\ claimed \in Seq(Widths \cup {Unclaimed})
  /\ building \in {"claiming", "spanning", "built"} => Len(claimed) = Len(segments)
  /\ spans \in Seq(Span)
  /\ index \in Nat \ {0}

(* The segments lie one after the other in whole data units: none reaches into the    *)
(* next, and what lies between two is less than a unit of padding                      *)
(* (DataLayoutBuilder::add_variable).                                                  *)
Abuts(segment, next) == next - segment.offset - ContentLen(segment.type) \in 0..UnitLen - 1

SegmentsArePacked ==
  /\ rowLen % UnitLen = 0
  /\ segments = << >> => rowLen = 0
  /\ \A i \in 1..Len(segments):
       /\ segments[i].offset % UnitLen = 0
       /\ i = 1 => segments[i].offset = 0
       /\ i < Len(segments) => Abuts(segments[i], segments[i + 1].offset)
       /\ i = Len(segments) => Abuts(segments[i], rowLen)

(* Every segment goes to exactly one variable, in order, whatever the entries claim:  *)
(* a run that is given to a variable never reaches past the last segment              *)
(* (resolve_spans; the slice in variable_layout would panic).                         *)
SpansCoverTheSegments ==
  /\ index <= Len(segments) + 1
  /\ spans = << >> => index = 1
  /\ spans # << >> =>
       /\ spans[1].start = 1
       /\ \A k \in 1..Len(spans) - 1: spans[k + 1].start = spans[k].start + spans[k].len
       /\ index = spans[Len(spans)].start + spans[Len(spans)].len
  /\ building = "built" => index = Len(segments) + 1

(* The bytes that `len` segments contribute, from `start` on. *)
Contribution(start, len) ==
  FoldLeft(LAMBDA sum, n: sum + n, 0, [k \in 1..len |-> ContentLen(segments[start + k - 1].type)])

(* A variable's segments supply every byte of its declared width, and of more only    *)
(* the three bytes of each segment before the last and the padding of the last: a      *)
(* numeric variable is one numeric segment and a string one has only string segments  *)
(* (segments_agree: "caught rather than silently mis-slicing the row").               *)
HoldsItsWidth(span) ==
  IF span.type = Numeric
  THEN span.len = 1 /\ segments[span.start].type = Numeric
  ELSE /\ \A i \in span.start..span.start + span.len - 1: segments[i].type # Numeric
       /\ Contribution(span.start, span.len) - span.type
            \in 0..(SegmentWidthMax - SegmentStride) * (span.len - 1) + UnitLen - 1

SpansHoldTheirWidth == \A k \in 1..Len(spans): HoldsItsWidth(spans[k])

===================================================================================
