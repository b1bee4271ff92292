----------------------------------- MODULE Cells ----------------------------------
(* A filled row split into its cells, all at once (read_record) or one at a time as    *)
(* asked for (LazySavRecord::value).  The row is what a writer of the format puts       *)
(* there: the pattern of a number in its unit, or what the row source puts there for the *)
(* command that stands for system-missing, and a string's bytes 255 to a segment, each     *)
(* segment padded to whole units.                                                          *)
EXTENDS MissingValues, FiniteSets, SequencesExt

CONSTANTS
  SegmentMax,       \* SEGMENT_WIDTH_MAX (255)
  Layouts,          \* bound: the layouts of the model, as sequences of variables
  Rows(_),          \* bound: what a writer puts in the cells of a layout
  Patterns,         \* bound: what a numeric cell holds
  Bytes,            \* bound: the bytes of strings
  Formats,
  SentinelRecords,  \* bound: what subtype 4 declares, as sets of none or one
  MissingCommand,   \* a numeric cell written as the command for system-missing
  Gap,              \* a byte no string holds, between and after the segments
  PastWidth         \* what fills a string's one segment, where that is wider than the string

ASSUME WidthAssumption == SegmentMax \in Nat \ {0}
ASSUME PatternsAssumption == Patterns \subseteq Int
ASSUME CommandAssumption == MissingCommand \notin Patterns
ASSUME GapAssumption == Gap \notin Bytes \cup {Space, Nul}
ASSUME SentinelsAssumption ==
  \A records \in SentinelRecords:
    /\ records \subseteq [systemMissing: Int, lowest: Int, highest: Int]
    /\ \A one, other \in records: one = other

VARIABLES
  layout,       \* the variables: width (0 for numeric), segments (offset, content), raw
  format,       \* the float format
  declared,     \* the file's subtype-4 record, if it has one
  cellsWritten, \* what the writer put in each cell
  row,          \* the bytes of the row, from 1
  values,       \* the cells read_record has decoded so far
  lazy          \* the answers value(index) gave, by index

file == <<layout, format, declared>>
cellsVars == <<file, cellsWritten, row, values, lazy>>

NumericWidth == 0

-----------------------------------------------------------------------------------
(* The row: what a writer put there, or the row source in its place *)

(* DataLayout::sentinels, which its row_coding and its cells both take theirs from. *)
FileSentinels == ResolveSentinels(declared)

(* Mutant: the command writes the default pattern. *)
RowCodingDefault == [systemMissing |-> SysMis]

(* row_coding: what the command for system-missing writes. *)
RowCoding == [systemMissing |-> FileSentinels.systemMissing]

Pattern(cell) == IF cell = MissingCommand THEN RowCoding.systemMissing ELSE cell

Writable(variable) ==
  IF variable.width = NumericWidth THEN Patterns \cup {MissingCommand} ELSE [1..variable.width -> Bytes]

(* The byte at distance d into the k-th segment of a variable, both from 0. *)
WrittenByte(variable, cell, k, d) ==
  IF variable.width = NumericWidth THEN IF d = 0 THEN Pattern(cell) ELSE Gap
  ELSE IF d >= variable.segments[k + 1].content THEN Gap
  ELSE IF k * SegmentMax + d < variable.width THEN cell[k * SegmentMax + d + 1]
  ELSE IF Len(variable.segments) = 1 THEN PastWidth ELSE Gap

SegmentOf(variable, cell, k) ==
  [d \in 1..variable.segments[k].stride |-> WrittenByte(variable, cell, k - 1, d - 1)]
CellOf(variable, cell) ==
  FlattenSeq([k \in DOMAIN variable.segments |-> SegmentOf(variable, cell, k)])
RowOf(l, cells) == FlattenSeq([v \in DOMAIN l |-> CellOf(l[v], cells[v])])

-----------------------------------------------------------------------------------
(* What DataLayout and the record parsers leave a cell to be read with *)

SegmentLayout == [offset: Nat, content: Nat, stride: Nat \ {0}]
EndOf(segment) == segment.offset + segment.stride

(* A number has one segment; the segments of a string are full but for the last, and supply  *)
(* at least its width (DataLayout: SpansHoldTheirWidth).                                      *)
SegmentsHold(variable) ==
  LET segments == variable.segments
      n == Len(segments)
  IN  IF variable.width = NumericWidth
      THEN n = 1 /\ segments[1].content > 0
      ELSE /\ \A k \in 1..n - 1: segments[k].content = SegmentMax
           /\ (n - 1) * SegmentMax + segments[n].content >= variable.width

WellFormed(variable) ==
  LET segments == variable.segments
  IN  /\ variable.width \in Nat
      /\ segments \in Seq(SegmentLayout) /\ segments # << >>
      /\ \A k \in DOMAIN segments: segments[k].content <= segments[k].stride
      /\ \A k \in 1..Len(segments) - 1: segments[k + 1].offset = EndOf(segments[k])
      /\ SegmentsHold(variable)

(* RawMissingValues: numbers to compare by, of which a range has two at least, or keys. *)
WellDeclared(variable) ==
  LET raw == variable.raw
  IN  /\ raw.kind \in {"None", "Discrete", "Range"}
      /\ raw.kind = "None" => raw.entries = << >>
      /\ IF variable.width = NumericWidth
         THEN raw.entries \in Seq(Int) /\ (raw.kind = "Range" => Len(raw.entries) >= 2)
         ELSE raw.entries \in Seq(Seq(Bytes \cup {Space, Nul}))

(* The segments lie one after the other through the whole row. *)
LaysOut(l) ==
  /\ DOMAIN l = 1..Len(l) /\ Len(l) \in Nat
  /\ \A v \in DOMAIN l:
       /\ WellFormed(l[v]) /\ WellDeclared(l[v])
       /\ l[v].segments[1].offset =
            IF v = 1 THEN 0 ELSE EndOf(l[v - 1].segments[Len(l[v - 1].segments)])

ASSUME LayoutsAssumption == \A l \in Layouts: LaysOut(l)
ASSUME RowsAssumption ==
  \A l \in Layouts: \A cells \in Rows(l):
    DOMAIN cells = DOMAIN l /\ \A v \in DOMAIN l: cells[v] \in Writable(l[v])

-----------------------------------------------------------------------------------

CellsInit ==
  /\ layout \in Layouts
  /\ format \in Formats
  /\ declared \in SentinelRecords
  /\ cellsWritten \in Rows(layout)
  /\ row = RowOf(layout, cellsWritten)
  /\ values = << >>
  /\ lazy = [i \in {} |-> 0]

-----------------------------------------------------------------------------------
(* Cells *)

SegmentBytes(segment) == SubSeq(row, segment.offset + 1, segment.offset + segment.content)

(* Mutant: the segments are joined as they lie in the row. *)
StringCellUncut(variable) == Trim(FlattenSeq([k \in DOMAIN variable.segments |->
                                    SegmentBytes(variable.segments[k])]))

(* parse_string_cell: the one segment as it is, or all of them cut to the width. *)
ParseStringCell(variable) ==
  IF Len(variable.segments) = 1 THEN Trim(SegmentBytes(variable.segments[1]))
  ELSE LET joined == FlattenSeq([k \in DOMAIN variable.segments |->
                                   SegmentBytes(variable.segments[k])])
       IN  Trim(SubSeq(joined, 1, variable.width))

NoCell == [class |-> "none"]

(* parse_cell *)
ParseCell(index) ==
  IF index \notin DOMAIN layout THEN NoCell
  ELSE LET variable == layout[index]
           missing == DecodeMissing(variable.raw, variable.width = NumericWidth, format, FileSentinels)
       IN  IF variable.width = NumericWidth
           THEN LET pattern == row[variable.segments[1].offset + 1]
                IN  [class |-> NumericCell(pattern, missing, format, FileSentinels.systemMissing),
                     number |-> Decode(pattern, format)]
           ELSE LET raw == ParseStringCell(variable)
                IN  [class |-> StringCell(raw, missing), raw |-> raw]

(* One turn of read_record's loop. *)
ReadNext ==
  /\ Len(values) < Len(layout)
  /\ values' = Append(values, ParseCell(Len(values) + 1))
  /\ UNCHANGED <<file, cellsWritten, row, lazy>>

(* LazySavRecord::value, past the last variable too. *)
ValueAt(index) ==
  /\ index \notin DOMAIN lazy
  /\ lazy' = [i \in DOMAIN lazy \cup {index} |-> IF i = index THEN ParseCell(i) ELSE lazy[i]]
  /\ UNCHANGED <<file, cellsWritten, row, values>>

CellsNext == ReadNext \/ \E index \in 1..Len(layout) + 1: ValueAt(index)

CellsSpec == CellsInit /\ [][CellsNext]_cellsVars

-----------------------------------------------------------------------------------
(* Properties *)

Answers == {<<v, values[v]>>: v \in DOMAIN values}
             \cup {<<i, lazy[i]>>: i \in DOMAIN lazy \ {Len(layout) + 1}}

Pads(byte) == byte \in {Space, Nul}

(* A record has a cell for each of its variables and none beyond, and a string cell holds    *)
(* the bytes that were written, to the last one that is no padding and in order, however       *)
(* many segments they were cut into (read_record, LazySavRecord::value, parse_string_cell).    *)
CellsAreTheRows ==
  /\ Len(values) <= Len(layout)
  /\ \A i \in DOMAIN lazy: lazy[i] = NoCell <=> i \notin DOMAIN layout
  /\ \A answer \in Answers:
       LET v == answer[1] raw == answer[2].raw
       IN  layout[v].width # NumericWidth =>
             /\ Len(raw) <= layout[v].width
             /\ raw = SubSeq(cellsWritten[v], 1, Len(raw))
             /\ raw # << >> => ~Pads(Last(raw))
             /\ \A i \in Len(raw) + 1..layout[v].width: Pads(cellsWritten[v][i])

(* Two strings are one to a declaration when they agree up to the padding, within the bytes   *)
(* that are compared, whether spaces or NULs pad them.                                        *)
SameToADeclaration(key, cell) ==
  \E n \in 0..KeyLen:
    /\ n <= Len(key) /\ n <= Len(cell)
    /\ \A i \in 1..n: key[i] = cell[i]
    /\ \A i \in n + 1..KeyLen: (i <= Len(key) => Pads(key[i])) /\ (i <= Len(cell) => Pads(cell[i]))

(* The patterns that mean no number in this file. *)
Special == IF declared = {} THEN {SpssDefaults} ELSE declared

(* What the declaration of a number says of it, from the record's own patterns: an open end    *)
(* has no number beyond it, infinities included.                                                *)
Declares(raw, number) ==
  LET ends(i) == Decode(raw.entries[i], format)
      discrete == IF raw.kind = "Discrete" THEN DOMAIN raw.entries ELSE 3..Len(raw.entries)
  IN  \/ \E i \in discrete: ends(i) = number
      \/ /\ raw.kind = "Range"
         /\ (\E s \in Special: raw.entries[1] = s.lowest) \/ number >= ends(1)
         /\ (\E s \in Special: raw.entries[2] = s.highest) \/ number <= ends(2)

Declared(raw, cell, isNumeric) ==
  IF isNumeric THEN raw.kind # "None" /\ Declares(raw, Decode(cell, format))
  ELSE \E i \in DOMAIN raw.entries: SameToADeclaration(raw.entries[i], cell)

(* A cell is missing exactly when its variable's record declares what was written there.       *)
(* Strings: keys padded with NULs and cells with spaces, the ends of a range keys like the       *)
(* others, only the first bytes deciding.  Numbers: an open end reaches to infinity, and a cell   *)
(* is system-missing by its bytes alone, so that LOWEST is a number even in the formats that       *)
(* decode the two to one.  The three patterns are the file's own where it declares them, for        *)
(* the command of a compressed row as for the cell (matches_bytes, decode_string, low_bound,         *)
(* parse_numeric_cell, resolve_sentinels, row_coding).                                              *)
MissingAsDeclared ==
  \A answer \in Answers:
    LET v == answer[1]
        isNumeric == layout[v].width = NumericWidth
    IN  answer[2].class =
          IF isNumeric /\ \E s \in Special: cellsWritten[v] \in {MissingCommand, s.systemMissing} THEN "system missing"
          ELSE IF Declared(layout[v].raw, cellsWritten[v], isNumeric) THEN "declared missing"
          ELSE "present"

===================================================================================
