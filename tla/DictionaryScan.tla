------------------------------ MODULE DictionaryScan ------------------------------
(* DictionaryBuffer::read: the walk over the whole dictionary section before any *)
(* text is decoded.  One action is one turn of Scan::run's loop: a turn that     *)
(* fails ends the walk and drops everything it had, so nothing can be observed   *)
(* between the reads of one record.                                              *)
(*                                                                               *)
(* What the file holds is chosen as it is read.  A record is abstracted to what  *)
(* the walk decides by: the fields of a variable record as they are on disk, the *)
(* variables a value-label set names, a subtype and whether its payload parses.  *)
EXTENDS Integers, Sequences, FiniteSets, SequencesExt

CONSTANTS
  VariableTypes,   \* bound: the type fields of the model's variable records
  MissingCounts,   \* bound: their missing-value counts
  IndexLists,      \* bound: the variables its value-label sets name, 1-based
  Subtypes,        \* bound: the extension subtypes its files carry
  Labels,          \* bound: what an extension payload that parses says
  Unreadables,     \* bound: the payloads their subtype's own parser rejects
  HeaderWarnings,  \* the warnings reading the header left
  MaxRecords       \* bound: the records of a file

ASSUME VariableTypesAssumption == VariableTypes \subseteq Int
ASSUME MissingCountsAssumption == MissingCounts \subseteq Int
ASSUME IndexListsAssumption == IndexLists \subseteq Seq(Nat)
ASSUME SubtypesAssumption == Subtypes \subseteq Nat
ASSUME MaxRecordsAssumption == MaxRecords \in Nat

(* What parsing the header can have to say. *)
HeaderNames == {"CompressionMismatch", "UnknownCompressionCode", "FloatFormatAssumed"}
ASSUME HeaderWarningsAssumption == HeaderWarnings \in Seq([warning: HeaderNames])

UnitLen       == 8     \* DATA_UNIT_LEN
StringTypeMax == 255   \* VARIABLE_TYPE_STRING_MAX
Continuation  == -1    \* VARIABLE_TYPE_CONTINUATION
Numeric       == 0     \* VARIABLE_TYPE_NUMERIC

(* The subtypes the walk itself looks at. *)
MachineIntegerInfo == 3
CharacterEncoding  == 20
LayoutBearing      == {4, 13, 14, 16, 22}   \* is_layout_bearing
DeclaresEncoding   == {MachineIntegerInfo, CharacterEncoding}

Undeclared == "undeclared"   \* a declaration the file did not make

ASSUME LabelsAssumption == Unreadables \cap Labels = {} /\ Undeclared \notin Labels

VariableRecord  == [kind: {"variable"}, type: VariableTypes, missing: MissingCounts]
ValueLabels     == [kind: {"value_label"}, duplicate: BOOLEAN, indices: IndexLists]
Document        == [kind: {"document"}]
ExtensionRecord == [kind: {"extension"}, subtype: Subtypes, payload: Labels \cup Unreadables]
Record == VariableRecord \cup ValueLabels \cup Document \cup ExtensionRecord

VARIABLES
  retention,   \* what the caller asked to keep: "All" or "Minimal"
  scanning,    \* "running", then "done" or the kind of the error that ended it
  pending,     \* continuation records still expected for the last primary
  physical,    \* physical_variable_count: type-2 records of both kinds so far
  primaries,   \* the 0-based physical position of each primary
  variables,   \* skeleton: the type of each primary
  envelopes,   \* skeleton: copies of the layout-bearing extension records
  label,       \* declared_encoding_label
  codepage,    \* character_code
  records,     \* what will be handed out
  warnings,    \* the reader's warnings
  scanned      \* history: every record read off the wire

scanVars == <<retention, scanning, pending, physical, primaries, variables,
              envelopes, label, codepage, records, warnings, scanned>>

Running == scanning = "running"

ScanInit ==
  /\ retention \in {"All", "Minimal"}
  /\ scanning = "running"
  /\ pending = 0
  /\ physical = 0
  /\ primaries = << >>
  /\ variables = << >>
  /\ envelopes = << >>
  /\ label = Undeclared
  /\ codepage = Undeclared
  /\ records = << >>
  /\ warnings = HeaderWarnings
  /\ scanned = << >>

-----------------------------------------------------------------------------------
(* Reading one record *)

(* Data units of a value of this type, and so the records that declare it. *)
Units(type) == IF type = Numeric THEN 1 ELSE (type + UnitLen - 1) \div UnitLen

TypeParses(type)   == type \in Continuation..StringTypeMax   \* parse_variable_type
CountParses(count) == count \in -3..3                        \* parse_missing_value_count

KeepsRecords == retention = "All"   \* DictionaryRetention::keeps_records

(* Where a primary sits among the segments: the binary search in `primaries`. *)
SegmentsAt(position) == {i \in DOMAIN primaries: primaries[i] = position}
Dangles(index)       == index = 0 \/ SegmentsAt(index - 1) = {}
SegmentNamed(index)  == (CHOOSE i \in SegmentsAt(index - 1): TRUE) - 1

(* The rest of a turn, for a record that was kept: the warnings its reading raised *)
(* are split off and go with it.                                                   *)
Buffer(payload, raised) ==
  /\ records' = Append(records, [payload |-> payload, warnings |-> raised])
  /\ UNCHANGED warnings

(* For a record that was not kept: its warnings are truncated away. *)
Drop(raised) ==
  /\ warnings' = SubSeq(warnings \o raised, 1, Len(warnings))
  /\ UNCHANGED records

Read(record) ==
  /\ Running
  /\ Len(scanned) < MaxRecords
  /\ scanned' = Append(scanned, record)
  /\ UNCHANGED <<retention, scanning>>

(* Mutant: the run of continuations is counted from the width alone. *)
ContinuationsOfUnpadded(type) == type \div UnitLen

(* The continuation records a primary owns. *)
Continuations(type) == Units(type) - 1

MissingCountWarning(record) ==
  IF record.missing = -1
  THEN <<[warning |-> "InvalidMissingValueCount", of |-> Len(variables)]>> ELSE << >>

(* read_variable_record *)
ReadPrimary(record) ==
  /\ pending = 0
  /\ record.type \in Numeric..StringTypeMax
  /\ CountParses(record.missing)
  /\ Read(record)
  /\ pending' = Continuations(record.type)
  /\ physical' = physical + 1
  /\ primaries' = Append(primaries, physical)
  /\ variables' = Append(variables, record.type)
  /\ Buffer(record, MissingCountWarning(record))
  /\ UNCHANGED <<envelopes, label, codepage>>

ReadContinuation(record) ==
  /\ pending > 0
  /\ record.type = Continuation
  /\ CountParses(record.missing)
  /\ Read(record)
  /\ pending' = pending - 1
  /\ physical' = physical + 1
  /\ UNCHANGED <<primaries, variables, envelopes, label, codepage, records, warnings>>

ValueLabelWarnings(record) ==
  (IF record.duplicate /\ KeepsRecords THEN <<[warning |-> "DuplicateValueLabelKey"]>> ELSE << >>)
  \o (IF record.indices = << >> THEN <<[warning |-> "EmptyValueLabelVariables"]>> ELSE << >>)

(* Mutant: the positions are handed out as they are on disk. *)
SegmentsUnresolved(indices) == [i \in DOMAIN indices |-> indices[i] - 1]

(* normalize_value_label_variable_indices *)
SegmentsNamed(indices) == [i \in DOMAIN indices |-> SegmentNamed(indices[i])]

(* read_value_label_record: the set and the record of variables that follows it. *)
ReadValueLabels(record) ==
  /\ pending = 0
  /\ \A i \in DOMAIN record.indices: ~Dangles(record.indices[i])
  /\ Read(record)
  /\ IF KeepsRecords
     THEN Buffer([kind |-> "value_label", segments |-> SegmentsNamed(record.indices)],
                 ValueLabelWarnings(record))
     ELSE Drop(ValueLabelWarnings(record))
  /\ UNCHANGED <<pending, physical, primaries, variables, envelopes, label, codepage>>

(* read_document_record *)
ReadDocument(record) ==
  /\ pending = 0
  /\ Read(record)
  /\ IF KeepsRecords THEN Buffer(record, << >>) ELSE Drop(<< >>)
  /\ UNCHANGED <<pending, physical, primaries, variables, envelopes, label, codepage>>

(* What a declaring record leaves: a payload that does not parse declares nothing. *)
Declared(payload) == IF payload \in Unreadables THEN Undeclared ELSE payload

(* Mutant: what is not kept is skipped before anything looks at it. *)
AbsorbKept(record) ==
  /\ envelopes' = IF record.subtype \in LayoutBearing /\ KeepsRecords
                  THEN Append(envelopes, record) ELSE envelopes
  /\ label' = IF record.subtype = CharacterEncoding THEN Declared(record.payload) ELSE label
  /\ codepage' = IF record.subtype = MachineIntegerInfo THEN Declared(record.payload) ELSE codepage

Absorb(record) ==
  /\ envelopes' = IF record.subtype \in LayoutBearing
                  THEN Append(envelopes, record) ELSE envelopes
  /\ label' = IF record.subtype = CharacterEncoding THEN Declared(record.payload) ELSE label
  /\ codepage' = IF record.subtype = MachineIntegerInfo THEN Declared(record.payload) ELSE codepage

(* read_extension_record *)
ReadExtension(record) ==
  /\ pending = 0
  /\ Read(record)
  /\ IF record.subtype \in DeclaresEncoding \cup LayoutBearing \/ KeepsRecords
     THEN Absorb(record)
     ELSE UNCHANGED <<envelopes, label, codepage>>
  /\ IF KeepsRecords THEN Buffer(record, << >>) ELSE Drop(<< >>)
  /\ UNCHANGED <<pending, physical, primaries, variables>>

-----------------------------------------------------------------------------------
(* How the walk ends *)

Stop(kind) ==
  /\ Running
  /\ scanning' = kind
  /\ UNCHANGED <<retention, pending, physical, primaries, variables, envelopes, label,
                 codepage, records, warnings, scanned>>

(* Mutant: a run of continuations may be cut short by the terminator. *)
ReadTerminatorAnywhere == Stop("done")

ReadTerminator == pending = 0 /\ Stop("done")

(* A variable record is read whole before it can be told to be the wrong one. *)
VariableFails(record) ==
  \/ /\ ~TypeParses(record.type)
     /\ Stop("UnexpectedValue")
  \/ /\ record.type = Continuation
     /\ pending = 0
     /\ Stop("UnexpectedContinuationRecord")
  \/ /\ record.type \in Numeric..StringTypeMax
     /\ pending > 0
     /\ Stop("MissingContinuationRecord")
  \/ /\ record.type = Continuation <=> pending > 0
     /\ TypeParses(record.type)
     /\ ~CountParses(record.missing)
     /\ Stop("UnexpectedValue")

(* Any other record, the terminator too, within a run of continuations. *)
RunCutShort == pending > 0 /\ Stop("MissingContinuationRecord")

(* A value-label set whose next record is not its list of variables, or a list of  *)
(* variables that follows no set.                                                  *)
Unpaired == pending = 0 /\ Stop("UnpairedValueLabelRecord")

ValueLabelsDangle(record) ==
  /\ pending = 0
  /\ \E i \in DOMAIN record.indices: Dangles(record.indices[i])
  /\ Stop("DanglingValueLabel")

UnknownRecordType == pending = 0 /\ Stop("UnknownRecordType")

(* The file ends or fails within a record, or one declares more than fits. *)
ReadFails == Stop("Io")

ScanNext ==
  \/ \E record \in VariableRecord:
       ReadPrimary(record) \/ ReadContinuation(record) \/ VariableFails(record)
  \/ \E record \in ValueLabels: ReadValueLabels(record) \/ ValueLabelsDangle(record)
  \/ \E record \in Document: ReadDocument(record)
  \/ \E record \in ExtensionRecord: ReadExtension(record)
  \/ ReadTerminator
  \/ RunCutShort
  \/ Unpaired
  \/ UnknownRecordType
  \/ ReadFails

ScanSpec == ScanInit /\ [][ScanNext]_scanVars

-----------------------------------------------------------------------------------
(* Properties *)

Errors == {"UnexpectedValue", "UnexpectedContinuationRecord", "MissingContinuationRecord",
           "UnpairedValueLabelRecord", "DanglingValueLabel", "UnknownRecordType", "Io"}

CountersTypeOK ==
  /\ retention \in {"All", "Minimal"}
  /\ scanning \in {"running", "done"} \cup Errors
  /\ pending \in Nat
  /\ physical \in Nat
  /\ primaries \in Seq(Nat)
  /\ variables \in Seq(Numeric..StringTypeMax)

ScanTypeOK ==
  /\ CountersTypeOK
  /\ envelopes \in Seq(ExtensionRecord)
  /\ label \in Labels \cup {Undeclared}
  /\ codepage \in Labels \cup {Undeclared}
  /\ scanned \in Seq(Record)

(* The position of a variable record among the type-2 records is also its offset   *)
(* in a row, in units: each primary starts where the one before it ends, and the   *)
(* records counted, with those still expected, are the units of all variables      *)
(* (dictionary_reader.rs, weight_offset: "the two counts never diverge").          *)
PositionsAreOffsets ==
  /\ Len(primaries) = Len(variables)
  /\ primaries = << >> => physical = 0 /\ pending = 0
  /\ primaries # << >> =>
       /\ primaries[1] = 0
       /\ \A i \in 1..Len(primaries) - 1: primaries[i + 1] = primaries[i] + Units(variables[i])
       /\ physical + pending = primaries[Len(primaries)] + Units(variables[Len(primaries)])

(* What the binary searches over `primaries` rely on (dictionary_parse.rs,         *)
(* normalize_value_label_variable_indices; LayoutSkeleton::segment_of_physical).   *)
PrimariesAreSorted ==
  \A i, j \in DOMAIN primaries: i < j => primaries[i] < primaries[j]

IsPrimary(record) == record.kind = "variable" /\ record.type # Continuation

TypeOfPrimary(record) == IF IsPrimary(record) THEN <<record.type>> ELSE << >>
Envelope(record) ==
  IF record.kind = "extension" /\ record.subtype \in LayoutBearing THEN <<record>> ELSE << >>

VariableRecordsSeen == {i \in DOMAIN scanned: scanned[i].kind = "variable"}
Carrying(subtype) ==
  {i \in DOMAIN scanned: scanned[i].kind = "extension" /\ scanned[i].subtype = subtype}

(* What a subtype's readable records declare, the last of them where there are        *)
(* several, and whether a record that does not parse follows it.                      *)
ReadableOf(subtype) == {i \in Carrying(subtype): scanned[i].payload \notin Unreadables}
DeclaredBy(subtype) ==
  IF ReadableOf(subtype) = {} THEN Undeclared ELSE scanned[Max(ReadableOf(subtype))].payload
Followed(subtype) == ReadableOf(subtype) # {} /\ Max(ReadableOf(subtype)) # Max(Carrying(subtype))

(* The layout and the encoding come from the file alone: whatever the caller asked  *)
(* to keep, the skeleton holds every variable and every layout-bearing record, in    *)
(* the file's order, and both declarations were seen, an unreadable record that no    *)
(* readable one precedes declaring nothing; and at the end of the dictionary every     *)
(* variable has all the records it owns (DictionaryRetention::Minimal, Scan::run).    *)
SkeletonIsTheFile ==
  /\ variables = FlattenSeq([i \in DOMAIN scanned |-> TypeOfPrimary(scanned[i])])
  /\ envelopes = FlattenSeq([i \in DOMAIN scanned |-> Envelope(scanned[i])])
  /\ ~Followed(CharacterEncoding) => label = DeclaredBy(CharacterEncoding)
  /\ ~Followed(MachineIntegerInfo) => codepage = DeclaredBy(MachineIntegerInfo)
  /\ scanning = "done" =>
       Cardinality(VariableRecordsSeen) =
         FoldLeft(LAMBDA units, n: units + n, 0, [i \in DOMAIN variables |-> Units(variables[i])])

(* An unreadable declaration contributes nothing: what is declared is what the last     *)
(* record that could be read declares.                                                   *)
UnreadableDoesNotContribute ==
  /\ label = DeclaredBy(CharacterEncoding)
  /\ codepage = DeclaredBy(MachineIntegerInfo)

(* A variable record's 1-based position among the type-2 records of both kinds, and *)
(* the segment of the primary that stands at one: what a file's own order says.      *)
PositionIn(file, j) == Cardinality({i \in 1..j: file[i].kind = "variable"})
PrimariesUpTo(file, index) ==
  {j \in DOMAIN file: IsPrimary(file[j]) /\ PositionIn(file, j) <= index}
SegmentIn(file, index) == Cardinality(PrimariesUpTo(file, index)) - 1

PrimariesBefore(file, i) == {j \in 1..i - 1: IsPrimary(file[j])}

(* What the i-th record of a file is handed out as, and the warnings of reading it. *)
HandedOutAs(file, i) ==
  IF file[i].kind = "value_label"
  THEN [kind |-> "value_label",
        segments |-> [k \in DOMAIN file[i].indices |-> SegmentIn(file, file[i].indices[k])]]
  ELSE file[i]

ReadingWarns(file, i) ==
  IF file[i].kind = "value_label"
  THEN (IF file[i].duplicate THEN <<[warning |-> "DuplicateValueLabelKey"]>> ELSE << >>)
       \o (IF file[i].indices = << >> THEN <<[warning |-> "EmptyValueLabelVariables"]>> ELSE << >>)
  ELSE IF file[i].kind = "variable" /\ file[i].missing = -1
  THEN <<[warning |-> "InvalidMissingValueCount", of |-> Cardinality(PrimariesBefore(file, i))]>>
  ELSE << >>

ReadAs(file, i) == [payload |-> HandedOutAs(file, i), warnings |-> ReadingWarns(file, i)]

IsKept(asked, record) ==
  \/ IsPrimary(record)
  \/ asked = "All" /\ record.kind # "variable"

HandedOut(asked, file) ==
  [i \in DOMAIN file |-> IF IsKept(asked, file[i]) THEN <<ReadAs(file, i)>> ELSE << >>]

(* What is handed out is the file's records in the file's order, each with the      *)
(* segments its own indices name and the warnings its own reading raised, and no    *)
(* record's warnings are taken for the reader's (Scan::run).                        *)
BufferIsTheDictionary ==
  /\ records = FlattenSeq(HandedOut(retention, scanned))
  /\ warnings = HeaderWarnings

===================================================================================
