--------------------------------- MODULE SavSchema --------------------------------
(* SavSchemaBuilder: the records of the dictionary, collected in file order, folded    *)
(* into one description per variable.  The layout says which segments a variable owns; *)
(* the records name variables by segment, by short name or by full name.  The layout   *)
(* reads two of the records itself, for what the cells of a row are matched against.   *)
(* Every loop of build takes one turn per action.  Both are handed the same sentinels,  *)
(* here the default ones.                                                               *)
EXTENDS MissingValues, FiniteSets, SequencesExt

CONSTANTS
  Dictionaries,      \* bound: the dictionaries of the model, as sequences of variables
  Names,             \* the names records use, two spellings that differ in case being one
  LongNamePayloads, LongMissingPayloads, LabelSets, LongLabelPayloads,
  DisplayPayloads, AttributePayloads,   \* bound: what each kind of record can carry
  KeySets,           \* bound: the keys an entry of subtype 22 lists
  Formats,           \* the float formats
  MaxRecords,        \* bound: the records fed after the variables
  Contents(_)        \* bound: what a cell of a numeric (TRUE) or a string variable holds

Unset == "unset"     \* of a name or labels: no record has set them

ASSUME MaxRecordsAssumption == MaxRecords \in Nat
ASSUME NamesAssumption == Unset \notin Names

(* Every segment has a unit of the row, and every variable a segment. *)
ASSUME DictionariesAssumption ==
  \A dictionary \in Dictionaries:
    /\ Len(dictionary) \in Nat /\ DOMAIN dictionary = 1..Len(dictionary)
    /\ \A v \in DOMAIN dictionary:
         /\ dictionary[v].name \in Names /\ dictionary[v].numeric \in BOOLEAN
         /\ dictionary[v].units \in Seq(Nat \ {0}) /\ dictionary[v].units # << >>

(* Labels and attributes are opaque, and so numbers. *)
ASSUME PayloadsAssumption ==
  /\ LongNamePayloads \subseteq Seq([short: Names, long: Names])
  /\ LongMissingPayloads \subseteq Seq([name: Names, keys: KeySets])
  /\ LabelSets \subseteq [segments: Seq(Nat), labels: Nat]
  /\ LongLabelPayloads \subseteq Seq([name: Names, labels: Nat])
  /\ DisplayPayloads \subseteq Seq(Nat)
  /\ AttributePayloads \subseteq Seq([name: Names, attributes: Seq(Nat)])

VARIABLES
  building,          \* "feeding", the loop of build that runs, or "built"
  layout,            \* its variables: name, numeric, the units of each segment, raw
  format,            \* the file's float format
  records,           \* how many records were fed
  longNames,         \* the mappings of the last subtype-13 record
  display,           \* the values of the last subtype-11 record, if any
  valueLabelSets,    \* every type-3/4 pair
  attributes,        \* the entries collected of subtype-18 records
  carried,           \* history: the entries of every such record of the file
  longValueLabels,   \* the entries of the last subtype-21 record
  longMissing,       \* the entries of the last subtype-22 record
  turn,              \* how many entries the running loop has dealt with
  variables,         \* the descriptions
  names,             \* NameIndex: the variable each name finds
  warnings

fed  == <<longNames, display, valueLabelSets, attributes, carried, longValueLabels, longMissing>>
vars == <<building, layout, format, records, fed, turn, variables, names, warnings>>

-----------------------------------------------------------------------------------
(* Segments and names *)

(* segment_starts, from 0. *)
Start(v) == Len(FlattenSeq([u \in 1..v - 1 |-> layout[u].units]))
SegmentCount == Start(Len(layout) + 1)

(* SavVariable; what no record has set yet is unset or empty. *)
SavVariable(short, numeric, index, missing) ==
  [short |-> short, long |-> Unset, numeric |-> numeric, index |-> index, missing |-> missing,
   labels |-> [kind |-> Unset], display |-> << >>, attributes |-> << >>]

(* The setters of its builder, applied through `replace`. *)
WithLongName(variable, long)         == [variable EXCEPT !.long = long]
WithMissing(variable, missing)       == [variable EXCEPT !.missing = missing]
WithLabels(variable, labels)         == [variable EXCEPT !.labels = labels]
WithDisplay(variable, shown)         == [variable EXCEPT !.display = shown]
WithAttributes(variable, more)       == [variable EXCEPT !.attributes = @ \o more]

(* base_builder *)
Described(variable, v, floats) ==
  SavVariable(variable.name, variable.numeric, v,
              DecodeMissing(variable.raw, variable.numeric, floats, SpssDefaults))

(* full_name *)
FullName(variable) == IF variable.long = Unset THEN variable.short ELSE variable.long

Least(S) == CHOOSE i \in S: \A j \in S: i <= j

(* The first of the places counted from 1, or 0 where there is none. *)
FirstOf(S) == IF S = {} THEN 0 ELSE Least(S)

(* SavSchema::variable_index: the first of that name; 0 when there is none. *)
VariableIndex(name) == FirstOf({v \in DOMAIN variables: FullName(variables[v]) = name})

(* NameIndex::build *)
NameIndex ==
  [name \in {FullName(variables[v]): v \in DOMAIN variables} |-> VariableIndex(name)]

(* NameIndex::lookup *)
Lookup(name) == IF name \in DOMAIN names THEN names[name] ELSE 0

-----------------------------------------------------------------------------------
(* Feeding *)

Init ==
  /\ building = "feeding"
  /\ layout \in Dictionaries
  /\ format \in Formats
  /\ records = 0
  /\ longNames = << >> /\ display = << >> /\ valueLabelSets = << >>
  /\ attributes = << >> /\ carried = << >> /\ longValueLabels = << >> /\ longMissing = << >>
  /\ turn = 0
  /\ variables = << >>
  /\ names = [name \in {} |-> 0]
  /\ warnings = << >>

Feeding ==
  /\ building = "feeding"
  /\ records < MaxRecords
  /\ records' = records + 1
  /\ UNCHANGED <<building, layout, format, turn, variables, names, warnings>>

SetLongNames(mappings) ==
  /\ Feeding
  /\ longNames' = mappings
  /\ UNCHANGED <<display, valueLabelSets, attributes, carried, longValueLabels, longMissing>>

SetDisplayParameters(values) ==
  /\ Feeding
  /\ display' = values
  /\ UNCHANGED <<longNames, valueLabelSets, attributes, carried, longValueLabels, longMissing>>

AddValueLabels(set) ==
  /\ Feeding
  /\ valueLabelSets' = Append(valueLabelSets, set)
  /\ UNCHANGED <<longNames, display, attributes, carried, longValueLabels, longMissing>>

(* Mutant: a later record replaces the earlier ones. *)
ReplaceVariableAttributes(entries) ==
  /\ Feeding
  /\ attributes' = entries
  /\ carried' = carried \o entries
  /\ UNCHANGED <<longNames, display, valueLabelSets, longValueLabels, longMissing>>

(* A file may carry one record per variable, so they add up. *)
AddVariableAttributes(entries) ==
  /\ Feeding
  /\ attributes' = attributes \o entries
  /\ carried' = carried \o entries
  /\ UNCHANGED <<longNames, display, valueLabelSets, longValueLabels, longMissing>>

SetLongValueLabels(entries) ==
  /\ Feeding
  /\ longValueLabels' = entries
  /\ UNCHANGED <<longNames, display, valueLabelSets, attributes, carried, longMissing>>

SetLongMissingValues(entries) ==
  /\ Feeding
  /\ longMissing' = entries
  /\ UNCHANGED <<longNames, display, valueLabelSets, attributes, carried, longValueLabels>>

-----------------------------------------------------------------------------------
(* build *)

Build ==
  /\ building = "feeding"
  /\ building' = "longNames"
  /\ variables' = [v \in DOMAIN layout |-> Described(layout[v], v, format)]
  /\ UNCHANGED <<layout, format, records, fed, turn, names, warnings>>

Warn(why, subject) == warnings' = Append(warnings, [why |-> why, subject |-> subject])

Unknown(subtype, name) == Warn("UnknownVariableInExtension", <<subtype, name>>)

(* One turn of a loop: `building` says which, `entries` what it goes through. *)
Turn(loop, entries) ==
  /\ building = loop
  /\ turn < Len(entries)
  /\ turn' = turn + 1
  /\ UNCHANGED <<building, layout, format, records, fed, names>>

(* The variable an entry finds is patched (`replace`), or the entry is warned about. *)
PatchOrWarn(subtype, name, v, patched) ==
  \/ /\ v = 0
     /\ Unknown(subtype, name)
     /\ UNCHANGED variables
  \/ /\ v # 0
     /\ variables' = [variables EXCEPT ![v] = patched]
     /\ UNCHANGED warnings

(* The variables whose own first segment has that short name. *)
ByShortName(name) == FirstOf({v \in DOMAIN layout: layout[v].name = name})

ApplyLongName ==
  LET mapping == longNames[turn + 1]
      v == ByShortName(mapping.short)
  IN  /\ Turn("longNames", longNames)
      /\ PatchOrWarn("LongVariableNames", mapping.short, v, WithLongName(variables[v], mapping.long))

IndexNames ==
  /\ building = "longNames"
  /\ turn = Len(longNames)
  /\ building' = "display"
  /\ turn' = 0
  /\ names' = NameIndex
  /\ UNCHANGED <<layout, format, records, fed, variables, warnings>>

(* tuple_stride: three values per segment, or else two; 0 when neither. *)
TupleStride ==
  IF SegmentCount = 0 THEN 0
  ELSE IF Len(display) = 3 * SegmentCount THEN 3
  ELSE IF Len(display) = 2 * SegmentCount THEN 2
  ELSE 0

(* narrow_to_byte *)
NarrowToByte(value) == IF value > 255 THEN 255 ELSE value

VariableDisplay(level, width, alignment) == <<level, width, alignment>>

(* display_from_tuple: a code that classifies as nothing is kept as it is. *)
DisplayFrom(tuple) ==
  VariableDisplay(NarrowToByte(tuple[1]), IF Len(tuple) = 3 THEN tuple[2] ELSE 0,
                  NarrowToByte(tuple[Len(tuple)]))

(* Mutant: a tuple per variable. *)
TupleByVariable(v) == SubSeq(display, (v - 1) * TupleStride + 1, v * TupleStride)

(* The tuple of the variable's first segment. *)
FirstTuple(v) == SubSeq(display, Start(v) * TupleStride + 1, (Start(v) + 1) * TupleStride)

(* measurement_level, of each variable. *)
MeasurementLevels == 0..3
UnknownLevels ==
  FlattenSeq([v \in DOMAIN variables |->
    IF NarrowToByte(FirstTuple(v)[1]) \in MeasurementLevels THEN << >>
    ELSE <<[why |-> "UnknownMeasurementLevel", subject |-> v]>>])

ApplyDisplay ==
  /\ building = "display"
  /\ building' = "valueLabels"
  /\ \/ /\ display = << >>
        /\ UNCHANGED <<variables, warnings>>
     \/ /\ display # << >>
        /\ TupleStride = 0
        /\ Warn("DisplayParameterCountMismatch", <<Len(display), SegmentCount>>)
        /\ UNCHANGED variables
     \/ /\ display # << >>
        /\ TupleStride # 0
        /\ variables' = [v \in DOMAIN variables |->
                           WithDisplay(variables[v], DisplayFrom(FirstTuple(v)))]
        /\ warnings' = warnings \o UnknownLevels
  /\ UNCHANGED <<layout, format, records, fed, turn, names>>

(* The variable that starts at a segment; 0 for an interior segment and for none. *)
VariableStartingAt(segment) == FirstOf({v \in DOMAIN layout: Start(v) = segment})

(* The labels of one set, their keys all of one kind. *)
ValueLabelSet(kind, labels) == [kind |-> kind, labels |-> labels]

(* Mutant: one numeric variable makes the set numeric. *)
TypedByAny(set, targets) ==
  ValueLabelSet(IF \E v \in targets: layout[v].numeric THEN "Numeric" ELSE "String", set.labels)

(* typed_set *)
TypedSet(set, targets) ==
  ValueLabelSet(IF \A v \in targets: layout[v].numeric THEN "Numeric" ELSE "String", set.labels)

ApplyValueLabels ==
  LET set     == valueLabelSets[turn + 1]
      targets == {VariableStartingAt(s): s \in ToSet(set.segments)} \ {0}
      astray  == [k \in DOMAIN set.segments |->
                    IF VariableStartingAt(set.segments[k]) # 0 THEN << >>
                    ELSE <<[why |-> "ValueLabelOnVeryLongString", subject |-> set.segments[k]]>>]
  IN  /\ Turn("valueLabels", valueLabelSets)
      /\ warnings' = warnings \o FlattenSeq(astray)
      /\ variables' = [v \in DOMAIN variables |->
           IF v \in targets THEN WithLabels(variables[v], TypedSet(set, targets))
           ELSE variables[v]]

ApplyAttributes ==
  LET entry == attributes[turn + 1]
      v == Lookup(entry.name)
  IN  /\ Turn("attributes", attributes)
      /\ PatchOrWarn("VariableAttributes", entry.name, v,
                     WithAttributes(variables[v], entry.attributes))

ApplyLongValueLabels ==
  LET entry == longValueLabels[turn + 1]
      v == Lookup(entry.name)
  IN  /\ Turn("longValueLabels", longValueLabels)
      /\ PatchOrWarn("LongValueLabels", entry.name, v,
           WithLabels(variables[v], ValueLabelSet("LongString", entry.labels)))

Keys(entry) == [kind |-> "String", keys |-> entry.keys]

ApplyLongMissing ==
  LET entry == longMissing[turn + 1]
      v == Lookup(entry.name)
  IN  /\ Turn("longMissing", longMissing)
      /\ PatchOrWarn("LongMissingValues", entry.name, v, WithMissing(variables[v], Keys(entry)))

(* The loop is through: on to the next one. *)
EndLoop(loop, entries, next) ==
  /\ building = loop
  /\ turn = Len(entries)
  /\ building' = next
  /\ turn' = 0
  /\ UNCHANGED <<layout, format, records, fed, variables, names, warnings>>

Next ==
  \/ \E mappings \in LongNamePayloads: SetLongNames(mappings)
  \/ \E values \in DisplayPayloads: SetDisplayParameters(values)
  \/ \E set \in LabelSets: AddValueLabels(set)
  \/ \E entries \in AttributePayloads: AddVariableAttributes(entries)
  \/ \E entries \in LongLabelPayloads: SetLongValueLabels(entries)
  \/ \E entries \in LongMissingPayloads: SetLongMissingValues(entries)
  \/ Build
  \/ ApplyLongName
  \/ IndexNames
  \/ ApplyDisplay
  \/ ApplyValueLabels
  \/ EndLoop("valueLabels", valueLabelSets, "attributes")
  \/ ApplyAttributes
  \/ EndLoop("attributes", attributes, "longValueLabels")
  \/ ApplyLongValueLabels
  \/ EndLoop("longValueLabels", longValueLabels, "longMissing")
  \/ ApplyLongMissing
  \/ EndLoop("longMissing", longMissing, "built")

Spec == Init /\ [][Next]_vars

-----------------------------------------------------------------------------------
(* DataLayoutBuilder's own reading of subtypes 13 and 22, for the cells *)

(* Mutant: the entries are taken to name variables by their short names. *)
LongMissingUntranslated(short) == FirstOf({i \in DOMAIN longMissing: longMissing[i].name = short})

(* long_missing_values_for: the short name is translated, then looked for. *)
LongMissingFor(short) ==
  LET mapping == FirstOf({i \in DOMAIN longNames: longNames[i].short = short})
      long == IF mapping = 0 THEN short ELSE longNames[mapping].long
  IN  FirstOf({i \in DOMAIN longMissing: longMissing[i].name = long})

(* resolve_missing *)
LayoutMissing(v) ==
  LET entry == LongMissingFor(layout[v].name)
  IN  IF entry # 0 THEN Keys(longMissing[entry])
      ELSE DecodeMissing(layout[v].raw, layout[v].numeric, format, SpssDefaults)

(* parse_cell: how the layout classifies a cell. *)
CellOf(v, content) ==
  IF layout[v].numeric THEN NumericCell(content, LayoutMissing(v), format, SpssDefaults.systemMissing)
  ELSE StringCell(content, LayoutMissing(v))

-----------------------------------------------------------------------------------
(* The weight variable, from the offset into the row that the header declares *)

Units == FlattenSeq([v \in DOMAIN layout |-> layout[v].units])

(* The unit a segment begins at, which is the position of its record in the file. *)
Physical(segment) == FoldLeft(LAMBDA sum, units: sum + units, 0, SubSeq(Units, 1, segment))

(* segment_of_physical: none for a continuation record or past the end. *)
SegmentsAt(offset) == {s \in 0..SegmentCount - 1: Physical(s) = offset}

(* variable_of_segment *)
OwnerOf(segment) == Least({v \in DOMAIN layout: segment < Start(v + 1)})

(* weight_variable_index; 0 for none. *)
WeightVariable(offset) ==
  IF SegmentsAt(offset) = {} THEN 0 ELSE OwnerOf(Least(SegmentsAt(offset)))

-----------------------------------------------------------------------------------
(* Properties *)

Warnings(why, subject) == [why |-> why, subject |-> subject] \in ToSet(warnings)

(* The entries of a record that find variable v. *)
EntriesFor(v, entries) == {i \in DOMAIN entries: VariableIndex(entries[i].name) = v}

(* Every subtype-18 record of the file counts: a variable has the attributes of all     *)
(* the entries that name it, in file order, and an entry that names none is warned      *)
(* about.  The name is the one the finished schema finds the variable by, long where    *)
(* there is a long one and the first of its name (add_variable_attributes, NameIndex).  *)
AttributesAddUp ==
  building = "built" =>
    /\ DOMAIN names = {FullName(variables[v]): v \in DOMAIN variables}
    /\ \A v \in DOMAIN variables:
         variables[v].attributes =
           FlattenSeq([i \in DOMAIN carried |->
             IF i \in EntriesFor(v, carried) THEN carried[i].attributes ELSE << >>])
    /\ \A i \in DOMAIN carried:
         VariableIndex(carried[i].name) = 0 <=>
           Warnings("UnknownVariableInExtension", <<"VariableAttributes", carried[i].name>>)

(* The keys of a set are numbers where every variable whose first segment it names is numeric. *)
KeysAreNumbers(set) ==
  \A v \in DOMAIN layout: Start(v) \in ToSet(set.segments) => layout[v].numeric

(* A variable has the labels of the last subtype-21 entry that names it, or else of the last     *)
(* type-3 set that names its first segment, read as the variables of the set hold them, or else    *)
(* none; a set that names an interior segment of a very long string is warned about                 *)
(* (apply_value_labels, typed_set, apply_long_value_labels).                                         *)
LabelsReachTheirVariables ==
  building = "built" =>
    \A v \in DOMAIN variables:
      LET Naming(segment) == {i \in DOMAIN valueLabelSets: segment \in ToSet(valueLabelSets[i].segments)}
          entries == EntriesFor(v, longValueLabels)
          sets    == Naming(Start(v))
          set     == valueLabelSets[Max(sets)]
      IN  /\ variables[v].labels =
               IF entries # {} THEN [kind |-> "LongString", labels |-> longValueLabels[Max(entries)].labels]
               ELSE IF sets # {}
               THEN [kind |-> IF KeysAreNumbers(set) THEN "Numeric" ELSE "String", labels |-> set.labels]
               ELSE [kind |-> Unset]
          /\ \A segment \in Start(v) + 1..Start(v + 1) - 1:
               Naming(segment) # {} => Warnings("ValueLabelOnVeryLongString", segment)

(* Does not hold: the entries of a set that points at a segment of a very long string are said to *)
(* be dropped; one that points at its first segment is attached (ValueLabelOnVeryLongString).       *)
VeryLongStringsHaveNoShortLabels ==
  building = "built" =>
    \A v \in DOMAIN variables:
      Start(v + 1) - Start(v) > 1 => variables[v].labels.kind \notin {"Numeric", "String"}

(* All variables have display parameters or none, each the tuple of its first segment, and *)
(* a level that is no level is warned about and kept out of range.                           *)
DisplayIsOfTheFirstSegment ==
  building = "built" =>
    LET shown == {v \in DOMAIN variables: variables[v].display # << >>}
        stride == IF Len(display) = 3 * SegmentCount THEN 3 ELSE 2
    IN  /\ shown \in {{}, DOMAIN variables}
        /\ shown = {} <=> display = << >> \/ Len(display) \notin {2 * SegmentCount, 3 * SegmentCount}
        /\ \A v \in shown:
             LET level == display[Start(v) * stride + 1]
             IN  /\ level \in MeasurementLevels => variables[v].display[1] = level
                 /\ level \notin MeasurementLevels =>
                      /\ variables[v].display[1] \notin MeasurementLevels
                      /\ Warnings("UnknownMeasurementLevel", v)

NoTwo(entries, Same(_, _)) ==
  \A i, j \in DOMAIN entries: Same(entries[i], entries[j]) => i = j

(* No two variables begin or end with one name, no short name is mapped twice, no name has   *)
(* two entries of missing values.                                                            *)
NamesAreUnique ==
  /\ NoTwo(layout, LAMBDA x, y: x.name = y.name)
  /\ NoTwo(longNames, LAMBDA x, y: x.short = y.short)
  /\ NoTwo(longMissing, LAMBDA x, y: x.name = y.name)
  /\ NoTwo(variables, LAMBDA x, y: FullName(x) = FullName(y))

(* Where no name is used twice, the two readings of subtypes 13 and 22 are one: the values   *)
(* a cell is matched against are those the schema reports for its variable, one reader going *)
(* from short name to long and the other from long name to variable                           *)
(* (DataLayoutBuilder::long_missing_values_for, apply_long_missing_values).                   *)
RowsAndSchemaAgreeOnMissing ==
  building = "built" /\ NamesAreUnique =>
    \A v \in DOMAIN variables: LayoutMissing(v) = variables[v].missing

(* The weight variable occupies the unit of the row the header names, and there is one       *)
(* whenever a segment begins there.                                                           *)
WeightIsWhereTheHeaderSays ==
  building = "built" => \A offset \in 0..Physical(SegmentCount):
    LET v == WeightVariable(offset)
    IN  /\ v = 0 <=> offset \notin {Physical(s): s \in 0..SegmentCount - 1}
        /\ v # 0 => offset \in Physical(Start(v))..Physical(Start(v + 1)) - 1

(* Three index spaces meet in a variable: units of the row, segments and variables.  What a    *)
(* record gives per segment and what the header gives per unit reach the variable that owns      *)
(* them (apply_display, narrow_to_byte, weight_variable_index).                                   *)
SegmentsStandForTheirVariable == DisplayIsOfTheFirstSegment /\ WeightIsWhereTheHeaderSays

SchemaClassifies(v, content) ==
  IF layout[v].numeric THEN NumericCell(content, variables[v].missing, format, SpssDefaults.systemMissing)
  ELSE StringCell(content, variables[v].missing)

(* Stated by the README of the crate: a cell never claims to be present when the dictionary  *)
(* says otherwise.                                                                             *)
NoCellClaimsToBePresent ==
  building = "built" =>
    \A v \in DOMAIN variables: \A content \in Contents(layout[v].numeric):
      CellOf(v, content) = "present" => SchemaClassifies(v, content) = "present"
===================================================================================
