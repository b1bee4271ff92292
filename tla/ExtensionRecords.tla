-------------------------------- MODULE ExtensionRecords ------------------------------
(* One extension record decoded from its envelope: text as in ExtensionText, and of the   *)
(* binary subtypes 3, 4, 11 and 16 in one step, 21 and 22 one pair or value at a time.     *)
(* A record that does not parse is kept as its bytes, with a warning; so is one of a        *)
(* subtype nobody knows.  The payload is what a writer of the format makes of some           *)
(* content, in any of the forms the format allows, or such a payload damaged on the way.     *)
EXTENDS ExtensionText, BinaryPayloads

CONSTANTS
  Subtypes,           \* bound: the subtypes of the model
  Contents(_),        \* bound: what is written, for each subtype
  Forms(_, _, _),     \* the payloads a writer may make of it in a byte order
  Damaged(_, _)       \* bound: what such a payload may have become

(* The payload of a binary record is bytes, that of a text record any characters. *)
IsPayload(type, bytes) == bytes \in Seq(IF type \in TextSubtypes THEN Range(bytes) ELSE Byte)

ASSUME PayloadsAssumption ==
  \A type \in Subtypes: \A content \in Contents(type), order \in ByteOrders:
    \A form \in Forms(type, content, order):
      IsPayload(type, form) /\ \A bytes \in Damaged(type, form): IsPayload(type, bytes)

VARIABLES
  elementCount,
  byteOrder, floatFormat,  \* the header's
  due,        \* pairs or values the current record still has to come
  width,      \* of the values of the current subtype-22 record
  repeated,   \* whether one of them had the width again before it
  kept,       \* the unknown extension a record was degraded to, if it was
  complaints  \* the warnings

envelope == <<given, elementCount, byteOrder, floatFormat>>
cursor   == <<rest, stage, due, width, repeated>>
binary   == <<elementCount, byteOrder, floatFormat, due, width, repeated, kept, complaints>>
recordVars == <<envelope, cursor, items, kept, complaints, outcome>>

MaxMissingValues == 3
FixedShape == {3, 4, 16}
(* The size and, in a record of fixed shape, the number of its elements. *)
ExpectedSize ==
  IF subtype \in {3, 11} THEN WordLen ELSE IF subtype \in {4, 16} THEN 2 * WordLen ELSE 1
ExpectedCount == IF subtype = 3 THEN 8 ELSE IF subtype = 4 THEN 3 ELSE 2

(* from_code *)
Recognized == {3, 4, 11, 16, 21, 22} \cup TextSubtypes

Warning(kind, name, value) == [kind |-> kind, name |-> name, value |-> value]

RecordInit ==
  /\ subtype \in Subtypes
  /\ byteOrder \in ByteOrders /\ floatFormat \in FloatFormats
  /\ subtype \in TextSubtypes => byteOrder = "BigEndian"
  /\ subtype # 3 => floatFormat = "Ieee754"
  /\ written \in Contents(subtype)
  /\ \E form \in Forms(subtype, written, byteOrder):
       /\ payload \in {form} \cup Damaged(subtype, form)
       /\ intact = (payload = form)
  /\ elementSize \in {1, WordLen, 2 * WordLen}
  /\ Len(payload) % elementSize = 0
  /\ elementCount = Len(payload) \div elementSize
  /\ rest = payload /\ due = 0 /\ width = 0 /\ repeated = FALSE
  /\ stage = IF subtype = 18 THEN "group" ELSE "set"
  /\ items = << >> /\ kept = << >> /\ complaints = << >>
  /\ outcome = "opened"

(* Opened, a record whose shape is not its subtype's is refused. *)
ShapeFits ==
  /\ elementSize = ExpectedSize
  /\ subtype \in FixedShape => elementCount = ExpectedCount

RefuseRecord == Refuse /\ UNCHANGED binary

MisshapenRecord ==
  /\ outcome = "opened" /\ subtype \in Recognized
  /\ ~ShapeFits
  /\ RefuseRecord

Opens(type) == outcome = "opened" /\ subtype = type /\ ShapeFits

(* Piece by piece, from the front of the payload. *)
StartReading ==
  /\ outcome = "opened" /\ subtype \in TextSubtypes \cup {21, 22}
  /\ ShapeFits
  /\ outcome' = "reading"
  /\ UNCHANGED <<envelope, cursor, items, kept, complaints>>

ReadWhole(record) ==
  /\ items' = <<record>>
  /\ outcome' = "read"
  /\ UNCHANGED <<envelope, cursor, kept>>

-----------------------------------------------------------------------------------
(* Records of fixed shape *)

Words32 == [i \in 1..(Len(payload) \div WordLen) |-> ReadI32(byteOrder, Slab(payload, i, WordLen))]

(* cross_check: the codes that are known and say something else than the header. *)
CrossCheck(info) ==
  (IF info.endianness \in {1, 2} /\ info.endianness # EndiannessOf(byteOrder)
   THEN <<Warning("HeaderByteOrderMismatch", << >>, info.endianness)>> ELSE << >>)
  \o (IF DeclaresAKnownFloatFormat(info) /\ info.floatRepresentation # RepresentationOf(floatFormat)
      THEN <<Warning("HeaderFloatFormatMismatch", << >>, info.floatRepresentation)>> ELSE << >>)

MachineInfo ==
  /\ Opens(3)
  /\ LET info == MachineIntegerInfo(Words32)
     IN  ReadWhole(info) /\ complaints' = complaints \o CrossCheck(info)

(* character_code: what the resolution of the encoding takes from the same bytes, before *)
(* anything is decoded; no code when the shape is wrong.                                  *)
(* Mutant: the element count is not looked at. *)
CharacterCodeOfAnyCount ==
  {ReadI32(byteOrder, Slab(payload, i, WordLen)):
     i \in IF elementSize = WordLen /\ elementCount >= 8 THEN {8} ELSE {}}
CharacterCode ==
  {ReadI32(byteOrder, Slab(payload, i, WordLen)):
     i \in IF elementSize = WordLen /\ elementCount = 8 THEN {8} ELSE {}}

Sentinels ==
  /\ Opens(4)
  /\ ReadWhole(FloatSentinels(Slabs(payload, 2 * WordLen)))
  /\ UNCHANGED complaints

NumberOfCases ==
  /\ Opens(16)
  /\ ReadWhole(ExtendedNumberOfCases(
       [i \in 1..2 |-> ReadI64(byteOrder, Slab(payload, i, 2 * WordLen))]))
  /\ UNCHANGED complaints

(* Values in any number: whether there are two or three to a variable is not known here. *)
DisplayParameters ==
  /\ Opens(11)
  /\ items' = [i \in 1..(Len(payload) \div WordLen) |-> ReadU32(byteOrder, Slab(payload, i, WordLen))]
  /\ outcome' = "read"
  /\ UNCHANGED <<envelope, cursor, kept, complaints>>

-----------------------------------------------------------------------------------
(* Long strings: records one after the other to the end of the payload *)

AtRecord(type) == Reading({type}) /\ due = 0 /\ rest # << >>

(* The head of a record of value labels: name, width, number of labels. *)
LongLabelRecord ==
  LET name   == TakeLengthPrefixed(byteOrder, rest)
      strlen == TakeU32(byteOrder, name.rest)
      count  == TakeU32(byteOrder, strlen.rest)
      whole  == name.ok /\ strlen.ok /\ count.ok
  IN  /\ AtRecord(21)
      /\ \/ ~whole /\ RefuseRecord
         \/ /\ whole
            /\ items' = Append(items, LongValueLabelRecord(Decoded(name.value), strlen.value, << >>))
            /\ rest' = count.rest
            /\ due' = count.value
            /\ UNCHANGED <<envelope, stage, width, repeated, kept, complaints, outcome>>

(* A value and its label; the value stays as its bytes. *)
LongLabel ==
  LET value == TakeLengthPrefixed(byteOrder, rest)
      label == TakeLengthPrefixed(byteOrder, value.rest)
      whole == value.ok /\ label.ok
  IN  /\ Reading({21}) /\ due > 0
      /\ \/ ~whole /\ RefuseRecord
         \/ /\ whole
            /\ items' = [items EXCEPT ![Len(items)].labels =
                           Append(@, LongValueLabel(value.value, Decoded(label.value)))]
            /\ rest' = label.rest
            /\ due' = due - 1
            /\ UNCHANGED <<envelope, stage, width, repeated, kept, complaints, outcome>>

(* The head of a record of missing values: name, number of values in a byte, width. *)
LongMissingRecord ==
  LET name   == TakeLengthPrefixed(byteOrder, rest)
      count  == TakeU8(name.rest)
      strlen == TakeU32(byteOrder, count.rest)
      whole  == name.ok /\ count.ok /\ count.value \in 1..MaxMissingValues /\ strlen.ok
  IN  /\ AtRecord(22)
      /\ \/ ~whole /\ RefuseRecord
         \/ /\ whole
            /\ items' = Append(items, LongMissingValueRecord(Decoded(name.value), << >>))
            /\ rest' = strlen.rest
            /\ due' = count.value
            /\ width' = strlen.value
            /\ repeated' = FALSE
            /\ UNCHANGED <<envelope, stage, kept, complaints, outcome>>

(* Old writers put the width again before every value after the first. *)
HasWidthAgain ==
  /\ Last(items).values # << >>
  /\ PeeksAt(byteOrder, rest, width)

(* Mutant: the last value decides. *)
LastRepeated(again) == again
SomeRepeated(again) == repeated \/ again

RepeatedLength(name) == Warning("RepeatedLongMissingValueLength", name, 0)

LongMissing ==
  LET again == HasWidthAgain
      value == TakeBytes(IF again THEN TakeU32(byteOrder, rest).rest ELSE rest, width)
      record == Last(items)
  IN  /\ Reading({22}) /\ due > 0
      /\ \/ ~value.ok /\ RefuseRecord
         \/ /\ value.ok
            /\ items' = [items EXCEPT ![Len(items)].values = Append(@, value.value)]
            /\ rest' = value.rest
            /\ due' = due - 1
            /\ repeated' = SomeRepeated(again)
            /\ complaints' = IF due = 1 /\ repeated'
                           THEN Append(complaints, RepeatedLength(record.variableName)) ELSE complaints
            /\ UNCHANGED <<envelope, stage, width, kept, outcome>>

EndOfRecords ==
  /\ Reading({21, 22}) /\ due = 0 /\ rest = << >>
  /\ outcome' = "read"
  /\ UNCHANGED <<envelope, cursor, items, kept, complaints>>

-----------------------------------------------------------------------------------
(* What does not parse *)

(* Mutant: what is left of the payload when the parser gives up. *)
KeepRest(kind) ==
  /\ kept' = UnknownExtension(subtype, elementSize, elementCount, rest)
  /\ complaints' = Append(complaints, Warning(kind, << >>, subtype))
  /\ outcome' = "kept"
  /\ UNCHANGED <<envelope, cursor, items>>

Keep(kind) ==
  /\ kept' = UnknownExtension(subtype, elementSize, elementCount, payload)
  /\ complaints' = Append(complaints, Warning(kind, << >>, subtype))
  /\ outcome' = "kept"
  /\ UNCHANGED <<envelope, cursor, items>>

DegradeToUnknown == outcome = "refused" /\ Keep("UnreadableExtensionRecord")
DecodeUnknownExtension ==
  outcome = "opened" /\ subtype \notin Recognized /\ Keep("UnknownExtensionSubtype")

RecordNext ==
  \/ MisshapenRecord \/ MachineInfo \/ Sentinels \/ NumberOfCases \/ DisplayParameters
  \/ StartReading
  \/ TextNext /\ UNCHANGED binary
  \/ LongLabelRecord \/ LongLabel \/ LongMissingRecord \/ LongMissing \/ EndOfRecords
  \/ DegradeToUnknown \/ DecodeUnknownExtension

RecordSpec == RecordInit /\ [][RecordNext]_recordVars

-----------------------------------------------------------------------------------
(* What a writer makes of the records, for the properties and the bounds *)

Number(order, n, size) ==
  LET quotient[k \in 0..size] == IF k = 0 THEN n ELSE quotient[k - 1] \div Base
      big == [i \in 1..size |-> quotient[size - i] % Base]
  IN  IF order = "BigEndian" THEN big ELSE Reverse(big)
Word(order, n) == Number(order, n, WordLen)
Prefixed(order, bytes) == Word(order, Len(bytes)) \o bytes

LabelsWritten(order, record) ==
  Prefixed(order, record.variableName) \o Word(order, record.width) \o Word(order, Len(record.labels))
    \o FlattenSeq([i \in DOMAIN record.labels |->
          Prefixed(order, record.labels[i].value) \o Prefixed(order, record.labels[i].label)])

(* `again`: the values that have the width before them once more. *)
MissingWritten(order, record, again) ==
  LET strlen == Word(order, Len(record.values[1]))
  IN  Prefixed(order, record.variableName) \o <<Len(record.values)>> \o strlen
        \o FlattenSeq([i \in DOMAIN record.values |->
              IF i \in again THEN strlen \o record.values[i] ELSE record.values[i]])

Written(type, records, order, again) ==
  FlattenSeq([r \in DOMAIN records |->
    IF type = 21 THEN LabelsWritten(order, records[r])
    ELSE MissingWritten(order, records[r], {i \in DOMAIN records[r].values: <<r, i>> \in again})])

(* The values that may have it: those after the first. *)
Later(type, records) ==
  IF type = 21 THEN {}
  ELSE {p \in (DOMAIN records) \X (2..MaxMissingValues): p[2] \in DOMAIN records[p[1]].values}

(* Names and labels as the file's encoding reads them. *)
Shown(type, record) ==
  CASE type = 21 -> [record EXCEPT !.variableName = Decoded(@),
                       !.labels = [i \in DOMAIN @ |-> LongValueLabel(@[i].value, Decoded(@[i].label))]]
    [] type = 22 -> [record EXCEPT !.variableName = Decoded(@)]
    [] OTHER -> record

-----------------------------------------------------------------------------------
(* Properties *)

(* What a writer wrote is what is read, in either byte order and in any form the format       *)
(* allows: text of counted length may hold the bytes that delimit elsewhere, quotes go and     *)
(* stay in pairs, padding and the separator after the last piece add nothing, and the width     *)
(* of missing values may come again before the later ones (the `parse` of every subtype).       *)
WrittenComesBack ==
  /\ intact /\ outcome = "read" => items = [r \in DOMAIN written |-> Shown(subtype, written[r])]
  /\ intact /\ elementSize = ExpectedSize /\ subtype \in Recognized => outcome \notin {"refused", "kept"}

(* The characters that play no part in a grammar. *)
Letters == {"a", "b", "A", "x", Replacement}
LettersOf(text) ==
  FlattenSeq([i \in DOMAIN text |-> IF text[i] \in Letters THEN <<text[i]>> ELSE << >>])

NamedText(attribute) == attribute.name \o FlattenSeq(attribute.values)
NamedTexts(list)     == FlattenSeq([i \in DOMAIN list |-> NamedText(list[i])])

TextOf(type, item) ==
  CASE type = 5 -> item.name \o FlattenSeq(item.variables)
    [] type \in Responses ->
         item.name \o item.kind.counted \o item.label \o FlattenSeq(item.variables)
    [] type = 13 -> item.short \o item.long
    [] type = 14 -> item.short
    [] type = 17 -> NamedText(item)
    [] type = 18 -> item.variable \o NamedTexts(item.attributes)
    [] OTHER -> item

(* The payload is what a writer would make of the items, with the width again before some of   *)
(* the later values, and exactly the variables with such a value are reported, in order.         *)
ReadToTheLastByte ==
  \E again \in SUBSET Later(subtype, items):
    /\ Decoded(payload) = Decoded(Written(subtype, items, byteOrder, again))
    /\ complaints = FlattenSeq([r \in DOMAIN items |->
                      IF \E p \in again: p[1] = r THEN <<RepeatedLength(items[r].variableName)>> ELSE << >>])

(* Of text that is read, whatever byte was lost or changed, every letter of the payload is in     *)
(* some item, in order, so that damage can move text from one field to another and never make it    *)
(* disappear; and a width that is read is one the entries can have (the `parse` of the subtypes).    *)
NoLetterIsLost ==
  outcome = "read" /\ subtype \in TextSubtypes =>
    /\ LettersOf(FlattenSeq([i \in DOMAIN items |-> TextOf(subtype, items[i])])) = LettersOf(Text(payload))
    /\ subtype = 14 => \A i \in DOMAIN items: items[i].width \in 0..MaxU32

(* Long strings that are read are accounted for to the last byte, widths that come again included  *)
(* (LongValueLabels::parse, parse_long_missing_value_record).                                       *)
LongStringsAreWhole == outcome = "read" /\ subtype \in {21, 22} => ReadToTheLastByte

(* A record that is read is read whole: of text no letter is lost, of long strings no byte is left. *)
ReadIsWhole == NoLetterIsLost /\ LongStringsAreWhole

(* Where each value of a record stands among the entries: by attribute, indexed before bare,  *)
(* by index, and as declared for equal ones.                                                   *)
ValuePlaces(entries) == {p \in (DOMAIN entries) \X (1..3): p[2] \in DOMAIN entries[p[1]].values}

Precedes(entries, p, q) ==
  LET x == SplitIndex(entries[p[1]].name).index
      y == SplitIndex(entries[q[1]].name).index
      earlier == p[1] < q[1] \/ (p[1] = q[1] /\ p[2] < q[2])
  IN  \/ x # NotANumber /\ (y = NotANumber \/ x < y)
      \/ x = y /\ earlier

(* Collapsing keeps every value of every entry, once, under one attribute for each name       *)
(* whatever its case, in the order of the indices and not of the declarations (collapse).      *)
CollapseOrdersEveryValue ==
  outcome = "collapsed" /\ intact =>
    \A r \in DOMAIN items:
      LET entries    == written[r].attributes
          attributes == items[r].attributes
          base(e)    == LowerName(SplitIndex(entries[e].name).base)
          of(a)      == {p \in ValuePlaces(entries): base(p[1]) = LowerName(attributes[a].name)}
          inOrder(a) == SetToSortSeq(of(a), LAMBDA p, q: Precedes(entries, p, q))
      IN  /\ {LowerName(attributes[a].name): a \in DOMAIN attributes} = {base(e): e \in DOMAIN entries}
          /\ \A a \in DOMAIN attributes:
               attributes[a].values =
                 [k \in DOMAIN inOrder(a) |-> entries[inOrder(a)[k][1]].values[inOrder(a)[k][2]]]

(* What a record that does not parse is kept with: the complaint that says why. *)
Refusal ==
  Warning(IF subtype \in Recognized THEN "UnreadableExtensionRecord" ELSE "UnknownExtensionSubtype",
          << >>, subtype)

(* The one complaint that may come before it: a variable whose missing values were passed with  *)
(* the width again, in a record that failed further on.                                          *)
OfRepeatedLengths(warning) == warning.kind = "RepeatedLongMissingValueLength" /\ subtype = 22

(* A record that does not parse, or that nobody knows, costs itself and no more: nothing of what  *)
(* was parsed comes out, the caller gets every byte of it, the ones the parser had passed          *)
(* included, and the last complaint is that it was kept, and why.  Of what the parser had said      *)
(* before it failed nothing stays but lengths that were repeated (degrade_to_unknown,                 *)
(* decode_unknown_extension, parse_long_missing_value_record).                                        *)
KeptAsItCame ==
  outcome = "kept" =>
    /\ items = << >>
    /\ kept.payload = payload /\ Len(kept.payload) = kept.elementSize * kept.elementCount
    /\ complaints # << >> /\ complaints[Len(complaints)] = Refusal
    /\ \A j \in 1..(Len(complaints) - 1): OfRepeatedLengths(complaints[j])

(* The character code the encoding is resolved by, taken from the raw payload before anything is *)
(* decoded, is the one the caller is shown: one when the record parses, none when it does not     *)
(* (character_code, parse).                                                                         *)
BothReadOneCode ==
  subtype = 3 =>
    /\ outcome = "read" => CharacterCode = {items[1].characterCode}
    /\ outcome \in {"refused", "kept"} => CharacterCode = {}

(* Every turn of a parser's loop takes something off the front of its payload, or ends: with     *)
(* empty sets between separators, and with a count of labels far beyond the payload                *)
(* (parse_attribute_set, parse_long_value_label_record).                                            *)
EachTurnConsumes == [][Len(rest') < Len(rest) \/ due' < due \/ outcome' # outcome]_recordVars

===================================================================================
