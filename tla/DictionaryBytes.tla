----------------------------- MODULE DictionaryBytes ------------------------------
(* The walk over the dictionary a read at a time.  Each read asks for what the fields     *)
(* before it say, whether the record is kept or passed over; the read that completes a    *)
(* record, or refuses it, is the turn DictionaryScan makes of it.                         *)
EXTENDS ByteSource, BinaryPayloads

CONSTANTS
  EntryLen,        \* bound: VALUE_LABEL_VALUE_LEN and MISSING_VALUE_ENTRY_LEN
  LabelPadding,    \* bound: VARIABLE_LABEL_PADDING
  EntryAlignment,  \* bound: VALUE_LABEL_ENTRY_ALIGNMENT
  RestLen,         \* bound: the formats and the name of a variable record's body
  LineLen,         \* bound: DOCUMENT_LINE_LEN
  FillerLen,       \* bound: DICTIONARY_TERMINATOR_FILLER_LEN
  TerminatorType,  \* bound: RECORD_TYPE_DICTIONARY_TERMINATOR
  MaxRecords       \* bound: the records of a dictionary

VARIABLES
  retention, scanning, pending, physical, primaries, variables, envelopes, label, codepage,
  records, warnings, scanned,   \* as in DictionaryScan
  stage,   \* what the read in hand is for; "none" before the walk, "over" after it
  item,    \* the record in hand, as far as it has been read
  left     \* the entries, lines or indices still to come of it

scan == <<retention, scanning, pending, physical, primaries, variables, envelopes, label,
          codepage, records, warnings, scanned>>
walk == <<scan, stage, item, left>>

Numbers       == {ReadI32("BigEndian", <<high, low>>): high, low \in Byte}
EncodingNames == {"UTF-8", "windows-1252", "unknown", "blank"}
Unreadable    == "unreadable"   \* a declaration its parser rejects

(* What reading the header warned of stays with the reader: the walk starts from nothing. *)
Scan == INSTANCE DictionaryScan WITH
  VariableTypes <- Numbers, MissingCounts <- Numbers, IndexLists <- {}, Subtypes <- Words,
  Labels <- EncodingNames, Unreadables <- {Unreadable}, HeaderWarnings <- << >>

NoItem == << >>

WalkInit ==
  /\ Scan!ScanInit
  /\ stage = "none" /\ item = NoItem /\ left = 0

-----------------------------------------------------------------------------------
(* How far a field reaches *)

RoundUp(n, unit) == ((n + unit - 1) \div unit) * unit

BodyLen == (3 * WordLen) + RestLen
(* parse_missing_value_count and entry_count *)
MissingEntries(count) == IF count < 0 THEN -count ELSE count

(* Mutant: the length byte is not part of what is aligned. *)
ValueLabelEntrySizeWithoutByte(length) == EntryLen + 1 + RoundUp(length, EntryAlignment)
ValueLabelEntrySize(length) == EntryLen + RoundUp(length + 1, EntryAlignment)

-----------------------------------------------------------------------------------
(* From read to read *)

Reached(here) == stage = here /\ call = "none" /\ result = "whole"

Asks(next, kind, length) == stage' = next /\ Ask(kind, length) /\ UNCHANGED scan
KeptOrSkipped == IF Scan!KeepsRecords THEN "exact" ELSE "skip"

(* A record is complete: Scan::run turns over. *)
TurnOver ==
  /\ stage' = "tag" /\ Ask("exact", WordLen)
  /\ item' = NoItem /\ left' = 0
(* The walk is over, with the dictionary or with an error. *)
Over == stage' = "over" /\ UNCHANGED <<source, item, left>>

BeginWalk == stage = "none" /\ Asks("tag", "exact", WordLen) /\ UNCHANGED <<item, left>>

VariableTag(type) ==
  /\ Reached("tag") /\ type = 2
  /\ Asks("body", "exact", BodyLen)
  /\ UNCHANGED <<item, left>>

FirstRead == [type \in {3, 6, 7} |->
  CASE type = 3 -> "label count" [] type = 6 -> "line count" [] type = 7 -> "subtype"]

(* Any other record ends a run of continuations that is not over. *)
OtherTag(type) ==
  /\ Reached("tag") /\ type # 2
  /\ \/ pending > 0 /\ Scan!RunCutShort /\ Over
     \/ /\ pending = 0 /\ type = TerminatorType
        /\ Asks("filler", "skip", FillerLen) /\ UNCHANGED <<item, left>>
     \/ /\ pending = 0 /\ type \in DOMAIN FirstRead
        /\ Asks(FirstRead[type], "exact", WordLen) /\ UNCHANGED <<item, left>>
     \/ type = 4 /\ Scan!Unpaired /\ Over
     \/ type \notin {TerminatorType, 4} \cup DOMAIN FirstRead /\ Scan!UnknownRecordType /\ Over

Filler == Reached("filler") /\ Scan!ReadTerminator /\ Over

-----------------------------------------------------------------------------------
(* read_variable_record, skip_variable_blocks *)

VariableRead(record) == (Scan!ReadPrimary(record) \/ Scan!ReadContinuation(record)) /\ TurnOver

MissingValues(record) ==
  /\ left' = MissingEntries(record.missing)
  /\ item' = record
  /\ Asks("missing value", "exact", EntryLen)

(* A continuation's count is looked at only after its label. *)
AfterLabel(record) ==
  \/ ~Scan!CountParses(record.missing) /\ Scan!VariableFails(record) /\ Over
  \/ record.missing = 0 /\ VariableRead(record)
  \/ Scan!CountParses(record.missing) /\ record.missing # 0 /\ MissingValues(record)

RefusedAtOnce(record) ==
  \/ ~Scan!TypeParses(record.type)
  \/ (record.type = Scan!Continuation) # (pending > 0)
  \/ record.type # Scan!Continuation /\ ~Scan!CountParses(record.missing)

VariableBody(order, bytes) ==
  LET Field(i) == ReadI32(order, Slab(bytes, i, WordLen))
      record   == [kind |-> "variable", type |-> Field(1), missing |-> Field(3)]
  IN  /\ Reached("body")
      /\ \/ RefusedAtOnce(record) /\ Scan!VariableFails(record) /\ Over
         \/ /\ ~RefusedAtOnce(record) /\ Field(2) # 0
            /\ Asks("label length", "exact", WordLen) /\ item' = record /\ UNCHANGED left
         \/ ~RefusedAtOnce(record) /\ Field(2) = 0 /\ AfterLabel(record)

VariableLabelLength(length) ==
  /\ Reached("label length")
  /\ Asks("label", "exact", RoundUp(length, LabelPadding))
  /\ UNCHANGED <<item, left>>

VariableLabel == Reached("label") /\ AfterLabel(item)

MissingValue ==
  /\ Reached("missing value")
  /\ IF left = 1 THEN VariableRead(item)
     ELSE Asks("missing value", "exact", EntryLen) /\ left' = left - 1 /\ UNCHANGED item

-----------------------------------------------------------------------------------
(* read_value_label_record, read_value_label_entries, read_variable_indexes *)

NextEntry(entries) ==
  /\ left' = entries
  /\ IF entries = 0 THEN Asks("pair tag", "exact", WordLen) ELSE Asks("value", "exact", EntryLen)

LabelCount(count) ==
  /\ Reached("label count")
  /\ item' = [keys |-> {}, duplicate |-> FALSE, indices |-> << >>]
  /\ NextEntry(count)

Value(bytes) ==
  /\ Reached("value")
  /\ item' = [item EXCEPT !.keys = @ \cup {bytes}, !.duplicate = @ \/ bytes \in item.keys]
  /\ Asks("value label length", "exact", 1)
  /\ UNCHANGED left

ValueLabelLength(length) ==
  /\ Reached("value label length")
  /\ Asks("value label", KeptOrSkipped, ValueLabelEntrySize(length) - EntryLen - 1)
  /\ UNCHANGED <<item, left>>

ValueLabel == Reached("value label") /\ NextEntry(left - 1) /\ UNCHANGED item

PairTag(type) ==
  /\ Reached("pair tag")
  /\ IF type = 4 THEN Asks("variable count", "exact", WordLen) /\ UNCHANGED <<item, left>>
     ELSE Scan!Unpaired /\ Over

ValueLabelsRead(indices) ==
  LET record == [kind |-> "value_label", duplicate |-> item.duplicate, indices |-> indices]
  IN  \/ Scan!ReadValueLabels(record) /\ TurnOver
      \/ Scan!ValueLabelsDangle(record) /\ Over

VariableCount(count) ==
  /\ Reached("variable count")
  /\ IF count = 0 THEN ValueLabelsRead(<< >>)
     ELSE Asks("index", "exact", WordLen) /\ left' = count /\ UNCHANGED item

VariableIndex(index) ==
  LET indices == Append(item.indices, index)
  IN  /\ Reached("index")
      /\ IF left = 1 THEN ValueLabelsRead(indices)
         ELSE /\ Asks("index", "exact", WordLen)
              /\ left' = left - 1
              /\ item' = [item EXCEPT !.indices = indices]

-----------------------------------------------------------------------------------
(* read_document_record *)

DocumentRead == Scan!ReadDocument([kind |-> "document"]) /\ TurnOver

NextLine(lines) ==
  IF lines = 0 THEN DocumentRead
  ELSE Asks("line", "exact", LineLen) /\ left' = lines /\ UNCHANGED item

LineCount(count) ==
  /\ Reached("line count")
  /\ IF Scan!KeepsRecords THEN NextLine(count)
     ELSE Asks("lines", "skip", count * LineLen) /\ UNCHANGED <<item, left>>

Line  == Reached("line") /\ NextLine(left - 1)
Lines == Reached("lines") /\ DocumentRead

-----------------------------------------------------------------------------------
(* read_extension_header, read_extension_payload, read_extension_record *)

Absorbed(subtype) == subtype \in Scan!DeclaresEncoding \cup Scan!LayoutBearing

Subtype(subtype) ==
  /\ Reached("subtype")
  /\ item' = [kind |-> "extension", subtype |-> subtype, size |-> 0, count |-> 0]
  /\ Asks("element size", "exact", WordLen)
  /\ UNCHANGED left

ElementSize(size) ==
  /\ Reached("element size")
  /\ item' = [item EXCEPT !.size = size]
  /\ Asks("element count", "exact", WordLen)
  /\ UNCHANGED left

ElementCount(count) ==
  /\ Reached("element count")
  /\ item' = [item EXCEPT !.count = count]
  /\ Asks("payload", IF Absorbed(item.subtype) THEN "exact" ELSE KeptOrSkipped, item.size * count)
  /\ UNCHANGED left

(* The names there are: a byte or a number each (external: encoding_rs). *)
NameOf(number) ==
  IF number = 0 THEN "blank" ELSE IF number = 1 THEN "UTF-8"
  ELSE IF number = 2 THEN "windows-1252" ELSE "unknown"

(* declared_label: trailing padding goes. *)
DeclaredLabel(bytes) ==
  LET kept == SubSeq(bytes, 1, SelectLastInSeq(bytes, LAMBDA byte: byte # 0))
  IN  IF kept = << >> THEN "blank" ELSE IF Len(kept) = 1 THEN NameOf(kept[1]) ELSE "unknown"

(* What the walk looks at of a payload; the others are kept, or passed over, as they are. *)
PayloadOf(order, bytes) ==
  IF item.subtype = Scan!CharacterEncoding
  THEN IF item.size = 1 THEN DeclaredLabel(bytes) ELSE Unreadable
  ELSE IF item.subtype = Scan!MachineIntegerInfo
  THEN IF item.size = WordLen /\ item.count = 8
       THEN NameOf(ReadI32(order, Slab(bytes, 8, WordLen))) ELSE Unreadable
  ELSE IF Absorbed(item.subtype) \/ Scan!KeepsRecords THEN bytes ELSE << >>

WithPayload(payload) ==
  [kind |-> "extension", subtype |-> item.subtype, size |-> item.size, count |-> item.count,
   payload |-> payload]

Payload(order, bytes) ==
  /\ Reached("payload")
  /\ Scan!ReadExtension(WithPayload(PayloadOf(order, bytes)))
  /\ TurnOver

-----------------------------------------------------------------------------------
(* Any read may fail, or find the file at its end. *)
WalkFails == stage \notin {"none", "over"} /\ result = "failed" /\ Scan!ReadFails /\ Over

(* The next step of the walk, in a file of this byte order, once the bytes asked for are there. *)
Walk(order, bytes) ==
  LET signed   == ReadI32(order, bytes)
      unsigned == ReadU32(order, bytes)
  IN  \/ VariableTag(signed) \/ OtherTag(signed) \/ Filler
      \/ VariableBody(order, bytes) \/ VariableLabelLength(unsigned) \/ VariableLabel \/ MissingValue
      \/ LabelCount(unsigned) \/ Value(bytes) \/ ValueLabelLength(unsigned) \/ ValueLabel
      \/ PairTag(signed) \/ VariableCount(unsigned) \/ VariableIndex(unsigned)
      \/ LineCount(unsigned) \/ Line \/ Lines
      \/ Subtype(signed) \/ ElementSize(unsigned) \/ ElementCount(unsigned) \/ Payload(order, bytes)
      \/ WalkFails
===================================================================================
