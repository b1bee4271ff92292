-------------------------------- MODULE SavHeader ---------------------------------
(* From a file just opened to its rows: SavReader reads the header field by field, walks    *)
(* over the dictionary (DictionaryBytes), settles the encoding and with it the header's text, *)
(* and the case count with what the dictionary says of it, and leaves the file at the first   *)
(* row, from where FileUnits reads unit after unit.                                           *)
(* A word stands for four bytes, a slab of two for the bias, and a byte of the date or the    *)
(* time for one part of it between separators.                                                *)
EXTENDS SavFile, FiniteSets

CONSTANTS
  Files,             \* bound: the files
  Strategy,          \* the reader's EncodingStrategy
  DataUnitLen,       \* bound: DATA_UNIT_LEN
  MaxCalls           \* bound: the units asked for

Applicable == {"UTF-8", "windows-1252"}   \* bound: the encodings the library can apply

ASSUME FilesAssumption == \A f \in Files: IsFile(f)
ASSUME StrategyAssumption ==
  Strategy \in [{"override", "unspecified", "unrecognized"} -> Applicable \cup {"absent"}]
ASSUME UnitsAssumption == DataUnitLen \in Nat \ {0} /\ MaxCalls \in Nat

VARIABLES
  file,       \* what was written, and the bytes there are
  phase,      \* "header", "dictionary", "resolving", "open" or "failed"
  field,      \* the field of the header being read, from 1
  raw,        \* the fields read so far
  header,     \* the finished header; none before
  encoding,   \* what the text is decoded with; none before it is resolved
  caseCount,  \* the number of rows the reader will announce
  raised,     \* the warnings so far, whether or not a call has cleared them
  held,       \* those the reader holds
  seen,       \* those a caller has been given a reader with, in either of its phases
  units, ended, calls   \* the units handed out, whether the file ended, the calls made

parsing == <<file, phase, field, raw, header, encoding, caseCount, raised, held, seen>>
rows    == <<units, ended, calls>>
vars    == <<source, walk, parsing, rows>>

NoCount == -1

-----------------------------------------------------------------------------------
(* header_parse *)

(* Little-endian first; none when the code is readable in neither. *)
LayoutOrder(bytes) ==
  IF ReadI32("LittleEndian", bytes) \in LayoutCodes THEN {"LittleEndian"}
  ELSE IF ReadI32("BigEndian", bytes) \in LayoutCodes THEN {"BigEndian"} ELSE {}

(* Mutant: the magic decides. *)
CompressionByMagic(code, magic) ==
  CASE code = 0 -> "None" [] code \in {1, 2} -> (IF magic = FL3 THEN "Zlib" ELSE "Bytecode")
    [] OTHER -> "None"
(* The code decides; an unknown one means no compression. *)
Compression(code, magic) ==
  IF code = 1 THEN "Bytecode" ELSE IF code = 2 THEN "Zlib" ELSE "None"
(* Mutant: only regular files are looked at. *)
CompressionWarningOfFL2(code, magic) ==
  IF code \notin 0..2 THEN <<"UnknownCompressionCode">>
  ELSE IF code = 2 /\ magic = FL2 THEN <<"CompressionMismatch">> ELSE << >>
CompressionWarning(code, magic) ==
  IF code \notin 0..2 THEN <<"UnknownCompressionCode">>
  ELSE IF (code = 2) # (magic = FL3) THEN <<"CompressionMismatch">> ELSE << >>

(* A count or index of zero or less is none; as a set of at most one. *)
WeightOffset(value) == {value - 1} \cap Nat
DeclaredCount(value) == IF value < 0 THEN NoCount ELSE value

(* The formats that read the bytes as 100. *)
FormatsOf(bytes, order) == {format \in FloatFormats: bytes = Canonical(format, order)}
FloatFormat(bytes, order) ==
  IF FormatsOf(bytes, order) = {} THEN "Ieee754" ELSE CHOOSE format \in FormatsOf(bytes, order): TRUE
Bias(bytes, order) == IF FormatsOf(bytes, order) = {} THEN "other" ELSE "100"
BiasWarning(bytes, order) == IF FormatsOf(bytes, order) = {} THEN <<"FloatFormatAssumed">> ELSE << >>

(* SavCreationTimestamp: a part is a number, a month or neither; a blank is none. *)
NumberPart == 1
MonthPart == 2
PartsOf(bytes) == SelectSeq(bytes, LAMBDA part: part # Blank)
ParsesAsDate(bytes) == PartsOf(bytes) = <<NumberPart, MonthPart, NumberPart>>
ParsesAsTime(bytes) == bytes = <<NumberPart, NumberPart, NumberPart>>
CreationTimestamp(date, time) ==
  [parsed |-> ParsesAsDate(date) /\ ParsesAsTime(time), date |-> date, time |-> time]

(* decode_trimmed: trailing padding goes, the rest is decoded as the encoding has it. *)
DecodeTrimmed(bytes, named) ==
  LET kept == SubSeq(bytes, 1, Max({0} \cup {i \in DOMAIN bytes: bytes[i] # Blank}))
  IN  IF named = "UTF-8" THEN Decoded(kept) ELSE kept

-----------------------------------------------------------------------------------
(* The fields in file order: what is asked for, and what is made of it *)

FieldKinds == [f \in DOMAIN FieldLens |-> IF f = Len(FieldLens) THEN "skip" ELSE "exact"]

NoHeader == {}

NothingRead ==
  [magic |-> << >>, productName |-> << >>, byteOrder |-> {}, nominalCaseSize |-> NoCount,
   compression |-> "None", weightOffset |-> {}, caseCount |-> NoCount, floatFormat |-> "Ieee754",
   bias |-> "100", date |-> << >>, time |-> << >>, fileLabel |-> << >>]

Init ==
  /\ file \in Files
  /\ SourceInit /\ WalkInit
  /\ phase = "header" /\ field = 1
  /\ raw = NothingRead /\ header = NoHeader
  /\ encoding = {} /\ caseCount = NoCount
  /\ raised = << >> /\ held = << >> /\ seen = << >>
  /\ units = << >> /\ ended = FALSE /\ calls = 0

StartHeader ==
  /\ phase = "header" /\ field = 1
  /\ call = "none" /\ result = "none"
  /\ Ask(FieldKinds[1], FieldLens[1])
  /\ UNCHANGED <<walk, parsing, rows>>

Arrived(f) == phase = "header" /\ field = f /\ call = "none" /\ result = "whole"
Bytes == SubSeq(file.bytes, cursor - FieldLens[field] + 1, cursor)
Order == CHOOSE order \in raw.byteOrder: TRUE
Number32 == ReadI32(Order, Bytes)

(* A field read is parsed, and the next one asked for. *)
Take(parsed, warned) ==
  /\ raw' = parsed
  /\ raised' = raised \o warned /\ held' = held \o warned
  /\ field' = field + 1
  /\ Ask(FieldKinds[field'], FieldLens[field'])
  /\ UNCHANGED <<walk, file, phase, header, encoding, caseCount, seen, rows>>

Fail ==
  /\ phase' = "failed"
  /\ UNCHANGED <<source, walk, file, field, raw, header, encoding, caseCount, raised, held, seen, rows>>

RecordType ==
  /\ Arrived(1)
  /\ IF Bytes \in Magics THEN Take([raw EXCEPT !.magic = Bytes], << >>) ELSE Fail
ProductName == Arrived(2) /\ Take([raw EXCEPT !.productName = Bytes], << >>)
LayoutCode ==
  /\ Arrived(3)
  /\ IF LayoutOrder(Bytes) # {} THEN Take([raw EXCEPT !.byteOrder = LayoutOrder(Bytes)], << >>) ELSE Fail
NominalCaseSize == Arrived(4) /\ Take([raw EXCEPT !.nominalCaseSize = DeclaredCount(Number32)], << >>)
CompressionCode ==
  /\ Arrived(5)
  /\ Take([raw EXCEPT !.compression = Compression(Number32, raw.magic)],
          CompressionWarning(Number32, raw.magic))
WeightIndex == Arrived(6) /\ Take([raw EXCEPT !.weightOffset = WeightOffset(Number32)], << >>)
CaseCount   == Arrived(7) /\ Take([raw EXCEPT !.caseCount = DeclaredCount(Number32)], << >>)
BiasField ==
  /\ Arrived(8)
  /\ Take([raw EXCEPT !.floatFormat = FloatFormat(Bytes, Order), !.bias = Bias(Bytes, Order)],
          BiasWarning(Bytes, Order))
CreationDate == Arrived(9) /\ Take([raw EXCEPT !.date = Bytes], << >>)
CreationTime == Arrived(10) /\ Take([raw EXCEPT !.time = Bytes], << >>)
FileLabel    == Arrived(11) /\ Take([raw EXCEPT !.fileLabel = Bytes], << >>)

(* The padding over, the dictionary begins. *)
Padding ==
  /\ Arrived(12)
  /\ phase' = "dictionary"
  /\ BeginWalk
  /\ UNCHANGED <<file, field, raw, header, encoding, caseCount, raised, held, seen, rows>>

(* Mutant: an error is looked at only in the first field. *)
ReadFailedAtFirst ==
  /\ phase = "header" /\ field = 1 /\ result = "failed"
  /\ Fail

ReadFailed ==
  /\ phase = "header" /\ result = "failed"
  /\ Fail

(* The walk ends in an error, or with the dictionary read. *)
WalkDictionary ==
  /\ phase = "dictionary"
  /\ Walk(Order, SubSeq(file.bytes, cursor - wanted + 1, cursor))
  /\ phase' = IF scanning' = "running" THEN "dictionary"
              ELSE IF scanning' = "done" THEN "resolving" ELSE "failed"
  /\ UNCHANGED <<file, field, raw, header, encoding, caseCount, raised, held, seen, rows>>

Encoding == INSTANCE EncodingResolution WITH
  Encodings <- Applicable, NoEncoding <- "unknown", Blank <- "blank",
  LabelEncoding <- [name \in EncodingNames |-> name], CodeEncoding <- [name \in EncodingNames |-> name]

DeclaredOr(declaration) == IF declaration = Scan!Undeclared THEN Encoding!Absent ELSE declaration

ResolveEncoding ==
  LET resolved == Encoding!Resolve(Strategy, DeclaredOr(label), DeclaredOr(codepage))
      warned   == [i \in DOMAIN resolved.warnings |-> resolved.warnings[i].warning]
  IN  /\ phase = "resolving" /\ encoding = {}
      /\ IF resolved.provenance \in Encoding!Failures
         THEN phase' = "failed" /\ UNCHANGED <<encoding, raised, held>>
         ELSE /\ encoding' = {resolved.encoding}
              /\ raised' = raised \o warned /\ held' = held \o warned
              /\ UNCHANGED phase
      /\ UNCHANGED <<source, walk, file, field, raw, header, caseCount, seen, rows>>

(* The header's text is decoded by the encoding its dictionary declares; a caller who asked for *)
(* the records is given a reader of the dictionary now, and with it the warnings held.            *)
FinishHeader ==
  /\ phase = "resolving" /\ header = NoHeader
  /\ \E resolved \in encoding:
       header' = {[productName |-> DecodeTrimmed(raw.productName, resolved),
                   fileLabel |-> DecodeTrimmed(raw.fileLabel, resolved),
                   creationTimestamp |-> CreationTimestamp(raw.date, raw.time),
                   compression |-> raw.compression, byteOrder |-> Order,
                   floatFormat |-> raw.floatFormat, bias |-> raw.bias,
                   caseCount |-> raw.caseCount, nominalCaseSize |-> raw.nominalCaseSize]}
  /\ seen' = IF retention = "All" THEN held ELSE seen
  /\ UNCHANGED <<source, walk, file, phase, field, raw, encoding, caseCount, raised, held, rows>>

(* finalize_from_skeleton, of the records that declare a count: the last is in force, and one *)
(* that cannot be read is an error.                                                            *)
CountRecords == {i \in DOMAIN envelopes: envelopes[i].subtype = 16}
IsCount(envelope) == envelope.size = 2 * WordLen /\ envelope.count = 2
ExtendedCount ==
  IF CountRecords = {} THEN {}
  ELSE {ReadI64(Order, Slab(envelopes[Max(CountRecords)].payload, 2, 2 * WordLen))}

CountUnreadable ==
  /\ phase = "resolving" /\ header # NoHeader
  /\ \E i \in CountRecords: ~IsCount(envelopes[i])
  /\ Fail

CountWarning(declared) ==
  IF ExtendedCount # {} /\ declared # NoCount /\ ExtendedCount # {declared}
  THEN <<"CaseCountMismatch">> ELSE << >>

(* into_record_reader clears the warnings held, drains the dictionary, and resolve_case_count   *)
(* adds its own (the layout's and the schema's others are DictionaryReader's): the extended       *)
(* count wins when it is one.                                                                      *)
ResolveCaseCount ==
  /\ phase = "resolving"
  /\ \A i \in CountRecords: IsCount(envelopes[i])
  /\ \E finished \in header:
       LET declared == finished.caseCount
       IN  /\ caseCount' = IF ExtendedCount \cap Nat # {} THEN CHOOSE n \in ExtendedCount: TRUE
                           ELSE declared
           /\ held' = CountWarning(declared)
           /\ raised' = raised \o held' /\ seen' = seen \o held'
  /\ phase' = "open"
  /\ UNCHANGED <<source, walk, file, field, raw, header, encoding, rows>>

-----------------------------------------------------------------------------------
(* FileUnits::next_unit *)

NextUnit ==
  /\ phase = "open" /\ call = "none"
  /\ calls < MaxCalls
  /\ calls' = calls + 1
  /\ Ask("into", DataUnitLen)
  /\ UNCHANGED <<walk, parsing, units, ended>>

(* Mutant: what there is of a torn unit is handed out. *)
ToldTornToo ==
  IF phase = "open" /\ call = "into" /\ call' = "none"
  THEN /\ units' = IF result' \in {"whole", "torn"}
                   THEN Append(units, SubSeq(file.bytes, cursor - filled + 1, cursor)) ELSE units
       /\ ended' = (ended \/ result' \in {"end", "torn"})
       /\ UNCHANGED calls
  ELSE UNCHANGED rows

(* What a unit's read comes to is told as it ends. *)
Told ==
  IF phase = "open" /\ call = "into" /\ call' = "none"
  THEN /\ units' = IF result' = "whole" THEN Append(units, SubSeq(file.bytes, cursor - DataUnitLen + 1, cursor)) ELSE units
       /\ ended' = (ended \/ result' \in {"end", "torn"})
       /\ UNCHANGED calls
  ELSE UNCHANGED rows

Read == SourceStep(file.bytes) /\ Told /\ UNCHANGED <<walk, parsing>>

Next ==
  \/ Read
  \/ StartHeader
  \/ RecordType \/ ProductName \/ LayoutCode \/ NominalCaseSize \/ CompressionCode \/ WeightIndex
  \/ CaseCount \/ BiasField \/ CreationDate \/ CreationTime \/ FileLabel \/ Padding
  \/ ReadFailed \/ WalkDictionary \/ ResolveEncoding \/ FinishHeader
  \/ CountUnreadable \/ ResolveCaseCount
  \/ NextUnit

(* An underlying reader that is not interrupted for ever, and code that runs on. *)
Spec == Init /\ [][Next]_vars /\ WF_vars(Next)

-----------------------------------------------------------------------------------
(* Properties *)

(* Where the i-th record of the dictionary begins, and the rows after the last. *)
RecordStart(i) == file.dictionary[i].at
RowsStart      == RecordStart(Len(file.dictionary)) + Last(file.dictionary).length

(* However the bytes trickle in and whatever the caller asked to keep, every field is read at its *)
(* offset, every record of the dictionary where the one before it ends, and the units follow the    *)
(* last of them, as long as no failed read has swallowed bytes; a header's error names the place     *)
(* where the part read began; and a whole dictionary is refused only when a read of it fails (the     *)
(* debug assertions of read_raw_header; reader_state; Scan::run).                                     *)
PositionIsTheFields ==
  /\ phase = "header" /\ call # "none" => position = Offset(field) /\ cursor = position + filled
  /\ phase = "failed" /\ stage = "none" => position \in {Offset(field), Offset(field + 1)}
  /\ phase = "dictionary" /\ stage = "tag" =>
       /\ Len(scanned) < Len(file.dictionary)
       /\ position = RecordStart(Len(scanned) + 1) + (IF result = "whole" THEN WordLen ELSE 0)
  /\ phase = "failed" /\ file.sound /\ scanning \in Scan!Errors =>
       scanning = "Io" /\ cursor < Len(file.bytes)
  /\ phase = "resolving" => position = RowsStart
  /\ phase = "open" /\ position = cursor =>
       IsPrefix(FlattenSeq(units), SubSeq(file.bytes, RowsStart + 1, Len(file.bytes)))

Declaring(subtype) ==
  {i \in DOMAIN file.dictionary:
     file.dictionary[i].kind = "extension" /\ file.dictionary[i].subtype = subtype}
SaidByLast(declaring) == IF declaring = {} THEN {} ELSE file.dictionary[Max(declaring)].says

(* An unreadable declaration says nothing, and the last that says something is asked. *)
Saying(subtype) == {i \in Declaring(subtype): file.dictionary[i].says # {}}

(* What the file says of its encoding, and of its count; none where it says nothing. *)
LabelSaid == SaidByLast(Saying(20))
CodeSaid  == SaidByLast(Saying(3))
CountSaid == SaidByLast(Declaring(16))

(* An unreadable declaration behind one that can be read: the code forgets the one before it,   *)
(* and resolves the encoding without (UnreadableIsRefusedOrIgnored of DictionaryReader).            *)
TakenBack(subtype) == Saying(subtype) # {} /\ Max(Saying(subtype)) # Max(Declaring(subtype))
Contested == Strategy.override = "absent" /\ (TakenBack(20) \/ TakenBack(3))

(* The encoding the strategy and the file ask for, the label before the code. *)
EncodingAskedFor ==
  IF Strategy.override # "absent" THEN {Strategy.override}
  ELSE IF LabelSaid \cap Applicable # {} THEN LabelSaid
  ELSE IF CodeSaid \cap Applicable # {} THEN CodeSaid
  ELSE IF "unknown" \in LabelSaid \cup CodeSaid THEN {Strategy.unrecognized}
  ELSE {Strategy.unspecified}

(* The header read is the header written, in either byte order, once its text is decoded by the   *)
(* encoding the caller overrides or the dictionary declares, whatever of it is kept (of text whose   *)
(* declaration is taken back nothing is said); its code settles the compression, its bias the float   *)
(* format, and an index or count that is none stays none (read_raw_header, header_parse,               *)
(* into_dictionary_reader_retaining).                                                                  *)
HeaderIsAsWritten ==
  \A h \in header:
    LET w == file.written
        shown(text) == IF "UTF-8" \in EncodingAskedFor THEN Decoded(text) ELSE text
    IN  /\ h.byteOrder = w.order
        /\ Contested \/ (h.productName = shown(w.productName) /\ h.fileLabel = shown(w.fileLabel))
        /\ h.compression = (IF w.code = 1 THEN "Bytecode" ELSE IF w.code = 2 THEN "Zlib" ELSE "None")
        /\ h.floatFormat = w.bias.format
        /\ h.caseCount = (IF w.cases < 0 THEN NoCount ELSE w.cases)
        /\ raw.weightOffset = {n - 1: n \in {w.weight} \cap (Nat \ {0})}

(* By way of the dictionary a caller is given every warning raised, and with none of them nothing  *)
(* was guessed: magic and code agree, the bias tells the float format, the encoding declared, where    *)
(* none overrides it and no declaration is taken back, is the only one, and the two case counts,         *)
(* where there are two, are one (resolve_compression, parse_bias, resolve, resolve_case_count).           *)
SilenceMeansNoGuess ==
  phase = "open" /\ retention = "All" =>
    LET w == file.written
    IN  /\ seen = raised
        /\ seen = << >> =>
             /\ w.code \in 0..2 /\ (w.code = 2) = (w.magic = FL3)
             /\ w.bias.canonical
             /\ Strategy.override = "absent" /\ ~Contested =>
                  \E named \in Applicable: (LabelSaid \cup CodeSaid) \cap Applicable = {named}
             /\ CountSaid = {} \/ w.cases < 0 \/ CountSaid = {caseCount}
             /\ CountSaid # {} \/ caseCount = DeclaredCount(w.cases)

(* Does not hold: a bias that reads as 100 in no float format is an error of opening, as the      *)
(* doc of into_dictionary_reader says ("unknown float format"), or at least the caller is told      *)
(* of the guess by either way, since the two "differ in nothing else" (into_record_reader).  It        *)
(* is never an error, and straight to the rows the warning is cleared before there is a reader to        *)
(* ask (parse_bias; DictionaryReader::into_record_reader).                                                 *)
UnknownFloatFormatIsToldOrRefused ==
  phase = "open" /\ ~file.written.bias.canonical => seen # << >>

(* Opening ends, in a reader of rows or an error, whatever the file. *)
OpeningEnds == <>(phase \in {"open", "failed"})

Meaning(byte) == IF byte % 2 = 0 THEN "padding" ELSE "verbatim"

Source == INSTANCE DataUnitSource WITH
  GroupLen <- DataUnitLen,
  InlineCodes <- {},
  MaxUnits <- MaxCalls,
  taken <- [i \in DOMAIN units |-> [j \in DOMAIN units[i] |-> Meaning(units[i][j])]],
  exhausted <- ended

(* The file's units implement the decoder's source: whole units, one at a time, an end that is    *)
(* final, and nothing after it (data_unit_source.rs).                                              *)
ImplementsSource == Source!SourceSpec

===================================================================================
