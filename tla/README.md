# Verification of spss_sav

The crate reads SPSS system files, `.sav` and `.zsav`. A `SavReader` reads the file header;
it becomes a `DictionaryReader`, which walks the whole dictionary before it decodes a word
of it and then hands its records out; and that becomes a `RecordReader`, which pulls data
rows, decompressing them where they are compressed. Everything runs on the caller's
thread, driven call by call, over a `Read` that cannot seek and may fail at any byte.

This directory holds TLA+ modules of the parts whose correctness lies in order, in state
kept between calls and in errors in the middle of things; the TLC configurations that
check them on small instances; and TLAPS proofs of the theorems that matter most.
Paths below are relative to `src/src/spss/sav/`.

## 1. Inventory

| component | state it keeps | operations | hard behaviour | what makes it correct | status |
|---|---|---|---|---|---|
| Row reading (`record_reader.rs`, `compression/{row_source,row_coding,bytecode_decoder,file_units,data_unit_source}.rs`) | the command group in hand and how much of it ran, the end flag, the row buffer, the saturating row count, the last call's warnings | `read_record`, `read_lazy_record`, `skip_record`, all `advance_row` | groups straddle rows; payloads interleave with groups; the stream may end anywhere, with or without a marker; calls go on after errors | rows are the stream's units in order; the end is final; a leftover or a differing count is reported exactly when there is one | modelled, proved |
| ZSAV blocks (`compression/{zlib_blocks,zsav_header}.rs`) | header, compressed bytes read ahead, inflater, window, block count, end flag | `next_unit` | blocks, chunks, windows and units end at different places; cut and damaged files; reads that fail halfway | the units are the section's bytes; a clean end is a whole region; a call returns | modelled, proved |
| Dictionary walk (`dictionary_buffer.rs`, `dictionary_parse.rs`) | continuations still owed, physical positions, skeleton, buffered records, declared encodings | `DictionaryBuffer::read` | positions count continuation records; value labels name variables by position; warnings travel with records; the same file with and without records kept | positions are row offsets; what the rows need does not depend on what is kept | modelled, proved |
| Encoding resolution (`encoding_resolution.rs`) | none | `resolve` | two records may declare, name nothing known, or disagree, under four strategies | the encoding used is the one the strategy calls for, and says where it came from | modelled |
| Dictionary reader (`dictionary_reader.rs`) | phase, cursor into the buffer, accumulated schema, provenance, warnings | `read_record`, `skip_record`, `into_record_reader`, the way straight to the rows | a caller may read some records, skip some and leave the rest; every call clears the warnings | schema and layout are the file's whatever the caller took; a warning is found after the call it belongs to | modelled, proved |
| Data layout (`data_layout.rs`, `segment_layout.rs`) | segments and offsets; runs claimed by very long strings; spans of logical variables; the sentinels in force | `add_variable`, the setters, `build` | widths that span records, entries that lie, overlap or repeat | segments tile the row, variables tile the segments, no slice runs out | modelled, proved |
| Schema and reconciliation (`sav_schema.rs`, `variable_attribute_reconcile.rs`) | base variables and the extension records to apply to them | accumulation, `build` | records apply by name, some before and some after names change; duplicates | every record reaches the variables it names; schema and rows agree about the same file | modelled, proved |
| Missing values (`missing_value_specification.rs`, `missing_value_reconcile.rs`) | none | `decode`, `matches_number`, `matches_bytes` | ranges with open ends, strings cut to eight bytes, sentinels that decode to one number | a value is missing exactly when declared | modelled, proved |
| Cells (`record_parse.rs`, `sav_record.rs`, `lazy_sav_record.rs`) | none, over layout and row | `parse_cell`, `read_record`, `LazySavRecord::value` | very long strings read piece by piece, sentinels | a cell is what was written, lazily or eagerly | modelled, proved |
| File header (`sav_reader.rs`, `header_parse.rs`) | the raw header, warnings | `SavReader::new` and its transitions | magic against compression code, layout code and byte order, bias and float format, text read before its encoding is known | what is read is what was written; what is guessed is told | modelled, proved |
| Reader state (`reader_state.rs`) | position, warnings | `read_into`, `read_array`, `read_vec`, `skip` | short and interrupted reads, errors after part of a read | position is what was read | modelled, proved |
| Extension records (`extensions/`) | a cursor over the payload | one parser per subtype, the unknown one | payloads cut within an entry, text that holds delimiters, values with a repeated width | what is written comes back; a malformed record costs itself and no more | modelled, proved in part |
| Float formats, byte access and text, timestamps, errors and warnings | none | conversions | bit patterns | which outcome occurs is in the modules that depend on it | partly |
| Plain data, crate root, tests | none | none | none | | not modelled |

The same list, file by file and with the reason for what is left out, is in
`PROJECT.json` under "components"; "hazards" lists what is hard to test, each at its line.

**Interactions.** All phases share one `ReaderState`: the file's position and the warnings
of the last call. `RecordReader` owns a row source; the bytecode decoder draws 8-byte units
from `FileUnits` or `ZlibBlocks`, which draw bytes from the state. `DictionaryReader` owns
the buffer of records with their warnings, and the skeleton (variables, copies of the
layout-bearing extension records) from which the layout is made; the records also feed the
schema. The schema and the layout are thus made from the same file along two paths. There is no
concurrency, no persistence and no callback; the actors that interleave are the caller,
free to make any call next, and the file, free to end or fail anywhere.

## 2. Modules

| module | models | extends / uses |
|---|---|---|
| `DataUnitSource` | the trait of that name: whole units in order, an end, a torn unit, a failure | |
| `BytecodeDecoder` | `BytecodeDecoder`: command groups and the effect of each command on row and group | `DataUnitSource` |
| `RowContract` | what a `RecordReader` promises its caller: rows come whole, each after the last, and the end is final | |
| `RowReference` | the decoding of a whole stream of units at once, as a recursive function, and the rows compared with it | `RecordReader` |
| `RecordReader` | `advance_row`, `RowSource` and `fill_row`, one action per step of the loop | `BytecodeDecoder`; instance of `RowContract` |
| `ZlibBlocks` | `ZlibBlocks` and `ZsavHeader`, one action per step of the loop | instance of `DataUnitSource` |
| `ByteSource` | `ReaderState`: reads in parts, skips in chunks, the position counted | |
| `DictionaryBytes` | `Scan::run` a read at a time: what each read asks for, kept or skipped | `ByteSource`, `BinaryPayloads`; steps of `DictionaryScan` |
| `SavFile` | what a file holds and where: the header's fields, the records of the dictionary, which number stands at which offset | `DictionaryBytes` |
| `SavHeader` | `SavReader`: the header field by field, the dictionary, the encoding, the way to the rows, `FileUnits` | `SavFile`, `EncodingResolution`; instance of `DataUnitSource` |
| `DictionaryScan` | `DictionaryBuffer::read`, one action per turn of `Scan::run`; what the records say looked at all together | |
| `EncodingResolution` | `resolve` and what it is made of, as operators | |
| `DictionaryReader` | the reader from opening to the transition to rows | `DictionaryScan`, `EncodingResolution` |
| `DataLayout` | `DataLayoutBuilder` and the segment arithmetic | |
| `MissingValues` | declarations of missing values, sentinels, and the classification of a cell, as operators | |
| `Cells` | `parse_cell` over a filled row, all cells at once or one as asked for | `MissingValues` |
| `SavSchema` | `SavSchemaBuilder`, one action per turn of each loop of `build`; the layout's own reading of subtypes 13 and 22; the weight variable | `MissingValues` |
| `TextPayloads`, `BinaryPayloads` | what the pieces of text payloads and the fields of binary ones parse to, as operators; `ByteCursor`, `ByteOrder` | |
| `AttributeCollapse` | `variable_attribute_reconcile`: `fred[1]`, `fred[2]` folded into one attribute | `TextPayloads` |
| `ExtensionText` | the loops of the text subtypes (5, 7, 10, 12, 13, 14, 17-20), piece by piece | `TextPayloads`, `AttributeCollapse` |
| `ExtensionRecords` | every subtype's parser and what becomes of a record that does not parse | `ExtensionText`, `BinaryPayloads` |
| `MC*` | instances for TLC: bounded inputs | the module they name; `MCInMemory`: those of `DataLayout`, `ExtensionRecords` and `Cells` |
| `*_proofs` | theorems | the module they name (`Dictionary_proofs`: `DictionaryScan` and `DictionaryReader`; `RecordsAndLayout_proofs`: `ExtensionRecords` and `DataLayout`), `SequenceLemmas` |
| `SequenceLemmas` | what the proofs need of sequences: flattening, sums, counts, places, slices | |

### How they correspond to the code

*Row reading.* `group` and `consumed` are the decoder's `group` and `position`, `finished` its
end flag, `row` the row buffer, cell by cell. `taken` and `exhausted` are the source: `taken` is every
unit handed out, chosen nondeterministically when it is read, so a behaviour ranges over
every file. `pc` is "filling" inside the loop of `fill_row`, and each action is one turn:
fetch a group, run a padding, a literal, a payload or a marker, return. Error paths (`?`)
are actions that return with whatever state the code has by then. `warnings` is the shared vector of the
state, which a new reader takes over with what the transition left in it (`Inherited`, any warnings but those of a
row, `Earlier`): they are the caller's to see until the first call, which clears them. `handed` and `failure` are history.

*ZSAV blocks.* Compressed data are symbols that say what inflating them does (no byte, one,
two, end of stream, damage), an inflated byte is its own ordinal. `cursor` is where the
underlying reader is and `position` where `ReaderState` has counted it to be: an I/O error
in `read_into` returns before it counts. A read that fails leaves its buffer behind, sized
and partly zero (`Filler`); an inflater fed with those may fail, or take them for data, and
the model lets it do either. The inflater takes any positive amount of the input it is
given, which includes taking all it can.

*Dictionary walk.* A record is what the walk decides by: type field and missing-value count
of a variable record, indices of a label set, subtype of an extension record and whether
its payload parses. `pending`, `physical`, `primaries` are `Scan`'s counters, and `variables`,
`envelopes`, `label`, `codepage` the skeleton. What a payload says is one of `Labels`; one its parser rejects is one of
`Unreadables`, and declares nothing. `scanned` is history: what the file held.

*Dictionary reader.* `phase` is the type the caller holds (`SavReader` opening,
`DictionaryReader` pulling, `RecordReader` reading). `schema` is the sequence of payloads
the builder was fed, `layout` the record of each layout-bearing subtype that is in force.
What a parser warns of while it reads a payload (`Remarks`: the cross-check of subtype 3, the lengths subtype 22
repeats, whether or not it then fails), and what building the layout and the schema warns of (`LayoutWarnings`, `SchemaWarnings`), are
functions of what those are given, and any such function will do. `IntoRecordReader` is the whole transition: the rest is
drained and its warnings cleared, subtype 22 is parsed once more for the layout, and what that, the layout and the schema say is what the
new reader starts with. `passed` and `shown` are history: how each record left, and every warning a caller
could have looked at. A caller that goes straight to the rows has no reader to look at in between.

*Data layout.* `segments`, `claims` and `spans` are the builder's; `Build` starts the resolution,
which then goes entry by entry and segment by segment. Names are compared for equality only.
The sentinels it resolves and the missing values it matches cells against are in
`MissingValues`, `Cells` and `SavSchema`; the case count is in `SavHeader`.

*Missing values and cells.* A number is an integer, and so is the pattern that spells it; the
default sentinels are three integers outside the ordinary numbers, and `Decode` sends LOWEST to the number of
system-missing in the two formats whose mantissas are longer than an `f64`'s. `CellsInit` is
the writer: it lays out a row for a layout, a float format, a subtype-4 record or none,
and any content, a numeric cell possibly as the command for system-missing, for which the row holds what
`RowCoding` writes. `ReadNext` is a turn of `read_record`'s loop, `ValueAt` is `LazySavRecord::value`, and they
interleave freely. A string in one segment that is wider than it, which a narrower very-long-string claim leaves, is
followed there by `PastWidth`: the code cuts nothing off such a cell, so what it holds is up to the writer.

*Schema.* `building` says which loop of `build` runs and `turn` how far it is; the other variables
are the builder's fields. `carried` is history: every attribute entry of the file. Formats and labels
are opaque; two spellings of a name that differ in case are one name.

*Bytes and header.* `ByteSource` has one action per answer of the underlying reader: some of the bytes,
the end, an error. `cursor` is what was handed out, `position` what `ReaderState` has counted. A field of the header is
asked for, arrives (`Arrived`), and is parsed as the next one is asked for. The dictionary is walked the
same way: `stage` says what the read in hand is for, `item` what is known of the record and `left` how many
entries, lines or indices it still has; the read that completes a record, or refuses it, takes the step of
`DictionaryScan` for that record, so that the two models of the walk are one. Then the encoding is
resolved, the header's text decoded and the case count settled, and rows are asked for. `held` is the vector of warnings,
which the transition to the rows clears before it adds its own; `seen` is what a caller was ever given a reader with, and `raised` all there were;
the two are history, and differ by what was cleared before anyone could look.
A file is what a writer of the format may have left (`IsFile`): the header `written` and the records of the
`dictionary`, each with the offset it begins `at` and its `length`, and bytes that say what they say, as far as the bytes
go. `sound` files have a dictionary that is whole and as it must be. The reader never looks at any of this but the bytes;
the properties compare what it read with it.

*Extension records.* `payload` is what a writer makes of some content, `written`, in any form the format
allows, whole or damaged. `rest` is the cursor: what is left of the payload. One action is one turn of a
parser's loop; a failing turn refuses the record, and `DegradeToUnknown` keeps it as its bytes.
Text is over an alphabet of the delimiters of the grammar, two or three letters and one byte that does not decode; numbers
have two digits of base four. `complaints` are the record's warnings and `RecordSpec` the component's specification,
so named because one module extends this component and the layout's, to prove theorems about both or to run them;
`CellsSpec` and the other names of `Cells` are for the same reason.

## 3. Runs

`tlc -workers 2 -config X.cfg M` for each run.

| run | checks | shows |
|---|---|---|
| `records_in_order` (`MCRecordReader.cfg`) | `TypeOK`, `RowsFollowTheStream`, `WarningsAreOfThisCall`, `CountMatchesData`, `ImplementsContract`, `LeftoverIsReported`, `RowsRunOut` | rows are the stream's units in order, against the reference decoding; leftovers and count mismatches are reported exactly when there are any; the transition's warnings are there until the first call and never after it; the contract is implemented; and a caller that keeps reading rows that are not empty reaches the end or an error |
| `inflated_blocks` (`MCZlibBlocks.cfg`) | `TypeOK`, `BytesComeInOrder`, `WholeAtTheEnd`, `ReadsInTheRegion`, `ImplementsSource`, `CallsReturn` | the blocks implement the source the decoder was checked against; a clean end is a whole region; every call returns |
| `dictionary_walk` (`MCDictionaryScan.cfg`) | `PositionsAreOffsets`, `BufferIsTheDictionary`, `SkeletonIsTheFile` | the single pass agrees with what the records say looked at all together, whatever is retained |
| `dictionary_reader` (`MCDictionaryReader.cfg`) | `SchemaHasNoHoles`, `SchemaFitsTheLayout`, `LayoutIgnoresTheCaller`, `WarningsFollowTheirCalls` | what the schema and layout are made from does not depend on which records the caller took; what parsers, layout and schema warn of is found after the call it belongs to, and nothing of a record that was drained |
| `schema` (`MCSavSchema.cfg`) | `AttributesAddUp`, `LabelsReachTheirVariables`, `SegmentsStandForTheirVariable`, `RowsAndSchemaAgreeOnMissing` | every record reaches the variables it names and no other: labels are those of the last entry, or else of the last set, that is for the variable; and, where no name is used twice, rows and schema read subtypes 13 and 22 alike |
| `header` (`MCSavHeader.cfg`) | `PositionIsTheFields`, `HeaderIsAsWritten`, `SilenceMeansNoGuess`, `OpeningEnds`, `ImplementsSource` | the header read is the header written however its bytes come; every field, record and row begins where the ones before it end, whether the dictionary is kept or skipped; by way of the dictionary a caller is given every warning, and every guess is among them; the units of a plain file implement the decoder's source |
| `in_memory` (`MCInMemory.cfg`) | of the layout: `SegmentsArePacked`, `SpansCoverTheSegments`, `SpansHoldTheirWidth` | the row is tiled by segments and those by variables, whatever the very-long-string record says |
| | of the extension records: `WrittenComesBack`, `ReadIsWhole`, `CollapseOrdersEveryValue`, `KeptAsItCame`, `BothReadOneCode`, `EachTurnConsumes` | payloads round-trip in every form the format allows; a damaged one loses no letter unseen, leaves no byte of its long strings unread and is kept whole when refused, with the reason as its last warning; every loop ends |
| | of the cells: `CellsAreTheRows`, `MissingAsDeclared` | cells hold what was written, asked for in any order, and are missing exactly when the declaration says so, with the file's own sentinels or the default ones |

`in_memory` is one run for three components that work on what is in memory already and share no variable: `MCInMemory` extends the
modules with their bounds (`MCDataLayout`, `MCExtensionRecords`, `MCCells`), and in each of its behaviours one component works and the
others stay as they begin.

`CHECK_DEADLOCK FALSE` appears where the modelled file is over: a walk that ended, a file at
its bound, a layout or schema that is built, a record that is read, cells that were all asked for. In the ZSAV
run the caller can always call again, and deadlock is checked.

**Bounds, and why they are enough.** *Rows:* two commands to a group, at most three units, rows
of 0, 1 and 3 units, and a literal code whose value the float format cannot hold. A group that straddles two rows, a row that takes
two groups, a payload that looks like a group of markers, a group behind a payload, and a group whose last command ends the
data all occur with three units. *Blocks:* units of
2, chunks of 2, windows of 3, so that no two of them end together; every region of up to
three symbols and seven longer ones, trailers before, at and behind the end of the file. A
read of the region fails at most once (a device that always fails yields zeros for ever). `MaxUnits` is no guard:
an assumption says that no section of `Files` has more bytes to give, and `ZlibImplementsSource` is proved from it.
*Walk:* four records, types -1, 0, 8, 9 and 256: continuation, numeric, a string of one unit,
one with a continuation, one too wide. *Reader:* three records, with subtypes 3, 20, 14, 21, 22
and an unknown one, so that two declarations of the same thing, an unreadable one, a layout-bearing one and
a record of subtype 22 that is parsed twice, and warned about whether it parses or fails half-way, meet. *Layout:* three segments, two entries, widths on both sides of 255
and of a multiple of 252; names are symmetric. *Schema:* two variables, a very long string of two segments
among them, and any two records of any kinds, with names mapped twice, to one another and to nothing: what
a record does depends on the others only through the names, and two records are what
a collision takes. *Cells:* segments of 3 bytes in 4 with strings of one and of three segments (255
in 256 at scale), keys of two bytes compared, a string that a claim makes narrower than its segment, both padding bytes, both infinities, two
float formats of which one decodes LOWEST to system-missing, default sentinels and others. *Header:* words of two digits
of base seven in either byte order, so that subtypes reach 22; an ordinary file, every file that differs from it in a group of
fields that are decided together (magic, layout and compression codes; bias; counts and weight with the counts a dictionary declares;
text and time); every way to declare an encoding, or fail to; dictionaries of every kind of record, with labels of every length from
none to past a multiple of the padding, and unsound ones; files cut at every byte; chunks of two bytes
for skips; four units asked for. Paddings and entries have lengths of 2 and 3 where the format has 4 and 8, so
that a word, an entry and its alignment are never taken for one another. *Extensions:* up to two items
of each subtype, every name and value from a handful that hold delimiters, padding and undecodable
bytes; every payload with one byte lost or changed; all three element sizes.

**Fairness.** `RowsRunOut` and `ReadingStops` assume `WF_vars(Next)` of `RecordReader`: the caller keeps calling,
and a call, being a loop on the caller's own thread, keeps stepping. Every fetch it needs is
made or fails; a file is finite. `CallsReturn` assumes `WF_vars(Steps)` of `ZlibBlocks`: a call
that was made keeps stepping, nothing is assumed of the caller. `OpeningEnds` assumes `WF_vars(Next)` of
`SavHeader`: the opening call runs on, and an underlying reader is not interrupted for ever;
every answer it gives is some bytes, the end or an error. `EachTurnConsumes` needs no fairness: it is an action
property, that no turn leaves as much to do as there was.

### Disagreements between code and documentation

Each is a run that TLC must find violated, of the module and the bounds of the run it belongs to (`X.cfg` differs from the module's own
configuration in the property only, and `EmptyRows.cfg` in looking at rows of length 0 alone); the lines are quoted in `PROJECT.json`.

| run | what happens |
|---|---|
| `empty_rows_never_end` | a compressed file without variables yields empty rows for ever (`bytecode_decoder.rs:92`), where `read_record` promises `None` at the end |
| `unreadable_declaration` | an unreadable record of the encoding takes back what an earlier one declared (`dictionary_buffer.rs:694`), where line 663 has it not contribute; and it is handed out with a warning (`dictionary_reader.rs:312`), where the documentation of `read_record` promises an error (line 451). The property asks for either, the code does neither |
| `straight_to_the_rows` | a bias no float format reads as 100 is no error (`header_parse.rs:183`), where the documentation of `SavReader` lists it among the errors (`sav_reader.rs:235`); and on the way straight to the rows the warning of it, like every warning of header and encoding, is cleared unseen (`dictionary_reader.rs:509`), where the two ways "differ in nothing else" (`sav_reader.rs:274`). The property asks for an error or a warning, the code gives neither |
| `short_labels` | a type-3 set that names the first segment of a very long string is attached to it (`sav_schema.rs:389`), where the documentation has the entries of such a set dropped |
| `twice_declared` | a subtype-22 record that names one variable twice is read first-wins by the layout (`data_layout.rs:422`) and last-wins by the schema, so that a cell is present whose value the dictionary declares missing |

In two of them one property stands for two statements of the documentation: it asks only that one of them hold, so that its violation
contradicts both. The properties that hold say nothing against these statements: `SkeletonIsTheFile` and `HeaderIsAsWritten` leave open
what is declared, and how the text reads, where an unreadable declaration follows a readable one; `SilenceMeansNoGuess` speaks of
the way through the dictionary; and `KeptAsItCame` says what becomes of a record once it is handed out unparsed.

Seen while modelling and kept without a run of their own:

- A subtype-22 record that fails half-way keeps the warning that "lengths are skipped and the values read normally"
  (`long_missing_values.rs:189` against `sav_warning.rs:111`): `KeptAsItCame` names this exception.
- A malformed record that is handed out as an unknown one fails the transition to the rows when the layout depends on it.

- After a payload was found torn, the next call executes the rest of the group and returns a row
  (`bytecode_decoder.rs:118`, where the comment at line 34 has the decoder finished).
- A very-long-string entry whose run lies within another's is dropped without the promised warning (`data_layout.rs:333` against line 248).
- A cell of a single segment is not cut to its declared width when a claim is narrower (`variable_layout.rs:80` against `segment_layout.rs:154`).
- A read that fails half-way has taken bytes from the file that are not counted; a caller that asks again after the
  error gets a unit that begins in the middle of one (`reader_state.rs:130`). `PositionIsTheFields` claims nothing past such an error.
- An accepted ZSAV header that frames no block, with a trailer that accounts for none, is reported
  as a corrupt block (`zlib_blocks.rs:138`) rather than as the end; `CountDiffers` and `EndsWell` are
  never reached for it.
- A read of the block region that fails halfway is not counted (`reader_state.rs:137`), so a caller that
  reads on can have the trailer inflated, which the comment at `zlib_blocks.rs:169-183` excludes.
  `ReadsInTheRegion` holds where no read failed.
- An error of the inflater leaves good bytes in the window, and the part of a unit in hand is lost, so
  later calls may return units that no longer lie where they did. `BytesComeInOrder` is what still holds.

## 4. Proofs

`tlapm M.tla` checks each. A theorem holds for every value of the constants under the assumptions the
modules name. Most say only that sizes are naturals, that groups, units and windows are not empty, and that sets of
inputs hold inputs of their kind. The others, and why the code justifies them:

- `InlineCodesAssumption` (`DataUnitSource`): a command code is not also a special one. The codes are
  1..251 against 0 and 252..255 (`record_format.rs`).
- `HeaderWarningsAssumption` (`DictionaryScan`): what the header left is of the kinds `header_parse.rs` raises, none of which
  is the notice of an override, whose number `WarningsFollowTheirCalls` counts.
- `RemarksAssumption` (`DictionaryReader`): of the parsers only those of subtypes 3 and 22 warn, the first only of a record it has read to the end, and of
  the kinds of `machine_integer_info.rs` and `long_missing_values.rs`. Nothing is assumed of `LayoutWarnings` and `SchemaWarnings`.
- `InheritedAssumption`, `EarlierAssumption` (`RecordReader`): what a new reader is left with is a sequence of warnings, none of which is one that rows raise.
- `MaxUnitsAssumption` (`ZlibBlocks`): the sections of the model fit the bound of units, so that the bound guards nothing.
- `LayoutsAssumption`, `RowsAssumption` (`Cells`): the layout tiles the row with segments that hold each variable's
  width, which is what `LayoutIsPacked`, `LayoutSpansCover` and `LayoutSpansHoldTheirWidth` prove of `DataLayout`; and a writer
  puts in a cell what the variable can hold.
- `NamesAssumption`, `DictionariesAssumption`, `PayloadsAssumption` (`SavSchema`): the value that stands for a name nobody has
  set, an `Option` in the code, is no name; every variable of the layout has a segment and every segment a unit of the row, which is how
  `add_variable` and the walk make them (`LayoutSpansCover`, `ScanPositionsAreOffsets`); and a record carries
  a sequence of entries of its kind. Names may collide, map to one another or to nothing, and be as many as they like.
- `FilesAssumption` (`SavHeader`): every file is one by `IsFile` (`SavFile`): where the bytes go that far, the fields stand at their
  offsets and the records one after the other, in the header's byte order, and say what header and dictionary are said to hold. It
  defines what it means for a file to hold something; the bytes may be anything that is so, may end anywhere, and in a file that is not
  `sound` continuations, types, indices and tags may be wrong in any way. TLC evaluates it on every file of the run.
- `CanonicalAssumption`, `OneOrderAssumption` (`SavFile`): formats write the bias 100 differently, which is how the code tells
  them apart (`parse_bias`), and a layout code of 2 or 3 is one in one byte order only, the other reading it as a number beyond a million.
- `LengthsAssumption` (`SavFile`): lengths are naturals, a padding is not empty, and the terminator's tag, 999, is no other record's.
- `PayloadsAssumption` (`ExtensionRecords`): a payload is a sequence, of bytes in a binary record.
- `AsciiAssumption` (`TextPayloads`): no separator, digit or keyword of a grammar is a byte the encoding cannot decode. All of them are
  ASCII, which the encodings of SPSS files have in common: the codes of UTF-16 and UTF-32 "cannot coexist with SAV's fixed-width byte
  fields" (`encoding_resolution.rs:174`) and resolve to none; a file that is labelled UTF-16 by name is outside the assumption. `WordAssumption`: the largest 32-bit number is a natural one.
- `SentinelsAssumption`, `PatternsAssumption`, `GapAssumption` (`Cells`): one record of sentinels at most, patterns
  are numbers, and the byte between segments is one no string holds.

Where a definition is recursive, the proofs need that the recursion has a solution, and the library's induction
theorems are out of reach. `SequenceLemmas` gets it from well-foundedness of the naturals: a set of numbers has a least one, so
a set that holds 0 and every successor is `Nat` (`SetInduction`), stated about sets and not predicates. With it `FlattenSeq` and the sums of
`FoldLeft` are shown to exist, to be unique and to grow element by element, and `Spread` says where each part of a
flattened sequence lies.

- **`RecordReader_proofs`.** `ReaderInv` is the inductive invariant: the types; inside the loop the
  reader is not finished, has not told the end, and the row is no longer than a row; and once the
  end was told the stream is over (`StreamOver`). The last part is what `EndIsFinal` needs: that
  the outcome stays "end" follows only if no state after it can fetch. It gives
  `ReaderTypeOK`, `ReaderEndIsFinal` and `ReaderImplementsContract` (the initial state and every
  step map to `RowContract`'s, or stutter). `DataInv` adds that the rows handed out, in units, are
  `rowsRead` rows (unless the count is saturated) and what the warnings of an end are made of; it
  gives `ReaderWarningsAreOfThisCall` (what a reader inherits is there as long as no call was made, and none of it after one) and `ReaderCountMatchesData`.
  `StreamInv` says where the decoder stands in the stream: the decoding of *every* extension of the units taken begins with what was
  read and goes on with the rest of the group in hand and then the groups that follow it (`Stands`). Quantifying over extensions
  is what makes it inductive: the reference decodes a whole stream, a payload that is not there yet stops it, and the next unit read must not change what was
  decoded before. It gives `ReaderRowsFollowTheStream` (with `OrderInv`: units come once and in order even after a failure) and
  `ReaderLeftoverIsReported`.
- **`ZlibBlocks_proofs`.** Four invariants, each on the ones before it. `BlocksInv`: types; the reader stands between header
  and trailer, and only a failed read makes its count differ from where it is; inside a call the window is empty and the unit unfilled. It gives `ZlibTypes` and
  `ZlibReadsInTheRegion`. `OrderInv`: the bytes let through so far rise, and no filler is among them or ahead of them unless a
  read failed (`ZlibBytesComeInOrder`). `WholeInv`: where nothing failed, the input in hand is a slice of the section and what was inflated is
  exactly what lies before it, blocks counted; and a section where something failed can never end well (`Doomed`), which is what
  `ZlibWholeAtTheEnd` rests on: a clean end excludes a failure long before. `BudgetInv`: bytes handed out, in the window and still to come never exceed what
  the section can give, so that no unit comes past the bound. With it `ZlibImplementsSource`: every step is one of `DataUnitSource`'s, or a stutter.
- **`Dictionary_proofs`, the walk.** `PositionInv`: the counters' types, positions are offsets, positions are
  strictly increasing, and all lie below the count. It is inductive because the records counted
  together with those pending are the units of the variables declared. `ScanPositionsAreOffsets`,
  `ScanPrimariesAreSorted`, `ScanTypes`. `SkeletonInv`: variables and layout-bearing records are the file's, flattened;
  the declarations are those of the last record of a subtype, which is the last readable one unless an unreadable one follows it; and records counted and owed are the sum of the units owned (`ScanSkeletonIsTheFile`).
  `BufferedInv` for `ScanBufferIsTheDictionary`: a value-label set is resolved against the variables read so far, the reference resolves it against the
  whole file, and the two agree because its indices name only records that were counted already (`NamesTheFirst`).
- **`Dictionary_proofs`, the reader.** `DictionaryInv` adds to the two invariants of the walk what the buffer's payloads are and that the types
  in it are the skeleton's (`BufferInv`), that the skeleton's last record of a subtype is the file's (`LastsInv`), and that the schema is what
  `accumulate` makes of exactly the records before the cursor (`ReaderInv`), whoever moved it there. `DictionarySchemaHasNoHoles`,
  `DictionarySchemaFitsTheLayout`, `DictionaryLayoutIgnoresTheCaller`. `WarningInv` (every call has shown what it had to say),
  `KeptInv` (a reader that keeps records keeps every declaring one) and `OverrideInv` (as many notices were shown as records tell of an override) give `DictionaryWarningsFollowTheirCalls`. Of the transition it needs that the
  envelopes are the file's layout-bearing records in order, so that what subtype 22 repeats is the same however the caller came there.
- **`RecordsAndLayout_proofs`, the layout.** `LayoutInv`: types, packing, that every claimed run fits in the segments
  (`ClaimsFit`, from `SegmentsAgree`), that nothing is spanned before claims are complete
  (`NothingSpanned`), and that the spans so far tile the segments before the next one.
  `ClaimsFit` is what keeps a span from running past the last segment whatever an entry says.
  `LayoutTypes`, `LayoutIsPacked`, `LayoutSpansCover`. `WidthInv` keeps that every claim agrees with the segments it was checked
  against (`ClaimsAgree`): a claim is only looked at again when its span is made (`LayoutSpansHoldTheirWidth`).
- **`RecordsAndLayout_proofs`, the records.** For any content and any damage. `ParserInv`: the cursor is a sequence of the payload's characters, what is still to come
  is a natural number, and so is the width. That a number read from bytes is a natural one (`NumberRead`) is what makes the lengths in a
  payload lengths, however large; a turn that gets past its guards takes a part the payload has (`TakesParser`). `EveryTurnConsumes` is an
  action property and the reason the loops end. `KeepInv`: the payload is as many elements of the declared size as are declared, a refused record has no items
  left and is of a known subtype, and until a record is read or kept all that has been said of it is lengths repeated, in subtype 22
  (`UnparsedIsKeptAsItCame`). `CodeInv`: a record of subtype 3 is refused for its shape or not at all, which is what
  `character_code` looks at too (`OneCodeIsRead`). `LetterInv` is an equation kept from the first turn to the last: the letters the items tell, followed by
  those the rest tells, are those the payload tells (`Accounted`). A turn keeps it if what it takes off the front tells what its item tells, which is a lemma for each
  grammar (`LongNameTold`, `WidthTold`, ...). They rest on decoding and picking letters both going piece by piece
  (`ToldConcat`, `ToldAround`), on what a grammar drops being no letter (a separator, padding, a number that is one, the empty tokens between spaces), and on cutting a text
  at spaces being a fold of `FoldLeft` that loses nothing. A record that is read has nothing left, so its items tell the payload (`NoLetterDisappears`).
  `LongInv` is the like for long strings, byte by byte: there is a trace (`Traced`) of parts, marks and notes, one of each for an item, such that the payload is the
  parts one after the other and then the rest, the complaints are the notes, and each part but the last reads as what its item is written as, with the width before the
  marked values and a note just when there are any (`Done`). The last one may have labels or values to come, so what is compared is its head with
  the number the head declares and the pieces there are so far (`LabelsSoFar`, `MissingSoFar`); that the number declared is the pieces
  so far and those to come (`Coming`) is what makes it inductive, and without it nothing ties a count in the payload to the
  values that were read. A record begins (`TraceAppends`) or goes on (`TraceGoesOn`), and what was taken is what is written since a
  number read from bytes is written as those bytes, in either order, digit by digit (`NumberReadBack`). Parts and forms are equal as the encoding reads them
  (`Alike`), for names and labels are kept decoded. At the end nothing is left and no value is to come (`TraceIsWhole`). Together they are `RecordsAreReadWhole`.
- **`Cells_proofs`.** The state hardly matters: `CellsInv` is that the row is the one that was written and every answer is `ParseCell` of it. The work is in
  lemmas about the row (`RowIsItsCells`, `CellIsItsSegments`: where each byte lies; `ContributionOf`: what each segment gives), about padding
  (`TrimDropsPadding`, `StringComesBack`), about keys (`KeysCompareStrings`: comparing what is left after trimming is comparing
  strings up to padding, cut to eight bytes) and about sentinels (`SentinelsAreSpecial`, `NumbersMatch`). `CellsCellsAreTheRows` and
  `CellsMissingAsDeclared` have the hypothesis `PastWidth \in {Space, Nul}`: a writer pads what a width leaves of a segment. The code does not cut a cell of one
  segment to a narrower claim, so without it the cell is the whole segment (section 3, divergences).
- **`SavSchema_proofs`.** `SchemaInv` says what the loops of `build` have made of the entries dealt with so far, one part per field:
  a variable's long name is that of the last such entry for it (`LongInv`), its missing values are the last entry's or its own record's
  (`MissingInv`), its labels are those of the last entry for it, or else of the last set so far that is for it, or else none (`LabelInv`), its attributes are the entries' that found it,
  joined (`AttributeInv`), its display parameters are its first segment's tuple once they were applied (`DisplayInv`), and every entry that found nothing,
  every segment that is no first one and every level that is none has its warning (`WarningInv`).
  The properties speak of a schema that is built, and the loops run one after the other, so each part must also say that
  its field is untouched before its loop and kept after it; and that the name index, made between two loops, is still right at the end, for no later
  loop changes a name (`BuildInv`). Entries that find a variable are then those the finished schema finds it by, which is
  `SchemaAttributesAddUp` and, with subtype 21 applied after the type-3 sets, `SchemaLabelsReachTheirVariables`. `SchemaSegmentsStandForTheirVariable`
  rests on first segments (`Start`) and the units before a segment (`Physical`) rising strictly, so that a position names one segment and a
  segment one variable. `SchemaRowsAndSchemaAgreeOnMissing` has the hypothesis the run has, `NamesAreUnique`: short
  names, names mapped, names with missing values and the names variables end with are each used once. With it the
  entry the layout finds first is the entry the schema applied last; `twice_declared` is what happens without.
- **`SavHeader_proofs`.** `UnitsInv`: every unit handed out is whole, no more are handed out than were
  asked for, a read of a unit in hand is of one unit, and once the end is told every byte has been
  handed out and such a read has filled nothing (`EndIsTheEnd`). The last part is what keeps a unit
  from coming after the end: the read that follows can only find the end again. Every action
  that opens the reader is `Quiet`: it asks for no unit and hands out no byte. It gives `HeaderUnitsAreWhole`
  and `HeaderImplementsSource` (the initial state and every step map to `DataUnitSource`'s, or stutter).
  `OpeningInv` is what the three properties of the header rest on, and says of every phase where the reader is in the file and what it knows:
  `HeaderInv`, that the read in hand is of the field at its offset and the fields before it were parsed from the bytes at theirs;
  `WalkInv`, for each of the walk's reads, which part of which record it is of (`Spot`: one case per stage, with the entry, line or index and
  how many are left), since "a record begins where the one before ends" is not inductive while one is being read;
  `SoundSoFar`, that in a sound file the walk's counters are what the records up to here make them, so that no check can fail and only a read can;
  `SaidSoFar`, that what has been declared is what the records before this one say, the last one winning, which `AllSaid` hands on to the phase after the walk (the last record and the last that says something are the same where nothing was taken back, `UncontestedIsByLast`);
  `FailedWhere`, where the reader stood when it gave up; `KnownInv`, where an encoding and a finished header come from, and that silence so far means nothing was guessed so far; `GivenInv`, that by way of the dictionary a caller has been given all that was raised;
  and `RowsInv`, that the units are the bytes from the first row on, unless a failed read has taken bytes that were not counted (`Swallowed`), and that nothing was
  left out before the end was told. A length that is padded to whole units (`WholeUnits`), and a run of bytes that is two runs (`RunsJoin`), are lemmas.
  It gives `HeaderPositionIsTheFields`, `HeaderIsTheWritten` and `HeaderSilenceMeansNoGuess`.

**Only model-checked:** liveness (`RowsRunOut`, `CallsReturn`, `OpeningEnds`), because the prover has no
fairness; and `WrittenComesBack` and `CollapseOrdersEveryValue` of the extension records, which say what recursion
over a payload or a list computes: that a grammar read back gives what was written, or that sorting puts values in
the order of their indices.

## 5. Not modelled

Deflate, text decoding and number formats are external or value-level: the models say which of their
outcomes occurs and let it be any. Wording and allocation are left out, and positions in errors except
where one is the reader's own count. Print and write formats (`sav_format*.rs`) are carried from
the dictionary to the schema and decide nothing. A timestamp's parts parse or do not; its calendar
is not checked by the code either. The builders of public value types (headers, records, variables, errors) are
plain data, modelled as the records they build where a property looks at them. Lengths that do not fit a
`usize` are left out: on the 64-bit targets a product of two 32-bit numbers always does.

## 6. What could come next

1. The composition of header, dictionary, layout and rows over one file. Today the parts meet in assumptions that the theorems
   of another part justify: the layout `Cells` assumes is the one `DataLayout` builds, and the first row `SavHeader` stands at is
   where the row source begins. That the row length the layout tiles is what the row source fills is said nowhere.
2. `WrittenComesBack`, one grammar at a time. For long strings what is proved is that the payload is what the items are written as; that another
   content is never written as the same bytes is what is missing, and needs that a width never stands by chance where a value begins.
