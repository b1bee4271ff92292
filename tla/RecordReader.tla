------------------------------- MODULE RecordReader -------------------------------
(* RecordReader: the calls of a caller that pulls rows (read_record,             *)
(* read_lazy_record and skip_record all are advance_row), over RowSource.  A     *)
(* call clears the warnings and fills one row; the compressed schemes share the  *)
(* BytecodeDecoder, an uncompressed row is one read.  One action is one step of  *)
(* the filling loop, so that an error can end a call between any two of them.    *)
EXTENDS BytecodeDecoder, Integers

CONSTANTS
  CountMax,     \* u64::MAX, where the count of rows saturates
  Schemes,      \* the compression schemes the headers of the model declare
  RowLens,      \* the row lengths their dictionaries add up to
  CaseCounts,   \* the case counts they declare, NoCount among them
  Earlier,      \* the warnings finishing the dictionary raises: layout's and schema's
  Inherited,    \* what it may have left in the state the reader takes over
  PayloadUnits  \* bound: the contents of payload units, which no step looks at

NoCount == -1   \* the header's way of not declaring a count

ASSUME CountMaxAssumption == CountMax \in Nat
ASSUME SchemesAssumption == Schemes \subseteq {"None", "Bytecode", "Zlib"}
ASSUME RowLensAssumption == RowLens \subseteq Nat
ASSUME CaseCountsAssumption == CaseCounts \subseteq Nat \cup {NoCount}
ASSUME PayloadUnitsAssumption == PayloadUnits \subseteq Unit
ASSUME InheritedAssumption == Inherited \subseteq Seq(Earlier)

VARIABLES
  scheme,     \* the header's compression: a constant of the file
  declared,   \* DataLayout::case_count: a constant of the file
  pc,         \* "idle" between calls, "filling" within fill_row's loop
  rowsRead,   \* rows handed out, for the check against declared
  warnings,   \* the state's warnings: the last call's, or the transition's
  outcome,    \* what the last call returned
  handed,     \* history: the units of every row handed out
  failure     \* history: the first error a call returned

fileVars == <<rowLen, scheme, declared>>
vars == <<fileVars, sourceVars, decoderVars, row,
          pc, rowsRead, warnings, outcome, handed, failure>>

Outcomes == {"none", "row", "end", "failed"}
Failures == {"none", "truncated", "torn", "source", "encode"}
Warnings == {"EndOfDataInsideRow", "RowCountMismatch"}

ASSUME EarlierAssumption == Earlier \cap Warnings = {}   \* no row is read by then

FileTypeOK ==
  /\ rowLen \in RowLens
  /\ scheme \in Schemes
  /\ declared \in CaseCounts

CallTypeOK ==
  /\ pc \in {"idle", "filling"}
  /\ rowsRead \in 0..CountMax
  /\ warnings \in Seq(Warnings \cup Earlier)
  /\ outcome \in Outcomes
  /\ handed \in Seq(Cell)
  /\ failure \in Failures

TypeOK == FileTypeOK /\ SourceTypeOK /\ DecoderTypeOK /\ CallTypeOK

Init ==
  /\ SourceInit
  /\ DecoderInit
  /\ row = << >>
  /\ rowLen \in RowLens
  /\ scheme \in Schemes
  /\ declared \in CaseCounts
  /\ pc = "idle"
  /\ rowsRead = 0
  /\ warnings \in Inherited        \* RecordReader::new clears nothing
  /\ outcome = "none"
  /\ handed = << >>
  /\ failure = "none"

-----------------------------------------------------------------------------------
(* How a call returns *)

(* Mutant: the count wraps past its width instead of saturating. *)
CountedUnchecked(n) == n + 1

Counted(n) == IF n < CountMax THEN n + 1 ELSE n   \* saturating_add(1)

ReturnRow(filled) ==
  /\ pc' = "idle"
  /\ outcome' = "row"
  /\ rowsRead' = Counted(rowsRead)
  /\ handed' = handed \o filled
  /\ UNCHANGED failure

(* Mutant: only missing rows are reported, not rows beyond the declared count. *)
CountWarningWhenShort ==
  IF declared # NoCount /\ declared > rowsRead THEN <<"RowCountMismatch">> ELSE << >>

(* check_row_count, at every Ok(false) *)
CountWarning ==
  IF declared # NoCount /\ declared # rowsRead THEN <<"RowCountMismatch">> ELSE << >>

ReturnEnd(pushed) ==
  /\ pc' = "idle"
  /\ outcome' = "end"
  /\ warnings' = pushed \o CountWarning
  /\ UNCHANGED <<rowsRead, handed, failure>>

ReturnError(kind) ==
  /\ pc' = "idle"
  /\ outcome' = "failed"
  /\ failure' = IF failure = "none" THEN kind ELSE failure
  /\ UNCHANGED <<rowsRead, handed>>

Continue == UNCHANGED <<pc, rowsRead, warnings, outcome, handed, failure>>

(* The error a failed next_unit left: a torn unit is what exhausts the source. *)
SourceError == IF exhausted' THEN "torn" ELSE "source"

-----------------------------------------------------------------------------------
(* advance_row over a compressed section *)

Compressed == scheme # "None"

(* Mutant: a call leaves what was there before it. *)
BeginRowKeeping ==
  /\ pc = "idle"
  /\ Compressed
  /\ ~finished
  /\ pc' = "filling"
  /\ row' = << >>
  /\ UNCHANGED <<fileVars, sourceVars, decoderVars, rowsRead, warnings, outcome, handed, failure>>

(* Mutant: a row boundary is taken for a group boundary. *)
BeginRowWithNewGroup ==
  /\ pc = "idle"
  /\ Compressed
  /\ ~finished
  /\ pc' = "filling"
  /\ warnings' = << >>
  /\ row' = << >>
  /\ consumed' = GroupLen
  /\ UNCHANGED <<fileVars, sourceVars, group, finished, rowsRead, outcome, handed, failure>>

BeginRow ==
  /\ pc = "idle"
  /\ Compressed
  /\ ~finished
  /\ pc' = "filling"
  /\ warnings' = << >>
  /\ row' = << >>
  /\ UNCHANGED <<fileVars, sourceVars, decoderVars, rowsRead, outcome, handed, failure>>

CallPastEnd ==
  /\ pc = "idle"
  /\ Compressed
  /\ finished
  /\ row' = << >>
  /\ ReturnEnd(<< >>)
  /\ UNCHANGED <<fileVars, sourceVars, decoderVars>>

Step(action) == pc = "filling" /\ action /\ UNCHANGED fileVars

Group     == Step((\E unit \in Unit: FetchGroup(unit)) /\ Continue)
SkipPad   == Step(RunPadding /\ Continue)
PutValue  == Step(RunLiteral /\ Continue)
PutUnit   == Step((\E unit \in PayloadUnits: RunVerbatim(unit)) /\ Continue)

FinishRow ==
  Step(/\ RowFull
       /\ ReturnRow(row)
       /\ UNCHANGED <<sourceVars, decoderVars, row, warnings>>)

(* Mutant: a source that has nothing left is asked again. *)
StreamEndsRetrying ==
  Step(NeedGroup /\ NoUnit /\ UNCHANGED <<decoderVars, row>> /\ Continue)

StreamEnds ==
  Step(/\ FetchNothing
       /\ IF row = << >> THEN ReturnEnd(warnings)
                         ELSE ReturnError("truncated") /\ UNCHANGED warnings)

(* Mutant: a row the marker cuts short is dropped without a word. *)
MarkerEndsSilently == Step(RunEndOfData /\ ReturnEnd(warnings))

MarkerEnds ==
  Step(/\ RunEndOfData
       /\ ReturnEnd(IF row = << >> THEN warnings
                                   ELSE Append(warnings, "EndOfDataInsideRow")))

PayloadMissing == Step(VerbatimNothing /\ ReturnError("truncated") /\ UNCHANGED warnings)
GroupFails     == Step(FetchFails /\ ReturnError(SourceError) /\ UNCHANGED warnings)
PayloadFails   == Step(VerbatimFails /\ ReturnError(SourceError) /\ UNCHANGED warnings)
ValueFails     == Step(EncodeFails /\ ReturnError("encode") /\ UNCHANGED warnings)

-----------------------------------------------------------------------------------
(* advance_row over an uncompressed section: read_into fills the row at once, and *)
(* an empty buffer is filled with nothing, which is the end.                      *)

Call(action) ==
  pc = "idle" /\ ~Compressed /\ action /\ UNCHANGED <<fileVars, decoderVars>>

(* An uncompressed row is never looked at as commands: any unit stands for its.   *)
PlainUnit == [i \in 1..GroupLen |-> Padding]

PlainRow ==
  Call(/\ ~exhausted
       /\ rowLen > 0
       /\ Len(taken) + rowLen <= MaxUnits
       /\ taken' = taken \o [i \in 1..rowLen |-> PlainUnit]
       /\ row' = [i \in 1..rowLen |-> Payload(Len(taken) + i)]
       /\ warnings' = << >>
       /\ ReturnRow(row')
       /\ UNCHANGED exhausted)

PlainEnd ==
  Call(/\ IF rowLen > 0 THEN NoUnit ELSE UNCHANGED sourceVars
       /\ ReturnEnd(<< >>)
       /\ UNCHANGED row)

PlainFails ==
  Call(/\ rowLen > 0
       /\ TornUnit \/ SourceFails
       /\ ReturnError(SourceError)
       /\ warnings' = << >>
       /\ UNCHANGED row)

-----------------------------------------------------------------------------------
Calls == BeginRow \/ CallPastEnd \/ PlainRow \/ PlainEnd \/ PlainFails

Steps ==
  \/ Group \/ SkipPad \/ PutValue \/ PutUnit
  \/ FinishRow \/ StreamEnds \/ MarkerEnds
  \/ PayloadMissing \/ GroupFails \/ PayloadFails \/ ValueFails

Next == Calls \/ Steps

Spec == Init /\ [][Next]_vars

(* The caller goes on reading and a call runs to its end: the reader is pulled by *)
(* one thread, and nothing else can hold it up.                                   *)
FairSpec == Spec /\ WF_vars(Next)

-----------------------------------------------------------------------------------
(* Properties *)

(* The reader keeps the contract its callers see: whole rows, one after the other, *)
(* and no row, error or reading after the end (record_reader.rs, read_record).     *)
Contract == INSTANCE RowContract
ImplementsContract == Contract!Spec

(* The end is final: a call after it reads nothing from the file and hands out     *)
(* nothing, under every scheme (bytecode_decoder.rs: finished; for an uncompressed *)
(* section the file's own end).                                                    *)
EndIsFinal ==
  [][outcome = "end" => outcome' = "end" /\ UNCHANGED <<taken, handed, rowsRead>>]_vars

(* From the first call on, the warnings a caller finds between calls are the last  *)
(* call's own: nothing the transition left in the state outlives it, a row or an   *)
(* error leaves none, and the end reports each thing once however often it is      *)
(* asked (record_reader.rs, advance_row and warnings).                             *)
WarningsAreOfThisCall ==
  pc = "idle" /\ outcome # "none" =>
    /\ outcome # "end" => warnings = << >>
    /\ \A i, j \in DOMAIN warnings:
         /\ warnings[i] \in Warnings
         /\ warnings[i] = warnings[j] => i = j

(* At the end the count mismatch is reported exactly when the rows that were       *)
(* handed out, measured by their data, are not as many as the file declared.       *)
CountMatchesData ==
  outcome = "end" /\ pc = "idle" /\ rowLen > 0 =>
    \/ rowsRead = CountMax
    \/ (\E i \in DOMAIN warnings: warnings[i] = "RowCountMismatch")
         <=> declared # NoCount /\ declared * rowLen # Len(handed)

(* A caller that reads until the end or the first error gets there, as read_record *)
(* is documented: it "Returns `None` at the end of the data section".  Does not     *)
(* hold of rows without a variable.                                                *)
ReadingStops == <>(outcome \in {"end", "failed"})

(* Rows that hold a unit run out: the padding, the groups and the rows of a finite *)
(* file come to an end or an error (row_source.rs, next_row).                      *)
RowsRunOut == rowLen > 0 => ReadingStops

===================================================================================
