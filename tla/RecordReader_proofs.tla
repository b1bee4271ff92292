---------------------------- MODULE RecordReader_proofs ---------------------------
(* The record reader keeps its types, its end is final, its rows are the units    *)
(* of the stream in order, what is left over is reported, and it implements the    *)
(* contract of RowContract: for every group length, every row length, every file *)
(* size and every scheme, with errors at any step.                               *)
EXTENDS RowReference, SequenceLemmas, SequenceTheorems, TLAPS

(* What holds at every step: a row is filled only while the stream is open, never *)
(* beyond its length, and an end was returned only where the stream is over.     *)
StreamOver == IF Compressed THEN finished ELSE exhausted \/ rowLen = 0

ReaderInv ==
  /\ TypeOK
  /\ pc = "filling" => Compressed /\ ~finished /\ outcome # "end" /\ Len(row) <= rowLen
  /\ outcome = "end" => StreamOver

-----------------------------------------------------------------------------------
LEMMA UnitsAreCommands ==
  ASSUME NEW unit \in Unit, NEW i \in 1..GroupLen
  PROVE  unit[i] \in Command
BY DEF Unit

(* The groups a decoder starts from and a plain row is made of. *)
LEMMA PaddingUnit == [i \in 1..GroupLen |-> Padding] \in Unit
BY DEF Unit, Command

LEMMA CellsHaveType ==
  /\ \A command \in Command: Literal(command) \in Cell
  /\ \A n \in Nat: Payload(n) \in Cell
BY DEF Literal, Payload, Cell, Command

(* A row handed out follows the rows before it. *)
LEMMA HandedGrows ==
  ASSUME NEW S, NEW h \in Seq(S), NEW r \in Seq(S)
  PROVE  /\ h \o r \in Seq(S)
         /\ Len(h \o r) = Len(h) + Len(r)
         /\ SubSeq(h \o r, 1, Len(h)) = h
OBVIOUS

LEMMA CountStays ==
  ASSUME NEW n \in 0..CountMax
  PROVE  Counted(n) \in 0..CountMax
BY CountMaxAssumption DEF Counted

(* The inductive invariant holds at first. *)
LEMMA InitReaderInv == Init => ReaderInv
<1> SUFFICES ASSUME Init PROVE ReaderInv
  OBVIOUS
<1> USE GroupLenAssumption, MaxUnitsAssumption, CountMaxAssumption
<1>1. SourceTypeOK
  <2>1. taken \in Seq(Unit) /\ Len(taken) = 0
    BY DEF Init, SourceInit
  <2>2. Len(taken) <= MaxUnits
    BY <2>1
  <2>3. exhausted \in BOOLEAN
    BY DEF Init, SourceInit
  <2> QED
    BY <2>1, <2>2, <2>3 DEF SourceTypeOK
<1>2. DecoderTypeOK
  <2>1. consumed \in 0..GroupLen
    BY DEF Init, DecoderInit
  <2>2. group \in Unit /\ row \in Seq(Cell)
    BY PaddingUnit DEF Init, DecoderInit
  <2> QED
    BY <2>1, <2>2 DEF Init, DecoderInit, DecoderTypeOK
<1>3. FileTypeOK
  BY DEF Init, FileTypeOK
<1>4. CallTypeOK
  <2>1. rowsRead \in 0..CountMax
    BY DEF Init
  <2>2. warnings \in Seq(Warnings \cup Earlier)
    <3>1. warnings \in Seq(Earlier)
      BY InheritedAssumption DEF Init
    <3> QED
      BY <3>1
  <2> QED
    BY <2>1, <2>2 DEF Init, CallTypeOK, Outcomes, Failures
<1>5. TypeOK
  BY <1>1, <1>2, <1>3, <1>4 DEF TypeOK
<1> QED
  BY <1>5 DEF Init, ReaderInv, SourceInit

-----------------------------------------------------------------------------------
(* Types, one part of the state at a time *)

LEMMA FileTypeStays == FileTypeOK /\ UNCHANGED fileVars => FileTypeOK'
BY DEF FileTypeOK, fileVars

LEMMA SourceTypeStays ==
  ASSUME SourceTypeOK,
         \/ \E unit \in Unit: NextUnit(unit)
         \/ NoUnit \/ TornUnit \/ SourceFails
         \/ UNCHANGED sourceVars
  PROVE  SourceTypeOK'
<1>1. CASE \E unit \in Unit: NextUnit(unit)
  <2> PICK unit \in Unit: NextUnit(unit)
    BY <1>1
  <2>1. Len(taken') = Len(taken) + 1 /\ taken' \in Seq(Unit)
    BY DEF SourceTypeOK, NextUnit
  <2>2. Len(taken') <= MaxUnits
    BY <2>1, MaxUnitsAssumption DEF SourceTypeOK, NextUnit
  <2>3. exhausted' \in BOOLEAN
    BY DEF SourceTypeOK, NextUnit
  <2> QED
    BY <2>1, <2>2, <2>3 DEF SourceTypeOK
<1>2. CASE NoUnit
  BY <1>2 DEF NoUnit, SourceTypeOK
<1>3. CASE TornUnit
  BY <1>3 DEF TornUnit, SourceTypeOK
<1>4. CASE SourceFails \/ UNCHANGED sourceVars
  BY <1>4 DEF SourceFails, SourceTypeOK, sourceVars
<1> QED
  BY <1>1, <1>2, <1>3, <1>4

LEMMA ReturnRowType ==
  ASSUME CallTypeOK, NEW filled \in Seq(Cell), ReturnRow(filled),
         warnings' \in Seq(Warnings \cup Earlier)
  PROVE  CallTypeOK'
<1>1. rowsRead' \in 0..CountMax
  BY CountStays DEF CallTypeOK, ReturnRow
<1>2. handed' \in Seq(Cell)
  BY HandedGrows DEF CallTypeOK, ReturnRow
<1> QED
  BY <1>1, <1>2 DEF CallTypeOK, ReturnRow, Outcomes

LEMMA ReturnEndType ==
  ASSUME CallTypeOK, NEW pushed \in Seq(Warnings \cup Earlier), ReturnEnd(pushed)
  PROVE  CallTypeOK'
<1>1. CountWarning \in Seq(Warnings \cup Earlier)
  <2>1. <<"RowCountMismatch">> \in Seq(Warnings \cup Earlier) /\ << >> \in Seq(Warnings \cup Earlier)
    BY DEF Warnings
  <2> QED
    BY <2>1 DEF CountWarning
<1> QED
  BY <1>1 DEF CallTypeOK, ReturnEnd, Outcomes

LEMMA ReturnErrorType ==
  ASSUME CallTypeOK, NEW kind \in Failures, ReturnError(kind), warnings' \in Seq(Warnings \cup Earlier)
  PROVE  CallTypeOK'
BY DEF CallTypeOK, ReturnError, Outcomes

LEMMA ContinueType == CallTypeOK /\ Continue => CallTypeOK'
BY DEF CallTypeOK, Continue

LEMMA SourceErrorType == SourceError \in Failures
BY DEF SourceError, Failures

-----------------------------------------------------------------------------------
(* The decoder's own steps *)

LEMMA RunType ==
  ASSUME DecoderTypeOK, NEW command \in Command, Runs(command),
         finished' \in BOOLEAN, row' \in Seq(Cell)
  PROVE  DecoderTypeOK'
<1>1. consumed' \in 0..GroupLen
  BY GroupLenAssumption DEF DecoderTypeOK, Runs
<1>2. group' \in Unit
  BY DEF DecoderTypeOK, Runs
<1> QED
  BY <1>1, <1>2 DEF DecoderTypeOK

LEMMA FetchType ==
  ASSUME DecoderTypeOK, NEW unit \in Unit, FetchGroup(unit)
  PROVE  DecoderTypeOK'
<1>1. consumed' \in 0..GroupLen
  BY GroupLenAssumption DEF FetchGroup
<1> QED
  BY <1>1 DEF DecoderTypeOK, FetchGroup

LEMMA DecoderTypeStays ==
  DecoderTypeOK /\ UNCHANGED <<decoderVars, row>> => DecoderTypeOK'
BY DEF DecoderTypeOK, decoderVars

-----------------------------------------------------------------------------------
(* The steps *)

LEMMA ErrorKeepsInv ==
  ASSUME ReaderInv, UNCHANGED fileVars, SourceTypeOK', DecoderTypeOK',
         NEW kind \in Failures, ReturnError(kind), warnings' \in Seq(Warnings \cup Earlier)
  PROVE  ReaderInv'
<1>1. TypeOK'
  BY FileTypeStays, ReturnErrorType DEF ReaderInv, TypeOK
<1> QED
  BY <1>1 DEF ReaderInv, ReturnError

LEMMA EndKeepsInv ==
  ASSUME ReaderInv, UNCHANGED fileVars, SourceTypeOK', DecoderTypeOK',
         NEW pushed \in Seq(Warnings \cup Earlier), ReturnEnd(pushed), StreamOver'
  PROVE  ReaderInv'
<1>1. TypeOK'
  BY FileTypeStays, ReturnEndType DEF ReaderInv, TypeOK
<1> QED
  BY <1>1 DEF ReaderInv, ReturnEnd

LEMMA FillingKeepsInv ==
  ASSUME ReaderInv, UNCHANGED fileVars, SourceTypeOK', DecoderTypeOK', Continue,
         pc = "filling", ~finished', Len(row') <= rowLen
  PROVE  ReaderInv'
<1>1. TypeOK'
  BY FileTypeStays, ContinueType DEF ReaderInv, TypeOK
<1> QED
  BY <1>1 DEF ReaderInv, Continue, Compressed, fileVars

(* Every step preserves it: one step of the proof per action. *)
LEMMA StepReaderInv == ReaderInv /\ [Next]_vars => ReaderInv'
<1> SUFFICES ASSUME ReaderInv, [Next]_vars PROVE ReaderInv'
  OBVIOUS
<1> USE DEF ReaderInv
<1>t. /\ FileTypeOK /\ SourceTypeOK /\ DecoderTypeOK /\ CallTypeOK
      /\ rowLen \in Nat
      /\ Len(row) \in Nat
  BY RowLensAssumption DEF TypeOK, FileTypeOK, DecoderTypeOK
<1>1. CASE BeginRow
  <2>1. SourceTypeOK' /\ FileTypeOK'
    BY <1>1, <1>t, SourceTypeStays, FileTypeStays DEF BeginRow
  <2>2. DecoderTypeOK'
    BY <1>1, <1>t DEF BeginRow, DecoderTypeOK, decoderVars
  <2>3. CallTypeOK'
    BY <1>1, <1>t DEF BeginRow, CallTypeOK
  <2>4. Len(row') <= rowLen'
    BY <1>1, <1>t DEF BeginRow, fileVars
  <2>5. outcome # "end"
    BY <1>1 DEF BeginRow, StreamOver
  <2> QED
    BY <1>1, <2>1, <2>2, <2>3, <2>4, <2>5
    DEF BeginRow, TypeOK, Compressed, fileVars, decoderVars
<1>2. CASE CallPastEnd
  <2>1. SourceTypeOK' /\ << >> \in Seq(Warnings \cup Earlier)
    BY <1>2, <1>t, SourceTypeStays DEF CallPastEnd
  <2>2. DecoderTypeOK'
    BY <1>2, <1>t DEF CallPastEnd, DecoderTypeOK, decoderVars
  <2>3. StreamOver'
    BY <1>2 DEF CallPastEnd, StreamOver, Compressed, fileVars, decoderVars
  <2> QED
    BY <1>2, <2>1, <2>2, <2>3, EndKeepsInv DEF CallPastEnd
<1>3. CASE PlainRow
  <2> DEFINE filled == [i \in 1..rowLen |-> Payload(Len(taken) + i)]
             read == [i \in 1..rowLen |-> PlainUnit]
  <2>1. Len(taken) \in Nat /\ taken \in Seq(Unit)
    BY <1>t DEF SourceTypeOK
  <2>2. \A i \in 1..rowLen: Payload(Len(taken) + i) \in Cell
    BY <2>1, <1>t, CellsHaveType
  <2>3. filled \in Seq(Cell)
    <3> HIDE DEF Payload, Cell
    <3> QED BY <2>2, <1>t
  <2>4. read \in Seq(Unit) /\ Len(read) = rowLen
    <3>1. PlainUnit \in Unit
      BY PaddingUnit DEF PlainUnit
    <3> HIDE DEF PlainUnit, Unit
    <3> QED BY <3>1, <1>t
  <2> HIDE DEF filled, read
  <2>5. SourceTypeOK'
    <3>1. taken' = taken \o read /\ exhausted' = exhausted
          /\ Len(taken) + rowLen <= MaxUnits
      BY <1>3 DEF PlainRow, Call, read
    <3>2. taken' \in Seq(Unit) /\ Len(taken') = Len(taken) + rowLen
      BY <3>1, <2>1, <2>4, HandedGrows
    <3>3. Len(taken') <= MaxUnits
      BY <3>1, <3>2
    <3>4. exhausted' \in BOOLEAN
      BY <3>1, <1>t DEF SourceTypeOK
    <3> QED
      BY <3>2, <3>3, <3>4 DEF SourceTypeOK
  <2>6. row' = filled /\ ReturnRow(filled) /\ warnings' = << >>
        /\ UNCHANGED <<fileVars, decoderVars>>
    BY <1>3 DEF PlainRow, Call, filled
  <2>7. DecoderTypeOK'
    BY <2>3, <2>6, <1>t DEF DecoderTypeOK, decoderVars
  <2>8. CallTypeOK'
    <3>1. warnings' \in Seq(Warnings \cup Earlier)
      BY <2>6
    <3> QED
      BY <3>1, <2>3, <2>6, <1>t, ReturnRowType
  <2>9. FileTypeOK'
    BY <2>6, <1>t, FileTypeStays
  <2> QED
    BY <2>5, <2>6, <2>7, <2>8, <2>9 DEF TypeOK, ReturnRow
<1>4. CASE PlainEnd
  <2>1. SourceTypeOK'
    BY <1>4, <1>t, SourceTypeStays DEF PlainEnd, Call
  <2>2. DecoderTypeOK' /\ << >> \in Seq(Warnings \cup Earlier)
    BY <1>4, <1>t, DecoderTypeStays DEF PlainEnd, Call
  <2>3. StreamOver'
    BY <1>4, <1>t DEF PlainEnd, Call, StreamOver, Compressed, fileVars, NoUnit
  <2> QED
    BY <1>4, <2>1, <2>2, <2>3, EndKeepsInv DEF PlainEnd, Call
<1>5. CASE PlainFails
  <2>1. SourceTypeOK'
    BY <1>5, <1>t, SourceTypeStays DEF PlainFails, Call
  <2>2. DecoderTypeOK' /\ warnings' \in Seq(Warnings \cup Earlier)
    BY <1>5, <1>t, DecoderTypeStays DEF PlainFails, Call
  <2> QED
    BY <1>5, <2>1, <2>2, SourceErrorType, ErrorKeepsInv DEF PlainFails, Call
<1>6. CASE Group
  <2> PICK unit \in Unit: FetchGroup(unit)
    BY <1>6 DEF Group, Step
  <2>1. SourceTypeOK'
    BY <1>t, SourceTypeStays DEF FetchGroup
  <2>2. DecoderTypeOK'
    BY <1>t, FetchType
  <2> QED
    BY <1>6, <2>1, <2>2, FillingKeepsInv DEF Group, Step, FetchGroup
<1>7. CASE SkipPad
  <2>1. SourceTypeOK'
    BY <1>7, <1>t, SourceTypeStays DEF SkipPad, Step, RunPadding
  <2>2. DecoderTypeOK'
    BY <1>7, <1>t, RunType DEF SkipPad, Step, RunPadding, Command, DecoderTypeOK
  <2> QED
    BY <1>7, <2>1, <2>2, FillingKeepsInv DEF SkipPad, Step, RunPadding
<1>8. CASE PutValue
  <2> PICK command \in {AllSpaces, SystemMissing} \cup (InlineCodes \ Unencodable):
        /\ Runs(command)
        /\ row' = Append(row, Literal(command))
        /\ UNCHANGED <<finished, sourceVars>>
    BY <1>8 DEF PutValue, Step, RunLiteral
  <2>1. SourceTypeOK'
    BY <1>t, SourceTypeStays
  <2>2. command \in Command
    BY DEF Command
  <2>3. Literal(command) \in Cell
    BY <2>2, CellsHaveType
  <2>4. row' \in Seq(Cell) /\ Len(row') = Len(row) + 1
    BY <2>3, <1>t DEF DecoderTypeOK
  <2>5. DecoderTypeOK'
    BY <2>2, <2>4, <1>t, RunType DEF DecoderTypeOK
  <2>6. Len(row') <= rowLen
    BY <2>4, <1>t DEF Runs, RowFull
  <2> QED
    BY <1>8, <2>1, <2>5, <2>6, FillingKeepsInv DEF PutValue, Step
<1>9. CASE PutUnit
  <2> PICK unit \in PayloadUnits: RunVerbatim(unit)
    BY <1>9 DEF PutUnit, Step
  <2>1. SourceTypeOK'
    BY <1>t, SourceTypeStays, PayloadUnitsAssumption DEF RunVerbatim
  <2>2. Payload(Len(taken) + 1) \in Cell /\ Verbatim \in Command
    BY <1>t, CellsHaveType DEF SourceTypeOK, Command
  <2>3. row' \in Seq(Cell) /\ Len(row') = Len(row) + 1
    BY <2>2, <1>t DEF DecoderTypeOK, RunVerbatim
  <2>4. DecoderTypeOK'
    BY <2>2, <2>3, <1>t, RunType DEF DecoderTypeOK, RunVerbatim
  <2>5. Len(row') <= rowLen
    BY <2>3, <1>t DEF RunVerbatim, Runs, RowFull
  <2> QED
    BY <1>9, <2>1, <2>4, <2>5, FillingKeepsInv DEF PutUnit, Step, RunVerbatim
<1>10. CASE FinishRow
  <2>1. SourceTypeOK' /\ FileTypeOK' /\ DecoderTypeOK'
    BY <1>10, <1>t, SourceTypeStays, FileTypeStays, DecoderTypeStays DEF FinishRow, Step
  <2>2. CallTypeOK'
    BY <1>10, <1>t, ReturnRowType DEF FinishRow, Step, DecoderTypeOK, CallTypeOK
  <2> QED
    BY <1>10, <2>1, <2>2 DEF FinishRow, Step, TypeOK, ReturnRow
<1>11. CASE StreamEnds
  <2>1. SourceTypeOK'
    BY <1>11, <1>t, SourceTypeStays DEF StreamEnds, Step, FetchNothing
  <2>2. DecoderTypeOK' /\ StreamOver' /\ warnings \in Seq(Warnings \cup Earlier)
    BY <1>11, <1>t
    DEF StreamEnds, Step, FetchNothing, DecoderTypeOK, StreamOver, Compressed, fileVars,
        CallTypeOK
  <2>3. CASE row = << >>
    BY <1>11, <2>1, <2>2, <2>3, EndKeepsInv DEF StreamEnds, Step
  <2>4. CASE row # << >>
    BY <1>11, <2>1, <2>2, <2>4, ErrorKeepsInv DEF StreamEnds, Step, Failures
  <2> QED
    BY <2>3, <2>4
<1>12. CASE MarkerEnds
  <2> DEFINE pushed == IF row = << >> THEN warnings
                                      ELSE Append(warnings, "EndOfDataInsideRow")
  <2>1. SourceTypeOK'
    BY <1>12, <1>t, SourceTypeStays DEF MarkerEnds, Step, RunEndOfData
  <2>2. DecoderTypeOK'
    BY <1>12, <1>t, RunType
    DEF MarkerEnds, Step, RunEndOfData, Command, DecoderTypeOK
  <2>3. StreamOver'
    BY <1>12 DEF MarkerEnds, Step, RunEndOfData, StreamOver, Compressed, fileVars
  <2>4. pushed \in Seq(Warnings \cup Earlier)
    BY <1>t DEF CallTypeOK, Warnings
  <2> QED
    BY <1>12, <2>1, <2>2, <2>3, <2>4, EndKeepsInv DEF MarkerEnds, Step
<1>13. CASE PayloadMissing
  <2>1. SourceTypeOK'
    BY <1>13, <1>t, SourceTypeStays DEF PayloadMissing, Step, VerbatimNothing
  <2>2. DecoderTypeOK'
    BY <1>13, <1>t, RunType
    DEF PayloadMissing, Step, VerbatimNothing, Command, DecoderTypeOK
  <2> QED
    BY <1>13, <1>t, <2>1, <2>2, ErrorKeepsInv DEF PayloadMissing, Step, Failures, CallTypeOK
<1>14. CASE GroupFails
  <2>1. SourceTypeOK'
    BY <1>14, <1>t, SourceTypeStays DEF GroupFails, Step, FetchFails
  <2>2. DecoderTypeOK'
    BY <1>14, <1>t DEF GroupFails, Step, FetchFails, DecoderTypeOK
  <2> QED
    BY <1>14, <1>t, <2>1, <2>2, SourceErrorType, ErrorKeepsInv
    DEF GroupFails, Step, CallTypeOK
<1>15. CASE PayloadFails
  <2>1. SourceTypeOK'
    BY <1>15, <1>t, SourceTypeStays DEF PayloadFails, Step, VerbatimFails
  <2>2. DecoderTypeOK'
    BY <1>15, <1>t, RunType
    DEF PayloadFails, Step, VerbatimFails, Command, DecoderTypeOK
  <2> QED
    BY <1>15, <1>t, <2>1, <2>2, SourceErrorType, ErrorKeepsInv
    DEF PayloadFails, Step, CallTypeOK
<1>16. CASE ValueFails
  <2>1. SourceTypeOK'
    BY <1>16, <1>t, SourceTypeStays DEF ValueFails, Step, EncodeFails
  <2>2. DecoderTypeOK'
    BY <1>16, <1>t, RunType, UnencodableAssumption
    DEF ValueFails, Step, EncodeFails, Command, DecoderTypeOK
  <2> QED
    BY <1>16, <1>t, <2>1, <2>2, ErrorKeepsInv
    DEF ValueFails, Step, CallTypeOK, Failures
<1>17. CASE UNCHANGED vars
  <2>1. SourceTypeOK' /\ FileTypeOK' /\ DecoderTypeOK'
    BY <1>17, <1>t, SourceTypeStays, FileTypeStays, DecoderTypeStays DEF vars
  <2>2. CallTypeOK'
    BY <1>17, <1>t DEF CallTypeOK, vars
  <2> QED
    BY <1>17, <2>1, <2>2
    DEF vars, TypeOK, StreamOver, Compressed, fileVars, sourceVars, decoderVars
<1> QED
  BY <1>1, <1>2, <1>3, <1>4, <1>5, <1>6, <1>7, <1>8, <1>9, <1>10, <1>11, <1>12,
     <1>13, <1>14, <1>15, <1>16, <1>17 DEF Next, Calls, Steps

(* The state of a reader is always of its type: no index leaves the group, the row *)
(* or the counter (bytecode_decoder.rs, fill_row and next_command).                *)
THEOREM ReaderTypeOK == Spec => []TypeOK
<1>1. ReaderInv => TypeOK
  BY DEF ReaderInv
<1> QED
  BY <1>1, InitReaderInv, StepReaderInv, PTL DEF Spec

-----------------------------------------------------------------------------------
(* The contract *)

LEMMA EndStepFinal ==
  ASSUME ReaderInv, [Next]_vars, outcome = "end"
  PROVE  outcome' = "end" /\ UNCHANGED <<taken, handed, rowsRead>>
<1>1. pc # "filling" /\ StreamOver
  BY DEF ReaderInv
<1>2. ~Steps
  BY <1>1 DEF Steps, Group, SkipPad, PutValue, PutUnit, FinishRow, StreamEnds, MarkerEnds,
              PayloadMissing, GroupFails, PayloadFails, ValueFails, Step
<1>3. ~BeginRow
  BY <1>1 DEF BeginRow, StreamOver
<1>4. ~PlainRow /\ ~PlainFails
  BY <1>1 DEF PlainRow, PlainFails, Call, StreamOver, TornUnit, SourceFails
<1>5. CASE CallPastEnd
  BY <1>5 DEF CallPastEnd, ReturnEnd, sourceVars
<1>6. CASE PlainEnd
  BY <1>6 DEF PlainEnd, Call, ReturnEnd, NoUnit, sourceVars
<1>7. CASE UNCHANGED vars
  BY <1>7 DEF vars, sourceVars
<1> QED
  BY <1>2, <1>3, <1>4, <1>5, <1>6, <1>7 DEF Next, Calls

(* Once a call has returned the end, no later call reads, hands out or fails.      *)
THEOREM ReaderEndIsFinal == Spec => EndIsFinal
<1>1. ReaderInv /\ [Next]_vars
        => [outcome = "end" => outcome' = "end" /\ UNCHANGED <<taken, handed, rowsRead>>]_vars
  BY EndStepFinal
<1> QED
  BY <1>1, InitReaderInv, StepReaderInv, PTL DEF Spec, EndIsFinal

LEMMA RowKeepsContract ==
  ASSUME CallTypeOK, NEW filled \in Seq(Cell), Len(filled) = rowLen, UNCHANGED fileVars,
         outcome # "end", ReturnRow(filled)
  PROVE  Contract!Next
<1>1. handed \in Seq(Cell)
  BY DEF CallTypeOK
<1>2. Len(handed') = Len(handed) + rowLen /\ SubSeq(handed', 1, Len(handed)) = handed
  BY <1>1, HandedGrows DEF ReturnRow
<1> QED
  BY <1>2 DEF ReturnRow, Contract!Next, Contract!HandRow, Contract!Counted, Counted, fileVars

LEMMA EndKeepsContract ==
  ASSUME NEW pushed, UNCHANGED fileVars, ReturnEnd(pushed)
  PROVE  Contract!Next
BY DEF ReturnEnd, Contract!Next, Contract!End, fileVars

LEMMA ErrorKeepsContract ==
  ASSUME NEW kind, UNCHANGED fileVars, ReturnError(kind), outcome # "end"
  PROVE  Contract!Next
BY DEF ReturnError, Contract!Next, Contract!Fail, fileVars

LEMMA ContinueKeepsContract ==
  ASSUME UNCHANGED <<fileVars, rowsRead, outcome, handed>>
  PROVE  UNCHANGED Contract!vars
BY DEF Contract!vars, fileVars

LEMMA StepKeepsContract ==
  ASSUME ReaderInv, [Next]_vars
  PROVE  [Contract!Next]_(Contract!vars)
<1>t. CallTypeOK /\ DecoderTypeOK /\ rowLen \in Nat /\ Len(row) \in Nat /\ Len(taken) \in Nat
  BY RowLensAssumption DEF ReaderInv, TypeOK, FileTypeOK, DecoderTypeOK, SourceTypeOK
<1>1. CASE BeginRow \/ Group \/ SkipPad \/ PutValue \/ PutUnit
  <2>1. UNCHANGED <<fileVars, rowsRead, outcome, handed>>
    BY <1>1 DEF BeginRow, Group, SkipPad, PutValue, PutUnit, Step, Continue
  <2> QED
    BY <2>1, ContinueKeepsContract
<1>2. CASE CallPastEnd \/ PlainEnd \/ MarkerEnds
  <2>1. UNCHANGED fileVars /\ \E pushed: ReturnEnd(pushed)
    BY <1>2 DEF CallPastEnd, PlainEnd, Call, MarkerEnds, Step
  <2> QED
    BY <2>1, EndKeepsContract
<1>3. CASE PlainRow
  <2> DEFINE filled == [i \in 1..rowLen |-> Payload(Len(taken) + i)]
  <2>1. \A i \in 1..rowLen: Payload(Len(taken) + i) \in Cell
    BY <1>t, CellsHaveType
  <2>2. filled \in Seq(Cell) /\ Len(filled) = rowLen
    BY <2>1, <1>t
  <2>3. ReturnRow(filled) /\ UNCHANGED fileVars
    BY <1>3 DEF PlainRow, Call
  <2>4. outcome # "end"
    BY <1>3, <1>t DEF PlainRow, Call, ReaderInv, StreamOver
  <2> HIDE DEF filled
  <2> QED
    BY <2>2, <2>3, <2>4, <1>t, RowKeepsContract
<1>4. CASE FinishRow
  <2>1. row \in Seq(Cell) /\ ReturnRow(row) /\ UNCHANGED fileVars
    BY <1>4, <1>t DEF FinishRow, Step, DecoderTypeOK
  <2>2. Len(row) = rowLen /\ outcome # "end"
    BY <1>4, <1>t DEF FinishRow, Step, RowFull, ReaderInv
  <2> QED
    BY <2>1, <2>2, <1>t, RowKeepsContract
<1>5. CASE StreamEnds
  <2>1. UNCHANGED fileVars /\ outcome # "end"
        /\ (ReturnEnd(warnings) \/ ReturnError("truncated"))
    BY <1>5 DEF StreamEnds, Step, ReaderInv
  <2> QED
    BY <2>1, EndKeepsContract, ErrorKeepsContract
<1>6. CASE PayloadMissing \/ GroupFails \/ PayloadFails \/ ValueFails
  <2>1. UNCHANGED fileVars /\ outcome # "end" /\ \E kind: ReturnError(kind)
    BY <1>6 DEF PayloadMissing, GroupFails, PayloadFails, ValueFails, Step, ReaderInv
  <2> QED
    BY <2>1, ErrorKeepsContract
<1>7. CASE PlainFails
  <2>1. UNCHANGED fileVars /\ ReturnError(SourceError)
    BY <1>7 DEF PlainFails, Call
  <2>2. outcome # "end"
    BY <1>7, <1>t
    DEF PlainFails, Call, ReaderInv, StreamOver, TornUnit, SourceFails
  <2> QED
    BY <2>1, <2>2, ErrorKeepsContract
<1>8. CASE UNCHANGED vars
  <2>1. UNCHANGED <<fileVars, rowsRead, outcome, handed>>
    BY <1>8 DEF vars
  <2> QED
    BY <2>1, ContinueKeepsContract
<1> QED
  BY <1>1, <1>2, <1>3, <1>4, <1>5, <1>6, <1>7, <1>8 DEF Next, Calls, Steps

(* Every scheme implements the contract of RowContract: rows come whole and in     *)
(* order until the end, and nothing comes after it.                                *)
THEOREM ReaderImplementsContract == Spec => ImplementsContract
<1>1. Init => Contract!Init
  BY DEF Init, Contract!Init
<1>2. ReaderInv /\ [Next]_vars => [Contract!Next]_(Contract!vars)
  BY StepKeepsContract
<1> QED
  BY <1>1, <1>2, InitReaderInv, StepReaderInv, PTL
  DEF Spec, ImplementsContract, Contract!Spec

-----------------------------------------------------------------------------------
(* What was handed out, and what is said about it *)

(* Until the count saturates it measures the data handed out; once a call has       *)
(* begun, an end is the only one that leaves warnings, the count's mismatch among   *)
(* them when there is one, and those of the transition are gone.                    *)
DataInv ==
  /\ rowsRead # CountMax => Len(handed) = rowsRead * rowLen
  /\ pc = "filling" \/ outcome \in {"row", "failed"} => warnings = << >>
  /\ outcome = "end" =>
       \E pushed \in {<< >>, <<"EndOfDataInsideRow">>}: warnings = pushed \o CountWarning

LEMMA RowKeepsData ==
  ASSUME ReaderInv, DataInv, UNCHANGED fileVars, NEW filled \in Seq(Cell),
         Len(filled) = rowLen, ReturnRow(filled), warnings' = << >>
  PROVE  DataInv'
<1>t. handed \in Seq(Cell) /\ rowsRead \in 0..CountMax /\ rowLen \in Nat /\ CountMax \in Nat
  BY RowLensAssumption, CountMaxAssumption DEF ReaderInv, TypeOK, FileTypeOK, CallTypeOK
<1>1. Len(handed') = Len(handed) + rowLen
  BY <1>t, HandedGrows DEF ReturnRow
<1>2. rowsRead' # CountMax => rowsRead' = rowsRead + 1 /\ rowsRead # CountMax
  BY <1>t DEF ReturnRow, Counted
<1>3. (rowsRead + 1) * rowLen = rowsRead * rowLen + rowLen
  BY <1>t
<1>4. rowsRead' # CountMax => Len(handed') = rowsRead' * rowLen'
  BY <1>1, <1>2, <1>3 DEF DataInv, fileVars
<1> QED
  BY <1>4 DEF DataInv, ReturnRow

LEMMA EndKeepsData ==
  ASSUME DataInv, UNCHANGED fileVars,
         NEW pushed \in {<< >>, <<"EndOfDataInsideRow">>}, ReturnEnd(pushed)
  PROVE  DataInv'
BY DEF DataInv, ReturnEnd, CountWarning, fileVars

LEMMA ErrorKeepsData ==
  ASSUME DataInv, UNCHANGED fileVars, NEW kind, ReturnError(kind), warnings' = << >>
  PROVE  DataInv'
BY DEF DataInv, ReturnError, fileVars

LEMMA FillingKeepsData ==
  ASSUME DataInv, UNCHANGED <<fileVars, pc, rowsRead, outcome, handed, warnings>>
  PROVE  DataInv'
BY DEF DataInv, CountWarning, fileVars

LEMMA StepDataInv ==
  ASSUME ReaderInv, DataInv, [Next]_vars
  PROVE  DataInv'
<1>t. CallTypeOK /\ DecoderTypeOK /\ rowLen \in Nat /\ Len(row) \in Nat /\ Len(taken) \in Nat
  BY RowLensAssumption DEF ReaderInv, TypeOK, FileTypeOK, DecoderTypeOK, SourceTypeOK
<1>1. CASE BeginRow
  <2>1. outcome # "end"
    BY <1>1 DEF BeginRow, ReaderInv, StreamOver
  <2> QED
    BY <1>1, <2>1 DEF BeginRow, DataInv, fileVars
<1>2. CASE Group \/ SkipPad \/ PutValue \/ PutUnit
  <2>1. UNCHANGED <<fileVars, pc, rowsRead, outcome, handed, warnings>>
    BY <1>2 DEF Group, SkipPad, PutValue, PutUnit, Step, Continue
  <2> QED
    BY <2>1, FillingKeepsData
<1>3. CASE CallPastEnd \/ PlainEnd
  <2>1. UNCHANGED fileVars /\ ReturnEnd(<< >>)
    BY <1>3 DEF CallPastEnd, PlainEnd, Call
  <2> QED
    BY <2>1, EndKeepsData
<1>4. CASE PlainRow
  <2> DEFINE filled == [i \in 1..rowLen |-> Payload(Len(taken) + i)]
  <2>1. \A i \in 1..rowLen: Payload(Len(taken) + i) \in Cell
    BY <1>t, CellsHaveType
  <2>2. filled \in Seq(Cell) /\ Len(filled) = rowLen
    BY <2>1, <1>t
  <2>3. ReturnRow(filled) /\ UNCHANGED fileVars /\ warnings' = << >>
    BY <1>4 DEF PlainRow, Call
  <2> HIDE DEF filled
  <2> QED
    BY <2>2, <2>3, RowKeepsData
<1>5. CASE PlainFails
  BY <1>5, ErrorKeepsData DEF PlainFails, Call
<1>6. CASE Steps
  <2>1. outcome # "end" /\ warnings = << >>
    BY <1>6 DEF ReaderInv, DataInv, Steps, Group, SkipPad, PutValue, PutUnit, FinishRow,
       StreamEnds, MarkerEnds, PayloadMissing, GroupFails, PayloadFails, ValueFails, Step
  <2>2. CASE FinishRow
    BY <2>1, <2>2, <1>t, RowKeepsData
    DEF FinishRow, Step, DecoderTypeOK, RowFull, ReaderInv
  <2>3. CASE StreamEnds
    <3>1. CASE row = << >>
      BY <2>1, <2>3, <3>1, EndKeepsData DEF StreamEnds, Step
    <3>2. CASE row # << >>
      BY <2>1, <2>3, <3>2, ErrorKeepsData DEF StreamEnds, Step
    <3> QED
      BY <3>1, <3>2
  <2>4. CASE MarkerEnds
    <3>1. Append(warnings, "EndOfDataInsideRow") = <<"EndOfDataInsideRow">>
      BY <2>1
    <3> QED
      BY <2>1, <2>4, <3>1, EndKeepsData DEF MarkerEnds, Step
  <2>5. CASE PayloadMissing \/ GroupFails \/ PayloadFails \/ ValueFails
    <3>1. UNCHANGED fileVars /\ warnings' = << >> /\ \E kind: ReturnError(kind)
      BY <2>1, <2>5 DEF PayloadMissing, GroupFails, PayloadFails, ValueFails, Step
    <3> QED
      BY <3>1, ErrorKeepsData
  <2> QED
    BY <1>2, <1>6, <2>2, <2>3, <2>4, <2>5 DEF Steps
<1>7. CASE UNCHANGED vars
  BY <1>7, FillingKeepsData DEF vars
<1> QED
  BY <1>1, <1>2, <1>3, <1>4, <1>5, <1>6, <1>7 DEF Next, Calls

LEMMA EndWarnings ==
  ASSUME NEW first, NEW second
  PROVE  /\ << >> \o << >> = << >>
         /\ <<first>> \o << >> = <<first>>
         /\ << >> \o <<second>> = <<second>>
         /\ <<first>> \o <<second>> = <<first, second>>
<1>1. << >> \o << >> = << >>
  OBVIOUS
<1>2. <<first>> \o << >> = <<first>>
  OBVIOUS
<1>3. << >> \o <<second>> = <<second>>
  OBVIOUS
<1>4. <<first>> \o <<second>> = <<first, second>>
  <2> DEFINE both == <<first>> \o <<second>>
  <2>1. both \in Seq({first, second}) /\ Len(both) = 2
    OBVIOUS
  <2>2. both[1] = first /\ both[2] = second
    OBVIOUS
  <2>3. /\ <<first, second>> \in Seq({first, second}) /\ Len(<<first, second>>) = 2
        /\ <<first, second>>[1] = first /\ <<first, second>>[2] = second
    OBVIOUS
  <2> DEFINE pair == <<first, second>>
  <2>4. pair \in Seq({first, second}) /\ Len(both) = Len(pair)
        /\ both[1] = pair[1] /\ both[2] = pair[2]
    BY <2>1, <2>2, <2>3
  <2> HIDE DEF both, pair
  <2>5. \A i \in 1..Len(both): both[i] = pair[i]
    BY <2>1, <2>4
  <2>6. both = pair
    BY <2>1, <2>4, <2>5, SeqEqual
  <2> QED
    BY <2>6 DEF both, pair
<1> QED
  BY <1>1, <1>2, <1>3, <1>4

(* With the rows handed out measured as well. *)
LEMMA DataInvHolds == Spec => [](ReaderInv /\ DataInv)
<1>1. Init => DataInv
  BY RowLensAssumption DEF Init, DataInv
<1>2. ReaderInv /\ DataInv /\ [Next]_vars => DataInv'
  BY StepDataInv
<1> QED
  BY <1>1, <1>2, InitReaderInv, StepReaderInv, PTL DEF Spec

(* The warnings a caller finds after a call are that call's.                       *)
THEOREM ReaderWarningsAreOfThisCall == Spec => []WarningsAreOfThisCall
<1>1. ReaderInv /\ DataInv => WarningsAreOfThisCall
  <2> SUFFICES ASSUME ReaderInv, DataInv, pc = "idle", outcome # "none"
               PROVE  /\ outcome # "end" => warnings = << >>
                      /\ \A i, j \in DOMAIN warnings:
                           /\ warnings[i] \in Warnings
                           /\ warnings[i] = warnings[j] => i = j
    BY DEF WarningsAreOfThisCall
  <2>1. CountWarning = << >> \/ CountWarning = <<"RowCountMismatch">>
    BY DEF CountWarning
  <2>2. CASE outcome \in {"row", "failed"}
    BY <2>2 DEF DataInv
  <2>3. CASE outcome = "end"
    <3> PICK pushed \in {<< >>, <<"EndOfDataInsideRow">>}: warnings = pushed \o CountWarning
      BY <2>3 DEF DataInv
    <3>1. \/ warnings = << >>
          \/ warnings = <<"EndOfDataInsideRow">>
          \/ warnings = <<"RowCountMismatch">>
          \/ warnings = <<"EndOfDataInsideRow", "RowCountMismatch">>
      BY <2>1, EndWarnings, Zenon
    <3>2. \A i, j \in DOMAIN warnings:
            warnings[i] \in Warnings /\ (warnings[i] = warnings[j] => i = j)
      <4>1. CASE warnings = << >>
        BY <4>1
      <4>2. CASE warnings = <<"EndOfDataInsideRow">>
        BY <4>2 DEF Warnings
      <4>3. CASE warnings = <<"RowCountMismatch">>
        BY <4>3 DEF Warnings
      <4>4. CASE warnings = <<"EndOfDataInsideRow", "RowCountMismatch">>
        BY <4>4 DEF Warnings
      <4> QED
        BY <3>1, <4>1, <4>2, <4>3, <4>4
    <3> QED
      BY <2>3, <3>2
  <2> QED
    BY <2>2, <2>3 DEF ReaderInv, TypeOK, CallTypeOK, Outcomes
<1> QED
  BY <1>1, DataInvHolds, PTL

LEMMA SameCount ==
  ASSUME NEW m \in Int, NEW n \in Int, NEW w \in Nat, w > 0
  PROVE  m * w = n * w <=> m = n
<1>1. CASE m < n
  <2>1. (n - m) * w > 0
    BY <1>1
  <2>2. (n - m) * w = n * w - m * w
    OBVIOUS
  <2> QED
    BY <1>1, <2>1, <2>2
<1>2. CASE n < m
  <2>1. (m - n) * w > 0
    BY <1>2
  <2>2. (m - n) * w = m * w - n * w
    OBVIOUS
  <2> QED
    BY <1>2, <2>1, <2>2
<1> QED
  BY <1>1, <1>2

(* The count is compared with what the data amount to, so that the mismatch is     *)
(* reported exactly when the file's declared count and its rows differ.            *)
THEOREM ReaderCountMatchesData == Spec => []CountMatchesData
<1>1. ReaderInv /\ DataInv => CountMatchesData
  <2> SUFFICES ASSUME ReaderInv, DataInv, outcome = "end", rowLen > 0, rowsRead # CountMax
               PROVE  (\E i \in DOMAIN warnings: warnings[i] = "RowCountMismatch")
                        <=> declared # NoCount /\ declared * rowLen # Len(handed)
    BY DEF CountMatchesData
  <2>1. declared \in Int /\ rowsRead \in Int /\ rowLen \in Nat
    BY RowLensAssumption, CaseCountsAssumption, CountMaxAssumption
    DEF ReaderInv, TypeOK, FileTypeOK, CallTypeOK, NoCount
  <2>2. Len(handed) = rowsRead * rowLen
    BY DEF DataInv
  <2>3. declared * rowLen # Len(handed) <=> declared # rowsRead
    BY <2>1, <2>2, SameCount
  <2> PICK pushed \in {<< >>, <<"EndOfDataInsideRow">>}: warnings = pushed \o CountWarning
    BY DEF DataInv
  <2>4. CASE declared # NoCount /\ declared # rowsRead
    <3>1. CountWarning = <<"RowCountMismatch">>
      BY <2>4 DEF CountWarning
    <3>2. \E i \in DOMAIN warnings: warnings[i] = "RowCountMismatch"
      <4>1. CASE pushed = << >>
        <5>1. warnings = <<"RowCountMismatch">>
          BY <3>1, <4>1, EndWarnings, Zenon
        <5> QED BY <5>1
      <4>2. CASE pushed = <<"EndOfDataInsideRow">>
        <5>1. warnings = <<"EndOfDataInsideRow", "RowCountMismatch">>
          BY <3>1, <4>2, EndWarnings, Zenon
        <5> QED BY <5>1
      <4> QED BY <4>1, <4>2
    <3> QED BY <2>3, <2>4, <3>2
  <2>5. CASE ~(declared # NoCount /\ declared # rowsRead)
    <3>1. CountWarning = << >>
      BY <2>5 DEF CountWarning
    <3>2. warnings = << >> \/ warnings = <<"EndOfDataInsideRow">>
      BY <3>1, EndWarnings, Zenon
    <3>3. ~\E i \in DOMAIN warnings: warnings[i] = "RowCountMismatch"
      <4>1. CASE warnings = << >>
        BY <4>1
      <4>2. CASE warnings = <<"EndOfDataInsideRow">>
        BY <4>2
      <4> QED BY <3>2, <4>1, <4>2
    <3> QED BY <2>3, <2>5, <3>3
  <2> QED
    BY <2>4, <2>5
<1> QED
  BY <1>1, DataInvHolds, PTL
-----------------------------------------------------------------------------------
(* The reference decoding, position by position. *)

(* How many commands up to the i-th take a payload. *)
LEMMA VerbatimsType ==
  ASSUME NEW g, NEW i \in Nat
  PROVE  /\ IsFiniteSet({j \in 1..i: g[j] = Verbatim})
         /\ VerbatimsUpTo(g, i) \in 0..i
<1> DEFINE places == {j \in 1..i: g[j] = Verbatim}
<1>1. IsFiniteSet(1..i) /\ Cardinality(1..i) = i
  <2>1. 1 \in Int /\ i \in Int
    OBVIOUS
  <2> QED
    BY <2>1, FS_Interval
<1>2. places \in SUBSET (1..i)
  OBVIOUS
<1> HIDE DEF places
<1>3. IsFiniteSet(places) /\ Cardinality(places) <= i
  BY <1>1, <1>2, FS_Subset
<1>4. Cardinality(places) \in Nat
  BY <1>3, FS_CardinalityType
<1> QED
  BY <1>3, <1>4 DEF VerbatimsUpTo, places

LEMMA VerbatimsNone == ASSUME NEW g PROVE VerbatimsUpTo(g, 0) = 0
<1>1. VerbatimsUpTo(g, 0) \in 0..0
  BY VerbatimsType
<1> QED
  BY <1>1

LEMMA VerbatimsNext ==
  ASSUME NEW g, NEW i \in Nat
  PROVE  VerbatimsUpTo(g, i + 1) = IF g[i + 1] = Verbatim THEN VerbatimsUpTo(g, i) + 1
                                                          ELSE VerbatimsUpTo(g, i)
<1> DEFINE before == {j \in 1..i: g[j] = Verbatim}
           after  == {j \in 1..(i + 1): g[j] = Verbatim}
<1>1. 1..(i + 1) = 1..i \cup {i + 1} /\ i + 1 \notin 1..i
  OBVIOUS
<1>2. CASE g[i + 1] = Verbatim
  <2>1. after = before \cup {i + 1} /\ i + 1 \notin before
    BY <1>1, <1>2
  <2>2. IsFiniteSet(before)
    BY VerbatimsType
  <2> HIDE DEF before, after
  <2>3. Cardinality(after) = Cardinality(before) + 1
    BY <2>1, <2>2, FS_AddElement
  <2> QED
    BY <1>2, <2>3 DEF VerbatimsUpTo, before, after
<1>3. CASE g[i + 1] # Verbatim
  <2>1. after = before
    BY <1>1, <1>3
  <2> QED
    BY <1>3, <2>1 DEF VerbatimsUpTo
<1> QED
  BY <1>2, <1>3

LEMMA VerbatimsGrow ==
  ASSUME NEW g, NEW i \in Nat, NEW j \in 1..i
  PROVE  VerbatimsUpTo(g, j) <= VerbatimsUpTo(g, i)
<1> DEFINE before == {n \in 1..j: g[n] = Verbatim}
           after  == {n \in 1..i: g[n] = Verbatim}
<1>1. j \in Nat /\ before \in SUBSET after
  OBVIOUS
<1>2. IsFiniteSet(after)
  BY VerbatimsType
<1> HIDE DEF before, after
<1>3. Cardinality(before) <= Cardinality(after)
  BY <1>1, <1>2, FS_Subset
<1> QED
  BY <1>3 DEF VerbatimsUpTo, before, after

NextGroup(stream, p) == p + VerbatimsUpTo(stream[p], GroupLen) + 1

(* What stands at p, given what stands at the positions after it. *)
ValueAt(from, stream, p) ==
  IF p > Len(stream) THEN << >>
  ELSE CellsOf(stream, p)
       \o (IF Executable(stream, p) # 1..GroupLen THEN << >> ELSE from[NextGroup(stream, p)])

(* from is the decoding of stream from n on. *)
Decodes(from, stream, n, last) == from = [p \in n..last |-> ValueAt(from, stream, p)]

LEMMA ValuesAgree ==
  ASSUME NEW stream, NEW p, NEW f, NEW g,
         p > Len(stream) \/ f[NextGroup(stream, p)] = g[NextGroup(stream, p)]
  PROVE  ValueAt(f, stream, p) = ValueAt(g, stream, p)
BY DEF ValueAt

LEMMA DecodingGrows ==
  ASSUME NEW stream, Len(stream) \in Nat, NEW n \in Nat, NEW from,
         Decodes(from, stream, n + 1, Len(stream) + GroupLen + 1)
  PROVE  \E more: Decodes(more, stream, n, Len(stream) + GroupLen + 1)
<1> DEFINE last == Len(stream) + GroupLen + 1
           more == [p \in n..last |-> IF p = n THEN ValueAt(from, stream, n) ELSE from[p]]
<1>1. GroupLen \in Nat /\ last \in Nat
  BY GroupLenAssumption
<1>2. \A p \in n..last: p # n => p \in (n + 1)..last
  BY <1>1
<1>3. \A p \in (n + 1)..last: from[p] = ValueAt(from, stream, p)
  BY DEF Decodes
<1>4. ASSUME NEW p \in n..last, ~(p > Len(stream))
      PROVE  NextGroup(stream, p) \in n..last /\ NextGroup(stream, p) # n
  <2>1. VerbatimsUpTo(stream[p], GroupLen) \in 0..GroupLen
    BY <1>1, VerbatimsType
  <2> QED
    BY <1>1, <1>4, <2>1 DEF NextGroup
<1>5. \A q \in n..last: q # n => more[q] = from[q]
  OBVIOUS
<1>6. \A p \in n..last: more[p] = ValueAt(from, stream, p)
  <2> SUFFICES ASSUME NEW p \in n..last PROVE more[p] = ValueAt(from, stream, p)
    OBVIOUS
  <2>1. CASE p = n
    BY <2>1
  <2>2. CASE p # n
    BY <1>2, <1>3, <1>5, <2>2
  <2> QED
    BY <2>1, <2>2
<1>7. more = [p \in n..last |-> more[p]]
  OBVIOUS
<1> HIDE DEF more
<1>8. \A p \in n..last: ValueAt(more, stream, p) = ValueAt(from, stream, p)
  BY <1>4, <1>5, ValuesAgree, Zenon
<1>9. more = [p \in n..last |-> ValueAt(more, stream, p)]
  BY <1>6, <1>7, <1>8, Zenon
<1> QED
  BY <1>9 DEF Decodes

LEMMA DecodingExists ==
  ASSUME NEW stream, Len(stream) \in Nat
  PROVE  \E from: Decodes(from, stream, 1, Len(stream) + GroupLen + 1)
<1> DEFINE last == Len(stream) + GroupLen + 1
           N == {k \in Nat: k <= last + 1 => \E from: Decodes(from, stream, last + 1 - k, last)}
<1>1. last \in Nat
  BY GroupLenAssumption
<1>2. 0 \in N
  <2>1. last + 1 - 0 = last + 1 /\ (last + 1)..last = {}
    BY <1>1
  <2>2. Decodes([p \in (last + 1)..last |-> << >>], stream, last + 1, last)
    BY <2>1 DEF Decodes
  <2> QED
    BY <2>1, <2>2
<1>3. ASSUME NEW k \in N PROVE k + 1 \in N
  <2> SUFFICES ASSUME k + 1 <= last + 1
               PROVE  \E from: Decodes(from, stream, last + 1 - (k + 1), last)
    OBVIOUS
  <2> DEFINE n == last + 1 - (k + 1)
  <2>1. k \in Nat /\ n \in Nat /\ n + 1 = last + 1 - k /\ k <= last + 1
    BY <1>1
  <2>2. PICK from: Decodes(from, stream, last + 1 - k, last)
    BY <2>1
  <2>3. Decodes(from, stream, n + 1, last)
    BY <2>1, <2>2
  <2> HIDE DEF n
  <2> QED
    BY <2>1, <2>3, DecodingGrows DEF n
<1>4. N \in SUBSET Nat /\ \A n \in N: n + 1 \in N
  BY <1>3
<1> HIDE DEF N
<1>5. last \in N
  BY <1>1, <1>2, <1>4, SetInduction
<1>6. last + 1 - last = 1 /\ last <= last + 1
  BY <1>1
<1> QED
  BY <1>5, <1>6 DEF N

LEMMA DecodingUnfolds ==
  ASSUME NEW stream, Len(stream) \in Nat
  PROVE  Decodes(DecodedFrom(stream), stream, 1, Len(stream) + GroupLen + 1)
<1> DEFINE from == CHOOSE f: Decodes(f, stream, 1, Len(stream) + GroupLen + 1)
<1>1. Decodes(from, stream, 1, Len(stream) + GroupLen + 1)
  BY DecodingExists
<1>2. DecodedFrom(stream) = from
  BY DEF DecodedFrom, Decodes, ValueAt, NextGroup
<1> QED
  BY <1>1, <1>2
(* What follows the group at p. *)
FollowUp(stream, p) ==
  IF Executable(stream, p) # 1..GroupLen THEN << >> ELSE DecodedFrom(stream)[NextGroup(stream, p)]

LEMMA DecodedAt ==
  ASSUME NEW stream, Len(stream) \in Nat, NEW p \in 1..(Len(stream) + GroupLen + 1)
  PROVE  DecodedFrom(stream)[p] = ValueAt(DecodedFrom(stream), stream, p)
<1> DEFINE from == DecodedFrom(stream)
           last == Len(stream) + GroupLen + 1
<1>1. from = [q \in 1..last |-> ValueAt(from, stream, q)]
  BY DecodingUnfolds DEF Decodes
<1> HIDE DEF from
<1>2. from[p] = ValueAt(from, stream, p)
  BY <1>1
<1> QED
  BY <1>2 DEF from

LEMMA DecodedHere ==
  ASSUME NEW stream \in Seq(Unit), NEW p \in 1..Len(stream)
  PROVE  DecodedFrom(stream)[p] = CellsOf(stream, p) \o FollowUp(stream, p)
<1>1. GroupLen \in Nat /\ Len(stream) \in Nat
  BY GroupLenAssumption
<1>2. p \in 1..(Len(stream) + GroupLen + 1) /\ ~(p > Len(stream))
  BY <1>1
<1> QED
  BY <1>1, <1>2, DecodedAt DEF ValueAt, FollowUp

LEMMA DecodedBeyond ==
  ASSUME NEW stream \in Seq(Unit)
  PROVE  DecodedFrom(stream)[Len(stream) + 1] = << >>
<1>1. GroupLen \in Nat /\ Len(stream) \in Nat
  BY GroupLenAssumption
<1>2. Len(stream) + 1 \in 1..(Len(stream) + GroupLen + 1) /\ Len(stream) + 1 > Len(stream)
  BY <1>1
<1> QED
  BY <1>1, <1>2, DecodedAt DEF ValueAt

LEMMA CellOfType ==
  ASSUME NEW stream \in Seq(Unit), NEW p \in 1..Len(stream), NEW i \in 1..GroupLen
  PROVE  CellOf(stream, p, i) \in Seq(Cell)
<1>1. stream[p] \in Unit /\ stream[p][i] \in Command
  BY UnitsAreCommands
<1>2. GroupLen \in Nat /\ i \in Nat /\ p \in Nat
  BY GroupLenAssumption
<1>3. VerbatimsUpTo(stream[p], i) \in 0..i
  BY <1>2, VerbatimsType
<1>4. p + VerbatimsUpTo(stream[p], i) \in Nat
  BY <1>2, <1>3
<1>5. /\ Payload(p + VerbatimsUpTo(stream[p], i)) \in Cell
      /\ Literal(stream[p][i]) \in Cell
  BY <1>1, <1>4, CellsHaveType
<1>6. \A c \in Cell: <<c>> \in Seq(Cell)
  OBVIOUS
<1>7. << >> \in Seq(Cell)
  OBVIOUS
<1> QED
  BY <1>5, <1>6, <1>7 DEF CellOf

(* What the commands of the group at p give after the first n. *)
CellsAfter(stream, p, n) == [i \in 1..(GroupLen - n) |-> CellOf(stream, p, n + i)]
RestOf(stream, p, n)     == FlattenSeq(CellsAfter(stream, p, n))

LEMMA CellsAfterType ==
  ASSUME NEW stream \in Seq(Unit), NEW p \in 1..Len(stream), NEW n \in 0..GroupLen
  PROVE  /\ CellsAfter(stream, p, n) \in Seq(Seq(Cell))
         /\ Len(CellsAfter(stream, p, n)) = GroupLen - n
         /\ RestOf(stream, p, n) \in Seq(Cell)
<1>1. GroupLen \in Nat /\ GroupLen - n \in Nat
  BY GroupLenAssumption
<1>2. \A i \in 1..(GroupLen - n): n + i \in 1..GroupLen
  BY <1>1
<1>3. \A i \in 1..(GroupLen - n): CellOf(stream, p, n + i) \in Seq(Cell)
  BY <1>2, CellOfType
<1>4. CellsAfter(stream, p, n) \in Seq(Seq(Cell)) /\ Len(CellsAfter(stream, p, n)) = GroupLen - n
  BY <1>1, <1>3 DEF CellsAfter
<1> QED
  BY <1>4, FlattenTyped DEF RestOf

LEMMA RestIsAll ==
  ASSUME NEW stream \in Seq(Unit), NEW p \in 1..Len(stream)
  PROVE  CellsOf(stream, p) = RestOf(stream, p, 0)
<1>1. GroupLen - 0 = GroupLen /\ \A i \in 1..GroupLen: 0 + i = i
  BY GroupLenAssumption
<1>2. CellsAfter(stream, p, 0) = [i \in 1..GroupLen |-> CellOf(stream, p, i)]
  BY <1>1 DEF CellsAfter
<1> QED
  BY <1>2 DEF CellsOf, RestOf

LEMMA RestIsNothing ==
  ASSUME NEW stream \in Seq(Unit), NEW p \in 1..Len(stream)
  PROVE  RestOf(stream, p, GroupLen) = << >>
<1>1. GroupLen \in Nat /\ GroupLen \in 0..GroupLen /\ GroupLen - GroupLen = 0
  BY GroupLenAssumption
<1> DEFINE cells == CellsAfter(stream, p, GroupLen)
<1>2. cells \in Seq(Seq(Cell)) /\ Len(cells) = 0
  BY <1>1, CellsAfterType
<1> HIDE DEF cells
<1>3. cells = << >>
  BY <1>2, EmptySeq
<1> QED
  BY <1>3, FlattenEmpty DEF RestOf, cells

LEMMA FlattenOne ==
  ASSUME NEW S, NEW s \in Seq(S)
  PROVE  <<s>> \in Seq(Seq(S)) /\ Len(<<s>>) = 1 /\ <<s>>[1] = s /\ FlattenSeq(<<s>>) = s
<1>1. << >> \in Seq(Seq(S)) /\ Append(<< >>, s) = <<s>>
  OBVIOUS
<1>2. FlattenSeq(<<s>>) = FlattenSeq(<< >>) \o s
  BY <1>1, FlattenAppend
<1>3. << >> \o s = s
  BY ConcatEmptySeq
<1>4. <<s>> \in Seq(Seq(S)) /\ Len(<<s>>) = 1 /\ <<s>>[1] = s
  OBVIOUS
<1> QED
  BY <1>2, <1>3, <1>4, FlattenEmpty

LEMMA RestStep ==
  ASSUME NEW stream \in Seq(Unit), NEW p \in 1..Len(stream), NEW n \in 0..GroupLen, n < GroupLen
  PROVE  RestOf(stream, p, n) = CellOf(stream, p, n + 1) \o RestOf(stream, p, n + 1)
<1> DEFINE first == <<CellOf(stream, p, n + 1)>>
           later == CellsAfter(stream, p, n + 1)
           all   == CellsAfter(stream, p, n)
<1>1. /\ GroupLen \in Nat /\ n \in Nat /\ n + 1 \in 0..GroupLen /\ n + 1 \in 1..GroupLen
      /\ GroupLen - (n + 1) \in Nat /\ GroupLen - n = 1 + (GroupLen - (n + 1))
  BY GroupLenAssumption
<1>2. CellOf(stream, p, n + 1) \in Seq(Cell)
  BY <1>1, CellOfType
<1>3. first \in Seq(Seq(Cell)) /\ Len(first) = 1 /\ first[1] = CellOf(stream, p, n + 1)
      /\ FlattenSeq(first) = CellOf(stream, p, n + 1)
  BY <1>2, FlattenOne
<1>4. later \in Seq(Seq(Cell)) /\ Len(later) = GroupLen - (n + 1)
  BY <1>1, CellsAfterType
<1>5. all \in Seq(Seq(Cell)) /\ Len(all) = 1 + Len(later)
  BY <1>1, <1>4, CellsAfterType
<1>6. DOMAIN all = 1..(Len(first) + Len(later)) /\ all = [i \in DOMAIN all |-> all[i]]
  BY <1>1, <1>3, <1>4 DEF CellsAfter
<1>7. \A i \in 1..Len(first): all[i] = first[i]
  <2>1. 1 \in 1..(GroupLen - n) /\ \A i \in 1..1: i = 1
    BY <1>1
  <2>2. all[1] = CellOf(stream, p, n + 1)
    BY <2>1 DEF CellsAfter
  <2> QED
    BY <1>3, <2>1, <2>2
<1>8. \A i \in 1..Len(later): all[Len(first) + i] = later[i]
  <2> SUFFICES ASSUME NEW i \in 1..(GroupLen - (n + 1)) PROVE all[1 + i] = later[i]
    BY <1>3, <1>4
  <2>1. 1 + i \in 1..(GroupLen - n) /\ n + (1 + i) = (n + 1) + i
    BY <1>1
  <2>2. all[1 + i] = CellOf(stream, p, n + (1 + i))
    BY <2>1 DEF CellsAfter
  <2>3. later[i] = CellOf(stream, p, (n + 1) + i)
    BY DEF CellsAfter
  <2> QED
    BY <2>1, <2>2, <2>3
<1> HIDE DEF first, later, all
<1>9. all = first \o later
  BY <1>3, <1>4, <1>6, <1>7, <1>8, IsConcat
<1>10. FlattenSeq(all) = FlattenSeq(first) \o FlattenSeq(later)
  BY <1>3, <1>4, <1>9, FlattenConcat
<1> QED
  BY <1>3, <1>10 DEF RestOf, later, all

LEMMA DecodedType ==
  ASSUME NEW stream \in Seq(Unit)
  PROVE  \A p \in 1..(Len(stream) + GroupLen + 1): DecodedFrom(stream)[p] \in Seq(Cell)
<1> DEFINE last == Len(stream) + GroupLen + 1
           from == DecodedFrom(stream)
           N == {k \in Nat: \A p \in 1..last: last - p < k => from[p] \in Seq(Cell)}
<1>1. GroupLen \in Nat /\ Len(stream) \in Nat /\ last \in Nat
  BY GroupLenAssumption
<1>2. 0 \in N
  BY <1>1
<1>3. ASSUME NEW k \in N, NEW p \in 1..last, last - p < k + 1 PROVE from[p] \in Seq(Cell)
  <2>1. from[p] = ValueAt(from, stream, p)
    BY <1>1, DecodedAt
  <2>2. CASE p > Len(stream)
    <3>1. ValueAt(from, stream, p) = << >>
      BY <2>2 DEF ValueAt
    <3> QED
      BY <2>1, <3>1
  <2>3. CASE ~(p > Len(stream))
    <3>1. p \in 1..Len(stream)
      BY <1>1, <2>3
    <3> DEFINE q == NextGroup(stream, p)
    <3>2. q \in 1..last /\ last - q < k
      <4>1. VerbatimsUpTo(stream[p], GroupLen) \in 0..GroupLen
        BY <1>1, VerbatimsType
      <4>2. q \in Nat /\ q > p /\ q <= last
        BY <1>1, <3>1, <4>1 DEF NextGroup
      <4> HIDE DEF q
      <4>3. k \in Nat
        OBVIOUS
      <4> HIDE DEF N, last
      <4> QED
        BY <1>1, <1>3, <3>1, <4>2, <4>3
    <3>3. from[q] \in Seq(Cell)
      BY <3>2
    <3>4. CellsOf(stream, p) \in Seq(Cell)
      BY <1>1, <3>1, RestIsAll, CellsAfterType
    <3>5. ValueAt(from, stream, p) \in {CellsOf(stream, p) \o << >>, CellsOf(stream, p) \o from[q]}
      BY <2>3 DEF ValueAt
    <3>6. \A a, b \in Seq(Cell): a \o b \in Seq(Cell)
      OBVIOUS
    <3>7. << >> \in Seq(Cell)
      OBVIOUS
    <3> HIDE DEF from, q
    <3> QED
      BY <2>1, <3>3, <3>4, <3>5, <3>6, <3>7
  <2> QED
    BY <2>2, <2>3
<1>4. N \in SUBSET Nat /\ \A k \in N: k + 1 \in N
  BY <1>3
<1> HIDE DEF N
<1>5. N = Nat
  BY <1>2, <1>4, SetInduction
<1>6. \A p \in 1..last: last \in N /\ last - p < last
  BY <1>1, <1>5
<1> QED
  BY <1>6 DEF N

LEMMA FollowUpType ==
  ASSUME NEW stream \in Seq(Unit), NEW p \in 1..Len(stream)
  PROVE  FollowUp(stream, p) \in Seq(Cell)
<1>1. GroupLen \in Nat /\ Len(stream) \in Nat
  BY GroupLenAssumption
<1>2. VerbatimsUpTo(stream[p], GroupLen) \in 0..GroupLen
  BY <1>1, VerbatimsType
<1>3. NextGroup(stream, p) \in 1..(Len(stream) + GroupLen + 1)
  BY <1>1, <1>2 DEF NextGroup
<1>4. DecodedFrom(stream)[NextGroup(stream, p)] \in Seq(Cell)
  BY <1>3, DecodedType
<1>5. << >> \in Seq(Cell)
  OBVIOUS
<1> QED
  BY <1>4, <1>5 DEF FollowUp

(* A command runs when no end of data is before it and the stream holds its payload, and *)
(* those of the verbatim commands before it.                                             *)
LEMMA Executes ==
  ASSUME NEW stream \in Seq(Unit), NEW p \in 1..Len(stream), NEW n \in 0..GroupLen,
         \A j \in 1..n: stream[p][j] # EndOfData,
         p + VerbatimsUpTo(stream[p], n) <= Len(stream)
  PROVE  1..n \in SUBSET Executable(stream, p)
<1> SUFFICES ASSUME NEW i \in 1..n PROVE i \in Executable(stream, p)
  OBVIOUS
<1>1. GroupLen \in Nat /\ n \in Nat /\ i \in 1..GroupLen /\ Len(stream) \in Nat /\ p \in Nat
  BY GroupLenAssumption
<1>2. ASSUME NEW j \in 1..i
      PROVE  ~(stream[p][j] = EndOfData)
             /\ ~(stream[p][j] = Verbatim /\ p + VerbatimsUpTo(stream[p], j) > Len(stream))
  <2>1. j \in 1..n /\ j \in Nat
    BY <1>1
  <2>2. VerbatimsUpTo(stream[p], j) <= VerbatimsUpTo(stream[p], n)
    BY <1>1, <2>1, VerbatimsGrow
  <2>3. VerbatimsUpTo(stream[p], j) \in Nat /\ VerbatimsUpTo(stream[p], n) \in Nat
    <3>1. VerbatimsUpTo(stream[p], j) \in 0..j /\ VerbatimsUpTo(stream[p], n) \in 0..n
      BY <1>1, <2>1, VerbatimsType
    <3> QED
      BY <3>1, <1>1, <2>1
  <2>4. p + VerbatimsUpTo(stream[p], j) <= Len(stream)
    BY <1>1, <2>2, <2>3
  <2> QED
    BY <1>1, <2>1, <2>3, <2>4
<1> QED
  BY <1>1, <1>2 DEF Executable

(* Nothing runs from an end of data on. *)
LEMMA EndsHere ==
  ASSUME NEW stream \in Seq(Unit), NEW p \in 1..Len(stream), NEW n \in 0..GroupLen, n < GroupLen,
         stream[p][n + 1] = EndOfData
  PROVE  RestOf(stream, p, n) = << >> /\ FollowUp(stream, p) = << >>
<1>1. GroupLen \in Nat /\ n \in Nat /\ n + 1 \in 1..GroupLen /\ GroupLen - n \in Nat
  BY GroupLenAssumption
<1>2. ASSUME NEW i \in (n + 1)..GroupLen PROVE i \notin Executable(stream, p)
  <2>1. n + 1 \in 1..i
    BY <1>1
  <2> QED
    BY <2>1 DEF Executable
<1>3. Executable(stream, p) # 1..GroupLen
  <2>1. n + 1 \in (n + 1)..GroupLen
    BY <1>1
  <2> QED
    BY <1>1, <1>2, <2>1
<1>4. FollowUp(stream, p) = << >>
  BY <1>3 DEF FollowUp
<1> DEFINE cells == CellsAfter(stream, p, n)
<1>5. cells \in Seq(Seq({}))
  <2>1. \A i \in 1..(GroupLen - n): n + i \in (n + 1)..GroupLen
    BY <1>1
  <2>2. \A i \in 1..(GroupLen - n): CellOf(stream, p, n + i) = << >>
    BY <1>2, <2>1 DEF CellOf
  <2> DEFINE T == Seq({})
  <2>3. << >> \in T
    OBVIOUS
  <2>4. cells = [i \in 1..(GroupLen - n) |-> << >>]
    BY <2>2 DEF CellsAfter
  <2> HIDE DEF cells, T
  <2>5. GroupLen - n \in Nat
    BY <1>1
  <2>6. cells \in Seq(T)
    BY <2>3, <2>4, <2>5
  <2> QED
    BY <2>6 DEF T
<1> HIDE DEF cells
<1>6. FlattenSeq(cells) = << >>
  BY <1>5, NothingFlattened
<1> QED
  BY <1>4, <1>6 DEF RestOf, cells

-----------------------------------------------------------------------------------
(* The reader against the reference.  Where the decoder stands in the stream is said   *)
(* by what every longer stream decodes to: whatever comes next, it is what was read,   *)
(* then what is left of the group in hand, then what follows that group.               *)

AtGroup(units, read) ==
  \A ext \in Seq(Unit):
    Decoded(units \o ext) = read \o DecodedFrom(units \o ext)[Len(units) + 1]

InGroup(p, units, g, n, read) ==
  /\ p \in 1..Len(units)
  /\ units[p] = g
  /\ Len(units) = p + VerbatimsUpTo(g, n)
  /\ \A j \in 1..n: g[j] # EndOfData
  /\ \A ext \in Seq(Unit):
       Decoded(units \o ext) =
         read \o (RestOf(units \o ext, p, n) \o FollowUp(units \o ext, p))

Stands(units, g, n, read) ==
  IF n = GroupLen THEN AtGroup(units, read) ELSE \E p \in Nat: InGroup(p, units, g, n, read)

(* The stream begins with a group. *)
LEMMA StandsAtFirst ==
  ASSUME NEW g
  PROVE  Stands(<< >>, g, GroupLen, << >>)
<1> SUFFICES ASSUME NEW ext \in Seq(Unit)
             PROVE  Decoded(<< >> \o ext) = << >> \o DecodedFrom(<< >> \o ext)[Len(<< >>) + 1]
  BY DEF Stands, AtGroup
<1>1. << >> \o ext = ext /\ Len(<< >>) + 1 = 1
  BY ConcatEmptySeq
<1>2. GroupLen \in Nat /\ Len(ext) \in Nat
  BY GroupLenAssumption
<1>3. 1 \in 1..(Len(ext) + GroupLen + 1)
  BY <1>2
<1>4. DecodedFrom(ext)[1] \in Seq(Cell)
  BY <1>3, DecodedType
<1>5. << >> \o DecodedFrom(ext)[1] = DecodedFrom(ext)[1]
  BY <1>4, ConcatEmptySeq
<1> QED
  BY <1>1, <1>5 DEF Decoded

(* A unit taken in front of what follows is one more unit taken. *)
LEMMA TakenThenMore ==
  ASSUME NEW units \in Seq(Unit), NEW more \in Seq(Unit), NEW ext \in Seq(Unit)
  PROVE  /\ (units \o more) \o ext = units \o (more \o ext)
         /\ more \o ext \in Seq(Unit)
         /\ units \o more \in Seq(Unit)
         /\ units \o ext \in Seq(Unit)
         /\ Len(units \o more) = Len(units) + Len(more)
         /\ Len((units \o more) \o ext) = Len(units) + Len(more) + Len(ext)
         /\ Len(units) \in Nat /\ Len(more) \in Nat /\ Len(ext) \in Nat
         /\ \A p \in 1..Len(units): ((units \o more) \o ext)[p] = units[p] /\ (units \o more)[p] = units[p]
<1>1. (units \o more) \o ext = units \o (more \o ext)
  <2>1. Associates(units, more, ext)
    BY ConcatAssociates, Zenon
  <2> QED
    BY <2>1, Zenon DEF Associates
<1>2. /\ units \o more \in Seq(Unit) /\ more \o ext \in Seq(Unit) /\ units \o ext \in Seq(Unit)
      /\ Len(units \o more) = Len(units) + Len(more)
      /\ Len(units) \in Nat /\ Len(more) \in Nat /\ Len(ext) \in Nat
  BY ConcatProperties
<1>3. \A p \in 1..Len(units): (units \o more)[p] = units[p]
  BY ConcatProperties
<1>4. Len((units \o more) \o ext) = Len(units) + Len(more) + Len(ext)
  BY <1>2, ConcatProperties
<1>5. \A p \in 1..Len(units): ((units \o more) \o ext)[p] = (units \o more)[p]
  <2>1. 1..Len(units) \in SUBSET (1..Len(units \o more))
    BY <1>2
  <2> QED
    BY <1>2, <2>1, ConcatProperties
<1> QED
  BY <1>1, <1>2, <1>3, <1>4, <1>5

LEMMA TakesGroup ==
  ASSUME NEW units \in Seq(Unit), NEW u \in Unit, NEW read \in Seq(Cell), AtGroup(units, read)
  PROVE  Stands(Append(units, u), u, 0, read)
<1> DEFINE p    == Len(units) + 1
           more == Append(units, u)
<1>1. /\ GroupLen \in Nat /\ 0 # GroupLen /\ p \in Nat
      /\ more \in Seq(Unit) /\ Len(more) = p /\ more[p] = u
      /\ <<u>> \in Seq(Unit) /\ Len(<<u>>) = 1 /\ more = units \o <<u>>
  BY GroupLenAssumption
<1>2. p \in 1..Len(more) /\ Len(more) = p + VerbatimsUpTo(u, 0)
  BY <1>1, VerbatimsNone
<1> HIDE DEF more
<1>3. ASSUME NEW ext \in Seq(Unit)
      PROVE  Decoded(more \o ext) = read \o (RestOf(more \o ext, p, 0) \o FollowUp(more \o ext, p))
  <2> DEFINE s == more \o ext
  <2>1. s = units \o (<<u>> \o ext) /\ <<u>> \o ext \in Seq(Unit)
    BY <1>1, TakenThenMore
  <2>2. s \in Seq(Unit) /\ Len(s) = Len(units) + 1 + Len(ext) /\ Len(ext) \in Nat /\ Len(units) \in Nat
    BY <1>1, TakenThenMore
  <2>3. p \in 1..Len(s)
    BY <2>2
  <2>4. Decoded(s) = read \o DecodedFrom(s)[p]
    BY <2>1 DEF AtGroup
  <2> HIDE DEF s
  <2>5. DecodedFrom(s)[p] = CellsOf(s, p) \o FollowUp(s, p)
    BY <2>2, <2>3, DecodedHere
  <2>6. CellsOf(s, p) = RestOf(s, p, 0)
    BY <2>2, <2>3, RestIsAll
  <2> QED
    BY <2>4, <2>5, <2>6 DEF s
<1>4. \A j \in 1..0: u[j] # EndOfData
  OBVIOUS
<1>5. InGroup(p, more, u, 0, read)
  BY <1>1, <1>2, <1>3, <1>4 DEF InGroup
<1> QED
  BY <1>1, <1>5 DEF Stands, more

(* What a command that runs adds to the row. *)
Gives(command, at) ==
  IF command = Padding THEN << >>
  ELSE IF command = Verbatim THEN <<Payload(at)>> ELSE <<Literal(command)>>

LEMMA GivesCells ==
  ASSUME NEW command \in Command, NEW at \in Nat
  PROVE  Gives(command, at) \in Seq(Cell)
<1>1. Payload(at) \in Cell /\ Literal(command) \in Cell
  BY CellsHaveType
<1>2. \A c \in Cell: <<c>> \in Seq(Cell)
  OBVIOUS
<1>3. << >> \in Seq(Cell)
  OBVIOUS
<1> QED
  BY <1>1, <1>2, <1>3 DEF Gives

Regrouped(a, b, c, d) == a \o ((b \o c) \o d) = (a \o b) \o (c \o d)

LEMMA Regroup ==
  ASSUME NEW a \in Seq(Cell), NEW b \in Seq(Cell), NEW c \in Seq(Cell), NEW d \in Seq(Cell)
  PROVE  Regrouped(a, b, c, d)
<1>1. b \o c \in Seq(Cell) /\ c \o d \in Seq(Cell)
  BY ConcatProperties
<1>2. Associates(b, c, d) /\ Associates(a, b, c \o d)
  BY <1>1, ConcatAssociates, Zenon
<1> QED
  BY <1>2, Zenon DEF Associates, Regrouped

LEMMA CommandRuns ==
  ASSUME NEW units \in Seq(Unit), NEW g \in Unit, NEW n \in 0..GroupLen, n < GroupLen,
         NEW read \in Seq(Cell), Stands(units, g, n, read),
         g[n + 1] # EndOfData, NEW more \in Seq(Unit),
         Len(more) = IF g[n + 1] = Verbatim THEN 1 ELSE 0
  PROVE  Stands(units \o more, g, n + 1, read \o Gives(g[n + 1], Len(units) + 1))
<1> DEFINE all   == units \o more
           cells == Gives(g[n + 1], Len(units) + 1)
<1>1. GroupLen \in Nat /\ n \in Nat /\ n + 1 \in 0..GroupLen /\ n + 1 \in 1..GroupLen /\ n # GroupLen
  BY GroupLenAssumption
<1>2. PICK p \in Nat: InGroup(p, units, g, n, read)
  BY <1>1 DEF Stands
<1>3. /\ p \in 1..Len(units) /\ units[p] = g /\ Len(units) = p + VerbatimsUpTo(g, n)
      /\ \A j \in 1..n: g[j] # EndOfData
  BY <1>2 DEF InGroup
<1>4. \A ext \in Seq(Unit): Decoded(units \o ext) =
        read \o (RestOf(units \o ext, p, n) \o FollowUp(units \o ext, p))
  BY <1>2 DEF InGroup
<1>5. VerbatimsUpTo(g, n) \in Nat /\ VerbatimsUpTo(g, n + 1) = VerbatimsUpTo(g, n) + Len(more)
  <2>1. VerbatimsUpTo(g, n) \in 0..n
    BY <1>1, VerbatimsType
  <2>2. VerbatimsUpTo(g, n + 1) = IF g[n + 1] = Verbatim THEN VerbatimsUpTo(g, n) + 1
                                                         ELSE VerbatimsUpTo(g, n)
    BY <1>1, VerbatimsNext
  <2> QED
    BY <1>1, <2>1, <2>2
<1>6. all \in Seq(Unit) /\ Len(all) = Len(units) + Len(more) /\ Len(units) \in Nat /\ Len(more) \in Nat
  BY TakenThenMore, EmptySeq
<1>7. p \in 1..Len(all) /\ all[p] = g /\ Len(all) = p + VerbatimsUpTo(g, n + 1)
  <2>1. all[p] = units[p]
    BY <1>3, ConcatProperties
  <2>2. all[p] = g
    BY <1>3, <2>1
  <2> DEFINE v == VerbatimsUpTo(g, n)
             w == VerbatimsUpTo(g, n + 1)
             l == Len(units)
             m == Len(more)
             k == Len(all)
  <2>3. p \in 1..l /\ l = p + v /\ v \in Nat /\ w = v + m /\ k = l + m /\ l \in Nat /\ m \in Nat
    BY <1>3, <1>5, <1>6
  <2> HIDE DEF v, w, l, m, k
  <2>4. p \in 1..k /\ k = p + w
    BY <2>3
  <2> QED
    BY <2>2, <2>4 DEF k, w
<1>8. \A j \in 1..(n + 1): g[j] # EndOfData
  <2>1. \A j \in 1..(n + 1): j \in 1..n \/ j = n + 1
    BY <1>1
  <2> QED
    BY <1>3, <2>1
<1>9. cells \in Seq(Cell)
  <2>1. g[n + 1] \in Command /\ Len(units) + 1 \in Nat
    BY <1>1, <1>6, UnitsAreCommands
  <2> QED
    BY <2>1, GivesCells
<1> HIDE DEF cells
<1>10. ASSUME NEW ext \in Seq(Unit)
       PROVE  /\ all \o ext \in Seq(Unit) /\ p \in 1..Len(all \o ext) /\ (all \o ext)[p] = g
              /\ 1..(n + 1) \in SUBSET Executable(all \o ext, p)
              /\ Decoded(all \o ext) =
                   (read \o cells) \o (RestOf(all \o ext, p, n + 1) \o FollowUp(all \o ext, p))
  <2> DEFINE s == all \o ext
  <2>1. s = units \o (more \o ext) /\ more \o ext \in Seq(Unit)
    <3>1. more \in Seq(Unit) /\ Associates(units, more, ext)
      BY ConcatAssociates, Zenon
    <3>2. more \o ext \in Seq(Unit)
      BY <3>1, ConcatProperties
    <3> QED
      BY <3>1, <3>2, Zenon DEF Associates
  <2>2. /\ s \in Seq(Unit) /\ Len(s) = Len(all) + Len(ext) /\ Len(ext) \in Nat /\ Len(all) \in Nat
        /\ s[p] = g
    BY <1>3, <1>6, TakenThenMore
  <2>3. Decoded(s) = read \o (RestOf(s, p, n) \o FollowUp(s, p))
    BY <1>4, <2>1
  <2> HIDE DEF s, all
  <2>4. p \in 1..Len(s) /\ p + VerbatimsUpTo(s[p], n + 1) <= Len(s)
    BY <1>7, <2>2
  <2>5. 1..(n + 1) \in SUBSET Executable(s, p)
    BY <1>1, <1>8, <2>2, <2>4, Executes
  <2>6. CellOf(s, p, n + 1) = cells
    <3>1. n + 1 \in Executable(s, p)
      BY <1>1, <2>5
    <3>2. g[n + 1] = Verbatim => p + VerbatimsUpTo(g, n + 1) = Len(units) + 1
      BY <1>3, <1>5
    <3> QED
      BY <2>2, <3>1, <3>2 DEF CellOf, Gives, cells
  <2>7. RestOf(s, p, n) = cells \o RestOf(s, p, n + 1)
    BY <2>2, <2>4, <2>6, RestStep
  <2>8. RestOf(s, p, n + 1) \in Seq(Cell) /\ FollowUp(s, p) \in Seq(Cell)
    BY <1>1, <2>2, <2>4, CellsAfterType, FollowUpType
  <2> DEFINE rest   == RestOf(s, p, n + 1)
             follow == FollowUp(s, p)
  <2>9. read \o ((cells \o rest) \o follow) = (read \o cells) \o (rest \o follow)
    <3>1. rest \in Seq(Cell) /\ follow \in Seq(Cell)
      BY <2>8
    <3> HIDE DEF rest, follow
    <3>2. Regrouped(read, cells, rest, follow)
      BY <1>9, <3>1, Regroup
    <3> QED
      BY <3>2 DEF Regrouped
  <2> QED
    BY <2>2, <2>3, <2>4, <2>5, <2>7, <2>9 DEF s
<1> HIDE DEF all
<1>11. CASE n + 1 # GroupLen
  <2>1. InGroup(p, all, g, n + 1, read \o cells)
    BY <1>7, <1>8, <1>10 DEF InGroup
  <2> QED
    BY <1>11, <2>1 DEF Stands, all, cells
<1>12. CASE n + 1 = GroupLen
  <2> SUFFICES ASSUME NEW ext \in Seq(Unit)
               PROVE  Decoded(all \o ext) = (read \o cells) \o DecodedFrom(all \o ext)[Len(all) + 1]
    BY <1>12 DEF Stands, AtGroup, all, cells
  <2> DEFINE s == all \o ext
  <2>1. /\ s \in Seq(Unit) /\ p \in 1..Len(s) /\ s[p] = g
        /\ 1..(n + 1) \in SUBSET Executable(s, p)
        /\ Decoded(s) = (read \o cells) \o (RestOf(s, p, n + 1) \o FollowUp(s, p))
    BY <1>10
  <2> HIDE DEF s
  <2>2. Executable(s, p) = 1..GroupLen
    BY <1>12, <2>1 DEF Executable
  <2>3. FollowUp(s, p) = DecodedFrom(s)[Len(all) + 1]
    BY <1>7, <1>12, <2>1, <2>2 DEF FollowUp, NextGroup
  <2>4. RestOf(s, p, n + 1) = << >>
    BY <1>12, <2>1, RestIsNothing
  <2>5. FollowUp(s, p) \in Seq(Cell)
    BY <2>1, FollowUpType
  <2>6. << >> \o FollowUp(s, p) = FollowUp(s, p)
    BY <2>5, ConcatEmptySeq
  <2> QED
    BY <2>1, <2>3, <2>4, <2>6 DEF s
<1> QED
  BY <1>11, <1>12 DEF all, cells

(* What was read is the first part of what the stream holds. *)
IsRead(read, all) == Len(read) <= Len(all) /\ read = SubSeq(all, 1, Len(read))

LEMMA StandsAfterRead ==
  ASSUME NEW units \in Seq(Unit), NEW g, NEW n \in 0..GroupLen,
         NEW front \in Seq(Cell), NEW more \in Seq(Cell), Stands(units, g, n, front \o more)
  PROVE  IsRead(front, Decoded(units))
<1>1. << >> \in Seq(Unit) /\ units \o << >> = units
  BY ConcatEmptySeq, EmptySeq
<1>2. PICK rest \in Seq(Cell): Decoded(units) = (front \o more) \o rest
  <2>1. CASE n = GroupLen
    <3>1. Decoded(units \o << >>) = (front \o more) \o DecodedFrom(units \o << >>)[Len(units) + 1]
      BY <1>1, <2>1 DEF Stands, AtGroup
    <3>2. DecodedFrom(units)[Len(units) + 1] = << >>
      BY DecodedBeyond
    <3>3. << >> \in Seq(Cell)
      BY EmptySeq
    <3> QED
      BY <1>1, <3>1, <3>2, <3>3
  <2>2. CASE n # GroupLen
    <3>1. PICK p \in Nat: InGroup(p, units, g, n, front \o more)
      BY <2>2 DEF Stands
    <3>2. /\ p \in 1..Len(units)
          /\ Decoded(units \o << >>) = (front \o more)
               \o (RestOf(units \o << >>, p, n) \o FollowUp(units \o << >>, p))
      BY <1>1, <3>1 DEF InGroup
    <3>3. RestOf(units, p, n) \in Seq(Cell) /\ FollowUp(units, p) \in Seq(Cell)
      BY <3>2, CellsAfterType, FollowUpType
    <3>4. RestOf(units, p, n) \o FollowUp(units, p) \in Seq(Cell)
      BY <3>3, ConcatProperties
    <3> QED
      BY <1>1, <3>2, <3>4
  <2> QED
    BY <2>1, <2>2
<1>3. more \o rest \in Seq(Cell)
  BY ConcatProperties
<1>4. (front \o more) \o rest = front \o (more \o rest)
  <2>1. Associates(front, more, rest)
    BY ConcatAssociates, Zenon
  <2> QED
    BY <2>1 DEF Associates
<1> DEFINE later == more \o rest
<1>5. Decoded(units) = front \o later
  BY <1>2, <1>4
<1>6. later \in Seq(Cell)
  BY <1>3
<1> HIDE DEF later
<1>7. SubSeq(front \o later, 1, Len(front)) = front
  BY <1>6, FrontSlice
<1>8. Len(front \o later) = Len(front) + Len(later) /\ Len(later) \in Nat /\ Len(front) \in Nat
  BY <1>6, ConcatProperties
<1> QED
  BY <1>5, <1>7, <1>8 DEF IsRead

(* Where the decoder stands in the stream as long as no call failed; a row that was cut *)
(* short by the stream's end is the only error that keeps what was read in its place.   *)
StreamInv ==
  /\ Compressed /\ ~finished => failure # "truncated"
  /\ Compressed /\ ~finished /\ failure = "none" => Stands(taken, group, consumed, UnitsRead)
  /\ Compressed /\ finished /\ failure \in {"none", "truncated"} => IsRead(UnitsRead, Decoded(taken))
  /\ Compressed /\ finished /\ failure = "none" => outcome = "end"
  /\ ~Compressed /\ failure \in {"none", "truncated"} => handed = Plain(taken)

LEMMA WhatWasRead ==
  ASSUME ReaderInv
  PROVE  /\ handed \in Seq(Cell) /\ row \in Seq(Cell) /\ taken \in Seq(Unit) /\ group \in Unit
         /\ consumed \in 0..GroupLen
         /\ UnitsRead \in Seq(Cell)
         /\ pc = "filling" => UnitsRead = handed \o row
         /\ pc # "filling" => UnitsRead = handed
<1>1. /\ handed \in Seq(Cell) /\ row \in Seq(Cell) /\ taken \in Seq(Unit) /\ group \in Unit
      /\ consumed \in 0..GroupLen
  BY DEF ReaderInv, TypeOK, CallTypeOK, DecoderTypeOK, SourceTypeOK
<1>2. handed \o << >> = handed /\ handed \o row \in Seq(Cell)
  BY <1>1, ConcatEmptySeq, ConcatProperties
<1> QED
  BY <1>1, <1>2 DEF UnitsRead, InHand

LEMMA ReadLater == ReaderInv' => /\ pc' = "filling" => UnitsRead' = handed' \o row'
                                 /\ pc' # "filling" => UnitsRead' = handed'
<1> DEFINE Forms == /\ pc = "filling" => UnitsRead = handed \o row
                    /\ pc # "filling" => UnitsRead = handed
<1>1. ReaderInv => Forms
  BY WhatWasRead
<1>2. ReaderInv' => Forms'
  BY <1>1, PTL
<1> QED
  BY <1>2

LEMMA InitStreamInv == Init => StreamInv
<1> SUFFICES ASSUME Init PROVE StreamInv
  OBVIOUS
<1>1. taken = << >> /\ handed = << >> /\ consumed = GroupLen /\ ~finished /\ failure = "none" /\ pc = "idle"
  BY DEF Init, SourceInit, DecoderInit
<1>2. UnitsRead = << >>
  BY <1>1, ConcatEmptySeq, EmptySeq DEF UnitsRead, InHand
<1>3. Stands(taken, group, consumed, UnitsRead)
  BY <1>1, <1>2, StandsAtFirst
<1>4. Plain(<< >>) = << >>
  BY EmptySeq DEF Plain
<1> QED
  BY <1>1, <1>3, <1>4 DEF StreamInv

(* A command that runs within a call. *)
LEMMA RunKeepsStream ==
  ASSUME ReaderInv, ReaderInv', StreamInv, pc = "filling", UNCHANGED fileVars, Continue,
         NEW command \in Command, command # EndOfData, Runs(command), finished' = finished,
         NEW more \in Seq(Unit), Len(more) = IF command = Verbatim THEN 1 ELSE 0,
         taken' = taken \o more, row' = row \o Gives(command, Len(taken) + 1)
  PROVE  StreamInv'
<1>1. Compressed /\ ~finished /\ ~finished' /\ Compressed'
  BY DEF ReaderInv, Compressed, fileVars
<1>2. /\ handed \in Seq(Cell) /\ row \in Seq(Cell) /\ taken \in Seq(Unit) /\ group \in Unit
      /\ consumed \in 0..GroupLen /\ UnitsRead \in Seq(Cell) /\ UnitsRead = handed \o row
  BY WhatWasRead
<1>3. /\ consumed < GroupLen /\ group[consumed + 1] = command /\ consumed' = consumed + 1
      /\ group' = group
  BY DEF Runs
<1> DEFINE cells == Gives(command, Len(taken) + 1)
<1>4. cells \in Seq(Cell)
  <2>1. Len(taken) + 1 \in Nat
    BY <1>2
  <2> QED
    BY <2>1, GivesCells
<1>5. UnitsRead' = UnitsRead \o cells
  <2>1. UnitsRead' = handed \o (row \o cells)
    BY ReadLater DEF Continue
  <2>2. handed \o (row \o cells) = (handed \o row) \o cells
    <3> HIDE DEF cells
    <3>1. Associates(handed, row, cells)
      BY <1>2, <1>4, ConcatAssociates, Zenon
    <3> QED
      BY <3>1, Zenon DEF Associates
  <2> QED
    BY <1>2, <2>1, <2>2
<1>6. Stands(taken, group, consumed, UnitsRead) => Stands(taken', group', consumed', UnitsRead')
  <2> SUFFICES ASSUME Stands(taken, group, consumed, UnitsRead)
               PROVE  Stands(taken \o more, group, consumed + 1, UnitsRead \o cells)
    BY <1>3, <1>5
  <2>1. group[consumed + 1] # EndOfData /\ Len(more) = IF group[consumed + 1] = Verbatim THEN 1 ELSE 0
    BY <1>3
  <2>2. Stands(taken \o more, group, consumed + 1,
               UnitsRead \o Gives(group[consumed + 1], Len(taken) + 1))
    BY <1>2, <1>3, <2>1, CommandRuns
  <2> QED
    BY <1>3, <2>2
<1> QED
  BY <1>1, <1>6 DEF StreamInv, Continue

(* A step that ends the call, and the row in hand with it. *)
LEMMA StopKeepsStream ==
  ASSUME ReaderInv, ReaderInv', StreamInv, pc = "filling", UNCHANGED fileVars,
         pc' = "idle", handed' = handed, taken' = taken, failure' = failure \/ failure = "none",
         \/ finished' /\ (failure' = "none" => outcome' = "end")
         \/ ~finished' /\ failure' \notin {"none", "truncated"}
  PROVE  StreamInv'
<1>1. Compressed /\ ~finished /\ Compressed' /\ failure # "truncated"
  BY DEF ReaderInv, Compressed, fileVars, StreamInv
<1>2. /\ handed \in Seq(Cell) /\ row \in Seq(Cell) /\ taken \in Seq(Unit) /\ group \in Unit
      /\ consumed \in 0..GroupLen /\ UnitsRead = handed \o row
  BY WhatWasRead
<1>3. UnitsRead' = handed
  BY ReadLater
<1>4. failure' \in {"none", "truncated"} => IsRead(UnitsRead', Decoded(taken'))
  <2> SUFFICES ASSUME failure' \in {"none", "truncated"} PROVE IsRead(handed, Decoded(taken))
    BY <1>3
  <2>1. Stands(taken, group, consumed, handed \o row)
    BY <1>1, <1>2 DEF StreamInv
  <2> QED
    BY <1>2, <2>1, StandsAfterRead
<1> QED
  BY <1>1, <1>4 DEF StreamInv

(* A step that reads nothing. *)
LEMMA QuietKeepsStream ==
  ASSUME StreamInv, UNCHANGED <<fileVars, sourceVars, decoderVars, failure>>,
         UnitsRead' = UnitsRead, finished => outcome' = "end" \/ outcome' = outcome,
         ~Compressed => handed' = handed
  PROVE  StreamInv'
BY DEF StreamInv, Compressed, fileVars, sourceVars, decoderVars

LEMMA GroupKeepsStream ==
  ASSUME ReaderInv, ReaderInv', StreamInv, Group
  PROVE  StreamInv'
<1>1. PICK unit \in Unit: FetchGroup(unit)
  BY DEF Group, Step
<1>2. pc = "filling" /\ UNCHANGED fileVars /\ Continue
  BY DEF Group, Step
<1>3. Compressed /\ ~finished /\ ~finished' /\ Compressed'
  BY <1>1, <1>2 DEF ReaderInv, Compressed, fileVars, FetchGroup
<1>4. /\ taken \in Seq(Unit) /\ consumed \in 0..GroupLen /\ UnitsRead \in Seq(Cell)
      /\ UnitsRead = handed \o row
  BY <1>2, WhatWasRead
<1>5. /\ consumed = GroupLen /\ consumed' = 0 /\ group' = unit /\ taken' = Append(taken, unit)
      /\ row' = row
  BY <1>1 DEF FetchGroup, NeedGroup, NextUnit
<1>6. UnitsRead' = UnitsRead
  BY <1>2, <1>4, <1>5, ReadLater DEF Continue
<1>7. Stands(taken, group, consumed, UnitsRead) => Stands(taken', group', consumed', UnitsRead')
  BY <1>4, <1>5, <1>6, TakesGroup DEF Stands
<1> QED
  BY <1>2, <1>3, <1>7 DEF StreamInv, Continue

LEMMA PlainGrows ==
  ASSUME NEW units \in Seq(Unit), NEW more \in Seq(Unit)
  PROVE  Plain(units \o more) = Plain(units) \o [i \in 1..Len(more) |-> Payload(Len(units) + i)]
<1> DEFINE before == Plain(units)
           cells  == [i \in 1..Len(more) |-> Payload(Len(units) + i)]
           all    == Plain(units \o more)
<1>1. /\ Len(units) \in Nat /\ Len(more) \in Nat /\ Len(units \o more) = Len(units) + Len(more)
  BY ConcatProperties, LenProperties
<1>2. \A i \in 1..Len(units): Payload(i) \in Cell
  BY <1>1, CellsHaveType
<1>3. \A i \in 1..Len(more): Payload(Len(units) + i) \in Cell
  BY <1>1, CellsHaveType
<1>4. before \in Seq(Cell) /\ Len(before) = Len(units)
  BY <1>1, <1>2 DEF Plain
<1>5. cells \in Seq(Cell) /\ Len(cells) = Len(more)
  BY <1>1, <1>3
<1>6. DOMAIN all = 1..(Len(before) + Len(cells)) /\ all = [i \in DOMAIN all |-> all[i]]
  BY <1>1, <1>4, <1>5 DEF Plain
<1>7. \A i \in 1..Len(before): all[i] = before[i]
  BY <1>1, <1>4 DEF Plain
<1>8. \A i \in 1..Len(cells): all[Len(before) + i] = cells[i]
  <2>1. \A i \in 1..Len(more): Len(units) + i \in 1..Len(units \o more)
    BY <1>1
  <2> QED
    BY <1>1, <1>4, <1>5, <2>1 DEF Plain
<1> HIDE DEF before, cells, all
<1>9. all = before \o cells
  BY <1>4, <1>5, <1>6, <1>7, <1>8, IsConcat
<1> QED
  BY <1>9 DEF before, cells, all

LEMMA PlainKeepsStream ==
  ASSUME ReaderInv, StreamInv, PlainRow \/ PlainFails \/ PlainEnd
  PROVE  StreamInv'
<1>1. ~Compressed /\ ~Compressed'
  BY DEF PlainRow, PlainFails, PlainEnd, Call, Compressed, fileVars
<1>2. CASE PlainRow
  <2> DEFINE more  == [i \in 1..rowLen |-> PlainUnit]
             cells == [i \in 1..rowLen |-> Payload(Len(taken) + i)]
  <2>1. taken' = taken \o more /\ handed' = handed \o cells /\ failure' = failure
    BY <1>2 DEF PlainRow, Call, ReturnRow
  <2>2. rowLen \in Nat /\ taken \in Seq(Unit) /\ PlainUnit \in Unit
    BY RowLensAssumption, PaddingUnit DEF ReaderInv, TypeOK, FileTypeOK, SourceTypeOK, PlainUnit
  <2>3. more \in Seq(Unit) /\ Len(more) = rowLen
    BY <2>2
  <2>4. cells = [i \in 1..Len(more) |-> Payload(Len(taken) + i)]
    BY <2>3
  <2> HIDE DEF more, cells
  <2>5. Plain(taken') = Plain(taken) \o cells
    BY <2>1, <2>2, <2>3, <2>4, PlainGrows
  <2> QED
    BY <1>1, <2>1, <2>5 DEF StreamInv
<1>3. CASE PlainFails
  <2>1. handed' = handed /\ taken' = taken /\ (failure' = failure \/ failure' \in {"torn", "source"})
    BY <1>3 DEF PlainFails, Call, TornUnit, SourceFails, sourceVars, ReturnError, SourceError
  <2> QED
    BY <1>1, <2>1 DEF StreamInv
<1>4. CASE PlainEnd
  <2>1. handed' = handed /\ taken' = taken /\ failure' = failure
    BY <1>4 DEF PlainEnd, Call, NoUnit, sourceVars, ReturnEnd
  <2> QED
    BY <1>1, <2>1 DEF StreamInv
<1> QED
  BY <1>2, <1>3, <1>4

LEMMA RowIsAppended ==
  ASSUME NEW s \in Seq(Cell), NEW c \in Cell
  PROVE  Append(s, c) = s \o <<c>>
OBVIOUS

LEMMA UnitIsAppended ==
  ASSUME NEW s \in Seq(Unit), NEW u \in Unit
  PROVE  Append(s, u) = s \o <<u>> /\ <<u>> \in Seq(Unit) /\ Len(<<u>>) = 1
OBVIOUS

LEMMA StepStreamInv ==
  ASSUME ReaderInv, ReaderInv', StreamInv, [Next]_vars
  PROVE  StreamInv'
<1>t. /\ handed \in Seq(Cell) /\ row \in Seq(Cell) /\ taken \in Seq(Unit) /\ group \in Unit
      /\ consumed \in 0..GroupLen /\ UnitsRead \in Seq(Cell)
      /\ pc = "filling" => UnitsRead = handed \o row
      /\ pc # "filling" => UnitsRead = handed
  BY WhatWasRead
<1>e. << >> \in Seq(Unit) /\ Len(<< >>) = 0 /\ taken \o << >> = taken /\ handed \o << >> = handed
      /\ row \o << >> = row
  BY <1>t, ConcatEmptySeq, EmptySeq
<1>1. CASE BeginRow
  <2>1. UnitsRead' = handed
    BY <1>1, <1>e, ReadLater DEF BeginRow
  <2>2. UnitsRead = handed /\ ~finished
    BY <1>1, <1>t DEF BeginRow
  <2> QED
    BY <1>1, <2>1, <2>2, QuietKeepsStream DEF BeginRow
<1>2. CASE CallPastEnd
  <2>1. UnitsRead = handed /\ UnitsRead' = handed
    BY <1>2, <1>t, ReadLater DEF CallPastEnd, ReturnEnd
  <2> QED
    BY <1>2, <2>1, QuietKeepsStream DEF CallPastEnd, ReturnEnd
<1>3. CASE PlainRow \/ PlainFails \/ PlainEnd
  BY <1>3, PlainKeepsStream
<1>4. CASE Group
  BY <1>4, GroupKeepsStream
<1>5. CASE SkipPad
  <2>1. Padding \in Command /\ Padding # EndOfData /\ Padding # Verbatim
    BY DEF Command, Padding, EndOfData, Verbatim
  <2>2. Gives(Padding, Len(taken) + 1) = << >>
    BY DEF Gives
  <2>3. /\ pc = "filling" /\ UNCHANGED fileVars /\ Continue /\ Runs(Padding)
        /\ finished' = finished /\ taken' = taken /\ row' = row
    BY <1>5 DEF SkipPad, Step, RunPadding, sourceVars
  <2>4. taken' = taken \o << >> /\ row' = row \o Gives(Padding, Len(taken) + 1)
    <3> DEFINE cells == Gives(Padding, Len(taken) + 1)
    <3>1. cells = << >>
      BY <2>2
    <3> HIDE DEF cells
    <3>2. row' = row \o cells
      BY <1>e, <2>3, <3>1
    <3> QED
      BY <1>e, <2>3, <3>2 DEF cells
  <2>5. Len(<< >>) = IF Padding = Verbatim THEN 1 ELSE 0
    BY <1>e, <2>1
  <2> QED
    BY <1>e, <2>1, <2>3, <2>4, <2>5, RunKeepsStream
<1>6. CASE PutValue
  <2>1. PICK command \in {AllSpaces, SystemMissing} \cup (InlineCodes \ Unencodable):
          Runs(command) /\ row' = Append(row, Literal(command))
    BY <1>6 DEF PutValue, Step, RunLiteral
  <2>2. command \in Command /\ command \notin {EndOfData, Verbatim, Padding}
    BY InlineCodesAssumption DEF Command, AllSpaces, SystemMissing, Padding, EndOfData, Verbatim
  <2>3. Literal(command) \in Cell
    BY <2>2, CellsHaveType
  <2>4. Gives(command, Len(taken) + 1) = <<Literal(command)>>
    BY <2>2 DEF Gives
  <2>5. /\ pc = "filling" /\ UNCHANGED fileVars /\ Continue /\ finished' = finished /\ taken' = taken
    BY <1>6 DEF PutValue, Step, RunLiteral, sourceVars
  <2>6. row' = row \o Gives(command, Len(taken) + 1)
    BY <1>t, <2>1, <2>3, <2>4, RowIsAppended
  <2>7. taken' = taken \o << >> /\ Len(<< >>) = IF command = Verbatim THEN 1 ELSE 0
    BY <1>e, <2>2, <2>5
  <2> QED
    BY <1>e, <2>1, <2>2, <2>5, <2>6, <2>7, RunKeepsStream
<1>7. CASE PutUnit
  <2>1. PICK unit \in PayloadUnits: RunVerbatim(unit)
    BY <1>7 DEF PutUnit, Step
  <2>2. unit \in Unit /\ Verbatim \in Command /\ Verbatim # EndOfData
    BY PayloadUnitsAssumption DEF Command, Verbatim, EndOfData
  <2>3. Len(taken) + 1 \in Nat
    BY <1>t
  <2>4. Payload(Len(taken) + 1) \in Cell
    BY <2>3, CellsHaveType
  <2>5. Gives(Verbatim, Len(taken) + 1) = <<Payload(Len(taken) + 1)>>
    BY DEF Gives, Verbatim, Padding
  <2>6. /\ pc = "filling" /\ UNCHANGED fileVars /\ Continue /\ Runs(Verbatim)
        /\ finished' = finished
    BY <1>7, <2>1 DEF PutUnit, Step, RunVerbatim
  <2>7. row' = row \o Gives(Verbatim, Len(taken) + 1)
    BY <1>t, <2>1, <2>4, <2>5, RowIsAppended DEF RunVerbatim
  <2>8. taken' = taken \o <<unit>> /\ <<unit>> \in Seq(Unit)
        /\ Len(<<unit>>) = IF Verbatim = Verbatim THEN 1 ELSE 0
    BY <1>t, <2>1, <2>2, UnitIsAppended DEF RunVerbatim, NextUnit
  <2> QED
    BY <2>2, <2>6, <2>7, <2>8, RunKeepsStream
<1>8. CASE FinishRow
  <2>1. pc = "filling" /\ UNCHANGED <<fileVars, sourceVars, decoderVars>> /\ ReturnRow(row)
    BY <1>8 DEF FinishRow, Step
  <2>2. UnitsRead' = UnitsRead /\ ~finished /\ Compressed
    BY <1>t, <2>1, ReadLater DEF ReturnRow, ReaderInv
  <2>3. failure' = failure
    BY <2>1 DEF ReturnRow
  <2> QED
    BY <2>1, <2>2, <2>3, QuietKeepsStream
<1>9. CASE StreamEnds \/ MarkerEnds \/ PayloadMissing
  <2>1. /\ pc = "filling" /\ UNCHANGED fileVars /\ pc' = "idle" /\ handed' = handed /\ taken' = taken
        /\ finished'
    BY <1>9 DEF StreamEnds, MarkerEnds, PayloadMissing, Step, FetchNothing, RunEndOfData,
                VerbatimNothing, NoUnit, sourceVars, ReturnEnd, ReturnError
  <2>2. failure' = failure \/ failure = "none"
    BY <1>9 DEF StreamEnds, MarkerEnds, PayloadMissing, Step, ReturnEnd, ReturnError
  <2>3. failure' = "none" => outcome' = "end"
    BY <1>9 DEF StreamEnds, MarkerEnds, PayloadMissing, Step, ReturnEnd, ReturnError
  <2> QED
    BY <2>1, <2>2, <2>3, StopKeepsStream
<1>10. CASE GroupFails \/ PayloadFails \/ ValueFails
  <2>1. /\ pc = "filling" /\ UNCHANGED fileVars /\ pc' = "idle" /\ handed' = handed /\ taken' = taken
        /\ finished' = finished
    BY <1>10 DEF GroupFails, PayloadFails, ValueFails, Step, FetchFails, VerbatimFails, EncodeFails,
                 TornUnit, SourceFails, sourceVars, ReturnError
  <2>2. \E kind \in {"torn", "source", "encode"}: ReturnError(kind)
    BY <1>10 DEF GroupFails, PayloadFails, ValueFails, Step, SourceError
  <2>3. /\ failure' = failure \/ failure = "none"
        /\ ~finished /\ failure # "truncated" => failure' \notin {"none", "truncated"}
    BY <2>2 DEF ReturnError
  <2>4. ~finished /\ failure # "truncated"
    BY <2>1 DEF ReaderInv, StreamInv
  <2> QED
    BY <2>1, <2>3, <2>4, StopKeepsStream
<1>11. CASE UNCHANGED vars
  <2>1. UnitsRead' = UnitsRead
    BY <1>11 DEF vars, UnitsRead, InHand
  <2> QED
    BY <1>11, <2>1, QuietKeepsStream DEF vars
<1> QED
  BY <1>1, <1>2, <1>3, <1>4, <1>5, <1>6, <1>7, <1>8, <1>9, <1>10, <1>11 DEF Next, Calls, Steps

-----------------------------------------------------------------------------------
(* The units of the file among what was read: all were taken, and in their order.      *)

Ordered(cells, n) ==
  /\ \A i \in DOMAIN cells: cells[i].by = Verbatim => cells[i].at <= n
  /\ \A i, j \in DOMAIN cells:
       i < j /\ cells[i].by = Verbatim /\ cells[j].by = Verbatim => cells[i].at < cells[j].at

OrderInv == Ordered(UnitsRead, Len(taken))

LEMMA OrderedFront ==
  ASSUME NEW a \in Seq(Cell), NEW b \in Seq(Cell), NEW n \in Nat, NEW m \in Nat, n <= m,
         Ordered(a \o b, n)
  PROVE  Ordered(a, m)
<1> DEFINE all == a \o b
<1>1. /\ DOMAIN a = 1..Len(a) /\ DOMAIN all = 1..(Len(a) + Len(b)) /\ Len(a) \in Nat /\ Len(b) \in Nat
      /\ \A i \in 1..Len(a): all[i] = a[i] /\ a[i] \in Cell
  BY ConcatProperties
<1>2. Ordered(all, n)
  OBVIOUS
<1> HIDE DEF all
<1>3. \A i \in 1..Len(a): i \in DOMAIN all
  BY <1>1
<1>4. \A i \in 1..Len(a): a[i].at \in Nat
  BY <1>1 DEF Cell
<1>5. \A i \in DOMAIN a: a[i].by = Verbatim => a[i].at <= m
  BY <1>1, <1>2, <1>3, <1>4 DEF Ordered
<1>6. \A i, j \in DOMAIN a:
        i < j /\ a[i].by = Verbatim /\ a[j].by = Verbatim => a[i].at < a[j].at
  BY <1>1, <1>2, <1>3 DEF Ordered
<1> QED
  BY <1>5, <1>6 DEF Ordered

LEMMA OrderedLater ==
  ASSUME NEW a \in Seq(Cell), NEW n \in Nat, NEW m \in Nat, n <= m, Ordered(a, n)
  PROVE  Ordered(a, m)
<1>1. << >> \in Seq(Cell) /\ a \o << >> = a
  BY ConcatEmptySeq, EmptySeq
<1> QED
  BY <1>1, OrderedFront

(* New units follow the old ones. *)
LEMMA OrderedConcat ==
  ASSUME NEW a \in Seq(Cell), NEW b \in Seq(Cell), NEW n \in Nat, NEW m \in Nat,
         Ordered(a, n), Ordered(b, m), n <= m,
         \A i \in 1..Len(b): b[i].by = Verbatim => b[i].at > n
  PROVE  Ordered(a \o b, m)
<1> DEFINE all == a \o b
<1>1. /\ DOMAIN a = 1..Len(a) /\ DOMAIN b = 1..Len(b) /\ DOMAIN all = 1..(Len(a) + Len(b))
      /\ Len(a) \in Nat /\ Len(b) \in Nat
      /\ \A i \in 1..Len(a): all[i] = a[i] /\ a[i].at \in Nat
      /\ \A i \in 1..Len(b): all[Len(a) + i] = b[i] /\ b[i].at \in Nat
  <2>1. /\ DOMAIN a = 1..Len(a) /\ DOMAIN b = 1..Len(b) /\ DOMAIN all = 1..(Len(a) + Len(b))
        /\ Len(a) \in Nat /\ Len(b) \in Nat
    BY ConcatProperties
  <2>2. \A i \in 1..Len(a): all[i] = a[i] /\ a[i] \in Cell
    BY ConcatProperties
  <2>3. \A i \in 1..Len(b): all[Len(a) + i] = b[i] /\ b[i] \in Cell
    BY ConcatProperties
  <2> HIDE DEF all
  <2>4. \A c \in Cell: c.at \in Nat
    BY DEF Cell
  <2> QED
    BY <2>1, <2>2, <2>3, <2>4
<1> HIDE DEF all
<1>2. \A i \in DOMAIN all: i \in 1..Len(a) \/ \E k \in 1..Len(b): i = Len(a) + k
  <2> SUFFICES ASSUME NEW i \in 1..(Len(a) + Len(b)), i \notin 1..Len(a)
               PROVE  \E k \in 1..Len(b): i = Len(a) + k
    BY <1>1
  <2>1. i - Len(a) \in 1..Len(b) /\ i = Len(a) + (i - Len(a))
    BY <1>1
  <2> QED
    BY <2>1
<1>3. \A i \in 1..Len(a): all[i].by = Verbatim => all[i].at <= n
  BY <1>1 DEF Ordered
<1>4. \A k \in 1..Len(b): all[Len(a) + k].by = Verbatim => all[Len(a) + k].at <= m /\ all[Len(a) + k].at > n
  BY <1>1 DEF Ordered
<1>5. \A i \in DOMAIN all: all[i].by = Verbatim => all[i].at <= m
  <2> SUFFICES ASSUME NEW i \in DOMAIN all, all[i].by = Verbatim PROVE all[i].at <= m
    OBVIOUS
  <2>1. CASE i \in 1..Len(a)
    <3>1. all[i].at <= n /\ all[i].at \in Nat
      BY <1>1, <1>3, <2>1
    <3> QED
      BY <3>1
  <2>2. CASE \E k \in 1..Len(b): i = Len(a) + k
    BY <1>4, <2>2
  <2> QED
    BY <1>2, <2>1, <2>2
<1>6. ASSUME NEW i \in DOMAIN all, NEW j \in DOMAIN all, i < j, all[i].by = Verbatim, all[j].by = Verbatim
      PROVE  all[i].at < all[j].at
  <2>1. CASE i \in 1..Len(a) /\ j \in 1..Len(a)
    BY <1>1, <1>6, <2>1 DEF Ordered
  <2>2. CASE i \in 1..Len(a) /\ \E k \in 1..Len(b): j = Len(a) + k
    <3> PICK k \in 1..Len(b): j = Len(a) + k
      BY <2>2
    <3>1. all[i].at <= n /\ all[i].at \in Nat /\ all[j].at > n /\ all[j].at \in Nat
      BY <1>1, <1>3, <1>4, <1>6, <2>2
    <3> QED
      BY <3>1
  <2>3. CASE (\E k \in 1..Len(b): i = Len(a) + k) /\ (\E k \in 1..Len(b): j = Len(a) + k)
    <3> PICK k \in 1..Len(b): i = Len(a) + k
      BY <2>3
    <3> PICK l \in 1..Len(b): j = Len(a) + l
      BY <2>3
    <3>1. k < l
      BY <1>1, <1>6
    <3>2. all[i] = b[k] /\ all[j] = b[l]
      BY <1>1
    <3> QED
      BY <1>1, <1>6, <3>1, <3>2 DEF Ordered
  <2>4. ~((\E k \in 1..Len(b): i = Len(a) + k) /\ j \in 1..Len(a))
    BY <1>1, <1>6
  <2> QED
    BY <1>2, <2>1, <2>2, <2>3, <2>4
<1> QED
  BY <1>5, <1>6 DEF Ordered, all

LEMMA OrderedNothing == ASSUME NEW n PROVE Ordered(<< >>, n)
BY DEF Ordered

LEMMA OrderedOne ==
  ASSUME NEW n \in Nat, NEW c \in Cell, c.by = Verbatim => c.at = n + 1
  PROVE  /\ Ordered(<<c>>, n + 1) /\ <<c>> \in Seq(Cell)
         /\ \A i \in 1..Len(<<c>>): <<c>>[i].by = Verbatim => <<c>>[i].at > n
<1>1. <<c>> \in Seq(Cell) /\ Len(<<c>>) = 1 /\ DOMAIN <<c>> = {1} /\ <<c>>[1] = c
  OBVIOUS
<1>2. c.at \in Nat
  BY DEF Cell
<1>3. \A i \in 1..1: i = 1
  OBVIOUS
<1>4. \A i \in DOMAIN <<c>>: <<c>>[i] = c /\ i = 1
  BY <1>1
<1> HIDE DEF Cell
<1>5. Ordered(<<c>>, n + 1)
  BY <1>2, <1>4 DEF Ordered
<1>6. \A i \in 1..Len(<<c>>): <<c>>[i] = c
  BY <1>1, <1>3
<1> QED
  BY <1>1, <1>2, <1>5, <1>6

(* The units n + 1 to n + k. *)
UnitsFrom(n, k) == [i \in 1..k |-> Payload(n + i)]

LEMMA OrderedRun ==
  ASSUME NEW n \in Nat, NEW k \in Nat
  PROVE  /\ UnitsFrom(n, k) \in Seq(Cell) /\ Ordered(UnitsFrom(n, k), n + k)
         /\ \A i \in 1..Len(UnitsFrom(n, k)):
              UnitsFrom(n, k)[i].by = Verbatim => UnitsFrom(n, k)[i].at > n
<1> DEFINE cells == UnitsFrom(n, k)
<1>1. \A i \in 1..k: Payload(n + i) \in Cell
  BY CellsHaveType
<1>2. cells \in Seq(Cell) /\ Len(cells) = k /\ DOMAIN cells = 1..k
  BY <1>1 DEF UnitsFrom
<1>3. \A i \in 1..k: cells[i].at = n + i /\ i \in Nat
  BY DEF Payload, UnitsFrom
<1> HIDE DEF cells
<1>4. Ordered(cells, n + k)
  BY <1>2, <1>3 DEF Ordered
<1>5. \A i \in 1..Len(cells): cells[i].by = Verbatim => cells[i].at > n
  BY <1>2, <1>3
<1> QED
  BY <1>2, <1>4, <1>5 DEF cells

LEMMA OrderedGives ==
  ASSUME NEW read \in Seq(Cell), NEW n \in Nat, NEW command \in Command, Ordered(read, n),
         NEW m \in Nat, m = IF command = Verbatim THEN n + 1 ELSE n
  PROVE  Ordered(read \o Gives(command, n + 1), m)
<1> DEFINE cells == Gives(command, n + 1)
<1>1. CASE command = Padding
  <2>1. cells = << >> /\ m = n
    BY <1>1 DEF Gives, Padding, Verbatim
  <2>2. read \o << >> = read
    BY ConcatEmptySeq
  <2> HIDE DEF cells
  <2>3. read \o cells = read
    BY <2>1, <2>2
  <2> QED
    BY <2>1, <2>3 DEF cells
<1>2. CASE command # Padding
  <2>1. PICK c \in Cell: /\ cells = <<c>>
                         /\ c.by = Verbatim => command = Verbatim /\ c.at = n + 1
    <3>1. Payload(n + 1) \in Cell /\ Literal(command) \in Cell
      BY CellsHaveType
    <3>2. CASE command = Verbatim
      <4>1. cells = <<Payload(n + 1)>> /\ Payload(n + 1).at = n + 1
        BY <1>2, <3>2 DEF Gives, Payload
      <4> QED
        BY <3>1, <3>2, <4>1
    <3>3. CASE command # Verbatim
      <4>1. cells = <<Literal(command)>> /\ Literal(command).by # Verbatim
        BY <1>2, <3>3 DEF Gives, Literal
      <4> QED
        BY <3>1, <4>1
    <3> QED
      BY <3>2, <3>3
  <2> HIDE DEF cells
  <2>2. CASE c.by = Verbatim
    <3>1. m = n + 1 /\ n <= m
      BY <2>1, <2>2
    <3>2. /\ Ordered(<<c>>, n + 1) /\ <<c>> \in Seq(Cell)
          /\ \A i \in 1..Len(<<c>>): <<c>>[i].by = Verbatim => <<c>>[i].at > n
      BY <2>1, OrderedOne
    <3>3. Ordered(cells, m) /\ cells \in Seq(Cell)
          /\ \A i \in 1..Len(cells): cells[i].by = Verbatim => cells[i].at > n
      BY <2>1, <3>1, <3>2
    <3> QED
      BY <3>1, <3>3, OrderedConcat DEF cells
  <2>3. CASE c.by # Verbatim
    <3>1. /\ <<c>> \in Seq(Cell) /\ \A i \in 1..Len(<<c>>): <<c>>[i].by # Verbatim
      <4>1. <<c>> \in Seq(Cell) /\ Len(<<c>>) = 1 /\ <<c>>[1] = c /\ \A i \in 1..1: i = 1
        OBVIOUS
      <4> QED
        BY <2>3, <4>1
    <3>2. cells \in Seq(Cell) /\ DOMAIN cells = 1..Len(cells) /\ \A i \in 1..Len(cells): cells[i].by # Verbatim
      BY <2>1, <3>1
    <3>3. Ordered(cells, n) /\ \A i \in 1..Len(cells): cells[i].by = Verbatim => cells[i].at > n
      BY <3>2 DEF Ordered
    <3>4. Ordered(read \o cells, n)
      BY <3>2, <3>3, OrderedConcat
    <3>5. n <= m /\ read \o cells \in Seq(Cell)
      BY <3>2, ConcatProperties
    <3> QED
      BY <3>4, <3>5, OrderedLater DEF cells
  <2> QED
    BY <2>2, <2>3
<1> QED
  BY <1>1, <1>2

LEMMA RunKeepsOrder ==
  ASSUME ReaderInv, ReaderInv', OrderInv, pc = "filling", Continue,
         NEW command \in Command, Len(taken') = IF command = Verbatim THEN Len(taken) + 1 ELSE Len(taken),
         row' = row \o Gives(command, Len(taken) + 1)
  PROVE  OrderInv'
<1>1. /\ handed \in Seq(Cell) /\ row \in Seq(Cell) /\ taken \in Seq(Unit) /\ UnitsRead \in Seq(Cell)
      /\ UnitsRead = handed \o row
  BY WhatWasRead
<1>2. Len(taken) \in Nat /\ Len(taken) + 1 \in Nat /\ Len(taken') \in Nat
  BY <1>1
<1> DEFINE cells == Gives(command, Len(taken) + 1)
<1>3. cells \in Seq(Cell)
  BY <1>2, GivesCells
<1>4. UnitsRead' = handed \o (row \o cells)
  BY ReadLater DEF Continue
<1>5. Ordered(UnitsRead \o cells, Len(taken'))
  BY <1>1, <1>2, OrderedGives DEF OrderInv
<1> HIDE DEF cells
<1>6. Associates(handed, row, cells)
  BY <1>1, <1>3, ConcatAssociates, Zenon
<1>7. UnitsRead' = UnitsRead \o cells
  BY <1>1, <1>4, <1>6 DEF Associates
<1> QED
  BY <1>5, <1>7 DEF OrderInv

LEMMA StepOrderInv ==
  ASSUME ReaderInv, ReaderInv', OrderInv, [Next]_vars
  PROVE  OrderInv'
<1>t. /\ handed \in Seq(Cell) /\ row \in Seq(Cell) /\ taken \in Seq(Unit) /\ Len(taken) \in Nat
      /\ pc = "filling" => UnitsRead = handed \o row
      /\ pc # "filling" => UnitsRead = handed
  <2>1. taken \in Seq(Unit)
    BY WhatWasRead
  <2> QED
    BY <2>1, WhatWasRead
<1>e. row \o << >> = row /\ << >> \in Seq(Cell)
  BY <1>t, ConcatEmptySeq, EmptySeq
<1>o. Ordered(UnitsRead, Len(taken))
  BY DEF OrderInv
<1>1. CASE BeginRow
  <2>1. UnitsRead' = handed \o << >> /\ UnitsRead = handed /\ taken' = taken
    BY <1>1, <1>t, ReadLater DEF BeginRow, sourceVars
  <2>2. handed \o << >> = handed
    BY <1>t, ConcatEmptySeq
  <2> QED
    BY <1>o, <2>1, <2>2 DEF OrderInv
<1>2. CASE CallPastEnd \/ PlainFails \/ PlainEnd
  <2>1. UnitsRead' = handed /\ UnitsRead = handed /\ taken' = taken
    BY <1>2, <1>t, ReadLater DEF CallPastEnd, PlainFails, PlainEnd, Call, ReturnEnd, ReturnError,
       NoUnit, TornUnit, SourceFails, sourceVars
  <2> QED
    BY <1>o, <2>1 DEF OrderInv
<1>3. CASE PlainRow
  <2> DEFINE more  == [i \in 1..rowLen |-> PlainUnit]
             cells == UnitsFrom(Len(taken), rowLen)
  <2>1. /\ taken' = taken \o more /\ pc' = "idle" /\ handed' = handed \o cells
        /\ UnitsRead = handed
    BY <1>3, <1>t DEF PlainRow, Call, ReturnRow, UnitsFrom
  <2>2. rowLen \in Nat /\ PlainUnit \in Unit
    BY RowLensAssumption, PaddingUnit DEF ReaderInv, TypeOK, FileTypeOK, PlainUnit
  <2>3. more \in Seq(Unit) /\ Len(more) = rowLen
    BY <2>2
  <2>4. /\ cells \in Seq(Cell) /\ Ordered(cells, Len(taken) + rowLen)
        /\ \A i \in 1..Len(cells): cells[i].by = Verbatim => cells[i].at > Len(taken)
    BY <1>t, <2>2, OrderedRun
  <2> HIDE DEF more, cells
  <2>5. Len(taken') = Len(taken) + rowLen
    BY <1>t, <2>1, <2>3, ConcatProperties
  <2>6. UnitsRead' = handed \o cells
    BY <2>1, ReadLater
  <2>7. Len(taken) + rowLen \in Nat /\ Len(taken) <= Len(taken) + rowLen
    BY <1>t, <2>2
  <2>8. Ordered(handed, Len(taken))
    BY <1>o, <2>1
  <2>9. Ordered(handed \o cells, Len(taken) + rowLen)
    BY <1>t, <2>4, <2>7, <2>8, OrderedConcat
  <2> QED
    BY <2>5, <2>6, <2>9 DEF OrderInv
<1>4. CASE Group
  <2>1. PICK unit \in Unit: FetchGroup(unit)
    BY <1>4 DEF Group, Step
  <2>2. /\ pc = "filling" /\ pc' = "filling" /\ handed' = handed /\ row' = row
        /\ taken' = Append(taken, unit)
    BY <1>4, <2>1 DEF Group, Step, FetchGroup, NextUnit, Continue
  <2>3. Len(taken') = Len(taken) + 1
    BY <1>t, <2>2
  <2>4. UnitsRead' = UnitsRead /\ UnitsRead \in Seq(Cell)
    BY <1>t, <2>2, ReadLater, WhatWasRead
  <2>5. Len(taken) <= Len(taken) + 1 /\ Len(taken) + 1 \in Nat
    BY <1>t
  <2>6. Ordered(UnitsRead, Len(taken) + 1)
    BY <1>t, <1>o, <2>4, <2>5, OrderedLater
  <2> QED
    BY <2>3, <2>4, <2>6 DEF OrderInv
<1>5. CASE SkipPad
  <2>1. Padding \in Command /\ Padding # Verbatim /\ Gives(Padding, Len(taken) + 1) = << >>
    BY DEF Command, Padding, Verbatim, Gives
  <2>2. pc = "filling" /\ Continue /\ taken' = taken /\ row' = row
    BY <1>5 DEF SkipPad, Step, RunPadding, sourceVars
  <2> DEFINE cells == Gives(Padding, Len(taken) + 1)
  <2>3. cells = << >>
    BY <2>1
  <2> HIDE DEF cells
  <2>4. row' = row \o cells
    BY <1>e, <2>2, <2>3
  <2>5. row' = row \o Gives(Padding, Len(taken) + 1)
    BY <2>4 DEF cells
  <2> QED
    BY <2>1, <2>2, <2>5, RunKeepsOrder
<1>6. CASE PutValue
  <2>1. PICK command \in {AllSpaces, SystemMissing} \cup (InlineCodes \ Unencodable):
          row' = Append(row, Literal(command))
    BY <1>6 DEF PutValue, Step, RunLiteral
  <2>2. command \in Command /\ command # Verbatim /\ command # Padding
    BY InlineCodesAssumption DEF Command, AllSpaces, SystemMissing, Padding, EndOfData, Verbatim
  <2>3. Literal(command) \in Cell
    BY <2>2, CellsHaveType
  <2>4. Gives(command, Len(taken) + 1) = <<Literal(command)>>
    BY <2>2 DEF Gives
  <2>5. pc = "filling" /\ Continue /\ taken' = taken
    BY <1>6 DEF PutValue, Step, RunLiteral, sourceVars
  <2>6. row' = row \o Gives(command, Len(taken) + 1)
    BY <1>t, <2>1, <2>3, <2>4, RowIsAppended
  <2> QED
    BY <2>2, <2>5, <2>6, RunKeepsOrder
<1>7. CASE PutUnit
  <2>1. PICK unit \in PayloadUnits: RunVerbatim(unit)
    BY <1>7 DEF PutUnit, Step
  <2>2. unit \in Unit /\ Verbatim \in Command
    BY PayloadUnitsAssumption DEF Command
  <2>3. Len(taken) + 1 \in Nat
    BY <1>t
  <2>4. Payload(Len(taken) + 1) \in Cell
    BY <2>3, CellsHaveType
  <2>5. Gives(Verbatim, Len(taken) + 1) = <<Payload(Len(taken) + 1)>>
    BY DEF Gives, Verbatim, Padding
  <2>6. pc = "filling" /\ Continue
    BY <1>7 DEF PutUnit, Step
  <2>7. row' = row \o Gives(Verbatim, Len(taken) + 1)
    BY <1>t, <2>1, <2>4, <2>5, RowIsAppended DEF RunVerbatim
  <2>8. Len(taken') = Len(taken) + 1
    BY <1>t, <2>1, <2>2 DEF RunVerbatim, NextUnit
  <2> QED
    BY <2>2, <2>6, <2>7, <2>8, RunKeepsOrder
<1>8. CASE FinishRow
  <2>1. UnitsRead' = UnitsRead /\ taken' = taken
    BY <1>8, <1>t, ReadLater DEF FinishRow, Step, ReturnRow, sourceVars
  <2> QED
    BY <1>o, <2>1 DEF OrderInv
<1>9. CASE StreamEnds \/ MarkerEnds \/ PayloadMissing \/ GroupFails \/ PayloadFails \/ ValueFails
  <2>1. pc = "filling" /\ pc' = "idle" /\ handed' = handed /\ taken' = taken
    BY <1>9 DEF StreamEnds, MarkerEnds, PayloadMissing, GroupFails, PayloadFails, ValueFails, Step,
                FetchNothing, RunEndOfData, VerbatimNothing, FetchFails, VerbatimFails, EncodeFails,
                NoUnit, TornUnit, SourceFails, sourceVars, ReturnEnd, ReturnError
  <2>2. Ordered(handed \o row, Len(taken))
    BY <1>t, <1>o, <2>1
  <2>3. Ordered(handed, Len(taken))
    BY <1>t, <2>2, OrderedFront
  <2>4. UnitsRead' = handed
    BY <2>1, ReadLater
  <2> QED
    BY <2>1, <2>3, <2>4 DEF OrderInv
<1>10. CASE UNCHANGED vars
  BY <1>10, <1>o DEF vars, sourceVars, UnitsRead, InHand, OrderInv
<1> QED
  BY <1>1, <1>2, <1>3, <1>4, <1>5, <1>6, <1>7, <1>8, <1>9, <1>10 DEF Next, Calls, Steps

LEMMA StreamInvHolds == Spec => [](ReaderInv /\ DataInv /\ StreamInv /\ OrderInv)
<1>1. Init => OrderInv
  <2> SUFFICES ASSUME Init PROVE OrderInv
    OBVIOUS
  <2>1. UnitsRead = << >>
    BY ConcatEmptySeq, EmptySeq DEF Init, UnitsRead, InHand
  <2> QED
    BY <2>1, OrderedNothing DEF OrderInv
<1>2. ReaderInv /\ ReaderInv' /\ StreamInv /\ [Next]_vars => StreamInv'
  BY StepStreamInv
<1>3. ReaderInv /\ ReaderInv' /\ OrderInv /\ [Next]_vars => OrderInv'
  BY StepOrderInv
<1> QED
  BY <1>1, <1>2, <1>3, InitStreamInv, InitReaderInv, StepReaderInv, DataInvHolds, PTL DEF Spec

(* Rows are the stream's units, each once and in order, for every stream.              *)
THEOREM ReaderRowsFollowTheStream == Spec => []RowsFollowTheStream
<1>1. ReaderInv /\ StreamInv /\ OrderInv => RowsFollowTheStream
  <2> SUFFICES ASSUME ReaderInv, StreamInv, OrderInv PROVE RowsFollowTheStream
    OBVIOUS
  <2>1. /\ handed \in Seq(Cell) /\ taken \in Seq(Unit) /\ UnitsRead \in Seq(Cell)
        /\ consumed \in 0..GroupLen
        /\ pc # "filling" => UnitsRead = handed
    BY WhatWasRead
  <2>2. ASSUME failure \in {"none", "truncated"} PROVE IsRead(UnitsRead, Flat)
    <3>1. CASE Compressed /\ finished
      BY <2>2, <3>1 DEF StreamInv, Flat
    <3>2. CASE Compressed /\ ~finished
      <4>1. << >> \in Seq(Cell) /\ UnitsRead \o << >> = UnitsRead
        BY <2>1, ConcatEmptySeq, EmptySeq
      <4>2. Stands(taken, group, consumed, UnitsRead)
        BY <2>2, <3>2 DEF StreamInv
      <4>3. Stands(taken, group, consumed, UnitsRead \o << >>)
        BY <4>1, <4>2
      <4> QED
        BY <2>1, <3>2, <4>1, <4>3, StandsAfterRead DEF Flat
    <3>3. CASE ~Compressed
      <4>1. UnitsRead = Plain(taken) /\ Flat = Plain(taken)
        BY <2>1, <2>2, <3>3 DEF ReaderInv, StreamInv, Flat
      <4>2. SubSeq(UnitsRead, 1, Len(UnitsRead)) = UnitsRead /\ Len(UnitsRead) \in Nat
        BY <2>1, WholeSlice
      <4> QED
        BY <4>1, <4>2 DEF IsRead
    <3> QED
      BY <3>1, <3>2, <3>3
  <2> QED
    BY <2>2 DEF RowsFollowTheStream, IsRead, OrderInv, Ordered
<1> QED
  BY <1>1, StreamInvHolds, PTL

-----------------------------------------------------------------------------------
(* What is left over at the end *)

HasLeftover(told) == \E i \in DOMAIN told: told[i] = "EndOfDataInsideRow"

LEMMA LeftoverTold ==
  /\ ~HasLeftover(<< >> \o CountWarning)
  /\ HasLeftover(<<"EndOfDataInsideRow">> \o CountWarning)
<1>1. CountWarning = << >> \/ CountWarning = <<"RowCountMismatch">>
  BY DEF CountWarning
<1>2. /\ << >> \o CountWarning = << >> \/ << >> \o CountWarning = <<"RowCountMismatch">>
      /\ \/ <<"EndOfDataInsideRow">> \o CountWarning = <<"EndOfDataInsideRow">>
         \/ <<"EndOfDataInsideRow">> \o CountWarning = <<"EndOfDataInsideRow", "RowCountMismatch">>
  BY <1>1, EndWarnings, Zenon
<1>3. ~HasLeftover(<< >>) /\ ~HasLeftover(<<"RowCountMismatch">>)
  BY DEF HasLeftover
<1>4. HasLeftover(<<"EndOfDataInsideRow">>) /\ HasLeftover(<<"EndOfDataInsideRow", "RowCountMismatch">>)
  BY DEF HasLeftover
<1> QED
  BY <1>2, <1>3, <1>4, Zenon

(* At the end of the stream, or at a marker, nothing more is decoded. *)
LEMMA NothingMore ==
  ASSUME ReaderInv, StreamInv, pc = "filling", failure = "none",
         NeedGroup \/ Runs(EndOfData)
  PROVE  Decoded(taken) = handed \o row
<1>1. /\ handed \in Seq(Cell) /\ row \in Seq(Cell) /\ taken \in Seq(Unit) /\ group \in Unit
      /\ consumed \in 0..GroupLen /\ UnitsRead = handed \o row /\ UnitsRead \in Seq(Cell)
  BY WhatWasRead
<1>2. << >> \in Seq(Unit) /\ taken \o << >> = taken /\ UnitsRead \o << >> = UnitsRead
      /\ << >> \o << >> = << >>
  BY <1>1, ConcatEmptySeq, EmptySeq
<1>3. Stands(taken, group, consumed, UnitsRead)
  BY DEF StreamInv, ReaderInv
<1>4. CASE NeedGroup
  <2>1. Decoded(taken \o << >>) = UnitsRead \o DecodedFrom(taken \o << >>)[Len(taken) + 1]
    BY <1>2, <1>3, <1>4 DEF NeedGroup, Stands, AtGroup
  <2>2. DecodedFrom(taken)[Len(taken) + 1] = << >>
    BY <1>1, DecodedBeyond
  <2> QED
    BY <1>1, <1>2, <2>1, <2>2
<1>5. CASE Runs(EndOfData)
  <2>1. consumed < GroupLen /\ consumed # GroupLen /\ group[consumed + 1] = EndOfData
    BY <1>1, <1>5, GroupLenAssumption DEF Runs
  <2>2. PICK p \in Nat: InGroup(p, taken, group, consumed, UnitsRead)
    BY <1>3, <2>1 DEF Stands
  <2>3. /\ p \in 1..Len(taken) /\ taken[p] = group
        /\ Decoded(taken \o << >>) = UnitsRead
             \o (RestOf(taken \o << >>, p, consumed) \o FollowUp(taken \o << >>, p))
    BY <1>2, <2>2 DEF InGroup
  <2>4. RestOf(taken, p, consumed) = << >> /\ FollowUp(taken, p) = << >>
    BY <1>1, <2>1, <2>3, EndsHere
  <2> QED
    BY <1>1, <1>2, <2>3, <2>4
<1> QED
  BY <1>4, <1>5

LEMMA LeftoverLength ==
  ASSUME NEW a \in Seq(Cell), NEW b \in Seq(Cell)
  PROVE  (Len(a \o b) > Len(a)) <=> b # << >>
<1>1. Len(a \o b) = Len(a) + Len(b) /\ Len(a) \in Nat /\ Len(b) \in Nat
  BY ConcatProperties, LenProperties
<1>2. b # << >> <=> Len(b) # 0
  BY EmptySeq
<1> QED
  BY <1>1, <1>2

(* The call that ends reports the units that make no whole row, exactly when there are any. *)
LEMMA EndTellsLeftover ==
  ASSUME ReaderInv, DataInv, StreamInv, Next,
         failure' = "none", outcome # "end", outcome' = "end", rowLen > 0
  PROVE  HasLeftover(warnings') <=> Len(Flat') > Len(handed')
<1>t. /\ handed \in Seq(Cell) /\ row \in Seq(Cell) /\ taken \in Seq(Unit)
  BY WhatWasRead
<1>1. CASE CallPastEnd
  <2>1. Compressed /\ finished /\ failure = "none"
    BY <1>1 DEF CallPastEnd, ReturnEnd
  <2> QED
    BY <2>1 DEF StreamInv
<1>2. CASE PlainEnd
  <2>1. /\ ~Compressed /\ ~Compressed' /\ taken' = taken /\ handed' = handed /\ failure = "none"
        /\ warnings' = << >> \o CountWarning
    BY <1>2 DEF PlainEnd, Call, NoUnit, ReturnEnd, Compressed, fileVars
  <2>2. Flat' = handed'
    BY <2>1 DEF StreamInv, Flat
  <2>3. ~(Len(Flat') > Len(handed'))
    <3>1. Len(handed) \in Nat
      BY <1>t
    <3> QED
      BY <2>1, <2>2, <3>1
  <2> QED
    BY <2>1, <2>3, LeftoverTold
<1>3. CASE StreamEnds \/ MarkerEnds
  <2>1. pc = "filling" /\ UNCHANGED fileVars /\ taken' = taken
    BY <1>3 DEF StreamEnds, MarkerEnds, Step, FetchNothing, NoUnit, RunEndOfData, sourceVars
  <2>w. warnings = << >>
    BY <2>1 DEF DataInv
  <2>2. NeedGroup \/ Runs(EndOfData)
    BY <1>3 DEF StreamEnds, MarkerEnds, Step, FetchNothing, RunEndOfData
  <2>3. handed' = handed /\ failure = "none"
    BY <1>3 DEF StreamEnds, MarkerEnds, Step, ReturnEnd, ReturnError
  <2>4. Compressed /\ Compressed'
    BY <2>1 DEF ReaderInv, Compressed, fileVars
  <2>5. Flat' = handed \o row
    BY <2>1, <2>2, <2>3, <2>4, NothingMore DEF Flat
  <2>6. Len(Flat') > Len(handed') <=> row # << >>
    BY <1>t, <2>3, <2>5, LeftoverLength
  <2>7. CASE row = << >>
    <3>1. warnings' = << >> \o CountWarning
      BY <1>3, <2>w, <2>7 DEF StreamEnds, MarkerEnds, Step, ReturnEnd
    <3> QED
      BY <2>6, <2>7, <3>1, LeftoverTold
  <2>8. CASE row # << >>
    <3>1. warnings' = Append(warnings, "EndOfDataInsideRow") \o CountWarning
      BY <1>3, <2>8 DEF StreamEnds, MarkerEnds, Step, ReturnEnd, ReturnError
    <3>2. Append(<< >>, "EndOfDataInsideRow") = <<"EndOfDataInsideRow">>
      OBVIOUS
    <3> QED
      BY <2>w, <2>6, <2>8, <3>1, <3>2, LeftoverTold
  <2> QED
    BY <2>7, <2>8
<1>4. ~BeginRow
  BY DEF BeginRow
<1>5. ~PlainRow /\ ~PlainFails /\ ~FinishRow
  BY DEF PlainRow, PlainFails, FinishRow, Step, Call, ReturnRow, ReturnError
<1>6. ~(Group \/ SkipPad \/ PutValue \/ PutUnit)
  BY DEF Group, SkipPad, PutValue, PutUnit, Step, Continue
<1>7. ~(PayloadMissing \/ GroupFails \/ PayloadFails \/ ValueFails)
  BY DEF PayloadMissing, GroupFails, PayloadFails, ValueFails, Step, ReturnError
<1> QED
  BY <1>1, <1>2, <1>3, <1>4, <1>5, <1>6, <1>7 DEF Next, Calls, Steps

(* Units that make no whole row are reported by the call that ends, and no others are. *)
THEOREM ReaderLeftoverIsReported == Spec => LeftoverIsReported
<1>1. ReaderInv /\ DataInv /\ StreamInv /\ [Next]_vars
        => [/\ failure' = "none" /\ outcome # "end" /\ outcome' = "end" /\ rowLen > 0
            => (\E i \in DOMAIN warnings': warnings'[i] = "EndOfDataInsideRow")
                 <=> Len(Flat') > Len(handed')]_vars
  BY EndTellsLeftover DEF HasLeftover
<1> QED
  BY <1>1, StreamInvHolds, PTL DEF Spec, LeftoverIsReported
===================================================================================
