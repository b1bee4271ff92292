----------------------------- MODULE SavHeader_proofs -----------------------------
(* For every set of files and every length of a data unit, the units of the file are whole,   *)
(* come until the end is told and never after it, and so implement the source the decoder was  *)
(* checked against: the end is only ever told with every byte handed out, so that no later read  *)
(* can begin to fill (UnitsInv).                                                                 *)
(* And wherever the reader is, it reads what was written there.  The invariant OpeningInv says of *)
(* the header that each field was parsed from the bytes at its offset (HeaderInv), of the walk    *)
(* which part of which record each read is of, and what the records before it have declared       *)
(* (WalkInv, SaidSoFar), of a header or an encoding that is there where it comes from (KnownInv), *)
(* and of the rows that the units are the bytes from the first row on, unless a failed read has   *)
(* swallowed some (RowsInv).                                                                     *)
EXTENDS SavHeader, SequenceLemmas

Slabs8 == [1..DataUnitLen -> Nat]

LEMMA FileBytes ==
  ASSUME NEW f \in Files
  PROVE  f.bytes \in Seq(Byte) /\ f.bytes \in Seq(Nat) /\ Len(f.bytes) \in Nat
<1>1. f.bytes \in Seq(Byte)
  BY FilesAssumption DEF IsFile
<1>2. \A b \in Byte: b \in Nat
  BY BytesAssumption DEF Byte
<1> HIDE DEF Byte
<1>3. Len(f.bytes) \in Nat /\ \A i \in 1..Len(f.bytes): f.bytes[i] \in Nat
  BY <1>1, <1>2
<1>4. f.bytes = [i \in 1..Len(f.bytes) |-> f.bytes[i]]
  BY <1>1
<1> QED
  BY <1>1, <1>3, <1>4

(* A read of a unit in hand: it is of one unit, and counted among the calls. *)
UnitInHand ==
  call = "into" =>
    /\ phase = "open"
    /\ wanted = DataUnitLen /\ remaining = 0
    /\ filled \in 0..DataUnitLen
    /\ filled <= cursor
    /\ Len(units) < calls

EndIsTheEnd ==
  ended => cursor = Len(file.bytes) /\ (call = "into" => filled = 0)

UnitsInv ==
  /\ file \in Files
  /\ cursor \in 0..Len(file.bytes)
  /\ units \in Seq(Slabs8)
  /\ calls \in 0..MaxCalls
  /\ Len(units) <= calls
  /\ ended \in BOOLEAN
  /\ UnitInHand
  /\ EndIsTheEnd

-----------------------------------------------------------------------------------
(* What the actions that are not reads do to the reads *)

(* A read that is asked for is not of a unit, and hands out nothing. *)
AsksNoUnit == cursor' = cursor /\ (call' # "into" \/ call' = call)

LEMMA AskAsksNoUnit ==
  ASSUME NEW kind, NEW length, Ask(kind, length), kind # "into"
  PROVE  AsksNoUnit
BY DEF Ask, AsksNoUnit

LEMMA AsksAsksNoUnit ==
  ASSUME NEW next, NEW kind, NEW length, Asks(next, kind, length), kind # "into"
  PROVE  AsksNoUnit
BY AskAsksNoUnit DEF Asks

LEMMA TurnOverAsksNoUnit == TurnOver => AsksNoUnit
BY AskAsksNoUnit DEF TurnOver

LEMMA OverAsksNoUnit == Over => AsksNoUnit
BY DEF Over, source, AsksNoUnit

LEMMA KeptOrSkippedIsNoUnit == KeptOrSkipped # "into"
BY DEF KeptOrSkipped

LEMMA AfterLabelAsksNoUnit ==
  ASSUME NEW record, AfterLabel(record)
  PROVE  AsksNoUnit
<1>1. CASE Over
  BY <1>1, OverAsksNoUnit
<1>2. CASE VariableRead(record)
  BY <1>2, TurnOverAsksNoUnit DEF VariableRead
<1>3. CASE MissingValues(record)
  BY <1>3, AsksAsksNoUnit DEF MissingValues
<1> QED
  BY <1>1, <1>2, <1>3 DEF AfterLabel

LEMMA ValueLabelsReadAsksNoUnit ==
  ASSUME NEW indices, ValueLabelsRead(indices)
  PROVE  AsksNoUnit
BY TurnOverAsksNoUnit, OverAsksNoUnit DEF ValueLabelsRead

LEMMA NextEntryAsksNoUnit ==
  ASSUME NEW entries, NextEntry(entries)
  PROVE  AsksNoUnit
BY AsksAsksNoUnit DEF NextEntry

LEMMA NextLineAsksNoUnit ==
  ASSUME NEW lines, NextLine(lines)
  PROVE  AsksNoUnit
BY AsksAsksNoUnit, TurnOverAsksNoUnit DEF NextLine, DocumentRead

LEMMA OtherTagAsksNoUnit ==
  ASSUME NEW type, OtherTag(type)
  PROVE  AsksNoUnit
<1>1. \/ Over
      \/ Asks("filler", "skip", FillerLen)
      \/ Asks(FirstRead[type], "exact", WordLen)
  BY DEF OtherTag
<1> QED
  BY <1>1, OverAsksNoUnit, AsksAsksNoUnit

LEMMA VariableBodyAsksNoUnit ==
  ASSUME NEW order, NEW bytes, VariableBody(order, bytes)
  PROVE  AsksNoUnit
<1> DEFINE record == [kind |-> "variable", type |-> ReadI32(order, Slab(bytes, 1, WordLen)),
                      missing |-> ReadI32(order, Slab(bytes, 3, WordLen))]
<1>1. \/ Over
      \/ Asks("label length", "exact", WordLen)
      \/ AfterLabel(record)
  BY DEF VariableBody
<1> QED
  BY <1>1, OverAsksNoUnit, AsksAsksNoUnit, AfterLabelAsksNoUnit

LEMMA WalkAsksNoUnit ==
  ASSUME NEW order, NEW bytes, Walk(order, bytes)
  PROVE  AsksNoUnit
<1> DEFINE signed   == ReadI32(order, bytes)
           unsigned == ReadU32(order, bytes)
<1>1. CASE VariableTag(signed) \/ VariableLabelLength(unsigned)
  BY <1>1, AsksAsksNoUnit DEF VariableTag, VariableLabelLength
<1>2. CASE OtherTag(signed)
  BY <1>2, OtherTagAsksNoUnit
<1>3. CASE Filler \/ WalkFails
  BY <1>3, OverAsksNoUnit DEF Filler, WalkFails
<1>4. CASE VariableBody(order, bytes)
  BY <1>4, VariableBodyAsksNoUnit
<1>5. CASE VariableLabel
  BY <1>5, AfterLabelAsksNoUnit DEF VariableLabel
<1>6. CASE MissingValue
  BY <1>6, TurnOverAsksNoUnit, AsksAsksNoUnit DEF MissingValue, VariableRead
<1>7. CASE LabelCount(unsigned) \/ ValueLabel
  BY <1>7, NextEntryAsksNoUnit DEF LabelCount, ValueLabel
<1>8. CASE Value(bytes) \/ ValueLabelLength(unsigned)
  BY <1>8, AsksAsksNoUnit, KeptOrSkippedIsNoUnit DEF Value, ValueLabelLength
<1>9. CASE PairTag(signed)
  BY <1>9, AsksAsksNoUnit, OverAsksNoUnit DEF PairTag
<1>10. CASE VariableCount(unsigned) \/ VariableIndex(unsigned)
  BY <1>10, AsksAsksNoUnit, ValueLabelsReadAsksNoUnit DEF VariableCount, VariableIndex
<1>11. CASE LineCount(unsigned) \/ Line \/ Lines
  BY <1>11, AsksAsksNoUnit, NextLineAsksNoUnit, TurnOverAsksNoUnit DEF LineCount, Line, Lines, DocumentRead
<1>12. CASE Subtype(signed) \/ ElementSize(unsigned) \/ ElementCount(unsigned)
  BY <1>12, AsksAsksNoUnit, KeptOrSkippedIsNoUnit DEF Subtype, ElementSize, ElementCount
<1>13. CASE Payload(order, bytes)
  BY <1>13, TurnOverAsksNoUnit DEF Payload
<1> QED
  BY <1>1, <1>2, <1>3, <1>4, <1>5, <1>6, <1>7, <1>8, <1>9, <1>10, <1>11, <1>12, <1>13 DEF Walk

-----------------------------------------------------------------------------------
(* Until the reader is open, no unit is asked for and none is told *)

Quiet == phase # "open" /\ AsksNoUnit /\ UNCHANGED <<file, rows>>

LEMMA FieldKindIsNoUnit ==
  ASSUME NEW f \in 1..12
  PROVE  FieldKinds[f] # "into"
BY DEF FieldKinds, FieldLens

LEMMA TakeIsQuiet ==
  ASSUME NEW f \in 1..11, Arrived(f), NEW parsed, NEW warned, Take(parsed, warned)
  PROVE  Quiet
<1>1. field' \in 1..12
  BY DEF Take, Arrived
<1>2. AsksNoUnit
  BY <1>1, FieldKindIsNoUnit, AskAsksNoUnit DEF Take
<1> QED
  BY <1>2 DEF Quiet, Take, Arrived

LEMMA FailIsQuiet == phase # "open" /\ Fail => Quiet
BY DEF Quiet, Fail, source, rows, AsksNoUnit

LEMMA FieldsAreQuiet ==
  ASSUME \/ RecordType \/ ProductName \/ LayoutCode \/ NominalCaseSize \/ CompressionCode \/ WeightIndex
         \/ CaseCount \/ BiasField \/ CreationDate \/ CreationTime \/ FileLabel
  PROVE  Quiet
<1>1. CASE RecordType
  BY <1>1, TakeIsQuiet, FailIsQuiet DEF RecordType, Arrived
<1>2. CASE LayoutCode
  BY <1>2, TakeIsQuiet, FailIsQuiet DEF LayoutCode, Arrived
<1>3. CASE ProductName \/ NominalCaseSize \/ CompressionCode
  BY <1>3, TakeIsQuiet DEF ProductName, NominalCaseSize, CompressionCode
<1>4. CASE WeightIndex \/ CaseCount \/ BiasField
  BY <1>4, TakeIsQuiet DEF WeightIndex, CaseCount, BiasField
<1>5. CASE CreationDate \/ CreationTime \/ FileLabel
  BY <1>5, TakeIsQuiet DEF CreationDate, CreationTime, FileLabel
<1> QED
  BY <1>1, <1>2, <1>3, <1>4, <1>5

LEMMA OpeningIsQuiet ==
  ASSUME \/ StartHeader \/ Padding \/ ReadFailed \/ WalkDictionary
         \/ ResolveEncoding \/ FinishHeader \/ CountUnreadable \/ ResolveCaseCount
  PROVE  Quiet
<1>1. CASE StartHeader
  <2>1. AsksNoUnit
    BY <1>1, FieldKindIsNoUnit, AskAsksNoUnit DEF StartHeader
  <2> QED
    BY <1>1, <2>1 DEF StartHeader, Quiet, parsing
<1>2. CASE Padding
  <2>1. AsksNoUnit
    BY <1>2, AsksAsksNoUnit DEF Padding, BeginWalk
  <2> QED
    BY <1>2, <2>1 DEF Padding, Arrived, Quiet
<1>3. CASE WalkDictionary
  <2>1. AsksNoUnit
    BY <1>3, WalkAsksNoUnit DEF WalkDictionary
  <2> QED
    BY <1>3, <2>1 DEF WalkDictionary, Quiet
<1>4. CASE ReadFailed \/ CountUnreadable
  BY <1>4, FailIsQuiet DEF ReadFailed, CountUnreadable
<1>5. CASE ResolveEncoding
  BY <1>5 DEF ResolveEncoding, Quiet, AsksNoUnit, source
<1>6. CASE FinishHeader
  BY <1>6 DEF FinishHeader, Quiet, AsksNoUnit, source
<1>7. CASE ResolveCaseCount
  BY <1>7 DEF ResolveCaseCount, Quiet, AsksNoUnit, source
<1> QED
  BY <1>1, <1>2, <1>3, <1>4, <1>5, <1>6, <1>7

-----------------------------------------------------------------------------------
(* The invariant *)

LEMMA InitUnits == Init => UnitsInv
<1> SUFFICES ASSUME Init PROVE UnitsInv
  OBVIOUS
<1>1. file \in Files /\ file.bytes \in Seq(Nat)
  BY FileBytes DEF Init
<1>2. cursor = 0 /\ call = "none" /\ units = << >> /\ calls = 0 /\ ended = FALSE
  BY DEF Init, SourceInit
<1>3. units \in Seq(Slabs8) /\ Len(units) = 0
  BY <1>2
<1>4. cursor \in 0..Len(file.bytes) /\ calls \in 0..MaxCalls
  BY <1>1, <1>2, UnitsAssumption
<1>5. UnitInHand /\ EndIsTheEnd
  BY <1>2 DEF UnitInHand, EndIsTheEnd
<1>6. Len(units) <= calls
  BY <1>2, <1>3
<1>7. ended \in BOOLEAN
  BY <1>2
<1> QED
  BY <1>1, <1>3, <1>4, <1>5, <1>6, <1>7, Zenon DEF UnitsInv

LEMMA QuietKeepsUnits == UnitsInv /\ Quiet => UnitsInv'
<1> SUFFICES ASSUME UnitsInv, Quiet PROVE UnitsInv'
  OBVIOUS
<1>1. UNCHANGED <<file, cursor, units, ended, calls>>
  BY DEF Quiet, AsksNoUnit, rows
<1>2. call' # "into"
  BY DEF UnitsInv, UnitInHand, Quiet, AsksNoUnit
<1> QED
  BY <1>1, <1>2 DEF UnitsInv, UnitInHand, EndIsTheEnd

LEMMA NextUnitKeepsUnits == UnitsInv /\ NextUnit => UnitsInv' /\ UNCHANGED <<units, ended>>
<1> SUFFICES ASSUME UnitsInv, NextUnit PROVE UnitsInv' /\ UNCHANGED <<units, ended>>
  OBVIOUS
<1>1. UNCHANGED <<file, cursor, units, ended, phase>>
  BY DEF NextUnit, parsing, Ask
<1>2. calls' = calls + 1 /\ calls < MaxCalls /\ phase = "open"
  BY DEF NextUnit
<1>3. call' = "into" /\ wanted' = DataUnitLen /\ remaining' = 0 /\ filled' = 0
  BY DEF NextUnit, Ask
<1>4. Len(units) \in Nat
  BY DEF UnitsInv
<1>5. UnitInHand'
  BY <1>1, <1>2, <1>3, <1>4, UnitsAssumption, FileBytes DEF UnitInHand, UnitsInv
<1>6. EndIsTheEnd'
  BY <1>1, <1>3 DEF EndIsTheEnd, UnitsInv
<1> QED
  BY <1>1, <1>2, <1>4, <1>5, <1>6, UnitsAssumption DEF UnitsInv

(* What a read tells of the units: nothing, that the file has ended, or one more of them. *)
UntoldStep == UNCHANGED <<units, ended>>
EndStep    == ended' = TRUE /\ UNCHANGED units
UnitStep   ==
  /\ ~ended /\ ~ended'
  /\ Len(units) < calls
  /\ \E unit \in Slabs8: units' = Append(units, unit)

LEMMA SlabIsAUnit ==
  ASSUME NEW bytes \in Seq(Nat), NEW last \in DataUnitLen..Len(bytes)
  PROVE  SubSeq(bytes, last - DataUnitLen + 1, last) \in Slabs8
<1>1. DataUnitLen \in Nat \ {0} /\ last \in Nat
  BY UnitsAssumption
<1> DEFINE first == last - DataUnitLen + 1
<1>2. first \in Int /\ first <= last /\ last - first + 1 = DataUnitLen
  BY <1>1
<1>3. \A i \in first..last: bytes[i] \in Nat
  BY <1>1
<1> HIDE DEF first
<1>4. SubSeq(bytes, first, last) \in Seq(Nat) /\ Len(SubSeq(bytes, first, last)) = DataUnitLen
  BY <1>1, <1>2, <1>3, SubSeqProperties
<1>5. SubSeq(bytes, first, last) \in [1..DataUnitLen -> Nat]
  BY <1>4, LenProperties
<1> QED
  BY <1>5 DEF first, Slabs8

LEMMA ReadKeepsUnits ==
  ASSUME UnitsInv, Read
  PROVE  UnitsInv' /\ (UntoldStep \/ EndStep \/ UnitStep)
<1> USE DEF UntoldStep, EndStep
<1>1. /\ file.bytes \in Seq(Nat)
      /\ Len(file.bytes) \in Nat
      /\ DataUnitLen \in Nat \ {0} /\ MaxCalls \in Nat
      /\ Len(units) \in Nat
      /\ cursor \in 0..Len(file.bytes)
      /\ UnitInHand /\ EndIsTheEnd
      /\ ended \in BOOLEAN
  BY FileBytes, UnitsAssumption DEF UnitsInv
<1>2. UNCHANGED <<file, phase>> /\ Told
  BY DEF Read, parsing
<1>3. calls' = calls
  BY <1>2 DEF Told, rows
<1>4. CASE Deliver(file.bytes)
  <2>1. call' = call /\ call # "none" /\ UNCHANGED <<wanted, remaining>>
    BY <1>4 DEF Deliver, Asking
  <2>2. UNCHANGED <<units, ended>>
    BY <1>2, <2>1 DEF Told, rows
  <2>3. PICK n \in 1..(Len(file.bytes) - cursor): filled + n <= wanted /\ cursor' = cursor + n /\ filled' = filled + n
    BY <1>4 DEF Deliver
  <2>4. ~ended /\ cursor' \in 0..Len(file.bytes)
    BY <1>1, <2>3 DEF EndIsTheEnd
  <2>5. UnitInHand'
    BY <1>1, <1>2, <1>3, <2>1, <2>2, <2>3 DEF UnitInHand
  <2>6. EndIsTheEnd'
    BY <2>2, <2>4 DEF EndIsTheEnd
  <2> QED
    BY <1>2, <1>3, <2>2, <2>4, <2>5, <2>6 DEF UnitsInv
<1>5. CASE NextChunk
  <2>1. call = "skip" /\ UNCHANGED <<call, cursor>>
    BY <1>5 DEF NextChunk
  <2>2. UNCHANGED <<units, ended>>
    BY <1>2, <2>1 DEF Told, rows
  <2> QED
    BY <1>2, <1>3, <2>1, <2>2 DEF UnitsInv, UnitInHand, EndIsTheEnd
<1>6. CASE call # "into" /\ (EndOfFile(file.bytes) \/ ReadFails \/ Whole)
  <2>1. call' = "none" /\ UNCHANGED cursor
    BY <1>6 DEF EndOfFile, ReadFails, Whole, Answer
  <2>2. UNCHANGED <<units, ended>>
    BY <1>2, <1>6 DEF Told, rows
  <2> QED
    BY <1>2, <1>3, <2>1, <2>2 DEF UnitsInv, UnitInHand, EndIsTheEnd
<1>7. CASE call = "into" /\ EndOfFile(file.bytes)
  <2>1. call' = "none" /\ UNCHANGED cursor /\ cursor = Len(file.bytes) /\ result' \in {"end", "torn"}
    BY <1>7 DEF EndOfFile, Answer
  <2>2. phase = "open"
    BY <1>1, <1>7 DEF UnitInHand
  <2>3. ended' = TRUE /\ UNCHANGED units
    BY <1>2, <1>7, <2>1, <2>2 DEF Told
  <2> QED
    BY <1>2, <1>3, <2>1, <2>3 DEF UnitsInv, UnitInHand, EndIsTheEnd
<1>8. CASE call = "into" /\ ReadFails
  <2>1. call' = "none" /\ UNCHANGED cursor /\ result' = "failed"
    BY <1>8 DEF ReadFails, Answer
  <2>2. phase = "open"
    BY <1>1, <1>8 DEF UnitInHand
  <2>3. UNCHANGED <<units, ended>>
    BY <1>1, <1>2, <1>8, <2>1, <2>2 DEF Told
  <2> QED
    BY <1>2, <1>3, <2>1, <2>3 DEF UnitsInv, UnitInHand, EndIsTheEnd
<1>9. CASE call = "into" /\ Whole
  <2>1. /\ phase = "open" /\ filled = wanted /\ wanted = DataUnitLen
        /\ filled <= cursor /\ Len(units) < calls
    BY <1>1, <1>9 DEF UnitInHand, Whole
  <2>2. call' = "none" /\ UNCHANGED cursor /\ result' = "whole"
    BY <1>1, <1>9, <2>1 DEF Whole, Answer
  <2>3. ~ended
    BY <1>1, <1>9, <2>1 DEF EndIsTheEnd
  <2> DEFINE unit == SubSeq(file.bytes, cursor - DataUnitLen + 1, cursor)
  <2>4. units' = Append(units, unit)
    BY <1>2, <1>9, <2>1, <2>2 DEF Told
  <2>5. ~ended' /\ ended' \in BOOLEAN
    BY <1>2, <1>9, <2>1, <2>2, <2>3 DEF Told
  <2>6. unit \in Slabs8
    BY <1>1, <2>1, SlabIsAUnit
  <2> HIDE DEF unit
  <2>7. units' \in Seq(Slabs8) /\ Len(units') = Len(units) + 1
    BY <2>4, <2>6 DEF UnitsInv
  <2>8. UnitStep
    BY <2>1, <2>3, <2>4, <2>5, <2>6 DEF UnitStep
  <2>9. Len(units') <= calls' /\ calls' \in 0..MaxCalls
    BY <1>1, <1>3, <2>1, <2>7 DEF UnitsInv
  <2>10. UnitInHand' /\ EndIsTheEnd'
    BY <2>2, <2>5 DEF UnitInHand, EndIsTheEnd
  <2>11. file' \in Files /\ cursor' \in 0..Len(file'.bytes)
    BY <1>1, <1>2, <2>2 DEF UnitsInv
  <2> QED
    BY <2>5, <2>7, <2>8, <2>9, <2>10, <2>11 DEF UnitsInv
<1> QED
  BY <1>4, <1>5, <1>6, <1>7, <1>8, <1>9 DEF Read, SourceStep

LEMMA StutterKeepsUnits == UnitsInv /\ UNCHANGED vars => UnitsInv' /\ UntoldStep
BY DEF vars, source, parsing, rows, UnitsInv, UnitInHand, EndIsTheEnd, UntoldStep

LEMMA StepKeepsUnits == UnitsInv /\ [Next]_vars => UnitsInv' /\ (UntoldStep \/ EndStep \/ UnitStep)
<1> SUFFICES ASSUME UnitsInv, [Next]_vars
             PROVE  UnitsInv' /\ (UntoldStep \/ EndStep \/ UnitStep)
  OBVIOUS
<1>1. CASE Quiet
  BY <1>1, QuietKeepsUnits DEF Quiet, rows, UntoldStep
<1>2. CASE Read
  BY <1>2, ReadKeepsUnits
<1>3. CASE NextUnit
  BY <1>3, NextUnitKeepsUnits DEF UntoldStep
<1>4. CASE UNCHANGED vars
  BY <1>4, StutterKeepsUnits
<1> QED
  BY <1>1, <1>2, <1>3, <1>4, FieldsAreQuiet, OpeningIsQuiet DEF Next

(* No unit is torn, none is counted that was not asked for, and once the end is told every byte   *)
(* of the file has been handed out (FileUnits::next_unit, ReaderState::read_into).                   *)
THEOREM HeaderUnitsAreWhole == Spec => []UnitsInv
<1>1. Init => UnitsInv
  BY InitUnits
<1>2. UnitsInv /\ [Next]_vars => UnitsInv'
  BY StepKeepsUnits
<1> QED
  BY <1>1, <1>2, PTL DEF Spec

-----------------------------------------------------------------------------------
(* The refinement *)

Commands(unit) == [j \in DOMAIN unit |-> Meaning(unit[j])]
TakenUnits     == [i \in DOMAIN units |-> Commands(units[i])]

LEMMA CommandsAreAUnit ==
  ASSUME NEW unit \in Slabs8
  PROVE  Commands(unit) \in Source!Unit
<1>1. DOMAIN unit = 1..DataUnitLen
  BY DEF Slabs8
<1>2. \A byte: Meaning(byte) \in Source!Command
  BY DEF Meaning, Source!Command, Source!Padding, Source!Verbatim
<1> QED
  BY <1>1, <1>2 DEF Commands, Source!Unit

LEMMA TakenGrows ==
  ASSUME UnitsInv, NEW unit \in Slabs8, units' = Append(units, unit)
  PROVE  TakenUnits' = Append(TakenUnits, Commands(unit)) /\ Len(TakenUnits) = Len(units)
<1>1. units \in Seq(Slabs8) /\ Len(units) \in Nat /\ DOMAIN units = 1..Len(units)
  BY DEF UnitsInv
<1>2. DOMAIN units' = 1..(Len(units) + 1)
  BY <1>1
<1>3. \A i \in 1..Len(units): units'[i] = units[i]
  BY <1>1
<1>4. units'[Len(units) + 1] = unit
  BY <1>1
<1> DEFINE command(i) == Commands(units[i])
<1>5. TakenUnits = [i \in 1..Len(units) |-> command(i)]
  BY <1>1 DEF TakenUnits
<1>6. TakenUnits' = [i \in 1..(Len(units) + 1) |-> Commands(units'[i])]
  BY <1>2 DEF TakenUnits
<1>7. Len(TakenUnits) = Len(units)
  BY <1>1, <1>5
<1>8. Append(TakenUnits, Commands(unit)) = [i \in 1..(Len(units) + 1) |-> IF i <= Len(units) THEN command(i) ELSE Commands(unit)]
  BY <1>1, <1>5, <1>7
<1>9. \A i \in 1..(Len(units) + 1): Commands(units'[i]) = IF i <= Len(units) THEN command(i) ELSE Commands(unit)
  BY <1>1, <1>3, <1>4
<1> QED
  BY <1>6, <1>7, <1>8, <1>9

LEMMA TakenStays == UNCHANGED units => TakenUnits' = TakenUnits
BY DEF TakenUnits, Commands

LEMMA StepImplementsSource == UnitsInv /\ [Next]_vars => [Source!SourceNext]_(Source!sourceVars)
<1> SUFFICES ASSUME UnitsInv, [Next]_vars PROVE [Source!SourceNext]_(Source!sourceVars)
  OBVIOUS
<1>1. CASE UntoldStep
  BY <1>1, TakenStays DEF UntoldStep, Source!sourceVars, TakenUnits, Commands
<1>2. CASE EndStep
  BY <1>2, TakenStays DEF EndStep, Source!SourceNext, Source!NoUnit, TakenUnits, Commands
<1>3. CASE UnitStep
  <2>1. PICK unit \in Slabs8: units' = Append(units, unit)
    BY <1>3 DEF UnitStep
  <2>2. TakenUnits' = Append(TakenUnits, Commands(unit)) /\ Len(TakenUnits) < MaxCalls
    <3>1. Len(TakenUnits) = Len(units) /\ TakenUnits' = Append(TakenUnits, Commands(unit))
      BY <2>1, TakenGrows
    <3>2. Len(units) < calls /\ Len(units) \in Nat /\ calls \in 0..MaxCalls
      BY <1>3 DEF UnitStep, UnitsInv
    <3> QED
      BY <3>1, <3>2, UnitsAssumption
  <2>3. ~ended /\ UNCHANGED ended
    BY <1>3, StepKeepsUnits DEF UnitStep, UnitsInv
  <2>4. Source!NextUnit(Commands(unit))
    BY <2>2, <2>3 DEF Source!NextUnit, TakenUnits, Commands
  <2> QED
    BY <2>4, CommandsAreAUnit DEF Source!SourceNext
<1> QED
  BY <1>1, <1>2, <1>3, StepKeepsUnits

(* The units of any file implement the source the decoder draws from: whole units, one at a time, *)
(* and none after the end (FileUnits::next_unit, data_unit_source.rs).                               *)
THEOREM HeaderImplementsSource == Spec => ImplementsSource
<1>1. Init => Source!SourceInit
  BY DEF Init, Source!SourceInit
<1>2. UnitsInv /\ [Next]_vars => [Source!SourceNext]_(Source!sourceVars)
  BY StepImplementsSource
<1> QED
  BY <1>1, <1>2, HeaderUnitsAreWhole, PTL DEF Spec, ImplementsSource, Source!SourceSpec

-----------------------------------------------------------------------------------
(* A read, from the first byte asked for to the last *)

(* The position there will be when the read is whole. *)
ReadEnd == IF result = "whole" THEN position ELSE position + wanted + remaining

(* The bytes counted and those of the buffer are the ones handed out, and a read that failed *)
(* did so before its end.                                                                      *)
ReadSane ==
  /\ cursor \in Nat /\ position \in Nat /\ wanted \in Nat /\ remaining \in Nat /\ filled \in 0..wanted
  /\ call # "none" => result = "none" /\ cursor = position + filled
  /\ result = "whole" => call = "none" /\ cursor = position
  /\ result = "failed" => call = "none" /\ cursor < ReadEnd

AtOnce(length) == wanted = length /\ remaining = 0

LEMMA AskReads ==
  ASSUME ReadSane, result = "whole", NEW kind \in {"exact", "skip"}, NEW length \in Nat, Ask(kind, length)
  PROVE  /\ ReadSane' /\ ReadEnd' = ReadEnd + length
         /\ call' = kind /\ result' = "none" /\ UNCHANGED <<cursor, position>>
         /\ kind = "exact" => AtOnce(length)'
         /\ length = 1 => AtOnce(length)'
<1>1. SkipChunk \in Nat \ {0}
  BY SkipChunkAssumption
<1>2. /\ call' = kind /\ filled' = 0 /\ result' = "none" /\ UNCHANGED <<cursor, position>>
      /\ wanted' = IF kind = "skip" THEN Lesser(length, SkipChunk) ELSE length
      /\ remaining' = IF kind = "skip" THEN length - wanted' ELSE 0
  BY DEF Ask
<1>3. /\ wanted' \in Nat /\ remaining' \in Nat /\ wanted' + remaining' = length
      /\ length = 1 => wanted' = length /\ remaining' = 0
  BY <1>1, <1>2 DEF Lesser
<1> QED
  BY <1>2, <1>3 DEF ReadSane, ReadEnd, AtOnce

LEMMA FirstAsk ==
  ASSUME cursor = 0, position = 0, NEW length \in Nat, Ask("exact", length)
  PROVE  /\ ReadSane' /\ ReadEnd' = length
         /\ call' = "exact" /\ result' = "none" /\ UNCHANGED <<cursor, position>>
         /\ AtOnce(length)'
BY DEF Ask, ReadSane, ReadEnd, AtOnce

LEMMA StepReads ==
  ASSUME ReadSane, call \in {"exact", "skip"}, NEW bytes \in Seq(Nat), cursor <= Len(bytes), SourceStep(bytes)
  PROVE  /\ ReadSane' /\ ReadEnd' = ReadEnd
         /\ call' \in {"none", call} /\ result' \in {"none", "whole", "failed"}
         /\ call' = "none" <=> result' # "none"
         /\ result' # "whole" => position <= position' /\ (remaining = 0 => position' = position)
         /\ remaining = 0 => UNCHANGED <<wanted, remaining>>
<1>1. /\ cursor \in Nat /\ position \in Nat /\ wanted \in Nat /\ remaining \in Nat /\ filled \in 0..wanted
      /\ result = "none" /\ cursor = position + filled
      /\ Len(bytes) \in Nat /\ call # "none"
  BY DEF ReadSane
<1>2. CASE Deliver(bytes)
  BY <1>1, <1>2 DEF Deliver, Asking, ReadSane, ReadEnd
<1>3. CASE EndOfFile(bytes)
  BY <1>1, <1>3 DEF EndOfFile, Asking, Answer, ReadSane, ReadEnd
<1>4. CASE ReadFails
  BY <1>1, <1>4 DEF ReadFails, Asking, Answer, ReadSane, ReadEnd
<1>5. CASE Whole
  BY <1>1, <1>5 DEF Whole, Answer, ReadSane, ReadEnd
<1>6. CASE NextChunk
  <2>1. SkipChunk \in Nat \ {0}
    BY SkipChunkAssumption
  <2>2. /\ wanted' \in Nat /\ remaining' \in Nat /\ wanted' + remaining' = remaining
        /\ position' = position + wanted /\ filled' = 0 /\ filled = wanted
        /\ remaining > 0 /\ UNCHANGED <<cursor, call, result>>
    BY <1>1, <1>6, <2>1 DEF NextChunk, Lesser
  <2>5. position' \in Nat /\ filled' \in 0..wanted' /\ cursor' = position' + filled' /\ result' = "none" /\ cursor' \in Nat
    BY <1>1, <2>2
  <2>6. position' + wanted' + remaining' = position + wanted + remaining
    BY <1>1, <2>2, <2>5, remaining = wanted' + remaining'
  <2>3. ReadSane' /\ ReadEnd' = ReadEnd
    BY <1>1, <2>2, <2>5, <2>6 DEF ReadSane, ReadEnd
  <2>4. call' = call /\ result' = "none" /\ position <= position'
    BY <1>1, <2>2
  <2> QED
    BY <1>1, <2>2, <2>3, <2>4
<1> QED
  BY <1>2, <1>3, <1>4, <1>5, <1>6 DEF SourceStep

-----------------------------------------------------------------------------------
(* Where the fields are *)

LEMMA FieldLensFacts ==
  /\ FieldLens \in Seq(Nat) /\ Len(FieldLens) = 12
  /\ FieldLens[1] = WordLen /\ FieldLens[2] = NameLen /\ FieldLens[3] = WordLen /\ FieldLens[4] = WordLen
  /\ FieldLens[5] = WordLen /\ FieldLens[6] = WordLen /\ FieldLens[7] = WordLen /\ FieldLens[8] = 2 * WordLen
  /\ FieldLens[9] = 3 /\ FieldLens[10] = 3 /\ FieldLens[11] = LabelLen /\ FieldLens[12] = 1
<1>1. WordLen \in Nat /\ NameLen \in Nat /\ LabelLen \in Nat /\ 2 * WordLen \in Nat
  BY BytesAssumption, LengthsAssumption
<1> DEFINE double == 2 * WordLen
<1>2. double \in Nat
  BY <1>1
<1> HIDE DEF double
<1>3. FieldLens = <<WordLen, NameLen, WordLen, WordLen, WordLen, WordLen, WordLen, double, 3, 3, LabelLen, 1>>
  BY DEF FieldLens, TimestampLen, double
<1> QED
  BY <1>1, <1>2, <1>3 DEF double

LEMMA OffsetsAddUp ==
  /\ Offset(1) = 0 /\ Offset(13) = HeaderLen
  /\ \A f \in 1..12: Offset(f) \in Nat /\ FieldLens[f] \in Nat /\ Offset(f + 1) = Offset(f) + FieldLens[f]
<1>1. FieldLens \in Seq(Nat) /\ Len(FieldLens) = 12
  BY FieldLensFacts
<1>2. \A f: Offset(f) = Total(SubSeq(FieldLens, 1, f - 1))
  BY Zenon DEF Offset, Total
<1>3. HeaderLen = Total(FieldLens)
  BY Zenon DEF HeaderLen, Total
<1>4. Offset(1) = 0
  <2>1. SubSeq(FieldLens, 1, 0) = << >>
    BY <1>1
  <2>2. 1 - 1 = 0
    OBVIOUS
  <2> QED
    BY <1>2, <2>1, <2>2, TotalEmpty
<1>5. Offset(13) = HeaderLen
  <2>1. SubSeq(FieldLens, 1, 12) = FieldLens
    BY <1>1, WholeSlice
  <2>2. 13 - 1 = 12
    OBVIOUS
  <2> QED
    BY <1>2, <1>3, <2>1, <2>2
<1>6. ASSUME NEW f \in 1..12
      PROVE  Offset(f) \in Nat /\ FieldLens[f] \in Nat /\ Offset(f + 1) = Offset(f) + FieldLens[f]
  <2> DEFINE n == f - 1
             front == SubSeq(FieldLens, 1, n)
  <2>1. n \in Nat /\ n < Len(FieldLens) /\ n <= Len(FieldLens) /\ n + 1 = f /\ (f + 1) - 1 = n + 1
    BY <1>1
  <2> HIDE DEF n
  <2>2. /\ FieldLens[n + 1] \in Nat
        /\ SubSeq(FieldLens, 1, n + 1) = Append(front, FieldLens[n + 1])
    BY <1>1, <2>1, NextSlice
  <2>3. front \in Seq(Nat)
    BY <1>1, <2>1, TwoSlices
  <2> HIDE DEF front
  <2>4. Total(front) \in Nat
    BY <2>3, TotalTyped
  <2>5. Total(Append(front, FieldLens[n + 1])) = Total(front) + FieldLens[n + 1]
    BY <2>2, <2>3, TotalAppend
  <2>6. Offset(f) = Total(front)
    BY <1>2, <2>1 DEF front, n
  <2>7. Offset(f + 1) = Total(SubSeq(FieldLens, 1, n + 1))
    BY <1>2, <2>1
  <2> QED
    BY <2>1, <2>2, <2>4, <2>5, <2>6, <2>7
<1> QED
  BY <1>4, <1>5, <1>6

-----------------------------------------------------------------------------------
(* Runs of bytes *)

LEMMA RunFacts ==
  ASSUME NEW f \in Files, NEW from \in Nat, NEW length \in Nat, Within(f, from, length)
  PROVE  /\ ByteRun(f, from, length) \in Seq(Byte) /\ Len(ByteRun(f, from, length)) = length
         /\ \A i \in 1..length: ByteRun(f, from, length)[i] = f.bytes[from + i]
<1>1. f.bytes \in Seq(Byte) /\ Len(f.bytes) \in Nat /\ from + length <= Len(f.bytes)
  BY FileBytes DEF Within
<1> HIDE DEF Byte
<1> DEFINE first == from + 1
           last  == from + length
<1>2. /\ first \in Int /\ last \in Int
      /\ (first <= last => last - first + 1 = length) /\ (~(first <= last) => length = 0)
      /\ \A i \in first..last: i \in 1..Len(f.bytes)
      /\ \A i \in 1..length: first + i - 1 = from + i /\ first <= last
  BY <1>1
<1>3. \A i \in first..last: f.bytes[i] \in Byte
  BY <1>1, <1>2
<1> HIDE DEF first, last
<1>4. /\ SubSeq(f.bytes, first, last) \in Seq(Byte)
      /\ Len(SubSeq(f.bytes, first, last)) = IF first <= last THEN last - first + 1 ELSE 0
      /\ \A i \in 1..(last - first + 1): SubSeq(f.bytes, first, last)[i] = f.bytes[first + i - 1]
  BY <1>2, <1>3, SubSeqProperties, SMTT(60)
<1> QED
  BY <1>2, <1>4 DEF ByteRun, first, last

(* The bytes of a buffer that is full are those from where the read began. *)
LEMMA BufferIsARun ==
  ASSUME NEW from \in Nat, NEW length \in Nat, cursor = from + length, wanted = length
  PROVE  SubSeq(file.bytes, cursor - wanted + 1, cursor) = ByteRun(file, from, length)
<1>1. cursor - wanted + 1 = from + 1
  OBVIOUS
<1> QED
  BY <1>1 DEF ByteRun

-----------------------------------------------------------------------------------
(* The header, field by field *)

HeaderReads ==
  phase = "header" =>
    /\ stage = "none"
    /\ \/ field = 1 /\ call = "none" /\ result = "none" /\ cursor = 0 /\ position = 0
       \/ /\ ReadSane /\ ReadEnd = Offset(field + 1) /\ AtOnce(FieldLens[field])
          /\ call \in {"none", FieldKinds[field]} /\ (call = "none" <=> result # "none")

FieldNames ==
  {"magic", "productName", "byteOrder", "nominalCaseSize", "compression", "weightOffset", "caseCount",
   "floatFormat", "bias", "date", "time", "fileLabel"}

WarningNames ==
  {"UnknownCompressionCode", "CompressionMismatch", "FloatFormatAssumed", "EncodingDeclarationMismatch",
   "EncodingDeclarationUnrecognized", "EncodingUnspecified", "CaseCountMismatch"}

(* What was read of a field is what was written there; and what was guessed was warned of. *)
MagicRead       == field > 1 => raw.magic = file.written.magic
ProductNameRead ==
  field > 2 => raw.productName = ByteRun(file, Offset(2), NameLen) /\ Within(file, Offset(2), NameLen)
OrderRead       == field > 3 => raw.byteOrder = {file.written.order}
CompressionRead ==
  field > 5 =>
    /\ raw.compression = Compression(file.written.code, file.written.magic)
    /\ raised = << >> =>
         file.written.code \in 0..2 /\ (file.written.code = 2) = (file.written.magic = FL3)
WeightRead      == field > 6 => raw.weightOffset = WeightOffset(file.written.weight)
CountRead       == field > 7 => raw.caseCount = DeclaredCount(file.written.cases)
FloatFormatRead ==
  field > 8 =>
    raw.floatFormat = file.written.bias.format /\ (raised = << >> => file.written.bias.canonical)
FileLabelRead   ==
  field > 11 => raw.fileLabel = ByteRun(file, Offset(11), LabelLen) /\ Within(file, Offset(11), LabelLen)

RawSoFar ==
  /\ DOMAIN raw = FieldNames
  /\ MagicRead /\ ProductNameRead /\ OrderRead /\ CompressionRead /\ WeightRead /\ CountRead
  /\ FloatFormatRead /\ FileLabelRead

HeaderInv ==
  /\ file \in Files /\ cursor <= Len(file.bytes)
  /\ field \in 1..12
  /\ raised \in Seq(WarningNames)
  /\ HeaderReads /\ RawSoFar

LEMMA FieldKindsAre ==
  /\ \A f \in 1..11: FieldKinds[f] = "exact"
  /\ FieldKinds[12] = "skip"
<1>1. DOMAIN FieldLens = 1..12 /\ Len(FieldLens) = 12
  BY FieldLensFacts
<1> QED
  BY <1>1 DEF FieldKinds

LEMMA ArrivedBytes ==
  ASSUME HeaderInv, NEW f \in 1..12, Arrived(f)
  PROVE  /\ ReadSane /\ position = Offset(f + 1) /\ result = "whole" /\ stage = "none" /\ field = f
         /\ Within(file, Offset(f), FieldLens[f])
         /\ Bytes = ByteRun(file, Offset(f), FieldLens[f])
         /\ Bytes \in Seq(Byte) /\ Len(Bytes) = FieldLens[f]
<1>1. phase = "header" /\ field = f /\ call = "none" /\ result = "whole"
  BY DEF Arrived
<1>2. stage = "none" /\ ReadSane /\ ReadEnd = Offset(f + 1)
  BY <1>1 DEF HeaderInv, HeaderReads
<1>3. position = Offset(f + 1) /\ cursor = position
  BY <1>1, <1>2 DEF ReadSane, ReadEnd
<1>4. Offset(f) \in Nat /\ FieldLens[f] \in Nat /\ Offset(f + 1) = Offset(f) + FieldLens[f]
  BY OffsetsAddUp
<1>5. Within(file, Offset(f), FieldLens[f])
  BY <1>3, <1>4 DEF Within, HeaderInv
<1>6. cursor - FieldLens[f] + 1 = Offset(f) + 1 /\ cursor = Offset(f) + FieldLens[f]
  BY <1>3, <1>4
<1>7. Bytes = ByteRun(file, Offset(f), FieldLens[f])
  BY <1>1, <1>6 DEF Bytes, ByteRun
<1> QED
  BY <1>1, <1>2, <1>3, <1>4, <1>5, <1>7, RunFacts DEF HeaderInv

(* A field read and parsed, and the next one asked for. *)
Moved(f, parsed, warned) ==
  /\ file' \in Files /\ cursor' <= Len(file'.bytes) /\ field' \in 1..12
  /\ raised' \in Seq(WarningNames) /\ HeaderReads'
  /\ file' = file /\ field = f /\ field' = f + 1 /\ raw' = parsed
  /\ raised' = << >> => raised = << >> /\ warned = << >>

LEMMA TakeReads ==
  ASSUME HeaderInv, NEW f \in 1..11, Arrived(f), NEW parsed, NEW warned \in Seq(WarningNames), Take(parsed, warned)
  PROVE  Moved(f, parsed, warned)
<1>1. /\ ReadSane /\ position = Offset(f + 1) /\ result = "whole" /\ stage = "none" /\ field = f
      /\ phase = "header"
  BY ArrivedBytes DEF Arrived
<1>2. f + 1 \in 1..12 /\ field' = f + 1 /\ UNCHANGED <<file, phase, stage>>
  BY <1>1 DEF Take, walk
<1>3. /\ FieldKinds[f + 1] \in {"exact", "skip"} /\ FieldLens[f + 1] \in Nat
      /\ FieldKinds[f + 1] = "exact" \/ FieldLens[f + 1] = 1
  <2>1. FieldLens[f + 1] \in Nat
    BY <1>2, OffsetsAddUp
  <2>2. CASE f + 1 \in 1..11
    BY <2>1, <2>2, FieldKindsAre
  <2>3. CASE f + 1 = 12
    BY <2>3, FieldKindsAre, FieldLensFacts
  <2> QED
    BY <1>2, <2>1, <2>2, <2>3
<1>4. Ask(FieldKinds[f + 1], FieldLens[f + 1])
  BY <1>2 DEF Take
<1>5. ReadEnd = Offset(f + 1) /\ Offset((f + 1) + 1) = Offset(f + 1) + FieldLens[f + 1]
  BY <1>1, <1>2, OffsetsAddUp DEF ReadEnd
<1>6. /\ ReadSane' /\ ReadEnd' = ReadEnd + FieldLens[f + 1]
      /\ call' = FieldKinds[f + 1] /\ result' = "none" /\ UNCHANGED <<cursor, position>>
      /\ AtOnce(FieldLens[f + 1])'
  BY <1>1, <1>3, <1>4, AskReads
<1>7. HeaderReads'
  BY <1>1, <1>2, <1>3, <1>5, <1>6 DEF HeaderReads, AtOnce
<1>8. raised' = raised \o warned /\ raw' = parsed
  BY DEF Take
<1>9. raised' \in Seq(WarningNames) /\ (raised' = << >> => raised = << >> /\ warned = << >>)
  BY <1>8, ConcatProperties, EmptySeq DEF HeaderInv
<1> QED
  BY <1>1, <1>2, <1>6, <1>7, <1>8, <1>9 DEF HeaderInv, Moved

LEMMA WrittenFacts ==
  ASSUME NEW f \in Files
  PROVE  HeaderLaidOut(f)
BY FilesAssumption DEF IsFile

LEMMA NumberIsWritten ==
  ASSUME HeaderInv, NEW f \in 4..7, Arrived(f)
  PROVE  /\ f = 4 => Number32 = file.written.nominal
         /\ f = 5 => Number32 = file.written.code
         /\ f = 6 => Number32 = file.written.weight
         /\ f = 7 => Number32 = file.written.cases
<1>1. f \in 1..12 /\ FieldLens[f] = WordLen
  BY FieldLensFacts
<1>2. /\ field = f /\ Within(file, Offset(f), WordLen)
      /\ Bytes = ByteRun(file, Offset(f), WordLen)
  BY <1>1, ArrivedBytes
<1>3. Order = file.written.order
  <2>1. raw.byteOrder = {file.written.order}
    BY <1>2 DEF HeaderInv, RawSoFar, OrderRead
  <2> QED
    BY <2>1 DEF Order
<1>4. Number32 = ReadI32(file.written.order, ByteRun(file, Offset(f), WordLen))
  BY <1>2, <1>3 DEF Number32
<1>5. HeaderLaidOut(file)
  BY WrittenFacts DEF HeaderInv
<1> HIDE DEF Number32
<1> QED
  BY <1>2, <1>4, <1>5 DEF HeaderLaidOut, SaysSigned

(* Only one byte order reads a layout code. *)
LEMMA LayoutTellsTheOrder ==
  ASSUME NEW f \in Files, Within(f, Offset(3), WordLen), LayoutOrder(ByteRun(f, Offset(3), WordLen)) # {}
  PROVE  LayoutOrder(ByteRun(f, Offset(3), WordLen)) = {f.written.order}
<1> DEFINE word == ByteRun(f, Offset(3), WordLen)
<1>1. HeaderLaidOut(f)
  BY WrittenFacts
<1>2. word \in [1..WordLen -> Byte]
  <2>1. Offset(3) \in Nat /\ WordLen \in Nat
    BY OffsetsAddUp, BytesAssumption
  <2>2. word \in Seq(Byte) /\ Len(word) = WordLen
    BY <2>1, RunFacts
  <2> HIDE DEF word, Byte
  <2> QED
    BY <2>2, LenProperties
<1>3. /\ f.written.order \in ByteOrders
      /\ f.written.layout \in LayoutCodes => ReadI32(f.written.order, word) \in LayoutCodes
      /\ f.written.layout \notin LayoutCodes => \A order \in ByteOrders: ReadI32(order, word) \notin LayoutCodes
  BY <1>1 DEF HeaderLaidOut, SaysSigned, ReadsAsNoLayout
<1> HIDE DEF word
<1>4. ByteOrders = {"BigEndian", "LittleEndian"}
  BY DEF ByteOrders
<1>5. PICK order \in ByteOrders: ReadI32(order, word) \in LayoutCodes /\ LayoutOrder(word) = {order}
  BY <1>4 DEF LayoutOrder, word
<1>6. order = f.written.order
  BY <1>2, <1>3, <1>5, OneOrderAssumption
<1> QED
  BY <1>5, <1>6 DEF word

LEMMA BiasIsWritten ==
  ASSUME NEW f \in Files, Within(f, Offset(8), 2 * WordLen)
  PROVE  LET bytes == ByteRun(f, Offset(8), 2 * WordLen)
         IN  /\ FloatFormat(bytes, f.written.order) = f.written.bias.format
             /\ BiasWarning(bytes, f.written.order) = << >> => f.written.bias.canonical
<1> DEFINE bytes == ByteRun(f, Offset(8), 2 * WordLen)
           w     == f.written
<1>1. /\ w.order \in ByteOrders
      /\ bytes = w.bias.bytes
      /\ w.bias.format \in FloatFormats
      /\ IF w.bias.canonical THEN w.bias.bytes = Canonical(w.bias.format, w.order)
         ELSE w.bias.format = "Ieee754" /\ w.bias.bytes \notin {Canonical(g, w.order): g \in FloatFormats}
  BY WrittenFacts DEF HeaderLaidOut, Holds
<1> HIDE DEF bytes, w
<1>2. CASE w.bias.canonical
  <2>1. FormatsOf(bytes, w.order) = {w.bias.format}
    BY <1>1, <1>2, CanonicalAssumption DEF FormatsOf
  <2> QED
    BY <1>2, <2>1 DEF FloatFormat, bytes, w
<1>3. CASE ~w.bias.canonical
  <2>1. FormatsOf(bytes, w.order) = {}
    BY <1>1, <1>3 DEF FormatsOf
  <2> QED
    BY <1>1, <1>3, <2>1 DEF FloatFormat, BiasWarning, bytes, w
<1> QED
  BY <1>2, <1>3

LEMMA CompressionWarns ==
  ASSUME NEW code \in Int, NEW magic
  PROVE  /\ CompressionWarning(code, magic) \in Seq(WarningNames)
         /\ CompressionWarning(code, magic) = << >> => code \in 0..2 /\ (code = 2) = (magic = FL3)
<1> DEFINE unknown == <<"UnknownCompressionCode">>
           mismatch == <<"CompressionMismatch">>
<1>1. /\ unknown \in Seq(WarningNames) /\ mismatch \in Seq(WarningNames) /\ << >> \in Seq(WarningNames)
      /\ unknown # << >> /\ mismatch # << >>
  BY DEF WarningNames
<1> HIDE DEF unknown, mismatch
<1>2. CompressionWarning(code, magic) =
        IF code \notin 0..2 THEN unknown ELSE IF (code = 2) # (magic = FL3) THEN mismatch ELSE << >>
  BY Zenon DEF CompressionWarning, unknown, mismatch
<1> QED
  BY <1>1, <1>2

LEMMA BiasWarns ==
  ASSUME NEW bytes, NEW order
  PROVE  BiasWarning(bytes, order) \in Seq(WarningNames)
<1>1. <<"FloatFormatAssumed">> \in Seq(WarningNames) /\ << >> \in Seq(WarningNames)
  BY DEF WarningNames
<1> QED
  BY <1>1, Zenon DEF BiasWarning

LEMMA FieldKeepsHeader ==
  ASSUME HeaderInv,
         \/ RecordType \/ ProductName \/ LayoutCode \/ NominalCaseSize \/ CompressionCode \/ WeightIndex
         \/ CaseCount \/ BiasField \/ CreationDate \/ CreationTime \/ FileLabel,
         phase' # "failed"
  PROVE  HeaderInv'
<1> USE DEF MagicRead, ProductNameRead, OrderRead, CompressionRead, WeightRead, CountRead,
            FloatFormatRead, FileLabelRead
<1>1. << >> \in Seq(WarningNames)
  OBVIOUS
<1>2. phase' # "failed"
  OBVIOUS
<1>3. RawSoFar /\ file \in Files
  BY DEF HeaderInv
<1>4. HeaderLaidOut(file)
  BY <1>3, WrittenFacts
<1>5. CASE RecordType
  <2>1. Arrived(1) /\ Take([raw EXCEPT !.magic = Bytes], << >>)
    BY <1>5, <1>2 DEF RecordType, Fail
  <2>2. Bytes = ByteRun(file, Offset(1), WordLen) /\ Within(file, Offset(1), WordLen)
    BY <2>1, ArrivedBytes, FieldLensFacts
  <2>3. Bytes = file.written.magic
    BY <1>4, <2>2 DEF HeaderLaidOut, Holds
  <2> HIDE DEF Bytes
  <2>7. 1 \in 1..11 /\ HeaderInv
    OBVIOUS
  <2>8. Moved(1, [raw EXCEPT !.magic = Bytes], << >>)
    BY <1>1, <2>1, <2>3, <2>7, TakeReads, Zenon
  <2>9. RawSoFar'
    BY <1>3, <2>8, <2>3 DEF Moved, RawSoFar, FieldNames
  <2> QED
    BY <2>8, <2>9 DEF Moved, HeaderInv
<1>6. CASE ProductName
  <2>1. Arrived(2) /\ Take([raw EXCEPT !.productName = Bytes], << >>)
    BY <1>6 DEF ProductName
  <2>2. Bytes = ByteRun(file, Offset(2), NameLen) /\ Within(file, Offset(2), NameLen)
    BY <2>1, ArrivedBytes, FieldLensFacts
  <2> HIDE DEF Bytes
  <2>7. 2 \in 1..11 /\ HeaderInv
    OBVIOUS
  <2>8. Moved(2, [raw EXCEPT !.productName = Bytes], << >>)
    BY <1>1, <2>1, <2>2, <2>7, TakeReads, Zenon
  <2>9. RawSoFar'
    BY <1>3, <2>8, <2>2 DEF Moved, RawSoFar, FieldNames
  <2> QED
    BY <2>8, <2>9 DEF Moved, HeaderInv
<1>7. CASE LayoutCode
  <2>1. Arrived(3) /\ Take([raw EXCEPT !.byteOrder = LayoutOrder(Bytes)], << >>)
    BY <1>7, <1>2 DEF LayoutCode, Fail
  <2>0. LayoutOrder(Bytes) # {}
    BY <1>7, <1>2 DEF LayoutCode, Fail
  <2>2. Bytes = ByteRun(file, Offset(3), WordLen) /\ Within(file, Offset(3), WordLen)
    BY <2>1, ArrivedBytes, FieldLensFacts
  <2>3. LayoutOrder(Bytes) = {file.written.order}
    BY <1>3, <2>0, <2>2, LayoutTellsTheOrder
  <2> HIDE DEF Bytes
  <2>7. 3 \in 1..11 /\ HeaderInv
    OBVIOUS
  <2>8. Moved(3, [raw EXCEPT !.byteOrder = LayoutOrder(Bytes)], << >>)
    BY <1>1, <2>1, <2>3, <2>7, TakeReads, Zenon
  <2>9. RawSoFar'
    BY <1>3, <2>8, <2>3 DEF Moved, RawSoFar, FieldNames
  <2> QED
    BY <2>8, <2>9 DEF Moved, HeaderInv
<1>8. CASE NominalCaseSize
  <2>1. Arrived(4) /\ Take([raw EXCEPT !.nominalCaseSize = DeclaredCount(Number32)], << >>)
    BY <1>8 DEF NominalCaseSize
  <2> HIDE DEF Number32
  <2>7. 4 \in 1..11 /\ HeaderInv
    OBVIOUS
  <2>8. Moved(4, [raw EXCEPT !.nominalCaseSize = DeclaredCount(Number32)], << >>)
    BY <1>1, <2>1, <2>7, TakeReads, Zenon
  <2>9. RawSoFar'
    BY <1>3, <2>8 DEF Moved, RawSoFar, FieldNames
  <2> QED
    BY <2>8, <2>9 DEF Moved, HeaderInv
<1>9. CASE CompressionCode
  <2>1. Arrived(5) /\ Take([raw EXCEPT !.compression = Compression(Number32, raw.magic)], CompressionWarning(Number32, raw.magic))
    BY <1>9 DEF CompressionCode
  <2>2. Number32 = file.written.code
    BY <2>1, NumberIsWritten
  <2> HIDE DEF Number32
  <2>3. raw.magic = file.written.magic /\ file.written.code \in Int
    BY <1>3, <1>4, <2>1 DEF RawSoFar, Arrived, HeaderLaidOut
  <2>4. /\ CompressionWarning(Number32, raw.magic) \in Seq(WarningNames)
        /\ CompressionWarning(Number32, raw.magic) = << >> =>
             file.written.code \in 0..2 /\ (file.written.code = 2) = (file.written.magic = FL3)
    BY <2>2, <2>3, CompressionWarns
  <2>7. 5 \in 1..11 /\ HeaderInv
    OBVIOUS
  <2>8. Moved(5, [raw EXCEPT !.compression = Compression(Number32, raw.magic)], CompressionWarning(Number32, raw.magic))
    BY <1>1, <2>1, <2>2, <2>3, <2>4, <2>7, TakeReads, Zenon
  <2>9. RawSoFar'
    BY <1>3, <2>8, <2>2, <2>3, <2>4 DEF Moved, RawSoFar, FieldNames
  <2> QED
    BY <2>8, <2>9 DEF Moved, HeaderInv
<1>10. CASE WeightIndex
  <2>1. Arrived(6) /\ Take([raw EXCEPT !.weightOffset = WeightOffset(Number32)], << >>)
    BY <1>10 DEF WeightIndex
  <2>2. Number32 = file.written.weight
    BY <2>1, NumberIsWritten
  <2> HIDE DEF Number32
  <2>7. 6 \in 1..11 /\ HeaderInv
    OBVIOUS
  <2>8. Moved(6, [raw EXCEPT !.weightOffset = WeightOffset(Number32)], << >>)
    BY <1>1, <2>1, <2>2, <2>7, TakeReads, Zenon
  <2>9. RawSoFar'
    BY <1>3, <2>8, <2>2 DEF Moved, RawSoFar, FieldNames
  <2> QED
    BY <2>8, <2>9 DEF Moved, HeaderInv
<1>11. CASE CaseCount
  <2>1. Arrived(7) /\ Take([raw EXCEPT !.caseCount = DeclaredCount(Number32)], << >>)
    BY <1>11 DEF CaseCount
  <2>2. Number32 = file.written.cases
    BY <2>1, NumberIsWritten
  <2> HIDE DEF Number32
  <2>7. 7 \in 1..11 /\ HeaderInv
    OBVIOUS
  <2>8. Moved(7, [raw EXCEPT !.caseCount = DeclaredCount(Number32)], << >>)
    BY <1>1, <2>1, <2>2, <2>7, TakeReads, Zenon
  <2>9. RawSoFar'
    BY <1>3, <2>8, <2>2 DEF Moved, RawSoFar, FieldNames
  <2> QED
    BY <2>8, <2>9 DEF Moved, HeaderInv
<1>12. CASE BiasField
  <2>1. Arrived(8) /\ Take([raw EXCEPT !.floatFormat = FloatFormat(Bytes, Order), !.bias = Bias(Bytes, Order)], BiasWarning(Bytes, Order))
    BY <1>12 DEF BiasField
  <2>2. Bytes = ByteRun(file, Offset(8), 2 * WordLen) /\ Within(file, Offset(8), 2 * WordLen)
    BY <2>1, ArrivedBytes, FieldLensFacts
  <2>3. Order = file.written.order
    BY <1>3, <2>1 DEF Order, Arrived, RawSoFar
  <2>4. /\ FloatFormat(Bytes, Order) = file.written.bias.format
        /\ BiasWarning(Bytes, Order) = << >> => file.written.bias.canonical
    BY <1>3, <2>2, <2>3, BiasIsWritten
  <2>5. BiasWarning(Bytes, Order) \in Seq(WarningNames)
    BY BiasWarns
  <2> HIDE DEF Bytes, Order
  <2>7. 8 \in 1..11 /\ HeaderInv
    OBVIOUS
  <2>8. Moved(8, [raw EXCEPT !.floatFormat = FloatFormat(Bytes, Order), !.bias = Bias(Bytes, Order)], BiasWarning(Bytes, Order))
    BY <1>1, <2>1, <2>4, <2>5, <2>7, TakeReads, Zenon
  <2>9. RawSoFar'
    BY <1>3, <2>8, <2>4, <2>5 DEF Moved, RawSoFar, FieldNames
  <2> QED
    BY <2>8, <2>9 DEF Moved, HeaderInv
<1>13. CASE CreationDate
  <2>1. Arrived(9) /\ Take([raw EXCEPT !.date = Bytes], << >>)
    BY <1>13 DEF CreationDate
  <2> HIDE DEF Bytes
  <2>7. 9 \in 1..11 /\ HeaderInv
    OBVIOUS
  <2>8. Moved(9, [raw EXCEPT !.date = Bytes], << >>)
    BY <1>1, <2>1, <2>7, TakeReads, Zenon
  <2>9. RawSoFar'
    BY <1>3, <2>8 DEF Moved, RawSoFar, FieldNames
  <2> QED
    BY <2>8, <2>9 DEF Moved, HeaderInv
<1>14. CASE CreationTime
  <2>1. Arrived(10) /\ Take([raw EXCEPT !.time = Bytes], << >>)
    BY <1>14 DEF CreationTime
  <2> HIDE DEF Bytes
  <2>7. 10 \in 1..11 /\ HeaderInv
    OBVIOUS
  <2>8. Moved(10, [raw EXCEPT !.time = Bytes], << >>)
    BY <1>1, <2>1, <2>7, TakeReads, Zenon
  <2>9. RawSoFar'
    BY <1>3, <2>8 DEF Moved, RawSoFar, FieldNames
  <2> QED
    BY <2>8, <2>9 DEF Moved, HeaderInv
<1>15. CASE FileLabel
  <2>1. Arrived(11) /\ Take([raw EXCEPT !.fileLabel = Bytes], << >>)
    BY <1>15 DEF FileLabel
  <2>2. Bytes = ByteRun(file, Offset(11), LabelLen) /\ Within(file, Offset(11), LabelLen)
    BY <2>1, ArrivedBytes, FieldLensFacts
  <2> HIDE DEF Bytes
  <2>7. 11 \in 1..11 /\ HeaderInv
    OBVIOUS
  <2>8. Moved(11, [raw EXCEPT !.fileLabel = Bytes], << >>)
    BY <1>1, <2>1, <2>2, <2>7, TakeReads, Zenon
  <2>9. RawSoFar'
    BY <1>3, <2>8, <2>2 DEF Moved, RawSoFar, FieldNames
  <2> QED
    BY <2>8, <2>9 DEF Moved, HeaderInv
<1> QED
  BY <1>5, <1>6, <1>7, <1>8, <1>9, <1>10, <1>11, <1>12, <1>13, <1>14, <1>15

LEMMA ReadKeepsHeader ==
  ASSUME HeaderInv, SourceStep(file.bytes), UNCHANGED <<walk, parsing>>, cursor' <= Len(file'.bytes)
  PROVE  HeaderInv'
<1>1. UNCHANGED <<file, phase, field, raw, raised, stage>>
  BY DEF parsing, walk
<1>2. RawSoFar'
  BY <1>1 DEF HeaderInv, RawSoFar, MagicRead, ProductNameRead, OrderRead, CompressionRead, WeightRead,
              CountRead, FloatFormatRead, FileLabelRead
<1>3. HeaderReads'
  <2> SUFFICES ASSUME phase = "header"
               PROVE  HeaderReads'
    BY <1>1 DEF HeaderReads
  <2>1. call # "none"
    BY DEF SourceStep, Deliver, EndOfFile, ReadFails, Whole, NextChunk, Asking
  <2>2. /\ ReadSane /\ ReadEnd = Offset(field + 1) /\ AtOnce(FieldLens[field])
        /\ call \in {"none", FieldKinds[field]} /\ stage = "none"
    BY <2>1 DEF HeaderInv, HeaderReads
  <2>3. field \in 1..11 \/ field = 12
    BY DEF HeaderInv
  <2>4. FieldKinds[field] \in {"exact", "skip"}
    BY <2>3, FieldKindsAre
  <2>5. file.bytes \in Seq(Nat) /\ cursor <= Len(file.bytes)
    BY FileBytes DEF HeaderInv
  <2>6. /\ ReadSane' /\ ReadEnd' = ReadEnd /\ call' \in {"none", call} /\ (call' = "none" <=> result' # "none")
        /\ UNCHANGED <<wanted, remaining>>
    BY <2>1, <2>2, <2>4, <2>5, StepReads DEF AtOnce
  <2> QED
    BY <1>1, <2>2, <2>6 DEF HeaderReads, AtOnce
<1> QED
  BY <1>1, <1>2, <1>3 DEF HeaderInv

-----------------------------------------------------------------------------------
(* The walk: what each read is of *)

(* The record in hand. *)
Here == file.dictionary[Len(scanned) + 1]

ReadTo(end)             == call \in {"none", "exact", "skip"} /\ ReadEnd = end
ExactRead(from, length) == ReadTo(from + length) /\ AtOnce(length)

VariableInHand ==
  Here.kind = "variable" /\ item = [kind |-> "variable", type |-> Here.type, missing |-> Here.missing]
LabelsInHand(n) ==
  /\ Here.kind = "value labels"
  /\ DOMAIN item = {"keys", "duplicate", "indices"} /\ item.indices = SubSeq(Here.indices, 1, n)
Entry == Here.entries[Len(Here.entries) - left + 1]
EntryInHand == LabelsInHand(0) /\ left \in 1..Len(Here.entries)
ExtensionInHand(size, count) ==
  /\ Here.kind = "extension"
  /\ item = [kind |-> "extension", subtype |-> Here.subtype, size |-> size, count |-> count]

TagSpot    == stage = "tag" /\ ExactRead(Here.at, WordLen)
FillerSpot == stage = "filler" /\ Here.kind = "end" /\ ReadTo(Here.at + WordLen + FillerLen)
BodySpot   == stage = "body" /\ Here.kind = "variable" /\ ExactRead(Here.at + WordLen, BodyLen)
LabelLengthSpot ==
  /\ stage = "label length" /\ VariableInHand /\ Here.labelled # 0
  /\ ExactRead(Here.at + WordLen + BodyLen, WordLen)
LabelSpot ==
  /\ stage = "label" /\ VariableInHand
  /\ ReadTo(Here.at + WordLen + BodyLen + LabelSize(Here))
MissingSpot ==
  /\ stage = "missing value" /\ VariableInHand /\ Scan!CountParses(Here.missing)
  /\ left \in 1..MissingEntries(Here.missing)
  /\ ReadTo(Here.at + Here.length - (left - 1) * EntryLen)
LabelCountSpot == stage = "label count" /\ Here.kind = "value labels" /\ ExactRead(Here.at + WordLen, WordLen)
ValueSpot       == stage = "value" /\ EntryInHand /\ ReadTo(Entry.at + EntryLen)
ValueLengthSpot == stage = "value label length" /\ EntryInHand /\ ExactRead(Entry.at + EntryLen, 1)
ValueLabelSpot  == stage = "value label" /\ EntryInHand /\ ReadTo(Entry.at + EntrySize(Entry))
PairSpot       == stage = "pair tag" /\ LabelsInHand(0) /\ ExactRead(Here.pairAt, WordLen)
IndexCountSpot == stage = "variable count" /\ LabelsInHand(0) /\ ExactRead(Here.pairAt + WordLen, WordLen)
IndexSpot ==
  /\ stage = "index" /\ left \in 1..Len(Here.indices) /\ LabelsInHand(Len(Here.indices) - left)
  /\ ExactRead(Here.pairAt + (Len(Here.indices) - left + 2) * WordLen, WordLen)
LineCountSpot == stage = "line count" /\ Here.kind = "document" /\ ExactRead(Here.at + WordLen, WordLen)
LineSpot ==
  /\ stage = "line" /\ Here.kind = "document" /\ left \in 1..Here.lines
  /\ ReadTo(Here.at + Here.length - (left - 1) * LineLen)
LinesSpot   == stage = "lines" /\ Here.kind = "document" /\ ReadTo(Here.at + Here.length)
SubtypeSpot == stage = "subtype" /\ Here.kind = "extension" /\ ExactRead(Here.at + WordLen, WordLen)
ElementSizeSpot ==
  stage = "element size" /\ ExtensionInHand(0, 0) /\ ExactRead(Here.at + 2 * WordLen, WordLen)
ElementCountSpot ==
  stage = "element count" /\ ExtensionInHand(Here.size, 0) /\ ExactRead(Here.at + 3 * WordLen, WordLen)
PayloadSpot ==
  /\ stage = "payload" /\ ExtensionInHand(Here.size, Here.count)
  /\ ReadTo(Here.at + Here.length)
  /\ Absorbed(Here.subtype) => AtOnce(Here.size * Here.count)

VariableSpot  == BodySpot \/ LabelLengthSpot \/ LabelSpot \/ MissingSpot
LabelsSpot    ==
  \/ LabelCountSpot \/ ValueSpot \/ ValueLengthSpot \/ ValueLabelSpot
  \/ PairSpot \/ IndexCountSpot \/ IndexSpot
DocumentSpot  == LineCountSpot \/ LineSpot \/ LinesSpot
ExtensionSpot == SubtypeSpot \/ ElementSizeSpot \/ ElementCountSpot \/ PayloadSpot
Spot == TagSpot \/ FillerSpot \/ VariableSpot \/ LabelsSpot \/ DocumentSpot \/ ExtensionSpot

(* In a sound dictionary the walk owes what the record in hand owes, and knows the place of every *)
(* primary before it.                                                                                *)
PrimariesPlaced(n) ==
  \A j \in 1..n:
    Primary(file.dictionary[j]) => \E i \in DOMAIN primaries: primaries[i] = file.dictionary[j].place
SoundSoFar ==
  /\ physical \in Nat /\ primaries \in Seq(Nat)
  /\ file.sound => pending = Here.owed /\ physical = Here.place /\ PrimariesPlaced(Len(scanned))

IsASequence(s) == s \in Seq(Range(s))

WalkInv ==
  /\ file \in Files /\ cursor <= Len(file.bytes)
  /\ scanning = "running" /\ ReadSane
  /\ IsASequence(scanned)
  /\ Len(scanned) + 1 \in 1..Len(file.dictionary)
  /\ Spot /\ SoundSoFar

ReadBytes == SubSeq(file.bytes, cursor - wanted + 1, cursor)
Signed    == ReadI32(file.written.order, ReadBytes)
Unsigned  == ReadU32(file.written.order, ReadBytes)

LEMMA HereFacts ==
  ASSUME file \in Files, Len(scanned) + 1 \in 1..Len(file.dictionary)
  PROVE  /\ IsRecord(file, Here)
         /\ Here.kind = "end" <=> Len(scanned) + 1 = Len(file.dictionary)
         /\ Here.kind # "end" =>
              /\ Len(scanned) + 2 \in 1..Len(file.dictionary)
              /\ file.dictionary[Len(scanned) + 2].at = Here.at + Here.length
<1> DEFINE n == Len(scanned) + 1
           dictionary == file.dictionary
<1>1. /\ Len(dictionary) \in Nat
      /\ \A i \in 1..Len(dictionary):
           /\ IsRecord(file, dictionary[i])
           /\ dictionary[i].kind = "end" <=> i = Len(dictionary)
           /\ i < Len(dictionary) => dictionary[i + 1].at = dictionary[i].at + dictionary[i].length
  BY FilesAssumption DEF IsFile, DictionaryLaidOut
<1>2. n \in 1..Len(dictionary)
  OBVIOUS
<1>3. Here = dictionary[n]
  BY DEF Here
<1> HIDE DEF n, dictionary
<1>4. n + 1 = Len(scanned) + 2
  <2>1. Len(scanned) \in Int
    BY <1>1, <1>2 DEF n
  <2> QED
    BY <2>1 DEF n
<1> QED
  BY <1>1, <1>2, <1>3, <1>4 DEF n, dictionary

-----------------------------------------------------------------------------------
(* A step of the walk asks for the next read of the record in hand, or turns to the next record, *)
(* or stops.                                                                                       *)

Goes(next, length) ==
  /\ stage' = next /\ UNCHANGED scan /\ Here' = Here
  /\ ReadSane' /\ ReadEnd' = ReadEnd + length /\ call' \in {"none", "exact", "skip"}

Asked == UNCHANGED scan /\ Here' = Here /\ ReadSane' /\ Spot'

EncodingSaid(says, told) ==
  \/ says = {} /\ told = Scan!Undeclared
  \/ told \in EncodingNames /\ says = {told}

Envelope == [kind: {"extension"}, subtype: Int, size: Nat, count: Nat, payload: Seq(Byte)]

CountSaidBy(envelope, says) ==
  IsCount(envelope) => says = {ReadI64(file.written.order, Slab(envelope.payload, 2, 2 * WordLen))}

VariableTurn ==
  /\ Here.kind = "variable"
  /\ physical' = physical + 1
  /\ IF Here.type = Scan!Continuation THEN pending' = pending - 1 /\ UNCHANGED primaries
     ELSE pending' = Scan!Units(Here.type) - 1 /\ primaries' = Append(primaries, physical)
  /\ UNCHANGED <<envelopes, label, codepage>>
PassedTurn ==
  /\ Here.kind \in {"value labels", "document"}
  /\ UNCHANGED <<pending, physical, primaries, envelopes, label, codepage>>
ExtensionTurn ==
  /\ Here.kind = "extension"
  /\ UNCHANGED <<pending, physical, primaries>>
  /\ IF Here.subtype = 20 THEN EncodingSaid(Here.says, label') ELSE UNCHANGED label
  /\ IF Here.subtype = 3 THEN EncodingSaid(Here.says, codepage') ELSE UNCHANGED codepage
  /\ IF Here.subtype = 16
     THEN \E e \in Envelope: e.subtype = 16 /\ envelopes' = Append(envelopes, e) /\ CountSaidBy(e, Here.says)
     ELSE \/ UNCHANGED envelopes
          \/ \E e \in Envelope: e.subtype # 16 /\ envelopes' = Append(envelopes, e)
Turn == VariableTurn \/ PassedTurn \/ ExtensionTurn

Turned ==
  /\ Turn
  /\ scanning' = "running" /\ IsASequence(scanned') /\ Len(scanned') = Len(scanned) + 1
  /\ stage' = "tag" /\ ReadSane' /\ call' = "exact" /\ AtOnce(WordLen)'
  /\ ReadEnd' = Here.at + Here.length + WordLen

Stopped ==
  /\ UNCHANGED <<source, scanned, envelopes, label, codepage>>
  /\ stage' = "over" /\ call = "none"
  /\ \/ scanning' = "done" /\ Here.kind = "end" /\ position = Here.at + Here.length /\ cursor = position
     \/ /\ scanning' \in Scan!Errors
        /\ file.sound => scanning' = "Io" /\ cursor < Len(file.bytes)

WalkStep == Asked \/ Turned \/ Stopped

-----------------------------------------------------------------------------------
(* What one read leads to *)

LEMMA WholeEnds ==
  ASSUME WalkInv, NEW here, Reached(here)
  PROVE  stage = here /\ call = "none" /\ result = "whole" /\ position = ReadEnd /\ cursor = position
BY DEF Reached, WalkInv, ReadSane, ReadEnd

LEMMA AsksGo ==
  ASSUME WalkInv, result = "whole", UNCHANGED file,
         NEW next, NEW kind \in {"exact", "skip"}, NEW length \in Nat, Asks(next, kind, length)
  PROVE  /\ Goes(next, length) /\ (kind = "exact" => AtOnce(length)') /\ (length = 1 => AtOnce(length)')
         /\ kind = "exact" => wanted' = length /\ remaining' = 0
<1>1. stage' = next /\ Ask(kind, length) /\ UNCHANGED scan
  BY DEF Asks
<1>2. Here' = Here
  BY <1>1 DEF Here, scan
<1>3. ReadSane
  BY DEF WalkInv
<1>4. kind = "exact" => wanted' = length /\ remaining' = 0
  BY <1>1 DEF Ask
<1> QED
  BY <1>1, <1>2, <1>3, <1>4, AskReads DEF Goes

LEMMA TurnReads ==
  ASSUME WalkInv, result = "whole", TurnOver
  PROVE  /\ stage' = "tag" /\ ReadSane' /\ call' = "exact" /\ AtOnce(WordLen)'
         /\ ReadEnd' = ReadEnd + WordLen
<1>1. stage' = "tag" /\ Ask("exact", WordLen) /\ WordLen \in Nat
  BY BytesAssumption DEF TurnOver
<1>2. ReadSane
  BY DEF WalkInv
<1> QED
  BY <1>1, <1>2, AskReads

(* The bytes of a read that is whole are those of its place in the file. *)
LEMMA BytesHere ==
  ASSUME WalkInv, NEW from \in Nat, NEW length \in Nat, ExactRead(from, length), call = "none", result = "whole"
  PROVE  /\ ReadBytes = ByteRun(file, from, length) /\ Within(file, from, length)
         /\ ReadBytes \in Seq(Byte) /\ Len(ReadBytes) = length
<1>1. cursor = from + length /\ wanted = length
  BY DEF WalkInv, ReadSane, ExactRead, ReadTo, ReadEnd, AtOnce
<1>2. ReadBytes = ByteRun(file, from, length)
  BY <1>1, BufferIsARun DEF ReadBytes
<1>3. Within(file, from, length)
  BY <1>1 DEF Within, WalkInv
<1> QED
  BY <1>2, <1>3, RunFacts DEF WalkInv

LEMMA NumbersHere ==
  ASSUME WalkInv, NEW from \in Nat, NEW length \in Nat, ExactRead(from, length), call = "none", result = "whole",
         NEW n
  PROVE  /\ SaysSigned(file, from, length, n) => Signed = n
         /\ SaysUnsigned(file, from, length, n) => Unsigned = n
BY BytesHere DEF SaysSigned, SaysUnsigned, Signed, Unsigned

LEMMA HereIsARecord ==
  ASSUME WalkInv
  PROVE  /\ Here.kind \in RecordKinds /\ Here.at \in Nat /\ Here.length \in Nat
         /\ Here.kind = "variable" => IsVariable(file, Here)
         /\ Here.kind = "value labels" => IsValueLabels(file, Here)
         /\ Here.kind = "document" => IsDocument(file, Here)
         /\ Here.kind = "extension" => IsExtension(file, Here)
         /\ Here.kind = "end" => IsEnd(file, Here)
         /\ Here.kind = "other" => IsOther(file, Here)
<1>1. IsRecord(file, Here)
  BY HereFacts DEF WalkInv
<1> QED
  BY <1>1 DEF IsRecord

LEMMA LengthsAreNumbers ==
  /\ WordLen \in Nat /\ EntryLen \in Nat /\ RestLen \in Nat /\ LineLen \in Nat /\ FillerLen \in Nat
  /\ LabelPadding \in Nat \ {0} /\ EntryAlignment \in Nat \ {0} /\ BodyLen \in Nat
BY BytesAssumption, LengthsAssumption DEF BodyLen

(* The stage tells which read is in hand. *)
LEMMA SpotsByStage ==
  ASSUME WalkInv
  PROVE  /\ stage = "tag" => TagSpot
         /\ stage = "filler" => FillerSpot
         /\ stage = "body" => BodySpot
         /\ stage = "label length" => LabelLengthSpot
         /\ stage = "label" => LabelSpot
         /\ stage = "missing value" => MissingSpot
         /\ stage = "label count" => LabelCountSpot
         /\ stage = "value" => ValueSpot
         /\ stage = "value label length" => ValueLengthSpot
         /\ stage = "value label" => ValueLabelSpot
         /\ stage = "pair tag" => PairSpot
         /\ stage = "variable count" => IndexCountSpot
         /\ stage = "index" => IndexSpot
         /\ stage = "line count" => LineCountSpot
         /\ stage = "line" => LineSpot
         /\ stage = "lines" => LinesSpot
         /\ stage = "subtype" => SubtypeSpot
         /\ stage = "element size" => ElementSizeSpot
         /\ stage = "element count" => ElementCountSpot
         /\ stage = "payload" => PayloadSpot
         /\ stage \notin {"none", "over"}
<1>1. Spot
  BY DEF WalkInv
<1> QED
  BY <1>1
     DEF Spot, TagSpot, FillerSpot, VariableSpot, BodySpot, LabelLengthSpot, LabelSpot, MissingSpot,
         LabelsSpot, LabelCountSpot, ValueSpot, ValueLengthSpot, ValueLabelSpot, PairSpot, IndexCountSpot, IndexSpot,
         DocumentSpot, LineCountSpot, LineSpot, LinesSpot,
         ExtensionSpot, SubtypeSpot, ElementSizeSpot, ElementCountSpot, PayloadSpot

LEMMA TagTells ==
  ASSUME WalkInv, Reached("tag")
  PROVE  /\ position = Here.at + WordLen
         /\ Here.kind = "variable" => Signed = 2
         /\ Here.kind = "value labels" => Signed = 3
         /\ Here.kind = "document" => Signed = 6
         /\ Here.kind = "extension" => Signed = 7
         /\ Here.kind = "end" => Signed = TerminatorType
         /\ Here.kind = "other" => Signed \in Int \ {2, 3, 6, 7, TerminatorType}
<1>1. TagSpot
  BY SpotsByStage DEF Reached
<1>2. /\ Here.at \in Nat /\ WordLen \in Nat /\ ExactRead(Here.at, WordLen)
      /\ call = "none" /\ result = "whole"
  BY <1>1, HereIsARecord, LengthsAreNumbers DEF TagSpot, Reached
<1>3. \A n: SaysSigned(file, Here.at, WordLen, n) => Signed = n
  BY <1>2, NumbersHere
<1>4. position = Here.at + WordLen
  BY <1>2, WholeEnds DEF ExactRead, ReadTo
<1> QED
  BY <1>3, <1>4, HereIsARecord DEF IsVariable, IsValueLabels, IsDocument, IsExtension, IsEnd, IsOther

LEMMA SoundHere ==
  ASSUME WalkInv, file.sound
  PROVE  /\ pending = Here.owed /\ physical = Here.place /\ PrimariesPlaced(Len(scanned))
         /\ Here.kind # "other"
         /\ Here.owed > 0 <=> Here.kind = "variable" /\ Here.type = Scan!Continuation
         /\ Here.owed \in Nat
         /\ Here.kind = "variable" => Scan!TypeParses(Here.type) /\ Scan!CountParses(Here.missing)
         /\ Within(file, Here.at, Here.length)
         /\ SoundRecord(file.dictionary, Len(scanned) + 1)
<1>1. Sound(file)
  BY FilesAssumption DEF WalkInv, IsFile
<1>2. SoundRecord(file.dictionary, Len(scanned) + 1) /\ Within(file, Here.at, Here.length)
  BY <1>1 DEF Sound, WalkInv, Here
<1>3. pending = Here.owed /\ physical = Here.place /\ PrimariesPlaced(Len(scanned))
  BY DEF WalkInv, SoundSoFar
<1> QED
  BY <1>2, <1>3 DEF SoundRecord, Here

LEMMA OverStops ==
  ASSUME call = "none", Over, NEW kind \in Scan!Errors, Scan!Stop(kind),
         file.sound => kind = "Io" /\ cursor < Len(file.bytes)
  PROVE  Stopped
BY DEF Over, Scan!Stop, Stopped

LEMMA KindsByTag ==
  ASSUME WalkInv, Reached("tag")
  PROVE  /\ Signed = 2 => Here.kind = "variable"
         /\ Signed = 3 => Here.kind = "value labels"
         /\ Signed = 6 => Here.kind = "document"
         /\ Signed = 7 => Here.kind = "extension"
         /\ Signed = TerminatorType => Here.kind = "end"
         /\ Signed = 4 \/ Signed \notin {2, 3, 6, 7, TerminatorType} => Here.kind = "other"
<1>1. /\ TerminatorType # 2 /\ TerminatorType # 3 /\ TerminatorType # 4 /\ TerminatorType # 6
      /\ TerminatorType # 7
  BY LengthsAssumption
<1>2. Here.kind \in {"variable", "value labels", "document", "extension", "end", "other"}
  BY HereIsARecord DEF RecordKinds
<1>3. CASE Here.kind = "variable"
  <2>1. Signed = 2
    BY <1>3, TagTells
  <2>2. Signed # 3 /\ Signed # 4 /\ Signed # 6 /\ Signed # 7 /\ Signed # TerminatorType
    BY <1>1, <2>1
  <2> QED
    BY <1>3, <2>1, <2>2, Zenon
<1>4. CASE Here.kind = "value labels"
  <2>1. Signed = 3
    BY <1>4, TagTells
  <2>2. Signed # 2 /\ Signed # 4 /\ Signed # 6 /\ Signed # 7 /\ Signed # TerminatorType
    BY <1>1, <2>1
  <2> QED
    BY <1>4, <2>1, <2>2, Zenon
<1>5. CASE Here.kind = "document"
  <2>1. Signed = 6
    BY <1>5, TagTells
  <2>2. Signed # 2 /\ Signed # 3 /\ Signed # 4 /\ Signed # 7 /\ Signed # TerminatorType
    BY <1>1, <2>1
  <2> QED
    BY <1>5, <2>1, <2>2, Zenon
<1>6. CASE Here.kind = "extension"
  <2>1. Signed = 7
    BY <1>6, TagTells
  <2>2. Signed # 2 /\ Signed # 3 /\ Signed # 4 /\ Signed # 6 /\ Signed # TerminatorType
    BY <1>1, <2>1
  <2> QED
    BY <1>6, <2>1, <2>2, Zenon
<1>7. CASE Here.kind = "end"
  <2>1. Signed = TerminatorType
    BY <1>7, TagTells
  <2>2. Signed # 2 /\ Signed # 3 /\ Signed # 4 /\ Signed # 6 /\ Signed # 7
    BY <1>1, <2>1
  <2> QED
    BY <1>7, <2>1, <2>2, Zenon
<1>8. CASE Here.kind = "other"
  <2>1. Signed \notin {2, 3, 6, 7, TerminatorType}
    BY <1>8, TagTells
  <2> QED
    BY <1>8, <2>1, Zenon
<1> QED
  BY <1>2, <1>3, <1>4, <1>5, <1>6, <1>7, <1>8, Zenon

LEMMA VariableTagStep ==
  ASSUME WalkInv, UNCHANGED file, VariableTag(Signed)
  PROVE  WalkStep
<1>1. Reached("tag") /\ Signed = 2 /\ Asks("body", "exact", BodyLen)
  BY DEF VariableTag
<1>2. Here.kind = "variable"
  BY <1>1, KindsByTag
<1>3. ReadEnd = Here.at + WordLen
  BY <1>1, TagTells, WholeEnds
<1>4. Goes("body", BodyLen) /\ AtOnce(BodyLen)'
  BY <1>1, WholeEnds, AsksGo, LengthsAreNumbers
<1>5. BodySpot'
  BY <1>2, <1>3, <1>4 DEF Goes, BodySpot, ExactRead, ReadTo
<1> QED
  BY <1>4, <1>5 DEF Goes, WalkStep, Asked, Spot, VariableSpot

LEMMA OtherTagStep ==
  ASSUME WalkInv, UNCHANGED file, OtherTag(Signed)
  PROVE  WalkStep
<1>1. Reached("tag") /\ Signed # 2 /\ Here.kind # "variable"
  BY TagTells DEF OtherTag
<1>2. ReadEnd = Here.at + WordLen /\ call = "none" /\ result = "whole"
  BY <1>1, TagTells, WholeEnds
<1>3. Here.kind \in RecordKinds /\ WordLen \in Nat /\ FillerLen \in Nat /\ Here.at \in Nat
  BY HereIsARecord, LengthsAreNumbers
<1>5. CASE pending > 0 /\ Scan!RunCutShort /\ Over
  <2>1. ~file.sound
    BY <1>1, <1>5, SoundHere
  <2>2. Scan!Stop("MissingContinuationRecord") /\ "MissingContinuationRecord" \in Scan!Errors
    BY <1>5 DEF Scan!RunCutShort, Scan!Errors
  <2> QED
    BY <1>2, <1>5, <2>1, <2>2, OverStops DEF WalkStep
<1>6. CASE Signed = TerminatorType /\ Asks("filler", "skip", FillerLen)
  <2>1. Here.kind = "end"
    BY <1>1, <1>6, KindsByTag
  <2>2. Goes("filler", FillerLen)
    BY <1>2, <1>3, <1>6, AsksGo
  <2>3. FillerSpot'
    BY <1>2, <1>3, <2>1, <2>2 DEF Goes, FillerSpot, ReadTo
  <2> QED
    BY <2>2, <2>3 DEF Goes, WalkStep, Asked, Spot
<1>7. CASE Signed \in DOMAIN FirstRead /\ Asks(FirstRead[Signed], "exact", WordLen)
  <2>1. Signed \in {3, 6, 7}
    BY <1>7 DEF FirstRead
  <2>2. Goes(FirstRead[Signed], WordLen) /\ AtOnce(WordLen)'
    BY <1>2, <1>3, <1>7, AsksGo
  <2>3. CASE Signed = 3
    <3>1. Here.kind = "value labels"
      BY <1>1, <2>3, KindsByTag
    <3>2. FirstRead[Signed] = "label count"
      BY <2>3 DEF FirstRead
    <3>3. LabelCountSpot'
      BY <1>2, <1>3, <2>2, <3>1, <3>2 DEF Goes, LabelCountSpot, ExactRead, ReadTo
    <3> QED
      BY <2>2, <3>3 DEF Goes, WalkStep, Asked, Spot, LabelsSpot
  <2>4. CASE Signed = 6
    <3>1. Here.kind = "document"
      BY <1>1, <2>4, KindsByTag
    <3>2. FirstRead[Signed] = "line count"
      BY <2>4 DEF FirstRead
    <3>3. LineCountSpot'
      BY <1>2, <1>3, <2>2, <3>1, <3>2 DEF Goes, LineCountSpot, ExactRead, ReadTo
    <3> QED
      BY <2>2, <3>3 DEF Goes, WalkStep, Asked, Spot, DocumentSpot
  <2>5. CASE Signed = 7
    <3>1. Here.kind = "extension"
      BY <1>1, <2>5, KindsByTag
    <3>2. FirstRead[Signed] = "subtype"
      BY <2>5 DEF FirstRead
    <3>3. SubtypeSpot'
      BY <1>2, <1>3, <2>2, <3>1, <3>2 DEF Goes, SubtypeSpot, ExactRead, ReadTo
    <3> QED
      BY <2>2, <3>3 DEF Goes, WalkStep, Asked, Spot, ExtensionSpot
  <2> QED
    BY <2>1, <2>3, <2>4, <2>5
<1>8. CASE Signed = 4 /\ Scan!Unpaired /\ Over
  <2>1. Here.kind = "other"
    BY <1>1, <1>8, KindsByTag
  <2>2. ~file.sound
    BY <2>1, SoundHere
  <2>3. Scan!Stop("UnpairedValueLabelRecord") /\ "UnpairedValueLabelRecord" \in Scan!Errors
    BY <1>8 DEF Scan!Unpaired, Scan!Errors
  <2> QED
    BY <1>2, <1>8, <2>2, <2>3, OverStops DEF WalkStep
<1>9. CASE Signed \notin {TerminatorType, 4} \cup DOMAIN FirstRead /\ Scan!UnknownRecordType /\ Over
  <2>1. Signed \notin {3, 6, 7, TerminatorType}
    BY <1>9 DEF FirstRead
  <2>2. Here.kind = "other"
    BY <1>1, <2>1, KindsByTag
  <2>3. ~file.sound
    BY <2>2, SoundHere
  <2>4. Scan!Stop("UnknownRecordType") /\ "UnknownRecordType" \in Scan!Errors
    BY <1>9 DEF Scan!UnknownRecordType, Scan!Errors
  <2> QED
    BY <1>2, <1>9, <2>3, <2>4, OverStops DEF WalkStep
<1> QED
  BY <1>5, <1>6, <1>7, <1>8, <1>9 DEF OtherTag

LEMMA FillerStep ==
  ASSUME WalkInv, UNCHANGED file, Filler
  PROVE  WalkStep
<1>1. Reached("filler") /\ Scan!Stop("done") /\ Over
  BY DEF Filler, Scan!ReadTerminator
<1>2. FillerSpot /\ call = "none" /\ position = ReadEnd /\ cursor = position
  BY <1>1, WholeEnds, SpotsByStage
<1>3. Here.kind = "end" /\ position = Here.at + WordLen + FillerLen
  BY <1>2 DEF FillerSpot, ReadTo
<1>4. Here.length = WordLen + FillerLen /\ Here.at \in Nat /\ WordLen \in Nat /\ FillerLen \in Nat
  BY <1>3, HereIsARecord, LengthsAreNumbers DEF IsEnd
<1>5. position = Here.at + Here.length
  BY <1>3, <1>4
<1>6. Stopped
  BY <1>1, <1>2, <1>3, <1>5 DEF Over, Scan!Stop, Stopped
<1> QED
  BY <1>6 DEF WalkStep

-----------------------------------------------------------------------------------
(* Parts of a run, and lengths brought up to whole units *)

LEMMA PartFacts ==
  ASSUME NEW T, NEW s \in Seq(T), NEW from \in Nat, NEW length \in Nat, from + length <= Len(s)
  PROVE  /\ SubSeq(s, from + 1, from + length) \in Seq(T) /\ Len(SubSeq(s, from + 1, from + length)) = length
         /\ \A i \in 1..length: SubSeq(s, from + 1, from + length)[i] = s[from + i]
<1>1. Len(s) \in Nat /\ \A i \in 1..Len(s): s[i] \in T
  OBVIOUS
<1> DEFINE first == from + 1
           last  == from + length
<1>2. /\ first \in Int /\ last \in Int
      /\ (first <= last => last - first + 1 = length) /\ (~(first <= last) => length = 0)
      /\ \A i \in first..last: i \in 1..Len(s)
      /\ \A i \in 1..length: first + i - 1 = from + i /\ first <= last
  BY <1>1
<1>3. \A i \in first..last: s[i] \in T
  BY <1>1, <1>2
<1> HIDE DEF first, last
<1>4. /\ SubSeq(s, first, last) \in Seq(T)
      /\ Len(SubSeq(s, first, last)) = IF first <= last THEN last - first + 1 ELSE 0
      /\ \A i \in 1..(last - first + 1): SubSeq(s, first, last)[i] = s[first + i - 1]
  BY <1>2, <1>3, SubSeqProperties, SMTT(60)
<1> QED
  BY <1>2, <1>4 DEF first, last

LEMMA PartOfARun ==
  ASSUME NEW f \in Files, NEW from \in Nat, NEW length \in Nat, Within(f, from, length),
         NEW gap \in Nat, NEW size \in Nat, gap + size <= length
  PROVE  /\ SubSeq(ByteRun(f, from, length), gap + 1, gap + size) = ByteRun(f, from + gap, size)
         /\ Within(f, from + gap, size)
<1> DEFINE run == ByteRun(f, from, length)
<1>1. run \in Seq(Byte) /\ Len(run) = length /\ \A i \in 1..length: run[i] = f.bytes[from + i]
  BY RunFacts
<1>2. Within(f, from + gap, size) /\ from + gap \in Nat
  BY FileBytes DEF Within
<1> DEFINE whole == ByteRun(f, from + gap, size)
           part  == SubSeq(run, gap + 1, gap + size)
<1>3. whole \in Seq(Byte) /\ Len(whole) = size /\ \A i \in 1..size: whole[i] = f.bytes[(from + gap) + i]
  BY <1>2, RunFacts
<1> HIDE DEF run, whole, Byte
<1>4. part \in Seq(Byte) /\ Len(part) = size /\ \A i \in 1..size: part[i] = run[gap + i]
  <2>1. gap + size <= Len(run)
    BY <1>1
  <2> QED
    BY <1>1, <2>1, PartFacts
<1> HIDE DEF part
<1>5. \A i \in 1..size: gap + i \in 1..length /\ from + (gap + i) = (from + gap) + i
  OBVIOUS
<1>6. \A i \in 1..size: part[i] = whole[i]
  BY <1>1, <1>3, <1>4, <1>5
<1>7. part = whole
  BY <1>3, <1>4, <1>6, SeqEqual
<1> QED
  BY <1>2, <1>7 DEF part, whole, run

LEMMA SlabOfARun ==
  ASSUME NEW f \in Files, NEW from \in Nat, NEW length \in Nat, Within(f, from, length),
         NEW gap \in Nat, NEW size \in Nat, gap + size <= length,
         NEW index \in Nat, (index - 1) * size = gap
  PROVE  /\ Slab(ByteRun(f, from, length), index, size) = ByteRun(f, from + gap, size)
         /\ Within(f, from + gap, size)
<1>1. index * size = gap + size
  OBVIOUS
<1> QED
  BY <1>1, PartOfARun DEF Slab

LEMMA WholeUnits ==
  ASSUME NEW length \in Nat, NEW k \in Nat, NEW unit \in Nat \ {0}, Fills(length, k, unit)
  PROVE  RoundUp(length, unit) = k * unit
<1> DEFINE n == length + unit - 1
           p == n \div unit
<1>1. n \in Nat
  OBVIOUS
<1>2. k * unit <= n /\ n < (k + 1) * unit
  BY DEF Fills
<1>3. p \in Int /\ p * unit <= n /\ n < (p + 1) * unit
  <2> HIDE DEF n
  <2>1. p \in Int /\ n = unit * p + (n % unit) /\ n % unit \in 0..(unit - 1)
    BY <1>1
  <2> QED
    BY <1>1, <2>1
<1> HIDE DEF n, p
<1>4. ~(p < k)
  <2> SUFFICES ASSUME p < k PROVE FALSE
    OBVIOUS
  <2>1. p + 1 <= k
    BY <1>3
  <2>2. (p + 1) * unit <= k * unit
    BY <1>3, <2>1
  <2>3. (p + 1) * unit \in Int /\ k * unit \in Int
    BY <1>3
  <2> QED
    BY <1>1, <1>2, <1>3, <2>2, <2>3
<1>5. ~(k < p)
  <2> SUFFICES ASSUME k < p PROVE FALSE
    OBVIOUS
  <2>1. k + 1 <= p
    BY <1>3
  <2>2. (k + 1) * unit <= p * unit
    BY <1>3, <2>1
  <2>3. (k + 1) * unit \in Int /\ p * unit \in Int
    BY <1>3
  <2> QED
    BY <1>1, <1>2, <1>3, <2>2, <2>3
<1>6. p = k
  BY <1>3, <1>4, <1>5
<1> QED
  BY <1>6 DEF RoundUp, n, p

-----------------------------------------------------------------------------------
(* Variable records *)

LEMMA ScanReads ==
  ASSUME WalkInv, NEW record, Scan!Read(record)
  PROVE  IsASequence(scanned') /\ Len(scanned') = Len(scanned) + 1 /\ scanning' = "running"
<1>1. scanned' = Append(scanned, record) /\ scanning' = "running" /\ scanned \in Seq(Range(scanned))
  BY DEF Scan!Read, WalkInv, IsASequence
<1> DEFINE T == Range(scanned) \cup {record}
<1>2. Len(scanned) \in Nat /\ \A i \in 1..Len(scanned): scanned[i] \in T
  BY <1>1
<1>3. scanned \in Seq(T)
  BY <1>1, <1>2
<1>4. scanned' \in Seq(T) /\ Len(scanned') = Len(scanned) + 1 /\ DOMAIN scanned' = 1..Len(scanned')
  <2> HIDE DEF T
  <2>1. record \in T
    BY DEF T
  <2> QED
    BY <1>1, <1>3, <2>1
<1>5. \A i \in 1..Len(scanned'): scanned'[i] \in Range(scanned')
  BY <1>4 DEF Range
<1>6. scanned' \in Seq(Range(scanned'))
  <2> DEFINE new == scanned'
  <2>1. new = [i \in 1..Len(new) |-> new[i]] /\ Len(new) \in Nat
    BY <1>4
  <2>2. \A i \in 1..Len(new): new[i] \in Range(new)
    BY <1>5
  <2> HIDE DEF new
  <2>3. new \in Seq(Range(new))
    BY <2>1, <2>2
  <2> QED
    BY <2>3 DEF new
<1> QED
  BY <1>1, <1>4, <1>6 DEF IsASequence

LEMMA OneFewer ==
  ASSUME NEW n \in Int, NEW size \in Int
  PROVE  (n - 1) * size = n * size - size /\ (n - 1) * size \in Int /\ n * size \in Int
OBVIOUS

VariableHere == [kind |-> "variable", type |-> Here.type, missing |-> Here.missing]

LEMMA VariableTurns ==
  ASSUME WalkInv, UNCHANGED file, Here.kind = "variable", result = "whole",
         ReadEnd = Here.at + Here.length, VariableRead(VariableHere)
  PROVE  Turned
<1> DEFINE record == VariableHere
<1>1. TurnOver /\ record.type = Here.type
  BY DEF VariableRead, VariableHere
<1>2. stage' = "tag" /\ ReadSane' /\ call' = "exact" /\ AtOnce(WordLen)' /\ ReadEnd' = Here.at + Here.length + WordLen
  BY <1>1, TurnReads
<1>3. CASE Scan!ReadPrimary(record)
  <2>1. /\ Scan!Read(record) /\ Here.type # Scan!Continuation
        /\ pending' = Scan!Units(Here.type) - 1 /\ physical' = physical + 1
        /\ primaries' = Append(primaries, physical) /\ UNCHANGED <<envelopes, label, codepage>>
    BY <1>1, <1>3 DEF Scan!ReadPrimary, Scan!Continuations, Scan!Numeric, Scan!Continuation
  <2>2. Turn
    BY <2>1 DEF Turn, VariableTurn
  <2> QED
    BY <1>2, <2>1, <2>2, ScanReads DEF Turned
<1>4. CASE Scan!ReadContinuation(record)
  <2>1. /\ Scan!Read(record) /\ Here.type = Scan!Continuation
        /\ pending' = pending - 1 /\ physical' = physical + 1
        /\ UNCHANGED <<primaries, envelopes, label, codepage>>
    BY <1>1, <1>4 DEF Scan!ReadContinuation
  <2>2. Turn
    BY <2>1 DEF Turn, VariableTurn
  <2> QED
    BY <1>2, <2>1, <2>2, ScanReads DEF Turned
<1> QED
  BY <1>3, <1>4 DEF VariableRead

LEMMA RefusalStops ==
  ASSUME WalkInv, call = "none", NEW record, Scan!VariableFails(record), Over, ~file.sound
  PROVE  WalkStep
<1>1. \E kind \in Scan!Errors: Scan!Stop(kind)
  BY DEF Scan!VariableFails, Scan!Errors
<1> QED
  BY <1>1, OverStops DEF WalkStep

LEMMA AfterLabelStep ==
  ASSUME WalkInv, UNCHANGED file, Here.kind = "variable", call = "none", result = "whole",
         ReadEnd = Here.at + WordLen + BodyLen + LabelSize(Here), AfterLabel(VariableHere)
  PROVE  WalkStep
<1> DEFINE record == VariableHere
<1>1. record.type = Here.type /\ record.missing = Here.missing /\ record.kind = "variable"
  BY DEF VariableHere
<1>2. /\ Here.missing \in Int /\ EntryLen \in Nat
      /\ Here.length = WordLen + BodyLen + LabelSize(Here) + MissingEntries(Here.missing) * EntryLen
  BY HereIsARecord, LengthsAreNumbers DEF IsVariable
<1>3. /\ Here.at \in Nat /\ WordLen \in Nat /\ BodyLen \in Nat /\ ReadEnd \in Nat
  BY HereIsARecord, LengthsAreNumbers DEF WalkInv, ReadSane, ReadEnd
<1>4. CASE ~Scan!CountParses(Here.missing) /\ Scan!VariableFails(record) /\ Over
  <2>1. ~file.sound
    BY <1>4, SoundHere
  <2> QED
    BY <1>4, <2>1, RefusalStops
<1>5. CASE Here.missing = 0 /\ VariableRead(record)
  <2>1. MissingEntries(Here.missing) * EntryLen = 0
    BY <1>2, <1>5 DEF MissingEntries
  <2>2. LabelSize(Here) \in Int
    BY <1>3, <1>2, HereIsARecord, LengthsAreNumbers DEF LabelSize, IsVariable
  <2>3. ReadEnd = Here.at + Here.length
    BY <1>2, <1>3, <2>1, <2>2
  <2>4. Turned
    BY <1>5, <2>3, VariableTurns
  <2> QED
    BY <2>4 DEF WalkStep
<1>6. CASE Scan!CountParses(Here.missing) /\ Here.missing # 0 /\ MissingValues(record)
  <2>1. left' = MissingEntries(Here.missing) /\ item' = record /\ Asks("missing value", "exact", EntryLen)
    BY <1>1, <1>6 DEF MissingValues
  <2>2. MissingEntries(Here.missing) \in Nat \ {0}
    BY <1>2, <1>6 DEF MissingEntries
  <2>3. Goes("missing value", EntryLen)
    BY <1>2, <2>1, AsksGo
  <2>4. LabelSize(Here) \in Int
    BY <1>3, <1>2, HereIsARecord, LengthsAreNumbers DEF LabelSize, IsVariable
  <2>5. VariableInHand'
    BY <2>1, <2>3 DEF Goes, VariableInHand, VariableHere
  <2> DEFINE entries == MissingEntries(Here.missing)
  <2>6. ReadEnd' = Here.at + Here.length - (entries - 1) * EntryLen
    <3>1. ReadEnd' = Here.at + WordLen + BodyLen + LabelSize(Here) + EntryLen
      BY <2>3 DEF Goes
    <3> DEFINE size == LabelSize(Here)
               length == Here.length
               at == Here.at
               all == entries * EntryLen
               rest == (entries - 1) * EntryLen
    <3>2. rest = all - EntryLen /\ all \in Int /\ rest \in Int /\ size \in Int /\ length = WordLen + BodyLen + size + all
      BY <1>2, <2>2, <2>4
    <3> HIDE DEF entries, size, length, at, all, rest
    <3>3. ReadEnd' = at + WordLen + BodyLen + size + EntryLen /\ at \in Int
      BY <1>3, <3>1 DEF size, at
    <3>4. ReadEnd' = at + length - rest
      BY <1>2, <1>3, <3>2, <3>3
    <3> QED
      BY <3>4 DEF at, length, rest
  <2>7. MissingSpot'
    <3>1. MissingEntries(Here.missing)' = MissingEntries(Here.missing) /\ Scan!CountParses(Here.missing)'
      BY <1>6, <2>3 DEF Goes
    <3>2. left' \in 1..MissingEntries(Here.missing)
      <4>1. left' = MissingEntries(Here.missing)
        BY <2>1
      <4>2. left' \in 1..left'
        BY <2>2, <4>1
      <4> QED
        BY <4>1, <4>2
    <3>3. ReadTo(Here.at + Here.length - (left - 1) * EntryLen)'
      BY <2>1, <2>3, <2>6 DEF Goes, ReadTo
    <3> QED
      BY <2>3, <2>5, <3>1, <3>2, <3>3 DEF Goes, MissingSpot
  <2> QED
    BY <2>3, <2>7 DEF Goes, WalkStep, Asked, Spot, VariableSpot
<1> QED
  BY <1>1, <1>4, <1>5, <1>6 DEF AfterLabel

LEMMA BodyFields ==
  ASSUME WalkInv, Reached("body")
  PROVE  /\ Here.kind = "variable" /\ call = "none" /\ result = "whole"
         /\ ReadEnd = Here.at + WordLen + BodyLen
         /\ ReadI32(file.written.order, Slab(ReadBytes, 1, WordLen)) = Here.type
         /\ ReadI32(file.written.order, Slab(ReadBytes, 2, WordLen)) = Here.labelled
         /\ ReadI32(file.written.order, Slab(ReadBytes, 3, WordLen)) = Here.missing
<1>1. BodySpot /\ call = "none" /\ result = "whole"
  BY SpotsByStage DEF Reached
<1>2. /\ Here.kind = "variable" /\ ExactRead(Here.at + WordLen, BodyLen)
      /\ Here.at + WordLen \in Nat /\ BodyLen \in Nat /\ WordLen \in Nat /\ RestLen \in Nat
      /\ BodyLen = 3 * WordLen + RestLen /\ Here.at \in Nat /\ file \in Files
  BY <1>1, HereIsARecord, LengthsAreNumbers DEF BodySpot, WalkInv, BodyLen
<1>3. ReadBytes = ByteRun(file, Here.at + WordLen, BodyLen) /\ Within(file, Here.at + WordLen, BodyLen)
  BY <1>1, <1>2, BytesHere
<1>4. /\ SaysSigned(file, Here.at + WordLen, WordLen, Here.type)
      /\ SaysSigned(file, Here.at + (2 * WordLen), WordLen, Here.labelled)
      /\ SaysSigned(file, Here.at + (3 * WordLen), WordLen, Here.missing)
  BY <1>2, HereIsARecord DEF IsVariable
<1>5. /\ (Here.at + WordLen) + 0 = Here.at + WordLen
      /\ (Here.at + WordLen) + WordLen = Here.at + (2 * WordLen)
      /\ (Here.at + WordLen) + (2 * WordLen) = Here.at + (3 * WordLen)
  BY <1>2
<1>6. /\ Slab(ReadBytes, 1, WordLen) = ByteRun(file, Here.at + WordLen, WordLen)
      /\ Within(file, Here.at + WordLen, WordLen)
  <2> DEFINE none == 0
             one  == 1
             from == Here.at + WordLen
  <2>1. /\ none \in Nat /\ one \in Nat /\ (one - 1) * WordLen = none /\ none + WordLen <= BodyLen
        /\ from + none = from /\ from \in Nat
    BY <1>2
  <2>2. ReadBytes = ByteRun(file, from, BodyLen) /\ Within(file, from, BodyLen)
    BY <1>3
  <2> HIDE DEF none, one, from, BodyLen
  <2>3. /\ Slab(ReadBytes, one, WordLen) = ByteRun(file, from, WordLen)
        /\ Within(file, from, WordLen)
    BY <1>2, <2>1, <2>2, SlabOfARun
  <2> QED
    BY <2>3 DEF one, from
<1>7. /\ Slab(ReadBytes, 2, WordLen) = ByteRun(file, Here.at + (2 * WordLen), WordLen)
      /\ Within(file, Here.at + (2 * WordLen), WordLen)
  <2>1. (2 - 1) * WordLen = WordLen /\ WordLen + WordLen <= BodyLen
    BY <1>2
  <2> QED
    BY <1>2, <1>3, <1>5, <2>1, SlabOfARun
<1>8. /\ Slab(ReadBytes, 3, WordLen) = ByteRun(file, Here.at + (3 * WordLen), WordLen)
      /\ Within(file, Here.at + (3 * WordLen), WordLen)
  <2>1. (3 - 1) * WordLen = 2 * WordLen /\ (2 * WordLen) + WordLen <= BodyLen /\ 2 * WordLen \in Nat
    BY <1>2
  <2> QED
    BY <1>2, <1>3, <1>5, <2>1, SlabOfARun
<1>9. ReadEnd = Here.at + WordLen + BodyLen
  BY <1>2 DEF ExactRead, ReadTo
<1> QED
  BY <1>1, <1>2, <1>4, <1>6, <1>7, <1>8, <1>9 DEF SaysSigned

LEMMA VariableBodyStep ==
  ASSUME WalkInv, UNCHANGED file, VariableBody(file.written.order, ReadBytes)
  PROVE  WalkStep
<1>1. /\ Reached("body")
      /\ ReadI32(file.written.order, Slab(ReadBytes, 1, WordLen)) = Here.type
      /\ ReadI32(file.written.order, Slab(ReadBytes, 2, WordLen)) = Here.labelled
      /\ ReadI32(file.written.order, Slab(ReadBytes, 3, WordLen)) = Here.missing
      /\ Here.kind = "variable" /\ call = "none" /\ result = "whole"
      /\ ReadEnd = Here.at + WordLen + BodyLen
  BY BodyFields DEF VariableBody
<1> DEFINE record == VariableHere
<1>2. \/ RefusedAtOnce(record) /\ Scan!VariableFails(record) /\ Over
      \/ /\ ~RefusedAtOnce(record) /\ Here.labelled # 0
         /\ Asks("label length", "exact", WordLen) /\ item' = record
      \/ ~RefusedAtOnce(record) /\ Here.labelled = 0 /\ AfterLabel(record)
  BY <1>1 DEF VariableBody, VariableHere
<1>3. record.type = Here.type /\ record.missing = Here.missing
  BY DEF VariableHere
<1>4. CASE RefusedAtOnce(record) /\ Scan!VariableFails(record) /\ Over
  <2>1. ~file.sound
    BY <1>1, <1>3, <1>4, SoundHere DEF RefusedAtOnce
  <2> QED
    BY <1>1, <1>4, <2>1, RefusalStops
<1>5. CASE Here.labelled # 0 /\ Asks("label length", "exact", WordLen) /\ item' = record
  <2>1. Goes("label length", WordLen) /\ AtOnce(WordLen)'
    BY <1>1, <1>5, AsksGo, LengthsAreNumbers
  <2>2. LabelLengthSpot'
    BY <1>1, <1>5, <2>1 DEF Goes, LabelLengthSpot, VariableInHand, VariableHere, ExactRead, ReadTo
  <2> QED
    BY <2>1, <2>2 DEF Goes, WalkStep, Asked, Spot, VariableSpot
<1>6. CASE Here.labelled = 0 /\ AfterLabel(record)
  <2>1. ReadEnd = Here.at + WordLen + BodyLen + LabelSize(Here)
    <3>1. LabelSize(Here) = 0 /\ Here.at \in Nat /\ WordLen \in Nat /\ BodyLen \in Nat
      BY <1>6, HereIsARecord, LengthsAreNumbers DEF LabelSize
    <3> QED
      BY <1>1, <3>1
  <2> QED
    BY <1>1, <1>6, <2>1, AfterLabelStep
<1> QED
  BY <1>2, <1>4, <1>5, <1>6

LEMMA VariableLabelLengthStep ==
  ASSUME WalkInv, UNCHANGED file, VariableLabelLength(Unsigned)
  PROVE  WalkStep
<1>1. /\ Reached("label length") /\ call = "none" /\ result = "whole"
      /\ Asks("label", "exact", RoundUp(Unsigned, LabelPadding)) /\ UNCHANGED item
  BY DEF VariableLabelLength, Reached
<1>2. /\ VariableInHand /\ Here.kind = "variable" /\ Here.labelled # 0
      /\ ExactRead(Here.at + WordLen + BodyLen, WordLen)
  BY <1>1, SpotsByStage DEF LabelLengthSpot, VariableInHand, Reached
<1>3. /\ Here.label.length \in Nat /\ Here.label.units \in Nat
      /\ SaysUnsigned(file, Here.at + WordLen + BodyLen, WordLen, Here.label.length)
      /\ Fills(Here.label.length, Here.label.units, LabelPadding)
      /\ LabelSize(Here) = WordLen + Here.label.units * LabelPadding
  BY <1>2, HereIsARecord DEF IsVariable, LabelSize
<1>4. Here.at \in Nat /\ WordLen \in Nat /\ BodyLen \in Nat /\ LabelPadding \in Nat \ {0}
  BY HereIsARecord, LengthsAreNumbers
<1>5. Unsigned = Here.label.length
  <2>1. Here.at + WordLen + BodyLen \in Nat
    BY <1>4
  <2> QED
    BY <1>1, <1>2, <1>3, <1>4, <2>1, NumbersHere
<1>6. RoundUp(Unsigned, LabelPadding) = Here.label.units * LabelPadding
  BY <1>3, <1>4, <1>5, WholeUnits
<1> DEFINE size == Here.label.units * LabelPadding
<1>7. size \in Nat
  BY <1>3, <1>4
<1> HIDE DEF size
<1>8. Goes("label", size)
  BY <1>1, <1>6, <1>7, AsksGo DEF size
<1>9. ReadEnd = (Here.at + WordLen + BodyLen) + WordLen
  BY <1>2 DEF ExactRead, ReadTo
<1>10. ReadEnd' = Here.at + WordLen + BodyLen + LabelSize(Here)
  <2>1. LabelSize(Here) = WordLen + size /\ ReadEnd' = ((Here.at + WordLen + BodyLen) + WordLen) + size
    BY <1>3, <1>8, <1>9 DEF Goes, size
  <2> QED
    BY <1>4, <1>7, <2>1
<1>11. LabelSpot'
  <2>1. VariableInHand'
    BY <1>1, <1>2, <1>8 DEF VariableInHand, Goes
  <2>2. ReadTo(Here.at + WordLen + BodyLen + LabelSize(Here))'
    <3>1. LabelSize(Here)' = LabelSize(Here)
      BY <1>8 DEF Goes, LabelSize
    <3> QED
      BY <1>8, <1>10, <3>1 DEF Goes, ReadTo
  <2> QED
    BY <1>8, <2>1, <2>2 DEF Goes, LabelSpot
<1> QED
  BY <1>8, <1>11 DEF Goes, WalkStep, Asked, Spot, VariableSpot

LEMMA VariableLabelStep ==
  ASSUME WalkInv, UNCHANGED file, VariableLabel
  PROVE  WalkStep
<1>1. Reached("label") /\ call = "none" /\ result = "whole" /\ AfterLabel(item)
  BY DEF VariableLabel, Reached
<1>2. LabelSpot
  BY <1>1, SpotsByStage DEF Reached
<1>3. Here.kind = "variable" /\ item = VariableHere /\ ReadEnd = Here.at + WordLen + BodyLen + LabelSize(Here)
  BY <1>2 DEF LabelSpot, VariableInHand, VariableHere, ReadTo
<1> QED
  BY <1>1, <1>3, AfterLabelStep

LEMMA MissingValueStep ==
  ASSUME WalkInv, UNCHANGED file, MissingValue
  PROVE  WalkStep
<1>1. Reached("missing value") /\ call = "none" /\ result = "whole"
  BY DEF MissingValue, Reached
<1>2. /\ VariableInHand /\ Here.kind = "variable" /\ item = VariableHere /\ Scan!CountParses(Here.missing)
      /\ left \in 1..MissingEntries(Here.missing)
      /\ ReadEnd = Here.at + Here.length - (left - 1) * EntryLen
  BY <1>1, SpotsByStage DEF MissingSpot, VariableInHand, VariableHere, ReadTo, Reached
<1>3. EntryLen \in Nat /\ Here.at \in Nat /\ Here.length \in Nat /\ left \in Nat
  BY <1>2, HereIsARecord, LengthsAreNumbers
<1>4. CASE left = 1
  <2>1. ReadEnd = Here.at + Here.length
    BY <1>2, <1>3, <1>4
  <2>2. Turned
    BY <1>1, <1>2, <1>4, <2>1, VariableTurns DEF MissingValue
  <2> QED
    BY <2>2 DEF WalkStep
<1>5. CASE left # 1
  <2>1. Asks("missing value", "exact", EntryLen) /\ left' = left - 1 /\ UNCHANGED item
    BY <1>5 DEF MissingValue
  <2>2. Goes("missing value", EntryLen)
    BY <1>1, <1>3, <2>1, AsksGo
  <2>3. ReadEnd' = Here.at + Here.length - (left' - 1) * EntryLen
    <3> DEFINE now == (left - 1) * EntryLen
               next == (left' - 1) * EntryLen
               at == Here.at
               length == Here.length
    <3>1. next = now - EntryLen /\ next \in Int /\ now \in Int /\ at \in Int /\ length \in Int
      <4>1. next = ((left - 1) - 1) * EntryLen
        BY <2>1
      <4>2. /\ ((left - 1) - 1) * EntryLen = (left - 1) * EntryLen - EntryLen
            /\ ((left - 1) - 1) * EntryLen \in Int /\ (left - 1) * EntryLen \in Int
        BY <1>3, OneFewer
      <4> QED
        BY <1>3, <4>1, <4>2
    <3>2. ReadEnd' = (at + length - now) + EntryLen
      BY <1>2, <2>2 DEF Goes
    <3> HIDE DEF now, next, at, length
    <3>3. ReadEnd' = at + length - next
      BY <1>3, <3>1, <3>2
    <3> QED
      BY <3>3 DEF at, length, next
  <2>4. MissingSpot'
    <3>1. MissingEntries(Here.missing)' = MissingEntries(Here.missing) /\ Scan!CountParses(Here.missing)'
      BY <1>2, <2>2 DEF Goes
    <3>2. left' \in 1..MissingEntries(Here.missing)
      <4> DEFINE entries == MissingEntries(Here.missing)
      <4>1. entries \in Int
        BY <1>2, HereIsARecord DEF MissingEntries, IsVariable
      <4>2. left \in 1..entries /\ left # 1 /\ left' = left - 1
        BY <1>2, <1>5, <2>1
      <4> HIDE DEF entries
      <4>3. left' \in 1..entries
        BY <4>1, <4>2
      <4> QED
        BY <4>3 DEF entries
    <3>3. VariableInHand'
      BY <1>2, <2>1, <2>2 DEF Goes, VariableInHand
    <3>4. ReadTo(Here.at + Here.length - (left - 1) * EntryLen)'
      BY <2>2, <2>3 DEF Goes, ReadTo
    <3> QED
      BY <2>2, <3>1, <3>2, <3>3, <3>4 DEF Goes, MissingSpot
  <2> QED
    BY <2>2, <2>4 DEF Goes, WalkStep, Asked, Spot, VariableSpot
<1> QED
  BY <1>4, <1>5

-----------------------------------------------------------------------------------
(* Sets of value labels *)

LEMMA NotTheFirst ==
  ASSUME NEW m \in Nat, NEW n \in 0..m, n # 0
  PROVE  n \in 1..m
OBVIOUS

LEMMA NothingTaken ==
  ASSUME NEW T, NEW s \in Seq(T)
  PROVE  SubSeq(s, 1, 0) = << >>
OBVIOUS

LEMMA LabelsFacts ==
  ASSUME WalkInv, Here.kind = "value labels"
  PROVE  /\ IsValueLabels(file, Here)
         /\ Here.pairAt \in Nat /\ Len(Here.entries) \in Nat /\ Len(Here.indices) \in Nat
         /\ Here.indices \in Seq(Nat) /\ Here.at \in Nat /\ Here.length \in Nat
         /\ WordLen \in Nat /\ EntryLen \in Nat /\ EntryAlignment \in Nat \ {0}
         /\ SubSeq(Here.indices, 1, 0) = << >>
<1>1. IsValueLabels(file, Here)
  BY HereIsARecord
<1>2. /\ Here.pairAt \in Nat /\ Len(Here.entries) \in Nat /\ Len(Here.indices) \in Nat
      /\ Here.indices \in Seq(Nat)
  BY <1>1 DEF IsValueLabels
<1>3. SubSeq(Here.indices, 1, 0) = << >>
  <2>1. Here.indices \in Seq(Nat)
    BY <1>2
  <2> QED
    BY <2>1, NothingTaken
<1> QED
  BY <1>1, <1>2, <1>3, HereIsARecord, LengthsAreNumbers

LEMMA NextEntryStep ==
  ASSUME WalkInv, UNCHANGED file, call = "none", result = "whole", Here.kind = "value labels",
         NEW n \in 0..Len(Here.entries), NextEntry(n),
         ReadEnd = IF n = 0 THEN Here.pairAt ELSE Here.entries[Len(Here.entries) - n + 1].at,
         DOMAIN item' = {"keys", "duplicate", "indices"}, item'.indices = << >>
  PROVE  WalkStep
<1>1. WordLen \in Nat /\ EntryLen \in Nat /\ SubSeq(Here.indices, 1, 0) = << >>
  BY LabelsFacts
<1>2. ASSUME Here' = Here
      PROVE  LabelsInHand(0)'
  BY <1>1, <1>2 DEF LabelsInHand
<1>3. CASE n = 0
  <2>1. Asks("pair tag", "exact", WordLen) /\ left' = 0
    BY <1>3 DEF NextEntry
  <2>2. Goes("pair tag", WordLen) /\ AtOnce(WordLen)'
    BY <1>1, <2>1, AsksGo
  <2>3. PairSpot'
    BY <1>2, <1>3, <2>2 DEF Goes, PairSpot, ExactRead, ReadTo
  <2> QED
    BY <2>2, <2>3 DEF Goes, WalkStep, Asked, Spot, LabelsSpot
<1>4. CASE n # 0
  <2>1. Asks("value", "exact", EntryLen) /\ left' = n
    BY <1>4 DEF NextEntry
  <2>2. Goes("value", EntryLen)
    BY <1>1, <2>1, AsksGo
  <2>3. Entry' = Here.entries[Len(Here.entries) - n + 1]
    BY <2>1, <2>2 DEF Goes, Entry
  <2>4. left' \in 1..Len(Here'.entries)
    <3>1. n \in 1..Len(Here.entries)
      <4>1. Len(Here.entries) \in Nat
        BY LabelsFacts
      <4> QED
        BY <1>4, <4>1, NotTheFirst
    <3>2. left' = n /\ Here' = Here
      BY <2>1, <2>2 DEF Goes
    <3> QED
      BY <3>1, <3>2
  <2>5. EntryInHand'
    BY <1>2, <2>2, <2>4 DEF Goes, EntryInHand
  <2>6. ValueSpot'
    BY <1>4, <2>2, <2>3, <2>5 DEF Goes, ValueSpot, ReadTo
  <2> QED
    BY <2>2, <2>6 DEF Goes, WalkStep, Asked, Spot, LabelsSpot
<1> QED
  BY <1>3, <1>4

LEMMA LabelCountStep ==
  ASSUME WalkInv, UNCHANGED file, LabelCount(Unsigned)
  PROVE  WalkStep
<1>1. /\ Reached("label count") /\ call = "none" /\ result = "whole" /\ NextEntry(Unsigned)
      /\ item' = [keys |-> {}, duplicate |-> FALSE, indices |-> << >>]
  BY DEF LabelCount, Reached
<1>2. Here.kind = "value labels" /\ ExactRead(Here.at + WordLen, WordLen)
  BY <1>1, SpotsByStage DEF LabelCountSpot, Reached
<1>3. Here.at + WordLen \in Nat /\ WordLen \in Nat /\ Here.at \in Nat
  <2>1. WordLen \in Nat /\ Here.at \in Nat
    BY <1>2, LabelsFacts
  <2> QED
    BY <2>1
<1>4. Unsigned = Len(Here.entries)
  <2>1. SaysUnsigned(file, Here.at + WordLen, WordLen, Len(Here.entries))
    BY <1>2, LabelsFacts DEF IsValueLabels
  <2> QED
    BY <1>1, <1>2, <1>3, <2>1, NumbersHere
<1>5. ReadEnd = Here.at + (2 * WordLen)
  <2>1. ReadEnd = (Here.at + WordLen) + WordLen
    BY <1>2 DEF ExactRead, ReadTo
  <2> QED
    BY <1>3, <2>1
<1> DEFINE n == Len(Here.entries)
<1>6. n \in Nat /\ n \in 0..n
  <2>1. n \in Nat
    BY <1>2, LabelsFacts
  <2> QED
    BY <2>1
<1>7. /\ n = 0 => Here.pairAt = Here.at + (2 * WordLen)
      /\ n # 0 => Here.entries[1].at = Here.at + (2 * WordLen)
  BY <1>2, LabelsFacts DEF IsValueLabels
<1>8. n - n + 1 = 1
  BY <1>6
<1>9. ReadEnd = IF n = 0 THEN Here.pairAt ELSE Here.entries[Len(Here.entries) - n + 1].at
  BY <1>5, <1>7, <1>8
<1>10. DOMAIN item' = {"keys", "duplicate", "indices"} /\ item'.indices = << >>
  BY <1>1
<1> QED
  BY <1>1, <1>2, <1>4, <1>6, <1>9, <1>10, NextEntryStep

LEMMA EntryFacts ==
  ASSUME WalkInv, EntryInHand
  PROVE  /\ Here.kind = "value labels" /\ left \in Nat
         /\ DOMAIN item = {"keys", "duplicate", "indices"} /\ item.indices = << >>
         /\ Entry.at \in Nat /\ Entry.length \in Nat /\ Entry.units \in Nat
         /\ SaysUnsigned(file, Entry.at + EntryLen, 1, Entry.length)
         /\ Fills(Entry.length + 1, Entry.units, EntryAlignment)
         /\ left - 1 \in 0..Len(Here.entries)
         /\ Entry.at + EntrySize(Entry) =
              IF left - 1 = 0 THEN Here.pairAt ELSE Here.entries[Len(Here.entries) - (left - 1) + 1].at
         /\ Entry.at + EntrySize(Entry) <= Here.pairAt
<1>1. /\ Here.kind = "value labels" /\ left \in 1..Len(Here.entries)
      /\ DOMAIN item = {"keys", "duplicate", "indices"} /\ item.indices = SubSeq(Here.indices, 1, 0)
  BY DEF EntryInHand, LabelsInHand
<1>2. Len(Here.entries) \in Nat /\ SubSeq(Here.indices, 1, 0) = << >> /\ IsValueLabels(file, Here)
  BY <1>1, LabelsFacts
<1> DEFINE n == Len(Here.entries)
           i == n - left + 1
<1>3. i \in 1..n /\ (i = n <=> left - 1 = 0) /\ i + 1 = n - (left - 1) + 1 /\ left - 1 \in 0..n /\ left \in Nat
  <2>1. n \in Nat /\ left \in 1..n
    BY <1>1, <1>2
  <2> QED
    BY <2>1
<1>4. \A j \in 1..Len(Here.entries):
           /\ Here.entries[j].at \in Nat /\ Here.entries[j].length \in Nat /\ Here.entries[j].units \in Nat
           /\ SaysUnsigned(file, Here.entries[j].at + EntryLen, 1, Here.entries[j].length)
           /\ Fills(Here.entries[j].length + 1, Here.entries[j].units, EntryAlignment)
           /\ Here.entries[j].at + EntrySize(Here.entries[j]) =
                IF j = Len(Here.entries) THEN Here.pairAt ELSE Here.entries[j + 1].at
           /\ Here.entries[j].at + EntrySize(Here.entries[j]) <= Here.pairAt
  BY <1>2 DEF IsValueLabels
<1>5. Entry = Here.entries[i]
  BY DEF Entry
<1> HIDE DEF n, i
<1>6. /\ Here.entries[i].at \in Nat /\ Here.entries[i].length \in Nat /\ Here.entries[i].units \in Nat
      /\ SaysUnsigned(file, Here.entries[i].at + EntryLen, 1, Here.entries[i].length)
      /\ Fills(Here.entries[i].length + 1, Here.entries[i].units, EntryAlignment)
      /\ Here.entries[i].at + EntrySize(Here.entries[i]) = IF i = n THEN Here.pairAt ELSE Here.entries[i + 1].at
      /\ Here.entries[i].at + EntrySize(Here.entries[i]) <= Here.pairAt
  BY <1>3, <1>4, Zenon DEF n
<1>7. /\ Entry.at \in Nat /\ Entry.length \in Nat /\ Entry.units \in Nat
      /\ SaysUnsigned(file, Entry.at + EntryLen, 1, Entry.length)
      /\ Fills(Entry.length + 1, Entry.units, EntryAlignment)
      /\ Entry.at + EntrySize(Entry) = IF i = n THEN Here.pairAt ELSE Here.entries[i + 1].at
      /\ Entry.at + EntrySize(Entry) <= Here.pairAt
  BY <1>5, <1>6, Zenon
<1>8. Entry.at + EntrySize(Entry) =
        IF left - 1 = 0 THEN Here.pairAt ELSE Here.entries[Len(Here.entries) - (left - 1) + 1].at
  BY <1>3, <1>7 DEF n
<1> QED
  BY <1>1, <1>2, <1>3, <1>7, <1>8 DEF n

LEMMA ValueStep ==
  ASSUME WalkInv, UNCHANGED file, Value(ReadBytes)
  PROVE  WalkStep
<1>1. /\ Reached("value") /\ call = "none" /\ result = "whole"
      /\ Asks("value label length", "exact", 1) /\ UNCHANGED left
      /\ item' = [item EXCEPT !.keys = @ \cup {ReadBytes}, !.duplicate = @ \/ ReadBytes \in item.keys]
  BY DEF Value, Reached
<1>2. EntryInHand /\ ReadEnd = Entry.at + EntryLen
  BY <1>1, SpotsByStage DEF ValueSpot, ReadTo, Reached
<1>3. Goes("value label length", 1) /\ AtOnce(1)'
  BY <1>1, AsksGo
<1>4. DOMAIN item' = DOMAIN item /\ item'.indices = item.indices
  BY <1>1, <1>2, EntryFacts
<1>5. EntryInHand' /\ Entry' = Entry
  BY <1>1, <1>2, <1>3, <1>4 DEF Goes, EntryInHand, LabelsInHand, Entry
<1>6. ValueLengthSpot'
  BY <1>2, <1>3, <1>5 DEF Goes, ValueLengthSpot, ExactRead, ReadTo
<1> QED
  BY <1>3, <1>6 DEF Goes, WalkStep, Asked, Spot, LabelsSpot

LEMMA ValueLabelLengthStep ==
  ASSUME WalkInv, UNCHANGED file, ValueLabelLength(Unsigned)
  PROVE  WalkStep
<1>1. /\ Reached("value label length") /\ call = "none" /\ result = "whole" /\ UNCHANGED <<item, left>>
      /\ Asks("value label", KeptOrSkipped, ValueLabelEntrySize(Unsigned) - EntryLen - 1)
  BY DEF ValueLabelLength, Reached
<1>2. EntryInHand /\ ExactRead(Entry.at + EntryLen, 1)
  BY <1>1, SpotsByStage DEF ValueLengthSpot, Reached
<1>3. /\ Entry.at \in Nat /\ EntryLen \in Nat /\ Entry.at + EntryLen \in Nat /\ 1 \in Nat
      /\ EntryAlignment \in Nat \ {0} /\ Entry.units \in Nat /\ Entry.length \in Nat /\ Entry.length + 1 \in Nat
  <2>1. Entry.at \in Nat /\ Entry.units \in Nat /\ Entry.length \in Nat
    BY <1>2, EntryFacts
  <2> QED
    BY <2>1, LengthsAreNumbers
<1>4. Unsigned = Entry.length
  BY <1>1, <1>2, <1>3, EntryFacts, NumbersHere
<1> DEFINE size == Entry.units * EntryAlignment
<1>0. Fills(Entry.length + 1, Entry.units, EntryAlignment)
  BY <1>2, EntryFacts
<1>5. RoundUp(Entry.length + 1, EntryAlignment) = size
  BY <1>0, <1>3, WholeUnits
<1>6. size \in Nat /\ size >= 1
  BY <1>0, <1>3 DEF Fills
<1>7. EntrySize(Entry) = EntryLen + size
  BY DEF EntrySize
<1> HIDE DEF size
<1>8. ValueLabelEntrySize(Unsigned) - EntryLen - 1 = size - 1 /\ size - 1 \in Nat
  BY <1>3, <1>4, <1>5, <1>6 DEF ValueLabelEntrySize
<1>9. KeptOrSkipped \in {"exact", "skip"}
  BY DEF KeptOrSkipped
<1>10. Goes("value label", size - 1)
  BY <1>1, <1>8, <1>9, AsksGo
<1>11. ReadEnd = (Entry.at + EntryLen) + 1
  BY <1>2 DEF ExactRead, ReadTo
<1>12. ReadEnd' = Entry.at + EntrySize(Entry)
  <2>1. ReadEnd' = ((Entry.at + EntryLen) + 1) + (size - 1)
    BY <1>10, <1>11 DEF Goes
  <2> QED
    BY <1>3, <1>6, <1>7, <2>1
<1>13. EntryInHand' /\ Entry' = Entry
  BY <1>1, <1>2, <1>10 DEF Goes, EntryInHand, LabelsInHand, Entry
<1>14. EntrySize(Entry)' = EntrySize(Entry)
  BY <1>13 DEF EntrySize
<1>15. ValueLabelSpot'
  BY <1>10, <1>12, <1>13, <1>14 DEF Goes, ValueLabelSpot, ReadTo
<1> QED
  BY <1>10, <1>15 DEF Goes, WalkStep, Asked, Spot, LabelsSpot

LEMMA ValueLabelStep ==
  ASSUME WalkInv, UNCHANGED file, ValueLabel
  PROVE  WalkStep
<1>1. Reached("value label") /\ call = "none" /\ result = "whole" /\ NextEntry(left - 1) /\ UNCHANGED item
  BY DEF ValueLabel, Reached
<1>2. EntryInHand /\ ReadEnd = Entry.at + EntrySize(Entry)
  BY <1>1, SpotsByStage DEF ValueLabelSpot, ReadTo, Reached
<1>3. /\ Here.kind = "value labels" /\ left - 1 \in 0..Len(Here.entries)
      /\ ReadEnd = IF left - 1 = 0 THEN Here.pairAt ELSE Here.entries[Len(Here.entries) - (left - 1) + 1].at
      /\ DOMAIN item' = {"keys", "duplicate", "indices"} /\ item'.indices = << >>
  BY <1>1, <1>2, EntryFacts
<1> DEFINE n == left - 1
<1> HIDE DEF n
<1>4. /\ n \in 0..Len(Here.entries) /\ NextEntry(n)
      /\ ReadEnd = IF n = 0 THEN Here.pairAt ELSE Here.entries[Len(Here.entries) - n + 1].at
  BY <1>1, <1>3 DEF n
<1> QED
  BY <1>1, <1>3, <1>4, NextEntryStep

LEMMA PairTagStep ==
  ASSUME WalkInv, UNCHANGED file, PairTag(Signed)
  PROVE  WalkStep
<1>1. Reached("pair tag") /\ call = "none" /\ result = "whole"
  BY DEF PairTag, Reached
<1>2. LabelsInHand(0) /\ ExactRead(Here.pairAt, WordLen)
  BY <1>1, SpotsByStage DEF PairSpot, Reached
<1>3. Here.kind = "value labels" /\ IsValueLabels(file, Here)
  BY <1>2, LabelsFacts DEF LabelsInHand
<1>4. WordLen \in Nat /\ Here.pairAt \in Nat
  BY <1>3, LabelsFacts
<1>5. Signed = Here.pair
  <2>1. SaysSigned(file, Here.pairAt, WordLen, Here.pair)
    BY <1>3 DEF IsValueLabels
  <2> QED
    BY <1>1, <1>2, <1>4, <2>1, NumbersHere
<1>6. CASE Signed = 4
  <2>1. Asks("variable count", "exact", WordLen) /\ UNCHANGED <<item, left>>
    BY <1>6 DEF PairTag
  <2>2. Goes("variable count", WordLen) /\ AtOnce(WordLen)'
    BY <1>1, <1>4, <2>1, AsksGo
  <2>3. LabelsInHand(0)'
    BY <1>2, <2>1, <2>2 DEF Goes, LabelsInHand
  <2>4. ReadEnd = Here.pairAt + WordLen
    BY <1>2 DEF ExactRead, ReadTo
  <2>5. IndexCountSpot'
    BY <2>2, <2>3, <2>4 DEF Goes, IndexCountSpot, ExactRead, ReadTo
  <2> QED
    BY <2>2, <2>5 DEF Goes, WalkStep, Asked, Spot, LabelsSpot
<1>7. CASE Signed # 4
  <2>1. Scan!Unpaired /\ Over
    BY <1>7 DEF PairTag
  <2>2. ~file.sound
    <3>1. file.sound => Here.pair = 4
      BY <1>3, SoundHere DEF SoundRecord, Here
    <3> QED
      BY <1>5, <1>7, <3>1
  <2>3. Scan!Stop("UnpairedValueLabelRecord") /\ "UnpairedValueLabelRecord" \in Scan!Errors
    BY <2>1 DEF Scan!Unpaired, Scan!Errors
  <2> QED
    BY <1>1, <2>1, <2>2, <2>3, OverStops DEF WalkStep
<1> QED
  BY <1>6, <1>7

LEMMA PassedTurns ==
  ASSUME WalkInv, Here.kind \in {"value labels", "document"}, result = "whole", ReadEnd = Here.at + Here.length,
         NEW record, Scan!Read(record), TurnOver,
         UNCHANGED <<pending, physical, primaries, variables, envelopes, label, codepage>>
  PROVE  Turned
<1>1. stage' = "tag" /\ ReadSane' /\ call' = "exact" /\ AtOnce(WordLen)' /\ ReadEnd' = Here.at + Here.length + WordLen
  BY TurnReads
<1>2. Turn
  BY DEF Turn, PassedTurn
<1> QED
  BY <1>1, <1>2, ScanReads DEF Turned

LEMMA EarlierIsBefore ==
  ASSUME NEW n \in Nat, NEW m \in Nat, n + 1 \in 1..m, NEW j \in 1..(n + 1) - 1
  PROVE  j \in 1..n /\ j \in 1..m
OBVIOUS

LEMMA IndexOfAPlace ==
  ASSUME NEW index \in Nat, index - 1 \in Nat
  PROVE  index # 0
OBVIOUS

LEMMA ScannedLength ==
  ASSUME WalkInv
  PROVE  Len(scanned) \in Nat
<1>1. scanned \in Seq(Range(scanned))
  BY DEF WalkInv, IsASequence
<1> QED
  BY <1>1

LEMMA ElementOfASequence ==
  ASSUME NEW T, NEW s \in Seq(T)
  PROVE  DOMAIN s = 1..Len(s) /\ \A i \in 1..Len(s): s[i] \in T
OBVIOUS

(* In a sound dictionary the variables a set names have been read. *)
LEMMA NoneDangles ==
  ASSUME WalkInv, file.sound, Here.kind = "value labels", NEW i \in 1..Len(Here.indices)
  PROVE  ~Scan!Dangles(Here.indices[i])
<1>1. /\ \A k \in 1..Len(Here.indices):
           \E j \in 1..(Len(scanned) + 1) - 1:
             Primary(file.dictionary[j]) /\ file.dictionary[j].place = Here.indices[k] - 1
      /\ PrimariesPlaced(Len(scanned))
  BY SoundHere DEF SoundRecord, Here
<1>2. PICK j \in 1..(Len(scanned) + 1) - 1:
        Primary(file.dictionary[j]) /\ file.dictionary[j].place = Here.indices[i] - 1
  BY <1>1
<1>3. Len(scanned) + 1 \in 1..Len(file.dictionary) /\ Len(scanned) \in Nat
  BY ScannedLength DEF WalkInv
<1>4. Len(file.dictionary) \in Nat
  BY FilesAssumption DEF WalkInv, IsFile, DictionaryLaidOut
<1>5. j \in 1..Len(scanned) /\ j \in 1..Len(file.dictionary)
  BY <1>2, <1>3, <1>4, EarlierIsBefore
<1>6. PICK k \in DOMAIN primaries: primaries[k] = file.dictionary[j].place
  BY <1>1, <1>2, <1>5 DEF PrimariesPlaced
<1>7. file.dictionary[j].place \in Nat
  <2>1. Sound(file)
    BY FilesAssumption DEF WalkInv, IsFile
  <2> QED
    BY <1>5, <2>1 DEF Sound, SoundRecord
<1>8. Here.indices[i] # 0
  <2>1. Here.indices[i] \in Nat
    BY LabelsFacts, ElementOfASequence
  <2>2. Here.indices[i] - 1 \in Nat
    BY <1>2, <1>7
  <2> QED
    BY <2>1, <2>2, IndexOfAPlace
<1>9. Scan!SegmentsAt(Here.indices[i] - 1) # {}
  BY <1>2, <1>6 DEF Scan!SegmentsAt
<1> QED
  BY <1>8, <1>9 DEF Scan!Dangles

LEMMA ValueLabelsReadStep ==
  ASSUME WalkInv, Here.kind = "value labels", call = "none", result = "whole", ReadEnd = Here.at + Here.length,
         NEW indices, indices = Here.indices, ValueLabelsRead(indices)
  PROVE  WalkStep
<1> DEFINE record == [kind |-> "value_label", duplicate |-> item.duplicate, indices |-> indices]
<1>1. CASE Scan!ReadValueLabels(record) /\ TurnOver
  <2>1. Scan!Read(record) /\ UNCHANGED <<pending, physical, primaries, variables, envelopes, label, codepage>>
    BY <1>1 DEF Scan!ReadValueLabels
  <2> HIDE DEF record
  <2>2. Turned
    BY <1>1, <2>1, PassedTurns
  <2> QED
    BY <2>2 DEF WalkStep
<1>2. CASE Scan!ValueLabelsDangle(record) /\ Over
  <2>1. Scan!Stop("DanglingValueLabel") /\ \E i \in DOMAIN indices: Scan!Dangles(indices[i])
    BY <1>2 DEF Scan!ValueLabelsDangle
  <2>2. DOMAIN Here.indices = 1..Len(Here.indices)
    BY LabelsFacts, ElementOfASequence
  <2>3. ~file.sound
    BY <2>1, <2>2, NoneDangles
  <2>4. "DanglingValueLabel" \in Scan!Errors
    BY DEF Scan!Errors
  <2> QED
    BY <1>2, <2>1, <2>3, <2>4, OverStops DEF WalkStep
<1> QED
  BY <1>1, <1>2 DEF ValueLabelsRead

LEMMA VariableCountStep ==
  ASSUME WalkInv, UNCHANGED file, VariableCount(Unsigned)
  PROVE  WalkStep
<1>1. Reached("variable count") /\ call = "none" /\ result = "whole"
  BY DEF VariableCount, Reached
<1>2. LabelsInHand(0) /\ ExactRead(Here.pairAt + WordLen, WordLen)
  BY <1>1, SpotsByStage DEF IndexCountSpot, Reached
<1>3. Here.kind = "value labels" /\ IsValueLabels(file, Here)
  BY <1>2, LabelsFacts DEF LabelsInHand
<1>4. WordLen \in Nat /\ Here.pairAt \in Nat
  BY <1>3, LabelsFacts
<1>5. Len(Here.indices) \in Nat /\ Here.indices \in Seq(Nat) /\ SubSeq(Here.indices, 1, 0) = << >>
  BY <1>3, LabelsFacts
<1>6. Unsigned = Len(Here.indices)
  <2>1. SaysUnsigned(file, Here.pairAt + WordLen, WordLen, Len(Here.indices))
    BY <1>3 DEF IsValueLabels
  <2>2. Here.pairAt + WordLen \in Nat
    BY <1>4
  <2> QED
    BY <1>1, <1>2, <1>4, <2>1, <2>2, NumbersHere
<1>7. ReadEnd = (Here.pairAt + WordLen) + WordLen
  BY <1>2 DEF ExactRead, ReadTo
<1>8. CASE Unsigned = 0
  <2>1. ValueLabelsRead(<< >>)
    BY <1>8 DEF VariableCount
  <2>2. Here.indices = << >>
    BY <1>5, <1>6, <1>8, EmptySeq
  <2>3. ReadEnd = Here.at + Here.length
    <3>1. Here.at + Here.length = Here.pairAt + ((Len(Here.indices) + 2) * WordLen)
      BY <1>3 DEF IsValueLabels
    <3>2. (Len(Here.indices) + 2) * WordLen = WordLen + WordLen
      BY <1>4, <1>6, <1>8
    <3> QED
      BY <1>4, <1>7, <3>1, <3>2
  <2> QED
    BY <1>1, <1>3, <2>1, <2>2, <2>3, ValueLabelsReadStep
<1>9. CASE Unsigned # 0
  <2>1. Asks("index", "exact", WordLen) /\ left' = Len(Here.indices) /\ UNCHANGED item
    BY <1>6, <1>9 DEF VariableCount
  <2>2. Goes("index", WordLen) /\ AtOnce(WordLen)'
    BY <1>1, <1>4, <2>1, AsksGo
  <2> DEFINE n == Len(Here.indices)
  <2>3. n - n = 0 /\ (n - n + 2) * WordLen = 2 * WordLen /\ n \in 1..n
    BY <1>4, <1>5, <1>6, <1>9
  <2>4. left' \in 1..Len(Here'.indices) /\ Len(Here'.indices) - left' = 0
    BY <2>1, <2>2, <2>3 DEF Goes
  <2>5. LabelsInHand(Len(Here.indices) - left)'
    BY <1>2, <2>1, <2>2, <2>4 DEF Goes, LabelsInHand
  <2>6. ReadEnd' = Here.pairAt + (n - n + 2) * WordLen + WordLen
    <3>1. ReadEnd' = ((Here.pairAt + WordLen) + WordLen) + WordLen
      BY <1>7, <2>2 DEF Goes
    <3> HIDE DEF n
    <3> QED
      BY <1>4, <2>3, <3>1
  <2>7. ExactRead(Here.pairAt + (Len(Here.indices) - left + 2) * WordLen, WordLen)'
    BY <2>1, <2>2, <2>6 DEF Goes, ExactRead, ReadTo
  <2>8. IndexSpot'
    BY <2>2, <2>4, <2>5, <2>7 DEF Goes, IndexSpot
  <2> QED
    BY <2>2, <2>8 DEF Goes, WalkStep, Asked, Spot, LabelsSpot
<1> QED
  BY <1>8, <1>9

LEMMA VariableIndexStep ==
  ASSUME WalkInv, UNCHANGED file, VariableIndex(Unsigned)
  PROVE  WalkStep
<1>1. Reached("index") /\ call = "none" /\ result = "whole"
  BY DEF VariableIndex, Reached
<1>2. /\ left \in 1..Len(Here.indices) /\ LabelsInHand(Len(Here.indices) - left)
      /\ ExactRead(Here.pairAt + (Len(Here.indices) - left + 2) * WordLen, WordLen)
  BY <1>1, SpotsByStage DEF IndexSpot, Reached
<1>3. Here.kind = "value labels" /\ IsValueLabels(file, Here)
  BY <1>2, LabelsFacts DEF LabelsInHand
<1>4. WordLen \in Nat /\ Here.pairAt \in Nat
  BY <1>3, LabelsFacts
<1>5. Len(Here.indices) \in Nat /\ Here.indices \in Seq(Nat)
  BY <1>3, LabelsFacts
<1> DEFINE n == Len(Here.indices)
           m == n - left
<1>6. /\ m \in Nat /\ m < n /\ m + 1 \in 1..n /\ (m + 1) + 1 = m + 2 /\ left \in 1..n /\ left \in Nat
      /\ left = 1 => m + 1 = n
      /\ left # 1 => left - 1 \in 1..n
      /\ n - (left - 1) = m + 1 /\ n - (left - 1) + 2 = (m + 2) + 1
  <2>1. n \in Nat /\ left \in 1..n
    BY <1>2, <1>5
  <2> HIDE DEF n
  <2> QED
    BY <2>1
<1> DEFINE from == Here.pairAt + (m + 2) * WordLen
<1>7. from \in Nat
  <2> HIDE DEF m
  <2>1. (m + 2) * WordLen \in Nat
    BY <1>4, <1>6
  <2> QED
    BY <1>4, <2>1
<1>8. Unsigned = Here.indices[m + 1]
  <2>1. SaysUnsigned(file, Here.pairAt + (((m + 1) + 1) * WordLen), WordLen, Here.indices[m + 1])
    <3> HIDE DEF m
    <3> QED
      BY <1>3, <1>6 DEF IsValueLabels
  <2>2. SaysUnsigned(file, from, WordLen, Here.indices[m + 1]) /\ ExactRead(from, WordLen)
    BY <1>2, <1>6, <2>1
  <2> HIDE DEF from, m
  <2> QED
    BY <1>1, <1>4, <1>7, <2>2, NumbersHere
<1>9. ReadEnd = from + WordLen
  BY <1>2 DEF ExactRead, ReadTo
<1>10. item.indices = SubSeq(Here.indices, 1, m) /\ DOMAIN item = {"keys", "duplicate", "indices"}
  BY <1>2 DEF LabelsInHand
<1>11. Append(item.indices, Unsigned) = SubSeq(Here.indices, 1, m + 1)
  <2> HIDE DEF m
  <2> QED
    BY <1>5, <1>6, <1>8, <1>10, NextSlice
<1> DEFINE indices == SubSeq(Here.indices, 1, m + 1)
<1>12. CASE left = 1
  <2>1. ValueLabelsRead(indices)
    BY <1>11, <1>12 DEF VariableIndex
  <2>2. indices = Here.indices
    <3>1. m + 1 = Len(Here.indices)
      BY <1>6, <1>12
    <3> QED
      BY <1>5, <3>1, WholeSlice
  <2>3. ReadEnd = Here.at + Here.length
    <3>1. Here.at + Here.length = Here.pairAt + ((n + 2) * WordLen)
      BY <1>3 DEF IsValueLabels
    <3>2. n + 2 = (m + 2) + 1
      BY <1>6, <1>12
    <3> HIDE DEF m, n
    <3>3. ((m + 2) + 1) * WordLen = (m + 2) * WordLen + WordLen /\ (m + 2) * WordLen \in Nat
      BY <1>4, <1>6
    <3> QED
      BY <1>4, <1>9, <3>1, <3>2, <3>3
  <2> HIDE DEF indices
  <2> QED
    BY <1>1, <1>3, <2>1, <2>2, <2>3, ValueLabelsReadStep
<1>13. CASE left # 1
  <2>1. Asks("index", "exact", WordLen) /\ left' = left - 1 /\ item' = [item EXCEPT !.indices = indices]
    BY <1>11, <1>13 DEF VariableIndex
  <2>2. Goes("index", WordLen) /\ AtOnce(WordLen)'
    BY <1>1, <1>4, <2>1, AsksGo
  <2>3. DOMAIN item' = {"keys", "duplicate", "indices"} /\ item'.indices = indices
    <3> HIDE DEF indices
    <3> QED
      BY <1>10, <2>1
  <2>4. Here' = Here /\ left' \in 1..n /\ n - left' = m + 1 /\ n - left' + 2 = (m + 2) + 1
    BY <1>6, <1>13, <2>1, <2>2 DEF Goes
  <2>5. LabelsInHand(Len(Here.indices) - left)'
    <3>1. LabelsInHand(Len(Here.indices) - left)' <=>
            /\ Here'.kind = "value labels"
            /\ DOMAIN item' = {"keys", "duplicate", "indices"}
            /\ item'.indices = SubSeq(Here'.indices, 1, Len(Here'.indices) - left')
      BY DEF LabelsInHand
    <3> QED
      BY <1>3, <2>3, <2>4, <3>1
  <2>6. ReadEnd' = (Here.pairAt + ((m + 2) + 1) * WordLen) + WordLen
    <3>1. ReadEnd' = ((Here.pairAt + (m + 2) * WordLen) + WordLen) + WordLen
      BY <1>9, <2>2 DEF Goes
    <3> HIDE DEF m, n
    <3>2. ((m + 2) + 1) * WordLen = (m + 2) * WordLen + WordLen /\ (m + 2) * WordLen \in Nat
      BY <1>4, <1>6
    <3> QED
      BY <1>4, <3>1, <3>2
  <2>7. ExactRead(Here.pairAt + (Len(Here.indices) - left + 2) * WordLen, WordLen)'
    <3>1. ReadEnd' = (Here'.pairAt + (Len(Here'.indices) - left' + 2) * WordLen) + WordLen
      BY <2>4, <2>6
    <3> QED
      BY <2>2, <3>1 DEF Goes, ExactRead, ReadTo
  <2>8. IndexSpot'
    <3>1. left' \in 1..Len(Here'.indices)
      BY <2>4
    <3> QED
      BY <2>2, <2>5, <2>7, <3>1 DEF Goes, IndexSpot
  <2> QED
    BY <2>2, <2>8 DEF Goes, WalkStep, Asked, Spot, LabelsSpot
<1> QED
  BY <1>12, <1>13

-----------------------------------------------------------------------------------
(* Documents *)

LEMMA DocumentFacts ==
  ASSUME WalkInv, Here.kind = "document"
  PROVE  /\ SaysUnsigned(file, Here.at + WordLen, WordLen, Here.lines)
         /\ Here.length = (2 * WordLen) + Here.lines * LineLen
         /\ Here.lines \in Nat /\ Here.at \in Nat /\ Here.length \in Nat
         /\ WordLen \in Nat /\ LineLen \in Nat
<1>1. IsDocument(file, Here) /\ Here.at \in Nat /\ Here.length \in Nat
  BY HereIsARecord
<1> QED
  BY <1>1, LengthsAreNumbers DEF IsDocument

LEMMA DocumentReadStep ==
  ASSUME WalkInv, Here.kind = "document", result = "whole", ReadEnd = Here.at + Here.length, DocumentRead
  PROVE  WalkStep
<1>1. /\ TurnOver /\ Scan!Read([kind |-> "document"])
      /\ UNCHANGED <<pending, physical, primaries, variables, envelopes, label, codepage>>
  BY DEF DocumentRead, Scan!ReadDocument
<1>2. Turned
  BY <1>1, PassedTurns
<1> QED
  BY <1>2 DEF WalkStep

LEMMA BackByOne ==
  ASSUME NEW at \in Int, NEW length \in Int, NEW n \in Int, NEW size \in Int
  PROVE  (at + length - n * size) + size = at + length - (n - 1) * size
<1>1. (n - 1) * size = n * size - size /\ (n - 1) * size \in Int /\ n * size \in Int
  BY OneFewer
<1> QED
  BY <1>1

LEMMA NextLineStep ==
  ASSUME WalkInv, UNCHANGED file, Here.kind = "document", call = "none", result = "whole",
         NEW n \in 0..Here.lines, NextLine(n), ReadEnd = Here.at + Here.length - n * LineLen
  PROVE  WalkStep
<1>1. Here.lines \in Nat /\ Here.at \in Nat /\ Here.length \in Nat /\ LineLen \in Nat
  BY DocumentFacts
<1>2. CASE n = 0
  <2>1. DocumentRead
    BY <1>2 DEF NextLine
  <2>2. ReadEnd = Here.at + Here.length
    <3>1. 0 * LineLen = 0 /\ \A m \in Nat: m - 0 = m
      BY <1>1
    <3>2. ReadEnd = Here.at + Here.length - 0
      BY <1>2, <3>1
    <3> QED
      BY <1>1, <3>2
  <2> QED
    BY <2>1, <2>2, DocumentReadStep
<1>3. CASE n # 0
  <2>1. Asks("line", "exact", LineLen) /\ left' = n
    BY <1>3 DEF NextLine
  <2>2. Goes("line", LineLen)
    BY <1>1, <2>1, AsksGo
  <2>3. n \in 1..Here.lines
    BY <1>1, <1>3, NotTheFirst
  <2>4. ReadEnd' = Here.at + Here.length - (n - 1) * LineLen
    <3>1. ReadEnd' = (Here.at + Here.length - n * LineLen) + LineLen
      BY <2>2 DEF Goes
    <3>2. n \in Int
      BY <1>1
    <3> QED
      BY <1>1, <3>1, <3>2, BackByOne
  <2>5. LineSpot'
    BY <2>1, <2>2, <2>3, <2>4 DEF Goes, LineSpot, ReadTo
  <2> QED
    BY <2>2, <2>5 DEF Goes, WalkStep, Asked, Spot, DocumentSpot
<1> QED
  BY <1>2, <1>3

LEMMA LineCountStep ==
  ASSUME WalkInv, UNCHANGED file, LineCount(Unsigned)
  PROVE  WalkStep
<1>1. Reached("line count") /\ call = "none" /\ result = "whole"
  BY DEF LineCount, Reached
<1>2. Here.kind = "document" /\ ExactRead(Here.at + WordLen, WordLen)
  BY <1>1, SpotsByStage DEF LineCountSpot, Reached
<1>3. /\ SaysUnsigned(file, Here.at + WordLen, WordLen, Here.lines)
      /\ Here.length = (2 * WordLen) + Here.lines * LineLen
      /\ Here.lines \in Nat /\ Here.at \in Nat /\ WordLen \in Nat /\ LineLen \in Nat
  BY <1>2, DocumentFacts
<1>4. Here.at + WordLen \in Nat
  BY <1>3
<1>5. Unsigned = Here.lines
  BY <1>1, <1>2, <1>3, <1>4, NumbersHere
<1>6. ReadEnd = (Here.at + WordLen) + WordLen
  BY <1>2 DEF ExactRead, ReadTo
<1> DEFINE all == Here.lines * LineLen
<1>7. all \in Nat
  BY <1>3
<1>8. ReadEnd = Here.at + Here.length - all /\ (Here.at + WordLen + WordLen) + all = Here.at + Here.length
  <2>1. Here.length = (2 * WordLen) + all
    BY <1>3
  <2> HIDE DEF all
  <2> QED
    BY <1>3, <1>6, <1>7, <2>1
<1>9. CASE Scan!KeepsRecords
  <2>1. NextLine(Here.lines)
    BY <1>5, <1>9 DEF LineCount
  <2>2. Here.lines \in 0..Here.lines
    BY <1>3
  <2> QED
    BY <1>1, <1>2, <1>8, <2>1, <2>2, NextLineStep
<1>10. CASE ~Scan!KeepsRecords
  <2>1. Asks("lines", "skip", all)
    BY <1>5, <1>10 DEF LineCount
  <2> HIDE DEF all
  <2>2. Goes("lines", all)
    BY <1>1, <1>7, <2>1, AsksGo
  <2>3. ReadEnd' = Here.at + Here.length
    BY <1>6, <1>8, <2>2 DEF Goes
  <2>4. LinesSpot'
    BY <1>2, <2>2, <2>3 DEF Goes, LinesSpot, ReadTo
  <2> QED
    BY <2>2, <2>4 DEF Goes, WalkStep, Asked, Spot, DocumentSpot
<1> QED
  BY <1>9, <1>10

LEMMA LineStep ==
  ASSUME WalkInv, UNCHANGED file, Line
  PROVE  WalkStep
<1>1. Reached("line") /\ call = "none" /\ result = "whole" /\ NextLine(left - 1)
  BY DEF Line, Reached
<1>2. /\ Here.kind = "document" /\ left \in 1..Here.lines
      /\ ReadEnd = Here.at + Here.length - (left - 1) * LineLen
  BY <1>1, SpotsByStage DEF LineSpot, ReadTo, Reached
<1>3. Here.lines \in Nat
  BY <1>2, DocumentFacts
<1>4. left - 1 \in 0..Here.lines
  <2>1. left \in 1..Here.lines
    BY <1>2
  <2> QED
    BY <1>3, <2>1
<1> QED
  BY <1>1, <1>2, <1>4, NextLineStep

LEMMA LinesStep ==
  ASSUME WalkInv, UNCHANGED file, Lines
  PROVE  WalkStep
<1>1. Reached("lines") /\ call = "none" /\ result = "whole" /\ DocumentRead
  BY DEF Lines, Reached
<1>2. Here.kind = "document" /\ ReadEnd = Here.at + Here.length
  BY <1>1, SpotsByStage DEF LinesSpot, ReadTo, Reached
<1> QED
  BY <1>1, <1>2, DocumentReadStep

-----------------------------------------------------------------------------------
(* Extension records *)

LEMMA ExtensionFacts ==
  ASSUME WalkInv, Here.kind = "extension"
  PROVE  /\ SaysSigned(file, Here.at + WordLen, WordLen, Here.subtype)
         /\ SaysUnsigned(file, Here.at + (2 * WordLen), WordLen, Here.size)
         /\ SaysUnsigned(file, Here.at + (3 * WordLen), WordLen, Here.count)
         /\ Here.length = (4 * WordLen) + Here.size * Here.count
         /\ Within(file, PayloadAt(Here), Here.size * Here.count) => Declares(file, Here)
         /\ Here.subtype \in Int /\ Here.size \in Nat /\ Here.count \in Nat
         /\ Here.at \in Nat /\ Here.length \in Nat /\ WordLen \in Nat
<1>1. IsExtension(file, Here) /\ Here.at \in Nat /\ Here.length \in Nat
  BY HereIsARecord
<1> QED
  BY <1>1, LengthsAreNumbers DEF IsExtension

LEMMA WordsOn ==
  ASSUME NEW at \in Nat, NEW word \in Nat
  PROVE  /\ at + word \in Nat /\ at + (2 * word) \in Nat /\ at + (3 * word) \in Nat /\ at + (4 * word) \in Nat
         /\ (at + word) + word = at + (2 * word)
         /\ (at + (2 * word)) + word = at + (3 * word)
         /\ (at + (3 * word)) + word = at + (4 * word)
OBVIOUS

LEMMA SubtypeStep ==
  ASSUME WalkInv, UNCHANGED file, Subtype(Signed)
  PROVE  WalkStep
<1>1. /\ Reached("subtype") /\ call = "none" /\ result = "whole" /\ Asks("element size", "exact", WordLen)
      /\ item' = [kind |-> "extension", subtype |-> Signed, size |-> 0, count |-> 0]
  BY DEF Subtype, Reached
<1>2. Here.kind = "extension" /\ ExactRead(Here.at + WordLen, WordLen)
  BY <1>1, SpotsByStage DEF SubtypeSpot, Reached
<1>3. /\ SaysSigned(file, Here.at + WordLen, WordLen, Here.subtype)
      /\ Here.at \in Nat /\ WordLen \in Nat
  BY <1>2, ExtensionFacts
<1>4. Here.at + WordLen \in Nat /\ (Here.at + WordLen) + WordLen = Here.at + (2 * WordLen)
  BY <1>3, WordsOn
<1>5. Signed = Here.subtype
  BY <1>1, <1>2, <1>3, <1>4, NumbersHere
<1>6. ReadEnd = Here.at + (2 * WordLen)
  BY <1>2, <1>4 DEF ExactRead, ReadTo
<1>7. Goes("element size", WordLen) /\ AtOnce(WordLen)'
  BY <1>1, <1>3, AsksGo
<1>8. ExtensionInHand(0, 0)'
  BY <1>1, <1>2, <1>5, <1>7 DEF Goes, ExtensionInHand
<1>9. ElementSizeSpot'
  BY <1>6, <1>7, <1>8 DEF Goes, ElementSizeSpot, ExactRead, ReadTo
<1> QED
  BY <1>7, <1>9 DEF Goes, WalkStep, Asked, Spot, ExtensionSpot

LEMMA ElementSizeStep ==
  ASSUME WalkInv, UNCHANGED file, ElementSize(Unsigned)
  PROVE  WalkStep
<1>1. /\ Reached("element size") /\ call = "none" /\ result = "whole" /\ Asks("element count", "exact", WordLen)
      /\ item' = [item EXCEPT !.size = Unsigned]
  BY DEF ElementSize, Reached
<1>2. ExtensionInHand(0, 0) /\ Here.kind = "extension" /\ ExactRead(Here.at + (2 * WordLen), WordLen)
  BY <1>1, SpotsByStage DEF ElementSizeSpot, ExtensionInHand, Reached
<1>3. /\ SaysUnsigned(file, Here.at + (2 * WordLen), WordLen, Here.size)
      /\ Here.at \in Nat /\ WordLen \in Nat
  BY <1>2, ExtensionFacts
<1>4. Here.at + (2 * WordLen) \in Nat /\ (Here.at + (2 * WordLen)) + WordLen = Here.at + (3 * WordLen)
  BY <1>3, WordsOn
<1>5. Unsigned = Here.size
  BY <1>1, <1>2, <1>3, <1>4, NumbersHere
<1>6. ReadEnd = Here.at + (3 * WordLen)
  BY <1>2, <1>4 DEF ExactRead, ReadTo
<1>7. Goes("element count", WordLen) /\ AtOnce(WordLen)'
  BY <1>1, <1>3, AsksGo
<1>8. ExtensionInHand(Here.size, 0)'
  <2>1. item' = [kind |-> "extension", subtype |-> Here.subtype, size |-> Here.size, count |-> 0]
    BY <1>1, <1>2, <1>5 DEF ExtensionInHand
  <2> QED
    BY <1>2, <1>7, <2>1 DEF Goes, ExtensionInHand
<1>9. ElementCountSpot'
  BY <1>6, <1>7, <1>8 DEF Goes, ElementCountSpot, ExactRead, ReadTo
<1> QED
  BY <1>7, <1>9 DEF Goes, WalkStep, Asked, Spot, ExtensionSpot

LEMMA ElementCountStep ==
  ASSUME WalkInv, UNCHANGED file, ElementCount(Unsigned)
  PROVE  WalkStep
<1>1. /\ Reached("element count") /\ call = "none" /\ result = "whole"
      /\ Asks("payload", IF Absorbed(item.subtype) THEN "exact" ELSE KeptOrSkipped, item.size * Unsigned)
      /\ item' = [item EXCEPT !.count = Unsigned]
  BY DEF ElementCount, Reached
<1>2. ExtensionInHand(Here.size, 0) /\ Here.kind = "extension" /\ ExactRead(Here.at + (3 * WordLen), WordLen)
  BY <1>1, SpotsByStage DEF ElementCountSpot, ExtensionInHand, Reached
<1>3. /\ SaysUnsigned(file, Here.at + (3 * WordLen), WordLen, Here.count)
      /\ Here.at \in Nat /\ WordLen \in Nat /\ Here.size \in Nat /\ Here.count \in Nat
      /\ Here.length = (4 * WordLen) + Here.size * Here.count
  BY <1>2, ExtensionFacts
<1>4. Here.at + (3 * WordLen) \in Nat /\ (Here.at + (3 * WordLen)) + WordLen = Here.at + (4 * WordLen)
  BY <1>3, WordsOn
<1>5. Unsigned = Here.count
  BY <1>1, <1>2, <1>3, <1>4, NumbersHere
<1>6. item.size = Here.size /\ item.subtype = Here.subtype
  BY <1>2 DEF ExtensionInHand
<1> DEFINE kind == IF Absorbed(Here.subtype) THEN "exact" ELSE KeptOrSkipped
           size == Here.size * Here.count
<1>7. size \in Nat
  BY <1>3
<1>8. kind \in {"exact", "skip"} /\ (Absorbed(Here.subtype) => kind = "exact")
  BY DEF KeptOrSkipped
<1>9. Asks("payload", kind, size)
  BY <1>1, <1>5, <1>6
<1>10. ReadEnd = Here.at + (4 * WordLen)
  BY <1>2, <1>4 DEF ExactRead, ReadTo
<1>11. Here.at + Here.length = (Here.at + (4 * WordLen)) + size
  <2>1. Here.length = (4 * WordLen) + size
    BY <1>3
  <2> HIDE DEF size
  <2> QED
    BY <1>3, <1>7, <2>1
<1> HIDE DEF kind, size
<1>12. Goes("payload", size) /\ (kind = "exact" => wanted' = size /\ remaining' = 0)
  BY <1>1, <1>7, <1>8, <1>9, AsksGo
<1>13. ExtensionInHand(Here.size, Here.count)'
  <2>1. item' = [kind |-> "extension", subtype |-> Here.subtype, size |-> Here.size, count |-> Here.count]
    BY <1>1, <1>2, <1>5 DEF ExtensionInHand
  <2> QED
    BY <1>2, <1>12, <2>1 DEF Goes, ExtensionInHand
<1>14. ReadTo(Here.at + Here.length)'
  BY <1>10, <1>11, <1>12 DEF Goes, ReadTo
<1>15. (Absorbed(Here.subtype) => AtOnce(Here.size * Here.count))'
  <2>1. Absorbed(Here.subtype)' <=> Absorbed(Here.subtype)
    BY <1>12 DEF Goes, Absorbed
  <2>2. AtOnce(Here.size * Here.count)' <=> wanted' = size /\ remaining' = 0
    BY <1>12 DEF Goes, AtOnce, size
  <2> QED
    BY <1>8, <1>12, <2>1, <2>2
<1>16. PayloadSpot'
  BY <1>12, <1>13, <1>14, <1>15 DEF Goes, PayloadSpot
<1> QED
  BY <1>12, <1>16 DEF Goes, WalkStep, Asked, Spot, ExtensionSpot

LEMMA NamesAreNames ==
  /\ \A number: NameOf(number) \in EncodingNames
  /\ \A bytes: DeclaredLabel(bytes) \in EncodingNames
  /\ Unreadable \notin EncodingNames /\ Scan!Undeclared \notin EncodingNames
<1>1. \A number: NameOf(number) \in EncodingNames
  BY DEF NameOf, EncodingNames
<1>2. ASSUME NEW bytes PROVE DeclaredLabel(bytes) \in EncodingNames
  <2> DEFINE kept == SubSeq(bytes, 1, SelectLastInSeq(bytes, LAMBDA byte: byte # 0))
  <2>1. DeclaredLabel(bytes) = IF kept = << >> THEN "blank" ELSE IF Len(kept) = 1 THEN NameOf(kept[1]) ELSE "unknown"
    BY Zenon DEF DeclaredLabel
  <2> HIDE DEF kept
  <2>2. "blank" \in EncodingNames /\ "unknown" \in EncodingNames
    BY DEF EncodingNames
  <2> QED
    BY <1>1, <2>1, <2>2
<1>3. Unreadable \notin EncodingNames /\ Scan!Undeclared \notin EncodingNames
  BY DEF EncodingNames, Unreadable, Scan!Undeclared
<1> QED
  BY <1>1, <1>2, <1>3

LEMMA PayloadHere ==
  ASSUME WalkInv, Reached("payload")
  PROVE  /\ Here.kind = "extension" /\ call = "none" /\ result = "whole"
         /\ item.subtype = Here.subtype /\ item.size = Here.size /\ item.count = Here.count
         /\ ReadEnd = Here.at + Here.length
         /\ Absorbed(Here.subtype) =>
              /\ ReadBytes = ByteRun(file, PayloadAt(Here), Here.size * Here.count)
              /\ ReadBytes \in Seq(Byte) /\ Declares(file, Here)
<1>1. call = "none" /\ result = "whole" /\ PayloadSpot
  BY SpotsByStage DEF Reached
<1>2. /\ Here.kind = "extension" /\ ReadTo(Here.at + Here.length)
      /\ item = [kind |-> "extension", subtype |-> Here.subtype, size |-> Here.size, count |-> Here.count]
      /\ Absorbed(Here.subtype) => AtOnce(Here.size * Here.count)
  BY <1>1 DEF PayloadSpot, ExtensionInHand
<1> DEFINE size == Here.size * Here.count
           from == PayloadAt(Here)
<1>3. /\ Here.length = (4 * WordLen) + size /\ Here.size \in Nat /\ Here.count \in Nat
      /\ Here.at \in Nat /\ WordLen \in Nat
      /\ Within(file, from, size) => Declares(file, Here)
  BY <1>2, ExtensionFacts
<1>4. size \in Nat
  BY <1>3
<1>5. from \in Nat /\ from + size = Here.at + Here.length
  <2> HIDE DEF size
  <2> QED
    BY <1>3, <1>4 DEF PayloadAt
<1>6. ASSUME Absorbed(Here.subtype)
      PROVE  ExactRead(from, size)
  BY <1>2, <1>5, <1>6 DEF ExactRead
<1> HIDE DEF size, from
<1>7. ASSUME Absorbed(Here.subtype)
      PROVE  ReadBytes = ByteRun(file, from, size) /\ ReadBytes \in Seq(Byte) /\ Declares(file, Here)
  BY <1>1, <1>3, <1>4, <1>5, <1>6, <1>7, BytesHere
<1> QED
  BY <1>1, <1>2, <1>7 DEF ReadTo, size, from

LEMMA AbsorbedSubtypes ==
  /\ Absorbed(20) /\ Absorbed(3) /\ Absorbed(16)
  /\ Scan!CharacterEncoding = 20 /\ Scan!MachineIntegerInfo = 3
  /\ 20 \notin Scan!LayoutBearing /\ 3 \notin Scan!LayoutBearing /\ 16 \in Scan!LayoutBearing
  /\ \A subtype \in Scan!LayoutBearing: Absorbed(subtype) /\ subtype # 3 /\ subtype # 20
BY DEF Absorbed, Scan!DeclaresEncoding, Scan!LayoutBearing, Scan!CharacterEncoding, Scan!MachineIntegerInfo

(* What a record of an encoding leaves is what the file says there. *)
LEMMA PayloadDeclares ==
  ASSUME WalkInv, Reached("payload")
  PROVE  /\ Here.subtype = 20 => EncodingSaid(Here.says, Scan!Declared(PayloadOf(file.written.order, ReadBytes)))
         /\ Here.subtype = 3 => EncodingSaid(Here.says, Scan!Declared(PayloadOf(file.written.order, ReadBytes)))
<1> DEFINE order == file.written.order
           payload == PayloadOf(order, ReadBytes)
           bytes == ByteRun(file, PayloadAt(Here), Here.size * Here.count)
<1>1. /\ item.subtype = Here.subtype /\ item.size = Here.size /\ item.count = Here.count
      /\ Absorbed(Here.subtype) => ReadBytes = bytes /\ Declares(file, Here)
  BY PayloadHere
<1>2. CASE Here.subtype = 20
  <2>1. ReadBytes = bytes /\ Declares(file, Here)
    BY <1>1, <1>2, AbsorbedSubtypes
  <2>2. Here.says = IF Here.size = 1 THEN {DeclaredLabel(bytes)} ELSE {}
    BY <1>2, <2>1, AbsorbedSubtypes DEF Declares
  <2>3. payload = IF Here.size = 1 THEN DeclaredLabel(bytes) ELSE Unreadable
    BY <1>1, <1>2, <2>1, AbsorbedSubtypes DEF PayloadOf
  <2> DEFINE name == DeclaredLabel(bytes)
  <2>4. name \in EncodingNames
    BY NamesAreNames
  <2> HIDE DEF name, payload
  <2>5. EncodingSaid(Here.says, Scan!Declared(payload))
    BY <2>2, <2>3, <2>4, NamesAreNames DEF EncodingSaid, Scan!Declared, name
  <2>6. Here.subtype # 3
    BY <1>2
  <2> QED
    BY <2>5, <2>6 DEF payload
<1>3. CASE Here.subtype = 3
  <2>1. ReadBytes = bytes /\ Declares(file, Here)
    BY <1>1, <1>3, AbsorbedSubtypes
  <2> DEFINE name == NameOf(ReadI32(order, Slab(bytes, 8, WordLen)))
             whole == Here.size = WordLen /\ Here.count = 8
  <2>2. Here.says = IF whole THEN {name} ELSE {}
    BY <1>3, <2>1, AbsorbedSubtypes DEF Declares
  <2>6. Here.subtype # 20 /\ item.subtype # Scan!CharacterEncoding /\ item.subtype = Scan!MachineIntegerInfo
    BY <1>1, <1>3, AbsorbedSubtypes
  <2>3. payload = IF whole THEN name ELSE Unreadable
    BY <1>1, <2>1, <2>6 DEF PayloadOf
  <2>4. name \in EncodingNames
    BY NamesAreNames
  <2> HIDE DEF name, payload, whole
  <2>5. EncodingSaid(Here.says, Scan!Declared(payload))
    BY <2>2, <2>3, <2>4, NamesAreNames DEF EncodingSaid, Scan!Declared
  <2> QED
    BY <2>5, <2>6 DEF payload
<1> QED
  BY <1>2, <1>3

LEMMA EnvelopeKept ==
  ASSUME WalkInv, Reached("payload"), Here.subtype \in Scan!LayoutBearing
  PROVE  /\ WithPayload(PayloadOf(file.written.order, ReadBytes)) \in Envelope
         /\ WithPayload(PayloadOf(file.written.order, ReadBytes)).subtype = Here.subtype
         /\ Here.subtype = 16 => CountSaidBy(WithPayload(PayloadOf(file.written.order, ReadBytes)), Here.says)
<1> DEFINE order == file.written.order
           payload == PayloadOf(order, ReadBytes)
           bytes == ByteRun(file, PayloadAt(Here), Here.size * Here.count)
<1>1. /\ item.subtype = Here.subtype /\ item.size = Here.size /\ item.count = Here.count
      /\ Here.subtype # 20 /\ Here.subtype # 3
      /\ ReadBytes = bytes /\ ReadBytes \in Seq(Byte) /\ Declares(file, Here) /\ Absorbed(Here.subtype)
  BY PayloadHere, AbsorbedSubtypes
<1>2. payload = ReadBytes
  BY <1>1, AbsorbedSubtypes DEF PayloadOf
<1>3. Here.subtype \in Int /\ Here.size \in Nat /\ Here.count \in Nat
  BY PayloadHere, ExtensionFacts
<1> DEFINE e == WithPayload(payload)
<1>4. /\ e = [kind |-> "extension", subtype |-> Here.subtype, size |-> Here.size, count |-> Here.count, payload |-> ReadBytes]
  BY <1>1, <1>2 DEF WithPayload
<1> HIDE DEF payload
<1>5. e \in Envelope /\ e.subtype = Here.subtype
  BY <1>1, <1>3, <1>4 DEF Envelope
<1>6. ASSUME Here.subtype = 16
      PROVE  CountSaidBy(e, Here.says)
  <2>1. Here.says = IF Here.size = 2 * WordLen /\ Here.count = 2
                    THEN {ReadI64(order, Slab(bytes, 2, 2 * WordLen))} ELSE {}
    BY <1>1, <1>6 DEF Declares
  <2>2. IsCount(e) => Here.size = 2 * WordLen /\ Here.count = 2
    BY <1>4 DEF IsCount
  <2>3. e.payload = bytes
    BY <1>1, <1>4
  <2> HIDE DEF e, bytes
  <2> QED
    BY <2>1, <2>2, <2>3 DEF CountSaidBy
<1> QED
  BY <1>5, <1>6 DEF payload

LEMMA PayloadStep ==
  ASSUME WalkInv, UNCHANGED file, Payload(file.written.order, ReadBytes)
  PROVE  WalkStep
<1> DEFINE payload == PayloadOf(file.written.order, ReadBytes)
           e == WithPayload(payload)
<1>1. Reached("payload") /\ Scan!ReadExtension(e) /\ TurnOver
  BY DEF Payload
<1>2. /\ Here.kind = "extension" /\ result = "whole" /\ item.subtype = Here.subtype
      /\ ReadEnd = Here.at + Here.length
  BY <1>1, PayloadHere
<1>3. e.subtype = Here.subtype /\ e.payload = payload
  BY <1>2 DEF WithPayload
<1> HIDE DEF e, payload
<1>4. /\ Scan!Read(e) /\ UNCHANGED <<pending, physical, primaries>>
      /\ \/ Scan!Absorb(e)
         \/ ~Absorbed(Here.subtype) /\ UNCHANGED <<envelopes, label, codepage>>
  BY <1>1, <1>3 DEF Scan!ReadExtension, Absorbed
<1>5. ASSUME Scan!Absorb(e)
      PROVE  Turn
  <2>1. /\ envelopes' = IF Here.subtype \in Scan!LayoutBearing THEN Append(envelopes, e) ELSE envelopes
        /\ label' = IF Here.subtype = 20 THEN Scan!Declared(payload) ELSE label
        /\ codepage' = IF Here.subtype = 3 THEN Scan!Declared(payload) ELSE codepage
    BY <1>3, <1>5, AbsorbedSubtypes DEF Scan!Absorb
  <2>2. IF Here.subtype = 20 THEN EncodingSaid(Here.says, label') ELSE UNCHANGED label
    BY <1>1, <2>1, PayloadDeclares DEF payload
  <2>3. IF Here.subtype = 3 THEN EncodingSaid(Here.says, codepage') ELSE UNCHANGED codepage
    BY <1>1, <2>1, PayloadDeclares DEF payload
  <2>4. CASE Here.subtype \in Scan!LayoutBearing
    <3>1. envelopes' = Append(envelopes, e) /\ e \in Envelope /\ e.subtype = Here.subtype
      BY <1>1, <2>1, <2>4, EnvelopeKept DEF e, payload
    <3>2. Here.subtype = 16 => CountSaidBy(e, Here.says)
      BY <1>1, <2>4, EnvelopeKept DEF e, payload
    <3> QED
      BY <1>2, <1>4, <2>2, <2>3, <3>1, <3>2, Zenon DEF Turn, ExtensionTurn
  <2>5. CASE Here.subtype \notin Scan!LayoutBearing
    <3>1. UNCHANGED envelopes /\ Here.subtype # 16
      BY <2>1, <2>5, AbsorbedSubtypes
    <3> QED
      BY <1>2, <1>4, <2>2, <2>3, <3>1, Zenon DEF Turn, ExtensionTurn
  <2> QED
    BY <2>4, <2>5
<1>6. ASSUME ~Absorbed(Here.subtype), UNCHANGED <<envelopes, label, codepage>>
      PROVE  Turn
  <2>1. Here.subtype # 16 /\ Here.subtype # 3 /\ Here.subtype # 20
    BY <1>6, AbsorbedSubtypes
  <2> QED
    BY <1>2, <1>4, <1>6, <2>1 DEF Turn, ExtensionTurn
<1>7. Turn
  BY <1>4, <1>5, <1>6
<1>8. stage' = "tag" /\ ReadSane' /\ call' = "exact" /\ AtOnce(WordLen)' /\ ReadEnd' = Here.at + Here.length + WordLen
  BY <1>1, <1>2, TurnReads
<1>9. Turned
  BY <1>4, <1>7, <1>8, ScanReads DEF Turned
<1> QED
  BY <1>9 DEF WalkStep

-----------------------------------------------------------------------------------
(* No read of a record goes beyond it *)

LEMMA VariableLengths ==
  ASSUME WalkInv, Here.kind = "variable"
  PROVE  /\ LabelSize(Here) \in Nat /\ (Here.labelled # 0 => LabelSize(Here) >= WordLen)
         /\ MissingEntries(Here.missing) * EntryLen \in Nat /\ MissingEntries(Here.missing) \in Nat
         /\ Here.length = WordLen + BodyLen + LabelSize(Here) + MissingEntries(Here.missing) * EntryLen
<1>1. IsVariable(file, Here) /\ Here.at \in Nat
  BY HereIsARecord
<1>2. /\ Here.missing \in Int
      /\ Here.labelled # 0 => Here.label.units \in Nat
      /\ Here.length = WordLen + BodyLen + LabelSize(Here) + MissingEntries(Here.missing) * EntryLen
  BY <1>1 DEF IsVariable
<1>3. MissingEntries(Here.missing) \in Nat
  BY <1>2 DEF MissingEntries
<1>4. MissingEntries(Here.missing) * EntryLen \in Nat
  BY <1>3, LengthsAreNumbers
<1>5. LabelSize(Here) \in Nat /\ (Here.labelled # 0 => LabelSize(Here) >= WordLen)
  <2>1. CASE Here.labelled = 0
    BY <2>1 DEF LabelSize
  <2>2. CASE Here.labelled # 0
    <3> DEFINE size == Here.label.units * LabelPadding
    <3>1. size \in Nat
      BY <1>2, <2>2, LengthsAreNumbers
    <3>2. LabelSize(Here) = WordLen + size
      BY <2>2 DEF LabelSize
    <3> HIDE DEF size
    <3> QED
      BY <3>1, <3>2, LengthsAreNumbers
  <2> QED
    BY <2>1, <2>2
<1> QED
  BY <1>2, <1>3, <1>4, <1>5

LEMMA PartsAreShorter ==
  ASSUME NEW at \in Nat, NEW length, NEW word \in Nat, NEW body \in Nat, NEW size \in Nat, NEW rest \in Nat,
         length = word + body + size + rest
  PROVE  /\ length >= word
         /\ (at + word) + body <= at + length
         /\ size >= word => (at + word + body) + word <= at + length
         /\ at + word + body + size <= at + length
OBVIOUS

LEMMA CountingDown ==
  ASSUME NEW at \in Nat, NEW length \in Nat, NEW n \in Nat \ {0}, NEW size \in Nat
  PROVE  at + length - (n - 1) * size <= at + length
<1> DEFINE m == n - 1
<1>1. m \in Nat
  OBVIOUS
<1> HIDE DEF m
<1>2. m * size \in Nat
  BY <1>1
<1>3. at + length - m * size <= at + length
  BY <1>2
<1> QED
  BY <1>3 DEF m

LEMMA VariableWithin ==
  ASSUME WalkInv, VariableSpot
  PROVE  ReadEnd <= Here.at + Here.length
<1>1. Here.kind = "variable"
  BY DEF VariableSpot, BodySpot, LabelLengthSpot, LabelSpot, MissingSpot, VariableInHand
<1>2. /\ Here.at \in Nat /\ Here.length \in Nat /\ WordLen \in Nat /\ BodyLen \in Nat /\ EntryLen \in Nat
      /\ LabelSize(Here) \in Nat /\ MissingEntries(Here.missing) * EntryLen \in Nat
      /\ MissingEntries(Here.missing) \in Nat
      /\ Here.length = WordLen + BodyLen + LabelSize(Here) + MissingEntries(Here.missing) * EntryLen
  BY <1>1, VariableLengths, HereIsARecord, LengthsAreNumbers
<1>3. /\ (Here.at + WordLen) + BodyLen <= Here.at + Here.length
      /\ LabelSize(Here) >= WordLen => (Here.at + WordLen + BodyLen) + WordLen <= Here.at + Here.length
      /\ Here.at + WordLen + BodyLen + LabelSize(Here) <= Here.at + Here.length
  BY <1>2, PartsAreShorter
<1>4. CASE BodySpot
  BY <1>3, <1>4 DEF BodySpot, ExactRead, ReadTo
<1>5. CASE LabelLengthSpot
  <2>1. ReadEnd = (Here.at + WordLen + BodyLen) + WordLen /\ Here.labelled # 0
    BY <1>5 DEF LabelLengthSpot, ExactRead, ReadTo
  <2> QED
    BY <1>1, <1>3, <2>1, VariableLengths
<1>6. CASE LabelSpot
  BY <1>3, <1>6 DEF LabelSpot, ReadTo
<1>7. CASE MissingSpot
  <2>1. ReadEnd = Here.at + Here.length - (left - 1) * EntryLen /\ left \in 1..MissingEntries(Here.missing)
    BY <1>7 DEF MissingSpot, ReadTo
  <2>2. left \in Nat \ {0}
    BY <1>2, <2>1
  <2> QED
    BY <1>2, <2>1, <2>2, CountingDown
<1> QED
  BY <1>4, <1>5, <1>6, <1>7 DEF VariableSpot

LEMMA WordsFollow ==
  ASSUME NEW at \in Nat, NEW length \in Nat, NEW pairAt \in Nat, NEW n \in Nat, NEW word \in Nat,
         at + length = pairAt + ((n + 2) * word)
  PROVE  at + length \in Nat /\ pairAt + (2 * word) <= at + length
<1>1. n * word \in Nat /\ (n + 2) * word = n * word + (2 * word)
  OBVIOUS
<1> QED
  BY <1>1

LEMMA TwoWordsIn ==
  ASSUME NEW at \in Nat, NEW end \in Nat, NEW pairAt \in Nat, NEW word \in Nat,
         at + (2 * word) <= pairAt, pairAt + (2 * word) <= end
  PROVE  (at + word) + word <= end
OBVIOUS

LEMMA PairIn ==
  ASSUME NEW end \in Nat, NEW pairAt \in Nat, NEW word \in Nat, pairAt + (2 * word) <= end,
         NEW to \in {pairAt + word, (pairAt + word) + word}
  PROVE  to <= end
OBVIOUS

LEMMA BeforeThePair ==
  ASSUME NEW end \in Nat, NEW pairAt \in Nat, NEW word \in Nat, pairAt + (2 * word) <= end,
         NEW to \in Int, to <= pairAt
  PROVE  to <= end
OBVIOUS

LEMMA IndexIn ==
  ASSUME NEW at \in Nat, NEW length \in Nat, NEW pairAt \in Nat, NEW n \in Nat, NEW word \in Nat, NEW k \in 1..n,
         at + length = pairAt + ((n + 2) * word)
  PROVE  (pairAt + (n - k + 2) * word) + word <= at + length
<1> DEFINE rest == k - 1
           part == (n - k + 2) * word
           gap  == rest * word
           all  == (n + 2) * word
<1>1. rest \in Nat /\ part \in Int /\ all \in Int
  OBVIOUS
<1>2. gap \in Nat
  BY <1>1
<1>3. part + word + gap = all
  OBVIOUS
<1> HIDE DEF part, gap, all, rest
<1> QED
  BY <1>1, <1>2, <1>3 DEF part, all

LEMMA InAnEntry ==
  ASSUME NEW at \in Nat, NEW entryLen \in Nat, NEW k \in Nat, NEW alignment \in Nat, NEW length \in Nat,
         NEW pairAt \in Nat, length + 1 <= k * alignment,
         at + (entryLen + k * alignment) <= pairAt,
         NEW to \in {at + entryLen, (at + entryLen) + 1, at + (entryLen + k * alignment)}
  PROVE  to <= pairAt
<1> DEFINE size == k * alignment
<1>1. size \in Nat /\ length + 1 <= size /\ at + (entryLen + size) <= pairAt
      /\ to \in {at + entryLen, (at + entryLen) + 1, at + (entryLen + size)}
  OBVIOUS
<1> HIDE DEF size
<1> QED
  BY <1>1

(* The entries come between the record's first two words and its pair. *)
LEMMA EntriesReach ==
  ASSUME NEW record, IsValueLabels(file, record), record.at \in Nat
  PROVE  /\ record.at + (2 * WordLen) <= record.pairAt
         /\ record.at + record.length = record.pairAt + ((Len(record.indices) + 2) * WordLen)
<1>1. /\ record.pairAt \in Nat /\ Len(record.entries) \in Nat
      /\ IF Len(record.entries) = 0 THEN record.pairAt = record.at + (2 * WordLen)
         ELSE record.entries[1].at = record.at + (2 * WordLen)
      /\ record.at + record.length = record.pairAt + ((Len(record.indices) + 2) * WordLen)
  BY DEF IsValueLabels
<1>2. WordLen \in Nat /\ EntryLen \in Nat /\ EntryAlignment \in Nat
  BY LengthsAreNumbers
<1>3. CASE Len(record.entries) = 0
  BY <1>1, <1>2, <1>3
<1>4. CASE Len(record.entries) # 0
  <2> DEFINE entry == record.entries[1]
  <2>1. 1 \in 1..Len(record.entries)
    BY <1>1, <1>4
  <2>2. entry.at \in Nat /\ entry.units \in Nat /\ entry.at + EntrySize(entry) <= record.pairAt
    BY <2>1 DEF IsValueLabels
  <2>3. entry.at = record.at + (2 * WordLen)
    BY <1>1, <1>4
  <2> HIDE DEF entry
  <2> DEFINE size == EntrySize(entry)
  <2>4. size \in Nat
    BY <1>2, <2>2 DEF EntrySize
  <2>5. entry.at + size <= record.pairAt
    BY <2>2
  <2> HIDE DEF size
  <2>6. entry.at <= record.pairAt
    BY <1>1, <2>2, <2>4, <2>5
  <2> QED
    BY <1>1, <2>3, <2>6
<1> QED
  BY <1>3, <1>4

LEMMA LabelsReach ==
  ASSUME WalkInv, Here.kind = "value labels"
  PROVE  /\ Here.at + (2 * WordLen) <= Here.pairAt
         /\ Here.at + Here.length = Here.pairAt + ((Len(Here.indices) + 2) * WordLen)
BY LabelsFacts, EntriesReach

LEMMA LabelsWithin ==
  ASSUME WalkInv, LabelsSpot
  PROVE  ReadEnd <= Here.at + Here.length
<1>1. Here.kind = "value labels"
  BY DEF LabelsSpot, LabelCountSpot, ValueSpot, ValueLengthSpot, ValueLabelSpot, PairSpot, IndexCountSpot, IndexSpot,
         EntryInHand, LabelsInHand
<1> DEFINE at     == Here.at
           length == Here.length
           pairAt == Here.pairAt
           n      == Len(Here.indices)
<1>2. /\ at \in Nat /\ length \in Nat /\ WordLen \in Nat /\ pairAt \in Nat /\ n \in Nat
      /\ EntryLen \in Nat /\ EntryAlignment \in Nat
  BY <1>1, LabelsFacts
<1>3. at + (2 * WordLen) <= pairAt /\ at + length = pairAt + ((n + 2) * WordLen)
  BY <1>1, LabelsReach
<1>4. LabelCountSpot => ReadEnd = (at + WordLen) + WordLen
  BY DEF LabelCountSpot, ExactRead, ReadTo
<1>5. PairSpot \/ IndexCountSpot => ReadEnd \in {pairAt + WordLen, (pairAt + WordLen) + WordLen}
  BY DEF PairSpot, IndexCountSpot, ExactRead, ReadTo
<1>6. IndexSpot => ReadEnd = (pairAt + (n - left + 2) * WordLen) + WordLen /\ left \in 1..n
  BY DEF IndexSpot, ExactRead, ReadTo
<1>7. ASSUME ValueSpot \/ ValueLengthSpot \/ ValueLabelSpot
      PROVE  /\ EntryInHand
             /\ ReadEnd \in {Entry.at + EntryLen, (Entry.at + EntryLen) + 1, Entry.at + EntrySize(Entry)}
  BY <1>7 DEF ValueSpot, ValueLengthSpot, ValueLabelSpot, ExactRead, ReadTo
<1>8. ASSUME EntryInHand
      PROVE  /\ Entry.at \in Nat /\ Entry.units \in Nat /\ Entry.length \in Nat
             /\ Entry.at + EntrySize(Entry) <= pairAt
             /\ Fills(Entry.length + 1, Entry.units, EntryAlignment)
  BY <1>8, EntryFacts
<1> HIDE DEF at, length, pairAt, n
<1>9. at + length \in Nat /\ pairAt + (2 * WordLen) <= at + length
  BY <1>2, <1>3, WordsFollow
<1>10. CASE LabelCountSpot
  BY <1>2, <1>3, <1>4, <1>9, <1>10, TwoWordsIn DEF at, length
<1>11. CASE ValueSpot \/ ValueLengthSpot \/ ValueLabelSpot
  <2>1. /\ Entry.at \in Nat /\ Entry.units \in Nat /\ Entry.length \in Nat
        /\ Entry.at + EntrySize(Entry) <= pairAt
        /\ Entry.length + 1 <= Entry.units * EntryAlignment
        /\ ReadEnd \in {Entry.at + EntryLen, (Entry.at + EntryLen) + 1, Entry.at + EntrySize(Entry)}
    BY <1>7, <1>8, <1>11 DEF Fills
  <2>2. Entry.at + EntrySize(Entry) = Entry.at + (EntryLen + Entry.units * EntryAlignment)
    BY DEF EntrySize
  <2>3. ReadEnd <= pairAt
    BY <1>2, <2>1, <2>2, InAnEntry
  <2>4. ReadEnd \in Int
    BY DEF WalkInv, ReadSane, ReadEnd
  <2> QED
    BY <1>2, <1>9, <2>3, <2>4, BeforeThePair DEF at, length
<1>12. CASE PairSpot \/ IndexCountSpot
  BY <1>2, <1>5, <1>9, <1>12, PairIn DEF at, length
<1>13. CASE IndexSpot
  BY <1>2, <1>3, <1>6, <1>13, IndexIn DEF at, length
<1> QED
  BY <1>10, <1>11, <1>12, <1>13 DEF LabelsSpot

LEMMA DocumentWithin ==
  ASSUME WalkInv, DocumentSpot
  PROVE  ReadEnd <= Here.at + Here.length
<1>1. Here.kind = "document"
  BY DEF DocumentSpot, LineCountSpot, LineSpot, LinesSpot
<1>2. /\ Here.length = (2 * WordLen) + Here.lines * LineLen
      /\ Here.lines \in Nat /\ Here.at \in Nat /\ Here.length \in Nat /\ WordLen \in Nat /\ LineLen \in Nat
  BY <1>1, DocumentFacts
<1>3. CASE LineCountSpot
  <2>1. ReadEnd = (Here.at + WordLen) + WordLen
    BY <1>3 DEF LineCountSpot, ExactRead, ReadTo
  <2> DEFINE all == Here.lines * LineLen
  <2>2. all \in Nat /\ Here.length = (2 * WordLen) + all
    BY <1>2
  <2> HIDE DEF all
  <2> QED
    BY <1>2, <2>1, <2>2
<1>4. CASE LineSpot
  <2>1. ReadEnd = Here.at + Here.length - (left - 1) * LineLen /\ left \in 1..Here.lines
    BY <1>4 DEF LineSpot, ReadTo
  <2>2. left \in Nat \ {0}
    BY <1>2, <2>1
  <2> QED
    BY <1>2, <2>1, <2>2, CountingDown
<1>5. CASE LinesSpot
  BY <1>2, <1>5 DEF LinesSpot, ReadTo
<1> QED
  BY <1>3, <1>4, <1>5 DEF DocumentSpot

LEMMA ExtensionWithin ==
  ASSUME WalkInv, ExtensionSpot
  PROVE  ReadEnd <= Here.at + Here.length
<1>1. Here.kind = "extension"
  BY DEF ExtensionSpot, SubtypeSpot, ElementSizeSpot, ElementCountSpot, PayloadSpot, ExtensionInHand
<1>2. /\ Here.length = (4 * WordLen) + Here.size * Here.count
      /\ Here.size \in Nat /\ Here.count \in Nat /\ Here.at \in Nat /\ Here.length \in Nat /\ WordLen \in Nat
  BY <1>1, ExtensionFacts
<1> DEFINE all == Here.size * Here.count
<1>3. all \in Nat /\ Here.length = (4 * WordLen) + all
  BY <1>2
<1> HIDE DEF all
<1>4. ReadEnd \in {(Here.at + WordLen) + WordLen, (Here.at + (2 * WordLen)) + WordLen, (Here.at + (3 * WordLen)) + WordLen,
                   Here.at + Here.length}
  BY DEF ExtensionSpot, SubtypeSpot, ElementSizeSpot, ElementCountSpot, PayloadSpot, ExactRead, ReadTo
<1> QED
  BY <1>2, <1>3, <1>4

LEMMA RecordsHaveTags ==
  ASSUME WalkInv, Here.kind # "other"
  PROVE  Here.length >= WordLen
<1>1. Here.at \in Nat /\ Here.length \in Nat /\ WordLen \in Nat /\ FillerLen \in Nat /\ BodyLen \in Nat /\ LineLen \in Nat
  BY HereIsARecord, LengthsAreNumbers
<1>2. CASE Here.kind = "variable"
  BY <1>1, <1>2, VariableLengths, PartsAreShorter
<1>3. CASE Here.kind = "value labels"
  <2> DEFINE all == (Len(Here.indices) + 2) * WordLen
  <2>1. Here.at + (2 * WordLen) <= Here.pairAt /\ Here.at + Here.length = Here.pairAt + all
    BY <1>3, LabelsReach
  <2>2. Len(Here.indices) \in Nat /\ Here.pairAt \in Nat
    BY <1>3, LabelsFacts
  <2>3. all \in Nat
    BY <1>1, <2>2
  <2> HIDE DEF all
  <2> QED
    BY <1>1, <2>1, <2>2, <2>3
<1>4. CASE Here.kind = "document"
  <2> DEFINE all == Here.lines * LineLen
  <2>1. Here.length = (2 * WordLen) + all /\ Here.lines \in Nat
    BY <1>4, DocumentFacts
  <2>2. all \in Nat
    BY <1>1, <2>1
  <2> HIDE DEF all
  <2> QED
    BY <1>1, <2>1, <2>2
<1>5. CASE Here.kind = "extension"
  <2> DEFINE all == Here.size * Here.count
  <2>1. Here.length = (4 * WordLen) + all /\ Here.size \in Nat /\ Here.count \in Nat
    BY <1>5, ExtensionFacts
  <2>2. all \in Nat
    BY <2>1
  <2> HIDE DEF all
  <2> QED
    BY <1>1, <2>1, <2>2
<1>6. CASE Here.kind = "end"
  <2>1. Here.length = WordLen + FillerLen
    BY <1>6, HereIsARecord DEF IsEnd
  <2> QED
    BY <1>1, <2>1
<1> QED
  BY <1>2, <1>3, <1>4, <1>5, <1>6, HereIsARecord DEF RecordKinds

LEMMA SpotWithin ==
  ASSUME WalkInv, Here.kind # "other"
  PROVE  ReadEnd <= Here.at + Here.length
<1>1. Here.at \in Nat /\ Here.length \in Nat /\ WordLen \in Nat /\ FillerLen \in Nat
  BY HereIsARecord, LengthsAreNumbers
<1>2. CASE TagSpot
  <2>1. ReadEnd = Here.at + WordLen /\ Here.length >= WordLen
    BY <1>2, RecordsHaveTags DEF TagSpot, ExactRead, ReadTo
  <2> QED
    BY <1>1, <2>1
<1>3. CASE FillerSpot
  <2>1. ReadEnd = Here.at + WordLen + FillerLen /\ Here.kind = "end"
    BY <1>3 DEF FillerSpot, ReadTo
  <2>2. Here.length = WordLen + FillerLen
    BY <2>1, HereIsARecord DEF IsEnd
  <2> QED
    BY <1>1, <2>1, <2>2
<1> QED
  BY <1>2, <1>3, VariableWithin, LabelsWithin, DocumentWithin, ExtensionWithin DEF WalkInv, Spot

LEMMA BeforeTheEnd ==
  ASSUME NEW cut \in Nat, NEW to \in Nat, NEW at \in Nat, NEW length \in Nat, NEW end \in Nat,
         cut < to, to <= at + length, at + length <= end
  PROVE  cut < end
OBVIOUS

LEMMA WalkFailsStep ==
  ASSUME WalkInv, UNCHANGED file, WalkFails
  PROVE  WalkStep
<1>1. result = "failed" /\ Scan!Stop("Io") /\ Over /\ "Io" \in Scan!Errors
  BY DEF WalkFails, Scan!ReadFails, Scan!Errors
<1>2. call = "none" /\ cursor < ReadEnd
  BY <1>1 DEF WalkInv, ReadSane
<1>3. ASSUME file.sound
      PROVE  cursor < Len(file.bytes)
  <2>1. ReadEnd <= Here.at + Here.length
    BY <1>3, SoundHere, SpotWithin
  <2>2. Here.at + Here.length <= Len(file.bytes)
    BY <1>3, SoundHere DEF Within
  <2>3. Here.at \in Nat /\ Here.length \in Nat
    BY HereIsARecord
  <2>4. Len(file.bytes) \in Nat
    BY FileBytes DEF WalkInv
  <2>5. cursor \in Nat /\ ReadEnd \in Nat
    BY DEF WalkInv, ReadSane, ReadEnd
  <2> QED
    BY <1>2, <2>1, <2>2, <2>3, <2>4, <2>5, BeforeTheEnd
<1> QED
  BY <1>1, <1>2, <1>3, OverStops DEF WalkStep

(* Whatever the walk does next, it asks for the next part of the record in hand, turns over, or stops. *)
LEMMA WalkSteps ==
  ASSUME WalkInv, UNCHANGED file, Walk(file.written.order, ReadBytes)
  PROVE  WalkStep
<1>1. \/ VariableTag(Signed) \/ OtherTag(Signed) \/ Filler
      \/ VariableBody(file.written.order, ReadBytes) \/ VariableLabelLength(Unsigned) \/ VariableLabel \/ MissingValue
      \/ LabelCount(Unsigned) \/ Value(ReadBytes) \/ ValueLabelLength(Unsigned) \/ ValueLabel
      \/ PairTag(Signed) \/ VariableCount(Unsigned) \/ VariableIndex(Unsigned)
      \/ LineCount(Unsigned) \/ Line \/ Lines
      \/ Subtype(Signed) \/ ElementSize(Unsigned) \/ ElementCount(Unsigned)
      \/ Payload(file.written.order, ReadBytes)
      \/ WalkFails
  BY Zenon DEF Walk, Signed, Unsigned
<1> QED
  BY <1>1, VariableTagStep, OtherTagStep, FillerStep, VariableBodyStep, VariableLabelLengthStep, VariableLabelStep,
     MissingValueStep, LabelCountStep, ValueStep, ValueLabelLengthStep, ValueLabelStep, PairTagStep, VariableCountStep,
     VariableIndexStep, LineCountStep, LineStep, LinesStep, SubtypeStep, ElementSizeStep, ElementCountStep, PayloadStep,
     WalkFailsStep

-----------------------------------------------------------------------------------
(* From record to record *)

LEMMA NextHere ==
  ASSUME WalkInv, UNCHANGED file, Turned
  PROVE  /\ Len(scanned) + 2 \in 1..Len(file.dictionary) /\ Len(scanned) \in Nat
         /\ Len(scanned') = Len(scanned) + 1
         /\ Here' = file.dictionary[Len(scanned) + 2]
         /\ Here'.at = Here.at + Here.length
<1>1. Here.kind # "end"
  BY DEF Turned, Turn, VariableTurn, PassedTurn, ExtensionTurn
<1>2. /\ Len(scanned) + 2 \in 1..Len(file.dictionary)
      /\ file.dictionary[Len(scanned) + 2].at = Here.at + Here.length
  BY <1>1, HereFacts DEF WalkInv
<1>3. Len(scanned) \in Nat
  BY DEF WalkInv, IsASequence
<1>4. Len(scanned') = Len(scanned) + 1
  BY DEF Turned
<1>5. Len(scanned') + 1 = Len(scanned) + 2
  BY <1>3, <1>4
<1>6. Here' = file.dictionary[Len(scanned) + 2]
  BY <1>5 DEF Here
<1> QED
  BY <1>2, <1>3, <1>4, <1>6

(* What a sound record leaves to the next one. *)
LEMMA SoundNext ==
  ASSUME WalkInv, UNCHANGED file, Turned, file.sound
  PROVE  /\ Here.kind = "variable" =>
              /\ Here'.place = Here.place + 1
              /\ Here'.owed = IF Primary(Here) THEN Scan!Units(Here.type) - 1 ELSE Here.owed - 1
         /\ Here.kind \in RecordKinds \ {"variable", "end"} =>
              Here'.place = Here.place /\ Here'.owed = Here.owed
<1> DEFINE n == Len(scanned) + 1
<1>1. SoundRecord(file.dictionary, n) /\ Here = file.dictionary[n]
  BY SoundHere DEF Here
<1>2. Here' = file.dictionary[n + 1]
  <2>1. n + 1 = Len(scanned) + 2
    BY NextHere
  <2> QED
    BY <2>1, NextHere
<1> HIDE DEF n
<1> QED
  BY <1>1, <1>2 DEF SoundRecord

LEMMA PlacedBefore ==
  ASSUME primaries \in Seq(Nat), primaries' \in Seq(Nat), UNCHANGED file, NEW n \in Nat, PrimariesPlaced(n),
         Len(primaries) <= Len(primaries'), \A i \in 1..Len(primaries): primaries'[i] = primaries[i],
         Primary(file.dictionary[n + 1]) => \E i \in DOMAIN primaries': primaries'[i] = file.dictionary[n + 1].place
  PROVE  \A j \in 1..n + 1:
           Primary(file.dictionary[j]) => \E i \in DOMAIN primaries': primaries'[i] = file.dictionary[j].place
<1> SUFFICES ASSUME NEW j \in 1..n + 1, Primary(file.dictionary[j])
             PROVE  \E i \in DOMAIN primaries': primaries'[i] = file.dictionary[j].place
  OBVIOUS
<1>1. CASE j = n + 1
  BY <1>1
<1>2. CASE j # n + 1
  <2>1. j \in 1..n
    BY <1>2
  <2>2. PICK i \in DOMAIN primaries: primaries[i] = file.dictionary[j].place
    BY <2>1 DEF PrimariesPlaced
  <2>3. i \in 1..Len(primaries) /\ i \in DOMAIN primaries'
    BY <2>2
  <2> QED
    BY <2>2, <2>3
<1> QED
  BY <1>1, <1>2

LEMMA VariableTurnSounds ==
  ASSUME WalkInv, UNCHANGED file, Turned, VariableTurn
  PROVE  SoundSoFar'
<1>1. /\ Here.kind = "variable" /\ physical' = physical + 1
      /\ physical \in Nat /\ primaries \in Seq(Nat)
  BY DEF VariableTurn, WalkInv, SoundSoFar
<1>2. CASE Here.type = Scan!Continuation
  <2>1. pending' = pending - 1 /\ UNCHANGED primaries
    BY <1>2 DEF VariableTurn
  <2>2. ~Primary(Here)
    BY <1>2 DEF Primary
  <2>3. ASSUME file.sound
        PROVE  pending' = Here'.owed /\ physical' = Here'.place /\ PrimariesPlaced(Len(scanned))'
    <3>1. pending = Here.owed /\ physical = Here.place /\ PrimariesPlaced(Len(scanned))
      BY <2>3, SoundHere
    <3>2. Here'.place = Here.place + 1 /\ Here'.owed = Here.owed - 1
      BY <1>1, <2>2, <2>3, SoundNext
    <3>3. Len(scanned) \in Nat /\ Len(scanned') = Len(scanned) + 1
      BY NextHere
    <3>4. PrimariesPlaced(Len(scanned))'
      <4>1. \A j \in 1..Len(scanned) + 1:
              Primary(file.dictionary[j]) => \E i \in DOMAIN primaries': primaries'[i] = file.dictionary[j].place
        BY <1>1, <2>1, <2>2, <3>1, <3>3, PlacedBefore DEF Here
      <4> QED
        BY <3>3, <4>1 DEF PrimariesPlaced
    <3> QED
      BY <1>1, <2>1, <3>1, <3>2, <3>4
  <2> QED
    BY <1>1, <2>1, <2>3 DEF SoundSoFar
<1>3. CASE Here.type # Scan!Continuation
  <2>1. pending' = Scan!Units(Here.type) - 1 /\ primaries' = Append(primaries, physical)
    BY <1>3 DEF VariableTurn
  <2>2. Primary(Here)
    BY <1>1, <1>3 DEF Primary
  <2>3. /\ primaries' \in Seq(Nat) /\ Len(primaries') = Len(primaries) + 1 /\ Len(primaries) \in Nat
        /\ \A i \in 1..Len(primaries): primaries'[i] = primaries[i]
        /\ primaries'[Len(primaries) + 1] = physical
    BY <1>1, <2>1, AppendProperties
  <2>4. ASSUME file.sound
        PROVE  pending' = Here'.owed /\ physical' = Here'.place /\ PrimariesPlaced(Len(scanned))'
    <3>1. pending = Here.owed /\ physical = Here.place /\ PrimariesPlaced(Len(scanned))
      BY <2>4, SoundHere
    <3>2. Here'.place = Here.place + 1 /\ Here'.owed = Scan!Units(Here.type) - 1
      BY <1>1, <2>2, <2>4, SoundNext
    <3>3. Len(scanned) \in Nat /\ Len(scanned') = Len(scanned) + 1
      BY NextHere
    <3>4. PrimariesPlaced(Len(scanned))'
      <4>1. Len(primaries) + 1 \in DOMAIN primaries' /\ Len(primaries) <= Len(primaries')
        BY <2>3
      <4>2. \A j \in 1..Len(scanned) + 1:
              Primary(file.dictionary[j]) => \E i \in DOMAIN primaries': primaries'[i] = file.dictionary[j].place
        BY <1>1, <2>3, <3>1, <3>3, <4>1, PlacedBefore DEF Here
      <4> QED
        BY <3>3, <4>2 DEF PrimariesPlaced
    <3> QED
      BY <1>1, <2>1, <3>1, <3>2, <3>4
  <2> QED
    BY <1>1, <2>3, <2>4 DEF SoundSoFar
<1> QED
  BY <1>2, <1>3

LEMMA OtherTurnSounds ==
  ASSUME WalkInv, UNCHANGED file, Turned, PassedTurn \/ ExtensionTurn
  PROVE  SoundSoFar'
<1>1. /\ Here.kind \in RecordKinds \ {"variable", "end"} /\ UNCHANGED <<pending, physical, primaries>>
      /\ physical \in Nat /\ primaries \in Seq(Nat)
  BY DEF PassedTurn, ExtensionTurn, RecordKinds, WalkInv, SoundSoFar
<1>2. ~Primary(Here)
  BY <1>1 DEF Primary
<1>3. ASSUME file.sound
      PROVE  pending' = Here'.owed /\ physical' = Here'.place /\ PrimariesPlaced(Len(scanned))'
  <2>1. pending = Here.owed /\ physical = Here.place /\ PrimariesPlaced(Len(scanned))
    BY <1>3, SoundHere
  <2>2. Here'.place = Here.place /\ Here'.owed = Here.owed
    BY <1>1, <1>3, SoundNext
  <2>3. Len(scanned) \in Nat /\ Len(scanned') = Len(scanned) + 1
    BY NextHere
  <2>4. PrimariesPlaced(Len(scanned))'
    <3>1. \A j \in 1..Len(scanned) + 1:
            Primary(file.dictionary[j]) => \E i \in DOMAIN primaries': primaries'[i] = file.dictionary[j].place
      BY <1>1, <1>2, <2>1, <2>3, PlacedBefore DEF Here
    <3> QED
      BY <2>3, <3>1 DEF PrimariesPlaced
  <2> QED
    BY <1>1, <2>1, <2>2, <2>4
<1> QED
  BY <1>1, <1>3 DEF SoundSoFar

LEMMA TurnedKeepsWalk ==
  ASSUME WalkInv, UNCHANGED file, cursor' <= Len(file'.bytes), Turned
  PROVE  WalkInv'
<1>1. SoundSoFar'
  BY VariableTurnSounds, OtherTurnSounds DEF Turned, Turn
<1>2. /\ Len(scanned') + 1 \in 1..Len(file'.dictionary) /\ Here'.at = Here.at + Here.length
  BY NextHere
<1>3. TagSpot'
  BY <1>2 DEF Turned, TagSpot, ExactRead, ReadTo
<1> QED
  BY <1>1, <1>2, <1>3 DEF WalkInv, Turned, Spot

LEMMA AskedKeepsWalk ==
  ASSUME WalkInv, UNCHANGED file, cursor' <= Len(file'.bytes), Asked
  PROVE  WalkInv'
<1>1. UNCHANGED <<scanning, scanned, pending, physical, primaries>> /\ Here' = Here /\ ReadSane' /\ Spot'
  BY DEF Asked, scan
<1>2. SoundSoFar'
  BY <1>1 DEF WalkInv, SoundSoFar, PrimariesPlaced
<1> QED
  BY <1>1, <1>2 DEF WalkInv

-----------------------------------------------------------------------------------
(* A read under way does not move the walk *)

Steady ==
  /\ UNCHANGED <<stage, item, left>> /\ Here' = Here /\ ReadEnd' = ReadEnd /\ call' \in {"none", call}
  /\ remaining = 0 => UNCHANGED <<wanted, remaining>>

LEMMA SteadyVariable == VariableSpot /\ Steady => VariableSpot'
<1> USE DEF Steady, ExactRead, ReadTo, AtOnce, VariableInHand
<1>1. BodySpot /\ Steady => BodySpot'
  BY DEF BodySpot
<1>2. LabelLengthSpot /\ Steady => LabelLengthSpot'
  BY DEF LabelLengthSpot
<1>3. LabelSpot /\ Steady => LabelSpot'
  BY DEF LabelSpot
<1>4. MissingSpot /\ Steady => MissingSpot'
  BY DEF MissingSpot, Scan!CountParses
<1> QED
  BY <1>1, <1>2, <1>3, <1>4 DEF VariableSpot

LEMMA SteadyLabels == LabelsSpot /\ Steady => LabelsSpot'
<1> USE DEF Steady, ExactRead, ReadTo, AtOnce, LabelsInHand, EntryInHand, Entry
<1>1. LabelCountSpot /\ Steady => LabelCountSpot'
  BY DEF LabelCountSpot
<1>2. ValueSpot /\ Steady => ValueSpot'
  BY DEF ValueSpot
<1>3. ValueLengthSpot /\ Steady => ValueLengthSpot'
  BY DEF ValueLengthSpot
<1>4. ValueLabelSpot /\ Steady => ValueLabelSpot'
  BY DEF ValueLabelSpot
<1>5. PairSpot /\ Steady => PairSpot'
  BY DEF PairSpot
<1>6. IndexCountSpot /\ Steady => IndexCountSpot'
  BY DEF IndexCountSpot
<1>7. IndexSpot /\ Steady => IndexSpot'
  BY DEF IndexSpot
<1> QED
  BY <1>1, <1>2, <1>3, <1>4, <1>5, <1>6, <1>7 DEF LabelsSpot

LEMMA SteadyDocument == DocumentSpot /\ Steady => DocumentSpot'
<1> USE DEF Steady, ExactRead, ReadTo, AtOnce
<1>1. LineCountSpot /\ Steady => LineCountSpot'
  BY DEF LineCountSpot
<1>2. LineSpot /\ Steady => LineSpot'
  BY DEF LineSpot
<1>3. LinesSpot /\ Steady => LinesSpot'
  BY DEF LinesSpot
<1> QED
  BY <1>1, <1>2, <1>3 DEF DocumentSpot

LEMMA SteadyExtension == ExtensionSpot /\ Steady => ExtensionSpot'
<1> USE DEF Steady, ExactRead, ReadTo, AtOnce, ExtensionInHand
<1>1. SubtypeSpot /\ Steady => SubtypeSpot'
  BY DEF SubtypeSpot
<1>2. ElementSizeSpot /\ Steady => ElementSizeSpot'
  BY DEF ElementSizeSpot
<1>3. ElementCountSpot /\ Steady => ElementCountSpot'
  BY DEF ElementCountSpot
<1>4. PayloadSpot /\ Steady => PayloadSpot'
  BY DEF PayloadSpot
<1> QED
  BY <1>1, <1>2, <1>3, <1>4 DEF ExtensionSpot

LEMMA ReadKeepsWalk ==
  ASSUME WalkInv, SourceStep(file.bytes), UNCHANGED <<walk, file>>, cursor' <= Len(file'.bytes)
  PROVE  WalkInv'
<1>1. UNCHANGED <<scanning, scanned, pending, physical, primaries, stage, item, left>>
  BY DEF walk, scan
<1>2. call # "none"
  BY DEF SourceStep, Deliver, EndOfFile, ReadFails, Whole, NextChunk, Asking
<1>3. call \in {"exact", "skip"}
  BY <1>2
     DEF WalkInv, Spot, TagSpot, FillerSpot, VariableSpot, BodySpot, LabelLengthSpot, LabelSpot, MissingSpot,
         LabelsSpot, LabelCountSpot, ValueSpot, ValueLengthSpot, ValueLabelSpot, PairSpot, IndexCountSpot, IndexSpot,
         DocumentSpot, LineCountSpot, LineSpot, LinesSpot,
         ExtensionSpot, SubtypeSpot, ElementSizeSpot, ElementCountSpot, PayloadSpot, ExactRead, ReadTo
<1>4. file.bytes \in Seq(Nat) /\ cursor <= Len(file.bytes) /\ ReadSane
  BY FileBytes DEF WalkInv
<1>5. /\ ReadSane' /\ ReadEnd' = ReadEnd /\ call' \in {"none", call}
      /\ remaining = 0 => UNCHANGED <<wanted, remaining>>
  BY <1>3, <1>4, StepReads
<1>6. Here' = Here
  BY <1>1 DEF Here
<1>7. Steady
  BY <1>1, <1>5, <1>6 DEF Steady
<1>8. Spot'
  <2>1. TagSpot => TagSpot'
    BY <1>7 DEF Steady, TagSpot, ExactRead, ReadTo, AtOnce
  <2>2. FillerSpot => FillerSpot'
    BY <1>7 DEF Steady, FillerSpot, ReadTo
  <2> QED
    BY <1>7, <2>1, <2>2, SteadyVariable, SteadyLabels, SteadyDocument, SteadyExtension DEF WalkInv, Spot
<1>9. SoundSoFar'
  BY <1>1, <1>6 DEF WalkInv, SoundSoFar, PrimariesPlaced
<1> QED
  BY <1>1, <1>5, <1>8, <1>9 DEF WalkInv

-----------------------------------------------------------------------------------
(* What the records before the one in hand have declared *)

Seen(n, subtype) == Declaring(subtype) \cap 1..n

(* What the code goes by: the last record of each, readable or not. *)
LabelByLast == SaidByLast(Declaring(20))
CodeByLast  == SaidByLast(Declaring(3))

SaidSoFar ==
  LET n == Len(scanned)
  IN  /\ envelopes \in Seq(Envelope)
      /\ EncodingSaid(SaidByLast(Seen(n, 20)), label)
      /\ EncodingSaid(SaidByLast(Seen(n, 3)), codepage)
      /\ CountRecords = {} <=> Seen(n, 16) = {}
      /\ CountRecords # {} => CountSaidBy(envelopes[Max(CountRecords)], SaidByLast(Seen(n, 16)))

Counting == {e \in Envelope: e.subtype = 16}

LEMMA CountRecordsAre ==
  ASSUME envelopes \in Seq(Envelope)
  PROVE  CountRecords = Places(envelopes, Counting)
<1>1. \A i \in DOMAIN envelopes: envelopes[i] \in Envelope
  OBVIOUS
<1> HIDE DEF Envelope
<1> QED
  BY <1>1 DEF CountRecords, Places, Counting

(* The last record to declare something is the one in hand, if it does, or the one it was before. *)
LEMMA SeenNext ==
  ASSUME WalkInv, NEW subtype
  PROVE  LET n == Len(scanned)
         IN  IF Here.kind = "extension" /\ Here.subtype = subtype
             THEN Seen(n + 1, subtype) # {} /\ SaidByLast(Seen(n + 1, subtype)) = Here.says
             ELSE Seen(n + 1, subtype) = Seen(n, subtype)
<1> DEFINE n == Len(scanned)
           new == Seen(n + 1, subtype)
<1>1. n \in Nat
  BY DEF WalkInv, IsASequence
<1>2. n + 1 \in 1..Len(file.dictionary) /\ Here = file.dictionary[n + 1]
  BY DEF WalkInv, Here
<1>3. DOMAIN file.dictionary = 1..Len(file.dictionary)
  BY FilesAssumption DEF WalkInv, IsFile, DictionaryLaidOut
<1> HIDE DEF n
<1>4. n + 1 \in Declaring(subtype) <=> Here.kind = "extension" /\ Here.subtype = subtype
  BY <1>2, <1>3 DEF Declaring
<1>5. n + 1 \in 1..n + 1 /\ \A i \in 1..n + 1: i # n + 1 => i \in 1..n
  BY <1>1
<1>6. \A i \in 1..n: i \in 1..n + 1
  BY <1>1
<1>7. CASE Here.kind = "extension" /\ Here.subtype = subtype
  <2>1. n + 1 \in new /\ new \in SUBSET (1..(n + 1))
    BY <1>4, <1>5, <1>7 DEF Seen
  <2> HIDE DEF new
  <2>2. Max(new) = n + 1
    BY <1>1, <2>1, LastIsMax
  <2>3. SaidByLast(new) = Here.says
    BY <1>2, <2>1, <2>2 DEF SaidByLast
  <2> QED
    BY <1>7, <2>1, <2>3 DEF new, n
<1>8. CASE ~(Here.kind = "extension" /\ Here.subtype = subtype)
  <2>1. n + 1 \notin Declaring(subtype)
    BY <1>4, <1>8
  <2>2. new = Seen(n, subtype)
    BY <1>5, <1>6, <2>1 DEF Seen
  <2> QED
    BY <1>8, <2>2 DEF n
<1> QED
  BY <1>7, <1>8

LEMMA SaidGoesOn ==
  ASSUME WalkInv, NEW subtype, NEW before, NEW after,
         EncodingSaid(SaidByLast(Seen(Len(scanned), subtype)), before),
         IF Here.kind = "extension" /\ Here.subtype = subtype THEN EncodingSaid(Here.says, after) ELSE after = before
  PROVE  EncodingSaid(SaidByLast(Seen(Len(scanned) + 1, subtype)), after)
<1> HIDE DEF Here, EncodingSaid, Seen, SaidByLast
<1> QED
  BY SeenNext, Zenon

(* What a turn says, or passes on. *)
LEMMA TurnSays ==
  ASSUME Turn
  PROVE  /\ IF Here.kind = "extension" /\ Here.subtype = 20 THEN EncodingSaid(Here.says, label') ELSE label' = label
         /\ IF Here.kind = "extension" /\ Here.subtype = 3 THEN EncodingSaid(Here.says, codepage') ELSE codepage' = codepage
         /\ IF Here.kind = "extension" /\ Here.subtype = 16
            THEN \E e \in Envelope: e.subtype = 16 /\ envelopes' = Append(envelopes, e) /\ CountSaidBy(e, Here.says)
            ELSE \/ UNCHANGED envelopes
                 \/ \E e \in Envelope: e.subtype # 16 /\ envelopes' = Append(envelopes, e)
<1>1. CASE VariableTurn
  BY <1>1 DEF VariableTurn
<1>2. CASE PassedTurn
  BY <1>2 DEF PassedTurn
<1>3. CASE ExtensionTurn
  BY <1>3 DEF ExtensionTurn
<1> QED
  BY <1>1, <1>2, <1>3 DEF Turn

CountGoesOn ==
  /\ envelopes' \in Seq(Envelope)
  /\ CountRecords' = {} <=> Seen(Len(scanned) + 1, 16) = {}
  /\ CountRecords' # {} => CountSaidBy(envelopes'[Max(CountRecords')], SaidByLast(Seen(Len(scanned) + 1, 16)))

LEMMA CountsGoOn ==
  ASSUME WalkInv, SaidSoFar, Turn
  PROVE  CountGoesOn
<1> DEFINE n == Len(scanned)
<1>1. /\ envelopes \in Seq(Envelope)
      /\ CountRecords = {} <=> Seen(n, 16) = {}
      /\ CountRecords # {} => CountSaidBy(envelopes[Max(CountRecords)], SaidByLast(Seen(n, 16)))
  BY DEF SaidSoFar
<1>2. IF Here.kind = "extension" /\ Here.subtype = 16
      THEN Seen(n + 1, 16) # {} /\ SaidByLast(Seen(n + 1, 16)) = Here.says
      ELSE Seen(n + 1, 16) = Seen(n, 16)
  BY SeenNext
<1> HIDE DEF n
<1>3. ASSUME UNCHANGED envelopes, Seen(n + 1, 16) = Seen(n, 16)
      PROVE  CountGoesOn
  <2>1. CountRecords' = CountRecords
    BY <1>3 DEF CountRecords
  <2> QED
    BY <1>1, <1>3, <2>1 DEF CountGoesOn, n
<1>4. ASSUME NEW e \in Envelope, envelopes' = Append(envelopes, e),
             IF e.subtype = 16 THEN Seen(n + 1, 16) # {} /\ CountSaidBy(e, SaidByLast(Seen(n + 1, 16)))
             ELSE Seen(n + 1, 16) = Seen(n, 16)
      PROVE  CountGoesOn
  <2>1. envelopes' \in Seq(Envelope)
    BY <1>1, <1>4, AppendProperties
  <2>2. CountRecords = Places(envelopes, Counting) /\ CountRecords' = Places(envelopes', Counting)
    <3>1. CountRecords' = Places(envelopes', Counting)
      <4>1. \A i \in DOMAIN envelopes': envelopes'[i] \in Envelope
        BY <2>1
      <4> HIDE DEF Envelope
      <4> QED
        BY <4>1 DEF CountRecords, Places, Counting
    <3> QED
      BY <1>1, <3>1, CountRecordsAre
  <2>3. LastIsNew(envelopes, envelopes', e, Counting)
    BY <1>1, <1>4, LastPlace
  <2>4. e \in Counting <=> e.subtype = 16
    BY <1>4 DEF Counting
  <2> HIDE DEF CountRecords, Counting
  <2>5. CASE e.subtype = 16
    BY <1>4, <2>1, <2>2, <2>3, <2>4, <2>5, Zenon DEF LastIsNew, CountGoesOn, n
  <2>6. CASE e.subtype # 16
    BY <1>1, <1>4, <2>1, <2>2, <2>3, <2>4, <2>6, Zenon DEF LastIsNew, CountGoesOn, n
  <2> QED
    BY <2>5, <2>6
<1>5. CASE Here.kind = "extension" /\ Here.subtype = 16
  <2>1. PICK e \in Envelope: e.subtype = 16 /\ envelopes' = Append(envelopes, e) /\ CountSaidBy(e, Here.says)
    BY <1>5, TurnSays
  <2> QED
    BY <1>2, <1>4, <1>5, <2>1
<1>6. CASE ~(Here.kind = "extension" /\ Here.subtype = 16)
  <2>1. \/ UNCHANGED envelopes
        \/ \E e \in Envelope: e.subtype # 16 /\ envelopes' = Append(envelopes, e)
    BY <1>6, TurnSays
  <2> QED
    BY <1>2, <1>3, <1>4, <1>6, <2>1
<1> QED
  BY <1>5, <1>6

LEMMA TurnedKeepsSaid ==
  ASSUME WalkInv, SaidSoFar, UNCHANGED file, Turned
  PROVE  SaidSoFar'
<1>1. Len(scanned') = Len(scanned) + 1 /\ Turn
  BY DEF Turned
<1>2. EncodingSaid(SaidByLast(Seen(Len(scanned) + 1, 20)), label')
  BY <1>1, SaidGoesOn, TurnSays DEF SaidSoFar
<1>3. EncodingSaid(SaidByLast(Seen(Len(scanned) + 1, 3)), codepage')
  BY <1>1, SaidGoesOn, TurnSays DEF SaidSoFar
<1>4. CountGoesOn
  BY <1>1, CountsGoOn
<1>5. \A n, subtype: SaidByLast(Seen(n, subtype))' = SaidByLast(Seen(n, subtype)) /\ Seen(n, subtype)' = Seen(n, subtype)
  BY DEF SaidByLast, Seen, Declaring
<1> HIDE DEF Seen, SaidByLast, CountRecords
<1> QED
  BY <1>1, <1>2, <1>3, <1>4, <1>5 DEF SaidSoFar, CountGoesOn, CountSaidBy, EncodingSaid, Scan!Undeclared

(* Nothing else says anything. *)
LEMMA SaidStays ==
  ASSUME SaidSoFar, UNCHANGED <<file, scanned, envelopes, label, codepage>>
  PROVE  SaidSoFar'
BY DEF SaidSoFar, EncodingSaid, CountSaidBy, CountRecords, SaidByLast, Seen, Declaring, Scan!Undeclared

-----------------------------------------------------------------------------------
(* From phase to phase *)

NotYetWalked ==
  /\ scanning = "running" /\ scanned = << >>
  /\ pending = 0 /\ physical = 0 /\ primaries = << >>
  /\ envelopes = << >> /\ label = Scan!Undeclared /\ codepage = Scan!Undeclared

(* What the whole dictionary has declared. *)
AllSaid ==
  /\ EncodingSaid(LabelByLast, label) /\ EncodingSaid(CodeByLast, codepage)
  /\ CountRecords = {} => CountSaid = {}
  /\ CountRecords # {} =>
       CountSaidBy(envelopes[Max(CountRecords)], CountSaid) /\ Max(CountRecords) \in CountRecords

FailedWhere ==
  /\ call = "none"
  /\ stage = "none" => position \in {Offset(field), Offset(field + 1)}
  /\ file.sound /\ scanning \in Scan!Errors => scanning = "Io" /\ cursor < Len(file.bytes)

PhasesInv ==
  /\ phase \in {"header", "dictionary", "resolving", "open", "failed"}
  /\ phase = "header" => NotYetWalked /\ header = NoHeader /\ encoding = {}
  /\ phase = "dictionary" => field = 12 /\ header = NoHeader /\ encoding = {} /\ WalkInv /\ SaidSoFar
  /\ phase = "resolving" =>
       /\ field = 12 /\ stage = "over" /\ scanning = "done"
       /\ call = "none" /\ position = RowsStart /\ cursor = position /\ AllSaid
  /\ phase = "open" => field = 12
  /\ phase = "failed" => FailedWhere
  /\ phase # "open" => units = << >> /\ ended = FALSE

LEMMA FieldWhole ==
  ASSUME HeaderInv, phase = "header", result # "whole" \/ call # "none", field # 1 \/ call # "none" \/ result # "none"
  PROVE  position = Offset(field) /\ (call # "none" => cursor = position + filled)
<1>1. ReadSane /\ ReadEnd = Offset(field + 1) /\ AtOnce(FieldLens[field]) /\ field \in 1..12
  BY DEF HeaderInv, HeaderReads
<1>2. /\ Offset(field) \in Nat /\ FieldLens[field] \in Nat
      /\ Offset(field + 1) = Offset(field) + FieldLens[field]
  BY <1>1, OffsetsAddUp
<1>3. result # "whole"
  BY <1>1 DEF ReadSane
<1>4. position + wanted + remaining = Offset(field + 1) /\ wanted = FieldLens[field] /\ remaining = 0
  BY <1>1, <1>3 DEF ReadEnd, AtOnce
<1>5. position \in Nat /\ (call # "none" => cursor = position + filled)
  BY <1>1 DEF ReadSane
<1> HIDE DEF Offset, FieldLens
<1> QED
  BY <1>2, <1>4, <1>5

LEMMA FailedInTheHeader ==
  ASSUME HeaderInv, PhasesInv, phase = "header", Fail, \/ \E f \in 1..12: Arrived(f)
                                                       \/ result = "failed"
  PROVE  HeaderInv' /\ PhasesInv'
<1>1. /\ phase' = "failed"
      /\ UNCHANGED <<file, field, raw, raised, header, encoding, cursor, position, call, stage, scanning, units, ended>>
  BY DEF Fail, source, walk, scan, rows
<1>2. stage = "none" /\ NotYetWalked /\ header = NoHeader /\ encoding = {} /\ units = << >> /\ ended = FALSE
  BY DEF HeaderInv, HeaderReads, PhasesInv
<1>3. call = "none" /\ position \in {Offset(field), Offset(field + 1)}
  <2>1. CASE \E f \in 1..12: Arrived(f)
    <3>1. PICK f \in 1..12: Arrived(f)
      BY <2>1
    <3>2. field = f /\ position = Offset(f + 1) /\ call = "none"
      BY <3>1, ArrivedBytes DEF Arrived
    <3> QED
      BY <3>2
  <2>2. CASE result = "failed"
    <3>1. ReadSane
      BY <2>2 DEF HeaderInv, HeaderReads
    <3> QED
      BY <2>2, <3>1, FieldWhole DEF ReadSane
  <2> QED
    BY <2>1, <2>2
<1>4. "running" \notin Scan!Errors
  BY DEF Scan!Errors
<1>5. FailedWhere'
  <2>1. ~(scanning' \in Scan!Errors)
    BY <1>1, <1>2, <1>4 DEF NotYetWalked
  <2>2. position' \in {Offset(field'), Offset(field' + 1)}
    BY <1>1, <1>3
  <2> HIDE DEF Scan!Errors
  <2> QED
    BY <1>1, <1>3, <2>1, <2>2 DEF FailedWhere, Scan!Errors
<1>6. PhasesInv'
  BY <1>1, <1>2, <1>5 DEF PhasesInv
<1>7. RawSoFar'
  BY <1>1
     DEF HeaderInv, RawSoFar, MagicRead, ProductNameRead, OrderRead, CompressionRead, WeightRead,
         CountRead, FloatFormatRead, FileLabelRead
<1> QED
  BY <1>1, <1>6, <1>7 DEF HeaderInv, HeaderReads

(* A field taken leaves the walk and the rows as they were. *)
LEMMA TakenKeepsPhases ==
  ASSUME PhasesInv, NEW f, Arrived(f), NEW parsed, NEW warned, Take(parsed, warned)
  PROVE  PhasesInv'
<1>1. phase = "header" /\ UNCHANGED <<phase, header, encoding, scanning, scanned, pending, physical, primaries, envelopes, label,
                                      codepage, units, ended>>
  BY DEF Arrived, Take, walk, scan, rows
<1>2. NotYetWalked'
  BY <1>1 DEF PhasesInv, NotYetWalked, Scan!Undeclared
<1> QED
  BY <1>1, <1>2 DEF PhasesInv

FieldStep ==
  \/ RecordType \/ ProductName \/ LayoutCode \/ NominalCaseSize \/ CompressionCode \/ WeightIndex
  \/ CaseCount \/ BiasField \/ CreationDate \/ CreationTime \/ FileLabel

LEMMA FieldKeepsPhases ==
  ASSUME HeaderInv, PhasesInv, FieldStep
  PROVE  HeaderInv' /\ PhasesInv'
<1>1. CASE Fail
  <2>1. Arrived(1) \/ Arrived(3) \/ ~Fail
    BY DEF FieldStep, RecordType, ProductName, LayoutCode, NominalCaseSize, CompressionCode, WeightIndex, CaseCount,
           BiasField, CreationDate, CreationTime, FileLabel, Fail, Take, Arrived
  <2>2. phase = "header" /\ \E f \in 1..12: Arrived(f)
    BY <1>1, <2>1 DEF Arrived
  <2> QED
    BY <1>1, <2>2, FailedInTheHeader
<1>2. CASE ~Fail
  <2>1. \E f \in 1..12: \E parsed, warned: Arrived(f) /\ Take(parsed, warned)
    BY <1>2 DEF FieldStep, RecordType, ProductName, LayoutCode, NominalCaseSize, CompressionCode, WeightIndex, CaseCount,
                BiasField, CreationDate, CreationTime, FileLabel
  <2>2. PhasesInv'
    BY <2>1, TakenKeepsPhases
  <2>3. phase' # "failed"
    BY <2>1 DEF Arrived, Take
  <2> QED
    BY <2>2, <2>3, FieldKeepsHeader DEF FieldStep
<1> QED
  BY <1>1, <1>2

LEMMA StartKeepsPhases ==
  ASSUME HeaderInv, PhasesInv, StartHeader
  PROVE  HeaderInv' /\ PhasesInv'
<1>1. /\ phase = "header" /\ field = 1 /\ Ask(FieldKinds[1], FieldLens[1])
      /\ UNCHANGED <<walk, parsing, rows>>
      /\ cursor = 0 /\ position = 0 /\ stage = "none"
  BY DEF StartHeader, HeaderInv, HeaderReads
<1>2. /\ FieldKinds[1] = "exact" /\ FieldLens[1] \in Nat /\ Offset(2) = FieldLens[1]
  <2>1. FieldKinds[1] = "exact"
    BY FieldKindsAre
  <2>2. /\ Offset(1) = 0
        /\ \A f \in 1..12: Offset(f) \in Nat /\ FieldLens[f] \in Nat /\ Offset(f + 1) = Offset(f) + FieldLens[f]
    BY OffsetsAddUp
  <2>3. FieldLens[1] \in Nat /\ Offset(1 + 1) = Offset(1) + FieldLens[1]
    BY <2>2
  <2> HIDE DEF FieldLens, Offset
  <2>4. 1 + 1 = 2
    OBVIOUS
  <2> QED
    BY <2>1, <2>2, <2>3, <2>4
<1>3. /\ ReadSane' /\ ReadEnd' = FieldLens[1] /\ call' = "exact" /\ result' = "none"
      /\ UNCHANGED <<cursor, position>> /\ AtOnce(FieldLens[1])'
  BY <1>1, <1>2, FirstAsk
<1>4. UNCHANGED <<file, phase, field, raw, header, encoding, raised, units, ended, stage>> /\ UNCHANGED scan
  BY <1>1 DEF walk, parsing, rows
<1>5. HeaderReads'
  <2>1. field' = 1 /\ field' + 1 = 2 /\ stage' = "none" /\ call' # "none" /\ result' = "none" /\ call' = FieldKinds[field']
    BY <1>1, <1>2, <1>3, <1>4
  <2>2. ReadEnd' = Offset(field' + 1) /\ AtOnce(FieldLens[field])'
    BY <1>2, <1>3, <2>1 DEF AtOnce
  <2> QED
    BY <1>3, <2>1, <2>2 DEF HeaderReads
<1>6. RawSoFar'
  BY <1>4
     DEF HeaderInv, RawSoFar, MagicRead, ProductNameRead, OrderRead, CompressionRead, WeightRead,
         CountRead, FloatFormatRead, FileLabelRead
<1>7. HeaderInv'
  BY <1>3, <1>4, <1>5, <1>6 DEF HeaderInv
<1>8. PhasesInv'
  BY <1>1, <1>4 DEF PhasesInv, NotYetWalked, scan, Scan!Undeclared
<1> QED
  BY <1>7, <1>8

LEMMA RawStays ==
  ASSUME RawSoFar, UNCHANGED <<file, field, raw>>, raised' = << >> => raised = << >>
  PROVE  RawSoFar'
BY DEF RawSoFar, MagicRead, ProductNameRead, OrderRead, CompressionRead, WeightRead, CountRead, FloatFormatRead,
       FileLabelRead

LEMMA HeaderOver ==
  ASSUME HeaderInv, phase' # "header", UNCHANGED <<file, field, raw>>,
         raised' \in Seq(WarningNames), raised' = << >> => raised = << >>, cursor' <= Len(file'.bytes)
  PROVE  HeaderInv'
<1>1. RawSoFar'
  BY RawStays DEF HeaderInv
<1> QED
  BY <1>1 DEF HeaderInv, HeaderReads

LEMMA NothingSaidYet ==
  ASSUME NEW subtype
  PROVE  Seen(0, subtype) = {}
BY DEF Seen

LEMMA PaddingKeepsPhases ==
  ASSUME HeaderInv, PhasesInv, Padding
  PROVE  HeaderInv' /\ PhasesInv'
<1>1. /\ ReadSane /\ position = Offset(13) /\ result = "whole" /\ field = 12 /\ phase = "header"
      /\ cursor <= Len(file.bytes)
  <2>1. 12 \in 1..12 /\ 12 + 1 = 13 /\ Arrived(12)
    BY DEF Padding
  <2>2. position = Offset(12 + 1) /\ ReadSane /\ result = "whole" /\ field = 12
    BY <2>1, ArrivedBytes
  <2> QED
    BY <2>1, <2>2 DEF Arrived, HeaderInv
<1>2. /\ phase' = "dictionary" /\ stage' = "tag" /\ Ask("exact", WordLen) /\ UNCHANGED scan
      /\ UNCHANGED <<file, field, raw, header, encoding, raised, rows>>
  BY DEF Padding, BeginWalk, Asks
<1>3. WordLen \in Nat
  BY BytesAssumption
<1>4. /\ ReadSane' /\ ReadEnd' = ReadEnd + WordLen /\ call' = "exact"
      /\ UNCHANGED <<cursor, position>> /\ AtOnce(WordLen)'
  BY <1>1, <1>2, <1>3, AskReads
<1>5. NotYetWalked /\ header = NoHeader /\ encoding = {} /\ units = << >> /\ ended = FALSE
  BY <1>1 DEF PhasesInv
<1>6. /\ scanning' = "running" /\ scanned' = << >> /\ pending' = 0 /\ physical' = 0 /\ primaries' = << >>
      /\ envelopes' = << >> /\ label' = Scan!Undeclared /\ codepage' = Scan!Undeclared
  BY <1>2, <1>5 DEF NotYetWalked, scan
<1>7. /\ DictionaryLaidOut(file) /\ (file.sound => Sound(file)) /\ file \in Files
  BY FilesAssumption DEF HeaderInv, IsFile
<1>8. /\ Len(file.dictionary) \in Nat \ {0} /\ file.dictionary[1].at = HeaderLen
      /\ file.sound => file.dictionary[1].owed = 0 /\ file.dictionary[1].place = 0
  BY <1>7 DEF DictionaryLaidOut, Sound
<1>9. Len(scanned') = 0 /\ Len(scanned') + 1 = 1
  BY <1>6
<1>10. Here' = file.dictionary[1]
  BY <1>2, <1>9 DEF Here
<1>11. TagSpot'
  <2>1. ReadEnd' = Here'.at + WordLen
    BY <1>1, <1>4, <1>8, <1>10, OffsetsAddUp DEF ReadEnd
  <2> QED
    BY <1>2, <1>4, <2>1 DEF TagSpot, ExactRead, ReadTo
<1>12. SoundSoFar'
  <2>1. 0 \in Nat /\ << >> \in Seq(Nat)
    OBVIOUS
  <2>2. PrimariesPlaced(Len(scanned))'
    BY <1>9 DEF PrimariesPlaced
  <2> QED
    BY <1>2, <1>6, <1>8, <1>10, <2>1, <2>2 DEF SoundSoFar
<1>13. WalkInv'
  <2>1. IsASequence(scanned')
    BY <1>6 DEF IsASequence
  <2>2. Len(scanned') + 1 \in 1..Len(file'.dictionary)
    BY <1>2, <1>8, <1>9
  <2>3. file' \in Files /\ cursor' <= Len(file'.bytes)
    BY <1>1, <1>2, <1>4, <1>7
  <2> QED
    BY <1>4, <1>6, <1>11, <1>12, <2>1, <2>2, <2>3 DEF WalkInv, Spot
<1>14. SaidSoFar'
  <2>1. \A subtype: Seen(Len(scanned), subtype)' = {}
    BY <1>9, NothingSaidYet DEF Seen
  <2>2. CountRecords' = {} /\ envelopes' \in Seq(Envelope)
    BY <1>6 DEF CountRecords
  <2>3. \A subtype: SaidByLast(Seen(Len(scanned), subtype))' = {}
    BY <2>1 DEF SaidByLast
  <2> HIDE DEF Seen, CountRecords, Envelope, SaidByLast
  <2> QED
    BY <1>6, <2>1, <2>2, <2>3 DEF SaidSoFar, EncodingSaid, Scan!Undeclared
<1>15. HeaderInv'
  <2>1. cursor' <= Len(file'.bytes) /\ raised' \in Seq(WarningNames)
    BY <1>1, <1>2, <1>4 DEF HeaderInv
  <2> QED
    BY <1>2, <2>1, HeaderOver
<1>16. PhasesInv'
  BY <1>1, <1>2, <1>5, <1>13, <1>14 DEF PhasesInv, rows
<1> QED
  BY <1>15, <1>16

LEMMA ReadFailedKeepsPhases ==
  ASSUME HeaderInv, PhasesInv, ReadFailed
  PROVE  HeaderInv' /\ PhasesInv'
BY FailedInTheHeader DEF ReadFailed

-----------------------------------------------------------------------------------
(* The dictionary, to its end or an error *)

LEMMA AllOfIt ==
  ASSUME WalkInv, SaidSoFar, Here.kind = "end"
  PROVE  AllSaid /\ RowsStart = Here.at + Here.length
<1>1. Len(scanned) + 1 = Len(file.dictionary)
  BY HereFacts DEF WalkInv
<1>2. Len(scanned) \in Nat
  BY DEF WalkInv, IsASequence
<1>3. DOMAIN file.dictionary = 1..Len(file.dictionary)
  BY FilesAssumption DEF WalkInv, IsFile, DictionaryLaidOut
<1>4. \A subtype: Seen(Len(scanned), subtype) = Declaring(subtype)
  <2> SUFFICES ASSUME NEW subtype
               PROVE  Seen(Len(scanned), subtype) = Declaring(subtype)
    OBVIOUS
  <2>1. Len(scanned) + 1 \notin Declaring(subtype)
    BY DEF Declaring, Here
  <2>2. \A i \in Declaring(subtype): i \in 1..Len(scanned) + 1 /\ i # Len(scanned) + 1
    BY <1>1, <1>3, <2>1 DEF Declaring
  <2>3. \A i \in 1..Len(scanned) + 1: i # Len(scanned) + 1 => i \in 1..Len(scanned)
    BY <1>2
  <2> QED
    BY <2>2, <2>3 DEF Seen
<1>5. RowsStart = Here.at + Here.length
  BY <1>1 DEF RowsStart, RecordStart, Last, Here
<1>6. CountRecords # {} => Max(CountRecords) \in CountRecords
  <2>1. Len(envelopes) \in Nat /\ CountRecords \in SUBSET (1..Len(envelopes))
    BY DEF SaidSoFar, CountRecords
  <2> QED
    BY <2>1, GreatestNumber
<1> HIDE DEF Seen, Declaring, SaidByLast, EncodingSaid, CountSaidBy, CountRecords
<1>7. /\ EncodingSaid(SaidByLast(Declaring(20)), label)
      /\ EncodingSaid(SaidByLast(Declaring(3)), codepage)
      /\ CountRecords = {} <=> Declaring(16) = {}
      /\ CountRecords # {} => CountSaidBy(envelopes[Max(CountRecords)], SaidByLast(Declaring(16)))
  BY <1>4, Zenon DEF SaidSoFar
<1>8. Declaring(16) = {} => SaidByLast(Declaring(16)) = {}
  BY DEF SaidByLast
<1> QED
  BY <1>5, <1>6, <1>7, <1>8 DEF AllSaid, LabelByLast, CodeByLast, CountSaid

LEMMA AllSaidStays ==
  ASSUME AllSaid, UNCHANGED <<file, envelopes, label, codepage>>
  PROVE  AllSaid'
BY DEF AllSaid, EncodingSaid, CountSaidBy, CountRecords, LabelByLast, CodeByLast, CountSaid, SaidByLast, Declaring,
       Scan!Undeclared

LEMMA WalkKeepsPhases ==
  ASSUME HeaderInv, PhasesInv, WalkDictionary
  PROVE  HeaderInv' /\ PhasesInv'
<1>1. /\ phase = "dictionary" /\ field = 12 /\ header = NoHeader /\ encoding = {} /\ WalkInv /\ SaidSoFar
      /\ units = << >> /\ ended = FALSE /\ cursor <= Len(file.bytes)
  BY DEF WalkDictionary, PhasesInv, HeaderInv
<1>2. UNCHANGED <<file, field, raw, header, encoding, raised, units, ended>>
  BY DEF WalkDictionary, rows
<1>3. Order = file.written.order
  <2>1. raw.byteOrder = {file.written.order}
    BY <1>1 DEF HeaderInv, RawSoFar, OrderRead
  <2> QED
    BY <2>1 DEF Order
<1>4. Walk(file.written.order, ReadBytes)
  BY <1>3, Zenon DEF WalkDictionary, ReadBytes
<1>5. WalkStep
  BY <1>1, <1>2, <1>4, WalkSteps
<1>6. cursor' <= Len(file'.bytes)
  <2>1. cursor' = cursor
    BY <1>4, WalkAsksNoUnit DEF AsksNoUnit
  <2> QED
    BY <1>1, <1>2, <2>1
<1>7. phase' = IF scanning' = "running" THEN "dictionary" ELSE IF scanning' = "done" THEN "resolving" ELSE "failed"
  BY DEF WalkDictionary
<1>8. HeaderInv'
  BY <1>2, <1>6, <1>7, HeaderOver DEF HeaderInv
<1>9. CASE Asked
  <2>1. WalkInv' /\ UNCHANGED <<scanning, scanned, envelopes, label, codepage>>
    BY <1>1, <1>2, <1>6, <1>9, AskedKeepsWalk DEF Asked, scan
  <2>2. SaidSoFar' /\ phase' = "dictionary"
    BY <1>1, <1>2, <1>7, <2>1, SaidStays DEF WalkInv
  <2> QED
    BY <1>1, <1>2, <1>8, <2>1, <2>2 DEF PhasesInv
<1>10. CASE Turned
  <2>1. WalkInv' /\ SaidSoFar'
    BY <1>1, <1>2, <1>6, <1>10, TurnedKeepsWalk, TurnedKeepsSaid
  <2>2. phase' = "dictionary"
    BY <1>7, <1>10 DEF Turned
  <2> QED
    BY <1>1, <1>2, <1>8, <2>1, <2>2 DEF PhasesInv
<1>11. CASE Stopped
  <2>1. /\ UNCHANGED <<cursor, position, call, envelopes, label, codepage>> /\ stage' = "over" /\ call = "none"
    BY <1>11 DEF Stopped, source
  <2>2. CASE scanning' = "done" /\ Here.kind = "end" /\ position = Here.at + Here.length /\ cursor = position
    <3>1. AllSaid /\ RowsStart = Here.at + Here.length
      BY <1>1, <2>2, AllOfIt
    <3>2. AllSaid' /\ RowsStart' = RowsStart
      BY <1>2, <2>1, <3>1, AllSaidStays DEF RowsStart, RecordStart
    <3>3. phase' = "resolving"
      BY <1>7, <2>2
    <3> QED
      BY <1>1, <1>2, <1>8, <2>1, <2>2, <3>1, <3>2, <3>3 DEF PhasesInv
  <2>3. CASE /\ scanning' \in Scan!Errors
             /\ file.sound => scanning' = "Io" /\ cursor < Len(file.bytes)
    <3>1. phase' = "failed"
      BY <1>7, <2>3 DEF Scan!Errors
    <3>2. FailedWhere'
      BY <1>2, <2>1, <2>3 DEF FailedWhere
    <3> QED
      BY <1>1, <1>2, <1>8, <2>1, <3>1, <3>2 DEF PhasesInv
  <2> QED
    BY <1>11, <2>2, <2>3 DEF Stopped
<1> QED
  BY <1>5, <1>9, <1>10, <1>11 DEF WalkStep

-----------------------------------------------------------------------------------
(* The encoding *)

Names(by, says) ==
  /\ by \in EncodingNames
  /\ by \in Applicable => says = {by}
  /\ by \notin Applicable => says \cap Applicable = {}
  /\ "unknown" \in says <=> by = "unknown"

LEMMA NamedAsSaid ==
  ASSUME NEW says, NEW told, EncodingSaid(says, told)
  PROVE  /\ Names(Encoding!NamedByLabel(DeclaredOr(told)), says)
         /\ Names(Encoding!NamedByCode(DeclaredOr(told)), says)
<1> USE DEF Encoding!Absent, Encoding!NamedByLabel, Encoding!NamedByCode, DeclaredOr, Names, EncodingNames, Applicable
<1>1. CASE says = {} /\ told = Scan!Undeclared
  BY <1>1
<1>2. CASE told \in EncodingNames /\ says = {told}
  <2>1. told # Scan!Undeclared /\ told # "absent"
    BY <1>2 DEF Scan!Undeclared
  <2> QED
    BY <1>2, <2>1
<1> QED
  BY <1>1, <1>2 DEF EncodingSaid

Notices == [warning: WarningNames]

LEMMA NoticesAre ==
  /\ \A byLabel, byCode:
       /\ Encoding!MismatchWarnings(byLabel, byCode) \in Seq(Notices)
       /\ Encoding!MismatchWarnings(byLabel, byCode) = << >> => byCode \notin Applicable \/ byCode = byLabel
  /\ \A named:
       /\ Encoding!UnrecognizedWarnings(named) \in Seq(Notices)
       /\ Encoding!UnrecognizedWarnings(named) = << >> => named # "unknown"
<1> DEFINE mismatch == [warning |-> "EncodingDeclarationMismatch"]
           unrecognized == [warning |-> "EncodingDeclarationUnrecognized"]
<1>1. mismatch \in Notices /\ unrecognized \in Notices
  BY DEF Notices, WarningNames
<1> HIDE DEF mismatch, unrecognized, Notices
<1>2. /\ <<mismatch>> \in Seq(Notices) /\ <<mismatch>> # << >>
      /\ <<unrecognized>> \in Seq(Notices) /\ <<unrecognized>> # << >> /\ << >> \in Seq(Notices)
  BY <1>1
<1>3. \A byLabel, byCode: Encoding!MismatchWarnings(byLabel, byCode) =
        IF byCode \in Applicable /\ byCode # byLabel THEN <<mismatch>> ELSE << >>
  BY Zenon DEF Encoding!MismatchWarnings, mismatch
<1>4. \A named: Encoding!UnrecognizedWarnings(named) = IF named = "unknown" THEN <<unrecognized>> ELSE << >>
  BY Zenon DEF Encoding!UnrecognizedWarnings, unrecognized
<1> QED
  BY <1>2, <1>3, <1>4

LEMMA TwoNotices ==
  ASSUME NEW a \in Seq(Notices), NEW b \in Seq(Notices)
  PROVE  a \o b \in Seq(Notices) /\ (a \o b = << >> => a = << >> /\ b = << >>)
BY ConcatProperties, EmptySeq

LEMMA OneNoticeMore ==
  ASSUME NEW a \in Seq(Notices)
  PROVE  /\ Append(a, [warning |-> "EncodingUnspecified"]) \in Seq(Notices)
         /\ Append(a, [warning |-> "EncodingUnspecified"]) # << >>
<1> DEFINE notice == [warning |-> "EncodingUnspecified"]
<1>1. notice \in Notices
  BY DEF Notices, WarningNames
<1> HIDE DEF notice, Notices
<1>2. Append(a, notice) \in Seq(Notices) /\ Append(a, notice) # << >>
  BY <1>1, AppendProperties, EmptySeq
<1> QED
  BY <1>2 DEF notice

(* The properties, as they are of what the last records say. *)
AskedForByLast ==
  IF Strategy.override # "absent" THEN {Strategy.override}
  ELSE IF LabelByLast \cap Applicable # {} THEN LabelByLast
  ELSE IF CodeByLast \cap Applicable # {} THEN CodeByLast
  ELSE IF "unknown" \in LabelByLast \cup CodeByLast THEN {Strategy.unrecognized}
  ELSE {Strategy.unspecified}

WrittenByLast ==
  \A h \in header:
    LET w == file.written
        shown(text) == IF "UTF-8" \in AskedForByLast THEN Decoded(text) ELSE text
    IN  /\ h.byteOrder = w.order
        /\ h.productName = shown(w.productName) /\ h.fileLabel = shown(w.fileLabel)
        /\ h.compression = (IF w.code = 1 THEN "Bytecode" ELSE IF w.code = 2 THEN "Zlib" ELSE "None")
        /\ h.floatFormat = w.bias.format
        /\ h.caseCount = (IF w.cases < 0 THEN NoCount ELSE w.cases)
        /\ raw.weightOffset = {n - 1: n \in {w.weight} \cap (Nat \ {0})}

SilentByLast ==
  phase = "open" /\ raised = << >> =>
    LET w == file.written
    IN  /\ w.code \in 0..2 /\ (w.code = 2) = (w.magic = FL3)
        /\ w.bias.canonical
        /\ Strategy.override = "absent" =>
             \E named \in Applicable: (LabelByLast \cup CodeByLast) \cap Applicable = {named}
        /\ CountSaid = {} \/ w.cases < 0 \/ CountSaid = {caseCount}
        /\ CountSaid # {} \/ caseCount = DeclaredCount(w.cases)

NoOtherByLast ==
  Strategy.override = "absent" =>
    \E named \in Applicable: (LabelByLast \cup CodeByLast) \cap Applicable = {named}

(* What a resolution that does not fail comes to. *)
Settles(resolved) ==
  resolved.provenance \notin Encoding!Failures =>
    /\ {resolved.encoding} = AskedForByLast
    /\ resolved.warnings \in Seq(Notices)
    /\ resolved.warnings = << >> => NoOtherByLast

LEMMA FallBackSettles ==
  ASSUME NEW byLabel, NEW byCode, Names(byLabel, LabelByLast), Names(byCode, CodeByLast),
         byLabel \notin Applicable, byCode \notin Applicable, Strategy.override = "absent",
         NEW noted \in Seq(Notices), noted = << >> => byLabel # "unknown" /\ byCode # "unknown"
  PROVE  Settles(Encoding!FallBack(Strategy, "unknown" \in {byLabel, byCode}, noted))
<1> DEFINE unresolvable == "unknown" \in {byLabel, byCode}
           more == Append(noted, [warning |-> "EncodingUnspecified"])
<1>1. AskedForByLast = IF unresolvable THEN {Strategy.unrecognized} ELSE {Strategy.unspecified}
  <2>1. LabelByLast \cap Applicable = {} /\ CodeByLast \cap Applicable = {}
    BY DEF Names
  <2>2. "unknown" \in LabelByLast \cup CodeByLast <=> unresolvable
    BY DEF Names
  <2> HIDE DEF LabelByLast, CodeByLast, unresolvable
  <2> QED
    BY <2>1, <2>2, Zenon DEF AskedForByLast
<1>2. more \in Seq(Notices) /\ more # << >>
  BY OneNoticeMore
<1> HIDE DEF more, AskedForByLast, NoOtherByLast, Notices
<1>3. CASE unresolvable
  <2>1. noted # << >>
    BY <1>3
  <2> HIDE DEF unresolvable
  <2>2. Encoding!FallBack(Strategy, unresolvable, noted) =
          IF Strategy.unrecognized = "absent" THEN Encoding!Failed("EncodingUnrecognized")
          ELSE Encoding!Resolved("Unrecognized", Strategy.unrecognized, noted)
    BY <1>3, Zenon DEF Encoding!FallBack, Encoding!Absent
  <2>3. CASE Strategy.unrecognized = "absent"
    BY <2>2, <2>3 DEF Encoding!Failed, Encoding!Failures, Settles, unresolvable
  <2>4. CASE Strategy.unrecognized # "absent"
    BY <1>1, <1>3, <2>1, <2>2, <2>4 DEF Encoding!Resolved, Settles, unresolvable
  <2> QED
    BY <2>3, <2>4
<1>4. CASE ~unresolvable
  <2> HIDE DEF unresolvable
  <2>2. Encoding!FallBack(Strategy, unresolvable, noted) =
          IF Strategy.unspecified = "absent" THEN Encoding!Failed("EncodingUnspecified")
          ELSE Encoding!Resolved("Unspecified", Strategy.unspecified, more)
    BY <1>4, Zenon DEF Encoding!FallBack, Encoding!Absent, more
  <2>3. CASE Strategy.unspecified = "absent"
    BY <2>2, <2>3 DEF Encoding!Failed, Encoding!Failures, Settles, unresolvable
  <2>4. CASE Strategy.unspecified # "absent"
    BY <1>1, <1>2, <1>4, <2>2, <2>4 DEF Encoding!Resolved, Settles, unresolvable
  <2> QED
    BY <2>3, <2>4
<1> QED
  BY <1>3, <1>4

LEMMA ResolveSettles ==
  ASSUME AllSaid
  PROVE  Settles(Encoding!Resolve(Strategy, DeclaredOr(label), DeclaredOr(codepage)))
<1> DEFINE byLabel == Encoding!NamedByLabel(DeclaredOr(label))
           byCode  == Encoding!NamedByCode(DeclaredOr(codepage))
           resolved == Encoding!Resolve(Strategy, DeclaredOr(label), DeclaredOr(codepage))
           noted    == Encoding!UnrecognizedWarnings(byLabel)
           both     == noted \o Encoding!UnrecognizedWarnings(byCode)
<1>1. Names(byLabel, LabelByLast) /\ Names(byCode, CodeByLast)
  BY NamedAsSaid DEF AllSaid
<1>2. /\ noted \in Seq(Notices) /\ both \in Seq(Notices)
      /\ both = << >> => byLabel # "unknown" /\ byCode # "unknown"
      /\ Encoding!MismatchWarnings(byLabel, byCode) \in Seq(Notices)
      /\ Encoding!MismatchWarnings(byLabel, byCode) = << >> => byCode \notin Applicable \/ byCode = byLabel
  BY NoticesAre, TwoNotices
<1>3. CASE Strategy.override # "absent"
  <2>1. resolved = Encoding!Resolved("Overridden", Strategy.override, << >>)
    BY <1>3, Zenon DEF Encoding!Resolve, Encoding!Absent
  <2>2. AskedForByLast = {Strategy.override}
    BY <1>3, Zenon DEF AskedForByLast
  <2>3. NoOtherByLast
    BY <1>3 DEF NoOtherByLast
  <2>4. << >> \in Seq(Notices)
    OBVIOUS
  <2> HIDE DEF AskedForByLast, NoOtherByLast, Notices, resolved
  <2> QED
    BY <2>1, <2>2, <2>3, <2>4 DEF Encoding!Resolved, Settles, resolved
<1>4. CASE Strategy.override = "absent"
  <2>1. resolved = Encoding!ResolveDeclared(Strategy, DeclaredOr(label), DeclaredOr(codepage))
    BY <1>4, Zenon DEF Encoding!Resolve, Encoding!Absent
  <2>2. resolved =
          IF byLabel \in Applicable
          THEN Encoding!Resolved("Label", byLabel, Encoding!MismatchWarnings(byLabel, byCode))
          ELSE IF byCode \in Applicable THEN Encoding!Resolved("Codepage", byCode, noted)
          ELSE Encoding!FallBack(Strategy, "unknown" \in {byLabel, byCode}, both)
    BY <2>1, Zenon DEF Encoding!ResolveDeclared
  <2> HIDE DEF byLabel, byCode, both, noted, Notices, resolved, LabelByLast, CodeByLast
  <2>3. CASE byLabel \in Applicable
    <3>1. LabelByLast = {byLabel}
      BY <1>1, <2>3 DEF Names
    <3>2. AskedForByLast = {byLabel}
      BY <1>4, <2>3, <3>1 DEF AskedForByLast
    <3>3. CodeByLast \cap Applicable = {byCode} \cap Applicable
      BY <1>1 DEF Names
    <3>4. Encoding!MismatchWarnings(byLabel, byCode) = << >> => NoOtherByLast
      BY <1>2, <2>3, <3>1, <3>3 DEF NoOtherByLast
    <3> HIDE DEF AskedForByLast, NoOtherByLast
    <3> QED
      BY <1>2, <2>2, <2>3, <3>2, <3>4 DEF Encoding!Resolved, Settles, resolved
  <2>4. CASE byLabel \notin Applicable /\ byCode \in Applicable
    <3>1. CodeByLast = {byCode} /\ LabelByLast \cap Applicable = {}
      BY <1>1, <2>4 DEF Names
    <3>2. AskedForByLast = {byCode}
      BY <1>4, <2>4, <3>1 DEF AskedForByLast
    <3>3. NoOtherByLast
      BY <2>4, <3>1 DEF NoOtherByLast
    <3> HIDE DEF AskedForByLast, NoOtherByLast
    <3> QED
      BY <1>2, <2>2, <2>4, <3>2, <3>3 DEF Encoding!Resolved, Settles, resolved
  <2>5. CASE byLabel \notin Applicable /\ byCode \notin Applicable
    <3>1. Settles(Encoding!FallBack(Strategy, "unknown" \in {byLabel, byCode}, both))
      BY <1>1, <1>2, <1>4, <2>5, FallBackSettles
    <3> QED
      BY <2>2, <2>5, <3>1, Zenon DEF resolved
  <2> QED
    BY <2>3, <2>4, <2>5
<1> QED
  BY <1>3, <1>4

-----------------------------------------------------------------------------------
(* The header's text, without the blanks that fill up its field *)

LEMMA GreatestIs ==
  ASSUME NEW S, NEW m \in S, m \in Int, \A y \in S: y \in Int /\ y <= m
  PROVE  Max(S) = m
<1>1. \A y \in S: y \in Int /\ m >= y
  OBVIOUS
<1>2. \A x \in S: (\A y \in S: x >= y) => x = m
  BY <1>1
<1> QED
  BY <1>1, <1>2 DEF Max

LEMMA TextKept ==
  ASSUME NEW length \in Nat, NEW bytes \in Seq(Byte), Len(bytes) = length,
         NEW text \in Seq(Byte), Len(text) <= length, text # << >> => Last(text) # Blank,
         \A i \in 1..length: bytes[i] = IF i <= Len(text) THEN text[i] ELSE Blank
  PROVE  SubSeq(bytes, 1, Max({0} \cup {i \in DOMAIN bytes: bytes[i] # Blank})) = text
<1> DEFINE n == Len(text)
           filled_ == {0} \cup {i \in DOMAIN bytes: bytes[i] # Blank}
<1> HIDE DEF Byte
<1>1. n \in Nat /\ n <= length /\ DOMAIN bytes = 1..length /\ DOMAIN text = 1..n
  OBVIOUS
<1>2. n \in filled_
  <2>1. CASE n = 0
    BY <2>1
  <2>2. CASE n # 0
    <3>1. n \in 1..length /\ bytes[n] = text[n] /\ text # << >>
      BY <1>1, <2>2
    <3>2. text[n] # Blank
      BY <3>1 DEF Last
    <3> QED
      BY <1>1, <3>1, <3>2
  <2> QED
    BY <2>1, <2>2
<1>3. \A y \in filled_: y \in Int /\ y <= n
  BY <1>1
<1> HIDE DEF filled_
<1>4. Max(filled_) = n
  BY <1>1, <1>2, <1>3, GreatestIs
<1>5. /\ SubSeq(bytes, 1, n) \in Seq(Byte) /\ Len(SubSeq(bytes, 1, n)) = n
  BY <1>1, TwoSlices
<1>6. \A i \in 1..n: SubSeq(bytes, 1, n)[i] = text[i]
  <2>1. \A i \in 1..n: SubSeq(bytes, 1, n)[i] = bytes[i]
    BY <1>1
  <2>2. \A i \in 1..n: i \in 1..length /\ i <= Len(text)
    BY <1>1
  <2> QED
    BY <2>1, <2>2
<1>7. SubSeq(bytes, 1, n) = text
  <2> DEFINE front == SubSeq(bytes, 1, n)
  <2>1. front \in Seq(Byte) /\ Len(front) = Len(text) /\ \A i \in 1..Len(front): front[i] = text[i]
    BY <1>5, <1>6
  <2> HIDE DEF front
  <2>2. front = text
    BY <2>1, SeqEqual
  <2> QED
    BY <2>2 DEF front
<1> QED
  BY <1>4, <1>7 DEF filled_

LEMMA TextIsWritten ==
  ASSUME NEW f \in Files, NEW from \in Nat, NEW length \in Nat, Within(f, from, length),
         NEW text \in Seq(Byte), HoldsText(f, from, length, text), NEW named
  PROVE  DecodeTrimmed(ByteRun(f, from, length), named) = IF named = "UTF-8" THEN Decoded(text) ELSE text
<1> DEFINE bytes == ByteRun(f, from, length)
<1>1. bytes \in Seq(Byte) /\ Len(bytes) = length /\ \A i \in 1..length: bytes[i] = f.bytes[from + i]
  BY RunFacts
<1>2. /\ Len(text) <= length /\ (text # << >> => Last(text) # Blank)
      /\ \A i \in 1..length: f.bytes[from + i] = IF i <= Len(text) THEN text[i] ELSE Blank
  BY DEF HoldsText
<1> HIDE DEF bytes
<1>3. SubSeq(bytes, 1, Max({0} \cup {i \in DOMAIN bytes: bytes[i] # Blank})) = text
  BY <1>1, <1>2, TextKept
<1> QED
  BY <1>3, Zenon DEF DecodeTrimmed, bytes

-----------------------------------------------------------------------------------
(* What is known of the header and the encoding *)

KnownInv ==
  /\ WrittenByLast
  /\ header # NoHeader => encoding # {}
  /\ encoding # {} =>
       encoding = AskedForByLast /\ (\E named: encoding = {named}) /\ (raised = << >> => NoOtherByLast)
  /\ SilentByLast

LEMMA KnownStays ==
  ASSUME KnownInv, UNCHANGED <<file, header, encoding, raised, caseCount>>, header # NoHeader => UNCHANGED raw,
         phase' = "open" => phase = "open"
  PROVE  KnownInv'
<1> USE DEF LabelByLast, CodeByLast, CountSaid, SaidByLast, Declaring
<1>1. AskedForByLast' = AskedForByLast /\ NoOtherByLast' = NoOtherByLast
  BY DEF AskedForByLast, NoOtherByLast
<1>2. WrittenByLast'
  <2> SUFFICES ASSUME header # NoHeader
               PROVE  WrittenByLast'
    BY DEF WrittenByLast, NoHeader
  <2> HIDE DEF AskedForByLast
  <2> QED
    BY <1>1 DEF KnownInv, WrittenByLast
<1>3. SilentByLast'
  <2> SUFFICES ASSUME phase' = "open"
               PROVE  SilentByLast'
    BY DEF SilentByLast
  <2>1. phase = "open" /\ SilentByLast
    BY DEF KnownInv
  <2>2. LabelByLast' = LabelByLast /\ CodeByLast' = CodeByLast /\ CountSaid' = CountSaid
    OBVIOUS
  <2> HIDE DEF LabelByLast, CodeByLast, CountSaid
  <2> QED
    BY <2>1, <2>2 DEF SilentByLast
<1> QED
  BY <1>1, <1>2, <1>3 DEF KnownInv

LEMMA NothingKnown ==
  ASSUME header' = NoHeader, encoding' = {}, phase' # "open"
  PROVE  KnownInv'
BY DEF KnownInv, WrittenByLast, SilentByLast, NoHeader

(* What the end of the dictionary leaves as it is, whether the reader opens or fails. *)
LEMMA ResolvedKeepsPhases ==
  ASSUME HeaderInv, PhasesInv, phase = "resolving", phase' \in {"resolving", "open", "failed"},
         UNCHANGED <<source, walk, file, field, raw, rows>>,
         raised' \in Seq(WarningNames), raised' = << >> => raised = << >>
  PROVE  HeaderInv' /\ PhasesInv'
<1>1. /\ field = 12 /\ stage = "over" /\ scanning = "done" /\ call = "none" /\ position = RowsStart
      /\ cursor = position /\ AllSaid /\ units = << >> /\ ended = FALSE
  BY DEF PhasesInv
<1>2. /\ UNCHANGED <<file, field, raw, cursor, position, call, envelopes, label, codepage, units, ended, stage, scanning>>
      /\ RowsStart' = RowsStart
  BY DEF source, walk, scan, rows, RowsStart, RecordStart
<1>3. AllSaid'
  BY <1>1, <1>2, AllSaidStays
<1>4. cursor' <= Len(file'.bytes)
  BY <1>2 DEF HeaderInv
<1>5. HeaderInv'
  BY <1>2, <1>4, HeaderOver DEF HeaderInv
<1>6. FailedWhere'
  BY <1>1, <1>2 DEF FailedWhere, Scan!Errors
<1> QED
  BY <1>1, <1>2, <1>3, <1>5, <1>6 DEF PhasesInv

LEMMA NamesOfNotices ==
  ASSUME NEW notices \in Seq(Notices)
  PROVE  LET names == [i \in DOMAIN notices |-> notices[i].warning]
         IN  names \in Seq(WarningNames) /\ (names = << >> => notices = << >>)
<1> DEFINE names == [i \in DOMAIN notices |-> notices[i].warning]
<1>1. Len(notices) \in Nat /\ DOMAIN notices = 1..Len(notices)
  OBVIOUS
<1>2. \A i \in 1..Len(notices): notices[i].warning \in WarningNames
  <2>1. \A i \in 1..Len(notices): notices[i] \in Notices
    OBVIOUS
  <2> QED
    BY <2>1 DEF Notices
<1> HIDE DEF Notices, WarningNames
<1>3. names \in Seq(WarningNames) /\ Len(names) = Len(notices)
  BY <1>1, <1>2
<1> HIDE DEF names
<1>4. names = << >> => notices = << >>
  BY <1>3, EmptySeq
<1> QED
  BY <1>3, <1>4 DEF names

LEMMA ResolveKnows ==
  ASSUME HeaderInv, PhasesInv, KnownInv, ResolveEncoding
  PROVE  HeaderInv' /\ PhasesInv' /\ KnownInv'
<1> DEFINE resolved == Encoding!Resolve(Strategy, DeclaredOr(label), DeclaredOr(codepage))
           more     == [i \in DOMAIN resolved.warnings |-> resolved.warnings[i].warning]
<1>1. /\ phase = "resolving" /\ encoding = {}
      /\ IF resolved.provenance \in Encoding!Failures
         THEN phase' = "failed" /\ UNCHANGED <<encoding, raised>>
         ELSE encoding' = {resolved.encoding} /\ raised' = raised \o more /\ UNCHANGED phase
      /\ UNCHANGED <<source, walk, file, field, raw, header, caseCount, rows>>
  BY DEF ResolveEncoding
<1>2. AllSaid /\ header = NoHeader
  BY <1>1 DEF PhasesInv, KnownInv
<1>3. Settles(resolved)
  BY <1>2, ResolveSettles
<1> HIDE DEF resolved
<1>4. raised \in Seq(WarningNames)
  BY DEF HeaderInv
<1>5. CASE resolved.provenance \in Encoding!Failures
  <2>1. phase' = "failed" /\ UNCHANGED <<encoding, raised>>
    BY <1>1, <1>5
  <2>2. HeaderInv' /\ PhasesInv'
    BY <1>1, <1>4, <2>1, ResolvedKeepsPhases
  <2>3. KnownInv'
    BY <1>1, <1>2, <2>1, NothingKnown
  <2> QED
    BY <2>2, <2>3
<1>6. CASE resolved.provenance \notin Encoding!Failures
  <2>1. phase' = "resolving" /\ encoding' = {resolved.encoding} /\ raised' = raised \o more
    BY <1>1, <1>6
  <2>2. /\ {resolved.encoding} = AskedForByLast
        /\ resolved.warnings \in Seq(Notices)
        /\ resolved.warnings = << >> => NoOtherByLast
    BY <1>3, <1>6 DEF Settles
  <2>3. more \in Seq(WarningNames) /\ (more = << >> => resolved.warnings = << >>)
    BY <2>2, NamesOfNotices
  <2> HIDE DEF more, WarningNames, Notices
  <2>4. raised' \in Seq(WarningNames) /\ (raised' = << >> => raised = << >> /\ more = << >>)
    BY <1>4, <2>1, <2>3, ConcatProperties, EmptySeq
  <2>5. HeaderInv' /\ PhasesInv'
    BY <1>1, <2>1, <2>4, ResolvedKeepsPhases
  <2>6. AskedForByLast' = AskedForByLast /\ NoOtherByLast' = NoOtherByLast
    BY <1>1 DEF AskedForByLast, NoOtherByLast, LabelByLast, CodeByLast, SaidByLast, Declaring
  <2>7. WrittenByLast' /\ SilentByLast' /\ header' = NoHeader
    BY <1>1, <1>2, <2>1 DEF WrittenByLast, SilentByLast, NoHeader
  <2> HIDE DEF AskedForByLast, NoOtherByLast
  <2>8. KnownInv'
    BY <2>1, <2>2, <2>3, <2>4, <2>6, <2>7 DEF KnownInv
  <2> QED
    BY <2>5, <2>8
<1> QED
  BY <1>5, <1>6

LEMMA WeightOffsetIs ==
  ASSUME NEW n \in Int
  PROVE  WeightOffset(n) = {m - 1: m \in {n} \cap (Nat \ {0})}
BY DEF WeightOffset

LEMMA FinishKnows ==
  ASSUME HeaderInv, PhasesInv, KnownInv, FinishHeader
  PROVE  HeaderInv' /\ PhasesInv' /\ KnownInv'
<1>1. /\ phase = "resolving" /\ header = NoHeader
      /\ UNCHANGED <<source, walk, file, phase, field, raw, encoding, caseCount, raised, rows>>
  BY DEF FinishHeader
<1>2. HeaderInv' /\ PhasesInv'
  BY <1>1, ResolvedKeepsPhases DEF HeaderInv
<1>3. field = 12 /\ RawSoFar /\ file \in Files
  BY <1>1 DEF PhasesInv, HeaderInv
<1>4. /\ raw.byteOrder = {file.written.order}
      /\ raw.compression = Compression(file.written.code, file.written.magic)
      /\ raw.weightOffset = WeightOffset(file.written.weight)
      /\ raw.caseCount = DeclaredCount(file.written.cases)
      /\ raw.floatFormat = file.written.bias.format
      /\ raw.productName = ByteRun(file, Offset(2), NameLen) /\ Within(file, Offset(2), NameLen)
      /\ raw.fileLabel = ByteRun(file, Offset(11), LabelLen) /\ Within(file, Offset(11), LabelLen)
  BY <1>3 DEF RawSoFar, OrderRead, CompressionRead, WeightRead, CountRead, FloatFormatRead, ProductNameRead, FileLabelRead
<1>5. Order = file.written.order
  BY <1>4 DEF Order
<1>6. PICK named: encoding = {named}
  BY <1>1 DEF KnownInv, FinishHeader
<1>7. AskedForByLast = {named} /\ encoding' = {named} /\ (raised = << >> => NoOtherByLast)
  BY <1>1, <1>6 DEF KnownInv
<1>8. /\ file.written.productName \in Seq(Byte) /\ HoldsText(file, Offset(2), NameLen, file.written.productName)
      /\ file.written.fileLabel \in Seq(Byte) /\ HoldsText(file, Offset(11), LabelLen, file.written.fileLabel)
      /\ file.written.weight \in Int
  BY <1>3, WrittenFacts DEF HeaderLaidOut
<1>9. /\ NameLen \in Nat /\ LabelLen \in Nat /\ Offset(2) \in Nat /\ Offset(11) \in Nat
  BY LengthsAssumption, OffsetsAddUp
<1>10. /\ DecodeTrimmed(raw.productName, named) =
            IF named = "UTF-8" THEN Decoded(file.written.productName) ELSE file.written.productName
       /\ DecodeTrimmed(raw.fileLabel, named) =
            IF named = "UTF-8" THEN Decoded(file.written.fileLabel) ELSE file.written.fileLabel
  BY <1>3, <1>4, <1>8, <1>9, TextIsWritten
<1> DEFINE h == [productName |-> DecodeTrimmed(raw.productName, named),
                 fileLabel |-> DecodeTrimmed(raw.fileLabel, named),
                 creationTimestamp |-> CreationTimestamp(raw.date, raw.time),
                 compression |-> raw.compression, byteOrder |-> Order,
                 floatFormat |-> raw.floatFormat, bias |-> raw.bias,
                 caseCount |-> raw.caseCount, nominalCaseSize |-> raw.nominalCaseSize]
<1>11. header' = {h}
  BY <1>6, Zenon DEF FinishHeader
<1>12. AskedForByLast' = AskedForByLast /\ NoOtherByLast' = NoOtherByLast
  BY <1>1 DEF AskedForByLast, NoOtherByLast, LabelByLast, CodeByLast, SaidByLast, Declaring
<1>13. file' = file /\ raw' = raw /\ raised' = raised /\ phase' = "resolving"
  BY <1>1
<1>14. "UTF-8" \in AskedForByLast' <=> named = "UTF-8"
  BY <1>7, <1>12
<1>15. /\ h.productName = (IF named = "UTF-8" THEN Decoded(file.written.productName) ELSE file.written.productName)
       /\ h.fileLabel = (IF named = "UTF-8" THEN Decoded(file.written.fileLabel) ELSE file.written.fileLabel)
       /\ h.byteOrder = file.written.order
       /\ h.compression = Compression(file.written.code, file.written.magic)
       /\ h.floatFormat = file.written.bias.format
       /\ h.caseCount = DeclaredCount(file.written.cases)
  BY <1>4, <1>5, <1>10
<1>16. raw.weightOffset = {m - 1: m \in {file.written.weight} \cap (Nat \ {0})}
  BY <1>4, <1>8, WeightOffsetIs
<1> HIDE DEF AskedForByLast, h, NoOtherByLast, WeightOffset
<1>17. WrittenByLast'
  BY <1>11, <1>13, <1>14, <1>15, <1>16, Zenon DEF WrittenByLast, Compression, DeclaredCount
<1>18. SilentByLast'
  BY <1>13 DEF SilentByLast
<1>19. KnownInv'
  BY <1>7, <1>12, <1>13, <1>17, <1>18 DEF KnownInv
<1> QED
  BY <1>2, <1>19

LEMMA UnreadableKnows ==
  ASSUME HeaderInv, PhasesInv, KnownInv, CountUnreadable
  PROVE  HeaderInv' /\ PhasesInv' /\ KnownInv'
<1>1. /\ phase = "resolving" /\ phase' = "failed"
      /\ UNCHANGED <<source, walk, file, field, raw, header, encoding, caseCount, raised, rows>>
  BY DEF CountUnreadable, Fail
<1>2. HeaderInv' /\ PhasesInv'
  BY <1>1, ResolvedKeepsPhases DEF HeaderInv
<1>3. KnownInv'
  BY <1>1, KnownStays
<1> QED
  BY <1>2, <1>3

(* The count there is, and whether the two agree. *)
LEMMA CountsAgree ==
  ASSUME NEW cases \in Int, NEW declared, declared = DeclaredCount(cases), NEW extended, NEW said, NEW settled,
         extended = {} => said = {}, extended # {} => extended = said,
         settled = (IF extended \cap Nat # {} THEN CHOOSE n \in extended: TRUE ELSE declared),
         ~(extended # {} /\ declared # NoCount /\ extended # {declared})
  PROVE  /\ said = {} \/ cases < 0 \/ said = {settled}
         /\ said # {} \/ settled = DeclaredCount(cases)
<1>1. CASE extended = {}
  BY <1>1
<1>2. CASE extended # {} /\ declared = NoCount
  BY <1>2 DEF DeclaredCount, NoCount
<1>3. CASE extended # {} /\ declared # NoCount
  <2>1. cases \in Nat /\ declared = cases
    BY <1>3 DEF DeclaredCount
  <2>2. extended = {cases} /\ said = {cases}
    BY <1>3, <2>1
  <2>3. settled = cases
    BY <2>1, <2>2
  <2> QED
    BY <2>2, <2>3
<1> QED
  BY <1>1, <1>2, <1>3

LEMMA CountSettles ==
  ASSUME HeaderInv, PhasesInv, KnownInv, ResolveCaseCount
  PROVE  HeaderInv' /\ PhasesInv' /\ KnownInv'
<1>1. /\ phase = "resolving" /\ phase' = "open"
      /\ \A i \in CountRecords: IsCount(envelopes[i])
      /\ UNCHANGED <<source, walk, file, field, raw, header, encoding, rows>>
  BY DEF ResolveCaseCount
<1>2. field = 12 /\ RawSoFar /\ file \in Files /\ AllSaid /\ raised \in Seq(WarningNames)
  BY <1>1 DEF PhasesInv, HeaderInv
<1>3. raw.byteOrder = {file.written.order}
  BY <1>2 DEF RawSoFar, OrderRead
<1>4. Order = file.written.order
  BY <1>3 DEF Order
<1>5. CountRecords = {} => ExtendedCount = {} /\ CountSaid = {}
  BY <1>2 DEF ExtendedCount, AllSaid
<1>6. CountRecords # {} => ExtendedCount = CountSaid /\ CountSaid # {}
  BY <1>1, <1>2, <1>4 DEF ExtendedCount, AllSaid, CountSaidBy
<1>7. PICK finished \in header:
        /\ caseCount' = IF ExtendedCount \cap Nat # {} THEN CHOOSE n \in ExtendedCount: TRUE ELSE finished.caseCount
        /\ raised' = raised \o CountWarning(finished.caseCount)
  BY Zenon DEF ResolveCaseCount
<1>8. finished.caseCount = DeclaredCount(file.written.cases) /\ file.written.cases \in Int
  <2>1. WrittenByLast
    BY DEF KnownInv
  <2>2. finished.caseCount = (IF file.written.cases < 0 THEN NoCount ELSE file.written.cases)
    BY <2>1, Zenon DEF WrittenByLast
  <2> QED
    BY <1>2, <2>2, WrittenFacts DEF HeaderLaidOut, DeclaredCount
<1> DEFINE differ == ExtendedCount # {} /\ finished.caseCount # NoCount /\ ExtendedCount # {finished.caseCount}
<1>9. /\ raised' \in Seq(WarningNames)
      /\ raised' = << >> => raised = << >> /\ ~differ
  <2>1. "CaseCountMismatch" \in WarningNames
    BY DEF WarningNames
  <2> DEFINE warned == CountWarning(finished.caseCount)
  <2>2. warned = IF differ THEN <<"CaseCountMismatch">> ELSE << >>
    BY DEF CountWarning
  <2>3. raised' = raised \o warned
    BY <1>7
  <2> HIDE DEF differ, warned, WarningNames
  <2>4. warned \in Seq(WarningNames) /\ (warned = << >> => ~differ)
    <3>1. <<"CaseCountMismatch">> \in Seq(WarningNames) /\ <<"CaseCountMismatch">> # << >>
      BY <2>1
    <3> QED
      BY <2>2, <3>1
  <2> QED
    BY <1>2, <2>3, <2>4, ConcatProperties, EmptySeq
<1>10. HeaderInv' /\ PhasesInv'
  BY <1>1, <1>9, ResolvedKeepsPhases
<1>11. ~differ =>
         /\ CountSaid = {} \/ file.written.cases < 0 \/ CountSaid = {caseCount'}
         /\ CountSaid # {} \/ caseCount' = DeclaredCount(file.written.cases)
  <2> SUFFICES ASSUME ~differ
               PROVE  /\ CountSaid = {} \/ file.written.cases < 0 \/ CountSaid = {caseCount'}
                      /\ CountSaid # {} \/ caseCount' = DeclaredCount(file.written.cases)
    OBVIOUS
  <2> DEFINE cases    == file.written.cases
             declared == finished.caseCount
             extended == ExtendedCount
             said     == CountSaid
             settled  == caseCount'
  <2>1. /\ cases \in Int /\ declared = DeclaredCount(cases)
        /\ extended = {} => said = {}
        /\ extended # {} => extended = said
        /\ settled = IF extended \cap Nat # {} THEN CHOOSE n \in extended: TRUE ELSE declared
        /\ ~(extended # {} /\ declared # NoCount /\ extended # {declared})
    BY <1>5, <1>6, <1>7, <1>8
  <2> HIDE DEF cases, declared, extended, said, settled
  <2>2. /\ said = {} \/ cases < 0 \/ said = {settled}
        /\ said # {} \/ settled = DeclaredCount(cases)
    BY <2>1, CountsAgree, SMTT(30)
  <2> QED
    BY <2>2 DEF cases, declared, extended, said, settled
<1>12. /\ file' = file /\ raw' = raw /\ header' = header /\ encoding' = encoding
       /\ LabelByLast' = LabelByLast /\ CodeByLast' = CodeByLast /\ CountSaid' = CountSaid
       /\ AskedForByLast' = AskedForByLast /\ NoOtherByLast' = NoOtherByLast
  BY <1>1 DEF LabelByLast, CodeByLast, CountSaid, SaidByLast, Declaring, AskedForByLast, NoOtherByLast
<1>13. header # NoHeader /\ encoding # {}
  BY <1>7 DEF NoHeader, KnownInv
<1> HIDE DEF LabelByLast, CodeByLast, CountSaid, AskedForByLast, differ
<1>14. WrittenByLast'
  BY <1>12 DEF KnownInv, WrittenByLast
<1>15. SilentByLast'
  <2> SUFFICES ASSUME raised' = << >>
               PROVE  SilentByLast'
    BY DEF SilentByLast
  <2>1. raised = << >> /\ ~differ
    BY <1>9
  <2>2. NoOtherByLast
    BY <1>13, <2>1 DEF KnownInv
  <2>3. /\ file.written.code \in 0..2 /\ (file.written.code = 2) = (file.written.magic = FL3)
        /\ file.written.bias.canonical
    BY <1>2, <2>1 DEF RawSoFar, CompressionRead, FloatFormatRead
  <2> QED
    BY <1>11, <1>12, <2>1, <2>2, <2>3 DEF SilentByLast, NoOtherByLast
<1>16. KnownInv'
  <2>1. encoding = AskedForByLast /\ (\E named: encoding = {named}) /\ (raised = << >> => NoOtherByLast)
    BY <1>13 DEF KnownInv
  <2> HIDE DEF NoOtherByLast, SilentByLast, WrittenByLast
  <2> QED
    BY <1>9, <1>12, <1>13, <1>14, <1>15, <2>1 DEF KnownInv
<1> QED
  BY <1>10, <1>16

-----------------------------------------------------------------------------------
(* The rows *)

LEMMA RunsJoin ==
  ASSUME NEW f \in Files, NEW from \in Nat, NEW m \in Nat, NEW n \in Nat, Within(f, from, m + n)
  PROVE  ByteRun(f, from, m) \o ByteRun(f, from + m, n) = ByteRun(f, from, m + n)
<1>1. Within(f, from, m) /\ Within(f, from + m, n) /\ from + m \in Nat /\ m + n \in Nat
  BY FileBytes DEF Within
<1> DEFINE a == ByteRun(f, from, m)
           b == ByteRun(f, from + m, n)
           all == ByteRun(f, from, m + n)
<1>2. /\ a \in Seq(Byte) /\ Len(a) = m /\ (\A i \in 1..m: a[i] = f.bytes[from + i])
      /\ b \in Seq(Byte) /\ Len(b) = n /\ (\A i \in 1..n: b[i] = f.bytes[(from + m) + i])
      /\ all \in Seq(Byte) /\ Len(all) = m + n /\ (\A i \in 1..(m + n): all[i] = f.bytes[from + i])
  BY <1>1, RunFacts
<1> HIDE DEF a, b, all, Byte
<1>3. DOMAIN all = 1..(Len(a) + Len(b)) /\ all = [i \in DOMAIN all |-> all[i]]
  BY <1>2
<1>4. /\ \A i \in 1..m: i \in 1..(m + n)
      /\ \A i \in 1..n: m + i \in 1..(m + n) /\ (from + m) + i = from + (m + i)
  OBVIOUS
<1>5. \A i \in 1..Len(a): all[i] = a[i]
  <2>1. /\ Len(a) = m /\ \A i \in 1..m: a[i] = f.bytes[from + i]
        /\ \A i \in 1..(m + n): all[i] = f.bytes[from + i]
    BY <1>2
  <2> QED
    BY <1>4, <2>1
<1>6. \A i \in 1..Len(b): all[Len(a) + i] = b[i]
  <2>1. /\ Len(a) = m /\ Len(b) = n /\ \A i \in 1..n: b[i] = f.bytes[(from + m) + i]
        /\ \A i \in 1..(m + n): all[i] = f.bytes[from + i]
    BY <1>2
  <2> QED
    BY <1>4, <2>1
<1>7. all = a \o b
  <2>1. a \in Seq(Byte) /\ b \in Seq(Byte)
    BY <1>2
  <2> QED
    BY <1>3, <1>5, <1>6, <2>1, IsConcat
<1> QED
  BY <1>7 DEF a, b, all

LEMMA RunsBegin ==
  ASSUME NEW f \in Files, NEW from \in Nat, NEW n \in Nat, Within(f, from, n)
  PROVE  IsPrefix(ByteRun(f, from, n), SubSeq(f.bytes, from + 1, Len(f.bytes)))
<1> DEFINE rest == Len(f.bytes) - from
           a == ByteRun(f, from, n)
           all == ByteRun(f, from, rest)
<1>1. Len(f.bytes) \in Nat /\ rest \in Nat /\ n <= rest /\ Within(f, from, rest) /\ from + rest = Len(f.bytes)
  BY FileBytes DEF Within
<1>2. all = SubSeq(f.bytes, from + 1, Len(f.bytes))
  BY <1>1 DEF ByteRun
<1> HIDE DEF rest
<1>3. /\ a \in Seq(Byte) /\ Len(a) = n /\ (\A i \in 1..n: a[i] = f.bytes[from + i])
      /\ all \in Seq(Byte) /\ Len(all) = rest /\ (\A i \in 1..rest: all[i] = f.bytes[from + i])
  BY <1>1, RunFacts
<1> HIDE DEF a, all, Byte
<1> DEFINE front == SubSeq(all, 1, n)
<1>4. SubSeq(a, 1, Len(a)) = a
  BY <1>3, WholeSlice
<1>5. front \in Seq(Byte) /\ Len(front) = n
  BY <1>1, <1>3, TwoSlices
<1>6. \A i \in 1..n: front[i] = all[i] /\ i \in 1..rest
  BY <1>1, <1>3
<1> HIDE DEF front
<1>7. front = a
  BY <1>3, <1>5, <1>6, SeqEqual
<1>8. IsPrefix(a, all)
  BY <1>1, <1>3, <1>4, <1>7 DEF IsPrefix, front
<1> QED
  BY <1>2, <1>8 DEF a

LEMMA RowsStartIsANumber ==
  ASSUME file \in Files
  PROVE  RowsStart \in Nat
<1> DEFINE n == Len(file.dictionary)
<1>1. n \in Nat \ {0} /\ \A i \in 1..n: IsRecord(file, file.dictionary[i])
  BY FilesAssumption DEF IsFile, DictionaryLaidOut
<1> HIDE DEF n
<1>2. n \in 1..n
  BY <1>1
<1>3. file.dictionary[n].at \in Nat /\ file.dictionary[n].length \in Nat
  BY <1>1, <1>2 DEF IsRecord
<1> QED
  BY <1>3 DEF RowsStart, RecordStart, Last, n

(* The bytes that failed reads have swallowed: handed out, and not counted. *)
Swallowed == cursor - position - (IF call = "into" THEN filled ELSE 0)

(* What was handed out as units are the bytes from the first row on. *)
HandedOut(n) == RowsStart + n <= position /\ FlattenSeq(units) = ByteRun(file, RowsStart, n)
RowsInv ==
  phase = "open" =>
    /\ position \in Nat /\ cursor \in Nat /\ call \in {"none", "into"}
    /\ Swallowed >= 0
    /\ Swallowed = 0 => \E n \in Nat: HandedOut(n) /\ (~ended => RowsStart + n = position)

LEMMA OpenBegins ==
  ASSUME HeaderInv, PhasesInv, ResolveCaseCount
  PROVE  RowsInv'
<1>1. /\ phase = "resolving" /\ UNCHANGED <<file, cursor, position, call, units, ended>>
  BY DEF ResolveCaseCount, source, rows
<1>2. /\ position = RowsStart /\ cursor = position /\ call = "none" /\ units = << >> /\ ended = FALSE
      /\ file \in Files
  BY <1>1 DEF PhasesInv, HeaderInv
<1>3. RowsStart \in Nat /\ RowsStart' = RowsStart
  BY <1>1, <1>2, RowsStartIsANumber DEF RowsStart, RecordStart
<1>4. ByteRun(file, RowsStart, 0) = << >>
  <2>1. /\ file.bytes \in Seq(Nat)
    BY <1>2, FileBytes
  <2> DEFINE start == RowsStart
  <2>2. start \in Nat
    BY <1>3
  <2> HIDE DEF start
  <2>3. SubSeq(file.bytes, start + 1, start + 0) = << >>
    BY <2>1, <2>2
  <2> QED
    BY <2>3 DEF ByteRun, start
<1>5. HandedOut(0)'
  <2>1. ByteRun(file', RowsStart', 0) = << >>
    BY <1>1, <1>3, <1>4
  <2>2. FlattenSeq(units') = << >>
    BY <1>1, <1>2, FlattenEmpty
  <2>3. RowsStart' + 0 <= position'
    BY <1>1, <1>2, <1>3
  <2> QED
    BY <2>1, <2>2, <2>3 DEF HandedOut
<1>6. Swallowed' = 0 /\ position' \in Nat /\ cursor' \in Nat /\ call' = "none" /\ RowsStart' + 0 = position'
  BY <1>1, <1>2, <1>3 DEF Swallowed
<1> QED
  BY <1>5, <1>6 DEF RowsInv

LEMMA RowsStay ==
  ASSUME RowsInv, phase' = "open" => phase = "open" /\ UNCHANGED <<file, cursor, position, call, filled, units, ended>>
  PROVE  RowsInv'
BY DEF RowsInv, Swallowed, HandedOut, RowsStart, RecordStart, ByteRun

LEMMA NextUnitKeepsRows ==
  ASSUME RowsInv, NextUnit
  PROVE  RowsInv'
<1>1. /\ phase = "open" /\ call = "none" /\ call' = "into" /\ filled' = 0
      /\ UNCHANGED <<phase, file, cursor, position, units, ended>>
  BY DEF NextUnit, Ask, parsing
<1>2. position \in Nat /\ cursor \in Nat /\ Swallowed >= 0
  BY <1>1 DEF RowsInv
<1>3. Swallowed' = Swallowed
  BY <1>1, <1>2 DEF Swallowed
<1>4. \A n: HandedOut(n)' <=> HandedOut(n)
  BY <1>1 DEF HandedOut, RowsStart, RecordStart, ByteRun
<1>5. RowsStart' = RowsStart
  BY <1>1 DEF RowsStart, RecordStart
<1> HIDE DEF HandedOut, Swallowed
<1> QED
  BY <1>1, <1>2, <1>3, <1>4, <1>5 DEF RowsInv

(* A read of a unit neither loses nor gains a byte, except when it fails. *)
LEMMA ReadSwallows ==
  ASSUME RowsInv, UnitsInv, phase = "open", Read
  PROVE  /\ call = "into" /\ call' \in {"none", "into"} /\ position' \in Nat /\ cursor' \in Nat
         /\ position <= position'
         /\ Swallowed <= Swallowed'
         /\ result' # "whole" \/ call' # "none" => UNCHANGED units
         /\ \/ UNCHANGED <<position, units, ended>>
            \/ ended' = TRUE /\ UNCHANGED units
            \/ /\ Whole /\ position' = position + DataUnitLen /\ cursor' = cursor /\ filled = DataUnitLen
               /\ units' = Append(units, SubSeq(file.bytes, cursor - DataUnitLen + 1, cursor))
               /\ Swallowed' = Swallowed
<1>1. /\ position \in Nat /\ cursor \in Nat /\ call \in {"none", "into"}
      /\ cursor \in 0..Len(file.bytes) /\ Len(file.bytes) \in Nat /\ DataUnitLen \in Nat \ {0}
  BY FileBytes, UnitsAssumption DEF RowsInv, UnitsInv
<1>2. Told /\ SourceStep(file.bytes)
  BY DEF Read
<1>3. call = "into"
  BY <1>1, <1>2 DEF SourceStep, Deliver, EndOfFile, ReadFails, Whole, NextChunk, Asking
<1>4. wanted = DataUnitLen /\ remaining = 0 /\ filled \in 0..DataUnitLen
  BY <1>3 DEF UnitsInv, UnitInHand
<1>5. CASE Deliver(file.bytes)
  <2>1. call' = call /\ position' = position
    BY <1>5 DEF Deliver
  <2>2. UNCHANGED <<units, ended>>
    BY <1>2, <1>3, <2>1 DEF Told, rows
  <2>3. PICK n \in 1..(Len(file.bytes) - cursor): cursor' = cursor + n /\ filled' = filled + n
    BY <1>5 DEF Deliver
  <2> QED
    BY <1>1, <1>3, <1>4, <2>1, <2>2, <2>3 DEF Swallowed
<1>6. CASE EndOfFile(file.bytes)
  <2>1. /\ call' = "none" /\ position' = position + filled /\ cursor' = cursor
        /\ result' \in {"end", "torn"}
    BY <1>3, <1>6 DEF EndOfFile, Answer
  <2>2. ended' = TRUE /\ UNCHANGED units
    BY <1>2, <1>3, <2>1 DEF Told
  <2> QED
    BY <1>1, <1>3, <1>4, <2>1, <2>2 DEF Swallowed
<1>7. CASE ReadFails
  <2>1. call' = "none" /\ position' = position /\ cursor' = cursor /\ result' = "failed"
    BY <1>1, <1>7 DEF ReadFails, Answer
  <2>2. UNCHANGED <<units, ended>>
    BY <1>2, <1>3, <2>1 DEF Told, UnitsInv
  <2> QED
    BY <1>1, <1>3, <1>4, <2>1, <2>2 DEF Swallowed
<1>8. CASE Whole
  <2>1. call' = "none" /\ position' = position + wanted /\ cursor' = cursor /\ result' = "whole" /\ filled = wanted
    BY <1>1, <1>4, <1>8 DEF Whole, Answer
  <2>2. units' = Append(units, SubSeq(file.bytes, cursor - DataUnitLen + 1, cursor))
    BY <1>2, <1>3, <2>1 DEF Told
  <2> QED
    BY <1>1, <1>3, <1>4, <1>8, <2>1, <2>2 DEF Swallowed
<1>9. ~NextChunk
  BY <1>3 DEF NextChunk
<1> QED
  BY <1>2, <1>5, <1>6, <1>7, <1>8, <1>9 DEF SourceStep

LEMMA UnitsAreSequences ==
  ASSUME NEW uu \in Seq(Slabs8)
  PROVE  uu \in Seq(Seq(Nat)) /\ Slabs8 \subseteq Seq(Nat)
<1> DEFINE T == Seq(Nat)
<1>1. Slabs8 \subseteq T
  <2> SUFFICES ASSUME NEW s \in [1..DataUnitLen -> Nat] PROVE s \in Seq(Nat)
    BY DEF Slabs8
  <2> QED
    BY UnitsAssumption
<1> HIDE DEF T, Slabs8
<1>2. Len(uu) \in Nat /\ (\A i \in 1..Len(uu): uu[i] \in T) /\ uu = [i \in 1..Len(uu) |-> uu[i]]
  BY <1>1
<1>3. uu \in Seq(T)
  BY <1>2
<1> QED
  BY <1>1, <1>3 DEF T

(* A unit read after the ones handed out prolongs them. *)
LEMMA UnitFollows ==
  ASSUME NEW f \in Files, NEW uu \in Seq(Slabs8), NEW start \in Nat, NEW n \in Nat,
         NEW last \in 0..Len(f.bytes), last = (start + n) + DataUnitLen,
         FlattenSeq(uu) = ByteRun(f, start, n)
  PROVE  FlattenSeq(Append(uu, SubSeq(f.bytes, last - DataUnitLen + 1, last))) = ByteRun(f, start, n + DataUnitLen)
<1> DEFINE unit == SubSeq(f.bytes, last - DataUnitLen + 1, last)
<1>1. DataUnitLen \in Nat /\ Len(f.bytes) \in Nat /\ f.bytes \in Seq(Nat)
  BY FileBytes, UnitsAssumption
<1>2. last - DataUnitLen = start + n /\ last \in DataUnitLen..Len(f.bytes)
  BY <1>1
<1>3. unit = ByteRun(f, start + n, DataUnitLen)
  BY <1>2 DEF ByteRun
<1>4. Within(f, start, n + DataUnitLen)
  BY <1>1 DEF Within
<1>5. unit \in Slabs8
  BY <1>1, <1>2, SlabIsAUnit
<1> HIDE DEF unit
<1>6. FlattenSeq(Append(uu, unit)) = FlattenSeq(uu) \o unit
  <2>1. uu \in Seq(Seq(Nat)) /\ unit \in Seq(Nat)
    BY <1>5, UnitsAreSequences
  <2> QED
    BY <2>1, FlattenAppend
<1>7. ByteRun(f, start, n) \o ByteRun(f, start + n, DataUnitLen) = ByteRun(f, start, n + DataUnitLen)
  BY <1>1, <1>4, RunsJoin
<1> QED
  BY <1>3, <1>6, <1>7 DEF unit

LEMMA ReadKeepsRows ==
  ASSUME RowsInv, UnitsInv, phase = "open", Read
  PROVE  RowsInv'
<1>1. /\ UNCHANGED <<file, phase>> /\ RowsStart' = RowsStart
      /\ \A n: ByteRun(file, RowsStart, n)' = ByteRun(file, RowsStart, n)
  BY DEF Read, parsing, RowsStart, RecordStart, ByteRun
<1>2. /\ position \in Nat /\ cursor \in Nat /\ Swallowed >= 0
      /\ Swallowed = 0 => \E n \in Nat: HandedOut(n) /\ (~ended => RowsStart + n = position)
      /\ RowsStart \in Nat /\ DataUnitLen \in Nat
  BY RowsStartIsANumber, UnitsAssumption DEF RowsInv, UnitsInv
<1>3. /\ call = "into" /\ call' \in {"none", "into"} /\ position' \in Nat /\ cursor' \in Nat
      /\ position <= position' /\ Swallowed <= Swallowed'
  BY ReadSwallows
<1>4. Swallowed \in Int /\ Swallowed' \in Int
  <2>1. filled \in Int
    BY <1>3, UnitsAssumption DEF UnitsInv, UnitInHand
  <2>2. call' = "into" => filled' \in Int
    BY <1>3, ReadKeepsUnits, UnitsAssumption DEF UnitsInv, UnitInHand
  <2> QED
    BY <1>2, <1>3, <2>1, <2>2 DEF Swallowed
<1>5. Swallowed' >= 0 /\ (Swallowed' = 0 => Swallowed = 0)
  <2> HIDE DEF Swallowed
  <2> QED
    BY <1>2, <1>3, <1>4
<1>6. ASSUME Swallowed' = 0
      PROVE  \E n \in Nat: HandedOut(n)' /\ (~ended' => RowsStart' + n = position')
  <2>1. PICK n \in Nat: HandedOut(n) /\ (~ended => RowsStart + n = position)
    BY <1>2, <1>5, <1>6
  <2>2. RowsStart + n <= position /\ FlattenSeq(units) = ByteRun(file, RowsStart, n)
    BY <2>1 DEF HandedOut
  <2>3. UNCHANGED units => HandedOut(n)'
    <3>1. RowsStart' + n <= position'
      BY <1>1, <1>2, <1>3, <2>2
    <3> QED
      BY <1>1, <2>2, <3>1 DEF HandedOut, ByteRun
  <2>4. CASE UNCHANGED <<position, units, ended>>
    BY <1>1, <2>1, <2>3, <2>4
  <2>5. CASE ended' = TRUE /\ UNCHANGED units
    BY <2>3, <2>5
  <2>6. CASE /\ Whole /\ position' = position + DataUnitLen /\ cursor' = cursor /\ filled = DataUnitLen
             /\ units' = Append(units, SubSeq(file.bytes, cursor - DataUnitLen + 1, cursor))
             /\ Swallowed' = Swallowed
    <3>1. ~ended
      BY <1>3, <2>6, UnitsAssumption DEF UnitsInv, EndIsTheEnd
    <3>2. RowsStart + n = position
      BY <2>1, <3>1
    <3>3. cursor = position + DataUnitLen
      BY <1>2, <1>3, <1>5, <1>6, <2>6 DEF Swallowed
    <3>4. FlattenSeq(units') = ByteRun(file, RowsStart, n + DataUnitLen)
      <4>1. cursor = (RowsStart + n) + DataUnitLen /\ cursor \in 0..Len(file.bytes)
        BY <3>2, <3>3 DEF UnitsInv
      <4>2. file \in Files /\ units \in Seq(Slabs8)
        BY DEF UnitsInv
      <4> HIDE DEF Slabs8
      <4> QED
        BY <1>2, <2>1, <2>2, <2>6, <4>1, <4>2, UnitFollows
    <3>5. n + DataUnitLen \in Nat /\ RowsStart' + (n + DataUnitLen) = position'
      BY <1>1, <1>2, <2>6, <3>2
    <3>6. RowsStart' + (n + DataUnitLen) <= position'
      BY <1>3, <3>5
    <3> DEFINE m == n + DataUnitLen
    <3>7. HandedOut(m)'
      <4> HIDE DEF m
      <4>1. FlattenSeq(units') = ByteRun(file, RowsStart, m) /\ RowsStart' + m <= position'
        BY <3>4, <3>6 DEF m
      <4>2. ByteRun(file', RowsStart', m) = ByteRun(file, RowsStart, m)
        BY <1>1
      <4> QED
        BY <4>1, <4>2 DEF HandedOut
    <3> QED
      BY <3>5, <3>7
  <2> QED
    BY <2>4, <2>5, <2>6, ReadSwallows
<1> QED
  <2> HIDE DEF Swallowed, HandedOut
  <2> QED
    BY <1>3, <1>5, <1>6 DEF RowsInv

-----------------------------------------------------------------------------------
(* Every step *)

LEMMA ReadKeepsPhases ==
  ASSUME HeaderInv, PhasesInv, UnitsInv, Read
  PROVE  HeaderInv' /\ PhasesInv'
<1>1. /\ SourceStep(file.bytes) /\ call # "none" /\ UNCHANGED <<walk, parsing>>
      /\ UNCHANGED <<file, phase, field, header, encoding, scanning, scanned, pending, physical, primaries, envelopes,
                     label, codepage, stage>>
  BY DEF Read, parsing, walk, scan, SourceStep, Deliver, EndOfFile, ReadFails, Whole, NextChunk, Asking
<1>2. phase # "open" => UNCHANGED <<units, ended>>
  BY DEF Read, Told, rows
<1>3. cursor' <= Len(file'.bytes)
  BY ReadKeepsUnits DEF UnitsInv
<1>4. HeaderInv'
  BY <1>1, <1>3, ReadKeepsHeader
<1>5. NotYetWalked => NotYetWalked'
  BY <1>1 DEF NotYetWalked, Scan!Undeclared
<1>6. phase = "dictionary" => WalkInv' /\ SaidSoFar'
  BY <1>1, <1>3, ReadKeepsWalk, SaidStays DEF PhasesInv
<1>7. phase \notin {"resolving", "failed"}
  BY <1>1 DEF PhasesInv, FailedWhere
<1>8. PhasesInv'
  BY <1>1, <1>2, <1>5, <1>6, <1>7 DEF PhasesInv
<1> QED
  BY <1>4, <1>8

LEMMA NextUnitKeepsPhases ==
  ASSUME HeaderInv, PhasesInv, NextUnit
  PROVE  HeaderInv' /\ PhasesInv'
<1>1. phase = "open" /\ UNCHANGED <<parsing, cursor>>
  BY DEF NextUnit, Ask
<1>2. UNCHANGED <<file, phase, field, raw, header, encoding, raised>>
  BY <1>1 DEF parsing
<1>3. HeaderInv'
  BY <1>1, <1>2, HeaderOver DEF HeaderInv
<1>4. PhasesInv'
  BY <1>1, <1>2 DEF PhasesInv
<1> QED
  BY <1>3, <1>4

LEMMA StutterKeepsPhases ==
  ASSUME HeaderInv, PhasesInv, UNCHANGED vars
  PROVE  HeaderInv' /\ PhasesInv'
<1>1. UNCHANGED <<file, phase, field, raw, header, encoding, raised, units, ended>> /\ UNCHANGED walk
      /\ UNCHANGED <<cursor, position, call, wanted, filled, remaining, result>>
  BY DEF vars, parsing, rows, source
<1>2. UNCHANGED <<scanning, scanned, pending, physical, primaries, envelopes, label, codepage, stage, item, left>>
  BY <1>1 DEF walk, scan
<1>3. RawSoFar'
  BY <1>1, RawStays DEF HeaderInv
<1>4. HeaderReads'
  BY <1>1, <1>2 DEF HeaderInv, HeaderReads, ReadSane, ReadEnd, AtOnce
<1>5. HeaderInv'
  BY <1>1, <1>3, <1>4 DEF HeaderInv
<1>6. NotYetWalked => NotYetWalked'
  BY <1>2 DEF NotYetWalked, Scan!Undeclared
<1>7. AllSaid => AllSaid'
  BY <1>1, <1>2, AllSaidStays
<1>8. SaidSoFar => SaidSoFar'
  BY <1>1, <1>2, SaidStays
<1>9. WalkInv => WalkInv'
  <2> SUFFICES ASSUME WalkInv PROVE WalkInv'
    OBVIOUS
  <2>1. Here' = Here
    BY <1>1, <1>2 DEF Here
  <2>2. ReadSane' /\ ReadEnd' = ReadEnd
    BY <1>1 DEF WalkInv, ReadSane, ReadEnd
  <2>3. Steady
    BY <1>1, <1>2, <2>1, <2>2 DEF Steady
  <2>4. Spot'
    <3>1. TagSpot => TagSpot'
      BY <2>3 DEF Steady, TagSpot, ExactRead, ReadTo, AtOnce
    <3>2. FillerSpot => FillerSpot'
      BY <2>3 DEF Steady, FillerSpot, ReadTo
    <3> QED
      BY <2>3, <3>1, <3>2, SteadyVariable, SteadyLabels, SteadyDocument, SteadyExtension DEF WalkInv, Spot
  <2>5. SoundSoFar'
    BY <1>1, <1>2, <2>1 DEF WalkInv, SoundSoFar, PrimariesPlaced
  <2> QED
    BY <1>1, <1>2, <2>2, <2>4, <2>5 DEF WalkInv
<1>10. FailedWhere => FailedWhere'
  BY <1>1, <1>2 DEF FailedWhere, Scan!Errors
<1>11. RowsStart' = RowsStart
  BY <1>1 DEF RowsStart, RecordStart
<1>12. PhasesInv'
  BY <1>1, <1>2, <1>6, <1>7, <1>8, <1>9, <1>10, <1>11 DEF PhasesInv
<1> QED
  BY <1>5, <1>12

(* Before the header is finished nothing is known, and no row is read. *)
LEMMA NotOpenYet ==
  ASSUME PhasesInv, FieldStep \/ StartHeader \/ Padding \/ ReadFailed \/ WalkDictionary
  PROVE  KnownInv' /\ RowsInv'
<1>1. phase \in {"header", "dictionary"}
  BY DEF FieldStep, RecordType, ProductName, LayoutCode, NominalCaseSize, CompressionCode, WeightIndex, CaseCount,
         BiasField, CreationDate, CreationTime, FileLabel, Arrived, StartHeader, Padding, ReadFailed, WalkDictionary
<1>2. header = NoHeader /\ encoding = {}
  BY <1>1 DEF PhasesInv
<1>3. UNCHANGED <<header, encoding>> /\ phase' # "open"
  <2>1. CASE FieldStep
    BY <1>1, <2>1
       DEF FieldStep, RecordType, ProductName, LayoutCode, NominalCaseSize, CompressionCode, WeightIndex, CaseCount,
           BiasField, CreationDate, CreationTime, FileLabel, Take, Fail
  <2>2. CASE StartHeader
    BY <1>1, <2>2 DEF StartHeader, parsing
  <2>3. CASE Padding \/ ReadFailed \/ WalkDictionary
    BY <1>1, <2>3 DEF Padding, ReadFailed, Fail, WalkDictionary
  <2> QED
    BY <2>1, <2>2, <2>3
<1>4. KnownInv'
  BY <1>2, <1>3, NothingKnown
<1> QED
  BY <1>3, <1>4 DEF RowsInv

OpeningInv == HeaderInv /\ PhasesInv /\ KnownInv /\ RowsInv

LEMMA InitOpens == Init => OpeningInv
<1> SUFFICES ASSUME Init PROVE OpeningInv
  OBVIOUS
<1>1. /\ file \in Files /\ cursor = 0 /\ position = 0 /\ call = "none" /\ result = "none"
      /\ phase = "header" /\ field = 1 /\ raw = NothingRead /\ header = NoHeader
      /\ encoding = {} /\ raised = << >> /\ units = << >> /\ ended = FALSE /\ stage = "none"
  BY DEF Init, SourceInit, WalkInit
<1>2. NotYetWalked
  BY DEF Init, WalkInit, Scan!ScanInit, NotYetWalked, Scan!Undeclared
<1>3. RawSoFar
  BY <1>1
     DEF NothingRead, FieldNames, RawSoFar, MagicRead, ProductNameRead, OrderRead, CompressionRead, WeightRead,
         CountRead, FloatFormatRead, FileLabelRead
<1>4. cursor <= Len(file.bytes)
  BY <1>1, FileBytes
<1>5. raised \in Seq(WarningNames)
  BY <1>1
<1>6. HeaderInv
  BY <1>1, <1>3, <1>4, <1>5 DEF HeaderInv, HeaderReads
<1>7. PhasesInv
  BY <1>1, <1>2 DEF PhasesInv
<1>8. KnownInv
  BY <1>1 DEF KnownInv, WrittenByLast, SilentByLast, NoHeader
<1> QED
  BY <1>1, <1>6, <1>7, <1>8 DEF OpeningInv, RowsInv

LEMMA StepKeepsOpening == OpeningInv /\ UnitsInv /\ [Next]_vars => OpeningInv'
<1> SUFFICES ASSUME OpeningInv, UnitsInv, [Next]_vars PROVE OpeningInv'
  OBVIOUS
<1>1. HeaderInv /\ PhasesInv /\ KnownInv /\ RowsInv
  BY DEF OpeningInv
<1>2. CASE FieldStep
  BY <1>1, <1>2, FieldKeepsPhases, NotOpenYet DEF OpeningInv
<1>3. CASE StartHeader \/ Padding \/ ReadFailed \/ WalkDictionary
  BY <1>1, <1>3, StartKeepsPhases, PaddingKeepsPhases, ReadFailedKeepsPhases, WalkKeepsPhases, NotOpenYet DEF OpeningInv
<1>4. CASE ResolveEncoding
  <2>1. phase' # "open"
    BY <1>4 DEF ResolveEncoding
  <2> QED
    BY <1>1, <1>4, <2>1, ResolveKnows, RowsStay DEF OpeningInv
<1>5. CASE FinishHeader
  <2>1. phase' # "open"
    BY <1>5 DEF FinishHeader
  <2> QED
    BY <1>1, <1>5, <2>1, FinishKnows, RowsStay DEF OpeningInv
<1>6. CASE CountUnreadable
  <2>1. phase' # "open"
    BY <1>6 DEF CountUnreadable, Fail
  <2> QED
    BY <1>1, <1>6, <2>1, UnreadableKnows, RowsStay DEF OpeningInv
<1>7. CASE ResolveCaseCount
  BY <1>1, <1>7, CountSettles, OpenBegins DEF OpeningInv
<1>8. CASE Read
  <2>1. UNCHANGED <<file, phase, raw, header, encoding, raised, caseCount>>
    BY <1>8 DEF Read, parsing
  <2>2. KnownInv'
    BY <1>1, <2>1, KnownStays
  <2>3. RowsInv'
    <3>1. CASE phase = "open"
      BY <1>1, <1>8, <3>1, ReadKeepsRows
    <3>2. CASE phase # "open"
      BY <2>1, <3>2 DEF RowsInv
    <3> QED
      BY <3>1, <3>2
  <2> QED
    BY <1>1, <1>8, <2>2, <2>3, ReadKeepsPhases DEF OpeningInv
<1>9. CASE NextUnit
  <2>1. UNCHANGED <<file, phase, raw, header, encoding, raised, caseCount>>
    BY <1>9 DEF NextUnit, parsing
  <2>2. KnownInv'
    BY <1>1, <2>1, KnownStays
  <2> QED
    BY <1>1, <1>9, <2>2, NextUnitKeepsPhases, NextUnitKeepsRows DEF OpeningInv
<1>10. CASE UNCHANGED vars
  <2>1. UNCHANGED <<file, phase, raw, header, encoding, raised, caseCount, cursor, position, call, filled, units, ended>>
    BY <1>10 DEF vars, parsing, rows, source
  <2>2. KnownInv'
    BY <1>1, <2>1, KnownStays
  <2>3. RowsInv'
    BY <1>1, <2>1, RowsStay
  <2> QED
    BY <1>1, <1>10, <2>2, <2>3, StutterKeepsPhases DEF OpeningInv
<1> QED
  BY <1>2, <1>3, <1>4, <1>5, <1>6, <1>7, <1>8, <1>9, <1>10 DEF Next, FieldStep

LEMMA OpeningHolds == Spec => []OpeningInv
<1>1. Init => OpeningInv
  BY InitOpens
<1>2. OpeningInv /\ UnitsInv /\ [Next]_vars => OpeningInv'
  BY StepKeepsOpening
<1> QED
  BY <1>1, <1>2, HeaderUnitsAreWhole, PTL DEF Spec

-----------------------------------------------------------------------------------
(* What the invariant says of the properties *)

LEMMA OpeningIsInPlace == OpeningInv /\ UnitsInv => PositionIsTheFields
<1> SUFFICES ASSUME OpeningInv, UnitsInv PROVE PositionIsTheFields
  OBVIOUS
<1>1. HeaderInv /\ PhasesInv /\ RowsInv
  BY DEF OpeningInv
<1>2. phase = "header" /\ call # "none" => position = Offset(field) /\ cursor = position + filled
  BY <1>1, FieldWhole
<1>3. phase = "failed" => FailedWhere
  BY <1>1 DEF PhasesInv
<1>4. ASSUME phase = "dictionary", stage = "tag"
      PROVE  /\ Len(scanned) < Len(file.dictionary)
             /\ position = RecordStart(Len(scanned) + 1) + (IF result = "whole" THEN WordLen ELSE 0)
  <2>1. WalkInv
    BY <1>1, <1>4 DEF PhasesInv
  <2>2. Len(scanned) \in Nat /\ Len(scanned) + 1 \in 1..Len(file.dictionary) /\ IsRecord(file, Here) /\ WordLen \in Nat
    BY <2>1, HereFacts, BytesAssumption DEF WalkInv, IsASequence
  <2>3. TagSpot
    BY <1>4, <2>1
       DEF WalkInv, Spot, FillerSpot, VariableSpot, BodySpot, LabelLengthSpot, LabelSpot, MissingSpot,
           LabelsSpot, LabelCountSpot, ValueSpot, ValueLengthSpot, ValueLabelSpot, PairSpot, IndexCountSpot, IndexSpot,
           DocumentSpot, LineCountSpot, LineSpot, LinesSpot,
           ExtensionSpot, SubtypeSpot, ElementSizeSpot, ElementCountSpot, PayloadSpot
  <2>4. ReadEnd = Here.at + WordLen /\ wanted = WordLen /\ remaining = 0 /\ ReadSane
    BY <2>1, <2>3 DEF WalkInv, TagSpot, ExactRead, ReadTo, AtOnce
  <2>5. Here.at \in Nat /\ position \in Nat /\ RecordStart(Len(scanned) + 1) = Here.at
    BY <2>2, <2>4 DEF IsRecord, ReadSane, RecordStart, Here
  <2>6. position = Here.at + (IF result = "whole" THEN WordLen ELSE 0)
    BY <2>2, <2>4, <2>5 DEF ReadEnd
  <2>7. Len(scanned) < Len(file.dictionary)
    <3>1. Len(file.dictionary) \in Nat
      BY FilesAssumption DEF WalkInv, IsFile, DictionaryLaidOut
    <3> QED
      BY <2>2, <3>1
  <2> QED
    BY <2>5, <2>6, <2>7
<1>5. phase = "resolving" => position = RowsStart
  BY <1>1 DEF PhasesInv
<1>6. ASSUME phase = "open", position = cursor
      PROVE  IsPrefix(FlattenSeq(units), SubSeq(file.bytes, RowsStart + 1, Len(file.bytes)))
  <2>1. /\ position \in Nat /\ call \in {"none", "into"} /\ Swallowed >= 0
        /\ Swallowed = 0 => \E n \in Nat: HandedOut(n)
    BY <1>1, <1>6 DEF RowsInv
  <2>2. Swallowed = 0
    <3>1. call = "into" => filled \in Nat
      BY UnitsAssumption DEF UnitsInv, UnitInHand
    <3> QED
      BY <1>6, <2>1, <3>1 DEF Swallowed
  <2>3. PICK n \in Nat: RowsStart + n <= position /\ FlattenSeq(units) = ByteRun(file, RowsStart, n)
    BY <2>1, <2>2 DEF HandedOut
  <2>4. file \in Files /\ RowsStart \in Nat /\ Within(file, RowsStart, n)
    <3>1. file \in Files /\ cursor <= Len(file.bytes) /\ Len(file.bytes) \in Nat
      BY <1>1, FileBytes DEF HeaderInv
    <3> QED
      BY <1>6, <2>1, <2>3, <3>1, RowsStartIsANumber DEF Within
  <2> QED
    BY <2>3, <2>4, RunsBegin
<1>7. /\ phase = "failed" /\ stage = "none" => position \in {Offset(field), Offset(field + 1)}
      /\ phase = "failed" /\ file.sound /\ scanning \in Scan!Errors => scanning = "Io" /\ cursor < Len(file.bytes)
  BY <1>3 DEF FailedWhere
<1> QED
  BY <1>2, <1>4, <1>5, <1>6, <1>7, Zenon DEF PositionIsTheFields

(* However the bytes come in and whatever the caller asked to keep, a field is read at its offset, *)
(* a record where the one before it ends, and the units follow the last of them; an error of the     *)
(* header names the place the part read began at, and a sound dictionary is refused only for a read   *)
(* that failed (the debug assertions of read_raw_header; reader_state; Scan::run).                    *)
THEOREM HeaderPositionIsTheFields == Spec => []PositionIsTheFields
<1>1. OpeningInv /\ UnitsInv => PositionIsTheFields
  BY OpeningIsInPlace
<1> QED
  BY <1>1, OpeningHolds, HeaderUnitsAreWhole, PTL

(* A caller who asked for the records is given a reader with every warning in it. *)
GivenInv ==
  /\ phase \in {"header", "dictionary"} => held = raised /\ seen = << >>
  /\ phase = "resolving" /\ header = NoHeader => held = raised /\ seen = << >>
  /\ phase \in {"resolving", "open"} /\ header # NoHeader /\ retention = "All" => seen = raised
  /\ phase = "open" => header # NoHeader
  /\ phase \in {"header", "dictionary"} => header = NoHeader

LEMMA StepKeepsGiven == OpeningInv /\ GivenInv /\ [Next]_vars => GivenInv'
<1> SUFFICES ASSUME OpeningInv, GivenInv, [Next]_vars PROVE GivenInv'
  OBVIOUS
<1>1. CASE FieldStep
  BY <1>1
     DEF GivenInv, FieldStep, Arrived, RecordType, ProductName, LayoutCode, NominalCaseSize, CompressionCode, WeightIndex,
         CaseCount, BiasField, CreationDate, CreationTime, FileLabel, Take, Fail
<1>2. CASE StartHeader \/ Padding \/ ReadFailed \/ WalkDictionary \/ CountUnreadable
  BY <1>2 DEF GivenInv, StartHeader, Arrived, Padding, ReadFailed, WalkDictionary, CountUnreadable, Fail, parsing
<1>3. CASE ResolveEncoding
  <2>1. header = NoHeader
    BY <1>3 DEF ResolveEncoding, OpeningInv, KnownInv
  <2> QED
    BY <1>3, <2>1 DEF GivenInv, ResolveEncoding
<1>4. CASE FinishHeader
  <2>1. /\ phase = "resolving" /\ header = NoHeader /\ held = raised
        /\ UNCHANGED <<phase, retention, raised, held>>
        /\ seen' = IF retention = "All" THEN held ELSE seen
    BY <1>4 DEF GivenInv, FinishHeader, walk, scan
  <2>2. header' # NoHeader
    BY <1>4 DEF FinishHeader, NoHeader
  <2> QED
    BY <2>1, <2>2 DEF GivenInv
<1>5. CASE ResolveCaseCount
  <2>1. /\ phase = "resolving" /\ phase' = "open" /\ UNCHANGED <<header, retention>>
        /\ header # NoHeader /\ raised' = raised \o held' /\ seen' = seen \o held'
    BY <1>5 DEF ResolveCaseCount, NoHeader, walk, scan
  <2> QED
    BY <2>1 DEF GivenInv
<1>6. CASE Read \/ NextUnit \/ UNCHANGED vars
  <2>1. UNCHANGED <<phase, header, raised, held, seen, retention>>
    BY <1>6 DEF Read, NextUnit, vars, parsing, walk, scan
  <2> QED
    BY <2>1 DEF GivenInv
<1> QED
  BY <1>1, <1>2, <1>3, <1>4, <1>5, <1>6 DEF Next, FieldStep

LEMMA GivenHolds == Spec => []GivenInv
<1>1. Init => GivenInv
  BY DEF Init, GivenInv
<1>2. OpeningInv /\ GivenInv /\ [Next]_vars => GivenInv'
  BY StepKeepsGiven
<1> QED
  BY <1>1, <1>2, OpeningHolds, PTL DEF Spec

(* Where no declaration is taken back, the last that says something is the last. *)
LEMMA LastSaidIsSaidByLast ==
  ASSUME file \in Files, NEW subtype, ~TakenBack(subtype)
  PROVE  SaidByLast(Saying(subtype)) = SaidByLast(Declaring(subtype))
<1> DEFINE declaring == Declaring(subtype)
           saying    == Saying(subtype)
<1>1. Len(file.dictionary) \in Nat /\ declaring \in SUBSET (1..Len(file.dictionary))
  <2>1. DOMAIN file.dictionary = 1..Len(file.dictionary) /\ Len(file.dictionary) \in Nat
    BY FilesAssumption DEF IsFile, DictionaryLaidOut
  <2> QED
    BY <2>1 DEF Declaring
<1>2. saying \in SUBSET declaring /\ \A i \in declaring: i \in saying <=> file.dictionary[i].says # {}
  BY DEF Saying
<1>3. CASE saying = {}
  <2>1. CASE declaring = {}
    BY <1>3, <2>1
  <2>2. CASE declaring # {}
    <3>1. Max(declaring) \in declaring
      BY <1>1, <2>2, GreatestNumber
    <3>2. file.dictionary[Max(declaring)].says = {}
      BY <1>2, <1>3, <3>1
    <3> QED
      BY <1>3, <2>2, <3>2 DEF SaidByLast
  <2> QED
    BY <2>1, <2>2
<1>4. CASE saying # {}
  <2>1. Max(saying) = Max(declaring) /\ declaring # {}
    BY <1>2, <1>4 DEF TakenBack
  <2> QED
    BY <1>4, <2>1 DEF SaidByLast
<1> QED
  BY <1>3, <1>4

LEMMA UncontestedIsByLast ==
  ASSUME file \in Files, ~Contested
  PROVE  /\ EncodingAskedFor = AskedForByLast
         /\ Strategy.override = "absent" => LabelSaid = LabelByLast /\ CodeSaid = CodeByLast
<1>1. CASE Strategy.override # "absent"
  BY <1>1, Zenon DEF EncodingAskedFor, AskedForByLast
<1>2. CASE Strategy.override = "absent"
  <2>1. LabelSaid = LabelByLast /\ CodeSaid = CodeByLast
    BY <1>2, LastSaidIsSaidByLast DEF Contested, LabelSaid, LabelByLast, CodeSaid, CodeByLast
  <2> HIDE DEF LabelSaid, LabelByLast, CodeSaid, CodeByLast
  <2> QED
    BY <2>1 DEF EncodingAskedFor, AskedForByLast
<1> QED
  BY <1>1, <1>2

(* A finished header holds what was written, in either byte order, its text decoded by the encoding *)
(* the caller or the dictionary asks for, where no declaration is taken back (header_parse,           *)
(* into_dictionary_reader_retaining).                                                                  *)
THEOREM HeaderIsTheWritten == Spec => []HeaderIsAsWritten
<1>1. OpeningInv => HeaderIsAsWritten
  <2> SUFFICES ASSUME OpeningInv, NEW h \in header
               PROVE  LET w == file.written
                          shown(text) == IF "UTF-8" \in EncodingAskedFor THEN Decoded(text) ELSE text
                      IN  /\ h.byteOrder = w.order
                          /\ Contested \/ (h.productName = shown(w.productName) /\ h.fileLabel = shown(w.fileLabel))
                          /\ h.compression = (IF w.code = 1 THEN "Bytecode" ELSE IF w.code = 2 THEN "Zlib" ELSE "None")
                          /\ h.floatFormat = w.bias.format
                          /\ h.caseCount = (IF w.cases < 0 THEN NoCount ELSE w.cases)
                          /\ raw.weightOffset = {n - 1: n \in {w.weight} \cap (Nat \ {0})}
    BY DEF HeaderIsAsWritten
  <2>1. file \in Files /\ WrittenByLast
    BY DEF OpeningInv, HeaderInv, KnownInv
  <2>2. Contested \/ EncodingAskedFor = AskedForByLast
    BY <2>1, UncontestedIsByLast
  <2> HIDE DEF Contested, EncodingAskedFor, AskedForByLast
  <2> QED
    BY <2>1, <2>2 DEF WrittenByLast
<1> QED
  BY <1>1, OpeningHolds, PTL

(* By way of the dictionary a caller is given every warning raised, and with none of them neither   *)
(* the compression, nor the float format, nor the encoding (where no declaration is taken back), nor  *)
(* the number of rows was guessed (resolve_compression, parse_bias, resolve, resolve_case_count).      *)
THEOREM HeaderSilenceMeansNoGuess == Spec => []SilenceMeansNoGuess
<1>1. OpeningInv /\ GivenInv => SilenceMeansNoGuess
  <2> SUFFICES ASSUME OpeningInv, GivenInv, phase = "open", retention = "All"
               PROVE  SilenceMeansNoGuess
    BY DEF SilenceMeansNoGuess
  <2>1. file \in Files /\ SilentByLast
    BY DEF OpeningInv, HeaderInv, KnownInv
  <2>2. seen = raised
    BY DEF GivenInv
  <2>3. Strategy.override = "absent" /\ ~Contested => LabelSaid = LabelByLast /\ CodeSaid = CodeByLast
    BY <2>1, UncontestedIsByLast
  <2> HIDE DEF Contested, LabelSaid, LabelByLast, CodeSaid, CodeByLast, CountSaid
  <2> QED
    BY <2>1, <2>2, <2>3 DEF SilenceMeansNoGuess, SilentByLast
<1> QED
  BY <1>1, OpeningHolds, GivenHolds, PTL

===================================================================================
