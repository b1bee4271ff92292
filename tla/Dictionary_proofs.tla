-------------------------- MODULE Dictionary_proofs -------------------------
(* The walk, for every file, every bound and both retentions: its positions, which   *)
(* the binary searches and the header's weight offset rely on; its skeleton; and     *)
(* what it hands out, against the file's records looked at all together.  Then the    *)
(* reader over it, for every caller, records read, passed over and left for the        *)
(* transition in any mix: what the schema is fed, what the layout is and which         *)
(* warnings a caller is shown.                                                          *)
EXTENDS DictionaryReader, SequenceLemmas

(* Every primary seen lies before the records still to come. *)
PrimariesAreBehind == \A i \in DOMAIN primaries: primaries[i] < physical

PositionInv ==
  /\ CountersTypeOK
  /\ PositionsAreOffsets
  /\ PrimariesAreSorted
  /\ PrimariesAreBehind

(* Everything PositionInv looks at. *)
positionVars == <<retention, scanning, pending, physical, primaries, variables>>

-----------------------------------------------------------------------------------
LEMMA UnitsArePositive ==
  ASSUME NEW type \in Numeric..StringTypeMax
  PROVE  Units(type) \in Nat /\ Units(type) >= 1
BY DEF Units, Numeric, StringTypeMax, UnitLen

LEMMA InitPositionInv == ScanInit => PositionInv
BY DEF ScanInit, PositionInv, CountersTypeOK, PositionsAreOffsets, PrimariesAreSorted,
       PrimariesAreBehind

LEMMA PositionStays == PositionInv /\ UNCHANGED positionVars => PositionInv'
BY DEF PositionInv, positionVars, CountersTypeOK, PositionsAreOffsets, PrimariesAreSorted,
       PrimariesAreBehind

(* A step that ends the walk leaves the positions as they are. *)
LEMMA StopKeepsPositions ==
  ASSUME PositionInv, NEW kind \in {"done"} \cup Errors, Stop(kind)
  PROVE  PositionInv'
BY DEF PositionInv, Stop, CountersTypeOK, PositionsAreOffsets, PrimariesAreSorted,
       PrimariesAreBehind

(* A primary opens where the one before it ends, with its own run pending. *)
LEMMA PrimaryKeepsPositions ==
  ASSUME PositionInv, NEW record \in VariableRecord, ReadPrimary(record)
  PROVE  PositionInv'
<1> DEFINE n == Len(primaries)
<1>1. /\ primaries' = Append(primaries, physical) /\ variables' = Append(variables, record.type)
      /\ pending' = Units(record.type) - 1 /\ physical' = physical + 1
      /\ pending = 0 /\ record.type \in Numeric..StringTypeMax
      /\ UNCHANGED <<retention, scanning>>
  BY DEF ReadPrimary, Read, Continuations
<1>2. /\ primaries \in Seq(Nat) /\ variables \in Seq(Numeric..StringTypeMax)
      /\ physical \in Nat /\ n \in Nat /\ Len(variables) = n
  BY DEF PositionInv, CountersTypeOK, PositionsAreOffsets
<1>3. Units(record.type) \in Nat /\ Units(record.type) >= 1
  BY <1>1, UnitsArePositive
<1>4. CountersTypeOK'
  <2>1. primaries' \in Seq(Nat) /\ variables' \in Seq(Numeric..StringTypeMax)
    BY <1>1, <1>2
  <2>2. pending' \in Nat /\ physical' \in Nat
    BY <1>1, <1>2, <1>3
  <2> QED
    BY <1>1, <2>1, <2>2 DEF PositionInv, CountersTypeOK
<1>5. /\ Len(primaries') = n + 1 /\ Len(variables') = n + 1
      /\ primaries'[n + 1] = physical /\ variables'[n + 1] = record.type
      /\ \A i \in 1..n: primaries'[i] = primaries[i] /\ variables'[i] = variables[i]
  BY <1>1, <1>2
<1>6. PositionsAreOffsets'
  <2>1. CASE n = 0
    <3>1. primaries = << >> /\ physical = 0
      BY <2>1, <1>2 DEF PositionInv, PositionsAreOffsets
    <3> QED
      BY <1>1, <1>3, <1>5, <2>1, <3>1 DEF PositionsAreOffsets
  <2>2. CASE n # 0
    <3>1. /\ primaries # << >>
          /\ primaries[1] = 0
          /\ \A i \in 1..n - 1: primaries[i + 1] = primaries[i] + Units(variables[i])
          /\ physical = primaries[n] + Units(variables[n])
      <4>1. primaries # << >>
        BY <2>2, <1>2
      <4>2. /\ primaries[1] = 0
            /\ \A i \in 1..n - 1: primaries[i + 1] = primaries[i] + Units(variables[i])
            /\ physical + pending = primaries[n] + Units(variables[n])
        BY <4>1 DEF PositionInv, PositionsAreOffsets
      <4> QED
        BY <4>1, <4>2, <1>1, <1>2
    <3>2. ASSUME NEW i \in 1..n
          PROVE  primaries'[i + 1] = primaries'[i] + Units(variables'[i])
      <4>1. primaries'[i] = primaries[i] /\ variables'[i] = variables[i]
        BY <1>5
      <4>2. CASE i = n
        BY <4>1, <4>2, <3>1, <1>5
      <4>3. CASE i # n
        <5>1. i \in 1..n - 1 /\ i + 1 \in 1..n
          BY <4>3, <1>2
        <5>2. primaries'[i + 1] = primaries[i + 1]
          BY <5>1, <1>5
        <5> QED
          BY <5>1, <5>2, <4>1, <3>1
      <4> QED
        BY <4>2, <4>3
    <3>3. primaries'[1] = 0 /\ primaries' # << >>
      BY <1>2, <1>5, <2>2, <3>1
    <3>4. physical' + pending' = primaries'[n + 1] + Units(variables'[n + 1])
      BY <1>1, <1>2, <1>3, <1>5
    <3> QED
      BY <1>2, <1>5, <3>2, <3>3, <3>4 DEF PositionsAreOffsets
  <2> QED
    BY <2>1, <2>2
<1>7. PrimariesAreSorted'
  BY <1>1, <1>2, <1>5 DEF PositionInv, PrimariesAreSorted, PrimariesAreBehind
<1>8. PrimariesAreBehind'
  BY <1>1, <1>2, <1>5 DEF PositionInv, PrimariesAreBehind
<1> QED
  BY <1>4, <1>6, <1>7, <1>8 DEF PositionInv

LEMMA ContinuationKeepsPositions ==
  ASSUME PositionInv, NEW record \in VariableRecord, ReadContinuation(record)
  PROVE  PositionInv'
<1>1. /\ pending > 0 /\ pending' = pending - 1 /\ physical' = physical + 1
      /\ UNCHANGED <<retention, scanning, primaries, variables>>
  BY DEF ReadContinuation, Read
<1>2. /\ pending \in Nat /\ physical \in Nat /\ primaries \in Seq(Nat)
  BY DEF PositionInv, CountersTypeOK
<1>3. CountersTypeOK'
  BY <1>1, <1>2 DEF PositionInv, CountersTypeOK
<1>4. PositionsAreOffsets'
  BY <1>1, <1>2 DEF PositionInv, PositionsAreOffsets
<1>5. PrimariesAreSorted' /\ PrimariesAreBehind'
  BY <1>1, <1>2 DEF PositionInv, PrimariesAreSorted, PrimariesAreBehind
<1> QED
  BY <1>3, <1>4, <1>5 DEF PositionInv

LEMMA StepPositionInv == PositionInv /\ [ScanNext]_scanVars => PositionInv'
<1> SUFFICES ASSUME PositionInv, [ScanNext]_scanVars PROVE PositionInv'
  OBVIOUS
<1>1. ASSUME NEW record \in VariableRecord,
             ReadPrimary(record) \/ ReadContinuation(record)
      PROVE  PositionInv'
  BY <1>1, PrimaryKeepsPositions, ContinuationKeepsPositions
<1>2. ASSUME NEW record \in VariableRecord, VariableFails(record)
      PROVE  PositionInv'
  BY <1>2, StopKeepsPositions DEF VariableFails, Errors
<1>3. ASSUME NEW record \in ValueLabels, ReadValueLabels(record)
      PROVE  PositionInv'
  BY <1>3, PositionStays DEF ReadValueLabels, Read, positionVars
<1>4. ASSUME NEW record \in ValueLabels, ValueLabelsDangle(record)
      PROVE  PositionInv'
  BY <1>4, StopKeepsPositions DEF ValueLabelsDangle, Errors
<1>5. ASSUME NEW record \in Document, ReadDocument(record)
      PROVE  PositionInv'
  BY <1>5, PositionStays DEF ReadDocument, Read, positionVars
<1>6. ASSUME NEW record \in ExtensionRecord, ReadExtension(record)
      PROVE  PositionInv'
  BY <1>6, PositionStays DEF ReadExtension, Read, positionVars
<1>7. CASE ReadTerminator \/ RunCutShort \/ Unpaired \/ UnknownRecordType \/ ReadFails
  BY <1>7, StopKeepsPositions
  DEF ReadTerminator, RunCutShort, Unpaired, UnknownRecordType, ReadFails, Errors
<1>8. CASE UNCHANGED scanVars
  BY <1>8, PositionStays DEF scanVars, positionVars
<1> QED
  BY <1>1, <1>2, <1>3, <1>4, <1>5, <1>6, <1>7, <1>8 DEF ScanNext

(* In every file a variable record's position among the type-2 records is its      *)
(* offset in a row, in units: what lets the header's weight offset and a value-     *)
(* label set's indices name the same variables (dictionary_reader.rs, 86-92).       *)
THEOREM ScanPositionsAreOffsets == ScanSpec => []PositionsAreOffsets
<1>1. PositionInv => PositionsAreOffsets
  BY DEF PositionInv
<1> QED
  BY <1>1, InitPositionInv, StepPositionInv, PTL DEF ScanSpec

(* The positions a binary search runs over are always strictly increasing           *)
(* (normalize_value_label_variable_indices, segment_of_physical).                   *)
THEOREM ScanPrimariesAreSorted == ScanSpec => []PrimariesAreSorted
<1>1. PositionInv => PrimariesAreSorted
  BY DEF PositionInv
<1> QED
  BY <1>1, InitPositionInv, StepPositionInv, PTL DEF ScanSpec

-----------------------------------------------------------------------------------
(* What the walk absorbs *)

AbsorbedTypeOK ==
  /\ envelopes \in Seq(ExtensionRecord)
  /\ label \in Labels \cup {Undeclared}
  /\ codepage \in Labels \cup {Undeclared}
  /\ scanned \in Seq(Record)

absorbedVars == <<envelopes, label, codepage>>

LEMMA AbsorbKeepsType ==
  ASSUME AbsorbedTypeOK, NEW record \in ExtensionRecord, Absorb(record)
  PROVE  /\ envelopes' \in Seq(ExtensionRecord)
         /\ label' \in Labels \cup {Undeclared}
         /\ codepage' \in Labels \cup {Undeclared}
<1>1. Declared(record.payload) \in Labels \cup {Undeclared}
  BY DEF Declared, ExtensionRecord
<1> QED
  BY <1>1 DEF AbsorbedTypeOK, Absorb

LEMMA ReadKeepsType ==
  ASSUME AbsorbedTypeOK, NEW record \in Record, Read(record)
  PROVE  scanned' \in Seq(Record)
BY DEF AbsorbedTypeOK, Read

LEMMA StepAbsorbedType ==
  ASSUME AbsorbedTypeOK, [ScanNext]_scanVars
  PROVE  AbsorbedTypeOK'
<1>1. ASSUME NEW record \in Record, Read(record), UNCHANGED absorbedVars
      PROVE  AbsorbedTypeOK'
  BY <1>1, ReadKeepsType DEF AbsorbedTypeOK, absorbedVars
<1>2. ASSUME NEW record \in VariableRecord,
             ReadPrimary(record) \/ ReadContinuation(record)
      PROVE  AbsorbedTypeOK'
  BY <1>1, <1>2 DEF ReadPrimary, ReadContinuation, Record, absorbedVars
<1>3. ASSUME NEW record \in ValueLabels, ReadValueLabels(record)
      PROVE  AbsorbedTypeOK'
  BY <1>1, <1>3 DEF ReadValueLabels, Record, absorbedVars
<1>4. ASSUME NEW record \in Document, ReadDocument(record)
      PROVE  AbsorbedTypeOK'
  BY <1>1, <1>4 DEF ReadDocument, Record, absorbedVars
<1>5. ASSUME NEW record \in ExtensionRecord, ReadExtension(record)
      PROVE  AbsorbedTypeOK'
  <2>1. Read(record) /\ record \in Record
    BY <1>5 DEF ReadExtension, Record
  <2>2. CASE Absorb(record)
    BY <2>1, <2>2, AbsorbKeepsType, ReadKeepsType DEF AbsorbedTypeOK
  <2>3. CASE UNCHANGED absorbedVars
    BY <1>1, <2>1, <2>3
  <2> QED
    BY <1>5, <2>2, <2>3 DEF ReadExtension, absorbedVars
<1>6. ASSUME NEW kind, Stop(kind)
      PROVE  AbsorbedTypeOK'
  BY <1>6 DEF Stop, AbsorbedTypeOK
<1>7. CASE \E record \in VariableRecord: VariableFails(record)
  BY <1>6, <1>7 DEF VariableFails
<1>8. CASE \E record \in ValueLabels: ValueLabelsDangle(record)
  BY <1>6, <1>8 DEF ValueLabelsDangle
<1>9. CASE ReadTerminator \/ RunCutShort \/ Unpaired \/ UnknownRecordType \/ ReadFails
  BY <1>6, <1>9 DEF ReadTerminator, RunCutShort, Unpaired, UnknownRecordType, ReadFails
<1>10. CASE UNCHANGED scanVars
  BY <1>10 DEF scanVars, AbsorbedTypeOK
<1> QED
  BY <1>2, <1>3, <1>4, <1>5, <1>7, <1>8, <1>9, <1>10 DEF ScanNext

(* The state of the walk is always of its type: no count goes below zero however   *)
(* the continuation records of the file are arranged (Scan::run).                  *)
THEOREM ScanTypes == ScanSpec => []ScanTypeOK
<1>1. ScanInit => AbsorbedTypeOK
  BY DEF ScanInit, AbsorbedTypeOK
<1>2. PositionInv /\ AbsorbedTypeOK => ScanTypeOK
  BY DEF PositionInv, AbsorbedTypeOK, ScanTypeOK
<1> QED
  BY <1>1, <1>2, InitPositionInv, StepPositionInv, StepAbsorbedType, PTL DEF ScanSpec

-----------------------------------------------------------------------------------
(* What the skeleton holds is what was read *)

TypesSeen     == [i \in DOMAIN scanned |-> TypeOfPrimary(scanned[i])]
EnvelopesSeen == [i \in DOMAIN scanned |-> Envelope(scanned[i])]
UnitsOwned    == [i \in DOMAIN variables |-> Units(variables[i])]

(* The walk goes by the last record of a subtype, readable or not. *)
LastOf(subtype) ==
  IF Carrying(subtype) = {} THEN Undeclared
  ELSE Declared(scanned[Max(Carrying(subtype))].payload)

SkeletonInv ==
  /\ AbsorbedTypeOK
  /\ variables \in Seq(Numeric..StringTypeMax)
  /\ pending \in Nat /\ physical \in Nat
  /\ variables = FlattenSeq(TypesSeen)
  /\ envelopes = FlattenSeq(EnvelopesSeen)
  /\ label = LastOf(CharacterEncoding)
  /\ codepage = LastOf(MachineIntegerInfo)
  /\ Cardinality(VariableRecordsSeen) = physical
  /\ physical + pending = Total(UnitsOwned)
  /\ scanning = "done" => pending = 0

(* A record is of one kind, and has the fields of its kind. *)
LEMMA RecordKinds ==
  ASSUME NEW record \in Record
  PROVE  /\ record.kind = "variable" => record.type \in Int
         /\ record.kind = "extension" => record \in ExtensionRecord
<1>1. CASE record \in VariableRecord
  BY <1>1, VariableTypesAssumption DEF VariableRecord
<1>2. CASE record \in ValueLabels
  BY <1>2 DEF ValueLabels
<1>3. CASE record \in Document
  BY <1>3 DEF Document
<1>4. CASE record \in ExtensionRecord
  BY <1>4 DEF ExtensionRecord
<1> QED
  BY <1>1, <1>2, <1>3, <1>4 DEF Record

LEMMA TypesGrow ==
  ASSUME scanned \in Seq(Record), NEW record \in Record, scanned' = Append(scanned, record)
  PROVE  /\ FlattenSeq(TypesSeen') = FlattenSeq(TypesSeen) \o TypeOfPrimary(record)
         /\ FlattenSeq(TypesSeen) \in Seq(Int) /\ TypeOfPrimary(record) \in Seq(Int)
<1>1. ASSUME NEW r \in Record PROVE TypeOfPrimary(r) \in Seq(Int)
  BY RecordKinds DEF TypeOfPrimary, IsPrimary
<1>2. /\ Len(scanned) \in Nat /\ DOMAIN scanned = 1..Len(scanned)
      /\ DOMAIN scanned' = 1..(Len(scanned) + 1)
      /\ \A i \in 1..Len(scanned): scanned'[i] = scanned[i] /\ scanned[i] \in Record
      /\ scanned'[Len(scanned) + 1] = record
  OBVIOUS
<1> DEFINE old  == TypesSeen
           new  == TypesSeen'
           last == TypeOfPrimary(record)
<1>3. \A i \in 1..Len(scanned): old[i] = TypeOfPrimary(scanned[i]) /\ old[i] \in Seq(Int)
  BY <1>1, <1>2 DEF TypesSeen
<1>4. old \in Seq(Seq(Int)) /\ Len(old) = Len(scanned)
  BY <1>2, <1>3 DEF TypesSeen
<1>5. last \in Seq(Int)
  BY <1>1
<1>6. DOMAIN new = 1..(Len(scanned) + 1) /\ new = [i \in DOMAIN new |-> new[i]]
  BY <1>2 DEF TypesSeen
<1>7. \A i \in 1..Len(scanned): new[i] = old[i]
  BY <1>2, <1>3 DEF TypesSeen
<1>8. new[Len(scanned) + 1] = last
  BY <1>2 DEF TypesSeen
<1> HIDE DEF old, new, last
<1>9. new = Append(old, last)
  BY <1>4, <1>5, <1>6, <1>7, <1>8, OneMore
<1>10. FlattenSeq(new) = FlattenSeq(old) \o last
  BY <1>4, <1>5, <1>9, FlattenAppend
<1>11. FlattenSeq(old) \in Seq(Int)
  BY <1>4, FlattenTyped
<1> QED
  BY <1>5, <1>10, <1>11 DEF old, new, last

LEMMA EnvelopesGrow ==
  ASSUME scanned \in Seq(Record), NEW record \in Record, scanned' = Append(scanned, record)
  PROVE  /\ FlattenSeq(EnvelopesSeen') = FlattenSeq(EnvelopesSeen) \o Envelope(record)
         /\ FlattenSeq(EnvelopesSeen) \in Seq(ExtensionRecord) /\ Envelope(record) \in Seq(ExtensionRecord)
<1>1. ASSUME NEW r \in Record PROVE Envelope(r) \in Seq(ExtensionRecord)
  BY RecordKinds DEF Envelope
<1>2. /\ Len(scanned) \in Nat /\ DOMAIN scanned = 1..Len(scanned)
      /\ DOMAIN scanned' = 1..(Len(scanned) + 1)
      /\ \A i \in 1..Len(scanned): scanned'[i] = scanned[i] /\ scanned[i] \in Record
      /\ scanned'[Len(scanned) + 1] = record
  OBVIOUS
<1> DEFINE old  == EnvelopesSeen
           new  == EnvelopesSeen'
           last == Envelope(record)
<1>3. \A i \in 1..Len(scanned): old[i] = Envelope(scanned[i]) /\ old[i] \in Seq(ExtensionRecord)
  BY <1>1, <1>2 DEF EnvelopesSeen
<1>4. old \in Seq(Seq(ExtensionRecord)) /\ Len(old) = Len(scanned)
  BY <1>2, <1>3 DEF EnvelopesSeen
<1>5. last \in Seq(ExtensionRecord)
  BY <1>1
<1>6. DOMAIN new = 1..(Len(scanned) + 1) /\ new = [i \in DOMAIN new |-> new[i]]
  BY <1>2 DEF EnvelopesSeen
<1>7. \A i \in 1..Len(scanned): new[i] = old[i]
  BY <1>2, <1>3 DEF EnvelopesSeen
<1>8. new[Len(scanned) + 1] = last
  BY <1>2 DEF EnvelopesSeen
<1> HIDE DEF old, new, last
<1>9. new = Append(old, last)
  BY <1>4, <1>5, <1>6, <1>7, <1>8, OneMore
<1>10. FlattenSeq(new) = FlattenSeq(old) \o last
  BY <1>4, <1>5, <1>9, FlattenAppend
<1>11. FlattenSeq(old) \in Seq(ExtensionRecord)
  BY <1>4, FlattenTyped
<1> QED
  BY <1>5, <1>10, <1>11 DEF old, new, last

(* The last record of a subtype is the one just read, or the one it was before. *)
LEMMA LastGrows ==
  ASSUME scanned \in Seq(Record), NEW record \in Record, scanned' = Append(scanned, record), NEW subtype
  PROVE  /\ record.kind = "extension" /\ record.subtype = subtype =>
              /\ Carrying(subtype)' # {} /\ scanned'[Max(Carrying(subtype)')] = record
         /\ ~(record.kind = "extension" /\ record.subtype = subtype) =>
              /\ Carrying(subtype)' = Carrying(subtype)
              /\ Carrying(subtype) # {} =>
                   scanned'[Max(Carrying(subtype))] = scanned[Max(Carrying(subtype))]
<1> DEFINE P == {r \in Record: r.kind = "extension" /\ r.subtype = subtype}
<1>1. scanned' \in Seq(Record)
  OBVIOUS
<1>2. \A i \in DOMAIN scanned: scanned[i] \in Record
  OBVIOUS
<1>3. \A i \in DOMAIN scanned': scanned'[i] \in Record
  BY <1>1
<1>4. Carrying(subtype) = Places(scanned, P)
  BY <1>2 DEF Carrying, Places
<1>5. Carrying(subtype)' = Places(scanned', P)
  BY <1>3 DEF Carrying, Places
<1>6. record \in P <=> record.kind = "extension" /\ record.subtype = subtype
  OBVIOUS
<1> HIDE DEF P
<1>7. LastIsNew(scanned, scanned', record, P)
  BY LastPlace
<1> QED
  BY <1>4, <1>5, <1>6, <1>7 DEF LastIsNew

(* Of several declarations the last one counts. *)
LEMMA DeclarationsGrow ==
  ASSUME scanned \in Seq(Record), NEW record \in Record, scanned' = Append(scanned, record), NEW subtype
  PROVE  LastOf(subtype)' = IF record.kind = "extension" /\ record.subtype = subtype
                            THEN Declared(record.payload) ELSE LastOf(subtype)
<1>1. CASE record.kind = "extension" /\ record.subtype = subtype
  <2>1. Carrying(subtype)' # {} /\ scanned'[Max(Carrying(subtype)')] = record
    BY <1>1, LastGrows
  <2> QED
    BY <1>1, <2>1 DEF LastOf
<1>2. CASE ~(record.kind = "extension" /\ record.subtype = subtype)
  <2>1. /\ Carrying(subtype)' = Carrying(subtype)
        /\ Carrying(subtype) # {} => scanned'[Max(Carrying(subtype))] = scanned[Max(Carrying(subtype))]
    BY <1>2, LastGrows
  <2> QED
    BY <1>2, <2>1 DEF LastOf
<1> QED
  BY <1>1, <1>2

LEMMA VariableRecordsGrow ==
  ASSUME scanned \in Seq(Record), NEW record \in Record, scanned' = Append(scanned, record)
  PROVE  /\ Cardinality(VariableRecordsSeen) \in Nat
         /\ Cardinality(VariableRecordsSeen') =
              IF record.kind = "variable" THEN Cardinality(VariableRecordsSeen) + 1
              ELSE Cardinality(VariableRecordsSeen)
<1> DEFINE P == {r \in Record: r.kind = "variable"}
<1>1. scanned' \in Seq(Record)
  OBVIOUS
<1>2. \A i \in DOMAIN scanned: scanned[i] \in Record
  OBVIOUS
<1>3. \A i \in DOMAIN scanned': scanned'[i] \in Record
  BY <1>1
<1>4. VariableRecordsSeen = Places(scanned, P)
  BY <1>2 DEF VariableRecordsSeen, Places
<1>5. VariableRecordsSeen' = Places(Append(scanned, record), P)
  BY <1>3 DEF VariableRecordsSeen, Places
<1>6. record \in P <=> record.kind = "variable"
  OBVIOUS
<1> HIDE DEF P
<1>7. Cardinality(Places(scanned, P)) \in Nat
  BY PlacesFinite
<1>8. Cardinality(Places(Append(scanned, record), P)) =
        IF record \in P THEN Cardinality(Places(scanned, P)) + 1 ELSE Cardinality(Places(scanned, P))
  BY CountOne
<1> QED
  BY <1>4, <1>5, <1>6, <1>7, <1>8

LEMMA UnitsGrow ==
  ASSUME variables \in Seq(Numeric..StringTypeMax), NEW type \in Numeric..StringTypeMax,
         variables' = Append(variables, type)
  PROVE  Total(UnitsOwned') = Total(UnitsOwned) + Units(type) /\ Total(UnitsOwned) \in Nat
<1>1. /\ Len(variables) \in Nat /\ DOMAIN variables = 1..Len(variables)
      /\ DOMAIN variables' = 1..(Len(variables) + 1)
      /\ \A i \in 1..Len(variables): variables'[i] = variables[i] /\ variables[i] \in Numeric..StringTypeMax
      /\ variables'[Len(variables) + 1] = type
  <2> DEFINE T == Numeric..StringTypeMax
  <2>1. variables \in Seq(T) /\ type \in T
    OBVIOUS
  <2>2. \A i \in 1..Len(variables): variables[i] \in T => variables[i] \in Numeric..StringTypeMax
    OBVIOUS
  <2> HIDE DEF T
  <2> QED
    BY <2>1, <2>2, AppendFacts
<1> DEFINE old  == UnitsOwned
           new  == UnitsOwned'
           last == Units(type)
<1>2. \A i \in 1..Len(variables): old[i] = Units(variables[i]) /\ old[i] \in Nat
  BY <1>1, UnitsArePositive DEF UnitsOwned
<1>3. old \in Seq(Nat) /\ Len(old) = Len(variables)
  BY <1>1, <1>2 DEF UnitsOwned
<1>4. last \in Nat
  BY UnitsArePositive
<1>5. DOMAIN new = 1..(Len(variables) + 1) /\ new = [i \in DOMAIN new |-> new[i]]
  BY <1>1 DEF UnitsOwned
<1>6. \A i \in 1..Len(variables): new[i] = old[i]
  BY <1>1, <1>2 DEF UnitsOwned
<1>7. new[Len(variables) + 1] = last
  BY <1>1 DEF UnitsOwned
<1> HIDE DEF old, new, last
<1>8. new = Append(old, last)
  BY <1>3, <1>4, <1>5, <1>6, <1>7, OneMore
<1>9. Total(Append(old, last)) = Total(old) + last
  BY <1>3, <1>4, TotalAppend
<1>10. Total(old) \in Nat
  BY <1>3, TotalTyped
<1> QED
  BY <1>8, <1>9, <1>10 DEF old, new, last

(* A record that was read, when the skeleton takes of it what it is. *)
LEMMA ReadingKeepsSkeleton ==
  ASSUME SkeletonInv, AbsorbedTypeOK', NEW record \in Record, Read(record),
         variables' \in Seq(Numeric..StringTypeMax), pending' \in Nat, physical' \in Nat,
         variables' = variables \o TypeOfPrimary(record),
         envelopes' = envelopes \o Envelope(record),
         label' = IF record.kind = "extension" /\ record.subtype = CharacterEncoding
                  THEN Declared(record.payload) ELSE label,
         codepage' = IF record.kind = "extension" /\ record.subtype = MachineIntegerInfo
                     THEN Declared(record.payload) ELSE codepage,
         physical' = IF record.kind = "variable" THEN physical + 1 ELSE physical,
         physical' + pending' = Total(UnitsOwned')
  PROVE  SkeletonInv'
<1>1. scanned \in Seq(Record) /\ scanned' = Append(scanned, record) /\ scanning' = "running"
  BY DEF SkeletonInv, AbsorbedTypeOK, Read, Running
<1>2. variables' = FlattenSeq(TypesSeen')
  BY <1>1, TypesGrow DEF SkeletonInv
<1>3. envelopes' = FlattenSeq(EnvelopesSeen')
  BY <1>1, EnvelopesGrow DEF SkeletonInv
<1>4. label' = LastOf(CharacterEncoding)' /\ codepage' = LastOf(MachineIntegerInfo)'
  BY <1>1, DeclarationsGrow DEF SkeletonInv
<1>5. Cardinality(VariableRecordsSeen') = physical'
  BY <1>1, VariableRecordsGrow DEF SkeletonInv
<1>6. scanning' = "done" => pending' = 0
  BY <1>1
<1> QED
  BY <1>2, <1>3, <1>4, <1>5, <1>6 DEF SkeletonInv, VariableRecordsSeen

LEMMA NothingOf ==
  ASSUME SkeletonInv
  PROVE  variables \o << >> = variables /\ envelopes \o << >> = envelopes
BY ConcatEmptySeq DEF SkeletonInv, AbsorbedTypeOK

LEMMA SkeletonStays ==
  ASSUME SkeletonInv,
         UNCHANGED <<pending, physical, variables, envelopes, label, codepage, scanned>>,
         scanning' = "done" => pending = 0
  PROVE  SkeletonInv'
<1>1. /\ TypesSeen' = TypesSeen /\ EnvelopesSeen' = EnvelopesSeen /\ UnitsOwned' = UnitsOwned
      /\ VariableRecordsSeen' = VariableRecordsSeen
  BY DEF TypesSeen, EnvelopesSeen, UnitsOwned, VariableRecordsSeen
<1>2. LastOf(CharacterEncoding)' = LastOf(CharacterEncoding) /\ LastOf(MachineIntegerInfo)' = LastOf(MachineIntegerInfo)
  BY DEF LastOf, Carrying
<1>3. AbsorbedTypeOK'
  BY DEF SkeletonInv, AbsorbedTypeOK
<1> QED
  BY <1>1, <1>2, <1>3 DEF SkeletonInv

LEMMA StepKeepsSkeleton ==
  SkeletonInv /\ [ScanNext]_scanVars => SkeletonInv'
<1> SUFFICES ASSUME SkeletonInv, [ScanNext]_scanVars PROVE SkeletonInv'
  OBVIOUS
<1>1. AbsorbedTypeOK'
  BY StepAbsorbedType DEF SkeletonInv
<1>2. /\ pending \in Nat /\ physical \in Nat /\ physical + pending = Total(UnitsOwned)
      /\ variables \in Seq(Numeric..StringTypeMax)
  BY DEF SkeletonInv
<1>3. ASSUME NEW record \in VariableRecord, ReadPrimary(record)
      PROVE  SkeletonInv'
  <2>1. /\ record \in Record /\ record.kind = "variable" /\ Read(record)
        /\ record.type \in Numeric..StringTypeMax
        /\ pending = 0 /\ pending' = Units(record.type) - 1 /\ physical' = physical + 1
        /\ variables' = Append(variables, record.type)
        /\ UNCHANGED <<envelopes, label, codepage>>
    BY <1>3 DEF ReadPrimary, Record, VariableRecord, Continuations
  <2>2. TypeOfPrimary(record) = <<record.type>> /\ Envelope(record) = << >>
    <3>1. record.type # Continuation
      <4>1. \A type \in Numeric..StringTypeMax: type # Continuation
        BY DEF Continuation, Numeric, StringTypeMax
      <4> QED
        BY <2>1, <4>1
    <3>2. IsPrimary(record) /\ record.kind # "extension"
      BY <2>1, <3>1 DEF IsPrimary
    <3> QED
      BY <3>2 DEF TypeOfPrimary, Envelope
  <2>3. Units(record.type) \in Nat /\ Units(record.type) >= 1
    BY <2>1, UnitsArePositive
  <2>4. Total(UnitsOwned') = Total(UnitsOwned) + Units(record.type)
    BY <1>2, <2>1, UnitsGrow
  <2>5. /\ pending' \in Nat /\ physical' \in Nat /\ physical' + pending' = Total(UnitsOwned')
    <3> DEFINE units == Units(record.type)
               total == Total(UnitsOwned)
    <3>1. units \in Nat /\ units >= 1 /\ pending' = units - 1 /\ physical' = physical + 1
      BY <2>1, <2>3
    <3>2. physical \in Nat /\ physical = total /\ Total(UnitsOwned') = total + units
      BY <1>2, <2>1, <2>4
    <3> HIDE DEF units, total
    <3> QED
      BY <3>1, <3>2
  <2>6. variables' \in Seq(Numeric..StringTypeMax) /\ variables' = variables \o <<record.type>>
    <3> DEFINE T == Numeric..StringTypeMax
    <3>1. variables \in Seq(T) /\ record.type \in T
      BY <1>2, <2>1
    <3> HIDE DEF T
    <3>2. Append(variables, record.type) \in Seq(T)
      BY <3>1
    <3>3. Append(variables, record.type) = variables \o <<record.type>>
      BY <3>1, AppendIsConcat
    <3> QED
      BY <2>1, <3>2, <3>3 DEF T
  <2> QED
    BY <1>1, <2>1, <2>2, <2>5, <2>6, NothingOf, ReadingKeepsSkeleton
<1>4. ASSUME NEW record \in VariableRecord, ReadContinuation(record)
      PROVE  SkeletonInv'
  <2>1. /\ record \in Record /\ record.kind = "variable" /\ record.type = Continuation /\ Read(record)
        /\ pending > 0 /\ pending' = pending - 1 /\ physical' = physical + 1
        /\ UNCHANGED <<variables, envelopes, label, codepage>>
    BY <1>4 DEF ReadContinuation, Record, VariableRecord
  <2>2. TypeOfPrimary(record) = << >> /\ Envelope(record) = << >>
    BY <2>1 DEF TypeOfPrimary, IsPrimary, Envelope
  <2>3. Total(UnitsOwned') = Total(UnitsOwned)
    BY <2>1 DEF UnitsOwned
  <2>4. pending' \in Nat /\ physical' \in Nat /\ physical' + pending' = Total(UnitsOwned')
    BY <1>2, <2>1, <2>3
  <2> QED
    BY <1>1, <1>2, <2>1, <2>2, <2>4, NothingOf, ReadingKeepsSkeleton
<1>5. ASSUME NEW record \in ValueLabels \cup Document, ReadValueLabels(record) \/ ReadDocument(record)
      PROVE  SkeletonInv'
  <2>1. /\ record \in Record /\ record.kind # "variable" /\ record.kind # "extension" /\ Read(record)
        /\ UNCHANGED <<pending, physical, variables, envelopes, label, codepage>>
    BY <1>5 DEF ReadValueLabels, ReadDocument, Record, ValueLabels, Document
  <2>2. TypeOfPrimary(record) = << >> /\ Envelope(record) = << >>
    BY <2>1 DEF TypeOfPrimary, IsPrimary, Envelope
  <2>3. Total(UnitsOwned') = Total(UnitsOwned)
    BY <2>1 DEF UnitsOwned
  <2>4. physical' + pending' = Total(UnitsOwned')
    BY <1>2, <2>1, <2>3
  <2> QED
    BY <1>1, <1>2, <2>1, <2>2, <2>4, NothingOf, ReadingKeepsSkeleton
<1>6. ASSUME NEW record \in ExtensionRecord, ReadExtension(record)
      PROVE  SkeletonInv'
  <2>1. /\ record \in Record /\ record.kind = "extension" /\ Read(record)
        /\ UNCHANGED <<pending, physical, variables>>
    BY <1>6 DEF ReadExtension, Record, ExtensionRecord
  <2>2. TypeOfPrimary(record) = << >>
    BY <2>1 DEF TypeOfPrimary, IsPrimary
  <2>3. /\ envelopes' = envelopes \o Envelope(record)
        /\ label' = IF record.subtype = CharacterEncoding THEN Declared(record.payload) ELSE label
        /\ codepage' = IF record.subtype = MachineIntegerInfo THEN Declared(record.payload) ELSE codepage
    <3>1. CASE record.subtype \in LayoutBearing
      <4>1. Envelope(record) = <<record>> /\ Absorb(record)
        BY <1>6, <2>1, <3>1 DEF Envelope, ReadExtension
      <4>2. envelopes' = Append(envelopes, record)
        BY <3>1, <4>1 DEF Absorb
      <4>3. Append(envelopes, record) = envelopes \o <<record>>
        BY AppendIsConcat DEF SkeletonInv, AbsorbedTypeOK
      <4> QED
        BY <4>1, <4>2, <4>3 DEF Absorb
    <3>2. CASE record.subtype \notin LayoutBearing
      <4>1. Envelope(record) = << >>
        BY <3>2 DEF Envelope
      <4>2. Absorb(record) \/ (record.subtype \notin DeclaresEncoding /\ UNCHANGED <<envelopes, label, codepage>>)
        BY <1>6 DEF ReadExtension
      <4> QED
        BY <3>2, <4>1, <4>2, NothingOf DEF Absorb, DeclaresEncoding
    <3> QED
      BY <3>1, <3>2
  <2>4. Total(UnitsOwned') = Total(UnitsOwned)
    BY <2>1 DEF UnitsOwned
  <2>5. physical' + pending' = Total(UnitsOwned')
    BY <1>2, <2>1, <2>4
  <2> QED
    BY <1>1, <1>2, <2>1, <2>2, <2>3, <2>5, NothingOf, ReadingKeepsSkeleton
<1>7. ASSUME UNCHANGED <<pending, physical, variables, envelopes, label, codepage, scanned>>,
             scanning' = "done" => pending = 0
      PROVE  SkeletonInv'
  BY <1>7, SkeletonStays
<1>8. ASSUME NEW kind \in Errors, Stop(kind)
      PROVE  SkeletonInv'
  BY <1>7, <1>8 DEF Stop, Errors
<1>9. CASE ReadTerminator
  BY <1>7, <1>9 DEF ReadTerminator, Stop
<1>10. CASE UNCHANGED scanVars
  BY <1>7, <1>10 DEF scanVars, SkeletonInv
<1>11. ASSUME NEW record \in VariableRecord, VariableFails(record)
       PROVE  SkeletonInv'
  BY <1>8, <1>11 DEF VariableFails, Errors
<1>12. ASSUME NEW record \in ValueLabels, ValueLabelsDangle(record)
       PROVE  SkeletonInv'
  BY <1>8, <1>12 DEF ValueLabelsDangle, Errors
<1>13. CASE RunCutShort \/ Unpaired \/ UnknownRecordType \/ ReadFails
  BY <1>8, <1>13 DEF RunCutShort, Unpaired, UnknownRecordType, ReadFails, Errors
<1> QED
  BY <1>3, <1>4, <1>5, <1>6, <1>9, <1>10, <1>11, <1>12, <1>13 DEF ScanNext

LEMMA InitSkeleton == ScanInit => SkeletonInv
<1> SUFFICES ASSUME ScanInit PROVE SkeletonInv
  OBVIOUS
<1>1. scanned = << >> /\ variables = << >> /\ envelopes = << >>
  BY DEF ScanInit
<1>2. TypesSeen = << >> /\ EnvelopesSeen = << >> /\ UnitsOwned = << >>
  BY <1>1 DEF TypesSeen, EnvelopesSeen, UnitsOwned
<1>3. VariableRecordsSeen = {} /\ \A subtype: Carrying(subtype) = {}
  BY <1>1 DEF VariableRecordsSeen, Carrying
<1>4. Cardinality(VariableRecordsSeen) = 0
  BY <1>3, FS_EmptySet
<1>5. variables = FlattenSeq(TypesSeen) /\ envelopes = FlattenSeq(EnvelopesSeen)
  BY <1>1, <1>2, FlattenEmpty
<1>6. Total(UnitsOwned) = 0
  BY <1>2, TotalEmpty
<1> QED
  BY <1>1, <1>3, <1>4, <1>5, <1>6 DEF ScanInit, SkeletonInv, AbsorbedTypeOK, LastOf

(* Where no unreadable record follows the last readable one, the last record declares *)
(* what the readable ones do.                                                        *)
LEMMA LastIsDeclared ==
  ASSUME scanned \in Seq(Record), NEW subtype, ~Followed(subtype)
  PROVE  LastOf(subtype) = DeclaredBy(subtype)
<1> DEFINE all  == Carrying(subtype)
           read == ReadableOf(subtype)
<1>1. read \subseteq all /\ \A i \in all: i \in read <=> scanned[i].payload \notin Unreadables
  BY DEF ReadableOf
<1>2. all \in SUBSET (1..Len(scanned)) /\ Len(scanned) \in Nat
  BY DEF Carrying
<1> HIDE DEF all, read
<1>3. ASSUME NEW S \in SUBSET (1..Len(scanned)), S # {}
      PROVE  Max(S) \in S
  BY <1>2, <1>3, GreatestNumber
<1>4. CASE all = {}
  BY <1>1, <1>4 DEF LastOf, DeclaredBy, all, read
<1>5. CASE all # {} /\ read = {}
  <2>1. Max(all) \in all /\ scanned[Max(all)].payload \in Unreadables
    BY <1>1, <1>2, <1>3, <1>5
  <2> QED
    BY <1>5, <2>1 DEF LastOf, DeclaredBy, Declared, all, read
<1>6. CASE all # {} /\ read # {}
  <2>1. read \in SUBSET (1..Len(scanned))
    BY <1>1, <1>2
  <2>2. Max(read) \in read
    BY <1>3, <1>6, <2>1
  <2>3. Max(read) = Max(all)
    BY <1>6 DEF Followed, all, read
  <2>4. scanned[Max(all)].payload \notin Unreadables
    BY <1>1, <2>2, <2>3
  <2> QED
    BY <1>6, <2>3, <2>4 DEF LastOf, DeclaredBy, Declared, all, read
<1> QED
  BY <1>4, <1>5, <1>6

(* The skeleton is what the file says, whatever was kept: every variable and every layout-  *)
(* bearing record in order, each declaration that no unreadable one follows, and at the end  *)
(* of the dictionary all the records that its variables own (Scan::run, DictionaryRetention). *)
THEOREM ScanSkeletonIsTheFile == ScanSpec => []SkeletonIsTheFile
<1>1. SkeletonInv => SkeletonIsTheFile
  <2> SUFFICES ASSUME SkeletonInv PROVE SkeletonIsTheFile
    OBVIOUS
  <2>1. variables = FlattenSeq([i \in DOMAIN scanned |-> TypeOfPrimary(scanned[i])])
    BY DEF SkeletonInv, TypesSeen
  <2>2. envelopes = FlattenSeq([i \in DOMAIN scanned |-> Envelope(scanned[i])])
    BY DEF SkeletonInv, EnvelopesSeen
  <2>3. scanning = "done" => Cardinality(VariableRecordsSeen) = Total(UnitsOwned)
    BY DEF SkeletonInv
  <2>4. Total(UnitsOwned) =
          FoldLeft(LAMBDA units, n: units + n, 0, [i \in DOMAIN variables |-> Units(variables[i])])
    BY DEF Total, UnitsOwned
  <2>5. \A subtype: ~Followed(subtype) => LastOf(subtype) = DeclaredBy(subtype)
    BY LastIsDeclared DEF SkeletonInv, AbsorbedTypeOK
  <2> QED
    BY <2>1, <2>2, <2>3, <2>4, <2>5 DEF SkeletonInv, SkeletonIsTheFile
<1> QED
  BY <1>1, InitSkeleton, StepKeepsSkeleton, PTL DEF ScanSpec

-----------------------------------------------------------------------------------
(* What is handed out is what the whole file says *)

PrimariesOf(file) == {j \in DOMAIN file: IsPrimary(file[j])}

(* A value-label record of the file names variables among the first n records. *)
NamesTheFirst(file, n) ==
  \A i \in DOMAIN file: file[i].kind = "value_label" =>
    \A k \in DOMAIN file[i].indices: file[i].indices[k] \in Nat /\ file[i].indices[k] <= n

BufferedInv ==
  /\ scanned \in Seq(Record)
  /\ PositionIn(scanned, Len(scanned)) = physical
  /\ Cardinality(PrimariesOf(scanned)) = Len(primaries)
  /\ \A k \in DOMAIN primaries: SegmentIn(scanned, primaries[k] + 1) = k - 1
  /\ NamesTheFirst(scanned, physical)
  /\ BufferIsTheDictionary

LEMMA GrownFile ==
  ASSUME NEW file \in Seq(Record), NEW record \in Record
  PROVE  /\ Len(file) \in Nat /\ DOMAIN file = 1..Len(file)
         /\ Append(file, record) \in Seq(Record)
         /\ Len(Append(file, record)) = Len(file) + 1
         /\ DOMAIN Append(file, record) = 1..(Len(file) + 1)
         /\ \A i \in 1..Len(file): Append(file, record)[i] = file[i] /\ file[i] \in Record
         /\ Append(file, record)[Len(file) + 1] = record
OBVIOUS

(* Positions rise along the file, and are counted once for all. *)
LEMMA PositionsRise ==
  ASSUME NEW file \in Seq(Record), NEW j \in 1..Len(file)
  PROVE  /\ PositionIn(file, j) \in Nat /\ PositionIn(file, Len(file)) \in Nat
         /\ PositionIn(file, j) <= PositionIn(file, Len(file))
<1> DEFINE n    == Len(file)
           here == {i \in 1..j: file[i].kind = "variable"}
           all  == {i \in 1..n: file[i].kind = "variable"}
<1>1. n \in Nat /\ 1..j \in SUBSET (1..n)
  OBVIOUS
<1>2. here \in SUBSET all /\ all \in SUBSET (1..n)
  BY <1>1
<1> HIDE DEF here, all
<1>3. IsFiniteSet(1..n)
  BY <1>1, FS_Interval
<1>4. IsFiniteSet(all)
  BY <1>2, <1>3, FS_Subset
<1>5. IsFiniteSet(here) /\ Cardinality(here) <= Cardinality(all)
  BY <1>2, <1>4, FS_Subset
<1>6. Cardinality(here) \in Nat /\ Cardinality(all) \in Nat
  BY <1>4, <1>5, FS_CardinalityType
<1> QED
  BY <1>5, <1>6 DEF here, all, PositionIn

LEMMA PositionsStay ==
  ASSUME NEW file \in Seq(Record), NEW record \in Record, NEW j \in 1..Len(file)
  PROVE  PositionIn(Append(file, record), j) = PositionIn(file, j)
<1> DEFINE more == Append(file, record)
<1>1. \A i \in 1..Len(file): more[i] = file[i]
  BY GrownFile
<1> HIDE DEF more
<1>2. \A i \in 1..j: more[i] = file[i]
  BY <1>1
<1>3. {i \in 1..j: more[i].kind = "variable"} = {i \in 1..j: file[i].kind = "variable"}
  BY <1>2
<1> QED
  BY <1>3 DEF PositionIn, more

LEMMA LastPosition ==
  ASSUME NEW file \in Seq(Record), NEW record \in Record
  PROVE  /\ PositionIn(file, Len(file)) \in Nat
         /\ PositionIn(Append(file, record), Len(file) + 1) =
              IF record.kind = "variable" THEN PositionIn(file, Len(file)) + 1
              ELSE PositionIn(file, Len(file))
<1> DEFINE P == {r \in Record: r.kind = "variable"}
           more == Append(file, record)
<1>1. /\ Len(file) \in Nat /\ DOMAIN file = 1..Len(file) /\ DOMAIN more = 1..(Len(file) + 1)
      /\ \A i \in DOMAIN file: file[i] \in Record
      /\ more \in Seq(Record)
  BY GrownFile
<1> HIDE DEF more
<1>2. \A i \in DOMAIN more: more[i] \in Record
  BY <1>1
<1>3. PositionIn(file, Len(file)) = Cardinality(Places(file, P))
  <2>1. {i \in 1..Len(file): file[i].kind = "variable"} = Places(file, P)
    BY <1>1 DEF Places
  <2> QED
    BY <2>1 DEF PositionIn
<1>4. PositionIn(more, Len(file) + 1) = Cardinality(Places(more, P))
  <2>1. {i \in 1..(Len(file) + 1): more[i].kind = "variable"} = Places(more, P)
    BY <1>1, <1>2 DEF Places
  <2> QED
    BY <2>1 DEF PositionIn
<1>5. record \in P <=> record.kind = "variable"
  OBVIOUS
<1> HIDE DEF P
<1>6. Cardinality(Places(file, P)) \in Nat
  BY PlacesFinite
<1>7. Cardinality(Places(Append(file, record), P)) =
        IF record \in P THEN Cardinality(Places(file, P)) + 1 ELSE Cardinality(Places(file, P))
  BY CountOne
<1> QED
  BY <1>3, <1>4, <1>5, <1>6, <1>7 DEF more

(* A primary that is read later does not move the ones before it. *)
LEMMA SegmentsStay ==
  ASSUME NEW file \in Seq(Record), NEW record \in Record, NEW index \in Nat,
         index <= PositionIn(file, Len(file))
  PROVE  SegmentIn(Append(file, record), index) = SegmentIn(file, index)
<1> DEFINE more == Append(file, record)
           n    == Len(file)
<1>1. /\ n \in Nat /\ DOMAIN file = 1..n /\ DOMAIN more = 1..(n + 1)
      /\ \A i \in 1..n: more[i] = file[i]
      /\ more[n + 1] = record
  BY GrownFile
<1>2. \A j \in 1..n: PositionIn(more, j) = PositionIn(file, j)
  BY PositionsStay
<1>3. /\ PositionIn(file, n) \in Nat
      /\ PositionIn(more, n + 1) =
           IF record.kind = "variable" THEN PositionIn(file, n) + 1 ELSE PositionIn(file, n)
  BY LastPosition
<1> HIDE DEF more
<1>4. ~(IsPrimary(more[n + 1]) /\ PositionIn(more, n + 1) <= index)
  BY <1>1, <1>3 DEF IsPrimary
<1>5. \A j \in 1..(n + 1): j = n + 1 \/ j \in 1..n
  BY <1>1
<1> HIDE DEF n
<1>6. \A j \in PrimariesUpTo(more, index): j \in PrimariesUpTo(file, index)
  BY <1>1, <1>2, <1>4, <1>5, Zenon DEF PrimariesUpTo
<1>7. \A j \in 1..n: j \in 1..(n + 1)
  BY <1>1
<1>8. \A j \in PrimariesUpTo(file, index): j \in PrimariesUpTo(more, index)
  BY <1>1, <1>2, <1>7, Zenon DEF PrimariesUpTo
<1>9. PrimariesUpTo(more, index) = PrimariesUpTo(file, index)
  BY <1>6, <1>8
<1> QED
  BY <1>9 DEF SegmentIn, more

(* The primary just read opens the segment after those of the primaries before it. *)
LEMMA SegmentOpened ==
  ASSUME NEW file \in Seq(Record), NEW record \in Record, IsPrimary(record)
  PROVE  /\ SegmentIn(Append(file, record), PositionIn(file, Len(file)) + 1)
              = Cardinality(PrimariesOf(file))
         /\ Cardinality(PrimariesOf(Append(file, record))) = Cardinality(PrimariesOf(file)) + 1
         /\ Cardinality(PrimariesOf(file)) \in Nat
<1> DEFINE more  == Append(file, record)
           n     == Len(file)
           index == PositionIn(file, n) + 1
<1>1. /\ n \in Nat /\ DOMAIN file = 1..n /\ DOMAIN more = 1..(n + 1)
      /\ \A i \in 1..n: more[i] = file[i]
      /\ more[n + 1] = record
  BY GrownFile
<1>2. PositionIn(file, n) \in Nat /\ PositionIn(more, n + 1) = index
  BY LastPosition DEF IsPrimary
<1>3. \A j \in 1..n: PositionIn(more, j) = PositionIn(file, j)
  BY PositionsStay
<1>4. \A j \in 1..n: PositionIn(file, j) \in Nat /\ PositionIn(file, j) <= PositionIn(file, n)
  BY PositionsRise
<1> HIDE DEF more, n
<1>5. \A j \in 1..(n + 1): j = n + 1 \/ j \in 1..n
  BY <1>1
<1>6. \A j \in DOMAIN more: PositionIn(more, j) <= index
  <2> SUFFICES ASSUME NEW j \in 1..(n + 1) PROVE PositionIn(more, j) <= index
    BY <1>1
  <2>1. CASE j = n + 1
    BY <1>2, <2>1
  <2>2. CASE j \in 1..n
    <3>1. PositionIn(more, j) = PositionIn(file, j) /\ PositionIn(file, j) \in Nat
          /\ PositionIn(file, j) <= PositionIn(file, n)
      BY <1>3, <1>4, <2>2
    <3> QED
      BY <1>2, <3>1
  <2> QED
    BY <1>5, <2>1, <2>2
<1> HIDE DEF index
<1>7. PrimariesUpTo(more, index) = PrimariesOf(more)
  BY <1>6 DEF PrimariesUpTo, PrimariesOf
<1>8. PrimariesOf(more) = PrimariesOf(file) \cup {n + 1}
  <2>1. \A j \in PrimariesOf(more): j \in PrimariesOf(file) \/ j = n + 1
    BY <1>1, <1>5 DEF PrimariesOf
  <2>2. \A j \in PrimariesOf(file): j \in PrimariesOf(more)
    <3>1. \A j \in 1..n: j \in 1..(n + 1)
      BY <1>1
    <3> QED
      BY <1>1, <3>1 DEF PrimariesOf
  <2>3. n + 1 \in PrimariesOf(more)
    BY <1>1 DEF PrimariesOf
  <2> QED
    BY <2>1, <2>2, <2>3
<1>9. n + 1 \notin PrimariesOf(file) /\ PrimariesOf(file) \in SUBSET (1..n)
  <2>1. \A j \in PrimariesOf(file): j \in 1..n
    BY <1>1 DEF PrimariesOf
  <2>2. n + 1 \notin 1..n
    BY <1>1
  <2> QED
    BY <2>1, <2>2
<1>10. IsFiniteSet(1..n)
  <2>1. n \in Int
    BY <1>1
  <2> QED
    BY <2>1, FS_Interval
<1>11. IsFiniteSet(PrimariesOf(file))
  BY <1>9, <1>10, FS_Subset
<1>12. Cardinality(PrimariesOf(file)) \in Nat
  BY <1>11, FS_CardinalityType
<1>13. Cardinality(PrimariesOf(more)) = Cardinality(PrimariesOf(file)) + 1
  BY <1>8, <1>9, <1>11, FS_AddElement
<1>14. SegmentIn(more, index) = Cardinality(PrimariesOf(file))
  BY <1>7, <1>12, <1>13 DEF SegmentIn
<1> QED
  BY <1>12, <1>13, <1>14 DEF more, n, index

LEMMA PrimariesStay ==
  ASSUME NEW file \in Seq(Record), NEW record \in Record, ~IsPrimary(record)
  PROVE  PrimariesOf(Append(file, record)) = PrimariesOf(file)
<1> DEFINE more == Append(file, record)
           n    == Len(file)
<1>1. /\ n \in Nat /\ DOMAIN file = 1..n /\ DOMAIN more = 1..(n + 1)
      /\ \A i \in 1..n: more[i] = file[i]
      /\ more[n + 1] = record
  BY GrownFile
<1> HIDE DEF more, n
<1>2. \A j \in 1..(n + 1): j = n + 1 \/ j \in 1..n
  BY <1>1
<1>3. \A j \in 1..n: j \in 1..(n + 1)
  BY <1>1
<1>4. \A j \in PrimariesOf(more): j \in PrimariesOf(file)
  BY <1>1, <1>2 DEF PrimariesOf
<1>5. \A j \in PrimariesOf(file): j \in PrimariesOf(more)
  BY <1>1, <1>3 DEF PrimariesOf
<1> QED
  BY <1>4, <1>5 DEF more

(* What a record is handed out as does not depend on those read after it. *)
LEMMA EntriesStay ==
  ASSUME NEW file \in Seq(Record), NEW record \in Record, NEW i \in 1..Len(file),
         NamesTheFirst(file, PositionIn(file, Len(file)))
  PROVE  ReadAs(Append(file, record), i) = ReadAs(file, i)
<1> DEFINE more == Append(file, record)
<1>1. /\ Len(file) \in Nat /\ DOMAIN file = 1..Len(file)
      /\ \A j \in 1..Len(file): more[j] = file[j]
  BY GrownFile
<1>2. \A index \in Nat: index <= PositionIn(file, Len(file)) =>
        SegmentIn(more, index) = SegmentIn(file, index)
  BY SegmentsStay
<1> HIDE DEF more
<1>3. more[i] = file[i]
  BY <1>1
<1>4. HandedOutAs(more, i) = HandedOutAs(file, i)
  <2>1. CASE file[i].kind = "value_label"
    <3>1. \A k \in DOMAIN file[i].indices:
            SegmentIn(more, file[i].indices[k]) = SegmentIn(file, file[i].indices[k])
      BY <1>1, <1>2, <2>1 DEF NamesTheFirst
    <3>2. [k \in DOMAIN file[i].indices |-> SegmentIn(more, file[i].indices[k])]
            = [k \in DOMAIN file[i].indices |-> SegmentIn(file, file[i].indices[k])]
      BY <3>1
    <3> QED
      BY <1>3, <3>2 DEF HandedOutAs
  <2>2. CASE file[i].kind # "value_label"
    BY <1>3, <2>2 DEF HandedOutAs
  <2> QED
    BY <2>1, <2>2
<1>5. PrimariesBefore(more, i) = PrimariesBefore(file, i)
  <2>1. \A j \in 1..i - 1: j \in 1..Len(file)
    BY <1>1
  <2> QED
    BY <1>1, <2>1 DEF PrimariesBefore
<1>6. ReadingWarns(more, i) = ReadingWarns(file, i)
  BY <1>3, <1>5 DEF ReadingWarns
<1> QED
  BY <1>4, <1>6 DEF ReadAs, more

(* One record more is at most one entry more, at the end. *)
HandsOut(asked, file, record, entries) ==
  FlattenSeq(HandedOut(asked, Append(file, record))) =
    IF IsKept(asked, record)
    THEN Append(entries, ReadAs(Append(file, record), Len(file) + 1)) ELSE entries

LEMMA EntriesGrow ==
  ASSUME NEW asked, NEW file \in Seq(Record), NEW record \in Record,
         NamesTheFirst(file, PositionIn(file, Len(file)))
  PROVE  HandsOut(asked, file, record, FlattenSeq(HandedOut(asked, file)))
<1> DEFINE more == Append(file, record)
           n    == Len(file)
           S    == {ReadAs(more, i) : i \in 1..(n + 1)}
           old  == HandedOut(asked, file)
           new  == HandedOut(asked, more)
           last == IF IsKept(asked, record) THEN <<ReadAs(more, n + 1)>> ELSE << >>
<1>1. /\ n \in Nat /\ DOMAIN file = 1..n /\ DOMAIN more = 1..(n + 1)
      /\ \A i \in 1..n: more[i] = file[i]
      /\ more[n + 1] = record
  BY GrownFile
<1>2. \A i \in 1..n: ReadAs(more, i) = ReadAs(file, i)
  BY EntriesStay
<1> HIDE DEF more, n
<1>3. \A i \in 1..n: i \in 1..(n + 1)
  BY <1>1
<1>4. n + 1 \in 1..(n + 1)
  BY <1>1
<1>5. \A i \in 1..(n + 1): ReadAs(more, i) \in S
  OBVIOUS
<1>6. \A i \in 1..n: ReadAs(file, i) \in S
  BY <1>2, <1>3, <1>5
<1>7. ReadAs(more, n + 1) \in S
  BY <1>4, <1>5
<1> HIDE DEF S
<1>8. \A i \in 1..n: old[i] \in Seq(S)
  BY <1>1, <1>6 DEF HandedOut
<1>9. old \in Seq(Seq(S)) /\ Len(old) = n
  BY <1>1, <1>8 DEF HandedOut
<1>10. last \in Seq(S)
  BY <1>7
<1>11. DOMAIN new = 1..(n + 1) /\ new = [i \in DOMAIN new |-> new[i]]
  BY <1>1 DEF HandedOut
<1>12. \A i \in 1..n: new[i] = old[i]
  BY <1>1, <1>2, <1>3 DEF HandedOut
<1>13. new[n + 1] = last
  BY <1>1, <1>4 DEF HandedOut
<1> HIDE DEF old, new
<1>14. new = Append(old, last)
  <2> HIDE DEF last
  <2> QED
    BY <1>9, <1>10, <1>11, <1>12, <1>13, OneMore
<1>15. FlattenSeq(new) = FlattenSeq(old) \o last /\ FlattenSeq(old) \in Seq(S)
  <2> HIDE DEF last
  <2>1. FlattenSeq(Append(old, last)) = FlattenSeq(old) \o last
    BY <1>9, <1>10, FlattenAppend
  <2>2. FlattenSeq(old) \in Seq(S)
    BY <1>9, FlattenTyped
  <2> QED
    BY <1>14, <2>1, <2>2
<1> DEFINE entries == FlattenSeq(old)
<1>16. entries \in Seq(S) /\ FlattenSeq(new) = entries \o last
  BY <1>15
<1> HIDE DEF entries
<1>17. CASE IsKept(asked, record)
  <2>1. Append(entries, ReadAs(more, n + 1)) = entries \o <<ReadAs(more, n + 1)>>
    BY <1>7, <1>16, AppendIsConcat
  <2>2. last = <<ReadAs(more, n + 1)>>
    BY <1>17
  <2>3. FlattenSeq(new) = Append(entries, ReadAs(more, n + 1))
    BY <1>16, <2>1, <2>2
  <2> QED
    BY <1>17, <2>3 DEF HandsOut, new, old, more, n, entries
<1>18. CASE ~IsKept(asked, record)
  <2>1. last = << >>
    BY <1>18
  <2>2. FlattenSeq(new) = entries
    BY <1>16, <2>1, ConcatEmptySeq
  <2> QED
    BY <1>18, <2>2 DEF HandsOut, new, old, more, n, entries
<1> QED
  BY <1>17, <1>18

LEMMA NamesGrow ==
  ASSUME NEW file \in Seq(Record), NEW record \in Record, NEW n \in Nat, NEW m \in Nat, n <= m,
         NamesTheFirst(file, n),
         record.kind = "value_label" =>
           \A k \in DOMAIN record.indices: record.indices[k] \in Nat /\ record.indices[k] <= n
  PROVE  NamesTheFirst(Append(file, record), m)
<1> DEFINE more == Append(file, record)
<1>1. /\ Len(file) \in Nat /\ DOMAIN file = 1..Len(file) /\ DOMAIN more = 1..(Len(file) + 1)
      /\ \A i \in 1..Len(file): more[i] = file[i]
      /\ more[Len(file) + 1] = record
  BY GrownFile
<1> HIDE DEF more
<1>2. ASSUME NEW i \in DOMAIN more, more[i].kind = "value_label", NEW k \in DOMAIN more[i].indices
      PROVE  more[i].indices[k] \in Nat /\ more[i].indices[k] <= m
  <2>1. more[i].indices[k] \in Nat /\ more[i].indices[k] <= n
    <3>1. CASE i = Len(file) + 1
      BY <1>1, <1>2, <3>1
    <3>2. CASE i \in 1..Len(file)
      <4>1. more[i] = file[i] /\ i \in DOMAIN file
        BY <1>1, <3>2
      <4> QED
        BY <1>2, <4>1 DEF NamesTheFirst
    <3>3. i = Len(file) + 1 \/ i \in 1..Len(file)
      BY <1>1
    <3> QED
      BY <3>1, <3>2, <3>3
  <2> QED
    BY <2>1
<1> QED
  BY <1>2 DEF NamesTheFirst, more

(* A record that was read, when the buffer takes of it what the file says it is. *)
LEMMA ReadingKeepsBuffer ==
  ASSUME BufferedInv, primaries \in Seq(Nat), physical \in Nat, PrimariesAreBehind,
         NEW record \in Record, Read(record),
         physical' = IF record.kind = "variable" THEN physical + 1 ELSE physical,
         primaries' = IF IsPrimary(record) THEN Append(primaries, physical) ELSE primaries,
         record.kind = "value_label" =>
           \A k \in DOMAIN record.indices: record.indices[k] \in Nat /\ record.indices[k] <= physical,
         records' = IF IsKept(retention, record)
                    THEN Append(records, ReadAs(Append(scanned, record), Len(scanned) + 1))
                    ELSE records,
         warnings' = warnings
  PROVE  BufferedInv'
<1>1. /\ scanned \in Seq(Record) /\ scanned' = Append(scanned, record) /\ retention' = retention
      /\ PositionIn(scanned, Len(scanned)) = physical
      /\ Cardinality(PrimariesOf(scanned)) = Len(primaries)
      /\ \A k \in DOMAIN primaries: SegmentIn(scanned, primaries[k] + 1) = k - 1
      /\ NamesTheFirst(scanned, physical)
      /\ records = FlattenSeq(HandedOut(retention, scanned)) /\ warnings = HeaderWarnings
  BY DEF BufferedInv, BufferIsTheDictionary, Read
<1>2. /\ Len(scanned) \in Nat /\ scanned' \in Seq(Record) /\ Len(scanned') = Len(scanned) + 1
  BY <1>1, GrownFile
<1>3. PositionIn(scanned', Len(scanned')) = physical'
  BY <1>1, <1>2, LastPosition
<1>4. NamesTheFirst(scanned', physical')
  <2>1. physical' \in Nat /\ physical <= physical'
    OBVIOUS
  <2> QED
    BY <1>1, <2>1, NamesGrow
<1>5. \A index \in Nat: index <= physical => SegmentIn(scanned', index) = SegmentIn(scanned, index)
  BY <1>1, SegmentsStay
<1>6. \A k \in DOMAIN primaries: SegmentIn(scanned', primaries[k] + 1) = k - 1
  <2> SUFFICES ASSUME NEW k \in DOMAIN primaries
               PROVE  SegmentIn(scanned', primaries[k] + 1) = k - 1
    OBVIOUS
  <2>1. primaries[k] + 1 \in Nat /\ primaries[k] + 1 <= physical
    BY DEF PrimariesAreBehind
  <2> QED
    BY <1>1, <1>5, <2>1
<1>7. /\ Cardinality(PrimariesOf(scanned')) = Len(primaries')
      /\ \A k \in DOMAIN primaries': SegmentIn(scanned', primaries'[k] + 1) = k - 1
  <2>1. CASE IsPrimary(record)
    <3>1. /\ SegmentIn(scanned', physical + 1) = Len(primaries)
          /\ Cardinality(PrimariesOf(scanned')) = Len(primaries) + 1
      BY <1>1, <2>1, SegmentOpened
    <3>2. /\ primaries' = Append(primaries, physical)
          /\ Len(primaries) \in Nat /\ DOMAIN primaries = 1..Len(primaries)
          /\ Len(primaries') = Len(primaries) + 1 /\ DOMAIN primaries' = 1..(Len(primaries) + 1)
          /\ \A k \in 1..Len(primaries): primaries'[k] = primaries[k]
          /\ primaries'[Len(primaries) + 1] = physical
      BY <2>1
    <3>3. ASSUME NEW k \in DOMAIN primaries' PROVE SegmentIn(scanned', primaries'[k] + 1) = k - 1
      <4>1. CASE k = Len(primaries) + 1
        BY <3>1, <3>2, <4>1
      <4>2. CASE k \in 1..Len(primaries)
        BY <1>6, <3>2, <4>2
      <4>3. k = Len(primaries) + 1 \/ k \in 1..Len(primaries)
        BY <3>2
      <4> QED
        BY <4>1, <4>2, <4>3
    <3> QED
      BY <3>1, <3>2, <3>3
  <2>2. CASE ~IsPrimary(record)
    <3>1. PrimariesOf(scanned') = PrimariesOf(scanned) /\ primaries' = primaries
      BY <1>1, <2>2, PrimariesStay
    <3> QED
      BY <1>1, <1>6, <3>1
  <2> QED
    BY <2>1, <2>2
<1>8. records' = FlattenSeq(HandedOut(retention, scanned')) /\ warnings' = HeaderWarnings
  <2>1. HandsOut(retention, scanned, record, records)
    BY <1>1, EntriesGrow
  <2> QED
    BY <1>1, <2>1 DEF HandsOut
<1>9. BufferIsTheDictionary'
  BY <1>1, <1>8 DEF BufferIsTheDictionary
<1> QED
  BY <1>2, <1>3, <1>4, <1>7, <1>9 DEF BufferedInv

LEMMA BufferedStays ==
  ASSUME BufferedInv, UNCHANGED <<retention, physical, primaries, records, warnings, scanned>>
  PROVE  BufferedInv'
BY DEF BufferedInv, BufferIsTheDictionary

(* The primaries before the last record are those of the file without it. *)
LEMMA BeforeTheLast ==
  ASSUME NEW file \in Seq(Record), NEW record \in Record
  PROVE  PrimariesBefore(Append(file, record), Len(file) + 1) = PrimariesOf(file)
<1> DEFINE more == Append(file, record)
           n    == Len(file)
<1>1. n \in Nat /\ DOMAIN file = 1..n /\ \A i \in 1..n: more[i] = file[i]
  BY GrownFile
<1> HIDE DEF more, n
<1>2. 1..(n + 1) - 1 = 1..n
  BY <1>1
<1> QED
  BY <1>1, <1>2 DEF PrimariesBefore, PrimariesOf, more, n

LEMMA PrimaryKeepsBuffer ==
  ASSUME PositionInv, BufferedInv, NEW record \in VariableRecord, ReadPrimary(record)
  PROVE  BufferedInv'
<1>1. /\ primaries \in Seq(Nat) /\ physical \in Nat /\ PrimariesAreBehind
      /\ Len(variables) = Len(primaries)
  BY DEF PositionInv, CountersTypeOK, PositionsAreOffsets
<1>2. /\ record \in Record /\ record.kind = "variable" /\ Read(record)
      /\ record.type \in Numeric..StringTypeMax
      /\ physical' = physical + 1 /\ primaries' = Append(primaries, physical)
      /\ records' = Append(records, [payload |-> record, warnings |-> MissingCountWarning(record)])
      /\ warnings' = warnings
  BY DEF ReadPrimary, Buffer, Record, VariableRecord
<1>3. IsPrimary(record)
  <2>1. \A type \in Numeric..StringTypeMax: type # Continuation
    BY DEF Numeric, StringTypeMax, Continuation
  <2>2. record.type # Continuation
    BY <1>2, <2>1
  <2> QED
    BY <1>2, <2>2 DEF IsPrimary
<1>4. scanned \in Seq(Record) /\ Cardinality(PrimariesOf(scanned)) = Len(variables)
  BY <1>1 DEF BufferedInv
<1>5. Append(scanned, record)[Len(scanned) + 1] = record
  BY <1>2, <1>4, GrownFile
<1>6. HandedOutAs(Append(scanned, record), Len(scanned) + 1) = record
  BY <1>2, <1>5 DEF HandedOutAs
<1>7. Cardinality(PrimariesBefore(Append(scanned, record), Len(scanned) + 1)) = Len(variables)
  BY <1>2, <1>4, BeforeTheLast
<1>8. ReadingWarns(Append(scanned, record), Len(scanned) + 1) = MissingCountWarning(record)
  BY <1>2, <1>5, <1>7 DEF ReadingWarns, MissingCountWarning
<1>9. ReadAs(Append(scanned, record), Len(scanned) + 1)
        = [payload |-> record, warnings |-> MissingCountWarning(record)]
  BY <1>6, <1>8 DEF ReadAs
<1>10. IsKept(retention, record)
  BY <1>3 DEF IsKept
<1>11. record.kind # "value_label"
  BY <1>2
<1> QED
  BY <1>1, <1>2, <1>3, <1>9, <1>10, <1>11, ReadingKeepsBuffer

LEMMA ContinuationKeepsBuffer ==
  ASSUME PositionInv, BufferedInv, NEW record \in VariableRecord, ReadContinuation(record)
  PROVE  BufferedInv'
<1>1. primaries \in Seq(Nat) /\ physical \in Nat /\ PrimariesAreBehind
  BY DEF PositionInv, CountersTypeOK
<1>2. /\ record \in Record /\ record.kind = "variable" /\ Read(record) /\ record.type = Continuation
      /\ physical' = physical + 1 /\ UNCHANGED <<primaries, records, warnings>>
  BY DEF ReadContinuation, Record, VariableRecord
<1>3. ~IsPrimary(record) /\ ~IsKept(retention, record)
  BY <1>2 DEF IsPrimary, IsKept
<1>4. record.kind # "value_label"
  BY <1>2
<1> QED
  BY <1>1, <1>2, <1>3, <1>4, ReadingKeepsBuffer

(* Every warning the walk can hold while it reads a record it does not keep. *)
Droppable == [warning: HeaderNames \cup {"DuplicateValueLabelKey", "EmptyValueLabelVariables"}]

(* A record's warnings are truncated away to what was there before it. *)
LEMMA DroppingRestores ==
  ASSUME warnings = HeaderWarnings, NEW raised \in Seq(Droppable), Drop(raised)
  PROVE  warnings' = warnings /\ records' = records
<1>1. warnings \in Seq(Droppable)
  <2> DEFINE Warns == [warning: HeaderNames]
  <2>1. \A w \in Warns: w \in Droppable
    BY DEF Droppable
  <2>2. warnings \in Seq(Warns)
    BY HeaderWarningsAssumption
  <2> HIDE DEF Warns
  <2> QED
    BY <2>1, <2>2
<1>2. SubSeq(warnings \o raised, 1, Len(warnings)) = warnings
  BY <1>1, FrontSlice
<1> QED
  BY <1>2 DEF Drop

(* Each index names the segment whose primary the binary search finds. *)
LEMMA NamesResolve ==
  ASSUME BufferedInv, primaries \in Seq(Nat), physical \in Nat, PrimariesAreBehind,
         NEW index \in Nat, ~Dangles(index)
  PROVE  index <= physical /\ SegmentIn(scanned, index) = SegmentNamed(index)
<1>1. PICK i \in SegmentsAt(index - 1): SegmentNamed(index) = i - 1
  BY DEF Dangles, SegmentNamed
<1>2. i \in DOMAIN primaries /\ primaries[i] = index - 1
  BY <1>1 DEF SegmentsAt
<1>3. primaries[i] \in Nat /\ primaries[i] < physical /\ primaries[i] + 1 = index
  BY <1>2 DEF PrimariesAreBehind
<1>4. SegmentIn(scanned, primaries[i] + 1) = i - 1
  BY <1>2 DEF BufferedInv
<1> QED
  BY <1>1, <1>3, <1>4

LEMMA ValueLabelsKeepBuffer ==
  ASSUME PositionInv, BufferedInv, NEW record \in ValueLabels, ReadValueLabels(record)
  PROVE  BufferedInv'
<1> DEFINE more == Append(scanned, record)
           n    == Len(scanned)
<1>1. primaries \in Seq(Nat) /\ physical \in Nat /\ PrimariesAreBehind
  BY DEF PositionInv, CountersTypeOK
<1>2. /\ record \in Record /\ record.kind = "value_label" /\ Read(record)
      /\ record.indices \in Seq(Nat)
      /\ \A k \in DOMAIN record.indices: ~Dangles(record.indices[k])
      /\ UNCHANGED <<physical, primaries>>
  BY IndexListsAssumption DEF ReadValueLabels, Record, ValueLabels
<1>3. ~IsPrimary(record) /\ (IsKept(retention, record) <=> KeepsRecords)
  BY <1>2 DEF IsPrimary, IsKept, KeepsRecords
<1>4. \A k \in DOMAIN record.indices:
        /\ record.indices[k] \in Nat /\ record.indices[k] <= physical
        /\ SegmentIn(scanned, record.indices[k]) = SegmentNamed(record.indices[k])
  <2>1. \A k \in DOMAIN record.indices: record.indices[k] \in Nat
    BY <1>2
  <2> QED
    BY <1>1, <1>2, <2>1, NamesResolve
<1>5. /\ scanned \in Seq(Record) /\ PositionIn(scanned, n) = physical /\ warnings = HeaderWarnings
  BY DEF BufferedInv, BufferIsTheDictionary
<1>6. more[n + 1] = record
  BY <1>2, <1>5, GrownFile
<1>7. CASE KeepsRecords
  <2>1. /\ records' = Append(records, [payload |-> [kind |-> "value_label",
                                                    segments |-> SegmentsNamed(record.indices)],
                                       warnings |-> ValueLabelWarnings(record)])
        /\ warnings' = warnings
    BY <1>7 DEF ReadValueLabels, Buffer
  <2>2. \A k \in DOMAIN record.indices:
          SegmentIn(more, record.indices[k]) = SegmentNamed(record.indices[k])
    <3>1. \A index \in Nat: index <= physical => SegmentIn(more, index) = SegmentIn(scanned, index)
      BY <1>2, <1>5, SegmentsStay
    <3> HIDE DEF more
    <3> QED
      BY <1>4, <3>1
  <2> HIDE DEF more, n
  <2>3. [k \in DOMAIN record.indices |-> SegmentIn(more, record.indices[k])] = SegmentsNamed(record.indices)
    BY <2>2 DEF SegmentsNamed
  <2>4. HandedOutAs(more, n + 1) = [kind |-> "value_label", segments |-> SegmentsNamed(record.indices)]
    BY <1>2, <1>6, <2>3 DEF HandedOutAs
  <2>5. ReadingWarns(more, n + 1) = ValueLabelWarnings(record)
    <3>1. (record.duplicate /\ KeepsRecords) <=> record.duplicate
      BY <1>7
    <3> QED
      BY <1>2, <1>6, <3>1, Zenon DEF ReadingWarns, ValueLabelWarnings
  <2>6. records' = Append(records, ReadAs(more, n + 1))
    BY <2>1, <2>4, <2>5 DEF ReadAs
  <2> QED
    BY <1>1, <1>2, <1>3, <1>4, <1>7, <2>1, <2>6, ReadingKeepsBuffer DEF more, n
<1>8. CASE ~KeepsRecords
  <2>1. Drop(ValueLabelWarnings(record))
    BY <1>8 DEF ReadValueLabels
  <2>2. ValueLabelWarnings(record) \in Seq(Droppable)
    <3> DEFINE none  == << >>
               empty == <<[warning |-> "EmptyValueLabelVariables"]>>
    <3>1. none \in Seq(Droppable) /\ empty \in Seq(Droppable)
      BY DEF Droppable
    <3>2. ValueLabelWarnings(record) = none \o (IF record.indices = << >> THEN empty ELSE none)
      BY <1>8 DEF ValueLabelWarnings
    <3> HIDE DEF none, empty
    <3> QED
      BY <3>1, <3>2
  <2>3. warnings' = warnings /\ records' = records
    BY <1>5, <2>1, <2>2, DroppingRestores
  <2> QED
    BY <1>1, <1>2, <1>3, <1>4, <1>8, <2>3, ReadingKeepsBuffer
<1> QED
  BY <1>7, <1>8

(* A document or an extension record is handed out as it came, or not at all. *)
LEMMA OthersKeepBuffer ==
  ASSUME PositionInv, BufferedInv, NEW record \in Document \cup ExtensionRecord,
         ReadDocument(record) \/ ReadExtension(record)
  PROVE  BufferedInv'
<1>1. primaries \in Seq(Nat) /\ physical \in Nat /\ PrimariesAreBehind
  BY DEF PositionInv, CountersTypeOK
<1>2. /\ record \in Record /\ record.kind # "variable" /\ record.kind # "value_label" /\ Read(record)
      /\ UNCHANGED <<physical, primaries>>
  BY DEF ReadDocument, ReadExtension, Record, Document, ExtensionRecord
<1>3. ~IsPrimary(record) /\ (IsKept(retention, record) <=> KeepsRecords)
  BY <1>2 DEF IsPrimary, IsKept, KeepsRecords
<1>4. scanned \in Seq(Record) /\ warnings = HeaderWarnings
  BY DEF BufferedInv, BufferIsTheDictionary
<1>5. Append(scanned, record)[Len(scanned) + 1] = record
  BY <1>2, <1>4, GrownFile
<1>6. ReadAs(Append(scanned, record), Len(scanned) + 1) = [payload |-> record, warnings |-> << >>]
  BY <1>2, <1>5 DEF ReadAs, HandedOutAs, ReadingWarns
<1>7. IF KeepsRecords THEN Buffer(record, << >>) ELSE Drop(<< >>)
  BY DEF ReadDocument, ReadExtension
<1>8. CASE KeepsRecords
  <2>1. records' = Append(records, [payload |-> record, warnings |-> << >>]) /\ warnings' = warnings
    BY <1>7, <1>8 DEF Buffer
  <2> QED
    BY <1>1, <1>2, <1>3, <1>6, <1>8, <2>1, ReadingKeepsBuffer
<1>9. CASE ~KeepsRecords
  <2>1. << >> \in Seq(Droppable) /\ Drop(<< >>)
    BY <1>7, <1>9
  <2>2. warnings' = warnings /\ records' = records
    BY <1>4, <2>1, DroppingRestores
  <2> QED
    BY <1>1, <1>2, <1>3, <1>9, <2>2, ReadingKeepsBuffer
<1> QED
  BY <1>8, <1>9

LEMMA StepKeepsBuffer == PositionInv /\ BufferedInv /\ [ScanNext]_scanVars => BufferedInv'
<1> SUFFICES ASSUME PositionInv, BufferedInv, [ScanNext]_scanVars PROVE BufferedInv'
  OBVIOUS
<1>1. ASSUME NEW record \in VariableRecord, ReadPrimary(record) \/ ReadContinuation(record)
      PROVE  BufferedInv'
  BY <1>1, PrimaryKeepsBuffer, ContinuationKeepsBuffer
<1>2. ASSUME NEW record \in ValueLabels, ReadValueLabels(record)
      PROVE  BufferedInv'
  BY <1>2, ValueLabelsKeepBuffer
<1>3. ASSUME NEW record \in Document \cup ExtensionRecord, ReadDocument(record) \/ ReadExtension(record)
      PROVE  BufferedInv'
  BY <1>3, OthersKeepBuffer
<1>4. ASSUME NEW kind, Stop(kind)
      PROVE  BufferedInv'
  BY <1>4, BufferedStays DEF Stop
<1>5. ASSUME NEW record \in VariableRecord, VariableFails(record)
      PROVE  BufferedInv'
  BY <1>4, <1>5 DEF VariableFails
<1>6. ASSUME NEW record \in ValueLabels, ValueLabelsDangle(record)
      PROVE  BufferedInv'
  BY <1>4, <1>6 DEF ValueLabelsDangle
<1>7. CASE ReadTerminator \/ RunCutShort \/ Unpaired \/ UnknownRecordType \/ ReadFails
  BY <1>4, <1>7 DEF ReadTerminator, RunCutShort, Unpaired, UnknownRecordType, ReadFails
<1>8. CASE UNCHANGED scanVars
  BY <1>8, BufferedStays DEF scanVars
<1> QED
  BY <1>1, <1>2, <1>3, <1>5, <1>6, <1>7, <1>8 DEF ScanNext

LEMMA InitBuffer == ScanInit => BufferedInv
<1> SUFFICES ASSUME ScanInit PROVE BufferedInv
  OBVIOUS
<1>1. /\ scanned = << >> /\ primaries = << >> /\ records = << >> /\ physical = 0
      /\ warnings = HeaderWarnings
  BY DEF ScanInit
<1>2. PrimariesOf(scanned) = {} /\ HandedOut(retention, scanned) = << >>
  BY <1>1 DEF PrimariesOf, HandedOut
<1>3. Cardinality(PrimariesOf(scanned)) = Len(primaries)
  BY <1>1, <1>2, FS_EmptySet
<1>4. PositionIn(scanned, Len(scanned)) = physical
  <2>1. {i \in 1..Len(scanned): scanned[i].kind = "variable"} = {}
    BY <1>1
  <2> QED
    BY <1>1, <2>1, FS_EmptySet DEF PositionIn
<1>5. BufferIsTheDictionary
  BY <1>1, <1>2, FlattenEmpty DEF BufferIsTheDictionary
<1>6. scanned \in Seq(Record) /\ NamesTheFirst(scanned, physical) /\ DOMAIN primaries = {}
  BY <1>1 DEF NamesTheFirst
<1> QED
  BY <1>3, <1>4, <1>5, <1>6 DEF BufferedInv

(* Whatever the file holds and the caller asked for, what is handed out is the file's        *)
(* records in its order, each value-label set with the segments its own indices name, even    *)
(* when variables follow it, each record with the warnings its own reading raised, and the    *)
(* reader's own warnings are the header's (Scan::run, normalize_value_label_variable_indices). *)
THEOREM ScanBufferIsTheDictionary == ScanSpec => []BufferIsTheDictionary
<1>1. BufferedInv => BufferIsTheDictionary
  BY DEF BufferedInv
<1> QED
  BY <1>1, InitPositionInv, StepPositionInv, InitBuffer, StepKeepsBuffer, PTL DEF ScanSpec

-----------------------------------------------------------------------------------
(* What accumulate takes of a sequence of payloads *)

LEMMA AccumulateTyped ==
  ASSUME NEW T, NEW p \in T
  PROVE  Accumulate(p) \in Seq(T)
BY DEF Accumulate

LEMMA AccumulatedTyped ==
  ASSUME NEW T, NEW ps \in Seq(T)
  PROVE  /\ [i \in DOMAIN ps |-> Accumulate(ps[i])] \in Seq(Seq(T))
         /\ Len([i \in DOMAIN ps |-> Accumulate(ps[i])]) = Len(ps)
         /\ Accumulated(ps) \in Seq(T)
<1> DEFINE parts == [i \in DOMAIN ps |-> Accumulate(ps[i])]
<1>1. Len(ps) \in Nat /\ DOMAIN ps = 1..Len(ps)
  OBVIOUS
<1>2. \A i \in 1..Len(ps): Accumulate(ps[i]) \in Seq(T)
  BY AccumulateTyped
<1>3. parts \in Seq(Seq(T)) /\ Len(parts) = Len(ps)
  BY <1>1, <1>2
<1> HIDE DEF parts
<1>4. FlattenSeq(parts) \in Seq(T)
  BY <1>3, FlattenTyped
<1> QED
  BY <1>3, <1>4 DEF parts, Accumulated

LEMMA AccumulatedAppend ==
  ASSUME NEW T, NEW ps \in Seq(T), NEW p \in T
  PROVE  Accumulated(Append(ps, p)) = Accumulated(ps) \o Accumulate(p)
<1> DEFINE more == Append(ps, p)
           old  == [i \in DOMAIN ps |-> Accumulate(ps[i])]
           new  == [i \in DOMAIN more |-> Accumulate(more[i])]
           last == Accumulate(p)
<1>1. old \in Seq(Seq(T)) /\ Len(old) = Len(ps) /\ last \in Seq(T)
  BY AccumulatedTyped, AccumulateTyped
<1>2. /\ Len(ps) \in Nat /\ DOMAIN ps = 1..Len(ps) /\ DOMAIN more = 1..(Len(ps) + 1)
      /\ \A i \in 1..Len(ps): more[i] = ps[i]
      /\ more[Len(ps) + 1] = p
  BY AppendFacts
<1> HIDE DEF more
<1>3. DOMAIN new = 1..(Len(ps) + 1) /\ new = [i \in DOMAIN new |-> new[i]]
  BY <1>2
<1>4. \A i \in 1..Len(ps): new[i] = old[i]
  BY <1>2
<1>5. new[Len(ps) + 1] = last
  BY <1>2
<1>6. Accumulated(ps) = FlattenSeq(old) /\ Accumulated(more) = FlattenSeq(new)
  BY DEF Accumulated
<1> HIDE DEF old, new, last
<1>7. new = Append(old, last)
  BY <1>1, <1>3, <1>4, <1>5, OneMore
<1>8. FlattenSeq(new) = FlattenSeq(old) \o last
  BY <1>1, <1>7, FlattenAppend
<1> QED
  BY <1>6, <1>8 DEF more, last

LEMMA AccumulatedConcat ==
  ASSUME NEW T, NEW ps \in Seq(T), NEW qs \in Seq(T)
  PROVE  Accumulated(ps \o qs) = Accumulated(ps) \o Accumulated(qs)
<1> DEFINE all == ps \o qs
           a   == [i \in DOMAIN ps |-> Accumulate(ps[i])]
           b   == [i \in DOMAIN qs |-> Accumulate(qs[i])]
           new == [i \in DOMAIN all |-> Accumulate(all[i])]
<1>1. a \in Seq(Seq(T)) /\ Len(a) = Len(ps)
  BY AccumulatedTyped
<1>2. b \in Seq(Seq(T)) /\ Len(b) = Len(qs)
  BY AccumulatedTyped
<1>3. /\ Len(ps) \in Nat /\ DOMAIN ps = 1..Len(ps)
      /\ Len(qs) \in Nat /\ DOMAIN qs = 1..Len(qs)
  OBVIOUS
<1>4. /\ all \in Seq(T) /\ Len(all) = Len(ps) + Len(qs)
      /\ \A i \in 1..(Len(ps) + Len(qs)): all[i] = IF i <= Len(ps) THEN ps[i] ELSE qs[i - Len(ps)]
  BY <1>3, ConcatProperties
<1> HIDE DEF all
<1>5. DOMAIN all = 1..(Len(ps) + Len(qs))
  BY <1>4
<1>6. DOMAIN new = 1..(Len(ps) + Len(qs)) /\ new = [i \in DOMAIN new |-> new[i]]
  BY <1>5
<1>7. \A i \in 1..Len(ps): new[i] = a[i]
  <2> SUFFICES ASSUME NEW i \in 1..Len(ps) PROVE new[i] = a[i]
    OBVIOUS
  <2>1. i \in 1..(Len(ps) + Len(qs)) /\ i <= Len(ps)
    BY <1>3
  <2> QED
    BY <1>3, <1>4, <1>5, <2>1
<1>8. \A i \in 1..Len(qs): new[Len(ps) + i] = b[i]
  <2> SUFFICES ASSUME NEW i \in 1..Len(qs) PROVE new[Len(ps) + i] = b[i]
    OBVIOUS
  <2> DEFINE k == Len(ps) + i
  <2>1. k \in 1..(Len(ps) + Len(qs)) /\ ~(k <= Len(ps)) /\ k - Len(ps) = i
    BY <1>3
  <2> HIDE DEF k
  <2>2. all[k] = qs[i]
    BY <1>4, <2>1
  <2>3. new[k] = b[i]
    BY <1>3, <1>5, <2>1, <2>2
  <2> QED
    BY <2>3 DEF k
<1>9. Accumulated(ps) = FlattenSeq(a) /\ Accumulated(qs) = FlattenSeq(b) /\ Accumulated(all) = FlattenSeq(new)
  BY DEF Accumulated
<1> HIDE DEF a, b, new
<1>10. new = a \o b
  <2>1. DOMAIN new = 1..(Len(a) + Len(b))
    BY <1>1, <1>2, <1>6
  <2>2. \A i \in 1..Len(a): new[i] = a[i]
    BY <1>1, <1>7
  <2>3. \A i \in 1..Len(b): new[Len(a) + i] = b[i]
    BY <1>1, <1>2, <1>8
  <2> QED
    BY <1>1, <1>2, <1>6, <2>1, <2>2, <2>3, IsConcat
<1>11. FlattenSeq(new) = FlattenSeq(a) \o FlattenSeq(b)
  BY <1>1, <1>2, <1>10, FlattenConcat
<1> QED
  BY <1>9, <1>11 DEF all

-----------------------------------------------------------------------------------
(* What the buffer holds *)

Payload ==
  VariableRecord \cup Document \cup ExtensionRecord \cup [kind: {"value_label"}, segments: Seq(Int)]

(* The warnings the walk raises. *)
Raised == {"InvalidMissingValueCount", "DuplicateValueLabelKey", "EmptyValueLabelVariables"}
Warning == [warning: Raised] \cup [warning: Raised, of: Nat]

(* Payloads that name no segment but the first n, and records of such payloads. *)
Fitting(n) ==
  {p \in Payload: p.kind = "value_label" => \A k \in DOMAIN p.segments: p.segments[k] < n}
Entry(n) == [payload: Fitting(n), warnings: Seq(Warning)]

BufferInv ==
  /\ records \in Seq(Entry(Len(variables)))
  /\ TypesIn(Accumulated(Payloads)) = variables

LEMMA PayloadKinds ==
  ASSUME NEW p \in Payload
  PROVE  /\ p.kind = "variable" => p.type \in Int
         /\ p.kind = "value_label" => p.segments \in Seq(Int)
<1>1. CASE p \in VariableRecord
  BY <1>1, VariableTypesAssumption DEF VariableRecord
<1>2. CASE p \in Document
  BY <1>2 DEF Document
<1>3. CASE p \in ExtensionRecord
  BY <1>3 DEF ExtensionRecord
<1>4. CASE p \in [kind: {"value_label"}, segments: Seq(Int)]
  BY <1>4
<1> QED
  BY <1>1, <1>2, <1>3, <1>4 DEF Payload

LEMMA TypesInAppend ==
  ASSUME NEW ps \in Seq(Payload), NEW p \in Payload
  PROVE  TypesIn(Append(ps, p)) = TypesIn(ps) \o TypeOfVariable(p)
<1> DEFINE more == Append(ps, p)
           old  == [i \in DOMAIN ps |-> TypeOfVariable(ps[i])]
           new  == [i \in DOMAIN more |-> TypeOfVariable(more[i])]
           last == TypeOfVariable(p)
<1>1. ASSUME NEW q \in Payload PROVE TypeOfVariable(q) \in Seq(Int)
  BY PayloadKinds DEF TypeOfVariable
<1>2. /\ Len(ps) \in Nat /\ DOMAIN ps = 1..Len(ps) /\ DOMAIN more = 1..(Len(ps) + 1)
      /\ \A i \in 1..Len(ps): more[i] = ps[i] /\ ps[i] \in Payload
      /\ more[Len(ps) + 1] = p
  BY AppendFacts
<1> HIDE DEF more
<1>3. old \in Seq(Seq(Int)) /\ Len(old) = Len(ps) /\ last \in Seq(Int)
  BY <1>1, <1>2
<1>4. DOMAIN new = 1..(Len(ps) + 1) /\ new = [i \in DOMAIN new |-> new[i]]
  BY <1>2
<1>5. \A i \in 1..Len(ps): new[i] = old[i]
  BY <1>2
<1>6. new[Len(ps) + 1] = last
  BY <1>2
<1>7. TypesIn(ps) = FlattenSeq(old) /\ TypesIn(more) = FlattenSeq(new)
  BY DEF TypesIn
<1> HIDE DEF old, new, last
<1>8. new = Append(old, last)
  BY <1>3, <1>4, <1>5, <1>6, OneMore
<1>9. FlattenSeq(new) = FlattenSeq(old) \o last
  BY <1>3, <1>8, FlattenAppend
<1> QED
  BY <1>7, <1>9 DEF more, last

LEMMA FittingGrows ==
  ASSUME NEW n \in Nat, NEW m \in Nat, n <= m
  PROVE  Fitting(n) \subseteq Fitting(m)
<1> SUFFICES ASSUME NEW p \in Fitting(n) PROVE p \in Fitting(m)
  OBVIOUS
<1>1. p \in Payload
  BY DEF Fitting
<1>2. ASSUME p.kind = "value_label", NEW k \in DOMAIN p.segments PROVE p.segments[k] < m
  <2>1. p.segments[k] \in Int /\ p.segments[k] < n
    BY <1>1, <1>2, PayloadKinds DEF Fitting
  <2> QED
    BY <2>1
<1> QED
  BY <1>1, <1>2 DEF Fitting

LEMMA PayloadsTyped ==
  ASSUME NEW n, records \in Seq(Entry(n))
  PROVE  /\ Payloads \in Seq(Fitting(n)) /\ Len(Payloads) = Len(records) /\ Len(records) \in Nat
         /\ Payloads \in Seq(Payload)
         /\ Accumulated(Payloads) \in Seq(Fitting(n))
<1>1. Len(records) \in Nat /\ DOMAIN records = 1..Len(records)
  OBVIOUS
<1>2. \A i \in 1..Len(records): records[i].payload \in Fitting(n) /\ records[i].payload \in Payload
  <2>1. \A i \in 1..Len(records): records[i] \in Entry(n)
    BY <1>1
  <2>2. \A i \in 1..Len(records): records[i].payload \in Fitting(n)
    BY <2>1 DEF Entry
  <2> QED
    BY <2>2 DEF Fitting
<1>3. Payloads \in Seq(Fitting(n)) /\ Len(Payloads) = Len(records)
  BY <1>1, <1>2 DEF Payloads
<1>4. Payloads \in Seq(Payload)
  BY <1>1, <1>2 DEF Payloads
<1>5. Accumulated(Payloads) \in Seq(Fitting(n))
  BY <1>3, AccumulatedTyped
<1> QED
  BY <1>1, <1>3, <1>4, <1>5

(* A record that is kept is the last one, and the schema's if it draws on it. *)
LEMMA BufferingOne ==
  ASSUME NEW n \in Nat, NEW m \in Nat, n <= m, records \in Seq(Entry(n)),
         NEW p \in Fitting(m), NEW raised \in Seq(Warning),
         records' = Append(records, [payload |-> p, warnings |-> raised])
  PROVE  /\ records' \in Seq(Entry(m))
         /\ Payloads' = Append(Payloads, p)
         /\ TypesIn(Accumulated(Payloads')) = TypesIn(Accumulated(Payloads)) \o TypeOfVariable(p)
<1> DEFINE e == [payload |-> p, warnings |-> raised]
<1>1. records \in Seq(Entry(m))
  <2>1. Entry(n) \subseteq Entry(m)
    BY FittingGrows DEF Entry
  <2> QED
    BY <2>1
<1>2. e \in Entry(m) /\ e.payload = p
  BY DEF Entry
<1> HIDE DEF e
<1>3. records' = Append(records, e)
  BY DEF e
<1>4. /\ Len(records) \in Nat /\ DOMAIN records = 1..Len(records)
      /\ DOMAIN Append(records, e) = 1..(Len(records) + 1)
      /\ \A i \in 1..Len(records): Append(records, e)[i] = records[i]
      /\ Append(records, e)[Len(records) + 1] = e
  BY <1>1, <1>2, AppendFacts
<1>5. records' \in Seq(Entry(m))
  BY <1>1, <1>2, <1>3
<1>6. /\ Payloads \in Seq(Fitting(m)) /\ Len(Payloads) = Len(records) /\ Payloads \in Seq(Payload)
      /\ Accumulated(Payloads) \in Seq(Fitting(m))
  BY <1>1, PayloadsTyped
<1> DEFINE old == Payloads
           new == Payloads'
<1>7. DOMAIN new = 1..(Len(records) + 1) /\ new = [i \in DOMAIN new |-> new[i]]
  BY <1>3, <1>4 DEF Payloads
<1>8. \A i \in 1..Len(records): new[i] = old[i]
  BY <1>3, <1>4 DEF Payloads
<1>9. new[Len(records) + 1] = p
  BY <1>2, <1>3, <1>4 DEF Payloads
<1> HIDE DEF old, new
<1>10. old \in Seq(Fitting(m)) /\ Len(old) = Len(records)
  BY <1>6 DEF old
<1>11. new = Append(old, p)
  BY <1>7, <1>8, <1>9, <1>10, OneMore
<1>12. Accumulated(Append(old, p)) = Accumulated(old) \o Accumulate(p)
  BY <1>10, AccumulatedAppend
<1>13. TypesIn(Accumulated(new)) = TypesIn(Accumulated(old)) \o TypeOfVariable(p)
  <2> DEFINE acc == Accumulated(old)
  <2>1. acc \in Seq(Payload) /\ p \in Payload
    <3>1. Fitting(m) \subseteq Payload
      BY DEF Fitting
    <3>2. Accumulated(old) \in Seq(Fitting(m))
      BY <1>10, AccumulatedTyped
    <3> QED
      BY <3>1, <3>2
  <2> HIDE DEF acc
  <2>2. CASE Accumulates(p)
    <3>1. acc \o Accumulate(p) = Append(acc, p)
      BY <2>1, <2>2, AppendIsConcat DEF Accumulate
    <3>2. TypesIn(Append(acc, p)) = TypesIn(acc) \o TypeOfVariable(p)
      BY <2>1, TypesInAppend
    <3> QED
      BY <1>11, <1>12, <3>1, <3>2 DEF acc
  <2>3. CASE ~Accumulates(p)
    <3>1. acc \o Accumulate(p) = acc
      BY <2>1, <2>3, ConcatEmptySeq DEF Accumulate
    <3>2. TypeOfVariable(p) = << >>
      BY <2>3 DEF Accumulates, TypeOfVariable
    <3>3. TypesIn(acc) \in Seq(Int)
      <4>1. ASSUME NEW q \in Payload PROVE TypeOfVariable(q) \in Seq(Int)
        BY PayloadKinds DEF TypeOfVariable
      <4> DEFINE parts == [i \in DOMAIN acc |-> TypeOfVariable(acc[i])]
      <4>2. parts \in Seq(Seq(Int))
        <5>1. Len(acc) \in Nat /\ DOMAIN acc = 1..Len(acc) /\ \A i \in 1..Len(acc): acc[i] \in Payload
          BY <2>1
        <5>2. \A i \in 1..Len(acc): TypeOfVariable(acc[i]) \in Seq(Int)
          BY <4>1, <5>1
        <5> QED
          BY <5>1, <5>2
      <4> HIDE DEF parts
      <4>3. FlattenSeq(parts) \in Seq(Int)
        BY <4>2, FlattenTyped
      <4> QED
        BY <4>3 DEF parts, TypesIn
    <3>4. TypesIn(acc) \o << >> = TypesIn(acc)
      BY <3>3, ConcatEmptySeq
    <3> QED
      BY <1>11, <1>12, <3>1, <3>2, <3>4 DEF acc
  <2> QED
    BY <2>2, <2>3
<1> QED
  BY <1>5, <1>11, <1>13 DEF old, new

LEMMA WarningsTyped ==
  /\ \A name \in Raised: [warning |-> name] \in Warning
  /\ \A name \in Raised, n \in Nat: [warning |-> name, of |-> n] \in Warning
<1>1. \A name \in Raised: [warning |-> name] \in [warning: Raised]
  OBVIOUS
<1>2. \A name \in Raised, n \in Nat: [warning |-> name, of |-> n] \in [warning: Raised, of: Nat]
  OBVIOUS
<1> QED
  BY <1>1, <1>2 DEF Warning

LEMMA OneWarning ==
  ASSUME NEW w \in Warning
  PROVE  <<w>> \in Seq(Warning)
OBVIOUS

LEMMA BufferStays ==
  ASSUME BufferInv, UNCHANGED <<records, variables>>
  PROVE  BufferInv'
<1>1. Payloads' = Payloads
  BY DEF Payloads
<1> QED
  BY <1>1 DEF BufferInv

(* Every segment a set names is one of those the file has declared. *)
LEMMA SegmentsExist ==
  ASSUME PositionInv, NEW record \in ValueLabels,
         \A i \in DOMAIN record.indices: ~Dangles(record.indices[i])
  PROVE  [kind |-> "value_label", segments |-> SegmentsNamed(record.indices)] \in Fitting(Len(variables))
<1> DEFINE indices  == record.indices
           segments == SegmentsNamed(record.indices)
<1>1. indices \in Seq(Nat) /\ DOMAIN indices = 1..Len(indices) /\ Len(indices) \in Nat
  BY IndexListsAssumption DEF ValueLabels
<1>2. Len(primaries) = Len(variables) /\ primaries \in Seq(Nat) /\ Len(primaries) \in Nat
  BY DEF PositionInv, CountersTypeOK, PositionsAreOffsets
<1>3. DOMAIN segments = 1..Len(indices) /\ segments = [i \in 1..Len(indices) |-> SegmentNamed(indices[i])]
  BY <1>1 DEF SegmentsNamed
<1>4. ASSUME NEW i \in 1..Len(indices)
      PROVE  segments[i] \in Int /\ segments[i] < Len(variables)
  <2> DEFINE found == CHOOSE j \in SegmentsAt(indices[i] - 1): TRUE
  <2>1. SegmentsAt(indices[i] - 1) # {}
    BY <1>1 DEF Dangles
  <2>2. found \in DOMAIN primaries
    BY <2>1 DEF SegmentsAt
  <2>3. segments[i] = found - 1
    BY <1>3 DEF SegmentNamed
  <2> HIDE DEF found
  <2>4. found \in 1..Len(primaries)
    BY <1>2, <2>2
  <2> QED
    BY <1>2, <2>3, <2>4
<1> HIDE DEF segments
<1>5. segments \in Seq(Int) /\ DOMAIN segments = 1..Len(indices)
  <2>1. \A i \in 1..Len(indices): segments[i] \in Int
    BY <1>4
  <2>2. segments = [i \in 1..Len(indices) |-> segments[i]]
    BY <1>3
  <2> DEFINE n == Len(indices)
  <2>3. n \in Nat /\ segments = [i \in 1..n |-> segments[i]] /\ \A i \in 1..n: segments[i] \in Int
    BY <1>1, <2>1, <2>2
  <2> HIDE DEF n
  <2>4. segments \in Seq(Int) /\ DOMAIN segments = 1..n
    BY <2>3
  <2> QED
    BY <2>4 DEF n
<1> DEFINE p == [kind |-> "value_label", segments |-> segments]
<1>6. p \in Payload
  BY <1>5 DEF Payload
<1>7. p.segments = segments
  OBVIOUS
<1>8. \A k \in DOMAIN p.segments: p.segments[k] < Len(variables)
  BY <1>4, <1>5, <1>7
<1> HIDE DEF p
<1>9. p \in Fitting(Len(variables))
  BY <1>6, <1>8 DEF Fitting
<1> QED
  BY <1>9 DEF p, segments

LEMMA BufferingKeepsInv ==
  ASSUME PositionInv, PositionInv', BufferInv, NEW p \in Fitting(Len(variables')), NEW raised \in Seq(Warning),
         Len(variables) <= Len(variables'), variables' = variables \o TypeOfVariable(p),
         Buffer(p, raised)
  PROVE  BufferInv'
<1> DEFINE n == Len(variables)
           m == Len(variables')
<1>1. n \in Nat /\ m \in Nat
  BY DEF PositionInv, CountersTypeOK
<1>2. records' = Append(records, [payload |-> p, warnings |-> raised])
  BY DEF Buffer
<1>3. records \in Seq(Entry(n)) /\ TypesIn(Accumulated(Payloads)) = variables
  BY DEF BufferInv
<1> HIDE DEF n, m
<1>4. n <= m /\ p \in Fitting(m)
  BY DEF n, m
<1>5. /\ records' \in Seq(Entry(m))
      /\ TypesIn(Accumulated(Payloads')) = TypesIn(Accumulated(Payloads)) \o TypeOfVariable(p)
  BY <1>1, <1>2, <1>3, <1>4, BufferingOne
<1>6. TypesIn(Accumulated(Payloads')) = variables'
  BY <1>3, <1>5
<1> QED
  BY <1>5, <1>6 DEF BufferInv, m, Accumulated, TypesIn

LEMMA StepBuffer ==
  PositionInv /\ BufferInv /\ [ScanNext]_scanVars => BufferInv'
<1> SUFFICES ASSUME PositionInv, BufferInv, [ScanNext]_scanVars PROVE BufferInv'
  OBVIOUS
<1>1. PositionInv'
  BY StepPositionInv
<1>2. Len(variables) \in Nat /\ variables \o << >> = variables
  BY ConcatEmptySeq DEF PositionInv, CountersTypeOK
<1>3. << >> \in Seq(Warning)
  BY EmptySeq
<1>4. ASSUME NEW record \in VariableRecord, ReadPrimary(record)
      PROVE  BufferInv'
  <2>1. /\ record.kind = "variable" /\ variables' = Append(variables, record.type)
        /\ record.type \in Numeric..StringTypeMax
        /\ Buffer(record, MissingCountWarning(record))
    BY <1>4 DEF ReadPrimary, VariableRecord
  <2>2. record \in Payload /\ TypeOfVariable(record) = <<record.type>>
    BY <2>1 DEF Payload, TypeOfVariable
  <2>3. record \in Fitting(Len(variables'))
    BY <2>1, <2>2 DEF Fitting
  <2>4. MissingCountWarning(record) \in Seq(Warning)
    <3> DEFINE name == "InvalidMissingValueCount"
    <3>1. name \in Raised
      BY DEF Raised
    <3> HIDE DEF name
    <3>2. [warning |-> name, of |-> Len(variables)] \in Warning
      BY <1>2, <3>1, WarningsTyped
    <3> QED
      BY <1>3, <3>2, OneWarning DEF MissingCountWarning, name
  <2>5. variables' = variables \o TypeOfVariable(record) /\ Len(variables) <= Len(variables')
    <3> DEFINE T == Numeric..StringTypeMax
    <3>1. variables \in Seq(T) /\ record.type \in T
      BY <2>1 DEF PositionInv, CountersTypeOK
    <3> HIDE DEF T
    <3>2. Len(Append(variables, record.type)) = Len(variables) + 1
      BY <3>1
    <3>3. Append(variables, record.type) = variables \o <<record.type>>
      BY <3>1, AppendIsConcat
    <3> QED
      BY <1>2, <2>1, <2>2, <3>2, <3>3
  <2> QED
    BY <1>1, <2>1, <2>3, <2>4, <2>5, BufferingKeepsInv
<1>5. ASSUME NEW p \in Fitting(Len(variables)), p.kind # "variable", NEW raised \in Seq(Warning),
             Buffer(p, raised) \/ Drop(raised), UNCHANGED variables
      PROVE  BufferInv'
  <2>1. CASE Drop(raised)
    BY <1>5, <2>1, BufferStays DEF Drop
  <2>2. CASE Buffer(p, raised)
    <3>1. TypeOfVariable(p) = << >>
      BY <1>5 DEF TypeOfVariable
    <3>2. variables' = variables \o TypeOfVariable(p) /\ Len(variables) <= Len(variables')
      BY <1>2, <1>5, <3>1
    <3>3. p \in Fitting(Len(variables'))
      BY <1>5
    <3> QED
      BY <1>1, <2>2, <3>2, <3>3, BufferingKeepsInv
  <2> QED
    BY <1>5, <2>1, <2>2
<1>6. ASSUME NEW record \in ValueLabels, ReadValueLabels(record)
      PROVE  BufferInv'
  <2> DEFINE p      == [kind |-> "value_label", segments |-> SegmentsNamed(record.indices)]
             raised == ValueLabelWarnings(record)
  <2>1. UNCHANGED variables /\ (Buffer(p, raised) \/ Drop(raised))
    BY <1>6 DEF ReadValueLabels
  <2>2. p \in Fitting(Len(variables))
    BY <1>6, SegmentsExist DEF ReadValueLabels
  <2>3. p.kind # "variable"
    OBVIOUS
  <2>4. raised \in Seq(Warning)
    <3>1. \A name \in Raised: <<[warning |-> name]>> \in Seq(Warning)
      BY WarningsTyped, OneWarning
    <3>2. "DuplicateValueLabelKey" \in Raised /\ "EmptyValueLabelVariables" \in Raised
      BY DEF Raised
    <3> QED
      BY <1>3, <3>1, <3>2, ConcatProperties DEF ValueLabelWarnings
  <2> HIDE DEF p, raised
  <2> QED
    BY <1>5, <2>1, <2>2, <2>3, <2>4
<1>7. ASSUME NEW record \in Document \cup ExtensionRecord, ReadDocument(record) \/ ReadExtension(record)
      PROVE  BufferInv'
  <2>1. record \in Payload /\ record.kind # "variable" /\ record.kind # "value_label"
    BY DEF Document, ExtensionRecord, Payload
  <2>2. record \in Fitting(Len(variables))
    BY <2>1 DEF Fitting
  <2>3. UNCHANGED variables /\ (Buffer(record, << >>) \/ Drop(<< >>))
    BY <1>7 DEF ReadDocument, ReadExtension
  <2> QED
    BY <1>3, <1>5, <2>1, <2>2, <2>3
<1>8. ASSUME NEW record \in VariableRecord, ReadContinuation(record)
      PROVE  BufferInv'
  BY <1>8, BufferStays DEF ReadContinuation
<1>9. ASSUME NEW kind, Stop(kind)
      PROVE  BufferInv'
  BY <1>9, BufferStays DEF Stop
<1>10. ASSUME NEW record \in VariableRecord, VariableFails(record)
       PROVE  BufferInv'
  BY <1>9, <1>10 DEF VariableFails
<1>11. ASSUME NEW record \in ValueLabels, ValueLabelsDangle(record)
       PROVE  BufferInv'
  BY <1>9, <1>11 DEF ValueLabelsDangle
<1>12. CASE ReadTerminator \/ RunCutShort \/ Unpaired \/ UnknownRecordType \/ ReadFails
  BY <1>9, <1>12 DEF ReadTerminator, RunCutShort, Unpaired, UnknownRecordType, ReadFails
<1>13. CASE UNCHANGED scanVars
  BY <1>13, BufferStays DEF scanVars
<1> QED
  BY <1>4, <1>6, <1>7, <1>8, <1>10, <1>11, <1>12, <1>13 DEF ScanNext

-----------------------------------------------------------------------------------
(* What the layout is built from *)

(* The skeleton's last record of a subtype is the file's. *)
LastIsTheFiles(subtype) ==
  /\ EnvelopesOf(subtype) = {} <=> Carrying(subtype) = {}
  /\ Carrying(subtype) # {} =>
       envelopes[Max(EnvelopesOf(subtype))] = scanned[Max(Carrying(subtype))]

LastsInv == \A subtype \in LayoutSubtypes: LastIsTheFiles(subtype)

LEMMA LastsStay ==
  ASSUME LastsInv, UNCHANGED <<scanned, envelopes>>
  PROVE  LastsInv'
BY DEF LastsInv, LastIsTheFiles, EnvelopesOf, Carrying

(* The walk's turns, as far as the skeleton's envelopes go. *)
LEMMA WalkTakesEnvelopes ==
  ASSUME [ScanNext]_scanVars
  PROVE  \/ UNCHANGED <<scanned, envelopes>>
         \/ \E record \in Record:
              /\ scanned' = Append(scanned, record)
              /\ envelopes' = IF record.kind = "extension" /\ record.subtype \in LayoutBearing
                              THEN Append(envelopes, record) ELSE envelopes
<1>1. ASSUME NEW record \in VariableRecord, ReadPrimary(record) \/ ReadContinuation(record)
      PROVE  /\ record \in Record /\ record.kind # "extension"
             /\ scanned' = Append(scanned, record) /\ envelopes' = envelopes
  BY <1>1 DEF ReadPrimary, ReadContinuation, Read, VariableRecord, Record
<1>2. ASSUME NEW record \in ValueLabels \cup Document, ReadValueLabels(record) \/ ReadDocument(record)
      PROVE  /\ record \in Record /\ record.kind # "extension"
             /\ scanned' = Append(scanned, record) /\ envelopes' = envelopes
  BY <1>2 DEF ReadValueLabels, ReadDocument, Read, ValueLabels, Document, Record
<1>3. ASSUME NEW record \in ExtensionRecord, ReadExtension(record)
      PROVE  /\ record \in Record /\ record.kind = "extension"
             /\ scanned' = Append(scanned, record)
             /\ envelopes' = IF record.subtype \in LayoutBearing THEN Append(envelopes, record) ELSE envelopes
  BY <1>3 DEF ReadExtension, Absorb, Read, ExtensionRecord, Record
<1>4. ASSUME NEW kind, Stop(kind)
      PROVE  UNCHANGED <<scanned, envelopes>>
  BY <1>4 DEF Stop
<1>5. ASSUME NEW record \in VariableRecord, VariableFails(record)
      PROVE  UNCHANGED <<scanned, envelopes>>
  BY <1>4, <1>5 DEF VariableFails
<1>6. ASSUME NEW record \in ValueLabels, ValueLabelsDangle(record)
      PROVE  UNCHANGED <<scanned, envelopes>>
  BY <1>4, <1>6 DEF ValueLabelsDangle
<1>7. CASE ReadTerminator \/ RunCutShort \/ Unpaired \/ UnknownRecordType \/ ReadFails
  BY <1>4, <1>7 DEF ReadTerminator, RunCutShort, Unpaired, UnknownRecordType, ReadFails
<1>8. CASE UNCHANGED scanVars
  BY <1>8 DEF scanVars
<1> QED
  BY <1>1, <1>2, <1>3, <1>5, <1>6, <1>7, <1>8 DEF ScanNext

LEMMA StepLasts ==
  SkeletonInv /\ LastsInv /\ [ScanNext]_scanVars => LastsInv'
<1> SUFFICES ASSUME SkeletonInv, LastsInv, [ScanNext]_scanVars PROVE LastsInv'
  OBVIOUS
<1>1. scanned \in Seq(Record) /\ envelopes \in Seq(ExtensionRecord)
  BY DEF SkeletonInv, AbsorbedTypeOK
<1>2. CASE UNCHANGED <<scanned, envelopes>>
  BY <1>2, LastsStay
<1>3. ASSUME NEW record \in Record, scanned' = Append(scanned, record),
             envelopes' = IF record.kind = "extension" /\ record.subtype \in LayoutBearing
                          THEN Append(envelopes, record) ELSE envelopes,
             NEW subtype \in LayoutSubtypes
      PROVE  LastIsTheFiles(subtype)'
  <2>1. LastIsTheFiles(subtype) /\ subtype \in LayoutBearing
    BY DEF LastsInv, LayoutSubtypes
  <2>2. /\ record.kind = "extension" /\ record.subtype = subtype =>
             Carrying(subtype)' # {} /\ scanned'[Max(Carrying(subtype)')] = record
        /\ ~(record.kind = "extension" /\ record.subtype = subtype) =>
             /\ Carrying(subtype)' = Carrying(subtype)
             /\ Carrying(subtype) # {} =>
                  scanned'[Max(Carrying(subtype))] = scanned[Max(Carrying(subtype))]
    BY <1>1, <1>3, LastGrows
  <2>3. CASE record.kind = "extension" /\ record.subtype \in LayoutBearing
    <3> DEFINE P == {r \in ExtensionRecord: r.subtype = subtype}
    <3>1. record \in ExtensionRecord /\ envelopes' = Append(envelopes, record)
      BY <1>3, <2>3, RecordKinds
    <3>2. envelopes' \in Seq(ExtensionRecord)
      BY <1>1, <3>1
    <3>3. \A i \in DOMAIN envelopes: envelopes[i] \in ExtensionRecord
      BY <1>1
    <3>4. \A i \in DOMAIN envelopes': envelopes'[i] \in ExtensionRecord
      BY <3>2
    <3>5. EnvelopesOf(subtype) = Places(envelopes, P)
      BY <3>3 DEF EnvelopesOf, Places
    <3>6. EnvelopesOf(subtype)' = Places(envelopes', P)
      BY <3>4 DEF EnvelopesOf, Places
    <3>7. record \in P <=> record.subtype = subtype
      BY <3>1
    <3> HIDE DEF P
    <3>8. LastIsNew(envelopes, envelopes', record, P)
      BY <1>1, <3>1, LastPlace
    <3>9. CASE record.subtype = subtype
      <4>1. EnvelopesOf(subtype)' # {} /\ envelopes'[Max(EnvelopesOf(subtype)')] = record
        BY <3>6, <3>7, <3>8, <3>9 DEF LastIsNew
      <4>2. Carrying(subtype)' # {} /\ scanned'[Max(Carrying(subtype)')] = record
        BY <2>2, <2>3, <3>9
      <4> QED
        BY <4>1, <4>2 DEF LastIsTheFiles
    <3>10. CASE record.subtype # subtype
      <4>1. /\ EnvelopesOf(subtype)' = EnvelopesOf(subtype)
            /\ EnvelopesOf(subtype) # {} =>
                 envelopes'[Max(EnvelopesOf(subtype))] = envelopes[Max(EnvelopesOf(subtype))]
        BY <3>5, <3>6, <3>7, <3>8, <3>10 DEF LastIsNew
      <4>2. /\ Carrying(subtype)' = Carrying(subtype)
            /\ Carrying(subtype) # {} =>
                 scanned'[Max(Carrying(subtype))] = scanned[Max(Carrying(subtype))]
        BY <2>2, <3>10
      <4> QED
        BY <2>1, <4>1, <4>2 DEF LastIsTheFiles
    <3> QED
      BY <3>9, <3>10
  <2>4. CASE ~(record.kind = "extension" /\ record.subtype \in LayoutBearing)
    <3>1. envelopes' = envelopes /\ ~(record.kind = "extension" /\ record.subtype = subtype)
      BY <1>3, <2>1, <2>4
    <3>2. EnvelopesOf(subtype)' = EnvelopesOf(subtype)
      BY <3>1 DEF EnvelopesOf
    <3> QED
      BY <2>1, <2>2, <3>1, <3>2 DEF LastIsTheFiles
  <2> QED
    BY <2>3, <2>4
<1> QED
  BY <1>2, <1>3, WalkTakesEnvelopes DEF LastsInv

-----------------------------------------------------------------------------------
(* What the reader has fed the schema and taken of the skeleton *)

(* Whatever mix of calls has taken records so far, the schema is what accumulate makes *)
(* of exactly those.                                                                    *)
ReaderInv ==
  /\ cursor \in Nat /\ cursor <= Len(records)
  /\ phase = "opening" => cursor = 0
  /\ schema = Accumulated(SubSeq(Payloads, 1, cursor))
  /\ phase = "reading" =>
       /\ cursor = Len(records)
       /\ layout = [subtype \in LayoutSubtypes |-> InForce(subtype)]

DictionaryInv ==
  /\ PositionInv
  /\ SkeletonInv
  /\ BufferInv
  /\ LastsInv
  /\ ReaderInv

LEMMA NothingAccumulated ==
  ASSUME NEW T, NEW ps \in Seq(T)
  PROVE  Accumulated(SubSeq(ps, 1, 0)) = << >>
<1>1. SubSeq(ps, 1, 0) = << >>
  <2>1. Len(ps) \in Nat /\ 0 <= Len(ps)
    OBVIOUS
  <2>2. SubSeq(ps, 1, 0) \in Seq(T) /\ Len(SubSeq(ps, 1, 0)) = 0
    BY <2>1, TwoSlices
  <2> QED
    BY <2>2, EmptySeq
<1>2. [i \in DOMAIN << >> |-> Accumulate(<< >>[i])] = << >>
  OBVIOUS
<1> QED
  BY <1>1, <1>2, FlattenEmpty DEF Accumulated

LEMMA InitDictionary == Init => DictionaryInv
<1> SUFFICES ASSUME Init PROVE DictionaryInv
  OBVIOUS
<1>1. /\ ScanInit /\ records = << >> /\ variables = << >> /\ scanned = << >> /\ envelopes = << >>
      /\ cursor = 0 /\ schema = << >> /\ phase = "opening"
  BY DEF Init, ScanInit
<1>2. PositionInv /\ SkeletonInv
  BY <1>1, InitPositionInv, InitSkeleton
<1>3. Payloads = << >> /\ Payloads \in Seq(Payload)
  BY <1>1, EmptySeq DEF Payloads
<1>4. Accumulated(<< >>) = << >> /\ TypesIn(<< >>) = << >>
  <2>1. [i \in DOMAIN << >> |-> Accumulate(<< >>[i])] = << >>
    OBVIOUS
  <2>2. [i \in DOMAIN << >> |-> TypeOfVariable(<< >>[i])] = << >>
    OBVIOUS
  <2> QED
    BY <2>1, <2>2, FlattenEmpty DEF Accumulated, TypesIn
<1>5. BufferInv
  BY <1>1, <1>3, <1>4, EmptySeq DEF BufferInv
<1>6. LastsInv
  BY <1>1 DEF LastsInv, LastIsTheFiles, EnvelopesOf, Carrying
<1>7. Accumulated(SubSeq(Payloads, 1, 0)) = << >>
  BY <1>3, NothingAccumulated
<1>8. Len(records) = 0
  BY <1>1
<1>9. ReaderInv
  BY <1>1, <1>7, <1>8 DEF ReaderInv
<1> QED
  BY <1>2, <1>5, <1>6, <1>9 DEF DictionaryInv

(* A call that leaves the walk's state alone. *)
LEMMA CallKeepsTheWalk ==
  ASSUME DictionaryInv, UNCHANGED unresolvedVars
  PROVE  PositionInv' /\ SkeletonInv' /\ BufferInv' /\ LastsInv' /\ Payloads' = Payloads
<1>1. PositionInv'
  BY PositionStays DEF DictionaryInv, unresolvedVars, positionVars
<1>2. SkeletonInv'
  <2>1. scanning' = "done" => pending = 0
    BY DEF DictionaryInv, SkeletonInv, unresolvedVars
  <2> QED
    BY <2>1, SkeletonStays DEF DictionaryInv, unresolvedVars
<1>3. BufferInv'
  BY BufferStays DEF DictionaryInv, unresolvedVars
<1>4. LastsInv'
  BY LastsStay DEF DictionaryInv, unresolvedVars
<1>5. Payloads' = Payloads
  BY DEF Payloads, unresolvedVars
<1> QED
  BY <1>1, <1>2, <1>3, <1>4, <1>5

(* One record more has left the buffer, and the schema has what it draws of it. *)
LEMMA TakingOne ==
  ASSUME DictionaryInv, UNCHANGED unresolvedVars, phase = "pulling", phase' = phase,
         cursor < Len(records), cursor' = cursor + 1,
         schema' = schema \o Accumulate(Next1.payload)
  PROVE  ReaderInv'
<1>1. /\ Payloads \in Seq(Payload) /\ Len(Payloads) = Len(records) /\ Len(records) \in Nat
      /\ cursor \in Nat /\ schema = Accumulated(SubSeq(Payloads, 1, cursor))
  BY PayloadsTyped DEF DictionaryInv, BufferInv, ReaderInv
<1>2. Payloads' = Payloads /\ records' = records
  BY CallKeepsTheWalk DEF unresolvedVars
<1>3. Payloads[cursor + 1] = Next1.payload
  <2>1. cursor + 1 \in DOMAIN records
    <3>1. DOMAIN records = 1..Len(records)
      BY DEF DictionaryInv, BufferInv
    <3> QED
      BY <1>1, <3>1
  <2> QED
    BY <2>1 DEF Payloads, Next1
<1> DEFINE ps == Payloads
           p  == Next1.payload
<1>4. ps \in Seq(Payload) /\ cursor < Len(ps) /\ ps[cursor + 1] = p
  BY <1>1, <1>3
<1> HIDE DEF ps, p
<1>5. p \in Payload /\ SubSeq(ps, 1, cursor + 1) = Append(SubSeq(ps, 1, cursor), p)
  BY <1>1, <1>4, NextSlice
<1>6. SubSeq(ps, 1, cursor) \in Seq(Payload)
  BY <1>1, <1>4, TwoSlices
<1>7. Accumulated(SubSeq(ps, 1, cursor + 1)) = Accumulated(SubSeq(ps, 1, cursor)) \o Accumulate(p)
  BY <1>5, <1>6, AccumulatedAppend
<1>8. schema' = Accumulated(SubSeq(ps, 1, cursor'))
  BY <1>1, <1>7 DEF ps, p
<1> QED
  BY <1>1, <1>2, <1>8 DEF ReaderInv, ps

BufferTyped == Payloads \in Seq(Payload) /\ Len(records) \in Nat

LEMMA BufferIsTyped == BufferInv => BufferTyped
BY PayloadsTyped DEF BufferInv, BufferTyped

LEMMA NextBufferIsTyped == BufferInv' => BufferTyped'
BY BufferIsTyped, PTL

LEMMA StepDictionary == DictionaryInv /\ [Next]_vars => DictionaryInv'
<1> SUFFICES ASSUME DictionaryInv, [Next]_vars PROVE DictionaryInv'
  OBVIOUS
<1>1. ReaderInv /\ Payloads \in Seq(Payload) /\ Len(Payloads) = Len(records) /\ Len(records) \in Nat
  BY PayloadsTyped DEF DictionaryInv, BufferInv
<1>2. ASSUME UNCHANGED unresolvedVars, ReaderInv'
      PROVE  DictionaryInv'
  BY <1>2, CallKeepsTheWalk DEF DictionaryInv
<1>3. CASE Scan
  <2>1. [ScanNext]_scanVars /\ UNCHANGED readerVars /\ phase = "opening"
    BY <1>3 DEF Scan
  <2>2. PositionInv' /\ SkeletonInv' /\ BufferInv' /\ LastsInv'
    BY <2>1, StepPositionInv, StepKeepsSkeleton, StepBuffer, StepLasts DEF DictionaryInv
  <2>3. Payloads' \in Seq(Payload) /\ Len(records') \in Nat
    BY <2>2, NextBufferIsTyped DEF BufferTyped
  <2>4. Accumulated(SubSeq(Payloads', 1, 0)) = << >> /\ Accumulated(SubSeq(Payloads, 1, 0)) = << >>
    BY <1>1, <2>3, NothingAccumulated
  <2>5. cursor = 0 /\ cursor' = 0 /\ schema' = schema /\ phase' = "opening"
    BY <1>1, <2>1 DEF ReaderInv, readerVars
  <2>6. schema' = Accumulated(SubSeq(Payloads', 1, cursor'))
    BY <1>1, <2>4, <2>5 DEF ReaderInv
  <2>7. ReaderInv'
    BY <2>3, <2>5, <2>6 DEF ReaderInv, Accumulated
  <2> QED
    BY <2>2, <2>7 DEF DictionaryInv
<1>4. ASSUME UNCHANGED <<unresolvedVars, cursor, schema, layout>>, phase' \in {"pulling", "failed"}
      PROVE  DictionaryInv'
  <2>1. UNCHANGED unresolvedVars
    BY <1>4
  <2>2. Payloads' = Payloads /\ records' = records
    BY <2>1, CallKeepsTheWalk DEF unresolvedVars
  <2>3. cursor' = cursor /\ schema' = schema /\ phase' # "opening" /\ phase' # "reading"
    BY <1>4
  <2>4. ReaderInv'
    BY <1>1, <2>2, <2>3 DEF ReaderInv
  <2> QED
    BY <1>2, <2>1, <2>4
<1>5. CASE ScanFails
  <2>1. UNCHANGED scanVars /\ UNCHANGED <<cursor, schema, layout>> /\ phase' = "failed"
    BY <1>5 DEF ScanFails
  <2>2. UNCHANGED unresolvedVars
    BY <2>1 DEF scanVars, unresolvedVars
  <2> QED
    BY <1>4, <2>1, <2>2
<1>6. CASE ResolveEncoding
  BY <1>4, <1>6 DEF ResolveEncoding
<1>7. CASE NoRecordLeft
  BY <1>4, <1>7 DEF NoRecordLeft, Pulling
<1>8. CASE ReadRecord
  <2>1. /\ UNCHANGED unresolvedVars /\ phase = "pulling" /\ phase' = phase
        /\ cursor < Len(records) /\ cursor' = cursor + 1
        /\ schema' = schema \o Accumulate(Next1.payload)
    BY <1>8 DEF ReadRecord, Pulling, Take
  <2> QED
    BY <1>2, <2>1, TakingOne
<1>9. CASE SkipRecord
  <2>1. /\ UNCHANGED unresolvedVars /\ phase = "pulling" /\ phase' = phase
        /\ cursor < Len(records) /\ cursor' = cursor + 1
    BY <1>9 DEF SkipRecord, Pulling, Take
  <2>2. CASE SchemaDrawsOn(Next1.payload)
    <3>1. schema' = schema \o Accumulate(Next1.payload)
      BY <1>9, <2>2 DEF SkipRecord
    <3> QED
      BY <1>2, <2>1, <3>1, TakingOne
  <2>3. CASE ~SchemaDrawsOn(Next1.payload)
    <3>1. schema' = schema
      BY <1>9, <2>3 DEF SkipRecord
    <3>2. Accumulate(Next1.payload) = << >>
      BY <2>3 DEF SchemaDrawsOn, Accumulates, Accumulate
    <3>3. schema \in Seq(Payload)
      <4>1. SubSeq(Payloads, 1, cursor) \in Seq(Payload)
        BY <1>1, TwoSlices DEF ReaderInv
      <4>2. Accumulated(SubSeq(Payloads, 1, cursor)) \in Seq(Payload)
        BY <4>1, AccumulatedTyped
      <4> QED
        BY <1>1, <4>2 DEF ReaderInv
    <3>4. schema' = schema \o Accumulate(Next1.payload)
      BY <3>1, <3>2, <3>3, ConcatEmptySeq
    <3> QED
      BY <1>2, <2>1, <3>4, TakingOne
  <2> QED
    BY <2>2, <2>3
<1>10. CASE IntoRecordReader
  <2>1. /\ UNCHANGED unresolvedVars /\ cursor' = Len(records) /\ phase' \in {"reading", "failed"}
        /\ schema' = schema \o Accumulated(SubSeq(Payloads, cursor + 1, Len(records)))
        /\ phase' = "reading" => layout' = [subtype \in LayoutSubtypes |-> InForce(subtype)]
    BY <1>10 DEF IntoRecordReader, LayoutInForce
  <2>2. Payloads' = Payloads /\ records' = records /\ envelopes' = envelopes
    BY <2>1, CallKeepsTheWalk DEF unresolvedVars
  <2> DEFINE ps == Payloads
  <2>3. ps \in Seq(Payload) /\ cursor \in Nat /\ cursor <= Len(ps) /\ Len(ps) = Len(records)
    BY <1>1 DEF ReaderInv
  <2> HIDE DEF ps
  <2>4. /\ SubSeq(ps, 1, cursor) \in Seq(Payload) /\ SubSeq(ps, cursor + 1, Len(ps)) \in Seq(Payload)
        /\ ps = SubSeq(ps, 1, cursor) \o SubSeq(ps, cursor + 1, Len(ps))
    BY <2>3, TwoSlices
  <2>5. Accumulated(ps) = Accumulated(SubSeq(ps, 1, cursor)) \o Accumulated(SubSeq(ps, cursor + 1, Len(ps)))
    <3> DEFINE a == SubSeq(ps, 1, cursor)
               b == SubSeq(ps, cursor + 1, Len(ps))
    <3>1. a \in Seq(Payload) /\ b \in Seq(Payload) /\ ps = a \o b
      BY <2>4
    <3> HIDE DEF a, b
    <3>2. Accumulated(a \o b) = Accumulated(a) \o Accumulated(b)
      BY <3>1, AccumulatedConcat
    <3> QED
      BY <3>1, <3>2 DEF a, b
  <2>6. schema' = Accumulated(ps)
    BY <1>1, <2>1, <2>3, <2>5 DEF ReaderInv, ps
  <2>7. SubSeq(ps, 1, Len(ps)) = ps
    BY <2>3, WholeSlice
  <2>8. schema' = Accumulated(SubSeq(Payloads', 1, cursor'))
    BY <2>1, <2>2, <2>3, <2>6, <2>7 DEF ps
  <2>9. \A subtype: InForce(subtype)' = InForce(subtype)
    BY <2>2 DEF InForce, EnvelopesOf
  <2>10. phase' = "reading" => layout' = [subtype \in LayoutSubtypes |-> InForce(subtype)']
    BY <2>1, <2>9
  <2>11. /\ cursor' \in Nat /\ cursor' <= Len(records') /\ cursor' = Len(records')
         /\ phase' # "opening"
    BY <1>1, <2>1, <2>2
  <2>12. ReaderInv'
    BY <2>8, <2>10, <2>11 DEF ReaderInv
  <2> QED
    BY <1>2, <2>1, <2>12
<1>11. CASE UNCHANGED vars
  <2>1. UNCHANGED unresolvedVars /\ UNCHANGED <<phase, cursor, schema, layout, records, envelopes>>
    BY <1>11 DEF vars, scanVars, readerVars, unresolvedVars
  <2>2. Payloads' = Payloads /\ \A subtype: InForce(subtype)' = InForce(subtype)
    BY <2>1 DEF Payloads, InForce, EnvelopesOf
  <2>3. ReaderInv'
    BY <1>1, <2>1, <2>2 DEF ReaderInv
  <2> QED
    BY <1>2, <2>1, <2>3
<1> QED
  BY <1>3, <1>5, <1>6, <1>7, <1>8, <1>9, <1>10, <1>11 DEF Next

LEMMA WholeSchema == DictionaryInv => SchemaHasNoHoles
<1> SUFFICES ASSUME DictionaryInv, phase = "reading" PROVE schema = Accumulated(Payloads)
  BY DEF SchemaHasNoHoles
<1>1. /\ Payloads \in Seq(Payload) /\ Len(Payloads) = Len(records) /\ Len(records) \in Nat
      /\ schema = Accumulated(SubSeq(Payloads, 1, Len(Payloads)))
  BY PayloadsTyped DEF DictionaryInv, BufferInv, ReaderInv
<1> QED
  BY <1>1, WholeSlice

(* Whatever a caller read, passed over and left for the transition, the schema is fed   *)
(* every record it draws on, once, in the file's order (skip_record, accumulate).        *)
THEOREM DictionarySchemaHasNoHoles == Spec => []SchemaHasNoHoles
BY WholeSchema, InitDictionary, StepDictionary, PTL DEF Spec

(* The variables the schema is built of are the layout's, and a value-label set names   *)
(* only segments of theirs (SavSchemaBuilder::build walks the one by the other).          *)
THEOREM DictionarySchemaFitsTheLayout == Spec => []SchemaFitsTheLayout
<1>1. DictionaryInv => SchemaFitsTheLayout
  <2> SUFFICES ASSUME DictionaryInv, phase = "reading"
               PROVE  /\ TypesIn(schema) = variables
                      /\ \A i \in DOMAIN schema:
                           schema[i].kind = "value_label" =>
                             \A k \in DOMAIN schema[i].segments: schema[i].segments[k] < Len(variables)
    BY DEF SchemaFitsTheLayout
  <2>1. /\ Payloads \in Seq(Payload) /\ Len(Payloads) = Len(records) /\ Len(records) \in Nat
        /\ schema = Accumulated(SubSeq(Payloads, 1, Len(Payloads)))
        /\ TypesIn(Accumulated(Payloads)) = variables
        /\ Accumulated(Payloads) \in Seq(Fitting(Len(variables)))
    BY PayloadsTyped DEF DictionaryInv, BufferInv, ReaderInv
  <2>2. schema = Accumulated(Payloads)
    BY <2>1, WholeSlice
  <2>3. \A i \in DOMAIN schema: schema[i] \in Fitting(Len(variables))
    BY <2>1, <2>2
  <2>4. \A i \in DOMAIN schema:
          schema[i].kind = "value_label" =>
            \A k \in DOMAIN schema[i].segments: schema[i].segments[k] < Len(variables)
    BY <2>3 DEF Fitting
  <2> QED
    BY <2>1, <2>2, <2>4
<1> QED
  BY <1>1, InitDictionary, StepDictionary, PTL DEF Spec

(* The layout is the file's last record of every subtype it depends on, whatever the    *)
(* caller retained, read, passed over or left (into_record_reader).                       *)
THEOREM DictionaryLayoutIgnoresTheCaller == Spec => []LayoutIgnoresTheCaller
<1>1. DictionaryInv => LayoutIgnoresTheCaller
  <2> SUFFICES ASSUME DictionaryInv, phase = "reading", NEW subtype \in LayoutSubtypes
               PROVE  layout[subtype] = IF Carrying(subtype) = {} THEN Unset
                                        ELSE scanned[Max(Carrying(subtype))].payload
    BY DEF LayoutIgnoresTheCaller
  <2>1. layout[subtype] = InForce(subtype)
    BY DEF DictionaryInv, ReaderInv
  <2>2. LastIsTheFiles(subtype)
    BY DEF DictionaryInv, LastsInv
  <2> QED
    BY <2>1, <2>2 DEF InForce, LastIsTheFiles
<1> QED
  BY <1>1, InitDictionary, StepDictionary, PTL DEF Spec

-----------------------------------------------------------------------------------
(* What a caller is told *)

(* The warnings raised while the encoding is resolved and while records are decoded. *)
Resolving == {"EncodingDeclarationMismatch", "EncodingDeclarationUnrecognized", "EncodingUnspecified"}
Decoding  == {"EncodingOverridden", "UnknownExtensionSubtype", "UnreadableExtensionRecord"}
             \cup ParserNames
Names     == HeaderNames \cup Raised \cup Resolving \cup Decoding

Told  == [warning: Names] \cup [warning: Names, of: Nat]
Quiet == {w \in Told: w.warning # "EncodingOverridden"}

HowTaken == {"read", "skipped", "drained"}

SaidUpTo(n) == [i \in 1..n |-> SaidOf(i)]

(* Every call so far has shown what it had to say, and the history knows which calls  *)
(* those were.                                                                          *)
WarningInv ==
  /\ phase = "opening" => warnings = HeaderWarnings /\ shown = << >>
  /\ phase \in {"pulling", "reading"} =>
       encoding = Resolve(strategy, DeclaredLabel, DeclaredCode)
  /\ passed \in Seq(HowTaken) /\ Len(passed) = cursor
  /\ phase = "pulling" => shown = SaidSoFar
  /\ phase = "reading" => shown = SaidSoFar \o TransitionSays /\ warnings = TransitionSays

LEMMA OneTold ==
  ASSUME NEW name \in Names
  PROVE  /\ <<[warning |-> name]>> \in Seq(Told)
         /\ name # "EncodingOverridden" => <<[warning |-> name]>> \in Seq(Quiet)
<1> DEFINE w == [warning |-> name]
<1>1. w \in Told /\ w.warning = name
  <2>1. w \in [warning: Names]
    OBVIOUS
  <2> QED
    BY <2>1 DEF Told
<1> HIDE DEF w
<1>2. name # "EncodingOverridden" => w \in Quiet
  BY <1>1 DEF Quiet
<1>3. <<w>> \in Seq(Told)
  BY <1>1
<1>4. name # "EncodingOverridden" => <<w>> \in Seq(Quiet)
  BY <1>2
<1> QED
  BY <1>3, <1>4 DEF w

LEMMA HeaderWarningsQuiet == HeaderWarnings \in Seq(Quiet)
<1> DEFINE H == [warning: HeaderNames]
<1>1. HeaderWarnings \in Seq(H)
  BY HeaderWarningsAssumption
<1>2. ASSUME NEW w \in H PROVE w \in Quiet
  <2>1. w.warning \in HeaderNames /\ w \in [warning: Names]
    BY DEF Names
  <2>2. w.warning # "EncodingOverridden"
    BY <2>1 DEF HeaderNames
  <2> QED
    BY <2>1, <2>2 DEF Quiet, Told
<1> HIDE DEF H
<1> QED
  BY <1>1, <1>2

LEMMA WarningsQuiet ==
  ASSUME NEW ws \in Seq(Warning)
  PROVE  ws \in Seq(Quiet)
<1>1. ASSUME NEW w \in Warning PROVE w \in Quiet
  <2>1. w.warning \in Raised
    BY DEF Warning
  <2>2. w \in Told
    BY DEF Warning, Told, Names
  <2>3. w.warning # "EncodingOverridden"
    BY <2>1 DEF Raised
  <2> QED
    BY <2>2, <2>3 DEF Quiet
<1> QED
  BY <1>1

LEMMA QuietTold ==
  ASSUME NEW ws \in Seq(Quiet)
  PROVE  ws \in Seq(Told)
<1>1. \A w \in Quiet: w \in Told
  BY DEF Quiet
<1> QED
  BY <1>1

(* What decoding a record raises, after what overriding the encoding does. *)
DecodedQuietly(payload) ==
  IF payload.kind = "extension"
  THEN IF payload.subtype \in Unrecognized
       THEN <<[warning |-> "UnknownExtensionSubtype"]>>
       ELSE Remarks(payload.subtype, payload.payload)
            \o (IF payload.payload \in Unreadables
                THEN <<[warning |-> "UnreadableExtensionRecord"]>> ELSE << >>)
  ELSE << >>

Overriding(payload) == IF payload.kind = "extension" THEN OverrideWarnings(payload) ELSE << >>

(* A parser's own warnings are about a record and about no encoding. *)
LEMMA RemarksQuiet ==
  ASSUME NEW r \in ExtensionRecord
  PROVE  Remarks(r.subtype, r.payload) \in Seq(Quiet)
<1> DEFINE P == [warning: ParserNames]
<1>1. r.subtype \in Subtypes /\ r.payload \in Labels \cup Unreadables
  BY DEF ExtensionRecord
<1>2. Remarks(r.subtype, r.payload) \in Seq(P)
  BY <1>1, RemarksAssumption
<1>3. ASSUME NEW w \in P PROVE w \in Quiet
  <2>1. w.warning \in ParserNames /\ w \in [warning: Names]
    BY DEF Names, Decoding
  <2>2. w.warning # "EncodingOverridden"
    BY <2>1 DEF ParserNames
  <2> QED
    BY <2>1, <2>2 DEF Quiet, Told
<1> HIDE DEF P
<1> QED
  BY <1>2, <1>3

LEMMA ExtensionPayloads ==
  ASSUME NEW p \in Payload, p.kind = "extension"
  PROVE  p \in ExtensionRecord
<1>1. CASE p \in VariableRecord
  BY <1>1 DEF VariableRecord
<1>2. CASE p \in Document
  BY <1>2 DEF Document
<1>3. CASE p \in [kind: {"value_label"}, segments: Seq(Int)]
  BY <1>3
<1> QED
  BY <1>1, <1>2, <1>3 DEF Payload

LEMMA DecodeTyped ==
  ASSUME NEW p \in Payload
  PROVE  /\ Overriding(p) \in Seq(Told) /\ DecodedQuietly(p) \in Seq(Quiet)
         /\ DecodeWarnings(p) = Overriding(p) \o DecodedQuietly(p)
         /\ DecodeWarnings(p) \in Seq(Told)
<1>1. << >> \in Seq(Told) /\ << >> \in Seq(Quiet)
  BY EmptySeq
<1>2. Overriding(p) \in Seq(Told)
  <2>1. "EncodingOverridden" \in Names
    BY DEF Names, Decoding
  <2>2. <<[warning |-> "EncodingOverridden"]>> \in Seq(Told)
    BY <2>1, OneTold
  <2> QED
    BY <1>1, <2>2 DEF Overriding, OverrideWarnings
<1>3. DecodedQuietly(p) \in Seq(Quiet)
  <2>1. "UnknownExtensionSubtype" \in Names /\ "UnreadableExtensionRecord" \in Names
    BY DEF Names, Decoding
  <2>2. <<[warning |-> "UnknownExtensionSubtype"]>> \in Seq(Quiet)
    BY <2>1, OneTold
  <2>3. <<[warning |-> "UnreadableExtensionRecord"]>> \in Seq(Quiet)
    BY <2>1, OneTold
  <2>4. CASE p.kind = "extension"
    <3>1. Remarks(p.subtype, p.payload) \in Seq(Quiet)
      BY <2>4, ExtensionPayloads, RemarksQuiet
    <3> DEFINE said  == Remarks(p.subtype, p.payload)
               fails == IF p.payload \in Unreadables
                        THEN <<[warning |-> "UnreadableExtensionRecord"]>> ELSE << >>
    <3>2. said \in Seq(Quiet) /\ fails \in Seq(Quiet)
      BY <1>1, <2>3, <3>1
    <3>3. DecodedQuietly(p) = IF p.subtype \in Unrecognized
                              THEN <<[warning |-> "UnknownExtensionSubtype"]>> ELSE said \o fails
      BY <2>4 DEF DecodedQuietly
    <3> HIDE DEF said, fails
    <3>4. said \o fails \in Seq(Quiet)
      BY <3>2, ConcatProperties
    <3> QED
      BY <2>2, <3>3, <3>4
  <2> QED
    BY <1>1, <2>4 DEF DecodedQuietly
<1>4. DecodeWarnings(p) = Overriding(p) \o DecodedQuietly(p)
  <2>1. CASE p.kind = "extension"
    BY <2>1 DEF DecodeWarnings, ExtensionWarnings, Overriding, DecodedQuietly
  <2>2. CASE p.kind # "extension"
    <3>1. << >> \o << >> = << >>
      BY <1>1, ConcatEmptySeq
    <3> QED
      BY <2>2, <3>1 DEF DecodeWarnings, Overriding, DecodedQuietly
  <2> QED
    BY <2>1, <2>2
<1>5. DecodedQuietly(p) \in Seq(Told)
  BY <1>3, QuietTold
<1>6. Overriding(p) \o DecodedQuietly(p) \in Seq(Told)
  BY <1>2, <1>5, ConcatProperties
<1> QED
  BY <1>2, <1>3, <1>4, <1>6

LEMMA ResolveTyped ==
  ASSUME NEW s, NEW l, NEW c
  PROVE  Resolve(s, l, c).warnings \in Seq(Told)
<1>1. << >> \in Seq(Told)
  BY EmptySeq
<1>2. /\ <<[warning |-> "EncodingDeclarationMismatch"]>> \in Seq(Told)
      /\ <<[warning |-> "EncodingDeclarationUnrecognized"]>> \in Seq(Told)
      /\ [warning |-> "EncodingUnspecified"] \in Told
  <2>1. "EncodingDeclarationMismatch" \in Names /\ "EncodingDeclarationUnrecognized" \in Names
    BY DEF Names, Resolving
  <2>2. "EncodingUnspecified" \in Names
    BY DEF Names, Resolving
  <2>3. \A name \in Names: [warning |-> name] \in [warning: Names]
    OBVIOUS
  <2>4. [warning |-> "EncodingUnspecified"] \in Told
    BY <2>2, <2>3 DEF Told
  <2>5. <<[warning |-> "EncodingDeclarationMismatch"]>> \in Seq(Told)
    BY <2>1, OneTold
  <2>6. <<[warning |-> "EncodingDeclarationUnrecognized"]>> \in Seq(Told)
    BY <2>1, OneTold
  <2> QED
    BY <2>4, <2>5, <2>6
<1>3. ASSUME NEW named PROVE UnrecognizedWarnings(named) \in Seq(Told)
  BY <1>1, <1>2 DEF UnrecognizedWarnings
<1>4. ASSUME NEW a, NEW b PROVE MismatchWarnings(a, b) \in Seq(Told)
  BY <1>1, <1>2 DEF MismatchWarnings
<1>5. ASSUME NEW bad, NEW ws \in Seq(Told)
      PROVE  FallBack(s, bad, ws).warnings \in Seq(Told)
  <2>1. Append(ws, [warning |-> "EncodingUnspecified"]) \in Seq(Told)
    BY <1>2
  <2> QED
    BY <1>1, <2>1 DEF FallBack, Resolved, Failed
<1> DEFINE byLabel == NamedByLabel(l)
           byCode  == NamedByCode(c)
           both    == UnrecognizedWarnings(byLabel) \o UnrecognizedWarnings(byCode)
<1>6. both \in Seq(Told)
  BY <1>3, ConcatProperties
<1>7. FallBack(s, NoEncoding \in {byLabel, byCode}, both).warnings \in Seq(Told)
  BY <1>5, <1>6
<1>8. ResolveDeclared(s, l, c).warnings \in Seq(Told)
  BY <1>3, <1>4, <1>7 DEF ResolveDeclared, Resolved
<1> QED
  BY <1>1, <1>8 DEF Resolve, Resolved

LEMMA OpeningTyped == Opening \in Seq(Told)
<1>1. HeaderWarnings \in Seq(Told)
  BY HeaderWarningsQuiet, QuietTold
<1>2. Resolve(strategy, DeclaredLabel, DeclaredCode).warnings \in Seq(Told)
  BY ResolveTyped
<1> QED
  BY <1>1, <1>2, ConcatProperties DEF Opening

(* The walk leaves in the reader's hands what the header left there. *)
LEMMA WalkKeepsWarnings ==
  ASSUME [ScanNext]_scanVars, warnings = HeaderWarnings
  PROVE  warnings' = warnings
<1>1. ASSUME NEW raised \in Seq(Told), Drop(raised)
      PROVE  warnings' = warnings
  <2>1. warnings \in Seq(Told)
    BY HeaderWarningsQuiet, QuietTold
  <2> QED
    BY <1>1, <2>1, FrontSlice DEF Drop
<1>2. << >> \in Seq(Told)
  BY EmptySeq
<1>3. ASSUME NEW record \in VariableRecord, ReadPrimary(record) \/ ReadContinuation(record)
      PROVE  warnings' = warnings
  BY <1>3 DEF ReadPrimary, ReadContinuation, Buffer
<1>4. ASSUME NEW record \in ValueLabels, ReadValueLabels(record)
      PROVE  warnings' = warnings
  <2>1. ValueLabelWarnings(record) \in Seq(Told)
    <3>1. "DuplicateValueLabelKey" \in Names /\ "EmptyValueLabelVariables" \in Names
      BY DEF Names, Raised
    <3>2. <<[warning |-> "DuplicateValueLabelKey"]>> \in Seq(Told)
      BY <3>1, OneTold
    <3>3. <<[warning |-> "EmptyValueLabelVariables"]>> \in Seq(Told)
      BY <3>1, OneTold
    <3> QED
      BY <1>2, <3>2, <3>3, ConcatProperties DEF ValueLabelWarnings
  <2> QED
    BY <1>1, <1>4, <2>1 DEF ReadValueLabels, Buffer
<1>5. ASSUME NEW record \in Document \cup ExtensionRecord, ReadDocument(record) \/ ReadExtension(record)
      PROVE  warnings' = warnings
  BY <1>1, <1>2, <1>5 DEF ReadDocument, ReadExtension, Buffer
<1>6. ASSUME NEW kind, Stop(kind)
      PROVE  warnings' = warnings
  BY <1>6 DEF Stop
<1>7. ASSUME NEW record \in VariableRecord, VariableFails(record)
      PROVE  warnings' = warnings
  BY <1>6, <1>7 DEF VariableFails
<1>8. ASSUME NEW record \in ValueLabels, ValueLabelsDangle(record)
      PROVE  warnings' = warnings
  BY <1>6, <1>8 DEF ValueLabelsDangle
<1>9. CASE ReadTerminator \/ RunCutShort \/ Unpaired \/ UnknownRecordType \/ ReadFails
  BY <1>6, <1>9 DEF ReadTerminator, RunCutShort, Unpaired, UnknownRecordType, ReadFails
<1>10. CASE UNCHANGED scanVars
  BY <1>10 DEF scanVars
<1> QED
  BY <1>3, <1>4, <1>5, <1>7, <1>8, <1>9, <1>10 DEF ScanNext

LEMMA SaidTyped ==
  ASSUME BufferInv, NEW n \in Nat, n <= Len(records)
  PROVE  /\ SaidUpTo(n) \in Seq(Seq(Told)) /\ Len(SaidUpTo(n)) = n
         /\ \A i \in 1..Len(records):
              records[i].warnings \in Seq(Quiet) /\ records[i].payload \in Payload
<1>1. \A i \in 1..Len(records): records[i] \in Entry(Len(variables))
  BY DEF BufferInv
<1>2. \A i \in 1..Len(records): records[i].warnings \in Seq(Warning)
  BY <1>1 DEF Entry
<1>3. \A i \in 1..Len(records): records[i].warnings \in Seq(Quiet)
  BY <1>2, WarningsQuiet
<1>4. Len(records) \in Nat /\ \A i \in 1..n: i \in 1..Len(records)
  BY DEF BufferInv
<1>5. \A i \in 1..n: SaidOf(i) \in Seq(Told)
  <2> SUFFICES ASSUME NEW i \in 1..n PROVE SaidOf(i) \in Seq(Told)
    OBVIOUS
  <2>1. records[i].warnings \in Seq(Told)
    BY <1>3, <1>4, QuietTold
  <2>2. DecodeWarnings(records[i].payload) \in Seq(Told)
    <3>1. records[i].payload \in Payload
      BY <1>1, <1>4 DEF Entry, Fitting
    <3> QED
      BY <3>1, DecodeTyped
  <2>3. records[i].warnings \o DecodeWarnings(records[i].payload) \in Seq(Told)
    BY <2>1, <2>2, ConcatProperties
  <2>4. << >> \in Seq(Told)
    BY EmptySeq
  <2> QED
    BY <2>3, <2>4 DEF SaidOf
<1>6. SaidUpTo(n) \in Seq(Seq(Told)) /\ Len(SaidUpTo(n)) = n
  <2> DEFINE S == Seq(Told)
  <2>1. \A i \in 1..n: SaidOf(i) \in S
    BY <1>5
  <2> HIDE DEF S
  <2>2. SaidUpTo(n) \in Seq(S) /\ Len(SaidUpTo(n)) = n
    BY <2>1 DEF SaidUpTo
  <2> QED
    BY <2>2 DEF S
<1>7. \A i \in 1..Len(records): records[i].payload \in Payload
  BY <1>1 DEF Entry, Fitting
<1> QED
  BY <1>3, <1>6, <1>7

(* What a payload makes of itself depends on the encoding and the declarations alone. *)
LEMMA DecodingStays ==
  ASSUME UNCHANGED <<encoding, label, codepage>>, NEW p
  PROVE  DecodeWarnings(p)' = DecodeWarnings(p) /\ Overriding(p)' = Overriding(p)
<1>1. DeclaredLabel' = DeclaredLabel /\ DeclaredCode' = DeclaredCode
  BY DEF DeclaredLabel, DeclaredCode
<1>2. OverrideWarnings(p)' = OverrideWarnings(p)
  BY <1>1 DEF OverrideWarnings
<1> QED
  BY <1>2 DEF DecodeWarnings, ExtensionWarnings, Overriding

LEMMA SaidStays ==
  ASSUME UNCHANGED <<encoding, label, codepage, records>>, NEW i, passed'[i] = passed[i]
  PROVE  SaidOf(i)' = SaidOf(i)
<1>1. DecodeWarnings(records[i].payload)' = DecodeWarnings(records[i].payload)
  <2>1. \A q: DecodeWarnings(q)' = DecodeWarnings(q)
    BY DecodingStays
  <2> QED
    BY <2>1 DEF DecodeWarnings, ExtensionWarnings, OverrideWarnings
<1> QED
  BY <1>1 DEF SaidOf

LEMMA OpeningStays ==
  ASSUME UNCHANGED <<strategy, label, codepage>>
  PROVE  Opening' = Opening /\ Resolve(strategy, DeclaredLabel, DeclaredCode)' = Resolve(strategy, DeclaredLabel, DeclaredCode)
<1>1. DeclaredLabel' = DeclaredLabel /\ DeclaredCode' = DeclaredCode
  BY DEF DeclaredLabel, DeclaredCode
<1> QED
  BY <1>1 DEF Opening

(* A call that takes a record shows what that record has to say, and nothing else. *)
LEMMA TakingTells ==
  ASSUME DictionaryInv, WarningInv, phase = "pulling", retention = "All", cursor < Len(records),
         NEW how \in HowTaken,
         NEW found, Take(how, found),
         found = IF how = "read" \/ (how = "skipped" /\ SchemaDrawsOn(Next1.payload))
                 THEN ReadWarnings ELSE << >>
  PROVE  WarningInv'
<1>1. /\ cursor \in Nat /\ cursor + 1 \in Nat /\ cursor + 1 <= Len(records) /\ cursor <= Len(records)
      /\ Len(records) \in Nat
  BY DEF DictionaryInv, ReaderInv, BufferInv
<1>2. /\ cursor' = cursor + 1 /\ passed' = Append(passed, how)
      /\ shown' = shown \o found
      /\ UNCHANGED <<phase, retention, strategy, encoding, label, codepage, records>>
  BY DEF Take, Shows, unresolvedVars
<1>3. passed \in Seq(HowTaken) /\ Len(passed) = cursor
  BY DEF WarningInv
<1>4. /\ passed' \in Seq(HowTaken) /\ Len(passed') = cursor'
      /\ \A i \in 1..cursor: passed'[i] = passed[i]
      /\ passed'[cursor + 1] = how
  BY <1>1, <1>2, <1>3
<1>5. SaidUpTo(cursor) \in Seq(Seq(Told)) /\ Len(SaidUpTo(cursor)) = cursor
  BY <1>1, SaidTyped DEF DictionaryInv
<1>6. \A i \in 1..cursor: SaidOf(i)' = SaidOf(i)
  BY <1>2, <1>4, SaidStays
<1>7. ASSUME NEW i, i = cursor + 1
      PROVE  SaidOf(i)' = found
  <2>1. \A q: DecodeWarnings(q)' = DecodeWarnings(q)
    BY <1>2, DecodingStays
  <2>2. \A q: SchemaDrawsOn(q)' = SchemaDrawsOn(q)
    BY DEF SchemaDrawsOn
  <2>3. Next1 = records[i] /\ passed'[i] = how /\ records' = records
    BY <1>2, <1>4, <1>7 DEF Next1
  <2>4. SaidOf(i)' = IF how = "read" \/ (how = "skipped" /\ SchemaDrawsOn(records[i].payload))
                     THEN records[i].warnings \o DecodeWarnings(records[i].payload) ELSE << >>
    BY <2>1, <2>2, <2>3 DEF SaidOf
  <2> QED
    BY <2>3, <2>4 DEF ReadWarnings
<1>8. found \in Seq(Told)
  <2>1. Next1.warnings \in Seq(Told)
    <3>1. cursor + 1 \in 1..Len(records)
      BY <1>1
    <3>2. records[cursor + 1].warnings \in Seq(Quiet)
      BY <1>1, <3>1, SaidTyped DEF DictionaryInv
    <3> QED
      BY <3>2, QuietTold DEF Next1
  <2>2. DecodeWarnings(Next1.payload) \in Seq(Told)
    <3>1. cursor + 1 \in 1..Len(records)
      BY <1>1
    <3>2. Next1.payload \in Payload
      BY <1>1, <3>1, SaidTyped DEF DictionaryInv, Next1
    <3> QED
      BY <3>2, DecodeTyped
  <2>3. ReadWarnings \in Seq(Told)
    BY <2>1, <2>2, ConcatProperties DEF ReadWarnings
  <2> QED
    BY <2>3, EmptySeq
<1> DEFINE old == SaidUpTo(cursor)
           new == [i \in 1..(cursor + 1) |-> SaidOf(i)']
           S   == Seq(Told)
<1>9. DOMAIN new = 1..(cursor + 1) /\ new = [i \in DOMAIN new |-> new[i]]
  OBVIOUS
<1>10. \A i \in 1..cursor: new[i] = old[i]
  BY <1>1, <1>6 DEF SaidUpTo
<1>11. new[cursor + 1] = found
  BY <1>1, <1>7
<1>12. old \in Seq(S) /\ Len(old) = cursor /\ found \in S
  BY <1>5, <1>8
<1>13. S = Seq(Told)
  OBVIOUS
<1> HIDE DEF old, new, S
<1>14. new = Append(old, found)
  BY <1>9, <1>10, <1>11, <1>12, OneMore
<1>15. FlattenSeq(new) = FlattenSeq(old) \o found
  BY <1>12, <1>13, <1>14, FlattenAppend
<1>16. FlattenSeq(old) \in Seq(Told)
  BY <1>12, <1>13, FlattenTyped
<1>17. shown = Opening \o FlattenSeq(old)
  BY DEF WarningInv, SaidSoFar, SaidUpTo, old
<1>18. (Opening \o FlattenSeq(old)) \o found = Opening \o (FlattenSeq(old) \o found)
  <2> DEFINE a == Opening
             b == FlattenSeq(old)
             c == found
  <2>1. a \in Seq(Told) /\ b \in Seq(Told) /\ c \in Seq(Told)
    BY <1>8, <1>16, OpeningTyped
  <2> HIDE DEF a, b, c
  <2>2. (a \o b) \o c = a \o (b \o c)
    <3>1. Associates(a, b, c)
      BY <2>1, ConcatAssociates, Zenon
    <3> QED
      BY <3>1, Zenon DEF Associates
  <2> QED
    BY <2>2 DEF a, b, c
<1>19. Opening' = Opening /\ Resolve(strategy, DeclaredLabel, DeclaredCode)' = Resolve(strategy, DeclaredLabel, DeclaredCode)
  BY <1>2, OpeningStays
<1>20. shown' = Opening' \o FlattenSeq(SaidUpTo(cursor)')
  <2>1. SaidUpTo(cursor)' = new
    BY <1>2 DEF new, SaidUpTo
  <2> QED
    BY <1>2, <1>15, <1>17, <1>18, <1>19, <2>1
<1>21. encoding' = Resolve(strategy, DeclaredLabel, DeclaredCode)'
  BY <1>2, <1>19 DEF WarningInv
<1>22. shown' = SaidSoFar'
  BY <1>2, <1>20 DEF SaidSoFar, SaidUpTo
<1> QED
  BY <1>2, <1>4, <1>21, <1>22 DEF WarningInv

LEMMA InitWarnings == Init => WarningInv
<1> SUFFICES ASSUME Init PROVE WarningInv
  OBVIOUS
<1>1. phase = "opening" /\ warnings = HeaderWarnings /\ shown = << >> /\ passed = << >> /\ cursor = 0
  BY DEF Init, ScanInit
<1>2. passed \in Seq(HowTaken) /\ Len(passed) = 0
  BY <1>1
<1> QED
  BY <1>1, <1>2 DEF WarningInv

(* What the records of the skeleton repeat is what the file's records do. *)
RepeatsInv == Repeats(envelopes) = RepeatsOnFile

LEMMA RepeatedTyped ==
  ASSUME NEW r \in ExtensionRecord
  PROVE  RepeatedIn(r) \in Seq(Told)
<1>1. Remarks(r.subtype, r.payload) \in Seq(Told)
  BY RemarksQuiet, QuietTold
<1> QED
  BY <1>1, EmptySeq DEF RepeatedIn

LEMMA NothingRepeated == Repeats(<< >>) = << >>
<1>1. [i \in DOMAIN << >> |-> RepeatedIn(<< >>[i])] = << >>
  OBVIOUS
<1> QED
  BY <1>1, FlattenEmpty DEF Repeats

LEMMA RepeatsAppend ==
  ASSUME NEW es \in Seq(ExtensionRecord), NEW e \in ExtensionRecord
  PROVE  Repeats(Append(es, e)) = Repeats(es) \o RepeatedIn(e) /\ Repeats(es) \in Seq(Told)
<1> DEFINE more == Append(es, e)
           old  == [i \in DOMAIN es |-> RepeatedIn(es[i])]
           new  == [i \in DOMAIN more |-> RepeatedIn(more[i])]
           last == RepeatedIn(e)
<1>1. \A r \in ExtensionRecord: RepeatedIn(r) \in Seq(Told)
  BY RepeatedTyped
<1>2. /\ Len(es) \in Nat /\ DOMAIN es = 1..Len(es) /\ DOMAIN more = 1..(Len(es) + 1)
      /\ \A i \in 1..Len(es): more[i] = es[i] /\ es[i] \in ExtensionRecord
      /\ more[Len(es) + 1] = e
  BY AppendFacts
<1> HIDE DEF more
<1>3. old \in Seq(Seq(Told)) /\ Len(old) = Len(es) /\ last \in Seq(Told)
  BY <1>1, <1>2
<1>4. DOMAIN new = 1..(Len(es) + 1) /\ new = [i \in DOMAIN new |-> new[i]]
  BY <1>2
<1>5. \A i \in 1..Len(es): new[i] = old[i]
  BY <1>2
<1>6. new[Len(es) + 1] = last
  BY <1>2
<1>7. Repeats(es) = FlattenSeq(old) /\ Repeats(more) = FlattenSeq(new)
  BY DEF Repeats
<1> HIDE DEF old, new, last
<1>8. new = Append(old, last)
  BY <1>3, <1>4, <1>5, <1>6, OneMore
<1>9. FlattenSeq(new) = FlattenSeq(old) \o last
  BY <1>3, <1>8, FlattenAppend
<1>10. FlattenSeq(old) \in Seq(Told)
  BY <1>3, FlattenTyped
<1> QED
  BY <1>7, <1>9, <1>10 DEF more, last

LEMMA RepeatsOfOne ==
  ASSUME NEW es \in Seq(ExtensionRecord), NEW record \in Record
  PROVE  /\ Repeats(es \o Envelope(record)) = Repeats(es) \o Repeats(Envelope(record))
         /\ Repeats(es) \in Seq(Told) /\ Repeats(Envelope(record)) \in Seq(Told)
<1>1. << >> \in Seq(Told) /\ << >> \in Seq(ExtensionRecord)
  BY EmptySeq
<1>2. CASE record.kind = "extension" /\ record.subtype \in LayoutBearing
  <2>1. record \in ExtensionRecord /\ Envelope(record) = <<record>>
    BY <1>2, RecordKinds DEF Envelope
  <2>2. Append(es, record) = es \o <<record>> /\ Append(<< >>, record) = <<record>>
    BY <1>1, <2>1, AppendIsConcat
  <2>3. RepeatedIn(record) \in Seq(Told)
    BY <2>1, RepeatedTyped
  <2>4. Repeats(<<record>>) = RepeatedIn(record)
    <3>1. Repeats(Append(<< >>, record)) = << >> \o RepeatedIn(record)
      BY <1>1, <2>1, RepeatsAppend, NothingRepeated
    <3> QED
      BY <2>2, <2>3, <3>1, ConcatEmptySeq
  <2>5. Repeats(Append(es, record)) = Repeats(es) \o RepeatedIn(record) /\ Repeats(es) \in Seq(Told)
    BY <2>1, RepeatsAppend
  <2> QED
    BY <2>1, <2>2, <2>3, <2>4, <2>5
<1>3. CASE ~(record.kind = "extension" /\ record.subtype \in LayoutBearing)
  <2>1. Envelope(record) = << >> /\ es \o << >> = es
    BY <1>3, ConcatEmptySeq DEF Envelope
  <2>2. Repeats(es) \in Seq(Told)
    <3> DEFINE old == [i \in DOMAIN es |-> RepeatedIn(es[i])]
    <3>1. \A i \in DOMAIN es: RepeatedIn(es[i]) \in Seq(Told)
      BY RepeatedTyped
    <3>2. old \in Seq(Seq(Told))
      BY <3>1
    <3> HIDE DEF old
    <3>3. FlattenSeq(old) \in Seq(Told)
      BY <3>2, FlattenTyped
    <3> QED
      BY <3>3 DEF old, Repeats
  <2>3. Repeats(es) \o << >> = Repeats(es)
    BY <2>2, ConcatEmptySeq
  <2> QED
    BY <1>1, <2>1, <2>2, <2>3, NothingRepeated
<1> QED
  BY <1>2, <1>3

LEMMA RepeatsOnFileGrow ==
  ASSUME scanned \in Seq(Record), NEW record \in Record, scanned' = Append(scanned, record)
  PROVE  RepeatsOnFile' = RepeatsOnFile \o Repeats(Envelope(record))
<1>1. ASSUME NEW r \in Record PROVE Repeats(Envelope(r)) \in Seq(Told)
  BY RepeatsOfOne, EmptySeq
<1>2. /\ Len(scanned) \in Nat /\ DOMAIN scanned = 1..Len(scanned)
      /\ DOMAIN scanned' = 1..(Len(scanned) + 1)
      /\ \A i \in 1..Len(scanned): scanned'[i] = scanned[i] /\ scanned[i] \in Record
      /\ scanned'[Len(scanned) + 1] = record
  OBVIOUS
<1> DEFINE old  == [i \in DOMAIN scanned |-> Repeats(Envelope(scanned[i]))]
           new  == [i \in DOMAIN scanned' |-> Repeats(Envelope(scanned'[i]))]
           last == Repeats(Envelope(record))
<1>3. \A i \in 1..Len(scanned): old[i] = Repeats(Envelope(scanned[i])) /\ old[i] \in Seq(Told)
  BY <1>1, <1>2
<1>4. old \in Seq(Seq(Told)) /\ Len(old) = Len(scanned)
  BY <1>2, <1>3
<1>5. last \in Seq(Told)
  BY <1>1
<1>6. DOMAIN new = 1..(Len(scanned) + 1) /\ new = [i \in DOMAIN new |-> new[i]]
  BY <1>2
<1>7. \A i \in 1..Len(scanned): new[i] = old[i]
  BY <1>2, <1>3
<1>8. new[Len(scanned) + 1] = last
  BY <1>2
<1>9. RepeatsOnFile = FlattenSeq(old) /\ RepeatsOnFile' = FlattenSeq(new)
  BY DEF RepeatsOnFile
<1> HIDE DEF old, new, last
<1>10. new = Append(old, last)
  BY <1>4, <1>5, <1>6, <1>7, <1>8, OneMore
<1>11. FlattenSeq(new) = FlattenSeq(old) \o last
  BY <1>4, <1>5, <1>10, FlattenAppend
<1> QED
  BY <1>9, <1>11 DEF last

(* A turn of the walk's loop reads one record, or none. *)
LEMMA WalkReads ==
  ASSUME [ScanNext]_scanVars
  PROVE  scanned' = scanned \/ \E record \in Record: scanned' = Append(scanned, record)
<1>1. ASSUME NEW record \in Record, Read(record)
      PROVE  \E r \in Record: scanned' = Append(scanned, r)
  BY <1>1 DEF Read
<1>2. \A record \in VariableRecord \cup ValueLabels \cup Document \cup ExtensionRecord: record \in Record
  BY DEF Record
<1>3. ASSUME NEW kind, Stop(kind) PROVE scanned' = scanned
  BY <1>3 DEF Stop
<1>4. CASE \E record \in VariableRecord: ReadPrimary(record) \/ ReadContinuation(record)
  BY <1>1, <1>2, <1>4 DEF ReadPrimary, ReadContinuation
<1>5. CASE \E record \in VariableRecord: VariableFails(record)
  BY <1>3, <1>5 DEF VariableFails
<1>6. CASE \E record \in ValueLabels: ReadValueLabels(record)
  BY <1>1, <1>2, <1>6 DEF ReadValueLabels
<1>7. CASE \E record \in ValueLabels: ValueLabelsDangle(record)
  BY <1>3, <1>7 DEF ValueLabelsDangle
<1>8. CASE \E record \in Document: ReadDocument(record)
  BY <1>1, <1>2, <1>8 DEF ReadDocument
<1>9. CASE \E record \in ExtensionRecord: ReadExtension(record)
  BY <1>1, <1>2, <1>9 DEF ReadExtension
<1>10. CASE ReadTerminator \/ RunCutShort \/ Unpaired \/ UnknownRecordType \/ ReadFails
  BY <1>3, <1>10 DEF ReadTerminator, RunCutShort, Unpaired, UnknownRecordType, ReadFails
<1>11. CASE UNCHANGED scanVars
  BY <1>11 DEF scanVars
<1> QED
  BY <1>4, <1>5, <1>6, <1>7, <1>8, <1>9, <1>10, <1>11 DEF ScanNext

LEMMA InitRepeats == Init => RepeatsInv
<1> SUFFICES ASSUME Init PROVE RepeatsInv
  OBVIOUS
<1>1. scanned = << >> /\ envelopes = << >>
  BY DEF Init, ScanInit
<1>2. [i \in DOMAIN scanned |-> Repeats(Envelope(scanned[i]))] = << >>
  BY <1>1
<1> QED
  BY <1>1, <1>2, FlattenEmpty, NothingRepeated DEF RepeatsInv, RepeatsOnFile

LEMMA StepRepeats == DictionaryInv /\ RepeatsInv /\ [Next]_vars => RepeatsInv'
<1> SUFFICES ASSUME DictionaryInv, RepeatsInv, [Next]_vars PROVE RepeatsInv'
  OBVIOUS
<1>1. ASSUME UNCHANGED <<scanned, envelopes>> PROVE RepeatsInv'
  BY <1>1 DEF RepeatsInv, RepeatsOnFile, Repeats, RepeatedIn, Envelope
<1>2. CASE Scan
  <2>1. [ScanNext]_scanVars
    BY <1>2 DEF Scan
  <2>2. SkeletonInv /\ SkeletonInv'
    BY <2>1, StepKeepsSkeleton DEF DictionaryInv
  <2>3. /\ scanned \in Seq(Record) /\ envelopes \in Seq(ExtensionRecord)
        /\ envelopes = FlattenSeq(EnvelopesSeen) /\ envelopes' = FlattenSeq(EnvelopesSeen')
    BY <2>2 DEF SkeletonInv, AbsorbedTypeOK
  <2>4. CASE scanned' = scanned
    <3>1. EnvelopesSeen' = EnvelopesSeen
      BY <2>4 DEF EnvelopesSeen
    <3> QED
      BY <1>1, <2>3, <2>4, <3>1
  <2>5. CASE \E record \in Record: scanned' = Append(scanned, record)
    <3>1. PICK record \in Record: scanned' = Append(scanned, record)
      BY <2>5
    <3>2. envelopes' = envelopes \o Envelope(record)
      BY <2>3, <3>1, EnvelopesGrow
    <3>3. Repeats(envelopes') = Repeats(envelopes) \o Repeats(Envelope(record))
      BY <2>3, <3>2, RepeatsOfOne
    <3>4. RepeatsOnFile' = RepeatsOnFile \o Repeats(Envelope(record))
      BY <2>3, <3>1, RepeatsOnFileGrow
    <3> QED
      BY <3>3, <3>4 DEF RepeatsInv
  <2> QED
    BY <2>1, <2>4, <2>5, WalkReads
<1>3. CASE ~Scan
  <2>1. UNCHANGED <<scanned, envelopes>>
    BY <1>3 DEF Next, vars, scanVars, ScanFails, ResolveEncoding, ReadRecord, SkipRecord,
                NoRecordLeft, IntoRecordReader, Take, unresolvedVars
  <2> QED
    BY <1>1, <2>1
<1> QED
  BY <1>2, <1>3

LEMMA NextWholeSchema == DictionaryInv' => SchemaHasNoHoles'
BY WholeSchema, PTL

(* What is left is taken without a word, and the layout and the schema say what the *)
(* file gives them to say.                                                         *)
LEMMA DrainingTells ==
  ASSUME DictionaryInv, DictionaryInv', WarningInv, RepeatsInv, IntoRecordReader
  PROVE  WarningInv'
<1>1. /\ cursor \in Nat /\ cursor <= Len(records) /\ Len(records) \in Nat
  BY DEF DictionaryInv, ReaderInv, BufferInv
<1> DEFINE left  == [i \in 1..Len(records) - cursor |-> "drained"]
           empty == [i \in 1..Len(records) - cursor |-> << >>]
<1>2. /\ phase = "pulling" /\ phase' \notin {"opening", "pulling"} /\ cursor' = Len(records) /\ passed' = passed \o left
      /\ UNCHANGED <<retention, strategy, encoding, label, codepage, records>>
  BY DEF IntoRecordReader, unresolvedVars
<1>3. Len(records) - cursor \in Nat
  BY <1>1
<1>4. left \in Seq(HowTaken) /\ Len(left) = Len(records) - cursor
  <2> DEFINE m == Len(records) - cursor
  <2>1. m \in Nat /\ "drained" \in HowTaken
    BY <1>3 DEF HowTaken
  <2> HIDE DEF m
  <2>2. [i \in 1..m |-> "drained"] \in Seq(HowTaken) /\ Len([i \in 1..m |-> "drained"]) = m
    BY <2>1
  <2> QED
    BY <2>2 DEF m
<1>5. empty \in Seq(Seq({})) /\ Len(empty) = Len(records) - cursor
  <2> DEFINE m == Len(records) - cursor
             E == Seq({})
  <2>1. m \in Nat /\ << >> \in E
    BY <1>3, EmptySeq
  <2> HIDE DEF m, E
  <2>2. [i \in 1..m |-> << >>] \in Seq(E) /\ Len([i \in 1..m |-> << >>]) = m
    BY <2>1
  <2> QED
    BY <2>2 DEF m, E
<1>6. \A i \in 1..Len(records) - cursor: left[i] = "drained" /\ empty[i] = << >>
  OBVIOUS
<1>7. passed \in Seq(HowTaken) /\ Len(passed) = cursor
  BY DEF WarningInv
<1> HIDE DEF left, empty
<1>8. /\ passed' \in Seq(HowTaken) /\ Len(passed') = Len(records)
      /\ \A i \in 1..Len(records): passed'[i] = IF i <= cursor THEN passed[i] ELSE left[i - cursor]
  BY <1>1, <1>2, <1>4, <1>7, ConcatProperties
<1>9. ASSUME NEW i \in 1..cursor
      PROVE  SaidOf(i)' = SaidOf(i)
  <2>1. passed'[i] = passed[i]
    BY <1>1, <1>8
  <2> QED
    BY <1>2, <2>1, SaidStays
<1>10. ASSUME NEW i \in 1..Len(records) - cursor, NEW k, k = cursor + i
       PROVE  SaidOf(k)' = << >>
  <2>1. k \in 1..Len(records) /\ ~(k <= cursor) /\ k - cursor = i
    BY <1>1, <1>10
  <2>2. passed'[k] = left[i]
    BY <1>8, <2>1
  <2>3. passed'[k] = "drained"
    BY <1>6, <2>2
  <2> QED
    BY <2>3 DEF SaidOf
<1> DEFINE old == SaidUpTo(cursor)
           new == [i \in 1..Len(records) |-> SaidOf(i)']
           S   == Seq(Told)
<1>11. old \in Seq(S) /\ Len(old) = cursor
  BY <1>1, SaidTyped DEF DictionaryInv
<1>12. empty \in Seq(S)
  <2>1. << >> \in S
    BY EmptySeq
  <2>2. Len(empty) \in Nat /\ \A i \in 1..Len(empty): empty[i] = << >>
    BY <1>3, <1>5, <1>6
  <2> HIDE DEF S
  <2>3. \A i \in 1..Len(empty): empty[i] \in S
    BY <2>1, <2>2
  <2>4. empty = [i \in 1..Len(empty) |-> empty[i]]
    BY <1>5
  <2> QED
    BY <2>2, <2>3, <2>4
<1>13. DOMAIN new = 1..(cursor + (Len(records) - cursor)) /\ new = [i \in DOMAIN new |-> new[i]]
  BY <1>1
<1>14. \A i \in 1..cursor: new[i] = old[i]
  <2> SUFFICES ASSUME NEW i \in 1..cursor PROVE new[i] = old[i]
    OBVIOUS
  <2>1. i \in 1..Len(records)
    BY <1>1
  <2> QED
    BY <1>9, <2>1 DEF SaidUpTo
<1>15. \A i \in 1..Len(records) - cursor: new[cursor + i] = empty[i]
  <2> SUFFICES ASSUME NEW i \in 1..Len(records) - cursor PROVE new[cursor + i] = empty[i]
    OBVIOUS
  <2>1. cursor + i \in 1..Len(records)
    BY <1>1
  <2>2. new[cursor + i] = << >>
    BY <1>10, <2>1
  <2> QED
    BY <1>6, <2>2
<1>16. S = Seq(Told)
  OBVIOUS
<1> HIDE DEF old, new, S
<1>17. new = old \o empty
  <2>1. DOMAIN new = 1..(Len(old) + Len(empty))
    BY <1>5, <1>11, <1>13
  <2>2. \A i \in 1..Len(old): new[i] = old[i]
    BY <1>11, <1>14
  <2>3. \A i \in 1..Len(empty): new[Len(old) + i] = empty[i]
    BY <1>5, <1>11, <1>15
  <2> QED
    BY <1>11, <1>12, <1>13, <2>1, <2>2, <2>3, IsConcat
<1>18. FlattenSeq(new) = FlattenSeq(old) \o FlattenSeq(empty)
  BY <1>11, <1>12, <1>16, <1>17, FlattenConcat
<1>19. FlattenSeq(empty) = << >>
  BY <1>5, NothingFlattened
<1>20. FlattenSeq(old) \in Seq(Told)
  BY <1>11, <1>16, FlattenTyped
<1>21. FlattenSeq(new) = FlattenSeq(old)
  BY <1>18, <1>19, <1>20, ConcatEmptySeq
<1>22. SaidUpTo(cursor)' = new
  BY <1>2 DEF new, SaidUpTo
<1>23. Opening' = Opening /\ Resolve(strategy, DeclaredLabel, DeclaredCode)' = Resolve(strategy, DeclaredLabel, DeclaredCode)
  BY <1>2, OpeningStays
<1>24. encoding' = Resolve(strategy, DeclaredLabel, DeclaredCode)'
  BY <1>2, <1>23 DEF WarningInv
<1>25. SaidSoFar' = SaidSoFar
  <2>1. SaidSoFar = IF retention = "All" THEN Opening \o FlattenSeq(old) ELSE << >>
    BY DEF SaidSoFar, SaidUpTo, old
  <2>2. SaidSoFar' = IF retention' = "All" THEN Opening' \o FlattenSeq(new) ELSE << >>
    BY <1>22 DEF SaidSoFar, SaidUpTo
  <2> QED
    BY <1>2, <1>21, <1>23, <2>1, <2>2
<1>26. phase' = "reading" =>
         /\ shown' = shown \o FinalizeWarnings(schema') /\ warnings' = FinalizeWarnings(schema')
         /\ layout' = LayoutInForce /\ UNCHANGED <<variables, scanned>>
  BY DEF IntoRecordReader, Shows, unresolvedVars
<1>27. phase' = "reading" => FinalizeWarnings(schema') = TransitionSays'
  <2> SUFFICES ASSUME phase' = "reading" PROVE FinalizeWarnings(schema') = TransitionSays'
    OBVIOUS
  <2>1. schema' = Accumulated(Payloads)'
    BY NextWholeSchema DEF SchemaHasNoHoles
  <2>2. RepeatsOnFile' = Repeats(envelopes)
    BY <1>26 DEF RepeatsInv, RepeatsOnFile, Repeats, RepeatedIn, Envelope
  <2> QED
    BY <1>26, <2>1, <2>2 DEF FinalizeWarnings, TransitionSays
<1>28. shown = SaidSoFar
  BY <1>2 DEF WarningInv
<1> QED
  BY <1>2, <1>8, <1>24, <1>25, <1>26, <1>27, <1>28 DEF WarningInv

(* A step that takes nothing and tells nothing. *)
LEMMA WarningsStay ==
  ASSUME DictionaryInv, WarningInv, UNCHANGED <<unresolvedVars, strategy, encoding, cursor, passed, layout, shown>>,
         phase' = "failed" \/ (phase = "pulling" /\ phase' = "pulling") \/ (phase' = phase /\ warnings' = warnings)
  PROVE  WarningInv'
<1>1. /\ UNCHANGED <<retention, strategy, encoding, label, codepage, records, cursor, passed, shown>>
  BY DEF unresolvedVars
<1>2. Opening' = Opening /\ Resolve(strategy, DeclaredLabel, DeclaredCode)' = Resolve(strategy, DeclaredLabel, DeclaredCode)
  BY <1>1, OpeningStays
<1>3. \A i: SaidOf(i)' = SaidOf(i)
  BY <1>1, SaidStays
<1>4. SaidSoFar' = SaidSoFar
  <2>1. SaidUpTo(cursor)' = SaidUpTo(cursor)
    BY <1>1, <1>3 DEF SaidUpTo
  <2> QED
    BY <1>1, <1>2, <2>1 DEF SaidSoFar, SaidUpTo
<1>5. TransitionSays' = TransitionSays
  <2>1. UNCHANGED <<records, scanned, variables, layout>>
    BY DEF unresolvedVars
  <2>2. Accumulated(Payloads)' = Accumulated(Payloads) /\ RepeatsOnFile' = RepeatsOnFile
    BY <2>1 DEF Accumulated, Payloads, Accumulate, Accumulates, RepeatsOnFile, Repeats, RepeatedIn, Envelope
  <2> QED
    BY <2>1, <2>2 DEF TransitionSays
<1> QED
  BY <1>1, <1>2, <1>4, <1>5 DEF WarningInv

LEMMA StepWarnings == DictionaryInv /\ RepeatsInv /\ WarningInv /\ [Next]_vars => WarningInv'
<1> SUFFICES ASSUME DictionaryInv, RepeatsInv, WarningInv, [Next]_vars PROVE WarningInv'
  OBVIOUS
<1>1. CASE Scan
  <2>1. [ScanNext]_scanVars /\ UNCHANGED readerVars /\ phase = "opening"
    BY <1>1 DEF Scan
  <2>2. warnings' = HeaderWarnings
    BY <2>1, WalkKeepsWarnings DEF WarningInv
  <2> QED
    BY <2>1, <2>2 DEF WarningInv, readerVars
<1>2. CASE ScanFails
  <2>1. UNCHANGED scanVars /\ UNCHANGED <<strategy, encoding, cursor, passed, layout, shown>> /\ phase' = "failed"
    BY <1>2 DEF ScanFails
  <2>2. UNCHANGED unresolvedVars
    BY <2>1 DEF scanVars, unresolvedVars
  <2> QED
    BY <2>1, <2>2, WarningsStay
<1>3. CASE ResolveEncoding
  <2> DEFINE resolved == Resolve(strategy, DeclaredLabel, DeclaredCode)
  <2>1. /\ phase = "opening" /\ encoding' = resolved
        /\ UNCHANGED <<retention, strategy, label, codepage, cursor, passed>>
        /\ phase' = "failed" \/ phase' = "pulling"
        /\ phase' = "pulling" /\ retention = "All" => shown' = shown \o (warnings \o resolved.warnings)
        /\ phase' = "pulling" /\ retention # "All" => shown' = shown
    BY <1>3 DEF ResolveEncoding, unresolvedVars, Shows
  <2>2. warnings = HeaderWarnings /\ shown = << >> /\ cursor = 0
    BY <2>1 DEF WarningInv, DictionaryInv, ReaderInv
  <2>3. Opening' = Opening /\ Resolve(strategy, DeclaredLabel, DeclaredCode)' = resolved
    BY <2>1, OpeningStays
  <2>4. << >> \o Opening = Opening /\ Opening \o << >> = Opening
    BY OpeningTyped, ConcatEmptySeq
  <2>5. FlattenSeq(SaidUpTo(cursor)') = << >>
    <3>1. SaidUpTo(cursor)' = << >>
      BY <2>1, <2>2 DEF SaidUpTo
    <3> QED
      BY <3>1, FlattenEmpty
  <2>6. Opening = warnings \o resolved.warnings
    BY <2>2 DEF Opening
  <2> HIDE DEF resolved
  <2>7. phase' = "pulling" /\ retention = "All" => shown' = Opening' \o FlattenSeq(SaidUpTo(cursor)')
    BY <2>1, <2>2, <2>3, <2>4, <2>5, <2>6
  <2>8. phase' = "pulling" => shown' = SaidSoFar'
    BY <2>1, <2>2, <2>7 DEF SaidSoFar, SaidUpTo
  <2> QED
    BY <2>1, <2>3, <2>8 DEF WarningInv
<1>4. CASE ReadRecord
  <2>1. /\ phase = "pulling" /\ retention = "All" /\ cursor < Len(records) /\ Take("read", ReadWarnings)
    BY <1>4 DEF ReadRecord, Pulling
  <2>2. "read" \in HowTaken
    BY DEF HowTaken
  <2> QED
    BY <2>1, <2>2, TakingTells
<1>5. CASE SkipRecord
  <2>1. phase = "pulling" /\ retention = "All" /\ cursor < Len(records) /\ "skipped" \in HowTaken
    BY <1>5 DEF SkipRecord, Pulling, HowTaken
  <2>2. CASE SchemaDrawsOn(Next1.payload)
    <3>1. Take("skipped", ReadWarnings)
      BY <1>5, <2>2 DEF SkipRecord
    <3> QED
      BY <2>1, <2>2, <3>1, TakingTells
  <2>3. CASE ~SchemaDrawsOn(Next1.payload)
    <3>1. Take("skipped", << >>)
      BY <1>5, <2>3 DEF SkipRecord
    <3> QED
      BY <2>1, <2>3, <3>1, TakingTells
  <2> QED
    BY <2>2, <2>3
<1>6. CASE NoRecordLeft
  <2>1. /\ UNCHANGED <<unresolvedVars, strategy, encoding, cursor, passed, layout, shown>>
        /\ phase = "pulling" /\ phase' = phase
    BY <1>6 DEF NoRecordLeft, Pulling, ShowsNothing
  <2> QED
    BY <2>1, WarningsStay
<1>7. CASE IntoRecordReader
  <2>1. DictionaryInv'
    BY StepDictionary
  <2> QED
    BY <1>7, <2>1, DrainingTells
<1>8. CASE UNCHANGED vars
  <2>1. /\ UNCHANGED <<unresolvedVars, strategy, encoding, cursor, passed, layout, shown>>
        /\ phase' = phase /\ warnings' = warnings
    BY <1>8 DEF vars, scanVars, readerVars, unresolvedVars
  <2> QED
    BY <2>1, WarningsStay
<1> QED
  BY <1>1, <1>2, <1>3, <1>4, <1>5, <1>6, <1>7, <1>8 DEF Next

-----------------------------------------------------------------------------------
(* How often an override is told *)

Notices == {w \in Told: w.warning = "EncodingOverridden"}

(* The records of a subtype that were kept, and those of the first n that report an override. *)
KeptOf(subtype) ==
  {i \in DOMAIN records: records[i].payload.kind = "extension" /\ records[i].payload.subtype = subtype}
Telling(n) == {i \in 1..n: Overriding(records[i].payload) # << >>}

EverythingRead == \A i \in DOMAIN passed: passed[i] = "read"

(* A reader that keeps records keeps each one of a declaring subtype. *)
KeptInv == retention = "All" =>
  \A subtype \in DeclaresEncoding: Cardinality(KeptOf(subtype)) = Cardinality(Carrying(subtype))

(* Each record that reports an override was told of once. *)
OverrideInv ==
  phase = "pulling" /\ retention = "All" /\ encoding.provenance = "Overridden" /\ EverythingRead =>
    /\ shown \in Seq(Told)
    /\ Cardinality(Places(shown, Notices)) = Cardinality(Telling(cursor))

LEMMA QuietHasNone ==
  ASSUME NEW ws \in Seq(Quiet)
  PROVE  \A i \in 1..Len(ws): ws[i] \notin Notices
<1>1. \A i \in 1..Len(ws): ws[i] \in Quiet
  OBVIOUS
<1>2. \A w \in Quiet: w \notin Notices
  BY DEF Quiet, Notices
<1> QED
  BY <1>1, <1>2

LEMMA NoneInQuiet ==
  ASSUME NEW ws \in Seq(Quiet)
  PROVE  Places(ws, Notices) = {} /\ Cardinality(Places(ws, Notices)) = 0
<1>1. DOMAIN ws = 1..Len(ws)
  OBVIOUS
<1>2. Places(ws, Notices) = {}
  BY <1>1, QuietHasNone DEF Places
<1> QED
  BY <1>2, FS_EmptySet

LEMMA OverridingIsOne ==
  ASSUME NEW p
  PROVE  \/ Overriding(p) = << >>
         \/ \E w \in Notices: Overriding(p) = <<w>>
<1> DEFINE w == [warning |-> "EncodingOverridden"]
<1>1. w \in Notices
  <2>1. "EncodingOverridden" \in Names
    BY DEF Names, Decoding
  <2>2. w \in [warning: Names] /\ w.warning = "EncodingOverridden"
    BY <2>1
  <2> QED
    BY <2>2 DEF Notices, Told
<1>2. Overriding(p) = << >> \/ Overriding(p) = <<w>>
  BY DEF Overriding, OverrideWarnings
<1> HIDE DEF w
<1> QED
  BY <1>1, <1>2

(* What reading a record shows holds as many notices as the record raises. *)
LEMMA NoticesGrow ==
  ASSUME NEW s \in Seq(Told), NEW ws \in Seq(Quiet), NEW p \in Payload
  PROVE  /\ s \o (ws \o DecodeWarnings(p)) \in Seq(Told)
         /\ Cardinality(Places(s \o (ws \o DecodeWarnings(p)), Notices)) =
              IF Overriding(p) = << >> THEN Cardinality(Places(s, Notices))
              ELSE Cardinality(Places(s, Notices)) + 1
<1> DEFINE ov == Overriding(p)
           qu == DecodedQuietly(p)
           de == DecodeWarnings(p)
<1>1. ov \in Seq(Told) /\ qu \in Seq(Quiet) /\ de = ov \o qu
  BY DecodeTyped
<1>2. ov = << >> \/ \E w \in Notices: ov = <<w>>
  BY OverridingIsOne
<1> HIDE DEF ov, qu, de
<1>3. ws \in Seq(Told) /\ qu \in Seq(Told)
  BY <1>1, QuietTold
<1>4. s \o (ws \o (ov \o qu)) = ((s \o ws) \o ov) \o qu
  <2>1. ws \o (ov \o qu) = (ws \o ov) \o qu
    <3>1. Associates(ws, ov, qu)
      BY <1>1, <1>3, ConcatAssociates, Zenon
    <3> QED
      BY <3>1, Zenon DEF Associates
  <2>2. ws \o ov \in Seq(Told)
    BY <1>1, <1>3, ConcatProperties
  <2> DEFINE two == ws \o ov
  <2>3. two \in Seq(Told)
    BY <2>2
  <2> HIDE DEF two
  <2>4. s \o (two \o qu) = (s \o two) \o qu
    <3>1. Associates(s, two, qu)
      BY <1>3, <2>3, ConcatAssociates, Zenon
    <3> QED
      BY <3>1, Zenon DEF Associates
  <2>5. s \o (ws \o ov) = (s \o ws) \o ov
    <3>1. Associates(s, ws, ov)
      BY <1>1, <1>3, ConcatAssociates, Zenon
    <3> QED
      BY <3>1, Zenon DEF Associates
  <2> QED
    BY <2>1, <2>4, <2>5 DEF two
<1> DEFINE a == s \o ws
           b == a \o ov
           c == b \o qu
<1>5. a \in Seq(Told) /\ Places(a, Notices) = Places(s, Notices)
  <2>1. \A i \in 1..Len(ws): ws[i] \notin Notices
    BY QuietHasNone
  <2>2. a \in Seq(Told)
    BY <1>3, ConcatProperties
  <2>3. Places(s \o ws, Notices) = Places(s, Notices)
    BY <1>3, <2>1, CountNothing
  <2> QED
    BY <2>2, <2>3
<1> HIDE DEF a
<1>6. /\ b \in Seq(Told)
      /\ Cardinality(Places(b, Notices)) =
           IF ov = << >> THEN Cardinality(Places(a, Notices)) ELSE Cardinality(Places(a, Notices)) + 1
  <2>1. CASE ov = << >>
    BY <1>5, <2>1, ConcatEmptySeq
  <2>2. CASE ov # << >>
    <3>1. PICK w \in Notices: ov = <<w>>
      BY <1>2, <2>2
    <3>2. w \in Told
      BY DEF Notices
    <3>3. b = Append(a, w)
      BY <1>5, <3>1, <3>2, AppendIsConcat
    <3>4. Cardinality(Places(Append(a, w), Notices)) = Cardinality(Places(a, Notices)) + 1
      BY <1>5, <3>2, CountOne
    <3>5. Append(a, w) \in Seq(Told)
      BY <1>5, <3>2
    <3> QED
      BY <2>2, <3>3, <3>4, <3>5
  <2> QED
    BY <2>1, <2>2
<1> HIDE DEF b
<1>7. c \in Seq(Told) /\ Places(c, Notices) = Places(b, Notices)
  <2>1. \A i \in 1..Len(qu): qu[i] \notin Notices
    BY <1>1, QuietHasNone
  <2>2. c \in Seq(Told)
    BY <1>3, <1>6, ConcatProperties
  <2>3. Places(b \o qu, Notices) = Places(b, Notices)
    BY <1>3, <1>6, <2>1, CountNothing
  <2> QED
    BY <2>2, <2>3
<1>8. s \o (ws \o de) = c
  BY <1>1, <1>4 DEF a, b
<1> HIDE DEF c
<1> QED
  BY <1>5, <1>6, <1>7, <1>8 DEF ov, de

LEMMA CarryingCounts ==
  ASSUME scanned \in Seq(Record), NEW record \in Record, scanned' = Append(scanned, record), NEW subtype
  PROVE  Cardinality(Carrying(subtype)') =
           IF record.kind = "extension" /\ record.subtype = subtype
           THEN Cardinality(Carrying(subtype)) + 1 ELSE Cardinality(Carrying(subtype))
<1> DEFINE P == {r \in Record: r.kind = "extension" /\ r.subtype = subtype}
<1>1. scanned' \in Seq(Record)
  OBVIOUS
<1>2. \A i \in DOMAIN scanned: scanned[i] \in Record
  OBVIOUS
<1>3. \A i \in DOMAIN scanned': scanned'[i] \in Record
  BY <1>1
<1>4. Carrying(subtype) = Places(scanned, P)
  BY <1>2 DEF Carrying, Places
<1>5. Carrying(subtype)' = Places(Append(scanned, record), P)
  BY <1>3 DEF Carrying, Places
<1>6. record \in P <=> record.kind = "extension" /\ record.subtype = subtype
  OBVIOUS
<1> HIDE DEF P
<1>7. Cardinality(Places(Append(scanned, record), P)) =
        IF record \in P THEN Cardinality(Places(scanned, P)) + 1 ELSE Cardinality(Places(scanned, P))
  BY CountOne
<1> QED
  BY <1>4, <1>5, <1>6, <1>7

LEMMA KeptCounts ==
  ASSUME NEW T, records \in Seq(T), NEW p, NEW raised,
         records' = Append(records, [payload |-> p, warnings |-> raised]), NEW subtype
  PROVE  Cardinality(KeptOf(subtype)') =
           IF p.kind = "extension" /\ p.subtype = subtype
           THEN Cardinality(KeptOf(subtype)) + 1 ELSE Cardinality(KeptOf(subtype))
<1> DEFINE e == [payload |-> p, warnings |-> raised]
           U == T \cup {e}
           P == {r \in U: r.payload.kind = "extension" /\ r.payload.subtype = subtype}
<1>1. e.payload = p /\ records' = Append(records, e)
  OBVIOUS
<1> HIDE DEF e
<1>2. records \in Seq(U) /\ e \in U /\ records' \in Seq(U)
  BY <1>1
<1>3. \A i \in DOMAIN records: records[i] \in U
  BY <1>2
<1>4. \A i \in DOMAIN records': records'[i] \in U
  BY <1>2
<1> HIDE DEF U
<1>5. KeptOf(subtype) = Places(records, P)
  BY <1>3 DEF KeptOf, Places
<1>6. KeptOf(subtype)' = Places(Append(records, e), P)
  BY <1>1, <1>4 DEF KeptOf, Places
<1>7. e \in P <=> p.kind = "extension" /\ p.subtype = subtype
  BY <1>1, <1>2
<1> HIDE DEF P
<1>8. Cardinality(Places(Append(records, e), P)) =
        IF e \in P THEN Cardinality(Places(records, P)) + 1 ELSE Cardinality(Places(records, P))
  BY <1>2, CountOne
<1> QED
  BY <1>5, <1>6, <1>7, <1>8

LEMMA KeptStays ==
  ASSUME KeptInv, UNCHANGED <<retention, records, scanned>>
  PROVE  KeptInv'
BY DEF KeptInv, KeptOf, Carrying

LEMMA StepKept ==
  SkeletonInv /\ BufferInv /\ KeptInv /\ [ScanNext]_scanVars => KeptInv'
<1> SUFFICES ASSUME SkeletonInv, BufferInv, KeptInv, [ScanNext]_scanVars, retention' = "All",
                    NEW subtype \in DeclaresEncoding
             PROVE  Cardinality(KeptOf(subtype)') = Cardinality(Carrying(subtype)')
  BY DEF KeptInv
<1>1. scanned \in Seq(Record) /\ records \in Seq(Entry(Len(variables)))
  BY DEF SkeletonInv, AbsorbedTypeOK, BufferInv
<1>2. retention' = retention => Cardinality(KeptOf(subtype)) = Cardinality(Carrying(subtype))
  BY DEF KeptInv
<1>3. ASSUME NEW record \in Record, Read(record), NEW p, NEW raised, Buffer(p, raised),
             p.kind = "extension" <=> record.kind = "extension",
             p.kind = "extension" => p = record
      PROVE  Cardinality(KeptOf(subtype)') = Cardinality(Carrying(subtype)')
  <2>1. /\ scanned' = Append(scanned, record) /\ retention' = retention
        /\ records' = Append(records, [payload |-> p, warnings |-> raised])
    BY <1>3 DEF Read, Buffer
  <2>2. Cardinality(Carrying(subtype)') =
          IF record.kind = "extension" /\ record.subtype = subtype
          THEN Cardinality(Carrying(subtype)) + 1 ELSE Cardinality(Carrying(subtype))
    BY <1>1, <2>1, CarryingCounts
  <2>3. Cardinality(KeptOf(subtype)') =
          IF p.kind = "extension" /\ p.subtype = subtype
          THEN Cardinality(KeptOf(subtype)) + 1 ELSE Cardinality(KeptOf(subtype))
    BY <1>1, <2>1, KeptCounts
  <2>4. Cardinality(KeptOf(subtype)) = Cardinality(Carrying(subtype))
    BY <1>2, <2>1
  <2>5. p.kind = "extension" /\ p.subtype = subtype <=> record.kind = "extension" /\ record.subtype = subtype
    BY <1>3
  <2> QED
    BY <2>2, <2>3, <2>4, <2>5
<1>4. ASSUME UNCHANGED <<retention, records, scanned>>
      PROVE  Cardinality(KeptOf(subtype)') = Cardinality(Carrying(subtype)')
  BY <1>2, <1>4 DEF KeptOf, Carrying
<1>5. KeepsRecords \/ retention' # retention
  BY DEF KeepsRecords
<1>6. ASSUME NEW record \in VariableRecord, ReadPrimary(record)
      PROVE  Cardinality(KeptOf(subtype)') = Cardinality(Carrying(subtype)')
  <2>1. /\ record \in Record /\ record.kind # "extension" /\ Read(record)
        /\ Buffer(record, MissingCountWarning(record))
    BY <1>6 DEF ReadPrimary, Record, VariableRecord
  <2> QED
    BY <1>3, <2>1
<1>7. ASSUME NEW record \in VariableRecord, ReadContinuation(record)
      PROVE  Cardinality(KeptOf(subtype)') = Cardinality(Carrying(subtype)')
  <2>1. /\ record \in Record /\ record.kind # "extension" /\ scanned' = Append(scanned, record)
        /\ UNCHANGED <<retention, records>>
    BY <1>7 DEF ReadContinuation, Read, Record, VariableRecord
  <2>2. Cardinality(Carrying(subtype)') = Cardinality(Carrying(subtype))
    BY <1>1, <2>1, CarryingCounts
  <2>3. KeptOf(subtype)' = KeptOf(subtype)
    BY <2>1 DEF KeptOf
  <2> QED
    BY <1>2, <2>1, <2>2, <2>3
<1>8. ASSUME NEW record \in ValueLabels, ReadValueLabels(record)
      PROVE  Cardinality(KeptOf(subtype)') = Cardinality(Carrying(subtype)')
  <2> DEFINE p == [kind |-> "value_label", segments |-> SegmentsNamed(record.indices)]
  <2>1. /\ record \in Record /\ record.kind # "extension" /\ p.kind # "extension" /\ Read(record)
        /\ retention' = retention
        /\ KeepsRecords => Buffer(p, ValueLabelWarnings(record))
    BY <1>8 DEF ReadValueLabels, Read, Record, ValueLabels
  <2> HIDE DEF p
  <2> QED
    BY <1>3, <1>5, <2>1
<1>9. ASSUME NEW record \in Document \cup ExtensionRecord, ReadDocument(record) \/ ReadExtension(record)
      PROVE  Cardinality(KeptOf(subtype)') = Cardinality(Carrying(subtype)')
  <2>1. /\ record \in Record /\ Read(record) /\ retention' = retention
        /\ KeepsRecords => Buffer(record, << >>)
    BY <1>9 DEF ReadDocument, ReadExtension, Read, Record
  <2> QED
    BY <1>3, <1>5, <2>1
<1>10. ASSUME NEW kind, Stop(kind)
       PROVE  Cardinality(KeptOf(subtype)') = Cardinality(Carrying(subtype)')
  BY <1>4, <1>10 DEF Stop
<1>11. ASSUME NEW record \in VariableRecord, VariableFails(record)
       PROVE  Cardinality(KeptOf(subtype)') = Cardinality(Carrying(subtype)')
  BY <1>10, <1>11 DEF VariableFails
<1>12. ASSUME NEW record \in ValueLabels, ValueLabelsDangle(record)
       PROVE  Cardinality(KeptOf(subtype)') = Cardinality(Carrying(subtype)')
  BY <1>10, <1>12 DEF ValueLabelsDangle
<1>13. CASE ReadTerminator \/ RunCutShort \/ Unpaired \/ UnknownRecordType \/ ReadFails
  BY <1>10, <1>13 DEF ReadTerminator, RunCutShort, Unpaired, UnknownRecordType, ReadFails
<1>14. CASE UNCHANGED scanVars
  BY <1>4, <1>14 DEF scanVars
<1> QED
  BY <1>6, <1>7, <1>8, <1>9, <1>11, <1>12, <1>13, <1>14 DEF ScanNext

(* An override has nothing to say of its own. *)
LEMMA OverrideIsQuiet ==
  ASSUME NEW s, NEW l, NEW c, Resolve(s, l, c).provenance = "Overridden"
  PROVE  Resolve(s, l, c).warnings = << >>
<1>1. CASE s.override # Absent
  BY <1>1 DEF Resolve, Resolved
<1>2. CASE s.override = Absent
  <2>1. Resolve(s, l, c) = ResolveDeclared(s, l, c)
    BY <1>2 DEF Resolve
  <2>2. ASSUME NEW bad, NEW ws PROVE FallBack(s, bad, ws).provenance # "Overridden"
    BY DEF FallBack, Resolved, Failed
  <2>3. ResolveDeclared(s, l, c).provenance # "Overridden"
    BY <2>2 DEF ResolveDeclared, Resolved
  <2> QED
    BY <2>1, <2>3
<1> QED
  BY <1>1, <1>2

LEMMA OverrideStays ==
  ASSUME OverrideInv, UNCHANGED <<retention, encoding, label, codepage, records, cursor, passed, shown>>,
         phase' = phase \/ phase' # "pulling"
  PROVE  OverrideInv'
<1>1. \A p: Overriding(p)' = Overriding(p)
  BY DecodingStays
<1>2. Telling(cursor)' = Telling(cursor)
  BY <1>1 DEF Telling, Overriding, OverrideWarnings
<1>3. EverythingRead' = EverythingRead
  BY DEF EverythingRead
<1> QED
  BY <1>2, <1>3 DEF OverrideInv

LEMMA ReadingTellsOnce ==
  ASSUME DictionaryInv, WarningInv, OverrideInv, ReadRecord
  PROVE  OverrideInv'
<1> SUFFICES ASSUME encoding'.provenance = "Overridden", EverythingRead'
             PROVE  /\ shown' \in Seq(Told)
                    /\ Cardinality(Places(shown', Notices)) = Cardinality(Telling(cursor)')
  BY DEF OverrideInv
<1>1. /\ phase = "pulling" /\ retention = "All" /\ cursor < Len(records)
      /\ cursor' = cursor + 1 /\ passed' = Append(passed, "read")
      /\ shown' = shown \o ReadWarnings
      /\ UNCHANGED <<encoding, label, codepage, records>>
  BY DEF ReadRecord, Pulling, Take, Shows, unresolvedVars
<1>2. /\ cursor \in Nat /\ Len(records) \in Nat /\ cursor + 1 \in 1..Len(records)
      /\ passed \in Seq(HowTaken)
  BY <1>1 DEF DictionaryInv, ReaderInv, BufferInv, WarningInv
<1>3. EverythingRead
  <2>1. \A i \in DOMAIN passed: i \in DOMAIN passed' /\ passed'[i] = passed[i]
    BY <1>1, <1>2
  <2>2. \A i \in DOMAIN passed': passed'[i] = "read"
    BY DEF EverythingRead
  <2> QED
    BY <2>1, <2>2 DEF EverythingRead
<1>4. shown \in Seq(Told) /\ Cardinality(Places(shown, Notices)) = Cardinality(Telling(cursor))
  BY <1>1, <1>3 DEF OverrideInv
<1> DEFINE k  == cursor + 1
           p  == Next1.payload
           ws == Next1.warnings
<1>5. ws \in Seq(Quiet)
  <2>1. records[cursor + 1].warnings \in Seq(Quiet)
    BY <1>2, SaidTyped DEF DictionaryInv
  <2> QED
    BY <2>1 DEF Next1
<1>6. p = records[k].payload /\ p \in Payload
  BY <1>2, SaidTyped DEF DictionaryInv, Next1
<1>7. shown' = shown \o (ws \o DecodeWarnings(p))
  BY <1>1 DEF ReadWarnings
<1>8. Telling(cursor)' = {i \in 1..k: Overriding(records[i].payload) # << >>}
  <2>1. \A q: Overriding(q)' = Overriding(q)
    BY <1>1, DecodingStays
  <2> QED
    BY <1>1, <2>1 DEF Telling, Overriding, OverrideWarnings
<1> HIDE DEF p, ws
<1>9. /\ shown' \in Seq(Told)
      /\ Cardinality(Places(shown', Notices)) =
           IF Overriding(p) = << >> THEN Cardinality(Places(shown, Notices))
           ELSE Cardinality(Places(shown, Notices)) + 1
  BY <1>4, <1>5, <1>6, <1>7, NoticesGrow
<1> DEFINE old == Telling(cursor)
           new == Telling(cursor)'
<1>10. IsFiniteSet(old) /\ k \notin old
  <2>1. old \in SUBSET (1..cursor)
    BY DEF Telling
  <2>2. IsFiniteSet(1..cursor)
    BY <1>2, FS_Interval
  <2>3. IsFiniteSet(old)
    BY <2>1, <2>2, FS_Subset
  <2> QED
    BY <1>2, <2>1, <2>3
<1>11. old = {i \in 1..cursor: Overriding(records[i].payload) # << >>}
  BY DEF Telling
<1>12. \A i: i \in 1..k <=> i \in 1..cursor \/ i = k
  BY <1>2
<1> HIDE DEF old, new, k
<1>13. new = IF Overriding(p) = << >> THEN old ELSE old \cup {k}
  BY <1>6, <1>8, <1>11, <1>12 DEF new
<1>14. Cardinality(new) = IF Overriding(p) = << >> THEN Cardinality(old) ELSE Cardinality(old) + 1
  BY <1>10, <1>13, FS_AddElement
<1> QED
  BY <1>4, <1>9, <1>14 DEF old, new

LEMMA StepOverride == DictionaryInv /\ WarningInv /\ OverrideInv /\ [Next]_vars => OverrideInv'
<1> SUFFICES ASSUME DictionaryInv, WarningInv, OverrideInv, [Next]_vars PROVE OverrideInv'
  OBVIOUS
<1>1. ASSUME phase' # "pulling" PROVE OverrideInv'
  BY <1>1 DEF OverrideInv
<1>2. CASE Scan \/ ScanFails \/ IntoRecordReader
  <2>1. phase' # "pulling"
    BY <1>2 DEF Scan, ScanFails, IntoRecordReader, readerVars
  <2> QED
    BY <1>1, <2>1
<1>3. CASE ResolveEncoding
  <2> SUFFICES ASSUME phase' = "pulling", retention' = "All", encoding'.provenance = "Overridden"
               PROVE  /\ shown' \in Seq(Told)
                      /\ Cardinality(Places(shown', Notices)) = Cardinality(Telling(cursor)')
    BY DEF OverrideInv
  <2> DEFINE resolved == Resolve(strategy, DeclaredLabel, DeclaredCode)
  <2>1. /\ phase = "opening" /\ encoding' = resolved /\ cursor' = cursor
        /\ retention = "All" => shown' = shown \o (warnings \o resolved.warnings)
        /\ retention' = retention
    BY <1>3 DEF ResolveEncoding, unresolvedVars, Shows
  <2>2. warnings = HeaderWarnings /\ shown = << >> /\ cursor = 0
    BY <2>1 DEF WarningInv, DictionaryInv, ReaderInv
  <2>3. resolved.warnings = << >>
    BY <2>1, OverrideIsQuiet
  <2> HIDE DEF resolved
  <2>4. shown' = HeaderWarnings
    <3>1. HeaderWarnings \o << >> = HeaderWarnings /\ << >> \o HeaderWarnings = HeaderWarnings
      BY HeaderWarningsQuiet, ConcatEmptySeq
    <3> QED
      BY <2>1, <2>2, <2>3, <3>1
  <2>5. shown' \in Seq(Told) /\ Cardinality(Places(shown', Notices)) = 0
    BY <2>4, HeaderWarningsQuiet, QuietTold, NoneInQuiet
  <2>6. Telling(cursor)' = {}
    BY <2>1, <2>2 DEF Telling
  <2> QED
    BY <2>5, <2>6, FS_EmptySet
<1>4. CASE ReadRecord
  BY <1>4, ReadingTellsOnce
<1>5. CASE SkipRecord
  <2>1. passed' = Append(passed, "skipped") /\ passed \in Seq(HowTaken)
    BY <1>5 DEF SkipRecord, Take, WarningInv
  <2>2. Len(passed) + 1 \in DOMAIN passed' /\ passed'[Len(passed) + 1] = "skipped"
    BY <2>1
  <2>3. ~EverythingRead'
    BY <2>2 DEF EverythingRead
  <2> QED
    BY <2>3 DEF OverrideInv
<1>6. CASE NoRecordLeft
  <2>1. /\ UNCHANGED <<retention, encoding, label, codepage, records, cursor, passed, shown>>
        /\ phase' = phase
    BY <1>6 DEF NoRecordLeft, ShowsNothing, unresolvedVars
  <2> QED
    BY <2>1, OverrideStays
<1>7. CASE UNCHANGED vars
  <2>1. /\ UNCHANGED <<retention, encoding, label, codepage, records, cursor, passed, shown>>
        /\ phase' = phase
    BY <1>7 DEF vars, scanVars, readerVars
  <2> QED
    BY <2>1, OverrideStays
<1> QED
  BY <1>2, <1>3, <1>4, <1>5, <1>6, <1>7 DEF Next

(* Which record decides, when the file names an encoding at all: one that it carries. *)
LEMMA DeclarationIsCarried ==
  ASSUME SkeletonInv
  PROVE  LET declared == DeclaredEncoding(DeclaredLabel, DeclaredCode)
         IN  \/ declared.provenance \in Failures /\ DecidingSubtype(declared.provenance) = {}
             \/ /\ declared.provenance \notin Failures
                /\ \E subtype \in DeclaresEncoding:
                     /\ DecidingSubtype(declared.provenance) = {subtype}
                     /\ Carrying(subtype) # {}
<1> DEFINE declared == DeclaredEncoding(DeclaredLabel, DeclaredCode)
           s        == HonourDeclared(Absent, Absent)
           byLabel  == NamedByLabel(DeclaredLabel)
           byCode   == NamedByCode(DeclaredCode)
<1>1. declared = ResolveDeclared(s, DeclaredLabel, DeclaredCode)
  BY DEF DeclaredEncoding
<1>2. s.unspecified = Absent /\ s.unrecognized = Absent
  BY DEF HonourDeclared
<1>3. CASE byLabel \in Encodings
  <2>1. declared.provenance = "Label"
    BY <1>1, <1>3 DEF ResolveDeclared, Resolved
  <2>2. DeclaredLabel # Absent
    BY <1>3, EncodingsAssumption DEF NamedByLabel
  <2>3. LastOf(CharacterEncoding) # Undeclared
    BY <2>2 DEF DeclaredLabel, SkeletonInv
  <2>4. Carrying(CharacterEncoding) # {}
    BY <2>3 DEF LastOf
  <2>5. DecidingSubtype(declared.provenance) = {CharacterEncoding} /\ CharacterEncoding \in DeclaresEncoding
    BY <2>1 DEF DecidingSubtype, DeclaresEncoding
  <2>6. declared.provenance \notin Failures
    BY <2>1 DEF Failures
  <2> QED
    BY <2>4, <2>5, <2>6
<1>4. CASE byLabel \notin Encodings /\ byCode \in Encodings
  <2>1. declared.provenance = "Codepage"
    BY <1>1, <1>4 DEF ResolveDeclared, Resolved
  <2>2. DeclaredCode # Absent
    BY <1>4, EncodingsAssumption DEF NamedByCode
  <2>3. LastOf(MachineIntegerInfo) # Undeclared
    BY <2>2 DEF DeclaredCode, SkeletonInv
  <2>4. Carrying(MachineIntegerInfo) # {}
    BY <2>3 DEF LastOf
  <2>5. DecidingSubtype(declared.provenance) = {MachineIntegerInfo} /\ MachineIntegerInfo \in DeclaresEncoding
    BY <2>1 DEF DecidingSubtype, DeclaresEncoding
  <2>6. declared.provenance \notin Failures
    BY <2>1 DEF Failures
  <2> QED
    BY <2>4, <2>5, <2>6
<1>5. CASE byLabel \notin Encodings /\ byCode \notin Encodings
  <2>1. ASSUME NEW bad, NEW ws PROVE FallBack(s, bad, ws).provenance \in Failures
    BY <1>2 DEF FallBack, Failed, Failures
  <2>2. declared.provenance \in Failures
    <3>1. declared = FallBack(s, NoEncoding \in {byLabel, byCode},
                              UnrecognizedWarnings(byLabel) \o UnrecognizedWarnings(byCode))
      BY <1>1, <1>5 DEF ResolveDeclared
    <3> QED
      BY <2>1, <3>1
  <2>3. DecidingSubtype(declared.provenance) = {}
    BY <2>2 DEF DecidingSubtype, Failures
  <2> QED
    BY <2>2, <2>3
<1> QED
  BY <1>3, <1>4, <1>5

LEMMA ReportedOnce ==
  ASSUME DictionaryInv, KeptInv, OverrideInv
  PROVE  OverrideReportedOnce
<1> DEFINE declared == DeclaredEncoding(DeclaredLabel, DeclaredCode)
           differs  == declared.provenance \notin Failures /\ declared.encoding # encoding.encoding
<1> SUFFICES ASSUME phase = "pulling", cursor = Len(records), retention = "All",
                    \A i \in DOMAIN passed: passed[i] = "read",
                    \A subtype \in DeclaresEncoding: Cardinality(Carrying(subtype)) <= 1,
                    encoding.provenance = "Overridden"
             PROVE  Reported("EncodingOverridden") = IF differs THEN 1 ELSE 0
  BY DEF OverrideReportedOnce
<1>1. shown \in Seq(Told) /\ Cardinality(Places(shown, Notices)) = Cardinality(Telling(cursor))
  BY DEF OverrideInv, EverythingRead
<1>2. Reported("EncodingOverridden") = Cardinality(Places(shown, Notices))
  <2>1. \A i \in DOMAIN shown: shown[i] \in Told
    BY <1>1
  <2>2. \A i \in DOMAIN shown: shown[i] \in Notices <=> shown[i].warning = "EncodingOverridden"
    BY <2>1 DEF Notices
  <2> QED
    BY <2>2 DEF Reported, Places
<1>3. Telling(cursor) = {i \in DOMAIN records: Overriding(records[i].payload) # << >>}
  <2>1. DOMAIN records = 1..cursor
    BY DEF DictionaryInv, BufferInv
  <2> QED
    BY <2>1 DEF Telling
<1>4. \A p: Overriding(p) # << >> <=>
              /\ p.kind = "extension" /\ p.subtype \in DecidingSubtype(declared.provenance)
              /\ declared.encoding # encoding.encoding
  <2>1. <<[warning |-> "EncodingOverridden"]>> # << >>
    OBVIOUS
  <2> QED
    BY <2>1 DEF Overriding, OverrideWarnings
<1> HIDE DEF declared
<1>5. \/ declared.provenance \in Failures /\ DecidingSubtype(declared.provenance) = {}
      \/ /\ declared.provenance \notin Failures
         /\ \E subtype \in DeclaresEncoding:
              /\ DecidingSubtype(declared.provenance) = {subtype}
              /\ Carrying(subtype) # {}
  BY DeclarationIsCarried DEF declared, DictionaryInv
<1>6. CASE ~differs
  <2>1. Telling(cursor) = {}
    BY <1>3, <1>4, <1>5, <1>6
  <2>2. Cardinality(Telling(cursor)) = 0
    BY <2>1, FS_EmptySet
  <2> QED
    BY <1>1, <1>2, <1>6, <2>2
<1>7. CASE differs
  <2>1. PICK subtype \in DeclaresEncoding:
          /\ DecidingSubtype(declared.provenance) = {subtype}
          /\ Carrying(subtype) # {}
    BY <1>5, <1>7
  <2>2. Telling(cursor) = KeptOf(subtype)
    BY <1>3, <1>4, <1>7, <2>1 DEF KeptOf
  <2>3. Cardinality(KeptOf(subtype)) = Cardinality(Carrying(subtype))
    BY DEF KeptInv
  <2>4. Cardinality(Carrying(subtype)) = 1
    <3>1. scanned \in Seq(Record)
      BY DEF DictionaryInv, SkeletonInv, AbsorbedTypeOK
    <3>2. Carrying(subtype) \in SUBSET (1..Len(scanned)) /\ Len(scanned) \in Nat
      BY <3>1 DEF Carrying
    <3>3. IsFiniteSet(Carrying(subtype))
      <4>1. IsFiniteSet(1..Len(scanned))
        BY <3>2, FS_Interval
      <4> QED
        BY <3>2, <4>1, FS_Subset
    <3>4. Cardinality(Carrying(subtype)) \in Nat /\ Cardinality(Carrying(subtype)) # 0
      BY <2>1, <3>3, FS_CardinalityType, FS_EmptySet
    <3>5. Cardinality(Carrying(subtype)) <= 1
      OBVIOUS
    <3> QED
      BY <3>4, <3>5
  <2> QED
    BY <1>1, <1>2, <1>7, <2>2, <2>3, <2>4
<1> QED
  BY <1>6, <1>7

(* What is said of a record is found after the one call that took it, what the layout  *)
(* and the schema have to say after the transition, the same whatever the caller did;    *)
(* and an override that a file contradicts is reported once to a caller who reads          *)
(* everything (DictionaryReader::warnings, into_record_reader, warn_if_override_disagrees). *)
THEOREM DictionaryWarningsFollowTheirCalls == Spec => []WarningsFollowTheirCalls
<1> DEFINE Inv == DictionaryInv /\ RepeatsInv /\ WarningInv /\ KeptInv /\ OverrideInv
<1>1. Init => Inv
  <2> SUFFICES ASSUME Init PROVE Inv
    OBVIOUS
  <2>1. records = << >> /\ scanned = << >> /\ phase = "opening"
    BY DEF Init, ScanInit
  <2>2. KeptInv
    BY <2>1 DEF KeptInv, KeptOf, Carrying
  <2>3. OverrideInv
    BY <2>1 DEF OverrideInv
  <2> QED
    BY <2>2, <2>3, InitDictionary, InitRepeats, InitWarnings
<1>2. Inv /\ [Next]_vars => Inv'
  <2> SUFFICES ASSUME Inv, [Next]_vars PROVE KeptInv'
    BY StepDictionary, StepRepeats, StepWarnings, StepOverride
  <2>1. CASE Scan
    BY <2>1, StepKept DEF Scan, DictionaryInv
  <2>2. CASE ~Scan
    <3>1. UNCHANGED <<retention, records, scanned>>
      BY <2>2 DEF Next, vars, scanVars, ScanFails, ResolveEncoding, ReadRecord, SkipRecord,
                  NoRecordLeft, IntoRecordReader, Take, unresolvedVars
    <3> QED
      BY <3>1, KeptStays
  <2> QED
    BY <2>1, <2>2
<1>3. Inv => WarningsFollowTheirCalls
  BY ReportedOnce DEF WarningInv, WarningsFollowTheirCalls
<1> QED
  BY <1>1, <1>2, <1>3, PTL DEF Spec

===================================================================================
