----------------------------- MODULE DictionaryReader -----------------------------
(* From a SavReader to a RecordReader: the walk over the dictionary, the choice  *)
(* of the encoding, the records handed out or passed over one call at a time, and *)
(* the transition that folds what is left into the schema and takes the layout    *)
(* from the skeleton.  A caller that goes straight to the rows keeps nothing and  *)
(* has no reader in its hands in between.                                         *)
EXTENDS DictionaryScan, EncodingResolution, SequencesExt

CONSTANTS
  Strategies,             \* bound: the encoding strategies the callers choose
  Remarks(_, _),          \* what the parser of a subtype warns of as it reads a payload
  LayoutWarnings(_, _),   \* what building a layout warns of: the variables, its records
  SchemaWarnings(_, _)    \* what building a schema warns of: what it was fed, the layout

(* Two parsers raise warnings of their own: the cross-check of subtype 3 against the *)
(* header, once all of it is read, and the lengths subtype 22 repeats, as they come,  *)
(* whatever becomes of the rest of the record.                                       *)
ParserNames == {"HeaderByteOrderMismatch", "HeaderFloatFormatMismatch",
                "RepeatedLongMissingValueLength"}
LongMissingValues == 22
ASSUME RemarksAssumption ==
  \A subtype \in Subtypes, payload \in Labels \cup Unreadables:
    /\ Remarks(subtype, payload) \in Seq([warning: ParserNames])
    /\ \/ subtype \notin {MachineIntegerInfo, LongMissingValues}
       \/ subtype = MachineIntegerInfo /\ payload \in Unreadables
       => Remarks(subtype, payload) = << >>

VARIABLES
  phase,      \* "opening", "pulling", "reading" or "failed"
  strategy,   \* the reader's EncodingStrategy
  encoding,   \* encoding_provenance: what Resolve answered
  cursor,     \* how many records have left the buffer
  schema,     \* what the schema builder was fed, in order
  layout,     \* the layout-bearing records in force, by subtype
  outcome,    \* what the last call returned
  passed,     \* history: how each record left: "read", "skipped" or "drained"
  shown       \* history: every warning a caller could look at after a call

readerVars == <<phase, strategy, encoding, cursor, schema, layout, outcome, passed, shown>>
vars == <<scanVars, readerVars>>

Unset == "unset"
LayoutSubtypes == LayoutBearing \cap Subtypes

Init ==
  /\ ScanInit
  /\ phase = "opening"
  /\ strategy \in Strategies
  /\ encoding = Failed("unresolved")
  /\ cursor = 0
  /\ schema = << >>
  /\ layout = [subtype \in LayoutSubtypes |-> Unset]
  /\ outcome = "none"
  /\ passed = << >>
  /\ shown = << >>

-----------------------------------------------------------------------------------
(* Opening *)

Scan == phase = "opening" /\ ScanNext /\ UNCHANGED readerVars

ScanFails ==
  /\ phase = "opening"
  /\ scanning \in Errors
  /\ phase' = "failed"
  /\ outcome' = "error"
  /\ UNCHANGED <<scanVars, strategy, encoding, cursor, schema, layout, passed, shown>>

DeclaredLabel == IF label = Undeclared THEN Absent ELSE label
DeclaredCode  == IF codepage = Undeclared THEN Absent ELSE codepage

(* The warnings of a call are what the caller finds when it returns. *)
Shows(found) == warnings' = found /\ shown' = shown \o found
ShowsNothing == warnings' = << >> /\ UNCHANGED shown

unresolvedVars == <<retention, scanning, pending, physical, primaries, variables,
                    envelopes, label, codepage, records, scanned>>

(* into_dictionary_reader_retaining, once the walk is done. *)
ResolveEncoding ==
  LET resolved == Resolve(strategy, DeclaredLabel, DeclaredCode)
  IN  /\ phase = "opening"
      /\ scanning = "done"
      /\ encoding' = resolved
      /\ IF resolved.provenance \in Failures
         THEN /\ phase' = "failed"
              /\ outcome' = "error"
              /\ UNCHANGED <<warnings, shown>>
         ELSE /\ phase' = "pulling"
              /\ outcome' = "reader"
              /\ IF retention = "All"
                 THEN Shows(warnings \o resolved.warnings)
                 ELSE warnings' = warnings \o resolved.warnings /\ UNCHANGED shown
      /\ UNCHANGED <<unresolvedVars, strategy, cursor, schema, layout, passed>>

-----------------------------------------------------------------------------------
(* Handing records out *)

(* Mutant: either declaring record reports the override. *)
DecidingSubtypeEither(provenance) ==
  IF provenance \in {"Label", "Codepage"} THEN DeclaresEncoding ELSE {}

(* warn_if_override_disagrees: the record that would have decided. *)
DecidingSubtype(provenance) ==
  IF provenance = "Label" THEN {CharacterEncoding}
  ELSE IF provenance = "Codepage" THEN {MachineIntegerInfo} ELSE {}

OverrideWarnings(payload) ==
  LET declared == DeclaredEncoding(DeclaredLabel, DeclaredCode)
  IN  IF /\ encoding.provenance = "Overridden"
         /\ payload.subtype \in DecidingSubtype(declared.provenance)
         /\ declared.encoding # encoding.encoding
      THEN <<[warning |-> "EncodingOverridden"]>> ELSE << >>

Unrecognized == Subtypes \ {3, 4, 5, 7, 10, 11, 12, 13, 14, 16, 17, 18, 19, 20, 21, 22}

(* decode_extension_record: a payload its parser rejects is kept as it is, and what *)
(* the parser had said by then stays said.                                         *)
ExtensionWarnings(payload) ==
  OverrideWarnings(payload)
  \o (IF payload.subtype \in Unrecognized
      THEN <<[warning |-> "UnknownExtensionSubtype"]>>
      ELSE Remarks(payload.subtype, payload.payload)
           \o (IF payload.payload \in Unreadables
               THEN <<[warning |-> "UnreadableExtensionRecord"]>> ELSE << >>))

DecodeWarnings(payload) ==
  IF payload.kind = "extension" THEN ExtensionWarnings(payload) ELSE << >>

(* accumulate: what the schema builder takes of a decoded record. *)
SchemaSubtypes == {11, 18, 21}
Accumulates(payload) ==
  \/ payload.kind \in {"variable", "value_label"}
  \/ /\ payload.kind = "extension"
     /\ payload.subtype \in SchemaSubtypes
     /\ payload.payload \notin Unreadables

Accumulate(payload) == IF Accumulates(payload) THEN <<payload>> ELSE << >>

(* Mutant: long value labels are forgotten among the kinds a skip must decode. *)
SchemaDrawsOnMost(payload) ==
  \/ payload.kind \in {"variable", "value_label"}
  \/ payload.kind = "extension" /\ payload.subtype \in {11, 18}

(* Mutant: variables are forgotten among them. *)
SchemaDrawsOnLabels(payload) ==
  \/ payload.kind = "value_label"
  \/ payload.kind = "extension" /\ payload.subtype \in SchemaSubtypes

(* schema_draws_on *)
SchemaDrawsOn(payload) ==
  \/ payload.kind \in {"variable", "value_label"}
  \/ payload.kind = "extension" /\ payload.subtype \in SchemaSubtypes

Pulling == phase = "pulling" /\ retention = "All"

Next1 == records[cursor + 1]
ReadWarnings == Next1.warnings \o DecodeWarnings(Next1.payload)

(* Mutant: what the call before left is not cleared. *)
TakeKeeping(how, found) ==
  /\ cursor' = cursor + 1
  /\ passed' = Append(passed, how)
  /\ outcome' = how
  /\ Shows(warnings \o found)
  /\ UNCHANGED <<unresolvedVars, phase, strategy, encoding, layout>>

(* next_record: the record leaves the buffer for good, and the call's warnings are *)
(* the only ones there.                                                            *)
Take(how, found) ==
  /\ cursor' = cursor + 1
  /\ passed' = Append(passed, how)
  /\ outcome' = how
  /\ Shows(found)
  /\ UNCHANGED <<unresolvedVars, phase, strategy, encoding, layout>>

ReadRecord ==
  /\ Pulling
  /\ cursor < Len(records)
  /\ Take("read", ReadWarnings)
  /\ schema' = schema \o Accumulate(Next1.payload)

(* A record the schema draws on is decoded all the same. *)
SkipRecord ==
  /\ Pulling
  /\ cursor < Len(records)
  /\ IF SchemaDrawsOn(Next1.payload)
     THEN /\ Take("skipped", ReadWarnings)
          /\ schema' = schema \o Accumulate(Next1.payload)
     ELSE Take("skipped", << >>) /\ UNCHANGED schema

(* Reading or skipping when nothing is left. *)
NoRecordLeft ==
  /\ Pulling
  /\ cursor = Len(records)
  /\ outcome' = "none"
  /\ ShowsNothing
  /\ UNCHANGED <<unresolvedVars, phase, strategy, encoding, cursor, schema, layout, passed>>

-----------------------------------------------------------------------------------
(* On to the rows *)

Payloads == [i \in DOMAIN records |-> records[i].payload]
Accumulated(payloads) == FlattenSeq([i \in DOMAIN payloads |-> Accumulate(payloads[i])])

EnvelopesOf(subtype) == {i \in DOMAIN envelopes: envelopes[i].subtype = subtype}

(* Mutant: a subtype is set once. *)
InForceFirst(subtype) ==
  IF EnvelopesOf(subtype) = {} THEN Unset ELSE envelopes[Min(EnvelopesOf(subtype))].payload

(* finalize_from_skeleton: each setter of the layout builder replaces what an       *)
(* earlier record of its subtype set.                                               *)
InForce(subtype) ==
  IF EnvelopesOf(subtype) = {} THEN Unset ELSE envelopes[Max(EnvelopesOf(subtype))].payload

AllReadable == \A i \in DOMAIN envelopes: envelopes[i].payload \notin Unreadables

(* The layout's records are parsed once more, and of them only subtype 22 has        *)
(* warnings to raise.                                                               *)
RepeatedIn(envelope) ==
  IF envelope.subtype = LongMissingValues
  THEN Remarks(envelope.subtype, envelope.payload) ELSE << >>

Repeats(taken) == FlattenSeq([i \in DOMAIN taken |-> RepeatedIn(taken[i])])

LayoutInForce == [subtype \in LayoutSubtypes |-> InForce(subtype)]

(* Mutant: what draining the records left behind is not cleared. *)
FinalizeWarningsOfDrained(fed) ==
  FlattenSeq([i \in 1..Len(records) - cursor |-> DecodeWarnings(records[cursor + i].payload)])
  \o Repeats(envelopes)
  \o LayoutWarnings(variables, LayoutInForce)
  \o SchemaWarnings(fed, LayoutInForce)

(* finalize_from_skeleton and SavSchemaBuilder::build, in that order. *)
FinalizeWarnings(fed) ==
  Repeats(envelopes)
  \o LayoutWarnings(variables, LayoutInForce)
  \o SchemaWarnings(fed, LayoutInForce)

(* into_record_reader: what is left is read and folded in, its warnings cleared     *)
(* with the call's own; then the layout and the schema are built, and what that     *)
(* had to say is what the new reader starts with.                                   *)
IntoRecordReader ==
  /\ phase = "pulling"
  /\ cursor' = Len(records)
  /\ passed' = passed \o [i \in 1..Len(records) - cursor |-> "drained"]
  /\ schema' = schema \o Accumulated(SubSeq(Payloads, cursor + 1, Len(records)))
  /\ IF AllReadable
     THEN /\ layout' = LayoutInForce
          /\ phase' = "reading"
          /\ outcome' = "reader"
          /\ Shows(FinalizeWarnings(schema'))
     ELSE /\ UNCHANGED layout
          /\ phase' = "failed"
          /\ outcome' = "error"
          /\ ShowsNothing
  /\ UNCHANGED <<unresolvedVars, strategy, encoding>>

Next ==
  \/ Scan
  \/ ScanFails
  \/ ResolveEncoding
  \/ ReadRecord
  \/ SkipRecord
  \/ NoRecordLeft
  \/ IntoRecordReader

Spec == Init /\ [][Next]_vars

-----------------------------------------------------------------------------------
(* Properties *)

(* No mix of records read, passed over and left for the transition leaves a hole in  *)
(* the schema: it is fed every record it draws on, once, in the file's order          *)
(* (skip_record: "No sequence of calls here can leave the schema with a hole in it"). *)
SchemaHasNoHoles == phase = "reading" => schema = Accumulated(Payloads)

TypeOfVariable(payload) == IF payload.kind = "variable" THEN <<payload.type>> ELSE << >>
TypesIn(payloads) == FlattenSeq([i \in DOMAIN payloads |-> TypeOfVariable(payloads[i])])

(* The schema's variables come from the records handed out and the layout's segments *)
(* from the skeleton.  The schema is built by walking the one with positions taken    *)
(* from the other, so they must be the same variables, and the segments a value-label *)
(* set names must exist (SavSchemaBuilder::build).                                    *)
SchemaFitsTheLayout ==
  phase = "reading" =>
    /\ TypesIn(schema) = variables
    /\ \A i \in DOMAIN schema:
         schema[i].kind = "value_label" =>
           \A k \in DOMAIN schema[i].segments: schema[i].segments[k] < Len(variables)

(* Does not hold: a record that cannot be read is refused by read_record, as its doc says  *)
(* ("when an extension record's payload does not match its subtype's declared shape"), or    *)
(* at least, as the doc of the peek says, "simply does not contribute to resolution"; a       *)
(* declaration that takes back the one before it is handed out without an error.               *)
UnreadableIsRefusedOrIgnored ==
  (\E i \in 1..cursor: passed[i] = "read" /\ records[i].payload.kind = "extension"
                         /\ records[i].payload.payload \in Unreadables)
    => UnreadableDoesNotContribute

(* The layout is the file's: the last record of each subtype the layout depends on,   *)
(* whatever was retained, read, passed over or left (into_record_reader: "the layout  *)
(* independent of every filtering choice").                                           *)
LayoutIgnoresTheCaller ==
  phase = "reading" =>
    \A subtype \in LayoutSubtypes:
      layout[subtype] = IF Carrying(subtype) = {} THEN Unset
                        ELSE scanned[Max(Carrying(subtype))].payload

Opening == HeaderWarnings \o Resolve(strategy, DeclaredLabel, DeclaredCode).warnings

(* What the call that took the i-th record had to say of it. *)
SaidOf(i) ==
  IF passed[i] = "read" \/ (passed[i] = "skipped" /\ SchemaDrawsOn(records[i].payload))
  THEN records[i].warnings \o DecodeWarnings(records[i].payload)
  ELSE << >>

Reported(warning) ==
  Cardinality({i \in DOMAIN shown: shown[i].warning = warning})

(* When an override displaces what a file declares, a caller who reads every record   *)
(* is told so once, although the file may declare at two places.                      *)
OverrideReportedOnce ==
  LET declared == DeclaredEncoding(DeclaredLabel, DeclaredCode)
  IN  /\ phase = "pulling"
      /\ cursor = Len(records)
      /\ retention = "All"
      /\ \A i \in DOMAIN passed: passed[i] = "read"
      /\ \A subtype \in DeclaresEncoding: Cardinality(Carrying(subtype)) <= 1
      /\ encoding.provenance = "Overridden"
      => Reported("EncodingOverridden") =
           IF declared.provenance \notin Failures /\ declared.encoding # encoding.encoding
           THEN 1 ELSE 0

(* The widths the file's own long missing values repeat, in the file's order. *)
RepeatsOnFile ==
  FlattenSeq([i \in DOMAIN scanned |-> Repeats(Envelope(scanned[i]))])

TransitionSays ==
  RepeatsOnFile
  \o LayoutWarnings(variables, layout)
  \o SchemaWarnings(Accumulated(Payloads), layout)

SaidSoFar ==
  IF retention = "All" THEN Opening \o FlattenSeq([i \in 1..cursor |-> SaidOf(i)]) ELSE << >>

(* Every warning is found after the call it belongs to.  What is said of a record comes *)
(* after the one call that took it: not with another record, nor lost for having been   *)
(* raised while the dictionary was buffered, nor said of a record that was passed over  *)
(* or drained; the override of the encoding is told at one record ("warns once rather    *)
(* than twice").  What the layout and the schema have to say comes with the reader of    *)
(* the rows and says the same whatever the caller did, so a width repeated in subtype 22 *)
(* is told with its record and again there.  A caller that goes straight to the rows is  *)
(* told that much and nothing else (DictionaryReader::warnings, into_record_reader).     *)
WarningsFollowTheirCalls ==
  /\ phase = "pulling" => shown = SaidSoFar
  /\ phase = "reading" => shown = SaidSoFar \o TransitionSays /\ warnings = TransitionSays
  /\ OverrideReportedOnce

===================================================================================
