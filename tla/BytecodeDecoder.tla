------------------------------ MODULE BytecodeDecoder -----------------------------
(* BytecodeDecoder::fill_row, one step of its loop at a time.  A group holds     *)
(* GroupLen commands; the decoder keeps a partly executed group from one row to  *)
(* the next, and a verbatim command takes its payload from the same source the   *)
(* groups come from.                                                             *)
(*                                                                               *)
(* The bytes of a row are abstracted to where they come from: the unit a payload *)
(* was, or the command that stands for a value.                                  *)
EXTENDS DataUnitSource

CONSTANT Unencodable   \* inline codes whose value the file's float format cannot hold

ASSUME UnencodableAssumption == Unencodable \subseteq InlineCodes

VARIABLES
  rowLen,     \* RowCoding::row_len, in units: a constant of the file
  group,      \* the command group being executed
  consumed,   \* how many of its commands have run
  finished,   \* the stream has ended, by marker or by exhaustion
  row         \* the units produced for the row being filled

decoderVars == <<group, consumed, finished>>

(* A unit of output: a literal written by a command, or the at-th unit taken.     *)
Cell == [by: Command, at: Nat]
Literal(command) == [by |-> command, at |-> 0]
Payload(at)      == [by |-> Verbatim, at |-> at]

DecoderTypeOK ==
  /\ group \in Unit
  /\ consumed \in 0..GroupLen
  /\ finished \in BOOLEAN
  /\ row \in Seq(Cell)

(* Default for BytecodeDecoder: no group in hand. *)
DecoderInit ==
  /\ group = [i \in 1..GroupLen |-> Padding]
  /\ consumed = GroupLen
  /\ finished = FALSE

-----------------------------------------------------------------------------------
(* Mutant: one command too many is run for every row. *)
RowFullLate == Len(row) > rowLen

RowFull   == Len(row) >= rowLen
NeedGroup == ~RowFull /\ consumed = GroupLen

(* next_command, when the group in hand is spent: a unit becomes the next group. *)
FetchGroup(unit) ==
  /\ NeedGroup
  /\ NextUnit(unit)
  /\ group' = unit
  /\ consumed' = 0
  /\ UNCHANGED <<finished, row>>

(* next_command finds no unit: the stream is over, on a row boundary or not. *)
FetchNothing ==
  /\ NeedGroup
  /\ NoUnit
  /\ finished' = TRUE
  /\ UNCHANGED <<group, consumed, row>>

(* next_command fails: `?` leaves everything but the source as it was. *)
FetchFails ==
  /\ NeedGroup
  /\ TornUnit \/ SourceFails
  /\ UNCHANGED <<group, consumed, finished, row>>

(* The command next_command hands out when the group has one left. *)
Runs(command) ==
  /\ ~RowFull
  /\ consumed < GroupLen
  /\ group[consumed + 1] = command
  /\ consumed' = consumed + 1
  /\ UNCHANGED group

RunPadding == Runs(Padding) /\ UNCHANGED <<finished, row, sourceVars>>

RunEndOfData ==
  /\ Runs(EndOfData)
  /\ finished' = TRUE
  /\ UNCHANGED <<row, sourceVars>>

RunLiteral ==
  \E command \in {AllSpaces, SystemMissing} \cup (InlineCodes \ Unencodable):
    /\ Runs(command)
    /\ row' = Append(row, Literal(command))
    /\ UNCHANGED <<finished, sourceVars>>

(* encode(value)? fails: the command has run and produced nothing. *)
EncodeFails ==
  /\ \E command \in Unencodable: Runs(command)
  /\ UNCHANGED <<finished, row, sourceVars>>

RunVerbatim(unit) ==
  /\ Runs(Verbatim)
  /\ NextUnit(unit)
  /\ row' = Append(row, Payload(Len(taken) + 1))
  /\ UNCHANGED finished

(* The payload never arrives. *)
VerbatimNothing ==
  /\ Runs(Verbatim)
  /\ NoUnit
  /\ finished' = TRUE
  /\ UNCHANGED row

(* The payload is cut short, or the source fails: `?` skips `finished = true`. *)
VerbatimFails ==
  /\ Runs(Verbatim)
  /\ TornUnit \/ SourceFails
  /\ UNCHANGED <<finished, row>>
===================================================================================
