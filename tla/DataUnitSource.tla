------------------------------ MODULE DataUnitSource ------------------------------
(* The trait the bytecode decoder draws its 8-byte units from, as the decoder    *)
(* sees it: the source hands out units in file order, or says that there is none *)
(* left, or fails.  FileUnits reads the units from the file, ZlibBlocks from     *)
(* inflated blocks (module ZlibBlocks implements this one).                      *)
(*                                                                               *)
(* What the file holds is not fixed beforehand: a unit is chosen when it is      *)
(* read, so a behaviour ranges over every file of at most MaxUnits units.        *)
EXTENDS Naturals, Sequences

CONSTANTS
  GroupLen,      \* COMMAND_GROUP_LEN: bytes of a unit, and so commands of a group
  InlineCodes,   \* the command codes 1..251 that stand for a small number
  MaxUnits       \* bound: the units a file of the model holds at most

ASSUME GroupLenAssumption == GroupLen \in Nat \ {0}
ASSUME MaxUnitsAssumption == MaxUnits \in Nat

(* The command codes of record_format.rs; a code is what a byte of a group means. *)
Padding        == "padding"
EndOfData      == "end_of_data"
Verbatim       == "verbatim"
AllSpaces      == "all_spaces"
SystemMissing  == "system_missing"
Command == {Padding, EndOfData, Verbatim, AllSpaces, SystemMissing} \cup InlineCodes

(* 0 and 252 to 255 stand for something else. *)
ASSUME InlineCodesAssumption ==
  InlineCodes \cap {Padding, EndOfData, Verbatim, AllSpaces, SystemMissing} = {}

(* A unit is read as the commands its bytes are: a payload unit has them too, and *)
(* nothing but the decoder's bookkeeping tells the two apart.                     *)
Unit == [1..GroupLen -> Command]

VARIABLES
  taken,      \* every unit handed out so far, in order
  exhausted   \* the stream was found to have ended

sourceVars == <<taken, exhausted>>

SourceTypeOK ==
  /\ taken \in Seq(Unit)
  /\ Len(taken) <= MaxUnits
  /\ exhausted \in BOOLEAN

SourceInit ==
  /\ taken = << >>
  /\ exhausted = FALSE

(* Ok(Some(unit)) *)
NextUnit(unit) ==
  /\ ~exhausted
  /\ Len(taken) < MaxUnits
  /\ taken' = Append(taken, unit)
  /\ UNCHANGED exhausted

(* Ok(None): not one byte was left. *)
NoUnit ==
  /\ exhausted' = TRUE
  /\ UNCHANGED taken

(* Err(Truncated): the stream stops within the unit. *)
TornUnit ==
  /\ ~exhausted
  /\ exhausted' = TRUE
  /\ UNCHANGED taken

(* Err of any other kind: an I/O error, a block that does not inflate.  The bytes *)
(* read before it are lost, so nothing is known of what the source yields next.   *)
SourceFails ==
  /\ ~exhausted
  /\ UNCHANGED sourceVars

SourceNext ==
  \/ \E unit \in Unit: NextUnit(unit)
  \/ NoUnit
  \/ TornUnit
  \/ SourceFails

SourceSpec == SourceInit /\ [][SourceNext]_sourceVars
===================================================================================
