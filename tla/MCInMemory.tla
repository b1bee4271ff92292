-------------------------------- MODULE MCInMemory --------------------------------
(* The three parts that work on what is in memory already, each over bounds of its      *)
(* own: the layout, the records decoded from their envelopes, and the cells of a row.     *)
(* They share no variable: while one works, the others are as they begin.                   *)
EXTENDS MCDataLayout, MCExtensionRecords, MCCells

VARIABLE part   \* the part at work

allVars == <<part, vars, recordVars, cellsVars>>

(* A record of an unknown subtype, not yet looked at, and a row without variables. *)
RecordRests ==
  /\ subtype = 99 /\ elementSize = 1 /\ elementCount = 0
  /\ byteOrder = "BigEndian" /\ floatFormat = "Ieee754"
  /\ written = << >> /\ payload = << >> /\ intact = TRUE
  /\ rest = << >> /\ stage = "set" /\ due = 0 /\ width = 0 /\ repeated = FALSE
  /\ items = << >> /\ kept = << >> /\ complaints = << >>
  /\ outcome = "opened"

CellsRest ==
  /\ layout = << >> /\ format = "Ieee754" /\ declared = {}
  /\ cellsWritten = << >> /\ row = << >>
  /\ values = << >> /\ lazy = << >>

PartsInit ==
  \/ part = "layout" /\ Init /\ RecordRests /\ CellsRest
  \/ part = "records" /\ RecordInit /\ Init /\ CellsRest
  \/ part = "cells" /\ CellsInit /\ Init /\ RecordRests

PartsNext ==
  /\ UNCHANGED part
  /\ \/ part = "layout" /\ Next /\ UNCHANGED <<recordVars, cellsVars>>
     \/ part = "records" /\ RecordNext /\ UNCHANGED <<vars, cellsVars>>
     \/ part = "cells" /\ CellsNext /\ UNCHANGED <<vars, recordVars>>

PartsSpec == PartsInit /\ [][PartsNext]_allVars
===================================================================================
