-------------------------------- MODULE RowContract -------------------------------
(* What a RecordReader promises the caller of read_record, read_lazy_record and  *)
(* skip_record, whichever compression the file has: rows come whole, each after  *)
(* the one before it, and once the section has ended it stays ended.             *)
EXTENDS Naturals, Sequences

CONSTANT CountMax      \* u64::MAX, where the count of rows saturates

VARIABLES
  rowLen,     \* the length of every row, in units: a constant of the file
  handed,     \* the units of all rows handed out, one row after the other
  rowsRead,   \* how many rows that were
  outcome     \* what the last call returned

vars == <<rowLen, handed, rowsRead, outcome>>

Init ==
  /\ handed = << >>
  /\ rowsRead = 0
  /\ outcome = "none"

Counted(n) == IF n < CountMax THEN n + 1 ELSE n

(* Ok(Some(row)) *)
HandRow ==
  /\ outcome # "end"
  /\ outcome' = "row"
  /\ rowsRead' = Counted(rowsRead)
  /\ Len(handed') = Len(handed) + rowLen
  /\ SubSeq(handed', 1, Len(handed)) = handed
  /\ UNCHANGED rowLen

(* Ok(None) *)
End ==
  /\ outcome' = "end"
  /\ UNCHANGED <<rowLen, handed, rowsRead>>

(* Err: the reader stays usable, and takes back nothing it handed out. *)
Fail ==
  /\ outcome # "end"
  /\ outcome' = "failed"
  /\ UNCHANGED <<rowLen, handed, rowsRead>>

Next == HandRow \/ End \/ Fail

Spec == Init /\ [][Next]_vars
===================================================================================
