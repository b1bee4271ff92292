------------------------------- MODULE MCRecordReader -----------------------------
(* The record reader against the reference decoding of the units it took.        *)
EXTENDS RowReference

MCCaseCounts == {NoCount, 1}
MCPayloadUnits == {[i \in 1..GroupLen |-> command]: command \in {AllSpaces, EndOfData}}
MCInherited == {<< >>, <<"CaseCountMismatch">>}
===================================================================================
