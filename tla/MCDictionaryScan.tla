------------------------------ MODULE MCDictionaryScan ----------------------------
(* The walk over the dictionary against what its records, as they are on disk,   *)
(* say when they are looked at all together.                                     *)
EXTENDS DictionaryScan

MCVariableTypes == {-1, 0, 8, 9, 256}
MCMissingCounts == {-1, 0, 4}
MCIndexLists    == {<< >>, <<0>>, <<1>>, <<2>>, <<3>>, <<3, 1>>}
MCSubtypes      == {CharacterEncoding, MachineIntegerInfo, 13, 11}
MCHeaderWarnings == <<[warning |-> "UnknownCompressionCode"]>>
===================================================================================
