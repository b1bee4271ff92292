----------------------------- MODULE MCDictionaryReader ---------------------------
(* The dictionary reader over small files: a variable with a warning of its own, a *)
(* value-label set, both declarations, a layout record, the record that feeds both *)
(* the layout and the schema, one of the schema's and one nothing draws on.  A      *)
(* label and a code each name an encoding that agrees or not, one that cannot be    *)
(* provided, or nothing.                                                           *)
EXTENDS DictionaryReader

CONSTANTS utf8, latin1, unknown, blank

MCVariableTypes  == {-1, 0, 9}
MCMissingCounts  == {-1}
MCIndexLists     == {<<1>>}
MCHeaderWarnings == <<[warning |-> "UnknownCompressionCode"]>>

MCLabels        == {"utf8", "latin1", "ebcdic", "blank"}
MCEncodings     == {utf8, latin1}
MCLabelEncoding == [utf8 |-> utf8, latin1 |-> latin1, ebcdic |-> unknown, blank |-> blank]

MCStrategies == {Override(utf8), HonourDeclared(latin1, Absent)}

(* A code the header disagrees with, and long missing values that repeat a width: in *)
(* one record that parses to its end and in one that does not.                      *)
MCRemarks(subtype, payload) ==
  IF subtype = MachineIntegerInfo /\ payload = "ebcdic"
  THEN <<[warning |-> "HeaderByteOrderMismatch"]>>
  ELSE IF subtype = LongMissingValues /\ payload \in {"latin1", "half_read"}
  THEN <<[warning |-> "RepeatedLongMissingValueLength"]>>
  ELSE << >>

(* A layout record may claim what the segments do not bear out, and a schema record  *)
(* name a variable the file does not have.                                           *)
MCLayoutWarnings(types, inForce) ==
  IF \E subtype \in DOMAIN inForce: inForce[subtype] = "ebcdic"
  THEN <<[warning |-> "VeryLongStringSegmentMismatch", among |-> Len(types)]>> ELSE << >>

MCSchemaWarnings(fed, inForce) ==
  SetToSeq({[warning |-> "UnknownVariableInExtension", at |-> i] :
              i \in {j \in DOMAIN fed:
                       fed[j].kind = "extension" /\ fed[j].payload = "ebcdic"}})
===================================================================================
