------------------------------ MODULE MissingValues ------------------------------
(* What a variable declares missing and how a cell is matched against it.  A number  *)
(* is an integer and so are the eight bytes that spell it on disk, the three default   *)
(* sentinels being outside the ordinary numbers.  A string is a sequence of bytes.     *)
EXTENDS Integers, Sequences

CONSTANTS
  KeyLen,     \* STRING_COMPARISON_LEN, the bytes of a string that are compared (8)
  Space, Nul  \* the two bytes that pad

ASSUME KeyLenAssumption == KeyLen \in Nat \ {0}
ASSUME PaddingAssumption == Space # Nul

SysMis  == -9
Lowest  == -8
Highest == 9

(* FloatSentinels, and its spss_defaults: the same three in every format. *)
SentinelsOf(sysmis, lowest, highest) ==
  [systemMissing |-> sysmis, lowest |-> lowest, highest |-> highest]
SpssDefaults == SentinelsOf(SysMis, Lowest, Highest)

(* resolve_sentinels: those of a subtype-4 record, when the file has one. *)
ResolveSentinels(declared) ==
  IF declared = {} THEN SpssDefaults ELSE CHOOSE sentinels \in declared: TRUE

(* decode: the formats that carry more mantissa bits than an f64 decode LOWEST to the *)
(* number of system-missing; in the others it is the next number up.                   *)
Decode(pattern, format) ==
  IF pattern = Lowest /\ format \in {"IbmHfp", "VaxDFloat"} THEN SysMis ELSE pattern

(* low_bound, high_bound: the number that bounds, or none. *)
Bound(pattern, sentinel, format) ==
  IF pattern = sentinel THEN {} ELSE {Decode(pattern, format)}

NoMissing == [kind |-> "None"]

(* RawMissingValues, as a record carries them: up to three patterns or keys, of which *)
(* a range takes the first two as its ends.                                           *)
Raw(kind, entries) == [kind |-> kind, entries |-> entries]

DecodeNumeric(raw, format, sentinels) ==
  CASE raw.kind = "None" -> NoMissing
    [] raw.kind = "Discrete" ->
         [kind |-> "Discrete",
          values |-> {Decode(raw.entries[i], format): i \in DOMAIN raw.entries}]
    [] raw.kind = "Range" ->
         [kind |-> "Range",
          low |-> Bound(raw.entries[1], sentinels.lowest, format),
          high |-> Bound(raw.entries[2], sentinels.highest, format),
          values |-> {Decode(raw.entries[i], format): i \in 3..Len(raw.entries)}]

(* decode_string: the ends of a range are kept as keys. *)
DecodeString(raw) ==
  IF raw.kind = "None" THEN NoMissing
  ELSE [kind |-> "String", keys |-> {raw.entries[i]: i \in DOMAIN raw.entries}]

(* missing_value_reconcile::decode *)
DecodeMissing(raw, isNumeric, format, sentinels) ==
  IF isNumeric THEN DecodeNumeric(raw, format, sentinels) ELSE DecodeString(raw)

-----------------------------------------------------------------------------------
(* matches_number and matches_bytes *)

InRange(low, high, value) ==
  (\A bound \in low: value >= bound) /\ (\A bound \in high: value <= bound)

MatchesNumber(spec, value) ==
  \/ spec.kind = "Discrete" /\ value \in spec.values
  \/ spec.kind = "Range" /\ (InRange(spec.low, spec.high, value) \/ value \in spec.values)

(* trim_trailing_padding: the positions it keeps. *)
Kept(bytes) ==
  {i \in DOMAIN bytes: \E j \in DOMAIN bytes: i <= j /\ bytes[j] \notin {Space, Nul}}

Trim(bytes) == [i \in Kept(bytes) |-> bytes[i]]

(* comparison_key *)
ComparisonKey(bytes) ==
  Trim(SubSeq(bytes, 1, IF Len(bytes) < KeyLen THEN Len(bytes) ELSE KeyLen))

MatchesBytes(spec, raw) ==
  spec.kind = "String" /\ \E key \in spec.keys: ComparisonKey(key) = ComparisonKey(raw)

-----------------------------------------------------------------------------------
(* What a cell is classified as *)

(* Mutant: the cell is compared by its number. *)
NumericCellByNumber(pattern, spec, format, systemMissing) ==
  IF Decode(pattern, format) = Decode(systemMissing, format) THEN "system missing"
  ELSE IF MatchesNumber(spec, Decode(pattern, format)) THEN "declared missing"
  ELSE "present"

(* parse_numeric_cell: by the bytes first. *)
NumericCell(pattern, spec, format, systemMissing) ==
  IF pattern = systemMissing THEN "system missing"
  ELSE IF MatchesNumber(spec, Decode(pattern, format)) THEN "declared missing"
  ELSE "present"

(* Text::classify *)
StringCell(raw, spec) == IF MatchesBytes(spec, raw) THEN "declared missing" ELSE "present"
===================================================================================
