------------------------------ MODULE BinaryPayloads ------------------------------
(* Reads over the bytes of a binary extension payload (byte_cursor, byte_order) and the *)
(* records that come from one.  A word stands for the four bytes of a u32 or i32, two    *)
(* words for the eight of an i64 or of a floating-point slab.                            *)
EXTENDS Integers, SequencesExt

CONSTANTS
  Base,          \* bound: bytes are 0..(Base - 1)
  WordLen,       \* bound: the bytes of a word
  Illegible      \* the bytes the encoding has no character for

ASSUME BytesAssumption ==
  /\ Base \in Nat \ {0, 1}
  /\ WordLen \in Nat \ {0, 1}
  /\ Illegible \subseteq 0..(Base - 1)

Byte        == 0..(Base - 1)
Words       == 0..(Base^WordLen - 1)
ByteOrders  == {"BigEndian", "LittleEndian"}
NoCharacter == Base
Decoded(bytes) == [i \in DOMAIN bytes |-> IF bytes[i] \in Illegible THEN NoCharacter ELSE bytes[i]]

ReadU32(order, bytes) ==
  LET digits == IF order = "BigEndian" THEN bytes ELSE Reverse(bytes)
  IN  FoldLeft(LAMBDA n, byte: (n * Base) + byte, 0, digits)
(* The same bytes as a number of two's complement. *)
ReadI32(order, bytes) ==
  LET n == ReadU32(order, bytes)
  IN  IF 2 * n >= Base^Len(bytes) THEN n - Base^Len(bytes) ELSE n
ReadI64(order, bytes) == ReadI32(order, bytes)

-----------------------------------------------------------------------------------
(* ByteCursor: what a read takes off the front, and what it leaves. *)

Truncated          == [ok |-> FALSE, value |-> << >>, rest |-> << >>]
Taken(value, rest) == [ok |-> TRUE, value |-> value, rest |-> rest]

TakeBytes(bytes, n) ==
  IF Len(bytes) < n THEN Truncated
  ELSE Taken(SubSeq(bytes, 1, n), SubSeq(bytes, n + 1, Len(bytes)))
TakeU8(bytes) ==
  IF bytes = << >> THEN Truncated ELSE Taken(Head(bytes), Tail(bytes))
TakeU32(order, bytes) ==
  LET word == TakeBytes(bytes, WordLen)
  IN  IF word.ok THEN Taken(ReadU32(order, word.value), word.rest) ELSE Truncated
PeeksAt(order, bytes, n) ==
  Len(bytes) >= WordLen /\ ReadU32(order, SubSeq(bytes, 1, WordLen)) = n
TakeLengthPrefixed(order, bytes) ==
  LET length == TakeU32(order, bytes)
  IN  IF length.ok THEN TakeBytes(length.rest, length.value) ELSE Truncated

(* The words, or slabs of words, a payload of whole ones is cut into. *)
Slab(bytes, index, size) == SubSeq(bytes, ((index - 1) * size) + 1, index * size)
Slabs(bytes, size) == [i \in 1..(Len(bytes) \div size) |-> Slab(bytes, i, size)]

-----------------------------------------------------------------------------------
(* The records read *)

LongValueLabel(value, label) == [value |-> value, label |-> label]
LongValueLabelRecord(name, width, labels) == [variableName |-> name, width |-> width, labels |-> labels]
LongMissingValueRecord(name, values) == [variableName |-> name, values |-> values]
FloatSentinels(slabs) == [systemMissing |-> slabs[1], highest |-> slabs[2], lowest |-> slabs[3]]
ExtendedNumberOfCases(numbers) == [version |-> numbers[1], count |-> numbers[2]]
MachineIntegerInfo(numbers) ==
  [versionMajor |-> numbers[1], versionMinor |-> numbers[2], versionRevision |-> numbers[3],
   machineCode |-> numbers[4], floatRepresentation |-> numbers[5],
   compressionCode |-> numbers[6], endianness |-> numbers[7], characterCode |-> numbers[8]]
UnknownExtension(subtype, size, count, payload) ==
  [subtype |-> subtype, elementSize |-> size, elementCount |-> count, payload |-> payload]

FloatFormats == {"Ieee754", "IbmHfp", "VaxDFloat", "VaxGFloat"}
(* declares_float_format: the code of a format; the two VAX formats share one. *)
RepresentationOf(format) ==
  CASE format = "Ieee754" -> 1 [] format = "IbmHfp" -> 2 [] OTHER -> 3
DeclaresAKnownFloatFormat(info) == info.floatRepresentation \in {1, 2, 3}
EndiannessOf(order) == IF order = "BigEndian" THEN 1 ELSE 2
===================================================================================
