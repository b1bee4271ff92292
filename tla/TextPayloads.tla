------------------------------- MODULE TextPayloads -------------------------------
(* The grammars of the text extension records, one line, pair or name of a payload at  *)
(* a time.  A payload is a sequence of bytes, each a member of a small alphabet; the    *)
(* encoding turns one byte into one character, or into the replacement character.       *)
EXTENDS Integers, SequencesExt

CONSTANTS
  Undecodable,  \* the bytes the encoding has no character for
  MaxU32        \* what an unsigned number holds (2^32 - 1)

LF == "LF"
CR == "CR"
TAB == "TAB"
NUL == "NUL"
SPACE == "SPACE"
Replacement == "?"
Digits == <<"0", "1", "2", "3", "4", "5", "6", "7", "8", "9">>

(* The characters with a role in some grammar; each encoding reads them, ASCII all, as they are. *)
Grammar ==
  {LF, CR, TAB, NUL, SPACE, "=", "C", "D", "E", "'", "(", ")", ":", "/"} \cup Range(Digits)

ASSUME WordAssumption  == MaxU32 \in Nat
ASSUME AsciiAssumption == Undecodable \cap Grammar = {}

(* encoding.decode *)
Text(bytes) == [i \in DOMAIN bytes |-> IF bytes[i] \in Undecodable THEN Replacement ELSE bytes[i]]

(* The position of the first such byte, from 1; 0 when there is none. *)
Find(bytes, byte) == SelectInSeq(bytes, LAMBDA b: b = byte)
Before(bytes, position) == SubSeq(bytes, 1, position - 1)
After(bytes, position)  == SubSeq(bytes, position + 1, Len(bytes))

LastNot(bytes, pads) == Max({0} \cup {i \in DOMAIN bytes: bytes[i] \notin pads})
TrimEnd(bytes, pads) == SubSeq(bytes, 1, LastNot(bytes, pads))

(* What a piece parses to: no item, one item, or nothing at all. *)
Parsed(items) == [ok |-> TRUE, items |-> items]
Malformed     == [ok |-> FALSE, items |-> << >>]

(* Every non-empty token between the separators, decoded. *)
Tokens(bytes) ==
  LET cut == FoldLeft(LAMBDA tokens, byte:
                        IF byte = SPACE THEN Append(tokens, << >>)
                        ELSE [tokens EXCEPT ![Len(tokens)] = Append(@, byte)], << << >> >>, bytes)
  IN  FlattenSeq([k \in DOMAIN cut |-> IF cut[k] = << >> THEN << >> ELSE <<Text(cut[k])>>])

Digit(byte) == SelectInSeq(Digits, LAMBDA d: d = byte) - 1
NotANumber == -1

(* parse_ascii_u32: checked at every digit. *)
Decimal(bytes) ==
  IF bytes = << >> \/ \E i \in DOMAIN bytes: Digit(bytes[i]) < 0 THEN NotANumber
  ELSE FoldLeft(LAMBDA number, byte:
                  IF number = NotANumber \/ number * 10 + Digit(byte) > MaxU32 THEN NotANumber
                  ELSE number * 10 + Digit(byte), 0, bytes)

-----------------------------------------------------------------------------------
(* Subtype 5 *)

VariableSet(name, variables) == [name |-> name, variables |-> variables]

(* One space after the = belongs to it. *)
Members(bytes) ==
  Tokens(IF bytes # << >> /\ Head(bytes) = SPACE THEN Tail(bytes) ELSE bytes)

(* parse_variable_set, of a line that may end in a carriage return. *)
VariableSetOf(line) ==
  LET set == IF line # << >> /\ Last(line) = CR THEN Front(line) ELSE line
      end == Find(set, "=")
  IN  IF set = << >> THEN Parsed(<< >>)
      ELSE IF end <= 1 THEN Malformed
      ELSE Parsed(<<VariableSet(Text(Before(set, end)), Members(After(set, end)))>>)

-----------------------------------------------------------------------------------
(* Subtypes 7 and 19 *)

MultipleCategory == [kind |-> "MultipleCategory", counted |-> << >>, labels |-> "none"]
MultipleDichotomy(counted, labels) ==
  [kind |-> "MultipleDichotomy", counted |-> counted, labels |-> labels]
VariableLabels == [source |-> "VariableLabels"]
CountedValues(number) == [source |-> "CountedValues", number |-> number]

ResponseSet(name, label, kind, variables) ==
  [name |-> name, label |-> label, kind |-> kind, variables |-> variables]

(* What reading from a cursor gives: what was read, and the bytes after it. *)
Read(value, rest) == [ok |-> TRUE, value |-> value, rest |-> rest]
Unreadable(rest)  == [ok |-> FALSE, value |-> << >>, rest |-> rest]

(* expect_field_separator *)
Separated(bytes) ==
  IF bytes # << >> /\ Head(bytes) = SPACE THEN Read(SPACE, Tail(bytes)) ELSE Unreadable(bytes)

(* read_counted_string: a length, a space, that many bytes, delimiters among them. *)
CountedString(bytes) ==
  LET space  == Find(bytes, SPACE)
      length == Decimal(Before(bytes, space))
      rest   == After(bytes, space)
  IN  IF space = 0 \/ length = NotANumber \/ length > Len(rest) THEN Unreadable(bytes)
      ELSE Read(Text(SubSeq(rest, 1, length)), After(rest, length))

(* read_category_kind *)
CategoryKind(bytes) ==
  LET label == Separated(bytes)
  IN  IF label.ok THEN Read(MultipleCategory, label.rest) ELSE label

(* read_dichotomy_variable_labels_kind *)
VariableLabelsKind(bytes) ==
  LET counted == CountedString(bytes)
      label   == Separated(counted.rest)
  IN  IF counted.ok /\ label.ok
      THEN Read(MultipleDichotomy(counted.value, VariableLabels), label.rest)
      ELSE Unreadable(bytes)

(* read_dichotomy_counted_values_kind *)
CountedValuesKind(bytes) ==
  LET source  == Separated(bytes)
      space   == Find(source.rest, SPACE)
      number  == Decimal(Before(source.rest, space))
      counted == CountedString(After(source.rest, space))
      label   == Separated(counted.rest)
  IN  IF source.ok /\ space # 0 /\ number # NotANumber /\ counted.ok /\ label.ok
      THEN Read(MultipleDichotomy(counted.value, CountedValues(number)), label.rest)
      ELSE Unreadable(bytes)

KindOf(letter, bytes) ==
  CASE letter = "C" -> CategoryKind(bytes)
    [] letter = "D" -> VariableLabelsKind(bytes)
    [] letter = "E" -> CountedValuesKind(bytes)
    [] OTHER -> Unreadable(bytes)

(* parse_multiple_response_set *)
ResponseSetOf(line) ==
  LET end   == Find(line, "=")
      kind  == KindOf(line[end + 1], After(line, end + 1))
      label == CountedString(kind.rest)
  IN  IF line = << >> THEN Parsed(<< >>)
      ELSE IF end <= 1 \/ end = Len(line) THEN Malformed
      ELSE IF kind.ok /\ label.ok
      THEN Parsed(<<ResponseSet(Text(Before(line, end)), label.value, kind.value, Tokens(label.rest))>>)
      ELSE Malformed

-----------------------------------------------------------------------------------
(* Subtypes 13 and 14 *)

LongVariableName(short, long) == [short |-> short, long |-> long]

(* One pair of subtype 13. *)
LongNameOf(pair) ==
  LET end == Find(pair, "=")
  IN  IF pair = << >> THEN Parsed(<< >>)
      ELSE IF end <= 1 \/ end = Len(pair) THEN Malformed
      ELSE Parsed(<<LongVariableName(Text(Before(pair, end)), Text(After(pair, end)))>>)

VeryLongString(short, width) == [short |-> short, width |-> width]

(* One pair of subtype 14: NULs end it, and one that is all NULs is none. *)
WidthOf(padded) ==
  LET pair  == TrimEnd(padded, {NUL})
      end   == Find(pair, "=")
      width == Decimal(After(pair, end))
  IN  IF pair = << >> THEN Parsed(<< >>)
      ELSE IF end <= 1 \/ width = NotANumber THEN Malformed
      ELSE Parsed(<<VeryLongString(Text(Before(pair, end)), width)>>)

-----------------------------------------------------------------------------------
(* Subtypes 17 and 18 *)

Attribute(name, values) == [name |-> name, values |-> values]
AttributeRecord(variable, attributes) == [variable |-> variable, attributes |-> attributes]

(* Mutant: all the quotes at either end go. *)
AttributeValueTrimmed(bytes) ==
  LET bare == {i \in DOMAIN bytes: bytes[i] # "'"}
  IN  Text(IF bare = {} THEN << >> ELSE SubSeq(bytes, Min(bare), Max(bare)))

(* decode_attribute_value: without its outer quotes, when it has both. *)
AttributeValue(bytes) ==
  LET n == Len(bytes)
  IN  Text(IF n >= 2 /\ bytes[1] = "'" /\ bytes[n] = "'" THEN SubSeq(bytes, 2, n - 1) ELSE bytes)
===================================================================================
