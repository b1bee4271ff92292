------------------------------- MODULE ExtensionText ------------------------------
(* One text extension record read from its payload.  Each turn of the parser's loop     *)
(* takes one piece off the front: a line of subtypes 5, 7 and 19, a pair of subtypes 13  *)
(* and 14, a name, a value or a separator of the attribute grammar of 17 and 18, or, in   *)
(* subtypes 10, 12 and 20, everything.  The first piece that does not parse refuses the   *)
(* whole record.                                                                            *)
EXTENDS AttributeCollapse

VARIABLES
  subtype, elementSize,
  written,    \* history: the content the payload was made of
  intact,     \* history: whether it still is what the writer made
  payload,
  rest,       \* the cursor: the bytes not yet consumed
  stage,      \* what the attribute grammar expects: "group", "set" or "values"
  items,      \* what was parsed
  outcome     \* "opened", "reading", "read", "refused", "kept" or "collapsed"

given == <<subtype, elementSize, written, intact, payload>>

Responses  == {7, 19}
WholeText  == {10, 12, 20}
Attributes == {17, 18}
TextSubtypes == {5, 13, 14} \cup Responses \cup WholeText \cup Attributes

Reading(subtypes) == outcome = "reading" /\ subtype \in subtypes

Refuse ==
  /\ outcome' = "refused"
  /\ items' = << >>
  /\ UNCHANGED <<given, rest, stage>>

-----------------------------------------------------------------------------------
(* Lines, pairs and whole texts *)

(* What a turn of a loop over pieces looks at: up to the separator, or all that is left. *)
Piece(separator) ==
  LET end == Find(rest, separator) IN IF end = 0 THEN rest ELSE Before(rest, end)

(* A turn of such a loop: `parsed` is what the piece gives. *)
Turn(subtypes, separator, parsed) ==
  /\ Reading(subtypes)
  /\ rest # << >>
  /\ \/ ~parsed.ok /\ Refuse
     \/ /\ parsed.ok
        /\ items' = items \o parsed.items
        /\ rest' = LET end == Find(rest, separator)
                   IN  IF end = 0 THEN << >> ELSE After(rest, end)
        /\ UNCHANGED <<given, stage, outcome>>

VariableSetLine  == Turn({5}, LF, VariableSetOf(Piece(LF)))
ResponseSetLine  == Turn(Responses, LF, ResponseSetOf(Piece(LF)))
LongNamePair     == Turn({13}, TAB, LongNameOf(Piece(TAB)))
VeryLongPair     == Turn({14}, TAB, WidthOf(Piece(TAB)))

(* The loop is through. *)
EndOfPieces ==
  /\ Reading({5, 13, 14} \cup Responses)
  /\ rest = << >>
  /\ outcome' = "read"
  /\ UNCHANGED <<given, rest, stage, items>>

TakeAll(subtypes, text) ==
  /\ Reading(subtypes)
  /\ items' = <<text>>
  /\ rest' = << >>
  /\ outcome' = "read"
  /\ UNCHANGED <<given, stage>>

ExtraProductInfo == TakeAll({10}, Text(rest))
Uuid == TakeAll({12}, Text(rest))
(* The label of the encoding is without padding. *)
CharacterEncoding == TakeAll({20}, Text(TrimEnd(rest, {SPACE, NUL})))

-----------------------------------------------------------------------------------
(* The attribute grammar *)

(* The list attributes are added to: the file's, or the last variable's. *)
WithAttribute(attribute) ==
  IF subtype = 17 THEN Append(items, attribute)
  ELSE [items EXCEPT ![Len(items)].attributes = Append(@, attribute)]

WithValue(value) ==
  IF subtype = 17 THEN [items EXCEPT ![Len(items)].values = Append(@, value)]
  ELSE LET attributes == items[Len(items)].attributes
       IN  [items EXCEPT ![Len(items)].attributes[Len(attributes)].values = Append(@, value)]

(* A name runs up to its terminator and is not empty; `named` is the list with it. *)
UpTo(terminator) == Text(Before(rest, Find(rest, terminator)))

Name(terminator, next, named) ==
  LET end == Find(rest, terminator)
  IN  \/ end <= 1 /\ Refuse
      \/ /\ end > 1
         /\ items' = named
         /\ rest' = After(rest, end)
         /\ stage' = next
         /\ UNCHANGED <<given, outcome>>

(* parse_variable_attribute: a variable's name, up to the colon. *)
VariableName ==
  /\ Reading({18})
  /\ stage = "group" /\ rest # << >>
  /\ Name(":", "set", Append(items, AttributeRecord(UpTo(":"), << >>)))

(* parse_attribute_set: an attribute's name, up to the parenthesis. *)
AttributeName ==
  /\ Reading(Attributes)
  /\ stage = "set" /\ rest # << >> /\ Head(rest) # "/"
  /\ Name("(", "values", WithAttribute(Attribute(UpTo("("), << >>)))

(* Mutant: the separator is left for the next set. *)
SetEndsAtSeparator ==
  /\ Reading(Attributes)
  /\ stage = "set"
  /\ rest = << >> \/ IsPrefix(<<"/">>, rest)
  /\ stage' = IF subtype = 17 THEN "set" ELSE "group"
  /\ outcome' = IF rest = << >> THEN "read" ELSE "reading"
  /\ UNCHANGED <<given, rest, items>>

(* A set ends with the payload or at a separator, which goes with it; after the last     *)
(* one the record is read.                                                                *)
SetEnds ==
  /\ Reading(Attributes)
  /\ stage = "set"
  /\ rest = << >> \/ IsPrefix(<<"/">>, rest)
  /\ rest' = After(rest, 1)
  /\ stage' = IF subtype = 17 THEN "set" ELSE "group"
  /\ outcome' = IF rest' = << >> THEN "read" ELSE "reading"
  /\ UNCHANGED <<given, items>>

(* No group to begin with. *)
NoGroups ==
  /\ Reading({18})
  /\ stage = "group" /\ rest = << >>
  /\ outcome' = "read"
  /\ UNCHANGED <<given, rest, stage, items>>

(* parse_attribute_values: a value to the line feed, which a byte must follow; a closing *)
(* parenthesis there ends the list.                                                       *)
Value ==
  LET end == Find(rest, LF)
      last == rest[end + 1] = ")"
  IN  /\ Reading(Attributes)
      /\ stage = "values"
      /\ \/ (end = 0 \/ end = Len(rest)) /\ Refuse
         \/ /\ end # 0 /\ end # Len(rest)
            /\ items' = WithValue(AttributeValue(Before(rest, end)))
            /\ rest' = After(rest, IF last THEN end + 1 ELSE end)
            /\ stage' = IF last THEN "set" ELSE "values"
            /\ UNCHANGED <<given, outcome>>

(* add_variable_attributes: what the schema keeps of the record. *)
CollapseAttributes ==
  /\ outcome = "read" /\ subtype = 18
  /\ outcome' = "collapsed"
  /\ items' = [r \in DOMAIN items |-> [items[r] EXCEPT !.attributes = Collapse(@)]]
  /\ UNCHANGED <<given, rest, stage>>

TextNext ==
  \/ VariableSetLine \/ ResponseSetLine \/ LongNamePair \/ VeryLongPair \/ EndOfPieces
  \/ ExtraProductInfo \/ Uuid \/ CharacterEncoding
  \/ VariableName \/ AttributeName \/ SetEnds \/ NoGroups \/ Value
  \/ CollapseAttributes
===================================================================================
