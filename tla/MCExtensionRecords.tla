------------------------------ MODULE MCExtensionRecords ------------------------------
(* Records of no to three items in the forms writers give them.  Text: lines ended by a    *)
(* line feed with or without a carriage return, widths padded with NULs or not, labels of   *)
(* counted length with delimiters inside, attributes indexed out of order.  Binary: both     *)
(* byte orders, names that are empty or do not decode, one to three missing values, any of    *)
(* the later ones with the width again, machines of every kind.  Envelopes of any size.        *)
EXTENDS ExtensionRecords

MCLower(byte) == IF byte = "A" THEN "a" ELSE byte

Joined(pieces, separator) ==
  FoldLeft(LAMBDA bytes, piece: IF bytes = << >> THEN piece ELSE bytes \o separator \o piece, << >>, pieces)
All(Write(_), content) == [i \in DOMAIN content |-> Write(content[i])]
Ended(pieces, end) == FlattenSeq([i \in DOMAIN pieces |-> pieces[i] \o end])

Decimals(n) == IF n < 10 THEN <<Digits[n + 1]>> ELSE <<Digits[n \div 10 + 1], Digits[(n % 10) + 1]>>
Counted(text) == Decimals(Len(text)) \o <<SPACE>> \o text
Quoted(text)  == <<"'">> \o text \o <<"'", LF>>

SetLine(set) == set.name \o <<"=", SPACE>> \o Joined(set.variables, <<SPACE>>)
ResponseBody(kind) ==
  IF kind.kind = "MultipleCategory" THEN <<"C", SPACE>>
  ELSE IF kind.labels = VariableLabels THEN <<"D">> \o Counted(kind.counted) \o <<SPACE>>
  ELSE <<"E", SPACE>> \o Decimals(kind.labels.number) \o <<SPACE>> \o Counted(kind.counted) \o <<SPACE>>
ResponseLine(set) ==
  set.name \o <<"=">> \o ResponseBody(set.kind) \o Counted(set.label)
    \o FlattenSeq([i \in DOMAIN set.variables |-> <<SPACE>> \o set.variables[i]])
AttributeText(attribute) ==
  attribute.name \o <<"(">> \o FlattenSeq(All(Quoted, attribute.values)) \o <<")">>
RecordText(record) == record.variable \o <<":">> \o FlattenSeq(All(AttributeText, record.attributes))
NamePair(mapping) == mapping.short \o <<"=">> \o mapping.long
WidthPair(string) == string.short \o <<"=">> \o Decimals(string.width)

TextForms(type, content) ==
  CASE type = 5 -> {Ended(All(SetLine, content), end): end \in {<<LF>>, <<CR, LF>>}}
    [] type \in Responses -> {Ended(All(ResponseLine, content), <<LF>>)}
    [] type = 13 -> {Joined(All(NamePair, content), <<TAB>>), Ended(All(NamePair, content), <<TAB>>)}
    [] type = 14 -> {Joined(All(WidthPair, content), <<TAB>>), Ended(All(WidthPair, content), <<NUL, TAB>>)}
    [] type = 17 -> {FlattenSeq(All(AttributeText, content))}
    [] type = 18 -> {Joined(All(RecordText, content), <<"/">>)}
    [] type = 20 -> {content[1] \o pad: pad \in {<< >>, <<SPACE>>, <<NUL, SPACE>>}}
    [] OTHER -> {content[1]}

a == <<"a">>
b == <<"b">>
Spaced == <<"a", SPACE, "b">>
Delimiters == <<"=", SPACE, "a">>
a1 == <<"a", "[", "1", "]">>
A2 == <<"A", "[", "2", "]">>
aX == <<"a", "[", "x", "]">>

Kinds ==
  {MultipleCategory, MultipleDichotomy(a, VariableLabels), MultipleDichotomy(Delimiters, CountedValues(1))}
AttributeLists ==
  {<< >>, <<Attribute(a, <<a>>)>>,
   <<Attribute(A2, <<a, << >>>>), Attribute(a, <<Spaced>>), Attribute(a1, <<b>>)>>,
   <<Attribute(aX, <<<<")">>>>), Attribute(a1, <<<<"'">>, a>>)>>,
   <<Attribute(a1, <<a>>), Attribute(<<"A", "[", "1", "]">>, <<b>>), Attribute(<<"a", "[", "1", "3", "]">>, <<b>>)>>}

TextContents(type) ==
  CASE type = 5 -> {<< >>, <<VariableSet(a, << >>)>>, <<VariableSet(a, <<a, b>>), VariableSet(b, <<b>>)>>}
    [] type \in Responses ->
         {<< >>} \cup {<<ResponseSet(a, label, kind, <<a, b>>)>>: label \in {<< >>, Delimiters}, kind \in Kinds}
    [] type = 13 -> {<< >>, <<LongVariableName(a, Spaced)>>, <<LongVariableName(a, b), LongVariableName(b, Delimiters)>>}
    [] type = 14 -> {<< >>, <<VeryLongString(a, 12)>>, <<VeryLongString(a, 3), VeryLongString(b, 10)>>}
    [] type = 17 -> AttributeLists
    [] type = 18 -> {<< >>} \cup {<<AttributeRecord(a, list)>>: list \in AttributeLists}
                      \cup {<<AttributeRecord(a, list), AttributeRecord(b, <<Attribute(a, <<b>>)>>)>>: list \in AttributeLists}
    [] OTHER -> {<<<< >>>>, <<Spaced>>, <<<<SPACE, "a">>>>}

Alphabet(type) ==
  {"a", "bad"} \cup
    (CASE type = 5 -> {"=", SPACE, LF, CR}
       [] type \in Responses -> {"=", SPACE, LF, "C", "D", "E", "0", "2"}
       [] type = 13 -> {"=", TAB}
       [] type = 14 -> {"=", TAB, NUL, "0", "2"}
       [] type \in Attributes -> {":", "/", "(", ")", LF, "'", "[", "]"}
       [] OTHER -> {NUL, SPACE})
-----------------------------------------------------------------------------------

Legible == <<2>>
Odd  == <<1, 3>>
Labels == {<< >>, <<LongValueLabel(Odd, Legible)>>, <<LongValueLabel(<< >>, << >>), LongValueLabel(Legible, Odd)>>}
MissingLists == {<<Odd>>, <<Legible, <<1>>>>, <<<<1, 2>>, Odd, <<2, 2>>>>}

Info(endianness, representation, code) == MachineIntegerInfo(<<1, 0, 2, 1, representation, 0, endianness, code>>)

BinaryContents(type) ==
  CASE type = 3 -> {<<Info(e, f, c)>>: e \in 0..2, f \in 0..4, c \in {-1, 5}}
    [] type = 4 -> {<<FloatSentinels(<<<<0, 1, 2, 3>>, <<3, 0, 0, 1>>, <<0, 0, 0, 0>>>>)>>}
    [] type = 11 -> {<< >>, <<1, 8, 0>>, <<15, 2>>}
    [] type = 16 -> {<<ExtendedNumberOfCases(<<1, n>>)>>: n \in {-1, 0, 9}}
    [] type = 21 ->
         {<< >>} \cup {<<LongValueLabelRecord(Legible, 9, labels)>>: labels \in Labels}
           \cup {<<LongValueLabelRecord(<< >>, 1, << >>), LongValueLabelRecord(Odd, 9, labels)>>: labels \in Labels}
    [] type = 22 ->
         {<< >>} \cup {<<LongMissingValueRecord(Legible, list)>>: list \in MissingLists}
           \cup {<<LongMissingValueRecord(Odd, <<Legible>>), LongMissingValueRecord(<< >>, list)>>: list \in MissingLists}
           \cup {<<LongMissingValueRecord(Legible, list), LongMissingValueRecord(Legible, <<Odd>>)>>: list \in MissingLists}
    [] OTHER -> {<<1, 0, 3>>}

Signed(order, n, size) == Number(order, n % Base^size, size)
Numbers(order, ns, size) == FlattenSeq([i \in DOMAIN ns |-> Signed(order, ns[i], size)])

BinaryForms(type, content, order) ==
  CASE type = 3 ->
         LET info == content[1]
         IN  {Numbers(order, <<info.versionMajor, info.versionMinor, info.versionRevision,
                info.machineCode, info.floatRepresentation, info.compressionCode,
                info.endianness, info.characterCode>>, WordLen)}
    [] type = 4 -> {content[1].systemMissing \o content[1].highest \o content[1].lowest}
    [] type = 11 -> {Numbers(order, content, WordLen)}
    [] type = 16 -> {Numbers(order, <<content[1].version, content[1].count>>, 2 * WordLen)}
    [] type = 21 -> {Written(21, content, order, {})}
    [] type = 22 -> {Written(22, content, order, again): again \in SUBSET Later(22, content)}
    [] OTHER -> {content}

Misshapen(bytes) ==
  {SubSeq(bytes, 1, n): n \in {0, Len(bytes) - WordLen, Len(bytes) - 2 * WordLen} \cap Nat}
    \cup {bytes \o [i \in 1..(2 * WordLen) |-> 1]}

-----------------------------------------------------------------------------------

MCContents(type) == IF type \in TextSubtypes THEN TextContents(type) ELSE BinaryContents(type)

MCForms(type, content, order) ==
  IF type \in TextSubtypes THEN TextForms(type, content) ELSE BinaryForms(type, content, order)

(* One byte lost or changed; of the records of fixed shape, whole elements. *)
OneByteOff(bytes, alphabet) ==
  {RemoveAt(bytes, i): i \in DOMAIN bytes} \cup {ReplaceAt(bytes, i, other): i \in DOMAIN bytes, other \in alphabet}

MCDamaged(type, bytes) ==
  CASE type \in TextSubtypes -> OneByteOff(bytes, Alphabet(type))
    [] type \in {21, 22} -> OneByteOff(bytes, Byte)
    [] OTHER -> Misshapen(bytes)
===================================================================================
