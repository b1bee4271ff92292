------------------------------- MODULE MCSavHeader --------------------------------
(* One ordinary file, and the files that differ from it in a group of fields that belong   *)
(* together: byte order, magic, layout and compression codes; the bias; the counts, with the  *)
(* dictionary's; the text and the time; the encodings declared; dictionaries of every kind of *)
(* record, sound and not; and files cut short at every byte.                                  *)
EXTENDS SavHeader

(* Four patterns pairwise distinct; the byte order is IEEE's only. *)
MCCanonical(format, order) ==
  CASE format = "Ieee754" -> (IF order = "BigEndian" THEN <<1, 2, 0, 0>> ELSE <<0, 0, 2, 1>>)
    [] format = "IbmHfp" -> <<1, 1, 0, 0>>
    [] format = "VaxDFloat" -> <<0, 3, 1, 0>>
    [] format = "VaxGFloat" -> <<0, 2, 3, 0>>

CanonicalBias(format, order) == [format |-> format, bytes |-> Canonical(format, order), canonical |-> TRUE]
OtherBias(bytes) == [format |-> "Ieee754", bytes |-> bytes, canonical |-> FALSE]

Ordinary(order) ==
  [order |-> order, magic |-> FL2, layout |-> 2, productName |-> <<1>>, nominal |-> 1, code |-> 1,
   weight |-> 0, cases |-> 3, bias |-> CanonicalBias("Ieee754", order),
   date |-> <<NumberPart, MonthPart, NumberPart>>, time |-> <<NumberPart, NumberPart, NumberPart>>,
   fileLabel |-> <<3, 2>>]

OtherMagic == [i \in 1..WordLen |-> 3]

Codes(order) ==
  {[Ordinary(order) EXCEPT !.magic = magic, !.layout = layout, !.code = code]:
     magic \in Magics \cup {OtherMagic}, layout \in {2, 3, 5}, code \in -1..3}
Biases(order) ==
  {[Ordinary(order) EXCEPT !.bias = bias]:
     bias \in {CanonicalBias(format, order): format \in FloatFormats}
       \cup {OtherBias(<<1, 1, 1, 1>>),
             OtherBias(Canonical("Ieee754", IF order = "BigEndian" THEN "LittleEndian" ELSE "BigEndian"))}}
Numbered(order) ==
  {[Ordinary(order) EXCEPT !.weight = weight, !.cases = cases, !.nominal = nominal]:
     weight \in {-1, 1, 3}, cases \in {-1, 0, 7}, nominal \in {-1, 1}}
Texts(order) ==
  {[Ordinary(order) EXCEPT !.productName = name, !.date = date, !.time = time]:
     name \in {<< >>, <<0, 3>>},
     date \in {<<0, 1, 2>>, <<1, 2, 1>>, <<2, 1, 1>>, <<3, 3, 3>>}, time \in {<<1, 1, 1>>, <<1, 0, 1>>}}

Padded(text, length) == text \o [i \in 1..(length - Len(text)) |-> Blank]
Word(order, n) ==
  LET number == n % Base^WordLen
      big == [i \in 1..WordLen |-> (number \div Base^(WordLen - i)) % Base]
  IN  IF order = "BigEndian" THEN big ELSE Reverse(big)

Written(w) ==
  w.magic \o Padded(w.productName, NameLen) \o Word(w.order, w.layout) \o Word(w.order, w.nominal)
    \o Word(w.order, w.code) \o Word(w.order, w.weight) \o Word(w.order, w.cases) \o w.bias.bytes
    \o w.date \o w.time \o Padded(w.fileLabel, LabelLen) \o <<Blank>>

-----------------------------------------------------------------------------------
(* A dictionary is written as a sequence of fields: numbers of a word, and runs of bytes. *)

Numbered32(numbers) == [i \in DOMAIN numbers |-> [number |-> numbers[i], bytes |-> << >>]]
Run(bytes)          == <<[number |-> 0, bytes |-> bytes]>>
Filled(length)      == Run([i \in 1..length |-> 1])
BytesOf(order, fields) ==
  FlattenSeq([i \in DOMAIN fields |->
    IF fields[i].bytes = << >> THEN Word(order, fields[i].number) ELSE fields[i].bytes])

(* A record as its writer knows it, and its fields. *)
RecordOf(known, fields) == [known |-> known, fields |-> fields]

LabelOf(length) == Numbered32(<<length>>) \o (IF length = 0 THEN << >> ELSE Filled(RoundUp(length, LabelPadding)))
VariableOf(type, labels, missing) ==
  RecordOf(
    [kind |-> "variable", type |-> type, missing |-> missing, labelled |-> Len(labels),
     label |-> IF labels = << >> THEN [length |-> 0, units |-> 0]
               ELSE [length |-> labels[1], units |-> RoundUp(labels[1], LabelPadding) \div LabelPadding]],
    Numbered32(<<2, type, Len(labels), missing>>) \o Filled(RestLen) \o FlattenSeq([i \in DOMAIN labels |-> LabelOf(labels[i])])
      \o (IF missing = 0 THEN << >> ELSE Filled(EntryLen * (IF missing < 0 THEN -missing ELSE missing))))

(* An entry, padded with its length byte to whole units. *)
UnitsOf(length) == RoundUp(1 + length, EntryAlignment) \div EntryAlignment
EntryOf(length) ==
  Filled(EntryLen) \o Run(<<length>> \o [i \in 1..(UnitsOf(length) * EntryAlignment - 1) |-> 2])
PairedOf(lengths, indices, pair) ==
  RecordOf([kind |-> "value labels", lengths |-> lengths, indices |-> indices, pair |-> pair],
    Numbered32(<<3, Len(lengths)>>) \o FlattenSeq([i \in DOMAIN lengths |-> EntryOf(lengths[i])])
      \o Numbered32(<<pair, Len(indices)>> \o indices))
ValueLabelsOf(lengths, indices) == PairedOf(lengths, indices, 4)

DocumentOf(lines) ==
  RecordOf([kind |-> "document", lines |-> lines],
    Numbered32(<<6, lines>>) \o (IF lines = 0 THEN << >> ELSE Filled(lines * LineLen)))

ExtensionOf(subtype, says, size, count, fields) ==
  RecordOf([kind |-> "extension", subtype |-> subtype, says |-> says, size |-> size, count |-> count],
    Numbered32(<<7, subtype, size, count>>) \o fields)
LabelRecord(says, bytes) == ExtensionOf(20, says, 1, Len(bytes), Run(bytes))
CodeRecord(says, code)   == ExtensionOf(3, says, WordLen, 8, Numbered32(<<0, 0, 0, 0, 1, 1, 1, code>>))
(* A count is a number of two words: the reader's order decides which comes first. *)
CountRecord(order, n) ==
  ExtensionOf(16, {n}, 2 * WordLen, 2,
    LET Long(number) == Numbered32(IF order = "BigEndian" THEN <<number \div Base^WordLen, number % Base^WordLen>>
                                   ELSE <<number % Base^WordLen, number \div Base^WordLen>>)
    IN  Long(1) \o Long(n))

End  == RecordOf([kind |-> "end"], Numbered32(<<TerminatorType>>) \o Filled(FillerLen))
UTF8 == LabelRecord({"UTF-8"}, <<1, 0>>)

Declarations ==
  {<<End>>, <<UTF8, End>>, <<CodeRecord({"UTF-8"}, 1), End>>,
   <<LabelRecord({"unknown"}, <<4>>), CodeRecord({"windows-1252"}, 2), End>>,
   <<LabelRecord({"blank"}, <<0>>), End>>, <<LabelRecord({"unknown"}, <<1, 1>>), End>>,
   <<CodeRecord({"UTF-8"}, 1), LabelRecord({"windows-1252"}, <<2>>), End>>,
   <<UTF8, ExtensionOf(20, {}, 2, 1, Filled(2)), End>>,
   <<ExtensionOf(20, {}, 2, 1, Filled(2)), UTF8, End>>,
   <<CodeRecord({"UTF-8"}, 1), ExtensionOf(3, {}, WordLen, 1, Numbered32(<<1>>)), End>>,
   <<ExtensionOf(3, {}, WordLen, 1, Numbered32(<<1>>)), UTF8, End>>}
Counts(order) ==
  {<<UTF8, CountRecord(order, n), End>>: n \in {-1, 3}}
    \cup {<<UTF8, CountRecord(order, -1), CountRecord(order, 7), End>>,
           <<UTF8, ExtensionOf(16, {}, WordLen, 1, Numbered32(<<1>>)), CountRecord(order, 3), End>>}

(* Every kind of record, with labels and entries of lengths whole and not. *)
SoundOnes ==
  {<<VariableOf(0, <<>>, 0), VariableOf(9, <<3>>, -2), VariableOf(-1, <<2>>, 1), VariableOf(0, <<0>>, -1),
     ValueLabelsOf(<<0, 1, 2, 3>>, <<1, 2>>), ValueLabelsOf(<<>>, <<>>), End>>,
   <<UTF8, VariableOf(8, <<1>>, 3), DocumentOf(2), DocumentOf(0), ExtensionOf(11, {}, 3, 2, Filled(6)),
     ValueLabelsOf(<<5>>, <<1>>), ExtensionOf(13, {}, 1, 3, Filled(3)), ExtensionOf(17, {}, 1, 0, << >>), End>>}

Unknown(tag) == RecordOf([kind |-> "other", tag |-> tag], Numbered32(<<tag>>))
Unsound ==
  {<<VariableOf(type, <<>>, missing), End>>: type \in {-2, -1, 9}, missing \in {0, 4}}
    \cup {<<VariableOf(9, <<>>, 0), VariableOf(-1, <<1>>, 4), End>>, <<VariableOf(9, <<>>, 0), VariableOf(0, <<>>, 0), End>>,
           <<Unknown(5), End>>, <<Unknown(4), End>>, <<PairedOf(<<>>, <<>>, 6), End>>, <<ValueLabelsOf(<<1>>, <<1>>), End>>}

(* What a record knows of its place: its offset and length, and where its parts begin; the *)
(* continuations owed and the variable records before it.                                     *)
Owed(parts) ==
  LET owed[i \in DOMAIN parts] ==
        IF i = 1 THEN 0
        ELSE LET known == parts[i - 1].known
             IN  IF known.kind # "variable" THEN owed[i - 1]
                 ELSE IF known.type = -1 THEN owed[i - 1] - 1 ELSE Scan!Units(known.type) - 1
  IN  owed
Place(parts, i) == Cardinality({j \in 1..i - 1: parts[j].known.kind = "variable"})

Entries(from, lengths) ==
  [j \in DOMAIN lengths |->
     [at |-> from + FoldLeft(LAMBDA sum, n: sum + EntryLen + UnitsOf(n) * EntryAlignment, 0, SubSeq(lengths, 1, j - 1)),
      length |-> lengths[j], units |-> UnitsOf(lengths[j])]]
Parts(from, known, length) ==
  IF known.kind # "value labels" THEN known
  ELSE [entries |-> Entries(from + 2 * WordLen, known.lengths),
        pairAt |-> from + length - WordLen * (2 + Len(known.indices))] @@ known

Dictionary(order, parts) ==
  LET length == [i \in DOMAIN parts |-> Len(BytesOf(order, parts[i].fields))]
      at     == [i \in DOMAIN parts |-> FoldLeft(LAMBDA sum, n: sum + n, HeaderLen, SubSeq(length, 1, i - 1))]
      owed   == Owed(parts)
  IN  [i \in DOMAIN parts |->
         Parts(at[i], parts[i].known, length[i])
           @@ [at |-> at[i], length |-> length[i], owed |-> owed[i], place |-> Place(parts, i)]]

Rest == <<3, 1, 2, 3, 0, 1, 3>>

FileOf(w, parts, sound) ==
  [written |-> w, dictionary |-> Dictionary(w.order, parts), sound |-> sound,
   bytes |-> Written(w) \o FlattenSeq([i \in DOMAIN parts |-> BytesOf(w.order, parts[i].fields)]) \o Rest]

FilesOf(order) ==
  {FileOf(w, <<UTF8, End>>, TRUE): w \in Codes(order) \cup Biases(order)}
    \cup {FileOf(w, parts, TRUE): w \in Numbered(order), parts \in Counts(order) \cup {<<UTF8, End>>}}
    \cup {FileOf(w, parts, TRUE): w \in Texts(order), parts \in {<<End>>, <<UTF8, End>>}}
    \cup {FileOf(Ordinary(order), parts, TRUE): parts \in Declarations \cup SoundOnes}
    \cup {FileOf(Ordinary(order), parts, FALSE): parts \in Unsound}

Cut(whole, n) == [whole EXCEPT !.bytes = SubSeq(@, 1, n), !.sound = FALSE]
CutFiles(whole) == {Cut(whole, n): n \in 1..(Len(whole.bytes) - 1)}

MCFiles ==
  UNION {FilesOf(order): order \in ByteOrders}
    \cup UNION {CutFiles(FileOf(Ordinary("BigEndian"), parts, TRUE)): parts \in SoundOnes}

MCStrategy == [override |-> "absent", unspecified |-> "windows-1252", unrecognized |-> "absent"]
===================================================================================
