--------------------------------- MODULE SavFile ----------------------------------
(* What a system file holds, and where.  A file is given by what its writer put in it, the    *)
(* header `written` and the records of the `dictionary`, and by its bytes, which may end        *)
(* anywhere.  The predicates say which number or run of bytes stands at which offset, as far     *)
(* as the bytes go; how a number is spelled is left to the reads of BinaryPayloads.              *)
EXTENDS DictionaryBytes

CONSTANTS
  NameLen, LabelLen,   \* bounds: PRODUCT_NAME_LEN and FILE_LABEL_LEN
  Canonical(_, _)      \* how each float format, in each byte order, writes the bias 100

(* A format tells the bias of the others from its own (external: the float crates). *)
ASSUME CanonicalAssumption ==
  \A order \in ByteOrders: \A f, g \in FloatFormats: Canonical(f, order) = Canonical(g, order) => f = g

ASSUME LengthsAssumption ==
  /\ NameLen \in Nat /\ LabelLen \in Nat
  /\ EntryLen \in Nat /\ RestLen \in Nat /\ LineLen \in Nat /\ FillerLen \in Nat
  /\ LabelPadding \in Nat \ {0} /\ EntryAlignment \in Nat \ {0}
  /\ TerminatorType \in Int \ {2, 3, 4, 6, 7}

FL2 == [i \in 1..WordLen |-> 1]
FL3 == [i \in 1..WordLen |-> 2]
Magics == {FL2, FL3}

LayoutCodes == {2, 3}

(* A layout code is readable in one byte order only. *)
ASSUME OneOrderAssumption ==
  \A word \in [1..WordLen -> Byte]: \A order, other \in ByteOrders:
    ReadI32(order, word) \in LayoutCodes /\ ReadI32(other, word) \in LayoutCodes => order = other

-----------------------------------------------------------------------------------
(* The fields of the header in file order *)

TimestampLen == 3
FieldLens ==
  <<WordLen, NameLen, WordLen, WordLen, WordLen, WordLen, WordLen, 2 * WordLen,
    TimestampLen, TimestampLen, LabelLen, 1>>
Offset(f) == FoldLeft(LAMBDA sum, n: sum + n, 0, SubSeq(FieldLens, 1, f - 1))
HeaderLen == FoldLeft(LAMBDA sum, n: sum + n, 0, FieldLens)

Blank == 0

-----------------------------------------------------------------------------------
(* What the bytes of a file say, where there are any *)

Within(file, from, length)  == from + length <= Len(file.bytes)
ByteRun(file, from, length) == SubSeq(file.bytes, from + 1, from + length)

Holds(file, from, bytes) ==
  Within(file, from, Len(bytes)) => ByteRun(file, from, Len(bytes)) = bytes
SaysSigned(file, from, length, n) ==
  Within(file, from, length) => ReadI32(file.written.order, ByteRun(file, from, length)) = n
SaysUnsigned(file, from, length, n) ==
  Within(file, from, length) => ReadU32(file.written.order, ByteRun(file, from, length)) = n

(* A text fills its field up with blanks. *)
HoldsText(file, from, length, text) ==
  /\ Len(text) <= length
  /\ text # << >> => Last(text) # Blank
  /\ Within(file, from, length) =>
       \A i \in 1..length: file.bytes[from + i] = IF i <= Len(text) THEN text[i] ELSE Blank

(* Padding brings a length up to whole units. *)
Fills(length, units, unit) == length <= units * unit /\ (units - 1) * unit < length

-----------------------------------------------------------------------------------
(* The header *)

(* The byte order of a file is the one its layout code is readable in, if it is in any. *)
ReadsAsNoLayout(file, from) ==
  \A order \in ByteOrders:
    Within(file, from, WordLen) => ReadI32(order, ByteRun(file, from, WordLen)) \notin LayoutCodes

HeaderLaidOut(file) ==
  LET w == file.written
  IN  /\ w.order \in ByteOrders
      /\ w.magic \in Seq(Byte) /\ Len(w.magic) = WordLen /\ Holds(file, Offset(1), w.magic)
      /\ w.productName \in Seq(Byte) /\ HoldsText(file, Offset(2), NameLen, w.productName)
      /\ w.layout \in Int /\ SaysSigned(file, Offset(3), WordLen, w.layout)
      /\ w.layout \notin LayoutCodes => ReadsAsNoLayout(file, Offset(3))
      /\ w.nominal \in Int /\ SaysSigned(file, Offset(4), WordLen, w.nominal)
      /\ w.code \in Int /\ SaysSigned(file, Offset(5), WordLen, w.code)
      /\ w.weight \in Int /\ SaysSigned(file, Offset(6), WordLen, w.weight)
      /\ w.cases \in Int /\ SaysSigned(file, Offset(7), WordLen, w.cases)
      /\ Len(w.bias.bytes) = 2 * WordLen /\ Holds(file, Offset(8), w.bias.bytes)
      /\ w.bias.format \in FloatFormats
      /\ IF w.bias.canonical THEN w.bias.bytes = Canonical(w.bias.format, w.order)
         ELSE w.bias.format = "Ieee754" /\ w.bias.bytes \notin {Canonical(f, w.order): f \in FloatFormats}
      /\ w.fileLabel \in Seq(Byte) /\ HoldsText(file, Offset(11), LabelLen, w.fileLabel)

-----------------------------------------------------------------------------------
(* The records of the dictionary: `at` is where one begins and `length` how far it goes *)

LabelSize(record) ==
  IF record.labelled = 0 THEN 0 ELSE WordLen + record.label.units * LabelPadding

IsVariable(file, record) ==
  /\ record.type \in Int /\ record.missing \in Int /\ record.labelled \in Int
  /\ SaysSigned(file, record.at, WordLen, 2)
  /\ SaysSigned(file, record.at + WordLen, WordLen, record.type)
  /\ SaysSigned(file, record.at + (2 * WordLen), WordLen, record.labelled)
  /\ SaysSigned(file, record.at + (3 * WordLen), WordLen, record.missing)
  /\ record.labelled # 0 =>
       /\ record.label.length \in Nat /\ record.label.units \in Nat
       /\ SaysUnsigned(file, record.at + WordLen + BodyLen, WordLen, record.label.length)
       /\ Fills(record.label.length, record.label.units, LabelPadding)
  /\ record.length =
       WordLen + BodyLen + LabelSize(record) + MissingEntries(record.missing) * EntryLen

(* An entry is a value, the length of its label in a byte, and the label, padded together. *)
EntrySize(entry) == EntryLen + entry.units * EntryAlignment

IsValueLabels(file, record) ==
  LET entries == record.entries
      indices == record.indices
  IN  /\ record.pairAt \in Nat /\ record.pair \in Int
      /\ Len(entries) \in Nat /\ Len(indices) \in Nat /\ indices \in Seq(Nat)
      /\ SaysSigned(file, record.at, WordLen, 3)
      /\ SaysUnsigned(file, record.at + WordLen, WordLen, Len(entries))
      /\ IF Len(entries) = 0 THEN record.pairAt = record.at + (2 * WordLen)
         ELSE entries[1].at = record.at + (2 * WordLen)
      /\ \A i \in 1..Len(entries):
           /\ entries[i].at \in Nat /\ entries[i].length \in Nat /\ entries[i].units \in Nat
           /\ SaysUnsigned(file, entries[i].at + EntryLen, 1, entries[i].length)
           /\ Fills(entries[i].length + 1, entries[i].units, EntryAlignment)
           /\ entries[i].at + EntrySize(entries[i]) =
                IF i = Len(entries) THEN record.pairAt ELSE entries[i + 1].at
           /\ entries[i].at + EntrySize(entries[i]) <= record.pairAt
      /\ SaysSigned(file, record.pairAt, WordLen, record.pair)
      /\ SaysUnsigned(file, record.pairAt + WordLen, WordLen, Len(indices))
      /\ \A i \in 1..Len(indices):
           SaysUnsigned(file, record.pairAt + ((i + 1) * WordLen), WordLen, indices[i])
      /\ record.at + record.length = record.pairAt + ((Len(indices) + 2) * WordLen)

IsDocument(file, record) ==
  /\ record.lines \in Nat
  /\ SaysSigned(file, record.at, WordLen, 6)
  /\ SaysUnsigned(file, record.at + WordLen, WordLen, record.lines)
  /\ record.length = (2 * WordLen) + record.lines * LineLen

PayloadAt(record) == record.at + (4 * WordLen)

(* What a record declares, as a set of at most one: the name of an encoding, or a count. *)
Declares(file, record) ==
  LET payload == ByteRun(file, PayloadAt(record), record.size * record.count)
  IN  /\ record.subtype = Scan!CharacterEncoding =>
           record.says = IF record.size = 1 THEN {DeclaredLabel(payload)} ELSE {}
      /\ record.subtype = Scan!MachineIntegerInfo =>
           record.says = IF record.size = WordLen /\ record.count = 8
                         THEN {NameOf(ReadI32(file.written.order, Slab(payload, 8, WordLen)))} ELSE {}
      /\ record.subtype = 16 =>
           record.says = IF record.size = 2 * WordLen /\ record.count = 2
                         THEN {ReadI64(file.written.order, Slab(payload, 2, 2 * WordLen))} ELSE {}

IsExtension(file, record) ==
  /\ record.subtype \in Int /\ record.size \in Nat /\ record.count \in Nat
  /\ SaysSigned(file, record.at, WordLen, 7)
  /\ SaysSigned(file, record.at + WordLen, WordLen, record.subtype)
  /\ SaysUnsigned(file, record.at + (2 * WordLen), WordLen, record.size)
  /\ SaysUnsigned(file, record.at + (3 * WordLen), WordLen, record.count)
  /\ record.length = (4 * WordLen) + record.size * record.count
  /\ Within(file, PayloadAt(record), record.size * record.count) => Declares(file, record)

IsEnd(file, record) ==
  /\ SaysSigned(file, record.at, WordLen, TerminatorType)
  /\ record.length = WordLen + FillerLen

(* A record of no kind there is. *)
IsOther(file, record) ==
  /\ record.tag \in Int \ {2, 3, 6, 7, TerminatorType}
  /\ SaysSigned(file, record.at, WordLen, record.tag)

RecordKinds == {"variable", "value labels", "document", "extension", "end", "other"}

IsRecord(file, record) ==
  /\ record.kind \in RecordKinds
  /\ record.at \in Nat /\ record.length \in Nat
  /\ record.kind = "variable" => IsVariable(file, record)
  /\ record.kind = "value labels" => IsValueLabels(file, record)
  /\ record.kind = "document" => IsDocument(file, record)
  /\ record.kind = "extension" => IsExtension(file, record)
  /\ record.kind = "end" => IsEnd(file, record)
  /\ record.kind = "other" => IsOther(file, record)

(* One record after the other, and the end last. *)
DictionaryLaidOut(file) ==
  LET dictionary == file.dictionary
  IN  /\ Len(dictionary) \in Nat \ {0} /\ DOMAIN dictionary = 1..Len(dictionary)
      /\ dictionary[1].at = HeaderLen
      /\ \A i \in 1..Len(dictionary):
           /\ IsRecord(file, dictionary[i])
           /\ dictionary[i].kind = "end" <=> i = Len(dictionary)
           /\ i < Len(dictionary) => dictionary[i + 1].at = dictionary[i].at + dictionary[i].length

-----------------------------------------------------------------------------------
(* What makes a dictionary sound: `owed` is how many continuations a record still has to be,  *)
(* and `place` how many variable records come before it.                                       *)

Primary(record) == record.kind = "variable" /\ record.type # Scan!Continuation

SoundRecord(dictionary, i) ==
  LET record == dictionary[i]
      next   == dictionary[i + 1]
  IN  /\ record.owed \in Nat /\ record.place \in Nat
      /\ record.kind # "other"
      /\ record.owed > 0 <=> record.kind = "variable" /\ record.type = Scan!Continuation
      /\ record.kind = "variable" =>
           /\ Scan!TypeParses(record.type) /\ Scan!CountParses(record.missing)
           /\ next.place = record.place + 1
           /\ next.owed = IF Primary(record) THEN Scan!Units(record.type) - 1 ELSE record.owed - 1
      /\ record.kind \in RecordKinds \ {"variable", "end"} =>
           next.place = record.place /\ next.owed = record.owed
      /\ record.kind = "value labels" =>
           /\ record.pair = 4
           /\ \A k \in 1..Len(record.indices):
                \E j \in 1..i - 1: Primary(dictionary[j]) /\ dictionary[j].place = record.indices[k] - 1

(* All the bytes of the dictionary are there, and every record is as it must be. *)
Sound(file) ==
  LET dictionary == file.dictionary
  IN  /\ dictionary[1].owed = 0 /\ dictionary[1].place = 0
      /\ \A i \in 1..Len(dictionary):
           /\ SoundRecord(dictionary, i)
           /\ Within(file, dictionary[i].at, dictionary[i].length)

IsFile(file) ==
  /\ file.bytes \in Seq(Byte)
  /\ HeaderLaidOut(file) /\ DictionaryLaidOut(file)
  /\ file.sound => Sound(file)
===================================================================================
