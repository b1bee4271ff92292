------------------------------- MODULE RowReference -------------------------------
(* What a command stream means, read off the whole stream at once, and the rows    *)
(* of RecordReader compared with it.  A group at position p owns the units after   *)
(* it, one for each of its verbatim commands; the next group follows those.        *)
EXTENDS RecordReader, SequencesExt

VerbatimsUpTo(g, i) == Cardinality({j \in 1..i: g[j] = Verbatim})

(* The commands of the group at p that run: those before the first end of data,  *)
(* and before the first verbatim command whose payload the stream does not hold. *)
Executable(stream, p) ==
  LET g == stream[p]
      Blocked(i) == \/ g[i] = EndOfData
                    \/ g[i] = Verbatim /\ p + VerbatimsUpTo(g, i) > Len(stream)
  IN  {i \in 1..GroupLen: \A j \in 1..i: ~Blocked(j)}

(* What the i-th command of the group at p gives. *)
CellOf(stream, p, i) ==
  LET g == stream[p]
  IN  IF i \notin Executable(stream, p) \/ g[i] = Padding THEN << >>
      ELSE IF g[i] = Verbatim THEN <<Payload(p + VerbatimsUpTo(g, i))>> ELSE <<Literal(g[i])>>

CellsOf(stream, p) == FlattenSeq([i \in 1..GroupLen |-> CellOf(stream, p, i)])

(* The units a stream decodes to from each position a group may stand at, with no *)
(* regard to rows.                                                                *)
DecodedFrom(stream) ==
  LET from[p \in 1..(Len(stream) + GroupLen + 1)] ==
        IF p > Len(stream) THEN << >>
        ELSE CellsOf(stream, p)
             \o (IF Executable(stream, p) # 1..GroupLen THEN << >>
                 ELSE from[p + VerbatimsUpTo(stream[p], GroupLen) + 1])
  IN  from

Decoded(stream) == DecodedFrom(stream)[1]

(* The units of an uncompressed section: each stands for itself. *)
Plain(stream) == [i \in 1..Len(stream) |-> Payload(i)]

(* The units the section holds, as far as the reader has taken them. *)
Flat == IF Compressed THEN Decoded(taken) ELSE Plain(taken)

InHand   == IF pc = "filling" THEN row ELSE << >>
UnitsRead == handed \o InHand

-----------------------------------------------------------------------------------
(* Properties *)

(* Until a call fails, the rows handed out, and the part of a row in hand, are the *)
(* stream's units in the stream's order: a group straddles row boundaries, its     *)
(* payloads are not mistaken for groups, and nothing is lost, repeated or swapped. *)
(* Whatever failed before, no unit of the file is handed out twice or before an    *)
(* earlier one (bytecode_decoder.rs, fill_row).                                    *)
RowsFollowTheStream ==
  /\ failure \in {"none", "truncated"} =>
       /\ Len(UnitsRead) <= Len(Flat)
       /\ UnitsRead = SubSeq(Flat, 1, Len(UnitsRead))
  /\ \A i, j \in DOMAIN UnitsRead:
       i < j /\ UnitsRead[i].by = Verbatim /\ UnitsRead[j].by = Verbatim
         => UnitsRead[i].at < UnitsRead[j].at

(* When the stream ends, units that make no whole row are never dropped silently: *)
(* the call that ends reports exactly them, and an error instead of an end where  *)
(* the stream stops without a marker (bytecode_decoder.rs, fill_row).             *)
LeftoverIsReported ==
  [][/\ failure' = "none" /\ outcome # "end" /\ outcome' = "end" /\ rowLen > 0
     => (\E i \in DOMAIN warnings': warnings'[i] = "EndOfDataInsideRow")
          <=> Len(Flat') > Len(handed')]_vars
===================================================================================
