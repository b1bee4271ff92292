----------------------------- MODULE ZlibBlocks_proofs -----------------------------
(* For every set of sections and every length of units, windows, chunks and the header:   *)
(* where the reads of a section are, what its bytes are and in what order they come, what a *)
(* clean end says of the section, and that its units implement the decoder's source.          *)
EXTENDS ZlibBlocks, SequenceLemmas, FiniteSetTheorems

-----------------------------------------------------------------------------------
(* What symbols yield *)

LEMMA SymbolsYield == Symbol = {"silent", "byte", "pair", "end", "bad"} /\ \A s \in Symbol: Yield[s] \in 0..2
BY DEF Symbol, Yield

Numbers(symbols) == [i \in DOMAIN symbols |-> Yield[symbols[i]]]

LEMMA NumbersTyped ==
  ASSUME NEW s \in Seq(Symbol)
  PROVE  /\ Numbers(s) \in Seq(0..2) /\ Numbers(s) \in Seq(Nat)
         /\ Len(Numbers(s)) = Len(s) /\ Yields(s) = Total(Numbers(s))
<1>1. DOMAIN s = 1..Len(s) /\ Len(s) \in Nat /\ \A i \in 1..Len(s): s[i] \in Symbol
  OBVIOUS
<1>2. \A i \in 1..Len(s): Yield[s[i]] \in 0..2
  BY <1>1, SymbolsYield
<1>3. Numbers(s) \in Seq(0..2) /\ Len(Numbers(s)) = Len(s)
  BY <1>1, <1>2 DEF Numbers
<1>4. Numbers(s) \in Seq(Nat)
  BY <1>1, <1>2 DEF Numbers
<1>5. Yields(s) = Total(Numbers(s))
  BY DEF Yields, Total, Numbers
<1> QED
  BY <1>3, <1>4, <1>5

LEMMA YieldsTyped ==
  ASSUME NEW s \in Seq(Symbol)
  PROVE  Yields(s) \in Nat
BY NumbersTyped, TotalTyped

LEMMA YieldsConcat ==
  ASSUME NEW s \in Seq(Symbol), NEW t \in Seq(Symbol)
  PROVE  Yields(s \o t) = Yields(s) + Yields(t)
<1>1. s \o t \in Seq(Symbol)
  OBVIOUS
<1>2. Numbers(s \o t) = Numbers(s) \o Numbers(t)
  <2>1. Len(s) \in Nat /\ Len(t) \in Nat /\ Len(s \o t) = Len(s) + Len(t)
    OBVIOUS
  <2>2. /\ Numbers(s) \in Seq(Nat) /\ Len(Numbers(s)) = Len(s)
        /\ Numbers(t) \in Seq(Nat) /\ Len(Numbers(t)) = Len(t)
    BY NumbersTyped
  <2>3. Numbers(s \o t) \in Seq(Nat) /\ Len(Numbers(s \o t)) = Len(s) + Len(t)
    BY <1>1, <2>1, NumbersTyped
  <2>4. Numbers(s) \o Numbers(t) \in Seq(Nat) /\ Len(Numbers(s) \o Numbers(t)) = Len(s) + Len(t)
    <3>1. Numbers(s) \in Seq(Nat)
      BY <2>2
    <3>2. Numbers(t) \in Seq(Nat)
      BY <2>2
    <3>3. Numbers(s) \o Numbers(t) \in Seq(Nat)
      BY <3>1, <3>2, ConcatProperties
    <3>4. Len(Numbers(s) \o Numbers(t)) = Len(Numbers(s)) + Len(Numbers(t))
      BY <3>1, <3>2, ConcatProperties
    <3> QED
      BY <2>2, <3>3, <3>4
  <2>5. ASSUME NEW i \in 1..(Len(s) + Len(t))
        PROVE  Numbers(s \o t)[i] = (Numbers(s) \o Numbers(t))[i]
    <3>1. Numbers(s \o t)[i] = Yield[(s \o t)[i]]
      BY <1>1, <2>1 DEF Numbers
    <3>2. (s \o t)[i] = IF i <= Len(s) THEN s[i] ELSE t[i - Len(s)]
      BY ConcatProperties
    <3>3. (Numbers(s) \o Numbers(t))[i]
            = IF i <= Len(s) THEN Numbers(s)[i] ELSE Numbers(t)[i - Len(s)]
      BY <2>1, <2>2, ConcatProperties
    <3>4. i <= Len(s) => i \in DOMAIN s /\ Numbers(s)[i] = Yield[s[i]]
      BY <2>1 DEF Numbers
    <3>5. ~(i <= Len(s)) => i - Len(s) \in DOMAIN t /\ Numbers(t)[i - Len(s)] = Yield[t[i - Len(s)]]
      BY <2>1 DEF Numbers
    <3> QED
      BY <3>1, <3>2, <3>3, <3>4, <3>5
  <2> QED
    BY <2>3, <2>4, <2>5, SeqEqual
<1> QED
  BY <1>1, <1>2, NumbersTyped, TotalConcat

LEMMA SymbolYields ==
  ASSUME NEW s \in Symbol
  PROVE  Yields(<<s>>) = Yield[s] /\ Yield[s] \in 0..2
<1>1. Yield[s] \in 0..2 /\ Yield[s] \in Nat
  BY SymbolsYield
<1>2. Numbers(<<s>>) = Append(<< >>, Yield[s])
  BY DEF Numbers
<1>3. Total(Numbers(<<s>>)) = 0 + Yield[s]
  BY <1>1, <1>2, TotalAppend, TotalEmpty, EmptySeq
<1> DEFINE one == <<s>>
<1>4. one \in Seq(Symbol)
  OBVIOUS
<1> HIDE DEF one
<1>5. Yields(one) = Total(Numbers(one))
  BY <1>4, NumbersTyped
<1> QED
  BY <1>1, <1>3, <1>5 DEF one

LEMMA YieldsBounded ==
  ASSUME NEW s \in Seq(Symbol)
  PROVE  Yields(s) <= 2 * Len(s)
<1> DEFINE N == {n \in Nat: \A t \in Seq(Symbol): Len(t) = n => Yields(t) <= 2 * Len(t)}
<1>1. 0 \in N
  <2> SUFFICES ASSUME NEW t \in Seq(Symbol), Len(t) = 0
               PROVE  Yields(t) <= 2 * Len(t)
    OBVIOUS
  <2>1. Len(Numbers(t)) = 0 /\ Numbers(t) \in Seq(Nat)
    BY NumbersTyped
  <2>2. Numbers(t) = << >>
    BY <2>1, EmptySeq
  <2>3. Yields(t) = 0
    BY <2>2, NumbersTyped, TotalEmpty
  <2> QED
    BY <2>3
<1>2. ASSUME NEW n \in N, NEW t \in Seq(Symbol), Len(t) = n + 1
      PROVE  Yields(t) <= 2 * Len(t)
  <2> DEFINE front == SubSeq(t, 1, n)
             last  == t[n + 1]
  <2>1. /\ n \in Nat /\ front \in Seq(Symbol) /\ Len(front) = n
        /\ last \in Symbol /\ t = Append(front, last)
    BY <1>2, SeqIsAppend
  <2> HIDE DEF front, last
  <2>2. Yields(front) <= 2 * n /\ Yields(front) \in Nat
    BY <2>1, YieldsTyped
  <2> HIDE DEF N
  <2>3. t = front \o <<last>> /\ <<last>> \in Seq(Symbol)
    BY <2>1
  <2>4. Yields(t) = Yields(front) + Yields(<<last>>)
    BY <2>1, <2>3, YieldsConcat
  <2>5. Yields(<<last>>) <= 2 /\ Yields(<<last>>) \in Nat
    BY <2>1, SymbolYields
  <2> QED
    BY <1>2, <2>1, <2>2, <2>4, <2>5
<1>3. N \in SUBSET Nat /\ \A n \in N: n + 1 \in N
  BY <1>2
<1> HIDE DEF N
<1>4. N = Nat
  BY <1>1, <1>3, SetInduction
<1> QED
  BY <1>4, LenProperties DEF N

-----------------------------------------------------------------------------------
(* Where the reader is, and its types *)

(* Nothing is read, or inflated, before the header. *)
Fresh ==
  /\ cursor = Start /\ position = Start
  /\ input = << >> /\ inflater = "sound" /\ pending = 0 /\ produced = 0 /\ blocks = 0
  /\ output = << >> /\ unit = << >> /\ taken = << >>
  /\ ~finished /\ pc # "inflating"

(* The bytes counted lie between the header and the trailer, and those read in the file; *)
(* only a failed read makes the two differ.                                               *)
Placed ==
  /\ header # "read" => Fresh
  /\ header = "read" =>
       /\ HeaderAccepted
       /\ HeaderLen <= position /\ position <= file.trailer
       /\ position <= cursor /\ cursor <= HeaderLen + Len(file.contents)
       /\ "io" \notin failures => cursor = position

(* The window is empty and the unit unfilled while there is something to inflate. *)
InTheCall ==
  /\ pc = "idle" => unit = << >>
  /\ pc = "inflating" =>
       /\ header = "read" /\ ~finished
       /\ output = << >> /\ Len(unit) < UnitLen
       /\ input = << >> => position >= file.trailer

BlocksInv == TypeOK /\ Placed /\ InTheCall

LEMMA Lengths ==
  /\ UnitLen \in Nat /\ UnitLen > 0 /\ WindowLen \in Nat /\ WindowLen > 0
  /\ ChunkLen \in Nat /\ ChunkLen > 0 /\ HeaderLen \in Nat
BY UnitLenAssumption, WindowLenAssumption, ChunkLenAssumption, LengthsAssumption

LEMMA FileTyped ==
  ASSUME TypeOK
  PROVE  /\ file.trailer \in Int /\ file.contents \in Seq(Symbol)
         /\ Len(file.contents) \in Nat
<1>1. file \in [self: Int, trailer: Int, trailerLen: Int, contents: Seq(Symbol)]
  BY FilesAssumption DEF TypeOK
<1> QED
  BY <1>1

(* What each group of variables is, so that an action is looked at one group at a time. *)
ReadTyped     == header \in {"unread", "read", "lost"} /\ cursor \in Nat /\ position \in Nat
InputTyped    == input \in Seq(Symbol \cup {Filler}) /\ Len(input) <= ChunkLen
InflaterTyped == inflater \in {"sound", "astray", "dead"} /\ pending \in Nat /\ finished \in BOOLEAN
OutputTyped   == output \in Seq(Nat) /\ Len(output) <= WindowLen /\ produced \in Nat /\ blocks \in Nat
UnitTyped     == unit \in Seq(Nat) /\ Len(unit) <= UnitLen
CallTyped     ==
  /\ pc \in {"idle", "filling", "inflating"}
  /\ answer \in {"asked", "unit", "none", "torn", "failed"}
  /\ failures \subseteq Kinds
TakenTyped    == taken \in Seq([1..UnitLen -> Nat])

GroupsOK ==
  /\ file \in Files
  /\ ReadTyped /\ InputTyped /\ InflaterTyped /\ OutputTyped
  /\ UnitTyped /\ CallTyped /\ TakenTyped

LEMMA TypesAreGroups == TypeOK <=> GroupsOK
<1>1. TypeOK => /\ file \in Files
                /\ ReadTyped /\ InputTyped /\ InflaterTyped
  BY DEF TypeOK, ReadTyped, InputTyped, InflaterTyped
<1>2. TypeOK => OutputTyped /\ UnitTyped
  BY DEF TypeOK, OutputTyped, UnitTyped
<1>3. TypeOK => CallTyped /\ TakenTyped
  BY DEF TypeOK, CallTyped, TakenTyped
<1>4. ASSUME file \in Files, ReadTyped, InputTyped, InflaterTyped,
             OutputTyped, UnitTyped, CallTyped, TakenTyped
      PROVE  TypeOK
  <2>1. header \in {"unread", "read", "lost"} /\ cursor \in Nat /\ position \in Nat
    BY <1>4 DEF ReadTyped
  <2>2. input \in Seq(Symbol \cup {Filler}) /\ Len(input) <= ChunkLen
    BY <1>4 DEF InputTyped
  <2>3. inflater \in {"sound", "astray", "dead"} /\ pending \in Nat /\ finished \in BOOLEAN
    BY <1>4 DEF InflaterTyped
  <2>4. output \in Seq(Nat) /\ Len(output) <= WindowLen /\ produced \in Nat /\ blocks \in Nat
    BY <1>4 DEF OutputTyped
  <2>5. unit \in Seq(Nat) /\ Len(unit) <= UnitLen
    BY <1>4 DEF UnitTyped
  <2>6. /\ pc \in {"idle", "filling", "inflating"}
        /\ answer \in {"asked", "unit", "none", "torn", "failed"}
        /\ failures \subseteq Kinds
    BY <1>4 DEF CallTyped
  <2>7. taken \in Seq([1..UnitLen -> Nat])
    BY <1>4 DEF TakenTyped
  <2> QED
    BY <1>4, <2>1, <2>2, <2>3, <2>4, <2>5, <2>6, <2>7, Zenon DEF TypeOK
<1> QED
  BY <1>1, <1>2, <1>3, <1>4, Zenon DEF GroupsOK

LEMMA NextTypesAreGroups == TypeOK' <=> GroupsOK'
BY TypesAreGroups, PTL

LEMMA InitBlocks == Init => BlocksInv
<1> SUFFICES ASSUME Init PROVE BlocksInv
  OBVIOUS
<1>1. file \in Files /\ ReadTyped /\ InflaterTyped
  BY DEF Init, Start, ReadTyped, InflaterTyped
<1>2. InputTyped /\ OutputTyped /\ UnitTyped
  BY Lengths DEF Init, InputTyped, OutputTyped, UnitTyped
<1>3. CallTyped /\ TakenTyped
  BY DEF Init, CallTyped, TakenTyped
<1>4. TypeOK
  BY <1>1, <1>2, <1>3, TypesAreGroups DEF GroupsOK
<1>5. Placed
  BY DEF Init, Placed, Fresh
<1>6. InTheCall
  BY DEF Init, InTheCall
<1> QED
  BY <1>4, <1>5, <1>6 DEF BlocksInv

LEMMA FailTyped ==
  ASSUME TypeOK, NEW kind \in Kinds, Fail(kind)
  PROVE  UnitTyped' /\ CallTyped' /\ TakenTyped'
<1>1. UnitTyped'
  BY Lengths DEF Fail, UnitTyped
<1>2. CallTyped' /\ TakenTyped'
  BY DEF Fail, CallTyped, TakenTyped, TypeOK
<1> QED
  BY <1>1, <1>2

LEMMA GoOnTyped ==
  ASSUME TypeOK, NEW next \in {"filling", "inflating"}, GoOn(next)
  PROVE  UnitTyped' /\ CallTyped' /\ TakenTyped'
BY DEF GoOn, UnitTyped, CallTyped, TakenTyped, TypeOK

(* What the pieces are that the actions cut from the input, the file and the window. *)
LEMMA DroppedTyped ==
  ASSUME TypeOK, NEW n \in 0..Len(input)
  PROVE  /\ Dropped(n) \in Seq(Symbol \cup {Filler}) /\ Len(Dropped(n)) = Len(input) - n
         /\ \A i \in 1..(Len(input) - n): Dropped(n)[i] = input[n + i]
<1>1. input \in Seq(Symbol \cup {Filler}) /\ Len(input) \in Nat
  BY DEF TypeOK
<1>2. \A i \in (n + 1)..Len(input): input[i] \in Symbol \cup {Filler}
  BY <1>1
<1>3. n + 1 \in Int /\ Len(input) \in Int
  BY <1>1
<1> QED
  BY <1>1, <1>2, <1>3, SubSeqProperties DEF Dropped

LEMMA BacklogTyped ==
  ASSUME TypeOK, NEW n \in 0..Len(input), Data(n)
  PROVE  /\ SubSeq(input, 1, n) \in Seq(Symbol) /\ Len(SubSeq(input, 1, n)) = n
         /\ \A i \in 1..n: SubSeq(input, 1, n)[i] = input[i]
         /\ Yields(SubSeq(input, 1, n)) \in Nat
         /\ Backlog(n) \in Nat /\ Backlog(n) = pending + Yields(SubSeq(input, 1, n))
<1>1. pending \in Nat /\ n \in Nat
  BY DEF TypeOK
<1>2. \A i \in 1..n: input[i] \in Symbol
  BY SymbolsYield DEF Data
<1>3. /\ SubSeq(input, 1, n) \in Seq(Symbol) /\ Len(SubSeq(input, 1, n)) = n
      /\ \A i \in 1..n: SubSeq(input, 1, n)[i] = input[i]
  BY <1>1, <1>2, SubSeqProperties
<1>4. Yields(SubSeq(input, 1, n)) \in Nat
  BY <1>3, YieldsTyped
<1> QED
  BY <1>1, <1>3, <1>4 DEF Backlog

LEMMA AheadTyped ==
  ASSUME TypeOK, HeaderLen <= cursor, NEW n \in Nat, n <= LeftInFile
  PROVE  /\ Ahead(n) \in Seq(Symbol) /\ Len(Ahead(n)) = n
         /\ \A i \in 1..n: Ahead(n)[i] = file.contents[cursor - HeaderLen + i]
<1> DEFINE first == cursor - HeaderLen + 1
           last  == cursor - HeaderLen + n
           all   == file.contents
<1>1. all \in Seq(Symbol) /\ Len(all) \in Nat /\ cursor \in Nat
  BY FileTyped DEF TypeOK
<1>2. first \in Int /\ last \in Int /\ 1 <= first /\ last <= Len(all) /\ last - first + 1 = n
  BY <1>1, Lengths DEF LeftInFile
<1> HIDE DEF all
<1>3. \A i \in 1..Len(all): all[i] \in Symbol
  BY <1>1
<1>4. \A i \in first..last: all[i] \in Symbol
  BY <1>1, <1>2, <1>3
<1>5. \A i \in 1..n: first + i - 1 = cursor - HeaderLen + i
  BY <1>1, Lengths
<1> HIDE DEF first, last
<1>6. /\ SubSeq(all, first, last) \in Seq(Symbol) /\ Len(SubSeq(all, first, last)) = n
      /\ \A i \in 1..n: SubSeq(all, first, last)[i] = all[first + i - 1]
  BY <1>2, <1>4, SubSeqProperties
<1> QED
  BY <1>5, <1>6 DEF first, last, all, Ahead

LEMMA FillersTyped ==
  ASSUME NEW n \in Nat
  PROVE  Fillers(n) \in Seq({Filler}) /\ Len(Fillers(n)) = n /\ \A i \in 1..n: Fillers(n)[i] = Filler
BY DEF Fillers

LEMMA BytesTyped ==
  ASSUME TypeOK, NEW n \in Nat
  PROVE  Bytes(n) \in Seq(Nat) /\ Len(Bytes(n)) = n /\ \A i \in 1..n: Bytes(n)[i] = produced + i
BY DEF Bytes, TypeOK

LEMMA EmitTyped ==
  ASSUME TypeOK, NEW n \in Nat, NEW extra \in {<< >>, <<Garbage>>},
         n + Len(extra) <= WindowLen, Emit(n, extra), blocks' \in Nat
  PROVE  OutputTyped'
<1>1. Bytes(n) \in Seq(Nat) /\ Len(Bytes(n)) = n
  BY BytesTyped
<1>2. extra \in Seq(Nat)
  <2>1. << >> \in Seq(Nat) /\ <<Garbage>> \in Seq(Nat)
    BY DEF Garbage
  <2> QED
    BY <2>1
<1>3. output' \in Seq(Nat) /\ Len(output') = n + Len(extra)
  BY <1>1, <1>2 DEF Emit
<1>4. produced' \in Nat
  BY DEF Emit, TypeOK
<1> QED
  BY <1>3, <1>4 DEF OutputTyped

LEMMA TakeTyped ==
  ASSUME TypeOK
  PROVE  /\ Take \in Nat /\ Take <= ChunkLen
         /\ Take > 0 => position + Take <= file.trailer
         /\ Take = 0 => file.trailer <= position
<1>1. file.trailer \in Int /\ position \in Nat
  BY FileTyped DEF TypeOK
<1> DEFINE trailer == file.trailer
<1>2. trailer \in Int
  BY <1>1
<1>3. Take = IF trailer > position THEN Least(trailer - position, ChunkLen) ELSE 0
  BY DEF Take
<1> HIDE DEF trailer
<1>4. /\ Take \in Nat /\ Take <= ChunkLen
      /\ Take > 0 => position + Take <= trailer
      /\ Take = 0 => trailer <= position
  BY <1>1, <1>2, <1>3, Lengths DEF Least
<1> QED
  BY <1>4 DEF trailer

-----------------------------------------------------------------------------------
(* Each action keeps the reader in its place *)

LEMMA CallKeepsBlocks ==
  ASSUME BlocksInv, Call \/ CopyBytes \/ ReturnUnit
  PROVE  BlocksInv'
<1>1. TypeOK /\ Placed /\ InTheCall
  BY DEF BlocksInv
<1>2. CASE Call
  <2>1. (file \in Files)' /\ ReadTyped' /\ InputTyped' /\ InflaterTyped' /\ OutputTyped'
    BY <1>1, <1>2, TypesAreGroups DEF GroupsOK, Call, readVars, inflateVars, ReadTyped, InputTyped, InflaterTyped, OutputTyped
  <2>2. UnitTyped' /\ TakenTyped'
    BY <1>1, <1>2, Lengths DEF Call, UnitTyped, TakenTyped, TypeOK
  <2>3. CallTyped'
    BY <1>1, <1>2 DEF Call, CallTyped, TypeOK
  <2>4. Placed' /\ InTheCall'
    BY <1>1, <1>2 DEF Call, readVars, inflateVars, Placed, InTheCall, Fresh, HeaderAccepted
  <2> QED
    BY <2>1, <2>2, <2>3, <2>4, NextTypesAreGroups DEF BlocksInv, GroupsOK
<1>3. CASE CopyBytes
  <2> DEFINE take == Least(Len(output), UnitLen - Len(unit))
             head == SubSeq(output, 1, take)
  <2>1. /\ output \in Seq(Nat) /\ Len(output) \in Nat /\ Len(output) <= WindowLen
        /\ unit \in Seq(Nat) /\ Len(unit) \in Nat /\ Len(unit) < UnitLen
    BY <1>1, <1>3 DEF TypeOK, CopyBytes
  <2>2. take \in Nat /\ take <= Len(output) /\ take <= UnitLen - Len(unit)
    BY <2>1, Lengths DEF Least
  <2> HIDE DEF take
  <2>3. head \in Seq(Nat) /\ Len(head) = take
    BY <2>1, <2>2, SubSeqProperties
  <2>4. LeftInWindow(take) \in Seq(Nat) /\ Len(LeftInWindow(take)) = Len(output) - take
    <3>1. take + 1 \in Int /\ \A i \in (take + 1)..Len(output): output[i] \in Nat
      BY <2>1, <2>2
    <3> QED
      BY <2>1, <2>2, <3>1, SubSeqProperties DEF LeftInWindow
  <2> HIDE DEF head
  <2>5. unit' = unit \o head /\ output' = LeftInWindow(take)
    BY <1>3 DEF CopyBytes, take, head
  <2>6. unit' \in Seq(Nat) /\ Len(unit') = Len(unit) + take
    BY <2>1, <2>3, <2>5, ConcatProperties
  <2>7. UnitTyped'
    BY <2>1, <2>2, <2>6, Lengths DEF UnitTyped
  <2>8. OutputTyped'
    BY <1>1, <1>3, <2>1, <2>2, <2>4, <2>5, Lengths DEF OutputTyped, CopyBytes, TypeOK
  <2>9. (file \in Files)' /\ ReadTyped' /\ InputTyped' /\ InflaterTyped' /\ CallTyped' /\ TakenTyped'
    BY <1>1, <1>3, TypesAreGroups
       DEF GroupsOK, CopyBytes, readVars, ReadTyped, InputTyped, InflaterTyped, CallTyped, TakenTyped
  <2>10. header = "read"
    BY <1>1, <1>3 DEF CopyBytes, Placed, Fresh
  <2>11. Placed' /\ InTheCall'
    BY <1>1, <1>3, <2>10 DEF CopyBytes, readVars, Placed, InTheCall, HeaderAccepted
  <2> QED
    BY <2>7, <2>8, <2>9, <2>11, NextTypesAreGroups DEF BlocksInv, GroupsOK
<1>4. CASE ReturnUnit
  <2>1. (file \in Files)' /\ ReadTyped' /\ InputTyped' /\ InflaterTyped' /\ OutputTyped'
    BY <1>1, <1>4, TypesAreGroups
       DEF GroupsOK, ReturnUnit, readVars, inflateVars, ReadTyped, InputTyped, InflaterTyped, OutputTyped
  <2>2. UnitTyped'
    BY <1>4, Lengths DEF ReturnUnit, UnitTyped
  <2>3. CallTyped'
    BY <1>1, <1>4 DEF ReturnUnit, CallTyped, TypeOK
  <2>4. unit \in [1..UnitLen -> Nat]
    <3>1. unit \in Seq(Nat) /\ Len(unit) = UnitLen
      BY <1>1, <1>4 DEF TypeOK, ReturnUnit
    <3>2. unit \in [1..Len(unit) -> Nat]
      BY <3>1
    <3> QED
      BY <3>1, <3>2
  <2>5. TakenTyped'
    BY <1>1, <1>4, <2>4 DEF ReturnUnit, TakenTyped, TypeOK
  <2>6. header = "read"
    BY <1>1, <1>4, Lengths, EmptySeq DEF ReturnUnit, Placed, Fresh
  <2>7. Placed' /\ InTheCall'
    BY <1>1, <1>4, <2>6 DEF ReturnUnit, readVars, inflateVars, Placed, InTheCall, HeaderAccepted
  <2> QED
    BY <2>1, <2>2, <2>3, <2>5, <2>7, NextTypesAreGroups DEF BlocksInv, GroupsOK
<1> QED
  BY <1>2, <1>3, <1>4

LEMMA OpenKeepsBlocks ==
  ASSUME BlocksInv, OpenStep
  PROVE  BlocksInv'
<1>1. TypeOK /\ Placed /\ InTheCall
  BY DEF BlocksInv
<1>2. (file \in Files)' /\ InputTyped' /\ InflaterTyped' /\ OutputTyped'
  BY <1>1, TypesAreGroups
     DEF GroupsOK, OpenStep, Open, OpenRefuses, OpenFails, inflateVars, InputTyped, InflaterTyped, OutputTyped
<1>3. CASE Open
  <2>1. GoOn("filling")
    BY <1>3 DEF Open
  <2>2. UnitTyped' /\ CallTyped' /\ TakenTyped'
    BY <1>1, <2>1, GoOnTyped
  <2>3. ReadTyped'
    BY <1>1, <1>3, Lengths DEF Open, ReadTyped, TypeOK
  <2>4. Fresh /\ HeaderAccepted /\ file' = file /\ failures' = failures
    BY <1>1, <1>3, <2>1 DEF Open, Placed, GoOn
  <2>5. header' = "read" /\ cursor' = HeaderLen /\ position' = HeaderLen /\ HeaderAccepted'
    BY <1>3, <2>4, Lengths DEF Open, Fresh, Start, HeaderAccepted
  <2>6. Placed'
    BY <1>1, <2>4, <2>5, FileTyped, Lengths DEF Placed, HeaderAccepted, Start
  <2>7. InTheCall'
    BY <1>1, <1>3, <2>1 DEF InTheCall, GoOn
  <2> QED
    BY <1>2, <2>2, <2>3, <2>6, <2>7, NextTypesAreGroups DEF BlocksInv, GroupsOK
<1>4. CASE OpenRefuses \/ OpenFails
  <2>1. \E kind \in Kinds: Fail(kind)
    BY <1>4 DEF OpenRefuses, OpenFails, Kinds
  <2>2. UnitTyped' /\ CallTyped' /\ TakenTyped'
    BY <1>1, <2>1, FailTyped
  <2>3. header # "read" /\ header' \in {"unread", "lost"}
    BY <1>1, <1>4 DEF OpenRefuses, OpenFails, TypeOK
  <2>4. ReadTyped'
    BY <1>1, <1>4, <2>3 DEF OpenRefuses, OpenFails, ReadTyped, TypeOK
  <2>5. pc' = "idle" /\ unit' = << >> /\ UNCHANGED taken
    BY <2>1 DEF Fail
  <2>6. Fresh'
    BY <1>1, <1>4, <2>3, <2>5 DEF OpenRefuses, OpenFails, inflateVars, Placed, Fresh
  <2>7. Placed' /\ InTheCall'
    BY <2>3, <2>5, <2>6 DEF Placed, InTheCall
  <2> QED
    BY <1>2, <2>2, <2>4, <2>7, NextTypesAreGroups DEF BlocksInv, GroupsOK
<1> QED
  BY <1>3, <1>4 DEF OpenStep

LEMMA RefillKeepsBlocks ==
  ASSUME BlocksInv, RefillStep
  PROVE  BlocksInv'
<1>1. TypeOK /\ Placed /\ InTheCall
  BY DEF BlocksInv
<1>2. Advancing /\ header' = header /\ file' = file
  BY DEF RefillStep, KeepInput, TopUp, TopUpPastFile, TopUpCut, TopUpFails, Refill, readVars
<1>3. /\ HeaderAccepted' /\ header' = "read"
      /\ HeaderLen <= position /\ position <= file.trailer
      /\ position <= cursor /\ cursor <= HeaderLen + Len(file.contents)
      /\ "io" \notin failures => cursor = position
  BY <1>1, <1>2 DEF Placed, Advancing, HeaderAccepted
<1>4. /\ Take \in Nat /\ Take <= ChunkLen /\ LeftInFile \in Nat
      /\ Take > 0 => position + Take <= file.trailer
      /\ Take = 0 => file.trailer <= position
      /\ cursor + LeftInFile = HeaderLen + Len(file.contents)
  BY <1>1, <1>3, TakeTyped, FileTyped, Lengths DEF LeftInFile, TypeOK
<1>5. UNCHANGED <<inflater, pending, produced, output, blocks, finished>>
  BY DEF RefillStep, KeepInput, TopUp, TopUpPastFile, TopUpCut, TopUpFails, Refill, inflateVars
<1>6. (file \in Files)' /\ InflaterTyped' /\ OutputTyped'
  BY <1>1, <1>2, <1>5, TypesAreGroups DEF GroupsOK, InflaterTyped, OutputTyped
<1>7. output = << >> /\ Len(unit) < UnitLen /\ ~finished
  BY <1>2 DEF Advancing, Starved
<1>8. /\ cursor \in Nat /\ position \in Nat /\ Len(file.contents) \in Nat /\ file.trailer \in Int
      /\ HeaderLen <= cursor
  BY <1>1, <1>3, FileTyped, Lengths DEF TypeOK
<1>9. CASE KeepInput
  <2>1. GoOn("inflating") /\ input # << >> /\ UNCHANGED <<header, cursor, position, input>>
    BY <1>9 DEF KeepInput, readVars, inflateVars
  <2>2. UnitTyped' /\ CallTyped' /\ TakenTyped'
    BY <1>1, <2>1, GoOnTyped
  <2>3. ReadTyped' /\ InputTyped'
    BY <1>1, <2>1, TypesAreGroups DEF GroupsOK, ReadTyped, InputTyped
  <2>4. Placed'
    BY <1>2, <1>3, <2>1 DEF Placed, GoOn
  <2>5. InTheCall'
    BY <1>2, <1>3, <1>5, <1>7, <2>1 DEF InTheCall, GoOn
  <2> QED
    BY <1>6, <2>2, <2>3, <2>4, <2>5, NextTypesAreGroups DEF BlocksInv, GroupsOK
<1>10. CASE TopUp
  <2>1. GoOn("inflating") /\ input' = Ahead(Take) /\ cursor' = cursor + Take /\ position' = position + Take
    BY <1>10 DEF TopUp, Refill
  <2>2. UnitTyped' /\ CallTyped' /\ TakenTyped'
    BY <1>1, <2>1, GoOnTyped
  <2>3. Take <= LeftInFile
    BY <1>10 DEF TopUp
  <2>4. Ahead(Take) \in Seq(Symbol) /\ Len(Ahead(Take)) = Take
    <3> DEFINE n == Take
    <3>1. n \in Nat /\ n <= LeftInFile
      BY <1>4, <2>3
    <3> HIDE DEF n
    <3>2. Ahead(n) \in Seq(Symbol) /\ Len(Ahead(n)) = n
      BY <1>1, <1>8, <3>1, AheadTyped
    <3> QED
      BY <3>2 DEF n
  <2>5. InputTyped'
    BY <1>4, <2>1, <2>4 DEF InputTyped
  <2>6. ReadTyped'
    BY <1>1, <1>2, <1>4, <1>8, <2>1 DEF ReadTyped, TypeOK
  <2>7. Placed'
    <3>1. HeaderLen <= position' /\ position' <= file.trailer /\ position' <= cursor'
      BY <1>3, <1>4, <1>8, <2>1, Lengths
    <3>2. cursor' <= HeaderLen + Len(file.contents)
      BY <1>4, <1>8, <2>1, <2>3, Lengths
    <3>3. "io" \notin failures' => cursor' = position'
      BY <1>3, <2>1 DEF GoOn
    <3> QED
      BY <1>2, <1>3, <3>1, <3>2, <3>3 DEF Placed
  <2>8. input' = << >> => Take = 0
    BY <1>4, <2>1, <2>4
  <2>9. InTheCall'
    BY <1>2, <1>3, <1>4, <1>5, <1>7, <1>8, <2>1, <2>8 DEF InTheCall, GoOn
  <2> QED
    BY <1>6, <2>2, <2>5, <2>6, <2>7, <2>9, NextTypesAreGroups DEF BlocksInv, GroupsOK
<1>11. CASE TopUpPastFile \/ TopUpCut \/ TopUpFails
  <2>1. \E kind \in Kinds: Fail(kind)
    BY <1>11 DEF TopUpPastFile, TopUpCut, TopUpFails, Kinds
  <2>2. UnitTyped' /\ CallTyped' /\ TakenTyped'
    BY <1>1, <2>1, FailTyped
  <2>3. pc' = "idle" /\ unit' = << >>
    BY <2>1 DEF Fail
  <2>4. InTheCall'
    BY <2>3 DEF InTheCall
  <2>5. PICK read \in Nat, missing \in Nat, counted \in Nat:
          /\ counted \in {0, read}
          /\ read <= LeftInFile /\ read + missing <= Take
          /\ input' = Ahead(read) \o Fillers(missing)
          /\ cursor' = cursor + read /\ position' = position + counted
          /\ counted # read => "io" \in failures'
          /\ failures \subseteq failures'
    <3>1. CASE TopUpPastFile
      <4>1. Ahead(0) \in Seq(Symbol) /\ Len(Ahead(0)) = 0
        BY <1>1, <1>3, <1>4, <1>8, AheadTyped
      <4>2. Fillers(0) \in Seq({Filler}) /\ Len(Fillers(0)) = 0
        BY FillersTyped
      <4>3. Ahead(0) = << >> /\ Fillers(0) = << >>
        BY <4>1, <4>2, EmptySeq
      <4>4. Ahead(0) \o Fillers(0) = << >>
        BY <4>3
      <4>5. /\ input' = << >> /\ cursor' = cursor + 0 /\ position' = position + 0
            /\ failures \subseteq failures'
        BY <3>1 DEF TopUpPastFile, Refill, Fail
      <4> QED
        <5>1. /\ 0 \in {0, 0} /\ 0 <= LeftInFile /\ 0 + 0 <= Take
              /\ input' = Ahead(0) \o Fillers(0) /\ (0 # 0 => "io" \in failures')
              /\ 0 \in Nat
          BY <1>4, <4>4, <4>5
        <5> QED
          BY <4>5, <5>1, Zenon
    <3>2. CASE TopUpCut
      <4>1. LeftInFile \in Nat /\ Take - LeftInFile \in Nat /\ LeftInFile + (Take - LeftInFile) <= Take
        BY <1>4, <3>2 DEF TopUpCut
      <4> DEFINE read == LeftInFile
                 missing == Take - LeftInFile
      <4>2. /\ input' = Ahead(read) \o Fillers(missing)
            /\ cursor' = cursor + read /\ position' = position + read /\ failures \subseteq failures'
        BY <3>2 DEF TopUpCut, Refill, Fail
      <4>3. read \in Nat /\ missing \in Nat /\ read <= LeftInFile /\ read + missing <= Take
        BY <4>1
      <4> HIDE DEF read, missing
      <4> QED
        BY <4>2, <4>3
    <3>3. CASE TopUpFails
      <4>1. PICK read \in 0..(Take - 1):
              /\ read <= LeftInFile
              /\ input' = Ahead(read) \o Fillers(Take - read)
              /\ Refill(read, 0)
        BY <3>3 DEF TopUpFails
      <4> DEFINE missing == Take - read
      <4>2. read \in Nat /\ missing \in Nat /\ read + missing <= Take
        BY <1>4, <4>1
      <4>3. /\ input' = Ahead(read) \o Fillers(missing)
            /\ cursor' = cursor + read /\ position' = position + 0
        BY <4>1 DEF Refill
      <4>4. "io" \in failures' /\ failures \subseteq failures'
        BY <3>3 DEF TopUpFails, Fail
      <4> HIDE DEF missing
      <4> QED
        BY <4>1, <4>2, <4>3, <4>4
    <3> QED
      BY <1>11, <3>1, <3>2, <3>3
  <2>6. Ahead(read) \in Seq(Symbol) /\ Len(Ahead(read)) = read
    BY <1>1, <1>3, <1>8, <2>5, AheadTyped
  <2>7. Fillers(missing) \in Seq({Filler}) /\ Len(Fillers(missing)) = missing
    BY FillersTyped
  <2>8. InputTyped'
    <3>1. Ahead(read) \in Seq(Symbol \cup {Filler})
      BY <2>6
    <3>2. Fillers(missing) \in Seq(Symbol \cup {Filler})
      BY <2>7
    <3>3. /\ Ahead(read) \o Fillers(missing) \in Seq(Symbol \cup {Filler})
          /\ Len(Ahead(read) \o Fillers(missing)) = read + missing
      BY <2>6, <2>7, <3>1, <3>2, ConcatProperties
    <3> QED
      BY <1>4, <2>5, <3>3, Lengths DEF InputTyped
  <2>9. ReadTyped'
    BY <1>1, <1>2, <1>8, <2>5 DEF ReadTyped, TypeOK
  <2>10. Placed'
    <3>1. HeaderLen <= position' /\ position' <= file.trailer /\ position' <= cursor'
      BY <1>3, <1>4, <1>8, <2>5, Lengths
    <3>2. cursor' <= HeaderLen + Len(file.contents)
      BY <1>4, <1>8, <2>5, Lengths
    <3>3. "io" \notin failures' => cursor' = position'
      BY <1>3, <2>5
    <3> QED
      BY <1>2, <1>3, <3>1, <3>2, <3>3 DEF Placed
  <2> QED
    BY <1>6, <2>2, <2>4, <2>8, <2>9, <2>10, NextTypesAreGroups DEF BlocksInv, GroupsOK
<1> QED
  BY <1>9, <1>10, <1>11 DEF RefillStep

(* Whatever inflating does, the reader stays where it is, and the call goes on or fails. *)
LEMMA InflateStays ==
  ASSUME BlocksInv, InflateStep
  PROVE  /\ pc = "inflating" /\ UNCHANGED <<file, header, cursor, position>>
         /\ GoOn("filling") \/ \E kind \in Kinds: Fail(kind)
         /\ UnitTyped' /\ CallTyped' /\ TakenTyped' /\ ReadTyped' /\ (file \in Files)'
         /\ Placed' /\ InTheCall'
<1>1. TypeOK /\ Placed /\ InTheCall
  BY DEF BlocksInv
<1>2. pc = "inflating" /\ UNCHANGED <<file, header, cursor, position>>
  BY DEF InflateStep, InflateData, InflateEnd, InflateBad, InflateFiller, InflateAstray, InflateDead, readVars
<1>3. GoOn("filling") \/ \E kind \in Kinds: Fail(kind)
  <2>1. "corrupt" \in Kinds
    BY DEF Kinds
  <2>2. GoOn("filling") \/ Fail("corrupt")
    BY DEF InflateStep, InflateData, InflateEnd, InflateBad, InflateFiller, InflateAstray, InflateDead
  <2> QED
    BY <2>1, <2>2
<1>4. UnitTyped' /\ CallTyped' /\ TakenTyped'
  BY <1>1, <1>3, FailTyped, GoOnTyped
<1>5. ReadTyped' /\ (file \in Files)'
  BY <1>1, <1>2, TypesAreGroups DEF GroupsOK, ReadTyped
<1>6. header = "read" /\ failures \subseteq failures'
  BY <1>1, <1>2, <1>3 DEF InTheCall, GoOn, Fail
<1>7. HeaderAccepted'
  BY <1>1, <1>2, <1>6 DEF Placed, HeaderAccepted
<1>8. Placed'
  BY <1>1, <1>2, <1>6, <1>7 DEF Placed
<1>9. InTheCall'
  BY <1>1, <1>3 DEF InTheCall, GoOn, Fail
<1> QED
  BY <1>2, <1>3, <1>4, <1>5, <1>8, <1>9

LEMMA RoomBounds ==
  ASSUME NEW n \in Nat
  PROVE  Room(n) \in Nat /\ Room(n) <= n /\ Room(n) <= WindowLen
BY Lengths DEF Room, Least

LEMMA InflateKeepsBlocks ==
  ASSUME BlocksInv, InflateStep
  PROVE  BlocksInv'
<1>1. TypeOK /\ Placed /\ InTheCall
  BY DEF BlocksInv
<1>2. blocks \in Nat /\ pending \in Nat /\ finished \in BOOLEAN /\ Len(<< >>) = 0 /\ Len(<<Garbage>>) = 1
  BY <1>1 DEF TypeOK
<1>3. SUFFICES InputTyped' /\ InflaterTyped' /\ OutputTyped'
  BY InflateStays, NextTypesAreGroups DEF GroupsOK, BlocksInv
<1>4. ASSUME NEW n \in 0..Len(input), input' = Dropped(n)
      PROVE  InputTyped'
  <2>1. input \in Seq(Symbol \cup {Filler}) /\ Len(input) <= ChunkLen /\ Len(input) \in Nat
    BY <1>1 DEF TypeOK
  <2>2. Dropped(n) \in Seq(Symbol \cup {Filler}) /\ Len(Dropped(n)) = Len(input) - n
    BY <1>1, DroppedTyped
  <2> QED
    BY <1>4, <2>1, <2>2, Lengths DEF InputTyped
<1>5. UNCHANGED input => InputTyped'
  BY <1>1, TypesAreGroups DEF GroupsOK, InputTyped
<1>6. ASSUME NEW n \in 0..Len(input), Reaches(n)
      PROVE  Backlog(n) \in Nat /\ Backlog(n) <= WindowLen /\ n + 1 \in 0..Len(input)
  BY <1>1, <1>6, BacklogTyped DEF Reaches
<1>7. CASE InflateData
  <2>1. PICK n \in 0..Len(input):
          /\ Data(n)
          /\ Emit(Room(Backlog(n)), << >>)
          /\ pending' = Backlog(n) - Room(Backlog(n))
          /\ input' = Dropped(n)
    BY <1>7 DEF InflateData
  <2>2. Backlog(n) \in Nat
    BY <1>1, <2>1, BacklogTyped
  <2> DEFINE emitted == Room(Backlog(n))
  <2>3. emitted \in Nat /\ emitted <= Backlog(n) /\ emitted <= WindowLen /\ emitted + 0 <= WindowLen
    BY <2>2, RoomBounds, Lengths
  <2>4. Emit(emitted, << >>) /\ pending' = Backlog(n) - emitted
    BY <2>1
  <2> HIDE DEF emitted
  <2>5. blocks' \in Nat
    BY <1>2, <1>7 DEF InflateData
  <2>6. OutputTyped'
    BY <1>1, <1>2, <2>3, <2>4, <2>5, EmitTyped
  <2>7. InflaterTyped'
    BY <1>2, <1>7, <2>2, <2>3, <2>4 DEF InflateData, InflaterTyped
  <2> QED
    BY <1>4, <2>1, <2>6, <2>7
<1>8. CASE InflateEnd
  <2>1. PICK n \in 0..Len(input):
          /\ Reaches(n)
          /\ Emit(Backlog(n), << >>)
          /\ EndBlock(Dropped(n + 1))
    BY <1>8 DEF InflateEnd
  <2>2. Backlog(n) \in Nat /\ Backlog(n) + 0 <= WindowLen /\ n + 1 \in 0..Len(input)
    BY <1>6, <2>1, Lengths
  <2>3. blocks' \in Nat /\ finished' \in BOOLEAN /\ input' = Dropped(n + 1)
    BY <1>2, <2>1 DEF EndBlock
  <2> DEFINE emitted == Backlog(n)
  <2>4. emitted \in Nat /\ emitted + 0 <= WindowLen /\ Emit(emitted, << >>)
    BY <2>1, <2>2
  <2> HIDE DEF emitted
  <2>5. OutputTyped'
    BY <1>1, <1>2, <2>3, <2>4, EmitTyped
  <2>6. InflaterTyped'
    BY <1>8, <2>3 DEF InflateEnd, InflaterTyped
  <2> QED
    BY <1>4, <2>2, <2>3, <2>5, <2>6
<1>9. CASE InflateBad
  <2>1. PICK n \in 0..Len(input): Reaches(n) /\ Emit(Backlog(n), << >>)
    BY <1>9 DEF InflateBad
  <2>2. Backlog(n) \in Nat /\ Backlog(n) + 0 <= WindowLen
    BY <1>6, <2>1, Lengths
  <2> DEFINE emitted == Backlog(n)
  <2>3. emitted \in Nat /\ emitted + 0 <= WindowLen /\ Emit(emitted, << >>)
    BY <2>1, <2>2
  <2> HIDE DEF emitted
  <2>4. OutputTyped'
    BY <1>1, <1>2, <1>9, <2>3, EmitTyped DEF InflateBad
  <2>5. InflaterTyped' /\ UNCHANGED input
    BY <1>2, <1>9 DEF InflateBad, InflaterTyped
  <2> QED
    BY <1>5, <2>4, <2>5
<1>10. CASE InflateFiller
  <2>1. PICK n \in 0..Len(input):
          /\ Reaches(n)
          /\ \E extra \in {<< >>, <<Garbage>>}:
               Backlog(n) + Len(extra) <= WindowLen /\ Emit(Backlog(n), extra)
          /\ input' = Dropped(n + 1)
    BY <1>10 DEF InflateFiller
  <2> DEFINE emitted == Backlog(n)
  <2>2. emitted \in Nat /\ n + 1 \in 0..Len(input)
    BY <1>6, <2>1
  <2>3. PICK extra \in {<< >>, <<Garbage>>}: emitted + Len(extra) <= WindowLen /\ Emit(emitted, extra)
    BY <2>1
  <2> HIDE DEF emitted
  <2>4. OutputTyped'
    BY <1>1, <1>2, <1>10, <2>2, <2>3, EmitTyped DEF InflateFiller
  <2>5. InflaterTyped'
    BY <1>2, <1>10 DEF InflateFiller, InflaterTyped
  <2> QED
    BY <1>4, <2>1, <2>2, <2>4, <2>5
<1>11. CASE InflateAstray
  <2>1. PICK n \in 1..Len(input): input' = Dropped(n)
    BY <1>11 DEF InflateAstray
  <2>2. PICK extra \in {<< >>, <<Garbage>>}: Emit(0, extra)
    BY <1>11 DEF InflateAstray
  <2>3. 0 + Len(extra) <= WindowLen /\ 0 \in Nat
    BY <1>2, Lengths
  <2>4. blocks' \in Nat
    BY <1>2, <1>11 DEF InflateAstray
  <2>5. OutputTyped'
    BY <1>1, <2>2, <2>3, <2>4, EmitTyped
  <2>6. InflaterTyped'
    BY <1>1, <1>11 DEF InflateAstray, InflaterTyped, TypeOK
  <2> QED
    BY <1>4, <2>1, <2>5, <2>6
<1>12. CASE InflateDead
  <2>1. Emit(0, << >>) /\ 0 \in Nat /\ 0 + Len(<< >>) <= WindowLen /\ blocks' \in Nat
    BY <1>2, <1>12, Lengths DEF InflateDead
  <2>2. OutputTyped'
    BY <1>1, <2>1, EmitTyped
  <2>3. InflaterTyped' /\ UNCHANGED input
    BY <1>1, <1>12 DEF InflateDead, InflaterTyped, TypeOK
  <2> QED
    BY <1>5, <2>2, <2>3
<1> QED
  BY <1>7, <1>8, <1>9, <1>10, <1>11, <1>12 DEF InflateStep

LEMMA EndKeepsBlocks ==
  ASSUME BlocksInv, EndStep
  PROVE  BlocksInv'
<1>1. TypeOK /\ Placed /\ InTheCall
  BY DEF BlocksInv
<1>2. (file \in Files)' /\ ReadTyped' /\ InputTyped' /\ InflaterTyped' /\ OutputTyped'
  BY <1>1, TypesAreGroups
     DEF GroupsOK, EndStep, EndsWell, EndsTorn, CountDiffers, EndStays, readVars, inflateVars,
         ReadTyped, InputTyped, InflaterTyped, OutputTyped
<1>3. header = "read" /\ UNCHANGED <<file, header, cursor, position>>
  BY <1>1 DEF EndStep, EndsWell, EndsTorn, CountDiffers, readVars, Placed, Fresh, Starved
<1>4. /\ UnitTyped' /\ CallTyped' /\ TakenTyped'
      /\ pc' = "idle" /\ unit' = << >> /\ failures \subseteq failures'
  <2>1. CASE EndsWell
    BY <1>1, <2>1 DEF EndsWell, UnitTyped, CallTyped, TakenTyped, TypeOK
  <2>2. CASE EndsTorn \/ CountDiffers
    <3>1. \E kind \in Kinds: Fail(kind)
      BY <2>2 DEF EndsTorn, CountDiffers, Kinds
    <3> QED
      BY <1>1, <3>1, FailTyped DEF Fail
  <2> QED
    BY <2>1, <2>2 DEF EndStep
<1>5. HeaderAccepted'
  BY <1>1, <1>3 DEF Placed, HeaderAccepted
<1>6. Placed' /\ InTheCall'
  BY <1>1, <1>3, <1>4, <1>5 DEF Placed, InTheCall
<1> QED
  BY <1>2, <1>4, <1>6, NextTypesAreGroups DEF BlocksInv, GroupsOK

LEMMA StepKeepsBlocks == BlocksInv /\ [Next]_vars => BlocksInv'
<1> SUFFICES ASSUME BlocksInv, [Next]_vars
             PROVE  BlocksInv'
  OBVIOUS
<1>1. CASE Next
  BY <1>1, CallKeepsBlocks, OpenKeepsBlocks, RefillKeepsBlocks, InflateKeepsBlocks, EndKeepsBlocks
     DEF Next, Steps
<1>2. CASE UNCHANGED vars
  BY <1>2 DEF vars, readVars, inflateVars, callVars, BlocksInv, TypeOK, Placed, Fresh, InTheCall, HeaderAccepted
<1> QED
  BY <1>1, <1>2

LEMMA BlocksAlways == Spec => []BlocksInv
BY InitBlocks, StepKeepsBlocks, PTL DEF Spec

-----------------------------------------------------------------------------------
(* Every variable keeps its type: the window never holds more than it is made for, and the *)
(* input never more than a chunk, however much a symbol of it inflates to.                  *)
THEOREM ZlibTypes == Spec => []TypeOK
<1>1. BlocksInv => TypeOK
  BY DEF BlocksInv
<1> QED
  BY <1>1, BlocksAlways, PTL

(* The trailer is never taken for a block: as long as no read failed halfway, the reader   *)
(* stands at most where the trailer begins, in every section, the damaged ones included.    *)
THEOREM ZlibReadsInTheRegion == Spec => []ReadsInTheRegion
<1>1. BlocksInv => ReadsInTheRegion
  BY DEF BlocksInv, Placed, ReadsInTheRegion
<1> QED
  BY <1>1, BlocksAlways, PTL

-----------------------------------------------------------------------------------
(* The order of the bytes *)

(* The bytes of the section that the calls have let through so far. *)
Stream == (Handed \o unit) \o output

Rising(bytes, top) ==
  /\ bytes \in Seq(Nat)
  /\ \A i \in 1..Len(bytes): bytes[i] <= top
  /\ \A i, j \in 1..Len(bytes):
       i < j /\ bytes[i] # Garbage /\ bytes[j] # Garbage => bytes[i] < bytes[j]

GarbageIn(bytes) == \E i \in 1..Len(bytes): bytes[i] = Garbage
FillerAhead == \E i \in 1..Len(input): input[i] = Filler
ReadFailed == failures \cap {"io", "cut"} # {}

(* Zeros that were not read are in the input, or in what came of it, only after a failed *)
(* read; until a call fails, no byte is missing.                                          *)
OrderInv ==
  /\ Rising(Stream, produced)
  /\ GarbageIn(Stream) \/ FillerAhead \/ inflater = "astray" => ReadFailed
  /\ failures \subseteq {"io_header"} => Stream = [i \in 1..produced |-> i]

LEMMA HandedTyped ==
  ASSUME TypeOK
  PROVE  /\ taken \in Seq(Seq(Nat)) /\ Handed \in Seq(Nat)
         /\ unit \in Seq(Nat) /\ output \in Seq(Nat)
         /\ Handed \o unit \in Seq(Nat) /\ Stream \in Seq(Nat)
<1>1. taken \in Seq([1..UnitLen -> Nat]) /\ unit \in Seq(Nat) /\ output \in Seq(Nat)
  BY DEF TypeOK
<1>2. taken \in Seq(Seq(Nat))
  <2>1. [1..UnitLen -> Nat] \subseteq Seq(Nat)
    BY Lengths
  <2> QED
    BY <1>1, <2>1
<1>3. Handed \in Seq(Nat)
  BY <1>2, FlattenTyped DEF Handed
<1>4. Handed \o unit \in Seq(Nat)
  BY <1>1, <1>3, ConcatProperties
<1>5. Stream \in Seq(Nat)
  BY <1>1, <1>4, ConcatProperties DEF Stream
<1> QED
  BY <1>1, <1>2, <1>3, <1>4, <1>5

(* A step lets n more bytes of the section through, and a byte of zeros behind them. *)
Emits(base, n, extra) ==
  /\ Stream' = base \o (Bytes(n) \o extra)
  /\ produced' = produced + n

LEMMA BytesNone == Bytes(0) = << >>
<1>1. Bytes(0) \in Seq(Nat) /\ Len(Bytes(0)) = 0
  BY DEF Bytes
<1> QED
  BY <1>1, EmptySeq

(* Looking at the header and at the file lets no byte through, and neither does taking one *)
(* from the window to the unit, nor the unit to the caller.                                  *)
LEMMA StreamStays ==
  ASSUME BlocksInv,
         Call \/ CopyBytes \/ ReturnUnit \/ EndsWell
           \/ (UNCHANGED <<taken, unit, output, produced, failures>>)
  PROVE  Stream' = Stream /\ UNCHANGED <<produced, failures>>
<1>1. TypeOK /\ InTheCall
  BY DEF BlocksInv
<1>2. CASE Call \/ EndsWell \/ UNCHANGED <<taken, unit, output, produced, failures>>
  <2>1. UNCHANGED <<taken, unit, output, produced, failures>>
    BY <1>1, <1>2 DEF Call, EndsWell, InTheCall, inflateVars
  <2> QED
    BY <2>1 DEF Stream, Handed
<1>3. CASE CopyBytes
  <2> DEFINE take == Least(Len(output), UnitLen - Len(unit))
             head == SubSeq(output, 1, take)
             tail == SubSeq(output, take + 1, Len(output))
  <2>1. /\ output \in Seq(Nat) /\ Len(output) \in Nat /\ unit \in Seq(Nat) /\ Len(unit) \in Nat
        /\ Len(unit) < UnitLen
    BY <1>1, <1>3 DEF TypeOK, CopyBytes
  <2>2. take \in Nat /\ take <= Len(output)
    BY <2>1, Lengths DEF Least
  <2>3. unit' = unit \o head /\ output' = tail /\ UNCHANGED <<taken, produced, failures>>
    BY <1>3 DEF CopyBytes, LeftInWindow
  <2> HIDE DEF take
  <2>4. /\ head \in Seq(Nat) /\ Len(head) = take
        /\ \A i \in 1..take: head[i] = output[i]
    BY <2>1, <2>2, SubSeqProperties
  <2>5. /\ tail \in Seq(Nat) /\ Len(tail) = Len(output) - take
        /\ \A i \in 1..(Len(output) - take): tail[i] = output[take + i]
    <3>1. take + 1 \in Int /\ \A i \in (take + 1)..Len(output): output[i] \in Nat
      BY <2>1, <2>2
    <3> QED
      BY <2>1, <2>2, <3>1, SubSeqProperties
  <2> HIDE DEF head, tail
  <2>6. head \o tail = output
    <3>1. head \in Seq(Nat)
      BY <2>4
    <3>2. tail \in Seq(Nat)
      BY <2>5
    <3>3. head \o tail \in Seq(Nat)
      BY <3>1, <3>2, ConcatProperties
    <3>4. Len(head \o tail) = Len(head) + Len(tail)
      BY <3>1, <3>2, ConcatProperties
    <3>5. Len(head \o tail) = Len(output)
      BY <2>1, <2>2, <2>4, <2>5, <3>4
    <3>6. ASSUME NEW i \in 1..Len(output)
          PROVE  (head \o tail)[i] = output[i]
      <4>1. (head \o tail)[i] = IF i <= Len(head) THEN head[i] ELSE tail[i - Len(head)]
        BY <2>1, <2>2, <2>4, <2>5, <3>1, <3>2, ConcatProperties
      <4>2. CASE i <= take
        BY <2>1, <2>2, <2>4, <4>1, <4>2
      <4>3. CASE ~(i <= take)
        <5>1. i - take \in 1..(Len(output) - take) /\ take + (i - take) = i
          BY <2>1, <2>2, <4>3
        <5> QED
          BY <2>4, <2>5, <4>1, <4>3, <5>1
      <4> QED
        BY <4>2, <4>3
    <3> QED
      BY <2>1, <3>3, <3>5, <3>6, SeqEqual
  <2>7. Handed \in Seq(Nat)
    BY <1>1, HandedTyped
  <2>8. Handed' = Handed
    BY <2>3 DEF Handed
  <2>9. (Handed \o (unit \o head)) \o tail = (Handed \o unit) \o (head \o tail)
    <3>1. unit \in Seq(Nat)
      BY <2>1
    <3>2. head \in Seq(Nat)
      BY <2>4
    <3>3. tail \in Seq(Nat)
      BY <2>5
    <3>4. unit \o head \in Seq(Nat)
      BY <3>1, <3>2
    <3>5. head \o tail \in Seq(Nat)
      BY <3>2, <3>3
    <3>6. /\ Associates(Handed, unit \o head, tail)
          /\ Associates(unit, head, tail)
          /\ Associates(Handed, unit, head \o tail)
      <4>1. Associates(Handed, unit \o head, tail)
        BY <2>7, <3>3, <3>4, ConcatAssociates, Zenon
      <4>2. Associates(unit, head, tail)
        BY <3>1, <3>2, <3>3, ConcatAssociates, Zenon
      <4>3. Associates(Handed, unit, head \o tail)
        BY <2>7, <3>1, <3>5, ConcatAssociates, Zenon
      <4> QED
        BY <4>1, <4>2, <4>3
    <3> QED
      BY <3>6, Zenon DEF Associates
  <2> QED
    BY <2>3, <2>6, <2>8, <2>9 DEF Stream
<1>4. CASE ReturnUnit
  <2>1. taken \in Seq(Seq(Nat)) /\ unit \in Seq(Nat) /\ Handed \o unit \in Seq(Nat)
    BY <1>1, HandedTyped
  <2>2. taken' = Append(taken, unit) /\ unit' = << >> /\ UNCHANGED <<output, produced, failures>>
    BY <1>4 DEF ReturnUnit, inflateVars
  <2>3. FlattenSeq(Append(taken, unit)) = FlattenSeq(taken) \o unit
    BY <2>1, FlattenAppend
  <2>4. Handed' = Handed \o unit
    BY <2>2, <2>3 DEF Handed
  <2>5. Handed' \o unit' = Handed \o unit
    BY <2>1, <2>2, <2>4, ConcatEmptySeq
  <2> QED
    BY <2>2, <2>5 DEF Stream
<1> QED
  BY <1>2, <1>3, <1>4

(* An error loses the bytes of the unit in hand; the window was empty. *)
LEMMA StreamFails ==
  ASSUME BlocksInv, NEW kind, Fail(kind), NEW n \in Nat, output' = Bytes(n), produced' = produced + n
  PROVE  Emits(Handed, n, << >>)
<1>1. TypeOK
  BY DEF BlocksInv
<1>2. Handed \in Seq(Nat) /\ Bytes(n) \in Seq(Nat)
  BY <1>1, HandedTyped, BytesTyped
<1>3. Handed' = Handed /\ unit' = << >>
  BY DEF Fail, Handed
<1>4. Handed \o << >> = Handed /\ Bytes(n) \o << >> = Bytes(n)
  BY <1>2, ConcatEmptySeq
<1> QED
  BY <1>3, <1>4 DEF Stream, Emits

(* Inflating goes on behind what was let through before. *)
LEMMA StreamGoesOn ==
  ASSUME BlocksInv, pc = "inflating", GoOn("filling"), NEW n \in Nat, NEW extra \in Seq(Nat), Emit(n, extra)
  PROVE  Emits(Stream, n, extra)
<1>1. TypeOK /\ output = << >>
  BY DEF BlocksInv, InTheCall
<1>2. Handed \o unit \in Seq(Nat)
  BY <1>1, HandedTyped
<1>3. Handed' = Handed /\ unit' = unit
  BY DEF GoOn, Handed
<1>4. Stream = Handed \o unit
  BY <1>1, <1>2, ConcatEmptySeq DEF Stream
<1> QED
  BY <1>3, <1>4 DEF Stream, Emits, Emit

(* What each step does to the stream.  Only zeros that were not read make bytes of no symbol, *)
(* and an error that leaves the stream whole was met where the stream had not begun.            *)
StreamStep ==
  \/ Stream' = Stream /\ UNCHANGED <<produced, failures>>
  \/ UNCHANGED failures /\ \E n \in Nat: Emits(Stream, n, << >>)
  \/ /\ UNCHANGED failures
     /\ FillerAhead \/ inflater = "astray"
     /\ \E n \in Nat: Emits(Stream, n, <<Garbage>>)
  \/ \E kind \in Kinds, n \in Nat:
       /\ Emits(Handed, n, << >>)
       /\ failures' = failures \cup {kind}
       /\ kind = "io_header" => Fresh /\ n = 0

LEMMA FailStreams ==
  ASSUME BlocksInv, NEW kind \in Kinds \ {"io_header"}, Fail(kind), NEW n \in Nat,
         output' = Bytes(n), produced' = produced + n
  PROVE  StreamStep
<1>1. Emits(Handed, n, << >>)
  BY StreamFails
<1>2. failures' = failures \cup {kind}
  BY DEF Fail
<1> QED
  BY <1>1, <1>2 DEF StreamStep

LEMMA EmitStreams ==
  ASSUME BlocksInv, pc = "inflating", NEW n \in Nat, Emit(n, << >>),
         GoOn("filling") \/ Fail("corrupt")
  PROVE  StreamStep
<1>1. TypeOK
  BY DEF BlocksInv
<1>2. output' = Bytes(n) /\ produced' = produced + n
  <2>1. Bytes(n) \in Seq(Nat)
    BY <1>1, BytesTyped
  <2> QED
    BY <2>1, ConcatEmptySeq DEF Emit
<1>3. CASE GoOn("filling")
  <2>1. << >> \in Seq(Nat)
    OBVIOUS
  <2> QED
    BY <1>3, <2>1, StreamGoesOn DEF StreamStep, GoOn
<1>4. CASE Fail("corrupt")
  BY <1>2, <1>4, FailStreams DEF Kinds
<1> QED
  BY <1>3, <1>4

LEMMA InflateStreams ==
  ASSUME BlocksInv, InflateStep
  PROVE  StreamStep
<1>1. TypeOK /\ pc = "inflating"
  BY DEF BlocksInv, InflateStep, InflateData, InflateEnd, InflateBad, InflateFiller, InflateAstray, InflateDead
<1>2. CASE InflateData
  <2>1. PICK n \in 0..Len(input):
          /\ Data(n)
          /\ Emit(Room(Backlog(n)), << >>)
          /\ GoOn("filling") \/ Fail("corrupt")
    BY <1>2 DEF InflateData
  <2>2. Room(Backlog(n)) \in Nat
    BY <1>1, <2>1, BacklogTyped, RoomBounds
  <2> QED
    BY <1>1, <2>1, <2>2, EmitStreams
<1>3. CASE InflateEnd \/ InflateBad
  <2>1. PICK n \in 0..Len(input): Reaches(n) /\ Emit(Backlog(n), << >>)
    BY <1>3 DEF InflateEnd, InflateBad
  <2>2. Backlog(n) \in Nat
    BY <1>1, <2>1, BacklogTyped DEF Reaches
  <2>3. GoOn("filling") \/ Fail("corrupt")
    BY <1>3 DEF InflateEnd, InflateBad
  <2> QED
    BY <1>1, <2>1, <2>2, <2>3, EmitStreams
<1>4. ASSUME NEW n \in Nat, NEW extra \in {<< >>, <<Garbage>>}, Emit(n, extra),
             GoOn("filling"), FillerAhead \/ inflater = "astray"
      PROVE  StreamStep
  <2>1. CASE extra = << >>
    BY <1>1, <1>4, <2>1, EmitStreams
  <2>2. CASE extra = <<Garbage>>
    <3>1. <<Garbage>> \in Seq(Nat)
      BY DEF Garbage
    <3>2. Emits(Stream, n, <<Garbage>>)
      BY <1>1, <1>4, <2>2, <3>1, StreamGoesOn
    <3> QED
      BY <1>4, <3>2 DEF StreamStep, GoOn
  <2> QED
    BY <2>1, <2>2
<1>5. CASE InflateFiller
  <2>1. PICK n \in 0..Len(input):
          /\ Reaches(n) /\ input[n + 1] = Filler
          /\ \E extra \in {<< >>, <<Garbage>>}: Emit(Backlog(n), extra)
    BY <1>5 DEF InflateFiller
  <2>2. Backlog(n) \in Nat /\ Len(input) \in Nat
    BY <1>1, <2>1, BacklogTyped DEF Reaches, TypeOK
  <2>3. FillerAhead
    BY <2>1, <2>2 DEF FillerAhead, Reaches
  <2>4. GoOn("filling")
    BY <1>5 DEF InflateFiller
  <2> QED
    BY <1>4, <2>1, <2>2, <2>3, <2>4
<1>6. CASE InflateAstray
  <2>1. PICK extra \in {<< >>, <<Garbage>>}: Emit(0, extra)
    BY <1>6 DEF InflateAstray
  <2> QED
    BY <1>4, <1>6, <2>1 DEF InflateAstray
<1>7. CASE InflateDead
  BY <1>1, <1>7, EmitStreams DEF InflateDead
<1> QED
  BY <1>2, <1>3, <1>5, <1>6, <1>7 DEF InflateStep

LEMMA StepStreams ==
  ASSUME BlocksInv, [Next]_vars
  PROVE  StreamStep
<1>1. TypeOK /\ Placed /\ InTheCall
  BY DEF BlocksInv
<1>2. CASE Call \/ CopyBytes \/ ReturnUnit \/ EndsWell
  BY <1>2, StreamStays DEF StreamStep
<1>3. CASE Open \/ KeepInput \/ TopUp \/ UNCHANGED vars
  <2>1. UNCHANGED <<taken, unit, output, produced, failures>>
    BY <1>3 DEF Open, KeepInput, TopUp, GoOn, Refill, inflateVars, vars, callVars
  <2> QED
    BY <2>1, StreamStays DEF StreamStep
<1>4. CASE OpenRefuses \/ OpenFails \/ TopUpPastFile \/ TopUpCut \/ TopUpFails \/ EndsTorn \/ CountDiffers
  <2>1. output = << >> /\ output' = << >> /\ produced' = produced
    BY <1>4 DEF OpenRefuses, OpenFails, TopUpPastFile, TopUpCut, TopUpFails, EndsTorn, CountDiffers,
                Advancing, Starved, Refill, inflateVars
  <2>2. output' = Bytes(0) /\ produced' = produced + 0 /\ 0 \in Nat
    BY <1>1, <2>1, BytesNone DEF TypeOK
  <2>3. PICK kind \in Kinds: Fail(kind) /\ (kind = "io_header" => OpenFails)
    BY <1>4 DEF OpenRefuses, OpenFails, TopUpPastFile, TopUpCut, TopUpFails, EndsTorn, CountDiffers, Kinds
  <2>4. Emits(Handed, 0, << >>) /\ failures' = failures \cup {kind}
    BY <2>2, <2>3, StreamFails DEF Fail
  <2>5. kind = "io_header" => Fresh
    BY <1>1, <2>3 DEF OpenFails, Placed
  <2> QED
    BY <2>2, <2>3, <2>4, <2>5 DEF StreamStep
<1>5. CASE InflateStep
  BY <1>5, InflateStreams
<1> QED
  BY <1>2, <1>3, <1>4, <1>5 DEF Next, Steps, OpenStep, RefillStep, EndStep

LEMMA RisingPrefix ==
  ASSUME NEW front \in Seq(Nat), NEW rest \in Seq(Nat), NEW top \in Nat, Rising(front \o rest, top)
  PROVE  Rising(front, top) /\ (GarbageIn(front) => GarbageIn(front \o rest))
<1> DEFINE all == front \o rest
<1>1. Len(all) = Len(front) + Len(rest) /\ Len(front) \in Nat /\ Len(rest) \in Nat
  BY ConcatProperties
<1>2. \A i \in 1..Len(front): i \in 1..Len(all) /\ all[i] = front[i]
  BY <1>1, ConcatProperties
<1>3. Rising(all, top)
  OBVIOUS
<1> HIDE DEF all
<1>4. Rising(front, top)
  BY <1>2, <1>3 DEF Rising
<1>5. GarbageIn(front) => GarbageIn(all)
  BY <1>2 DEF GarbageIn
<1> QED
  BY <1>4, <1>5 DEF all

(* What the stream is once a step has let more bytes through. *)
LEMMA EmitsValues ==
  ASSUME TypeOK, NEW base \in Seq(Nat), NEW n \in Nat, NEW extra \in {<< >>, <<Garbage>>},
         Emits(base, n, extra)
  PROVE  /\ Stream' \in Seq(Nat) /\ Len(Stream') = Len(base) + n + Len(extra)
         /\ Len(base) \in Nat /\ Len(extra) \in Nat
         /\ \A i \in 1..Len(base): Stream'[i] = base[i]
         /\ \A i \in 1..n: Stream'[Len(base) + i] = produced + i
         /\ \A i \in 1..Len(Stream'): i > Len(base) + n => Stream'[i] = Garbage
<1>1. /\ extra \in Seq(Nat)
      /\ Len(extra) = 0 \/ (Len(extra) = 1 /\ extra[1] = Garbage)
  <2>1. CASE extra = << >>
    BY <2>1
  <2>2. CASE extra = <<Garbage>>
    BY <2>2 DEF Garbage
  <2> QED
    BY <2>1, <2>2
<1>2. Bytes(n) \in Seq(Nat) /\ Len(Bytes(n)) = n /\ \A i \in 1..n: Bytes(n)[i] = produced + i
  BY BytesTyped
<1> DEFINE more == Bytes(n) \o extra
<1>3. more \in Seq(Nat) /\ Len(more) = n + Len(extra)
  <2>1. Bytes(n) \in Seq(Nat)
    BY <1>2
  <2>2. extra \in Seq(Nat)
    BY <1>1
  <2>3. more \in Seq(Nat)
    BY <2>1, <2>2, ConcatProperties
  <2>4. Len(more) = Len(Bytes(n)) + Len(extra)
    BY <2>1, <2>2, ConcatProperties
  <2> QED
    BY <1>2, <2>3, <2>4
<1>4. Len(extra) \in Nat /\ Len(base) \in Nat /\ Len(extra) <= 1
  <2> DEFINE e == Len(extra)
  <2>1. e = 0 \/ e = 1
    BY <1>1, Zenon
  <2>2. Len(base) \in Nat
    BY LenProperties
  <2> HIDE DEF e
  <2>3. e \in Nat /\ e <= 1
    BY <2>1
  <2> QED
    BY <2>2, <2>3 DEF e
<1>5. \A i \in 1..(n + Len(extra)): more[i] = IF i <= n THEN produced + i ELSE Garbage
  <2> SUFFICES ASSUME NEW i \in 1..(n + Len(extra))
               PROVE  more[i] = IF i <= n THEN produced + i ELSE Garbage
    OBVIOUS
  <2>1. Bytes(n) \in Seq(Nat)
    BY <1>2
  <2>2. extra \in Seq(Nat)
    BY <1>1
  <2>3. more[i] = IF i <= Len(Bytes(n)) THEN Bytes(n)[i] ELSE extra[i - Len(Bytes(n))]
    BY <1>2, <1>4, <2>1, <2>2, ConcatProperties
  <2>4. CASE i <= n
    BY <1>2, <2>3, <2>4
  <2>5. CASE ~(i <= n)
    <3>1. Len(extra) = 1 /\ i - n = 1
      BY <1>1, <1>4, <2>5
    <3> QED
      BY <1>1, <1>2, <2>3, <2>5, <3>1
  <2> QED
    BY <2>4, <2>5
<1> HIDE DEF more
<1>6. Stream' = base \o more
  BY DEF Emits, more
<1>7. Stream' \in Seq(Nat) /\ Len(Stream') = Len(base) + Len(more)
  <2>1. more \in Seq(Nat)
    BY <1>3
  <2>2. base \o more \in Seq(Nat)
    BY <2>1, ConcatProperties
  <2>3. Len(base \o more) = Len(base) + Len(more)
    BY <2>1, ConcatProperties
  <2> QED
    BY <1>6, <2>2, <2>3
<1>8. \A i \in 1..(Len(base) + Len(more)):
        Stream'[i] = IF i <= Len(base) THEN base[i] ELSE more[i - Len(base)]
  <2>1. more \in Seq(Nat)
    BY <1>3
  <2> QED
    BY <1>6, <2>1, ConcatProperties
<1>9. \A i \in 1..Len(base): Stream'[i] = base[i]
  BY <1>3, <1>4, <1>8
<1>10. \A i \in 1..n: Stream'[Len(base) + i] = produced + i
  <2> SUFFICES ASSUME NEW i \in 1..n PROVE Stream'[Len(base) + i] = produced + i
    OBVIOUS
  <2>1. /\ Len(base) + i \in 1..(Len(base) + Len(more)) /\ ~(Len(base) + i <= Len(base))
        /\ (Len(base) + i) - Len(base) = i /\ i \in 1..(n + Len(extra)) /\ i <= n
    BY <1>3, <1>4
  <2> QED
    BY <1>5, <1>8, <2>1
<1>11. ASSUME NEW i \in 1..Len(Stream'), i > Len(base) + n
       PROVE  Stream'[i] = Garbage
  <2>1. i \in 1..(Len(base) + Len(more)) /\ Len(more) = n + Len(extra)
    BY <1>3, <1>7
  <2>2. ~(i <= Len(base)) /\ i - Len(base) \in 1..(n + Len(extra)) /\ ~(i - Len(base) <= n)
    BY <1>4, <1>11, <2>1
  <2> QED
    BY <1>5, <1>8, <2>1, <2>2
<1> QED
  BY <1>3, <1>4, <1>7, <1>9, <1>10, <1>11

LEMMA RisingGrows ==
  ASSUME TypeOK, NEW base \in Seq(Nat), Rising(base, produced),
         NEW n \in Nat, NEW extra \in {<< >>, <<Garbage>>}, Emits(base, n, extra)
  PROVE  /\ Rising(Stream', produced')
         /\ GarbageIn(Stream') => GarbageIn(base) \/ extra = <<Garbage>>
<1> DEFINE L   == Len(base)
           new == Stream'
           top == produced + n
<1>1. /\ new \in Seq(Nat) /\ Len(new) = L + n + Len(extra) /\ L \in Nat /\ Len(extra) \in Nat
      /\ \A i \in 1..L: new[i] = base[i]
      /\ \A i \in 1..n: new[L + i] = produced + i
      /\ \A i \in 1..Len(new): i > L + n => new[i] = Garbage
  BY EmitsValues, Zenon
<1>2. produced \in Nat /\ produced' = top /\ Garbage = 0 /\ top \in Nat /\ produced <= top
  BY DEF TypeOK, Emits, Garbage
<1>3. \A i \in 1..L: base[i] <= produced /\ base[i] \in Nat
  BY DEF Rising
<1>4. \A i, j \in 1..L: i < j /\ base[i] # 0 /\ base[j] # 0 => base[i] < base[j]
  BY <1>2 DEF Rising
<1>5. Len(extra) = 0 \/ extra = <<Garbage>>
  OBVIOUS
<1> HIDE DEF new, L
<1>6. ASSUME NEW i \in 1..Len(new)
      PROVE  \/ i <= L /\ i \in 1..L /\ new[i] = base[i]
             \/ i > L /\ i <= L + n /\ new[i] = produced + (i - L)
             \/ i > L + n /\ new[i] = 0
  <2>1. CASE i > L /\ i <= L + n
    <3>1. i - L \in 1..n /\ L + (i - L) = i
      BY <1>1, <2>1
    <3>2. new[L + (i - L)] = produced + (i - L)
      BY <1>1, <3>1, Zenon
    <3> QED
      BY <2>1, <3>1, <3>2
  <2>2. CASE i > L + n
    BY <1>1, <1>2, <2>2
  <2>3. CASE i <= L
    <3>1. i \in 1..L
      BY <1>1, <2>3
    <3> QED
      BY <1>1, <2>3, <3>1
  <2>4. i <= L \/ (i > L /\ i <= L + n) \/ i > L + n
    BY <1>1
  <2> QED
    BY <2>1, <2>2, <2>3, <2>4, Zenon
<1>7. \A i \in 1..Len(new): new[i] <= top
  BY <1>1, <1>2, <1>3, <1>6
<1>8. ASSUME NEW i \in 1..Len(new), NEW j \in 1..Len(new), i < j, new[i] # Garbage, new[j] # Garbage
      PROVE  new[i] < new[j]
  <2>1. CASE j \in 1..L
    <3>1. i \in 1..L /\ new[i] = base[i] /\ new[j] = base[j]
      BY <1>1, <1>8, <2>1
    <3> QED
      BY <1>2, <1>4, <1>8, <2>1, <3>1
  <2>2. CASE j > L /\ new[j] = produced + (j - L)
    <3>1. CASE i \in 1..L
      <4>1. new[i] = base[i] /\ base[i] <= produced /\ base[i] \in Nat
        BY <1>1, <1>3, <3>1
      <4>2. j - L \in Nat /\ j - L > 0
        BY <1>1, <2>2
      <4> QED
        BY <1>2, <2>2, <4>1, <4>2
    <3>2. CASE new[i] = produced + (i - L)
      BY <1>1, <1>2, <1>8, <2>2, <3>2
    <3> QED
      BY <1>2, <1>6, <1>8, <3>1, <3>2
  <2> QED
    BY <1>2, <1>6, <1>8, <2>1, <2>2
<1>9. Rising(new, top)
  BY <1>1, <1>7, <1>8 DEF Rising
<1>10. ASSUME GarbageIn(new) PROVE GarbageIn(base) \/ extra = <<Garbage>>
  <2>1. PICK i \in 1..Len(new): new[i] = 0
    BY <1>2, <1>10 DEF GarbageIn
  <2>2. CASE i \in 1..L /\ new[i] = base[i]
    BY <1>2, <2>1, <2>2 DEF GarbageIn, L
  <2>3. CASE i > L + n
    BY <1>1, <1>5, <2>3
  <2> QED
    BY <1>1, <1>2, <1>6, <2>1, <2>2, <2>3
<1> QED
  BY <1>2, <1>9, <1>10 DEF new

LEMMA InitOrder == Init => OrderInv
<1> SUFFICES ASSUME Init PROVE OrderInv
  OBVIOUS
<1>1. Handed = << >> /\ unit = << >> /\ output = << >> /\ produced = 0
  BY FlattenEmpty DEF Init, Handed
<1>2. << >> \o << >> = << >>
  OBVIOUS
<1>3. Stream = << >>
  BY <1>1, <1>2 DEF Stream
<1>4. Rising(<< >>, 0) /\ ~GarbageIn(<< >>)
  BY DEF Rising, GarbageIn
<1>5. ~FillerAhead /\ inflater # "astray"
  BY DEF Init, FillerAhead
<1>6. [i \in 1..produced |-> i] = << >>
  BY <1>1
<1> QED
  BY <1>1, <1>3, <1>4, <1>5, <1>6 DEF OrderInv

(* Fillers come into the input with an error, and the inflater goes astray on them alone. *)
LEMMA FillersAreReported ==
  ASSUME BlocksInv, FillerAhead \/ inflater = "astray" => ReadFailed, [Next]_vars,
         FillerAhead' \/ (inflater = "astray")'
  PROVE  ReadFailed'
<1>1. TypeOK /\ Placed
  BY DEF BlocksInv
<1>2. failures \subseteq failures'
  BY DEF Next, Steps, OpenStep, RefillStep, InflateStep, EndStep, Call, CopyBytes, ReturnUnit, Open,
         OpenRefuses, OpenFails, KeepInput, TopUp, TopUpPastFile, TopUpCut, TopUpFails, InflateData,
         InflateEnd, InflateBad, InflateFiller, InflateAstray, InflateDead, EndsWell, EndsTorn,
         CountDiffers, GoOn, Fail, vars, callVars
<1>3. SUFFICES ASSUME ~ReadFailed PROVE ReadFailed'
  BY <1>2 DEF ReadFailed
<1>4. ~FillerAhead /\ inflater # "astray"
  BY <1>3
<1>5. CASE TopUpCut \/ TopUpFails
  BY <1>5 DEF TopUpCut, TopUpFails, Fail, ReadFailed
<1>6. CASE TopUp
  <2>1. /\ Take \in Nat /\ Take <= LeftInFile /\ HeaderLen <= cursor
        /\ input' = Ahead(Take) /\ inflater' = inflater
    BY <1>1, <1>6, Lengths, TakeTyped DEF TopUp, Refill, Advancing, Placed, TypeOK
  <2> DEFINE n == Take
  <2>2. n \in Nat /\ n <= LeftInFile /\ HeaderLen <= cursor
    BY <2>1
  <2> HIDE DEF n
  <2>3. Ahead(n) \in Seq(Symbol)
    BY <1>1, <2>2, AheadTyped
  <2>4. \A i \in 1..Len(Ahead(n)): Ahead(n)[i] # Filler
    BY <2>3, SymbolsYield DEF Filler
  <2>5. ~FillerAhead'
    BY <2>1, <2>4 DEF FillerAhead, n
  <2> QED
    BY <1>4, <2>1, <2>5
<1>7. ASSUME NEW n \in 0..Len(input), input' = Dropped(n)
      PROVE  ~FillerAhead'
  <2>1. Len(input) \in Nat
    BY <1>1 DEF TypeOK
  <2>2. \A i \in 1..(Len(input) - n): n + i \in 1..Len(input)
    BY <2>1
  <2>3. Len(Dropped(n)) = Len(input) - n /\ \A i \in 1..(Len(input) - n): Dropped(n)[i] = input[n + i]
    BY <1>1, DroppedTyped
  <2>4. \A i \in 1..Len(Dropped(n)): Dropped(n)[i] # Filler
    BY <1>4, <2>2, <2>3 DEF FillerAhead
  <2> QED
    BY <1>7, <2>4 DEF FillerAhead
<1>8. Len(input) \in Nat
  BY <1>1 DEF TypeOK
<1>9. CASE InflateData
  <2>1. (\E n \in 0..Len(input): input' = Dropped(n)) /\ inflater' = inflater
    BY <1>9 DEF InflateData
  <2> QED
    BY <1>4, <1>7, <2>1
<1>10. CASE InflateEnd
  <2>1. (\E n \in 0..Len(input): n < Len(input) /\ input' = Dropped(n + 1)) /\ inflater' = inflater
    BY <1>10 DEF InflateEnd, Reaches, EndBlock
  <2>2. \A n \in 0..Len(input): n < Len(input) => n + 1 \in 0..Len(input)
    BY <1>8
  <2> QED
    BY <1>4, <1>7, <2>1, <2>2
<1>11. CASE InflateFiller
  BY <1>4, <1>8, <1>11 DEF InflateFiller, Reaches, FillerAhead
<1>12. CASE TopUpPastFile
  BY <1>4, <1>12 DEF TopUpPastFile, Refill, FillerAhead
<1>13. CASE InflateAstray
  BY <1>4, <1>13 DEF InflateAstray
<1>14. CASE InflateBad \/ InflateDead
  <2>1. input' = input /\ inflater' # "astray"
    BY <1>4, <1>14 DEF InflateBad, InflateDead
  <2> QED
    BY <1>4, <2>1 DEF FillerAhead
<1>15. CASE ~(RefillStep \/ InflateStep) \/ KeepInput
  <2>1. UNCHANGED <<input, inflater>>
    BY <1>15 DEF Next, Steps, OpenStep, EndStep, Call, CopyBytes, ReturnUnit, Open, OpenRefuses, OpenFails,
                 KeepInput, EndsWell, EndsTorn, CountDiffers, vars, inflateVars
  <2> QED
    BY <1>4, <2>1 DEF FillerAhead
<1> QED
  BY <1>5, <1>6, <1>9, <1>10, <1>11, <1>12, <1>13, <1>14, <1>15 DEF RefillStep, InflateStep

LEMMA StepKeepsOrder == BlocksInv /\ OrderInv /\ [Next]_vars => OrderInv'
<1> SUFFICES ASSUME BlocksInv, OrderInv, [Next]_vars
             PROVE  OrderInv'
  OBVIOUS
<1>1. TypeOK /\ StreamStep
  BY StepStreams DEF BlocksInv
<1>2. /\ taken \in Seq(Seq(Nat)) /\ Handed \in Seq(Nat) /\ unit \in Seq(Nat) /\ output \in Seq(Nat)
      /\ Stream \in Seq(Nat) /\ produced \in Nat
  BY <1>1, HandedTyped DEF TypeOK
<1>3. Rising(Stream, produced) /\ (GarbageIn(Stream) => ReadFailed)
  BY DEF OrderInv
<1>4. Rising(Handed, produced) /\ (GarbageIn(Handed) => GarbageIn(Stream))
  <2>1. /\ Handed \in Seq(Nat) /\ unit \in Seq(Nat) /\ output \in Seq(Nat) /\ produced \in Nat
        /\ Rising((Handed \o unit) \o output, produced)
    BY <1>2, <1>3 DEF Stream
  <2> DEFINE front == Handed \o unit
  <2>2. front \in Seq(Nat) /\ Rising(front \o output, produced)
    BY <1>1, <2>1, HandedTyped
  <2>3. Stream = front \o output
    BY DEF Stream
  <2> HIDE DEF front
  <2>4. Rising(front, produced) /\ (GarbageIn(front) => GarbageIn(Stream))
    BY <2>1, <2>2, <2>3, RisingPrefix
  <2>5. Rising(Handed \o unit, produced) /\ (GarbageIn(Handed \o unit) => GarbageIn(Stream))
    BY <2>4 DEF front
  <2>6. Rising(Handed, produced) /\ (GarbageIn(Handed) => GarbageIn(Handed \o unit))
    BY <2>1, <2>5, RisingPrefix
  <2> QED
    BY <2>5, <2>6
<1>5. (FillerAhead \/ inflater = "astray")' => ReadFailed'
  BY FillersAreReported DEF OrderInv
<1>6. << >> \in {<< >>, <<Garbage>>} /\ <<Garbage>> \in {<< >>, <<Garbage>>} /\ << >> # <<Garbage>>
  OBVIOUS
<1>7. CASE Stream' = Stream /\ UNCHANGED <<produced, failures>>
  BY <1>5, <1>7 DEF OrderInv, ReadFailed
<1>8. CASE UNCHANGED failures /\ \E n \in Nat: Emits(Stream, n, << >>)
  <2>1. PICK n \in Nat: Emits(Stream, n, << >>)
    BY <1>8
  <2>2. Rising(Stream', produced') /\ (GarbageIn(Stream') => GarbageIn(Stream))
    BY <1>1, <1>2, <1>3, <1>6, <2>1, RisingGrows
  <2>3. ASSUME failures' \subseteq {"io_header"} PROVE Stream' = [i \in 1..produced' |-> i]
    <3>1. Stream = [i \in 1..produced |-> i] /\ Len(Stream) = produced
      BY <1>2, <1>8, <2>3 DEF OrderInv
    <3> DEFINE new == Stream'
               top == produced'
    <3>2. /\ new \in Seq(Nat) /\ Len(new) = produced + n + 0 /\ top = produced + n
          /\ \A i \in 1..produced: new[i] = Stream[i]
          /\ \A i \in 1..n: new[produced + i] = produced + i
      <4>1. /\ Stream' \in Seq(Nat) /\ Len(Stream') = Len(Stream) + n + Len(<< >>)
            /\ \A i \in 1..Len(Stream): Stream'[i] = Stream[i]
            /\ \A i \in 1..n: Stream'[Len(Stream) + i] = produced + i
        BY <1>1, <1>2, <1>6, <2>1, EmitsValues
      <4>2. top = produced + n /\ Len(<< >>) = 0
        BY <2>1 DEF Emits
      <4> QED
        BY <3>1, <4>1, <4>2
    <3> HIDE DEF new, top
    <3>3. ASSUME NEW i \in 1..top PROVE new[i] = i
      <4>1. CASE i <= produced
        BY <1>2, <3>1, <3>2, <4>1
      <4>2. CASE i > produced
        <5>1. i - produced \in 1..n /\ produced + (i - produced) = i
          BY <1>2, <3>2, <4>2
        <5> QED
          BY <3>2, <5>1
      <4> QED
        BY <1>2, <4>1, <4>2
    <3>4. new = [i \in 1..top |-> i]
      BY <1>2, <3>2, <3>3
    <3> QED
      BY <3>4 DEF new, top
  <2> QED
    BY <1>3, <1>5, <1>8, <2>2, <2>3 DEF OrderInv, ReadFailed
<1>9. CASE /\ UNCHANGED failures
           /\ FillerAhead \/ inflater = "astray"
           /\ \E n \in Nat: Emits(Stream, n, <<Garbage>>)
  <2>1. PICK n \in Nat: Emits(Stream, n, <<Garbage>>)
    BY <1>9
  <2>2. Rising(Stream', produced')
    BY <1>1, <1>2, <1>3, <1>6, <2>1, RisingGrows
  <2>3. ReadFailed /\ ReadFailed'
    <3>1. UNCHANGED failures /\ (FillerAhead \/ inflater = "astray")
      BY <1>9
    <3>2. FillerAhead \/ inflater = "astray" => ReadFailed
      BY DEF OrderInv
    <3> QED
      BY <3>1, <3>2 DEF ReadFailed
  <2>4. ~(failures' \subseteq {"io_header"})
    BY <2>3 DEF ReadFailed
  <2> QED
    BY <2>2, <2>3, <2>4 DEF OrderInv
<1>10. CASE \E kind \in Kinds, n \in Nat:
              /\ Emits(Handed, n, << >>)
              /\ failures' = failures \cup {kind}
              /\ kind = "io_header" => Fresh /\ n = 0
  <2>1. PICK kind \in Kinds, n \in Nat:
              /\ Emits(Handed, n, << >>)
              /\ failures' = failures \cup {kind}
              /\ kind = "io_header" => Fresh /\ n = 0
    BY <1>10
  <2>2. Rising(Stream', produced') /\ (GarbageIn(Stream') => GarbageIn(Handed))
    BY <1>1, <1>2, <1>4, <1>6, <2>1, RisingGrows
  <2>3. GarbageIn(Stream') => ReadFailed'
    BY <1>3, <1>4, <2>1, <2>2 DEF ReadFailed
  <2>4. ASSUME failures' \subseteq {"io_header"} PROVE Stream' = [i \in 1..produced' |-> i]
    <3>1. kind = "io_header"
      BY <2>1, <2>4
    <3>2. Handed = << >> /\ produced = 0 /\ n = 0
      BY <2>1, <3>1, FlattenEmpty DEF Fresh, Handed
    <3>3. Stream' = << >> /\ produced' = 0
      BY <2>1, <3>2, BytesNone DEF Emits
    <3> QED
      BY <3>3
  <2> QED
    BY <1>5, <2>2, <2>3, <2>4 DEF OrderInv
<1> QED
  BY <1>1, <1>7, <1>8, <1>9, <1>10 DEF StreamStep

LEMMA OrderAlways == Spec => [](BlocksInv /\ OrderInv)
<1>1. Init => BlocksInv /\ OrderInv
  BY InitBlocks, InitOrder
<1>2. (BlocksInv /\ OrderInv) /\ [Next]_vars => (BlocksInv /\ OrderInv)'
  BY StepKeepsBlocks, StepKeepsOrder
<1> QED
  BY <1>1, <1>2, PTL DEF Spec

(* The bytes of a section come in their order, whatever failed and however often the caller *)
(* asks again: none twice, none before an earlier one, and up to the first error none is     *)
(* missing; a byte that stands for nothing in the file comes after a failed read alone.        *)
THEOREM ZlibBytesComeInOrder == Spec => []BytesComeInOrder
<1>1. BlocksInv /\ OrderInv => BytesComeInOrder
  <2> SUFFICES ASSUME BlocksInv, OrderInv PROVE BytesComeInOrder
    OBVIOUS
  <2> DEFINE bytes == Handed \o unit
  <2>1. bytes \in Seq(Nat) /\ output \in Seq(Nat) /\ produced \in Nat
    BY HandedTyped DEF BlocksInv, TypeOK
  <2>2. Stream = bytes \o output
    BY DEF Stream
  <2>3. failures \subseteq {"io_header"} => bytes \o output = [i \in 1..produced |-> i]
    BY <2>2 DEF OrderInv
  <2> HIDE DEF bytes
  <2>4. Rising(bytes \o output, produced) /\ (GarbageIn(bytes \o output) => ReadFailed)
    BY <2>2 DEF OrderInv
  <2>5. Rising(bytes, produced) /\ (GarbageIn(bytes) => ReadFailed)
    BY <2>1, <2>4, RisingPrefix
  <2>6. DOMAIN bytes = 1..Len(bytes)
    BY <2>1
  <2>7. \A i, j \in DOMAIN bytes:
          i < j /\ bytes[i] # Garbage /\ bytes[j] # Garbage => bytes[i] < bytes[j]
    BY <2>5, <2>6 DEF Rising
  <2>8. \A i \in DOMAIN bytes: bytes[i] = Garbage => failures \cap {"io", "cut"} # {}
    BY <2>5, <2>6 DEF GarbageIn, ReadFailed
  <2> QED
    BY <2>3, <2>7, <2>8 DEF BytesComeInOrder, bytes
<1> QED
  BY <1>1, OrderAlways, PTL

-----------------------------------------------------------------------------------
(* What a clean end says *)

Tidy == failures \subseteq {"io_header", "torn"}

Consumed == position - HeaderLen - Len(input)

EndsIn(n) == {i \in 1..n: file.contents[i] = "end"}

(* As long as nothing else failed, the input is what was read last, and what it does not *)
(* hold any more is accounted for.                                                        *)
Accounted ==
  Tidy /\ header = "read" =>
    /\ inflater = "sound"
    /\ Consumed >= 0
    /\ input = SubSeq(file.contents, Consumed + 1, position - HeaderLen)
    /\ produced + pending = Yields(SubSeq(file.contents, 1, Consumed))
    /\ blocks = Cardinality(EndsIn(Consumed))

AtTheTrailer == finished => header = "read" /\ position >= file.trailer /\ input = << >> /\ pending = 0

(* What leaves a section that never ends well. *)
Doomed ==
  \/ header = "lost"
  \/ finished /\ ~CountAgrees
  \/ /\ header = "read" /\ ~finished
     /\ \/ inflater # "sound"
        \/ input # << >> /\ input[Len(input)] = Filler
        \/ input = << >> /\ position < file.trailer /\ LeftInFile = 0
        \/ input = << >> /\ pending = 0 /\ position >= file.trailer

AfterTheEnd ==
  answer \in {"none", "torn"} =>
    header = "read" /\ finished /\ CountAgrees /\ output = << >> /\ unit = << >>

WholeInv ==
  /\ Accounted
  /\ AtTheTrailer
  /\ ~Tidy => Doomed
  /\ AfterTheEnd

(* A slice of a slice is one of the whole, and two slices that meet are one. *)
LEMMA Slices ==
  ASSUME NEW s \in Seq(Symbol), NEW c \in Nat, NEW p \in Nat, c <= p, p <= Len(s),
         NEW w, w = SubSeq(s, c + 1, p), NEW n \in Nat, n <= p - c
  PROVE  /\ w \in Seq(Symbol) /\ Len(w) = p - c
         /\ \A i \in 1..(p - c): w[i] = s[c + i]
         /\ SubSeq(w, n + 1, p - c) = SubSeq(s, c + n + 1, p)
         /\ SubSeq(s, 1, c + n) = SubSeq(s, 1, c) \o SubSeq(w, 1, n)
         /\ SubSeq(s, 1, c) \in Seq(Symbol) /\ SubSeq(w, 1, n) \in Seq(Symbol)
<1>1. Len(s) \in Nat /\ \A i \in 1..Len(s): s[i] \in Symbol
  OBVIOUS
<1>2. w \in Seq(Symbol) /\ Len(w) = p - c /\ \A i \in 1..(p - c): w[i] = s[c + i]
  <2>1. \A i \in (c + 1)..p: s[i] \in Symbol
    BY <1>1
  <2>2. /\ c + 1 \in Int /\ c + 1 <= p + 1 /\ p \in Int /\ p - (c + 1) + 1 = p - c
        /\ \A i \in 1..(p - c): (c + 1) + i - 1 = c + i
    OBVIOUS
  <2> QED
    BY <2>1, <2>2, SubSeqProperties
<1>3. \A i \in 1..(p - c): w[i] \in Symbol
  BY <1>2
<1>4. SubSeq(w, n + 1, p - c) = SubSeq(s, c + n + 1, p)
  <2> DEFINE one == SubSeq(w, n + 1, p - c)
             two == SubSeq(s, c + n + 1, p)
  <2>1. one \in Seq(Symbol) /\ Len(one) = p - c - n /\ \A i \in 1..(p - c - n): one[i] = w[n + i]
    <3>1. /\ \A i \in (n + 1)..(p - c): w[i] \in Symbol
          /\ n + 1 \in Int /\ n + 1 <= (p - c) + 1 /\ p - c \in Int
          /\ (p - c) - (n + 1) + 1 = p - c - n
          /\ \A i \in 1..(p - c - n): (n + 1) + i - 1 = n + i
      BY <1>3
    <3> QED
      BY <3>1, SubSeqProperties
  <2>2. two \in Seq(Symbol) /\ Len(two) = p - c - n /\ \A i \in 1..(p - c - n): two[i] = s[c + n + i]
    <3>1. /\ \A i \in (c + n + 1)..p: s[i] \in Symbol
          /\ c + n + 1 \in Int /\ c + n + 1 <= p + 1 /\ p \in Int
          /\ p - (c + n + 1) + 1 = p - c - n
          /\ \A i \in 1..(p - c - n): (c + n + 1) + i - 1 = c + n + i
      BY <1>1
    <3> QED
      BY <3>1, SubSeqProperties
  <2> HIDE DEF one, two
  <2>3. \A i \in 1..(p - c - n): n + i \in 1..(p - c) /\ c + (n + i) = c + n + i
    OBVIOUS
  <2>4. \A i \in 1..(p - c - n): one[i] = two[i]
    BY <1>2, <2>1, <2>2, <2>3
  <2>5. one = two
    BY <2>1, <2>2, <2>4, SeqEqual
  <2> QED
    BY <2>5 DEF one, two
<1>5. SubSeq(s, 1, c) \in Seq(Symbol) /\ Len(SubSeq(s, 1, c)) = c
      /\ \A i \in 1..c: SubSeq(s, 1, c)[i] = s[i]
  BY <1>1, SubSeqProperties
<1>6. SubSeq(w, 1, n) \in Seq(Symbol) /\ Len(SubSeq(w, 1, n)) = n
      /\ \A i \in 1..n: SubSeq(w, 1, n)[i] = w[i]
  <2>1. \A i \in 1..n: w[i] \in Symbol
    BY <1>3
  <2> QED
    BY <2>1, SubSeqProperties
<1>7. SubSeq(s, 1, c + n) \in Seq(Symbol) /\ Len(SubSeq(s, 1, c + n)) = c + n
      /\ \A i \in 1..(c + n): SubSeq(s, 1, c + n)[i] = s[i]
  <2>1. \A i \in 1..(c + n): s[i] \in Symbol
    BY <1>1
  <2> QED
    BY <2>1, SubSeqProperties
<1>8. SubSeq(s, 1, c + n) = SubSeq(s, 1, c) \o SubSeq(w, 1, n)
  <2> DEFINE one   == SubSeq(s, 1, c)
             two   == SubSeq(w, 1, n)
             whole == SubSeq(s, 1, c + n)
  <2> HIDE DEF one, two, whole
  <2>1. one \in Seq(Symbol)
    BY <1>5 DEF one
  <2>2. two \in Seq(Symbol)
    BY <1>6 DEF two
  <2>3. one \o two \in Seq(Symbol)
    BY <2>1, <2>2, ConcatProperties
  <2>4. Len(one \o two) = Len(one) + Len(two)
    BY <2>1, <2>2, ConcatProperties
  <2>5. Len(one) = c /\ Len(two) = n
    BY <1>5, <1>6 DEF one, two
  <2>6. ASSUME NEW i \in 1..(c + n)
        PROVE  whole[i] = (one \o two)[i]
    <3>1. (one \o two)[i] = IF i <= c THEN one[i] ELSE two[i - c]
      BY <2>1, <2>2, <2>5, ConcatProperties
    <3>2. whole[i] = s[i]
      BY <1>7 DEF whole
    <3>3. CASE i <= c
      BY <1>5, <3>1, <3>2, <3>3 DEF one
    <3>4. CASE ~(i <= c)
      <4>1. i - c \in 1..n /\ i - c \in 1..(p - c) /\ c + (i - c) = i
        BY <3>4
      <4> QED
        BY <1>2, <1>6, <3>1, <3>2, <3>4, <4>1 DEF two
    <3> QED
      BY <3>3, <3>4
  <2>7. whole \in Seq(Symbol) /\ Len(whole) = c + n
    BY <1>7 DEF whole
  <2>8. whole = one \o two
    BY <2>3, <2>4, <2>5, <2>6, <2>7, SeqEqual
  <2> QED
    BY <2>8 DEF one, two, whole
<1> QED
  BY <1>2, <1>4, <1>5, <1>6, <1>8

LEMMA YieldsEmpty == Yields(<< >>) = 0
<1> DEFINE none == << >>
<1>1. none \in Seq(Symbol) /\ Len(none) = 0
  OBVIOUS
<1> HIDE DEF none
<1>2. Yields(none) <= 2 * Len(none) /\ Yields(none) \in Nat
  BY <1>1, YieldsBounded, YieldsTyped
<1> QED
  BY <1>1, <1>2 DEF none

(* What is known of the region as long as every byte of it is accounted for. *)
LEMMA AccountedFacts ==
  ASSUME BlocksInv, Accounted, Tidy, header = "read", NEW n \in 0..Len(input)
  PROVE  /\ Consumed \in Nat /\ position - HeaderLen \in Nat /\ Consumed <= position - HeaderLen
         /\ position - HeaderLen - Consumed = Len(input) /\ position - HeaderLen <= Len(file.contents)
         /\ cursor = position /\ inflater = "sound"
         /\ input \in Seq(Symbol)
         /\ \A i \in 1..Len(input): input[i] = file.contents[Consumed + i] /\ input[i] # Filler
         /\ Dropped(n) = SubSeq(file.contents, Consumed + n + 1, position - HeaderLen)
         /\ Yields(SubSeq(file.contents, 1, Consumed + n))
              = Yields(SubSeq(file.contents, 1, Consumed)) + Yields(SubSeq(input, 1, n))
         /\ produced + pending = Yields(SubSeq(file.contents, 1, Consumed))
         /\ blocks = Cardinality(EndsIn(Consumed))
<1> DEFINE s == file.contents
           c == Consumed
           p == position - HeaderLen
<1>1. /\ position \in Nat /\ HeaderLen <= position /\ position <= cursor
      /\ cursor <= HeaderLen + Len(s) /\ s \in Seq(Symbol) /\ Len(s) \in Nat /\ cursor \in Nat
      /\ Len(input) \in Nat /\ n \in Nat
  BY FileTyped DEF BlocksInv, Placed, TypeOK
<1>2. cursor = position
  BY DEF BlocksInv, Placed, Tidy
<1>3. /\ inflater = "sound" /\ c >= 0 /\ input = SubSeq(s, c + 1, p)
      /\ produced + pending = Yields(SubSeq(s, 1, c))
      /\ blocks = Cardinality(EndsIn(c))
  BY DEF Accounted
<1>4. c = p - Len(input) /\ p \in Nat /\ c \in Nat /\ c <= p /\ p <= Len(s) /\ p - c = Len(input) /\ n <= p - c
  BY <1>1, <1>2, <1>3, Lengths DEF Consumed
<1> HIDE DEF s, c, p
<1>5. /\ input \in Seq(Symbol) /\ Len(input) = p - c
      /\ \A i \in 1..(p - c): input[i] = s[c + i]
      /\ SubSeq(input, n + 1, p - c) = SubSeq(s, c + n + 1, p)
      /\ SubSeq(s, 1, c + n) = SubSeq(s, 1, c) \o SubSeq(input, 1, n)
      /\ SubSeq(s, 1, c) \in Seq(Symbol) /\ SubSeq(input, 1, n) \in Seq(Symbol)
  BY <1>1, <1>3, <1>4, Slices
<1>6. Yields(SubSeq(s, 1, c + n)) = Yields(SubSeq(s, 1, c)) + Yields(SubSeq(input, 1, n))
  BY <1>5, YieldsConcat
<1>7. \A i \in 1..Len(input): input[i] # Filler
  <2>1. input \in Seq(Symbol)
    BY <1>5
  <2>2. \A i \in 1..Len(input): input[i] \in Symbol
    BY <2>1
  <2> QED
    BY <2>2, SymbolsYield DEF Filler
<1>8. Dropped(n) = SubSeq(s, c + n + 1, p)
  BY <1>4, <1>5 DEF Dropped
<1>9. \A i \in 1..Len(input): input[i] = s[c + i]
  BY <1>4, <1>5
<1> QED
  BY <1>2, <1>3, <1>4, <1>5, <1>6, <1>7, <1>8, <1>9 DEF s, c, p

LEMMA EndsAreFinite ==
  ASSUME NEW n \in Nat
  PROVE  IsFiniteSet(EndsIn(n)) /\ Cardinality(EndsIn(n)) \in Nat
<1>1. IsFiniteSet(1..n)
  BY FS_Interval
<1>2. IsFiniteSet(EndsIn(n))
  BY <1>1, FS_Subset DEF EndsIn
<1> QED
  BY <1>2, FS_CardinalityType

-----------------------------------------------------------------------------------
(* Accounted, step by step *)

AccountsFor(n, ends) ==
  /\ header' = header /\ file' = file /\ position' = position /\ inflater' = inflater
  /\ input' = Dropped(n)
  /\ produced' + pending' = produced + pending + Yields(SubSeq(input, 1, n))
  /\ blocks' = blocks + ends
  /\ Cardinality(EndsIn(Consumed + n)) = Cardinality(EndsIn(Consumed)) + ends

LEMMA ConsumesAccounted ==
  ASSUME BlocksInv, Accounted, Tidy, header = "read", NEW n \in 0..Len(input), NEW ends \in Nat,
         AccountsFor(n, ends)
  PROVE  Accounted'
<1> DEFINE c == Consumed
           p == position - HeaderLen
           s == file.contents
<1>1. /\ c \in Nat /\ p \in Nat /\ c <= p /\ p - c = Len(input) /\ p <= Len(s) /\ inflater = "sound"
      /\ Dropped(n) = SubSeq(s, c + n + 1, p)
      /\ Yields(SubSeq(s, 1, c + n)) = Yields(SubSeq(s, 1, c)) + Yields(SubSeq(input, 1, n))
      /\ produced + pending = Yields(SubSeq(s, 1, c))
      /\ blocks = Cardinality(EndsIn(c))
  BY AccountedFacts
<1>2. TypeOK
  BY DEF BlocksInv
<1>3. Len(Dropped(n)) = Len(input) - n /\ Len(input) \in Nat /\ n \in Nat
  BY <1>2, DroppedTyped DEF TypeOK
<1> HIDE DEF c
<1>4. Consumed' = c + n
  BY <1>1, <1>3, Lengths DEF Consumed, AccountsFor
<1>5. input' = SubSeq(s, (c + n) + 1, p)
  BY <1>1 DEF AccountsFor
<1>6. produced' + pending' = Yields(SubSeq(s, 1, c + n))
  BY <1>1 DEF AccountsFor
<1>7. blocks' = Cardinality(EndsIn(c + n))
  BY <1>1 DEF AccountsFor, c
<1>8. EndsIn(Consumed)' = EndsIn(c + n)
  BY <1>4 DEF EndsIn, AccountsFor
<1>9. inflater' = "sound" /\ Consumed' >= 0
  BY <1>1, <1>3, <1>4 DEF AccountsFor
<1> QED
  BY <1>4, <1>5, <1>6, <1>7, <1>8, <1>9 DEF Accounted, AccountsFor

LEMMA SameAccounted ==
  ASSUME Accounted, failures' \subseteq {"io_header", "torn"} => Tidy,
         UNCHANGED <<file, header, position, input, inflater, pending, produced, blocks>>
  PROVE  Accounted'
BY DEF Accounted, Tidy, Consumed, EndsIn

LEMMA FailuresStay ==
  ASSUME [Next]_vars
  PROVE  failures \subseteq failures'
BY DEF Next, Steps, OpenStep, RefillStep, InflateStep, EndStep, Call, CopyBytes, ReturnUnit, Open,
       OpenRefuses, OpenFails, KeepInput, TopUp, TopUpPastFile, TopUpCut, TopUpFails, InflateData,
       InflateEnd, InflateBad, InflateFiller, InflateAstray, InflateDead, EndsWell, EndsTorn,
       CountDiffers, GoOn, Fail, vars, callVars

(* Symbols that are data end no block. *)
LEMMA DataEndsNoBlock ==
  ASSUME NEW c \in Nat, NEW n \in Nat,
         \A i \in 1..n: file.contents[c + i] # "end"
  PROVE  EndsIn(c + n) = EndsIn(c)
<1>1. ASSUME NEW i \in 1..(c + n), file.contents[i] = "end"
      PROVE  i \in 1..c
  <2>1. CASE i > c
    <3>1. i - c \in 1..n /\ c + (i - c) = i
      BY <2>1
    <3> QED
      BY <1>1, <3>1
  <2> QED
    BY <2>1
<1>2. 1..c \subseteq 1..(c + n)
  OBVIOUS
<1> QED
  BY <1>1, <1>2 DEF EndsIn

LEMMA TopUpAccounted ==
  ASSUME BlocksInv, Accounted, TopUp
  PROVE  Accounted'
<1> SUFFICES ASSUME Tidy PROVE Accounted'
  BY DEF TopUp, GoOn, Accounted, Tidy
<1> DEFINE s == file.contents
           n == Take
<1>1. /\ header = "read" /\ input = << >> /\ n <= LeftInFile /\ input' = Ahead(n)
      /\ cursor' = cursor + n /\ position' = position + n
      /\ UNCHANGED <<file, header, inflater, pending, produced, blocks>>
  BY DEF TopUp, Refill, Advancing
<1>2. Len(input) = 0 /\ 0 \in 0..Len(input)
  BY <1>1
<1>3. /\ Consumed \in Nat /\ cursor = position /\ inflater = "sound" /\ position - HeaderLen - Consumed = Len(input)
      /\ produced + pending = Yields(SubSeq(s, 1, Consumed))
      /\ blocks = Cardinality(EndsIn(Consumed))
  BY <1>1, <1>2, AccountedFacts
<1>4. n \in Nat /\ HeaderLen <= cursor /\ TypeOK /\ position \in Nat
  BY <1>1, Lengths, TakeTyped DEF BlocksInv, Placed, TypeOK
<1> HIDE DEF n
<1>5. Len(Ahead(n)) = n
  BY <1>1, <1>4, AheadTyped
<1>6. Consumed' = Consumed /\ Consumed = position - HeaderLen
  BY <1>1, <1>2, <1>3, <1>4, <1>5, Lengths DEF Consumed
<1>7. EndsIn(Consumed)' = EndsIn(Consumed)
  BY <1>1, <1>6 DEF EndsIn
<1>8. input' = SubSeq(s, Consumed + 1, position' - HeaderLen)
  <2>1. cursor - HeaderLen + 1 = Consumed + 1 /\ cursor - HeaderLen + n = position' - HeaderLen
    BY <1>1, <1>3, <1>4, <1>6, Lengths
  <2> QED
    BY <1>1, <2>1 DEF Ahead
<1>9. Consumed' >= 0
  BY <1>3, <1>6
<1> QED
  BY <1>1, <1>3, <1>6, <1>7, <1>8, <1>9 DEF Accounted

LEMMA InflateAccounted ==
  ASSUME BlocksInv, Accounted, InflateStep
  PROVE  Accounted'
<1>1. TypeOK /\ header = "read" /\ UNCHANGED <<file, header, cursor, position>> /\ pc = "inflating"
  BY InflateStays DEF BlocksInv, InTheCall
<1> SUFFICES ASSUME Tidy' PROVE Accounted'
  BY DEF Accounted
<1>2. Tidy
  BY FailuresStay DEF Tidy, Next, Steps
<1>3. \A n \in 0..Len(input):
        /\ Consumed \in Nat /\ input \in Seq(Symbol) /\ inflater = "sound"
        /\ \A i \in 1..Len(input): input[i] = file.contents[Consumed + i] /\ input[i] # Filler
  BY <1>1, <1>2, AccountedFacts
<1>4. produced \in Nat /\ pending \in Nat /\ blocks \in Nat /\ Len(input) \in Nat
  BY <1>1 DEF TypeOK
<1>5. 0 \in 0..Len(input)
  BY <1>4
<1>6. ASSUME NEW n \in 0..Len(input), Data(n)
      PROVE  EndsIn(Consumed + n) = EndsIn(Consumed)
  <2>1. \A i \in 1..n: i \in 1..Len(input) /\ input[i] # "end"
    BY <1>4, <1>6 DEF Data
  <2>2. \A i \in 1..n: file.contents[Consumed + i] # "end"
    BY <1>3, <1>5, <2>1
  <2>3. n \in Nat /\ Consumed \in Nat
    BY <1>3, <1>5
  <2> QED
    BY <2>2, <2>3, DataEndsNoBlock
<1>7. CASE InflateData
  <2>1. PICK n \in 0..Len(input):
          /\ Data(n)
          /\ produced' = produced + Room(Backlog(n))
          /\ pending' = Backlog(n) - Room(Backlog(n))
          /\ input' = Dropped(n)
    BY <1>7 DEF InflateData, Emit
  <2>2. /\ Backlog(n) \in Nat /\ Backlog(n) = pending + Yields(SubSeq(input, 1, n))
        /\ Yields(SubSeq(input, 1, n)) \in Nat
    BY <1>1, <2>1, BacklogTyped
  <2>3. Room(Backlog(n)) \in Nat
    BY <2>2, RoomBounds
  <2>4. produced' + pending' = produced + pending + Yields(SubSeq(input, 1, n))
    BY <1>4, <2>1, <2>2, <2>3
  <2>5. Cardinality(EndsIn(Consumed + n)) = Cardinality(EndsIn(Consumed)) + 0
    <3>1. Consumed \in Nat /\ EndsIn(Consumed + n) = EndsIn(Consumed)
      BY <1>3, <1>5, <1>6, <2>1
    <3> QED
      BY <3>1, EndsAreFinite
  <2>6. AccountsFor(n, 0)
    BY <1>1, <1>4, <1>7, <2>1, <2>4, <2>5 DEF AccountsFor, InflateData
  <2> QED
    BY <1>1, <1>2, <2>6, ConsumesAccounted
<1>8. CASE InflateEnd
  <2>1. PICK n \in 0..Len(input):
          /\ Reaches(n) /\ input[n + 1] = "end"
          /\ produced' = produced + Backlog(n)
          /\ blocks' = blocks + 1
          /\ input' = Dropped(n + 1)
    BY <1>8 DEF InflateEnd, Emit, EndBlock
  <2> DEFINE m == n + 1
             c == Consumed
  <2>2. n \in Nat /\ m \in 0..Len(input) /\ m \in 1..Len(input) /\ Data(n)
    BY <1>4, <2>1 DEF Reaches
  <2>3. Backlog(n) = pending + Yields(SubSeq(input, 1, n)) /\ Yields(SubSeq(input, 1, n)) \in Nat
        /\ SubSeq(input, 1, n) \in Seq(Symbol)
    BY <1>1, <2>2, BacklogTyped
  <2>4. Yields(SubSeq(input, 1, m)) = Yields(SubSeq(input, 1, n))
    <3>1. \A i \in 1..Len(input): input[i] \in Symbol
      BY <1>3, <1>5
    <3>2. \A i \in 1..m: input[i] \in Symbol
      BY <1>4, <2>2, <3>1
    <3> DEFINE t == SubSeq(input, 1, m)
    <3>3. t \in Seq(Symbol) /\ Len(t) = m /\ \A i \in 1..m: t[i] = input[i]
      BY <2>2, <3>2, SubSeqProperties
    <3> HIDE DEF t
    <3>4. SubSeq(t, 1, n) = SubSeq(input, 1, n)
      <4>1. \A i \in 1..n: t[i] \in Symbol /\ t[i] = input[i] /\ input[i] \in Symbol
        BY <2>2, <3>2, <3>3
      <4>2. SubSeq(t, 1, n) \in Seq(Symbol) /\ Len(SubSeq(t, 1, n)) = n
            /\ \A i \in 1..n: SubSeq(t, 1, n)[i] = t[i]
        BY <2>2, <4>1, SubSeqProperties
      <4>3. SubSeq(input, 1, n) \in Seq(Symbol) /\ Len(SubSeq(input, 1, n)) = n
            /\ \A i \in 1..n: SubSeq(input, 1, n)[i] = input[i]
        BY <2>2, <4>1, SubSeqProperties
      <4> QED
        BY <4>1, <4>2, <4>3, SeqEqual
    <3>5. t = Append(SubSeq(t, 1, n), t[n + 1]) /\ t[n + 1] = "end"
      BY <2>1, <2>2, <3>3, SeqIsAppend
    <3> DEFINE front == SubSeq(input, 1, n)
               one   == <<"end">>
    <3>6. front \in Seq(Symbol) /\ one \in Seq(Symbol) /\ t = front \o one
      BY <2>3, <3>4, <3>5, SymbolsYield
    <3>7. Yields(one) = 0
      <4>1. "end" \in Symbol /\ Yield["end"] = 0
        BY DEF Symbol, Yield
      <4> QED
        BY <4>1, SymbolYields
    <3> HIDE DEF front, one
    <3>8. Yields(t) = Yields(front) + Yields(one) /\ Yields(front) \in Nat
      BY <3>6, YieldsConcat, YieldsTyped
    <3> QED
      BY <3>7, <3>8 DEF t, front
  <2>5. Cardinality(EndsIn(c + m)) = Cardinality(EndsIn(c)) + 1
    <3>1. c \in Nat /\ EndsIn(c + n) = EndsIn(c) /\ file.contents[c + m] = "end"
      BY <1>3, <1>5, <1>6, <2>1, <2>2
    <3> HIDE DEF c
    <3>2. EndsIn(c + m) = EndsIn(c + n) \cup {c + m}
      <4>1. 1..(c + m) = 1..(c + n) \cup {c + m}
        BY <2>2, <3>1
      <4> QED
        BY <3>1, <4>1 DEF EndsIn
    <3>3. c + m \notin EndsIn(c)
      BY <2>2, <3>1 DEF EndsIn
    <3>4. IsFiniteSet(EndsIn(c)) /\ Cardinality(EndsIn(c)) \in Nat
      BY <3>1, EndsAreFinite
    <3>5. Cardinality(EndsIn(c) \cup {c + m}) = Cardinality(EndsIn(c)) + 1
      BY <3>3, <3>4, FS_AddElement
    <3> QED
      BY <3>1, <3>2, <3>5
  <2>6. produced' + pending' = produced + pending + Yields(SubSeq(input, 1, m))
    BY <1>4, <1>8, <2>1, <2>3, <2>4 DEF InflateEnd
  <2>7. AccountsFor(m, 1)
    BY <1>1, <1>8, <2>1, <2>5, <2>6 DEF AccountsFor, InflateEnd
  <2> QED
    BY <1>1, <1>2, <2>2, <2>7, ConsumesAccounted
<1>9. CASE InflateBad \/ InflateDead
  <2>1. "corrupt" \in failures'
    BY <1>9 DEF InflateBad, InflateDead, Fail
  <2> QED
    BY <2>1 DEF Tidy
<1>10. CASE InflateFiller \/ InflateAstray
  <2>1. inflater = "sound" /\ ~FillerAhead
    BY <1>3, <1>5 DEF FillerAhead
  <2>2. InflateFiller => FillerAhead
    BY <1>4 DEF InflateFiller, Reaches, FillerAhead
  <2> QED
    BY <1>10, <2>1, <2>2 DEF InflateAstray
<1> QED
  BY <1>7, <1>8, <1>9, <1>10 DEF InflateStep

LEMMA StepKeepsAccounted ==
  ASSUME BlocksInv, Accounted, [Next]_vars
  PROVE  Accounted'
<1>1. failures' \subseteq {"io_header", "torn"} => Tidy
  BY FailuresStay DEF Tidy
<1>2. CASE Call \/ CopyBytes \/ ReturnUnit \/ KeepInput \/ EndsWell \/ EndsTorn \/ UNCHANGED vars
  <2>1. UNCHANGED <<file, header, position, input, inflater, pending, produced, blocks>>
    BY <1>2 DEF Call, CopyBytes, ReturnUnit, KeepInput, EndsWell, EndsTorn, vars, readVars, inflateVars
  <2> QED
    BY <1>1, <2>1, SameAccounted
<1>3. CASE TopUpPastFile \/ TopUpCut \/ TopUpFails \/ CountDiffers
  <2>1. failures' \cap {"corrupt", "cut", "io"} # {}
    BY <1>3 DEF TopUpPastFile, TopUpCut, TopUpFails, CountDiffers, Fail
  <2> QED
    BY <2>1 DEF Accounted, Tidy
<1>4. CASE Open
  <2>1. Fresh
    BY <1>4 DEF Open, BlocksInv, Placed
  <2>2. /\ position' = HeaderLen /\ input' = << >> /\ inflater' = "sound"
        /\ pending' = 0 /\ produced' = 0 /\ blocks' = 0 /\ file' = file
    BY <1>4, <2>1, Lengths DEF Open, Fresh, inflateVars, Start
  <2>3. Consumed' = 0 /\ position' - HeaderLen = 0
    <3>1. Len(input') = 0
      BY <2>2
    <3>2. position' = HeaderLen /\ HeaderLen \in Nat
      BY <2>2, Lengths
    <3>3. Consumed' = position' - HeaderLen - Len(input')
      BY DEF Consumed
    <3> QED
      BY <3>1, <3>2, <3>3
  <2>4. SubSeq(file.contents, 0 + 1, 0) = << >> /\ SubSeq(file.contents, 1, 0) = << >>
    BY SubSeqEmpty
  <2>5. EndsIn(0) = {}
    BY DEF EndsIn
  <2>6. EndsIn(Consumed)' = {}
    BY <2>2, <2>3, <2>5 DEF EndsIn
  <2>7. input' = SubSeq(file.contents, Consumed' + 1, position' - HeaderLen)
    BY <2>2, <2>3, <2>4
  <2>8. produced' + pending' = Yields(SubSeq(file.contents, 1, Consumed'))
    <3>1. produced' + pending' = 0
      BY <2>2
    <3>2. Yields(SubSeq(file.contents, 1, Consumed')) = 0
      BY <2>3, <2>4, YieldsEmpty
    <3> QED
      BY <3>1, <3>2
  <2>9. blocks' = Cardinality(EndsIn(Consumed)')
    BY <2>2, <2>6, FS_EmptySet
  <2>10. inflater' = "sound" /\ Consumed' >= 0 /\ file' = file
    BY <2>2, <2>3
  <2> QED
    BY <2>7, <2>8, <2>9, <2>10 DEF Accounted
<1>5. CASE OpenRefuses \/ OpenFails
  <2>1. header' # "read"
    BY <1>5 DEF OpenRefuses, OpenFails
  <2> QED
    BY <2>1 DEF Accounted
<1>6. CASE TopUp \/ InflateStep
  BY <1>6, TopUpAccounted, InflateAccounted
<1> QED
  BY <1>2, <1>3, <1>4, <1>5, <1>6 DEF Next, Steps, OpenStep, RefillStep, EndStep

-----------------------------------------------------------------------------------
(* The end, and what never comes to it *)

(* Once the last block has ended, the calls only hand out what is left. *)
LEMMA FinishedStays ==
  ASSUME BlocksInv, finished, [Next]_vars
  PROVE  /\ UNCHANGED <<file, header, cursor, position, input, inflater, pending, produced, blocks, finished>>
         /\ Call \/ CopyBytes \/ ReturnUnit \/ EndStep \/ UNCHANGED vars
<1>1. pc # "inflating"
  BY DEF BlocksInv, InTheCall
<1>2. Call \/ CopyBytes \/ ReturnUnit \/ EndStep \/ UNCHANGED vars
  BY <1>1 DEF Next, Steps, OpenStep, RefillStep, InflateStep, Open, OpenRefuses, OpenFails, Advancing,
              KeepInput, TopUp, TopUpPastFile, TopUpCut, TopUpFails, InflateData, InflateEnd, InflateBad,
              InflateFiller, InflateAstray, InflateDead
<1>3. UNCHANGED <<file, header, cursor, position, input, inflater, pending, produced, blocks, finished>>
  BY <1>2 DEF Call, CopyBytes, ReturnUnit, EndStep, EndsWell, EndsTorn, CountDiffers, EndStays, vars, readVars,
              inflateVars
<1> QED
  BY <1>2, <1>3

LEMMA StepKeepsTrailer ==
  ASSUME BlocksInv, AtTheTrailer, [Next]_vars
  PROVE  AtTheTrailer'
<1>1. CASE finished
  BY <1>1, FinishedStays DEF AtTheTrailer
<1>2. CASE ~finished /\ InflateEnd
  <2>1. header = "read" /\ UNCHANGED <<file, header, position>>
    BY <1>2 DEF InflateEnd, readVars, BlocksInv, InTheCall
  <2>2. pending' = 0 /\ (finished' => input' = << >> /\ ~(file.trailer > position))
    BY <1>2 DEF InflateEnd, EndBlock
  <2>3. file.trailer \in Int /\ position \in Nat
    BY FileTyped DEF BlocksInv, TypeOK
  <2> QED
    BY <2>1, <2>2, <2>3 DEF AtTheTrailer
<1>3. CASE ~finished /\ ~InflateEnd
  <2>1. ~finished'
    BY <1>3 DEF Next, Steps, OpenStep, RefillStep, InflateStep, EndStep, Call, CopyBytes, ReturnUnit, Open,
         OpenRefuses, OpenFails, KeepInput, TopUp, TopUpPastFile, TopUpCut, TopUpFails, InflateData,
         InflateBad, InflateFiller, InflateAstray, InflateDead, EndsWell, EndsTorn,
         CountDiffers, Refill, vars, inflateVars
  <2> QED
    BY <2>1 DEF AtTheTrailer
<1> QED
  BY <1>1, <1>2, <1>3

LEMMA StepKeepsTheEnd ==
  ASSUME BlocksInv, AtTheTrailer, AfterTheEnd, [Next]_vars
  PROVE  AfterTheEnd'
<1>1. CASE ~finished
  <2>1. answer \notin {"none", "torn"}
    BY <1>1 DEF AfterTheEnd
  <2>2. answer' \notin {"none", "torn"}
    BY <1>1, <2>1 DEF Next, Steps, OpenStep, RefillStep, InflateStep, EndStep, Call, CopyBytes, ReturnUnit, Open,
         OpenRefuses, OpenFails, KeepInput, TopUp, TopUpPastFile, TopUpCut, TopUpFails, InflateData,
         InflateEnd, InflateBad, InflateFiller, InflateAstray, InflateDead, EndsWell, EndsTorn,
         CountDiffers, GoOn, Fail, vars, callVars
  <2> QED
    BY <2>2 DEF AfterTheEnd
<1>2. CASE finished
  <2>1. header = "read" /\ UNCHANGED <<file, header, blocks, finished>>
    BY <1>2, FinishedStays DEF AtTheTrailer
  <2>2. CountAgrees' <=> CountAgrees
    BY <2>1 DEF CountAgrees, BlockCount
  <2>3. CASE EndsWell \/ EndsTorn
    <3>1. CountAgrees /\ output' = << >> /\ unit' = << >>
      BY <2>3 DEF EndsWell, EndsTorn, Starved, Fail, inflateVars
    <3> QED
      BY <1>2, <2>1, <2>2, <3>1 DEF AfterTheEnd
  <2>4. CASE CountDiffers
    BY <2>4 DEF CountDiffers, Fail, AfterTheEnd
  <2>5. CASE ReturnUnit
    BY <2>5 DEF ReturnUnit, AfterTheEnd
  <2>6. CASE CopyBytes
    <3>1. output # << >> /\ answer' = answer
      BY <2>6 DEF CopyBytes
    <3> QED
      BY <3>1 DEF AfterTheEnd
  <2>7. CASE Call \/ UNCHANGED vars
    <3>1. output' = output /\ answer' = answer /\ (unit' = << >> \/ unit' = unit)
      BY <2>7 DEF Call, vars, callVars, inflateVars
    <3> QED
      BY <2>1, <2>2, <3>1 DEF AfterTheEnd
  <2> QED
    BY <1>2, <2>3, <2>4, <2>5, <2>6, <2>7, FinishedStays DEF EndStep
<1> QED
  BY <1>1, <1>2

(* Fillers stand at the end of the input. *)
LastIsFiller(symbols) == symbols # << >> /\ symbols[Len(symbols)] = Filler

LEMMA FillersAreLast ==
  ASSUME TypeOK, HeaderLen <= cursor, NEW read \in Nat, read <= LeftInFile, NEW missing \in Nat, missing > 0
  PROVE  LastIsFiller(Ahead(read) \o Fillers(missing))
<1> DEFINE front == Ahead(read)
           back  == Fillers(missing)
           both  == front \o back
<1>1. front \in Seq(Symbol) /\ Len(front) = read
  BY AheadTyped
<1>2. back \in Seq({Filler}) /\ Len(back) = missing /\ \A i \in 1..missing: back[i] = Filler
  BY FillersTyped
<1> HIDE DEF front, back
<1>3. front \in Seq(Symbol \cup {Filler})
  BY <1>1
<1>4. back \in Seq(Symbol \cup {Filler})
  BY <1>2
<1>5. both \in Seq(Symbol \cup {Filler})
  BY <1>3, <1>4, ConcatProperties
<1>6. Len(both) = Len(front) + Len(back)
  BY <1>3, <1>4, ConcatProperties
<1>7. Len(both) = read + missing /\ read + missing > 0
  BY <1>1, <1>2, <1>6
<1>8. both[read + missing] = back[missing]
  <2>1. /\ read + missing \in 1..(Len(front) + Len(back)) /\ ~(read + missing <= Len(front))
        /\ (read + missing) - Len(front) = missing
    BY <1>1, <1>2
  <2> QED
    BY <1>3, <1>4, <2>1, ConcatProperties
<1>9. back[missing] = Filler
  BY <1>2
<1> HIDE DEF both
<1>10. both # << >>
  BY <1>5, <1>7, EmptySeq
<1> QED
  BY <1>7, <1>8, <1>9, <1>10 DEF LastIsFiller, both, front, back

LEMMA FillersStayLast ==
  ASSUME TypeOK, LastIsFiller(input), NEW n \in 0..Len(input), n < Len(input)
  PROVE  LastIsFiller(Dropped(n))
<1>1. Len(input) \in Nat /\ n \in Nat
  BY DEF TypeOK
<1>2. /\ Dropped(n) \in Seq(Symbol \cup {Filler}) /\ Len(Dropped(n)) = Len(input) - n
      /\ \A i \in 1..(Len(input) - n): Dropped(n)[i] = input[n + i]
  BY DroppedTyped
<1>3. Len(input) - n \in 1..(Len(input) - n) /\ n + (Len(input) - n) = Len(input) /\ Len(input) - n > 0
  BY <1>1
<1>4. Dropped(n)[Len(input) - n] = Filler
  BY <1>2, <1>3 DEF LastIsFiller
<1>5. Dropped(n) # << >>
  <2> DEFINE d == Dropped(n)
  <2>1. d \in Seq(Symbol \cup {Filler}) /\ Len(d) > 0
    BY <1>2, <1>3
  <2> HIDE DEF d
  <2>2. d # << >>
    BY <2>1, EmptySeq
  <2> QED
    BY <2>2 DEF d
<1> QED
  BY <1>2, <1>4, <1>5 DEF LastIsFiller

(* The ways in which a section that has a header and is not finished never ends well. *)
Stranded ==
  \/ inflater # "sound"
  \/ LastIsFiller(input)
  \/ input = << >> /\ position < file.trailer /\ LeftInFile = 0
  \/ input = << >> /\ pending = 0 /\ position >= file.trailer

LEMMA DoomedIs ==
  Doomed <=> \/ header = "lost"
             \/ finished /\ ~CountAgrees
             \/ header = "read" /\ ~finished /\ Stranded
BY DEF Doomed, Stranded, LastIsFiller

LEMMA NextDoomedIs ==
  Doomed' <=> \/ (header = "lost")'
              \/ (finished /\ ~CountAgrees)'
              \/ (header = "read" /\ ~finished /\ Stranded)'
BY DEF Doomed, Stranded, LastIsFiller

LEMMA RefillStrands ==
  ASSUME BlocksInv, RefillStep, Stranded \/ TopUpPastFile \/ TopUpCut \/ TopUpFails
  PROVE  Stranded'
<1>1. /\ TypeOK /\ Placed /\ InTheCall /\ Advancing /\ HeaderLen <= cursor
      /\ UNCHANGED <<file, header, inflater, pending>>
  <2>1. Advancing /\ UNCHANGED <<file, header, inflater, pending>>
    BY DEF RefillStep, KeepInput, TopUp, TopUpPastFile, TopUpCut, TopUpFails, Refill, readVars, inflateVars
  <2> QED
    BY <2>1, Lengths DEF BlocksInv, Placed, Advancing, TypeOK
<1>2. /\ Take \in Nat /\ LeftInFile \in Int /\ cursor \in Nat /\ position \in Nat /\ file.trailer \in Int
      /\ Take = 0 => file.trailer <= position
      /\ Take > 0 => position + Take <= file.trailer
      /\ LeftInFile >= 0
  BY <1>1, Lengths, TakeTyped, FileTyped DEF LeftInFile, TypeOK, Placed, Advancing
<1>3. CASE inflater # "sound"
  BY <1>1, <1>3 DEF Stranded
<1>4. CASE KeepInput
  <2>1. Stranded /\ UNCHANGED <<file, cursor, position, input, inflater, pending>>
    BY <1>4 DEF KeepInput, TopUpPastFile, TopUpCut, TopUpFails, readVars, inflateVars
  <2> QED
    BY <2>1 DEF Stranded, LastIsFiller, LeftInFile
<1>5. CASE TopUpPastFile
  <2>1. input' = << >> /\ cursor' = cursor + 0 /\ position' = position + 0 /\ Take > 0 /\ LeftInFile = 0
    BY <1>5 DEF TopUpPastFile, Refill
  <2>2. cursor' = cursor /\ position' = position /\ position < file.trailer
    BY <1>2, <2>1
  <2>3. LeftInFile' = 0
    BY <1>1, <2>1, <2>2 DEF LeftInFile
  <2> QED
    BY <1>1, <2>1, <2>2, <2>3 DEF Stranded
<1>6. CASE TopUpCut
  <2> DEFINE read == LeftInFile
             missing == Take - LeftInFile
  <2>1. /\ input' = Ahead(read) \o Fillers(missing)
        /\ read \in Nat /\ read <= LeftInFile /\ missing \in Nat /\ missing > 0
    BY <1>2, <1>6 DEF TopUpCut
  <2> HIDE DEF read, missing
  <2>2. LastIsFiller(Ahead(read) \o Fillers(missing))
    BY <1>1, <2>1, FillersAreLast
  <2> QED
    BY <2>1, <2>2 DEF Stranded, LastIsFiller
<1>7. CASE TopUpFails
  <2>1. PICK read \in 0..(Take - 1): read <= LeftInFile /\ input' = Ahead(read) \o Fillers(Take - read)
    BY <1>7 DEF TopUpFails
  <2> DEFINE missing == Take - read
  <2>2. /\ input' = Ahead(read) \o Fillers(missing)
        /\ read \in Nat /\ read <= LeftInFile /\ missing \in Nat /\ missing > 0
    BY <1>2, <2>1
  <2> HIDE DEF missing
  <2>3. LastIsFiller(Ahead(read) \o Fillers(missing))
    BY <1>1, <2>2, FillersAreLast
  <2> QED
    BY <2>2, <2>3 DEF Stranded, LastIsFiller
<1>8. CASE TopUp /\ Stranded /\ inflater = "sound"
  <2>1. /\ input = << >> /\ Take <= LeftInFile /\ input' = Ahead(Take)
        /\ cursor' = cursor + Take /\ position' = position + Take
    BY <1>8 DEF TopUp, Refill
  <2>2. ~LastIsFiller(input)
    BY <2>1 DEF LastIsFiller
  <2>3. pending = 0 /\ position >= file.trailer /\ Take = 0
    BY <1>2, <1>8, <2>1, <2>2 DEF Stranded
  <2>4. Ahead(0) = << >>
    <3>1. Ahead(0) \in Seq(Symbol) /\ Len(Ahead(0)) = 0
      BY <1>1, <1>2, AheadTyped
    <3> QED
      BY <3>1, EmptySeq
  <2>5. input' = << >> /\ pending' = 0 /\ position' >= file'.trailer
    BY <1>1, <1>2, <2>1, <2>3, <2>4
  <2> QED
    BY <2>5 DEF Stranded
<1> QED
  BY <1>3, <1>4, <1>5, <1>6, <1>7, <1>8 DEF RefillStep

LEMMA InflateStrands ==
  ASSUME BlocksInv, InflateStep, Stranded \/ Fail("corrupt")
  PROVE  Stranded' /\ ~finished'
<1>1. /\ TypeOK /\ ~finished /\ UNCHANGED <<file, header, cursor, position>>
      /\ input = << >> => position >= file.trailer
  BY InflateStays DEF BlocksInv, InTheCall
<1>2. Len(input) \in Nat /\ pending \in Nat /\ position \in Nat /\ file.trailer \in Int
  BY <1>1, FileTyped DEF TypeOK
<1>3. CASE InflateBad \/ InflateFiller \/ InflateAstray \/ InflateDead
  <2>1. inflater' # "sound" /\ ~finished'
    BY <1>1, <1>3 DEF InflateBad, InflateFiller, InflateAstray, InflateDead
  <2> QED
    BY <2>1 DEF Stranded
<1>4. CASE InflateEnd
  <2>1. /\ inflater = "sound" /\ ~Fail("corrupt") /\ inflater' = inflater
    BY <1>4 DEF InflateEnd, GoOn, Fail
  <2>2. PICK n \in 0..Len(input): Reaches(n) /\ input[n + 1] = "end" /\ EndBlock(Dropped(n + 1))
    BY <1>4 DEF InflateEnd
  <2>3. input # << >> /\ n < Len(input)
    BY <2>2 DEF Reaches
  <2>4. LastIsFiller(input)
    BY <1>1, <2>1, <2>3 DEF Stranded
  <2>5. n + 1 # Len(input)
    BY <2>2, <2>4 DEF LastIsFiller, Filler
  <2> DEFINE m == n + 1
  <2>6. m \in 0..Len(input) /\ m < Len(input)
    BY <1>2, <2>3, <2>5
  <2>7. EndBlock(Dropped(m))
    BY <2>2
  <2> HIDE DEF m
  <2>8. LastIsFiller(Dropped(m))
    BY <1>1, <2>4, <2>6, FillersStayLast
  <2>9. input' = Dropped(m) /\ ~finished'
    BY <2>7, <2>8 DEF EndBlock, LastIsFiller
  <2> QED
    BY <1>1, <2>8, <2>9 DEF Stranded, LastIsFiller
<1>5. CASE InflateData
  <2>1. inflater = "sound" /\ inflater' = inflater /\ ~finished'
    BY <1>1, <1>5 DEF InflateData
  <2>2. PICK n \in 0..Len(input):
          /\ Data(n)
          /\ n = 0 => input = << >> \/ pending >= WindowLen
          /\ pending' = Backlog(n) - Room(Backlog(n))
          /\ input' = Dropped(n)
          /\ Stuck(n, Room(Backlog(n))) \/ GoOn("filling")
    BY <1>5 DEF InflateData
  <2>3. Backlog(n) \in Nat /\ Room(Backlog(n)) \in Nat
    BY <1>1, <2>2, BacklogTyped, RoomBounds
  <2>4. CASE LastIsFiller(input)
    <3>1. n # Len(input)
      <4>1. Len(input) # 0
        BY <1>1, <2>4, EmptySeq DEF LastIsFiller, TypeOK
      <4>2. n = Len(input) => input[Len(input)] \in {"silent", "byte", "pair"}
        BY <1>2, <2>2, <4>1 DEF Data
      <4> QED
        BY <2>4, <4>2 DEF LastIsFiller, Filler
    <3>2. n < Len(input)
      BY <1>2, <3>1
    <3>3. LastIsFiller(Dropped(n))
      BY <1>1, <2>4, <3>2, FillersStayLast
    <3> QED
      BY <2>1, <2>2, <3>3 DEF Stranded, LastIsFiller
  <2>5. ASSUME input = << >>, pending = 0
        PROVE  Stranded'
    <3>1. n = 0 /\ Len(input) = 0
      BY <2>2, <2>5
    <3>2. SubSeq(input, 1, 0) = << >>
      BY SubSeqEmpty
    <3>3. Backlog(0) = 0
      <4>1. Yields(SubSeq(input, 1, 0)) = 0
        BY <3>2, YieldsEmpty
      <4> QED
        BY <2>5, <4>1 DEF Backlog
    <3>4. Room(0) = 0
      BY Lengths DEF Room, Least
    <3>5. Dropped(0) = << >>
      <4>1. SubSeq(input, 0 + 1, 0) = << >>
        BY SubSeqEmpty
      <4> QED
        BY <3>1, <4>1 DEF Dropped
    <3>6. input' = << >> /\ pending' = 0
      BY <2>2, <3>1, <3>3, <3>4, <3>5
    <3>7. position' >= file'.trailer
      BY <1>1, <2>5
    <3> QED
      BY <3>6, <3>7 DEF Stranded
  <2>6. CASE ~LastIsFiller(input) /\ Stranded
    <3>1. input = << >> /\ pending = 0
      BY <1>1, <1>2, <2>1, <2>6 DEF Stranded
    <3> QED
      BY <2>1, <2>5, <3>1
  <2>7. CASE Fail("corrupt")
    <3>1. Stuck(n, Room(Backlog(n)))
      BY <2>2, <2>7 DEF GoOn, Fail
    <3>2. n = 0 /\ Room(Backlog(n)) = 0
      BY <3>1 DEF Stuck
    <3>3. Backlog(n) = 0
      BY <2>3, <3>2, Lengths DEF Room, Least
    <3>4. Backlog(n) = pending + Yields(SubSeq(input, 1, n)) /\ Yields(SubSeq(input, 1, n)) \in Nat
      BY <1>1, <2>2, BacklogTyped
    <3>5. pending = 0
      BY <1>2, <3>3, <3>4
    <3>6. input = << >>
      BY <2>2, <3>2, <3>5, Lengths
    <3> QED
      BY <2>1, <2>5, <3>5, <3>6
  <2> QED
    BY <2>1, <2>4, <2>6, <2>7
<1> QED
  BY <1>3, <1>4, <1>5 DEF InflateStep

(* Doomed once, doomed for good; and whatever fails but the reading of the header, or the *)
(* last unit, dooms the section.                                                            *)
LEMMA StepKeepsDoomed ==
  ASSUME BlocksInv, [Next]_vars, ~Tidy => Doomed, ~Tidy'
  PROVE  Doomed'
<1>1. CASE finished
  <2>1. /\ UNCHANGED <<file, header, input, blocks, finished>>
        /\ Call \/ CopyBytes \/ ReturnUnit \/ EndStep \/ UNCHANGED vars
    BY <1>1, FinishedStays
  <2>2. ~CountAgrees \/ header = "lost"
    <3>1. CASE Tidy
      <4>1. CountDiffers
        BY <2>1, <3>1 DEF Tidy, Call, CopyBytes, ReturnUnit, EndStep, EndsWell, EndsTorn, Fail, vars, callVars
      <4> QED
        BY <4>1 DEF CountDiffers
    <3>2. CASE Doomed
      BY <1>1, <3>2 DEF Doomed
    <3> QED
      BY <3>1, <3>2
  <2> QED
    BY <1>1, <2>1, <2>2 DEF Doomed, CountAgrees, BlockCount
<1>2. CASE ~finished /\ header # "read"
  <2>1. Fresh
    BY <1>2 DEF BlocksInv, Placed
  <2>2. ~CopyBytes /\ ~ReturnUnit /\ ~RefillStep /\ ~InflateStep /\ ~EndStep
    <3>1. ~CopyBytes /\ ~RefillStep /\ ~InflateStep /\ ~EndStep
      BY <1>2, <2>1 DEF Fresh, CopyBytes, RefillStep, KeepInput, TopUp, TopUpPastFile, TopUpCut, TopUpFails,
         Advancing, InflateStep, InflateData, InflateEnd, InflateBad, InflateFiller, InflateAstray, InflateDead,
         EndStep, EndsWell, EndsTorn, CountDiffers
    <3>2. ~ReturnUnit
      BY <2>1, Lengths, EmptySeq DEF Fresh, ReturnUnit
    <3> QED
      BY <3>1, <3>2
  <2>3. CASE Call \/ UNCHANGED vars
    <3>1. UNCHANGED <<header, failures>>
      BY <2>3 DEF Call, vars, callVars, readVars
    <3>2. ~Tidy
      BY <3>1 DEF Tidy
    <3>3. header = "lost"
      BY <1>2, <3>2 DEF Doomed
    <3> QED
      BY <3>1, <3>3 DEF Doomed
  <2>4. CASE Open
    <3>1. header = "unread" /\ failures' = failures
      BY <2>4 DEF Open, GoOn
    <3>2. ~Doomed /\ ~Tidy
      BY <1>2, <3>1 DEF Doomed, Tidy
    <3> QED
      BY <3>2
  <2>5. CASE OpenRefuses
    BY <2>5 DEF OpenRefuses, Doomed
  <2>6. CASE OpenFails
    <3>1. CASE header' = "lost"
      BY <3>1 DEF Doomed
    <3>2. CASE header' # "lost"
      <4>1. header' = header /\ failures' = failures \cup {"io_header"}
        BY <2>6, <3>2 DEF OpenFails, Fail
      <4>2. ~Tidy
        BY <4>1 DEF Tidy
      <4>3. header = "lost"
        BY <1>2, <4>2 DEF Doomed
      <4> QED
        BY <3>2, <4>1, <4>3
    <3> QED
      BY <3>1, <3>2
  <2> QED
    BY <2>2, <2>3, <2>4, <2>5, <2>6 DEF Next, Steps, OpenStep
<1>3. CASE ~finished /\ header = "read"
  <2>1. ~Tidy => Stranded
    BY <1>3, DoomedIs
  <2>2. SUFFICES header' = "read" /\ ~finished' /\ Stranded'
    BY NextDoomedIs
  <2>3. CASE RefillStep
    <3>1. header' = "read" /\ ~finished'
      BY <1>3, <2>3 DEF RefillStep, KeepInput, TopUp, TopUpPastFile, TopUpCut, TopUpFails, Refill, readVars, inflateVars
    <3>2. Stranded \/ TopUpPastFile \/ TopUpCut \/ TopUpFails
      BY <2>1, <2>3 DEF Tidy, RefillStep, KeepInput, TopUp, GoOn
    <3> QED
      BY <2>3, <3>1, <3>2, RefillStrands
  <2>4. CASE InflateStep
    <3>1. header' = "read"
      BY <1>3, <2>4, InflateStays
    <3>2. Stranded \/ Fail("corrupt")
      <4>1. GoOn("filling") \/ Fail("corrupt")
        BY <2>4 DEF InflateStep, InflateData, InflateEnd, InflateBad, InflateFiller, InflateAstray, InflateDead
      <4> QED
        BY <2>1, <4>1 DEF GoOn, Tidy
    <3> QED
      BY <1>3, <2>4, <3>1, <3>2, InflateStrands
  <2>5. CASE Call \/ CopyBytes \/ ReturnUnit \/ UNCHANGED vars
    <3>1. UNCHANGED <<file, header, cursor, position, input, inflater, pending, finished, failures>>
      BY <2>5 DEF Call, CopyBytes, ReturnUnit, vars, callVars, readVars, inflateVars
    <3>2. Stranded
      BY <2>1, <3>1 DEF Tidy
    <3> QED
      BY <1>3, <3>1, <3>2 DEF Stranded, LastIsFiller, LeftInFile
  <2>6. ~OpenStep /\ ~EndStep
    BY <1>3 DEF OpenStep, Open, OpenRefuses, OpenFails, EndStep, EndsWell, EndsTorn, CountDiffers
  <2> QED
    BY <2>3, <2>4, <2>5, <2>6 DEF Next, Steps
<1> QED
  BY <1>1, <1>2, <1>3

LEMMA InitWhole == Init => WholeInv
BY DEF Init, WholeInv, Accounted, AtTheTrailer, AfterTheEnd, Tidy

LEMMA StepKeepsWhole == BlocksInv /\ WholeInv /\ [Next]_vars => WholeInv'
<1> SUFFICES ASSUME BlocksInv, WholeInv, [Next]_vars
             PROVE  WholeInv'
  OBVIOUS
<1>1. Accounted /\ AtTheTrailer /\ AfterTheEnd /\ (~Tidy => Doomed)
  BY DEF WholeInv
<1>2. Accounted'
  BY <1>1, StepKeepsAccounted
<1>3. AtTheTrailer'
  BY <1>1, StepKeepsTrailer
<1>4. AfterTheEnd'
  BY <1>1, StepKeepsTheEnd
<1>5. ~Tidy' => Doomed'
  BY <1>1, StepKeepsDoomed
<1> QED
  BY <1>2, <1>3, <1>4, <1>5 DEF WholeInv

LEMMA WholeAlways == Spec => [](BlocksInv /\ WholeInv)
<1>1. Init => BlocksInv /\ WholeInv
  BY InitBlocks, InitWhole
<1>2. (BlocksInv /\ WholeInv) /\ [Next]_vars => (BlocksInv /\ WholeInv)'
  BY StepKeepsBlocks, StepKeepsWhole
<1> QED
  BY <1>1, <1>2, PTL DEF Spec

(* When a call says that the section has ended, it has: the whole region was inflated, its   *)
(* blocks are as many as the trailer says, and no error but an unread header or a torn unit   *)
(* came before.  Errors and later calls cannot lead around the check, because each of them      *)
(* leaves something behind that no later call gets past.                                         *)
THEOREM ZlibWholeAtTheEnd == Spec => []WholeAtTheEnd
<1>1. BlocksInv /\ WholeInv => WholeAtTheEnd
  <2> SUFFICES ASSUME BlocksInv, WholeInv, answer = "none"
               PROVE  LET region == SubSeq(file.contents, 1, file.trailer - HeaderLen)
                      IN  /\ failures \subseteq {"io_header", "torn"}
                          /\ Len(file.contents) >= file.trailer - HeaderLen
                          /\ produced = Yields(region)
                          /\ Cardinality({i \in DOMAIN region: region[i] = "end"}) = BlockCount
    BY DEF WholeAtTheEnd
  <2>1. header = "read" /\ finished /\ CountAgrees
    BY DEF WholeInv, AfterTheEnd
  <2>2. ~Doomed
    BY <2>1 DEF Doomed
  <2>3. Tidy /\ Accounted
    BY <2>2 DEF WholeInv
  <2>4. position >= file.trailer /\ input = << >> /\ pending = 0
    BY <2>1 DEF WholeInv, AtTheTrailer
  <2>5. /\ position <= file.trailer /\ file.trailer \in Int /\ position \in Nat /\ produced \in Nat
        /\ file.contents \in Seq(Symbol) /\ Len(file.contents) \in Nat
    BY <2>1, FileTyped DEF BlocksInv, Placed, TypeOK
  <2>6. position = file.trailer /\ Len(input) = 0 /\ 0 \in 0..Len(input)
    BY <2>4, <2>5
  <2>7. /\ Consumed \in Nat /\ position - HeaderLen - Consumed = Len(input)
        /\ position - HeaderLen <= Len(file.contents)
        /\ produced + pending = Yields(SubSeq(file.contents, 1, Consumed))
        /\ blocks = Cardinality(EndsIn(Consumed))
    BY <2>1, <2>3, <2>6, AccountedFacts
  <2> DEFINE n == file.trailer - HeaderLen
             region == SubSeq(file.contents, 1, n)
  <2>8. Consumed = n /\ n \in Nat /\ n <= Len(file.contents)
    BY <2>5, <2>6, <2>7, Lengths DEF Consumed
  <2>9. produced = Yields(region)
    BY <2>4, <2>5, <2>7, <2>8
  <2>10. {i \in DOMAIN region: region[i] = "end"} = EndsIn(n)
    <3> DEFINE s == file.contents
    <3>1. s \in Seq(Symbol) /\ n \in Nat /\ n <= Len(s)
      BY <2>5, <2>8
    <3> HIDE DEF n, s
    <3>2. \A i \in 1..n: s[i] \in Symbol
      BY <3>1
    <3>3. SubSeq(s, 1, n) \in Seq(Symbol) /\ Len(SubSeq(s, 1, n)) = n /\ \A i \in 1..n: SubSeq(s, 1, n)[i] = s[i]
      BY <3>1, <3>2, SubSeqProperties
    <3>4. DOMAIN SubSeq(s, 1, n) = 1..n
      BY <3>3
    <3> QED
      BY <3>3, <3>4 DEF EndsIn, s
  <2>11. Cardinality({i \in DOMAIN region: region[i] = "end"}) = BlockCount
    BY <2>1, <2>7, <2>8, <2>10 DEF CountAgrees
  <2>12. failures \subseteq {"io_header", "torn"}
    BY <2>3 DEF Tidy
  <2> QED
    BY <2>8, <2>9, <2>11, <2>12
<1> QED
  BY <1>1, WholeAlways, PTL

-----------------------------------------------------------------------------------
(* How many units a section gives *)

Unread == IF header = "read" THEN LeftInFile ELSE Len(file.contents)

(* The bytes the input may still become; a dead inflater takes none of it. *)
Coming == IF inflater = "dead" THEN 0 ELSE 2 * Len(input)

(* A read can fail halfway once, and the file end in a chunk once. *)
FillersToCome ==
  (IF "io" \in failures THEN 0 ELSE 2 * ChunkLen) + (IF Unread = 0 THEN 0 ELSE 2 * ChunkLen)

Window  == Len(output) + pending + Coming
ToRead  == 2 * Unread + FillersToCome
Spent   == UnitLen * Len(taken)

BudgetInv == Spent + Len(unit) + Window + ToRead <= 2 * Len(file.contents) + 4 * ChunkLen

LEMMA UnreadTyped ==
  ASSUME BlocksInv
  PROVE  Unread \in Nat /\ FillersToCome \in Nat /\ ToRead \in Nat /\ 2 * Unread + FillersToCome = ToRead
<1>1. Unread \in Nat
  BY Lengths, FileTyped DEF BlocksInv, TypeOK, Placed, Unread, LeftInFile
<1>2. FillersToCome \in Nat
  BY Lengths DEF FillersToCome
<1> QED
  BY <1>1, <1>2 DEF ToRead

LEMMA WindowTyped ==
  ASSUME BlocksInv
  PROVE  /\ Len(output) \in Nat /\ pending \in Nat /\ Coming \in Nat /\ Len(input) \in Nat
         /\ Len(input) <= ChunkLen /\ Coming <= 2 * Len(input)
         /\ Window \in Nat /\ Len(unit) \in Nat /\ Window = Len(output) + pending + Coming
<1>1. Len(output) \in Nat /\ pending \in Nat /\ Len(unit) \in Nat
  BY DEF BlocksInv, TypeOK
<1>2. Len(input) \in Nat /\ Len(input) <= ChunkLen
  BY DEF BlocksInv, TypeOK
<1>3. Coming \in Nat /\ Coming <= 2 * Len(input)
  BY <1>2 DEF Coming
<1> QED
  BY <1>1, <1>2, <1>3 DEF Window

LEMMA SpentTyped ==
  ASSUME BlocksInv
  PROVE  Spent \in Nat /\ Len(taken) \in Nat
BY Lengths DEF BlocksInv, TypeOK, Spent

SizesTyped ==
  /\ ToRead \in Nat /\ Window \in Nat /\ Spent \in Nat /\ Len(unit) \in Nat
  /\ Len(output) \in Nat /\ pending \in Nat /\ Coming \in Nat /\ FillersToCome \in Nat
  /\ Coming <= 2 * Len(input) /\ Len(input) \in Nat /\ Len(input) <= ChunkLen

LEMMA SizesAreTyped == BlocksInv => SizesTyped
BY UnreadTyped, WindowTyped, SpentTyped DEF SizesTyped

LEMMA NextSizesAreTyped == BlocksInv' => SizesTyped'
BY SizesAreTyped, PTL

LEMMA BudgetTyped ==
  ASSUME NEW n \in Nat, NEW c \in Nat
  PROVE  2 * n + 4 * c \in Nat
OBVIOUS

LEMMA InitBudget == Init => BudgetInv
<1> SUFFICES ASSUME Init PROVE BudgetInv
  OBVIOUS
<1>1. Len(file.contents) \in Nat
  BY InitBlocks, FileTyped DEF BlocksInv
<1>2. Spent = 0 /\ Len(unit) = 0 /\ Window = 0
  BY Lengths DEF Init, Spent, Window, Coming
<1>3. ToRead <= 2 * Len(file.contents) + 4 * ChunkLen
  BY <1>1, Lengths DEF Init, ToRead, Unread, FillersToCome
<1>4. ToRead \in Nat
  BY InitBlocks, UnreadTyped
<1> QED
  BY <1>1, <1>2, <1>3, <1>4 DEF BudgetInv

(* A failing read of the header or end of the section leaves all that is to come as it is. *)
LEMMA NothingRead ==
  ASSUME BlocksInv, failures' \cap {"io"} = failures \cap {"io"},
         \/ UNCHANGED <<file, header, cursor>>
         \/ UNCHANGED <<file, cursor>> /\ header # "read" /\ header' # "read"
         \/ Open
  PROVE  ToRead' = ToRead
<1>1. file' = file
  BY DEF Open
<1>2. Unread' = Unread
  <2>1. CASE UNCHANGED <<file, header, cursor>> \/ (header # "read" /\ header' # "read")
    BY <1>1, <2>1 DEF Unread, LeftInFile
  <2>2. CASE Open
    <3>1. header = "unread" /\ header' = "read" /\ cursor' = cursor + HeaderLen
      BY <2>2 DEF Open
    <3>2. cursor = 0
      BY <3>1 DEF BlocksInv, Placed, Fresh, Start
    <3> QED
      BY <1>1, <3>1, <3>2, Lengths, FileTyped DEF BlocksInv, Unread, LeftInFile
  <2> QED
    BY <2>1, <2>2
<1>3. "io" \in failures' <=> "io" \in failures
  OBVIOUS
<1>4. FillersToCome' = FillersToCome
  BY <1>2, <1>3 DEF FillersToCome
<1> QED
  BY <1>2, <1>4 DEF ToRead

(* The sums behind it, over numbers: what is read moves into the input, and what is inflated *)
(* into the window.                                                                             *)
LEMMA ReadingSpends ==
  ASSUME NEW left \in Nat, NEW read \in Nat, NEW size \in Nat, NEW chunk \in Nat, NEW coming \in Nat,
         NEW before \in Nat, NEW after \in Nat, NEW window \in Nat,
         read <= left, size <= chunk, coming <= 2 * size,
         (size = read /\ after <= before) \/ after + 2 * chunk <= before
  PROVE  (window + coming) + (2 * (left - read) + after) <= window + (2 * left + before)
<1>1. CASE size = read /\ after <= before
  BY <1>1
<1>2. CASE after + 2 * chunk <= before
  BY <1>2
<1> QED
  BY <1>1, <1>2

LEMMA SmallerWindow ==
  ASSUME NEW held \in Nat, NEW coming \in Nat, NEW coming1 \in Nat, coming1 <= coming
  PROVE  held + coming1 <= held + coming
OBVIOUS

LEMMA FillerFits ==
  ASSUME NEW held \in Nat, NEW n \in Nat, NEW m, m = n + 1, NEW backlog \in Nat, NEW extra \in 0..1,
         backlog <= held + 2 * n
  PROVE  backlog + extra <= held + 2 * m
OBVIOUS

LEMMA InflatingSpends ==
  ASSUME NEW held \in Nat, NEW symbols \in Nat, NEW taken1 \in Nat, NEW output1 \in Nat,
         NEW held1 \in Nat, NEW coming1 \in Nat, taken1 <= symbols,
         coming1 <= 2 * (symbols - taken1), output1 + held1 <= held + 2 * taken1
  PROVE  output1 + held1 + coming1 <= held + 2 * symbols
OBVIOUS

LEMMA TopUpBudget ==
  ASSUME BlocksInv, BlocksInv', TopUp \/ TopUpPastFile \/ TopUpCut \/ TopUpFails
  PROVE  Window' + ToRead' <= Window + ToRead
<1>1. /\ TypeOK /\ header = "read" /\ header' = "read" /\ input = << >> /\ HeaderLen <= cursor
      /\ UNCHANGED <<file, inflater, pending, output>>
  <2>1. Advancing /\ input = << >> /\ UNCHANGED <<file, header, inflater, pending, output>>
    BY DEF TopUp, TopUpPastFile, TopUpCut, TopUpFails, Refill
  <2> QED
    BY <2>1, Lengths DEF BlocksInv, Placed, Advancing, TypeOK
<1>2. /\ LeftInFile \in Nat /\ Unread = LeftInFile /\ Unread' = LeftInFile' /\ cursor \in Nat
      /\ Take \in Nat /\ Take <= ChunkLen
  <2>1. Unread = LeftInFile /\ Unread' = LeftInFile'
    BY <1>1 DEF Unread
  <2> QED
    BY <1>1, <2>1, UnreadTyped, TakeTyped DEF TypeOK
<1>3. /\ Len(input) = 0 /\ Coming = 0 /\ Window = Len(output) + pending + Coming
      /\ Len(output) \in Nat /\ pending \in Nat
  <2>1. Len(input) = 0
    BY <1>1
  <2> QED
    BY <2>1, WindowTyped DEF Coming
<1>4. Window' = Len(output) + pending + Coming'
  BY <1>1 DEF Window
<1>5. ToRead = 2 * LeftInFile + FillersToCome /\ FillersToCome \in Nat
  BY <1>2, UnreadTyped
<1>6. PICK read \in Nat, size \in Nat:
        /\ read <= LeftInFile /\ cursor' = cursor + read /\ size <= ChunkLen
        /\ Coming' <= 2 * size /\ Coming' \in Nat
        /\ FillersToCome' \in Nat
        /\ \/ size = read /\ FillersToCome' <= FillersToCome
           \/ FillersToCome' + 2 * ChunkLen <= FillersToCome
  <2>1. ASSUME NEW n \in Nat, n <= LeftInFile
        PROVE  Ahead(n) \in Seq(Symbol) /\ Len(Ahead(n)) = n
    BY <1>1, <2>1, AheadTyped
  <2>2. ASSUME NEW n \in Nat, cursor' = cursor + n
        PROVE  LeftInFile' = LeftInFile - n
    BY <1>1, <1>2, <2>2, Lengths, FileTyped DEF LeftInFile
  <2>3. Coming' \in Nat /\ Coming' <= 2 * Len(input') /\ Len(input') \in Nat /\ Len(input') <= ChunkLen
    BY NextSizesAreTyped DEF SizesTyped
  <2>4. FillersToCome' \in Nat
    BY NextSizesAreTyped DEF SizesTyped
  <2>5. CASE TopUp
    <3> DEFINE n == Take
    <3>1. n \in Nat /\ n <= LeftInFile /\ cursor' = cursor + n /\ input' = Ahead(n) /\ failures' = failures
      BY <1>2, <2>5 DEF TopUp, Refill, GoOn
    <3>2. n <= ChunkLen
      BY <1>2
    <3> HIDE DEF n
    <3>3. Len(input') = n
      BY <2>1, <3>1
    <3>4. Unread' = Unread - n
      BY <1>2, <2>2, <3>1
    <3>5. FillersToCome' <= FillersToCome
      BY <1>2, <3>1, <3>4, Lengths DEF FillersToCome
    <3> QED
      BY <2>3, <2>4, <3>1, <3>2, <3>3, <3>5
  <2>6. CASE TopUpPastFile
    <3>1. cursor' = cursor + 0 /\ input' = << >> /\ ("io" \in failures' <=> "io" \in failures)
      BY <2>6 DEF TopUpPastFile, Refill, Fail
    <3>2. Unread' = Unread
      BY <1>2, <2>2, <3>1
    <3>3. FillersToCome' = FillersToCome
      BY <3>1, <3>2 DEF FillersToCome
    <3>4. Len(input') = 0
      BY <3>1
    <3>5. 0 \in Nat /\ 0 <= LeftInFile /\ cursor' = cursor + 0 /\ 0 <= ChunkLen /\ Coming' <= 2 * 0
      BY <1>2, <2>3, <3>1, <3>4, Lengths
    <3>6. FillersToCome' <= FillersToCome
      BY <2>4, <3>3
    <3> QED
      BY <2>3, <2>4, <3>5, <3>6
  <2>7. CASE TopUpCut
    <3> DEFINE n == LeftInFile
    <3>1. n \in Nat /\ n > 0 /\ cursor' = cursor + n /\ ("io" \in failures' <=> "io" \in failures)
      BY <1>2, <2>7 DEF TopUpCut, Refill, Fail
    <3>2. Unread' = 0 /\ Unread # 0
      BY <1>2, <2>2, <3>1
    <3>3. FillersToCome' + 2 * ChunkLen <= FillersToCome
      BY <3>1, <3>2, Lengths DEF FillersToCome
    <3>4. n <= LeftInFile
      BY <3>1
    <3> HIDE DEF n
    <3> QED
      BY <2>3, <2>4, <3>1, <3>3, <3>4
  <2>8. CASE TopUpFails
    <3>1. PICK n \in Nat: n <= LeftInFile /\ cursor' = cursor + n
      BY <1>2, <2>8 DEF TopUpFails, Refill
    <3>2. "io" \notin failures /\ "io" \in failures'
      BY <2>8 DEF TopUpFails, Fail
    <3>3. Unread' = Unread - n
      BY <1>2, <2>2, <3>1
    <3>4. Unread = 0 => Unread' = 0
      BY <1>2, <3>1, <3>3
    <3>5. FillersToCome' + 2 * ChunkLen <= FillersToCome
      BY <3>2, <3>4, Lengths DEF FillersToCome
    <3> QED
      BY <2>3, <2>4, <3>1, <3>5
  <2> QED
    BY <2>5, <2>6, <2>7, <2>8
<1>7. LeftInFile' = LeftInFile - read
  BY <1>1, <1>2, <1>6, Lengths, FileTyped DEF LeftInFile
<1>8. ToRead' = 2 * (LeftInFile - read) + FillersToCome'
  BY <1>2, <1>7 DEF ToRead
<1>9. \/ size = read /\ FillersToCome' <= FillersToCome
      \/ FillersToCome' + 2 * ChunkLen <= FillersToCome
  BY <1>6
<1>10. Window = Len(output) + pending /\ Window' = (Len(output) + pending) + Coming'
  BY <1>3, <1>4
<1>11. Len(output) + pending \in Nat /\ ChunkLen \in Nat
  BY <1>3, Lengths
<1>12. (Window + Coming') + (2 * (LeftInFile - read) + FillersToCome') <= Window + (2 * LeftInFile + FillersToCome)
  BY <1>2, <1>5, <1>6, <1>9, <1>10, <1>11, ReadingSpends
<1> QED
  BY <1>5, <1>8, <1>10, <1>12

LEMMA InflateBudget ==
  ASSUME BlocksInv, BlocksInv', InflateStep
  PROVE  Window' <= Window
<1>1. TypeOK /\ output = << >>
  BY DEF BlocksInv, InTheCall, InflateStep, InflateData, InflateEnd, InflateBad, InflateFiller, InflateAstray, InflateDead
<1>2. /\ Len(output) = 0 /\ pending \in Nat /\ Len(input) \in Nat /\ Coming \in Nat
      /\ Window = Len(output) + pending + Coming
  BY <1>1, WindowTyped
<1>3. /\ Len(output') \in Nat /\ pending' \in Nat /\ Coming' \in Nat
      /\ Window' = Len(output') + pending' + Coming'
  BY NextSizesAreTyped DEF SizesTyped, Window
<1>4. ASSUME NEW n \in 0..Len(input), Data(n)
      PROVE  Backlog(n) \in Nat /\ Backlog(n) <= pending + 2 * n
  <2>1. /\ SubSeq(input, 1, n) \in Seq(Symbol) /\ Len(SubSeq(input, 1, n)) = n
        /\ Yields(SubSeq(input, 1, n)) \in Nat
        /\ Backlog(n) \in Nat /\ Backlog(n) = pending + Yields(SubSeq(input, 1, n))
    BY <1>1, <1>4, BacklogTyped
  <2>2. Yields(SubSeq(input, 1, n)) <= 2 * Len(SubSeq(input, 1, n))
    BY <2>1, YieldsBounded
  <2> QED
    BY <1>2, <2>1, <2>2
<1>5. ASSUME NEW n \in 0..Len(input), input' = Dropped(n)
      PROVE  Len(input') = Len(input) - n /\ Coming' <= 2 * (Len(input) - n)
  <2>1. Len(input') = Len(input) - n
    BY <1>1, <1>5, DroppedTyped
  <2> QED
    BY <1>2, <2>1 DEF Coming
<1>6. ASSUME NEW n \in Nat, NEW extra \in {<< >>, <<Garbage>>}, Emit(n, extra)
      PROVE  Len(output') = n + Len(extra) /\ Len(extra) \in 0..1
  <2>1. << >> \in Seq(Nat) /\ <<Garbage>> \in Seq(Nat) /\ Len(<< >>) = 0 /\ Len(<<Garbage>>) = 1
    BY DEF Garbage
  <2>2. extra \in Seq(Nat)
    BY <2>1
  <2>3. Bytes(n) \in Seq(Nat) /\ Len(Bytes(n)) = n
    BY <1>1, BytesTyped
  <2>4. Len(Bytes(n) \o extra) = Len(Bytes(n)) + Len(extra)
    BY <2>2, <2>3, ConcatProperties
  <2>5. Len(extra) \in 0..1
    BY <2>1
  <2> QED
    BY <1>6, <2>3, <2>4, <2>5 DEF Emit
<1>7. << >> \in {<< >>, <<Garbage>>} /\ Len(<< >>) = 0
  OBVIOUS
<1>8. CASE inflater # "dead"
  <2>1. Coming = 2 * Len(input)
    BY <1>8 DEF Coming
  <2>2. CASE InflateData
    <3>1. PICK n \in 0..Len(input):
            /\ Data(n) /\ Emit(Room(Backlog(n)), << >>)
            /\ pending' = Backlog(n) - Room(Backlog(n)) /\ input' = Dropped(n)
      BY <2>2 DEF InflateData
    <3> DEFINE emitted == Room(Backlog(n))
    <3>2. emitted \in Nat /\ Backlog(n) \in Nat /\ Backlog(n) <= pending + 2 * n
      BY <1>4, <3>1, RoomBounds
    <3>3. Len(output') = emitted + 0
      BY <1>6, <1>7, <3>1, <3>2
    <3>4. Coming' <= 2 * (Len(input) - n)
      BY <1>5, <3>1
    <3>5. pending' = Backlog(n) - emitted
      BY <3>1
    <3> HIDE DEF emitted
    <3>6. Len(output') + pending' = Backlog(n)
      BY <3>2, <3>3, <3>5
    <3>7. n \in Nat /\ Coming' + 2 * n <= 2 * Len(input)
      BY <1>2, <1>3, <3>4
    <3>8. Len(output') + pending' <= pending + 2 * n
      BY <3>2, <3>6
    <3>9. n <= Len(input)
      BY <1>2, <3>1
    <3>10. Len(output') + pending' + Coming' <= pending + 2 * Len(input)
      BY <1>2, <1>3, <3>4, <3>7, <3>8, <3>9, InflatingSpends
    <3> QED
      BY <1>2, <1>3, <2>1, <3>10
  <2>3. CASE InflateEnd \/ InflateFiller
    <3>1. PICK n \in 0..Len(input), extra \in {<< >>, <<Garbage>>}:
            Reaches(n) /\ Emit(Backlog(n), extra) /\ input' = Dropped(n + 1)
      BY <1>7, <2>3 DEF InflateEnd, InflateFiller, EndBlock
    <3> DEFINE m == n + 1
    <3>2. Backlog(n) \in Nat /\ Backlog(n) <= pending + 2 * n /\ m \in 0..Len(input) /\ n \in Nat
      BY <1>2, <1>4, <3>1 DEF Reaches
    <3>3. Len(output') = Backlog(n) + Len(extra) /\ Len(extra) \in 0..1
      BY <1>6, <3>1, <3>2
    <3>4. input' = Dropped(m) /\ m = n + 1
      BY <3>1
    <3> HIDE DEF m
    <3>5. Coming' <= 2 * (Len(input) - m)
      BY <1>5, <3>2, <3>4
    <3>6. pending' = 0
      BY <2>3 DEF InflateEnd, InflateFiller
    <3>7. m \in Nat /\ m <= Len(input) /\ Coming' <= 2 * (Len(input) - m)
      BY <1>2, <3>2, <3>5
    <3>8. Backlog(n) + Len(extra) <= pending + 2 * m
      BY <1>2, <3>2, <3>3, <3>4, FillerFits
    <3>9. Len(output') + pending' <= pending + 2 * m
      BY <1>3, <3>3, <3>6, <3>8
    <3>10. Len(output') + pending' + Coming' <= pending + 2 * Len(input)
      BY <1>2, <1>3, <3>7, <3>9, InflatingSpends
    <3> QED
      BY <1>2, <1>3, <2>1, <3>10
  <2>4. CASE InflateBad
    <3>1. PICK n \in 0..Len(input): Reaches(n) /\ Emit(Backlog(n), << >>)
      BY <2>4 DEF InflateBad
    <3>2. Backlog(n) \in Nat /\ Backlog(n) <= pending + 2 * n /\ n <= Len(input) /\ n \in Nat
      BY <1>2, <1>4, <3>1 DEF Reaches
    <3>3. Len(output') = Backlog(n) + 0
      BY <1>6, <1>7, <3>1, <3>2
    <3>4. pending' = 0 /\ Coming' = 0
      BY <2>4 DEF InflateBad, Coming
    <3> QED
      BY <1>2, <1>3, <2>1, <3>2, <3>3, <3>4
  <2>5. CASE InflateAstray
    <3>1. PICK n \in 1..Len(input): input' = Dropped(n)
      BY <2>5 DEF InflateAstray
    <3>2. PICK extra \in {<< >>, <<Garbage>>}: Emit(0, extra)
      BY <2>5 DEF InflateAstray
    <3>3. Len(output') = 0 + Len(extra) /\ Len(extra) \in 0..1
      BY <1>6, <3>2
    <3>4. Coming' <= 2 * (Len(input) - n) /\ n >= 1 /\ n \in Nat
      BY <1>5, <3>1
    <3>5. pending' = pending
      BY <2>5 DEF InflateAstray
    <3> DEFINE k == Len(input) - n
    <3>6. Len(output') <= 1 /\ k + 1 <= Len(input) /\ Coming' <= 2 * k /\ k \in Int
      BY <1>2, <3>3, <3>4
    <3> HIDE DEF k
    <3> QED
      BY <1>2, <1>3, <2>1, <3>5, <3>6
  <2>6. CASE InflateDead
    <3>1. Emit(0, << >>) /\ pending' = pending /\ input' = input
      BY <2>6 DEF InflateDead
    <3>2. Len(output') = 0 + 0
      BY <1>6, <1>7, <3>1
    <3>3. Coming' <= Coming
      BY <1>2, <2>1, <3>1 DEF Coming
    <3>4. Window' = pending + Coming' /\ Window = pending + Coming
      BY <1>2, <1>3, <3>1, <3>2
    <3>5. pending + Coming' <= pending + Coming
      BY <1>2, <1>3, <3>3, SmallerWindow
    <3> QED
      BY <3>4, <3>5
  <2> QED
    BY <2>2, <2>3, <2>4, <2>5, <2>6 DEF InflateStep
<1>9. CASE inflater = "dead"
  <2>1. InflateDead
    BY <1>9 DEF InflateStep, InflateData, InflateEnd, InflateBad, InflateFiller, InflateAstray
  <2>2. Emit(0, << >>) /\ pending' = pending /\ inflater' = "dead"
    BY <1>9, <2>1 DEF InflateDead
  <2>3. Len(output') = 0 + 0
    BY <1>6, <1>7, <2>2
  <2>4. Coming' = 0
    BY <2>2 DEF Coming
  <2>5. Window' = pending /\ Window = pending + Coming
    BY <1>2, <1>3, <2>2, <2>3, <2>4
  <2> QED
    BY <1>2, <2>5
<1> QED
  BY <1>8, <1>9

(* What a step may do to the sums: give away less than there was, or move some of it. *)
LEMMA BudgetFalls ==
  ASSUME NEW spent \in Nat, NEW inHand \in Nat, NEW window \in Nat, NEW toRead \in Nat,
         NEW inHand1 \in Nat, NEW window1 \in Nat, NEW toRead1 \in Nat,
         inHand1 <= inHand, window1 + toRead1 <= window + toRead
  PROVE  spent + inHand1 + window1 + toRead1 <= spent + inHand + window + toRead
OBVIOUS

LEMMA BudgetMoves ==
  ASSUME NEW spent \in Nat, NEW inHand \in Nat, NEW window \in Nat, NEW toRead \in Nat,
         NEW inHand1 \in Nat, NEW window1 \in Nat,
         inHand1 + window1 = inHand + window
  PROVE  spent + inHand1 + window1 + toRead <= spent + inHand + window + toRead
OBVIOUS

LEMMA BudgetSpent ==
  ASSUME NEW spent \in Nat, NEW inHand \in Nat, NEW window \in Nat, NEW toRead \in Nat
  PROVE  (spent + inHand) + 0 + window + toRead <= spent + inHand + window + toRead
OBVIOUS

LEMMA StaysWithin ==
  ASSUME NEW a \in Nat, NEW b \in Nat, NEW c \in Nat, a <= b, b <= c
  PROVE  a <= c
OBVIOUS

(* A unit only grows by what is in the window. *)
LEMMA OthersKeepUnits ==
  ASSUME BlocksInv, Call \/ OpenStep \/ RefillStep \/ InflateStep \/ EndStep \/ UNCHANGED vars
  PROVE  UNCHANGED <<file, taken>> /\ (unit' = unit \/ unit' = << >>)
<1>1. CASE Call \/ EndStep \/ UNCHANGED vars
  BY <1>1 DEF Call, EndStep, EndsWell, EndsTorn, CountDiffers, Fail, vars, callVars
<1>2. CASE OpenStep
  BY <1>2 DEF OpenStep, Open, OpenRefuses, OpenFails, GoOn, Fail
<1>3. CASE RefillStep
  BY <1>3 DEF RefillStep, KeepInput, TopUp, TopUpPastFile, TopUpCut, TopUpFails, Refill, GoOn, Fail
<1>4. CASE InflateStep
  BY <1>4 DEF InflateStep, InflateData, InflateEnd, InflateBad, InflateFiller, InflateAstray, InflateDead, GoOn, Fail
<1> QED
  BY <1>1, <1>2, <1>3, <1>4

LEMMA NothingInflated ==
  ASSUME UNCHANGED <<input, inflater, pending, output>>
  PROVE  Window' = Window
BY DEF Window, Coming

(* Looking at the header, at the input or at the end leaves all that is to come as it is. *)
LEMMA LookingKeepsBudget ==
  ASSUME BlocksInv, Call \/ OpenStep \/ KeepInput \/ EndStep \/ UNCHANGED vars
  PROVE  Window' = Window /\ ToRead' = ToRead
<1>1. UNCHANGED <<input, inflater, pending, output>>
  BY DEF Call, OpenStep, Open, OpenRefuses, OpenFails, KeepInput, EndStep, EndsWell, EndsTorn, CountDiffers,
         inflateVars, vars
<1>2. failures' \cap {"io"} = failures \cap {"io"}
  BY DEF Call, OpenStep, Open, OpenRefuses, OpenFails, KeepInput, EndStep, EndsWell, EndsTorn, CountDiffers,
         Fail, GoOn, vars, callVars
<1>3. \/ UNCHANGED <<file, header, cursor>>
      \/ UNCHANGED <<file, cursor>> /\ header # "read" /\ header' # "read"
      \/ Open
  BY DEF Call, OpenStep, OpenRefuses, OpenFails, KeepInput, EndStep, EndsWell, EndsTorn, CountDiffers,
         readVars, vars
<1> QED
  BY <1>1, <1>2, <1>3, NothingInflated, NothingRead

LEMMA InflatingReadsNothing ==
  ASSUME BlocksInv, InflateStep
  PROVE  ToRead' = ToRead
<1>1. UNCHANGED <<file, header, cursor>>
  BY DEF InflateStep, InflateData, InflateEnd, InflateBad, InflateFiller, InflateAstray, InflateDead, readVars
<1>2. failures' \cap {"io"} = failures \cap {"io"}
  BY DEF InflateStep, InflateData, InflateEnd, InflateBad, InflateFiller, InflateAstray, InflateDead, GoOn, Fail
<1> QED
  BY <1>1, <1>2, NothingRead

LEMMA CopyingMoves ==
  ASSUME BlocksInv, CopyBytes
  PROVE  /\ Len(unit') + Window' = Len(unit) + Window
         /\ Spent' = Spent /\ ToRead' = ToRead
<1> DEFINE take == Least(Len(output), UnitLen - Len(unit))
           head == SubSeq(output, 1, take)
<1>1. /\ output \in Seq(Nat) /\ Len(output) \in Nat
      /\ unit \in Seq(Nat) /\ Len(unit) \in Nat /\ Len(unit) < UnitLen
  BY DEF BlocksInv, TypeOK, CopyBytes
<1>2. take \in Nat /\ take <= Len(output)
  BY <1>1, Lengths DEF Least
<1>3. unit' = unit \o head /\ output' = LeftInWindow(take)
  BY DEF CopyBytes
<1> HIDE DEF take
<1>4. head \in Seq(Nat) /\ Len(head) = take
  BY <1>1, <1>2, SubSeqProperties
<1>5. Len(LeftInWindow(take)) = Len(output) - take
  <2>1. take + 1 \in Int /\ \A i \in (take + 1)..Len(output): output[i] \in Nat
    BY <1>1, <1>2
  <2> QED
    BY <1>1, <1>2, <2>1, SubSeqProperties DEF LeftInWindow
<1> HIDE DEF head
<1>6. Len(unit') = Len(unit) + take /\ Len(output') = Len(output) - take
  BY <1>1, <1>3, <1>4, <1>5, ConcatProperties
<1>7. Coming' = Coming /\ pending' = pending
  BY DEF CopyBytes, Coming
<1>8. Window = Len(output) + pending + Coming /\ Window' = Len(output') + pending + Coming
  BY <1>7 DEF Window
<1>9. Len(output) \in Nat /\ pending \in Nat /\ Coming \in Nat /\ Len(unit) \in Nat
  BY WindowTyped
<1>10. (Len(unit) + take) + ((Len(output) - take) + pending + Coming) = Len(unit) + (Len(output) + pending + Coming)
  BY <1>2, <1>9
<1>11. Len(unit') + Window' = Len(unit) + Window
  BY <1>6, <1>8, <1>10
<1>12. Spent' = Spent
  BY DEF CopyBytes, Spent
<1>13. UNCHANGED <<file, header, cursor, failures>>
  BY DEF CopyBytes, readVars
<1>14. ToRead' = ToRead
  BY <1>13, NothingRead
<1> QED
  BY <1>11, <1>12, <1>14

LEMMA ReturningSpends ==
  ASSUME BlocksInv, ReturnUnit
  PROVE  /\ Spent' = Spent + Len(unit) /\ Len(unit') = 0
         /\ Window' = Window /\ ToRead' = ToRead
<1>1. Len(unit') = 0 /\ Len(unit) = UnitLen /\ UNCHANGED <<input, inflater, pending, output>>
  BY DEF ReturnUnit, inflateVars
<1>2. UNCHANGED <<file, header, cursor, failures>>
  BY DEF ReturnUnit, readVars
<1>3. Window' = Window /\ ToRead' = ToRead
  BY <1>1, <1>2, NothingInflated, NothingRead
<1>4. taken \in Seq([1..UnitLen -> Nat]) /\ Len(taken) \in Nat
  BY DEF BlocksInv, TypeOK
<1>5. taken' = Append(taken, unit)
  BY DEF ReturnUnit
<1>6. Len(taken') = Len(taken) + 1
  BY <1>4, <1>5
<1>7. UnitLen * (Len(taken) + 1) = UnitLen * Len(taken) + UnitLen
  BY <1>4, Lengths
<1> QED
  BY <1>1, <1>3, <1>6, <1>7 DEF Spent

LEMMA StepKeepsBudget == BlocksInv /\ BudgetInv /\ [Next]_vars => BudgetInv'
<1> SUFFICES ASSUME BlocksInv, BudgetInv, [Next]_vars
             PROVE  BudgetInv'
  OBVIOUS
<1>1. SizesTyped
  BY SizesAreTyped
<1>2. BlocksInv'
  BY StepKeepsBlocks
<1>3. SizesTyped'
  BY <1>2, NextSizesAreTyped
<1> DEFINE budget == 2 * Len(file.contents) + 4 * ChunkLen
<1>4. file' = file
  BY OthersKeepUnits DEF Next, Steps, CopyBytes, ReturnUnit
<1>5. budget \in Nat
  <2>1. Len(file.contents) \in Nat
    BY FileTyped DEF BlocksInv
  <2> QED
    BY <2>1, Lengths, BudgetTyped
<1>6. \/ Spent' = Spent /\ Len(unit') <= Len(unit) /\ Window' + ToRead' <= Window + ToRead
      \/ Spent' = Spent /\ Len(unit') + Window' = Len(unit) + Window /\ ToRead' = ToRead
      \/ Spent' = Spent + Len(unit) /\ Len(unit') = 0 /\ Window' = Window /\ ToRead' = ToRead
  <2>1. CASE CopyBytes
    BY <2>1, CopyingMoves
  <2>2. CASE ReturnUnit
    BY <2>2, ReturningSpends
  <2>3. CASE Call \/ OpenStep \/ RefillStep \/ InflateStep \/ EndStep \/ UNCHANGED vars
    <3>1. UNCHANGED taken /\ (unit' = unit \/ unit' = << >>)
      BY <2>3, OthersKeepUnits
    <3>2. Spent' = Spent
      BY <3>1 DEF Spent
    <3>3. Len(unit') <= Len(unit)
      <4>1. Len(unit) \in Nat
        BY <1>1 DEF SizesTyped
      <4> QED
        BY <3>1, <4>1
    <3>4. Window' + ToRead' <= Window + ToRead
      <4>1. CASE Call \/ OpenStep \/ KeepInput \/ EndStep \/ UNCHANGED vars
        <5>1. Window' = Window /\ ToRead' = ToRead
          BY <4>1, LookingKeepsBudget
        <5>2. Window + ToRead <= Window + ToRead
          BY <1>1 DEF SizesTyped
        <5> QED
          BY <5>1, <5>2
      <4>2. CASE TopUp \/ TopUpPastFile \/ TopUpCut \/ TopUpFails
        BY <1>2, <4>2, TopUpBudget
      <4>3. CASE InflateStep
        <5>1. ToRead' = ToRead
          BY <4>3, InflatingReadsNothing
        <5>2. Window' <= Window
          BY <1>2, <4>3, InflateBudget
        <5>3. ToRead + Window' <= ToRead + Window
          BY <1>1, <1>3, <5>2, SmallerWindow DEF SizesTyped
        <5>4. ToRead + Window' = Window' + ToRead /\ ToRead + Window = Window + ToRead
          BY <1>1, <1>3 DEF SizesTyped
        <5> QED
          BY <5>1, <5>3, <5>4
      <4> QED
        BY <2>3, <4>1, <4>2, <4>3 DEF RefillStep
    <3> QED
      BY <3>2, <3>3, <3>4
  <2> QED
    BY <2>1, <2>2, <2>3 DEF Next, Steps
<1>7. budget' = budget
  BY <1>4
<1>8. Spent + Len(unit) + Window + ToRead <= budget
  BY DEF BudgetInv
<1> HIDE DEF budget
<1>9. Spent' + Len(unit') + Window' + ToRead' <= budget
  <2> DEFINE before == Spent + Len(unit) + Window + ToRead
             after  == Spent' + Len(unit') + Window' + ToRead'
  <2>1. Spent \in Nat /\ Len(unit) \in Nat /\ Window \in Nat /\ ToRead \in Nat
    BY <1>1 DEF SizesTyped
  <2>2. Spent' \in Nat /\ Len(unit') \in Nat /\ Window' \in Nat /\ ToRead' \in Nat
    BY <1>3 DEF SizesTyped
  <2>3. before \in Nat /\ after \in Nat
    BY <2>1, <2>2
  <2>4. after <= before
    <3>1. CASE Spent' = Spent /\ Len(unit') <= Len(unit) /\ Window' + ToRead' <= Window + ToRead
      <4>1. Spent + Len(unit') + Window' + ToRead' <= Spent + Len(unit) + Window + ToRead
        BY <2>1, <2>2, <3>1, BudgetFalls
      <4> QED
        BY <3>1, <4>1
    <3>2. CASE Spent' = Spent /\ Len(unit') + Window' = Len(unit) + Window /\ ToRead' = ToRead
      <4>1. Spent + Len(unit') + Window' + ToRead <= Spent + Len(unit) + Window + ToRead
        BY <2>1, <2>2, <3>2, BudgetMoves
      <4> QED
        BY <3>2, <4>1
    <3>3. CASE Spent' = Spent + Len(unit) /\ Len(unit') = 0 /\ Window' = Window /\ ToRead' = ToRead
      <4>1. (Spent + Len(unit)) + 0 + Window + ToRead <= Spent + Len(unit) + Window + ToRead
        BY <2>1, BudgetSpent
      <4> QED
        BY <3>3, <4>1
    <3> QED
      BY <1>6, <3>1, <3>2, <3>3
  <2>5. before <= budget
    BY <1>8
  <2> HIDE DEF before, after
  <2>6. after <= budget
    BY <1>5, <2>3, <2>4, <2>5, StaysWithin
  <2> QED
    BY <2>6 DEF after
<1>10. Spent' + Len(unit') + Window' + ToRead' <= budget'
  BY <1>7, <1>9
<1> QED
  BY <1>10 DEF BudgetInv, budget

LEMMA BudgetAlways == Spec => [](BlocksInv /\ WholeInv /\ BudgetInv)
<1>1. Init => BudgetInv
  BY InitBudget
<1>2. BlocksInv /\ BudgetInv /\ [Next]_vars => BudgetInv'
  BY StepKeepsBudget
<1> QED
  BY <1>1, <1>2, WholeAlways, PTL DEF Spec

LEMMA ProductsGrow ==
  ASSUME NEW u \in Nat, NEW a \in Nat, NEW b \in Nat, a <= b
  PROVE  u * a <= u * b
<1> DEFINE k == b - a
<1>1. k \in Nat /\ b = a + k
  OBVIOUS
<1> HIDE DEF k
<1>2. u * (a + k) = u * a + u * k
  BY <1>1
<1>3. u * a \in Nat /\ u * k \in Nat
  BY <1>1
<1> QED
  BY <1>1, <1>2, <1>3

(* There is no room for a unit more than MaxUnits. *)
LEMMA UnitsAreBounded ==
  ASSUME BlocksInv, BudgetInv, ReturnUnit
  PROVE  Len(taken) < MaxUnits
<1> DEFINE budget == 2 * Len(file.contents) + 4 * ChunkLen
           n == Len(taken)
           m == MaxUnits
<1>1. n \in Nat /\ m \in Nat
  BY MaxUnitsAssumption DEF BlocksInv, TypeOK
<1>2. budget < UnitLen * (m + 1)
  BY MaxUnitsAssumption DEF BlocksInv, TypeOK
<1>3. budget \in Nat
  <2>1. Len(file.contents) \in Nat
    BY FileTyped DEF BlocksInv
  <2> QED
    BY <2>1, Lengths, BudgetTyped
<1>4. Spent + Len(unit) <= budget
  <2>1. Spent \in Nat /\ Len(unit) \in Nat /\ Window \in Nat /\ ToRead \in Nat
    BY SizesAreTyped DEF SizesTyped
  <2>2. Spent + Len(unit) + Window + ToRead <= budget
    BY DEF BudgetInv
  <2> HIDE DEF budget
  <2> QED
    BY <1>3, <2>1, <2>2
<1>5. Len(unit) = UnitLen /\ Spent = UnitLen * n
  BY DEF ReturnUnit, Spent
<1> HIDE DEF budget, n, m
<1>6. UnitLen * (n + 1) = UnitLen * n + UnitLen
  BY <1>1, Lengths
<1>7. UnitLen * (n + 1) <= budget
  BY <1>4, <1>5, <1>6
<1>8. UnitLen * (n + 1) \in Nat /\ UnitLen * (m + 1) \in Nat
  BY <1>1, Lengths
<1>9. ~(m + 1 <= n + 1)
  <2> DEFINE mm == m + 1
             nn == n + 1
  <2>1. mm \in Nat /\ nn \in Nat
    BY <1>1
  <2>2. mm <= nn => UnitLen * mm <= UnitLen * nn
    <3> HIDE DEF mm, nn
    <3> QED
      BY <2>1, Lengths, ProductsGrow
  <2> QED
    BY <1>2, <1>3, <1>7, <1>8, <2>2
<1>10. n < m
  BY <1>1, <1>9
<1> QED
  BY <1>10 DEF n, m

-----------------------------------------------------------------------------------
(* The refinement *)

Commands(symbols) == [j \in DOMAIN symbols |-> Meaning(symbols[j])]
TakenUnits        == [i \in DOMAIN taken |-> Commands(taken[i])]
Told              == answer \in {"none", "torn"}

LEMMA CommandsAreAUnit ==
  ASSUME NEW bytes \in [1..UnitLen -> Nat]
  PROVE  Commands(bytes) \in Source!Unit
<1>1. DOMAIN bytes = 1..UnitLen
  OBVIOUS
<1>2. \A byte: Meaning(byte) \in Source!Command
  BY DEF Meaning, Source!Command, Source!Padding, Source!Verbatim
<1> QED
  BY <1>1, <1>2 DEF Commands, Source!Unit

LEMMA TakenGrows ==
  ASSUME BlocksInv, ReturnUnit
  PROVE  /\ unit \in [1..UnitLen -> Nat]
         /\ TakenUnits' = Append(TakenUnits, Commands(unit)) /\ Len(TakenUnits) = Len(taken)
<1>1. /\ taken \in Seq([1..UnitLen -> Nat]) /\ Len(taken) \in Nat /\ DOMAIN taken = 1..Len(taken)
      /\ taken' = Append(taken, unit)
  BY DEF BlocksInv, TypeOK, ReturnUnit
<1>2. unit \in [1..UnitLen -> Nat]
  <2>1. unit \in Seq(Nat) /\ Len(unit) = UnitLen
    BY DEF BlocksInv, TypeOK, ReturnUnit
  <2>2. unit \in [1..Len(unit) -> Nat]
    BY <2>1
  <2> QED
    BY <2>1, <2>2
<1>3. DOMAIN taken' = 1..(Len(taken) + 1)
  BY <1>1
<1>4. \A i \in 1..Len(taken): taken'[i] = taken[i]
  BY <1>1
<1>5. taken'[Len(taken) + 1] = unit
  BY <1>1
<1> DEFINE command(i) == Commands(taken[i])
<1>6. TakenUnits = [i \in 1..Len(taken) |-> command(i)]
  BY <1>1 DEF TakenUnits
<1>7. TakenUnits' = [i \in 1..(Len(taken) + 1) |-> Commands(taken'[i])]
  BY <1>3 DEF TakenUnits
<1>8. Len(TakenUnits) = Len(taken)
  BY <1>1, <1>6
<1>9. Append(TakenUnits, Commands(unit)) =
        [i \in 1..(Len(taken) + 1) |-> IF i <= Len(taken) THEN command(i) ELSE Commands(unit)]
  BY <1>1, <1>6, <1>8
<1>10. \A i \in 1..(Len(taken) + 1):
         Commands(taken'[i]) = IF i <= Len(taken) THEN command(i) ELSE Commands(unit)
  BY <1>1, <1>4, <1>5
<1> QED
  BY <1>2, <1>7, <1>8, <1>9, <1>10

(* What each step is to the source. *)
LEMMA WhatTheStepTells ==
  ASSUME BlocksInv, WholeInv, [Next]_vars
  PROVE  \/ UNCHANGED taken /\ ~Told /\ ~Told'
         \/ UNCHANGED taken /\ Told'
         \/ ReturnUnit /\ ~Told /\ ~Told'
<1>1. CASE ReturnUnit
  <2>1. Len(unit) = UnitLen /\ answer' = "unit"
    BY <1>1 DEF ReturnUnit
  <2>2. unit # << >>
    BY <2>1, Lengths, EmptySeq
  <2>3. ~Told
    BY <2>2 DEF WholeInv, AfterTheEnd, Told
  <2> QED
    BY <1>1, <2>1, <2>3 DEF Told
<1>2. CASE CopyBytes
  <2>1. output # << >> /\ UNCHANGED <<answer, taken>>
    BY <1>2 DEF CopyBytes
  <2> QED
    BY <2>1 DEF WholeInv, AfterTheEnd, Told
<1>3. CASE EndsWell \/ EndsTorn
  BY <1>3 DEF EndsWell, EndsTorn, Fail, Told
<1>4. CASE CountDiffers
  <2>1. ~CountAgrees /\ UNCHANGED taken /\ answer' = "failed"
    BY <1>4 DEF CountDiffers, Fail
  <2> QED
    BY <2>1 DEF WholeInv, AfterTheEnd, Told
<1>5. CASE Call \/ UNCHANGED vars
  BY <1>5 DEF Call, Told, vars, callVars
<1>6. CASE OpenStep \/ RefillStep \/ InflateStep
  <2>1. ~finished
    BY <1>6 DEF OpenStep, Open, OpenRefuses, OpenFails, RefillStep, KeepInput, TopUp, TopUpPastFile, TopUpCut,
                TopUpFails, Advancing, InflateStep, InflateData, InflateEnd, InflateBad, InflateFiller,
                InflateAstray, InflateDead, BlocksInv, InTheCall
  <2>2. ~Told
    BY <2>1 DEF WholeInv, AfterTheEnd, Told
  <2>3. UNCHANGED taken
    BY <1>6, OthersKeepUnits
  <2>4. ~Told'
    BY <1>6, <2>2 DEF OpenStep, Open, OpenRefuses, OpenFails, RefillStep, KeepInput, TopUp, TopUpPastFile,
                TopUpCut, TopUpFails, InflateStep, InflateData, InflateEnd, InflateBad, InflateFiller,
                InflateAstray, InflateDead, GoOn, Fail, Told
  <2> QED
    BY <2>2, <2>3, <2>4
<1> QED
  BY <1>1, <1>2, <1>3, <1>4, <1>5, <1>6 DEF Next, Steps, EndStep

LEMMA StepImplementsSource ==
  BlocksInv /\ WholeInv /\ BudgetInv /\ [Next]_vars => [Source!SourceNext]_(Source!sourceVars)
<1> SUFFICES ASSUME BlocksInv, WholeInv, BudgetInv, [Next]_vars
             PROVE  [Source!SourceNext]_(Source!sourceVars)
  OBVIOUS
<1>1. UNCHANGED taken => TakenUnits' = TakenUnits
  BY DEF TakenUnits, Commands
<1>2. CASE UNCHANGED taken /\ ~Told /\ ~Told'
  BY <1>1, <1>2 DEF Source!sourceVars, TakenUnits, Commands, Told
<1>3. CASE UNCHANGED taken /\ Told'
  BY <1>1, <1>3 DEF Source!SourceNext, Source!NoUnit, TakenUnits, Commands, Told
<1>4. CASE ReturnUnit /\ ~Told /\ ~Told'
  <2>1. /\ unit \in [1..UnitLen -> Nat]
        /\ TakenUnits' = Append(TakenUnits, Commands(unit)) /\ Len(TakenUnits) = Len(taken)
    BY <1>4, TakenGrows
  <2>2. Len(TakenUnits) < MaxUnits
    BY <1>4, <2>1, UnitsAreBounded
  <2>3. PICK commands \in Source!Unit: commands = Commands(unit)
    BY <2>1, CommandsAreAUnit
  <2>4. TakenUnits' = Append(TakenUnits, commands) /\ Len(TakenUnits) < MaxUnits
    BY <2>1, <2>2, <2>3
  <2>5. ~Told /\ Told' = Told
    BY <1>4 DEF Told
  <2>6. Source!NextUnit(commands)
    BY <2>4, <2>5 DEF Source!NextUnit, TakenUnits, Commands, Told
  <2> QED
    BY <2>6 DEF Source!SourceNext
<1> QED
  BY <1>2, <1>3, <1>4, WhatTheStepTells

(* The blocks of any section implement the source the decoder draws from: whole units, one at a  *)
(* time and never more than the section has bytes for, an end that is final, and after it no       *)
(* unit and no error, whatever was read, cut or damaged (zlib_blocks.rs, data_unit_source.rs).      *)
THEOREM ZlibImplementsSource == Spec => ImplementsSource
<1>1. Init => Source!SourceInit
  BY DEF Init, Source!SourceInit
<1>2. BlocksInv /\ WholeInv /\ BudgetInv /\ [Next]_vars => [Source!SourceNext]_(Source!sourceVars)
  BY StepImplementsSource
<1> QED
  BY <1>1, <1>2, BudgetAlways, PTL DEF Spec, ImplementsSource, Source!SourceSpec

===================================================================================
