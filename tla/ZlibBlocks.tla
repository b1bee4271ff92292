-------------------------------- MODULE ZlibBlocks --------------------------------
(* ZlibBlocks: the units of a ZSAV data section, inflated block by block into a  *)
(* window.  next_unit (fill_unit, advance and what they call) is a loop, and one *)
(* action is one step of it: open the header, top up the compressed input,       *)
(* inflate a window, copy bytes out of it, return.  Every read may fail, and the *)
(* caller may call again after any error.                                        *)
(*                                                                               *)
(* Compressed data are symbols that say what inflating them does, and an         *)
(* inflated byte is its number in the section: what it means is no concern here. *)
EXTENDS Integers, FiniteSets, SequencesExt

CONSTANTS
  UnitLen,       \* DATA_UNIT_LEN
  WindowLen,     \* WINDOW_LEN: inflated bytes held at once
  ChunkLen,      \* INPUT_CHUNK_LEN: compressed symbols of one top-up
  HeaderLen,     \* ZHEADER_LEN
  PrefixLen,     \* ZTRAILER_HEADER_LEN
  EntryLen,      \* ZTRAILER_ENTRY_LEN
  Files,         \* the data sections of the model
  MaxUnits       \* bound: no section of the model gives more units

ASSUME UnitLenAssumption == UnitLen \in Nat \ {0}
ASSUME WindowLenAssumption == WindowLen \in Nat \ {0}
ASSUME ChunkLenAssumption == ChunkLen \in Nat \ {0}
ASSUME LengthsAssumption == HeaderLen \in Nat /\ PrefixLen \in Nat /\ EntryLen \in Nat \ {0}

(* What a piece of compressed data does: inflates to no byte, to one or to two,  *)
(* ends its zlib stream, or is not zlib data.  A filler is a zero that refill    *)
(* left in its buffer where the read it was made for did not get to.             *)
Yield == [silent |-> 0, byte |-> 1, pair |-> 2, end |-> 0, bad |-> 0]
Filler == "filler"
Symbol == DOMAIN Yield

(* self, trailer and trailerLen are the header's fields, contents what the file   *)
(* holds after the header: it may end before the trailer's position or after it.  *)
ASSUME FilesAssumption ==
  Files \subseteq [self: Int, trailer: Int, trailerLen: Int, contents: Seq(Symbol)]

(* A symbol gives two bytes at most, and the fillers of the two reads that may leave some *)
(* are less than a chunk each.                                                             *)
ASSUME MaxUnitsAssumption ==
  MaxUnits \in Nat /\ \A f \in Files: 2 * Len(f.contents) + 4 * ChunkLen < UnitLen * (MaxUnits + 1)

Start == 0       \* the section's position: offsets count from it
Garbage == 0     \* a byte inflated from fillers; the section's own count from 1

VARIABLES
  file,       \* the data section: a constant of the run
  header,     \* "unread", "read", or "lost": the reader stands where no header is
  cursor,     \* where the underlying reader really is
  position,   \* where ReaderState has counted it to be
  input,      \* compressed symbols read and not yet inflated
  inflater,   \* "sound"; "astray" once it took fillers; "dead" once it failed
  pending,    \* bytes inflated that the window had no room for
  produced,   \* how many of the section's bytes have reached the window
  output,     \* the window, from the next byte to hand out on
  blocks,     \* zlib streams ended
  finished,   \* the last block has ended
  pc,         \* "idle" between calls, "filling" in fill_unit, "inflating" in advance
  unit,       \* the bytes of the unit being filled
  answer,     \* what the last call returned
  taken,      \* history: the units handed out
  failures    \* history: the kinds of errors that calls returned

inflateVars == <<input, inflater, pending, produced, output, blocks, finished>>
readVars == <<header, cursor, position>>
callVars == <<pc, unit, answer, taken, failures>>
vars == <<file, readVars, inflateVars, callVars>>

Kinds == {"io_header", "header", "io", "cut", "corrupt", "torn"}

TypeOK ==
  /\ file \in Files
  /\ header \in {"unread", "read", "lost"}
  /\ cursor \in Nat /\ position \in Nat
  /\ input \in Seq(Symbol \cup {Filler}) /\ Len(input) <= ChunkLen
  /\ inflater \in {"sound", "astray", "dead"}
  /\ pending \in Nat /\ produced \in Nat /\ blocks \in Nat
  /\ output \in Seq(Nat) /\ Len(output) <= WindowLen
  /\ finished \in BOOLEAN
  /\ pc \in {"idle", "filling", "inflating"}
  /\ unit \in Seq(Nat) /\ Len(unit) <= UnitLen
  /\ answer \in {"asked", "unit", "none", "torn", "failed"}
  /\ taken \in Seq([1..UnitLen -> Nat])
  /\ failures \subseteq Kinds

Init ==
  /\ file \in Files
  /\ header = "unread"
  /\ cursor = Start /\ position = Start
  /\ input = << >>
  /\ inflater = "sound"
  /\ pending = 0 /\ produced = 0 /\ blocks = 0
  /\ output = << >>
  /\ finished = FALSE
  /\ pc = "idle"
  /\ unit = << >>
  /\ answer = "asked"
  /\ taken = << >>
  /\ failures = {}

-----------------------------------------------------------------------------------
(* How a call begins and returns *)

Call ==
  /\ pc = "idle"
  /\ pc' = "filling"
  /\ unit' = << >>
  /\ UNCHANGED <<file, readVars, inflateVars, answer, taken, failures>>

(* A partly filled unit is a local of the call, and is lost with an error. *)
Fail(kind) ==
  /\ pc' = "idle"
  /\ unit' = << >>
  /\ answer' = IF kind = "torn" THEN "torn" ELSE "failed"
  /\ failures' = failures \cup {kind}
  /\ UNCHANGED taken

GoOn(next) == pc' = next /\ UNCHANGED <<unit, answer, taken, failures>>

(* Mutant: the last byte copied out of the window is handed out again. *)
LeftAgain(n) == SubSeq(output, n, Len(output))

LeftInWindow(n) == SubSeq(output, n + 1, Len(output))

Least(m, n) == IF m < n THEN m ELSE n

CopyBytes ==
  /\ pc = "filling"
  /\ Len(unit) < UnitLen
  /\ output # << >>
  /\ LET take == Least(Len(output), UnitLen - Len(unit))
     IN  /\ unit' = unit \o SubSeq(output, 1, take)
         /\ output' = LeftInWindow(take)
  /\ UNCHANGED <<file, readVars, input, inflater, pending, produced, blocks, finished,
                 pc, answer, taken, failures>>

ReturnUnit ==
  /\ pc = "filling"
  /\ Len(unit) = UnitLen
  /\ pc' = "idle"
  /\ unit' = << >>
  /\ answer' = "unit"
  /\ taken' = Append(taken, unit)
  /\ UNCHANGED <<file, readVars, inflateVars, failures>>

-----------------------------------------------------------------------------------
(* open: the header, read and checked once (ZsavHeader::parse) *)

Starved == pc = "filling" /\ Len(unit) < UnitLen /\ output = << >>

HeaderAccepted ==
  /\ file.self = Start
  /\ file.trailer - Start >= HeaderLen
  /\ file.trailerLen >= PrefixLen
  /\ (file.trailerLen - PrefixLen) % EntryLen = 0

BlockCount == (file.trailerLen - PrefixLen) \div EntryLen

Open ==
  /\ Starved /\ ~finished /\ header = "unread"
  /\ HeaderAccepted
  /\ header' = "read"
  /\ cursor' = cursor + HeaderLen
  /\ position' = position + HeaderLen
  /\ GoOn("filling")
  /\ UNCHANGED <<file, inflateVars>>

(* The 24 bytes are consumed: what the next call reads as a header stands elsewhere, *)
(* and is taken to be none.                                                          *)
OpenRefuses ==
  /\ Starved /\ ~finished
  /\ header = "lost" \/ (header = "unread" /\ ~HeaderAccepted)
  /\ header' = "lost"
  /\ Fail("header")
  /\ UNCHANGED <<file, cursor, position, inflateVars>>

(* read_exact fails, having read nothing or a part of the header. *)
OpenFails ==
  /\ Starved /\ ~finished /\ header # "read"
  /\ header' \in {header, "lost"}
  /\ Fail(IF header' = "lost" THEN "header" ELSE "io_header")
  /\ UNCHANGED <<file, cursor, position, inflateVars>>

-----------------------------------------------------------------------------------
(* refill_input: another chunk of the block region once the last one is used up *)

Advancing == Starved /\ ~finished /\ header = "read"

(* Mutant: the region's end does not bound the read. *)
TakeUnbounded == ChunkLen

Take == IF file.trailer > position THEN Least(file.trailer - position, ChunkLen) ELSE 0

LeftInFile == HeaderLen + Len(file.contents) - cursor

Ahead(n) == SubSeq(file.contents, cursor - HeaderLen + 1, cursor - HeaderLen + n)

Fillers(n) == [i \in 1..n |-> Filler]

Refill(read, counted) ==
  /\ cursor' = cursor + read
  /\ position' = position + counted
  /\ UNCHANGED <<file, header, inflater, pending, produced, output, blocks, finished>>

KeepInput ==
  /\ Advancing /\ input # << >>
  /\ GoOn("inflating")
  /\ UNCHANGED <<file, readVars, inflateVars>>

TopUp ==
  /\ Advancing /\ input = << >>
  /\ Take <= LeftInFile
  /\ input' = Ahead(Take)
  /\ Refill(Take, Take)
  /\ GoOn("inflating")

(* The trailer's position lies beyond the end of the file. *)
TopUpPastFile ==
  /\ Advancing /\ input = << >>
  /\ Take > 0 /\ LeftInFile = 0
  /\ input' = << >>
  /\ Refill(0, 0)
  /\ Fail("corrupt")

(* read_into found fewer symbols than it was asked for: it counts them and fails,  *)
(* and the buffer, sized before the read, keeps them with the zeros behind them.   *)
TopUpCut ==
  /\ Advancing /\ input = << >>
  /\ LeftInFile \in 1..(Take - 1)
  /\ input' = Ahead(LeftInFile) \o Fillers(Take - LeftInFile)
  /\ Refill(LeftInFile, LeftInFile)
  /\ Fail("cut")

(* The underlying read failed: what it had read is in the buffer, and uncounted.   *)
(* Bound: this happens once (a device that always fails yields zeros without end). *)
TopUpFails ==
  /\ "io" \notin failures
  /\ Advancing /\ input = << >>
  /\ \E read \in 0..(Take - 1):
       /\ read <= LeftInFile
       /\ input' = Ahead(read) \o Fillers(Take - read)
       /\ Refill(read, 0)
  /\ Fail("io")

-----------------------------------------------------------------------------------
(* The rest of advance: inflate into the emptied window.  The inflater takes some of  *)
(* the input, all data, as long as there is room for a byte more.                     *)

Yields(symbols) == FoldLeft(LAMBDA sum, n: sum + n, 0, [i \in DOMAIN symbols |-> Yield[symbols[i]]])

Data(n) == \A i \in 1..n: input[i] \in {"silent", "byte", "pair"}

Backlog(n) == pending + Yields(SubSeq(input, 1, n))

(* n symbols are data and what they inflate to fits, whatever comes after them. *)
Reaches(n) == n < Len(input) /\ Data(n) /\ Backlog(n) <= WindowLen

Dropped(n) == SubSeq(input, n + 1, Len(input))

Bytes(n) == [i \in 1..n |-> produced + i]

Emit(n, extra) ==
  /\ output' = Bytes(n) \o extra
  /\ produced' = produced + n

(* Mutant: the window grows as the data want it to. *)
RoomUnbounded(n) == n

Room(n) == Least(n, WindowLen)

(* Mutant: a call of the inflater that got nowhere is no reason to stop. *)
StuckNever(consumed, emitted) == FALSE

Stuck(consumed, emitted) == consumed = 0 /\ emitted = 0

InflateData ==
  /\ pc = "inflating" /\ inflater = "sound"
  /\ \E n \in 0..Len(input):
       /\ Data(n)
       /\ IF n = 0 THEN input = << >> \/ pending >= WindowLen
                   ELSE Backlog(n - 1) < WindowLen
       /\ LET emitted == Room(Backlog(n))
          IN  /\ Emit(emitted, << >>)
              /\ pending' = Backlog(n) - emitted
              /\ input' = Dropped(n)
              /\ IF Stuck(n, emitted) THEN Fail("corrupt") ELSE GoOn("filling")
  /\ UNCHANGED <<file, readVars, inflater, blocks, finished>>

(* Mutant: what was read past the end of a block is thrown away with it. *)
EndBlockDropping(left) ==
  /\ blocks' = blocks + 1
  /\ input' = << >>
  /\ finished' = ~(file.trailer > position)

(* end_block: the next block begins in the input read ahead, or in the file. *)
EndBlock(left) ==
  /\ blocks' = blocks + 1
  /\ input' = left
  /\ finished' = (~(file.trailer > position) /\ left = << >>)

InflateEnd ==
  /\ pc = "inflating" /\ inflater = "sound"
  /\ \E n \in 0..Len(input):
       /\ Reaches(n) /\ input[n + 1] = "end"
       /\ Emit(Backlog(n), << >>)
       /\ EndBlock(Dropped(n + 1))
  /\ pending' = 0
  /\ GoOn("filling")
  /\ UNCHANGED <<file, readVars, inflater>>

(* The bytes before the damage are in the window already, and a later call finds *)
(* them there; the inflater itself never works again.                            *)
InflateBad ==
  /\ pc = "inflating" /\ inflater = "sound"
  /\ \E n \in 0..Len(input):
       /\ Reaches(n) /\ input[n + 1] \in {"bad", Filler}
       /\ Emit(Backlog(n), << >>)
  /\ inflater' = "dead"
  /\ pending' = 0
  /\ Fail("corrupt")
  /\ UNCHANGED <<file, readVars, input, blocks, finished>>

(* The zeros of a failed read may also pass for data. *)
InflateFiller ==
  /\ pc = "inflating" /\ inflater = "sound"
  /\ \E n \in 0..Len(input):
       /\ Reaches(n) /\ input[n + 1] = Filler
       /\ \E extra \in {<< >>, <<Garbage>>}:
            /\ Backlog(n) + Len(extra) <= WindowLen
            /\ Emit(Backlog(n), extra)
       /\ input' = Dropped(n + 1)
  /\ inflater' = "astray"
  /\ pending' = 0
  /\ GoOn("filling")
  /\ UNCHANGED <<file, readVars, blocks, finished>>

(* An inflater off its track takes anything for data until it fails; no block ends, *)
(* because the stream's checksum no longer fits.                                    *)
InflateAstray ==
  /\ pc = "inflating" /\ inflater = "astray"
  /\ \E n \in 1..Len(input): input' = Dropped(n)
  /\ \E extra \in {<< >>, <<Garbage>>}: Emit(0, extra)
  /\ GoOn("filling")
  /\ UNCHANGED <<file, readVars, inflater, pending, blocks, finished>>

InflateDead ==
  /\ pc = "inflating" /\ inflater # "sound"
  /\ inflater' = IF input = << >> THEN inflater ELSE "dead"
  /\ Emit(0, << >>)
  /\ Fail("corrupt")
  /\ UNCHANGED <<file, readVars, input, pending, blocks, finished>>

-----------------------------------------------------------------------------------
(* advance after its loop: the region is used up, and its blocks are counted *)

(* Mutant: the count is never compared. *)
CountUnchecked == TRUE

CountAgrees == blocks = BlockCount

(* Mutant: the end is told once and not remembered. *)
EndForgotten == finished' = FALSE

EndStays == UNCHANGED finished

EndsWell ==
  /\ Starved /\ finished
  /\ unit = << >>
  /\ CountAgrees
  /\ pc' = "idle"
  /\ answer' = "none"
  /\ EndStays
  /\ UNCHANGED <<file, readVars, input, inflater, pending, produced, output, blocks,
                 unit, taken, failures>>

EndsTorn ==
  /\ Starved /\ finished
  /\ unit # << >>
  /\ CountAgrees
  /\ Fail("torn")
  /\ UNCHANGED <<file, readVars, inflateVars>>

CountDiffers ==
  /\ Starved /\ finished
  /\ ~CountAgrees
  /\ Fail("corrupt")
  /\ UNCHANGED <<file, readVars, inflateVars>>

-----------------------------------------------------------------------------------
OpenStep == Open \/ OpenRefuses \/ OpenFails
RefillStep == KeepInput \/ TopUp \/ TopUpPastFile \/ TopUpCut \/ TopUpFails
InflateStep ==
  \/ InflateData \/ InflateEnd \/ InflateBad
  \/ InflateFiller \/ InflateAstray \/ InflateDead
EndStep == EndsWell \/ EndsTorn \/ CountDiffers

Steps == CopyBytes \/ ReturnUnit \/ OpenStep \/ RefillStep \/ InflateStep \/ EndStep

Next == Call \/ Steps

Spec == Init /\ [][Next]_vars

(* A call that was made runs on: it is the caller's own thread.  Nothing makes the *)
(* caller call again.                                                              *)
FairSpec == Spec /\ WF_vars(Steps)

-----------------------------------------------------------------------------------
(* Properties *)

Handed == FlattenSeq(taken)

(* Until a call fails, the bytes handed out, in hand and in the window are those of *)
(* the section from the first on, without a gap: blocks are framing, and a unit may *)
(* lie across windows, chunks and blocks.  Whatever failed before, no byte is handed *)
(* out a second time or out of its order, and zeros that were never read pass for    *)
(* data only after a read that failed (zlib_blocks.rs, fill_unit and advance).       *)
BytesComeInOrder ==
  LET bytes == Handed \o unit
  IN  /\ failures \subseteq {"io_header"} => bytes \o output = [i \in 1..produced |-> i]
      /\ \A i, j \in DOMAIN bytes:
           i < j /\ bytes[i] # Garbage /\ bytes[j] # Garbage => bytes[i] < bytes[j]
      /\ \A i \in DOMAIN bytes: bytes[i] = Garbage => failures \cap {"io", "cut"} # {}

(* A clean end is one: the whole region was read and inflated, its last block ended *)
(* where the region does, the blocks are as many as the trailer has entries, and    *)
(* nothing but a torn unit or an unread header was reported before.                 *)
WholeAtTheEnd ==
  answer = "none" =>
    LET region == SubSeq(file.contents, 1, file.trailer - HeaderLen)
    IN  /\ failures \subseteq {"io_header", "torn"}
        /\ Len(file.contents) >= file.trailer - HeaderLen
        /\ produced = Yields(region)
        /\ Cardinality({i \in DOMAIN region: region[i] = "end"}) = BlockCount

(* The trailer is never taken for a block, unless a read failed halfway.            *)
ReadsInTheRegion == header = "read" /\ "io" \notin failures => cursor <= file.trailer

(* The unit source the decoder was checked against: what a byte means to it is left *)
(* open here, and any choice of commands will do.                                   *)
Meaning(byte) == IF byte % 2 = 0 THEN "padding" ELSE "verbatim"

Source == INSTANCE DataUnitSource WITH
  GroupLen <- UnitLen,
  InlineCodes <- {},
  taken <- [i \in DOMAIN taken |-> [j \in DOMAIN taken[i] |-> Meaning(taken[i][j])]],
  exhausted <- answer \in {"none", "torn"}

(* The blocks implement the decoder's source: whole units, one at a time, an end    *)
(* that is final, and nothing after it (data_unit_source.rs).                       *)
ImplementsSource == Source!SourceSpec

(* Every call returns: each round of advance consumes input, hands a byte to the    *)
(* window or gives up.                                                              *)
CallsReturn == pc # "idle" ~> pc = "idle"
===================================================================================
