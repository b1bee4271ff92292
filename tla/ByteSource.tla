-------------------------------- MODULE ByteSource --------------------------------
(* ReaderState: the reads the reader asks of the file, and the position it has counted.  *)
(* The underlying reader hands out any positive number of the bytes asked for, an error    *)
(* at any moment, and nothing at the end; an interruption is tried again, and is no step.   *)
(* "exact" is read_array and read_vec, "into" is read_into, "skip" is skip.                  *)
EXTENDS Integers, SequencesExt

CONSTANT SkipChunk    \* bound: the bytes discarded at a time

ASSUME SkipChunkAssumption == SkipChunk \in Nat \ {0}

VARIABLES
  cursor,     \* the bytes the underlying reader has handed out
  position,   \* the bytes the reader has counted
  call,       \* the read in hand: "none", "exact", "into" or "skip"
  wanted,     \* the bytes of its buffer, or of the chunk of a skip
  filled,     \* how many of them are there
  remaining,  \* the bytes to skip after this chunk
  result      \* of the last read: "whole", "end", "torn" or "failed"; "none" before it

source == <<cursor, position, call, wanted, filled, remaining, result>>

SourceInit ==
  /\ cursor = 0 /\ position = 0
  /\ call = "none" /\ wanted = 0 /\ filled = 0 /\ remaining = 0
  /\ result = "none"

Lesser(m, n) == IF m < n THEN m ELSE n

Ask(kind, length) ==
  /\ call' = kind
  /\ wanted' = IF kind = "skip" THEN Lesser(length, SkipChunk) ELSE length
  /\ remaining' = IF kind = "skip" THEN length - wanted' ELSE 0
  /\ filled' = 0
  /\ result' = "none"
  /\ UNCHANGED <<cursor, position>>

Asking == call # "none" /\ filled < wanted

Answer(outcome, counted) ==
  /\ call' = "none"
  /\ result' = outcome
  /\ position' = position + counted
  /\ UNCHANGED <<cursor, wanted, filled, remaining>>

(* Some of the bytes asked for come. *)
Deliver(file) ==
  /\ Asking
  /\ \E n \in 1..(Len(file) - cursor):
       /\ filled + n <= wanted
       /\ cursor' = cursor + n
       /\ filled' = filled + n
  /\ UNCHANGED <<position, call, wanted, remaining, result>>

(* The file has no more.  An exact read fails with nothing counted; read_into counts what *)
(* there was, and tells nothing at all from a part.                                        *)
EndOfFile(file) ==
  /\ Asking
  /\ cursor = Len(file)
  /\ IF call # "into" THEN Answer("failed", 0)
     ELSE Answer(IF filled = 0 THEN "end" ELSE "torn", filled)

ReadFails == Asking /\ Answer("failed", 0)

(* The buffer is full.  An empty one is full at once, and read_into takes that for the end. *)
Whole ==
  /\ call # "none" /\ filled = wanted
  /\ remaining = 0
  /\ Answer(IF call = "into" /\ wanted = 0 THEN "end" ELSE "whole", wanted)

(* Mutant: the position is counted when the whole skip is done. *)
NextChunkUncounted ==
  /\ call = "skip" /\ filled = wanted /\ remaining > 0
  /\ filled' = 0
  /\ wanted' = Lesser(remaining, SkipChunk)
  /\ remaining' = remaining - wanted'
  /\ UNCHANGED <<cursor, position, call, result>>

(* A skip goes on with the next chunk. *)
NextChunk ==
  /\ call = "skip" /\ filled = wanted /\ remaining > 0
  /\ position' = position + wanted
  /\ filled' = 0
  /\ wanted' = Lesser(remaining, SkipChunk)
  /\ remaining' = remaining - wanted'
  /\ UNCHANGED <<cursor, call, result>>

SourceStep(file) == Deliver(file) \/ EndOfFile(file) \/ ReadFails \/ Whole \/ NextChunk

SourceTypeOK ==
  /\ position \in 0..cursor
  /\ call \in {"none", "exact", "into", "skip"}
  /\ filled \in 0..wanted
  /\ remaining \in Nat
  /\ result \in {"none", "whole", "end", "torn", "failed"}
===================================================================================
