---------------------------------- MODULE MCCells ---------------------------------
(* Cells in a row of small units: a segment of 3 bytes in 4, strings of 1 segment and   *)
(* of 3, the geometry of 255 bytes in 256 with widths that cross into every segment.     *)
EXTENDS Cells

NumberAt(offset, raw) ==
  [width |-> NumericWidth, segments |-> <<[offset |-> offset, content |-> 2, stride |-> 2]>>, raw |-> raw]
Short(offset, width, raw) ==
  [width |-> width, segments |-> <<[offset |-> offset, content |-> width, stride |-> 4]>>, raw |-> raw]

(* A very long string may be declared shorter than its one segment. *)
Narrow(offset, raw) ==
  [width |-> 3, segments |-> <<[offset |-> offset, content |-> 4, stride |-> 4]>>, raw |-> raw]

(* Five bytes: segments of 3, 3 and 5 - 2 * 2 = 1. *)
Long(offset, raw) ==
  [width |-> 5, raw |-> raw,
   segments |-> <<[offset |-> offset, content |-> 3, stride |-> 4],
                  [offset |-> offset + 4, content |-> 3, stride |-> 4],
                  [offset |-> offset + 8, content |-> 1, stride |-> 2]>>]

None     == Raw("None", << >>)
Key      == Raw("Discrete", << <<"x", Nul, Nul, Nul>> >>)
TwoKeys  == Raw("Range", << <<"x", "x", Space>>, <<Space>> >>)
Discrete == Raw("Discrete", <<Lowest, 1>>)
UpToOne     == Raw("Range", <<Lowest, 1>>)
From     == Raw("Range", <<1, Highest, 0>>)
Between  == Raw("Range", <<1, 100>>)

MCLayouts ==
  {<<NumberAt(0, raw), Short(2, 3, key)>>: raw \in {None, UpToOne, From, Between}, key \in {None, Key, TwoKeys}}
  \cup {<<Long(0, Key), NumberAt(10, raw)>>: raw \in {Discrete, UpToOne}}
  \cup {<<NumberAt(0, None), Narrow(2, Key)>>}
MCRows(l) == Writable(l[1]) \X Writable(l[2])
MCPatterns == {SysMis, Lowest, Highest, -100, 0, 1, 100}   \* and both infinities
MCSentinelRecords == {{}, {SentinelsOf(0, 1, 100)}}
MCMissingCommand == -1000
===================================================================================
