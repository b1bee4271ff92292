------------------------------- MODULE MCZlibBlocks -------------------------------
(* Sections of a few compressed symbols: every region of up to three symbols, some *)
(* longer ones whose blocks, chunks, windows and units end at different places,  *)
(* and trailers before, at and behind the end of what the file holds.            *)
EXTENDS ZlibBlocks

Longer == {
  <<"pair", "pair", "end", "end">>,
  <<"byte", "end", "byte", "silent">>,
  <<"silent", "silent", "byte", "end">>,
  <<"byte", "end", "pair", "byte", "end">>,
  <<"pair", "byte", "end", "byte", "end", "end">>,
  <<"pair", "silent", "bad", "end">>,
  <<"byte", "pair", "pair", "bad">> }

Regions == BoundedSeq(Symbol, 3) \cup Longer

MCFiles ==
  [self: {Start}, trailer: 1..4, trailerLen: {2, 4}, contents: Regions]
    \cup [self: {Start}, trailer: 5..7, trailerLen: {2, 4, 6}, contents: Longer]
    \cup [self: {Start, 1}, trailer: {-1, 0, 2}, trailerLen: {-1, 3, 4}, contents: {<<"end">>}]
===================================================================================
