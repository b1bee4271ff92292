-------------------------------- MODULE MCDataLayout ------------------------------
(* The layout over every dictionary of a few segments and every very-long-string   *)
(* record of a few entries, with the real widths: 300 needs segments of 255 and 48, *)
(* 504 of 255 and 252, which may be spelled up to 256 and so as 255, and 510 needs   *)
(* a third one of 6, up to 8, although two supply as many bytes.                     *)
EXTENDS DataLayout, TLC

CONSTANTS nameA, nameB, nameC

MCNames == {nameA, nameB, nameC}
MCSymmetry == Permutations(MCNames)
===================================================================================
