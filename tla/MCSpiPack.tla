------------------------------ MODULE MCSpiPack ------------------------------
(***************************************************************************)
(* SpiPack for frames of an odd word, of two groups of words, and of a word  *)
(* more, which does not fit with the header of display_data3.               *)
(***************************************************************************)
EXTENDS SpiPack

\* Every single bit, and all of them.
MCPattern == {{b} : b \in 0..7} \union {0..7}
=============================================================================
