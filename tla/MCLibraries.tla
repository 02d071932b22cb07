----------------------------- MODULE MCLibraries -----------------------------
(***************************************************************************)
(* The small memories of MCKlib; all pairs of eight-bit double words;      *)
(* instructions on sixteen-bit words of four four-bit bytes, with operands *)
(* at the edges.                                                           *)
(***************************************************************************)
EXTENDS MCKlib, Libraries

MCValues == {0, 1, 2, 7, 15, 16, 255, 256, 4095, 4096, 32767, 32768, 32769, 42435, 65534, 65535}
MCFew == {0, 1, 42435}
=============================================================================
