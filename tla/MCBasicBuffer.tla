--------------------------- MODULE MCBasicBuffer ---------------------------
(***************************************************************************)
(* BasicBuffer with the element sizes 1, 2, 4 and 8 bytes, files of 0 and  *)
(* 3 bytes (read whole or short), alignments 4 and 8, and at most 20       *)
(* bytes (MCBasicBuffer.cfg).                                              *)
(***************************************************************************)
EXTENDS BasicBuffer
=============================================================================
