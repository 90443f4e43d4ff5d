---------------------------- MODULE MCTextStream ----------------------------
(***************************************************************************)
(* An instance of TextStream for TLC: a byte of six values in base five;   *)
(* the smallest and the largest of them in a stream of two groups and one  *)
(* byte.                                                                   *)
(***************************************************************************)
EXTENDS TextStream

MCChunk == {<<>>, <<0>>, <<5>>, <<5, 0>>}
=============================================================================
