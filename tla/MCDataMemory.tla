---------------------------- MODULE MCDataMemory ----------------------------
(***************************************************************************)
(* The data memory for TLC: what a word holds is only ever compared, so    *)
(* the values may be permuted.                                             *)
(***************************************************************************)
EXTENDS DataMemory, TLC

AnyValue == Permutations(Values)
=============================================================================
