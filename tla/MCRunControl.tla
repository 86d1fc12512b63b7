---------------------------- MODULE MCRunControl ----------------------------
(***************************************************************************)
(* RunControl on a program of three opcodes, with an interrupt vector.     *)
(***************************************************************************)
EXTENDS RunControl

MCAddresses == 0..2
MCStepCounts == 0..2
=============================================================================
