---------------------------- MODULE MCScheduler ----------------------------
(***************************************************************************)
(* Scheduler on a small instance: two signal kinds, which may fall on the  *)
(* same master time, and handlers that schedule up to two events.  Two     *)
(* events from outside and the two that each may add are six numbers;      *)
(* MaxSeq leaves room for one more handler.                                *)
(***************************************************************************)
EXTENDS Scheduler

MCKinds == {VblankNmiBoundary, HIrqMatch}
=============================================================================
