---------------------------- MODULE SignalQueue ----------------------------
(***************************************************************************)
(* The pending signal events of the scheduler (core/scheduler.cpp and      *)
(* core/signal_event.h) as a set of records.  The priority queue of the    *)
(* code compares events by (master_time, kind, seq); seq is unique, so the *)
(* order is total and a set of events determines the queue.                *)
(***************************************************************************)
EXTENDS Integers, Sequences, FiniteSets

CONSTANT Forever   \* numeric_limits<TimeMasterT>::max(), "no event"

ASSUME ForeverAssumption == Forever \in Nat

(***************************************************************************)
(* SignalKind, in the numeric order of the enumeration.                    *)
(***************************************************************************)
FrameEnd == 0
VblankNmiBoundary == 1
HIrqMatch == 2
AutoJoypadStart == 3
HdmaFire == 33

SignalKind ==
  {FrameEnd, VblankNmiBoundary, HIrqMatch, AutoJoypadStart, HdmaFire}

SignalEvent == [time : Nat, kind : SignalKind, seq : Nat]

(***************************************************************************)
(* SignalEventComparator: a is dispatched before b.                        *)
(***************************************************************************)
BeforeBySeq(a, b) ==
  \/ a.time < b.time
  \/ a.time = b.time /\ a.seq < b.seq

Before(a, b) ==
  \/ a.time < b.time
  \/ a.time = b.time /\ a.kind < b.kind
  \/ a.time = b.time /\ a.kind = b.kind /\ a.seq < b.seq

(***************************************************************************)
(* signal_queue_.top().                                                    *)
(***************************************************************************)
IsTop(e, q) == e \in q /\ \A d \in q \ {e} : Before(e, d)

(***************************************************************************)
(* NextEventMasterTime.                                                    *)
(***************************************************************************)
NextEventTime(q) ==
  IF q = {} THEN Forever ELSE (CHOOSE e \in q : IsTop(e, q)).time

(***************************************************************************)
(* ScheduleSignal applied to a sequence of requests [time, kind] in order: *)
(* the i-th one receives the sequence number n + i - 1.                    *)
(***************************************************************************)
Scheduled(reqs, n) ==
  {[time |-> reqs[i].time, kind |-> reqs[i].kind, seq |-> n + i - 1] :
     i \in DOMAIN reqs}
=============================================================================
