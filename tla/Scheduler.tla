----------------------------- MODULE Scheduler -----------------------------
(***************************************************************************)
(* The signal-horizon scheduler (core/scheduler.cpp): what it promises to  *)
(* the run loop and to the devices, for any devices that keep the contract *)
(* of a signal handler.                                                    *)
(*                                                                         *)
(* A handler runs inside FireEventsThrough and may schedule new events;    *)
(* every handler of the code reschedules strictly after the time of the    *)
(* event it handles (Ppu::OnFrameEndSignal, Ppu::OnVblankNmiBoundarySignal,*)
(* CpuMmio::HandleIrqMatch, DmaController::OnHdmaSignal).  Outside a drain *)
(* an event may be scheduled at any time, the past included: a debugger    *)
(* write to the IRQ timer does that (CpuMmio::HandleDebugWrite).           *)
(***************************************************************************)
EXTENDS SignalQueue

CONSTANTS
  Kinds,      \* the signal kinds the devices use
  MaxTime,    \* bound: largest master time of an event
  MaxEvents,  \* bound: outside a drain nothing is scheduled from this number on
  MaxSeq,     \* bound: sequence numbers, too many for a drain that ends
  MaxPush     \* bound: events one handler schedules (2 in the code)

ASSUME KindsAssumption == Kinds \subseteq SignalKind

ASSUME BoundsAssumption ==
  MaxTime \in Nat /\ MaxEvents \in Nat /\ MaxSeq \in Nat /\ MaxPush \in Nat

VARIABLES
  queue,     \* signal_queue_
  nextSeq,   \* next_signal_seq_
  through,   \* through_time of the drain in progress, or NoDrain
  fired      \* history: the events dispatched in the drain

vars == <<queue, nextSeq, through, fired>>

NoDrain == -1

Request == [time : 0..MaxTime, kind : Kinds]

Requests(n) == UNION {[1..m -> Request] : m \in 0..n}

TypeOK ==
  /\ queue \in SUBSET SignalEvent
  /\ nextSeq \in Nat
  /\ through \in Nat \cup {NoDrain}
  /\ fired \in Seq(SignalEvent)

-----------------------------------------------------------------------------

Init ==
  /\ queue = {}
  /\ nextSeq = 0
  /\ through = NoDrain
  /\ fired = <<>>

(***************************************************************************)
(* Scheduler::Reset, called by SNES::Reset between two drains; the devices *)
(* schedule their first events before SNES::Reset returns.                 *)
(***************************************************************************)
Reset(reqs) ==
  /\ through = NoDrain
  /\ queue' = Scheduled(reqs, 0)
  /\ nextSeq' = Len(reqs)
  /\ UNCHANGED <<through, fired>>

(***************************************************************************)
(* ScheduleSignal from a register write or a reset, outside any handler.   *)
(***************************************************************************)
ScheduleSignal(reqs) ==
  /\ through = NoDrain
  /\ queue' = queue \cup Scheduled(reqs, nextSeq)
  /\ nextSeq' = nextSeq + Len(reqs)
  /\ UNCHANGED <<through, fired>>

(***************************************************************************)
(* FireEventsThrough(t): its entry, one iteration of its loop (the top     *)
(* event is moved out and popped before its handler runs), and its exit.   *)
(***************************************************************************)
BeginFire(t) ==
  /\ through = NoDrain
  /\ through' = t
  /\ UNCHANGED <<queue, nextSeq, fired>>

FireTopNotEarlier(e, reqs) ==
  /\ through # NoDrain
  /\ IsTop(e, queue)
  /\ e.time <= through
  /\ \A i \in DOMAIN reqs : reqs[i].time >= e.time
  /\ queue' = (queue \ {e}) \cup Scheduled(reqs, nextSeq)
  /\ nextSeq' = nextSeq + Len(reqs)
  /\ fired' = Append(fired, e)
  /\ UNCHANGED through

FireTop(e, reqs) ==
  /\ through # NoDrain
  /\ IsTop(e, queue)
  /\ e.time <= through
  /\ \A i \in DOMAIN reqs : reqs[i].time > e.time
  /\ queue' = (queue \ {e}) \cup Scheduled(reqs, nextSeq)
  /\ nextSeq' = nextSeq + Len(reqs)
  /\ fired' = Append(fired, e)
  /\ UNCHANGED through

EndFire ==
  /\ through # NoDrain
  /\ \A e \in queue : e.time > through
  /\ through' = NoDrain
  /\ fired' = <<>>
  /\ UNCHANGED <<queue, nextSeq>>

(***************************************************************************)
(* A handler may always schedule as much as it likes: MaxEvents is not for *)
(* it, and at MaxSeq it is stuck rather than made to schedule nothing.     *)
(* Only the times it asks for can bring a drain to its end.                *)
(***************************************************************************)
Handle(e) ==
  nextSeq + MaxPush <= MaxSeq /\ \E reqs \in Requests(MaxPush) : FireTop(e, reqs)

Next ==
  \/ \E reqs \in Requests(1) : Len(reqs) <= MaxEvents /\ Reset(reqs)
  \/ nextSeq < MaxEvents /\ \E r \in Request : ScheduleSignal(<<r>>)
  \/ \E t \in 0..MaxTime : BeginFire(t)
  \/ \E e \in queue : Handle(e)
  \/ EndFire

(***************************************************************************)
(* The loop of FireEventsThrough is a plain loop of one thread: it keeps   *)
(* running, so its iterations are weakly fair.  Nothing else is.           *)
(***************************************************************************)
Fairness ==
  /\ WF_vars(\E e \in queue : Handle(e))
  /\ WF_vars(EndFire)

Spec == Init /\ [][Next]_vars
FairSpec == Spec /\ Fairness

-----------------------------------------------------------------------------

(***************************************************************************)
(* The total order the documentation promises: master time, then signal    *)
(* kind, then sequence number, as one lexicographic comparison.            *)
(***************************************************************************)
InDispatchOrder(a, b) ==
  LET key(e) == <<e.time, e.kind, e.seq>>
  IN  \E i \in 1..3 : /\ key(a)[i] < key(b)[i]
                      /\ \A j \in 1..(i - 1) : key(a)[j] = key(b)[j]

(***************************************************************************)
(* One drain dispatches its events in the promised order, the events that  *)
(* its own handlers schedule included: a handler never sees a later event  *)
(* dispatched before an earlier one (FireEventsThrough's loop re-reads the *)
(* top after every handler).                                               *)
(***************************************************************************)
DispatchOrder ==
  \A i, j \in DOMAIN fired : i < j => InDispatchOrder(fired[i], fired[j])

(***************************************************************************)
(* Every scheduled event is dispatched at most once and is never both      *)
(* dispatched and pending, although handlers push while the loop pops; the *)
(* sequence number that decides between equal events is never reused.      *)
(***************************************************************************)
EachEventOnce ==
  LET gone == {fired[i].seq : i \in DOMAIN fired}
  IN  /\ \A i, j \in DOMAIN fired : fired[i].seq = fired[j].seq => i = j
      /\ \A d, e \in queue : d.seq = e.seq => d = e
      /\ \A e \in queue : e.seq \notin gone

(***************************************************************************)
(* FireEventsThrough returns: no due event blocks it, and no handlers keep *)
(* it running, although nothing bounds what they schedule but that it is   *)
(* strictly later.  A chain of handlers that asks for the present again    *)
(* would run to MaxSeq and never return.                                   *)
(***************************************************************************)
DrainEnds == through # NoDrain ~> through = NoDrain
=============================================================================
