-------------------------- MODULE SchedulerProofs --------------------------
(***************************************************************************)
(* What module Scheduler promises, proved for every set of kinds, every    *)
(* bound and every number of events.                                       *)
(***************************************************************************)
EXTENDS Scheduler, SequenceTheorems, TLAPS

(***************************************************************************)
(* A request as SignalQueue understands it.                                *)
(***************************************************************************)
AnyRequest == [time : Nat, kind : SignalKind]

-----------------------------------------------------------------------------
(***************************************************************************)
(* The kinds are numbers: the comparator compares their enumeration        *)
(* values.                                                                 *)
(***************************************************************************)
LEMMA KindsAreNumbers == SignalKind \subseteq Nat
  BY DEF SignalKind, FrameEnd, VblankNmiBoundary, HIrqMatch, AutoJoypadStart, HdmaFire

(***************************************************************************)
(* What the fields of a signal event are.                                  *)
(***************************************************************************)
LEMMA EventFields ==
  ASSUME NEW e \in SignalEvent
  PROVE  e.time \in Nat /\ e.kind \in Nat /\ e.seq \in Nat
<1>1. e.time \in Nat /\ e.kind \in SignalKind /\ e.seq \in Nat
  BY DEF SignalEvent
<1> QED
  BY <1>1, KindsAreNumbers

(***************************************************************************)
(* SignalEventComparator is transitive.                                    *)
(***************************************************************************)
LEMMA BeforeTransitive ==
  ASSUME NEW a \in SignalEvent, NEW b \in SignalEvent, NEW c \in SignalEvent,
         Before(a, b), Before(b, c)
  PROVE  Before(a, c)
<1>1. /\ a.time \in Nat /\ a.kind \in Nat /\ a.seq \in Nat
      /\ b.time \in Nat /\ b.kind \in Nat /\ b.seq \in Nat
      /\ c.time \in Nat /\ c.kind \in Nat /\ c.seq \in Nat
  BY EventFields
<1> QED
  BY <1>1 DEF Before

(***************************************************************************)
(* The three comparisons of the comparator are the lexicographic order on  *)
(* (time, kind, seq).                                                      *)
(***************************************************************************)
LEMMA BeforeIsDispatchOrder ==
  ASSUME NEW a \in SignalEvent, NEW b \in SignalEvent, Before(a, b)
  PROVE  InDispatchOrder(a, b)
<1> DEFINE key(e) == <<e.time, e.kind, e.seq>>
           Decides(i) == /\ key(a)[i] < key(b)[i]
                         /\ \A j \in 1..(i - 1) : key(a)[j] = key(b)[j]
<1>1. CASE a.time < b.time
  <2>1. Decides(1)
    BY <1>1
  <2> QED
    BY <2>1 DEF InDispatchOrder
<1>2. CASE a.time = b.time /\ a.kind < b.kind
  <2>1. Decides(2)
    BY <1>2
  <2> QED
    BY <2>1 DEF InDispatchOrder
<1>3. CASE a.time = b.time /\ a.kind = b.kind /\ a.seq < b.seq
  <2>1. Decides(3)
    BY <1>3
  <2> QED
    BY <2>1 DEF InDispatchOrder
<1> QED
  BY <1>1, <1>2, <1>3 DEF Before

-----------------------------------------------------------------------------
(***************************************************************************)
(* ScheduleSignal hands out fresh, distinct sequence numbers.              *)
(***************************************************************************)
LEMMA ScheduledIsFresh ==
  ASSUME NEW n \in Nat, NEW reqs \in Seq(AnyRequest)
  PROVE  /\ Scheduled(reqs, n) \subseteq SignalEvent
         /\ \A e \in Scheduled(reqs, n) : n <= e.seq /\ e.seq < n + Len(reqs)
         /\ \A d, e \in Scheduled(reqs, n) : d.seq = e.seq => d = e
         /\ \A e \in Scheduled(reqs, n) : \E i \in DOMAIN reqs : e.time = reqs[i].time
<1>1. Len(reqs) \in Nat /\ DOMAIN reqs = 1..Len(reqs)
  OBVIOUS
<1>2. \A i \in DOMAIN reqs : reqs[i] \in AnyRequest
  OBVIOUS
<1> QED
  BY <1>1, <1>2 DEF Scheduled, SignalEvent, AnyRequest

(***************************************************************************)
(* The requests of one handler are a sequence of requests, whatever the    *)
(* bounds of the module.                                                   *)
(***************************************************************************)
LEMMA RequestsAreSequences ==
  ASSUME NEW n \in Nat
  PROVE  Requests(n) \subseteq Seq(AnyRequest)
<1>1. Request \subseteq AnyRequest
  BY KindsAssumption, BoundsAssumption DEF Request, AnyRequest
<1>2. ASSUME NEW m \in 0..n, NEW r \in [1..m -> Request]
      PROVE  r \in Seq(AnyRequest)
  <2>1. r \in [1..m -> AnyRequest] /\ m \in Nat
    BY <1>1
  <2> QED
    BY <2>1, SeqDef
<1> QED
  BY <1>2 DEF Requests

-----------------------------------------------------------------------------
(***************************************************************************)
(* The inductive invariant.  What the properties say of the events already *)
(* dispatched is kept by the next dispatch only because of what is still   *)
(* pending: every pending event comes after every dispatched one, and no   *)
(* number handed out before is handed out again.                           *)
(***************************************************************************)
NumbersBelow ==
  /\ \A e \in queue : e.seq < nextSeq
  /\ \A i \in DOMAIN fired : fired[i].seq < nextSeq

NumbersDistinct ==
  /\ \A d, e \in queue : d.seq = e.seq => d = e
  /\ \A i, j \in DOMAIN fired : fired[i].seq = fired[j].seq => i = j
  /\ \A i \in DOMAIN fired, e \in queue : fired[i].seq # e.seq

PendingAfterFired ==
  /\ \A i, j \in DOMAIN fired : i < j => Before(fired[i], fired[j])
  /\ \A i \in DOMAIN fired, e \in queue : Before(fired[i], e)

IdleHasFiredNothing == through = NoDrain => fired = <<>>

Ordered == NumbersBelow /\ NumbersDistinct /\ PendingAfterFired /\ IdleHasFiredNothing

IInv == TypeOK /\ Ordered

(***************************************************************************)
(* An empty scheduler satisfies the invariant.                             *)
(***************************************************************************)
LEMMA InitIInv == Init => IInv
  BY DEF Init, IInv, TypeOK, Ordered, NumbersBelow, NumbersDistinct, PendingAfterFired,
         IdleHasFiredNothing, NoDrain

(***************************************************************************)
(* Scheduling outside a drain, with sequence numbers from n on, onto the   *)
(* events q: Reset starts both over, ScheduleSignal continues them.        *)
(***************************************************************************)
LEMMA ScheduleKeepsIInv ==
  ASSUME IInv, through = NoDrain, NEW reqs \in Seq(AnyRequest),
         \/ /\ queue' = Scheduled(reqs, 0)
            /\ nextSeq' = Len(reqs)
         \/ /\ queue' = queue \cup Scheduled(reqs, nextSeq)
            /\ nextSeq' = nextSeq + Len(reqs),
         UNCHANGED <<through, fired>>
  PROVE  IInv'
<1>1. /\ TypeOK /\ NumbersBelow /\ NumbersDistinct
      /\ fired = <<>> /\ fired' = <<>> /\ through' = NoDrain
  BY DEF IInv, Ordered, IdleHasFiredNothing
<1>2. nextSeq \in Nat /\ queue \subseteq SignalEvent /\ Len(reqs) \in Nat
  BY <1>1 DEF TypeOK
<1>3. TypeOK'
  BY <1>1, <1>2, ScheduledIsFresh DEF TypeOK
<1>4. \A e \in queue : e.seq \in Nat /\ e.seq < nextSeq
  BY <1>1, <1>2, EventFields DEF NumbersBelow
<1>5. CASE queue' = Scheduled(reqs, 0) /\ nextSeq' = Len(reqs)
  <2>1. \A e \in queue' : e.seq < nextSeq'
    BY <1>2, <1>5, ScheduledIsFresh
  <2>2. \A d, e \in queue' : d.seq = e.seq => d = e
    BY <1>5, ScheduledIsFresh
  <2> QED
    BY <1>1, <1>3, <2>1, <2>2
    DEF IInv, Ordered, NumbersBelow, NumbersDistinct, PendingAfterFired,
        IdleHasFiredNothing
<1>6. CASE queue' = queue \cup Scheduled(reqs, nextSeq) /\ nextSeq' = nextSeq + Len(reqs)
  <2>1. /\ \A e \in Scheduled(reqs, nextSeq) :
             e.seq \in Nat /\ nextSeq <= e.seq /\ e.seq < nextSeq'
        /\ \A d, e \in Scheduled(reqs, nextSeq) : d.seq = e.seq => d = e
    BY <1>2, <1>6, ScheduledIsFresh, EventFields
  <2>2. \A e \in queue' : e.seq < nextSeq'
    BY <1>2, <1>4, <1>6, <2>1
  <2>3. \A d, e \in queue' : d.seq = e.seq => d = e
    BY <1>1, <1>2, <1>4, <1>6, <2>1 DEF NumbersDistinct
  <2> QED
    BY <1>1, <1>3, <2>2, <2>3
    DEF IInv, Ordered, NumbersBelow, NumbersDistinct, PendingAfterFired,
        IdleHasFiredNothing
<1> QED
  BY <1>5, <1>6

(***************************************************************************)
(* One iteration of the drain's loop.  The top event precedes every other  *)
(* pending event, its handler's events are later than it, and so all that  *)
(* is pending afterwards still follows all that is dispatched.             *)
(***************************************************************************)
LEMMA FireTopKeepsIInv ==
  ASSUME IInv, NEW e \in queue, NEW reqs \in Seq(AnyRequest), FireTop(e, reqs)
  PROVE  IInv'
<1> DEFINE new == Scheduled(reqs, nextSeq)
<1>1. /\ TypeOK /\ NumbersBelow /\ NumbersDistinct /\ PendingAfterFired
      /\ through # NoDrain /\ through' = through
      /\ queue' = (queue \ {e}) \cup new
      /\ nextSeq' = nextSeq + Len(reqs)
      /\ fired' = Append(fired, e)
      /\ \A d \in queue \ {e} : Before(e, d)
      /\ \A i \in DOMAIN reqs : reqs[i].time > e.time
  BY DEF IInv, Ordered, FireTop, IsTop
<1>2. /\ nextSeq \in Nat /\ queue \subseteq SignalEvent /\ e \in SignalEvent
      /\ fired \in Seq(SignalEvent) /\ Len(reqs) \in Nat
  BY <1>1 DEF TypeOK
<1>3. /\ Len(fired) \in Nat /\ DOMAIN fired = 1..Len(fired)
      /\ \A i \in DOMAIN fired : fired[i] \in SignalEvent
  BY <1>2
<1>4. /\ DOMAIN fired' = 1..(Len(fired) + 1)
      /\ \A i \in DOMAIN fired : fired'[i] = fired[i]
      /\ fired'[Len(fired) + 1] = e
  BY <1>1, <1>2, <1>3
<1>5. \A i \in DOMAIN fired' : i \in DOMAIN fired \/ i = Len(fired) + 1
  BY <1>3, <1>4
<1>6. /\ new \subseteq SignalEvent
      /\ \A d \in new : nextSeq <= d.seq /\ d.seq < nextSeq'
      /\ \A c, d \in new : c.seq = d.seq => c = d
      /\ \A d \in new : \E i \in DOMAIN reqs : d.time = reqs[i].time
  BY <1>1, <1>2, ScheduledIsFresh
<1>7. /\ \A d \in queue : d.seq \in Nat /\ d.seq < nextSeq
      /\ \A i \in DOMAIN fired : fired[i].seq \in Nat /\ fired[i].seq < nextSeq
  BY <1>1, <1>2, <1>3, EventFields DEF NumbersBelow
<1>8. \A d \in new : d.seq \in Nat /\ d.time \in Nat /\ d.time > e.time
  BY <1>1, <1>6, EventFields
<1>9. TypeOK'
  <2>1. fired' \in Seq(SignalEvent)
    BY <1>1, <1>2
  <2> QED
    BY <1>1, <1>2, <1>6, <2>1 DEF TypeOK
<1>10. NumbersBelow'
  <2>1. \A d \in queue' : d.seq < nextSeq'
    BY <1>1, <1>2, <1>6, <1>7
  <2>2. \A i \in DOMAIN fired' : fired'[i].seq < nextSeq'
    BY <1>1, <1>2, <1>4, <1>5, <1>7
  <2> QED
    BY <2>1, <2>2 DEF NumbersBelow
<1>11. NumbersDistinct'
  <2>1. \A c, d \in queue' : c.seq = d.seq => c = d
    BY <1>1, <1>2, <1>6, <1>7, <1>8 DEF NumbersDistinct
  <2>2. \A i, j \in DOMAIN fired' : fired'[i].seq = fired'[j].seq => i = j
    BY <1>1, <1>4, <1>5 DEF NumbersDistinct
  <2>3. \A i \in DOMAIN fired', d \in queue' : fired'[i].seq # d.seq
    <3>1. ASSUME NEW i \in DOMAIN fired', NEW d \in queue \ {e}
          PROVE  fired'[i].seq # d.seq
      BY <1>1, <1>4, <1>5 DEF NumbersDistinct
    <3>2. ASSUME NEW i \in DOMAIN fired', NEW d \in new
          PROVE  fired'[i].seq # d.seq
      <4>1. fired'[i].seq \in Nat /\ fired'[i].seq < nextSeq
        BY <1>4, <1>5, <1>7
      <4> QED
        BY <1>2, <1>6, <1>8, <4>1
    <3> QED
      BY <1>1, <3>1, <3>2
  <2> QED
    BY <2>1, <2>2, <2>3 DEF NumbersDistinct
<1>12. PendingAfterFired'
  <2>1. \A i, j \in DOMAIN fired' : i < j => Before(fired'[i], fired'[j])
    <3>1. SUFFICES ASSUME NEW i \in DOMAIN fired', NEW j \in DOMAIN fired', i < j
                   PROVE  Before(fired'[i], fired'[j])
      OBVIOUS
    <3>2. i \in DOMAIN fired
      BY <1>3, <1>4, <3>1
    <3>3. CASE j \in DOMAIN fired
      BY <1>1, <1>4, <3>1, <3>2, <3>3 DEF PendingAfterFired
    <3>4. CASE j = Len(fired) + 1
      BY <1>1, <1>4, <3>2, <3>4 DEF PendingAfterFired
    <3> QED
      BY <1>5, <3>3, <3>4
  <2>2. \A d \in queue' : Before(e, d)
    <3>1. \A d \in new : Before(e, d)
      BY <1>8 DEF Before
    <3> QED
      BY <1>1, <3>1
  <2>3. \A i \in DOMAIN fired', d \in queue' : Before(fired'[i], d)
    <3>1. SUFFICES ASSUME NEW i \in DOMAIN fired', NEW d \in queue'
                   PROVE  Before(fired'[i], d)
      OBVIOUS
    <3>2. d \in SignalEvent /\ Before(e, d)
      BY <1>1, <1>2, <1>6, <2>2
    <3>3. CASE i \in DOMAIN fired
      <4>1. fired[i] \in SignalEvent /\ Before(fired[i], e) /\ fired'[i] = fired[i]
        BY <1>1, <1>3, <1>4, <3>3 DEF PendingAfterFired
      <4> QED
        BY <1>2, <3>2, <4>1, BeforeTransitive
    <3>4. CASE i = Len(fired) + 1
      BY <1>4, <3>2, <3>4
    <3> QED
      BY <1>5, <3>3, <3>4
  <2> QED
    BY <2>1, <2>3 DEF PendingAfterFired
<1>13. IdleHasFiredNothing'
  BY <1>1 DEF IdleHasFiredNothing
<1> QED
  BY <1>9, <1>10, <1>11, <1>12, <1>13 DEF IInv, Ordered

(***************************************************************************)
(* Every step of the scheduler keeps it, one case for each operation.      *)
(***************************************************************************)
LEMMA NextIInv == IInv /\ [Next]_vars => IInv'
<1> SUFFICES ASSUME IInv, [Next]_vars
             PROVE  IInv'
  OBVIOUS
<1> USE DEF NoDrain
<1>1. ASSUME NEW reqs \in Requests(1), Reset(reqs)
      PROVE  IInv'
  <2>1. reqs \in Seq(AnyRequest)
    BY RequestsAreSequences
  <2> QED
    BY <1>1, <2>1, ScheduleKeepsIInv DEF Reset
<1>2. ASSUME NEW r \in Request, ScheduleSignal(<<r>>)
      PROVE  IInv'
  <2>1. <<r>> \in Seq(AnyRequest)
    BY KindsAssumption, BoundsAssumption DEF Request, AnyRequest
  <2> QED
    BY <1>2, <2>1, ScheduleKeepsIInv DEF ScheduleSignal
<1>3. ASSUME NEW t \in 0..MaxTime, BeginFire(t)
      PROVE  IInv'
  BY <1>3, BoundsAssumption
  DEF BeginFire, IInv, TypeOK, Ordered, NumbersBelow, NumbersDistinct,
      PendingAfterFired, IdleHasFiredNothing
<1>4. ASSUME NEW e \in queue, NEW reqs \in Requests(MaxPush), FireTop(e, reqs)
      PROVE  IInv'
  <2>1. reqs \in Seq(AnyRequest)
    BY BoundsAssumption, RequestsAreSequences
  <2> QED
    BY <1>4, <2>1, FireTopKeepsIInv
<1>5. CASE EndFire
  BY <1>5
  DEF EndFire, IInv, TypeOK, Ordered, NumbersBelow, NumbersDistinct,
      PendingAfterFired, IdleHasFiredNothing
<1>6. CASE UNCHANGED vars
  BY <1>6
  DEF vars, IInv, TypeOK, Ordered, NumbersBelow, NumbersDistinct,
      PendingAfterFired, IdleHasFiredNothing
<1> QED
  BY <1>1, <1>2, <1>3, <1>4, <1>5, <1>6 DEF Next, Handle

(***************************************************************************)
(* The invariant holds in every state the scheduler reaches.               *)
(***************************************************************************)
THEOREM Invariance == Spec => []IInv
<1>1. Init => IInv
  BY InitIInv
<1>2. IInv /\ [Next]_vars => IInv'
  BY NextIInv
<1> QED
  BY <1>1, <1>2, PTL DEF Spec

-----------------------------------------------------------------------------
(***************************************************************************)
(* Type correctness of the queue, the counter and the drain.               *)
(***************************************************************************)
THEOREM TypeCorrect == Spec => []TypeOK
<1>1. IInv => TypeOK
  BY DEF IInv
<1> QED
  BY <1>1, Invariance, PTL

(***************************************************************************)
(* FireEventsThrough dispatches in the documented total order, for any     *)
(* handlers that schedule strictly later.                                  *)
(***************************************************************************)
THEOREM DrainDispatchesInOrder == Spec => []DispatchOrder
<1>1. IInv => DispatchOrder
  <2> SUFFICES ASSUME IInv, NEW i \in DOMAIN fired, NEW j \in DOMAIN fired, i < j
               PROVE  InDispatchOrder(fired[i], fired[j])
    BY DEF DispatchOrder
  <2>1. fired[i] \in SignalEvent /\ fired[j] \in SignalEvent
    BY DEF IInv, TypeOK
  <2>2. Before(fired[i], fired[j])
    BY DEF IInv, Ordered, PendingAfterFired
  <2> QED
    BY <2>1, <2>2, BeforeIsDispatchOrder
<1> QED
  BY <1>1, Invariance, PTL

(***************************************************************************)
(* No event is dispatched twice or both dispatched and still pending, and  *)
(* a pending event is determined by its sequence number.                   *)
(***************************************************************************)
THEOREM EventsDispatchedOnce == Spec => []EachEventOnce
<1>1. IInv => EachEventOnce
  BY DEF IInv, Ordered, NumbersDistinct, EachEventOnce
<1> QED
  BY <1>1, Invariance, PTL
=============================================================================
