------------------------------ MODULE HvTimer ------------------------------
(***************************************************************************)
(* The H/V interrupt timer of CpuMmio (hw/5a22/cpu_mmio.cpp): the mode in  *)
(* NMITIMEN bits 5:4, HTIME and VTIME, the TIMEUP latch, and the match it  *)
(* keeps scheduled as a kHIrqMatch signal.                                 *)
(*                                                                         *)
(* The scheduler cannot cancel an event.  A timer write schedules a new    *)
(* match and leaves the old event in the queue; the handler drops an event *)
(* whose time is not the scheduled match.  The PPU is lazy: the match is   *)
(* computed from the cursor the PPU last caught up to, which may lie in    *)
(* the middle of a dot and behind the master time of the write.            *)
(*                                                                         *)
(* These are the timer's operations; module Machine puts the program, the  *)
(* processor loop and the scheduler's drains around them.                  *)
(***************************************************************************)
EXTENDS SignalQueue, PpuTimeline, FiniteSetsExt

VARIABLES
  queue,      \* Scheduler::signal_queue_
  nextSeq,    \* Scheduler::next_signal_seq_
  mode,       \* NMITIMEN bits 5:4
  htime,
  vtime,
  timeup,     \* timeup_latch_
  match       \* scheduled_match_time_, Forever when kNoMatch

IrqModes == {"off", "h", "v", "hv"}
HEnabled(m) == m \in {"h", "hv"}
VEnabled(m) == m \in {"v", "hv"}

-----------------------------------------------------------------------------

(***************************************************************************)
(* ComputeNextMatch: the first candidate after t, walking forward from the *)
(* PPU cursor p.  frame_origin is the cursor's local time less the whole   *)
(* dots of the frame so far; the cycles into the present dot stay in it.   *)
(* With H only every line is a candidate, from the cursor's line on.       *)
(***************************************************************************)
ReachableMatch(m, ht, vt) ==
  (VEnabled(m) => vt < LinesPerFrame) /\ (HEnabled(m) => ht < DotsPerLine)

CursorOrigin(p) ==
  LET c == BeamAt(p) IN p - MasterCycleAt(c.h, c.v, 0, c.field)

CandidatesFrozenField(m, ht, vt, t, p) ==
  LET c == BeamAt(p)
      frames == 0..(2 * (1 + t \div TwoFrames))
      origin(k) == CursorOrigin(p) + k * FrameCycles(c.field)
      h == IF HEnabled(m) THEN ht ELSE 0
      lines(k) == IF VEnabled(m) THEN {vt}
                  ELSE (IF k = 0 THEN c.v ELSE 0)..(LinesPerFrame - 1)
  IN  UNION {{MasterCycleAt(h, v, origin(k), c.field) : v \in lines(k)} : k \in frames}

Candidates(m, ht, vt, t, p) ==
  LET c == BeamAt(p)
      frames == 0..(2 * (1 + t \div TwoFrames))
      field(k) == IF k % 2 = 0 THEN c.field ELSE ~c.field
      origin(k) == CursorOrigin(p) + (k \div 2) * TwoFrames
                     + (IF k % 2 = 0 THEN 0 ELSE FrameCycles(c.field))
      h == IF HEnabled(m) THEN ht ELSE 0
      lines(k) == IF VEnabled(m) THEN {vt}
                  ELSE (IF k = 0 THEN c.v ELSE 0)..(LinesPerFrame - 1)
  IN  UNION {{MasterCycleAt(h, v, origin(k), field(k)) : v \in lines(k)} : k \in frames}

ComputeNextMatch(m, ht, vt, t, p) ==
  IF ReachableMatch(m, ht, vt)
  THEN Min({c \in Candidates(m, ht, vt, t, p) : c > t})
  ELSE Forever

(***************************************************************************)
(* ScheduleSignal, for the requests of one handler, on the events q.       *)
(***************************************************************************)
Push(q, reqs) ==
  /\ queue' = q \cup Scheduled(reqs, nextSeq)
  /\ nextSeq' = nextSeq + Len(reqs)

(***************************************************************************)
(* RescheduleIrqMatchFrom(t), with the PPU cursor at p.                    *)
(***************************************************************************)
RescheduleIrqMatchFrom(t, p, q) ==
  LET m == IF mode' = "off" THEN Forever
           ELSE ComputeNextMatch(mode', htime', vtime', t, p)
  IN  /\ match' = m
          /\ Push(q, IF m = Forever THEN <<>> ELSE <<[time |-> m, kind |-> HIrqMatch]>>)

(***************************************************************************)
(* A write of NMITIMEN at bus time t that selects mode m.  Turning the     *)
(* timer off drops the latch and the match but not the queued event; a     *)
(* write that keeps the mode schedules nothing.  p is where the PPU is     *)
(* after OnNmiTimenChanged, which samples /NMI when bit 7 changes.         *)
(***************************************************************************)
WriteNmiTimen(m, t, p) ==
  /\ mode' = m
  /\ UNCHANGED <<htime, vtime>>
  /\ CASE m = mode ->
            UNCHANGED <<timeup, match, queue, nextSeq>>
       [] m # mode /\ m = "off" ->
            /\ timeup' = FALSE
            /\ match' = Forever
            /\ UNCHANGED <<queue, nextSeq>>
       [] m # mode /\ m # "off" ->
            /\ UNCHANGED timeup
            /\ RescheduleIrqMatchFrom(t, p, queue)

(***************************************************************************)
(* A write of HTIME or VTIME at bus time t.                                *)
(***************************************************************************)
WriteTimeNoRearm(ht, vt, t, p) ==
  /\ htime' = ht
  /\ vtime' = vt
  /\ UNCHANGED <<mode, timeup, match, queue, nextSeq>>

WriteTime(ht, vt, t, p) ==
  /\ htime' = ht
  /\ vtime' = vt
  /\ UNCHANGED <<mode, timeup>>
  /\ IF mode = "off"
     THEN UNCHANGED <<match, queue, nextSeq>>
     ELSE RescheduleIrqMatchFrom(t, p, queue)

(***************************************************************************)
(* A read of TIMEUP ($4211) acknowledges the interrupt.                    *)
(***************************************************************************)
ReadTimeUp ==
  /\ timeup' = FALSE
  /\ UNCHANGED <<mode, htime, vtime, match, queue, nextSeq>>

(***************************************************************************)
(* The kHIrqMatch handler and HandleIrqMatch, run for event e when every   *)
(* device is at p.  An event whose time is not the match is stale.         *)
(***************************************************************************)
OnIrqMatchKeepsStale(e, p) ==
  /\ UNCHANGED <<mode, htime, vtime>>
  /\ timeup' = TRUE
  /\ RescheduleIrqMatchFrom(e.time, p, queue \ {e})

OnIrqMatchNoRearm(e, p) ==
  /\ UNCHANGED <<mode, htime, vtime, match>>
  /\ timeup' = (timeup \/ match = e.time)
  /\ Push(queue \ {e}, <<>>)

OnIrqMatch(e, p) ==
  /\ UNCHANGED <<mode, htime, vtime>>
  /\ \/ /\ match # e.time
        /\ UNCHANGED <<timeup, match>>
        /\ Push(queue \ {e}, <<>>)
     \/ /\ match = e.time
        /\ timeup' = TRUE
        /\ RescheduleIrqMatchFrom(e.time, p, queue \ {e})

-----------------------------------------------------------------------------

(***************************************************************************)
(* The timer cannot go dead: while a reachable match is programmed, a      *)
(* match is scheduled and an event for it is queued, whatever writes and   *)
(* stale events came between (no path clears match and loses the event).   *)
(***************************************************************************)
ArmedIsQueued ==
  mode # "off" /\ ReachableMatch(mode, htime, vtime) =>
    /\ match # Forever
    /\ \E e \in queue : e.kind = HIrqMatch /\ e.time = match

(***************************************************************************)
(* A dot that the timer is programmed for begins at time t.                *)
(***************************************************************************)
MatchesDot(t) ==
  DotBegins(IF HEnabled(mode) THEN htime ELSE 0,
            IF VEnabled(mode) THEN vtime ELSE BeamAt(t).v, t)
=============================================================================
