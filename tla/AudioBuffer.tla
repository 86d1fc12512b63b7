---------------------------- MODULE AudioBuffer ----------------------------
(***************************************************************************)
(* The lock-free ring between the emulator thread and the host's audio     *)
(* callback (frontend/audio_buffer.cpp): one producer, one consumer, no    *)
(* locks.  One action is at most one access to a variable the other thread *)
(* writes, so the actions interleave as the atomic operations do.          *)
(*                                                                         *)
(* Only the producer moves the write index; only the consumer moves the    *)
(* read index.  The producer flushes by publishing a cutoff and then a new *)
(* generation, and the consumer applies the flush when it sees the         *)
(* generation.  A sample is its own number in the stream.  Volume, mute    *)
(* and the crossfade of the output do not touch the ring and are left out. *)
(***************************************************************************)
EXTENDS Integers, Sequences

CONSTANTS
  Storage,    \* kStorageFrames
  Burst,      \* kVideoBurstFrames
  InputRate,  \* kInputSampleRate
  Rates,      \* device sample rates
  Nominals,   \* nominal latencies in frames, after Configure's clamp
  MaxFrames,  \* bound: samples pushed
  MaxFlushes  \* bound: flushes

(***************************************************************************)
(* The last conjunct is the static_assert of audio_buffer.h.               *)
(***************************************************************************)
ASSUME AudioBufferAssumption ==
  /\ Storage \in Nat \ {0} /\ Burst \in Nat /\ InputRate \in Nat \ {0}
  /\ Rates \subseteq Nat \ {0} /\ Nominals \subseteq Nat
  /\ MaxFrames \in Nat /\ MaxFlushes \in Nat
  /\ \A n \in Nominals : n + 4 * Burst <= Storage

VARIABLES
  write,      \* write_index_
  read,       \* read_index_
  frames,     \* frames_
  cutoff,     \* flush_cutoff_
  generation, \* generation_
  active,     \* active_
  capacity,   \* capacity_frames_
  prefill,    \* prefill_frames_
  rate,       \* sample_rate_
  ppc,        \* where the producer is
  cpc,        \* where the consumer is
  seen,       \* consumer_generation_
  flushing,   \* the generation ApplyFlush loaded
  upTo,       \* the cutoff ApplyFlush loaded
  primed, recovery, phase,  \* primed_, recovery_prefill_, phase_
  left, right,              \* left_ and right_, None when have_*_ is false
  frame,      \* what Pop copied out of the ring
  after,      \* where the consumer continues after Pop
  taken,      \* history: the sample popped last
  flushed,    \* history: the cutoff of the last completed Flush
  floor       \* history: flushed when this frame loaded the generation

None == -1

control == <<cutoff, generation, active, capacity, prefill, rate>>
consumer == <<read, cpc, seen, flushing, upTo, primed, recovery, phase,
              left, right, frame, after, taken, floor>>
producer == <<write, frames, ppc, control, flushed>>
vars == <<producer, consumer>>

Lesser(a, b) == IF a < b THEN a ELSE b
Larger(a, b) == IF a > b THEN a ELSE b

CapacityFor(nominal) == nominal + 4 * Burst
PrefillFor(nominal) == Lesser(nominal, nominal \div 2 + Burst)

Init ==
  /\ write = 0 /\ read = 0
  /\ frames = [i \in 0..(Storage - 1) |-> 0]
  /\ cutoff = 0 /\ generation = 0 /\ active = FALSE
  /\ \E n \in Nominals : capacity = CapacityFor(n) /\ prefill = PrefillFor(n)
  /\ rate \in Rates
  /\ ppc = "idle" /\ cpc = "stopped"
  /\ seen = 0 /\ flushing = 0 /\ upTo = 0
  /\ primed = FALSE /\ recovery = prefill /\ phase = 0
  /\ left = None /\ right = None /\ frame = 0 /\ after = "shift"
  /\ taken = 0 /\ flushed = 0 /\ floor = 0

-----------------------------------------------------------------------------
(***************************************************************************)
(* The producer.  Configure runs with the device callback stopped; the     *)
(* other operations race with it.                                          *)
(***************************************************************************)
Configure(r, nominal) ==
  /\ ppc = "idle" /\ cpc = "stopped" /\ generation < MaxFlushes
  /\ rate' = r
  /\ capacity' = CapacityFor(nominal) /\ prefill' = PrefillFor(nominal)
  /\ cutoff' = write /\ generation' = generation + 1 /\ flushed' = write
  /\ UNCHANGED <<write, frames, ppc, active, consumer>>

SetActive(a) ==
  /\ ppc = "idle" /\ a # active /\ generation < MaxFlushes
  /\ active' = a
  /\ ppc' = "flush"
  /\ UNCHANGED <<write, frames, cutoff, generation, capacity, prefill, rate, flushed,
                 consumer>>

(***************************************************************************)
(* Flush: the cutoff is published before the generation that announces it. *)
(***************************************************************************)
FlushCutoff ==
  /\ ppc = "flush" \/ (ppc = "idle" /\ generation < MaxFlushes)
  /\ cutoff' = write
  /\ ppc' = "generation"
  /\ UNCHANGED <<write, frames, generation, active, capacity, prefill, rate, flushed,
                 consumer>>

FlushGeneration ==
  /\ ppc = "generation"
  /\ generation' = generation + 1
  /\ flushed' = cutoff
  /\ ppc' = "idle"
  /\ UNCHANGED <<write, frames, cutoff, active, capacity, prefill, rate, consumer>>

(***************************************************************************)
(* PushSample: load the read index, and drop the sample when the ring is   *)
(* full; write the frame; publish the write index.                         *)
(***************************************************************************)
(* Mutant: the bound is off by one. *)
PushBeginOverfull ==
  /\ ppc = "idle" /\ active /\ write < MaxFrames
  /\ write - read <= capacity
  /\ ppc' = "store"
  /\ UNCHANGED <<write, frames, control, flushed, consumer>>

PushBegin ==
  /\ ppc = "idle" /\ active /\ write < MaxFrames
  /\ write - read < capacity
  /\ ppc' = "store"
  /\ UNCHANGED <<write, frames, control, flushed, consumer>>

PushStore ==
  /\ ppc = "store"
  /\ frames' = [frames EXCEPT ![write % Storage] = write]
  /\ ppc' = "publish"
  /\ UNCHANGED <<write, control, flushed, consumer>>

PushPublish ==
  /\ ppc = "publish"
  /\ write' = write + 1
  /\ ppc' = "idle"
  /\ UNCHANGED <<frames, control, flushed, consumer>>

-----------------------------------------------------------------------------
(***************************************************************************)
(* The consumer.  Render starts with ApplyFlush, and so does every frame.  *)
(***************************************************************************)
RenderBegin ==
  /\ cpc = "stopped"
  /\ cpc' = "frame"
  /\ UNCHANGED <<producer, read, seen, flushing, upTo, primed, recovery, phase,
                 left, right, frame, after, taken, floor>>

RenderEnd ==
  /\ cpc = "frame"
  /\ cpc' = "stopped"
  /\ UNCHANGED <<producer, read, seen, flushing, upTo, primed, recovery, phase,
                 left, right, frame, after, taken, floor>>

(***************************************************************************)
(* ApplyFlush.                                                             *)
(***************************************************************************)
LoadGeneration ==
  /\ cpc = "frame"
  /\ flushing' = generation
  /\ floor' = flushed
  /\ cpc' = IF generation = seen THEN "active" ELSE "cutoff"
  /\ UNCHANGED <<producer, read, seen, upTo, primed, recovery, phase, left, right,
                 frame, after, taken>>

(* Mutant: the callback flushes up to the samples of now. *)
LoadCutoffAtWrite ==
  /\ cpc = "cutoff"
  /\ upTo' = write
  /\ cpc' = "apply"
  /\ UNCHANGED <<producer, read, seen, flushing, primed, recovery, phase, left, right,
                 frame, after, taken, floor>>

LoadCutoff ==
  /\ cpc = "cutoff"
  /\ upTo' = cutoff
  /\ cpc' = "apply"
  /\ UNCHANGED <<producer, read, seen, flushing, primed, recovery, phase, left, right,
                 frame, after, taken, floor>>

ResetInterpolation ==
  left' = None /\ right' = None /\ phase' = 0 /\ primed' = FALSE

(* Mutant: the threshold of before the flush stays. *)
ApplyFlushKeepsRecovery ==
  /\ cpc = "apply"
  /\ read' = Larger(read, upTo)
  /\ seen' = flushing
  /\ ResetInterpolation
  /\ cpc' = "active"
  /\ UNCHANGED <<producer, recovery, flushing, upTo, frame, after, taken, floor>>

(* Mutant: the resampler keeps its two samples. *)
ApplyFlushKeepsInterpolation ==
  /\ cpc = "apply"
  /\ read' = Larger(read, upTo)
  /\ seen' = flushing
  /\ recovery' = prefill
  /\ cpc' = "active"
  /\ UNCHANGED <<producer, left, right, phase, primed, flushing, upTo, frame, after,
                 taken, floor>>

ApplyFlush ==
  /\ cpc = "apply"
  /\ read' = Larger(read, upTo)
  /\ seen' = flushing
  /\ ResetInterpolation
  /\ recovery' = prefill
  /\ cpc' = "active"
  /\ UNCHANGED <<producer, flushing, upTo, frame, after, taken, floor>>

CheckActive ==
  /\ cpc = "active"
  /\ cpc' = IF ~active THEN "frame" ELSE IF primed THEN "shift" ELSE "prime"
  /\ UNCHANGED <<producer, read, seen, flushing, upTo, primed, recovery, phase,
                 left, right, frame, after, taken, floor>>

(***************************************************************************)
(* A frame is silent until the ring holds recovery_prefill_ samples.       *)
(***************************************************************************)
Prime ==
  /\ cpc = "prime"
  /\ primed' = (write - read >= recovery)
  /\ cpc' = IF primed' THEN "shift" ELSE "frame"
  /\ UNCHANGED <<producer, read, seen, flushing, upTo, recovery, phase, left, right,
                 frame, after, taken, floor>>

(***************************************************************************)
(* The resampler.  "shift" is its while loop, with the pop of left_ before *)
(* it; "tail" is the pop of right_ after it; "check" decides.              *)
(***************************************************************************)
Shift ==
  /\ cpc = "shift" /\ left # None /\ phase >= rate /\ right # None
  /\ phase' = phase - rate
  /\ left' = right /\ right' = None
  /\ UNCHANGED <<producer, read, cpc, seen, flushing, upTo, primed, recovery, frame,
                 after, taken, floor>>

ShiftEnds ==
  /\ cpc = "shift" /\ left # None /\ phase < rate
  /\ cpc' = IF phase # 0 /\ right = None THEN "tail" ELSE "check"
  /\ UNCHANGED <<producer, read, seen, flushing, upTo, primed, recovery, phase,
                 left, right, frame, after, taken, floor>>

WantsSample ==
  \/ cpc = "shift" /\ left = None
  \/ cpc = "shift" /\ phase >= rate /\ right = None
  \/ cpc = "tail"

(***************************************************************************)
(* Pop: compare the indices, copy the frame out, and only then give its    *)
(* slot back to the producer.                                              *)
(***************************************************************************)
PopEmpty ==
  /\ WantsSample /\ read = write
  /\ cpc' = IF cpc = "shift" /\ left # None THEN "tail" ELSE "check"
  /\ UNCHANGED <<producer, read, seen, flushing, upTo, primed, recovery, phase,
                 left, right, frame, after, taken, floor>>

PopBegin ==
  /\ WantsSample /\ read # write
  /\ cpc' = "pop"
  /\ after' = IF cpc = "shift" THEN "shift" ELSE "check"
  /\ UNCHANGED <<producer, read, seen, flushing, upTo, primed, recovery, phase,
                 left, right, frame, taken, floor>>

PopRead ==
  /\ cpc = "pop"
  /\ frame' = frames[read % Storage]
  /\ cpc' = "advance"
  /\ UNCHANGED <<producer, read, seen, flushing, upTo, primed, recovery, phase,
                 left, right, after, taken, floor>>

PopAdvance ==
  /\ cpc = "advance"
  /\ read' = read + 1
  /\ taken' = frame
  /\ IF left = None THEN left' = frame /\ UNCHANGED right
                    ELSE right' = frame /\ UNCHANGED left
  /\ cpc' = after
  /\ UNCHANGED <<producer, seen, flushing, upTo, primed, recovery, phase, frame, after,
                 floor>>

Starved == left = None \/ phase >= rate \/ (phase # 0 /\ right = None)

(***************************************************************************)
(* Starvation: start over, and ask for one burst more before playing on.   *)
(***************************************************************************)
Starve ==
  /\ cpc = "check" /\ Starved
  /\ ResetInterpolation
  /\ recovery' = Lesser(recovery + Burst, capacity - 2 * Burst)
  /\ cpc' = "frame"
  /\ UNCHANGED <<producer, read, seen, flushing, upTo, frame, after, taken, floor>>

Play ==
  /\ cpc = "check" /\ ~Starved
  /\ phase' = phase + InputRate
  /\ cpc' = "frame"
  /\ UNCHANGED <<producer, read, seen, flushing, upTo, primed, recovery, left, right,
                 frame, after, taken, floor>>

-----------------------------------------------------------------------------

Produce ==
  \/ \E r \in Rates, n \in Nominals : Configure(r, n)
  \/ \E a \in BOOLEAN : SetActive(a)
  \/ FlushCutoff \/ FlushGeneration
  \/ PushBegin \/ PushStore \/ PushPublish

Render ==
  \/ RenderBegin \/ RenderEnd
  \/ LoadGeneration \/ LoadCutoff \/ ApplyFlush
  \/ CheckActive \/ Prime
  \/ Shift \/ ShiftEnds \/ PopEmpty \/ PopBegin \/ PopRead \/ PopAdvance
  \/ Starve \/ Play

Next == Produce \/ Render

Spec == Init /\ [][Next]_vars

-----------------------------------------------------------------------------

TypeOK ==
  /\ write \in Nat /\ read \in Nat
  /\ frames \in [0..(Storage - 1) -> Nat]
  /\ cutoff \in Nat /\ generation \in Nat /\ active \in BOOLEAN
  /\ capacity \in 0..Storage /\ prefill \in Nat /\ rate \in Rates
  /\ ppc \in {"idle", "flush", "generation", "store", "publish"}
  /\ cpc \in {"stopped", "frame", "cutoff", "apply", "active", "prime", "shift", "tail",
              "pop", "advance", "check"}
  /\ seen \in Nat /\ flushing \in Nat /\ upTo \in Nat
  /\ primed \in BOOLEAN /\ recovery \in Nat /\ phase \in Nat
  /\ left \in Nat \cup {None} /\ right \in Nat \cup {None}
  /\ frame \in Nat /\ after \in {"shift", "check"}
  /\ taken \in Nat /\ flushed \in Nat /\ floor \in Nat

(***************************************************************************)
(* The producer never writes a slot that holds an unread sample or that    *)
(* the consumer is copying, although it decides on an old read index and   *)
(* the consumer's flush moves that index; and the consumer never runs      *)
(* ahead of the samples that were published.                               *)
(***************************************************************************)
NeverOverwritesUnread ==
  /\ read <= write /\ write - read <= Storage
  /\ ppc \in {"store", "publish"} => write - read < Storage
  /\ cpc \in {"pop", "advance"} => read < write

(***************************************************************************)
(* The ring is a bounded queue: samples come out in the order they went    *)
(* in, each at most once, unchanged; a flush discards only samples written *)
(* before its cutoff was stored, whichever of several flushes the callback *)
(* believes it applies.                                                    *)
(***************************************************************************)
Fifo ==
  INSTANCE SampleFifo WITH
    Sample <- 0..MaxFrames, Bound <- Storage,
    contents <- [i \in 1..(write - read) |-> frames[(read + i - 1) % Storage]],
    stale <- IF read < cutoff THEN cutoff - read ELSE 0

ImplementsFifo == Fifo!Spec

(***************************************************************************)
(* A frame that begins after Flush returned plays nothing that was pushed  *)
(* before the flush: neither from the ring nor from the two samples the    *)
(* resampler keeps.                                                        *)
(***************************************************************************)
NothingFromBeforeFlush ==
  cpc = "check" /\ ~Starved =>
    left >= floor /\ (right # None => right >= floor)

(***************************************************************************)
(* Playback can always resume: while the consumer waits for its prefill,   *)
(* the producer has room to reach it and for two video frames more.  The   *)
(* threshold grows at each starvation and Configure may shrink the ring.   *)
(***************************************************************************)
RefillReachable == cpc = "prime" => recovery + 2 * Burst <= capacity
=============================================================================
