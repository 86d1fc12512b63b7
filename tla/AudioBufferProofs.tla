------------------------- MODULE AudioBufferProofs -------------------------
(***************************************************************************)
(* The index discipline of the audio ring, proved for every ring size,     *)
(* burst, latency, sample rate and any number of samples and flushes.      *)
(***************************************************************************)
EXTENDS AudioBuffer, NaturalFacts, SequenceTheorems

(***************************************************************************)
(* The types of the variables the two invariants below speak of.  What the *)
(* ring holds does not matter to them.                                     *)
(***************************************************************************)
Counters ==
  /\ write \in Nat /\ read \in Nat /\ cutoff \in Nat /\ upTo \in Nat
  /\ generation \in Nat /\ seen \in Nat /\ flushing \in Nat
  /\ capacity \in Nat /\ prefill \in Nat /\ recovery \in Nat
  /\ after \in {"shift", "check"}

(***************************************************************************)
(* Each side decides on an index the other side moves.  The decision stays *)
(* right because the indices only grow: what the producer found free and   *)
(* what the consumer found filled remains so until it acts, and a cutoff   *)
(* never lies beyond what was published.                                   *)
(***************************************************************************)
Indices ==
  /\ read <= write /\ write - read <= Storage
  /\ ppc \in {"store", "publish"} => write - read < Storage
  /\ cpc \in {"pop", "advance"} => read < write
  /\ cutoff <= write /\ upTo <= cutoff

(***************************************************************************)
(* The thresholds fit the ring.  Configure changes the ring under a stale  *)
(* recovery threshold, but only between callbacks, and it announces a      *)
(* generation; until the consumer has seen it the threshold is not used.   *)
(***************************************************************************)
Thresholds ==
  /\ capacity <= Storage /\ prefill + 2 * Burst <= capacity
  /\ seen <= generation /\ flushing <= generation
  /\ cpc \notin {"stopped", "frame", "cutoff", "apply"} => recovery + 2 * Burst <= capacity
  /\ cpc \in {"stopped", "frame"} /\ seen = generation => recovery + 2 * Burst <= capacity

IInv == Counters /\ Indices /\ Thresholds

-----------------------------------------------------------------------------
(***************************************************************************)
(* What Configure computes: the ring has room for the prefill and for two  *)
(* video frames above it, and fits the storage.                            *)
(***************************************************************************)
LEMMA ConfiguredSizes ==
  ASSUME NEW n \in Nominals
  PROVE  /\ CapacityFor(n) \in Nat /\ PrefillFor(n) \in Nat
         /\ CapacityFor(n) <= Storage
         /\ PrefillFor(n) + 2 * Burst <= CapacityFor(n)
<1>1. n \in Nat /\ Burst \in Nat /\ Storage \in Nat /\ n + 4 * Burst <= Storage
  BY AudioBufferAssumption
<1>2. n \div 2 \in Nat
  BY <1>1
<1> QED
  BY <1>1, <1>2 DEF CapacityFor, PrefillFor, Lesser

(***************************************************************************)
(* The ring starts empty and configured.                                   *)
(***************************************************************************)
LEMMA InitIInv == Init => IInv
<1> SUFFICES ASSUME Init PROVE IInv
  OBVIOUS
<1>1. PICK n \in Nominals : capacity = CapacityFor(n) /\ prefill = PrefillFor(n)
  BY DEF Init
<1>2. Storage \in Nat /\ Burst \in Nat
  BY AudioBufferAssumption
<1> QED
  BY <1>1, <1>2, ConfiguredSizes DEF Init, IInv, Counters, Indices, Thresholds

(***************************************************************************)
(* The producer's steps.                                                   *)
(***************************************************************************)
LEMMA ProduceKeepsIInv == IInv /\ Produce => IInv'
<1> SUFFICES ASSUME IInv, Produce PROVE IInv'
  OBVIOUS
<1>0. Storage \in Nat /\ Burst \in Nat
  BY AudioBufferAssumption
<1> USE <1>0 DEF IInv, Counters, Indices, Thresholds, consumer, control
<1>1. ASSUME NEW r \in Rates, NEW n \in Nominals, Configure(r, n)
      PROVE  IInv'
  BY <1>1, ConfiguredSizes DEF Configure
<1>2. ASSUME NEW a \in BOOLEAN, SetActive(a)
      PROVE  IInv'
  BY <1>2 DEF SetActive
<1>3. CASE FlushCutoff
  BY <1>3 DEF FlushCutoff
<1>4. CASE FlushGeneration
  BY <1>4 DEF FlushGeneration
<1>5. CASE PushBegin
  BY <1>5 DEF PushBegin
<1>6. CASE PushStore
  BY <1>6 DEF PushStore
<1>7. CASE PushPublish
  BY <1>7 DEF PushPublish
<1> QED
  BY <1>1, <1>2, <1>3, <1>4, <1>5, <1>6, <1>7 DEF Produce

(***************************************************************************)
(* The consumer's steps.                                                   *)
(***************************************************************************)
LEMMA RenderKeepsIInv == IInv /\ Render => IInv'
<1> SUFFICES ASSUME IInv, Render PROVE IInv'
  OBVIOUS
<1>0. Storage \in Nat /\ Burst \in Nat
  BY AudioBufferAssumption
<1> USE <1>0 DEF IInv, Counters, Indices, Thresholds, producer, control
<1>1. CASE RenderBegin
  BY <1>1 DEF RenderBegin
<1>2. CASE RenderEnd
  BY <1>2 DEF RenderEnd
<1>3. CASE LoadGeneration
  BY <1>3 DEF LoadGeneration
<1>4. CASE LoadCutoff
  BY <1>4 DEF LoadCutoff
<1>5. CASE ApplyFlush
  BY <1>5 DEF ApplyFlush, Larger
<1>6. CASE CheckActive
  BY <1>6 DEF CheckActive
<1>7. CASE Prime
  BY <1>7 DEF Prime
<1>8. CASE Shift
  BY <1>8 DEF Shift
<1>9. CASE ShiftEnds
  BY <1>9 DEF ShiftEnds
<1>10. CASE PopEmpty
  BY <1>10 DEF PopEmpty, WantsSample
<1>11. CASE PopBegin
  BY <1>11 DEF PopBegin, WantsSample
<1>12. CASE PopRead
  BY <1>12 DEF PopRead
<1>13. CASE PopAdvance
  BY <1>13 DEF PopAdvance
<1>14. CASE Starve
  BY <1>14 DEF Starve, Lesser
<1>15. CASE Play
  BY <1>15 DEF Play
<1> QED
  BY <1>1, <1>2, <1>3, <1>4, <1>5, <1>6, <1>7, <1>8, <1>9, <1>10, <1>11, <1>12, <1>13,
     <1>14, <1>15 DEF Render

(***************************************************************************)
(* The invariant holds in every state of every run.                        *)
(***************************************************************************)
THEOREM Invariance == Spec => []IInv
<1>1. Init => IInv
  BY InitIInv
<1>2. IInv /\ [Next]_vars => IInv'
  <2>1. IInv /\ UNCHANGED vars => IInv'
    BY DEF vars, producer, consumer, control, IInv, Counters, Indices, Thresholds
  <2> QED
    BY <2>1, ProduceKeepsIInv, RenderKeepsIInv DEF Next
<1> QED
  BY <1>1, <1>2, PTL DEF Spec

-----------------------------------------------------------------------------
(***************************************************************************)
(* PushSample never writes a slot that holds an unread sample, although it *)
(* decides on an old read index, and Render never reads an unwritten one.  *)
(***************************************************************************)
THEOREM NoOverwrite == Spec => []NeverOverwritesUnread
<1>1. IInv => NeverOverwritesUnread
  BY DEF IInv, Indices, NeverOverwritesUnread
<1> QED
  BY <1>1, Invariance, PTL

(***************************************************************************)
(* The consumer never waits for more samples than the producer can store,  *)
(* with two video frames to spare: silence always ends.                    *)
(***************************************************************************)
THEOREM RefillAlwaysReachable == Spec => []RefillReachable
<1>1. IInv => RefillReachable
  BY DEF IInv, Thresholds, RefillReachable
<1> QED
  BY <1>1, Invariance, PTL

-----------------------------------------------------------------------------
(***************************************************************************)
(* The types are right.                                                    *)
(***************************************************************************)
LEMMA StepKeepsTypes == IInv /\ TypeOK /\ [Next]_vars => TypeOK'
<1> SUFFICES ASSUME IInv, TypeOK, [Next]_vars
             PROVE  TypeOK'
  OBVIOUS
<1>0. /\ Storage \in Nat \ {0} /\ Burst \in Nat /\ InputRate \in Nat \ {0}
      /\ Rates \subseteq Nat \ {0}
  BY AudioBufferAssumption
<1> USE <1>0 DEF IInv, Counters, Indices, Thresholds, TypeOK, consumer, producer, control
<1>1. CASE UNCHANGED vars
  BY <1>1 DEF vars
<1>2. ASSUME NEW r \in Rates, NEW n \in Nominals, Configure(r, n)
      PROVE  TypeOK'
  BY <1>2, ConfiguredSizes DEF Configure
<1>3. ASSUME NEW a \in BOOLEAN, SetActive(a)
      PROVE  TypeOK'
  BY <1>3 DEF SetActive
<1>4. CASE FlushCutoff
  BY <1>4 DEF FlushCutoff
<1>5. CASE FlushGeneration
  BY <1>5 DEF FlushGeneration
<1>6. CASE PushBegin
  BY <1>6 DEF PushBegin
<1>7. CASE PushStore
  BY <1>7 DEF PushStore
<1>8. CASE PushPublish
  BY <1>8 DEF PushPublish
<1>9. CASE RenderBegin
  BY <1>9 DEF RenderBegin
<1>10. CASE RenderEnd
  BY <1>10 DEF RenderEnd
<1>11. CASE LoadGeneration
  BY <1>11 DEF LoadGeneration
<1>12. CASE LoadCutoff
  BY <1>12 DEF LoadCutoff
<1>13. CASE ApplyFlush
  BY <1>13 DEF ApplyFlush, Larger, ResetInterpolation
<1>14. CASE CheckActive
  BY <1>14 DEF CheckActive
<1>15. CASE Prime
  BY <1>15 DEF Prime
<1>16. CASE Shift
  BY <1>16 DEF Shift
<1>17. CASE ShiftEnds
  BY <1>17 DEF ShiftEnds
<1>18. CASE PopEmpty
  BY <1>18 DEF PopEmpty, WantsSample
<1>19. CASE PopBegin
  BY <1>19 DEF PopBegin, WantsSample
<1>20. CASE PopRead
  BY <1>20 DEF PopRead
<1>21. CASE PopAdvance
  BY <1>21 DEF PopAdvance
<1>22. CASE Starve
  <2>1. recovery' \in Nat
    BY <1>22 DEF Starve, Lesser
  <2> QED
    BY <1>22, <2>1 DEF Starve, ResetInterpolation
<1>23. CASE Play
  BY <1>23 DEF Play
<1> QED
  BY <1>1, <1>2, <1>3, <1>4, <1>5, <1>6, <1>7, <1>8, <1>9, <1>10, <1>11, <1>12,
     <1>13, <1>14, <1>15, <1>16, <1>17, <1>18, <1>19, <1>20, <1>21, <1>22, <1>23 DEF Next, Produce, Render

(***************************************************************************)
(* The ring's contents: every unread sample is in its slot.  The slot that *)
(* is written lies less than a turn behind, so it is none of theirs; the   *)
(* frame that was copied out is the one at the read index.                 *)
(***************************************************************************)
Contents ==
  /\ ppc \in {"store", "publish"} => write < MaxFrames
  /\ \A n \in Nat : read <= n /\ n < write => frames[n % Storage] = n
  /\ ppc = "publish" => frames[write % Storage] = write
  /\ cpc = "advance" => frame = read

(***************************************************************************)
(* Every step of either thread keeps the unread slots filled with          *)
(* consecutive stream numbers: a slot is written only ahead of the         *)
(* published index and before the index moves.                             *)
(***************************************************************************)
LEMMA StepKeepsContents == IInv /\ TypeOK /\ Contents /\ [Next]_vars => Contents'
<1> SUFFICES ASSUME IInv, TypeOK, Contents, [Next]_vars
             PROVE  Contents'
  OBVIOUS
<1>0. /\ Storage \in Nat \ {0} /\ write \in Nat /\ read \in Nat /\ MaxFrames \in Nat
      /\ read <= write /\ upTo <= write
  BY AudioBufferAssumption DEF TypeOK, IInv, Indices
<1> USE <1>0 DEF Contents, consumer, producer, control
<1>1. CASE UNCHANGED vars
  BY <1>1 DEF vars
<1>2. ASSUME NEW r \in Rates, NEW n \in Nominals, Configure(r, n)
      PROVE  Contents'
  BY <1>2 DEF Configure
<1>3. ASSUME NEW a \in BOOLEAN, SetActive(a)
      PROVE  Contents'
  BY <1>3 DEF SetActive
<1>4. CASE FlushCutoff
  BY <1>4 DEF FlushCutoff
<1>5. CASE FlushGeneration
  BY <1>5 DEF FlushGeneration
<1>6. CASE PushBegin
  BY <1>6 DEF PushBegin
<1>7. CASE PushStore
  <2>1. /\ write - read < Storage /\ write % Storage \in 0..(Storage - 1)
        /\ frames \in [0..(Storage - 1) -> Nat]
    BY <1>7 DEF PushStore, IInv, Indices, TypeOK
  <2>2. /\ frames' = [frames EXCEPT ![write % Storage] = write]
        /\ UNCHANGED <<write, read, cpc, frame>> /\ ppc' = "publish" /\ ppc = "store"
    BY <1>7 DEF PushStore
  <2>3. frames'[write % Storage] = write
    BY <2>1, <2>2
  <2>4. ASSUME NEW n \in Nat, read <= n, n < write
        PROVE  frames'[n % Storage] = n
    <3>1. n % Storage # write % Storage
      <4>1. n \in Int /\ write \in Int /\ n < write /\ write < n + Storage
        BY <2>1, <2>4
      <4> QED
        BY <4>1, DifferentSlots
    <3>2. frames[n % Storage] = n
      BY <2>4
    <3> QED
      BY <2>1, <2>2, <3>1, <3>2
  <2> QED
    BY <2>2, <2>3, <2>4
<1>8. CASE PushPublish
  BY <1>8 DEF PushPublish
<1>9. CASE RenderBegin
  BY <1>9 DEF RenderBegin
<1>10. CASE RenderEnd
  BY <1>10 DEF RenderEnd
<1>11. CASE LoadGeneration
  BY <1>11 DEF LoadGeneration
<1>12. CASE LoadCutoff
  BY <1>12 DEF LoadCutoff
<1>13. CASE ApplyFlush
  BY <1>13 DEF ApplyFlush, Larger, ResetInterpolation
<1>14. CASE CheckActive
  BY <1>14 DEF CheckActive
<1>15. CASE Prime
  BY <1>15 DEF Prime
<1>16. CASE Shift
  BY <1>16 DEF Shift
<1>17. CASE ShiftEnds
  BY <1>17 DEF ShiftEnds
<1>18. CASE PopEmpty
  BY <1>18 DEF PopEmpty, WantsSample
<1>19. CASE PopBegin
  BY <1>19 DEF PopBegin, WantsSample
<1>20. CASE PopRead
  BY <1>20 DEF PopRead, IInv, Indices
<1>21. CASE PopAdvance
  <2>1. UNCHANGED <<write, frames, ppc>> /\ read' = read + 1 /\ cpc' = after
    BY <1>21 DEF PopAdvance
  <2>2. cpc' # "advance"
    BY <2>1 DEF TypeOK
  <2>3. ASSUME NEW n \in Nat, read' <= n, n < write'
        PROVE  frames'[n % Storage] = n
    <3>1. read <= n /\ n < write
      BY <2>1, <2>3
    <3> QED
      BY <2>1, <3>1
  <2> QED
    BY <2>1, <2>2, <2>3
<1>22. CASE Starve
  BY <1>22 DEF Starve, ResetInterpolation
<1>23. CASE Play
  BY <1>23 DEF Play
<1> QED
  BY <1>1, <1>2, <1>3, <1>4, <1>5, <1>6, <1>7, <1>8, <1>9, <1>10, <1>11, <1>12,
     <1>13, <1>14, <1>15, <1>16, <1>17, <1>18, <1>19, <1>20, <1>21, <1>22, <1>23 DEF Next, Produce, Render

(***************************************************************************)
(* A flush that was announced is applied before anything more is played:   *)
(* once the consumer has seen the last generation, neither the ring nor    *)
(* the two samples it keeps reach behind that flush.  The cutoff it loads  *)
(* may already belong to a later flush, never to an earlier one.           *)
(***************************************************************************)
NothingBefore(n) ==
  read >= n /\ (left # None => left >= n) /\ (right # None => right >= n)

Flushes ==
  /\ floor <= flushed /\ flushed <= cutoff
  /\ cpc \in {"cutoff", "apply"} /\ flushing = generation => floor = flushed
  /\ cpc = "apply" => upTo >= floor
  /\ seen = generation => NothingBefore(flushed)
  /\ cpc \notin {"stopped", "frame", "cutoff", "apply"} => NothingBefore(floor)

(***************************************************************************)
(* Every step keeps the account of flushes: once the consumer has passed   *)
(* the cutoff of a flush it holds no sample from before it, in the ring or *)
(* in its interpolation pair.                                              *)
(***************************************************************************)
LEMMA StepKeepsFlushes == IInv /\ TypeOK /\ Contents /\ Flushes /\ [Next]_vars => Flushes'
<1> SUFFICES ASSUME IInv, TypeOK, Contents, Flushes, [Next]_vars
             PROVE  Flushes'
  OBVIOUS
<1>0. /\ write \in Nat /\ read \in Nat /\ cutoff \in Nat /\ generation \in Nat
      /\ seen \in Nat /\ flushing \in Nat /\ upTo \in Nat /\ floor \in Nat /\ flushed \in Nat
      /\ left \in Nat \cup {None} /\ right \in Nat \cup {None} /\ frame \in Nat /\ None = -1
      /\ cutoff <= write /\ seen <= generation /\ flushing <= generation
      /\ cpc = "advance" => frame = read
      /\ after \in {"shift", "check"}
  BY DEF TypeOK, IInv, Indices, Thresholds, Contents, None
<1> USE <1>0 DEF Flushes, NothingBefore, consumer, producer, control
<1>1. CASE UNCHANGED vars
  BY <1>1 DEF vars
<1>2. ASSUME NEW r \in Rates, NEW n \in Nominals, Configure(r, n)
      PROVE  Flushes'
  BY <1>2 DEF Configure
<1>3. ASSUME NEW a \in BOOLEAN, SetActive(a)
      PROVE  Flushes'
  BY <1>3 DEF SetActive
<1>4. CASE FlushCutoff
  BY <1>4 DEF FlushCutoff
<1>5. CASE FlushGeneration
  BY <1>5 DEF FlushGeneration
<1>6. CASE PushBegin
  BY <1>6 DEF PushBegin
<1>7. CASE PushStore
  BY <1>7 DEF PushStore
<1>8. CASE PushPublish
  BY <1>8 DEF PushPublish
<1>9. CASE RenderBegin
  BY <1>9 DEF RenderBegin
<1>10. CASE RenderEnd
  BY <1>10 DEF RenderEnd
<1>11. CASE LoadGeneration
  BY <1>11 DEF LoadGeneration
<1>12. CASE LoadCutoff
  BY <1>12 DEF LoadCutoff
<1>13. CASE ApplyFlush
  BY <1>13 DEF ApplyFlush, Larger, ResetInterpolation
<1>14. CASE CheckActive
  BY <1>14 DEF CheckActive
<1>15. CASE Prime
  BY <1>15 DEF Prime
<1>16. CASE Shift
  BY <1>16 DEF Shift
<1>17. CASE ShiftEnds
  BY <1>17 DEF ShiftEnds
<1>18. CASE PopEmpty
  BY <1>18 DEF PopEmpty, WantsSample
<1>19. CASE PopBegin
  BY <1>19 DEF PopBegin, WantsSample
<1>20. CASE PopRead
  BY <1>20 DEF PopRead
<1>21. CASE PopAdvance
  BY <1>21 DEF PopAdvance
<1>22. CASE Starve
  BY <1>22 DEF Starve, ResetInterpolation
<1>23. CASE Play
  BY <1>23 DEF Play
<1> QED
  BY <1>1, <1>2, <1>3, <1>4, <1>5, <1>6, <1>7, <1>8, <1>9, <1>10, <1>11, <1>12,
     <1>13, <1>14, <1>15, <1>16, <1>17, <1>18, <1>19, <1>20, <1>21, <1>22, <1>23 DEF Next, Produce, Render

(***************************************************************************)
(* Indices, types, contents and flushes together are an invariant.         *)
(***************************************************************************)
THEOREM FullInvariance == Spec => [](IInv /\ TypeOK /\ Contents /\ Flushes)
<1>1. Init => IInv /\ TypeOK /\ Contents /\ Flushes
  <2> SUFFICES ASSUME Init PROVE IInv /\ TypeOK /\ Contents /\ Flushes
    OBVIOUS
  <2>1. IInv
    BY InitIInv
  <2>2. /\ Storage \in Nat \ {0} /\ Burst \in Nat /\ Rates \subseteq Nat \ {0} /\ MaxFrames \in Nat
    BY AudioBufferAssumption
  <2>3. TypeOK
    <3>1. frames \in [0..(Storage - 1) -> Nat]
      BY DEF Init
    <3>2. capacity \in 0..Storage /\ recovery \in Nat /\ prefill \in Nat
      BY <2>1, <2>2 DEF IInv, Counters, Thresholds
    <3> QED
      BY <3>1, <3>2 DEF Init, TypeOK
  <2>4. Contents /\ Flushes
    BY <2>2 DEF Init, Contents, Flushes, NothingBefore
  <2> QED
    BY <2>1, <2>3, <2>4
<1>2. IInv /\ [Next]_vars => IInv'
  <2>1. IInv /\ UNCHANGED vars => IInv'
    BY DEF vars, producer, consumer, control, IInv, Counters, Indices, Thresholds
  <2> QED
    BY <2>1, ProduceKeepsIInv, RenderKeepsIInv DEF Next
<1> QED
  BY <1>1, <1>2, StepKeepsTypes, StepKeepsContents, StepKeepsFlushes, PTL DEF Spec

(***************************************************************************)
(* The variables keep their types.                                         *)
(***************************************************************************)
THEOREM TypeCorrect == Spec => []TypeOK
BY FullInvariance, PTL

(***************************************************************************)
(* A frame that begins after Flush returned plays nothing from before it.  *)
(***************************************************************************)
THEOREM FlushSilencesPast == Spec => []NothingFromBeforeFlush
<1>1. TypeOK /\ Flushes => NothingFromBeforeFlush
  BY DEF Flushes, NothingBefore, NothingFromBeforeFlush, Starved
<1> QED
  BY <1>1, FullInvariance, PTL
-----------------------------------------------------------------------------
(***************************************************************************)
(* The ring implements the bounded queue of module SampleFifo.  What the   *)
(* refinement mapping shows is the run of stream numbers from the read     *)
(* index to the write index, whatever the ring's size; those below the     *)
(* cutoff are stale.                                                       *)
(***************************************************************************)
Stale == IF read < cutoff THEN cutoff - read ELSE 0

Ring == [i \in 1..(write - read) |-> frames[(read + i - 1) % Storage]]

Held(a, b) == [i \in 1..(b - a) |-> a + i - 1]

(***************************************************************************)
(* What the refinement mapping shows is exactly the numbers from the read  *)
(* index up to the write index.                                            *)
(***************************************************************************)
LEMMA RingIsHeld == IInv /\ Contents => Ring = Held(read, write)
<1> SUFFICES ASSUME IInv, Contents PROVE Ring = Held(read, write)
  OBVIOUS
<1>1. read \in Nat /\ write \in Nat /\ read <= write
  BY DEF IInv, Counters, Indices
<1>2. ASSUME NEW i \in 1..(write - read)
      PROVE  frames[(read + i - 1) % Storage] = read + i - 1
  <2>1. read + i - 1 \in Nat /\ read <= read + i - 1 /\ read + i - 1 < write
    BY <1>1
  <2> QED
    BY <2>1 DEF Contents
<1> QED
  BY <1>2 DEF Ring, Held

(***************************************************************************)
(* Such a run under the operations of a queue.                             *)
(***************************************************************************)
LEMMA HeldIsSequence ==
  ASSUME NEW a \in Nat, NEW b \in Nat, a <= b
  PROVE  Held(a, b) \in Seq(Nat) /\ Len(Held(a, b)) = b - a
<1>1. b - a \in Nat /\ Held(a, b) \in [1..(b - a) -> Nat]
  BY DEF Held
<1> QED
  BY <1>1 DEF Held

(***************************************************************************)
(* Publishing one frame appends its number to the queue.                   *)
(***************************************************************************)
LEMMA HeldAppend ==
  ASSUME NEW a \in Nat, NEW b \in Nat, a <= b
  PROVE  Held(a, b + 1) = Append(Held(a, b), b)
<1>1. /\ Held(a, b) \in Seq(Nat) /\ Len(Held(a, b)) = b - a
      /\ Held(a, b + 1) \in Seq(Nat) /\ Len(Held(a, b + 1)) = b + 1 - a
  <2>1. PICK c \in Nat : c = b + 1
    OBVIOUS
  <2>2. Held(a, c) \in Seq(Nat) /\ Len(Held(a, c)) = c - a
    BY <2>1, HeldIsSequence
  <2>3. Held(a, b) \in Seq(Nat) /\ Len(Held(a, b)) = b - a
    BY HeldIsSequence
  <2> QED
    BY <2>1, <2>2, <2>3
<1> DEFINE more == Append(Held(a, b), b)
<1>2. more \in Seq(Nat) /\ Len(more) = b + 1 - a
  BY <1>1
<1>3. ASSUME NEW i \in 1..(b + 1 - a)
      PROVE  more[i] = Held(a, b + 1)[i]
  <2>1. Held(a, b + 1)[i] = a + i - 1
    BY DEF Held
  <2>2. CASE i \in 1..(b - a)
    <3>1. Held(a, b)[i] = a + i - 1
      BY <2>2 DEF Held
    <3>2. more[i] = Held(a, b)[i]
      BY <1>1, <2>2
    <3> QED
      BY <2>1, <3>1, <3>2
  <2>3. CASE i = b - a + 1
    <3>1. more[i] = b
      BY <1>1, <2>3
    <3> QED
      BY <2>1, <2>3, <3>1
  <2>4. i \in 1..(b - a) \/ i = b - a + 1
    OBVIOUS
  <2> QED
    BY <2>2, <2>3, <2>4
<1> QED
  BY <1>1, <1>2, <1>3, SeqEqual

(***************************************************************************)
(* Taking one frame removes the oldest number from the queue.              *)
(***************************************************************************)
LEMMA HeldHead ==
  ASSUME NEW a \in Nat, NEW b \in Nat, a < b
  PROVE  /\ Held(a, b) # <<>>
         /\ Head(Held(a, b)) = a
         /\ Tail(Held(a, b)) = Held(a + 1, b)
<1>1. /\ Held(a, b) \in Seq(Nat) /\ Len(Held(a, b)) = b - a
      /\ Held(a + 1, b) \in Seq(Nat) /\ Len(Held(a + 1, b)) = b - (a + 1)
  <2>1. a + 1 \in Nat /\ a + 1 <= b /\ a <= b
    OBVIOUS
  <2> QED
    BY <2>1, HeldIsSequence
<1>2. Held(a, b) # <<>>
  BY <1>1
<1>3. Held(a, b)[1] = a
  BY DEF Held
<1> DEFINE rest == Tail(Held(a, b))
<1>4. /\ Head(Held(a, b)) = Held(a, b)[1]
      /\ rest \in Seq(Nat) /\ Len(rest) = b - (a + 1)
      /\ \A i \in 1..Len(rest) : rest[i] = Held(a, b)[i + 1]
  BY <1>1, <1>2, HeadTailProperties
<1>5. ASSUME NEW i \in 1..(b - (a + 1))
      PROVE  rest[i] = Held(a + 1, b)[i]
  <2>1. i + 1 \in 1..(b - a) /\ i \in 1..Len(rest)
    BY <1>4
  <2>2. Held(a, b)[i + 1] = a + (i + 1) - 1
    BY <2>1 DEF Held
  <2>3. Held(a + 1, b)[i] = (a + 1) + i - 1
    BY DEF Held
  <2> QED
    BY <1>4, <2>1, <2>2, <2>3
<1>6. rest = Held(a + 1, b)
  BY <1>1, <1>4, <1>5, SeqEqual
<1> QED
  BY <1>2, <1>3, <1>4, <1>6

(***************************************************************************)
(* Moving the read index forward, as a flush and a drop do, leaves a       *)
(* suffix of the queue.                                                    *)
(***************************************************************************)
LEMMA HeldSuffix ==
  ASSUME NEW a \in Nat, NEW b \in Nat, NEW c \in Nat, a <= c, c <= b
  PROVE  SubSeq(Held(a, b), (c - a) + 1, b - a) = Held(c, b)
<1>1. /\ Held(a, b) \in Seq(Nat) /\ Len(Held(a, b)) = b - a
      /\ Held(c, b) \in Seq(Nat) /\ Len(Held(c, b)) = b - c
  <2>1. a <= b
    OBVIOUS
  <2> QED
    BY <2>1, HeldIsSequence
<1> DEFINE rest == SubSeq(Held(a, b), (c - a) + 1, b - a)
<1>2. rest = [i \in 1..((b - a) - ((c - a) + 1) + 1) |-> Held(a, b)[i + ((c - a) + 1) - 1]]
  BY <1>1
<1>3. ASSUME NEW i \in 1..(b - c)
      PROVE  rest[i] = Held(c, b)[i]
  <2>1. i + (c - a) \in 1..(b - a)
    OBVIOUS
  <2>2. Held(a, b)[i + (c - a)] = a + (i + (c - a)) - 1
    BY <2>1 DEF Held
  <2>3. Held(c, b)[i] = c + i - 1
    BY DEF Held
  <2>4. rest[i] = Held(a, b)[i + (c - a)]
    BY <1>2
  <2> QED
    BY <2>2, <2>3, <2>4
<1>4. rest = [i \in 1..(b - c) |-> rest[i]]
  BY <1>2
<1>5. Held(c, b) = [i \in 1..(b - c) |-> Held(c, b)[i]]
  BY DEF Held
<1> QED
  BY <1>3, <1>4, <1>5

(***************************************************************************)
(* Publishing a sample puts it, advancing the read index takes one,        *)
(* storing a cutoff makes stale what the ring holds, and applying a flush  *)
(* discards what lies before the cutoff it loaded, which no later cutoff   *)
(* is below; no other step changes what the ring holds.                    *)
(***************************************************************************)
LEMMA StepRefines ==
  IInv /\ TypeOK /\ Contents /\ IInv' /\ Contents' /\ [Next]_vars
    => [Fifo!Next]_<<Ring, Stale, taken>>
<1> SUFFICES ASSUME IInv, TypeOK, Contents, IInv', Contents', [Next]_vars
             PROVE  Fifo!Next \/ UNCHANGED <<Ring, Stale, taken>>
  OBVIOUS
<1>0. /\ write \in Nat /\ read \in Nat /\ upTo \in Nat /\ cutoff \in Nat
      /\ read <= write /\ upTo <= cutoff /\ cutoff <= write
      /\ write' \in Nat /\ read' \in Nat /\ read' <= write'
  BY DEF IInv, Counters, Indices
<1>1. Ring = Held(read, write) /\ Ring' = Held(read', write')
  <2>1. (IInv /\ Contents => Ring = Held(read, write))'
    BY RingIsHeld, PTL
  <2> QED
    BY <2>1, RingIsHeld
<1>2. Ring \in Seq(Nat) /\ Len(Ring) = write - read
  BY <1>0, <1>1, HeldIsSequence
<1>3. ASSUME UNCHANGED <<read, write, cutoff, taken>>
      PROVE  UNCHANGED <<Ring, Stale, taken>>
  <2>1. Ring' = Ring
    BY <1>1, <1>3
  <2>2. Stale' = Stale
    BY <1>3 DEF Stale
  <2> QED
    BY <1>3, <2>1, <2>2
<1>4. CASE PushPublish
  <2>1. ppc = "publish" /\ write' = write + 1 /\ UNCHANGED <<read, cutoff, taken>>
    BY <1>4 DEF PushPublish, consumer, control
  <2>2. Len(Ring) < Storage /\ write \in 0..MaxFrames
    BY <1>0, <1>2, <2>1, AudioBufferAssumption DEF IInv, Indices, Contents
  <2>3. Ring' = Append(Ring, write)
    BY <1>0, <1>1, <2>1, HeldAppend
  <2>4. Fifo!Put
    BY <2>1, <2>2, <2>3 DEF Fifo!Put, Ring, Stale
  <2> QED
    BY <2>4 DEF Fifo!Next
<1>5. CASE PopAdvance
  <2>1. /\ cpc = "advance" /\ read' = read + 1 /\ taken' = frame /\ UNCHANGED <<write, cutoff>>
        /\ frame = read /\ read < write
    BY <1>5 DEF PopAdvance, producer, control, Contents, IInv, Indices
  <2>2. Ring # <<>> /\ Head(Ring) = read /\ Ring' = Tail(Ring)
    BY <1>0, <1>1, <2>1, HeldHead
  <2>3. Stale' = IF Stale = 0 THEN 0 ELSE Stale - 1
    BY <1>0, <2>1 DEF Stale
  <2>4. Fifo!Take
    BY <2>1, <2>2, <2>3 DEF Fifo!Take, Ring, Stale
  <2> QED
    BY <2>4 DEF Fifo!Next
<1>6. CASE ApplyFlush
  <2>1. read' = Larger(read, upTo) /\ UNCHANGED <<write, cutoff, taken>>
    BY <1>6 DEF ApplyFlush, producer, control
  <2>2. CASE upTo <= read
    <3>1. read' = read
      BY <1>0, <2>1, <2>2 DEF Larger
    <3> QED
      BY <2>1, <3>1, <1>3
  <2>3. CASE read < upTo
    <3>1. read' = upTo
      BY <1>0, <2>1, <2>3 DEF Larger
    <3>2. Ring' = SubSeq(Ring, (upTo - read) + 1, write - read)
      <4>1. read <= upTo /\ upTo <= write
        BY <1>0, <2>3
      <4>2. SubSeq(Held(read, write), (upTo - read) + 1, write - read) = Held(upTo, write)
        BY <1>0, <4>1, HeldSuffix
      <4> QED
        BY <1>1, <2>1, <3>1, <4>2
    <3>3. upTo - read \in 1..Stale /\ Stale' = Stale - (upTo - read)
      BY <1>0, <2>1, <2>3, <3>1 DEF Stale
    <3>4. Fifo!Discard
      BY <1>2, <2>1, <3>2, <3>3 DEF Fifo!Discard, Ring, Stale
    <3> QED
      BY <3>4 DEF Fifo!Next
  <2>4. upTo <= read \/ read < upTo
    BY <1>0
  <2> QED
    BY <2>2, <2>3, <2>4
<1>7. ASSUME cutoff' = write, UNCHANGED <<read, write, taken>>
       PROVE  Fifo!Flush
  <2>1. Stale' = Len(Ring)
    BY <1>0, <1>2, <1>7 DEF Stale
  <2>2. Ring' = Ring
    BY <1>1, <1>7
  <2> QED
    BY <1>7, <2>1, <2>2 DEF Fifo!Flush, Ring, Stale
<1>8. Next \/ UNCHANGED vars
  OBVIOUS
<1>9. CASE UNCHANGED vars
  BY <1>3, <1>9 DEF vars, producer, control, consumer
<1>10. CASE Produce
  <2>1. \/ PushPublish \/ UNCHANGED <<read, write, cutoff, taken>>
        \/ cutoff' = write /\ UNCHANGED <<read, write, taken>>
    BY <1>10 DEF Produce, Configure, SetActive, FlushCutoff, FlushGeneration,
         PushBegin, PushStore, consumer, control
  <2> QED
    BY <1>4, <1>3, <1>7, <2>1 DEF Fifo!Next
<1>11. CASE Render
  <2>1. PopAdvance \/ ApplyFlush \/ UNCHANGED <<read, write, cutoff, taken>>
    BY <1>11 DEF Render, RenderBegin, RenderEnd, LoadGeneration, LoadCutoff, CheckActive,
         Prime, Shift, ShiftEnds, PopEmpty, PopBegin, PopRead, Starve, Play, producer, control
  <2> QED
    BY <1>5, <1>6, <1>3, <2>1
<1> QED
  BY <1>8, <1>9, <1>10, <1>11 DEF Next

(***************************************************************************)
(* The ring shared by the two threads is a bounded queue: samples come out *)
(* in the order they went in, each at most once and unchanged, and a flush *)
(* drops none that was pushed after it, however the threads' steps         *)
(* interleave.                                                             *)
(***************************************************************************)
THEOREM RingIsFifo == Spec => ImplementsFifo
<1>1. Init => Fifo!Init
  <2> SUFFICES ASSUME Init PROVE Ring = <<>> /\ Stale = 0 /\ taken \in 0..MaxFrames
    BY DEF Fifo!Init, Ring, Stale
  <2>1. write - read = 0 /\ taken = 0
    BY DEF Init
  <2> QED
    BY <2>1, AudioBufferAssumption DEF Ring, Stale, Init
<1>2. IInv /\ TypeOK /\ Contents /\ IInv' /\ Contents' /\ [Next]_vars
        => [Fifo!Next]_<<[i \in 1..(write - read) |-> frames[(read + i - 1) % Storage]],
                         IF read < cutoff THEN cutoff - read ELSE 0, taken>>
  BY StepRefines DEF Ring, Stale
<1> QED
  BY <1>1, <1>2, FullInvariance, PTL DEF Spec, ImplementsFifo, Fifo!Spec

=============================================================================
