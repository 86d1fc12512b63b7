----------------------------- MODULE SampleFifo -----------------------------
(***************************************************************************)
(* What the audio ring promises the two threads that share it: a bounded   *)
(* first-in first-out queue.  The writer may declare stale what it has     *)
(* written so far, and the reader may then throw away stale samples, the   *)
(* oldest first, but never one that was written after.                     *)
(***************************************************************************)
EXTENDS Naturals, Sequences

CONSTANTS
  Sample,   \* what is stored
  Bound     \* the most samples it ever holds

VARIABLES
  contents,  \* the samples written and not yet taken or discarded
  stale,     \* how many of them were written before the last flush
  taken      \* the sample taken last

Init == contents = <<>> /\ stale = 0 /\ taken \in Sample

Put ==
  /\ Len(contents) < Bound
  /\ \E s \in Sample : contents' = Append(contents, s)
  /\ UNCHANGED <<stale, taken>>

Take ==
  /\ contents # <<>>
  /\ taken' = Head(contents)
  /\ contents' = Tail(contents)
  /\ stale' = IF stale = 0 THEN 0 ELSE stale - 1

Flush ==
  /\ stale' = Len(contents)
  /\ UNCHANGED <<contents, taken>>

Discard ==
  \E n \in 1..stale :
    /\ contents' = SubSeq(contents, n + 1, Len(contents))
    /\ stale' = stale - n
    /\ UNCHANGED taken

Next == Put \/ Take \/ Flush \/ Discard

Spec == Init /\ [][Next]_<<contents, stale, taken>>
=============================================================================
