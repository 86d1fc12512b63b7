--------------------------- MODULE MCAudioBuffer ---------------------------
(***************************************************************************)
(* AudioBuffer with a video burst of one frame, a ring of six slots, which *)
(* wraps, and a device that is slower or faster than the input.            *)
(***************************************************************************)
EXTENDS AudioBuffer

MCRates == {1, 3}
MCNominals == {1, 2}
=============================================================================
