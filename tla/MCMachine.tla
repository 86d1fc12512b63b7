----------------------------- MODULE MCMachine -----------------------------
(***************************************************************************)
(* Machine on a raster of four lines of three dots: a line is 7 cycles, a  *)
(* frame 28, and 27 when its field is set.  VBlank starts on line 2, with  *)
(* overscan on line 3, which is also the short line.  The timer runs have  *)
(* frames of three lines, 21 or 20 cycles, VBlank and the short line being *)
(* line 1.                                                                 *)
(***************************************************************************)
EXTENDS Machine

MCLongDots == {1}
MCHTimes == {2, 3}
MCVTimes == {2}
MCNoBudget == {Forever}
MCBudgets == {Forever, 5}
MCDmaLengths == {3}
MCHdmaLineCosts == {1}
MCLongHdmaLineCosts == {3}

MCCost ==
  [i \in {"fetch", "op", "sei", "cli", "nmi", "irq", "wai", "stp", "nmitimen",
          "timer", "timeup", "mdmaen", "hdmaen"} |->
     IF i \in {"op", "nmi", "irq"} THEN 2 ELSE 1]

MCNmiProgram == {"op", "nmitimen", "wai", "stp", "mdmaen", "hdmaen"}

MCTimerProgram == {"sei", "cli", "wai", "timer", "timeup"}
=============================================================================
