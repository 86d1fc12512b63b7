------------------------------- MODULE MCDma -------------------------------
(***************************************************************************)
(* DmaController with two channels and bytes of eight values: a bank has   *)
(* 64 bytes, WRAM 128, an entry of a table at most four lines.             *)
(***************************************************************************)
EXTENDS DmaController

(* Tables: at 0 direct, two bytes a line (2 lines repeated, 2 lines once,  *)
(* end); at 16 indirect (3 lines repeated, then the header that means the  *)
(* most lines); at 61 a table that goes round the end of the bank.         *)
MCRom ==
  [i \in 0..63 |->
     CASE i = 0 -> 6 [] i \in 1..4 -> i [] i = 5 -> 2 [] i \in 6..7 -> i - 3 [] i = 8 -> 0
       [] i = 16 -> 7 [] i = 17 -> 6 [] i = 18 -> 7 [] i = 19 -> 4 [] i = 20 -> 1 [] i = 21 -> 5
       [] i = 61 -> 5 [] i = 62 -> 3 [] i = 63 -> 2
       [] OTHER -> (3 * i + i \div 8) % 8]

MCDeviceByte == [i \in 0..7 |-> (i + 3) % 8]

Chan(toA, indirect, step, mode, bbad, bank, a1t, das) ==
  [ResetChannel EXCEPT
     !.dmap = [bToA |-> toA, indirect |-> indirect, step |-> step, mode |-> mode],
     !.bbad = bbad, !.a1b = bank, !.a1t = a1t, !.das = das,
     !.dasb = IF indirect THEN "wram1" ELSE "low"]

(* Tables: channel 0 runs one in the runs with HDMA. *)
Wrapping == Chan(FALSE, FALSE, 0, 1, 7, "rom", 0, 3)    \* BBAD + 1 wraps to 0
Indirect == Chan(FALSE, TRUE, 0, 0, 2, "rom", 16, 2)
FromWram == Chan(FALSE, TRUE, 2, 3, 4, "rom", 19, 5)    \* WRAM to the WRAM port
RoundEnd == Chan(FALSE, FALSE, 1, 2, 4, "rom", 61, 2)

Pair(a, b) == [c \in {0, 1} |-> IF c = 0 THEN a ELSE b]

MCSetups ==
  {Pair(Wrapping, Chan(FALSE, FALSE, 0, 0, 4, "rom", 60, 0)),   \* a whole bank into WRAM
   Pair(Wrapping, Chan(TRUE, FALSE, 0, 7, 4, "open", 63, 4)),
   Pair(Indirect, Chan(FALSE, FALSE, 0, 0, 4, "wram0", 5, 3)),  \* WRAM to the WRAM port
   Pair(Indirect, Chan(TRUE, FALSE, 2, 0, 4, "wram1", 1, 3)),
   Pair(FromWram, Chan(TRUE, FALSE, 0, 0, 4, "low", 6, 4)),     \* out of the mirror
   Pair(FromWram, RoundEnd),
   Pair(RoundEnd, Chan(FALSE, FALSE, 2, 4, 2, "rom", 1, 6)),    \* runs into the port
   Pair(RoundEnd, Chan(TRUE, FALSE, 1, 5, 2, "wram0", 9, 5)),
   Pair(RoundEnd, Chan(FALSE, FALSE, 0, 0, 6, "rom", 33, 2))}   \* sets WMADD

MCWrites == {<<0, "a1th", 7>>, <<0, "dash", 1>>, <<0, "ntrl", 2>>, <<1, "dasl", 2>>}

(* Many bursts without HDMA, or a frame with a burst and a write in it. *)
MCBounds == {[writes |-> 0, bursts |-> 3, frames |-> 0],
             [writes |-> 1, bursts |-> 1, frames |-> 1],
             [writes |-> 2, bursts |-> 0, frames |-> 2]}
MCMasks == {{}, {0}, {1}, {0, 1}}
=============================================================================
