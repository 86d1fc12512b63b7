-------------------------- MODULE MCInstructionSet --------------------------
(***************************************************************************)
(* Every opcode, in emulation mode and in the four native width             *)
(* combinations, from three register files that sit on the edges of their    *)
(* pages and banks; immediate arithmetic on pairs of operands; and programs   *)
(* that an NMI and an IRQ may interrupt at any instruction boundary.         *)
(***************************************************************************)
EXTENDS InstructionSet

File(a, x16, y16, sp, dp, pc, pbr, dbr) ==
    [A |-> a, X |-> x16, Y |-> y16, SP |-> sp, DP |-> dp, PC |-> pc, PBR |-> pbr, DBR |-> dbr,
     P |-> [N |-> FALSE, V |-> FALSE, M |-> FALSE, X |-> FALSE, D |-> FALSE, I |-> FALSE,
            Z |-> FALSE, C |-> FALSE, E |-> FALSE]]

MCProfiles == {File(\h1280, \h01F0, \h0220, \h01F8, 0,      \h8000, 0, \h7E),
               File(0,      \hFFFF, \h8001, 0,      \hFFF8, \hFFFE, 1, \hFF),
               File(\hFF99, \h0080, \hFFFF, \hFFFF, \h0100, \h80F0, 2, 0)}
MCModes == {[E |-> TRUE, M |-> TRUE, X |-> TRUE]} \union [E : {FALSE}, M : BOOLEAN, X : BOOLEAN]
MCOperands == {<<\h10, \h80, \h7F>>, <<\hFF, \hFF, \hFF>>}
MCBackgrounds == {[fill |-> \h99, flags |-> TRUE], [fill |-> \h7F, flags |-> FALSE]}

Adders == {\h69, \hE9}
Comparers == {\hC9, \h89}
Bytes == {0, 1, 9, \h10, \h49, \h50, \h7F, \h80, \h99, \hFF}
Words == {0, \h0999, \h4999, \h5000, \h7FFF, \h8000, \h9999, \hFFFF}
MCSamples == {[opcodes |-> Adders \union Comparers, wide |-> FALSE, a |-> Bytes, b |-> Bytes],
              [opcodes |-> Adders, wide |-> TRUE, a |-> Words, b |-> Words]}

CellsAt(at, bytes) == [a \in {at + i - 1 : i \in DOMAIN bytes} |-> bytes[a - at + 1]]
Vectors(nmi, irq, brk, emulation) ==
    CellsAt(IF emulation THEN \hFFFA ELSE \hFFEA, <<Low(nmi), High(nmi)>>)
        @@ CellsAt(IF emulation THEN \hFFFE ELSE \hFFEE, <<Low(irq), High(irq)>>)
        @@ CellsAt(\hFFE6, <<Low(brk), High(brk)>>)

(* Nested calls of both kinds with pushes around them; the inner subroutine   *)
(* narrows the registers and restores the status, the IRQ handler widens them. *)
Nested ==
    [regs |-> WithMode(File(\h1234, \h5678, \h9ABC, \h0002, 0, \h8000, 0, 1),
                       [E |-> FALSE, M |-> FALSE, X |-> FALSE], FALSE),
     cells |-> CellsAt(\h8000, <<\h48, \h20, \h10, \h80, \h68>>)
                 @@ CellsAt(\h8010, <<\hDA, \h22, \h20, \h80, 1, \hFA, \h60>>)
                 @@ CellsAt(\h18020, <<8, \hE2, \h30, \h28, \h6B>>)
                 @@ CellsAt(\h9000, <<\h40>>) @@ CellsAt(\h9010, <<\h8B, \hC2, \h38, \hAB, \h40>>)
                 @@ Vectors(\h9000, \h9010, \h9000, FALSE),
     fill |-> 0, budget |-> 17, requests |-> {"NMI", "IRQ"}]

(* In emulation mode, across the wrap of the stack page, with a BRK.          *)
Emulated ==
    [regs |-> WithMode(File(\h1234, \h56, \h9A, \h0101, 0, \h8000, 0, 1),
                       [E |-> TRUE, M |-> TRUE, X |-> TRUE], FALSE),
     cells |-> CellsAt(\h8000, <<\h48, \h20, \h10, \h80, \h68>>)
                 @@ CellsAt(\h8010, <<\hDA, \hF8, 0, 0, \hFA, \h60>>)
                 @@ CellsAt(\h9000, <<\h40>>) @@ CellsAt(\h9010, <<\h38, \h40>>)
                 @@ Vectors(\h9000, \h9010, 0, TRUE),
     fill |-> 0, budget |-> 13, requests |-> {"NMI", "IRQ"}]

(* A break in native mode, outside bank 0, in each width.                    *)
Break(mode) ==
    [regs |-> WithMode(File(\h1234, \hFF, \h9A, \hFFFF, 0, \h8000, 3, 1), mode, TRUE),
     cells |-> CellsAt(\h38000, <<\h0B, 0, 0, \h2B>>) @@ CellsAt(\h9000, <<\h40>>)
                 @@ CellsAt(\h9010, <<\hC2, \h30, \h40>>) @@ Vectors(\h9000, \h9010, \h9010, FALSE),
     fill |-> 0, budget |-> 6, requests |-> {"NMI"}]

MoveProgram ==
    [regs |-> WithMode(File(Move.bytes - 1, Move.from, Move.to, \h1FF, 0, Move.at % 65536, 2, 0),
                       [E |-> FALSE, M |-> TRUE, X |-> FALSE], FALSE),
     cells |-> CellsAt(Move.at, <<\h54, Move.bank, Move.bank>>)
                 @@ CellsAt(WithBank(Move.from, Move.bank), <<11, 22, 33>>)
                 @@ CellsAt(\h9000, <<\h40>>) @@ CellsAt(\h9010, <<\h8B, \hC2, \h38, \hAB, \h40>>)
                 @@ Vectors(\h9000, \h9010, \h9000, FALSE),
     fill |-> 0, budget |-> Move.bytes + 6, requests |-> {"NMI", "IRQ"}]

MCPrograms == {Nested, Emulated, MoveProgram} \union {Break(mode) : mode \in MCModes \ {[E |-> TRUE, M |-> TRUE, X |-> TRUE]}}
=============================================================================
