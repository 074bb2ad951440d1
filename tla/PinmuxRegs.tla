----------------------------- MODULE PinmuxRegs -----------------------------
(***************************************************************************)
(* PINMUX of include/haven_regdef.h: a pad's SEL register names the signal   *)
(* that drives it, a signal's SEL register the pad it listens to.            *)
(***************************************************************************)
EXTENDS Registers

PadSel == [DIOM |-> \h0, DIOA |-> \h28, DIOB |-> \ha0]
Pads(off, count, ctl) == Every(8, off, count, Zero) @@ Every(8, off + 4, count, ctl)
(* DIOM0..4, DIOA0..14, DIOB0..7, RESETB, VIO0..1: SEL and CTL. *)
PadRegisters ==
    {Pads(PadSel.DIOM, 5, Lo(3)), Pads(PadSel.DIOA, 15, Lo(3)), Pads(PadSel.DIOB, 8, Lo(3)),
     Pads(\he0, 1, Lo(7)), Pads(\he8, 2, Lo(3))}
(* GPIO, I2C, I2CS, PMU, RTC, SPI and SPS; TEMP to XO, and the wake-up registers. *)
FirstSignal == \hf8
SignalRegisters == {Block(FirstSignal, 60, Zero)}
MoreSignalRegisters == {Block(\h1e8, 39, Zero), Block(\h284, 4, Zero)}
PinmuxResets == PadRegisters \cup SignalRegisters \cup MoreSignalRegisters

(* The numbers by which SEL registers name pads and signals. *)
PadCode ==
    [DIOM |-> [i \in 0 .. 4 |-> \h1e - i], DIOA |-> [i \in 0 .. 14 |-> \h19 - i],
     DIOB |-> [i \in 0 .. 7 |-> \ha - i], VIO |-> [i \in 0 .. 1 |-> 2 - i]]
SignalCode == [a \in {FirstSignal + 4 * i : i \in 0 .. 98} |-> 1 + (a - FirstSignal) \div 4]

-----------------------------------------------------------------------------
(* Fields: DS, IE, PD, PU, INV of a pad; a flag for each pad that may wake the chip. *)
PadCtl == <<2, 1, 1, 1, 1>>
CtlDiom == {Every(8, PadSel.DIOM + 4, 5, Widths(PadCtl))}
CtlDioa == {Every(8, PadSel.DIOA + 4, 15, Widths(PadCtl))}
CtlDiob == {Every(8, PadSel.DIOB + 4, 8, Widths(PadCtl))}
CtlOthers == {Every(8, \he4, 3, Widths(PadCtl))}
ExitEn == {Reg(\h284, Flags(30))}
ExitEdge == {Reg(\h288, Flags(30))}
ExitInv == {Reg(\h28c, Flags(30))}
PinmuxFields ==
    CtlDiom \cup CtlDioa \cup CtlDiob \cup CtlOthers \cup ExitEn \cup ExitEdge \cup ExitInv
=============================================================================
