------------------------------ MODULE FuseRegs ------------------------------
(***************************************************************************)
(* FUSE of include/haven_regdef.h.  Fuse number k, in the order of           *)
(* signing/fuses.xml, is the register at 0x30 + 4k; its value lies in the     *)
(* lowest bits, and the bits above it read 0x55555555.                        *)
(***************************************************************************)
EXTENDS Registers

FusePad == Hex(\h5555, \h5555)
FuseOffset(fuse) == \h30 + 4 * fuse

(* Widths of the fuses, bank by bank. *)
FuseBank0 == <<24, 3, 9, 9, 9, 32, 32>>
FuseBist == <<24, 3, 3, 2, 3, 2, 3, 2, 3, 2, 3, 2, 3, 2, 3, 2, 3, 2, 3, 2, 3, 2,
              25, 25, 3, 3>>
FuseAnalog == <<3, 3, 3, 3, 3, 8, 3, 8, 3, 8, 3, 5, 3, 8, 3, 3, 4, 3, 3, 3, 4, 12,
                3, 5, 3, 4, 2, 3, 3>>
FuseLocks == <<3, 24, 3, 3, 3, 3, 8>>
FuseFirmware == <<24, 3, 8, 16, 12, 8, 8, 1, 7, 16, 16, 8, 16, 1, 1, 1,
                  8, 8, 8, 8, 8, 8, 1, 1, 1, 1>>
FuseRbox == [i \in 1 .. 22 |-> IF i <= 9 THEN 1 ELSE 2]
FuseBank4 == <<24, 3, 8, 8, 8, 8, 8, 8, 5>>
FuseWidth ==
    FuseBank0 \o FuseBist \o FuseAnalog \o FuseLocks \o FuseFirmware \o FuseRbox \o FuseBank4
FuseCount == Len(FuseWidth)
FuseField(fuse) == <<0, FuseWidth[fuse + 1]>>
(* What fuse k's register reads when the fuse holds value. *)
FuseWord(fuse, value) == (FusePad \ Mask(FuseField(fuse))) \cup value

(* The registers behind them program the fuses; there are ten more. *)
ProgBist == FuseBank0 \o FuseBist \o <<3, 32>>
ProgAnalog == FuseAnalog \o [i \in 1 .. 8 |-> 32]
ProgFirmware == FuseLocks \o FuseFirmware
ProgRbox == FuseRbox \o FuseBank4
ProgWidth == ProgBist \o ProgAnalog \o ProgFirmware \o ProgRbox
ProgOffset == FuseOffset(FuseCount)
(* A table from a sequence: entry i for the register at from + 4(i - 1). *)
InOrder(from, s) ==
    [a \in {from + 4 * (i - 1) : i \in 1 .. Len(s)} |-> s[(a - from) \div 4 + 1]]

-----------------------------------------------------------------------------
(* STATUS, the start, error and scrub registers, VERSION. *)
FuseControl ==
    {Block(\h0, 5, Zero), Reg(\h14, Hex(\hff, \hffff)), Reg(\h18, Lo(\h7fff)),
     Block(\h1c, 2, Zero), Reg(\h24, Hex(1, \hd4c0)), Reg(\h28, Zero), Reg(\h2c, Hex(\h101, \h4125))}
BlankFuses == {InOrder(FuseOffset(0), [i \in 1 .. FuseCount |-> FuseWord(i - 1, Zero)])}
ProgRegisters == {Block(ProgOffset, Len(ProgWidth), Zero)}
FuseResets == FuseControl \cup BlankFuses \cup ProgRegisters

FuseControlFields ==
    {Reg(\h0, Flags(8)), Reg(\h10, Flags(1)), Reg(\h28, Flags(4)), Reg(\h2c, Widths(<<24, 8>>))}
FuseFields ==
    FuseControlFields
        \cup {InOrder(FuseOffset(0), [i \in 1 .. FuseCount |-> {FuseField(i - 1)}]),
              InOrder(ProgOffset, [i \in 1 .. Len(ProgWidth) |-> {<<0, ProgWidth[i]>>}])}
=============================================================================
