----------------------------- MODULE RegisterMap -----------------------------
(* The registers of the seven modules the loader touches, by address.        *)
EXTENDS GlobalsecRegs, FuseRegs, PinmuxRegs, SystemRegs, M3Regs

(* An address is <<module, offset>>. *)
ResetValue ==
    [GLOBALSEC |-> Merged(GlobalsecResets), FUSE |-> Merged(FuseResets),
     PINMUX |-> Merged(PinmuxResets), KEYMGR |-> Merged(KeymgrResets),
     PMU |-> Merged(PmuResets), UART |-> Merged(UartResets), M3 |-> Merged(M3Resets)]
Layout ==
    [GLOBALSEC |-> Merged(GlobalsecFields), FUSE |-> Merged(FuseFields),
     PINMUX |-> Merged(PinmuxFields), KEYMGR |-> Merged(KeymgrFields),
     PMU |-> Merged(PmuFields), UART |-> Merged(UartFields), M3 |-> Merged(M3Fields)]
Exists(a) == a[1] \in DOMAIN ResetValue /\ a[2] \in DOMAIN ResetValue[a[1]]
AtReset(a) == ResetValue[a[1]][a[2]]
(* Two registers never share an offset, and every field lies in a register.  *)
ASSUME RegisterMapAssumption ==
    /\ WellFormed(GlobalsecResets, GlobalsecFields) /\ WellFormed(FuseResets, FuseFields)
    /\ WellFormed(PinmuxResets, PinmuxFields) /\ WellFormed(KeymgrResets, KeymgrFields)
    /\ WellFormed(PmuResets, PmuFields) /\ WellFormed(UartResets, UartFields)
    /\ WellFormed(M3Resets, M3Fields)

(* The bits a register has: those of its fields, all 32 if it lists none. *)
Implemented(a) ==
    IF a[2] \in DOMAIN Layout[a[1]] THEN UNION {Mask(f) : f \in Layout[a[1]][a[2]]} ELSE Bit
=============================================================================
