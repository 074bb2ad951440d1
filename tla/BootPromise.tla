---------------------------- MODULE BootPromise ----------------------------
(***************************************************************************)
(* What the loader as a whole (src/init.S, src/main.c) does for the chip:   *)
(* after every reset it either gives control to the image in RW_A or halts, *)
(* and which of the two, and with what code, is decided by the flash and    *)
(* the fuses alone.                                                          *)
(***************************************************************************)
EXTENDS Integers

CONSTANTS Verdict(_, _),  \* the loader's verdict on RW_A: [flash, efuse] -> code
          Success         \* the code that launches

VARIABLES outcome,        \* "reset", "starting", "launched" or "halted"
          code,           \* with what code it halted
          flash, efuse

vars == <<outcome, code, flash, efuse>>

Init == outcome = "reset" /\ code = Success

Start ==
    /\ outcome = "reset" /\ outcome' = "starting"
    /\ UNCHANGED <<code, flash, efuse>>

Decide ==
    /\ outcome = "starting"
    /\ IF Verdict(flash, efuse) = Success
       THEN outcome' = "launched" /\ code' = Success
       ELSE outcome' = "halted" /\ code' = Verdict(flash, efuse)
    /\ UNCHANGED <<flash, efuse>>

Reset ==
    /\ outcome' = "reset" /\ code' = Success
    /\ UNCHANGED <<flash, efuse>>

Next == Start \/ Decide \/ Reset

Spec == Init /\ [][Next]_vars /\ WF_vars(Start) /\ WF_vars(Decide)
=============================================================================
