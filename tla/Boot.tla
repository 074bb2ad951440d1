-------------------------------- MODULE Boot --------------------------------
(***************************************************************************)
(* src/init.S and src/main.c around the launcher: from the reset vector to   *)
(* the one call of launch_image() and what follows if it comes back.  RAM    *)
(* keeps its contents over a reset until the code of init.S clears it.       *)
(***************************************************************************)
EXTENDS Launch

VARIABLES
    at, k,    \* the place in reset and main(), and the step inside it
    logged    \* main()'s DLOG of the code launch_image() returned

boot == <<at, k, logged>>
bootvars == <<vars, boot>>

RwACall == [fn |-> "launch_image", addr |-> RW_A_BASE, max |-> RwSize]
RwBCall == [fn |-> "launch_image", addr |-> RW_B_BASE, max |-> RwSize]
RoACall == [fn |-> "launch_image", addr |-> RO_A_BASE, max |-> RoSize]

(* The launcher's assumptions cover the one call main() makes. *)
ASSUME BootAssumption == RwACall \in Calls

BootInit == Init /\ at = "reset" /\ k = 0 /\ logged = NoCode

(* The last of steps 0 .. last leads to place p. *)
Proceed(last, p) ==
    IF k < last THEN k' = k + 1 /\ UNCHANGED at ELSE at' = p /\ k' = 0

-----------------------------------------------------------------------------
(* reset: VTOR, then .bss; the vectors are the loader's own (vtor = 0 stands  *)
(* for them).                                                                *)
bss_loop ==
    /\ at = "reset" /\ Proceed(1, "init_cpu")
    /\ \/ k = 0 /\ UNCHANGED <<fuses, hashes>>
       \/ k = 1 /\ fuses' = ZeroFuses /\ hashes' = NoHashes
    /\ UNCHANGED <<control, storage, registers, console, logged>>

(* The two register writes of init_cpu(). *)
init_cpu ==
    /\ at = "init_cpu" /\ Proceed(1, "init_uart")
    /\ UNCHANGED <<vars, logged>>

(* init_uart(): the clock, the wait for the transmitter (see Uart), six writes. *)
init_uart ==
    /\ at = "init_uart" /\ Proceed(7, "banner")
    /\ UNCHANGED <<vars, logged>>

banner ==
    /\ at = "banner" /\ Proceed(0, "launch")
    /\ UNCHANGED <<vars, logged>>

(* Mutants: the sizes mixed up; the wrong slot. *)
main_launch_ro_size ==
    /\ at = "launch" /\ at' = "called"
    /\ Call([RwACall EXCEPT !.max = RoSize])
    /\ UNCHANGED <<k, logged>>
main_launch_ro ==
    /\ at = "launch" /\ at' = "called"
    /\ Call(RoACall)
    /\ UNCHANGED <<k, logged>>

main_launch ==
    /\ at = "launch" /\ at' = "called"
    /\ Call(RwACall)
    /\ UNCHANGED <<k, logged>>

launch == at = "called" /\ Step /\ UNCHANGED boot

(* Mutant: the other slot is tried when the first is refused. *)
main_return_fallback ==
    \/ /\ at = "called" /\ pc = "idle" /\ call # RwBCall
       /\ Call(RwBCall)
       /\ UNCHANGED boot
    \/ /\ at = "called" /\ pc = "idle" /\ call = RwBCall
       /\ at' = "wfi" /\ logged' = rc
       /\ UNCHANGED <<vars, k>>

(* DLOG(rc), while (true) wfi. *)
main_return ==
    /\ at = "called" /\ pc = "idle"
    /\ at' = "wfi" /\ logged' = rc
    /\ UNCHANGED <<vars, k>>

Main ==
    bss_loop \/ init_cpu \/ init_uart \/ banner \/ main_launch \/ launch \/ main_return

(* A reset at any point; RAM is kept. *)
PowerReset ==
    /\ at' = "reset" /\ k' = 0 /\ logged' = NoCode
    /\ pc' = "idle" /\ n' = 0 /\ rc' = NoCode /\ UNCHANGED call
    /\ staging' = NoStaging /\ perm' = ResetPerm /\ fwr' = ResetFwr
    /\ keymgr' = ResetKeymgr /\ region' = NoRegion /\ vtor' = 0
    /\ guard' \in [0 .. 2 -> GuardSettings]
    /\ console' = SilentConsole
    /\ UNCHANGED <<storage, fuses, hashes>>

BootNext == Main \/ PowerReset

BootSpec == BootInit /\ [][BootNext]_bootvars /\ WF_bootvars(Main)

-----------------------------------------------------------------------------
(* Properties.                                                               *)

(* With one call to a boot, a staging region is enabled only over the        *)
(* complete window of one verified header, at every step: the launcher       *)
(* itself writes base, size and ctrl of a region that may already be on.     *)
NoTornStaging ==
    \A r \in 0 .. 7 : staging[r].ctrl = 3 =>
        /\ r = 1
        /\ staging[1] = [base |-> flash[RW_A_BASE].rx_base,
                         size |-> staged_size(flash[RW_A_BASE]), ctrl |-> 3]

(* The loader halts only for a defect of the image in RW_A, says which, and  *)
(* leaves the chip as it found it: permissions at their highest, firmware    *)
(* words locked, no flash region set.                                        *)
HaltsWithReason ==
    at = "wfi" =>
        /\ logged \in Contract!Defects(RwACall)
        /\ PrivilegeAtReset

(* After every reset the image in RW_A gets control or the loader halts, as  *)
(* the contents of flash and fuses decide, whatever RAM held.                *)
RwVerdict(content, efuses) ==
    LET h == content[RW_A_BASE]
        code == verify_SignedHeader(h, RwSize, RW_A_BASE)
    IN  IF code # LAUNCH_SUCCESS THEN code
        ELSE IF /\ h.img_chk_ = image_digest(h)
                /\ h.fuses_chk_ = fuse_array(h, efuses)
             THEN LAUNCH_SUCCESS
             ELSE LAUNCH_INVALID_HASH
Promise == INSTANCE BootPromise WITH
    Verdict <- RwVerdict,
    Success <- LAUNCH_SUCCESS,
    outcome <- CASE at = "reset" /\ k = 0 -> "reset" [] pc = "launched" -> "launched"
                 [] at = "wfi" -> "halted" [] OTHER -> "starting",
    code <- IF at = "wfi" THEN logged ELSE LAUNCH_SUCCESS
KeepsPromise == Promise!Spec
=============================================================================
