--------------------------- MODULE LaunchContract ---------------------------
(***************************************************************************)
(* What src/launch promises its caller, without registers, buffers or the   *)
(* order of the steps: a call is answered by what the flash and the fuses    *)
(* say at the address it names, and by nothing an earlier call left behind.  *)
(* The codes of launch.h are numbered in the order of the checks, so a       *)
(* refusal reports the defect with the greatest code.                        *)
(***************************************************************************)
EXTENDS SignedHeader

CONSTANT Calls

VARIABLES
    phase,    \* "idle", "serving" or "launched"
    call, rc, flash, efuse

vars == <<phase, call, rc, flash, efuse>>

(* The call names a slot its function serves. *)
ServedRegion(c) ==
    \/ c.fn = "launch_image" /\ c.addr \in Slots
    \/ c.fn = "launch_RO" /\ c.addr \in RoSlots
    \/ c.fn = "launch_RW" /\ c.addr \in RwSlots

(* What is wrong with image h for a slot [addr, addr + max).                  *)
HeaderDefects(h, addr, max) ==
    {code \in LaunchCode :
        \/ code = LAUNCH_INVALID_MAGIC /\ h.magic # MAGIC_HAVEN
        \/ code = LAUNCH_IMAGE_TOO_SMALL /\ h.image_size < BankSize
        \/ code = LAUNCH_IMAGE_TOO_LARGE /\ h.image_size > max
        \/ code = LAUNCH_RO_BASE_BEFORE_REGION /\ h.ro_base < addr
        \/ code = LAUNCH_RO_MAX_AFTER_REGION /\ h.ro_max > addr + max
        \/ code = LAUNCH_RX_BASE_BEFORE_REGION /\ h.rx_base < addr
        \/ code = LAUNCH_RX_MAX_AFTER_REGION /\ h.rx_max > addr + max}

(* The image was signed for this content and for these fuses.  The info      *)
(* digest plays no part.                                                      *)
Genuine(h) ==
    /\ h.img_chk_ = [body |-> h.body, len |-> h.image_size - TagOffset]
    /\ \A f \in Fuse : h.fuses_chk_[f] = IF f \in h.fusemap THEN efuse[f] ELSE FUSE_IGNORE

Defects(c) ==
    IF ~ServedRegion(c) THEN {LAUNCH_INVALID_REGION}
    ELSE HeaderDefects(flash[c.addr], c.addr, c.max)
         \cup {code \in {LAUNCH_INVALID_HASH} :
                   c.addr \in RwSlots /\ ~Genuine(flash[c.addr])}

Init ==
    /\ phase = "idle" /\ rc = NoCode /\ call \in Calls
    /\ flash \in [Slots -> Image] /\ efuse \in [Fuse -> FuseValue]

Call(c) ==
    /\ phase = "idle"
    /\ phase' = "serving" /\ call' = c /\ rc' = NoCode
    /\ UNCHANGED <<flash, efuse>>

Refuse ==
    /\ phase = "serving"
    /\ \E code \in Defects(call) :
          /\ \A other \in Defects(call) : other <= code
          /\ rc' = code
    /\ phase' = "idle"
    /\ UNCHANGED <<call, flash, efuse>>

(* An RO image without defects is staged, and the caller gets control back.  *)
Stage ==
    /\ phase = "serving" /\ Defects(call) = {} /\ call.addr \in RoSlots
    /\ phase' = "idle" /\ rc' = LAUNCH_SUCCESS
    /\ UNCHANGED <<call, flash, efuse>>

Launch ==
    /\ phase = "serving" /\ Defects(call) = {} /\ call.addr \in RwSlots
    /\ phase' = "launched"
    /\ UNCHANGED <<call, rc, flash, efuse>>

Reset ==
    /\ phase' = "idle" /\ rc' = NoCode
    /\ UNCHANGED <<call, flash, efuse>>

Answer == Refuse \/ Stage \/ Launch
Next == Answer \/ (\E c \in Calls : Call(c)) \/ Reset

Spec == Init /\ [][Next]_vars

(* Every call that is not cut off by a reset is answered. *)
FairSpec == Spec /\ WF_vars(Answer)
=============================================================================
