------------------------------- MODULE Launch -------------------------------
(***************************************************************************)
(* src/launch: launch_image(), launch_RO(), launch_RW() and the functions   *)
(* of jump.c they call, one register write to a step.                        *)
(*                                                                           *)
(* pc names the C function that runs, n the position inside it.  A caller    *)
(* makes any sequence of the calls in Calls; the chip may be reset between   *)
(* any two steps.  Calls to printf only extend the console.                  *)
(***************************************************************************)
EXTENDS SignedHeader

CONSTANTS
    Images(_),       \* the contents slot s may have been flashed with
    Calls,           \* the calls made: [fn, addr, max]
    GuardSettings,   \* what an earlier boot stage may leave in CPU0_D_REGIONx_CTRL
    NoDigest         \* a zeroed hash buffer (.bss)

ASSUME LaunchAssumption ==
    /\ \A s \in Slots : Images(s) \subseteq Image
    /\ Calls \subseteq [fn : {"launch_image", "launch_RO", "launch_RW"},
                        addr : Word, max : Word]
    /\ \A c \in Calls : c.addr \in Slots => c.max <= SlotSize(c.addr)
    /\ GuardSettings \subseteq 0 .. 7

PERMISSION_MEDIUM == 51     \* 0x33
PERMISSION_HIGHEST == 85    \* 0x55

VARIABLES
    pc, n,       \* control: the C function that runs and the step inside it
    call,        \* the call being served (or the last one)
    rc,          \* what the last call returned
    flash,       \* [Slots -> Image]
    efuse,       \* [Fuse -> FuseValue], the fuse registers
    staging,     \* GLOBALSEC CPU0_I_STAGING_REGIONx: base, size, ctrl
    perm,        \* GLOBALSEC permission registers, in the order set_runlevel writes them
    fwr,         \* KEYMGR HKEY_FWR0..7
    keymgr,      \* KEYMGR FW_MAJOR_VERSION, FWR_VLD, FWR_LOCK
    region,      \* GLOBALSEC FLASH_REGIONx: base, size, ctrl
    guard,       \* GLOBALSEC CPU0_D_REGIONx_CTRL
    vtor,        \* M3 VTOR
    fuses,       \* launch_RW's static buffer fuses
    hashes,      \* launch_RW's static buffer hashes
    console      \* what this call printed: the verdicts of print_hashes, the address
                 \* of the jump (0: none)

control == <<pc, n, call, rc>>
storage == <<flash, efuse>>
registers == <<staging, perm, fwr, keymgr, region, guard, vtor>>
buffers == <<fuses, hashes, console>>
vars == <<control, storage, registers, buffers>>

hdr == flash[call.addr]

SilentConsole ==
    [shown |-> FALSE, img |-> FALSE, fuses |-> FALSE, info |-> FALSE, jump |-> 0]

NoWindow == [base |-> 0, size |-> 0, ctrl |-> 0]

(* What a reset leaves: register defaults of haven_regdef.h, .bss zeroed by  *)
(* init.S before main() runs.                                                *)
NoStaging == [r \in 0 .. 7 |-> NoWindow]
ResetPerm == [r \in 0 .. 3 |-> PERMISSION_HIGHEST]
ResetFwr == [w \in 0 .. 7 |-> 0]
ResetKeymgr == [major |-> 0, vld |-> 1, lock |-> 1]
NoRegion == [r \in 0 .. 7 |-> NoWindow]
ZeroFuses == [f \in Fuse |-> 0]
NoHashes == [img |-> NoDigest, fuses |-> NoDigest, info |-> NoDigest]

Init ==
    /\ pc = "idle" /\ n = 0 /\ rc = NoCode
    /\ call \in Calls
    /\ \E ro_a \in Images(RO_A_BASE), ro_b \in Images(RO_B_BASE),
          rw_a \in Images(RW_A_BASE), rw_b \in Images(RW_B_BASE) :
          flash = [s \in Slots |-> CASE s = RO_A_BASE -> ro_a [] s = RO_B_BASE -> ro_b
                                     [] s = RW_A_BASE -> rw_a [] s = RW_B_BASE -> rw_b]
    /\ efuse \in [Fuse -> FuseValue]
    /\ staging = NoStaging /\ perm = ResetPerm /\ fwr = ResetFwr
    /\ keymgr = ResetKeymgr /\ region = NoRegion /\ vtor = 0
    /\ guard \in [0 .. 2 -> GuardSettings]
    /\ fuses = ZeroFuses /\ hashes = NoHashes /\ console = SilentConsole

-----------------------------------------------------------------------------
(* Control flow. *)
Goto(f) == pc' = f /\ n' = 0 /\ UNCHANGED <<call, rc>>
Advance(last, f) ==
    IF n < last THEN n' = n + 1 /\ UNCHANGED <<pc, call, rc>> ELSE Goto(f)
Return(code) == pc' = "idle" /\ n' = 0 /\ rc' = code /\ UNCHANGED call

(* The caller of src/launch. *)
Call(c) ==
    /\ pc = "idle"
    /\ pc' = c.fn /\ n' = 0 /\ call' = c /\ rc' = NoCode
    /\ console' = SilentConsole
    /\ UNCHANGED <<storage, registers, fuses, hashes>>

launch_image ==
    /\ pc = "launch_image"
    /\ \/ call.addr \in RoSlots /\ Goto("launch_RO")
       \/ call.addr \in RwSlots /\ Goto("launch_RW")
       \/ call.addr \notin Slots /\ Return(LAUNCH_INVALID_REGION)
    /\ UNCHANGED <<storage, registers, buffers>>

(* The checks both launch functions start with; own is the function's slots. *)
entry_checks(own) ==
    IF verify_base_address(call.addr) # LAUNCH_SUCCESS THEN LAUNCH_INVALID_REGION
    ELSE IF call.addr \notin own THEN LAUNCH_INVALID_REGION
    ELSE verify_SignedHeader(hdr, call.max, call.addr)

(* Mutant: the bounds are checked against the whole flash. *)
launch_RO_unbounded ==
    /\ pc = "launch_RO"
    /\ LET code == IF call.addr \notin RoSlots THEN LAUNCH_INVALID_REGION
                   ELSE verify_SignedHeader(hdr, 2 * FlashHalf, call.addr) IN
       IF code # LAUNCH_SUCCESS THEN Return(code) ELSE Goto("stage_ro_region")
    /\ UNCHANGED <<storage, registers, buffers>>

launch_RO ==
    /\ pc = "launch_RO"
    /\ LET code == entry_checks(RoSlots) IN
       IF code # LAUNCH_SUCCESS THEN Return(code) ELSE Goto("stage_ro_region")
    /\ UNCHANGED <<storage, registers, buffers>>

launch_RW ==
    /\ pc = "launch_RW"
    /\ LET code == entry_checks(RwSlots) IN
       IF code # LAUNCH_SUCCESS THEN Return(code) ELSE Goto("stage_rw_region")
    /\ UNCHANGED <<storage, registers, buffers>>

(* One of the three register writes of stage_rx_region(r, hdr). *)
stage_rx_region(r) ==
    /\ \/ n = 0 /\ staging' = [staging EXCEPT ![r].base = hdr.rx_base]
       \/ n = 1 /\ staging' = [staging EXCEPT ![r].size = staged_size(hdr)]
       \/ n = 2 /\ staging' = [staging EXCEPT ![r].ctrl = 3]
    /\ UNCHANGED <<storage, perm, fwr, keymgr, region, guard, vtor, buffers>>

(* launch_RO stages region 0 and returns; launch_RW stages region 1. *)
stage_ro_region ==
    /\ pc = "stage_ro_region"
    /\ stage_rx_region(0)
    /\ IF n < 2 THEN Advance(2, pc) ELSE Return(LAUNCH_SUCCESS)

stage_rw_region ==
    /\ pc = "stage_rw_region"
    /\ stage_rx_region(1)
    /\ Advance(2, "hash_region")

-----------------------------------------------------------------------------
(* launch_RW after the header check.  The three sha256() calls of            *)
(* hash_region(), the fuse loops with the second.                            *)
(* Mutant: the buffers are filled once, as they are static. *)
hash_region_cached ==
    /\ pc = "hash_region"
    /\ hashes' = IF hashes # NoHashes THEN hashes
                 ELSE [img |-> image_digest(hdr), fuses |-> fuse_array(hdr, efuse),
                       info |-> "ignored"]
    /\ Goto("print_hashes")
    /\ UNCHANGED <<storage, registers, fuses, console>>

hash_region ==
    /\ pc = "hash_region"
    /\ \/ /\ n = 0
          /\ hashes' = [hashes EXCEPT !.img = image_digest(hdr)]
          /\ UNCHANGED fuses
       \/ /\ n = 1
          /\ fuses' = fuse_array(hdr, efuse)
          /\ hashes' = [hashes EXCEPT !.fuses = fuses']
       \/ /\ n = 2
          /\ hashes' = [hashes EXCEPT !.info = "ignored"]
          /\ UNCHANGED fuses
    /\ Advance(2, "print_hashes")
    /\ UNCHANGED <<storage, registers, console>>

(* Mutant: the first line prints the verdict of the second. *)
print_hashes_pasted ==
    /\ pc = "print_hashes"
    /\ console' = [console EXCEPT !.shown = TRUE,
                                  !.img = (hdr.fuses_chk_ = hashes.fuses),
                                  !.fuses = (hdr.fuses_chk_ = hashes.fuses),
                                  !.info = (hdr.info_chk_ = hashes.info)]
    /\ Goto("check_hashes")
    /\ UNCHANGED <<storage, registers, fuses, hashes>>

print_hashes ==
    /\ pc = "print_hashes"
    /\ console' = [console EXCEPT !.shown = TRUE,
                                  !.img = (hdr.img_chk_ = hashes.img),
                                  !.fuses = (hdr.fuses_chk_ = hashes.fuses),
                                  !.info = (hdr.info_chk_ = hashes.info)]
    /\ Goto("check_hashes")
    /\ UNCHANGED <<storage, registers, fuses, hashes>>

(* Mutant: && for ||. *)
check_hashes_both ==
    /\ pc = "check_hashes"
    /\ IF hdr.img_chk_ # hashes.img /\ hdr.fuses_chk_ # hashes.fuses
       THEN Return(LAUNCH_INVALID_HASH)
       ELSE Goto("set_runlevel")
    /\ UNCHANGED <<storage, registers, buffers>>

check_hashes ==
    /\ pc = "check_hashes"
    /\ IF hdr.img_chk_ # hashes.img \/ hdr.fuses_chk_ # hashes.fuses
       THEN Return(LAUNCH_INVALID_HASH)
       ELSE Goto("set_runlevel")
    /\ UNCHANGED <<storage, registers, buffers>>

set_runlevel ==
    /\ pc = "set_runlevel"
    /\ perm' = [perm EXCEPT ![n] = PERMISSION_MEDIUM]
    /\ Advance(3, "set_fwr")
    /\ UNCHANGED <<storage, staging, fwr, keymgr, region, guard, vtor, buffers>>

set_fwr ==
    /\ pc = "set_fwr"
    /\ \/ n < 6 /\ fwr' = [fwr EXCEPT ![n] = hdr.tag[n]] /\ UNCHANGED keymgr
       \/ n = 6 /\ fwr' = [fwr EXCEPT ![7] = 0] /\ UNCHANGED keymgr
       \/ n = 7 /\ keymgr' = [keymgr EXCEPT !.major = hdr.major_] /\ UNCHANGED fwr
       \/ n = 8 /\ keymgr' = [keymgr EXCEPT !.vld = 2] /\ UNCHANGED fwr
       \/ n = 9 /\ keymgr' = [keymgr EXCEPT !.lock = 0] /\ UNCHANGED fwr
    /\ Advance(9, "protect_flash_region")
    /\ UNCHANGED <<storage, staging, perm, region, guard, vtor, buffers>>

(* Mutant: the region is enabled before it is described. *)
protect_flash_region_early ==
    /\ pc = "protect_flash_region"
    /\ \/ n = 0 /\ region' = [region EXCEPT ![1].ctrl = 3]
       \/ n = 1 /\ region' = [region EXCEPT ![1].base = call.addr]
       \/ n = 2 /\ region' = [region EXCEPT ![1].size = WSub(hdr.image_size, 1)]
    /\ Advance(2, "disarm_ram_guards")
    /\ UNCHANGED <<storage, staging, perm, fwr, keymgr, guard, vtor, buffers>>

protect_flash_region ==
    /\ pc = "protect_flash_region"
    /\ \/ n = 0 /\ region' = [region EXCEPT ![1].base = call.addr]
       \/ n = 1 /\ region' = [region EXCEPT ![1].size = WSub(hdr.image_size, 1)]
       \/ n = 2 /\ region' = [region EXCEPT ![1].ctrl = 3]
    /\ Advance(2, "disarm_ram_guards")
    /\ UNCHANGED <<storage, staging, perm, fwr, keymgr, guard, vtor, buffers>>

(* Mutant: the third guard is forgotten. *)
disarm_ram_guards_two ==
    /\ pc = "disarm_ram_guards"
    /\ guard' = [guard EXCEPT ![n] = 7]
    /\ Advance(1, "announce_jump")
    /\ UNCHANGED <<storage, staging, perm, fwr, keymgr, region, vtor, buffers>>

disarm_ram_guards ==
    /\ pc = "disarm_ram_guards"
    /\ guard' = [guard EXCEPT ![n] = 7]
    /\ Advance(2, "announce_jump")
    /\ UNCHANGED <<storage, staging, perm, fwr, keymgr, region, vtor, buffers>>

announce_jump ==
    /\ pc = "announce_jump"
    /\ console' = [console EXCEPT !.jump = call.addr]
    /\ Goto("_jump_to_address")
    /\ UNCHANGED <<storage, registers, fuses, hashes>>

(* VTOR, then sp and pc from the image's vector table. *)
_jump_to_address ==
    /\ pc = "_jump_to_address"
    /\ \/ n = 0 /\ vtor' = WAdd(call.addr, HeaderSize)
       \/ n = 1 /\ UNCHANGED vtor
    /\ Advance(1, "launched")
    /\ UNCHANGED <<storage, staging, perm, fwr, keymgr, region, guard, buffers>>

-----------------------------------------------------------------------------
(* A reset of the chip, at any point: registers and RAM start afresh, flash  *)
(* and fuses stay.                                                            *)
Reset ==
    /\ pc' = "idle" /\ n' = 0 /\ rc' = NoCode /\ UNCHANGED call
    /\ staging' = NoStaging /\ perm' = ResetPerm /\ fwr' = ResetFwr
    /\ keymgr' = ResetKeymgr /\ region' = NoRegion /\ vtor' = 0
    /\ guard' \in [0 .. 2 -> GuardSettings]
    /\ fuses' = ZeroFuses /\ hashes' = NoHashes /\ console' = SilentConsole
    /\ UNCHANGED storage

Step ==
    \/ launch_image \/ launch_RO \/ launch_RW
    \/ stage_ro_region \/ stage_rw_region
    \/ hash_region \/ print_hashes \/ check_hashes
    \/ set_runlevel \/ set_fwr \/ protect_flash_region \/ disarm_ram_guards
    \/ announce_jump \/ _jump_to_address

Next == Step \/ (\E c \in Calls : Call(c)) \/ Reset

Spec == Init /\ [][Next]_vars
FairSpec == Spec /\ WF_vars(Step)

-----------------------------------------------------------------------------
(* Properties.                                                               *)

(* The points of launch_RW from the first privileged register write on.      *)
CommitPoints ==
    {"set_runlevel", "set_fwr", "protect_flash_region", "disarm_ram_guards",
     "announce_jump", "_jump_to_address", "launched"}
ScreenPoints ==
    {"launch_image", "launch_RO", "launch_RW", "stage_ro_region", "stage_rw_region",
     "hash_region", "print_hashes", "check_hashes"}

Window == [base : Word, size : Word, ctrl : {0, 3}]
DigestOrNone(D) == D \cup {NoDigest}

(* Every variable of the launcher holds values of its C type or register.    *)
TypeOK ==
    /\ pc \in {"idle"} \cup ScreenPoints \cup CommitPoints
    /\ n \in 0 .. 9
    /\ call \in Calls
    /\ rc \in LaunchCode \cup {NoCode}
    /\ flash \in [Slots -> Image]
    /\ \A s \in Slots : flash[s] \in Images(s)
    /\ efuse \in [Fuse -> FuseValue]
    /\ staging \in [0 .. 7 -> Window]
    /\ perm \in [0 .. 3 -> {PERMISSION_MEDIUM, PERMISSION_HIGHEST}]
    /\ fwr \in [0 .. 7 -> TagWord]
    /\ keymgr \in [major : TagWord, vld : {1, 2}, lock : {0, 1}]
    /\ region \in [0 .. 7 -> Window]
    /\ guard \in [0 .. 2 -> 0 .. 7]
    /\ vtor \in Word
    /\ fuses \in [Fuse -> FuseValue \cup {FUSE_IGNORE, 0}]
    /\ hashes \in [img : DigestOrNone(ImageDigest), fuses : DigestOrNone(FuseArray),
                   info : DigestOrNone(InfoDigest)]
    /\ console \in [shown : BOOLEAN, img : BOOLEAN, fuses : BOOLEAN, info : BOOLEAN,
                    jump : Word]

phase == CASE pc = "idle" -> "idle"
           [] pc = "launched" -> "launched"
           [] OTHER -> "serving"
Contract == INSTANCE LaunchContract

PrivilegeAtReset ==
    /\ perm = ResetPerm /\ fwr = ResetFwr /\ keymgr = ResetKeymgr
    /\ region = NoRegion /\ vtor = 0

(* Over any sequence of calls and resets, a privileged register is off its   *)
(* reset value only while an RW image without a single defect, genuine for   *)
(* this content and these fuses, is being launched: rw.c returns on every    *)
(* failed check before set_runlevel().                                       *)
PrivilegeFollowsVerdict ==
    ~PrivilegeAtReset =>
        /\ pc \in CommitPoints
        /\ call.addr \in RwSlots
        /\ Contract!Defects(call) = {}

(* No register that makes others take effect is written before them: a flash *)
(* region is enabled with the extents of the image being launched, FWR_VLD   *)
(* is set over the tag words and the major version of that image, and the    *)
(* lock is released last (set_fwr, protect_flash_region).                    *)
EnabledAfterData ==
    /\ region[1].ctrl = 3 =>
          region[1].base = call.addr /\ region[1].size = hdr.image_size - 1
    /\ keymgr.vld = 2 =>
          keymgr.major = hdr.major_ /\ \A w \in 0 .. 5 : fwr[w] = hdr.tag[w]
    /\ keymgr.lock = 0 => keymgr.vld = 2

(* When the image gets control, every register rw.c configures has its       *)
(* value: all four permission registers lowered, firmware words and version  *)
(* published and unlocked, the flash of exactly this image protected, its    *)
(* window staged and the RAM guards open.                                    *)
LaunchedConfiguration ==
    pc = "launched" =>
        /\ \A r \in 0 .. 3 : perm[r] = PERMISSION_MEDIUM
        /\ \A w \in 0 .. 5 : fwr[w] = hdr.tag[w]
        /\ keymgr = [major |-> hdr.major_, vld |-> 2, lock |-> 0]
        /\ region[1] = [base |-> call.addr, size |-> hdr.image_size - 1, ctrl |-> 3]
        /\ staging[1] = [base |-> hdr.rx_base, size |-> staged_size(hdr), ctrl |-> 3]
        /\ \A r \in 0 .. 2 : guard[r] = 7
        /\ vtor = call.addr + HeaderSize

(* The vector table the jump goes through lies in the part of the slot that  *)
(* was hashed and in the flash region that is protected, and neither leaves  *)
(* the slot (rw.c, _jump_to_address).                                        *)
LaunchedFromHashedFlash ==
    pc = "launched" =>
        LET last == vtor + VectorSize - 1 IN
        /\ call.addr + TagOffset <= vtor
        /\ last < call.addr + TagOffset + hashes.img.len
        /\ region[1].base <= vtor /\ last <= region[1].base + region[1].size
        /\ CoversInside(region[1], call.addr, SlotSize(call.addr))

(* Whatever calls were made before, a staging region that is enabled while   *)
(* no call is rewriting it holds the window of one slot whose header passed  *)
(* the checks, region 0 for RO and region 1 for RW; the window stays inside  *)
(* that slot exactly when the header's rx_base is below its rx_max, which    *)
(* verify_SignedHeader does not ask for.                                     *)
StagedWindowsVerified ==
    pc \notin {"stage_ro_region", "stage_rw_region"} =>
        \A r \in 0 .. 7 : staging[r].ctrl = 3 =>
            /\ r \in {0, 1}
            /\ \E s \in (IF r = 0 THEN RoSlots ELSE RwSlots) :
                  /\ Contract!HeaderDefects(flash[s], s, SlotSize(s)) = {}
                  /\ staging[r] = [base |-> flash[s].rx_base,
                                   size |-> staged_size(flash[s]), ctrl |-> 3]
                  /\ CoversInside(staging[r], s, SlotSize(s))
                        <=> flash[s].rx_base < flash[s].rx_max

(* The log agrees with what happens: a launched image was printed with both  *)
(* verdicts 1 and announced at its address, an INVALID_HASH refusal with one *)
(* of them 0, and nothing else announces a jump (print_hashes, rw.c).        *)
ConsoleAgrees ==
    /\ pc = "launched" =>
          console.shown /\ console.img /\ console.fuses /\ console.jump = call.addr
    /\ rc = LAUNCH_INVALID_HASH => console.shown /\ ~(console.img /\ console.fuses)
    /\ console.jump # 0 => pc \in {"_jump_to_address", "launched"}

(* Every step of the launcher is a step of the contract or invisible to it,  *)
(* and every call that no reset cuts off is answered.                        *)
ImplementsContract == Contract!FairSpec

-----------------------------------------------------------------------------
(* The inductive invariant behind the properties above.                      *)

HashedPoints == {"print_hashes", "check_hashes"} \cup CommitPoints
RwPoints == {"stage_rw_region", "hash_region"} \cup HashedPoints

(* The entry checks passed for a slot of the function that runs. *)
Accepted(own) ==
    /\ call.addr \in own
    /\ Contract!ServedRegion(call)
    /\ verify_SignedHeader(hdr, call.max, call.addr) = LAUNCH_SUCCESS
Screened ==
    /\ pc = "launch_image" => call.fn = "launch_image"
    /\ pc = "launch_RO" =>
          call.fn = "launch_RO" \/ (call.fn = "launch_image" /\ call.addr \in RoSlots)
    /\ pc = "launch_RW" =>
          call.fn = "launch_RW" \/ (call.fn = "launch_image" /\ call.addr \in RwSlots)
    /\ pc = "stage_ro_region" => Accepted(RoSlots)
    /\ pc \in RwPoints => Accepted(RwSlots)

(* The static buffers hold the digests of this call, not of an earlier one.  *)
Hashed ==
    /\ ((pc = "hash_region" /\ n > 0) \/ pc \in HashedPoints)
          => hashes.img = image_digest(hdr)
    /\ ((pc = "hash_region" /\ n > 1) \/ pc \in HashedPoints)
          => hashes.fuses = fuse_array(hdr, efuse)
    /\ pc \in CommitPoints =>
          hdr.img_chk_ = hashes.img /\ hdr.fuses_chk_ = hashes.fuses

Closed == pc \notin CommitPoints => PrivilegeAtReset

(* How far the register writes have come: write number k of function f is    *)
(* done, once f's position is past k or pc is one of the points after f.     *)
AfterStage == RwPoints \ {"stage_rw_region"}
AfterRunlevel == CommitPoints \ {"set_runlevel"}
AfterFwr == AfterRunlevel \ {"set_fwr"}
AfterProtect == AfterFwr \ {"protect_flash_region"}
AfterDisarm == AfterProtect \ {"disarm_ram_guards"}
Past(f, after, k) == pc \in after \/ (pc = f /\ k < n)
Staged(k) == Past("stage_rw_region", AfterStage, k)
Lowered(k) == Past("set_runlevel", AfterRunlevel, k)
Published(k) == Past("set_fwr", AfterFwr, k)
Protected(k) == Past("protect_flash_region", AfterProtect, k)
Disarmed(k) == Past("disarm_ram_guards", AfterDisarm, k)

StagingProgress ==
    /\ Staged(0) => staging[1].base = hdr.rx_base
    /\ Staged(1) => staging[1].size = staged_size(hdr)
    /\ Staged(2) => staging[1].ctrl = 3
RunlevelProgress == \A r \in 0 .. 3 : Lowered(r) => perm[r] = PERMISSION_MEDIUM
FwrProgress ==
    /\ \A w \in 0 .. 5 : Published(w) => fwr[w] = hdr.tag[w]
    /\ Published(7) => keymgr.major = hdr.major_
    /\ keymgr.vld = IF Published(8) THEN 2 ELSE 1
    /\ keymgr.lock = IF Published(9) THEN 0 ELSE 1
RegionProgress ==
    /\ Protected(0) => region[1].base = call.addr
    /\ Protected(1) => region[1].size = WSub(hdr.image_size, 1)
    /\ region[1].ctrl = IF Protected(2) THEN 3 ELSE 0
GuardProgress == \A r \in 0 .. 2 : Disarmed(r) => guard[r] = 7
VtorProgress ==
    (pc = "launched" \/ (pc = "_jump_to_address" /\ n = 1))
        => vtor = WAdd(call.addr, HeaderSize)

(* The positions inside a function stay below its number of writes. *)
Positions ==
    /\ pc \in {"stage_ro_region", "stage_rw_region", "hash_region",
               "protect_flash_region", "disarm_ram_guards"} => n <= 2
    /\ pc = "set_runlevel" => n <= 3
    /\ pc = "_jump_to_address" => n <= 1
    /\ pc \in {"idle", "launch_image", "launch_RO", "launch_RW", "print_hashes",
               "check_hashes", "announce_jump", "launched"} => n = 0

IInv ==
    /\ TypeOK /\ Screened /\ Hashed /\ Closed /\ Positions
    /\ StagingProgress /\ RunlevelProgress /\ FwrProgress /\ RegionProgress
    /\ GuardProgress /\ VtorProgress

(* The part of ImplementsContract that says nothing of fairness. *)
ImplementsContractSafely == Contract!Spec

(* include/signed_header.h:39, :49 - the tag is "words 0-6 of RWR/FWR", the *)
(* epoch is "word 7 of FWR": when the image gets control.                    *)
FwrHoldsHeader ==
    pc = "launched" => fwr = [w \in 0 .. 7 |-> IF w = 7 THEN hdr.epoch_ ELSE hdr.tag[w]]
=============================================================================
