----------------------------- MODULE BootProofs -----------------------------
(***************************************************************************)
(* Theorems about Launch, for every flash layout, set of images and          *)
(* sequence of calls that the assumptions allow: the launcher and its        *)
(* contract, the log of a call, the staging regions.                         *)
(*                                                                           *)
(* Theorems about Boot: the launcher called by main(), with resets that keep *)
(* the RAM, for every layout, image and fuses.  Boot extends Launch, and its *)
(* proofs use those of the first part.                                       *)
(***************************************************************************)
EXTENDS BootBus, TLAPS

-----------------------------------------------------------------------------
(* The launcher.                                                             *)

(* The layout in numbers the arithmetic steps use. *)
LEMMA LayoutFacts ==
    /\ FlashBase \in Nat /\ FlashHalf \in Nat /\ RoSize \in Nat /\ TopSize \in Nat
    /\ BankSize \in Nat /\ WordSize \in Nat
    /\ FlashBase > 0 /\ RoSize > 0 /\ RwSize > 0 /\ RwSize \in Nat
    /\ HeaderSize \in Nat /\ TagOffset \in Nat /\ VectorSize \in Nat
    /\ TagOffset > 0 /\ VectorSize > 0 /\ TagOffset < HeaderSize
    /\ HeaderSize + VectorSize <= BankSize
    /\ RO_A_BASE + RoSize = RW_A_BASE /\ RW_A_BASE + RwSize < RO_B_BASE
    /\ RO_B_BASE + RoSize = RW_B_BASE /\ RW_B_BASE + RwSize < WordSize
BY FlashLayoutAssumption, SignedHeaderAssumption
DEF RO_A_BASE, RO_B_BASE, RW_A_BASE, RW_B_BASE, RwSize

(* The slots are words, lie above address 0, end before the last word, and   *)
(* an RO slot is no RW slot.                                                 *)
LEMMA SlotFacts ==
    /\ \A s \in Slots : s \in Word /\ s > 0 /\ SlotSize(s) \in Nat
                        /\ s + SlotSize(s) < WordSize
    /\ RoSlots \cap RwSlots = {}
<1>1. \A s \in RoSlots : s \in Word /\ s > 0 /\ s + RoSize < WordSize
  BY LayoutFacts DEF RoSlots, RO_A_BASE, RO_B_BASE, RW_A_BASE, RW_B_BASE, Word
<1>2. \A s \in RwSlots : s \in Word /\ s > 0 /\ s + RwSize < WordSize
  BY LayoutFacts DEF RwSlots, RO_A_BASE, RO_B_BASE, RW_A_BASE, RW_B_BASE, Word
<1>3. RoSlots \cap RwSlots = {}
  BY LayoutFacts DEF RoSlots, RwSlots, RO_A_BASE, RO_B_BASE, RW_A_BASE, RW_B_BASE
<1>4. QED
  BY <1>1, <1>2, <1>3, LayoutFacts DEF Slots, SlotSize

(* Word arithmetic stays in the words. *)
LEMMA WordClosed ==
    ASSUME NEW a \in Word, NEW b \in Word
    PROVE  WAdd(a, b) \in Word /\ WSub(a, b) \in Word
BY LayoutFacts DEF WAdd, WSub, Word

(* A write to one register of a bank keeps the bank typed. *)
LEMMA UpdateType ==
    ASSUME NEW S, NEW T, NEW f \in [S -> T], NEW i, NEW v \in T
    PROVE  [f EXCEPT ![i] = v] \in [S -> T]
OBVIOUS

(* Small numbers that are words. *)
LEMMA SmallWords ==
    0 \in Word /\ 1 \in Word /\ TagOffset \in Word /\ HeaderSize \in Word
<1>1. BankSize \in Nat /\ RoSize \in Nat /\ BankSize <= RoSize
  BY LayoutFacts, SignedHeaderAssumption
<1>2. RoSize < WordSize
  BY LayoutFacts DEF RO_A_BASE, RO_B_BASE, RW_A_BASE, RW_B_BASE
<1>3. QED
  BY <1>1, <1>2, LayoutFacts DEF Word

(* The fields of an image that end up in registers. *)
LEMMA ImageFields ==
    ASSUME NEW h \in Image
    PROVE  /\ h.image_size \in Word /\ h.ro_base \in Word /\ h.ro_max \in Word
           /\ h.rx_base \in Word /\ h.rx_max \in Word
           /\ h.major_ \in TagWord /\ h.tag \in [0 .. 6 -> TagWord]
           /\ h.body \in Body /\ h.fusemap \in SUBSET Fuse
           /\ staged_size(h) \in Word
           /\ image_digest(h) \in ImageDigest
<1>1. /\ h.image_size \in Word /\ h.ro_base \in Word /\ h.ro_max \in Word
      /\ h.rx_base \in Word /\ h.rx_max \in Word
      /\ h.major_ \in TagWord /\ h.tag \in [0 .. 6 -> TagWord]
      /\ h.body \in Body /\ h.fusemap \in SUBSET Fuse
  BY DEF Image
<1>2. 1 \in Word /\ TagOffset \in Word
  BY SmallWords
<1>3. staged_size(h) \in Word
  BY <1>1, <1>2, WordClosed DEF staged_size
<1>4. image_digest(h) \in ImageDigest
  BY <1>1, <1>2, WordClosed DEF image_digest, ImageDigest
<1>5. QED
  BY <1>1, <1>3, <1>4

(* The header check answers with a code of launch.h. *)
LEMMA CheckCodes ==
    ASSUME NEW own
    PROVE  entry_checks(own) \in LaunchCode
BY DEF entry_checks, verify_base_address, verify_SignedHeader, LaunchCode,
       LAUNCH_SUCCESS, LAUNCH_INVALID_REGION, LAUNCH_INVALID_MAGIC,
       LAUNCH_IMAGE_TOO_SMALL, LAUNCH_IMAGE_TOO_LARGE, LAUNCH_RO_BASE_BEFORE_REGION,
       LAUNCH_RO_MAX_AFTER_REGION, LAUNCH_RX_BASE_BEFORE_REGION,
       LAUNCH_RX_MAX_AFTER_REGION

-----------------------------------------------------------------------------
LEMMA InitType == Init => TypeOK
<1> SUFFICES ASSUME Init PROVE TypeOK
  OBVIOUS
<1>1. \A s \in Slots : flash[s] \in Images(s) /\ flash[s] \in Image
  BY LaunchAssumption DEF Init, Slots, RoSlots, RwSlots
<1>2. flash \in [Slots -> Image]
  BY <1>1 DEF Init
<1>3. 0 \in Word /\ 0 \in TagWord
  BY SmallWords, SignedHeaderAssumption
<1>4. guard \in [0 .. 2 -> 0 .. 7]
  BY LaunchAssumption DEF Init
<1>5. /\ staging \in [0 .. 7 -> Window] /\ region \in [0 .. 7 -> Window]
      /\ perm \in [0 .. 3 -> {PERMISSION_MEDIUM, PERMISSION_HIGHEST}]
      /\ fwr \in [0 .. 7 -> TagWord] /\ vtor \in Word
      /\ keymgr \in [major : TagWord, vld : {1, 2}, lock : {0, 1}]
  BY <1>3 DEF Init, NoStaging, NoWindow, ResetPerm, ResetFwr, ResetKeymgr, NoRegion, Window
<1>6. /\ fuses \in [Fuse -> FuseValue \cup {FUSE_IGNORE, 0}]
      /\ hashes \in [img : DigestOrNone(ImageDigest), fuses : DigestOrNone(FuseArray),
                     info : DigestOrNone(InfoDigest)]
      /\ console \in [shown : BOOLEAN, img : BOOLEAN, fuses : BOOLEAN, info : BOOLEAN,
                      jump : Word]
  BY <1>3 DEF Init, ZeroFuses, NoHashes, SilentConsole, DigestOrNone
<1>7. pc = "idle" /\ n = 0 /\ call \in Calls /\ rc = NoCode /\ efuse \in [Fuse -> FuseValue]
  BY DEF Init
<1>8. QED
  BY <1>1, <1>2, <1>4, <1>5, <1>6, <1>7 DEF TypeOK

LEMMA TypeStep == TypeOK /\ Screened /\ [Next]_vars => TypeOK'
<1> SUFFICES ASSUME TypeOK, Screened, [Next]_vars PROVE TypeOK'
  OBVIOUS
<1> USE DEF TypeOK
<1>h. pc \in {"stage_ro_region"} \cup RwPoints =>
          call.addr \in Slots /\ call.addr \in Word /\ hdr \in Image
  BY SlotFacts DEF Screened, Accepted, hdr, Slots
<1>0. CASE UNCHANGED vars
  BY <1>0 DEF vars, control, storage, registers, buffers
<1>1. ASSUME NEW c \in Calls, Call(c) PROVE TypeOK'
  <2>1. c.fn \in {"launch_image", "launch_RO", "launch_RW"}
    BY LaunchAssumption
  <2>2. 0 \in Word
    BY SmallWords
  <2>3. QED
    BY <1>1, <2>1, <2>2 DEF Call, storage, registers, SilentConsole, ScreenPoints, NoCode
<1>2. CASE launch_image
  BY <1>2 DEF launch_image, Goto, Return, storage, registers, buffers, ScreenPoints,
              LaunchCode, LAUNCH_INVALID_REGION
<1>3. CASE launch_RO
  BY <1>3, CheckCodes DEF launch_RO, Goto, Return, storage, registers, buffers, ScreenPoints
<1>4. CASE launch_RW
  BY <1>4, CheckCodes DEF launch_RW, Goto, Return, storage, registers, buffers, ScreenPoints
<1>5. CASE stage_ro_region
  <2>1. hdr.rx_base \in Word /\ staged_size(hdr) \in Word
    BY <1>5, <1>h, ImageFields DEF stage_ro_region
  <2>2. staging' \in [0 .. 7 -> Window]
    BY <1>5, <2>1 DEF stage_ro_region, stage_rx_region, Window
  <2>3. QED
    BY <1>5, <2>2 DEF stage_ro_region, stage_rx_region, Advance, Goto, Return, storage,
                      buffers, ScreenPoints, LaunchCode, LAUNCH_SUCCESS
<1>6. CASE stage_rw_region
  <2>1. hdr.rx_base \in Word /\ staged_size(hdr) \in Word
    BY <1>6, <1>h, ImageFields DEF stage_rw_region, RwPoints
  <2>2. staging' \in [0 .. 7 -> Window]
    BY <1>6, <2>1 DEF stage_rw_region, stage_rx_region, Window
  <2>3. QED
    BY <1>6, <2>2 DEF stage_rw_region, stage_rx_region, Advance, Goto, storage,
                      buffers, ScreenPoints
<1>7. CASE hash_region
  <2>1. image_digest(hdr) \in ImageDigest
    BY <1>7, <1>h, ImageFields DEF hash_region, RwPoints
  <2>2. fuse_array(hdr, efuse) \in FuseArray
    BY DEF fuse_array, FuseArray
  <2>3. hashes' \in [img : DigestOrNone(ImageDigest), fuses : DigestOrNone(FuseArray),
                     info : DigestOrNone(InfoDigest)]
        /\ fuses' \in [Fuse -> FuseValue \cup {FUSE_IGNORE, 0}]
    BY <1>7, <2>1, <2>2 DEF hash_region, DigestOrNone, InfoDigest, fuse_array
  <2>4. QED
    BY <1>7, <2>3 DEF hash_region, Advance, Goto, storage, registers, ScreenPoints
<1>8. CASE print_hashes
  <2>1. /\ console'.shown \in BOOLEAN /\ console'.img \in BOOLEAN
        /\ console'.fuses \in BOOLEAN /\ console'.info \in BOOLEAN
        /\ console'.jump = console.jump
        /\ console' \in [shown : BOOLEAN, img : BOOLEAN, fuses : BOOLEAN, info : BOOLEAN,
                         jump : Word]
    BY <1>8 DEF print_hashes
  <2>2. QED
    BY <1>8, <2>1 DEF print_hashes, Goto, storage, registers, ScreenPoints
<1>9. CASE check_hashes
  BY <1>9 DEF check_hashes, Goto, Return, storage, registers, buffers, CommitPoints,
              LaunchCode, LAUNCH_INVALID_HASH
<1>10. CASE set_runlevel
  <2>1. perm' \in [0 .. 3 -> {PERMISSION_MEDIUM, PERMISSION_HIGHEST}]
    BY <1>10 DEF set_runlevel
  <2>2. QED
    BY <1>10, <2>1 DEF set_runlevel, Advance, Goto, storage, buffers, CommitPoints
<1>11. CASE set_fwr
  <2>1. hdr.major_ \in TagWord /\ hdr.tag \in [0 .. 6 -> TagWord] /\ 0 \in TagWord
    BY <1>11, <1>h, ImageFields, SignedHeaderAssumption
    DEF set_fwr, RwPoints, HashedPoints, CommitPoints
  <2>2. fwr' \in [0 .. 7 -> TagWord] /\ keymgr' \in [major : TagWord, vld : {1, 2}, lock : {0, 1}]
    BY <1>11, <2>1 DEF set_fwr
  <2>3. QED
    BY <1>11, <2>2 DEF set_fwr, Advance, Goto, storage, buffers, CommitPoints
<1>12. CASE protect_flash_region
  <2>1. call.addr \in Word /\ WSub(hdr.image_size, 1) \in Word
    <3>1. call.addr \in Word /\ hdr \in Image
      BY <1>12, <1>h DEF protect_flash_region, RwPoints, HashedPoints, CommitPoints
    <3>2. 1 \in Word
      BY SmallWords
    <3>3. QED
      BY <3>1, <3>2, ImageFields, WordClosed
  <2>2. region' \in [0 .. 7 -> Window]
    BY <1>12, <2>1 DEF protect_flash_region, Window
  <2>3. QED
    BY <1>12, <2>2 DEF protect_flash_region, Advance, Goto, storage, buffers, CommitPoints
<1>13. CASE disarm_ram_guards
  <2>1. guard' \in [0 .. 2 -> 0 .. 7]
    BY <1>13, UpdateType, 7 \in 0 .. 7 DEF disarm_ram_guards
  <2>2. QED
    BY <1>13, <2>1 DEF disarm_ram_guards, Advance, Goto, storage, buffers, CommitPoints
<1>14. CASE announce_jump
  BY <1>14, <1>h DEF announce_jump, Goto, storage, registers, CommitPoints, HashedPoints,
                     RwPoints
<1>15. CASE _jump_to_address
  <2>1. call.addr \in Word /\ HeaderSize \in Word
    BY <1>15, <1>h, SmallWords DEF _jump_to_address, RwPoints, HashedPoints, CommitPoints
  <2>2. vtor' \in Word
    BY <1>15, <2>1, WordClosed DEF _jump_to_address
  <2>3. QED
    BY <1>15, <2>2 DEF _jump_to_address, Advance, Goto, storage, buffers, CommitPoints
<1>16. CASE Reset
  <2>1. 0 \in Word /\ 0 \in TagWord
    BY SmallWords, SignedHeaderAssumption
  <2>2. guard' \in [0 .. 2 -> 0 .. 7]
    BY <1>16, LaunchAssumption DEF Reset
  <2>3. QED
    BY <1>16, <2>1, <2>2
    DEF Reset, storage, NoStaging, NoWindow, ResetPerm, ResetFwr, ResetKeymgr, NoRegion,
        ZeroFuses, NoHashes, SilentConsole, Window, DigestOrNone, NoCode
<1>17. QED
  BY <1>0, <1>1, <1>2, <1>3, <1>4, <1>5, <1>6, <1>7, <1>8, <1>9, <1>10, <1>11, <1>12,
     <1>13, <1>14, <1>15, <1>16 DEF Next, Step

-----------------------------------------------------------------------------
(* The layout is the contract's. *)
LEMMA ContractLayout ==
    /\ Contract!RoSlots = RoSlots /\ Contract!RwSlots = RwSlots /\ Contract!Slots = Slots
    /\ Contract!Word = Word /\ Contract!LaunchCode = LaunchCode
    /\ Contract!NoCode = NoCode
BY DEF Contract!RoSlots, Contract!RwSlots, Contract!Slots, Contract!RO_A_BASE,
       Contract!RO_B_BASE, Contract!RW_A_BASE, Contract!RW_B_BASE, RoSlots, RwSlots, Slots,
       RO_A_BASE, RO_B_BASE, RW_A_BASE, RW_B_BASE, Contract!Word, Word,
       Contract!LaunchCode, LaunchCode, Contract!NoCode, NoCode

(* No step of the launcher changes the call it serves, the flash or the      *)
(* fuses.                                                                     *)
LEMMA Frame ==
    ASSUME Step
    PROVE  call' = call /\ flash' = flash /\ efuse' = efuse /\ hdr' = hdr
<1>1. call' = call /\ flash' = flash /\ efuse' = efuse
  BY DEF Step, launch_image, launch_RO, launch_RW, stage_ro_region, stage_rw_region,
         stage_rx_region, hash_region, print_hashes, check_hashes, set_runlevel, set_fwr,
         protect_flash_region, disarm_ram_guards, announce_jump, _jump_to_address,
         Goto, Advance, Return, storage
<1>2. QED
  BY <1>1 DEF hdr

(* A launch function that gets past its entry checks serves one of its own   *)
(* slots, with a header that passed.                                          *)
LEMMA EntryAccepted ==
    ASSUME NEW own, entry_checks(own) = LAUNCH_SUCCESS
    PROVE  /\ call.addr \in own
           /\ verify_SignedHeader(hdr, call.max, call.addr) = LAUNCH_SUCCESS
BY DEF entry_checks, LAUNCH_SUCCESS, LAUNCH_INVALID_REGION

LEMMA ScreenedStep == TypeOK /\ Screened /\ [Next]_vars => Screened'
<1> SUFFICES ASSUME TypeOK, Screened, [Next]_vars PROVE Screened'
  OBVIOUS
<1> USE DEF Screened
<1>a. ASSUME Step, NEW own, Accepted(own) PROVE Accepted(own)'
  BY <1>a, Frame DEF Accepted
<1>0. CASE UNCHANGED vars
  BY <1>0 DEF vars, control, storage, registers, buffers, Accepted, hdr
<1>1. ASSUME NEW c \in Calls, Call(c) PROVE Screened'
  <2>1. c.fn \in {"launch_image", "launch_RO", "launch_RW"} /\ pc' = c.fn /\ call' = c
    BY <1>1, LaunchAssumption DEF Call
  <2>2. QED
    BY <2>1 DEF RwPoints, HashedPoints, CommitPoints
<1>2. CASE Reset
  BY <1>2 DEF Reset, RwPoints, HashedPoints, CommitPoints
<1>3. CASE launch_image
  <2>1. call' = call
    BY <1>3, Frame DEF Step
  <2>2. QED
    BY <1>3, <2>1 DEF launch_image, Goto, Return, RwPoints, HashedPoints, CommitPoints
<1>4. CASE launch_RO
  <2>1. CASE entry_checks(RoSlots) # LAUNCH_SUCCESS
    BY <1>4, <2>1 DEF launch_RO, Return, RwPoints, HashedPoints, CommitPoints
  <2>2. CASE entry_checks(RoSlots) = LAUNCH_SUCCESS
    <3>0. /\ call.addr \in RoSlots
          /\ verify_SignedHeader(hdr, call.max, call.addr) = LAUNCH_SUCCESS
      BY <2>2, EntryAccepted
    <3>s. Contract!ServedRegion(call)
      BY <1>4, <3>0, ContractLayout DEF launch_RO, Contract!ServedRegion, Slots
    <3>1. Accepted(RoSlots)
      BY <3>0, <3>s DEF Accepted
    <3>2. pc' = "stage_ro_region"
      BY <1>4, <2>2 DEF launch_RO, Goto
    <3>3. QED
      BY <1>4, <1>a, <3>1, <3>2 DEF Step, RwPoints, HashedPoints, CommitPoints
  <2>3. QED
    BY <2>1, <2>2
<1>5. CASE launch_RW
  <2>1. CASE entry_checks(RwSlots) # LAUNCH_SUCCESS
    BY <1>5, <2>1 DEF launch_RW, Return, RwPoints, HashedPoints, CommitPoints
  <2>2. CASE entry_checks(RwSlots) = LAUNCH_SUCCESS
    <3>0. /\ call.addr \in RwSlots
          /\ verify_SignedHeader(hdr, call.max, call.addr) = LAUNCH_SUCCESS
      BY <2>2, EntryAccepted
    <3>s. Contract!ServedRegion(call)
      BY <1>5, <3>0, ContractLayout DEF launch_RW, Contract!ServedRegion, Slots
    <3>1. Accepted(RwSlots)
      BY <3>0, <3>s DEF Accepted
    <3>2. pc' = "stage_rw_region"
      BY <1>5, <2>2 DEF launch_RW, Goto
    <3>3. QED
      BY <1>5, <1>a, <3>1, <3>2 DEF Step
  <2>3. QED
    BY <2>1, <2>2
<1>6. CASE stage_ro_region
  <2>1. pc' \in {"stage_ro_region", "idle"} /\ pc = "stage_ro_region"
    BY <1>6 DEF stage_ro_region, Advance, Goto, Return
  <2>2. QED
    BY <1>6, <1>a, <2>1 DEF Step, RwPoints, HashedPoints, CommitPoints
<1>7. CASE stage_rw_region \/ hash_region \/ print_hashes \/ check_hashes \/ set_runlevel
           \/ set_fwr \/ protect_flash_region \/ disarm_ram_guards \/ announce_jump
           \/ _jump_to_address
  <2>1. pc \in RwPoints /\ pc' \in {"idle"} \cup RwPoints
    BY <1>7 DEF stage_rw_region, hash_region, print_hashes, check_hashes, set_runlevel,
       set_fwr, protect_flash_region, disarm_ram_guards, announce_jump, _jump_to_address,
       Advance, Goto, Return, RwPoints, HashedPoints, CommitPoints
  <2>2. QED
    BY <1>7, <1>a, <2>1 DEF Step, RwPoints, HashedPoints, CommitPoints
<1>8. QED
  BY <1>0, <1>1, <1>2, <1>3, <1>4, <1>5, <1>6, <1>7 DEF Next, Step

LEMMA PositionsStep == TypeOK /\ Positions /\ [Next]_vars => Positions'
<1> SUFFICES ASSUME TypeOK, Positions, [Next]_vars PROVE Positions'
  OBVIOUS
<1>n. n \in Nat
  BY DEF TypeOK
<1>1. CASE Step
  BY <1>1, <1>n
  DEF Positions, Step, launch_image, launch_RO, launch_RW, stage_ro_region, stage_rw_region,
      hash_region, print_hashes, check_hashes, set_runlevel, set_fwr, protect_flash_region,
      disarm_ram_guards, announce_jump, _jump_to_address, Goto, Advance, Return
<1>2. CASE Reset
  BY <1>2 DEF Positions, Reset
<1>3. ASSUME NEW c \in Calls, Call(c) PROVE Positions'
  BY <1>3 DEF Positions, Call
<1>4. CASE UNCHANGED vars
  BY <1>4 DEF Positions, vars, control
<1>5. QED
  BY <1>1, <1>2, <1>3, <1>4 DEF Next

-----------------------------------------------------------------------------
LEMMA HashedStep == TypeOK /\ Positions /\ Hashed /\ [Next]_vars => Hashed'
<1> SUFFICES ASSUME TypeOK, Positions, Hashed, [Next]_vars PROVE Hashed'
  OBVIOUS
<1> USE DEF HashedPoints, CommitPoints
<1>n. n \in Nat
  BY DEF TypeOK
<1>d. ASSUME Step PROVE image_digest(hdr)' = image_digest(hdr)
                        /\ fuse_array(hdr, efuse)' = fuse_array(hdr, efuse)
  BY <1>d, Frame DEF image_digest, fuse_array
<1>0. CASE UNCHANGED vars
  BY <1>0 DEF vars, control, storage, registers, buffers, hdr, Hashed, image_digest, fuse_array
<1>1. ASSUME NEW c \in Calls, Call(c) PROVE Hashed'
  <2>1. pc' \in {"launch_image", "launch_RO", "launch_RW"}
    BY <1>1, LaunchAssumption DEF Call
  <2>2. QED
    BY <2>1 DEF Hashed
<1>2. CASE Reset
  BY <1>2 DEF Reset, Hashed
<1>3. CASE launch_image \/ launch_RO \/ launch_RW \/ stage_ro_region
  <2>1. pc' \in {"idle", "launch_RO", "launch_RW", "stage_ro_region", "stage_rw_region"}
    BY <1>3 DEF launch_image, launch_RO, launch_RW, stage_ro_region, Goto, Return, Advance
  <2>2. QED
    BY <2>1 DEF Hashed
<1>4. CASE stage_rw_region
  <2>1. pc' = "stage_rw_region" \/ (pc' = "hash_region" /\ n' = 0)
    BY <1>4 DEF stage_rw_region, Advance, Goto
  <2>2. QED
    BY <2>1 DEF Hashed
<1>5. CASE hash_region
  <2>1. hashes \in [img : DigestOrNone(ImageDigest), fuses : DigestOrNone(FuseArray),
                    info : DigestOrNone(InfoDigest)]
    BY DEF TypeOK
  <2>2. CASE n = 0
    <3>1. pc' = "hash_region" /\ n' = 1 /\ hashes'.img = image_digest(hdr)
      BY <1>5, <2>1, <2>2 DEF hash_region, Advance
    <3>2. QED
      BY <1>5, <1>d, <3>1 DEF Hashed, Step
  <2>3. CASE n = 1
    <3>1. /\ pc' = "hash_region" /\ n' = 2 /\ hashes'.img = hashes.img
          /\ hashes'.fuses = fuse_array(hdr, efuse)
      BY <1>5, <2>1, <2>3 DEF hash_region, Advance
    <3>2. hashes.img = image_digest(hdr)
      BY <1>5, <2>3 DEF Hashed, hash_region
    <3>3. QED
      BY <1>5, <1>d, <3>1, <3>2 DEF Hashed, Step
  <2>4. CASE n = 2
    <3>1. pc' = "print_hashes" /\ hashes'.img = hashes.img /\ hashes'.fuses = hashes.fuses
      BY <1>5, <2>1, <2>4 DEF hash_region, Advance, Goto
    <3>2. hashes.img = image_digest(hdr) /\ hashes.fuses = fuse_array(hdr, efuse)
      BY <1>5, <2>4 DEF Hashed, hash_region
    <3>3. QED
      BY <1>5, <1>d, <3>1, <3>2 DEF Hashed, Step
  <2>5. QED
    BY <1>5, <1>n, <2>2, <2>3, <2>4 DEF hash_region
<1>6. CASE print_hashes
  <2>1. pc = "print_hashes" /\ pc' = "check_hashes" /\ hashes' = hashes
    BY <1>6 DEF print_hashes, Goto
  <2>2. QED
    BY <1>6, <1>d, <2>1 DEF Hashed, Step
<1>7. CASE check_hashes
  <2>1. CASE hdr.img_chk_ # hashes.img \/ hdr.fuses_chk_ # hashes.fuses
    BY <1>7, <2>1 DEF check_hashes, Return, Hashed
  <2>2. CASE hdr.img_chk_ = hashes.img /\ hdr.fuses_chk_ = hashes.fuses
    <3>1. pc = "check_hashes" /\ pc' = "set_runlevel" /\ hashes' = hashes
      BY <1>7, <2>2 DEF check_hashes, Goto, buffers
    <3>2. QED
      BY <1>7, <1>d, <2>2, <3>1, Frame DEF Hashed, Step
  <2>3. QED
    BY <2>1, <2>2
<1>8. CASE set_runlevel \/ set_fwr \/ protect_flash_region \/ disarm_ram_guards
           \/ announce_jump \/ _jump_to_address
  <2>1. pc \in CommitPoints /\ pc' \in CommitPoints /\ hashes' = hashes
    BY <1>8 DEF set_runlevel, set_fwr, protect_flash_region, disarm_ram_guards,
       announce_jump, _jump_to_address, Advance, Goto, buffers
  <2>2. QED
    BY <1>8, <1>d, <2>1, Frame DEF Hashed, Step
<1>9. QED
  BY <1>0, <1>1, <1>2, <1>3, <1>4, <1>5, <1>6, <1>7, <1>8 DEF Next, Step

(* Nothing before set_runlevel() touches a privileged register. *)
LEMMA ClosedStep == Closed /\ [Next]_vars => Closed'
<1> SUFFICES ASSUME Closed, [Next]_vars PROVE Closed'
  OBVIOUS
<1> USE DEF Closed, CommitPoints
<1>0. CASE UNCHANGED vars
  BY <1>0 DEF vars, control, registers, PrivilegeAtReset
<1>1. ASSUME NEW c \in Calls, Call(c) PROVE Closed'
  BY <1>1 DEF Call, registers, PrivilegeAtReset
<1>2. CASE Reset
  BY <1>2 DEF Reset, PrivilegeAtReset
<1>3. CASE launch_image \/ launch_RO \/ launch_RW \/ stage_ro_region \/ stage_rw_region
           \/ hash_region \/ print_hashes \/ check_hashes
  <2>1. pc \notin CommitPoints /\ UNCHANGED <<perm, fwr, keymgr, region, vtor>>
    BY <1>3 DEF launch_image, launch_RO, launch_RW, stage_ro_region, stage_rw_region,
       stage_rx_region, hash_region, print_hashes, check_hashes, registers
  <2>2. QED
    BY <2>1 DEF PrivilegeAtReset
<1>4. CASE set_runlevel \/ set_fwr \/ protect_flash_region \/ disarm_ram_guards
           \/ announce_jump \/ _jump_to_address
  BY <1>4 DEF set_runlevel, set_fwr, protect_flash_region, disarm_ram_guards,
     announce_jump, _jump_to_address, Advance, Goto
<1>5. QED
  BY <1>0, <1>1, <1>2, <1>3, <1>4 DEF Next, Step

-----------------------------------------------------------------------------
(* The register writes, function by function.                                *)
LEMMA RunlevelStep == TypeOK /\ Positions /\ RunlevelProgress /\ [Next]_vars => RunlevelProgress'
<1> SUFFICES ASSUME TypeOK, Positions, RunlevelProgress, [Next]_vars PROVE RunlevelProgress'
  OBVIOUS
<1> USE DEF RunlevelProgress, Lowered, Past, AfterRunlevel, CommitPoints
<1>n. n \in Nat /\ perm \in [0 .. 3 -> {PERMISSION_MEDIUM, PERMISSION_HIGHEST}]
  BY DEF TypeOK
<1>0. CASE UNCHANGED vars
  BY <1>0 DEF vars, control, registers
<1>1. ASSUME NEW c \in Calls, Call(c) PROVE RunlevelProgress'
  <2>1. pc' \in {"launch_image", "launch_RO", "launch_RW"}
    BY <1>1, LaunchAssumption DEF Call
  <2>2. QED
    BY <2>1
<1>2. CASE Reset
  BY <1>2 DEF Reset
<1>3. CASE launch_image \/ launch_RO \/ launch_RW \/ stage_ro_region \/ stage_rw_region
           \/ hash_region \/ print_hashes
  <2>1. pc' \notin CommitPoints
    BY <1>3 DEF launch_image, launch_RO, launch_RW, stage_ro_region, stage_rw_region,
       hash_region, print_hashes, Advance, Goto, Return
  <2>2. QED
    BY <2>1
<1>4. CASE check_hashes
  BY <1>4 DEF check_hashes, Goto, Return
<1>5. CASE set_runlevel
  <2>1. perm' = [perm EXCEPT ![n] = PERMISSION_MEDIUM] /\ pc = "set_runlevel" /\ n \in 0 .. 3
    BY <1>5, <1>n DEF set_runlevel, Positions
  <2>2. \/ n < 3 /\ n' = n + 1 /\ pc' = pc
        \/ n = 3 /\ n' = 0 /\ pc' = "set_fwr"
    BY <1>5, <2>1 DEF set_runlevel, Advance, Goto
  <2>3. QED
    BY <1>n, <2>1, <2>2
<1>6. CASE set_fwr \/ protect_flash_region \/ disarm_ram_guards \/ announce_jump
           \/ _jump_to_address
  <2>1. perm' = perm /\ pc \in AfterRunlevel
    BY <1>6 DEF set_fwr, protect_flash_region, disarm_ram_guards, announce_jump,
       _jump_to_address, registers
  <2>2. QED
    BY <2>1
<1>7. QED
  BY <1>0, <1>1, <1>2, <1>3, <1>4, <1>5, <1>6 DEF Next, Step

LEMMA FwrStep == TypeOK /\ Positions /\ Closed /\ FwrProgress /\ [Next]_vars => FwrProgress'
<1> SUFFICES ASSUME TypeOK, Positions, Closed, FwrProgress, [Next]_vars PROVE FwrProgress'
  OBVIOUS
<1> USE DEF FwrProgress, Published, Past, AfterFwr, AfterRunlevel, CommitPoints
<1>n. /\ n \in Nat /\ fwr \in [0 .. 7 -> TagWord]
      /\ keymgr \in [major : TagWord, vld : {1, 2}, lock : {0, 1}]
  BY DEF TypeOK
<1>0. CASE UNCHANGED vars
  BY <1>0 DEF vars, control, registers, storage, hdr
<1>1. ASSUME NEW c \in Calls, Call(c) PROVE FwrProgress'
  <2>1. pc' \in {"launch_image", "launch_RO", "launch_RW"} /\ keymgr' = ResetKeymgr
    BY <1>1, LaunchAssumption DEF Call, registers, Closed, PrivilegeAtReset
  <2>2. QED
    BY <2>1 DEF ResetKeymgr
<1>2. CASE Reset
  BY <1>2 DEF Reset, ResetKeymgr
<1>3. CASE launch_image \/ launch_RO \/ launch_RW \/ stage_ro_region \/ stage_rw_region
           \/ hash_region \/ print_hashes \/ check_hashes
  <2>1. pc' \notin {"set_fwr"} \cup AfterFwr /\ keymgr' = ResetKeymgr
    BY <1>3 DEF launch_image, launch_RO, launch_RW, stage_ro_region, stage_rw_region,
       hash_region, print_hashes, check_hashes, Advance, Goto, Return, registers,
       stage_rx_region, Closed, PrivilegeAtReset
  <2>2. QED
    BY <2>1 DEF ResetKeymgr
<1>4. CASE set_runlevel
  <2>1. keymgr' = keymgr /\ pc = "set_runlevel" /\ (pc' = "set_runlevel" \/ (pc' = "set_fwr" /\ n' = 0))
    BY <1>4 DEF set_runlevel, Advance, Goto
  <2>2. QED
    BY <2>1
<1>5. CASE set_fwr
  <2>1. n \in 0 .. 9 /\ pc = "set_fwr" /\ hdr' = hdr
    BY <1>5, Frame DEF set_fwr, TypeOK, Step
  <2>2. \/ n < 9 /\ n' = n + 1 /\ pc' = pc
        \/ n = 9 /\ n' = 0 /\ pc' = "protect_flash_region"
    BY <1>5, <2>1 DEF set_fwr, Advance, Goto
  <2>3. \A w \in 0 .. 5 : w <= n => fwr'[w] = hdr.tag[w]
    BY <1>5, <1>n, <2>1 DEF set_fwr
  <2>4. /\ 7 <= n => keymgr'.major = hdr.major_
        /\ keymgr'.vld = IF 8 <= n THEN 2 ELSE 1
        /\ keymgr'.lock = IF 9 <= n THEN 0 ELSE 1
    BY <1>5, <1>n, <2>1 DEF set_fwr
  <2>5. QED
    BY <2>1, <2>2, <2>3, <2>4
<1>6. CASE protect_flash_region \/ disarm_ram_guards \/ announce_jump \/ _jump_to_address
  <2>1. fwr' = fwr /\ keymgr' = keymgr /\ pc \in AfterFwr /\ pc' \in AfterFwr
    BY <1>6 DEF protect_flash_region, disarm_ram_guards, announce_jump,
       _jump_to_address, registers, Advance, Goto
  <2>2. hdr' = hdr
    BY <1>6, Frame DEF Step
  <2>3. QED
    BY <2>1, <2>2
<1>7. QED
  BY <1>0, <1>1, <1>2, <1>3, <1>4, <1>5, <1>6 DEF Next, Step

LEMMA RegionStep ==
    TypeOK /\ Positions /\ Closed /\ RegionProgress /\ [Next]_vars => RegionProgress'
<1> SUFFICES ASSUME TypeOK, Positions, Closed, RegionProgress, [Next]_vars
             PROVE RegionProgress'
  OBVIOUS
<1> USE DEF RegionProgress, Protected, Past, AfterProtect, AfterFwr, AfterRunlevel, CommitPoints
<1>n. n \in Nat /\ region \in [0 .. 7 -> Window]
  BY DEF TypeOK
<1>0. CASE UNCHANGED vars
  BY <1>0 DEF vars, control, registers, storage, hdr
<1>1. ASSUME NEW c \in Calls, Call(c) PROVE RegionProgress'
  <2>1. pc' \in {"launch_image", "launch_RO", "launch_RW"} /\ region' = NoRegion
    BY <1>1, LaunchAssumption DEF Call, registers, Closed, PrivilegeAtReset
  <2>2. QED
    BY <2>1 DEF NoRegion, NoWindow
<1>2. CASE Reset
  BY <1>2 DEF Reset, NoRegion, NoWindow
<1>3. CASE launch_image \/ launch_RO \/ launch_RW \/ stage_ro_region \/ stage_rw_region
           \/ hash_region \/ print_hashes \/ check_hashes
  <2>1. pc' \notin {"protect_flash_region"} \cup AfterProtect /\ region' = NoRegion
    BY <1>3 DEF launch_image, launch_RO, launch_RW, stage_ro_region, stage_rw_region,
       hash_region, print_hashes, check_hashes, Advance, Goto, Return, registers,
       stage_rx_region, Closed, PrivilegeAtReset
  <2>2. QED
    BY <2>1 DEF NoRegion, NoWindow
<1>4. CASE set_runlevel \/ set_fwr
  <2>1. /\ region' = region /\ pc \in {"set_runlevel", "set_fwr"}
        /\ pc' \in {"set_runlevel", "set_fwr"} \/ (pc' = "protect_flash_region" /\ n' = 0)
    BY <1>4 DEF set_runlevel, set_fwr, Advance, Goto
  <2>2. QED
    BY <2>1
<1>5. CASE protect_flash_region
  <2>1. n \in 0 .. 2 /\ pc = "protect_flash_region" /\ hdr' = hdr /\ call' = call
    BY <1>5, <1>n, Frame DEF protect_flash_region, Positions, Step
  <2>2. \/ n < 2 /\ n' = n + 1 /\ pc' = pc
        \/ n = 2 /\ n' = 0 /\ pc' = "disarm_ram_guards"
    BY <1>5, <2>1 DEF protect_flash_region, Advance, Goto
  <2>3. /\ region'[1].base = call.addr
        /\ 1 <= n => region'[1].size = WSub(hdr.image_size, 1)
        /\ region'[1].ctrl = IF 2 <= n THEN 3 ELSE 0
    BY <1>5, <1>n, <2>1 DEF protect_flash_region, Window
  <2>4. QED
    BY <2>1, <2>2, <2>3
<1>6. CASE disarm_ram_guards \/ announce_jump \/ _jump_to_address
  <2>1. region' = region /\ pc \in AfterProtect /\ pc' \in AfterProtect
    BY <1>6 DEF disarm_ram_guards, announce_jump, _jump_to_address, registers, Advance, Goto
  <2>2. hdr' = hdr /\ call' = call
    BY <1>6, Frame DEF Step
  <2>3. QED
    BY <2>1, <2>2
<1>7. QED
  BY <1>0, <1>1, <1>2, <1>3, <1>4, <1>5, <1>6 DEF Next, Step

LEMMA GuardStep == TypeOK /\ Positions /\ GuardProgress /\ [Next]_vars => GuardProgress'
<1> SUFFICES ASSUME TypeOK, Positions, GuardProgress, [Next]_vars PROVE GuardProgress'
  OBVIOUS
<1> USE DEF GuardProgress, Disarmed, Past, AfterDisarm, AfterProtect, AfterFwr, AfterRunlevel,
            CommitPoints
<1>n. n \in Nat /\ guard \in [0 .. 2 -> 0 .. 7]
  BY DEF TypeOK
<1>0. CASE UNCHANGED vars
  BY <1>0 DEF vars, control, registers
<1>1. ASSUME NEW c \in Calls, Call(c) PROVE GuardProgress'
  <2>1. pc' \in {"launch_image", "launch_RO", "launch_RW"}
    BY <1>1, LaunchAssumption DEF Call
  <2>2. QED
    BY <2>1
<1>2. CASE Reset
  BY <1>2 DEF Reset
<1>3. CASE launch_image \/ launch_RO \/ launch_RW \/ stage_ro_region \/ stage_rw_region
           \/ hash_region \/ print_hashes \/ check_hashes \/ set_runlevel \/ set_fwr
           \/ protect_flash_region
  <2>1. pc' \notin {"disarm_ram_guards"} \cup AfterDisarm
        \/ (pc' = "disarm_ram_guards" /\ n' = 0)
    BY <1>3 DEF launch_image, launch_RO, launch_RW, stage_ro_region, stage_rw_region,
       hash_region, print_hashes, check_hashes, set_runlevel, set_fwr, protect_flash_region,
       Advance, Goto, Return
  <2>2. QED
    BY <2>1
<1>4. CASE disarm_ram_guards
  <2>1. guard' = [guard EXCEPT ![n] = 7] /\ pc = "disarm_ram_guards" /\ n \in 0 .. 2
    BY <1>4, <1>n DEF disarm_ram_guards, Positions
  <2>2. \/ n < 2 /\ n' = n + 1 /\ pc' = pc
        \/ n = 2 /\ n' = 0 /\ pc' = "announce_jump"
    BY <1>4, <2>1 DEF disarm_ram_guards, Advance, Goto
  <2>3. QED
    BY <1>n, <2>1, <2>2
<1>5. CASE announce_jump \/ _jump_to_address
  <2>1. guard' = guard /\ pc \in AfterDisarm
    BY <1>5 DEF announce_jump, _jump_to_address, registers
  <2>2. QED
    BY <2>1
<1>6. QED
  BY <1>0, <1>1, <1>2, <1>3, <1>4, <1>5 DEF Next, Step

LEMMA VtorStep == TypeOK /\ Positions /\ VtorProgress /\ [Next]_vars => VtorProgress'
<1> SUFFICES ASSUME TypeOK, Positions, VtorProgress, [Next]_vars PROVE VtorProgress'
  OBVIOUS
<1> USE DEF VtorProgress
<1>n. n \in Nat
  BY DEF TypeOK
<1>0. CASE UNCHANGED vars
  BY <1>0 DEF vars, control, registers
<1>1. ASSUME NEW c \in Calls, Call(c) PROVE VtorProgress'
  <2>1. pc' \in {"launch_image", "launch_RO", "launch_RW"}
    BY <1>1, LaunchAssumption DEF Call
  <2>2. QED
    BY <2>1
<1>2. CASE Reset
  BY <1>2 DEF Reset
<1>3. CASE _jump_to_address
  <2>1. n \in 0 .. 1 /\ pc = "_jump_to_address" /\ call' = call
    BY <1>3, <1>n, Frame DEF _jump_to_address, Positions, Step
  <2>2. QED
    BY <1>3, <2>1 DEF _jump_to_address, Advance, Goto
<1>4. CASE Step /\ ~_jump_to_address
  <2>1. pc' \notin {"launched", "_jump_to_address"} \/ (pc' = "_jump_to_address" /\ n' = 0)
    BY <1>4 DEF Step, launch_image, launch_RO, launch_RW, stage_ro_region, stage_rw_region,
       hash_region, print_hashes, check_hashes, set_runlevel, set_fwr, protect_flash_region,
       disarm_ram_guards, announce_jump, Advance, Goto, Return
  <2>2. QED
    BY <2>1
<1>5. QED
  BY <1>0, <1>1, <1>2, <1>3, <1>4 DEF Next

LEMMA StagingStep == TypeOK /\ Positions /\ StagingProgress /\ [Next]_vars => StagingProgress'
<1> SUFFICES ASSUME TypeOK, Positions, StagingProgress, [Next]_vars PROVE StagingProgress'
  OBVIOUS
<1> USE DEF StagingProgress, Staged, Past, AfterStage, RwPoints, HashedPoints, CommitPoints
<1>n. n \in Nat /\ staging \in [0 .. 7 -> Window]
  BY DEF TypeOK
<1>0. CASE UNCHANGED vars
  BY <1>0 DEF vars, control, registers, storage, hdr
<1>1. ASSUME NEW c \in Calls, Call(c) PROVE StagingProgress'
  <2>1. pc' \in {"launch_image", "launch_RO", "launch_RW"}
    BY <1>1, LaunchAssumption DEF Call
  <2>2. QED
    BY <2>1
<1>2. CASE Reset
  BY <1>2 DEF Reset
<1>3. CASE launch_image \/ launch_RO \/ launch_RW \/ stage_ro_region
  <2>1. pc' \notin RwPoints \/ (pc' = "stage_rw_region" /\ n' = 0)
    BY <1>3 DEF launch_image, launch_RO, launch_RW, stage_ro_region, Advance, Goto, Return
  <2>2. QED
    BY <2>1
<1>4. CASE stage_rw_region
  <2>1. n \in 0 .. 2 /\ pc = "stage_rw_region" /\ hdr' = hdr
    BY <1>4, <1>n, Frame DEF stage_rw_region, Positions, Step
  <2>2. \/ n < 2 /\ n' = n + 1 /\ pc' = pc
        \/ n = 2 /\ n' = 0 /\ pc' = "hash_region"
    BY <1>4, <2>1 DEF stage_rw_region, Advance, Goto
  <2>3. /\ staging'[1].base = hdr.rx_base
        /\ 1 <= n => staging'[1].size = staged_size(hdr)
        /\ 2 <= n => staging'[1].ctrl = 3
    BY <1>4, <1>n, <2>1 DEF stage_rw_region, stage_rx_region, Window
  <2>4. staged_size(hdr)' = staged_size(hdr)
    BY <2>1 DEF staged_size
  <2>5. QED
    BY <2>1, <2>2, <2>3, <2>4
<1>5. CASE hash_region \/ print_hashes \/ check_hashes \/ set_runlevel \/ set_fwr
           \/ protect_flash_region \/ disarm_ram_guards \/ announce_jump \/ _jump_to_address
  <2>1. staging' = staging /\ pc \in AfterStage
    BY <1>5 DEF hash_region, print_hashes, check_hashes, set_runlevel, set_fwr,
       protect_flash_region, disarm_ram_guards, announce_jump, _jump_to_address, registers
  <2>2. hdr' = hdr /\ staged_size(hdr)' = staged_size(hdr)
    BY <1>5, Frame DEF Step, staged_size
  <2>3. QED
    BY <2>1, <2>2
<1>6. QED
  BY <1>0, <1>1, <1>2, <1>3, <1>4, <1>5 DEF Next, Step

-----------------------------------------------------------------------------
LEMMA InitIInv == Init => IInv
<1> SUFFICES ASSUME Init PROVE IInv
  OBVIOUS
<1>1. TypeOK
  BY InitType
<1>2. /\ pc = "idle" /\ n = 0 /\ perm = ResetPerm /\ fwr = ResetFwr
      /\ keymgr = ResetKeymgr /\ region = NoRegion /\ vtor = 0
  BY DEF Init
<1>3. Screened /\ Hashed /\ Closed /\ Positions
  BY <1>2 DEF Screened, Hashed, Closed, Positions, PrivilegeAtReset, RwPoints,
              HashedPoints, CommitPoints
<1>4. /\ StagingProgress /\ RunlevelProgress /\ FwrProgress /\ RegionProgress
      /\ GuardProgress /\ VtorProgress
  BY <1>2 DEF StagingProgress, RunlevelProgress, FwrProgress, RegionProgress, GuardProgress,
     VtorProgress, Staged, Lowered, Published, Protected, Disarmed, Past, AfterStage,
     AfterRunlevel, AfterFwr, AfterProtect, AfterDisarm, RwPoints, HashedPoints, CommitPoints,
     ResetKeymgr, NoRegion, NoWindow
<1>5. QED
  BY <1>1, <1>3, <1>4 DEF IInv

LEMMA StepIInv == IInv /\ [Next]_vars => IInv'
BY TypeStep, ScreenedStep, HashedStep, ClosedStep, PositionsStep, StagingStep, RunlevelStep,
   FwrStep, RegionStep, GuardStep, VtorStep DEF IInv

(* The inductive invariant holds in every reachable state. *)
THEOREM IInvariance == Spec => []IInv
BY InitIInv, StepIInv, PTL DEF Spec

(* Registers, buffers and control always hold values of their types. *)
THEOREM TypeCorrect == Spec => []TypeOK
<1>1. IInv => TypeOK
  BY DEF IInv
<1>2. QED
  BY <1>1, IInvariance, PTL

(* A call for a slot stays inside it, without wrapping round. *)
LEMMA CallInSlot ==
    ASSUME TypeOK, call.addr \in Slots
    PROVE  /\ call.addr \in Nat /\ call.addr > 0 /\ call.max \in Nat
           /\ call.max <= SlotSize(call.addr) /\ SlotSize(call.addr) \in Nat
           /\ call.addr + SlotSize(call.addr) < WordSize
           /\ WAdd(call.addr, call.max) = call.addr + call.max
           /\ hdr \in Image
<1>1. call \in Calls /\ hdr \in Image
  BY DEF TypeOK, hdr
<1>2. call.max \in Word /\ call.max <= SlotSize(call.addr)
  BY <1>1, LaunchAssumption
<1>3. /\ call.addr \in Nat /\ call.addr > 0 /\ SlotSize(call.addr) \in Nat
      /\ call.addr + SlotSize(call.addr) < WordSize
  BY SlotFacts DEF Word
<1>4. QED
  BY <1>1, <1>2, <1>3, LayoutFacts DEF WAdd, Word

(* An image the header check accepts has no header defect in the contract,   *)
(* and is big enough for the hashed area and the vector table.                *)
LEMMA AcceptedHeader ==
    ASSUME TypeOK, call.addr \in Slots,
           verify_SignedHeader(hdr, call.max, call.addr) = LAUNCH_SUCCESS
    PROVE  /\ Contract!HeaderDefects(hdr, call.addr, call.max) = {}
           /\ hdr.image_size \in Nat /\ BankSize <= hdr.image_size
           /\ hdr.image_size <= call.max
           /\ WSub(hdr.image_size, TagOffset) = hdr.image_size - TagOffset
           /\ WSub(hdr.image_size, 1) = hdr.image_size - 1
<1>1. /\ hdr.image_size \in Nat /\ hdr.ro_base \in Nat /\ hdr.ro_max \in Nat
      /\ hdr.rx_base \in Nat /\ hdr.rx_max \in Nat
  BY CallInSlot, ImageFields DEF Word
<1>2. /\ hdr.magic = MAGIC_HAVEN
      /\ ~(hdr.image_size < BankSize) /\ ~(hdr.image_size > call.max)
      /\ ~(hdr.ro_base < call.addr) /\ ~(hdr.ro_max > call.addr + call.max)
      /\ ~(hdr.rx_base < call.addr) /\ ~(hdr.rx_max > call.addr + call.max)
  BY CallInSlot
  DEF verify_SignedHeader, LAUNCH_SUCCESS, LAUNCH_INVALID_MAGIC,
       LAUNCH_IMAGE_TOO_SMALL, LAUNCH_IMAGE_TOO_LARGE, LAUNCH_RO_BASE_BEFORE_REGION,
       LAUNCH_RO_MAX_AFTER_REGION, LAUNCH_RX_BASE_BEFORE_REGION,
       LAUNCH_RX_MAX_AFTER_REGION
<1>3. Contract!HeaderDefects(hdr, call.addr, call.max) = {}
  BY <1>2 DEF Contract!HeaderDefects
<1>4. QED
  BY <1>1, <1>2, <1>3, CallInSlot, LayoutFacts DEF WSub

(* Where the hashes have been compared, the contract finds no defect.        *)
LEMMA CommitMeansNoDefect ==
    ASSUME IInv, pc \in CommitPoints
    PROVE  call.addr \in RwSlots /\ Contract!Defects(call) = {}
<1>1. /\ TypeOK /\ call.addr \in RwSlots /\ call.addr \in Slots
      /\ Contract!ServedRegion(call)
      /\ verify_SignedHeader(hdr, call.max, call.addr) = LAUNCH_SUCCESS
  BY DEF IInv, Screened, Accepted, RwPoints, HashedPoints, Slots
<1>2. hdr.img_chk_ = image_digest(hdr) /\ hdr.fuses_chk_ = fuse_array(hdr, efuse)
  BY DEF IInv, Hashed, HashedPoints
<1>3. Contract!Genuine(hdr)
  BY <1>1, <1>2, AcceptedHeader DEF Contract!Genuine, image_digest, fuse_array
<1>4. Contract!HeaderDefects(hdr, call.addr, call.max) = {}
  BY <1>1, AcceptedHeader
<1>5. QED
  BY <1>1, <1>3, <1>4 DEF Contract!Defects, hdr

(* A privileged register off its reset value means an image without defects  *)
(* is being launched.                                                         *)
THEOREM PrivilegeEarned == Spec => []PrivilegeFollowsVerdict
<1>1. IInv => PrivilegeFollowsVerdict
  BY CommitMeansNoDefect DEF PrivilegeFollowsVerdict, IInv, Closed
<1>2. QED
  BY <1>1, IInvariance, PTL

(* Whatever takes effect does so over data already written. *)
THEOREM DataBeforeEnable == Spec => []EnabledAfterData
<1>1. ASSUME IInv PROVE EnabledAfterData
  <2>1. CASE pc \notin CommitPoints
    BY <1>1, <2>1 DEF IInv, Closed, PrivilegeAtReset, EnabledAfterData, NoRegion, NoWindow,
                      ResetKeymgr
  <2>2. CASE pc \in CommitPoints
    <3>1. WSub(hdr.image_size, 1) = hdr.image_size - 1
      BY <1>1, <2>2, AcceptedHeader
      DEF IInv, Screened, Accepted, RwPoints, HashedPoints, Slots
    <3>2. n \in Nat
      BY <1>1 DEF IInv, TypeOK
    <3>3. region[1].ctrl = 3 => Protected(0) /\ Protected(1)
      BY <1>1, <3>2 DEF IInv, RegionProgress, Protected, Past
    <3>4. keymgr.vld = 2 => Published(7) /\ Published(8) /\ \A w \in 0 .. 5 : Published(w)
      BY <1>1, <3>2 DEF IInv, FwrProgress, Published, Past
    <3>5. keymgr.lock = 0 => Published(8)
      BY <1>1, <3>2 DEF IInv, FwrProgress, Published, Past
    <3>6. QED
      BY <1>1, <3>1, <3>3, <3>4, <3>5 DEF IInv, FwrProgress, RegionProgress, EnabledAfterData
  <2>3. QED
    BY <2>1, <2>2
<1>2. QED
  BY <1>1, IInvariance, PTL

(* The image gets control over a complete configuration. *)
THEOREM ConfiguredBeforeJump == Spec => []LaunchedConfiguration
<1>1. ASSUME IInv, pc = "launched" PROVE LaunchedConfiguration
  <2>1. /\ \A j \in 0 .. 9 : Staged(j) /\ Lowered(j) /\ Published(j) /\ Protected(j)
                             /\ Disarmed(j)
    BY <1>1 DEF Staged, Lowered, Published, Protected, Disarmed, Past, AfterStage,
       AfterRunlevel, AfterFwr, AfterProtect, AfterDisarm, RwPoints, HashedPoints, CommitPoints
  <2>2. call.addr \in Slots /\ verify_SignedHeader(hdr, call.max, call.addr) = LAUNCH_SUCCESS
        /\ TypeOK
    BY <1>1 DEF IInv, Screened, Accepted, RwPoints, HashedPoints, CommitPoints, Slots
  <2>3. /\ WSub(hdr.image_size, 1) = hdr.image_size - 1
        /\ WAdd(call.addr, HeaderSize) = call.addr + HeaderSize
    BY <2>2, AcceptedHeader, CallInSlot, LayoutFacts DEF WAdd
  <2>4. /\ keymgr.major = hdr.major_ /\ keymgr.vld = 2 /\ keymgr.lock = 0
        /\ \A w \in 0 .. 5 : fwr[w] = hdr.tag[w]
    BY <1>1, <2>1 DEF IInv, FwrProgress
  <2>5. keymgr = [major |-> hdr.major_, vld |-> 2, lock |-> 0]
    BY <2>2, <2>4 DEF TypeOK
  <2>6. region[1].base = call.addr /\ region[1].size = hdr.image_size - 1 /\ region[1].ctrl = 3
    BY <1>1, <2>1, <2>3 DEF IInv, RegionProgress
  <2>7. region[1] = [base |-> call.addr, size |-> hdr.image_size - 1, ctrl |-> 3]
    BY <2>2, <2>6 DEF TypeOK, Window
  <2>8. staging[1].base = hdr.rx_base /\ staging[1].size = staged_size(hdr) /\ staging[1].ctrl = 3
    BY <1>1, <2>1 DEF IInv, StagingProgress
  <2>9. staging[1] = [base |-> hdr.rx_base, size |-> staged_size(hdr), ctrl |-> 3]
    BY <2>2, <2>8 DEF TypeOK, Window
  <2>10. /\ \A r \in 0 .. 3 : perm[r] = PERMISSION_MEDIUM
         /\ \A r \in 0 .. 2 : guard[r] = 7
         /\ vtor = call.addr + HeaderSize
    BY <1>1, <2>1, <2>3 DEF IInv, RunlevelProgress, GuardProgress, VtorProgress
  <2>11. QED
    BY <2>4, <2>5, <2>7, <2>9, <2>10 DEF LaunchedConfiguration
<1>2. IInv => LaunchedConfiguration
  BY <1>1 DEF LaunchedConfiguration
<1>3. QED
  BY <1>2, IInvariance, PTL

(* The vector table the jump reads was hashed and is protected. *)
THEOREM JumpsIntoHashedFlash == Spec => []LaunchedFromHashedFlash
<1>1. ASSUME IInv, pc = "launched" PROVE LaunchedFromHashedFlash
  <2>1. call.addr \in Slots /\ verify_SignedHeader(hdr, call.max, call.addr) = LAUNCH_SUCCESS
        /\ TypeOK
    BY <1>1 DEF IInv, Screened, Accepted, RwPoints, HashedPoints, CommitPoints, Slots
  <2>2. /\ hdr.image_size \in Nat /\ BankSize <= hdr.image_size /\ hdr.image_size <= call.max
        /\ WSub(hdr.image_size, TagOffset) = hdr.image_size - TagOffset
        /\ WSub(hdr.image_size, 1) = hdr.image_size - 1
    BY <2>1, AcceptedHeader
  <2>3. hashes.img.len = hdr.image_size - TagOffset
    BY <1>1, <2>2 DEF IInv, Hashed, HashedPoints, CommitPoints, image_digest
  <2>4. WAdd(call.addr, HeaderSize) = call.addr + HeaderSize
    BY <2>1, <2>2, CallInSlot, LayoutFacts DEF WAdd
  <2>5. vtor = call.addr + HeaderSize
    BY <1>1, <2>4 DEF IInv, VtorProgress
  <2>6. region[1].base = call.addr /\ region[1].size = hdr.image_size - 1
    BY <1>1, <2>2 DEF IInv, RegionProgress, Protected, Past, AfterProtect, AfterFwr,
                      AfterRunlevel, CommitPoints
  <2>7. QED
    BY <2>1, <2>2, <2>3, <2>5, <2>6, CallInSlot, LayoutFacts
    DEF LaunchedFromHashedFlash, CoversInside
<1>2. IInv => LaunchedFromHashedFlash
  BY <1>1 DEF LaunchedFromHashedFlash
<1>3. QED
  BY <1>2, IInvariance, PTL

-----------------------------------------------------------------------------
(* Refinement: the launcher implements LaunchContract.                       *)

(* A refused header: the code is the greatest of the contract's defects.     *)
LEMMA RefusedHeader ==
    ASSUME TypeOK, call.addr \in Slots, NEW code,
           code = verify_SignedHeader(hdr, call.max, call.addr), code # LAUNCH_SUCCESS
    PROVE  /\ code \in Contract!HeaderDefects(hdr, call.addr, call.max)
           /\ LAUNCH_INVALID_HASH <= code
           /\ \A other \in Contract!HeaderDefects(hdr, call.addr, call.max) : other <= code
<1>1. WAdd(call.addr, call.max) = call.addr + call.max
  BY CallInSlot
<1>2. QED
  BY <1>1
  DEF verify_SignedHeader, Contract!HeaderDefects, LAUNCH_SUCCESS, LAUNCH_INVALID_MAGIC,
      LAUNCH_IMAGE_TOO_SMALL, LAUNCH_IMAGE_TOO_LARGE, LAUNCH_RO_BASE_BEFORE_REGION,
      LAUNCH_RO_MAX_AFTER_REGION, LAUNCH_RX_BASE_BEFORE_REGION, LAUNCH_RX_MAX_AFTER_REGION,
      LAUNCH_INVALID_HASH, Contract!LaunchCode, Contract!LAUNCH_INVALID_MAGIC,
      Contract!LAUNCH_IMAGE_TOO_SMALL, Contract!LAUNCH_IMAGE_TOO_LARGE,
      Contract!LAUNCH_RO_BASE_BEFORE_REGION, Contract!LAUNCH_RO_MAX_AFTER_REGION,
      Contract!LAUNCH_RX_BASE_BEFORE_REGION, Contract!LAUNCH_RX_MAX_AFTER_REGION

(* A launch function that refuses at its entry checks answers as the         *)
(* contract does.                                                             *)
LEMMA RefusedEntry ==
    ASSUME TypeOK, NEW own, own \subseteq Slots,
           call.addr \in own <=> Contract!ServedRegion(call),
           entry_checks(own) # LAUNCH_SUCCESS
    PROVE  /\ entry_checks(own) \in Contract!Defects(call)
           /\ \A other \in Contract!Defects(call) : other <= entry_checks(own)
<1>1. CASE call.addr \notin own
  <2>1. entry_checks(own) = LAUNCH_INVALID_REGION
    BY <1>1 DEF entry_checks
  <2>2. Contract!Defects(call) = {LAUNCH_INVALID_REGION}
    BY <1>1 DEF Contract!Defects, Contract!LAUNCH_INVALID_REGION, LAUNCH_INVALID_REGION
  <2>3. QED
    BY <2>1, <2>2 DEF LAUNCH_INVALID_REGION
<1>2. CASE call.addr \in own
  <2>1. entry_checks(own) = verify_SignedHeader(hdr, call.max, call.addr)
    BY <1>2 DEF entry_checks, verify_base_address, Slots, RoSlots, RwSlots, LAUNCH_SUCCESS
  <2>2. /\ entry_checks(own) \in Contract!HeaderDefects(hdr, call.addr, call.max)
        /\ LAUNCH_INVALID_HASH <= entry_checks(own)
        /\ \A other \in Contract!HeaderDefects(hdr, call.addr, call.max) :
              other <= entry_checks(own)
    BY <1>2, <2>1, RefusedHeader
  <2>3. /\ Contract!HeaderDefects(hdr, call.addr, call.max) \subseteq Contract!Defects(call)
        /\ \A d \in Contract!Defects(call) :
              d \in Contract!HeaderDefects(hdr, call.addr, call.max) \/ d = LAUNCH_INVALID_HASH
    BY <1>2 DEF Contract!Defects, hdr, Contract!LAUNCH_INVALID_HASH, LAUNCH_INVALID_HASH
  <2>4. QED
    BY <2>2, <2>3
<1>3. QED
  BY <1>1, <1>2

LEMMA RefineInit == Init => Contract!Init
<1> SUFFICES ASSUME Init PROVE Contract!Init
  OBVIOUS
<1>1. /\ flash \in [Slots -> Image] /\ efuse \in [Fuse -> FuseValue] /\ call \in Calls
      /\ pc = "idle" /\ rc = NoCode
  BY InitType DEF TypeOK, Init
<1>2. Contract!Image = Image
  BY ContractLayout DEF Contract!Image, Image, Contract!ImageDigest, ImageDigest,
     Contract!FuseArray, FuseArray, Contract!InfoDigest, InfoDigest
<1>3. QED
  BY <1>1, <1>2, ContractLayout DEF Contract!Init, phase

LEMMA RefineStep == IInv /\ [Next]_vars => [Contract!Next]_(Contract!vars)
<1> SUFFICES ASSUME IInv, [Next]_vars PROVE Contract!Next \/ UNCHANGED Contract!vars
  OBVIOUS
<1> USE DEF Contract!vars
<1>t. TypeOK /\ Screened
  BY DEF IInv
<1>f. ASSUME Step, pc' = pc \/ (pc \notin {"idle", "launched"} /\ pc' \notin {"idle", "launched"}),
             rc' = rc
      PROVE  UNCHANGED Contract!vars
  BY <1>f, Frame DEF phase
<1>r. ASSUME Step, pc \notin {"idle", "launched"}, NEW code, Return(code),
             code \in Contract!Defects(call), \A other \in Contract!Defects(call) : other <= code
      PROVE  Contract!Next
  <2>1. phase = "serving" /\ phase' = "idle" /\ rc' = code
    BY <1>r DEF phase, Return
  <2>2. Contract!Refuse
    BY <1>r, <2>1, Frame DEF Contract!Refuse
  <2>3. QED
    BY <2>2 DEF Contract!Next, Contract!Answer
<1>0. CASE UNCHANGED vars
  BY <1>0 DEF vars, control, storage, phase
<1>1. ASSUME NEW c \in Calls, Call(c) PROVE Contract!Next
  <2>1. c.fn \in {"launch_image", "launch_RO", "launch_RW"}
    BY LaunchAssumption
  <2>2. phase = "idle" /\ phase' = "serving"
    BY <1>1, <2>1 DEF Call, phase
  <2>3. Contract!Call(c)
    BY <1>1, <2>2, ContractLayout DEF Call, Contract!Call, storage
  <2>4. QED
    BY <2>3 DEF Contract!Next
<1>2. CASE Reset
  <2>1. Contract!Reset
    BY <1>2, ContractLayout DEF Reset, Contract!Reset, phase, storage
  <2>2. QED
    BY <2>1 DEF Contract!Next
<1>3. CASE launch_image
  <2>1. CASE call.addr \in Slots
    <3>1. pc = "launch_image" /\ pc' \in {"launch_RO", "launch_RW"} /\ rc' = rc
      BY <1>3, <2>1 DEF launch_image, Goto, Slots
    <3>2. QED
      BY <1>3, <1>f, <3>1 DEF Step
  <2>2. CASE call.addr \notin Slots
    <3>1. pc = "launch_image" /\ Return(LAUNCH_INVALID_REGION)
      BY <1>3, <2>2 DEF launch_image, Slots
    <3>2. ~Contract!ServedRegion(call)
      BY <1>t, <2>2, <3>1, ContractLayout DEF Screened, Contract!ServedRegion, Slots
    <3>3. Contract!Defects(call) = {LAUNCH_INVALID_REGION}
      BY <3>2 DEF Contract!Defects, Contract!LAUNCH_INVALID_REGION, LAUNCH_INVALID_REGION
    <3>4. LAUNCH_INVALID_REGION <= LAUNCH_INVALID_REGION
      BY DEF LAUNCH_INVALID_REGION
    <3>5. QED
      BY <1>3, <1>r, <3>1, <3>3, <3>4 DEF Step
  <2>3. QED
    BY <2>1, <2>2
<1>4. CASE launch_RO
  <2>1. CASE entry_checks(RoSlots) = LAUNCH_SUCCESS
    <3>1. pc = "launch_RO" /\ pc' = "stage_ro_region" /\ rc' = rc
      BY <1>4, <2>1 DEF launch_RO, Goto
    <3>2. QED
      BY <1>4, <1>f, <3>1 DEF Step
  <2>2. CASE entry_checks(RoSlots) # LAUNCH_SUCCESS
    <3>1. pc = "launch_RO" /\ Return(entry_checks(RoSlots))
      BY <1>4, <2>2 DEF launch_RO
    <3>2. call.addr \in RoSlots <=> Contract!ServedRegion(call)
      BY <1>t, <3>1, ContractLayout DEF Screened, Contract!ServedRegion, Slots
    <3>3. QED
      BY <1>4, <1>r, <1>t, <2>2, <3>1, <3>2, RefusedEntry DEF Step, Slots
  <2>3. QED
    BY <2>1, <2>2
<1>5. CASE launch_RW
  <2>1. CASE entry_checks(RwSlots) = LAUNCH_SUCCESS
    <3>1. pc = "launch_RW" /\ pc' = "stage_rw_region" /\ rc' = rc
      BY <1>5, <2>1 DEF launch_RW, Goto
    <3>2. QED
      BY <1>5, <1>f, <3>1 DEF Step
  <2>2. CASE entry_checks(RwSlots) # LAUNCH_SUCCESS
    <3>1. pc = "launch_RW" /\ Return(entry_checks(RwSlots))
      BY <1>5, <2>2 DEF launch_RW
    <3>2. call.addr \in RwSlots <=> Contract!ServedRegion(call)
      BY <1>t, <3>1, ContractLayout DEF Screened, Contract!ServedRegion, Slots
    <3>3. QED
      BY <1>5, <1>r, <1>t, <2>2, <3>1, <3>2, RefusedEntry DEF Step, Slots
  <2>3. QED
    BY <2>1, <2>2
<1>6. CASE stage_ro_region
  <2>0. pc = "stage_ro_region" /\ n \in Nat
    BY <1>6, <1>t DEF stage_ro_region, TypeOK
  <2>1. CASE n < 2
    <3>1. pc' = pc /\ rc' = rc
      BY <1>6, <2>1 DEF stage_ro_region, Advance
    <3>2. QED
      BY <1>6, <1>f, <3>1 DEF Step
  <2>2. CASE ~(n < 2)
    <3>1. phase = "serving" /\ phase' = "idle" /\ rc' = LAUNCH_SUCCESS
      BY <1>6, <2>0, <2>2 DEF stage_ro_region, Return, phase
    <3>2. /\ call.addr \in RoSlots /\ call.addr \in Slots /\ Contract!ServedRegion(call)
          /\ verify_SignedHeader(hdr, call.max, call.addr) = LAUNCH_SUCCESS
      BY <1>t, <2>0 DEF Screened, Accepted, Slots
    <3>3. Contract!HeaderDefects(hdr, call.addr, call.max) = {}
      BY <1>t, <3>2, AcceptedHeader
    <3>4. call.addr \notin RwSlots
      BY <3>2, SlotFacts
    <3>5. Contract!Defects(call) = {}
      BY <3>2, <3>3, <3>4, ContractLayout DEF Contract!Defects, hdr
    <3>6. Contract!Stage
      BY <1>6, <3>1, <3>2, <3>5, Frame, ContractLayout
      DEF Contract!Stage, Step, Contract!LAUNCH_SUCCESS, LAUNCH_SUCCESS
    <3>7. QED
      BY <3>6 DEF Contract!Next, Contract!Answer
  <2>3. QED
    BY <2>1, <2>2
<1>7. CASE check_hashes
  <2>0. pc = "check_hashes"
    BY <1>7 DEF check_hashes
  <2>1. CASE hdr.img_chk_ = hashes.img /\ hdr.fuses_chk_ = hashes.fuses
    <3>1. pc' = "set_runlevel" /\ rc' = rc
      BY <1>7, <2>1 DEF check_hashes, Goto
    <3>2. QED
      BY <1>7, <1>f, <2>0, <3>1 DEF Step
  <2>2. CASE ~(hdr.img_chk_ = hashes.img /\ hdr.fuses_chk_ = hashes.fuses)
    <3>1. Return(LAUNCH_INVALID_HASH)
      BY <1>7, <2>2 DEF check_hashes
    <3>2. /\ call.addr \in RwSlots /\ call.addr \in Slots /\ Contract!ServedRegion(call)
          /\ verify_SignedHeader(hdr, call.max, call.addr) = LAUNCH_SUCCESS
      BY <1>t, <2>0 DEF Screened, Accepted, Slots, RwPoints, HashedPoints
    <3>3. /\ Contract!HeaderDefects(hdr, call.addr, call.max) = {}
          /\ WSub(hdr.image_size, TagOffset) = hdr.image_size - TagOffset
          /\ hdr \in Image
      BY <1>t, <3>2, AcceptedHeader, CallInSlot
    <3>4. hashes.img = image_digest(hdr) /\ hashes.fuses = fuse_array(hdr, efuse)
      BY <2>0 DEF IInv, Hashed, HashedPoints
    <3>5. ~Contract!Genuine(hdr)
      <4>1. CASE hdr.img_chk_ # hashes.img
        BY <3>3, <3>4, <4>1 DEF Contract!Genuine, image_digest
      <4>2. CASE hdr.fuses_chk_ # hashes.fuses
        <5>1. hdr.fuses_chk_ \in [Fuse -> FuseValue \cup {FUSE_IGNORE}]
          BY <3>3 DEF Image, FuseArray
        <5>2. QED
          BY <3>4, <4>2, <5>1 DEF Contract!Genuine, fuse_array
      <4>3. QED
        BY <2>2, <4>1, <4>2
    <3>6. Contract!Defects(call) = {LAUNCH_INVALID_HASH}
      BY <3>2, <3>3, <3>5, ContractLayout
      DEF Contract!Defects, hdr, Contract!LAUNCH_INVALID_HASH, LAUNCH_INVALID_HASH
    <3>7. LAUNCH_INVALID_HASH <= LAUNCH_INVALID_HASH
      BY DEF LAUNCH_INVALID_HASH
    <3>8. QED
      BY <1>7, <1>r, <2>0, <3>1, <3>6, <3>7 DEF Step
  <2>3. QED
    BY <2>1, <2>2
<1>8. CASE _jump_to_address
  <2>0. pc = "_jump_to_address" /\ n \in Nat
    BY <1>8, <1>t DEF _jump_to_address, TypeOK
  <2>1. CASE n < 1
    <3>1. pc' = pc /\ rc' = rc
      BY <1>8, <2>1 DEF _jump_to_address, Advance
    <3>2. QED
      BY <1>8, <1>f, <3>1 DEF Step
  <2>2. CASE ~(n < 1)
    <3>1. phase = "serving" /\ phase' = "launched" /\ rc' = rc
      BY <1>8, <2>0, <2>2 DEF _jump_to_address, Advance, Goto, phase
    <3>2. call.addr \in RwSlots /\ Contract!Defects(call) = {}
      BY <2>0, CommitMeansNoDefect DEF CommitPoints
    <3>3. Contract!Launch
      BY <1>8, <3>1, <3>2, Frame, ContractLayout DEF Contract!Launch, Step
    <3>4. QED
      BY <3>3 DEF Contract!Next, Contract!Answer
  <2>3. QED
    BY <2>1, <2>2
<1>9. CASE stage_rw_region \/ hash_region \/ print_hashes \/ set_runlevel \/ set_fwr
           \/ protect_flash_region \/ disarm_ram_guards \/ announce_jump
  <2>1. pc \notin {"idle", "launched"} /\ pc' \notin {"idle", "launched"} /\ rc' = rc
    BY <1>9 DEF stage_rw_region, hash_region, print_hashes, set_runlevel, set_fwr,
       protect_flash_region, disarm_ram_guards, announce_jump, Advance, Goto
  <2>2. QED
    BY <1>9, <1>f, <2>1 DEF Step
<1>10. QED
  BY <1>0, <1>1, <1>2, <1>3, <1>4, <1>5, <1>6, <1>7, <1>8, <1>9 DEF Next, Step

(* Whatever the flash, the fuses and the calls, the launcher answers as its  *)
(* contract does.                                                             *)
THEOREM LauncherRefinesContract == Spec => ImplementsContractSafely
<1>1. Spec => Contract!Init /\ [][Contract!Next]_(Contract!vars)
  BY RefineInit, RefineStep, IInvariance, PTL DEF Spec
<1>2. QED
  BY <1>1 DEF ImplementsContractSafely, Contract!Spec

-----------------------------------------------------------------------------
(* What the log of a call says and what becomes of the call.                 *)

(* Behind print_hashes() the log holds the two verdicts check_hashes() goes   *)
(* by, and the refusal it returns keeps them; a jump is logged right before  *)
(* _jump_to_address().                                                       *)
VerdictsLogged ==
    /\ pc \in {"check_hashes"} \cup CommitPoints =>
          /\ console.shown
          /\ console.img = (hdr.img_chk_ = hashes.img)
          /\ console.fuses = (hdr.fuses_chk_ = hashes.fuses)
    /\ rc = LAUNCH_INVALID_HASH =>
          pc = "idle" /\ console.shown /\ ~(console.img /\ console.fuses)
JumpLogged ==
    /\ pc \in {"_jump_to_address", "launched"} => console.jump = call.addr
    /\ console.jump # 0 => pc \in {"_jump_to_address", "launched"}

-----------------------------------------------------------------------------
(* The entry checks never find a wrong digest. *)
LEMMA EntryCodes == ASSUME NEW own PROVE entry_checks(own) # LAUNCH_INVALID_HASH
BY DEF entry_checks, verify_base_address, verify_SignedHeader, LAUNCH_SUCCESS,
       LAUNCH_INVALID_REGION, LAUNCH_INVALID_MAGIC, LAUNCH_IMAGE_TOO_SMALL,
       LAUNCH_IMAGE_TOO_LARGE, LAUNCH_RO_BASE_BEFORE_REGION, LAUNCH_RO_MAX_AFTER_REGION,
       LAUNCH_RX_BASE_BEFORE_REGION, LAUNCH_RX_MAX_AFTER_REGION, LAUNCH_INVALID_HASH

LEMMA VerdictsStep == TypeOK /\ VerdictsLogged /\ [Next]_vars => VerdictsLogged'
<1> SUFFICES ASSUME TypeOK, VerdictsLogged, [Next]_vars PROVE VerdictsLogged'
  OBVIOUS
<1> USE DEF CommitPoints
<1>c. console \in [shown : BOOLEAN, img : BOOLEAN, fuses : BOOLEAN, info : BOOLEAN, jump : Word]
  BY DEF TypeOK
<1>0. CASE UNCHANGED vars
  BY <1>0 DEF vars, control, storage, buffers, hdr, VerdictsLogged
<1>1. ASSUME NEW c \in Calls, Call(c) PROVE VerdictsLogged'
  <2>1. pc' \in {"launch_image", "launch_RO", "launch_RW"} /\ rc' = NoCode
    BY <1>1, LaunchAssumption DEF Call
  <2>2. QED
    BY <2>1 DEF VerdictsLogged, NoCode, LAUNCH_INVALID_HASH
<1>2. CASE Reset
  BY <1>2 DEF Reset, VerdictsLogged, NoCode, LAUNCH_INVALID_HASH
<1>3. CASE launch_image \/ launch_RO \/ launch_RW
  <2>1. /\ pc' \in {"idle", "launch_RO", "launch_RW", "stage_ro_region", "stage_rw_region"}
        /\ pc # "idle" /\ console' = console
    BY <1>3 DEF launch_image, launch_RO, launch_RW, Goto, Return, buffers
  <2>2. rc' = rc \/ rc' # LAUNCH_INVALID_HASH
    BY <1>3, EntryCodes DEF launch_image, launch_RO, launch_RW, Goto, Return,
       LAUNCH_INVALID_REGION, LAUNCH_INVALID_HASH
  <2>3. QED
    BY <2>1, <2>2 DEF VerdictsLogged
<1>4. CASE stage_ro_region \/ stage_rw_region \/ hash_region
  <2>1. /\ pc' \in {"idle", "stage_ro_region", "stage_rw_region", "hash_region", "print_hashes"}
        /\ pc # "idle" /\ console' = console
        /\ rc' = rc \/ rc' = LAUNCH_SUCCESS
    BY <1>4 DEF stage_ro_region, stage_rw_region, stage_rx_region, hash_region, Advance, Goto,
       Return, buffers
  <2>2. QED
    BY <2>1 DEF VerdictsLogged, LAUNCH_SUCCESS, LAUNCH_INVALID_HASH
<1>5. CASE print_hashes
  <2>1. pc = "print_hashes" /\ pc' = "check_hashes" /\ rc' = rc
    BY <1>5 DEF print_hashes, Goto
  <2>2. hdr' = hdr /\ hashes' = hashes
    BY <1>5, Frame DEF Step, print_hashes
  <2>3. console' = [console EXCEPT !.shown = TRUE,
                                   !.img = (hdr.img_chk_ = hashes.img),
                                   !.fuses = (hdr.fuses_chk_ = hashes.fuses),
                                   !.info = (hdr.info_chk_ = hashes.info)]
    BY <1>5 DEF print_hashes
  <2>4. console'.shown = TRUE
    BY <1>c, <2>3
  <2>5. console'.img = (hdr.img_chk_ = hashes.img)
    BY <1>c, <2>3
  <2>6. console'.fuses = (hdr.fuses_chk_ = hashes.fuses)
    BY <1>c, <2>3
  <2>7. rc # LAUNCH_INVALID_HASH
    BY <2>1 DEF VerdictsLogged
  <2>8. QED
    BY <2>1, <2>2, <2>4, <2>5, <2>6, <2>7 DEF VerdictsLogged
<1>6. CASE check_hashes
  <2>1. /\ pc = "check_hashes" /\ console' = console /\ hashes' = hashes /\ hdr' = hdr
        /\ console.shown
        /\ console.img = (hdr.img_chk_ = hashes.img)
        /\ console.fuses = (hdr.fuses_chk_ = hashes.fuses)
    BY <1>6, Frame DEF Step, check_hashes, buffers, VerdictsLogged
  <2>2. CASE hdr.img_chk_ # hashes.img \/ hdr.fuses_chk_ # hashes.fuses
    <3>1. pc' = "idle" /\ rc' = LAUNCH_INVALID_HASH
      BY <1>6, <2>2 DEF check_hashes, Return
    <3>2. ~(console.img /\ console.fuses)
      BY <2>1, <2>2
    <3>3. QED
      BY <2>1, <3>1, <3>2 DEF VerdictsLogged
  <2>3. CASE ~(hdr.img_chk_ # hashes.img \/ hdr.fuses_chk_ # hashes.fuses)
    <3>1. pc' = "set_runlevel" /\ rc' = rc
      BY <1>6, <2>3 DEF check_hashes, Goto
    <3>2. rc # LAUNCH_INVALID_HASH
      BY <2>1 DEF VerdictsLogged
    <3>3. QED
      BY <2>1, <3>1, <3>2 DEF VerdictsLogged
  <2>4. QED
    BY <2>2, <2>3
<1>7. CASE set_runlevel \/ set_fwr \/ protect_flash_region \/ disarm_ram_guards
           \/ announce_jump \/ _jump_to_address
  <2>1. /\ pc \in CommitPoints /\ pc' \in CommitPoints /\ rc' = rc /\ hashes' = hashes
        /\ hdr' = hdr
    BY <1>7, Frame DEF Step, set_runlevel, set_fwr, protect_flash_region, disarm_ram_guards,
       announce_jump, _jump_to_address, Advance, Goto, buffers
  <2>2. /\ console'.shown = console.shown /\ console'.img = console.img
        /\ console'.fuses = console.fuses
    BY <1>7, <1>c DEF set_runlevel, set_fwr, protect_flash_region, disarm_ram_guards,
       announce_jump, _jump_to_address, buffers
  <2>3. rc # LAUNCH_INVALID_HASH
    BY <2>1 DEF VerdictsLogged
  <2>4. QED
    BY <2>1, <2>2, <2>3 DEF VerdictsLogged
<1>8. QED
  BY <1>0, <1>1, <1>2, <1>3, <1>4, <1>5, <1>6, <1>7 DEF Next, Step

LEMMA JumpStep == TypeOK /\ JumpLogged /\ [Next]_vars => JumpLogged'
<1> SUFFICES ASSUME TypeOK, JumpLogged, [Next]_vars PROVE JumpLogged'
  OBVIOUS
<1>c. console \in [shown : BOOLEAN, img : BOOLEAN, fuses : BOOLEAN, info : BOOLEAN, jump : Word]
  BY DEF TypeOK
<1>0. CASE UNCHANGED vars
  BY <1>0 DEF vars, control, buffers, JumpLogged
<1>1. ASSUME NEW c \in Calls, Call(c) PROVE JumpLogged'
  <2>1. pc' \in {"launch_image", "launch_RO", "launch_RW"} /\ console'.jump = 0
    BY <1>1, LaunchAssumption DEF Call, SilentConsole
  <2>2. QED
    BY <2>1 DEF JumpLogged
<1>2. CASE Reset
  BY <1>2 DEF Reset, JumpLogged, SilentConsole
<1>3. CASE launch_image \/ launch_RO \/ launch_RW \/ stage_ro_region \/ stage_rw_region
           \/ hash_region \/ print_hashes \/ check_hashes \/ set_runlevel \/ set_fwr
           \/ protect_flash_region \/ disarm_ram_guards
  <2>1. pc \notin {"_jump_to_address", "launched"} /\ pc' \notin {"_jump_to_address", "launched"}
    BY <1>3 DEF launch_image, launch_RO, launch_RW, stage_ro_region, stage_rw_region, hash_region,
       print_hashes, check_hashes, set_runlevel, set_fwr, protect_flash_region,
       disarm_ram_guards, Advance, Goto, Return
  <2>2. console'.jump = console.jump
    BY <1>3, <1>c DEF launch_image, launch_RO, launch_RW, stage_ro_region, stage_rw_region,
       stage_rx_region, hash_region, print_hashes, check_hashes, set_runlevel, set_fwr,
       protect_flash_region, disarm_ram_guards, buffers
  <2>3. QED
    BY <2>1, <2>2 DEF JumpLogged
<1>4. CASE announce_jump
  <2>1. pc' = "_jump_to_address" /\ console'.jump = call.addr /\ call' = call
    BY <1>4, <1>c DEF announce_jump, Goto
  <2>2. QED
    BY <2>1 DEF JumpLogged
<1>5. CASE _jump_to_address
  <2>1. /\ pc = "_jump_to_address" /\ pc' \in {"_jump_to_address", "launched"}
        /\ console' = console /\ call' = call
    BY <1>5 DEF _jump_to_address, Advance, Goto, buffers
  <2>2. QED
    BY <2>1 DEF JumpLogged
<1>6. QED
  BY <1>0, <1>1, <1>2, <1>3, <1>4, <1>5 DEF Next, Step

-----------------------------------------------------------------------------
(* The log tells what becomes of the call: both verdicts and the address     *)
(* for a launched image, a wrong verdict for a refusal with INVALID_HASH,     *)
(* and no jump that does not follow (print_hashes, rw.c).                     *)
THEOREM LogTellsTruth == Spec => []ConsoleAgrees
<1>1. Init => VerdictsLogged /\ JumpLogged
  BY DEF Init, VerdictsLogged, JumpLogged, SilentConsole, NoCode, LAUNCH_INVALID_HASH,
         CommitPoints
<1>2. IInv /\ VerdictsLogged /\ JumpLogged /\ [Next]_vars => (VerdictsLogged /\ JumpLogged)'
  BY VerdictsStep, JumpStep DEF IInv
<1>3. ASSUME IInv, VerdictsLogged, JumpLogged PROVE ConsoleAgrees
  <2>1. pc = "launched" => hdr.img_chk_ = hashes.img /\ hdr.fuses_chk_ = hashes.fuses
    BY <1>3 DEF IInv, Hashed, CommitPoints
  <2>2. pc = "launched" => console.shown /\ console.img /\ console.fuses
    BY <1>3, <2>1 DEF VerdictsLogged, CommitPoints
  <2>3. QED
    BY <1>3, <2>2 DEF VerdictsLogged, JumpLogged, ConsoleAgrees
<1>4. QED
  BY <1>1, <1>2, <1>3, IInvariance, PTL DEF Spec

-----------------------------------------------------------------------------
(* The staging regions over any sequence of calls: registers that earlier    *)
(* calls wrote, kept until a later call or a reset.                          *)

(* A window that is enabled is that of one slot of own with a good header. *)
WindowOf(win, s) ==
    /\ Contract!HeaderDefects(flash[s], s, SlotSize(s)) = {}
    /\ win = [base |-> flash[s].rx_base, size |-> staged_size(flash[s]), ctrl |-> 3]
FromSlot(win, own) == win.ctrl = 3 => \E s \in own : WindowOf(win, s)

(* launch_RO() has written region 0 as far as n says. *)
RoProgress ==
    pc = "stage_ro_region" =>
        /\ n > 0 => staging[0].base = hdr.rx_base
        /\ n > 1 => staging[0].size = staged_size(hdr)

(* Between two calls of stage_rx_region() the regions are whole. *)
StagingKept ==
    /\ pc # "stage_ro_region" => FromSlot(staging[0], RoSlots)
    /\ pc # "stage_rw_region" => FromSlot(staging[1], RwSlots)
    /\ \A r \in 2 .. 7 : staging[r] = NoWindow

-----------------------------------------------------------------------------
(* A header that is good for part of a slot is good for the slot, and its    *)
(* window is inside the slot exactly if rx_base is below rx_max.              *)
LEMMA GoodForSlot ==
    ASSUME TypeOK, call.addr \in Slots,
           verify_SignedHeader(hdr, call.max, call.addr) = LAUNCH_SUCCESS
    PROVE  Contract!HeaderDefects(hdr, call.addr, SlotSize(call.addr)) = {}
<1>1. /\ hdr.image_size \in Nat /\ hdr.ro_max \in Nat /\ hdr.rx_max \in Nat
  BY CallInSlot, ImageFields DEF Word
<1>2. Contract!HeaderDefects(hdr, call.addr, call.max) = {}
  BY AcceptedHeader
<1>3. /\ call.addr \in Nat /\ call.max \in Nat /\ SlotSize(call.addr) \in Nat
      /\ call.max <= SlotSize(call.addr)
  BY CallInSlot
<1>4. Contract!HeaderDefects(hdr, call.addr, SlotSize(call.addr))
        \subseteq Contract!HeaderDefects(hdr, call.addr, call.max)
  BY <1>1, <1>3 DEF Contract!HeaderDefects
<1>5. QED
  BY <1>2, <1>4

LEMMA WindowInside ==
    ASSUME NEW s \in Slots, NEW win, TypeOK, WindowOf(win, s)
    PROVE  CoversInside(win, s, SlotSize(s)) <=> flash[s].rx_base < flash[s].rx_max
<1>1. /\ flash[s] \in Image /\ s \in Nat /\ s > 0 /\ SlotSize(s) \in Nat
      /\ s + SlotSize(s) < WordSize
  BY SlotFacts DEF TypeOK, Word
<1> DEFINE base == flash[s].rx_base
           max == flash[s].rx_max
<1>2. base \in Nat /\ max \in Nat /\ base < WordSize /\ max < WordSize /\ WordSize \in Nat
  BY <1>1, ImageFields, LayoutFacts DEF Word
<1>3. /\ LAUNCH_RX_BASE_BEFORE_REGION \notin Contract!HeaderDefects(flash[s], s, SlotSize(s))
      /\ LAUNCH_RX_MAX_AFTER_REGION \notin Contract!HeaderDefects(flash[s], s, SlotSize(s))
  BY DEF WindowOf
<1>4. s <= base /\ max <= s + SlotSize(s)
  BY <1>1, <1>2, <1>3
  DEF Contract!HeaderDefects, LAUNCH_RX_BASE_BEFORE_REGION, LAUNCH_RX_MAX_AFTER_REGION,
      Contract!LaunchCode, Contract!LAUNCH_RX_BASE_BEFORE_REGION,
      Contract!LAUNCH_RX_MAX_AFTER_REGION
<1>5. win.base = base /\ win.size = WSub(WSub(max, base), 1)
  BY DEF WindowOf, staged_size
<1>6. CASE base < max
  <2>1. win.size = max - base - 1
    BY <1>2, <1>5, <1>6 DEF WSub
  <2>2. QED
    BY <1>1, <1>2, <1>4, <1>5, <1>6, <2>1 DEF CoversInside
<1>7. CASE ~(base < max)
  <2>1. base + win.size >= WordSize - 1
    <3>1. CASE base = max
      BY <1>1, <1>2, <1>5, <3>1 DEF WSub
    <3>2. CASE base > max
      BY <1>1, <1>2, <1>5, <3>2 DEF WSub
    <3>3. QED
      BY <1>2, <1>7, <3>1, <3>2
  <2>2. win.size \in Int
    BY <1>2, <1>5 DEF WSub
  <2>3. QED
    BY <1>1, <1>2, <1>5, <1>7, <2>1, <2>2 DEF CoversInside
<1>8. QED
  BY <1>6, <1>7

(* What a launch function has staged is the window of the slot it serves. *)
LEMMA ServedWindow ==
    ASSUME NEW own, own \subseteq Slots, TypeOK, Accepted(own), NEW win,
           win = [base |-> hdr.rx_base, size |-> staged_size(hdr), ctrl |-> 3]
    PROVE  FromSlot(win, own)
<1>1. call.addr \in own /\ verify_SignedHeader(hdr, call.max, call.addr) = LAUNCH_SUCCESS
  BY DEF Accepted
<1>2. WindowOf(win, call.addr)
  BY <1>1, GoodForSlot DEF WindowOf, hdr
<1>3. QED
  BY <1>1, <1>2 DEF FromSlot

-----------------------------------------------------------------------------
LEMMA RoProgressStep == IInv /\ RoProgress /\ [Next]_vars => RoProgress'
<1> SUFFICES ASSUME IInv, RoProgress, [Next]_vars PROVE RoProgress'
  OBVIOUS
<1>n. n \in 0 .. 9 /\ staging \in [0 .. 7 -> Window]
  BY DEF IInv, TypeOK
<1>0. CASE UNCHANGED vars
  BY <1>0 DEF vars, control, registers, storage, hdr, RoProgress, staged_size
<1>1. CASE Reset \/ \E c \in Calls : Call(c)
  BY <1>1, LaunchAssumption DEF Reset, Call, RoProgress
<1>2. CASE launch_RO
  BY <1>2 DEF launch_RO, Goto, Return, RoProgress
<1>3. CASE stage_ro_region
  <2>1. pc = "stage_ro_region" /\ hdr' = hdr /\ staged_size(hdr)' = staged_size(hdr)
    BY <1>3, Frame DEF stage_ro_region, Step, staged_size
  <2>2. CASE n = 0
    BY <1>3, <1>n, <2>1, <2>2
    DEF stage_ro_region, stage_rx_region, Advance, Window, RoProgress
  <2>3. CASE n = 1
    BY <1>3, <1>n, <2>1, <2>3
    DEF stage_ro_region, stage_rx_region, Advance, Window, RoProgress
  <2>4. CASE n = 2
    BY <1>3, <2>1, <2>4 DEF stage_ro_region, Return, RoProgress
  <2>5. QED
    BY <1>3, <2>2, <2>3, <2>4 DEF stage_ro_region, stage_rx_region
<1>4. CASE launch_image \/ launch_RW \/ stage_rw_region \/ hash_region \/ print_hashes
           \/ check_hashes \/ set_runlevel \/ set_fwr \/ protect_flash_region
           \/ disarm_ram_guards \/ announce_jump \/ _jump_to_address
  BY <1>4 DEF launch_image, launch_RW, stage_rw_region, hash_region, print_hashes, check_hashes,
     set_runlevel, set_fwr, protect_flash_region, disarm_ram_guards, announce_jump,
     _jump_to_address, Goto, Return, Advance, RoProgress
<1>5. QED
  BY <1>0, <1>1, <1>2, <1>3, <1>4 DEF Next, Step

LEMMA StagingKeptStep == IInv /\ RoProgress /\ StagingKept /\ [Next]_vars => StagingKept'
<1> SUFFICES ASSUME IInv, RoProgress, StagingKept, [Next]_vars PROVE StagingKept'
  OBVIOUS
<1>n. n \in 0 .. 9 /\ staging \in [0 .. 7 -> Window] /\ TypeOK
  BY DEF IInv, TypeOK
<1>f. ASSUME flash' = flash, NEW own \in {RoSlots, RwSlots}, NEW r \in {0, 1},
             FromSlot(staging'[r], own)
      PROVE  FromSlot(staging[r], own)'
  BY <1>f DEF FromSlot, WindowOf, staged_size, Contract!HeaderDefects, RoSlots, RwSlots,
              RO_A_BASE, RO_B_BASE, RW_A_BASE, RW_B_BASE, SlotSize
<1>0. CASE UNCHANGED <<pc, storage, staging>>
  BY <1>0, <1>f DEF storage, StagingKept
<1>1. ASSUME NEW c \in Calls, Call(c) PROVE StagingKept'
  <2>1. pc = "idle" /\ flash' = flash /\ staging' = staging
    BY <1>1 DEF Call, storage, registers
  <2>2. QED
    BY <2>1, <1>f DEF StagingKept
<1>2. CASE Reset
  <2>1. \A r \in 0 .. 7 : staging'[r] = NoWindow
    BY <1>2 DEF Reset, NoStaging
  <2>2. NoWindow.ctrl # 3
    BY DEF NoWindow
  <2>3. QED
    BY <2>1, <2>2 DEF StagingKept, FromSlot
<1>3. CASE stage_ro_region
  <2>1. /\ pc = "stage_ro_region" /\ flash' = flash
        /\ \A r \in 1 .. 7 : staging'[r] = staging[r]
    BY <1>3, <1>n, Frame DEF Step, stage_ro_region, stage_rx_region
  <2>2. ASSUME pc' # "stage_ro_region" PROVE FromSlot(staging'[0], RoSlots)
    <3>1. n = 2
      BY <1>3, <1>n, <2>2 DEF stage_ro_region, stage_rx_region, Advance
    <3>2. staging'[0] = [base |-> hdr.rx_base, size |-> staged_size(hdr), ctrl |-> 3]
      BY <1>3, <1>n, <2>1, <3>1 DEF stage_ro_region, stage_rx_region, RoProgress, Window
    <3>3. Accepted(RoSlots)
      BY <2>1 DEF IInv, Screened
    <3>4. QED
      BY <1>n, <3>2, <3>3, ServedWindow DEF Slots
  <2>3. QED
    BY <2>1, <2>2, <1>f DEF StagingKept
<1>4. CASE stage_rw_region
  <2>1. /\ pc = "stage_rw_region" /\ flash' = flash
        /\ \A r \in (0 .. 7) \ {1} : staging'[r] = staging[r]
    BY <1>4, <1>n, Frame DEF Step, stage_rw_region, stage_rx_region
  <2>2. ASSUME pc' # "stage_rw_region" PROVE FromSlot(staging'[1], RwSlots)
    <3>1. n = 2
      BY <1>4, <1>n, <2>2 DEF stage_rw_region, stage_rx_region, Advance
    <3>2. staging[1].base = hdr.rx_base /\ staging[1].size = staged_size(hdr)
      BY <2>1, <3>1 DEF IInv, StagingProgress, Staged, Past
    <3>3. staging'[1] = [base |-> hdr.rx_base, size |-> staged_size(hdr), ctrl |-> 3]
      BY <1>4, <1>n, <3>1, <3>2 DEF stage_rw_region, stage_rx_region, Window
    <3>4. Accepted(RwSlots)
      BY <2>1 DEF IInv, Screened, RwPoints
    <3>5. QED
      BY <1>n, <3>3, <3>4, ServedWindow DEF Slots
  <2>3. QED
    BY <2>1, <2>2, <1>f DEF StagingKept
<1>5. CASE launch_image \/ launch_RO \/ launch_RW \/ hash_region \/ print_hashes
           \/ check_hashes \/ set_runlevel \/ set_fwr \/ protect_flash_region
           \/ disarm_ram_guards \/ announce_jump \/ _jump_to_address
  <2>1. pc \notin {"stage_ro_region", "stage_rw_region"} /\ staging' = staging
    BY <1>5 DEF launch_image, launch_RO, launch_RW, hash_region, print_hashes, check_hashes,
       set_runlevel, set_fwr, protect_flash_region, disarm_ram_guards, announce_jump,
       _jump_to_address, registers
  <2>2. flash' = flash
    BY <1>5, Frame DEF Step
  <2>3. QED
    BY <2>1, <2>2, <1>f DEF StagingKept
<1>6. QED
  BY <1>0, <1>1, <1>2, <1>3, <1>4, <1>5 DEF Next, Step, vars, control, registers

-----------------------------------------------------------------------------
(* Whatever was called before, an enabled staging region that no call is     *)
(* rewriting is the window of one slot whose header passed the checks, and    *)
(* lies inside that slot exactly if the header's rx_base is below its rx_max  *)
(* (stage_rx_region, verify_SignedHeader).                                    *)
THEOREM StagingEarned == Spec => []StagedWindowsVerified
<1>1. Init => RoProgress /\ StagingKept
  BY DEF Init, RoProgress, StagingKept, FromSlot, NoStaging, NoWindow
<1>2. IInv /\ (RoProgress /\ StagingKept) /\ [Next]_vars => (RoProgress /\ StagingKept)'
  BY RoProgressStep, StagingKeptStep
<1>3. ASSUME IInv, StagingKept PROVE StagedWindowsVerified
  <2> SUFFICES ASSUME pc \notin {"stage_ro_region", "stage_rw_region"},
                      NEW r \in 0 .. 7, staging[r].ctrl = 3
               PROVE  /\ r \in {0, 1}
                      /\ \E s \in (IF r = 0 THEN RoSlots ELSE RwSlots) :
                            /\ WindowOf(staging[r], s)
                            /\ CoversInside(staging[r], s, SlotSize(s))
                                  <=> flash[s].rx_base < flash[s].rx_max
    BY DEF StagedWindowsVerified, WindowOf
  <2>1. r \in {0, 1}
    BY <1>3 DEF StagingKept, NoWindow
  <2>2. PICK s \in (IF r = 0 THEN RoSlots ELSE RwSlots) : WindowOf(staging[r], s)
    BY <1>3, <2>1 DEF StagingKept, FromSlot
  <2>3. s \in Slots /\ TypeOK
    BY <1>3, <2>2 DEF Slots, IInv
  <2>4. CoversInside(staging[r], s, SlotSize(s)) <=> flash[s].rx_base < flash[s].rx_max
    BY <2>2, <2>3, WindowInside
  <2>5. QED
    BY <2>1, <2>2, <2>4
<1>4. QED
  BY <1>1, <1>2, <1>3, IInvariance, PTL DEF Spec

-----------------------------------------------------------------------------
(* The start-up code and main() around it.                                   *)

BootPlaces == {"reset", "init_cpu", "init_uart", "banner", "launch", "called", "wfi"}

(* main() calls the launcher once, for RW_A. *)
OneCall ==
    /\ at \in BootPlaces
    /\ at # "called" => pc = "idle"
    /\ at \in {"called", "wfi"} => call = RwACall
    /\ at = "wfi" => logged = rc

(* Once the launcher has come back, rc is the verdict on RW_A. *)
Verdict == RwVerdict(flash, efuse)
Answered ==
    at \in {"called", "wfi"} /\ pc = "idle" => rc = Verdict /\ rc # LAUNCH_SUCCESS

(* Only region 1 is ever written, and not yet enabled until it is whole. *)
StagedOnce ==
    /\ \A r \in (0 .. 7) \ {1} : staging[r] = NoWindow
    /\ at \notin {"called", "wfi"} \/ pc \in {"launch_image", "launch_RW", "stage_rw_region"}
          => staging[1].ctrl = 0
    /\ staging[1].ctrl = 3 =>
          staging[1] = [base |-> flash[RW_A_BASE].rx_base,
                        size |-> staged_size(flash[RW_A_BASE]), ctrl |-> 3]

BootInv == IInv /\ OneCall /\ Answered /\ StagedOnce

-----------------------------------------------------------------------------
LEMMA RwAFacts ==
    /\ RW_A_BASE \in RwSlots /\ RW_A_BASE \in Slots /\ RW_A_BASE \notin RoSlots
    /\ RwACall.fn = "launch_image" /\ RwACall.addr = RW_A_BASE /\ RwACall.max = RwSize
BY SlotFacts DEF RwSlots, Slots, RwACall

(* A step of the loader that is none of launcher or caller leaves the        *)
(* launcher's invariant alone, as it is idle.                                *)
LEMMA IdleKeeps ==
    ASSUME IInv, TypeOK', pc' = "idle", n' = 0, PrivilegeAtReset'
    PROVE  IInv'
<1>1. Screened' /\ Hashed' /\ Closed' /\ Positions'
  BY DEF Screened, Hashed, Closed, Positions, RwPoints, HashedPoints, CommitPoints
<1>2. /\ StagingProgress' /\ RunlevelProgress' /\ FwrProgress' /\ RegionProgress'
      /\ GuardProgress' /\ VtorProgress'
  BY DEF StagingProgress, RunlevelProgress, FwrProgress, RegionProgress, GuardProgress,
     VtorProgress, Staged, Lowered, Published, Protected, Disarmed, Past, AfterStage,
     AfterRunlevel, AfterFwr, AfterProtect, AfterDisarm, RwPoints, HashedPoints, CommitPoints,
     ResetKeymgr, NoRegion, NoWindow, PrivilegeAtReset
<1>3. QED
  BY <1>1, <1>2 DEF IInv

LEMMA BootIInvStep == IInv /\ OneCall /\ [BootNext]_bootvars => IInv'
<1> SUFFICES ASSUME IInv, OneCall, [BootNext]_bootvars PROVE IInv'
  OBVIOUS
<1>t. TypeOK
  BY DEF IInv
<1>0. CASE UNCHANGED vars \/ Step \/ \E c \in Calls : Call(c)
  BY <1>0, StepIInv DEF Next
<1>1. CASE bss_loop
  <2>1. pc = "idle" /\ n = 0
    BY <1>1 DEF bss_loop, OneCall, IInv, Positions
  <2>2. fuses' \in [Fuse -> FuseValue \cup {FUSE_IGNORE, 0}]
    BY <1>1, <1>t DEF bss_loop, TypeOK, ZeroFuses
  <2>3. hashes' \in [img : DigestOrNone(ImageDigest), fuses : DigestOrNone(FuseArray),
                     info : DigestOrNone(InfoDigest)]
    BY <1>1, <1>t DEF bss_loop, TypeOK, NoHashes, DigestOrNone
  <2>4. TypeOK'
    BY <1>1, <1>t, <2>2, <2>3 DEF bss_loop, TypeOK, control, storage, registers
  <2>5. PrivilegeAtReset
    BY <2>1 DEF IInv, Closed, CommitPoints
  <2>6. pc' = "idle" /\ n' = 0 /\ PrivilegeAtReset'
    BY <1>1, <2>1, <2>5 DEF bss_loop, control, registers, PrivilegeAtReset
  <2>7. QED
    BY <2>4, <2>6, IdleKeeps
<1>2. CASE PowerReset
  <2>1. 0 \in Word /\ 0 \in TagWord
    BY SmallWords, SignedHeaderAssumption
  <2>2. guard' \in [0 .. 2 -> 0 .. 7]
    BY <1>2, LaunchAssumption DEF PowerReset
  <2>3. TypeOK'
    BY <1>2, <1>t, <2>1, <2>2
    DEF TypeOK, PowerReset, storage, NoStaging, NoWindow, ResetPerm, ResetFwr, ResetKeymgr,
        NoRegion, SilentConsole, Window, NoCode
  <2>4. pc' = "idle" /\ n' = 0 /\ PrivilegeAtReset'
    BY <1>2 DEF PowerReset, PrivilegeAtReset, ResetPerm, ResetFwr, ResetKeymgr, NoRegion
  <2>5. QED
    BY <2>3, <2>4, IdleKeeps
<1>3. CASE init_cpu \/ init_uart \/ banner \/ main_return
  BY <1>0, <1>3 DEF init_cpu, init_uart, banner, main_return
<1>4. CASE main_launch \/ launch
  BY <1>0, <1>4, BootAssumption DEF main_launch, launch
<1>5. QED
  BY <1>0, <1>1, <1>2, <1>3, <1>4 DEF BootNext, Main, bootvars

LEMMA OneCallStep == OneCall /\ [BootNext]_bootvars => OneCall'
<1> SUFFICES ASSUME OneCall, [BootNext]_bootvars PROVE OneCall'
  OBVIOUS
<1> USE DEF OneCall, BootPlaces
<1>0. CASE UNCHANGED bootvars
  BY <1>0 DEF bootvars, boot, vars, control
<1>1. CASE bss_loop
  BY <1>1 DEF bss_loop, Proceed, control
<1>2. CASE init_cpu \/ init_uart \/ banner
  BY <1>2 DEF init_cpu, init_uart, banner, Proceed, vars, control
<1>3. CASE main_launch
  BY <1>3 DEF main_launch, Call
<1>4. CASE launch
  BY <1>4, Frame DEF launch, boot
<1>5. CASE main_return
  BY <1>5 DEF main_return, vars, control
<1>6. CASE PowerReset
  BY <1>6 DEF PowerReset
<1>7. QED
  BY <1>0, <1>1, <1>2, <1>3, <1>4, <1>5, <1>6 DEF BootNext, Main

(* A call for RW_A runs launch_RW() only. *)
LEMMA RwPath ==
    ASSUME IInv, call = RwACall
    PROVE  pc \notin {"launch_RO", "stage_ro_region"}
BY RwAFacts DEF IInv, Screened, Accepted

LEMMA AnsweredStep ==
    IInv /\ OneCall /\ Answered /\ [BootNext]_bootvars => Answered'
<1> SUFFICES ASSUME IInv, OneCall, Answered, [BootNext]_bootvars PROVE Answered'
  OBVIOUS
<1>v. ASSUME flash' = flash, efuse' = efuse PROVE Verdict' = Verdict
  BY <1>v DEF Verdict, RwVerdict, image_digest, fuse_array, verify_SignedHeader
<1>0. CASE UNCHANGED bootvars
  BY <1>0, <1>v DEF bootvars, boot, vars, control, storage, Answered
<1>1. CASE bss_loop \/ init_cpu \/ init_uart \/ banner
  <2>1. at' \notin {"called", "wfi"}
    BY <1>1 DEF bss_loop, init_cpu, init_uart, banner, Proceed
  <2>2. QED
    BY <2>1 DEF Answered
<1>2. CASE main_launch
  <2>1. pc' = "launch_image"
    BY <1>2, RwAFacts DEF main_launch, Call
  <2>2. QED
    BY <2>1 DEF Answered
<1>3. CASE main_return
  BY <1>3, <1>v DEF main_return, vars, control, storage, Answered
<1>4. CASE PowerReset
  BY <1>4 DEF PowerReset, Answered
<1>5. CASE launch
  <2>1. at' = "called" /\ call = RwACall /\ Step
    BY <1>5 DEF launch, boot, OneCall
  <2>2. flash' = flash /\ efuse' = efuse /\ hdr = flash[RW_A_BASE]
    BY <2>1, Frame, RwAFacts DEF hdr
  <2>3. SUFFICES ASSUME pc' = "idle" PROVE rc' = Verdict /\ rc' # LAUNCH_SUCCESS
    BY <1>v, <2>2 DEF Answered
  <2>4. CASE launch_RW
    <3>1. rc' = entry_checks(RwSlots) /\ rc' # LAUNCH_SUCCESS
      BY <2>3, <2>4 DEF launch_RW, Return, Goto
    <3>2. entry_checks(RwSlots) = verify_SignedHeader(hdr, RwSize, RW_A_BASE)
      BY <2>1, RwAFacts DEF entry_checks, verify_base_address, Slots, RoSlots, RwSlots,
         LAUNCH_SUCCESS
    <3>3. QED
      BY <2>2, <3>1, <3>2 DEF Verdict, RwVerdict
  <2>5. CASE check_hashes
    <3>1. /\ pc = "check_hashes" /\ rc' = LAUNCH_INVALID_HASH
          /\ hdr.img_chk_ # hashes.img \/ hdr.fuses_chk_ # hashes.fuses
      BY <2>3, <2>5 DEF check_hashes, Return, Goto
    <3>2. hashes.img = image_digest(hdr) /\ hashes.fuses = fuse_array(hdr, efuse)
      BY <3>1 DEF IInv, Hashed, HashedPoints
    <3>3. verify_SignedHeader(hdr, RwSize, RW_A_BASE) = LAUNCH_SUCCESS
      BY <2>1, <3>1, RwAFacts DEF IInv, Screened, Accepted, RwPoints, HashedPoints
    <3>4. QED
      BY <2>2, <3>1, <3>2, <3>3 DEF Verdict, RwVerdict, LAUNCH_SUCCESS, LAUNCH_INVALID_HASH
  <2>6. CASE launch_image
    BY <2>1, <2>3, <2>6, RwAFacts DEF launch_image, Goto, Slots
  <2>7. CASE launch_RO \/ stage_ro_region
    BY <2>1, <2>7, RwPath DEF launch_RO, stage_ro_region
  <2>8. CASE stage_rw_region \/ hash_region \/ print_hashes \/ set_runlevel \/ set_fwr
             \/ protect_flash_region \/ disarm_ram_guards \/ announce_jump \/ _jump_to_address
    BY <2>3, <2>8 DEF stage_rw_region, hash_region, print_hashes, set_runlevel, set_fwr,
       protect_flash_region, disarm_ram_guards, announce_jump, _jump_to_address, Advance, Goto
  <2>9. QED
    BY <2>1, <2>4, <2>5, <2>6, <2>7, <2>8 DEF Step
<1>6. QED
  BY <1>0, <1>1, <1>2, <1>3, <1>4, <1>5 DEF BootNext, Main

LEMMA StagedOnceStep ==
    IInv /\ OneCall /\ StagedOnce /\ [BootNext]_bootvars => StagedOnce'
<1> SUFFICES ASSUME IInv, OneCall, StagedOnce, [BootNext]_bootvars PROVE StagedOnce'
  OBVIOUS
<1> DEFINE Rw == flash[RW_A_BASE]
           Window1 == [base |-> Rw.rx_base, size |-> staged_size(Rw), ctrl |-> 3]
<1>n. n \in 0 .. 9 /\ staging \in [0 .. 7 -> Window]
  BY DEF IInv, TypeOK
<1>w. ASSUME flash' = flash PROVE Window1' = Window1
  BY <1>w DEF staged_size
<1>s. ASSUME staging' = staging, flash' = flash,
             \/ at' \notin {"called", "wfi"}
             \/ pc' \in {"launch_image", "launch_RW", "stage_rw_region"}
             => \/ at \notin {"called", "wfi"}
                \/ pc \in {"launch_image", "launch_RW", "stage_rw_region"}
      PROVE  StagedOnce'
  BY <1>s, <1>w DEF StagedOnce
<1>0. CASE UNCHANGED bootvars
  BY <1>0, <1>s DEF bootvars, boot, vars, control, storage, registers
<1>1. CASE bss_loop \/ init_cpu \/ init_uart \/ banner
  <2>1. at \notin {"called", "wfi"} /\ staging' = staging /\ flash' = flash
    BY <1>1 DEF bss_loop, init_cpu, init_uart, banner, vars, storage, registers
  <2>2. QED
    BY <2>1, <1>s
<1>2. CASE main_launch
  <2>1. at \notin {"called", "wfi"} /\ staging' = staging /\ flash' = flash
    BY <1>2 DEF main_launch, Call, storage, registers
  <2>2. QED
    BY <2>1, <1>s
<1>3. CASE main_return
  <2>1. at = "called" /\ at' = "wfi" /\ pc' = "idle" /\ staging' = staging /\ flash' = flash
    BY <1>3 DEF main_return, vars, control, storage, registers
  <2>2. QED
    BY <2>1, <1>s
<1>4. CASE PowerReset
  BY <1>4 DEF PowerReset, NoStaging, NoWindow, StagedOnce
<1>5. CASE launch
  <2>1. at = "called" /\ at' = "called" /\ call = RwACall /\ Step
    BY <1>5 DEF launch, boot, OneCall
  <2>2. flash' = flash /\ hdr = Rw
    BY <2>1, Frame, RwAFacts DEF hdr
  <2>3. CASE launch_image \/ launch_RW
    <3>1. /\ pc \in {"launch_image", "launch_RW"} /\ staging' = staging
      BY <2>3 DEF launch_image, launch_RW, registers
    <3>2. QED
      BY <2>1, <2>2, <3>1, <1>s
  <2>4. CASE launch_RO \/ stage_ro_region
    BY <2>1, <2>4, RwPath DEF launch_RO, stage_ro_region
  <2>5. CASE stage_rw_region
    <3>1. /\ pc = "stage_rw_region" /\ staging[1].ctrl = 0
          /\ \A r \in (0 .. 7) \ {1} : staging'[r] = staging[r]
      BY <1>n, <2>1, <2>5 DEF stage_rw_region, stage_rx_region, StagedOnce
    <3>2. CASE n # 2
      <4>1. staging'[1].ctrl = 0
        BY <1>n, <2>5, <3>1, <3>2 DEF stage_rw_region, stage_rx_region, Window
      <4>2. QED
        BY <3>1, <4>1 DEF StagedOnce
    <3>3. CASE n = 2
      <4>1. staging[1].base = hdr.rx_base /\ staging[1].size = staged_size(hdr)
        BY <3>1, <3>3 DEF IInv, StagingProgress, Staged, Past
      <4>2. staging'[1] = Window1
        BY <1>n, <2>2, <2>5, <3>3, <4>1 DEF stage_rw_region, stage_rx_region, Window
      <4>3. pc' = "hash_region"
        BY <2>5, <3>3 DEF stage_rw_region, Advance, Goto
      <4>4. QED
        BY <1>w, <2>1, <2>2, <3>1, <4>2, <4>3 DEF StagedOnce
    <3>4. QED
      BY <3>2, <3>3
  <2>6. CASE hash_region \/ print_hashes \/ check_hashes \/ set_runlevel \/ set_fwr
             \/ protect_flash_region \/ disarm_ram_guards \/ announce_jump \/ _jump_to_address
    <3>1. /\ pc' \notin {"launch_image", "launch_RW", "stage_rw_region"}
          /\ staging' = staging
      BY <2>6 DEF hash_region, print_hashes, check_hashes, set_runlevel, set_fwr,
         protect_flash_region, disarm_ram_guards, announce_jump, _jump_to_address, Advance,
         Goto, Return, registers
    <3>2. QED
      BY <2>1, <2>2, <3>1, <1>s
  <2>7. QED
    BY <2>1, <2>3, <2>4, <2>5, <2>6 DEF Step
<1>6. QED
  BY <1>0, <1>1, <1>2, <1>3, <1>4, <1>5 DEF BootNext, Main

-----------------------------------------------------------------------------
LEMMA InitBootInv == BootInit => BootInv
<1> SUFFICES ASSUME BootInit PROVE BootInv
  OBVIOUS
<1>1. Init /\ at = "reset" /\ pc = "idle" /\ staging = NoStaging
  BY DEF BootInit, Init
<1>2. IInv
  BY <1>1, InitIInv
<1>3. QED
  BY <1>1, <1>2 DEF BootInv, OneCall, BootPlaces, Answered, StagedOnce, NoStaging, NoWindow

LEMMA StepBootInv == BootInv /\ [BootNext]_bootvars => BootInv'
BY BootIInvStep, OneCallStep, AnsweredStep, StagedOnceStep DEF BootInv

(* The loader's invariant holds in every boot, whatever RAM keeps. *)
THEOREM BootInvariance == BootSpec => []BootInv
BY InitBootInv, StepBootInv, PTL DEF BootSpec

(* With one call to a boot no step leaves an enabled staging region that is  *)
(* not the complete window of the header in RW_A (stage_rx_region, main).    *)
THEOREM StagingNeverTorn == BootSpec => []NoTornStaging
<1>1. BootInv => NoTornStaging
  BY DEF BootInv, StagedOnce, NoTornStaging, NoWindow
<1>2. QED
  BY <1>1, BootInvariance, PTL

(* The verdict on RW_A, if it refuses, is a defect of the image there. *)
LEMMA VerdictIsDefect ==
    ASSUME TypeOK, call = RwACall, Verdict # LAUNCH_SUCCESS
    PROVE  Verdict \in Contract!Defects(RwACall)
<1>1. /\ call.addr = RW_A_BASE /\ call.max = RwSize /\ call.addr \in Slots
      /\ call.addr \in RwSlots /\ hdr = flash[RW_A_BASE] /\ Contract!ServedRegion(call)
  BY RwAFacts, ContractLayout DEF hdr, Contract!ServedRegion
<1> DEFINE code == verify_SignedHeader(hdr, call.max, call.addr)
<1>2. CASE code # LAUNCH_SUCCESS
  <2>1. Verdict = code
    BY <1>1, <1>2 DEF Verdict, RwVerdict
  <2>2. code \in Contract!HeaderDefects(hdr, call.addr, call.max)
    BY <1>1, <1>2, RefusedHeader
  <2>3. QED
    BY <1>1, <2>1, <2>2 DEF Contract!Defects
<1>3. CASE code = LAUNCH_SUCCESS
  <2>1. /\ Verdict = LAUNCH_INVALID_HASH
        /\ ~(hdr.img_chk_ = image_digest(hdr) /\ hdr.fuses_chk_ = fuse_array(hdr, efuse))
    BY <1>1, <1>3 DEF Verdict, RwVerdict
  <2>2. WSub(hdr.image_size, TagOffset) = hdr.image_size - TagOffset /\ hdr \in Image
    BY <1>1, <1>3, AcceptedHeader, CallInSlot
  <2>3. ~Contract!Genuine(hdr)
    <3>1. CASE hdr.img_chk_ # image_digest(hdr)
      BY <2>2, <3>1 DEF Contract!Genuine, image_digest
    <3>2. CASE hdr.fuses_chk_ # fuse_array(hdr, efuse)
      <4>1. hdr.fuses_chk_ \in [Fuse -> FuseValue \cup {FUSE_IGNORE}]
        BY <2>2 DEF Image, FuseArray
      <4>2. QED
        BY <3>2, <4>1 DEF Contract!Genuine, fuse_array
    <3>3. QED
      BY <2>1, <3>1, <3>2
  <2>4. LAUNCH_INVALID_HASH \in Contract!Defects(call)
    BY <1>1, <2>3, ContractLayout
    DEF Contract!Defects, hdr, Contract!LAUNCH_INVALID_HASH, LAUNCH_INVALID_HASH,
        Contract!LaunchCode
  <2>5. QED
    BY <1>1, <2>1, <2>4
<1>4. QED
  BY <1>2, <1>3

(* The loader halts for a defect of RW_A, reports it, and has raised or       *)
(* published nothing (rw.c, main.c).                                         *)
THEOREM HaltsForDefect == BootSpec => []HaltsWithReason
<1>1. ASSUME BootInv PROVE HaltsWithReason
  <2> SUFFICES ASSUME at = "wfi"
               PROVE  logged \in Contract!Defects(RwACall) /\ PrivilegeAtReset
    BY DEF HaltsWithReason
  <2>1. pc = "idle" /\ call = RwACall /\ logged = Verdict /\ Verdict # LAUNCH_SUCCESS
    BY <1>1 DEF BootInv, OneCall, Answered
  <2>2. TypeOK /\ PrivilegeAtReset
    BY <1>1, <2>1 DEF BootInv, IInv, Closed, CommitPoints
  <2>3. QED
    BY <2>1, <2>2, VerdictIsDefect
<1>2. QED
  BY <1>1, BootInvariance, PTL
-----------------------------------------------------------------------------
(* Refinement: the loader does for the chip what BootPromise says.           *)

(* The part of KeepsPromise that says nothing of fairness. *)
KeepsPromiseSafely == Promise!Init /\ [][Promise!Next]_(Promise!vars)

LEMMA PromiseStep ==
    BootInv /\ [BootNext]_bootvars => [Promise!Next]_(Promise!vars)
<1> SUFFICES ASSUME BootInv, [BootNext]_bootvars
             PROVE  Promise!Next \/ UNCHANGED Promise!vars
  OBVIOUS
<1> USE DEF Promise!vars
<1>i. IInv /\ OneCall /\ Answered
  BY DEF BootInv
<1>0. CASE UNCHANGED bootvars
  BY <1>0 DEF bootvars, boot, vars, control, storage
<1>1. CASE bss_loop
  BY <1>1, <1>i DEF bss_loop, Proceed, OneCall, control, storage, Promise!Next, Promise!Start
<1>2. CASE init_cpu \/ init_uart \/ banner
  BY <1>2, <1>i DEF init_cpu, init_uart, banner, Proceed, OneCall, vars, control, storage
<1>3. CASE main_launch
  BY <1>3, <1>i, RwAFacts DEF main_launch, Call, OneCall, storage
<1>4. CASE launch
  <2>1. at = "called" /\ at' = "called" /\ Step /\ flash' = flash /\ efuse' = efuse
    BY <1>4, Frame DEF launch, boot
  <2>2. pc # "launched"
    BY <2>1 DEF Step, launch_image, launch_RO, launch_RW, stage_ro_region, stage_rw_region,
       hash_region, print_hashes, check_hashes, set_runlevel, set_fwr, protect_flash_region,
       disarm_ram_guards, announce_jump, _jump_to_address
  <2>3. CASE pc' # "launched"
    BY <2>1, <2>2, <2>3
  <2>4. CASE pc' = "launched"
    <3>1. pc = "_jump_to_address"
      BY <2>1, <2>4 DEF Step, launch_image, launch_RO, launch_RW, stage_ro_region,
         stage_rw_region, hash_region, print_hashes, check_hashes, set_runlevel, set_fwr,
         protect_flash_region, disarm_ram_guards, announce_jump, _jump_to_address, Advance,
         Goto, Return
    <3>2. /\ hdr = flash[RW_A_BASE]
          /\ verify_SignedHeader(hdr, RwSize, RW_A_BASE) = LAUNCH_SUCCESS
          /\ hdr.img_chk_ = image_digest(hdr) /\ hdr.fuses_chk_ = fuse_array(hdr, efuse)
      BY <1>i, <2>1, <3>1, RwAFacts
      DEF IInv, Screened, Accepted, Hashed, OneCall, RwPoints, HashedPoints, CommitPoints, hdr
    <3>3. RwVerdict(flash, efuse) = LAUNCH_SUCCESS
      BY <3>2 DEF RwVerdict
    <3>4. Promise!Decide
      BY <2>1, <2>2, <2>4, <3>3 DEF Promise!Decide
    <3>5. QED
      BY <3>4 DEF Promise!Next
  <2>5. QED
    BY <2>3, <2>4
<1>5. CASE main_return
  <2>1. /\ at = "called" /\ at' = "wfi" /\ logged' = rc /\ pc = "idle" /\ pc' = "idle"
        /\ flash' = flash /\ efuse' = efuse
    BY <1>5 DEF main_return, vars, control, storage
  <2>2. logged' = RwVerdict(flash, efuse) /\ RwVerdict(flash, efuse) # LAUNCH_SUCCESS
    BY <1>i, <2>1 DEF Answered, Verdict
  <2>3. Promise!Decide
    BY <2>1, <2>2 DEF Promise!Decide
  <2>4. QED
    BY <2>3 DEF Promise!Next
<1>6. CASE PowerReset
  BY <1>6 DEF PowerReset, storage, Promise!Next, Promise!Reset
<1>7. QED
  BY <1>0, <1>1, <1>2, <1>3, <1>4, <1>5, <1>6 DEF BootNext, Main

(* After every reset the flash and the fuses alone decide whether RW_A gets   *)
(* control or the loader halts, and with what code (init.S, main.c, rw.c).    *)
THEOREM LoaderKeepsPromise == BootSpec => KeepsPromiseSafely
<1>1. BootInit => Promise!Init
  BY DEF BootInit, Init, Promise!Init
<1>2. BootSpec => Promise!Init /\ [][Promise!Next]_(Promise!vars)
  BY <1>1, PromiseStep, BootInvariance, PTL DEF BootSpec
<1>3. QED
  BY <1>2 DEF KeepsPromiseSafely

-----------------------------------------------------------------------------
(* The register file.                                                        *)

(* The word at address a of a register file in which b was written. *)
In(b, a) == IF a \in DOMAIN b THEN b[a] ELSE AtReset(a)
Written(b, a, word) == [x \in {a} \cup DOMAIN b |-> IF x = a THEN word ELSE b[x]]
Holds(b, pairs) == \A e \in pairs : In(b, e[1]) = e[2]

(* The registers of init_uart() that are set by now. *)
UartBank ==
    {<<<<UartWrite[i][1], UartWrite[i][2]>>, Lo(UartWrite[i][3])>> :
        i \in {j \in 2 .. 7 : Done("init_uart", j)}}

(* The registers the loader writes, and the bits it may write there. *)
LoaderRegisters ==
    {e[1] : e \in LauncherDefaults} \cup {VtorAt} \cup GuardsAt \cup Shared \cup UartSetUp
Writable(a, bits) == a \in LoaderRegisters /\ Exists(a) /\ bits \subseteq Implemented(a)
InTables(b) == \A a \in DOMAIN b : Writable(a, b[a])

LEMMA Away ==
    ASSUME NEW b, NEW pairs, NEW a, NEW word, Holds(b, pairs), \A e \in pairs : e[1] # a
    PROVE  Holds(Written(b, a, word), pairs)
BY DEF Holds, In, Written

LEMMA There == \A b, a, word : In(Written(b, a, word), a) = word
BY DEF In, Written

LEMMA Both ==
    \A b, s, t : Holds(b, s \cup t) <=> Holds(b, s) /\ Holds(b, t)
BY DEF Holds

LEMMA InTablesWritten ==
    ASSUME NEW b, NEW a, NEW word, InTables(b), Writable(a, word)
    PROVE  InTables(Written(b, a, word))
BY DEF InTables, Written

LEMMA InBank ==
    \A m, off, step, v : \A j \in DOMAIN v :
        <<<<m, off + step * j>>, Lo(v[j])>> \in Bank(m, off, step, v)
BY Zenon DEF Bank

(* One register of a bank is written, the words of the others stay. *)
LEMMA BankWritten ==
    ASSUME NEW m, NEW off \in Nat, NEW step \in Nat, NEW v, NEW w, NEW i \in DOMAIN w, NEW b,
           DOMAIN v = DOMAIN w, \A j \in DOMAIN w : j # i => w[j] = v[j],
           \A j \in DOMAIN w : j # i => off + step * j # off + step * i,
           Holds(b, Bank(m, off, step, v))
    PROVE  Holds(Written(b, <<m, off + step * i>>, Lo(w[i])), Bank(m, off, step, w))
<1> DEFINE c == Written(b, <<m, off + step * i>>, Lo(w[i]))
<1>1. SUFFICES ASSUME NEW j \in DOMAIN w PROVE In(c, <<m, off + step * j>>) = Lo(w[j])
  BY DEF Holds, Bank
<1>2. CASE j = i
  BY <1>2, There
<1>3. CASE j # i
  <2>1. In(b, <<m, off + step * j>>) = Lo(v[j])
    <3> DEFINE e == <<<<m, off + step * j>>, Lo(v[j])>>
    <3>1. e \in Bank(m, off, step, v)
      BY InBank
    <3>2. In(b, e[1]) = e[2]
      BY <3>1 DEF Holds
    <3>3. QED
      BY <3>2
  <2>2. <<m, off + step * j>> # <<m, off + step * i>>
    BY <1>3
  <2>3. QED
    BY <1>3, <2>1, <2>2 DEF In, Written
<1>4. QED
  BY <1>2, <1>3

(* Where the banks are. *)
LEMMA Where ==
    /\ \A w : \A e \in StagingBanks(w) : e[1][1] = "GLOBALSEC" /\ e[1][2] \in \h270 .. \h2cc
    /\ \A w : \A e \in RegionBanks(w) :
          e[1][1] = "GLOBALSEC" /\ e[1][2] \in (\he0 .. \hfc) \cup (\h230 .. \h26c)
    /\ \A w : DOMAIN w = 0 .. 3 =>
          \A e \in PermBank(w) : e[1][1] = "GLOBALSEC" /\ e[1][2] \in \h2d0 .. \h2dc
    /\ \A w : DOMAIN w = 0 .. 7 =>
          \A e \in FwrBank(w) : e[1][1] = "KEYMGR" /\ e[1][2] \in \h3100 .. \h311c
    /\ \A w : \A e \in KeymgrBank(w) : e[1][1] = "KEYMGR" /\ e[1][2] \in \h3120 .. \h3128
    /\ \A w : DOMAIN w = 0 .. 2 =>
          \A e \in GuardBank(w) : e[1][1] = "GLOBALSEC" /\ e[1][2] \in 0 .. 8
    /\ \A e \in VtorBank : e[1] = VtorAt
    /\ \A e \in SetUpBank : e[1] \in Shared
    /\ \A e \in UartBank : e[1][1] \in {"PINMUX", "UART"}
<1>1. \A w : \A e \in StagingBanks(w) : e[1][1] = "GLOBALSEC" /\ e[1][2] \in \h270 .. \h2cc
  BY DEF StagingBanks, WindowBanks, Bank
<1>2. \A w : \A e \in RegionBanks(w) :
          e[1][1] = "GLOBALSEC" /\ e[1][2] \in (\he0 .. \hfc) \cup (\h230 .. \h26c)
  BY DEF RegionBanks, WindowBanks, Bank
<1>3. \A w : DOMAIN w = 0 .. 3 =>
          \A e \in PermBank(w) : e[1][1] = "GLOBALSEC" /\ e[1][2] \in \h2d0 .. \h2dc
  BY DEF PermBank, Bank
<1>4. \A w : DOMAIN w = 0 .. 7 =>
          \A e \in FwrBank(w) : e[1][1] = "KEYMGR" /\ e[1][2] \in \h3100 .. \h311c
  BY DEF FwrBank, Bank
<1>5. \A w : \A e \in KeymgrBank(w) : e[1][1] = "KEYMGR" /\ e[1][2] \in \h3120 .. \h3128
  BY DEF KeymgrBank
<1>6. \A w : DOMAIN w = 0 .. 2 =>
          \A e \in GuardBank(w) : e[1][1] = "GLOBALSEC" /\ e[1][2] \in 0 .. 8
  BY DEF GuardBank, Bank
<1>7. \A e \in VtorBank : e[1] = VtorAt
  BY DEF VtorBank, VtorAt
<1>8. \A e \in SetUpBank : e[1] \in Shared
  BY DEF SetUpBank, Shared
<1>9. \A e \in UartBank : e[1][1] \in {"PINMUX", "UART"}
  <2>1. \A i \in 2 .. 7 : UartWrite[i][1] \in {"PINMUX", "UART"}
    BY DEF UartWrite
  <2>2. QED
    BY <2>1 DEF UartBank
<1> QED
  BY <1>1, <1>2, <1>3, <1>4, <1>5, <1>6, <1>7, <1>8, <1>9

LEMMA LoBits == \A v : Lo(v) \subseteq Bit
<1>1. \A v : Half(v) \subseteq 0 .. 15
  BY DEF Half
<1>2. QED
  BY <1>1 DEF Lo, Hex, Bit

LEMMA Defaults ==
    ASSUME NEW b, \A e \in LauncherDefaults : e[1] \notin DOMAIN b
    PROVE  /\ Holds(b, StagingBanks(NoStaging)) /\ Holds(b, RegionBanks(NoRegion))
           /\ Holds(b, PermBank(ResetPerm)) /\ Holds(b, FwrBank(ResetFwr))
           /\ Holds(b, KeymgrBank(ResetKeymgr))
<1>1. \A e \in LauncherDefaults : AtReset(e[1]) = e[2]
  BY LauncherRegistersAssumption DEF LauncherDefaults
<1>2. Holds(b, LauncherDefaults)
  BY <1>1 DEF Holds, In
<1>3. QED
  BY <1>2, Both DEF LauncherDefaults

(* Register r of a row of registers of GLOBALSEC. *)
At(off, step, r) == <<"GLOBALSEC", off + step * r>>

StagingCtrlAt(r) == At(\h270, 12, r)
StagingBaseAt(r) == At(\h274, 12, r)
StagingSizeAt(r) == At(\h278, 12, r)
RegionCtrlAt(r) == At(\he0, 4, r)
RegionBaseAt(r) == At(\h230, 8, r)
RegionSizeAt(r) == At(\h234, 8, r)

LEMMA Banked ==
    /\ \A r \in 0 .. 7 :
          /\ Writable(StagingCtrlAt(r), {0, 1, 2}) /\ Writable(RegionCtrlAt(r), {0, 1, 2})
          /\ Writable(StagingBaseAt(r), Bit) /\ Writable(StagingSizeAt(r), Bit)
          /\ Writable(RegionBaseAt(r), Bit) /\ Writable(RegionSizeAt(r), Bit)
    /\ \A r \in 0 .. 7 : Writable(<<"KEYMGR", \h3100 + 4 * r>>, Bit)
    /\ \A i \in 0 .. 3 : Writable(<<"GLOBALSEC", \h2d0 + 4 * i>>, Bit)
    /\ \A i \in 0 .. 2 : Writable(<<"GLOBALSEC", 4 * i>>, {0, 1, 2})
    /\ Writable(<<"KEYMGR", \h3120>>, Bit) /\ Writable(<<"KEYMGR", \h3124>>, Bit)
    /\ Writable(<<"KEYMGR", \h3128>>, Bit) /\ Writable(VtorAt, Bit)
<1>1. \A e \in LauncherDefaults : e[1] \notin Controls => Writable(e[1], Bit)
  BY LauncherRegistersAssumption DEF LoaderRegisters, Writable
<1>2. Writable(VtorAt, Bit)
  BY LauncherRegistersAssumption DEF LoaderRegisters, Writable
<1>3. \A e \in LauncherDefaults : e[1] \in LoaderRegisters
  BY DEF LoaderRegisters
<1>p. \A m, off, step, v : Bank(m, off, step, v) \subseteq LauncherDefaults =>
         \A j \in DOMAIN v :
            LET a == <<m, off + step * j>> IN
            /\ a \in LoaderRegisters
            /\ a \notin Controls => Writable(a, Bit)
  <2> SUFFICES ASSUME NEW m, NEW off, NEW step, NEW v, Bank(m, off, step, v) \subseteq LauncherDefaults,
                      NEW j \in DOMAIN v
               PROVE  LET a == <<m, off + step * j>> IN
                      /\ a \in LoaderRegisters
                      /\ a \notin Controls => Writable(a, Bit)
    OBVIOUS
  <2> DEFINE e == <<<<m, off + step * j>>, Lo(v[j])>>
  <2>1. e \in LauncherDefaults
    BY InBank
  <2>2. e[1] = <<m, off + step * j>>
    OBVIOUS
  <2>3. e[1] \in LoaderRegisters /\ (e[1] \notin Controls => Writable(e[1], Bit))
    BY <1>1, <1>3, <2>1
  <2>4. QED
    BY <2>2, <2>3
<1>4. ASSUME NEW r \in 0 .. 7
      PROVE  /\ Writable(At(\h270, 12, r), {0, 1, 2}) /\ Writable(At(\he0, 4, r), {0, 1, 2})
             /\ Writable(At(\h274, 12, r), Bit) /\ Writable(At(\h278, 12, r), Bit)
             /\ Writable(At(\h230, 8, r), Bit) /\ Writable(At(\h234, 8, r), Bit)
  <2> DEFINE W == [i \in 0 .. 7 |-> 0]
  <2>1. /\ Bank("GLOBALSEC", \h270, 12, W) \subseteq LauncherDefaults
        /\ Bank("GLOBALSEC", \h274, 12, W) \subseteq LauncherDefaults
        /\ Bank("GLOBALSEC", \h278, 12, W) \subseteq LauncherDefaults
    <3>1. /\ W = [i \in 0 .. 7 |-> NoStaging[i].ctrl] /\ W = [i \in 0 .. 7 |-> NoStaging[i].base]
          /\ W = [i \in 0 .. 7 |-> NoStaging[i].size]
      BY DEF NoStaging, NoWindow
    <3> HIDE DEF W
    <3>2. QED
      BY <3>1 DEF LauncherDefaults, StagingBanks, WindowBanks
  <2>2. /\ Bank("GLOBALSEC", \he0, 4, W) \subseteq LauncherDefaults
        /\ Bank("GLOBALSEC", \h230, 8, W) \subseteq LauncherDefaults
        /\ Bank("GLOBALSEC", \h234, 8, W) \subseteq LauncherDefaults
    <3>1. /\ W = [i \in 0 .. 7 |-> NoRegion[i].ctrl] /\ W = [i \in 0 .. 7 |-> NoRegion[i].base]
          /\ W = [i \in 0 .. 7 |-> NoRegion[i].size]
      BY DEF NoRegion, NoWindow
    <3> HIDE DEF W
    <3>2. QED
      BY <3>1 DEF LauncherDefaults, RegionBanks, WindowBanks
  <2>3. /\ <<"GLOBALSEC", \h274 + 12 * r>> \notin Controls
        /\ <<"GLOBALSEC", \h278 + 12 * r>> \notin Controls
        /\ <<"GLOBALSEC", \h230 + 8 * r>> \notin Controls
        /\ <<"GLOBALSEC", \h234 + 8 * r>> \notin Controls
    BY DEF Controls
  <2>4. r \in DOMAIN W
    OBVIOUS
  <2>5. /\ Exists(<<"GLOBALSEC", \h270 + 12 * r>>) /\ Exists(<<"GLOBALSEC", \he0 + 4 * r>>)
        /\ {0, 1, 2} \subseteq Implemented(<<"GLOBALSEC", \h270 + 12 * r>>)
        /\ {0, 1, 2} \subseteq Implemented(<<"GLOBALSEC", \he0 + 4 * r>>)
    <3>1. <<"GLOBALSEC", \h270 + 12 * r>> \in Controls /\ <<"GLOBALSEC", \he0 + 4 * r>> \in Controls
      BY DEF Controls
    <3>2. QED
      BY <3>1, LauncherRegistersAssumption
  <2> HIDE DEF W
  <2>6. \A off, step : Bank("GLOBALSEC", off, step, W) \subseteq LauncherDefaults =>
           /\ At(off, step, r) \in LoaderRegisters
           /\ At(off, step, r) \in Controls \/ Writable(At(off, step, r), Bit)
    BY <1>p, <2>4, Zenon DEF At
  <2>7. /\ At(\h274, 12, r) \notin Controls /\ At(\h278, 12, r) \notin Controls
        /\ At(\h230, 8, r) \notin Controls /\ At(\h234, 8, r) \notin Controls
    BY <2>3 DEF At
  <2>8. /\ At(\h270, 12, r) \in LoaderRegisters /\ At(\he0, 4, r) \in LoaderRegisters
        /\ Writable(At(\h274, 12, r), Bit) /\ Writable(At(\h278, 12, r), Bit)
        /\ Writable(At(\h230, 8, r), Bit) /\ Writable(At(\h234, 8, r), Bit)
    BY <2>1, <2>2, <2>6, <2>7
  <2>9. QED
    BY <2>5, <2>8 DEF At, Writable
<1>5. \A w \in 0 .. 7 : Writable(<<"KEYMGR", \h3100 + 4 * w>>, Bit)
  <2>1. Bank("KEYMGR", \h3100, 4, ResetFwr) \subseteq LauncherDefaults
    BY DEF LauncherDefaults, FwrBank
  <2>2. \A w \in 0 .. 7 : <<"KEYMGR", \h3100 + 4 * w>> \notin Controls
    BY DEF Controls
  <2>3. DOMAIN ResetFwr = 0 .. 7
    BY DEF ResetFwr
  <2>4. \A j \in DOMAIN ResetFwr :
         <<"KEYMGR", \h3100 + 4 * j>> \notin Controls
            => Writable(<<"KEYMGR", \h3100 + 4 * j>>, Bit)
    BY <1>p, <2>1
  <2>5. QED
    BY <2>2, <2>3, <2>4
<1>6. \A i \in 0 .. 3 : Writable(<<"GLOBALSEC", \h2d0 + 4 * i>>, Bit)
  <2>1. Bank("GLOBALSEC", \h2d0, 4, ResetPerm) \subseteq LauncherDefaults
    BY DEF LauncherDefaults, PermBank
  <2>2. \A i \in 0 .. 3 : <<"GLOBALSEC", \h2d0 + 4 * i>> \notin Controls
    BY DEF Controls
  <2>3. DOMAIN ResetPerm = 0 .. 3
    BY DEF ResetPerm
  <2>4. \A j \in DOMAIN ResetPerm :
         <<"GLOBALSEC", \h2d0 + 4 * j>> \notin Controls
            => Writable(<<"GLOBALSEC", \h2d0 + 4 * j>>, Bit)
    BY <1>p, <2>1
  <2>5. QED
    BY <2>2, <2>3, <2>4
<1>7. \A i \in 0 .. 2 : Writable(<<"GLOBALSEC", 4 * i>>, {0, 1, 2})
  <2>1. \A i \in 0 .. 2 : <<"GLOBALSEC", 4 * i>> \in LoaderRegisters
    BY DEF LoaderRegisters, GuardsAt
  <2>2. \A i \in 0 .. 2 : <<"GLOBALSEC", 4 * i>> \in GuardsAt
    BY DEF GuardsAt
  <2>3. QED
    BY <2>1, <2>2, LauncherRegistersAssumption DEF Writable
<1>8. /\ Writable(<<"KEYMGR", \h3120>>, Bit) /\ Writable(<<"KEYMGR", \h3124>>, Bit)
      /\ Writable(<<"KEYMGR", \h3128>>, Bit)
  <2> DEFINE vld == <<<<"KEYMGR", \h3120>>, Lo(ResetKeymgr.vld)>>
             major == <<<<"KEYMGR", \h3124>>, Lo(ResetKeymgr.major)>>
             lock == <<<<"KEYMGR", \h3128>>, Lo(ResetKeymgr.lock)>>
  <2>1. vld \in LauncherDefaults /\ major \in LauncherDefaults /\ lock \in LauncherDefaults
    BY DEF LauncherDefaults, KeymgrBank
  <2>2. vld[1] \notin Controls /\ major[1] \notin Controls /\ lock[1] \notin Controls
    BY DEF Controls
  <2>3. Writable(vld[1], Bit) /\ Writable(major[1], Bit) /\ Writable(lock[1], Bit)
    BY <1>1, <2>1, <2>2
  <2>4. QED
    BY <2>3
<1>9. \A r \in 0 .. 7 :
         /\ Writable(StagingCtrlAt(r), {0, 1, 2}) /\ Writable(RegionCtrlAt(r), {0, 1, 2})
         /\ Writable(StagingBaseAt(r), Bit) /\ Writable(StagingSizeAt(r), Bit)
         /\ Writable(RegionBaseAt(r), Bit) /\ Writable(RegionSizeAt(r), Bit)
  BY <1>4 DEF StagingCtrlAt, StagingBaseAt, StagingSizeAt, RegionCtrlAt, RegionBaseAt, RegionSizeAt
<1>10. QED
  BY <1>2, <1>5, <1>6, <1>7, <1>8, <1>9

(* The three banks of eight windows do not overlap. *)
Apart(ctrl, cs, base, size, step) ==
    /\ \A i, j \in 0 .. 7 :
          /\ ctrl + cs * i # base + step * j /\ ctrl + cs * i # size + step * j
          /\ base + step * i # size + step * j
    /\ \A i, j \in 0 .. 7 : i # j =>
          /\ ctrl + cs * i # ctrl + cs * j /\ base + step * i # base + step * j
          /\ size + step * i # size + step * j

LEMMA WindowWritten ==
    ASSUME NEW ctrl \in Nat, NEW cs \in Nat, NEW base \in Nat, NEW size \in Nat, NEW step \in Nat,
           Apart(ctrl, cs, base, size, step),
           NEW b, NEW v, NEW w, NEW r \in 0 .. 7, \A j \in 0 .. 7 : j # r => w[j] = v[j],
           Holds(b, WindowBanks(v, ctrl, cs, base, size, step))
    PROVE  /\ w[r].base = v[r].base /\ w[r].size = v[r].size =>
                Holds(Written(b, At(ctrl, cs, r), Lo(w[r].ctrl)),
                      WindowBanks(w, ctrl, cs, base, size, step))
           /\ w[r].ctrl = v[r].ctrl /\ w[r].size = v[r].size =>
                Holds(Written(b, At(base, step, r), Lo(w[r].base)),
                      WindowBanks(w, ctrl, cs, base, size, step))
           /\ w[r].ctrl = v[r].ctrl /\ w[r].base = v[r].base =>
                Holds(Written(b, At(size, step, r), Lo(w[r].size)),
                      WindowBanks(w, ctrl, cs, base, size, step))
<1> DEFINE Ctrl(x) == [i \in 0 .. 7 |-> x[i].ctrl]
           Base(x) == [i \in 0 .. 7 |-> x[i].base]
           Size(x) == [i \in 0 .. 7 |-> x[i].size]
           CB(x) == Bank("GLOBALSEC", ctrl, cs, Ctrl(x))
           BB(x) == Bank("GLOBALSEC", base, step, Base(x))
           SB(x) == Bank("GLOBALSEC", size, step, Size(x))
           Banks(x) == WindowBanks(x, ctrl, cs, base, size, step)
           CtrlAt == At(ctrl, cs, r)
           BaseAt == At(base, step, r)
           SizeAt == At(size, step, r)
<1>1. \A x, c : Holds(c, Banks(x)) <=> Holds(c, CB(x)) /\ Holds(c, BB(x)) /\ Holds(c, SB(x))
  <2>1. \A x : Banks(x) = CB(x) \cup BB(x) \cup SB(x)
    BY DEF WindowBanks
  <2> HIDE DEF Banks, CB, BB, SB
  <2>2. QED
    BY <2>1, Both
<1>2. /\ w[r].ctrl = v[r].ctrl => Ctrl(w) = Ctrl(v)
      /\ w[r].base = v[r].base => Base(w) = Base(v)
      /\ w[r].size = v[r].size => Size(w) = Size(v)
  OBVIOUS
<1>3. /\ \A j \in 0 .. 7 : j # r => Ctrl(w)[j] = Ctrl(v)[j]
      /\ \A j \in 0 .. 7 : j # r => Base(w)[j] = Base(v)[j]
      /\ \A j \in 0 .. 7 : j # r => Size(w)[j] = Size(v)[j]
  OBVIOUS
<1>4. \A x : /\ DOMAIN Ctrl(x) = 0 .. 7 /\ DOMAIN Base(x) = 0 .. 7 /\ DOMAIN Size(x) = 0 .. 7
             /\ Ctrl(x)[r] = x[r].ctrl /\ Base(x)[r] = x[r].base /\ Size(x)[r] = x[r].size
  OBVIOUS
<1>5. /\ \A x : \A e \in BB(x) \cup SB(x) : e[1] # CtrlAt
      /\ \A x : \A e \in CB(x) \cup SB(x) : e[1] # BaseAt
      /\ \A x : \A e \in CB(x) \cup BB(x) : e[1] # SizeAt
  BY <1>4 DEF Bank, Apart, At
<1>v. Holds(b, CB(v)) /\ Holds(b, BB(v)) /\ Holds(b, SB(v))
  BY <1>1
<1>7. Holds(Written(b, CtrlAt, Lo(w[r].ctrl)), CB(w))
  <2>1. /\ r \in DOMAIN Ctrl(w) /\ DOMAIN Ctrl(v) = DOMAIN Ctrl(w)
        /\ \A j \in DOMAIN Ctrl(w) : j # r => Ctrl(w)[j] = Ctrl(v)[j]
        /\ \A j \in DOMAIN Ctrl(w) : j # r => ctrl + cs * j # ctrl + cs * r
    BY <1>3, <1>4 DEF Apart
  <2>2. Holds(b, Bank("GLOBALSEC", ctrl, cs, Ctrl(v))) /\ w[r].ctrl = Ctrl(w)[r]
    BY <1>v, <1>4
  <2> HIDE DEF Ctrl
  <2>3. Holds(Written(b, <<"GLOBALSEC", ctrl + cs * r>>, Lo(Ctrl(w)[r])),
            Bank("GLOBALSEC", ctrl, cs, Ctrl(w)))
    BY <2>1, <2>2, BankWritten
  <2>4. QED
    BY <2>2, <2>3 DEF At
<1>8. Holds(Written(b, BaseAt, Lo(w[r].base)), BB(w))
  <2>1. /\ r \in DOMAIN Base(w) /\ DOMAIN Base(v) = DOMAIN Base(w)
        /\ \A j \in DOMAIN Base(w) : j # r => Base(w)[j] = Base(v)[j]
        /\ \A j \in DOMAIN Base(w) : j # r => base + step * j # base + step * r
    BY <1>3, <1>4 DEF Apart
  <2>2. Holds(b, Bank("GLOBALSEC", base, step, Base(v))) /\ w[r].base = Base(w)[r]
    BY <1>v, <1>4
  <2> HIDE DEF Base
  <2>3. Holds(Written(b, <<"GLOBALSEC", base + step * r>>, Lo(Base(w)[r])),
            Bank("GLOBALSEC", base, step, Base(w)))
    BY <2>1, <2>2, BankWritten
  <2>4. QED
    BY <2>2, <2>3 DEF At
<1>9. Holds(Written(b, SizeAt, Lo(w[r].size)), SB(w))
  <2>1. /\ r \in DOMAIN Size(w) /\ DOMAIN Size(v) = DOMAIN Size(w)
        /\ \A j \in DOMAIN Size(w) : j # r => Size(w)[j] = Size(v)[j]
        /\ \A j \in DOMAIN Size(w) : j # r => size + step * j # size + step * r
    BY <1>3, <1>4 DEF Apart
  <2>2. Holds(b, Bank("GLOBALSEC", size, step, Size(v))) /\ w[r].size = Size(w)[r]
    BY <1>v, <1>4
  <2> HIDE DEF Size
  <2>3. Holds(Written(b, <<"GLOBALSEC", size + step * r>>, Lo(Size(w)[r])),
            Bank("GLOBALSEC", size, step, Size(w)))
    BY <2>1, <2>2, BankWritten
  <2>4. QED
    BY <2>2, <2>3 DEF At
<1>c. /\ w[r].ctrl = v[r].ctrl => CB(w) = CB(v)
      /\ w[r].base = v[r].base => BB(w) = BB(v)
      /\ w[r].size = v[r].size => SB(w) = SB(v)
  BY <1>2
<1> HIDE DEF Banks, CB, BB, SB, Ctrl, Base, Size, CtrlAt, BaseAt, SizeAt
<1>6. \A word : /\ Holds(Written(b, CtrlAt, word), BB(v)) /\ Holds(Written(b, CtrlAt, word), SB(v))
                /\ Holds(Written(b, BaseAt, word), CB(v)) /\ Holds(Written(b, BaseAt, word), SB(v))
                /\ Holds(Written(b, SizeAt, word), CB(v)) /\ Holds(Written(b, SizeAt, word), BB(v))
  BY <1>v, <1>5, Away
<1>10. /\ w[r].base = v[r].base /\ w[r].size = v[r].size
             => Holds(Written(b, CtrlAt, Lo(w[r].ctrl)), Banks(w))
       /\ w[r].ctrl = v[r].ctrl /\ w[r].size = v[r].size
             => Holds(Written(b, BaseAt, Lo(w[r].base)), Banks(w))
       /\ w[r].ctrl = v[r].ctrl /\ w[r].base = v[r].base
             => Holds(Written(b, SizeAt, Lo(w[r].size)), Banks(w))
  BY <1>1, <1>c, <1>6, <1>7, <1>8, <1>9
<1> QED
  BY <1>10 DEF Banks, CtrlAt, BaseAt, SizeAt

(* The register file agrees with the launcher's variables and with what the    *)
(* loader's start has done.                                                    *)
Registered ==
    /\ Holds(bus, StagingBanks(staging)) /\ Holds(bus, RegionBanks(region))
    /\ Holds(bus, PermBank(perm)) /\ Holds(bus, FwrBank(fwr)) /\ Holds(bus, KeymgrBank(keymgr))
    /\ Holds(bus, GuardBank(guard)) /\ Holds(bus, VtorBank) /\ Holds(bus, SetUpBank)
    /\ Holds(bus, UartBank) /\ InTables(bus)

Shapes ==
    /\ DOMAIN perm = 0 .. 3 /\ DOMAIN fwr = 0 .. 7 /\ DOMAIN guard = 0 .. 2

(* A write leaves the banks alone that it does not go to. *)
LEMMA Elsewhere ==
    ASSUME Registered, Shapes, NEW a, NEW word, Writable(a, word)
    PROVE  LET c == Written(bus, a, word) IN
           /\ InTables(c)
           /\ a[1] # "GLOBALSEC" \/ a[2] \notin \h270 .. \h2cc => Holds(c, StagingBanks(staging))
           /\ a[1] # "GLOBALSEC" \/ a[2] \notin (\he0 .. \hfc) \cup (\h230 .. \h26c)
                 => Holds(c, RegionBanks(region))
           /\ a[1] # "GLOBALSEC" \/ a[2] \notin \h2d0 .. \h2dc => Holds(c, PermBank(perm))
           /\ a[1] # "KEYMGR" \/ a[2] \notin \h3100 .. \h311c => Holds(c, FwrBank(fwr))
           /\ a[1] # "KEYMGR" \/ a[2] \notin \h3120 .. \h3128 => Holds(c, KeymgrBank(keymgr))
           /\ a[1] # "GLOBALSEC" \/ a[2] \notin 0 .. 8 => Holds(c, GuardBank(guard))
           /\ a # VtorAt => Holds(c, VtorBank)
           /\ a \notin Shared => Holds(c, SetUpBank)
           /\ a[1] \notin {"PINMUX", "UART"} => Holds(c, UartBank)
<1> DEFINE c == Written(bus, a, word)
<1>1. \A pairs : Holds(bus, pairs) /\ (\A e \in pairs : e[1] # a) => Holds(c, pairs)
  BY Away
<1>2. InTables(c)
  BY InTablesWritten DEF Registered
<1> HIDE DEF c
<1>3. a[1] # "GLOBALSEC" \/ a[2] \notin \h270 .. \h2cc => Holds(c, StagingBanks(staging))
  BY <1>1, Where DEF Registered
<1>4. a[1] # "GLOBALSEC" \/ a[2] \notin (\he0 .. \hfc) \cup (\h230 .. \h26c)
         => Holds(c, RegionBanks(region))
  BY <1>1, Where DEF Registered
<1>5. a[1] # "GLOBALSEC" \/ a[2] \notin \h2d0 .. \h2dc => Holds(c, PermBank(perm))
  BY <1>1, Where DEF Registered, Shapes
<1>6. a[1] # "KEYMGR" \/ a[2] \notin \h3100 .. \h311c => Holds(c, FwrBank(fwr))
  BY <1>1, Where DEF Registered, Shapes
<1>7. a[1] # "KEYMGR" \/ a[2] \notin \h3120 .. \h3128 => Holds(c, KeymgrBank(keymgr))
  BY <1>1, Where DEF Registered
<1>8. a[1] # "GLOBALSEC" \/ a[2] \notin 0 .. 8 => Holds(c, GuardBank(guard))
  BY <1>1, Where DEF Registered, Shapes
<1>9. a # VtorAt => Holds(c, VtorBank)
  BY <1>1, Where DEF Registered
<1>10. a \notin Shared => Holds(c, SetUpBank)
  BY <1>1, Where DEF Registered
<1>11. a[1] \notin {"PINMUX", "UART"} => Holds(c, UartBank)
  BY <1>1, Where DEF Registered
<1> QED
  BY <1>2, <1>3, <1>4, <1>5, <1>6, <1>7, <1>8, <1>9, <1>10, <1>11 DEF c

LEMMA SameProgress ==
    ASSUME UNCHANGED <<at, k, found>>
    PROVE  SetUpBank' = SetUpBank /\ UartBank' = UartBank /\ (vtor' = vtor => VtorBank' = VtorBank)
BY DEF SetUpBank, UartBank, VtorBank, Done

(* The steps of the loader's start are numbered as they are made. *)
StepRange == k \in 0 .. 7 /\ (at \in {"reset", "init_cpu"} => k <= 1)

LEMMA InvShapes == IInv => Shapes
BY DEF IInv, TypeOK, Shapes

(* A step that writes no register.  *)
LEMMA QuietStep ==
    ASSUME Registered, Quiet, UNCHANGED registers,
           SetUpBank' = SetUpBank, UartBank' = UartBank, VtorBank' = VtorBank
    PROVE  Registered'
<1>1. /\ bus' = bus /\ staging' = staging /\ region' = region /\ perm' = perm /\ fwr' = fwr
      /\ keymgr' = keymgr /\ guard' = guard
  BY DEF Quiet, registers
<1>2. QED
  BY <1>1 DEF Registered

LEMMA StagingWritten ==
    ASSUME NEW b, NEW v, NEW w, NEW r \in 0 .. 7, \A j \in 0 .. 7 : j # r => w[j] = v[j],
           Holds(b, StagingBanks(v))
    PROVE  /\ w[r].base = v[r].base /\ w[r].size = v[r].size =>
                Holds(Written(b, StagingCtrlAt(r), Lo(w[r].ctrl)), StagingBanks(w))
           /\ w[r].ctrl = v[r].ctrl /\ w[r].size = v[r].size =>
                Holds(Written(b, StagingBaseAt(r), Lo(w[r].base)), StagingBanks(w))
           /\ w[r].ctrl = v[r].ctrl /\ w[r].base = v[r].base =>
                Holds(Written(b, StagingSizeAt(r), Lo(w[r].size)), StagingBanks(w))
<1> DEFINE ctrl == \h270
           apart == 12
           base == \h274
           size == \h278
           step == 12
<1>1. Apart(ctrl, apart, base, size, step)
  BY DEF Apart
<1>2. \A x : StagingBanks(x) = WindowBanks(x, ctrl, apart, base, size, step)
  BY DEF StagingBanks
<1>3. ctrl \in Nat /\ apart \in Nat /\ base \in Nat /\ size \in Nat /\ step \in Nat
  OBVIOUS
<1> HIDE DEF ctrl, apart, base, size, step
<1>4. Holds(b, WindowBanks(v, ctrl, apart, base, size, step))
  BY <1>2
<1>5. /\ w[r].base = v[r].base /\ w[r].size = v[r].size =>
            Holds(Written(b, At(ctrl, apart, r), Lo(w[r].ctrl)), StagingBanks(w))
      /\ w[r].ctrl = v[r].ctrl /\ w[r].size = v[r].size =>
            Holds(Written(b, At(base, step, r), Lo(w[r].base)), StagingBanks(w))
      /\ w[r].ctrl = v[r].ctrl /\ w[r].base = v[r].base =>
            Holds(Written(b, At(size, step, r), Lo(w[r].size)), StagingBanks(w))
  BY <1>1, <1>2, <1>3, <1>4, WindowWritten
<1>6. QED
  BY <1>5 DEF ctrl, apart, base, size, step, StagingCtrlAt, StagingBaseAt, StagingSizeAt,
         RegionCtrlAt, RegionBaseAt, RegionSizeAt

LEMMA RegionWritten ==
    ASSUME NEW b, NEW v, NEW w, NEW r \in 0 .. 7, \A j \in 0 .. 7 : j # r => w[j] = v[j],
           Holds(b, RegionBanks(v))
    PROVE  /\ w[r].base = v[r].base /\ w[r].size = v[r].size =>
                Holds(Written(b, RegionCtrlAt(r), Lo(w[r].ctrl)), RegionBanks(w))
           /\ w[r].ctrl = v[r].ctrl /\ w[r].size = v[r].size =>
                Holds(Written(b, RegionBaseAt(r), Lo(w[r].base)), RegionBanks(w))
           /\ w[r].ctrl = v[r].ctrl /\ w[r].base = v[r].base =>
                Holds(Written(b, RegionSizeAt(r), Lo(w[r].size)), RegionBanks(w))
<1> DEFINE ctrl == \he0
           apart == 4
           base == \h230
           size == \h234
           step == 8
<1>1. Apart(ctrl, apart, base, size, step)
  BY DEF Apart
<1>2. \A x : RegionBanks(x) = WindowBanks(x, ctrl, apart, base, size, step)
  BY DEF RegionBanks
<1>3. ctrl \in Nat /\ apart \in Nat /\ base \in Nat /\ size \in Nat /\ step \in Nat
  OBVIOUS
<1> HIDE DEF ctrl, apart, base, size, step
<1>4. Holds(b, WindowBanks(v, ctrl, apart, base, size, step))
  BY <1>2
<1>5. /\ w[r].base = v[r].base /\ w[r].size = v[r].size =>
            Holds(Written(b, At(ctrl, apart, r), Lo(w[r].ctrl)), RegionBanks(w))
      /\ w[r].ctrl = v[r].ctrl /\ w[r].size = v[r].size =>
            Holds(Written(b, At(base, step, r), Lo(w[r].base)), RegionBanks(w))
      /\ w[r].ctrl = v[r].ctrl /\ w[r].base = v[r].base =>
            Holds(Written(b, At(size, step, r), Lo(w[r].size)), RegionBanks(w))
  BY <1>1, <1>2, <1>3, <1>4, WindowWritten
<1>6. QED
  BY <1>5 DEF ctrl, apart, base, size, step, StagingCtrlAt, StagingBaseAt, StagingSizeAt,
         RegionCtrlAt, RegionBaseAt, RegionSizeAt

(* Words of a register that has all 32 bits, and of a control. *)
LEMMA Fits ==
    /\ \A a, v : Writable(a, Bit) => Writable(a, Lo(v))
    /\ \A a : \A v \in 0 .. 7 : Writable(a, {0, 1, 2}) => Writable(a, Lo(v))
BY LoBits, LauncherRegistersAssumption DEF Writable

LEMMA StagingWrite ==
    ASSUME Registered, Shapes, staging \in [0 .. 7 -> Window], UNCHANGED <<at, k, found>>,
           NEW r \in 0 .. 7, stage_rx_region(r), stage_rx_region_bus(r)
    PROVE  Registered'
<1>1. /\ region' = region /\ perm' = perm /\ fwr' = fwr /\ keymgr' = keymgr /\ guard' = guard
      /\ SetUpBank' = SetUpBank /\ UartBank' = UartBank /\ VtorBank' = VtorBank
  BY SameProgress DEF stage_rx_region
<1>2. /\ staging' \in [0 .. 7 -> [base : {staging'[i].base : i \in 0 .. 7},
                                   size : {staging'[i].size : i \in 0 .. 7}, ctrl : {0, 3}]]
      /\ \A j \in 0 .. 7 : j # r => staging'[j] = staging[j]
  BY DEF stage_rx_region, Window
<1>3. ASSUME NEW a, NEW word, bus' = Written(bus, a, word), Writable(a, word),
             a[1] = "GLOBALSEC", a[2] \in \h270 .. \h2cc,
             Holds(Written(bus, a, word), StagingBanks(staging'))
      PROVE  Registered'
  <2>1. a # VtorAt /\ a \notin Shared /\ a[1] \notin {"PINMUX", "UART", "KEYMGR"}
    BY <1>3 DEF VtorAt, Shared
  <2>2. a[2] \notin (\he0 .. \hfc) \cup (\h230 .. \h26c) /\ a[2] \notin \h2d0 .. \h2dc
        /\ a[2] \notin 0 .. 8
    BY <1>3
  <2>3. QED
    BY <1>1, <1>3, <2>1, <2>2, Elsewhere DEF Registered
<1>w. Holds(bus, StagingBanks(staging))
  BY DEF Registered
<1>s. /\ staging'[r].base = staging[r].base /\ staging'[r].size = staging[r].size =>
            Holds(Written(bus, StagingCtrlAt(r), Lo(staging'[r].ctrl)), StagingBanks(staging'))
      /\ staging'[r].ctrl = staging[r].ctrl /\ staging'[r].size = staging[r].size =>
            Holds(Written(bus, StagingBaseAt(r), Lo(staging'[r].base)), StagingBanks(staging'))
      /\ staging'[r].ctrl = staging[r].ctrl /\ staging'[r].base = staging[r].base =>
            Holds(Written(bus, StagingSizeAt(r), Lo(staging'[r].size)), StagingBanks(staging'))
  BY <1>2, <1>w, StagingWritten
<1>4. \A a, word : Put(a, word) => bus' = Written(bus, a, word)
  BY DEF Put, Written
<1>5. CASE n = 0
  <2> DEFINE a == StagingBaseAt(r)
             word == Lo(staging'[r].base)
  <2>1. staging'[r].ctrl = staging[r].ctrl /\ staging'[r].size = staging[r].size
    BY <1>5 DEF stage_rx_region, Window
  <2>2. Holds(Written(bus, a, word), StagingBanks(staging'))
    BY <1>s, <2>1
  <2>3. bus' = Written(bus, a, word)
    <3>1. <<"GLOBALSEC", \h270 + r * \hc + 4>> = a
      BY DEF At, StagingCtrlAt, StagingBaseAt, StagingSizeAt
    <3>2. Put(<<"GLOBALSEC", \h270 + r * \hc + 4>>, word)
      BY <1>5 DEF stage_rx_region_bus
    <3>3. QED
      BY <1>4, <3>1, <3>2
  <2>4. Writable(a, word)
    BY Banked, Fits
  <2>5. a[1] = "GLOBALSEC" /\ a[2] \in \h270 .. \h2cc
    BY DEF At, StagingCtrlAt, StagingBaseAt, StagingSizeAt
  <2> HIDE DEF a, word
  <2>6. QED
    BY <1>3, <2>2, <2>3, <2>4, <2>5
<1>6. CASE n = 1
  <2> DEFINE a == StagingSizeAt(r)
             word == Lo(staging'[r].size)
  <2>1. staging'[r].ctrl = staging[r].ctrl /\ staging'[r].base = staging[r].base
    BY <1>6 DEF stage_rx_region, Window
  <2>2. Holds(Written(bus, a, word), StagingBanks(staging'))
    BY <1>s, <2>1
  <2>3. bus' = Written(bus, a, word)
    <3>1. <<"GLOBALSEC", \h270 + r * \hc + 8>> = a
      BY DEF At, StagingCtrlAt, StagingBaseAt, StagingSizeAt
    <3>2. Put(<<"GLOBALSEC", \h270 + r * \hc + 8>>, word)
      BY <1>6 DEF stage_rx_region_bus
    <3>3. QED
      BY <1>4, <3>1, <3>2
  <2>4. Writable(a, word)
    BY Banked, Fits
  <2>5. a[1] = "GLOBALSEC" /\ a[2] \in \h270 .. \h2cc
    BY DEF At, StagingCtrlAt, StagingBaseAt, StagingSizeAt
  <2> HIDE DEF a, word
  <2>6. QED
    BY <1>3, <2>2, <2>3, <2>4, <2>5
<1>7. CASE n = 2
  <2> DEFINE a == StagingCtrlAt(r)
             word == Lo(staging'[r].ctrl)
  <2>1. staging'[r].size = staging[r].size /\ staging'[r].base = staging[r].base
        /\ staging'[r].ctrl = 3
    BY <1>7 DEF stage_rx_region, Window
  <2>2. Holds(Written(bus, a, word), StagingBanks(staging'))
    BY <1>s, <2>1
  <2>3. bus' = Written(bus, a, word)
    <3>1. <<"GLOBALSEC", \h270 + r * \hc>> = a
      BY DEF At, StagingCtrlAt, StagingBaseAt, StagingSizeAt
    <3>2. Put(<<"GLOBALSEC", \h270 + r * \hc>>, word)
      BY <1>7 DEF stage_rx_region_bus
    <3>3. QED
      BY <1>4, <3>1, <3>2
  <2>4. Writable(a, word)
    BY <2>1, Banked, Fits
  <2>5. a[1] = "GLOBALSEC" /\ a[2] \in \h270 .. \h2cc
    BY DEF At, StagingCtrlAt, StagingBaseAt, StagingSizeAt
  <2> HIDE DEF a, word
  <2>6. QED
    BY <1>3, <2>2, <2>3, <2>4, <2>5
<1>8. QED
  BY <1>5, <1>6, <1>7 DEF stage_rx_region

(* A write to one register: each bank is untouched, or agrees again.  *)
LEMMA OneWrite ==
    ASSUME Registered, Shapes, NEW a, NEW word, bus' = Written(bus, a, word), Writable(a, word),
           \/ staging' = staging /\ (a[1] # "GLOBALSEC" \/ a[2] \notin \h270 .. \h2cc)
           \/ Holds(bus', StagingBanks(staging')),
           \/ /\ region' = region
              /\ a[1] # "GLOBALSEC" \/ a[2] \notin (\he0 .. \hfc) \cup (\h230 .. \h26c)
           \/ Holds(bus', RegionBanks(region')),
           \/ perm' = perm /\ (a[1] # "GLOBALSEC" \/ a[2] \notin \h2d0 .. \h2dc)
           \/ Holds(bus', PermBank(perm')),
           \/ fwr' = fwr /\ (a[1] # "KEYMGR" \/ a[2] \notin \h3100 .. \h311c)
           \/ Holds(bus', FwrBank(fwr')),
           \/ keymgr' = keymgr /\ (a[1] # "KEYMGR" \/ a[2] \notin \h3120 .. \h3128)
           \/ Holds(bus', KeymgrBank(keymgr')),
           \/ guard' = guard /\ (a[1] # "GLOBALSEC" \/ a[2] \notin 0 .. 8)
           \/ Holds(bus', GuardBank(guard')),
           (VtorBank' = VtorBank /\ a # VtorAt) \/ Holds(bus', VtorBank'),
           (SetUpBank' = SetUpBank /\ a \notin Shared) \/ Holds(bus', SetUpBank'),
           (UartBank' = UartBank /\ a[1] \notin {"PINMUX", "UART"}) \/ Holds(bus', UartBank')
    PROVE  Registered'
BY Elsewhere DEF Registered

LEMMA PutWrites == ASSUME NEW a, NEW word, Put(a, word) PROVE bus' = Written(bus, a, word)
BY DEF Put, Written

(* jump.c, function by function. *)
LEMMA SetRunlevelWrite ==
    ASSUME Registered, Shapes, perm \in [0 .. 3 -> {PERMISSION_MEDIUM, PERMISSION_HIGHEST}],
           n \in 0 .. 3, UNCHANGED <<at, k, found>>, set_runlevel, set_runlevel_bus
    PROVE  Registered'
<1> DEFINE a == <<"GLOBALSEC", \h2d0 + 4 * n>>
           word == Lo(perm'[n])
<1>1. bus' = Written(bus, a, word)
  <2>1. a = <<"GLOBALSEC", <<\h2d0, \h2d4, \h2d8, \h2dc>>[n + 1]>>
    OBVIOUS
  <2>2. QED
    BY <2>1, PutWrites DEF set_runlevel_bus
<1>2. Writable(a, word)
  <2>1. Writable(a, Bit)
    BY Banked
  <2> HIDE DEF a
  <2>2. QED
    BY <2>1, Fits
<1>3. Holds(bus', PermBank(perm'))
  <2> DEFINE off == \h2d0
             step == 4
             i == n
  <2>1. /\ DOMAIN perm = DOMAIN perm' /\ DOMAIN perm' = 0 .. 3
        /\ \A j \in DOMAIN perm' : j # i => perm'[j] = perm[j]
        /\ \A j \in DOMAIN perm' : j # i => off + step * j # off + step * i
        /\ off \in Nat /\ step \in Nat /\ i \in DOMAIN perm'
    BY DEF set_runlevel
  <2>2. Holds(bus, Bank("GLOBALSEC", off, step, perm))
    BY DEF Registered, PermBank
  <2>3. \A w : PermBank(w) = Bank("GLOBALSEC", off, step, w)
    BY DEF PermBank
  <2>4. a = <<"GLOBALSEC", off + step * i>> /\ word = Lo(perm'[i])
    OBVIOUS
  <2> HIDE DEF off, step, i, a, word
  <2>5. Holds(Written(bus, <<"GLOBALSEC", off + step * i>>, Lo(perm'[i])),
            Bank("GLOBALSEC", off, step, perm'))
    BY <2>1, <2>2, BankWritten
  <2>6. QED
    BY <1>1, <2>3, <2>4, <2>5
<1>4. /\ staging' = staging /\ region' = region /\ fwr' = fwr /\ keymgr' = keymgr /\ guard' = guard
      /\ SetUpBank' = SetUpBank /\ UartBank' = UartBank /\ VtorBank' = VtorBank
  BY SameProgress DEF set_runlevel
<1>5. /\ a[1] = "GLOBALSEC" /\ a[2] \in \h2d0 .. \h2dc /\ a # VtorAt /\ a \notin Shared
  BY DEF VtorAt, Shared
<1> HIDE DEF a, word
<1>6. QED
  BY <1>1, <1>2, <1>3, <1>4, <1>5, OneWrite

LEMMA DisarmWrite ==
    ASSUME Registered, Shapes, guard \in [0 .. 2 -> 0 .. 7], n \in 0 .. 2,
           UNCHANGED <<at, k, found>>, disarm_ram_guards, disarm_ram_guards_bus
    PROVE  Registered'
<1> DEFINE a == <<"GLOBALSEC", 4 * n>>
           word == Lo(guard'[n])
<1>1. bus' = Written(bus, a, word)
  <2>1. a = <<"GLOBALSEC", \h0 + 4 * n>>
    OBVIOUS
  <2>2. QED
    BY <2>1, PutWrites DEF disarm_ram_guards_bus
<1>2. Writable(a, word)
  <2>1. Writable(a, {0, 1, 2})
    BY Banked
  <2>2. guard'[n] = 7
    BY DEF disarm_ram_guards
  <2> HIDE DEF a
  <2>3. QED
    BY <2>1, <2>2, Fits
<1>3. Holds(bus', GuardBank(guard'))
  <2> DEFINE off == 0
             step == 4
             i == n
  <2>1. /\ DOMAIN guard = DOMAIN guard' /\ DOMAIN guard' = 0 .. 2
        /\ \A j \in DOMAIN guard' : j # i => guard'[j] = guard[j]
        /\ \A j \in DOMAIN guard' : j # i => off + step * j # off + step * i
        /\ off \in Nat /\ step \in Nat /\ i \in DOMAIN guard'
    BY DEF disarm_ram_guards
  <2>2. Holds(bus, Bank("GLOBALSEC", off, step, guard))
    BY DEF Registered, GuardBank
  <2>3. \A w : GuardBank(w) = Bank("GLOBALSEC", off, step, w)
    BY DEF GuardBank
  <2>4. a = <<"GLOBALSEC", off + step * i>> /\ word = Lo(guard'[i])
    OBVIOUS
  <2> HIDE DEF off, step, i, a, word
  <2>5. Holds(Written(bus, <<"GLOBALSEC", off + step * i>>, Lo(guard'[i])),
            Bank("GLOBALSEC", off, step, guard'))
    BY <2>1, <2>2, BankWritten
  <2>6. QED
    BY <1>1, <2>3, <2>4, <2>5
<1>4. /\ staging' = staging /\ region' = region /\ fwr' = fwr /\ keymgr' = keymgr /\ perm' = perm
      /\ SetUpBank' = SetUpBank /\ UartBank' = UartBank /\ VtorBank' = VtorBank
  BY SameProgress DEF disarm_ram_guards
<1>5. /\ a[1] = "GLOBALSEC" /\ a[2] \in 0 .. 8 /\ a # VtorAt /\ a \notin Shared
  BY DEF VtorAt, Shared
<1> HIDE DEF a, word
<1>6. QED
  BY <1>1, <1>2, <1>3, <1>4, <1>5, OneWrite

LEMMA ProtectWrite ==
    ASSUME Registered, Shapes, region \in [0 .. 7 -> Window], UNCHANGED <<at, k, found>>,
           protect_flash_region, protect_flash_region_bus
    PROVE  Registered'
<1>1. /\ staging' = staging /\ perm' = perm /\ fwr' = fwr /\ keymgr' = keymgr /\ guard' = guard
      /\ SetUpBank' = SetUpBank /\ UartBank' = UartBank /\ VtorBank' = VtorBank
  BY SameProgress DEF protect_flash_region
<1>2. \A j \in 0 .. 7 : j # 1 => region'[j] = region[j]
  BY DEF protect_flash_region, Window
<1>3. ASSUME NEW a, NEW word, bus' = Written(bus, a, word), Writable(a, word),
             a[1] = "GLOBALSEC", a[2] \in {\he4, \h238, \h23c},
             Holds(Written(bus, a, word), RegionBanks(region'))
      PROVE  Registered'
  <2>1. a # VtorAt /\ a \notin Shared
    BY <1>3 DEF VtorAt, Shared
  <2>2. a[2] \notin \h270 .. \h2cc /\ a[2] \notin \h2d0 .. \h2dc /\ a[2] \notin 0 .. 8
    BY <1>3
  <2>3. QED
    BY <1>1, <1>3, <2>1, <2>2, OneWrite
<1>w. Holds(bus, RegionBanks(region)) /\ 1 \in 0 .. 7
  BY DEF Registered
<1>s. \A r \in 0 .. 7 : r = 1 =>
      /\ region'[r].base = region[r].base /\ region'[r].size = region[r].size =>
            Holds(Written(bus, RegionCtrlAt(r), Lo(region'[r].ctrl)), RegionBanks(region'))
      /\ region'[r].ctrl = region[r].ctrl /\ region'[r].size = region[r].size =>
            Holds(Written(bus, RegionBaseAt(r), Lo(region'[r].base)), RegionBanks(region'))
      /\ region'[r].ctrl = region[r].ctrl /\ region'[r].base = region[r].base =>
            Holds(Written(bus, RegionSizeAt(r), Lo(region'[r].size)), RegionBanks(region'))
  BY <1>2, <1>w, RegionWritten
<1>5. CASE n = 0
  <2> DEFINE a == RegionBaseAt(1)
             word == Lo(region'[1].base)
  <2>1. region'[1].ctrl = region[1].ctrl /\ region'[1].size = region[1].size
    BY <1>5 DEF protect_flash_region, Window
  <2>2. Holds(Written(bus, a, word), RegionBanks(region'))
    BY <1>s, <1>w, <2>1
  <2>3. bus' = Written(bus, a, word)
    <3>1. <<"GLOBALSEC", \h230 + 1 * 8>> = a
      BY DEF At, RegionBaseAt
    <3>2. Put(<<"GLOBALSEC", \h230 + 1 * 8>>, word)
      BY <1>5 DEF protect_flash_region_bus
    <3>3. QED
      BY <3>1, <3>2, PutWrites
  <2>4. Writable(a, word)
    BY <1>w, Banked, Fits
  <2>5. a[1] = "GLOBALSEC" /\ a[2] \in {\he4, \h238, \h23c}
    BY DEF At, RegionBaseAt
  <2> HIDE DEF a, word
  <2>6. QED
    BY <1>3, <2>2, <2>3, <2>4, <2>5
<1>6. CASE n = 1
  <2> DEFINE a == RegionSizeAt(1)
             word == Lo(region'[1].size)
  <2>1. region'[1].ctrl = region[1].ctrl /\ region'[1].base = region[1].base
    BY <1>6 DEF protect_flash_region, Window
  <2>2. Holds(Written(bus, a, word), RegionBanks(region'))
    BY <1>s, <1>w, <2>1
  <2>3. bus' = Written(bus, a, word)
    <3>1. <<"GLOBALSEC", \h230 + 1 * 8 + 4>> = a
      BY DEF At, RegionSizeAt
    <3>2. Put(<<"GLOBALSEC", \h230 + 1 * 8 + 4>>, word)
      BY <1>6 DEF protect_flash_region_bus
    <3>3. QED
      BY <3>1, <3>2, PutWrites
  <2>4. Writable(a, word)
    BY <1>w, Banked, Fits
  <2>5. a[1] = "GLOBALSEC" /\ a[2] \in {\he4, \h238, \h23c}
    BY DEF At, RegionSizeAt
  <2> HIDE DEF a, word
  <2>6. QED
    BY <1>3, <2>2, <2>3, <2>4, <2>5
<1>7. CASE n = 2
  <2> DEFINE a == RegionCtrlAt(1)
             word == Lo(region'[1].ctrl)
  <2>1. region'[1].base = region[1].base /\ region'[1].size = region[1].size /\ region'[1].ctrl = 3
    BY <1>7 DEF protect_flash_region, Window
  <2>2. Holds(Written(bus, a, word), RegionBanks(region'))
    BY <1>s, <1>w, <2>1
  <2>3. bus' = Written(bus, a, word)
    <3>1. <<"GLOBALSEC", \he0 + 1 * 4>> = a
      BY DEF At, RegionCtrlAt
    <3>2. Put(<<"GLOBALSEC", \he0 + 1 * 4>>, word)
      BY <1>7 DEF protect_flash_region_bus
    <3>3. QED
      BY <3>1, <3>2, PutWrites
  <2>4. Writable(a, word)
    BY <1>w, <2>1, Banked, Fits
  <2>5. a[1] = "GLOBALSEC" /\ a[2] \in {\he4, \h238, \h23c}
    BY DEF At, RegionCtrlAt
  <2> HIDE DEF a, word
  <2>6. QED
    BY <1>3, <2>2, <2>3, <2>4, <2>5
<1>8. QED
  BY <1>5, <1>6, <1>7 DEF protect_flash_region

LEMMA FwrWrite ==
    ASSUME Registered, Shapes, DOMAIN fwr = 0 .. 7,
           keymgr \in [major : TagWord, vld : {1, 2}, lock : {0, 1}],
           n \in 0 .. 9, UNCHANGED <<at, k, found>>, set_fwr, set_fwr_bus
    PROVE  Registered'
<1>1. /\ staging' = staging /\ region' = region /\ perm' = perm /\ guard' = guard
      /\ SetUpBank' = SetUpBank /\ UartBank' = UartBank /\ VtorBank' = VtorBank
  BY SameProgress DEF set_fwr
<1>2. ASSUME NEW i \in 0 .. 7, Put(<<"KEYMGR", \h3100 + 4 * i>>, Lo(fwr'[i])), keymgr' = keymgr,
             fwr' = [fwr EXCEPT ![i] = fwr'[i]]
      PROVE  Registered'
  <2> DEFINE a == <<"KEYMGR", \h3100 + 4 * i>>
             word == Lo(fwr'[i])
  <2>1. bus' = Written(bus, a, word)
    BY <1>2, PutWrites
  <2>2. Writable(a, word)
    <3>1. Writable(a, Bit)
      BY Banked
    <3> HIDE DEF a
    <3>2. QED
      BY <3>1, Fits
  <2>3. Holds(bus', FwrBank(fwr'))
    <3> DEFINE off == \h3100
               step == 4
    <3>1. /\ DOMAIN fwr = DOMAIN fwr' /\ DOMAIN fwr' = 0 .. 7
          /\ \A j \in DOMAIN fwr' : j # i => fwr'[j] = fwr[j]
          /\ \A j \in DOMAIN fwr' : j # i => off + step * j # off + step * i
          /\ off \in Nat /\ step \in Nat /\ i \in DOMAIN fwr'
      BY <1>2
    <3>2. Holds(bus, Bank("KEYMGR", off, step, fwr))
      BY DEF Registered, FwrBank
    <3>3. \A w : FwrBank(w) = Bank("KEYMGR", off, step, w)
      BY DEF FwrBank
    <3>4. a = <<"KEYMGR", off + step * i>>
      OBVIOUS
    <3> HIDE DEF off, step, a
    <3>5. Holds(Written(bus, <<"KEYMGR", off + step * i>>, word), Bank("KEYMGR", off, step, fwr'))
      BY <3>1, <3>2, BankWritten
    <3>6. QED
      BY <2>1, <3>3, <3>4, <3>5
  <2>4. a[1] = "KEYMGR" /\ a[2] \notin \h3120 .. \h3128 /\ a # VtorAt /\ a \notin Shared
    BY DEF VtorAt, Shared
  <2> HIDE DEF a, word
  <2>5. QED
    BY <1>1, <1>2, <2>1, <2>2, <2>3, <2>4, OneWrite
<1>3. ASSUME NEW a, NEW word, Put(a, word), Writable(a, Bit), word \subseteq Bit,
             a[1] = "KEYMGR", a[2] \in {\h3120, \h3124, \h3128}, fwr' = fwr,
             \A e \in KeymgrBank(keymgr') :
                IF e[1] = a THEN e[2] = word ELSE e \in KeymgrBank(keymgr)
      PROVE  Registered'
  <2>1. bus' = Written(bus, a, word)
    BY <1>3, PutWrites
  <2>2. Writable(a, word)
    BY <1>3 DEF Writable
  <2>3. Holds(bus', KeymgrBank(keymgr'))
    <3>1. Holds(bus, KeymgrBank(keymgr))
      BY DEF Registered
    <3>2. QED
      BY <1>3, <2>1, <3>1 DEF Holds, In, Written
  <2>4. a[2] \notin \h3100 .. \h311c /\ a # VtorAt /\ a \notin Shared
    BY <1>3 DEF VtorAt, Shared
  <2>5. QED
    BY <1>1, <1>3, <2>1, <2>2, <2>3, <2>4, OneWrite
<1>4. CASE n < 6
  <2>1. Put(<<"KEYMGR", \h3100 + 4 * n>>, Lo(fwr'[n]))
    <3>1. n # 6 /\ n # 7 /\ n # 8 /\ n # 9
      BY <1>4
    <3>2. QED
      BY <1>4, <3>1 DEF set_fwr_bus
  <2>2. keymgr' = keymgr /\ fwr' = [fwr EXCEPT ![n] = fwr'[n]]
    BY <1>4 DEF set_fwr
  <2>3. n \in 0 .. 7
    BY <1>4
  <2>4. QED
    BY <1>2, <2>1, <2>2, <2>3
<1>5. CASE n = 6
  <2>1. Put(<<"KEYMGR", \h311c>>, Lo(fwr'[7]))
    BY <1>5 DEF set_fwr_bus
  <2>2. keymgr' = keymgr /\ fwr' = [fwr EXCEPT ![7] = fwr'[7]]
    BY <1>5 DEF set_fwr
  <2>3. <<"KEYMGR", \h311c>> = <<"KEYMGR", \h3100 + 4 * 7>> /\ 7 \in 0 .. 7
    OBVIOUS
  <2>4. QED
    BY <1>2, <2>1, <2>2, <2>3
<1>6. CASE n = 7
  <2> DEFINE a == <<"KEYMGR", \h3124>>
             word == Lo(keymgr'.major)
  <2>1. Put(a, word)
    BY <1>6 DEF set_fwr_bus
  <2>2. keymgr'.vld = keymgr.vld /\ keymgr'.lock = keymgr.lock /\ fwr' = fwr
    BY <1>6 DEF set_fwr
  <2>3. \A e \in KeymgrBank(keymgr') : IF e[1] = a THEN e[2] = word ELSE e \in KeymgrBank(keymgr)
    BY <2>2 DEF KeymgrBank
  <2>4. /\ Writable(a, Bit) /\ word \subseteq Bit
        /\ a[1] = "KEYMGR" /\ a[2] \in {\h3120, \h3124, \h3128}
    BY Banked, LoBits
  <2> HIDE DEF a, word
  <2>5. QED
    BY <1>3, <2>1, <2>2, <2>3, <2>4
<1>7. CASE n = 8
  <2> DEFINE a == <<"KEYMGR", \h3120>>
             word == Lo(keymgr'.vld)
  <2>1. Put(a, word)
    BY <1>7 DEF set_fwr_bus
  <2>2. keymgr'.major = keymgr.major /\ keymgr'.lock = keymgr.lock /\ fwr' = fwr
    BY <1>7 DEF set_fwr
  <2>3. \A e \in KeymgrBank(keymgr') : IF e[1] = a THEN e[2] = word ELSE e \in KeymgrBank(keymgr)
    BY <2>2 DEF KeymgrBank
  <2>4. /\ Writable(a, Bit) /\ word \subseteq Bit
        /\ a[1] = "KEYMGR" /\ a[2] \in {\h3120, \h3124, \h3128}
    BY Banked, LoBits
  <2> HIDE DEF a, word
  <2>5. QED
    BY <1>3, <2>1, <2>2, <2>3, <2>4
<1>8. CASE n = 9
  <2> DEFINE a == <<"KEYMGR", \h3128>>
             word == Lo(keymgr'.lock)
  <2>1. Put(a, word)
    BY <1>8 DEF set_fwr_bus
  <2>2. keymgr'.major = keymgr.major /\ keymgr'.vld = keymgr.vld /\ fwr' = fwr
    BY <1>8 DEF set_fwr
  <2>3. \A e \in KeymgrBank(keymgr') : IF e[1] = a THEN e[2] = word ELSE e \in KeymgrBank(keymgr)
    BY <2>2 DEF KeymgrBank
  <2>4. /\ Writable(a, Bit) /\ word \subseteq Bit
        /\ a[1] = "KEYMGR" /\ a[2] \in {\h3120, \h3124, \h3128}
    BY Banked, LoBits
  <2> HIDE DEF a, word
  <2>5. QED
    BY <1>3, <2>1, <2>2, <2>3, <2>4
<1>9. QED
  BY <1>4, <1>5, <1>6, <1>7, <1>8

(* VTOR holds an image's vectors from the jump on only. *)
VtorLate == vtor # 0 => at = "called" /\ (pc = "launched" \/ (pc = "_jump_to_address" /\ n = 1))

LEMMA JumpWrite ==
    ASSUME Registered, Shapes, call = RwACall, n \in 0 .. 1, UNCHANGED <<at, k, found>>,
           _jump_to_address, _jump_to_address_bus
    PROVE  Registered'
<1>1. /\ staging' = staging /\ region' = region /\ perm' = perm /\ guard' = guard
      /\ fwr' = fwr /\ keymgr' = keymgr /\ SetUpBank' = SetUpBank /\ UartBank' = UartBank
  BY SameProgress DEF _jump_to_address
<1>2. CASE n = 0
  <2>1. vtor' # 0
    <3>1. /\ RW_A_BASE \in Nat /\ RW_A_BASE > 0 /\ HeaderSize \in Nat
          /\ RW_A_BASE + HeaderSize < WordSize
      BY SlotFacts, RwAFacts, LayoutFacts, SignedHeaderAssumption
      DEF RW_A_BASE, RO_A_BASE, RO_B_BASE, RW_B_BASE, RwSize
    <3>2. vtor' = WAdd(RW_A_BASE, HeaderSize)
      BY <1>2, RwAFacts DEF _jump_to_address
    <3>3. QED
      BY <3>1, <3>2 DEF WAdd
  <2>2. bus' = Written(bus, VtorAt, Lo(vtor'))
    BY <1>2, PutWrites DEF _jump_to_address_bus, VtorAt
  <2>3. Holds(bus', VtorBank')
    <3>1. VtorBank' = {<<VtorAt, Lo(vtor')>>}
      BY <2>1 DEF VtorBank, VtorAt
    <3>2. QED
      BY <2>2, <3>1, There DEF Holds
  <2>4. Writable(VtorAt, Lo(vtor'))
    BY Banked, Fits
  <2>5. VtorAt[1] = "M3" /\ VtorAt \notin Shared
    BY DEF VtorAt, Shared
  <2>6. QED
    BY <1>1, <2>2, <2>3, <2>4, <2>5, OneWrite
<1>3. CASE n = 1
  <2>1. Quiet /\ UNCHANGED registers /\ VtorBank' = VtorBank
    BY <1>1, <1>3, SameProgress DEF _jump_to_address, _jump_to_address_bus, registers
  <2>2. QED
    BY <1>1, <2>1, QuietStep
<1>4. QED
  BY <1>2, <1>3

-----------------------------------------------------------------------------
(* The loader's own start. *)
LEMMA ResetWrite ==
    ASSUME Registered, Shapes, vtor = 0, k \in 0 .. 1, found' = found, bss_loop, reset_bus
    PROVE  Registered'
<1>1. /\ staging' = staging /\ region' = region /\ perm' = perm /\ guard' = guard
      /\ fwr' = fwr /\ keymgr' = keymgr /\ vtor' = vtor
  BY DEF bss_loop, registers
<1>2. SetUpBank' = SetUpBank /\ UartBank' = UartBank
  <2>1. \A j \in 0 .. 7 : /\ ~Done("init_cpu", j) /\ ~Done("init_uart", j)
                          /\ ~Done("init_cpu", j)' /\ ~Done("init_uart", j)'
    BY DEF bss_loop, Proceed, Done, Rank
  <2>2. SetUpBank' = SetUpBank
    BY <2>1 DEF SetUpBank
  <2>3. UartBank = {} /\ UartBank' = {}
    BY <2>1 DEF UartBank
  <2>4. QED
    BY <2>2, <2>3
<1>3. CASE k = 0
  <2>1. Done("reset", 0)'
    BY <1>3 DEF bss_loop, Proceed, Done, Rank
  <2>2. bus' = Written(bus, VtorAt, Lo(VectorsAt))
    BY <1>3, PutWrites DEF reset_bus, VtorAt
  <2>3. Holds(bus', VtorBank')
    <3>1. VtorBank' = {<<VtorAt, Lo(VectorsAt)>>}
      BY <1>1, <2>1 DEF VtorBank, VtorAt
    <3>2. QED
      BY <2>2, <3>1, There DEF Holds
  <2>4. Writable(VtorAt, Lo(VectorsAt))
    BY Banked, Fits
  <2>5. VtorAt[1] = "M3" /\ VtorAt \notin Shared
    BY DEF VtorAt, Shared
  <2>6. QED
    BY <1>1, <1>2, <2>2, <2>3, <2>4, <2>5, OneWrite
<1>4. CASE k = 1
  <2>1. Done("reset", 0) /\ Done("reset", 0)'
    BY <1>4 DEF bss_loop, Proceed, Done, Rank
  <2>2. VtorBank' = VtorBank
    BY <1>1, <2>1 DEF VtorBank
  <2>3. Quiet /\ UNCHANGED registers
    BY <1>4 DEF reset_bus, bss_loop
  <2>4. QED
    BY <1>2, <2>2, <2>3, QuietStep
<1>5. QED
  BY <1>3, <1>4

(* What the registers shared with the stage before hold. *)
LEMMA SetUpWords ==
    ASSUME Registered
    PROVE  /\ Done("init_cpu", 0) => In(bus, <<"M3", \hedfc>>) = found[<<"M3", \hedfc>>] \cup {24}
           /\ ~Done("init_cpu", 0) => In(bus, <<"M3", \hedfc>>) = found[<<"M3", \hedfc>>]
           /\ Done("init_cpu", 1) => In(bus, <<"M3", \h1000>>) = found[<<"M3", \h1000>>] \cup {0}
           /\ ~Done("init_cpu", 1) => In(bus, <<"M3", \h1000>>) = found[<<"M3", \h1000>>]
           /\ Done("init_uart", 0) => In(bus, <<"PMU", \h6c>>) = found[<<"PMU", \h6c>>] \cup {5}
           /\ ~Done("init_uart", 0) => In(bus, <<"PMU", \h6c>>) = found[<<"PMU", \h6c>>]
<1> DEFINE c == <<"M3", \hedfc>>
           d == <<"M3", \h1000>>
           p == <<"PMU", \h6c>>
           ce == <<c, found[c] \cup (IF Done("init_cpu", 0) THEN {24} ELSE {})>>
           de == <<d, found[d] \cup (IF Done("init_cpu", 1) THEN {0} ELSE {})>>
           pe == <<p, found[p] \cup (IF Done("init_uart", 0) THEN {5} ELSE {})>>
<1>1. ce \in SetUpBank /\ de \in SetUpBank /\ pe \in SetUpBank
  BY DEF SetUpBank
<1>2. /\ ce[1] = c /\ de[1] = d /\ pe[1] = p
      /\ ce[2] = found[c] \cup (IF Done("init_cpu", 0) THEN {24} ELSE {})
      /\ de[2] = found[d] \cup (IF Done("init_cpu", 1) THEN {0} ELSE {})
      /\ pe[2] = found[p] \cup (IF Done("init_uart", 0) THEN {5} ELSE {})
  OBVIOUS
<1> HIDE DEF ce, de, pe, c, d, p
<1>3. In(bus, ce[1]) = ce[2] /\ In(bus, de[1]) = de[2] /\ In(bus, pe[1]) = pe[2]
  BY <1>1 DEF Registered, Holds
<1>4. \A s : s \cup {} = s
  OBVIOUS
<1>5. /\ In(bus, c) = found[c] \cup (IF Done("init_cpu", 0) THEN {24} ELSE {})
      /\ In(bus, d) = found[d] \cup (IF Done("init_cpu", 1) THEN {0} ELSE {})
      /\ In(bus, p) = found[p] \cup (IF Done("init_uart", 0) THEN {5} ELSE {})
  BY <1>2, <1>3
<1>6. /\ Done("init_cpu", 0) => In(bus, c) = found[c] \cup {24}
      /\ ~Done("init_cpu", 0) => In(bus, c) = found[c]
      /\ Done("init_cpu", 1) => In(bus, d) = found[d] \cup {0}
      /\ ~Done("init_cpu", 1) => In(bus, d) = found[d]
      /\ Done("init_uart", 0) => In(bus, p) = found[p] \cup {5}
      /\ ~Done("init_uart", 0) => In(bus, p) = found[p]
  BY <1>4, <1>5
<1>7. QED
  BY <1>6 DEF c, d, p

(* What the loader's start does to the banks of the launcher: nothing.  *)
LEMMA CpuWrite ==
    ASSUME Registered, Shapes, found \in Leftovers, k \in 0 .. 1, found' = found,
           init_cpu, init_cpu_bus
    PROVE  Registered'
<1>1. /\ staging' = staging /\ region' = region /\ perm' = perm /\ guard' = guard
      /\ fwr' = fwr /\ keymgr' = keymgr /\ vtor' = vtor
  BY DEF init_cpu, vars, registers
<1>2. Done("reset", 0) /\ Done("reset", 0)'
  BY DEF init_cpu, Proceed, Done, Rank
<1>3. \A j \in 0 .. 7 : ~Done("init_uart", j) /\ ~Done("init_uart", j)'
  BY DEF init_cpu, Proceed, Done, Rank
<1>4. VtorBank' = VtorBank /\ UartBank' = UartBank
  <2>1. VtorBank' = VtorBank
    BY <1>1, <1>2 DEF VtorBank
  <2>2. UartBank = {} /\ UartBank' = {}
    BY <1>3 DEF UartBank
  <2>3. QED
    BY <2>1, <2>2
<1>5. ~Done("init_uart", 0)
  BY <1>3
<1>6. /\ found[<<"M3", \hedfc>>] \subseteq Implemented(<<"M3", \hedfc>>)
      /\ found[<<"M3", \h1000>>] \subseteq Implemented(<<"M3", \h1000>>)
  BY BootBusAssumption DEF Shared
<1>7. ASSUME NEW old, NEW bit \in Nat
      PROVE  field_written(old, <<bit, 1>>, Lo(1)) = old \cup {bit}
  <2>1. Lo(1) = {0}
    BY SetUpRegistersAssumption
  <2>2. Mask(<<bit, 1>>) = {bit} /\ Shifted({0}, <<bit, 1>>) = {bit}
    BY DEF Mask, Shifted
  <2>3. QED
    BY <2>1, <2>2 DEF field_written
<1>8. \A a : Read(a) = In(bus, a)
  BY DEF Read, In
<1>9. ASSUME NEW a, NEW word, Put(a, word), a \in Shared, Exists(a), word \subseteq Implemented(a),
             Holds(Written(bus, a, word), SetUpBank')
      PROVE  Registered'
  <2>1. bus' = Written(bus, a, word)
    BY <1>9, PutWrites
  <2>2. Writable(a, word)
    BY <1>9 DEF Writable, LoaderRegisters
  <2>3. a[1] \in {"M3", "PMU"} /\ a # VtorAt
    BY <1>9 DEF Shared, VtorAt
  <2>4. a[1] \notin {"GLOBALSEC", "KEYMGR", "PINMUX", "UART"}
    BY <2>3
  <2>5. QED
    BY <1>1, <1>4, <1>9, <2>1, <2>2, <2>3, <2>4, OneWrite
<1>10. CASE k = 0
  <2> DEFINE a == <<"M3", \hedfc>>
             word == found[a] \cup {24}
  <2>1. Done("init_cpu", 0)' /\ ~Done("init_cpu", 0) /\ ~Done("init_cpu", 1)
        /\ ~Done("init_cpu", 1)'
        /\ ~Done("init_uart", 0)'
    BY <1>10 DEF init_cpu, Proceed, Done, Rank
  <2>2. Put(a, word)
    <3>1. Put(a, field_written(Read(a), <<24, 1>>, Lo(1)))
      BY <1>10 DEF init_cpu_bus
    <3>2. Read(a) = found[a]
      BY <1>8, <2>1, SetUpWords
    <3>3. QED
      BY <1>7, <3>1, <3>2
  <2>3. Exists(a) /\ word \subseteq Implemented(a) /\ a \in Shared
    BY <1>6, SetUpRegistersAssumption DEF Shared
  <2>4. Holds(Written(bus, a, word), SetUpBank')
    <3>1. SetUpBank' = {<<a, word>>, <<<<"M3", \h1000>>, found[<<"M3", \h1000>>]>>,
                        <<<<"PMU", \h6c>>, found[<<"PMU", \h6c>>]>>}
      BY <2>1 DEF SetUpBank
    <3>2. In(bus, <<"M3", \h1000>>) = found[<<"M3", \h1000>>]
      BY <2>1, SetUpWords
    <3>3. In(Written(bus, a, word), <<"M3", \h1000>>) = found[<<"M3", \h1000>>]
          /\ In(Written(bus, a, word), <<"PMU", \h6c>>) = found[<<"PMU", \h6c>>]
      BY <1>5, <3>2, SetUpWords DEF In, Written
    <3>4. In(Written(bus, a, word), a) = word
      BY There
    <3> HIDE DEF a, word
    <3>5. QED
      BY <3>1, <3>3, <3>4 DEF Holds
  <2> HIDE DEF a, word
  <2>5. QED
    BY <1>9, <2>2, <2>3, <2>4
<1>11. CASE k = 1
  <2> DEFINE a == <<"M3", \h1000>>
             word == found[a] \cup {0}
  <2>1. Done("init_cpu", 0)' /\ Done("init_cpu", 0) /\ ~Done("init_cpu", 1) /\ Done("init_cpu", 1)'
        /\ ~Done("init_uart", 0)'
    BY <1>11 DEF init_cpu, Proceed, Done, Rank
  <2>2. Put(a, word)
    <3>1. Put(a, field_written(Read(a), <<0, 1>>, Lo(1)))
      BY <1>11 DEF init_cpu_bus
    <3>2. Read(a) = found[a]
      BY <1>8, <2>1, SetUpWords
    <3>3. QED
      BY <1>7, <3>1, <3>2
  <2>3. Exists(a) /\ word \subseteq Implemented(a) /\ a \in Shared
    BY <1>6, SetUpRegistersAssumption DEF Shared
  <2>4. Holds(Written(bus, a, word), SetUpBank')
    <3> DEFINE c == <<"M3", \hedfc>>
               old == found[c] \cup {24}
    <3>1. SetUpBank' = {<<c, old>>, <<a, word>>, <<<<"PMU", \h6c>>, found[<<"PMU", \h6c>>]>>}
      BY <2>1 DEF SetUpBank
    <3>2. In(bus, c) = old
      BY <2>1, SetUpWords
    <3>3. In(Written(bus, a, word), c) = old
          /\ In(Written(bus, a, word), <<"PMU", \h6c>>) = found[<<"PMU", \h6c>>]
      BY <1>5, <3>2, SetUpWords DEF In, Written
    <3>4. In(Written(bus, a, word), a) = word
      BY There
    <3> HIDE DEF a, word, c, old
    <3>5. QED
      BY <3>1, <3>3, <3>4 DEF Holds
  <2> HIDE DEF a, word
  <2>5. QED
    BY <1>9, <2>2, <2>3, <2>4
<1>12. QED
  BY <1>10, <1>11

LEMMA UartStart ==
    ASSUME Registered, Shapes, found \in Leftovers, k \in 0 .. 7, found' = found,
           init_uart, init_uart_bus
    PROVE  Registered'
<1>1. /\ staging' = staging /\ region' = region /\ perm' = perm /\ guard' = guard
      /\ fwr' = fwr /\ keymgr' = keymgr /\ vtor' = vtor
  BY DEF init_uart, vars, registers
<1>2. /\ Done("reset", 0) /\ Done("reset", 0)'
      /\ Done("init_cpu", 0) /\ Done("init_cpu", 0)' /\ Done("init_cpu", 1) /\ Done("init_cpu", 1)'
      /\ Done("init_uart", 0)' /\ (Done("init_uart", 0) <=> k > 0)
  BY DEF init_uart, Proceed, Done, Rank
<1>3. \A j \in 2 .. 7 : (Done("init_uart", j) <=> j < k) /\ (Done("init_uart", j)' <=> j <= k)
  BY DEF init_uart, Proceed, Done, Rank
<1>4. VtorBank' = VtorBank
  BY <1>1, <1>2 DEF VtorBank
<1>5. CASE k = 0
  <2> DEFINE a == <<"PMU", \h6c>>
             word == found[a] \cup {5}
  <2>1. In(bus, a) = found[a]
    BY <1>2, <1>5, SetUpWords
  <2>2. Put(a, word)
    <3>1. Put(a, Read(a) \cup Lo(32))
      BY <1>5 DEF init_uart_bus
    <3>2. Read(a) = found[a] /\ Lo(32) = {5}
      BY <2>1, SetUpRegistersAssumption DEF Read, In
    <3>3. QED
      BY <3>1, <3>2
  <2>3. Writable(a, word) /\ a \in Shared /\ a # VtorAt
        /\ a[1] \notin {"GLOBALSEC", "KEYMGR", "PINMUX", "UART"}
    <3>1. a \in Shared
      BY DEF Shared
    <3>2. word \subseteq Implemented(a) /\ Exists(a)
      BY <3>1, SetUpRegistersAssumption, BootBusAssumption
    <3>3. QED
      BY <3>1, <3>2 DEF Writable, LoaderRegisters, VtorAt
  <2>4. Holds(Written(bus, a, word), SetUpBank')
    <3> DEFINE c == <<"M3", \hedfc>>
               old == found[c] \cup {24}
               d == <<"M3", \h1000>>
               low == found[d] \cup {0}
    <3>1. SetUpBank' = {<<c, old>>, <<d, low>>, <<a, word>>}
      BY <1>2 DEF SetUpBank
    <3>2. In(bus, c) = old /\ In(bus, d) = low
      BY <1>2, SetUpWords
    <3>3. In(Written(bus, a, word), c) = old /\ In(Written(bus, a, word), d) = low
      BY <3>2 DEF In, Written
    <3>4. In(Written(bus, a, word), a) = word
      BY There
    <3> HIDE DEF a, word, c, old, d, low
    <3>5. QED
      BY <3>1, <3>3, <3>4 DEF Holds
  <2>5. UartBank' = UartBank
    <3>1. UartBank = {} /\ UartBank' = {}
      BY <1>3, <1>5 DEF UartBank
    <3>2. QED
      BY <3>1
  <2>6. bus' = Written(bus, a, word)
    BY <2>2, PutWrites
  <2> HIDE DEF a, word
  <2>7. QED
    BY <1>1, <1>4, <2>3, <2>4, <2>5, <2>6, OneWrite
<1>6. CASE k # 0
  <2>1. SetUpBank' = SetUpBank
    BY <1>2, <1>6 DEF SetUpBank
  <2>2. CASE k = 1
    <3>1. UartBank = {} /\ UartBank' = {}
      BY <1>3, <2>2 DEF UartBank
    <3>2. Quiet /\ UNCHANGED registers
      BY <2>2 DEF init_uart_bus, init_uart, vars
    <3>3. QED
      BY <1>4, <2>1, <3>1, <3>2, QuietStep
  <2>3. CASE k \in 2 .. 7
    <3> DEFINE a == <<UartWrite[k][1], UartWrite[k][2]>>
               word == Lo(UartWrite[k][3])
    <3>1. bus' = Written(bus, a, word)
      BY <2>3, PutWrites DEF init_uart_bus
    <3>2. a \in UartSetUp
      BY <2>3 DEF UartSetUp
    <3>3. Writable(a, word)
      BY <2>3, <3>2, SetUpRegistersAssumption DEF Writable, LoaderRegisters
    <3>4. a[1] \in {"PINMUX", "UART"}
      BY <2>3 DEF UartWrite
    <3>5. a[1] \notin {"GLOBALSEC", "KEYMGR"} /\ a # VtorAt /\ a \notin Shared
      BY <3>4 DEF VtorAt, Shared
    <3>6. Holds(bus', UartBank')
      <4>1. \A j \in 2 .. 7 : j # k => <<UartWrite[j][1], UartWrite[j][2]>> # a
        BY <2>3 DEF UartWrite
      <4>2. SUFFICES ASSUME NEW j \in 2 .. 7, j <= k
                     PROVE  In(bus', <<UartWrite[j][1], UartWrite[j][2]>>) = Lo(UartWrite[j][3])
        BY <1>3 DEF Holds, UartBank
      <4>3. CASE j = k
        BY <3>1, <4>3, There
      <4>4. CASE j # k
        <5> DEFINE e == <<<<UartWrite[j][1], UartWrite[j][2]>>, Lo(UartWrite[j][3])>>
        <5>1. j < k
          BY <2>3, <4>2, <4>4
        <5>2. e \in UartBank
          BY <1>3, <5>1 DEF UartBank
        <5>3. In(bus, e[1]) = e[2]
          BY <5>2 DEF Registered, Holds
        <5>4. QED
          BY <3>1, <4>1, <4>4, <5>3 DEF In, Written
      <4>5. QED
        BY <4>3, <4>4
    <3> HIDE DEF a, word
    <3>7. QED
      BY <1>1, <1>4, <2>1, <3>1, <3>3, <3>4, <3>5, <3>6, OneWrite
  <2>4. QED
    BY <1>6, <2>2, <2>3
<1>7. QED
  BY <1>5, <1>6

(* The registers after a reset: the launcher's at their defaults.  *)
LEMMA FreshRegisters ==
    ASSUME NEW left \in Leftovers, NEW g \in [0 .. 2 -> 0 .. 7]
    PROVE  LET b == FromBefore(left, g) IN
           /\ Holds(b, StagingBanks(NoStaging)) /\ Holds(b, RegionBanks(NoRegion))
           /\ Holds(b, PermBank(ResetPerm)) /\ Holds(b, FwrBank(ResetFwr))
           /\ Holds(b, KeymgrBank(ResetKeymgr)) /\ Holds(b, GuardBank(g))
           /\ In(b, VtorAt) = Zero /\ \A a \in Shared : In(b, a) = left[a]
           /\ InTables(b)
<1> DEFINE b == FromBefore(left, g)
<1>1. DOMAIN b = Shared \cup GuardsAt
  BY DEF FromBefore
<1>2. \A a \in Shared : b[a] = left[a] /\ left[a] \subseteq Implemented(a) /\ Exists(a)
  BY BootBusAssumption, SetUpRegistersAssumption DEF FromBefore
<1>3. \A i \in 0 .. 2 : /\ <<"GLOBALSEC", 4 * i>> \in GuardsAt
                        /\ b[<<"GLOBALSEC", 4 * i>>] = Lo(g[i])
  <2> SUFFICES ASSUME NEW i \in 0 .. 2
               PROVE  /\ <<"GLOBALSEC", 4 * i>> \in GuardsAt
                      /\ b[<<"GLOBALSEC", 4 * i>>] = Lo(g[i])
    OBVIOUS
  <2> DEFINE a == <<"GLOBALSEC", 4 * i>>
  <2>1. a \in GuardsAt /\ a \notin Shared /\ a[2] = 4 * i /\ a[2] \div 4 = i
    BY DEF GuardsAt, Shared
  <2> HIDE DEF a
  <2>2. b[a] = Lo(g[i])
    BY <2>1 DEF FromBefore
  <2>3. QED
    BY <2>1, <2>2 DEF a
<1>4. \A e \in LauncherDefaults : e[1] \notin DOMAIN b
  <2>1. DOMAIN ResetPerm = 0 .. 3 /\ DOMAIN ResetFwr = 0 .. 7
    BY DEF ResetPerm, ResetFwr
  <2>2. \A e \in LauncherDefaults :
          \/ e[1][1] = "GLOBALSEC" /\ e[1][2] \in \he0 .. \h2dc
          \/ e[1][1] = "KEYMGR"
    <3>1. \A e \in StagingBanks(NoStaging) : e[1][1] = "GLOBALSEC" /\ e[1][2] \in \he0 .. \h2dc
      BY Where
    <3>2. \A e \in RegionBanks(NoRegion) : e[1][1] = "GLOBALSEC" /\ e[1][2] \in \he0 .. \h2dc
      BY Where
    <3>3. \A e \in PermBank(ResetPerm) : e[1][1] = "GLOBALSEC" /\ e[1][2] \in \he0 .. \h2dc
      BY <2>1, Where
    <3>4. \A e \in FwrBank(ResetFwr) \cup KeymgrBank(ResetKeymgr) : e[1][1] = "KEYMGR"
      BY <2>1, Where
    <3>5. QED
      BY <3>1, <3>2, <3>3, <3>4 DEF LauncherDefaults
  <2>3. \A a \in Shared \cup GuardsAt :
          a[1] \in {"PMU", "M3"} \/ (a[1] = "GLOBALSEC" /\ a[2] \in 0 .. 8)
    BY DEF Shared, GuardsAt
  <2>4. \A e \in LauncherDefaults : e[1] \notin Shared \cup GuardsAt
    <3>1. SUFFICES ASSUME NEW e \in LauncherDefaults, e[1] \in Shared \cup GuardsAt PROVE FALSE
      OBVIOUS
    <3> DEFINE a == e[1]
    <3>2. \/ a[1] = "GLOBALSEC" /\ a[2] \in \he0 .. \h2dc
          \/ a[1] = "KEYMGR"
      BY <2>2
    <3>3. a[1] \in {"PMU", "M3"} \/ (a[1] = "GLOBALSEC" /\ a[2] \in 0 .. 8)
      BY <2>3, <3>1
    <3> HIDE DEF a
    <3>4. QED
      BY <3>2, <3>3
  <2>5. QED
    BY <1>1, <2>4
<1>5. VtorAt \notin DOMAIN b
  BY <1>1 DEF VtorAt, Shared, GuardsAt
<1>6. InTables(b)
  <2>1. \A a \in Shared : Writable(a, b[a])
    BY <1>2 DEF Writable, LoaderRegisters
  <2>2. \A a \in GuardsAt : Writable(a, b[a])
    <3>1. \A i \in 0 .. 2 : Writable(<<"GLOBALSEC", 4 * i>>, {0, 1, 2})
      BY Banked
    <3>2. \A i \in 0 .. 2 : Lo(g[i]) \subseteq {0, 1, 2}
      BY LauncherRegistersAssumption
    <3>3. SUFFICES ASSUME NEW i \in 0 .. 2
                   PROVE  Writable(<<"GLOBALSEC", 4 * i>>, b[<<"GLOBALSEC", 4 * i>>])
      BY DEF GuardsAt
    <3> DEFINE a == <<"GLOBALSEC", 4 * i>>
    <3>4. Writable(a, {0, 1, 2}) /\ b[a] \subseteq {0, 1, 2}
      BY <1>3, <3>1, <3>2
    <3> HIDE DEF a, b
    <3>5. Writable(a, b[a])
      BY <3>4 DEF Writable
    <3>6. QED
      BY <3>5 DEF a
  <2> HIDE DEF b
  <2>3. QED
    BY <1>1, <2>1, <2>2 DEF InTables
<1>7. Holds(b, GuardBank(g))
  <2>1. SUFFICES ASSUME NEW i \in 0 .. 2 PROVE In(b, <<"GLOBALSEC", 4 * i>>) = Lo(g[i])
    <3>1. \A i \in 0 .. 2 : 0 + 4 * i = 4 * i
      OBVIOUS
    <3>2. DOMAIN g = 0 .. 2
      OBVIOUS
    <3> HIDE DEF b
    <3>3. QED
      BY <2>1, <3>1, <3>2 DEF Holds, GuardBank, Bank
  <2> DEFINE a == <<"GLOBALSEC", 4 * i>>
  <2>2. a \in DOMAIN b /\ b[a] = Lo(g[i])
    BY <1>1, <1>3
  <2> HIDE DEF a, b
  <2>3. In(b, a) = Lo(g[i])
    BY <2>2 DEF In
  <2>4. QED
    BY <2>3 DEF a
<1> HIDE DEF b
<1>8. In(b, VtorAt) = Zero /\ \A a \in Shared : In(b, a) = left[a]
  BY <1>1, <1>2, <1>5, LauncherRegistersAssumption DEF In
<1>9. /\ Holds(b, StagingBanks(NoStaging)) /\ Holds(b, RegionBanks(NoRegion))
      /\ Holds(b, PermBank(ResetPerm)) /\ Holds(b, FwrBank(ResetFwr))
      /\ Holds(b, KeymgrBank(ResetKeymgr))
  BY <1>4, Defaults
<1>10. QED
  BY <1>6, <1>7, <1>8, <1>9 DEF b

(* Where every boot starts. *)
PoweredUp ==
    /\ at = "reset" /\ k = 0
    /\ staging = NoStaging /\ perm = ResetPerm /\ fwr = ResetFwr /\ keymgr = ResetKeymgr
    /\ region = NoRegion /\ vtor = 0 /\ guard \in [0 .. 2 -> 0 .. 7]
    /\ found \in Leftovers /\ bus = FromBefore(found, guard)

LEMMA FreshStart == PoweredUp => Registered
<1> SUFFICES ASSUME PoweredUp PROVE Registered
  OBVIOUS
<1> USE DEF PoweredUp
<1>1. ~Done("reset", 0) /\ \A j \in 0 .. 7 : ~Done("init_cpu", j) /\ ~Done("init_uart", j)
  BY DEF Done, Rank
<1>2. VtorBank = {<<VtorAt, Zero>>} /\ UartBank = {}
  BY <1>1 DEF VtorBank, UartBank, VtorAt
<1>3. \A e \in SetUpBank : e[1] \in Shared /\ e[2] = found[e[1]]
  BY <1>1 DEF SetUpBank, Shared
<1>4. /\ Holds(bus, StagingBanks(NoStaging)) /\ Holds(bus, RegionBanks(NoRegion))
      /\ Holds(bus, PermBank(ResetPerm)) /\ Holds(bus, FwrBank(ResetFwr))
      /\ Holds(bus, KeymgrBank(ResetKeymgr)) /\ Holds(bus, GuardBank(guard))
      /\ In(bus, VtorAt) = Zero /\ \A a \in Shared : In(bus, a) = found[a]
      /\ InTables(bus)
  BY FreshRegisters
<1>5. Holds(bus, VtorBank) /\ Holds(bus, SetUpBank) /\ Holds(bus, UartBank)
  BY <1>2, <1>3, <1>4 DEF Holds
<1>6. QED
  BY <1>4, <1>5 DEF Registered

-----------------------------------------------------------------------------
LEMMA LaunchWrite ==
    ASSUME IInv, OneCall, Registered, found' = found, launch, launch_bus
    PROVE  Registered'
<1>1. Step /\ at' = at /\ k' = k /\ call = RwACall /\ Shapes
  BY InvShapes DEF launch, boot, OneCall
<1>2. /\ staging \in [0 .. 7 -> Window] /\ region \in [0 .. 7 -> Window]
      /\ perm \in [0 .. 3 -> {PERMISSION_MEDIUM, PERMISSION_HIGHEST}]
      /\ DOMAIN fwr = 0 .. 7 /\ guard \in [0 .. 2 -> 0 .. 7] /\ n \in 0 .. 9
      /\ keymgr \in [major : TagWord, vld : {1, 2}, lock : {0, 1}]
  BY DEF IInv, TypeOK
<1>p. Positions
  BY DEF IInv
<1>3. CASE launch_image \/ launch_RO \/ launch_RW \/ hash_region \/ print_hashes
           \/ check_hashes \/ announce_jump
  <2>1. Quiet
    BY <1>3 DEF launch_bus, launch_image, launch_RO, launch_RW, hash_region, print_hashes,
       check_hashes, announce_jump
  <2>2. UNCHANGED registers
    BY <1>3 DEF launch_image, launch_RO, launch_RW, hash_region, print_hashes,
       check_hashes, announce_jump
  <2>3. SetUpBank' = SetUpBank /\ UartBank' = UartBank /\ VtorBank' = VtorBank
    BY <1>1, <2>2, SameProgress DEF registers
  <2>4. QED
    BY <2>1, <2>2, <2>3, QuietStep
<1>4. CASE stage_ro_region
  <2>1. stage_rx_region(0) /\ stage_rx_region_bus(0)
    BY <1>4 DEF stage_ro_region, launch_bus
  <2>2. QED
    BY <1>1, <1>2, <2>1, StagingWrite
<1>5. CASE stage_rw_region
  <2>1. stage_rx_region(1) /\ stage_rx_region_bus(1)
    BY <1>5 DEF stage_rw_region, launch_bus
  <2>2. QED
    BY <1>1, <1>2, <2>1, StagingWrite
<1>6. CASE set_runlevel
  <2>1. set_runlevel_bus /\ n \in 0 .. 3
    BY <1>2, <1>6, <1>p DEF set_runlevel, launch_bus, Positions
  <2>2. QED
    BY <1>1, <1>2, <1>6, <2>1, SetRunlevelWrite
<1>7. CASE set_fwr
  <2>1. set_fwr_bus
    BY <1>7 DEF set_fwr, launch_bus
  <2>2. QED
    BY <1>1, <1>2, <1>7, <2>1, FwrWrite
<1>8. CASE protect_flash_region
  <2>1. protect_flash_region_bus
    BY <1>8 DEF protect_flash_region, launch_bus
  <2>2. QED
    BY <1>1, <1>2, <1>8, <2>1, ProtectWrite
<1>9. CASE disarm_ram_guards
  <2>1. disarm_ram_guards_bus /\ n \in 0 .. 2
    BY <1>2, <1>9, <1>p DEF disarm_ram_guards, launch_bus, Positions
  <2>2. QED
    BY <1>1, <1>2, <1>9, <2>1, DisarmWrite
<1>10. CASE _jump_to_address
  <2>1. _jump_to_address_bus /\ n \in 0 .. 1
    BY <1>2, <1>10, <1>p DEF _jump_to_address, launch_bus, Positions
  <2>2. QED
    BY <1>1, <1>10, <2>1, JumpWrite
<1>11. QED
  BY <1>1, <1>3, <1>4, <1>5, <1>6, <1>7, <1>8, <1>9, <1>10 DEF Step

LEMMA VtorLateStep == OneCall /\ Positions /\ VtorLate /\ [BootNext]_bootvars => VtorLate'
<1> SUFFICES ASSUME OneCall, Positions, VtorLate, [BootNext]_bootvars PROVE VtorLate'
  OBVIOUS
<1> USE DEF VtorLate
<1>0. CASE UNCHANGED bootvars
  BY <1>0 DEF bootvars, boot, vars, control, registers
<1>1. CASE bss_loop \/ init_cpu \/ init_uart \/ banner
  BY <1>1 DEF bss_loop, init_cpu, init_uart, banner, Proceed, vars, control, registers
<1>2. CASE main_launch
  BY <1>2 DEF main_launch, Call, registers
<1>3. CASE main_return
  BY <1>3 DEF main_return, vars, control, registers
<1>4. CASE PowerReset
  BY <1>4 DEF PowerReset
<1>5. CASE launch
  <2>1. at' = at /\ at = "called" /\ Step
    BY <1>5 DEF launch, boot
  <2>2. CASE _jump_to_address
    BY <2>1, <2>2 DEF _jump_to_address, Advance, Goto, Positions
  <2>3. CASE ~_jump_to_address
    <3>1. vtor' = vtor /\ pc \notin {"launched", "_jump_to_address"}
      BY <2>1, <2>3 DEF Step, launch_image, launch_RO, launch_RW, stage_ro_region,
         stage_rw_region, stage_rx_region, hash_region, print_hashes, check_hashes,
         set_runlevel, set_fwr, protect_flash_region, disarm_ram_guards, announce_jump, registers
    <3>2. QED
      BY <3>1
  <2>4. QED
    BY <2>2, <2>3
<1>6. QED
  BY <1>0, <1>1, <1>2, <1>3, <1>4, <1>5 DEF BootNext, Main

(* The invariant of the composition: that of Boot, the step numbers, and the *)
(* register file with what is written in it.                                 *)
BusInv == BootInv /\ found \in Leftovers /\ StepRange /\ VtorLate /\ Registered

LEMMA StepRangeStep == StepRange /\ [BootNext]_bootvars => StepRange'
<1> SUFFICES ASSUME StepRange, [BootNext]_bootvars PROVE StepRange'
  OBVIOUS
<1>1. CASE UNCHANGED bootvars
  BY <1>1 DEF StepRange, bootvars, boot
<1>2. CASE bss_loop \/ init_cpu \/ init_uart \/ banner
  BY <1>2 DEF StepRange, bss_loop, init_cpu, init_uart, banner, Proceed
<1>3. CASE main_launch \/ launch \/ main_return
  BY <1>3 DEF StepRange, main_launch, launch, main_return, boot
<1>4. CASE PowerReset
  BY <1>4 DEF StepRange, PowerReset
<1>5. QED
  BY <1>1, <1>2, <1>3, <1>4 DEF BootNext, Main

LEMMA BusSteps == [BusNext]_busvars => [BootNext]_bootvars
BY DEF BusNext, BusMain, BusReset, busvars, BootNext, Main

LEMMA RegisteredStep == BusInv /\ [BusNext]_busvars => Registered' /\ found' \in Leftovers
<1> SUFFICES ASSUME BusInv, [BusNext]_busvars PROVE Registered' /\ found' \in Leftovers
  OBVIOUS
<1> USE DEF BusInv
<1>t. IInv /\ OneCall /\ Shapes
  BY InvShapes DEF BootInv
<1>0. CASE UNCHANGED busvars
  <2>1. /\ bus' = bus /\ found' = found /\ UNCHANGED bootvars
    BY <1>0 DEF busvars
  <2>2. UNCHANGED registers /\ at' = at /\ k' = k
    BY <2>1 DEF bootvars, boot, vars
  <2>3. SetUpBank' = SetUpBank /\ UartBank' = UartBank /\ VtorBank' = VtorBank
    BY <2>1, <2>2, SameProgress DEF registers
  <2>4. QED
    BY <2>1, <2>2, <2>3, QuietStep DEF Quiet
<1>1. CASE bss_loop /\ reset_bus /\ UNCHANGED found
  <2>1. at = "reset" /\ vtor = 0 /\ k \in 0 .. 1
    BY <1>1 DEF bss_loop, VtorLate, StepRange
  <2>2. QED
    BY <1>1, <1>t, <2>1, ResetWrite
<1>2. CASE init_cpu /\ init_cpu_bus /\ UNCHANGED found
  <2>1. k \in 0 .. 1
    BY <1>2 DEF init_cpu, StepRange
  <2>2. QED
    BY <1>2, <1>t, <2>1, CpuWrite
<1>3. CASE init_uart /\ init_uart_bus /\ UNCHANGED found
  <2>1. k \in 0 .. 7
    BY DEF StepRange
  <2>2. QED
    BY <1>3, <1>t, <2>1, UartStart
<1>4. CASE (banner \/ main_launch \/ main_return) /\ Quiet /\ UNCHANGED found
  <2>1. UNCHANGED registers
    BY <1>4 DEF banner, main_launch, main_return, Call, vars
  <2>2. /\ at \in {"banner", "launch", "called"} /\ at' \in {"launch", "called", "wfi"}
    BY <1>4 DEF banner, main_launch, main_return, Proceed, StepRange
  <2>3. \A p \in {"reset", "init_cpu", "init_uart"}, j \in 0 .. 7 : Done(p, j) /\ Done(p, j)'
    BY <2>2 DEF Done, Rank
  <2>4. VtorBank' = VtorBank
    BY <2>1, <2>3 DEF VtorBank, registers
  <2>5. SetUpBank' = SetUpBank /\ UartBank' = UartBank
    BY <1>4, <2>3 DEF SetUpBank, UartBank
  <2>6. QED
    BY <1>4, <2>1, <2>4, <2>5, QuietStep
<1>5. CASE launch /\ launch_bus /\ UNCHANGED found
  BY <1>5, <1>t, LaunchWrite
<1>6. CASE BusReset
  <2>1. guard' \in [0 .. 2 -> 0 .. 7]
    BY <1>6, LaunchAssumption DEF BusReset, PowerReset
  <2>2. PoweredUp'
    BY <1>6, <2>1 DEF BusReset, PowerReset, PoweredUp
  <2>3. Registered'
    BY <2>2, FreshStart, PTL
  <2>4. QED
    BY <1>6, <2>3 DEF BusReset
<1>7. QED
  BY <1>0, <1>1, <1>2, <1>3, <1>4, <1>5, <1>6 DEF BusNext, BusMain

(* The register file changes nothing about the boot: every behaviour of the  *)
(* composition is one of Boot.                                               *)
THEOREM BusImplementsBoot == BusSpec => BootInit /\ [][BootNext]_bootvars
<1>1. BusInit => BootInit
  BY DEF BusInit
<1>2. QED
  BY <1>1, BusSteps, PTL DEF BusSpec

LEMMA InitBusInv == BusInit => BusInv
<1> SUFFICES ASSUME BusInit PROVE BusInv
  OBVIOUS
<1>1. BootInv
  BY InitBootInv DEF BusInit
<1>2. PoweredUp
  <2>1. guard \in [0 .. 2 -> 0 .. 7]
    BY LaunchAssumption DEF BusInit, BootInit, Init
  <2>2. QED
    BY <2>1 DEF BusInit, BootInit, Init, PoweredUp
<1>3. Registered
  BY <1>2, FreshStart
<1>4. StepRange /\ VtorLate /\ found \in Leftovers
  BY <1>2 DEF PoweredUp, StepRange, VtorLate
<1>5. QED
  BY <1>1, <1>3, <1>4 DEF BusInv

LEMMA StepBusInv == BusInv /\ [BusNext]_busvars => BusInv'
<1> SUFFICES ASSUME BusInv, [BusNext]_busvars PROVE BusInv'
  OBVIOUS
<1>1. [BootNext]_bootvars
  BY BusSteps
<1>2. BootInv'
  BY <1>1, StepBootInv DEF BusInv
<1>3. OneCall /\ Positions
  BY DEF BusInv, BootInv, IInv
<1>4. StepRange' /\ VtorLate'
  BY <1>1, <1>3, StepRangeStep, VtorLateStep DEF BusInv
<1>5. QED
  BY <1>2, <1>4, RegisteredStep DEF BusInv

(* At every step of every boot the register file holds, at the addresses the *)
(* code computes, what the launcher's variables and the steps made so far    *)
(* give those registers (init.S, setup.c, uart.c, jump.c).                   *)
THEOREM BusInvariance == BusSpec => []BusInv
<1>1. BusInit => BusInv
  BY InitBusInv
<1>2. BusInv /\ [BusNext]_busvars => BusInv'
  BY StepBusInv
<1>3. QED
  BY <1>1, <1>2, PTL DEF BusSpec

(* A bank has its registers where it has them, whatever they hold. *)
LEMMA SameAddresses ==
    ASSUME NEW m, NEW off, NEW step, NEW v, NEW w, DOMAIN v = DOMAIN w
    PROVE  \A e \in Bank(m, off, step, v) : \E d \in Bank(m, off, step, w) : d[1] = e[1]
<1>1. SUFFICES ASSUME NEW i \in DOMAIN v
               PROVE  \E d \in Bank(m, off, step, w) : d[1] = <<m, off + step * i>>
  BY DEF Bank
<1> DEFINE d == <<<<m, off + step * i>>, Lo(w[i])>>
<1>2. d \in Bank(m, off, step, w) /\ d[1] = <<m, off + step * i>>
  BY InBank
<1>3. QED
  BY <1>2

LEMMA SameWindows ==
    \A v, w, ctrl, cs, base, size, step :
       \A e \in WindowBanks(v, ctrl, cs, base, size, step) :
          \E d \in WindowBanks(w, ctrl, cs, base, size, step) : d[1] = e[1]
<1> SUFFICES ASSUME NEW v, NEW w, NEW ctrl, NEW cs, NEW base, NEW size, NEW step,
                    NEW e \in WindowBanks(v, ctrl, cs, base, size, step)
             PROVE  \E d \in WindowBanks(w, ctrl, cs, base, size, step) : d[1] = e[1]
  OBVIOUS
<1> DEFINE Ctrl(x) == [i \in 0 .. 7 |-> x[i].ctrl]
           Base(x) == [i \in 0 .. 7 |-> x[i].base]
           Size(x) == [i \in 0 .. 7 |-> x[i].size]
           CB(x) == Bank("GLOBALSEC", ctrl, cs, Ctrl(x))
           BB(x) == Bank("GLOBALSEC", base, step, Base(x))
           SB(x) == Bank("GLOBALSEC", size, step, Size(x))
<1>1. \A x : WindowBanks(x, ctrl, cs, base, size, step) = CB(x) \cup BB(x) \cup SB(x)
  BY DEF WindowBanks
<1>2. DOMAIN Ctrl(v) = DOMAIN Ctrl(w) /\ DOMAIN Base(v) = DOMAIN Base(w)
      /\ DOMAIN Size(v) = DOMAIN Size(w)
  OBVIOUS
<1> HIDE DEF Ctrl, Base, Size
<1>3. /\ \A f \in CB(v) : \E d \in CB(w) : d[1] = f[1]
      /\ \A f \in BB(v) : \E d \in BB(w) : d[1] = f[1]
      /\ \A f \in SB(v) : \E d \in SB(w) : d[1] = f[1]
  BY <1>2, SameAddresses
<1> HIDE DEF CB, BB, SB
<1>4. QED
  BY <1>1, <1>3

(* Every register the loader writes is accounted for. *)
LEMMA AllExpected ==
    ASSUME Shapes PROVE LoaderRegisters \subseteq {e[1] : e \in Expected} \cup UartSetUp
<1> DEFINE Listed(a) == \E d \in Expected : d[1] = a
<1>1. \A e \in StagingBanks(NoStaging) : Listed(e[1])
  <2>1. \A e \in StagingBanks(NoStaging) : \E d \in StagingBanks(staging) : d[1] = e[1]
    BY SameWindows DEF StagingBanks
  <2>2. QED
    BY <2>1 DEF Expected
<1>2. \A e \in RegionBanks(NoRegion) : Listed(e[1])
  <2>1. \A e \in RegionBanks(NoRegion) : \E d \in RegionBanks(region) : d[1] = e[1]
    BY SameWindows DEF RegionBanks
  <2>2. QED
    BY <2>1 DEF Expected
<1>3. \A e \in PermBank(ResetPerm) : Listed(e[1])
  <2>1. DOMAIN ResetPerm = DOMAIN perm
    BY DEF Shapes, ResetPerm
  <2>2. \A e \in PermBank(ResetPerm) : \E d \in PermBank(perm) : d[1] = e[1]
    BY <2>1, SameAddresses DEF PermBank
  <2>3. QED
    BY <2>2 DEF Expected
<1>4. \A e \in FwrBank(ResetFwr) : Listed(e[1])
  <2>1. DOMAIN ResetFwr = DOMAIN fwr
    BY DEF Shapes, ResetFwr
  <2>2. \A e \in FwrBank(ResetFwr) : \E d \in FwrBank(fwr) : d[1] = e[1]
    BY <2>1, SameAddresses DEF FwrBank
  <2>3. QED
    BY <2>2 DEF Expected
<1>5. \A e \in KeymgrBank(ResetKeymgr) : Listed(e[1])
  <2>1. \A e \in KeymgrBank(ResetKeymgr) : \E d \in KeymgrBank(keymgr) : d[1] = e[1]
    BY DEF KeymgrBank
  <2>2. QED
    BY <2>1 DEF Expected
<1>6. \A a \in GuardsAt : Listed(a)
  <2>1. SUFFICES ASSUME NEW i \in 0 .. 2 PROVE Listed(<<"GLOBALSEC", 4 * i>>)
    BY DEF GuardsAt
  <2> DEFINE off == 0
             step == 4
             d == <<<<"GLOBALSEC", off + step * i>>, Lo(guard[i])>>
  <2>2. off + step * i = 4 * i
    OBVIOUS
  <2>3. d \in GuardBank(guard)
    <3>1. i \in DOMAIN guard /\ GuardBank(guard) = Bank("GLOBALSEC", off, step, guard)
      BY DEF Shapes, GuardBank
    <3> HIDE DEF off, step
    <3>2. QED
      BY <3>1, InBank
  <2>4. d \in Expected /\ d[1] = <<"GLOBALSEC", 4 * i>>
    BY <2>2, <2>3 DEF Expected
  <2> HIDE DEF d
  <2>5. QED
    BY <2>4
<1>7. Listed(VtorAt)
  <2>1. \E d \in VtorBank : d[1] = VtorAt
    BY DEF VtorBank, VtorAt
  <2>2. QED
    BY <2>1 DEF Expected
<1>8. \A a \in Shared : Listed(a)
  <2>1. \A a \in Shared : \E d \in SetUpBank : d[1] = a
    BY DEF SetUpBank, Shared
  <2>2. QED
    BY <2>1 DEF Expected
<1> HIDE DEF Listed
<1>9. \A a \in LoaderRegisters : Listed(a) \/ a \in UartSetUp
  BY <1>1, <1>2, <1>3, <1>4, <1>5, <1>6, <1>7, <1>8 DEF LoaderRegisters, LauncherDefaults
<1>10. QED
  BY <1>9 DEF Listed

(* jump.c and the start-up code write the registers they mean and no other,  *)
(* keep the bits they share with the stage before, and set no bit that the   *)
(* register list does not have.                                              *)
THEOREM RegisterFileAgrees == BusSpec => []RegistersMatch
<1>1. BusInv => RegistersMatch
  <2> SUFFICES ASSUME BusInv PROVE RegistersMatch
    OBVIOUS
  <2>t. Registered /\ Shapes
    BY InvShapes DEF BusInv, BootInv
  <2>1. Holds(bus, Expected)
    BY <2>t, Both DEF Registered, Expected
  <2>2. \A e \in Expected : Read(e[1]) = e[2]
    BY <2>1 DEF Holds, In, Read
  <2>3. \A a \in DOMAIN bus : a \in LoaderRegisters /\ Exists(a) /\ bus[a] \subseteq Implemented(a)
    BY <2>t DEF Registered, InTables, Writable
  <2>4. LoaderRegisters \subseteq {e[1] : e \in Expected} \cup UartSetUp
    BY <2>t, AllExpected
  <2>5. QED
    BY <2>2, <2>3, <2>4 DEF RegistersMatch
<1>2. QED
  BY <1>1, BusInvariance, PTL

(* main() prints only after init_uart() has given the UART its clock, both   *)
(* directions and the two pads.                                              *)
THEOREM ConsoleIsWired == BusSpec => []ConsoleWired
<1>1. BusInv => ConsoleWired
  <2> SUFFICES ASSUME BusInv, Rank[at] >= Rank["banner"] PROVE ConsoleWired
    BY DEF ConsoleWired
  <2>t. Registered
    BY DEF BusInv
  <2>1. at \in {"banner", "launch", "called", "wfi"}
    BY DEF BusInv, BootInv, OneCall, BootPlaces, Rank
  <2>2. \A j \in 0 .. 7 : Done("init_uart", j)
    BY <2>1 DEF Done, Rank
  <2>3. \A j \in 2 .. 7 : In(bus, <<UartWrite[j][1], UartWrite[j][2]>>) = Lo(UartWrite[j][3])
    <3> SUFFICES ASSUME NEW j \in 2 .. 7
                 PROVE  In(bus, <<UartWrite[j][1], UartWrite[j][2]>>) = Lo(UartWrite[j][3])
      OBVIOUS
    <3> DEFINE e == <<<<UartWrite[j][1], UartWrite[j][2]>>, Lo(UartWrite[j][3])>>
    <3>1. e \in UartBank
      BY <2>2 DEF UartBank
    <3>2. In(bus, e[1]) = e[2]
      BY <2>t, <3>1 DEF Registered, Holds
    <3>3. QED
      BY <3>2
  <2>4. 5 \in Read(<<"PMU", \h6c>>)
    BY <2>2, <2>t, SetUpWords DEF Read, In
  <2>5. /\ Read(<<"PINMUX", \h28>>) = Lo(70) /\ Read(<<"PINMUX", \h208>>) = Lo(12)
        /\ Read(<<"PINMUX", \h94>>) = Lo(6) /\ Read(<<"UART", \h8>>) = Lo(\h13a9)
        /\ Read(<<"UART", \hc>>) = Lo(3)
    <3>1. \A a : Read(a) = In(bus, a)
      BY DEF Read, In
    <3>2. /\ UartWrite[2] = <<"PINMUX", \h28, 70>> /\ UartWrite[3] = <<"PINMUX", \h208, 12>>
          /\ UartWrite[4] = <<"PINMUX", \h94, 6>> /\ UartWrite[6] = <<"UART", \h8, \h13a9>>
          /\ UartWrite[7] = <<"UART", \hc, 3>>
      BY DEF UartWrite
    <3>3. QED
      BY <2>3, <3>1, <3>2
  <2>6. /\ SignalCode[\h20c] = 70 /\ PadCode.DIOA[13] = 12 /\ PadSel["DIOA"] = \h28
    <3>1. SignalCode[\h20c] = 70
      <4>1. \h20c = FirstSignal + 4 * 69 /\ 69 \in 0 .. 98
        BY DEF FirstSignal
      <4>2. \h20c \in {FirstSignal + 4 * i : i \in 0 .. 98}
        BY <4>1
      <4>3. 1 + (\h20c - FirstSignal) \div 4 = 70
        BY DEF FirstSignal
      <4>4. QED
        BY <4>2, <4>3 DEF SignalCode
    <3>2. QED
      BY <3>1 DEF PadCode, PadSel
  <2>7. QED
    <3>1. {0, 1} \subseteq Read(<<"UART", \hc>>) /\ Read(<<"UART", \h8>>) # Zero
      BY <2>5, SetUpRegistersAssumption
    <3>2. \E i \in 0 .. 14 : Read(Pad("DIOA", i)) = Lo(SignalCode[\h20c])
      <4>1. Pad("DIOA", 0) = <<"PINMUX", \h28>>
        BY <2>6 DEF Pad
      <4>2. Read(Pad("DIOA", 0)) = Lo(SignalCode[\h20c])
        BY <2>5, <2>6, <4>1
      <4>3. QED
        BY <4>2
    <3>3. /\ Read(<<"PINMUX", \h208>>) = Lo(PadCode.DIOA[13])
          /\ 2 \in Read(<<"PINMUX", PadSel.DIOA + 8 * 13 + 4>>)
      <4>1. PadSel.DIOA + 8 * 13 + 4 = \h94
        BY <2>6
      <4>2. QED
        BY <2>5, <2>6, <4>1, SetUpRegistersAssumption
    <3>4. QED
      BY <2>4, <3>1, <3>2, <3>3 DEF ConsoleWired
<1>2. QED
  BY <1>1, BusInvariance, PTL
=============================================================================
