---------------------------- MODULE SignedHeader ----------------------------
(***************************************************************************)
(* What a flash slot holds, the launch codes, and the header check of       *)
(* src/launch/jump.c.                                                        *)
(*                                                                           *)
(* Data abstraction.  A digest is the data that was hashed (SHA-256 is taken *)
(* to be collision-free, and its first word, the only one the loader        *)
(* compares, to identify it): the digest of an image is the body of its slot *)
(* with the number of bytes hashed, the digest of the fuses is the array     *)
(* that was hashed.                                                          *)
(***************************************************************************)
EXTENDS FlashLayout

CONSTANTS
    HeaderSize,      \* sizeof(SignedHeader)
    TagOffset,       \* offsetof(SignedHeader, tag): where the hashed area starts
    VectorSize,      \* the initial sp and pc at the start of the code, read by the jump
    MAGIC_HAVEN, MAGIC_CITADEL,
    Body,            \* what the area of a slot behind the header's tag may hold
    Fuse,            \* fuse indices, 0..FUSE_MAX-1
    FuseValue,       \* values of a fuse register
    FUSE_IGNORE,     \* FUSE_IGNORE_B: stands for a fuse the header does not select
    TagWord          \* values of a tag word, of major_ and of epoch_

ASSUME SignedHeaderAssumption ==
    /\ HeaderSize \in Nat /\ TagOffset \in Nat \ {0}
    /\ VectorSize \in Nat \ {0}
    /\ TagOffset < HeaderSize /\ HeaderSize + VectorSize <= BankSize
    /\ BankSize <= RoSize /\ BankSize <= RwSize
    /\ MAGIC_HAVEN # MAGIC_CITADEL
    /\ FUSE_IGNORE \notin FuseValue
    /\ TagWord \subseteq Nat /\ 0 \in TagWord

(* include/src/launch/launch.h *)
LAUNCH_SUCCESS == 0
LAUNCH_INVALID_REGION == -1
LAUNCH_INVALID_MAGIC == -2
LAUNCH_IMAGE_TOO_SMALL == -3
LAUNCH_IMAGE_TOO_LARGE == -4
LAUNCH_RO_BASE_BEFORE_REGION == -5
LAUNCH_RO_MAX_AFTER_REGION == -6
LAUNCH_RX_BASE_BEFORE_REGION == -7
LAUNCH_RX_MAX_AFTER_REGION == -8
LAUNCH_INVALID_HASH == -9
LaunchCode == -9 .. 0
NoCode == 1          \* not a code: no call has returned since the reset

ImageDigest == [body : Body, len : Word]
FuseArray == [Fuse -> FuseValue \cup {FUSE_IGNORE}]

(* The info array after hash_region() is INFO_IGNORE_B throughout, as         *)
(* flash_info_read is not implemented; a signer that reads a word of it      *)
(* records another digest.                                                    *)
InfoDigest == {"ignored", "read"}

(* A slot's content: the header fields the loader reads, and the body. *)
Image ==
    [magic : {MAGIC_HAVEN, MAGIC_CITADEL},
     img_chk_ : ImageDigest, fuses_chk_ : FuseArray, info_chk_ : InfoDigest,
     tag : [0 .. 6 -> TagWord], major_ : TagWord, epoch_ : TagWord,
     image_size : Word, ro_base : Word, ro_max : Word, rx_base : Word, rx_max : Word,
     fusemap : SUBSET Fuse, body : Body]

verify_base_address(addr) ==
    IF addr \notin {RO_A_BASE, RO_B_BASE, RW_A_BASE, RW_B_BASE}
    THEN LAUNCH_INVALID_REGION
    ELSE LAUNCH_SUCCESS

(* Mutants: the size is not compared with the slot; rx_base is not compared  *)
(* with it; the two ends are checked in the other order.                     *)
verify_SignedHeader_any_size(hdr, max_size, addr) ==
    IF hdr.magic # MAGIC_HAVEN THEN LAUNCH_INVALID_MAGIC
    ELSE IF hdr.image_size < BankSize THEN LAUNCH_IMAGE_TOO_SMALL
    ELSE IF hdr.ro_base < addr THEN LAUNCH_RO_BASE_BEFORE_REGION
    ELSE IF hdr.ro_max > WAdd(addr, max_size) THEN LAUNCH_RO_MAX_AFTER_REGION
    ELSE IF hdr.rx_base < addr THEN LAUNCH_RX_BASE_BEFORE_REGION
    ELSE IF hdr.rx_max > WAdd(addr, max_size) THEN LAUNCH_RX_MAX_AFTER_REGION
    ELSE LAUNCH_SUCCESS

verify_SignedHeader_no_rx_base(hdr, max_size, addr) ==
    IF hdr.magic # MAGIC_HAVEN THEN LAUNCH_INVALID_MAGIC
    ELSE IF hdr.image_size < BankSize THEN LAUNCH_IMAGE_TOO_SMALL
    ELSE IF hdr.image_size > max_size THEN LAUNCH_IMAGE_TOO_LARGE
    ELSE IF hdr.ro_base < addr THEN LAUNCH_RO_BASE_BEFORE_REGION
    ELSE IF hdr.ro_max > WAdd(addr, max_size) THEN LAUNCH_RO_MAX_AFTER_REGION
    ELSE IF hdr.rx_max > WAdd(addr, max_size) THEN LAUNCH_RX_MAX_AFTER_REGION
    ELSE LAUNCH_SUCCESS

verify_SignedHeader_swapped(hdr, max_size, addr) ==
    IF hdr.magic # MAGIC_HAVEN THEN LAUNCH_INVALID_MAGIC
    ELSE IF hdr.image_size < BankSize THEN LAUNCH_IMAGE_TOO_SMALL
    ELSE IF hdr.image_size > max_size THEN LAUNCH_IMAGE_TOO_LARGE
    ELSE IF hdr.ro_max > WAdd(addr, max_size) THEN LAUNCH_RO_MAX_AFTER_REGION
    ELSE IF hdr.ro_base < addr THEN LAUNCH_RO_BASE_BEFORE_REGION
    ELSE IF hdr.rx_base < addr THEN LAUNCH_RX_BASE_BEFORE_REGION
    ELSE IF hdr.rx_max > WAdd(addr, max_size) THEN LAUNCH_RX_MAX_AFTER_REGION
    ELSE LAUNCH_SUCCESS

verify_SignedHeader(hdr, max_size, addr) ==
    IF hdr.magic # MAGIC_HAVEN THEN LAUNCH_INVALID_MAGIC
    ELSE IF hdr.image_size < BankSize THEN LAUNCH_IMAGE_TOO_SMALL
    ELSE IF hdr.image_size > max_size THEN LAUNCH_IMAGE_TOO_LARGE
    ELSE IF hdr.ro_base < addr THEN LAUNCH_RO_BASE_BEFORE_REGION
    ELSE IF hdr.ro_max > WAdd(addr, max_size) THEN LAUNCH_RO_MAX_AFTER_REGION
    ELSE IF hdr.rx_base < addr THEN LAUNCH_RX_BASE_BEFORE_REGION
    ELSE IF hdr.rx_max > WAdd(addr, max_size) THEN LAUNCH_RX_MAX_AFTER_REGION
    ELSE LAUNCH_SUCCESS

(* The digest sha256() stores for the range hash_region() asks for. *)
image_digest(hdr) == [body |-> hdr.body, len |-> WSub(hdr.image_size, TagOffset)]

(* Mutant: the size is not a uint32_t. *)
staged_size_signed(hdr) == hdr.rx_max - hdr.rx_base - 1

(* The value rx_base, rx_max give the SIZE register of a staging region. *)
staged_size(hdr) == WSub(WSub(hdr.rx_max, hdr.rx_base), 1)

(* The array hash_region() fills: the registers of the fuses the header       *)
(* selects, FUSE_IGNORE for the others.                                      *)
fuse_array(hdr, efuse) ==
    [f \in Fuse |-> IF f \in hdr.fusemap THEN efuse[f] ELSE FUSE_IGNORE]

(* The range a BASE/SIZE register pair covers stays inside the slot (SIZE is *)
(* the length less one).                                                     *)
CoversInside(win, addr, max_size) ==
    addr <= win.base /\ win.base + win.size < addr + max_size
=============================================================================
