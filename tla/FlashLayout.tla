---------------------------- MODULE FlashLayout ----------------------------
(***************************************************************************)
(* The flash map of include/flash_layout.h: two halves, each an RO slot, an *)
(* RW slot and a reserved top.  All sizes are CONSTANTS, so that TLC runs on *)
(* a scaled-down flash while the theorems hold for the real one              *)
(* (FlashBase = 0x40000, FlashHalf = 0x40000, RoSize = 0x4000,               *)
(* TopSize = 0x3000, BankSize = 0x800, WordSize = 2^32).                     *)
(***************************************************************************)
EXTENDS Integers

CONSTANTS
    FlashBase,   \* CONFIG_FLASH_BASE
    FlashHalf,   \* CONFIG_FLASH_HALF
    RoSize,      \* CONFIG_RO_SIZE
    TopSize,     \* CONFIG_TOP_SIZE
    BankSize,    \* CONFIG_FLASH_BANK_SIZE, the smallest image
    WordSize     \* 2^32: the number of values of a uint32_t

ASSUME FlashLayoutAssumption ==
    /\ {FlashBase, FlashHalf, RoSize, TopSize, BankSize, WordSize} \subseteq Nat \ {0}
    /\ RoSize + TopSize < FlashHalf
    /\ FlashBase + 2 * FlashHalf < WordSize

Word == 0 .. WordSize - 1

(* uint32_t addition and subtraction of two words. *)
WAdd(a, b) == IF a + b < WordSize THEN a + b ELSE a + b - WordSize
WSub(a, b) == IF b <= a THEN a - b ELSE a - b + WordSize

RO_A_BASE == FlashBase
RO_B_BASE == FlashBase + FlashHalf
RW_A_BASE == RO_A_BASE + RoSize
RW_B_BASE == RO_B_BASE + RoSize
RwSize == FlashHalf - RoSize - TopSize

RoSlots == {RO_A_BASE, RO_B_BASE}
RwSlots == {RW_A_BASE, RW_B_BASE}
Slots == RoSlots \cup RwSlots
SlotSize(addr) == IF addr \in RoSlots THEN RoSize ELSE RwSize
=============================================================================
