---------------------------- MODULE FuseManifest ----------------------------
(***************************************************************************)
(* The fuses of a manifest, in util/signer/codesigner.cc: readXML() numbers   *)
(* the fuses of the XML, main() puts the values of the manifest into the      *)
(* array the image is signed for.  On the chip the array is read from the     *)
(* registers of FuseRegs.                                                    *)
(*                                                                           *)
(* A fuse's name is its number in include/haven_regdef.h; a number from       *)
(* FuseCount on is a name the header does not have.  Values are words.       *)
(***************************************************************************)
EXTENDS FuseRegs, FiniteSets

FUSE_MAX == 128
INFO_MAX == 128
Blk6 == 125      \* FW_DEFINED_DATA_EXTRA_BLK6

(* readXML(): items are the entries with a FuseLogicalOffset, in order:      *)
(* [name, offset, width]; p4cl the default of SWDP_P4_LAST_SYNC, or NoP4cl.   *)
NoP4cl == -1
NoneFound == [ids |-> <<>>, done |-> FALSE]

(* A logical offset that regresses ends the list; a name counts at its first *)
(* place, its other places use up numbers.                                    *)
find_fuses(xml) ==
    LET items == xml.items
        falls == {j \in 2 .. Len(items) : items[j].offset < items[j - 1].offset}
        listed == IF falls = {} THEN DOMAIN items
                  ELSE 1 .. (CHOOSE j \in falls : \A k \in falls : j <= k) - 1
        first(name) == CHOOSE j \in DOMAIN items :
                           items[j].name = name /\ \A i \in 1 .. j - 1 : items[i].name # name
    IN  [ids |-> [name \in {items[j].name : j \in listed} |->
                     [index |-> first(name) - 1, width |-> items[first(name)].width]],
         done |-> falls # {}]

(* Whether readXML() succeeds, and main()'s assertions on what it found. *)
readXML(xml, found) == found.done /\ xml.p4cl # NoP4cl
ids_accepted(nums) ==
    /\ Cardinality(DOMAIN nums) < FUSE_MAX
    /\ DOMAIN nums # {} => Blk6 \in DOMAIN nums /\ nums[Blk6] = [index |-> 125, width |-> 5]

(* What main() gives Blk6 itself, with an XML file or without. *)
with_blk6(nums) ==
    [f \in DOMAIN nums \cup {Blk6} |->
        IF f = Blk6 THEN [index |-> 125, width |-> 5] ELSE nums[f]]

-----------------------------------------------------------------------------
(* fuses is a function from names to words, nums one from names to            *)
(* [index, width]: each fuse is defined, and its value not too large.        *)
fuses_accepted(fuses, nums) ==
    \A f \in DOMAIN fuses :
        /\ f \in DOMAIN nums /\ nums[f].index < FUSE_MAX
        /\ fuses[f] \subseteq Mask(<<0, nums[f].width>>)

markFuse(fuses, nums) == {nums[f].index : f \in DOMAIN fuses}

(* Mutant: the bits above the fuse are left 0. *)
fuse_values_bare(fuses, nums, ignore) ==
    [i \in 0 .. FUSE_MAX - 1 |->
        IF i \in markFuse(fuses, nums)
        THEN fuses[CHOOSE f \in DOMAIN fuses : nums[f].index = i]
        ELSE ignore]

fuse_values(fuses, nums, ignore) ==
    [i \in 0 .. FUSE_MAX - 1 |->
        IF i \in markFuse(fuses, nums)
        THEN LET f == CHOOSE g \in DOMAIN fuses : nums[g].index = i
             IN  (FusePad \ Mask(<<0, nums[f].width>>)) \cup fuses[f]
        ELSE ignore]

(* infos is a function from indices to words; INFO_IGNORE ^ 0 is as good as  *)
(* no entry.                                                                 *)
infos_accepted(infos) == \A i \in DOMAIN infos : i < INFO_MAX
info_digest(infos) == IF \A i \in DOMAIN infos : infos[i] = Zero THEN "ignored" ELSE "read"

-----------------------------------------------------------------------------
(* What GREG32_ADDR(FUSE, BNK0_INTG_CHKSUM)[i] reads on a chip with these     *)
(* fuses blown: behind the last fuse lie the registers that program fuses.    *)
BlownBits(chip, fuse) == IF fuse \in DOMAIN chip THEN chip[fuse] ELSE Zero
efuse_of(chip) ==
    [i \in 0 .. FUSE_MAX - 1 |->
        IF i < FuseCount THEN FuseWord(i, BlownBits(chip, i)) ELSE Zero]
=============================================================================
