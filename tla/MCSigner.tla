------------------------------ MODULE MCSigner ------------------------------
(* A flash of two halves of 20 cells at 4 and 24: RO slots and RW slots of 8, *)
(* banks of 4, headers of 2.                                                   *)
EXTENDS Signer

(* An ELF file with code in size cells from addr on, and data after it.      *)
Elf(addr, code, data) ==
    [phdrs |-> {[paddr |-> addr, filesz |-> code, elfhdr |-> FALSE],
                [paddr |-> addr + code, filesz |-> data, elfhdr |-> FALSE]},
     sections |-> {[addr |-> addr, size |-> code, alloc |-> TRUE, exec |-> TRUE],
                   [addr |-> addr + code, size |-> data, alloc |-> TRUE, exec |-> FALSE]}]
(* Besides its image: RAM, debug information, the ELF header's segment.      *)
Dressed(e) ==
    [phdrs |-> e.phdrs \cup {[paddr |-> 1, filesz |-> 2, elfhdr |-> FALSE],
                             [paddr |-> FlashBase, filesz |-> 3, elfhdr |-> TRUE],
                             [paddr |-> FlashBase + FlashSize - 1, filesz |-> 3, elfhdr |-> FALSE]},
     sections |-> e.sections \cup {[addr |-> 1, size |-> 2, alloc |-> TRUE, exec |-> TRUE],
                                   [addr |-> RO_A_BASE, size |-> 30, alloc |-> FALSE, exec |-> TRUE]}]
Elfs ==
    {Elf(slot + HeaderSize, c, d) : slot \in Slots, c \in 1 .. 6, d \in {0, 1, 2}}
    \cup {Dressed(Elf(RO_A_BASE + HeaderSize, 3, 1))}
GoodElfs ==
    {e \in Elfs : RoundUp(MaxOr0(Stored(e))) >= RoundDown(MinOf(Stored(e))) + BankSize}

(* The shipped XML, util/signer/signing/fuses.xml, and others: without its    *)
(* end, without its P4 entry, without a fuse, with one twice, with two       *)
(* exchanged (of 24 and 3 bits, of 9 and 9), with other fuses behind the last. *)
Item(name, offset, width) == [name |-> name, offset |-> offset, width |-> width]
Shipped ==
    [items |-> [j \in 1 .. FuseCount |-> Item(j - 1, j - 1, FuseWidth[j])] \o <<Item(900, 0, 0)>>,
     p4cl |-> 177]
Without(s, j) == SubSeq(s, 1, j - 1) \o SubSeq(s, j + 1, Len(s))
Swapped(s, j) == [s EXCEPT ![j] = [s[j + 1] EXCEPT !.offset = j - 1],
                           ![j + 1] = [s[j] EXCEPT !.offset = j]]
Xmls ==
    {Shipped, [Shipped EXCEPT !.items = SubSeq(@, 1, FuseCount)], [Shipped EXCEPT !.p4cl = NoP4cl],
     [Shipped EXCEPT !.items = Without(@, 9)],
     [Shipped EXCEPT !.items = SubSeq(@, 1, 9) \o SubSeq(@, 9, FuseCount + 1)],
     [Shipped EXCEPT !.items = SubSeq(@, 1, 8) \o <<@[1]>> \o SubSeq(@, 10, FuseCount + 1)],
     [Shipped EXCEPT !.items = Swapped(@, 1)], [Shipped EXCEPT !.items = Swapped(@, 3)],
     [Shipped EXCEPT !.items = SubSeq(@, 1, FuseCount) \o <<Item(900, 126, 8), Item(901, 127, 8), Item(902, 0, 1)>>],
     [Shipped EXCEPT !.items = SubSeq(@, 1, FuseCount) \o <<Item(900, 126, 8), Item(902, 0, 1)>>]}

(* Fuses of 24, 3, 9 and 32 bits, one that is not defined. *)
FuseChoices ==
    {<<>>, (2 :> Lo(257)), (1 :> Lo(5)) @@ (5 :> Ones), (0 :> Lo(1)) @@ (Blk6 :> Lo(3)),
     (1 :> Lo(8)), (900 :> Lo(1))}
(* Chips with these values, with one in an exchanged fuse of the same width, *)
(* and with one that reads as the padding above another.                       *)
SignerChips ==
    {<<>>, (2 :> Lo(257)), (2 :> Lo(256)), (1 :> Lo(5)) @@ (5 :> Ones), (0 :> Lo(1)) @@ (Blk6 :> Lo(3)),
     (3 :> Lo(257)), (0 :> Hex(\h55, \h5555)) @@ (5 :> Ones)}
InfoChoices == {<<>>, (4 :> Zero), (127 :> Ones), (128 :> Ones)}
Given == [NoManifest EXCEPT !.p4cl = 177]
Manifests ==
    {[Given EXCEPT !.valid = FALSE], [Given EXCEPT !.keyid = FALSE], Given, NoManifest}
    \cup {[Given EXCEPT !.infos = i] : i \in InfoChoices}

Plain == [key |-> "private", elf |-> Elf(RO_A_BASE + HeaderSize, 3, 1), fill |-> FALSE,
          override |-> FALSE, manifest |-> Absent, xml |-> Absent, signature |-> Absent,
          hashes |-> FALSE, usb |-> <<>>]
(* Up to three devices of every kind, in every order. *)
Devices ==
    UNION {[1 .. n -> Token!Kinds] : n \in 0 .. 3}
Runs ==
    {[Plain EXCEPT !.elf = e, !.fill = f] : e \in GoodElfs \cup {Absent}, f \in BOOLEAN}
    \cup {[Plain EXCEPT !.fill = TRUE, !.hashes = TRUE], [Plain EXCEPT !.override = TRUE]}
    \cup
    {[Plain EXCEPT !.key = k, !.manifest = m, !.xml = x, !.signature = s, !.hashes = TRUE] :
        k \in KeyFile, m \in Manifests \cup {Absent}, x \in {Absent, Shipped},
        s \in {Absent, "short", "whole"}}
    \cup {[Plain EXCEPT !.manifest = [Given EXCEPT !.fuses = f], !.xml = x] : f \in FuseChoices, x \in Xmls}
    \cup {[Plain EXCEPT !.key = "public2048", !.usb = u] : u \in Devices}

SignerIgnore == Hex(\ha3ba, \hdaac)
SignerFuse == 0 .. FUSE_MAX - 1
SignerFuseValue == {FuseWord(i, Zero) : i \in 0 .. FuseCount - 1}
=============================================================================
