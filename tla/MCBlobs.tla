------------------------------ MODULE MCBlobs ------------------------------
(***************************************************************************)
(* Blobs for a flash of two halves of 8 cells at 2 and 10: RO slots of 3,    *)
(* RW slots of 4, headers of 2 cells.                                         *)
(***************************************************************************)
EXTENDS BlobFiles

Header(slot, size) ==
    [magic |-> MAGIC_HAVEN, image_size |-> size, ro_base |-> slot, ro_max |-> slot + size,
     rx_base |-> slot + HeaderSize, rx_max |-> slot + size]
Plain(b, slot, size) == [header |-> Header(slot, size), file |-> SignedFile(b, size)]
(* The same with 0xff in the cells of pads. *)
Padded(b, slot, size, pads) ==
    [header |-> Header(slot, size),
     file |-> [k \in 1 .. size |-> IF k - 1 \in pads THEN ErasedCell ELSE [blob |-> b, at |-> k - 1]]]

Table ==
    [ro_a |-> Plain("ro_a", RO_A_BASE, 3),
     ro_b |-> Plain("ro_b", RO_B_BASE, 3),
     rw_a |-> Plain("rw_a", RW_A_BASE, 4),
     rw_b |-> Plain("rw_b", RW_B_BASE, 4),
     \* longer than their slots
     ro_a_long |-> Plain("ro_a_long", RO_A_BASE, 4),
     rw_a_long |-> Plain("rw_a_long", RW_A_BASE, 6),
     rw_b_long |-> Plain("rw_b_long", RW_B_BASE, 6),
     \* longer than what is left of the flash
     rw_a_huge |-> Plain("rw_a_huge", RW_A_BASE, 14),
     \* padded: at the end, in the middle, everywhere
     rw_a_pad |-> Padded("rw_a_pad", RW_A_BASE, 4, {3}),
     rw_a_hole |-> Padded("rw_a_hole", RW_A_BASE, 4, {2}),
     rw_b_blank |-> Padded("rw_b_blank", RW_B_BASE, 4, {2, 3}),
     \* of another family, without a family, with empty ranges
     rw_a_citadel |-> [Plain("rw_a_citadel", RW_A_BASE, 4) EXCEPT !.header.magic = MAGIC_CITADEL],
     rw_a_none |-> [Plain("rw_a_none", RW_A_BASE, 4) EXCEPT !.header.magic = NoMagic],
     rw_a_empty |-> [Plain("rw_a_empty", RW_A_BASE, 4) EXCEPT !.header.rx_max = RW_A_BASE],
     \* whose image_size lies past the end of the flash
     rw_b_past |-> [Plain("rw_b_past", RW_B_BASE, 4) EXCEPT !.header.image_size = 7]]

Blobs == DOMAIN Table
Headers(b) == Table[b].header
Files(b) == Table[b].file

(* A flash image of these four blobs. *)
Packed(ra, wa, rb, wb) ==
    write_blob(Files(wb), write_blob(Files(rb), write_blob(Files(wa),
        write_blob(Files(ra), Cells(ErasedCell, FlashSize), 0),
        Offset(RW_A_BASE)), Offset(RO_B_BASE)), Offset(RW_B_BASE))
=============================================================================
