----------------------------- MODULE BlobFiles -----------------------------
(***************************************************************************)
(* Files of signed blobs, and the helpers of src/util/common/utils.sh that   *)
(* the packing scripts read and write them with.                             *)
(*                                                                           *)
(* A file is a sequence of cells.  A cell of a blob is its name and the      *)
(* offset it was signed at, so a cell says where it belongs; Erased stands   *)
(* for 0xff, Zero for 0x00.  The magic is read from the first cell of a      *)
(* header, all other fields from the cell at TagOffset.                       *)
(***************************************************************************)
EXTENDS SignedHeader, Sequences, FiniteSets

CONSTANTS
    Blob,             \* names of signed images
    BlobHeader(_),    \* their headers: magic, image_size, ro_base, ro_max, rx_base, rx_max
    BlobFile(_),      \* the files the signer wrote them to
    Path,             \* file names
    Absent,           \* what a path without a file holds
    NoMagic           \* any word that is no magic

Erased == "ff"
Zero == "00"
ErasedCell == [blob |-> Erased, at |-> 0]
ZeroCell == [blob |-> Zero, at |-> 0]

Cell == [blob : Blob \cup {Erased, Zero}, at : Nat]
File == Seq(Cell)

FlashSize == 2 * FlashHalf
SignedFile(b, len) == [k \in 1 .. len |-> [blob |-> b, at |-> k - 1]]
Cells(c, len) == [k \in 1 .. len |-> c]

(* What the signer writes for b, or its start: its cells in their order, with *)
(* 0xff for some of those behind the header.                                  *)
SignedAs(file, b) ==
    /\ file \in File
    /\ \A k \in 1 .. Len(file) :
          \/ file[k] = [blob |-> b, at |-> k - 1]
          \/ k > HeaderSize /\ file[k] = ErasedCell

BlobHeaders ==
    [magic : {MAGIC_HAVEN, MAGIC_CITADEL, NoMagic},
     image_size : Word, ro_base : Word, ro_max : Word, rx_base : Word, rx_max : Word]
ASSUME BlobAssumption ==
    /\ Blob \cap {Erased, Zero} = {}
    /\ \A b \in Blob : BlobHeader(b) \in BlobHeaders /\ SignedAs(BlobFile(b), b)

(* Offsets of the slots in an image. *)
Offset(slot) == slot - FlashBase

(* Erased flash reads as MAGIC_HAVEN and all-ones words; cells that are not  *)
(* the header cell they are read as hold neither magic nor sizes.            *)
Ones == WordSize - 1
ErasedHeader ==
    [magic |-> MAGIC_HAVEN, image_size |-> Ones, ro_base |-> Ones, ro_max |-> Ones,
     rx_base |-> Ones, rx_max |-> Ones]
ForeignHeader ==
    [magic |-> NoMagic, image_size |-> 0, ro_base |-> 0, ro_max |-> 0, rx_base |-> 0, rx_max |-> 0]
field_cell(c, at) ==
    IF c = ErasedCell THEN ErasedHeader
    ELSE IF c.blob \in Blob /\ c.at = at THEN BlobHeader(c.blob) ELSE ForeignHeader

magic_at(file, off) == field_cell(file[off + 1], 0).magic
layout_at(file, off) == field_cell(file[off + TagOffset + 1], TagOffset)
header_at(file, off) == [layout_at(file, off) EXCEPT !.magic = magic_at(file, off)]

(* read_le() dies on a file that ends inside the header. *)
readable(file) == file # Absent /\ Len(file) > TagOffset

supported_magic(magic) == magic \in {MAGIC_HAVEN, MAGIC_CITADEL}

(* Mutant: the base is not compared with the slot's. *)
verify_blob_any_base(file, adr) ==
    /\ readable(file)
    /\ supported_magic(magic_at(file, 0))
    /\ LET h == layout_at(file, 0) IN
       /\ h.ro_max >= h.ro_base
       /\ h.rx_max >= h.rx_base

verify_blob(file, adr) ==
    /\ readable(file)
    /\ supported_magic(magic_at(file, 0))
    /\ LET h == layout_at(file, 0) IN
       /\ h.ro_base = adr
       /\ h.ro_max >= h.ro_base
       /\ h.rx_max >= h.rx_base

(* Mutant: the image may extend past the end of the file. *)
valid_signed_header_at_unbounded(file, off, total) ==
    /\ off + HeaderSize <= total
    /\ supported_magic(magic_at(file, off))
    /\ LET h == layout_at(file, off) IN
       /\ h.image_size >= BankSize
       /\ h.rx_base = h.ro_base + HeaderSize
       /\ h.ro_max > h.ro_base
       /\ h.rx_max > h.rx_base

valid_signed_header_at(file, off, total) ==
    /\ off + HeaderSize <= total
    /\ supported_magic(magic_at(file, off))
    /\ LET h == layout_at(file, off) IN
       /\ h.image_size >= BankSize
       /\ h.rx_base = h.ro_base + HeaderSize
       /\ h.ro_max > h.ro_base
       /\ h.rx_max > h.rx_base
       /\ h.image_size <= total - off

(* dd with skip and count: at most size cells from off on. *)
(* Mutant: one cell is lost.                               *)
copy_range_short(file, off, size) ==
    SubSeq(file, off + 1, IF off + size <= Len(file) THEN off + size - 1 ELSE Len(file))

copy_range(file, off, size) ==
    SubSeq(file, off + 1, IF off + size <= Len(file) THEN off + size ELSE Len(file))

(* dd with conv=notrunc and seek: cells written over a file at off. *)
write_blob(src, dst, off) ==
    LET end == IF Len(dst) > off + Len(src) THEN Len(dst) ELSE off + Len(src) IN
    [k \in 1 .. end |-> IF off < k /\ k <= off + Len(src) THEN src[k - off] ELSE dst[k]]

Prefixes(s) == {SubSeq(s, 1, k) : k \in 0 .. Len(s)}

-----------------------------------------------------------------------------
(* What the loader answers for a slot of the flash image: the checks of the  *)
(* header, then the digest of what lies from its tag to its image_size.       *)
loader_verdict(file, slot) ==
    LET off == Offset(slot)
        h == header_at(file, off)
        code == verify_SignedHeader(h, SlotSize(slot), slot)
        b == file[off + TagOffset + 1].blob
    IN  IF code # LAUNCH_SUCCESS THEN code
        ELSE IF SubSeq(file, off + TagOffset + 1, off + h.image_size)
                  = SubSeq(BlobFile(b), TagOffset + 1, h.image_size)
             THEN LAUNCH_SUCCESS
             ELSE LAUNCH_INVALID_HASH
=============================================================================
