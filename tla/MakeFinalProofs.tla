-------------------------- MODULE MakeFinalProofs --------------------------
(***************************************************************************)
(* What make_final_img.sh leaves behind, for every firmware, every pair of   *)
(* RO blobs and every file it may write over.                                *)
(*                                                                           *)
(* What its packer does is proved in PackerProofs.  PP is that module for    *)
(* this packer's position and arguments; the lemmas of the first part state  *)
(* what is used of it in terms of this module's files.                       *)
(***************************************************************************)
EXTENDS MakeFinal, SequenceTheorems, TLAPS

PP == INSTANCE PackerProofs WITH pc <- ppc, args <- pargs, PackerRuns <- {}

-----------------------------------------------------------------------------
(* The scripts' common files.                                                *)

LEMMA SameCells ==
    /\ PP!RwSize = RwSize /\ PP!Erased = Erased /\ PP!Zero = Zero
    /\ PP!ErasedCell = ErasedCell /\ PP!ZeroCell = ZeroCell
    /\ PP!Cell = Cell /\ PP!File = File /\ PP!BlobHeaders = BlobHeaders
    /\ PP!FlashSize = FlashSize
    /\ PP!RO_A_BASE = RO_A_BASE /\ PP!RO_B_BASE = RO_B_BASE
    /\ PP!RW_A_BASE = RW_A_BASE /\ PP!RW_B_BASE = RW_B_BASE
  BY DEF PP!RwSize, RwSize, PP!Erased, Erased, PP!Zero, Zero, PP!ErasedCell, ErasedCell,
     PP!ZeroCell, ZeroCell, PP!Cell, Cell, PP!File, File, PP!BlobHeaders, BlobHeaders, PP!Word, Word,
     PP!FlashSize, FlashSize, PP!RO_A_BASE, RO_A_BASE, PP!RO_B_BASE, RO_B_BASE,
     PP!RW_A_BASE, RW_A_BASE, PP!RW_B_BASE, RW_B_BASE

LEMMA SameOperators ==
    /\ \A slot : PP!Offset(slot) = Offset(slot)
    /\ \A file, b : PP!SignedAs(file, b) <=> SignedAs(file, b)
    /\ \A file, adr : PP!verify_blob(file, adr) <=> verify_blob(file, adr)
    /\ \A src, dst, off : PP!write_blob(src, dst, off) = write_blob(src, dst, off)
    /\ \A s : PP!Prefixes(s) = Prefixes(s)
    /\ \A c, n : PP!Cells(c, n) = Cells(c, n)
<1>1. \A slot : PP!Offset(slot) = Offset(slot)
  BY DEF PP!Offset, Offset
<1>2. \A file, b : PP!SignedAs(file, b) <=> SignedAs(file, b)
  BY SameCells DEF PP!SignedAs, SignedAs
<1>3. \A c, at : PP!field_cell(c, at) = field_cell(c, at)
  BY SameCells DEF PP!field_cell, field_cell, PP!ErasedHeader, ErasedHeader, PP!ForeignHeader,
     ForeignHeader, PP!Ones, Ones
<1>4. \A file, adr : PP!verify_blob(file, adr) <=> verify_blob(file, adr)
  BY <1>3 DEF PP!verify_blob, verify_blob, PP!readable, readable, PP!supported_magic, supported_magic,
     PP!magic_at, magic_at, PP!layout_at, layout_at
<1>5. /\ \A src, dst, off : PP!write_blob(src, dst, off) = write_blob(src, dst, off)
      /\ \A s : PP!Prefixes(s) = Prefixes(s)
      /\ \A c, n : PP!Cells(c, n) = Cells(c, n)
  BY DEF PP!write_blob, write_blob, PP!Prefixes, Prefixes, PP!Cells, Cells
<1>6. QED
  BY <1>1, <1>2, <1>4, <1>5

LEMMA SamePack ==
    /\ Pack!ErasedCell = ErasedCell /\ Pack!ZeroCell = ZeroCell /\ Pack!FlashSize = FlashSize
    /\ Pack!RO_A_BASE = RO_A_BASE /\ Pack!RO_B_BASE = RO_B_BASE
    /\ Pack!RW_A_BASE = RW_A_BASE /\ Pack!RW_B_BASE = RW_B_BASE
    /\ Pack!valid = PP!valid /\ Pack!Out = PP!Out
    /\ \A slot : Pack!Offset(slot) = Offset(slot)
    /\ \A src, dst, off : Pack!write_blob(src, dst, off) = write_blob(src, dst, off)
    /\ \A s : Pack!Prefixes(s) = Prefixes(s)
    /\ \A c, n : Pack!Cells(c, n) = Cells(c, n)
    /\ \A file : Pack!resized(file) = PP!resized(file)
    /\ \A from, to, file, partials :
          Pack!Command(from, to, file, partials) = PP!Command(from, to, file, partials)
<1>1. Pack!ErasedCell = ErasedCell /\ Pack!ZeroCell = ZeroCell /\ Pack!FlashSize = FlashSize
  BY DEF Pack!ErasedCell, ErasedCell, Pack!ZeroCell, ZeroCell, Pack!Erased, Erased, Pack!Zero, Zero,
     Pack!FlashSize, FlashSize
<1>2. /\ Pack!RO_A_BASE = RO_A_BASE /\ Pack!RO_B_BASE = RO_B_BASE
      /\ Pack!RW_A_BASE = RW_A_BASE /\ Pack!RW_B_BASE = RW_B_BASE
  BY DEF Pack!RO_A_BASE, RO_A_BASE, Pack!RO_B_BASE, RO_B_BASE, Pack!RW_A_BASE, RW_A_BASE,
     Pack!RW_B_BASE, RW_B_BASE
<1>3. \A c, at : Pack!field_cell(c, at) = PP!field_cell(c, at)
  BY DEF PP!field_cell, Pack!field_cell, PP!ErasedHeader, Pack!ErasedHeader, PP!ForeignHeader,
     Pack!ForeignHeader, PP!Ones, Pack!Ones, Pack!ErasedCell, PP!ErasedCell, Pack!Erased, PP!Erased
<1>4. /\ \A file, off : PP!magic_at(file, off) = Pack!magic_at(file, off)
      /\ \A file, off : PP!layout_at(file, off) = Pack!layout_at(file, off)
  BY <1>3 DEF PP!magic_at, Pack!magic_at, PP!layout_at, Pack!layout_at
<1>5. \A file, adr : PP!verify_blob(file, adr) = Pack!verify_blob(file, adr)
  BY <1>4 DEF PP!verify_blob, Pack!verify_blob, PP!readable, Pack!readable, PP!supported_magic,
     Pack!supported_magic
<1>6. Pack!valid = PP!valid
  BY <1>2, <1>4, <1>5, SameCells DEF Pack!valid, PP!valid, Pack!Inputs, PP!Inputs
<1>7. /\ \A slot : Pack!Offset(slot) = Offset(slot)
      /\ \A src, dst, off : Pack!write_blob(src, dst, off) = write_blob(src, dst, off)
      /\ \A s : Pack!Prefixes(s) = Prefixes(s)
      /\ \A c, n : Pack!Cells(c, n) = Cells(c, n)
      /\ Pack!Out = PP!Out
  BY DEF Pack!Offset, Offset, Pack!write_blob, write_blob, Pack!Prefixes, Prefixes, Pack!Cells, Cells,
     Pack!Out, PP!Out
<1>8. \A file : Pack!resized(file) = PP!resized(file)
  BY <1>1, SameCells DEF Pack!resized, PP!resized
<1>9. \A from, to, file, partials :
         Pack!Command(from, to, file, partials) = PP!Command(from, to, file, partials)
  BY DEF Pack!Command, PP!Command
<1>10. QED
  BY <1>1, <1>2, <1>6, <1>7, <1>8, <1>9

LEMMA SameCarve ==
    /\ \A slot : Carve!Offset(slot) = Offset(slot)
    /\ \A file, off : Carve!layout_at(file, off) = layout_at(file, off)
    /\ \A file, off, total :
          Carve!valid_signed_header_at(file, off, total) <=> valid_signed_header_at(file, off, total)
    /\ \A file, off, size : Carve!copy_range(file, off, size) = copy_range(file, off, size)
    /\ \A s : Carve!Prefixes(s) = Prefixes(s)
<1>1. \A c, at : Carve!field_cell(c, at) = field_cell(c, at)
  BY DEF field_cell, Carve!field_cell, ErasedHeader, Carve!ErasedHeader, ForeignHeader,
     Carve!ForeignHeader, Ones, Carve!Ones, Carve!ErasedCell, ErasedCell, Carve!Erased, Erased
<1>2. /\ \A file, off : Carve!magic_at(file, off) = magic_at(file, off)
      /\ \A file, off : Carve!layout_at(file, off) = layout_at(file, off)
  BY <1>1 DEF magic_at, Carve!magic_at, layout_at, Carve!layout_at
<1>3. \A file, off, total :
         Carve!valid_signed_header_at(file, off, total) <=> valid_signed_header_at(file, off, total)
  BY <1>2 DEF valid_signed_header_at, Carve!valid_signed_header_at, supported_magic,
     Carve!supported_magic
<1>4. /\ \A slot : Carve!Offset(slot) = Offset(slot)
      /\ \A file, off, size : Carve!copy_range(file, off, size) = copy_range(file, off, size)
      /\ \A s : Carve!Prefixes(s) = Prefixes(s)
  BY DEF Carve!Offset, Offset, Carve!copy_range, copy_range, Carve!Prefixes, Prefixes
<1>5. QED
  BY <1>2, <1>3, <1>4

-----------------------------------------------------------------------------
(* What is used of the packer's proofs.                                      *)

LEMMA SlotOrder ==
    /\ FlashSize \in Nat /\ HeaderSize \in Nat /\ TagOffset \in Nat /\ TagOffset < HeaderSize
    /\ BankSize \in Nat /\ HeaderSize < BankSize /\ RwSize \in Nat /\ RoSize \in Nat
    /\ BankSize <= RoSize /\ BankSize <= RwSize
    /\ Offset(RO_A_BASE) = 0 /\ {Offset(RW_A_BASE), Offset(RO_B_BASE), Offset(RW_B_BASE)} \subseteq Nat
    /\ RoSize <= Offset(RW_A_BASE) /\ Offset(RW_A_BASE) + RwSize <= Offset(RO_B_BASE)
    /\ Offset(RO_B_BASE) + RoSize <= Offset(RW_B_BASE) /\ Offset(RW_B_BASE) + RwSize <= FlashSize
<1>1. /\ {FlashBase, FlashHalf, RoSize, TopSize, BankSize} \subseteq Nat \ {0}
      /\ RoSize + TopSize < FlashHalf
      /\ HeaderSize \in Nat /\ TagOffset \in Nat \ {0} /\ TagOffset < HeaderSize
      /\ VectorSize \in Nat \ {0} /\ HeaderSize + VectorSize <= BankSize
      /\ BankSize <= RoSize /\ BankSize <= RwSize /\ RwSize = FlashHalf - RoSize - TopSize
  BY FlashLayoutAssumption, SignedHeaderAssumption DEF RwSize
<1>2. QED
  BY <1>1 DEF RO_A_BASE, RO_B_BASE, RW_A_BASE, RW_B_BASE, Offset, FlashSize

LEMMA FileCells ==
    ASSUME NEW s \in File
    PROVE  /\ Len(s) \in Nat /\ DOMAIN s = 1 .. Len(s) /\ \A k \in 1 .. Len(s) : s[k] \in Cell
  BY DEF File

LEMMA PrefixIsFile ==
    ASSUME NEW s \in File, NEW p \in Prefixes(s)
    PROVE  p \in File
  BY PP!PrefixFacts, FlashLayoutAssumption, SignedHeaderAssumption, BlobAssumption, SameCells,
     SameOperators

LEMMA WriteBlob ==
    ASSUME NEW src \in File, NEW dst \in File, NEW off \in Nat, off <= Len(dst)
    PROVE  /\ write_blob(src, dst, off) \in File
           /\ Len(write_blob(src, dst, off))
                = IF Len(dst) > off + Len(src) THEN Len(dst) ELSE off + Len(src)
           /\ \A k \in 1 .. Len(write_blob(src, dst, off)) :
                 write_blob(src, dst, off)[k]
                   = IF off < k /\ k <= off + Len(src) THEN src[k - off] ELSE dst[k]
<1> DEFINE w == PP!write_blob(src, dst, off)
<1>1. src \in PP!File /\ dst \in PP!File
  BY SameCells
<1>2. /\ w \in PP!File
      /\ Len(w) = IF Len(dst) > off + Len(src) THEN Len(dst) ELSE off + Len(src)
      /\ \A k \in 1 .. Len(w) : w[k] = IF off < k /\ k <= off + Len(src) THEN src[k - off] ELSE dst[k]
  BY <1>1, PP!WriteBlob, FlashLayoutAssumption, SignedHeaderAssumption, BlobAssumption, SameCells,
     SameOperators
<1>3. write_blob(src, dst, off) = w /\ PP!File = File
  BY SameCells, SameOperators
<1> HIDE DEF w
<1>4. QED
  BY <1>2, <1>3

LEMMA ConstantFile ==
    ASSUME NEW n \in Nat, NEW c \in {ErasedCell, ZeroCell}
    PROVE  /\ Cells(c, n) \in File /\ Len(Cells(c, n)) = n
           /\ \A k \in 1 .. n : Cells(c, n)[k] = c
<1>1. c \in Cell
  BY DEF ErasedCell, ZeroCell, Cell
<1>2. QED
  BY <1>1, PP!ConstantFile, FlashLayoutAssumption, SignedHeaderAssumption, BlobAssumption, SameCells,
     SameOperators

LEMMA PackingStep == PP!Packing /\ pargs.output \notin PP!Inputs /\ [PP!Next]_(PP!vars) => PP!Packing'
  BY PP!PackingStep, FlashLayoutAssumption, SignedHeaderAssumption, BlobAssumption, SameCells,
     SameOperators

LEMMA PackerImage ==
    ASSUME PP!Packing, ppc = "exit0"
    PROVE  /\ PP!valid /\ PP!Out \in File
           /\ Len(PP!Out) \in Nat /\ Len(PP!Out) >= FlashSize
           /\ \A s \in PP!Slotted : Len(PP!Out) >= Offset(s[2]) + Len(fs[s[1]])
           /\ \A k \in 1 .. Len(PP!Out), s \in PP!Slotted :
                 /\ PP!Covers(s, k)
                 /\ \A t \in PP!Slotted : Offset(t[2]) > Offset(s[2]) => ~PP!Covers(t, k)
                 => PP!Out[k] = fs[s[1]][k - Offset(s[2])]
<1>1. PP!Typed /\ PP!valid /\ PP!Out = PP!WithRwB
  BY DEF PP!Packing, PP!ImageSoFar
<1>2. \A s : PP!EndOf(s) = Offset(s[2]) + Len(fs[s[1]])
  BY SameOperators DEF PP!EndOf
<1>3. PP!Out \in File
  BY <1>1, PP!Layers, FlashLayoutAssumption, SignedHeaderAssumption, BlobAssumption, SameCells,
     SameOperators
<1>4. QED
  BY <1>1, <1>2, <1>3, PP!FinalImage, FlashLayoutAssumption, SignedHeaderAssumption, BlobAssumption,
     SameCells, SameOperators

LEMMA PackerSteps == Pack!Script => PP!Next
<1>1. Pack!check => PP!check
  BY SamePack DEF Pack!check, PP!check
<1>2. Pack!remove => PP!remove
  BY SamePack DEF Pack!remove, PP!remove
<1>3. Pack!truncate => PP!truncate
  BY SamePack DEF Pack!truncate, PP!truncate
<1>4. Pack!fill => PP!fill
  <2>1. Cells(Pack!ErasedCell, Pack!FlashSize) = PP!Cells(PP!ErasedCell, PP!FlashSize)
    BY SamePack, SameCells, SameOperators
  <2>2. QED
    BY <2>1, SamePack, SameCells, SameOperators DEF Pack!fill, PP!fill
<1>5. \A from, to, src, slot : Pack!write(from, to, src, slot) => PP!write(from, to, src, slot)
  BY SamePack, SameOperators DEF Pack!write, PP!write
<1>6. QED
  BY <1>1, <1>2, <1>3, <1>4, <1>5, SamePack, SameCells DEF Pack!Script, PP!Next, PP!Script,
     Pack!write_ro_a, PP!write_ro_a, Pack!write_rw_a, PP!write_rw_a, Pack!write_ro_b, PP!write_ro_b,
     Pack!write_rw_b, PP!write_rw_b
-----------------------------------------------------------------------------
(* The invariant (make_final_img.sh main).                                   *)

Tmps == {TmpA, TmpB}
(* Once the carver has found a section of the source in a slot. *)
HasSection(slot) ==
    Source \in File /\ valid_signed_header_at(Source, Offset(slot), Len(Source))

(* The arguments: mktemp's names are new, no other file is called so. *)
GivenFiles ==
    /\ {args.ro_a, args.ro_b, args.source, args.output} \subseteq Path \ Tmps
    /\ args.output # args.ro_b
    /\ TmpA # TmpB /\ Tmps \subseteq Path /\ NoPath \notin Path
    /\ given \in [Path -> {Absent} \cup File] /\ given[TmpA] = Absent /\ given[TmpB] = Absent
Unpacked == {"mktemp_rw_a", "mktemp_rw_b", "check", "carve_rw_a", "carve_rw_b"}
Steps == Unpacked \cup {"pack", "clean"} \cup Exited
(* Nothing but the output and the temporary files is ever written, and the   *)
(* output not before the packer runs.                                          *)
FilesKept ==
    /\ DOMAIN fs = Path
    /\ \A p \in Path \ (Tmps \cup {args.output}) : fs[p] = given[p]
    /\ step \in Unpacked => fs \in [Path -> {Absent} \cup File] /\ Out = given[args.output]
RoChecked ==
    /\ Source # Absent
    /\ verify_blob(given[args.ro_a], RO_A_BASE) /\ verify_blob(given[args.ro_b], RO_B_BASE)
(* A carver at work, and what it has left. *)
Carving(slot, path) ==
    /\ cargs = CarveArgs(path, slot)
    /\ cpc \in {"check", "copy", "exit0", "exit1"}
    /\ cpc \in {"copy", "exit0"} => path # NoPath /\ HasSection(slot)
    /\ cpc = "exit0" => fs[path] = Section(slot)
Carved(slot, path) == HasSection(slot) /\ path \in Tmps /\ fs[path] = Section(slot)

(* The packer writing over the RO_A blob it reads.  From the moment that is    *)
(* gone, what is in its place is no blob for RO_A.                              *)
Truncated == {"fill", "write_ro_a", "write_rw_a", "write_ro_b", "write_rw_b"}
OverRoA ==
    /\ ppc \in {"check", "remove", "truncate"} \cup Truncated \cup Pack!Exited
    /\ ppc \notin Pack!Exited => fs \in [Path -> {Absent} \cup File]
    /\ ppc = "remove" => Pack!valid
    /\ ppc = "truncate" => Out = Absent
    /\ ppc \in Truncated =>
          Out \in File /\ Len(Out) >= FlashSize /\ Out[TagOffset + 1] \in {ErasedCell, ZeroCell}

Verdicts ==
    /\ \A slot \in RwSlots : loader_verdict(Out, slot) = loader_verdict(Source, slot)
    /\ \A ro \in {<<args.ro_a, RO_A_BASE>>, <<args.ro_b, RO_B_BASE>>} :
          verify_SignedHeader(header_at(Out, Offset(ro[2])), RoSize, ro[2])
            = verify_SignedHeader(header_at(given[ro[1]], 0), RoSize, ro[2])

MakeInv ==
    /\ GivenFiles /\ FilesKept
    /\ step \in Steps
    /\ tmp \in [rw_a : {NoPath, TmpA}, rw_b : {NoPath, TmpB}]
    /\ step \in {"carve_rw_a", "carve_rw_b", "pack"} => RoChecked
    /\ step = "carve_rw_a" => Carving(RW_A_BASE, tmp.rw_a)
    /\ step = "carve_rw_b" => Carved(RW_A_BASE, tmp.rw_a) /\ Carving(RW_B_BASE, tmp.rw_b)
    /\ step = "pack" =>
          /\ Carved(RW_A_BASE, tmp.rw_a) /\ Carved(RW_B_BASE, tmp.rw_b)
          /\ pargs = PackArgs
          /\ IF args.output = args.ro_a THEN OverRoA ELSE PP!Packing
    /\ step \in {"clean", "exit0"} =>
          /\ tmp.rw_a = TmpA /\ tmp.rw_b = TmpB
          /\ args.output # args.ro_a => Verdicts
    /\ step = "exit0" => fs[TmpA] = Absent /\ fs[TmpB] = Absent

(* What mktemp and a carver, stopped anywhere, have left in a temporary file.  *)
Leftover(slot, path) == fs[path] \in {Absent, <<>>} \cup Prefixes(Section(slot))
TmpsLeft == Leftover(RW_A_BASE, TmpA) /\ Leftover(RW_B_BASE, TmpB)

-----------------------------------------------------------------------------
(* The final image.                                                          *)

LEMMA SectionCells ==
    ASSUME NEW slot \in RwSlots, HasSection(slot)
    PROVE  LET off == Offset(slot)
               size == layout_at(Source, off).image_size
           IN  /\ off \in Nat /\ size \in Nat /\ size >= BankSize /\ off + size <= Len(Source)
               /\ Section(slot) \in File /\ Len(Section(slot)) = size
               /\ \A k \in 1 .. size : Section(slot)[k] = Source[off + k]
<1> DEFINE off == Offset(slot)
           size == layout_at(Source, off).image_size
<1>1. Source \in File /\ Len(Source) \in Nat /\ \A k \in 1 .. Len(Source) : Source[k] \in Cell
  BY FileCells DEF HasSection
<1>2. off \in Nat /\ BankSize \in Nat
  BY SlotOrder DEF RwSlots
<1>3. size \in Nat
  <2>1. WordSize \in Nat \ {0}
    BY FlashLayoutAssumption
  <2>2. \A c : field_cell(c, TagOffset).image_size \in Nat
    BY <2>1, BlobAssumption DEF field_cell, ErasedHeader, ForeignHeader, Ones, BlobHeaders, Word
  <2>3. QED
    BY <2>2 DEF layout_at
<1>4. size >= BankSize /\ size <= Len(Source) - off
  BY DEF HasSection, valid_signed_header_at
<1> HIDE DEF off, size
<1>5. Section(slot) = SubSeq(Source, off + 1, off + size)
  <2>1. Section(slot) = copy_range(Source, off, size)
    BY DEF Section, off, size
  <2>2. off + size <= Len(Source)
    BY <1>1, <1>2, <1>3, <1>4
  <2>3. QED
    BY <2>1, <2>2 DEF copy_range
<1>6. size > 0
  BY <1>2, <1>3, <1>4, SlotOrder
<1>7. \A i \in off + 1 .. off + size : Source[i] \in Cell
  BY <1>1, <1>2, <1>3, <1>4
<1>8. /\ Section(slot) \in File /\ Len(Section(slot)) = size
      /\ \A k \in 1 .. size : Section(slot)[k] = Source[off + k]
  BY <1>1, <1>2, <1>3, <1>4, <1>5, <1>6, <1>7, SubSeqProperties DEF File
<1>9. off + size <= Len(Source)
  BY <1>1, <1>2, <1>3, <1>4
<1>10. QED
  BY <1>2, <1>3, <1>4, <1>8, <1>9 DEF off, size

LEMMA SamePart ==
    ASSUME NEW f \in File, NEW g \in File, NEW m \in Int, NEW n \in Int, m <= n,
           \A i \in m .. n : f[i] = g[i] /\ i \in 1 .. Len(f) /\ i \in 1 .. Len(g)
    PROVE  SubSeq(f, m, n) = SubSeq(g, m, n)
<1> DEFINE left == SubSeq(f, m, n)
           right == SubSeq(g, m, n)
<1>1. \A i \in m .. n : f[i] \in Cell /\ g[i] \in Cell
  BY FileCells
<1>2. /\ left \in Seq(Cell) /\ Len(left) = n - m + 1
      /\ \A i \in 1 .. n - m + 1 : left[i] = f[m + i - 1]
  BY <1>1, SubSeqProperties
<1>3. /\ right \in Seq(Cell) /\ Len(right) = n - m + 1
      /\ \A i \in 1 .. n - m + 1 : right[i] = g[m + i - 1]
  BY <1>1, SubSeqProperties
<1>4. \A i \in 1 .. n - m + 1 : m + i - 1 \in m .. n
  OBVIOUS
<1> HIDE DEF left, right
<1>5. \A i \in 1 .. Len(left) : left[i] = right[i]
  BY <1>2, <1>3, <1>4
<1>6. QED
  BY <1>2, <1>3, <1>5, SeqEqual DEF left, right

(* Two files that agree where a slot's image can be launched from: over all    *)
(* of the image if it fits, over the slot if it does not.                       *)
LEMMA SameVerdict ==
    ASSUME NEW f \in File, NEW g \in File, NEW slot \in RwSlots,
           LET off == Offset(slot)
               size == layout_at(g, off).image_size
           IN  /\ size \in Nat /\ size >= BankSize /\ off + size <= Len(g)
               /\ off + RwSize <= Len(f)
               /\ \A k \in 1 .. size : k <= RwSize => f[off + k] = g[off + k]
    PROVE  loader_verdict(f, slot) = loader_verdict(g, slot)
<1> DEFINE off == Offset(slot)
           size == layout_at(g, off).image_size
           h == header_at(g, off)
           tag == off + TagOffset + 1
           fpart == SubSeq(f, tag, off + h.image_size)
           gpart == SubSeq(g, tag, off + h.image_size)
           code == verify_SignedHeader(h, SlotSize(slot), slot)
           b == g[tag].blob
<1>0. /\ size \in Nat /\ size >= BankSize /\ off + size <= Len(g)
      /\ off + RwSize <= Len(f) /\ \A k \in 1 .. size : k <= RwSize => f[off + k] = g[off + k]
  OBVIOUS
<1>1. /\ off \in Nat /\ TagOffset \in Nat /\ HeaderSize \in Nat /\ BankSize \in Nat /\ RwSize \in Nat
      /\ TagOffset < HeaderSize /\ HeaderSize < BankSize /\ BankSize <= RwSize
  BY SlotOrder DEF RwSlots
<1>2. Len(f) \in Nat /\ Len(g) \in Nat
  BY FileCells
<1>3. f[off + 1] = g[off + 1] /\ f[tag] = g[tag]
  <2>1. 1 \in 1 .. size /\ TagOffset + 1 \in 1 .. size /\ 1 <= RwSize /\ TagOffset + 1 <= RwSize
    BY <1>0, <1>1
  <2>2. off + (TagOffset + 1) = tag
    BY <1>1
  <2>3. QED
    BY <1>0, <2>1, <2>2
<1>4. header_at(f, off) = h /\ h.image_size = size
  <2>1. magic_at(f, off) = magic_at(g, off) /\ layout_at(f, off) = layout_at(g, off)
    BY <1>3 DEF magic_at, layout_at
  <2>2. header_at(f, off) = h
    BY <2>1 DEF header_at
  <2>3. layout_at(g, off) \in {ErasedHeader, ForeignHeader} \cup BlobHeaders
    BY BlobAssumption DEF layout_at, field_cell
  <2>4. h.image_size = size
    BY <2>3 DEF header_at, ErasedHeader, ForeignHeader, BlobHeaders
  <2>5. QED
    BY <2>2, <2>4
<1> HIDE DEF off, size, h
<1>5. SlotSize(slot) = RwSize
  <2>1. RW_A_BASE # RO_A_BASE /\ RW_A_BASE # RO_B_BASE /\ RW_B_BASE # RO_A_BASE /\ RW_B_BASE # RO_B_BASE
    <3>1. {FlashBase, FlashHalf, RoSize, TopSize} \subseteq Nat \ {0} /\ RoSize + TopSize < FlashHalf
      BY FlashLayoutAssumption
    <3>2. QED
      BY <3>1 DEF RW_A_BASE, RW_B_BASE, RO_A_BASE, RO_B_BASE
  <2>2. QED
    BY <2>1 DEF SlotSize, RwSlots, RoSlots
<1>6. ASSUME code = LAUNCH_SUCCESS PROVE fpart = gpart
  <2>1. size <= RwSize
    <3>1. ~(h.image_size > SlotSize(slot))
      BY <1>6 DEF verify_SignedHeader, LAUNCH_SUCCESS, LAUNCH_INVALID_MAGIC, LAUNCH_IMAGE_TOO_SMALL,
         LAUNCH_IMAGE_TOO_LARGE
    <3>2. QED
      BY <1>0, <1>1, <1>4, <1>5, <3>1
  <2>2. \A i \in tag .. off + size : f[i] = g[i] /\ i \in 1 .. Len(f) /\ i \in 1 .. Len(g)
    <3> SUFFICES ASSUME NEW i \in tag .. off + size
                 PROVE  f[i] = g[i] /\ i \in 1 .. Len(f) /\ i \in 1 .. Len(g)
      OBVIOUS
    <3>1. i - off \in 1 .. size /\ i - off <= RwSize /\ off + (i - off) = i
      BY <1>0, <1>1, <2>1
    <3>2. f[off + (i - off)] = g[off + (i - off)]
      BY <1>0, <3>1
    <3>3. QED
      BY <1>0, <1>1, <1>2, <2>1, <3>1, <3>2
  <2>3. tag \in Int /\ off + size \in Int /\ tag <= off + size
    BY <1>0, <1>1
  <2>4. QED
    BY <1>4, <2>2, <2>3, SamePart DEF fpart, gpart
<1>7. /\ loader_verdict(f, slot)
           = IF code # LAUNCH_SUCCESS THEN code
             ELSE IF fpart = SubSeq(BlobFile(b), TagOffset + 1, h.image_size)
                  THEN LAUNCH_SUCCESS ELSE LAUNCH_INVALID_HASH
      /\ loader_verdict(g, slot)
           = IF code # LAUNCH_SUCCESS THEN code
             ELSE IF gpart = SubSeq(BlobFile(b), TagOffset + 1, h.image_size)
                  THEN LAUNCH_SUCCESS ELSE LAUNCH_INVALID_HASH
  BY <1>3, <1>4 DEF loader_verdict, off, h
<1> HIDE DEF code, fpart, gpart, b
<1>8. QED
  BY <1>6, <1>7

(* What the packer put into a slot is there, as far as the slot goes: the      *)
(* slots are written in ascending order.                                        *)
LEMMA SlotKept ==
    ASSUME PP!Packing, ppc = "exit0", NEW s \in PP!Slotted,
           Len(fs[s[1]]) \in Nat, NEW k \in 1 .. Len(fs[s[1]]), k <= SlotSize(s[2])
    PROVE  PP!Out[Offset(s[2]) + k] = fs[s[1]][k]
<1>1. PP!Slotted = {<<pargs.ro_a, RO_A_BASE>>, <<pargs.rw_a, RW_A_BASE>>,
                    <<pargs.ro_b, RO_B_BASE>>, <<pargs.rw_b, RW_B_BASE>>}
  BY SameCells DEF PP!Slotted
<1>2. /\ Offset(s[2]) \in Nat /\ SlotSize(s[2]) \in Nat
      /\ \A t \in PP!Slotted : Offset(t[2]) \in Nat
      /\ \A t \in PP!Slotted :
            Offset(t[2]) > Offset(s[2]) => Offset(t[2]) >= Offset(s[2]) + SlotSize(s[2])
  <2>1. {FlashBase, FlashHalf, RoSize, TopSize} \subseteq Nat \ {0} /\ RoSize + TopSize < FlashHalf
    BY FlashLayoutAssumption
  <2>2. /\ SlotSize(RO_A_BASE) = RoSize /\ SlotSize(RO_B_BASE) = RoSize
        /\ SlotSize(RW_A_BASE) = RwSize /\ SlotSize(RW_B_BASE) = RwSize
    BY <2>1 DEF SlotSize, RoSlots, RW_A_BASE, RW_B_BASE, RO_A_BASE, RO_B_BASE
  <2>3. QED
    BY <1>1, <2>2, SlotOrder
<1> DEFINE i == Offset(s[2]) + k
<1>3. i - Offset(s[2]) = k /\ Offset(s[2]) < i /\ i <= Offset(s[2]) + Len(fs[s[1]])
  BY <1>2
<1>4. i \in 1 .. Len(PP!Out)
  <2>1. Len(PP!Out) \in Nat /\ Len(PP!Out) >= Offset(s[2]) + Len(fs[s[1]])
    BY PackerImage
  <2>2. QED
    BY <1>2, <2>1
<1>5. PP!Covers(s, i)
  BY <1>3, SameOperators DEF PP!Covers
<1>6. \A t \in PP!Slotted : Offset(t[2]) > Offset(s[2]) => ~PP!Covers(t, i)
  <2> SUFFICES ASSUME NEW t \in PP!Slotted, Offset(t[2]) > Offset(s[2])
               PROVE  ~(Offset(t[2]) < i)
    BY SameOperators DEF PP!Covers
  <2>1. Offset(t[2]) \in Nat /\ Offset(t[2]) >= Offset(s[2]) + SlotSize(s[2])
    BY <1>2
  <2>2. QED
    BY <1>2, <2>1
<1> HIDE DEF i
<1>7. PP!Out[i] = fs[s[1]][i - Offset(s[2])]
  BY <1>4, <1>5, <1>6, PackerImage
<1>8. QED
  BY <1>3, <1>7 DEF i

LEMMA ImageVerdicts ==
    ASSUME MakeInv, step = "pack", ppc = "exit0", args.output # args.ro_a
    PROVE  Verdicts
<1>1. /\ GivenFiles /\ FilesKept /\ RoChecked /\ PP!Packing /\ pargs = PackArgs
      /\ Carved(RW_A_BASE, tmp.rw_a) /\ Carved(RW_B_BASE, tmp.rw_b)
  BY DEF MakeInv
<1>2. Out = PP!Out /\ Out \in File /\ Len(Out) \in Nat /\ Len(Out) >= FlashSize
  <2>1. Out = PP!Out
    BY <1>1 DEF Out, PP!Out, PackArgs
  <2>2. QED
    BY <1>1, <2>1, PackerImage
<1>3. PP!Slotted = {<<args.ro_a, RO_A_BASE>>, <<tmp.rw_a, RW_A_BASE>>,
                    <<args.ro_b, RO_B_BASE>>, <<tmp.rw_b, RW_B_BASE>>}
  BY <1>1, SameCells DEF PP!Slotted, PackArgs
<1>4. /\ SlotSize(RO_A_BASE) = RoSize /\ SlotSize(RO_B_BASE) = RoSize
      /\ SlotSize(RW_A_BASE) = RwSize /\ SlotSize(RW_B_BASE) = RwSize
  <2>1. {FlashBase, FlashHalf, RoSize, TopSize} \subseteq Nat \ {0} /\ RoSize + TopSize < FlashHalf
    BY FlashLayoutAssumption
  <2>2. QED
    BY <2>1 DEF SlotSize, RoSlots, RW_A_BASE, RW_B_BASE, RO_A_BASE, RO_B_BASE
<1>5. ASSUME NEW slot \in RwSlots, NEW path, Carved(slot, path), <<path, slot>> \in PP!Slotted
      PROVE  loader_verdict(Out, slot) = loader_verdict(Source, slot)
  <2> DEFINE off == Offset(slot)
             size == layout_at(Source, off).image_size
  <2>1. HasSection(slot) /\ fs[path] = Section(slot) /\ Source \in File
    BY <1>5 DEF Carved, HasSection
  <2>2. /\ off \in Nat /\ size \in Nat /\ size >= BankSize /\ off + size <= Len(Source)
        /\ Len(fs[path]) = size
        /\ \A k \in 1 .. size : fs[path][k] = Source[off + k]
    BY <2>1, SectionCells
  <2>3. off + RwSize <= Len(Out)
    BY <1>2, SlotOrder DEF RwSlots
  <2>4. SlotSize(slot) = RwSize
    BY <1>4 DEF RwSlots
  <2> HIDE DEF size
  <2>5. ASSUME NEW k \in 1 .. size, k <= RwSize PROVE Out[off + k] = Source[off + k]
    <3> DEFINE s == <<path, slot>>
    <3>1. s \in PP!Slotted /\ s[1] = path /\ s[2] = slot
      BY <1>5
    <3> HIDE DEF s
    <3>2. PP!Out[Offset(s[2]) + k] = fs[s[1]][k]
      BY <1>1, <2>2, <2>4, <2>5, <3>1, SlotKept
    <3>3. QED
      BY <1>2, <2>2, <3>1, <3>2
  <2>6. QED
    BY <1>2, <2>1, <2>2, <2>3, <2>5, SameVerdict DEF size
<1>6. ASSUME NEW ro \in {<<args.ro_a, RO_A_BASE>>, <<args.ro_b, RO_B_BASE>>}
      PROVE  verify_SignedHeader(header_at(Out, Offset(ro[2])), RoSize, ro[2])
               = verify_SignedHeader(header_at(given[ro[1]], 0), RoSize, ro[2])
  <2>1. ro \in PP!Slotted /\ SlotSize(ro[2]) = RoSize
    BY <1>3, <1>4
  <2>2. /\ fs[ro[1]] = given[ro[1]] /\ given[ro[1]] \in File
        /\ Len(given[ro[1]]) \in Nat /\ Len(given[ro[1]]) > TagOffset
    <3>1. verify_blob(given[ro[1]], ro[2]) /\ ro[1] \in Path \ Tmps /\ ro[1] # args.output
      BY <1>1 DEF RoChecked, GivenFiles
    <3>2. given[ro[1]] # Absent /\ Len(given[ro[1]]) > TagOffset
      BY <3>1 DEF verify_blob, readable
    <3>3. given[ro[1]] \in File /\ fs[ro[1]] = given[ro[1]]
      BY <1>1, <3>1, <3>2 DEF GivenFiles, FilesKept
    <3>4. QED
      BY <3>2, <3>3, FileCells
  <2>3. /\ 1 \in 1 .. Len(fs[ro[1]]) /\ TagOffset + 1 \in 1 .. Len(fs[ro[1]]) /\ Len(fs[ro[1]]) \in Nat
        /\ 1 <= RoSize /\ TagOffset + 1 <= RoSize /\ TagOffset \in Nat
        /\ Offset(ro[2]) + (TagOffset + 1) = Offset(ro[2]) + TagOffset + 1
    <3>1. Offset(ro[2]) \in Nat
      BY SlotOrder
    <3>2. QED
      BY <2>2, <3>1, SlotOrder
  <2>4. /\ Out[Offset(ro[2]) + 1] = given[ro[1]][1]
        /\ Out[Offset(ro[2]) + TagOffset + 1] = given[ro[1]][TagOffset + 1]
    <3>1. PP!Out[Offset(ro[2]) + 1] = fs[ro[1]][1]
      BY <1>1, <2>1, <2>3, SlotKept
    <3>2. PP!Out[Offset(ro[2]) + (TagOffset + 1)] = fs[ro[1]][TagOffset + 1]
      BY <1>1, <2>1, <2>3, SlotKept
    <3>3. QED
      BY <1>2, <2>2, <2>3, <3>1, <3>2
  <2>5. magic_at(Out, Offset(ro[2])) = magic_at(given[ro[1]], 0)
    BY <2>4 DEF magic_at
  <2>6. layout_at(Out, Offset(ro[2])) = layout_at(given[ro[1]], 0)
    <3>1. 0 + TagOffset + 1 = TagOffset + 1
      BY <2>3
    <3>2. QED
      BY <2>4, <3>1 DEF layout_at
  <2>7. QED
    BY <2>5, <2>6 DEF header_at
<1>7. QED
  BY <1>1, <1>3, <1>5, <1>6 DEF Verdicts, RwSlots

-----------------------------------------------------------------------------
(* The steps.                                                                *)

LEMMA InitMake == Init => MakeInv
<1> SUFFICES ASSUME Init PROVE MakeInv
  OBVIOUS
<1>1. PICK r \in MakeRuns : args = r.args /\ fs = r.fs
  BY DEF Init
<1>2. step = "mktemp_rw_a" /\ tmp = [rw_a |-> NoPath, rw_b |-> NoPath] /\ given = fs
  BY DEF Init
<1>3. GivenFiles
  BY <1>1, <1>2, MakeFinalAssumption DEF GivenFiles, Tmps
<1>4. FilesKept
  BY <1>1, <1>2, MakeFinalAssumption DEF FilesKept, Out
<1>5. QED
  BY <1>2, <1>3, <1>4 DEF MakeInv, Steps, Unpacked

LEMMA Untouched ==
    ASSUME GivenFiles, FilesKept, step \in Unpacked
    PROVE  /\ fs \in [Path -> {Absent} \cup File] /\ \A p \in Path \ Tmps : fs[p] = given[p]
           /\ fs[args.source] = Source /\ Source \in {Absent} \cup File
<1>1. \A p \in Path \ Tmps : fs[p] = given[p]
  BY DEF FilesKept, Out
<1>2. QED
  BY <1>1 DEF GivenFiles, FilesKept, Source

LEMMA WholeIsPrefix ==
    ASSUME NEW f \in File
    PROVE  f \in Prefixes(f)
<1> DEFINE part == SubSeq(f, 1, Len(f))
<1>1. Len(f) \in Nat /\ \A i \in 1 .. Len(f) : f[i] \in Cell
  BY FileCells
<1>2. part \in Seq(Cell) /\ Len(part) = Len(f) /\ \A i \in 1 .. Len(f) : part[i] = f[i]
  BY <1>1, SubSeqProperties
<1>3. f \in Seq(Cell)
  BY DEF File
<1> HIDE DEF part
<1>4. part = f
  BY <1>2, <1>3, SeqEqual
<1>5. \E k \in 0 .. Len(f) : f = SubSeq(f, 1, k)
  <2>1. Len(f) \in 0 .. Len(f) /\ f = SubSeq(f, 1, Len(f))
    BY <1>1, <1>4 DEF part
  <2>2. QED
    BY <2>1
<1>6. QED
  BY <1>5 DEF Prefixes

(* A command of a carver, whichever slot it is for. *)
LEMMA CarverStep ==
    ASSUME GivenFiles, FilesKept, step \in Unpacked, NEW slot \in RwSlots,
           NEW path \in {NoPath} \cup Tmps, Carving(slot, path), Carve!Script,
           UNCHANGED <<args, given>>
    PROVE  /\ Carving(slot, path)'
           /\ fs' \in [Path -> {Absent} \cup File]
           /\ \A p \in Path \ {path} : fs'[p] = fs[p]
           /\ path \in Path => fs'[path] \in {fs[path]} \cup Prefixes(Section(slot))
<1>1. /\ fs \in [Path -> {Absent} \cup File] /\ fs[args.source] = Source
      /\ Source \in {Absent} \cup File /\ args.source \notin Tmps /\ args.source # NoPath
  BY Untouched DEF GivenFiles
<1>2. /\ cargs.input = args.source /\ cargs.output = path /\ cargs.slot = slot
      /\ cargs.keep_header = TRUE /\ cpc \in {"check", "copy", "exit0", "exit1"}
      /\ Carve!In = Source
  BY <1>1 DEF Carving, CarveArgs, Carve!In
<1>3. cargs' = cargs /\ CarveArgs(path, slot)' = CarveArgs(path, slot)
  BY DEF Carve!Script, Carve!check, Carve!copy, Carve!trim_trailing_byte, CarveArgs
<1>4. (HasSection(slot)' <=> HasSection(slot)) /\ Section(slot)' = Section(slot)
  BY DEF HasSection, Section, Source
<1>5. CASE Carve!check
  <2>1. fs' = fs /\ cpc = "check" /\ cpc' \in {"copy", "exit1"} /\ (cpc' = "copy" => Carve!valid)
    BY <1>5 DEF Carve!check
  <2>2. ASSUME Carve!valid PROVE path # NoPath /\ HasSection(slot)
    BY <1>1, <1>2, <2>2, SameCarve DEF Carve!valid, HasSection
  <2>3. QED
    BY <1>1, <1>3, <1>4, <2>1, <2>2 DEF Carving
<1>6. CASE Carve!copy
  <2>1. cpc = "copy" /\ path \in Tmps /\ HasSection(slot) /\ path \in Path /\ cargs.input # cargs.output
    BY <1>1, <1>2, <1>6 DEF Carve!copy, Carving, GivenFiles
  <2>2. Section(slot) \in File
    BY <2>1, SectionCells
  <2>3. Carve!copy_range(Carve!In, Carve!section.off, Carve!section.size) = Section(slot)
    <3>1. Carve!section = [off |-> Offset(slot), size |-> layout_at(Source, Offset(slot)).image_size]
      BY <1>2, SameCarve DEF Carve!section, Carve!range
    <3>2. QED
      BY <1>2, <3>1, SameCarve DEF Section
  <2>4. \/ cpc' = "exit0" /\ fs' = [fs EXCEPT ![path] = Section(slot)]
        \/ /\ cpc' = "exit1"
           /\ \E p \in Prefixes(Section(slot)) \cup {fs[path]} : fs' = [fs EXCEPT ![path] = p]
    BY <1>2, <1>6, <2>1, <2>3, SameCarve DEF Carve!copy, Carve!Out
  <2>5. PICK x \in {Section(slot), fs[path]} \cup Prefixes(Section(slot)) :
           fs' = [fs EXCEPT ![path] = x]
    BY <2>4
  <2>6. x \in {Absent} \cup File
    BY <1>1, <2>1, <2>2, PrefixIsFile
  <2>7. fs' \in [Path -> {Absent} \cup File] /\ \A p \in Path \ {path} : fs'[p] = fs[p]
    BY <1>1, <2>5, <2>6
  <2>8. cpc' = "exit0" => fs'[path] = Section(slot)
    BY <1>1, <2>1, <2>4
  <2>9. fs'[path] \in {fs[path]} \cup Prefixes(Section(slot))
    <3>1. Section(slot) \in Prefixes(Section(slot))
      BY <2>2, WholeIsPrefix
    <3>2. QED
      BY <1>1, <2>1, <2>5, <3>1
  <2>10. QED
    BY <1>2, <1>3, <1>4, <2>1, <2>4, <2>7, <2>8, <2>9 DEF Carving
<1>7. QED
  BY <1>2, <1>5, <1>6 DEF Carve!Script, Carve!trim_trailing_byte

(* The packer leaves all files but the output alone. *)
LEMMA PackerWrites ==
    ASSUME Pack!Script
    PROVE  /\ pargs' = pargs
           /\ fs' = fs \/ \E x : fs' = [fs EXCEPT ![pargs.output] = x]
           /\ ppc \in {"check", "remove", "truncate"} \cup Truncated /\ (ppc = "check" => fs' = fs)
  BY DEF Pack!Script, Pack!check, Pack!remove, Pack!truncate, Pack!fill, Pack!write, Pack!write_ro_a,
     Pack!write_rw_a, Pack!write_ro_b, Pack!write_rw_b, Pack!Command, Truncated

(* Nothing is written in front of RW_A that was not there. *)
LEMMA TornWrite ==
    ASSUME NEW src \in File, NEW dst \in File, Len(dst) >= FlashSize, NEW off \in Nat, off <= FlashSize,
           dst[TagOffset + 1] \in {ErasedCell, ZeroCell},
           off > TagOffset \/ (off = 0 /\ src = dst)
    PROVE  LET w == write_blob(src, dst, off) IN
           w \in File /\ Len(w) >= FlashSize /\ w[TagOffset + 1] \in {ErasedCell, ZeroCell}
<1> DEFINE w == write_blob(src, dst, off)
           k == TagOffset + 1
<1>1. /\ Len(src) \in Nat /\ Len(dst) \in Nat /\ FlashSize \in Nat /\ TagOffset \in Nat
      /\ TagOffset + 1 <= FlashSize /\ off <= Len(dst)
  BY FileCells, SlotOrder
<1>2. /\ w \in File /\ Len(w) = IF Len(dst) > off + Len(src) THEN Len(dst) ELSE off + Len(src)
      /\ \A i \in 1 .. Len(w) : w[i] = IF off < i /\ i <= off + Len(src) THEN src[i - off] ELSE dst[i]
  BY <1>1, WriteBlob
<1> HIDE DEF w
<1>3. Len(w) \in Nat /\ Len(w) >= FlashSize /\ k \in 1 .. Len(w)
  BY <1>1, <1>2
<1>4. CASE off > TagOffset
  <2>1. ~(off < k)
    BY <1>1, <1>4
  <2>2. w[k] = dst[k]
    BY <1>2, <1>3, <2>1
  <2>3. QED
    BY <1>2, <1>3, <2>2 DEF w
<1>5. CASE off = 0 /\ src = dst
  <2>1. w[k] = dst[k]
    BY <1>1, <1>2, <1>3, <1>5
  <2>2. QED
    BY <1>2, <1>3, <2>1 DEF w
<1>6. QED
  BY <1>4, <1>5

LEMMA OverRoAStep ==
    ASSUME GivenFiles, FilesKept, pargs = PackArgs, args.output = args.ro_a, RoChecked,
           Carved(RW_A_BASE, tmp.rw_a), Carved(RW_B_BASE, tmp.rw_b),
           OverRoA, Pack!Script, UNCHANGED <<args, tmp>>
    PROVE  OverRoA'
<1> USE DEF Truncated, Pack!Exited
<1>1. /\ ppc \in {"check", "remove", "truncate"} \cup Truncated
      /\ fs \in [Path -> {Absent} \cup File] /\ pargs' = pargs
      /\ args.output \in Path /\ pargs.output = args.output /\ Out' = fs'[args.output]
  BY PackerWrites DEF OverRoA, GivenFiles, PackArgs, Out
<1>2. ASSUME NEW start, NEW to, NEW file, NEW partials, Pack!Command(start, to, file, partials),
             file \in {Absent} \cup File
      PROVE  /\ ppc = start
             /\ \/ ppc' = "exit1"
                \/ ppc' = to /\ Out' = file /\ fs' \in [Path -> {Absent} \cup File]
  BY <1>1, <1>2 DEF Pack!Command
<1>3. ppc' = "exit1" => OverRoA'
  BY DEF OverRoA
<1>4. ASSUME ppc' \in Truncated \cup {"exit0"}, fs' \in [Path -> {Absent} \cup File],
             Out' \in File, Len(Out') >= FlashSize, Out'[TagOffset + 1] \in {ErasedCell, ZeroCell}
      PROVE  OverRoA'
  BY <1>4 DEF OverRoA
<1>5. CASE Pack!check
  <2>1. fs' = fs /\ ppc' = IF Pack!valid THEN "remove" ELSE "exit1"
    BY <1>5 DEF Pack!check
  <2>2. Pack!valid' = Pack!valid
    BY <1>1, <2>1 DEF Pack!valid, Pack!Inputs
  <2>3. QED
    BY <1>1, <2>1, <2>2 DEF OverRoA
<1>6. CASE Pack!remove
  <2>1. ppc' = "exit1" \/ (ppc' = "truncate" /\ Out' = Absent /\ fs' \in [Path -> {Absent} \cup File])
    BY <1>2, <1>6 DEF Pack!remove
  <2>2. QED
    BY <1>3, <2>1 DEF OverRoA
<1>7. ASSUME NEW c \in {ErasedCell, ZeroCell}
      PROVE  /\ Cells(c, FlashSize) \in File /\ Len(Cells(c, FlashSize)) >= FlashSize
             /\ Cells(c, FlashSize)[TagOffset + 1] \in {ErasedCell, ZeroCell}
  <2>1. FlashSize \in Nat /\ TagOffset + 1 \in 1 .. FlashSize
    BY SlotOrder
  <2>2. QED
    BY <1>7, <2>1, ConstantFile
<1>8. CASE Pack!truncate
  <2>1. ppc = "truncate" /\ PP!Out = Absent
    BY <1>1, <1>8 DEF Pack!truncate, Pack!Command, OverRoA, PP!Out, Out
  <2>2. Pack!resized(Pack!Out) = Cells(ZeroCell, FlashSize)
    BY <2>1, PP!Resized, FlashLayoutAssumption, SignedHeaderAssumption, BlobAssumption, SameCells,
       SameOperators, SamePack
  <2>3. \/ ppc' = "exit1"
        \/ /\ ppc' = "fill" /\ Out' = Cells(ZeroCell, FlashSize)
           /\ fs' \in [Path -> {Absent} \cup File]
    BY <1>2, <1>7, <1>8, <2>2 DEF Pack!truncate
  <2>4. QED
    BY <1>3, <1>4, <1>7, <2>3
<1>9. CASE Pack!fill
  <2>1. Pack!Cells(Pack!ErasedCell, Pack!FlashSize) = Cells(ErasedCell, FlashSize)
    BY SamePack
  <2>2. \/ ppc' = "exit1"
        \/ /\ ppc' = "write_ro_a" /\ Out' = Cells(ErasedCell, FlashSize)
           /\ fs' \in [Path -> {Absent} \cup File]
    BY <1>2, <1>7, <1>9, <2>1 DEF Pack!fill
  <2>3. QED
    BY <1>3, <1>4, <1>7, <2>2
<1>10. ASSUME NEW start \in Truncated, NEW to \in Truncated \cup {"exit0"}, NEW src \in Path,
              NEW slot, Pack!write(start, to, src, slot), fs[src] \in File,
              Offset(slot) \in Nat, Offset(slot) <= FlashSize,
              Offset(slot) > TagOffset \/ (Offset(slot) = 0 /\ src = args.output)
       PROVE  OverRoA'
  <2>1. ppc = start
    BY <1>10 DEF Pack!write, Pack!Command
  <2>2. /\ Out \in File /\ Len(Out) >= FlashSize /\ Out[TagOffset + 1] \in {ErasedCell, ZeroCell}
        /\ Pack!Out = Out
    BY <1>1, <1>10, <2>1 DEF OverRoA, Pack!Out, Out
  <2> DEFINE w == write_blob(fs[src], Out, Offset(slot))
  <2>3. w \in File /\ Len(w) >= FlashSize /\ w[TagOffset + 1] \in {ErasedCell, ZeroCell}
    BY <1>10, <2>2, TornWrite DEF Out
  <2>4. Pack!write_blob(fs[src], Pack!Out, Pack!Offset(slot)) = w
    BY <2>2, SamePack
  <2> HIDE DEF w
  <2>5. ppc' = "exit1" \/ (ppc' = to /\ Out' = w /\ fs' \in [Path -> {Absent} \cup File])
    BY <1>2, <1>10, <2>3, <2>4 DEF Pack!write
  <2>6. QED
    BY <1>3, <1>4, <1>10, <2>3, <2>5
<1>11. /\ Offset(RO_A_BASE) = 0
       /\ \A slot \in {RW_A_BASE, RO_B_BASE, RW_B_BASE} :
             Offset(slot) \in Nat /\ Offset(slot) <= FlashSize /\ Offset(slot) > TagOffset
       /\ FlashSize \in Nat /\ 0 <= FlashSize
  BY SlotOrder
<1>12. /\ {pargs.ro_a, pargs.rw_a, pargs.ro_b, pargs.rw_b} \subseteq Path /\ pargs.ro_a = args.output
       /\ fs[pargs.rw_a] \in File /\ fs[pargs.rw_b] \in File /\ fs[pargs.ro_b] \in File
  <2>1. /\ pargs.rw_a = tmp.rw_a /\ pargs.rw_b = tmp.rw_b /\ pargs.ro_b = args.ro_b
        /\ pargs.ro_a = args.output
    BY DEF PackArgs
  <2>2. fs[tmp.rw_a] \in File /\ fs[tmp.rw_b] \in File
    BY SectionCells DEF Carved, RwSlots
  <2>3. fs[args.ro_b] = given[args.ro_b] /\ given[args.ro_b] # Absent
    BY DEF GivenFiles, FilesKept, RoChecked, verify_blob, readable
  <2>4. {tmp.rw_a, tmp.rw_b, args.ro_b, args.output} \subseteq Path
    BY DEF Carved, GivenFiles
  <2>5. QED
    BY <1>1, <2>1, <2>2, <2>3, <2>4
<1>13. CASE Pack!write_ro_a
  <2>1. fs[pargs.ro_a] \in File
    BY <1>1, <1>12, <1>13 DEF OverRoA, Out, Pack!write_ro_a, Pack!write, Pack!Command
  <2>2. Pack!write("write_ro_a", "write_rw_a", pargs.ro_a, RO_A_BASE)
    BY <1>13, SamePack DEF Pack!write_ro_a
  <2>3. QED
    BY <1>10, <1>11, <1>12, <2>1, <2>2
<1>14. CASE Pack!write_rw_a
  <2>1. Pack!write("write_rw_a", "write_ro_b", pargs.rw_a, RW_A_BASE)
    BY <1>14, SamePack DEF Pack!write_rw_a
  <2>2. QED
    BY <1>10, <1>11, <1>12, <2>1
<1>15. CASE Pack!write_ro_b
  <2>1. Pack!write("write_ro_b", "write_rw_b", pargs.ro_b, RO_B_BASE)
    BY <1>15, SamePack DEF Pack!write_ro_b
  <2>2. QED
    BY <1>10, <1>11, <1>12, <2>1
<1>16. CASE Pack!write_rw_b
  <2>1. Pack!write("write_rw_b", "exit0", pargs.rw_b, RW_B_BASE)
    BY <1>16, SamePack DEF Pack!write_rw_b
  <2>2. QED
    BY <1>10, <1>11, <1>12, <2>1
<1>17. QED
  BY <1>5, <1>6, <1>8, <1>9, <1>13, <1>14, <1>15, <1>16 DEF Pack!Script

(* While the packer runs on a file of its own, none of its inputs is written. *)
LEMMA OutputApart ==
    ASSUME GivenFiles, pargs = PackArgs, args.output # args.ro_a,
           Carved(RW_A_BASE, tmp.rw_a), Carved(RW_B_BASE, tmp.rw_b)
    PROVE  pargs.output \notin PP!Inputs
  BY DEF GivenFiles, PackArgs, Carved, PP!Inputs

LEMMA PackStarts ==
    ASSUME GivenFiles, FilesKept, step \in Unpacked, ppc' = "check", pargs' = PackArgs, fs' = fs,
           Carved(RW_A_BASE, tmp.rw_a), Carved(RW_B_BASE, tmp.rw_b)
    PROVE  PP!Packing'
<1>1. fs \in [Path -> {Absent} \cup File]
  BY Untouched
<1>2. PP!Typed'
  BY <1>1, SameCells DEF PP!Typed, PP!Inputs, PackArgs, GivenFiles, Carved
<1>3. QED
  BY <1>2 DEF PP!Packing, PP!ImageSoFar, PP!Running

(* What the steps that write no file keep. *)
LEMMA Frame ==
    ASSUME UNCHANGED <<fs, args, given>>
    PROVE  /\ (GivenFiles' <=> GivenFiles) /\ (RoChecked' <=> RoChecked) /\ (Verdicts' <=> Verdicts)
           /\ \A slot, path : Carved(slot, path)' <=> Carved(slot, path)
           /\ FilesKept /\ (step' \in Unpacked => step \in Unpacked) => FilesKept'
  BY DEF GivenFiles, RoChecked, Verdicts, Carved, HasSection, Section, Source, FilesKept, Out

LEMMA PackerStep ==
    ASSUME MakeInv, run_packer
    PROVE  MakeInv'
<1>1. /\ step = "pack" /\ Pack!Script /\ UNCHANGED <<step, args, tmp, cpc, cargs, given>>
  BY DEF run_packer
<1>2. /\ GivenFiles /\ FilesKept /\ RoChecked /\ pargs = PackArgs
      /\ Carved(RW_A_BASE, tmp.rw_a) /\ Carved(RW_B_BASE, tmp.rw_b)
      /\ IF args.output = args.ro_a THEN OverRoA ELSE PP!Packing
  BY <1>1 DEF MakeInv
<1>3. DOMAIN fs' = Path /\ \A p \in Path \ {args.output} : fs'[p] = fs[p]
  <2>1. fs' = fs \/ \E x : fs' = [fs EXCEPT ![args.output] = x]
    BY <1>1, <1>2, PackerWrites DEF PackArgs
  <2>2. QED
    BY <1>2, <2>1 DEF FilesKept
<1>4. GivenFiles' /\ FilesKept' /\ RoChecked'
  BY <1>1, <1>2, <1>3 DEF GivenFiles, FilesKept, RoChecked, Source, Unpacked
<1>5. Carved(RW_A_BASE, tmp.rw_a)' /\ Carved(RW_B_BASE, tmp.rw_b)'
  <2>1. fs'[tmp.rw_a] = fs[tmp.rw_a] /\ fs'[tmp.rw_b] = fs[tmp.rw_b]
    BY <1>2, <1>3 DEF Carved, GivenFiles
  <2>2. QED
    BY <1>1, <1>2, <2>1 DEF Carved, HasSection, Section, Source
<1>6. pargs' = PackArgs'
  BY <1>1, <1>2, PackerWrites DEF PackArgs
<1>7. IF args.output = args.ro_a THEN OverRoA' ELSE PP!Packing'
  <2>1. CASE args.output = args.ro_a
    BY <1>1, <1>2, <2>1, OverRoAStep
  <2>2. CASE args.output # args.ro_a
    BY <1>1, <1>2, <2>2, OutputApart, PackerSteps, PackingStep
  <2>3. QED
    BY <2>1, <2>2
<1>8. QED
  BY <1>1, <1>4, <1>5, <1>6, <1>7 DEF MakeInv

LEMMA CarverSteps ==
    ASSUME MakeInv, run_carver
    PROVE  /\ MakeInv' /\ \A p \in Path \ Tmps : fs'[p] = fs[p]
           /\ TmpsLeft => TmpsLeft'
<1>1. /\ step \in {"carve_rw_a", "carve_rw_b"} /\ Carve!Script
      /\ UNCHANGED <<step, args, tmp, ppc, pargs, given>>
  BY DEF run_carver
<1>2. GivenFiles /\ FilesKept /\ RoChecked /\ step \in Unpacked
      /\ tmp \in [rw_a : {NoPath, TmpA}, rw_b : {NoPath, TmpB}]
  BY <1>1 DEF MakeInv, Unpacked
<1>3. ASSUME NEW slot \in RwSlots, NEW path, Carving(slot, path), path \in {NoPath} \cup Tmps
      PROVE  /\ Carving(slot, path)' /\ FilesKept'
             /\ \A p \in Path \ {path} : fs'[p] = fs[p]
             /\ path \in Path => fs'[path] \in {fs[path]} \cup Prefixes(Section(slot))
  <2>1. /\ Carving(slot, path)' /\ fs' \in [Path -> {Absent} \cup File]
        /\ \A p \in Path \ {path} : fs'[p] = fs[p]
        /\ path \in Path => fs'[path] \in {fs[path]} \cup Prefixes(Section(slot))
    BY <1>1, <1>2, <1>3, CarverStep
  <2>2. \A p \in Path \ Tmps : fs'[p] = fs[p]
    BY <1>2, <1>3, <2>1 DEF GivenFiles
  <2>3. FilesKept'
    BY <1>1, <1>2, <2>1, <2>2 DEF FilesKept, GivenFiles, Out
  <2>4. QED
    BY <2>1, <2>3
<1>4. GivenFiles' /\ RoChecked'
  BY <1>1, <1>2 DEF GivenFiles, RoChecked, Source
<1>5. CASE step = "carve_rw_a"
  <2>1. PICK path : path = tmp.rw_a
    OBVIOUS
  <2>2. Carving(RW_A_BASE, path) /\ path \in {NoPath} \cup Tmps /\ RW_A_BASE \in RwSlots
    BY <1>2, <1>5, <2>1 DEF MakeInv, Tmps, RwSlots
  <2>3. /\ Carving(RW_A_BASE, path)' /\ FilesKept' /\ \A p \in Path \ {path} : fs'[p] = fs[p]
        /\ path \in Path => fs'[path] \in {fs[path]} \cup Prefixes(Section(RW_A_BASE))
    BY <1>3, <2>2
  <2>4. path = tmp.rw_a' /\ step' = "carve_rw_a"
    BY <1>1, <1>5, <2>1
  <2>5. Carving(RW_A_BASE, tmp.rw_a)'
    BY <2>3, <2>4 DEF Carving, CarveArgs, HasSection, Section, Source
  <2>6. path \in {NoPath, TmpA}
    BY <1>2, <2>1
  <2>7. TmpsLeft => TmpsLeft'
    BY <1>1, <1>2, <2>3, <2>6 DEF TmpsLeft, Leftover, Section, Source, GivenFiles, Tmps
  <2>8. QED
    BY <1>1, <1>2, <1>4, <2>2, <2>3, <2>4, <2>5, <2>7 DEF MakeInv, GivenFiles
<1>6. CASE step = "carve_rw_b"
  <2>1. PICK path : path = tmp.rw_b
    OBVIOUS
  <2>2. /\ Carving(RW_B_BASE, path) /\ path \in {NoPath, TmpB} /\ RW_B_BASE \in RwSlots
        /\ Carved(RW_A_BASE, tmp.rw_a) /\ TmpB \in Tmps
    BY <1>2, <1>6, <2>1 DEF MakeInv, Tmps, RwSlots
  <2>3. /\ Carving(RW_B_BASE, path)' /\ FilesKept' /\ \A p \in Path \ {path} : fs'[p] = fs[p]
        /\ path \in Path => fs'[path] \in {fs[path]} \cup Prefixes(Section(RW_B_BASE))
    BY <1>3, <2>2
  <2>4. path = tmp.rw_b' /\ step' = "carve_rw_b"
    BY <1>1, <1>6, <2>1
  <2>5. Carving(RW_B_BASE, tmp.rw_b)'
    BY <2>3, <2>4 DEF Carving, CarveArgs, HasSection, Section, Source
  <2>6. Carved(RW_A_BASE, tmp.rw_a)'
    <3>1. tmp.rw_a = TmpA /\ TmpA \in Path \ {path}
      BY <1>2, <2>2 DEF Carved, GivenFiles, Tmps
    <3>2. fs'[tmp.rw_a] = fs[tmp.rw_a]
      BY <2>3, <3>1
    <3>3. QED
      BY <1>1, <2>2, <3>2 DEF Carved, HasSection, Section, Source
  <2>7. TmpsLeft => TmpsLeft'
    BY <1>1, <1>2, <2>2, <2>3 DEF TmpsLeft, Leftover, Section, Source, GivenFiles, Tmps
  <2>8. QED
    BY <1>1, <1>2, <1>4, <2>2, <2>3, <2>4, <2>5, <2>6, <2>7 DEF MakeInv, GivenFiles
<1>7. QED
  BY <1>1, <1>5, <1>6

(* mktemp makes an empty file under a name of its own, or nothing.          *)
LEMMA MadeFile ==
    ASSUME GivenFiles, FilesKept, step \in Unpacked, NEW path \in Tmps,
           UNCHANGED <<args, given>>,
           fs' = [fs EXCEPT ![path] = <<>>] \/ fs' = fs
    PROVE  FilesKept'
<1>1. /\ fs \in [Path -> {Absent} \cup File] /\ fs[args.output] = given[args.output]
      /\ path \in Path /\ path # args.output
      /\ \A p \in Path \ (Tmps \cup {args.output}) : fs[p] = given[p]
  BY DEF FilesKept, GivenFiles, Out
<1>2. <<>> \in File
  BY DEF File
<1>3. fs' \in [Path -> {Absent} \cup File] /\ \A p \in Path \ {path} : fs'[p] = fs[p]
  BY <1>1, <1>2
<1>4. args.output \in Path /\ Tmps \subseteq Path
  BY DEF GivenFiles
<1>5. fs'[args'.output] = given'[args'.output]
  BY <1>1, <1>3, <1>4
<1>6. \A p \in Path \ (Tmps \cup {args'.output}) : fs'[p] = given'[p]
  BY <1>1, <1>3
<1>7. DOMAIN fs' = Path
  BY <1>3
<1>8. QED
  BY <1>3, <1>5, <1>6, <1>7 DEF FilesKept, Out

LEMMA MakeStep == MakeInv /\ [Next]_vars => MakeInv'
<1> SUFFICES ASSUME MakeInv, [Next]_vars PROVE MakeInv'
  OBVIOUS
<1> USE DEF Steps, Unpacked, Exited
<1>0. /\ GivenFiles /\ FilesKept /\ step \in Steps
      /\ tmp \in [rw_a : {NoPath, TmpA}, rw_b : {NoPath, TmpB}]
  BY DEF MakeInv
<1>1. CASE UNCHANGED vars
  <2>1. /\ UNCHANGED <<fs, args, given>> /\ UNCHANGED <<step, tmp, cpc, cargs, ppc, pargs>>
    BY <1>1 DEF vars
  <2>2. /\ GivenFiles' /\ FilesKept' /\ (RoChecked' <=> RoChecked) /\ (Verdicts' <=> Verdicts)
        /\ \A slot, path : Carved(slot, path)' <=> Carved(slot, path)
    BY <1>0, <2>1, Frame
  <2>3. \A slot, path : Carving(slot, path)' <=> Carving(slot, path)
    BY <2>1 DEF Carving, CarveArgs, HasSection, Section, Source
  <2>4. PackArgs' = PackArgs /\ (OverRoA' <=> OverRoA)
    BY <2>1 DEF PackArgs, OverRoA, Out, Pack!valid, Pack!Inputs
  <2>5. step = "pack" /\ args.output # args.ro_a => PP!Packing'
    <3>1. ASSUME step = "pack", args.output # args.ro_a
          PROVE  PP!Packing /\ pargs.output \notin PP!Inputs
      BY <3>1, OutputApart DEF MakeInv
    <3>2. UNCHANGED PP!vars
      BY <2>1 DEF PP!vars
    <3>3. QED
      BY <3>1, <3>2, PackingStep
  <2>6. Carved(RW_A_BASE, tmp.rw_a)' <=> Carved(RW_A_BASE, tmp.rw_a)
    BY <2>1 DEF Carved, HasSection, Section, Source
  <2>7. Carved(RW_B_BASE, tmp.rw_b)' <=> Carved(RW_B_BASE, tmp.rw_b)
    BY <2>1 DEF Carved, HasSection, Section, Source
  <2>8. /\ Carving(RW_A_BASE, tmp.rw_a)' <=> Carving(RW_A_BASE, tmp.rw_a)
        /\ Carving(RW_B_BASE, tmp.rw_b)' <=> Carving(RW_B_BASE, tmp.rw_b)
    BY <2>1 DEF Carving, CarveArgs, HasSection, Section, Source
  <2>9. QED
    BY <2>1, <2>2, <2>4, <2>5, <2>6, <2>7, <2>8 DEF MakeInv
<1>2. CASE mktemp_rw_a
  <2>1. /\ step = "mktemp_rw_a" /\ step' = "mktemp_rw_b" /\ UNCHANGED <<args, given>>
        /\ \/ tmp' = [tmp EXCEPT !.rw_a = TmpA] /\ fs' = [fs EXCEPT ![TmpA] = <<>>]
           \/ tmp' = tmp /\ fs' = fs
    BY <1>2 DEF mktemp_rw_a, mktemp
  <2>2. tmp' \in [rw_a : {NoPath, TmpA}, rw_b : {NoPath, TmpB}] /\ GivenFiles'
    BY <1>0, <2>1 DEF GivenFiles
  <2>3. FilesKept'
    <3>1. step \in Unpacked /\ TmpA \in Tmps /\ (fs' = [fs EXCEPT ![TmpA] = <<>>] \/ fs' = fs)
      BY <2>1 DEF Tmps
    <3>2. QED
      BY <1>0, <2>1, <3>1, MadeFile
  <2>4. QED
    BY <2>1, <2>2, <2>3 DEF MakeInv
<1>3. CASE mktemp_rw_b
  <2>1. /\ step = "mktemp_rw_b" /\ step' = "check" /\ UNCHANGED <<args, given>>
        /\ \/ tmp' = [tmp EXCEPT !.rw_b = TmpB] /\ fs' = [fs EXCEPT ![TmpB] = <<>>]
           \/ tmp' = tmp /\ fs' = fs
    BY <1>3 DEF mktemp_rw_b, mktemp
  <2>2. tmp' \in [rw_a : {NoPath, TmpA}, rw_b : {NoPath, TmpB}] /\ GivenFiles'
    BY <1>0, <2>1 DEF GivenFiles
  <2>3. FilesKept'
    <3>1. step \in Unpacked /\ TmpB \in Tmps /\ (fs' = [fs EXCEPT ![TmpB] = <<>>] \/ fs' = fs)
      BY <2>1 DEF Tmps
    <3>2. QED
      BY <1>0, <2>1, <3>1, MadeFile
  <2>4. QED
    BY <2>1, <2>2, <2>3 DEF MakeInv
<1>4. CASE check
  <2>1. step = "check" /\ UNCHANGED <<args, tmp, fs, ppc, pargs, given>>
    BY <1>4 DEF check
  <2>2. GivenFiles' /\ (step' \in {"carve_rw_a", "exit1"} => FilesKept') /\ (RoChecked' <=> RoChecked)
    BY <1>0, <2>1, Frame
  <2>3. CASE step' = "exit1"
    BY <1>0, <2>1, <2>2, <2>3 DEF MakeInv
  <2>4. CASE step' # "exit1"
    <3>1. /\ fs[args.source] # Absent
          /\ verify_blob(fs[args.ro_a], RO_A_BASE) /\ verify_blob(fs[args.ro_b], RO_B_BASE)
          /\ step' = "carve_rw_a" /\ cpc' = "check" /\ cargs' = CarveArgs(tmp.rw_a, RW_A_BASE)
      BY <1>4, <2>4 DEF check, StartCarver
    <3>2. RoChecked
      BY <1>0, <2>1, <3>1, Untouched DEF RoChecked, GivenFiles
    <3>3. Carving(RW_A_BASE, tmp.rw_a)'
      BY <2>1, <3>1 DEF Carving, CarveArgs
    <3>4. QED
      BY <1>0, <2>1, <2>2, <3>1, <3>2, <3>3 DEF MakeInv
  <2>5. QED
    BY <2>3, <2>4
<1>5. CASE run_carver
  BY <1>5, CarverSteps
<1>6. CASE carve_rw_a
  <2>1. /\ step = "carve_rw_a" /\ UNCHANGED <<args, tmp, fs, ppc, pargs, given>>
        /\ Carving(RW_A_BASE, tmp.rw_a) /\ RoChecked
    BY <1>6 DEF carve_rw_a, MakeInv
  <2>2. GivenFiles' /\ (step' \in {"carve_rw_b", "exit1"} => FilesKept') /\ (RoChecked' <=> RoChecked)
    BY <1>0, <2>1, Frame
  <2>3. CASE step' = "exit1"
    BY <1>0, <2>1, <2>2, <2>3 DEF MakeInv
  <2>4. CASE step' # "exit1"
    <3>1. /\ cpc = "exit0" /\ step' = "carve_rw_b" /\ cpc' = "check"
          /\ cargs' = CarveArgs(tmp.rw_b, RW_B_BASE)
      BY <1>6, <2>4 DEF carve_rw_a, StartCarver
    <3>2. Carved(RW_A_BASE, tmp.rw_a)
      BY <1>0, <2>1, <3>1 DEF Carving, Carved, Tmps
    <3>3. Carved(RW_A_BASE, tmp.rw_a)' /\ Carving(RW_B_BASE, tmp.rw_b)'
      BY <2>1, <3>1, <3>2 DEF Carving, CarveArgs, Carved, HasSection, Section, Source
    <3>4. QED
      BY <1>0, <2>1, <2>2, <3>1, <3>3 DEF MakeInv
  <2>5. QED
    BY <2>3, <2>4
<1>7. CASE carve_rw_b
  <2>1. /\ step = "carve_rw_b" /\ UNCHANGED <<args, tmp, fs, cpc, cargs, given>>
        /\ Carved(RW_A_BASE, tmp.rw_a) /\ Carving(RW_B_BASE, tmp.rw_b) /\ RoChecked
    BY <1>7 DEF carve_rw_b, MakeInv
  <2>2. GivenFiles' /\ (step' \in {"pack", "exit1"} => FilesKept') /\ (RoChecked' <=> RoChecked)
    BY <1>0, <2>1, Frame
  <2>3. CASE step' = "exit1"
    BY <1>0, <2>1, <2>2, <2>3 DEF MakeInv
  <2>4. CASE step' # "exit1"
    <3>1. cpc = "exit0" /\ step' = "pack" /\ ppc' = "check" /\ pargs' = PackArgs
      BY <1>7, <2>4 DEF carve_rw_b
    <3>2. Carved(RW_B_BASE, tmp.rw_b)
      BY <1>0, <2>1, <3>1 DEF Carving, Carved, Tmps
    <3>3. Carved(RW_A_BASE, tmp.rw_a)' /\ Carved(RW_B_BASE, tmp.rw_b)' /\ PackArgs' = PackArgs
      BY <2>1, <3>2 DEF Carved, HasSection, Section, Source, PackArgs
    <3>4. PP!Packing'
      BY <1>0, <2>1, <3>1, <3>2, PackStarts
    <3>5. OverRoA'
      BY <1>0, <2>1, <3>1, Untouched DEF OverRoA, Truncated
    <3>6. QED
      BY <1>0, <2>1, <2>2, <3>1, <3>3, <3>4, <3>5 DEF MakeInv
  <2>5. QED
    BY <2>3, <2>4
<1>8. CASE run_packer
  BY <1>8, PackerStep
<1>9. CASE pack
  <2>1. /\ step = "pack" /\ step' = IF ppc = "exit0" THEN "clean" ELSE "exit1"
        /\ UNCHANGED <<args, tmp, fs, given>>
    BY <1>9 DEF pack
  <2>2. GivenFiles' /\ FilesKept' /\ (Verdicts' <=> Verdicts)
    BY <1>0, <2>1, Frame
  <2>3. tmp.rw_a = TmpA /\ tmp.rw_b = TmpB
    BY <1>0, <2>1 DEF MakeInv, Carved, GivenFiles
  <2>4. ppc = "exit0" /\ args.output # args.ro_a => Verdicts
    BY <2>1, ImageVerdicts
  <2>5. QED
    BY <1>0, <2>1, <2>2, <2>3, <2>4 DEF MakeInv
<1>10. CASE clean
  <2>1. PICK kept \in SUBSET {tmp.rw_a, tmp.rw_b} :
          /\ step' = IF kept = {} THEN "exit0" ELSE "exit1"
          /\ fs' = [p \in Path |-> IF p \in {tmp.rw_a, tmp.rw_b} \ kept THEN Absent ELSE fs[p]]
    BY <1>10 DEF clean
  <2>2. /\ step = "clean" /\ UNCHANGED <<args, tmp, given>>
        /\ tmp.rw_a = TmpA /\ tmp.rw_b = TmpB /\ (args.output # args.ro_a => Verdicts)
    BY <1>10 DEF clean, MakeInv
  <2>3. GivenFiles' /\ FilesKept' /\ Out' = Out
    BY <1>0, <2>1, <2>2 DEF GivenFiles, FilesKept, Tmps, Out
  <2>4. step' = "exit0" => fs'[TmpA] = Absent /\ fs'[TmpB] = Absent
    BY <1>0, <2>1, <2>2 DEF GivenFiles, Tmps
  <2>5. Verdicts' <=> Verdicts
    BY <2>2, <2>3 DEF Verdicts, Source
  <2>6. step' \in {"exit0", "exit1"}
    BY <2>1
  <2>7. QED
    BY <1>0, <2>2, <2>3, <2>4, <2>5, <2>6 DEF MakeInv
<1>11. CASE Kill
  <2>1. step' = "killed" /\ UNCHANGED <<args, tmp, fs, given>>
    BY <1>11 DEF Kill
  <2>2. GivenFiles' /\ FilesKept'
    BY <1>0, <2>1, Frame
  <2>3. QED
    BY <1>0, <2>1, <2>2 DEF MakeInv
<1>12. QED
  BY <1>1, <1>2, <1>3, <1>4, <1>5, <1>6, <1>7, <1>8, <1>9, <1>10, <1>11 DEF Next

(* What may be left of the temporary files, step by step. *)
LEMMA LeftStep == MakeInv /\ TmpsLeft /\ [Next]_vars => TmpsLeft'
<1> SUFFICES ASSUME MakeInv, TmpsLeft, [Next]_vars PROVE TmpsLeft'
  OBVIOUS
<1>1. GivenFiles /\ DOMAIN fs = Path
  BY DEF MakeInv, FilesKept
<1>2. ASSUME given' = given, args' = args, \A p \in Tmps : fs'[p] \in {fs[p], Absent, <<>>}
      PROVE  TmpsLeft'
  BY <1>2 DEF TmpsLeft, Leftover, Section, Source, Tmps
<1>3. CASE UNCHANGED <<fs, args, given>>
  BY <1>2, <1>3
<1>4. CASE mktemp_rw_a \/ mktemp_rw_b
  <2>1. PICK path \in Tmps : /\ fs' = [fs EXCEPT ![path] = <<>>] \/ fs' = fs
                             /\ UNCHANGED <<args, given>>
    BY <1>4 DEF mktemp_rw_a, mktemp_rw_b, mktemp, Tmps
  <2>2. QED
    BY <1>1, <1>2, <2>1 DEF GivenFiles
<1>5. CASE run_carver
  BY <1>5, CarverSteps
<1>6. CASE run_packer
  <2>1. /\ pargs = PackArgs /\ UNCHANGED <<args, given>>
        /\ fs' = fs \/ \E x : fs' = [fs EXCEPT ![pargs.output] = x]
    BY <1>6, PackerWrites DEF run_packer, MakeInv
  <2>2. QED
    BY <1>1, <1>2, <2>1 DEF PackArgs, GivenFiles
<1>7. CASE clean
  <2>1. PICK gone \in SUBSET Path :
          fs' = [p \in Path |-> IF p \in gone THEN Absent ELSE fs[p]] /\ UNCHANGED <<args, given>>
    <3>1. PICK kept \in SUBSET {tmp.rw_a, tmp.rw_b} :
            fs' = [p \in Path |-> IF p \in {tmp.rw_a, tmp.rw_b} \ kept THEN Absent ELSE fs[p]]
      BY <1>7 DEF clean
    <3>2. fs' = [p \in Path |-> IF p \in ({tmp.rw_a, tmp.rw_b} \ kept) \cap Path THEN Absent ELSE fs[p]]
      BY <3>1
    <3>3. QED
      BY <1>7, <3>2 DEF clean
  <2>2. QED
    BY <1>1, <1>2, <2>1 DEF GivenFiles
<1>8. QED
  BY <1>3, <1>4, <1>5, <1>6, <1>7 DEF Next, vars, check, carve_rw_a, carve_rw_b, pack, Kill

-----------------------------------------------------------------------------
(* The theorems.                                                             *)

(* The files at every position of make_final_img.sh and of the scripts it     *)
(* runs, for every firmware, every pair of RO blobs and every output.          *)
THEOREM MakeInvariance == Spec => []MakeInv
BY InitMake, MakeStep, PTL DEF Spec

(* The loader answers for each slot of the final image what the source and    *)
(* the RO blobs deserve, whatever the lengths of the four.                     *)
THEOREM VerdictIsPreserved == Spec => []VerdictPreserved
<1>1. MakeInv => VerdictPreserved
  BY DEF MakeInv, VerdictPreserved, Verdicts, Source
<1>2. QED
  BY <1>1, MakeInvariance, PTL

(* Whatever fails, no file but the output and the two temporary ones differs   *)
(* from before; a temporary file is gone after a successful run, and otherwise  *)
(* empty or a beginning of the section it was made for, also after the two      *)
(* mktemps whose failure nothing checks and an rm that fails.                   *)
THEOREM LeavesOnlyTheOutput == Spec => []OnlyOutputLeft
<1>1. Init => TmpsLeft
  <2>1. ASSUME Init PROVE fs[TmpA] = Absent /\ fs[TmpB] = Absent
    BY <2>1, InitMake DEF Init, MakeInv, GivenFiles
  <2>2. QED
    BY <2>1 DEF TmpsLeft, Leftover
<1>2. MakeInv /\ TmpsLeft /\ [Next]_vars => TmpsLeft'
  BY LeftStep
<1>3. MakeInv /\ TmpsLeft => OnlyOutputLeft
  BY DEF MakeInv, TmpsLeft, Leftover, OnlyOutputLeft, GivenFiles, FilesKept, Tmps
<1>4. QED
  BY <1>1, <1>2, <1>3, MakeInvariance, PTL DEF Spec

(* The file an earlier run has left is not written before all four blobs are   *)
(* known to be good, also when it is itself the RO_A blob.                      *)
THEOREM TouchedOnlyWhenValid == Spec => OutputTouchedWhenValid
<1>1. ASSUME MakeInv, Next, Out = given[args.output], Out' # Out
      PROVE  ppc # "idle" /\ Pack!valid
  <2>1. GivenFiles /\ FilesKept
    BY <1>1 DEF MakeInv
  <2>2. CASE run_carver
    <3>1. args' = args /\ \A p \in Path \ Tmps : fs'[p] = fs[p]
      BY <1>1, <2>2, CarverSteps DEF run_carver
    <3>2. QED
      BY <1>1, <2>1, <3>1 DEF GivenFiles, Out
  <2>3. CASE run_packer
    <3>1. /\ step = "pack" /\ Pack!Script /\ args' = args
          /\ GivenFiles /\ FilesKept /\ RoChecked /\ pargs = PackArgs
          /\ IF args.output = args.ro_a THEN OverRoA ELSE PP!Packing
      BY <1>1, <2>3 DEF run_packer, MakeInv
    <3>2. ppc \in {"remove", "truncate"} \cup Truncated
      BY <1>1, <3>1, PackerWrites DEF Out
    <3>3. CASE args.output # args.ro_a
      <4>1. ppc \in PP!Running \cup {"exit0"}
        BY <3>2 DEF PP!Running, Truncated
      <4>2. QED
        BY <3>1, <3>2, <3>3, <4>1, SamePack DEF PP!Packing, Truncated
    <3>4. CASE args.output = args.ro_a
      <4>1. OverRoA /\ verify_blob(Out, RO_A_BASE)
        BY <1>1, <3>1, <3>4 DEF RoChecked
      <4>2. Out # Absent /\ layout_at(Out, 0).ro_base = RO_A_BASE
        BY <4>1 DEF verify_blob, readable
      <4>3. ASSUME Out[TagOffset + 1] \in {ErasedCell, ZeroCell} PROVE FALSE
        <5>1. 0 + TagOffset + 1 = TagOffset + 1
          BY SlotOrder
        <5>2. layout_at(Out, 0) \in {ErasedHeader, ForeignHeader}
          BY <4>3, <5>1, BlobAssumption DEF layout_at, field_cell, ZeroCell, ErasedCell
        <5>3. layout_at(Out, 0).ro_base \in {Ones, 0}
          BY <5>2 DEF ErasedHeader, ForeignHeader
        <5>4. RO_A_BASE \notin {Ones, 0}
          BY FlashLayoutAssumption DEF RO_A_BASE, Ones
        <5>5. QED
          BY <4>2, <5>3, <5>4
      <4>4. ppc = "remove"
        BY <3>2, <4>1, <4>2, <4>3 DEF OverRoA
      <4>5. QED
        BY <4>1, <4>4 DEF OverRoA
    <3>5. QED
      BY <3>3, <3>4
  <2>4. CASE mktemp_rw_a \/ mktemp_rw_b
    BY <1>1, <2>1, <2>4 DEF mktemp_rw_a, mktemp_rw_b, mktemp, GivenFiles, FilesKept, Tmps, Out
  <2>5. CASE clean
    <3>1. PICK kept \in SUBSET {tmp.rw_a, tmp.rw_b} :
            fs' = [p \in Path |-> IF p \in {tmp.rw_a, tmp.rw_b} \ kept THEN Absent ELSE fs[p]]
      BY <2>5 DEF clean
    <3>2. tmp.rw_a = TmpA /\ tmp.rw_b = TmpB /\ args' = args
      BY <1>1, <2>5 DEF clean, MakeInv
    <3>3. QED
      BY <1>1, <2>1, <3>1, <3>2 DEF GivenFiles, Tmps, Out
  <2>6. CASE check \/ carve_rw_a \/ carve_rw_b \/ pack \/ Kill
    BY <1>1, <2>6 DEF check, carve_rw_a, carve_rw_b, pack, Kill, Out
  <2>7. QED
    BY <1>1, <2>2, <2>3, <2>4, <2>5, <2>6 DEF Next
<1>2. MakeInv /\ [Next]_vars => [Out = given[args.output] /\ Out' # Out => ppc # "idle" /\ Pack!valid]_vars
  BY <1>1
<1>3. QED
  BY <1>2, MakeInvariance, PTL DEF Spec, OutputTouchedWhenValid
=============================================================================
