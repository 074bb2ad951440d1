------------------------------- MODULE Signer -------------------------------
(***************************************************************************)
(* cr50-codesigner (util/signer): an ELF file, a key and a manifest become a *)
(* signed image.  main() is a sequence of steps, each of which may end the   *)
(* program; files may fail to open, and a write may fall short.              *)
(*                                                                           *)
(* A memory cell holds the flash address of the ELF byte that was put there. *)
(* The header is a record beside the cells, whose first HeaderSize cells     *)
(* stand for it.  A hash is what was hashed, a signature who made it of what. *)
(***************************************************************************)
EXTENDS SignedHeader, FuseManifest, FiniteSets

CONSTANTS
    SignerRuns,  \* command lines and the files they name: see SignerAssumption
    Chips,       \* the fuses blown on the chips an image is for: [name -> word]
    RxSlack,     \* 12: what main() adds to rx_max
    Absent       \* no such file, or no such option

FlashSize == 2 * FlashHalf
FlashEnd == FlashBase + 16 * FlashSize    \* FLASH_END * 16
MaxOr0(S) == IF S = {} THEN 0 ELSE CHOOSE a \in S : \A b \in S : b <= a
MinOf(S) == CHOOSE a \in S : \A b \in S : a <= b
RoundDown(i) == (i \div BankSize) * BankSize
RoundUp(i) == RoundDown(i + BankSize - 1)

(* FLASH_START * 16 <= address and address + size < FLASH_END * 16. *)
InFlash(a, size) == FlashBase <= a /\ a + size < FlashEnd

-----------------------------------------------------------------------------
(* What Image::fromElf() finds in a file. *)
Loaded(elf) == {p \in elf.phdrs : InFlash(p.paddr, p.filesz) /\ ~p.elfhdr}
Code(elf) == {s \in elf.sections : s.alloc /\ s.exec /\ InFlash(s.addr, s.size)}
(* store() refuses what lies behind mem_; nobody looks at success_. *)
Stored(elf) ==
    (UNION {p.paddr - FlashBase .. p.paddr + p.filesz - 1 - FlashBase : p \in Loaded(elf)})
        \cap (0 .. FlashSize - 1)

(* What PublicKey's constructor makes of a file: a private key, a public one  *)
(* (of 2048 bits or another size), or none.                                   *)
KeyFile == {Absent, "private", "public", "public2048"}
(* readJSON(): valid is whether every field is there, keyid whether it is the *)
(* key's; p4cl, fuses and infos are as in FuseManifest.                       *)
NoManifest == [valid |-> TRUE, keyid |-> TRUE, p4cl |-> 0, fuses |-> <<>>, infos |-> <<>>]

(* Without a byte in the flash, or with a size of less than the hashed area, *)
(* sign() leaves mem_.  Slots are whole banks; a fuse holds no bits but its    *)
(* own.                                                                       *)
ASSUME SignerAssumption ==
    /\ RxSlack \in 0 .. BankSize /\ Fuse = 0 .. FUSE_MAX - 1
    /\ RoSize % BankSize = 0 /\ RwSize % BankSize = 0
    /\ \A chip \in Chips : \A f \in DOMAIN chip : chip[f] \subseteq Mask(FuseField(f))
    /\ \A r \in SignerRuns :
          /\ r.key \in KeyFile
          /\ r.xml # Absent => r.xml.items \in Seq([name : Nat, offset : Nat, width : Nat])
          /\ r.manifest # Absent => {r.manifest.valid, r.manifest.keyid} \subseteq BOOLEAN
          /\ {r.fill, r.override} \subseteq BOOLEAN
          /\ r.signature \in {Absent, "short", "whole"} /\ r.hashes \in BOOLEAN
          /\ r.elf # Absent =>
                /\ Stored(r.elf) # {}
                /\ \A p \in r.elf.phdrs : {p.paddr, p.filesz} \subseteq Nat
                /\ \A s \in r.elf.sections : {s.addr, s.size} \subseteq Nat
                /\ RoundUp(MaxOr0(Stored(r.elf))) >= RoundDown(MinOf(Stored(r.elf))) + BankSize

VARIABLES
    pc,        \* the step of main(), or how the program ended
    run,       \* the command line
    img,       \* Image: mem, base, high, ro_max, rx_max
    ids,       \* fuse_ids and fuse_bits: name -> [index, width]
    hdr,       \* the SignedHeader
    hashes,    \* the --hashes file
    output,    \* the --output file: [header, cells], Absent, or Older
    gpc, at, handle_, rc, usb    \* the session with the gnubbies
Token == INSTANCE Gnubby WITH pc <- gpc
ASSUME DevicesAssumption ==
    \A r \in SignerRuns : r.usb \in Seq(Token!Kinds)
session == <<gpc, at, handle_, rc, usb>>
vars == <<pc, run, img, ids, hdr, hashes, output, session>>

(* Cells that are no ELF byte; files that this run did not write, or tore.   *)
Header == -1
Erased == -2
Filled == -3
Older == [header |-> [magic |-> MAGIC_HAVEN], cells |-> <<Filled>>]
Torn == [fields |-> <<>>, cells |-> <<>>]

NoImage == [mem |-> <<>>, base |-> 0, high |-> 0, ro_max |-> 0, rx_max |-> 0]
NoHeader == [magic |-> MAGIC_HAVEN]
Init ==
    /\ pc = "options" /\ run \in SignerRuns
    /\ img = NoImage /\ ids = <<>> /\ hdr = NoHeader
    /\ hashes = Absent /\ output \in {Absent, Older}
    /\ gpc = "none" /\ at = 0 /\ handle_ = Token!NULL /\ rc = -1
    /\ usb = Token!Plugged(run.usb)

Ended == {"exit0", "exit_1", "exit_2", "abort", "crash"}
Step(from, to) == pc = from /\ pc' = to /\ UNCHANGED <<run, session>>

-----------------------------------------------------------------------------
(* getOptions(): the case of --override-keyid has no break and assigns the   *)
(* option's missing argument to inputFilename.                                *)
getOptions ==
    /\ Step("options", IF run.override THEN "crash" ELSE "key")
    /\ UNCHANGED <<img, ids, hdr, hashes, output>>

load_key ==
    /\ Step("key", IF run.key = Absent THEN "exit_1" ELSE "elf")
    /\ UNCHANGED <<img, ids, hdr, hashes, output>>

(* Image::fromElf(). *)
(* Mutant: the last bank is left out unless it is full. *)
high_of_down(stored) == RoundDown(MaxOr0(stored))
(* high_ is the last address, not the one behind it. *)
high_of(stored) == RoundUp(MaxOr0(stored))

fromElf ==
    LET stored == Stored(run.elf) IN
    \/ /\ run.elf # Absent /\ Step("elf", "fill")
       /\ img' = [mem |-> [i \in 0 .. FlashSize - 1 |->
                              IF i \in stored THEN FlashBase + i ELSE Erased],
                  base |-> RoundDown(MinOf(stored)),
                  high |-> high_of(stored),
                  ro_max |-> MaxOr0({p.paddr + p.filesz : p \in Loaded(run.elf)}),
                  rx_max |-> MaxOr0({s.addr + s.size : s \in Code(run.elf)})]
       /\ UNCHANGED <<ids, hdr, hashes, output>>
    \/ /\ run.elf = Absent /\ Step("elf", "exit_2")
       /\ UNCHANGED <<img, ids, hdr, hashes, output>>

(* fillPattern() and fillRandom() start at mem_ + size, not at mem_ + high_.  *)
fill ==
    /\ Step("fill", "xml")
    /\ img' = IF run.fill
              THEN [img EXCEPT
                       !.mem = [i \in DOMAIN @ |->
                                   IF img.high - img.base <= i /\ i < FlashSize - BankSize
                                   THEN Filled ELSE @[i]],
                       !.high = FlashSize - BankSize]
              ELSE img
    /\ UNCHANGED <<ids, hdr, hashes, output>>

(* The manifest and the XML: main() aborts unless keyid and p4cl match and    *)
(* the XML numbers the last fuse as the header does.                          *)
manifest == IF run.manifest = Absent THEN NoManifest ELSE run.manifest
read_xml ==
    LET found == IF run.xml = Absent THEN NoneFound ELSE find_fuses(run.xml)
        accepted ==
            /\ manifest.valid /\ manifest.keyid
            /\ run.xml # Absent => readXML(run.xml, found)
            /\ manifest.p4cl = IF run.xml = Absent THEN 0 ELSE run.xml.p4cl
            /\ ids_accepted(found.ids)
    IN  /\ Step("xml", IF accepted THEN "header" ELSE "abort")
        /\ ids' = with_blk6(found.ids)
        /\ UNCHANGED <<img, hdr, hashes, output>>

(* Every fuse is defined and every value fits; a signature file is complete. *)
(* A manifest's timestamp is not read.                                        *)
Fuses == manifest.fuses @@ (Blk6 :> Zero)
prepared ==
    /\ fuses_accepted(Fuses, ids) /\ infos_accepted(manifest.infos)
    /\ run.signature # "short"

(* Mutant: the slack is a bank. *)
rx_max_bank(rx_max) == rx_max + BankSize
rx_max_of(rx_max) == rx_max + RxSlack

header ==
    \/ /\ prepared /\ Step("header", "sign")
       /\ hdr' = [magic |-> MAGIC_HAVEN,
                  ro_base |-> FlashBase + img.base, ro_max |-> img.ro_max,
                  rx_base |-> FlashBase + img.base + HeaderSize,
                  rx_max |-> rx_max_of(img.rx_max),
                  timestamp_ |-> "now",
                  fusemap |-> markFuse(Fuses, ids), infomap |-> DOMAIN manifest.infos,
                  fuses_chk_ |-> Absent, info_chk_ |-> Absent,
                  signature |-> IF run.signature = "whole" THEN "given" ELSE "SSSS",
                  image_size |-> 0, img_chk_ |-> Absent]
       /\ UNCHANGED <<img, ids, hashes, output>>
    \/ /\ ~prepared /\ Step("header", "abort")
       /\ UNCHANGED <<img, ids, hdr, hashes, output>>

-----------------------------------------------------------------------------
(* The cells from base to high, the header's first. *)
Cells == [k \in 1 .. img.high - img.base |->
             IF k <= HeaderSize THEN Header ELSE img.mem[img.base + k - 1]]
(* What is hashed of an image: the header from its tag on, and the cells.    *)
Digest(h, cells, size) ==
    [fields |-> <<h.ro_base, h.ro_max, h.rx_base, h.rx_max, h.timestamp_, h.fusemap, h.infomap,
                  h.image_size, h.fuses_chk_, h.info_chk_>>,
     cells |-> SubSeq(cells, TagOffset + 1, size)]

(* Mutant: the image is hashed before its size is in the header. *)
with_digest_early(h) ==
    [h EXCEPT !.image_size = img.high - img.base,
              !.fuses_chk_ = fuse_values(Fuses, ids, FUSE_IGNORE),
              !.info_chk_ = info_digest(manifest.infos),
              !.img_chk_ = Digest(h, Cells, img.high - img.base)]
with_digest(h) ==
    LET sized == [h EXCEPT !.image_size = img.high - img.base,
                           !.fuses_chk_ = fuse_values(Fuses, ids, FUSE_IGNORE),
                           !.info_chk_ = info_digest(manifest.infos)] IN
    [sized EXCEPT !.img_chk_ = Digest(sized, Cells, img.high - img.base)]

(* PublicKey::sign(): a private key signs; a 2048 bit public key asks the    *)
(* gnubbies; any other public key takes the signature that is there.          *)
Signatures(h) ==
    CASE run.key = "private" -> {"own"}
      [] run.key = "public2048" -> IF rc = 1 THEN {"own"} ELSE {}
      [] run.key = "public" -> {h.signature}

(* Image::sign(): the hashes are on file before the signature is made. *)
sign ==
    LET h == with_digest(hdr) IN
    /\ pc = "sign"
    /\ \/ hashes' = IF run.hashes THEN h.img_chk_ ELSE hashes
       \/ run.hashes /\ UNCHANGED hashes
       \/ run.hashes /\ hashes' = Torn
    /\ \/ \E s \in Signatures(h) :
             /\ Step("sign", "generate")
             /\ hdr' = [h EXCEPT !.signature = s]
       \/ Step("sign", "abort") /\ hdr' = h
       \/ /\ run.key = "public2048" /\ pc' = "token" /\ gpc' = "list"
          /\ hdr' = h
          /\ UNCHANGED <<run, at, handle_, rc, usb>>
    /\ UNCHANGED <<img, ids, output>>

run_gnubby ==
    /\ pc = "token" /\ Token!Next
    /\ UNCHANGED <<pc, run, img, ids, hdr, hashes, output>>

(* The gnubbies' result: 1, or main() aborts. *)
gnubby_result ==
    /\ \/ /\ gpc = "ended"
          /\ Step("token", IF Signatures(hdr) = {} THEN "abort" ELSE "generate")
       \/ gpc = "crash" /\ Step("token", "crash")
    /\ hdr' = [hdr EXCEPT !.signature = IF Signatures(hdr) = {} THEN @ ELSE "own"]
    /\ UNCHANGED <<img, ids, hashes, output>>

(* Image::generate(): void, and main() returns 0.  fwrite() may fall short.  *)
(* Mutant: the file of the last run is kept on.                               *)
generate_appends ==
    /\ Step("generate", "exit0")
    /\ \/ output' = [header |-> hdr, cells |-> IF output = Absent THEN Cells ELSE Older.cells \o Cells]
       \/ UNCHANGED output
    /\ UNCHANGED <<img, ids, hdr, hashes>>

generate ==
    /\ Step("generate", "exit0")
    /\ \/ \E k \in 0 .. Len(Cells) : output' = [header |-> hdr, cells |-> SubSeq(Cells, 1, k)]
       \/ UNCHANGED output
    /\ UNCHANGED <<img, ids, hdr, hashes>>

Next ==
    \/ getOptions \/ load_key \/ fromElf \/ fill \/ read_xml \/ header
    \/ sign \/ run_gnubby \/ gnubby_result \/ generate

(* The program goes on for as long as it can. *)
Spec == Init /\ [][Next]_vars /\ WF_vars(Next)

-----------------------------------------------------------------------------
(* Properties.                                                               *)

Written == pc = "exit0" /\ output \notin {Absent, Older}
Whole == Written /\ Len(output.cells) = output.header.image_size
Signed == output.header

(* The ELF file is one for this slot: its bytes lie behind the header's      *)
(* place and within the slot; and its code leaves room for the slack.         *)
LiesIn(slot) ==
    LET lo == slot - FlashBase IN
    /\ Stored(run.elf) \subseteq lo + HeaderSize .. lo + SlotSize(slot) - 1
    /\ lo \in {RoundDown(i) : i \in Stored(run.elf)}
    /\ \A p \in Loaded(run.elf) : p.paddr + p.filesz <= slot + SlotSize(slot)
    /\ \A s \in Code(run.elf) : /\ slot + HeaderSize <= s.addr
                                /\ s.addr + s.size <= slot + SlotSize(slot)
LeavesRoom(slot) == \A s \in Code(run.elf) : s.addr + s.size + RxSlack <= slot + SlotSize(slot)
Fits(slot) == LiesIn(slot) /\ LeavesRoom(slot)

(* An unpadded image of an ELF file that lies in a slot passes the loader's   *)
(* header checks there, unless its code reaches into the slot's last RxSlack  *)
(* bytes: the signer signs that too and exits 0, and the loader refuses it.   *)
(* The window the header has the loader stage holds all of the code.          *)
LoaderTakesHeader ==
    Whole /\ ~run.fill =>
        \A slot \in Slots : LiesIn(slot) =>
            /\ verify_SignedHeader(Signed, SlotSize(slot), slot)
                  = IF LeavesRoom(slot) THEN LAUNCH_SUCCESS ELSE LAUNCH_RX_MAX_AFTER_REGION
            /\ \A s \in Code(run.elf) :
                  Signed.rx_base <= s.addr /\ s.addr + s.size <= Signed.rx_max

(* The loader's verdict on the image, put at the start of a slot as packer.sh *)
(* does, on a chip with these fuses.                                          *)
LoaderVerdict(slot, chip) ==
    LET code == verify_SignedHeader(Signed, SlotSize(slot), slot) IN
    IF code # LAUNCH_SUCCESS THEN code
    ELSE IF /\ Signed.img_chk_ = Digest(Signed, output.cells, Signed.image_size)
            /\ Signed.fuses_chk_ = fuse_array(Signed, efuse_of(chip))
         THEN LAUNCH_SUCCESS
         ELSE LAUNCH_INVALID_HASH

(* Where the XML lists a fuse: at the number of its first entry, however that  *)
(* entry came there.                                                           *)
Entry(f) == MinOf({j \in DOMAIN run.xml.items : run.xml.items[j].name = f})
ListedAs(f) ==
    IF f = Blk6 THEN [index |-> 125, width |-> 5]
    ELSE [index |-> Entry(f) - 1, width |-> run.xml.items[Entry(f)].width]
(* The chip has a value in the fuse at a place of the list; if that is of      *)
(* another width, its register reads as the value padded to the listed width.  *)
HasValue(chip, place, value) ==
    IF place.index < FuseCount /\ place.width = FuseWidth[place.index + 1]
    THEN BlownBits(chip, place.index) = value
    ELSE efuse_of(chip)[place.index] = (FusePad \ Mask(<<0, place.width>>)) \cup value

(* An unpadded image for a slot launches there on a chip exactly if the chip  *)
(* has the value of each of the manifest's fuses, and of                       *)
(* FW_DEFINED_DATA_EXTRA_BLK6, at the fuse's place in the XML: numbers, widths *)
(* and padding of the signer's array are those of the registers the loader     *)
(* reads.  Of the places the signer checks Blk6's only: with two entries       *)
(* exchanged, the image launches on chips with the value in the wrong fuse.    *)
SignedImageLaunches ==
    Whole /\ ~run.fill =>
        \A slot \in Slots, chip \in Chips : Fits(slot) =>
            (LoaderVerdict(slot, chip) = LAUNCH_SUCCESS
                <=> \A f \in DOMAIN Fuses : HasValue(chip, ListedAs(f), Fuses[f]))

(* The digest in the header of a whole output file is that of the file, and  *)
(* the hashes file, if it was written, has the same digest, so that a         *)
(* signature made of it elsewhere is one for this image.                      *)
DigestOfFile ==
    Whole => /\ Signed.img_chk_ = Digest(Signed, output.cells, Signed.image_size)
             /\ hashes \in {Absent, Torn, Signed.img_chk_}

(* Every byte of the ELF file that is loaded behind the header is in an      *)
(* unpadded image, at its place, but for one: the last, if it is the first   *)
(* of a 2K bank, as high_ is rounded up from its address.                     *)
LostByte(i) == i % BankSize = 0 /\ i = MaxOr0(Stored(run.elf))
LoadedBytesKept ==
    Whole /\ ~run.fill =>
        \A i \in Stored(run.elf) :
            LET k == i - img.base + 1 IN
            k > HeaderSize =>
                IF LostByte(i)
                THEN k > Len(output.cells)
                ELSE k <= Len(output.cells) /\ output.cells[k] = FlashBase + i

(* The output of an earlier run is replaced only by an image whose digest is *)
(* in its header and whose signature was made by the run's key, and never by  *)
(* a mixture.                                                                  *)
OutputOnlySigned ==
    [][output' # output =>
          /\ hdr.img_chk_ = Digest(hdr, Cells, hdr.image_size)
          /\ hdr.signature \in Signatures(hdr)
          /\ \E k \in 0 .. Len(Cells) :
                output' = [header |-> hdr, cells |-> SubSeq(Cells, 1, k)]]_vars

(* Gnubby's properties, for the session of this program. *)
HandlesBalanced == Token!HandlesBalanced
NotLeftLocked == Token!NotLeftLocked
EveryTokenAsked == Token!EveryTokenAsked

(* The program ends, whatever the devices do, but for one way: a gnubby that  *)
(* takes its first command, to be locked, and never answers is waited for     *)
(* without end, as the transfers have no timeout.  Each of the others, however *)
(* it fails, is done with.                                                     *)
Waiting == pc = "token" /\ gpc = "lock" /\ usb[handle_].kind = "mute"
Ends == <>(pc \in Ended) \/ <>[]Waiting

-----------------------------------------------------------------------------
(* What documents and comments say of the program.                           *)

(* util/signer/image.cc:177 - "Copy data into image": all of it.             *)
AllDataCopied ==
    Whole /\ ~run.fill =>
        \A i \in Stored(run.elf) : i - img.base + 1 <= Len(output.cells)

(* util/signer/codesigner.cc:308 - "--patternfill=N to pad image to 512K":   *)
(* padding changes no byte of the image.                                      *)
PaddingKeepsImage ==
    Whole => \A i \in {j \in Stored(run.elf) : ~LostByte(j)} :
        LET k == i - img.base + 1 IN
        k \in HeaderSize + 1 .. Len(output.cells) => output.cells[k] = FlashBase + i
=============================================================================
