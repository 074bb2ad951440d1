---------------------------- MODULE PackerProofs ----------------------------
(***************************************************************************)
(* What packer.sh leaves in the image, for all signed blobs of any length,   *)
(* wherever the script stops.                                                *)
(***************************************************************************)
EXTENDS Packer, SequenceTheorems, TLAPS

-----------------------------------------------------------------------------
(* Files and slots.                                                          *)

LEMMA SlotOrder ==
    /\ FlashSize \in Nat /\ HeaderSize \in Nat /\ TagOffset \in Nat /\ TagOffset < HeaderSize
    /\ TagOffset > 0
    /\ Offset(RO_A_BASE) = 0 /\ {Offset(RW_A_BASE), Offset(RO_B_BASE), Offset(RW_B_BASE)} \subseteq Nat
    /\ 0 < Offset(RW_A_BASE) /\ Offset(RW_A_BASE) < Offset(RO_B_BASE)
    /\ Offset(RO_B_BASE) < Offset(RW_B_BASE) /\ Offset(RW_B_BASE) + TagOffset < FlashSize
    /\ Offset(RW_A_BASE) + TagOffset < FlashSize
<1>1. /\ {FlashBase, FlashHalf, RoSize, TopSize, BankSize, WordSize} \subseteq Nat \ {0}
      /\ RoSize + TopSize < FlashHalf
      /\ HeaderSize \in Nat /\ TagOffset \in Nat \ {0} /\ TagOffset < HeaderSize
      /\ VectorSize \in Nat \ {0} /\ HeaderSize + VectorSize <= BankSize
      /\ BankSize <= FlashHalf - RoSize - TopSize
  BY FlashLayoutAssumption, SignedHeaderAssumption DEF RwSize
<1>2. QED
  BY <1>1 DEF RO_A_BASE, RO_B_BASE, RW_A_BASE, RW_B_BASE, Offset, FlashSize

LEMMA FileCells ==
    ASSUME NEW s \in File
    PROVE  /\ Len(s) \in Nat /\ DOMAIN s = 1 .. Len(s) /\ \A k \in 1 .. Len(s) : s[k] \in Cell
  BY DEF File

LEMMA ConstantFile ==
    ASSUME NEW c \in Cell, NEW n \in Nat
    PROVE  /\ Cells(c, n) \in File /\ Len(Cells(c, n)) = n
           /\ \A k \in 1 .. n : Cells(c, n)[k] = c
<1>1. Cells(c, n) \in [1 .. n -> Cell]
  BY DEF Cells
<1>2. QED
  BY <1>1 DEF Cells, File

LEMMA PrefixFacts ==
    ASSUME NEW s \in File, NEW p \in Prefixes(s)
    PROVE  /\ p \in File /\ Len(p) \in Nat /\ Len(p) <= Len(s)
           /\ \A k \in 1 .. Len(p) : p[k] = s[k]
<1>1. PICK n \in 0 .. Len(s) : p = SubSeq(s, 1, n)
  BY DEF Prefixes
<1>2. \A i \in 1 .. n : s[i] \in Cell
  BY <1>1, FileCells
<1>3. /\ SubSeq(s, 1, n) \in Seq(Cell) /\ \A i \in 1 .. n : SubSeq(s, 1, n)[i] = s[i]
      /\ Len(SubSeq(s, 1, n)) = n
  BY <1>1, <1>2, SubSeqProperties
<1>4. QED
  BY <1>1, <1>3, FileCells DEF File

(* dd with conv=notrunc: what was written, around it what was there. *)
LEMMA WriteBlob ==
    ASSUME NEW src \in File, NEW dst \in File, NEW off \in Nat, off <= Len(dst)
    PROVE  /\ write_blob(src, dst, off) \in File
           /\ Len(write_blob(src, dst, off))
                = IF Len(dst) > off + Len(src) THEN Len(dst) ELSE off + Len(src)
           /\ \A k \in 1 .. Len(write_blob(src, dst, off)) :
                 write_blob(src, dst, off)[k]
                   = IF off < k /\ k <= off + Len(src) THEN src[k - off] ELSE dst[k]
<1> DEFINE end == IF Len(dst) > off + Len(src) THEN Len(dst) ELSE off + Len(src)
           w == [k \in 1 .. end |-> IF off < k /\ k <= off + Len(src) THEN src[k - off] ELSE dst[k]]
<1>1. write_blob(src, dst, off) = w
  BY DEF write_blob
<1>2. /\ Len(src) \in Nat /\ Len(dst) \in Nat
      /\ \A k \in 1 .. Len(src) : src[k] \in Cell
      /\ \A k \in 1 .. Len(dst) : dst[k] \in Cell
  BY FileCells
<1>3. w \in [1 .. end -> Cell]
  BY <1>2
<1>4. end \in Nat
  BY <1>2
<1>5. \A k \in 1 .. end : w[k] = IF off < k /\ k <= off + Len(src) THEN src[k - off] ELSE dst[k]
  OBVIOUS
<1> HIDE DEF w, end
<1>6. w \in File /\ Len(w) = end
  BY <1>3, <1>4 DEF File
<1>7. QED
  BY <1>1, <1>5, <1>6 DEF end

LEMMA PaddingCells == ErasedCell \in Cell /\ ZeroCell \in Cell
  BY DEF ErasedCell, ZeroCell, Cell

(* A blob that was found good for a slot begins with a cell of its own, and   *)
(* so does the part that is hashed.                                           *)
LEMMA GoodBlob ==
    ASSUME NEW file \in File, NEW b \in Blob, SignedAs(file, b), NEW adr, verify_blob(file, adr)
    PROVE  /\ Len(file) > TagOffset
           /\ file[1] = [blob |-> b, at |-> 0]
           /\ file[TagOffset + 1] = [blob |-> b, at |-> TagOffset]
<1>1. Len(file) > TagOffset /\ Len(file) \in Nat
  BY FileCells DEF verify_blob, readable
<1>2. QED
  BY <1>1, SlotOrder DEF SignedAs

-----------------------------------------------------------------------------
(* The invariant (packer.sh main).                                           *)

Running == {"remove", "truncate", "fill", "write_ro_a", "write_rw_a", "write_ro_b", "write_rw_b"}
Erasing == Cells(ErasedCell, FlashSize)
(* The image after each of the four writes. *)
WithRoA == write_blob(fs[args.ro_a], Erasing, Offset(RO_A_BASE))
WithRwA == write_blob(fs[args.rw_a], WithRoA, Offset(RW_A_BASE))
WithRoB == write_blob(fs[args.ro_b], WithRwA, Offset(RO_B_BASE))
WithRwB == write_blob(fs[args.rw_b], WithRoB, Offset(RW_B_BASE))

Typed ==
    /\ Inputs \subseteq Path /\ args.output \in Path
    /\ fs \in [Path -> {Absent} \cup File]
BlobsSigned ==
    /\ \A p \in Inputs : fs[p] = Absent \/ \E b \in Blob : SignedAs(fs[p], b)
    /\ \A p \in {args.rw_a, args.rw_b} : fs[p] = Absent \/ \E b \in Blob : fs[p] = BlobFile(b)
ImageSoFar ==
    /\ pc = "truncate" => Out = Absent
    /\ pc = "fill" => Out = Cells(ZeroCell, FlashSize)
    /\ pc = "write_ro_a" => Out = Erasing
    /\ pc = "write_rw_a" => Out = WithRoA
    /\ pc = "write_ro_b" => Out = WithRwA
    /\ pc = "write_rw_b" => Out = WithRoB
    /\ pc = "exit0" => Out = WithRwB
Packing ==
    /\ Typed
    /\ pc \in {"check"} \cup Running \cup Exited
    /\ pc \in Running \cup {"exit0"} => valid
    /\ ImageSoFar
PackInv == args.output \notin Inputs => Packing /\ BlobsSigned

LEMMA InitPack == Init => PackInv
<1> SUFFICES ASSUME Init, args.output \notin Inputs PROVE Packing /\ BlobsSigned
  BY DEF PackInv
<1>1. PICK r \in PackerRuns : args = r.args /\ fs = r.fs
  BY DEF Init
<1>2. \A p \in {args.rw_a, args.rw_b} : fs[p] = Absent \/ \E b \in Blob : fs[p] = BlobFile(b)
  BY <1>1, PackerAssumption
<1>3. \A p \in {args.ro_a, args.ro_b} : fs[p] = Absent \/ \E b \in Blob : SignedAs(fs[p], b)
  BY <1>1, PackerAssumption
<1>4. BlobsSigned
  BY <1>2, <1>3, BlobAssumption DEF BlobsSigned, Inputs
<1>5. Typed
  BY <1>1, PackerAssumption DEF Typed, Inputs
<1>6. QED
  BY <1>4, <1>5 DEF Init, Packing, Running, ImageSoFar

(* The four inputs, once they were checked. *)
LEMMA GoodInputs ==
    ASSUME Typed, valid
    PROVE  \A s \in Slotted :
              /\ fs[s[1]] \in File /\ s[1] \in Inputs /\ Len(fs[s[1]]) > TagOffset
              /\ Offset(s[2]) \in Nat /\ Offset(s[2]) <= FlashSize
<1> SUFFICES ASSUME NEW s \in Slotted
             PROVE  /\ fs[s[1]] \in File /\ s[1] \in Inputs /\ Len(fs[s[1]]) > TagOffset
                    /\ Offset(s[2]) \in Nat /\ Offset(s[2]) <= FlashSize
  OBVIOUS
<1>1. s[1] \in Inputs /\ verify_blob(fs[s[1]], s[2])
  BY DEF Slotted, Inputs, valid
<1>2. fs[s[1]] # Absent /\ Len(fs[s[1]]) > TagOffset
  BY <1>1 DEF verify_blob, readable
<1>3. fs[s[1]] \in File
  BY <1>1, <1>2 DEF Typed
<1>4. Offset(s[2]) \in Nat /\ Offset(s[2]) <= FlashSize
  BY SlotOrder DEF Slotted
<1>5. QED
  BY <1>1, <1>2, <1>3, <1>4

LEMMA GoodBlobs ==
    ASSUME Typed, BlobsSigned, valid, NEW s \in Slotted
    PROVE  \E b \in Blob : /\ SignedAs(fs[s[1]], b)
                         /\ fs[s[1]][1] = [blob |-> b, at |-> 0]
                         /\ fs[s[1]][TagOffset + 1] = [blob |-> b, at |-> TagOffset]
<1>1. s[1] \in Inputs /\ verify_blob(fs[s[1]], s[2])
  BY DEF Slotted, Inputs, valid
<1>2. fs[s[1]] # Absent
  BY <1>1 DEF verify_blob, readable
<1>3. PICK b \in Blob : SignedAs(fs[s[1]], b)
  BY <1>1, <1>2 DEF BlobsSigned
<1>4. fs[s[1]] \in File
  BY <1>3 DEF SignedAs
<1>5. QED
  BY <1>1, <1>3, <1>4, GoodBlob

(* A command touches nothing but the output. *)
LEMMA InputsKept ==
    ASSUME Packing, args.output \notin Inputs, Next
    PROVE  /\ args' = args /\ Inputs' = Inputs /\ Slotted' = Slotted
           /\ \A p \in Inputs : fs'[p] = fs[p]
           /\ (BlobsSigned => BlobsSigned') /\ (valid' <=> valid)
<1>1. args' = args
  BY DEF Next, Script, Kill, check, remove, truncate, fill, write, write_ro_a, write_rw_a, write_ro_b,
     write_rw_b, Command
<1>2. fs' = fs \/ \E x : fs' = [fs EXCEPT ![args.output] = x]
  BY DEF Next, Script, Kill, check, remove, truncate, fill, write, write_ro_a, write_rw_a, write_ro_b,
     write_rw_b, Command
<1>3. Inputs' = Inputs /\ Slotted' = Slotted
  BY <1>1 DEF Inputs, Slotted
<1>4. \A p \in Inputs : fs'[p] = fs[p]
  BY <1>2 DEF Packing, Typed
<1>5. BlobsSigned => BlobsSigned'
  BY <1>1, <1>3, <1>4 DEF BlobsSigned, Inputs
<1>6. valid' <=> valid
  BY <1>1, <1>3, <1>4 DEF valid, Inputs
<1>7. QED
  BY <1>1, <1>3, <1>4, <1>5, <1>6

LEMMA CommandStep ==
    ASSUME Typed, NEW start, NEW to, NEW file, NEW partials,
           file \in {Absent} \cup File, \A x \in partials : x \in {Absent} \cup File,
           Command(start, to, file, partials)
    PROVE  /\ Typed' /\ pc = start
           /\ \/ pc' = to /\ Out' = file
              \/ pc' = "exit1" /\ Out' \in partials
<1>1. args' = args /\ Inputs' = Inputs /\ pc = start
  BY DEF Command, Inputs
<1>2. PICK x \in {Absent} \cup File :
         /\ fs' = [fs EXCEPT ![args.output] = x]
         /\ (pc' = to /\ x = file) \/ (pc' = "exit1" /\ x \in partials)
  BY DEF Command
<1>3. Out' = x
  BY <1>1, <1>2 DEF Out, Typed
<1>4. Typed'
  BY <1>1, <1>2 DEF Typed
<1>5. QED
  BY <1>1, <1>2, <1>3, <1>4

(* The files the commands of a run make of one another. *)
LEMMA Layers ==
    ASSUME Typed, valid
    PROVE  /\ {Erasing, WithRoA, WithRwA, WithRoB, WithRwB} \subseteq File
           /\ Len(Erasing) = FlashSize
           /\ \A w \in {WithRoA, WithRwA, WithRoB, WithRwB} : Len(w) >= FlashSize
<1>1. \A s \in Slotted : fs[s[1]] \in File /\ Offset(s[2]) \in Nat /\ Offset(s[2]) <= FlashSize
  BY GoodInputs
<1>2. /\ Erasing \in File /\ Len(Erasing) = FlashSize /\ FlashSize \in Nat
      /\ Len(Erasing) >= FlashSize
  BY ConstantFile, PaddingCells, SlotOrder DEF Erasing
<1>3. \A s \in Slotted, dst \in File : Len(dst) >= FlashSize =>
         /\ write_blob(fs[s[1]], dst, Offset(s[2])) \in File
         /\ Len(write_blob(fs[s[1]], dst, Offset(s[2]))) >= FlashSize
  <2> SUFFICES ASSUME NEW s \in Slotted, NEW dst \in File, Len(dst) >= FlashSize
               PROVE  /\ write_blob(fs[s[1]], dst, Offset(s[2])) \in File
                      /\ Len(write_blob(fs[s[1]], dst, Offset(s[2]))) >= FlashSize
    OBVIOUS
  <2>1. Offset(s[2]) <= Len(dst) /\ Len(dst) \in Nat /\ Len(fs[s[1]]) \in Nat
    BY <1>1, <1>2, FileCells
  <2>2. QED
    BY <1>1, <1>2, <2>1, WriteBlob
<1>4. /\ <<args.ro_a, RO_A_BASE>> \in Slotted /\ <<args.rw_a, RW_A_BASE>> \in Slotted
      /\ <<args.ro_b, RO_B_BASE>> \in Slotted /\ <<args.rw_b, RW_B_BASE>> \in Slotted
  BY DEF Slotted
<1>5. WithRoA \in File /\ Len(WithRoA) >= FlashSize
  BY <1>2, <1>3, <1>4 DEF WithRoA
<1>6. WithRwA \in File /\ Len(WithRwA) >= FlashSize
  BY <1>3, <1>4, <1>5 DEF WithRwA
<1>7. WithRoB \in File /\ Len(WithRoB) >= FlashSize
  BY <1>3, <1>4, <1>6 DEF WithRoB
<1>8. WithRwB \in File /\ Len(WithRwB) >= FlashSize
  BY <1>3, <1>4, <1>7 DEF WithRwB
<1>9. QED
  BY <1>2, <1>5, <1>6, <1>7, <1>8

(* The layers are those of the inputs, so a command that writes none of them  *)
(* leaves them what they are.                                                  *)
LEMMA LayersKept ==
    ASSUME Packing, args.output \notin Inputs, Next
    PROVE  WithRoA' = WithRoA /\ WithRwA' = WithRwA /\ WithRoB' = WithRoB /\ WithRwB' = WithRwB
<1>1. args' = args /\ \A p \in Inputs : fs'[p] = fs[p]
  BY InputsKept
<1>2. {args.ro_a, args.rw_a, args.ro_b, args.rw_b} \subseteq Inputs
  BY DEF Inputs
<1>3. WithRoA' = WithRoA
  BY <1>1, <1>2 DEF WithRoA, Erasing
<1>4. WithRwA' = WithRwA
  BY <1>1, <1>2, <1>3 DEF WithRwA
<1>5. WithRoB' = WithRoB
  BY <1>1, <1>2, <1>4 DEF WithRoB
<1>6. QED
  BY <1>1, <1>2, <1>3, <1>4, <1>5 DEF WithRwB

(* One write: all of a blob, or a prefix of it. *)
LEMMA WriteStep ==
    ASSUME Packing, args.output \notin Inputs, NEW start, NEW to, NEW s \in Slotted,
           pc \in Running, Out \in File, Len(Out) >= FlashSize, write(start, to, s[1], s[2])
    PROVE  /\ Typed' /\ pc = start
           /\ \/ pc' = to /\ Out' = write_blob(fs[s[1]], Out, Offset(s[2]))
              \/ /\ pc' = "exit1"
                 /\ \E p \in Prefixes(fs[s[1]]) : Out' = write_blob(p, Out, Offset(s[2]))
<1>1. valid /\ Typed
  BY DEF Packing
<1>2. fs[s[1]] \in File /\ Offset(s[2]) \in Nat /\ Offset(s[2]) <= Len(Out)
  BY <1>1, GoodInputs, SlotOrder, FileCells
<1>3. write_blob(fs[s[1]], Out, Offset(s[2])) \in {Absent} \cup File
  BY <1>2, WriteBlob
<1>4. \A p \in Prefixes(fs[s[1]]) : write_blob(p, Out, Offset(s[2])) \in {Absent} \cup File
  BY <1>2, PrefixFacts, WriteBlob
<1> DEFINE partials == {write_blob(p, Out, Offset(s[2])) : p \in Prefixes(fs[s[1]])}
<1>5. Command(start, to, write_blob(fs[s[1]], Out, Offset(s[2])), partials)
  BY DEF write
<1>6. \A x \in partials : x \in {Absent} \cup File
  BY <1>4
<1> HIDE DEF partials
<1>7. /\ Typed' /\ pc = start
      /\ \/ pc' = to /\ Out' = write_blob(fs[s[1]], Out, Offset(s[2]))
         \/ pc' = "exit1" /\ Out' \in partials
  BY <1>1, <1>3, <1>5, <1>6, CommandStep
<1>8. QED
  BY <1>7 DEF partials

(* truncate makes a file of zeros of what rm has left. *)
LEMMA Resized ==
    ASSUME Out = Absent
    PROVE  resized(Out) = Cells(ZeroCell, FlashSize)
<1>1. resized(Out) = [k \in 1 .. FlashSize |-> IF k <= Len(<<>>) THEN <<>>[k] ELSE ZeroCell]
  BY DEF resized
<1>2. \A k \in 1 .. FlashSize : ~(k <= Len(<<>>))
  BY SlotOrder
<1>3. QED
  BY <1>1, <1>2 DEF Cells

LEMMA FillStep ==
    ASSUME Packing, args.output \notin Inputs, fill
    PROVE  /\ Typed' /\ pc = "fill"
           /\ \/ pc' = "write_ro_a" /\ Out' = Erasing
              \/ /\ pc' = "exit1"
                 /\ \E p \in Prefixes(Erasing) : Out' = write_blob(p, Out, 0)
<1>1. pc = "fill" /\ Typed /\ Out = Cells(ZeroCell, FlashSize)
  BY DEF Packing, ImageSoFar, fill, Command
<1>2. Out \in File /\ Len(Out) = FlashSize /\ Erasing \in File /\ FlashSize \in Nat
  BY <1>1, ConstantFile, PaddingCells, SlotOrder DEF Erasing
<1>3. \A p \in Prefixes(Erasing) : write_blob(p, Out, 0) \in {Absent} \cup File
  BY <1>2, PrefixFacts, WriteBlob
<1> DEFINE partials == {write_blob(p, Out, 0) : p \in Prefixes(Erasing)}
<1>4. Command("fill", "write_ro_a", Erasing, partials)
  BY DEF fill, Erasing
<1>5. \A x \in partials : x \in {Absent} \cup File
  BY <1>3
<1> HIDE DEF partials
<1>6. /\ Typed' /\ pc = "fill"
      /\ \/ pc' = "write_ro_a" /\ Out' = Erasing
         \/ pc' = "exit1" /\ Out' \in partials
  BY <1>1, <1>2, <1>4, <1>5, CommandStep
<1>7. QED
  BY <1>6 DEF partials

LEMMA TruncateStep ==
    ASSUME Packing, args.output \notin Inputs, truncate
    PROVE  /\ Typed' /\ pc = "truncate"
           /\ \/ pc' = "fill" /\ Out' = Cells(ZeroCell, FlashSize)
              \/ pc' = "exit1" /\ Out' \in {Absent, <<>>}
<1>1. pc = "truncate" /\ Typed /\ Out = Absent
  BY DEF Packing, ImageSoFar, truncate, Command
<1>2. Command("truncate", "fill", Cells(ZeroCell, FlashSize), {Absent, <<>>})
  BY <1>1, Resized DEF truncate
<1>3. Cells(ZeroCell, FlashSize) \in File /\ <<>> \in File
  BY ConstantFile, PaddingCells, SlotOrder DEF File
<1>4. QED
  BY <1>1, <1>2, <1>3, CommandStep

LEMMA PackingStep == Packing /\ args.output \notin Inputs /\ [Next]_vars => Packing'
<1> SUFFICES ASSUME Packing, args.output \notin Inputs, [Next]_vars PROVE Packing'
  OBVIOUS
<1> USE DEF Running, Exited
<1>1. args' = args /\ Inputs' = Inputs
  BY DEF vars, Inputs, Next, Script, Kill, check, remove, truncate, fill, write, write_ro_a, write_rw_a,
     write_ro_b, write_rw_b, Command
<1>2. args.output \notin Inputs /\ Packing
  OBVIOUS
<1>3. CASE UNCHANGED vars
  BY <1>2, <1>3 DEF vars, Packing, Typed, ImageSoFar, Inputs, Out, valid, WithRoA, WithRwA,
     WithRoB, WithRwB, Erasing
<1>4. ASSUME Next PROVE Packing'
  <2>1. /\ valid' <=> valid
        /\ WithRoA' = WithRoA /\ WithRwA' = WithRwA /\ WithRoB' = WithRoB /\ WithRwB' = WithRwB
    BY <1>2, <1>4, InputsKept, LayersKept
  <2>2. Erasing' = Erasing
    BY DEF Erasing
  <2>3. pc' = "exit1" /\ Typed' => Packing'
    BY <2>1 DEF Packing, ImageSoFar
  <2>4. ASSUME pc \in Running PROVE valid
    BY <1>2, <2>4 DEF Packing
  <2>5. CASE Kill
    <3>1. pc' = "killed" /\ Typed'
      BY <1>1, <1>2, <2>5 DEF Kill, Packing, Typed
    <3>2. QED
      BY <2>1, <3>1 DEF Packing, ImageSoFar
  <2>6. CASE check
    <3>1. fs' = fs /\ pc' = IF valid THEN "remove" ELSE "exit1"
      BY <2>6 DEF check
    <3>2. Typed'
      BY <1>1, <1>2, <3>1 DEF Packing, Typed
    <3>3. QED
      BY <2>1, <3>1, <3>2 DEF Packing, ImageSoFar
  <2>7. CASE remove
    <3>1. Out \in {Absent} \cup File /\ Typed
      BY <1>2 DEF Packing, Typed, Out
    <3>2. Typed' /\ pc = "remove" /\ (pc' = "exit1" \/ (pc' = "truncate" /\ Out' = Absent))
      BY <2>7, <3>1, CommandStep DEF remove
    <3>3. QED
      BY <2>1, <2>3, <2>4, <3>2 DEF Packing, ImageSoFar
  <2>8. CASE truncate
    <3>1. /\ Typed' /\ pc = "truncate"
          /\ (pc' = "exit1" \/ (pc' = "fill" /\ Out' = Cells(ZeroCell, FlashSize)))
      BY <1>2, <2>8, TruncateStep
    <3>2. QED
      BY <2>1, <2>3, <2>4, <3>1 DEF Packing, ImageSoFar
  <2>9. CASE fill
    <3>1. Typed' /\ pc = "fill" /\ (pc' = "exit1" \/ (pc' = "write_ro_a" /\ Out' = Erasing))
      BY <1>2, <2>9, FillStep
    <3>2. QED
      BY <2>1, <2>2, <2>3, <2>4, <3>1 DEF Packing, ImageSoFar
  <2>10. CASE write_ro_a
    <3>1. pc = "write_ro_a" /\ Out = Erasing /\ valid
      BY <1>2, <2>4, <2>10 DEF write_ro_a, write, Command, Packing, ImageSoFar
    <3>2. Out \in File /\ Len(Out) >= FlashSize
      BY <1>2, <3>1, Layers, SlotOrder DEF Packing
    <3>3. write("write_ro_a", "write_rw_a", <<args.ro_a, RO_A_BASE>>[1], <<args.ro_a, RO_A_BASE>>[2])
          /\ <<args.ro_a, RO_A_BASE>> \in Slotted
      BY <2>10 DEF write_ro_a, Slotted
    <3>4. Typed' /\ (pc' = "exit1" \/ (pc' = "write_rw_a" /\ Out' = WithRoA))
      BY <1>2, <3>1, <3>2, <3>3, WriteStep DEF WithRoA
    <3>5. QED
      BY <2>1, <2>3, <3>1, <3>4 DEF Packing, ImageSoFar
  <2>11. CASE write_rw_a
    <3>1. pc = "write_rw_a" /\ Out = WithRoA /\ valid
      BY <1>2, <2>4, <2>11 DEF write_rw_a, write, Command, Packing, ImageSoFar
    <3>2. Out \in File /\ Len(Out) >= FlashSize
      BY <1>2, <3>1, Layers DEF Packing
    <3>3. write("write_rw_a", "write_ro_b", <<args.rw_a, RW_A_BASE>>[1], <<args.rw_a, RW_A_BASE>>[2])
          /\ <<args.rw_a, RW_A_BASE>> \in Slotted
      BY <2>11 DEF write_rw_a, Slotted
    <3>4. Typed' /\ (pc' = "exit1" \/ (pc' = "write_ro_b" /\ Out' = WithRwA))
      BY <1>2, <3>1, <3>2, <3>3, WriteStep DEF WithRwA
    <3>5. QED
      BY <2>1, <2>3, <3>1, <3>4 DEF Packing, ImageSoFar
  <2>12. CASE write_ro_b
    <3>1. pc = "write_ro_b" /\ Out = WithRwA /\ valid
      BY <1>2, <2>4, <2>12 DEF write_ro_b, write, Command, Packing, ImageSoFar
    <3>2. Out \in File /\ Len(Out) >= FlashSize
      BY <1>2, <3>1, Layers DEF Packing
    <3>3. write("write_ro_b", "write_rw_b", <<args.ro_b, RO_B_BASE>>[1], <<args.ro_b, RO_B_BASE>>[2])
          /\ <<args.ro_b, RO_B_BASE>> \in Slotted
      BY <2>12 DEF write_ro_b, Slotted
    <3>4. Typed' /\ (pc' = "exit1" \/ (pc' = "write_rw_b" /\ Out' = WithRoB))
      BY <1>2, <3>1, <3>2, <3>3, WriteStep DEF WithRoB
    <3>5. QED
      BY <2>1, <2>3, <3>1, <3>4 DEF Packing, ImageSoFar
  <2>13. CASE write_rw_b
    <3>1. pc = "write_rw_b" /\ Out = WithRoB /\ valid
      BY <1>2, <2>4, <2>13 DEF write_rw_b, write, Command, Packing, ImageSoFar
    <3>2. Out \in File /\ Len(Out) >= FlashSize
      BY <1>2, <3>1, Layers DEF Packing
    <3>3. write("write_rw_b", "exit0", <<args.rw_b, RW_B_BASE>>[1], <<args.rw_b, RW_B_BASE>>[2])
          /\ <<args.rw_b, RW_B_BASE>> \in Slotted
      BY <2>13 DEF write_rw_b, Slotted
    <3>4. Typed' /\ (pc' = "exit1" \/ (pc' = "exit0" /\ Out' = WithRwB))
      BY <1>2, <3>1, <3>2, <3>3, WriteStep DEF WithRwB
    <3>5. QED
      BY <2>1, <2>3, <3>1, <3>4 DEF Packing, ImageSoFar
  <2>14. QED
    BY <1>4, <2>5, <2>6, <2>7, <2>8, <2>9, <2>10, <2>11, <2>12, <2>13 DEF Next, Script
<1>5. QED
  BY <1>3, <1>4

LEMMA PackStep == PackInv /\ [Next]_vars => PackInv'
<1> SUFFICES ASSUME PackInv, [Next]_vars, (args.output \notin Inputs)' PROVE Packing' /\ BlobsSigned'
  BY DEF PackInv
<1>1. args' = args /\ Inputs' = Inputs
  BY DEF vars, Inputs, Next, Script, Kill, check, remove, truncate, fill, write, write_ro_a, write_rw_a,
     write_ro_b, write_rw_b, Command
<1>2. args.output \notin Inputs /\ Packing /\ BlobsSigned
  BY <1>1 DEF PackInv
<1>3. BlobsSigned'
  <2>1. CASE UNCHANGED vars
    BY <1>2, <2>1 DEF vars, BlobsSigned, Inputs
  <2>2. QED
    BY <1>2, <2>1, InputsKept
<1>4. QED
  BY <1>2, <1>3, PackingStep

(* The output at every position of packer.sh, for all inputs the signer wrote. *)
THEOREM PackInvariance == Spec => []PackInv
BY InitPack, PackStep, PTL DEF Spec

-----------------------------------------------------------------------------
(* The final image.                                                          *)

Covers(s, k) == Offset(s[2]) < k /\ k <= Offset(s[2]) + Len(fs[s[1]])
EndOf(s) == Offset(s[2]) + Len(fs[s[1]])

(* Four files written over one another, each further on than the last: the   *)
(* last of them that covers a cell has it.                                     *)
Layered(w, A, B, C, D, E, a, b, c, d) ==
    /\ Len(w) \in Nat /\ Len(w) >= Len(E)
    /\ Len(w) >= a + Len(A) /\ Len(w) >= b + Len(B)
    /\ Len(w) >= c + Len(C) /\ Len(w) >= d + Len(D)
    /\ Len(w) \in {Len(E), a + Len(A), b + Len(B), c + Len(C), d + Len(D)}
    /\ \A k \in 1 .. Len(w) :
          w[k] = IF d < k /\ k <= d + Len(D) THEN D[k - d]
                 ELSE IF c < k /\ k <= c + Len(C) THEN C[k - c]
                 ELSE IF b < k /\ k <= b + Len(B) THEN B[k - b]
                 ELSE IF a < k /\ k <= a + Len(A) THEN A[k - a]
                 ELSE E[k]

LEMMA FourLayers ==
    ASSUME NEW A \in File, NEW B \in File, NEW C \in File, NEW D \in File, NEW E \in File,
           NEW a \in Nat, NEW b \in Nat, NEW c \in Nat, NEW d \in Nat,
           a < b, b < c, c < d, d <= Len(E)
    PROVE  Layered(write_blob(D, write_blob(C, write_blob(B, write_blob(A, E, a), b), c), d),
                   A, B, C, D, E, a, b, c, d)
<1> DEFINE w1 == write_blob(A, E, a)
           w2 == write_blob(B, w1, b)
           w3 == write_blob(C, w2, c)
           w4 == write_blob(D, w3, d)
<1> HIDE DEF w1, w2, w3, w4
<1>1. /\ Len(A) \in Nat /\ Len(B) \in Nat /\ Len(C) \in Nat /\ Len(D) \in Nat /\ Len(E) \in Nat
  BY FileCells
<1>2. /\ w1 \in File
      /\ Len(w1) = IF Len(E) > a + Len(A) THEN Len(E) ELSE a + Len(A)
      /\ \A k \in 1 .. Len(w1) : w1[k] = IF a < k /\ k <= a + Len(A) THEN A[k - a] ELSE E[k]
  <2>1. a <= Len(E)
    BY <1>1
  <2>2. QED
    BY <2>1, WriteBlob DEF w1
<1>3. /\ w2 \in File
      /\ Len(w2) = IF Len(w1) > b + Len(B) THEN Len(w1) ELSE b + Len(B)
      /\ \A k \in 1 .. Len(w2) : w2[k] = IF b < k /\ k <= b + Len(B) THEN B[k - b] ELSE w1[k]
  <2>1. b <= Len(w1)
    BY <1>1, <1>2
  <2>2. QED
    BY <1>2, <2>1, WriteBlob DEF w2
<1>4. /\ w3 \in File
      /\ Len(w3) = IF Len(w2) > c + Len(C) THEN Len(w2) ELSE c + Len(C)
      /\ \A k \in 1 .. Len(w3) : w3[k] = IF c < k /\ k <= c + Len(C) THEN C[k - c] ELSE w2[k]
  <2>1. c <= Len(w2)
    BY <1>1, <1>2, <1>3
  <2>2. QED
    BY <1>3, <2>1, WriteBlob DEF w3
<1>5. /\ w4 \in File
      /\ Len(w4) = IF Len(w3) > d + Len(D) THEN Len(w3) ELSE d + Len(D)
      /\ \A k \in 1 .. Len(w4) : w4[k] = IF d < k /\ k <= d + Len(D) THEN D[k - d] ELSE w3[k]
  <2>1. d <= Len(w3)
    BY <1>1, <1>2, <1>3, <1>4
  <2>2. QED
    BY <1>4, <2>1, WriteBlob DEF w4
<1>0. /\ Len(w1) \in Nat /\ Len(w2) \in Nat /\ Len(w3) \in Nat
      /\ b <= Len(w1) /\ c <= Len(w2) /\ d <= Len(w3)
  BY <1>1, <1>2, <1>3, <1>4
<1>6. ASSUME NEW k \in 1 .. Len(w4)
      PROVE  w4[k] = IF d < k /\ k <= d + Len(D) THEN D[k - d]
                     ELSE IF c < k /\ k <= c + Len(C) THEN C[k - c]
                     ELSE IF b < k /\ k <= b + Len(B) THEN B[k - b]
                     ELSE IF a < k /\ k <= a + Len(A) THEN A[k - a]
                     ELSE E[k]
  <2>1. CASE d < k /\ k <= d + Len(D)
    BY <1>5, <2>1
  <2>2. CASE ~(d < k /\ k <= d + Len(D))
    <3>1. w4[k] = w3[k] /\ k \in 1 .. Len(w3)
      <4>1. w4[k] = w3[k]
        BY <1>5, <2>2
      <4>2. CASE Len(w4) = Len(w3)
        BY <4>1, <4>2
      <4>3. CASE Len(w4) = d + Len(D)
        <5>1. k <= d
          BY <1>1, <2>2, <4>3
        <5>2. QED
          BY <1>0, <4>1, <5>1
      <4>4. QED
        BY <1>5, <4>2, <4>3
    <3>2. CASE c < k /\ k <= c + Len(C)
      BY <1>4, <2>2, <3>1, <3>2
    <3>3. CASE ~(c < k /\ k <= c + Len(C))
      <4>1. w3[k] = w2[k] /\ k \in 1 .. Len(w2)
        BY <1>0, <1>1, <1>4, <3>1, <3>3
      <4>2. CASE b < k /\ k <= b + Len(B)
        BY <1>3, <2>2, <3>1, <3>3, <4>1, <4>2
      <4>3. CASE ~(b < k /\ k <= b + Len(B))
        <5>1. w2[k] = w1[k] /\ k \in 1 .. Len(w1)
          BY <1>0, <1>1, <1>3, <4>1, <4>3
        <5>2. QED
          BY <1>2, <2>2, <3>1, <3>3, <4>1, <4>3, <5>1
      <4>4. QED
        BY <4>2, <4>3
    <3>4. QED
      BY <3>2, <3>3
  <2>3. QED
    BY <2>1, <2>2
<1>7. /\ Len(w1) \in Nat /\ Len(w1) >= Len(E) /\ Len(w1) >= a + Len(A)
      /\ Len(w1) \in {Len(E), a + Len(A)}
  BY <1>1, <1>2
<1>8. /\ Len(w2) \in Nat /\ Len(w2) >= Len(w1) /\ Len(w2) >= b + Len(B)
      /\ Len(w2) \in {Len(w1), b + Len(B)}
  BY <1>1, <1>3, <1>7
<1>9. /\ Len(w3) \in Nat /\ Len(w3) >= Len(w2) /\ Len(w3) >= c + Len(C)
      /\ Len(w3) \in {Len(w2), c + Len(C)}
  BY <1>1, <1>4, <1>8
<1>10. /\ Len(w4) \in Nat /\ Len(w4) >= Len(w3) /\ Len(w4) >= d + Len(D)
       /\ Len(w4) \in {Len(w3), d + Len(D)}
  BY <1>1, <1>5, <1>9
<1>11. Len(w4) >= Len(E) /\ Len(w4) >= a + Len(A) /\ Len(w4) >= b + Len(B) /\ Len(w4) >= c + Len(C)
  BY <1>1, <1>7, <1>8, <1>9, <1>10
<1>12. Len(w4) \in {Len(E), a + Len(A), b + Len(B), c + Len(C), d + Len(D)}
  BY <1>7, <1>8, <1>9, <1>10
<1>13. Layered(w4, A, B, C, D, E, a, b, c, d)
  BY <1>6, <1>10, <1>11, <1>12 DEF Layered
<1>14. QED
  BY <1>13 DEF w1, w2, w3, w4

(* Every cell of the final image is that of the last slot that covers it. *)
LEMMA FinalImage ==
    ASSUME Typed, valid
    PROVE  /\ Len(WithRwB) \in Nat /\ Len(WithRwB) >= FlashSize
           /\ \A s \in Slotted : Len(WithRwB) >= EndOf(s)
           /\ Len(WithRwB) = FlashSize \/ \E s \in Slotted : Len(WithRwB) = EndOf(s)
           /\ \A k \in 1 .. Len(WithRwB) :
                 /\ (\A s \in Slotted : ~Covers(s, k)) => WithRwB[k] = ErasedCell
                 /\ \A s \in Slotted :
                       /\ Covers(s, k)
                       /\ \A t \in Slotted : Offset(t[2]) > Offset(s[2]) => ~Covers(t, k)
                       => WithRwB[k] = fs[s[1]][k - Offset(s[2])]
<1> DEFINE s1 == <<args.ro_a, RO_A_BASE>>
           s2 == <<args.rw_a, RW_A_BASE>>
           s3 == <<args.ro_b, RO_B_BASE>>
           s4 == <<args.rw_b, RW_B_BASE>>
           F(s) == fs[s[1]]
           O(s) == Offset(s[2])
<1>1. Slotted = {s1, s2, s3, s4}
  BY DEF Slotted
<1>2. \A s \in Slotted : F(s) \in File /\ O(s) \in Nat
  BY GoodInputs
<1>3. O(s1) < O(s2) /\ O(s2) < O(s3) /\ O(s3) < O(s4) /\ O(s4) <= FlashSize
  BY SlotOrder
<1>4. /\ Erasing \in File /\ Len(Erasing) = FlashSize
      /\ \A k \in 1 .. FlashSize : Erasing[k] = ErasedCell
  BY ConstantFile, PaddingCells, SlotOrder DEF Erasing
<1>5. /\ WithRoA = write_blob(F(s1), Erasing, O(s1)) /\ WithRwA = write_blob(F(s2), WithRoA, O(s2))
      /\ WithRoB = write_blob(F(s3), WithRwA, O(s3)) /\ WithRwB = write_blob(F(s4), WithRoB, O(s4))
  BY DEF WithRoA, WithRwA, WithRoB, WithRwB
<1>6. \A s, k : Covers(s, k) <=> O(s) < k /\ k <= O(s) + Len(F(s))
  BY DEF Covers
<1>7. \A s : EndOf(s) = O(s) + Len(F(s))
  BY DEF EndOf
<1> HIDE DEF s1, s2, s3, s4, F, O
<1>8. /\ F(s1) \in File /\ F(s2) \in File /\ F(s3) \in File /\ F(s4) \in File
      /\ O(s1) \in Nat /\ O(s2) \in Nat /\ O(s3) \in Nat /\ O(s4) \in Nat
  BY <1>1, <1>2
<1>9. /\ Len(WithRwB) \in Nat /\ Len(WithRwB) >= FlashSize
      /\ Len(WithRwB) >= O(s1) + Len(F(s1)) /\ Len(WithRwB) >= O(s2) + Len(F(s2))
      /\ Len(WithRwB) >= O(s3) + Len(F(s3)) /\ Len(WithRwB) >= O(s4) + Len(F(s4))
      /\ Len(WithRwB) \in {FlashSize, O(s1) + Len(F(s1)), O(s2) + Len(F(s2)), O(s3) + Len(F(s3)),
                           O(s4) + Len(F(s4))}
      /\ \A k \in 1 .. Len(WithRwB) :
            WithRwB[k] = IF O(s4) < k /\ k <= O(s4) + Len(F(s4)) THEN F(s4)[k - O(s4)]
                         ELSE IF O(s3) < k /\ k <= O(s3) + Len(F(s3)) THEN F(s3)[k - O(s3)]
                         ELSE IF O(s2) < k /\ k <= O(s2) + Len(F(s2)) THEN F(s2)[k - O(s2)]
                         ELSE IF O(s1) < k /\ k <= O(s1) + Len(F(s1)) THEN F(s1)[k - O(s1)]
                         ELSE Erasing[k]
  <2>1. O(s4) <= Len(Erasing)
    BY <1>3, <1>4
  <2>2. Layered(WithRwB, F(s1), F(s2), F(s3), F(s4), Erasing, O(s1), O(s2), O(s3), O(s4))
    BY <1>3, <1>4, <1>5, <1>8, <2>1, FourLayers
  <2>3. QED
    BY <1>4, <2>2 DEF Layered
<1>10. /\ \A s \in Slotted : Len(WithRwB) >= EndOf(s)
       /\ Len(WithRwB) = FlashSize \/ \E s \in Slotted : Len(WithRwB) = EndOf(s)
  BY <1>1, <1>7, <1>9
<1>11. ASSUME NEW k \in 1 .. Len(WithRwB), \A s \in Slotted : ~Covers(s, k)
       PROVE  WithRwB[k] = ErasedCell
  <2>1. WithRwB[k] = Erasing[k]
    BY <1>1, <1>6, <1>9, <1>11
  <2>2. k <= FlashSize
    <3>1. \A s \in Slotted : O(s) \in Nat /\ Len(F(s)) \in Nat /\ O(s) <= FlashSize
      BY <1>1, <1>2, <1>3, <1>8, FileCells, SlotOrder
    <3>2. CASE Len(WithRwB) = FlashSize
      BY <3>2
    <3>3. ASSUME NEW s \in Slotted, Len(WithRwB) = EndOf(s), k > FlashSize PROVE FALSE
      <4>1. O(s) < k /\ k <= O(s) + Len(F(s))
        BY <1>7, <3>1, <3>3, SlotOrder
      <4>2. QED
        BY <1>6, <1>11, <4>1
    <3>4. QED
      BY <1>9, <1>10, <3>2, <3>3, SlotOrder
  <2>3. QED
    BY <1>4, <1>9, <2>1, <2>2
<1>12. ASSUME NEW k \in 1 .. Len(WithRwB), NEW s \in Slotted, Covers(s, k),
              \A t \in Slotted : O(t) > O(s) => ~Covers(t, k)
       PROVE  WithRwB[k] = F(s)[k - O(s)]
  <2>1. CASE s = s4
    BY <1>6, <1>9, <1>12, <2>1
  <2>2. CASE s = s3
    BY <1>1, <1>3, <1>6, <1>8, <1>9, <1>12, <2>2
  <2>3. CASE s = s2
    BY <1>1, <1>3, <1>6, <1>8, <1>9, <1>12, <2>3
  <2>4. CASE s = s1
    BY <1>1, <1>3, <1>6, <1>8, <1>9, <1>12, <2>4
  <2>5. QED
    BY <1>1, <2>1, <2>2, <2>3, <2>4
<1>13. QED
  BY <1>9, <1>10, <1>11, <1>12 DEF F, O

(* Two blobs on top of one another never look alike: a cell knows how far it  *)
(* is from its blob's beginning.                                               *)
LEMMA Distinct ==
    ASSUME Typed, BlobsSigned, valid, NEW s \in Slotted, NEW t \in Slotted,
           NEW j \in 2 .. Len(fs[s[1]])
    PROVE  fs[s[1]][j] # fs[t[1]][1]
<1>1. PICK b \in Blob : SignedAs(fs[s[1]], b)
  BY GoodBlobs
<1>2. PICK c \in Blob : fs[t[1]][1] = [blob |-> c, at |-> 0]
  BY GoodBlobs
<1>3. fs[s[1]] \in File
  BY <1>1 DEF SignedAs
<1>4. j \in 1 .. Len(fs[s[1]]) /\ j - 1 # 0
  BY <1>3, FileCells
<1>5. fs[s[1]][j] = [blob |-> b, at |-> j - 1] \/ fs[s[1]][j] = ErasedCell
  BY <1>1, <1>4 DEF SignedAs
<1>6. fs[s[1]][j] = [blob |-> b, at |-> j - 1] => fs[s[1]][j] # fs[t[1]][1]
  BY <1>2, <1>4
<1>7. ErasedCell # fs[t[1]][1]
  BY <1>2, BlobAssumption DEF ErasedCell
<1>8. QED
  BY <1>5, <1>6, <1>7

(* A successful run of packer.sh on files of the signer, into a file of its   *)
(* own: which blobs are whole in the image, what else is in it and how long   *)
(* it is, for any lengths of the four.                                          *)
THEOREM PacksTheImage == Spec => []PackedImage
<1>1. ASSUME PackInv, pc = "exit0", args.output \notin Inputs
      PROVE  /\ \A s \in Slotted : Clear(s[1], s[2]) <=> Intact(s[1], s[2])
             /\ Len(Out) >= FlashSize
             /\ \A s \in Slotted : Len(Out) >= Offset(s[2]) + Len(fs[s[1]])
             /\ Len(Out) = FlashSize \/ \E s \in Slotted : Len(Out) = Offset(s[2]) + Len(fs[s[1]])
             /\ \A k \in 1 .. Len(Out) :
                   \/ Out[k] = ErasedCell
                   \/ \E s \in Slotted :
                         /\ k - Offset(s[2]) \in 1 .. Len(fs[s[1]])
                         /\ Out[k] = fs[s[1]][k - Offset(s[2])]
  <2>1. Typed /\ BlobsSigned /\ valid /\ Out = WithRwB
    BY <1>1 DEF PackInv, Packing, ImageSoFar
  <2>2. /\ Len(Out) \in Nat /\ Len(Out) >= FlashSize
        /\ \A s \in Slotted : Len(Out) >= Offset(s[2]) + Len(fs[s[1]])
        /\ Len(Out) = FlashSize \/ \E s \in Slotted : Len(Out) = Offset(s[2]) + Len(fs[s[1]])
    BY <2>1, FinalImage DEF EndOf
  <2>3. /\ \A k \in 1 .. Len(Out) : (\A s \in Slotted : ~Covers(s, k)) => Out[k] = ErasedCell
        /\ \A k \in 1 .. Len(Out), s \in Slotted :
              /\ Covers(s, k)
              /\ \A t \in Slotted : Offset(t[2]) > Offset(s[2]) => ~Covers(t, k)
              => Out[k] = fs[s[1]][k - Offset(s[2])]
    BY <2>1, FinalImage
  <2>4. \A s \in Slotted : /\ fs[s[1]] \in File /\ Len(fs[s[1]]) \in Nat /\ Len(fs[s[1]]) > 0
                          /\ Offset(s[2]) \in Nat
    BY <2>1, GoodInputs, FileCells, SlotOrder
  <2>5. ASSUME NEW s \in Slotted, Clear(s[1], s[2]) PROVE Intact(s[1], s[2])
    <3> SUFFICES ASSUME NEW k \in 1 .. Len(fs[s[1]])
                 PROVE  Out[Offset(s[2]) + k] = fs[s[1]][k]
      BY <2>2, <2>5 DEF Intact
    <3>1. Offset(s[2]) + k \in 1 .. Len(Out) /\ Covers(s, Offset(s[2]) + k)
      BY <2>2, <2>4 DEF Covers
    <3>2. \A t \in Slotted : Offset(t[2]) > Offset(s[2]) => ~Covers(t, Offset(s[2]) + k)
      BY <2>4, <2>5 DEF Clear, Covers
    <3> DEFINE i == Offset(s[2]) + k
    <3>3. i - Offset(s[2]) = k
      BY <2>4
    <3> HIDE DEF i
    <3>4. Out[i] = fs[s[1]][i - Offset(s[2])]
      BY <2>3, <3>1, <3>2 DEF i
    <3>5. QED
      BY <3>3, <3>4 DEF i
  <2>6. ASSUME NEW s \in Slotted, ~Clear(s[1], s[2]) PROVE ~Intact(s[1], s[2])
    <3>1. PICK t \in Slotted : /\ Offset(t[2]) > Offset(s[2])
                              /\ Offset(s[2]) + Len(fs[s[1]]) > Offset(t[2])
      BY <2>4, <2>6 DEF Clear
    <3> DEFINE k == Offset(t[2]) + 1
               j == k - Offset(s[2])
    <3>2. k \in 1 .. Len(Out) /\ Covers(t, k)
      BY <2>2, <2>4 DEF Covers
    <3>3. \A u \in Slotted : Offset(u[2]) > Offset(t[2]) => ~Covers(u, k)
      BY <2>4 DEF Covers
    <3>4. Out[k] = fs[t[1]][1]
      <4>1. Out[k] = fs[t[1]][k - Offset(t[2])]
        BY <2>3, <3>2, <3>3
      <4>2. QED
        BY <2>4, <4>1
    <3>5. j \in 2 .. Len(fs[s[1]]) /\ j \in 1 .. Len(fs[s[1]]) /\ Offset(s[2]) + j = k
      BY <2>4, <3>1
    <3>6. fs[s[1]][j] # fs[t[1]][1]
      BY <2>1, <3>5, Distinct
    <3> HIDE DEF j, k
    <3>7. QED
      BY <3>4, <3>5, <3>6 DEF Intact
  <2>7. ASSUME NEW k \in 1 .. Len(Out), Out[k] # ErasedCell
        PROVE  \E s \in Slotted : /\ k - Offset(s[2]) \in 1 .. Len(fs[s[1]])
                                 /\ Out[k] = fs[s[1]][k - Offset(s[2])]
    <3>1. \E s \in Slotted : Covers(s, k) /\ \A t \in Slotted : Offset(t[2]) > Offset(s[2]) => ~Covers(t, k)
      <4> DEFINE s1 == <<args.ro_a, RO_A_BASE>>
                 s2 == <<args.rw_a, RW_A_BASE>>
                 s3 == <<args.ro_b, RO_B_BASE>>
                 s4 == <<args.rw_b, RW_B_BASE>>
      <4>1. /\ Offset(s1[2]) < Offset(s2[2]) /\ Offset(s2[2]) < Offset(s3[2])
            /\ Offset(s3[2]) < Offset(s4[2])
        BY SlotOrder
      <4>2. Slotted = {s1, s2, s3, s4}
        BY DEF Slotted
      <4> HIDE DEF s1, s2, s3, s4
      <4>3. \E s \in Slotted : Covers(s, k)
        BY <2>3, <2>7
      <4>4. \A s \in Slotted : Offset(s[2]) \in Nat
        BY <2>4
      <4>5. QED
        BY <4>1, <4>2, <4>3, <4>4
    <3>2. PICK s \in Slotted : /\ Covers(s, k)
                              /\ \A t \in Slotted : Offset(t[2]) > Offset(s[2]) => ~Covers(t, k)
      BY <3>1
    <3>3. Out[k] = fs[s[1]][k - Offset(s[2])]
      BY <2>3, <3>2
    <3>4. k - Offset(s[2]) \in 1 .. Len(fs[s[1]])
      BY <2>2, <2>4, <3>2 DEF Covers
    <3>5. QED
      BY <3>3, <3>4
  <2>8. QED
    BY <2>2, <2>5, <2>6, <2>7
<1>2. PackInv => PackedImage
  BY <1>1 DEF PackedImage
<1>3. QED
  BY <1>2, PackInvariance, PTL

-----------------------------------------------------------------------------
(* What an interrupted run leaves.                                           *)

(* A cell of the image is padding or an input's cell at its place. *)
AtHome(c, k) ==
    \/ c \in {ErasedCell, ZeroCell}
    \/ \E s \in Slotted : Covers(s, k) /\ c = fs[s[1]][k - Offset(s[2])]
Placed(file) == file \in File /\ \A k \in 1 .. Len(file) : AtHome(file[k], k)

LEMMA PlacedWrite ==
    ASSUME NEW src \in File, NEW dst, Placed(dst), NEW off \in Nat, off <= Len(dst),
           \A k \in 1 .. Len(src) : AtHome(src[k], off + k)
    PROVE  Placed(write_blob(src, dst, off))
<1> DEFINE w == write_blob(src, dst, off)
<1> HIDE DEF w
<1>1. dst \in File /\ Len(dst) \in Nat /\ Len(src) \in Nat
  BY FileCells DEF Placed
<1>2. /\ w \in File /\ Len(w) \in Nat
      /\ Len(w) = IF Len(dst) > off + Len(src) THEN Len(dst) ELSE off + Len(src)
      /\ \A k \in 1 .. Len(w) :
            w[k] = IF off < k /\ k <= off + Len(src) THEN src[k - off] ELSE dst[k]
  BY <1>1, WriteBlob, FileCells DEF w
<1>3. ASSUME NEW k \in 1 .. Len(w) PROVE AtHome(w[k], k)
  <2>1. CASE off < k /\ k <= off + Len(src)
    <3>1. k - off \in 1 .. Len(src) /\ off + (k - off) = k
      BY <1>1, <1>2, <2>1
    <3>2. AtHome(src[k - off], off + (k - off))
      BY <3>1
    <3>3. QED
      BY <1>2, <2>1, <3>1, <3>2
  <2>2. CASE ~(off < k /\ k <= off + Len(src))
    <3>1. w[k] = dst[k] /\ k \in 1 .. Len(dst)
      BY <1>1, <1>2, <2>2
    <3>2. QED
      BY <3>1 DEF Placed
  <2>3. QED
    BY <2>1, <2>2
<1>4. QED
  BY <1>2, <1>3 DEF Placed, w

(* A blob, or as much of it as dd got through, written to its slot. *)
LEMMA PlacedBlob ==
    ASSUME Typed, valid, NEW s \in Slotted, NEW dst, Placed(dst), Len(dst) >= FlashSize,
           NEW p \in File, Len(p) <= Len(fs[s[1]]), \A k \in 1 .. Len(p) : p[k] = fs[s[1]][k]
    PROVE  Placed(write_blob(p, dst, Offset(s[2])))
<1>1. /\ fs[s[1]] \in File /\ Offset(s[2]) \in Nat /\ Offset(s[2]) <= Len(dst)
      /\ Len(p) \in Nat /\ Len(fs[s[1]]) \in Nat
  BY GoodInputs, FileCells, SlotOrder DEF Placed
<1>2. ASSUME NEW k \in 1 .. Len(p) PROVE AtHome(p[k], Offset(s[2]) + k)
  <2>1. Covers(s, Offset(s[2]) + k) /\ (Offset(s[2]) + k) - Offset(s[2]) = k
    BY <1>1 DEF Covers
  <2>2. QED
    BY <2>1 DEF AtHome
<1>3. QED
  BY <1>1, <1>2, PlacedWrite

LEMMA PlacedPadding ==
    ASSUME NEW p \in File, \A k \in 1 .. Len(p) : p[k] \in {ErasedCell, ZeroCell}
    PROVE  Placed(p)
  BY DEF Placed, AtHome

LEMMA PlacedLayers ==
    ASSUME Typed, valid
    PROVE  \A w \in {Erasing, WithRoA, WithRwA, WithRoB, WithRwB} : Placed(w) /\ Len(w) >= FlashSize
<1>1. \A w \in {Erasing, WithRoA, WithRwA, WithRoB, WithRwB} : Len(w) >= FlashSize
  BY Layers, SlotOrder
<1>2. \A s \in Slotted : \A dst : Placed(dst) /\ Len(dst) >= FlashSize
         => Placed(write_blob(fs[s[1]], dst, Offset(s[2])))
  <2> SUFFICES ASSUME NEW s \in Slotted, NEW dst, Placed(dst), Len(dst) >= FlashSize
               PROVE  Placed(write_blob(fs[s[1]], dst, Offset(s[2])))
    OBVIOUS
  <2>1. fs[s[1]] \in File /\ Len(fs[s[1]]) \in Nat
    BY GoodInputs, FileCells
  <2>2. QED
    BY <2>1, PlacedBlob
<1>3. /\ <<args.ro_a, RO_A_BASE>> \in Slotted /\ <<args.rw_a, RW_A_BASE>> \in Slotted
      /\ <<args.ro_b, RO_B_BASE>> \in Slotted /\ <<args.rw_b, RW_B_BASE>> \in Slotted
  BY DEF Slotted
<1>4. Placed(Erasing)
  BY ConstantFile, PaddingCells, PlacedPadding, SlotOrder DEF Erasing
<1>5. Placed(WithRoA)
  BY <1>1, <1>2, <1>3, <1>4 DEF WithRoA
<1>6. Placed(WithRwA)
  BY <1>1, <1>2, <1>3, <1>5 DEF WithRwA
<1>7. Placed(WithRoB)
  BY <1>1, <1>2, <1>3, <1>6 DEF WithRoB
<1>8. Placed(WithRwB)
  BY <1>1, <1>2, <1>3, <1>7 DEF WithRwB
<1>9. QED
  BY <1>1, <1>4, <1>5, <1>6, <1>7, <1>8

LEMMA PlacedStep ==
    ASSUME Packing, args.output \notin Inputs, Next, pc \notin {"check", "remove"}
    PROVE  valid /\ (Out' = Absent \/ Placed(Out'))
<1> USE DEF Running
<1>1. /\ pc \in {"truncate", "fill", "write_ro_a", "write_rw_a", "write_ro_b", "write_rw_b"}
      /\ valid /\ Typed
  <2>1. pc \in {"truncate", "fill", "write_ro_a", "write_rw_a", "write_ro_b", "write_rw_b"}
    BY DEF Packing, Next, Script, Kill, Exited, check, remove, truncate, fill, write, write_ro_a,
       write_rw_a, write_ro_b, write_rw_b, Command
  <2>2. QED
    BY <2>1 DEF Packing
<1>2. /\ \A w \in {Erasing, WithRoA, WithRwA, WithRoB, WithRwB} : Placed(w) /\ Len(w) >= FlashSize
      /\ Placed(Cells(ZeroCell, FlashSize)) /\ Placed(<<>>)
  <2>1. <<>> \in File /\ Len(<<>>) = 0
    BY DEF File
  <2>2. Placed(<<>>)
    BY <2>1, PlacedPadding
  <2>3. Placed(Cells(ZeroCell, FlashSize))
    BY ConstantFile, PaddingCells, PlacedPadding, SlotOrder
  <2>4. QED
    BY <1>1, <2>2, <2>3, PlacedLayers
<1>3. CASE Kill
  <2>1. Out' = Out
    BY <1>3 DEF Kill, Out
  <2>2. QED
    BY <1>1, <1>2, <2>1 DEF Packing, ImageSoFar
<1>4. CASE truncate
  BY <1>1, <1>2, <1>4, TruncateStep
<1>5. CASE fill
  <2>1. Out' = Erasing \/ \E p \in Prefixes(Erasing) : Out' = write_blob(p, Out, 0)
    BY <1>5, FillStep
  <2>2. Out = Cells(ZeroCell, FlashSize)
    BY <1>5 DEF Packing, ImageSoFar, fill, Command
  <2>3. ASSUME NEW p \in Prefixes(Erasing) PROVE Placed(write_blob(p, Out, 0))
    <3>1. Erasing \in File /\ Len(Erasing) = FlashSize /\ \A k \in 1 .. FlashSize : Erasing[k] = ErasedCell
      BY ConstantFile, PaddingCells, SlotOrder DEF Erasing
    <3>2. p \in File /\ Len(p) \in Nat /\ Len(p) <= FlashSize /\ \A k \in 1 .. Len(p) : p[k] = Erasing[k]
      BY <3>1, PrefixFacts
    <3>3. \A k \in 1 .. Len(p) : p[k] = ErasedCell
      BY <3>1, <3>2, SlotOrder
    <3>4. \A k \in 1 .. Len(p) : AtHome(p[k], 0 + k)
      BY <3>3 DEF AtHome
    <3>5. Placed(Out) /\ Len(Out) \in Nat /\ 0 <= Len(Out)
      BY <1>2, <2>2, FileCells DEF Placed
    <3>6. QED
      BY <3>2, <3>4, <3>5, PlacedWrite
  <2>4. QED
    BY <1>1, <1>2, <2>1, <2>3
<1>6. ASSUME NEW start, NEW to, NEW s \in Slotted, write(start, to, s[1], s[2]),
             Placed(Out), Len(Out) >= FlashSize
      PROVE  Placed(Out')
  <2>1. \/ Out' = write_blob(fs[s[1]], Out, Offset(s[2]))
        \/ \E p \in Prefixes(fs[s[1]]) : Out' = write_blob(p, Out, Offset(s[2]))
    BY <1>1, <1>6, WriteStep DEF Placed
  <2>2. fs[s[1]] \in File /\ Len(fs[s[1]]) \in Nat
    BY <1>1, GoodInputs, FileCells
  <2>3. Placed(write_blob(fs[s[1]], Out, Offset(s[2])))
    BY <1>1, <1>6, <2>2, PlacedBlob
  <2>4. \A p \in Prefixes(fs[s[1]]) : Placed(write_blob(p, Out, Offset(s[2])))
    BY <1>1, <1>6, <2>2, PrefixFacts, PlacedBlob
  <2>5. QED
    BY <2>1, <2>3, <2>4
<1> DEFINE s1 == <<args.ro_a, RO_A_BASE>>
           s2 == <<args.rw_a, RW_A_BASE>>
           s3 == <<args.ro_b, RO_B_BASE>>
           s4 == <<args.rw_b, RW_B_BASE>>
<1>7. {s1, s2, s3, s4} \subseteq Slotted
  BY DEF Slotted
<1>8. CASE write_ro_a
  <2>1. Out = Erasing /\ write("write_ro_a", "write_rw_a", s1[1], s1[2])
    BY <1>8 DEF write_ro_a, write, Command, Packing, ImageSoFar
  <2>2. QED
    BY <1>1, <1>2, <1>6, <1>7, <2>1
<1>9. CASE write_rw_a
  <2>1. Out = WithRoA /\ write("write_rw_a", "write_ro_b", s2[1], s2[2])
    BY <1>9 DEF write_rw_a, write, Command, Packing, ImageSoFar
  <2>2. QED
    BY <1>1, <1>2, <1>6, <1>7, <2>1
<1>10. CASE write_ro_b
  <2>1. Out = WithRwA /\ write("write_ro_b", "write_rw_b", s3[1], s3[2])
    BY <1>10 DEF write_ro_b, write, Command, Packing, ImageSoFar
  <2>2. QED
    BY <1>1, <1>2, <1>6, <1>7, <2>1
<1>11. CASE write_rw_b
  <2>1. Out = WithRoB /\ write("write_rw_b", "exit0", s4[1], s4[2])
    BY <1>11 DEF write_rw_b, write, Command, Packing, ImageSoFar
  <2>2. QED
    BY <1>1, <1>2, <1>6, <1>7, <2>1
<1>12. QED
  BY <1>3, <1>4, <1>5, <1>8, <1>9, <1>10, <1>11 DEF Next, Script, check, remove, Command

(* The loader takes its sizes from a cell of a header: not from an erased or  *)
(* a foreign one, whose image_size is past the slot or nothing.                *)
LEMMA HeaderCell ==
    ASSUME NEW file, NEW slot \in RwSlots, loader_verdict(file, slot) = LAUNCH_SUCCESS
    PROVE  LET c == file[Offset(slot) + TagOffset + 1]
               size == BlobHeader(c.blob).image_size
           IN  /\ c # ErasedCell /\ c.blob \in Blob /\ c.at = TagOffset
               /\ ~(size > SlotSize(slot))
               /\ layout_at(file, Offset(slot)) = BlobHeader(c.blob)
               /\ SubSeq(file, Offset(slot) + TagOffset + 1, Offset(slot) + size)
                    = SubSeq(BlobFile(c.blob), TagOffset + 1, size)
<1> DEFINE off == Offset(slot)
           c == file[off + TagOffset + 1]
           l == layout_at(file, off)
           h == header_at(file, off)
<1>1. /\ SlotSize(slot) \in Nat /\ SlotSize(slot) < Ones
      /\ BankSize \in Nat \ {0}
  BY FlashLayoutAssumption, SignedHeaderAssumption DEF SlotSize, RwSize, Ones
<1>2. l = field_cell(c, TagOffset)
  BY DEF layout_at
<1>3. /\ verify_SignedHeader(h, SlotSize(slot), slot) = LAUNCH_SUCCESS
      /\ SubSeq(file, off + TagOffset + 1, off + h.image_size)
           = SubSeq(BlobFile(c.blob), TagOffset + 1, h.image_size)
  <2> DEFINE code == verify_SignedHeader(h, SlotSize(slot), slot)
             same == SubSeq(file, off + TagOffset + 1, off + h.image_size)
                       = SubSeq(BlobFile(c.blob), TagOffset + 1, h.image_size)
  <2>1. loader_verdict(file, slot)
          = IF code # LAUNCH_SUCCESS THEN code
            ELSE IF same THEN LAUNCH_SUCCESS ELSE LAUNCH_INVALID_HASH
    BY DEF loader_verdict
  <2> HIDE DEF code, same
  <2>2. code = LAUNCH_SUCCESS /\ same
    BY <2>1 DEF LAUNCH_SUCCESS, LAUNCH_INVALID_HASH
  <2>3. QED
    BY <2>2 DEF code, same
<1>4. h.image_size = l.image_size
  <2>1. l = ErasedHeader \/ l = ForeignHeader \/ l \in BlobHeaders
    BY <1>2, BlobAssumption DEF field_cell
  <2>2. h = [l EXCEPT !.magic = magic_at(file, off)]
    BY DEF header_at
  <2> HIDE DEF h, l
  <2>3. QED
    BY <2>1, <2>2 DEF BlobHeaders, ErasedHeader, ForeignHeader
<1> HIDE DEF h, l
<1>5. ~(h.image_size < BankSize) /\ ~(h.image_size > SlotSize(slot))
  BY <1>3 DEF verify_SignedHeader, LAUNCH_SUCCESS, LAUNCH_IMAGE_TOO_SMALL, LAUNCH_IMAGE_TOO_LARGE,
     LAUNCH_INVALID_MAGIC
<1>6. l # ErasedHeader /\ l # ForeignHeader
  BY <1>1, <1>4, <1>5 DEF ErasedHeader, ForeignHeader, Ones
<1>7. c # ErasedCell /\ c.blob \in Blob /\ c.at = TagOffset /\ l = BlobHeader(c.blob)
  BY <1>2, <1>6 DEF field_cell
<1>8. QED
  BY <1>3, <1>4, <1>5, <1>7 DEF l

LEMMA SlotEnds ==
    /\ FlashSize \in Nat
    /\ \A slot \in RwSlots :
          /\ SlotSize(slot) \in Nat /\ Offset(slot) \in Nat
          /\ Offset(slot) + SlotSize(slot) <= FlashSize
BY FlashLayoutAssumption
DEF RwSlots, SlotSize, RwSize, Offset, FlashSize, RW_A_BASE, RW_B_BASE, RO_A_BASE, RO_B_BASE, RoSlots

(* An image of cells in their places is launched only for what is hashed of    *)
(* the blob this run put into the slot.                                         *)
OwnCells == Typed /\ BlobsSigned /\ valid /\ (Out = Absent \/ Placed(Out))

LEMMA OwnSlot ==
    ASSUME OwnCells, NEW path \in {args.rw_a, args.rw_b}, NEW slot \in RwSlots,
           <<path, slot>> \in Slotted
    PROVE  OwnBlob(slot, path)
<1> SUFFICES ASSUME Out # Absent, Len(Out) >= FlashSize, loader_verdict(Out, slot) = LAUNCH_SUCCESS
             PROVE  /\ Offset(slot) + layout_at(fs[path], 0).image_size <= Len(Out)
                    /\ SubSeq(Out, Offset(slot) + TagOffset + 1,
                              Offset(slot) + layout_at(fs[path], 0).image_size)
                         = SubSeq(fs[path], TagOffset + 1, layout_at(fs[path], 0).image_size)
  BY DEF OwnBlob
<1> DEFINE k == Offset(slot) + TagOffset + 1
           c == Out[k]
<1>1. Placed(Out) /\ Typed /\ BlobsSigned /\ valid
  BY DEF OwnCells
<1>2. /\ c # ErasedCell /\ c.blob \in Blob /\ c.at = TagOffset
      /\ ~(BlobHeader(c.blob).image_size > SlotSize(slot))
      /\ SubSeq(Out, k, Offset(slot) + BlobHeader(c.blob).image_size)
           = SubSeq(BlobFile(c.blob), TagOffset + 1, BlobHeader(c.blob).image_size)
  BY HeaderCell
<1>3. Offset(slot) \in Nat /\ k \in 1 .. Len(Out) /\ TagOffset \in Nat /\ TagOffset < HeaderSize
      /\ HeaderSize \in Nat
  <2>1. Len(Out) \in Nat
    BY <1>1, FileCells DEF Placed
  <2>2. QED
    BY <2>1, SlotOrder DEF RwSlots
<1> HIDE DEF c
<1>4. c # ZeroCell
  BY <1>2, BlobAssumption DEF ZeroCell
<1>5. PICK s \in Slotted : Covers(s, k) /\ c = fs[s[1]][k - Offset(s[2])]
  BY <1>1, <1>2, <1>3, <1>4 DEF Placed, AtHome, c
<1>6. /\ fs[s[1]] \in File /\ Len(fs[s[1]]) \in Nat /\ Offset(s[2]) \in Nat
  BY <1>1, GoodInputs, FileCells
<1>7. PICK b \in Blob : SignedAs(fs[s[1]], b)
  BY <1>1, GoodBlobs
<1>8. k - Offset(s[2]) \in 1 .. Len(fs[s[1]])
  BY <1>3, <1>5, <1>6 DEF Covers
<1>9. c = [blob |-> b, at |-> (k - Offset(s[2])) - 1]
  BY <1>2, <1>5, <1>7, <1>8 DEF SignedAs
<1>10. Offset(s[2]) = Offset(slot)
  BY <1>2, <1>3, <1>6, <1>9
<1>11. s = <<path, slot>>
  <2>1. s[2] = slot
    BY <1>10, SlotOrder DEF Slotted, RwSlots
  <2>2. RO_A_BASE # RW_A_BASE /\ RO_A_BASE # RW_B_BASE /\ RO_B_BASE # RW_A_BASE
        /\ RO_B_BASE # RW_B_BASE /\ RW_A_BASE # RW_B_BASE /\ RO_A_BASE # RO_B_BASE
    BY SlotOrder
  <2>3. QED
    BY <2>1, <2>2 DEF Slotted
<1>12. c.blob = b /\ c = fs[path][TagOffset + 1]
  <2>1. k - Offset(s[2]) = TagOffset + 1
    BY <1>3, <1>10
  <2>2. c.blob = b
    BY <1>9
  <2>3. c = fs[s[1]][TagOffset + 1]
    BY <1>5, <2>1
  <2>4. QED
    BY <1>11, <2>2, <2>3
<1>13. PICK f \in Blob : fs[path] = BlobFile(f)
  <2>1. fs[path] # Absent
    BY <1>1, <1>11 DEF valid, verify_blob, readable, Slotted
  <2>2. QED
    BY <1>1, <2>1 DEF BlobsSigned
<1>14. f = b
  <2>1. SignedAs(fs[path], f) /\ TagOffset + 1 \in 1 .. Len(fs[path])
    BY <1>3, <1>8, <1>11, <1>13, BlobAssumption
  <2>2. fs[path][TagOffset + 1] = [blob |-> f, at |-> (TagOffset + 1) - 1]
    BY <1>2, <1>3, <1>12, <2>1 DEF SignedAs
  <2>3. QED
    BY <1>12, <2>2
<1>15. layout_at(fs[path], 0) = BlobHeader(b)
  <2>1. layout_at(fs[path], 0) = field_cell(c, TagOffset)
    <3>1. 0 + TagOffset + 1 = TagOffset + 1
      BY <1>3
    <3>2. QED
      BY <1>12, <3>1 DEF layout_at
  <2>2. QED
    BY <1>2, <1>12, <2>1 DEF field_cell
<1>16. Offset(slot) + BlobHeader(b).image_size <= Len(Out)
  <2>1. BlobHeader(b).image_size \in Nat
    BY BlobAssumption DEF BlobHeaders, Word
  <2>2. Len(Out) \in Nat /\ SlotSize(slot) \in Nat /\ Offset(slot) + SlotSize(slot) <= FlashSize
    BY <1>1, FileCells, SlotEnds DEF Placed
  <2>3. FlashSize \in Nat /\ BlobHeader(b).image_size <= SlotSize(slot)
    BY <1>2, <1>12, <2>1, <2>2, SlotEnds
  <2>4. QED
    BY <1>3, <2>1, <2>2, <2>3
<1>17. QED
  BY <1>2, <1>12, <1>13, <1>14, <1>15, <1>16

LEMMA OwnImage == OwnCells => OwnBlob(RW_A_BASE, args.rw_a) /\ OwnBlob(RW_B_BASE, args.rw_b)
  BY OwnSlot DEF Slotted, RwSlots

(* Wherever packer.sh stops or is killed once it has begun the image, and      *)
(* whatever the output held before: the loader launches an RW slot of it for   *)
(* this run's blob or for nothing.                                              *)
THEOREM PartialIsRefused == Spec => PartialImageRefused
<1>1. OwnCells' => (OwnBlob(RW_A_BASE, args.rw_a) /\ OwnBlob(RW_B_BASE, args.rw_b))'
  BY OwnImage, PTL
<1>2. ASSUME PackInv, Next, pc \notin {"check", "remove"}, args.output \notin Inputs
      PROVE  OwnCells'
  <2>1. Packing /\ BlobsSigned
    BY <1>2 DEF PackInv
  <2>2. args' = args /\ Inputs' = Inputs /\ Slotted' = Slotted /\ (\A p \in Inputs : fs'[p] = fs[p])
        /\ BlobsSigned' /\ (valid' <=> valid)
    BY <1>2, <2>1, InputsKept
  <2>3. valid /\ (Out' = Absent \/ Placed(Out'))
    BY <1>2, <2>1, PlacedStep
  <2>4. \A s \in Slotted : s[1] \in Inputs
    BY DEF Slotted, Inputs
  <2>5. Placed(Out') <=> Placed(Out)'
    BY <2>2, <2>4 DEF Placed, AtHome, Covers
  <2>6. Typed'
    BY <1>2, <2>1, PackingStep DEF Packing
  <2>7. QED
    BY <2>2, <2>3, <2>5, <2>6 DEF OwnCells
<1>3. PackInv /\ [Next]_vars
        => [pc \notin {"check", "remove"} /\ args.output \notin Inputs =>
              OwnBlob(RW_A_BASE, args.rw_a)' /\ OwnBlob(RW_B_BASE, args.rw_b)']_vars
  BY <1>1, <1>2
<1>4. QED
  BY <1>3, PackInvariance, PTL DEF Spec, PartialImageRefused
=============================================================================
