---------------------------- MODULE CarverProofs ----------------------------
(***************************************************************************)
(* What carver.sh cuts out and how far it trims it, for every firmware file, *)
(* every section in it and every file it may write over.                     *)
(***************************************************************************)
EXTENDS Carver, SequenceTheorems, TLAPS

(* The section, and where in it what is carved begins. *)
whole == Whole(In, args.slot)
from == IF args.keep_header THEN 0 ELSE HeaderSize

(* The arguments and files of a run.  Once the section was found good it is  *)
(* the input's cells from its slot on, until the script writes over its input. *)
Typed ==
    /\ args.slot \in Slots /\ args.keep_header \in BOOLEAN
    /\ {args.input, args.output} \subseteq Path \cup {NoPath}
    /\ fs \in [Path -> {Absent} \cup File]
SectionFound ==
    /\ args.input \in Path /\ args.output \in Path
    /\ whole \in File /\ HeaderSize < Len(whole)
    /\ copy_range(In, section.off, section.size) = SubSeq(whole, from + 1, Len(whole))
(* All of the section but cells that were found to be 0xff. *)
Trimmed(cut) ==
    /\ Out = SubSeq(whole, HeaderSize + 1, Len(whole) - cut)
    /\ \A k \in 1 .. cut : whole[Len(whole) + 1 - k] = ErasedCell
CarveInv ==
    /\ Typed
    /\ pc = "copy" => SectionFound
    /\ pc = "trim" => ~args.keep_header /\ args.output \in Path /\ Out \in File
    /\ pc = "trim" /\ args.input # args.output =>
          SectionFound /\ \E cut \in 0 .. Len(whole) - HeaderSize : Trimmed(cut)
    /\ CarvedSection

LEMMA SizesAreNumbers ==
    /\ FlashBase \in Nat /\ HeaderSize \in Nat /\ BankSize \in Nat /\ HeaderSize < BankSize
    /\ \A slot \in Slots : Offset(slot) \in Nat
    /\ \A file, off : layout_at(file, off).image_size \in Nat
<1>1. /\ {FlashBase, FlashHalf, RoSize, BankSize, WordSize} \subseteq Nat \ {0}
      /\ HeaderSize \in Nat /\ VectorSize \in Nat \ {0} /\ HeaderSize + VectorSize <= BankSize
  BY FlashLayoutAssumption, SignedHeaderAssumption
<1>2. \A slot \in Slots : Offset(slot) \in Nat
  BY <1>1 DEF Slots, RoSlots, RwSlots, RO_A_BASE, RO_B_BASE, RW_A_BASE, RW_B_BASE, Offset
<1>3. ASSUME NEW file, NEW off PROVE layout_at(file, off).image_size \in Nat
  <2>1. \A b \in Blob : BlobHeader(b).image_size \in Nat
    BY BlobAssumption, <1>1 DEF BlobHeaders, Word
  <2>2. \A c : field_cell(c, TagOffset).image_size \in Nat
    BY <1>1, <2>1 DEF field_cell, ErasedHeader, ForeignHeader, Ones
  <2>3. QED
    BY <2>2 DEF layout_at
<1>4. QED
  BY <1>1, <1>2, <1>3

(* A part of a part of a file. *)
LEMMA PartOfPart ==
    ASSUME NEW s \in File, NEW a \in Nat, NEW b \in Nat, b <= Len(s), NEW c \in Nat, NEW d \in Nat,
           a + d <= b
    PROVE  SubSeq(SubSeq(s, a + 1, b), c + 1, d) = SubSeq(s, a + c + 1, a + d)
<1> DEFINE part == SubSeq(s, a + 1, b)
           left == SubSeq(part, c + 1, d)
           right == SubSeq(s, a + c + 1, a + d)
<1>1. \A i \in 1 .. Len(s) : s[i] \in Cell
  BY DEF File
<1>2. /\ part \in Seq(Cell) /\ \A i \in 1 .. b - a : part[i] = s[a + i]
      /\ Len(part) = IF a + 1 <= b THEN b - a ELSE 0
  BY <1>1, SubSeqProperties DEF File
<1> HIDE DEF part
<1>3. \A i \in c + 1 .. d : part[i] \in Cell
  BY <1>1, <1>2
<1>4. /\ left \in Seq(Cell) /\ \A i \in 1 .. d - c : left[i] = part[c + i]
      /\ Len(left) = IF c + 1 <= d THEN d - c ELSE 0
  BY <1>3, SubSeqProperties
<1>5. \A i \in a + c + 1 .. a + d : s[i] \in Cell
  BY <1>1
<1>6. /\ right \in Seq(Cell) /\ \A i \in 1 .. d - c : right[i] = s[a + c + i]
      /\ Len(right) = IF c + 1 <= d THEN d - c ELSE 0
  BY <1>5, SubSeqProperties
<1> HIDE DEF left, right
<1>7. \A i \in 1 .. Len(left) : left[i] = right[i]
  BY <1>2, <1>4, <1>6
<1>8. QED
  BY <1>4, <1>6, <1>7, SeqEqual DEF left, right, part

LEMMA PrefixIsFile ==
    ASSUME NEW s \in File, NEW p \in Prefixes(s)
    PROVE  p \in File
<1>1. PICK k \in 0 .. Len(s) : p = SubSeq(s, 1, k)
  BY DEF Prefixes
<1>2. \A i \in 1 .. k : s[i] \in Cell
  BY <1>1 DEF File
<1>3. QED
  BY <1>1, <1>2, SubSeqProperties DEF File

LEMMA InitCarve == Init => CarveInv
  BY CarverAssumption DEF Init, CarveInv, Typed, CarvedSection

(* The checks of main() leave the section itself to be copied. *)
LEMMA ChecksFindSection ==
    ASSUME Typed, valid, section.size > 0, section.off + section.size <= Len(In)
    PROVE  SectionFound
<1> DEFINE off == Offset(args.slot)
           size == layout_at(In, off).image_size
<1>1. args.input \in Path /\ args.output \in Path /\ In \in File /\ args.slot \in Slots
      /\ args.keep_header \in BOOLEAN
  BY DEF valid, Typed, In
<1>2. off \in Nat /\ size \in Nat /\ size >= BankSize /\ size <= Len(In) - off
  BY <1>1, SizesAreNumbers DEF valid, valid_signed_header_at
<1>3. section = IF args.keep_header THEN [off |-> off, size |-> size]
                ELSE [off |-> off + HeaderSize, size |-> size - HeaderSize]
  BY DEF section, range
<1> HIDE DEF off, size
<1>4. Len(In) \in Nat /\ \A i \in 1 .. Len(In) : In[i] \in Cell
  BY <1>1 DEF File
<1>5. whole = SubSeq(In, off + 1, off + size)
  BY <1>2, <1>4 DEF whole, Whole, copy_range, off, size
<1>6. whole \in File /\ Len(whole) = size
  <2>1. size > 0 /\ \A i \in off + 1 .. off + size : In[i] \in Cell
    BY <1>2, <1>4, SizesAreNumbers
  <2>2. QED
    BY <1>2, <1>5, <2>1, SubSeqProperties DEF File
<1>7. copy_range(In, section.off, section.size) = SubSeq(In, off + from + 1, off + size)
  BY <1>2, <1>3, <1>4, SizesAreNumbers DEF copy_range, from
<1>8. SubSeq(whole, from + 1, size) = SubSeq(In, off + from + 1, off + size)
  <2>1. from \in Nat
    BY SizesAreNumbers DEF from
  <2>2. QED
    BY <1>1, <1>2, <1>4, <1>5, <2>1, PartOfPart
<1>9. copy_range(In, section.off, section.size) = SubSeq(whole, from + 1, Len(whole))
  BY <1>6, <1>7, <1>8
<1>10. HeaderSize < Len(whole)
  BY <1>2, <1>6, SizesAreNumbers
<1>11. QED
  BY <1>1, <1>6, <1>9, <1>10 DEF SectionFound

(* One turn of the trimming loop. *)
LEMMA OneByteLess ==
    ASSUME SectionFound, NEW cut \in 0 .. Len(whole) - HeaderSize, Trimmed(cut)
    PROVE  /\ Len(Out) = Len(whole) - cut - HeaderSize /\ Out \in File
           /\ Len(Out) > 0 =>
                 /\ Out[Len(Out)] = whole[Len(whole) - cut]
                 /\ SubSeq(Out, 1, Len(Out) - 1)
                      = SubSeq(whole, HeaderSize + 1, Len(whole) - (cut + 1))
<1> DEFINE n == Len(whole)
<1>1. whole \in File /\ n \in Nat /\ HeaderSize \in Nat /\ HeaderSize < n
  BY SizesAreNumbers DEF SectionFound, File
<1>2. \A i \in 1 .. n : whole[i] \in Cell
  BY <1>1 DEF File
<1>3. Out = SubSeq(whole, HeaderSize + 1, n - cut)
  BY DEF Trimmed
<1> HIDE DEF n
<1>4. cut \in 0 .. n - HeaderSize
  BY DEF n
<1>5. \A i \in HeaderSize + 1 .. n - cut : whole[i] \in Cell
  BY <1>1, <1>2, <1>4
<1>6. /\ Out \in File /\ Len(Out) = n - cut - HeaderSize
      /\ \A i \in 1 .. n - cut - HeaderSize : Out[i] = whole[HeaderSize + i]
  BY <1>1, <1>3, <1>4, <1>5, SubSeqProperties DEF File
<1>7. ASSUME Len(Out) > 0
      PROVE  SubSeq(Out, 1, Len(Out) - 1) = SubSeq(whole, HeaderSize + 1, n - (cut + 1))
  <2>1. SubSeq(SubSeq(whole, HeaderSize + 1, n - cut), 0 + 1, n - cut - HeaderSize - 1)
          = SubSeq(whole, HeaderSize + 0 + 1, HeaderSize + (n - cut - HeaderSize - 1))
    BY <1>1, <1>4, <1>6, <1>7, PartOfPart DEF n
  <2>2. HeaderSize + (n - cut - HeaderSize - 1) = n - (cut + 1) /\ HeaderSize + 0 + 1 = HeaderSize + 1
    BY <1>1, <1>4
  <2>3. QED
    BY <1>1, <1>3, <1>4, <1>6, <2>1, <2>2
<1>8. QED
  BY <1>1, <1>4, <1>6, <1>7 DEF n

LEMMA CarveStep == CarveInv /\ [Next]_vars => CarveInv'
<1> SUFFICES ASSUME CarveInv, [Next]_vars PROVE CarveInv'
  OBVIOUS
<1> USE DEF Exited
<1>1. Typed /\ args' = args
  BY DEF CarveInv, Next, Script, check, copy, trim_trailing_byte, Kill, vars
<1>2. CASE UNCHANGED vars
  BY <1>2 DEF vars, CarveInv, Typed, SectionFound, Trimmed, CarvedSection, whole, Whole, from, In, Out,
     section, range
<1>3. CASE Kill
  BY <1>1, <1>3 DEF Kill, CarveInv, Typed, CarvedSection
<1>4. CASE check
  <2>1. fs' = fs /\ pc' \in {"copy", "exit1"}
    BY <1>4 DEF check
  <2>2. pc' = "copy" => SectionFound
    BY <1>1, <1>4, ChecksFindSection DEF check
  <2>3. SectionFound' <=> SectionFound
    BY <1>1, <2>1 DEF SectionFound, whole, Whole, from, In, section, range
  <2>4. QED
    BY <1>1, <2>1, <2>2, <2>3 DEF CarveInv, Typed, CarvedSection
<1>5. CASE copy
  <2>1. pc = "copy" /\ SectionFound
    BY <1>5 DEF copy, CarveInv
  <2>2. /\ whole \in File /\ Len(whole) \in Nat /\ HeaderSize \in Nat /\ HeaderSize < Len(whole)
        /\ args.input \in Path /\ args.output \in Path
    BY <2>1, SizesAreNumbers DEF SectionFound, File
  <2> DEFINE carved == IF args.input = args.output THEN <<>>
                       ELSE SubSeq(whole, from + 1, Len(whole))
  <2>3. \/ /\ pc' = IF args.keep_header THEN "exit0" ELSE "trim"
           /\ fs' = [fs EXCEPT ![args.output] = carved]
        \/ /\ pc' = "exit1"
           /\ \E p \in Prefixes(carved) \cup {Out} : fs' = [fs EXCEPT ![args.output] = p]
    BY <1>5, <2>1 DEF copy, SectionFound
  <2>4. carved \in File /\ Out \in {Absent} \cup File
    <3>1. \A i \in from + 1 .. Len(whole) : whole[i] \in Cell
      BY <2>2 DEF from, File
    <3>2. SubSeq(whole, from + 1, Len(whole)) \in File
      BY <2>2, <3>1, SubSeqProperties DEF File, from
    <3>3. QED
      BY <1>1, <2>2, <3>2 DEF File, Typed, Out
  <2>5. \A p \in Prefixes(carved) : p \in File
    BY <2>4, PrefixIsFile
  <2> HIDE DEF carved
  <2>6. Typed'
    BY <1>1, <2>2, <2>3, <2>4, <2>5 DEF Typed
  <2>7. CASE pc' = "exit1"
    BY <1>1, <2>6, <2>7 DEF CarveInv, CarvedSection
  <2>8. CASE pc' # "exit1"
    <3>1. fs' = [fs EXCEPT ![args.output] = carved] /\ pc' = IF args.keep_header THEN "exit0" ELSE "trim"
      BY <2>3, <2>8
    <3>2. Out' = carved
      BY <1>1, <2>2, <3>1 DEF Out, Typed
    <3>3. CASE args.input = args.output
      BY <1>1, <2>2, <2>4, <2>6, <3>1, <3>2, <3>3 DEF CarveInv, CarvedSection
    <3>4. CASE args.input # args.output
      <4>1. In' = In
        BY <1>1, <2>2, <3>1, <3>4 DEF In, Typed
      <4>2. whole' = whole /\ from' = from /\ (SectionFound' <=> SectionFound)
        BY <1>1, <4>1 DEF SectionFound, whole, Whole, from, section, range
      <4>3. Out' = SubSeq(whole, from + 1, Len(whole))
        BY <3>2, <3>4 DEF carved
      <4>4. CASE args.keep_header
        <5>1. Out' = whole
          BY <2>2, <4>3, <4>4, SubSeqFull DEF from, File
        <5>2. CarvedSection'
          BY <1>1, <4>2, <4>4, <5>1 DEF CarvedSection, whole
        <5>3. QED
          BY <1>1, <2>6, <3>1, <4>4, <5>2 DEF CarveInv
      <4>5. CASE ~args.keep_header
        <5>1. Trimmed(0)'
          BY <2>2, <4>2, <4>3, <4>5 DEF Trimmed, from
        <5>2. 0 \in 0 .. Len(whole) - HeaderSize
          BY <2>2
        <5>3. QED
          BY <1>1, <2>1, <2>2, <2>4, <2>6, <3>1, <3>2, <4>2, <4>5, <5>1, <5>2 DEF CarveInv, CarvedSection
      <4>6. QED
        BY <4>4, <4>5
    <3>5. QED
      BY <3>3, <3>4
  <2>9. QED
    BY <2>7, <2>8
<1>6. CASE trim_trailing_byte
  <2>1. /\ pc = "trim" /\ ~args.keep_header /\ args.output \in Path /\ Out \in File
        /\ args.input # args.output =>
              SectionFound /\ \E cut \in 0 .. Len(whole) - HeaderSize : Trimmed(cut)
    BY <1>6 DEF trim_trailing_byte, CarveInv
  <2>2. \/ /\ Len(Out) > 0 /\ Out[Len(Out)] = ErasedCell /\ pc' = "trim"
           /\ fs' = [fs EXCEPT ![args.output] = SubSeq(Out, 1, Len(Out) - 1)]
        \/ pc' = "exit1" /\ fs' = fs
        \/ ~(Len(Out) > 0 /\ Out[Len(Out)] = ErasedCell) /\ pc' = "exit0" /\ fs' = fs
    BY <1>6, <2>1 DEF trim_trailing_byte, Out
  <2>3. CASE pc' = "exit1"
    BY <1>1, <2>2, <2>3 DEF CarveInv, Typed, CarvedSection
  <2>4. CASE pc' = "trim"
    <3>1. /\ Len(Out) > 0 /\ Out[Len(Out)] = ErasedCell
          /\ fs' = [fs EXCEPT ![args.output] = SubSeq(Out, 1, Len(Out) - 1)]
      BY <2>2, <2>4
    <3>2. SubSeq(Out, 1, Len(Out) - 1) \in File
      <4>1. Len(Out) \in Nat /\ \A i \in 1 .. Len(Out) - 1 : Out[i] \in Cell
        BY <2>1 DEF File
      <4>2. QED
        BY <4>1, SubSeqProperties DEF File
    <3>3. Typed' /\ Out' = SubSeq(Out, 1, Len(Out) - 1)
      BY <1>1, <2>1, <3>1, <3>2 DEF Typed, Out
    <3>4. ASSUME args.input # args.output
          PROVE  SectionFound' /\ \E cut \in 0 .. Len(whole') - HeaderSize : Trimmed(cut)'
      <4>1. PICK cut \in 0 .. Len(whole) - HeaderSize : Trimmed(cut)
        BY <2>1, <3>4
      <4>2. SectionFound
        BY <2>1, <3>4
      <4>3. In' = In
        BY <1>1, <2>1, <3>1, <3>4, <4>2 DEF In, Typed, SectionFound
      <4>4. whole' = whole /\ (SectionFound' <=> SectionFound)
        BY <1>1, <4>3 DEF SectionFound, whole, Whole, from, section, range
      <4>5. /\ Len(Out) = Len(whole) - cut - HeaderSize
            /\ Out[Len(Out)] = whole[Len(whole) - cut]
            /\ Out' = SubSeq(whole, HeaderSize + 1, Len(whole) - (cut + 1))
        BY <3>1, <3>3, <4>1, <4>2, OneByteLess
      <4>6. Len(whole) \in Nat /\ HeaderSize \in Nat
        BY <4>2, SizesAreNumbers DEF SectionFound, File
      <4>7. cut + 1 \in 0 .. Len(whole) - HeaderSize
        BY <3>1, <4>5, <4>6
      <4>8. \A k \in 1 .. cut + 1 : whole[Len(whole) + 1 - k] = ErasedCell
        <5>1. whole[Len(whole) + 1 - (cut + 1)] = ErasedCell
          BY <3>1, <4>5, <4>6
        <5>2. \A k \in 1 .. cut + 1 : k = cut + 1 \/ k \in 1 .. cut
          BY <4>7
        <5>3. QED
          BY <4>1, <5>1, <5>2 DEF Trimmed
      <4>9. Trimmed(cut + 1)'
        BY <4>4, <4>5, <4>8 DEF Trimmed
      <4>10. QED
        BY <4>2, <4>4, <4>7, <4>9
    <3>5. QED
      BY <1>1, <2>1, <2>4, <3>2, <3>3, <3>4 DEF CarveInv, CarvedSection
  <2>5. CASE pc' = "exit0"
    <3>1. ~(Len(Out) > 0 /\ Out[Len(Out)] = ErasedCell) /\ fs' = fs
      BY <2>2, <2>5
    <3>2. ASSUME args.input # args.output
          PROVE  \E cut \in 0 .. Len(whole) - HeaderSize :
                    Trimmed(cut) /\ (Out = <<>> \/ Out[Len(Out)] # ErasedCell)
      <4>1. PICK cut \in 0 .. Len(whole) - HeaderSize : Trimmed(cut)
        BY <2>1, <3>2
      <4>2. SectionFound
        BY <2>1, <3>2
      <4>3. Len(Out) \in Nat /\ (Len(Out) = 0 => Out = <<>>)
        BY <2>1, EmptySeq DEF File
      <4>4. Out = <<>> \/ Out[Len(Out)] # ErasedCell
        BY <3>1, <4>3
      <4>5. QED
        BY <4>1, <4>4
    <3>3. Typed' /\ CarvedSection'
      <4>1. Typed' /\ In' = In /\ Out' = Out
        BY <1>1, <3>1 DEF Typed, In, Out
      <4>2. QED
        BY <1>1, <2>1, <3>2, <4>1 DEF CarvedSection, Trimmed, whole
    <3>4. QED
      BY <2>5, <3>3 DEF CarveInv
  <2>6. QED
    BY <2>2, <2>3, <2>4, <2>5
<1>7. QED
  BY <1>2, <1>3, <1>4, <1>5, <1>6 DEF Next, Script

(* The invariant of carver.sh: what is in the output at each position, for   *)
(* every input and every section (carver.sh main, trim_trailing_byte).        *)
THEOREM CarveInvariance == Spec => []CarveInv
BY InitCarve, CarveStep, PTL DEF Spec

(* A run that ends well has written exactly the section, or what follows its  *)
(* header without the 0xff bytes it ends in, for every firmware file: the      *)
(* length comes from the section's own header and is never that of the slot.   *)
THEOREM CarvesTheSection == Spec => []CarvedSection
BY CarveInvariance, PTL DEF CarveInv

(* Whatever the output held before and wherever dd or the trimming loop fails, *)
(* each step leaves a prefix of the section in it.                             *)
THEOREM OnlyPrefixesWritten == Spec => WritesPrefixes
<1> DEFINE Prefixed ==
             fs' # fs => \/ args.input = args.output
                         \/ \E k \in from .. Len(whole) : Out' = SubSeq(whole, from + 1, k)
<1>1. ASSUME CarveInv, Next, fs' # fs, args.input # args.output
      PROVE  \E k \in from .. Len(whole) : Out' = SubSeq(whole, from + 1, k)
  <2>1. args' = args /\ Typed /\ HeaderSize \in Nat
    BY <1>1, CarveStep, SizesAreNumbers DEF CarveInv, Next, Script, check, copy, trim_trailing_byte, Kill
  <2>2. CASE copy
    <3>1. SectionFound
      BY <1>1, <2>2 DEF copy, CarveInv
    <3>2. whole \in File /\ Len(whole) \in Nat /\ HeaderSize < Len(whole) /\ args.output \in Path
      BY <3>1 DEF SectionFound, File
    <3>3. from \in 0 .. Len(whole)
      BY <2>1, <3>2 DEF from
    <3> DEFINE carved == SubSeq(whole, from + 1, Len(whole))
    <3>4. PICK p \in {carved, Out} \cup Prefixes(carved) : fs' = [fs EXCEPT ![args.output] = p]
      BY <1>1, <2>2, <3>1 DEF copy, SectionFound
    <3>5. p # Out
      BY <1>1, <2>1, <3>2, <3>4 DEF Out, Typed
    <3>6. Out' = p
      BY <2>1, <3>2, <3>4 DEF Out, Typed
    <3>7. CASE p \in Prefixes(carved)
      <4>1. Len(carved) = Len(whole) - from
        <5>1. \A i \in from + 1 .. Len(whole) : whole[i] \in Cell
          BY <3>2, <3>3 DEF File
        <5>2. QED
          BY <3>2, <3>3, <5>1, SubSeqProperties
      <4>2. PICK k \in 0 .. Len(carved) : p = SubSeq(carved, 1, k)
        BY <3>7 DEF Prefixes
      <4>3. SubSeq(SubSeq(whole, from + 1, Len(whole)), 0 + 1, k) = SubSeq(whole, from + 0 + 1, from + k)
        BY <3>2, <3>3, <4>1, <4>2, PartOfPart
      <4>4. p = SubSeq(whole, from + 1, from + k) /\ from + k \in from .. Len(whole)
        BY <3>2, <3>3, <4>1, <4>2, <4>3
      <4>5. QED
        BY <3>6, <4>4
    <3>8. QED
      BY <3>2, <3>3, <3>4, <3>5, <3>6, <3>7
  <2>3. CASE trim_trailing_byte
    <3>1. /\ ~args.keep_header /\ args.output \in Path /\ Out \in File /\ SectionFound
          /\ \E cut \in 0 .. Len(whole) - HeaderSize : Trimmed(cut)
      BY <1>1, <2>3 DEF trim_trailing_byte, CarveInv
    <3>2. Len(Out) > 0 /\ fs' = [fs EXCEPT ![args.output] = SubSeq(Out, 1, Len(Out) - 1)]
      BY <1>1, <2>3 DEF trim_trailing_byte, Out
    <3>3. Out' = SubSeq(Out, 1, Len(Out) - 1)
      BY <2>1, <3>1, <3>2 DEF Typed, Out
    <3>4. PICK cut \in 0 .. Len(whole) - HeaderSize : Trimmed(cut)
      BY <3>1
    <3>5. /\ Len(Out) = Len(whole) - cut - HeaderSize
          /\ Out' = SubSeq(whole, HeaderSize + 1, Len(whole) - (cut + 1))
      BY <3>1, <3>2, <3>3, <3>4, OneByteLess
    <3>6. Len(whole) \in Nat
      BY <3>1 DEF SectionFound, File
    <3>7. Len(whole) - (cut + 1) \in HeaderSize .. Len(whole)
      BY <2>1, <3>2, <3>4, <3>5, <3>6
    <3>8. QED
      BY <3>1, <3>5, <3>7 DEF from
  <2>4. QED
    BY <1>1, <2>2, <2>3 DEF Next, Script, check, Kill
<1>2. CarveInv /\ [Next]_vars => [Prefixed]_vars
  BY <1>1
<1>3. QED
  BY <1>2, InitCarve, CarveStep, PTL DEF Spec, WritesPrefixes, whole, from
=============================================================================
