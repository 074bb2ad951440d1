------------------------------ MODULE Registers ------------------------------
(***************************************************************************)
(* Words, registers and their fields: the macros of include/registers.h and  *)
(* the form in which the modules *Regs give the register list of             *)
(* include/haven_regdef.h.  A word is the set of its bits that are 1, so      *)
(* that masks are sets and no number exceeds 2^31.                            *)
(***************************************************************************)
EXTENDS Integers, Sequences, TLC

LOCAL INSTANCE FiniteSetsExt

Bit == 0 .. 31
Zero == {}
(* The word whose halves are hi and lo; a word of 16 bits; all ones. *)
Half(v) == {b \in 0 .. 15 : (v \div 2^b) % 2 = 1}
Hex(hi, lo) == {b + 16 : b \in Half(hi)} \cup Half(lo)
Lo(v) == Hex(v \div 65536, v % 65536)
Ones == Bit

-----------------------------------------------------------------------------
(* Fields: <<lsb, size>>. *)
Mask(f) == f[1] .. f[1] + f[2] - 1
Shifted(value, f) == {b + f[1] : b \in value}
(* GWRITE_FIELD: the word a register that held old is given. *)
field_written(old, f, value) == (old \ Mask(f)) \cup (Shifted(value, f) \cap Mask(f))

-----------------------------------------------------------------------------
(* A table maps the offset of a register to what it holds after a reset      *)
(* (x_OFFSET, x_DEFAULT) or to its fields (x_LSB, x_MASK, x_SIZE).           *)
Every(step, off, count, x) == [a \in {off + step * i : i \in 0 .. count - 1} |-> x]
Block(off, count, x) == Every(4, off, count, x)
Reg(off, x) == Block(off, 1, x)
Merged(tables) == FoldSet(LAMBDA t, all : t @@ all, <<>>, tables)

(* Layouts: n flags from bit 0 up; fields of these widths from bit 0 up. *)
Flags(count) == {<<b, 1>> : b \in 0 .. count - 1}
Widths(w) ==
    LET lsb[i \in 1 .. Len(w)] == IF i = 1 THEN 0 ELSE lsb[i - 1] + w[i - 1]
    IN  {<<lsb[i], w[i]>> : i \in 1 .. Len(w)}

(* A table without two entries for one register, fields that exist, do not   *)
(* overlap and end at bit 31.                                                *)
Disjoint(tables) == \A s, t \in tables : s # t => DOMAIN s \cap DOMAIN t = {}
WellFormed(resets, fields) ==
    /\ Disjoint(resets) /\ Disjoint(fields)
    /\ DOMAIN Merged(fields) \subseteq DOMAIN Merged(resets)
    /\ \A a \in DOMAIN Merged(resets) : a % 4 = 0
    /\ \A t \in fields : \A a \in DOMAIN t :
          /\ \A f \in t[a] : Mask(f) \subseteq Bit
          /\ \A f, g \in t[a] : f # g => Mask(f) \cap Mask(g) = {}
=============================================================================
