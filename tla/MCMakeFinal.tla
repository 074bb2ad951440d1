---------------------------- MODULE MCMakeFinal ----------------------------
(* Runs of make_final_img over firmware whose RW sections fit, do not fit,    *)
(* are damaged, of the other family or absent; onto no file, an older image,  *)
(* the source itself, or the RO_A blob.                                        *)
EXTENDS MakeFinal, MCBlobs

Paths == {"a.ro", "b.ro", "fw", "out", TmpA, TmpB}
Args(out) == [ro_a |-> "a.ro", ro_b |-> "b.ro", source |-> "fw", output |-> out]

(* One hashed cell of a section is erased. *)
Damaged(file, slot) == [file EXCEPT ![Offset(slot) + 3] = ErasedCell]
Firmware ==
    {Packed("ro_a", wa, "ro_b", wb) :
        wa \in {"rw_a", "rw_a_long", "rw_a_citadel"}, wb \in {"rw_b", "rw_b_blank"}}
    \cup {Damaged(Packed("ro_a", "rw_a", "ro_b", "rw_b"), slot) : slot \in RwSlots}
    \cup {SubSeq(Packed("ro_a", "rw_a", "ro_b", "rw_b"), 1, 14), Cells(ErasedCell, FlashSize), Absent}

Runs ==
    {[args |-> Args(out),
      fs |-> [p \in Paths |-> CASE p = "a.ro" -> Files(ra) [] p = "b.ro" -> Files("ro_b")
                                [] p = "fw" -> fw [] p = "out" -> old [] OTHER -> Absent]] :
        out \in {"out", "fw", "a.ro"}, ra \in {"ro_a", "ro_a_long", "ro_b"}, fw \in Firmware,
        old \in {Absent, Packed("ro_a", "rw_a", "ro_b", "rw_b_blank")}}
=============================================================================
