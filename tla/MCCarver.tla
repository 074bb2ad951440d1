------------------------------ MODULE MCCarver ------------------------------
(* Runs of the carver over firmware images with whole, padded, overlong,      *)
(* missing and foreign sections, onto no file, an older output, or the input. *)
EXTENDS Carver, MCBlobs

Paths == {"in", "out"}
Images ==
    {Packed("ro_a", wa, "ro_b", wb) :
        wa \in {"rw_a", "rw_a_long", "rw_a_pad", "rw_a_hole", "rw_a_citadel", "rw_a_none",
                "rw_a_empty", "ro_b"},
        wb \in {"rw_b", "rw_b_blank", "rw_b_past"}}
Firmware ==
    Images \cup {SubSeq(i, 1, 14) : i \in Images} \cup {Cells(ErasedCell, FlashSize), <<>>, Absent}

Args ==
    [input : {"in"}, output : {"out", "in", NoPath}, slot : Slots, keep_header : BOOLEAN]
Runs ==
    {[args |-> a, fs |-> [p \in Paths |-> IF p = "in" THEN f ELSE old]] :
        a \in Args, f \in Firmware, old \in {Absent, Files("rw_a")}}
=============================================================================
