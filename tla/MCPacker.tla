------------------------------ MODULE MCPacker ------------------------------
(* Runs of the packer over blobs that fit, do not fit, or are not for their   *)
(* slot, onto no file, the image of an earlier run, or the RO_A blob itself.  *)
EXTENDS Packer, MCBlobs

Paths == {"a.ro", "b.ro", "a.rw", "b.rw", "out"}
Args == [ro_a |-> "a.ro", ro_b |-> "b.ro", rw_a |-> "a.rw", rw_b |-> "b.rw", output |-> "out"]
Old == Packed("ro_a", "rw_a", "ro_b", "rw_b")
RunOf(ra, rb, wa, wb, old) ==
    [args |-> Args,
     fs |-> [p \in Paths |-> CASE p = "a.ro" -> ra [] p = "b.ro" -> rb
                               [] p = "a.rw" -> wa [] p = "b.rw" -> wb [] OTHER -> old]]

Runs ==
    {RunOf(Files(ra), Files(rb), Files(wa), Files(wb), old) :
        ra \in {"ro_a", "ro_a_long"}, rb \in {"ro_b"},
        wa \in {"rw_a", "rw_a_long", "rw_a_pad", "rw_a_huge"},
        wb \in {"rw_b", "rw_b_long"}, old \in {Absent, Old}}
    \cup
    {RunOf(Files(ra), rb, Files(wa), Files("rw_b"), Old) :
        ra \in {"ro_a", "rw_a"}, rb \in {Files("ro_b"), Files("ro_a"), Absent, SignedFile("ro_b", 1)},
        wa \in {"rw_a", "rw_a_citadel", "rw_a_none", "rw_a_empty"}}
    \cup
    {[RunOf(Files("ro_a"), Files("ro_b"), Files("rw_a"), Files("rw_b"), Absent)
         EXCEPT !.args.output = "a.ro"]}
=============================================================================
