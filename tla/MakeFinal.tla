----------------------------- MODULE MakeFinal -----------------------------
(***************************************************************************)
(* src/util/make_final_img.sh: the RW sections of a firmware image, carved   *)
(* into temporary files, packed with two RO blobs.  It runs carver.sh twice  *)
(* and packer.sh once; they are the modules Carver and Packer, with a        *)
(* position and arguments of their own and the files in common.              *)
(***************************************************************************)
EXTENDS BlobFiles

CONSTANTS
    MakeRuns,      \* runs of the script: [fs, args], args = [ro_a, ro_b, source, output]
    TmpA, TmpB,    \* the names mktemp makes up
    NoPath         \* the empty string

(* mktemp makes up two names no file has yet.  The RO_B blob is read at an    *)
(* offset, so the output cannot be written over it (see Packer).               *)
ASSUME MakeFinalAssumption ==
    /\ TmpA # TmpB /\ {TmpA, TmpB} \subseteq Path /\ NoPath \notin Path
    /\ \A r \in MakeRuns :
          /\ r.fs \in [Path -> {Absent} \cup File]
          /\ \A p \in {TmpA, TmpB} : r.fs[p] = Absent
          /\ {r.args.ro_a, r.args.ro_b, r.args.source, r.args.output}
                 \subseteq Path \ {TmpA, TmpB}
          /\ r.args.output # r.args.ro_b

VARIABLES
    step,          \* position in main()
    args,
    tmp,           \* BLOB_RW_A, BLOB_RW_B
    fs,            \* the files
    cpc, cargs,    \* the carver it runs
    ppc, pargs,    \* the packer it runs
    given          \* the files at the start, for the properties

Carve == INSTANCE Carver WITH pc <- cpc, args <- cargs, CarverRuns <- {}
Pack == INSTANCE Packer WITH pc <- ppc, args <- pargs, PackerRuns <- {}
vars == <<step, args, tmp, fs, cpc, cargs, ppc, pargs, given>>
children == <<cpc, cargs, ppc, pargs>>

Init ==
    /\ step = "mktemp_rw_a" /\ tmp = [rw_a |-> NoPath, rw_b |-> NoPath]
    /\ \E r \in MakeRuns : args = r.args /\ fs = r.fs
    /\ cpc = "idle" /\ cargs = NoPath /\ ppc = "idle" /\ pargs = NoPath
    /\ given = fs

Exited == {"exit0", "exit1", "killed"}
CarveArgs(out, slot) == [input |-> args.source, output |-> out, slot |-> slot, keep_header |-> TRUE]
PackArgs == [ro_a |-> args.ro_a, ro_b |-> args.ro_b, rw_a |-> tmp.rw_a, rw_b |-> tmp.rw_b,
             output |-> args.output]

-----------------------------------------------------------------------------
(* local BLOB=$(mktemp): a failure is lost in the declaration and leaves the *)
(* name empty.                                                                *)
mktemp(from, to, blob, path) ==
    /\ step = from /\ step' = to
    /\ \/ tmp' = [tmp EXCEPT ![blob] = path] /\ fs' = [fs EXCEPT ![path] = <<>>]
       \/ UNCHANGED <<tmp, fs>>
    /\ UNCHANGED <<args, children, given>>

mktemp_rw_a == mktemp("mktemp_rw_a", "mktemp_rw_b", "rw_a", TmpA)
mktemp_rw_b == mktemp("mktemp_rw_b", "check", "rw_b", TmpB)

StartCarver(a) == cpc' = "check" /\ cargs' = a

check ==
    /\ step = "check"
    /\ IF /\ fs[args.source] # Absent
          /\ verify_blob(fs[args.ro_a], RO_A_BASE) /\ verify_blob(fs[args.ro_b], RO_B_BASE)
       THEN step' = "carve_rw_a" /\ StartCarver(CarveArgs(tmp.rw_a, RW_A_BASE))
       ELSE step' = "exit1" /\ UNCHANGED <<cpc, cargs>>
    /\ UNCHANGED <<args, tmp, fs, ppc, pargs, given>>

run_carver ==
    /\ step \in {"carve_rw_a", "carve_rw_b"}
    /\ Carve!Script
    /\ UNCHANGED <<step, args, tmp, ppc, pargs, given>>

carve_rw_a ==
    /\ step = "carve_rw_a" /\ cpc \in Carve!Exited
    /\ IF cpc = "exit0"
       THEN step' = "carve_rw_b" /\ StartCarver(CarveArgs(tmp.rw_b, RW_B_BASE))
       ELSE step' = "exit1" /\ UNCHANGED <<cpc, cargs>>
    /\ UNCHANGED <<args, tmp, fs, ppc, pargs, given>>

(* The carver's exit, then verify_blob on what it carved. *)
carve_rw_b ==
    /\ step = "carve_rw_b" /\ cpc \in Carve!Exited
    /\ IF /\ cpc = "exit0"
          /\ verify_blob(fs[tmp.rw_a], RW_A_BASE) /\ verify_blob(fs[tmp.rw_b], RW_B_BASE)
       THEN step' = "pack" /\ ppc' = "check" /\ pargs' = PackArgs
       ELSE step' = "exit1" /\ UNCHANGED <<ppc, pargs>>
    /\ UNCHANGED <<args, tmp, fs, cpc, cargs, given>>

run_packer ==
    /\ step = "pack"
    /\ Pack!Script
    /\ UNCHANGED <<step, args, tmp, cpc, cargs, given>>

pack ==
    /\ step = "pack" /\ ppc \in Pack!Exited
    /\ step' = IF ppc = "exit0" THEN "clean" ELSE "exit1"
    /\ UNCHANGED <<args, tmp, fs, children, given>>

(* rm -rf of the two; it may fail and keep some, which is the script's exit.  *)
(* Mutant: of one of the two.                                                 *)
clean_one ==
    /\ step = "clean"
    /\ \E kept \in SUBSET {tmp.rw_a} :
          /\ step' = IF kept = {} THEN "exit0" ELSE "exit1"
          /\ fs' = [p \in Path |-> IF p \in {tmp.rw_a} \ kept THEN Absent ELSE fs[p]]
    /\ UNCHANGED <<args, tmp, children, given>>

clean ==
    /\ step = "clean"
    /\ \E kept \in SUBSET {tmp.rw_a, tmp.rw_b} :
          /\ step' = IF kept = {} THEN "exit0" ELSE "exit1"
          /\ fs' = [p \in Path |-> IF p \in {tmp.rw_a, tmp.rw_b} \ kept THEN Absent ELSE fs[p]]
    /\ UNCHANGED <<args, tmp, children, given>>

(* The terminal interrupts the script and what it runs. *)
Kill == step \notin Exited /\ step' = "killed" /\ UNCHANGED <<args, tmp, fs, children, given>>

Next ==
    \/ mktemp_rw_a \/ mktemp_rw_b \/ check
    \/ run_carver \/ carve_rw_a \/ carve_rw_b
    \/ run_packer \/ pack \/ clean
    \/ Kill

Spec == Init /\ [][Next]_vars

-----------------------------------------------------------------------------
(* Properties.                                                               *)

Out == fs[args.output]
Source == given[args.source]
(* What the source holds in a slot, by the header there. *)
Section(slot) == copy_range(Source, Offset(slot), layout_at(Source, Offset(slot)).image_size)

(* The loader answers for each RW slot of the final image what it would have *)
(* answered for the source firmware, and for each RO slot what the header of *)
(* the RO blob deserves: whatever the blobs' lengths, as the packer writes   *)
(* the slots in ascending order.                                              *)
VerdictPreserved ==
    step = "exit0" /\ args.output # args.ro_a =>
        /\ \A slot \in RwSlots :
              loader_verdict(Out, slot) = loader_verdict(Source, slot)
        /\ \A ro \in {<<args.ro_a, RO_A_BASE>>, <<args.ro_b, RO_B_BASE>>} :
              verify_SignedHeader(header_at(Out, Offset(ro[2])), RoSize, ro[2])
                = verify_SignedHeader(header_at(given[ro[1]], 0), RoSize, ro[2])

(* Whatever fails and wherever it is killed, the run has written the output   *)
(* and its temporary files only.  A run that succeeds leaves none of those;    *)
(* one that does not may leave both (the rm is its last command and there is   *)
(* no trap), each empty or a beginning of the section it was made for.         *)
OnlyOutputLeft ==
    /\ \A p \in Path \ {args.output, TmpA, TmpB} : fs[p] = given[p]
    /\ \A blob \in {<<TmpA, RW_A_BASE>>, <<TmpB, RW_B_BASE>>} :
          LET left == fs[blob[1]] IN
          \/ left = Absent
          \/ step # "exit0" /\ (left = <<>> \/ left \in Prefixes(Section(blob[2])))

(* The output of an earlier run is touched only once all four blobs are      *)
(* known to be for their slots and of one family, although the script's own   *)
(* checks do not compare the families.                                        *)
OutputTouchedWhenValid ==
    [][Out = given[args.output] /\ Out' # Out => ppc # "idle" /\ Pack!valid]_vars
=============================================================================
