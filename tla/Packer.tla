------------------------------- MODULE Packer -------------------------------
(***************************************************************************)
(* src/util/packer.sh: four signed blobs into one flash image.               *)
(*                                                                           *)
(* The checks of main() change nothing and all end in exit 1, so they are    *)
(* one step.  After them every command may fail, a dd after any prefix of    *)
(* its output, and the script may be killed between two commands.            *)
(***************************************************************************)
EXTENDS BlobFiles

CONSTANTS
    PackerRuns    \* runs of the script: [fs, args], args = [ro_a, ro_b, rw_a, rw_b, output]

VARIABLES pc, args, fs
vars == <<pc, args, fs>>

Init == pc = "check" /\ \E r \in PackerRuns : args = r.args /\ fs = r.fs

(* Reading a blob from the output itself is the identity at offset 0; at any *)
(* other offset dd would read what it has just written, without end.  The     *)
(* blobs are what the signer writes, and those for the RW slots are whole.     *)
ASSUME PackerAssumption ==
    \A r \in PackerRuns :
        /\ {r.args.ro_a, r.args.ro_b, r.args.rw_a, r.args.rw_b, r.args.output} \subseteq Path
        /\ r.args.output \notin {r.args.rw_a, r.args.ro_b, r.args.rw_b}
        /\ r.fs \in [Path -> {Absent} \cup File]
        /\ \A p \in {r.args.ro_a, r.args.ro_b} :
              r.fs[p] = Absent \/ \E b \in Blob : SignedAs(r.fs[p], b)
        /\ \A p \in {r.args.rw_a, r.args.rw_b} :
              r.fs[p] = Absent \/ \E b \in Blob : r.fs[p] = BlobFile(b)

Inputs == {args.ro_a, args.ro_b, args.rw_a, args.rw_b}
Exited == {"exit0", "exit1", "killed"}
Out == fs[args.output]

(* A command leaves file in the output and the script goes on, or it fails   *)
(* having got as far as one of partials, and set -e makes the script exit.    *)
Command(from, to, file, partials) ==
    /\ pc = from
    /\ \/ pc' = to /\ fs' = [fs EXCEPT ![args.output] = file]
       \/ pc' = "exit1" /\ \E p \in partials : fs' = [fs EXCEPT ![args.output] = p]
    /\ UNCHANGED args

-----------------------------------------------------------------------------
(* Every blob is for its slot, and they are of one family. *)
valid ==
    /\ verify_blob(fs[args.ro_a], RO_A_BASE) /\ verify_blob(fs[args.rw_a], RW_A_BASE)
    /\ verify_blob(fs[args.ro_b], RO_B_BASE) /\ verify_blob(fs[args.rw_b], RW_B_BASE)
    /\ \A p \in Inputs : magic_at(fs[p], 0) = magic_at(fs[args.ro_a], 0)

(* Mutant: the output is removed before the blobs are checked. *)
check_late ==
    /\ pc = "check"
    /\ fs' = [fs EXCEPT ![args.output] = Absent]
    /\ pc' = IF valid THEN "remove" ELSE "exit1"
    /\ UNCHANGED args

check ==
    /\ pc = "check"
    /\ pc' = IF valid THEN "remove" ELSE "exit1"
    /\ UNCHANGED <<args, fs>>

(* Mutant: the old file stays. *)
remove_kept == Command("remove", "truncate", Out, {Out})

remove == Command("remove", "truncate", Absent, {Out})

(* truncate -s: a file is created, cut or extended with zeros. *)
resized(file) ==
    LET old == IF file = Absent THEN <<>> ELSE file IN
    [k \in 1 .. FlashSize |-> IF k <= Len(old) THEN old[k] ELSE ZeroCell]
truncate ==
    Command("truncate", "fill", resized(Out), {Out, IF Out = Absent THEN <<>> ELSE Out})

fill ==
    Command("fill", "write_ro_a", Cells(ErasedCell, FlashSize),
            {write_blob(p, Out, 0) : p \in Prefixes(Cells(ErasedCell, FlashSize))})

(* write_blob src output offset *)
write(from, to, src, slot) ==
    Command(from, to, write_blob(fs[src], Out, Offset(slot)),
            {write_blob(p, Out, Offset(slot)) : p \in Prefixes(fs[src])})

write_ro_a == write("write_ro_a", "write_rw_a", args.ro_a, RO_A_BASE)
write_rw_a == write("write_rw_a", "write_ro_b", args.rw_a, RW_A_BASE)

(* Mutant: RO_B goes to RO_A's place. *)
write_ro_b_pasted == write("write_ro_b", "write_rw_b", args.ro_b, RO_A_BASE)

write_ro_b == write("write_ro_b", "write_rw_b", args.ro_b, RO_B_BASE)
write_rw_b == write("write_rw_b", "exit0", args.rw_b, RW_B_BASE)

Script ==
    \/ check \/ remove \/ truncate \/ fill
    \/ write_ro_a \/ write_rw_a \/ write_ro_b \/ write_rw_b

Kill == pc \notin Exited /\ pc' = "killed" /\ UNCHANGED <<args, fs>>

Next == Script \/ Kill
Spec == Init /\ [][Next]_vars

-----------------------------------------------------------------------------
(* Properties.                                                               *)

Slotted == {<<args.ro_a, RO_A_BASE>>, <<args.rw_a, RW_A_BASE>>,
            <<args.ro_b, RO_B_BASE>>, <<args.rw_b, RW_B_BASE>>}
Intact(path, slot) ==
    /\ Len(Out) >= Offset(slot) + Len(fs[path])
    /\ \A k \in 1 .. Len(fs[path]) : Out[Offset(slot) + k] = fs[path][k]
(* The blob ends before the next one starts: later writes leave it alone.    *)
Clear(path, slot) ==
    \A other \in Slotted :
        Offset(other[2]) > Offset(slot) /\ Len(fs[other[1]]) > 0
            => Offset(slot) + Len(fs[path]) <= Offset(other[2])

(* A successful run, unless it was told to write over an input, leaves an    *)
(* image in which every blob is whole exactly if it does not run into a      *)
(* later slot's blob, everything not covered is erased, and the size is that *)
(* of the flash unless a blob runs past its end.  Nothing compares a blob's  *)
(* length with its slot.                                                       *)
PackedImage ==
    pc = "exit0" /\ args.output \notin Inputs =>
        /\ \A s \in Slotted : Clear(s[1], s[2]) <=> Intact(s[1], s[2])
        /\ Len(Out) >= FlashSize
        /\ \A s \in Slotted : Len(Out) >= Offset(s[2]) + Len(fs[s[1]])
        /\ Len(Out) = FlashSize \/ \E s \in Slotted : Len(Out) = Offset(s[2]) + Len(fs[s[1]])
        /\ \A k \in 1 .. Len(Out) :
              \/ Out[k] = ErasedCell
              \/ \E s \in Slotted :
                    /\ k - Offset(s[2]) \in 1 .. Len(fs[s[1]])
                    /\ Out[k] = fs[s[1]][k - Offset(s[2])]

(* Wherever a run stops once it has begun the image, whatever the output was *)
(* before: the loader launches an RW slot of what is left only if this run's *)
(* blob is in it up to its image_size, never a torn one and never one of an   *)
(* earlier run.                                                                *)
OwnBlob(slot, path) ==
    Out # Absent /\ Len(Out) >= FlashSize /\ loader_verdict(Out, slot) = LAUNCH_SUCCESS =>
        LET size == layout_at(fs[path], 0).image_size IN
        /\ Offset(slot) + size <= Len(Out)
        /\ SubSeq(Out, Offset(slot) + TagOffset + 1, Offset(slot) + size)
             = SubSeq(fs[path], TagOffset + 1, size)
PartialImageRefused ==
    [][pc \notin {"check", "remove"} /\ args.output \notin Inputs =>
          OwnBlob(RW_A_BASE, args.rw_a)' /\ OwnBlob(RW_B_BASE, args.rw_b)']_vars
=============================================================================
