------------------------------- MODULE Carver -------------------------------
(***************************************************************************)
(* src/util/carver.sh: one signed section out of a firmware image.           *)
(*                                                                           *)
(* The checks of main() change nothing and all end in exit 1, so they are    *)
(* one step; dd may fail after any prefix of its output, and the trimming    *)
(* loop is one step for each byte.                                            *)
(***************************************************************************)
EXTENDS BlobFiles

CONSTANTS
    CarverRuns,   \* runs of the script: [fs, args], args = [input, output, slot, keep_header]
    NoPath        \* an argument that is the empty string

ASSUME CarverAssumption ==
    /\ NoPath \notin Path
    /\ \A r \in CarverRuns :
          /\ {r.args.input, r.args.output} \subseteq Path \cup {NoPath}
          /\ r.args.slot \in Slots /\ r.args.keep_header \in BOOLEAN
          /\ r.fs \in [Path -> {Absent} \cup File]

VARIABLES pc, args, fs
vars == <<pc, args, fs>>

Init == pc = "check" /\ \E r \in CarverRuns : args = r.args /\ fs = r.fs

Exited == {"exit0", "exit1", "killed"}
In == fs[args.input]
Out == fs[args.output]

-----------------------------------------------------------------------------
(* validate_args, then the header in the section's slot. *)
valid ==
    /\ args.input # NoPath /\ args.output # NoPath
    /\ In # Absent
    /\ valid_signed_header_at(In, Offset(args.slot), Len(In))
    /\ layout_at(In, Offset(args.slot)).ro_base = args.slot

(* The section's range in the input: all of it, or what follows its header.  *)
(* Mutant: the size is not reduced by the header.                             *)
range_full(image_size) ==
    IF args.keep_header THEN [off |-> Offset(args.slot), size |-> image_size]
    ELSE [off |-> Offset(args.slot) + HeaderSize, size |-> image_size]

range(image_size) ==
    IF args.keep_header THEN [off |-> Offset(args.slot), size |-> image_size]
    ELSE [off |-> Offset(args.slot) + HeaderSize, size |-> image_size - HeaderSize]

section == range(layout_at(In, Offset(args.slot)).image_size)

check ==
    /\ pc = "check"
    /\ pc' = IF /\ valid
                /\ section.size > 0
                /\ section.off + section.size <= Len(In)
             THEN "copy" ELSE "exit1"
    /\ UNCHANGED <<args, fs>>

(* dd empties the output before it reads. *)
copy ==
    LET carved == IF args.input = args.output THEN <<>>
                  ELSE copy_range(In, section.off, section.size)
    IN  /\ pc = "copy"
        /\ \/ /\ pc' = IF args.keep_header THEN "exit0" ELSE "trim"
              /\ fs' = [fs EXCEPT ![args.output] = carved]
           \/ /\ pc' = "exit1"
              /\ \E p \in Prefixes(carved) \cup {Out} : fs' = [fs EXCEPT ![args.output] = p]
        /\ UNCHANGED args

(* Mutant: the last byte is never looked at. *)
trim_trailing_byte_but_one ==
    /\ pc = "trim"
    /\ IF Len(Out) > 1 /\ Out[Len(Out)] = ErasedCell
       THEN \/ /\ fs' = [fs EXCEPT ![args.output] = SubSeq(@, 1, Len(@) - 1)]
               /\ UNCHANGED pc
            \/ pc' = "exit1" /\ UNCHANGED fs
       ELSE pc' = "exit0" /\ UNCHANGED fs
    /\ UNCHANGED args

(* Mutant: the size is not counted down. *)
trim_trailing_byte_stuck ==
    /\ pc = "trim"
    /\ IF Len(Out) > 0 /\ Out[Len(Out)] = ErasedCell
       THEN UNCHANGED <<pc, fs>>
       ELSE pc' = "exit0" /\ UNCHANGED fs
    /\ UNCHANGED args

trim_trailing_byte ==
    /\ pc = "trim"
    /\ IF Len(Out) > 0 /\ Out[Len(Out)] = ErasedCell
       THEN \/ /\ fs' = [fs EXCEPT ![args.output] = SubSeq(@, 1, Len(@) - 1)]
               /\ UNCHANGED pc
            \/ pc' = "exit1" /\ UNCHANGED fs
       ELSE pc' = "exit0" /\ UNCHANGED fs
    /\ UNCHANGED args

Script == check \/ copy \/ trim_trailing_byte
Kill == pc \notin Exited /\ pc' = "killed" /\ UNCHANGED <<args, fs>>

Next == Script \/ Kill
Spec == Init /\ [][Next]_vars /\ WF_vars(Script)

-----------------------------------------------------------------------------
(* Properties.                                                               *)

(* What the section holds by its own header: image_size bytes from its slot. *)
Whole(file, slot) ==
    copy_range(file, Offset(slot), layout_at(file, Offset(slot)).image_size)

(* docs/CARVER.md:54 - without --keep-header, the output starts after the    *)
(* SignedHeader and trailing 0xff bytes are trimmed: all of them and nothing *)
(* else, wherever the loop stopped, also when nothing is left.  With         *)
(* --keep-header the output is the whole section, padding included.           *)
CarvedSection ==
    pc = "exit0" /\ args.input # args.output =>
        LET whole == Whole(In, args.slot) IN
        IF args.keep_header THEN Out = whole
        ELSE \E cut \in 0 .. Len(whole) - HeaderSize :
                /\ Out = SubSeq(whole, HeaderSize + 1, Len(whole) - cut)
                /\ \A k \in 1 .. cut : whole[Len(whole) + 1 - k] = ErasedCell
                /\ Out = <<>> \/ Out[Len(Out)] # ErasedCell

(* Wherever the script is stopped, what it has written is a prefix of the    *)
(* section, or of what follows the section's header: never a byte of the      *)
(* neighbouring slot, and never a mix with an older output.                    *)
WritesPrefixes ==
    [][fs' # fs => LET whole == Whole(In, args.slot)
                       from == IF args.keep_header THEN 0 ELSE HeaderSize IN
                   \/ args.input = args.output
                   \/ \E k \in from .. Len(whole) : Out' = SubSeq(whole, from + 1, k)]_vars

(* The script comes to an end: every turn of the trimming loop makes the      *)
(* file shorter.                                                              *)
Ends == <>(pc \in Exited)
=============================================================================
