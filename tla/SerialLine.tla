----------------------------- MODULE SerialLine -----------------------------
(***************************************************************************)
(* What src/uart.c promises those who print: a character that was accepted  *)
(* appears on the line, once and in order, after everything accepted before *)
(* it, an earlier boot stage's output included.                              *)
(***************************************************************************)
EXTENDS Integers, Sequences

CONSTANTS Char,        \* characters
          MaxSent      \* bound: characters accepted in a run

VARIABLES sent,        \* what was accepted
          line         \* what was seen on the line

vars == <<sent, line>>

Init == sent \in Seq(Char) /\ line = <<>>

Accept(c) ==
    /\ Len(sent) < MaxSent
    /\ sent' = Append(sent, c)
    /\ UNCHANGED line

Show ==
    /\ Len(line) < Len(sent)
    /\ line' = SubSeq(sent, 1, Len(line) + 1)
    /\ UNCHANGED sent

Next == Show \/ \E c \in Char : Accept(c)

Spec == Init /\ [][Next]_vars /\ WF_vars(Show)
=============================================================================
