---------------------------- MODULE HashService ----------------------------
(***************************************************************************)
(* What src/sha256.c promises: a call returns, and leaves in the caller's   *)
(* eight digest words the digest of the message of this call.  A digest is   *)
(* the sequence of the addresses of the bytes that were hashed.              *)
(***************************************************************************)
EXTENDS Integers, Sequences

CONSTANTS Messages,   \* the messages hashed: [data, len]
          Unspecified \* the digest buffer while a call runs

VARIABLES request,    \* the message of the current or last call
          busy,       \* a call is running
          result      \* the digest words

vars == <<request, busy, result>>

Bytes(m) == [j \in 1 .. m.len |-> m.data + j - 1]

Init ==
    /\ request \in Messages
    /\ busy = FALSE /\ result = Unspecified

Call(m) ==
    /\ ~busy
    /\ busy' = TRUE /\ request' = m /\ result' = Unspecified

Return ==
    /\ busy
    /\ busy' = FALSE /\ result' = [i \in 0 .. 7 |-> Bytes(request)]
    /\ UNCHANGED request

Next == Return \/ \E m \in Messages : Call(m)

Spec == Init /\ [][Next]_vars /\ WF_vars(Return)
=============================================================================
