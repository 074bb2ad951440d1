------------------------------- MODULE MCUart -------------------------------
(* Every way an earlier boot stage may leave a UART with FIFOs of two        *)
(* characters: clock and transmitter on or off, idle, in the middle of a     *)
(* character, with characters waiting on either side.                        *)
EXTENDS Uart

MCLeftovers ==
    {[clock |-> c, txen |-> t, rxen |-> r, shift |-> s, tx |-> f, rx |-> g] :
        c \in BOOLEAN, t \in BOOLEAN, r \in BOOLEAN, s \in {<<>>},
        f \in {<<>>, <<"a">>, <<"a", "b">>}, g \in {<<>>, <<"b">>}}
    \cup
    {[clock |-> c, txen |-> TRUE, rxen |-> FALSE, shift |-> <<"b">>, tx |-> f, rx |-> <<>>] :
        c \in BOOLEAN, f \in {<<>>, <<"a">>, <<"a", "b">>}}
=============================================================================
