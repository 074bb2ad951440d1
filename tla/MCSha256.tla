------------------------------ MODULE MCSha256 ------------------------------
(* Messages around the limits of the four loops of sha256(), at every        *)
(* alignment: empty, below a word, around a word, around one block of 32      *)
(* bytes and beyond it.                                                       *)
EXTENDS Sha256

MCMessages ==
    [data : {8, 9, 11}, len : {0, 1, 3, 4, 5}]
    \cup [data : {8}, len : {31, 32, 33, 37}]
    \cup [data : {10}, len : {34, 71}]
=============================================================================
