------------------------------- MODULE MCBoot -------------------------------
(* The loader over every content of RW_A that MCLaunch lists, at the limits  *)
(* and off them, beside signed images in the other slots.                    *)
EXTENDS BootBus

M == INSTANCE MCLaunch

BootImages(s) ==
    IF s = RW_A_BASE
    THEN M!RwVariants(s) \cup M!EdgeImages(s)
    ELSE IF s = RW_B_BASE THEN {M!Signed(s, "b2", 4, {})} ELSE {M!Signed(s, "b1", 4, {})}
BootCalls == {RwACall, RwBCall, RoACall, [RwACall EXCEPT !.max = RoSize]}
BootGuards == {3}
BootWords == 0 .. 7
BootFuses == {0, 1}
(* The stage before left every bit set but those that the loader sets. *)
BootLeftovers ==
    LET own == (<<"PMU", \h6c>> :> {5}) @@ (<<"M3", \hedfc>> :> {24}) @@ (<<"M3", \h1000>> :> {0})
    IN  {[a \in Shared |-> Implemented(a) \ own[a]]}
=============================================================================
