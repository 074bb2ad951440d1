------------------------------ MODULE MCLaunch ------------------------------
(***************************************************************************)
(* A small flash for Launch: slots of 4 (RO) and 5 (RW) units at            *)
(* 2, 6, 12 and 16, words of 0..25.                                          *)
(***************************************************************************)
EXTENDS Launch

(* The image of slot s that the signer would make of content b. *)
Signed(s, b, size, map) ==
    [magic |-> MAGIC_HAVEN,
     img_chk_ |-> [body |-> b, len |-> size - TagOffset],
     fuses_chk_ |-> [f \in Fuse |-> IF f \in map THEN 1 ELSE FUSE_IGNORE],
     info_chk_ |-> "read",
     tag |-> [w \in 0 .. 6 |-> w + 1], major_ |-> 3, epoch_ |-> 7,
     image_size |-> size,
     ro_base |-> s, ro_max |-> s + size, rx_base |-> s + HeaderSize, rx_max |-> s + size,
     fusemap |-> map, body |-> b]

(* Slot contents that differ from a signed image in one field. *)
RoVariants(s) ==
    LET g == Signed(s, "b1", 4, {}) IN
    {g, [g EXCEPT !.ro_max = s + 5]}
RwVariants(s) ==
    LET g == Signed(s, "b1", 5, {0}) IN
    {g, [g EXCEPT !.body = "b2"], [g EXCEPT !.magic = MAGIC_CITADEL],
     [g EXCEPT !.image_size = 6], [g EXCEPT !.rx_max = g.rx_base]}

(* RW_B holds a signed image of another content and size, or a stale body. *)
RwBImages ==
    LET g == Signed(RW_B_BASE, "b2", 4, {}) IN {g, [g EXCEPT !.body = "b1"]}

SeqImages(s) ==
    IF s \in RoSlots THEN RoVariants(s)
    ELSE IF s = RW_A_BASE THEN RwVariants(s) ELSE RwBImages
SeqCalls ==
    [fn : {"launch_image"}, addr : {1}, max : {4}]
    \cup [fn : {"launch_image"}, addr : {RW_A_BASE}, max : {RwSize - 1}]
    \cup {[fn |-> "launch_image", addr |-> s, max |-> SlotSize(s)] : s \in Slots}
    \cup [fn : {"launch_RO"}, addr : {RW_A_BASE}, max : {RwSize}]
    \cup [fn : {"launch_RW"}, addr : {RO_A_BASE}, max : {RoSize}]
SeqGuards == {7}

(* One slot, every header whose sizes and bounds sit on or next to a limit.  *)
EdgeImages(s) ==
    LET g == Signed(s, "b1", 5, {0}) IN
    IF s # RW_A_BASE THEN {g}
    ELSE {[g EXCEPT !.image_size = size, !.img_chk_.len = WSub(size, TagOffset),
                    !.ro_base = rob, !.ro_max = rom, !.rx_base = rxb, !.rx_max = rxm] :
             size \in {0, 3, 4, 5, 6, WordSize - 1},
             rob \in {s - 1, s}, rom \in {s + 5, s + 6},
             rxb \in {s - 1, s, s + 2, s + 5, s + 6}, rxm \in {0, s, s + 2, s + 3, s + 5, s + 6}}

Words == 0 .. 7
FuseValues == {0, 1}
=============================================================================
