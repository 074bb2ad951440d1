------------------------------- MODULE M3Regs -------------------------------
(* M3 of include/haven_regdef.h: the processor's own registers. *)
EXTENDS Registers

(* PID4..7, PID0..3, CID0..3 of a debug block. *)
ComponentId(off, part, rev) ==
    {Reg(off, Lo(4)), Block(off + 4, 3, Zero), Reg(off + 16, Lo(part)), Reg(off + 20, Lo(\hb0)),
     Reg(off + 24, Lo(rev)), Reg(off + 28, Zero), Reg(off + 32, Lo(\hd)), Reg(off + 36, Lo(\he0)),
     Reg(off + 40, Lo(5)), Reg(off + 44, Lo(\hb1))}
Itm ==
    {Block(\h0, 32, Zero), Every(64, \he00, 3, Zero), Block(\hef8, 3, Zero), Block(\hfb0, 2, Zero)}
        \cup ComponentId(\hfd0, 1, \h1b)
Dwt ==
    {Reg(\h1000, Hex(\h4000, 0)), Block(\h1004, 10, Zero)}
        \cup {Block(\h1020 + 16 * i, 3, Zero) : i \in 1 .. 3} \cup ComponentId(\h1fd0, 2, \h1b)
Fpb == {Reg(\h2000, Lo(\h260)), Block(\h2004, 9, Zero)} \cup ComponentId(\h2fd0, 3, \hb)
(* ICTR, SysTick, NVIC. *)
Nvic ==
    {Reg(\he004, Lo(7)), Reg(\he010, Lo(4)), Block(\he014, 2, Zero), Reg(\he01c, Hex(3, \hf79f))}
        \cup {Block(a, 8, Zero) : a \in {\he100, \he180, \he200, \he280, \he300, \he400}}
(* CPUID to AFSR, the MPU, the debug registers with DEMCR. *)
SystemControl ==
    {Reg(\hed00, Hex(\h412f, \hc231)), Block(\hed04, 15, Zero), Reg(\hed90, Lo(\h800)),
     Block(\hed94, 10, Zero), Block(\hedf0, 4, Zero), Reg(\hef90, Zero)}
(* TPIU and the hasher. *)
Tpiu ==
    {Reg(\h40000, Zero), Reg(\h40004, Lo(1)), Reg(\h40010, Zero), Reg(\h400f0, Lo(1)),
     Reg(\h40300, Lo(8)), Block(\h40304, 2, Zero), Every(8, \h41ee8, 4, Zero),
     Block(\h41fa0, 2, Zero), Reg(\h41fc8, Lo(\hca0)), Reg(\h41fcc, Lo(\h11)), Every(8, \haa008, 5, Zero)}
M3Resets == Itm \cup Dwt \cup Fpb \cup Nvic \cup SystemControl \cup Tpiu

-----------------------------------------------------------------------------
ItmFields ==
    {Reg(\he80, Flags(5) \cup {<<8, 2>>, <<16, 7>>, <<23, 1>>}), Reg(\hfb4, Flags(3))}
DwtCtrlFields ==
    {Reg(\h1000, {<<0, 1>>, <<1, 4>>, <<5, 4>>, <<9, 1>>, <<10, 2>>, <<12, 1>>, <<28, 4>>}
                     \cup {<<b, 1>> : b \in 16 .. 22})}
FunctionFields == {<<0, 4>>, <<5, 1>>, <<9, 1>>, <<10, 2>>, <<24, 1>>}
DwtFunctionFields ==
    {Reg(\h1028, FunctionFields \cup {<<7, 1>>}),
     Reg(\h1038, FunctionFields \cup {<<8, 1>>, <<12, 4>>, <<16, 4>>}),
     Every(16, \h1048, 2, FunctionFields)}
FpbFields ==
    {Reg(\h2000, {<<0, 1>>, <<1, 1>>, <<4, 4>>, <<8, 4>>, <<12, 2>>}), Reg(\h2004, {<<5, 24>>}),
     Block(\h2008, 8, {<<0, 1>>, <<2, 27>>, <<30, 2>>})}
SysTickFields ==
    {Reg(\he004, Widths(<<4>>)), Reg(\he010, Flags(3) \cup {<<16, 1>>}), Reg(\he014, Widths(<<24>>)),
     Reg(\he018, Widths(<<32>>)), Reg(\he01c, {<<0, 24>>, <<30, 1>>, <<31, 1>>})}
SystemControlFields ==
    {Reg(\hed00, Widths(<<4, 12, 4, 4, 8>>)),
     Reg(\hed04, {<<0, 9>>, <<11, 1>>, <<12, 10>>}
                     \cup {<<b, 1>> : b \in {22, 23, 25, 26, 27, 28, 31}}),
     Reg(\hed10, {<<b, 1>> : b \in {1, 2, 4}}), Reg(\hed14, {<<b, 1>> : b \in {0, 1, 3, 4, 8, 9}})}
DemcrFields == {Reg(\hedfc, {<<b, 1>> : b \in {0, 4, 5, 6, 7, 8, 9, 10, 16, 17, 18, 19, 24}})}
M3Fields ==
    ItmFields \cup DwtCtrlFields \cup DwtFunctionFields \cup FpbFields \cup SysTickFields
        \cup SystemControlFields \cup DemcrFields
=============================================================================
