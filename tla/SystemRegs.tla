----------------------------- MODULE SystemRegs -----------------------------
(* KEYMGR, PMU and UART of include/haven_regdef.h. *)
EXTENDS Registers

(* KEYMGR: AES and GCM; the SHA engine; passwords and the keys' words. *)
KeymgrAes ==
    {Reg(\h0, Zero), Block(\h8, 2, Hex(\hdead, \hbeef)), Block(\h2c, 13, Zero), Reg(\h60, Lo(7)),
     Block(\h64, 3, Zero), Reg(\h70, Lo(1)), Block(\h74, 23, Zero)}
KeymgrSha ==
    {Block(\h400, 2, Zero), Block(\h408, 2, Lo(1)), Reg(\h410, Zero), Block(\h440, 23, Zero),
     Reg(\h49c, Lo(7)), Block(\h4a0, 2, Zero)}
KeymgrKeys ==
    {Block(\h4a8, 2, Hex(\haaaa, \haaaa)), Reg(\h4b0, Lo(\haaaa)), Block(\h2100, 9, Zero),
     Block(\h3000, 8, Zero), Block(\h3020, 2, Lo(1)),
     Block(\h3100, 8, Zero), Reg(\h3120, Lo(1)), Reg(\h3124, Zero), Reg(\h3128, Lo(1)),
     Block(\h3200, 8, Zero), Block(\h3220, 2, Lo(1)), Block(\h3300, 13, Zero)}
KeymgrResets == KeymgrAes \cup KeymgrSha \cup KeymgrKeys

KeymgrAesFields ==
    {Reg(\h0, Widths(<<1, 2, 2, 1, 1, 1>>)), Reg(\h60, Widths(<<1, 2>>)),
     Block(\hb4, 3, Flags(6)), Reg(\hc0, Widths(<<10, 1>>)), Block(\hc4, 3, Flags(1))}
KeymgrShaFields ==
    {Reg(\h408, {<<b, 1>> : b \in {0, 1, 3, 4, 5, 16, 17}}), Reg(\h410, Flags(4)),
     Reg(\h484, Flags(3)), Reg(\h490, Widths(<<10, 1>>)), Reg(\h494, Widths(<<6, 1, 1>>)),
     Reg(\h498, {<<0, 6>>, <<16, 6>>}), Reg(\h49c, Widths(<<1, 2>>))}
KeymgrCertFields ==
    {Block(\h4a8, 2, Widths([i \in 1 .. 16 |-> 2])), Reg(\h4b0, Widths([i \in 1 .. 8 |-> 2]))}
KeymgrHkeyFields == {Reg(\h3324, Flags(18)), Block(\h3328, 2, Flags(4))}
KeymgrFields == KeymgrAesFields \cup KeymgrShaFields \cup KeymgrCertFields \cup KeymgrHkeyFields

-----------------------------------------------------------------------------
(* PMU: resets, sleep and oscillators; clocks; what survives a sleep. *)
PmuPower ==
    {Reg(\h0, Lo(3)), Block(\h4, 4, Zero), Reg(\h14, Lo(\h1e)), Block(\h18, 4, Zero),
     Reg(\h28, Ones), Block(\h2c, 3, Zero), Reg(\h38, Lo(\hdb)), Block(\h3c, 3, Zero),
     Reg(\h48, Lo(2)), Block(\h4c, 3, Zero), Reg(\h58, Lo(1))}
PmuClocks ==
    {Block(\h5c, 2, Lo(\h7f)), Block(\h64, 2, Hex(\hff3f, \he0fb)), Block(\h6c, 2, Lo(\hff10)),
     Reg(\h74, Hex(\h800f, \hc0e1)), Reg(\h78, Lo(\hcc00)), Block(\h7c, 4, Zero), Reg(\h8c, Lo(\h1f)),
     Every(8, \h90, 2, Lo(1)), Every(8, \h94, 2, Zero)}
PmuScratchResets ==
    <<Hex(\h7020, \heceb), Hex(\h2ebe, \h9116), Hex(\h13b4, \ha4d9), Hex(\h3d2d, \hd072),
      Hex(\h13ed, \ha68b), Hex(\h295c, \h9f66), Hex(\h2a23, \hc2db), Hex(\h8ef4, \hab68),
      Hex(\h3505, \h7fa1), Hex(\h4bfc, \h60a3), Hex(\ha82, \hff9e), Hex(\h3898, \hbda0),
      Hex(\h3c64, \h367b), Hex(\h1f65, \h3095), Hex(\h21d2, \h85ad), Hex(\h2fe3, \h2196)>>
PmuScratch ==
    {Reg(\ha0 + 4 * i, PmuScratchResets[i + 1]) : i \in 0 .. 15}
        \cup {Block(\he0, 26, Zero), Reg(\h1008, Lo(3)), Reg(\h1010, Zero), Block(\h2000, 3, Zero),
              Reg(\h1fff8, Hex(\h1485, \h694d)), Reg(\h1fffc, Hex(\h2401, \h1f6d))}
PmuResets == PmuPower \cup PmuClocks \cup PmuScratch

PmuPowerFields ==
    {Reg(\h0, Flags(2)), Block(\h4, 2, Flags(1)), Reg(\hc, Flags(8)), Reg(\h14, Flags(5))}
PmuSleepFields == {Block(\h18, 2, Flags(9)), Block(\h20, 2, Flags(1)), Block(\h30, 2, Flags(3))}
PmuExitFields ==
    {Reg(\h38, Widths(<<4, 4, 3>>)), Reg(\h48, Widths(<<2, 4>>)), Block(\h4c, 3, Flags(6)),
     Reg(\h58, Flags(1))}
PmuMemclkFields == {Block(\h5c, 2, Flags(7))}
PmuPericlkset0 == {Reg(\h64, Flags(32))}
PmuPericlkclr0 == {Reg(\h68, Flags(32))}
PmuPericlk1 == {Block(\h6c, 2, Flags(16))}
PmuClkRoMask0 == {Reg(\h74, Flags(32))}
PmuClkRoMask1 == {Reg(\h78, Flags(16))}
PmuGateset0 == {Reg(\h7c, Flags(32))}
PmuGateclr0 == {Reg(\h80, Flags(32))}
PmuGate1 == {Block(\h84, 2, Flags(16))}
PmuClk0 == {Reg(\h8c, Flags(7))}
PmuRst0 == {Reg(\h94, Flags(32))}
PmuRst1 == {Reg(\h9c, Flags(21))}
PmuOthers ==
    {Reg(\h128, Flags(4)), Block(\h13c, 3, Flags(1)), Reg(\h1008, Flags(2)),
     Reg(\h1fff8, Widths(<<1, 11, 16, 4>>)), Reg(\h1fffc, Widths(<<24, 8>>))}
PmuFields ==
    PmuPowerFields \cup PmuSleepFields \cup PmuExitFields \cup PmuMemclkFields
        \cup PmuPericlkset0 \cup PmuPericlkclr0 \cup PmuPericlk1 \cup PmuClkRoMask0
        \cup PmuClkRoMask1 \cup PmuGateset0 \cup PmuGateclr0 \cup PmuGate1 \cup PmuClk0
        \cup PmuRst0 \cup PmuRst1 \cup PmuOthers

-----------------------------------------------------------------------------
(* UART: RDATA to ICTRL, STATE, STATECLR to RXTO, ITCR, ITOP. *)
UartResets ==
    {Block(\h0, 5, Zero), Reg(\h14, Lo(\h90)), Block(\h18, 8, Zero), Block(\hf00, 2, Zero)}
(* CTRL, ICTRL, STATE; the clear and interrupt registers; FIFO to ITOP. *)
UartStateFields ==
    {Reg(\hc, Flags(8)), Reg(\h10, Widths(<<1, 1, 1, 1, 1, 1, 2, 1>>)), Reg(\h14, Flags(8))}
UartIntFields == {Reg(\h18, Flags(4)), Block(\h1c, 2, Flags(7))}
UartFifoFields ==
    {Reg(\h24, Widths(<<1, 1, 3, 2>>)), Reg(\h28, Widths(<<6, 6>>)), Reg(\h2c, Flags(4)),
     Reg(\h30, Widths(<<16, 16>>)), Reg(\h34, Widths(<<1, 24>>)), Reg(\hf04, Flags(7))}
UartFields == UartStateFields \cup UartIntFields \cup UartFifoFields
=============================================================================
