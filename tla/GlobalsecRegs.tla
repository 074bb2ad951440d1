---------------------------- MODULE GlobalsecRegs ----------------------------
(* GLOBALSEC of include/haven_regdef.h: the regions, permissions and alerts. *)
EXTENDS Registers

(* A bus master's regions: a base and a size register each. *)
Windows(off, count, size) == Every(8, off, count, Zero) @@ Every(8, off + 4, count, size)

(* CPU0_D, CPU0_D_DAP, CPU0_I, DDMA0, DSPS0, DUSB0: REGIONx_CTRL, _CTRL_CFG_EN. *)
MasterRegions ==
    {Block(\h0, 8, Lo(7)), Block(\h20, 8, Lo(1)), Block(\h40, 4, Lo(7)), Block(\h50, 4, Lo(1)),
     Block(\h60, 8, Zero), Block(\h80, 4, Zero), Block(\h90, 4, Lo(1)),
     Block(\ha0, 4, Zero), Block(\hb0, 4, Lo(1)), Block(\hc0, 4, Zero), Block(\hd0, 4, Lo(1))}
(* FLASH_REGIONx, FLASHx_BULKERASE. *)
FlashRegions ==
    {Block(\he0, 8, Zero), Block(\h100, 8, Lo(1)),
     Every(8, \h120, 2, Lo(1)), Every(8, \h124, 2, Zero)}
(* The masters' windows, in the same order. *)
MasterWindows ==
    {Windows(\h130, 8, Ones), Windows(\h170, 4, Ones), Windows(\h190, 8, Ones),
     Windows(\h1d0, 4, Ones), Windows(\h1f0, 4, Ones), Windows(\h210, 4, Ones)}
FlashWindows == {Windows(\h230, 8, Zero)}
(* CPU0_I_STAGING_REGIONx: ctrl, base, size, region after region. *)
StagingRegions == {Every(12, \h270, 8, Zero), Every(12, \h274, 8, Zero), Every(12, \h278, 8, Zero)}
(* CPU0_S, CPU0_S_DAP, DDMA0_PERMISSION, SOFTWARE_LVL. *)
Permissions == {Block(\h2d0, 4, Lo(\h55))}
(* Alerts, error histories, RAM parity, keys. *)
Alerts ==
    {Reg(\h1000, Zero), Block(\h1004, 8, Hex(\hface, \hcafe)), Block(\h1024, 2, Zero),
     Reg(\h102c, Lo(1)), Reg(\h4000, Lo(\haa)), Block(\h4004, 19, Zero),
     Block(\h4050, 3, Lo(\h64)), Block(\h405c, 4, Zero), Block(\h406c, 3, Lo(\hffff)),
     Block(\h4078, 23, Zero), Reg(\h40d4, Lo(\h2f)), Reg(\h40d8, Zero),
     Reg(\h40dc, Hex(\h5901, \h0913)),
     Reg(\h9598, Zero), Reg(\ha6d0, Zero), Reg(\haf04, Zero), Reg(\hb2ac, Zero)}

GlobalsecResets ==
    MasterRegions \cup FlashRegions \cup MasterWindows \cup FlashWindows
        \cup StagingRegions \cup Permissions \cup Alerts

-----------------------------------------------------------------------------
(* Fields: EN, RD_EN, WR_EN of the regions. *)
RegionD == {Block(\h0, 8, Flags(3))}
RegionDap == {Block(\h40, 4, Flags(3))}
RegionI == {Block(\h60, 8, Flags(3))}
RegionDma == {Block(\h80, 4, Flags(3))}
RegionSpsUsb == {Block(\ha0, 4, Flags(3)), Block(\hc0, 4, Flags(3))}
RegionFlash == {Block(\he0, 8, Flags(3))}
RegionStaging == {Every(12, \h270, 8, Flags(3))}
Errors == {Reg(\h1000, Flags(1)), Reg(\h1028, {<<24, 1>>})}
(* The 44 alerts, one flag each, in two words for each use made of them. *)
AlertFlags(off) == {Reg(off, Flags(32)), Reg(off + 4, Flags(12))}
AlertIntrSts == AlertFlags(\h4004)
AlertNmiEn == AlertFlags(\h400c)
AlertGroupaEn == AlertFlags(\h4014)
AlertGroupbEn == AlertFlags(\h401c)
AlertGroupcEn == AlertFlags(\h4024)
AlertDlyctr0En == AlertFlags(\h402c)
AlertDlyctr1En == AlertFlags(\h4034)
AlertDlyctr2En == AlertFlags(\h403c)
AlertControl ==
    {Reg(\h405c, Flags(22)), Reg(\h40d4, Widths(<<2, 2, 1, 1, 1, 3>>)),
     Reg(\h40dc, Widths(<<24, 8>>))}

GlobalsecFields ==
    RegionD \cup RegionDap \cup RegionI \cup RegionDma \cup RegionSpsUsb \cup RegionFlash
        \cup RegionStaging \cup Errors \cup AlertIntrSts \cup AlertNmiEn \cup AlertGroupaEn
        \cup AlertGroupbEn \cup AlertGroupcEn \cup AlertDlyctr0En \cup AlertDlyctr1En
        \cup AlertDlyctr2En \cup AlertControl
=============================================================================
