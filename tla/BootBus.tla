------------------------------- MODULE BootBus -------------------------------
(***************************************************************************)
(* The boot composed with the chip's register file.  Every write of init.S,  *)
(* setup.c, uart.c and jump.c to a register that configures or protects is a  *)
(* write on the bus to the address the C code computes, beside the step of    *)
(* Boot that stands for it; where the code reads such a register to write it  *)
(* back, so does the write.  The data that passes through the ports of the    *)
(* UART (WDATA) and of the SHA engine is quiet here: Uart and Sha256 have it. *)
(***************************************************************************)
EXTENDS Boot, RegisterMap

CONSTANTS
    VectorsAt,     \* the address of the loader's own vector table
    Leftovers      \* what the stage before may leave in the registers in Shared

Shared == {<<"PMU", \h6c>>, <<"M3", \hedfc>>, <<"M3", \h1000>>}

ASSUME BootBusAssumption ==
    /\ VectorsAt \in Word \ {0}
    /\ \A w \in Leftovers : DOMAIN w = Shared /\ \A a \in Shared : w[a] \subseteq Implemented(a)

VARIABLES
    bus,           \* what was written since the reset: address -> word
    found          \* what the stage before had left in the registers in Shared
busvars == <<bootvars, bus, found>>

Read(a) == IF a \in DOMAIN bus THEN bus[a] ELSE AtReset(a)
Put(a, word) == bus' = [x \in {a} \cup DOMAIN bus |-> IF x = a THEN word ELSE bus[x]]
Quiet == UNCHANGED bus

(* What is not at its default when reset is reached: what the stage before   *)
(* left in the registers in Shared, and its settings of the RAM guards.      *)
GuardsAt == {<<"GLOBALSEC", 4 * r>> : r \in 0 .. 2}
FromBefore(left, g) ==
    [a \in Shared \cup GuardsAt |-> IF a \in Shared THEN left[a] ELSE Lo(g[a[2] \div 4])]

-----------------------------------------------------------------------------
(* init.S; setup.c; init_uart() of uart.c. *)
reset_bus == IF k = 0 THEN Put(<<"M3", \hed08>>, Lo(VectorsAt)) ELSE Quiet

(* Mutant: a plain write for GWRITE_FIELD. *)
init_cpu_bus_plain ==
    IF k = 0 THEN Put(<<"M3", \hedfc>>, Shifted(Lo(1), <<24, 1>>))
    ELSE Put(<<"M3", \h1000>>, field_written(Read(<<"M3", \h1000>>), <<0, 1>>, Lo(1)))

init_cpu_bus ==
    LET a == IF k = 0 THEN <<"M3", \hedfc>> ELSE <<"M3", \h1000>>
        f == IF k = 0 THEN <<24, 1>> ELSE <<0, 1>>
    IN  Put(a, field_written(Read(a), f, Lo(1)))

UartWrite == [i \in 2 .. 7 |->
    CASE i = 2 -> <<"PINMUX", \h28, 70>> [] i = 3 -> <<"PINMUX", \h208, 12>>
      [] i = 4 -> <<"PINMUX", \h94, 6>> [] i = 5 -> <<"UART", \h24, 3>>
      [] i = 6 -> <<"UART", \h8, \h13a9>> [] i = 7 -> <<"UART", \hc, 3>>]

(* Mutant: the pad's own CTL register is taken for the one before it. *)
init_uart_bus_pad ==
    \/ k = 0 /\ Put(<<"PMU", \h6c>>, Read(<<"PMU", \h6c>>) \cup Lo(32))
    \/ k = 1 /\ Quiet
    \/ k = 4 /\ Put(<<"PINMUX", \h8c>>, Lo(6))
    \/ k \notin {0, 1, 4} /\ LET w == UartWrite[k] IN Put(<<w[1], w[2]>>, Lo(w[3]))

init_uart_bus ==
    \/ k = 0 /\ Put(<<"PMU", \h6c>>, Read(<<"PMU", \h6c>>) \cup Lo(32))
    \/ k = 1 /\ Quiet
    \/ k > 1 /\ LET w == UartWrite[k] IN Put(<<w[1], w[2]>>, Lo(w[3]))

-----------------------------------------------------------------------------
(* jump.c: the address of write n of each function; the word is what the     *)
(* step of Launch gives the register.                                        *)
(* Mutant: eight bytes a region, as for the flash regions. *)
stage_rx_region_bus_stride(r) ==
    LET offset == \h270 + r * \h8 IN
    \/ n = 0 /\ Put(<<"GLOBALSEC", offset + 4>>, Lo(staging'[r].base))
    \/ n = 1 /\ Put(<<"GLOBALSEC", offset + 8>>, Lo(staging'[r].size))
    \/ n = 2 /\ Put(<<"GLOBALSEC", offset>>, Lo(staging'[r].ctrl))

stage_rx_region_bus(r) ==
    LET offset == \h270 + r * \hc IN
    \/ n = 0 /\ Put(<<"GLOBALSEC", offset + 4>>, Lo(staging'[r].base))
    \/ n = 1 /\ Put(<<"GLOBALSEC", offset + 8>>, Lo(staging'[r].size))
    \/ n = 2 /\ Put(<<"GLOBALSEC", offset>>, Lo(staging'[r].ctrl))

set_runlevel_bus ==
    LET to == <<\h2d0, \h2d4, \h2d8, \h2dc>> IN
    Put(<<"GLOBALSEC", to[n + 1]>>, Lo(perm'[n]))

set_fwr_bus ==
    \/ n < 6 /\ Put(<<"KEYMGR", \h3100 + 4 * n>>, Lo(fwr'[n]))
    \/ n = 6 /\ Put(<<"KEYMGR", \h311c>>, Lo(fwr'[7]))
    \/ n = 7 /\ Put(<<"KEYMGR", \h3124>>, Lo(keymgr'.major))
    \/ n = 8 /\ Put(<<"KEYMGR", \h3120>>, Lo(keymgr'.vld))
    \/ n = 9 /\ Put(<<"KEYMGR", \h3128>>, Lo(keymgr'.lock))

protect_flash_region_bus ==
    LET ctrl_offset == \he0 + 1 * 4
        base_offset == \h230 + 1 * 8
    IN  \/ n = 0 /\ Put(<<"GLOBALSEC", base_offset>>, Lo(region'[1].base))
        \/ n = 1 /\ Put(<<"GLOBALSEC", base_offset + 4>>, Lo(region'[1].size))
        \/ n = 2 /\ Put(<<"GLOBALSEC", ctrl_offset>>, Lo(region'[1].ctrl))

disarm_ram_guards_bus == Put(<<"GLOBALSEC", \h0 + 4 * n>>, Lo(guard'[n]))

_jump_to_address_bus == IF n = 0 THEN Put(<<"M3", \hed08>>, Lo(vtor')) ELSE Quiet

launch_bus ==
    CASE pc = "stage_ro_region" -> stage_rx_region_bus(0)
      [] pc = "stage_rw_region" -> stage_rx_region_bus(1)
      [] pc = "set_runlevel" -> set_runlevel_bus
      [] pc = "set_fwr" -> set_fwr_bus
      [] pc = "protect_flash_region" -> protect_flash_region_bus
      [] pc = "disarm_ram_guards" -> disarm_ram_guards_bus
      [] pc = "_jump_to_address" -> _jump_to_address_bus
      [] OTHER -> Quiet

-----------------------------------------------------------------------------
BusInit == BootInit /\ found \in Leftovers /\ bus = FromBefore(found, guard)

BusMain ==
    \/ bss_loop /\ reset_bus /\ UNCHANGED found
    \/ init_cpu /\ init_cpu_bus /\ UNCHANGED found
    \/ init_uart /\ init_uart_bus /\ UNCHANGED found
    \/ (banner \/ main_launch \/ main_return) /\ Quiet /\ UNCHANGED found
    \/ launch /\ launch_bus /\ UNCHANGED found

(* Every register at its default, but for those the stage before uses. *)
BusReset == PowerReset /\ found' \in Leftovers /\ bus' = FromBefore(found', guard')

BusNext == BusMain \/ BusReset
BusSpec == BusInit /\ [][BusNext]_busvars /\ WF_busvars(BusMain)

-----------------------------------------------------------------------------
(* Properties.                                                               *)

(* Step i of place p of the boot has been made. *)
Rank == [reset |-> 1, init_cpu |-> 2, init_uart |-> 3, banner |-> 4, launch |-> 5,
         called |-> 6, wfi |-> 7]
Done(p, i) == Rank[at] > Rank[p] \/ (at = p /\ k > i)

(* The registers by the names haven_regdef.h gives them, each with the word  *)
(* that the launcher's variables and the steps done give it: like registers  *)
(* step apart; the windows with their controls; all but the RAM guards, VTOR *)
(* and the shared ones.                                                      *)
Bank(module, off, step, words) ==
    {<<<<module, off + step * i>>, Lo(words[i])>> : i \in DOMAIN words}
WindowBanks(w, ctrl, ctrl_step, base, size, step) ==
    Bank("GLOBALSEC", ctrl, ctrl_step, [r \in 0 .. 7 |-> w[r].ctrl])
        \cup Bank("GLOBALSEC", base, step, [r \in 0 .. 7 |-> w[r].base])
        \cup Bank("GLOBALSEC", size, step, [r \in 0 .. 7 |-> w[r].size])
StagingBanks(w) == WindowBanks(w, \h270, 12, \h274, \h278, 12)
RegionBanks(w) == WindowBanks(w, \he0, 4, \h230, \h234, 8)
PermBank(w) == Bank("GLOBALSEC", \h2d0, 4, w)
FwrBank(w) == Bank("KEYMGR", \h3100, 4, w)
GuardBank(w) == Bank("GLOBALSEC", 0, 4, w)
KeymgrBank(w) ==
    {<<<<"KEYMGR", \h3120>>, Lo(w.vld)>>, <<<<"KEYMGR", \h3124>>, Lo(w.major)>>,
     <<<<"KEYMGR", \h3128>>, Lo(w.lock)>>}
VtorBank ==
    {<<<<"M3", \hed08>>,
       IF vtor # 0 THEN Lo(vtor) ELSE IF Done("reset", 0) THEN Lo(VectorsAt) ELSE Zero>>}
SetUpBank ==
    {<<<<"M3", \hedfc>>, found[<<"M3", \hedfc>>] \cup (IF Done("init_cpu", 0) THEN {24} ELSE {})>>,
     <<<<"M3", \h1000>>, found[<<"M3", \h1000>>] \cup (IF Done("init_cpu", 1) THEN {0} ELSE {})>>,
     <<<<"PMU", \h6c>>, found[<<"PMU", \h6c>>] \cup (IF Done("init_uart", 0) THEN {5} ELSE {})>>}
Expected ==
    StagingBanks(staging) \cup RegionBanks(region) \cup PermBank(perm) \cup FwrBank(fwr)
        \cup KeymgrBank(keymgr) \cup GuardBank(guard) \cup VtorBank \cup SetUpBank
UartSetUp == {<<UartWrite[i][1], UartWrite[i][2]>> : i \in 2 .. 7}

(* The registers the launcher writes, at the defaults its variables start     *)
(* from; the controls among them have three bits or more, the others 32.     *)
LauncherDefaults ==
    StagingBanks(NoStaging) \cup RegionBanks(NoRegion) \cup PermBank(ResetPerm)
        \cup FwrBank(ResetFwr) \cup KeymgrBank(ResetKeymgr)
Controls ==
    {<<"GLOBALSEC", \h270 + 12 * r>> : r \in 0 .. 7}
    \cup {<<"GLOBALSEC", \he0 + 4 * r>> : r \in 0 .. 7}
VtorAt == <<"M3", \hed08>>

ASSUME LauncherRegistersAssumption ==
    /\ \A e \in LauncherDefaults : Exists(e[1]) /\ AtReset(e[1]) = e[2]
    /\ \A e \in LauncherDefaults : e[1] \in Controls \/ Implemented(e[1]) = Bit
    /\ \A a \in Controls \cup GuardsAt : Exists(a) /\ {0, 1, 2} \subseteq Implemented(a)
    /\ Exists(VtorAt) /\ AtReset(VtorAt) = Zero /\ Implemented(VtorAt) = Bit
    /\ \A v \in 0 .. 7 : Lo(v) \subseteq {0, 1, 2}

(* The same for the registers that init_cpu() and init_uart() set, and what   *)
(* the numbers they write make of the console.                               *)
ASSUME SetUpRegistersAssumption ==
    /\ \A a \in Shared \cup UartSetUp : Exists(a)
    /\ 24 \in Implemented(<<"M3", \hedfc>>) /\ 0 \in Implemented(<<"M3", \h1000>>)
    /\ 5 \in Implemented(<<"PMU", \h6c>>)
    /\ \A i \in 2 .. 7 :
          Lo(UartWrite[i][3]) \subseteq Implemented(<<UartWrite[i][1], UartWrite[i][2]>>)
    /\ Lo(1) = {0} /\ Lo(32) = {5} /\ {0, 1} \subseteq Lo(3) /\ 2 \in Lo(6) /\ Lo(\h13a9) # Zero

(* The register file agrees with the launcher at every step: the addresses   *)
(* jump.c computes are those of the registers meant, no other register of    *)
(* the chip is touched, what is shared with the stage before keeps its other *)
(* bits, and no bit is written that a register does not have.                *)
RegistersMatch ==
    LET expected == Expected
        known == {e[1] : e \in expected} \cup UartSetUp
    IN  /\ \A e \in expected : Read(e[1]) = e[2]
        /\ \A a \in DOMAIN bus : a \in known /\ Exists(a) /\ bus[a] \subseteq Implemented(a)

(* Nothing is printed before the console is there: the UART has its clock    *)
(* and both directions on, a pad is driven by its transmitter, and the pad   *)
(* its receiver listens to has its input on (init_uart, main).               *)
Pad(bank, i) == <<"PINMUX", PadSel[bank] + 8 * i>>
ConsoleWired ==
    Rank[at] >= Rank["banner"] =>
        /\ 5 \in Read(<<"PMU", \h6c>>)
        /\ {0, 1} \subseteq Read(<<"UART", \hc>>) /\ Read(<<"UART", \h8>>) # Zero
        /\ \E i \in 0 .. 14 : Read(Pad("DIOA", i)) = Lo(SignalCode[\h20c])
        /\ \E i \in 0 .. 14 :
              /\ Read(<<"PINMUX", \h208>>) = Lo(PadCode.DIOA[i])
              /\ 2 \in Read(<<"PINMUX", PadSel.DIOA + 8 * i + 4>>)
=============================================================================
