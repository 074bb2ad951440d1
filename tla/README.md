# minimal-loader: specifications, checks and proofs

minimal-loader is a bootloader for Haven-based security chips together with the host
tools that sign, carve and pack the images it launches. This directory holds TLA+
models of both sides, the TLC configurations that check them on small instances, and
TLAPS proofs of the safety results for all of them: the launcher, the drivers, the boot with its
register file, printf, the signer and the packing scripts.

Every model is read off the code under `src/`; where code and documents disagree the
model follows the code, and the disagreement is listed below.

Run a configuration with `tlc -config X.cfg M`; the proofs are in the modules `*Proofs`, each
checked with `tlapm M.tla`.

## 1. Inventory

| Component | Source | State it keeps | Operations | Modules |
|---|---|---|---|---|
| Launcher | `src/launch/*.c` | GLOBALSEC staging, flash, RAM-guard and permission registers; KEYMGR firmware words; VTOR; the static buffers `fuses`, `hashes` of `launch_RW` | `launch_image`, `launch_RO`, `launch_RW` and the helpers of `jump.c` | `Launch`, `LaunchContract`, `SignedHeader`, `FlashLayout`, `BootProofs` |
| SHA-256 driver | `src/sha256.c` | pointer and length left, SHA_CFG, SHA_ITOP, the engine's FIFO and digest registers | `sha256` | `Sha256`, `HashService`, `Sha256Proofs` |
| UART driver | `src/uart.c` | the port's control, FIFOs and shift register, left over from an earlier stage | `init_uart`, `uart_txchar`, `uart_rxchar` | `Uart`, `SerialLine`, `UartProofs` |
| Start-up and main | `src/init.S`, `src/main.c`, `src/setup.c` (`vectors.c`) | `.bss` over a reset, the place in `main`, three registers shared with the earlier stage | reset, `.bss` loop, `init_cpu`, `init_uart`, `main` | `Boot`, `BootBus`, `BootPromise`, `BootProofs` |
| printf | `src/printf.c` | the place in a format, width, arguments left | `vfnprintf`, `print_uint` | `Printf`, `PrintfProofs` |
| Registers, common headers | `include/haven_regdef.h`, `include/registers.h`, `include/common.h` | every register of the seven blocks the loader uses: offset, reset value, fields | `GREG32`, `GWRITE_FIELD` | `Registers`, `GlobalsecRegs`, `FuseRegs`, `PinmuxRegs`, `SystemRegs`, `M3Regs`, `RegisterMap` |
| Signer | `util/signer/image.cc`, `codesigner.cc`, `publickey.cc` | image buffer, header, hashes file, output file | options, key, ELF, fill, XML and manifest, header, sign, generate | `Signer`, `FuseManifest`, `SignerProofs` |
| Signer, gnubby | `gnubby.cc`, `aes.cc`, `ecdh.cc`, `pmjp.py` | device list, handle, lock of each device | `sign`, `doSign` up to line 388 | `Gnubby`, `SignerProofs` |
| Packer | `util/packer.sh`, `util/common/*.sh` | the output file | checks, `rm`, `truncate`, fill, four writes | `Packer`, `BlobFiles`, `PackerProofs` |
| Carver | `util/carver.sh`, `util/common/*.sh` | the output file | checks, `dd`, trimming loop | `Carver`, `BlobFiles`, `CarverProofs` |
| make_final_img | `util/make_final_img.sh` | two temporary files, the output | `mktemp`, carve twice, pack, clean up | `MakeFinal` (composes `Carver` and `Packer`), `MakeFinalProofs` |
| Build | Makefiles, linker scripts | - | - | not modelled |

**How they interact.** `reset` clears `.bss` and calls `main`, which sets the CPU and
the UART up and calls `launch_image` once. The launcher reads flash and fuse registers,
calls `sha256` three times, prints through `printf`/`uart_txchar`, writes protection
registers one by one and jumps. `main` regains control only if the launch is refused.
The host tools meet the loader in one place, the signed header: the signer writes it,
the scripts test it and move it about, `verify_SignedHeader` and the digests judge it.
`make_final_img.sh` calls the two other scripts, which share the file system with it.

**What is hard here.**

* Registers are written one at a time and a reset may come between any two; what must
  hold is that nothing takes effect before its data, and nothing privileged before the verdict.
* Static buffers and registers survive from one call to the next, and RAM survives a reset.
* Header fields are arbitrary words: every sum and difference wraps at 2^32.
* The SHA engine, the transmitter and the receiver move on their own between any two
  driver accesses.
* Registers are addressed by computed offsets, and three of them are shared with the stage
  before: a write to the wrong place does not show in the register that was meant.
* The signer numbers fuses by their order in an XML file, the loader reads them by that
  number: two programs and a chip must agree on 126 positions, of which one is asserted.
* A script's command can fail half-way and leaves its file behind; the next run starts from it.

**What makes each part correct**

* Launcher: privileges follow this call's verdict; the verdict is decided by flash and
  fuses alone; what is launched is the flash that was hashed and protected; every
  refusal carries the code of the first check that failed.
* SHA-256 driver: the engine is given exactly the message, the digest returned is of it.
* UART driver: nothing printed is lost, reordered or garbled, the earlier stage's output included.
* Boot: after each reset the image in RW_A gets control or the loader halts with a true reason;
  every register write reaches the register it is meant for and leaves the others alone.
* printf: it prints what its caller means, with each argument taken by its own conversion.
* Signer: an image that fits launches on the chips that have the manifest's fuses, and on no
  others; digest and file agree; an older output is replaced by a signed image only.
* Scripts: a section comes through carving and packing with the loader's verdict on it
  unchanged; a stopped run leaves nothing the loader launches by mistake.

`PROJECT.json` lists under "hazards" the line at which each of these can go wrong.

## 2. Plan

Order of writing, the most important behaviour first.

1. `FlashLayout`, `SignedHeader` - slots, 32 bit words, header and its check. *Done.*
2. `Launch` with the abstract `LaunchContract`, and their proofs, now the first part of `BootProofs`.
   *Done.*
3. `Sha256` with `HashService`; `Sha256Proofs`. *Done.*
4. `Uart` with `SerialLine`. *Done.*
5. `Boot` (composes `Launch`) with `BootPromise`; the register modules and `BootBus`, which
   composes the boot with the chip's register file. *Done.*
6. `BlobFiles`, `Packer`, `Carver`, `MakeFinal` (composes both). *Done.*
7. `Signer`, with `Gnubby` inside, and `FuseManifest`, with the loader's verdict on what was
   signed. *Done.*
8. `Printf`. *Done.*
9. Proofs of the rest: what the log and the staging windows say and boot
   and UART with their refinements (`BootProofs`, `UartProofs`), and the way of an image from ELF file to
   launch (`SignerProofs`). *Done.*
10. Proofs of what loops over data leave behind: the scripts (`CarverProofs`, `PackerProofs`,
    `MakeFinalProofs`), the receiving side of the UART, the register file of the boot. *Done.*

11. Proofs of `printf`, whose numbers are printed by a recursive function and whose formats are joined
    from any number of items (`PrintfProofs`). *Done.*

Every safety property of the passing runs is proved. What is left is liveness, which TLC checks, and
what section 7 lists.

## 3. Modules and code

### FlashLayout, SignedHeader

The layout of `include/flash_layout.h` as CONSTANTS with the assumptions the real values
satisfy (`FlashLayoutAssumption`: sizes positive, RO and top fit in a half, the flash
ends below 2^32). `WAdd` and `WSub` are `uint32_t` arithmetic. A slot's content is a record
of the header fields the loader reads and a `body`. A digest is the data that was hashed,
so equality of digests is equality of data: SHA-256 is taken to be collision-free, and
its first word, the only one the loader compares, to identify it. `verify_SignedHeader`
is the check in the order of the code.

### Launch

`pc` names the C function that runs, `n` the register write inside it: each volatile
write is a step. `Call` is the caller of `src/launch`, `Reset` a chip reset at any point,
with the register defaults of `haven_regdef.h` and a cleared `.bss`. `hash_region` has
three steps, one for each `sha256()` call. `launch_RO` returns after staging, as the code does.
`printf` only extends `console`, which keeps what a property is about: the verdicts
printed and the address of the jump. `guard` starts at any setting of `GuardSettings`,
since an earlier boot stage owns it.

`LaunchContract` has no registers and no buffers: a call is refused with the greatest
code among its defects (the codes of `launch.h` descend in the order of the checks, so the
first check to fail has the greatest), staged, or launched.

Registers the launcher writes are not read back by it, so
their effect on the processor is not part of the state. Flash and fuses do not change.

### Sha256

`prefix`, `blocks`, `words`, `tail` are the four loops, one store a step; a store stalls
while the FIFO has no room. The engine (`Take`, `Done`) is external: it takes bytes
whenever it likes and latches SHA_ITOP at the end of MSGLEN bytes. A byte is its
address; a digest is the sequence of addresses hashed, so an error in order, count or
alignment shows. What `HashService` promises: a call returns, with the digest of its own message.

### Uart

The driver's register accesses against a port that loads, emits and receives by itself.
`TXIDLE` reads 0 while the transmitter is off, which is why `check_uart_tx` looks at CTRL
first. `Leftovers` is what the earlier stage may leave. `sent` counts the earlier
stage's characters too if its transmitter was on. RDATA of an empty FIFO reads `Stale`.

### Boot

Adds to `Launch` the place in `reset`/`main`; `PowerReset` is the reset of the chip with
RAM kept, and `bss_loop` clears the launcher's buffers. It calls `launch_image` once, with
RW_A. The `Step` of `Launch` is used as it is. `init_cpu` and `init_uart` are one step for each
register access; the wait for the transmitter is the subject of `Uart`. The other vectors of
`vectors.c` are one empty handler.

### Registers, the register tables, BootBus

A word is the set of its bits that are 1: masks become sets, `GWRITE_FIELD` is
`field_written`, and no number exceeds what TLC computes with. The five tables give every register of
GLOBALSEC, FUSE, PINMUX, KEYMGR, PMU, UART and M3 with its offset and default, and every field with its
position, as `haven_regdef.h` lists them: one line of TLA+ for a bank of like registers.
`RegisterMapAssumption`, evaluated by TLC, is what a table must satisfy to be a table:
no register twice, fields that exist, lie in the word and do not overlap.

`BootBus` puts beside each step of `Boot` the bus write that the C code makes, at the address the
C code *computes* (`offset + region * 0xc` and the like). `bus` holds what was written since the
reset, and what differed from the defaults when it began (`FromBefore`): the stage before uses
the RAM guards and the three registers the loader reads back, DEMCR, DWT_CTRL and PERICLKSET1
(`found`). `Expected` says the same by the header's *names*: it is the union of banks of like
registers, each with the word that the launcher's variables and the steps made so far give it.
That both agree at every step is `RegistersMatch`. The tables are joined by folds, which only TLC
can compute; what the code relies on of them is stated in `LauncherRegistersAssumption` and
`SetUpRegistersAssumption`, which TLC evaluates on the tables.

### Printf

A format is a sequence of characters in memory, ending in NUL, with some other string behind
it. A step is one round of a loop of `vfnprintf`. `Meanings` is what a caller wants printed, from
which `Format` and `Arguments` follow, so that the reference `Rendered` knows nothing of
formats: it writes a number with `Numeral`, each digit the multiple of its power of the base and as
many as the least power above the number (`NeededDigits`), where `print_uint` recurses on value and
width at once. `WellMeant` says which calls a caller may make: arguments of the conversion's own
type, as many bytes behind a pointer as it says, a width that is an `int` (`Value`). An
unknown conversion takes no argument. Nothing is asked of what lies behind the format.

### BlobFiles, Packer, Carver, MakeFinal

A file is a sequence of cells; a cell is a byte of a named blob with the offset it was
signed at, or 0xff, or 0x00. What the signer wrote is `SignedAs` a blob: its cells in their
order, with 0xff for some behind the header. The checks of a script change nothing and end in `exit 1`,
so they are one step; then each command is a step that succeeds or fails (a `dd` with
any prefix written, an `rm` that keeps some), `set -e` ends the script, and a signal may end it anywhere.
`loader_verdict` is what the loader would say of a slot of the file. `MakeFinal`
instantiates `Carver` twice over (one instance, run two times) and `Packer`, on the same
`fs`; `mktemp` may fail unseen, as its status is lost in `local BLOB=$(mktemp)`.

### Signer

The steps of `main()`. A memory cell holds the flash address of the ELF byte that was put
there; the header is a record beside the cells. JSON syntax is abstracted to its
outcome; of the XML, `FuseManifest` models what `readXML()` makes of the list of its entries:
numbers by order, the end where an offset falls, the first of two entries with a name. `rx_max` gets 12
bytes of slack (`RxSlack`), sizes are rounded to 2K banks, `generate()` cannot report failure.

`FuseManifest` extends `FuseRegs`, so that the array `main()` signs for (`fuse_values`) and the
array the loader reads on a chip (`efuse_of`) are about the same 126 registers with their real
widths. `LoaderVerdict` is the loader's answer to the finished file, placed at the start of a slot.

`Gnubby` is the session a 2048 bit public key starts, an instance inside `Signer`: `sign`
hands over to it and `gnubby_result` takes its answer. Each USB device is a record (how often
it is open, claimed, locked, asked) of one of five kinds that say what may fail on it, so that
the properties can speak of the devices on which nothing failed. `doSign()` always takes
`__fail` at line 388, where `rsa` is `nullptr`: no gnubby ever signs, and PIN, token and touch
are not reached. The lock's expiry after 100 seconds is left out, as it would hide a lock
that was left behind.

## 4. Runs

States are distinct states; all runs together take about four minutes.

| Run | States | What it asks |
|---|---|---|
| `launch_sequences` | 13624 | any sequence of calls to the three entry points, resets between any two register writes, slots that hold a signed image or one wrong in a single field |
| `launch_fwr` | - | *violation*: what the header's comments say of FWR0..7 |
| `sha256` | 22623 | messages at the limits of the four loops, at every alignment, in any order, against the engine |
| `uart` | 47139 | every state the earlier stage may leave, sending and receiving at once |
| `boot` | 88788 | from reset to jump or halt over the register file: resets at any point, RAM kept, every kind of content of RW_A, and every combination of sizes and bounds on or next to a limit, 0 and the largest word included |
| `printf` | 134022 | every pair of items with words at the limits of digits and of `int`, every ending of a format, and the formats of the loader |
| `packer` | 1038 | blobs that fit, do not fit, reach past the flash, are padded or misplaced; any command fails |
| `carver` | 10078 | whole, padded, blank, overlong, truncated and foreign sections |
| `make_final` | 20007 | the composed script, firmware whole, damaged, short or absent, onto old images and inputs |
| `signer` | 26472 | ELF files of every length around the bank limits in every slot; every key, manifest and option; the shipped fuse list and wrong ones, with chips that have the fuses and chips that do not; up to three USB devices of every kind in every order |
| `signer_data` | - | *violation*: "Copy data into image" |
| `signer_padding` | - | *violation*: "--patternfill=N to pad image" |

### Properties

**launch_sequences.** `PrivilegeFollowsVerdict`: a privileged register is off
its reset value only while an RW image without a defect, genuine for this content and
these fuses, is being launched - over any history of calls. `EnabledAfterData`: enables
and locks come after what they cover. `StagedWindowsVerified`: a staging region that is on
and not being rewritten is the window of a slot whose header passed, and lies in the slot
exactly if `rx_base < rx_max`, a thing no check asks for (`jump.c:57` then yields a size of
almost 2^32; the hash, not the header check, is what stands in the way).
`ConsoleAgrees`: the log tells what happened. `ImplementsContract`: refinement of
`LaunchContract`, the right code for every refusal and, with fairness, an answer to every call.

**sha256.** `FedInOrder`, `ItopIsForThisMessage`, `ImplementsService` (refinement, with
termination).

**uart.** `NothingLost` (line, shift register and FIFO are what was sent), `BaudStable` (no
new divider under a character on its way), `HearsInOrder` (the n-th character heard is the n-th that
arrived, none is skipped, and the FIFO holds the rest), `ComesUp` (`init_uart` and
`uart_txchar` return), `ImplementsLine` (refinement: in the end everything is shown).

**boot.** `NoTornStaging`: with the one call `main` makes, a staging region never changes
while enabled - which does not hold of the launcher's interface in general.
`HaltsWithReason`: it halts only for a defect of RW_A, says which, and leaves
privileges alone. `LaunchedConfiguration`: all registers have their values when the image gets
control. `LaunchedFromHashedFlash`: the vector table of the jump was hashed and is protected.
`RegistersMatch`: the register file agrees with the launcher's view of it at every step - the
addresses `jump.c` computes are those of the registers meant, no other register of the chip is
touched, the bits the earlier stage left survive, no bit is written that a register does not
have. `ConsoleWired`: before the first character the UART has its clock, its rate and both
directions, some pad is driven by its transmitter, and the pad its receiver listens to has its
input enabled. `KeepsPromise`: launched or halted after every reset, as flash and fuses decide.

**printf.** `PrintsAsMeant`: output, number returned and arguments taken are what the caller
means. `StaysInFormat`: only a format that ends in the width of a conversion is read behind its
NUL (`printf.c:49`); no format of the loader does.

**packer.** `PackedImage`: a blob is whole exactly if it does not run into a later slot's blob;
what no blob covers is erased; the image has the flash's size unless a blob runs past its end.
`PartialImageRefused`: wherever a run stops after it has begun the image, the loader launches
an RW slot of what is left only if this run's blob is in it up to its size.

**carver.** `CarvedSection`: a run that ends well leaves the section, or what follows its header
without its trailing 0xff bytes - all of them and nothing else. `WritesPrefixes`: whatever fails,
the output is as it was or a prefix of the section. `Ends`: the trimming loop ends.

**make_final.** `VerdictPreserved`: the loader answers for each RW slot of the result
what it would have answered for the source. `OnlyOutputLeft`: whatever fails and wherever the script is
killed, no file differs from before but the output and the two temporary files; a run that succeeds
leaves none of these, and one that does not may leave both, each empty or a beginning of its section, as
the `rm` is the last command and there is no trap. `OutputTouchedWhenValid`: an older output is
touched only behind all checks and carves.

**signer.** `LoaderTakesHeader`: the unpadded image of an ELF file that lies in a slot (`LiesIn`) passes the
loader's header check there, unless its code reaches into the last 12 bytes of the slot: the slack is
added to `rx_max` all the same (`codesigner.cc:435`), the signer exits 0, and the loader refuses the
image with `LAUNCH_RX_MAX_AFTER_REGION`. `DigestOfFile`, `LoadedBytesKept`. `OutputOnlySigned`: an
older output is replaced by nothing but an image, or by a beginning of it where the write falls short,
under a header with its digest that this run signed; exit 0 does not tell the two apart.
`SignedImageLaunches`: an unpadded image that fits a slot launches there on a chip exactly if the chip
has each value of the manifest, and 0 in FW_DEFINED_DATA_EXTRA_BLK6, in the fuse at its place in the
XML (`ListedAs`). The signer checks the place of that one fuse only: of a list with two fuses exchanged
the property says which chips the image really is for, those with the values exchanged. Where the list
gives a fuse another width than the chip does, `HasValue` is about what the register reads.
Of the gnubbies: `HandlesBalanced` (one device open at a time, none closed twice or left
claimed), `NotLeftLocked` (a gnubby that answers is unlocked whatever failed),
`EveryTokenAsked` (a failing device keeps no other from being asked), `Ends` (whatever devices there are,
the signer ends, or it waits for ever for a mute gnubby to answer the lock, `Waiting`: the transfers at
`gnubby.cc:121` have no timeout; nothing else can hold it).

### Bounds, and why they are enough

* Launch: slots of 4 (RO) and 5 (RW) units, words of 0..25, so that sums and differences
  wrap within a unit or two of the slots; one fuse, two bodies. Code compares sizes and
  bounds only with each other, with the slot and with `BankSize`; `boot` takes each on
  both sides of each limit. Every register write is independent of its value, and the
  proofs lift the bound for all of its safety properties.
* Sha256: a FIFO of 6 bytes is smaller than a block and no multiple of a word, so every store
  may stall; lengths 0..71 pass each loop zero times, once and more than once. Proved for all.
* Uart: FIFOs of two, five characters sent (more than FIFO and shift register hold), two
  characters of alphabet (enough to see an exchange), two received. `MaxSent` and `MaxReceived`
  bound the histories, and are why this run may stop.
* Boot: the contents of RW_A are all of `RwVariants` and windows at the limits. The register file
  is the chip's own, every register of it. The shared registers start with every bit set but the
  loader's, so that a bit lost or a bit set too many shows.
* Printf: words of 8 bits, so that the largest has three decimal digits and a width can exceed it;
  all values at which the number of digits or the sign changes; formats of two items, since the
  state carried from one item to the next is only the place and the arguments left.
* Files: halves of 8 cells, RO of 3, RW of 4, headers of 2. The tag is the second cell, so a
  header can be torn in the middle. Blobs may be as long as a slot, longer, or reach past the flash.
* Signer: banks of 4, headers of 2, slots of 8, code of 1..6 and data of 0..2: every
  position of the last byte within a bank, in every slot. Fuses are the real 126 with their
  widths; manifests name fuses of 3, 9, 24, 5 and 32 bits. Three USB devices: one that fails,
  with one before and one behind it.

`CHECK_DEADLOCK FALSE` appears where the program ends (the scripts, the signer) or where the
histories are full (`Uart`). In the other runs a state without a successor is an error.

### Fairness

* `Launch`, `Boot`: weak fairness of the code's own steps - the processor runs on unless a
  reset stops it. Nothing is assumed of callers or resets.
* `Sha256`: the driver runs on, and the engine takes what it is given; without the second the
  poll at `sha256.c:37` could not end.
* `Uart`: the driver runs on and the transmitter sends; without the second `init_uart` and a
  full FIFO would be waited for forever. Nothing is assumed of arriving characters.
* `Carver`: the script runs on. A kill counts as an end.
* `Signer`: the program runs on, and a USB transfer ends unless the device is mute; `Ends` says what becomes of
  the session then, and does not exclude it.

## 5. Proofs

The theorems hold for every value of the constants that satisfies the named assumptions; the real
chip's values satisfy them, and TLC evaluates each of them in a run. `FlashLayoutAssumption`,
`SignedHeaderAssumption`; `LaunchAssumption` (slot contents are headers; a call for a slot does not
claim more than the slot's size); `BootAssumption` (main's call is one of the calls);
`Sha256Assumption`; `UartAssumption`; `SignerAssumption` (slots are whole banks, an ELF file has a byte
in the flash and fills a bank, no fuse of a chip holds more bits than its width,
an XML list has numbers for names, offsets and widths);
`DevicesAssumption` (the USB devices are a list of the five kinds); `BlobAssumption` (a blob has a header
of words, and its file is one the signer could write for it); `CarverAssumption` (the slot is one of the
four); `PackerAssumption` (the inputs are what the signer writes, those for RW whole, and the output is
none of the three that would be read at an offset while it is written, which would never end);
`MakeFinalAssumption` (`mktemp` makes up two new names). `PrintfAssumption` (there are as many negative
as other words; digits, '%' and '-' are characters and NUL is none; calls are `WellMeant`).
`BootBusAssumption` says what the stage before
may leave in three registers: any bits they have. `LauncherRegistersAssumption` and
`SetUpRegistersAssumption` are facts about the concrete tables of `haven_regdef.h`: that the registers
the loader writes exist, at which defaults, and with which bits.

| Theorem | Module | Property of the runs |
|---|---|---|
| `TypeCorrect` | `BootProofs` | `TypeOK` |
| `PrivilegeEarned` | `BootProofs` | `PrivilegeFollowsVerdict` |
| `DataBeforeEnable` | `BootProofs` | `EnabledAfterData` |
| `ConfiguredBeforeJump` | `BootProofs` | `LaunchedConfiguration` |
| `JumpsIntoHashedFlash` | `BootProofs` | `LaunchedFromHashedFlash` |
| `LauncherRefinesContract` | `BootProofs` | the safety part of `ImplementsContract` |
| `LogTellsTruth` | `BootProofs` | `ConsoleAgrees` |
| `StagingEarned` | `BootProofs` | `StagedWindowsVerified` |
| `FeedsTheMessage`, `ItopIsFresh` | `Sha256Proofs` | `FedInOrder`, `ItopIsForThisMessage` |
| `WordsAreAligned`, `ReturnsAtRest` | `Sha256Proofs` | - |
| `DriverImplementsService` | `Sha256Proofs` | the safety part of `ImplementsService` |
| `AllIsSent`, `BaudRateKept` | `UartProofs` | `NothingLost`, `BaudStable` |
| `RxInvariance`, `AllIsHeard` | `UartProofs` | -, `HearsInOrder` |
| `UartRefinesLine` | `UartProofs` | the safety part of `ImplementsLine` |
| `StagingNeverTorn`, `HaltsForDefect` | `BootProofs` | `NoTornStaging`, `HaltsWithReason` |
| `LoaderKeepsPromise` | `BootProofs` | the safety part of `KeepsPromise` |
| `BusInvariance`, `BusImplementsBoot` | `BootProofs` | - |
| `RegisterFileAgrees`, `ConsoleIsWired` | `BootProofs` | `RegistersMatch`, `ConsoleWired` |
| `PrintUint`, `PrintInvariant` | `PrintfProofs` | - |
| `PrintsWhatIsMeant`, `ReadsOnlyTheFormat` | `PrintfProofs` | `PrintsAsMeant`, `StaysInFormat` |
| `SignedForTheseFuses` | `SignerProofs` | - |
| `HeaderIsTaken`, `LaunchesWhereMeant` | `SignerProofs` | `LoaderTakesHeader`, `SignedImageLaunches` |
| `DigestIsOfFile`, `BytesAreKept`, `OutputIsSigned` | `SignerProofs` | `DigestOfFile`, `LoadedBytesKept`, `OutputOnlySigned` |
| `DevicesGivenBack`, `TokensUnlocked`, `AllTokensAsked` | `SignerProofs` | `HandlesBalanced`, `NotLeftLocked`, `EveryTokenAsked` |
| `CarveInvariance`, `CarvesTheSection`, `OnlyPrefixesWritten` | `CarverProofs` | -, `CarvedSection`, `WritesPrefixes` |
| `PackInvariance`, `PacksTheImage`, `PartialIsRefused` | `PackerProofs` | -, `PackedImage`, `PartialImageRefused` |
| `MakeInvariance`, `VerdictIsPreserved` | `MakeFinalProofs` | -, `VerdictPreserved` |
| `LeavesOnlyTheOutput`, `TouchedOnlyWhenValid` | `MakeFinalProofs` | `OnlyOutputLeft`, `OutputTouchedWhenValid` |

**Launch.** None of the properties is inductive: that a register has its value says nothing of
how the step that wrote it was reached. `IInv` adds `Screened` (past the entry checks the
header is known to have passed), `Hashed` (the static buffers hold this call's digests from
the moment each was computed, whatever an earlier call had left), `Closed` (outside the
commit points nothing privileged is off reset), and one conjunct for each group of
registers that says which writes have been done (`StagingProgress` ... `VtorProgress`,
all by `Past(f, after, k)`: write `k` of function `f` is behind us). Each conjunct is shown to
be preserved in a lemma of its own, with one case for each action that can disturb it.

The refinement needs that `verify_SignedHeader`, in wrapping arithmetic and in its order, gives
the greatest code of the contract's defects: lemmas `AcceptedHeader` and `RefusedHeader`.
`addr + max_size` does not wrap because a slot ends below `WordSize`; that is where the
assumption on a call's size is used.

*The log* needs two more facts on top of `IInv`: past the comparison the verdicts shown are those
of this call's digests (`VerdictsLogged`), and an address is shown exactly from the jump on
(`JumpLogged`); the entry checks never give the code of a wrong digest (`EntryCodes`).
*The staging windows* outlive the call that wrote them. `StagingKept` says of each region that,
unless a call is rewriting it, it is off or comes from a header of its kind of slot that passed;
`RoProgress` carries the half-written region of `launch_RO`. A call may claim less than the whole
slot: what passed for part of a slot passes for the slot (`GoodForSlot`).

**Boot.** `BootInv` is `IInv` with what the one caller adds: `OneCall` (the launcher runs only inside
`main`'s call, for RW_A), `Answered` (a code it came back with is the verdict on RW_A) and
`StagedOnce` (only region 1 is ever written and it is enabled last). RAM that survives a reset is
harmless because `IInv` makes no claim about the buffers of an idle launcher (`IdleKeeps`).

*The register file.* `BusInv` adds `Registered`: each bank of like registers holds what the launcher's
variables give it, the registers of `init_uart` are set as far as it has come (`UartBank`), and
whatever is in the file is a register the loader may write, with bits it has (`InTables`). A write
changes one register of one bank (`StagingWritten`, `RegionWritten` for the windows of three
interleaved banks) and leaves every other bank alone because its address lies outside the bank's
range (`Elsewhere`, `OneWrite`): this is where a stride of 8 for 12 would break the proof. A bank has
the address of a register's name, a write the address that `jump.c` computes; each function has a lemma that
they meet (`SetRunlevelWrite` ... `JumpWrite`). `VtorLate` is needed since VTOR has two writers, `reset`
and the jump; `StepRange` since the place of a step in `init_cpu` and `init_uart` decides what is
in the shared registers (`SetUpWords`), which keep all bits of the stage before. A reset gives back
the defaults, which the launcher's variables start from (`FreshRegisters`). `RegisterFileAgrees` then only has
to show that the banks are all of the loader's registers (`AllExpected`). `BusImplementsBoot` makes
everything proved of `Boot` hold of the composition.

**Sha256.** `IInv` is an account: what was fed and what the driver still counts add up to the
message (inside a block `len` lags behind by the words stored), the engine runs on this
message's length only, and SHA_ITOP stands for its digest.

**Uart.** `TxInv` is `NothingLost` with types and `TakeOver`: a transmitter that is off has sent
nothing; from the moment the FIFOs are emptied until the driver turns the transmitter on, FIFO and
shift register stay empty, so that the divider is written with nothing under way; a character is
written only to a FIFO with room.

`RxInv` is `HearsInOrder` by its parts. An answer without a character is no place in the order, so the
n-th character is found by counting (`Characters`); one more answer counts one more exactly if it
is a character, and the FIFO is the rest of the arrivals from that count on. What the proof needs
besides is that RDATA is read only behind a look that found a character, and that nobody but the driver
takes one out.

**Printf.** The library's induction theorems take an operator as a parameter, which these provers
cannot instantiate. `Induction` and `CompleteInduction` say the same of a *set* of numbers, from the
library's `NatLessThanWellFounded` and `WFMin`. A recursive function is a CHOOSE, of which nothing is
known before a solution of its equation is shown: `Recursion` puts one together out of the solutions on `0 .. n`, which agree
where both are defined. It gives the joining of sequences by its pieces (`FlattenIsUpto`, `Pieces`),
the powers of a base and the values of a width's first digits (`Partial`).

`PrintUint` is the heart: for every value, base and width, `print_uint` sends `Numeral`. Its function is
over pairs of a value and a width, so the solution is exhibited (`Numeral` satisfies the equation),
and any other agrees with it, by complete induction on value plus positive width, which a recursive
call makes smaller. That `Numeral` satisfies it needs that the number of digits exists, is
unique and grows by one with each multiplication (`NeedsSome`, `NeedsUnique`), and that dividing twice is
dividing by the product (`DivideTwice`).

`PrintInv` says that some first `j` items are printed and exactly their arguments taken, and where in
item `j + 1` the loop is: before it, behind its '%', behind `k` digits of its width, or at the switch
with the whole width in `pad_width`. `NextChar`, `Percent`, `Digits` and `Convert` show that each action
leads from one such place to another. A format that ends in a width is left out: its NUL
goes to the switch, which is what `StaysInFormat` says.

**Signer.** Two invariants, since the session and the image do not touch each other.

* `SessionInv`: while the session works on a device, that device is `handle_` and the one the loop is
  at; it is open once, claimed only behind the claim, and a good one is locked only between lock and
  unlock; every good device before it was asked. That a refused lock leads to `unlock` without a
  question does no harm, as a good device does not refuse it.
* `ImageInv`: base, high and the two maxima are those of the ELF file; from `main()`'s header
  on the header describes this image and this manifest (`Described`), from `Image::sign()` on it has
  size, fuse array and digest (`Digested`), which a signature does not change (`SignatureAdded`).

`BytesAreKept` then is arithmetic: `high_` is the last address rounded up to a bank, which is that
address itself exactly if a bank starts there (`RoundingUp`, `ImageBounds`). `HeaderIsTaken` needs that rounding
crosses no multiple of a bank (`RoundingKeeps`), so that a file that lies in its slot byte for byte lies in it
after rounding too; whether the slack fits as well is the one check left (`EndsFit`). `LaunchesWhereMeant` puts
header, digest and fuse array together, with `IdsListed`: from the header on the numbers are those of the
list, of which Blk6's was asserted, and each fuse has that of its first entry (`FirstEntry`, `ListedPlaces`). The fuse array is
`SignedForTheseFuses`: the bits above a fuse's width are padded alike by signer and chip, and the padding
hides no difference in the value (`PaddedInjective`). `OutputIsSigned` adds that nobody gets to the
writing without a key that was found, and that the signature in the header at that point is one of
this run's over it (`SignedInv`).

**Scripts.** *Carver.* Until the output is written, the section is where its header says; in the trimming
loop, the output is the section less some cells at its end, each found to be 0xff (`Trimmed`).
*Packer.* `Packing` gives the output at each command as layers of `write_blob` over the blank; `FourLayers`
reads a cell of the result as that of the last blob that covers it. That a covered blob is *not* whole
needs that two blobs one on top of the other differ somewhere: a cell knows how far it is from its
blob's beginning (`Distinct`). `PartialIsRefused` keeps less, of every intermediate file: each cell is
padding, or an input's at its place (`Placed`). The loader takes its sizes from a header cell, so the blob
it looks at is the one this run put there (`HeaderCell`, `OwnSlot`).
*make_final_img.* `MakeFinalProofs` instantiates `PackerProofs` for the packer it runs, so that the packer's
invariant is one conjunct of `MakeInv`; the carver's is stated for either of its two runs (`CarverStep`).
`TmpsLeft`: from `mktemp` on each temporary file is absent, empty or a beginning of its section, as each step of a
carver leaves a prefix (`LeftStep`), and only the `rm` is followed by `exit 0`.
`SameVerdict`: two files that agree on a slot as far as its image goes, or to the slot's end if the
image is longer, get the same verdict there; `SlotKept` says that a packed slot does agree, as the
slots are written in ascending order. The output may be the RO_A blob itself: `OverRoA` follows
the file from the `rm` on: no later command gives it an RO_A header again, so that a step which finds the
output as given and changes it is the `rm`, behind the packer's checks.

**Only model-checked:** liveness, that is, the fairness parts of the refinements and the properties
`ComesUp` and `Ends`, as ENABLED is outside the prover's reach. The runs also check everything
else, on their instances.

## 6. Where code and documents disagree

Shown by a run:

* `launch_fwr` - `set_fwr` copies six of the seven tag words and writes 0 to FWR7
  (`jump.c:125`, `:128`); `include/signed_header.h:39` and `:49` say that FWR0..6 are the tag and
  FWR7 the epoch.
* `signer_data` - `high_` is the address of the last byte, not the one behind it
  (`image.cc:191`): a last byte that is the first of a 2K bank is neither hashed nor written.
* `signer_padding` - `fillPattern` and `fillRandom` start at an offset into the image instead of
  its end (`image.cc:335`, `:344`) and overwrite any image that does not start at the base of the flash.

Built into the models, without a run of their own:

* `launch_RO` stages its region and returns `LAUNCH_SUCCESS` without a jump (`ro.c:19-22`);
  `README.md` of the repository lists RO_A and RO_B among the sections it launches.
* The packer compares no blob with its slot (`packer.sh:56`): a longer blob's end is
  overwritten by the next, and the script succeeds (`PackedImage` says exactly when).
* `--override-keyid` has no `break` and falls into `-i` with a null argument (`codesigner.cc:360`).
* `--signature` is overwritten when a private key is given (`publickey.cc:257`).
* The manifest's `timestamp` and `board_id` keys are not read (`codesigner.cc:254-262`), though
  `loader_manifest.json` asks for a value "so that current time is not used".
* The shipped manifest and the shipped XML do not go together: `p4cl` is 0 in the one, the
  default of SWDP_P4_LAST_SYNC 177 in the other, and the signer aborts (`codesigner.cc:519`). The
  Makefile passes the manifest only.
* An output of the packer that is also an input is removed before it is read
  (`packer.sh:50`); as RO_A it becomes an erased slot in an image that is reported as ready.
* Signed RO images are as long as their ELF file needs, rounded to 2K; `docs/BUILDING.md`
  says they are padded to 16 KiB.

## 7. Not modelled

* The blocks of `haven_regdef.h` that the loader never addresses (USB, RBOX, TRNG, SPS, CRYPTO
  and the rest), and `registers.h` beyond the access macros: definitions without a use in this
  program. The effect of a register on the processor is hardware.
* PIN, token, AES and ECDH of the gnubby: unreachable behind `gnubby.cc:388`; `Gnubby::open` and
  `Gnubby::write` have no caller.
* `fromIntelHex`, `randomize`: never called. `toIntelHex`: formatting.
* RSA arithmetic and XML/JSON syntax: libraries; their outcomes are inputs.
* Makefiles and linker scripts: no run-time behaviour.
* What the image does after the jump, and the boot stage before the loader other than what it
  leaves in registers.
