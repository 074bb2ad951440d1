-------------------------------- MODULE Uart --------------------------------
(***************************************************************************)
(* src/uart.c and the UART it drives: init_uart() takes the port over from  *)
(* the boot stage before, which may still be transmitting, uart_txchar()    *)
(* waits for room in the transmit FIFO and uart_rxchar() polls the receiver. *)
(*                                                                           *)
(* The UART is not part of the repository.  It moves while the driver does:  *)
(* the transmitter takes characters from its FIFO into a shift register and  *)
(* puts them on the line, characters arrive at any time.  STATE.TXIDLE reads *)
(* 0 while the transmitter is off (GC_UART_STATE_DEFAULT), FIFO = 3 empties  *)
(* both FIFOs, a character written to a full FIFO is lost, as is one that   *)
(* arrives at a full FIFO.                                                    *)
(***************************************************************************)
EXTENDS Integers, Sequences, FiniteSets

CONSTANTS
    Char,           \* characters
    FifoSize,       \* capacity of the transmit and of the receive FIFO
    Leftovers,      \* what an earlier stage may leave: [clock, txen, rxen, shift, tx, rx]
    NoChar,         \* uart_rxchar()'s -1
    Stale,          \* what RDATA reads while the receive FIFO is empty
    MaxSent,        \* bound: characters sent in a run
    MaxReceived     \* bound: characters received in a run

ASSUME UartAssumption ==
    /\ FifoSize \in Nat \ {0} /\ MaxSent \in Nat /\ MaxReceived \in Nat
    /\ NoChar \notin Char /\ Stale \notin Char \cup {NoChar}
    /\ \A l \in Leftovers :
          /\ l.shift \in Seq(Char) /\ Len(l.shift) <= 1
          /\ {l.tx, l.rx} \subseteq Seq(Char)
          /\ Len(l.tx) <= FifoSize /\ Len(l.rx) <= FifoSize
          /\ {l.clock, l.txen, l.rxen} \subseteq BOOLEAN
          /\ ~l.txen => l.shift = <<>>

VARIABLES
    pc,        \* the driver's place
    ch,        \* the argument of uart_txchar()
    clock,     \* PMU PERICLKSET1, bit 5
    txen, rxen,\* UART CTRL, bits 0 and 1
    nco,       \* UART NCO: set by "earlier" or by the "loader"
    txfifo, rxfifo,
    shift,     \* the character being transmitted: a sequence of at most one
    line,      \* what went over the line
    sent,      \* what this and the earlier stage sent
    arrived,   \* what was received since init_uart() emptied the FIFO
    got        \* what uart_rxchar() returned

driver == <<pc, ch>>
port == <<clock, txen, rxen, nco>>
transmitter == <<txfifo, shift, line>>
receiver == <<rxfifo, arrived>>
vars == <<driver, port, transmitter, receiver, sent, got>>

Init ==
    /\ pc = "clock" /\ ch = NoChar /\ nco = "earlier"
    /\ \E l \in Leftovers :
          /\ clock = l.clock /\ txen = l.txen /\ rxen = l.rxen
          /\ shift = l.shift /\ txfifo = l.tx /\ rxfifo = l.rx
          /\ sent = IF l.txen THEN l.shift \o l.tx ELSE <<>>
    /\ line = <<>> /\ arrived = <<>> /\ got = <<>>

(* UART STATE. *)
TxFull == Len(txfifo) = FifoSize
TxEmpty == txfifo = <<>>
TxIdle == txen /\ shift = <<>>
RxEmpty == rxfifo = <<>>

Goto(to) == pc' = to /\ UNCHANGED ch

-----------------------------------------------------------------------------
(* init_uart(). *)
set_clock ==
    /\ pc = "clock" /\ clock' = TRUE
    /\ Goto("check_ctrl")
    /\ UNCHANGED <<txen, rxen, nco, transmitter, receiver, sent, got>>

(* Mutants: the transmitter is not waited for; STATE decides also  *)
(* when the transmitter is off; an empty FIFO is taken for an idle one.      *)
check_uart_tx_skipped ==
    /\ pc = "check_ctrl" /\ Goto("fifo")
    /\ UNCHANGED <<port, transmitter, receiver, sent, got>>
check_uart_tx_state_only ==
    /\ \/ pc = "check_ctrl" /\ Goto("check_state")
       \/ pc = "check_state" /\ Goto(IF TxEmpty /\ TxIdle THEN "fifo" ELSE "check_ctrl")
    /\ UNCHANGED <<port, transmitter, receiver, sent, got>>
check_uart_tx_empty_only ==
    /\ \/ pc = "check_ctrl" /\ Goto(IF txen THEN "check_state" ELSE "fifo")
       \/ pc = "check_state" /\ Goto(IF TxEmpty THEN "fifo" ELSE "check_ctrl")
    /\ UNCHANGED <<port, transmitter, receiver, sent, got>>

(* do i = check_uart_tx(); while (!i): it reads CTRL, then STATE. *)
check_uart_tx ==
    /\ \/ pc = "check_ctrl" /\ Goto(IF txen THEN "check_state" ELSE "fifo")
       \/ pc = "check_state" /\ Goto(IF TxEmpty /\ TxIdle THEN "fifo" ELSE "check_ctrl")
    /\ UNCHANGED <<port, transmitter, receiver, sent, got>>

(* Mutant: FIFO = 2. *)
reset_fifos_tx_only ==
    /\ pc = "fifo"
    /\ txfifo' = <<>>
    /\ Goto("nco")
    /\ UNCHANGED <<port, shift, line, rxfifo, arrived, sent, got>>

(* The pins are routed, FIFO = 3. *)
reset_fifos ==
    /\ pc = "fifo"
    /\ txfifo' = <<>> /\ rxfifo' = <<>>
    /\ Goto("nco")
    /\ UNCHANGED <<port, shift, line, arrived, sent, got>>

set_nco ==
    /\ pc = "nco" /\ nco' = "loader"
    /\ Goto("ctrl")
    /\ UNCHANGED <<clock, txen, rxen, transmitter, receiver, sent, got>>

set_ctrl ==
    /\ pc = "ctrl" /\ txen' = TRUE /\ rxen' = TRUE
    /\ Goto("up")
    /\ UNCHANGED <<clock, nco, transmitter, receiver, sent, got>>

init_uart == set_clock \/ check_uart_tx \/ reset_fifos \/ set_nco \/ set_ctrl

-----------------------------------------------------------------------------
(* uart_txchar(c): a character is sent once WDATA is written. *)
call_txchar(c) ==
    /\ pc = "up" /\ Len(sent) < MaxSent
    /\ pc' = "tx_ready" /\ ch' = c
    /\ UNCHANGED <<port, transmitter, receiver, sent, got>>

(* Mutant: the FIFO is not asked whether it has room. *)
uart_tx_ready_always ==
    /\ pc = "tx_ready"
    /\ Goto("tx_write")
    /\ UNCHANGED <<port, transmitter, receiver, sent, got>>

(* while (!uart_tx_ready()); *)
uart_tx_ready ==
    /\ pc = "tx_ready" /\ ~TxFull
    /\ Goto("tx_write")
    /\ UNCHANGED <<port, transmitter, receiver, sent, got>>

write_wdata ==
    /\ pc = "tx_write"
    /\ sent' = Append(sent, ch)
    /\ txfifo' = IF TxFull THEN txfifo ELSE Append(txfifo, ch)
    /\ Goto("up")
    /\ UNCHANGED <<port, shift, line, receiver, got>>

(* Mutant: the test of RXEMPTY the wrong way round. *)
uart_rx_available_inverted ==
    /\ pc = "up" /\ Len(got) < MaxReceived
    /\ IF ~RxEmpty THEN got' = Append(got, NoChar) /\ UNCHANGED driver
       ELSE Goto("rx_read") /\ UNCHANGED got
    /\ UNCHANGED <<port, transmitter, receiver, sent>>

(* uart_rxchar(): -1 unless a character is available. *)
uart_rx_available ==
    /\ pc = "up" /\ Len(got) < MaxReceived
    /\ IF RxEmpty THEN got' = Append(got, NoChar) /\ UNCHANGED driver
       ELSE Goto("rx_read") /\ UNCHANGED got
    /\ UNCHANGED <<port, transmitter, receiver, sent>>

(* Mutant: RDATA is read a second time. *)
read_rdata_twice ==
    /\ pc = "rx_read"
    /\ got' = Append(got, Head(rxfifo))
    /\ rxfifo' = IF Len(rxfifo) > 1 THEN Tail(Tail(rxfifo)) ELSE <<>>
    /\ Goto("up")
    /\ UNCHANGED <<port, transmitter, arrived, sent>>

read_rdata ==
    /\ pc = "rx_read"
    /\ got' = Append(got, IF RxEmpty THEN Stale ELSE Head(rxfifo))
    /\ rxfifo' = IF RxEmpty THEN rxfifo ELSE Tail(rxfifo)
    /\ Goto("up")
    /\ UNCHANGED <<port, transmitter, arrived, sent>>

(* The driver carries on with what it has begun. *)
Driver == init_uart \/ uart_tx_ready \/ write_wdata \/ read_rdata
Caller == uart_rx_available \/ \E c \in Char : call_txchar(c)

-----------------------------------------------------------------------------
(* The UART. *)
Load ==
    /\ clock /\ txen /\ shift = <<>> /\ txfifo # <<>>
    /\ shift' = <<Head(txfifo)>> /\ txfifo' = Tail(txfifo)
    /\ UNCHANGED <<driver, port, line, receiver, sent, got>>

Emit ==
    /\ clock /\ shift # <<>>
    /\ line' = line \o shift /\ shift' = <<>>
    /\ UNCHANGED <<driver, port, txfifo, receiver, sent, got>>

Taken == pc \notin {"clock", "check_ctrl", "check_state", "fifo"}

Arrive(c) ==
    /\ clock /\ rxen /\ Len(arrived) < MaxReceived
    /\ Len(rxfifo) < FifoSize
    /\ rxfifo' = Append(rxfifo, c)
    /\ arrived' = IF Taken THEN Append(arrived, c) ELSE arrived
    /\ UNCHANGED <<driver, port, transmitter, sent, got>>

Transmit == Load \/ Emit
Next == Driver \/ Caller \/ Transmit \/ \E c \in Char : Arrive(c)

Spec == Init /\ [][Next]_vars

(* The processor runs on, and the transmitter works off what it is given.    *)
FairSpec == Spec /\ WF_vars(Driver) /\ WF_vars(Transmit)

-----------------------------------------------------------------------------
(* Properties.                                                               *)

Places == {"clock", "check_ctrl", "check_state", "fifo", "nco", "ctrl", "up",
           "tx_ready", "tx_write", "rx_read"}

(* Registers, FIFOs and histories hold values of their types. *)
TypeOK ==
    /\ pc \in Places /\ ch \in Char \cup {NoChar}
    /\ {clock, txen, rxen} \subseteq BOOLEAN
    /\ nco \in {"earlier", "loader"}
    /\ {txfifo, rxfifo, shift, line, sent, arrived} \subseteq Seq(Char)
    /\ Len(txfifo) <= FifoSize /\ Len(rxfifo) <= FifoSize /\ Len(shift) <= 1
    /\ got \in Seq(Char \cup {NoChar})

(* Nothing that was sent is lost, repeated or reordered, and nothing else is *)
(* transmitted: not what an earlier stage was still transmitting when        *)
(* init_uart() emptied the FIFO, not a character sent to a full FIFO; and    *)
(* what a disabled transmitter had left in its FIFO never comes out.         *)
NothingLost == txen => line \o shift \o txfifo = sent

(* The baud rate does not change under a character that is being sent.       *)
BaudStable == [][nco' # nco => shift = <<>>]_vars

(* uart_rxchar() returns what arrived, in order, skipping nothing and        *)
(* reading nothing from an empty FIFO: the n-th character among its answers  *)
(* is the n-th that arrived, the FIFO holds the rest; what arrived before    *)
(* init_uart() took the port over is discarded.                              *)
Heard(i) == Cardinality({j \in 1 .. i : got[j] # NoChar})
HearsInOrder ==
    Taken =>
        /\ \A i \in DOMAIN got : got[i] # NoChar =>
              Heard(i) \in DOMAIN arrived /\ got[i] = arrived[Heard(i)]
        /\ rxfifo = SubSeq(arrived, Heard(Len(got)) + 1, Len(arrived))

(* The port is a line: what is accepted is shown, once and in order, and in  *)
(* the end all of it; in particular init_uart() and uart_txchar() return.    *)
Line == INSTANCE SerialLine
ImplementsLine == Line!Spec
ComesUp == <>(pc = "up") /\ (pc = "tx_ready" ~> pc = "up")
=============================================================================
