----------------------------- MODULE UartProofs -----------------------------
(***************************************************************************)
(* What the UART driver sends is what the line shows and what it returns is  *)
(* what arrived, for FIFOs of every size and whatever the earlier stage left  *)
(* in them.                                                                  *)
(***************************************************************************)
EXTENDS Uart, SequenceTheorems, FiniteSetTheorems, TLAPS

Running == {"up", "tx_ready", "tx_write", "rx_read"}

(* The part of the types that the transmitter's side needs. *)
TxTypes ==
    /\ pc \in Places /\ txen \in BOOLEAN
    /\ {txfifo, shift, line, sent} \subseteq Seq(Char)
    /\ Len(shift) <= 1 /\ Len(txfifo) <= FifoSize
    /\ pc \in {"tx_ready", "tx_write"} => ch \in Char

(* A transmitter that is off has sent nothing; the FIFOs are emptied while   *)
(* nothing is under way, and stay empty until the transmitter is on; a        *)
(* character is written to a FIFO with room, within the bound of the run.     *)
TakeOver ==
    /\ ~txen => line = <<>> /\ shift = <<>> /\ sent = <<>>
    /\ pc = "fifo" /\ txen => txfifo = <<>> /\ shift = <<>>
    /\ pc \in {"nco", "ctrl"} => txfifo = <<>> /\ shift = <<>>
    /\ pc \in Running => txen
    /\ pc = "tx_write" => ~TxFull
    /\ pc \in {"tx_ready", "tx_write"} => Len(sent) < MaxSent

TxInv == TxTypes /\ TakeOver /\ NothingLost

-----------------------------------------------------------------------------
(* The first character of a sequence moves in front of it. *)
LEMMA MoveHead ==
    ASSUME NEW S, NEW s \in Seq(S), NEW q \in Seq(S), q # <<>>
    PROVE  /\ <<Head(q)>> \in Seq(S) /\ Tail(q) \in Seq(S)
           /\ s \o <<Head(q)>> \o Tail(q) = s \o q
<1>1. Head(q) \in S /\ Tail(q) \in Seq(S) /\ Len(Tail(q)) = Len(q) - 1
      /\ \A i \in 1 .. Len(Tail(q)) : Tail(q)[i] = q[i + 1]
  BY HeadTailProperties
<1>2. <<Head(q)>> \in Seq(S) /\ Len(<<Head(q)>>) = 1 /\ <<Head(q)>>[1] = Head(q)
  BY <1>1
<1>3. <<Head(q)>> \o Tail(q) = q
  <2>1. /\ <<Head(q)>> \o Tail(q) \in Seq(S)
        /\ Len(<<Head(q)>> \o Tail(q)) = Len(q)
        /\ \A i \in 1 .. Len(q) :
              (<<Head(q)>> \o Tail(q))[i] = IF i <= 1 THEN Head(q) ELSE Tail(q)[i - 1]
    BY <1>1, <1>2, ConcatProperties, LenProperties
  <2>2. Head(q) = q[1] /\ Len(q) \in Nat
    BY LenProperties
  <2>3. \A i \in 1 .. Len(q) : (<<Head(q)>> \o Tail(q))[i] = q[i]
    BY <1>1, <2>1, <2>2
  <2>4. QED
    BY <2>1, <2>3, SeqEqual
<1>4. s \o <<Head(q)>> \o Tail(q) = s \o (<<Head(q)>> \o Tail(q))
  BY <1>1, <1>2, ConcatAssociative
<1>5. QED
  BY <1>1, <1>2, <1>3, <1>4

LEMMA TxInit == Init => TxInv
<1> SUFFICES ASSUME Init PROVE TxInv
  OBVIOUS
<1>1. PICK l \in Leftovers :
          /\ txen = l.txen /\ shift = l.shift /\ txfifo = l.tx
          /\ sent = IF l.txen THEN l.shift \o l.tx ELSE <<>>
  BY DEF Init
<1>2. /\ l.shift \in Seq(Char) /\ l.tx \in Seq(Char) /\ Len(l.shift) <= 1
      /\ Len(l.tx) <= FifoSize /\ l.txen \in BOOLEAN /\ (~l.txen => l.shift = <<>>)
  BY UartAssumption
<1>3. pc = "clock" /\ line = <<>> /\ line \in Seq(Char)
  BY DEF Init
<1>4. sent \in Seq(Char)
  BY <1>1, <1>2, ConcatProperties
<1>5. TxTypes
  BY <1>1, <1>2, <1>3, <1>4 DEF TxTypes, Places
<1>6. TakeOver
  BY <1>1, <1>2, <1>3 DEF TakeOver, Running
<1>7. line \o shift = shift
  BY <1>1, <1>2, <1>3, ConcatEmptySeq
<1>8. QED
  BY <1>1, <1>5, <1>6, <1>7 DEF TxInv, NothingLost

LEMMA TxStep == TxInv /\ [Next]_vars => TxInv'
<1> SUFFICES ASSUME TxInv, [Next]_vars PROVE TxInv'
  OBVIOUS
<1>t. TxTypes /\ TakeOver /\ NothingLost
  BY DEF TxInv
<1>s. /\ txfifo \in Seq(Char) /\ shift \in Seq(Char) /\ line \in Seq(Char)
      /\ sent \in Seq(Char) /\ txen \in BOOLEAN /\ pc \in Places
      /\ Len(txfifo) \in Nat /\ Len(txfifo) <= FifoSize /\ FifoSize \in Nat \ {0}
  BY <1>t, UartAssumption, LenProperties DEF TxTypes
<1>e. <<>> \in Seq(Char) /\ Len(<<>>) = 0
  BY EmptySeq
<1>0. CASE UNCHANGED vars
  BY <1>0, <1>t DEF vars, driver, port, transmitter, TxInv, TxTypes, TakeOver, NothingLost, TxFull
<1>1. CASE set_clock \/ check_uart_tx
  <2>1. UNCHANGED <<txen, transmitter, sent>> /\ pc \in {"clock", "check_ctrl", "check_state"}
    BY <1>1 DEF set_clock, check_uart_tx, port
  <2>2. /\ pc' \in {"check_ctrl", "check_state", "fifo"}
        /\ pc' = "fifo" => ~txen \/ (txfifo = <<>> /\ shift = <<>>)
    BY <1>1 DEF set_clock, check_uart_tx, Goto, TxEmpty, TxIdle
  <2>3. TxTypes'
    BY <1>t, <2>1, <2>2 DEF TxTypes, Places, transmitter
  <2>4. TakeOver'
    BY <1>t, <2>1, <2>2 DEF TakeOver, Running, transmitter
  <2>5. QED
    BY <1>t, <2>1, <2>3, <2>4 DEF TxInv, NothingLost, transmitter
<1>2. CASE reset_fifos
  <2>1. /\ pc = "fifo" /\ pc' = "nco" /\ txfifo' = <<>> /\ UNCHANGED <<txen, shift, line, sent>>
    BY <1>2 DEF reset_fifos, Goto, port
  <2>2. shift = <<>> /\ (txen => txfifo = <<>>)
    BY <1>s, <1>t, <2>1 DEF TakeOver
  <2>3. TxTypes'
    BY <1>s, <1>t, <1>e, <2>1 DEF TxTypes, Places
  <2>4. TakeOver'
    BY <1>t, <2>1, <2>2 DEF TakeOver, Running
  <2>5. txen => txfifo' = txfifo
    BY <2>1, <2>2
  <2>6. NothingLost'
    BY <1>t, <2>1, <2>5 DEF NothingLost
  <2>7. QED
    BY <2>3, <2>4, <2>6 DEF TxInv
<1>3. CASE set_nco
  <2>1. pc = "nco" /\ pc' = "ctrl" /\ UNCHANGED <<txen, transmitter, sent>>
    BY <1>3 DEF set_nco, Goto
  <2>2. QED
    BY <1>t, <2>1 DEF TxInv, TxTypes, TakeOver, NothingLost, Places, Running, transmitter
<1>4. CASE set_ctrl
  <2>1. pc = "ctrl" /\ pc' = "up" /\ txen' = TRUE /\ UNCHANGED <<transmitter, sent>>
    BY <1>4 DEF set_ctrl, Goto
  <2>2. line \o shift \o txfifo = sent
    <3>1. CASE txen
      BY <1>t, <3>1 DEF NothingLost
    <3>2. CASE ~txen
      <4>1. line = <<>> /\ shift = <<>> /\ txfifo = <<>> /\ sent = <<>>
        BY <1>t, <2>1, <3>2 DEF TakeOver
      <4>2. QED
        BY <1>e, <4>1, ConcatEmptySeq
    <3>3. QED
      BY <3>1, <3>2
  <2>3. QED
    BY <1>t, <2>1, <2>2 DEF TxInv, TxTypes, TakeOver, NothingLost, Places, Running, transmitter
<1>5. CASE uart_tx_ready \/ uart_rx_available \/ read_rdata \/ \E c \in Char : call_txchar(c)
  <2>1. pc \in Running /\ pc' \in Running /\ UNCHANGED <<txen, transmitter, sent>>
    BY <1>5 DEF uart_tx_ready, uart_rx_available, read_rdata, call_txchar, Goto, driver, port,
       Running
  <2>2. /\ pc' \in {"tx_ready", "tx_write"} => ch' \in Char /\ Len(sent) < MaxSent
        /\ pc' = "tx_write" => ~TxFull
    BY <1>5, <1>t DEF uart_tx_ready, uart_rx_available, read_rdata, call_txchar, Goto, driver,
       TxTypes, TakeOver
  <2>3. TxTypes'
    BY <1>t, <2>1, <2>2 DEF TxTypes, Places, Running, transmitter
  <2>4. TakeOver'
    BY <1>t, <2>1, <2>2 DEF TakeOver, Running, transmitter, TxFull
  <2>5. QED
    BY <1>t, <2>1, <2>3, <2>4 DEF TxInv, NothingLost, transmitter
<1>6. CASE write_wdata
  <2>1. pc = "tx_write" /\ pc' = "up" /\ UNCHANGED <<txen, shift, line>> /\ txen /\ ch \in Char
    BY <1>6, <1>t DEF write_wdata, Goto, port, TakeOver, Running, TxTypes
  <2>2. txfifo' = Append(txfifo, ch) /\ sent' = Append(sent, ch)
    BY <1>6, <1>t, <2>1 DEF write_wdata, TakeOver
  <2>3. txfifo' \in Seq(Char) /\ sent' \in Seq(Char) /\ Len(txfifo') <= FifoSize
    <3>1. Len(txfifo') = Len(txfifo) + 1 /\ Len(txfifo) # FifoSize
      BY <1>s, <1>t, <2>1, <2>2, AppendProperties DEF TakeOver, TxFull
    <3>2. QED
      BY <1>s, <2>1, <2>2, <3>1, AppendProperties
  <2>4. line \o shift \in Seq(Char)
    BY <1>s, ConcatProperties
  <2>5. line \o shift \o Append(txfifo, ch) = Append(line \o shift \o txfifo, ch)
    <3>1. <<ch>> \in Seq(Char) /\ line \o shift \o txfifo \in Seq(Char)
      BY <1>s, <2>1, <2>4, ConcatProperties
    <3>2. /\ Append(txfifo, ch) = txfifo \o <<ch>>
          /\ Append(line \o shift \o txfifo, ch) = (line \o shift \o txfifo) \o <<ch>>
      BY <1>s, <2>1, <3>1, AppendIsConcat
    <3>3. QED
      BY <1>s, <2>4, <3>1, <3>2, ConcatAssociative
  <2>6. QED
    BY <1>t, <2>1, <2>2, <2>3, <2>5 DEF TxInv, TxTypes, TakeOver, NothingLost, Places, Running
<1>7. CASE Load
  <2>1. /\ txen /\ shift = <<>> /\ txfifo # <<>> /\ shift' = <<Head(txfifo)>>
        /\ txfifo' = Tail(txfifo) /\ UNCHANGED <<pc, ch, txen, line, sent>>
    BY <1>7 DEF Load, driver, port
  <2>2. shift' \in Seq(Char) /\ txfifo' \in Seq(Char) /\ Len(shift') = 1
        /\ line \o shift' \o txfifo' = line \o txfifo
    BY <1>s, <2>1, MoveHead
  <2>3. line \o shift = line
    BY <1>s, <2>1, ConcatEmptySeq
  <2>4. Len(txfifo') < FifoSize
    <3>1. Len(txfifo') = Len(txfifo) - 1
      BY <1>s, <2>1, HeadTailProperties
    <3>2. QED
      BY <1>s, <3>1
  <2>5. TxTypes'
    BY <1>s, <1>t, <2>1, <2>2, <2>4 DEF TxTypes
  <2>6. pc \notin {"fifo", "nco", "ctrl"}
    BY <1>t, <2>1 DEF TakeOver
  <2>7. TakeOver'
    BY <1>s, <1>t, <2>1, <2>4, <2>6 DEF TakeOver, Running, TxFull
  <2>8. line' \o shift' \o txfifo' = sent'
    BY <1>t, <2>1, <2>2, <2>3 DEF NothingLost
  <2>9. QED
    BY <2>5, <2>7, <2>8 DEF TxInv, NothingLost
<1>8. CASE Emit
  <2>1. /\ shift # <<>> /\ line' = line \o shift /\ shift' = <<>>
        /\ UNCHANGED <<pc, ch, txen, txfifo, sent>>
    BY <1>8 DEF Emit, driver, port
  <2>2. txen
    BY <1>t, <2>1 DEF TakeOver
  <2>3. line' \in Seq(Char) /\ line' \o <<>> = line'
    BY <1>s, <2>1, ConcatProperties, ConcatEmptySeq
  <2>4. QED
    BY <1>t, <1>e, <2>1, <2>2, <2>3 DEF TxInv, TxTypes, TakeOver, NothingLost, Running, TxFull
<1>9. CASE \E c \in Char : Arrive(c)
  <2>1. UNCHANGED <<pc, ch, txen, transmitter, sent>>
    BY <1>9 DEF Arrive, driver, port
  <2>2. QED
    BY <1>t, <2>1 DEF TxInv, TxTypes, TakeOver, NothingLost, transmitter, TxFull
<1>10. QED
  BY <1>0, <1>1, <1>2, <1>3, <1>4, <1>5, <1>6, <1>7, <1>8, <1>9
  DEF Next, Driver, Caller, Transmit, init_uart

(* The transmitter's invariant holds in every reachable state. *)
THEOREM TxInvariance == Spec => []TxInv
BY TxInit, TxStep, PTL DEF Spec

(* What was sent, by the earlier stage too, is on the line, being sent or in *)
(* the FIFO, once and in order (init_uart, uart_txchar).                      *)
THEOREM AllIsSent == Spec => []NothingLost
<1>1. TxInv => NothingLost
  BY DEF TxInv
<1>2. QED
  BY <1>1, TxInvariance, PTL

(* The baud rate is set with nothing in the shift register (init_uart). *)
THEOREM BaudRateKept == Spec => BaudStable
<1>1. ASSUME TxInv, [Next]_vars, nco' # nco PROVE shift = <<>>
  <2>1. set_nco
    BY <1>1 DEF Next, Driver, Caller, Transmit, init_uart, set_clock, check_uart_tx, reset_fifos,
       set_ctrl, uart_tx_ready, write_wdata, read_rdata, uart_rx_available, call_txchar, Load,
       Emit, Arrive, port, vars
  <2>2. QED
    BY <1>1, <2>1 DEF set_nco, TxInv, TakeOver
<1>2. TxInv /\ [Next]_vars => [nco' # nco => shift = <<>>]_vars
  BY <1>1
<1>3. QED
  BY <1>2, TxInvariance, PTL DEF Spec, BaudStable

-----------------------------------------------------------------------------
(* Refinement: the port is a serial line.                                    *)

(* The part of ImplementsLine that says nothing of fairness. *)
ImplementsLineSafely == Line!Init /\ [][Line!Next]_(Line!vars)

LEMMA LineStep == TxInv /\ [Next]_vars => [Line!Next]_(Line!vars)
<1> SUFFICES ASSUME TxInv, [Next]_vars PROVE Line!Next \/ UNCHANGED <<sent, line>>
  BY DEF Line!vars
<1>s. /\ txfifo \in Seq(Char) /\ shift \in Seq(Char) /\ line \in Seq(Char)
      /\ sent \in Seq(Char) /\ Len(shift) <= 1
  BY DEF TxInv, TxTypes
<1>t. TxTypes /\ TakeOver /\ NothingLost
  BY DEF TxInv
<1>1. CASE \E c \in Char : call_txchar(c)
  BY <1>1 DEF call_txchar, transmitter
<1>2. CASE write_wdata
  <2>1. /\ Len(sent) < MaxSent /\ ch \in Char
        /\ sent' = Append(sent, ch) /\ line' = line
    BY <1>2, <1>t DEF write_wdata, TakeOver, TxTypes
  <2>2. Line!Accept(ch)
    BY <2>1 DEF Line!Accept
  <2>3. QED
    BY <2>1, <2>2 DEF Line!Next
<1>3. CASE Emit
  <2>1. line' = line \o shift /\ sent' = sent /\ shift # <<>>
    BY <1>3 DEF Emit
  <2>t. txen
    BY <1>t, <2>1 DEF TakeOver
  <2>2. sent = line \o shift \o txfifo
    BY <1>t, <2>t DEF NothingLost
  <2>3. Len(shift) = 1 /\ Len(line) \in Nat /\ Len(txfifo) \in Nat
    <3>1. Len(shift) \in Nat \ {0}
      BY <1>s, <2>1, EmptySeq
    <3>2. Len(line) \in Nat /\ Len(txfifo) \in Nat
      BY <1>s, LenProperties
    <3>3. Len(shift) <= 1
      BY <1>s
    <3>4. \A m \in Nat \ {0} : m <= 1 => m = 1
      OBVIOUS
    <3>5. Len(shift) = 1
      BY <3>1, <3>3, <3>4, Zenon
    <3>6. QED
      BY <3>2, <3>5, Zenon
  <2>4. /\ line \o shift \in Seq(Char) /\ Len(line \o shift) = Len(line) + 1
        /\ Len(sent) = Len(line) + 1 + Len(txfifo)
    <3>1. line \o shift \in Seq(Char) /\ Len(line \o shift) = Len(line) + Len(shift)
      BY <1>s, ConcatProperties
    <3>2. Len(sent) = Len(line \o shift) + Len(txfifo)
      BY <1>s, <2>2, <3>1, ConcatProperties
    <3>3. QED
      BY <2>3, <3>1, <3>2
  <2>5. SubSeq(sent, 1, Len(line) + 1) = SubSeq(line \o shift, 1, Len(line) + 1)
    BY <1>s, <2>2, <2>3, <2>4, SubSeqOfConcat1
  <2>6. SubSeq(line \o shift, 1, Len(line) + 1) = line \o shift
    BY <2>4, SubSeqFull
  <2>7. Line!Show
    BY <2>1, <2>3, <2>4, <2>5, <2>6 DEF Line!Show
  <2>8. QED
    BY <2>7 DEF Line!Next
<1>4. CASE UNCHANGED vars \/ set_clock \/ check_uart_tx \/ reset_fifos \/ set_nco \/ set_ctrl
           \/ uart_tx_ready \/ uart_rx_available \/ read_rdata \/ Load
           \/ \E c \in Char : Arrive(c)
  BY <1>4 DEF vars, transmitter, set_clock, check_uart_tx, reset_fifos, set_nco, set_ctrl,
     uart_tx_ready, uart_rx_available, read_rdata, Load, Arrive
<1>5. QED
  BY <1>1, <1>2, <1>3, <1>4 DEF Next, Driver, Caller, Transmit, init_uart

(* Every step of the driver and the UART is a step of the serial line or     *)
(* invisible on it (src/uart.c).                                              *)
THEOREM UartRefinesLine == Spec => ImplementsLineSafely
<1>1. Init => Line!Init
  BY TxInit DEF Init, TxInv, TxTypes, Line!Init
<1>2. Spec => Line!Init /\ [][Line!Next]_(Line!vars)
  BY <1>1, LineStep, TxInvariance, PTL DEF Spec
<1>3. QED
  BY <1>2 DEF ImplementsLineSafely

-----------------------------------------------------------------------------
(* The receiver.                                                             *)

(* Nothing is heard before the port is the loader's, and RDATA is read only  *)
(* with a character in the FIFO: whatever arrives since RXEMPTY was tested.  *)
RxTypes ==
    /\ pc \in Places /\ rxfifo \in Seq(Char) /\ arrived \in Seq(Char)
    /\ got \in Seq(Char \cup {NoChar, Stale})
(* The characters among the first i answers of g. *)
Characters(g, i) == Cardinality({j \in 1 .. i : g[j] # NoChar})
Rest(s, m) == SubSeq(s, m + 1, Len(s))
(* The answers g are the arrivals a in their order, the FIFO q has the rest. *)
InOrder(g, a, q) ==
    /\ \A i \in 1 .. Len(g) : g[i] # NoChar =>
          Characters(g, i) \in 1 .. Len(a) /\ g[i] = a[Characters(g, i)]
    /\ Characters(g, Len(g)) <= Len(a)
    /\ q = Rest(a, Characters(g, Len(g)))

RxInv ==
    /\ RxTypes
    /\ ~Taken => arrived = <<>> /\ got = <<>>
    /\ pc = "rx_read" => rxfifo # <<>>
    /\ Taken => InOrder(got, arrived, rxfifo)

LEMMA CharactersOfNone == \A g : Characters(g, 0) = 0
<1>1. \A g : {j \in 1 .. 0 : g[j] # NoChar} = {}
  OBVIOUS
<1>2. QED
  BY <1>1, FS_EmptySet DEF Characters

LEMMA CharactersAreNumbers ==
    ASSUME NEW g, NEW i \in Nat
    PROVE  IsFiniteSet({j \in 1 .. i : g[j] # NoChar}) /\ Characters(g, i) \in Nat
<1>1. IsFiniteSet(1 .. i)
  BY FS_Interval
<1>2. IsFiniteSet({j \in 1 .. i : g[j] # NoChar})
  BY <1>1, FS_Subset
<1>3. QED
  BY <1>2, FS_CardinalityType DEF Characters

(* One more answer counts if it is a character. *)
LEMMA OneMore ==
    ASSUME NEW S, NEW g \in Seq(S), NEW x \in S
    PROVE  /\ \A i \in 0 .. Len(g) : Characters(Append(g, x), i) = Characters(g, i)
           /\ Characters(Append(g, x), Len(g) + 1)
                 = IF x = NoChar THEN Characters(g, Len(g)) ELSE Characters(g, Len(g)) + 1
<1> DEFINE h == Append(g, x)
<1>1. /\ Len(g) \in Nat /\ h[Len(g) + 1] = x /\ \A j \in 1 .. Len(g) : h[j] = g[j]
  BY AppendProperties, LenProperties
<1> HIDE DEF h
<1>2. ASSUME NEW i \in 0 .. Len(g) PROVE Characters(h, i) = Characters(g, i)
  <2>1. {j \in 1 .. i : h[j] # NoChar} = {j \in 1 .. i : g[j] # NoChar}
    BY <1>1, <1>2
  <2>2. QED
    BY <2>1 DEF Characters
<1>3. Characters(h, Len(g) + 1)
         = IF x = NoChar THEN Characters(g, Len(g)) ELSE Characters(g, Len(g)) + 1
  <2> DEFINE before == {j \in 1 .. Len(g) : g[j] # NoChar}
             after == {j \in 1 .. Len(g) + 1 : h[j] # NoChar}
  <2>1. after = IF x = NoChar THEN before ELSE before \cup {Len(g) + 1}
    <3>1. \A j : j \in 1 .. Len(g) + 1 <=> j \in 1 .. Len(g) \/ j = Len(g) + 1
      BY <1>1
    <3>2. QED
      BY <1>1, <3>1
  <2>2. IsFiniteSet(before) /\ Len(g) + 1 \notin before
    <3>1. IsFiniteSet({j \in 1 .. Len(g) : g[j] # NoChar})
      BY <1>1, CharactersAreNumbers
    <3>2. Len(g) + 1 \notin 1 .. Len(g)
      BY <1>1
    <3>3. QED
      BY <3>1, <3>2
  <2>3. Cardinality(before \cup {Len(g) + 1}) = Cardinality(before) + 1
    BY <2>2, FS_AddElement
  <2>4. Cardinality(after) = IF x = NoChar THEN Cardinality(before) ELSE Cardinality(before) + 1
    BY <2>1, <2>3
  <2>5. QED
    BY <2>4 DEF Characters
<1>4. QED
  BY <1>2, <1>3 DEF h

(* What is left of a sequence behind its first m elements grows at its end   *)
(* and shrinks at its front.                                                 *)
LEMMA RestOfAppended ==
    ASSUME NEW S, NEW s \in Seq(S), NEW x \in S, NEW m \in 0 .. Len(s)
    PROVE  Rest(Append(s, x), m) = Append(Rest(s, m), x)
<1> DEFINE t == Append(s, x)
<1>1. Len(s) \in Nat /\ t \in Seq(S) /\ Len(t) = Len(s) + 1 /\ t[Len(s) + 1] = x
  BY AppendProperties, LenProperties
<1>2. t = s \o <<x>> /\ <<x>> \in Seq(S)
  BY AppendIsConcat
<1>3. SubSeq(t, m + 1, Len(s)) = Rest(s, m) /\ Rest(s, m) \in Seq(S)
  <2>1. CASE m = Len(s)
    <3>1. Len(s) < m + 1 /\ m + 1 \in Int /\ Len(s) \in Int
      BY <1>1, <2>1
    <3>2. SubSeq(t, m + 1, Len(s)) = <<>> /\ SubSeq(s, m + 1, Len(s)) = <<>>
      BY <3>1, SubSeqEmpty
    <3>3. QED
      BY <3>2, EmptySeq DEF Rest
  <2>2. CASE m # Len(s)
    <3>1. m + 1 \in 1 .. Len(s) /\ Len(s) \in 1 .. Len(s)
      BY <1>1, <2>2
    <3>2. SubSeq(t, m + 1, Len(s)) = SubSeq(s, m + 1, Len(s))
      BY <1>2, <3>1, SubSeqOfConcat1
    <3>3. \A i \in m + 1 .. Len(s) : s[i] \in S
      BY <1>1, <3>1, ElementOfSeq
    <3>4. SubSeq(s, m + 1, Len(s)) \in Seq(S)
      BY <3>1, <3>3, SubSeqProperties
    <3>5. QED
      BY <3>2, <3>4 DEF Rest
  <2>3. QED
    BY <2>1, <2>2
<1> HIDE DEF t
<1>4. SubSeq(t, m + 1, Len(t)) = SubSeq(t, m + 1, Len(s)) \o <<x>>
  <2>1. m + 1 \in 1 .. Len(t) /\ Len(t) \in m + 1 .. Len(t) /\ Len(t) - 1 = Len(s)
    BY <1>1
  <2>2. SubSeq(t, m + 1, Len(t)) = SubSeq(t, m + 1, Len(t) - 1) \o <<t[Len(t)]>>
    BY <1>1, <2>1, SubSeqRecursiveSecond
  <2>3. QED
    BY <1>1, <2>1, <2>2
<1>5. Append(Rest(s, m), x) = Rest(s, m) \o <<x>>
  BY <1>3, AppendIsConcat
<1>6. Rest(t, m) = SubSeq(t, m + 1, Len(t))
  BY DEF Rest
<1>7. QED
  BY <1>3, <1>4, <1>5, <1>6 DEF t

LEMMA RestMoves ==
    ASSUME NEW S, NEW s \in Seq(S), NEW m \in 0 .. Len(s), Rest(s, m) # <<>>
    PROVE  /\ m + 1 \in 1 .. Len(s) /\ Head(Rest(s, m)) = s[m + 1]
           /\ Tail(Rest(s, m)) = Rest(s, m + 1)
<1>1. Len(s) \in Nat
  BY LenProperties
<1>2. m < Len(s)
  <2> SUFFICES ASSUME m = Len(s) PROVE FALSE
    BY <1>1
  <2>1. Len(s) < m + 1 /\ m + 1 \in Int /\ Len(s) \in Int
    BY <1>1
  <2>2. QED
    BY <2>1, SubSeqEmpty DEF Rest
<1>3. m + 1 \in 1 .. Len(s) /\ Len(s) \in m + 1 .. Len(s)
  BY <1>1, <1>2
<1>4. QED
  BY <1>3, HeadTailOfSubSeq DEF Rest

(* An answer: that there is no character, or the first one in the FIFO.      *)
LEMMA OneMoreAnswer ==
    ASSUME NEW S, NEW g \in Seq(S), NEW x \in S, NEW a \in Seq(Char), NEW q, NEW r,
           InOrder(g, a, q),
           IF x = NoChar THEN r = q ELSE q # <<>> /\ x = Head(q) /\ r = Tail(q)
    PROVE  InOrder(Append(g, x), a, r)
<1> DEFINE h == Append(g, x)
           m == Characters(g, Len(g))
           last == Len(g) + 1
<1>1. /\ Len(g) \in Nat /\ Len(a) \in Nat /\ Len(h) = last
      /\ h[last] = x /\ \A i \in 1 .. Len(g) : h[i] = g[i]
  BY AppendProperties, LenProperties
<1>2. m \in Nat /\ m <= Len(a) /\ q = Rest(a, m)
  BY <1>1, CharactersAreNumbers DEF InOrder
<1>3. /\ \A i \in 0 .. Len(g) : Characters(h, i) = Characters(g, i)
      /\ Characters(h, last) = IF x = NoChar THEN m ELSE m + 1
  BY OneMore
<1> HIDE DEF h, m
<1>4. x # NoChar => m + 1 \in 1 .. Len(a) /\ x = a[m + 1] /\ r = Rest(a, m + 1)
  <2> SUFFICES ASSUME x # NoChar
               PROVE  m + 1 \in 1 .. Len(a) /\ x = a[m + 1] /\ r = Rest(a, m + 1)
    OBVIOUS
  <2>1. m \in 0 .. Len(a) /\ Rest(a, m) # <<>>
    BY <1>1, <1>2
  <2>2. /\ m + 1 \in 1 .. Len(a) /\ Head(Rest(a, m)) = a[m + 1]
        /\ Tail(Rest(a, m)) = Rest(a, m + 1)
    BY <2>1, RestMoves
  <2>3. QED
    BY <1>2, <2>2
<1>5. r = Rest(a, Characters(h, last)) /\ Characters(h, last) <= Len(a)
  BY <1>1, <1>2, <1>3, <1>4
<1>6. ASSUME NEW i \in 1 .. last, h[i] # NoChar
      PROVE  Characters(h, i) \in 1 .. Len(a) /\ h[i] = a[Characters(h, i)]
  <2>1. CASE i = last
    BY <1>1, <1>3, <1>4, <1>6, <2>1
  <2>2. CASE i # last
    <3>1. i \in 1 .. Len(g) /\ i \in 0 .. Len(g)
      BY <1>1, <2>2
    <3>2. g[i] # NoChar /\ h[i] = g[i] /\ Characters(h, i) = Characters(g, i)
      BY <1>1, <1>3, <1>6, <3>1
    <3>3. QED
      BY <3>1, <3>2 DEF InOrder
  <2>3. QED
    BY <2>1, <2>2
<1>7. InOrder(h, a, r)
  BY <1>1, <1>5, <1>6 DEF InOrder
<1>8. QED
  BY <1>7 DEF h

(* An arrival. *)
LEMMA OneMoreArrival ==
    ASSUME NEW S, NEW g \in Seq(S), NEW a \in Seq(Char), NEW c \in Char, NEW q, InOrder(g, a, q)
    PROVE  InOrder(g, Append(a, c), Append(q, c))
<1> DEFINE b == Append(a, c)
           m == Characters(g, Len(g))
<1>1. /\ Len(g) \in Nat /\ Len(a) \in Nat /\ Len(b) = Len(a) + 1
      /\ \A i \in 1 .. Len(a) : b[i] = a[i]
  BY AppendProperties, LenProperties
<1>2. m \in Nat /\ m <= Len(a) /\ q = Rest(a, m)
  BY <1>1, CharactersAreNumbers DEF InOrder
<1> HIDE DEF m
<1>3. m \in 0 .. Len(a)
  BY <1>1, <1>2
<1>4. Rest(b, m) = Append(q, c)
  BY <1>2, <1>3, RestOfAppended
<1> HIDE DEF b
<1>5. ASSUME NEW i \in 1 .. Len(g), g[i] # NoChar
      PROVE  Characters(g, i) \in 1 .. Len(b) /\ g[i] = b[Characters(g, i)]
  <2>1. Characters(g, i) \in 1 .. Len(a) /\ g[i] = a[Characters(g, i)]
    BY <1>5 DEF InOrder
  <2>2. QED
    BY <1>1, <2>1
<1>6. InOrder(g, b, Append(q, c))
  BY <1>1, <1>2, <1>4, <1>5 DEF InOrder, m
<1>7. QED
  BY <1>6 DEF b

LEMMA RxInit == Init => RxInv
<1> SUFFICES ASSUME Init PROVE RxInv
  OBVIOUS
<1>1. PICK l \in Leftovers : rxfifo = l.rx
  BY DEF Init
<1>2. l.rx \in Seq(Char)
  BY UartAssumption
<1>3. pc = "clock" /\ arrived = <<>> /\ got = <<>>
  BY DEF Init
<1>4. QED
  BY <1>1, <1>2, <1>3 DEF RxInv, RxTypes, Places, Taken

LEMMA RxStep == RxInv /\ [Next]_vars => RxInv'
<1> SUFFICES ASSUME RxInv, [Next]_vars PROVE RxInv'
  OBVIOUS
<1>t. /\ RxTypes /\ (~Taken => arrived = <<>> /\ got = <<>>)
      /\ (pc = "rx_read" => rxfifo # <<>>) /\ (Taken => InOrder(got, arrived, rxfifo))
  BY DEF RxInv
<1>g. /\ got \in Seq(Char \cup {NoChar, Stale}) /\ arrived \in Seq(Char) /\ rxfifo \in Seq(Char)
      /\ NoChar \notin Char
  BY <1>t, UartAssumption DEF RxTypes
<1>e. <<>> \in Seq(Char) /\ Len(<<>>) = 0
  BY EmptySeq
<1>0. CASE UNCHANGED vars
  BY <1>0, <1>t DEF vars, driver, receiver, RxInv, RxTypes, Taken
<1>1. CASE set_clock \/ check_uart_tx
  <2>1. /\ UNCHANGED <<receiver, got>> /\ pc \in {"clock", "check_ctrl", "check_state"}
        /\ pc' \in {"check_ctrl", "check_state", "fifo"}
    BY <1>1 DEF set_clock, check_uart_tx, Goto
  <2>2. ~Taken /\ ~Taken'
    BY <2>1 DEF Taken
  <2>3. QED
    BY <1>t, <2>1, <2>2 DEF RxInv, RxTypes, Places, receiver
<1>2. CASE reset_fifos
  <2>1. pc = "fifo" /\ pc' = "nco" /\ rxfifo' = <<>> /\ UNCHANGED <<arrived, got>>
    BY <1>2 DEF reset_fifos, Goto
  <2>2. arrived = <<>> /\ got = <<>>
    BY <1>t, <2>1 DEF Taken
  <2>3. Rest(<<>>, 0) = <<>>
    <3>1. 0 < 1 /\ 1 \in Int /\ 0 \in Int
      OBVIOUS
    <3>2. SubSeq(<<>>, 1, 0) = <<>>
      BY <3>1, SubSeqEmpty
    <3>3. QED
      BY <1>e, <3>2 DEF Rest
  <2>4. InOrder(<<>>, <<>>, <<>>)
    BY <1>e, <2>3, CharactersOfNone DEF InOrder
  <2>5. QED
    BY <1>t, <1>e, <2>1, <2>2, <2>4 DEF RxInv, RxTypes, Places
<1>3. CASE set_nco \/ set_ctrl \/ uart_tx_ready \/ write_wdata \/ \E c \in Char : call_txchar(c)
  <2>1. /\ UNCHANGED <<receiver, got>> /\ pc \in {"nco", "ctrl", "up", "tx_ready", "tx_write"}
        /\ pc' \in {"ctrl", "up", "tx_ready", "tx_write"}
    BY <1>3 DEF set_nco, set_ctrl, uart_tx_ready, write_wdata, call_txchar, Goto
  <2>2. Taken /\ Taken'
    BY <2>1 DEF Taken
  <2>3. QED
    BY <1>t, <2>1, <2>2 DEF RxInv, RxTypes, Places, receiver
<1>4. CASE uart_rx_available
  <2>1. pc = "up" /\ UNCHANGED receiver
    BY <1>4 DEF uart_rx_available
  <2>2. CASE RxEmpty
    <3>1. got' = Append(got, NoChar) /\ pc' = pc
      BY <1>4, <2>2 DEF uart_rx_available, driver
    <3>2. Taken /\ Taken'
      BY <2>1, <3>1 DEF Taken
    <3>3. InOrder(got', arrived', rxfifo')
      BY <1>t, <1>g, <2>1, <3>1, <3>2, OneMoreAnswer DEF receiver
    <3>4. got' \in Seq(Char \cup {NoChar, Stale})
      BY <1>g, <3>1, AppendProperties
    <3>5. QED
      BY <1>t, <2>1, <3>1, <3>2, <3>3, <3>4 DEF RxInv, RxTypes, receiver
  <2>3. CASE ~RxEmpty
    <3>1. got' = got /\ pc' = "rx_read" /\ rxfifo # <<>>
      BY <1>4, <2>3 DEF uart_rx_available, Goto, RxEmpty
    <3>2. Taken /\ Taken'
      BY <2>1, <3>1 DEF Taken
    <3>3. QED
      BY <1>t, <2>1, <3>1, <3>2 DEF RxInv, RxTypes, Places, receiver
  <2>4. QED
    BY <2>2, <2>3
<1>5. CASE read_rdata
  <2>1. pc = "rx_read" /\ pc' = "up" /\ arrived' = arrived /\ rxfifo # <<>>
    BY <1>5, <1>t DEF read_rdata, Goto
  <2>2. got' = Append(got, Head(rxfifo)) /\ rxfifo' = Tail(rxfifo)
    BY <1>5, <2>1 DEF read_rdata, RxEmpty
  <2>3. Head(rxfifo) \in Char /\ Tail(rxfifo) \in Seq(Char)
    BY <1>g, <2>1, HeadTailProperties
  <2>4. Taken /\ Taken'
    BY <2>1 DEF Taken
  <2>5. InOrder(Append(got, Head(rxfifo)), arrived, Tail(rxfifo))
    <3>1. Head(rxfifo) \in Char \cup {NoChar, Stale} /\ Head(rxfifo) # NoChar
      BY <1>g, <2>3
    <3>2. InOrder(got, arrived, rxfifo)
      BY <1>t, <2>4
    <3>3. QED
      BY <1>g, <2>1, <3>1, <3>2, OneMoreAnswer
  <2>6. got' \in Seq(Char \cup {NoChar, Stale})
    BY <1>g, <2>2, <2>3, AppendProperties
  <2>7. QED
    BY <1>t, <2>1, <2>2, <2>3, <2>4, <2>5, <2>6 DEF RxInv, RxTypes, Places
<1>6. CASE Load \/ Emit
  <2>1. UNCHANGED <<driver, receiver, got>>
    BY <1>6 DEF Load, Emit
  <2>2. QED
    BY <1>t, <2>1 DEF driver, receiver, RxInv, RxTypes, Taken
<1>7. CASE \E c \in Char : Arrive(c)
  <2>1. PICK c \in Char : Arrive(c)
    BY <1>7
  <2>2. /\ UNCHANGED <<pc, got>> /\ rxfifo' = Append(rxfifo, c)
        /\ arrived' = IF Taken THEN Append(arrived, c) ELSE arrived
    BY <2>1 DEF Arrive, driver
  <2>3. rxfifo' \in Seq(Char) /\ arrived' \in Seq(Char) /\ rxfifo' # <<>>
    <3>1. Append(rxfifo, c) \in Seq(Char) /\ Append(arrived, c) \in Seq(Char)
          /\ Len(Append(rxfifo, c)) = Len(rxfifo) + 1 /\ Len(rxfifo) \in Nat
      BY <1>g, AppendProperties, LenProperties
    <3>2. QED
      BY <1>g, <1>e, <2>2, <3>1
  <2>4. Taken' = Taken
    BY <2>2 DEF Taken
  <2>5. Taken => InOrder(got, Append(arrived, c), Append(rxfifo, c))
    BY <1>t, <1>g, OneMoreArrival
  <2>6. QED
    BY <1>t, <2>2, <2>3, <2>4, <2>5 DEF RxInv, RxTypes
<1>8. QED
  BY <1>0, <1>1, <1>2, <1>3, <1>4, <1>5, <1>6, <1>7
  DEF Next, Driver, Caller, Transmit, init_uart

(* The receiver's invariant holds in every reachable state. *)
THEOREM RxInvariance == Spec => []RxInv
BY RxInit, RxStep, PTL DEF Spec

(* uart_rxchar() returns what arrived since init_uart(), in order, and reads *)
(* nothing from an empty FIFO.                                               *)
THEOREM AllIsHeard == Spec => []HearsInOrder
<1>1. RxInv => HearsInOrder
  <2> SUFFICES ASSUME RxInv, Taken, InOrder(got, arrived, rxfifo) PROVE HearsInOrder
    BY DEF RxInv, HearsInOrder
  <2>1. DOMAIN got = 1 .. Len(got) /\ DOMAIN arrived = 1 .. Len(arrived)
    BY LenProperties DEF RxInv, RxTypes
  <2>2. \A i : Heard(i) = Characters(got, i)
    BY DEF Heard, Characters
  <2>3. QED
    BY <2>1, <2>2 DEF InOrder, HearsInOrder, Rest
<1>2. QED
  BY <1>1, RxInvariance, PTL
=============================================================================
