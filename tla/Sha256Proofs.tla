---------------------------- MODULE Sha256Proofs ----------------------------
(***************************************************************************)
(* Theorems about Sha256, for every set of messages and every FIFO that      *)
(* holds a word.                                                              *)
(***************************************************************************)
EXTENDS Sha256, SequenceTheorems, TLAPS

(* The bytes of a message are a sequence of its length. *)
LEMMA BytesFacts ==
    ASSUME NEW m \in Messages
    PROVE  /\ m.data \in Nat /\ m.len \in Nat
           /\ Bytes(m) \in Seq(Nat) /\ Len(Bytes(m)) = m.len
           /\ \A j \in 1 .. m.len : Bytes(m)[j] = m.data + j - 1
<1>1. m.data \in Nat /\ m.len \in Nat
  BY Sha256Assumption
<1>2. Bytes(m) \in [1 .. m.len -> Nat]
  BY <1>1 DEF Bytes
<1>3. QED
  BY <1>1, <1>2 DEF Bytes

(* A sequence with k consecutive numbers appended. *)
LEMMA Extend ==
    ASSUME NEW s \in Seq(Nat), NEW b \in Nat, NEW k \in Nat
    PROVE  LET t == s \o [j \in 1 .. k |-> b + j - 1] IN
           /\ t \in Seq(Nat) /\ Len(t) = Len(s) + k
           /\ \A j \in 1 .. Len(s) : t[j] = s[j]
           /\ \A j \in Len(s) + 1 .. Len(s) + k : t[j] = b + (j - Len(s)) - 1
<1> DEFINE more == [j \in 1 .. k |-> b + j - 1]
           t == s \o more
<1>1. more \in Seq(Nat) /\ Len(more) = k
  <2>1. more \in [1 .. k -> Nat]
    OBVIOUS
  <2>2. QED
    BY <2>1
<1>2. /\ t \in Seq(Nat) /\ Len(t) = Len(s) + k
      /\ \A j \in 1 .. Len(s) + k : t[j] = IF j <= Len(s) THEN s[j] ELSE more[j - Len(s)]
  <2> HIDE DEF more
  <2>1. QED
    BY <1>1, ConcatProperties
<1>3. Len(s) \in Nat
  OBVIOUS
<1>4. ASSUME NEW j \in Len(s) + 1 .. Len(s) + k PROVE t[j] = b + (j - Len(s)) - 1
  <2>1. j \in 1 .. Len(s) + k /\ ~(j <= Len(s)) /\ j - Len(s) \in 1 .. k
    BY <1>3
  <2>2. t[j] = more[j - Len(s)]
    BY <1>2, <2>1
  <2>3. QED
    BY <2>1, <2>2
<1>5. ASSUME NEW j \in 1 .. Len(s) PROVE t[j] = s[j]
  <2>1. j \in 1 .. Len(s) + k /\ j <= Len(s)
    BY <1>3
  <2>2. QED
    BY <1>2, <2>1
<1>6. QED
  BY <1>2, <1>4, <1>5

(* A store feeds the next bytes of the message, and changes nothing else. *)
LEMMA StoreFacts ==
    ASSUME TypeOK, NEW size \in {1, 4}, Store(size)
    PROVE  /\ fed' \in Seq(Nat) /\ Len(fed') = Len(fed) + size
           /\ \A j \in 1 .. Len(fed) : fed'[j] = fed[j]
           /\ \A j \in Len(fed) + 1 .. Len(fed) + size : fed'[j] = bp + (j - Len(fed)) - 1
           /\ bp' = bp + size
           /\ Len(fed') - taken <= FifoBytes
           /\ UNCHANGED <<msg, digest, msglen, int_en, taken, running, sts, itop>>
<1>1. fed \in Seq(Nat) /\ bp \in Nat /\ taken \in Nat /\ Len(fed) \in Nat
  BY DEF TypeOK
<1>2. fed' = fed \o [j \in 1 .. size |-> bp + j - 1] /\ bp' = bp + size
  BY DEF Store
<1>3. /\ fed' \in Seq(Nat) /\ Len(fed') = Len(fed) + size
      /\ \A j \in 1 .. Len(fed) : fed'[j] = fed[j]
      /\ \A j \in Len(fed) + 1 .. Len(fed) + size : fed'[j] = bp + (j - Len(fed)) - 1
  BY <1>1, <1>2, Extend
<1>4. Len(fed') - taken <= FifoBytes
  BY <1>1, <1>3, Sha256Assumption DEF Store
<1>5. QED
  BY <1>2, <1>3, <1>4 DEF Store, config, engine

LEMMA InitIInv == Init => IInv
<1> SUFFICES ASSUME Init PROVE IInv
  OBVIOUS
<1>1. TypeOK
  <2>1. <<>> \in Seq(Nat) /\ Len(<<>>) = 0
    OBVIOUS
  <2>2. digest \in [0 .. 7 -> Digests] /\ sts \in Digests
    BY DEF Init, Digests
  <2>3. FifoBytes \in Nat
    BY Sha256Assumption
  <2>4. fed \in Seq(Nat) /\ Len(fed) = 0 /\ taken = 0
    BY <2>1 DEF Init
  <2>5. taken \in 0 .. Len(fed) /\ Len(fed) - taken <= FifoBytes
    BY <2>3, <2>4
  <2>6. /\ pc \in Places /\ msg \in Messages /\ bp \in Nat /\ len \in Nat /\ i \in 0 .. 7
        /\ msglen \in Nat /\ itop \in {0, 1}
    BY DEF Init, Places
  <2>7. int_en \in BOOLEAN /\ running \in BOOLEAN
    BY Zenon DEF Init
  <2>8. QED
    BY <2>2, <2>4, <2>5, <2>6, <2>7 DEF TypeOK
<1>2. Account /\ EngineState /\ Copied
  BY DEF Init, Account, EngineState, Copied, Feeding
<1>3. QED
  BY <1>1, <1>2 DEF IInv

-----------------------------------------------------------------------------
(* Feeding keeps the invariant once the loop's own bookkeeping is right.     *)
LEMMA FeedKeeps ==
    ASSUME IInv, pc \in Feeding, pc' = pc, NEW size \in {1, 4}, Store(size),
           len' \in Nat, i' \in 0 .. 7,
           Len(fed) + size <= msg.len,
           pc # "blocks" => Len(fed) + size + len' = msg.len /\ i' = 0,
           pc = "blocks" => Len(fed) + size + len' = msg.len + 4 * i' /\ (i' > 0 => len' >= 32),
           pc \in {"blocks", "words"} => len' = 0 \/ (bp + size) % 4 = 0
    PROVE  IInv'
<1> USE DEF Feeding
<1>1. TypeOK /\ Account /\ EngineState /\ Copied
  BY DEF IInv
<1>2. /\ fed' \in Seq(Nat) /\ Len(fed') = Len(fed) + size
      /\ \A j \in 1 .. Len(fed) : fed'[j] = fed[j]
      /\ \A j \in Len(fed) + 1 .. Len(fed) + size : fed'[j] = bp + (j - Len(fed)) - 1
      /\ bp' = bp + size
      /\ Len(fed') - taken <= FifoBytes
      /\ UNCHANGED <<msg, digest, msglen, int_en, taken, running, sts, itop>>
  BY <1>1, StoreFacts
<1>3. Len(fed) \in Nat /\ bp \in Nat /\ taken \in 0 .. Len(fed)
  BY <1>1 DEF TypeOK
<1>4. msg \in Messages /\ msg.data \in Nat /\ msg.len \in Nat
  BY <1>1, Sha256Assumption DEF TypeOK
<1>5. bp = msg.data + Len(fed) /\ \A j \in 1 .. Len(fed) : fed[j] = msg.data + j - 1
  BY <1>1 DEF Account
<1>6. \A j \in 1 .. Len(fed') : fed'[j] = msg.data + j - 1
  <2> TAKE j \in 1 .. Len(fed')
  <2>1. CASE j <= Len(fed)
    BY <1>2, <1>3, <1>5, <2>1
  <2>2. CASE j > Len(fed)
    <3>1. j \in Len(fed) + 1 .. Len(fed) + size
      BY <1>2, <1>3, <2>2
    <3>2. fed'[j] = bp + (j - Len(fed)) - 1
      BY <1>2, <3>1
    <3>3. QED
      BY <1>3, <1>4, <1>5, <3>1, <3>2
  <2>3. QED
    BY <1>2, <1>3, <2>1, <2>2
<1>7. TypeOK'
  <2>1. /\ msg' \in Messages /\ digest' \in [0 .. 7 -> Digests] /\ sts' \in Digests
        /\ msglen' \in Nat /\ itop' \in {0, 1} /\ int_en' \in BOOLEAN /\ running' \in BOOLEAN
        /\ pc' \in Places
    BY <1>1, <1>2 DEF TypeOK
  <2>2. bp' \in Nat
    BY <1>2, <1>3
  <2>3. taken' \in 0 .. Len(fed')
    BY <1>2, <1>3
  <2>4. Len(fed') - taken' <= FifoBytes
    BY <1>2
  <2>5. QED
    BY <1>2, <2>1, <2>2, <2>3, <2>4 DEF TypeOK
<1>8. Account'
  <2>1. bp' = msg'.data + Len(fed')
    BY <1>2, <1>3, <1>4, <1>5
  <2>2. QED
    BY <1>2, <1>6, <2>1 DEF Account
<1>9. EngineState'
  <2>1. running
    <3>1. ASSUME ~running PROVE FALSE
      BY <1>1, <1>3, <1>4, <3>1 DEF EngineState
    <3>2. QED
      BY <3>1
  <2>2. QED
    BY <1>1, <1>2, <2>1 DEF EngineState
<1>10. Copied'
  BY DEF Copied
<1>11. QED
  BY <1>7, <1>8, <1>9, <1>10 DEF IInv

(* Going from one loop to the next. *)
LEMMA LeaveKeeps ==
    ASSUME IInv, NEW from, NEW to, Leave(from, to),
           \/ from = "prefix" /\ to = "blocks" /\ (len = 0 \/ bp % 4 = 0)
           \/ from = "blocks" /\ to = "words" /\ len < 32
           \/ from = "words" /\ to = "tail"
           \/ from = "tail" /\ to = "poll" /\ len = 0
           \/ from = "poll" /\ to = "copy" /\ itop # 0
    PROVE  IInv'
<1>1. /\ pc = from /\ pc' = to /\ i' = 0
      /\ UNCHANGED <<msg, bp, len, digest, msglen, int_en, taken, running, sts, fed, itop>>
  BY DEF Leave, config, engine
<1>2. TypeOK'
  BY <1>1 DEF IInv, TypeOK, Places
<1>3. len \in Nat /\ i \in 0 .. 7 /\ Len(fed) \in Nat /\ msg.len \in Nat
  BY Sha256Assumption DEF IInv, TypeOK
<1>4. Account'
  BY <1>1, <1>3 DEF IInv, Account, Feeding, Copied
<1>5. EngineState'
  BY <1>1 DEF IInv, EngineState
<1>6. Copied'
  BY <1>1 DEF Copied
<1>7. QED
  BY <1>2, <1>4, <1>5, <1>6 DEF IInv

-----------------------------------------------------------------------------
(* One lemma per action. *)
LEMMA CallKeeps ==
    ASSUME IInv, NEW m \in Messages, Call(m) PROVE IInv'
<1>1. /\ pc = "idle" /\ pc' = "configure" /\ msg' = m /\ bp' = m.data /\ len' = m.len
      /\ UNCHANGED <<i, digest, msglen, int_en, taken, running, sts, fed, itop>>
  BY DEF Call, config, engine
<1>2. m.data \in Nat /\ m.len \in Nat
  BY Sha256Assumption
<1>3. TypeOK'
  BY <1>1, <1>2 DEF IInv, TypeOK, Places
<1>4. Account' /\ Copied'
  BY <1>1 DEF IInv, Account, Copied, Feeding
<1>5. EngineState'
  BY <1>1 DEF IInv, EngineState
<1>6. QED
  BY <1>3, <1>4, <1>5 DEF IInv

LEMMA ConfigureKeeps ==
    ASSUME IInv, configure PROVE IInv'
<1>1. /\ pc = "configure" /\ pc' = "trig_go" /\ itop' = 0 /\ msglen' = len /\ int_en' = TRUE
      /\ UNCHANGED <<msg, bp, len, i, digest, taken, running, sts, fed>>
  BY DEF configure, engine
<1>2. int_en' \in BOOLEAN
  BY <1>1, Zenon
<1>3. TypeOK'
  BY <1>1, <1>2 DEF IInv, TypeOK, Places
<1>4. Account' /\ Copied'
  BY <1>1 DEF IInv, Account, Copied, Feeding
<1>5. EngineState'
  BY <1>1 DEF IInv, EngineState, Account
<1>6. QED
  BY <1>3, <1>4, <1>5 DEF IInv

LEMMA TrigGoKeeps ==
    ASSUME IInv, trig_go PROVE IInv'
<1>1. /\ pc = "trig_go" /\ pc' = "prefix" /\ running' = TRUE /\ taken' = 0
      /\ fed' = SubSeq(fed, taken + 1, Len(fed))
      /\ UNCHANGED <<msg, bp, len, i, digest, msglen, int_en, itop, sts>>
  BY DEF trig_go, config
<1>2. fed \in Seq(Nat) /\ Len(fed) \in Nat /\ taken = Len(fed)
  BY <1>1 DEF IInv, TypeOK, EngineState
<1>3. fed' = <<>>
  BY <1>1, <1>2, SubSeqEmpty
<1>4. fed' \in Seq(Nat) /\ Len(fed') = 0 /\ FifoBytes \in Nat
  BY <1>3, Sha256Assumption
<1>5. running' \in BOOLEAN
  BY <1>1, Zenon
<1>6. TypeOK'
  BY <1>1, <1>4, <1>5 DEF IInv, TypeOK, Places
<1>7. msg.data \in Nat /\ msg.len \in Nat
  BY Sha256Assumption DEF IInv, TypeOK
<1>8. Account' /\ Copied'
  BY <1>1, <1>4, <1>7 DEF IInv, Account, Copied, Feeding
<1>9. EngineState'
  BY <1>1, <1>7 DEF IInv, EngineState, TypeOK
<1>10. QED
  BY <1>6, <1>8, <1>9 DEF IInv

LEMMA PrefixKeeps ==
    ASSUME IInv, prefix PROVE IInv'
<1>1. CASE pc = "prefix" /\ len > 0 /\ bp % 4 # 0 /\ Store(1) /\ len' = len - 1
           /\ UNCHANGED <<pc, i>>
  <2>1. /\ len \in Nat /\ i \in 0 .. 7 /\ i = 0 /\ Len(fed) \in Nat /\ msg.len \in Nat
        /\ Len(fed) + len = msg.len
    BY <1>1, Sha256Assumption DEF IInv, TypeOK, Account, Copied, Feeding
  <2>2. len' \in Nat /\ i' \in 0 .. 7 /\ i' = 0
        /\ Len(fed) + 1 <= msg.len /\ Len(fed) + 1 + len' = msg.len
    BY <1>1, <2>1
  <2>3. QED
    BY <1>1, <2>2, FeedKeeps DEF Feeding
<1>2. CASE (len = 0 \/ bp % 4 = 0) /\ Leave("prefix", "blocks")
  BY <1>2, LeaveKeeps
<1>3. QED
  BY <1>1, <1>2 DEF prefix

LEMMA BlocksKeeps ==
    ASSUME IInv, blocks PROVE IInv'
<1>1. CASE /\ pc = "blocks" /\ len >= 32 /\ Store(4) /\ UNCHANGED pc
           /\ IF i < 7 THEN i' = i + 1 /\ UNCHANGED len ELSE i' = 0 /\ len' = len - 32
  <2>1. /\ len \in Nat /\ i \in 0 .. 7 /\ Len(fed) \in Nat /\ msg.len \in Nat /\ bp \in Nat
        /\ Len(fed) + len = msg.len + 4 * i
        /\ bp % 4 = 0
    BY <1>1, Sha256Assumption DEF IInv, TypeOK, Account, Copied, Feeding
  <2>2. /\ len' \in Nat /\ i' \in 0 .. 7
        /\ Len(fed) + 4 + len' = msg.len + 4 * i'
        /\ i' > 0 => len' >= 32
    <3>1. CASE i < 7
      BY <1>1, <2>1, <3>1
    <3>2. CASE ~(i < 7)
      <4>1. i = 7 /\ i' = 0 /\ len' = len - 32
        BY <1>1, <2>1, <3>2
      <4>2. QED
        BY <1>1, <2>1, <4>1
    <3>3. QED
      BY <3>1, <3>2
  <2>3. Len(fed) + 4 <= msg.len /\ (bp + 4) % 4 = 0
    BY <1>1, <2>1
  <2>4. QED
    BY <1>1, <2>2, <2>3, FeedKeeps DEF Feeding
<1>2. CASE len < 32 /\ Leave("blocks", "words")
  BY <1>2, LeaveKeeps
<1>3. QED
  BY <1>1, <1>2 DEF blocks

LEMMA WordsKeeps ==
    ASSUME IInv, words PROVE IInv'
<1>1. CASE pc = "words" /\ len >= 4 /\ Store(4) /\ len' = len - 4 /\ UNCHANGED <<pc, i>>
  <2>1. /\ len \in Nat /\ i = 0 /\ Len(fed) \in Nat /\ msg.len \in Nat /\ bp \in Nat
        /\ Len(fed) + len = msg.len
        /\ bp % 4 = 0
    BY <1>1, Sha256Assumption DEF IInv, TypeOK, Account, Copied, Feeding
  <2>2. /\ len' \in Nat /\ i' \in 0 .. 7 /\ i' = 0
        /\ Len(fed) + 4 + len' = msg.len /\ Len(fed) + 4 <= msg.len
        /\ (bp + 4) % 4 = 0
    BY <1>1, <2>1
  <2>3. QED
    BY <1>1, <2>2, FeedKeeps DEF Feeding
<1>2. CASE len < 4 /\ Leave("words", "tail")
  BY <1>2, LeaveKeeps
<1>3. QED
  BY <1>1, <1>2 DEF words

LEMMA TailKeeps ==
    ASSUME IInv, tail PROVE IInv'
<1>1. CASE pc = "tail" /\ len > 0 /\ Store(1) /\ len' = len - 1 /\ UNCHANGED <<pc, i>>
  <2>1. /\ len \in Nat /\ i = 0 /\ Len(fed) \in Nat /\ msg.len \in Nat
        /\ Len(fed) + len = msg.len
    BY <1>1, Sha256Assumption DEF IInv, TypeOK, Account, Copied, Feeding
  <2>2. /\ len' \in Nat /\ i' \in 0 .. 7 /\ i' = 0
        /\ Len(fed) + 1 + len' = msg.len /\ Len(fed) + 1 <= msg.len
    BY <1>1, <2>1
  <2>3. QED
    BY <1>1, <2>2, FeedKeeps DEF Feeding
<1>2. CASE len = 0 /\ Leave("tail", "poll")
  BY <1>2, LeaveKeeps
<1>3. QED
  BY <1>1, <1>2 DEF tail

LEMMA CopyKeeps ==
    ASSUME IInv, copy PROVE IInv'
<1>1. /\ pc = "copy" /\ digest' = [digest EXCEPT ![i] = sts]
      /\ IF i < 7 THEN i' = i + 1 /\ pc' = "copy" ELSE i' = 0 /\ pc' = "ack"
      /\ UNCHANGED <<msg, bp, len, msglen, int_en, taken, running, sts, fed, itop>>
  BY DEF copy, config, engine
<1>2. /\ i \in 0 .. 7 /\ digest \in [0 .. 7 -> Digests] /\ sts \in Digests
      /\ sts = Bytes(msg)
      /\ \A w \in 0 .. 7 : w < i => digest[w] = Bytes(msg)
  BY <1>1 DEF IInv, TypeOK, EngineState, Copied
<1>3. digest' \in [0 .. 7 -> Digests] /\ i' \in 0 .. 7
  BY <1>1, <1>2
<1>4. \A w \in 0 .. 7 : w <= i => digest'[w] = Bytes(msg)
  BY <1>1, <1>2
<1>5. TypeOK'
  BY <1>1, <1>3 DEF IInv, TypeOK, Places
<1>6. Account' /\ EngineState'
  BY <1>1 DEF IInv, Account, EngineState, Feeding
<1>7. Bytes(msg') = Bytes(msg)
  BY <1>1 DEF Bytes
<1>8. Copied'
  BY <1>1, <1>2, <1>4, <1>7 DEF Copied
<1>9. QED
  BY <1>5, <1>6, <1>8 DEF IInv

LEMMA AckKeeps ==
    ASSUME IInv, ack PROVE IInv'
<1>1. /\ pc = "ack" /\ pc' = "idle" /\ itop' = 0
      /\ UNCHANGED <<msg, bp, len, i, digest, msglen, int_en, taken, running, sts, fed>>
  BY DEF ack, config, engine
<1>2. TypeOK'
  BY <1>1 DEF IInv, TypeOK, Places
<1>3. Account'
  BY <1>1 DEF Account, Feeding
<1>4. EngineState'
  BY <1>1 DEF IInv, Account, EngineState
<1>5. Copied'
  BY <1>1 DEF IInv, Copied
<1>6. QED
  BY <1>2, <1>3, <1>4, <1>5 DEF IInv

LEMMA TakeKeeps ==
    ASSUME IInv, Take PROVE IInv'
<1>1. /\ running /\ taken < msglen /\ taken < Len(fed) /\ taken' = taken + 1
      /\ UNCHANGED <<pc, msg, bp, len, i, digest, msglen, int_en, running, sts, fed, itop>>
  BY DEF Take, driver, config
<1>2. taken \in Nat /\ Len(fed) \in Nat /\ msglen \in Nat /\ FifoBytes \in Nat
      /\ Len(fed) - taken <= FifoBytes
  BY Sha256Assumption DEF IInv, TypeOK
<1>3. taken' \in 0 .. Len(fed') /\ Len(fed') - taken' <= FifoBytes /\ taken' <= msglen'
  BY <1>1, <1>2
<1>4. TypeOK'
  BY <1>1, <1>3 DEF IInv, TypeOK
<1>5. Account' /\ Copied'
  BY <1>1 DEF IInv, Account, Copied
<1>6. EngineState'
  BY <1>1, <1>3 DEF IInv, EngineState
<1>7. QED
  BY <1>4, <1>5, <1>6 DEF IInv

LEMMA DoneKeeps ==
    ASSUME IInv, Done PROVE IInv'
<1>1. /\ running /\ taken = msglen /\ sts' = SubSeq(fed, 1, msglen)
      /\ itop' = (IF int_en THEN 1 ELSE itop) /\ running' = FALSE
      /\ UNCHANGED <<pc, msg, bp, len, i, digest, msglen, int_en, taken, fed>>
  BY DEF Done, driver, config
<1>2. pc \in Feeding \cup {"poll"}
  BY <1>1 DEF IInv, TypeOK, Places, EngineState, Feeding
<1>3. /\ msg \in Messages /\ msg.len \in Nat /\ msg.data \in Nat
      /\ fed \in Seq(Nat) /\ Len(fed) \in Nat /\ taken \in 0 .. Len(fed) /\ len \in Nat
      /\ i \in 0 .. 7 /\ bp \in Nat
      /\ msglen = msg.len /\ int_en
  BY <1>2, Sha256Assumption DEF IInv, TypeOK, EngineState, Feeding
<1>4. Len(fed) <= msg.len
  BY <1>2, <1>3 DEF IInv, Account, Copied, Feeding
<1>5. Len(fed) = msg.len /\ taken = msg.len
  BY <1>1, <1>3, <1>4
<1>6. sts' = Bytes(msg)
  <2>1. /\ sts' \in Seq(Nat) /\ Len(sts') = msg.len
        /\ \A j \in 1 .. msg.len : sts'[j] = fed[j]
    BY <1>1, <1>3, <1>5, SubSeqProperties
  <2>2. /\ Bytes(msg) \in Seq(Nat) /\ Len(Bytes(msg)) = msg.len
        /\ \A j \in 1 .. msg.len : Bytes(msg)[j] = msg.data + j - 1
    BY <1>3, BytesFacts
  <2>3. \A j \in 1 .. Len(fed) : fed[j] = msg.data + j - 1
    BY <1>2 DEF IInv, Account
  <2>4. \A j \in 1 .. Len(sts') : sts'[j] = Bytes(msg)[j]
    BY <1>5, <2>1, <2>2, <2>3
  <2>5. QED
    BY <2>1, <2>2, <2>4, SeqEqual
<1>7. sts' \in Digests /\ running' \in BOOLEAN /\ itop' = 1
  <2>1. sts' \in Seq(Nat)
    BY <1>3, <1>6, BytesFacts
  <2>2. running' \in BOOLEAN
    BY <1>1, Zenon
  <2>3. QED
    BY <1>1, <1>3, <2>1, <2>2 DEF Digests
<1>8. TypeOK'
  BY <1>1, <1>7 DEF IInv, TypeOK
<1>9. Account' /\ Copied'
  BY <1>1, <1>2 DEF IInv, Account, Copied, Feeding
<1>10. EngineState'
  <2>1. Bytes(msg') = Bytes(msg)
    BY <1>1 DEF Bytes
  <2>2. QED
    BY <1>1, <1>2, <1>3, <1>5, <1>6, <1>7, <2>1 DEF EngineState, Feeding
<1>11. QED
  BY <1>8, <1>9, <1>10 DEF IInv

LEMMA StepIInv == IInv /\ [Next]_vars => IInv'
<1> SUFFICES ASSUME IInv, [Next]_vars PROVE IInv'
  OBVIOUS
<1>1. CASE configure
  BY <1>1, ConfigureKeeps
<1>2. CASE trig_go
  BY <1>2, TrigGoKeeps
<1>3. CASE prefix
  BY <1>3, PrefixKeeps
<1>4. CASE blocks
  BY <1>4, BlocksKeeps
<1>5. CASE words
  BY <1>5, WordsKeeps
<1>6. CASE tail
  BY <1>6, TailKeeps
<1>7. CASE poll
  BY <1>7, LeaveKeeps DEF poll
<1>8. CASE copy
  BY <1>8, CopyKeeps
<1>9. CASE ack
  BY <1>9, AckKeeps
<1>10. CASE Take
  BY <1>10, TakeKeeps
<1>11. CASE Done
  BY <1>11, DoneKeeps
<1>12. CASE \E m \in Messages : Call(m)
  BY <1>12, CallKeeps
<1>13. CASE UNCHANGED vars
  BY <1>13 DEF vars, driver, config, engine, IInv, TypeOK, Account, EngineState, Copied, Bytes
<1>14. QED
  BY <1>1, <1>2, <1>3, <1>4, <1>5, <1>6, <1>7, <1>8, <1>9, <1>10, <1>11, <1>12, <1>13
     DEF Next, Driver, Engine

(* IInv holds throughout: everything below follows from it. *)
THEOREM IInvariance == Spec => []IInv
<1>1. QED
  BY InitIInv, StepIInv, PTL DEF Spec

-----------------------------------------------------------------------------
(* Driver and engine keep their types and the input FIFO never overflows     *)
(* (the stores of sha256.c 14-35).                                           *)
THEOREM TypeCorrect == Spec => []TypeOK
<1>1. IInv => TypeOK
  BY DEF IInv
<1>2. QED
  BY <1>1, IInvariance, PTL

(* Whatever the alignment and the length of the message, the engine is fed   *)
(* a prefix of exactly its bytes in order (sha256.c 14-35).                  *)
THEOREM FeedsTheMessage == Spec => []FedInOrder
<1>1. IInv => FedInOrder
  <2> SUFFICES ASSUME IInv, pc \notin {"idle", "configure", "trig_go"}
               PROVE  Len(fed) <= msg.len /\ \A j \in 1 .. Len(fed) : fed[j] = msg.data + j - 1
    BY DEF FedInOrder
  <2>1. pc \in Feeding \cup {"poll", "copy", "ack"}
    BY DEF IInv, TypeOK, Places, Feeding
  <2>2. len \in Nat /\ i \in 0 .. 7 /\ Len(fed) \in Nat /\ msg.len \in Nat
    BY Sha256Assumption DEF IInv, TypeOK
  <2>3. Len(fed) <= msg.len
    BY <2>1, <2>2 DEF IInv, Account, Copied, Feeding
  <2>4. QED
    BY <2>1, <2>3 DEF IInv, Account
<1>2. QED
  BY <1>1, IInvariance, PTL

(* The word stores of both word loops read at word boundaries: the first     *)
(* loop leaves an aligned pointer or nothing to do (sha256.c 14-29).         *)
THEOREM WordsAreAligned == Spec => []WordReadsAligned
<1>1. IInv => WordReadsAligned
  BY DEF IInv, TypeOK, Account, WordReadsAligned
<1>2. QED
  BY <1>1, IInvariance, PTL

(* SHA_ITOP, once the engine is started, speaks of this call's digest only:  *)
(* the early clear and the late clear of sha256.c 8 and 43 suffice.          *)
THEOREM ItopIsFresh == Spec => []ItopIsForThisMessage
<1>1. IInv => ItopIsForThisMessage
  <2> SUFFICES ASSUME IInv, pc \notin {"idle", "configure"}, itop # 0
               PROVE  ~running /\ sts = Bytes(msg)
    BY DEF ItopIsForThisMessage
  <2>1. pc # "trig_go" /\ ~running
    BY DEF IInv, EngineState
  <2>2. QED
    BY <2>1 DEF IInv, EngineState
<1>2. QED
  BY <1>1, IInvariance, PTL

(* sha256() returns only with the engine at rest, its FIFO empty and nothing *)
(* pending (sha256.c 37-43).                                                 *)
THEOREM ReturnsAtRest == Spec => []EngineAtRest
<1>1. IInv => EngineAtRest
  BY DEF IInv, EngineState, EngineAtRest
<1>2. QED
  BY <1>1, IInvariance, PTL

-----------------------------------------------------------------------------
(* The service's view of the driver's variables. *)
Result == IF pc = "idle" /\ digest[0] # NoDigest THEN digest ELSE NoDigest

LEMMA ServiceFacts ==
    /\ \A m : Service!Bytes(m) = Bytes(m)
    /\ \A m \in Messages : Bytes(m) # NoDigest
<1>1. \A m : Service!Bytes(m) = Bytes(m)
  BY DEF Service!Bytes, Bytes
<1>2. \A m \in Messages : Bytes(m) # NoDigest
  BY BytesFacts, Sha256Assumption
<1>3. QED
  BY <1>1, <1>2

LEMMA InitMaps == Init => Service!Init
BY DEF Init, Service!Init

(* The first step of a call is the service's Call, the last its Return, and  *)
(* every step between them a stutter.                                        *)
LEMMA StepMaps == IInv /\ [Next]_vars => [Service!Next]_(Service!vars)
<1> SUFFICES ASSUME IInv, [Next]_vars PROVE [Service!Next]_(Service!vars)
  OBVIOUS
<1>1. ASSUME pc # "idle", pc' # "idle", UNCHANGED msg PROVE UNCHANGED Service!vars
  BY <1>1 DEF Service!vars
<1>2. ASSUME UNCHANGED <<pc, msg, digest>> PROVE UNCHANGED Service!vars
  BY <1>2 DEF Service!vars
<1>3. CASE configure \/ trig_go \/ copy
  BY <1>1, <1>3 DEF configure, trig_go, copy
<1>4. CASE prefix \/ blocks \/ words \/ tail \/ poll
  BY <1>1, <1>4 DEF prefix, blocks, words, tail, poll, Store, Leave
<1>5. CASE ack
  <2>1. pc = "ack" /\ pc' = "idle" /\ UNCHANGED <<msg, digest>>
    BY <1>5 DEF ack
  <2>2. /\ digest \in [0 .. 7 -> Digests] /\ msg \in Messages
        /\ \A w \in 0 .. 7 : digest[w] = Bytes(msg)
    BY <2>1 DEF IInv, TypeOK, Copied
  <2>3. digest = [w \in 0 .. 7 |-> Service!Bytes(msg)]
    BY <2>2, ServiceFacts
  <2>4. digest'[0] # NoDigest
    BY <2>1, <2>2, ServiceFacts
  <2>5. Service!Return
    BY <2>1, <2>3, <2>4 DEF Service!Return
  <2>6. QED
    BY <2>5 DEF Service!Next
<1>6. CASE Take \/ Done
  BY <1>2, <1>6 DEF Take, Done, driver
<1>7. ASSUME NEW m \in Messages, Call(m) PROVE Service!Next
  <2>1. pc = "idle" /\ pc' = "configure" /\ msg' = m
    BY <1>7 DEF Call
  <2>2. Service!Call(m)
    BY <2>1 DEF Service!Call
  <2>3. QED
    BY <2>2 DEF Service!Next
<1>8. CASE UNCHANGED vars
  BY <1>2, <1>8 DEF vars, driver
<1>9. QED
  BY <1>3, <1>4, <1>5, <1>6, <1>7, <1>8 DEF Next, Driver, Engine

(* sha256() returns the digest of its own message in all eight words,        *)
(* whatever the interleaving of driver and engine and whatever was hashed    *)
(* before: its steps are those of the hash service (sha256.c 5-44).          *)
THEOREM DriverImplementsService == Spec => ImplementsServiceSafely
<1>1. QED
  BY InitMaps, StepMaps, IInvariance, PTL DEF Spec, ImplementsServiceSafely
=============================================================================
