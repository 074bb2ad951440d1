------------------------------- MODULE Sha256 -------------------------------
(***************************************************************************)
(* src/sha256.c and the SHA engine of the key manager that it drives.        *)
(*                                                                           *)
(* The driver feeds the message to the engine's input FIFO, first single    *)
(* bytes up to a word boundary, then blocks of eight words, then words,      *)
(* then single bytes, polls SHA_ITOP and copies the digest registers.  The   *)
(* engine takes bytes from the FIFO whenever it likes.  The engine is not    *)
(* part of the repository: a write to a full FIFO stalls the bus, TRIG_GO    *)
(* starts a message of MSGLEN bytes, what the FIFO still holds counts as its  *)
(* beginning, and the end of the message latches SHA_ITOP.                   *)
(*                                                                           *)
(* A byte is its address, a digest the sequence of bytes hashed.             *)
(***************************************************************************)
EXTENDS Integers, Sequences

CONSTANTS
    Messages,     \* the messages hashed: [data, len]
    FifoBytes,    \* capacity of SHA_INPUT_FIFO
    NoDigest      \* a digest word nothing was copied to

ASSUME Sha256Assumption ==
    /\ Messages \subseteq [data : Nat, len : Nat]
    /\ FifoBytes \in Nat /\ FifoBytes >= 4
    /\ NoDigest \notin Seq(Nat)

VARIABLES
    pc,        \* the driver's place in sha256()
    msg,       \* its arguments data and len
    bp,        \* bp or wp: the next byte to feed
    len,       \* bytes still to feed, as the driver counts them
    i,         \* the word inside a block, or of the digest
    digest,    \* the caller's eight words
    fed,       \* the bytes written to the FIFO since TRIG_GO
    taken,     \* how many of them the engine has taken
    msglen,    \* SHA_CFG_MSGLEN_LO, _HI
    int_en,    \* SHA_CFG_EN.INT_EN_DONE
    running,   \* the engine works on a message
    itop,      \* SHA_ITOP
    sts        \* SHA_STS_H0..7

driver == <<pc, msg, bp, len, i, digest>>
config == <<msglen, int_en>>
engine == <<taken, running, sts>>
vars == <<driver, config, engine, fed, itop>>

Init ==
    /\ pc = "idle" /\ msg \in Messages /\ bp = 0 /\ len = 0 /\ i = 0
    /\ digest = [w \in 0 .. 7 |-> NoDigest]
    /\ fed = <<>> /\ taken = 0 /\ msglen = 0 /\ int_en = FALSE
    /\ running = FALSE /\ itop = 0 /\ sts = NoDigest

-----------------------------------------------------------------------------
(* The driver. *)

Call(m) ==
    /\ pc = "idle"
    /\ pc' = "configure" /\ msg' = m /\ bp' = m.data /\ len' = m.len
    /\ UNCHANGED <<i, digest, config, engine, fed, itop>>

(* Mutant: the length is one too small. *)
configure_short ==
    /\ pc = "configure"
    /\ itop' = 0 /\ msglen' = len - 1 /\ int_en' = TRUE
    /\ pc' = "trig_go"
    /\ UNCHANGED <<msg, bp, len, i, digest, engine, fed>>

(* SHA_ITOP = 0, MSGLEN, INT_EN_DONE: the engine is not running yet. *)
configure ==
    /\ pc = "configure"
    /\ itop' = 0 /\ msglen' = len /\ int_en' = TRUE
    /\ pc' = "trig_go"
    /\ UNCHANGED <<msg, bp, len, i, digest, engine, fed>>

trig_go ==
    /\ pc = "trig_go"
    /\ running' = TRUE /\ taken' = 0
    /\ fed' = SubSeq(fed, taken + 1, Len(fed))
    /\ pc' = "prefix"
    /\ UNCHANGED <<msg, bp, len, i, digest, config, itop, sts>>

(* A store of size bytes to SHA_INPUT_FIFO stalls until the FIFO has room.   *)
Store(size) ==
    /\ Len(fed) - taken + size <= FifoBytes
    /\ fed' = fed \o [j \in 1 .. size |-> bp + j - 1]
    /\ bp' = bp + size
    /\ UNCHANGED <<msg, digest, config, engine, itop>>

Leave(from, to) ==
    /\ pc = from /\ pc' = to
    /\ i' = 0
    /\ UNCHANGED <<msg, bp, len, digest, config, engine, fed, itop>>

(* Mutant: no byte is fed ahead of the words. *)
prefix_skipped == Leave("prefix", "blocks")

(* while (len && ((uint32_t)bp & 3)): one byte *)
prefix ==
    \/ /\ pc = "prefix" /\ len > 0 /\ bp % 4 # 0
       /\ Store(1) /\ len' = len - 1
       /\ UNCHANGED <<pc, i>>
    \/ (len = 0 \/ bp % 4 = 0) /\ Leave("prefix", "blocks")

(* Mutant: nine words to a block. *)
blocks_of_nine ==
    \/ /\ pc = "blocks" /\ len >= 32
       /\ Store(4)
       /\ IF i < 8 THEN i' = i + 1 /\ UNCHANGED len ELSE i' = 0 /\ len' = len - 32
       /\ UNCHANGED pc
    \/ len < 32 /\ Leave("blocks", "words")

(* while (len >= 32): eight words *)
blocks ==
    \/ /\ pc = "blocks" /\ len >= 32
       /\ Store(4)
       /\ IF i < 7 THEN i' = i + 1 /\ UNCHANGED len ELSE i' = 0 /\ len' = len - 32
       /\ UNCHANGED pc
    \/ len < 32 /\ Leave("blocks", "words")

(* while (len >= 4): a word *)
words ==
    \/ /\ pc = "words" /\ len >= 4
       /\ Store(4) /\ len' = len - 4
       /\ UNCHANGED <<pc, i>>
    \/ len < 4 /\ Leave("words", "tail")

(* while (len): a byte *)
tail ==
    \/ /\ pc = "tail" /\ len > 0
       /\ Store(1) /\ len' = len - 1
       /\ UNCHANGED <<pc, i>>
    \/ len = 0 /\ Leave("tail", "poll")

(* Mutant: SHA_ITOP is not waited for. *)
poll_once == Leave("poll", "copy")

(* while (!SHA_ITOP); *)
poll == itop # 0 /\ Leave("poll", "copy")

copy ==
    /\ pc = "copy"
    /\ digest' = [digest EXCEPT ![i] = sts]
    /\ IF i < 7 THEN i' = i + 1 /\ UNCHANGED pc ELSE i' = 0 /\ pc' = "ack"
    /\ UNCHANGED <<msg, bp, len, config, engine, fed, itop>>

(* Mutant: SHA_ITOP is left set. *)
ack_forgotten ==
    /\ pc = "ack"
    /\ pc' = "idle"
    /\ UNCHANGED <<msg, bp, len, i, digest, config, engine, fed, itop>>

(* SHA_ITOP = 0, and sha256() returns. *)
ack ==
    /\ pc = "ack"
    /\ itop' = 0 /\ pc' = "idle"
    /\ UNCHANGED <<msg, bp, len, i, digest, config, engine, fed>>

Driver == configure \/ trig_go \/ prefix \/ blocks \/ words \/ tail \/ poll \/ copy \/ ack

-----------------------------------------------------------------------------
(* The engine. *)
Take ==
    /\ running /\ taken < msglen /\ taken < Len(fed)
    /\ taken' = taken + 1
    /\ UNCHANGED <<driver, config, running, sts, fed, itop>>

Done ==
    /\ running /\ taken = msglen
    /\ sts' = SubSeq(fed, 1, msglen)
    /\ itop' = IF int_en THEN 1 ELSE itop
    /\ running' = FALSE
    /\ UNCHANGED <<driver, config, taken, fed>>

Engine == Take \/ Done

Next == Driver \/ Engine \/ \E m \in Messages : Call(m)

Spec == Init /\ [][Next]_vars

(* The processor runs on, and the engine works off what it is given. *)
FairSpec == Spec /\ WF_vars(Driver) /\ WF_vars(Engine)

-----------------------------------------------------------------------------
(* Properties.                                                               *)

Places == {"idle", "configure", "trig_go", "prefix", "blocks", "words", "tail", "poll",
           "copy", "ack"}
Digests == Seq(Nat) \cup {NoDigest}

(* Driver and engine hold values of their types; the FIFO never overflows.   *)
TypeOK ==
    /\ pc \in Places
    /\ msg \in Messages
    /\ bp \in Nat /\ len \in Nat /\ i \in 0 .. 7
    /\ fed \in Seq(Nat) /\ taken \in 0 .. Len(fed)
    /\ Len(fed) - taken <= FifoBytes
    /\ msglen \in Nat /\ itop \in {0, 1}
    /\ int_en \in BOOLEAN /\ running \in BOOLEAN
    /\ sts \in Digests
    /\ digest \in [0 .. 7 -> Digests]

Bytes(m) == [j \in 1 .. m.len |-> m.data + j - 1]

(* The engine has been given a prefix of this message, byte for byte and in  *)
(* order, whichever of the four loops fed it, and nothing beyond its end     *)
(* (bytes past the end would become the start of the next message).          *)
FedInOrder ==
    pc \notin {"idle", "configure", "trig_go"} =>
        /\ Len(fed) <= msg.len
        /\ \A j \in 1 .. Len(fed) : fed[j] = msg.data + j - 1

(* Word stores read the message at word boundaries only: that is what the   *)
(* first loop is for.                                                        *)
WordReadsAligned ==
    (pc = "blocks" /\ len >= 32) \/ (pc = "words" /\ len >= 4) => bp % 4 = 0

(* SHA_ITOP never announces the digest of another message: once the driver   *)
(* has started the engine, it is set only over the digest of this call.      *)
ItopIsForThisMessage ==
    pc \notin {"idle", "configure"} /\ itop # 0 => ~running /\ sts = Bytes(msg)

(* When sha256() returns, the engine is at rest with an empty FIFO and       *)
(* nothing pending, as the next call assumes.                                *)
EngineAtRest ==
    pc = "idle" => ~running /\ taken = Len(fed) /\ itop = 0

(* The driver and the engine together are the hash service: every call       *)
(* returns, with the digest of its own message in all eight words.           *)
Service == INSTANCE HashService WITH
    Unspecified <- NoDigest,
    request <- msg,
    busy <- pc # "idle",
    result <- IF pc = "idle" /\ digest[0] # NoDigest THEN digest ELSE NoDigest
ImplementsService == Service!Spec

(* The part of ImplementsService that says nothing of fairness. *)
ImplementsServiceSafely == Service!Init /\ [][Service!Next]_(Service!vars)

-----------------------------------------------------------------------------
(* The inductive invariant behind them.                                      *)

Feeding == {"prefix", "blocks", "words", "tail"}

(* What the driver has fed and what it still counts add up to the message;   *)
(* inside a block, len still counts the words already stored.                *)
Account ==
    /\ pc \in {"configure", "trig_go"} => bp = msg.data /\ len = msg.len
    /\ pc \in Feeding => bp = msg.data + Len(fed)
    /\ pc \in Feeding \ {"blocks"} => Len(fed) + len = msg.len
    /\ pc = "blocks" => Len(fed) + len = msg.len + 4 * i /\ (i > 0 => len >= 32)
    /\ pc \in {"blocks", "words"} => len = 0 \/ bp % 4 = 0
    /\ pc \in {"poll", "copy", "ack"} => Len(fed) = msg.len
    /\ pc \in Feeding \cup {"poll", "copy", "ack"} =>
          \A j \in 1 .. Len(fed) : fed[j] = msg.data + j - 1

(* When the engine runs, and what SHA_ITOP stands for. *)
EngineState ==
    /\ pc \in {"idle", "configure", "trig_go"} => ~running /\ taken = Len(fed)
    /\ pc \in {"idle", "trig_go"} => itop = 0
    /\ pc \notin {"idle", "configure"} => msglen = msg.len /\ int_en
    /\ running => itop = 0 /\ taken <= msglen
    /\ pc \notin {"idle", "configure", "trig_go"} /\ ~running =>
          itop = 1 /\ taken = msg.len /\ sts = Bytes(msg)
    /\ pc \in {"copy", "ack"} => ~running

(* How much of the digest has been copied. *)
Copied ==
    /\ pc = "copy" => \A w \in 0 .. 7 : w < i => digest[w] = Bytes(msg)
    /\ pc = "ack" => \A w \in 0 .. 7 : digest[w] = Bytes(msg)
    /\ pc = "idle" => \/ \A w \in 0 .. 7 : digest[w] = Bytes(msg)
                     \/ \A w \in 0 .. 7 : digest[w] = NoDigest
    /\ pc \notin {"blocks", "copy"} => i = 0

IInv == TypeOK /\ Account /\ EngineState /\ Copied
=============================================================================
