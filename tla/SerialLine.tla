----------------------------- MODULE SerialLine -----------------------------
(***************************************************************************)
(* One direction of the serial line: frames encoded by UartLink, queued on *)
(* the transmit ring that the USART interrupt empties, a wire that loses   *)
(* and garbles bytes, and a receiver whose DMA writes a ring that nobody   *)
(* guards: a reader that falls a whole lap behind loses bytes without a    *)
(* trace.  The parser hunts for the next frame in whatever is left.        *)
(*                                                                         *)
(* A byte is a value and, for the two bytes of a checksum, the contents it *)
(* was computed over: the CRC-16 is taken to tell all contents apart.      *)
(***************************************************************************)
EXTENDS Naturals, SequencesExt

CONSTANTS
    Sync0, Sync1,    \* SERIAL_SYNC0, SERIAL_SYNC1
    MaxPayload,      \* SERIAL_MAX_PAYLOAD
    TxRingSize, RxRingSize,
    ReadChunk,       \* READ_CHUNK
    Capacity,        \* the receiver's frame buffer
    Payloads,        \* payloads given to send(), in order, all different
    Noise,           \* values a garbled byte may take
    MaxLineFaults    \* bound: bytes lost or garbled

ASSUME LineAssumption ==
    /\ {TxRingSize, RxRingSize} \subseteq Nat \ {0}
    /\ {Sync0, Sync1, MaxLineFaults} \cup Noise \subseteq Nat
    /\ Payloads \in Seq(Seq(Nat))
    /\ \A i, j \in DOMAIN Payloads : Payloads[i] = Payloads[j] => i = j

VARIABLES
    given,           \* payloads given to send()
    push,            \* uart1TxPush() in progress: [step, frame, used]
    txRing, txHead, txTail,
    txeie,           \* the transmit interrupt is enabled
    faultsLeft,
    rxRing, rxHead, rxTail,
    pendingBytes,    \* m_pending from m_pendingIndex on
    filling,         \* receive() is in the stream's read()
    parser,          \* SerialFrameParser
    delivered        \* payloads receive() returned

lineVars == <<given, push, txRing, txHead, txTail, txeie, faultsLeft, rxRing, rxHead,
              rxTail, pendingBytes, filling, parser, delivered>>

Byte(v) == [v |-> v, sum |-> <<>>]

(* crc16() over the length bytes and the payload, low byte first.          *)
Crc(contents) == <<[v |-> Len(contents), sum |-> contents],
                   [v |-> Sync0, sum |-> contents]>>

(* encodeSerialFrame(), for a payload that is neither empty nor too large. *)
Encodable(payload) == Len(payload) \in 1 .. MaxPayload
Contents(payload) == <<Len(payload), 0>> \o payload
Encode(payload) ==
    [k \in 1 .. Len(payload) + 4 |->
        Byte(IF k = 1 THEN Sync0 ELSE IF k = 2 THEN Sync1 ELSE Contents(payload)[k - 2])]
    \o Crc(Contents(payload))

NoPush == [step |-> "none", frame |-> <<>>, used |-> 0]
Hunting == [state |-> "SYNC0", contents |-> <<>>, crcLow |-> Byte(0)]

LineInit ==
    /\ given = 0 /\ push = NoPush
    /\ txRing = [k \in 0 .. TxRingSize - 1 |-> Byte(0)] /\ txHead = 0 /\ txTail = 0
    /\ txeie = FALSE /\ faultsLeft = MaxLineFaults
    /\ rxRing = [k \in 0 .. RxRingSize - 1 |-> Byte(0)] /\ rxHead = 0 /\ rxTail = 0
    /\ pendingBytes = <<>> /\ filling = TRUE /\ parser = Hunting /\ delivered = <<>>

Sender == UNCHANGED <<given, push, txRing, txHead>>
Receiver == UNCHANGED <<rxTail, pendingBytes, filling, parser, delivered>>

-----------------------------------------------------------------------------
(* UartLink::send() and uart1TxPush(), which the transmit interrupt may    *)
(* cut into between any two of its steps.                                  *)

Queued == txHead - txTail

(* All or nothing: a frame without room is refused whole.                  *)
Send ==
    /\ push.step = "none" /\ given < Len(Payloads)
    /\ given' = given + 1
    /\ LET payload == Payloads[given + 1]
           fits == Encodable(payload) /\ Len(Encode(payload)) <= (TxRingSize - 1) - Queued
       IN push' = IF fits THEN [step |-> "copy", frame |-> Encode(payload), used |-> Queued]
                          ELSE NoPush
    /\ UNCHANGED <<txRing, txHead, txTail, txeie, faultsLeft, rxRing, rxHead>> /\ Receiver

CopyFrame ==
    /\ push.step = "copy"
    /\ txRing' = [k \in DOMAIN txRing |->
                     LET offset == ((k + TxRingSize) - (txHead % TxRingSize)) % TxRingSize
                     IN IF offset < Len(push.frame) THEN push.frame[offset + 1] ELSE txRing[k]]
    /\ push' = [push EXCEPT !.step = "publish"]
    /\ UNCHANGED <<given, txHead, txTail, txeie, faultsLeft, rxRing, rxHead>> /\ Receiver

(* The head moves only behind the bytes.                                   *)
Publish ==
    /\ push.step = "publish"
    /\ txHead' = txHead + Len(push.frame)
    /\ push' = [push EXCEPT !.step = "enable"]
    /\ UNCHANGED <<given, txRing, txTail, txeie, faultsLeft, rxRing, rxHead>> /\ Receiver

MutInterruptEnabled == txeie \/ push.used = 0
InterruptEnabled == TRUE
EnableInterrupt ==
    /\ push.step = "enable"
    /\ txeie' = InterruptEnabled
    /\ push' = NoPush
    /\ UNCHANGED <<given, txRing, txHead, txTail, faultsLeft, rxRing, rxHead>> /\ Receiver

-----------------------------------------------------------------------------
(* The wire carries a byte into the ring of the receiver's DMA, which      *)
(* never looks at how far the reader has got.                              *)
Arrives(byte) ==
    /\ rxRing' = [rxRing EXCEPT ![rxHead] = byte]
    /\ rxHead' = (rxHead + 1) % RxRingSize

Carry(byte) ==
    \/ Arrives(byte) /\ UNCHANGED faultsLeft
    \/ /\ faultsLeft > 0 /\ faultsLeft' = faultsLeft - 1
       /\ \/ UNCHANGED <<rxRing, rxHead>>
          \/ \E v \in Noise : Arrives(Byte(v))

(* USART1_IRQHandler(): the next byte goes out, or there is none and the   *)
(* interrupt is turned off.                                                *)
TxInterrupt ==
    /\ txeie
    /\ \/ /\ txTail = txHead
          /\ txeie' = FALSE
          /\ UNCHANGED <<txTail, faultsLeft, rxRing, rxHead>>
       \/ /\ txTail # txHead
          /\ Carry(txRing[txTail % TxRingSize])
          /\ txTail' = txTail + 1
          /\ UNCHANGED txeie
    /\ Sender /\ Receiver

-----------------------------------------------------------------------------
(* UartLink::receive() over Uart1Stream::read() and uart1RxPop().          *)

Wire == UNCHANGED <<txTail, txeie, faultsLeft, rxRing, rxHead>>

(* The read ends with the chunk full or the ring empty.                    *)
PopByte ==
    /\ filling /\ rxTail # rxHead
    /\ pendingBytes' = Append(pendingBytes, rxRing[rxTail])
    /\ rxTail' = (rxTail + 1) % RxRingSize
    /\ filling' = (rxTail' # rxHead /\ Len(pendingBytes') < ReadChunk)
    /\ UNCHANGED <<parser, delivered>> /\ Sender /\ Wire

(* SerialFrameParser::feed().                                              *)
Expected == parser.contents[1] + 256 * parser.contents[2]
Grown(byte) == Append(parser.contents, byte.v)

Parsed(byte) ==
    CASE parser.state = "SYNC0" ->
            [parser EXCEPT !.state = IF byte.v = Sync0 THEN "SYNC1" ELSE "SYNC0"]
      [] parser.state = "SYNC1" ->
            [Hunting EXCEPT !.state = IF byte.v = Sync1 THEN "LENGTH_LOW"
                                      ELSE IF byte.v = Sync0 THEN "SYNC1" ELSE "SYNC0"]
      [] parser.state = "LENGTH_LOW" ->
            [parser EXCEPT !.state = "LENGTH_HIGH", !.contents = Grown(byte)]
      [] parser.state = "LENGTH_HIGH" ->
            IF parser.contents[1] + 256 * byte.v \in 1 .. MaxPayload
            THEN [parser EXCEPT !.state = "PAYLOAD", !.contents = Grown(byte)]
            ELSE Hunting
      [] parser.state = "PAYLOAD" ->
            [parser EXCEPT !.contents = Grown(byte),
                           !.state = IF Len(parser.contents) - 1 = Expected
                                     THEN "CRC_LOW" ELSE "PAYLOAD"]
      [] parser.state = "CRC_LOW" ->
            [parser EXCEPT !.state = "CRC_HIGH", !.crcLow = byte]
      [] OTHER -> Hunting

(* The frame this byte completes is whole.                                 *)
Complete(byte) ==
    parser.state = "CRC_HIGH" /\ <<parser.crcLow, byte>> = Crc(parser.contents)

Payload == SubSeq(parser.contents, 3, Len(parser.contents))

(* A frame too large for the caller is dropped and the hunt goes on.       *)
FeedByte ==
    /\ ~filling
    /\ LET byte == Head(pendingBytes)
       IN /\ parser' = Parsed(byte)
          /\ delivered' = IF Complete(byte) /\ Expected <= Capacity
                          THEN Append(delivered, Payload) ELSE delivered
    /\ pendingBytes' = Tail(pendingBytes)
    /\ filling' = (Len(pendingBytes) = 1)
    /\ UNCHANGED rxTail /\ Sender /\ Wire

LineNext ==
    \/ Send \/ CopyFrame \/ Publish \/ EnableInterrupt
    \/ TxInterrupt \/ PopByte \/ FeedByte

LineSpec == LineInit /\ [][LineNext]_lineVars

-----------------------------------------------------------------------------
(* Queued bytes are on their way: no order of the push and the interrupt   *)
(* leaves the ring with bytes and nobody to send them.                     *)
RingDrains == Queued > 0 => txeie \/ push.step = "enable"

(* What the receiver hands out was sent: no frame is made up of the pieces *)
(* of others, none comes twice and none overtakes another, whatever bytes  *)
(* were lost, garbled or overwritten in the ring, and a sync pair inside a *)
(* payload misleads nobody.                                                *)
FramesAreSent ==
    \E place \in [1 .. Len(delivered) -> 1 .. given] :
        /\ \A k \in DOMAIN place : Payloads[place[k]] = delivered[k]
        /\ \A k, l \in DOMAIN place : k < l => place[k] < place[l]

LineIsWhole == RingDrains /\ FramesAreSent

-----------------------------------------------------------------------------
(* The inductive invariant (Platform_proof): the checksum bytes ahead of    *)
(* the parser, wherever they are, are in the order of the payloads.         *)

Wired == [v : Nat, sum : Seq(Nat)]

LineTypeOK ==
    /\ given \in 0 .. Len(Payloads)
    /\ push \in [step : {"none", "copy", "publish", "enable"}, frame : Seq(Wired), used : Nat]
    /\ txRing \in [0 .. TxRingSize - 1 -> Wired] /\ txHead \in Nat /\ txTail \in 0 .. txHead
    /\ txeie \in BOOLEAN /\ faultsLeft \in Nat
    /\ rxRing \in [0 .. RxRingSize - 1 -> Wired]
    /\ rxHead \in 0 .. RxRingSize - 1 /\ rxTail \in 0 .. RxRingSize - 1
    /\ pendingBytes \in Seq(Wired) /\ filling \in BOOLEAN
    /\ parser \in [state : {"SYNC0", "SYNC1", "LENGTH_LOW", "LENGTH_HIGH", "PAYLOAD", "CRC_LOW",
                            "CRC_HIGH"},
                    contents : Seq(Nat), crcLow : Wired]
    /\ parser.state \in {"LENGTH_HIGH", "PAYLOAD", "CRC_LOW", "CRC_HIGH"} => parser.contents # <<>>
    /\ delivered \in Seq(Seq(Nat))
    /\ ~filling => pendingBytes # <<>>

\* A frame being pushed has its room, and is in the ring when it is published.
Unpublished == IF push.step \in {"copy", "publish"} THEN push.frame ELSE <<>>
PushFits ==
    /\ Queued + Len(Unpublished) < TxRingSize
    /\ push.step = "publish" =>
          \A k \in 1 .. Len(push.frame) : txRing[(txHead + k - 1) % TxRingSize] = push.frame[k]

\* The bytes ahead of the parser, first the one it keeps: those a read has
\* fetched, those in the two rings, and the frame being pushed.
Kept == IF parser.state = "CRC_HIGH" THEN <<parser.crcLow>> ELSE <<>>
Received == IF rxTail <= rxHead THEN rxHead - rxTail ELSE rxHead + RxRingSize - rxTail
RxBytes == [k \in 1 .. Received |-> rxRing[(rxTail + k - 1) % RxRingSize]]
TxBytes == [k \in 1 .. Queued |-> txRing[(txTail + k - 1) % TxRingSize]]
Ahead == Kept \o (pendingBytes \o (RxBytes \o (TxBytes \o Unpublished)))

\* The byte is of the checksum of payload p.
Seals(byte, p) == byte.sum = Contents(Payloads[p])

\* Checksums come in the order of their payloads, two bytes each at most.
SealsInOrder(s) ==
    /\ \A i, j \in DOMAIN s : \A p, q \in DOMAIN Payloads :
          i < j /\ Seals(s[i], p) /\ Seals(s[j], q) => p <= q
    /\ \A i, j, k \in DOMAIN s : \A p \in DOMAIN Payloads :
          i < j /\ j < k /\ Seals(s[i], p) /\ Seals(s[j], p) => ~Seals(s[k], p)

\* What is ahead is of payloads given, later than those handed out.
LaterThan(s, place) ==
    \A k \in DOMAIN s : s[k].sum # <<>> =>
        \E p \in 1 .. given : Seals(s[k], p) /\ \A j \in DOMAIN place : place[j] < p

DeliveredBefore(s) ==
    \E place \in [1 .. Len(delivered) -> 1 .. given] :
        /\ \A k \in DOMAIN place : Payloads[place[k]] = delivered[k]
        /\ \A k, l \in DOMAIN place : k < l => place[k] < place[l]
        /\ LaterThan(s, place)

LineInv == LineTypeOK /\ RingDrains /\ PushFits /\ SealsInOrder(Ahead) /\ DeliveredBefore(Ahead)
=============================================================================
