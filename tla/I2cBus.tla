------------------------------- MODULE I2cBus -------------------------------
(***************************************************************************)
(* The polling I2C master of the flight board (i2c_bus.cpp) against the    *)
(* peripheral and a sensor.  Every register access is a step of its own:   *)
(* the peripheral goes on clocking bytes between two of them, an interrupt *)
(* may hold the program up for as long as it likes, and every wait on a    *)
(* flag may run out of its poll budget or end in a NACK.                   *)
(*                                                                         *)
(* The receive sequences depend on it: the peripheral acknowledges a byte  *)
(* when it has received it, so the ACK bit must be cleared before the last *)
(* one and the STOP requested around it, while DR and the shift register   *)
(* hold up to two bytes the program has not read.                          *)
(***************************************************************************)
EXTENDS Integers, Sequences

CONSTANTS
    Lengths,         \* lengths of the transfers the drivers ask for
    MaxTransfers     \* bound: transfers of an execution

ASSUME I2cAssumption == Lengths \subseteq Nat \ {0} /\ MaxTransfers \in Nat

VARIABLES
    ready,           \* m_ready: the bus came up
    pc,              \* where the program is in the transfer
    transfer,        \* [kind, len, left]: the call in progress
    data,            \* bytes stored into the caller's buffer
    result,          \* what the last transfer returned, "none" before
    transfers,       \* transfers begun, names the bytes of each
    i2c              \* I2C1 and the sensor on the other end

i2cVars == <<ready, pc, transfer, data, result, transfers, i2c>>

None == <<0, 0>>
NoTransfer == [kind |-> "none", len |-> 0, left |-> 0]

(* The peripheral: the control bits of CR1 the driver writes, the flags it *)
(* polls, the two receive registers, and how far the sensor has got.       *)
Quiet ==
    [start |-> FALSE, stop |-> FALSE, ack |-> FALSE, pos |-> FALSE,
     sb |-> FALSE, addr |-> FALSE, af |-> FALSE, busy |-> FALSE,
     tx |-> "none",              \* transmit register: none, empty, full
     sending |-> "none",         \* address byte on the wire: none, W, R
     dr |-> None, sh |-> None,   \* receive and shift register
     clocking |-> FALSE,         \* a data byte is being received
     acked |-> FALSE,            \* the sensor was told to go on
     of |-> 0, sent |-> 0]       \* the transfer it answers, bytes it sent

I2cInit ==
    /\ ready = FALSE /\ pc = "down" /\ transfer = NoTransfer /\ data = <<>>
    /\ result = "none" /\ transfers = 0 /\ i2c = Quiet

-----------------------------------------------------------------------------
(* The peripheral and the sensor.                                          *)

Hardware == UNCHANGED <<ready, pc, transfer, data, result, transfers>>

(* A requested START goes out, repeated or not.                            *)
HwStart ==
    /\ i2c.start
    /\ i2c' = [i2c EXCEPT !.start = FALSE, !.sb = TRUE, !.busy = TRUE,
                          !.tx = "none", !.clocking = FALSE, !.acked = FALSE]
    /\ Hardware

(* The address is acknowledged, or nobody answers to it.                   *)
HwAddress ==
    /\ i2c.sending # "none"
    /\ \E answers \in BOOLEAN :
          i2c' = [i2c EXCEPT !.sending = "none", !.addr = answers, !.af = ~answers]
    /\ Hardware

(* A byte written to DR has been shifted out, acknowledged or not.         *)
HwSent ==
    /\ i2c.tx = "full"
    /\ \E answers \in BOOLEAN :
          i2c' = [i2c EXCEPT !.tx = IF answers THEN "empty" ELSE "none", !.af = ~answers]
    /\ Hardware

(* A byte is in: it is acknowledged as the ACK bit says now, or with POS   *)
(* set, from the second byte on.  With both registers full, refused, or    *)
(* with a STOP due, the next one does not start.                           *)
HwByte ==
    /\ i2c.clocking
    /\ LET byte == <<i2c.of, i2c.sent + 1>>
           acked == (i2c.pos /\ i2c.sent = 0) \/ i2c.ack
       IN i2c' = [i2c EXCEPT
             !.dr = IF i2c.dr = None THEN byte ELSE i2c.dr,
             !.sh = IF i2c.dr = None THEN None ELSE byte,
             !.sent = i2c.sent + 1, !.acked = acked,
             !.clocking = acked /\ ~i2c.stop /\ i2c.dr = None]
    /\ Hardware

(* A requested STOP goes out, after the byte or the START in progress.     *)
HwStop ==
    /\ i2c.stop /\ ~i2c.start /\ ~i2c.clocking /\ i2c.sending = "none" /\ i2c.tx # "full"
    /\ i2c' = [i2c EXCEPT !.stop = FALSE, !.busy = FALSE, !.sb = FALSE,
                          !.addr = FALSE, !.tx = "none"]
    /\ Hardware

Txe == i2c.tx = "empty"
Rxne == i2c.dr # None
Btf == i2c.dr # None /\ i2c.sh # None

(* Reading DR hands out its byte and takes in the shift register's: a bus  *)
(* held because both were full goes on.                                    *)
ReadDr(p) ==
    [p EXCEPT !.dr = p.sh, !.sh = None,
              !.clocking = p.clocking \/ (p.sh # None /\ p.acked /\ ~p.stop)]

-----------------------------------------------------------------------------
(* The pieces of the driver.                                               *)

(* abortTransfer(), all but its wait: AF cleared, POS restored, STOP.      *)
Abort ==
    /\ i2c' = [i2c EXCEPT !.af = FALSE, !.stop = TRUE, !.pos = FALSE]
    /\ pc' = "aborted"
    /\ UNCHANGED <<ready, transfer, data, result, transfers>>

(* A transfer ends with what it returns.                                   *)
Return(r) ==
    /\ pc' = "idle" /\ result' = r
    /\ UNCHANGED <<ready, transfer, data, transfers>>

(* waitEvent(): the flag rose.  Or it did not: a NACK, or the poll budget  *)
(* ran out, whichever came first, and every caller aborts.                 *)
Rose(at, flag) == pc = at /\ flag
WaitFails(at, flag) == pc = at /\ ~flag /\ Abort

(* receive(), as far as its START: the ACK and POS bits for this length.   *)
Receive(p, n) ==
    [p EXCEPT !.start = TRUE, !.ack = (n >= 3), !.pos = (n = 2) \/ p.pos]

(* sendStart(): the address goes out behind the start bit.  Writing DR     *)
(* empties the receive side of what an earlier transfer left in it.        *)
SendAddress(direction) ==
    [i2c EXCEPT !.sb = FALSE, !.sending = direction, !.dr = None, !.sh = None,
                !.of = transfers, !.sent = 0]

ClearAddr(p) == [p EXCEPT !.addr = FALSE]

Store(p) == data' = Append(data, p.dr)

Go(to) == pc' = to /\ UNCHANGED <<ready, transfer, result, transfers>>

-----------------------------------------------------------------------------
(* The operations.                                                         *)

(* I2cBus::init(): the stuck sensor is clocked free, or holds SDA low and  *)
(* the bus stays down for good; the peripheral starts from reset.          *)
BusInit ==
    /\ pc = "down"
    /\ \E released \in BOOLEAN :
          /\ ready' = released
          /\ i2c' = IF released THEN Quiet ELSE i2c
    /\ pc' = "idle"
    /\ UNCHANGED <<transfer, data, result, transfers>>

(* probe(), write(), read() and readRegisters() up to their START: not     *)
(* ready or a busy bus refuses the call.                                   *)
Refused ==
    /\ pc = "idle" /\ transfers < MaxTransfers
    /\ ~ready \/ i2c.busy
    /\ result' = "failed"
    /\ transfers' = transfers + 1
    /\ UNCHANGED <<ready, pc, transfer, data, i2c>>

Begin(kind, n) ==
    /\ pc = "idle" /\ transfers < MaxTransfers
    /\ ready /\ ~i2c.busy
    /\ transfers' = transfers + 1
    /\ transfer' = [kind |-> kind, len |-> n, left |-> IF kind = "write" THEN n ELSE 1]
    /\ data' = <<>>
    /\ pc' = IF kind = "read" THEN "sb_r" ELSE "sb_w"
    /\ i2c' = IF kind = "read" THEN Receive(i2c, n) ELSE [i2c EXCEPT !.start = TRUE]
    /\ UNCHANGED <<ready, result>>

SendStartWrite ==
    \/ Rose("sb_w", i2c.sb) /\ i2c' = SendAddress("W") /\ Go("addr_w") /\ UNCHANGED data
    \/ transfer.kind # "probe" /\ WaitFails("sb_w", i2c.sb)

(* A probe that never saw its START requests the STOP and does not wait.   *)
ProbeGivesUp ==
    /\ pc = "sb_w" /\ transfer.kind = "probe" /\ ~i2c.sb
    /\ i2c' = [i2c EXCEPT !.stop = TRUE]
    /\ Return("failed")

Addressed ==
    \/ /\ Rose("addr_w", i2c.addr)
       /\ i2c' = IF transfer.kind = "probe"
                 THEN [ClearAddr(i2c) EXCEPT !.stop = TRUE]
                 ELSE [ClearAddr(i2c) EXCEPT !.tx = "empty"]
       /\ Go(IF transfer.kind = "probe" THEN "free" ELSE "tx") /\ UNCHANGED data
    \/ WaitFails("addr_w", i2c.addr)

(* A payload byte, or the register number.                                 *)
Transmit ==
    \/ /\ Rose("tx", Txe)
       /\ i2c' = [i2c EXCEPT !.tx = "full"]
       /\ transfer' = [transfer EXCEPT !.left = @ - 1]
       /\ pc' = IF transfer.left > 1 THEN "tx" ELSE "btf_w"
       /\ UNCHANGED <<ready, data, result, transfers>>
    \/ WaitFails("tx", Txe)

(* The write is over, or the register pointer is set and a repeated START  *)
(* opens the receive phase.                                                *)
Transmitted ==
    \/ /\ Rose("btf_w", Txe)
       /\ i2c' = IF transfer.kind = "write"
                 THEN [i2c EXCEPT !.stop = TRUE]
                 ELSE Receive(i2c, transfer.len)
       /\ Go(IF transfer.kind = "write" THEN "free" ELSE "sb_r") /\ UNCHANGED data
    \/ WaitFails("btf_w", Txe)

SendStartRead ==
    \/ Rose("sb_r", i2c.sb) /\ i2c' = SendAddress("R") /\ Go("addr_r") /\ UNCHANGED data
    \/ WaitFails("sb_r", i2c.sb)

(* More than three bytes to go: they are read as they come.  With three    *)
(* left the next read waits for BTF, two of them held.                     *)
MutReadEarly(remaining) == remaining > 2
ReadEarly(remaining) == remaining > 3
NextRead(stored) == IF ReadEarly(transfer.len - stored) THEN "rx" ELSE "btf_n"

AddressedRead ==
    \/ /\ Rose("addr_r", i2c.addr)
       /\ i2c' = [ClearAddr(i2c) EXCEPT !.clocking = ~i2c.stop]
       /\ Go(CASE transfer.len = 1 -> "stop_1" [] transfer.len = 2 -> "btf_2" [] OTHER -> NextRead(0))
       /\ UNCHANGED data
    \/ WaitFails("addr_r", i2c.addr)

(* One byte: the STOP is requested while it comes in.                      *)
StopOne ==
    /\ pc = "stop_1"
    /\ i2c' = [i2c EXCEPT !.stop = TRUE]
    /\ Go("last") /\ UNCHANGED data

(* Two bytes: both are in before the STOP.                                 *)
ReceiveTwo ==
    \/ /\ Rose("btf_2", Btf)
       /\ data' = data \o <<i2c.dr, i2c.sh>>
       /\ i2c' = [i2c EXCEPT !.stop = TRUE, !.pos = FALSE, !.dr = None, !.sh = None]
       /\ Go("free")
    \/ WaitFails("btf_2", Btf)

ReceiveNext ==
    \/ /\ Rose("rx", Rxne)
       /\ Store(i2c) /\ i2c' = ReadDr(i2c)
       /\ Go(NextRead(Len(data) + 1))
    \/ WaitFails("rx", Rxne)

(* Three to go, two of them held: no acknowledge for the last one, which   *)
(* starts as soon as DR is read.                                           *)
ReceiveHeld ==
    \/ /\ Rose("btf_n", Btf)
       /\ Store(i2c) /\ i2c' = ReadDr([i2c EXCEPT !.ack = FALSE])
       /\ Go("stop_n")
    \/ WaitFails("btf_n", Btf)

StopN ==
    /\ pc = "stop_n"
    /\ i2c' = [i2c EXCEPT !.stop = TRUE]
    /\ Go("held") /\ UNCHANGED data

ReadHeld ==
    /\ pc = "held"
    /\ Store(i2c) /\ i2c' = ReadDr(i2c)
    /\ Go("last")

ReceiveLast ==
    \/ /\ Rose("last", Rxne)
       /\ Store(i2c) /\ i2c' = ReadDr(i2c)
       /\ Go("free")
    \/ WaitFails("last", Rxne)

(* The last wait of a transfer, for the bus to be free.                    *)
Freed ==
    /\ pc = "free"
    /\ \/ ~i2c.busy /\ Return("done")
       \/ i2c.busy /\ Return(IF transfer.kind = "probe" THEN "done" ELSE "failed")
    /\ UNCHANGED i2c

(* The wait of abortTransfer(), whose outcome nobody looks at.             *)
Aborted ==
    /\ pc = "aborted"
    /\ Return("failed")
    /\ UNCHANGED i2c

I2cNext ==
    \/ HwStart \/ HwAddress \/ HwSent \/ HwByte \/ HwStop
    \/ BusInit \/ Refused
    \/ Begin("probe", 0)
    \/ \E kind \in {"write", "read", "readRegisters"}, n \in Lengths : Begin(kind, n)
    \/ SendStartWrite \/ ProbeGivesUp \/ Addressed \/ Transmit \/ Transmitted
    \/ SendStartRead \/ AddressedRead \/ StopOne \/ ReceiveTwo \/ ReceiveNext
    \/ ReceiveHeld \/ StopN \/ ReadHeld \/ ReceiveLast \/ Freed \/ Aborted

I2cSpec == I2cInit /\ [][I2cNext]_i2cVars

-----------------------------------------------------------------------------
(* A read that returns true stored the bytes the sensor sent in this very  *)
(* transfer, each once and in order, and the sensor was told at the last   *)
(* of them to stop: it neither sends nor holds the bus for a byte nobody   *)
(* asked for, however the program was held up and whatever an earlier      *)
(* transfer that was aborted left behind (the choreography of receive()).  *)
BurstIsWhole ==
    pc = "idle" /\ result = "done" /\ transfer.kind \in {"read", "readRegisters"} =>
        /\ data = [k \in 1 .. transfer.len |-> <<transfers, k>>]
        /\ i2c.sent = transfer.len
        /\ ~i2c.acked

-----------------------------------------------------------------------------
(* The inductive invariant.                                                *)
Reads == {"read", "readRegisters"}

I2cTypeOK ==
    /\ ready \in BOOLEAN /\ result \in {"none", "done", "failed"} /\ transfers \in Nat
    /\ transfer \in [kind : Reads \cup {"none", "probe", "write"}, len : Nat, left : Int]
    /\ transfer.kind \in Reads => transfer.len \in Lengths
    /\ data \in Seq(Nat \X Nat)
    /\ i2c \in [start : BOOLEAN, stop : BOOLEAN, ack : BOOLEAN, pos : BOOLEAN, sb : BOOLEAN,
                addr : BOOLEAN, af : BOOLEAN, busy : BOOLEAN, tx : {"none", "empty", "full"},
                sending : {"none", "W", "R"}, dr : Nat \X Nat, sh : Nat \X Nat,
                clocking : BOOLEAN, acked : BOOLEAN, of : Nat, sent : Nat]

(* The first k bytes of the transfer.                                      *)
Bytes(k) == [j \in 1 .. k |-> <<transfers, j>>]

(* A start bit is seen on a bus that clocks nothing and has no START due.  *)
StartIsClean == i2c.sb => i2c.busy /\ ~i2c.start /\ ~i2c.clocking /\ ~i2c.acked

Sending == {"sb_w", "addr_w", "tx", "btf_w"}
Receiving == {"addr_r", "stop_1", "btf_2", "rx", "btf_n", "stop_n", "held", "last"}

(* POS is set for two bytes and no longer; a receive phase has its bits.   *)
BitsAreOfLength ==
    /\ i2c.pos => pc \in {"sb_r", "addr_r", "btf_2"} /\ transfer.len = 2
    /\ pc \in Sending => transfer.kind \notin {"none", "read"} /\ data = <<>>
    /\ pc \in {"tx", "btf_w"} => transfer.kind # "probe"
    /\ pc = "sb_r" => data = <<>>
    /\ pc \in {"sb_r", "addr_r"} =>
          (i2c.ack <=> transfer.len >= 3) /\ (i2c.pos <=> transfer.len = 2)
    /\ pc \in {"sb_r"} \cup Receiving => transfer.kind \in Reads
    /\ pc \in {"addr_w", "tx", "btf_w"} \cup Receiving => ~i2c.sb /\ ~i2c.start

(* What has come in is stored, in DR or in the shift register, in order.   *)
HeldBytes == IF i2c.dr = None THEN 0 ELSE IF i2c.sh = None THEN 1 ELSE 2

BytesAreInOrder ==
    pc \in Receiving =>
        /\ i2c.of = transfers /\ data = Bytes(Len(data))
        /\ i2c.dr \in {None, <<transfers, Len(data) + 1>>}
        /\ i2c.sh \in {None, <<transfers, Len(data) + 2>>}
        /\ i2c.dr = None => i2c.sh = None
        /\ i2c.sent = Len(data) + HeldBytes
        /\ i2c.sh # None => ~i2c.clocking

(* How far a receive phase is, and that the last byte is not acknowledged. *)
Refuses ==
    /\ ~i2c.ack /\ i2c.sent <= transfer.len
    /\ i2c.sent = transfer.len => ~i2c.acked /\ ~i2c.clocking

PhaseIsRight ==
    /\ pc = "addr_r" => Len(data) = 0 /\ i2c.sent = 0 /\ ~i2c.clocking /\ ~i2c.acked
    /\ pc = "stop_1" => transfer.len = 1 /\ Len(data) = 0 /\ Refuses
    /\ pc = "btf_2" => transfer.len = 2 /\ Len(data) = 0 /\ Refuses
    /\ pc = "rx" => transfer.len > Len(data) + 3
    /\ pc = "btf_n" => transfer.len = Len(data) + 3
    /\ pc \in {"stop_n", "held"} => transfer.len = Len(data) + 2 /\ i2c.dr # None /\ Refuses
    /\ pc = "last" => transfer.len = Len(data) + 1 /\ i2c.sh = None /\ Refuses

ReadIsComplete ==
    transfer.kind \in Reads /\ (pc = "free" \/ (pc = "idle" /\ result = "done")) =>
        /\ data = Bytes(transfer.len) /\ i2c.sent = transfer.len
        /\ ~i2c.acked /\ ~i2c.clocking

DownIsQuiet == pc = "down" => result = "none"

I2cInv ==
    /\ I2cTypeOK /\ DownIsQuiet /\ StartIsClean /\ BitsAreOfLength
    /\ BytesAreInOrder /\ PhaseIsRight /\ ReadIsComplete
=============================================================================
