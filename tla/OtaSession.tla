----------------------------- MODULE OtaSession -----------------------------
(***************************************************************************)
(* A whole update: the ground's session (OtaConsumer,                      *)
(* components/ota/src/consumer.cpp) against OtaBoard, over a link that     *)
(* loses and delays.                                                       *)
(*                                                                         *)
(* Both sides use plain sends (hub_app.cpp:316, ota/provider.hpp): nothing *)
(* below the session repeats a lost message.  Requests queue in order and  *)
(* each may be lost; of the replies two are in flight at most, the last    *)
(* one and one it has overtaken.  A deadline of the ground may pass at any *)
(* time.                                                                   *)
(***************************************************************************)
EXTENDS OtaBoard, Sequences

CONSTANTS StatusTries, MaxRetries, MaxAckTries,  \* OtaConsumer::Config
          QueueMax,                              \* bound on requests in flight
          MaxStarts, MaxReverts                  \* bounds on the operator

ASSUME OtaSessionAssumption ==
    /\ {StatusTries, MaxRetries, MaxAckTries, QueueMax, MaxStarts, MaxReverts} \subseteq Nat
    /\ 1 .. MaxStarts \subseteq Sessions /\ Listening

VARIABLES
    toBoard,     \* requests on their way to the board
    late,        \* a reply that newer ones have overtaken
    phase, verdict,
    bundle,      \* the image of the bundle being sent
    nonce,       \* m_session, 0 when none
    previous,    \* the image the board ran before (m_previousBuildEpoch)
    acked, sent, \* m_progress, in chunks
    stalled,     \* m_stalledRounds
    resendAt,    \* m_resendOffset, -1 before the first resend
    tries,       \* m_statusTries or m_ackTries
    starts, reverts

hubVars == <<toBoard, late, phase, verdict, bundle, nonce, previous, acked, sent, stalled,
             resendAt, tries, starts, reverts>>
allVars == <<vars, hubVars>>

busyPhases == {"QUERY", "ERASING", "TRANSFER", "VERIFYING", "REBOOTING", "WAITING_BOARD",
               "TESTING", "REVERTING"}
Busy == phase \in busyPhases

Request(type, s, img, offset) == [type |-> type, session |-> s, img |-> img, offset |-> offset]
StatusRequest == Request("status", 0, Factory, 0)
RebootRequest == Request("reboot", 0, Factory, 0)
RevertRequest == Request("revert", 0, Factory, 0)

-----------------------------------------------------------------------------
(* emit(): the link takes the message, loses it, or is known to be down.   *)

Deliver(m) == toBoard' \in IF Len(toBoard) < QueueMax THEN {toBoard, Append(toBoard, m)}
                           ELSE {toBoard}

Emit(m, ph, v) == \/ Deliver(m) /\ phase' = ph /\ verdict' = v
                  \/ UNCHANGED toBoard /\ phase' = "FAILED" /\ verdict' = "FAILED"

Fail == phase' = "FAILED" /\ verdict' = "FAILED" /\ UNCHANGED toBoard

(* pumpChunks() from chunk `from`, with the acknowledgement at `base`: one  *)
(* chunk per pass, a window ahead at most.  The pacing delay may hold it    *)
(* back unless the caller has just restarted it (`now`).                    *)
InWindow(from, base) == from < ChunkCount /\ from - base < AckWindow

PumpFrom(from, base, now) ==
    \/ /\ InWindow(from, base)
       /\ \/ /\ Deliver(Request("chunk", nonce, bundle, from))
             /\ sent' = from + 1 /\ phase' = "TRANSFER" /\ UNCHANGED verdict
          \/ Fail /\ sent' = from
    \/ /\ now => ~InWindow(from, base)
       /\ sent' = from /\ phase' = "TRANSFER" /\ UNCHANGED <<verdict, toBoard>>

(* start() *)
Start(b) ==
    /\ ~Busy /\ starts < MaxStarts
    /\ starts' = starts + 1
    /\ bundle' = b
    /\ nonce' = 0 /\ previous' = Mixed
    /\ acked' = 0 /\ sent' = 0 /\ tries' = 1
    /\ Emit(StatusRequest, "QUERY", "NONE")
    /\ UNCHANGED <<stalled, resendAt, reverts, late, vars>>

(* start() on a bundle that does not load. *)
StartUnreadable ==
    /\ ~Busy
    /\ Fail
    /\ UNCHANGED <<bundle, nonce, previous, acked, sent, stalled, resendAt, tries, starts,
                   reverts, late, vars>>

(* abortSession() *)
AbortSession ==
    /\ Busy
    /\ IF phase \in {"ERASING", "TRANSFER", "VERIFYING"}
       THEN Deliver(Request("abort", nonce, Factory, 0)) ELSE UNCHANGED toBoard
    /\ phase' = "IDLE" /\ verdict' = "NONE"
    /\ nonce' = 0 /\ acked' = 0 /\ sent' = 0
    /\ UNCHANGED <<bundle, previous, stalled, resendAt, tries, starts, reverts, late, vars>>

(* revert() *)
Revert ==
    /\ ~Busy \/ phase = "TESTING"
    /\ reverts < MaxReverts
    /\ reverts' = reverts + 1
    /\ tries' = 1
    /\ Emit(RevertRequest, "REVERTING", "NONE")
    /\ UNCHANGED <<bundle, nonce, previous, acked, sent, stalled, resendAt, starts, late, vars>>

-----------------------------------------------------------------------------
(* onStatus(): openTransfer(), judgeReturn() and the trial's poll.         *)

\* Mutant: the build of the other slot is read.
MutRunsImage(st) == st.img[Other(st.running)]

RunsImage(st) == st.img[st.running]

OpenTransfer(st) ==
    IF st.busy \/ bundle \notin Sized \cap Accepted
    THEN Fail /\ UNCHANGED <<nonce, previous, acked, sent, stalled, resendAt>>
    ELSE /\ nonce' = starts
         /\ previous' = RunsImage(st)
         /\ acked' = 0 /\ sent' = 0 /\ stalled' = 0 /\ resendAt' = -1
         /\ Emit(Request("begin", starts, bundle, 0), "ERASING", verdict)

Conclude(v) == phase' = v /\ verdict' = v

Judge(st) ==
    /\ IF RunsImage(st) = bundle
       THEN IF st.state[st.running] = "TESTING"
            THEN phase' = "TESTING" /\ UNCHANGED verdict
            ELSE Conclude("CONFIRMED")
       ELSE IF RunsImage(st) = previous THEN Conclude("ROLLED_BACK")
       ELSE IF phase = "WAITING_BOARD" THEN phase' = "FAILED" /\ verdict' = "FAILED"
       ELSE UNCHANGED <<phase, verdict>>
    /\ UNCHANGED toBoard

OnStatus(st) ==
    \/ /\ phase = "QUERY"
       /\ OpenTransfer(st)
    \/ /\ phase \in {"WAITING_BOARD", "TESTING"}
       /\ Judge(st)
       /\ UNCHANGED <<nonce, previous, acked, sent, stalled, resendAt>>
    \/ /\ phase \notin {"QUERY", "WAITING_BOARD", "TESTING"}
       /\ UNCHANGED <<toBoard, phase, verdict, nonce, previous, acked, sent, stalled, resendAt>>

(* onAck() *)
AckHeard(a) ==
    \/ a.op = "BEGIN" /\ phase = "ERASING" /\ a.session = nonce
    \/ a.op = "FINISH" /\ phase = "VERIFYING" /\ a.session = nonce
    \/ a.op = "REVERT" /\ phase = "REVERTING"

OnAck(a) ==
    /\ UNCHANGED <<nonce, previous, stalled, resendAt>>
    /\ \/ /\ ~AckHeard(a)
          /\ UNCHANGED <<toBoard, phase, verdict, acked, sent>>
       \/ /\ AckHeard(a) /\ a.result # "OTA_OK"
          /\ Fail /\ UNCHANGED <<acked, sent>>
       \/ /\ AckHeard(a) /\ a.result = "OTA_OK" /\ a.op = "BEGIN"
          /\ acked' = 0
          /\ PumpFrom(0, 0, TRUE)
       \/ /\ AckHeard(a) /\ a.result = "OTA_OK" /\ a.op = "FINISH"
          /\ Emit(RebootRequest, "REBOOTING", verdict)
          /\ UNCHANGED <<acked, sent>>
       \/ /\ AckHeard(a) /\ a.result = "OTA_OK" /\ a.op = "REVERT"
          /\ phase' = "IDLE"
          /\ \/ Deliver(RebootRequest) /\ verdict' = "REVERTED"
             \/ UNCHANGED toBoard /\ verdict' = "FAILED"
          /\ UNCHANGED <<acked, sent>>

(* onChunkAck(): a.next is the first chunk the board still misses.          *)
ChunkAckHeard(a) == a.session = nonce /\ nonce # 0 /\ phase \in {"TRANSFER", "VERIFYING"}

\* A late acknowledgement of an older window, or the echo of a resend still
\* inside its guard time.
ChunkAckStale(a) == \/ ~ChunkAckHeard(a)
                    \/ a.next < acked /\ phase = "TRANSFER"
                    \/ a.next = acked /\ acked # sent /\ resendAt = a.next

\* In answer to the finish the board's offset is the authority.
ChunkAckRewinds(a) ==
    /\ ChunkAckHeard(a) /\ a.next < acked /\ phase = "VERIFYING"
    /\ acked' = a.next
    /\ PumpFrom(a.next, a.next, TRUE)
    /\ UNCHANGED <<stalled, resendAt>>

\* A repeated offset: the board dropped an out-of-order chunk.
ChunkAckRepeats(a) ==
    /\ ChunkAckHeard(a) /\ a.next = acked /\ acked # sent
    /\ UNCHANGED acked
    /\ IF stalled >= MaxRetries
       THEN Fail /\ UNCHANGED <<sent, stalled, resendAt>>
       ELSE /\ stalled' = stalled + 1
            /\ resendAt' = a.next
            /\ PumpFrom(acked, acked, TRUE)

\* Mutant: the sender believes the rest of the window was received too.
MutChunkAckAdvances(a) ==
    /\ ChunkAckHeard(a) /\ (a.next > acked \/ (a.next = acked /\ acked = sent))
    /\ stalled' = 0
    /\ acked' = IF sent < a.next THEN a.next ELSE sent
    /\ UNCHANGED resendAt
    /\ IF acked' >= ChunkCount
       THEN /\ Emit(Request("finish", nonce, Factory, 0), "VERIFYING", verdict)
            /\ sent' = acked'
       ELSE PumpFrom(acked', acked', phase = "VERIFYING")

ChunkAckAdvances(a) ==
    /\ ChunkAckHeard(a) /\ (a.next > acked \/ (a.next = acked /\ acked = sent))
    /\ stalled' = 0
    /\ acked' = a.next
    /\ UNCHANGED resendAt
    /\ LET from == IF sent < a.next THEN a.next ELSE sent
       IN IF a.next >= ChunkCount
          THEN /\ Emit(Request("finish", nonce, Factory, 0), "VERIFYING", verdict)
               /\ sent' = from
          ELSE PumpFrom(from, a.next, phase = "VERIFYING")

OnChunkAck(a) ==
    /\ UNCHANGED <<nonce, previous>>
    /\ \/ /\ ChunkAckStale(a)
          /\ UNCHANGED <<toBoard, phase, verdict, acked, sent, stalled, resendAt>>
       \/ ChunkAckRewinds(a)
       \/ ChunkAckRepeats(a)
       \/ ChunkAckAdvances(a)

(* onEnvelope(): a reply in flight reaches the ground. *)
HubHears(rep) ==
    /\ rep # NoReply
    /\ \/ rep.type = "status" /\ OnStatus(rep)
       \/ rep.type = "ack" /\ OnAck(rep)
       \/ rep.type = "chunkAck" /\ OnChunkAck(rep)
    /\ UNCHANGED <<bundle, tries, starts, reverts>>
    /\ UNCHANGED board

HubReceives == HubHears(reply) /\ reply' = NoReply /\ UNCHANGED late

HubReceivesLate == HubHears(late) /\ late' = NoReply /\ UNCHANGED reply

Overtake == /\ reply # NoReply /\ late = NoReply
            /\ late' = reply /\ reply' = NoReply
            /\ UNCHANGED board
            /\ UNCHANGED <<toBoard, phase, verdict, bundle, nonce, previous, acked, sent,
                           stalled, resendAt, tries, starts, reverts>>

-----------------------------------------------------------------------------
(* tick(): retries and deadlines, one action per phase that has them.      *)

quiet == <<late, bundle, nonce, previous, starts, reverts, vars>>

QueryTick ==
    /\ phase = "QUERY"
    /\ IF tries >= StatusTries THEN Fail /\ UNCHANGED tries
       ELSE tries' = tries + 1 /\ Emit(StatusRequest, phase, verdict)
    /\ UNCHANGED <<quiet, acked, sent, stalled, resendAt>>

\* Mutant: the retry of a revert forgets to count.
MutRevertTick ==
    /\ phase = "REVERTING"
    /\ IF tries >= MaxAckTries THEN Fail /\ UNCHANGED tries
       ELSE UNCHANGED tries /\ Emit(RevertRequest, phase, verdict)
    /\ UNCHANGED <<quiet, acked, sent, stalled, resendAt>>

RevertTick ==
    /\ phase = "REVERTING"
    /\ IF tries >= MaxAckTries THEN Fail /\ UNCHANGED tries
       ELSE tries' = tries + 1 /\ Emit(RevertRequest, phase, verdict)
    /\ UNCHANGED <<quiet, acked, sent, stalled, resendAt>>

DeadlineTick ==
    /\ phase \in {"ERASING", "VERIFYING", "WAITING_BOARD"}
    /\ Fail
    /\ UNCHANGED <<quiet, tries, acked, sent, stalled, resendAt>>

\* Go-back-N on silence, then the pump of every tick.

ChunkTimeout ==
    /\ phase = "TRANSFER"
    /\ IF stalled >= MaxRetries THEN Fail /\ UNCHANGED <<sent, stalled>>
       ELSE stalled' = stalled + 1 /\ PumpFrom(acked, acked, TRUE)
    /\ UNCHANGED <<quiet, tries, acked, resendAt>>

PumpTick ==
    /\ phase = "TRANSFER" /\ InWindow(sent, acked)
    /\ PumpFrom(sent, acked, TRUE)
    /\ UNCHANGED <<quiet, tries, acked, stalled, resendAt>>

SettleTick ==
    /\ phase = "REBOOTING"
    /\ phase' = "WAITING_BOARD"
    /\ UNCHANGED <<quiet, toBoard, verdict, tries, acked, sent, stalled, resendAt>>

PollTick ==
    /\ phase \in {"WAITING_BOARD", "TESTING"}
    /\ Emit(StatusRequest, phase, verdict)
    /\ UNCHANGED <<quiet, tries, acked, sent, stalled, resendAt>>

(* requestBoardStatus(): the operator may ask at any time. *)
RequestBoardStatus ==
    /\ Deliver(StatusRequest)
    /\ UNCHANGED <<quiet, phase, verdict, tries, acked, sent, stalled, resendAt>>

HubTick == \/ QueryTick \/ RevertTick \/ DeadlineTick \/ ChunkTimeout \/ PumpTick
           \/ SettleTick

-----------------------------------------------------------------------------
(* The board takes the next request; one that arrives while no firmware    *)
(* serves the link is lost, like any other.                                *)
hubButLink == <<late, phase, verdict, bundle, nonce, previous, acked, sent, stalled, resendAt,
                tries, starts, reverts>>

BoardReceives ==
    /\ toBoard # <<>>
    /\ toBoard' = Tail(toBoard)
    /\ \/ Head(toBoard).type = "reboot" /\ Serving /\ Reset
       \/ Head(toBoard).type # "reboot" /\ Handle(Head(toBoard))
       \/ UNCHANGED vars
    /\ UNCHANGED hubButLink

BoardErased ==
    /\ \E f \in FaultKinds : EraseEnds(f)
    /\ UNCHANGED <<toBoard, hubButLink>>

BoardAlone == (Firmware \/ Bootloader \/ Reset) /\ UNCHANGED hubVars

SessionInit ==
    /\ Init
    /\ toBoard = <<>> /\ late = NoReply
    /\ phase = "IDLE" /\ verdict = "NONE"
    /\ bundle = Factory /\ nonce = 0 /\ previous = Mixed
    /\ acked = 0 /\ sent = 0 /\ stalled = 0 /\ resendAt = -1 /\ tries = 0
    /\ starts = 0 /\ reverts = 0

SessionNext ==
    \/ \E b \in Images : Start(b)
    \/ StartUnreadable \/ AbortSession \/ Revert \/ RequestBoardStatus
    \/ HubReceives \/ HubReceivesLate \/ Overtake
    \/ HubTick \/ PollTick
    \/ BoardReceives \/ BoardErased \/ BoardAlone

SessionSpec == SessionInit /\ [][SessionNext]_allVars

(* The ground's main loop ticks for ever. *)
FairSessionSpec == SessionSpec /\ WF_allVars(HubTick)

-----------------------------------------------------------------------------
SessionTypeOK ==
    /\ TypeOK
    /\ Len(toBoard) <= QueueMax
    /\ phase \in busyPhases \cup {"IDLE", "CONFIRMED", "ROLLED_BACK", "FAILED"}
    /\ verdict \in {"NONE", "CONFIRMED", "ROLLED_BACK", "REVERTED", "FAILED"}
    /\ bundle \in Images /\ previous \in Images \cup {Mixed}
    /\ nonce \in 0 .. MaxStarts
    /\ acked \in 0 .. ChunkCount /\ sent \in acked .. ChunkCount
    /\ stalled \in 0 .. MaxRetries /\ resendAt \in -1 .. ChunkCount

\* "CONFIRMED: the new firmware runs and was confirmed" (consumer.hpp): when
\* the ground reports it, a slot of the board holds the bundle and has proven
\* itself.
ConfirmedIsTrue ==
    [][verdict' = "CONFIRMED" /\ verdict # "CONFIRMED"
         => \E s \in proven : content[s].img = bundle]_allVars

\* The ground never runs ahead of the board: in a transfer of its own session
\* the chunks it counts as acknowledged are in the board's slot, and its
\* window stays within the image (onChunkAck(), pumpChunks()).
AckedIsWritten ==
    /\ SessionTypeOK
    /\ (phase \in {"TRANSFER", "VERIFYING"} /\ session.open /\ session.nonce = nonce)
         => acked <= session.next

\* Every phase that has a deadline or a retry count comes to its end: only a
\* trial may be polled for ever.
SessionEnds == Busy ~> (~Busy \/ phase = "TESTING")

\* "ROLLED_BACK: the trial boot failed, the old firmware runs" (consumer.hpp).
RolledBackIsTrue ==
    [][verdict' = "ROLLED_BACK" /\ verdict # "ROLLED_BACK"
         => meta.state[Target] # "STAGED"]_allVars

\* "A board that refuses because it is armed says exactly that"
\* (tests/unit/test_hub_ota.cpp:827): the ground that hears a refusal of the
\* begin it is waiting on ends the session on it.
RefusalIsHeard ==
    [][HubReceives /\ phase = "ERASING" /\ reply.type = "ack" /\ reply.op = "BEGIN"
         /\ reply.result # "OTA_OK" => phase' = "FAILED"]_allVars

-----------------------------------------------------------------------------
(* The inductive invariant (OtaBoard_proof): a nonce opens one session of   *)
(* the board, and what either side says of it stays true.                   *)

Results == {"OTA_OK", "DENIED_ARMED", "DENIED_BUSY", "BAD_IMAGE", "STORE_FAILURE", "BAD_SESSION",
            "CRC_MISMATCH", "BAD_STATE"}

Replies ==
    {NoReply}
        \cup [type : {"status"}, running : Slots, busy : BOOLEAN, active : Slots,
              state : [Slots -> SlotStates], img : [Slots -> Images \cup {Mixed}]]
        \cup [type : {"ack"}, op : {"BEGIN", "CHUNK", "FINISH", "REVERT", "ABORT"},
              session : Sessions \cup {0}, result : Results]
        \cup [type : {"chunkAck"}, session : Sessions \cup {0}, next : 0 .. ChunkCount]

Opening == {"ERASING", "TRANSFER", "VERIFYING"}

LinkTypeOK ==
    /\ toBoard \in Seq(Requests \cup {RebootRequest})
    /\ reply \in Replies /\ late \in Replies
    /\ starts \in 0 .. MaxStarts /\ nonce <= starts
    /\ phase = "QUERY" => starts > 0
    /\ phase \in Opening => nonce > 0
    /\ mode = "erase" => begun.session \in Sessions

\* A begin with nonce n is on its way, or the board serves it.
QueuedAt(i, n) == toBoard[i].type = "begin" /\ toBoard[i].session = n
Serves(n) == mode = "erase" /\ begun.session = n
Asked(n) == Serves(n) \/ \E i \in 1 .. Len(toBoard) : QueuedAt(i, n)

\* The board has opened the session of nonce n.
TellsOpened(rep, n) ==
    \/ rep.type = "ack" /\ rep.op = "BEGIN" /\ rep.result = "OTA_OK" /\ rep.session = n
    \/ rep.type = "chunkAck" /\ rep.session = n
Transfers(n) == phase \in {"TRANSFER", "VERIFYING"} /\ nonce = n
Holds(n) == session.open /\ session.nonce = n
Opened(n) == Holds(n) \/ TellsOpened(reply, n) \/ TellsOpened(late, n) \/ Transfers(n)

NonceIsOnce ==
    \A n \in Sessions :
        /\ \A i, j \in 1 .. Len(toBoard) : QueuedAt(i, n) /\ QueuedAt(j, n) => i = j
        /\ Serves(n) => \A i \in 1 .. Len(toBoard) : ~QueuedAt(i, n)
        /\ Asked(n) => ~Opened(n)
        /\ phase = "QUERY" /\ n = starts => ~Asked(n) /\ ~Opened(n)
        /\ n \in Nat /\ n > starts => ~Asked(n) /\ ~Opened(n)

\* No acknowledgement claims more than the board's open session has.
Backed(rep) == rep.type = "chunkAck" /\ Holds(rep.session) => rep.next <= session.next

SessionInv ==
    /\ BoardInv /\ LinkTypeOK /\ AckedIsWritten
    /\ NonceIsOnce /\ Backed(reply) /\ Backed(late)
=============================================================================
