------------------------------ MODULE OtaBoard ------------------------------
(***************************************************************************)
(* The board's side of a firmware update: the updater                      *)
(* (components/ota/include/ota/updater.hpp) over the STM32 firmware store, *)
(* the bootloader (drone_boot/boot_app.cpp) with the shared slot decision  *)
(* (ota/boot_policy.hpp), and the arming interlock and update mode of      *)
(* drone_firmware/firmware_app.cpp.                                        *)
(*                                                                         *)
(* The ground is any sequence of updater messages, in any order, with any  *)
(* session nonce.  A reset or power cut may fall between any two steps,    *)
(* the erase of a slot included.  The boot metadata is the atomic register *)
(* that OtaMetaLog implements.                                             *)
(*                                                                         *)
(* An image is a name with five attributes: its header passes imageValid() *)
(* (Accepted), its size fits a slot (Sized), the bootloader validates it   *)
(* (Bootable), by its header and vectors alone (Unstamped), and once       *)
(* booted it reaches its main loop and answers the link (Healthy).         *)
(***************************************************************************)
EXTENDS Integers, FiniteSets

CONSTANTS Images, Factory,
          Mixed,                      \* bytes of two images in one slot
          Accepted, Sized, Bootable, Unstamped, Healthy,
          ChunkCount,                 \* chunks of an image
          AckWindow,                  \* OTA_CHUNK_ACK_WINDOW
          Sessions,                   \* nonces the ground draws
          Listening,                  \* whether replies are kept for a ground
          MaxResets, MaxFaults        \* bounds on resets and store failures

ASSUME OtaBoardAssumption ==
    /\ Factory \in Accepted \cap Sized \cap Bootable \cap Healthy
    /\ Accepted \subseteq Images /\ Sized \subseteq Images
    /\ Bootable \subseteq Images /\ Unstamped \subseteq Bootable /\ Healthy \subseteq Images
    /\ Mixed \notin Images
    /\ ChunkCount \in Nat \ {0} /\ AckWindow \in Nat \ {0}
    /\ 0 \notin Sessions /\ Listening \in BOOLEAN
    /\ MaxResets \in Nat /\ MaxFaults \in Nat

VARIABLES
    meta,         \* OtaMetaState: active slot, slot states, trialAttempted
    content,      \* what each slot holds: an image and how many of its chunks
    mode,         \* "boot", "jump", "panic" (bootloader), "run", "erase" (firmware)
    running,      \* the slot the running (or last) firmware executes from
    chosen, ram,  \* the bootloader's slot and its copy of the metadata
    session,      \* the updater's session
    begun,        \* the begin being served while the slot is erased
    armed, armInhibited,
    proven,       \* history: slots whose image confirmed itself (or factory)
    trials,       \* history: boots of an unproven slot since it was staged
    fallbackLost, \* history: a begin erased the slot the metadata falls back on,
                  \* or the bootloader could not read the metadata
    lost,         \* history: boots of a slot since it was staged whose record could
                  \* not be written
    unread,       \* history: an interlock read of this boot failed in a trial
    resets, faults,
    reply         \* the last reply of the board, on its way to the ground

board == <<meta, content, mode, running, chosen, ram, session, begun, armed,
          armInhibited, proven, trials, lost, fallbackLost, unread, resets, faults>>
vars == <<board, reply>>

Slots == {"A", "B"}
SlotStates == {"EMPTY", "STAGED", "TESTING", "VALID", "BAD"}
Other(s) == IF s = "A" THEN "B" ELSE "A"

DefaultMeta == [active |-> "A",
                state |-> [s \in Slots |-> IF s = "A" THEN "VALID" ELSE "EMPTY"],
                tried |-> FALSE]

Closed == [open |-> FALSE, fresh |-> FALSE, nonce |-> 0, img |-> Factory,
           next |-> 0, since |-> 0]

Erased == [img |-> Mixed, n |-> 0]

NoBegin == [type |-> "status", session |-> 0, img |-> Factory, offset |-> 0]

(* Messages from the ground and the replies to them. *)
Requests ==
    [type : {"status"}, session : {0}, img : {Factory}, offset : {0}]
        \cup [type : {"begin"}, session : Sessions, img : Images, offset : {0}]
        \cup [type : {"chunk"}, session : Sessions, img : Images, offset : 0 .. ChunkCount]
        \cup [type : {"finish", "abort"}, session : Sessions, img : {Factory}, offset : {0}]
        \cup [type : {"revert"}, session : {0}, img : {Factory}, offset : {0}]

NoReply == [type |-> "none"]
(* OtaProvider::onMessage(): a plain send.  A newer reply takes the place  *)
(* of the one in flight; OtaSession lets one be set aside to arrive late.  *)
Send(rep) == reply' = IF Listening /\ rep # NoReply THEN rep ELSE reply

Ack(op, s, result) == [type |-> "ack", op |-> op, session |-> s, result |-> result]
ChunkAck(s, next) == [type |-> "chunkAck", session |-> s, next |-> next]

(* sendStatus(): an unreadable store claims nothing but the running slot. *)
Status(m, readable) ==
    [type |-> "status", running |-> running, busy |-> session.open,
     active |-> IF readable THEN m.active ELSE running,
     state |-> IF readable THEN m.state ELSE [s \in Slots |-> "EMPTY"],
     img |-> [s \in Slots |-> IF content[s].n > 0 THEN content[s].img ELSE Mixed]]


\* Mutant: the slot being executed is taken for the one to write.
MutTarget == running

Target == Other(running)

Complete(s) == content[s].n = ChunkCount

(* BootApp::Validates(): header, vectors and checksums.  Those of an       *)
(* unstamped image are not looked at, so its first chunk is enough.        *)
Validates(s) ==
    /\ content[s].img \in Bootable
    /\ Complete(s) \/ (content[s].img \in Unstamped /\ content[s].n > 0)

-----------------------------------------------------------------------------
(* A step meets at most one store failure, out of a budget.               *)
Fault(f, kinds) == /\ f \in kinds \cup {"none"}
                   /\ f # "none" => faults < MaxFaults
                   /\ faults' = IF f = "none" THEN faults ELSE faults + 1

(* refreshArmInterlock(): after every consumed message and at start-up; a  *)
(* metadata read that fails leaves the drone free to arm.                  *)
OnTrial(m, s) == m.state[s] = "TESTING"
Refresh(m, s, f) == /\ armInhibited' = (f # "interlock" /\ OnTrial(m, s))
                    /\ unread' = (unread \/ (f = "interlock" /\ OnTrial(m, s)))

Serving == mode = "run" /\ content[running].img \in Healthy

(* What every handler leaves alone. *)
Handled(m, f) == /\ Serving
                 /\ Refresh(m, running, f)
                 /\ UNCHANGED <<running, chosen, ram, armed, resets>>

-----------------------------------------------------------------------------
(* selfConfirmTrial() and sendStatus().  A write that fails but landed is   *)
(* the step of one that succeeded: its answer is dropped.                   *)

Confirmed(m) == [m EXCEPT !.state[running] = "VALID", !.active = running, !.tried = FALSE]

HandleStatus(r, f) ==
    /\ r.type = "status"
    /\ Fault(f, {"write", "status", "interlock"})
    /\ LET confirms == OnTrial(meta, running) /\ f # "write"
       IN /\ meta' = IF confirms THEN Confirmed(meta) ELSE meta
          /\ proven' = IF confirms THEN proven \cup {running} ELSE proven
    /\ Send(Status(meta', f # "status"))
    /\ Handled(meta', f)
    /\ UNCHANGED <<content, mode, session, begun, trials, lost, fallbackLost>>

(* handleBegin(): the refusals, in the code's order; none names a session. *)
(* DENIED_VOLTAGE is left out: FlightOtaGate::voltageOk() is always true.   *)
BeginRefusal(r) ==
    IF armed THEN "DENIED_ARMED"
    ELSE IF session.open /\ r.session # session.nonce THEN "DENIED_BUSY"
    ELSE IF r.img \notin Sized THEN "BAD_IMAGE"
    ELSE "none"

RefuseBegin(r, f) ==
    /\ r.type = "begin"
    /\ Fault(f, {"interlock"})
    /\ BeginRefusal(r) # "none"
    /\ Send(Ack("BEGIN", 0, BeginRefusal(r)))
    /\ Handled(meta, f)
    /\ UNCHANGED <<meta, content, mode, session, begun, proven, trials, lost, fallbackLost>>

(* The record that empties the target is written before the erase; the     *)
(* erase itself is EraseStep until EraseDone or EraseFails.                *)
Emptied(m) == [m EXCEPT !.state[Target] = "EMPTY"]

BeginErase(r) ==
    /\ Serving /\ r.type = "begin"
    /\ BeginRefusal(r) = "none"
    /\ session' = Closed
    /\ meta' = Emptied(meta)
    /\ mode' = "erase"
    /\ begun' = r
    /\ Send(NoReply)
    /\ proven' = proven \ {Target}
    /\ fallbackLost' = (fallbackLost \/ meta.active = Target)
    /\ UNCHANGED <<content, running, chosen, ram, armed, armInhibited, trials, lost,
                   unread, resets, faults>>

(* readMeta() or writeMeta() failed; a write that failed may have landed.  *)
BeginFails(r) ==
    /\ r.type = "begin"
    /\ BeginRefusal(r) = "none"
    /\ Fault("write", {"write"})
    /\ session' = Closed
    /\ meta' \in {meta, Emptied(meta)}
    /\ proven' = IF meta' = meta THEN proven ELSE proven \ {Target}
    /\ fallbackLost' = (fallbackLost \/ (meta' # meta /\ meta.active = Target))
    /\ Send(Ack("BEGIN", 0, "STORE_FAILURE"))
    /\ Handled(meta', "none")
    /\ UNCHANGED <<content, mode, begun, trials, lost>>

EraseStep ==
    /\ mode = "erase" /\ content[Target] # Erased
    /\ content' = [content EXCEPT ![Target] = Erased]
    /\ UNCHANGED <<meta, mode, running, chosen, ram, session, begun, armed, armInhibited,
                   proven, trials, lost, fallbackLost, unread, resets, faults, reply>>

EraseEnds(f) ==
    /\ mode = "erase"
    /\ Fault(f, {"write", "interlock"})
    /\ IF f = "write"
       THEN /\ session' = Closed
            /\ Send(Ack("BEGIN", 0, "STORE_FAILURE"))
       ELSE /\ content[Target] = Erased
            /\ session' = [open |-> TRUE, fresh |-> TRUE, nonce |-> begun.session,
                           img |-> begun.img, next |-> 0, since |-> 0]
            /\ Send(Ack("BEGIN", begun.session, "OTA_OK"))
    /\ begun' = NoBegin
    /\ mode' = "run"
    /\ Refresh(meta, running, f)
    /\ UNCHANGED <<meta, content, running, chosen, ram, armed, proven, trials, lost,
                   fallbackLost, resets>>

(* handleChunk() *)
Mine(r) == session.open /\ r.session = session.nonce

\* Mutant: a chunk past the end of the image is programmed too.
MutChunkExpected(r) == r.offset = session.next

ChunkExpected(r) == r.offset = session.next /\ r.offset < ChunkCount

Programmed(s, img) ==
    [img |-> IF content[s].n = 0 \/ content[s].img = img THEN img ELSE Mixed,
     n |-> content[s].n + 1]

StrayChunk(r, f) ==
    /\ r.type = "chunk"
    /\ Fault(f, {"interlock"})
    /\ ~(Mine(r) /\ ChunkExpected(r))
    /\ Send(IF Mine(r) THEN ChunkAck(session.nonce, session.next) ELSE NoReply)
    /\ Handled(meta, f)
    /\ UNCHANGED <<meta, content, mode, session, begun, proven, trials, lost, fallbackLost>>

ProgramChunk(r, f) ==
    /\ r.type = "chunk"
    /\ Fault(f, {"interlock"})
    /\ Mine(r) /\ ChunkExpected(r)
    /\ content' = [content EXCEPT ![Target] = Programmed(Target, r.img)]
    /\ LET acks == session.next + 1 = ChunkCount \/ session.since + 1 >= AckWindow
       IN /\ session' = [session EXCEPT !.next = @ + 1, !.since = IF acks THEN 0 ELSE @ + 1]
          /\ Send(IF acks THEN ChunkAck(session.nonce, session.next + 1) ELSE NoReply)
    /\ Handled(meta, f)
    /\ UNCHANGED <<meta, mode, begun, proven, trials, lost, fallbackLost>>

ProgramFails(r) ==
    /\ r.type = "chunk"
    /\ Fault("write", {"write"})
    /\ Mine(r) /\ ChunkExpected(r)
    /\ content' = [content EXCEPT ![Target].img = Mixed]
    /\ session' = Closed
    /\ Send(Ack("CHUNK", session.nonce, "STORE_FAILURE"))
    /\ Handled(meta, "none")
    /\ UNCHANGED <<meta, mode, begun, proven, trials, lost, fallbackLost>>

(* handleFinish() *)
Staged(m) == [m EXCEPT !.state[Target] = "STAGED", !.tried = FALSE]

FinishVerdict(r) ==
    IF ~Mine(r) THEN "BAD_SESSION"
    ELSE IF session.next < ChunkCount THEN "missing"
    ELSE IF content[Target].img # session.img THEN "CRC_MISMATCH"
    ELSE IF content[Target].img \notin Accepted THEN "BAD_IMAGE"
    ELSE "stage"

FinishRefused(r, f) ==
    /\ r.type = "finish"
    /\ Fault(f, {"interlock"})
    /\ LET v == FinishVerdict(r)
       IN /\ v # "stage"
          /\ Send(IF v = "missing" THEN ChunkAck(session.nonce, session.next)
                      ELSE Ack("FINISH", r.session, v))
          /\ session' = IF v \in {"CRC_MISMATCH", "BAD_IMAGE"} THEN Closed ELSE session
    /\ Handled(meta, f)
    /\ UNCHANGED <<meta, content, mode, begun, proven, trials, lost, fallbackLost>>

(* Staging is one record; the session stays open when it cannot be written, *)
(* whether or not the record landed.                                        *)
FinishStages(r, f) ==
    /\ r.type = "finish"
    /\ Fault(f, {"write", "interlock"})
    /\ FinishVerdict(r) = "stage"
    /\ meta' \in IF f = "write" THEN {meta, Staged(meta)} ELSE {Staged(meta)}
    /\ session' = IF f = "write" THEN session ELSE Closed
    /\ Send(Ack("FINISH", r.session, IF f = "write" THEN "STORE_FAILURE" ELSE "OTA_OK"))
    /\ trials' = [trials EXCEPT ![Target] = 0]
    /\ lost' = [lost EXCEPT ![Target] = 0]
    /\ Handled(meta', f)
    /\ UNCHANGED <<content, mode, begun, proven, fallbackLost>>

(* handleRevert(): only onto a VALID slot; nothing restarts the board.      *)

\* Mutant: any slot that holds something can be reverted to.
MutRevertAllowed == meta.state[Target] # "EMPTY"

RevertAllowed == meta.state[Target] = "VALID"

HandleRevert(r, f) ==
    /\ r.type = "revert"
    /\ Fault(f, {"write", "interlock"})
    /\ LET flipped == [meta EXCEPT !.active = Target]
       IN /\ meta' \in IF ~RevertAllowed THEN {meta}
                       ELSE IF f = "write" THEN {meta, flipped} ELSE {flipped}
          /\ Send(Ack("REVERT", 0, IF f = "write" THEN "STORE_FAILURE"
                                       ELSE IF RevertAllowed THEN "OTA_OK" ELSE "BAD_STATE"))
    /\ Handled(meta', f)
    /\ UNCHANGED <<content, mode, session, begun, proven, trials, lost, fallbackLost>>

HandleAbort(r, f) ==
    /\ r.type = "abort"
    /\ Fault(f, {"interlock"})
    /\ session' = IF Mine(r) THEN Closed ELSE session
    /\ Send(Ack("ABORT", r.session, IF Mine(r) THEN "OTA_OK" ELSE "BAD_SESSION"))
    /\ Handled(meta, f)
    /\ UNCHANGED <<meta, content, mode, begun, proven, trials, lost, fallbackLost>>

FaultKinds == {"none", "write", "read", "status", "interlock"}

(* OtaUpdater::handle() *)
Handle(r) ==
    \/ BeginErase(r)
    \/ BeginFails(r)
    \/ ProgramFails(r)
    \/ \E f \in FaultKinds : \/ HandleStatus(r, f)
                             \/ RefuseBegin(r, f)
                             \/ StrayChunk(r, f)
                             \/ ProgramChunk(r, f)
                             \/ FinishRefused(r, f)
                             \/ FinishStages(r, f)
                             \/ HandleRevert(r, f)
                             \/ HandleAbort(r, f)

(* tick(): the first sweep of a session only re-arms its clock; a later one *)
(* may find the sender silent for SESSION_TIMEOUT_US.                       *)
SessionTick ==
    /\ Serving /\ session.open
    /\ session' = IF session.fresh THEN [session EXCEPT !.fresh = FALSE] ELSE Closed
    /\ UNCHANGED <<meta, content, mode, running, chosen, ram, begun, armed, armInhibited,
                   proven, trials, lost, fallbackLost, unread, resets, faults, reply>>

-----------------------------------------------------------------------------
(* The flight loop is parked while a session is open (update mode); outside *)
(* it the pilot arms unless the interlock clears the arm switch.            *)

\* Mutant: the arm switch is taken whatever the interlock says.
MutArm ==
    /\ Serving /\ ~session.open /\ ~armed
    /\ armed' = TRUE
    /\ UNCHANGED <<meta, content, mode, running, chosen, ram, session, begun, armInhibited,
                   proven, trials, lost, fallbackLost, unread, resets, faults, reply>>

Arm ==
    /\ Serving /\ ~session.open /\ ~armed /\ ~armInhibited
    /\ armed' = TRUE
    /\ UNCHANGED <<meta, content, mode, running, chosen, ram, session, begun, armInhibited,
                   proven, trials, lost, fallbackLost, unread, resets, faults, reply>>

Disarm ==
    /\ Serving /\ ~session.open /\ armed
    /\ armed' = FALSE
    /\ UNCHANGED <<meta, content, mode, running, chosen, ram, session, begun, armInhibited,
                   proven, trials, lost, fallbackLost, unread, resets, faults, reply>>

(* A reset, from the reboot command, a crash of the image or a power cut:   *)
(* everything but the flash is gone.                                        *)
Reset ==
    /\ resets < MaxResets
    /\ resets' = resets + 1
    /\ mode' = "boot"
    /\ session' = Closed
    /\ armed' = FALSE
    /\ armInhibited' = FALSE
    /\ begun' = NoBegin
    /\ chosen' = "A" /\ ram' = DefaultMeta
    /\ unread' = FALSE
    /\ UNCHANGED <<meta, content, running, proven, trials, lost, fallbackLost, faults, reply>>

-----------------------------------------------------------------------------
(* otaFindSlotInState(), otaDecideBoot() *)

InState(m, st) == {s \in Slots : m.state[s] = st}
FindSlot(m, st) == IF m.state["A"] = st THEN "A" ELSE "B"

\* Mutant: a spent trial gets another one.
MutDecideBoot(m) ==
    IF InState(m, "STAGED") # {} THEN
        LET s == FindSlot(m, "STAGED")
        IN [slot |-> s, persist |-> TRUE,
            meta |-> [m EXCEPT !.state[s] = "TESTING", !.tried = TRUE]]
    ELSE IF InState(m, "TESTING") # {} THEN
        LET s == FindSlot(m, "TESTING")
        IN [slot |-> s, persist |-> TRUE, meta |-> [m EXCEPT !.tried = TRUE]]
    ELSE [slot |-> m.active, persist |-> FALSE, meta |-> m]

DecideBoot(m) ==
    IF InState(m, "STAGED") # {} THEN
        LET s == FindSlot(m, "STAGED")
        IN [slot |-> s, persist |-> TRUE,
            meta |-> [m EXCEPT !.state[s] = "TESTING", !.tried = TRUE]]
    ELSE IF InState(m, "TESTING") # {} THEN
        LET s == FindSlot(m, "TESTING")
        IN IF m.tried
           THEN [slot |-> m.active, persist |-> TRUE,
                 meta |-> [m EXCEPT !.state[s] = "BAD", !.tried = FALSE]]
           ELSE [slot |-> s, persist |-> TRUE, meta |-> [m EXCEPT !.tried = TRUE]]
    ELSE [slot |-> m.active, persist |-> FALSE, meta |-> m]

(* chooseSlot(): the record is appended before the slot runs, and a failed  *)
(* append is ignored; metadata that cannot be read are the defaults, which  *)
(* ask for no record.                                                       *)
ChooseSlot(f) ==
    /\ mode = "boot"
    /\ Fault(f, {"write", "read"})
    /\ LET d == DecideBoot(IF f = "read" THEN DefaultMeta ELSE meta)
       IN /\ f = "write" => d.persist
          /\ meta' = IF f = "none" THEN d.meta ELSE meta
          /\ ram' = d.meta
          /\ chosen' = d.slot
          /\ lost' = IF f = "write" THEN [lost EXCEPT ![d.slot] = @ + 1] ELSE lost
    /\ fallbackLost' = (fallbackLost \/ f = "read")
    /\ mode' = "jump"
    /\ UNCHANGED <<content, running, session, begun, armed, armInhibited, proven,
                   trials, unread, resets, reply>>

MarkedBad(m, s) == [m EXCEPT !.state[s] = "BAD", !.tried = FALSE]

(* The firmware starts in slot s: its interlock reads the metadata.         *)
StartFirmware(s, f) ==
    /\ mode' = "run"
    /\ running' = s
    /\ chosen' = "A" /\ ram' = DefaultMeta
    /\ trials' = IF s \in proven THEN trials ELSE [trials EXCEPT ![s] = @ + 1]
    /\ Refresh(meta', s, f)

(* run(): jump to the chosen slot when it validates, else mark it bad and   *)
(* take the other one.                                                      *)
JumpToChosen(f) ==
    /\ mode = "jump" /\ Validates(chosen)
    /\ Fault(f, {"interlock"})
    /\ UNCHANGED meta
    /\ StartFirmware(chosen, f)
    /\ UNCHANGED <<content, session, begun, armed, proven, lost, fallbackLost, resets, reply>>

\* Mutant: the other slot is not tried.
MutFallBack(f) ==
    /\ mode = "jump" /\ ~Validates(chosen)
    /\ Fault(f, {"write"})
    /\ meta' = IF f = "write" THEN meta ELSE MarkedBad(ram, chosen)
    /\ mode' = "panic"
    /\ UNCHANGED <<running, chosen, ram, trials, lost, armInhibited, unread, content, session,
                   begun, armed, proven, fallbackLost, resets, reply>>

FallBack(f) ==
    /\ mode = "jump" /\ ~Validates(chosen)
    /\ Fault(f, {"write", "interlock"})
    /\ meta' = IF f = "write" THEN meta ELSE MarkedBad(ram, chosen)
    /\ IF Validates(Other(chosen)) THEN StartFirmware(Other(chosen), f)
       ELSE /\ mode' = "panic"                                  \* PanicBlink()
            /\ UNCHANGED <<running, chosen, ram, trials, armInhibited, unread>>
    /\ UNCHANGED <<content, session, begun, armed, proven, lost, fallbackLost, resets, reply>>

-----------------------------------------------------------------------------
(* A board as it leaves the bench: the factory image in slot A over SWD,    *)
(* slot B and the metadata log blank, power applied.                        *)
Init ==
    /\ meta = DefaultMeta
    /\ content = [s \in Slots |-> IF s = "A" THEN [img |-> Factory, n |-> ChunkCount]
                                  ELSE Erased]
    /\ mode = "boot"
    /\ running = "A" /\ chosen = "A" /\ ram = DefaultMeta
    /\ session = Closed
    /\ begun = NoBegin
    /\ armed = FALSE /\ armInhibited = FALSE
    /\ proven = {"A"} /\ trials = [s \in Slots |-> 0]
    /\ fallbackLost = FALSE /\ lost = [s \in Slots |-> 0] /\ unread = FALSE
    /\ resets = 0 /\ faults = 0 /\ reply = NoReply

Firmware ==
    \/ EraseStep
    \/ SessionTick
    \/ Arm
    \/ Disarm

Bootloader ==
    \E f \in FaultKinds : ChooseSlot(f) \/ JumpToChosen(f) \/ FallBack(f)

Next == \/ \E r \in Requests : Handle(r)
        \/ \E f \in FaultKinds : EraseEnds(f)
        \/ Firmware
        \/ Bootloader
        \/ Reset

Spec == Init /\ [][Next]_vars

(* The bootloader is straight-line code: it does not stop halfway. *)
FairSpec == Spec /\ WF_vars(Bootloader)

-----------------------------------------------------------------------------
MetaType == [active : Slots, state : [Slots -> SlotStates], tried : BOOLEAN]

TypeOK ==
    /\ meta \in MetaType
    /\ content \in [Slots -> [img : Images \cup {Mixed}, n : 0 .. ChunkCount]]
    /\ mode \in {"boot", "jump", "panic", "run", "erase"}
    /\ running \in Slots /\ chosen \in Slots /\ ram \in MetaType
    /\ session \in [open : BOOLEAN, fresh : BOOLEAN, nonce : Sessions \cup {0}, img : Images,
                    next : 0 .. ChunkCount, since : Nat]
    /\ begun \in Requests
    /\ armed \in BOOLEAN /\ armInhibited \in BOOLEAN
    /\ proven \subseteq Slots /\ trials \in [Slots -> Nat]
    /\ fallbackLost \in BOOLEAN /\ lost \in [Slots -> Nat] /\ unread \in BOOLEAN
    /\ resets \in Nat /\ faults \in Nat

\* "Both slots invalid: unreachable through the update path" (ota-design.md
\* 3.3): whatever is sent, cut or failed, the bootloader has a slot to jump to.
NeverBricked == mode # "panic"

\* The metadata never vouches for bytes that are not there: a slot that is
\* STAGED, TESTING or VALID holds a whole image with a header for the slot.
Vouched == {"STAGED", "TESTING", "VALID"}
Truthful(m) ==
    \A s \in Slots : m.state[s] \in Vouched => Complete(s) /\ content[s].img \in Accepted
MetaTellsTruth == Truthful(meta)

\* The slot a firmware executes from, or last did, always boots again.
RunningValidates == Validates(running)

\* The record the bootloader may still write is as truthful, even when the
\* metadata it started from are the defaults of a failed read.
RamTellsTruth == mode = "jump" => Truthful(MarkedBad(ram, chosen))

\* A session counts the chunks in the slot it writes, and while chunks are
\* missing (or the slot is being erased) the metadata claims nothing of it.
SessionMatchesSlot ==
    /\ session.open => mode = "run" /\ content[Target].n = session.next
    /\ mode = "erase" \/ (session.open /\ session.next < ChunkCount)
         => meta.state[Target] \notin Vouched

\* The inductive invariant.
BoardInv ==
    /\ TypeOK
    /\ NeverBricked
    /\ RunningValidates
    /\ MetaTellsTruth
    /\ RamTellsTruth
    /\ SessionMatchesSlot

\* Unless a begin was served while the running slot was not the active one,
\* or the bootloader could not read the metadata,
\* a booted board runs a proven image or one on its recorded trial.
RunsTrusted ==
    (mode = "run" /\ ~fallbackLost)
        => running \in proven \/ meta.state[running] \in {"STAGED", "TESTING"}

\* "The single trial attempt" (docs/ota-design.md 3.2): an image is
\* booted once before it confirmed itself, and once more for each boot record
\* that could not be written, unless the fallback was overwritten.
OneTrial == ~fallbackLost => \A s \in Slots : trials[s] <= 1 + lost[s]

\* "Arming is refused as long as the running slot sits on trial"
\* (boot_policy.hpp:98), whatever was erased, reverted or cut before: the
\* interlock says what the metadata say, and no arm gets past it, unless the
\* metadata could not be read in this boot; nor does one while the flash is
\* being written.
InterlockHolds ==
    /\ mode \in {"run", "erase"} => (armInhibited = OnTrial(meta, running)) \/ unread
    /\ armed => mode = "run" /\ ~session.open /\ (OnTrial(meta, running) => unread)

\* "A firmware that has not yet proven its link may not take the drone into
\* the air" (boot_policy.hpp:97).  The interlock keeps a trial on the ground,
\* not the BAD slot a board boots once its fallback has been erased.
ArmedIsProven == armed => running \in proven

\* What the metadata say of proving is so: the VALID slots are the proven
\* ones, they boot, and one of them is the fallback.
RecordIsTrue ==
    ~fallbackLost =>
        /\ \A s \in Slots : s \in proven <=> meta.state[s] = "VALID"
        /\ meta.active \in proven
        /\ \A s \in proven : Validates(s)

\* The slot of a session, or of an erase, has nothing to prove yet.
TargetIsUnproven ==
    mode = "erase" \/ session.open => meta.state[Target] \in {"EMPTY", "STAGED"}

\* The slot the bootloader jumps to is the fallback or a slot on its trial;
\* then the fallback is as it was in the record the bootloader may write.
JumpIsRecorded ==
    mode = "jump" /\ ~fallbackLost =>
        /\ ram.active = meta.active
        /\ chosen # meta.active =>
               /\ ram.state[meta.active] = "VALID"
               /\ meta.state[chosen] \in {"STAGED", "TESTING"}
               /\ trials[chosen] + (IF meta.state[chosen] = "STAGED" THEN 1 ELSE 0)
                      <= lost[chosen]

\* A staged image has been booted only as often as its record was lost, and
\* the attempt of one on trial is recorded.
TrialIsSpent ==
    ~fallbackLost =>
        \A s \in Slots : /\ meta.state[s] = "STAGED" => trials[s] <= lost[s]
                         /\ meta.state[s] = "TESTING" => meta.tried

\* The inductive invariant of the trial of an image, on top of BoardInv.
TrialInv ==
    /\ RecordIsTrue
    /\ TargetIsUnproven
    /\ JumpIsRecorded
    /\ TrialIsSpent
    /\ RunsTrusted
    /\ OneTrial
    /\ InterlockHolds

\* "A bad slot is never chosen again, however the metadata got there"
\* (tests/unit/test_ota_boot_policy.cpp:90).
BadSlotNeverChosen == mode = "jump" => ram.state[chosen] # "BAD"

\* A reset comes back to a running firmware.
BootCompletes == (mode \in {"boot", "jump"}) ~> (mode = "run")
=============================================================================
