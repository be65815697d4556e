--------------------------- MODULE OtaBoard_proof ---------------------------
(***************************************************************************)
(* BoardInv is an invariant of OtaBoard: the board always has an image to  *)
(* boot, and its metadata never vouches for bytes that are not there.  It  *)
(* is proved for any images, any number of chunks, any session nonces and  *)
(* any number of resets and store failures.  The last part puts the        *)
(* ground's session on top (OtaSession): SessionInv, for any window, queue *)
(* and number of retries.                                                  *)
(***************************************************************************)
EXTENDS OtaSession, TLAPS

(* A request names a nonce and an image, whatever its type. *)
LEMMA RequestFields ==
    ASSUME NEW r \in Requests
    PROVE  r.session \in Sessions \cup {0} /\ r.img \in Images
  BY OtaBoardAssumption DEF Requests

LEMMA NoBeginIsRequest == NoBegin \in Requests
  BY DEF NoBegin, Requests

LEMMA TwoSlots ==
    ASSUME NEW s \in Slots
    PROVE  /\ Other(s) \in Slots /\ Other(s) # s /\ Other(Other(s)) = s
           /\ \A t \in Slots : t = s \/ t = Other(s)
  BY DEF Slots, Other

LEMMA DefaultsTyped ==
    /\ DefaultMeta \in MetaType
    /\ "A" \in Slots
    /\ Erased \in [img : Images \cup {Mixed}, n : 0 .. ChunkCount]
    /\ Closed \in [open : BOOLEAN, fresh : BOOLEAN, nonce : Sessions \cup {0}, img : Images,
                   next : 0 .. ChunkCount, since : Nat]
    /\ Closed.open = FALSE
  BY OtaBoardAssumption DEF DefaultMeta, MetaType, Slots, SlotStates, Erased, Closed

LEMMA BoardInit == Init => BoardInv
  <1> SUFFICES ASSUME Init PROVE BoardInv
      OBVIOUS
  <1> USE OtaBoardAssumption, DefaultsTyped, NoBeginIsRequest
  <1>1. content \in [Slots -> [img : Images \cup {Mixed}, n : 0 .. ChunkCount]]
      BY DEF Init, Slots, Erased
  <1>2. TypeOK
      BY <1>1 DEF Init, TypeOK, Slots
  <1>3. RunningValidates
      BY DEF Init, RunningValidates, Validates, Complete, Slots
  <1>4. MetaTellsTruth
      BY DEF Init, MetaTellsTruth, Truthful, DefaultMeta, Vouched, Complete, Slots
  <1>5. NeverBricked /\ RamTellsTruth /\ SessionMatchesSlot
      BY DEF Init, NeverBricked, RamTellsTruth, SessionMatchesSlot
  <1> QED
      BY <1>2, <1>3, <1>4, <1>5 DEF BoardInv

-----------------------------------------------------------------------------
(* The parts of the type invariant that every handler sets the same way.   *)

LEMMA HandledTyped ==
    ASSUME TypeOK, NEW m, NEW f, Handled(m, f)
    PROVE  /\ running' \in Slots /\ chosen' \in Slots /\ ram' \in MetaType
           /\ armed' \in BOOLEAN /\ armInhibited' \in BOOLEAN /\ unread' \in BOOLEAN
           /\ resets' \in Nat /\ mode = "run"
           /\ UNCHANGED <<running, chosen, ram>>
  BY DEF TypeOK, Handled, Refresh, Serving

LEMMA FaultTyped ==
    ASSUME TypeOK, NEW f, NEW kinds, Fault(f, kinds)
    PROVE  faults' \in Nat
  BY DEF TypeOK, Fault

(* A step that keeps the flash and the boot state, and keeps the session or *)
(* closes it, keeps everything but the types.                               *)
LEMMA QuietKeeps ==
    ASSUME BoardInv,
           UNCHANGED <<meta, content, mode, running, chosen, ram>>,
           \/ session'.open = FALSE
           \/ session'.open = session.open /\ session'.next = session.next
    PROVE  /\ NeverBricked' /\ RunningValidates' /\ MetaTellsTruth' /\ RamTellsTruth'
           /\ SessionMatchesSlot'
  <1> USE DEF BoardInv
  <1>1. NeverBricked' /\ RunningValidates' /\ MetaTellsTruth' /\ RamTellsTruth'
      BY DEF NeverBricked, RunningValidates, Validates, Complete, MetaTellsTruth, RamTellsTruth,
             Truthful, MarkedBad
  <1>2. SessionMatchesSlot'
      BY DEF SessionMatchesSlot, Target
  <1> QED
      BY <1>1, <1>2

LEMMA RefusalsKeep ==
    ASSUME BoardInv, NEW r \in Requests, NEW f,
           \/ RefuseBegin(r, f)
           \/ StrayChunk(r, f)
           \/ FinishRefused(r, f)
           \/ HandleAbort(r, f)
    PROVE  BoardInv'
  <1> USE DEF BoardInv
  <1>1. UNCHANGED <<meta, content, mode, begun, proven, trials, lost, fallbackLost>>
      BY DEF RefuseBegin, StrayChunk, FinishRefused, HandleAbort
  <1>2. session' = session \/ session' = Closed
      BY DEF RefuseBegin, StrayChunk, FinishRefused, HandleAbort
  <1>3. Handled(meta, f) /\ faults' \in Nat
      BY FaultTyped DEF RefuseBegin, StrayChunk, FinishRefused, HandleAbort
  <1>4. TypeOK'
      BY <1>1, <1>2, <1>3, HandledTyped, DefaultsTyped DEF TypeOK
  <1> QED
      BY <1>1, <1>2, <1>3, <1>4, HandledTyped, DefaultsTyped, QuietKeeps

LEMMA PilotKeeps ==
    ASSUME BoardInv, SessionTick \/ Arm \/ Disarm
    PROVE  BoardInv'
  <1> USE DEF BoardInv
  <1>1. UNCHANGED <<meta, content, mode, running, chosen, ram, begun, proven, trials, lost,
                    fallbackLost, armInhibited, unread, resets, faults>>
      BY DEF SessionTick, Arm, Disarm
  <1>2. session' = session \/ session' = Closed \/ session' = [session EXCEPT !.fresh = FALSE]
      BY DEF SessionTick, Arm, Disarm
  <1>3. armed' \in BOOLEAN
      BY DEF SessionTick, Arm, Disarm, TypeOK
  <1>4. TypeOK'
      BY <1>1, <1>2, <1>3, DefaultsTyped DEF TypeOK
  <1>5. \/ session'.open = FALSE
        \/ session'.open = session.open /\ session'.next = session.next
      BY <1>2, DefaultsTyped DEF TypeOK
  <1> QED
      BY <1>1, <1>4, <1>5, QuietKeeps

LEMMA ResetKeeps ==
    ASSUME BoardInv, Reset
    PROVE  BoardInv'
  <1> USE DEF BoardInv
  <1>1. TypeOK'
    <2>1. session' \in [open : BOOLEAN, fresh : BOOLEAN, nonce : Sessions \cup {0},
                         img : Images, next : 0 .. ChunkCount, since : Nat]
        BY DefaultsTyped DEF Reset
    <2>2. resets' \in Nat
        BY DEF Reset, TypeOK
    <2>5. armed' \in BOOLEAN /\ armInhibited' \in BOOLEAN /\ unread' \in BOOLEAN
        BY Zenon DEF Reset
    <2>3. begun' \in Requests /\ chosen' \in Slots /\ ram' \in MetaType /\ mode' = "boot"
        BY DefaultsTyped, NoBeginIsRequest DEF Reset
    <2>4. UNCHANGED <<meta, content, running, proven, trials, lost, fallbackLost, faults>>
        BY DEF Reset
    <2> QED
        BY <2>1, <2>2, <2>3, <2>4, <2>5 DEF TypeOK
  <1>2. NeverBricked' /\ RunningValidates' /\ MetaTellsTruth' /\ RamTellsTruth'
      BY DEF Reset, NeverBricked, RunningValidates, Validates, Complete, MetaTellsTruth,
             RamTellsTruth, Truthful
  <1>3. SessionMatchesSlot'
      BY DefaultsTyped DEF Reset, SessionMatchesSlot
  <1> QED
      BY <1>1, <1>2, <1>3

-----------------------------------------------------------------------------
(* What each record the board writes says, against the one before it.      *)

LEMMA FlagUpdate ==
    ASSUME NEW m \in MetaType, NEW s \in Slots, NEW b \in BOOLEAN,
           NEW m2, \/ m2 = [m EXCEPT !.active = s]
                   \/ m2 = [m EXCEPT !.tried = b]
    PROVE  m2 \in MetaType /\ m2.state = m.state
  BY DEF MetaType

LEMMA StateNames == {"EMPTY", "STAGED", "TESTING", "VALID", "BAD"} \subseteq SlotStates
  BY DEF SlotStates

LEMMA RecordFacts ==
    ASSUME TypeOK
    PROVE  /\ Confirmed(meta) \in MetaType
           /\ Confirmed(meta).state[running] = "VALID"
           /\ Confirmed(meta).state[Target] = meta.state[Target]
           /\ Emptied(meta) \in MetaType
           /\ Emptied(meta).state[Target] = "EMPTY"
           /\ Emptied(meta).state[running] = meta.state[running]
           /\ Staged(meta) \in MetaType
           /\ Staged(meta).state[Target] = "STAGED"
           /\ Staged(meta).state[running] = meta.state[running]
  <1>1. meta \in MetaType /\ running \in Slots /\ Target \in Slots /\ Other(Target) = running
      BY TwoSlots DEF TypeOK, Target
  <1>2. FALSE \in BOOLEAN /\ "VALID" \in SlotStates /\ "EMPTY" \in SlotStates
          /\ "STAGED" \in SlotStates
      BY StateNames
  <1>3. /\ Confirmed(meta) \in MetaType
        /\ Confirmed(meta).state[running] = "VALID"
        /\ Confirmed(meta).state[Target] = meta.state[Target]
      BY <1>1, <1>2, TwoSlots DEF Confirmed, MetaType
  <1>4. /\ Emptied(meta) \in MetaType
        /\ Emptied(meta).state[Target] = "EMPTY"
        /\ Emptied(meta).state[running] = meta.state[running]
      BY <1>1, <1>2, TwoSlots DEF Emptied, MetaType
  <1>5. /\ Staged(meta) \in MetaType
        /\ Staged(meta).state[Target] = "STAGED"
        /\ Staged(meta).state[running] = meta.state[running]
      BY <1>1, <1>2, TwoSlots DEF Staged, MetaType
  <1> QED
      BY <1>3, <1>4, <1>5

(* A handler that keeps content and session is judged on its record alone:  *)
(* the record vouches for no slot that the old one did not vouch for.       *)
LEMMA RecordKeeps ==
    ASSUME BoardInv, UNCHANGED <<content, mode, running, chosen, ram>>,
           session' = session \/ session'.open = FALSE,
           \A s \in Slots : meta'.state[s] \in Vouched => meta.state[s] \in Vouched
    PROVE  /\ NeverBricked' /\ RunningValidates' /\ MetaTellsTruth' /\ RamTellsTruth'
           /\ SessionMatchesSlot'
  <1> USE DEF BoardInv
  <1>1. NeverBricked' /\ RunningValidates' /\ RamTellsTruth'
      BY DEF NeverBricked, RunningValidates, Validates, Complete, RamTellsTruth, Truthful,
             MarkedBad
  <1>2. MetaTellsTruth'
      BY DEF MetaTellsTruth, Truthful, Complete
  <1>3. Target \in Slots /\ Target' = Target
      BY TwoSlots DEF TypeOK, Target
  <1>4. SessionMatchesSlot'
      BY <1>3 DEF SessionMatchesSlot
  <1> QED
      BY <1>1, <1>2, <1>4

LEMMA StatusKeeps ==
    ASSUME BoardInv, NEW r \in Requests, NEW f, HandleStatus(r, f)
    PROVE  BoardInv'
  <1> USE DEF BoardInv
  <1>1. UNCHANGED <<content, mode, session, begun, trials, lost, fallbackLost>>
      BY DEF HandleStatus
  <1>2. Handled(meta', f) /\ faults' \in Nat
      BY FaultTyped DEF HandleStatus
  <1>3. running \in Slots /\ UNCHANGED <<running, chosen, ram>> /\ mode = "run"
      BY <1>2, HandledTyped DEF TypeOK
  <1>4. \/ meta' = meta /\ proven' = proven
        \/ OnTrial(meta, running) /\ meta' = Confirmed(meta) /\ proven' = proven \cup {running}
      BY DEF HandleStatus
  <1>5. meta' \in MetaType /\ proven' \subseteq Slots
      BY <1>3, <1>4, RecordFacts DEF TypeOK
  <1>6. TypeOK'
      BY <1>1, <1>2, <1>5, HandledTyped DEF TypeOK
  <1>7. \A s \in Slots : meta'.state[s] \in Vouched => meta.state[s] \in Vouched
      BY <1>3, <1>4, RecordFacts, TwoSlots DEF OnTrial, Vouched, Target
  <1> QED
      BY <1>1, <1>3, <1>6, <1>7, RecordKeeps

LEMMA RevertKeeps ==
    ASSUME BoardInv, NEW r \in Requests, NEW f, HandleRevert(r, f)
    PROVE  BoardInv'
  <1> USE DEF BoardInv
  <1>1. UNCHANGED <<content, mode, session, begun, proven, trials, lost, fallbackLost>>
      BY DEF HandleRevert
  <1>2. Handled(meta', f) /\ faults' \in Nat
      BY FaultTyped DEF HandleRevert
  <1>3. running \in Slots /\ UNCHANGED <<running, chosen, ram>> /\ mode = "run"
      BY <1>2, HandledTyped DEF TypeOK
  <1>4. meta' = meta \/ meta' = [meta EXCEPT !.active = Target]
      BY DEF HandleRevert
  <1>5. meta' \in MetaType /\ meta'.state = meta.state
      BY <1>3, <1>4, FlagUpdate, TwoSlots DEF TypeOK, Target
  <1>6. TypeOK'
      BY <1>1, <1>2, <1>5, HandledTyped DEF TypeOK
  <1> QED
      BY <1>1, <1>3, <1>5, <1>6, RecordKeeps

-----------------------------------------------------------------------------
(* Handlers that open a session or write the target slot.                  *)

LEMMA BeginEraseKeeps ==
    ASSUME BoardInv, NEW r \in Requests, BeginErase(r)
    PROVE  BoardInv'
  <1> USE DEF BoardInv
  <1>1. /\ meta' = Emptied(meta) /\ session' = Closed /\ mode' = "erase" /\ begun' = r
        /\ UNCHANGED <<content, running, chosen, ram, armed, armInhibited, trials, lost, unread,
                       resets, faults>>
      BY DEF BeginErase
  <1>2. proven' \subseteq Slots /\ fallbackLost' \in BOOLEAN
      BY DEF BeginErase, TypeOK
  <1>3. TypeOK'
      BY <1>1, <1>2, RecordFacts, DefaultsTyped DEF TypeOK
  <1>4. running \in Slots /\ Target' = Target
      BY <1>1 DEF TypeOK, Target
  <1>5. \A s \in Slots : meta'.state[s] \in Vouched => meta.state[s] \in Vouched
      BY <1>1, <1>4, RecordFacts, TwoSlots DEF Vouched, Target
  <1>6. MetaTellsTruth'
      BY <1>1, <1>5 DEF MetaTellsTruth, Truthful, Complete
  <1>7. NeverBricked' /\ RunningValidates' /\ RamTellsTruth'
      BY <1>1 DEF NeverBricked, RunningValidates, Validates, Complete, RamTellsTruth
  <1>8. SessionMatchesSlot'
      BY <1>1, <1>4, RecordFacts, DefaultsTyped DEF SessionMatchesSlot, Vouched
  <1> QED
      BY <1>3, <1>6, <1>7, <1>8

LEMMA BeginFailsKeeps ==
    ASSUME BoardInv, NEW r \in Requests, BeginFails(r)
    PROVE  BoardInv'
  <1> USE DEF BoardInv
  <1>1. /\ meta' = meta \/ meta' = Emptied(meta)
        /\ session' = Closed
        /\ UNCHANGED <<content, mode, begun, trials, lost>>
      BY DEF BeginFails
  <1>2. Handled(meta', "none") /\ faults' \in Nat
      BY FaultTyped DEF BeginFails
  <1>3. proven' \subseteq Slots /\ fallbackLost' \in BOOLEAN
      BY DEF BeginFails, TypeOK
  <1>4. running \in Slots /\ UNCHANGED <<running, chosen, ram>>
      BY <1>2, HandledTyped DEF TypeOK
  <1>5. TypeOK'
      BY <1>1, <1>2, <1>3, HandledTyped, RecordFacts, DefaultsTyped DEF TypeOK
  <1>6. \A s \in Slots : meta'.state[s] \in Vouched => meta.state[s] \in Vouched
      BY <1>1, <1>4, RecordFacts, TwoSlots DEF Vouched, Target
  <1> QED
      BY <1>1, <1>4, <1>5, <1>6, DefaultsTyped, RecordKeeps

(* Writing the target slot: the running slot is another one, and no record  *)
(* vouches for the target.                                                  *)
LEMMA TargetWriteKeeps ==
    ASSUME BoardInv, mode \in {"run", "erase"}, mode' \in {"run", "erase"},
           meta.state[Target] \notin Vouched,
           UNCHANGED <<meta, running, ram>>,
           content'[running] = content[running]
    PROVE  NeverBricked' /\ RunningValidates' /\ MetaTellsTruth' /\ RamTellsTruth'
  <1> USE DEF BoardInv
  <1>1. running \in Slots
      BY DEF TypeOK
  <1>2. NeverBricked' /\ RunningValidates' /\ RamTellsTruth'
      BY <1>1 DEF NeverBricked, RunningValidates, Validates, Complete, RamTellsTruth
  <1>3. ASSUME NEW s \in Slots, meta'.state[s] \in Vouched
        PROVE  Complete(s)' /\ content'[s].img \in Accepted
    <2>1. s = running
        BY <1>1, <1>3, TwoSlots DEF Target
    <2> QED
        BY <1>3, <2>1 DEF MetaTellsTruth, Truthful, Complete
  <1> QED
      BY <1>2, <1>3 DEF MetaTellsTruth, Truthful

LEMMA EraseStepKeeps ==
    ASSUME BoardInv, EraseStep
    PROVE  BoardInv'
  <1> USE DEF BoardInv
  <1>1. /\ content' = [content EXCEPT ![Target] = Erased]
        /\ UNCHANGED <<meta, mode, running, chosen, ram, session, begun, armed, armInhibited,
                       proven, trials, lost, fallbackLost, unread, resets, faults>>
        /\ mode = "erase"
      BY DEF EraseStep
  <1>2. running \in Slots /\ Target \in Slots /\ Target # running /\ Target' = Target
      BY <1>1, TwoSlots DEF TypeOK, Target
  <1>3. content' \in [Slots -> [img : Images \cup {Mixed}, n : 0 .. ChunkCount]]
      BY <1>1, DefaultsTyped DEF TypeOK
  <1>4. TypeOK'
      BY <1>1, <1>3 DEF TypeOK
  <1>5. content'[running] = content[running]
      BY <1>1, <1>2 DEF TypeOK
  <1>6. meta.state[Target] \notin Vouched /\ ~session.open
      BY <1>1 DEF SessionMatchesSlot
  <1>7. SessionMatchesSlot'
      BY <1>1, <1>2, <1>6 DEF SessionMatchesSlot
  <1> QED
      BY <1>1, <1>4, <1>5, <1>6, <1>7, TargetWriteKeeps

LEMMA EraseEndsKeeps ==
    ASSUME BoardInv, NEW f, EraseEnds(f)
    PROVE  BoardInv'
  <1> USE DEF BoardInv
  <1>1. /\ mode = "erase" /\ mode' = "run" /\ begun' = NoBegin
        /\ UNCHANGED <<meta, content, running, chosen, ram, armed, proven, trials, lost,
                       fallbackLost, resets>>
      BY DEF EraseEnds
  <1>2. faults' \in Nat /\ armInhibited' \in BOOLEAN /\ unread' \in BOOLEAN
      BY FaultTyped DEF EraseEnds, Refresh
  <1>3. \/ session' = Closed
        \/ /\ content[Target] = Erased
           /\ session' = [open |-> TRUE, fresh |-> TRUE, nonce |-> begun.session,
                          img |-> begun.img, next |-> 0, since |-> 0]
      BY DEF EraseEnds
  <1>4. session' \in [open : BOOLEAN, fresh : BOOLEAN, nonce : Sessions \cup {0},
                      img : Images, next : 0 .. ChunkCount, since : Nat]
    <2>1. begun.session \in Sessions \cup {0} /\ begun.img \in Images
        BY RequestFields DEF TypeOK
    <2>2. 0 \in 0 .. ChunkCount /\ 0 \in Nat /\ TRUE \in BOOLEAN
        BY OtaBoardAssumption
    <2>3. [open |-> TRUE, fresh |-> TRUE, nonce |-> begun.session, img |-> begun.img,
           next |-> 0, since |-> 0]
            \in [open : BOOLEAN, fresh : BOOLEAN, nonce : Sessions \cup {0},
                  img : Images, next : 0 .. ChunkCount, since : Nat]
        BY <2>1, <2>2
    <2> QED
        BY <1>3, <2>3, DefaultsTyped, Zenon
  <1>5. TypeOK'
      BY <1>1, <1>2, <1>4, NoBeginIsRequest DEF TypeOK
  <1>6. meta.state[Target] \notin Vouched /\ Target' = Target
      BY <1>1 DEF SessionMatchesSlot, Target
  <1>7. SessionMatchesSlot'
      BY <1>1, <1>3, <1>6, DefaultsTyped DEF SessionMatchesSlot, Erased
  <1> QED
      BY <1>1, <1>5, <1>6, <1>7, TargetWriteKeeps

(* An expected chunk finds its session counting the chunks of the target.  *)
LEMMA ChunkMeetsSession ==
    ASSUME BoardInv, NEW r \in Requests, Mine(r), ChunkExpected(r)
    PROVE  /\ running \in Slots /\ Target \in Slots /\ Target # running
           /\ meta.state[Target] \notin Vouched
           /\ session.next \in Nat /\ session.next < ChunkCount
           /\ content[Target].n = session.next
           /\ content[Target] \in [img : Images \cup {Mixed}, n : 0 .. ChunkCount]
  <1>1. running \in Slots /\ Target \in Slots /\ Target # running
      BY TwoSlots DEF BoardInv, TypeOK, Target
  <1>2. session.open /\ session.next < ChunkCount /\ session.next \in Nat
      BY OtaBoardAssumption DEF Mine, ChunkExpected, BoardInv, TypeOK
  <1>3. meta.state[Target] \notin Vouched /\ content[Target].n = session.next
      BY <1>2 DEF BoardInv, SessionMatchesSlot
  <1> QED
      BY <1>1, <1>2, <1>3 DEF BoardInv, TypeOK

LEMMA ProgramChunkKeeps ==
    ASSUME BoardInv, NEW r \in Requests, NEW f, ProgramChunk(r, f)
    PROVE  BoardInv'
  <1> USE DEF BoardInv
  <1>1. /\ Mine(r) /\ ChunkExpected(r)
        /\ content' = [content EXCEPT ![Target] = Programmed(Target, r.img)]
        /\ UNCHANGED <<meta, mode, begun, proven, trials, lost, fallbackLost>>
      BY DEF ProgramChunk
  <1>2. Handled(meta, f) /\ faults' \in Nat
      BY FaultTyped DEF ProgramChunk
  <1>3. PICK k \in Nat : session' = [session EXCEPT !.next = @ + 1, !.since = k]
    <2> DEFINE acks == session.next + 1 = ChunkCount \/ session.since + 1 >= AckWindow
               k0 == IF acks THEN 0 ELSE session.since + 1
    <2>1. session' = [session EXCEPT !.next = @ + 1, !.since = k0]
        BY DEF ProgramChunk
    <2>2. k0 \in Nat
        BY DEF TypeOK
    <2> HIDE DEF k0
    <2> QED
        BY <2>1, <2>2
  <1>4. running \in Slots /\ UNCHANGED <<running, chosen, ram>> /\ mode = "run"
      BY <1>2, HandledTyped DEF TypeOK
  <1>5. /\ session' \in [open : BOOLEAN, fresh : BOOLEAN, nonce : Sessions \cup {0},
                         img : Images, next : 0 .. ChunkCount, since : Nat]
        /\ session'.next = session.next + 1 /\ session'.open = session.open
    <2>1. session.next + 1 \in 0 .. ChunkCount
        BY <1>1, ChunkMeetsSession, OtaBoardAssumption
    <2> QED
        BY <1>3, <2>1 DEF TypeOK
  <1>6. /\ Programmed(Target, r.img) \in [img : Images \cup {Mixed}, n : 0 .. ChunkCount]
        /\ Programmed(Target, r.img).n = session.next + 1
      BY <1>1, ChunkMeetsSession, RequestFields, OtaBoardAssumption DEF Programmed
  <1>7. content' \in [Slots -> [img : Images \cup {Mixed}, n : 0 .. ChunkCount]]
      BY <1>1, <1>6, ChunkMeetsSession DEF TypeOK
  <1>8. TypeOK'
      BY <1>1, <1>2, <1>5, <1>7, HandledTyped DEF TypeOK
  <1>9. content'[running] = content[running] /\ content'[Target].n = session.next + 1
      BY <1>1, <1>6, ChunkMeetsSession DEF TypeOK
  <1>10. SessionMatchesSlot'
      BY <1>1, <1>4, <1>5, <1>9, ChunkMeetsSession DEF SessionMatchesSlot, Target
  <1> QED
      BY <1>1, <1>4, <1>8, <1>9, <1>10, ChunkMeetsSession, TargetWriteKeeps

LEMMA ProgramFailsKeeps ==
    ASSUME BoardInv, NEW r \in Requests, ProgramFails(r)
    PROVE  BoardInv'
  <1> USE DEF BoardInv
  <1>1. /\ Mine(r) /\ ChunkExpected(r)
        /\ content' = [content EXCEPT ![Target].img = Mixed]
        /\ session' = Closed
        /\ UNCHANGED <<meta, mode, begun, proven, trials, lost, fallbackLost>>
      BY DEF ProgramFails
  <1>2. Handled(meta, "none") /\ faults' \in Nat
      BY FaultTyped DEF ProgramFails
  <1>3. running \in Slots /\ UNCHANGED <<running, chosen, ram>> /\ mode = "run"
      BY <1>2, HandledTyped DEF TypeOK
  <1>4. content' \in [Slots -> [img : Images \cup {Mixed}, n : 0 .. ChunkCount]]
      BY <1>1, ChunkMeetsSession DEF TypeOK
  <1>5. TypeOK'
      BY <1>1, <1>2, <1>4, HandledTyped, DefaultsTyped DEF TypeOK
  <1>6. content'[running] = content[running]
      BY <1>1, ChunkMeetsSession DEF TypeOK
  <1>7. SessionMatchesSlot'
      BY <1>1, <1>3, DefaultsTyped DEF SessionMatchesSlot
  <1> QED
      BY <1>1, <1>3, <1>5, <1>6, <1>7, ChunkMeetsSession, TargetWriteKeeps

(* Staging: the verdict has seen the whole image in the target slot.       *)
LEMMA FinishStagesKeeps ==
    ASSUME BoardInv, NEW r \in Requests, NEW f, FinishStages(r, f)
    PROVE  BoardInv'
  <1> USE DEF BoardInv
  <1>1. /\ FinishVerdict(r) = "stage"
        /\ meta' = meta \/ meta' = Staged(meta)
        /\ session' = session \/ session' = Closed
        /\ trials' = [trials EXCEPT ![Target] = 0] /\ lost' = [lost EXCEPT ![Target] = 0]
        /\ UNCHANGED <<content, mode, begun, proven, fallbackLost>>
      BY DEF FinishStages
  <1>2. Handled(meta', f) /\ faults' \in Nat
      BY FaultTyped DEF FinishStages
  <1>3. running \in Slots /\ UNCHANGED <<running, chosen, ram>> /\ mode = "run"
      BY <1>2, HandledTyped DEF TypeOK
  <1>4. trials' \in [Slots -> Nat] /\ lost' \in [Slots -> Nat]
      BY <1>1 DEF TypeOK
  <1>5. TypeOK'
      BY <1>1, <1>2, <1>4, HandledTyped, RecordFacts, DefaultsTyped DEF TypeOK
  <1>6. session.open /\ session.next = ChunkCount /\ content[Target].img \in Accepted
    <2>1. session.open /\ ~(session.next < ChunkCount) /\ content[Target].img \in Accepted
        BY <1>1 DEF FinishVerdict, Mine
    <2>2. session.next \in 0 .. ChunkCount /\ ChunkCount \in Nat
        BY OtaBoardAssumption DEF TypeOK
    <2> QED
        BY <2>1, <2>2
  <1>7. Complete(Target)
      BY <1>6 DEF SessionMatchesSlot, Complete
  <1>8. \A s \in Slots : s = Target \/ meta'.state[s] = meta.state[s]
      BY <1>1, <1>3, RecordFacts, TwoSlots DEF Target
  <1>9. MetaTellsTruth'
      BY <1>1, <1>6, <1>7, <1>8 DEF MetaTellsTruth, Truthful, Complete
  <1>10. NeverBricked' /\ RunningValidates' /\ RamTellsTruth'
      BY <1>1, <1>3 DEF NeverBricked, RunningValidates, Validates, Complete, RamTellsTruth
  <1>11. SessionMatchesSlot'
      BY <1>1, <1>3, <1>6, DefaultsTyped, OtaBoardAssumption DEF SessionMatchesSlot, Target
  <1> QED
      BY <1>5, <1>9, <1>10, <1>11

-----------------------------------------------------------------------------
(* The bootloader.                                                         *)

LEMMA DecideBootFacts ==
    ASSUME NEW m \in MetaType
    PROVE  /\ DecideBoot(m).slot \in Slots
           /\ DecideBoot(m).meta \in MetaType
           /\ \A s \in Slots : DecideBoot(m).meta.state[s] \in Vouched => m.state[s] \in Vouched
  <1> DEFINE d == DecideBoot(m)
  <1>0. m.active \in Slots /\ TRUE \in BOOLEAN /\ FALSE \in BOOLEAN
          /\ "TESTING" \in SlotStates /\ "BAD" \in SlotStates
      BY DEF MetaType, SlotStates
  <1>1. CASE InState(m, "STAGED") # {}
    <2> DEFINE s0 == FindSlot(m, "STAGED")
    <2>1. s0 \in Slots /\ m.state[s0] = "STAGED"
        BY <1>1 DEF FindSlot, InState, Slots
    <2>2. d.slot = s0 /\ d.meta = [m EXCEPT !.state[s0] = "TESTING", !.tried = TRUE]
        BY <1>1 DEF DecideBoot
    <2> HIDE DEF s0, d
    <2>3. d.meta \in MetaType
      <3>1. [m EXCEPT !.state[s0] = "TESTING", !.tried = TRUE] \in MetaType
          BY <1>0, <2>1 DEF MetaType
      <3> QED
          BY <2>2, <3>1
    <2>4. \A s \in Slots : s = s0 \/ d.meta.state[s] = m.state[s]
        BY <2>1, <2>2 DEF MetaType
    <2> QED
        BY <2>1, <2>2, <2>3, <2>4 DEF Vouched, d
  <1>2. CASE InState(m, "STAGED") = {} /\ InState(m, "TESTING") # {}
    <2> DEFINE s0 == FindSlot(m, "TESTING")
    <2>1. s0 \in Slots /\ m.state[s0] = "TESTING"
        BY <1>2 DEF FindSlot, InState, Slots
    <2>2. CASE m.tried
      <3>1. d.slot = m.active /\ d.meta = [m EXCEPT !.state[s0] = "BAD", !.tried = FALSE]
          BY <1>2, <2>2 DEF DecideBoot
      <3> HIDE DEF s0, d
      <3>2. d.meta \in MetaType
        <4>1. [m EXCEPT !.state[s0] = "BAD", !.tried = FALSE] \in MetaType
            BY <1>0, <2>1 DEF MetaType
        <4> QED
            BY <3>1, <4>1
      <3>3. d.meta.state[s0] = "BAD" /\ \A s \in Slots : s = s0 \/ d.meta.state[s] = m.state[s]
          BY <2>1, <3>1 DEF MetaType
      <3> QED
          BY <1>0, <3>1, <3>2, <3>3 DEF Vouched, d
    <2>3. CASE ~m.tried
      <3>1. d.slot = s0 /\ d.meta = [m EXCEPT !.tried = TRUE]
          BY <1>2, <2>3 DEF DecideBoot
      <3> HIDE DEF s0, d
      <3>2. d.meta \in MetaType /\ d.meta.state = m.state
          BY <1>0, <3>1 DEF MetaType
      <3> QED
          BY <2>1, <3>1, <3>2 DEF d
    <2> QED
        BY <2>2, <2>3
  <1>3. CASE InState(m, "STAGED") = {} /\ InState(m, "TESTING") = {}
    <2>1. d.slot = m.active /\ d.meta = m
        BY <1>3 DEF DecideBoot
    <2> QED
        BY <1>0, <2>1
  <1> QED
      BY <1>1, <1>2, <1>3

LEMMA MarkedBadFacts ==
    ASSUME NEW m \in MetaType, NEW t \in Slots
    PROVE  /\ MarkedBad(m, t) \in MetaType
           /\ MarkedBad(m, t).state[t] = "BAD"
           /\ \A s \in Slots : s = t \/ MarkedBad(m, t).state[s] = m.state[s]
  BY StateNames DEF MarkedBad, MetaType

LEMMA ChooseSlotKeeps ==
    ASSUME BoardInv, NEW f, ChooseSlot(f)
    PROVE  BoardInv'
  <1> USE DEF BoardInv
  <1> DEFINE d == DecideBoot(IF f = "read" THEN DefaultMeta ELSE meta)
  <1>1. /\ mode = "boot" /\ mode' = "jump"
        /\ meta' = IF f = "none" THEN d.meta ELSE meta
        /\ ram' = d.meta /\ chosen' = d.slot
        /\ lost' = IF f = "write" THEN [lost EXCEPT ![d.slot] = @ + 1] ELSE lost
        /\ UNCHANGED <<content, running, session, begun, armed, armInhibited, proven, trials,
                       unread, resets>>
      BY DEF ChooseSlot
  <1>2. faults' \in Nat /\ fallbackLost' \in BOOLEAN
    <2>1. faults' \in Nat
        BY FaultTyped DEF ChooseSlot
    <2>2. fallbackLost' \in BOOLEAN
        BY Zenon DEF ChooseSlot
    <2> QED
        BY <2>1, <2>2
  <1>3. /\ d.slot \in Slots /\ d.meta \in MetaType
        /\ f # "read" => \A s \in Slots : d.meta.state[s] \in Vouched => meta.state[s] \in Vouched
      BY DecideBootFacts, DefaultsTyped DEF TypeOK
  <1>4. f = "read" => d.slot = "A" /\ d.meta.state["B"] = "EMPTY"
      BY DEF DecideBoot, DefaultMeta, InState, Slots
  <1> HIDE DEF d
  <1>11. lost' \in [Slots -> Nat]
      BY <1>1, <1>3 DEF TypeOK
  <1>5. TypeOK'
      BY <1>1, <1>2, <1>3, <1>11 DEF TypeOK
  <1>6. NeverBricked' /\ RunningValidates'
      BY <1>1 DEF NeverBricked, RunningValidates, Validates, Complete
  <1>7. MetaTellsTruth'
      BY <1>1, <1>3 DEF MetaTellsTruth, Truthful, Complete
  <1>8. \A s \in Slots : s # d.slot /\ d.meta.state[s] \in Vouched
                           => Complete(s) /\ content[s].img \in Accepted
      BY <1>3, <1>4 DEF MetaTellsTruth, Truthful, Slots, Vouched
  <1>9. RamTellsTruth'
    <2>1. Truthful(MarkedBad(d.meta, d.slot))
        BY <1>3, <1>8, MarkedBadFacts DEF Truthful, Vouched
    <2> QED
        BY <1>1, <2>1 DEF RamTellsTruth, Truthful, Complete, MarkedBad
  <1>10. SessionMatchesSlot'
      BY <1>1 DEF SessionMatchesSlot
  <1> QED
      BY <1>5, <1>6, <1>7, <1>9, <1>10

(* Handing over to a slot that validates.                                  *)
LEMMA StartKeeps ==
    ASSUME BoardInv, NEW s \in Slots, NEW f, mode = "jump", Validates(s),
           StartFirmware(s, f), faults' \in Nat, meta' \in MetaType, Truthful(meta'),
           UNCHANGED <<content, session, begun, armed, proven, lost, fallbackLost, resets>>
    PROVE  BoardInv'
  <1> USE DEF BoardInv
  <1>1. mode' = "run" /\ running' = s /\ chosen' = "A" /\ ram' = DefaultMeta
      BY DEF StartFirmware
  <1>2. trials' \in [Slots -> Nat]
      BY DEF StartFirmware, TypeOK
  <1>3. armInhibited' \in BOOLEAN /\ unread' \in BOOLEAN
      BY Zenon DEF StartFirmware, Refresh
  <1>4. TypeOK'
      BY <1>1, <1>2, <1>3, DefaultsTyped DEF TypeOK
  <1>5. NeverBricked' /\ RunningValidates' /\ RamTellsTruth'
      BY <1>1 DEF NeverBricked, RunningValidates, Validates, Complete, RamTellsTruth
  <1>6. MetaTellsTruth'
      BY DEF MetaTellsTruth, Truthful, Complete
  <1>7. SessionMatchesSlot'
      BY <1>1 DEF SessionMatchesSlot
  <1> QED
      BY <1>4, <1>5, <1>6, <1>7

LEMMA JumpKeeps ==
    ASSUME BoardInv, NEW f, JumpToChosen(f)
    PROVE  BoardInv'
  <1>1. /\ mode = "jump" /\ Validates(chosen) /\ StartFirmware(chosen, f) /\ meta' = meta
        /\ UNCHANGED <<content, session, begun, armed, proven, lost, fallbackLost, resets>>
      BY DEF JumpToChosen
  <1>2. chosen \in Slots /\ faults' \in Nat /\ meta' \in MetaType /\ Truthful(meta')
      BY <1>1, FaultTyped DEF JumpToChosen, BoardInv, TypeOK, MetaTellsTruth
  <1> QED
      BY <1>1, <1>2, StartKeeps

(* The last slot a firmware ran from still boots, so when the chosen one   *)
(* does not, it is the other one and the fallback finds it.                *)
LEMMA FallBackKeeps ==
    ASSUME BoardInv, NEW f, FallBack(f)
    PROVE  BoardInv'
  <1> USE DEF BoardInv
  <1>1. /\ mode = "jump" /\ ~Validates(chosen)
        /\ meta' = meta \/ meta' = MarkedBad(ram, chosen)
        /\ UNCHANGED <<content, session, begun, armed, proven, lost, fallbackLost, resets>>
      BY DEF FallBack
  <1>2. chosen \in Slots /\ running \in Slots /\ ram \in MetaType /\ meta \in MetaType
      BY DEF TypeOK
  <1>3. Other(chosen) \in Slots /\ Validates(Other(chosen))
      BY <1>1, <1>2, TwoSlots DEF RunningValidates
  <1>4. StartFirmware(Other(chosen), f) /\ faults' \in Nat
      BY <1>3, FaultTyped DEF FallBack
  <1>5. meta' \in MetaType /\ Truthful(meta')
      BY <1>1, <1>2, MarkedBadFacts DEF MetaTellsTruth, RamTellsTruth
  <1> QED
      BY <1>1, <1>3, <1>4, <1>5, StartKeeps

-----------------------------------------------------------------------------
LEMMA BoardStep == BoardInv /\ [Next]_vars => BoardInv'
  <1> SUFFICES ASSUME BoardInv, [Next]_vars PROVE BoardInv'
      OBVIOUS
  <1>1. ASSUME NEW r \in Requests, Handle(r) PROVE BoardInv'
      BY <1>1, BeginEraseKeeps, BeginFailsKeeps, ProgramFailsKeeps, StatusKeeps, RefusalsKeep,
         ProgramChunkKeeps, FinishStagesKeeps, RevertKeeps DEF Handle
  <1>2. ASSUME NEW f \in FaultKinds, EraseEnds(f) PROVE BoardInv'
      BY <1>2, EraseEndsKeeps
  <1>3. CASE Firmware
      BY <1>3, EraseStepKeeps, PilotKeeps DEF Firmware
  <1>4. CASE Bootloader
      BY <1>4, ChooseSlotKeeps, JumpKeeps, FallBackKeeps DEF Bootloader
  <1>5. CASE Reset
      BY <1>5, ResetKeeps
  <1>6. CASE UNCHANGED vars
    <2>1. TypeOK'
        BY <1>6 DEF vars, board, BoardInv, TypeOK
    <2>2. UNCHANGED <<meta, content, mode, running, chosen, ram, session>>
        BY <1>6 DEF vars, board
    <2> QED
        BY <2>1, <2>2, QuietKeeps DEF BoardInv
  <1> QED
      BY <1>1, <1>2, <1>3, <1>4, <1>5, <1>6 DEF Next

(* The inductive invariant of the board holds for every update, reset and  *)
(* store failure.                                                          *)
THEOREM BoardInvariant == Spec => []BoardInv
  <1> QED
      BY BoardInit, BoardStep, PTL DEF Spec

(* "Both slots invalid: unreachable through the update path": boot_app.cpp *)
(* never reaches PanicBlink().                                             *)
THEOREM BoardNeverBricked == Spec => []NeverBricked
  <1>1. BoardInv => NeverBricked
      BY DEF BoardInv
  <1> QED
      BY <1>1, BoardInvariant, PTL

(* The metadata vouches only for whole images the slot may hold.           *)
THEOREM BoardMetaTellsTruth == Spec => []MetaTellsTruth
  <1>1. BoardInv => MetaTellsTruth
      BY DEF BoardInv
  <1> QED
      BY <1>1, BoardInvariant, PTL

-----------------------------------------------------------------------------
(* The trial of an image.                                                  *)

LEMMA SlotsOfBoard ==
    ASSUME TypeOK
    PROVE  /\ running \in Slots /\ Target \in Slots /\ meta.active \in Slots /\ chosen \in Slots
           /\ Target # running /\ \A s \in Slots : s = running \/ s = Target
  BY TwoSlots DEF TypeOK, MetaType, Target

LEMMA RecordFlags ==
    ASSUME TypeOK
    PROVE  /\ Confirmed(meta).active = running
           /\ Emptied(meta).active = meta.active /\ Emptied(meta).tried = meta.tried
           /\ Staged(meta).active = meta.active
  BY DEF TypeOK, MetaType, Confirmed, Emptied, Staged

(* After refreshArmInterlock(), unless its read failed, the interlock says *)
(* whether the slot is on trial.                                           *)
LEMMA RefreshFacts ==
    ASSUME NEW m, NEW s, NEW f, Refresh(m, s, f)
    PROVE  /\ unread => unread'
           /\ (armInhibited' = OnTrial(m, s)) \/ unread'
  BY DEF Refresh, OnTrial

(* While a session or an erase has the target, the fallback is the slot    *)
(* that runs.                                                              *)
LEMMA WriterRunsProven ==
    ASSUME TypeOK, TrialInv, mode = "erase" \/ session.open, ~fallbackLost
    PROVE  /\ running \in proven /\ meta.active = running
           /\ meta.state[running] = "VALID" /\ Target \notin proven
  <1>1. meta.state[Target] \in {"EMPTY", "STAGED"}
      BY DEF TrialInv, TargetIsUnproven
  <1>2. Target \notin proven
      BY <1>1, SlotsOfBoard DEF TrialInv, RecordIsTrue
  <1> QED
      BY <1>2, SlotsOfBoard DEF TrialInv, RecordIsTrue

LEMMA TrialInit == Init => TrialInv
  <1> SUFFICES ASSUME Init PROVE TrialInv
      OBVIOUS
  <1>1. Validates("A")
      BY OtaBoardAssumption DEF Init, Validates, Complete, Slots
  <1>2. RecordIsTrue
    <2>1. \A s \in Slots : s \in proven <=> meta.state[s] = "VALID"
        BY DEF Init, DefaultMeta, Slots
    <2>2. meta.active \in proven
        BY DEF Init, DefaultMeta
    <2>3. \A s \in proven : Validates(s)
        BY <1>1 DEF Init
    <2> QED
        BY <2>1, <2>2, <2>3 DEF RecordIsTrue
  <1>3. TargetIsUnproven /\ JumpIsRecorded /\ InterlockHolds /\ RunsTrusted
      BY DefaultsTyped DEF Init, TargetIsUnproven, JumpIsRecorded, InterlockHolds, RunsTrusted
  <1>4. TrialIsSpent /\ OneTrial
      BY DEF Init, TrialIsSpent, OneTrial, DefaultMeta, Slots
  <1> QED
      BY <1>2, <1>3, <1>4 DEF TrialInv

(* A step of the firmware that leaves the flash, the records and their     *)
(* history alone.                                                          *)
LEMMA FlashKept ==
    ASSUME TypeOK, TrialInv,
           UNCHANGED <<meta, content, running, proven, trials, lost>>,
           fallbackLost => fallbackLost'
    PROVE  RecordIsTrue' /\ TrialIsSpent' /\ OneTrial'
  <1>1. RecordIsTrue'
      BY DEF TrialInv, RecordIsTrue, Validates, Complete
  <1>2. TrialIsSpent' /\ OneTrial'
      BY DEF TrialInv, TrialIsSpent, OneTrial
  <1> QED
      BY <1>1, <1>2

(* A handler that leaves the running slot on trial, or confirms it, and    *)
(* refreshes the interlock.                                                *)
LEMMA RunningKeepsTrust ==
    ASSUME TypeOK, TrialInv, mode = "run", mode' = "run", running' = running,
           fallbackLost => fallbackLost', unread => unread',
           (armInhibited' = OnTrial(meta', running)) \/ unread',
           running \in proven => running \in proven',
           \/ meta'.state[running] = meta.state[running]
           \/ running \in proven' /\ ~OnTrial(meta', running),
           armed' => armed, session'.open => session.open
    PROVE  InterlockHolds' /\ RunsTrusted' /\ JumpIsRecorded'
  <1>1. RunsTrusted'
      BY DEF TrialInv, RunsTrusted
  <1>2. InterlockHolds'
      BY DEF TrialInv, InterlockHolds, OnTrial
  <1>3. JumpIsRecorded'
      BY DEF JumpIsRecorded
  <1> QED
      BY <1>1, <1>2, <1>3

LEMMA HandledTrial ==
    ASSUME TypeOK, NEW m, NEW f, Handled(m, f)
    PROVE  /\ mode = "run" /\ UNCHANGED <<running, chosen, ram, armed>>
           /\ unread => unread'
           /\ (armInhibited' = OnTrial(m, running)) \/ unread'
  BY RefreshFacts DEF Handled, Serving

LEMMA TrialRefusals ==
    ASSUME TypeOK, TrialInv, NEW r \in Requests, NEW f,
           \/ RefuseBegin(r, f)
           \/ StrayChunk(r, f)
           \/ FinishRefused(r, f)
           \/ HandleAbort(r, f)
    PROVE  TrialInv'
  <1>1. UNCHANGED <<meta, content, mode, proven, trials, lost, fallbackLost>> /\ Handled(meta, f)
      BY DEF RefuseBegin, StrayChunk, FinishRefused, HandleAbort
  <1>2. session'.open => session.open
      BY DefaultsTyped DEF RefuseBegin, StrayChunk, FinishRefused, HandleAbort
  <1>3. RecordIsTrue' /\ TrialIsSpent' /\ OneTrial'
      BY <1>1, HandledTrial, FlashKept
  <1>4. InterlockHolds' /\ RunsTrusted' /\ JumpIsRecorded'
      BY <1>1, <1>2, HandledTrial, RunningKeepsTrust DEF OnTrial
  <1>5. TargetIsUnproven'
      BY <1>1, <1>2, HandledTrial DEF TrialInv, TargetIsUnproven, Target
  <1> QED
      BY <1>3, <1>4, <1>5 DEF TrialInv

LEMMA TrialPilot ==
    ASSUME TypeOK, TrialInv, SessionTick \/ Arm \/ Disarm
    PROVE  TrialInv'
  <1>1. /\ UNCHANGED <<meta, content, mode, running, proven, trials, lost, fallbackLost, unread,
                       armInhibited>>
        /\ mode = "run"
      BY DEF SessionTick, Arm, Disarm, Serving
  <1>2. session'.open => session.open
      BY DefaultsTyped DEF SessionTick, Arm, Disarm, TypeOK
  <1>3. RecordIsTrue' /\ TrialIsSpent' /\ OneTrial'
      BY <1>1, FlashKept
  <1>4. RunsTrusted' /\ JumpIsRecorded'
      BY <1>1 DEF TrialInv, RunsTrusted, JumpIsRecorded
  <1>5. TargetIsUnproven'
      BY <1>1, <1>2 DEF TrialInv, TargetIsUnproven, Target
  <1>6. InterlockHolds'
    <2>1. CASE Arm
      <3>1. ~armInhibited /\ ~session'.open /\ armInhibited \in BOOLEAN
          BY <2>1 DEF Arm, TypeOK
      <3>2. (armInhibited = OnTrial(meta, running)) \/ unread
          BY <1>1 DEF TrialInv, InterlockHolds
      <3>3. OnTrial(meta, running) => unread
          BY <3>1, <3>2, Zenon
      <3> QED
          BY <1>1, <3>1, <3>2, <3>3 DEF InterlockHolds, OnTrial
    <2>2. CASE SessionTick \/ Disarm
        BY <1>1, <1>2, <2>2 DEF SessionTick, Disarm, TrialInv, InterlockHolds, OnTrial
    <2> QED
        BY <2>1, <2>2
  <1> QED
      BY <1>3, <1>4, <1>5, <1>6 DEF TrialInv

LEMMA TrialReset ==
    ASSUME TypeOK, TrialInv, Reset
    PROVE  TrialInv'
  <1>1. /\ UNCHANGED <<meta, content, running, proven, trials, lost, fallbackLost>>
        /\ mode' = "boot" /\ ~session'.open /\ ~armed'
      BY DefaultsTyped DEF Reset
  <1>2. RecordIsTrue' /\ TrialIsSpent' /\ OneTrial'
      BY <1>1, FlashKept
  <1>3. InterlockHolds' /\ RunsTrusted' /\ JumpIsRecorded' /\ TargetIsUnproven'
      BY <1>1 DEF InterlockHolds, RunsTrusted, JumpIsRecorded, TargetIsUnproven
  <1> QED
      BY <1>2, <1>3 DEF TrialInv

LEMMA TrialStatus ==
    ASSUME BoardInv, TrialInv, NEW r \in Requests, NEW f, HandleStatus(r, f)
    PROVE  TrialInv'
  <1>0. TypeOK
      BY DEF BoardInv
  <1>1. UNCHANGED <<content, mode, session, trials, lost, fallbackLost>> /\ Handled(meta', f)
      BY DEF HandleStatus
  <1>2. CASE meta' = meta /\ proven' = proven
    <2>1. RecordIsTrue' /\ TrialIsSpent' /\ OneTrial'
        BY <1>0, <1>1, <1>2, HandledTrial, FlashKept
    <2>2. InterlockHolds' /\ RunsTrusted' /\ JumpIsRecorded'
        BY <1>0, <1>1, <1>2, HandledTrial, RunningKeepsTrust DEF OnTrial
    <2>3. TargetIsUnproven'
        BY <1>0, <1>1, <1>2, HandledTrial DEF TrialInv, TargetIsUnproven, Target
    <2> QED
        BY <2>1, <2>2, <2>3 DEF TrialInv
  <1>3. CASE OnTrial(meta, running) /\ meta' = Confirmed(meta) /\ proven' = proven \cup {running}
    <2>1. /\ meta'.state[running] = "VALID" /\ meta'.state[Target] = meta.state[Target]
          /\ meta'.active = running /\ meta.state[running] = "TESTING"
        BY <1>0, <1>3, RecordFacts, RecordFlags DEF OnTrial
    <2>2. UNCHANGED <<running, content>> /\ Validates(running)
        BY <1>0, <1>1, HandledTrial DEF BoardInv, RunningValidates
    <2>3. RecordIsTrue'
      <3>1. ASSUME ~fallbackLost PROVE \A s \in Slots : s \in proven' <=> meta'.state[s] = "VALID"
          BY <1>0, <1>3, <2>1, <3>1, SlotsOfBoard DEF TrialInv, RecordIsTrue
      <3>2. ASSUME ~fallbackLost PROVE \A s \in proven' : Validates(s)'
          BY <1>3, <2>2, <3>2 DEF TrialInv, RecordIsTrue, Validates, Complete
      <3> QED
          BY <1>1, <1>3, <2>1, <3>1, <3>2 DEF RecordIsTrue
    <2>4. ASSUME ~fallbackLost PROVE meta.state[Target] = "VALID"
        BY <1>0, <2>1, <2>4, SlotsOfBoard DEF TrialInv, RecordIsTrue
    <2>5. TrialIsSpent' /\ OneTrial'
        BY <1>0, <1>1, <2>1, <2>2, <2>4, SlotsOfBoard DEF TrialInv, TrialIsSpent, OneTrial
    <2>6. InterlockHolds' /\ RunsTrusted' /\ JumpIsRecorded'
        BY <1>0, <1>1, <1>3, <2>1, HandledTrial, RunningKeepsTrust DEF OnTrial
    <2>7. TargetIsUnproven'
        BY <1>1, <2>1, <2>2 DEF TrialInv, TargetIsUnproven, Target
    <2> QED
        BY <2>3, <2>5, <2>6, <2>7 DEF TrialInv
  <1> QED
      BY <1>2, <1>3 DEF HandleStatus

LEMMA TrialRevert ==
    ASSUME TypeOK, TrialInv, NEW r \in Requests, NEW f, HandleRevert(r, f)
    PROVE  TrialInv'
  <1>1. /\ UNCHANGED <<content, mode, session, proven, trials, lost, fallbackLost>>
        /\ Handled(meta', f)
      BY DEF HandleRevert
  <1>2. meta' = meta \/ (meta.state[Target] = "VALID" /\ meta' = [meta EXCEPT !.active = Target])
      BY DEF HandleRevert, RevertAllowed
  <1>3. /\ meta'.state = meta.state /\ meta'.tried = meta.tried
        /\ meta'.active = meta.active \/ (meta'.active = Target /\ meta.state[Target] = "VALID")
      BY <1>2 DEF TypeOK, MetaType
  <1>4. RecordIsTrue'
      BY <1>1, <1>3, SlotsOfBoard DEF TrialInv, RecordIsTrue, Validates, Complete
  <1>5. TrialIsSpent' /\ OneTrial'
      BY <1>1, <1>3, HandledTrial DEF TrialInv, TrialIsSpent, OneTrial
  <1>6. InterlockHolds' /\ RunsTrusted' /\ JumpIsRecorded'
      BY <1>1, <1>3, HandledTrial, RunningKeepsTrust DEF OnTrial
  <1>7. TargetIsUnproven'
      BY <1>1, <1>3, HandledTrial DEF TrialInv, TargetIsUnproven, Target
  <1> QED
      BY <1>4, <1>5, <1>6, <1>7 DEF TrialInv

(* A begin empties the record of the target; when that was the fallback,   *)
(* nothing more is promised.                                               *)
LEMMA EmptiedKeeps ==
    ASSUME TypeOK, TrialInv, meta' = Emptied(meta), proven' = proven \ {Target},
           fallbackLost' = (fallbackLost \/ meta.active = Target),
           UNCHANGED <<content, trials, lost, running>>
    PROVE  /\ RecordIsTrue' /\ TrialIsSpent' /\ OneTrial' /\ TargetIsUnproven'
           /\ meta'.state[running] = meta.state[running]
           /\ running \in proven => running \in proven'
  <1>1. /\ meta'.state[Target] = "EMPTY" /\ meta'.state[running] = meta.state[running]
        /\ meta'.active = meta.active /\ meta'.tried = meta.tried
      BY RecordFacts, RecordFlags
  <1>2. RecordIsTrue'
    <2>1. ASSUME ~fallbackLost' PROVE ~fallbackLost /\ meta.active # Target
        BY <2>1
    <2>2. ASSUME ~fallbackLost' PROVE \A s \in Slots : s \in proven' <=> meta'.state[s] = "VALID"
        BY <1>1, <2>1, <2>2, SlotsOfBoard DEF TrialInv, RecordIsTrue
    <2>3. ASSUME ~fallbackLost' PROVE meta'.active \in proven'
        BY <1>1, <2>1, <2>3 DEF TrialInv, RecordIsTrue
    <2>4. ASSUME ~fallbackLost' PROVE \A s \in proven' : Validates(s)'
        BY <2>1, <2>4 DEF TrialInv, RecordIsTrue, Validates, Complete
    <2> QED
        BY <2>2, <2>3, <2>4 DEF RecordIsTrue
  <1>3. TrialIsSpent' /\ OneTrial'
      BY <1>1, SlotsOfBoard DEF TrialInv, TrialIsSpent, OneTrial
  <1>4. TargetIsUnproven'
      BY <1>1 DEF TargetIsUnproven, Target
  <1> QED
      BY <1>1, <1>2, <1>3, <1>4, SlotsOfBoard

LEMMA TrialBegin ==
    ASSUME TypeOK, TrialInv, NEW r \in Requests, BeginErase(r) \/ BeginFails(r)
    PROVE  TrialInv'
  <1>0. ~session'.open /\ ~armed
      BY DefaultsTyped DEF BeginErase, BeginFails, BeginRefusal
  <1>1. CASE BeginErase(r)
    <2>1. /\ meta' = Emptied(meta) /\ proven' = proven \ {Target} /\ mode' = "erase"
          /\ fallbackLost' = (fallbackLost \/ meta.active = Target)
          /\ UNCHANGED <<content, trials, lost, running, armed, unread>>
        BY <1>1 DEF BeginErase
    <2>2. RecordIsTrue' /\ TrialIsSpent' /\ OneTrial' /\ TargetIsUnproven'
        BY <2>1, EmptiedKeeps
    <2>3. RunsTrusted' /\ JumpIsRecorded'
        BY <2>1 DEF RunsTrusted, JumpIsRecorded
    <2>4. InterlockHolds'
      <3>1. meta'.state[running] = meta.state[running]
          BY <2>1, EmptiedKeeps
      <3>2. mode = "run" /\ armInhibited' = armInhibited
          BY <1>1 DEF BeginErase, Serving
      <3> QED
          BY <1>0, <2>1, <3>1, <3>2 DEF TrialInv, InterlockHolds, OnTrial
    <2> QED
        BY <2>2, <2>3, <2>4 DEF TrialInv
  <1>2. CASE BeginFails(r)
    <2>1. UNCHANGED <<content, mode, trials, lost>> /\ Handled(meta', "none")
        BY <1>2 DEF BeginFails
    <2>2. CASE meta' = meta
      <3>1. proven' = proven /\ fallbackLost' = fallbackLost
          BY <1>2, <2>2 DEF BeginFails, TypeOK
      <3>2. RecordIsTrue' /\ TrialIsSpent' /\ OneTrial'
          BY <2>1, <2>2, <3>1, HandledTrial, FlashKept
      <3>3. InterlockHolds' /\ RunsTrusted' /\ JumpIsRecorded'
          BY <1>0, <2>1, <2>2, <3>1, HandledTrial, RunningKeepsTrust DEF OnTrial
      <3>4. TargetIsUnproven'
          BY <1>0, <2>1, HandledTrial DEF TargetIsUnproven
      <3> QED
          BY <3>2, <3>3, <3>4 DEF TrialInv
    <2>3. CASE meta' # meta
      <3>1. /\ meta' = Emptied(meta) /\ proven' = proven \ {Target}
            /\ fallbackLost' = (fallbackLost \/ meta.active = Target)
          BY <1>2, <2>3 DEF BeginFails
      <3>2. /\ RecordIsTrue' /\ TrialIsSpent' /\ OneTrial' /\ TargetIsUnproven'
            /\ meta'.state[running] = meta.state[running]
            /\ running \in proven => running \in proven'
          BY <2>1, <3>1, HandledTrial, EmptiedKeeps
      <3>3. InterlockHolds' /\ RunsTrusted' /\ JumpIsRecorded'
          BY <1>0, <2>1, <3>1, <3>2, HandledTrial, RunningKeepsTrust DEF OnTrial
      <3> QED
          BY <3>2, <3>3 DEF TrialInv
    <2> QED
        BY <2>2, <2>3
  <1> QED
      BY <1>1, <1>2

(* Writing the target of a session or of an erase touches no proven slot.  *)
LEMMA TargetWrittenKeeps ==
    ASSUME TypeOK, TrialInv, mode = "erase" \/ session.open,
           UNCHANGED <<meta, running, proven, trials, lost, fallbackLost>>,
           content'[running] = content[running]
    PROVE  RecordIsTrue' /\ TrialIsSpent' /\ OneTrial'
  <1>1. ASSUME ~fallbackLost, NEW s \in proven PROVE Validates(s)'
    <2>1. s = running
        BY <1>1, WriterRunsProven, SlotsOfBoard DEF TypeOK
    <2>2. Validates(s)
        BY <1>1 DEF TrialInv, RecordIsTrue
    <2> QED
        BY <2>1, <2>2 DEF Validates, Complete
  <1>2. RecordIsTrue'
      BY <1>1 DEF TrialInv, RecordIsTrue
  <1>3. TrialIsSpent' /\ OneTrial'
      BY DEF TrialInv, TrialIsSpent, OneTrial
  <1> QED
      BY <1>2, <1>3

LEMMA TrialErase ==
    ASSUME TypeOK, TrialInv, EraseStep
    PROVE  TrialInv'
  <1>1. /\ mode = "erase" /\ content' = [content EXCEPT ![Target] = Erased]
        /\ UNCHANGED <<meta, mode, running, session, armed, armInhibited, proven, trials, lost,
                       fallbackLost, unread>>
      BY DEF EraseStep
  <1>2. content'[running] = content[running]
      BY <1>1, SlotsOfBoard DEF TypeOK
  <1>3. RecordIsTrue' /\ TrialIsSpent' /\ OneTrial'
      BY <1>1, <1>2, TargetWrittenKeeps
  <1>4. TargetIsUnproven' /\ JumpIsRecorded' /\ RunsTrusted'
      BY <1>1 DEF TrialInv, TargetIsUnproven, JumpIsRecorded, RunsTrusted, Target
  <1>5. InterlockHolds'
      BY <1>1 DEF TrialInv, InterlockHolds, OnTrial
  <1> QED
      BY <1>3, <1>4, <1>5 DEF TrialInv

LEMMA TrialEraseEnds ==
    ASSUME TypeOK, TrialInv, NEW f, EraseEnds(f)
    PROVE  TrialInv'
  <1>1. /\ mode = "erase" /\ mode' = "run" /\ Refresh(meta, running, f)
        /\ UNCHANGED <<meta, content, running, armed, proven, trials, lost, fallbackLost>>
      BY DEF EraseEnds
  <1>2. RecordIsTrue' /\ TrialIsSpent' /\ OneTrial'
      BY <1>1, RefreshFacts, FlashKept
  <1>3. TargetIsUnproven' /\ JumpIsRecorded'
      BY <1>1 DEF TrialInv, TargetIsUnproven, JumpIsRecorded, Target
  <1>4. ~fallbackLost => running \in proven
      BY <1>1, WriterRunsProven
  <1>5. RunsTrusted'
      BY <1>1, <1>4 DEF RunsTrusted
  <1>6. InterlockHolds'
      BY <1>1, RefreshFacts DEF TrialInv, InterlockHolds, OnTrial
  <1> QED
      BY <1>2, <1>3, <1>5, <1>6 DEF TrialInv

LEMMA TrialChunk ==
    ASSUME BoardInv, TrialInv, NEW r \in Requests,
           ProgramFails(r) \/ \E f \in FaultKinds : ProgramChunk(r, f)
    PROVE  TrialInv'
  <1>0. TypeOK
      BY DEF BoardInv
  <1>1. /\ Mine(r) /\ ChunkExpected(r)
        /\ UNCHANGED <<meta, mode, proven, trials, lost, fallbackLost>>
        /\ \E f : Handled(meta, f)
      BY DEF ProgramFails, ProgramChunk
  <1>2. /\ mode = "run" /\ session.open /\ UNCHANGED <<running, armed>>
        /\ unread => unread'
        /\ (armInhibited' = OnTrial(meta, running)) \/ unread'
      BY <1>0, <1>1, HandledTrial DEF Mine
  <1>3. content'[running] = content[running]
      BY <1>0, <1>1, SlotsOfBoard DEF ProgramFails, ProgramChunk, TypeOK
  <1>4. RecordIsTrue' /\ TrialIsSpent' /\ OneTrial'
      BY <1>0, <1>1, <1>2, <1>3, TargetWrittenKeeps
  <1>5. InterlockHolds' /\ RunsTrusted' /\ JumpIsRecorded'
      BY <1>0, <1>1, <1>2, RunningKeepsTrust DEF OnTrial
  <1>6. TargetIsUnproven'
      BY <1>1, <1>2 DEF TrialInv, TargetIsUnproven, Target
  <1> QED
      BY <1>4, <1>5, <1>6 DEF TrialInv

LEMMA TrialFinish ==
    ASSUME TypeOK, TrialInv, NEW r \in Requests, NEW f, FinishStages(r, f)
    PROVE  TrialInv'
  <1>1. /\ meta' = meta \/ meta' = Staged(meta)
        /\ session.open /\ trials' = [trials EXCEPT ![Target] = 0]
        /\ lost' = [lost EXCEPT ![Target] = 0]
        /\ UNCHANGED <<content, mode, proven, fallbackLost>> /\ Handled(meta', f)
      BY DEF FinishStages, FinishVerdict, Mine
  <1>2. /\ meta'.state[running] = meta.state[running] /\ meta'.active = meta.active
        /\ meta'.state[Target] \in {"EMPTY", "STAGED"}
      BY <1>1, RecordFacts, RecordFlags DEF TrialInv, TargetIsUnproven
  <1>3. RecordIsTrue'
      BY <1>1, <1>2, WriterRunsProven, SlotsOfBoard DEF TrialInv, RecordIsTrue, Validates, Complete
  <1>4. \A s \in Slots : /\ trials'[s] = IF s = Target THEN 0 ELSE trials[s]
                         /\ lost'[s] = IF s = Target THEN 0 ELSE lost[s]
      BY <1>1, SlotsOfBoard DEF TypeOK
  <1>6. OneTrial'
      BY <1>1, <1>4 DEF TrialInv, OneTrial
  <1>7. TrialIsSpent'
      BY <1>1, <1>2, <1>4, WriterRunsProven, SlotsOfBoard DEF TrialInv, TrialIsSpent
  <1>8. InterlockHolds' /\ RunsTrusted' /\ JumpIsRecorded'
      BY <1>1, <1>2, HandledTrial, RunningKeepsTrust DEF OnTrial
  <1>9. TargetIsUnproven'
      BY <1>1, <1>2, HandledTrial DEF TargetIsUnproven, Target
  <1> QED
      BY <1>3, <1>6, <1>7, <1>8, <1>9 DEF TrialInv

-----------------------------------------------------------------------------
(* What otaDecideBoot() decides on metadata with a VALID fallback: the     *)
(* fallback, or the other slot for its first attempt, recorded as spent.   *)
LEMMA DecideBootTrial ==
    ASSUME NEW m \in MetaType, m.state[m.active] = "VALID"
    PROVE  LET o == Other(m.active) d == DecideBoot(m)
           IN /\ d.meta.active = m.active /\ d.meta.state[m.active] = "VALID"
              /\ d.meta.state[o] = "VALID" <=> m.state[o] = "VALID"
              /\ d.meta.state[o] # "STAGED"
              /\ d.meta.state[o] = "TESTING" => d.meta.tried
              /\ d.slot # m.active => /\ d.slot = o /\ d.meta.state[o] = "TESTING"
                                      /\ m.state[o] \in {"STAGED", "TESTING"}
                                      /\ m.state[o] = "TESTING" => ~m.tried
  <1> DEFINE o == Other(m.active)
             d == DecideBoot(m)
  <1>0. m.active \in Slots /\ o \in Slots /\ o # m.active /\ \A s \in Slots : s = m.active \/ s = o
      BY TwoSlots DEF MetaType
  <1>1. CASE m.state[o] = "STAGED"
    <2>1. InState(m, "STAGED") # {} /\ FindSlot(m, "STAGED") = o
        BY <1>0, <1>1 DEF InState, FindSlot, Slots
    <2>2. d.slot = o /\ d.meta = [m EXCEPT !.state[o] = "TESTING", !.tried = TRUE]
        BY <2>1 DEF DecideBoot
    <2> HIDE DEF o, d
    <2>3. /\ d.meta.active = m.active /\ d.meta.state[m.active] = "VALID"
          /\ d.meta.state[o] = "TESTING" /\ d.meta.tried
        BY <1>0, <2>2 DEF MetaType
    <2> QED
        BY <1>1, <2>2, <2>3 DEF o, d
  <1>2. CASE m.state[o] = "TESTING"
    <2>1. /\ InState(m, "STAGED") = {} /\ InState(m, "TESTING") # {}
          /\ FindSlot(m, "TESTING") = o
        BY <1>0, <1>2 DEF InState, FindSlot, Slots
    <2>2. CASE m.tried
      <3>1. d.slot = m.active /\ d.meta = [m EXCEPT !.state[o] = "BAD", !.tried = FALSE]
          BY <2>1, <2>2 DEF DecideBoot
      <3> HIDE DEF o, d
      <3>2. /\ d.meta.active = m.active /\ d.meta.state[m.active] = "VALID"
            /\ d.meta.state[o] = "BAD"
          BY <1>0, <3>1 DEF MetaType
      <3> QED
          BY <1>2, <3>1, <3>2 DEF o, d
    <2>3. CASE ~m.tried
      <3>1. d.slot = o /\ d.meta = [m EXCEPT !.tried = TRUE]
          BY <2>1, <2>3 DEF DecideBoot
      <3> HIDE DEF o, d
      <3>2. d.meta.active = m.active /\ d.meta.state = m.state /\ d.meta.tried
          BY <3>1 DEF MetaType
      <3> QED
          BY <1>2, <2>3, <3>1, <3>2 DEF o, d
    <2> QED
        BY <2>2, <2>3
  <1>3. CASE m.state[o] \notin {"STAGED", "TESTING"}
    <2>1. InState(m, "STAGED") = {} /\ InState(m, "TESTING") = {}
        BY <1>0, <1>3 DEF InState
    <2>2. d.slot = m.active /\ d.meta = m
        BY <2>1 DEF DecideBoot
    <2> QED
        BY <1>3, <2>2
  <1> QED
      BY <1>1, <1>2, <1>3

(* Before the bootloader has jumped, nothing is armed and no session open. *)
LEMMA BootIsIdle ==
    ASSUME BoardInv, TrialInv, mode \in {"boot", "jump"}
    PROVE  ~armed /\ ~session.open
  BY DEF BoardInv, SessionMatchesSlot, TrialInv, InterlockHolds

LEMMA TrialChoose ==
    ASSUME BoardInv, TrialInv, NEW f, ChooseSlot(f)
    PROVE  TrialInv'
  <1> DEFINE d == DecideBoot(meta)
             o == Other(meta.active)
  <1>0. TypeOK /\ meta \in MetaType
      BY DEF BoardInv, TypeOK
  <1>1. /\ mode = "boot" /\ mode' = "jump"
        /\ UNCHANGED <<content, running, session, armed, proven, trials>>
        /\ fallbackLost' = (fallbackLost \/ f = "read")
      BY DEF ChooseSlot
  <1>2. TargetIsUnproven' /\ InterlockHolds' /\ RunsTrusted'
      BY <1>1, BootIsIdle DEF TargetIsUnproven, InterlockHolds, RunsTrusted
  <1>3. CASE fallbackLost'
    <2>1. RecordIsTrue' /\ JumpIsRecorded' /\ TrialIsSpent' /\ OneTrial'
        BY <1>3 DEF RecordIsTrue, JumpIsRecorded, TrialIsSpent, OneTrial
    <2> QED
        BY <1>2, <2>1 DEF TrialInv
  <1>4. CASE ~fallbackLost'
    <2>1. ~fallbackLost /\ f # "read"
        BY <1>1, <1>4
    <2>2. /\ \A s \in Slots : s \in proven <=> meta.state[s] = "VALID"
          /\ meta.active \in proven /\ meta.state[meta.active] = "VALID"
          /\ \A s \in proven : Validates(s)
        BY <1>0, <2>1, SlotsOfBoard DEF TrialInv, RecordIsTrue
    <2>3. /\ meta' = IF f = "none" THEN d.meta ELSE meta
          /\ ram' = d.meta /\ chosen' = d.slot
          /\ lost' = IF f = "write" THEN [lost EXCEPT ![d.slot] = @ + 1] ELSE lost
        BY <2>1 DEF ChooseSlot
    <2>4. f = "none" \/ f = "write"
        BY <2>1 DEF ChooseSlot, Fault
    <2>11. trials \in [Slots -> Nat] /\ lost \in [Slots -> Nat]
        BY <1>0 DEF TypeOK
    <2>5. /\ d.meta.active = meta.active /\ d.meta.state[meta.active] = "VALID"
          /\ d.meta.state[o] = "VALID" <=> meta.state[o] = "VALID"
          /\ d.meta.state[o] # "STAGED"
          /\ d.meta.state[o] = "TESTING" => d.meta.tried
          /\ d.slot # meta.active => /\ d.slot = o /\ d.meta.state[o] = "TESTING"
                                     /\ meta.state[o] \in {"STAGED", "TESTING"}
                                     /\ meta.state[o] = "TESTING" => ~meta.tried
        BY <1>0, <2>2, DecideBootTrial
    <2>6. meta.active \in Slots /\ o \in Slots /\ \A s \in Slots : s = meta.active \/ s = o
        BY <1>0, SlotsOfBoard, TwoSlots
    <2> HIDE DEF d, o
    <2>7. RecordIsTrue'
      <3>1. \A s \in Slots : s \in proven' <=> meta'.state[s] = "VALID"
          BY <1>1, <2>2, <2>3, <2>5, <2>6
      <3>2. meta'.active \in proven'
          BY <1>1, <2>2, <2>3, <2>5
      <3>3. \A s \in proven' : Validates(s)'
          BY <1>1, <2>2 DEF Validates, Complete
      <3> QED
          BY <3>1, <3>2, <3>3 DEF RecordIsTrue
    <2>12. ASSUME NEW s \in Slots
           PROVE  /\ trials[s] \in Nat /\ lost[s] \in Nat /\ lost'[s] \in Nat
                  /\ lost'[s] = lost[s] \/ (f = "write" /\ s = d.slot /\ lost'[s] = lost[s] + 1)
                  /\ f = "write" /\ s = d.slot => lost'[s] = lost[s] + 1
        BY <2>3, <2>11, <2>12
    <2>8. OneTrial'
      <3>1. ASSUME NEW s \in Slots PROVE trials[s] <= 1 + lost[s]
          BY <2>1, <3>1 DEF TrialInv, OneTrial
      <3>2. ASSUME NEW s \in Slots PROVE trials[s] <= 1 + lost'[s]
          BY <2>12, <3>1, <3>2
      <3> QED
          BY <1>1, <3>2 DEF OneTrial
    <2>9. TrialIsSpent'
      <3>1. ASSUME NEW s \in Slots
            PROVE  /\ meta.state[s] = "STAGED" => trials[s] <= lost[s]
                   /\ meta.state[s] = "TESTING" => meta.tried
          BY <2>1, <3>1 DEF TrialInv, TrialIsSpent
      <3>2. ASSUME NEW s \in Slots, meta'.state[s] = "STAGED" PROVE trials[s] <= lost'[s]
        <4>1. meta' = meta
            BY <2>3, <2>4, <2>5, <2>6, <3>2
        <4> QED
            BY <2>12, <3>1, <3>2, <4>1
      <3>3. ASSUME NEW s \in Slots, meta'.state[s] = "TESTING" PROVE meta'.tried
          BY <2>3, <2>4, <2>5, <2>6, <3>1, <3>3
      <3> QED
          BY <1>1, <3>2, <3>3 DEF TrialIsSpent
    <2>10. JumpIsRecorded'
      <3>1. ram'.active = meta'.active /\ ram'.state[meta'.active] = "VALID"
          BY <2>3, <2>5
      <3>2. ASSUME chosen' # meta'.active PROVE meta'.state[chosen'] \in {"STAGED", "TESTING"}
          BY <2>3, <2>5, <3>2
      <3>3. ASSUME chosen' # meta'.active
            PROVE  trials'[chosen'] + (IF meta'.state[chosen'] = "STAGED" THEN 1 ELSE 0)
                       <= lost'[chosen']
        <4>1. d.slot = o /\ chosen' = o /\ meta.state[o] \in {"STAGED", "TESTING"}
            BY <2>3, <2>5, <3>3
        <4>2. meta.state[o] = "STAGED"
            BY <2>1, <2>3, <2>5, <2>6, <3>3, <4>1 DEF TrialInv, TrialIsSpent
        <4>3. trials[o] <= lost[o]
            BY <2>1, <2>6, <4>2 DEF TrialInv, TrialIsSpent
        <4>4. CASE f = "none"
          <5>1. meta'.state[o] # "STAGED"
              BY <2>3, <2>5, <4>4
          <5> QED
              BY <1>1, <2>6, <2>12, <4>1, <4>3, <4>4, <5>1
        <4>5. CASE f = "write"
            BY <1>1, <2>6, <2>12, <4>1, <4>3, <4>5
        <4> QED
            BY <2>4, <4>4, <4>5
      <3> QED
          BY <3>1, <3>2, <3>3 DEF JumpIsRecorded
    <2> QED
        BY <1>2, <2>7, <2>8, <2>9, <2>10 DEF TrialInv
  <1> QED
      BY <1>3, <1>4

LEMMA TrialJump ==
    ASSUME BoardInv, TrialInv, NEW f, JumpToChosen(f)
    PROVE  TrialInv'
  <1>0. TypeOK /\ trials \in [Slots -> Nat] /\ lost \in [Slots -> Nat] /\ chosen \in Slots
      BY DEF BoardInv, TypeOK
  <1>1. /\ mode = "jump" /\ mode' = "run" /\ running' = chosen
        /\ trials' = IF chosen \in proven THEN trials ELSE [trials EXCEPT ![chosen] = @ + 1]
        /\ Refresh(meta', chosen, f)
        /\ UNCHANGED <<meta, content, session, armed, proven, lost, fallbackLost>>
      BY DEF JumpToChosen, StartFirmware
  <1>2. (armInhibited' = OnTrial(meta', chosen)) \/ unread'
      BY <1>1, RefreshFacts
  <1>3. TargetIsUnproven' /\ JumpIsRecorded'
      BY <1>1, BootIsIdle DEF TargetIsUnproven, JumpIsRecorded
  <1>10. InterlockHolds'
      BY <1>1, <1>2, BootIsIdle DEF InterlockHolds, OnTrial
  <1>4. RecordIsTrue'
      BY <1>1 DEF TrialInv, RecordIsTrue, Validates, Complete
  <1>5. ASSUME ~fallbackLost
        PROVE  \/ chosen \in proven
               \/ /\ meta.state[chosen] \in {"STAGED", "TESTING"}
                  /\ trials[chosen] + (IF meta.state[chosen] = "STAGED" THEN 1 ELSE 0)
                         <= lost[chosen]
      BY <1>1, <1>5 DEF TrialInv, RecordIsTrue, JumpIsRecorded
  <1>6. RunsTrusted'
      BY <1>1, <1>5 DEF RunsTrusted
  <1>7. \A s \in Slots : trials'[s] = IF s = chosen /\ chosen \notin proven THEN trials[s] + 1
                                      ELSE trials[s]
      BY <1>0, <1>1
  <1>8. OneTrial'
    <2>1. ASSUME ~fallbackLost, NEW s \in Slots PROVE trials'[s] <= 1 + lost[s]
      <3>1. trials[s] \in Nat /\ lost[s] \in Nat /\ trials[s] <= 1 + lost[s]
          BY <1>0, <2>1 DEF TrialInv, OneTrial
      <3> QED
          BY <1>5, <1>7, <2>1, <3>1
    <2> QED
        BY <1>1, <2>1 DEF OneTrial
  <1>9. TrialIsSpent'
    <2>1. ASSUME ~fallbackLost, NEW s \in Slots, meta.state[s] = "STAGED"
          PROVE  trials'[s] <= lost[s]
      <3>1. trials[s] \in Nat /\ lost[s] \in Nat /\ trials[s] <= lost[s]
          BY <1>0, <2>1 DEF TrialInv, TrialIsSpent
      <3> QED
          BY <1>5, <1>7, <2>1, <3>1
    <2> QED
        BY <1>1, <2>1 DEF TrialInv, TrialIsSpent
  <1> QED
      BY <1>3, <1>4, <1>6, <1>8, <1>9, <1>10 DEF TrialInv

(* A chosen slot that does not validate is not the fallback, which does.   *)
LEMMA TrialFallBack ==
    ASSUME BoardInv, TrialInv, NEW f, FallBack(f)
    PROVE  TrialInv'
  <1> DEFINE o == Other(chosen)
  <1>0. TypeOK /\ ram \in MetaType /\ chosen \in Slots /\ o \in Slots /\ o # chosen
        /\ \A s \in Slots : s = chosen \/ s = o
      BY TwoSlots DEF BoardInv, TypeOK
  <1>1. /\ mode = "jump" /\ ~Validates(chosen)
        /\ meta' = meta \/ meta' = MarkedBad(ram, chosen)
        /\ UNCHANGED <<content, session, armed, proven, lost, fallbackLost>>
      BY DEF FallBack
  <1>2. Validates(o)
      BY <1>0, <1>1, TwoSlots DEF BoardInv, TypeOK, RunningValidates
  <1>3. /\ mode' = "run" /\ running' = o /\ Refresh(meta', o, f)
        /\ trials' = IF o \in proven THEN trials ELSE [trials EXCEPT ![o] = @ + 1]
      BY <1>2 DEF FallBack, StartFirmware
  <1>4. (armInhibited' = OnTrial(meta', o)) \/ unread'
      BY <1>3, RefreshFacts
  <1> HIDE DEF o
  <1>5. TargetIsUnproven' /\ InterlockHolds' /\ JumpIsRecorded'
      BY <1>1, <1>3, <1>4, BootIsIdle DEF TargetIsUnproven, InterlockHolds, OnTrial, JumpIsRecorded
  <1>6. CASE fallbackLost
    <2>1. RecordIsTrue' /\ TrialIsSpent' /\ OneTrial' /\ RunsTrusted'
        BY <1>1, <1>6 DEF RecordIsTrue, TrialIsSpent, OneTrial, RunsTrusted
    <2> QED
        BY <1>5, <2>1 DEF TrialInv
  <1>7. CASE ~fallbackLost
    <2>1. meta.active = o /\ o \in proven /\ chosen \notin proven
        BY <1>0, <1>1, <1>7, SlotsOfBoard DEF TrialInv, RecordIsTrue
    <2>2. meta.state[o] = "VALID" /\ ram.state[o] = "VALID" /\ ram.active = o
        BY <1>0, <1>1, <1>7, <2>1 DEF TrialInv, RecordIsTrue, JumpIsRecorded
    <2>3. /\ meta'.active = o /\ meta'.state[o] = "VALID" /\ meta'.state[chosen] # "VALID"
          /\ meta' = meta \/ meta'.state[chosen] = "BAD"
      <3>1. CASE meta' = meta
          BY <1>0, <1>7, <2>1, <2>2, <3>1 DEF TrialInv, RecordIsTrue
      <3>2. CASE meta' = MarkedBad(ram, chosen)
        <4>1. meta'.active = ram.active
            BY <1>0, <3>2 DEF MarkedBad, MetaType
        <4> QED
            BY <1>0, <2>2, <3>2, <4>1, MarkedBadFacts
      <3> QED
          BY <1>1, <3>1, <3>2
    <2>4. RecordIsTrue'
      <3>1. \A s \in Slots : s \in proven' <=> meta'.state[s] = "VALID"
          BY <1>0, <1>1, <2>1, <2>3
      <3>2. \A s \in proven' : Validates(s)'
          BY <1>1, <1>7 DEF TrialInv, RecordIsTrue, Validates, Complete
      <3> QED
          BY <1>1, <2>1, <2>3, <3>1, <3>2 DEF RecordIsTrue
    <2>5. RunsTrusted'
        BY <1>1, <1>3, <2>1 DEF RunsTrusted
    <2>6. OneTrial'
        BY <1>1, <1>3, <2>1 DEF TrialInv, OneTrial
    <2>7. TrialIsSpent'
        BY <1>0, <1>1, <1>3, <2>1, <2>3 DEF TrialInv, TrialIsSpent
    <2> QED
        BY <1>5, <2>4, <2>5, <2>6, <2>7 DEF TrialInv
  <1> QED
      BY <1>6, <1>7

-----------------------------------------------------------------------------
LEMMA TrialStep == BoardInv /\ TrialInv /\ [Next]_vars => TrialInv'
  <1> SUFFICES ASSUME BoardInv, TrialInv, [Next]_vars PROVE TrialInv'
      OBVIOUS
  <1>0. TypeOK
      BY DEF BoardInv
  <1>1. ASSUME NEW r \in Requests, Handle(r) PROVE TrialInv'
      BY <1>0, <1>1, TrialBegin, TrialChunk, TrialStatus, TrialRefusals, TrialFinish,
         TrialRevert DEF Handle
  <1>2. ASSUME NEW f \in FaultKinds, EraseEnds(f) PROVE TrialInv'
      BY <1>0, <1>2, TrialEraseEnds
  <1>3. CASE Firmware
      BY <1>0, <1>3, TrialErase, TrialPilot DEF Firmware
  <1>4. CASE Bootloader
      BY <1>4, TrialChoose, TrialJump, TrialFallBack DEF Bootloader
  <1>5. CASE Reset
      BY <1>0, <1>5, TrialReset
  <1>6. CASE UNCHANGED vars
    <2>1. UNCHANGED <<meta, content, mode, running, chosen, ram, session, armed, armInhibited,
                      proven, trials, lost, fallbackLost, unread>>
        BY <1>6 DEF vars, board
    <2>2. RecordIsTrue' /\ TrialIsSpent' /\ OneTrial'
        BY <1>0, <2>1, FlashKept
    <2>3. TargetIsUnproven' /\ JumpIsRecorded' /\ InterlockHolds' /\ RunsTrusted'
        BY <2>1 DEF TrialInv, TargetIsUnproven, JumpIsRecorded, InterlockHolds, OnTrial,
                    RunsTrusted, Target
    <2> QED
        BY <2>2, <2>3 DEF TrialInv
  <1> QED
      BY <1>1, <1>2, <1>3, <1>4, <1>5, <1>6 DEF Next

(* What the records say of the trial of an image is so, for every update,  *)
(* reset and store failure.                                                *)
THEOREM BoardTrialInvariant == Spec => []TrialInv
  <1> QED
      BY TrialInit, TrialStep, BoardInvariant, PTL DEF Spec

(* A booted board runs a proven image or one on its recorded trial, while  *)
(* its fallback is there (boot_policy.hpp, boot_app.cpp).                  *)
THEOREM BoardRunsTrusted == Spec => []RunsTrusted
  <1>1. TrialInv => RunsTrusted
      BY DEF TrialInv
  <1> QED
      BY <1>1, BoardTrialInvariant, PTL

(* No number of resets gives an unproven image a second attempt, beyond    *)
(* one for each boot record that could not be written (otaDecideBoot(),    *)
(* BootApp::chooseSlot()), while its fallback is there.                    *)
THEOREM BoardOneTrial == Spec => []OneTrial
  <1>1. TrialInv => OneTrial
      BY DEF TrialInv
  <1> QED
      BY <1>1, BoardTrialInvariant, PTL

(* No drone arms while the slot it runs is on trial, fallback or not,      *)
(* unless this boot failed to read the metadata, nor while a session is    *)
(* open (firmware_app.cpp, refreshArmInterlock()).                         *)
THEOREM BoardInterlockHolds == Spec => []InterlockHolds
  <1>1. TrialInv => InterlockHolds
      BY DEF TrialInv
  <1> QED
      BY <1>1, BoardTrialInvariant, PTL

-----------------------------------------------------------------------------
(* The session of the ground, on top of the board.                         *)

Plain == {m \in Requests \cup {RebootRequest} : m.type # "begin"}

\* The part of the types that is the ground's own.
HubTypeOK ==
    /\ phase \in busyPhases \cup {"IDLE", "CONFIRMED", "ROLLED_BACK", "FAILED"}
    /\ verdict \in {"NONE", "CONFIRMED", "ROLLED_BACK", "REVERTED", "FAILED"}
    /\ bundle \in Images /\ previous \in Images \cup {Mixed}
    /\ nonce \in 0 .. MaxStarts
    /\ acked \in 0 .. ChunkCount /\ sent \in acked .. ChunkCount
    /\ stalled \in 0 .. MaxRetries /\ resendAt \in -1 .. ChunkCount
    /\ starts \in 0 .. MaxStarts /\ nonce <= starts
    /\ phase = "QUERY" => starts > 0
    /\ phase \in Opening => nonce > 0

\* A message is given to the link: taken, or lost.
Puts(m) == toBoard' = toBoard \/ (toBoard' = Append(toBoard, m) /\ Len(toBoard) < QueueMax)

\* What a step of the ground does to the link, and to what it says of a nonce.
HubMoves ==
    /\ UNCHANGED board /\ reply' \in {reply, NoReply} /\ late' \in {late, reply, NoReply}
    /\ HubTypeOK'
    /\ \/ \E m \in Plain : Puts(m)
       \/ /\ phase = "QUERY" /\ phase' # "QUERY" /\ starts' = starts
          /\ Puts(Request("begin", starts, bundle, 0))
    /\ starts' = starts + 1 \/ (starts' = starts /\ (phase' = "QUERY" => phase = "QUERY"))
    /\ \A n : Transfers(n)' => Transfers(n) \/ TellsOpened(reply, n) \/ TellsOpened(late, n)
    /\ phase' \in {"TRANSFER", "VERIFYING"} /\ Holds(nonce') => acked' <= session.next

\* What a step of the board that meets request r does to its session, and says.
BoardMoves(r) ==
    /\ mode' = "erase" => \/ mode = "erase" /\ begun' = begun
                          \/ r.type = "begin" /\ begun' = r
    /\ session'.open => \/ /\ session.open /\ session'.nonce = session.nonce
                           /\ session.next <= session'.next
                        \/ mode = "erase" /\ mode' # "erase" /\ session'.nonce = begun.session
    /\ \/ reply' = reply
       \/ reply'.type = "status"
       \/ /\ reply'.type = "ack"
          /\ reply'.op = "BEGIN" /\ reply'.result = "OTA_OK"
               => mode = "erase" /\ mode' # "erase" /\ reply'.session = begun.session
       \/ /\ reply'.type = "chunkAck" /\ session.open /\ session'.open
          /\ reply'.session = session.nonce /\ reply'.next <= session'.next

LEMMA PlainRequests ==
    /\ StatusRequest \in Plain /\ RevertRequest \in Plain /\ RebootRequest \in Plain
    /\ StatusRequest \in Requests /\ RevertRequest \in Requests
    /\ \A n \in Sessions : /\ Request("finish", n, Factory, 0) \in Plain
                           /\ Request("abort", n, Factory, 0) \in Plain
                           /\ \A b \in Images, k \in 0 .. ChunkCount : Request("chunk", n, b, k) \in Plain
                           /\ \A b \in Images : Request("begin", n, b, 0) \in Requests
  <1>1. StatusRequest \in Requests /\ RevertRequest \in Requests
      BY DEF StatusRequest, RevertRequest, Request, Requests
  <1>2. StatusRequest \in Plain /\ RevertRequest \in Plain /\ RebootRequest \in Plain
      BY <1>1 DEF StatusRequest, RevertRequest, RebootRequest, Request, Plain
  <1>3. ASSUME NEW n \in Sessions
        PROVE  Request("finish", n, Factory, 0) \in Plain /\ Request("abort", n, Factory, 0) \in Plain
      BY DEF Request, Requests, Plain
  <1>4. ASSUME NEW n \in Sessions, NEW b \in Images, NEW k \in 0 .. ChunkCount
        PROVE  Request("chunk", n, b, k) \in Plain
      BY DEF Request, Requests, Plain
  <1>5. ASSUME NEW n \in Sessions, NEW b \in Images PROVE Request("begin", n, b, 0) \in Requests
      BY DEF Request, Requests
  <1> QED
      BY <1>1, <1>2, <1>3, <1>4, <1>5

\* The fields of a reply, by its type.
LEMMA ReplyFields ==
    ASSUME NEW rep \in Replies
    PROVE  /\ rep.type = "status" => /\ rep.running \in Slots
                                     /\ rep.img \in [Slots -> Images \cup {Mixed}]
           /\ rep.type = "chunkAck" => rep.session \in Sessions \cup {0} /\ rep.next \in 0 .. ChunkCount
           /\ rep.type = "ack" => rep.session \in Sessions \cup {0}
  <1>1. CASE rep = NoReply
      BY <1>1 DEF NoReply
  <1>2. CASE rep \in [type : {"status"}, running : Slots, busy : BOOLEAN, active : Slots,
              state : [Slots -> SlotStates], img : [Slots -> Images \cup {Mixed}]]
      BY <1>2
  <1>3. CASE rep \in [type : {"ack"}, op : {"BEGIN", "CHUNK", "FINISH", "REVERT", "ABORT"},
              session : Sessions \cup {0}, result : Results]
      BY <1>3
  <1>4. CASE rep \in [type : {"chunkAck"}, session : Sessions \cup {0}, next : 0 .. ChunkCount]
      BY <1>4
  <1> QED
      BY <1>1, <1>2, <1>3, <1>4 DEF Replies

LEMMA NoReplyTells == NoReply \in Replies /\ \A n : ~TellsOpened(NoReply, n)
  <1>1. NoReply.type = "none" /\ NoReply \in Replies
      BY DEF NoReply, Replies
  <1> QED
      BY <1>1 DEF TellsOpened

\* The frame of what is left alone.
LEMMA SessionTypes ==
    ASSUME SessionInv
    PROVE  /\ BoardInv /\ TypeOK /\ HubTypeOK /\ LinkTypeOK /\ NonceIsOnce /\ SessionTypeOK
           /\ Len(toBoard) \in Nat /\ Len(toBoard) <= QueueMax
           /\ nonce \in Nat /\ starts \in Nat
           /\ nonce > 0 => nonce \in Sessions
           /\ starts > 0 => starts \in Sessions
  <1>1. BoardInv /\ LinkTypeOK /\ NonceIsOnce /\ SessionTypeOK
      BY DEF SessionInv, AckedIsWritten
  <1>2. HubTypeOK /\ TypeOK
      BY <1>1 DEF HubTypeOK, SessionTypeOK, LinkTypeOK
  <1>3. Len(toBoard) \in Nat /\ Len(toBoard) <= QueueMax
      BY <1>1 DEF LinkTypeOK, SessionTypeOK
  <1>4. /\ nonce \in Nat /\ starts \in Nat
        /\ nonce > 0 => nonce \in Sessions
        /\ starts > 0 => starts \in Sessions
      BY <1>2, OtaSessionAssumption DEF HubTypeOK
  <1> QED
      BY <1>1, <1>2, <1>3, <1>4

-----------------------------------------------------------------------------
(* The two kinds of step keep a nonce to one session.                       *)

\* The board: a begin moves from the link to the erase, and from the erase to
\* the session, and nowhere else does a session come from.
LEMMA BoardKeepsNonce ==
    ASSUME SessionInv, BoardInv', NEW r, BoardMoves(r), reply' \in Replies,
           UNCHANGED hubButLink,
           \/ toBoard' = toBoard /\ r.type # "begin"
           \/ toBoard # <<>> /\ r = Head(toBoard) /\ toBoard' = Tail(toBoard)
    PROVE  SessionInv'
  <1> DEFINE Rs == Requests \cup {RebootRequest}
  <1>0. /\ BoardInv /\ TypeOK /\ HubTypeOK /\ LinkTypeOK /\ NonceIsOnce /\ SessionTypeOK
        /\ Len(toBoard) \in Nat /\ Len(toBoard) <= QueueMax /\ nonce \in Nat /\ starts \in Nat
        /\ toBoard \in Seq(Rs)
    <2>1. LinkTypeOK => toBoard \in Seq(Rs)
        BY DEF LinkTypeOK
    <2> QED
        BY <2>1, SessionTypes
  <1>1. /\ phase' = phase /\ nonce' = nonce /\ acked' = acked /\ late' = late /\ starts' = starts
        /\ verdict' = verdict /\ bundle' = bundle /\ previous' = previous /\ sent' = sent
        /\ stalled' = stalled /\ resendAt' = resendAt
      BY DEF hubButLink
  <1>2. /\ toBoard' \in Seq(Rs) /\ Len(toBoard') \in Nat /\ Len(toBoard') <= QueueMax
        /\ \/ toBoard' = toBoard /\ r.type # "begin"
           \/ /\ Len(toBoard') = Len(toBoard) - 1 /\ Len(toBoard) > 0 /\ r = toBoard[1]
              /\ \A i \in 1 .. Len(toBoard') : toBoard'[i] = toBoard[i + 1]
    <2>0. QueueMax \in Nat
        BY OtaSessionAssumption
    <2>1. CASE toBoard' = toBoard
        BY <1>0, <2>1
    <2>2. CASE toBoard # <<>> /\ r = Head(toBoard) /\ toBoard' = Tail(toBoard)
        BY <1>0, <2>0, <2>2
    <2> QED
        BY <2>1, <2>2
  <1>3. r.type = "begin" => r \in Requests /\ r.session \in Sessions
    <2>1. ASSUME r.type = "begin" PROVE r \in Rs
        BY <1>0, <1>2, <2>1
    <2>2. RebootRequest.type = "reboot"
        BY DEF RebootRequest, Request
    <2>3. \A x \in Requests : x.type = "begin" => x.session \in Sessions
        BY DEF Requests
    <2> QED
        BY <2>1, <2>2, <2>3
  <1>4. ASSUME NEW n \in Sessions
        PROVE  /\ \A i \in 1 .. Len(toBoard') : QueuedAt(i, n)' =>
                     \/ i \in 1 .. Len(toBoard) /\ QueuedAt(i, n) /\ toBoard' = toBoard
                     \/ i + 1 \in 1 .. Len(toBoard) /\ QueuedAt(i + 1, n) /\ toBoard # toBoard'
               /\ Serves(n)' => Serves(n) \/ (QueuedAt(1, n) /\ Len(toBoard) > 0 /\ toBoard' # toBoard)
    <2>1. ASSUME NEW i \in 1 .. Len(toBoard'), QueuedAt(i, n)'
          PROVE  \/ i \in 1 .. Len(toBoard) /\ QueuedAt(i, n) /\ toBoard' = toBoard
                 \/ i + 1 \in 1 .. Len(toBoard) /\ QueuedAt(i + 1, n) /\ toBoard # toBoard'
      <3>1. CASE toBoard' = toBoard
          BY <2>1, <3>1 DEF QueuedAt
      <3>2. CASE toBoard' # toBoard
        <4>1. toBoard'[i] = toBoard[i + 1] /\ i + 1 \in 1 .. Len(toBoard)
            BY <1>0, <1>2, <3>2
        <4> QED
            BY <2>1, <3>2, <4>1 DEF QueuedAt
      <3> QED
          BY <3>1, <3>2
    <2>2. ASSUME Serves(n)', ~Serves(n)
          PROVE  QueuedAt(1, n) /\ Len(toBoard) > 0 /\ toBoard' # toBoard
      <3>1. r.type = "begin" /\ r.session = n
          BY <2>2 DEF Serves, BoardMoves
      <3> QED
          BY <1>0, <1>2, <3>1 DEF QueuedAt
    <2> QED
        BY <2>1, <2>2
  <1>5. ASSUME NEW n, Holds(n)'
        PROVE  (Holds(n) /\ session.next <= session'.next) \/ (Serves(n) /\ mode' # "erase")
      BY <1>5 DEF Holds, Serves, BoardMoves
  <1>6. ASSUME NEW n, TellsOpened(reply, n)'
        PROVE  TellsOpened(reply, n) \/ Holds(n) \/ (Serves(n) /\ mode' # "erase")
      BY <1>6 DEF TellsOpened, Holds, Serves, BoardMoves
  <1>7. ASSUME NEW n, Opened(n)' PROVE Opened(n) \/ (Serves(n) /\ mode' # "erase")
    <2>1. TellsOpened(late, n)' => TellsOpened(late, n)
        BY <1>1 DEF TellsOpened
    <2>2. Transfers(n)' => Transfers(n)
        BY <1>1 DEF Transfers
    <2> QED
        BY <1>5, <1>6, <1>7, <2>1, <2>2 DEF Opened
  <1>8. NonceIsOnce'
    <2> SUFFICES ASSUME NEW n \in Sessions
                 PROVE  /\ \A i, j \in 1 .. Len(toBoard') : QueuedAt(i, n)' /\ QueuedAt(j, n)' => i = j
                        /\ Serves(n)' => \A i \in 1 .. Len(toBoard') : ~QueuedAt(i, n)'
                        /\ Asked(n)' => ~Opened(n)'
                        /\ phase' = "QUERY" /\ n = starts' => ~Asked(n)' /\ ~Opened(n)'
                        /\ n \in Nat /\ n > starts' => ~Asked(n)' /\ ~Opened(n)'
        BY DEF NonceIsOnce
    <2>1. /\ \A i, j \in 1 .. Len(toBoard) : QueuedAt(i, n) /\ QueuedAt(j, n) => i = j
          /\ Serves(n) => \A i \in 1 .. Len(toBoard) : ~QueuedAt(i, n)
          /\ Asked(n) => ~Opened(n)
          /\ phase = "QUERY" /\ n = starts => ~Asked(n) /\ ~Opened(n)
          /\ n \in Nat /\ n > starts => ~Asked(n) /\ ~Opened(n)
        BY <1>0 DEF NonceIsOnce
    <2>2. \A i, j \in 1 .. Len(toBoard') : QueuedAt(i, n)' /\ QueuedAt(j, n)' => i = j
        BY <1>2, <1>4, <2>1
    <2>3. Serves(n)' => \A i \in 1 .. Len(toBoard') : ~QueuedAt(i, n)'
        BY <1>2, <1>4, <2>1
    <2>4. Asked(n)' => Asked(n)
        BY <1>0, <1>4 DEF Asked
    <2>5. Asked(n)' => ~(Serves(n) /\ mode' # "erase")
        BY <1>4, <2>1 DEF Asked, Serves
    <2>6. Opened(n)' => Opened(n) \/ Asked(n)
        BY <1>7 DEF Asked
    <2> QED
        BY <1>1, <1>7, <2>1, <2>2, <2>3, <2>4, <2>5, <2>6
  <1>9. ASSUME NEW n \in Sessions \cup {0}, Opened(n), Holds(n)'
        PROVE  Holds(n) /\ session.next <= session'.next
    <2>1. ~Serves(n)
      <3> SUFFICES ASSUME Serves(n) PROVE FALSE
          OBVIOUS
      <3>1. n \in Sessions
          BY <1>0 DEF Serves, LinkTypeOK
      <3> QED
          BY <1>0, <1>9, <3>1 DEF NonceIsOnce, Asked
    <2> QED
        BY <1>5, <1>9, <2>1
  <1>10. ASSUME NEW rep \in Replies, Backed(rep), \A n : TellsOpened(rep, n) => Opened(n),
                rep.type = "chunkAck", Holds(rep.session)'
         PROVE  rep.next <= session'.next
    <2>1. rep.session \in Sessions \cup {0} /\ rep.next \in 0 .. ChunkCount
        BY <1>10, ReplyFields
    <2>2. Opened(rep.session)
        BY <1>10 DEF TellsOpened
    <2>3. Holds(rep.session) /\ session.next <= session'.next
        BY <1>9, <1>10, <2>1, <2>2
    <2>4. rep.next <= session.next
        BY <1>10, <2>3 DEF Backed
    <2>5. session.next \in Nat /\ session'.next \in Nat
        BY <1>0, OtaBoardAssumption DEF BoardInv, TypeOK
    <2> QED
        BY <2>1, <2>3, <2>4, <2>5
  <1>11. Backed(late)'
    <2>1. late \in Replies /\ Backed(late) /\ \A n : TellsOpened(late, n) => Opened(n)
        BY <1>0 DEF SessionInv, LinkTypeOK, Opened
    <2>2. late'.type = "chunkAck" /\ Holds(late.session)' => late.next <= session'.next
        BY <1>1, <1>10, <2>1
    <2> QED
        BY <1>1, <2>2 DEF Backed
  <1>12. Backed(reply)'
    <2>1. CASE reply' = reply
      <3>1. reply \in Replies /\ Backed(reply) /\ \A n : TellsOpened(reply, n) => Opened(n)
          BY <1>0 DEF SessionInv, LinkTypeOK, Opened
      <3>2. reply.type = "chunkAck" /\ Holds(reply.session)' => reply.next <= session'.next
          BY <1>10, <2>1, <3>1
      <3> QED
          BY <2>1, <3>2 DEF Backed
    <2>2. CASE reply' # reply
        BY <2>2 DEF Backed, BoardMoves
    <2> QED
        BY <2>1, <2>2
  <1>13. AckedIsWritten'
    <2>1. SessionTypeOK'
      <3>1. TypeOK'
          BY DEF BoardInv
      <3> QED
          BY <1>0, <1>1, <1>2, <3>1 DEF SessionTypeOK
    <2>2. ASSUME phase' \in {"TRANSFER", "VERIFYING"}, Holds(nonce)'
          PROVE  acked' <= session'.next
      <3>1. Opened(nonce) /\ nonce \in Sessions
        <4>1. Opened(nonce)
            BY <1>1, <2>2 DEF Opened, Transfers
        <4>2. nonce > 0
            BY <1>0, <1>1, <2>2 DEF LinkTypeOK, Opening
        <4> QED
            BY <4>1, <4>2, SessionTypes
      <3>2. Holds(nonce) /\ session.next <= session'.next
          BY <1>1, <1>9, <2>2, <3>1
      <3>3. acked <= session.next
          BY <1>1, <2>2, <3>2 DEF SessionInv, AckedIsWritten, Holds
      <3>4. acked \in Nat /\ session.next \in Nat /\ session'.next \in Nat
        <4>1. acked \in Nat
            BY <1>0, OtaBoardAssumption DEF HubTypeOK
        <4>2. session.next \in Nat /\ session'.next \in Nat
            BY <1>0, OtaBoardAssumption DEF BoardInv, TypeOK
        <4> QED
            BY <4>1, <4>2
      <3> QED
          BY <1>1, <3>2, <3>3, <3>4
    <2> QED
        BY <2>1, <2>2 DEF AckedIsWritten, Holds
  <1>14. LinkTypeOK'
    <2>1. mode' = "erase" => begun'.session \in Sessions
        BY <1>0, <1>3 DEF LinkTypeOK, BoardMoves
    <2> QED
        BY <1>0, <1>1, <1>2, <2>1 DEF LinkTypeOK
  <1> QED
      BY <1>8, <1>11, <1>12, <1>13, <1>14 DEF SessionInv

\* The ground: only the first step out of QUERY sends a begin, with a nonce
\* that nothing bears yet.
LEMMA HubKeepsNonce == ASSUME SessionInv, HubMoves PROVE SessionInv'
  <1> DEFINE Rs == Requests \cup {RebootRequest}
             b0 == Request("begin", starts, bundle, 0)
             begins == phase = "QUERY" /\ phase' # "QUERY" /\ starts' = starts
  <1>0. /\ BoardInv /\ TypeOK /\ HubTypeOK /\ LinkTypeOK /\ NonceIsOnce /\ SessionTypeOK
        /\ Len(toBoard) \in Nat /\ Len(toBoard) <= QueueMax /\ nonce \in Nat /\ starts \in Nat
        /\ toBoard \in Seq(Rs) /\ reply \in Replies /\ late \in Replies
    <2>1. LinkTypeOK => toBoard \in Seq(Rs) /\ reply \in Replies /\ late \in Replies
        BY DEF LinkTypeOK
    <2> QED
        BY <2>1, SessionTypes
  <1>1. /\ UNCHANGED board /\ reply' \in {reply, NoReply} /\ late' \in {late, reply, NoReply}
        /\ HubTypeOK'
        /\ starts' = starts + 1 \/ (starts' = starts /\ (phase' = "QUERY" => phase = "QUERY"))
        /\ \A n : Transfers(n)' => Transfers(n) \/ TellsOpened(reply, n) \/ TellsOpened(late, n)
        /\ phase' \in {"TRANSFER", "VERIFYING"} /\ Holds(nonce') => acked' <= session.next
        /\ (\E m \in Plain : Puts(m)) \/ (begins /\ Puts(b0))
      BY DEF HubMoves
  <1>2. session' = session /\ mode' = mode /\ begun' = begun
      BY <1>1 DEF board
  <1>3. PICK m \in Rs : Puts(m) /\ (m.type = "begin" => begins /\ m.session = starts)
    <2>1. CASE begins /\ Puts(b0)
      <3>1. starts \in Sessions /\ bundle \in Images
        <4>1. starts > 0
            BY <1>0, <2>1 DEF HubTypeOK
        <4>2. starts \in Sessions
            BY <4>1, SessionTypes
        <4> QED
            BY <1>0, <4>2 DEF HubTypeOK
      <3>2. b0 \in Rs /\ b0.session = starts
          BY <3>1, PlainRequests DEF Request
      <3> QED
          BY <2>1, <3>2
    <2>2. CASE \E m \in Plain : Puts(m)
        BY <2>2 DEF Plain
    <2> QED
        BY <1>1, <2>1, <2>2
  <1>4. /\ toBoard' \in Seq(Rs) /\ Len(toBoard') \in Nat /\ Len(toBoard') <= QueueMax
        /\ \/ toBoard' = toBoard
           \/ /\ Len(toBoard') = Len(toBoard) + 1 /\ toBoard'[Len(toBoard) + 1] = m
              /\ \A i \in 1 .. Len(toBoard) : toBoard'[i] = toBoard[i]
    <2>0. QueueMax \in Nat
        BY OtaSessionAssumption
    <2>1. CASE toBoard' = toBoard
        BY <1>0, <2>1
    <2>2. CASE toBoard' = Append(toBoard, m) /\ Len(toBoard) < QueueMax
        BY <1>0, <2>0, <2>2
    <2> QED
        BY <1>3, <2>1, <2>2 DEF Puts
  <1>5. PICK len \in Nat : len = Len(toBoard)
      BY <1>0
  <1>6. ASSUME NEW n, NEW i \in 1 .. Len(toBoard'), QueuedAt(i, n)'
        PROVE  \/ i \in 1 .. len /\ QueuedAt(i, n)
               \/ i = len + 1 /\ n = starts /\ begins
    <2>1. CASE toBoard' = toBoard
        BY <1>5, <1>6, <2>1 DEF QueuedAt
    <2>2. CASE /\ Len(toBoard') = len + 1 /\ toBoard'[len + 1] = m
               /\ \A k \in 1 .. len : toBoard'[k] = toBoard[k]
      <3>1. CASE i \in 1 .. len
          BY <1>6, <2>2, <3>1 DEF QueuedAt
      <3>2. CASE i = len + 1
          BY <1>3, <1>6, <2>2, <3>2 DEF QueuedAt
      <3> QED
          BY <1>5, <2>2, <3>1, <3>2
    <2> QED
        BY <1>4, <1>5, <2>1, <2>2
  <1>7. \A n : Serves(n)' <=> Serves(n)
      BY <1>2 DEF Serves
  <1>8. ASSUME NEW n PROVE (Holds(n)' <=> Holds(n)) /\ (Opened(n)' => Opened(n))
    <2>1. Holds(n)' <=> Holds(n)
        BY <1>2 DEF Holds
    <2>2. TellsOpened(reply, n)' => TellsOpened(reply, n)
        BY <1>1, NoReplyTells DEF TellsOpened
    <2>3. TellsOpened(late, n)' => TellsOpened(reply, n) \/ TellsOpened(late, n)
        BY <1>1, NoReplyTells DEF TellsOpened
    <2> QED
        BY <1>1, <2>1, <2>2, <2>3 DEF Opened
  <1>9. NonceIsOnce'
    <2> SUFFICES ASSUME NEW n \in Sessions
                 PROVE  /\ \A i, j \in 1 .. Len(toBoard') : QueuedAt(i, n)' /\ QueuedAt(j, n)' => i = j
                        /\ Serves(n)' => \A i \in 1 .. Len(toBoard') : ~QueuedAt(i, n)'
                        /\ Asked(n)' => ~Opened(n)'
                        /\ phase' = "QUERY" /\ n = starts' => ~Asked(n)' /\ ~Opened(n)'
                        /\ n \in Nat /\ n > starts' => ~Asked(n)' /\ ~Opened(n)'
        BY DEF NonceIsOnce
    <2>1. /\ \A i, j \in 1 .. len : QueuedAt(i, n) /\ QueuedAt(j, n) => i = j
          /\ Serves(n) => \A i \in 1 .. len : ~QueuedAt(i, n)
          /\ Asked(n) => ~Opened(n)
          /\ phase = "QUERY" /\ n = starts => ~Asked(n) /\ ~Opened(n)
          /\ n \in Nat /\ n > starts => ~Asked(n) /\ ~Opened(n)
        BY <1>0, <1>5 DEF NonceIsOnce
    <2>2. \A i \in 1 .. len : QueuedAt(i, n) => Asked(n)
        BY <1>5 DEF Asked
    <2>3. \A i, j \in 1 .. Len(toBoard') : QueuedAt(i, n)' /\ QueuedAt(j, n)' => i = j
        BY <1>6, <2>1, <2>2
    <2>4. Serves(n)' => \A i \in 1 .. Len(toBoard') : ~QueuedAt(i, n)'
        BY <1>6, <1>7, <2>1 DEF Asked
    <2>5. Asked(n)' => Asked(n) \/ (n = starts /\ begins)
        BY <1>6, <1>7, <2>2 DEF Asked
    <2>6. Asked(n)' => ~Opened(n)'
        BY <1>8, <2>1, <2>5
    <2>7. phase' = "QUERY" /\ n = starts' => ~Asked(n)' /\ ~Opened(n)'
      <3>1. CASE starts' = starts + 1
          BY <1>0, <1>8, <2>1, <2>5, <3>1
      <3>2. CASE starts' = starts /\ (phase' = "QUERY" => phase = "QUERY")
          BY <1>8, <2>1, <2>5, <3>2
      <3> QED
          BY <1>1, <3>1, <3>2
    <2>8. n \in Nat /\ n > starts' => ~Asked(n)' /\ ~Opened(n)'
        BY <1>0, <1>1, <1>8, <2>1, <2>5
    <2> QED
        BY <2>3, <2>4, <2>6, <2>7, <2>8
  <1>10. Backed(reply)' /\ Backed(late)'
    <2>1. Backed(reply) /\ Backed(late) /\ NoReply.type = "none"
        BY DEF SessionInv, NoReply
    <2>2. ASSUME NEW rep, Backed(rep), rep.type = "chunkAck", session'.open, session'.nonce = rep.session
          PROVE  rep.next <= session'.next
        BY <1>2, <2>2 DEF Backed, Holds
    <2> QED
        BY <1>1, <2>1, <2>2 DEF Backed, Holds
  <1>11. AckedIsWritten'
    <2>1. TypeOK'
        BY <1>0, <1>1 DEF board, TypeOK
    <2>2. SessionTypeOK'
        BY <1>1, <1>4, <2>1 DEF SessionTypeOK, HubTypeOK
    <2> QED
        BY <1>1, <1>2, <2>2 DEF AckedIsWritten, Holds
  <1>12. LinkTypeOK'
    <2>1. reply' \in Replies /\ late' \in Replies
        BY <1>0, <1>1, NoReplyTells
    <2> QED
        BY <1>0, <1>1, <1>2, <1>4, <2>1 DEF LinkTypeOK, HubTypeOK
  <1>13. BoardInv'
    <2>1. TypeOK'
        BY <1>0, <1>1 DEF board, TypeOK
    <2>2. UNCHANGED <<meta, content, mode, running, chosen, ram, session>>
        BY <1>1 DEF board
    <2> QED
        BY <1>0, <2>1, <2>2, QuietKeeps DEF BoardInv
  <1> QED
      BY <1>9, <1>10, <1>11, <1>12, <1>13 DEF SessionInv

-----------------------------------------------------------------------------
(* The steps of the ground are such moves.                                  *)

Phases == busyPhases \cup {"IDLE", "CONFIRMED", "ROLLED_BACK", "FAILED"}
Verdicts == {"NONE", "CONFIRMED", "ROLLED_BACK", "REVERTED", "FAILED"}
SendsPlain == \E m \in Plain : Puts(m)

LEMMA DeliverPuts == ASSUME NEW m, Deliver(m) PROVE Puts(m)
  BY DEF Deliver, Puts

LEMMA SilenceIsPlain == toBoard' = toBoard => SendsPlain
  BY PlainRequests DEF SendsPlain, Puts

LEMMA FailPuts ==
    ASSUME Fail PROVE SendsPlain /\ phase' = "FAILED" /\ verdict' = "FAILED"
  BY SilenceIsPlain DEF Fail

LEMMA EmitPuts ==
    ASSUME NEW m \in Plain, NEW ph, NEW v, Emit(m, ph, v)
    PROVE  SendsPlain /\ phase' \in {ph, "FAILED"} /\ verdict' \in {v, "FAILED"}
  <1>1. CASE Deliver(m) /\ phase' = ph /\ verdict' = v
      BY <1>1, DeliverPuts DEF SendsPlain
  <1>2. CASE UNCHANGED toBoard /\ phase' = "FAILED" /\ verdict' = "FAILED"
      BY <1>2, SilenceIsPlain
  <1> QED
      BY <1>1, <1>2 DEF Emit

\* pumpChunks() sends chunks of the session, and no further than the image.
LEMMA PumpPuts ==
    ASSUME SessionInv, nonce > 0, NEW base \in 0 .. ChunkCount, NEW from \in base .. ChunkCount,
           NEW restart, PumpFrom(from, base, restart)
    PROVE  /\ SendsPlain /\ sent' \in from .. ChunkCount
           /\ phase' \in {"TRANSFER", "FAILED"} /\ verdict' \in {verdict, "FAILED"}
  <1>0. ChunkCount \in Nat /\ from \in 0 .. ChunkCount /\ nonce \in Sessions /\ bundle \in Images
      BY OtaBoardAssumption, SessionTypes DEF HubTypeOK
  <1>1. Request("chunk", nonce, bundle, from) \in Plain
      BY <1>0, PlainRequests
  <1>2. CASE /\ from < ChunkCount /\ Deliver(Request("chunk", nonce, bundle, from))
             /\ sent' = from + 1 /\ phase' = "TRANSFER" /\ UNCHANGED verdict
      BY <1>0, <1>1, <1>2, DeliverPuts DEF SendsPlain
  <1>3. CASE Fail /\ sent' = from
      BY <1>0, <1>3, FailPuts
  <1>4. CASE sent' = from /\ phase' = "TRANSFER" /\ UNCHANGED <<verdict, toBoard>>
      BY <1>0, <1>4, SilenceIsPlain
  <1> QED
      BY <1>2, <1>3, <1>4 DEF PumpFrom, InWindow

\* A step that keeps the session's name moves by its phase and its counts.
LEMMA NonceKept ==
    ASSUME SessionInv, UNCHANGED board, reply' \in {reply, NoReply},
           late' \in {late, reply, NoReply}, SendsPlain,
           starts' = starts, bundle' = bundle, previous' = previous, nonce' = nonce,
           phase' \in Phases, verdict' \in Verdicts,
           acked' \in 0 .. ChunkCount, sent' \in acked' .. ChunkCount,
           stalled' \in 0 .. MaxRetries, resendAt' \in -1 .. ChunkCount,
           phase' = "QUERY" => phase = "QUERY",
           phase' \in Opening => phase \in Opening,
           phase' \in {"TRANSFER", "VERIFYING"} =>
               \/ phase \in {"TRANSFER", "VERIFYING"}
               \/ TellsOpened(reply, nonce) \/ TellsOpened(late, nonce),
           phase' \in {"TRANSFER", "VERIFYING"} /\ Holds(nonce) => acked' <= session.next
    PROVE  HubMoves
  <1>1. HubTypeOK'
      BY SessionTypes DEF HubTypeOK, Phases, Verdicts
  <1>2. \A n : Transfers(n)' => Transfers(n) \/ TellsOpened(reply, n) \/ TellsOpened(late, n)
      BY DEF Transfers
  <1>3. phase' \in {"TRANSFER", "VERIFYING"} /\ Holds(nonce') => acked' <= session.next
      BY DEF Holds
  <1> QED
      BY <1>1, <1>2, <1>3 DEF HubMoves, SendsPlain

\* What the ground has counted, when it leaves it alone.
LEMMA CountsKept ==
    ASSUME SessionInv
    PROVE  /\ phase \in Phases /\ verdict \in Verdicts
           /\ acked \in 0 .. ChunkCount /\ sent \in acked .. ChunkCount
           /\ acked \in Nat /\ sent \in 0 .. ChunkCount /\ ChunkCount \in Nat
           /\ stalled \in 0 .. MaxRetries /\ resendAt \in -1 .. ChunkCount
           /\ MaxRetries \in Nat /\ session.next \in Nat
           /\ phase \in {"TRANSFER", "VERIFYING"} /\ Holds(nonce) => acked <= session.next
           /\ phase \in Opening => nonce > 0
  <1>1. /\ phase \in Phases /\ verdict \in Verdicts
        /\ acked \in 0 .. ChunkCount /\ sent \in acked .. ChunkCount
        /\ stalled \in 0 .. MaxRetries /\ resendAt \in -1 .. ChunkCount
        /\ phase \in Opening => nonce > 0
      BY SessionTypes DEF HubTypeOK, Phases, Verdicts
  <1>2. ChunkCount \in Nat /\ MaxRetries \in Nat
      BY OtaBoardAssumption, OtaSessionAssumption
  <1>3. session.next \in Nat
      BY <1>2, SessionTypes DEF TypeOK
  <1>4. phase \in {"TRANSFER", "VERIFYING"} /\ Holds(nonce) => acked <= session.next
      BY DEF SessionInv, AckedIsWritten, Holds
  <1> QED
      BY <1>1, <1>2, <1>3, <1>4

LEMMA OperatorMoves ==
    ASSUME SessionInv,
           \/ \E b \in Images : Start(b)
           \/ StartUnreadable \/ AbortSession \/ Revert \/ RequestBoardStatus
    PROVE  HubMoves
  <1> USE CountsKept
  <1>1. ASSUME NEW b \in Images, Start(b) PROVE HubMoves
    <2>1. /\ starts < MaxStarts /\ starts' = starts + 1 /\ bundle' = b /\ nonce' = 0
          /\ previous' = Mixed /\ acked' = 0 /\ sent' = 0 /\ UNCHANGED <<stalled, resendAt, late>>
          /\ UNCHANGED board /\ UNCHANGED reply /\ Emit(StatusRequest, "QUERY", "NONE")
        BY <1>1 DEF Start, vars
    <2>2. SendsPlain /\ phase' \in {"QUERY", "FAILED"} /\ verdict' \in {"NONE", "FAILED"}
        BY <2>1, EmitPuts, PlainRequests
    <2>3. starts \in 0 .. MaxStarts /\ MaxStarts \in Nat
        BY SessionTypes, OtaSessionAssumption DEF HubTypeOK
    <2>4. HubTypeOK'
        BY <2>1, <2>2, <2>3 DEF HubTypeOK, busyPhases, Opening
    <2> QED
        BY <2>1, <2>2, <2>4 DEF HubMoves, SendsPlain, Transfers
  <1>2. CASE StartUnreadable
    <2>1. /\ Fail /\ UNCHANGED <<bundle, nonce, previous, acked, sent, stalled, resendAt, starts, late>>
          /\ UNCHANGED board /\ UNCHANGED reply
        BY <1>2 DEF StartUnreadable, vars
    <2>2. SendsPlain /\ phase' = "FAILED" /\ verdict' = "FAILED"
        BY <2>1, FailPuts
    <2> QED
        BY <2>1, <2>2, NonceKept DEF Phases, Verdicts, Opening
  <1>3. CASE AbortSession
    <2>1. /\ phase' = "IDLE" /\ verdict' = "NONE" /\ nonce' = 0 /\ acked' = 0 /\ sent' = 0
          /\ UNCHANGED <<bundle, previous, stalled, resendAt, starts, late>>
          /\ UNCHANGED board /\ UNCHANGED reply
        BY <1>3 DEF AbortSession, vars
    <2>2. SendsPlain
      <3>1. CASE phase \in Opening
        <4>1. nonce \in Sessions
            BY <3>1, SessionTypes
        <4>2. Deliver(Request("abort", nonce, Factory, 0))
            BY <1>3, <3>1 DEF AbortSession, Opening
        <4> QED
            BY <4>1, <4>2, DeliverPuts, PlainRequests DEF SendsPlain
      <3>2. CASE phase \notin Opening
          BY <1>3, <3>2, SilenceIsPlain DEF AbortSession, Opening
      <3> QED
          BY <3>1, <3>2
    <2>3. HubTypeOK'
        BY <2>1, SessionTypes, OtaSessionAssumption DEF HubTypeOK, Opening
    <2> QED
        BY <2>1, <2>2, <2>3 DEF HubMoves, SendsPlain, Transfers
  <1>4. CASE Revert
    <2>1. /\ Emit(RevertRequest, "REVERTING", "NONE")
          /\ UNCHANGED <<bundle, nonce, previous, acked, sent, stalled, resendAt, starts, late>>
          /\ UNCHANGED board /\ UNCHANGED reply
        BY <1>4 DEF Revert, vars
    <2>2. SendsPlain /\ phase' \in {"REVERTING", "FAILED"} /\ verdict' \in {"NONE", "FAILED"}
        BY <2>1, EmitPuts, PlainRequests
    <2> QED
        BY <2>1, <2>2, NonceKept DEF Phases, Verdicts, Opening, busyPhases
  <1>5. CASE RequestBoardStatus
    <2>1. /\ Deliver(StatusRequest)
          /\ UNCHANGED <<phase, verdict, bundle, nonce, previous, acked, sent, stalled, resendAt,
                         starts, late>>
          /\ UNCHANGED board /\ UNCHANGED reply
        BY <1>5 DEF RequestBoardStatus, quiet, vars
    <2>2. SendsPlain
        BY <2>1, DeliverPuts, PlainRequests DEF SendsPlain
    <2> QED
        BY <2>1, <2>2, NonceKept
  <1> QED
      BY <1>1, <1>2, <1>3, <1>4, <1>5

LEMMA TickMoves == ASSUME SessionInv, HubTick \/ PollTick PROVE HubMoves
  <1> USE CountsKept
  <1>0. ASSUME quiet' = quiet
        PROVE  /\ UNCHANGED <<late, bundle, nonce, previous, starts>>
               /\ UNCHANGED board /\ UNCHANGED reply
      BY <1>0 DEF quiet, vars
  <1>1. ASSUME NEW m \in Plain, phase \notin Opening, phase # "QUERY" \/ m = StatusRequest,
               quiet' = quiet, UNCHANGED <<acked, sent, stalled, resendAt>>,
               Fail \/ Emit(m, phase, verdict)
        PROVE  HubMoves
    <2>1. SendsPlain /\ phase' \in {phase, "FAILED"} /\ verdict' \in {verdict, "FAILED"}
        BY <1>1, EmitPuts, FailPuts
    <2>2. phase' \in Phases /\ verdict' \in Verdicts /\ phase' \notin Opening
        BY <1>1, <2>1 DEF Phases, Verdicts, Opening
    <2>3. phase' = "QUERY" => phase = "QUERY"
        BY <2>1
    <2> QED
        BY <1>0, <1>1, <2>1, <2>2, <2>3, NonceKept DEF Opening
  <1>2. CASE QueryTick
      BY <1>1, <1>2, PlainRequests DEF QueryTick, Opening
  <1>3. CASE RevertTick
      BY <1>1, <1>3, PlainRequests DEF RevertTick, Opening
  <1>4. CASE PollTick
      BY <1>1, <1>4, PlainRequests DEF PollTick, Opening
  <1>5. CASE DeadlineTick
    <2>1. Fail /\ quiet' = quiet /\ UNCHANGED <<acked, sent, stalled, resendAt>>
        BY <1>5 DEF DeadlineTick
    <2>2. SendsPlain /\ phase' = "FAILED" /\ verdict' = "FAILED"
        BY <2>1, FailPuts
    <2> QED
        BY <1>0, <2>1, <2>2, NonceKept DEF Phases, Verdicts, Opening
  <1>6. CASE SettleTick
    <2>1. /\ phase' = "WAITING_BOARD" /\ quiet' = quiet /\ toBoard' = toBoard
          /\ UNCHANGED <<verdict, acked, sent, stalled, resendAt>>
        BY <1>6 DEF SettleTick
    <2> QED
        BY <1>0, <2>1, SilenceIsPlain, NonceKept DEF Phases, busyPhases, Opening
  <1>7. ASSUME phase = "TRANSFER", quiet' = quiet, UNCHANGED <<acked, resendAt>>,
               stalled' \in 0 .. MaxRetries, NEW from \in acked .. ChunkCount,
               PumpFrom(from, acked, TRUE)
        PROVE  HubMoves
    <2>1. nonce > 0
        BY <1>7 DEF Opening
    <2>2. /\ SendsPlain /\ sent' \in from .. ChunkCount
          /\ phase' \in {"TRANSFER", "FAILED"} /\ verdict' \in {verdict, "FAILED"}
        BY <1>7, <2>1, PumpPuts
    <2>3. sent' \in acked' .. ChunkCount
        BY <1>7, <2>2
    <2>4. phase' \in Phases /\ verdict' \in Verdicts /\ phase \in Opening /\ phase' # "QUERY"
        BY <1>7, <2>2 DEF Phases, Verdicts, Opening, busyPhases
    <2> QED
        BY <1>0, <1>7, <2>2, <2>3, <2>4, NonceKept
  <1>8. CASE ChunkTimeout
    <2>1. CASE stalled >= MaxRetries
      <3>1. Fail /\ quiet' = quiet /\ UNCHANGED <<acked, sent, stalled, resendAt>>
          BY <1>8, <2>1 DEF ChunkTimeout
      <3>2. SendsPlain /\ phase' = "FAILED" /\ verdict' = "FAILED"
          BY <3>1, FailPuts
      <3> QED
          BY <1>0, <3>1, <3>2, NonceKept DEF Phases, Verdicts, Opening
    <2>2. CASE ~(stalled >= MaxRetries)
      <3>1. /\ phase = "TRANSFER" /\ quiet' = quiet /\ UNCHANGED <<acked, resendAt>>
            /\ stalled' = stalled + 1 /\ PumpFrom(acked, acked, TRUE)
          BY <1>8, <2>2 DEF ChunkTimeout
      <3>2. stalled' \in 0 .. MaxRetries /\ acked \in acked .. ChunkCount
          BY <2>2, <3>1
      <3> QED
          BY <1>7, <3>1, <3>2
    <2> QED
        BY <2>1, <2>2
  <1>9. CASE PumpTick
    <2>1. /\ phase = "TRANSFER" /\ quiet' = quiet /\ UNCHANGED <<acked, stalled, resendAt>>
          /\ PumpFrom(sent, acked, TRUE)
        BY <1>9 DEF PumpTick
    <2> QED
        BY <1>7, <2>1
  <1> QED
      BY <1>2, <1>3, <1>4, <1>5, <1>6, <1>8, <1>9 DEF HubTick

\* A status opens a transfer or judges a trial.
LEMMA StatusMoves ==
    ASSUME SessionInv, NEW st \in Replies, st.type = "status", OnStatus(st),
           UNCHANGED board, reply' \in {reply, NoReply}, late' \in {late, reply, NoReply},
           UNCHANGED <<bundle, starts>>
    PROVE  HubMoves
  <1> USE CountsKept
  <1>0. RunsImage(st) \in Images \cup {Mixed}
      BY ReplyFields DEF RunsImage
  <1>1. CASE phase = "QUERY" /\ (st.busy \/ bundle \notin Sized \cap Accepted)
    <2>1. Fail /\ UNCHANGED <<nonce, previous, acked, sent, stalled, resendAt>>
        BY <1>1 DEF OnStatus, OpenTransfer
    <2>2. SendsPlain /\ phase' = "FAILED" /\ verdict' = "FAILED"
        BY <2>1, FailPuts
    <2> QED
        BY <2>1, <2>2, NonceKept DEF Phases, Verdicts, Opening
  <1>2. CASE phase = "QUERY" /\ ~(st.busy \/ bundle \notin Sized \cap Accepted)
    <2> DEFINE b0 == Request("begin", starts, bundle, 0)
    <2>1. /\ nonce' = starts /\ previous' = RunsImage(st) /\ acked' = 0 /\ sent' = 0
          /\ stalled' = 0 /\ resendAt' = -1 /\ Emit(b0, "ERASING", verdict)
        BY <1>2 DEF OnStatus, OpenTransfer
    <2>2. Puts(b0) /\ phase' \in {"ERASING", "FAILED"} /\ verdict' \in {verdict, "FAILED"}
      <3>1. CASE Deliver(b0) /\ phase' = "ERASING" /\ verdict' = verdict
          BY <3>1, DeliverPuts
      <3>2. CASE UNCHANGED toBoard /\ phase' = "FAILED" /\ verdict' = "FAILED"
          BY <3>2 DEF Puts
      <3> QED
          BY <2>1, <3>1, <3>2 DEF Emit
    <2>3. starts > 0 /\ starts \in 0 .. MaxStarts /\ bundle \in Images /\ starts \in Nat
        BY <1>2, SessionTypes, OtaSessionAssumption DEF HubTypeOK
    <2>4. HubTypeOK'
        BY <1>0, <2>1, <2>2, <2>3 DEF HubTypeOK, busyPhases, Verdicts
    <2> QED
        BY <1>2, <2>1, <2>2, <2>4 DEF HubMoves, Transfers
  <1>3. CASE phase \in {"WAITING_BOARD", "TESTING"}
    <2>1. /\ UNCHANGED <<nonce, previous, acked, sent, stalled, resendAt>> /\ Judge(st)
        BY <1>3 DEF OnStatus
    <2>2. /\ toBoard' = toBoard
          /\ \/ phase' = "TESTING" /\ verdict' = verdict
             \/ phase' \in {"CONFIRMED", "ROLLED_BACK", "FAILED"} /\ verdict' = phase'
             \/ phase' = phase /\ verdict' = verdict
        BY <2>1 DEF Judge, Conclude
    <2>3. phase' \in Phases /\ verdict' \in Verdicts /\ phase' \notin Opening /\ phase' # "QUERY"
        BY <1>3, <2>2 DEF Phases, Verdicts, Opening, busyPhases
    <2> QED
        BY <2>1, <2>2, <2>3, SilenceIsPlain, NonceKept DEF Opening
  <1>4. CASE phase \notin {"QUERY", "WAITING_BOARD", "TESTING"}
    <2>1. UNCHANGED <<toBoard, phase, verdict, nonce, previous, acked, sent, stalled, resendAt>>
        BY <1>4 DEF OnStatus
    <2> QED
        BY <2>1, SilenceIsPlain, NonceKept
  <1> QED
      BY <1>1, <1>2, <1>3, <1>4

\* An acknowledgement of the begin opens the transfer it was sent for.
LEMMA AckMoves ==
    ASSUME SessionInv, NEW a \in {reply, late}, a.type = "ack", OnAck(a),
           UNCHANGED board, reply' \in {reply, NoReply}, late' \in {late, reply, NoReply},
           UNCHANGED <<bundle, starts>>
    PROVE  HubMoves
  <1> USE CountsKept
  <1>0. UNCHANGED <<nonce, previous, stalled, resendAt>>
      BY DEF OnAck
  <1>1. CASE ~AckHeard(a) /\ UNCHANGED <<toBoard, phase, verdict, acked, sent>>
      BY <1>0, <1>1, SilenceIsPlain, NonceKept
  <1>2. CASE Fail /\ UNCHANGED <<acked, sent>>
    <2>1. SendsPlain /\ phase' = "FAILED" /\ verdict' = "FAILED"
        BY <1>2, FailPuts
    <2> QED
        BY <1>0, <1>2, <2>1, NonceKept DEF Phases, Verdicts, Opening
  <1>3. CASE /\ AckHeard(a) /\ a.result = "OTA_OK" /\ a.op = "BEGIN"
             /\ acked' = 0 /\ PumpFrom(0, 0, TRUE)
    <2>1. phase = "ERASING" /\ a.session = nonce /\ phase \in Opening
        BY <1>3 DEF AckHeard, Opening
    <2>2. TellsOpened(reply, nonce) \/ TellsOpened(late, nonce)
        BY <1>3, <2>1 DEF TellsOpened
    <2>3. nonce > 0 /\ 0 \in 0 .. ChunkCount
        BY <2>1
    <2>4. /\ SendsPlain /\ sent' \in 0 .. ChunkCount
          /\ phase' \in {"TRANSFER", "FAILED"} /\ verdict' \in {verdict, "FAILED"}
        BY <1>3, <2>3, PumpPuts
    <2>5. phase' \in Phases /\ verdict' \in Verdicts /\ phase' # "QUERY"
        BY <2>4 DEF Phases, Verdicts, busyPhases
    <2>6. acked' \in 0 .. ChunkCount /\ sent' \in acked' .. ChunkCount /\ acked' <= session.next
        BY <1>3, <2>4
    <2> QED
        BY <1>0, <2>1, <2>2, <2>4, <2>5, <2>6, NonceKept
  <1>4. CASE Emit(RebootRequest, "REBOOTING", verdict) /\ UNCHANGED <<acked, sent>>
    <2>1. SendsPlain /\ phase' \in {"REBOOTING", "FAILED"} /\ verdict' \in {verdict, "FAILED"}
        BY <1>4, EmitPuts, PlainRequests
    <2> QED
        BY <1>0, <1>4, <2>1, NonceKept DEF Phases, Verdicts, Opening, busyPhases
  <1>5. CASE /\ phase' = "IDLE"
             /\ \/ Deliver(RebootRequest) /\ verdict' = "REVERTED"
                \/ UNCHANGED toBoard /\ verdict' = "FAILED"
             /\ UNCHANGED <<acked, sent>>
    <2>1. SendsPlain /\ verdict' \in Verdicts
        BY <1>5, DeliverPuts, PlainRequests, SilenceIsPlain DEF SendsPlain, Verdicts
    <2> QED
        BY <1>0, <1>5, <2>1, NonceKept DEF Phases, Opening
  <1> QED
      BY <1>1, <1>2, <1>3, <1>4, <1>5 DEF OnAck

\* A chunk acknowledgement moves the count to what the board has.
LEMMA ChunkAckMoves ==
    ASSUME SessionInv, NEW a \in {reply, late}, a.type = "chunkAck", OnChunkAck(a),
           UNCHANGED board, reply' \in {reply, NoReply}, late' \in {late, reply, NoReply},
           UNCHANGED <<bundle, starts>>
    PROVE  HubMoves
  <1> USE CountsKept
  <1>0. UNCHANGED <<nonce, previous>> /\ a \in Replies /\ Backed(a)
      BY SessionTypes DEF OnChunkAck, SessionInv, LinkTypeOK
  <1>1. a.next \in 0 .. ChunkCount /\ a.next \in Nat
      BY <1>0, ReplyFields
  <1>2. CASE ChunkAckStale(a) /\ UNCHANGED <<toBoard, phase, verdict, acked, sent, stalled, resendAt>>
      BY <1>0, <1>2, SilenceIsPlain, NonceKept
  <1>3. ASSUME ChunkAckHeard(a)
        PROVE  /\ phase \in {"TRANSFER", "VERIFYING"} /\ phase \in Opening /\ nonce > 0
               /\ Holds(nonce) => a.next <= session.next
      BY <1>0, <1>3 DEF ChunkAckHeard, Opening, Backed
  <1>4. ASSUME ChunkAckHeard(a), acked' \in {acked, a.next}, NEW from \in acked' .. ChunkCount,
               NEW restart, PumpFrom(from, acked', restart),
               stalled' \in 0 .. MaxRetries, resendAt' \in -1 .. ChunkCount
        PROVE  HubMoves
    <2>1. acked' \in 0 .. ChunkCount /\ nonce > 0
        BY <1>1, <1>3, <1>4
    <2>2. /\ SendsPlain /\ sent' \in from .. ChunkCount
          /\ phase' \in {"TRANSFER", "FAILED"} /\ verdict' \in {verdict, "FAILED"}
        BY <1>4, <2>1, PumpPuts
    <2>3. sent' \in acked' .. ChunkCount
        BY <1>4, <2>1, <2>2
    <2>4. phase' \in Phases /\ verdict' \in Verdicts /\ phase' # "QUERY"
        BY <2>2 DEF Phases, Verdicts, busyPhases
    <2>5. Holds(nonce) => acked' <= session.next
        BY <1>3, <1>4
    <2> QED
        BY <1>0, <1>3, <1>4, <2>1, <2>2, <2>3, <2>4, <2>5, NonceKept
  <1>5. CASE ChunkAckRewinds(a)
    <2>1. /\ ChunkAckHeard(a) /\ acked' = a.next /\ PumpFrom(a.next, a.next, TRUE)
          /\ UNCHANGED <<stalled, resendAt>>
        BY <1>5 DEF ChunkAckRewinds
    <2>2. a.next \in acked' .. ChunkCount
        BY <1>1, <2>1
    <2> QED
        BY <1>4, <2>1, <2>2
  <1>6. CASE ChunkAckRepeats(a)
    <2>1. ChunkAckHeard(a) /\ acked' = acked
        BY <1>6 DEF ChunkAckRepeats
    <2>2. CASE stalled >= MaxRetries
      <3>1. Fail /\ UNCHANGED <<sent, stalled, resendAt>>
          BY <1>6, <2>2 DEF ChunkAckRepeats
      <3>2. SendsPlain /\ phase' = "FAILED" /\ verdict' = "FAILED"
          BY <3>1, FailPuts
      <3> QED
          BY <1>0, <2>1, <3>1, <3>2, NonceKept DEF Phases, Verdicts, Opening
    <2>3. CASE ~(stalled >= MaxRetries)
      <3>1. stalled' = stalled + 1 /\ resendAt' = a.next /\ PumpFrom(acked, acked, TRUE)
          BY <1>6, <2>3 DEF ChunkAckRepeats
      <3>2. stalled' \in 0 .. MaxRetries /\ acked \in acked' .. ChunkCount
            /\ resendAt' \in -1 .. ChunkCount
          BY <1>1, <2>1, <2>3, <3>1
      <3>3. PumpFrom(acked, acked', TRUE)
          BY <2>1, <3>1
      <3> QED
          BY <1>4, <2>1, <3>2, <3>3
    <2> QED
        BY <2>2, <2>3
  <1>7. CASE ChunkAckAdvances(a)
    <2>0. PICK from \in 0 .. ChunkCount : from = IF sent < a.next THEN a.next ELSE sent
        BY <1>1
    <2>1. /\ ChunkAckHeard(a) /\ acked' = a.next /\ stalled' = 0 /\ resendAt' = resendAt
          /\ IF a.next >= ChunkCount
             THEN /\ Emit(Request("finish", nonce, Factory, 0), "VERIFYING", verdict)
                  /\ sent' = from
             ELSE PumpFrom(from, a.next, phase = "VERIFYING")
        BY <1>7, <2>0 DEF ChunkAckAdvances
    <2>2. from \in acked' .. ChunkCount /\ stalled' \in 0 .. MaxRetries
        BY <1>1, <2>0, <2>1
    <2>3. CASE a.next >= ChunkCount
      <3>1. nonce \in Sessions
          BY <1>3, <2>1, SessionTypes
      <3>2. Request("finish", nonce, Factory, 0) \in Plain
          BY <3>1, PlainRequests
      <3>3. SendsPlain /\ phase' \in {"VERIFYING", "FAILED"} /\ verdict' \in {verdict, "FAILED"}
          BY <2>1, <2>3, <3>2, EmitPuts
      <3>4. phase' \in Phases /\ verdict' \in Verdicts /\ phase' # "QUERY"
          BY <3>3 DEF Phases, Verdicts, busyPhases
      <3>5. Holds(nonce) => acked' <= session.next
          BY <1>3, <2>1
      <3>6. acked' \in 0 .. ChunkCount /\ sent' \in acked' .. ChunkCount
          BY <1>1, <2>1, <2>2, <2>3
      <3> QED
          BY <1>0, <1>3, <2>1, <2>2, <3>3, <3>4, <3>5, <3>6, NonceKept
    <2>4. CASE ~(a.next >= ChunkCount)
      <3>1. PumpFrom(from, acked', phase = "VERIFYING")
          BY <2>1, <2>4
      <3> QED
          BY <1>4, <2>1, <2>2, <3>1
    <2> QED
        BY <2>3, <2>4
  <1> QED
      BY <1>2, <1>5, <1>6, <1>7 DEF OnChunkAck

LEMMA HearingMoves ==
    ASSUME SessionInv, HubReceives \/ HubReceivesLate \/ Overtake PROVE HubMoves
  <1>1. ASSUME NEW rep \in {reply, late}, HubHears(rep),
               reply' \in {reply, NoReply}, late' \in {late, reply, NoReply}
        PROVE  HubMoves
    <2>1. UNCHANGED board /\ UNCHANGED <<bundle, starts>> /\ rep \in Replies
        BY <1>1, SessionTypes DEF HubHears, LinkTypeOK
    <2> QED
        BY <1>1, <2>1, StatusMoves, AckMoves, ChunkAckMoves DEF HubHears
  <1>2. CASE HubReceives
      BY <1>1, <1>2 DEF HubReceives
  <1>3. CASE HubReceivesLate
      BY <1>1, <1>3 DEF HubReceivesLate
  <1>4. CASE Overtake
    <2>1. /\ late' = reply /\ reply' = NoReply /\ UNCHANGED board
          /\ UNCHANGED <<toBoard, phase, verdict, bundle, nonce, previous, acked, sent,
                         stalled, resendAt, starts>>
        BY <1>4 DEF Overtake
    <2> QED
        BY <2>1, CountsKept, SilenceIsPlain, NonceKept
  <1> QED
      BY <1>2, <1>3, <1>4

-----------------------------------------------------------------------------
(* The steps of the board are such moves.                                   *)

LEMMA RepliesTyped ==
    ASSUME TypeOK
    PROVE  /\ \A op \in {"BEGIN", "CHUNK", "FINISH", "REVERT", "ABORT"} : \A s \in Sessions \cup {0} :
                 \A res \in Results : Ack(op, s, res) \in Replies
           /\ \A s \in Sessions \cup {0} : \A k \in 0 .. ChunkCount : ChunkAck(s, k) \in Replies
           /\ \A m \in MetaType : \A b \in BOOLEAN : Status(m, b) \in Replies
  <1>1. ASSUME NEW op \in {"BEGIN", "CHUNK", "FINISH", "REVERT", "ABORT"},
               NEW s \in Sessions \cup {0}, NEW res \in Results
        PROVE  Ack(op, s, res) \in Replies
      BY DEF Ack, Replies
  <1>2. ASSUME NEW s \in Sessions \cup {0}, NEW k \in 0 .. ChunkCount PROVE ChunkAck(s, k) \in Replies
      BY DEF ChunkAck, Replies
  <1>3. ASSUME NEW m \in MetaType, NEW b \in BOOLEAN PROVE Status(m, b) \in Replies
    <2>1. running \in Slots /\ session.open \in BOOLEAN
        BY DEF TypeOK
    <2>2. [s \in Slots |-> IF content[s].n > 0 THEN content[s].img ELSE Mixed]
             \in [Slots -> Images \cup {Mixed}]
        BY DEF TypeOK
    <2>3. (IF b THEN m.state ELSE [s \in Slots |-> "EMPTY"]) \in [Slots -> SlotStates]
        BY DEF MetaType, SlotStates
    <2>4. (IF b THEN m.active ELSE running) \in Slots
        BY <2>1 DEF MetaType
    <2> QED
        BY <2>1, <2>2, <2>3, <2>4 DEF Status, Replies
  <1> QED
      BY <1>1, <1>2, <1>3

\* A step that says nothing new of the session.
LEMMA QuietMoves ==
    ASSUME NEW r, NEW rep, reply \in Replies, Send(rep),
           rep = NoReply \/ (rep \in Replies /\
               \/ rep.type = "status"
               \/ rep.type = "ack" /\ ~(rep.op = "BEGIN" /\ rep.result = "OTA_OK")),
           mode' # "erase" \/ (mode' = mode /\ begun' = begun),
           session'.open = FALSE \/ (session' = session /\ session.next \in Nat)
    PROVE  BoardMoves(r) /\ reply' \in Replies
  <1>1. reply' = reply \/ (reply' = rep /\ rep # NoReply)
      BY DEF Send
  <1> QED
      BY <1>1 DEF BoardMoves

LEMMA HandleMoves ==
    ASSUME SessionInv, BoardInv', NEW r \in Requests, Handle(r)
    PROVE  BoardMoves(r) /\ reply' \in Replies
  <1>0. /\ TypeOK /\ BoardInv /\ reply \in Replies /\ session.next \in Nat /\ session.next \in 0 .. ChunkCount
        /\ session.nonce \in Sessions \cup {0} /\ meta' \in MetaType /\ Closed.open = FALSE
        /\ r.session \in Sessions \cup {0} /\ ChunkCount \in Nat
    <2>1. TypeOK /\ BoardInv /\ reply \in Replies /\ ChunkCount \in Nat
        BY SessionTypes, OtaBoardAssumption DEF LinkTypeOK
    <2>2. meta' \in MetaType
        BY DEF BoardInv, TypeOK
    <2>3. session.next \in 0 .. ChunkCount /\ session.nonce \in Sessions \cup {0}
        BY <2>1 DEF TypeOK
    <2> QED
        BY <2>1, <2>2, <2>3, RequestFields, DefaultsTyped
  <1>1. ASSUME NEW m, NEW f, Handled(m, f) PROVE mode = "run"
      BY <1>1 DEF Handled, Serving
  <1>2. ASSUME NEW op \in {"BEGIN", "CHUNK", "FINISH", "REVERT", "ABORT"},
               NEW s \in Sessions \cup {0}, NEW res \in Results, op # "BEGIN" \/ res # "OTA_OK",
               Send(Ack(op, s, res)), mode' = mode, begun' = begun,
               session' = Closed \/ session' = session
        PROVE  BoardMoves(r) /\ reply' \in Replies
    <2>1. PICK rep : rep = Ack(op, s, res)
        OBVIOUS
    <2>2. rep \in Replies /\ rep.type = "ack" /\ rep.op = op /\ rep.result = res
        BY <1>0, <2>1, RepliesTyped DEF Ack
    <2>3. Send(rep)
        BY <1>2, <2>1
    <2>4. session'.open = FALSE \/ (session' = session /\ session.next \in Nat)
        BY <1>0, <1>2
    <2> QED
        BY <1>0, <1>2, <2>2, <2>3, <2>4, QuietMoves
  <1>3. ASSUME NEW s \in Sessions \cup {0}, NEW k \in 0 .. ChunkCount
        PROVE  /\ ChunkAck(s, k) \in Replies /\ ChunkAck(s, k).type = "chunkAck"
               /\ ChunkAck(s, k).session = s /\ ChunkAck(s, k).next = k
      BY <1>0, RepliesTyped DEF ChunkAck
  <1>4. CASE BeginErase(r)
    <2>1. Send(NoReply) /\ session' = Closed /\ begun' = r /\ r.type = "begin"
        BY <1>4 DEF BeginErase
    <2> QED
        BY <1>0, <2>1 DEF BoardMoves, Send
  <1>5. CASE BeginFails(r)
    <2>1. /\ Send(Ack("BEGIN", 0, "STORE_FAILURE")) /\ session' = Closed /\ mode' = mode /\ begun' = begun
        BY <1>5 DEF BeginFails
    <2>2. "STORE_FAILURE" \in Results
        BY DEF Results
    <2> QED
        BY <1>0, <1>2, <2>1, <2>2
  <1>6. CASE ProgramFails(r)
    <2>1. Send(Ack("CHUNK", session.nonce, "STORE_FAILURE")) /\ session' = Closed /\ mode' = mode /\ begun' = begun
        BY <1>6 DEF ProgramFails
    <2>2. "STORE_FAILURE" \in Results
        BY DEF Results
    <2> QED
        BY <1>0, <1>2, <2>1, <2>2
  <1>7. ASSUME NEW f, HandleStatus(r, f) PROVE BoardMoves(r) /\ reply' \in Replies
    <2>1. Send(Status(meta', f # "status")) /\ session' = session /\ mode' = mode /\ begun' = begun
        BY <1>7 DEF HandleStatus
    <2>2. Status(meta', f # "status") \in Replies
        BY <1>0, RepliesTyped
    <2>3. Status(meta', f # "status").type = "status"
        BY DEF Status
    <2> QED
        BY <1>0, <2>1, <2>2, <2>3, QuietMoves
  <1>8. ASSUME NEW f, RefuseBegin(r, f) PROVE BoardMoves(r) /\ reply' \in Replies
    <2>1. Send(Ack("BEGIN", 0, BeginRefusal(r))) /\ session' = session /\ mode' = mode /\ begun' = begun
        BY <1>8 DEF RefuseBegin
    <2>2. BeginRefusal(r) \in Results /\ BeginRefusal(r) # "OTA_OK"
        BY <1>8 DEF RefuseBegin, BeginRefusal, Results
    <2> QED
        BY <1>0, <1>2, <2>1, <2>2
  <1>9. ASSUME NEW f, StrayChunk(r, f) PROVE BoardMoves(r) /\ reply' \in Replies
    <2>1. /\ Send(IF Mine(r) THEN ChunkAck(session.nonce, session.next) ELSE NoReply)
          /\ session' = session /\ mode' = mode /\ begun' = begun
        BY <1>9 DEF StrayChunk
    <2>2. CASE Mine(r)
      <3>1. session.open
          BY <2>2 DEF Mine
      <3>2. reply' = reply \/ reply' = ChunkAck(session.nonce, session.next)
          BY <2>1, <2>2 DEF Send
      <3> QED
          BY <1>0, <1>3, <2>1, <3>1, <3>2 DEF BoardMoves
    <2>3. CASE ~Mine(r)
        BY <1>0, <2>1, <2>3, QuietMoves
    <2> QED
        BY <2>2, <2>3
  <1>10. ASSUME NEW f, ProgramChunk(r, f) PROVE BoardMoves(r) /\ reply' \in Replies
    <2> DEFINE acks == session.next + 1 = ChunkCount \/ session.since + 1 >= AckWindow
    <2>1. /\ session' = [session EXCEPT !.next = @ + 1, !.since = IF acks THEN 0 ELSE @ + 1]
          /\ Send(IF acks THEN ChunkAck(session.nonce, session.next + 1) ELSE NoReply)
          /\ session.open /\ session.next < ChunkCount /\ mode' = mode /\ begun' = begun
        BY <1>10 DEF ProgramChunk, Mine, ChunkExpected
    <2>2. session'.open /\ session'.nonce = session.nonce /\ session'.next = session.next + 1
        BY <1>0, <2>1 DEF TypeOK
    <2>3. session.next + 1 \in 0 .. ChunkCount /\ session.next <= session.next + 1
        BY <1>0, <2>1
    <2>4. reply' = reply \/ reply' = ChunkAck(session.nonce, session.next + 1)
        BY <2>1 DEF Send
    <2> QED
        BY <1>0, <1>3, <2>1, <2>2, <2>3, <2>4 DEF BoardMoves
  <1>11. ASSUME NEW f, FinishRefused(r, f) PROVE BoardMoves(r) /\ reply' \in Replies
    <2>1. /\ Send(IF FinishVerdict(r) = "missing" THEN ChunkAck(session.nonce, session.next)
                  ELSE Ack("FINISH", r.session, FinishVerdict(r)))
          /\ session' = IF FinishVerdict(r) \in {"CRC_MISMATCH", "BAD_IMAGE"} THEN Closed ELSE session
          /\ mode' = mode /\ begun' = begun
        BY <1>11 DEF FinishRefused
    <2>2. CASE FinishVerdict(r) = "missing"
      <3>1. session.open
          BY <2>2 DEF FinishVerdict, Mine
      <3>2. session' = session
          BY <2>1, <2>2
      <3>3. reply' = reply \/ reply' = ChunkAck(session.nonce, session.next)
          BY <2>1, <2>2 DEF Send
      <3> QED
          BY <1>0, <1>3, <2>1, <3>1, <3>2, <3>3 DEF BoardMoves
    <2>3. CASE FinishVerdict(r) # "missing"
      <3>1. FinishVerdict(r) \in Results
          BY <1>11, <2>3 DEF FinishRefused, FinishVerdict, Results
      <3>2. Send(Ack("FINISH", r.session, FinishVerdict(r)))
          BY <2>1, <2>3
      <3> QED
          BY <1>0, <1>2, <2>1, <3>1, <3>2
    <2> QED
        BY <2>2, <2>3
  <1>12. ASSUME NEW f, FinishStages(r, f) PROVE BoardMoves(r) /\ reply' \in Replies
    <2> DEFINE res == IF f = "write" THEN "STORE_FAILURE" ELSE "OTA_OK"
    <2>1. /\ Send(Ack("FINISH", r.session, res))
          /\ session' = (IF f = "write" THEN session ELSE Closed) /\ mode' = mode /\ begun' = begun
        BY <1>12 DEF FinishStages
    <2>2. res \in Results
        BY DEF Results
    <2> HIDE DEF res
    <2> QED
        BY <1>0, <1>2, <2>1, <2>2
  <1>13. ASSUME NEW f, HandleRevert(r, f) PROVE BoardMoves(r) /\ reply' \in Replies
    <2> DEFINE res == IF f = "write" THEN "STORE_FAILURE" ELSE IF RevertAllowed THEN "OTA_OK" ELSE "BAD_STATE"
    <2>1. Send(Ack("REVERT", 0, res)) /\ session' = session /\ mode' = mode /\ begun' = begun
        BY <1>13 DEF HandleRevert
    <2>2. res \in Results
        BY DEF Results
    <2> HIDE DEF res
    <2> QED
        BY <1>0, <1>2, <2>1, <2>2
  <1>14. ASSUME NEW f, HandleAbort(r, f) PROVE BoardMoves(r) /\ reply' \in Replies
    <2> DEFINE res == IF Mine(r) THEN "OTA_OK" ELSE "BAD_SESSION"
    <2>1. /\ Send(Ack("ABORT", r.session, res))
          /\ session' = (IF Mine(r) THEN Closed ELSE session) /\ mode' = mode /\ begun' = begun
        BY <1>14 DEF HandleAbort
    <2>2. res \in Results
        BY DEF Results
    <2> HIDE DEF res
    <2> QED
        BY <1>0, <1>2, <2>1, <2>2
  <1> QED
      BY <1>4, <1>5, <1>6, <1>7, <1>8, <1>9, <1>10, <1>11, <1>12, <1>13, <1>14 DEF Handle

\* The end of an erase opens the session of the begin it served.
LEMMA EraseEndsMoves ==
    ASSUME SessionInv, NEW f, EraseEnds(f), NEW r
    PROVE  BoardMoves(r) /\ reply' \in Replies
  <1>0. TypeOK /\ reply \in Replies /\ begun.session \in Sessions \cup {0} /\ Closed.open = FALSE
    <2>1. TypeOK /\ reply \in Replies
        BY SessionTypes DEF LinkTypeOK
    <2>2. begun \in Requests
        BY <2>1 DEF TypeOK
    <2> QED
        BY <2>1, <2>2, RequestFields, DefaultsTyped
  <1>1. mode = "erase" /\ mode' = "run"
      BY DEF EraseEnds
  <1>2. CASE f = "write"
    <2>1. session' = Closed /\ Send(Ack("BEGIN", 0, "STORE_FAILURE"))
        BY <1>2 DEF EraseEnds
    <2>2. Ack("BEGIN", 0, "STORE_FAILURE") \in Replies
        BY <1>0, RepliesTyped DEF Results
    <2>3. Ack("BEGIN", 0, "STORE_FAILURE").type = "ack" /\ Ack("BEGIN", 0, "STORE_FAILURE").result = "STORE_FAILURE"
        BY DEF Ack
    <2> QED
        BY <1>0, <1>1, <2>1, <2>2, <2>3, QuietMoves
  <1>3. CASE f # "write"
    <2>1. /\ session' = [open |-> TRUE, fresh |-> TRUE, nonce |-> begun.session,
                         img |-> begun.img, next |-> 0, since |-> 0]
          /\ Send(Ack("BEGIN", begun.session, "OTA_OK"))
        BY <1>3 DEF EraseEnds
    <2>2. reply' = reply \/ reply' = Ack("BEGIN", begun.session, "OTA_OK")
        BY <2>1 DEF Send
    <2>3. Ack("BEGIN", begun.session, "OTA_OK") \in Replies
        BY <1>0, RepliesTyped DEF Results
    <2>4. /\ Ack("BEGIN", begun.session, "OTA_OK").type = "ack"
          /\ Ack("BEGIN", begun.session, "OTA_OK").session = begun.session
        BY DEF Ack
    <2> QED
        BY <1>0, <1>1, <2>1, <2>2, <2>3, <2>4 DEF BoardMoves
  <1> QED
      BY <1>2, <1>3

LEMMA AloneMoves ==
    ASSUME SessionInv, Firmware \/ Bootloader \/ Reset \/ UNCHANGED vars, NEW r
    PROVE  BoardMoves(r) /\ reply' \in Replies
  <1>0. /\ TypeOK /\ reply \in Replies /\ session.next \in Nat /\ Closed.open = FALSE
        /\ NoReply \in Replies
    <2>1. TypeOK /\ reply \in Replies
        BY SessionTypes DEF LinkTypeOK
    <2> QED
        BY <2>1, DefaultsTyped, NoReplyTells, OtaBoardAssumption DEF TypeOK
  <1>1. reply' = reply
      BY DEF Firmware, EraseStep, SessionTick, Arm, Disarm, Bootloader, ChooseSlot, JumpToChosen,
             FallBack, Reset, vars
  <1>2. mode' # "erase" \/ (mode' = mode /\ begun' = begun)
      BY DEF Firmware, EraseStep, SessionTick, Arm, Disarm, Bootloader, ChooseSlot, JumpToChosen,
             FallBack, StartFirmware, Reset, vars, board
  <1>3. \/ session'.open = FALSE
        \/ session' = session
        \/ session'.open = session.open /\ session'.nonce = session.nonce /\ session'.next = session.next
    <2>1. CASE SessionTick
        BY <1>0, <2>1 DEF SessionTick, TypeOK
    <2>2. CASE ~SessionTick
        BY <1>0, <2>2 DEF Firmware, EraseStep, Arm, Disarm, Bootloader, ChooseSlot, JumpToChosen,
             FallBack, Reset, vars, board
    <2> QED
        BY <2>1, <2>2
  <1> QED
      BY <1>0, <1>1, <1>2, <1>3 DEF BoardMoves

LEMMA SessionInitial == SessionInit => SessionInv
  <1> SUFFICES ASSUME SessionInit PROVE SessionInv
      OBVIOUS
  <1> USE OtaBoardAssumption, OtaSessionAssumption
  <1>1. /\ BoardInv /\ TypeOK /\ reply = NoReply /\ late = NoReply /\ session.open = FALSE
        /\ mode = "boot" /\ toBoard = <<>> /\ phase = "IDLE" /\ NoReply.type = "none"
    <2>1. BoardInv
        BY BoardInit DEF SessionInit
    <2>2. session.open = FALSE /\ mode = "boot" /\ reply = NoReply
        BY DefaultsTyped DEF SessionInit, Init
    <2> QED
        BY <2>1, <2>2 DEF SessionInit, BoardInv, NoReply
  <1>2. toBoard \in Seq(Requests \cup {RebootRequest}) /\ Len(toBoard) = 0
      BY <1>1
  <1>3. SessionTypeOK
      BY <1>1, <1>2 DEF SessionInit, SessionTypeOK, busyPhases
  <1>4. LinkTypeOK
      BY <1>1, <1>2, NoReplyTells DEF SessionInit, LinkTypeOK, Opening
  <1>5. AckedIsWritten
      BY <1>1, <1>3 DEF AckedIsWritten
  <1>6. NonceIsOnce
    <2>1. 1 .. Len(toBoard) = {}
        BY <1>2
    <2>2. \A n : ~Asked(n) /\ ~Opened(n)
        BY <1>1, <2>1, NoReplyTells DEF Asked, Serves, Opened, Holds, Transfers
    <2> QED
        BY <2>1, <2>2, <1>1 DEF NonceIsOnce, Serves
  <1>7. Backed(reply) /\ Backed(late)
      BY <1>1 DEF Backed
  <1> QED
      BY <1>1, <1>3, <1>4, <1>5, <1>6, <1>7 DEF SessionInv

LEMMA SessionStep == SessionInv /\ [SessionNext]_allVars => SessionInv'
  <1> SUFFICES ASSUME SessionInv, [SessionNext]_allVars PROVE SessionInv'
      OBVIOUS
  <1>0. BoardInv /\ LinkTypeOK
      BY SessionTypes
  <1>1. CASE (\E b \in Images : Start(b)) \/ StartUnreadable \/ AbortSession \/ Revert
                \/ RequestBoardStatus
      BY <1>1, OperatorMoves, HubKeepsNonce
  <1>2. CASE HubReceives \/ HubReceivesLate \/ Overtake
      BY <1>2, HearingMoves, HubKeepsNonce
  <1>3. CASE HubTick \/ PollTick
      BY <1>3, TickMoves, HubKeepsNonce
  <1>4. CASE BoardReceives
    <2> DEFINE r == Head(toBoard)
    <2>1. toBoard # <<>> /\ toBoard' = Tail(toBoard) /\ UNCHANGED hubButLink
        BY <1>4 DEF BoardReceives
    <2>2. CASE r.type # "reboot" /\ Handle(r)
      <3>1. r \in Requests
        <4>1. r \in Requests \cup {RebootRequest}
            BY <1>0, <2>1 DEF LinkTypeOK
        <4>2. RebootRequest.type = "reboot"
            BY DEF RebootRequest, Request
        <4> QED
            BY <4>1, <4>2, <2>2
      <3>2. BoardInv'
          BY <3>1, <2>2, <1>0, BoardStep DEF Next
      <3>3. BoardMoves(r) /\ reply' \in Replies
          BY <3>1, <3>2, <2>2, HandleMoves
      <3> QED
          BY <2>1, <3>2, <3>3, BoardKeepsNonce
    <2>3. CASE Reset \/ UNCHANGED vars
      <3>1. BoardInv'
          BY <2>3, <1>0, BoardStep DEF Next
      <3>2. BoardMoves(r) /\ reply' \in Replies
          BY <2>3, AloneMoves
      <3> QED
          BY <2>1, <3>1, <3>2, BoardKeepsNonce
    <2> QED
        BY <1>4, <2>2, <2>3 DEF BoardReceives
  <1>5. StatusRequest.type # "begin"
      BY DEF StatusRequest, Request
  <1>6. CASE BoardErased
    <2>1. PICK f \in FaultKinds : EraseEnds(f)
        BY <1>6 DEF BoardErased
    <2>2. toBoard' = toBoard /\ UNCHANGED hubButLink
        BY <1>6 DEF BoardErased
    <2>3. BoardInv'
        BY <2>1, <1>0, BoardStep DEF Next
    <2>4. BoardMoves(StatusRequest) /\ reply' \in Replies
        BY <2>1, EraseEndsMoves
    <2> QED
        BY <1>5, <2>2, <2>3, <2>4, BoardKeepsNonce
  <1>7. CASE BoardAlone \/ UNCHANGED allVars
    <2>1. Firmware \/ Bootloader \/ Reset \/ UNCHANGED vars
        BY <1>7 DEF BoardAlone, allVars
    <2>2. toBoard' = toBoard /\ UNCHANGED hubButLink
        BY <1>7 DEF BoardAlone, allVars, hubVars, hubButLink
    <2>3. BoardInv'
        BY <2>1, <1>0, BoardStep DEF Next
    <2>4. BoardMoves(StatusRequest) /\ reply' \in Replies
        BY <2>1, AloneMoves
    <2> QED
        BY <1>5, <2>2, <2>3, <2>4, BoardKeepsNonce
  <1> QED
      BY <1>1, <1>2, <1>3, <1>4, <1>6, <1>7 DEF SessionNext

(* In every state of an update, over a link that loses and overtakes: the   *)
(* board's invariant holds, and a nonce opens one session of the board.  At *)
(* most one begin carries it, only before the board has opened that session *)
(* (Updater::begin()), and no acknowledgement in flight of an open session  *)
(* claims a chunk that session has not written.                             *)
THEOREM SessionInvariant == SessionSpec => []SessionInv
  <1> QED
      BY SessionInitial, SessionStep, PTL DEF SessionSpec

(* The ground never runs ahead of the board, whatever is lost, repeated or  *)
(* late: in a transfer of its own session the chunks it counts as           *)
(* acknowledged are in the board's slot, and its window stays within the    *)
(* image (onChunkAck(), pumpChunks()).                                      *)
THEOREM SessionAckedIsWritten == SessionSpec => []AckedIsWritten
  <1>1. SessionInv => AckedIsWritten
      BY DEF SessionInv
  <1> QED
      BY <1>1, SessionInvariant, PTL
=============================================================================
