--------------------------- MODULE FlightCore_proof ---------------------------
(***************************************************************************)
(* The inductive invariant of the flight loop, for every number of frames, *)
(* every threshold and every set of pilot messages and measurements.       *)
(*                                                                         *)
(* What makes it inductive: a BALLISTIC phase has a detector that is       *)
(* BALLISTIC and no unhandled throw, so the only way into the autonomous   *)
(* phases is a throw counted while ARMED; a takeover that is armed in a    *)
(* hover was earned in that hover; and a run of blind frames that reached  *)
(* its limit has stopped the motors.                                       *)
(***************************************************************************)
EXTENDS FlightCore, TLAPS

\* Ages stay ages while time passes (the saturating timers of the model).
LEMMA ElapseType ==
    ASSUME NEW age \in Ages \cup {NoStreak}, NEW dt \in Nat
    PROVE  /\ Elapse(age, dt) \in Ages \cup {NoStreak}
           /\ age \in Ages => Elapse(age, dt) \in Ages
BY ThrowPortAssumption DEF Elapse, Ages, NoStreak

\* The time to the apex stays an age while it runs down.
LEMMA CountDownType ==
    ASSUME NEW t \in Ages, NEW dt \in Nat
    PROVE  CountDown(t, dt) \in Ages
BY ThrowPortAssumption DEF CountDown, Ages

\* What graft() writes into a frame is a pilot state.
LEMMA GraftType ==
    ASSUME TypeOK
    PROVE  /\ Graft \in RcInputs
           /\ Graft.kill \in BOOLEAN /\ Graft.arm \in BOOLEAN
           /\ ~Graft.kill => Graft.mode \in Modes
<1>1. Graft \in RcInputs
  BY DEF TypeOK, Graft, RcInputs, SafeRc
<1>2. CASE Graft \in [kill : {FALSE}, arm : BOOLEAN, mode : Modes, throttle : Throttles]
  BY <1>1, <1>2
<1>3. CASE Graft = SafeRc
  <2>1. SafeRc.kill = TRUE /\ SafeRc.arm = FALSE
    BY DEF SafeRc
  <2>2. QED
    BY <1>1, <1>3, <2>1
<1>4. CASE Graft = [SafeRc EXCEPT !.arm = TRUE]
  <2>1. Graft.kill = TRUE /\ Graft.arm = TRUE
    BY <1>4 DEF SafeRc
  <2>2. QED
    BY <1>1, <2>1
<1>5. QED
  BY <1>1, <1>2, <1>3, <1>4 DEF RcInputs

\* A frame that is not killed has a pilot behind it.
LEMMA Unkilled ==
    ASSUME TypeOK, ~Graft.kill
    PROVE  heard /\ sinceRc <= RcTimeout /\ ~rc.kill /\ Graft = rc
<1>1. SafeRc.kill
  BY DEF SafeRc
<1>2. ~FailsafeActive
  BY <1>1 DEF Graft
<1>3. Graft = rc /\ ~rc.kill
  BY <1>2 DEF Graft
<1>4. heard /\ ~(sinceRc > RcTimeout)
  BY <1>2 DEF FailsafeActive
<1>5. sinceRc \in Int /\ RcTimeout \in Int
  BY FlightCoreAssumption, ThrowPortAssumption DEF TypeOK, Ages
<1>6. QED
  BY <1>3, <1>4, <1>5

\* Time passing keeps the timers' types (waitFrame).
LEMMA TimePassesType ==
    ASSUME TypeOK, NEW dt \in Nat, TimePasses(dt)
    PROVE  /\ tilt' \in Ages \cup {NoStreak} /\ recovery' \in Ages
           /\ ballistic' \in BOOLEAN /\ apex' \in Ages
<1>1. tilt' \in Ages \cup {NoStreak}
  BY ElapseType DEF TypeOK, TimePasses
<1>2. recovery' \in Ages
  BY ElapseType, ThrowPortAssumption DEF TypeOK, TimePasses, Ages
<1>3. apex' \in Ages
  BY CountDownType DEF TypeOK, TimePasses, PortTick
<1>4. ballistic' \in BOOLEAN
  BY DEF TypeOK, TimePasses, PortTick
<1>5. QED
  BY <1>1, <1>2, <1>3, <1>4

\* Polling the link keeps the tracker's type (onRc).
LEMMA PollType ==
    ASSUME TypeOK, NEW dt \in Nat, Poll(dt)
    PROVE  rc' \in RcInputs /\ heard' \in BOOLEAN /\ sinceRc' \in Ages
<1>1. CASE OnRc
  BY <1>1, ThrowPortAssumption DEF OnRc, Ages
<1>2. CASE UNCHANGED <<rc, heard>> /\ sinceRc' = Elapse(sinceRc, dt)
  BY <1>2, ElapseType DEF TypeOK
<1>3. QED
  BY <1>1, <1>2 DEF Poll

\* The detector's port keeps its type when it sees a frame.
LEMMA EstimatorType ==
    ASSUME TypeOK, NEW a, NEW s, UpdateEstimators(a, s)
    PROVE  ready' \in BOOLEAN /\ ballistic' \in BOOLEAN /\ apex' \in Ages
<1>1. ready' \in BOOLEAN
  <2>1. ready' \in {ready, TRUE} \/ ready' \in {ready}
    BY DEF UpdateEstimators
  <2>2. QED
    BY <2>1 DEF TypeOK
<1>2. ballistic' \in BOOLEAN /\ apex' \in Ages
  <2>1. 0 \in Ages
    BY ThrowPortAssumption DEF Ages
  <2>2. PortSees(a)
    BY DEF UpdateEstimators
  <2>3. QED
    BY <2>1, <2>2 DEF TypeOK, PortSees, portVars
<1>3. QED
  BY <1>1, <1>2

-----------------------------------------------------------------------------
\* The core starts on the ground (constructors of FlightCore and RcTracker).
LEMMA InitInv == Init => FlightInv
<1> SUFFICES ASSUME Init PROVE FlightInv
  OBVIOUS
<1>1. TypeOK
  <2>1. 0 \in Ages /\ 0 \in 0 .. ImuFaultFrames
    BY ThrowPortAssumption, FlightCoreAssumption DEF Ages
  <2>2. QED
    BY <2>1 DEF Init, PortInit, TypeOK, Phases, StoppedPhases, PilotModes, RcInputs, SafeRc
<1>2. /\ MotorsMatchPhase /\ PilotPresent /\ BlindIsBounded
      /\ ThrowIsNeeded /\ TakeoverIsEarned /\ MissionConsistent
  BY DEF Init, MotorsMatchPhase, PilotPresent, BlindIsBounded, ThrowIsNeeded,
         TakeoverIsEarned, MissionConsistent
<1>3. QED
  BY <1>1, <1>2 DEF FlightInv

\* Steps that only let time pass and hear the pilot keep the invariant.
LEMMA WaitingInv ==
    ASSUME FlightInv, NEW dt \in Nat, TimePasses(dt),
           rc' \in RcInputs, heard' \in BOOLEAN, sinceRc' \in Ages,
           UNCHANGED <<missionVars, latchVars, newThrow, blindRun, motors, ready, thrown,
                       recentred>>,
           loop' \in {"wait", "frame", "parked"},
           loop' = "parked" => ~Armed,
           loop' = "wait" => ~motors
    PROVE  FlightInv'
<1> USE DEF missionVars, latchVars
<1>1. TypeOK'
  BY TimePassesType DEF FlightInv, TypeOK
<1>2. MotorsMatchPhase'
  BY DEF FlightInv, MotorsMatchPhase, Armed
<1>3. PilotPresent'
  BY DEF FlightInv, PilotPresent
<1>4. BlindIsBounded' /\ ThrowIsNeeded' /\ TakeoverIsEarned'
  BY DEF FlightInv, BlindIsBounded, ThrowIsNeeded, TakeoverIsEarned
<1>5. MissionConsistent'
  BY DEF FlightInv, MissionConsistent, TimePasses, PortTick
<1>6. QED
  BY <1>1, <1>2, <1>3, <1>4, <1>5 DEF FlightInv

\* The kill switch grounds the core, whatever the frame holds.
LEMMA KilledInv == FlightInv /\ KilledFrame => FlightInv'
<1> SUFFICES ASSUME FlightInv, KilledFrame PROVE FlightInv'
  OBVIOUS
<1> USE DEF latchVars, pilotVars
<1>1. ready' \in BOOLEAN /\ ballistic' \in BOOLEAN /\ apex' \in Ages
  <2>1. CASE \E accel \in Accels, steady \in BOOLEAN :
                UpdateEstimators(accel, steady) /\ CountThrow
    BY <2>1, EstimatorType DEF FlightInv
  <2>2. CASE UNCHANGED <<portVars, ready, newThrow>>
    BY <2>2 DEF FlightInv, TypeOK, portVars
  <2>3. QED
    BY <2>1, <2>2 DEF KilledFrame
<1>2. newThrow' \in BOOLEAN
  BY DEF KilledFrame, CountThrow, FlightInv, TypeOK
<1>3. TypeOK'
  <2>1. 0 \in Ages
    BY ThrowPortAssumption DEF Ages
  <2>2. QED
    BY <1>1, <1>2, <2>1 DEF KilledFrame, ResetMission, FlightInv, TypeOK, Phases, StoppedPhases,
                            PilotModes
<1>4. /\ MotorsMatchPhase' /\ PilotPresent' /\ BlindIsBounded'
      /\ ThrowIsNeeded' /\ TakeoverIsEarned' /\ MissionConsistent'
  BY DEF KilledFrame, ResetMission, MotorsMatchPhase, PilotPresent, BlindIsBounded,
         ThrowIsNeeded, TakeoverIsEarned, MissionConsistent
<1>5. QED
  BY <1>3, <1>4 DEF FlightInv

\* A rejected frame holds everything.
LEMMA RejectedInv == FlightInv /\ RejectedFrame => FlightInv'
<1> SUFFICES ASSUME FlightInv, RejectedFrame PROVE FlightInv'
  OBVIOUS
<1> USE DEF latchVars, pilotVars, missionVars, portVars
<1>1. PilotPresent'
  BY Unkilled DEF RejectedFrame, PilotPresent, FlightInv
<1>2. TypeOK'
  BY DEF RejectedFrame, FlightInv, TypeOK
<1>3. /\ MotorsMatchPhase' /\ BlindIsBounded'
      /\ ThrowIsNeeded' /\ TakeoverIsEarned' /\ MissionConsistent'
  BY DEF RejectedFrame, FlightInv, MotorsMatchPhase, BlindIsBounded,
         ThrowIsNeeded, TakeoverIsEarned, MissionConsistent
<1>4. QED
  BY <1>1, <1>2, <1>3 DEF FlightInv

\* A blind frame flies on, faults or grounds.
LEMMA BlindInv == FlightInv /\ BlindFrame => FlightInv'
<1> SUFFICES ASSUME FlightInv, BlindFrame PROVE FlightInv'
  OBVIOUS
<1> USE DEF latchVars, pilotVars, missionVars, portVars
<1>1. PilotPresent'
  BY Unkilled DEF BlindFrame, PilotPresent, FlightInv
<1>2. blindRun' \in 0 .. ImuFaultFrames
  BY FlightCoreAssumption DEF BlindFrame, FlightInv, TypeOK
<1>3. 0 \in Ages
  BY ThrowPortAssumption DEF Ages
<1>4. CASE motors /\ BlindTooLong /\ phase' = "FAULT" /\ motors' = FALSE /\ recovery' = 0
           /\ UNCHANGED <<lockedMode, takeoverArmed, tilt, thrown>>
  <2>1. TypeOK'
    BY <1>2, <1>3, <1>4 DEF BlindFrame, FlightInv, TypeOK, Phases, StoppedPhases
  <2>2. /\ MotorsMatchPhase' /\ BlindIsBounded'
        /\ ThrowIsNeeded' /\ TakeoverIsEarned' /\ MissionConsistent'
    BY <1>4 DEF BlindFrame, MotorsMatchPhase, BlindIsBounded,
                ThrowIsNeeded, TakeoverIsEarned, MissionConsistent, Armed
  <2>3. QED
    BY <1>1, <2>1, <2>2 DEF FlightInv
<1>5. CASE ~motors /\ ~Arm /\ phase # "FAULT" /\ ResetMission /\ UNCHANGED motors
  <2>1. TypeOK'
    BY <1>2, <1>3, <1>5 DEF BlindFrame, ResetMission, FlightInv, TypeOK, Phases, StoppedPhases,
                            PilotModes
  <2>2. /\ MotorsMatchPhase' /\ BlindIsBounded'
        /\ ThrowIsNeeded' /\ TakeoverIsEarned' /\ MissionConsistent'
    BY <1>5 DEF BlindFrame, ResetMission, MotorsMatchPhase, BlindIsBounded,
                ThrowIsNeeded, TakeoverIsEarned, MissionConsistent, Armed
  <2>3. QED
    BY <1>1, <2>1, <2>2 DEF FlightInv
<1>6. CASE /\ IF motors THEN ~BlindTooLong ELSE Arm \/ phase = "FAULT"
           /\ UNCHANGED <<missionVars, tilt, recovery, motors, thrown>>
  <2>1. TypeOK'
    BY <1>2, <1>6 DEF BlindFrame, FlightInv, TypeOK
  <2>2. /\ MotorsMatchPhase' /\ ThrowIsNeeded' /\ TakeoverIsEarned' /\ MissionConsistent'
    BY <1>6 DEF BlindFrame, FlightInv, MotorsMatchPhase,
                ThrowIsNeeded, TakeoverIsEarned, MissionConsistent
  <2>3. BlindIsBounded'
    BY <1>2, <1>6, FlightCoreAssumption DEF BlindIsBounded, BlindTooLong
  <2>4. QED
    BY <1>1, <2>1, <2>2, <2>3 DEF FlightInv
<1>7. QED
  BY <1>4, <1>5, <1>6 DEF BlindFrame

-----------------------------------------------------------------------------
\* The phase machine on a measured frame.  Each lemma is one disjunct of
\* advancePhase(); what it leaves to prove is the mission's part of the
\* invariant, the rest is common to all of them.
MissionInv ==
    /\ ThrowIsNeeded
    /\ TakeoverIsEarned
    /\ MissionConsistent

\* The phase, the mode and the takeover keep their types.
LEMMA AdvanceType ==
    ASSUME FlightInv, NEW m \in Measurements, ~Graft.kill, AdvancePhase(m)
    PROVE  /\ phase' \in Phases /\ lockedMode' \in PilotModes
           /\ takeoverArmed' \in BOOLEAN /\ newThrow' \in BOOLEAN
<1>1. Graft.mode \in PilotModes
  BY GraftType, FlightCoreAssumption DEF FlightInv
<1>2. CountThrow => newThrow' \in BOOLEAN
  BY DEF CountThrow
<1> USE DEF Phases, StoppedPhases, PilotedPhases
<1>3. CASE Disarmed
  BY <1>2, <1>3 DEF Disarmed, Goes, FlightInv, TypeOK
<1>4. CASE StaysIdle(m)
  BY <1>2, <1>4 DEF StaysIdle, Goes, FlightInv, TypeOK
<1>5. CASE LeavesPiloted(m)
  BY <1>1, <1>2, <1>5 DEF LeavesPiloted, PilotModes, FlightInv, TypeOK
<1>6. CASE LeavesArmed(m)
  BY <1>6 DEF LeavesArmed, HandledAtArming, PilotModes, FlightInv, TypeOK
<1>7. CASE FliesPiloted(m)
  BY <1>2, <1>7 DEF FliesPiloted, Goes, FlightInv, TypeOK
<1>8. CASE WaitsForThrow
  BY <1>2, <1>8 DEF WaitsForThrow, Goes, FlightInv, TypeOK
<1>9. CASE Coasts(m)
  BY <1>2, <1>9 DEF Coasts, Goes, FlightInv, TypeOK
<1>10. CASE Recovers(m)
  BY <1>2, <1>10 DEF Recovers, TakeoverAfterRecovery, FlightInv, TypeOK
<1>11. CASE Hovers(m)
  BY <1>2, <1>11 DEF Hovers, FlightInv, TypeOK
<1>12. CASE StaysLatched /\ Goes(phase)
  BY <1>2, <1>12 DEF Goes, FlightInv, TypeOK
<1>13. QED
  BY <1>3, <1>4, <1>5, <1>6, <1>7, <1>8, <1>9, <1>10, <1>11, <1>12 DEF AdvancePhase

\* The frame keeps the types of everything it writes (step()).
LEMMA MeasuredType ==
    ASSUME FlightInv, NEW m \in Measurements, MeasuredFrame(m)
    PROVE  TypeOK'
<1>1. ~Graft.kill /\ AdvancePhase(m)
  BY DEF MeasuredFrame
<1>2. /\ phase' \in Phases /\ lockedMode' \in PilotModes
      /\ takeoverArmed' \in BOOLEAN /\ newThrow' \in BOOLEAN
  BY <1>1, AdvanceType
<1>3. ready' \in BOOLEAN /\ ballistic' \in BOOLEAN /\ apex' \in Ages
  BY EstimatorType DEF MeasuredFrame, FlightInv
<1>4. stickDown' \in BOOLEAN /\ stickCentered' \in BOOLEAN
  BY DEF MeasuredFrame, StickLatches
<1>5. 0 \in Ages /\ 0 \in 0 .. ImuFaultFrames
  BY ThrowPortAssumption, FlightCoreAssumption DEF Ages
<1>6. tilt' \in Ages \cup {NoStreak} /\ recovery' \in Ages
  BY <1>5 DEF MeasuredFrame, PhaseTimers, TiltStreak, FlightInv, TypeOK
<1>7. motors' \in BOOLEAN
  BY <1>2 DEF MeasuredFrame, RunControl, Phases, PilotedPhases
<1>8. thrown' \in BOOLEAN /\ recentred' \in BOOLEAN
  BY DEF MeasuredFrame, FlightInv, TypeOK
<1>9. blindRun' \in 0 .. ImuFaultFrames /\ loop' \in {"wait", "frame", "parked"}
  BY <1>5 DEF MeasuredFrame
<1>10. rc' \in RcInputs /\ heard' \in BOOLEAN /\ sinceRc' \in Ages
  BY DEF MeasuredFrame, pilotVars, FlightInv, TypeOK
<1>11. QED
  BY <1>2, <1>3, <1>4, <1>6, <1>7, <1>8, <1>9, <1>10 DEF TypeOK

\* What a throw, a recentring and a mode stand for survives every transition.
LEMMA MeasuredMission ==
    ASSUME FlightInv, NEW m \in Measurements, MeasuredFrame(m)
    PROVE  MissionInv'
<1> DEFINE ThrownNext == thrown' = IF phase' \in {"IDLE", "ARMED"} THEN FALSE
                                   ELSE thrown \/ (phase = "ARMED" /\ ThrowCounted)
           RecentredNext == recentred' = IF phase # "HOVER" THEN recentred /\ phase' # "HOVER"
                                ELSE recentred \/ Graft.throttle \in {"centre", "rim"}
<1>1. ThrownNext /\ RecentredNext /\ ~Graft.kill /\ AdvancePhase(m)
  BY DEF MeasuredFrame
<1>2. stickCentered' => Graft.throttle \in {"centre", "rim"}
  BY DEF MeasuredFrame, StickLatches
<1>3. Graft.mode \in PilotModes
  BY <1>1, GraftType, FlightCoreAssumption DEF FlightInv
<1>4. ThrowIsNeeded /\ TakeoverIsEarned /\ MissionConsistent
  BY DEF FlightInv
<1> USE DEF MissionInv, ThrowIsNeeded, TakeoverIsEarned, MissionConsistent
<1>5. CASE Disarmed
  BY <1>5 DEF Disarmed, Goes
<1>6. CASE StaysIdle(m)
  BY <1>6 DEF StaysIdle, Goes
<1>7. CASE LeavesPiloted(m)
  BY <1>3, <1>7 DEF LeavesPiloted, PilotModes
<1>8. CASE LeavesArmed(m)
  BY <1>8 DEF LeavesArmed, HandledAtArming
<1>9. CASE FliesPiloted(m)
  BY <1>1, <1>4, <1>9 DEF FliesPiloted, Goes, PilotedPhases
<1>10. CASE WaitsForThrow
  BY <1>1, <1>4, <1>10 DEF WaitsForThrow, Goes, CountThrow, ThrowCounted
<1>11. CASE Coasts(m)
  BY <1>1, <1>4, <1>11 DEF Coasts, Goes, CountThrow, ThrowCounted
<1>12. CASE Recovers(m)
  BY <1>1, <1>4, <1>12 DEF Recovers, TakeoverAfterRecovery
<1>13. CASE Hovers(m)
  BY <1>1, <1>2, <1>4, <1>13 DEF Hovers
<1>14. CASE StaysLatched /\ Goes(phase)
  BY <1>14 DEF StaysLatched, Goes
<1>15. QED
  BY <1>1, <1>5, <1>6, <1>7, <1>8, <1>9, <1>10, <1>11, <1>12, <1>13, <1>14 DEF AdvancePhase

\* A measured frame, whole.
LEMMA MeasuredInv ==
    ASSUME FlightInv, NEW m \in Measurements, MeasuredFrame(m)
    PROVE  FlightInv'
<1>1. TypeOK'
  BY MeasuredType
<1>2. MissionInv'
  BY MeasuredMission
<1>3. MotorsMatchPhase'
  <2>1. phase' \in StoppedPhases => ~motors'
    BY DEF MeasuredFrame, RunControl, StoppedPhases
  <2>2. loop' = "wait"
    BY DEF MeasuredFrame
  <2>3. QED
    BY <2>1, <2>2 DEF MotorsMatchPhase
<1>4. PilotPresent'
  BY Unkilled DEF MeasuredFrame, pilotVars, PilotPresent, FlightInv
<1>5. BlindIsBounded'
  BY FlightCoreAssumption DEF MeasuredFrame, BlindIsBounded
<1>6. QED
  BY <1>1, <1>2, <1>3, <1>4, <1>5 DEF FlightInv, MissionInv

-----------------------------------------------------------------------------
\* Every pass of the flight loop keeps the motors to phases that run them, to
\* a pilot who is there and does not kill, and to sensors that still measure;
\* it flies on its own only after a throw seen while armed, and hands over
\* only a takeover that was earned.
THEOREM FlightInvariant == Spec => []FlightInv
<1>1. Init => FlightInv
  BY InitInv
<1>2. FlightInv /\ [Next]_vars => FlightInv'
  <2> SUFFICES ASSUME FlightInv, [Next]_vars PROVE FlightInv'
    OBVIOUS
  <2>1. ASSUME NEW dt \in 0 .. MaxGap, WaitFrame(dt) PROVE FlightInv'
    <3>1. dt \in Nat /\ TypeOK
      BY FlightCoreAssumption DEF FlightInv
    <3>2. rc' \in RcInputs /\ heard' \in BOOLEAN /\ sinceRc' \in Ages
      BY <2>1, <3>1, PollType DEF WaitFrame
    <3>3. QED
      BY <2>1, <3>1, <3>2, WaitingInv DEF WaitFrame
  <2>2. CASE KilledFrame
    BY <2>2, KilledInv
  <2>3. CASE RejectedFrame
    BY <2>3, RejectedInv
  <2>4. CASE BlindFrame
    BY <2>4, BlindInv
  <2>5. ASSUME NEW m \in Measurements, MeasuredFrame(m) PROVE FlightInv'
    BY <2>5, MeasuredInv
  <2>6. CASE UpdateBegins
    <3>1. AgeMax \in Nat /\ AgeMax \in Ages
      BY ThrowPortAssumption DEF Ages
    <3>2. rc' \in RcInputs /\ heard' \in BOOLEAN /\ sinceRc' \in Ages
      BY <2>6, <3>1 DEF UpdateBegins, FlightInv, TypeOK
    <3>3. QED
      BY <2>6, <3>1, <3>2, WaitingInv DEF UpdateBegins
  <2>7. ASSUME NEW dt \in 0 .. MaxGap, ParkedPoll(dt) PROVE FlightInv'
    <3>1. dt \in Nat /\ TypeOK
      BY FlightCoreAssumption DEF FlightInv
    <3>2. rc' \in RcInputs /\ heard' \in BOOLEAN /\ sinceRc' \in Ages
      BY <2>7, <3>1, PollType DEF ParkedPoll
    <3>3. ~Armed /\ ~motors
      BY <2>7 DEF ParkedPoll, FlightInv, MotorsMatchPhase, Armed, StoppedPhases
    <3>4. QED
      BY <2>7, <3>1, <3>2, <3>3, WaitingInv DEF ParkedPoll
  <2>8. CASE UNCHANGED vars
    BY <2>8 DEF vars, missionVars, latchVars, pilotVars, portVars, FlightInv, TypeOK,
               MotorsMatchPhase, PilotPresent, BlindIsBounded, ThrowIsNeeded,
               TakeoverIsEarned, MissionConsistent, Armed
  <2>9. QED
    BY <2>1, <2>2, <2>3, <2>4, <2>5, <2>6, <2>7, <2>8 DEF Next
<1>3. QED
  BY <1>1, <1>2, PTL DEF Spec

\* A direct-thrust mode is entered only on a stick that is down, whatever
\* frames were killed or lost since the stick was last looked at.
THEOREM FlightStartsAtRest == Spec => StartsAtRest
<1>1. FlightInv /\ [Next]_vars
        => [phase = "IDLE" /\ phase' \in {"MANUAL", "LEVEL"}
              => rc.throttle \in {"zero", "bottom", "low"}]_vars
  <2> SUFFICES ASSUME FlightInv, Next, phase = "IDLE", phase' \in {"MANUAL", "LEVEL"}
               PROVE  rc.throttle \in {"zero", "bottom", "low"}
    OBVIOUS
  <2>1. \E m \in Measurements : MeasuredFrame(m)
    BY DEF Next, WaitFrame, KilledFrame, RejectedFrame, BlindFrame, UpdateBegins, ParkedPoll,
           ResetMission, missionVars
  <2>2. PICK m \in Measurements : MeasuredFrame(m)
    BY <2>1
  <2>3. AdvancePhase(m) /\ ~Graft.kill /\ StickLatches
    BY <2>2 DEF MeasuredFrame
  <2>4. LeavesPiloted(m)
    BY <2>3 DEF AdvancePhase, Disarmed, StaysIdle, LeavesArmed, FliesPiloted, WaitsForThrow,
                Coasts, Recovers, Hovers, StaysLatched, Goes, PilotedPhases
  <2>5. stickDown'
    BY <2>4 DEF LeavesPiloted, StickIsDown
  <2>6. Graft.throttle \in {"zero", "bottom", "low"}
    BY <2>3, <2>5 DEF StickLatches
  <2>7. QED
    BY <2>3, <2>6, Unkilled DEF FlightInv
<1>2. QED
  BY <1>1, FlightInvariant, PTL DEF Spec, StartsAtRest

\* A latched phase ends by the pilot's own gesture alone; that a blind run
\* cannot turn CUTOFF into FAULT rests on its motors being stopped.
THEOREM FlightLatchesHold == Spec => LatchesHold
<1>1. FlightInv /\ [Next]_vars
        => [/\ phase = "FAULT" /\ phase' # "FAULT" => Graft.kill
            /\ phase = "CUTOFF" /\ phase' # "CUTOFF" => Graft.kill \/ ~Arm]_vars
  <2> SUFFICES ASSUME FlightInv, Next, phase \in {"FAULT", "CUTOFF"}, phase' # phase, ~Graft.kill
               PROVE  phase = "CUTOFF" /\ ~Arm
    OBVIOUS
  <2>1. BlindFrame \/ \E m \in Measurements : MeasuredFrame(m)
    BY DEF Next, WaitFrame, KilledFrame, RejectedFrame, UpdateBegins, ParkedPoll, missionVars
  <2>2. CASE BlindFrame
    <3>1. ~motors
      BY DEF FlightInv, MotorsMatchPhase, StoppedPhases
    <3>2. QED
      BY <2>2, <3>1 DEF BlindFrame, missionVars
  <2>3. ASSUME NEW m \in Measurements, MeasuredFrame(m) PROVE phase = "CUTOFF" /\ ~Arm
    BY <2>3 DEF MeasuredFrame, AdvancePhase, Disarmed, StaysIdle, LeavesPiloted, LeavesArmed,
                FliesPiloted, WaitsForThrow, Coasts, Recovers, Hovers, StaysLatched, Goes,
                PilotedPhases
  <2>4. QED
    BY <2>1, <2>2, <2>3
<1>2. QED
  BY <1>1, FlightInvariant, PTL DEF Spec, LatchesHold

\* The motors turn only for a pilot that is heard, young and not killing, at
\* the end of every frame, whichever of the four kinds it was (step()).
THEOREM FlightPilotPresent == Spec => []PilotPresent
<1>1. FlightInv => PilotPresent
  BY DEF FlightInv
<1>2. QED
  BY <1>1, FlightInvariant, PTL

\* No autonomous phase without a throw confirmed while ARMED: kills, blind and
\* rejected frames, parked loops and re-arming included (flight_core.cpp).
THEOREM FlightThrowIsNeeded == Spec => []ThrowIsNeeded
<1>1. FlightInv => ThrowIsNeeded
  BY DEF FlightInv
<1>2. QED
  BY <1>1, FlightInvariant, PTL

\* A takeover is earned in the hover it ends: the latch of the stick is the
\* part of the invariant (MissionConsistent) that carries it (flight_core.cpp).
THEOREM FlightTakeoverIsEarned == Spec => []TakeoverIsEarned
<1>1. FlightInv => TakeoverIsEarned
  BY DEF FlightInv
<1>2. QED
  BY <1>1, FlightInvariant, PTL
=============================================================================
