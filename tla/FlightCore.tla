------------------------------ MODULE FlightCore ------------------------------
(***************************************************************************)
(* The flight loop of the drone: FirmwareApp::run()                        *)
(* (drone_firmware/firmware_app.cpp) polling the link into the RcTracker   *)
(* (platform_common/rc_tracker.hpp), grafting the pilot's state onto each  *)
(* sensor frame and stepping FlightCore (flight-core/src/flight_core.cpp), *)
(* over the throw detector as ThrowPort describes it.                      *)
(*                                                                         *)
(* A pass of the loop is two steps: WaitFrame lets time pass and polls the *)
(* link, then one of the actions of step() takes the frame: killed,        *)
(* rejected (NaN or stale), without an IMU, or measured.  A measurement is *)
(* what the code's comparisons tell apart of it: the class of the          *)
(* accelerometer norm, a saturated gyro, the estimated attitude.  The      *)
(* estimators and control loops are left out but for whether any motor     *)
(* turns.  An arming inhibited by an unconfirmed image (OtaBoard) is a     *)
(* pilot whose arm switch is off.                                          *)
(***************************************************************************)
EXTENDS ThrowPort

CONSTANTS Modes, Throttles,  \* what the pilot's messages carry
          Measurements,      \* what the sensors may tell
          MaxGap,            \* longest time between two frames
          RcTimeout,         \* RC_TIMEOUT_US
          TiltConfirm,       \* CUTOFF_TILT_CONFIRM_US
          RecoveryTimeout,   \* RECOVERY_TIMEOUT_US
          SpinupLead,        \* SPINUP_LEAD_US
          ImuFaultFrames     \* IMU_FAULT_FRAMES

\* "zero" = 0 < "bottom" < 0.05 <= "low" <= 0.10 < "away"; "centre" is the
\* deadband and "rim" the hysteresis around it.
ThrottleClasses == {"zero", "bottom", "low", "away", "rim", "centre"}
PilotModes == {"MANUAL", "LEVEL", "ALTITUDE_AUTO"}

\* gyro: saturated; up: estimatedUpZ() against RECOVERED_MIN_UP and
\* CUTOFF_TILT_MIN_UP; baro: baroValid.
MeasurementSpace == [accel : Accels, gyro : BOOLEAN, up : {"level", "leaning", "over"},
                     baro : BOOLEAN]

ASSUME FlightCoreAssumption ==
    /\ Modes \subseteq PilotModes
    /\ Throttles \subseteq ThrottleClasses
    /\ Measurements \subseteq MeasurementSpace
    /\ MaxGap \in Nat
    /\ {RcTimeout, RecoveryTimeout} \subseteq 0 .. AgeMax - 1
    /\ {TiltConfirm, SpinupLead} \subseteq 0 .. AgeMax
    /\ ImuFaultFrames \in Nat \ {0}

VARIABLES
    phase, lockedMode, takeoverArmed,
    stickDown, stickCentered,
    newThrow,     \* m_throwDetector.throwCount() > m_handledThrowCount
    tilt,         \* age of the excessive-tilt streak, or NoStreak
    recovery,     \* age of RECOVERY
    blindRun,     \* m_imuInvalidRun, counted up to ImuFaultFrames
    motors,       \* some entry of m_lastMotor is positive
    ready,        \* the vertical estimator has its baro reference
    rc, heard, sinceRc,          \* RcTracker
    loop,         \* where FirmwareApp::run() is: "wait", "frame", "parked"
    thrown, recentred     \* histories: see the properties

pilotVars == <<rc, heard, sinceRc>>
latchVars == <<stickDown, stickCentered>>
missionVars == <<phase, lockedMode, takeoverArmed>>
vars == <<missionVars, latchVars, pilotVars, portVars, newThrow, tilt, recovery, blindRun,
          motors, ready, loop, thrown, recentred>>

StoppedPhases == {"IDLE", "ARMED", "BALLISTIC", "CUTOFF", "FAULT"}
PilotedPhases == {"MANUAL", "LEVEL", "ALTITUDE_AUTO"}
Phases == StoppedPhases \cup PilotedPhases \cup {"RECOVERY", "HOVER"}

(* armed() *)
Armed == phase \notin {"IDLE", "CUTOFF", "FAULT"}

-----------------------------------------------------------------------------
(* RcTracker.  Under a kill step() reads no other field: two messages stand *)
(* for all that kill, one with the arm switch on.                          *)

SafeRc == [kill |-> TRUE, arm |-> FALSE, mode |-> "MANUAL", throttle |-> "zero"]
RcInputs == [kill : {FALSE}, arm : BOOLEAN, mode : Modes, throttle : Throttles]
              \cup {SafeRc, [SafeRc EXCEPT !.arm = TRUE]}

OnRc == rc' \in RcInputs /\ heard' = TRUE /\ sinceRc' = 0

Poll(dt) == \/ OnRc
            \/ UNCHANGED <<rc, heard>> /\ sinceRc' = Elapse(sinceRc, dt)

\* Mutant: the fail-safe engages a tick late.
MutFailsafeActive == ~heard \/ sinceRc > RcTimeout + 1

FailsafeActive == ~heard \/ sinceRc > RcTimeout

Graft == IF FailsafeActive THEN SafeRc ELSE rc
Arm == Graft.arm

-----------------------------------------------------------------------------
(* Time passes for the instants the core stores; the age of RECOVERY is     *)
(* read only there.                                                        *)
TimePasses(dt) ==
    /\ tilt' = Elapse(tilt, dt)
    /\ recovery' = IF phase = "RECOVERY" THEN Elapse(recovery, dt) ELSE 0
    /\ PortTick(dt)

(* waitFrame(), then pollTransport(). *)
WaitFrame(dt) ==
    /\ loop = "wait"
    /\ TimePasses(dt)
    /\ Poll(dt)
    /\ loop' = "frame"
    /\ UNCHANGED <<missionVars, latchVars, newThrow, blindRun, motors, ready, thrown,
                   recentred>>

(* updateEstimators(): the baro reference is captured after enough resting *)
(* frames, and the detector sees every measurement.                        *)

UpdateEstimators(accel, steady) ==
    /\ ready' \in IF accel = "rest" /\ steady THEN {ready, TRUE} ELSE {ready}
    /\ PortSees(accel)

ThrowCounted == ~ballistic /\ ballistic'
CountThrow == newThrow' = (newThrow \/ ThrowCounted)

ResetMission ==
    /\ phase' = "IDLE"
    /\ tilt' = NoStreak
    /\ lockedMode' = "MANUAL"
    /\ takeoverArmed' = FALSE
    /\ recovery' = 0
    /\ thrown' = FALSE

-----------------------------------------------------------------------------
(* step() under the kill switch: the motors stop, the mission ends, the     *)
(* estimators keep tracking when the frame allows it.                       *)
KilledFrame ==
    /\ loop = "frame" /\ Graft.kill
    /\ \/ \E accel \in Accels, steady \in BOOLEAN : UpdateEstimators(accel, steady) /\ CountThrow
       \/ UNCHANGED <<portVars, ready, newThrow>>
    /\ ResetMission
    /\ motors' = FALSE
    /\ loop' = "wait"
    /\ UNCHANGED <<latchVars, pilotVars, blindRun, recentred>>

(* A frame with a NaN, or one that does not move time forward: held.       *)
RejectedFrame ==
    /\ loop = "frame" /\ ~Graft.kill
    /\ loop' = "wait"
    /\ UNCHANGED <<missionVars, latchVars, pilotVars, portVars, newThrow, tilt, recovery,
                   blindRun, motors, ready, thrown, recentred>>

(* stepWithoutImu() *)

\* Mutant: the frame that completes the run is still flown.
MutBlindTooLong == blindRun' > ImuFaultFrames

BlindTooLong == blindRun' >= ImuFaultFrames

BlindFrame ==
    /\ loop = "frame" /\ ~Graft.kill
    /\ blindRun' = IF blindRun < ImuFaultFrames THEN blindRun + 1 ELSE blindRun
    /\ \/ /\ motors /\ BlindTooLong
          /\ phase' = "FAULT" /\ motors' = FALSE
          /\ recovery' = 0
          /\ UNCHANGED <<lockedMode, takeoverArmed, tilt, thrown>>
       \/ /\ ~motors /\ ~Arm /\ phase # "FAULT"
          /\ ResetMission
          /\ UNCHANGED motors
       \/ /\ IF motors THEN ~BlindTooLong ELSE Arm \/ phase = "FAULT"
          /\ UNCHANGED <<missionVars, tilt, recovery, motors, thrown>>
    /\ loop' = "wait"
    /\ UNCHANGED <<latchVars, pilotVars, portVars, newThrow, ready, recentred>>

-----------------------------------------------------------------------------
(* advancePhase(): the stick latches first, whatever the phase.            *)

StickLatches ==
    LET t == Graft.throttle
    IN /\ stickDown' = (t \in {"zero", "bottom"} \/ (t = "low" /\ stickDown))
       /\ stickCentered' = (t = "centre" \/ (t = "rim" /\ stickCentered))

(* cutoffTripped(): impact, saturated gyro, or a tilt that lasted.          *)
TiltConfirmed(m) == m.up = "over" /\ tilt # NoStreak /\ tilt >= TiltConfirm
CutoffTripped(m) == m.accel = "impact" \/ m.gyro \/ TiltConfirmed(m)
TiltStreak(m) == IF m.up # "over" THEN NoStreak
                     ELSE IF tilt = NoStreak THEN 0 ELSE tilt

Goes(p) == phase' = p /\ UNCHANGED <<lockedMode, takeoverArmed>>
                      /\ CountThrow

Disarmed == ~Arm /\ phase \notin {"IDLE", "FAULT"} /\ Goes("IDLE")

\* The direct-thrust modes leave IDLE on a stick that is down, the other one
\* on a centred stick.

\* Mutant: the latch of the frame before decides.
MutStickIsDown == stickDown

StickIsDown == stickDown'

StaysIdle(m) ==
    /\ phase = "IDLE"
    /\ ~(ready' /\ m.baro /\ Arm /\ IF Graft.mode = "ALTITUDE_AUTO" THEN stickCentered'
                                   ELSE StickIsDown)
    /\ Goes("IDLE")

LeavesPiloted(m) ==
    /\ phase = "IDLE" /\ ready' /\ m.baro /\ Arm
    /\ Graft.mode # "ALTITUDE_AUTO" /\ StickIsDown
    /\ phase' = IF CutoffTripped(m) THEN "CUTOFF" ELSE Graft.mode
    /\ lockedMode' = Graft.mode
    /\ CountThrow
    /\ UNCHANGED takeoverArmed

\* Whatever was detected before this instant is not a throw to fly.

\* Mutant: the count is not taken over.
MutHandledAtArming == newThrow \/ ThrowCounted

HandledAtArming == FALSE

LeavesArmed(m) ==
    /\ phase = "IDLE" /\ ready' /\ m.baro /\ Arm
    /\ Graft.mode = "ALTITUDE_AUTO" /\ stickCentered'
    /\ phase' = "ARMED"
    /\ lockedMode' = "ALTITUDE_AUTO"
    /\ newThrow' = HandledAtArming
    /\ UNCHANGED takeoverArmed

FliesPiloted(m) ==
    /\ phase \in PilotedPhases /\ Arm
    /\ Goes(IF CutoffTripped(m) THEN "CUTOFF" ELSE phase)

WaitsForThrow ==
    /\ phase = "ARMED" /\ Arm
    /\ IF newThrow \/ ThrowCounted
       THEN phase' = "BALLISTIC" /\ newThrow' = FALSE /\ UNCHANGED <<lockedMode, takeoverArmed>>
       ELSE Goes("ARMED")

Coasts(m) ==
    /\ phase = "BALLISTIC" /\ Arm
    /\ Goes(IF m.gyro THEN "CUTOFF"
            ELSE IF ~ballistic' THEN "ARMED"
            ELSE IF apex' <= SpinupLead THEN "RECOVERY"
            ELSE "BALLISTIC")

RecoveryAborts(m) ==
    m.accel = "impact" \/ m.gyro \/ recovery > RecoveryTimeout

\* Mutant: a takeover armed in an earlier flight is kept.
MutTakeoverAfterRecovery == takeoverArmed

TakeoverAfterRecovery == FALSE

Recovers(m) ==
    /\ phase = "RECOVERY" /\ Arm
    /\ phase' = IF RecoveryAborts(m) THEN "CUTOFF"
                ELSE IF m.up = "level" THEN "HOVER" ELSE "RECOVERY"
    /\ takeoverArmed' = IF phase' = "HOVER" THEN TakeoverAfterRecovery ELSE takeoverArmed
    /\ CountThrow
    /\ UNCHANGED lockedMode

Hovers(m) ==
    /\ phase = "HOVER" /\ Arm
    /\ phase' = IF CutoffTripped(m) THEN "CUTOFF"
                ELSE IF ~stickCentered' /\ takeoverArmed THEN "ALTITUDE_AUTO" ELSE "HOVER"
    /\ takeoverArmed' = (takeoverArmed \/ (stickCentered' /\ phase' = "HOVER"))
    /\ CountThrow
    /\ UNCHANGED lockedMode

StaysLatched == phase = "FAULT" \/ (phase = "CUTOFF" /\ Arm)

AdvancePhase(m) ==
    \/ Disarmed
    \/ StaysIdle(m) \/ LeavesPiloted(m) \/ LeavesArmed(m)
    \/ FliesPiloted(m)
    \/ WaitsForThrow
    \/ Coasts(m)
    \/ Recovers(m)
    \/ Hovers(m)
    \/ StaysLatched /\ Goes(phase)

(* The timers the phases start, watch and clear. *)
PhaseTimers(m) ==
    /\ recovery' = IF phase' = "RECOVERY" THEN recovery ELSE 0
    /\ tilt' = IF phase' \in StoppedPhases THEN NoStreak
               ELSE IF phase \in PilotedPhases \cup {"IDLE", "HOVER"} THEN TiltStreak(m)
               ELSE tilt

(* runControl(): which motors turn. *)
RunControl ==
    motors' \in CASE phase' \in StoppedPhases -> {FALSE}
                  [] phase' = "RECOVERY" -> {TRUE}
                  [] phase' \in {"MANUAL", "LEVEL"} -> {Graft.throttle # "zero"}
                  [] phase' \in {"HOVER", "ALTITUDE_AUTO"} -> BOOLEAN

MeasuredFrame(m) ==
    /\ loop = "frame" /\ ~Graft.kill
    /\ blindRun' = 0
    /\ UpdateEstimators(m.accel, m.baro /\ ~m.gyro)
    /\ StickLatches
    /\ AdvancePhase(m)
    /\ PhaseTimers(m)
    /\ RunControl
    /\ thrown' = IF phase' \in {"IDLE", "ARMED"} THEN FALSE
                 ELSE thrown \/ (phase = "ARMED" /\ ThrowCounted)
    /\ recentred' = IF phase # "HOVER" THEN recentred /\ phase' # "HOVER"
                    ELSE recentred \/ Graft.throttle \in {"centre", "rim"}
    /\ loop' = "wait"
    /\ UNCHANGED pilotVars

-----------------------------------------------------------------------------
(* A begin accepted by the poll, while disarmed only, drops the frame and  *)
(* parks the loop: erasing the slot outlasts the fail-safe, no motor       *)
(* output is pushed and nothing steps the core until the session closes.   *)
(* The poll still dispatches the pilot's messages.                         *)
UpdateBegins ==
    /\ loop = "frame" /\ ~Armed
    /\ TimePasses(AgeMax)
    /\ sinceRc' = AgeMax
    /\ loop' = "parked"
    /\ UNCHANGED <<missionVars, latchVars, newThrow, blindRun, motors, ready, rc, heard,
                   thrown, recentred>>

ParkedPoll(dt) ==
    /\ loop = "parked"
    /\ TimePasses(dt)
    /\ Poll(dt)
    /\ loop' \in {"parked", "wait"}
    /\ UNCHANGED <<missionVars, latchVars, newThrow, blindRun, motors, ready, thrown,
                   recentred>>

Init ==
    /\ phase = "IDLE" /\ lockedMode = "MANUAL" /\ takeoverArmed = FALSE
    /\ stickDown = TRUE /\ stickCentered = FALSE
    /\ newThrow = FALSE /\ tilt = NoStreak /\ recovery = 0 /\ blindRun = 0
    /\ motors = FALSE /\ ready = FALSE
    /\ PortInit
    /\ rc = SafeRc /\ heard = FALSE /\ sinceRc = 0
    /\ loop = "wait"
    /\ thrown = FALSE /\ recentred = FALSE

Next == \/ \E dt \in 0 .. MaxGap : WaitFrame(dt)
        \/ KilledFrame
        \/ RejectedFrame
        \/ BlindFrame
        \/ \E m \in Measurements : MeasuredFrame(m)
        \/ UpdateBegins
        \/ \E dt \in 0 .. MaxGap : ParkedPoll(dt)

Spec == Init /\ [][Next]_vars

-----------------------------------------------------------------------------
TypeOK ==
    /\ phase \in Phases /\ lockedMode \in PilotModes /\ takeoverArmed \in BOOLEAN
    /\ stickDown \in BOOLEAN /\ stickCentered \in BOOLEAN
    /\ newThrow \in BOOLEAN
    /\ tilt \in Ages \cup {NoStreak} /\ recovery \in Ages
    /\ blindRun \in 0 .. ImuFaultFrames
    /\ motors \in BOOLEAN /\ ready \in BOOLEAN
    /\ ballistic \in BOOLEAN /\ apex \in Ages
    /\ rc \in RcInputs /\ heard \in BOOLEAN /\ sinceRc \in Ages
    /\ loop \in {"wait", "frame", "parked"}
    /\ thrown \in BOOLEAN /\ recentred \in BOOLEAN

\* No motor turns in a phase that stops them, however the phase was reached,
\* nor while an update session has parked the loop.
MotorsMatchPhase ==
    /\ motors => phase \notin StoppedPhases
    /\ loop = "parked" => ~Armed

\* The motors turn only for a pilot: after every frame, whatever it was, the
\* last message is younger than the fail-safe and does not kill
\* (rc_tracker.hpp, step()).
PilotPresent == motors /\ loop = "wait" => heard /\ sinceRc <= RcTimeout /\ ~rc.kill

\* IMU_FAULT_FRAMES frames without an IMU end every powered flight.
BlindIsBounded == motors => blindRun < ImuFaultFrames

\* "Only a signature seen while armed may ever spin the motors"
\* (flight_core.cpp): an autonomous phase is entered for a throw that the
\* detector confirmed while ARMED, in the same mission.
ThrowIsNeeded == phase \in {"BALLISTIC", "RECOVERY", "HOVER", "ALTITUDE_AUTO"} => thrown

\* "A stick left at full deflection through the whole flight never snatches
\* the drone out of its hover" (flight_core.cpp): the pilot flies
\* ALTITUDE_AUTO only after bringing the stick to the centre in this hover.
TakeoverIsEarned == phase = "ALTITUDE_AUTO" => recentred

\* What the mode, the counts and the latches mean to the phase machine.
MissionConsistent ==
    /\ phase \in {"ARMED", "BALLISTIC"} => ~newThrow
    /\ phase = "BALLISTIC" => ballistic
    /\ phase = "HOVER" /\ takeoverArmed => recentred
    /\ phase \in {"MANUAL", "LEVEL"} => lockedMode = phase
    /\ phase \in {"ARMED", "BALLISTIC", "RECOVERY", "HOVER", "ALTITUDE_AUTO"}
         => lockedMode = "ALTITUDE_AUTO"

\* The inductive invariant.
FlightInv ==
    /\ TypeOK
    /\ MotorsMatchPhase
    /\ PilotPresent
    /\ BlindIsBounded
    /\ ThrowIsNeeded
    /\ TakeoverIsEarned
    /\ MissionConsistent

\* Entering a direct-thrust mode on a raised stick "would be a jump to a live
\* collective" (flight_core.hpp): it never happens, also across kills and
\* lost frames, during which the latch of the stick stands still.
StartsAtRest ==
    [][phase = "IDLE" /\ phase' \in {"MANUAL", "LEVEL"}
         => rc.throttle \in {"zero", "bottom", "low"}]_vars

\* FAULT ends by the kill alone, CUTOFF by the kill or the arm switch: no
\* sequence of bad and good frames gets around the latch.
LatchesHold ==
    [][/\ phase = "FAULT" /\ phase' # "FAULT" => Graft.kill
       /\ phase = "CUTOFF" /\ phase' # "CUTOFF" => Graft.kill \/ ~Arm]_vars

\* "The arm switch keeps its meaning without sensors: releasing it ends
\* whatever mission was in progress, exactly as with them" (flight_core.cpp).
DisarmEndsFlight ==
    [][(BlindFrame \/ \E m \in Measurements : MeasuredFrame(m)) /\ ~Arm => ~motors']_vars
=============================================================================
