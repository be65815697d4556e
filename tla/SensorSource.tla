---------------------------- MODULE SensorSource ----------------------------
(***************************************************************************)
(* The flight board's sensor stack above the bus: bring-up of the IMU and  *)
(* the barometer, the timer interrupt that paces the loop, and the frames  *)
(* made of a fresh IMU burst and a held pressure.  A transfer blocks the   *)
(* loop for as long as its timeouts take and completes or fails            *)
(* (I2cBus.tla); the timer goes on ticking meanwhile.  Time is counted in  *)
(* ticks.  Samples and pressures are named by the tick they were read at.  *)
(***************************************************************************)
EXTENDS Naturals

CONSTANTS
    Attempts,        \* WHO_AM_I_ATTEMPTS, PROBE_ATTEMPTS
    TicksPerRead,    \* TICKS_PER_READ
    FreshAge,        \* FRESH_MAX_AGE_US, in ticks
    MaxTicks         \* bound: timer ticks of an execution

(* The solution is still fresh when the next one is due.                   *)
ASSUME FreshCovers ==
    /\ TicksPerRead \in Nat \ {0} /\ FreshAge \in Nat /\ FreshAge >= TicksPerRead
    /\ MaxTicks \in Nat

VARIABLES
    at,              \* where the program is
    tries,           \* attempts made by the probe in progress
    gTicks,          \* g_ticks, written by the interrupt
    asleep,          \* value of gTicks when WFI was executed
    consumed,        \* m_consumedTicks
    overruns,        \* m_overruns
    baro,            \* Bmp581: [ready, ticks, solution]
    health,          \* SensorHealth of the barometer: [everOk, lastOk]
    frame,           \* the SensorFrame being filled
    spoilt           \* history: since the last solution, a tick was overrun
                     \* or a read brought none

sourceVars == <<at, tries, gTicks, asleep, consumed, overruns, baro, health, frame, spoilt>>

Zero == 0
EmptyFrame == [stamp |-> 0, imuValid |-> FALSE, sample |-> Zero,
               baroValid |-> FALSE, pressure |-> Zero]

SourceInit ==
    /\ at = "imu_probe" /\ tries = 0
    /\ gTicks = 0 /\ asleep = 0 /\ consumed = 0 /\ overruns = 0
    /\ baro = [ready |-> FALSE, ticks |-> 0, solution |-> Zero]
    /\ health = [everOk |-> FALSE, lastOk |-> 0]
    /\ frame = EmptyFrame /\ spoilt = FALSE

Loop == UNCHANGED <<tries, gTicks, asleep, consumed, overruns>>
Drivers == UNCHANGED <<baro, health, spoilt>>

-----------------------------------------------------------------------------
(* Bring-up.  The first contact is tried a few times: a sensor left        *)
(* desynchronized by a reset gets its engine back from failed reads.  An   *)
(* IMU that does not come up stops the boot, a barometer does not.         *)

Probe(next, dead) ==
    \/ at' = next /\ tries' = 0                   \* the right chip answered
    \/ at' = dead /\ tries' = 0                   \* another chip answered
    \/ /\ tries' = tries + 1                      \* nothing answered
       /\ at' = IF tries' = Attempts THEN dead ELSE at

ImuProbe ==
    /\ at = "imu_probe"
    /\ Probe("imu_configure", "dead")
    /\ UNCHANGED <<gTicks, asleep, consumed, overruns, frame>> /\ Drivers

ImuConfigure ==
    /\ at = "imu_configure"
    /\ at' \in {"baro_probe", "dead"}
    /\ UNCHANGED frame /\ Loop /\ Drivers

(* A wrong id at one address does not end the search, both are probed.     *)
BaroProbe ==
    /\ at = "baro_probe"
    /\ \/ at' = "baro_configure" /\ tries' = 0
       \/ /\ tries' = tries + 1
          /\ at' = IF tries' = Attempts THEN "test" ELSE at
    /\ UNCHANGED <<gTicks, asleep, consumed, overruns, frame>> /\ Drivers

(* Reset, status checks, configuration: any transfer or check that fails   *)
(* leaves the driver inert for good.                                       *)
BaroConfigure ==
    /\ at = "baro_configure"
    /\ \E configured \in BOOLEAN : baro' = [baro EXCEPT !.ready = configured]
    /\ at' = "test"
    /\ UNCHANGED <<health, frame, spoilt>> /\ Loop

-----------------------------------------------------------------------------
(* TIM6 fires, whatever the loop is doing.                                 *)
Started == at \in {"test", "wfi", "imu", "baro", "emit", "step"}

TimerInterrupt ==
    /\ Started /\ gTicks < MaxTicks
    /\ gTicks' = gTicks + 1
    /\ UNCHANGED <<at, tries, asleep, consumed, overruns, frame>> /\ Drivers

(* waitFrame(): the test and the sleep are two steps.  A tick in between   *)
(* has been handled when the core sleeps, and only the next one wakes it.  *)
TestTicks ==
    /\ at = "test" /\ gTicks = consumed
    /\ at' = "wfi" /\ asleep' = gTicks
    /\ UNCHANGED <<tries, gTicks, consumed, overruns, frame>> /\ Drivers

TickBeforeSleep ==
    /\ at = "wfi" /\ asleep = consumed /\ gTicks > asleep
    /\ asleep' = gTicks
    /\ UNCHANGED <<at, tries, gTicks, consumed, overruns, frame>> /\ Drivers

Wake ==
    /\ at = "wfi" /\ gTicks > asleep
    /\ at' = "test"
    /\ UNCHANGED frame /\ Loop /\ Drivers

TakeTick ==
    /\ at = "test" /\ gTicks # consumed
    /\ overruns' = overruns + (gTicks - consumed) - 1
    /\ spoilt' = (spoilt \/ gTicks > consumed + 1)
    /\ consumed' = gTicks
    /\ frame' = [EmptyFrame EXCEPT !.stamp = gTicks]
    /\ at' = "imu"
    /\ UNCHANGED <<tries, gTicks, asleep, baro, health>>

(* Mpu6050::readSample(): a failed burst is a frame of zeros without an    *)
(* IMU, never the sample of another tick.                                  *)
ReadSample ==
    /\ at = "imu"
    /\ \E ok \in BOOLEAN :
          frame' = [frame EXCEPT !.imuValid = ok, !.sample = IF ok THEN frame.stamp ELSE Zero]
    /\ at' = "baro"
    /\ Loop /\ Drivers

(* SensorHealth::note().                                                   *)
Note(ok) == IF ok THEN [everOk |-> TRUE, lastOk |-> frame.stamp] ELSE health

(* What one read of the barometer brings: nothing, the reset pattern of a  *)
(* chip that has not measured yet, a value that is no pressure, or one.    *)
Readings == {"failed", "reset", "implausible", "pressure"}

MutReadBaro(reading) ==
    /\ health' = Note(reading \in {"implausible", "pressure"})
    /\ baro' = [baro EXCEPT !.ticks = 0,
                            !.solution = IF reading = "pressure" THEN frame.stamp ELSE @]
    /\ spoilt' = (reading # "pressure")
ReadBaro(reading) ==
    /\ health' = IF reading = "reset" THEN health ELSE Note(reading = "pressure")
    /\ baro' = [baro EXCEPT !.ticks = 0,
                            !.solution = IF reading = "pressure" THEN frame.stamp ELSE @]
    /\ spoilt' = (reading # "pressure")

(* Bmp581::update(): every TicksPerRead-th frame costs a transfer.         *)
UpdateBaro ==
    /\ at = "baro"
    /\ \/ ~baro.ready /\ Drivers
       \/ /\ baro.ready /\ baro.ticks + 1 < TicksPerRead
          /\ baro' = [baro EXCEPT !.ticks = @ + 1]
          /\ UNCHANGED <<health, spoilt>>
       \/ /\ baro.ready /\ baro.ticks + 1 = TicksPerRead
          /\ \E reading \in Readings : ReadBaro(reading)
    /\ at' = "emit"
    /\ UNCHANGED frame /\ Loop

(* SensorHealth::freshWithin() of the frame's instant.                     *)
Fresh == health.everOk /\ frame.stamp - health.lastOk <= FreshAge

Emit ==
    /\ at = "emit"
    /\ frame' = [frame EXCEPT !.baroValid = Fresh,
                              !.pressure = IF Fresh THEN baro.solution ELSE Zero]
    /\ at' = "step"
    /\ Loop /\ Drivers

(* The flight loop's turn on the frame.                                    *)
FrameIsStepped ==
    /\ at = "step"
    /\ at' = "test"
    /\ UNCHANGED frame /\ Loop /\ Drivers

SourceNext ==
    \/ ImuProbe \/ ImuConfigure \/ BaroProbe \/ BaroConfigure
    \/ TimerInterrupt \/ TestTicks \/ TickBeforeSleep \/ Wake
    \/ TakeTick \/ ReadSample \/ UpdateBaro \/ Emit \/ FrameIsStepped

SourceSpec == SourceInit /\ [][SourceNext]_sourceVars

-----------------------------------------------------------------------------
(* What a frame flags as valid is what it says: a sample of its own tick,  *)
(* a plausible pressure no older than the freshness window; the rest is    *)
(* zero.  And a working barometer read in time is always inside the window *)
(* (bmp581.hpp: a working baro is always well inside): as long as no tick  *)
(* was overrun and no read was wasted since its last solution, the frame   *)
(* carries it.                                                             *)
FrameIsOfNow ==
    at = "step" =>
        /\ frame.sample = IF frame.imuValid THEN frame.stamp ELSE Zero
        /\ frame.baroValid => /\ baro.ready /\ frame.pressure # Zero
                              /\ frame.stamp - frame.pressure <= FreshAge
        /\ ~frame.baroValid => frame.pressure = Zero
        /\ baro.solution # Zero /\ ~spoilt => frame.baroValid

(* The inductive invariant.  The held pressure is the one the health record *)
(* dates; while nothing was wasted since, it is as old as the frames that   *)
(* passed without a transfer.                                               *)
SourceTypeOK ==
    /\ at \in {"imu_probe", "imu_configure", "baro_probe", "baro_configure", "dead",
               "test", "wfi", "imu", "baro", "emit", "step"}
    /\ gTicks \in Nat /\ consumed \in 0 .. gTicks
    /\ baro \in [ready : BOOLEAN, ticks : 0 .. TicksPerRead - 1, solution : 0 .. consumed]
    /\ health \in [everOk : BOOLEAN, lastOk : Nat]
    /\ frame \in [stamp : Nat, imuValid : BOOLEAN, sample : Nat,
                  baroValid : BOOLEAN, pressure : Nat]
    /\ spoilt \in BOOLEAN

StampIsTaken ==
    /\ at \in {"imu", "baro", "emit", "step"} => frame.stamp = consumed /\ consumed > 0
    /\ at \in {"baro", "emit", "step"} =>
          frame.sample = IF frame.imuValid THEN frame.stamp ELSE Zero

HealthDatesSolution ==
    IF health.everOk
    THEN baro.ready /\ Started /\ health.lastOk = baro.solution /\ baro.solution # Zero
    ELSE baro.solution = Zero

SolutionAges ==
    baro.solution # Zero /\ ~spoilt =>
        consumed - baro.solution = baro.ticks + IF at \in {"imu", "baro"} THEN 1 ELSE 0

SourceInv == SourceTypeOK /\ StampIsTaken /\ HealthDatesSolution /\ SolutionAges /\ FrameIsOfNow
=============================================================================
