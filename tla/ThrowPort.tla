------------------------------ MODULE ThrowPort ------------------------------
(***************************************************************************)
(* What the flight core may rely on from its throw detector: whether a     *)
(* confirmed throw is in the air, and how long it still climbs.  The       *)
(* detector itself (ThrowDetector) implements these steps, and the flight  *)
(* core (FlightCore) is built on them.                                     *)
(*                                                                         *)
(* Times are ages in ticks, counted up to AgeMax.                          *)
(***************************************************************************)
EXTENDS Integers

CONSTANT AgeMax

ASSUME ThrowPortAssumption == AgeMax \in Nat

VARIABLES ballistic,         \* state() = BALLISTIC
          apex               \* apexTimestampUs() - now, while ballistic

portVars == <<ballistic, apex>>

\* The norm of the accelerometer, as the thresholds of the detector and of the
\* impact cutoff tell it apart:
\* "fall" < 0.3 g <= "float" < 0.5 g <= "rest" < 2 g <= "thrust" <= 8 g < "impact"
Accels == {"fall", "float", "rest", "thrust", "impact"}
Exiting(a) == a \in {"rest", "thrust", "impact"}

Ages == 0 .. AgeMax
NoStreak == -1
Elapse(age, dt) == IF age = NoStreak THEN NoStreak
                   ELSE IF age + dt <= AgeMax THEN age + dt ELSE AgeMax
CountDown(t, dt) == IF t > dt THEN t - dt ELSE 0

PortInit == ballistic = FALSE /\ apex = 0

(* Time passes between two frames. *)
PortTick(dt) == ballistic' = ballistic /\ apex' = CountDown(apex, dt)

(* A throw is confirmed in free fall only and never ends in free fall.     *)
PortSees(a) ==
    \/ UNCHANGED portVars
    \/ ~ballistic /\ a = "fall" /\ ballistic' = TRUE /\ apex' \in Ages
    \/ ballistic /\ Exiting(a) /\ ballistic' = FALSE /\ apex' = 0
=============================================================================
