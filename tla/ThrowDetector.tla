---------------------------- MODULE ThrowDetector ----------------------------
(***************************************************************************)
(* The hand-throw detector,                                                *)
(* flight-core/src/throw_launch/throw_detector.cpp.                        *)
(*                                                                         *)
(* The instants the code stores are ages in ticks; the release velocity is *)
(* `rise`, the time the drone still climbs with it, 0 when it is below     *)
(* MIN_RELEASE_VELOCITY_MPS.  `signal` is the history of the frames seen   *)
(* since the detector last had a throw in the air, against which the       *)
(* signature is defined once more, without the detector's state.           *)
(***************************************************************************)
EXTENDS Integers, Sequences

CONSTANTS AgeMax, MaxGap,
          ThrustMin,         \* THRUST_MIN_US
          FreeFallConfirm,   \* FREE_FALL_CONFIRM_US
          ReleaseTimeout,    \* RELEASE_TIMEOUT_US
          ExitConfirm,       \* BALLISTIC_EXIT_CONFIRM_US
          Rises,             \* climb times a release may have
          MaxFrames          \* bound on the history

VARIABLES detector, signal,
          now,               \* instant of the last frame timed
          pending            \* it has not been seen yet

vars == <<detector, signal, now, pending>>

Port == INSTANCE ThrowPort WITH ballistic <- detector.state = "BALLISTIC",
                                apex <- detector.apex

ASSUME ThrowDetectorAssumption ==
    /\ AgeMax \in Nat /\ MaxGap \in Nat \ {0}
    /\ 0 \in Rises /\ Rises \subseteq 0 .. AgeMax
    /\ {ThrustMin, ReleaseTimeout, ExitConfirm} \subseteq 0 .. AgeMax
    /\ FreeFallConfirm \in 1 .. AgeMax
    /\ MaxFrames \in Nat

Ages == Port!Ages
Accels == Port!Accels
NoStreak == Port!NoStreak
Elapse(age, dt) == Port!Elapse(age, dt)
Thrusting(a) == a \in {"thrust", "impact"}

Detectors == [state : {"IDLE", "THRUST", "BALLISTIC"},
              thrust : Ages,                   \* thrustLast - thrustStart
              since : Ages,                    \* now - thrustLast
              fall : Ages \cup {NoStreak},     \* now - freeFallStart
              rise : Rises,                    \* of the candidate release
              exit : Ages \cup {NoStreak},     \* now - exitStart
              apex : Ages]                     \* predicted apex - now

(* The state after reset(); fields a state does not read are 0.            *)
Resting == [state |-> "IDLE", thrust |-> 0, since |-> 0, fall |-> NoStreak, rise |-> 0,
            exit |-> NoStreak, apex |-> 0]

(* The same state, dt later. *)
Aged(d, dt) ==
    CASE d.state = "IDLE"      -> d
      [] d.state = "THRUST"    -> [d EXCEPT !.since = Elapse(@, dt), !.fall = Elapse(@, dt)]
      [] d.state = "BALLISTIC" -> [d EXCEPT !.exit = Elapse(@, dt),
                                            !.apex = Port!CountDown(@, dt)]

-----------------------------------------------------------------------------
(* update() *)

Started(d) == [d EXCEPT !.state = "THRUST"]

\* Mutant: a thrust frame does not break the free fall streak.
MutThrusts(d) == [d EXCEPT !.thrust = Elapse(@, d.since), !.since = 0]

Thrusts(d) == [d EXCEPT !.thrust = Elapse(@, d.since), !.since = 0,
                        !.fall = NoStreak, !.rise = 0]

\* The first free fall frame freezes the vertical state: the candidate.
Releases(d, rise) == [d EXCEPT !.fall = 0, !.rise = rise]

\* A thrust that lasted and released fast enough upwards.

\* Mutant: the thrust has to last longer than the minimum.
MutSignature(d) == d.thrust > ThrustMin /\ d.rise > 0

Signature(d) == d.thrust >= ThrustMin /\ d.rise > 0

Confirms(d) ==
    IF Signature(d)
    THEN [Resting EXCEPT !.state = "BALLISTIC", !.apex = Port!CountDown(d.rise, d.fall)]
    ELSE Resting

InThrust(d, a, rise) ==
    CASE Thrusting(a) -> Thrusts(d)
      [] a = "fall" /\ d.fall = NoStreak -> Releases(d, rise)
      [] a = "fall" /\ d.fall # NoStreak -> IF d.fall >= FreeFallConfirm THEN Confirms(d) ELSE d
      [] a \in {"float", "rest"} -> IF d.since >= ReleaseTimeout THEN Resting
                                    ELSE [d EXCEPT !.fall = NoStreak, !.rise = 0]

\* Mutant: any quiet frame ends the flight.
MutInBallistic(d, a) == IF a = "fall" THEN [d EXCEPT !.exit = NoStreak] ELSE Resting

InBallistic(d, a) ==
    IF ~Port!Exiting(a) THEN [d EXCEPT !.exit = NoStreak]
    ELSE IF d.exit = NoStreak THEN [d EXCEPT !.exit = 0]
    ELSE IF d.exit >= ExitConfirm THEN Resting ELSE d

Updated(d, a, rise) ==
    CASE d.state = "IDLE"      -> IF Thrusting(a) THEN Started(d) ELSE d
      [] d.state = "THRUST"    -> InThrust(d, a, rise)
      [] d.state = "BALLISTIC" -> InBallistic(d, a)

-----------------------------------------------------------------------------
(* A frame is timed, then seen: the signal keeps what was seen and when.   *)

Tick(dt) ==
    /\ ~pending
    /\ detector' = Aged(detector, dt)
    /\ now' = now + dt
    /\ pending' = TRUE
    /\ UNCHANGED signal

Update(a, rise) ==
    /\ pending
    /\ detector' = Updated(detector, a, rise)
    /\ IF detector.state = "BALLISTIC"
       THEN signal' = <<>> /\ now' = 0
       ELSE signal' = Append(signal, [accel |-> a, rise |-> rise, at |-> now]) /\ now' = now
    /\ pending' = FALSE

(* FlightCore::reset() assigns a fresh core. *)
Reset ==
    /\ ~pending
    /\ detector' = Resting
    /\ signal' = <<>> /\ now' = 0
    /\ UNCHANGED pending

Init == detector = Resting /\ signal = <<>> /\ now = 0 /\ pending = FALSE

Next == \/ /\ Len(signal) < MaxFrames
           /\ \E dt \in 1 .. MaxGap : Tick(dt)
        \/ \E a \in Accels \ {"fall"} : Update(a, 0)
        \/ \E rise \in Rises : Update("fall", rise)
        \/ Reset

Spec == Init /\ [][Next]_vars

-----------------------------------------------------------------------------
(* The signature, read off the signal alone. *)

ThrustFrame(i) == Thrusting(signal[i].accel)
FallFrame(i) == signal[i].accel = "fall"
QuietFrame(i) == ~ThrustFrame(i) /\ ~FallFrame(i)
Span(i, j) == signal[j].at - signal[i].at

\* Frames i to j thrust long enough, frames k to the last are an upward
\* release and the free fall that confirms it.
ThrustThenFall(i, j, k) ==
    /\ i <= j /\ j < k
    /\ ThrustFrame(i) /\ ThrustFrame(j) /\ Span(i, j) >= ThrustMin
    /\ \A q \in k .. Len(signal) : FallFrame(q)
    /\ Span(k, Len(signal)) >= FreeFallConfirm /\ signal[k].rise > 0

\* No quiet frame came ReleaseTimeout after the thrust it follows.
Unrelaxed(i, k) ==
    \A q \in i .. k : QuietFrame(q) =>
        \E p \in i .. q : ThrustFrame(p) /\ Span(p, q) < ReleaseTimeout

Thrown == \E i, j, k \in 1 .. Len(signal) : ThrustThenFall(i, j, k) /\ Unrelaxed(i, k)

\* The gesture of a clean throw: nothing before the thrust, nothing but thrust
\* in it, the release right after it.
CleanlyThrown ==
    \E i, j \in 1 .. Len(signal) :
        /\ j < Len(signal) /\ ThrustThenFall(i, j, j + 1)
        /\ \A q \in 1 .. i - 1 : ~ThrustFrame(q)
        /\ \A q \in i .. j : ThrustFrame(q)

\* A throw is never invented, whatever pauses, bumps and half throws precede
\* it: the frames the detector saw since its last flight hold a sustained
\* thrust, no pause of RELEASE_TIMEOUT_US, and an unbroken free fall from an
\* upward release to the confirmation (throw_detector.cpp, update()).
ThrowIsReal ==
    [][detector.state # "BALLISTIC" /\ detector'.state = "BALLISTIC" => Thrown']_vars

\* A clean throw is never missed: it is in the air by its confirming frame.
ThrowIsCaught == ~pending /\ CleanlyThrown => detector.state = "BALLISTIC"

\* The detector implements what the flight core relies on, step by step: a
\* throw begins in free fall, ends out of it, and its apex only comes nearer.
ImplementsPort ==
    /\ Port!PortInit
    /\ [][/\ \A dt \in 1 .. MaxGap : Tick(dt) => Port!PortTick(dt)
         /\ \A a \in Accels, rise \in Rises : Update(a, rise) => Port!PortSees(a)]_vars
-----------------------------------------------------------------------------
(* The inductive invariant (ThrowDetector_proof): the ages the detector     *)
(* keeps are those of frames of the signal, as far as an age counts.       *)

Frames == [accel : Accels, rise : Rises, at : Nat]
Sat(t) == Elapse(0, t)

SignalTypeOK ==
    /\ now \in Nat /\ pending \in BOOLEAN /\ signal \in Seq(Frames)
    /\ \A q \in 1 .. Len(signal) : signal[q].at <= now
    /\ ~pending /\ signal # <<>> => signal[Len(signal)].at = now

IdleIsFresh == detector.state = "IDLE" => detector = Resting

\* The thrust began with frame i and frame j is the last of it.
Gesture(i, j) ==
    /\ i <= j /\ ThrustFrame(i) /\ ThrustFrame(j) /\ Span(i, j) >= 0
    /\ detector.thrust = Sat(Span(i, j)) /\ detector.since = Sat(now - signal[j].at)

\* The free fall in progress began with frame k.
Falling(k) ==
    /\ \A q \in k .. Len(signal) : FallFrame(q)
    /\ detector.fall = Sat(now - signal[k].at) /\ detector.rise = signal[k].rise

GestureIsSeen ==
    detector.state = "THRUST" =>
        \E i, j \in 1 .. Len(signal) :
            /\ Gesture(i, j) /\ Unrelaxed(i, Len(signal))
            /\ detector.fall # NoStreak => \E k \in j + 1 .. Len(signal) : Falling(k)

ConfirmIsPrompt ==
    ~pending /\ detector.state = "THRUST" => detector.fall < FreeFallConfirm

\* A signal that is, so far, a clean throw.
CleanSoFar(i, j) ==
    /\ i <= j
    /\ \A q \in 1 .. i - 1 : ~ThrustFrame(q)
    /\ \A q \in i .. j : ThrustFrame(q)
    /\ \A q \in j + 1 .. Len(signal) : FallFrame(q)

Followed(i, j) ==
    /\ detector.state = "THRUST" /\ Gesture(i, j)
    /\ IF j = Len(signal) THEN detector.fall = NoStreak ELSE Falling(j + 1)

Refused(i, j) == j < Len(signal) /\ (Span(i, j) < ThrustMin \/ signal[j + 1].rise = 0)

CleanIsFollowed ==
    detector.state # "BALLISTIC" =>
        \A i \in 1 .. Len(signal) : \A j \in i .. Len(signal) :
            CleanSoFar(i, j) => Followed(i, j) \/ (detector.state = "IDLE" /\ Refused(i, j))

SignalInv ==
    /\ SignalTypeOK /\ detector \in Detectors /\ IdleIsFresh
    /\ GestureIsSeen /\ ConfirmIsPrompt /\ CleanIsFollowed
=============================================================================
