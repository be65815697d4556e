-------------------------- MODULE ThrowDetector_proof --------------------------
(***************************************************************************)
(* The throw detector, for every threshold and every stream of frames.     *)
(*                                                                         *)
(* It implements the port the flight core is built on: a step maps to the  *)
(* port through its state and its apex alone, so all that takes is that    *)
(* the detector stays of its type and carries no apex out of flight.       *)
(*                                                                         *)
(* It calls a throw what the signal says is one, and misses no clean one:  *)
(* SignalInv gives every age of the detector the frames it is the age of.  *)
(***************************************************************************)
EXTENDS ThrowDetector, TLAPS

\* What the port's map needs of the detector.
DetectorInv == detector \in Detectors /\ (detector.state # "BALLISTIC" => detector.apex = 0)

USE DEF Ages, Port!Ages, NoStreak, Port!NoStreak

\* Ages stay ages while time passes.
LEMMA ElapseType ==
    ASSUME NEW age \in Ages \cup {NoStreak}, NEW dt \in Nat
    PROVE  /\ Elapse(age, dt) \in Ages \cup {NoStreak}
           /\ age \in Ages => Elapse(age, dt) \in Ages
BY ThrowDetectorAssumption DEF Elapse, Port!Elapse

\* The time to the apex stays an age while it runs down.
LEMMA CountDownType ==
    ASSUME NEW t \in Nat, NEW dt \in Nat, t <= AgeMax
    PROVE  Port!CountDown(t, dt) \in Ages
BY ThrowDetectorAssumption DEF Port!CountDown

\* reset() leaves a detector at rest.
LEMMA RestingType == Resting \in Detectors /\ Resting.state = "IDLE" /\ Resting.apex = 0
BY ThrowDetectorAssumption DEF Resting, Detectors

\* The passing of time is the port's.
LEMMA AgedStep ==
    ASSUME NEW d \in Detectors, d.state # "BALLISTIC" => d.apex = 0, NEW dt \in Nat
    PROVE  /\ Aged(d, dt) \in Detectors
           /\ Aged(d, dt).state = d.state
           /\ Aged(d, dt).apex = Port!CountDown(d.apex, dt)
           /\ d.state # "BALLISTIC" => Aged(d, dt).apex = 0
<1>1. Port!CountDown(d.apex, dt) \in Ages
  <2>1. d.apex \in Ages
    BY DEF Detectors
  <2>2. d.apex \in Nat /\ d.apex <= AgeMax
    BY <2>1, ThrowDetectorAssumption
  <2>3. QED
    BY <2>2, CountDownType
<1>2. d.apex = 0 => Port!CountDown(d.apex, dt) = 0
  BY DEF Port!CountDown
<1>3. CASE d.state = "IDLE"
  BY <1>2, <1>3 DEF Aged, Detectors
<1>4. CASE d.state = "THRUST"
  <2>1. Elapse(d.since, dt) \in Ages /\ Elapse(d.fall, dt) \in Ages \cup {NoStreak}
    BY ElapseType DEF Detectors
  <2>2. Aged(d, dt) = [d EXCEPT !.since = Elapse(@, dt), !.fall = Elapse(@, dt)]
    BY <1>4 DEF Aged
  <2>3. QED
    BY <1>2, <1>4, <2>1, <2>2 DEF Detectors
<1>5. CASE d.state = "BALLISTIC"
  <2>1. Elapse(d.exit, dt) \in Ages \cup {NoStreak}
    BY ElapseType DEF Detectors
  <2>2. Aged(d, dt) = [d EXCEPT !.exit = Elapse(@, dt), !.apex = Port!CountDown(@, dt)]
    BY <1>5 DEF Aged
  <2>3. QED
    BY <1>1, <1>5, <2>1, <2>2 DEF Detectors
<1>6. QED
  BY <1>3, <1>4, <1>5 DEF Detectors

\* update() confirms in free fall, ends out of it, and moves no apex.
LEMMA UpdatedStep ==
    ASSUME NEW d \in Detectors, d.state # "BALLISTIC" => d.apex = 0,
           NEW a \in Accels, NEW rise \in Rises
    PROVE  LET u == Updated(d, a, rise)
           IN /\ u \in Detectors /\ (u.state # "BALLISTIC" => u.apex = 0)
              /\ \/ /\ (u.state = "BALLISTIC") <=> (d.state = "BALLISTIC")
                    /\ u.apex = d.apex
                 \/ d.state # "BALLISTIC" /\ a = "fall" /\ u.state = "BALLISTIC"
                 \/ d.state = "BALLISTIC" /\ Port!Exiting(a) /\ u.state # "BALLISTIC"
<1> DEFINE u == Updated(d, a, rise)
<1>0. 0 \in Ages /\ 0 \in Rises
  BY ThrowDetectorAssumption
<1>1. CASE d.state = "IDLE"
  BY <1>1 DEF Updated, Started, Detectors
<1>2. CASE d.state = "THRUST"
  <2>1. u = InThrust(d, a, rise)
    BY <1>2 DEF Updated
  <2>2. CASE Thrusting(a)
    <3>1. Elapse(d.thrust, d.since) \in Ages
      BY ElapseType, ThrowDetectorAssumption DEF Detectors
    <3>2. u = Thrusts(d)
      BY <2>1, <2>2 DEF InThrust, Thrusting
    <3>3. QED
      BY <1>0, <1>2, <3>1, <3>2 DEF Thrusts, Detectors
  <2>3. CASE a = "fall" /\ d.fall = NoStreak
    <3>1. u = Releases(d, rise)
      BY <2>1, <2>3 DEF InThrust, Thrusting
    <3>2. QED
      BY <1>0, <1>2, <3>1 DEF Releases, Detectors
  <2>4. CASE a = "fall" /\ d.fall # NoStreak
    <3>1. u = IF d.fall >= FreeFallConfirm THEN Confirms(d) ELSE d
      BY <2>1, <2>4 DEF InThrust, Thrusting
    <3>2. Port!CountDown(d.rise, d.fall) \in Ages
      <4>1. d.rise \in Nat /\ d.rise <= AgeMax /\ d.fall \in Nat
        <5>1. d.rise \in Rises /\ d.fall \in Ages
          BY <2>4 DEF Detectors
        <5>2. d.rise \in 0 .. AgeMax
          BY <5>1, ThrowDetectorAssumption
        <5>3. d.fall \in 0 .. AgeMax
          BY <5>1
        <5>4. AgeMax \in Nat
          BY ThrowDetectorAssumption
        <5>5. QED
          BY <5>2, <5>3, <5>4
      <4>2. QED
        BY <4>1, CountDownType
    <3>3. CASE u = d
      BY <1>2, <3>3
    <3>4. CASE u = Resting
      BY <1>2, <3>4, RestingType
    <3>5. CASE u = [Resting EXCEPT !.state = "BALLISTIC",
                                   !.apex = Port!CountDown(d.rise, d.fall)]
      <4>1. u \in Detectors /\ u.state = "BALLISTIC"
        BY <3>2, <3>5, RestingType DEF Detectors
      <4>2. QED
        BY <1>2, <2>4, <4>1
    <3>6. QED
      BY <3>1, <3>3, <3>4, <3>5 DEF Confirms
  <2>5. CASE a \in {"float", "rest"}
    <3>1. u = IF d.since >= ReleaseTimeout THEN Resting
              ELSE [d EXCEPT !.fall = NoStreak, !.rise = 0]
      BY <2>1, <2>5 DEF InThrust, Thrusting
    <3>2. CASE u = Resting
      BY <1>2, <3>2, RestingType
    <3>3. CASE u = [d EXCEPT !.fall = NoStreak, !.rise = 0]
      BY <1>0, <1>2, <3>3 DEF Detectors
    <3>4. QED
      BY <3>1, <3>2, <3>3
  <2>6. QED
    BY <2>2, <2>3, <2>4, <2>5 DEF Accels, Port!Accels, Thrusting
<1>3. CASE d.state = "BALLISTIC"
  <2>1. u = InBallistic(d, a)
    BY <1>3 DEF Updated
  <2>2. CASE ~Port!Exiting(a)
    BY <1>3, <2>1, <2>2 DEF InBallistic, Detectors
  <2>3. CASE Port!Exiting(a)
    <3>1. u \in {[d EXCEPT !.exit = 0], Resting, d}
      BY <2>1, <2>3 DEF InBallistic
    <3>2. CASE u = [d EXCEPT !.exit = 0]
      BY <1>0, <1>3, <3>2 DEF Detectors
    <3>3. CASE u = Resting
      BY <1>3, <2>3, <3>3, RestingType
    <3>4. CASE u = d
      BY <1>3, <3>4
    <3>5. QED
      BY <3>1, <3>2, <3>3, <3>4
  <2>4. QED
    BY <2>2, <2>3
<1>4. QED
  BY <1>1, <1>2, <1>3 DEF Detectors

\* The detector stays of its type.
LEMMA DetectorStays == Spec => []DetectorInv
<1>1. Init => DetectorInv
  BY RestingType DEF Init, DetectorInv
<1>2. DetectorInv /\ [Next]_vars => DetectorInv'
  <2> SUFFICES ASSUME DetectorInv, [Next]_vars PROVE DetectorInv'
    OBVIOUS
  <2>1. ASSUME NEW dt \in 1 .. MaxGap, Tick(dt) PROVE DetectorInv'
    BY <2>1, AgedStep, ThrowDetectorAssumption DEF Tick, DetectorInv
  <2>2. ASSUME NEW a \in Accels, NEW rise \in Rises, Update(a, rise) PROVE DetectorInv'
    BY <2>2, UpdatedStep DEF Update, DetectorInv
  <2>3. CASE Reset
    BY <2>3, RestingType DEF Reset, DetectorInv
  <2>4. CASE UNCHANGED vars
    BY <2>4 DEF vars, DetectorInv
  <2>5. "fall" \in Accels /\ 0 \in Rises
    BY ThrowDetectorAssumption DEF Accels, Port!Accels
  <2>6. QED
    BY <2>1, <2>2, <2>3, <2>4, <2>5 DEF Next
<1>3. QED
  BY <1>1, <1>2, PTL DEF Spec

\* Every stream of frames, however long: the detector takes only steps its
\* port allows.
THEOREM DetectorIsPort == Spec => ImplementsPort
<1>1. Init => Port!PortInit
  BY RestingType DEF Init, Port!PortInit
<1>2. DetectorInv /\ [Next]_vars
        => [/\ \A dt \in 1 .. MaxGap : Tick(dt) => Port!PortTick(dt)
            /\ \A a \in Accels, rise \in Rises : Update(a, rise) => Port!PortSees(a)]_vars
  <2> SUFFICES ASSUME DetectorInv
               PROVE  /\ \A dt \in 1 .. MaxGap : Tick(dt) => Port!PortTick(dt)
                      /\ \A a \in Accels, rise \in Rises : Update(a, rise) => Port!PortSees(a)
    OBVIOUS
  <2>1. ASSUME NEW dt \in 1 .. MaxGap, Tick(dt) PROVE Port!PortTick(dt)
    <3>1. detector' = Aged(detector, dt) /\ dt \in Nat
      BY <2>1, ThrowDetectorAssumption DEF Tick
    <3>2. detector'.state = detector.state /\ detector'.apex = Port!CountDown(detector.apex, dt)
      BY <3>1, AgedStep DEF DetectorInv
    <3>3. QED
      BY <3>2 DEF Port!PortTick
  <2>2. ASSUME NEW a \in Accels, NEW rise \in Rises, Update(a, rise) PROVE Port!PortSees(a)
    <3>1. detector' = Updated(detector, a, rise)
      BY <2>2 DEF Update
    <3>2. /\ detector' \in Detectors /\ (detector'.state # "BALLISTIC" => detector'.apex = 0)
          /\ \/ /\ (detector'.state = "BALLISTIC") <=> (detector.state = "BALLISTIC")
                /\ detector'.apex = detector.apex
             \/ detector.state # "BALLISTIC" /\ a = "fall" /\ detector'.state = "BALLISTIC"
             \/ detector.state = "BALLISTIC" /\ Port!Exiting(a) /\ detector'.state # "BALLISTIC"
      BY <3>1, UpdatedStep DEF DetectorInv
    <3>3. detector'.apex \in Ages
      BY <3>2 DEF Detectors
    <3>4. QED
      BY <3>2, <3>3 DEF Port!PortSees, Port!portVars
  <2>3. QED
    BY <2>1, <2>2
<1>3. QED
  BY <1>1, <1>2, DetectorStays, PTL DEF Spec, ImplementsPort

-----------------------------------------------------------------------------
(* What the detector makes of the signal.                                  *)

\* Ages add up, and a threshold below AgeMax is met by the age as by the time.
LEMMA SatFacts ==
    ASSUME NEW a \in Nat, NEW b \in Nat
    PROVE  /\ Sat(a) \in Ages
           /\ Elapse(Sat(a), b) = Sat(a + b) /\ Elapse(Sat(a), Sat(b)) = Sat(a + b)
           /\ \A c \in 0 .. AgeMax : Sat(a) >= c <=> a >= c
  BY ThrowDetectorAssumption DEF Sat, Elapse, Port!Elapse

\* A frame is added to the signal.
LEMMA Grows ==
    ASSUME SignalTypeOK, NEW f \in Frames, signal' = Append(signal, f), NEW n, n = Len(signal)
    PROVE  /\ signal' \in Seq(Frames) /\ n \in Nat /\ Len(signal') = n + 1
           /\ \A q \in 1 .. n : signal'[q] = signal[q]
           /\ signal'[n + 1] = f
  BY DEF SignalTypeOK

\* The frames of the signal are frames, of instants that have passed.
LEMMA SignalFacts ==
    ASSUME SignalTypeOK, NEW q \in 1 .. Len(signal)
    PROVE  /\ signal[q] \in Frames /\ signal[q].at \in Nat /\ signal[q].at <= now
           /\ signal[q].rise \in Rises /\ signal[q].accel \in Accels
           /\ now - signal[q].at \in Nat
  <1>1. signal[q] \in Frames /\ signal[q].at <= now /\ now \in Nat
      BY DEF SignalTypeOK
  <1> QED
      BY <1>1 DEF Frames

LEMMA StartIsSignal == Init => SignalInv
  <1> SUFFICES ASSUME Init PROVE SignalInv
      OBVIOUS
  <1>1. detector = Resting /\ signal = <<>> /\ now = 0 /\ pending = FALSE /\ Len(signal) = 0
      BY DEF Init
  <1>2. detector \in Detectors /\ detector.state = "IDLE"
      BY <1>1, RestingType
  <1>3. SignalTypeOK
    <2>1. pending \in BOOLEAN
        BY <1>1, Zenon
    <2>2. now \in Nat /\ signal \in Seq(Frames)
        BY <1>1
    <2> QED
        BY <1>1, <2>1, <2>2 DEF SignalTypeOK
  <1>4. IdleIsFresh /\ GestureIsSeen /\ ConfirmIsPrompt
      BY <1>1, <1>2 DEF IdleIsFresh, GestureIsSeen, ConfirmIsPrompt
  <1>5. CleanIsFollowed
      BY <1>1 DEF CleanIsFollowed
  <1> QED
      BY <1>2, <1>3, <1>4, <1>5 DEF SignalInv

\* Without a signal a detector at rest, or in flight, has nothing to show.
LEMMA NoSignal ==
    ASSUME signal' = <<>>, now' \in Nat, pending' \in BOOLEAN, detector' \in Detectors,
           detector'.state = "BALLISTIC" \/ detector' = Resting
    PROVE  SignalInv'
  <1>1. Len(signal') = 0 /\ detector'.state # "THRUST"
      BY RestingType
  <1>2. SignalTypeOK'
      BY <1>1 DEF SignalTypeOK
  <1> QED
      BY <1>1, <1>2, RestingType DEF SignalInv, IdleIsFresh, GestureIsSeen, ConfirmIsPrompt, CleanIsFollowed

LEMMA TickKeepsSignal ==
    ASSUME SignalInv, DetectorInv, NEW dt \in 1 .. MaxGap, Tick(dt) PROVE SignalInv'
  <1>0. dt \in Nat /\ SignalTypeOK /\ detector \in Detectors
      BY ThrowDetectorAssumption DEF SignalInv
  <1>1. detector' = Aged(detector, dt) /\ now' = now + dt /\ pending' = TRUE /\ signal' = signal
      BY DEF Tick
  <1>2. detector' \in Detectors /\ detector'.state = detector.state
      BY <1>0, <1>1, AgedStep DEF DetectorInv
  <1>3. SignalTypeOK'
      BY <1>0, <1>1, SignalFacts DEF SignalTypeOK
  <1>4. IdleIsFresh' /\ ConfirmIsPrompt'
    <2>1. detector.state = "IDLE" => detector' = detector
        BY <1>1 DEF Aged
    <2> QED
        BY <1>1, <1>2, <2>1 DEF SignalInv, IdleIsFresh, ConfirmIsPrompt
  <1>5. detector.state = "THRUST" =>
           /\ detector'.thrust = detector.thrust /\ detector'.rise = detector.rise
           /\ detector'.since = Elapse(detector.since, dt) /\ detector'.fall = Elapse(detector.fall, dt)
      BY <1>0, <1>1 DEF Aged, Detectors
  <1>6. ASSUME NEW i \in 1 .. Len(signal), NEW j \in 1 .. Len(signal), Gesture(i, j),
               detector.state = "THRUST"
        PROVE  Gesture(i, j)'
    <2>0. now \in Nat /\ signal[j].at \in Nat /\ now - signal[j].at \in Nat
        BY <1>0, SignalFacts DEF SignalTypeOK
    <2>1. now' - signal[j].at = (now - signal[j].at) + dt
        BY <1>0, <1>1, <2>0
    <2>2. detector'.since = Sat(now' - signal[j].at)
        BY <1>0, <1>5, <1>6, <2>0, <2>1, SatFacts DEF Gesture
    <2> QED
        BY <1>1, <1>5, <1>6, <2>2 DEF Gesture, ThrustFrame, Span
  <1>7. ASSUME NEW k \in 1 .. Len(signal), Falling(k), detector.state = "THRUST" PROVE Falling(k)'
    <2>0. now \in Nat /\ signal[k].at \in Nat /\ now - signal[k].at \in Nat
        BY <1>0, SignalFacts DEF SignalTypeOK
    <2>1. now' - signal[k].at = (now - signal[k].at) + dt
        BY <1>0, <1>1, <2>0
    <2>2. detector'.fall = Sat(now' - signal[k].at)
        BY <1>0, <1>5, <1>7, <2>0, <2>1, SatFacts DEF Falling
    <2> QED
        BY <1>1, <1>5, <1>7, <2>2 DEF Falling, FallFrame
  <1>8. detector.state = "THRUST" => (detector'.fall # NoStreak <=> detector.fall # NoStreak)
    <2>1. detector.fall \in Ages \cup {NoStreak}
        BY <1>0 DEF Detectors
    <2> QED
        BY <1>0, <1>5, <2>1, ThrowDetectorAssumption DEF Elapse, Port!Elapse
  <1>9. GestureIsSeen'
    <2> SUFFICES ASSUME detector.state = "THRUST" PROVE GestureIsSeen'
        BY <1>2 DEF GestureIsSeen
    <2>1. PICK i \in 1 .. Len(signal), j \in 1 .. Len(signal) :
             /\ Gesture(i, j) /\ Unrelaxed(i, Len(signal))
             /\ detector.fall # NoStreak => \E k \in j + 1 .. Len(signal) : Falling(k)
        BY DEF SignalInv, GestureIsSeen
    <2>2. Gesture(i, j)' /\ Unrelaxed(i, Len(signal))'
        BY <1>1, <1>6, <2>1 DEF Unrelaxed, QuietFrame, ThrustFrame, FallFrame, Span
    <2>3. detector'.fall # NoStreak => \E k \in j + 1 .. Len(signal) : Falling(k)'
      <3> SUFFICES ASSUME detector.fall # NoStreak PROVE \E k \in j + 1 .. Len(signal) : Falling(k)'
          BY <1>8
      <3>1. PICK k \in j + 1 .. Len(signal) : Falling(k)
          BY <2>1
      <3> QED
          BY <1>7, <3>1
    <2> QED
        BY <1>1, <2>2, <2>3 DEF GestureIsSeen
  <1>10. CleanIsFollowed'
    <2> SUFFICES ASSUME detector.state # "BALLISTIC", NEW i \in 1 .. Len(signal),
                        NEW j \in i .. Len(signal), CleanSoFar(i, j)'
                 PROVE  Followed(i, j)' \/ (detector'.state = "IDLE" /\ Refused(i, j)')
        BY <1>1, <1>2 DEF CleanIsFollowed
    <2>1. CleanSoFar(i, j)
        BY <1>1 DEF CleanSoFar, ThrustFrame, FallFrame
    <2>2. Followed(i, j) \/ (detector.state = "IDLE" /\ Refused(i, j))
        BY <2>1 DEF SignalInv, CleanIsFollowed
    <2>3. CASE Followed(i, j)
      <3>1. j \in 1 .. Len(signal) /\ (j # Len(signal) => j + 1 \in 1 .. Len(signal))
          BY <1>0 DEF SignalTypeOK
      <3> QED
          BY <1>1, <1>2, <1>6, <1>7, <1>8, <2>3, <3>1 DEF Followed
    <2>4. CASE detector.state = "IDLE" /\ Refused(i, j)
        BY <1>1, <1>2, <2>4 DEF Refused, Span
    <2> QED
        BY <2>2, <2>3, <2>4
  <1> QED
      BY <1>2, <1>3, <1>4, <1>9, <1>10 DEF SignalInv

\* A step that sees a frame f, the one after the first n.
Sees(f, n) ==
    /\ SignalTypeOK /\ f \in Frames /\ f.at = now /\ n = Len(signal)
    /\ signal' = Append(signal, f) /\ now' = now /\ pending' = FALSE

\* The frames before it stay what they were.
LEMMA OldFrames ==
    ASSUME NEW f, NEW n, Sees(f, n)
    PROVE  /\ n \in Nat /\ Len(signal') = n + 1 /\ now \in Nat /\ signal'[n + 1] = f
           /\ \A q \in 1 .. n : signal'[q] = signal[q]
           /\ \A q \in 1 .. n : signal[q].at \in Nat /\ now - signal[q].at \in Nat
           /\ \A q \in 1 .. n : /\ ThrustFrame(q)' <=> ThrustFrame(q)
                                /\ FallFrame(q)' <=> FallFrame(q)
                                /\ QuietFrame(q)' <=> QuietFrame(q)
           /\ \A p, q \in 1 .. n : Span(p, q)' = Span(p, q)
           /\ \A q \in 1 .. n : Span(q, n + 1)' = now - signal[q].at
           /\ Span(n + 1, n + 1)' = 0
           /\ ThrustFrame(n + 1)' <=> Thrusting(f.accel)
           /\ FallFrame(n + 1)' <=> f.accel = "fall"
  <1>1. /\ SignalTypeOK /\ f \in Frames /\ f.at = now /\ n = Len(signal)
        /\ signal' = Append(signal, f) /\ now \in Nat
      BY DEF Sees, SignalTypeOK
  <1>2. /\ n \in Nat /\ Len(signal') = n + 1 /\ signal'[n + 1] = f
        /\ \A q \in 1 .. n : signal'[q] = signal[q]
      BY <1>1, Grows
  <1>3. \A q \in 1 .. n : signal[q].at \in Nat /\ now - signal[q].at \in Nat
      BY <1>1, SignalFacts
  <1>4. \A q \in 1 .. n : /\ ThrustFrame(q)' <=> ThrustFrame(q)
                          /\ FallFrame(q)' <=> FallFrame(q)
                          /\ QuietFrame(q)' <=> QuietFrame(q)
      BY <1>2 DEF ThrustFrame, FallFrame, QuietFrame, Thrusting
  <1>5. \A p, q \in 1 .. n : Span(p, q)' = Span(p, q)
      BY <1>2 DEF Span
  <1>6. (\A q \in 1 .. n : Span(q, n + 1)' = now - signal[q].at) /\ Span(n + 1, n + 1)' = 0
      BY <1>1, <1>2 DEF Span
  <1>7. (ThrustFrame(n + 1)' <=> Thrusting(f.accel)) /\ (FallFrame(n + 1)' <=> f.accel = "fall")
      BY <1>2 DEF ThrustFrame, FallFrame, Thrusting
  <1> QED
      BY <1>1, <1>2, <1>3, <1>4, <1>5, <1>6, <1>7

LEMMA SignalGrows == ASSUME NEW f, NEW n, Sees(f, n) PROVE SignalTypeOK'
  <1>1. /\ SignalTypeOK /\ f \in Frames /\ f.at = now /\ n = Len(signal)
        /\ signal' = Append(signal, f) /\ now' = now /\ pending' = FALSE
      BY DEF Sees
  <1>2. signal' \in Seq(Frames) /\ signal'[n + 1] = f /\ Len(signal') = n + 1 /\ n \in Nat /\ now \in Nat
      BY <1>1, Grows DEF SignalTypeOK
  <1>3. \A q \in 1 .. n + 1 : signal'[q].at <= now
    <2> SUFFICES ASSUME NEW q \in 1 .. n + 1 PROVE signal'[q].at <= now
        OBVIOUS
    <2>1. CASE q \in 1 .. n
        BY <1>1, <2>1, Grows, SignalFacts
    <2>2. CASE q = n + 1
        BY <1>1, <1>2, <2>2
    <2> QED
        BY <1>2, <2>1, <2>2
  <1>4. pending' \in BOOLEAN
      BY <1>1
  <1> QED
      BY <1>1, <1>2, <1>3, <1>4 DEF SignalTypeOK

\* A frame that is not quiet, or comes soon after a thrust, breaks no gesture.
LEMMA UnrelaxedGrows ==
    ASSUME NEW f, NEW n, Sees(f, n), NEW i \in 1 .. n, Unrelaxed(i, n),
           \/ Thrusting(f.accel) \/ f.accel = "fall"
           \/ \E j \in i .. n : ThrustFrame(j) /\ now - signal[j].at < ReleaseTimeout
    PROVE  Unrelaxed(i, n + 1)'
  <1>0. n \in Nat
      BY OldFrames
  <1> SUFFICES ASSUME NEW q \in i .. n + 1, QuietFrame(q)'
               PROVE  \E p \in i .. q : ThrustFrame(p)' /\ Span(p, q)' < ReleaseTimeout
      BY DEF Unrelaxed
  <1>1. CASE q \in 1 .. n
    <2>1. QuietFrame(q)
        BY <1>1, OldFrames
    <2>2. PICK p \in i .. q : ThrustFrame(p) /\ Span(p, q) < ReleaseTimeout
        BY <1>0, <1>1, <2>1 DEF Unrelaxed
    <2>3. p \in 1 .. n
        BY <1>0, <1>1
    <2> QED
        BY <1>1, <2>2, <2>3, OldFrames
  <1>2. CASE q = n + 1
    <2>1. ~Thrusting(f.accel) /\ f.accel # "fall"
        BY <1>2, OldFrames DEF QuietFrame
    <2>2. PICK j \in i .. n : ThrustFrame(j) /\ now - signal[j].at < ReleaseTimeout
        BY <2>1
    <2>3. j \in 1 .. n /\ j \in i .. q
        BY <1>0, <1>2
    <2> QED
      <3>1. ThrustFrame(j)'
          BY <2>2, <2>3, OldFrames
      <3>2. Span(j, q)' = now - signal[j].at
          BY <1>2, <2>3, OldFrames
      <3> QED
          BY <2>2, <2>3, <3>1, <3>2, Zenon
  <1> QED
      BY <1>0, <1>1, <1>2

\* The prefix of a signal that is a clean throw so far is one too, unless the
\* thrust begins with the last frame.
LEMMA CleanBefore ==
    ASSUME NEW f, NEW n, Sees(f, n), NEW i \in 1 .. n + 1, NEW j \in i .. n + 1, CleanSoFar(i, j)'
    PROVE  /\ i = n + 1 => Thrusting(f.accel) /\ \A q \in 1 .. n : ~ThrustFrame(q)
           /\ j = n + 1 => Thrusting(f.accel)
           /\ j <= n => f.accel = "fall" /\ CleanSoFar(i, j)
           /\ j = n + 1 /\ i <= n => CleanSoFar(i, n)
  <1>0. n \in Nat /\ Len(signal') = n + 1 /\ n = Len(signal)
      BY OldFrames DEF Sees
  <1>1. /\ i <= j
        /\ \A q \in 1 .. i - 1 : ~ThrustFrame(q)'
        /\ \A q \in i .. j : ThrustFrame(q)'
        /\ \A q \in j + 1 .. n + 1 : FallFrame(q)'
      BY <1>0 DEF CleanSoFar
  <1>2. i = n + 1 => Thrusting(f.accel) /\ \A q \in 1 .. n : ~ThrustFrame(q)
      BY <1>0, <1>1, OldFrames
  <1>3. j = n + 1 => Thrusting(f.accel)
      BY <1>0, <1>1, OldFrames
  <1>4. ASSUME j <= n PROVE f.accel = "fall" /\ CleanSoFar(i, j)
    <2>1. f.accel = "fall"
        BY <1>0, <1>1, <1>4, OldFrames
    <2>2. \A q \in 1 .. i - 1 : ~ThrustFrame(q)
        BY <1>0, <1>1, <1>4, OldFrames
    <2>3. \A q \in i .. j : ThrustFrame(q)
        BY <1>0, <1>1, <1>4, OldFrames
    <2>4. \A q \in j + 1 .. n : FallFrame(q)
        BY <1>0, <1>1, <1>4, OldFrames
    <2> QED
        BY <1>0, <1>1, <2>1, <2>2, <2>3, <2>4 DEF CleanSoFar
  <1>5. ASSUME j = n + 1, i <= n PROVE CleanSoFar(i, n)
    <2>1. \A q \in 1 .. i - 1 : ~ThrustFrame(q)
        BY <1>0, <1>1, <1>5, OldFrames
    <2>2. \A q \in i .. n : ThrustFrame(q)
        BY <1>0, <1>1, <1>5, OldFrames
    <2>3. n + 1 .. Len(signal) = {}
        BY <1>0
    <2> QED
        BY <1>0, <1>5, <2>1, <2>2, <2>3 DEF CleanSoFar
  <1> QED
      BY <1>0, <1>2, <1>3, <1>4, <1>5

\* A thrust frame makes the thrust last until now.
LEMMA GestureGrows ==
    ASSUME NEW f, NEW n, Sees(f, n), Thrusting(f.accel), NEW i \in 1 .. n, NEW j \in 1 .. n,
           Gesture(i, j), detector'.thrust = Elapse(detector.thrust, detector.since),
           detector'.since = 0
    PROVE  Gesture(i, n + 1)'
  <1>1. /\ n \in Nat /\ now \in Nat /\ signal[i].at \in Nat /\ signal[j].at \in Nat
        /\ now - signal[i].at \in Nat /\ now - signal[j].at \in Nat
        /\ Span(i, n + 1)' = now - signal[i].at /\ ThrustFrame(i)' /\ ThrustFrame(n + 1)'
        /\ signal'[n + 1] = f /\ f.at = now /\ now' = now
    <2>1. ThrustFrame(i) /\ f.at = now /\ now' = now
        BY DEF Gesture, Sees
    <2> QED
        BY <2>1, OldFrames
  <1>2. Span(i, j) \in Nat /\ Span(i, j) + (now - signal[j].at) = now - signal[i].at
      BY <1>1 DEF Gesture, Span
  <1>3. detector'.thrust = Sat(now - signal[i].at)
    <2>1. detector'.thrust = Elapse(Sat(Span(i, j)), Sat(now - signal[j].at))
        BY DEF Gesture
    <2>2. detector'.thrust = Sat(Span(i, j) + (now - signal[j].at))
        BY <1>1, <1>2, <2>1, SatFacts
    <2> QED
        BY <1>2, <2>2
  <1>4. detector'.since = Sat(now' - signal'[n + 1].at)
      BY <1>1, ThrowDetectorAssumption DEF Sat, Elapse, Port!Elapse
  <1> QED
      BY <1>1, <1>3, <1>4 DEF Gesture

\* Any other frame that keeps the detector in THRUST keeps the thrust it saw.
LEMMA GestureStays ==
    ASSUME NEW f, NEW n, Sees(f, n), NEW i \in 1 .. n, NEW j \in 1 .. n, Gesture(i, j),
           detector'.thrust = detector.thrust, detector'.since = detector.since
    PROVE  Gesture(i, j)'
  <1>1. /\ ThrustFrame(i)' /\ ThrustFrame(j)' /\ Span(i, j)' = Span(i, j) /\ now' = now
        /\ signal'[j] = signal[j]
    <2>1. ThrustFrame(i) /\ ThrustFrame(j) /\ now' = now
        BY DEF Gesture, Sees
    <2>2. /\ \A q \in 1 .. n : signal'[q] = signal[q]
          /\ \A q \in 1 .. n : ThrustFrame(q)' <=> ThrustFrame(q)
          /\ \A p, q \in 1 .. n : Span(p, q)' = Span(p, q)
        BY OldFrames
    <2> QED
        BY <2>1, <2>2, Zenon
  <1> QED
      BY <1>1 DEF Gesture

\* A fall goes on.
LEMMA FallingStays ==
    ASSUME NEW f, NEW n, Sees(f, n), f.accel = "fall", NEW k \in 1 .. n, Falling(k),
           detector'.fall = detector.fall, detector'.rise = detector.rise
    PROVE  Falling(k)'
  <1>1. n \in Nat /\ Len(signal') = n + 1 /\ n = Len(signal) /\ now' = now /\ signal'[k] = signal[k]
      BY OldFrames DEF Sees
  <1>2. \A q \in k .. n + 1 : FallFrame(q)'
    <2> SUFFICES ASSUME NEW q \in k .. n + 1 PROVE FallFrame(q)'
        OBVIOUS
    <2>1. CASE q = n + 1
        BY <2>1, OldFrames
    <2>2. CASE q \in k .. n
      <3>1. FallFrame(q) /\ q \in 1 .. n
          BY <1>1, <2>2 DEF Falling
      <3> QED
          BY <3>1, OldFrames
    <2> QED
        BY <1>1, <2>1, <2>2
  <1> QED
      BY <1>1, <1>2 DEF Falling

\* A candidate that was refused stays one.
LEMMA RefusedStays ==
    ASSUME NEW f, NEW n, Sees(f, n), NEW i \in 1 .. n, NEW j \in 1 .. n, Refused(i, j)
    PROVE  Refused(i, j)'
  <1>1. n \in Nat /\ Len(signal') = n + 1 /\ n = Len(signal) /\ j < n /\ j + 1 \in 1 .. n
      BY OldFrames DEF Sees, Refused
  <1>2. Span(i, j)' = Span(i, j) /\ signal'[j + 1] = signal[j + 1]
      BY <1>1, OldFrames
  <1> QED
      BY <1>1, <1>2 DEF Refused

LEMMA IdleSees ==
    ASSUME NEW f, NEW n, Sees(f, n), SignalInv, detector.state = "IDLE",
           detector' = IF Thrusting(f.accel) THEN Started(detector) ELSE detector,
           detector' \in Detectors
    PROVE  SignalInv'
  <1>0. /\ n \in Nat /\ Len(signal') = n + 1 /\ n = Len(signal) /\ SignalTypeOK'
        /\ detector = Resting
      BY OldFrames, SignalGrows DEF Sees, SignalInv, IdleIsFresh
  <1>1. ASSUME NEW i \in 1 .. n, NEW j \in i .. n, CleanSoFar(i, j) PROVE Refused(i, j)
      BY <1>0, <1>1 DEF SignalInv, CleanIsFollowed, Followed
  <1>2. CASE ~Thrusting(f.accel)
    <2>1. detector' = detector
        BY <1>2
    <2>2. CleanIsFollowed'
      <3> SUFFICES ASSUME NEW i \in 1 .. n + 1, NEW j \in i .. n + 1, CleanSoFar(i, j)'
                   PROVE  Refused(i, j)'
          BY <1>0, <2>1 DEF CleanIsFollowed
      <3>1. j <= n /\ CleanSoFar(i, j)
          BY <1>0, <1>2, CleanBefore
      <3>2. i \in 1 .. n /\ j \in i .. n /\ j \in 1 .. n
          BY <1>0, <3>1
      <3> QED
          BY <1>1, <3>1, <3>2, RefusedStays
    <2> QED
        BY <1>0, <2>1, <2>2 DEF SignalInv, IdleIsFresh, GestureIsSeen, ConfirmIsPrompt
  <1>3. CASE Thrusting(f.accel)
    <2>1. /\ detector'.state = "THRUST" /\ detector'.thrust = 0 /\ detector'.since = 0
          /\ detector'.fall = NoStreak
        BY <1>0, <1>3 DEF Started, Resting
    <2>2. Gesture(n + 1, n + 1)'
      <3>1. /\ ThrustFrame(n + 1)' /\ Span(n + 1, n + 1)' = 0 /\ signal'[n + 1].at = now'
            /\ now' \in Nat
          BY <1>3, OldFrames DEF Sees
      <3>2. Sat(0) = 0 /\ now' - signal'[n + 1].at = 0
        <4>1. Sat(0) = 0
            BY ThrowDetectorAssumption DEF Sat, Elapse, Port!Elapse
        <4>2. \A t \in Nat : t - t = 0
            OBVIOUS
        <4> QED
            BY <3>1, <4>1, <4>2, Zenon
      <3> QED
          BY <1>0, <2>1, <3>1, <3>2 DEF Gesture
    <2>3. Unrelaxed(n + 1, n + 1)'
      <3>1. \A q \in n + 1 .. n + 1 : ~QuietFrame(q)'
          BY <1>0, <1>3, OldFrames DEF QuietFrame
      <3> QED
          BY <3>1 DEF Unrelaxed
    <2>4. GestureIsSeen' /\ ConfirmIsPrompt' /\ IdleIsFresh'
        BY <1>0, <2>1, <2>2, <2>3, ThrowDetectorAssumption DEF GestureIsSeen, ConfirmIsPrompt, IdleIsFresh
    <2>5. CleanIsFollowed'
      <3> SUFFICES ASSUME NEW i \in 1 .. n + 1, NEW j \in i .. n + 1, CleanSoFar(i, j)'
                   PROVE  Followed(i, j)'
          BY <1>0 DEF CleanIsFollowed
      <3>1. j = n + 1
          BY <1>0, <1>3, CleanBefore DEF Thrusting
      <3>2. i = n + 1
        <4> SUFFICES ASSUME i <= n PROVE FALSE
            BY <1>0
        <4>1. CleanSoFar(i, n) /\ i \in 1 .. n /\ n \in i .. n
            BY <1>0, <3>1, CleanBefore
        <4>2. Refused(i, n)
            BY <1>1, <4>1
        <4> QED
            BY <1>0, <4>2 DEF Refused
      <3> QED
          BY <1>0, <2>1, <2>2, <3>1, <3>2 DEF Followed
    <2> QED
        BY <1>0, <2>4, <2>5 DEF SignalInv
  <1> QED
      BY <1>2, <1>3

\* A frame seen in THRUST that leaves the detector there: the gesture it follows
\* goes on.
LEMMA ThrustGoesOn ==
    ASSUME NEW f, NEW n, Sees(f, n), SignalInv, detector.state = "THRUST",
           detector' \in Detectors, detector'.state = "THRUST",
           ~Thrusting(f.accel), detector'.thrust = detector.thrust,
           detector'.since = detector.since, detector'.fall < FreeFallConfirm,
           f.accel = "fall" \/ (detector'.fall = NoStreak /\ detector.since < ReleaseTimeout),
           detector'.fall # NoStreak =>
               \/ /\ detector.fall = NoStreak
                  /\ detector'.fall = 0 /\ detector'.rise = f.rise
               \/ /\ detector.fall # NoStreak
                  /\ detector'.fall = detector.fall /\ detector'.rise = detector.rise,
           f.accel = "fall" => detector'.fall # NoStreak
    PROVE  SignalInv'
  <1>0. /\ n \in Nat /\ Len(signal') = n + 1 /\ n = Len(signal) /\ SignalTypeOK' /\ SignalTypeOK
        /\ f.at = now /\ now' = now /\ now \in Nat /\ signal'[n + 1] = f
      BY OldFrames, SignalGrows DEF Sees
  <1>1. ASSUME f.accel = "fall", detector.fall = NoStreak PROVE Falling(n + 1)'
    <2>1. detector'.fall = 0 /\ detector'.rise = f.rise
        BY <1>1
    <2>2. Sat(0) = 0
        BY ThrowDetectorAssumption DEF Sat, Elapse, Port!Elapse
    <2>3. \A q \in n + 1 .. n + 1 : FallFrame(q)'
        BY <1>0, <1>1, OldFrames
    <2>4. now' - signal'[n + 1].at = 0
        BY <1>0
    <2> QED
        BY <1>0, <2>1, <2>2, <2>3, <2>4 DEF Falling
  <1>2. ASSUME f.accel = "fall", detector.fall # NoStreak, NEW k \in 1 .. n, Falling(k)
        PROVE  Falling(k)'
      BY <1>2, FallingStays
  <1>3. GestureIsSeen'
    <2>1. PICK i \in 1 .. n, j \in 1 .. n :
             /\ Gesture(i, j) /\ Unrelaxed(i, n)
             /\ detector.fall # NoStreak => \E k \in j + 1 .. n : Falling(k)
        BY <1>0 DEF SignalInv, GestureIsSeen
    <2>2. Gesture(i, j)'
        BY <2>1, GestureStays
    <2>3. Unrelaxed(i, n + 1)'
      <3>1. f.accel # "fall" => \E p \in i .. n : ThrustFrame(p) /\ now - signal[p].at < ReleaseTimeout
        <4> SUFFICES ASSUME f.accel # "fall" PROVE now - signal[j].at < ReleaseTimeout
            BY <1>0, <2>1 DEF Gesture
        <4>1. detector.since < ReleaseTimeout /\ detector.since = Sat(now - signal[j].at)
            BY <2>1 DEF Gesture
        <4>2. now - signal[j].at \in Nat /\ ReleaseTimeout \in 0 .. AgeMax
            BY <1>0, SignalFacts, ThrowDetectorAssumption
        <4>3. Sat(now - signal[j].at) >= ReleaseTimeout <=> now - signal[j].at >= ReleaseTimeout
            BY <4>2, SatFacts
        <4>4. Sat(now - signal[j].at) \in Ages
            BY <4>2, SatFacts
        <4> QED
            BY <4>1, <4>2, <4>3, <4>4, ThrowDetectorAssumption
      <3> QED
          BY <2>1, <3>1, UnrelaxedGrows
    <2>4. detector'.fall # NoStreak => \E k \in j + 1 .. n + 1 : Falling(k)'
      <3> SUFFICES ASSUME detector'.fall # NoStreak PROVE \E k \in j + 1 .. n + 1 : Falling(k)'
          OBVIOUS
      <3>1. f.accel = "fall"
          OBVIOUS
      <3>2. CASE detector.fall = NoStreak
          BY <1>0, <1>1, <3>1, <3>2
      <3>3. CASE detector.fall # NoStreak
        <4>1. PICK k \in j + 1 .. n : Falling(k)
            BY <2>1, <3>3
        <4>2. k \in 1 .. n /\ k \in j + 1 .. n + 1
            BY <1>0
        <4> QED
            BY <1>2, <3>1, <3>3, <4>1, <4>2
      <3> QED
          BY <3>2, <3>3
    <2>5. i \in 1 .. n + 1 /\ j \in 1 .. n + 1
        BY <1>0
    <2> QED
        BY <1>0, <2>2, <2>3, <2>4, <2>5 DEF GestureIsSeen
  <1>4. CleanIsFollowed'
    <2> SUFFICES ASSUME NEW i \in 1 .. n + 1, NEW j \in i .. n + 1, CleanSoFar(i, j)'
                 PROVE  Followed(i, j)'
        BY <1>0 DEF CleanIsFollowed
    <2>1. j <= n /\ f.accel = "fall" /\ CleanSoFar(i, j)
        BY <1>0, CleanBefore
    <2>2. i \in 1 .. n /\ j \in i .. n /\ j \in 1 .. n
        BY <1>0, <2>1
    <2>3. Followed(i, j)
        BY <1>0, <2>1, <2>2 DEF SignalInv, CleanIsFollowed
    <2>4. Gesture(i, j)'
        BY <2>2, <2>3, GestureStays DEF Followed
    <2>5. Falling(j + 1)'
      <3>1. CASE j = n
        <4>1. detector.fall = NoStreak
            BY <1>0, <2>3, <3>1 DEF Followed
        <4> QED
            BY <1>1, <2>1, <3>1, <4>1
      <3>2. CASE j # n
        <4>1. Falling(j + 1) /\ j + 1 \in 1 .. n
            BY <1>0, <2>2, <2>3, <3>2 DEF Followed
        <4>2. now - signal[j + 1].at \in Nat
            BY <1>0, <4>1, SignalFacts
        <4>3. detector.fall # NoStreak
          <5>1. detector.fall = Sat(now - signal[j + 1].at)
              BY <4>1 DEF Falling
          <5>2. Sat(now - signal[j + 1].at) \in Ages
              BY <4>2, SatFacts
          <5> QED
              BY <5>1, <5>2
        <4> QED
            BY <1>2, <2>1, <4>1, <4>3
      <3> QED
          BY <3>1, <3>2
    <2> QED
        BY <1>0, <2>2, <2>4, <2>5 DEF Followed
  <1> QED
      BY <1>0, <1>3, <1>4 DEF SignalInv, IdleIsFresh, ConfirmIsPrompt

\* A thrust frame seen in THRUST: the gesture lasts until now.
LEMMA ThrustSeesThrust ==
    ASSUME NEW f, NEW n, Sees(f, n), SignalInv, detector.state = "THRUST",
           Thrusting(f.accel), detector' = Thrusts(detector), detector' \in Detectors
    PROVE  SignalInv'
  <1>0. n \in Nat /\ Len(signal') = n + 1 /\ n = Len(signal) /\ SignalTypeOK'
      BY OldFrames, SignalGrows DEF Sees
  <1>1. /\ detector'.state = "THRUST" /\ detector'.since = 0 /\ detector'.fall = NoStreak
        /\ detector'.thrust = Elapse(detector.thrust, detector.since)
    <2>1. detector \in Detectors
        BY DEF SignalInv
    <2> QED
        BY <2>1 DEF Thrusts, Detectors
  <1>2. PICK s \in 1 .. n, t \in 1 .. n : Gesture(s, t) /\ Unrelaxed(s, n)
      BY <1>0 DEF SignalInv, GestureIsSeen
  <1>3. GestureIsSeen'
    <2>1. Gesture(s, n + 1)'
        BY <1>1, <1>2, GestureGrows
    <2>2. Unrelaxed(s, n + 1)'
        BY <1>2, UnrelaxedGrows
    <2>3. s \in 1 .. n + 1 /\ n + 1 \in 1 .. n + 1
        BY <1>0
    <2> QED
        BY <1>0, <1>1, <2>1, <2>2, <2>3 DEF GestureIsSeen
  <1>4. CleanIsFollowed'
    <2> SUFFICES ASSUME NEW i \in 1 .. n + 1, NEW j \in i .. n + 1, CleanSoFar(i, j)'
                 PROVE  Followed(i, j)'
        BY <1>0 DEF CleanIsFollowed
    <2>1. j = n + 1
        BY <1>0, CleanBefore DEF Thrusting
    <2>2. i <= n
      <3>1. ThrustFrame(s)
          BY <1>2 DEF Gesture
      <3>2. i # n + 1
          BY <1>2, <3>1, CleanBefore
      <3> QED
          BY <1>0, <3>2
    <2>3. CleanSoFar(i, n) /\ i \in 1 .. n /\ n \in i .. n /\ n \in 1 .. n
        BY <1>0, <2>1, <2>2, CleanBefore
    <2>4. Gesture(i, n)
        BY <1>0, <2>3 DEF SignalInv, CleanIsFollowed, Followed
    <2>5. Gesture(i, n + 1)'
        BY <1>1, <2>3, <2>4, GestureGrows
    <2> QED
        BY <1>0, <1>1, <2>1, <2>5 DEF Followed
  <1>5. ConfirmIsPrompt' /\ IdleIsFresh'
      BY <1>1, ThrowDetectorAssumption DEF ConfirmIsPrompt, IdleIsFresh
  <1> QED
      BY <1>0, <1>3, <1>4, <1>5 DEF SignalInv

\* A detector that gives a gesture up gave up no clean throw.
LEMMA ThrustGivesUp ==
    ASSUME NEW f, NEW n, Sees(f, n), SignalInv, detector.state = "THRUST",
           ~Thrusting(f.accel), detector' = Resting,
           f.accel = "fall" => detector.fall # NoStreak /\ ~Signature(detector)
    PROVE  SignalInv'
  <1>0. n \in Nat /\ Len(signal') = n + 1 /\ n = Len(signal) /\ SignalTypeOK' /\ SignalTypeOK
      BY OldFrames, SignalGrows DEF Sees
  <1>1. detector' \in Detectors /\ detector'.state = "IDLE"
      BY RestingType
  <1>2. CleanIsFollowed'
    <2> SUFFICES ASSUME NEW i \in 1 .. n + 1, NEW j \in i .. n + 1, CleanSoFar(i, j)'
                 PROVE  Refused(i, j)'
        BY <1>0, <1>1 DEF CleanIsFollowed
    <2>1. j <= n /\ f.accel = "fall" /\ CleanSoFar(i, j)
        BY <1>0, CleanBefore
    <2>2. i \in 1 .. n /\ j \in i .. n /\ j \in 1 .. n
        BY <1>0, <2>1
    <2>3. Followed(i, j)
        BY <1>0, <2>1, <2>2 DEF SignalInv, CleanIsFollowed
    <2>4. j # n /\ Falling(j + 1) /\ Gesture(i, j)
        BY <1>0, <2>1, <2>3 DEF Followed
    <2>5. j < n /\ j + 1 \in 1 .. n
        BY <1>0, <2>2, <2>4
    <2>6. detector.rise = signal[j + 1].rise /\ detector.rise \in Nat
      <3>1. detector.rise = signal[j + 1].rise
          BY <2>4 DEF Falling
      <3>2. detector.rise \in Rises
          BY DEF SignalInv, Detectors
      <3>3. Rises \subseteq Nat
          BY ThrowDetectorAssumption
      <3> QED
          BY <3>1, <3>2, <3>3, Zenon
    <2>7. ~(detector.thrust >= ThrustMin) => Span(i, j) < ThrustMin
      <3>1. Span(i, j) \in Nat
        <4>1. signal[i].at \in Nat /\ signal[j].at \in Nat
            BY <1>0, <2>2, SignalFacts
        <4> QED
            BY <2>4, <4>1 DEF Gesture, Span
      <3>2. ThrustMin \in 0 .. AgeMax
          BY ThrowDetectorAssumption
      <3>3. Sat(Span(i, j)) >= ThrustMin <=> Span(i, j) >= ThrustMin
          BY <3>1, <3>2, SatFacts
      <3>4. detector.thrust = Sat(Span(i, j))
          BY <2>4 DEF Gesture
      <3> QED
          BY <3>1, <3>2, <3>3, <3>4
    <2>8. ~(detector.rise > 0) => signal[j + 1].rise = 0
        BY <2>6
    <2>9. Refused(i, j)
        BY <1>0, <2>1, <2>5, <2>7, <2>8 DEF Refused, Signature
    <2> QED
        BY <2>2, <2>9, RefusedStays
  <1> QED
      BY <1>0, <1>1, <1>2 DEF SignalInv, IdleIsFresh, GestureIsSeen, ConfirmIsPrompt

\* A confirmed throw is in the signal.
LEMMA ConfirmedIsThrown ==
    ASSUME NEW f, NEW n, Sees(f, n), SignalInv, detector.state = "THRUST",
           f.accel = "fall", detector.fall # NoStreak, detector.fall >= FreeFallConfirm,
           Signature(detector)
    PROVE  Thrown'
  <1>0. /\ n \in Nat /\ Len(signal') = n + 1 /\ n = Len(signal) /\ SignalTypeOK
      BY OldFrames DEF Sees
  <1>1. PICK i \in 1 .. n, j \in 1 .. n :
           /\ Gesture(i, j) /\ Unrelaxed(i, n)
           /\ \E k \in j + 1 .. n : Falling(k)
      BY <1>0 DEF SignalInv, GestureIsSeen
  <1>2. PICK k \in j + 1 .. n : Falling(k)
      BY <1>1
  <1>3. k \in 1 .. n /\ j < k /\ i <= j
      BY <1>0, <1>1 DEF Gesture
  <1>4. ThrustFrame(i)' /\ ThrustFrame(j)' /\ Span(i, j)' = Span(i, j) /\ signal'[k] = signal[k]
    <2>1. ThrustFrame(i) /\ ThrustFrame(j)
        BY <1>1 DEF Gesture
    <2>2. /\ \A q \in 1 .. n : signal'[q] = signal[q]
          /\ \A q \in 1 .. n : ThrustFrame(q)' <=> ThrustFrame(q)
          /\ \A p, q \in 1 .. n : Span(p, q)' = Span(p, q)
        BY OldFrames
    <2> QED
        BY <1>3, <2>1, <2>2, Zenon
  <1>5. Span(i, j) >= ThrustMin
    <2>1. Span(i, j) \in Nat
      <3>1. signal[i].at \in Nat /\ signal[j].at \in Nat
          BY <1>0, SignalFacts
      <3> QED
          BY <1>1, <3>1 DEF Gesture, Span
    <2>2. ThrustMin \in 0 .. AgeMax
        BY ThrowDetectorAssumption
    <2>3. Sat(Span(i, j)) >= ThrustMin <=> Span(i, j) >= ThrustMin
        BY <2>1, <2>2, SatFacts
    <2>4. detector.thrust = Sat(Span(i, j)) /\ detector.thrust >= ThrustMin
        BY <1>1 DEF Gesture, Signature
    <2> QED
        BY <2>3, <2>4
  <1>6. Span(k, n + 1)' >= FreeFallConfirm
    <2>1. Span(k, n + 1)' = now - signal[k].at /\ now - signal[k].at \in Nat
        BY <1>3, OldFrames
    <2>2. FreeFallConfirm \in 0 .. AgeMax
        BY ThrowDetectorAssumption
    <2>3. Sat(now - signal[k].at) >= FreeFallConfirm <=> now - signal[k].at >= FreeFallConfirm
        BY <2>1, <2>2, SatFacts
    <2>4. detector.fall = Sat(now - signal[k].at)
        BY <1>2 DEF Falling
    <2>5. now - signal[k].at >= FreeFallConfirm
        BY <2>3, <2>4
    <2> QED
        BY <2>1, <2>5, Zenon
  <1>7. signal'[k].rise > 0
      BY <1>2, <1>4 DEF Falling, Signature
  <1>8. \A q \in k .. n + 1 : FallFrame(q)'
    <2> SUFFICES ASSUME NEW q \in k .. n + 1 PROVE FallFrame(q)'
        OBVIOUS
    <2>1. CASE q = n + 1
        BY <2>1, OldFrames
    <2>2. CASE q \in k .. n
      <3>1. FallFrame(q) /\ q \in 1 .. n
          BY <1>0, <1>2, <1>3, <2>2 DEF Falling
      <3> QED
          BY <3>1, OldFrames
    <2> QED
        BY <1>0, <1>3, <2>1, <2>2
  <1>9. ThrustThenFall(i, j, k)'
      BY <1>0, <1>3, <1>4, <1>5, <1>6, <1>7, <1>8 DEF ThrustThenFall
  <1>10. Unrelaxed(i, k)'
    <2>1. Unrelaxed(i, n + 1)'
        BY <1>1, UnrelaxedGrows
    <2>2. i .. k \subseteq i .. n + 1
        BY <1>0, <1>3
    <2> QED
        BY <2>1, <2>2 DEF Unrelaxed
  <1>11. i \in 1 .. n + 1 /\ j \in 1 .. n + 1 /\ k \in 1 .. n + 1
      BY <1>0, <1>3
  <1> QED
      BY <1>0, <1>9, <1>10, <1>11 DEF Thrown

\* What update() makes of a frame in THRUST.
LEMMA ThrustSees ==
    ASSUME NEW f, NEW n, Sees(f, n), SignalInv, detector.state = "THRUST",
           detector' = InThrust(detector, f.accel, f.rise), detector' \in Detectors
    PROVE  SignalInv' /\ (detector'.state = "BALLISTIC" => Thrown')
  <1>0. detector \in Detectors /\ f \in Frames /\ f.accel \in Accels /\ SignalTypeOK'
      BY SignalGrows DEF SignalInv, Sees, Frames
  <1>1. CASE Thrusting(f.accel)
    <2>1. detector' = Thrusts(detector)
        BY <1>1 DEF InThrust, Thrusting
    <2>2. detector'.state = "THRUST"
        BY <1>0, <2>1 DEF Thrusts, Detectors
    <2> QED
        BY <1>1, <2>1, <2>2, ThrustSeesThrust
  <1>2. CASE f.accel = "fall" /\ detector.fall = NoStreak
    <2>0. ~Thrusting(f.accel)
        BY <1>2 DEF Thrusting
    <2>1. detector' = Releases(detector, f.rise)
        BY <1>2 DEF InThrust, Thrusting
    <2>2. /\ detector'.state = "THRUST" /\ detector'.thrust = detector.thrust
          /\ detector'.since = detector.since /\ detector'.fall = 0 /\ detector'.rise = f.rise
        BY <1>0, <2>1 DEF Releases, Detectors
    <2>3. detector'.fall < FreeFallConfirm /\ detector'.fall # NoStreak
        BY <2>2, ThrowDetectorAssumption
    <2>4. SignalInv'
        BY <1>2, <2>0, <2>2, <2>3, ThrustGoesOn
    <2> QED
        BY <2>2, <2>4
  <1>3. CASE f.accel = "fall" /\ detector.fall # NoStreak
    <2>0. ~Thrusting(f.accel)
        BY <1>3 DEF Thrusting
    <2>1. detector' = IF detector.fall >= FreeFallConfirm THEN Confirms(detector) ELSE detector
        BY <1>3 DEF InThrust, Thrusting
    <2>2. CASE ~(detector.fall >= FreeFallConfirm)
      <3>1. detector' = detector
          BY <2>1, <2>2
      <3>2. detector.fall \in Ages
          BY <1>0, <1>3 DEF Detectors
      <3>3. detector'.fall < FreeFallConfirm /\ detector'.fall # NoStreak
          BY <1>3, <2>2, <3>1, <3>2, ThrowDetectorAssumption
      <3>4. SignalInv'
          BY <1>3, <2>0, <3>1, <3>3, ThrustGoesOn
      <3> QED
          BY <3>1, <3>4
    <2>3. CASE detector.fall >= FreeFallConfirm /\ ~Signature(detector)
      <3>1. detector' = Resting
          BY <2>1, <2>3 DEF Confirms
      <3>2. SignalInv'
          BY <1>3, <2>0, <2>3, <3>1, ThrustGivesUp
      <3> QED
          BY <3>1, <3>2, RestingType
    <2>4. CASE detector.fall >= FreeFallConfirm /\ Signature(detector)
      <3>1. detector'.state = "BALLISTIC"
          BY <2>1, <2>4, RestingType DEF Confirms, Detectors
      <3>2. Thrown'
          BY <1>3, <2>4, ConfirmedIsThrown
      <3> QED
          BY <1>0, <3>1, <3>2 DEF SignalInv, IdleIsFresh, GestureIsSeen, ConfirmIsPrompt, CleanIsFollowed
    <2> QED
        BY <2>2, <2>3, <2>4
  <1>4. CASE f.accel \in {"float", "rest"}
    <2>0. ~Thrusting(f.accel) /\ f.accel # "fall"
        BY <1>4 DEF Thrusting
    <2>1. detector' = IF detector.since >= ReleaseTimeout THEN Resting
                      ELSE [detector EXCEPT !.fall = NoStreak, !.rise = 0]
        BY <1>4 DEF InThrust, Thrusting
    <2>2. CASE detector.since >= ReleaseTimeout
      <3>1. detector' = Resting
          BY <2>1, <2>2
      <3>2. SignalInv'
          BY <2>0, <3>1, ThrustGivesUp
      <3> QED
          BY <3>1, <3>2, RestingType
    <2>3. CASE ~(detector.since >= ReleaseTimeout)
      <3>1. /\ detector'.state = "THRUST" /\ detector'.thrust = detector.thrust
            /\ detector'.since = detector.since /\ detector'.fall = NoStreak
          BY <1>0, <2>1, <2>3 DEF Detectors
      <3>2. detector'.fall < FreeFallConfirm
          BY <3>1, ThrowDetectorAssumption
      <3>3. detector.since < ReleaseTimeout
        <4>1. detector.since \in Ages
            BY <1>0 DEF Detectors
        <4> QED
            BY <2>3, <4>1, ThrowDetectorAssumption
      <3>4. SignalInv'
          BY <2>0, <3>1, <3>2, <3>3, ThrustGoesOn
      <3> QED
          BY <3>1, <3>4
    <2> QED
        BY <2>2, <2>3
  <1> QED
      BY <1>0, <1>1, <1>2, <1>3, <1>4 DEF Accels, Port!Accels, Thrusting

\* A frame seen keeps the invariant, and a throw it confirms is in the signal.
LEMMA UpdateKeepsSignal ==
    ASSUME SignalInv, DetectorInv, NEW a \in Accels, NEW rise \in Rises, Update(a, rise)
    PROVE  /\ SignalInv'
           /\ detector.state # "BALLISTIC" /\ detector'.state = "BALLISTIC" => Thrown'
  <1>0. /\ SignalTypeOK /\ now \in Nat /\ detector \in Detectors
        /\ detector' = Updated(detector, a, rise) /\ pending' = FALSE
      BY DEF SignalInv, SignalTypeOK, Update
  <1>1. /\ detector' \in Detectors
        /\ detector.state = "BALLISTIC" => detector'.state = "BALLISTIC" \/ detector' = Resting
    <2>1. detector' \in Detectors
        BY <1>0, UpdatedStep DEF DetectorInv
    <2>2. detector.state = "BALLISTIC" => detector'.state = "BALLISTIC" \/ detector' = Resting
        BY <1>0 DEF Updated, InBallistic, Detectors
    <2> QED
        BY <2>1, <2>2
  <1>2. CASE detector.state = "BALLISTIC"
    <2>1. signal' = <<>> /\ now' = 0
        BY <1>2 DEF Update
    <2>2. now' \in Nat /\ pending' \in BOOLEAN
        BY <1>0, <2>1
    <2> QED
        BY <1>1, <1>2, <2>1, <2>2, NoSignal
  <1>3. CASE detector.state # "BALLISTIC"
    <2>1. PICK f \in Frames : f = [accel |-> a, rise |-> rise, at |-> now]
        BY <1>0 DEF Frames
    <2>2. f.accel = a /\ f.rise = rise /\ f.at = now
        BY <2>1
    <2>3. signal' = Append(signal, f) /\ now' = now
        BY <1>3, <2>1 DEF Update
    <2>4. Sees(f, Len(signal))
        BY <1>0, <2>2, <2>3 DEF Sees
    <2>5. CASE detector.state = "IDLE"
      <3>1. detector' = IF Thrusting(a) THEN Started(detector) ELSE detector
          BY <1>0, <2>5 DEF Updated
      <3>2. SignalInv'
          BY <1>1, <2>2, <2>4, <2>5, <3>1, IdleSees
      <3>3. detector'.state # "BALLISTIC"
          BY <1>0, <2>5, <3>1 DEF Started, Detectors
      <3> QED
          BY <3>2, <3>3
    <2>6. CASE detector.state = "THRUST"
      <3>1. detector' = InThrust(detector, f.accel, f.rise)
          BY <1>0, <2>2, <2>6 DEF Updated
      <3> QED
          BY <1>1, <2>4, <2>6, <3>1, ThrustSees
    <2> QED
        BY <1>0, <1>3, <2>5, <2>6 DEF Detectors
  <1> QED
      BY <1>2, <1>3

\* Every step keeps the invariant and invents no throw.
LEMMA StepKeepsSignal ==
    ASSUME SignalInv, DetectorInv, [Next]_vars
    PROVE  /\ SignalInv'
           /\ detector.state # "BALLISTIC" /\ detector'.state = "BALLISTIC" => Thrown'
  <1>1. ASSUME NEW dt \in 1 .. MaxGap, Tick(dt)
        PROVE  SignalInv' /\ detector'.state = detector.state
    <2>1. detector' = Aged(detector, dt) /\ dt \in Nat
        BY <1>1, ThrowDetectorAssumption DEF Tick
    <2>2. detector'.state = detector.state
        BY <2>1, AgedStep DEF DetectorInv
    <2> QED
        BY <1>1, <2>2, TickKeepsSignal
  <1>2. CASE Reset
    <2>1. signal' = <<>> /\ now' = 0 /\ detector' = Resting /\ pending' = pending
        BY <1>2 DEF Reset
    <2>2. now' \in Nat /\ pending' \in BOOLEAN /\ detector' \in Detectors
        BY <2>1, RestingType DEF SignalInv, SignalTypeOK
    <2> QED
        BY <2>1, <2>2, NoSignal, RestingType
  <1>3. CASE UNCHANGED vars
    <2>1. detector' = detector /\ signal' = signal /\ now' = now /\ pending' = pending
        BY <1>3 DEF vars
    <2>2. SignalTypeOK' /\ IdleIsFresh' /\ ConfirmIsPrompt' /\ detector' \in Detectors
        BY <2>1 DEF SignalInv, SignalTypeOK, IdleIsFresh, ConfirmIsPrompt
    <2>3. GestureIsSeen'
      <3>1. \A i, j : (Gesture(i, j)' <=> Gesture(i, j)) /\ (Unrelaxed(i, j)' <=> Unrelaxed(i, j))
          BY <2>1, ZenonT(30) DEF Gesture, Unrelaxed, ThrustFrame, FallFrame, QuietFrame, Span
      <3>2. \A k : Falling(k)' <=> Falling(k)
          BY <2>1, ZenonT(30) DEF Falling, FallFrame
      <3> QED
          BY <2>1, <3>1, <3>2, ZenonT(30) DEF SignalInv, GestureIsSeen
    <2>4. CleanIsFollowed'
      <3>1. \A i, j : CleanSoFar(i, j)' <=> CleanSoFar(i, j)
          BY <2>1, ZenonT(30) DEF CleanSoFar, ThrustFrame, FallFrame
      <3>2. \A i, j : Followed(i, j)' <=> Followed(i, j)
          BY <2>1, ZenonT(30) DEF Followed, Gesture, Falling, ThrustFrame, FallFrame, Span
      <3>3. \A i, j : Refused(i, j)' <=> Refused(i, j)
          BY <2>1, ZenonT(30) DEF Refused, Span
      <3> QED
          BY <2>1, <3>1, <3>2, <3>3, ZenonT(30) DEF SignalInv, CleanIsFollowed
    <2>5. SignalInv'
        BY <2>2, <2>3, <2>4 DEF SignalInv
    <2> QED
        BY <2>1, <2>5
  <1>4. "fall" \in Accels /\ 0 \in Rises
      BY ThrowDetectorAssumption DEF Accels, Port!Accels
  <1> QED
      BY <1>1, <1>2, <1>3, <1>4, UpdateKeepsSignal DEF Next

\* For every threshold and every stream of frames, the thrust, the pause, the
\* free fall and the climb the detector keeps are those of frames of the signal.
THEOREM DetectorSignal == Spec => []SignalInv
  <1>1. SignalInv /\ DetectorInv /\ [Next]_vars => SignalInv'
      BY StepKeepsSignal
  <1> QED
      BY <1>1, StartIsSignal, DetectorStays, PTL DEF Spec

\* A throw is never invented: whenever update() enters BALLISTIC, the signal
\* holds the whole signature.
THEOREM DetectorThrowIsReal == Spec => ThrowIsReal
  <1>1. SignalInv /\ DetectorInv /\ [Next]_vars
           => [detector.state # "BALLISTIC" /\ detector'.state = "BALLISTIC" => Thrown']_vars
      BY StepKeepsSignal
  <1> QED
      BY <1>1, DetectorSignal, DetectorStays, PTL DEF Spec, ThrowIsReal

\* After the confirming frame of a clean throw the detector that followed it
\* can neither still be in THRUST nor have refused it.
LEMMA CleanIsCaught == SignalInv => ThrowIsCaught
  <1> SUFFICES ASSUME SignalInv, ~pending, CleanlyThrown, detector.state # "BALLISTIC" PROVE FALSE
      BY DEF ThrowIsCaught
  <1>0. PICK n \in Nat : n = Len(signal)
      BY DEF SignalInv, SignalTypeOK
  <1>1. PICK i \in 1 .. n, j \in 1 .. n :
           /\ j < n /\ ThrustThenFall(i, j, j + 1)
           /\ \A q \in 1 .. i - 1 : ~ThrustFrame(q)
           /\ \A q \in i .. j : ThrustFrame(q)
      BY <1>0 DEF CleanlyThrown
  <1>2. /\ i <= j /\ Span(i, j) >= ThrustMin /\ signal[j + 1].rise > 0
        /\ \A q \in j + 1 .. n : FallFrame(q)
        /\ Span(j + 1, n) >= FreeFallConfirm
      BY <1>0, <1>1 DEF ThrustThenFall
  <1>3. CleanSoFar(i, j) /\ j \in i .. n
      BY <1>0, <1>1, <1>2 DEF CleanSoFar
  <1>4. j + 1 \in 1 .. n /\ n \in 1 .. n
      BY <1>0, <1>1
  <1>5. /\ SignalTypeOK /\ signal[i].at \in Nat /\ signal[j].at \in Nat /\ signal[j + 1].at \in Nat
        /\ now - signal[j + 1].at \in Nat /\ signal[j + 1].rise \in Rises
      BY <1>0, <1>1, <1>4, SignalFacts DEF SignalInv
  <1>6. ~Refused(i, j)
    <2>1. signal[j + 1].rise # 0
      <3>1. \A t \in Nat : t > 0 => t # 0
          OBVIOUS
      <3>2. Rises \subseteq Nat
          BY ThrowDetectorAssumption
      <3> QED
          BY <1>2, <1>5, <3>1, <3>2, Zenon
    <2>2. Span(i, j) \in Int /\ ThrustMin \in Int
        BY <1>5, ThrowDetectorAssumption DEF Span
    <2>3. ~(Span(i, j) < ThrustMin)
        BY <1>2, <2>2
    <2> QED
        BY <2>1, <2>3 DEF Refused
  <1>7. detector.state = "THRUST" /\ Falling(j + 1)
    <2>1. Followed(i, j)
        BY <1>0, <1>1, <1>3, <1>6 DEF SignalInv, CleanIsFollowed
    <2> QED
        BY <1>0, <1>1, <2>1 DEF Followed
  <1>8. detector.fall < FreeFallConfirm
      BY <1>7 DEF SignalInv, ConfirmIsPrompt
  <1>9. now - signal[j + 1].at >= FreeFallConfirm
    <2>1. signal # <<>>
        BY <1>0, <1>4
    <2>2. signal[n].at = now
        BY <1>0, <1>5, <2>1 DEF SignalTypeOK
    <2> QED
        BY <1>2, <2>2 DEF Span
  <1>10. Sat(now - signal[j + 1].at) >= FreeFallConfirm
    <2>1. FreeFallConfirm \in 0 .. AgeMax
        BY ThrowDetectorAssumption
    <2> QED
        BY <1>5, <1>9, <2>1, SatFacts
  <1>11. detector.fall = Sat(now - signal[j + 1].at) /\ Sat(now - signal[j + 1].at) \in Ages
      BY <1>5, <1>7, SatFacts DEF Falling
  <1>12. PICK t \in Ages : t = detector.fall
      BY <1>11
  <1>13. t >= FreeFallConfirm /\ t < FreeFallConfirm
      BY <1>8, <1>10, <1>11, <1>12
  <1> QED
      BY <1>12, <1>13, ThrowDetectorAssumption

\* A clean throw is never missed: update() has it in BALLISTIC by the frame
\* that confirms its free fall.
THEOREM DetectorThrowIsCaught == Spec => []ThrowIsCaught
  <1> QED
      BY DetectorSignal, CleanIsCaught, PTL
=============================================================================
