--------------------------- MODULE Platform_proof ---------------------------
(***************************************************************************)
(* Proofs about the programs and drivers at the edges of the stack: the    *)
(* sensor source of the flight board, the relay's own update, the          *)
(* simulated drone, the I2C master and the serial line, each on its own    *)
(* specification.                                                          *)
(***************************************************************************)
EXTENDS SimDrone, BridgeStore, SensorSource, I2cBus, SerialLine, SequenceTheorems, TLAPS

-----------------------------------------------------------------------------
(* The sensor source.                                                      *)

LEMMA SourceStart == SourceInit => SourceInv
  <1> SUFFICES ASSUME SourceInit PROVE SourceInv
      OBVIOUS
  <1>1. SourceTypeOK
    <2>1. 0 \in 0 .. TicksPerRead - 1 /\ 0 \in 0 .. consumed /\ 0 \in 0 .. gTicks
        BY FreshCovers DEF SourceInit
    <2>2. baro \in [ready : BOOLEAN, ticks : 0 .. TicksPerRead - 1, solution : 0 .. consumed]
        BY <2>1 DEF SourceInit, Zero
    <2>3. frame \in [stamp : Nat, imuValid : BOOLEAN, sample : Nat,
                     baroValid : BOOLEAN, pressure : Nat]
        BY DEF SourceInit, EmptyFrame, Zero
    <2> QED
        BY <2>1, <2>2, <2>3 DEF SourceInit, SourceTypeOK
  <1>2. StampIsTaken /\ HealthDatesSolution /\ SolutionAges /\ FrameIsOfNow
      BY DEF SourceInit, StampIsTaken, HealthDatesSolution, SolutionAges, FrameIsOfNow, Zero
  <1> QED
      BY <1>1, <1>2 DEF SourceInv

(* A step of the bring-up or of the wait for a tick touches no reading.    *)
LEMMA SourceQuiet ==
    ASSUME SourceInv, UNCHANGED <<baro, health, frame, spoilt, consumed>>,
           gTicks' \in Nat, gTicks <= gTicks',
           at' \in {"imu_probe", "imu_configure", "baro_probe", "baro_configure", "dead",
                    "test", "wfi"} \/ at' = at,
           (at \in {"test", "wfi", "emit", "step"} /\ at' \in {"test", "wfi"}) \/ at' = at \/ ~Started
    PROVE  SourceInv'
  <1>1. SourceTypeOK'
      BY FreshCovers DEF SourceInv, SourceTypeOK
  <1>2. StampIsTaken'
      BY DEF SourceInv, StampIsTaken
  <1>3. HealthDatesSolution'
      BY DEF SourceInv, HealthDatesSolution, Started
  <1>4. SolutionAges'
      BY DEF SourceInv, SolutionAges, HealthDatesSolution, Started
  <1>5. FrameIsOfNow'
      BY DEF SourceInv, FrameIsOfNow
  <1> QED
      BY <1>1, <1>2, <1>3, <1>4, <1>5 DEF SourceInv

LEMMA SourceTakesTick == SourceInv /\ TakeTick => SourceInv'
  <1> SUFFICES ASSUME SourceInv, TakeTick PROVE SourceInv'
      OBVIOUS
  <1>1. /\ at = "test" /\ at' = "imu" /\ consumed' = gTicks /\ gTicks # consumed
        /\ UNCHANGED <<gTicks, baro, health>>
        /\ spoilt' = (spoilt \/ gTicks > consumed + 1)
        /\ frame' = [EmptyFrame EXCEPT !.stamp = gTicks]
      BY DEF TakeTick
  <1>2. /\ gTicks \in Nat /\ consumed \in Nat /\ consumed < gTicks /\ spoilt \in BOOLEAN
        /\ baro.solution \in Nat /\ baro.ticks \in Nat
      BY <1>1, FreshCovers DEF SourceInv, SourceTypeOK
  <1>3. SourceTypeOK'
    <2>1. frame' \in [stamp : Nat, imuValid : BOOLEAN, sample : Nat,
                      baroValid : BOOLEAN, pressure : Nat]
        BY <1>1, <1>2 DEF EmptyFrame, Zero
    <2>2. spoilt' \in BOOLEAN
        BY <1>1
    <2>3. baro' \in [ready : BOOLEAN, ticks : 0 .. TicksPerRead - 1, solution : 0 .. consumed']
        BY <1>1, <1>2 DEF SourceInv, SourceTypeOK
    <2> QED
        BY <1>1, <1>2, <2>1, <2>2, <2>3 DEF SourceInv, SourceTypeOK
  <1>4. StampIsTaken'
      BY <1>1, <1>2 DEF StampIsTaken, EmptyFrame
  <1>5. HealthDatesSolution'
      BY <1>1 DEF SourceInv, HealthDatesSolution, Started
  <1>6. SolutionAges'
    <2> SUFFICES ASSUME baro'.solution # Zero, ~spoilt'
                 PROVE  consumed' - baro'.solution = baro'.ticks + 1
        BY <1>1 DEF SolutionAges
    <2>0. ~spoilt /\ ~(gTicks > consumed + 1)
        BY <1>1, Zenon
    <2>1. ~spoilt /\ gTicks = consumed + 1
        BY <1>2, <2>0
    <2>2. consumed - baro.solution = baro.ticks
        BY <1>1, <1>2, <2>1 DEF SourceInv, SolutionAges
    <2> QED
        BY <1>1, <1>2, <2>1, <2>2
  <1>7. FrameIsOfNow'
      BY <1>1 DEF FrameIsOfNow
  <1> QED
      BY <1>3, <1>4, <1>5, <1>6, <1>7 DEF SourceInv

LEMMA SourceReadsSample == SourceInv /\ ReadSample => SourceInv'
  <1> SUFFICES ASSUME SourceInv, ReadSample PROVE SourceInv'
      OBVIOUS
  <1>1. PICK ok \in BOOLEAN :
          frame' = [frame EXCEPT !.imuValid = ok, !.sample = IF ok THEN frame.stamp ELSE Zero]
      BY DEF ReadSample
  <1>2. /\ at = "imu" /\ at' = "baro"
        /\ UNCHANGED <<gTicks, consumed, baro, health, spoilt>>
      BY DEF ReadSample, Loop, Drivers
  <1>3. SourceTypeOK'
      BY <1>1, <1>2 DEF SourceInv, SourceTypeOK, Zero
  <1>4. StampIsTaken'
      BY <1>1, <1>2 DEF SourceInv, SourceTypeOK, StampIsTaken
  <1>5. HealthDatesSolution'
      BY <1>2 DEF SourceInv, HealthDatesSolution, Started
  <1>6. SolutionAges'
      BY <1>2 DEF SourceInv, SolutionAges
  <1>7. FrameIsOfNow'
      BY <1>2 DEF FrameIsOfNow
  <1> QED
      BY <1>3, <1>4, <1>5, <1>6, <1>7 DEF SourceInv

LEMMA SourceUpdatesBaro == SourceInv /\ UpdateBaro => SourceInv'
  <1> SUFFICES ASSUME SourceInv, UpdateBaro PROVE SourceInv'
      OBVIOUS
  <1>1. /\ at = "baro" /\ at' = "emit"
        /\ UNCHANGED <<gTicks, consumed, frame>>
      BY DEF UpdateBaro, Loop
  <1>2. /\ consumed \in Nat /\ consumed > 0 /\ frame.stamp = consumed
        /\ baro.ticks \in Nat /\ baro.solution \in Nat /\ baro.solution <= consumed
        /\ baro.ready \in BOOLEAN /\ baro.ticks < TicksPerRead
      BY <1>1, FreshCovers DEF SourceInv, SourceTypeOK, StampIsTaken
  <1>3. StampIsTaken' /\ FrameIsOfNow'
      BY <1>1 DEF SourceInv, StampIsTaken, FrameIsOfNow
  <1>4. CASE ~baro.ready /\ Drivers
    <2>1. UNCHANGED <<baro, health, spoilt>>
        BY <1>4 DEF Drivers
    <2>2. SourceTypeOK'
        BY <1>1, <2>1 DEF SourceInv, SourceTypeOK
    <2>3. HealthDatesSolution' /\ SolutionAges'
        BY <1>1, <1>4, <2>1 DEF SourceInv, HealthDatesSolution, SolutionAges, Started
    <2> QED
        BY <1>3, <2>2, <2>3 DEF SourceInv
  <1>5. CASE /\ baro.ready /\ baro.ticks + 1 < TicksPerRead
             /\ baro' = [baro EXCEPT !.ticks = @ + 1]
             /\ UNCHANGED <<health, spoilt>>
    <2>1. /\ baro'.ticks = baro.ticks + 1 /\ baro'.solution = baro.solution
          /\ baro'.ready = baro.ready
        BY <1>5 DEF SourceInv, SourceTypeOK
    <2>2. SourceTypeOK'
        BY <1>1, <1>2, <1>5, FreshCovers DEF SourceInv, SourceTypeOK
    <2>3. HealthDatesSolution'
        BY <1>1, <1>5, <2>1 DEF SourceInv, HealthDatesSolution, Started
    <2>4. SolutionAges'
        BY <1>1, <1>2, <1>5, <2>1 DEF SourceInv, SolutionAges
    <2> QED
        BY <1>3, <2>2, <2>3, <2>4 DEF SourceInv
  <1>6. CASE /\ baro.ready /\ baro.ticks + 1 = TicksPerRead
             /\ \E reading \in Readings : ReadBaro(reading)
    <2>1. PICK reading \in Readings : ReadBaro(reading)
        BY <1>6
    <2>2. /\ baro'.ticks = 0 /\ baro'.ready = baro.ready
          /\ baro'.solution = IF reading = "pressure" THEN frame.stamp ELSE baro.solution
          /\ baro' \in [ready : BOOLEAN, ticks : 0 .. TicksPerRead - 1, solution : 0 .. consumed]
      <3>1. PICK found : found = IF reading = "pressure" THEN frame.stamp ELSE baro.solution
          OBVIOUS
      <3>2. found \in 0 .. consumed /\ 0 \in 0 .. TicksPerRead - 1
          BY <1>2, <3>1, FreshCovers
      <3>3. baro' = [baro EXCEPT !.ticks = 0, !.solution = found]
          BY <2>1, <3>1 DEF ReadBaro
      <3>4. baro \in [ready : BOOLEAN, ticks : 0 .. TicksPerRead - 1, solution : 0 .. consumed]
          BY DEF SourceInv, SourceTypeOK
      <3> QED
          BY <3>1, <3>2, <3>3, <3>4
    <2>3. /\ health' = IF reading = "pressure" THEN [everOk |-> TRUE, lastOk |-> frame.stamp]
                       ELSE health
          /\ spoilt' = (reading # "pressure")
        BY <2>1 DEF ReadBaro, Note
    <2>4. SourceTypeOK'
        BY <1>1, <1>2, <2>2, <2>3 DEF SourceInv, SourceTypeOK
    <2>5. HealthDatesSolution'
        BY <1>1, <1>2, <1>6, <2>2, <2>3 DEF SourceInv, HealthDatesSolution, Started, Zero
    <2>6. SolutionAges'
      <3> SUFFICES ASSUME ~spoilt' PROVE consumed' - baro'.solution = baro'.ticks + 0
          BY <1>1, Zenon DEF SolutionAges
      <3>1. reading = "pressure"
          BY <2>3, Zenon
      <3> QED
          BY <1>1, <1>2, <2>2, <3>1
    <2> QED
        BY <1>3, <2>4, <2>5, <2>6 DEF SourceInv
  <1> QED
      BY <1>4, <1>5, <1>6 DEF UpdateBaro

LEMMA SourceEmits == SourceInv /\ Emit => SourceInv'
  <1> SUFFICES ASSUME SourceInv, Emit PROVE SourceInv'
      OBVIOUS
  <1>1. /\ at = "emit" /\ at' = "step"
        /\ UNCHANGED <<gTicks, consumed, baro, health, spoilt>>
        /\ frame' = [frame EXCEPT !.baroValid = Fresh,
                                  !.pressure = IF Fresh THEN baro.solution ELSE Zero]
      BY DEF Emit, Loop, Drivers
  <1>2. PICK fresh \in BOOLEAN : fresh <=> Fresh
      OBVIOUS
  <1>3. frame' = [frame EXCEPT !.baroValid = fresh,
                               !.pressure = IF fresh THEN baro.solution ELSE Zero]
      BY <1>1, <1>2 DEF Fresh, SourceInv, SourceTypeOK
  <1>4. /\ consumed \in Nat /\ consumed > 0 /\ frame.stamp = consumed /\ baro.solution \in Nat
        /\ baro.solution <= consumed /\ baro.ticks \in Nat /\ baro.ticks < TicksPerRead
        /\ frame.imuValid \in BOOLEAN
      BY <1>1, FreshCovers DEF SourceInv, SourceTypeOK, StampIsTaken
  <1>5. /\ frame'.stamp = frame.stamp /\ frame'.imuValid = frame.imuValid
        /\ frame'.sample = frame.sample /\ frame'.baroValid = fresh
        /\ frame'.pressure = IF fresh THEN baro.solution ELSE Zero
        /\ frame' \in [stamp : Nat, imuValid : BOOLEAN, sample : Nat,
                       baroValid : BOOLEAN, pressure : Nat]
      BY <1>3, <1>4 DEF SourceInv, SourceTypeOK, Zero
  <1>6. SourceTypeOK'
      BY <1>1, <1>5 DEF SourceInv, SourceTypeOK
  <1>7. StampIsTaken'
      BY <1>1, <1>5 DEF SourceInv, StampIsTaken
  <1>8. HealthDatesSolution' /\ SolutionAges'
      BY <1>1 DEF SourceInv, HealthDatesSolution, SolutionAges, Started
  <1>9. fresh => /\ baro.ready /\ baro.solution # Zero
                 /\ consumed - baro.solution <= FreshAge
      BY <1>2, <1>4 DEF Fresh, SourceInv, HealthDatesSolution
  <1>10. baro.solution # Zero /\ ~spoilt => fresh
    <2> SUFFICES ASSUME baro.solution # Zero, ~spoilt PROVE Fresh
        BY <1>2
    <2>1. consumed - baro.solution = baro.ticks
        BY <1>1, <1>4 DEF SourceInv, SolutionAges
    <2>2. health.everOk /\ health.lastOk = baro.solution
        BY DEF SourceInv, HealthDatesSolution
    <2> QED
        BY <1>4, <2>1, <2>2, FreshCovers DEF Fresh
  <1>11. FrameIsOfNow'
      BY <1>1, <1>4, <1>5, <1>7, <1>9, <1>10 DEF FrameIsOfNow, StampIsTaken
  <1> QED
      BY <1>6, <1>7, <1>8, <1>11 DEF SourceInv

LEMMA SourceStep == SourceInv /\ [SourceNext]_sourceVars => SourceInv'
  <1> SUFFICES ASSUME SourceInv, [SourceNext]_sourceVars PROVE SourceInv'
      OBVIOUS
  <1>1. gTicks \in Nat
      BY DEF SourceInv, SourceTypeOK
  <1>2. CASE ImuProbe
      BY <1>1, <1>2, SourceQuiet DEF ImuProbe, Probe, Drivers, Started
  <1>3. CASE ImuConfigure
      BY <1>1, <1>3, SourceQuiet DEF ImuConfigure, Loop, Drivers, Started
  <1>4. CASE BaroProbe
      BY <1>1, <1>4, SourceQuiet DEF BaroProbe, Drivers, Started
  <1>5. CASE BaroConfigure
    <2>1. PICK configured \in BOOLEAN : baro' = [baro EXCEPT !.ready = configured]
        BY <1>5 DEF BaroConfigure
    <2>2. /\ at = "baro_configure" /\ at' = "test"
          /\ UNCHANGED <<gTicks, consumed, health, frame, spoilt>>
        BY <1>5 DEF BaroConfigure, Loop
    <2>3. /\ ~health.everOk /\ baro.solution = Zero /\ baro'.solution = Zero
        BY <2>1, <2>2 DEF SourceInv, SourceTypeOK, HealthDatesSolution, Started
    <2>4. SourceTypeOK'
        BY <2>1, <2>2 DEF SourceInv, SourceTypeOK
    <2>5. StampIsTaken' /\ HealthDatesSolution' /\ SolutionAges' /\ FrameIsOfNow'
        BY <2>2, <2>3 DEF StampIsTaken, HealthDatesSolution, SolutionAges, FrameIsOfNow
    <2> QED
        BY <2>4, <2>5 DEF SourceInv
  <1>6. CASE TimerInterrupt
      BY <1>1, <1>6, SourceQuiet DEF TimerInterrupt, Drivers, Started
  <1>7. CASE TestTicks \/ TickBeforeSleep \/ Wake
      BY <1>1, <1>7, SourceQuiet DEF TestTicks, TickBeforeSleep, Wake, Loop, Drivers, Started
  <1>8. CASE FrameIsStepped
      BY <1>1, <1>8, SourceQuiet DEF FrameIsStepped, Loop, Drivers, Started
  <1>9. CASE UNCHANGED sourceVars
      BY <1>1, <1>9, SourceQuiet DEF sourceVars
  <1> QED
      BY <1>2, <1>3, <1>4, <1>5, <1>6, <1>7, <1>8, <1>9, SourceTakesTick, SourceReadsSample,
         SourceUpdatesBaro, SourceEmits
      DEF SourceNext

(* Every frame of the flight board's sensor source is of its own tick, for *)
(* any read period and freshness window and however long the transfers     *)
(* hold the loop up: what it flags as valid is fresh, and a working        *)
(* barometer is never reported missing (waitFrame(), bmp581.cpp).          *)
THEOREM SourceFrameIsOfNow == SourceSpec => []FrameIsOfNow
  <1>1. SourceInv => FrameIsOfNow
      BY DEF SourceInv
  <1> QED
      BY <1>1, SourceStart, SourceStep, PTL DEF SourceSpec

-----------------------------------------------------------------------------
(* The relay's update.  First the otadata of the bootloader.               *)

LEMMA InForceType ==
    ASSUME NEW d \in Seq(Entries)
    PROVE  /\ InForce(d) \in {0, 1, 2} /\ InForce(d) <= Len(d)
           /\ InForce(d) # 0 => d[InForce(d)] \in Entries /\ ~Rejected(d[InForce(d)])
           /\ BootPartition(d) \in OtaSlots
  <1>1. Len(d) \in Nat /\ \A i \in 1 .. Len(d) : d[i] \in Entries
      OBVIOUS
  <1>2. /\ InForce(d) \in {0, 1, 2} /\ InForce(d) <= Len(d)
        /\ InForce(d) # 0 => ~Rejected(d[InForce(d)])
      BY <1>1 DEF InForce
  <1>3. InForce(d) # 0 => d[InForce(d)] \in Entries
      BY <1>1, <1>2
  <1> QED
      BY <1>2, <1>3 DEF BootPartition, Entries, OtaSlots

(* Setting the boot partition is what makes a slot boot.                   *)
LEMMA SetBootFacts ==
    ASSUME NEW d \in Seq(Entries), NEW s \in OtaSlots
    PROVE  SetBoot(d, s) \in Seq(Entries) /\ BootPartition(SetBoot(d, s)) = s
  <1>1. PICK e : e = [slot |-> s, state |-> "NEW"]
      OBVIOUS
  <1>2. PICK rest : rest = IF InForce(d) = 0 THEN << >> ELSE <<d[InForce(d)]>>
      OBVIOUS
  <1>3. e \in Entries /\ rest \in Seq(Entries)
    <2>1. e \in Entries
        BY <1>1 DEF Entries
    <2>2. InForce(d) # 0 => d[InForce(d)] \in Entries
        BY InForceType
    <2> QED
        BY <1>2, <2>1, <2>2
  <1>4. PICK b : b = <<e>> \o rest
      OBVIOUS
  <1>5. b \in Seq(Entries) /\ b[1] = e /\ Len(b) > 0
      BY <1>3, <1>4
  <1>6. SetBoot(d, s) = b
      BY <1>1, <1>2, <1>4 DEF SetBoot
  <1>7. ~Rejected(b[1]) /\ b[1].slot = s
      BY <1>1, <1>5 DEF Rejected
  <1> QED
      BY <1>5, <1>6, <1>7 DEF BootPartition, InForce

(* Marking the running image valid boots what booted before.               *)
LEMMA MarkValidFacts ==
    ASSUME NEW d \in Seq(Entries)
    PROVE  MarkValid(d) \in Seq(Entries) /\ BootPartition(MarkValid(d)) = BootPartition(d)
  <1>1. CASE InForce(d) = 0
      BY <1>1 DEF MarkValid
  <1>2. CASE InForce(d) # 0
    <2>1. PICK n : n = InForce(d)
        OBVIOUS
    <2>2. n \in 1 .. Len(d) /\ n \in {1, 2} /\ d[n] \in Entries
        BY <1>2, <2>1, InForceType
    <2>3. PICK e : e = [d[n] EXCEPT !.state = "VALID"]
        OBVIOUS
    <2>4. e \in Entries /\ e.state = "VALID" /\ e.slot = d[n].slot
        BY <2>2, <2>3 DEF Entries
    <2>5. MarkValid(d) = [d EXCEPT ![n] = e]
        BY <1>2, <2>1, <2>3 DEF MarkValid
    <2>6. PICK v : v = MarkValid(d)
        OBVIOUS
    <2>7. /\ v \in Seq(Entries) /\ Len(v) = Len(d) /\ v[n] = e
          /\ \A i \in 1 .. Len(d) : i # n => v[i] = d[i]
        BY <2>2, <2>4, <2>5, <2>6
    <2>8. ~Rejected(v[n])
        BY <2>4, <2>7 DEF Rejected
    <2>9. InForce(v) = n
      <3>1. CASE n = 1
          BY <2>2, <2>7, <2>8, <3>1 DEF InForce
      <3>2. CASE n = 2
        <4>1. Rejected(d[1]) /\ Len(d) > 1
            BY <2>1, <2>2, <3>2 DEF InForce
        <4>2. v[1] = d[1]
            BY <2>7, <3>2, <4>1
        <4> QED
            BY <2>7, <2>8, <3>2, <4>1, <4>2 DEF InForce
      <3> QED
          BY <2>2, <3>1, <3>2
    <2> QED
        BY <1>2, <2>1, <2>2, <2>4, <2>6, <2>7, <2>9 DEF BootPartition
  <1> QED
      BY <1>1, <1>2

(* The bootloader keeps entries of two slots and starts one of them.       *)
LEMMA BootFacts ==
    ASSUME NEW d \in Seq(Entries)
    PROVE  Boot(d).data \in Seq(Entries) /\ Boot(d).slot \in OtaSlots
  <1> DEFINE aged == [i \in 1 .. Len(d) |->
                     IF d[i].state = "PENDING" THEN [d[i] EXCEPT !.state = "ABORTED"] ELSE d[i]]
  <1>1. Len(d) \in Nat /\ \A i \in 1 .. Len(d) : d[i] \in Entries
      OBVIOUS
  <1>2. \A i \in 1 .. Len(d) : aged[i] \in Entries
      BY <1>1 DEF Entries
  <1>3. aged \in Seq(Entries)
      BY <1>1, <1>2
  <1>4. PICK a \in Seq(Entries) : a = aged
      BY <1>3
  <1>5. PICK otalog : otalog = IF InForce(a) > 0 /\ a[InForce(a)].state = "NEW"
                             THEN [a EXCEPT ![InForce(a)].state = "PENDING"] ELSE a
      OBVIOUS
  <1>6. otalog \in Seq(Entries)
    <2>1. CASE InForce(a) > 0 /\ a[InForce(a)].state = "NEW"
      <3>1. PICK n : n = InForce(a)
          OBVIOUS
      <3>2. n \in 1 .. Len(a) /\ a[n] \in Entries
          BY <2>1, <3>1, InForceType
      <3>3. PICK e : e = [a[n] EXCEPT !.state = "PENDING"]
          OBVIOUS
      <3>4. e \in Entries
          BY <3>2, <3>3 DEF Entries
      <3>5. otalog = [a EXCEPT ![n] = e]
          BY <1>5, <2>1, <3>1, <3>3
      <3> QED
          BY <3>2, <3>4, <3>5
    <2> QED
        BY <1>5, <2>1
  <1>7. PICK s \in OtaSlots : s = BootPartition(a)
      BY InForceType
  <1>8. Boot(d) = [data |-> otalog, slot |-> IF Whole(s) THEN s ELSE Opposite(s)]
    <2> HIDE DEF aged
    <2>1. Boot(d) = [data |-> IF InForce(aged) > 0 /\ aged[InForce(aged)].state = "NEW"
                              THEN [aged EXCEPT ![InForce(aged)].state = "PENDING"] ELSE aged,
                     slot |-> IF Whole(BootPartition(aged)) THEN BootPartition(aged)
                              ELSE Opposite(BootPartition(aged))]
        BY DEF Boot, aged
    <2> QED
        BY <1>4, <1>5, <1>7, <2>1
  <1> QED
      BY <1>6, <1>7, <1>8 DEF Opposite, OtaSlots

(* What writeMeta() does to the boot: nothing, or it hands it to a whole   *)
(* slot, the one staged, the running one or the one asked for.             *)
LEMMA WriteMetaFacts ==
    ASSUME BridgeTypeOK, runs \in OtaSlots, NEW m, m.active \in OtaSlots,
           NEW otalog, otalog = WriteMeta(m).data
    PROVE  /\ otalog \in Seq(Entries)
           /\ \/ BootPartition(otalog) = BootPartition(otadata)
              \/ Whole(BootPartition(otalog)) /\ BootPartition(otalog) \in {Target, runs, m.active}
           /\ WriteMeta(m).done \in BOOLEAN
           /\ /\ m.state[Target] = "STAGED" => ReadMeta.state[Target] = "STAGED"
              /\ BootPartition(otalog) # BootPartition(otadata)
              => BootPartition(otalog) \in {runs, m.active}
           /\ /\ m.state[Target] = "EMPTY" /\ m.active = BootPartition(otadata)
              /\ WriteMeta(m).done
              => BootPartition(otalog) = runs
  <1>1. otadata \in Seq(Entries) /\ Target \in OtaSlots /\ Target # runs
      BY DEF BridgeTypeOK, Target, Opposite, OtaSlots
  <1>2. PICK cur : cur = ReadMeta
      OBVIOUS
  <1>3. cur.active = BootPartition(otadata)
      BY <1>2 DEF ReadMeta
  <1>4. BootPartition(otadata) \in OtaSlots
      BY <1>1, InForceType
  <1>5. PICK d : d = IF cur.state[runs] = "TESTING" /\ m.state[runs] = "VALID"
                     THEN MarkValid(otadata) ELSE otadata
      OBVIOUS
  <1>6. d \in Seq(Entries) /\ BootPartition(d) = BootPartition(otadata)
      BY <1>1, <1>5, MarkValidFacts
  <1>7. WriteMeta(m) =
          IF cur.state[Target] # "STAGED" /\ m.state[Target] = "STAGED" THEN Boots(d, Target)
          ELSE IF m.state[Target] = "EMPTY" /\ cur.active = Target /\ m.active = Target
               THEN Boots(d, runs)
          ELSE IF m.active # cur.active THEN Boots(d, m.active)
          ELSE [done |-> TRUE, data |-> d]
      BY <1>2, <1>5 DEF WriteMeta
  <1>8. \A s \in OtaSlots :
           /\ Boots(d, s).done \in BOOLEAN /\ (Boots(d, s).done <=> Whole(s))
           /\ Boots(d, s).data \in Seq(Entries)
           /\ Boots(d, s).done => BootPartition(Boots(d, s).data) = s
           /\ ~Boots(d, s).done => Boots(d, s).data = d
    <2> TAKE s \in OtaSlots
    <2>1. CASE Whole(s)
        BY <1>6, <2>1, SetBootFacts DEF Boots
    <2>2. CASE ~Whole(s)
        BY <1>6, <2>2 DEF Boots
    <2> QED
        BY <2>1, <2>2
  <1>9. CASE cur.state[Target] # "STAGED" /\ m.state[Target] = "STAGED"
      BY <1>1, <1>2, <1>6, <1>7, <1>8, <1>9
  <1>10. CASE /\ ~(cur.state[Target] # "STAGED" /\ m.state[Target] = "STAGED")
              /\ m.state[Target] = "EMPTY" /\ cur.active = Target /\ m.active = Target
      BY <1>1, <1>3, <1>6, <1>7, <1>8, <1>10
  <1>11. CASE /\ ~(cur.state[Target] # "STAGED" /\ m.state[Target] = "STAGED")
              /\ ~(m.state[Target] = "EMPTY" /\ cur.active = Target /\ m.active = Target)
              /\ m.active # cur.active
      BY <1>1, <1>3, <1>6, <1>7, <1>8, <1>11
  <1>12. CASE /\ ~(cur.state[Target] # "STAGED" /\ m.state[Target] = "STAGED")
              /\ ~(m.state[Target] = "EMPTY" /\ cur.active = Target /\ m.active = Target)
              /\ m.active = cur.active
    <2>1. WriteMeta(m) = [done |-> TRUE, data |-> d]
        BY <1>7, <1>12
    <2>2. m.state[Target] = "EMPTY" => BootPartition(otadata) = runs
        BY <1>1, <1>3, <1>4, <1>12 DEF OtaSlots
    <2> QED
        BY <1>3, <1>6, <1>12, <2>1, <2>2
  <1> QED
      BY <1>9, <1>10, <1>11, <1>12

LEMMA BridgeStart == BridgeInit => BridgeInv
  <1> SUFFICES ASSUME BridgeInit PROVE BridgeInv
      OBVIOUS
  <1>1. First \in Firmware /\ First \in Genuine
      BY BridgeAssumption
  <1>2. BridgeTypeOK
      BY <1>1 DEF BridgeInit, BridgeTypeOK, NoUpload, Blank, OtaSlots
  <1>3. RunsWhole
      BY <1>1 DEF BridgeInit, RunsWhole, Whole, OtaSlots
  <1>4. UploadIsRewriting /\ RewrittenDoesNotBoot /\ BootIsWhole
      BY DEF BridgeInit, UploadIsRewriting, RewrittenDoesNotBoot, Rewriting, BootIsWhole, NoUpload
  <1> QED
      BY <1>2, <1>3, <1>4 DEF BridgeInv

(* With no session there is nothing to keep but the image that runs.       *)
LEMMA BridgeCloses ==
    ASSUME BridgeTypeOK', RunsWhole', ~upload'.open, ~upload'.erasing
    PROVE  BridgeInv'
  BY DEF BridgeInv, UploadIsRewriting, RewrittenDoesNotBoot, Rewriting, BootIsWhole

LEMMA BridgeRecords ==
    ASSUME BridgeInv, Serves, NEW m, m.active \in OtaSlots, otadata' = WriteMeta(m).data,
           UNCHANGED <<flash, runs, upload>>,
           m.state[Target] = "STAGED" => ReadMeta.state[Target] = "STAGED",
           m.active = Target => ~Rewriting \/ ~Whole(Target)
    PROVE  BridgeInv'
  <1>1. BridgeTypeOK /\ runs \in OtaSlots /\ Target # runs
      BY DEF BridgeInv, Serves, Target, Opposite, OtaSlots
  <1>2. /\ otadata' \in Seq(Entries)
        /\ \/ BootPartition(otadata') = BootPartition(otadata)
           \/ /\ Whole(BootPartition(otadata'))
              /\ BootPartition(otadata') \in {Target, runs, m.active}
        /\ BootPartition(otadata') # BootPartition(otadata) =>
              BootPartition(otadata') \in {runs, m.active}
      BY <1>1, WriteMetaFacts
  <1>3. BridgeTypeOK'
      BY <1>1, <1>2 DEF BridgeTypeOK
  <1>4. RunsWhole' /\ UploadIsRewriting'
      BY DEF BridgeInv, RunsWhole, UploadIsRewriting, Whole, Target
  <1>5. RewrittenDoesNotBoot'
    <2> SUFFICES ASSUME Rewriting' PROVE BootPartition(otadata') = runs
        BY DEF RewrittenDoesNotBoot
    <2>1. Rewriting /\ BootPartition(otadata) = runs
        BY DEF Rewriting, BridgeInv, RewrittenDoesNotBoot
    <2>2. m.active = runs \/ m.active = Target
        BY <1>1 DEF Target, Opposite, OtaSlots
    <2> QED
        BY <1>1, <1>2, <2>1, <2>2
  <1>6. BootIsWhole'
    <2>1. \A s : Whole(s)' <=> Whole(s)
        BY DEF Whole
    <2> QED
        BY <1>2, <2>1 DEF BridgeInv, BootIsWhole, Whole
  <1> QED
      BY <1>3, <1>4, <1>5, <1>6 DEF BridgeInv

LEMMA BridgeStatus == BridgeInv /\ OnStatus => BridgeInv'
  <1> SUFFICES ASSUME BridgeInv, OnStatus PROVE BridgeInv'
      OBVIOUS
  <1>1. Serves /\ UNCHANGED <<flash, runs, upload>> /\ runs \in OtaSlots /\ Target # runs
      BY DEF OnStatus, Serves, Target, Opposite, OtaSlots
  <1>2. PICK m : m = [ReadMeta EXCEPT !.state[runs] = "VALID", !.active = runs]
      OBVIOUS
  <1>3. m.active = runs /\ m.state[Target] = ReadMeta.state[Target]
      BY <1>1, <1>2 DEF ReadMeta
  <1>4. CASE otadata' = WriteMeta(m).data
      BY <1>1, <1>3, <1>4, BridgeRecords
  <1>5. CASE otadata' = otadata
      BY <1>1, <1>5 DEF BridgeInv, BridgeTypeOK, RunsWhole, UploadIsRewriting, Target, Rewriting,
                        RewrittenDoesNotBoot, BootIsWhole, Whole
  <1> QED
      BY <1>2, <1>4, <1>5 DEF OnStatus

LEMMA BridgeReverts == BridgeInv /\ OnRevert => BridgeInv'
  <1> SUFFICES ASSUME BridgeInv, OnRevert PROVE BridgeInv'
      OBVIOUS
  <1>1. /\ Serves /\ UNCHANGED <<flash, runs, upload>> /\ runs \in OtaSlots /\ Target \in OtaSlots
        /\ ReadMeta.state[Target] = "VALID" /\ ~upload.erasing
      BY DEF OnRevert, Serves, Target, Opposite, OtaSlots
  <1>2. PICK m : m = [ReadMeta EXCEPT !.active = Target]
      OBVIOUS
  <1>3. m.active = Target /\ m.state[Target] = "VALID"
      BY <1>1, <1>2 DEF ReadMeta
  <1>4. Rewriting => ~Whole(Target)
      BY <1>1 DEF BridgeInv, BridgeTypeOK, UploadIsRewriting, Rewriting, Whole
  <1>5. otadata' = WriteMeta(m).data
      BY <1>2 DEF OnRevert
  <1> QED
      BY <1>1, <1>3, <1>4, <1>5, BridgeRecords

LEMMA BridgeBegins == ASSUME NEW img \in Firmware, BridgeInv, OnBegin(img) PROVE BridgeInv'
  <1>1. /\ Serves /\ UNCHANGED <<flash, runs>> /\ runs \in OtaSlots /\ Target \in OtaSlots
        /\ BridgeTypeOK /\ RunsWhole
      BY DEF OnBegin, Serves, Target, Opposite, OtaSlots, BridgeInv
  <1>2. PICK m : m = [ReadMeta EXCEPT !.state[Target] = "EMPTY"]
      OBVIOUS
  <1>3. m.active = BootPartition(otadata) /\ m.state[Target] = "EMPTY"
      BY <1>1, <1>2 DEF ReadMeta
  <1>4. m.active \in OtaSlots
      BY <1>1, <1>3, InForceType DEF BridgeTypeOK
  <1>5. /\ otadata' = WriteMeta(m).data
        /\ upload' = IF WriteMeta(m).done
                     THEN [open |-> FALSE, erasing |-> TRUE, img |-> img, cursor |-> 0]
                     ELSE NoUpload
      BY <1>2 DEF OnBegin
  <1>6. /\ otadata' \in Seq(Entries) /\ WriteMeta(m).done \in BOOLEAN
        /\ WriteMeta(m).done => BootPartition(otadata') = runs
      BY <1>1, <1>3, <1>4, <1>5, WriteMetaFacts
  <1>7. BridgeTypeOK'
    <2>1. upload' \in [open : BOOLEAN, erasing : BOOLEAN, img : Firmware, cursor : 0 .. 2]
        BY <1>5, BridgeAssumption DEF NoUpload
    <2> QED
        BY <1>1, <1>6, <2>1 DEF BridgeTypeOK
  <1>8. RunsWhole'
      BY <1>1 DEF RunsWhole, Whole
  <1>9. CASE WriteMeta(m).done
    <2>1. ~upload'.open /\ upload'.erasing /\ upload'.cursor = 0
        BY <1>5, <1>9
    <2>2. UploadIsRewriting'
        BY <1>1, <2>1 DEF UploadIsRewriting, OtaSlots
    <2>3. RewrittenDoesNotBoot'
        BY <1>1, <1>6, <1>9 DEF RewrittenDoesNotBoot
    <2>4. BootIsWhole'
        BY <1>1, <1>6, <1>8, <1>9 DEF BootIsWhole, RunsWhole
    <2> QED
        BY <1>7, <1>8, <2>2, <2>3, <2>4 DEF BridgeInv
  <1>10. CASE ~WriteMeta(m).done
    <2>1. ~upload'.open /\ ~upload'.erasing
        BY <1>5, <1>10 DEF NoUpload
    <2> QED
        BY <1>7, <1>8, <2>1, BridgeCloses
  <1> QED
      BY <1>9, <1>10

LEMMA BridgeErases == BridgeInv /\ EraseBlock => BridgeInv'
  <1> SUFFICES ASSUME BridgeInv, EraseBlock PROVE BridgeInv'
      OBVIOUS
  <1>1. /\ upload.erasing /\ UNCHANGED <<otadata, runs, upload>>
        /\ flash' = [flash EXCEPT ![Target].part = IF @ = "junk" THEN "empty" ELSE "junk"]
      BY DEF EraseBlock
  <1>2. /\ runs \in OtaSlots /\ Target \in OtaSlots /\ Target # runs /\ ~upload.open
        /\ BootPartition(otadata) = runs /\ Whole(runs)
      BY <1>1 DEF BridgeInv, BridgeTypeOK, UploadIsRewriting, RewrittenDoesNotBoot, Rewriting,
                  RunsWhole, Target, Opposite, OtaSlots
  <1>3. flash' \in [OtaSlots -> [img : Firmware, part : {"empty", "junk", "part", "whole"}]]
      BY <1>1, <1>2 DEF BridgeInv, BridgeTypeOK
  <1>4. flash'[runs] = flash[runs]
      BY <1>1, <1>2 DEF BridgeInv, BridgeTypeOK
  <1>5. Whole(runs)'
      BY <1>1, <1>2, <1>4 DEF Whole
  <1> QED
      BY <1>1, <1>2, <1>3, <1>5 DEF BridgeInv, BridgeTypeOK, RunsWhole, UploadIsRewriting,
         RewrittenDoesNotBoot, BootIsWhole, OtaSlots

LEMMA BridgeEraseEnds == BridgeInv /\ EraseEnds => BridgeInv'
  <1> SUFFICES ASSUME BridgeInv, EraseEnds PROVE BridgeInv'
      OBVIOUS
  <1>1. upload.erasing /\ UNCHANGED <<otadata, flash, runs>> /\ BridgeTypeOK
      BY DEF EraseEnds, BridgeInv
  <1>2. /\ runs \in OtaSlots /\ ~upload.open
        /\ BootPartition(otadata) = runs /\ Whole(runs)
      BY <1>1 DEF BridgeInv, BridgeTypeOK, UploadIsRewriting, RewrittenDoesNotBoot, Rewriting,
                  RunsWhole, OtaSlots
  <1>3. Whole(runs)' /\ RunsWhole'
      BY <1>1, <1>2 DEF Whole, RunsWhole
  <1>4. CASE /\ flash[Target].part = "empty"
             /\ upload' = [upload EXCEPT !.open = TRUE, !.erasing = FALSE]
    <2>1. /\ upload' \in [open : BOOLEAN, erasing : BOOLEAN, img : Firmware, cursor : 0 .. 2]
          /\ upload'.open /\ ~upload'.erasing /\ upload'.cursor = upload.cursor
        BY <1>1, <1>4 DEF BridgeTypeOK
    <2>2. upload.cursor = 0
        BY <1>1 DEF BridgeInv, UploadIsRewriting
    <2> QED
        BY <1>1, <1>2, <1>3, <1>4, <2>1, <2>2
        DEF BridgeInv, BridgeTypeOK, UploadIsRewriting, RewrittenDoesNotBoot, BootIsWhole, Target,
            OtaSlots
  <1>5. CASE upload' = NoUpload
    <2>1. BridgeTypeOK' /\ ~upload'.open /\ ~upload'.erasing
        BY <1>1, <1>5, BridgeAssumption DEF NoUpload, BridgeTypeOK
    <2> QED
        BY <1>3, <2>1, BridgeCloses
  <1> QED
      BY <1>4, <1>5 DEF EraseEnds

LEMMA BridgeChunk == BridgeInv /\ OnChunk => BridgeInv'
  <1> SUFFICES ASSUME BridgeInv, OnChunk PROVE BridgeInv'
      OBVIOUS
  <1>1. /\ upload.open /\ upload.cursor < 2 /\ UNCHANGED <<otadata, runs>> /\ BridgeTypeOK
        /\ runs \in OtaSlots /\ Target \in OtaSlots /\ Target # runs
      BY DEF OnChunk, BridgeInv, Serves, Target, Opposite, OtaSlots
  <1>2. /\ ~upload.erasing /\ BootPartition(otadata) = runs /\ Whole(runs)
        /\ upload.cursor \in {0, 1}
      BY <1>1 DEF BridgeInv, BridgeTypeOK, UploadIsRewriting, RewrittenDoesNotBoot, Rewriting,
                  RunsWhole
  <1>3. CASE /\ flash' = [flash EXCEPT ![Target] =
                          [img |-> upload.img,
                           part |-> IF upload.cursor = 0 THEN "part" ELSE "whole"]]
             /\ upload' = [upload EXCEPT !.cursor = @ + 1]
    <2>1. /\ upload' \in [open : BOOLEAN, erasing : BOOLEAN, img : Firmware, cursor : 0 .. 2]
          /\ upload'.open /\ ~upload'.erasing /\ upload'.cursor = upload.cursor + 1
        BY <1>1, <1>2, <1>3 DEF BridgeTypeOK
    <2>2. /\ flash' \in [OtaSlots -> [img : Firmware, part : {"empty", "junk", "part", "whole"}]]
          /\ flash'[runs] = flash[runs]
          /\ flash'[Target].part = IF upload.cursor = 0 THEN "part" ELSE "whole"
        BY <1>1, <1>2, <1>3 DEF BridgeTypeOK
    <2>3. Whole(runs)'
        BY <1>1, <1>2, <2>2 DEF Whole
    <2>4. UploadIsRewriting'
        BY <1>1, <1>2, <2>1, <2>2 DEF UploadIsRewriting, Target, OtaSlots
    <2> QED
        BY <1>1, <1>2, <2>1, <2>2, <2>3, <2>4
        DEF BridgeInv, BridgeTypeOK, RunsWhole, RewrittenDoesNotBoot, BootIsWhole
  <1>4. CASE upload' = NoUpload /\ UNCHANGED flash
    <2>1. BridgeTypeOK' /\ ~upload'.open /\ ~upload'.erasing
        BY <1>1, <1>4, BridgeAssumption DEF NoUpload, BridgeTypeOK
    <2>2. RunsWhole'
        BY <1>1, <1>2, <1>4 DEF RunsWhole, Whole
    <2> QED
        BY <2>1, <2>2, BridgeCloses
  <1> QED
      BY <1>3, <1>4 DEF OnChunk

LEMMA BridgeFinish == BridgeInv /\ OnFinish => BridgeInv'
  <1> SUFFICES ASSUME BridgeInv, OnFinish PROVE BridgeInv'
      OBVIOUS
  <1>1. /\ upload.open /\ upload.cursor = 2 /\ UNCHANGED <<flash, runs>> /\ BridgeTypeOK
        /\ runs \in OtaSlots /\ Target \in OtaSlots
      BY DEF OnFinish, BridgeInv, Serves, Target, Opposite, OtaSlots
  <1>2. RunsWhole' /\ \A s : Whole(s)' <=> Whole(s)
      BY <1>1 DEF BridgeInv, RunsWhole, Whole
  <1>3. PICK m : m = [ReadMeta EXCEPT !.state[Target] = "STAGED"]
      OBVIOUS
  <1>4. m.active = BootPartition(otadata) /\ m.active \in OtaSlots
      BY <1>1, <1>3, InForceType DEF ReadMeta, BridgeTypeOK
  <1>5. otadata' \in {otadata, WriteMeta(m).data} /\ upload' \in {upload, NoUpload}
    <2>1. CASE Whole(Target)
        BY <1>3, <2>1 DEF OnFinish
    <2>2. CASE ~Whole(Target)
        BY <2>2 DEF OnFinish
    <2> QED
        BY <2>1, <2>2
  <1>6. /\ otadata' \in Seq(Entries)
        /\ BootPartition(otadata') = BootPartition(otadata) \/ Whole(BootPartition(otadata'))
      BY <1>1, <1>4, <1>5, WriteMetaFacts DEF BridgeTypeOK
  <1>7. BridgeTypeOK'
    <2>1. NoUpload \in [open : BOOLEAN, erasing : BOOLEAN, img : Firmware, cursor : 0 .. 2]
        BY BridgeAssumption DEF NoUpload
    <2> QED
        BY <1>1, <1>5, <1>6, <2>1 DEF BridgeTypeOK
  <1>8. CASE upload' = NoUpload
      BY <1>2, <1>7, <1>8, BridgeCloses DEF NoUpload
  <1>9. CASE upload' = upload
    <2>1. UploadIsRewriting'
        BY <1>1, <1>9 DEF BridgeInv, UploadIsRewriting, Target
    <2>2. RewrittenDoesNotBoot'
        BY <1>1, <1>9 DEF BridgeInv, UploadIsRewriting, RewrittenDoesNotBoot, Rewriting
    <2>3. BootIsWhole'
        BY <1>1, <1>6, <1>9 DEF BridgeInv, BootIsWhole, Whole
    <2> QED
        BY <1>2, <1>7, <2>1, <2>2, <2>3 DEF BridgeInv
  <1> QED
      BY <1>5, <1>8, <1>9

LEMMA BridgeStep == BridgeInv /\ [BridgeNext]_bridgeVars => BridgeInv'
  <1> SUFFICES ASSUME BridgeInv, [BridgeNext]_bridgeVars PROVE BridgeInv'
      OBVIOUS
  <1>1. NoUpload \in [open : BOOLEAN, erasing : BOOLEAN, img : Firmware, cursor : 0 .. 2]
      BY BridgeAssumption DEF NoUpload
  <1>2. CASE SessionDrops
    <2>1. BridgeTypeOK' /\ ~upload'.open /\ ~upload'.erasing /\ RunsWhole'
        BY <1>1, <1>2 DEF SessionDrops, BridgeInv, BridgeTypeOK, NoUpload, RunsWhole, Whole
    <2> QED
        BY <2>1, BridgeCloses
  <1>3. CASE Restart
    <2>1. BridgeTypeOK' /\ ~upload'.open /\ ~upload'.erasing /\ RunsWhole'
        BY <1>1, <1>3 DEF Restart, BridgeInv, BridgeTypeOK, NoUpload, RunsWhole, OtaSlots
    <2> QED
        BY <2>1, BridgeCloses
  <1>4. CASE Bootloader
    <2>1. /\ otadata' \in Seq(Entries) /\ runs' \in OtaSlots /\ Whole(runs')
          /\ UNCHANGED <<flash, upload>>
        BY <1>4, BootFacts DEF Bootloader, BridgeInv, BridgeTypeOK
    <2>2. ~upload'.open /\ ~upload'.erasing
        BY <1>4, <2>1 DEF Bootloader, BridgeInv, UploadIsRewriting
    <2>3. BridgeTypeOK'
        BY <2>1 DEF BridgeInv, BridgeTypeOK
    <2>4. RunsWhole'
        BY <2>1 DEF RunsWhole, Whole
    <2> QED
        BY <2>2, <2>3, <2>4, BridgeCloses
  <1>5. CASE UNCHANGED bridgeVars
      BY <1>5 DEF bridgeVars, BridgeInv, BridgeTypeOK, RunsWhole, UploadIsRewriting, Target,
                  Rewriting, RewrittenDoesNotBoot, BootIsWhole, Whole
  <1> QED
      BY <1>2, <1>3, <1>4, <1>5, BridgeStatus, BridgeReverts, BridgeBegins, BridgeErases,
         BridgeEraseEnds, BridgeChunk, BridgeFinish
      DEF BridgeNext

(* While the relay's other slot is erased and rewritten, what boots is a   *)
(* whole image, for any set of images and any number of updates, resets    *)
(* and flash failures: a reset then does not depend on the fallback of the *)
(* bootloader (firmware_store_esp32.cpp, writeMeta()).                     *)
THEOREM BridgeBootIsWhole == BridgeSpec => []BootIsWhole
  <1>1. BridgeInv => BootIsWhole
      BY DEF BridgeInv
  <1> QED
      BY <1>1, BridgeStart, BridgeStep, PTL DEF BridgeSpec

-----------------------------------------------------------------------------
(* The simulated drone.                                                    *)

PlantStates == [boot : Nat, ts : Nat, world : Nat, lost : Nat, waiting : BOOLEAN,
                lockstep : BOOLEAN]

LEMMA NoSampleFacts == NoSample.src = Nobody /\ NoSample \notin Samples
  BY SimDroneAssumption DEF NoSample, Samples

LEMMA SimStart == SimInit => SimInv
  <1> SUFFICES ASSUME SimInit PROVE SimInv
      OBVIOUS
  <1>1. /\ link = [plant |-> Nobody, pending |-> NoSample, reply |-> 0] /\ wire = {}
        /\ link.plant = Nobody /\ link.pending = NoSample
        /\ core = FreshCore /\ run = FreshRun /\ source.changed = FALSE /\ wall = 0
      BY DEF SimInit
  <1>2. SimTypeOK
    <2>1. plant \in [Plants -> PlantStates] /\ \A p \in Plants : ~plant[p].waiting
      <3>1. \A l \in BOOLEAN : NewPlant(l) \in PlantStates /\ ~NewPlant(l).waiting
          BY DEF NewPlant, PlantStates
      <3> QED
          BY <3>1 DEF SimInit
    <2>2. run \in [open : BOOLEAN, start : Nat, window : Nat,
                   world : (Plants \cup {Nobody}) \X Nat \X Nat, last : Nat, frames : Nat,
                   mixed : BOOLEAN, hole : BOOLEAN, sealed : BOOLEAN, degraded : BOOLEAN,
                   linkSeen : BOOLEAN, lost : Nat, free : BOOLEAN]
        BY <1>1, SimDroneAssumption DEF FreshRun
    <2>3. link \in [plant : Plants \cup {Nobody}, pending : Samples \cup {NoSample}, reply : Nat]
        BY <1>1
    <2>4. loop \in [lastUs : Nat, resetSeen : BOOLEAN, lastReset : Nat, parked : BOOLEAN,
                    session : BOOLEAN, reboot : BOOLEAN, inhibited : BOOLEAN, window : Nat]
        BY SimDroneAssumption DEF SimInit
    <2>5. /\ source \in [seen : BOOLEAN, ts : Nat, world : Nat, changed : BOOLEAN]
          /\ history \in [unheard : BOOLEAN, overtaken : BOOLEAN]
        BY DEF SimInit
    <2> QED
        BY <1>1, <2>1, <2>2, <2>3, <2>4, <2>5 DEF SimTypeOK, PlantStates
  <1>3. CoreFollows
      BY <1>1 DEF CoreFollows, FreshCore
  <1>4. SamplesArePresent /\ RunIsOfPlant /\ SourceIsAhead /\ LossIsNoted
      BY <1>1 DEF SourceIsAhead, SamplesArePresent, Present, RunIsOfPlant, LossIsNoted, FreshRun
  <1> QED
      BY <1>2, <1>3, <1>4 DEF SimInv

(* What the provers need of the state's types.                             *)
LEMMA SimTypes ==
    ASSUME SimTypeOK
    PROVE  /\ \A p \in Plants : /\ plant[p] \in PlantStates
                                /\ plant[p].ts \in Nat /\ plant[p].lost \in Nat
                                /\ plant[p].boot \in Nat /\ plant[p].world \in Nat
                                /\ plant[p].waiting \in BOOLEAN /\ plant[p].lockstep \in BOOLEAN
           /\ \A m \in wire : /\ m \in Samples /\ m.src \in Plants /\ m.ts \in Nat /\ m.ts > 0
                              /\ m.lost \in Nat /\ m.world \in Nat
           /\ link.plant \in Plants \cup {Nobody} /\ link.reply \in Nat
           /\ link.pending # NoSample =>
                 /\ link.pending \in Samples /\ link.pending.src \in Plants
                 /\ link.pending.ts \in Nat /\ link.pending.ts > 0 /\ link.pending.lost \in Nat
                 /\ link.pending.world \in Nat /\ link.pending.boot \in Nat
           /\ source.ts \in Nat /\ source.seen \in BOOLEAN /\ source.changed \in BOOLEAN
           /\ run.last \in Nat /\ run.frames \in Nat /\ run.lost \in Nat /\ run.start \in Nat
           /\ run.window \in Nat
           /\ {run.hole, run.mixed, run.sealed, run.degraded, run.open, run.linkSeen,
                run.free} \subseteq BOOLEAN
           /\ loop.lastReset \in Nat /\ wall \in Nat
  <1>1. \A p \in Plants : plant[p] \in PlantStates
      BY DEF SimTypeOK, PlantStates
  <1>2. \A m \in Samples : /\ m.src \in Plants /\ m.ts \in Nat /\ m.ts > 0 /\ m.lost \in Nat
                           /\ m.world \in Nat /\ m.boot \in Nat
      BY DEF Samples
  <1>3. /\ link.plant \in Plants \cup {Nobody} /\ link.reply \in Nat
        /\ link.pending \in Samples \cup {NoSample}
      BY DEF SimTypeOK
  <1>4. /\ source.ts \in Nat /\ source.seen \in BOOLEAN /\ source.changed \in BOOLEAN
        /\ loop.lastReset \in Nat /\ wall \in Nat
      BY DEF SimTypeOK
  <1>5. /\ run.last \in Nat /\ run.frames \in Nat /\ run.lost \in Nat /\ run.start \in Nat
        /\ run.window \in Nat
        /\ {run.hole, run.mixed, run.sealed, run.degraded, run.open, run.linkSeen,
                run.free} \subseteq BOOLEAN
      BY DEF SimTypeOK
  <1>6. \A m \in wire : m \in Samples
      BY DEF SimTypeOK
  <1> QED
      BY <1>1, <1>2, <1>3, <1>4, <1>5, <1>6 DEF PlantStates

(* The plants and the LAN move: K are the plants that go on.               *)
LEMMA PlantsMove ==
    ASSUME SimInv, UNCHANGED <<link, source, wall, loop, core, run>>,
           plant' \in [Plants -> PlantStates],
           \A p \in Plants : plant'[p].waiting => plant'[p].ts > 0,
           wire' \subseteq Samples, history' \in [unheard : BOOLEAN, overtaken : BOOLEAN],
           history.unheard => history'.unheard, history'.overtaken = history.overtaken,
           NEW K \in SUBSET Plants,
           \A p \in K : /\ plant'[p].boot = plant[p].boot
                        /\ plant[p].ts <= plant'[p].ts /\ plant[p].lost <= plant'[p].lost,
           InOrder' => \A p \in K, t \in Nat, l \in Nat : Behind(t, l, p) => Behind(t, l, p)',
           \A m \in wire' : m \in wire => m.src \in K,
           \A m \in wire' : m \notin wire =>
               /\ IsOf(m)' /\ (InOrder' => Behind(m.ts, m.lost, m.src)')
               /\ InOrder' /\ link.pending # NoSample /\ link.pending.src = m.src =>
                     m.ts >= link.pending.ts
               /\ plant[m.src].ts <= m.ts,
           ~history'.unheard /\ link.pending # NoSample => link.pending.src \in K,
           ~history'.unheard /\ link.plant # Nobody => link.plant \in K
    PROVE  SimInv'
  <1>1. /\ SimTypeOK /\ CoreFollows /\ SamplesArePresent /\ RunIsOfPlant
        /\ SourceIsAhead /\ LossIsNoted
      BY DEF SimInv
  <1>2. SimTypeOK'
      BY <1>1 DEF SimTypeOK, PlantStates
  <1>3. CoreFollows'
      BY <1>1 DEF CoreFollows
  <1>4. \A m \in Samples : m.src \in K /\ IsOf(m) => IsOf(m)'
    <2> TAKE m \in Samples
    <2> HAVE m.src \in K /\ IsOf(m)
    <2>1. m.ts \in Nat /\ m.lost \in Nat /\ m.src \in Plants
        BY DEF Samples
    <2>2. /\ plant[m.src].ts \in Nat /\ plant[m.src].lost \in Nat
          /\ plant'[m.src].ts \in Nat /\ plant'[m.src].lost \in Nat
        BY <1>1, <2>1, SimTypes DEF PlantStates
    <2> QED
        BY <2>1, <2>2 DEF IsOf
  <1>5. SamplesArePresent'
    <2>1. \A m \in wire' : IsOf(m)'
        BY <1>1, <1>4 DEF SamplesArePresent
    <2>2. Present' => IsOf(link.pending)'
      <3> SUFFICES ASSUME Present' PROVE IsOf(link.pending)'
          OBVIOUS
      <3>1. PICK q : q = link.pending
          OBVIOUS
      <3>2. q \in Samples /\ q.src \in K /\ IsOf(q)
          BY <1>1, <3>1, SimTypes DEF Present, SamplesArePresent, SimTypeOK
      <3>3. IsOf(q)'
          BY <1>4, <3>2
      <3> QED
          BY <3>1, <3>3 DEF IsOf
    <2> QED
        BY <2>1, <2>2 DEF SamplesArePresent
  <1>6. RunIsOfPlant'
      BY <1>1 DEF RunIsOfPlant, SimTypeOK
  <1>7. LossIsNoted'
    <2> SUFFICES ASSUME InOrder'
                 PROVE  /\ run.hole /\ ~run.free => run.degraded
                        /\ \A m \in wire' : Behind(m.ts, m.lost, m.src)'
                        /\ link.pending # NoSample =>
                              /\ Behind(link.pending.ts, link.pending.lost, link.pending.src)'
                              /\ \A m \in wire' : m.src = link.pending.src => m.ts >= link.pending.ts
                        /\ link.plant # Nobody => link.reply <= source.ts
                        /\ link.plant # Nobody /\ run.frames > 0 /\ ~run.sealed =>
                              /\ run.linkSeen /\ run.open /\ run.start <= run.last
                              /\ link.reply <= run.last
                              /\ Behind(run.last, run.lost, link.plant)'
        BY DEF LossIsNoted
    <2>1. InOrder /\ ~history'.unheard
        BY <1>1 DEF InOrder, SimTypeOK
    <2>2. run.hole /\ ~run.free => run.degraded
        BY <1>1, <2>1 DEF LossIsNoted
    <2>3. \A m \in wire' : Behind(m.ts, m.lost, m.src)'
      <3> TAKE m \in wire'
      <3>1. CASE m \in wire
        <4>1. Behind(m.ts, m.lost, m.src) /\ m.src \in K /\ m.ts \in Nat /\ m.lost \in Nat
            BY <1>1, <2>1, <3>1, SimTypes DEF LossIsNoted
        <4> QED
            BY <4>1
      <3> QED
          BY <3>1
    <2>4. ASSUME link.pending # NoSample
          PROVE  /\ Behind(link.pending.ts, link.pending.lost, link.pending.src)'
                 /\ \A m \in wire' : m.src = link.pending.src => m.ts >= link.pending.ts
      <3>1. PICK t, l, p : t = link.pending.ts /\ l = link.pending.lost /\ p = link.pending.src
          OBVIOUS
      <3>2. Behind(t, l, p) /\ t \in Nat /\ l \in Nat /\ p \in K
          BY <1>1, <2>1, <2>4, <3>1, SimTypes DEF LossIsNoted
      <3>3. Behind(t, l, p)'
          BY <3>2
      <3>4. t = link'.pending.ts /\ l = link'.pending.lost /\ p = link'.pending.src
          BY <3>1
      <3>5. Behind(link.pending.ts, link.pending.lost, link.pending.src)'
          BY <3>3, <3>4 DEF Behind
      <3>6. \A m \in wire' : m.src = link.pending.src => m.ts >= link.pending.ts
          BY <1>1, <2>1, <2>4 DEF LossIsNoted
      <3> QED
          BY <3>5, <3>6
    <2>5. link.plant # Nobody => link.reply <= source.ts
        BY <1>1, <2>1 DEF LossIsNoted
    <2>6. ASSUME link.plant # Nobody /\ run.frames > 0 /\ ~run.sealed
          PROVE  /\ run.linkSeen /\ run.open /\ run.start <= run.last /\ link.reply <= run.last
                 /\ Behind(run.last, run.lost, link.plant)'
      <3>1. PICK t, l, p : t = run.last /\ l = run.lost /\ p = link.plant
          OBVIOUS
      <3>2. Behind(t, l, p) /\ t \in Nat /\ l \in Nat /\ p \in K
          BY <1>1, <2>1, <2>6, <3>1, SimTypes DEF LossIsNoted
      <3>3. Behind(t, l, p)'
          BY <3>2
      <3>4. t = run'.last /\ l = run'.lost /\ p = link'.plant
          BY <3>1
      <3>5. Behind(run.last, run.lost, link.plant)'
          BY <3>3, <3>4 DEF Behind
      <3> QED
          BY <1>1, <2>1, <2>6, <3>5 DEF LossIsNoted
    <2> QED
        BY <2>2, <2>3, <2>4, <2>5, <2>6
  <1>8. SourceIsAhead'
    <2> SUFFICES ASSUME InOrder', link.plant # Nobody
                 PROVE  /\ source.ts <= plant'[link.plant].ts
                        /\ \A m \in wire' : m.src = link.plant => m.ts >= source.ts
                        /\ link.pending # NoSample /\ link.pending.src = link.plant =>
                              link.pending.ts >= source.ts
        BY DEF SourceIsAhead
    <2>1. InOrder /\ ~history'.unheard
        BY <1>1 DEF InOrder, SimTypeOK
    <2>2. PICK p \in K : p = link.plant
        BY <2>1
    <2>3. /\ plant[p].ts \in Nat /\ plant'[p].ts \in Nat /\ source.ts \in Nat
          /\ source.ts <= plant[p].ts /\ plant[p].ts <= plant'[p].ts
        BY <1>1, <2>1, <2>2, SimTypes DEF SourceIsAhead, PlantStates
    <2>4. \A m \in wire' : m.src = link.plant => m.ts >= source.ts
      <3> TAKE m \in wire'
      <3> HAVE m.src = link.plant
      <3>1. CASE m \in wire
          BY <1>1, <2>1, <3>1 DEF SourceIsAhead
      <3>2. CASE m \notin wire
        <4>1. plant[p].ts <= m.ts
            BY <2>2, <3>2
        <4>2. m.ts \in Nat
            BY DEF Samples
        <4> QED
            BY <2>3, <4>1, <4>2
      <3> QED
          BY <3>1, <3>2
    <2> QED
        BY <1>1, <2>1, <2>2, <2>3, <2>4 DEF SourceIsAhead
  <1> QED
      BY <1>2, <1>3, <1>5, <1>6, <1>7, <1>8 DEF SimInv

(* A plant that only goes on: same start, nothing taken back.  When it     *)
(* leaves a tick it has been answered or says that one more was lost.      *)
LEMMA BehindGoesOn ==
    ASSUME SimTypeOK, NEW p \in Plants, NEW t \in Nat, NEW l \in Nat, Behind(t, l, p),
           UNCHANGED link, plant' \in [Plants -> PlantStates],
           \/ plant'[p].ts = plant[p].ts /\ plant'[p].waiting = plant[p].waiting
           \/ /\ plant'[p].ts = plant[p].ts + 1 /\ ~plant[p].waiting
              /\ plant[p].lockstep => plant'[p].waiting
           \/ plant'[p].lost > plant[p].lost /\ plant'[p].ts = plant[p].ts,
           plant'[p].lockstep = plant[p].lockstep,
           plant[p].lost <= plant'[p].lost,
           \A m \in wire' : m \notin wire /\ m.src = p =>
              m.ts \in Nat /\ m.ts <= plant'[p].ts /\ m.lost = plant'[p].lost
    PROVE  Behind(t, l, p)'
  <1> SUFFICES ASSUME plant[p].lockstep PROVE Behind(t, l, p)'
      BY DEF Behind
  <1>1. /\ plant[p].ts \in Nat /\ plant[p].lost \in Nat /\ plant'[p].ts \in Nat
        /\ plant'[p].lost \in Nat /\ plant[p].waiting \in BOOLEAN /\ plant'[p].waiting \in BOOLEAN
      BY SimTypes DEF PlantStates
  <1>2. /\ t <= plant[p].ts /\ l <= plant[p].lost
        /\ plant[p].ts > t + 1 \/ (plant[p].ts = t + 1 /\ ~plant[p].waiting) => plant[p].lost > l
      BY DEF Behind
  <1>3. /\ t <= plant'[p].ts /\ l <= plant'[p].lost
        /\ plant'[p].ts > t + 1 \/ (plant'[p].ts = t + 1 /\ ~plant'[p].waiting) => plant'[p].lost > l
      BY <1>1, <1>2
  <1>4. \A m \in wire' : m.src = p /\ m.ts > t + 1 => m.lost > l
    <2> TAKE m \in wire'
    <2>1. CASE m \in wire
        BY <2>1 DEF Behind
    <2>2. CASE m \notin wire
      <3> HAVE m.src = p /\ m.ts > t + 1
      <3>1. m.ts \in Nat /\ m.ts <= plant'[p].ts /\ m.lost = plant'[p].lost
          BY <2>2
      <3> QED
          BY <1>1, <1>3, <3>1
    <2> QED
        BY <2>1, <2>2
  <1> QED
      BY <1>3, <1>4 DEF Behind

LEMMA PlantTicks == ASSUME NEW p \in Plants, SimInv, PlantTick(p) PROVE SimInv'
  <1>1. /\ ~plant[p].waiting
        /\ plant' = [plant EXCEPT ![p].ts = @ + 1, ![p].waiting = plant[p].lockstep]
        /\ wire' = wire \cup {[Sample(p) EXCEPT !.ts = @ + 1]}
        /\ UNCHANGED <<link, source, wall, loop, core, run, history>>
      BY DEF PlantTick
  <1>2. SimTypeOK /\ plant \in [Plants -> PlantStates]
      BY DEF SimInv, SimTypeOK, PlantStates
  <1>3. PICK new : new = [plant[p] EXCEPT !.ts = plant[p].ts + 1, !.waiting = plant[p].lockstep]
      OBVIOUS
  <1>4. /\ new \in PlantStates /\ new.ts = plant[p].ts + 1 /\ new.waiting = plant[p].lockstep
        /\ new.boot = plant[p].boot /\ new.lost = plant[p].lost /\ new.world = plant[p].world
        /\ new.lockstep = plant[p].lockstep
    <2>1. plant[p] \in PlantStates /\ plant[p].ts + 1 \in Nat
        BY <1>2, SimTypes
    <2>2. new.ts = plant[p].ts + 1 /\ new.waiting = plant[p].lockstep
        BY <1>3, <2>1 DEF PlantStates
    <2>3. /\ new.boot = plant[p].boot /\ new.lost = plant[p].lost /\ new.world = plant[p].world
          /\ new.lockstep = plant[p].lockstep
        BY <1>3, <2>1 DEF PlantStates
    <2>4. PICK t \in Nat, w \in BOOLEAN : t = plant[p].ts + 1 /\ w = plant[p].lockstep
        BY <2>1 DEF PlantStates
    <2>5. new = [plant[p] EXCEPT !.ts = t, !.waiting = w]
        BY <1>3, <2>4
    <2>6. new \in PlantStates
        BY <2>1, <2>5 DEF PlantStates
    <2> QED
        BY <2>2, <2>3, <2>6
  <1>5. plant' = [plant EXCEPT ![p] = new]
      BY <1>1, <1>2, <1>3
  <1>6. plant' \in [Plants -> PlantStates] /\ plant'[p] = new /\ \A q \in Plants : q # p => plant'[q] = plant[q]
      BY <1>2, <1>4, <1>5
  <1>7. PICK s : s = [Sample(p) EXCEPT !.ts = @ + 1]
      OBVIOUS
  <1>8. /\ s \in Samples /\ s.src = p /\ s.ts = plant[p].ts + 1 /\ s.lost = plant[p].lost
        /\ s.boot = plant[p].boot
      BY <1>2, <1>7, SimTypes DEF Sample, Samples
  <1>9. wire' = wire \cup {s}
      BY <1>1, <1>7
  <1>10. \A q \in Plants : /\ plant'[q].boot = plant[q].boot
                           /\ plant[q].ts <= plant'[q].ts /\ plant[q].lost <= plant'[q].lost
    <2> TAKE q \in Plants
    <2>1. plant[q].ts \in Nat /\ plant[q].lost \in Nat
        BY <1>2, SimTypes
    <2> QED
        BY <1>4, <1>6, <2>1
  <1>11. \A q \in Plants, t \in Nat, l \in Nat : Behind(t, l, q) => Behind(t, l, q)'
    <2> TAKE q \in Plants, t \in Nat, l \in Nat
    <2> HAVE Behind(t, l, q)
    <2>1. /\ plant[p].ts \in Nat /\ plant[p].lost \in Nat /\ plant[q].lost \in Nat
          /\ plant[q].waiting \in BOOLEAN
        BY <1>2, SimTypes
    <2>2. \A m \in wire' : m \notin wire /\ m.src = q =>
             m.ts \in Nat /\ m.ts <= plant'[q].ts /\ m.lost = plant'[q].lost
        BY <1>4, <1>6, <1>8, <1>9, <2>1
    <2>3. UNCHANGED link
        BY <1>1
    <2>4. \/ plant'[q].ts = plant[q].ts /\ plant'[q].waiting = plant[q].waiting
          \/ /\ plant'[q].ts = plant[q].ts + 1 /\ ~plant[q].waiting
             /\ plant[q].lockstep => plant'[q].waiting
        BY <1>1, <1>4, <1>6
    <2>5. plant[q].lost <= plant'[q].lost
        BY <1>10
    <2>6. plant'[q].lockstep = plant[q].lockstep
        BY <1>4, <1>6
    <2> QED
        BY <1>2, <1>6, <2>2, <2>3, <2>4, <2>5, <2>6, BehindGoesOn
  <1>12. \A m \in wire : m.src = p => m.ts <= plant[p].ts /\ m.lost <= plant[p].lost
      BY DEF SimInv, SamplesArePresent, IsOf
  <1>13. IsOf(s)'
      BY <1>4, <1>6, <1>8, <1>2, SimTypes DEF IsOf
  <1>14. ~history.unheard /\ link.pending # NoSample /\ link.pending.src = p =>
            link.pending.ts <= plant[p].ts
      BY DEF SimInv, SamplesArePresent, Present, IsOf
  <1>15. InOrder' => Behind(s.ts, s.lost, s.src)'
    <2> SUFFICES ASSUME InOrder' PROVE Behind(s.ts, s.lost, s.src)'
        OBVIOUS
    <2>1. plant[p].ts \in Nat /\ plant[p].lost \in Nat /\ ~history.unheard
        BY <1>1, <1>2, SimTypes DEF InOrder
    <2>2. /\ s.ts <= plant'[p].ts /\ s.lost <= plant'[p].lost
          /\ ~(plant'[p].ts > s.ts + 1) /\ plant'[p].ts # s.ts + 1
        BY <1>4, <1>6, <1>8, <2>1
    <2>3. \A m \in wire' : ~(m.src = p /\ m.ts > s.ts + 1)
      <3> TAKE m \in wire'
      <3>1. m = s \/ (m.src = p => m.ts <= plant[p].ts)
          BY <1>9, <1>12
      <3>2. m.ts \in Nat
          BY <1>2, <1>8, <1>9, SimTypes, <2>1
      <3> QED
          BY <1>8, <2>1, <3>1, <3>2
    <2>4. ~(link.pending # NoSample /\ link.pending.src = p /\ link.pending.ts > s.ts + 1)
        BY <1>2, <1>8, <1>14, <2>1, SimTypes
    <2> QED
        BY <1>1, <1>8, <2>2, <2>3, <2>4 DEF Behind
  <1>16. InOrder' /\ link.pending # NoSample /\ link.pending.src = s.src => s.ts >= link.pending.ts
      BY <1>1, <1>2, <1>8, <1>14, SimTypes DEF InOrder
  <1>17. \A q \in Plants : plant'[q].waiting => plant'[q].ts > 0
    <2> TAKE q \in Plants
    <2>1. plant[p].ts \in Nat
        BY <1>2, SimTypes
    <2> QED
        BY <1>2, <1>4, <1>6, <2>1 DEF SimTypeOK
  <1>18. wire' \subseteq Samples /\ history' \in [unheard : BOOLEAN, overtaken : BOOLEAN]
      BY <1>1, <1>2, <1>8, <1>9 DEF SimTypeOK
  <1>19. /\ \A m \in wire' : m \in wire => m.src \in Plants
         /\ link.pending # NoSample => link.pending.src \in Plants
         /\ link.plant # Nobody => link.plant \in Plants
      BY <1>2, SimTypes
  <1>20. \A m \in wire' : m \notin wire => m = s
      BY <1>9
  <1>21. \A m \in wire' : m \notin wire =>
            /\ IsOf(m)' /\ (InOrder' => Behind(m.ts, m.lost, m.src)')
            /\ InOrder' /\ link.pending # NoSample /\ link.pending.src = m.src => m.ts >= link.pending.ts
            /\ plant[m.src].ts <= m.ts
    <2>1. plant[p].ts \in Nat
        BY <1>2, SimTypes
    <2> QED
        BY <1>8, <1>13, <1>15, <1>16, <1>20, <2>1
  <1>22. PICK K \in SUBSET Plants : K = Plants
      OBVIOUS
  <1> QED
      BY <1>1, <1>6, <1>10, <1>11, <1>17, <1>18, <1>19, <1>21, <1>22, PlantsMove

LEMMA PlantResends == ASSUME NEW p \in Plants, SimInv, PlantResend(p) PROVE SimInv'
  <1>1. /\ plant[p].waiting /\ wire' = wire \cup {Sample(p)}
        /\ UNCHANGED <<plant, link, source, wall, loop, core, run, history>>
      BY DEF PlantResend
  <1>2. SimTypeOK /\ plant \in [Plants -> PlantStates]
      BY DEF SimInv, SimTypeOK, PlantStates
  <1>3. PICK s : s = Sample(p)
      OBVIOUS
  <1>4. plant[p].ts \in Nat /\ plant[p].lost \in Nat /\ plant[p].ts > 0
      BY <1>1, <1>2, SimTypes DEF SimTypeOK
  <1>5. /\ s \in Samples /\ s.src = p /\ s.ts = plant[p].ts /\ s.lost = plant[p].lost
        /\ s.boot = plant[p].boot
      BY <1>2, <1>3, <1>4, SimTypes DEF Sample, Samples
  <1>6. wire' = wire \cup {s}
      BY <1>1, <1>3
  <1>7. \A q \in Plants, t \in Nat, l \in Nat : Behind(t, l, q) => Behind(t, l, q)'
    <2> TAKE q \in Plants, t \in Nat, l \in Nat
    <2> HAVE Behind(t, l, q)
    <2>1. /\ plant[q].lost \in Nat /\ plant[q].ts \in Nat
        BY <1>2, SimTypes
    <2>2. \A m \in wire' : m \notin wire /\ m.src = q =>
             m.ts \in Nat /\ m.ts <= plant'[q].ts /\ m.lost = plant'[q].lost
        BY <1>1, <1>5, <1>6, <2>1
    <2> QED
        BY <1>1, <1>2, <2>1, <2>2, BehindGoesOn
  <1>8. IsOf(s)'
      BY <1>1, <1>4, <1>5 DEF IsOf
  <1>9. ~history.unheard /\ link.pending # NoSample /\ link.pending.src = p =>
            link.pending.ts <= plant[p].ts
      BY DEF SimInv, SamplesArePresent, Present, IsOf
  <1>10. InOrder' => Behind(s.ts, s.lost, s.src)'
    <2> SUFFICES ASSUME InOrder' PROVE Behind(s.ts, s.lost, s.src)'
        OBVIOUS
    <2>1. ~history.unheard
        BY <1>1 DEF InOrder
    <2>2. /\ s.ts <= plant'[p].ts /\ s.lost <= plant'[p].lost
          /\ ~(plant'[p].ts > s.ts + 1) /\ plant'[p].ts # s.ts + 1
        BY <1>1, <1>4, <1>5
    <2>3. \A m \in wire' : ~(m.src = p /\ m.ts > s.ts + 1)
      <3> TAKE m \in wire'
      <3>1. m = s \/ (m.src = p => m.ts <= plant[p].ts)
          BY <1>6 DEF SimInv, SamplesArePresent, IsOf
      <3>2. m.ts \in Nat
          BY <1>2, <1>4, <1>5, <1>6, SimTypes
      <3> QED
          BY <1>4, <1>5, <3>1, <3>2
    <2>4. ~(link.pending # NoSample /\ link.pending.src = p /\ link.pending.ts > s.ts + 1)
        BY <1>2, <1>4, <1>5, <1>9, <2>1, SimTypes
    <2> QED
        BY <1>1, <1>5, <2>2, <2>3, <2>4 DEF Behind
  <1>11. InOrder' /\ link.pending # NoSample /\ link.pending.src = s.src => s.ts >= link.pending.ts
      BY <1>1, <1>2, <1>4, <1>5, <1>9, SimTypes DEF InOrder
  <1>12. wire' \subseteq Samples /\ history' \in [unheard : BOOLEAN, overtaken : BOOLEAN]
      BY <1>1, <1>2, <1>5, <1>6 DEF SimTypeOK
  <1>13. /\ \A m \in wire' : m \in wire => m.src \in Plants
         /\ link.pending # NoSample => link.pending.src \in Plants
         /\ link.plant # Nobody => link.plant \in Plants
      BY <1>2, SimTypes
  <1>14. \A m \in wire' : m \notin wire =>
            /\ IsOf(m)' /\ (InOrder' => Behind(m.ts, m.lost, m.src)')
            /\ InOrder' /\ link.pending # NoSample /\ link.pending.src = m.src => m.ts >= link.pending.ts
            /\ plant[m.src].ts <= m.ts
    <2>1. \A m \in wire' : m \notin wire => m = s
        BY <1>6
    <2> QED
        BY <1>4, <1>5, <1>8, <1>10, <1>11, <2>1
  <1>15. \A q \in Plants : /\ plant'[q].boot = plant[q].boot
                           /\ plant[q].ts <= plant'[q].ts /\ plant[q].lost <= plant'[q].lost
                           /\ (plant'[q].waiting => plant'[q].ts > 0)
      BY <1>1, <1>2, SimTypes DEF SimTypeOK
  <1>16. PICK K \in SUBSET Plants : K = Plants
      OBVIOUS
  <1> QED
      BY <1>1, <1>2, <1>7, <1>12, <1>13, <1>14, <1>15, <1>16, PlantsMove

(* A plant that changes nothing the LAN has not: it gives a tick up, or    *)
(* starts a world between two ticks.                                       *)
LEMMA PlantTurns ==
    ASSUME NEW p \in Plants, SimInv, NEW new \in PlantStates,
           new.boot = plant[p].boot, new.ts = plant[p].ts,
           plant[p].lost <= new.lost, new.lockstep = plant[p].lockstep,
           new.waiting = plant[p].waiting \/ (new.lost > plant[p].lost /\ ~new.waiting),
           plant' = [plant EXCEPT ![p] = new], wire' \subseteq wire,
           UNCHANGED <<link, source, wall, loop, core, run, history>>
    PROVE  SimInv'
  <1>1. SimTypeOK /\ plant \in [Plants -> PlantStates] /\ wire \subseteq Samples
      BY DEF SimInv, SimTypeOK, PlantStates
  <1>2. plant' \in [Plants -> PlantStates] /\ plant'[p] = new /\ \A q \in Plants : q # p => plant'[q] = plant[q]
      BY <1>1
  <1>3. \A q \in Plants, t \in Nat, l \in Nat : Behind(t, l, q) => Behind(t, l, q)'
    <2> TAKE q \in Plants, t \in Nat, l \in Nat
    <2> HAVE Behind(t, l, q)
    <2>1. plant[q].lost \in Nat /\ plant[q].ts \in Nat
        BY <1>1, SimTypes
    <2>2. \A m \in wire' : m \notin wire /\ m.src = q =>
             m.ts \in Nat /\ m.ts <= plant'[q].ts /\ m.lost = plant'[q].lost
        OBVIOUS
    <2>3. CASE q = p
        BY <1>1, <1>2, <2>1, <2>2, <2>3, BehindGoesOn
    <2>4. CASE q # p
        BY <1>1, <1>2, <2>1, <2>2, <2>4, BehindGoesOn
    <2> QED
        BY <2>3, <2>4
  <1>4. \A q \in Plants : /\ plant'[q].boot = plant[q].boot
                          /\ plant[q].ts <= plant'[q].ts /\ plant[q].lost <= plant'[q].lost
                          /\ (plant'[q].waiting => plant'[q].ts > 0)
    <2> TAKE q \in Plants
    <2>1. /\ plant[q].ts \in Nat /\ plant[q].lost \in Nat /\ (plant[q].waiting => plant[q].ts > 0)
          /\ plant[q].waiting \in BOOLEAN /\ new.waiting \in BOOLEAN
        BY <1>1, SimTypes DEF SimTypeOK, PlantStates
    <2> QED
        BY <1>2, <2>1
  <1>5. wire' \subseteq Samples /\ history' \in [unheard : BOOLEAN, overtaken : BOOLEAN]
      BY <1>1 DEF SimTypeOK
  <1>6. /\ \A m \in wire' : m \in wire /\ m.src \in Plants
        /\ link.pending # NoSample => link.pending.src \in Plants
        /\ link.plant # Nobody => link.plant \in Plants
      BY <1>1, SimTypes
  <1>7. PICK K \in SUBSET Plants : K = Plants
      OBVIOUS
  <1> QED
      BY <1>2, <1>3, <1>4, <1>5, <1>6, <1>7, PlantsMove

LEMMA PlantGivesUpOrResets ==
    ASSUME NEW p \in Plants, SimInv, PlantGivesUp(p) \/ PlantReset(p) PROVE SimInv'
  <1>1. SimTypeOK /\ plant \in [Plants -> PlantStates]
      BY DEF SimInv, SimTypeOK, PlantStates
  <1>2. /\ plant[p] \in PlantStates /\ plant[p].lost \in Nat /\ plant[p].world \in Nat
        /\ plant[p].waiting \in BOOLEAN
      BY <1>1, SimTypes
  <1>3. CASE PlantGivesUp(p)
    <2>1. PICK n \in Nat : n = plant[p].lost + 1
        BY <1>2
    <2>2. PICK new : new = [plant[p] EXCEPT !.waiting = FALSE, !.lost = n]
        OBVIOUS
    <2>3. new \in PlantStates
        BY <1>2, <2>2 DEF PlantStates
    <2>4. /\ new.boot = plant[p].boot /\ new.ts = plant[p].ts /\ new.lost = n
          /\ new.waiting = FALSE /\ new.lockstep = plant[p].lockstep
        BY <1>2, <2>2 DEF PlantStates
    <2>5. /\ plant' = [plant EXCEPT ![p] = new]
          /\ UNCHANGED <<wire, link, source, wall, loop, core, run, history>>
        BY <1>1, <1>3, <2>1, <2>2 DEF PlantGivesUp
    <2>6. new.lost > plant[p].lost /\ plant[p].lost <= new.lost /\ ~new.waiting
        BY <1>2, <2>1, <2>4
    <2>7. wire' \subseteq wire
        BY <2>5
    <2> QED
        BY <2>3, <2>4, <2>5, <2>6, <2>7, PlantTurns
  <1>4. CASE PlantReset(p)
    <2>1. PICK n \in Nat : n = plant[p].world + 1
        BY <1>2
    <2>2. PICK new : new = [plant[p] EXCEPT !.world = n]
        OBVIOUS
    <2>3. new \in PlantStates
        BY <1>2, <2>2 DEF PlantStates
    <2>4. /\ new.boot = plant[p].boot /\ new.ts = plant[p].ts /\ new.lost = plant[p].lost
          /\ new.waiting = plant[p].waiting /\ new.lockstep = plant[p].lockstep
        BY <1>2, <2>2 DEF PlantStates
    <2>5. /\ plant' = [plant EXCEPT ![p] = new]
          /\ UNCHANGED <<wire, link, source, wall, loop, core, run, history>>
        BY <1>1, <1>4, <2>1, <2>2 DEF PlantReset
    <2>6. plant[p].lost <= new.lost
        BY <1>2, <2>4
    <2>7. wire' \subseteq wire
        BY <2>5
    <2> QED
        BY <2>3, <2>4, <2>5, <2>6, <2>7, PlantTurns
  <1> QED
      BY <1>3, <1>4

LEMMA PlantRestarts ==
    ASSUME NEW p \in Plants, NEW lockstep \in BOOLEAN, SimInv, PlantRestart(p, lockstep)
    PROVE  SimInv'
  <1>1. SimTypeOK /\ plant \in [Plants -> PlantStates] /\ wire \subseteq Samples
      BY DEF SimInv, SimTypeOK, PlantStates
  <1>2. PICK new : new = [NewPlant(lockstep) EXCEPT !.boot = plant[p].boot + 1]
      OBVIOUS
  <1>3. new \in PlantStates /\ new.waiting = FALSE
    <2>1. PICK n \in Nat : n = plant[p].boot + 1
        BY <1>1, SimTypes
    <2>2. new = [NewPlant(lockstep) EXCEPT !.boot = n]
        BY <1>2, <2>1
    <2> QED
        BY <2>1, <2>2 DEF NewPlant, PlantStates
  <1>4. /\ plant' = [plant EXCEPT ![p] = new]
        /\ wire' = {m \in wire : m.src # p}
        /\ history' = [history EXCEPT !.unheard = @ \/ p \in Remembered]
        /\ UNCHANGED <<link, source, wall, loop, core, run>>
      BY <1>2 DEF PlantRestart
  <1>5. plant' \in [Plants -> PlantStates] /\ plant'[p] = new /\ \A q \in Plants : q # p => plant'[q] = plant[q]
      BY <1>1, <1>3, <1>4
  <1>6. /\ history' \in [unheard : BOOLEAN, overtaken : BOOLEAN]
        /\ history.unheard => history'.unheard
        /\ history'.overtaken = history.overtaken
        /\ ~history'.unheard => p \notin Remembered
    <2>1. history \in [unheard : BOOLEAN, overtaken : BOOLEAN]
        BY <1>1 DEF SimTypeOK
    <2>2. PICK b \in BOOLEAN : b <=> (history.unheard \/ p \in Remembered)
        OBVIOUS
    <2>3. history' = [history EXCEPT !.unheard = b]
        BY <1>4, <2>1, <2>2
    <2> QED
        BY <2>1, <2>2, <2>3
  <1>7. PICK K \in SUBSET Plants : K = Plants \ {p}
      OBVIOUS
  <1>8. \A q \in K, t \in Nat, l \in Nat : Behind(t, l, q) => Behind(t, l, q)'
    <2> TAKE q \in K, t \in Nat, l \in Nat
    <2> HAVE Behind(t, l, q)
    <2>1. plant'[q] = plant[q] /\ plant[q].lost \in Nat
        BY <1>1, <1>5, <1>7, SimTypes
    <2>2. \A m \in wire' : m \in wire
        BY <1>4
    <2> QED
        BY <1>1, <1>4, <1>5, <1>7, <2>1, <2>2, BehindGoesOn
  <1>9. \A q \in K : /\ plant'[q].boot = plant[q].boot
                     /\ plant[q].ts <= plant'[q].ts /\ plant[q].lost <= plant'[q].lost
      BY <1>1, <1>5, <1>7, SimTypes
  <1>10. \A q \in Plants : plant'[q].waiting => plant'[q].ts > 0
      BY <1>1, <1>3, <1>5 DEF SimTypeOK
  <1>11. \A m \in wire' : m \in wire /\ m.src \in K
      BY <1>1, <1>4, <1>7, SimTypes
  <1>12. /\ ~history'.unheard /\ link.pending # NoSample => link.pending.src \in K
         /\ ~history'.unheard /\ link.plant # Nobody => link.plant \in K
      BY <1>1, <1>6, <1>7, SimTypes DEF Remembered
  <1>13. wire' \subseteq Samples
      BY <1>1, <1>4
  <1>14. UNCHANGED <<link, source, wall, loop, core, run>>
      BY <1>4
  <1> QED
      BY <1>5, <1>6, <1>8, <1>9, <1>10, <1>11, <1>12, <1>13, <1>14, PlantsMove

(* Samples arrive or are lost, and a plant may be answered.                *)
LEMMA BehindAnswered ==
    ASSUME SimTypeOK, NEW p \in Plants, NEW t \in Nat, NEW l \in Nat, Behind(t, l, p),
           plant'[p].ts = plant[p].ts, plant'[p].lost = plant[p].lost,
           plant'[p].lockstep = plant[p].lockstep,
           plant'[p].waiting = plant[p].waiting \/ t >= plant[p].ts,
           wire' \subseteq wire,
           link'.pending = NoSample \/ link'.pending = link.pending \/ link'.pending \in wire
    PROVE  Behind(t, l, p)'
  <1> SUFFICES ASSUME plant[p].lockstep PROVE Behind(t, l, p)'
      BY DEF Behind
  <1>1. plant[p].ts \in Nat /\ plant[p].lost \in Nat
      BY SimTypes
  <1>2. /\ t <= plant[p].ts /\ l <= plant[p].lost
        /\ plant[p].ts > t + 1 \/ (plant[p].ts = t + 1 /\ ~plant[p].waiting) => plant[p].lost > l
      BY DEF Behind
  <1>3. plant'[p].ts > t + 1 \/ (plant'[p].ts = t + 1 /\ ~plant'[p].waiting) => plant'[p].lost > l
      BY <1>1, <1>2
  <1>4. \A m \in wire' : m.src = p /\ m.ts > t + 1 => m.lost > l
      BY DEF Behind
  <1>5. link'.pending # NoSample /\ link'.pending.src = p /\ link'.pending.ts > t + 1 =>
            link'.pending.lost > l
      BY DEF Behind
  <1> QED
      BY <1>2, <1>3, <1>4, <1>5 DEF Behind

LEMMA AnsweredFacts ==
    ASSUME plant \in [Plants -> PlantStates], NEW p, NEW echo, NEW arrives \in BOOLEAN,
           NEW ps, ps = Answered(plant, p, echo, arrives)
    PROVE  /\ ps \in [Plants -> PlantStates]
           /\ \A q \in Plants :
                /\ ps[q].boot = plant[q].boot /\ ps[q].ts = plant[q].ts /\ ps[q].lost = plant[q].lost
                /\ ps[q].lockstep = plant[q].lockstep
                /\ ps[q].waiting = plant[q].waiting \/ (q = p /\ plant[q].ts = echo)
                /\ ps[q].waiting => plant[q].waiting
  <1>1. CASE p \in Plants /\ arrives /\ plant[p].waiting /\ plant[p].ts = echo
    <2>1. plant[p] \in PlantStates
        BY <1>1
    <2>2. PICK new : new = [plant[p] EXCEPT !.waiting = FALSE]
        OBVIOUS
    <2>3. new \in PlantStates
        BY <2>1, <2>2 DEF PlantStates
    <2>4. /\ new.boot = plant[p].boot /\ new.ts = plant[p].ts /\ new.lost = plant[p].lost
          /\ new.waiting = FALSE /\ new.lockstep = plant[p].lockstep
        BY <2>1, <2>2 DEF PlantStates
    <2>5. ps = [plant EXCEPT ![p] = new]
        BY <1>1, <2>2 DEF Answered
    <2> QED
        BY <1>1, <2>3, <2>4, <2>5
  <1>2. CASE ~(p \in Plants /\ arrives /\ plant[p].waiting /\ plant[p].ts = echo)
    <2>1. ps = plant
        BY <1>2 DEF Answered
    <2> QED
        BY <2>1
  <1> QED
      BY <1>1, <1>2

LEMMA LinkMoves ==
    ASSUME SimInv, UNCHANGED <<source, wall, loop, core, run>>,
           plant' \in [Plants -> PlantStates],
           \A q \in Plants :
               /\ plant'[q].boot = plant[q].boot /\ plant'[q].ts = plant[q].ts
               /\ plant'[q].lost = plant[q].lost /\ (plant'[q].waiting => plant[q].waiting)
               /\ plant'[q].lockstep = plant[q].lockstep,
           wire' \subseteq wire,
           link' \in [plant : Plants \cup {Nobody}, pending : Samples \cup {NoSample}, reply : Nat],
           link'.plant = link.plant, link'.reply = link.reply,
           link'.pending = NoSample \/ link'.pending = link.pending \/ link'.pending \in wire,
           history' \in [unheard : BOOLEAN, overtaken : BOOLEAN],
           history'.unheard = history.unheard, history.overtaken => history'.overtaken,
           InOrder' => \A q \in Plants :
               \/ plant'[q].waiting = plant[q].waiting
               \/ /\ q = link.plant /\ link.reply >= plant[q].ts /\ link'.pending = NoSample
                  /\ \A m \in wire' : m.src = q => m.ts >= plant[q].ts,
           InOrder' /\ link'.pending # NoSample =>
               \A m \in wire' : m.src = link'.pending.src => m.ts >= link'.pending.ts
    PROVE  SimInv'
  <1>1. /\ SimTypeOK /\ CoreFollows /\ SamplesArePresent /\ RunIsOfPlant
        /\ SourceIsAhead /\ LossIsNoted
      BY DEF SimInv
  <1>2. SimTypeOK'
    <2>1. \A q \in Plants : plant'[q].waiting => plant'[q].ts > 0
        BY <1>1 DEF SimTypeOK
    <2> QED
        BY <1>1, <2>1 DEF SimTypeOK, PlantStates
  <1>3. CoreFollows'
      BY <1>1 DEF CoreFollows
  <1>4. \A m \in Samples : IsOf(m) => IsOf(m)'
    <2>1. \A m \in Samples : m.src \in Plants
        BY DEF Samples
    <2> QED
        BY <2>1 DEF IsOf
  <1>5. SamplesArePresent'
    <2>1. \A m \in wire' : IsOf(m)'
        BY <1>1, <1>4 DEF SamplesArePresent, SimTypeOK
    <2>2. Present' => IsOf(link.pending)'
      <3> SUFFICES ASSUME Present' PROVE IsOf(link.pending)'
          OBVIOUS
      <3>1. PICK q : q = link'.pending
          OBVIOUS
      <3>2. q # NoSample /\ q \in Samples /\ ~history.unheard
          BY <3>1 DEF Present
      <3>3. IsOf(q)
          BY <1>1, <3>1, <3>2 DEF SamplesArePresent, Present
      <3>4. IsOf(q)'
          BY <1>4, <3>2, <3>3
      <3> QED
          BY <3>1, <3>4 DEF IsOf
    <2> QED
        BY <2>1, <2>2 DEF SamplesArePresent
  <1>6. RunIsOfPlant'
      BY <1>1, SimTypes DEF RunIsOfPlant
  <1>7. LossIsNoted'
    <2> SUFFICES ASSUME InOrder'
                 PROVE  /\ run.hole /\ ~run.free => run.degraded
                        /\ \A m \in wire' : Behind(m.ts, m.lost, m.src)'
                        /\ link'.pending # NoSample =>
                              /\ Behind(link.pending.ts, link.pending.lost, link.pending.src)'
                              /\ \A m \in wire' : m.src = link'.pending.src => m.ts >= link'.pending.ts
                        /\ link.plant # Nobody => link.reply <= source.ts
                        /\ link.plant # Nobody /\ run.frames > 0 /\ ~run.sealed =>
                              /\ run.linkSeen /\ run.open /\ run.start <= run.last
                              /\ link.reply <= run.last
                              /\ Behind(run.last, run.lost, link.plant)'
        BY DEF LossIsNoted
    <2>1. InOrder
        BY <1>1 DEF InOrder, SimTypeOK
    <2>2. \A m \in wire' : Behind(m.ts, m.lost, m.src)'
      <3> TAKE m \in wire'
      <3>1. /\ Behind(m.ts, m.lost, m.src) /\ m.src \in Plants /\ m.ts \in Nat /\ m.lost \in Nat
          BY <1>1, <2>1, SimTypes DEF LossIsNoted
      <3>2. plant'[m.src].waiting = plant[m.src].waiting \/ m.ts >= plant[m.src].ts
          BY <3>1
      <3>3. /\ plant'[m.src].ts = plant[m.src].ts /\ plant'[m.src].lost = plant[m.src].lost
            /\ plant'[m.src].lockstep = plant[m.src].lockstep
          BY <3>1
      <3> QED
          BY <1>1, <3>1, <3>2, <3>3, BehindAnswered
    <2>3. ASSUME link'.pending # NoSample
          PROVE  Behind(link.pending.ts, link.pending.lost, link.pending.src)'
      <3>1. PICK q : q = link'.pending
          OBVIOUS
      <3>2. /\ q \in Samples /\ q # NoSample /\ q.src \in Plants /\ q.ts \in Nat /\ q.lost \in Nat
          BY <2>3, <3>1 DEF Samples
      <3>3. Behind(q.ts, q.lost, q.src)
          BY <1>1, <2>1, <3>1, <3>2 DEF LossIsNoted
      <3>4. plant'[q.src].waiting = plant[q.src].waiting
          BY <2>3, <3>2
      <3>5. /\ plant'[q.src].ts = plant[q.src].ts /\ plant'[q.src].lost = plant[q.src].lost
            /\ plant'[q.src].lockstep = plant[q.src].lockstep
          BY <3>2
      <3>6. PICK t \in Nat, l \in Nat : t = q.ts /\ l = q.lost
          BY <3>2
      <3>7. Behind(t, l, q.src)'
          BY <1>1, <3>2, <3>3, <3>4, <3>5, <3>6, BehindAnswered
      <3> QED
          BY <3>1, <3>6, <3>7 DEF Behind
    <2>4. ASSUME link.plant # Nobody /\ run.frames > 0 /\ ~run.sealed
          PROVE  Behind(run.last, run.lost, link.plant)'
      <3>1. PICK t \in Nat, l \in Nat : t = run.last /\ l = run.lost
          BY <1>1, SimTypes
      <3>2. PICK p \in Plants : p = link.plant
          BY <1>1, <2>4, SimTypes
      <3>3. Behind(t, l, p) /\ link.reply <= t
          BY <1>1, <2>1, <2>4, <3>1, <3>2 DEF LossIsNoted
      <3>4. plant'[p].waiting = plant[p].waiting \/ t >= plant[p].ts
        <4>1. link.reply \in Nat /\ plant[p].ts \in Nat
            BY <1>1, SimTypes
        <4> QED
            BY <3>3, <4>1
      <3>5. /\ plant'[p].ts = plant[p].ts /\ plant'[p].lost = plant[p].lost
            /\ plant'[p].lockstep = plant[p].lockstep
          OBVIOUS
      <3>6. Behind(t, l, p)'
          BY <1>1, <3>3, <3>4, <3>5, BehindAnswered
      <3>7. t = run'.last /\ l = run'.lost /\ p = link'.plant
          BY <3>1, <3>2
      <3> QED
          BY <3>6, <3>7 DEF Behind
    <2> QED
        BY <1>1, <2>1, <2>2, <2>3, <2>4 DEF LossIsNoted
  <1>8. SourceIsAhead'
    <2>1. InOrder' => InOrder
        BY <1>1 DEF InOrder, SimTypeOK
    <2>2. link.plant # Nobody => link.plant \in Plants
        BY <1>1, SimTypes
    <2> QED
        BY <1>1, <2>1, <2>2 DEF SourceIsAhead
  <1> QED
      BY <1>2, <1>3, <1>5, <1>6, <1>7, <1>8 DEF SimInv

LEMMA WireLosesOrDelivers ==
    ASSUME NEW m \in wire, SimInv, Lose(m) \/ OnSensor(m) PROVE SimInv'
  <1>1. /\ SimTypeOK /\ LossIsNoted /\ plant \in [Plants -> PlantStates] /\ UNCHANGED plant
        /\ m \in Samples /\ m.ts \in Nat
        /\ history \in [unheard : BOOLEAN, overtaken : BOOLEAN]
        /\ link \in [plant : Plants \cup {Nobody}, pending : Samples \cup {NoSample}, reply : Nat]
      BY SimTypes DEF SimInv, SimTypeOK, PlantStates, Lose, OnSensor
  <1>2. wire' \subseteq wire /\ UNCHANGED <<source, wall, loop, core, run>>
      BY DEF Lose, OnSensor
  <1>3. CASE Lose(m)
    <2>1. UNCHANGED <<link, history>>
        BY <1>3 DEF Lose
    <2>2. InOrder' /\ link'.pending # NoSample =>
               \A k \in wire' : k.src = link'.pending.src => k.ts >= link'.pending.ts
        BY <1>1, <1>2, <2>1 DEF LossIsNoted, InOrder
    <2> QED
        BY <1>1, <1>2, <2>1, <2>2, LinkMoves
  <1>4. CASE OnSensor(m)
    <2>1. /\ link' = [link EXCEPT !.pending = m] /\ wire' = wire \ {m}
          /\ history' = [history EXCEPT !.overtaken = @ \/ \E k \in wire : k.src = m.src /\ k.ts < m.ts]
        BY <1>4 DEF OnSensor
    <2>2. /\ link' \in [plant : Plants \cup {Nobody}, pending : Samples \cup {NoSample}, reply : Nat]
          /\ link'.plant = link.plant /\ link'.reply = link.reply /\ link'.pending = m
        BY <1>1, <2>1
    <2>3. /\ history' \in [unheard : BOOLEAN, overtaken : BOOLEAN]
          /\ history'.unheard = history.unheard /\ (history.overtaken => history'.overtaken)
          /\ ~history'.overtaken => \A k \in wire : ~(k.src = m.src /\ k.ts < m.ts)
      <3>1. PICK b \in BOOLEAN :
               b <=> (history.overtaken \/ \E k \in wire : k.src = m.src /\ k.ts < m.ts)
          OBVIOUS
      <3>2. history' = [history EXCEPT !.overtaken = b]
          BY <1>1, <2>1, <3>1
      <3> QED
          BY <1>1, <3>1, <3>2
    <2>4. InOrder' => \A k \in wire' : k.src = link'.pending.src => k.ts >= link'.pending.ts
      <3> SUFFICES ASSUME InOrder', NEW k \in wire', k.src = m.src PROVE k.ts >= m.ts
          BY <2>2
      <3>1. k \in wire /\ k.ts \in Nat
          BY <1>1, <2>1, SimTypes
      <3> QED
          BY <1>1, <2>3, <3>1 DEF InOrder
    <2> QED
        BY <1>1, <1>2, <2>2, <2>3, <2>4, LinkMoves
  <1> QED
      BY <1>3, <1>4

LEMMA SourceTakesForeign == SimInv /\ TakeForeign => SimInv'
  <1> SUFFICES ASSUME SimInv, TakeForeign PROVE SimInv'
      OBVIOUS
  <1>1. /\ plant \in [Plants -> PlantStates]
        /\ history \in [unheard : BOOLEAN, overtaken : BOOLEAN]
        /\ link \in [plant : Plants \cup {Nobody}, pending : Samples \cup {NoSample}, reply : Nat]
      BY DEF SimInv, SimTypeOK, PlantStates
  <1>2. /\ link' = [link EXCEPT !.pending = NoSample]
        /\ UNCHANGED <<plant, wire, source, wall, loop, core, run, history>>
      BY DEF TakeForeign
  <1>3. /\ link' \in [plant : Plants \cup {Nobody}, pending : Samples \cup {NoSample}, reply : Nat]
        /\ link'.plant = link.plant /\ link'.reply = link.reply /\ link'.pending = NoSample
      BY <1>1, <1>2
  <1> QED
      BY <1>1, <1>2, <1>3, LinkMoves

LEMMA SourceTakesRepeated ==
    ASSUME NEW arrives \in BOOLEAN, SimInv, TakeRepeated(arrives) PROVE SimInv'
  <1>1. /\ plant \in [Plants -> PlantStates] /\ SimTypeOK /\ SamplesArePresent /\ LossIsNoted
        /\ history \in [unheard : BOOLEAN, overtaken : BOOLEAN]
        /\ link \in [plant : Plants \cup {Nobody}, pending : Samples \cup {NoSample}, reply : Nat]
      BY DEF SimInv, SimTypeOK, PlantStates
  <1>2. /\ link' = [link EXCEPT !.pending = NoSample]
        /\ UNCHANGED <<wire, source, wall, loop, core, run, history>>
        /\ link.pending # NoSample /\ ~Foreign(link.pending) /\ Repeated(link.pending)
        /\ plant' = plant \/ plant' = Answered(plant, link.plant, link.reply, arrives)
      BY DEF TakeRepeated
  <1>3. /\ link' \in [plant : Plants \cup {Nobody}, pending : Samples \cup {NoSample}, reply : Nat]
        /\ link'.plant = link.plant /\ link'.reply = link.reply /\ link'.pending = NoSample
      BY <1>1, <1>2
  <1>4. /\ link.plant # Nobody /\ link.pending.src = link.plant /\ link.pending.ts = source.ts
      BY <1>2 DEF Foreign, Repeated
  <1>5. CASE plant' = plant
      BY <1>1, <1>2, <1>3, <1>5, LinkMoves
  <1>6. CASE plant' = Answered(plant, link.plant, link.reply, arrives)
    <2>1. /\ plant' \in [Plants -> PlantStates]
          /\ \A q \in Plants :
                /\ plant'[q].boot = plant[q].boot /\ plant'[q].ts = plant[q].ts
                /\ plant'[q].lost = plant[q].lost /\ plant'[q].lockstep = plant[q].lockstep
                /\ plant'[q].waiting = plant[q].waiting \/ (q = link.plant /\ plant[q].ts = link.reply)
                /\ plant'[q].waiting => plant[q].waiting
        BY <1>1, <1>6, AnsweredFacts
    <2>2. ASSUME InOrder', NEW q \in Plants, q = link.plant /\ plant[q].ts = link.reply
          PROVE  /\ link.reply >= plant[q].ts
                 /\ \A m \in wire' : m.src = q => m.ts >= plant[q].ts
      <3>1. InOrder /\ IsOf(link.pending)
          BY <1>1, <1>2, <2>2 DEF InOrder, SamplesArePresent, Present
      <3>2. /\ link.reply <= source.ts /\ source.ts \in Nat /\ link.reply \in Nat
            /\ \A m \in wire : m.src = link.pending.src => m.ts >= link.pending.ts
          BY <1>1, <1>2, <1>4, <3>1, SimTypes DEF LossIsNoted
      <3>3. \A m \in wire' : m.src = q => m.ts >= plant[q].ts
        <4> TAKE m \in wire'
        <4> HAVE m.src = q
        <4>1. m \in wire /\ m.ts \in Nat
            BY <1>1, <1>2, SimTypes
        <4>2. m.ts >= source.ts
            BY <1>4, <2>2, <3>2, <4>1
        <4> QED
            BY <2>2, <3>2, <4>1, <4>2
      <3> QED
          BY <2>2, <3>2, <3>3
    <2>3. InOrder' => \A q \in Plants :
               \/ plant'[q].waiting = plant[q].waiting
               \/ /\ q = link.plant /\ link.reply >= plant[q].ts /\ link'.pending = NoSample
                  /\ \A m \in wire' : m.src = q => m.ts >= plant[q].ts
        BY <1>3, <2>1, <2>2
    <2> QED
        BY <1>1, <1>2, <1>3, <2>1, <2>3, LinkMoves
  <1> QED
      BY <1>2, <1>5, <1>6

LEMMA SourceLosesPlant == SimInv /\ PlantLost => SimInv'
  <1> SUFFICES ASSUME SimInv, PlantLost PROVE SimInv'
      OBVIOUS
  <1>1. /\ SimTypeOK /\ CoreFollows /\ SamplesArePresent /\ RunIsOfPlant
        /\ SourceIsAhead /\ LossIsNoted
      BY DEF SimInv
  <1>2. /\ link' = [link EXCEPT !.plant = Nobody, !.reply = 0] /\ link.pending = NoSample
        /\ source' = [source EXCEPT !.seen = FALSE, !.changed = TRUE]
        /\ UNCHANGED <<plant, wire, wall, loop, core, run, history>>
      BY DEF PlantLost, SetPlant
  <1>3. /\ link' \in [plant : Plants \cup {Nobody}, pending : Samples \cup {NoSample}, reply : Nat]
        /\ link'.plant = Nobody /\ link'.pending = NoSample
        /\ source' \in [seen : BOOLEAN, ts : Nat, world : Nat, changed : BOOLEAN]
        /\ source'.changed = TRUE
      BY <1>1, <1>2 DEF SimTypeOK
  <1>4. SimTypeOK'
      BY <1>1, <1>2, <1>3 DEF SimTypeOK
  <1>5. CoreFollows'
      BY <1>1, <1>2, <1>3 DEF CoreFollows
  <1>6. SamplesArePresent' /\ RunIsOfPlant'
      BY <1>1, <1>2, <1>3 DEF SamplesArePresent, Present, RunIsOfPlant, IsOf
  <1>7. LossIsNoted'
      BY <1>1, <1>2, <1>3 DEF LossIsNoted, InOrder, Behind
  <1>8. SourceIsAhead'
      BY <1>3 DEF SourceIsAhead
  <1> QED
      BY <1>4, <1>5, <1>6, <1>7, <1>8 DEF SimInv

RunStates == [open : BOOLEAN, start : Nat, window : Nat,
              world : (Plants \cup {Nobody}) \X Nat \X Nat, last : Nat, frames : Nat,
              mixed : BOOLEAN, hole : BOOLEAN, sealed : BOOLEAN, degraded : BOOLEAN,
              linkSeen : BOOLEAN, lost : Nat, free : BOOLEAN]

(* The run a frame with a new time base or a new world opens.              *)
LEMMA BeginRunFacts ==
    ASSUME NEW r \in RunStates, NEW m \in Samples, NEW window \in Nat,
           NEW n, n = BeginRun(r, m, window)
    PROVE  /\ n \in RunStates /\ n.open /\ n.start = m.ts /\ n.last = 0 /\ n.frames = 0
           /\ ~n.mixed /\ ~n.hole /\ ~n.sealed /\ ~n.degraded /\ ~n.linkSeen
  <1>1. m.ts \in Nat /\ r.lost \in Nat
      BY DEF Samples, RunStates
  <1>2. n = [open |-> TRUE, start |-> m.ts, window |-> window, world |-> <<Nobody, 0, 0>>,
             last |-> 0, frames |-> 0, mixed |-> FALSE, hole |-> FALSE, sealed |-> FALSE,
             degraded |-> FALSE, linkSeen |-> FALSE, lost |-> r.lost, free |-> FALSE]
      BY DEF BeginRun, FreshRun
  <1> QED
      BY <1>1, <1>2 DEF RunStates

(* A frame folded into the run, or left out of it.                         *)
LEMMA UpdateFacts ==
    ASSUME NEW r \in RunStates, NEW m \in Samples, NEW u, u = Update(r, m)
    PROVE  /\ u \in RunStates
           /\ u.open = r.open /\ u.start = r.start /\ u.degraded = r.degraded
           /\ u.linkSeen = r.linkSeen /\ u.lost = r.lost
           /\ \/ /\ u.frames = r.frames /\ u.last = r.last /\ u.world = r.world
                 /\ u.mixed = r.mixed /\ u.hole = r.hole /\ u.free = r.free
                 /\ ~r.open \/ u.sealed \/ m.ts < r.start
                 /\ r.sealed => u.sealed
              \/ /\ u.last = m.ts /\ u.world = WorldOf(m) /\ r.open /\ ~r.sealed /\ ~u.sealed
                 /\ m.ts >= r.start
                 /\ u.mixed <=> r.mixed \/ (r.frames > 0 /\ (r.world # WorldOf(m) \/ m.ts <= r.last))
                 /\ u.hole <=> r.hole \/ (r.frames > 0 /\ m.ts # r.last + 1)
                 /\ u.free <=> r.free \/ ~plant[m.src].lockstep
  <1>1. /\ m.ts \in Nat /\ m.src \in Plants /\ m.boot \in Nat /\ m.world \in Nat
        /\ r.frames \in Nat /\ r.start \in Nat /\ r.last \in Nat
      BY DEF Samples, RunStates
  <1>2. CASE ~r.open \/ r.sealed \/ m.ts < r.start
    <2>1. u = r
        BY <1>2 DEF Update
    <2> QED
        BY <1>2, <2>1 DEF RunStates
  <1>3. CASE ~(~r.open \/ r.sealed \/ m.ts < r.start) /\ m.ts - r.start >= r.window
    <2>1. u = [r EXCEPT !.sealed = TRUE]
        BY <1>3 DEF Update
    <2>2. u \in RunStates /\ u.sealed
        BY <2>1 DEF RunStates
    <2>3. /\ u.open = r.open /\ u.start = r.start /\ u.degraded = r.degraded
          /\ u.linkSeen = r.linkSeen /\ u.lost = r.lost
          /\ u.frames = r.frames /\ u.last = r.last /\ u.world = r.world
          /\ u.mixed = r.mixed /\ u.hole = r.hole /\ u.free = r.free
        BY <2>1 DEF RunStates
    <2> QED
        BY <2>2, <2>3
  <1>4. CASE ~(~r.open \/ r.sealed \/ m.ts < r.start) /\ ~(m.ts - r.start >= r.window)
    <2>1. PICK n \in Nat : n = r.frames + 1
        BY <1>1
    <2>2. PICK w \in (Plants \cup {Nobody}) \X Nat \X Nat : w = WorldOf(m)
        BY <1>1 DEF WorldOf
    <2>3. PICK x \in BOOLEAN :
             x <=> r.mixed \/ (r.frames > 0 /\ (r.world # WorldOf(m) \/ m.ts <= r.last))
        OBVIOUS
    <2>4. PICK h \in BOOLEAN : h <=> r.hole \/ (r.frames > 0 /\ m.ts # r.last + 1)
        OBVIOUS
    <2>5. /\ r.mixed \in BOOLEAN /\ r.hole \in BOOLEAN /\ r.free \in BOOLEAN
        BY DEF RunStates
    <2>0. PICK f \in BOOLEAN : f <=> r.free \/ ~plant[m.src].lockstep
        OBVIOUS
    <2>14. f = (r.free \/ ~plant[m.src].lockstep)
        BY <2>0, <2>5
    <2>6. x = (r.mixed \/ (r.frames > 0 /\ (r.world # WorldOf(m) \/ m.ts <= r.last)))
        BY <2>3, <2>5
    <2>7. h = (r.hole \/ (r.frames > 0 /\ m.ts # r.last + 1))
        BY <2>4, <2>5
    <2>8. u = [r EXCEPT !.frames = r.frames + 1, !.last = m.ts, !.world = WorldOf(m),
                        !.mixed = r.mixed \/ (r.frames > 0 /\ (r.world # WorldOf(m) \/ m.ts <= r.last)),
                        !.hole = r.hole \/ (r.frames > 0 /\ m.ts # r.last + 1),
                        !.free = r.free \/ ~plant[m.src].lockstep]
        BY <1>4 DEF Update, RunStates
    <2>9. u = [r EXCEPT !.frames = n, !.last = m.ts, !.world = w, !.mixed = x, !.hole = h,
                        !.free = f]
        BY <2>1, <2>2, <2>6, <2>7, <2>8, <2>14
    <2>10. u \in RunStates
        BY <1>1, <2>9 DEF RunStates
    <2>11. /\ u.open = r.open /\ u.start = r.start /\ u.degraded = r.degraded
           /\ u.linkSeen = r.linkSeen /\ u.lost = r.lost /\ u.sealed = r.sealed
        BY <2>9 DEF RunStates
    <2>12. u.last = m.ts /\ u.world = w /\ u.mixed = x /\ u.hole = h /\ u.free = f
        BY <2>9 DEF RunStates
    <2>13. r.open /\ ~r.sealed /\ m.ts >= r.start
        BY <1>1, <1>4
    <2> QED
        BY <2>0, <2>2, <2>3, <2>4, <2>10, <2>11, <2>12, <2>13
  <1> QED
      BY <1>2, <1>3, <1>4

LEMMA NoteLinkFacts ==
    ASSUME NEW r \in RunStates, NEW m \in Samples, NEW n, n = NoteLink(r, m)
    PROVE  /\ n \in RunStates /\ n.lost = m.lost /\ n.linkSeen
           /\ n.degraded <=> r.degraded \/ (r.linkSeen /\ m.lost > r.lost)
           /\ n.open = r.open /\ n.start = r.start /\ n.frames = r.frames /\ n.last = r.last
           /\ n.world = r.world /\ n.mixed = r.mixed /\ n.hole = r.hole /\ n.sealed = r.sealed
           /\ n.free = r.free
  <1>1. PICK d \in BOOLEAN : d <=> r.degraded \/ (r.linkSeen /\ m.lost > r.lost)
      OBVIOUS
  <1>2. r.degraded \in BOOLEAN /\ m.lost \in Nat
      BY DEF RunStates, Samples
  <1>3. d = (r.degraded \/ (r.linkSeen /\ m.lost > r.lost))
      BY <1>1, <1>2
  <1>4. n = [r EXCEPT !.degraded = r.degraded \/ (r.linkSeen /\ m.lost > r.lost),
                      !.lost = m.lost, !.linkSeen = TRUE]
      BY DEF NoteLink, RunStates
  <1>5. n = [r EXCEPT !.degraded = d, !.lost = m.lost, !.linkSeen = TRUE]
      BY <1>3, <1>4
  <1>6. n \in RunStates /\ n.degraded = d /\ n.lost = m.lost /\ n.linkSeen
      BY <1>2, <1>5 DEF RunStates
  <1>7. /\ n.open = r.open /\ n.start = r.start /\ n.frames = r.frames /\ n.last = r.last
        /\ n.world = r.world /\ n.mixed = r.mixed /\ n.hole = r.hole /\ n.sealed = r.sealed
        /\ n.free = r.free
      BY <1>5 DEF RunStates
  <1> QED
      BY <1>1, <1>6, <1>7

(* What a frame finds and leaves.                                          *)
NewBase == source.changed \/ link.plant = Nobody
            \/ (source.seen /\ link.pending.ts < source.ts)
Opens == NewBase \/ ~loop.resetSeen \/ link.pending.world # loop.lastReset

LEMMA FrameFinds ==
    ASSUME NEW arrives \in BOOLEAN, NEW trial \in BOOLEAN, SimInv, SensorFrame(arrives, trial)
    PROVE  /\ link.pending \in Samples /\ link.pending # NoSample /\ link.pending.src \in Plants
           /\ link.pending.ts \in Nat \ {0} /\ link.pending.lost \in Nat
           /\ link.pending.world \in Nat
           /\ ~NewBase => /\ link.plant = link.pending.src /\ link.plant # Nobody
                        /\ link.pending.ts > source.ts
           /\ InOrder /\ link.plant # Nobody =>
                 link.plant = link.pending.src /\ link.pending.ts > source.ts
  <1>1. SimTypeOK /\ CoreFollows /\ SourceIsAhead
      BY DEF SimInv
  <1>2. link.pending # NoSample /\ ~Foreign(link.pending) /\ ~Repeated(link.pending)
      BY DEF SensorFrame
  <1>3. /\ link.pending \in Samples /\ link.pending.src \in Plants
        /\ link.pending.ts \in Nat \ {0} /\ link.pending.lost \in Nat
        /\ link.pending.world \in Nat
        /\ source.ts \in Nat /\ source.seen \in BOOLEAN /\ source.changed \in BOOLEAN
      BY <1>1, <1>2, SimTypes
  <1>4. link.plant # Nobody => /\ source.seen /\ ~source.changed /\ link.plant = link.pending.src
                               /\ link.pending.ts # source.ts
      BY <1>1, <1>2 DEF CoreFollows, Foreign, Repeated
  <1> QED
      BY <1>1, <1>2, <1>3, <1>4 DEF NewBase, SourceIsAhead

LEMMA FrameLeaves ==
    ASSUME NEW arrives \in BOOLEAN, NEW trial \in BOOLEAN, SimInv, SensorFrame(arrives, trial),
           NEW m, m = link.pending
    PROVE  /\ UNCHANGED <<wire, wall, history>>
           /\ source' = [seen |-> TRUE, ts |-> m.ts, world |-> m.world, changed |-> FALSE]
           /\ loop'.lastReset = m.world
           /\ loop' \in [lastUs : Nat, resetSeen : BOOLEAN, lastReset : Nat, parked : BOOLEAN,
                         session : BOOLEAN, reboot : BOOLEAN, inhibited : BOOLEAN, window : Nat]
           /\ link'.plant = m.src /\ link'.pending = NoSample
           /\ ~Dropped => link'.reply = m.ts
           /\ Dropped => link'.reply = IF link.plant = m.src THEN link.reply ELSE 0
           /\ plant' = Answered(plant, m.src, m.ts, arrives)
           /\ Dropped => ~arrives
  <1>1. SimTypeOK
      BY DEF SimInv
  <1>2. /\ m \in Samples /\ m.ts \in Nat /\ m.world \in Nat
      BY FrameFinds
  <1>3. /\ UNCHANGED <<wire, wall, history>>
        /\ source' = [Sensed(m) EXCEPT !.changed = FALSE]
        /\ loop' = [AfterFrame(m.ts, trial) EXCEPT !.resetSeen = TRUE, !.lastReset = m.world]
        /\ link' = [plant |-> m.src, pending |-> NoSample,
                    reply |-> IF Dropped THEN IF link.plant = m.src THEN link.reply ELSE 0
                              ELSE m.ts]
        /\ plant' = Answered(plant, m.src, m.ts, arrives)
        /\ Dropped => ~arrives
      BY DEF SensorFrame
  <1>4. source' = [seen |-> TRUE, ts |-> m.ts, world |-> m.world, changed |-> FALSE]
      BY <1>3 DEF Sensed
  <1>5. /\ loop'.lastReset = m.world
        /\ loop' \in [lastUs : Nat, resetSeen : BOOLEAN, lastReset : Nat, parked : BOOLEAN,
                      session : BOOLEAN, reboot : BOOLEAN, inhibited : BOOLEAN, window : Nat]
    <2>1. PICK d \in BOOLEAN : d <=> Dropped
        OBVIOUS
    <2>2. d = Dropped
        BY <1>1, <2>1 DEF Dropped
    <2>3. PICK i \in BOOLEAN : i = IF loop.reboot THEN trial ELSE loop.inhibited
        BY <1>1 DEF SimTypeOK
    <2>4. PICK next : next = [loop EXCEPT !.lastUs = m.ts, !.reboot = FALSE, !.session = d,
                                          !.parked = d, !.inhibited = i]
        OBVIOUS
    <2>5. next = AfterFrame(m.ts, trial)
        BY <1>1, <2>2, <2>3, <2>4 DEF AfterFrame, SimTypeOK
    <2>6. next \in [lastUs : Nat, resetSeen : BOOLEAN, lastReset : Nat, parked : BOOLEAN,
                    session : BOOLEAN, reboot : BOOLEAN, inhibited : BOOLEAN, window : Nat]
        BY <1>1, <1>2, <2>4, ZenonT(60) DEF SimTypeOK
    <2>7. loop' = [next EXCEPT !.resetSeen = TRUE, !.lastReset = m.world]
        BY <1>3, <2>5
    <2> QED
        BY <1>2, <2>6, <2>7
  <1> QED
      BY <1>3, <1>4, <1>5

(* The core takes the frame's time, rebuilt when it would go back.         *)
LEMMA FrameSteps ==
    ASSUME NEW arrives \in BOOLEAN, NEW trial \in BOOLEAN, SimInv, SensorFrame(arrives, trial)
    PROVE  core'.last \in Nat /\ core'.back = FALSE /\ core'.last <= link.pending.ts
  <1>1. PICK m : m = link.pending
      OBVIOUS
  <1>2. /\ m.ts \in Nat \ {0} /\ SimTypeOK
        /\ ~NewBase => link.plant # Nobody /\ m.ts > source.ts
      BY <1>1, FrameFinds DEF SimInv
  <1>3. PICK rebuilt : /\ rebuilt = CoreFor(Sensed(m).changed \/ WorldReset(m, Sensed(m).changed) \/ loop.reboot)
                       /\ core' = rebuilt \/ \E i : core' = Step(rebuilt, m.ts, TRUE, i)
      BY <1>1 DEF SensorFrame
  <1>4. Sensed(m).changed <=> NewBase
      BY <1>1, <1>2 DEF Sensed, NewBase
  <1>5. rebuilt.last \in Nat /\ rebuilt.back = FALSE /\ rebuilt.last < m.ts
    <2>1. CASE rebuilt = FreshCore
        BY <1>2, <2>1 DEF FreshCore
    <2>2. CASE rebuilt # FreshCore
      <3>1. ~NewBase /\ rebuilt = core
          BY <1>3, <1>4, <2>2 DEF CoreFor
      <3>2. core.last \in Nat /\ core.back = FALSE /\ core.last <= source.ts /\ source.ts \in Nat
          BY <1>2, <3>1, SimTypes DEF SimInv, CoreFollows
      <3> QED
          BY <1>2, <3>1, <3>2
    <2> QED
        BY <2>1, <2>2
  <1>6. CASE core' = rebuilt
      BY <1>1, <1>2, <1>5, <1>6
  <1>7. CASE \E i : core' = Step(rebuilt, m.ts, TRUE, i)
    <2>1. core'.last = m.ts /\ core'.back = (rebuilt.back \/ m.ts <= rebuilt.last)
        BY <1>7 DEF Step
    <2>2. ~(m.ts <= rebuilt.last)
        BY <1>2, <1>5
    <2>3. core'.back = FALSE
        BY <1>5, <2>1, <2>2, Zenon
    <2> QED
        BY <1>1, <1>2, <2>1, <2>3
  <1> QED
      BY <1>3, <1>6, <1>7

(* What becomes of the run: opened, or the one that was, and the frame     *)
(* folded into it or not.                                                  *)
LEMMA FrameRuns ==
    ASSUME NEW arrives \in BOOLEAN, NEW trial \in BOOLEAN, SimInv, SensorFrame(arrives, trial),
           NEW m, m = link.pending
    PROVE  \E r \in RunStates :
              /\ IF Opens
                 THEN /\ r.open /\ r.start = m.ts /\ r.last = 0 /\ r.frames = 0
                      /\ ~r.mixed /\ ~r.hole /\ ~r.sealed /\ ~r.degraded /\ ~r.linkSeen
                 ELSE r = run
              /\ run' = IF Dropped THEN r ELSE NoteLink(Update(r, m), m)
  <1>1. /\ SimTypeOK /\ run \in RunStates /\ loop.window \in Nat /\ m \in Samples
        /\ loop.resetSeen \in BOOLEAN
      BY FrameFinds DEF SimInv, SimTypeOK, RunStates
  <1>2. PICK c : c = Sensed(m).changed
      OBVIOUS
  <1>3. c <=> NewBase
      BY <1>2 DEF Sensed, NewBase
  <1>4. (~TimeBase(c) \/ WorldReset(m, c)) <=> Opens
      BY <1>1, <1>3 DEF TimeBase, WorldReset, Opens
  <1>5. PICK r : /\ r = IF ~TimeBase(c) \/ WorldReset(m, c) THEN BeginRun(run, m, loop.window) ELSE run
                 /\ run' = IF Dropped THEN r ELSE NoteLink(Update(r, m), m)
      BY <1>2 DEF SensorFrame
  <1>6. CASE Opens
    <2>1. r = BeginRun(run, m, loop.window)
        BY <1>4, <1>5, <1>6
    <2>2. /\ r \in RunStates /\ r.open /\ r.start = m.ts /\ r.last = 0 /\ r.frames = 0
          /\ ~r.mixed /\ ~r.hole /\ ~r.sealed /\ ~r.degraded /\ ~r.linkSeen
      <3>1. PICK w \in Nat : w = loop.window
          BY <1>1
      <3>2. PICK o \in RunStates : o = run
          BY <1>1
      <3>3. r = BeginRun(o, m, w)
          BY <2>1, <3>1, <3>2
      <3> QED
          BY <1>1, <3>3, BeginRunFacts
    <2> QED
        BY <1>5, <1>6, <2>2
  <1>7. CASE ~Opens
    <2>1. r = run
        BY <1>4, <1>5, <1>7
    <2> QED
        BY <1>1, <1>5, <1>7, <2>1
  <1> QED
      BY <1>6, <1>7

(* Where the frame is folded in, it goes on from the frame before.         *)
LEMMA FrameFolds ==
    ASSUME NEW arrives \in BOOLEAN, NEW trial \in BOOLEAN, SimInv, SensorFrame(arrives, trial),
           NEW m, m = link.pending
    PROVE  /\ run' \in RunStates /\ run'.last <= m.ts
           /\ ~history.unheard =>
                 /\ ~run'.mixed
                 /\ run'.frames > 0 => run'.world = <<m.src, plant[m.src].boot, m.world>>
           /\ InOrder =>
                 /\ run'.hole /\ ~run'.free => run'.degraded
                 /\ run'.frames > 0 /\ ~run'.sealed =>
                       /\ run'.linkSeen /\ run'.open /\ run'.start <= run'.last
                       /\ \/ ~Dropped /\ run'.last = m.ts /\ run'.lost = m.lost
                          \/ Dropped /\ run' = run /\ link.plant = m.src
  <1>1. /\ SimTypeOK /\ CoreFollows /\ SamplesArePresent /\ RunIsOfPlant /\ LossIsNoted
        /\ run \in RunStates
      BY DEF SimInv, SimTypeOK, RunStates
  <1>2. /\ m \in Samples /\ m # NoSample /\ m.src \in Plants /\ m.ts \in Nat \ {0}
        /\ m.lost \in Nat /\ m.world \in Nat
        /\ ~NewBase => link.plant = m.src /\ link.plant # Nobody /\ m.ts > source.ts
      BY FrameFinds
  <1>3. PICK r \in RunStates :
           /\ IF Opens
              THEN /\ r.open /\ r.start = m.ts /\ r.last = 0 /\ r.frames = 0
                   /\ ~r.mixed /\ ~r.hole /\ ~r.sealed /\ ~r.degraded /\ ~r.linkSeen
              ELSE r = run
           /\ run' = IF Dropped THEN r ELSE NoteLink(Update(r, m), m)
      BY FrameRuns
  <1>4. /\ r.last \in Nat /\ r.frames \in Nat /\ r.lost \in Nat /\ r.start \in Nat
        /\ run.last \in Nat /\ source.ts \in Nat
      BY <1>1, SimTypes DEF RunStates
  <1>5. ~Opens => /\ r = run /\ link.plant = m.src /\ link.plant # Nobody /\ m.ts > source.ts
                  /\ m.world = loop.lastReset /\ run.last <= source.ts
      BY <1>1, <1>2, <1>3 DEF Opens, CoreFollows
  <1>6. r.last < m.ts
      BY <1>2, <1>3, <1>4, <1>5
  <1>7. ~history.unheard => WorldOf(m) = <<m.src, plant[m.src].boot, m.world>>
      BY <1>1, <1>2 DEF SamplesArePresent, Present, IsOf, WorldOf
  <1>8. ~history.unheard => ~r.mixed /\ (r.frames > 0 => r.world = WorldOf(m))
      BY <1>1, <1>3, <1>5, <1>7 DEF RunIsOfPlant
  <1>9. InOrder => /\ r.hole /\ ~r.free => r.degraded
                   /\ r.frames > 0 /\ ~r.sealed =>
                         /\ ~Opens /\ r.linkSeen /\ r.open /\ r.start <= r.last
                         /\ m.ts > r.last + 1 /\ plant[m.src].lockstep => m.lost > r.lost
    <2> SUFFICES ASSUME InOrder
                 PROVE  /\ r.hole /\ ~r.free => r.degraded
                        /\ r.frames > 0 /\ ~r.sealed =>
                              /\ ~Opens /\ r.linkSeen /\ r.open /\ r.start <= r.last
                              /\ m.ts > r.last + 1 /\ plant[m.src].lockstep => m.lost > r.lost
        OBVIOUS
    <2>1. CASE Opens
        BY <1>3, <2>1
    <2>2. CASE ~Opens
      <3>1. /\ r.hole /\ ~r.free => r.degraded
            /\ r.frames > 0 /\ ~r.sealed =>
                  /\ r.linkSeen /\ r.open /\ r.start <= r.last
                  /\ Behind(r.last, r.lost, link.plant)
          BY <1>1, <1>5, <2>2 DEF LossIsNoted
      <3>2. Behind(r.last, r.lost, link.plant) => (m.ts > r.last + 1 /\ plant[m.src].lockstep => m.lost > r.lost)
          BY <1>2, <1>5, <2>2 DEF Behind
      <3> QED
          BY <2>2, <3>1, <3>2
    <2> QED
        BY <2>1, <2>2
  <1>10. CASE Dropped
    <2>1. run' = r
        BY <1>3, <1>10
    <2> QED
        BY <1>2, <1>4, <1>5, <1>6, <1>7, <1>8, <1>9, <1>10, <2>1
  <1>11. CASE ~Dropped
    <2>1. PICK u : u = Update(r, m)
        OBVIOUS
    <2>2. /\ u \in RunStates
          /\ u.open = r.open /\ u.start = r.start /\ u.degraded = r.degraded
          /\ u.linkSeen = r.linkSeen /\ u.lost = r.lost
        BY <1>2, <2>1, UpdateFacts
    <2>3. \/ /\ u.frames = r.frames /\ u.last = r.last /\ u.world = r.world
             /\ u.mixed = r.mixed /\ u.hole = r.hole /\ u.free = r.free
             /\ ~r.open \/ u.sealed \/ m.ts < r.start
             /\ r.sealed => u.sealed
          \/ /\ u.last = m.ts /\ u.world = WorldOf(m) /\ r.open /\ ~r.sealed /\ ~u.sealed
             /\ m.ts >= r.start
             /\ u.mixed <=> r.mixed \/ (r.frames > 0 /\ (r.world # WorldOf(m) \/ m.ts <= r.last))
             /\ u.hole <=> r.hole \/ (r.frames > 0 /\ m.ts # r.last + 1)
             /\ u.free <=> r.free \/ ~plant[m.src].lockstep
        BY <1>2, <2>1, UpdateFacts
    <2>4. PICK n : n = NoteLink(u, m)
        OBVIOUS
    <2>5. /\ n \in RunStates /\ n.lost = m.lost /\ n.linkSeen
          /\ n.degraded <=> u.degraded \/ (u.linkSeen /\ m.lost > u.lost)
          /\ n.open = u.open /\ n.start = u.start /\ n.frames = u.frames /\ n.last = u.last
          /\ n.world = u.world /\ n.mixed = u.mixed /\ n.hole = u.hole /\ n.sealed = u.sealed
          /\ n.free = u.free
        BY <1>2, <2>2, <2>4, NoteLinkFacts
    <2>6. run' = n
        BY <1>3, <1>11, <2>1, <2>4
    <2>7. CASE /\ u.frames = r.frames /\ u.last = r.last /\ u.world = r.world
               /\ u.mixed = r.mixed /\ u.hole = r.hole /\ u.free = r.free
               /\ ~r.open \/ u.sealed \/ m.ts < r.start
               /\ r.sealed => u.sealed
      <3>1. n.last <= m.ts
          BY <1>2, <1>4, <1>6, <2>5, <2>7
      <3>2. ~history.unheard => /\ ~n.mixed
                                /\ n.frames > 0 => n.world = <<m.src, plant[m.src].boot, m.world>>
          BY <1>7, <1>8, <2>5, <2>7
      <3>3. InOrder => (n.hole /\ ~n.free => n.degraded)
          BY <1>9, <2>2, <2>5, <2>7
      <3>4. InOrder => ~(n.frames > 0 /\ ~n.sealed)
        <4> SUFFICES ASSUME InOrder, r.frames > 0, ~r.sealed PROVE u.sealed
            BY <2>5, <2>7
        <4>1. r.open /\ ~(m.ts < r.start)
            BY <1>2, <1>4, <1>6, <1>9
        <4> QED
            BY <2>7, <4>1
      <3> QED
          BY <2>5, <2>6, <3>1, <3>2, <3>3, <3>4
    <2>8. CASE /\ u.last = m.ts /\ u.world = WorldOf(m) /\ r.open /\ ~r.sealed /\ ~u.sealed
               /\ m.ts >= r.start
               /\ u.mixed <=> r.mixed \/ (r.frames > 0 /\ (r.world # WorldOf(m) \/ m.ts <= r.last))
               /\ u.hole <=> r.hole \/ (r.frames > 0 /\ m.ts # r.last + 1)
               /\ u.free <=> r.free \/ ~plant[m.src].lockstep
      <3>1. n.last <= m.ts /\ n.last = m.ts /\ ~(m.ts <= r.last) /\ n.start <= n.last
          BY <1>2, <1>4, <1>6, <2>2, <2>5, <2>8
      <3>2. ~history.unheard => /\ ~n.mixed
                                /\ n.world = <<m.src, plant[m.src].boot, m.world>>
          BY <1>7, <1>8, <2>5, <2>8, <3>1
      <3>3. InOrder => (n.hole /\ ~n.free => n.degraded)
        <4> SUFFICES ASSUME InOrder, n.hole, ~n.free PROVE n.degraded
            OBVIOUS
        <4>0. ~r.free /\ plant[m.src].lockstep
            BY <2>5, <2>8
        <4>1. CASE r.hole
            BY <1>9, <2>2, <2>5, <4>0, <4>1
        <4>2. CASE ~r.hole
          <5>1. r.frames > 0 /\ m.ts # r.last + 1
              BY <2>5, <2>8, <4>2
          <5>2. m.ts > r.last + 1
              BY <1>2, <1>4, <1>6, <5>1
          <5> QED
              BY <1>9, <2>2, <2>5, <2>8, <4>0, <5>1, <5>2
        <4> QED
            BY <4>1, <4>2
      <3> QED
          BY <1>11, <2>2, <2>5, <2>6, <2>8, <3>1, <3>2, <3>3
    <2> QED
        BY <2>3, <2>7, <2>8
  <1> QED
      BY <1>10, <1>11

LEMMA SourceTakesFrame ==
    ASSUME NEW arrives \in BOOLEAN, NEW trial \in BOOLEAN, SimInv, SensorFrame(arrives, trial)
    PROVE  SimInv'
  <1>1. /\ SimTypeOK /\ CoreFollows /\ SamplesArePresent /\ RunIsOfPlant
        /\ SourceIsAhead /\ LossIsNoted
        /\ plant \in [Plants -> PlantStates]
      BY DEF SimInv, SimTypeOK, PlantStates
  <1>2. PICK m : m = link.pending
      OBVIOUS
  <1>3. /\ m \in Samples /\ m # NoSample /\ m.src \in Plants /\ m.ts \in Nat \ {0}
        /\ m.lost \in Nat /\ m.world \in Nat
        /\ InOrder /\ link.plant # Nobody => link.plant = m.src /\ m.ts > source.ts
      BY <1>2, FrameFinds
  <1>4. /\ UNCHANGED <<wire, wall, history>>
        /\ source' = [seen |-> TRUE, ts |-> m.ts, world |-> m.world, changed |-> FALSE]
        /\ loop'.lastReset = m.world
        /\ loop' \in [lastUs : Nat, resetSeen : BOOLEAN, lastReset : Nat, parked : BOOLEAN,
                      session : BOOLEAN, reboot : BOOLEAN, inhibited : BOOLEAN, window : Nat]
        /\ link'.plant = m.src /\ link'.pending = NoSample
        /\ ~Dropped => link'.reply = m.ts
        /\ Dropped => link'.reply = IF link.plant = m.src THEN link.reply ELSE 0
        /\ plant' = Answered(plant, m.src, m.ts, arrives)
        /\ Dropped => ~arrives
      BY <1>2, FrameLeaves
  <1>5. /\ core'.last \in Nat /\ core'.back = FALSE /\ core'.last <= m.ts
      BY <1>2, FrameSteps
  <1>6. /\ run' \in RunStates /\ run'.last <= m.ts
        /\ ~history.unheard =>
              /\ ~run'.mixed
              /\ run'.frames > 0 => run'.world = <<m.src, plant[m.src].boot, m.world>>
        /\ InOrder =>
              /\ run'.hole /\ ~run'.free => run'.degraded
              /\ run'.frames > 0 /\ ~run'.sealed =>
                    /\ run'.linkSeen /\ run'.open /\ run'.start <= run'.last
                    /\ \/ ~Dropped /\ run'.last = m.ts /\ run'.lost = m.lost
                       \/ Dropped /\ run' = run /\ link.plant = m.src
      BY <1>2, FrameFolds
  <1>7. /\ plant' \in [Plants -> PlantStates]
        /\ \A q \in Plants :
              /\ plant'[q].boot = plant[q].boot /\ plant'[q].ts = plant[q].ts
              /\ plant'[q].lost = plant[q].lost /\ plant'[q].lockstep = plant[q].lockstep
              /\ plant'[q].waiting = plant[q].waiting \/ (q = m.src /\ plant[q].ts = m.ts)
              /\ plant'[q].waiting => plant[q].waiting
      BY <1>1, <1>4, AnsweredFacts
  <1>8. Dropped => plant' = plant
      BY <1>4 DEF Answered
  <1>9. link' = [plant |-> link'.plant, pending |-> link'.pending, reply |-> link'.reply]
      BY DEF SensorFrame
  <1>10. SimTypeOK'
    <2>1. link.reply \in Nat
        BY <1>1, SimTypes
    <2>2. link'.reply \in Nat
        BY <1>3, <1>4, <2>1
    <2>3. link' \in [plant : Plants \cup {Nobody}, pending : Samples \cup {NoSample}, reply : Nat]
        BY <1>3, <1>4, <1>9, <2>2
    <2>4. source' \in [seen : BOOLEAN, ts : Nat, world : Nat, changed : BOOLEAN]
        BY <1>3, <1>4
    <2>5. \A q \in Plants : plant'[q].waiting => plant'[q].ts > 0
        BY <1>1, <1>7 DEF SimTypeOK
    <2> QED
        BY <1>1, <1>4, <1>6, <1>7, <2>3, <2>4, <2>5 DEF SimTypeOK, PlantStates, RunStates
  <1>11. CoreFollows'
    <2>1. source'.seen /\ ~source'.changed /\ source'.ts = m.ts
        BY <1>4
    <2>2. link'.plant # Nobody
        BY <1>3, <1>4, SimDroneAssumption
    <2> QED
        BY <1>5, <1>6, <2>1, <2>2 DEF CoreFollows
  <1>12. IsOf(m) \/ history.unheard
      BY <1>1, <1>2, <1>3 DEF SamplesArePresent, Present
  <1>13. SamplesArePresent'
    <2>1. \A k \in wire' : IsOf(k)'
      <3> TAKE k \in wire'
      <3>1. k.src \in Plants /\ IsOf(k)
          BY <1>1, <1>4, SimTypes DEF SamplesArePresent
      <3> QED
          BY <1>7, <3>1 DEF IsOf
    <2> QED
        BY <1>4, <2>1 DEF SamplesArePresent, Present
  <1>14. RunIsOfPlant'
    <2>1. plant'[m.src].boot = plant[m.src].boot
        BY <1>3, <1>7
    <2> QED
        BY <1>4, <1>6, <2>1 DEF RunIsOfPlant
  <1>15. InOrder' => InOrder
      BY <1>4 DEF InOrder
  <1>16. InOrder => /\ \A k \in wire : k.src = m.src => k.ts >= m.ts
                    /\ Behind(m.ts, m.lost, m.src)
                    /\ m.ts <= plant[m.src].ts
      BY <1>1, <1>2, <1>3, <1>12 DEF LossIsNoted, IsOf, InOrder
  <1>17. SourceIsAhead'
    <2>1. source'.ts = m.ts
        BY <1>4
    <2>2. plant'[m.src].ts = plant[m.src].ts
        BY <1>3, <1>7
    <2> QED
        BY <1>4, <1>15, <1>16, <2>1, <2>2 DEF SourceIsAhead
  <1>18. LossIsNoted'
    <2> SUFFICES ASSUME InOrder'
                 PROVE  /\ run'.hole /\ ~run'.free => run'.degraded
                        /\ \A k \in wire' : Behind(k.ts, k.lost, k.src)'
                        /\ link'.reply <= source'.ts
                        /\ run'.frames > 0 /\ ~run'.sealed =>
                              /\ run'.linkSeen /\ run'.open /\ run'.start <= run'.last
                              /\ link'.reply <= run'.last
                              /\ Behind(run.last, run.lost, link.plant)'
        BY <1>4 DEF LossIsNoted
    <2>1. InOrder
        BY <1>15
    <2>2. wire' \subseteq wire /\ link'.pending = NoSample
        BY <1>4
    <2>3. \A k \in wire' : Behind(k.ts, k.lost, k.src)'
      <3> TAKE k \in wire'
      <3>1. /\ k \in wire /\ Behind(k.ts, k.lost, k.src)
            /\ k.src \in Plants /\ k.ts \in Nat /\ k.lost \in Nat
          BY <1>1, <1>4, <2>1, SimTypes DEF LossIsNoted
      <3>2. plant'[k.src].waiting = plant[k.src].waiting \/ k.ts >= plant[k.src].ts
          BY <1>7, <1>16, <2>1, <3>1
      <3>3. /\ plant'[k.src].ts = plant[k.src].ts /\ plant'[k.src].lost = plant[k.src].lost
            /\ plant'[k.src].lockstep = plant[k.src].lockstep
          BY <1>7, <3>1
      <3> QED
          BY <1>1, <2>2, <3>1, <3>2, <3>3, BehindAnswered
    <2>4. link'.reply <= m.ts /\ source'.ts = m.ts
      <3>1. link.reply \in Nat /\ source.ts \in Nat
          BY <1>1, SimTypes
      <3>2. link.plant = m.src => link.reply <= source.ts /\ m.ts > source.ts
          BY <1>1, <1>3, <2>1, SimDroneAssumption DEF LossIsNoted
      <3> QED
          BY <1>3, <1>4, <3>1, <3>2
    <2>5. ASSUME run'.frames > 0, ~run'.sealed
          PROVE  link'.reply <= run'.last /\ Behind(run.last, run.lost, link.plant)'
      <3>1. CASE ~Dropped /\ run'.last = m.ts /\ run'.lost = m.lost
        <4>1. PICK t \in Nat, l \in Nat, p \in Plants : t = m.ts /\ l = m.lost /\ p = m.src
            BY <1>3
        <4>2. Behind(t, l, p)
            BY <1>16, <2>1, <4>1
        <4>3. plant'[p].waiting = plant[p].waiting \/ t >= plant[p].ts
          <5>1. plant[p].ts \in Nat
              BY <1>1, SimTypes
          <5> QED
              BY <1>7, <4>1, <5>1
        <4>4. /\ plant'[p].ts = plant[p].ts /\ plant'[p].lost = plant[p].lost
              /\ plant'[p].lockstep = plant[p].lockstep
            BY <1>7
        <4>5. Behind(t, l, p)'
            BY <1>1, <2>2, <4>2, <4>3, <4>4, BehindAnswered
        <4>6. t = run'.last /\ l = run'.lost /\ p = link'.plant
            BY <1>4, <3>1, <4>1
        <4> QED
            BY <2>4, <3>1, <4>5, <4>6 DEF Behind
      <3>2. CASE Dropped /\ run' = run /\ link.plant = m.src
        <4>1. link.plant # Nobody /\ run.frames > 0 /\ ~run.sealed
            BY <1>3, <2>5, <3>2, SimDroneAssumption
        <4>2. link.reply <= run.last /\ Behind(run.last, run.lost, link.plant)
            BY <1>1, <2>1, <4>1 DEF LossIsNoted
        <4>3. PICK t \in Nat, l \in Nat, p \in Plants : t = run.last /\ l = run.lost /\ p = link.plant
            BY <1>1, <1>3, <3>2, SimTypes
        <4>4. Behind(t, l, p)
            BY <4>2, <4>3
        <4>5. UNCHANGED plant
            BY <1>8, <3>2
        <4>6. Behind(t, l, p)'
            BY <1>1, <2>2, <4>4, <4>5, BehindAnswered
        <4>7. t = run'.last /\ l = run'.lost /\ p = link'.plant
            BY <1>4, <3>2, <4>3
        <4>8. Behind(run.last, run.lost, link.plant)'
            BY <4>6, <4>7 DEF Behind
        <4>9. link'.reply <= run'.last
            BY <1>4, <3>2, <4>2
        <4> QED
            BY <4>8, <4>9
      <3> QED
          BY <1>6, <2>1, <2>5, <3>1, <3>2
    <2> QED
        BY <1>6, <2>1, <2>3, <2>4, <2>5
  <1> QED
      BY <1>10, <1>11, <1>13, <1>14, <1>17, <1>18 DEF SimInv

LoopStates == [lastUs : Nat, resetSeen : BOOLEAN, lastReset : Nat, parked : BOOLEAN,
               session : BOOLEAN, reboot : BOOLEAN, inhibited : BOOLEAN, window : Nat]

LEMMA ClockTakesFrame ==
    ASSUME NEW trial \in BOOLEAN, SimInv, ClockFrame(trial) PROVE SimInv'
  <1>1. /\ SimTypeOK /\ CoreFollows /\ SamplesArePresent /\ RunIsOfPlant
        /\ SourceIsAhead /\ LossIsNoted
      BY DEF SimInv
  <1>2. /\ link.plant = Nobody /\ link.pending = NoSample /\ wall' = wall + 1
        /\ source' = [source EXCEPT !.changed = FALSE]
        /\ loop' = [AfterFrame(wall + 1, trial) EXCEPT !.resetSeen = TimeBase(source.changed)]
        /\ UNCHANGED <<plant, wire, link, run, history>>
      BY DEF ClockFrame
  <1>3. PICK now \in Nat : now = wall + 1
      BY <1>1 DEF SimTypeOK
  <1>4. PICK rebuilt : /\ rebuilt = CoreFor(source.changed \/ loop.reboot)
                       /\ core' = rebuilt \/ \E i : core' = Step(rebuilt, wall', FALSE, i)
      BY DEF ClockFrame
  <1>5. wall \in Nat
      BY <1>1 DEF SimTypeOK
  <1>6. rebuilt.last \in Nat /\ rebuilt.back = FALSE /\ rebuilt.last <= wall
    <2>1. CASE rebuilt = FreshCore
        BY <1>5, <2>1 DEF FreshCore
    <2>2. CASE rebuilt # FreshCore
        BY <1>1, <1>2, <1>4, <2>2 DEF CoreFor, CoreFollows
    <2> QED
        BY <2>1, <2>2
  <1>7. core'.last \in Nat /\ core'.back = FALSE /\ core'.last <= wall'
    <2>1. CASE core' = rebuilt
        BY <1>2, <1>5, <1>6, <2>1
    <2>2. CASE \E i : core' = Step(rebuilt, wall', FALSE, i)
      <3>1. core'.last = wall' /\ core'.back = (rebuilt.back \/ wall' <= rebuilt.last)
          BY <2>2 DEF Step
      <3>2. ~(wall' <= rebuilt.last)
          BY <1>2, <1>5, <1>6
      <3>3. core'.back = FALSE
          BY <1>6, <3>1, <3>2, Zenon
      <3> QED
          BY <1>2, <1>3, <3>1, <3>3
    <2> QED
        BY <1>4, <2>1, <2>2
  <1>8. loop' \in LoopStates
    <2>1. PICK d \in BOOLEAN : d <=> Dropped
        OBVIOUS
    <2>2. d = Dropped
        BY <2>1 DEF Dropped
    <2>3. PICK i \in BOOLEAN : i = IF loop.reboot THEN trial ELSE loop.inhibited
        BY <1>1 DEF SimTypeOK
    <2>4. PICK b \in BOOLEAN : b <=> TimeBase(source.changed)
        OBVIOUS
    <2>5. b = TimeBase(source.changed)
        BY <2>4 DEF TimeBase
    <2>6. PICK next : next = [loop EXCEPT !.lastUs = now, !.reboot = FALSE, !.session = d,
                                          !.parked = d, !.inhibited = i]
        OBVIOUS
    <2>7. next = AfterFrame(wall + 1, trial)
        BY <1>1, <1>3, <2>2, <2>3, <2>6 DEF AfterFrame, SimTypeOK
    <2>8. next \in LoopStates
      <3>1. loop \in LoopStates
          BY <1>1 DEF SimTypeOK, LoopStates
      <3> QED
          BY <2>6, <3>1 DEF LoopStates
    <2>9. loop' = [next EXCEPT !.resetSeen = b]
        BY <1>2, <2>5, <2>7
    <2> QED
        BY <2>8, <2>9 DEF LoopStates
  <1>9. SimTypeOK'
    <2>1. source' \in [seen : BOOLEAN, ts : Nat, world : Nat, changed : BOOLEAN]
        BY <1>1, <1>2 DEF SimTypeOK
    <2>2. wall' \in Nat
        BY <1>2, <1>3
    <2> QED
        BY <1>1, <1>2, <1>8, <2>1, <2>2 DEF SimTypeOK, LoopStates
  <1>10. CoreFollows'
      BY <1>2, <1>7 DEF CoreFollows
  <1>11. SamplesArePresent' /\ RunIsOfPlant' /\ SourceIsAhead'
      BY <1>1, <1>2 DEF SamplesArePresent, Present, IsOf, RunIsOfPlant, SourceIsAhead, InOrder
  <1>12. LossIsNoted'
      BY <1>1, <1>2 DEF LossIsNoted, InOrder, Behind
  <1> QED
      BY <1>9, <1>10, <1>11, <1>12 DEF SimInv

(* A command of the ground, or nothing: the loop's latches and the core.   *)
LEMMA CommandsKeep ==
    ASSUME SimInv, UNCHANGED <<plant, wire, link, source, wall, run, history>>,
           loop' \in LoopStates, loop'.lastReset = loop.lastReset,
           core' = core \/ core' = FreshCore
    PROVE  SimInv'
  <1>1. /\ SimTypeOK /\ CoreFollows /\ SamplesArePresent /\ RunIsOfPlant
        /\ SourceIsAhead /\ LossIsNoted
      BY DEF SimInv
  <1>2. SimTypeOK'
      BY <1>1 DEF SimTypeOK, LoopStates
  <1>3. core'.last \in Nat /\ core'.back = FALSE /\ (core'.last = core.last \/ core'.last = 0)
      BY <1>1 DEF CoreFollows, FreshCore
  <1>4. CoreFollows'
    <2>1. core.last \in Nat /\ source.ts \in Nat /\ wall \in Nat
        BY <1>1, SimTypes DEF CoreFollows
    <2> QED
        BY <1>1, <1>3, <2>1 DEF CoreFollows
  <1>5. SamplesArePresent' /\ RunIsOfPlant' /\ SourceIsAhead'
      BY <1>1 DEF SamplesArePresent, Present, IsOf, RunIsOfPlant, SourceIsAhead, InOrder
  <1>6. LossIsNoted'
      BY <1>1 DEF LossIsNoted, InOrder, Behind
  <1> QED
      BY <1>2, <1>4, <1>5, <1>6 DEF SimInv

LEMMA LoopTakesCommand ==
    ASSUME SimInv,
           \/ \E trial \in BOOLEAN : OnReboot(trial)
           \/ \E arm \in BOOLEAN : OnRc(arm)
           \/ \E window \in 1 .. HashWindow : OnScenario(window)
           \/ OnOtaStatus \/ OnOtaBegin \/ SessionEnds
    PROVE  SimInv'
  <1>1. loop \in LoopStates
      BY DEF SimInv, SimTypeOK, LoopStates
  <1>2. ASSUME NEW trial \in BOOLEAN, OnReboot(trial) PROVE SimInv'
    <2>1. /\ UNCHANGED <<plant, wire, link, source, wall, run, history>>
          /\ core' = core \/ core' = FreshCore
          /\ \/ loop' = [loop EXCEPT !.parked = FALSE, !.session = FALSE, !.inhibited = trial]
             \/ loop' = [loop EXCEPT !.reboot = TRUE]
        BY <1>2 DEF OnReboot
    <2>2. loop' \in LoopStates /\ loop'.lastReset = loop.lastReset
        BY <1>1, <2>1 DEF LoopStates
    <2> QED
        BY <2>1, <2>2, CommandsKeep
  <1>3. ASSUME NEW arm \in BOOLEAN, OnRc(arm) PROVE SimInv'
    <2>1. UNCHANGED <<plant, wire, link, source, wall, loop, core, run, history>>
        BY <1>3 DEF OnRc
    <2> QED
        BY <1>1, <2>1, CommandsKeep
  <1>4. ASSUME NEW window \in 1 .. HashWindow, OnScenario(window) PROVE SimInv'
    <2>1. /\ UNCHANGED <<plant, wire, link, source, wall, core, run, history>>
          /\ loop' = [loop EXCEPT !.window = window]
        BY <1>4 DEF OnScenario
    <2>2. window \in Nat
        BY SimDroneAssumption
    <2>3. loop' \in LoopStates /\ loop'.lastReset = loop.lastReset
        BY <1>1, <2>1, <2>2 DEF LoopStates
    <2> QED
        BY <2>1, <2>3, CommandsKeep
  <1>5. ASSUME OnOtaStatus \/ OnOtaBegin \/ SessionEnds PROVE SimInv'
    <2>1. /\ UNCHANGED <<plant, wire, link, source, wall, core, run, history>>
          /\ \/ loop' = [loop EXCEPT !.inhibited = FALSE]
             \/ loop' = [loop EXCEPT !.session = TRUE]
             \/ loop' = [loop EXCEPT !.session = FALSE, !.parked = FALSE]
        BY <1>5 DEF OnOtaStatus, OnOtaBegin, SessionEnds
    <2>2. loop' \in LoopStates /\ loop'.lastReset = loop.lastReset
        BY <1>1, <2>1 DEF LoopStates
    <2> QED
        BY <2>1, <2>2, CommandsKeep
  <1> QED
      BY <1>2, <1>3, <1>4, <1>5

LEMMA SimStep == SimInv /\ [SimNext]_simVars => SimInv'
  <1> SUFFICES ASSUME SimInv, [SimNext]_simVars PROVE SimInv'
      OBVIOUS
  <1>1. ASSUME NEW p \in Plants,
               \/ PlantTick(p) \/ PlantResend(p) \/ PlantGivesUp(p)
               \/ PlantReset(p) \/ \E lockstep \in BOOLEAN : PlantRestart(p, lockstep)
        PROVE  SimInv'
      BY <1>1, PlantTicks, PlantResends, PlantGivesUpOrResets, PlantRestarts
  <1>2. ASSUME NEW m \in wire, Lose(m) \/ OnSensor(m) PROVE SimInv'
      BY <1>2, WireLosesOrDelivers
  <1>3. CASE TakeForeign \/ PlantLost
      BY <1>3, SourceTakesForeign, SourceLosesPlant
  <1>4. ASSUME NEW arrives \in BOOLEAN,
               TakeRepeated(arrives) \/ \E trial \in BOOLEAN : SensorFrame(arrives, trial)
        PROVE  SimInv'
      BY <1>4, SourceTakesRepeated, SourceTakesFrame
  <1>5. ASSUME NEW trial \in BOOLEAN, ClockFrame(trial) PROVE SimInv'
      BY <1>5, ClockTakesFrame
  <1>6. CASE \/ \E trial \in BOOLEAN : OnReboot(trial)
             \/ \E arm \in BOOLEAN : OnRc(arm)
             \/ \E window \in 1 .. HashWindow : OnScenario(window)
             \/ OnOtaStatus \/ OnOtaBegin \/ SessionEnds
      BY <1>6, LoopTakesCommand
  <1>7. CASE UNCHANGED simVars
    <2>1. UNCHANGED <<plant, wire, link, source, wall, loop, core, run, history>>
        BY <1>7 DEF simVars
    <2>2. loop \in LoopStates
        BY DEF SimInv, SimTypeOK, LoopStates
    <2> QED
        BY <2>1, <2>2, CommandsKeep
  <1> QED
      BY <1>1, <1>2, <1>3, <1>4, <1>5, <1>6, <1>7 DEF SimNext

(* The simulated drone keeps its inductive invariant: the types, the time  *)
(* base of the core, the start of the plant every sample under way is of,  *)
(* the order of the samples, and the losses a plant has owned up to.       *)
THEOREM SimInvariant == SimSpec => []SimInv
  <1> QED
      BY SimStart, SimStep, PTL DEF SimSpec

(* The flight core never sees an instant twice nor time that goes back     *)
(* without having been rebuilt in between (sensor_source_sim.cpp).         *)
THEOREM SimCoreTimeAdvances == SimSpec => []CoreTimeAdvances
  <1>1. SimInv => CoreTimeAdvances
      BY DEF SimInv, CoreFollows, CoreTimeAdvances
  <1> QED
      BY <1>1, SimInvariant, PTL

(* What is folded into one run is of one world of one start of one plant,  *)
(* in time order (sim_run_tracker.hpp).                                    *)
THEOREM SimRunIsOne == SimSpec => []RunIsOne
  <1>1. SimInv => RunIsOne
      BY DEF SimInv, RunIsOfPlant, RunIsOne
  <1> QED
      BY <1>1, SimInvariant, PTL

(* On a LAN that keeps the order, a sealed run over lockstep frames that   *)
(* is not marked degraded has folded every tick between its first and its  *)
(* last.                                                                   *)
THEOREM SimCleanRunIsWhole == SimSpec => []CleanRunIsWhole
  <1>1. SimInv => CleanRunIsWhole
      BY DEF SimInv, LossIsNoted, InOrder, CleanRunIsWhole
  <1> QED
      BY <1>1, SimInvariant, PTL

-----------------------------------------------------------------------------
(* The I2C master.                                                         *)

Peripherals ==
    [start : BOOLEAN, stop : BOOLEAN, ack : BOOLEAN, pos : BOOLEAN, sb : BOOLEAN,
     addr : BOOLEAN, af : BOOLEAN, busy : BOOLEAN, tx : {"none", "empty", "full"},
     sending : {"none", "W", "R"}, dr : Nat \X Nat, sh : Nat \X Nat,
     clocking : BOOLEAN, acked : BOOLEAN, of : Nat, sent : Nat]

Transfers == [kind : Reads \cup {"none", "probe", "write"}, len : Nat, left : Int]

LEMMA NoneFacts == None \in Nat \X Nat /\ \A t \in Nat, k \in Nat : <<t, k + 1>> # None
  BY DEF None

LEMMA I2cTypes ==
    ASSUME I2cInv
    PROVE  /\ i2c \in Peripherals /\ transfer \in Transfers /\ data \in Seq(Nat \X Nat)
           /\ transfers \in Nat /\ transfer.len \in Nat /\ Len(data) \in Nat
           /\ i2c.sent \in Nat /\ i2c.of \in Nat
           /\ i2c.dr \in Nat \X Nat /\ i2c.sh \in Nat \X Nat
  <1>1. i2c \in Peripherals /\ transfer \in Transfers /\ data \in Seq(Nat \X Nat) /\ transfers \in Nat
      BY DEF I2cInv, I2cTypeOK, Peripherals, Transfers
  <1>2. transfer.len \in Nat /\ Len(data) \in Nat
      BY <1>1 DEF Transfers
  <1> QED
      BY <1>1, <1>2 DEF Peripherals

LEMMA I2cStarts == I2cInit => I2cInv
  <1> SUFFICES ASSUME I2cInit PROVE I2cInv
      OBVIOUS
  <1>1. i2c \in Peripherals /\ ~i2c.sb /\ ~i2c.pos
      BY NoneFacts DEF I2cInit, Quiet, Peripherals
  <1>2. I2cTypeOK
    <2>1. data = <<>> /\ transfer = NoTransfer /\ ready = FALSE /\ result = "none" /\ transfers = 0
        BY DEF I2cInit
    <2>2. data \in Seq(Nat \X Nat)
        BY <2>1
    <2>3. transfer \in Transfers /\ transfer.kind \notin Reads
        BY <2>1 DEF NoTransfer, Transfers, Reads
    <2> QED
        BY <1>1, <2>1, <2>2, <2>3 DEF I2cTypeOK, Peripherals, Transfers
  <1>3. pc = "down" /\ result = "none"
      BY DEF I2cInit
  <1> QED
      BY <1>1, <1>2, <1>3 DEF I2cInv, StartIsClean, BitsAreOfLength, BytesAreInOrder,
                              PhaseIsRight, ReadIsComplete, Sending, Receiving, DownIsQuiet

(* The peripheral moves and clocks nothing in.                             *)
LEMMA HardwareKeeps ==
    ASSUME I2cInv, Hardware, i2c' \in Peripherals,
           i2c'.dr = i2c.dr, i2c'.sh = i2c.sh, i2c'.of = i2c.of, i2c'.sent = i2c.sent,
           i2c'.pos = i2c.pos, i2c'.ack = i2c.ack,
           i2c'.clocking => i2c.clocking, i2c'.acked => i2c.acked, i2c'.start => i2c.start,
           i2c'.sb => i2c'.busy /\ ~i2c'.start /\ ~i2c'.clocking /\ ~i2c'.acked,
           i2c'.sb => i2c.sb \/ i2c.start
    PROVE  I2cInv'
  <1>1. UNCHANGED <<ready, pc, transfer, data, result, transfers>>
      BY DEF Hardware
  <1>2. I2cTypeOK' /\ StartIsClean' /\ DownIsQuiet'
      BY <1>1 DEF I2cInv, I2cTypeOK, StartIsClean, DownIsQuiet, Peripherals
  <1>3. BitsAreOfLength'
      BY <1>1 DEF I2cInv, BitsAreOfLength, Sending, Receiving
  <1>4. BytesAreInOrder'
      BY <1>1 DEF I2cInv, BytesAreInOrder, HeldBytes, Bytes
  <1>5. PhaseIsRight'
      BY <1>1 DEF I2cInv, PhaseIsRight, Refuses
  <1>6. ReadIsComplete'
      BY <1>1 DEF I2cInv, ReadIsComplete, Bytes
  <1> QED
      BY <1>2, <1>3, <1>4, <1>5, <1>6 DEF I2cInv

LEMMA HardwareMoves ==
    ASSUME I2cInv, HwStart \/ HwAddress \/ HwSent \/ HwStop PROVE I2cInv'
  <1>1. i2c \in Peripherals /\ Hardware
      BY I2cTypes DEF HwStart, HwAddress, HwSent, HwStop
  <1>2. CASE HwStart
    <2>1. i2c' = [i2c EXCEPT !.start = FALSE, !.sb = TRUE, !.busy = TRUE,
                             !.tx = "none", !.clocking = FALSE, !.acked = FALSE]
        BY <1>2 DEF HwStart
    <2>2. i2c' \in Peripherals
        BY <1>1, <2>1, ZenonT(60) DEF Peripherals
    <2>3. /\ i2c'.dr = i2c.dr /\ i2c'.sh = i2c.sh /\ i2c'.of = i2c.of /\ i2c'.sent = i2c.sent
          /\ i2c'.pos = i2c.pos /\ i2c'.ack = i2c.ack /\ ~i2c'.clocking /\ ~i2c'.acked
          /\ ~i2c'.start /\ i2c'.busy /\ i2c.start
        BY <1>1, <1>2, <2>1 DEF Peripherals, HwStart
    <2> QED
        BY <1>1, <2>2, <2>3, HardwareKeeps
  <1>3. CASE HwAddress
    <2>1. PICK answers \in BOOLEAN, refuses \in BOOLEAN :
             i2c' = [i2c EXCEPT !.sending = "none", !.addr = answers, !.af = refuses]
        BY <1>3 DEF HwAddress
    <2>2. i2c' \in Peripherals
        BY <1>1, <2>1 DEF Peripherals
    <2>3. /\ i2c'.dr = i2c.dr /\ i2c'.sh = i2c.sh /\ i2c'.of = i2c.of /\ i2c'.sent = i2c.sent
          /\ i2c'.pos = i2c.pos /\ i2c'.ack = i2c.ack /\ i2c'.clocking = i2c.clocking
          /\ i2c'.acked = i2c.acked /\ i2c'.start = i2c.start /\ i2c'.sb = i2c.sb
          /\ i2c'.busy = i2c.busy
        BY <1>1, <2>1 DEF Peripherals
    <2> QED
        BY <1>1, <2>2, <2>3, HardwareKeeps DEF I2cInv, StartIsClean
  <1>4. CASE HwSent
    <2>1. PICK t \in {"empty", "none"}, refuses \in BOOLEAN :
             i2c' = [i2c EXCEPT !.tx = t, !.af = refuses]
        BY <1>4 DEF HwSent
    <2>2. i2c' \in Peripherals
        BY <1>1, <2>1 DEF Peripherals
    <2>3. /\ i2c'.dr = i2c.dr /\ i2c'.sh = i2c.sh /\ i2c'.of = i2c.of /\ i2c'.sent = i2c.sent
          /\ i2c'.pos = i2c.pos /\ i2c'.ack = i2c.ack /\ i2c'.clocking = i2c.clocking
          /\ i2c'.acked = i2c.acked /\ i2c'.start = i2c.start /\ i2c'.sb = i2c.sb
          /\ i2c'.busy = i2c.busy
        BY <1>1, <2>1 DEF Peripherals
    <2> QED
        BY <1>1, <2>2, <2>3, HardwareKeeps DEF I2cInv, StartIsClean
  <1>5. CASE HwStop
    <2>1. i2c' = [i2c EXCEPT !.stop = FALSE, !.busy = FALSE, !.sb = FALSE,
                             !.addr = FALSE, !.tx = "none"]
        BY <1>5 DEF HwStop
    <2>2. i2c' \in Peripherals
        BY <1>1, <2>1, ZenonT(60) DEF Peripherals
    <2>3. /\ i2c'.dr = i2c.dr /\ i2c'.sh = i2c.sh /\ i2c'.of = i2c.of /\ i2c'.sent = i2c.sent
          /\ i2c'.pos = i2c.pos /\ i2c'.ack = i2c.ack /\ i2c'.clocking = i2c.clocking
          /\ i2c'.acked = i2c.acked /\ i2c'.start = i2c.start /\ ~i2c'.sb
        BY <1>1, <2>1 DEF Peripherals
    <2> QED
        BY <1>1, <2>2, <2>3, HardwareKeeps
  <1> QED
      BY <1>2, <1>3, <1>4, <1>5

LEMMA BytesGrow ==
    ASSUME NEW t \in Nat, NEW k \in Nat
    PROVE  Append([j \in 1 .. k |-> <<t, j>>], <<t, k + 1>>) = [j \in 1 .. k + 1 |-> <<t, j>>]
  <1>1. PICK s : s = [j \in 1 .. k |-> <<t, j>>]
      OBVIOUS
  <1>2. s \in Seq(Nat \X Nat) /\ Len(s) = k
      BY <1>1
  <1>3. Append(s, <<t, k + 1>>) \in Seq(Nat \X Nat) /\ Len(Append(s, <<t, k + 1>>)) = k + 1
      BY <1>2
  <1>4. \A j \in 1 .. k + 1 : Append(s, <<t, k + 1>>)[j] = <<t, j>>
      BY <1>1, <1>2
  <1>5. Append(s, <<t, k + 1>>) = [j \in 1 .. k + 1 |-> <<t, j>>]
    <2>1. PICK q \in Seq(Nat \X Nat) : q = Append(s, <<t, k + 1>>)
        BY <1>3
    <2>2. Len(q) = k + 1 /\ \A j \in 1 .. k + 1 : q[j] = <<t, j>>
        BY <1>3, <1>4, <2>1
    <2>3. q = [j \in 1 .. k + 1 |-> q[j]]
        BY <2>2
    <2>4. q = [j \in 1 .. k + 1 |-> <<t, j>>]
        BY <2>2, <2>3
    <2> QED
        BY <2>1, <2>4
  <1> QED
      BY <1>1, <1>5

(* Outside a transfer nothing is left to keep but that POS is clear.       *)
LEMMA RestKeeps ==
    ASSUME I2cTypeOK', StartIsClean', ~i2c'.pos, pc' \in {"idle", "aborted"},
           pc' = "idle" => result' = "failed" \/ transfer'.kind \notin Reads
    PROVE  I2cInv'
  BY DEF I2cInv, BitsAreOfLength, BytesAreInOrder, PhaseIsRight, ReadIsComplete, Sending, Receiving,
         DownIsQuiet

LEMMA Aborts == I2cInv /\ Abort => I2cInv'
  <1> SUFFICES ASSUME I2cInv, Abort PROVE I2cInv'
      OBVIOUS
  <1>1. /\ i2c' = [i2c EXCEPT !.af = FALSE, !.stop = TRUE, !.pos = FALSE]
        /\ pc' = "aborted" /\ UNCHANGED <<ready, transfer, data, result, transfers>>
      BY DEF Abort
  <1>2. i2c' \in Peripherals
      BY <1>1, I2cTypes DEF Peripherals
  <1>3. ~i2c'.pos /\ i2c'.sb = i2c.sb /\ i2c'.busy = i2c.busy /\ i2c'.start = i2c.start
        /\ i2c'.clocking = i2c.clocking /\ i2c'.acked = i2c.acked
      BY <1>1, I2cTypes DEF Peripherals
  <1>4. I2cTypeOK' /\ StartIsClean'
      BY <1>1, <1>2, <1>3 DEF I2cInv, I2cTypeOK, StartIsClean, Peripherals
  <1> QED
      BY <1>1, <1>3, <1>4, RestKeeps

LEMMA Rests ==
    ASSUME I2cInv, BusInit \/ Refused \/ ProbeGivesUp \/ Aborted PROVE I2cInv'
  <1>1. I2cTypeOK /\ StartIsClean /\ i2c \in Peripherals
      BY I2cTypes DEF I2cInv
  <1>2. CASE BusInit
    <2>1. /\ pc = "down" /\ pc' = "idle" /\ ready' \in BOOLEAN /\ (i2c' = Quiet \/ i2c' = i2c)
          /\ UNCHANGED <<transfer, data, result, transfers>>
        BY <1>2 DEF BusInit
    <2>2. Quiet \in Peripherals /\ ~Quiet.sb /\ ~Quiet.pos
        BY NoneFacts DEF Quiet, Peripherals
    <2>3. I2cTypeOK' /\ StartIsClean' /\ ~i2c'.pos
        BY <1>1, <2>1, <2>2 DEF I2cInv, I2cTypeOK, StartIsClean, BitsAreOfLength, Peripherals
    <2>4. BitsAreOfLength' /\ BytesAreInOrder' /\ PhaseIsRight'
        BY <2>1, <2>3 DEF BitsAreOfLength, BytesAreInOrder, PhaseIsRight, Sending, Receiving
    <2>5. result' # "done"
        BY <2>1 DEF I2cInv, DownIsQuiet
    <2>6. ReadIsComplete'
        BY <2>1, <2>5 DEF ReadIsComplete
    <2> QED
        BY <2>1, <2>3, <2>4, <2>6 DEF I2cInv, DownIsQuiet
  <1>3. CASE Refused
    <2>1. pc = "idle" /\ result' = "failed" /\ transfers' = transfers + 1
          /\ UNCHANGED <<ready, pc, transfer, data, i2c>>
        BY <1>3 DEF Refused
    <2>2. I2cTypeOK' /\ StartIsClean' /\ ~i2c'.pos
        BY <1>1, <2>1 DEF I2cInv, I2cTypeOK, StartIsClean, BitsAreOfLength
    <2> QED
        BY <2>1, <2>2, RestKeeps
  <1>4. CASE ProbeGivesUp
    <2>1. /\ pc = "sb_w" /\ pc' = "idle" /\ result' = "failed" /\ i2c' = [i2c EXCEPT !.stop = TRUE]
          /\ UNCHANGED <<ready, transfer, data, transfers>>
        BY <1>4 DEF ProbeGivesUp, Return
    <2>2. i2c' \in Peripherals
        BY <1>1, <2>1 DEF Peripherals
    <2>3. i2c'.pos = i2c.pos /\ i2c'.sb = i2c.sb /\ i2c'.busy = i2c.busy
          /\ i2c'.start = i2c.start /\ i2c'.clocking = i2c.clocking /\ i2c'.acked = i2c.acked
        BY <1>1, <2>1 DEF Peripherals
    <2>4. I2cTypeOK' /\ StartIsClean' /\ ~i2c'.pos
        BY <1>1, <2>1, <2>2, <2>3 DEF I2cInv, I2cTypeOK, StartIsClean, BitsAreOfLength, Peripherals
    <2> QED
        BY <2>1, <2>4, RestKeeps
  <1>5. CASE Aborted
    <2>1. pc = "aborted" /\ pc' = "idle" /\ result' = "failed"
          /\ UNCHANGED <<ready, transfer, data, transfers, i2c>>
        BY <1>5 DEF Aborted, Return
    <2>2. I2cTypeOK' /\ StartIsClean' /\ ~i2c'.pos
        BY <1>1, <2>1 DEF I2cInv, I2cTypeOK, StartIsClean, BitsAreOfLength
    <2> QED
        BY <2>1, <2>2, RestKeeps
  <1> QED
      BY <1>2, <1>3, <1>4, <1>5

LEMMA Frees == I2cInv /\ Freed => I2cInv'
  <1> SUFFICES ASSUME I2cInv, Freed PROVE I2cInv'
      OBVIOUS
  <1>1. /\ pc = "free" /\ pc' = "idle" /\ result' \in {"done", "failed"}
        /\ UNCHANGED <<ready, transfer, data, transfers, i2c>>
      BY DEF Freed, Return
  <1>2. I2cTypeOK' /\ StartIsClean' /\ DownIsQuiet'
      BY <1>1 DEF I2cInv, I2cTypeOK, StartIsClean, DownIsQuiet
  <1>3. BitsAreOfLength' /\ BytesAreInOrder' /\ PhaseIsRight'
      BY <1>1 DEF I2cInv, BitsAreOfLength, BytesAreInOrder, PhaseIsRight, Sending, Receiving
  <1>4. ReadIsComplete'
      BY <1>1 DEF I2cInv, ReadIsComplete, Bytes
  <1> QED
      BY <1>2, <1>3, <1>4 DEF I2cInv


(* A byte comes in during a receive phase.                                 *)
LEMMA ByteArrives == I2cInv /\ HwByte => I2cInv'
  <1> SUFFICES ASSUME I2cInv, HwByte PROVE I2cInv'
      OBVIOUS
  <1>0. i2c \in Peripherals /\ transfers \in Nat /\ Len(data) \in Nat /\ i2c.sent \in Nat /\ i2c.of \in Nat
        /\ transfer.len \in Nat
      BY I2cTypes
  <1>1. PICK byte \in Nat \X Nat : byte = <<i2c.of, i2c.sent + 1>>
    <2>1. <<i2c.of, i2c.sent + 1>> \in Nat \X Nat
        BY <1>0
    <2> QED
        BY <2>1, Zenon
  <1>2. PICK told \in BOOLEAN : told <=> ((i2c.pos /\ i2c.sent = 0) \/ i2c.ack)
      OBVIOUS
  <1>3. PICK c \in BOOLEAN : c <=> (told /\ ~i2c.stop /\ i2c.dr = None)
      OBVIOUS
  <1>4. PICK dr \in Nat \X Nat : dr = IF i2c.dr = None THEN byte ELSE i2c.dr
      BY <1>0 DEF Peripherals
  <1>5. PICK sh \in Nat \X Nat : sh = IF i2c.dr = None THEN None ELSE byte
      BY NoneFacts
  <1>6. PICK n \in Nat : n = i2c.sent + 1
      BY <1>0
  <1>7. told = ((i2c.pos /\ i2c.sent = 0) \/ i2c.ack)
      BY <1>0, <1>2, Zenon DEF Peripherals
  <1>8. c = (told /\ ~i2c.stop /\ i2c.dr = None)
      BY <1>3, Zenon
  <1>9. i2c' = [i2c EXCEPT !.dr = dr, !.sh = sh, !.sent = n, !.acked = told, !.clocking = c]
      BY <1>1, <1>4, <1>5, <1>6, <1>7, <1>8, Zenon DEF HwByte
  <1>10. i2c' \in Peripherals
      BY <1>0, <1>9, ZenonT(60) DEF Peripherals
  <1>11. /\ i2c'.dr = dr /\ i2c'.sh = sh /\ i2c'.sent = n /\ i2c'.acked = told /\ i2c'.clocking = c
         /\ i2c'.of = i2c.of /\ i2c'.pos = i2c.pos /\ i2c'.ack = i2c.ack /\ i2c'.start = i2c.start
         /\ i2c'.sb = i2c.sb /\ i2c'.busy = i2c.busy
      BY <1>0, <1>9 DEF Peripherals
  <1>12. i2c.clocking /\ ~i2c.sb /\ UNCHANGED <<ready, pc, transfer, data, result, transfers>>
      BY DEF HwByte, Hardware, I2cInv, StartIsClean
  <1>13. I2cTypeOK' /\ StartIsClean' /\ DownIsQuiet'
      BY <1>10, <1>11, <1>12 DEF I2cInv, I2cTypeOK, StartIsClean, DownIsQuiet, Peripherals
  <1>14. BitsAreOfLength'
      BY <1>11, <1>12 DEF I2cInv, BitsAreOfLength, Sending, Receiving
  <1>15. ReadIsComplete'
      BY <1>12 DEF I2cInv, ReadIsComplete
  <1>16. ASSUME pc \in Receiving
         PROVE  /\ i2c.sh = None /\ i2c.sent = Len(data) + (IF i2c.dr = None THEN 0 ELSE 1)
                /\ i2c.of = transfers /\ data = Bytes(Len(data))
                /\ i2c.dr \in {None, <<transfers, Len(data) + 1>>}
      BY <1>12, <1>16 DEF I2cInv, BytesAreInOrder, HeldBytes
  <1>17. byte # None
      BY <1>0, <1>1, NoneFacts
  <1>18. BytesAreInOrder'
    <2> SUFFICES ASSUME pc \in Receiving
                 PROVE  /\ i2c'.of = transfers /\ data = Bytes(Len(data))
                        /\ i2c'.dr \in {None, <<transfers, Len(data) + 1>>}
                        /\ i2c'.sh \in {None, <<transfers, Len(data) + 2>>}
                        /\ (i2c'.dr = None => i2c'.sh = None)
                        /\ i2c'.sent = Len(data) + HeldBytes'
                        /\ (i2c'.sh # None => ~i2c'.clocking)
        BY <1>12 DEF BytesAreInOrder, Bytes
    <2>1. CASE i2c.dr = None
      <3>1. dr = byte /\ sh = None /\ byte = <<transfers, Len(data) + 1>> /\ n = Len(data) + 1
          BY <1>0, <1>1, <1>4, <1>5, <1>6, <1>16, <2>1
      <3>2. HeldBytes' = 1
          BY <1>11, <1>17, <3>1 DEF HeldBytes
      <3> QED
          BY <1>11, <1>16, <3>1, <3>2
    <2>2. CASE i2c.dr # None
      <3>1. dr = i2c.dr /\ sh = byte /\ byte = <<transfers, Len(data) + 2>> /\ n = Len(data) + 2
          BY <1>0, <1>1, <1>4, <1>5, <1>6, <1>16, <2>2
      <3>2. HeldBytes' = 2 /\ ~c
          BY <1>3, <1>11, <1>17, <2>2, <3>1 DEF HeldBytes
      <3> QED
          BY <1>11, <1>16, <2>2, <3>1, <3>2
    <2> QED
        BY <2>1, <2>2
  <1>19. PhaseIsRight'
    <2>1. pc = "addr_r" => FALSE
        BY <1>12 DEF I2cInv, PhaseIsRight
    <2>2. ASSUME Refuses, i2c.pos => i2c.sent + 1 # transfer.len \/ i2c.sent # 0 PROVE Refuses'
        BY <1>0, <1>2, <1>3, <1>6, <1>11, <1>12, <2>2, SMTT(30) DEF Refuses
    <2>3. pc \in Receiving /\ i2c.pos => pc = "btf_2" /\ transfer.len = 2
        BY <2>1 DEF I2cInv, BitsAreOfLength, Receiving
    <2>4. pc \in Receiving /\ Refuses => Refuses'
        BY <1>0, <2>2, <2>3
    <2>5. pc \in {"stop_n", "held"} => i2c'.dr # None
        BY <1>4, <1>11, <1>17
    <2>6. pc = "last" => i2c'.sh = None
      <3> SUFFICES ASSUME pc = "last" PROVE i2c.dr = None
          BY <1>5, <1>11
      <3>1. transfer.len = Len(data) + 1 /\ i2c.sent # transfer.len
          BY <1>12 DEF I2cInv, PhaseIsRight, Refuses
      <3> QED
          BY <1>0, <1>16, <3>1 DEF Receiving
    <2> QED
        BY <1>12, <2>1, <2>4, <2>5, <2>6 DEF I2cInv, PhaseIsRight, Receiving
  <1> QED
      BY <1>13, <1>14, <1>15, <1>18, <1>19 DEF I2cInv

(* receive() sets the ACK and POS bits its length asks for.                *)
LEMMA ReceiveBits ==
    ASSUME NEW p \in Peripherals, NEW n \in Nat, ~p.pos
    PROVE  /\ Receive(p, n) \in Peripherals /\ Receive(p, n).sb = p.sb
           /\ Receive(p, n).ack <=> n >= 3
           /\ Receive(p, n).pos <=> n = 2
  <1>1. PICK ack \in BOOLEAN : ack = (n >= 3)
    <2>1. (n >= 3) \in BOOLEAN
        OBVIOUS
    <2> QED
        BY <2>1, Zenon
  <1>2. PICK pos \in BOOLEAN : pos = ((n = 2) \/ p.pos)
      OBVIOUS
  <1>3. Receive(p, n) = [p EXCEPT !.start = TRUE, !.ack = ack, !.pos = pos]
      BY <1>1, <1>2, Zenon DEF Receive
  <1> QED
      BY <1>1, <1>2, <1>3 DEF Peripherals

(* A transfer is opened, its START requested.                              *)
LEMMA Begins ==
    ASSUME NEW kind \in Reads \cup {"probe", "write"}, NEW n \in Nat,
           kind \in Reads => n \in Lengths, I2cInv, Begin(kind, n)
    PROVE  I2cInv'
  <1>0. i2c \in Peripherals /\ transfers \in Nat /\ I2cTypeOK
      BY I2cTypes DEF I2cInv
  <1>1. PICK left \in Nat : left = IF kind = "write" THEN n ELSE 1
      OBVIOUS
  <1>2. /\ transfers' = transfers + 1 /\ transfer' = [kind |-> kind, len |-> n, left |-> left]
        /\ data' = <<>> /\ pc' = (IF kind = "read" THEN "sb_r" ELSE "sb_w")
        /\ i2c' = (IF kind = "read" THEN Receive(i2c, n) ELSE [i2c EXCEPT !.start = TRUE])
        /\ UNCHANGED <<ready, result>> /\ pc = "idle" /\ ~i2c.busy
      BY <1>1 DEF Begin
  <1>3. ~i2c.sb /\ ~i2c.pos
      BY <1>2 DEF I2cInv, StartIsClean, BitsAreOfLength
  <1>8. /\ i2c' \in Peripherals /\ ~i2c'.sb
        /\ kind = "read" => (i2c'.ack <=> n >= 3) /\ (i2c'.pos <=> n = 2)
        /\ kind # "read" => ~i2c'.pos
    <2>1. CASE kind = "read"
        BY <1>0, <1>2, <1>3, <2>1, ReceiveBits
    <2>2. CASE kind # "read"
        BY <1>0, <1>2, <1>3, <2>2 DEF Peripherals
    <2> QED
        BY <2>1, <2>2
  <1>9. /\ transfer' \in Transfers /\ transfer'.kind = kind /\ transfer'.len = n
        /\ data' \in Seq(Nat \X Nat) /\ transfers' \in Nat
      BY <1>0, <1>2 DEF Transfers
  <1>10. I2cTypeOK' /\ StartIsClean' /\ DownIsQuiet'
      BY <1>0, <1>2, <1>8, <1>9 DEF I2cTypeOK, StartIsClean, DownIsQuiet, Peripherals, Transfers
  <1>11. BitsAreOfLength'
      BY <1>2, <1>8, <1>9 DEF BitsAreOfLength, Sending, Receiving, Reads
  <1>12. BytesAreInOrder' /\ PhaseIsRight' /\ ReadIsComplete'
      BY <1>2 DEF BytesAreInOrder, PhaseIsRight, ReadIsComplete, Receiving
  <1> QED
      BY <1>10, <1>11, <1>12 DEF I2cInv

(* A step that stays within the phase in which nothing is received.        *)
LEMMA SendingKeeps ==
    ASSUME I2cInv, i2c' \in Peripherals, transfer' \in Transfers,
           UNCHANGED <<ready, data, result, transfers>>,
           transfer'.kind = transfer.kind, transfer'.len = transfer.len,
           pc \in Sending, pc' \in Sending \ {"sb_w"}, pc' # "addr_w" => transfer.kind # "probe",
           ~i2c'.pos, ~i2c'.sb, ~i2c'.start
    PROVE  I2cInv'
  <1>1. I2cTypeOK' /\ StartIsClean' /\ DownIsQuiet'
      BY DEF I2cInv, I2cTypeOK, StartIsClean, DownIsQuiet, Sending, Peripherals, Transfers
  <1>2. BitsAreOfLength'
      BY DEF I2cInv, BitsAreOfLength, Sending, Receiving
  <1>3. BytesAreInOrder' /\ PhaseIsRight' /\ ReadIsComplete'
      BY DEF BytesAreInOrder, PhaseIsRight, ReadIsComplete, Sending, Receiving
  <1> QED
      BY <1>1, <1>2, <1>3 DEF I2cInv

(* A transfer that reads nothing waits for the bus to be free.             *)
LEMMA WriteIsOver ==
    ASSUME I2cInv, i2c' \in Peripherals, UNCHANGED <<ready, transfer, data, result, transfers>>,
           pc' = "free", transfer.kind \notin Reads, ~i2c'.pos, ~i2c'.sb
    PROVE  I2cInv'
  <1>1. I2cTypeOK' /\ StartIsClean' /\ DownIsQuiet'
      BY DEF I2cInv, I2cTypeOK, StartIsClean, DownIsQuiet, Peripherals
  <1>2. BitsAreOfLength' /\ BytesAreInOrder' /\ PhaseIsRight' /\ ReadIsComplete'
      BY DEF BitsAreOfLength, BytesAreInOrder, PhaseIsRight, ReadIsComplete, Sending, Receiving
  <1> QED
      BY <1>1, <1>2 DEF I2cInv

LEMMA Sends == I2cInv /\ (SendStartWrite \/ Addressed \/ Transmit) => I2cInv'
  <1> SUFFICES ASSUME I2cInv, SendStartWrite \/ Addressed \/ Transmit PROVE I2cInv'
      OBVIOUS
  <1>0. i2c \in Peripherals /\ transfers \in Nat /\ transfer \in Transfers
      BY I2cTypes
  <1>a. CASE Abort
      BY <1>a, Aborts
  <1>p. pc \in Sending => ~i2c.pos
      BY DEF I2cInv, BitsAreOfLength, Sending
  <1>1. CASE SendStartWrite /\ ~Abort
    <2>1. pc = "sb_w" /\ i2c.sb /\ i2c' = SendAddress("W") /\ Go("addr_w") /\ UNCHANGED data
        BY <1>1 DEF SendStartWrite, Rose, WaitFails
    <2>2. ~i2c.pos /\ ~i2c.start
        BY <1>p, <2>1 DEF I2cInv, StartIsClean, Sending
    <2>3. /\ i2c' = [i2c EXCEPT !.sb = FALSE, !.sending = "W", !.dr = None, !.sh = None,
                               !.of = transfers, !.sent = 0]
          /\ pc' = "addr_w" /\ UNCHANGED <<ready, transfer, data, result, transfers>>
        BY <2>1 DEF SendAddress, Go
    <2>4. i2c' \in Peripherals
        BY <1>0, <2>3, NoneFacts DEF Peripherals
    <2>5. ~i2c'.pos /\ ~i2c'.sb /\ ~i2c'.start
        BY <1>0, <2>2, <2>3 DEF Peripherals
    <2> QED
        BY <1>0, <2>1, <2>3, <2>4, <2>5, SendingKeeps DEF Sending
  <1>2. CASE Addressed /\ ~Abort
    <2>1. /\ pc = "addr_w" /\ UNCHANGED <<ready, transfer, data, result, transfers>>
          /\ pc' = (IF transfer.kind = "probe" THEN "free" ELSE "tx")
          /\ i2c' = (IF transfer.kind = "probe" THEN [ClearAddr(i2c) EXCEPT !.stop = TRUE]
                                                ELSE [ClearAddr(i2c) EXCEPT !.tx = "empty"])
        BY <1>2 DEF Addressed, Rose, WaitFails, Go
    <2>2. PICK p \in Peripherals : p = ClearAddr(i2c)
      <3>1. ClearAddr(i2c) \in Peripherals
          BY <1>0 DEF ClearAddr, Peripherals
      <3> QED
          BY <3>1
    <2>3. ~i2c.pos /\ ~i2c.sb /\ ~i2c.start
        BY <1>p, <2>1 DEF I2cInv, BitsAreOfLength, Sending
    <2>4. ~p.pos /\ ~p.sb /\ ~p.start
        BY <1>0, <2>2, <2>3 DEF ClearAddr, Peripherals
    <2>5. i2c' \in Peripherals /\ ~i2c'.pos /\ ~i2c'.sb /\ ~i2c'.start
      <3>1. i2c' = [p EXCEPT !.stop = TRUE] \/ i2c' = [p EXCEPT !.tx = "empty"]
          BY <2>1, <2>2
      <3>2. CASE i2c' = [p EXCEPT !.stop = TRUE]
          BY <2>4, <3>2 DEF Peripherals
      <3>3. CASE i2c' = [p EXCEPT !.tx = "empty"]
          BY <2>4, <3>3 DEF Peripherals
      <3> QED
          BY <3>1, <3>2, <3>3
    <2>6. CASE transfer.kind = "probe"
        BY <2>1, <2>5, <2>6, WriteIsOver DEF Reads
    <2>7. CASE transfer.kind # "probe"
        BY <1>0, <2>1, <2>5, <2>7, SendingKeeps DEF Sending
    <2> QED
        BY <2>6, <2>7
  <1>3. CASE Transmit /\ ~Abort
    <2>1. /\ pc = "tx" /\ UNCHANGED <<ready, data, result, transfers>>
          /\ i2c' = [i2c EXCEPT !.tx = "full"] /\ transfer' = [transfer EXCEPT !.left = @ - 1]
          /\ pc' \in {"tx", "btf_w"}
        BY <1>3 DEF Transmit, Rose, WaitFails
    <2>2. ~i2c.pos /\ ~i2c.sb /\ ~i2c.start /\ transfer.kind # "probe"
        BY <1>p, <2>1 DEF I2cInv, BitsAreOfLength, Sending
    <2>3. i2c' \in Peripherals /\ ~i2c'.pos /\ ~i2c'.sb /\ ~i2c'.start
        BY <1>0, <2>1, <2>2 DEF Peripherals
    <2>4. transfer' \in Transfers /\ transfer'.kind = transfer.kind /\ transfer'.len = transfer.len
        BY <1>0, <2>1 DEF Transfers
    <2> QED
        BY <2>1, <2>2, <2>3, <2>4, SendingKeeps DEF Sending
  <1> QED
      BY <1>a, <1>1, <1>2, <1>3

(* The write is over or the receive phase opens, its address goes out.     *)
LEMMA Turns == I2cInv /\ (Transmitted \/ SendStartRead) => I2cInv'
  <1> SUFFICES ASSUME I2cInv, Transmitted \/ SendStartRead PROVE I2cInv'
      OBVIOUS
  <1>0. /\ i2c \in Peripherals /\ transfers \in Nat /\ transfer \in Transfers /\ transfer.len \in Nat
        /\ I2cTypeOK
      BY I2cTypes DEF I2cInv
  <1>a. CASE Abort
      BY <1>a, Aborts
  <1>1. CASE Transmitted /\ ~Abort
    <2>1. /\ pc = "btf_w" /\ UNCHANGED <<ready, transfer, data, result, transfers>>
          /\ pc' = (IF transfer.kind = "write" THEN "free" ELSE "sb_r")
          /\ i2c' = (IF transfer.kind = "write" THEN [i2c EXCEPT !.stop = TRUE]
                                                ELSE Receive(i2c, transfer.len))
        BY <1>1 DEF Transmitted, Rose, WaitFails, Go
    <2>2. ~i2c.pos /\ ~i2c.sb /\ transfer.kind \notin {"none", "probe", "read"} /\ data = <<>>
        BY <2>1 DEF I2cInv, BitsAreOfLength, Sending
    <2>3. CASE transfer.kind = "write"
      <3>1. i2c' \in Peripherals /\ ~i2c'.pos /\ ~i2c'.sb
          BY <1>0, <2>1, <2>2, <2>3 DEF Peripherals
      <3> QED
          BY <2>1, <2>3, <3>1, WriteIsOver DEF Reads
    <2>4. CASE transfer.kind # "write"
      <3>1. /\ i2c' \in Peripherals /\ ~i2c'.sb
            /\ i2c'.ack <=> transfer.len >= 3
            /\ i2c'.pos <=> transfer.len = 2
          BY <1>0, <2>1, <2>2, <2>4, ReceiveBits
      <3>2. transfer.kind \in Reads
          BY <1>0, <2>2, <2>4 DEF Transfers
      <3>3. I2cTypeOK' /\ StartIsClean' /\ DownIsQuiet'
          BY <1>0, <2>1, <2>4, <3>1 DEF I2cTypeOK, StartIsClean, DownIsQuiet, Peripherals
      <3>4. BitsAreOfLength'
          BY <2>1, <2>2, <2>4, <3>1, <3>2 DEF BitsAreOfLength, Sending, Receiving
      <3>5. BytesAreInOrder' /\ PhaseIsRight' /\ ReadIsComplete'
          BY <2>1, <2>4 DEF BytesAreInOrder, PhaseIsRight, ReadIsComplete, Receiving
      <3> QED
          BY <3>3, <3>4, <3>5 DEF I2cInv
    <2> QED
        BY <2>3, <2>4
  <1>2. CASE SendStartRead /\ ~Abort
    <2>1. pc = "sb_r" /\ i2c.sb /\ i2c' = SendAddress("R") /\ Go("addr_r") /\ UNCHANGED data
        BY <1>2 DEF SendStartRead, Rose, WaitFails
    <2>2. /\ i2c' = [i2c EXCEPT !.sb = FALSE, !.sending = "R", !.dr = None, !.sh = None,
                               !.of = transfers, !.sent = 0]
          /\ pc' = "addr_r" /\ UNCHANGED <<ready, transfer, data, result, transfers>>
        BY <2>1 DEF SendAddress, Go
    <2>3. ~i2c.start /\ ~i2c.clocking /\ ~i2c.acked
        BY <2>1 DEF I2cInv, StartIsClean
    <2>4. /\ (i2c.ack <=> transfer.len >= 3) /\ (i2c.pos <=> transfer.len = 2)
          /\ data = <<>> /\ transfer.kind \in Reads
        BY <2>1 DEF I2cInv, BitsAreOfLength
    <2>5. i2c' \in Peripherals
        BY <1>0, <2>2, NoneFacts DEF Peripherals
    <2>6. /\ i2c'.dr = None /\ i2c'.sh = None /\ i2c'.of = transfers /\ i2c'.sent = 0 /\ ~i2c'.sb
          /\ i2c'.start = i2c.start /\ i2c'.clocking = i2c.clocking /\ i2c'.acked = i2c.acked
          /\ i2c'.ack = i2c.ack /\ i2c'.pos = i2c.pos
        BY <1>0, <2>2 DEF Peripherals
    <2>7. I2cTypeOK' /\ StartIsClean' /\ DownIsQuiet'
        BY <1>0, <2>2, <2>5, <2>6 DEF I2cTypeOK, StartIsClean, DownIsQuiet, Peripherals
    <2>8. BitsAreOfLength'
        BY <2>2, <2>3, <2>4, <2>6 DEF BitsAreOfLength, Sending, Receiving
    <2>9. Len(data') = 0 /\ data' = Bytes(0)' /\ HeldBytes' = 0
        BY <2>2, <2>4, <2>6 DEF Bytes, HeldBytes
    <2>10. BytesAreInOrder'
        BY <2>2, <2>6, <2>9 DEF BytesAreInOrder
    <2>11. PhaseIsRight' /\ ReadIsComplete'
        BY <2>2, <2>3, <2>6, <2>9 DEF PhaseIsRight, ReadIsComplete
    <2> QED
        BY <2>7, <2>8, <2>10, <2>11 DEF I2cInv
  <1> QED
      BY <1>a, <1>1, <1>2

(* A receive phase goes on: what its next state has to show.               *)
LEMMA ReceivingKeeps ==
    ASSUME I2cInv, i2c' \in Peripherals, data' \in Seq(Nat \X Nat),
           UNCHANGED <<ready, transfer, result, transfers>>,
           pc \in Receiving, pc' \in Receiving \ {"addr_r"},
           ~i2c'.sb, ~i2c'.start, i2c'.pos => pc' = "btf_2" /\ transfer.len = 2,
           BytesAreInOrder', PhaseIsRight'
    PROVE  I2cInv'
  <1>1. transfer.kind \in Reads
      BY DEF I2cInv, BitsAreOfLength
  <1>2. I2cTypeOK' /\ StartIsClean' /\ DownIsQuiet'
      BY DEF I2cInv, I2cTypeOK, StartIsClean, DownIsQuiet, Receiving, Peripherals
  <1>3. BitsAreOfLength' /\ ReadIsComplete'
      BY <1>1 DEF BitsAreOfLength, ReadIsComplete, Sending, Receiving
  <1> QED
      BY <1>2, <1>3 DEF I2cInv

(* The bits a receive phase has left alone.                                *)
LEMMA ReceivingBits ==
    ASSUME I2cInv, pc \in Receiving
    PROVE  /\ ~i2c.sb /\ ~i2c.start /\ transfer.kind \in Reads
           /\ pc \notin {"addr_r", "btf_2"} => ~i2c.pos
           /\ i2c.pos => transfer.len = 2
  BY DEF I2cInv, BitsAreOfLength, Receiving

LEMMA AddressesRead == I2cInv /\ AddressedRead => I2cInv'
  <1> SUFFICES ASSUME I2cInv, AddressedRead PROVE I2cInv'
      OBVIOUS
  <1>0. /\ i2c \in Peripherals /\ transfers \in Nat /\ transfer.len \in Nat
        /\ data \in Seq(Nat \X Nat) /\ Len(data) \in Nat
      BY I2cTypes
  <1>a. CASE Abort
      BY <1>a, Aborts
  <1>1. CASE ~Abort
    <2>1. /\ pc = "addr_r" /\ UNCHANGED <<ready, transfer, data, result, transfers>>
          /\ i2c' = [ClearAddr(i2c) EXCEPT !.clocking = ~i2c.stop]
          /\ pc' = (CASE transfer.len = 1 -> "stop_1" [] transfer.len = 2 -> "btf_2"
                      [] OTHER -> NextRead(0))
        BY <1>1 DEF AddressedRead, Rose, WaitFails, Go
    <2>2. PICK c \in BOOLEAN : c = ~i2c.stop
        BY <1>0 DEF Peripherals
    <2>3. i2c' = [i2c EXCEPT !.addr = FALSE, !.clocking = c]
        BY <1>0, <2>1, <2>2 DEF ClearAddr, Peripherals
    <2>4. i2c' \in Peripherals
        BY <1>0, <2>3 DEF Peripherals
    <2>5. /\ i2c'.dr = i2c.dr /\ i2c'.sh = i2c.sh /\ i2c'.of = i2c.of /\ i2c'.sent = i2c.sent
          /\ i2c'.sb = i2c.sb /\ i2c'.start = i2c.start /\ i2c'.acked = i2c.acked
          /\ i2c'.ack = i2c.ack /\ i2c'.pos = i2c.pos
        BY <1>0, <2>3 DEF Peripherals
    <2>6. Len(data) = 0 /\ i2c.sent = 0
        BY <2>1 DEF I2cInv, PhaseIsRight
    <2>7. (i2c.ack <=> transfer.len >= 3) /\ (i2c.pos <=> transfer.len = 2)
        BY <2>1 DEF I2cInv, BitsAreOfLength
    <2>8. ~i2c.sb /\ ~i2c.start /\ transfer.kind \in Reads /\ pc \in Receiving
        BY <2>1, ReceivingBits DEF Receiving
    <2>9. transfer.len # 0
        BY <2>8, I2cAssumption DEF I2cInv, I2cTypeOK
    <2>10. /\ pc' = "stop_1" <=> transfer.len = 1
           /\ pc' = "btf_2" <=> transfer.len = 2
           /\ pc' = "rx" <=> transfer.len > 3
           /\ pc' = "btf_n" <=> transfer.len = 3
           /\ pc' \in {"stop_1", "btf_2", "rx", "btf_n"}
        BY <1>0, <2>1, <2>9, SMTT(30) DEF NextRead, ReadEarly
    <2>11. BytesAreInOrder'
      <3>1. i2c.sh = None
          BY <1>0, <2>6, <2>8 DEF I2cInv, BytesAreInOrder, HeldBytes
      <3>2. HeldBytes' = HeldBytes /\ Bytes(Len(data))' = Bytes(Len(data))
          BY <2>1, <2>5 DEF HeldBytes, Bytes
      <3> QED
          BY <2>1, <2>5, <2>8, <3>1, <3>2 DEF I2cInv, BytesAreInOrder
    <2>12. PhaseIsRight'
        BY <1>0, <2>1, <2>5, <2>6, <2>7, <2>10 DEF PhaseIsRight, Refuses
    <2> QED
        BY <1>0, <2>1, <2>4, <2>5, <2>7, <2>8, <2>10, <2>11, <2>12, ReceivingKeeps DEF Receiving
  <1> QED
      BY <1>a, <1>1

(* A STOP is requested while the last byte or the last two come in.        *)
LEMMA Stops == I2cInv /\ (StopOne \/ StopN) => I2cInv'
  <1> SUFFICES ASSUME I2cInv, StopOne \/ StopN PROVE I2cInv'
      OBVIOUS
  <1>0. i2c \in Peripherals /\ transfer.len \in Nat /\ data \in Seq(Nat \X Nat) /\ Len(data) \in Nat
        /\ i2c.sent \in Nat
      BY I2cTypes
  <1>1. /\ i2c' = [i2c EXCEPT !.stop = TRUE] /\ UNCHANGED <<ready, transfer, data, result, transfers>>
        /\ (pc = "stop_1" /\ pc' = "last") \/ (pc = "stop_n" /\ pc' = "held")
      BY DEF StopOne, StopN, Go
  <1>2. i2c' \in Peripherals
      BY <1>0, <1>1 DEF Peripherals
  <1>3. /\ i2c'.dr = i2c.dr /\ i2c'.sh = i2c.sh /\ i2c'.of = i2c.of /\ i2c'.sent = i2c.sent
        /\ i2c'.sb = i2c.sb /\ i2c'.start = i2c.start /\ i2c'.acked = i2c.acked
        /\ i2c'.ack = i2c.ack /\ i2c'.pos = i2c.pos /\ i2c'.clocking = i2c.clocking
      BY <1>0, <1>1 DEF Peripherals
  <1>4. ~i2c.sb /\ ~i2c.start /\ ~i2c.pos /\ pc \in Receiving
      BY <1>1, ReceivingBits DEF Receiving
  <1>5. BytesAreInOrder'
    <2>1. HeldBytes' = HeldBytes /\ Bytes(Len(data))' = Bytes(Len(data))
        BY <1>1, <1>3 DEF HeldBytes, Bytes
    <2> QED
        BY <1>1, <1>3, <1>4, <2>1 DEF I2cInv, BytesAreInOrder
  <1>6. PhaseIsRight'
    <2>1. CASE pc = "stop_1"
      <3>1. transfer.len = 1 /\ Len(data) = 0 /\ Refuses
          BY <2>1 DEF I2cInv, PhaseIsRight
      <3>2. i2c.sh = None
        <4>1. i2c.sent = Len(data) + HeldBytes /\ (i2c.dr = None => i2c.sh = None)
            BY <1>4 DEF I2cInv, BytesAreInOrder
        <4>2. i2c.sent <= 1
            BY <3>1 DEF Refuses
        <4> QED
            BY <1>0, <3>1, <4>1, <4>2 DEF HeldBytes
      <3> QED
          BY <1>1, <1>3, <2>1, <3>1, <3>2 DEF PhaseIsRight, Refuses
    <2>2. CASE pc = "stop_n"
        BY <1>1, <1>3, <2>2 DEF I2cInv, PhaseIsRight, Refuses
    <2> QED
        BY <1>1, <2>1, <2>2
  <1> QED
      BY <1>0, <1>1, <1>2, <1>3, <1>4, <1>5, <1>6, ReceivingKeeps DEF Receiving

(* DR is read and its byte stored: the bytes stay in order.                *)
LEMMA DrIsStored ==
    ASSUME I2cInv, pc \in Receiving, NEW p \in Peripherals,
           p.dr = i2c.dr, p.sh = i2c.sh, p.of = i2c.of, p.sent = i2c.sent, p.sb = i2c.sb,
           p.start = i2c.start, p.acked = i2c.acked, p.pos = i2c.pos, p.clocking = i2c.clocking,
           i2c.dr # None, data' = Append(data, i2c.dr), i2c' = ReadDr(p), transfers' = transfers
    PROVE  /\ data' = Bytes(Len(data) + 1) /\ Len(data') = Len(data) + 1
           /\ data' \in Seq(Nat \X Nat)
           /\ i2c' \in Peripherals /\ i2c'.dr = i2c.sh /\ i2c'.sh = None
           /\ i2c'.sent = i2c.sent /\ i2c'.ack = p.ack /\ i2c'.acked = i2c.acked
           /\ i2c'.sb = i2c.sb /\ i2c'.start = i2c.start /\ i2c'.pos = i2c.pos
           /\ i2c'.clocking => i2c.clocking \/ (i2c.sh # None /\ i2c.acked)
           /\ i2c.sent = Len(data) + (IF i2c.sh = None THEN 1 ELSE 2)
           /\ BytesAreInOrder'
  <1>0. /\ i2c \in Peripherals /\ transfers \in Nat /\ Len(data) \in Nat /\ data \in Seq(Nat \X Nat)
        /\ i2c.sent \in Nat
      BY I2cTypes
  <1>1. PICK c \in BOOLEAN : c = (p.clocking \/ (p.sh # None /\ p.acked /\ ~p.stop))
      BY DEF Peripherals
  <1>2. i2c' = [p EXCEPT !.dr = p.sh, !.sh = None, !.clocking = c]
      BY <1>1, Zenon DEF ReadDr
  <1>3. i2c' \in Peripherals
      BY <1>2, NoneFacts, ZenonT(60) DEF Peripherals
  <1>4. /\ i2c'.dr = i2c.sh /\ i2c'.sh = None /\ i2c'.of = i2c.of
        /\ i2c'.sent = i2c.sent /\ i2c'.ack = p.ack /\ i2c'.acked = i2c.acked
        /\ i2c'.sb = i2c.sb /\ i2c'.start = i2c.start /\ i2c'.pos = i2c.pos /\ i2c'.clocking = c
      BY <1>2 DEF Peripherals
  <1>5. /\ i2c.of = transfers /\ data = Bytes(Len(data)) /\ i2c.dr = <<transfers, Len(data) + 1>>
        /\ i2c.sh \in {None, <<transfers, Len(data) + 2>>}
        /\ i2c.sent = Len(data) + HeldBytes /\ (i2c.sh # None => ~i2c.clocking)
      BY DEF I2cInv, BytesAreInOrder
  <1>6. HeldBytes = (IF i2c.sh = None THEN 1 ELSE 2) /\ HeldBytes' = (IF i2c.sh = None THEN 0 ELSE 1)
      BY <1>4 DEF HeldBytes
  <1>7. /\ data' = [j \in 1 .. Len(data) + 1 |-> <<transfers, j>>]
        /\ Len(data') = Len(data) + 1 /\ data' \in Seq(Nat \X Nat)
    <2>1. data = [j \in 1 .. Len(data) |-> <<transfers, j>>]
        BY <1>5 DEF Bytes
    <2>2. data' = [j \in 1 .. Len(data) + 1 |-> <<transfers, j>>]
      <3>1. Append([j \in 1 .. Len(data) |-> <<transfers, j>>], <<transfers, Len(data) + 1>>)
              = [j \in 1 .. Len(data) + 1 |-> <<transfers, j>>]
          BY <1>0, BytesGrow
      <3> QED
          BY <1>5, <2>1, <3>1, Zenon
    <2>3. i2c.dr \in Nat \X Nat
        BY I2cTypes
    <2> QED
        BY <1>0, <2>2, <2>3
  <1>8. BytesAreInOrder'
    <2>1. data' = Bytes(Len(data))'
        BY <1>7 DEF Bytes
    <2>2. i2c'.sent = Len(data') + HeldBytes'
        BY <1>0, <1>4, <1>5, <1>6, <1>7
    <2>3. i2c'.dr \in {None, <<transfers', Len(data') + 1>>}
        BY <1>0, <1>4, <1>5, <1>7
    <2> QED
        BY <1>4, <1>5, <2>1, <2>2, <2>3 DEF BytesAreInOrder
  <1> QED
      BY <1>1, <1>3, <1>4, <1>5, <1>6, <1>7, <1>8 DEF Bytes

LEMMA Receives == I2cInv /\ (ReceiveNext \/ ReceiveHeld \/ ReadHeld) => I2cInv'
  <1> SUFFICES ASSUME I2cInv, ReceiveNext \/ ReceiveHeld \/ ReadHeld PROVE I2cInv'
      OBVIOUS
  <1>0. /\ i2c \in Peripherals /\ transfers \in Nat /\ Len(data) \in Nat /\ transfer.len \in Nat
        /\ i2c.sent \in Nat
      BY I2cTypes
  <1>a. CASE Abort
      BY <1>a, Aborts
  <1>1. CASE ReceiveNext /\ ~Abort
    <2>1. /\ pc = "rx" /\ i2c.dr # None /\ data' = Append(data, i2c.dr) /\ i2c' = ReadDr(i2c)
          /\ pc' = NextRead(Len(data) + 1) /\ UNCHANGED <<ready, transfer, result, transfers>>
        BY <1>1 DEF ReceiveNext, Rose, WaitFails, Rxne, Store, Go
    <2>2. pc \in Receiving /\ ~i2c.sb /\ ~i2c.start /\ ~i2c.pos
        BY <2>1, ReceivingBits DEF Receiving
    <2>3. /\ Len(data') = Len(data) + 1 /\ i2c' \in Peripherals /\ BytesAreInOrder'
          /\ ~i2c'.sb /\ ~i2c'.start /\ ~i2c'.pos /\ data' \in Seq(Nat \X Nat)
        BY <1>0, <2>1, <2>2, DrIsStored
    <2>4. transfer.len > Len(data) + 3
        BY <2>1 DEF I2cInv, PhaseIsRight
    <2>5. /\ pc' \in {"rx", "btf_n"}
          /\ pc' = "rx" => transfer.len > Len(data) + 4
          /\ pc' = "btf_n" => transfer.len = Len(data) + 4
        BY <1>0, <2>1, <2>4 DEF NextRead, ReadEarly
    <2>6. PhaseIsRight'
        BY <1>0, <2>1, <2>3, <2>5 DEF PhaseIsRight
    <2> QED
        BY <2>1, <2>2, <2>3, <2>5, <2>6, ReceivingKeeps DEF Receiving
  <1>2. CASE ReceiveHeld /\ ~Abort
    <2>1. /\ pc = "btf_n" /\ i2c.dr # None /\ i2c.sh # None /\ data' = Append(data, i2c.dr)
          /\ i2c' = ReadDr([i2c EXCEPT !.ack = FALSE])
          /\ pc' = "stop_n" /\ UNCHANGED <<ready, transfer, result, transfers>>
        BY <1>2 DEF ReceiveHeld, Rose, WaitFails, Btf, Store, Go
    <2>2. PICK p \in Peripherals : p = [i2c EXCEPT !.ack = FALSE]
      <3>1. [i2c EXCEPT !.ack = FALSE] \in Peripherals
          BY <1>0 DEF Peripherals
      <3> QED
          BY <3>1
    <2>3. /\ p.dr = i2c.dr /\ p.sh = i2c.sh /\ p.of = i2c.of /\ p.sent = i2c.sent /\ p.sb = i2c.sb
          /\ p.start = i2c.start /\ p.acked = i2c.acked /\ p.pos = i2c.pos
          /\ p.clocking = i2c.clocking /\ ~p.ack
        BY <1>0, <2>2 DEF Peripherals
    <2>4. pc \in Receiving /\ ~i2c.sb /\ ~i2c.start /\ ~i2c.pos
        BY <2>1, ReceivingBits DEF Receiving
    <2>5. i2c' = ReadDr(p)
        BY <2>1, <2>2
    <2>6. /\ Len(data') = Len(data) + 1 /\ i2c' \in Peripherals /\ BytesAreInOrder'
          /\ ~i2c'.sb /\ ~i2c'.start /\ ~i2c'.pos /\ data' \in Seq(Nat \X Nat)
          /\ i2c'.dr = i2c.sh /\ ~i2c'.ack /\ i2c'.sent = i2c.sent /\ i2c.sent = Len(data) + 2
        BY <2>1, <2>3, <2>4, <2>5, DrIsStored
    <2>7. transfer.len = Len(data) + 3
        BY <2>1 DEF I2cInv, PhaseIsRight
    <2>8. PhaseIsRight'
        BY <1>0, <2>1, <2>6, <2>7 DEF PhaseIsRight, Refuses
    <2> QED
        BY <2>1, <2>4, <2>6, <2>8, ReceivingKeeps DEF Receiving
  <1>3. CASE ReadHeld
    <2>1. /\ pc = "held" /\ data' = Append(data, i2c.dr) /\ i2c' = ReadDr(i2c)
          /\ pc' = "last" /\ UNCHANGED <<ready, transfer, result, transfers>>
        BY <1>3 DEF ReadHeld, Store, Go
    <2>2. pc \in Receiving /\ ~i2c.sb /\ ~i2c.start /\ ~i2c.pos
        BY <2>1, ReceivingBits DEF Receiving
    <2>3. transfer.len = Len(data) + 2 /\ i2c.dr # None /\ Refuses
        BY <2>1 DEF I2cInv, PhaseIsRight
    <2>4. /\ Len(data') = Len(data) + 1 /\ i2c' \in Peripherals /\ BytesAreInOrder'
          /\ ~i2c'.sb /\ ~i2c'.start /\ ~i2c'.pos /\ data' \in Seq(Nat \X Nat)
          /\ i2c'.ack = i2c.ack /\ i2c'.sent = i2c.sent /\ i2c'.acked = i2c.acked /\ i2c'.sh = None
          /\ i2c'.clocking => i2c.clocking \/ (i2c.sh # None /\ i2c.acked)
          /\ i2c.sent = Len(data) + (IF i2c.sh = None THEN 1 ELSE 2)
        BY <1>0, <2>1, <2>2, <2>3, DrIsStored
    <2>5. Refuses'
        BY <1>0, <2>1, <2>3, <2>4 DEF Refuses
    <2>6. PhaseIsRight'
        BY <1>0, <2>1, <2>3, <2>4, <2>5 DEF PhaseIsRight
    <2> QED
        BY <2>1, <2>2, <2>4, <2>6, ReceivingKeeps DEF Receiving
  <1> QED
      BY <1>a, <1>1, <1>2, <1>3

(* The last bytes are stored: what a finished read has to show.            *)
LEMMA ReadIsOver ==
    ASSUME I2cInv, i2c' \in Peripherals, data' \in Seq(Nat \X Nat),
           UNCHANGED <<ready, transfer, result, transfers>>, pc' = "free",
           ~i2c'.sb, ~i2c'.pos, data' = Bytes(transfer.len), i2c'.sent = transfer.len,
           ~i2c'.acked, ~i2c'.clocking
    PROVE  I2cInv'
  <1>1. I2cTypeOK' /\ StartIsClean' /\ DownIsQuiet'
      BY DEF I2cInv, I2cTypeOK, StartIsClean, DownIsQuiet, Peripherals
  <1>2. BitsAreOfLength' /\ BytesAreInOrder' /\ PhaseIsRight'
      BY DEF BitsAreOfLength, BytesAreInOrder, PhaseIsRight, Sending, Receiving
  <1>3. ReadIsComplete'
      BY DEF ReadIsComplete, Bytes
  <1> QED
      BY <1>1, <1>2, <1>3 DEF I2cInv

LEMMA Completes == I2cInv /\ (ReceiveTwo \/ ReceiveLast) => I2cInv'
  <1> SUFFICES ASSUME I2cInv, ReceiveTwo \/ ReceiveLast PROVE I2cInv'
      OBVIOUS
  <1>0. /\ i2c \in Peripherals /\ transfers \in Nat /\ Len(data) \in Nat /\ transfer.len \in Nat
        /\ i2c.sent \in Nat /\ data \in Seq(Nat \X Nat)
      BY I2cTypes
  <1>a. CASE Abort
      BY <1>a, Aborts
  <1>1. CASE ReceiveTwo /\ ~Abort
    <2>1. /\ pc = "btf_2" /\ i2c.dr # None /\ i2c.sh # None /\ data' = data \o <<i2c.dr, i2c.sh>>
          /\ i2c' = [i2c EXCEPT !.stop = TRUE, !.pos = FALSE, !.dr = None, !.sh = None]
          /\ pc' = "free" /\ UNCHANGED <<ready, transfer, result, transfers>>
        BY <1>1 DEF ReceiveTwo, Rose, WaitFails, Btf, Go
    <2>2. pc \in Receiving /\ ~i2c.sb
        BY <2>1, ReceivingBits DEF Receiving
    <2>3. transfer.len = 2 /\ Len(data) = 0 /\ Refuses
        BY <2>1 DEF I2cInv, PhaseIsRight
    <2>4. /\ i2c.dr = <<transfers, 1>> /\ i2c.sh = <<transfers, 2>> /\ i2c.sent = 2
        BY <2>1, <2>2, <2>3 DEF I2cInv, BytesAreInOrder, HeldBytes
    <2>5. ~i2c.acked /\ ~i2c.clocking
        BY <2>3, <2>4 DEF Refuses
    <2>6. i2c' \in Peripherals
        BY <1>0, <2>1, NoneFacts DEF Peripherals
    <2>7. ~i2c'.sb /\ ~i2c'.pos /\ i2c'.sent = 2 /\ ~i2c'.acked /\ ~i2c'.clocking
        BY <1>0, <2>1, <2>2, <2>4, <2>5 DEF Peripherals
    <2>8. data' \in Seq(Nat \X Nat) /\ data' = Bytes(2)
      <3>1. data = <<>>
          BY <1>0, <2>3
      <3>2. data' = <<<<transfers, 1>>, <<transfers, 2>>>>
          BY <2>1, <2>4, <3>1
      <3>3. <<transfers, 1>> \in Nat \X Nat /\ <<transfers, 2>> \in Nat \X Nat
          BY <1>0
      <3>4. data' \in Seq(Nat \X Nat) /\ Len(data') = 2
          BY <3>2, <3>3
      <3>5. Bytes(2) \in Seq(Nat \X Nat) /\ Len(Bytes(2)) = 2
          BY <1>0 DEF Bytes
      <3>6. \A j \in 1 .. 2 : data'[j] = Bytes(2)[j]
          BY <3>2 DEF Bytes
      <3> QED
        <4>1. data' = [j \in 1 .. 2 |-> data'[j]] /\ Bytes(2) = [j \in 1 .. 2 |-> Bytes(2)[j]]
            BY <3>4, <3>5
        <4> QED
            BY <3>4, <3>6, <4>1
    <2> QED
        BY <2>1, <2>3, <2>6, <2>7, <2>8, ReadIsOver
  <1>2. CASE ReceiveLast /\ ~Abort
    <2>1. /\ pc = "last" /\ i2c.dr # None /\ data' = Append(data, i2c.dr) /\ i2c' = ReadDr(i2c)
          /\ pc' = "free" /\ UNCHANGED <<ready, transfer, result, transfers>>
        BY <1>2 DEF ReceiveLast, Rose, WaitFails, Rxne, Store, Go
    <2>2. pc \in Receiving /\ ~i2c.sb /\ ~i2c.pos
        BY <2>1, ReceivingBits DEF Receiving
    <2>3. transfer.len = Len(data) + 1 /\ i2c.sh = None /\ Refuses
        BY <2>1 DEF I2cInv, PhaseIsRight
    <2>4. /\ data' = Bytes(Len(data) + 1) /\ data' \in Seq(Nat \X Nat) /\ i2c' \in Peripherals
          /\ ~i2c'.sb /\ ~i2c'.pos /\ i2c'.sent = i2c.sent /\ i2c'.acked = i2c.acked
          /\ (i2c'.clocking => i2c.clocking) /\ i2c.sent = Len(data) + 1
        BY <1>0, <2>1, <2>2, <2>3, DrIsStored
    <2>5. ~i2c.acked /\ ~i2c.clocking
        BY <1>0, <2>3, <2>4 DEF Refuses
    <2> QED
        BY <2>1, <2>3, <2>4, <2>5, ReadIsOver
  <1> QED
      BY <1>a, <1>1, <1>2

LEMMA I2cStep == I2cInv /\ [I2cNext]_i2cVars => I2cInv'
  <1> SUFFICES ASSUME I2cInv, [I2cNext]_i2cVars PROVE I2cInv'
      OBVIOUS
  <1>1. CASE UNCHANGED i2cVars
      BY <1>1 DEF i2cVars, I2cInv, I2cTypeOK, DownIsQuiet, StartIsClean, BitsAreOfLength,
                  BytesAreInOrder, PhaseIsRight, ReadIsComplete, Bytes, HeldBytes, Refuses
  <1>2. CASE Begin("probe", 0)
      BY <1>2, Begins DEF Reads
  <1>3. ASSUME NEW kind \in {"write", "read", "readRegisters"}, NEW n \in Lengths, Begin(kind, n)
        PROVE  I2cInv'
    <2>1. n \in Nat /\ kind \in Reads \cup {"probe", "write"}
        BY I2cAssumption DEF Reads
    <2> QED
        BY <1>3, <2>1, Begins
  <1> QED
      BY <1>1, <1>2, <1>3, HardwareMoves, ByteArrives, Rests, Sends, Turns, AddressesRead, Stops,
         Receives, Completes, Frees DEF I2cNext

(* The bus driver keeps its inductive invariant: where the program is in   *)
(* receive(), what the peripheral holds and what the sensor was told fit   *)
(* together at every register access.                                      *)
THEOREM I2cInvariant == I2cSpec => []I2cInv
  BY I2cStarts, I2cStep, PTL DEF I2cSpec

(* A read of any length that returns true stored exactly the sensor's      *)
(* bytes of this transfer, in order, and refused the last one.             *)
THEOREM I2cBurstIsWhole == I2cSpec => []BurstIsWhole
  <1>1. I2cInv => BurstIsWhole
      BY DEF I2cInv, ReadIsComplete, BurstIsWhole, Bytes, Reads
  <1> QED
      BY <1>1, I2cInvariant, PTL

-----------------------------------------------------------------------------
(* The serial line.                                                        *)

LEMMA ModUnique ==
    ASSUME NEW n \in Nat, n > 0, NEW x \in Int, NEW m \in 0 .. n - 1, NEW q \in Int, x = q * n + m
    PROVE  x % n = m
  BY SMTT(30)

(* The place in a ring of n cells that is d beyond the place of x.         *)
LEMMA ModBeyond ==
    ASSUME NEW n \in Nat \ {0}, NEW x \in Nat, NEW d \in 0 .. n - 1
    PROVE  /\ x % n \in 0 .. n - 1
           /\ (x + d) % n = IF (x % n) + d < n THEN (x % n) + d ELSE (x % n) + d - n
  <1>1. PICK q \in Int : q = x \div n
      BY SMT
  <1>2. PICK m \in 0 .. n - 1 : m = x % n
      BY SMT
  <1>3. x = n * (x \div n) + (x % n)
      BY SMTT(30)
  <1>4. x = q * n + m
      BY <1>1, <1>2, <1>3
  <1>5. CASE m + d < n
    <2>1. x + d = q * n + (m + d) /\ m + d \in 0 .. n - 1 /\ x + d \in Int
        BY <1>4, <1>5
    <2>2. PICK y \in Int, w \in 0 .. n - 1 : y = x + d /\ w = m + d
        BY <2>1, Zenon
    <2>3. y = q * n + w /\ n \in Nat /\ n > 0
        BY <2>1, <2>2
    <2>4. y % n = w
        BY <2>3, ModUnique, Zenon
    <2> QED
        BY <2>4, <1>2, <1>5, <2>2, <2>3
  <1>6. CASE m + d >= n
    <2>1. x + d = (q + 1) * n + (m + d - n) /\ m + d - n \in 0 .. n - 1 /\ x + d \in Int /\ q + 1 \in Int
        BY <1>4, <1>6
    <2>2. PICK y \in Int, w \in 0 .. n - 1, z \in Int : y = x + d /\ w = m + d - n /\ z = q + 1
        BY <2>1, Zenon
    <2>3. y = z * n + w /\ n \in Nat /\ n > 0
        BY <2>1, <2>2
    <2>4. y % n = w
        BY <2>3, ModUnique, Zenon
    <2> QED
        BY <2>4, <1>2, <1>6, <2>2, <2>3
  <1> QED
      BY <1>2, <1>5, <1>6

(* t is s with bytes left out, or garbled.                                 *)
Thins(s, t) ==
    \E f \in [1 .. Len(t) -> 1 .. Len(s)] :
        /\ \A i, j \in 1 .. Len(t) : i < j => f[i] < f[j]
        /\ \A i \in 1 .. Len(t) : t[i] = s[f[i]] \/ t[i].sum = <<>>

LEMMA ThinSame == ASSUME NEW s \in Seq(Wired) PROVE Thins(s, s)
  <1>1. PICK f : f = [i \in 1 .. Len(s) |-> i]
      OBVIOUS
  <1>2. f \in [1 .. Len(s) -> 1 .. Len(s)]
      BY <1>1
  <1> QED
      BY <1>1, <1>2 DEF Thins

LEMMA ThinEmpty == ASSUME NEW s \in Seq(Wired) PROVE Thins(s, <<>>)
  <1>1. PICK f : f = [i \in 1 .. Len(<<>>) |-> 1]
      OBVIOUS
  <1>2. f \in [1 .. Len(<<>>) -> 1 .. Len(s)] /\ 1 .. Len(<<>>) = {}
      BY <1>1
  <1> QED
      BY <1>1, <1>2 DEF Thins

LEMMA ThinTail == ASSUME NEW s \in Seq(Wired), s # <<>> PROVE Thins(s, Tail(s))
  <1>1. PICK f : f = [i \in 1 .. Len(Tail(s)) |-> i + 1]
      OBVIOUS
  <1>2. f \in [1 .. Len(Tail(s)) -> 1 .. Len(s)]
      BY <1>1
  <1> QED
      BY <1>1, <1>2 DEF Thins

LEMMA ThinConcat ==
    ASSUME NEW s \in Seq(Wired), NEW t \in Seq(Wired), Thins(s, t),
           NEW u \in Seq(Wired), NEW v \in Seq(Wired), Thins(u, v)
    PROVE  Thins(s \o u, t \o v)
  <1>1. PICK f \in [1 .. Len(t) -> 1 .. Len(s)] :
            /\ \A i, j \in 1 .. Len(t) : i < j => f[i] < f[j]
            /\ \A i \in 1 .. Len(t) : t[i] = s[f[i]] \/ t[i].sum = <<>>
      BY Zenon DEF Thins
  <1>2. PICK g \in [1 .. Len(v) -> 1 .. Len(u)] :
            /\ \A i, j \in 1 .. Len(v) : i < j => g[i] < g[j]
            /\ \A i \in 1 .. Len(v) : v[i] = u[g[i]] \/ v[i].sum = <<>>
      BY Zenon DEF Thins
  <1>3. PICK h : h = [i \in 1 .. Len(t \o v) |-> IF i <= Len(t) THEN f[i] ELSE Len(s) + g[i - Len(t)]]
      OBVIOUS
  <1>4. Len(t \o v) = Len(t) + Len(v) /\ Len(s \o u) = Len(s) + Len(u)
      OBVIOUS
  <1>5. h \in [1 .. Len(t \o v) -> 1 .. Len(s \o u)]
      BY <1>1, <1>2, <1>3, <1>4
  <1>6. \A i, j \in 1 .. Len(t \o v) : i < j => h[i] < h[j]
    <2> SUFFICES ASSUME NEW i \in 1 .. Len(t \o v), NEW j \in 1 .. Len(t \o v), i < j
                 PROVE  h[i] < h[j]
        OBVIOUS
    <2>1. CASE j <= Len(t)
        BY <1>1, <1>3, <1>4, <2>1
    <2>2. CASE i > Len(t)
      <3>1. i - Len(t) \in 1 .. Len(v) /\ j - Len(t) \in 1 .. Len(v) /\ i - Len(t) < j - Len(t)
          BY <1>4, <2>2
      <3>2. g[i - Len(t)] < g[j - Len(t)]
          BY <3>1, <1>2
      <3>3. g[i - Len(t)] \in 1 .. Len(u) /\ g[j - Len(t)] \in 1 .. Len(u)
          BY <3>1, <1>2, Zenon
      <3>4. h[i] = Len(s) + g[i - Len(t)] /\ h[j] = Len(s) + g[j - Len(t)]
          BY <1>3, <1>4, <2>2
      <3> QED
          BY <3>2, <3>3, <3>4
    <2>3. CASE i <= Len(t) /\ j > Len(t)
      <3>1. i \in 1 .. Len(t) /\ j - Len(t) \in 1 .. Len(v)
          BY <1>4, <2>3
      <3>2. f[i] \in 1 .. Len(s) /\ g[j - Len(t)] \in 1 .. Len(u)
          BY <3>1, <1>1, <1>2
      <3>3. h[i] = f[i] /\ h[j] = Len(s) + g[j - Len(t)]
          BY <1>3, <1>4, <2>3
      <3> QED
          BY <3>2, <3>3
    <2> QED
        BY <1>4, <2>1, <2>2, <2>3
  <1>7. \A i \in 1 .. Len(t \o v) : (t \o v)[i] = (s \o u)[h[i]] \/ (t \o v)[i].sum = <<>>
    <2> SUFFICES ASSUME NEW i \in 1 .. Len(t \o v)
                 PROVE  (t \o v)[i] = (s \o u)[h[i]] \/ (t \o v)[i].sum = <<>>
        OBVIOUS
    <2>0. i \in 1 .. Len(t) + Len(v) /\ Len(t) \in Nat /\ Len(v) \in Nat
        BY <1>4
    <2>1. CASE i <= Len(t)
      <3>1. i \in 1 .. Len(t) /\ (t \o v)[i] = t[i]
          BY <1>4, <2>1
      <3>2. h[i] = f[i]
          BY <1>3, <1>4, <2>1
      <3>3. f[i] \in 1 .. Len(s)
          BY <3>1, <1>1, Zenon
      <3>4. (s \o u)[f[i]] = s[f[i]]
          BY <3>3
      <3> QED
          BY <1>1, <3>1, <3>2, <3>4, Zenon
    <2>2. CASE i > Len(t)
      <3>1. PICK k \in 1 .. Len(v) : k = i - Len(t)
        <4>1. i - Len(t) \in 1 .. Len(v)
            BY <2>0, <2>2
        <4> QED
            BY <4>1, Zenon
      <3>2. (t \o v)[i] = v[k]
          BY <3>1, <1>4, <2>2
      <3>3. h[i] = Len(s) + g[k]
          BY <3>1, <1>3, <1>4, <2>2
      <3>4. g[k] \in 1 .. Len(u)
          BY <3>1, <1>2, Zenon
      <3>5. (s \o u)[Len(s) + g[k]] = u[g[k]]
          BY <3>4
      <3> QED
          BY <1>2, <3>2, <3>3, <3>5, Zenon
    <2>3. i <= Len(t) \/ i > Len(t)
        BY <2>0
    <2> QED
        BY <2>1, <2>2, <2>3, Zenon
  <1> QED
      BY <1>5, <1>6, <1>7 DEF Thins

LEMMA ContentsBack ==
    ASSUME NEW pay \in Seq(Nat)
    PROVE  /\ Contents(pay) \in Seq(Nat) /\ Contents(pay) # <<>>
           /\ SubSeq(Contents(pay), 3, Len(Contents(pay))) = pay
  <1>1. /\ Contents(pay) \in Seq(Nat) /\ Len(Contents(pay)) = Len(pay) + 2
        /\ \A i \in 1 .. Len(pay) : Contents(pay)[i + 2] = pay[i]
      BY DEF Contents
  <1>2. PICK c \in Seq(Nat) : c = Contents(pay)
      BY <1>1, Zenon
  <1>3. Len(c) = Len(pay) + 2 /\ \A i \in 1 .. Len(pay) : c[i + 2] = pay[i]
      BY <1>1, <1>2, Zenon
  <1>4. SubSeq(c, 3, Len(c)) = pay
    <2>1. PICK b \in Seq(Nat) : b = SubSeq(c, 3, Len(c))
      <3>1. SubSeq(c, 3, Len(c)) \in Seq(Nat)
          BY <1>3
      <3> QED
          BY <3>1, Zenon
    <2>2. Len(b) = Len(pay) /\ \A i \in 1 .. Len(pay) : b[i] = c[i + 2]
        BY <2>1, <1>3, SMTT(60)
    <2>3. \A i \in 1 .. Len(b) : b[i] = pay[i]
        BY <2>2, <1>3
    <2> QED
        BY <2>1, <2>2, <2>3, SeqEqual
  <1>5. c # <<>>
      BY <1>3
  <1> QED
      BY <1>2, <1>4, <1>5

(* A checksum byte is of one payload.                                      *)
LEMMA SealIsOne ==
    ASSUME NEW byte, NEW p \in DOMAIN Payloads, Seals(byte, p)
    PROVE  /\ byte.sum # <<>> /\ byte.sum \in Seq(Nat)
           /\ SubSeq(byte.sum, 3, Len(byte.sum)) = Payloads[p]
           /\ \A q \in DOMAIN Payloads : Seals(byte, q) => q = p
  <1>1. \A q \in DOMAIN Payloads : Payloads[q] \in Seq(Nat)
      BY LineAssumption
  <1>2. \A q \in DOMAIN Payloads : Seals(byte, q) => SubSeq(byte.sum, 3, Len(byte.sum)) = Payloads[q]
      BY <1>1, ContentsBack, Zenon DEF Seals
  <1>3. \A q \in DOMAIN Payloads : Seals(byte, q) => q = p
      BY <1>2, LineAssumption, Zenon
  <1> QED
      BY <1>1, <1>2, <1>3, ContentsBack, Zenon DEF Seals

LEMMA ThinInOrder ==
    ASSUME NEW s \in Seq(Wired), NEW t \in Seq(Wired), Thins(s, t), SealsInOrder(s)
    PROVE  SealsInOrder(t)
  <1>1. PICK f \in [1 .. Len(t) -> 1 .. Len(s)] :
            /\ \A i, j \in 1 .. Len(t) : i < j => f[i] < f[j]
            /\ \A i \in 1 .. Len(t) : t[i] = s[f[i]] \/ t[i].sum = <<>>
      BY Zenon DEF Thins
  <1>2. DOMAIN s = 1 .. Len(s) /\ DOMAIN t = 1 .. Len(t)
      OBVIOUS
  <1>3. ASSUME NEW i \in DOMAIN t, NEW p \in DOMAIN Payloads, Seals(t[i], p)
        PROVE  f[i] \in DOMAIN s /\ Seals(s[f[i]], p)
    <2>1. t[i].sum # <<>>
        BY <1>3, SealIsOne, Zenon
    <2>2. f[i] \in 1 .. Len(s) /\ t[i] = s[f[i]]
        BY <2>1, <1>1, <1>2, Zenon
    <2> QED
        BY <2>2, <1>2, <1>3, Zenon
  <1>4. ASSUME NEW i \in DOMAIN t, NEW j \in DOMAIN t, NEW p \in DOMAIN Payloads,
               NEW q \in DOMAIN Payloads, i < j, Seals(t[i], p), Seals(t[j], q)
        PROVE  p <= q
    <2>1. f[i] \in DOMAIN s /\ Seals(s[f[i]], p) /\ f[j] \in DOMAIN s /\ Seals(s[f[j]], q)
        BY <1>3, <1>4, Zenon
    <2>2. f[i] < f[j]
        BY <1>1, <1>2, <1>4, Zenon
    <2> QED
        BY <2>1, <2>2, Zenon DEF SealsInOrder
  <1>5. ASSUME NEW i \in DOMAIN t, NEW j \in DOMAIN t, NEW k \in DOMAIN t,
               NEW p \in DOMAIN Payloads,
               i < j, j < k, Seals(t[i], p), Seals(t[j], p), Seals(t[k], p)
        PROVE  FALSE
    <2>1. /\ f[i] \in DOMAIN s /\ Seals(s[f[i]], p) /\ f[j] \in DOMAIN s /\ Seals(s[f[j]], p)
          /\ f[k] \in DOMAIN s /\ Seals(s[f[k]], p)
        BY <1>3, <1>5, Zenon
    <2>2. f[i] < f[j] /\ f[j] < f[k]
        BY <1>1, <1>2, <1>5, Zenon
    <2> QED
        BY <2>1, <2>2, Zenon DEF SealsInOrder
  <1> QED
      BY <1>4, <1>5, Zenon DEF SealsInOrder

LEMMA ThinLater ==
    ASSUME NEW s \in Seq(Wired), NEW t \in Seq(Wired), Thins(s, t), NEW place, LaterThan(s, place)
    PROVE  LaterThan(t, place)
  <1>1. PICK f \in [1 .. Len(t) -> 1 .. Len(s)] :
            \A i \in 1 .. Len(t) : t[i] = s[f[i]] \/ t[i].sum = <<>>
      BY Zenon DEF Thins
  <1>2. DOMAIN s = 1 .. Len(s) /\ DOMAIN t = 1 .. Len(t)
      OBVIOUS
  <1> SUFFICES ASSUME NEW k \in DOMAIN t, t[k].sum # <<>>
               PROVE  \E p \in 1 .. given : Seals(t[k], p) /\ \A j \in DOMAIN place : place[j] < p
      BY Zenon DEF LaterThan
  <1>3. t[k] = s[f[k]] /\ f[k] \in DOMAIN s
      BY <1>1, <1>2, Zenon
  <1> QED
      BY <1>3, Zenon DEF LaterThan

(* A step that only moves bytes on, loses or garbles them.                 *)
LEMMA ThinKeeps ==
    ASSUME SealsInOrder(Ahead), DeliveredBefore(Ahead), Ahead \in Seq(Wired), Ahead' \in Seq(Wired),
           Thins(Ahead, Ahead'), given' = given, delivered' = delivered
    PROVE  SealsInOrder(Ahead)' /\ DeliveredBefore(Ahead)'
  <1>1. PICK s \in Seq(Wired), t \in Seq(Wired) : s = Ahead /\ t = Ahead'
      BY Zenon
  <1>2. SealsInOrder(t)
      BY <1>1, ThinInOrder, Zenon
  <1>3. PICK place \in [1 .. Len(delivered) -> 1 .. given] :
            /\ \A k \in DOMAIN place : Payloads[place[k]] = delivered[k]
            /\ \A k, l \in DOMAIN place : k < l => place[k] < place[l]
            /\ LaterThan(s, place)
      BY <1>1, Zenon DEF DeliveredBefore
  <1>4. LaterThan(t, place)
      BY <1>1, <1>3, ThinLater, Zenon
  <1>5. SealsInOrder(Ahead)'
      BY <1>1, <1>2, Zenon DEF SealsInOrder
  <1>6. DeliveredBefore(Ahead)'
      BY <1>1, <1>3, <1>4, Zenon DEF DeliveredBefore, LaterThan
  <1> QED
      BY <1>5, <1>6

AheadTypeOK ==
    /\ Kept \in Seq(Wired) /\ pendingBytes \in Seq(Wired) /\ RxBytes \in Seq(Wired)
    /\ TxBytes \in Seq(Wired) /\ Unpublished \in Seq(Wired) /\ Ahead \in Seq(Wired)
    /\ Queued \in Nat /\ Received \in 0 .. RxRingSize - 1
    /\ Len(RxBytes) = Received /\ Len(TxBytes) = Queued

LEMMA AheadIsTyped == LineTypeOK => AheadTypeOK
  <1> SUFFICES ASSUME LineTypeOK PROVE AheadTypeOK
      OBVIOUS
  <1> USE LineAssumption
  <1>1. Queued \in Nat /\ Received \in 0 .. RxRingSize - 1
    <2>1. /\ txHead \in Nat /\ txTail \in 0 .. txHead
          /\ rxHead \in 0 .. RxRingSize - 1 /\ rxTail \in 0 .. RxRingSize - 1
        BY Zenon DEF LineTypeOK
    <2> QED
        BY <2>1 DEF Queued, Received
  <1>2. Kept \in Seq(Wired)
    <2>1. parser.crcLow \in Wired
        BY DEF LineTypeOK
    <2>2. CASE parser.state = "CRC_HIGH"
        BY <2>1, <2>2 DEF Kept
    <2>3. CASE parser.state # "CRC_HIGH"
        BY <2>3 DEF Kept
    <2> QED
        BY <2>2, <2>3
  <1>3. RxBytes \in Seq(Wired) /\ Len(RxBytes) = Received
    <2>1. \A k \in 1 .. Received : rxRing[(rxTail + k - 1) % RxRingSize] \in Wired
      <3> SUFFICES ASSUME NEW k \in 1 .. Received
                   PROVE  rxRing[(rxTail + k - 1) % RxRingSize] \in Wired
          OBVIOUS
      <3>1. rxTail + k - 1 \in Nat
          BY <1>1 DEF LineTypeOK
      <3>2. (rxTail + k - 1) % RxRingSize \in 0 .. RxRingSize - 1
          BY <3>1
      <3> QED
          BY <3>2 DEF LineTypeOK
    <2>2. RxBytes \in [1 .. Received -> Wired]
        BY <2>1, Zenon DEF RxBytes
    <2> QED
        BY <1>1, <2>2
  <1>4. TxBytes \in Seq(Wired) /\ Len(TxBytes) = Queued
    <2>1. \A k \in 1 .. Queued : txRing[(txTail + k - 1) % TxRingSize] \in Wired
      <3> SUFFICES ASSUME NEW k \in 1 .. Queued
                   PROVE  txRing[(txTail + k - 1) % TxRingSize] \in Wired
          OBVIOUS
      <3>1. txTail + k - 1 \in Nat
          BY <1>1 DEF LineTypeOK
      <3>2. (txTail + k - 1) % TxRingSize \in 0 .. TxRingSize - 1
          BY <3>1
      <3> QED
          BY <3>2 DEF LineTypeOK
    <2>2. TxBytes \in [1 .. Queued -> Wired]
        BY <2>1, Zenon DEF TxBytes
    <2> QED
        BY <1>1, <2>2
  <1>5. Unpublished \in Seq(Wired) /\ pendingBytes \in Seq(Wired)
      BY DEF LineTypeOK, Unpublished
  <1> QED
      BY <1>1, <1>2, <1>3, <1>4, <1>5 DEF Ahead, AheadTypeOK

LEMMA AheadIsTypedNext == LineTypeOK' => AheadTypeOK'
  BY AheadIsTyped, PTL

LEMMA AheadTyped ==
    ASSUME LineTypeOK
    PROVE  /\ Kept \in Seq(Wired) /\ pendingBytes \in Seq(Wired) /\ RxBytes \in Seq(Wired)
           /\ TxBytes \in Seq(Wired) /\ Unpublished \in Seq(Wired) /\ Ahead \in Seq(Wired)
           /\ Queued \in Nat /\ Received \in 0 .. RxRingSize - 1
           /\ Len(RxBytes) = Received /\ Len(TxBytes) = Queued
  BY AheadIsTyped, Zenon DEF AheadTypeOK

LEMMA AheadTypedNext ==
    ASSUME LineTypeOK'
    PROVE  /\ Kept' \in Seq(Wired) /\ pendingBytes' \in Seq(Wired) /\ RxBytes' \in Seq(Wired)
           /\ TxBytes' \in Seq(Wired) /\ Unpublished' \in Seq(Wired) /\ Ahead' \in Seq(Wired)
           /\ Queued' \in Nat /\ Received' \in 0 .. RxRingSize - 1
           /\ Len(RxBytes') = Received' /\ Len(TxBytes') = Queued'
  BY AheadIsTypedNext, Zenon DEF AheadTypeOK

(* The bytes ahead up to the frame being pushed.                           *)
OnTheWay == Kept \o (pendingBytes \o (RxBytes \o TxBytes))

LEMMA AheadIsSplit == LineTypeOK => OnTheWay \in Seq(Wired) /\ Ahead = OnTheWay \o Unpublished
  <1> SUFFICES ASSUME LineTypeOK PROVE OnTheWay \in Seq(Wired) /\ Ahead = OnTheWay \o Unpublished
      OBVIOUS
  <1>1. PICK a \in Seq(Wired), b \in Seq(Wired), c \in Seq(Wired), d \in Seq(Wired), e \in Seq(Wired) :
            a = Kept /\ b = pendingBytes /\ c = RxBytes /\ d = TxBytes /\ e = Unpublished
      BY AheadTyped, Zenon
  <1>2. PICK x \in Seq(Wired), y \in Seq(Wired) : x = c \o d /\ y = b \o x
    <2>1. c \o d \in Seq(Wired) /\ b \o (c \o d) \in Seq(Wired)
        OBVIOUS
    <2> QED
        BY <2>1, Zenon
  <1>3. c \o (d \o e) = x \o e
      BY <1>2, SMTT(60)
  <1>4. b \o (x \o e) = y \o e
      BY <1>2, SMTT(60)
  <1>5. a \o (y \o e) = (a \o y) \o e
      BY SMTT(60)
  <1>6. a \o y \in Seq(Wired)
      OBVIOUS
  <1> QED
      BY <1>1, <1>2, <1>3, <1>4, <1>5, <1>6, Zenon DEF Ahead, OnTheWay

LEMMA AheadSplits == ASSUME LineTypeOK PROVE OnTheWay \in Seq(Wired) /\ Ahead = OnTheWay \o Unpublished
  BY AheadIsSplit

LEMMA AheadIsSplitNext == LineTypeOK' => (OnTheWay \in Seq(Wired) /\ Ahead = OnTheWay \o Unpublished)'
  BY AheadIsSplit, PTL

LEMMA AheadSplitsNext == ASSUME LineTypeOK' PROVE Ahead' = OnTheWay' \o Unpublished'
  BY AheadIsSplitNext

LEMMA LineStarts == LineInit => LineInv
  <1> SUFFICES ASSUME LineInit PROVE LineInv
      OBVIOUS
  <1> USE LineAssumption
  <1>1. Byte(0) \in Wired /\ <<>> \in Seq(Wired) /\ <<>> \in Seq(Nat) /\ <<>> \in Seq(Seq(Nat))
      BY DEF Byte, Wired
  <1>2. LineTypeOK
    <2>1. /\ push \in [step : {"none", "copy", "publish", "enable"}, frame : Seq(Wired), used : Nat]
          /\ parser \in [state : {"SYNC0", "SYNC1", "LENGTH_LOW", "LENGTH_HIGH", "PAYLOAD", "CRC_LOW",
                                  "CRC_HIGH"}, contents : Seq(Nat), crcLow : Wired]
        BY <1>1 DEF LineInit, NoPush, Hunting
    <2>2. /\ txRing \in [0 .. TxRingSize - 1 -> Wired] /\ rxRing \in [0 .. RxRingSize - 1 -> Wired]
        BY <1>1 DEF LineInit
    <2>3. /\ given \in 0 .. Len(Payloads) /\ txHead \in Nat /\ txTail \in 0 .. txHead
          /\ rxHead \in 0 .. RxRingSize - 1 /\ rxTail \in 0 .. RxRingSize - 1 /\ faultsLeft \in Nat
        BY DEF LineInit
    <2>4. /\ pendingBytes \in Seq(Wired) /\ delivered \in Seq(Seq(Nat)) /\ filling /\ txeie = FALSE
        BY <1>1 DEF LineInit
    <2>5. parser.state = "SYNC0"
        BY DEF LineInit, Hunting
    <2>6. parser.state \notin {"LENGTH_HIGH", "PAYLOAD", "CRC_LOW", "CRC_HIGH"}
        BY <2>5
    <2> QED
        BY <2>1, <2>2, <2>3, <2>4, <2>6, Zenon DEF LineTypeOK
  <1>3. push.step = "none" /\ Queued = 0 /\ Received = 0 /\ parser.state = "SYNC0"
      BY DEF LineInit, Queued, Received, NoPush, Hunting
  <1>4. RingDrains /\ PushFits
      BY <1>3 DEF RingDrains, PushFits, Unpublished
  <1>5. Ahead \in Seq(Wired) /\ Len(Ahead) = 0
    <2>1. Kept = <<>> /\ pendingBytes = <<>> /\ Unpublished = <<>> /\ Len(RxBytes) = 0 /\ Len(TxBytes) = 0
        BY <1>2, <1>3, AheadTyped DEF LineInit, Kept, Unpublished
    <2>2. RxBytes = <<>> /\ TxBytes = <<>>
        BY <1>2, <2>1, AheadTyped
    <2> QED
        BY <1>2, <2>1, <2>2, AheadTyped DEF Ahead
  <1>6. DOMAIN Ahead = {}
      BY <1>5
  <1>7. SealsInOrder(Ahead)
      BY <1>6 DEF SealsInOrder
  <1>8. DeliveredBefore(Ahead)
    <2>1. PICK place : place = [k \in 1 .. Len(delivered) |-> 1]
        OBVIOUS
    <2>2. 1 .. Len(delivered) = {}
        BY DEF LineInit
    <2>3. place \in [1 .. Len(delivered) -> 1 .. given] /\ DOMAIN place = {}
        BY <2>1, <2>2
    <2> QED
        BY <1>6, <2>3 DEF DeliveredBefore, LaterThan
  <1> QED
      BY <1>2, <1>4, <1>7, <1>8 DEF LineInv

(* A step that leaves the bytes ahead as they are.                         *)
LEMMA StillKeeps ==
    ASSUME LineInv, LineTypeOK', Ahead' = Ahead, given' = given, delivered' = delivered
    PROVE  SealsInOrder(Ahead)' /\ DeliveredBefore(Ahead)'
  <1>1. Ahead \in Seq(Wired) /\ Ahead' \in Seq(Wired)
      BY AheadTyped, AheadTypedNext DEF LineInv
  <1>2. Thins(Ahead, Ahead')
      BY <1>1, ThinSame
  <1> QED
      BY <1>1, <1>2, ThinKeeps DEF LineInv

LEMMA EnableKeeps == ASSUME LineInv, EnableInterrupt PROVE LineInv'
  <1>1. /\ push.step = "enable" /\ txeie' = TRUE /\ push' = NoPush
        /\ UNCHANGED <<given, txRing, txHead, txTail, faultsLeft, rxRing, rxHead, rxTail,
                       pendingBytes, filling, parser, delivered>>
      BY DEF EnableInterrupt, InterruptEnabled, Receiver
  <1>2. NoPush \in [step : {"none", "copy", "publish", "enable"}, frame : Seq(Wired), used : Nat]
      BY DEF NoPush
  <1>3. LineTypeOK'
      BY <1>1, <1>2 DEF LineInv, LineTypeOK
  <1>4. NoPush.step = "none"
      BY DEF NoPush
  <1>5. RingDrains'
      BY <1>1 DEF RingDrains
  <1>6. Unpublished = <<>> /\ Unpublished' = <<>> /\ Queued' = Queued
      BY <1>1, <1>4 DEF Unpublished, Queued
  <1>7. PushFits'
      BY <1>1, <1>4, <1>6 DEF PushFits, LineInv
  <1>8. Ahead' = Ahead
      BY <1>1, <1>6 DEF Ahead, Kept, RxBytes, Received, TxBytes
  <1> QED
      BY <1>1, <1>3, <1>5, <1>7, <1>8, StillKeeps DEF LineInv

LEMMA PublishKeeps == ASSUME LineInv, Publish PROVE LineInv'
  <1> USE LineAssumption
  <1>1. /\ push.step = "publish" /\ txHead' = txHead + Len(push.frame)
        /\ push' = [push EXCEPT !.step = "enable"]
        /\ UNCHANGED <<given, txRing, txTail, txeie, faultsLeft, rxRing, rxHead, rxTail,
                       pendingBytes, filling, parser, delivered>>
      BY DEF Publish, Receiver
  <1>2. PICK coded \in Seq(Wired) : coded = push.frame
      BY Zenon DEF LineInv, LineTypeOK
  <1>3. LineTypeOK /\ Len(coded) \in Nat /\ Queued \in Nat /\ txHead \in Nat /\ txTail \in 0 .. txHead
    <2>1. LineTypeOK /\ Len(coded) \in Nat
        BY DEF LineInv
    <2> QED
        BY <2>1, AheadTyped DEF LineTypeOK
  <1>4. LineTypeOK'
    <2>1. push' \in [step : {"none", "copy", "publish", "enable"}, frame : Seq(Wired), used : Nat]
        BY <1>1, <1>3 DEF LineTypeOK
    <2>2. txHead' \in Nat /\ txTail \in 0 .. txHead'
        BY <1>1, <1>2, <1>3
    <2> QED
        BY <1>1, <1>3, <2>1, <2>2 DEF LineTypeOK
  <1>5. push'.step = "enable"
      BY <1>1, <1>3 DEF LineTypeOK
  <1>6. Queued' = Queued + Len(coded) /\ Unpublished' = <<>> /\ Unpublished = coded
      BY <1>1, <1>2, <1>3, <1>5 DEF Queued, Unpublished
  <1>7. RingDrains' /\ PushFits'
    <2>1. RingDrains'
        BY <1>5 DEF RingDrains
    <2>2. Len(<<>>) = 0 /\ Queued + Len(coded) < TxRingSize
        BY <1>6 DEF PushFits, LineInv
    <2>3. Queued' + Len(Unpublished') < TxRingSize
        BY <1>3, <1>6, <2>2
    <2> QED
        BY <1>5, <2>1, <2>3 DEF PushFits
  <1>8. TxBytes' = TxBytes \o coded
    <2>1. TxBytes' \in Seq(Wired) /\ Len(TxBytes') = Queued'
        BY <1>4, AheadTypedNext
    <2>2. TxBytes \in Seq(Wired) /\ Len(TxBytes) = Queued
        BY <1>3, AheadTyped
    <2>3. PICK s \in Seq(Wired), t \in Seq(Wired) : s = TxBytes' /\ t = TxBytes
        BY <2>1, <2>2, Zenon
    <2>4. Len(s) = Len(t \o coded) /\ t \o coded \in Seq(Wired)
        BY <1>6, <2>1, <2>2, <2>3
    <2>5. ASSUME NEW k \in 1 .. Len(s) PROVE s[k] = (t \o coded)[k]
      <3>1. s[k] = txRing[(txTail + k - 1) % TxRingSize]
          BY <1>1, <2>1, <2>3 DEF TxBytes
      <3>2. CASE k <= Queued
        <4>1. t[k] = txRing[(txTail + k - 1) % TxRingSize]
            BY <1>3, <2>3, <2>5, <3>2 DEF TxBytes
        <4>2. (t \o coded)[k] = t[k]
            BY <2>2, <2>3, <2>5, <3>2
        <4> QED
            BY <3>1, <4>1, <4>2
      <3>3. CASE k > Queued
        <4>1. PICK j \in 1 .. Len(coded) : j = k - Queued
          <5>1. k - Queued \in 1 .. Len(coded)
              BY <1>3, <1>6, <2>1, <2>3, <3>3
          <5> QED
              BY <5>1, Zenon
        <4>2. txTail + k - 1 = txHead + j - 1
            BY <1>3, <4>1 DEF Queued
        <4>3. txRing[(txHead + j - 1) % TxRingSize] = coded[j]
            BY <1>1, <1>2 DEF PushFits, LineInv
        <4>4. (t \o coded)[k] = coded[j]
            BY <1>3, <2>2, <2>3, <2>4, <3>3, <4>1
        <4> QED
            BY <3>1, <4>2, <4>3, <4>4
      <3>4. k <= Queued \/ k > Queued
          BY <1>3, <2>5
      <3> QED
          BY <3>2, <3>3, <3>4, Zenon
    <2> QED
        BY <2>3, <2>4, <2>5, SeqEqual
  <1>9. Ahead' = Ahead
    <2>1. Kept' = Kept /\ RxBytes' = RxBytes /\ pendingBytes' = pendingBytes
        BY <1>1 DEF Kept, RxBytes, Received
    <2>2. (TxBytes \o coded) \o <<>> = TxBytes \o coded
        BY <1>3, AheadTyped
    <2> QED
        BY <1>6, <1>8, <2>1, <2>2 DEF Ahead
  <1> QED
      BY <1>1, <1>4, <1>7, <1>9, StillKeeps DEF LineInv

(* Where the copy puts its bytes: beyond those queued.                     *)
LEMMA CopyLands ==
    ASSUME NEW n \in Nat \ {0}, NEW h \in Nat, NEW x \in Nat
    PROVE  /\ x <= h /\ h - x < n /\ x # h => (((x % n) + n) - (h % n)) % n = n - (h - x)
           /\ h <= x /\ x - h < n => (((x % n) + n) - (h % n)) % n = x - h
  <1>1. ASSUME x <= h, h - x < n, x # h PROVE (((x % n) + n) - (h % n)) % n = n - (h - x)
    <2>1. PICK d \in 0 .. n - 1 : d = h - x /\ d > 0
      <3>1. h - x \in 0 .. n - 1 /\ h - x > 0
          BY <1>1
      <3> QED
          BY <3>1, Zenon
    <2>2. h = x + d
        BY <2>1
    <2>3. PICK a \in 0 .. n - 1, b \in 0 .. n - 1 : a = x % n /\ b = h % n
      <3>1. x % n \in 0 .. n - 1 /\ h % n \in 0 .. n - 1
          BY SMT
      <3> QED
          BY <3>1, Zenon
    <2>4. (x + d) % n = IF (x % n) + d < n THEN (x % n) + d ELSE (x % n) + d - n
        BY ModBeyond
    <2>5. b = IF a + d < n THEN a + d ELSE a + d - n
        BY <2>2, <2>3, <2>4
    <2>6. ((a + n) - b) % n = n - d
      <3>1. CASE a + d < n
        <4>1. (a + n) - b = n - d /\ n - d \in 0 .. n - 1
            BY <2>1, <2>5, <3>1
        <4> QED
            BY <4>1
      <3>2. CASE ~(a + d < n)
        <4>1. (a + n) - b = n + (n - d) /\ n - d \in 0 .. n - 1
            BY <2>1, <2>5, <3>2
        <4>2. \A w \in n .. 2 * n - 1 : w % n = w - n
            BY SMTT(30)
        <4> QED
            BY <4>1, <4>2
      <3> QED
          BY <3>1, <3>2
    <2> QED
        BY <2>1, <2>3, <2>6
  <1>2. ASSUME h <= x, x - h < n PROVE (((x % n) + n) - (h % n)) % n = x - h
    <2>1. PICK d \in 0 .. n - 1 : d = x - h
      <3>1. x - h \in 0 .. n - 1
          BY <1>2
      <3> QED
          BY <3>1, Zenon
    <2>2. x = h + d
        BY <2>1
    <2>3. PICK a \in 0 .. n - 1, b \in 0 .. n - 1 : a = x % n /\ b = h % n
      <3>1. x % n \in 0 .. n - 1 /\ h % n \in 0 .. n - 1
          BY SMT
      <3> QED
          BY <3>1, Zenon
    <2>4. (h + d) % n = IF (h % n) + d < n THEN (h % n) + d ELSE (h % n) + d - n
        BY ModBeyond
    <2>5. a = IF b + d < n THEN b + d ELSE b + d - n
        BY <2>2, <2>3, <2>4
    <2>6. ((a + n) - b) % n = d
      <3>1. CASE b + d < n
        <4>1. (a + n) - b = n + d
            BY <2>1, <2>5, <3>1
        <4>2. \A w \in n .. 2 * n - 1 : w % n = w - n
            BY SMTT(30)
        <4> QED
            BY <4>1, <4>2
      <3>2. CASE ~(b + d < n)
        <4>1. (a + n) - b = d
            BY <2>1, <2>5, <3>2
        <4> QED
            BY <4>1
      <3> QED
          BY <3>1, <3>2
    <2> QED
        BY <2>1, <2>3, <2>6
  <1> QED
      BY <1>1, <1>2

LEMMA CopyKeeps == ASSUME LineInv, CopyFrame PROVE LineInv'
  <1> USE LineAssumption
  <1>1. /\ push.step = "copy" /\ push' = [push EXCEPT !.step = "publish"]
        /\ txRing' = [k \in DOMAIN txRing |->
                     LET offset == ((k + TxRingSize) - (txHead % TxRingSize)) % TxRingSize
                     IN IF offset < Len(push.frame) THEN push.frame[offset + 1] ELSE txRing[k]]
        /\ UNCHANGED <<given, txHead, txTail, txeie, faultsLeft, rxRing, rxHead, rxTail,
                       pendingBytes, filling, parser, delivered>>
      BY DEF CopyFrame, Receiver
  <1>2. PICK coded \in Seq(Wired) : coded = push.frame
      BY Zenon DEF LineInv, LineTypeOK
  <1>3. LineTypeOK /\ Len(coded) \in Nat /\ Queued \in Nat /\ txHead \in Nat /\ txTail \in 0 .. txHead
    <2>1. LineTypeOK /\ Len(coded) \in Nat
        BY DEF LineInv
    <2> QED
        BY <2>1, AheadTyped DEF LineTypeOK
  <1>4. Unpublished = coded /\ Queued + Len(coded) < TxRingSize
      BY <1>1, <1>2 DEF Unpublished, PushFits, LineInv
  <1>5. push'.step = "publish" /\ push'.frame = coded
      BY <1>1, <1>2, <1>3 DEF LineTypeOK
  <1>6. DOMAIN txRing = 0 .. TxRingSize - 1
      BY <1>3 DEF LineTypeOK
  <1>7. ASSUME NEW k \in 0 .. TxRingSize - 1, NEW d \in 0 .. TxRingSize - 1,
               d = ((k + TxRingSize) - (txHead % TxRingSize)) % TxRingSize
        PROVE  txRing'[k] = IF d < Len(coded) THEN coded[d + 1] ELSE txRing[k]
      BY <1>1, <1>2, <1>6, <1>7
  <1>8. LineTypeOK'
    <2>1. push' \in [step : {"none", "copy", "publish", "enable"}, frame : Seq(Wired), used : Nat]
        BY <1>1, <1>3 DEF LineTypeOK
    <2>2. ASSUME NEW k \in 0 .. TxRingSize - 1 PROVE txRing'[k] \in Wired
      <3>1. PICK d \in 0 .. TxRingSize - 1 :
                d = ((k + TxRingSize) - (txHead % TxRingSize)) % TxRingSize
        <4>1. txHead % TxRingSize \in 0 .. TxRingSize - 1
            BY <1>3
        <4>2. (k + TxRingSize) - (txHead % TxRingSize) \in Nat
            BY <4>1
        <4>3. ((k + TxRingSize) - (txHead % TxRingSize)) % TxRingSize \in 0 .. TxRingSize - 1
            BY <4>2
        <4> QED
            BY <4>3, Zenon
      <3>2. txRing[k] \in Wired
          BY <1>3 DEF LineTypeOK
      <3>3. d < Len(coded) => coded[d + 1] \in Wired
          BY <1>3
      <3> QED
          BY <1>7, <3>1, <3>2, <3>3
    <2>3. txRing' \in [0 .. TxRingSize - 1 -> Wired]
      <3>1. txRing' = [k \in 0 .. TxRingSize - 1 |-> txRing'[k]]
          BY <1>1, <1>6, Zenon
      <3> QED
          BY <2>2, <3>1, Zenon
    <2> QED
        BY <1>1, <1>3, <2>1, <2>3 DEF LineTypeOK
  <1>9. RingDrains' /\ Queued' = Queued /\ Unpublished' = coded
      BY <1>1, <1>5 DEF RingDrains, Queued, LineInv, Unpublished
  <1>10. \A x \in Nat : x % TxRingSize \in 0 .. TxRingSize - 1
      OBVIOUS
  <1>11. PushFits'
    <2>1. ASSUME NEW k \in 1 .. Len(coded) PROVE txRing'[(txHead + k - 1) % TxRingSize] = coded[k]
      <3>1. PICK x \in Nat : x = txHead + k - 1
        <4>1. txHead + k - 1 \in Nat
            BY <1>3
        <4> QED
            BY <4>1, Zenon
      <3>2. txHead <= x /\ x - txHead < TxRingSize /\ x - txHead = k - 1 /\ k - 1 \in 0 .. TxRingSize - 1
          BY <1>3, <1>4, <3>1
      <3>3. k - 1 = (((x % TxRingSize) + TxRingSize) - (txHead % TxRingSize)) % TxRingSize
        <4>1. TxRingSize \in Nat \ {0} /\ txHead \in Nat
            BY <1>3
        <4>2. (((x % TxRingSize) + TxRingSize) - (txHead % TxRingSize)) % TxRingSize = x - txHead
            BY <4>1, <3>2, CopyLands, ZenonT(60)
        <4> QED
            BY <4>2, <3>2, Zenon
      <3>4. txRing'[x % TxRingSize] = IF k - 1 < Len(coded) THEN coded[(k - 1) + 1] ELSE txRing[x % TxRingSize]
          BY <1>7, <1>10, <3>2, <3>3
      <3> QED
          BY <3>1, <3>4
    <2> QED
        BY <1>1, <1>4, <1>5, <1>9, <2>1 DEF PushFits
  <1>12. TxBytes' = TxBytes
    <2>1. ASSUME NEW k \in 1 .. Queued
          PROVE  txRing'[(txTail + k - 1) % TxRingSize] = txRing[(txTail + k - 1) % TxRingSize]
      <3>1. PICK x \in Nat : x = txTail + k - 1
        <4>1. txTail + k - 1 \in Nat
            BY <1>3
        <4> QED
            BY <4>1, Zenon
      <3>2. PICK d \in 0 .. TxRingSize - 1 : d = TxRingSize - (txHead - x) /\ d >= Len(coded)
        <4>1. TxRingSize - (txHead - x) \in 0 .. TxRingSize - 1 /\ TxRingSize - (txHead - x) >= Len(coded)
            BY <1>3, <1>4, <3>1 DEF Queued
        <4> QED
            BY <4>1, Zenon
      <3>3. x <= txHead /\ txHead - x < TxRingSize /\ x # txHead
          BY <1>3, <1>4, <3>1 DEF Queued
      <3>4. d = (((x % TxRingSize) + TxRingSize) - (txHead % TxRingSize)) % TxRingSize
        <4>1. TxRingSize \in Nat \ {0} /\ txHead \in Nat
            BY <1>3
        <4>2. (((x % TxRingSize) + TxRingSize) - (txHead % TxRingSize)) % TxRingSize = TxRingSize - (txHead - x)
            BY <4>1, <3>3, CopyLands, ZenonT(60)
        <4> QED
            BY <4>2, <3>2, Zenon
      <3>5. txRing'[x % TxRingSize] = IF d < Len(coded) THEN coded[d + 1] ELSE txRing[x % TxRingSize]
          BY <1>7, <1>10, <3>4
      <3> QED
          BY <1>3, <3>1, <3>2, <3>5
    <2> QED
        BY <1>1, <1>9, <2>1 DEF TxBytes
  <1>13. Ahead' = Ahead
    <2>1. Kept' = Kept /\ RxBytes' = RxBytes /\ pendingBytes' = pendingBytes
        BY <1>1 DEF Kept, RxBytes, Received
    <2> QED
        BY <1>4, <1>9, <1>12, <2>1, Zenon DEF Ahead
  <1> QED
      BY <1>1, <1>8, <1>9, <1>11, <1>13, StillKeeps DEF LineInv

(* A byte passes from the front of one queue to the end of another.        *)
LEMMA BytePasses ==
    \A a, b, c \in Seq(Wired) : b # <<>> => Append(a, Head(b)) \o (Tail(b) \o c) = a \o (b \o c)
  <1> SUFFICES ASSUME NEW a \in Seq(Wired), NEW b \in Seq(Wired), NEW c \in Seq(Wired), b # <<>>
               PROVE  Append(a, Head(b)) \o (Tail(b) \o c) = a \o (b \o c)
      OBVIOUS
  <1>1. PICK x \in Seq(Wired), y \in Seq(Wired) :
            x = Append(a, Head(b)) \o (Tail(b) \o c) /\ y = a \o (b \o c)
    <2>1. Append(a, Head(b)) \o (Tail(b) \o c) \in Seq(Wired) /\ a \o (b \o c) \in Seq(Wired)
        OBVIOUS
    <2> QED
        BY <2>1, Zenon
  <1>2. Len(x) = Len(a) + Len(b) + Len(c) /\ Len(y) = Len(a) + Len(b) + Len(c)
      BY <1>1
  <1>3. ASSUME NEW i \in 1 .. Len(x) PROVE x[i] = y[i]
    <2>1. CASE i <= Len(a)
        BY <1>1, <1>2, <2>1
    <2>2. CASE i = Len(a) + 1
        BY <1>1, <1>2, <2>2
    <2>3. CASE i > Len(a) + 1 /\ i <= Len(a) + Len(b)
      <3>1. PICK u \in Seq(Wired), v \in Seq(Wired), w \in Seq(Wired), p \in Seq(Wired) :
                u = Tail(b) /\ v = u \o c /\ w = b \o c /\ p = Append(a, Head(b))
        <4>1. /\ Tail(b) \in Seq(Wired) /\ Tail(b) \o c \in Seq(Wired)
              /\ b \o c \in Seq(Wired) /\ Append(a, Head(b)) \in Seq(Wired)
            OBVIOUS
        <4> QED
            BY <4>1, Zenon
      <3>2. Len(u) = Len(b) - 1 /\ Len(p) = Len(a) + 1 /\ Len(v) = Len(u) + Len(c)
            /\ Len(w) = Len(b) + Len(c)
          BY <3>1
      <3>3. PICK j \in 1 .. Len(u) : j = i - (Len(a) + 1)
        <4>1. i \in Nat /\ Len(a) \in Nat /\ Len(b) \in Nat
            OBVIOUS
        <4>2. i - (Len(a) + 1) \in 1 .. Len(u)
            BY <2>3, <3>2, <4>1
        <4> QED
            BY <4>2, Zenon
      <3>4. u[j] = b[j + 1]
          BY <3>1, <3>2
      <3>5. v[j] = u[j] /\ w[j + 1] = b[j + 1]
          BY <3>1, <3>2
      <3>6. (p \o v)[i] = v[j] /\ (a \o w)[i] = w[j + 1]
        <4>1. /\ i \in Nat /\ Len(a) \in Nat /\ Len(b) \in Nat /\ Len(c) \in Nat
              /\ i = j + (Len(a) + 1) /\ j <= Len(u)
            BY <3>3
        <4>2. i - Len(p) = j /\ i > Len(p) /\ i <= Len(p) + Len(v)
            BY <3>2, <4>1, SMTT(30)
        <4>3. i - Len(a) = j + 1 /\ i > Len(a) /\ i <= Len(a) + Len(w)
            BY <3>2, <4>1, SMTT(30)
        <4>4. (p \o v)[i] = v[j]
            BY <4>2
        <4>5. (a \o w)[i] = w[j + 1]
            BY <4>3
        <4> QED
            BY <4>4, <4>5
      <3> QED
          BY <1>1, <3>1, <3>4, <3>5, <3>6
    <2>4. CASE i > Len(a) + Len(b)
        BY <1>1, <1>2, <2>4, SMTT(60)
    <2> QED
        BY <1>2, <2>1, <2>2, <2>3, <2>4
  <1>4. x = y
      BY <1>2, <1>3, SeqEqual
  <1> QED
      BY <1>1, <1>4

(* The places of a ring, up to a lap ahead.                                *)
LEMMA RingWraps ==
    ASSUME NEW n \in Nat \ {0}, NEW w \in Nat
    PROVE  (w < n => w % n = w) /\ (n <= w /\ w < n + n => w % n = w - n)
  BY SMTT(30)

LEMMA RingStep ==
    ASSUME NEW n \in Nat \ {0}, NEW w \in 0 .. n - 1
    PROVE  (w + 1) % n = IF w + 1 < n THEN w + 1 ELSE 0
  <1>1. PICK x \in Nat : x = w + 1
      OBVIOUS
  <1>2. (x < n => x % n = x) /\ (n <= x /\ x < n + n => x % n = x - n)
      BY RingWraps, Zenon
  <1> QED
      BY <1>1, <1>2

LEMMA PopKeeps == ASSUME LineInv, PopByte PROVE LineInv'
  <1>1. /\ rxTail # rxHead /\ pendingBytes' = Append(pendingBytes, rxRing[rxTail])
        /\ rxTail' = (rxTail + 1) % RxRingSize
        /\ filling' = (rxTail' # rxHead /\ Len(pendingBytes') < ReadChunk)
        /\ UNCHANGED <<given, push, txRing, txHead, txTail, txeie, faultsLeft, rxRing, rxHead,
                       parser, delivered>>
      BY DEF PopByte, Sender, Wire
  <1>2. /\ LineTypeOK /\ rxTail \in 0 .. RxRingSize - 1 /\ rxHead \in 0 .. RxRingSize - 1
        /\ rxRing[rxTail] \in Wired /\ RxRingSize \in Nat \ {0} /\ pendingBytes \in Seq(Wired)
      BY LineAssumption DEF LineInv, LineTypeOK
  <1>3. rxTail' = IF rxTail + 1 < RxRingSize THEN rxTail + 1 ELSE 0
      BY <1>1, <1>2, RingStep
  <1>4. LineTypeOK'
    <2>1. pendingBytes' \in Seq(Wired) /\ pendingBytes' # <<>>
        BY <1>1, <1>2
    <2>2. rxTail' \in 0 .. RxRingSize - 1
        BY <1>2, <1>3
    <2>3. filling' \in BOOLEAN
        BY <1>1, Zenon
    <2> QED
        BY <1>1, <1>2, <2>1, <2>2, <2>3 DEF LineTypeOK
  <1>5. RingDrains' /\ PushFits'
      BY <1>1 DEF RingDrains, PushFits, Queued, Unpublished, LineInv
  <1>6. Received \in 1 .. RxRingSize - 1 /\ Received' = Received - 1
    <2>1. CASE rxTail + 1 < RxRingSize
        BY <1>1, <1>2, <1>3, <2>1 DEF Received
    <2>2. CASE rxTail + 1 = RxRingSize
        BY <1>1, <1>2, <1>3, <2>2 DEF Received
    <2> QED
        BY <1>2, <2>1, <2>2
  <1>7. RxBytes # <<>> /\ Head(RxBytes) = rxRing[rxTail] /\ RxBytes' = Tail(RxBytes)
    <2>1. PICK s \in Seq(Wired), t \in Seq(Wired) : s = RxBytes /\ t = RxBytes'
        BY <1>2, <1>4, AheadTyped, AheadTypedNext, Zenon
    <2>2. Len(s) = Received /\ Len(t) = Received - 1
        BY <1>2, <1>4, <1>6, <2>1, AheadTyped, AheadTypedNext
    <2>3. s # <<>> /\ Len(Tail(s)) = Received - 1 /\ Tail(s) \in Seq(Wired) /\ Head(s) = s[1]
        BY <1>6, <2>2
    <2>4. s[1] = rxRing[rxTail]
      <3>1. rxTail + 1 - 1 = rxTail /\ rxTail \in Nat /\ rxTail < RxRingSize
          BY <1>2
      <3>2. rxTail % RxRingSize = rxTail
          BY <1>2, <3>1, RingWraps, Zenon
      <3> QED
          BY <1>6, <2>1, <3>1, <3>2 DEF RxBytes
    <2>5. ASSUME NEW k \in 1 .. Received - 1 PROVE t[k] = Tail(s)[k]
      <3>1. t[k] = rxRing[(rxTail' + k - 1) % RxRingSize]
          BY <1>1, <1>6, <2>1, <2>5 DEF RxBytes
      <3>2. Tail(s)[k] = s[k + 1]
          BY <2>2, <2>3, <2>5
      <3>3. s[k + 1] = rxRing[(rxTail + (k + 1) - 1) % RxRingSize]
        <4>1. k + 1 \in 1 .. Received
            BY <1>6, <2>5
        <4> QED
            BY <2>1, <4>1 DEF RxBytes
      <3>4. (rxTail' + k - 1) % RxRingSize = (rxTail + (k + 1) - 1) % RxRingSize
        <4>1. CASE rxTail + 1 < RxRingSize
          <5>1. rxTail' + k - 1 = rxTail + (k + 1) - 1
              BY <1>2, <1>3, <1>6, <4>1
          <5> QED
              BY <5>1
        <4>2. CASE rxTail + 1 = RxRingSize
          <5>1. rxTail' + k - 1 = k - 1 /\ rxTail + (k + 1) - 1 = RxRingSize + (k - 1) /\ k - 1 \in 0 .. RxRingSize - 1
              BY <1>2, <1>3, <1>6, <4>2
          <5>2. PICK x \in Nat, y \in Nat : x = k - 1 /\ y = rxTail + (k + 1) - 1
              BY <1>2, <5>1
          <5>3. x < RxRingSize /\ RxRingSize <= y /\ y < RxRingSize + RxRingSize /\ y - RxRingSize = x
              BY <1>2, <5>1, <5>2
          <5>4. x % RxRingSize = x /\ y % RxRingSize = y - RxRingSize
              BY <1>2, <5>3, RingWraps, Zenon
          <5> QED
              BY <5>1, <5>2, <5>3, <5>4, Zenon
        <4> QED
            BY <1>2, <4>1, <4>2
      <3> QED
          BY <3>1, <3>2, <3>3, <3>4
    <2>6. t = Tail(s)
        BY <2>2, <2>3, <2>5, SeqEqual
    <2> QED
        BY <2>1, <2>3, <2>4, <2>6, Zenon
  <1>8. Ahead' = Ahead
    <2>1. Kept' = Kept /\ TxBytes' = TxBytes /\ Unpublished' = Unpublished
        BY <1>1 DEF Kept, TxBytes, Queued, Unpublished
    <2>2. PICK a \in Seq(Wired), b \in Seq(Wired), c \in Seq(Wired) :
              a = pendingBytes /\ b = RxBytes /\ c = TxBytes \o Unpublished
      <3>1. TxBytes \o Unpublished \in Seq(Wired)
          BY <1>2, AheadTyped
      <3> QED
          BY <1>2, <3>1, AheadTyped, Zenon
    <2>3. Append(a, Head(b)) \o (Tail(b) \o c) = a \o (b \o c)
      <3>1. b # <<>>
          BY <1>7, <2>2, Zenon
      <3> QED
          BY <3>1, BytePasses
    <2> QED
        BY <1>1, <1>7, <2>1, <2>2, <2>3, Zenon DEF Ahead
  <1> QED
      BY <1>1, <1>4, <1>5, <1>8, StillKeeps DEF LineInv

(* The DMA writes behind the bytes received, or laps the reader.           *)
LEMMA ArrivalMoves ==
    ASSUME LineTypeOK, LineTypeOK', NEW c \in Wired, Arrives(c), rxTail' = rxTail
    PROVE  RxBytes' = Append(RxBytes, c) \/ RxBytes' = <<>>
  <1>1. /\ rxTail \in 0 .. RxRingSize - 1 /\ rxHead \in 0 .. RxRingSize - 1
        /\ RxRingSize \in Nat \ {0} /\ rxRing \in [0 .. RxRingSize - 1 -> Wired]
      BY LineAssumption DEF LineTypeOK
  <1>2. /\ rxRing' = [rxRing EXCEPT ![rxHead] = c]
        /\ rxHead' = IF rxHead + 1 < RxRingSize THEN rxHead + 1 ELSE 0
      BY <1>1, RingStep DEF Arrives
  <1>3. PICK s \in Seq(Wired), t \in Seq(Wired) : s = RxBytes /\ t = RxBytes'
      BY AheadTyped, AheadTypedNext, Zenon
  <1>4. Len(s) = Received /\ Len(t) = Received' /\ Received \in 0 .. RxRingSize - 1
      BY <1>3, AheadTyped, AheadTypedNext
  <1>5. Received' = IF Received + 1 < RxRingSize THEN Received + 1 ELSE 0
    <2>1. CASE rxHead + 1 < RxRingSize
        BY <1>1, <1>2, <2>1 DEF Received
    <2>2. CASE rxHead + 1 = RxRingSize
        BY <1>1, <1>2, <2>2 DEF Received
    <2> QED
        BY <1>1, <2>1, <2>2
  <1>6. CASE Received + 1 < RxRingSize
    <2>1. ASSUME NEW k \in 1 .. Received + 1
          PROVE  \E i \in 0 .. RxRingSize - 1 :
                    /\ i = (rxTail + k - 1) % RxRingSize
                    /\ i = rxHead <=> k = Received + 1
      <3>1. PICK x \in Nat : x = rxTail + k - 1
        <4>1. rxTail + k - 1 \in Nat
            BY <1>1, <1>4
        <4> QED
            BY <4>1, Zenon
      <3>2. (x < RxRingSize => x % RxRingSize = x)
                /\ (RxRingSize <= x /\ x < RxRingSize + RxRingSize => x % RxRingSize = x - RxRingSize)
          BY <1>1, RingWraps, Zenon
      <3>3. PICK i \in 0 .. RxRingSize - 1 : i = x % RxRingSize
        <4>1. x % RxRingSize \in 0 .. RxRingSize - 1
            BY <1>1
        <4> QED
            BY <4>1, Zenon
      <3>4. CASE rxTail <= rxHead
        <4>1. x < RxRingSize /\ Received = rxHead - rxTail
            BY <1>1, <1>4, <3>1, <3>4 DEF Received
        <4>2. i = x
            BY <3>2, <3>3, <4>1
        <4>3. i = rxHead <=> k = Received + 1
            BY <1>1, <3>1, <4>1, <4>2
        <4> QED
            BY <3>1, <3>3, <4>3
      <3>5. CASE rxTail > rxHead
        <4>1. Received = rxHead + RxRingSize - rxTail
            BY <1>1, <3>5 DEF Received
        <4>2. i = IF x < RxRingSize THEN x ELSE x - RxRingSize
          <5>1. CASE x < RxRingSize
              BY <3>2, <3>3, <5>1
          <5>2. CASE x >= RxRingSize
            <6>1. RxRingSize <= x /\ x < RxRingSize + RxRingSize
                BY <1>1, <1>4, <1>6, <3>1, <5>2
            <6> QED
                BY <1>1, <3>2, <3>3, <5>2, <6>1
          <5> QED
              BY <1>1, <5>1, <5>2
        <4>3. i = rxHead <=> k = Received + 1
            BY <1>1, <3>1, <3>5, <4>1, <4>2
        <4> QED
            BY <3>1, <3>3, <4>3
      <3> QED
          BY <1>1, <3>4, <3>5
    <2>2. ASSUME NEW k \in 1 .. Received + 1 PROVE t[k] = Append(s, c)[k]
      <3>1. PICK i \in 0 .. RxRingSize - 1 :
                i = (rxTail + k - 1) % RxRingSize /\ (i = rxHead <=> k = Received + 1)
          BY <2>1
      <3>2. t[k] = rxRing'[i]
          BY <1>3, <1>5, <1>6, <3>1 DEF RxBytes
      <3>3. CASE k = Received + 1
          BY <1>1, <1>2, <1>4, <3>1, <3>2, <3>3
      <3>4. CASE k \in 1 .. Received
        <4>1. s[k] = rxRing[i]
            BY <1>3, <3>1, <3>4 DEF RxBytes
        <4>2. i # rxHead
            BY <1>4, <3>1, <3>4
        <4>3. rxRing'[i] = rxRing[i]
            BY <1>1, <1>2, <4>2
        <4>4. Append(s, c)[k] = s[k]
            BY <1>4, <3>4
        <4> QED
            BY <3>2, <4>1, <4>3, <4>4
      <3> QED
          BY <1>4, <3>3, <3>4
    <2>3. Append(s, c) \in Seq(Wired) /\ Len(Append(s, c)) = Received + 1
        BY <1>4
    <2>4. t = Append(s, c)
        BY <1>4, <1>5, <1>6, <2>2, <2>3, SeqEqual
    <2> QED
        BY <1>3, <2>4, Zenon
  <1>7. CASE ~(Received + 1 < RxRingSize)
    <2>1. Len(t) = 0
        BY <1>4, <1>5, <1>7
    <2>2. t = <<>>
        BY <2>1
    <2> QED
        BY <1>3, <2>2, Zenon
  <1> QED
      BY <1>6, <1>7

LEMMA ThinByte ==
    ASSUME NEW b \in Wired, NEW c \in Wired, c = b \/ c.sum = <<>>
    PROVE  Thins(<<b>>, <<c>>)
  <1>1. PICK f : f = [i \in 1 .. Len(<<c>>) |-> 1]
      OBVIOUS
  <1>2. f \in [1 .. Len(<<c>>) -> 1 .. Len(<<b>>)] /\ 1 .. Len(<<c>>) = {1}
      BY <1>1
  <1>3. <<b>>[1] = b /\ <<c>>[1] = c /\ f[1] = 1
      BY <1>1, <1>2
  <1> QED
      BY <1>2, <1>3 DEF Thins

(* What the wire does to the bytes of the two rings.                       *)
LEMMA CarryThins ==
    ASSUME NEW a \in Seq(Wired), NEW b \in Seq(Wired), NEW u \in Seq(Wired), b # <<>>,
           NEW a2 \in Seq(Wired),
           \/ a2 = a \/ a2 = <<>>
           \/ \E c \in Wired : a2 = Append(a, c) /\ (c = Head(b) \/ c.sum = <<>>)
    PROVE  Thins(a \o (b \o u), a2 \o (Tail(b) \o u))
  <1>0. Append(a, Head(b)) \o (Tail(b) \o u) = a \o (b \o u)
    <2>1. b # <<>>
        OBVIOUS
    <2> QED
        BY <2>1, BytePasses
  <1>1. PICK d \in Seq(Wired), e \in Seq(Wired), h \in Wired :
            d = Tail(b) \o u /\ e = b \o u /\ h = Head(b)
    <2>1. Tail(b) \o u \in Seq(Wired) /\ b \o u \in Seq(Wired) /\ Head(b) \in Wired
        OBVIOUS
    <2> QED
        BY <2>1, Zenon
  <1>2. Thins(e, d)
    <2>1. Tail(b) \in Seq(Wired) /\ Thins(b, Tail(b)) /\ Thins(u, u)
        BY ThinTail, ThinSame
    <2>2. Thins(b \o u, Tail(b) \o u)
        BY <2>1, ThinConcat
    <2> QED
        BY <1>1, <2>2, Zenon
  <1>3. CASE a2 = a \/ a2 = <<>>
    <2>1. Thins(a, a2)
        BY <1>3, ThinSame, ThinEmpty
    <2>2. Thins(a \o e, a2 \o d)
        BY <1>2, <2>1, ThinConcat
    <2> QED
        BY <1>1, <2>2, Zenon
  <1>4. ASSUME NEW c \in Wired, a2 = Append(a, c), c = h \/ c.sum = <<>>
        PROVE  Thins(a \o e, a2 \o d)
    <2>1. Thins(<<h>>, <<c>>)
        BY <1>4, ThinByte
    <2>2. <<h>> \in Seq(Wired) /\ <<c>> \in Seq(Wired) /\ Thins(a, a) /\ Thins(d, d)
        BY ThinSame
    <2>3. PICK x \in Seq(Wired), y \in Seq(Wired) : x = a \o <<h>> /\ y = a \o <<c>>
      <3>1. a \o <<h>> \in Seq(Wired) /\ a \o <<c>> \in Seq(Wired)
          BY <2>2
      <3> QED
          BY <3>1, Zenon
    <2>4. Thins(x, y)
        BY <2>1, <2>2, <2>3, ThinConcat
    <2>5. Thins(x \o d, y \o d)
        BY <2>2, <2>4, ThinConcat
    <2>6. x = Append(a, h) /\ y = Append(a, c)
        BY <2>3
    <2>7. Append(a, Head(b)) \o (Tail(b) \o u) = a \o (b \o u)
        BY <1>0, Zenon
    <2> QED
        BY <1>1, <1>4, <2>5, <2>6, <2>7, Zenon
  <1> QED
      BY <1>1, <1>3, <1>4, Zenon

LEMMA TxKeeps == ASSUME LineInv, TxInterrupt PROVE LineInv'
  <1>1. /\ txeie
        /\ UNCHANGED <<given, push, txRing, txHead, rxTail, pendingBytes, filling, parser, delivered>>
      BY DEF TxInterrupt, Sender, Receiver
  <1>2. /\ LineTypeOK /\ txHead \in Nat /\ txTail \in 0 .. txHead /\ Queued \in Nat
        /\ TxRingSize \in Nat \ {0} /\ RxRingSize \in Nat \ {0} /\ faultsLeft \in Nat
    <2>1. LineTypeOK
        BY DEF LineInv
    <2>2. Queued \in Nat
        BY <2>1, AheadTyped
    <2> QED
        BY <2>1, <2>2, LineAssumption DEF LineTypeOK
  <1>3. CASE txTail = txHead /\ txeie' = FALSE /\ UNCHANGED <<txTail, faultsLeft, rxRing, rxHead>>
    <2>1. LineTypeOK'
        BY <1>1, <1>2, <1>3 DEF LineTypeOK
    <2>2. Queued' = 0 /\ Queued' = Queued
        BY <1>1, <1>2, <1>3 DEF Queued
    <2>3. RingDrains'
        BY <2>2 DEF RingDrains
    <2>4. PushFits'
        BY <1>1, <1>3, <2>2 DEF PushFits, Unpublished, LineInv
    <2>5. Ahead' = Ahead
        BY <1>1, <1>3 DEF Ahead, Kept, RxBytes, Received, TxBytes, Queued, Unpublished
    <2> QED
        BY <1>1, <2>1, <2>3, <2>4, <2>5, StillKeeps DEF LineInv
  <1>4. CASE txTail # txHead /\ Carry(txRing[txTail % TxRingSize]) /\ txTail' = txTail + 1 /\ txeie' = txeie
    <2>1. PICK byte \in Wired : byte = txRing[txTail % TxRingSize]
      <3>1. txTail % TxRingSize \in 0 .. TxRingSize - 1
          BY <1>2
      <3>2. txRing[txTail % TxRingSize] \in Wired
          BY <1>2, <3>1 DEF LineTypeOK
      <3> QED
          BY <3>2, Zenon
    <2>2. \/ rxRing' = rxRing /\ rxHead' = rxHead
          \/ \E c \in Wired : Arrives(c) /\ (c = byte \/ c.sum = <<>>)
      <3>1. ASSUME NEW x \in Noise PROVE Byte(x) \in Wired /\ Byte(x).sum = <<>>
        <4>1. x \in Nat
            BY LineAssumption
        <4> QED
            BY <4>1 DEF Byte, Wired
      <3> QED
          BY <1>4, <2>1, <3>1, Zenon DEF Carry
    <2>3. faultsLeft' \in Nat
        BY <1>2, <1>4 DEF Carry
    <2>4. /\ rxRing' \in [0 .. RxRingSize - 1 -> Wired] /\ rxHead' \in 0 .. RxRingSize - 1
      <3>1. CASE rxRing' = rxRing /\ rxHead' = rxHead
          BY <1>2, <3>1 DEF LineTypeOK
      <3>2. ASSUME NEW c \in Wired, Arrives(c)
            PROVE  rxRing' \in [0 .. RxRingSize - 1 -> Wired] /\ rxHead' \in 0 .. RxRingSize - 1
        <4>1. rxRing' \in [0 .. RxRingSize - 1 -> Wired]
            BY <1>2, <3>2 DEF Arrives, LineTypeOK
        <4>2. rxHead + 1 \in Nat /\ rxHead' = (rxHead + 1) % RxRingSize
            BY <1>2, <3>2 DEF Arrives, LineTypeOK
        <4> QED
            BY <1>2, <4>1, <4>2
      <3> QED
          BY <2>2, <3>1, <3>2
    <2>5. LineTypeOK'
      <3>1. txTail' \in 0 .. txHead
          BY <1>2, <1>4
      <3> QED
          BY <1>1, <1>2, <1>4, <2>3, <2>4, <3>1 DEF LineTypeOK
    <2>6. Queued' = Queued - 1 /\ Queued > 0 /\ Unpublished' = Unpublished
        BY <1>1, <1>2, <1>4 DEF Queued, Unpublished
    <2>7. RingDrains'
        BY <1>1, <1>4 DEF RingDrains
    <2>8. PushFits'
      <3>1. Queued + Len(Unpublished) < TxRingSize /\ Len(Unpublished) \in Nat
        <4>1. Unpublished \in Seq(Wired)
            BY <1>2, AheadTyped
        <4> QED
            BY <4>1 DEF PushFits, LineInv
      <3>2. Queued' + Len(Unpublished') < TxRingSize
          BY <1>2, <2>6, <3>1
      <3> QED
          BY <1>1, <3>2 DEF PushFits, LineInv
    <2>9. TxBytes # <<>> /\ Head(TxBytes) = byte /\ TxBytes' = Tail(TxBytes)
      <3>1. PICK s \in Seq(Wired), t \in Seq(Wired) : s = TxBytes /\ t = TxBytes'
          BY <1>2, <2>5, AheadTyped, AheadTypedNext, Zenon
      <3>2. Len(s) = Queued /\ Len(t) = Queued - 1
          BY <1>2, <2>5, <2>6, <3>1, AheadTyped, AheadTypedNext
      <3>3. s # <<>> /\ Len(Tail(s)) = Queued - 1 /\ Tail(s) \in Seq(Wired) /\ Head(s) = s[1]
          BY <1>2, <2>6, <3>2
      <3>4. s[1] = byte
        <4>1. txTail + 1 - 1 = txTail
            BY <1>2
        <4> QED
            BY <1>2, <2>1, <2>6, <3>1, <4>1 DEF TxBytes
      <3>5. ASSUME NEW k \in 1 .. Queued - 1 PROVE t[k] = Tail(s)[k]
        <4>1. t[k] = txRing[(txTail' + k - 1) % TxRingSize]
            BY <1>1, <2>6, <3>1, <3>5 DEF TxBytes
        <4>2. Tail(s)[k] = s[k + 1]
            BY <3>2, <3>3, <3>5
        <4>3. k + 1 \in 1 .. Queued
            BY <1>2, <3>5
        <4>4. s[k + 1] = txRing[(txTail + (k + 1) - 1) % TxRingSize]
            BY <3>1, <4>3 DEF TxBytes
        <4>5. txTail' + k - 1 = txTail + (k + 1) - 1
            BY <1>2, <1>4
        <4> QED
            BY <4>1, <4>2, <4>4, <4>5
      <3>6. t = Tail(s)
          BY <3>2, <3>3, <3>5, SeqEqual
      <3> QED
          BY <3>1, <3>3, <3>4, <3>6, Zenon
    <2>10. \/ RxBytes' = RxBytes \/ RxBytes' = <<>>
           \/ \E c \in Wired : RxBytes' = Append(RxBytes, c) /\ (c = Head(TxBytes) \/ c.sum = <<>>)
      <3>1. CASE rxRing' = rxRing /\ rxHead' = rxHead
          BY <1>1, <3>1 DEF RxBytes, Received
      <3>2. ASSUME NEW c \in Wired, Arrives(c), c = byte \/ c.sum = <<>>
            PROVE  RxBytes' = <<>> \/ RxBytes' = Append(RxBytes, c)
          BY <1>1, <1>2, <2>5, <3>2, ArrivalMoves
      <3> QED
          BY <2>2, <2>9, <3>1, <3>2, Zenon
    <2>11. PICK a \in Seq(Wired), b \in Seq(Wired), u \in Seq(Wired), a2 \in Seq(Wired) :
               a = RxBytes /\ b = TxBytes /\ u = Unpublished /\ a2 = RxBytes'
        BY <1>2, <2>5, AheadTyped, AheadTypedNext, Zenon
    <2>12. Thins(a \o (b \o u), a2 \o (Tail(b) \o u))
      <3>1. b # <<>>
          BY <2>9, <2>11, Zenon
      <3>2. \/ a2 = a \/ a2 = <<>>
            \/ \E c \in Wired : a2 = Append(a, c) /\ (c = Head(b) \/ c.sum = <<>>)
          BY <2>10, <2>11, Zenon
      <3> QED
          BY <3>1, <3>2, CarryThins
    <2>13. PICK x \in Seq(Wired), y \in Seq(Wired), p \in Seq(Wired), w \in Seq(Wired) :
               /\ x = a \o (b \o u) /\ y = a2 \o (Tail(b) \o u) /\ p = pendingBytes /\ w = Kept
      <3>1. b # <<>>
          BY <2>9, <2>11, Zenon
      <3>2. a \o (b \o u) \in Seq(Wired) /\ a2 \o (Tail(b) \o u) \in Seq(Wired)
          BY <3>1
      <3> QED
          BY <1>2, <3>2, AheadTyped, Zenon
    <2>14. Thins(w \o (p \o x), w \o (p \o y))
      <3>1. Thins(x, y) /\ Thins(p, p) /\ Thins(w, w)
          BY <2>12, <2>13, ThinSame
      <3>2. Thins(p \o x, p \o y)
          BY <3>1, ThinConcat
      <3>3. p \o x \in Seq(Wired) /\ p \o y \in Seq(Wired)
          OBVIOUS
      <3> QED
          BY <3>1, <3>2, <3>3, ThinConcat
    <2>15. Thins(Ahead, Ahead')
      <3>1. Kept' = Kept
          BY <1>1 DEF Kept
      <3> QED
          BY <1>1, <2>6, <2>9, <2>11, <2>13, <2>14, <3>1, Zenon DEF Ahead
    <2>16. SealsInOrder(Ahead)' /\ DeliveredBefore(Ahead)'
        BY <1>1, <1>2, <2>5, <2>15, AheadTyped, AheadTypedNext, ThinKeeps DEF LineInv
    <2> QED
        BY <2>5, <2>7, <2>8, <2>16 DEF LineInv
  <1> QED
      BY <1>3, <1>4 DEF TxInterrupt

ParserStates == {"SYNC0", "SYNC1", "LENGTH_LOW", "LENGTH_HIGH", "PAYLOAD", "CRC_LOW", "CRC_HIGH"}

(* feed(): the first byte of a checksum is kept, and no other.             *)
LEMMA ParsedTyped ==
    ASSUME LineTypeOK, NEW byte \in Wired, NEW next, next = Parsed(byte)
    PROVE  /\ next \in [state : ParserStates, contents : Seq(Nat), crcLow : Wired]
           /\ next.state \in {"LENGTH_HIGH", "PAYLOAD", "CRC_LOW", "CRC_HIGH"} => next.contents # <<>>
           /\ parser.state = "CRC_LOW" => next.state = "CRC_HIGH" /\ next.crcLow = byte
           /\ parser.state # "CRC_LOW" => next.state # "CRC_HIGH"
  <1>1. PICK st \in ParserStates, con \in Seq(Nat), low \in Wired :
            parser = [state |-> st, contents |-> con, crcLow |-> low]
      BY DEF LineTypeOK, ParserStates
  <1>2. PICK grown \in Seq(Nat) : grown = Grown(byte) /\ grown # <<>>
    <2>1. parser.contents \in Seq(Nat) /\ byte.v \in Nat
        BY DEF LineTypeOK, Wired
    <2>2. Append(parser.contents, byte.v) \in Seq(Nat) /\ Append(parser.contents, byte.v) # <<>>
        BY <2>1, SMTT(60)
    <2> QED
        BY <2>2, Zenon DEF Grown
  <1>3. parser.state = st /\ parser.contents = con /\ parser.crcLow = low
      BY <1>1
  <1>4. st \in {"LENGTH_HIGH", "PAYLOAD", "CRC_LOW", "CRC_HIGH"} => con # <<>>
      BY <1>3 DEF LineTypeOK
  <1>5. Byte(0) \in Wired /\ <<>> \in Seq(Nat)
      BY DEF Byte, Wired
  <1>6. Hunting \in [state : ParserStates, contents : Seq(Nat), crcLow : Wired] /\ Hunting.state = "SYNC0"
      BY <1>5 DEF Hunting, ParserStates
  <1>7. CASE st = "SYNC0"
    <2>1. \E x \in {"SYNC0", "SYNC1"} : next = [state |-> x, contents |-> con, crcLow |-> low]
        BY <1>1, <1>3, <1>7 DEF Parsed
    <2> QED
        BY <1>3, <1>7, <2>1 DEF ParserStates
  <1>8. CASE st = "SYNC1"
    <2>1. \E x \in {"SYNC0", "SYNC1", "LENGTH_LOW"} :
              next = [state |-> x, contents |-> <<>>, crcLow |-> Byte(0)]
        BY <1>3, <1>8 DEF Parsed, Hunting
    <2> QED
        BY <1>3, <1>5, <1>8, <2>1 DEF ParserStates
  <1>9. CASE st = "LENGTH_LOW"
    <2>1. next = [state |-> "LENGTH_HIGH", contents |-> grown, crcLow |-> low]
        BY <1>1, <1>2, <1>3, <1>9 DEF Parsed
    <2> QED
        BY <1>2, <1>3, <1>9, <2>1 DEF ParserStates
  <1>10. CASE st = "LENGTH_HIGH"
    <2>1. next = [state |-> "PAYLOAD", contents |-> grown, crcLow |-> low] \/ next = Hunting
        BY <1>1, <1>2, <1>3, <1>10 DEF Parsed
    <2> QED
        BY <1>2, <1>3, <1>6, <1>10, <2>1 DEF ParserStates
  <1>11. CASE st = "PAYLOAD"
    <2>1. \E x \in {"PAYLOAD", "CRC_LOW"} : next = [state |-> x, contents |-> grown, crcLow |-> low]
        BY <1>1, <1>2, <1>3, <1>11 DEF Parsed
    <2> QED
        BY <1>2, <1>3, <1>11, <2>1 DEF ParserStates
  <1>12. CASE st = "CRC_LOW"
    <2>1. next = [state |-> "CRC_HIGH", contents |-> con, crcLow |-> byte]
        BY <1>1, <1>3, <1>12 DEF Parsed
    <2> QED
        BY <1>3, <1>4, <1>12, <2>1 DEF ParserStates
  <1>13. CASE st = "CRC_HIGH"
    <2>1. next = Hunting
        BY <1>1, <1>3, <1>13 DEF Parsed
    <2> QED
        BY <1>3, <1>6, <1>13, <2>1
  <1> QED
      BY <1>7, <1>8, <1>9, <1>10, <1>11, <1>12, <1>13 DEF ParserStates

(* A frame is handed out: its two checksum bytes were the first ahead, so  *)
(* what is left is of later payloads.                                      *)
LEMMA HandingOut ==
    ASSUME LineTypeOK, SealsInOrder(Ahead), DeliveredBefore(Ahead), NEW t \in Seq(Wired),
           NEW low \in Wired, NEW byte \in Wired, Ahead = <<low, byte>> \o t,
           low.sum = parser.contents, byte.sum = parser.contents, parser.contents # <<>>,
           delivered' = Append(delivered, Payload), given' = given
    PROVE  DeliveredBefore(t)'
  <1>1. PICK s \in Seq(Wired) : s = Ahead
      BY AheadTyped, Zenon
  <1>2. /\ 1 \in DOMAIN s /\ 2 \in DOMAIN s /\ s[1] = low /\ s[2] = byte
        /\ \A k \in DOMAIN t : k + 2 \in DOMAIN s /\ s[k + 2] = t[k] /\ 2 < k + 2 /\ 1 < k + 2
      BY <1>1
  <1>3. PICK place \in [1 .. Len(delivered) -> 1 .. given] :
            /\ \A k \in DOMAIN place : Payloads[place[k]] = delivered[k]
            /\ \A k, l \in DOMAIN place : k < l => place[k] < place[l]
            /\ LaterThan(s, place)
      BY <1>1, Zenon DEF DeliveredBefore
  <1>4. PICK p \in 1 .. given : Seals(low, p) /\ \A j \in DOMAIN place : place[j] < p
      BY <1>2, <1>3, Zenon DEF LaterThan
  <1>5. /\ given \in 0 .. Len(Payloads) /\ 1 .. given \subseteq DOMAIN Payloads
        /\ 1 .. given \subseteq Nat /\ Len(delivered) \in Nat /\ delivered \in Seq(Seq(Nat))
    <2>1. given \in 0 .. Len(Payloads) /\ delivered \in Seq(Seq(Nat))
        BY Zenon DEF LineTypeOK
    <2>2. DOMAIN Payloads = 1 .. Len(Payloads) /\ Len(Payloads) \in Nat
        BY LineAssumption
    <2>3. Len(delivered) \in Nat
        BY <2>1
    <2>4. 1 .. given \subseteq DOMAIN Payloads /\ 1 .. given \subseteq Nat
        BY <2>1, <2>2
    <2> QED
        BY <2>1, <2>3, <2>4, Zenon
  <1>6. Payload = Payloads[p] /\ Payloads[p] \in Seq(Nat)
    <2>1. SubSeq(low.sum, 3, Len(low.sum)) = Payloads[p]
        BY <1>4, <1>5, SealIsOne, Zenon
    <2>2. Payloads[p] \in Seq(Nat)
        BY <1>4, <1>5, LineAssumption
    <2> QED
        BY <2>1, <2>2, Zenon DEF Payload
  <1>7. Seals(byte, p)
      BY <1>4, Zenon DEF Seals
  <1>8. PICK n \in Nat : n = Len(delivered)
      BY <1>5, Zenon
  <1>9. PICK out : out = [k \in 1 .. n + 1 |-> IF k <= n THEN place[k] ELSE p]
      OBVIOUS
  <1>10. Len(delivered') = n + 1 /\ delivered'[n + 1] = Payload /\ \A k \in 1 .. n : delivered'[k] = delivered[k]
      BY <1>5, <1>6, <1>8
  <1>11. out \in [1 .. n + 1 -> 1 .. given] /\ DOMAIN out = 1 .. n + 1
      BY <1>3, <1>4, <1>8, <1>9
  <1>12. ASSUME NEW k \in 1 .. n + 1 PROVE Payloads[out[k]] = delivered'[k]
    <2>1. CASE k <= n
      <3>1. k \in 1 .. n /\ out[k] = place[k] /\ k \in DOMAIN place
          BY <1>3, <1>8, <1>9, <2>1
      <3> QED
          BY <1>3, <1>10, <3>1
    <2>2. CASE k = n + 1
        BY <1>6, <1>9, <1>10, <2>2
    <2> QED
        BY <1>8, <2>1, <2>2
  <1>13. ASSUME NEW k \in 1 .. n + 1, NEW l \in 1 .. n + 1, k < l PROVE out[k] < out[l]
    <2>0. k \in 1 .. n /\ out[k] = place[k] /\ k \in DOMAIN place
        BY <1>3, <1>8, <1>9, <1>13
    <2>1. CASE l <= n
      <3>1. out[l] = place[l] /\ l \in DOMAIN place
          BY <1>3, <1>8, <1>9, <2>1
      <3> QED
          BY <1>3, <1>13, <2>0, <3>1, Zenon
    <2>2. CASE l = n + 1
      <3>1. out[l] = p
          BY <1>8, <1>9, <2>2
      <3> QED
          BY <1>4, <2>0, <3>1, Zenon
    <2> QED
        BY <1>8, <2>1, <2>2
  <1>14. ASSUME NEW k \in DOMAIN t, t[k].sum # <<>>
         PROVE  \E q \in 1 .. given : Seals(t[k], q) /\ \A j \in DOMAIN out : out[j] < q
    <2>1. PICK m \in DOMAIN s : m = k + 2 /\ s[m] = t[k] /\ 2 < m /\ 1 < m
        BY <1>2, Zenon
    <2>2. PICK q \in 1 .. given : Seals(s[m], q) /\ \A j \in DOMAIN place : place[j] < q
        BY <1>3, <1>14, <2>1, Zenon DEF LaterThan
    <2>0. SealsInOrder(s) /\ p \in DOMAIN Payloads /\ q \in DOMAIN Payloads
      <3>1. SealsInOrder(s)
          BY <1>1, Zenon
      <3> QED
          BY <1>5, <3>1, Zenon
    <2>3. p <= q
        BY <1>2, <1>4, <2>0, <2>1, <2>2, Zenon DEF SealsInOrder
    <2>4. q # p
      <3>1. 1 < 2
          OBVIOUS
      <3>2. ~Seals(s[m], p)
          BY <1>2, <1>4, <1>7, <2>0, <2>1, <3>1, Zenon DEF SealsInOrder
      <3> QED
          BY <2>2, <3>2, Zenon
    <2>5. p < q
        BY <1>5, <2>3, <2>4
    <2>6. ASSUME NEW j \in 1 .. n + 1 PROVE out[j] < q
      <3>1. CASE j <= n
        <4>1. out[j] = place[j] /\ j \in DOMAIN place
            BY <1>3, <1>8, <1>9, <3>1
        <4> QED
            BY <2>2, <4>1, Zenon
      <3>2. CASE j = n + 1
        <4>1. out[j] = p
            BY <1>8, <1>9, <3>2
        <4> QED
            BY <2>5, <4>1, Zenon
      <3> QED
          BY <1>8, <3>1, <3>2
    <2> QED
        BY <1>11, <2>1, <2>2, <2>6, Zenon
  <1> QED
    <2>1. out \in [1 .. Len(delivered') -> 1 .. given']
        BY <1>10, <1>11, Zenon
    <2>2. /\ \A k \in DOMAIN out : Payloads[out[k]] = delivered'[k]
          /\ \A k, l \in DOMAIN out : k < l => out[k] < out[l]
        BY <1>11, <1>12, <1>13, Zenon
    <2>3. \A k \in DOMAIN t : t[k].sum # <<>> =>
              \E q \in 1 .. given' : Seals(t[k], q) /\ \A j \in DOMAIN out : out[j] < q
        BY <1>14, Zenon
    <2> QED
        BY <2>1, <2>2, <2>3, Zenon DEF DeliveredBefore, LaterThan

LEMMA FeedKeeps == ASSUME LineInv, FeedByte PROVE LineInv'
  <1>1. /\ ~filling /\ parser' = Parsed(Head(pendingBytes)) /\ pendingBytes' = Tail(pendingBytes)
        /\ delivered' = IF Complete(Head(pendingBytes)) /\ Expected <= Capacity
                        THEN Append(delivered, Payload) ELSE delivered
        /\ filling' = (Len(pendingBytes) = 1)
        /\ UNCHANGED <<given, push, txRing, txHead, txTail, txeie, faultsLeft, rxRing, rxHead, rxTail>>
      BY DEF FeedByte, Sender, Wire
  <1>2. LineTypeOK /\ pendingBytes \in Seq(Wired) /\ pendingBytes # <<>>
    <2>1. LineTypeOK
        BY DEF LineInv
    <2> QED
        BY <1>1, <2>1, Zenon DEF LineTypeOK
  <1>3. PICK byte \in Wired, rest \in Seq(Wired) : byte = Head(pendingBytes) /\ rest = Tail(pendingBytes)
    <2>1. Head(pendingBytes) \in Wired /\ Tail(pendingBytes) \in Seq(Wired)
        BY <1>2
    <2> QED
        BY <2>1, Zenon
  <1>4. /\ parser' \in [state : ParserStates, contents : Seq(Nat), crcLow : Wired]
        /\ parser'.state \in {"LENGTH_HIGH", "PAYLOAD", "CRC_LOW", "CRC_HIGH"} => parser'.contents # <<>>
        /\ parser.state = "CRC_LOW" => parser'.state = "CRC_HIGH" /\ parser'.crcLow = byte
        /\ parser.state # "CRC_LOW" => parser'.state # "CRC_HIGH"
    <2>1. parser' = Parsed(byte)
        BY <1>1, <1>3, Zenon
    <2> QED
        BY <1>2, <2>1, ParsedTyped, Zenon
  <1>5. LineTypeOK'
    <2>1. delivered' \in Seq(Seq(Nat))
      <3>1. delivered \in Seq(Seq(Nat)) /\ parser.contents \in Seq(Nat)
          BY <1>2 DEF LineTypeOK
      <3>2. Payload \in Seq(Nat)
          BY <3>1 DEF Payload
      <3>3. Append(delivered, Payload) \in Seq(Seq(Nat))
          BY <3>1, <3>2
      <3> QED
          BY <1>1, <3>1, <3>3, Zenon
    <2>2. filling' \in BOOLEAN /\ (~filling' => pendingBytes' # <<>>)
      <3>1. Len(pendingBytes) # 1 => Tail(pendingBytes) # <<>>
        <4>1. Len(Tail(pendingBytes)) = Len(pendingBytes) - 1 /\ Len(pendingBytes) \in Nat
            BY <1>2
        <4>2. Len(<<>>) = 0
            OBVIOUS
        <4>3. Len(pendingBytes) # 1 => Len(Tail(pendingBytes)) # 0
            BY <4>1
        <4> QED
            BY <4>2, <4>3, Zenon
      <3> QED
          BY <1>1, <3>1, Zenon
    <2>3. pendingBytes' \in Seq(Wired)
        BY <1>1, <1>3, Zenon
    <2> QED
        BY <1>1, <1>2, <1>4, <2>1, <2>2, <2>3 DEF LineTypeOK, ParserStates
  <1>6. RingDrains' /\ PushFits'
      BY <1>1 DEF RingDrains, PushFits, Queued, Unpublished, LineInv
  <1>7. PICK r \in Seq(Wired), kept \in Seq(Wired), p \in Seq(Wired) :
            /\ r = RxBytes \o (TxBytes \o Unpublished) /\ kept = Kept /\ p = pendingBytes
    <2>1. RxBytes \o (TxBytes \o Unpublished) \in Seq(Wired)
        BY <1>2, AheadTyped
    <2> QED
        BY <1>2, <2>1, AheadTyped, Zenon
  <1>8. Ahead = kept \o (p \o r) /\ Ahead' = Kept' \o (rest \o r)
    <2>1. RxBytes' = RxBytes /\ TxBytes' = TxBytes /\ Unpublished' = Unpublished
        BY <1>1 DEF RxBytes, Received, TxBytes, Queued, Unpublished
    <2> QED
        BY <1>1, <1>3, <1>7, <2>1, Zenon DEF Ahead
  <1>9. p # <<>> /\ byte = Head(p) /\ rest = Tail(p)
      BY <1>2, <1>3, <1>7, Zenon
  <1>10. Ahead \in Seq(Wired) /\ Ahead' \in Seq(Wired)
      BY <1>2, <1>5, AheadTyped, AheadTypedNext
  <1>11. CASE parser.state = "CRC_LOW"
    <2>1. kept = <<>> /\ Kept' = <<byte>>
        BY <1>4, <1>7, <1>11 DEF Kept
    <2>2. Ahead' = Ahead
      <3>1. Append(<<>>, Head(p)) \o (Tail(p) \o r) = <<>> \o (p \o r)
        <4>1. p # <<>> /\ <<>> \in Seq(Wired)
            BY <1>9
        <4> QED
            BY <4>1, BytePasses
      <3>2. Append(<<>>, byte) = <<byte>>
          OBVIOUS
      <3> QED
          BY <1>8, <1>9, <2>1, <3>1, <3>2, Zenon
    <2>3. ~Complete(Head(pendingBytes))
        BY <1>11 DEF Complete
    <2>4. delivered' = delivered
        BY <1>1, <2>3
    <2> QED
        BY <1>1, <1>5, <1>6, <2>2, <2>4, StillKeeps DEF LineInv
  <1>12. CASE parser.state # "CRC_LOW"
    <2>1. Kept' = <<>> /\ <<>> \in Seq(Wired)
        BY <1>4, <1>12 DEF Kept
    <2>2. Thins(kept \o (p \o r), <<>> \o (rest \o r))
      <3>1. Thins(kept, <<>>) /\ Thins(p, rest) /\ Thins(r, r)
          BY <1>9, ThinEmpty, ThinTail, ThinSame
      <3>2. Thins(p \o r, rest \o r)
          BY <3>1, ThinConcat
      <3>3. p \o r \in Seq(Wired) /\ rest \o r \in Seq(Wired)
          OBVIOUS
      <3> QED
          BY <2>1, <3>1, <3>2, <3>3, ThinConcat
    <2>3. Thins(Ahead, Ahead')
        BY <1>8, <2>1, <2>2, Zenon
    <2>4. CASE delivered' = delivered
      <3>1. SealsInOrder(Ahead)' /\ DeliveredBefore(Ahead)'
          BY <1>1, <1>10, <2>3, <2>4, ThinKeeps DEF LineInv
      <3> QED
          BY <1>5, <1>6, <3>1 DEF LineInv
    <2>5. CASE Complete(byte) /\ delivered' = Append(delivered, Payload)
      <3>1. parser.state = "CRC_HIGH" /\ <<parser.crcLow, byte>> = Crc(parser.contents)
          BY <2>5 DEF Complete
      <3>2. PICK low \in Wired : low = parser.crcLow /\ kept = <<low>>
        <4>1. parser.crcLow \in Wired
            BY <1>2 DEF LineTypeOK
        <4>2. kept = <<parser.crcLow>>
            BY <1>7, <3>1 DEF Kept
        <4> QED
            BY <4>1, <4>2, Zenon
      <3>3. low.sum = parser.contents /\ byte.sum = parser.contents
          BY <3>1, <3>2 DEF Crc
      <3>4. parser.contents # <<>>
          BY <1>2, <3>1 DEF LineTypeOK
      <3>5. PICK t \in Seq(Wired) : t = rest \o r
        <4>1. rest \o r \in Seq(Wired)
            OBVIOUS
        <4> QED
            BY <4>1, Zenon
      <3>6. Ahead = <<low, byte>> \o t
        <4>1. Append(<<low>>, Head(p)) \o (Tail(p) \o r) = <<low>> \o (p \o r)
          <5>1. p # <<>> /\ <<low>> \in Seq(Wired)
              BY <1>9
          <5> QED
              BY <5>1, BytePasses
        <4>2. Append(<<low>>, byte) = <<low, byte>>
          <5>1. Append(<<low>>, byte) \in Seq(Wired) /\ <<low, byte>> \in Seq(Wired)
              OBVIOUS
          <5>2. Len(Append(<<low>>, byte)) = 2 /\ Len(<<low, byte>>) = 2
              OBVIOUS
          <5>3. \A i \in 1 .. 2 : Append(<<low>>, byte)[i] = <<low, byte>>[i]
            <6>1. Append(<<low>>, byte)[1] = low /\ Append(<<low>>, byte)[2] = byte
                OBVIOUS
            <6>2. <<low, byte>>[1] = low /\ <<low, byte>>[2] = byte
                OBVIOUS
            <6> QED
                BY <6>1, <6>2
          <5> QED
              BY <5>1, <5>2, <5>3, SeqEqual
        <4> QED
            BY <1>8, <1>9, <3>2, <3>5, <4>1, <4>2, Zenon
      <3>7. Ahead' = t
        <4>1. <<>> \o t = t
            OBVIOUS
        <4> QED
            BY <1>8, <2>1, <3>5, <4>1, Zenon
      <3>8. DeliveredBefore(t)'
        <4>1. SealsInOrder(Ahead) /\ DeliveredBefore(Ahead)
            BY DEF LineInv
        <4> QED
            BY <1>1, <1>2, <2>5, <3>3, <3>4, <3>6, <4>1, HandingOut, Zenon
      <3>9. DeliveredBefore(Ahead)'
          BY <3>7, <3>8, Zenon DEF DeliveredBefore, LaterThan
      <3>10. SealsInOrder(Ahead)'
        <4>1. PICK s \in Seq(Wired) : s = Ahead
            BY <1>10, Zenon
        <4>2. SealsInOrder(s) /\ Thins(s, t)
            BY <2>3, <3>7, <4>1, Zenon DEF LineInv
        <4>3. SealsInOrder(t)
            BY <4>2, ThinInOrder, Zenon
        <4> QED
            BY <3>7, <4>3, Zenon DEF SealsInOrder
      <3> QED
          BY <1>5, <1>6, <3>9, <3>10 DEF LineInv
    <2> QED
        BY <1>1, <1>3, <2>4, <2>5, Zenon
  <1> QED
      BY <1>11, <1>12

(* encodeSerialFrame(): the last two bytes alone are a checksum.           *)
LEMMA EncodeBytes ==
    ASSUME NEW pay \in Seq(Nat), NEW e, e = Encode(pay)
    PROVE  /\ e \in Seq(Wired)
           /\ \A k \in DOMAIN e : e[k].sum # <<>> => e[k].sum = Contents(pay) /\ k >= Len(e) - 1
  <1>1. PICK con \in Seq(Nat) : con = Contents(pay) /\ Len(con) = Len(pay) + 2
    <2>1. Contents(pay) \in Seq(Nat) /\ Len(Contents(pay)) = Len(pay) + 2
        BY DEF Contents
    <2> QED
        BY <2>1, Zenon
  <1>2. PICK n \in Nat : n = Len(pay)
      OBVIOUS
  <1>3. PICK body : body = [k \in 1 .. n + 4 |->
            Byte(IF k = 1 THEN Sync0 ELSE IF k = 2 THEN Sync1 ELSE con[k - 2])]
      OBVIOUS
  <1>4. ASSUME NEW k \in 1 .. n + 4 PROVE body[k] \in Wired /\ body[k].sum = <<>>
    <2>1. Sync0 \in Nat /\ Sync1 \in Nat /\ (k # 1 /\ k # 2 => con[k - 2] \in Nat)
        BY <1>1, <1>2, LineAssumption
    <2>2. PICK x \in Nat : body[k] = Byte(x)
      <3>1. CASE k = 1
          BY <1>3, <2>1, <3>1
      <3>2. CASE k = 2
          BY <1>3, <2>1, <3>2
      <3>3. CASE k # 1 /\ k # 2
          BY <1>3, <2>1, <3>3
      <3> QED
          BY <3>1, <3>2, <3>3
    <2> QED
        BY <2>2 DEF Byte, Wired
  <1>5. body \in Seq(Wired) /\ Len(body) = n + 4
    <2>1. body \in [1 .. n + 4 -> Wired]
        BY <1>3, <1>4
    <2> QED
        BY <2>1
  <1>6. PICK a \in Wired, b \in Wired : Crc(con) = <<a, b>> /\ a.sum = con /\ b.sum = con
    <2>1. [v |-> Len(con), sum |-> con] \in Wired /\ [v |-> Sync0, sum |-> con] \in Wired
        BY LineAssumption DEF Wired
    <2> QED
        BY <2>1 DEF Crc
  <1>7. e = body \o <<a, b>>
      BY <1>1, <1>2, <1>3, <1>6, Zenon DEF Encode
  <1>8. e \in Seq(Wired) /\ Len(e) = n + 6 /\ DOMAIN e = 1 .. n + 6
      BY <1>5, <1>7
  <1>9. ASSUME NEW k \in 1 .. n + 6 PROVE e[k].sum # <<>> => e[k].sum = con /\ k >= n + 5
    <2>1. CASE k \in 1 .. n + 4
      <3>1. e[k] = body[k]
          BY <1>5, <1>7, <2>1
      <3> QED
          BY <1>4, <2>1, <3>1
    <2>2. CASE k = n + 5
      <3>1. e[k] = a
          BY <1>5, <1>7, <2>2
      <3> QED
          BY <1>2, <1>6, <2>2, <3>1
    <2>3. CASE k = n + 6
      <3>1. e[k] = b
          BY <1>5, <1>7, <2>3
      <3> QED
          BY <1>2, <1>6, <2>3, <3>1
    <2> QED
        BY <1>2, <2>1, <2>2, <2>3
  <1>10. Len(e) - 1 = n + 5
      BY <1>2, <1>8
  <1> QED
      BY <1>1, <1>8, <1>9, <1>10, Zenon

(* A frame of the next payload is put behind all others.                   *)
LEMMA NextIsLast ==
    ASSUME LineTypeOK, given < Len(Payloads), given' = given + 1, delivered' = delivered,
           NEW s \in Seq(Wired), SealsInOrder(s), DeliveredBefore(s), NEW e \in Seq(Wired),
           \A k \in DOMAIN e : e[k].sum # <<>> => Seals(e[k], given + 1) /\ k >= Len(e) - 1
    PROVE  SealsInOrder(s \o e) /\ DeliveredBefore(s \o e)'
  <1>1. PICK t \in Seq(Wired), n \in Nat, m \in Nat, g \in Nat :
            t = s \o e /\ n = Len(s) /\ m = Len(e) /\ g = given
    <2>1. s \o e \in Seq(Wired) /\ Len(s) \in Nat /\ Len(e) \in Nat
        OBVIOUS
    <2>2. given \in Nat
        BY LineAssumption DEF LineTypeOK
    <2> QED
        BY <2>1, <2>2, Zenon
  <1>2. DOMAIN t = 1 .. n + m /\ DOMAIN s = 1 .. n /\ DOMAIN e = 1 .. m
      BY <1>1
  <1>3. g + 1 \in DOMAIN Payloads /\ 1 .. g \subseteq DOMAIN Payloads
    <2>1. DOMAIN Payloads = 1 .. Len(Payloads) /\ Len(Payloads) \in Nat
        BY LineAssumption
    <2> QED
        BY <1>1, <2>1
  <1>4. PICK place \in [1 .. Len(delivered) -> 1 .. given] :
            /\ \A k \in DOMAIN place : Payloads[place[k]] = delivered[k]
            /\ \A k, l \in DOMAIN place : k < l => place[k] < place[l]
            /\ LaterThan(s, place)
      BY Zenon DEF DeliveredBefore
  <1>5. ASSUME NEW i \in 1 .. n PROVE i \in DOMAIN s /\ t[i] = s[i]
      BY <1>1, <1>2
  <1>6. ASSUME NEW i \in DOMAIN t, i > n
        PROVE  i - n \in DOMAIN e /\ t[i] = e[i - n]
      BY <1>1, <1>2, <1>6
  <1>7. ASSUME NEW i \in 1 .. n, NEW p \in DOMAIN Payloads, Seals(t[i], p) PROVE p \in 1 .. g
    <2>1. i \in DOMAIN s /\ t[i] = s[i]
        BY <1>5
    <2>2. s[i].sum # <<>>
        BY <1>7, <2>1, SealIsOne, Zenon
    <2>3. PICK q \in 1 .. given : Seals(s[i], q)
        BY <1>4, <2>1, <2>2, Zenon DEF LaterThan
    <2>4. q = p
        BY <1>1, <1>3, <1>7, <2>1, <2>3, SealIsOne, Zenon
    <2> QED
        BY <1>1, <2>3, <2>4, Zenon
  <1>8. ASSUME NEW i \in DOMAIN t, i > n, NEW p \in DOMAIN Payloads, Seals(t[i], p)
        PROVE  p = g + 1 /\ i >= n + m - 1
    <2>1. PICK k \in DOMAIN e : k = i - n /\ t[i] = e[k]
        BY <1>6, <1>8, Zenon
    <2>2. e[k].sum # <<>>
        BY <1>8, <2>1, SealIsOne, Zenon
    <2>3. Seals(e[k], given + 1) /\ k >= Len(e) - 1
        BY <2>2
    <2>4. p = given + 1
        BY <1>1, <1>3, <1>8, <2>1, <2>3, SealIsOne, Zenon
    <2> QED
        BY <1>1, <1>2, <2>1, <2>3, <2>4
  <1>9. SealsInOrder(t)
    <2>1. ASSUME NEW i \in DOMAIN t, NEW j \in DOMAIN t, NEW p \in DOMAIN Payloads,
                 NEW q \in DOMAIN Payloads, i < j, Seals(t[i], p), Seals(t[j], q)
          PROVE  p <= q
      <3>1. CASE j \in 1 .. n
        <4>1. i \in 1 .. n
            BY <1>2, <2>1, <3>1
        <4>2. i \in DOMAIN s /\ j \in DOMAIN s /\ t[i] = s[i] /\ t[j] = s[j]
            BY <1>5, <3>1, <4>1
        <4>3. Seals(s[i], p) /\ Seals(s[j], q)
            BY <2>1, <4>2, Zenon
        <4> QED
            BY <2>1, <4>2, <4>3, Zenon DEF SealsInOrder
      <3>2. CASE j > n
        <4>1. q = g + 1
            BY <1>8, <2>1, <3>2, Zenon
        <4>2. CASE i > n
          <5>1. p = g + 1
              BY <1>8, <2>1, <4>2, Zenon
          <5> QED
              BY <1>1, <4>1, <5>1
        <4>3. CASE i \in 1 .. n
          <5>1. p \in 1 .. g
              BY <1>7, <2>1, <4>3, Zenon
          <5> QED
              BY <1>1, <4>1, <5>1
        <4> QED
            BY <1>1, <1>2, <4>2, <4>3
      <3> QED
          BY <1>1, <1>2, <3>1, <3>2
    <2>2. ASSUME NEW i \in DOMAIN t, NEW j \in DOMAIN t, NEW k \in DOMAIN t, NEW p \in DOMAIN Payloads,
                 i < j, j < k, Seals(t[i], p), Seals(t[j], p), Seals(t[k], p)
          PROVE  FALSE
      <3>1. CASE k \in 1 .. n
        <4>1. i \in 1 .. n /\ j \in 1 .. n
            BY <1>2, <2>2, <3>1
        <4>2. /\ i \in DOMAIN s /\ j \in DOMAIN s /\ k \in DOMAIN s
              /\ t[i] = s[i] /\ t[j] = s[j] /\ t[k] = s[k]
            BY <1>5, <3>1, <4>1
        <4>3. Seals(s[i], p) /\ Seals(s[j], p) /\ Seals(s[k], p)
            BY <2>2, <4>2, Zenon
        <4> QED
            BY <2>2, <4>2, <4>3, Zenon DEF SealsInOrder
      <3>2. CASE k > n
        <4>1. p = g + 1
            BY <1>8, <2>2, <3>2, Zenon
        <4>2. CASE i > n
          <5>1. i >= n + m - 1
              BY <1>8, <2>2, <4>2, Zenon
          <5> QED
              BY <1>1, <1>2, <2>2, <5>1
        <4>3. CASE i \in 1 .. n
          <5>1. p \in 1 .. g
              BY <1>7, <2>2, <4>3, Zenon
          <5> QED
              BY <1>1, <4>1, <5>1
        <4> QED
            BY <1>1, <1>2, <4>2, <4>3
      <3> QED
          BY <1>1, <1>2, <3>1, <3>2
    <2> QED
        BY <2>1, <2>2, Zenon DEF SealsInOrder
  <1>10. ASSUME NEW i \in DOMAIN t, t[i].sum # <<>>
         PROVE  \E p \in 1 .. g + 1 : Seals(t[i], p) /\ \A j \in DOMAIN place : place[j] < p
    <2>1. CASE i \in 1 .. n
      <3>1. i \in DOMAIN s /\ t[i] = s[i]
          BY <1>5, <2>1
      <3>2. PICK p \in 1 .. given : Seals(s[i], p) /\ \A j \in DOMAIN place : place[j] < p
          BY <1>4, <1>10, <3>1, Zenon DEF LaterThan
      <3>3. p \in 1 .. g + 1
          BY <1>1
      <3> QED
          BY <3>1, <3>2, <3>3, Zenon
    <2>2. CASE i > n
      <3>1. PICK k \in DOMAIN e : k = i - n /\ t[i] = e[k]
          BY <1>6, <2>2, Zenon
      <3>2. Seals(t[i], g + 1)
        <4>1. Seals(e[k], given + 1)
            BY <1>10, <3>1
        <4> QED
            BY <1>1, <3>1, <4>1, Zenon
      <3>3. \A j \in DOMAIN place : place[j] < g + 1
        <4>1. \A j \in DOMAIN place : place[j] \in 1 .. given
            BY <1>4, Zenon
        <4>2. \A x \in 1 .. given : x < g + 1
            BY <1>1
        <4> QED
            BY <4>1, <4>2, Zenon
      <3>4. g + 1 \in 1 .. g + 1
          BY <1>1
      <3> QED
          BY <3>2, <3>3, <3>4, Zenon
    <2>3. i \in 1 .. n \/ i > n
        BY <1>1, <1>2
    <2> QED
        BY <2>1, <2>2, <2>3, Zenon
  <1>11. DeliveredBefore(t)'
    <2>1. given' = g + 1 /\ 1 .. given \subseteq 1 .. g + 1
        BY <1>1
    <2>2. place \in [1 .. Len(delivered') -> 1 .. given']
      <3>1. place \in [1 .. Len(delivered) -> 1 .. g + 1]
          BY <1>4, <2>1
      <3> QED
          BY <2>1, <3>1
    <2>3. \A k \in DOMAIN place : Payloads[place[k]] = delivered'[k]
        BY <1>4
    <2>4. \A i \in DOMAIN t : t[i].sum # <<>> =>
              \E p \in 1 .. given' : Seals(t[i], p) /\ \A j \in DOMAIN place : place[j] < p
        BY <1>10, <2>1, Zenon
    <2> QED
        BY <1>4, <2>2, <2>3, <2>4, Zenon DEF DeliveredBefore, LaterThan
  <1>12. DeliveredBefore(s \o e)'
      BY <1>1, <1>11, Zenon
  <1> QED
      BY <1>1, <1>9, <1>12, Zenon

LEMMA SendKeeps == ASSUME LineInv, Send PROVE LineInv'
  <1>1. /\ push.step = "none" /\ given < Len(Payloads) /\ given' = given + 1
        /\ UNCHANGED <<txRing, txHead, txTail, txeie, faultsLeft, rxRing, rxHead, rxTail,
                       pendingBytes, filling, parser, delivered>>
      BY DEF Send, Receiver
  <1>2. LineTypeOK /\ Queued \in Nat /\ TxRingSize \in Nat /\ Queued < TxRingSize
    <2>1. LineTypeOK
        BY DEF LineInv
    <2>2. Queued \in Nat /\ Unpublished = <<>>
        BY <1>1, <2>1, AheadTyped DEF Unpublished
    <2> QED
        BY <2>1, <2>2, LineAssumption DEF PushFits, LineInv
  <1>3. PICK pay \in Seq(Nat) : pay = Payloads[given + 1]
    <2>1. given + 1 \in 1 .. Len(Payloads)
        BY <1>1, <1>2, LineAssumption DEF LineTypeOK
    <2>2. Payloads[given + 1] \in Seq(Nat)
        BY <2>1, LineAssumption
    <2> QED
        BY <2>2, Zenon
  <1>4. PICK coded \in Seq(Wired) :
            /\ coded = Encode(pay)
            /\ \A k \in DOMAIN coded :
                  coded[k].sum # <<>> => coded[k].sum = Contents(pay) /\ k >= Len(coded) - 1
      BY EncodeBytes, Zenon
  <1>5. \/ /\ push' = [step |-> "copy", frame |-> coded, used |-> Queued]
           /\ Len(coded) <= (TxRingSize - 1) - Queued
        \/ push' = [step |-> "none", frame |-> <<>>, used |-> 0]
      BY <1>3, <1>4, Zenon DEF Send, NoPush
  <1>6. push'.step \in {"copy", "none"}
      BY <1>5
  <1>7. LineTypeOK'
    <2>1. push' \in [step : {"none", "copy", "publish", "enable"}, frame : Seq(Wired), used : Nat]
      <3>1. <<>> \in Seq(Wired)
          OBVIOUS
      <3>2. CASE push' = [step |-> "copy", frame |-> coded, used |-> Queued]
          BY <1>2, <3>2
      <3>3. CASE push' = [step |-> "none", frame |-> <<>>, used |-> 0]
          BY <3>1, <3>3
      <3> QED
          BY <1>5, <3>2, <3>3, Zenon
    <2>2. given' \in 0 .. Len(Payloads)
      <3>1. Len(Payloads) \in Nat
          BY LineAssumption
      <3> QED
          BY <1>1, <1>2, <3>1 DEF LineTypeOK
    <2> QED
        BY <1>1, <1>2, <2>1, <2>2 DEF LineTypeOK
  <1>8. Queued' = Queued
      BY <1>1 DEF Queued
  <1>9. RingDrains'
    <2>1. Queued > 0 => txeie
        BY <1>1 DEF RingDrains, LineInv
    <2> QED
        BY <1>1, <1>8, <2>1, Zenon DEF RingDrains
  <1>10. PICK e \in Seq(Wired) :
             /\ e = Unpublished' /\ Queued + Len(e) < TxRingSize
             /\ \A k \in DOMAIN e : e[k].sum # <<>> => e[k].sum = Contents(pay) /\ k >= Len(e) - 1
    <2>1. CASE push' = [step |-> "copy", frame |-> coded, used |-> Queued]
                 /\ Len(coded) <= (TxRingSize - 1) - Queued
      <3>1. Unpublished' = coded
          BY <2>1 DEF Unpublished
      <3>2. Queued + Len(coded) < TxRingSize
        <4>1. Len(coded) \in Nat
            OBVIOUS
        <4> QED
            BY <1>2, <2>1, <4>1
      <3> QED
          BY <1>4, <3>1, <3>2, Zenon
    <2>2. CASE push' = [step |-> "none", frame |-> <<>>, used |-> 0]
      <3>1. Unpublished' = <<>> /\ <<>> \in Seq(Wired) /\ DOMAIN <<>> = {} /\ Len(<<>>) = 0
          BY <2>2 DEF Unpublished
      <3>2. Queued + Len(<<>>) < TxRingSize
          BY <1>2, <3>1
      <3>3. \A k \in DOMAIN <<>> : <<>>[k].sum # <<>> => <<>>[k].sum = Contents(pay) /\ k >= Len(<<>>) - 1
          BY <3>1
      <3> QED
          BY <3>1, <3>2, <3>3, Zenon
    <2> QED
        BY <1>5, <2>1, <2>2
  <1>11. PushFits'
      BY <1>6, <1>8, <1>10 DEF PushFits
  <1>12. PICK s \in Seq(Wired) : s = OnTheWay /\ s = Ahead
    <2>1. OnTheWay \in Seq(Wired) /\ Ahead = OnTheWay \o Unpublished
        BY <1>2, AheadSplits
    <2>2. Unpublished = <<>>
        BY <1>1 DEF Unpublished
    <2>3. OnTheWay \o <<>> = OnTheWay
        BY <2>1
    <2> QED
        BY <2>1, <2>2, <2>3, Zenon
  <1>13. Ahead' = s \o e
    <2>1. Ahead' = OnTheWay' \o Unpublished'
        BY <1>7, AheadSplitsNext
    <2>2. OnTheWay' = OnTheWay
        BY <1>1 DEF OnTheWay, Kept, RxBytes, Received, TxBytes, Queued
    <2> QED
        BY <1>10, <1>12, <2>1, <2>2, Zenon
  <1>14. SealsInOrder(s \o e) /\ DeliveredBefore(s \o e)'
    <2>1. \A k \in DOMAIN e : e[k].sum # <<>> => Seals(e[k], given + 1) /\ k >= Len(e) - 1
        BY <1>3, <1>10, Zenon DEF Seals
    <2>2. SealsInOrder(s) /\ DeliveredBefore(s)
        BY <1>12, Zenon DEF LineInv
    <2>3. delivered' = delivered
        BY <1>1
    <2> QED
        BY <1>1, <1>2, <2>1, <2>2, <2>3, NextIsLast, Zenon
  <1>15. SealsInOrder(Ahead)' /\ DeliveredBefore(Ahead)'
    <2>1. SealsInOrder(Ahead)'
        BY <1>13, <1>14, Zenon DEF SealsInOrder
    <2>2. DeliveredBefore(Ahead)'
        BY <1>13, <1>14, Zenon DEF DeliveredBefore, LaterThan
    <2> QED
        BY <2>1, <2>2
  <1> QED
      BY <1>7, <1>9, <1>11, <1>15 DEF LineInv

LEMMA LineStep == LineInv /\ [LineNext]_lineVars => LineInv'
  <1> SUFFICES ASSUME LineInv, [LineNext]_lineVars PROVE LineInv'
      OBVIOUS
  <1>1. CASE UNCHANGED lineVars
    <2>1. UNCHANGED <<given, push, txRing, txHead, txTail, txeie, faultsLeft, rxRing, rxHead, rxTail,
                      pendingBytes, filling, parser, delivered>>
        BY <1>1 DEF lineVars
    <2>2. LineTypeOK' /\ RingDrains' /\ PushFits'
        BY <2>1 DEF LineInv, LineTypeOK, RingDrains, PushFits, Queued, Unpublished
    <2>3. Ahead' = Ahead
        BY <2>1 DEF Ahead, Kept, RxBytes, Received, TxBytes, Queued, Unpublished
    <2> QED
        BY <2>1, <2>2, <2>3, StillKeeps DEF LineInv
  <1>2. CASE LineNext
      BY <1>2, SendKeeps, CopyKeeps, PublishKeeps, EnableKeeps, TxKeeps, PopKeeps, FeedKeeps DEF LineNext
  <1> QED
      BY <1>1, <1>2

(* The inductive invariant of the serial line holds whatever the order of  *)
(* the push, the interrupt, the DMA and the reader, and whatever bytes are *)
(* lost, garbled or overwritten.                                           *)
THEOREM LineInvariant == LineSpec => []LineInv
  <1> QED
      BY LineStarts, LineStep, PTL DEF LineSpec

(* What the receiver hands out was sent: no frame is made up of the pieces *)
(* of others, none comes twice and none overtakes another; and the ring    *)
(* never holds bytes that nobody will send (SerialFrameParser::feed(),     *)
(* uart1TxPush(), USART1_IRQHandler()).                                    *)
THEOREM LineFramesAreSent == LineSpec => []LineIsWhole
  <1>1. LineInv => LineIsWhole
      BY Zenon DEF LineInv, LineIsWhole, DeliveredBefore, FramesAreSent
  <1> QED
      BY <1>1, LineInvariant, PTL
=============================================================================
