------------------------------ MODULE SimDrone ------------------------------
(***************************************************************************)
(* The flight process of the simulation (drone_sim): the sim link and its  *)
(* reply cache (PlantLink), the sensor source that decides whether a plant *)
(* drives (SensorSourceSim), the RC fail-safe (RcTracker), the integrity   *)
(* tracker of a run (SimRunTracker) and the main loop that ties them       *)
(* together (DroneSimApp).                                                 *)
(*                                                                         *)
(* Of the plants (sim-godot, drone.gd and sim_link.gd) the control is      *)
(* modelled, not the physics: a plant sends one sample per tick and free   *)
(* runs, or in lockstep resends it until it is answered and counts the     *)
(* ticks it gave up on.  The LAN loses and reorders what they send.  Time  *)
(* is counted in loop periods; a silence budget that runs out is a step    *)
(* that may happen whenever nothing is waiting.                            *)
(***************************************************************************)
EXTENDS Integers, FiniteSets

CONSTANTS Plants,       \* nodes that send SimSensor messages
          Nobody,       \* node id 0: no plant
          HashWindow,   \* periods hashed after the start of a run
          RcTimeout,    \* RC_TIMEOUT_US, in periods
          MaxTick,      \* ticks each plant counts
          MaxWall,      \* periods the process clock counts
          MaxWire,      \* samples in flight
          MaxEvents     \* mishaps around the process and commands from the ground

ASSUME SimDroneAssumption ==
    /\ Nobody \notin Plants
    /\ HashWindow \in Nat \ {0} /\ RcTimeout \in Nat
    /\ MaxTick \in [Plants -> Nat] /\ MaxWall \in Nat
    /\ MaxWire \in Nat /\ MaxEvents \in Nat

VARIABLES
    plant,    \* each plant's clock, world and lockstep state
    wire,     \* samples sent by the plants and not delivered
    link,     \* PlantLink: adopted plant, stashed sample, cached reply
    source,   \* SensorSourceSim: what it remembers of the plant's clock
    wall,     \* the process clock
    loop,     \* DroneSimApp::run(): its locals and latched commands
    core,     \* the flight core: whether it is armed and what it has stepped
    rc,       \* RcTracker
    run,      \* SimRunTracker
    silence,  \* history: frames since the pilot was last heard
    history,  \* history: unheard, a plant restarted while the loop was parked;
              \* overtaken, the LAN delivered a sample before an older one
    events    \* restarts, resets, silences, losses, ticks given up, commands

simVars == <<plant, wire, link, source, wall, loop, core, rc, run, silence,
             history, events>>

NoSample == [src |-> Nobody, boot |-> 0, ts |-> 0, world |-> 0, lost |-> 0]

(* A plant as it starts, in lockstep when its command line says so.  Ticks *)
(* count from 1 here, from 0 there; _reset_count (world) wraps at 256      *)
(* there: fewer resets than that fall between two samples that arrive.     *)
NewPlant(lockstep) == [boot |-> 0, ts |-> 0, world |-> 0, lost |-> 0, waiting |-> FALSE,
                       lockstep |-> lockstep]

Sample(p) == [src |-> p, boot |-> plant[p].boot, ts |-> plant[p].ts,
              world |-> plant[p].world, lost |-> plant[p].lost]

(* The world a sample was taken in: what a run must not mix.               *)
WorldOf(m) == <<m.src, m.boot, m.world>>

FreshCore == [armed |-> FALSE, last |-> 0, heard |-> 0, back |-> FALSE]

FreshRun == [open |-> FALSE, start |-> 0, window |-> HashWindow, world |-> <<Nobody, 0, 0>>,
             last |-> 0, frames |-> 0, mixed |-> FALSE, hole |-> FALSE, sealed |-> FALSE,
             degraded |-> FALSE, linkSeen |-> FALSE, lost |-> 0, free |-> FALSE]

SimInit ==
    /\ plant \in [Plants -> {NewPlant(lockstep) : lockstep \in BOOLEAN}]
    /\ wire = {}
    /\ link = [plant |-> Nobody, pending |-> NoSample, reply |-> 0]
    /\ source = [seen |-> FALSE, ts |-> 0, world |-> 0, changed |-> FALSE]
    /\ wall = 0
    /\ loop = [lastUs |-> 0, resetSeen |-> FALSE, lastReset |-> 0, parked |-> FALSE, session |-> FALSE,
               reboot |-> FALSE, inhibited |-> FALSE, window |-> HashWindow]
    /\ core = FreshCore
    /\ rc = [ever |-> FALSE, at |-> 0, arm |-> FALSE]
    /\ run = FreshRun
    /\ silence = 0 /\ history = [unheard |-> FALSE, overtaken |-> FALSE] /\ events = 0

-----------------------------------------------------------------------------
(* The plants and the LAN. *)
Mishap == events < MaxEvents /\ events' = events + 1
Reaches(arrives) == IF arrives THEN UNCHANGED events ELSE Mishap

(* exchange(): only a lockstep plant waits for the answer to its tick.     *)
PlantTick(p) ==
    /\ ~plant[p].waiting /\ plant[p].ts < MaxTick[p]
    /\ plant' = [plant EXCEPT ![p].ts = @ + 1, ![p].waiting = plant[p].lockstep]
    /\ Cardinality(wire) < MaxWire
    /\ wire' = wire \cup {[Sample(p) EXCEPT !.ts = @ + 1]}
    /\ UNCHANGED <<link, source, wall, loop, core, rc, run, silence, history, events>>

(* _wait_for_reply() *)
PlantResend(p) ==
    /\ plant[p].waiting /\ Sample(p) \notin wire /\ Cardinality(wire) < MaxWire
    /\ wire' = wire \cup {Sample(p)}
    /\ UNCHANGED <<plant, link, source, wall, loop, core, rc, run, silence, history, events>>

PlantGivesUp(p) ==
    /\ Mishap
    /\ plant[p].waiting
    /\ plant' = [plant EXCEPT ![p].waiting = FALSE, ![p].lost = @ + 1]
    /\ UNCHANGED <<wire, link, source, wall, loop, core, rc, run, silence, history>>

(* _integrate_forces(), after the exchange of the tick.                    *)
PlantReset(p) ==
    /\ Mishap
    /\ ~plant[p].waiting
    /\ plant' = [plant EXCEPT ![p].world = @ + 1]
    /\ UNCHANGED <<wire, link, source, wall, loop, core, rc, run, silence, history>>

(* A restart takes longer than PLANT_SILENCE_US: a loop that waits has     *)
(* dropped the plant meanwhile, a parked one has not looked.               *)
Remembered == {link.plant, link.pending.src}

PlantRestart(p, lockstep) ==
    /\ Mishap
    /\ p \in Remembered => loop.parked
    /\ plant' = [plant EXCEPT ![p] = [NewPlant(lockstep) EXCEPT !.boot = plant[p].boot + 1]]
    /\ wire' = {m \in wire : m.src # p}
    /\ history' = [history EXCEPT !.unheard = @ \/ p \in Remembered]
    /\ UNCHANGED <<link, source, wall, loop, core, rc, run, silence>>

Lose(m) ==
    /\ Mishap
    /\ wire' = wire \ {m}
    /\ UNCHANGED <<plant, link, source, wall, loop, core, rc, run, silence, history>>

-----------------------------------------------------------------------------
(* PlantLink *)

(* onMessage(): stashed for the sensor source, over what was waiting.      *)
OnSensor(m) ==
    /\ wire' = wire \ {m}
    /\ link' = [link EXCEPT !.pending = m]
    /\ history' = [history EXCEPT !.overtaken = @ \/ \E k \in wire : k.src = m.src /\ k.ts < m.ts]
    /\ UNCHANGED <<plant, source, wall, loop, core, rc, run, silence, events>>

SetPlant(l, p) == [l EXCEPT !.plant = p, !.reply = 0]

(* A reply reaches the plant unless the LAN loses it; it ends the wait for *)
(* the tick it echoes.                                                     *)
Answered(ps, p, echo, arrives) ==
    IF p \in Plants /\ arrives /\ ps[p].waiting /\ ps[p].ts = echo
    THEN [ps EXCEPT ![p].waiting = FALSE] ELSE ps

-----------------------------------------------------------------------------
(* RcTracker *)

(* failsafeActive(): an unsigned age, which wraps when the clock went back.*)
Failsafe(ts) == ~rc.ever \/ ts < rc.at \/ ts - rc.at > RcTimeout

-----------------------------------------------------------------------------
(* SimRunTracker *)

BeginRun(r, m, window) ==
    [FreshRun EXCEPT !.open = TRUE, !.start = m.ts, !.window = window, !.lost = r.lost]

(* update(): the hash is the world and the order of what was folded in;    *)
(* free, a history, notes that some of it came from a free-running plant.  *)
Update(r, m) ==
    IF ~r.open \/ r.sealed \/ m.ts < r.start THEN r
    ELSE IF m.ts - r.start >= r.window THEN [r EXCEPT !.sealed = TRUE]
    ELSE [r EXCEPT !.frames = @ + 1, !.last = m.ts, !.world = WorldOf(m),
                   !.mixed = @ \/ (r.frames > 0 /\ (r.world # WorldOf(m) \/ m.ts <= r.last)),
                   !.hole = @ \/ (r.frames > 0 /\ m.ts # r.last + 1),
                   !.free = @ \/ ~plant[m.src].lockstep]

\* Mutant: the mark is the last report's, not the run's.
MutNoteLink(r, m) ==
    [r EXCEPT !.degraded = r.linkSeen /\ m.lost > r.lost,
              !.lost = m.lost, !.linkSeen = TRUE]

NoteLink(r, m) ==
    [r EXCEPT !.degraded = @ \/ (r.linkSeen /\ m.lost > r.lost),
              !.lost = m.lost, !.linkSeen = TRUE]

-----------------------------------------------------------------------------
(* SensorSourceSim::waitFrame() *)

Foreign(m) == link.plant # Nobody /\ m.src # link.plant

\* Mutant: a resent tick is taken for a new sample.
MutRepeated(m) == FALSE

Repeated(m) == link.plant # Nobody /\ source.seen /\ m.ts = source.ts

(* A sample of another plant while one drives: counted and ignored.        *)
TakeForeign ==
    /\ ~loop.parked /\ link.pending # NoSample /\ Foreign(link.pending)
    /\ link' = [link EXCEPT !.pending = NoSample]
    /\ UNCHANGED <<plant, wire, source, wall, loop, core, rc, run, silence, history, events>>

(* The tick of the last sample again: the cached reply goes out once more. *)
TakeRepeated(arrives) ==
    /\ ~loop.parked /\ link.pending # NoSample
    /\ ~Foreign(link.pending) /\ Repeated(link.pending)
    /\ plant' = IF link.reply = 0 THEN plant
                ELSE Answered(plant, link.plant, link.reply, arrives)
    /\ link' = [link EXCEPT !.pending = NoSample]
    /\ Reaches(arrives)
    /\ UNCHANGED <<wire, source, wall, loop, core, rc, run, silence, history>>

(* The silence budget ran out with nothing stashed: the clock takes over.  *)
PlantLost ==
    /\ Mishap
    /\ ~loop.parked /\ link.plant # Nobody /\ link.pending = NoSample
    /\ link' = SetPlant(link, Nobody)
    /\ source' = [source EXCEPT !.seen = FALSE, !.changed = TRUE]
    /\ UNCHANGED <<plant, wire, wall, loop, core, rc, run, silence, history>>

(* What the source keeps of a sample: a plant just adopted, or one whose   *)
(* clock went back, changes the time base.                                 *)
Sensed(m) ==
    [seen |-> TRUE, ts |-> m.ts, world |-> m.world,
     changed |-> source.changed \/ link.plant = Nobody \/ (source.seen /\ m.ts < source.ts)]

-----------------------------------------------------------------------------
(* DroneSimApp::run(), from the frame to the end of the loop's turn.       *)

\* Mutant: a new time base restarts the core, but not the run.
MutTimeBase(changed) == loop.resetSeen

(* A new time base forgets the reset counter seen in the old one.          *)
TimeBase(changed) == loop.resetSeen /\ ~changed

WorldReset(m, changed) == TimeBase(changed) /\ m.world # loop.lastReset

(* The core a frame is stepped on: rebuilt by a new time base, by a world  *)
(* reset and by the reboot command.                                        *)
CoreFor(restarted) == IF restarted THEN FreshCore ELSE core

(* graft(), the arming interlock and FlightCore::step(); the core arms     *)
(* only on a frame with sensors and a pilot who asks for it.               *)
Step(c, ts, imu, inhibited) ==
    [armed |-> imu /\ ~Failsafe(ts) /\ rc.arm /\ ~inhibited,
     last |-> ts,
     heard |-> IF Failsafe(ts) THEN 0 ELSE silence',
     back |-> c.back \/ ts <= c.last]

(* rebootFirmware(): the boot decision is the store's; its outcome here is *)
(* whether the slot that runs is on trial.  The updater is rebuilt, which  *)
(* closes its session.  A frame that finds a session open is dropped, and  *)
(* the parked loop takes over.                                             *)
Dropped == loop.session /\ ~loop.reboot

AfterFrame(ts, trial) ==
    [loop EXCEPT !.lastUs = ts, !.reboot = FALSE, !.session = Dropped, !.parked = Dropped,
                 !.inhibited = IF loop.reboot THEN trial ELSE @]

(* The pilot's silence, in frames.                                         *)
Quieter == silence' = IF silence > RcTimeout + 1 THEN silence ELSE silence + 1

SensorFrame(arrives, trial) ==
    LET m         == link.pending
        s         == Sensed(m)
        opens     == ~TimeBase(s.changed) \/ WorldReset(m, s.changed)
        opened    == IF opens THEN BeginRun(run, m, loop.window) ELSE run
        next      == AfterFrame(m.ts, trial)
        rebuilt   == CoreFor(s.changed \/ WorldReset(m, s.changed) \/ loop.reboot)
        lastReply == IF link.plant = m.src THEN link.reply ELSE 0
    IN /\ ~loop.parked /\ m # NoSample /\ ~Foreign(m) /\ ~Repeated(m)
       /\ trial => loop.reboot
       /\ IF Dropped THEN ~arrives /\ UNCHANGED events ELSE Reaches(arrives)
       /\ source' = [s EXCEPT !.changed = FALSE]
       /\ loop' = [next EXCEPT !.resetSeen = TRUE, !.lastReset = m.world]
       /\ Quieter
       /\ core' = IF Dropped THEN rebuilt ELSE Step(rebuilt, m.ts, TRUE, next.inhibited)
       /\ link' = [plant |-> m.src, pending |-> NoSample,
                   reply |-> IF Dropped THEN lastReply ELSE m.ts]
       /\ plant' = Answered(plant, m.src, m.ts, arrives)
       /\ run' = IF Dropped THEN opened ELSE NoteLink(Update(opened, m), m)
       /\ UNCHANGED <<wire, wall, rc, history>>

(* fillClockFrame(): no plant, no sensors, the clock's time; no reply      *)
(* leaves and the run does not see it.                                     *)
ClockFrame(trial) ==
    LET next    == AfterFrame(wall + 1, trial)
        rebuilt == CoreFor(source.changed \/ loop.reboot)
    IN /\ ~loop.parked /\ link.plant = Nobody /\ link.pending = NoSample /\ wall < MaxWall
       /\ trial => loop.reboot
       /\ wall' = wall + 1
       /\ source' = [source EXCEPT !.changed = FALSE]
       /\ loop' = [next EXCEPT !.resetSeen = TimeBase(source.changed)]
       /\ Quieter
       /\ core' = IF Dropped THEN rebuilt ELSE Step(rebuilt, wall', FALSE, next.inhibited)
       /\ UNCHANGED <<plant, wire, link, rc, run, history, events>>

-----------------------------------------------------------------------------
(* DroneSimApp::Commands::onMessage(): what the poll inside the wait, or   *)
(* the parked loop, dispatches from the ground.                            *)

Order == events < MaxEvents /\ events' = events + 1

OnRc(arm) ==
    /\ Order
    /\ rc' = [ever |-> TRUE, at |-> loop.lastUs, arm |-> arm]
    /\ silence' = 0
    /\ UNCHANGED <<plant, wire, link, source, wall, loop, core, run, history>>

(* The reboot is acted on after the wait; a parked loop leaves on it, the  *)
(* session closed with the updater that is rebuilt.                        *)
OnReboot(trial) ==
    /\ Order
    /\ trial => loop.parked
    /\ IF loop.parked
       THEN /\ loop' = [loop EXCEPT !.parked = FALSE, !.session = FALSE, !.inhibited = trial]
            /\ core' = FreshCore
       ELSE /\ loop' = [loop EXCEPT !.reboot = TRUE]
            /\ UNCHANGED core
    /\ UNCHANGED <<plant, wire, link, source, wall, rc, run, silence, history>>

(* The window asked for applies to the run the scenario opens.             *)
OnScenario(window) ==
    /\ Order
    /\ loop' = [loop EXCEPT !.window = window]
    /\ UNCHANGED <<plant, wire, link, source, wall, core, rc, run, silence, history>>

(* The updater's messages: a status of the ground confirms a trial, and    *)
(* the interlock is read again.                                            *)
OnOtaStatus ==
    /\ Order /\ loop.inhibited
    /\ loop' = [loop EXCEPT !.inhibited = FALSE]
    /\ UNCHANGED <<plant, wire, link, source, wall, core, rc, run, silence, history>>

(* An OtaBegin the gate lets through opens a session.                      *)
OnOtaBegin ==
    /\ Order /\ ~core.armed /\ ~loop.session
    /\ loop' = [loop EXCEPT !.session = TRUE]
    /\ UNCHANGED <<plant, wire, link, source, wall, core, rc, run, silence, history>>

(* A finish, an abort or, in runUpdateMode(), the timeout ends it.         *)
SessionEnds ==
    /\ loop.session
    /\ loop' = [loop EXCEPT !.session = FALSE, !.parked = FALSE]
    /\ UNCHANGED <<plant, wire, link, source, wall, core, rc, run, silence, history, events>>

-----------------------------------------------------------------------------
SimNext ==
    \/ \E p \in Plants : \/ PlantTick(p) \/ PlantResend(p) \/ PlantGivesUp(p)
                         \/ PlantReset(p)
                         \/ \E lockstep \in BOOLEAN : PlantRestart(p, lockstep)
    \/ \E m \in wire : Lose(m) \/ OnSensor(m)
    \/ TakeForeign \/ PlantLost
    \/ \E arrives \in BOOLEAN : \/ TakeRepeated(arrives)
                                \/ \E trial \in BOOLEAN : SensorFrame(arrives, trial)
    \/ \E trial \in BOOLEAN : ClockFrame(trial) \/ OnReboot(trial)
    \/ \E arm \in BOOLEAN : OnRc(arm)
    \/ \E window \in 1 .. HashWindow : OnScenario(window)
    \/ OnOtaStatus \/ OnOtaBegin \/ SessionEnds

SimSpec == SimInit /\ [][SimNext]_simVars

-----------------------------------------------------------------------------
(* The frames folded into one run are samples of one world of one start of *)
(* one plant, in time order, whatever plants appear, fall silent, restart  *)
(* or reset their world in between (sim_run_tracker.hpp: everything        *)
(* measured from here on belongs to it).  A plant that restarts while the  *)
(* loop is parked by an update session is the one case it does not cover.  *)
RunIsOne == ~history.unheard => ~run.mixed

InOrder == ~history.unheard /\ ~history.overtaken

(* A sealed run over lockstep frames that is not marked degraded has no    *)
(* hole: every tick of the plant between its first and its last hashed     *)
(* frame was stepped.  It takes a plant in lockstep, which counts what it  *)
(* gives up on, and a LAN that keeps the order: a resent tick that arrives *)
(* after a later one opens a run of its own.                               *)
CleanRunIsWhole ==
    run.sealed /\ ~run.degraded /\ ~run.free /\ InOrder => ~run.hole

(* "A number produced over a degraded link is never mistaken for a         *)
(* verdict" (sim_run_tracker.hpp:19), whatever the plant's mode.           *)
VerdictIsWhole == run.sealed /\ ~run.degraded /\ ~history.unheard => ~run.hole

(* The flight core never sees the same instant twice nor time that goes    *)
(* back without having been restarted in between, across resends, late     *)
(* samples and every change of driver (sensor_source_sim.hpp).             *)
CoreTimeAdvances == ~core.back

(* Silence on the RC uplink longer than RC_TIMEOUT_US reverts to the safe  *)
(* state: a frame stepped on the pilot's sticks has heard the pilot within *)
(* the last RcTimeout frames (rc_tracker.hpp).                             *)
SilenceMeansKill == core.heard <= RcTimeout + 1

-----------------------------------------------------------------------------
(* The inductive invariant.                                                *)
Samples == [src : Plants, boot : Nat, ts : Nat \ {0}, world : Nat, lost : Nat]

SimTypeOK ==
    /\ plant \in [Plants -> [boot : Nat, ts : Nat, world : Nat, lost : Nat, waiting : BOOLEAN,
                         lockstep : BOOLEAN]]
    /\ \A p \in Plants : plant[p].waiting => plant[p].ts > 0
    /\ wire \subseteq Samples
    /\ link \in [plant : Plants \cup {Nobody}, pending : Samples \cup {NoSample}, reply : Nat]
    /\ source \in [seen : BOOLEAN, ts : Nat, world : Nat, changed : BOOLEAN]
    /\ wall \in Nat
    /\ loop \in [lastUs : Nat, resetSeen : BOOLEAN, lastReset : Nat, parked : BOOLEAN,
                 session : BOOLEAN, reboot : BOOLEAN, inhibited : BOOLEAN, window : Nat]
    /\ run \in [open : BOOLEAN, start : Nat, window : Nat,
                world : (Plants \cup {Nobody}) \X Nat \X Nat, last : Nat, frames : Nat,
                mixed : BOOLEAN, hole : BOOLEAN, sealed : BOOLEAN, degraded : BOOLEAN,
                linkSeen : BOOLEAN, lost : Nat, free : BOOLEAN]
    /\ history \in [unheard : BOOLEAN, overtaken : BOOLEAN]

(* The core has stepped nothing newer than its time base.                  *)
CoreFollows ==
    /\ core.last \in Nat /\ core.back = FALSE
    /\ link.plant # Nobody => /\ source.seen /\ ~source.changed
                              /\ core.last <= source.ts /\ run.last <= source.ts
    /\ link.plant = Nobody /\ ~source.changed => core.last <= wall

(* What is under way is of the plant's present start.                      *)
IsOf(m) == /\ m.boot = plant[m.src].boot
           /\ m.ts <= plant[m.src].ts /\ m.lost <= plant[m.src].lost

Present == ~history.unheard /\ link.pending # NoSample
SamplesArePresent == (\A m \in wire : IsOf(m)) /\ (Present => IsOf(link.pending))

RunIsOfPlant ==
    ~history.unheard =>
        /\ ~run.mixed
        /\ link.plant # Nobody /\ run.frames > 0 =>
              run.world = <<link.plant, plant[link.plant].boot, loop.lastReset>>

(* A lockstep plant left the tick after ts unanswered, or has not left it:  *)
(* what it sends past that tick says that one more was lost.               *)
Behind(ts, lost, p) ==
    plant[p].lockstep =>
    /\ ts <= plant[p].ts /\ lost <= plant[p].lost
    /\ plant[p].ts > ts + 1 \/ (plant[p].ts = ts + 1 /\ ~plant[p].waiting) => plant[p].lost > lost
    /\ \A m \in wire : m.src = p /\ m.ts > ts + 1 => m.lost > lost
    /\ link.pending # NoSample /\ link.pending.src = p /\ link.pending.ts > ts + 1 =>
          link.pending.lost > lost

(* Nothing under way is older than the sample the source took last.        *)
SourceIsAhead ==
    InOrder /\ link.plant # Nobody =>
        /\ source.ts <= plant[link.plant].ts
        /\ \A m \in wire : m.src = link.plant => m.ts >= source.ts
        /\ link.pending # NoSample /\ link.pending.src = link.plant => link.pending.ts >= source.ts

LossIsNoted ==
    InOrder =>
        /\ run.hole /\ ~run.free => run.degraded
        /\ \A m \in wire : Behind(m.ts, m.lost, m.src)
        /\ link.pending # NoSample =>
              /\ Behind(link.pending.ts, link.pending.lost, link.pending.src)
              /\ \A m \in wire : m.src = link.pending.src => m.ts >= link.pending.ts
        /\ link.plant # Nobody => link.reply <= source.ts
        /\ link.plant # Nobody /\ run.frames > 0 /\ ~run.sealed =>
              /\ run.linkSeen /\ run.open /\ run.start <= run.last /\ link.reply <= run.last
              /\ Behind(run.last, run.lost, link.plant)

SimInv ==
    /\ SimTypeOK /\ CoreFollows /\ SamplesArePresent /\ RunIsOfPlant
    /\ SourceIsAhead /\ LossIsNoted
=============================================================================
