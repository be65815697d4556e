# TLA+ verification of the mark4 drone software

This directory holds TLA+ models of the mark4 drone software, the TLC
configurations that check them on small instances, and TLAPS proofs of their
main properties for every value of the constants. `PROJECT.json` lists the
components, the runs, the mutants each property is shown to catch, the source
lines behind every definition, the findings, the hazards and the theorems.

Paths below are relative to `src/software/components/` unless they start with
`src/`.

## 1. Inventory

| Component | State it keeps | Operations | Correct when |
|---|---|---|---|
| Boot metadata log (`ota/.../meta_log.hpp`, flash driver) | two flash areas of record slots | read, append (erase, program) | a read returns the old or the new state whatever is cut |
| OTA updater (`ota/.../updater.hpp`), firmware store | session, slot contents, slot states | begin, chunk, finish, abort, revert, status, tick | the metadata vouch only for whole images; a slot to boot always remains |
| Bootloader (`src/software/drone_boot`, `boot_policy.hpp`) | RAM copy of the metadata | decide, record, validate, jump, fall back | one trial per image, always ends in a firmware |
| OTA hub session (`ota/src/consumer.cpp`) | phase, window, deadlines, retries | start, abort, revert, tick, onEnvelope | never ahead of the board, ends, verdicts are true |
| Flight core (`flight-core/src/flight_core.cpp`), RC tracker | phase, latches, timers, last motors | step, onRc, graft | motors follow phase, pilot and sensors |
| Throw detector (`throw_detector.cpp`) | state, streak instants, candidate | update, reset | confirms throws, and only throws |
| Firmware main loop (`src/software/drone_firmware/firmware_app.cpp`) | arming interlock, update mode | run, runUpdateMode | an image on trial does not arm; no update while armed |
| Estimators, controllers, mixer | floating-point filters | update | numerical, not modelled |
| Messenger (`messaging`) | pending requests, handlers | send, request, acknowledge, tick, node up and down | a completion is backed by a delivery, nothing waits on a node that left |
| Transport (`transport/src/transport.cpp`) | node table, boot ids, routes, sequence numbers | send, poll, onFrame, relay, expire | presence follows the nodes, routes lead, no payload twice |
| Serial line (`serial_framing.hpp`, `uart_link.cpp`, `uart1.cpp`) | transmit and receive rings, parser | send, interrupt, DMA, feed | what is delivered was sent, the ring always drains |
| Discovery (`discovery`) | directory of nodes | onMessage, onNodeUp/Down, ask | every live node ends described, mute or given up on |
| Log, telemetry, tuning, status, report services | subscriber tables, table pulls, configuration | subscribe, page, write, publish | a complete table is the node's, a stream believed in is sent |
| STM32 sensors (`i2c_bus.cpp`, `mpu6050.cpp`, `bmp581.cpp`, `sensor_source_stm32.cpp`) | peripheral registers, last pressure and its age | init, burst reads, waitFrame | a burst is the sensor's, a frame is of now |
| Simulation platform (`platform/src/sim`, `src/software/drone_sim`), with the control of its plants (`src/sim-godot/scripts`) | the plant's tick and lockstep, run tracker | waitFrame, push, restart, exchange | one world per run, a clean run has no hole |
| Hub (`src/software/hub`) | WebSocket clients, marks, subscriptions, tables pulled, seats, update target | connection threads, poll loop, gateway handlers | nothing of a client outlives it, every client sees what the hub holds |
| ESP32 bridge (`src/esp32-bridge`) | otadata, its own updater | the updater's handlers, restart | a whole image to boot at every moment |
| Mobile application (`src/software/mobile`) | pilot state, directory | timers, gamepad events | not modelled |

**How they interact.** Everything on the board runs in one thread but for two
interrupts (the sensor timer and the serial transmitter): the main loop waits
for a sensor frame, polls the messenger (which dispatches every message to its
handler), grafts the pilot's state on the frame and steps the flight core. The
other concurrency is with the outside: the link (loses, delays, duplicates
and, across the bridge, reorders), power (a cut between any two flash words),
the I2C peripheral (which clocks bytes while the program waits), the sensors
and the pilot. The hub has one poll loop and a thread per WebSocket
connection; they share the bridge's queues. The services run over the
messenger, the messenger over the transport, the transport over links. The hub
talks to the updater with plain sends; the bootloader and the firmware share
the boot metadata in flash and nothing else. An accepted update parks the
flight loop.

**What is hard here.** Power cuts between the flash operations of one update;
a hub whose retries race the late answers of the first try; a trial whose
outcome the hub must infer; requests that are repeated, answered after they
were given up on or addressed to a node that has rebooted; pages of a table
that belong to an earlier walk; clients that close between two drains of the
hub's loop; plants that restart under a running simulation; frames of different kinds in any order against
latches that must not be cleared and runs that must be counted; state that
survives a mission (latches, counters, a takeover) and must not leak into the
next one. `PROJECT.json` lists these under "hazards", at the line where each
bites.

## 2. Modules

| Module | What it is |
|---|---|
| `MetaRegister` | abstract: the boot metadata as an atomic register |
| `OtaMetaLog` | the two-area record log over flash; `RegisterSpec`: it implements `MetaRegister` |
| `OtaMetaLog_proof` | its inductive invariant and the refinement |
| `OtaBoard` | updater, firmware store, bootloader, arming interlock, over the register |
| `OtaBoard_proof` | its inductive invariants, of the metadata and of the trial, and what follows; the session's, on top |
| `OtaSession` | the hub's session composed with `OtaBoard` over a lossy link |
| `ThrowPort` | abstract: what the flight core relies on from the detector |
| `ThrowDetector` | the detector, and the signature defined on the frames alone |
| `ThrowDetector_proof` | the detector takes only the port's steps, invents no throw and misses no clean one |
| `FlightCore` | the flight loop: RC tracker, step(), phase machine, over the port |
| `FlightCore_proof` | its inductive invariant, what follows from it and two action properties |
| `Messenger` | requests, acknowledgements, retries and presence of every node, with discovery on top |
| `Messenger_proof` | their inductive invariant, its consequences and an action property |
| `Transport` | frames, sequence windows, boot ids, routes, relaying, keepalives and expiry |
| `ServiceWire` | what the services share: the wire, paged tables, subscriber tables |
| `LogService`, `TelemetryService`, `TuningService`, `StatusService`, `ReportService` | consumer and provider of each service |
| `Services` | the composition of the five over one wire, and their properties |
| `Services_proof` | their inductive invariant, service by service, and the four properties |
| `SimDrone` | the simulated flight process under competing plants, in lockstep or free-running |
| `BridgeStore` | the relay's updater over the otadata of its bootloader |
| `I2cBus` | the polled I2C master against its peripheral, register access by register access |
| `SensorSource` | bring-up, the timer, and the frames made of two sensors |
| `SerialLine` | framing, transmit ring and interrupt, wire, DMA ring, parser |
| `Platform_proof` | the proofs about `SimDrone`, `BridgeStore`, `SensorSource`, `I2cBus` and `SerialLine` |
| `Hub` | WebSocket threads, the poll loop and the gateways |
| `Network_proof` | the inductive invariants of `Hub` and `Transport` and what follows from them |
| `MC*` | instances for TLC |

### Correspondence with the code

* **OtaMetaLog.** A cell of an area is blank, torn or a valid record with its
  counter. `Append` is the scan and the choice of the cell; `EraseStep` and
  `ProgramStep` are the flash driver's steps, each of which may fail or be cut
  (`PowerCut`). `program()` may report a failure after the last word landed,
  so `AppendFails` is possible with the record in place.
* **OtaBoard.** One action per updater handler, split where a reset can fall
  between two writes: `BeginErase` writes the metadata record, `EraseStep` and
  `EraseEnds` the slot. A chunk is a unit of the image; an image is a name
  with five attributes (accepted header, fits, validates, validates by its
  header alone, healthy). The bootloader is `ChooseSlot` (decide and record),
  `JumpToChosen` and `FallBack`; an image that was never packaged
  (`OTA_IMAGE_UNSTAMPED`) passes its validation as soon as its first chunk is
  there. `armInhibited` is the interlock's cached value. `Reset` is the reboot
  command, a crash of the image or a power cut. A slot whose unpackaged header
  is followed by the bytes of another image is taken for one that does not
  validate (`Mixed`).
* **OtaSession.** `start`, `abortSession`, `revert`, each branch of `tick()`
  and of `onStatus`, `onAck`, `onChunkAck` is an action of its own. Deadlines
  may expire at any time after they are set; retry counts are kept. Requests
  travel in order through a bounded queue that may lose any of them. Of the
  replies two are in flight at most: the last one (`reply`, written by the
  board's `Send`) and one it has overtaken (`late`). `Listening` tells the
  board alone, where nobody reads `reply`, to discard it.
* **FlightCore.** A pass of the loop is `WaitFrame` (time passes, the link is
  polled) and then one of the actions `step()` distinguishes: `KilledFrame`,
  `RejectedFrame` (NaN or stale), `BlindFrame` (stepWithoutImu) and
  `MeasuredFrame` (advancePhase and runControl). Frame contents are the
  classes the comparisons tell apart. Instants are ages in ticks. Of the
  control loops only "some motor turns" is kept, because stepWithoutImu()
  branches on it. The bench-only setParam() and the simulator's reset() are
  left out.
* **ThrowDetector.** `Tick` ages the stored instants, `Update` is update();
  velocity is reduced to the climb time it predicts, 0 below the minimum.
  `signal` is a history variable: the frames since the last flight.

* **Messenger.** One action per call: `Request`, `Resend`, `GiveUp`,
  `ReceiveAck`, `NodeUp`, `NodeDown`, `NodeRestarted`, and each message the
  discovery service handles. A retry timer may fire at any time; the
  acknowledgement is sent in the step that handles the request. `pending` is
  the table of PendingRequest; a full one refuses.
* **Transport.** A call of poll() handles every waiting frame (`OnFrame`,
  `DropFrame`) and then expires and announces (`EndPoll`, `Keepalive`). Time
  is counted in keepalive periods. The links keep order; frames are lost and
  doubled, nodes crash and boot, within a budget.
* **Services.** A consumer and a provider each; a request is delivered, or
  delivered and left on the wire to be delivered again, or given up on with
  its message still in flight or not. A page carries the cursor it was asked
  for, also one past the end of the table. The five services share no state but the
  presence of the node, so a behaviour runs one of them (`service`).
* **SimDrone.** One action per branch of the sensor source, the plant link and
  the main loop. Of the plants (`drone.gd`, `sim_link.gd`) the control is
  modelled and the physics is not: one sample per tick; in lockstep it is
  resent until it is answered or given up on, which counts a lost tick; free
  running, the default, nothing is awaited and a sample the LAN loses is
  counted nowhere. A reset or a restart may come between any two ticks. Ticks
  count from 1; `reset_count`, which wraps at 256, does not wrap here.
* **BridgeStore.** The updater's handlers with the store's translation of the
  metadata to otadata; otadata and the bootloader are external and modelled
  from the calls.
* **I2cBus.** Between two steps of the driver the peripheral moves as far as
  it can. A step is one access to a register, except where `receive()` and the
  abort of a transfer make two to four in a row without a wait between them
  (`Receive`, `ReceiveTwo`, `ReceiveHeld`, `Abort`): there the peripheral does
  not move in between. Every wait may run out. The
  peripheral's rules (when RXNE and BTF are set, when a byte is acknowledged,
  what a STOP ends) are external: the reference manual's, as the comments of
  the driver recount them.
* **SensorSource.** A transfer takes any time its timeouts allow and succeeds
  or fails; the timer ticks meanwhile, also between the test and the wait.
* **SerialLine.** Bytes, with a checksum that names what it was computed over:
  an ideal CRC, so that what is shown is what framing and resynchronisation
  add, never a collision.
* **Hub.** Connection threads take any step between two steps of the loop; the
  loop's drains are separate steps in the code's order. A node has two kinds
  of table, numbered by the boot they were pulled from and pulled page by
  page: its measures, which a client that connects is sent only whole, and its
  log modules, which it is sent as far as they are in and may have pulled
  again (`ApplyRefresh`); the tuning parameters are served as the modules are.
  A walk that was abandoned is one whose next page does not come. The stream
  of a node and its transport reports are subscriptions: a request that the
  messenger refuses leaves nothing asked (`Ask`), one that is given up on may
  still be taken and answered (`SubscriptionGivenUp`), and the marks move
  whatever became of it. Of the requests in flight with the same value one is
  kept. The node table's lines about the hub itself, the telemetry
  configuration, the values of parameters, log lines and the status service
  carry no state of their own here and are left out.

Histories (`proven`, `trials`, `fallbackLost`, `lost`, `unread` in OtaBoard; `thrown`,
`recentred` in FlightCore; `signal` in ThrowDetector; `owesRearm` in
MCFlightRearm; `epoch` and `abandoned` in Messenger; `repeated` in Transport;
`fresh`, `reported`, `theirs` and `cutOff` in the services; `mixed`, `hole`,
`back`, `heard`, `free` and `history` in SimDrone; `told`, `piloted` and
`late` in Hub) are not read by any guard of the models.

## 3. Runs

| Run | Checks | Bounds |
|---|---|---|
| `metalog` | `LogInv`, `RegisterSpec` | 2 areas of 2 slots, 5 records: both areas fill and are recycled |
| `board` | `BoardInv`, `NeverBricked`, `RunsTrusted`, `OneTrial`, `InterlockHolds`, `BootCompletes` | 7 images (one per way to fail and one unpackaged), 2 chunks, 3 resets, 1 store failure |
| `session` | `AckedIsWritten`, `ConfirmedIsTrue`, `SessionEnds` | 2 chunks in a window of 2, queues of 2, 2 resets, 1 retry, one order of the operator |
| `throw` | `ThrowIsCaught`, `ThrowIsReal`, `ImplementsPort` | 5 frames, gaps of 1 or 2 ticks, thresholds of 2 |
| `flight` | `FlightInv`, `PilotPresent`, `ThrowIsNeeded`, `TakeoverIsEarned`, `StartsAtRest` | ages up to 2, timeouts of 1, a blind run of 2, 22 pilot messages, 19 kinds of measurement |
| `messenger` | `MessengerInv`, `DirectoryIsTold`, `AckMeansDelivered`, `EveryoneSettles` | a hub and 2 peers, 1 pending place each, 2 sends, 2 messages in flight, 4 presence events |
| `transport` | `RoutesLead`, `DeliveredOnce`, `PresenceConverges` | hub, relay and drone on 2 links, 2 disturbances, sequence numbers modulo 3 |
| `services` | `TablesAreWhole`, `NothingIsForgotten`, `SubscribedIsServed`, `EveryLineCounted` | tables of 1 or 2 items in pages of 1; 3 calls and 1 fault of telemetry, log, tuning and reports, 5 and 3 of the status; room for 1 subscriber and two that ask |
| `platform` | `RunIsOne`, `CleanRunIsWhole`, `CoreTimeAdvances`, `BootIsWhole`, `BurstIsWhole`, `FrameIsOfNow`, `LineIsWhole` | 2 plants, of which the first may be free-running, 2 samples in flight and 2 events; 4 firmwares, 3 updates, 3 resets; 3 transfers of 1, 2, 3 or 5 bytes; 8 ticks; rings of 16 and 8 bytes, 1 line fault |
| `hub` | `ViewsAgree`, `NothingOutlivesClient`, `OnePilot` | 2 clients, 2 nodes, tables of 2 pages, 3 turns of the loop, a queue of 2, one of six groups of commands and tables at a time |

Why these are enough: in the log, three appends fill an area and the fourth
recycles the other; five records see every area erased with the other live.
On the board a begin, its erase, its trial and the fallback take three resets.
A window of two chunks is the smallest in which one is acknowledged and the
other lost. The shortest throw takes four frames and the fifth breaks a streak.
In the flight run each timer has a value below, at and above its threshold, and
a frame has at most one thing out of the ordinary (the proof has no such
limit). A messenger with one place in its table is full whenever it waits, and
two sends are the first and the last; four presence events let a node leave,
come back and reboot while its first request is still answered. Two
disturbances let the transport lose the frame that would have repaired the
other, and sequence numbers wrap. A walk of two pages is the shortest that can
be mixed with another; a subscriber table of one is full for the second. In the
platform run the programs are independent of each other and each behaviour runs
one (`program`); transfers of 1, 2, 3 and more bytes are the four sequences of
the driver, and a second transfer meets what the first left behind; two
samples in flight are the fewest of which one overtakes the other; the receive ring is shorter than two frames, so the DMA laps it. Two clients and
three turns are enough for one to close around each drain while the other
stays; two pages are the fewest of which a client can hold a part, and six
events let a node come, give both pages, have them pulled again, leave and come
back. In the transport's run the hub and the drone send and the drone may
restart: what it sends after that is numbered from the beginning again, against
windows that knew its keepalives; a payload on either side of the restart takes
a third event, which the proof has and the run does not. Deadlock is not checked in the OTA runs: a board whose image does not
reach its main loop, with the bound on resets used up, really stops, and a
hub that is idle waits for its operator. The runs of the messenger, the
transport, the services, the platforms and the hub end when their budgets of
events are spent. The flight and detector runs check it.

Two runs show a disagreement between the code and what the repository says of
it ("findings" quotes the lines); section 4 lists the others.

* `unproven_arms`: a begin served during a trial erases the fallback; after the
  next reset the unproven image boots as a BAD slot, which the interlock does
  not hold back, and it arms.
* `refusal`: a board refuses a begin under session 0, and the hub drops
  acknowledgements of other sessions, so a refusal is never heard.

### Fairness

`BootCompletes` assumes weak fairness of the bootloader's steps: it is
straight-line code. `SessionEnds` assumes weak fairness of the hub's tick,
which its main loop calls unconditionally. `EveryoneSettles` assumes that a
pending request is resent or given up on when its period is over and that the
directory asks a node it has not described: both are loops over their tables in
a tick the main loop calls. `PresenceConverges` assumes that time passes and
that every node that runs polls. Nothing is assumed of the link, the board, the
operator, the peers' answers or power; TESTING has no deadline and is excepted
from `SessionEnds`.

## 4. Further disagreements

These configurations are not runs of the project; each states what a comment,
a test or a document says, and TLC shows a behaviour of the code that does
otherwise. Where a configuration holds more than one property, keep one at a
time (and, in `MCServicesDoubts.cfg`, its service alone in `Running`), or give
TLC `-continue`.

| Configuration | Property | What happens |
|---|---|---|
| `MCOtaVerdicts.cfg` (MCOtaSession) | `RolledBackIsTrue` | the reboot was lost: the hub reports ROLLED_BACK while the image is still staged (`ota/.../consumer.hpp:57` "the trial boot failed, the old firmware runs") |
| | `ConfirmedIsTrue` | with a boot record that could not be written the hub reports CONFIRMED for an image that has not confirmed itself |
| `MCOtaBoard.cfg` (MCOtaBoard), with this in place of its properties | `~fallbackLost => ArmedIsProven` | two more ways to an unproven image that arms, each of one store failure: the metadata cannot be read by the interlock, which then leaves the board free to arm (`firmware_app.cpp:166`); the boot record cannot be written, and the slot runs as STAGED, which is not on trial (`boot_app.cpp:134`) |
| `MCOtaArming.cfg` (MCOtaSession), with this in place of its invariant | `BadSlotNeverChosen` | a begin served during a trial overwrites the active slot, which is then BAD and chosen (`test_ota_boot_policy.cpp:90` "a bad slot is never chosen again, however the metadata got there") |
| `MCFlightDoubts.cfg` (MCFlightRearm) | `DisarmEndsFlight` | releasing the arm switch while the IMU is silent and the motors turn changes nothing until the IMU returns or the blind run ends (`flight_core.cpp:138`) |
| | `RearmIsDeliberate` | releasing the kill with the arm switch on leaves IDLE at once (`flight_core.cpp:45` "flying again takes a deliberate rearm") |
| `MCServicesDoubts.cfg` (MCServices) | `ReportIsOne` | pages of two reports join into one: they carry a cursor and no report number |
| | `HoldsWhatFlies` | the acknowledgement of a write that arrives during a walk is dropped, and the page read before keeps the old value |
| | `FirstSampleIsPrompt` | a configuration that arrives after the last frame was sampled is stamped with that frame, and its first sample waits a whole period |
| `MCHubDoubts.cfg` (MCHub) | `StreamHasAudience` | the hub drains its messages early in a turn and closes late in it, so a message of a client that is gone may set a mark after its close was applied (`hub_app.cpp:574`), and the node streams on (`gateway_telemetry.cpp:114` "A tab that went away must not leave a node streaming to nobody.") |
| | `StreamIsHeld` | the gateway does not look at whether its subscribe was taken, and nothing asks again: a stream that is wanted may not run, and one nobody wants may (`gateway_telemetry.cpp:140` "The stream is held while at least one client wants it, and given back when the last one clears.") |
| | `ReportsAreGivenBack` | reports are taken back only from the nodes that have said that they report (`transport/consumer.hpp:124`); one whose answer is on its way reports for good (`gateway_transport.cpp:78` "A tab that went away must not leave every node reporting to nobody.") |
| | `TablesAreToldWhole` | a client that connects is sent the tables as far as they were pulled (`gateway_log.cpp:104`, `gateway_tuning.cpp:58`), where the hub's README promises them "whole to a client that connects" (`hub/README.md:124`) |
| | `ViewsAreWatched` | a report that arrives after the last watcher left opens a window that nothing forgets (`gateway_transport.hpp:98`) |
| | `BoardIsTarget` | a status of any node is taken for the target's: the reader ignores its sender (`hub_app.cpp:296`) |
| `MCPlatformDoubts.cfg` (MCPlatform) | `SilenceMeansKill` | the pilot's last message is stamped on the frames' clock: when a plant restarts that clock, a silent pilot's stamp is recent again once the new clock reaches it (`rc_tracker.hpp:26`) |
| | `StagedBootsNext` | a slot staged twice in a row is acknowledged and not set to boot (`firmware_store_esp32.cpp:334`) |
| | `VerdictIsWhole` | a run with a hole is sealed as a clean one (`sim_run_tracker.hpp:20` "a number produced over a degraded link is never mistaken for a verdict"). A free-running plant, which is the default (`sim_link.gd:66`), counts no sample the LAN loses (`sim_link.gd:151`); in lockstep, a resent tick that arrives after a later one opens a run of its own |

Others were met while modelling and are part of the models without a property:
a plant that restarts while the simulated loop is parked by an update is not
noticed (the exception `history.unheard` of `RunIsOne`); a frame dropped for a begin
makes the resent tick get the reply to the tick before; a begin served by the
relay's unconfirmed trial erases the only proven image, and handing the boot
back turns a confirmed image into a one-shot trial; the hub's inbound queue
drops the newest message, where `ws_bridge.hpp:49` says the oldest;
`uart1.cpp:61` says that a reader a lap behind is counted, and only an overrun
of the data register is.

## 5. Proofs

Each proof is by an inductive invariant, which TLC agreed with on the run's
instance before it was proved.

* **OtaMetaLog.** `LogInv`: counters of valid records are distinct; the newest
  record is outside the area being erased and the cell being programmed; the
  record being written is newer than all others. The second part is what a
  power cut needs, the third is what keeps the first when the last word lands.
  `LogIsRegister` then maps a step to a register write exactly when the last
  word is programmed, and every other step to a stutter.
* **OtaBoard.** `BoardInv` joins: metadata vouch only for whole images
  (`MetaTellsTruth`), the running slot validates, the record the bootloader
  may still write is truthful, and a session's chunk count is the slot's. The
  board is not bricked because the running slot is never the target of a
  begin and validates; that needs the third part across a bootloader that
  rewrites the metadata from its RAM copy, also when that copy is the default
  of a failed read. `TrialInv` adds what the trial of an image needs: the VALID
  slots are the proven ones and the active slot is one of them
  (`RecordIsTrue`), a slot that is being rewritten is not, the slot the
  bootloader jumps to is the fallback or has its trial on record
  (`JumpIsRecorded`), and a staged image has been booted only as often as its
  record was lost (`TrialIsSpent`). `RunsTrusted` and `OneTrial` follow from
  it, and hold until a begin erases the fallback. `InterlockHolds` does not
  depend on that: the interlock says what the metadata say of the running
  slot, unless they could not be read in this boot. It is weaker than what the
  interlock is for, which does not hold (`unproven_arms`). Images, chunk count, window,
  resets and failures are arbitrary; the only assumption on images is that the
  factory image is good.
* **OtaSession.** `SessionInv` stands on `BoardInv`. `AckedIsWritten` compares
  the ground's count with the session the board has open, so it would fail if
  the board could close a session and open a second one with the same nonce,
  empty. `NonceIsOnce` excludes that: a nonce is in one begin at most, on its
  way or being served, and then the board has not opened it yet, and neither
  a reply nor the ground says it has. Since nonces only grow, the next one is
  free. `Backed` says that an acknowledgement in flight of the open session,
  also one that newer replies have overtaken, claims no more than was written.
  A step of the ground is first reduced to what it does to the link and the
  nonce (`HubMoves`), a step of the board to what it does to its session
  (`BoardMoves`), and the invariant is carried over once for each. The
  model's nonces count the starts: they stand for random draws
  (`drawSession()`) that do not repeat. Windows, queues, retries, losses and
  resets are arbitrary.
* **FlightCore.** `FlightInv` joins the five properties with
  `MissionConsistent`: in ARMED and BALLISTIC no throw is unhandled, a
  BALLISTIC phase has a ballistic detector, an armed takeover was earned in
  this hover. Without the first, a throw counted during a kill would satisfy
  the guard that leaves ARMED. `PilotPresent`, `ThrowIsNeeded` and
  `TakeoverIsEarned` are theorems of their own. `StartsAtRest` and
  `LatchesHold` follow step by step; that a blind run cannot move CUTOFF to
  FAULT rests on the motors being stopped there. Thresholds, message sets and
  measurement sets are arbitrary.
* **ThrowDetector.** `DetectorIsPort`: every detector step is a step of
  `ThrowPort`, so FlightCore's results hold with the real detector in place.
  `SignalInv` gives every age of the detector the frames it is the age of: in
  THRUST a gesture is in the signal (`GestureIsSeen`: first and last thrust
  frame, no pause of the timeout, and the frame the fall in progress began
  with), a confirmed fall is never left waiting (`ConfirmIsPrompt`), and a
  signal that is a clean throw so far is being followed from its first thrust
  frame, or its candidate was refused for a short thrust or a slow release
  (`CleanIsFollowed`). The first gives `DetectorThrowIsReal`, the other two
  `DetectorThrowIsCaught`, for streams of any length. Ages saturate at `AgeMax`,
  so the proof needs the thresholds at most that, and `FreeFallConfirm` at least
  1 (50 ms in the code): the frame that releases never confirms by itself.
* **Messenger.** `NetworkInv`: pending requests of a node have ids its counter
  has given out, no two alike, to nodes it knows; a message of the current
  boot of its owner bears such an id and, when that request is pending, is the
  request to that node, arrived if the message acknowledges it (`NetIsSound`);
  a node that was asked and has not answered is somebody's pending request
  that has not arrived, or gave up (`AnswerIsAwaited`); and `DirectoryIsTold`.
  Ids of one boot are distinct because the counter only grows: that is what
  makes an acknowledgement mean what it says (`AckMeansDelivered`, an action
  property). `PendingIsWatched` is not inductive: it forgets whether the
  message it waits for has come; `AnswerIsAwaited` is its strengthening. That the first free place of the
  table exists and is the least is a lemma of its own, by the library's
  theorem on minima. Nodes, table size, retries and budgets are arbitrary.
* **Services.** `ServicesInv`: about the wire, one conjunct (`WireIsSound`),
  and about the service that runs, what its consumer has pulled, asked and
  been told. The argument is made once for a walk through a paged table and
  once for a subscription, as lemmas about the operators of `ServiceWire`,
  and each service then instantiates them. A page on the wire is a page of
  the build that runs, the walk has read the table up to its cursor, and its
  request asks for the page the cursor wants (`WalkInv`): so a walk that ends
  has the whole table, and one that has not ended is still to be answered. A
  hub that holds itself subscribed is in the node's table (`ServedInv`). The
  numbers of items, page size, subscribers and faults are arbitrary.
* **Hub.** `HubInv`: a client queued as closed is gone and one queued as
  connected has been open (`QueuesAreTrue`); only a node that is up is
  followed, and the reports are wanted exactly while somebody watches
  (`MarksAreLive`); an open client was told nothing of an earlier boot, also
  before its snapshot, and no part of a measure table (`NothingStaleIsTold`),
  from which `ViewsAgree` follows through every drain; what is left of a client
  when its close is drained is nothing, unless its message is served after that
  (`NothingOutlivesClient`); and the seat of a node is that of the last input
  forwarded to it, unless its client is late or gone (`SeatIsLastInput`).
  `OnePilot`, an action property, follows step by step. Clients, nodes, pages,
  queue length and pilot window are arbitrary, and so is which requests are
  refused, answered or given up on. That a stream is held exactly for its
  marks, and a table told only whole, is no theorem: the code does otherwise
  (`StreamIsHeld`, `TablesAreToldWhole` in section 4).
* **Transport.** `RoutesInv`: a frame that waits on a link was sent by another
  node on it, by its source itself if that is on the link, and its source is
  beyond the link; every known entry of a table points the same way. `Beyond` is
  the least set that holds the link's other nodes and is closed under the other
  links, so a relay, which never sends back onto the link a frame came from,
  keeps a frame going away from its source; `RoutesLead` follows. `CopiesInv`
  says where the copies of a payload can be. In a queue they are next to each
  other (`CopiesAreTogether`). A payload that waits at a node is nowhere beyond
  the node's other links, except for the copies the node is relaying right now,
  which are the last of their queues (`NothingIsAhead`): so a repeat made by the
  medium is appended to its original and never behind another frame. A copy of
  what was handed over is first in its queue, and its number is the last one
  tracked of its stream (`CopiesAreKnown`); another sender in between would not
  matter, another frame of this one would. A step that sends nothing, a frame of
  the node's own and a frame taken are one lemma each (`QuietCopies`,
  `FreshKeeps`, `OnFrameCopies`). `DeliveredOnce` follows. Nodes, links, table
  size, hop limit, sequence numbers (also a single one) and disturbances are
  arbitrary; the links form no loop (`NoLoop`), as the nodes are wired, and keep
  order. A ring of relays, which the duplicate check also has to stop
  (`transport.cpp:392`), is outside these theorems.
* **SensorSource.** `SourceInv`: the stamp is of the tick that was taken, the
  health record dates the held pressure, and while no tick was wasted the
  pressure is as old as the frames counted since its transfer (`SolutionAges`,
  which turns the driver's count into an age).
  The assumption `FreshCovers` is a relation between two constants of the
  code: the freshness window is no shorter than the read period.
* **BridgeStore.** `BridgeInv`: the running slot is whole, an upload that is
  open or erasing is of the other slot, and while it is incomplete the boot
  partition is the running one. The lemmas say what `writeMeta()` can do to
  the boot partition: nothing, or hand it to a whole slot.
* **SimDrone.** `SimInv`: the core has stepped nothing newer than its time
  base (`CoreFollows`), samples in flight are of the present start of their
  plant and no newer than it (`SamplesArePresent`), a run is of one world
  (`RunIsOfPlant`), nothing in flight is older than the sample the source took
  last (`SourceIsAhead`), and what a lockstep plant sends past the tick after
  the last one of the run counts one more as lost, so a hole is marked
  (`LossIsNoted`). Nothing of the kind holds of a plant that runs free, which
  counts no loss: `CleanRunIsWhole` is about runs over lockstep samples, on a
  LAN that keeps their order. `VerdictIsWhole`, the statement without the two,
  is refuted by both (section 4).
  Plants, ticks, samples in flight and events are arbitrary.
* **I2cBus.** `I2cInv`: at each register access of `receive()`, how many bytes
  are stored, held in DR and in the shift register, and that the sensor has
  been, or is about to be, refused the last one. The control bits fit the
  length of the transfer; a start bit is seen only on a bus that clocks
  nothing and acknowledged nothing, which is what keeps an aborted transfer's
  byte out of the next. `Lengths` is any set of positive numbers
  (`I2cAssumption`: the driver refuses a read of no bytes).
* **SerialLine.** `LineInv` looks at the bytes ahead of the parser as one
  stream (`Ahead`): the checksum byte the parser keeps, those a read has
  fetched, the receive ring, the transmit ring and the frame being pushed. Its
  checksum bytes are in the order of the payloads, two of a payload at most
  (`SealsInOrder`), and of payloads later than those handed out
  (`DeliveredBefore`). Every step moves the stream, drops bytes from it or
  strips one of its checksum: a lapped receive ring keeps a later part of it.
  So a frame that is accepted used up both bytes of its checksum, and none of
  that payload or an earlier one is left to be accepted again. `PushFits` says
  that the frame being pushed has its room, so the copy lands beyond the bytes
  that are queued. Ring sizes, payloads, noise and faults are arbitrary; the
  payloads are all different (`LineAssumption`), so that a frame delivered
  twice cannot pass for two.

`MetaTellsTruth` is a conjunct of `BoardInv` and is not a run's property of its
own; `LatchesHold` (FAULT ends by the kill alone, CUTOFF by the pilot's gesture
alone) is proved and not run.

Each component is proved on its own specification; `MCServices`, `MCPlatform`
and `MCHub` run the same specifications on their instances. The assumptions on
constants are named in the modules that declare them, and TLC evaluates them on
every run.

Only model-checked: the liveness properties `BootCompletes`, `SessionEnds`,
`EveryoneSettles` and `PresenceConverges` (TLAPS proves none here), and the
session's `ConfirmedIsTrue`, which is false once a boot record may fail to be
written (section 4) and so is no theorem.

## 6. Not modelled

* Estimators, controllers and the mixer: floating-point filters, of which the
  flight core's model keeps only what its branches read.
* Bundle parsing and `make_ota.py`, `status_packer.cpp`, the telemetry registry
  and the JSON of the hub's HTTP interface and profiles: no state beyond the
  call. A profile is saved by truncating its file in place and pushed one
  parameter at a time; nothing promises more.
* DShot timing, RTT, the LED, clocks and start-up code.
* The simulated firmware store, which mirrors the STM32's (`OtaBoard`).
* The sockets of the UDP link: a link of `Transport`.
* The mobile application: its pilot manager (kill and arm latches, hold
  gestures) is a state machine worth a module of its own.
* Generated protocol code, the physics of the Godot plant, the board files,
  vendored headers.

The image CRC is part of "validates" (a torn image never does) and the frame
CRC is ideal. The transport's full node table is modelled (`Full`) and not
reached by three nodes with room for two others each. The simulated drone was
also checked with three events (`MaxEvents = 3`), which takes longer than the
run should.

## 7. Plan

Done: the boot metadata log, board and session; flight core and throw detector;
messenger and discovery; transport; the five services; the simulator's
lockstep, the relay's store, the sensors and the serial line; the hub.

The proofs cover the metadata log, the board, the session, the flight core, the
throw detector, the messenger and its directory, the transport, the services,
the hub, and the five programs of the platform run.

Next: the mobile pilot manager; the transport on links that form a ring.
