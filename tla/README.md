# A TLA+ model of the rover's base, link and Jetson software

The repository holds the firmware of a rover's base controller (a Teensy 4.0),
the program on the Jetson that commands it, and the protocol they speak over
CAN. This directory models them in TLA+, checks the models with TLC and proves
the safety properties of every part with TLAPS.

1. [The system](#1-the-system)
2. [The modules](#2-the-modules)
3. [What the runs check](#3-what-the-runs-check)
4. [What is proved](#4-what-is-proved)
5. [Where the code and its documents disagree](#5-where-the-code-and-its-documents-disagree)
6. [What is not modelled](#6-what-is-not-modelled)
7. [Plan](#7-plan)

## 1. The system

```
 base station ~~radio~~> Jetson (host/jetson_test.py) ──CAN──> Teensy (rover_firmware.ino)
                          c2_link.py   C2Monitor       CONTROL   RoverController
                          JetsonLink   run()                     loop(), hardware watchdog
                          TelemetryAssembler  <──CAN── DRIVE_L, DRIVE_R, POWER, STATE
```

| Component | State | Operations | What makes it correct |
|---|---|---|---|
| `RoverController`, commands and safety (`firmware/src/rover_controller.*`) | the last accepted command and when it was read, sequence tracking, three sticky complaints, the stamp of the last degradation, counters | `ingestFrame()`, and the queries `effectiveStop()`, `commandedOutputs()`, `jetsonLinkState()`, `c2LinkState()`, `faultWord()`, `indicatorState()` | the rover moves only on a recent valid command that permits motion; nothing but a valid frame restores anything; nothing is reported healthy over a standing complaint |
| `RoverController`, telemetry schedule | the next deadline, the telemetry sequence number | `telemetryDue()` | the rate is held, a stall neither bursts nor drifts nor silences, on either side of the wrap |
| firmware loop (`firmware/rover_firmware.ino`) | the receive queue, the motor outputs, the hardware watchdog, the boot fault | `setup()`, `loop()`, `sendTelemetry()` | wherever the loop hangs the drives are released; the frames of one cycle do not take each other back |
| simulated plant (`readSensors()`, `rover_sim.cpp`) | two encoders, the steering, the LED | one pass of the loop | the difference of two reports is the distance driven, across the wrap; the steering reaches its target |
| `TelemetryAssembler` (`host/jetson_test.py`) | the frames collected, the last snapshot, two counters | `feed()` | a snapshot mixes no two cycles; losses are counted |
| `JetsonLink` and `run()` (`host/jetson_test.py`) | send schedule, transmit sequence, time of the last telemetry | `send_control()`, `poll()`, `link_up`, the loop | frames keep their rate; the verdict on the link is current |
| `C2Monitor`, `SimC2Link` (`host/c2_link.py`) | time of the last sign of the base station | `poll_c2_lost()`, `connect()`, `disconnect()` | a lost base station stops a manual rover in bounded time |
| wire codec, C++ and Python (`firmware/src/rover_protocol.*`, `host/rover_protocol.py`) | none | encode and decode, CRC-8, sequence difference | the two languages agree on every field; a damaged or misdelivered frame is refused |
| `SimLink` (`host/can_link.py`) | two pipes, a reader thread with a buffer, a queue | `send()`, `recv()`, `close()` | no frame lost, reordered or left behind, also when the simulator ends; no call waits for ever |
| simulator (`tools/rover_sim.cpp`) | the line not yet complete, simulated clock, plant | a pass of `main()` | each line is ingested whole and once however `read()` cuts the stream |
| configuration (`rover_config.h`, `rover_config.py`) | none | none | the two files agree (a test of the repository checks it) |
| `golden_vectors.cpp`, `demo.py` | none | straight-line programs | the vectors decode to what was encoded, in both languages |

How they interact: the Jetson writes a CONTROL frame every 50 ms; the CAN
interrupt queues it; `loop()` drains the queue into `ingestFrame()`, asks the
controller what the drives may do and, every 50 ms, sends one cycle of four
telemetry frames that carry one sequence number. The assembler puts them
together again. On a desk the simulator takes the board's place: `SimLink` writes a
line per frame into its stdin and a thread reads frames from its stdout. Both
sides hold timeouts over the other: the controller's
watchdog (300 ms), the Jetson's `link_up` (500 ms) and its base-station timeout
(1000 ms); the hardware watchdog (1000 ms) stands over the loop.

What is hard here: a clock that wraps; many readings of the clock inside what
reads like one computation, with a timeout between any two; two timeouts in
series on two machines; a loop that may stall or hang at any step; a bus that
loses, damages and repeats frames; a reset in the middle of a cycle; counters
that wrap between two reports; two pipes that can both be full; a reader thread,
a reader's buffer and a process that ends, in any order.
`PROJECT.json` lists each hazard at its line with the properties that watch it.

## 2. The modules

Units are milliseconds everywhere. A module either models code or puts modelled
code in an environment and states properties; the timing modules add *history*
variables that measure true time and true events, which the code cannot see.

| Module | Models | Built on |
|---|---|---|
| `Millis` | `millis()`: stamps modulo `W`, unsigned and signed differences | |
| `RoverController` | `ingestFrame()` as an action with its three outcomes; every query as an operator of the clock readings it takes | `Millis` |
| `TelemetryPacer` | `telemetryDue()` | `Millis` |
| `ControllerTiming` | the controller on a bus that brings any frame at any time; history `silence`, `quiet` | `RoverController` |
| `Deadman` | **abstract**: a dead man's switch in true time, no wrap, no frames | |
| `PacerTiming` | **abstract** for the loop: the schedule alone, polled by a loop that stalls; history `bucket`, `since_due`, `phase`, `steady` | `TelemetryPacer` |
| `Plant` | `readSensors()`: encoders, steering, electrical readings and their faults; `wrapI32()` | |
| `SensedLoop` | the pass of `loop()` from the sensors to the report; history `leg`, `slewed` | `PacerTiming`, `Plant` |
| `RoverFirmware` | `setup()` and `loop()`, a step per clock reading, beside the CAN interrupt, the clock and the hardware watchdog | `RoverController`, `TelemetryPacer` |
| `TelemetryAssembler` | `TelemetryAssembler.feed()` | |
| `TelemetryLink` | the firmware's cycles over a bus that loses, damages and repeats, with resets, into the assembler | `TelemetryAssembler` |
| `JetsonHost` | `run()`, `JetsonLink`, `C2Monitor`, `SimC2Link` | `Millis` |
| `RoverLink` | the command path end to end: base station, Jetson, bus, controller; and whatever the bus brings back to the Jetson | `RoverController`, `JetsonHost` |
| `FrameCodec` | the bytes of the five messages: CRC-8, envelope, fields; encoders and decoders of both languages | |
| `GoldenVectors` | the messages and predicate tables of `golden_vectors.cpp` | `FrameCodec` |
| `FrameTransfer` | one frame encoded in one language, perhaps damaged on the way, and decoded in both | `FrameCodec` |
| `RoverSim` | `main()` of `rover_sim.cpp` between its two pipes | |
| `SimLink` | `SimLink`: the caller's thread and the reader thread on the other ends of the pipes | `RoverSim` |
| `Fifo` | **abstract**: what either direction of `SimLink` promises | |
| `RoverControllerProofs` | lemmas on clock differences, on the types `ingestFrame()` keeps and on what the queries return, for the three modules that run the controller | |
| `ControllerTimingProofs`, `RoverFirmwareProofs`, `RoverLinkProofs` | invariants and theorems of the controller on a bus, in the firmware and end to end, where those of `ControllerTimingProofs` are carried over | `RoverControllerProofs` |
| `SensedLoopProofs` | lemmas on lateness, `WrapI32` and `Slew`; theorems of the schedule and of the loop with its sensors | |
| `TelemetryLinkProofs`, `SimLinkProofs` | invariants and theorems of the telemetry path and of the pipe link | |
| `FrameTransferProofs` | lemmas on bytes, numbers and the CRC, by induction over the bytes of a frame; theorems of the two codecs and of what damage they refuse | |
| `MC*` | the instances for TLC | |

State and actions keep the names of the code (`last_control_ms_`, `seq_gap_`,
`next_telemetry_ms_`, `partial_seq`, `t_next`, ...); `PROJECT.json` maps each
definition to its lines. Choices worth knowing:

* **A query takes its clock readings as arguments.** `faultWord()` calls
  `watchdogTripped()` twice, so `FaultWord(others, t1, t2)` has two readings;
  `ingestFrame()` reads the clock in the gap check and again when it stores the
  command, so `Accept(f, d)` lets `d` milliseconds pass between them. In
  `RoverFirmware` each reading is a step of the loop and the clock may tick
  between any two. `DRIVE_L` reads no clock and leaves with `DRIVE_R`.
* **A frame is a record** of what its payload says, its sequence number and the
  set of its defects. `DecodeControl` reports the first failing test in the
  order of `decodeControl()`. Bytes and CRC are the subject of `FrameCodec`
  alone, where a byte is the set of its bits that are 1.
* **`setMotorOutputs()` is a stub** in the code, whose comment states a
  contract; `pins` is what it was last told, and `Live` is that contract: the
  drives are energised when the command is not zero and `stopped` is false.
* **A reset is one step**: `HwReset` stands for the bite of the hardware
  watchdog together with `setup()`, in which the drives float and nothing is
  received. `setup()` starts the watchdog last. `g_boot_faults` then
  holds `FIRMWARE_FAULT`, which `detectBootFault()` finds in the reset cause.
* **The sensors are a module of their own.** `SensedLoop` proves that the
  electrical readings of the simulated plant never raise a fault, so the
  `FaultWord` of `RoverFirmware` is given none.
* **A telemetry frame the transmit queue refuses** (`Can.write()`, whose result
  the code ignores) is one that `TelemetryLink` loses.
* **A line of the simulator is a run of parts**, each a pair of the line's number
  and a place in it, the last place its newline; its frames are numbers: which
  part or frame goes where is what the properties ask. The `while` loop over
  `pending` is a step per line. What the controller makes of a line is
  `RoverController`'s.
* **`TelemetryLink` tags a frame with the cycle it was measured in.** The code
  sends no such tag; the properties compare it.
* Operators marked *mutant* stand before the definition they change. They are
  plausible mistakes in it, used by the mutation runs of section 3 only.

## 3. What the runs check

Constants are scaled down so that the interesting orders fit: the code compares
times with each other and never with a literal, so what matters is which of two
sums is larger. Each run keeps the order of the real values where a property
depends on it.

| Run | Instance | Checks |
|---|---|---|
| `controller` | clock of 8 values, watchdog 2, hold 4, sequence modulo 3, 18 good, 2 defective and 1 foreign frame, silences to 6 | `SilenceFailsSafe`, `LinkOkIsClean`, `OnlyAFrameRestores`, refinement of `Deadman` |
| `sensed_loop` | clock of 16, period 2, stalls to 3, any boot time; encoders of 12 values, commands -19, 0 and 10, steering to 19 and 0 in steps of 15 | `BurstBounded`, `PauseBounded`, `NoDrift`, `OdometryIsExact`, `SteeringSettles` |
| `firmware_cycles` | watchdog 2, hardware watchdog 2, period 2, queue of 1, commands of three kinds and a defective frame | `CycleNeverTakesBack`, `StopIsShown` |
| `firmware_hang` | the same with one command | `DrivenByRecentCommand`, `HangIsSurvived` (liveness) |
| `telemetry_lossy` | 7 cycles, sequence modulo 3, up to 2 cycles lost whole in a row, one repeated frame, one reset | `TornOncePerRestart`, `CountsAreExact` |
| `rover_link` | 9 ms of two programs: send period 2, C2 timeout 3, watchdog 3, stalls of 2, delay and loss of 1, one end of the Jetson program, a coming and a going of the base station | `NoDriveWithoutBaseStation`, `NoNuisanceTrip`, `LossIsCounted`, `ReviveOnReturn` |
| `jetson_link` | 9 ms, sequence modulo 3, up to 3 frames lost in a row, stalls of 1, watchdog 5, link timeout 4, inbox of 2 | `LinkUpIsRecent`, `LinkDownIsSilence`, `HiddenLossTripsWatchdog` |
| `sim_link` | lines of 2 parts read in chunks of 3, an input pipe of two lines, an output pipe of half a cycle, 4 lines, 8 frames (2 cycles); a simulator that hangs or dies anywhere | refinement of `Fifo` in both directions (`LinesArrive`, `FramesArrive`), `ReaderDrains`, `SendReturns`, `SentIsIngested`, `CloseReturns` |
| `codec` | the golden vectors with all 256 modes, 8 indicators and 15 values of each command, and the ends of every field; one or two bits of 64 changed, any change within 8 consecutive bits, lengths 0 to 9, every other identifier | `LanguagesAgree`, `RoundTrip`, `DamageIsRefused` |
| `controller_wrap`, `firmware_faulted`, `telemetry_restart` | | violations, section 5 |

What each property says is in the comment above it. In brief:

* **`SilenceFailsSafe`** — without a valid frame within the watchdog time of
  *true* silence, no motion, link LOST, C2 not claimed, fault light, fault bit,
  whatever was rejected, ignored or wrapped meanwhile.
* **`LinkOkIsClean`** — OK is never reported while a gap or CRC error stands.
  This rests on `LINK_DEGRADED_HOLD_MS` outlasting the watchdog, which no line
  of the code says.
* **`BurstBounded`**, **`PauseBounded`** — a leaky bucket of three cycles bounds
  every burst; a pause is shorter than a period and the stall behind it.
* **`OdometryIsExact`** — the encoders wrap and a report carries nothing else,
  yet the wrapped difference of consecutive reports is the distance driven,
  because a telemetry pause (`PauseBounded`) is too short for half a turn. A
  drive of 1000 turns an encoder by 100 a pass; half of 2^32 in the at most
  1050 ms between reports would take 20 passes a microsecond.
* **`SteeringSettles`** — what is left of the way to the target is at most what
  the passes since it was last set had no time for, so the steering neither
  overshoots nor oscillates, whatever the order of targets. `SteeringSettles`
  and `OdometryIsExact` are equally about `rover_sim.cpp`, which repeats the code.
* **`DrivenByRecentCommand`** — the age of a command *since it reached the
  board* is below the watchdog time plus four hardware watchdog times while the
  drives are live: it may wait in the queue, be dated when it is read, be
  applied late and be held by a loop that hangs.
* **`CycleNeverTakesBack`**, **`StopIsShown`** — of the six clock readings of a
  cycle, a later one never contradicts an earlier one in the unsafe direction.
* **`NoDriveWithoutBaseStation`** — a manual rover stands still within
  `C2Timeout + WatchdogTimeout + MaxStall + MaxTransit - 2` ms of losing its base
  station, if the Jetson stalls, dies or is cut off too.
* **`NoNuisanceTrip`** — a Jetson that runs is silent for no longer than its lost
  frames, one delay and *two* stalls take: one before the loop sees that a frame
  is due and one between its clock reading and the frame. This asks that no stall
  be longer than a send period: several longer ones in a row leave the loop no
  pass in which to catch up, and the schedule starts over from now each time.
  Schedules that restart from the send time, as a mutant does, add a stall per
  frame. With the real
  values: two lost frames in a row cost 150 ms of the 300, and leave about 150
  for stalls and delay.
* **`HiddenLossTripsWatchdog`** — a loss of a whole turn of the sequence number
  is invisible to the gap check, and the watchdog has tripped by then, if it is
  shorter than `HiddenLossTime` (300 ms against 12.8 s less a stall, a delay and
  what the frame before the loss was sent late, `MostLate`: a stall, or with
  stalls of more than a period two periods, after which the schedule starts over).
* **`ReviveOnReturn`** — a base station that is back for longer than a frame is
  on its way is believed with the first frame that arrives; at `MaxTransit`
  itself a verdict taken before its return may still come in.
* **`LinkUpIsRecent`**, **`LinkDownIsSilence`** — `link_up` dates telemetry by its
  reading; the verdict is late by at most two stalls, in either direction.
* **`LinesArrive`**, **`FramesArrive`** — wherever `read()` cuts the stream, and
  with a reader and a caller that run at once, messages come out whole, once and
  in order.
* **`ReaderDrains`** — when the reader thread has ended, everything ever emitted
  can be received, from a simulator killed in the middle of a cycle too. It rests
  on the thread looking at the end of the output and not at the process, and on
  its file handing out the lines in its buffer first.
* **`SendReturns`** — with both pipes full the host waits for the simulator and
  the simulator for the host; the reader thread frees both. A mutant without it
  (`recv()` polling the pipe) stands still.
* **`SentIsIngested`**, **`CloseReturns`** — what was written is ingested though the
  host closes at once; `close()` returns whatever the simulator does.
* **`LanguagesAgree`** — `decode_control()` "mirrors `decodeControl()` exactly": of
  whatever arrives, also what nobody encoded, both languages say the same.
* **`RoundTrip`** — what either language encodes both decode to the same fields; a
  command outside the protocol is refused for a reason it has. The indicator has
  three bits ("0..7" in the header), so the vectors above 7, which both encoders
  mask, are left out.
* **`DamageIsRefused`** — no damage of one or two bits, no burst of up to eight,
  no wrong length and no other of the five identifiers yields an accepted frame.
  Two is all this polynomial promises: TLC finds three scattered bits that pass.

**Tightness.** With a bound one smaller TLC finds a counterexample for
`BurstBounded`, `PauseBounded`, `SteeringSettles`, `C2LossBound`, `SilenceBound`,
`ReadDelay` and the transit time in `ReviveOnReturn`, for a watchdog of one more
than `HiddenLossTime`, and for `HoldBound` when the hardware watchdog takes 3 ms
or more (with the 2 ms of `firmware_hang` the worst case falls one short).

**Mutation.** Each property of a passing run is paired in `PROJECT.json` with a
mistake in a mapped definition (an off-by-one, a signed difference, a schedule
that restarts from now, a stale report, an unmasked sequence number, ...) under
which that run fails.

**Bounds.** In `ControllerTiming` and `SensedLoop` time is unbounded: the state
is finite because the clock wraps and history saturates or is bounded by the
environment's promise. In `ControllerTiming` `MaxSilence < W` says that no
silence lasts a full turn of the clock; the run `controller_wrap` shows why it
is needed. In `RoverFirmware` `MaxAge` bounds how far time runs after the last
accepted command, past every bound the properties mention. In
`SensedLoop` each of the 16 boot times puts the wrap of the clock elsewhere; the
encoders wrap after a few passes in either direction. `RoverLink` and
`TelemetryLink` are bounded by `MaxTime` and `MaxCycles`; their runs are long
enough for a start, a loss, both timeouts, a recovery and, in `TelemetryLink`,
two turns of the sequence number. `RoverLink` stays within one turn of the clock.
In `SimLink` the four lines are twice what the input pipe holds and the two
cycles four times what the output pipe holds, so both are full at once; chunks
of three parts end in the middle of a line and hold more than one.

**View and constraint.** `firmware_cycles` and `firmware_faulted` use `VIEW RelativeTime`:
the program reads only differences of the clock, so states that differ by a
shift of all stamps behave alike; the view keeps every other variable, except
`last_degraded_ms_`, `ever_degraded_` and the counters, which are constant under
`CONSTRAINT NoComplaint`. That constraint leaves out link complaints in these
runs: they decide between OK and DEGRADED only, which is `ControllerTiming`'s
subject. `firmware_hang`, with the liveness property, uses neither.

**Fairness.** `FairSpec` of `RoverFirmware` assumes weak fairness of `Tick` and
`HwReset`: a hardware clock runs and a hardware watchdog bites without help of
the program. Nothing is assumed of the loop, so the runs include a hang at every
step, for good. `HangIsSurvived` asks that the bus fall silent, as a live bus
feeds a live loop new commands. `Spec` of `SimLink` assumes weak fairness of a
call in progress, of the reader thread and of the process, each as a whole: the
operating system schedules them. It assumes nothing of who calls what; the
process may hang or die at any point, and the two timeouts of `close()` may
expire at any point. No other liveness is claimed: the firmware and the Jetson
promise bounds, which are stated as safety.

**Deadlock** is checked in every run but `codec`, which ends when its frame is
decoded, and `sim_link`, whose caller may close the link and which a hung
simulator stops. The bounded modules end in an explicit stuttering step `Ended`.

## 4. What is proved

| Theorem | For every | Assuming |
|---|---|---|
| `ControllerTimingProofs!TypeCorrect`, `SilenceIsSafe` | clock width, timeout, hold, sequence width, set of frames, skew | `NoFullTurn` |
| `ControllerTimingProofs!LinkIsClean` | the same | `NoFullTurn`, `HoldOutlasts` |
| `ControllerTimingProofs!OnlyFramesRestore` | the same | `NoFullTurn` |
| `ControllerTimingProofs!ControllerIsADeadman` | the same | `NoFullTurn` |
| `SensedLoopProofs!TypeCorrect`, `BurstIsBounded`, `PauseIsBounded`, `ScheduleNeverDrifts` | clock width, period, stall | `StallAssumption` |
| `SensedLoopProofs!LoopImplementsPacer` | the same, and any plant | `StallAssumption` |
| `SensedLoopProofs!LoopTypeCorrect`, `ReportsMeasure`, `SteeringFollows` | the same, width of the encoders, step of the steering, set of commands | `SensedAssumption`, `CmdMax <= 1000` |
| `RoverFirmwareProofs!FirmwareTypeCorrect` | every constant | |
| `RoverFirmwareProofs!DrivesFollowRecentCommands`, `CycleIsConsistent`, `OwnStopIsShown` | clock width, both watchdogs, queue, period, set of frames | `ClockIsTicked` |
| `RoverLinkProofs!LinkTypeCorrect`, `RoverStopsWithoutBaseStation`, `BaseStationIsBelieved` | timeouts, send period, stall, delay, losses, sequence width, number of restarts of the program and moves of the base station | `ReadSkew = 0` |
| `RoverLinkProofs!LinkUpIsTrusted` | the same | `ReadSkew = 0` |
| `RoverLinkProofs!LinkDownIsTrusted` | the same | `ReadSkew = 0`, `LinkTimeout <= MaxTime` |
| `RoverLinkProofs!LossIsExact` | the same, and the width of the counter | `ReadSkew = 0`, `MaxLost + 1 < SeqMod` |
| `RoverLinkProofs!WatchdogIsPatient`, `HiddenLossIsNoticed` | the same | `ReadSkew = 0`, and what the two properties themselves ask |
| `RoverLinkProofs!LinkIsABus` | the same | `ReadSkew = 0` |
| `RoverLinkProofs!LinkIsADeadman` | the same | `ReadSkew = 0`, `WatchdogTimeout < W` |
| `RoverLinkProofs!LinkIsCleanEndToEnd` | the same | `ReadSkew = 0`, `WatchdogTimeout < W`, `DegradedHold >= WatchdogTimeout` |
| `TelemetryLinkProofs!TelemetryTypeCorrect` | every constant | |
| `TelemetryLinkProofs!RestartsTearOnceEach`, `CountersTellTheTruth` | width of the sequence number, order and set of frames, cycles, repeats, resets | `NumbersTell` |
| `TelemetryLinkProofs!SnapshotsAreOfOneCycle` | the same | `NumbersTell`, `MaxRestarts = 0` |
| `SimLinkProofs!LinkTypeCorrect`, `NoFrameLeftBehind`, `UpIsFifo`, `DownIsFifo` | length of a line and of a chunk, both pipes, lines, frames | |
| `FrameTransferProofs!TransferTypeCorrect`, `LanguagesNeverDiffer` | message, sequence number, damage, length, identifier | |
| `FrameTransferProofs!DamageIsAlwaysRefused` | message, sequence number, any `Bits` among the 64, any burst of eight, lengths 0 to 9, identifier | |
| `FrameTransferProofs!WholeFramesRoundTrip` | value of every field of every message, sequence number | |

`NoFullTurn` is `MaxSilence < W /\ WatchdogTimeout < W`: no silence of 49.7
days. `HoldOutlasts` is `DegradedHold >= WatchdogTimeout + 2 * ReadSkew`, and
that the sum fits the clock: 1000 ms against 300 ms and the time two calls take.
`StallAssumption` is `2 * (2 * Period + MaxStall) < W`, with the assumption of
`PacerTiming` that a period is shorter than a turn of the clock: the hardware watchdog
resets the board after 1 s, the signed difference is sound below 2^31 ms.
`SensedAssumption` is that commands are in range and that an encoder turns less
than half its range between reports; with a `CMD_MAX` of at most 1000 the
simulated current and voltage stay within their limits.
`ClockIsTicked` is `ReadSkew = 0 /\ MaxAge < W`: in this module time passes in
steps of its own, and no command is followed for a full turn of the clock.
The `ReadSkew = 0` of `RoverLink` is the same, and its clock does not wrap in a run.
`LinkTimeout <= MaxTime` keeps the history `heard_ago`, which stops at `MaxTime`,
from standing still below the timeout; `MaxLost + 1 < SeqMod` says that fewer than
255 frames are lost in a row.
`NumbersTell` is `MaxLag < TelemetrySeqMod`: fewer than 256 cycles in a row
(12.8 s) of which nothing arrives.

**The controller.** `SilenceFailsSafe` is not inductive: it speaks of true
silence, the code of a stored stamp and a wrapping clock. `ControllerInv` adds
`StampsAreTrue` (the unsigned difference *is* the true silence, while neither
reaches a full turn) and `ComplaintIsRecent` (a standing gap or CRC error is at
most `ReadSkew` older than the last accepted frame). The first gives
`SilenceIsSafe` and, with it, that the watchdog trips exactly when the abstract
switch opens, hence the refinement; both give `LinkIsClean`: a link that is not
LOST heard a frame less than `WatchdogTimeout` ago, so a complaint standing
since is still within its hold.

**The schedule.** `PacerInv` bounds how late the deadline is by the period and
the stall (`LatenessBounds`), ties the bucket to that lateness (`BurstBudget`:
what has been sent and what is overdue together never exceed two periods), and
keeps the deadline on its grid while the loop is `steady`. All arithmetic over
the wrap is in the lemmas on lateness, before and after `Advance`.

**The loop with its sensors.** `LoopImplementsPacer` maps a pass to a poll of the
schedule and everything else to a stutter, so what is proved of the schedule
holds of it as well (`LoopKeepsSchedule`). `ReportsMeasure` uses that: the invariant is that the counter
is the wrapped sum of the last report and the way since, and that this way is no
longer than the pause allows, which `PauseIsBounded` bounds; the lemma on
`WrapI32` then takes the sum apart. `SteeringFollows` is inductive with the types;
its core is how far one `Slew` comes.

**The held command.** `DrivenByRecentCommand` follows a command from the bus to the
pins. `HoldInv` bounds its age at each place it can be. In the queue it is at most
what has passed since the pass before found the queue empty, two hardware
watchdog times (`QueueAge`). Once stored, its age exceeds that of its stamp by no
more (`WaitIsBounded`). When it is turned into an output its stamp is younger
than the watchdog time, and the rest of the pass adds `since_feed`
(`OutputIsFresh`). On the pins it stays until the next pass writes them, a
hardware watchdog time more (`PinsAreFresh`). Each bound is tied to
`since_feed`, because feeding the hardware watchdog is all that holds off a reset.

**The lost base station.** `NoDriveWithoutBaseStation` follows a report that all is
well in the same way. `ReportInv` says how long the base station may have been
gone while such a report is where it is: to be sent by the running loop, which
read its clock at most a stall ago and heard the base station less than
`C2Timeout` before (`LoopIsRecent`, `MonitorIsHonest`); on the bus, by its age
more (`WireIsRecent`); stored, by the age of its stamp more (`CommandIsRecent`),
which the watchdog bounds. A process that ends or starts over changes none of it.

**The cycle of frames.** Every contradiction the six readings of a cycle could make
is of the form: an earlier one saw the watchdog tripped, a later one did not.
`CycleInv` says that whatever has been written because of it, from the command age
to the fault light, implies `Overdue`, that the watchdog is tripped *now*; ticks
only make a command older, and until the next pass nothing stores a new one. For
`StopIsShown` it adds that a stop still has the reason it was made for
(`StopHasReason`). That ages are not a whole turn of the clock comes from `HoldInv`.

**What the Jetson makes of its link.** `HeardInv` relates the stamp of the last
telemetry to when it really came: a frame waits to be read for at most a pass
and the pass under way (`WaitBound`), and a frame that has come lately is either
in the inbox or stamped.

**The base station's return.** `NoStaleVerdict`: a report of its loss that is still
on the bus was sent before it came back, so after `MaxTransit` there is none.

**The sequence numbers.** `NumbersInv` says that numbers on the bus follow each other
and that the first is `lost_run + 1` from the last accepted, so the distance the
controller computes is the loss (`DistanceIsLoss`), up to a turn of the number: at
exactly one turn there is no gap to see, but then `lost_run >= SeqMod`.

**The send schedule.** `WatchdogIsPatient` and `HiddenLossIsNoticed` are the upper and
the lower bound of the same fact. `DueInv` says how late the loop finds a frame due.
`ScheduleInv` puts the frames on the bus, the last one accepted and the one to
come on a grid of send periods: two of them `k` slots apart were sent no more than
`Spread` over and `Lag` under `k` periods apart. The send time of an accepted frame is known
to within `MaxTransit`. A send moves every earlier frame one slot on
(`OnTimeSend`), a loss leaves its slot behind (`ScheduleLose`), so nothing
adds up. The lower bound is needed however long the stalls are, the upper one
only while they fit into a period.

**The link as a bus.** `RoverLink` is one of the environments `ControllerTiming` allows:
its spec implies that of `ControllerTiming` (`LinkIsABus`), with the true silences read off
the stamps, which within one turn of the clock are true times. A tick is a tick, a delivery an
accepted frame, and everything else leaves the controller alone. The instance `Bus`
brings the theorems of `ControllerTimingProofs` along, so `SilenceFailsSafe`,
`OnlyAFrameRestores`, `LinkOkIsClean` and the refinement of `Deadman` hold end to end
(`LinkIsADeadman`, `LinkIsCleanEndToEnd`). `RoverFirmware` has no such theorem: a
reset makes the controller forget its command, which no step of `ControllerTiming` does.

**The snapshots.** Frames collected under one number may come from several uptimes
of the controller. `TornInv` says that those of the current one are of a single
cycle, `lag` cycles ago, whose number is `lag` behind the current (`FromThisUptime`), and that
those of earlier ones are of at most one cycle each. As `lag` stays below a full turn, a frame that
carries the number collected is of that cycle (`SameNumberSameCycle`). Each restart
can thus tear a snapshot once more and nothing else can; without one
there is one cycle only. For the counters `CountInv` adds that the collection holds
what has arrived of the current cycle, or of an older one if nothing has.

**The pipes.** `LinkInv` lays the places a message passes end to end. Upward, what was
received, the queue, the reader's buffer and the pipe hold the numbers from 1 to
`emitted` without a gap (`UpInv`), and when the thread has ended nothing is left
behind it (`DrainInv`). Downward, `pending` and the pipe are the parts
of the lines not yet ingested (`DownInv`), however chunks have cut them. Either
invariant makes each step one of `Fifo`, or a stutter.

**The bytes.** The two CRCs shift and mask in another order, and are equal for every
register (`CrcBitsAgree`), so the tables of eight rounds are, and with them everything
built on these, whatever the loop over the bytes of a frame computes: the senders write the same
bytes (`EncodersAgree`) and the receivers say the same of any (`DecodersAgree`).
That a whole frame opens needs of the CRC only that it is a function. The rest is
arithmetic: a byte has its number's residue modulo 256 (`ByteValue`), two and four
of them give back the number with its sign (`Int16Value`, `Int32Value`), each field
lies where it is looked for (`ControlLayout`, ...), and the flags share no bit
(`FlagsValue`). `TransferInv` says that an intact wire holds such a frame.

**The damage.** A round of the CRC is linear in the register and loses nothing of it
(`RoundIsLinear`, `RoundIsInjective`), and so are eight of them (`ByteIsLinear`,
`ByteIsInjective`): two registers that run over two frames differ by what the same loop makes
of the difference of the frames (`CrcDifference`). If both frames open, the last of these
differences, of the CRC bytes themselves, is empty (`Syndrome`, `DamageShows`). It cannot be:

* two bits: the first leaves a power of the polynomial in the register, and none of those a
  second bit could meet, from the 9th to the 64th, is a single bit (`Power`, `TwoBitsAreNoticed`);
* a burst: it lies in the low bits of one byte and the high bits of the next, and what eight
  rounds make of the former is never what the latter takes away (`BurstChangesCrc`);
* one damaged byte: nothing else can cancel it, for a byte that differs keeps differing (`CleanAfter`);
* another identifier: among the five, the two registers differ after the four bytes of the
  identifier (`IdsShow`) and by `CrcIsInjective` after any seven bytes that follow.

The induction over the bytes is that of a set of numbers which holds 0 and with each number
the next (`NatSetInduction`): of the numbers it lacks one would be the least.

**What proving changed.** Two properties of `RoverLink` held on the instances and were
false in general; TLC found the counterexample once the proof had shown where to
look. `NoNuisanceTrip` allowed stalls up to two periods, and with a stall of two
in each pass the loop never catches up. `HiddenLossTime` took every frame to be
late by at most a stall, and a stall of between one and two periods leaves
a frame later than that. Both now say what holds. The proof of the downward
FIFO needed the `while` loop of `rover_sim.cpp` as a step per line, as the code has it.

Proving also shaped `FrameCodec`: numbers of two and four bytes are read by sums
written out, as in the code, and not by a fold; the two CRCs are one loop over two tables,
a function of how many bytes are in, as the register of the code is.

**Model-checked only.** Liveness: `HangIsSurvived`, `SendReturns`, `SentIsIngested` and
`CloseReturns`, for the prover does not reach ENABLED. Every safety and every action property
of a passing run is a theorem.

## 5. Where the code and its documents disagree

Each is a run that TLC must find violated; `PROJECT.json` quotes the sentence.

* `controller_wrap`: the watchdog has no memory of having tripped. After 2^32 ms
  without a frame the unsigned age is small again: the rover moves on its last
  command for a watchdog time.
* `firmware_faulted`: `faultWord()` reads the clock for COMM_TIMEOUT, then again
  in `c2LinkState()`. When the watchdog trips in between, a rover that was
  stopped for a lost base station reports neither bit in that cycle. The fault
  light is shown (`StopIsShown`).
* `telemetry_restart`: the sequence number is all that tells cycles apart, and it
  starts over at a reset: a cycle cut off by it is completed by frames of a later
  cycle of the same number and published as coherent. `TornOncePerRestart` is
  what does hold.

Others have no run. `telemetryDue()` "will not burst out a backlog"
(rover_controller.h:73), but after a stall of just under three periods it answers
true three times in a row; `BurstBounded` is what does hold. All four bytes of the
identifier go into the CRC "so an 11-bit and a 29-bit id with the same low bits
cannot collide" (rover_protocol.cpp:103): among 2^29 identifiers and 256 values
of a CRC some do; the five in use do not (`DamageIsAlwaysRefused`). And two have the
cause of `firmware_faulted`: when the
watchdog trips between `TELEM_POWER` and `TELEM_STATE`, C2_LINK_LOST is set
beside `c2_link` = NOT_REPORTED, a row the table in PROTOCOL.md 3.5 does not
have; and when it trips between `commandedOutputs()` and `effectiveStop()`,
`setMotorOutputs()` gets `stopped` with a command that is not zero, though "the
caller already zeroes the commands" (rover_firmware.ino:169).

## 6. What is not modelled

* Of the codec, the names of faults and results, the scaled copies of current and
  voltage, and the wrapping of arguments by `encode_telemetry_drive_*()` in
  Python, which taking the low bytes of a field already does. The timing modules
  take the *outcome* of decoding.
* Of `golden_vectors.cpp`, the printing, the FRAMECRC lines (two of their
  identifiers are no message's) and the SEQDELTA lines. That both languages
  write the same *bytes* for a message is no property of a run, but a lemma
  (`EncodersAgree`).
* `digitalWrite` of anything but the heartbeat LED, and the library's transmit
  queue: nothing depends on them but which frames get out.
* `format_status()`, printing and the tallies at the end of `jetson_test.py`.
* `SocketCanLink`, a thin wrapper of python-can without a state of its own, and
  `build_sim()`, which runs a compiler.
* That `send()` to a simulator that hangs with its pipe full never returns: the
  code gives it no timeout and promises nothing.
* `demo.py`, one fixed sequence of calls; the two configuration files, whose
  values are the CONSTANTS; the tests and the CI files.
* The wrap of the clock in `RoverLink`, and what telemetry says in it: each is
  another module's subject, and the paths share no state but the clock.

## 7. Plan

Done: the controller, its schedule and the loop with its sensors; the telemetry
path; the command path with the Jetson's verdict; the bytes on the wire in both
languages; the simulator behind its pipes; proofs for the controller, the
schedule, the loop, the age of a held command, the consistency of a telemetry
cycle, the command path and the Jetson's verdict, the telemetry path, the pipes,
the codecs and the damage they refuse.

What would come next: `RoverLink` over the wrap of the clock, with the lemmas of
`RoverControllerProofs`.
