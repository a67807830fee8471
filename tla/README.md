# TLA+ models of the hydrogen device examples

These modules model the Python device programs under `src/examples/python/`
of this repository. TLC model-checks them, and TLAPS proves theorems about them.
The device base classes (`pyastrodevice.DeviceBase`, `PyGuider`, `PySolver`, ...)
are C++ code outside `src/`. They appear only through the interface the
programs call: a property store (`set_property`) and an event bus (`send_event`),
as `spec.md` sections 4.1 and 4.2 describe them.

## 1. The system

| Part | Source | State it keeps | Operations that change state | Interacts with |
|---|---|---|---|---|
| AdvancedCamera exposure | `advanced_camera.py` 120-260 | `is_exposing`, `image_ready`, `image_data`, `exposure_time`, `exposure_thread` | `start_exposure`, `abort_exposure` (both under `exposure_lock`), one `exposure_process` thread per accepted exposure (no lock) | property store, event bus, `stop()` |
| AdvancedCamera cooling | `advanced_camera.py` 92-118, 262-288 | `cooler_enabled`, `cooler_temp`, `sensor_temp`, `cooler_power` | `update_loop` thread (every 1 s), `set_cooler` (no lock) | property store |
| AdvancedCamera lifecycle | `advanced_camera.py` 61-90, 372-425 | `running`, `update_thread` | `start()`, `stop()` (joins the update thread, then the newest exposure thread, each for 2 s, the second under `exposure_lock`) | every thread of the camera |
| CustomTelescope task | `custom_telescope.py` 23-60 | `running`, `custom_tracking_thread` | `start()`, `stop()` (join 2 s), `custom_task` (sleeps 5 s, then writes) | property store, event bus |
| MyCustomSwitch task | `custom_switch.py` 20-63 | `running`, `update_thread`, `temperature` | `start()`, `stop()` (join 1 s), `update_temp` (writes, then sleeps 2 s), `SET_TEMPERATURE` | property store, event bus |
| CustomFilterWheel monitor | `custom_filter_wheel.py` 27-67 | `_is_running`, `_custom_thread` | `start()` (thread before `super().start()`), `stop()` (join 2 s), `_monitor_temperature` | property store |
| PiGuider | `guider_example.py` 38-66 | `dither_index` | `auto_dither` (circular cursor), `monitor_calibration` thread (polls until COMPLETED or FAILED) | C++ guider state |
| AIPlateSolver client | `solver_example.py` 133-147 | `solving` | the poll loop that waits while the state is SOLVING | C++ solver state |
| CompleteObservatory | `complete_observatory_example.py` | `running`, `devices`, `weather_monitoring_thread` | main sequence (checks, open, image, close), weather thread (`emergency_shutdown`), `cleanup` (join 5 s) | dome, telescope, cover, camera |
| Thin subclasses, compatibility demo, binding tests, build scripts | the remaining files | none of their own | forwarding calls in a fixed order | not modelled (section 6) |

### What is hard in this code

- **Threads without locks.** The exposure thread reads and writes `is_exposing`
  without `exposure_lock`. Only the handlers take the lock. An abort, or an
  abort followed by a new start, can therefore land between any two
  statements of an older exposure thread.
- **Bounded joins.** `stop()` of every device joins its threads with a timeout
  and never checks whether the join succeeded. Whether a thread outlives
  `stop()` depends on its sleep against the timeout.
- **Unlocked multi-statement publication.** Lines 197-200 of
  `advanced_camera.py` write two fields and then two properties.
- **Liveness.** A busy flag that never clears blocks the camera for good. A
  polling thread with no exit keeps running forever.
- **Numerics.** These are the cooling power clamp, the `int()` truncation,
  the holding band of 0.1 °C and a zero exposure time.

### What makes each part correct

- **Camera exposure:**
  - A busy camera always has a live worker, and it eventually becomes idle again.
  - No exposure completes after it was aborted (spec section 8).
  - When the device is quiet, the published properties agree with the fields.
- **Lifecycle:** after `stop()` returns, no thread of the device still runs (spec section 5).
- **Cooling:** the sensor stays within the clamped range of [-30, 50] °C. Each tick moves it by at most the drive power times 0.01 °C (spec section 4.5). Once enabled, it reaches the target and then holds it with a nonzero power (spec section 8).
- **Task threads:** a device's background task behaves as the Task Runner of spec section 4.4 (module `TaskRunner`).
- **Guider:** the dither cursor visits 0,1,2,3,4,0,1 (spec section 8).

## 2. Modules

| Module | Models | State (code) and actions |
|---|---|---|
| `AdvancedCamera` | `advanced_camera.py`: exposure, update-loop control, lifecycle | See below. |
| `MCAdvancedCamera` | The instance for TLC | `Durations = {0, 3}` ticks (0 s and 1.5 s), `MaxJobs = 2` |
| `AdvancedCamera_proofs` | Theorems about `AdvancedCamera` | The inductive invariant `IInv`, the join invariant `JoinOutlastsSleep`, the time invariant `TimeLeft`, and their proofs |
| `CustomSwitch_proofs` | Theorems about `CustomSwitch` | The inductive invariant, the refinement of `TaskRunner`, and their proofs |
| `CameraCooling_proofs` | Theorems about `CameraCooling` | Lemmas on the loop's arithmetic (`Clamp`, `Relax`, `DrivePower`), the inductive invariant and `SensorInRange` |
| `PeriodicTask` | `custom_telescope.py` and `custom_filter_wheel.py`: the background task and `start()`/`stop()` | Constant `Device` picks the record of timings and orders (`TelescopeTask`, `FilterWheelTask`). The worker is `WorkerTest` (the `while` test), `WorkerWork` (the writes), `WorkerWake` (the sleep ends). The main thread is `StartCall`, `BaseStart` (the filter wheel's `super().start()` after its thread started), `StopCall`, `StopJoin`. Ticks of 1/`TickRate` s, as in the camera. |
| `CustomSwitch` | `custom_switch.py` | `update_temp` is split at its load and its store of `self.temperature += ...` (`WorkerLoad`, `WorkerStore`), then `WorkerPublish`, `WorkerNotify`, `WorkerWake`. `SET_TEMPERATURE` is `SetTemperatureField` (line 58) and `SetTemperatureProperty` (59). A temperature is named by the `SET_TEMPERATURE` it derives from (`temp`, `ptemp`); the random drift is dropped. |
| `Observatory` | `complete_observatory_example.py` | The main thread has one action per device call that moves a device: `Initialize` (each creation may fail: `present` is any subset), `StartMonitoring`, `PreCheck` (the 80% rule on exact integers), `Unpark`, `OpenShutter`, `OpenCover`, `ImagingCheck`, `ImagingExpose`, `ImagingFinish`, `CloseCover`, `ClosePark`, `CloseShutter`, `CleanupStart`, `CleanupJoin`, `StopDevices`, `Shutdown`. `KeyboardInterrupt` is Ctrl+C anywhere in the `try` block (lines 514-519): the main thread goes straight to `cleanup()`, with no `close_observatory`. The weather monitor is `WeatherTest`, `WeatherCheck`, `EmergencyDome/Park/Cover/Camera`, `WeatherWake`. The environment is `WeatherChange`. Untimed. |
| `CameraCooling` | `advanced_camera.py`: the cooling body of `update_loop` (92-118), `set_cooler` (262-288) through `handle_set_cooler` (323-344) | The fields `cooler_enabled`, `cooler_temp`, `sensor_temp` and `cooler_power` are `enabled`, `target`, `sensor` and `power`, in millidegrees. The loop is `LoopTest` (the `while`), `LoopWake` (the sleep ends), `LoopBranch` (the read of `cooler_enabled`, with the whole warming branch), `LoopDiff` (the read of `cooler_temp` at line 100) and `LoopAdjust` (lines 101-108, whose snap reads `cooler_temp` again). `set_cooler` is `SetCoolerEnabled` (line 267) and `SetCoolerTemp` (the clamped write at line 269). `Stop` clears `running`. |
| `MCCameraCooling` | The instances for TLC | Targets of -10 °C (the spec's scenario) and -40 °C (clamped to -30) |
| `TaskRunner` | The abstract Task Runner of spec sections 4.4 and 5 | `task` (none, idle, body, done), `cancelled`, `returned`. `Spawn`, `Begin` (only while not cancelled), `Write` (never after `stop()` returned), `Exit` (only when cancelled), `Cancel`, `Return` |
| `PeriodicTask_proofs` | Theorems about `PeriodicTask` for the filter wheel | The inductive invariant and the refinement of `TaskRunner` |
| `Observatory_proofs` | Theorems about `Observatory` | The cleanup invariant `StopInv` and `NoCommandAfterStop` |
| `Guider` | `guider_example.py`, with the C++ calibration from spec section 4.7 | The script is `StartScript`, `WakeFromWait`, `AutoDither` (the circular cursor), `WakeFromDither`, `Interrupt` (Ctrl+C), `Finally`, `Stop`, `Disconnect`. `monitor_calibration` is `MonitorWake`, `MonitorPoll`, `MonitorStartGuiding`. `CalibrationEnd` is the C++ side. Ticks of 1 s. |
| `Solver` | `solver_example.py`, with the C++ solve job from spec section 4.8 | The script is `StartScript`, `SolveFromFile`, `PollSleep`, `PollRead`, `Report` (`get_solution_as_dict`), `Interrupt`, `Final`, `Disconnect`. `JobProgress` and `JobEnd` are the C++ side. Untimed. |

`AdvancedCamera` maps the code's state to variables as follows:

- **Fields:** `isExposing`, `imageReady`, `imageData` and `running` are the fields of the same names.
- **Property store:** `props` is the property store restricted to `exposing`, `image_ready` and `connected`.
- **Event bus:** `events` is the event bus as a sequence. Each event carries a ghost tag naming the exposure it belongs to.
- **Exposure threads:** `latest` is `self.exposure_thread`. Each exposure thread `j` has:
  - a program counter `jpc[j]`, with one value per group of statements of `exposure_process` that runs without a sleep or a shared read in between (the list is in the module);
  - its argument `jdur[j]`;
  - its remaining sleep `jwait[j]`;
  - a ghost `age[j]` that counts the ticks since `start_time`.
- **Update thread and main thread:** `upc` and `uwait` are the update thread's counter and sleep. `life` and `swait` are the main thread's place in `start()` and `stop()` and the time left on its pending join.

The actions are listed here, with the source lines they model:

- **Handlers:** `StartExposure(d)` (120-140, with the handler at 291-312) and `AbortExposure` (142-158). A rejected request changes nothing, so it is not an action.
- **Exposure thread:** one action per statement group of `exposure_process`:
  - `ExposureBegin` (162-169);
  - `ExposureLoop` (172-183);
  - `ExposureCheck` (186-187);
  - `ExposureReadout` (190-191);
  - `ExposureGenerate` (194 and `generate_image`, which may raise);
  - `ExposureClear`, `ExposureReady`, `ExposurePublish` and `ExposureAnnounce` (197, 198, 199-200 and 203);
  - `ExposureErrClear` and `ExposureErrPublish` (the `except` branch at 215-222).
- **Update thread:** `UpdateCheck` and `UpdateWork` (the `while` test and sleep at 94-95, then the body at 97-118).
- **Main thread:** `Start` (61-74), then `StopCall`, `StopJoinUpdate`, `StopLock`, `StopJoinExposure` and `StopFinish` (the statements of `stop()`, 76-90).
- **Time:** `Tick` is the passage of 0.5 s.

### Modelling decisions

- **Time.**
  - Time is discrete, in ticks of 0.5 s, the shortest sleep of the code. A sleep sets a countdown, and a join with a timeout sets one too.
  - `Tick` decrements every countdown and is taken only when no thread can run. The statements between two sleeps take microseconds and the sleeps take 0.5 s to 2 s, so no thread is ever a whole tick late.
  - This gives a finite state space without an absolute clock. The loop test `time.time() - start_time < exposure_time` becomes `age[j] < jdur[j]`.
- **Atomicity.**
  - A handler holds `exposure_lock` for its whole body, so it is one step.
  - Each statement group of a thread is one step. Under the GIL a single read or write of an attribute is atomic, and a group reads at most one shared value.
- **Commands.** Commands arrive only while `life = "started"`. `main()` serves commands in `camera.run()`, which it enters after `start()` and leaves before `stop()`.
- **Fairness.**
  - In `CameraCooling`, the update loop and a `set_cooler` under way are weakly fair: the loop is a running thread, and a handler that has begun finishes. `SET_COOLER` commands and `stop()` have no fairness.
  - `FairSpec` makes every exposure thread, the update thread, the steps of `stop()` and `Tick` weakly fair. These are running Python threads and sleeps that always expire.
  - Commands (`StartExposure`, `AbortExposure`, `Start`, `StopCall`) come from the remote controller and are not fair. The controller may send nothing.
- **Data.** The image data is the number of the exposure that produced it, or `NoImage` for `None`. Event payloads and the property values other than the three booleans are left out: no property here depends on them.
- **The other programs.**
  - `PeriodicTask`, `CustomSwitch` and `Guider` are timed like the camera: a tick is taken only when no thread can run, so a thread never runs late.
  - `Observatory` and `Solver` are untimed: their sleeps (30 s, 300 s, 1 s) end at any point. This over-approximates the timing.
    - One exception is where a timeout decides the outcome. `cleanup`'s `join(timeout=5)` can give up only while the monitor is in its 30 s sleep: a device call returns well within 5 s.
  - `main()` calls `start()` once and `stop()` once.
    - Ctrl+C is modelled in the guider's and the solver's scripts (`Interrupt`) and in the observatory's (`KeyboardInterrupt`, anywhere in the `try` block). It is a step of the user, so it has no fairness.
    - The telescope's and the guider's `sys.exit(1)` after a failed start still runs the `finally` clause, and with it `stop()`.
    - The switch's `exit(1)` does not.
  - Device calls in `Observatory` do not raise (section 6).

## 3. Runs

| Run | cfg | Checks | Result |
|---|---|---|---|
| `camera_safety` | `AdvancedCamera_safety.cfg` | `BusyHasWorker`, `ExposureThreadDeadline`, `UpdateThreadJoined` (invariants) and `BusyClears` (liveness, under `FairSpec`); deadlock | pass: about 530,000 distinct states in under 30 s |
| `camera_abort_completes` | `AdvancedCamera_AbortedNeverCompletes.cfg` | `AbortedNeverCompletes` | violated |
| `periodic_filterwheel` | `PeriodicTask_filterwheel.cfg` | `TaskRunnerSpec` (the filter wheel implements `TaskRunner`, fairness included), deadlock | pass |
| `periodic_telescope_write` | `PeriodicTask_NoWriteAfterStop.cfg` | `NoWriteAfterStop` for the telescope | violated |
| `switch_lifecycle` | `CustomSwitch_lifecycle.cfg` | `TaskRunnerSpec` (the switch implements `TaskRunner`, fairness included), deadlock | pass |
| `observatory_safety` | `Observatory_safety.cfg` | `NoCommandAfterStop` (action property), deadlock | pass: about 141,000 distinct states |
| `observatory_light_blind` | `Observatory_LightFramesSeeSky.cfg` | `LightFramesSeeSky` | violated |
| `observatory_interrupt_open` | `Observatory_SecuredAtEnd.cfg` | `SecuredAtEnd` | violated |
| `guider_guiding_after_stop` | `Guider_NoGuidingAfterStop.cfg` | `NoGuidingAfterStop` | violated |
| `solver_poll` | `Solver_poll.cfg` | `PollEnds` (liveness, under `FairSpec`) | pass |
| `cooling_settles` | `CameraCooling_cooling.cfg` (module `MCCameraCooling`) | `SensorInRange` (invariant), `CoolingSettles` (liveness, under `FairSpec`), deadlock | pass: about 600,000 distinct states in about 10 s |
| `cooling_snap` | `CameraCooling_SensorStepBounded.cfg` (module `MCCameraCooling`) | `SensorStepBounded` | violated |

What the passing run shows:

- **`BusyHasWorker`:** while `is_exposing` is set, the newest exposure thread is alive. An abort and a restart can orphan an older thread, but never leave the flag set with nobody to clear it.
- **`ExposureThreadDeadline`:** every thread ends within its exposure time plus the readout.
- **`UpdateThreadJoined`:** when `stop()` returns, the update loop has ended. Its 1 s sleep is shorter than the 2 s join.
- **`BusyClears`:** the camera always becomes idle again.

The camera's violation is a finding of `PROJECT.json`. TLC's trace shows it:

- **`camera_abort_completes`:** an `ABORT_EXPOSURE` arrives while the exposure thread sleeps in its readout. That thread already passed the check of line 186, so it still emits `EXPOSURE_COMPLETE`. Spec section 8 says no completion follows an abort.

The passing runs of the other programs show:

- **Filter wheel:** the monitor writes and then sleeps 2 s, and `stop()` joins it for 2 s. The run checks that the program implements `TaskRunner` under the mapping below, fairness included:
  - `task` is the monitor's place: not started, in its writes (`body`), ended (`done`), else `idle`;
  - `cancelled` holds once `stop()` has cleared `_is_running`;
  - `returned` holds once `stop()` has returned.
  So no `set_property` follows `stop()`, the monitor exits only on the cleared flag and does exit, and `stop()` returns. This holds even when `super().start()` fails after the thread has started.
- **Cooling:** two `SET_COOLER` commands are checked, to -10 °C and to -40 °C. Each may enable or disable, with or without a temperature, and interleaves with `update_loop` at every line.
  - The sensor stays in [-30, 50] °C. The loop never steps past the target it read, and a snap lands on a clamped target.
  - Once the last command has left the cooler on, the sensor reaches the target and the loop reports the holding power of 10, unless `stop()` ends the loop first.
- **Switch:** the switch implements `TaskRunner`, whose `Write` is never taken after `stop()` returned. This holds because `update_temp` writes before it sleeps: when `join(1.0)` gives up, the thread is asleep, and its next `while` test exits.
- **Observatory:** for every set of devices that could be created, every weather history and a Ctrl+C at any step, the monitor calls no device after `cleanup` stopped them.
- **Solver:** the poll loop always ends, whether the job ends SUCCESS or FAILED.

The other violations:

1. **`periodic_telescope_write`:**
   - `custom_task` sleeps 5 s before it writes and never re-tests the flag.
   - `stop()` joins for 2 s and returns.
   - The event and the two properties then land on the stopped device.
2. **`observatory_light_blind`:**
   - The weather monitor's emergency shutdown closes the dome during the imaging sequence.
   - The monitor decided on the shutdown while the weather was unsafe; the weather reads safe again, and the sequence's own check passes.
   - The sequence exposes the next Light frame against the closed dome. Nothing tells the sequence that an emergency happened.
3. **`observatory_interrupt_open`:**
   - `open_observatory` has unparked the telescope, and the user presses Ctrl+C.
   - `except KeyboardInterrupt` prints, and `finally` calls `cleanup()`: it clears `running`, joins the monitor, stops the devices and shuts down.
   - Nothing calls `close_observatory`, so the program ends with the telescope unparked. A Ctrl+C during the imaging leaves the dome and the cover open too. The same holds for any exception that ends the `try` block.
4. **`guider_guiding_after_stop`:**
   - Ctrl+C arrives just as the calibration completes.
   - `finally` reads CALIBRATING and skips `stop_guiding`, and `stop()` returns.
   - The monitor's next poll calls `start_guiding` on the stopped guider.
5. **`cooling_snap`:** this is the spec's own section 8 scenario, a single `SET_COOLER(True, -10)`.
   - `set_cooler` writes `cooler_enabled` (line 267).
   - `update_loop` sees the cooler enabled and reads the old target of 20 °C, so `temp_diff` is 0 and within the band.
   - `set_cooler` writes `cooler_temp = -10` (line 269).
   - The snap at line 108 reads `cooler_temp` again: the sensor jumps from 20 °C to -10 °C in one tick, reporting a power of 10.
   - Spec section 4.5 says the sensor moves in proportion to the power, and section 8 expects it to fall tick by tick.

**Why the bounds are enough.**

- Two exposures are the fewest that can orphan a thread.
- Durations of 0 and 3 ticks cover two cases. A zero exposure skips the loop, the edge of line 174. A 1.5 s exposure sleeps in the loop three times, so an abort can land before, inside and after the loop.
- With the 2-tick readout, the 1.5 s exposure takes longer than the 4-tick join of `stop()`.
- One `start()`/`stop()` cycle is what `main()` performs.

The 0-tick exposure is also the one that finishes fastest, so every interleaving of the handlers with the shortest thread is explored.

The bounds of the other runs:

- **`TickRate = 4`:** quarter seconds separate the 1 s, 2 s and 5 s sleeps and joins strictly. The ratios, not the absolute times, decide every race.
- **`MaxSets = 2` (switch):** two `SET_TEMPERATURE` commands arrive while the update thread runs and while it is being stopped.
- **Cooling:** temperatures are integers in millidegrees. The loop's steps are multiples of 0.01 °C and its band is 0.1 °C, so the cooling branch is exact. The warming branch's 5% step is truncated to the grid. That is less than a millidegree off, and it is only taken more than 100 millidegrees from ambient. Two commands give a command that lands between the loop's reads and a later last command that the settling property is about. The target -10 °C is the spec's scenario. -40 °C is clamped, which `SensorInRange` needs. From 20 °C, the loop takes about 40 ticks to reach -30 °C, so every power from 100 down to the band is reached.
- **`ShotBound = 2`:** two frames of each type give a frame that an emergency interrupts and a following frame that the sequence goes on to take.
- **`present` ranges over all 128 subsets of the seven devices,** so every count of pre-checks occurs.
- **`CalMax = 5`, `CalMayFail = TRUE`:** calibrations of 1 to 5 s, polled every second, complete or fail before, at and after any poll, and before and after a Ctrl+C.
- **`ProgressSteps = 10`:** the spec's progress in tens of percent.

**Mutants.** Each property of the passing run is broken by a plausible bug in the mapped code:

- `ExposureClear` without line 197 breaks `BusyHasWorker`.
- The loop test with `<=` breaks `ExposureThreadDeadline`.
- The loop test without the elapsed-time condition breaks `BusyClears`.
- An update sleep of 2.5 s breaks `UpdateThreadJoined`.
- A filter-wheel monitor that sleeps before it writes breaks `TaskRunnerSpec` (`periodic_filterwheel`).
- An `update_temp` that sleeps first breaks the switch's `TaskRunnerSpec`: after `stop()` it wakes and begins a body.
- A `cleanup` that does not join breaks `NoCommandAfterStop`.
- A poll loop that waits for SUCCESS breaks `PollEnds`.
- A `set_cooler` that stores the temperature without the clamp breaks `SensorInRange`.
- A power computed without the `* 10` breaks `CoolingSettles`: the loop then circles a target it cannot hit.

## 4. Proofs

`AdvancedCamera_proofs` proves, for every set of durations and every bound
`MaxJobs` allowed by `DurationsAssumption` and `MaxJobsAssumption`:

- `IInvHolds`: `Spec => []IInv`;
- `TypeCorrect`: `Spec => []TypeOK`;
- `BusyHasWorkerHolds`: `Spec => []BusyHasWorker`, the invariant that the `camera_safety` run checks.

`BusyHasWorker` is not inductive by itself. The exposure thread clears
`is_exposing` at line 197 and leaves the `Alive` states only at line 203. In
between it publishes (`ready`, `publish`, `announce`). A new exposure may start
in that window, but then `latest` names the new thread. The missing fact is
`ClearedAfterLine197`: while the newest thread is past line 197 (or past 217 on
the error path), `is_exposing` is false. Without it, a state in which thread
`latest` is at `announce` with `is_exposing` set is a counterexample to
induction: its `ExposureAnnounce` step ends the thread and breaks
`BusyHasWorker`.

`IInv == TypeOK /\ BusyHasWorker /\ ClearedAfterLine197`. The proof has:

- one lemma for `Init`;
- one lemma per group of actions: the two handlers, the exposure thread with one case per statement group, the update thread, the lifecycle and `Tick`;
- the stuttering case.

The temporal step is `PTL`.

The same module proves the camera's two timing properties for every set of
durations:

- `UpdateThreadJoinedHolds`: `Spec => []UpdateThreadJoined`.
  - The strengthening is `JoinOutlastsSleep`. The update thread never sleeps longer than the 2 ticks of line 95.
  - While `stop()` joins, `running` is clear and a sleep in progress ends strictly before the 4-tick join times out (`uwait < swait`).
  - A thread at its `while` test still has join time left.
  - Once `stop()` is past the join, the thread has ended or never started.
  - `Tick` keeps `uwait < swait` because it decrements both and is never taken while the update thread can run.
- `ExposureThreadDeadlineHolds`: `Spec => []ExposureThreadDeadline`.
  - The strengthening is `TimeLeft`. An exposure thread not yet created has not aged.
  - A live thread's age plus the sleep it is in is at most its exposure time. After line 191 the readout is added (`Late`).
  - The loop of line 172 sleeps only while `age < exposure_time`, and line 191 sleeps once.
  - `Tick` moves a tick from the sleep to the age, and it is taken only while every live thread sleeps.
  - Each exposure statement is shown to keep the bound through one lemma, `JobMoveTime`: thread `i` moves to state `s` with `w` ticks of sleep.

`CustomSwitch_proofs` proves, for every `TickRate` and `MaxSets`:

- `IInvHolds`: `Spec => []IInv`, whose three parts are below;
- `RefinesTaskRunner`: `Spec => TR!SafeSpec`, the safety part of the `TaskRunnerSpec` that the `switch_lifecycle` run checks.

The invariant has three parts:

- `RunningWhileServing`: `running` is set only between `start()` and `stop()`.
- `BodyBeforeTimeout`: while `stop()` joins, a body of `update_temp` that is under way still has join time left. The body does not sleep, and no tick passes while a thread can run.
- `NoBodyAfterStop`: once `stop()` has returned, `update_temp` is not in its body.

The join of 1 s is shorter than the 2 s sleep, so `stop()` does return with the thread alive. It is asleep then, and its next `while` test exits. The proof rests on `update_temp` writing before it sleeps: the mutant that sleeps first fails the invariant.

For `RefinesTaskRunner`, `update_temp`, `start()` and `stop()` implement the safety part of `TaskRunner` under the mapping `TaskPhase` of `CustomSwitch`, in which the body runs from the load at line 40 to the end of the event at line 47. Two more facts, `SInv`, are needed:

- `ServingRunning`: while `run()` serves, `running` is set. So a `while` test that finds the flag clear maps to `Exit`, which needs `stop()` to have begun.
- `SpawnedAtStart`: the thread exists exactly when `start()` has succeeded. This makes `StartCall` a `Spawn` and a failed start a stutter.

`NoBodyAfterStop` makes the end of a body a `Write`, which must come before `Return`. The load, store and publish steps inside the body are stutters.

`CameraCooling_proofs` proves, for every set of `Targets` of integers and every `MaxSets`:

- `IInvHolds`: `Spec => []IInv`;
- `SensorInRangeHolds`: `Spec => []SensorInRange`, the invariant that the `cooling_settles` run checks.

`SensorInRange` is not inductive by itself. Between line 100 and its write, the loop holds `temp_diff`, and `set_cooler` may store a new target in between. The strengthening has two parts:

- `TargetInRange`: the stored target is in range, since line 269 clamps it. A `set_cooler` in progress was given an integer.
- `DiffToRange`: while the loop holds `temp_diff`, the target it read (`sensor + diff`) was in range. Only the loop writes `sensor_temp`.

Three arithmetic lemmas carry the steps:

- `ClampInRange`: the clamp lands in range.
- `RelaxInRange`: the 5% step toward ambient stays between the sensor and 20 °C.
- `DriveInRange`: the driven step is `power * 10` millidegrees with `power <= abs(diff) / 100`, so it never passes the target it read.

The snap inside the band writes the current target, which is in range. So a stale read does not break the range; it breaks only the step bound, which `cooling_snap` shows. The SMT encoding of tlapm does not handle an interval with literal bounds as large as `-30000..50000`. So the lemmas reach the range only through `InTempRange`, which states membership as two comparisons.

`Observatory_proofs` proves, for every `ShotBound`, every set of created
devices, every weather history and a Ctrl+C at any step of the `try` block:

- `StopInvHolds`: `Spec => []StopInv`;
- `NoCommandAfterStopHolds`: `Spec => NoCommandAfterStop`, the action property that the `observatory_safety` run checks.

`SecuredAtEnd` has no theorem: it is false, and `observatory_interrupt_open` shows it.

`NoCommandAfterStop` rests on the invariant `StopInv`, which has three parts:

- from `cleanup`'s `self.running = False` on, `running` stays clear;
- once the join has returned, the monitor has ended, sleeps, or is about to test the flag;
- `stopped` holds only after the join.

The join leaves the monitor quiet because a device call of the monitor returns well within the 5 s timeout, while its `sleep(30)` does not. The next step of a sleeping monitor is the `while` test, and that test finds the flag cleared.

The proof has one case per action of the main thread, one for `KeyboardInterrupt` (it is taken only before `cleanup()` and leaves `running` and the monitor as they are), and one per step of the weather monitor.

`PeriodicTask_proofs` proves, for the filter wheel (`Device = "filterwheel"`)
and every `TickRate` allowed by `TickRateAssumption`:

- `IInvHolds`: `Spec => []IInv`;
- `RefinesTaskRunner`: `Spec => TR!SafeSpec`. The filter wheel with its `start()` and `stop()` implements the safety part of `TaskRunner` under the mapping of section 3.

A step maps to a `TaskRunner` step only under three facts about reachable states, which together with `TypeOK` form `IInv`:

- `FlagWhileServing`: `_is_running` is set exactly from `start()` until `stop()`. So a `while` test that finds it set maps to `Begin`, and one that finds it clear maps to `Exit`.
- `SpawnedAtStart`: the monitor has not started exactly while `start()` has not run. This makes `StartCall` a `Spawn`.
- `WorkBeforeReturn`: while the monitor writes, `stop()` has not returned. If `stop()` is in its join, its whole 2 s timeout is still ahead. This is what makes `WorkerWork` a `Write` and keeps `StopJoin`'s `Return` from overtaking a write. It rests on the monitor writing before it sleeps, and on the join being as long as that sleep.

Only TLC checks the rest:

- the liveness property `BusyClears`, which needs fairness and `ENABLED`, both beyond TLAPS;
- the fairness part of `TaskRunnerSpec`: the monitor exits, and `stop()` returns;
- the telescope's `NoWriteAfterStop`, the observatory's `SecuredAtEnd` and `LightFramesSeeSky`, and the cooling's `SensorStepBounded`, which fail;
- the fairness part of the switch's `TaskRunnerSpec`;
- `NoGuidingAfterStop` of `Guider`, which fails;
- `CoolingSettles`, a liveness property;
- `PollEnds`, a liveness property.

## 5. Plan

`CameraCooling`, the abstract `TaskRunner` with the filter wheel's and the switch's refinements
proved, and the proofs of `NoCommandAfterStop` and `SensorInRange` are done. Every invariant and action property of a passing run has a theorem; what remains for TLC alone is liveness. Still to do, in this order:

1. **An abstract `ExposureJob`** (spec section 4.5), with `AdvancedCamera` mapped onto it. The refinement fails where `AbortedNeverCompletes` does.
2. **`Observatory` with raising device calls:**
   - The single `try` block of `emergency_shutdown` skips the remaining calls after a failure.
   - Property: every call after a failed one is still attempted.
3. **Questions met while modelling that have no run** (their hazards in `PROJECT.json` say so):
   - `stop()` of the camera joins only the newest exposure thread, so an older, aborted one can outlive it. A 1.5 s exposure plus its 1 s readout also outlives the 2 s join.
   - Lines 197-200 of the exposure thread publish `image_ready` without the lock. An abort and a restart in between leave the property saying that an image is ready.
   - The switch's `update_temp` loads `self.temperature`, `SET_TEMPERATURE` stores, and the stale sum is stored over it. `TemperatureNotLost` in `CustomSwitch` states the property, and TLC finds it violated with `MaxSets = 2`.
   - The guider script dithers after a fixed 30 s without reading the guider's state. `DitherWhileGuiding` in `Guider` states spec section 4.7's rule, and TLC finds it violated as soon as the calibration may end FAILED.
   - The observatory's 80% pre-check rule passes with the weather check failed when the dome, the weather station and the safety monitor are the five checks.
4. **The refinement for the telescope**, where it fails along the `periodic_telescope_write` trace, and `CoolingSettles` without the snap race once the code reads `cooler_temp` once.

## 6. Not modelled

These parts are not modelled:

- **`generate_image`:** its pixel synthesis is left out; only "stores an image" or "raises" is kept.
- **C++ base classes:** their connection, registration and message loop are out of scope.
- **ASCOM/INDI compatibility:** the bridging is excluded by `spec.md` section 1.
- **The binding tests, the build scripts, `setup.py` and `conanfile.py`:** these are test and build tooling.
- **Thin subclasses:** `focuser_example.py`, `filter_wheel_example.py`, `rotator_example.py` and `switch_example.py` only forward calls.
- **`Observatory`:**
  - Parameter-only calls are left out: cooler, binning, gain, focuser, dome slaving, safety thresholds.
  - `show_system_status` is left out: it only reads.
  - Raising device calls are left out (plan item 2). A call that raises out of the `try` block of `run_observatory` ends it as a Ctrl+C does, which `KeyboardInterrupt` covers.
- **`Solver`:** `load_and_solve_image` is not modelled. The script never calls it.
- **Command handlers that only format a response:** `CUSTOM_COMMAND`, `CALCULATE_FIELD`, `GET_TEMPERATURE`.
