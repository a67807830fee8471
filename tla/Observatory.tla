----------------------------- MODULE Observatory -----------------------------
(***************************************************************************)
(* CompleteObservatory (src/examples/python/complete_observatory_example.py)*)
(*                                                                         *)
(* Two threads share the devices:                                          *)
(*  - the main thread runs run_observatory: create the devices, start the  *)
(*    weather monitor, the pre-observation checks, open, image, close, and *)
(*    cleanup (running = False, join(timeout=5), stop every device);       *)
(*  - the weather_monitor thread: while running: if the weather is unsafe, *)
(*    emergency_shutdown (close shutter, park, close cover, abort); sleep. *)
(* The weather itself changes at any time.                                 *)
(*                                                                         *)
(* Every device call is one step.  The model is untimed: the exposures'    *)
(* sleep(exposure_time + 2) and the monitor's sleep(30) end at any point,  *)
(* and the 5 s join may time out whenever the thread has not ended.        *)
(* Ctrl+C may end the try block at any step; device calls do not raise    *)
(* here (see the README).                                                  *)
(***************************************************************************)
EXTENDS Naturals, Sequences, FiniteSets

CONSTANT ShotBound   \* frames taken of each type, at most (the code takes 5, 3, 10)

ASSUME ShotBoundAssumption == ShotBound \in Nat \ {0}

\* device_configs of create_observatory_devices plus the optional safety
\* monitor and cover calibrator; each creation may fail (lines 66-101)
AllDevices == {"camera", "telescope", "focuser", "dome", "weather", "safety",
               "cover"}

\* the exposures list of run_imaging_sequence (lines 337-341)
Exposures == <<[kind |-> "Light", count |-> 5],
               [kind |-> "Dark", count |-> 3],
               [kind |-> "Flat", count |-> 10]>>

Count(f) == IF Exposures[f].count < ShotBound THEN Exposures[f].count
                                               ELSE ShotBound

\* Where the main thread is.
MainStates == {"init", "startmon", "precheck", "unpark", "open_shutter",
               "open_cover", "img_check", "img_expose", "img_wait",
               "close_cover", "close_park", "close_shutter", "cleanup",
               "join", "stopdev", "shutdown", "done"}
\* Where the weather monitor is.
WeatherStates == {"none", "test", "check", "em_dome", "em_park", "em_cover",
                  "em_camera", "sleep", "done"}

VARIABLES
    present,    \* self.devices: the devices that were created
    running,    \* self.running
    safe,       \* the weather: is it safe for observing?
    shutter,    \* the dome shutter: "open" or "closed"
    mount,      \* the telescope: "parked" or "unparked"
    cover,      \* the dust cover: "open" or "closed"
    camera,     \* the camera: "idle" or "exposing"
    stopped,    \* has cleanup called stop_device on the devices?
    mpc,        \* where the main thread is
    frame,      \* the index into Exposures of run_imaging_sequence's loop
    shot,       \* i, the frame of that type being taken
    wpc         \* where the weather monitor is

vars == <<present, running, safe, shutter, mount, cover, camera, stopped,
          mpc, frame, shot, wpc>>

TypeOK ==
    /\ present \subseteq AllDevices
    /\ running \in BOOLEAN /\ safe \in BOOLEAN /\ stopped \in BOOLEAN
    /\ shutter \in {"open", "closed"}
    /\ mount \in {"parked", "unparked"}
    /\ cover \in {"open", "closed"}
    /\ camera \in {"idle", "exposing"}
    /\ mpc \in MainStates
    /\ frame \in 1..Len(Exposures)
    /\ shot \in 0..ShotBound
    /\ wpc \in WeatherStates

\* __init__ (lines 30-34); the devices start closed and parked
Init ==
    /\ present = {}
    /\ running = FALSE
    /\ safe \in BOOLEAN
    /\ shutter = "closed" /\ mount = "parked" /\ cover = "closed"
    /\ camera = "idle"
    /\ stopped = FALSE
    /\ mpc = "init"
    /\ frame = 1 /\ shot = 0
    /\ wpc = "none"

Has(d) == d \in present

\* A device call: when the device exists, set the variable, else nothing.
Call(d, var, val) == var' = IF Has(d) THEN val ELSE var

DeviceVars == <<shutter, mount, cover, camera>>

(***************************************************************************)
(* The main thread.                                                        *)
(***************************************************************************)
\* initialize_observatory: create the devices (each may fail), then set up
\* the coordination (no state of its own)
Initialize ==
    /\ mpc = "init"
    /\ \E s \in SUBSET AllDevices : present' = s
    /\ mpc' = "startmon"
    /\ UNCHANGED <<running, safe, stopped, frame, shot, wpc>>
    /\ UNCHANGED DeviceVars

\* self.running = True; start_weather_monitoring(); show_system_status();
\* time.sleep(5)
StartMonitoring ==
    /\ mpc = "startmon"
    /\ running' = TRUE
    /\ wpc' = "test"
    /\ mpc' = "precheck"
    /\ UNCHANGED <<present, safe, stopped, frame, shot>>
    /\ UNCHANGED DeviceVars

\* pre_observation_checks: weather, safety monitor, then one responsiveness
\* check per device; pass when checks_passed / total_checks * 100 >= 80
PassRate(passed, total) == total > 0 /\ passed * 100 >= 80 * total

PreCheck ==
    /\ mpc = "precheck"
    /\ \E safetyOk \in BOOLEAN, responsive \in SUBSET present :
         LET weatherN == IF Has("weather") THEN 1 ELSE 0
             safetyN  == IF Has("safety") THEN 1 ELSE 0
             total    == weatherN + safetyN + Cardinality(present)
             passed   == (IF Has("weather") /\ safe THEN 1 ELSE 0)
                         + (IF Has("safety") /\ safetyOk THEN 1 ELSE 0)
                         + Cardinality(responsive)
         IN  mpc' = IF PassRate(passed, total) THEN "unpark" ELSE "cleanup"
    /\ UNCHANGED <<present, running, safe, stopped, frame, shot, wpc>>
    /\ UNCHANGED DeviceVars

MainVarsOther == <<present, running, safe, stopped, frame, shot, wpc>>

\* open_observatory: telescope.unpark(); dome.open_shutter() and the slew to
\* the telescope's azimuth; cover.open_cover()
Unpark ==
    /\ mpc = "unpark"
    /\ Call("telescope", mount, "unparked")
    /\ mpc' = "open_shutter"
    /\ UNCHANGED <<shutter, cover, camera>> /\ UNCHANGED MainVarsOther

OpenShutter ==
    /\ mpc = "open_shutter"
    /\ Call("dome", shutter, "open")
    /\ mpc' = "open_cover"
    /\ UNCHANGED <<mount, cover, camera>> /\ UNCHANGED MainVarsOther

\* cover.open_cover(); then setup_imaging (cooler, binning, gain, focuser:
\* properties no step here reads); run_imaging_sequence returns at once
\* when there is no camera
OpenCover ==
    /\ mpc = "open_cover"
    /\ Call("cover", cover, "open")
    /\ mpc' = IF Has("camera") THEN "img_check" ELSE "close_cover"
    /\ UNCHANGED <<shutter, mount, camera>> /\ UNCHANGED MainVarsOther

\* for each frame: if the weather is unsafe: return (lines 349-354)
ImagingCheck ==
    /\ mpc = "img_check"
    /\ mpc' = IF Has("weather") /\ ~safe THEN "close_cover" ELSE "img_expose"
    /\ UNCHANGED DeviceVars /\ UNCHANGED MainVarsOther

\* calibrator_on(50) for a flat, then camera.start_exposure(exposure_time)
ImagingExpose ==
    /\ mpc = "img_expose"
    /\ camera' = "exposing"
    /\ mpc' = "img_wait"
    /\ UNCHANGED <<shutter, mount, cover>> /\ UNCHANGED MainVarsOther

\* the position after frame (f, i) of the nested for loops
LastShot(f, i) == i + 1 = Count(f) /\ f = Len(Exposures)

\* time.sleep(exposure_time + 2) lets the exposure finish; save_image;
\* calibrator_off() for a flat; on to the next frame, or out of the loops
ImagingFinish ==
    /\ mpc = "img_wait"
    /\ camera' = "idle"
    /\ IF LastShot(frame, shot)
         THEN mpc' = "close_cover" /\ UNCHANGED <<frame, shot>>
         ELSE /\ mpc' = "img_check"
              /\ IF shot + 1 < Count(frame)
                   THEN shot' = shot + 1 /\ UNCHANGED frame
                   ELSE frame' = frame + 1 /\ shot' = 0
    /\ UNCHANGED <<shutter, mount, cover>>
    /\ UNCHANGED <<present, running, safe, stopped, wpc>>

\* close_observatory: cooler off, then close_cover(), park(), close_shutter()
CloseCover ==
    /\ mpc = "close_cover"
    /\ Call("cover", cover, "closed")
    /\ mpc' = "close_park"
    /\ UNCHANGED <<shutter, mount, camera>> /\ UNCHANGED MainVarsOther

\* Mutant: close_observatory leaves the telescope unparked.
ClosePark_Skipped ==
    /\ mpc = "close_park"
    /\ mpc' = "close_shutter"
    /\ UNCHANGED DeviceVars /\ UNCHANGED MainVarsOther

ClosePark ==
    /\ mpc = "close_park"
    /\ Call("telescope", mount, "parked")
    /\ mpc' = "close_shutter"
    /\ UNCHANGED <<shutter, cover, camera>> /\ UNCHANGED MainVarsOther

CloseShutter ==
    /\ mpc = "close_shutter"
    /\ Call("dome", shutter, "closed")
    /\ mpc' = "cleanup"
    /\ UNCHANGED <<mount, cover, camera>> /\ UNCHANGED MainVarsOther

\* run_observatory's try block: from initialize_observatory to the end of
\* close_observatory (lines 492-512)
TryStates == MainStates \ {"cleanup", "join", "stopdev", "shutdown", "done"}

\* Ctrl+C anywhere in the try block: except KeyboardInterrupt prints, and
\* finally runs cleanup() at once, with no close_observatory (lines 514-519).
\* An interrupt inside initialize_observatory leaves some of the devices
\* created; elsewhere the devices stay as they are, open or closed, and an
\* exposure under way goes on.
KeyboardInterrupt ==
    /\ mpc \in TryStates
    /\ mpc' = "cleanup"
    /\ present' \in IF mpc = "init" THEN SUBSET AllDevices ELSE {present}
    /\ UNCHANGED <<running, safe, stopped, frame, shot, wpc>>
    /\ UNCHANGED DeviceVars

\* Mutant: cleanup stops the devices without joining the monitor.
CleanupStart_NoJoin ==
    /\ mpc = "cleanup"
    /\ running' = FALSE
    /\ mpc' = "stopdev"
    /\ UNCHANGED <<present, safe, stopped, frame, shot, wpc>>
    /\ UNCHANGED DeviceVars

\* cleanup: self.running = False; join(timeout=5) if the thread is alive
CleanupStart ==
    /\ mpc = "cleanup"
    /\ running' = FALSE
    /\ mpc' = IF wpc \in {"none", "done"} THEN "stopdev" ELSE "join"
    /\ UNCHANGED <<present, safe, stopped, frame, shot, wpc>>
    /\ UNCHANGED DeviceVars

\* join returns when the thread ended, or after 5 s with it still alive:
\* a device call of the monitor returns well within 5 s, its sleep(30) does
\* not, so the timeout ends a join only while the monitor sleeps
CleanupJoin ==
    /\ mpc = "join"
    /\ wpc \in {"done", "sleep"}
    /\ mpc' = "stopdev"
    /\ UNCHANGED DeviceVars /\ UNCHANGED MainVarsOther

\* stop_device() on every device
StopDevices ==
    /\ mpc = "stopdev"
    /\ stopped' = TRUE
    /\ mpc' = "shutdown"
    /\ UNCHANGED <<present, running, safe, frame, shot, wpc>>
    /\ UNCHANGED DeviceVars

\* shutdown_compatibility_system(); then main() returns and the process
\* ends, the daemon thread with it
Shutdown ==
    /\ mpc = "shutdown"
    /\ mpc' = "done"
    /\ UNCHANGED DeviceVars /\ UNCHANGED MainVarsOther

(***************************************************************************)
(* The weather monitor (lines 142-157); it dies with the process.          *)
(***************************************************************************)
WeatherVarsOther == <<present, running, safe, stopped, mpc, frame, shot>>

Monitor(from, to, d, var, val) ==
    /\ mpc # "done"
    /\ wpc = from
    /\ wpc' = to
    /\ Call(d, var, val)

WeatherTest ==
    /\ mpc # "done" /\ wpc = "test"
    /\ wpc' = IF running THEN "check" ELSE "done"
    /\ UNCHANGED DeviceVars /\ UNCHANGED WeatherVarsOther

\* weather.refresh(); if not weather.is_safe_for_observing(): shutdown
WeatherCheck ==
    /\ mpc # "done" /\ wpc = "check"
    /\ wpc' = IF Has("weather") /\ ~safe THEN "em_dome" ELSE "sleep"
    /\ UNCHANGED DeviceVars /\ UNCHANGED WeatherVarsOther

\* emergency_shutdown (lines 163-193)
EmergencyDome ==
    /\ Monitor("em_dome", "em_park", "dome", shutter, "closed")
    /\ UNCHANGED <<mount, cover, camera>> /\ UNCHANGED WeatherVarsOther
EmergencyPark ==
    /\ Monitor("em_park", "em_cover", "telescope", mount, "parked")
    /\ UNCHANGED <<shutter, cover, camera>> /\ UNCHANGED WeatherVarsOther
EmergencyCover ==
    /\ Monitor("em_cover", "em_camera", "cover", cover, "closed")
    /\ UNCHANGED <<shutter, mount, camera>> /\ UNCHANGED WeatherVarsOther
EmergencyCamera ==
    /\ Monitor("em_camera", "sleep", "camera", camera, "idle")
    /\ UNCHANGED <<shutter, mount, cover>> /\ UNCHANGED WeatherVarsOther

\* time.sleep(30) ends
WeatherWake ==
    /\ mpc # "done" /\ wpc = "sleep"
    /\ wpc' = "test"
    /\ UNCHANGED DeviceVars /\ UNCHANGED WeatherVarsOther

WeatherStep ==
    \/ WeatherTest \/ WeatherCheck \/ WeatherWake
    \/ EmergencyDome \/ EmergencyPark \/ EmergencyCover \/ EmergencyCamera

\* The sky changes, while the program runs.
WeatherChange ==
    /\ mpc # "done"
    /\ safe' = ~safe
    /\ UNCHANGED <<present, running, shutter, mount, cover, camera, stopped,
                   mpc, frame, shot, wpc>>

MainStep ==
    \/ Initialize \/ StartMonitoring \/ PreCheck
    \/ Unpark \/ OpenShutter \/ OpenCover
    \/ ImagingCheck \/ ImagingExpose \/ ImagingFinish
    \/ CloseCover \/ ClosePark \/ CloseShutter
    \/ CleanupStart \/ CleanupJoin \/ StopDevices \/ Shutdown

\* main() has returned: the program is over.
Terminated == mpc = "done"

Next ==
    \/ MainStep \/ KeyboardInterrupt \/ WeatherStep \/ WeatherChange
    \/ Terminated /\ UNCHANGED vars

\* Both threads run whenever they can; the weather is not bound to change,
\* and the user need never press Ctrl+C.
Fairness == WF_vars(MainStep) /\ WF_vars(WeatherStep)

Spec == Init /\ [][Next]_vars
FairSpec == Spec /\ Fairness

(***************************************************************************)
(* Properties.                                                             *)
(***************************************************************************)

\* When run_observatory has finished, the dome is closed, the telescope is
\* parked and the dust cover is closed, however the weather monitor's
\* emergency shutdowns interleaved with the sequence and wherever a Ctrl+C
\* ended the try block: cleanup() is the place that secures the
\* observatory on every way out.
SecuredAtEnd ==
    mpc = "done" => shutter = "closed" /\ mount = "parked" /\ cover = "closed"

\* The sky is visible to the camera: every optical device there is open.
SkyVisible ==
    /\ Has("dome") => shutter = "open"
    /\ Has("telescope") => mount = "unparked"
    /\ Has("cover") => cover = "open"

\* run_imaging_sequence starts a Light frame only when the sky is visible:
\* an emergency shutdown of the weather monitor ends the imaging, it does
\* not leave the sequence exposing against a closed dome (lines 343-366).
LightFramesSeeSky ==
    [][(mpc = "img_expose" /\ mpc' = "img_wait"
        /\ Exposures[frame].kind = "Light") => SkyVisible]_vars

\* Once cleanup has stopped the devices, the weather monitor calls none of
\* them: no refresh, no step of emergency_shutdown (cleanup's join(timeout=5),
\* lines 469-481, against the monitor's sleep(30), lines 142-157).
MonitorCalls ==
    \/ wpc = "check" /\ Has("weather")
    \/ wpc \in {"em_dome", "em_park", "em_cover", "em_camera"}

NoCommandAfterStop ==
    [][(stopped /\ MonitorCalls) => wpc' = wpc]_vars
=============================================================================
