------------------------------- MODULE Guider -------------------------------
(***************************************************************************)
(* PiGuider and its script (src/examples/python/guider_example.py).        *)
(*                                                                         *)
(* The script starts the guider, calls auto_calibrate_and_guide (start     *)
(* calibration, spawn monitor_calibration), sleeps 30 s, calls auto_dither *)
(* three times 10 s apart and enters run(); Ctrl+C ends any of the sleeps  *)
(* or run(), and the finally clause stops guiding if the state property    *)
(* says GUIDING, then stop()s the device.  monitor_calibration polls       *)
(* calibrationState once a second and calls start_guiding on COMPLETED.    *)
(*                                                                         *)
(* The calibration itself is the C++ guider's (spec section 4.7): it runs  *)
(* a bounded time, at most CalMax s, and ends COMPLETED or FAILED;         *)
(* dither is valid only in GUIDING; stop() cancels the calibration.        *)
(* One tick is one second; Tick is taken only when no thread can run.      *)
(***************************************************************************)
EXTENDS Naturals, Sequences

CONSTANTS
    CalMax,      \* the calibration's longest duration, in seconds
    CalMayFail   \* can the calibration end FAILED?

\* self.dither_sequence (line 18)
DitherSequence == <<"1.5", "2.0", "2.5", "2.0", "1.5">>

\* time.sleep(30) after auto_calibrate_and_guide (line 97)
CalibrationWait == 30
\* time.sleep(10) after each auto_dither (line 103)
DitherWait == 10
\* for _ in range(3) (line 101)
Dithers == 3
\* monitor_calibration's time.sleep(1) (line 46)
PollWait == 1

GuiderStates == {"IDLE", "CALIBRATING", "GUIDING", "FAILED"}
CalStates == {"IDLE", "CALIBRATING", "COMPLETED", "FAILED"}
\* the script: before start, sleeping 30 s, about to dither, sleeping 10 s,
\* in run(), in the finally clause, about to stop(), after stop()
MainStates == {"init", "wait", "dither", "dwait", "run", "final", "stop",
               "disconnect", "done"}
\* monitor_calibration: not spawned, asleep, polling, about to
\* start_guiding, returned
MonitorStates == {"none", "sleep", "poll", "startguide", "done"}

VARIABLES
    state,      \* the guider's "state" property
    calState,   \* the "calibrationState" property
    calLeft,    \* seconds the calibration still runs
    stopped,    \* has stop() been called?
    index,      \* self.dither_index
    mpc,        \* where the script is
    mwait,      \* seconds the script still sleeps
    nd,         \* auto_dither calls so far
    mon,        \* where monitor_calibration is
    monWait     \* seconds the monitor still sleeps

vars == <<state, calState, calLeft, stopped, index, mpc, mwait, nd, mon,
          monWait>>

TypeOK ==
    /\ state \in GuiderStates /\ calState \in CalStates
    /\ calLeft \in 0..CalMax
    /\ stopped \in BOOLEAN
    /\ index \in 0..(Len(DitherSequence) - 1)
    /\ mpc \in MainStates /\ mwait \in Nat /\ nd \in 0..Dithers
    /\ mon \in MonitorStates /\ monWait \in Nat

\* __init__: dither_index = 0 (line 19)
Init ==
    /\ state = "IDLE" /\ calState = "IDLE" /\ calLeft = 0
    /\ stopped = FALSE
    /\ index = 0
    /\ mpc = "init" /\ mwait = 0 /\ nd = 0
    /\ mon = "none" /\ monWait = 0

(***************************************************************************)
(* The script.                                                             *)
(***************************************************************************)
\* connect, register_device and start() (lines 74-88); a failure is
\* sys.exit(1), which runs the finally clause.  On success,
\* auto_calibrate_and_guide: start_calibration() (IDLE -> CALIBRATING),
\* spawn the monitor; then time.sleep(30).
StartScript ==
    /\ mpc = "init"
    /\ \/ /\ \E d \in 1..CalMax : calLeft' = d
          /\ state' = "CALIBRATING" /\ calState' = "CALIBRATING"
          /\ mon' = "sleep" /\ monWait' = PollWait
          /\ mpc' = "wait" /\ mwait' = CalibrationWait
       \/ /\ mpc' = "final"
          /\ UNCHANGED <<state, calState, calLeft, mon, monWait, mwait>>
    /\ UNCHANGED <<stopped, index, nd>>

WakeFromWait ==
    /\ mpc = "wait" /\ mwait = 0
    /\ mpc' = "dither"
    /\ UNCHANGED <<state, calState, calLeft, stopped, index, mwait, nd, mon,
                   monWait>>

\* auto_dither: amount = dither_sequence[dither_index]; advance the cursor
\* circularly; dither(amount, True), which the guider applies only while
\* GUIDING (a momentary offset: no state of its own).  Then time.sleep(10).
AutoDither ==
    /\ mpc = "dither"
    /\ index' = (index + 1) % Len(DitherSequence)
    /\ nd' = nd + 1
    /\ mpc' = "dwait" /\ mwait' = DitherWait
    /\ UNCHANGED <<state, calState, calLeft, stopped, mon, monWait>>

WakeFromDither ==
    /\ mpc = "dwait" /\ mwait = 0
    /\ mpc' = IF nd < Dithers THEN "dither" ELSE "run"
    /\ UNCHANGED <<state, calState, calLeft, stopped, index, mwait, nd, mon,
                   monWait>>

\* KeyboardInterrupt in a sleep or in run(): on to the finally clause.
Interrupt ==
    /\ mpc \in {"wait", "dwait", "run"}
    /\ mpc' = "final" /\ mwait' = 0
    /\ UNCHANGED <<state, calState, calLeft, stopped, index, nd, mon, monWait>>

\* finally: if get_property("state") == "GUIDING": stop_guiding()
Finally ==
    /\ mpc = "final"
    /\ state' = IF state = "GUIDING" THEN "IDLE" ELSE state
    /\ mpc' = "stop"
    /\ UNCHANGED <<calState, calLeft, stopped, index, mwait, nd, mon, monWait>>

\* guider.stop(): it cancels the calibration
Stop ==
    /\ mpc = "stop"
    /\ stopped' = TRUE
    /\ mpc' = "disconnect"
    /\ UNCHANGED <<state, calState, calLeft, index, mwait, nd, mon, monWait>>

\* guider.disconnect(); the script ends and the daemon monitor with it
Disconnect ==
    /\ mpc = "disconnect"
    /\ mpc' = "done"
    /\ UNCHANGED <<state, calState, calLeft, stopped, index, mwait, nd, mon,
                   monWait>>

(***************************************************************************)
(* monitor_calibration (lines 44-55).                                      *)
(***************************************************************************)
MonitorVarsOther == <<state, calState, calLeft, stopped, index, mpc, mwait, nd>>

MonitorWake ==
    /\ mpc # "done" /\ mon = "sleep" /\ monWait = 0
    /\ mon' = "poll"
    /\ UNCHANGED <<monWait>> /\ UNCHANGED MonitorVarsOther

\* state_prop = get_property("calibrationState"): COMPLETED, FAILED, or on
MonitorPoll ==
    /\ mpc # "done" /\ mon = "poll"
    /\ mon' = CASE calState = "COMPLETED" -> "startguide"
                [] calState = "FAILED"    -> "done"
                [] OTHER                  -> "sleep"
    /\ monWait' = PollWait
    /\ UNCHANGED MonitorVarsOther

\* start_guiding(); break
MonitorStartGuiding ==
    /\ mpc # "done" /\ mon = "startguide"
    /\ state' = "GUIDING"
    /\ mon' = "done"
    /\ UNCHANGED <<calState, calLeft, stopped, index, mpc, mwait, nd, monWait>>

(***************************************************************************)
(* The C++ calibration task (spec section 4.7).                            *)
(***************************************************************************)
\* the ways a calibration may end
CalOutcomes == IF CalMayFail THEN {"COMPLETED", "FAILED"} ELSE {"COMPLETED"}

CalibrationEnd ==
    /\ calState = "CALIBRATING" /\ calLeft = 0 /\ ~stopped
    /\ calState' \in CalOutcomes
    /\ state' = IF calState' = "FAILED" THEN "FAILED" ELSE state
    /\ UNCHANGED <<calLeft, stopped, index, mpc, mwait, nd, mon, monWait>>

(***************************************************************************)
(* Time.                                                                   *)
(***************************************************************************)
Dec(n) == IF n > 0 THEN n - 1 ELSE 0

Runnable ==
    \/ mpc \in {"init", "dither", "final", "stop", "disconnect"}
    \/ mpc \in {"wait", "dwait"} /\ mwait = 0
    \/ mpc # "done" /\ (mon \in {"poll", "startguide"} \/ (mon = "sleep" /\ monWait = 0))
    \/ calState = "CALIBRATING" /\ calLeft = 0 /\ ~stopped

Counting ==
    \/ mpc \in {"wait", "dwait"} /\ mwait > 0
    \/ mpc # "done" /\ mon = "sleep" /\ monWait > 0
    \/ calState = "CALIBRATING" /\ calLeft > 0 /\ ~stopped

Tick ==
    /\ ~Runnable /\ Counting
    /\ mwait' = Dec(mwait) /\ monWait' = Dec(monWait)
    /\ calLeft' = IF stopped THEN calLeft ELSE Dec(calLeft)
    /\ UNCHANGED <<state, calState, stopped, index, mpc, nd, mon>>

Terminated == mpc = "done"

Next ==
    \/ StartScript \/ WakeFromWait \/ AutoDither \/ WakeFromDither
    \/ Interrupt \/ Finally \/ Stop \/ Disconnect
    \/ MonitorWake \/ MonitorPoll \/ MonitorStartGuiding
    \/ CalibrationEnd
    \/ Tick
    \/ Terminated /\ UNCHANGED vars

Spec == Init /\ [][Next]_vars

(***************************************************************************)
(* Properties.                                                             *)
(***************************************************************************)

\* Spec section 4.7: dither is only valid in GUIDING.  The script's 30 s wait
\* is to ensure auto_dither runs only once guiding has started.
DitherWhileGuiding ==
    [][(mpc = "dither" /\ mpc' = "dwait") => state = "GUIDING"]_vars

\* Spec section 5: after stop() has returned, no task of the device still
\* changes it; monitor_calibration does not start guiding on a stopped guider.
NoGuidingAfterStop ==
    [][(mon = "startguide" /\ mon' = "done") => ~stopped]_vars
=============================================================================
