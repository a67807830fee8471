---------------------------- MODULE PeriodicTask ----------------------------
(***************************************************************************)
(* The background task that two of the example devices run beside the   *)
(* C++ device base, and the start()/stop() pair that owns it:              *)
(*                                                                         *)
(*   CustomTelescope   custom_telescope.py   while running: sleep(5.0);    *)
(*                                                  send_event; set_property*)
(*                     stop(): running = False; join(2.0)                  *)
(*   CustomFilterWheel custom_filter_wheel.py while _is_running:           *)
(*                                                  set_property; sleep(2.0)*)
(*                     start(): the thread is started BEFORE super().start()*)
(*                     stop(): _is_running = False; join(timeout=2.0)      *)
(*                                                                         *)
(* Each program's main() calls start() once and, after run() or its demo   *)
(* returns, stop() once.  Time advances in ticks of 1/TickRate s; Tick is  *)
(* taken only when no thread can run, as in module AdvancedCamera.  The    *)
(* switch, whose task also races a command handler, is module CustomSwitch.*)
(***************************************************************************)
EXTENDS Naturals

CONSTANTS
    Device,   \* which program: "telescope" or "filterwheel"
    TickRate  \* ticks per second

ASSUME TickRateAssumption == TickRate \in Nat \ {0}

\* CustomTelescope.start/stop/custom_task and main's finally: stop()
TelescopeTask == [sleep |-> 5 * TickRate, join |-> 2 * TickRate,
                  workFirst |-> FALSE, spawnFirst |-> FALSE, stopOnFail |-> TRUE]
\* Mutant: the monitor sleeps before it writes, as custom_task does.
FilterWheelTaskSleepFirst == [sleep |-> 2 * TickRate, join |-> 2 * TickRate,
                              workFirst |-> FALSE, spawnFirst |-> TRUE,
                              stopOnFail |-> TRUE]
\* CustomFilterWheel.start/stop/_monitor_temperature; main's finally: fw.stop()
FilterWheelTask == [sleep |-> 2 * TickRate, join |-> 2 * TickRate,
                    workFirst |-> TRUE, spawnFirst |-> TRUE, stopOnFail |-> TRUE]

Tasks == [telescope |-> TelescopeTask, filterwheel |-> FilterWheelTask]

ASSUME DeviceAssumption == Device \in DOMAIN Tasks

Task == Tasks[Device]

\* Where the worker thread is: not created, at the while test, in the body
\* (the set_property / send_event writes), asleep, or returned.
WorkerStates == {"none", "test", "work", "sleep", "done"}
WorkerAlive == {"test", "work", "sleep"}

\* Where the main thread is: before start(), between super().start() and the
\* end of start() when the thread was spawned first, serving, after a failed
\* start, inside join(), and after stop() returned.
MainStates == {"init", "basestart", "serving", "failed", "join", "stopped"}

VARIABLES
    running,  \* self.running / self._is_running
    base,     \* the C++ base device: has super().start() succeeded?
    wpc,      \* where the worker thread is
    wwait,    \* ticks the worker still sleeps
    mpc,      \* where the main thread is
    swait     \* ticks before the pending join times out

vars == <<running, base, wpc, wwait, mpc, swait>>

TypeOK ==
    /\ running \in BOOLEAN
    /\ base \in BOOLEAN
    /\ wpc \in WorkerStates
    /\ wwait \in Nat
    /\ mpc \in MainStates
    /\ swait \in Nat

Init ==
    /\ running = FALSE
    /\ base = FALSE
    /\ wpc = "none"
    /\ wwait = 0
    /\ mpc = "init"
    /\ swait = 0

\* The worker moves to s; entering the sleep sets its countdown.
WorkerGoto(s) ==
    /\ wpc' = s
    /\ wwait' = IF s = "sleep" THEN Task.sleep ELSE wwait

(***************************************************************************)
(* The worker thread.                                                      *)
(***************************************************************************)
\* while self.running: -- reads the flag once per iteration
WorkerTest ==
    /\ wpc = "test"
    /\ WorkerGoto(IF ~running THEN "done"
                  ELSE IF Task.workFirst THEN "work" ELSE "sleep")
    /\ UNCHANGED <<running, base, mpc, swait>>

\* the body: set_property(...) and send_event(...)
WorkerWork ==
    /\ wpc = "work"
    /\ WorkerGoto(IF Task.workFirst THEN "sleep" ELSE "test")
    /\ UNCHANGED <<running, base, mpc, swait>>

\* time.sleep(...) has run out
WorkerWake ==
    /\ wpc = "sleep"
    /\ wwait = 0
    /\ WorkerGoto(IF Task.workFirst THEN "test" ELSE "work")
    /\ UNCHANGED <<running, base, mpc, swait>>

(***************************************************************************)
(* start() and stop() on the main thread.                                  *)
(***************************************************************************)
\* The filter wheel sets _is_running and starts its thread before it calls
\* super().start(); the others call super().start() first and start the
\* thread only when it returned True.
StartCall ==
    /\ mpc = "init"
    /\ IF Task.spawnFirst
         THEN /\ running' = TRUE /\ wpc' = "test" /\ mpc' = "basestart"
              /\ UNCHANGED base
         ELSE \/ /\ base' = TRUE /\ running' = TRUE /\ wpc' = "test"
                 /\ mpc' = "serving"
              \/ /\ mpc' = "failed"
                 /\ UNCHANGED <<base, running, wpc>>
    /\ UNCHANGED <<wwait, swait>>

\* return super().start() in CustomFilterWheel.start
BaseStart ==
    /\ mpc = "basestart"
    /\ \/ base' = TRUE /\ mpc' = "serving"
       \/ mpc' = "failed" /\ UNCHANGED base
    /\ UNCHANGED <<running, wpc, wwait, swait>>

\* stop(): clear the flag, and join the thread if there is one
StopCall ==
    /\ \/ mpc = "serving"
       \/ mpc = "failed" /\ Task.stopOnFail
    /\ running' = FALSE
    /\ IF wpc \in WorkerAlive
         THEN mpc' = "join" /\ swait' = Task.join /\ UNCHANGED base
         ELSE mpc' = "stopped" /\ base' = FALSE /\ UNCHANGED swait
    /\ UNCHANGED <<wpc, wwait>>

\* join(timeout) returns when the thread ended or the timeout ran out; then
\* super().stop()
StopJoin ==
    /\ mpc = "join"
    /\ wpc = "done" \/ swait = 0
    /\ mpc' = "stopped"
    /\ base' = FALSE
    /\ swait' = 0
    /\ UNCHANGED <<running, wpc, wwait>>

(***************************************************************************)
(* Time.                                                                   *)
(***************************************************************************)
Dec(n) == IF n > 0 THEN n - 1 ELSE 0

WorkerRunnable == wpc \in {"test", "work"} \/ (wpc = "sleep" /\ wwait = 0)
MainRunnable == mpc = "basestart" \/ (mpc = "join" /\ (wpc = "done" \/ swait = 0))
Asleep == (wpc = "sleep" /\ wwait > 0) \/ (mpc = "join" /\ swait > 0)

Tick ==
    /\ ~WorkerRunnable /\ ~MainRunnable /\ Asleep
    /\ wwait' = Dec(wwait)
    /\ swait' = Dec(swait)
    /\ UNCHANGED <<running, base, wpc, mpc>>

\* main() has returned and the worker has ended: the program is over.
Terminated ==
    /\ mpc = "stopped" \/ (mpc = "failed" /\ ~Task.stopOnFail)
    /\ wpc \in {"none", "done"}

Next ==
    \/ WorkerTest \/ WorkerWork \/ WorkerWake
    \/ StartCall \/ BaseStart \/ StopCall \/ StopJoin
    \/ Tick
    \/ Terminated /\ UNCHANGED vars

\* The worker and the main thread run whenever they can, and sleeps end.
\* start() and stop() are called by main() at times it chooses: no fairness.
Fairness ==
    /\ WF_vars(WorkerTest \/ WorkerWork \/ WorkerWake)
    /\ WF_vars(BaseStart \/ StopJoin)
    /\ WF_vars(Tick)

Spec == Init /\ [][Next]_vars
FairSpec == Spec /\ Fairness

(***************************************************************************)
(* Properties.                                                             *)
(***************************************************************************)

\* Spec section 5: once stop() has returned, the task no longer writes the
\* device's properties or sends its events (the loop body against stop()).
NoWriteAfterStop == [][WorkerWork => mpc # "stopped"]_vars

(***************************************************************************)
(* The task and stop() as the spec's Task Runner (module TaskRunner): the  *)
(* worker's body is the loop body, it is idle at the while test and in its *)
(* sleep, stop() has signalled once it cleared the flag and returned once  *)
(* the join is over.                                                       *)
(***************************************************************************)
TaskPhase ==
    CASE wpc = "none" -> "none"
      [] wpc = "work" -> "body"
      [] wpc = "done" -> "done"
      [] OTHER        -> "idle"

TR == INSTANCE TaskRunner
        WITH task <- TaskPhase,
             cancelled <- mpc \in {"join", "stopped"},
             returned <- mpc = "stopped"

\* Spec sections 4.4 and 5: the task and start()/stop() implement the Task
\* Runner: the body runs only before cancellation and never after stop()
\* returned, the thread exits only on the cleared flag, and it does exit.
TaskRunnerSpec == TR!Spec
=============================================================================
