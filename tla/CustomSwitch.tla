---------------------------- MODULE CustomSwitch ----------------------------
(***************************************************************************)
(* MyCustomSwitch (src/examples/python/custom_switch.py): its temperature  *)
(* thread update_temp, the SET_TEMPERATURE handler that writes the same    *)
(* field from the command thread, and start()/stop() as main() calls them. *)
(*                                                                         *)
(* Neither side takes a lock.  `self.temperature += random.uniform(..)` is *)
(* a load, a call and a store: a handler can run between them.  A          *)
(* temperature value is abstracted to the SET_TEMPERATURE it derives from  *)
(* (0 for the 20.0 of __init__); the random drift is left out.             *)
(* Time advances in ticks of 1/TickRate s, taken only when no thread can   *)
(* run.                                                                    *)
(***************************************************************************)
EXTENDS Naturals

CONSTANTS
    TickRate,  \* ticks per second
    MaxSets    \* bound on the SET_TEMPERATURE commands of one run

ASSUME SwitchConstantsAssumption ==
    TickRate \in Nat \ {0} /\ MaxSets \in Nat

\* Mutant: update_temp sleeps first and writes after, as custom_task does.
WorkFirstSwapped == FALSE
\* update_temp writes, then sleeps (lines 38-49)
WorkFirst == TRUE
\* time.sleep(2) (line 49)
SleepTicks == 2 * TickRate
\* self.update_thread.join(timeout=1.0) (line 34)
JoinTicks == 1 * TickRate

\* The worker: the while test (38), the load of self.temperature and the
\* store of the sum (40), set_property (41), the 20% event (44-47), sleep (49).
WorkerStates == {"none", "test", "load", "store", "publish", "notify",
                 "sleep", "done"}
WorkerAlive == {"test", "load", "store", "publish", "notify", "sleep"}
WorkStates == {"load", "store", "publish", "notify"}
\* The command thread inside handle_set_temp: idle, or between line 58 and 59.
HandlerStates == {"idle", "setprop"}
\* main(): before start(), serving in run(), start() failed (exit(1) without
\* stop()), inside join(), after stop() returned.
MainStates == {"init", "serving", "failed", "join", "stopped"}

VARIABLES
    running,  \* self.running
    temp,     \* self.temperature: the SET it derives from
    ptemp,    \* the "temperature" property: the SET it derives from
    nset,     \* SET_TEMPERATURE commands handled so far
    wpc,      \* where update_temp is
    wread,    \* the value update_temp loaded at line 40
    wwait,    \* ticks update_temp still sleeps
    hpc,      \* where handle_set_temp is
    mpc,      \* where the main thread is
    swait     \* ticks before join(timeout=1.0) gives up

vars == <<running, temp, ptemp, nset, wpc, wread, wwait, hpc, mpc, swait>>

Sets == 0..MaxSets

TypeOK ==
    /\ running \in BOOLEAN
    /\ temp \in Sets /\ ptemp \in Sets /\ nset \in Sets /\ wread \in Sets
    /\ wpc \in WorkerStates
    /\ wwait \in Nat
    /\ hpc \in HandlerStates
    /\ mpc \in MainStates
    /\ swait \in Nat

\* __init__: temperature = 20.0 and set_property("temperature", 20.0)
Init ==
    /\ running = FALSE
    /\ temp = 0 /\ ptemp = 0 /\ nset = 0 /\ wread = 0
    /\ wpc = "none" /\ wwait = 0
    /\ hpc = "idle"
    /\ mpc = "init"
    /\ swait = 0

WorkerVarsOther == <<running, nset, hpc, mpc, swait>>

\* Where the loop body goes after the while test, and after the sleep.
AfterTest(wf) == IF wf THEN "load" ELSE "sleep"
AfterSleep(wf) == IF wf THEN "test" ELSE "load"
AfterBody(wf) == IF wf THEN "sleep" ELSE "test"

SleepIfEntered(s) == wwait' = IF s = "sleep" THEN SleepTicks ELSE wwait

(***************************************************************************)
(* update_temp                                                             *)
(***************************************************************************)
\* while self.running:
WorkerTest ==
    /\ wpc = "test"
    /\ wpc' = IF running THEN AfterTest(WorkFirst) ELSE "done"
    /\ SleepIfEntered(wpc')
    /\ UNCHANGED <<temp, ptemp, wread>> /\ UNCHANGED WorkerVarsOther

WorkerLoad ==
    /\ wpc = "load"
    /\ wread' = temp
    /\ wpc' = "store"
    /\ UNCHANGED <<temp, ptemp, wwait>> /\ UNCHANGED WorkerVarsOther

\* the store of `self.temperature += ...`: the loaded value plus a drift
WorkerStore ==
    /\ wpc = "store"
    /\ temp' = wread
    /\ wpc' = "publish"
    /\ UNCHANGED <<ptemp, wread, wwait>> /\ UNCHANGED WorkerVarsOther

\* set_property("temperature", self.temperature) reads the field again
WorkerPublish ==
    /\ wpc = "publish"
    /\ ptemp' = temp
    /\ wpc' = "notify"
    /\ UNCHANGED <<temp, wread, wwait>> /\ UNCHANGED WorkerVarsOther

\* if random.random() < 0.2: send TEMPERATURE_CHANGED (either way, on)
WorkerNotify ==
    /\ wpc = "notify"
    /\ wpc' = AfterBody(WorkFirst)
    /\ SleepIfEntered(wpc')
    /\ UNCHANGED <<temp, ptemp, wread>> /\ UNCHANGED WorkerVarsOther

WorkerWake ==
    /\ wpc = "sleep"
    /\ wwait = 0
    /\ wpc' = AfterSleep(WorkFirst)
    /\ UNCHANGED <<temp, ptemp, wread, wwait>> /\ UNCHANGED WorkerVarsOther

WorkerStep ==
    WorkerTest \/ WorkerLoad \/ WorkerStore \/ WorkerPublish \/ WorkerNotify
    \/ WorkerWake

(***************************************************************************)
(* handle_set_temp with a "temperature" parameter (lines 55-60); without   *)
(* one it only answers ERROR, which changes no state and is left out.      *)
(* Commands are served while run() runs.                                   *)
(***************************************************************************)
SetTemperatureField ==
    /\ mpc = "serving"
    /\ hpc = "idle"
    /\ nset < MaxSets
    /\ nset' = nset + 1
    /\ temp' = nset + 1
    /\ hpc' = "setprop"
    /\ UNCHANGED <<running, ptemp, wpc, wread, wwait, mpc, swait>>

SetTemperatureProperty ==
    /\ hpc = "setprop"
    /\ ptemp' = temp
    /\ hpc' = "idle"
    /\ UNCHANGED <<running, temp, nset, wpc, wread, wwait, mpc, swait>>

(***************************************************************************)
(* start() and stop() as main() (lines 66-100) calls them.                 *)
(***************************************************************************)
\* result = super().start(); if result: running = True; thread.start()
StartCall ==
    /\ mpc = "init"
    /\ \/ /\ running' = TRUE /\ wpc' = "test" /\ mpc' = "serving"
       \/ /\ mpc' = "failed" /\ UNCHANGED <<running, wpc>>
    /\ UNCHANGED <<temp, ptemp, nset, wread, wwait, hpc, swait>>

\* run() has returned (the handler has answered); stop(): running = False,
\* then join(timeout=1.0) since update_thread exists
StopCall ==
    /\ mpc = "serving"
    /\ hpc = "idle"
    /\ running' = FALSE
    /\ mpc' = "join"
    /\ swait' = JoinTicks
    /\ UNCHANGED <<temp, ptemp, nset, wpc, wread, wwait, hpc>>

\* join returns; super().stop()
StopJoin ==
    /\ mpc = "join"
    /\ wpc = "done" \/ swait = 0
    /\ mpc' = "stopped"
    /\ swait' = 0
    /\ UNCHANGED <<running, temp, ptemp, nset, wpc, wread, wwait, hpc>>

(***************************************************************************)
(* Time.                                                                   *)
(***************************************************************************)
Dec(n) == IF n > 0 THEN n - 1 ELSE 0

WorkerRunnable == wpc \in {"test"} \cup WorkStates \/ (wpc = "sleep" /\ wwait = 0)
OthersRunnable == hpc = "setprop" \/ (mpc = "join" /\ (wpc = "done" \/ swait = 0))
Asleep == (wpc = "sleep" /\ wwait > 0) \/ (mpc = "join" /\ swait > 0)

Tick ==
    /\ ~WorkerRunnable /\ ~OthersRunnable /\ Asleep
    /\ wwait' = Dec(wwait)
    /\ swait' = Dec(swait)
    /\ UNCHANGED <<running, temp, ptemp, nset, wpc, wread, hpc, mpc>>

\* main() has returned and the thread has ended: the program is over.
Terminated == mpc \in {"stopped", "failed"} /\ wpc \in {"none", "done"}

Next ==
    \/ WorkerStep
    \/ SetTemperatureField \/ SetTemperatureProperty
    \/ StartCall \/ StopCall \/ StopJoin
    \/ Tick
    \/ Terminated /\ UNCHANGED vars

Fairness ==
    /\ WF_vars(WorkerStep)
    /\ WF_vars(SetTemperatureProperty \/ StopJoin)
    /\ WF_vars(Tick)

Spec == Init /\ [][Next]_vars
FairSpec == Spec /\ Fairness

(***************************************************************************)
(* The Task Runner (module TaskRunner) seen in update_temp and stop(): the *)
(* thread is spawned by start(), is in its body from the load of line 40   *)
(* to the end of the event at line 47, idle at the while test and in the   *)
(* sleep; stop() has signalled once it cleared self.running and returned   *)
(* once the join is over.                                                  *)
(***************************************************************************)
TaskPhase ==
    CASE wpc = "none"        -> "none"
      [] wpc \in WorkStates -> "body"
      [] wpc = "done"        -> "done"
      [] OTHER               -> "idle"

TR == INSTANCE TaskRunner
        WITH task <- TaskPhase,
             cancelled <- mpc \in {"join", "stopped"},
             returned <- mpc = "stopped"

(***************************************************************************)
(* Properties.                                                             *)
(***************************************************************************)

\* Spec sections 4.4 and 5: update_temp with start() and stop() implements
\* the Task Runner: a body begins only while self.running is set, ends
\* before stop() returns although join(timeout=1.0) may time out, the
\* thread exits only on the cleared flag, and it does exit.
TaskRunnerSpec == TR!Spec

\* Spec section 3, last write wins: after SET_TEMPERATURE has stored its
\* value, the temperature goes on from that value; update_temp never stores
\* a sum computed from the temperature before the SET (line 40 against 58).
TemperatureNotLost == temp = nset
=============================================================================
