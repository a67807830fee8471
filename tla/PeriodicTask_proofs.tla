------------------------- MODULE PeriodicTask_proofs -------------------------
(***************************************************************************)
(* Proof that CustomFilterWheel's monitor thread and its start()/stop()    *)
(* implement the safety part of the Task Runner (module TaskRunner), for   *)
(* every tick rate.                                                        *)
(***************************************************************************)
EXTENDS PeriodicTask, TLAPS

\* The program is custom_filter_wheel.py.
FW == Device = "filterwheel"

\* _is_running is set from start() until stop() clears it.
FlagWhileServing == running <=> mpc \in {"basestart", "serving", "failed"}

\* start() spawns the monitor before anything else.
SpawnedAtStart == wpc = "none" <=> mpc = "init"

\* A body under way keeps stop() in its join: the join began at most while
\* the body ran, so its full timeout is still ahead.
WorkBeforeReturn ==
    wpc = "work" => mpc # "stopped" /\ (mpc = "join" => swait = Task.join)

IInv == TypeOK /\ FlagWhileServing /\ SpawnedAtStart /\ WorkBeforeReturn

\* The filter wheel's task record, spelled out.
LEMMA TaskFW ==
    ASSUME FW
    PROVE  /\ Task.sleep = 2 * TickRate /\ Task.join = 2 * TickRate
           /\ Task.workFirst /\ Task.spawnFirst /\ Task.stopOnFail
           /\ Task.join > 0
<1>1. Task = FilterWheelTask
  BY DEF FW, Task, Tasks
<1>2. QED
  BY <1>1, TickRateAssumption DEF FilterWheelTask

LEMMA InitIInv == ASSUME FW, Init PROVE IInv
  BY DEF Init, IInv, TypeOK, FlagWhileServing, SpawnedAtStart,
         WorkBeforeReturn, WorkerStates, MainStates

LEMMA NextIInv ==
    ASSUME FW, IInv, [Next]_vars
    PROVE  IInv'
<1>0. /\ Task.sleep = 2 * TickRate /\ Task.join = 2 * TickRate
      /\ Task.workFirst /\ Task.spawnFirst /\ Task.stopOnFail
      /\ Task.join > 0
  BY TaskFW
<1> USE <1>0, TickRateAssumption
<1> USE DEF IInv, TypeOK, FlagWhileServing, SpawnedAtStart, WorkBeforeReturn,
            WorkerStates, MainStates, WorkerAlive
<1>1. CASE WorkerTest
  BY <1>1 DEF WorkerTest, WorkerGoto
<1>2. CASE WorkerWork
  BY <1>2 DEF WorkerWork, WorkerGoto
<1>3. CASE WorkerWake
  BY <1>3 DEF WorkerWake, WorkerGoto
<1>4. CASE StartCall
  BY <1>4 DEF StartCall
<1>5. CASE BaseStart
  BY <1>5 DEF BaseStart
<1>6. CASE StopCall
  <2>1. CASE wpc \in WorkerAlive
    <3>1. /\ mpc \in {"serving", "failed"} /\ running' = FALSE
          /\ mpc' = "join" /\ swait' = Task.join
          /\ UNCHANGED <<base, wpc, wwait>>
      BY <1>6, <2>1 DEF StopCall
    <3>2. swait' \in Nat
      BY <3>1
    <3>3. TypeOK'
      BY <3>1, <3>2
    <3>4. (FlagWhileServing /\ SpawnedAtStart /\ WorkBeforeReturn)'
      BY <3>1, <2>1
    <3>5. QED
      BY <3>3, <3>4
  <2>2. CASE wpc \notin WorkerAlive
    <3>1. /\ mpc \in {"serving", "failed"} /\ running' = FALSE
          /\ mpc' = "stopped" /\ base' = FALSE
          /\ UNCHANGED <<swait, wpc, wwait>>
      BY <1>6, <2>2 DEF StopCall
    <3>2. QED
      BY <3>1, <2>2
  <2>3. QED
    BY <2>1, <2>2
<1>7. CASE StopJoin
  <2>1. wpc # "work"
    BY <1>7 DEF StopJoin
  <2>2. QED
    BY <1>7, <2>1 DEF StopJoin
<1>8. CASE Tick
  BY <1>8 DEF Tick, Dec, WorkerRunnable
<1>9. CASE Terminated /\ UNCHANGED vars
  BY <1>9 DEF vars
<1>10. CASE UNCHANGED vars
  BY <1>10 DEF vars
<1>11. QED
  BY <1>1, <1>2, <1>3, <1>4, <1>5, <1>6, <1>7, <1>8, <1>9, <1>10 DEF Next

\* The invariant holds in every reachable state of the filter wheel.
THEOREM IInvHolds == ASSUME FW PROVE Spec => []IInv
<1>1. Init => IInv
  BY InitIInv
<1>2. IInv /\ [Next]_vars => IInv'
  BY NextIInv
<1>3. QED
  BY <1>1, <1>2, PTL DEF Spec

\* Every step of the program is a step of the Task Runner or leaves the
\* Task Runner's state alone.
LEMMA StepRefines ==
    ASSUME FW, IInv, [Next]_vars
    PROVE  [TR!Next]_TR!vars
<1>0. /\ Task.join = 2 * TickRate /\ Task.join > 0
      /\ Task.workFirst /\ Task.spawnFirst /\ Task.stopOnFail
  BY TaskFW
<1> USE <1>0
<1> USE DEF IInv, TypeOK, FlagWhileServing, SpawnedAtStart, WorkBeforeReturn,
            TR!vars, TaskPhase, WorkerAlive, WorkerStates, MainStates
<1>1. CASE WorkerTest /\ running
  <2>1. wpc = "test" /\ wpc' = "work" /\ mpc \notin {"join", "stopped"}
        /\ UNCHANGED <<mpc>>
    BY <1>1 DEF WorkerTest, WorkerGoto
  <2>2. QED
    BY <2>1 DEF TR!Next, TR!Begin
<1>2. CASE WorkerTest /\ ~running
  <2>1. wpc = "test" /\ wpc' = "done" /\ mpc \in {"join", "stopped"}
        /\ UNCHANGED <<mpc>>
    BY <1>2 DEF WorkerTest, WorkerGoto
  <2>2. QED
    BY <2>1 DEF TR!Next, TR!Exit
<1>3. CASE WorkerWork
  <2>1. wpc = "work" /\ wpc' = "sleep" /\ mpc # "stopped"
        /\ UNCHANGED <<mpc>>
    BY <1>3 DEF WorkerWork, WorkerGoto
  <2>2. QED
    BY <2>1 DEF TR!Next, TR!Write
<1>4. CASE WorkerWake
  <2>1. wpc = "sleep" /\ wpc' = "test" /\ UNCHANGED <<mpc>>
    BY <1>4 DEF WorkerWake, WorkerGoto
  <2>2. QED
    BY <2>1
<1>5. CASE StartCall
  <2>1. mpc = "init" /\ mpc' = "basestart" /\ wpc = "none" /\ wpc' = "test"
    BY <1>5 DEF StartCall
  <2>2. QED
    BY <2>1 DEF TR!Next, TR!Spawn
<1>6. CASE BaseStart
  <2>1. mpc = "basestart" /\ mpc' \in {"serving", "failed"}
        /\ UNCHANGED wpc
    BY <1>6 DEF BaseStart
  <2>2. QED
    BY <2>1
<1>7. CASE StopCall
  <2>1. /\ mpc \in {"serving", "failed"} /\ UNCHANGED wpc
        /\ IF wpc \in WorkerAlive THEN mpc' = "join" ELSE mpc' = "stopped"
    BY <1>7 DEF StopCall
  <2>2. QED
    BY <2>1 DEF TR!Next, TR!Cancel
<1>8. CASE StopJoin
  <2>1. mpc = "join" /\ mpc' = "stopped" /\ UNCHANGED wpc
    BY <1>8 DEF StopJoin
  <2>2. QED
    BY <2>1 DEF TR!Next, TR!Return
<1>9. CASE Tick
  BY <1>9 DEF Tick
<1>10. CASE (Terminated /\ UNCHANGED vars) \/ UNCHANGED vars
  BY <1>10 DEF vars
<1>11. QED
  BY <1>1, <1>2, <1>3, <1>4, <1>5, <1>6, <1>7, <1>8, <1>9, <1>10 DEF Next

\* Spec sections 4.4 and 5, for every tick rate: CustomFilterWheel's monitor
\* thread with its start() and stop() implements the safety part of the
\* Task Runner: the monitor writes only before cancellation is signalled or
\* while stop() still joins it, never after stop() returned, and it exits
\* only on the cleared _is_running flag.
THEOREM RefinesTaskRunner == ASSUME FW PROVE Spec => TR!SafeSpec
<1>1. Init => TR!Init
  BY DEF Init, TR!Init, TaskPhase
<1>2. IInv /\ [Next]_vars => [TR!Next]_TR!vars
  BY StepRefines
<1>3. QED
  BY <1>1, <1>2, IInvHolds, PTL DEF Spec, TR!SafeSpec
=============================================================================
