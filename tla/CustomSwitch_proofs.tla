------------------------- MODULE CustomSwitch_proofs -------------------------
(***************************************************************************)
(* Proof that MyCustomSwitch's update_temp never writes once stop() has    *)
(* returned, for every tick rate and every number of SET_TEMPERATURE       *)
(* commands.                                                               *)
(***************************************************************************)
EXTENDS CustomSwitch, TLAPS

\* self.running is set only while run() serves commands: start() sets it
\* on success, stop() clears it and nothing sets it again.
RunningWhileServing == running => mpc = "serving"

\* While stop() joins, a body under way still has join time left: the body
\* runs without sleeping, so no tick passes until it reaches its sleep.
BodyBeforeTimeout == mpc = "join" /\ wpc \in WorkStates => swait > 0

\* Once stop() has returned, update_temp is not in its body.
NoBodyAfterStop == mpc = "stopped" => wpc \notin WorkStates

IInv == /\ TypeOK /\ RunningWhileServing /\ BodyBeforeTimeout
        /\ NoBodyAfterStop

LEMMA InitIInv == Init => IInv
<1> SUFFICES ASSUME Init PROVE IInv
  OBVIOUS
<1>1. 0 \in Sets
  BY SwitchConstantsAssumption DEF Sets
<1>2. TypeOK
  BY <1>1 DEF Init, TypeOK, WorkerStates, HandlerStates, MainStates
<1>3. QED
  BY <1>2 DEF Init, IInv, RunningWhileServing, BodyBeforeTimeout,
              NoBodyAfterStop

\* The update thread's steps keep the invariant: it enters its body only
\* from a while test that found running set.
LEMMA WorkerStepIInv ==
    ASSUME IInv, WorkerStep
    PROVE  IInv'
<1> USE SwitchConstantsAssumption
<1> USE DEF IInv, TypeOK, RunningWhileServing, BodyBeforeTimeout,
            NoBodyAfterStop, WorkerVarsOther, WorkStates, WorkerStates,
            SleepIfEntered, SleepTicks, Sets
<1>1. CASE WorkerTest
  BY <1>1 DEF WorkerTest, AfterTest, WorkFirst
<1>2. CASE WorkerLoad \/ WorkerStore \/ WorkerPublish
  BY <1>2 DEF WorkerLoad, WorkerStore, WorkerPublish
<1>3. CASE WorkerNotify
  BY <1>3 DEF WorkerNotify, AfterBody, WorkFirst
<1>4. CASE WorkerWake
  BY <1>4 DEF WorkerWake, AfterSleep, WorkFirst
<1>5. QED
  BY <1>1, <1>2, <1>3, <1>4 DEF WorkerStep

\* The handler, start(), stop() and time keep the invariant.
LEMMA OtherStepIInv ==
    ASSUME IInv,
           \/ SetTemperatureField \/ SetTemperatureProperty
           \/ StartCall \/ StopCall \/ StopJoin \/ Tick
    PROVE  IInv'
<1> USE SwitchConstantsAssumption
<1> USE DEF IInv, TypeOK, RunningWhileServing, BodyBeforeTimeout,
            NoBodyAfterStop, WorkStates, WorkerStates, HandlerStates,
            MainStates, Sets
<1>1. CASE SetTemperatureField \/ SetTemperatureProperty
  BY <1>1 DEF SetTemperatureField, SetTemperatureProperty
<1>2. CASE StartCall
  <2>1. CASE running' = TRUE /\ wpc' = "test" /\ mpc' = "serving"
    BY <1>2, <2>1 DEF StartCall
  <2>2. CASE mpc' = "failed" /\ UNCHANGED <<running, wpc>>
    BY <1>2, <2>2 DEF StartCall
  <2>3. QED
    BY <1>2, <2>1, <2>2 DEF StartCall
<1>3. CASE StopCall
  <2>1. JoinTicks \in Nat /\ JoinTicks > 0
    BY DEF JoinTicks
  <2>2. /\ mpc = "serving" /\ running' = FALSE /\ mpc' = "join"
        /\ swait' = JoinTicks
        /\ UNCHANGED <<temp, ptemp, nset, wpc, wread, wwait, hpc>>
    BY <1>3 DEF StopCall
  <2>3. QED
    BY <2>1, <2>2
<1>4. CASE StopJoin
  BY <1>4 DEF StopJoin
<1>5. CASE Tick
  <2>1. wpc \notin WorkStates
    BY <1>5 DEF Tick, WorkerRunnable
  <2>2. QED
    BY <1>5, <2>1 DEF Tick, Dec
<1>6. QED
  BY <1>1, <1>2, <1>3, <1>4, <1>5

\* The invariant holds in every reachable state.
THEOREM IInvHolds == Spec => []IInv
<1>1. Init => IInv
  BY InitIInv
<1>2. IInv /\ [Next]_vars => IInv'
  <2> SUFFICES ASSUME IInv, [Next]_vars PROVE IInv'
    OBVIOUS
  <2>1. CASE WorkerStep
    BY <2>1, WorkerStepIInv
  <2>2. CASE \/ SetTemperatureField \/ SetTemperatureProperty
             \/ StartCall \/ StopCall \/ StopJoin \/ Tick
    BY <2>2, OtherStepIInv
  <2>3. CASE UNCHANGED vars
    BY <2>3 DEF vars, IInv, TypeOK, RunningWhileServing, BodyBeforeTimeout,
                NoBodyAfterStop
  <2>4. QED
    BY <2>1, <2>2, <2>3 DEF Next, Terminated
<1>3. QED
  BY <1>1, <1>2, PTL DEF Spec

(***************************************************************************)
(* The refinement of the Task Runner.                                      *)
(***************************************************************************)

\* self.running is set exactly while run() serves commands.
ServingRunning == mpc = "serving" => running

\* start() spawns update_temp when it succeeds, and only then.
SpawnedAtStart == wpc = "none" <=> mpc \in {"init", "failed"}

SInv == ServingRunning /\ SpawnedAtStart

LEMMA SInvStep ==
    ASSUME IInv, SInv, [Next]_vars
    PROVE  SInv'
<1> USE DEF IInv, TypeOK, RunningWhileServing, SInv, ServingRunning,
            SpawnedAtStart, WorkerStates, MainStates
<1>1. CASE WorkerStep
  BY <1>1 DEF WorkerStep, WorkerTest, WorkerLoad, WorkerStore, WorkerPublish,
              WorkerNotify, WorkerWake, AfterTest, AfterSleep, AfterBody,
              WorkFirst, WorkerVarsOther
<1>2. CASE SetTemperatureField \/ SetTemperatureProperty \/ Tick
  BY <1>2 DEF SetTemperatureField, SetTemperatureProperty, Tick
<1>3. CASE StartCall
  BY <1>3 DEF StartCall
<1>4. CASE StopCall \/ StopJoin
  BY <1>4 DEF StopCall, StopJoin
<1>5. CASE UNCHANGED vars
  BY <1>5 DEF vars
<1>6. QED
  BY <1>1, <1>2, <1>3, <1>4, <1>5 DEF Next, Terminated

\* Both invariants hold in every reachable state.
THEOREM SInvHolds == Spec => [](IInv /\ SInv)
<1>1. Init => SInv
  BY DEF Init, SInv, ServingRunning, SpawnedAtStart
<1>2. IInv /\ SInv /\ [Next]_vars => SInv'
  BY SInvStep
<1>3. QED
  BY <1>1, <1>2, IInvHolds, PTL DEF Spec

\* Every step of the program is a step of the Task Runner or leaves its
\* state alone.
LEMMA StepRefines ==
    ASSUME IInv, SInv, [Next]_vars
    PROVE  [TR!Next]_TR!vars
<1> USE DEF IInv, TypeOK, RunningWhileServing, NoBodyAfterStop, SInv,
            ServingRunning, SpawnedAtStart, TR!vars, TaskPhase, WorkStates,
            WorkerStates, MainStates, WorkerVarsOther, WorkFirst
<1>1. CASE WorkerTest /\ running
  <2>1. wpc = "test" /\ wpc' = "load" /\ mpc = "serving" /\ UNCHANGED mpc
    BY <1>1 DEF WorkerTest, AfterTest
  <2>2. QED
    BY <2>1 DEF TR!Next, TR!Begin
<1>2. CASE WorkerTest /\ ~running
  <2>1. wpc = "test" /\ wpc' = "done" /\ mpc \in {"join", "stopped"}
        /\ UNCHANGED mpc
    BY <1>2 DEF WorkerTest
  <2>2. QED
    BY <2>1 DEF TR!Next, TR!Exit
<1>3. CASE WorkerLoad \/ WorkerStore \/ WorkerPublish
  <2>1. wpc \in WorkStates /\ wpc' \in WorkStates /\ UNCHANGED mpc
    BY <1>3 DEF WorkerLoad, WorkerStore, WorkerPublish
  <2>2. QED
    BY <2>1
<1>4. CASE WorkerNotify
  <2>1. wpc = "notify" /\ wpc' = "sleep" /\ mpc # "stopped" /\ UNCHANGED mpc
    BY <1>4 DEF WorkerNotify, AfterBody
  <2>2. QED
    BY <2>1 DEF TR!Next, TR!Write
<1>5. CASE WorkerWake
  <2>1. wpc = "sleep" /\ wpc' = "test" /\ UNCHANGED mpc
    BY <1>5 DEF WorkerWake, AfterSleep
  <2>2. QED
    BY <2>1
<1>6. CASE StartCall
  <2>1. CASE wpc' = "test" /\ mpc' = "serving"
    <3>1. mpc = "init" /\ wpc = "none"
      BY <1>6 DEF StartCall
    <3>2. QED
      BY <2>1, <3>1 DEF TR!Next, TR!Spawn
  <2>2. CASE mpc' = "failed" /\ UNCHANGED wpc
    BY <1>6, <2>2 DEF StartCall
  <2>3. QED
    BY <1>6, <2>1, <2>2 DEF StartCall
<1>7. CASE StopCall
  <2>1. mpc = "serving" /\ mpc' = "join" /\ UNCHANGED wpc
    BY <1>7 DEF StopCall
  <2>2. QED
    BY <2>1 DEF TR!Next, TR!Cancel
<1>8. CASE StopJoin
  <2>1. mpc = "join" /\ mpc' = "stopped" /\ UNCHANGED wpc
    BY <1>8 DEF StopJoin
  <2>2. QED
    BY <2>1 DEF TR!Next, TR!Return
<1>9. CASE SetTemperatureField \/ SetTemperatureProperty \/ Tick
  BY <1>9 DEF SetTemperatureField, SetTemperatureProperty, Tick
<1>10. CASE UNCHANGED vars
  BY <1>10 DEF vars
<1>11. QED
  BY <1>1, <1>2, <1>3, <1>4, <1>5, <1>6, <1>7, <1>8, <1>9, <1>10
  DEF Next, Terminated, WorkerStep

\* Spec sections 4.4 and 5, for every tick rate and every number of
\* SET_TEMPERATURE commands: update_temp with start() and stop() implements
\* the safety part of the Task Runner.  A body begins only while
\* self.running is set, ends before stop() returns although
\* join(timeout=1.0) gives up during the 2 s sleep, and the thread exits
\* only on the cleared flag.
THEOREM RefinesTaskRunner == Spec => TR!SafeSpec
<1>1. Init => TR!Init
  BY DEF Init, TR!Init, TaskPhase, WorkStates
<1>2. IInv /\ SInv /\ [Next]_vars => [TR!Next]_TR!vars
  BY StepRefines
<1>3. QED
  BY <1>1, <1>2, SInvHolds, PTL DEF Spec, TR!SafeSpec
=============================================================================
