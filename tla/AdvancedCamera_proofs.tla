------------------------ MODULE AdvancedCamera_proofs ------------------------
(***************************************************************************)
(* Proofs about AdvancedCamera, for every exposure-time set and job bound. *)
(***************************************************************************)
EXTENDS AdvancedCamera, TLAPS

\* Once the newest exposure thread has passed line 197 (or line 217 on the
\* error path), is_exposing stays clear until a new exposure starts.
PastClear == {"ready", "publish", "announce", "errpublish"}
ClearedAfterLine197 ==
    latest \in Jobs /\ jpc[latest] \in PastClear => ~isExposing

\* The inductive invariant behind BusyHasWorker and TypeOK.
IInv == TypeOK /\ BusyHasWorker /\ ClearedAfterLine197

LEMMA InitIInv == Init => IInv
<1> SUFFICES ASSUME Init PROVE IInv
  OBVIOUS
<1>1. TypeOK
  <2>1. props \in [PropNames -> BOOLEAN]
    BY DEF Init
  <2>2. events \in Seq([kind : EventKinds, job : Jobs])
    BY DEF Init
  <2>3. jpc \in [Jobs -> JobStates] /\ jdur \in [Jobs -> Durations \cup {0}]
    BY DEF Init, JobStates
  <2>4. latest \in 0..MaxJobs /\ imageData \in Jobs \cup {NoImage}
    BY MaxJobsAssumption DEF Init, NoImage
  <2>5. jwait \in [Jobs -> Nat] /\ age \in [Jobs -> Nat]
    BY DEF Init
  <2>6. upc \in UpdateStates /\ life \in LifeStates
    BY DEF Init, UpdateStates, LifeStates
  <2>7. QED
    BY <2>1, <2>2, <2>3, <2>4, <2>5, <2>6 DEF Init, TypeOK
<1>2. BusyHasWorker /\ ClearedAfterLine197
  BY DEF Init, BusyHasWorker, ClearedAfterLine197, Jobs
<1>3. QED
  BY <1>1, <1>2 DEF IInv


\* Appending a well-formed event keeps the event log well formed.
LEMMA EmitType ==
    ASSUME events \in Seq([kind : EventKinds, job : Jobs]),
           NEW k \in EventKinds, NEW j \in Jobs,
           Emit(k, j)
    PROVE  events' \in Seq([kind : EventKinds, job : Jobs])
  BY DEF Emit, Event

LEMMA StartExposureIInv ==
    ASSUME IInv, NEW d \in Durations, StartExposure(d)
    PROVE  IInv'
<1> USE DEF IInv, BusyHasWorker, ClearedAfterLine197
<1>1. latest + 1 \in Jobs /\ latest' = latest + 1
  BY MaxJobsAssumption DEF TypeOK, StartExposure, Jobs
<1>2. jpc' \in [Jobs -> JobStates] /\ jdur' \in [Jobs -> Durations \cup {0}]
  BY <1>1 DEF TypeOK, StartExposure, JobStates
<1>3. props' \in [PropNames -> BOOLEAN]
  BY DEF TypeOK, StartExposure, PropNames
<1>4. TypeOK'
  <2>1. events' \in Seq([kind : EventKinds, job : Jobs])
    BY DEF TypeOK, StartExposure
  <2>2. latest' \in 0..MaxJobs
    BY <1>1 DEF Jobs
  <2>3. QED
    BY <1>2, <1>3, <2>1, <2>2 DEF TypeOK, StartExposure
<1>5. (BusyHasWorker /\ ClearedAfterLine197)'
  BY <1>1 DEF TypeOK, StartExposure, Alive, PastClear
<1>6. QED
  BY <1>4, <1>5

LEMMA AbortExposureIInv ==
    ASSUME IInv, AbortExposure
    PROVE  IInv'
<1> USE DEF IInv, BusyHasWorker, ClearedAfterLine197
<1>1. events' \in Seq([kind : EventKinds, job : Jobs])
  BY EmitType DEF TypeOK, AbortExposure, EventKinds
<1>2. TypeOK'
  BY <1>1 DEF TypeOK, AbortExposure, PropNames
<1>3. QED
  BY <1>2 DEF AbortExposure

\* Every statement of an exposure thread preserves the invariant: a thread
\* other than the newest only ever clears is_exposing, and the newest one
\* ends only after it has cleared it or seen it cleared.
LEMMA ExposureStepIInv ==
    ASSUME IInv, NEW j \in Jobs, ExposureStep(j)
    PROVE  IInv'
<1> USE DEF IInv, TypeOK, BusyHasWorker, ClearedAfterLine197, Alive,
            PastClear, JobVarsOther, Goto
<1>1. CASE ExposureBegin(j)
  <2>1. events' \in Seq([kind : EventKinds, job : Jobs])
    BY <1>1, EmitType DEF ExposureBegin, EventKinds
  <2>2. QED
    BY <1>1, <2>1 DEF ExposureBegin, JobStates
<1>2. CASE ExposureLoop(j)
  <2>1. CASE isExposing /\ age[j] < jdur[j]
    <3>1. jwait' = [jwait EXCEPT ![j] = ProgressSleep] /\ UNCHANGED jpc
      BY <1>2, <2>1 DEF ExposureLoop
    <3>2. QED
      BY <1>2, <3>1 DEF ExposureLoop, ProgressSleep
  <2>2. CASE ~(isExposing /\ age[j] < jdur[j])
    <3>1. jpc' = [jpc EXCEPT ![j] = "check"] /\ UNCHANGED jwait
      BY <1>2, <2>2 DEF ExposureLoop
    <3>2. QED
      BY <1>2, <3>1 DEF ExposureLoop, JobStates
  <2>3. QED
    BY <2>1, <2>2
<1>3. CASE ExposureCheck(j)
  BY <1>3 DEF ExposureCheck, JobStates
<1>4. CASE ExposureReadout(j)
  <2>1. events' \in Seq([kind : EventKinds, job : Jobs])
    BY <1>4, EmitType DEF ExposureReadout, EventKinds
  <2>2. QED
    BY <1>4, <2>1 DEF ExposureReadout, JobStates, ReadoutSleep
<1>5. CASE ExposureGenerate(j)
  BY <1>5 DEF ExposureGenerate, JobStates
<1>6. CASE ExposureClear(j)
  BY <1>6 DEF ExposureClear, JobStates
<1>7. CASE ExposureReady(j)
  BY <1>7 DEF ExposureReady, JobStates
<1>8. CASE ExposurePublish(j)
  BY <1>8 DEF ExposurePublish, JobStates, PropNames
<1>9. CASE ExposureAnnounce(j)
  <2>1. events' \in Seq([kind : EventKinds, job : Jobs])
    BY <1>9, EmitType DEF ExposureAnnounce, EventKinds
  <2>2. QED
    BY <1>9, <2>1 DEF ExposureAnnounce, JobStates
<1>10. CASE ExposureErrClear(j)
  BY <1>10 DEF ExposureErrClear, JobStates
<1>11. CASE ExposureErrPublish(j)
  <2>1. events' \in Seq([kind : EventKinds, job : Jobs])
    BY <1>11, EmitType DEF ExposureErrPublish, EventKinds
  <2>2. QED
    BY <1>11, <2>1 DEF ExposureErrPublish, JobStates, PropNames
<1>12. QED
  BY <1>1, <1>2, <1>3, <1>4, <1>5, <1>6, <1>7, <1>8, <1>9, <1>10, <1>11 DEF ExposureStep

\* The update thread and the main thread leave the exposure state alone.
LEMMA UpdateStepIInv ==
    ASSUME IInv, UpdateCheck \/ UpdateWork
    PROVE  IInv'
<1> USE DEF IInv, TypeOK, BusyHasWorker, ClearedAfterLine197, UpdateVarsOther,
           Alive, PastClear
<1>1. CASE UpdateCheck
  BY <1>1 DEF UpdateCheck, UpdateStates, UpdateSleep
<1>2. CASE UpdateWork
  BY <1>2 DEF UpdateWork, UpdateStates
<1>3. QED
  BY <1>1, <1>2

LEMMA LifecycleIInv ==
    ASSUME IInv, Start \/ StopCall \/ StopStep
    PROVE  IInv'
<1> USE DEF IInv, TypeOK, BusyHasWorker, ClearedAfterLine197, ExposureVars, Alive,
           PastClear
<1>1. CASE Start
  BY <1>1 DEF Start, PropNames, UpdateStates, LifeStates
<1>2. CASE StopCall
  <2>1. life' \in LifeStates /\ swait' \in Nat
    BY <1>2 DEF StopCall, LifeStates, JoinTimeout
  <2>2. UNCHANGED <<isExposing, imageReady, imageData, latest, jpc, jdur,
                    jwait, age, events, props, upc, uwait>> /\ running' = FALSE
    BY <1>2 DEF StopCall
  <2>3. QED
    BY <2>1, <2>2
<1>3. CASE StopJoinUpdate \/ StopLock \/ StopJoinExposure
  BY <1>3 DEF StopJoinUpdate, StopLock, StopJoinExposure, LifeStates,
              JoinTimeout
<1>4. CASE StopFinish
  BY <1>4 DEF StopFinish, PropNames, LifeStates
<1>5. QED
  BY <1>1, <1>2, <1>3, <1>4 DEF StopStep

LEMMA TickIInv ==
    ASSUME IInv, Tick
    PROVE  IInv'
<1> USE DEF IInv, TypeOK, BusyHasWorker, ClearedAfterLine197
<1>1. jwait' \in [Jobs -> Nat] /\ uwait' \in Nat /\ swait' \in Nat
  BY DEF Tick, Dec
<1>2. age' \in [Jobs -> Nat]
  BY DEF Tick
<1>3. QED
  BY <1>1, <1>2 DEF Tick

\* Every step keeps the inductive invariant.
LEMMA IInvHolds_Step ==
    ASSUME IInv, [Next]_vars
    PROVE  IInv'
<1>1. CASE \E d \in Durations : StartExposure(d)
  BY <1>1, StartExposureIInv
<1>2. CASE AbortExposure
  BY <1>2, AbortExposureIInv
<1>3. CASE \E j \in Jobs : ExposureStep(j)
  BY <1>3, ExposureStepIInv
<1>4. CASE UpdateCheck \/ UpdateWork
  BY <1>4, UpdateStepIInv
<1>5. CASE Start \/ StopCall \/ StopStep
  BY <1>5, LifecycleIInv
<1>6. CASE Tick
  BY <1>6, TickIInv
<1>7. CASE UNCHANGED vars
  BY <1>7 DEF vars, IInv, TypeOK, BusyHasWorker, ClearedAfterLine197
<1>8. QED
  BY <1>1, <1>2, <1>3, <1>4, <1>5, <1>6, <1>7 DEF Next

\* The inductive invariant holds in every reachable state.
THEOREM IInvHolds == Spec => []IInv
<1>1. Init => IInv
  BY InitIInv
<1>2. IInv /\ [Next]_vars => IInv'
  BY IInvHolds_Step
<1>3. QED
  BY <1>1, <1>2, PTL DEF Spec

\* The camera is never wedged busy, for every exposure-time set and bound:
\* while is_exposing is set, the newest exposure thread is still running.
THEOREM BusyHasWorkerHolds == Spec => []BusyHasWorker
  BY IInvHolds, PTL DEF IInv

\* Every reachable state is well typed.
THEOREM TypeCorrect == Spec => []TypeOK
  BY IInvHolds, PTL DEF IInv
(***************************************************************************)
(* stop() and the update thread (lines 78-82 against lines 94-95).         *)
(***************************************************************************)

\* The update thread's sleep is never longer than the 1 s of line 95; it is
\* not started before start(); while stop() joins it, running is clear, a
\* sleep in progress ends strictly before the 2 s join times out, and a
\* thread at its while test has time left to see the cleared flag; once
\* stop() is past the join, the thread has ended or never started.
JoinOutlastsSleep ==
    /\ upc = "sleep" => uwait <= UpdateSleep
    /\ life = "created" => upc = "none"
    /\ life = "joinU" =>
         /\ ~running
         /\ upc = "sleep" => uwait < swait
         /\ upc = "check" => swait > 0
    /\ life \in {"lock", "joinE", "finish", "stopped"} => upc \in {"none", "done"}

\* The exposure threads and the handlers leave the update thread, the flag
\* and the main thread alone.
LEMMA ExposureSideJoin ==
    ASSUME JoinOutlastsSleep,
           \/ \E d \in Durations : StartExposure(d)
           \/ AbortExposure
           \/ \E j \in Jobs : ExposureStep(j)
    PROVE  JoinOutlastsSleep'
<1>1. UNCHANGED <<running, upc, uwait, life, swait>>
  <2>1. CASE \E d \in Durations : StartExposure(d)
    BY <2>1 DEF StartExposure
  <2>2. CASE AbortExposure
    BY <2>2 DEF AbortExposure
  <2>3. CASE \E j \in Jobs : ExposureStep(j)
    BY <2>3 DEF ExposureStep, ExposureBegin, ExposureLoop, ExposureCheck,
                ExposureReadout, ExposureGenerate, ExposureClear, ExposureReady,
                ExposurePublish, ExposureAnnounce, ExposureErrClear,
                ExposureErrPublish, JobVarsOther
  <2>4. QED
    BY <2>1, <2>2, <2>3
<1>2. QED
  BY <1>1 DEF JoinOutlastsSleep

\* Every step of the update thread, of start()/stop() and of time keeps
\* the join ahead of the sleep.
LEMMA LifeSideJoin ==
    ASSUME TypeOK, JoinOutlastsSleep,
           \/ UpdateCheck \/ UpdateWork
           \/ Start \/ StopCall \/ StopStep
           \/ Tick
    PROVE  JoinOutlastsSleep'
<1> USE DEF JoinOutlastsSleep, TypeOK, UpdateSleep, JoinTimeout
<1>1. CASE UpdateCheck
  BY <1>1 DEF UpdateCheck, UpdateVarsOther
<1>2. CASE UpdateWork
  BY <1>2 DEF UpdateWork, UpdateVarsOther
<1>3. CASE Start
  BY <1>3 DEF Start
<1>4. CASE StopCall
  BY <1>4 DEF StopCall, UpdateStates
<1>5. CASE StopJoinUpdate
  BY <1>5 DEF StopJoinUpdate, UpdateStates
<1>6. CASE StopLock \/ StopJoinExposure \/ StopFinish
  BY <1>6 DEF StopLock, StopJoinExposure, StopFinish
<1>7. CASE Tick
  <2>1. upc = "sleep" => uwait > 0
    BY <1>7 DEF Tick, UpdateRunnable
  <2>2. upc # "check"
    BY <1>7 DEF Tick, UpdateRunnable
  <2>3. /\ uwait' = Dec(uwait) /\ swait' = Dec(swait)
        /\ UNCHANGED <<running, upc, life>>
    BY <1>7 DEF Tick
  <2>4. QED
    BY <2>1, <2>2, <2>3 DEF Dec
<1>8. QED
  BY <1>1, <1>2, <1>3, <1>4, <1>5, <1>6, <1>7 DEF StopStep

\* The join invariant holds in every reachable state.
THEOREM JoinInvHolds == Spec => [](IInv /\ JoinOutlastsSleep)
<1>1. Init => IInv /\ JoinOutlastsSleep
  BY InitIInv DEF Init, JoinOutlastsSleep
<1>2. (IInv /\ JoinOutlastsSleep) /\ [Next]_vars
        => (IInv /\ JoinOutlastsSleep)'
  <2> SUFFICES ASSUME IInv, JoinOutlastsSleep, [Next]_vars
               PROVE  (IInv /\ JoinOutlastsSleep)'
    OBVIOUS
  <2>1. IInv'
    BY IInvHolds_Step
  <2>2. CASE \/ \E d \in Durations : StartExposure(d)
             \/ AbortExposure
             \/ \E j \in Jobs : ExposureStep(j)
    BY <2>1, <2>2, ExposureSideJoin
  <2>3. CASE \/ UpdateCheck \/ UpdateWork
             \/ Start \/ StopCall \/ StopStep
             \/ Tick
    BY <2>1, <2>3, LifeSideJoin DEF IInv
  <2>4. CASE UNCHANGED vars
    BY <2>1, <2>4 DEF vars, JoinOutlastsSleep
  <2>5. QED
    BY <2>2, <2>3, <2>4 DEF Next
<1>3. QED
  BY <1>1, <1>2, PTL DEF Spec

\* When stop() has returned, the update thread has ended, for every
\* exposure-time set and bound: update_loop's 1 s sleep (line 95) ends
\* before the 2 s join of line 82 gives up, and the thread then sees the
\* flag stop() cleared at line 78.
THEOREM UpdateThreadJoinedHolds == Spec => []UpdateThreadJoined
<1>1. JoinOutlastsSleep => UpdateThreadJoined
  BY DEF JoinOutlastsSleep, UpdateThreadJoined
<1>2. QED
  BY <1>1, JoinInvHolds, PTL
(***************************************************************************)
(* The exposure threads' time (lines 172-191 against Tick).                *)
(***************************************************************************)

\* After readout's sleep(1.0) has been taken, a thread may spend up to the
\* readout beyond its exposure time.
AfterReadout == {"generate", "clear", "ready", "publish", "announce",
                 "errclear", "errpublish"}
Late(s) == IF s \in AfterReadout THEN ReadoutSleep ELSE 0

\* A thread not yet created has not aged and does not sleep; a live thread
\* has, counting the sleep it is in, used no more than its exposure time
\* (plus the readout once it is past line 191).
TimeLeftOf(j) ==
    /\ j > latest => jpc[j] = "none" /\ age[j] = 0 /\ jwait[j] = 0
    /\ Alive(jpc[j]) => age[j] + jwait[j] <= jdur[j] + Late(jpc[j])
TimeLeft == \A j \in Jobs : TimeLeftOf(j)

\* The values a thread's time is counted in are natural numbers.
LEMMA TimeTypes ==
    ASSUME TypeOK, NEW j \in Jobs
    PROVE  /\ j \in Nat /\ latest \in Nat
           /\ age[j] \in Nat /\ jwait[j] \in Nat /\ jdur[j] \in Nat
<1>1. j \in Nat /\ latest \in Nat
  BY DEF TypeOK, Jobs
<1>2. age[j] \in Nat /\ jwait[j] \in Nat
  BY DEF TypeOK
<1>3. jdur[j] \in Durations \cup {0}
  BY DEF TypeOK
<1>4. jdur[j] \in Nat
  <2>1. CASE jdur[j] \in Durations
    BY <2>1, DurationsAssumption
  <2>2. CASE jdur[j] = 0
    BY <2>2
  <2>3. QED
    BY <1>3, <2>1, <2>2
<1>5. QED
  BY <1>1, <1>2, <1>4

\* A new exposure thread starts with its whole exposure time ahead.
LEMMA StartExposureTime ==
    ASSUME TypeOK, TimeLeft, NEW d \in Durations, StartExposure(d)
    PROVE  TimeLeft'
<1>1. /\ latest + 1 \in Jobs /\ latest' = latest + 1
      /\ jpc' = [jpc EXCEPT ![latest + 1] = "init"]
      /\ jdur' = [jdur EXCEPT ![latest + 1] = d]
      /\ UNCHANGED <<age, jwait>>
  BY MaxJobsAssumption DEF TypeOK, StartExposure, Jobs
<1>2. d \in Nat
  BY DurationsAssumption
<1>3. jpc[latest + 1] = "none" /\ age[latest + 1] = 0 /\ jwait[latest + 1] = 0
  <2>1. TimeLeftOf(latest + 1)
    BY <1>1 DEF TimeLeft
  <2>2. latest \in Nat
    BY DEF TypeOK
  <2>3. QED
    BY <2>1, <2>2 DEF TimeLeftOf
<1>4. SUFFICES ASSUME NEW j \in Jobs PROVE TimeLeftOf(j)'
  BY DEF TimeLeft
<1>5. j \in Nat /\ latest \in Nat /\ jdur[j] \in Nat
  BY TimeTypes
<1>6. CASE j = latest + 1
  BY <1>1, <1>2, <1>3, <1>5, <1>6 DEF TimeLeftOf, Alive, Late, AfterReadout
<1>7. CASE j # latest + 1
  <2>1. TimeLeftOf(j)
    BY DEF TimeLeft
  <2>2. /\ jpc'[j] = jpc[j] /\ jdur'[j] = jdur[j]
        /\ age'[j] = age[j] /\ jwait'[j] = jwait[j]
    BY <1>1, <1>7 DEF TypeOK
  <2>3. QED
    BY <1>1, <1>5, <1>7, <2>1, <2>2 DEF TimeLeftOf
<1>8. QED
  BY <1>6, <1>7

\* A statement of thread i that moves it to s and leaves it w ticks of
\* sleep keeps the time invariant when the move keeps i's own bound.
LEMMA JobMoveTime ==
    ASSUME TypeOK, TimeLeft, NEW i \in Jobs, NEW s \in JobStates, NEW w \in Nat,
           jpc[i] # "none",
           jpc' = [jpc EXCEPT ![i] = s],
           jwait' = [jwait EXCEPT ![i] = w],
           UNCHANGED <<latest, jdur, age>>,
           Alive(s) => age[i] + w <= jdur[i] + Late(s)
    PROVE  TimeLeft'
<1>1. SUFFICES ASSUME NEW j \in Jobs PROVE TimeLeftOf(j)'
  BY DEF TimeLeft
<1>2. TimeLeftOf(i) /\ TimeLeftOf(j)
  BY DEF TimeLeft
<1>3. j \in Nat /\ i \in Nat /\ latest \in Nat
  BY TimeTypes
<1>4. CASE j = i
  <2>1. ~(i > latest)
    BY <1>2, <1>3 DEF TimeLeftOf
  <2>2. jpc'[i] = s /\ jwait'[i] = w
    BY DEF TypeOK
  <2>3. QED
    BY <1>4, <2>1, <2>2 DEF TimeLeftOf
<1>5. CASE j # i
  <2>1. jpc'[j] = jpc[j] /\ jwait'[j] = jwait[j]
    BY <1>5 DEF TypeOK
  <2>2. QED
    BY <1>2, <2>1 DEF TimeLeftOf
<1>6. QED
  BY <1>4, <1>5

\* Each statement of exposure thread i keeps its own time and leaves the
\* other threads' alone.
LEMMA ExposureStepTime ==
    ASSUME TypeOK, TimeLeft, NEW i \in Jobs, ExposureStep(i)
    PROVE  TimeLeft'
<1>1. /\ age[i] \in Nat /\ jwait[i] \in Nat /\ jdur[i] \in Nat
      /\ jwait = [jwait EXCEPT ![i] = jwait[i]]
  BY TimeTypes DEF TypeOK
<1>2. Alive(jpc[i]) => age[i] + jwait[i] <= jdur[i] + Late(jpc[i])
  BY DEF TimeLeft, TimeLeftOf
<1> USE <1>1, <1>2 DEF Alive, Late, AfterReadout, JobStates, Goto, JobVarsOther
<1>3. CASE ExposureBegin(i)
  BY <1>3, JobMoveTime DEF ExposureBegin
<1>4. CASE ExposureLoop(i) /\ isExposing /\ age[i] < jdur[i]
  <2>1. /\ jpc[i] = "loop" /\ jpc' = jpc
        /\ jwait' = [jwait EXCEPT ![i] = ProgressSleep]
        /\ UNCHANGED <<latest, jdur, age>>
    BY <1>4 DEF ExposureLoop
  <2>2. jpc' = [jpc EXCEPT ![i] = "loop"]
    BY <2>1 DEF TypeOK
  <2>3. age[i] + ProgressSleep <= jdur[i] + Late("loop")
    BY <1>4 DEF ProgressSleep
  <2>4. QED
    BY <2>1, <2>2, <2>3, JobMoveTime DEF ProgressSleep
<1>5. CASE ExposureLoop(i) /\ ~(isExposing /\ age[i] < jdur[i])
  BY <1>5, JobMoveTime DEF ExposureLoop
<1>6. CASE ExposureCheck(i)
  BY <1>6, JobMoveTime DEF ExposureCheck
<1>7. CASE ExposureReadout(i)
  <2>1. /\ jpc[i] = "readout" /\ jpc' = [jpc EXCEPT ![i] = "generate"]
        /\ jwait' = [jwait EXCEPT ![i] = ReadoutSleep]
        /\ UNCHANGED <<latest, jdur, age>>
    BY <1>7 DEF ExposureReadout
  <2>2. age[i] + ReadoutSleep <= jdur[i] + Late("generate")
    BY <2>1 DEF ReadoutSleep
  <2>3. QED
    BY <2>1, <2>2, JobMoveTime DEF ReadoutSleep
<1>8. CASE ExposureGenerate(i)
  BY <1>8, JobMoveTime DEF ExposureGenerate
<1>9. CASE ExposureClear(i) \/ ExposureReady(i) \/ ExposurePublish(i)
  BY <1>9, JobMoveTime DEF ExposureClear, ExposureReady, ExposurePublish
<1>10. CASE ExposureAnnounce(i) \/ ExposureErrClear(i) \/ ExposureErrPublish(i)
  BY <1>10, JobMoveTime DEF ExposureAnnounce, ExposureErrClear, ExposureErrPublish
<1>11. QED
  BY <1>3, <1>4, <1>5, <1>6, <1>7, <1>8, <1>9, <1>10 DEF ExposureStep

\* Time passes only while every live thread sleeps: each tick takes one
\* tick off its sleep and adds at most one to its age.
LEMMA TickTime ==
    ASSUME TypeOK, TimeLeft, Tick
    PROVE  TimeLeft'
<1>1. SUFFICES ASSUME NEW j \in Jobs PROVE TimeLeftOf(j)'
  BY DEF TimeLeft
<1>2. TimeLeftOf(j)
  BY DEF TimeLeft
<1>3. age[j] \in Nat /\ jwait[j] \in Nat /\ jdur[j] \in Nat
      /\ j \in Nat /\ latest \in Nat
  BY TimeTypes
<1>4. /\ jwait'[j] = Dec(jwait[j])
      /\ age'[j] = IF Alive(jpc[j]) /\ age[j] < AgeCap THEN age[j] + 1 ELSE age[j]
      /\ UNCHANGED <<latest, jpc, jdur>>
  BY DEF Tick
<1>5. CASE Alive(jpc[j])
  <2>1. jwait[j] > 0
    <3>1. ~JobRunnable(j)
      BY DEF Tick
    <3>2. QED
      BY <1>3, <1>5, <3>1 DEF JobRunnable
  <2>2. jwait'[j] = jwait[j] - 1 /\ age'[j] <= age[j] + 1 /\ age'[j] \in Nat
    BY <1>3, <1>4, <2>1 DEF Dec
  <2>3. age[j] + jwait[j] <= jdur[j] + Late(jpc[j])
    BY <1>2, <1>5 DEF TimeLeftOf
  <2>4. jpc'[j] = jpc[j] /\ jdur'[j] = jdur[j]
    BY <1>4
  <2>5. age'[j] + jwait'[j] <= jdur'[j] + Late(jpc'[j])
    BY <1>3, <2>2, <2>3, <2>4 DEF Late, ReadoutSleep
  <2>6. ~(j > latest)
    BY <1>2, <1>3, <1>5 DEF TimeLeftOf, Alive
  <2>7. QED
    BY <1>4, <2>5, <2>6 DEF TimeLeftOf
<1>6. CASE ~Alive(jpc[j])
  <2>1. age'[j] = age[j] /\ (jwait[j] = 0 => jwait'[j] = 0)
    BY <1>4, <1>6 DEF Dec
  <2>2. QED
    BY <1>2, <1>4, <1>6, <2>1 DEF TimeLeftOf
<1>7. QED
  BY <1>5, <1>6

\* The other threads leave the exposure threads' time alone.
LEMMA OtherStepTime ==
    ASSUME TimeLeft,
           \/ AbortExposure \/ UpdateCheck \/ UpdateWork
           \/ Start \/ StopCall \/ StopStep
    PROVE  TimeLeft'
<1>1. UNCHANGED <<latest, jpc, jdur, jwait, age>>
  <2>1. CASE AbortExposure
    BY <2>1 DEF AbortExposure
  <2>2. CASE UpdateCheck \/ UpdateWork
    BY <2>2 DEF UpdateCheck, UpdateWork, UpdateVarsOther
  <2>3. CASE Start \/ StopCall
    BY <2>3 DEF Start, StopCall, ExposureVars
  <2>4. CASE StopStep
    BY <2>4 DEF StopStep, StopJoinUpdate, StopLock, StopJoinExposure,
                StopFinish, ExposureVars
  <2>5. QED
    BY <2>1, <2>2, <2>3, <2>4
<1>2. QED
  BY <1>1 DEF TimeLeft, TimeLeftOf

\* The time invariant holds in every reachable state.
THEOREM TimeLeftHolds == Spec => [](IInv /\ TimeLeft)
<1>1. Init => IInv /\ TimeLeft
  BY InitIInv DEF Init, TimeLeft, TimeLeftOf, Alive
<1>2. (IInv /\ TimeLeft) /\ [Next]_vars => (IInv /\ TimeLeft)'
  <2> SUFFICES ASSUME IInv, TimeLeft, [Next]_vars
               PROVE  (IInv /\ TimeLeft)'
    OBVIOUS
  <2>1. IInv'
    BY IInvHolds_Step
  <2>2. TypeOK
    BY DEF IInv
  <2>3. CASE \E d \in Durations : StartExposure(d)
    BY <2>1, <2>2, <2>3, StartExposureTime
  <2>4. CASE \E j \in Jobs : ExposureStep(j)
    BY <2>1, <2>2, <2>4, ExposureStepTime
  <2>5. CASE Tick
    BY <2>1, <2>2, <2>5, TickTime
  <2>6. CASE \/ AbortExposure \/ UpdateCheck \/ UpdateWork
             \/ Start \/ StopCall \/ StopStep
    BY <2>1, <2>6, OtherStepTime
  <2>7. CASE UNCHANGED vars
    BY <2>1, <2>7 DEF vars, TimeLeft, TimeLeftOf
  <2>8. QED
    BY <2>3, <2>4, <2>5, <2>6, <2>7 DEF Next
<1>3. QED
  BY <1>1, <1>2, PTL DEF Spec

\* Every exposure thread ends within its exposure time plus the 1 s
\* readout, for every set of exposure times and every bound on exposures,
\* whatever aborts, restarts and stop() do meanwhile: the loop of lines
\* 172-183 sleeps only while time is left, and line 191 sleeps once.
THEOREM ExposureThreadDeadlineHolds == Spec => []ExposureThreadDeadline
<1>1. IInv /\ TimeLeft => ExposureThreadDeadline
  <2> SUFFICES ASSUME IInv, TimeLeft, NEW j \in Jobs, Alive(jpc[j])
               PROVE  age[j] <= jdur[j] + ReadoutSleep
    BY DEF ExposureThreadDeadline
  <2>1. age[j] + jwait[j] <= jdur[j] + Late(jpc[j])
    BY DEF TimeLeft, TimeLeftOf
  <2>2. age[j] \in Nat /\ jwait[j] \in Nat /\ jdur[j] \in Nat
    BY TimeTypes DEF IInv
  <2>3. QED
    BY <2>1, <2>2 DEF Late, ReadoutSleep
<1>2. QED
  BY <1>1, TimeLeftHolds, PTL
=============================================================================
