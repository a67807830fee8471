--------------------------- MODULE AdvancedCamera ---------------------------
(***************************************************************************)
(* The exposure machinery and the lifecycle of AdvancedCamera              *)
(* (src/examples/python/advanced_camera.py).                               *)
(*                                                                         *)
(* Three kinds of thread share the camera object:                          *)
(*  - the command thread, which runs the START_EXPOSURE and ABORT_EXPOSURE *)
(*    handlers; both take exposure_lock for their whole body, so each is   *)
(*    one atomic step here;                                                *)
(*  - one exposure_process thread per accepted exposure, which reads and   *)
(*    writes is_exposing WITHOUT the lock, one statement per step;         *)
(*  - the update_loop thread (its control only: the temperature numerics  *)
(*    are the subject of module CameraCooling);                            *)
(* and the main thread runs start() and, after run() has returned, stop(). *)
(*                                                                         *)
(* Time advances in ticks of 0.5 s.  A sleeping thread holds a count of    *)
(* ticks still to sleep.  Tick is taken only when no thread can run: the   *)
(* statements between sleeps take microseconds, the sleeps 0.5 s to 2 s.  *)
(***************************************************************************)
EXTENDS Naturals, Sequences

CONSTANTS
    Durations,  \* exposure times a START_EXPOSURE may carry, in ticks
    MaxJobs     \* bound on the number of exposures accepted in one run

ASSUME DurationsAssumption == Durations \subseteq Nat /\ Durations # {}
ASSUME MaxJobsAssumption == MaxJobs \in Nat \ {0}

Jobs == 1..MaxJobs

\* time.sleep(0.5) in the exposure loop (line 183)
ProgressSleep == 1
\* time.sleep(1.0) of the readout (line 191)
ReadoutSleep == 2
\* Mutant: update_loop sleeps 2.5 s, longer than the join of stop().
UpdateSleepLong == 5
\* time.sleep(1.0) of update_loop (line 95)
UpdateSleep == 2
\* join(2.0) on the update thread and on the exposure thread (lines 82, 86)
JoinTimeout == 4

\* Program counters of exposure_process, one per statement group.
JobStates == {"none",      \* thread not created
              "init",      \* lines 163-169: start_time, EXPOSURE_STARTED
              "loop",      \* line 172: the while condition (after a sleep)
              "check",     \* line 186: if not self.is_exposing: return
              "readout",   \* lines 190-191: READING_OUT, sleep(1.0)
              "generate",  \* line 194: generate_image, may raise
              "clear",     \* line 197: is_exposing = False
              "ready",     \* line 198: image_ready = True
              "publish",   \* lines 199-200: the two set_property calls
              "announce",  \* line 203: EXPOSURE_COMPLETE
              "errclear",  \* line 217: is_exposing = False (except branch)
              "errpublish",\* lines 218-222: set_property, EXPOSURE_ERROR
              "done"}
Alive(s) == s \notin {"none", "done"}

\* The lifecycle as the main thread runs it.
LifeStates == {"created",  \* constructed, start() not yet called
               "started",  \* start() returned True; run() serves commands
               "joinU",    \* stop(): lines 81-82, joining the update thread
               "lock",     \* stop(): line 84, taking exposure_lock
               "joinE",    \* stop(): lines 85-86, joining the exposure thread
               "finish",   \* stop(): lines 87-89
               "stopped"}  \* stop() returned
UpdateStates == {"none", "check", "sleep", "done"}

EventKinds == {"EXPOSURE_STARTED", "READING_OUT", "EXPOSURE_COMPLETE",
               "EXPOSURE_ABORTED", "EXPOSURE_ERROR"}
PropNames == {"exposing", "image_ready", "connected"}
NoImage == 0   \* image_data = None

MaxDuration == CHOOSE d \in Durations : \A e \in Durations : e <= d
\* ages are counted up to one tick past the longest possible thread life
AgeCap == MaxDuration + ReadoutSleep + 1

VARIABLES
    isExposing,  \* self.is_exposing
    imageReady,  \* self.image_ready
    imageData,   \* self.image_data: NoImage, or the job whose image it is
    props,       \* the device's property store, restricted to PropNames
    latest,      \* self.exposure_thread: 0 (None) or the newest job
    jpc,         \* jpc[j]: where exposure thread j is
    jdur,        \* jdur[j]: the exposure_time argument of thread j
    jwait,       \* jwait[j]: ticks thread j still sleeps
    age,         \* age[j]: ticks since thread j took start_time (ghost)
    running,     \* self.running
    upc,         \* where the update thread is
    uwait,       \* ticks the update thread still sleeps
    life,        \* where the main thread is in the lifecycle
    swait,       \* ticks left before the pending join times out
    events       \* the events sent, in order, tagged with their job (ghost tag)

vars == <<isExposing, imageReady, imageData, props, latest, jpc, jdur, jwait,
          age, running, upc, uwait, life, swait, events>>

Event(k, j) == [kind |-> k, job |-> j]
Emit(k, j) == events' = Append(events, Event(k, j))

\* stop() holds exposure_lock from line 84 until the with block ends
LockHeldByStop == life \in {"joinE", "finish"}

TypeOK ==
    /\ isExposing \in BOOLEAN
    /\ imageReady \in BOOLEAN
    /\ imageData \in Jobs \cup {NoImage}
    /\ props \in [PropNames -> BOOLEAN]
    /\ latest \in 0..MaxJobs
    /\ jpc \in [Jobs -> JobStates]
    /\ jdur \in [Jobs -> Durations \cup {0}]
    /\ jwait \in [Jobs -> Nat]
    /\ age \in [Jobs -> Nat]
    /\ running \in BOOLEAN
    /\ upc \in UpdateStates
    /\ uwait \in Nat
    /\ life \in LifeStates
    /\ swait \in Nat
    /\ events \in Seq([kind : EventKinds, job : Jobs])

Init ==
    /\ isExposing = FALSE
    /\ imageReady = FALSE
    /\ imageData = NoImage
    /\ props = [p \in PropNames |-> FALSE]
    /\ latest = 0
    /\ jpc = [j \in Jobs |-> "none"]
    /\ jdur = [j \in Jobs |-> 0]
    /\ jwait = [j \in Jobs |-> 0]
    /\ age = [j \in Jobs |-> 0]
    /\ running = FALSE
    /\ upc = "none"
    /\ uwait = 0
    /\ life = "created"
    /\ swait = 0
    /\ events = <<>>

Dec(n) == IF n > 0 THEN n - 1 ELSE 0

(***************************************************************************)
(* Command handlers.  Commands are served by run(), which main() calls     *)
(* after start() and before stop(): they arrive only while life is         *)
(* "started".  A rejected request (busy camera, nothing to abort, missing  *)
(* duration) changes no state and is not an action.                       *)
(***************************************************************************)

\* handle_start_exposure -> start_exposure(duration): accepted when idle
StartExposure(d) ==
    /\ life = "started"
    /\ ~LockHeldByStop
    /\ ~isExposing
    /\ latest < MaxJobs
    /\ LET j == latest + 1 IN
         /\ latest' = j
         /\ jpc' = [jpc EXCEPT ![j] = "init"]
         /\ jdur' = [jdur EXCEPT ![j] = d]
    /\ isExposing' = TRUE
    /\ imageReady' = FALSE
    /\ props' = [props EXCEPT !["exposing"] = TRUE, !["image_ready"] = FALSE]
    /\ UNCHANGED <<imageData, jwait, age, running, upc, uwait, life, swait, events>>

\* handle_abort_exposure -> abort_exposure(): accepted while is_exposing
AbortExposure ==
    /\ life = "started"
    /\ ~LockHeldByStop
    /\ isExposing
    /\ isExposing' = FALSE
    /\ props' = [props EXCEPT !["exposing"] = FALSE]
    /\ Emit("EXPOSURE_ABORTED", latest)
    /\ UNCHANGED <<imageReady, imageData, latest, jpc, jdur, jwait, age,
                   running, upc, uwait, life, swait>>

\* handle_get_image: the image is served when both of these hold
GetImageServes == imageReady /\ imageData # NoImage

(***************************************************************************)
(* exposure_process(exposure_time, is_light), thread j.                    *)
(***************************************************************************)
JobVarsOther == <<imageReady, imageData, latest, jdur, age, running, upc,
                  uwait, life, swait>>

Goto(j, s) == jpc' = [jpc EXCEPT ![j] = s]

ExposureBegin(j) ==
    /\ jpc[j] = "init"
    /\ Goto(j, "loop")
    /\ Emit("EXPOSURE_STARTED", j)
    /\ UNCHANGED <<isExposing, props, jwait>> /\ UNCHANGED JobVarsOther

\* Mutant: the loop runs while elapsed <= exposure_time (off by one tick).
ExposureLoopInclusive(j) ==
    /\ jpc[j] = "loop"
    /\ jwait[j] = 0
    /\ \/ /\ isExposing /\ age[j] <= jdur[j]
          /\ jwait' = [jwait EXCEPT ![j] = ProgressSleep]
          /\ UNCHANGED jpc
       \/ /\ ~(isExposing /\ age[j] <= jdur[j])
          /\ Goto(j, "check")
          /\ UNCHANGED jwait
    /\ UNCHANGED <<isExposing, props, events>> /\ UNCHANGED JobVarsOther

\* Mutant: the loop waits only for an abort (while self.is_exposing).
ExposureLoopUntilAborted(j) ==
    /\ jpc[j] = "loop"
    /\ jwait[j] = 0
    /\ \/ /\ isExposing
          /\ jwait' = [jwait EXCEPT ![j] = ProgressSleep]
          /\ UNCHANGED jpc
       \/ /\ ~isExposing
          /\ Goto(j, "check")
          /\ UNCHANGED jwait
    /\ UNCHANGED <<isExposing, props, events>> /\ UNCHANGED JobVarsOther

\* while self.is_exposing and elapsed < exposure_time: progress; sleep(0.5)
ExposureLoop(j) ==
    /\ jpc[j] = "loop"
    /\ jwait[j] = 0
    /\ \/ /\ isExposing /\ age[j] < jdur[j]
          /\ jwait' = [jwait EXCEPT ![j] = ProgressSleep]
          /\ UNCHANGED jpc
       \/ /\ ~(isExposing /\ age[j] < jdur[j])
          /\ Goto(j, "check")
          /\ UNCHANGED jwait
    /\ UNCHANGED <<isExposing, props, events>> /\ UNCHANGED JobVarsOther

ExposureCheck(j) ==
    /\ jpc[j] = "check"
    /\ Goto(j, IF isExposing THEN "readout" ELSE "done")
    /\ UNCHANGED <<isExposing, props, jwait, events>> /\ UNCHANGED JobVarsOther

ExposureReadout(j) ==
    /\ jpc[j] = "readout"
    /\ Goto(j, "generate")
    /\ jwait' = [jwait EXCEPT ![j] = ReadoutSleep]
    /\ Emit("READING_OUT", j)
    /\ UNCHANGED <<isExposing, props>> /\ UNCHANGED JobVarsOther

\* generate_image stores the image in image_data, or raises
ExposureGenerate(j) ==
    /\ jpc[j] = "generate"
    /\ jwait[j] = 0
    /\ \/ /\ imageData' = j
          /\ Goto(j, "clear")
       \/ /\ UNCHANGED imageData
          /\ Goto(j, "errclear")
    /\ UNCHANGED <<isExposing, imageReady, props, latest, jdur, jwait, age,
                   running, upc, uwait, life, swait, events>>

\* Mutant: completion forgets is_exposing = False (line 197 dropped).
ExposureClearKeepsBusy(j) ==
    /\ jpc[j] = "clear"
    /\ Goto(j, "ready")
    /\ UNCHANGED <<isExposing, props, jwait, events>> /\ UNCHANGED JobVarsOther

ExposureClear(j) ==
    /\ jpc[j] = "clear"
    /\ isExposing' = FALSE
    /\ Goto(j, "ready")
    /\ UNCHANGED <<props, jwait, events>> /\ UNCHANGED JobVarsOther

ExposureReady(j) ==
    /\ jpc[j] = "ready"
    /\ imageReady' = TRUE
    /\ Goto(j, "publish")
    /\ UNCHANGED <<isExposing, imageData, props, latest, jdur, jwait, age,
                   running, upc, uwait, life, swait, events>>

ExposurePublish(j) ==
    /\ jpc[j] = "publish"
    /\ props' = [props EXCEPT !["exposing"] = FALSE, !["image_ready"] = TRUE]
    /\ Goto(j, "announce")
    /\ UNCHANGED <<isExposing, jwait, events>> /\ UNCHANGED JobVarsOther

ExposureAnnounce(j) ==
    /\ jpc[j] = "announce"
    /\ Emit("EXPOSURE_COMPLETE", j)
    /\ Goto(j, "done")
    /\ UNCHANGED <<isExposing, props, jwait>> /\ UNCHANGED JobVarsOther

ExposureErrClear(j) ==
    /\ jpc[j] = "errclear"
    /\ isExposing' = FALSE
    /\ Goto(j, "errpublish")
    /\ UNCHANGED <<props, jwait, events>> /\ UNCHANGED JobVarsOther

ExposureErrPublish(j) ==
    /\ jpc[j] = "errpublish"
    /\ props' = [props EXCEPT !["exposing"] = FALSE]
    /\ Emit("EXPOSURE_ERROR", j)
    /\ Goto(j, "done")
    /\ UNCHANGED <<isExposing, jwait>> /\ UNCHANGED JobVarsOther

ExposureStep(j) ==
    \/ ExposureBegin(j) \/ ExposureLoop(j) \/ ExposureCheck(j)
    \/ ExposureReadout(j) \/ ExposureGenerate(j) \/ ExposureClear(j)
    \/ ExposureReady(j) \/ ExposurePublish(j) \/ ExposureAnnounce(j)
    \/ ExposureErrClear(j) \/ ExposureErrPublish(j)

(***************************************************************************)
(* update_loop: while self.running: sleep(1.0); update temperatures.       *)
(***************************************************************************)
UpdateVarsOther == <<isExposing, imageReady, imageData, props, latest, jpc,
                     jdur, jwait, age, running, life, swait, events>>

UpdateCheck ==
    /\ upc = "check"
    /\ IF running THEN upc' = "sleep" /\ uwait' = UpdateSleep
                  ELSE upc' = "done" /\ UNCHANGED uwait
    /\ UNCHANGED UpdateVarsOther

\* lines 97-118; the values written are CameraCooling's subject
UpdateWork ==
    /\ upc = "sleep"
    /\ uwait = 0
    /\ upc' = "check"
    /\ UNCHANGED uwait /\ UNCHANGED UpdateVarsOther

(***************************************************************************)
(* start() and stop(), run by the main thread.                             *)
(***************************************************************************)
ExposureVars == <<isExposing, imageReady, imageData, latest, jpc, jdur, jwait,
                  age, events>>

\* super().start() succeeds; main() calls start() once
Start ==
    /\ life = "created"
    /\ running' = TRUE
    /\ props' = [props EXCEPT !["connected"] = TRUE]
    /\ upc' = "check"
    /\ life' = "started"
    /\ UNCHANGED <<uwait, swait>> /\ UNCHANGED ExposureVars

\* stop(): line 78, then the test of line 81; stop() may be called again
StopCall ==
    /\ life \in {"created", "started", "stopped"}
    /\ running' = FALSE
    /\ IF upc \in {"check", "sleep"}
         THEN life' = "joinU" /\ swait' = JoinTimeout
         ELSE life' = "lock" /\ UNCHANGED swait
    /\ UNCHANGED <<props, upc, uwait>> /\ UNCHANGED ExposureVars

\* join(2.0) returns when the thread has ended or the timeout has run out
StopJoinUpdate ==
    /\ life = "joinU"
    /\ upc = "done" \/ swait = 0
    /\ life' = "lock"
    /\ swait' = 0
    /\ UNCHANGED <<running, props, upc, uwait>> /\ UNCHANGED ExposureVars

StopLock ==
    /\ life = "lock"
    /\ IF latest # 0 /\ Alive(jpc[latest])
         THEN life' = "joinE" /\ swait' = JoinTimeout
         ELSE life' = "finish" /\ UNCHANGED swait
    /\ UNCHANGED <<running, props, upc, uwait>> /\ UNCHANGED ExposureVars

StopJoinExposure ==
    /\ life = "joinE"
    /\ jpc[latest] = "done" \/ swait = 0
    /\ life' = "finish"
    /\ swait' = 0
    /\ UNCHANGED <<running, props, upc, uwait>> /\ UNCHANGED ExposureVars

\* end of the with block, set_property("connected", False), super().stop()
StopFinish ==
    /\ life = "finish"
    /\ props' = [props EXCEPT !["connected"] = FALSE]
    /\ life' = "stopped"
    /\ UNCHANGED <<running, upc, uwait, swait>> /\ UNCHANGED ExposureVars

StopStep == StopJoinUpdate \/ StopLock \/ StopJoinExposure \/ StopFinish

(***************************************************************************)
(* The passage of 0.5 s, taken only when every thread is asleep or ended.  *)
(***************************************************************************)
JobRunnable(j) == Alive(jpc[j]) /\ jwait[j] = 0
UpdateRunnable == upc = "check" \/ (upc = "sleep" /\ uwait = 0)
MainRunnable ==
    \/ life \in {"lock", "finish"}
    \/ life = "joinU" /\ (upc = "done" \/ swait = 0)
    \/ life = "joinE" /\ (jpc[latest] = "done" \/ swait = 0)
Asleep ==
    \/ \E j \in Jobs : Alive(jpc[j]) /\ jwait[j] > 0
    \/ upc = "sleep" /\ uwait > 0
    \/ life \in {"joinU", "joinE"} /\ swait > 0

Tick ==
    /\ ~\E j \in Jobs : JobRunnable(j)
    /\ ~UpdateRunnable
    /\ ~MainRunnable
    /\ Asleep
    /\ jwait' = [j \in Jobs |-> Dec(jwait[j])]
    /\ age' = [j \in Jobs |-> IF Alive(jpc[j]) /\ age[j] < AgeCap
                                THEN age[j] + 1 ELSE age[j]]
    /\ uwait' = Dec(uwait)
    /\ swait' = Dec(swait)
    /\ UNCHANGED <<isExposing, imageReady, imageData, props, latest, jpc,
                   jdur, running, upc, life, events>>

Next ==
    \/ \E d \in Durations : StartExposure(d)
    \/ AbortExposure
    \/ \E j \in Jobs : ExposureStep(j)
    \/ UpdateCheck \/ UpdateWork
    \/ Start \/ StopCall \/ StopStep
    \/ Tick

\* Every thread that can run eventually runs, and time passes.
Fairness ==
    /\ \A j \in Jobs : WF_vars(ExposureStep(j))
    /\ WF_vars(UpdateCheck \/ UpdateWork)
    /\ WF_vars(StopStep)
    /\ WF_vars(Tick)

Spec == Init /\ [][Next]_vars
FairSpec == Spec /\ Fairness

(***************************************************************************)
(* Properties.                                                             *)
(***************************************************************************)

\* The camera is never wedged busy: while is_exposing is set, the thread
\* held in self.exposure_thread is still running and will clear it or
\* see it cleared (exposure_process, lines 172-217, against start_exposure).
BusyHasWorker == isExposing => latest \in Jobs /\ Alive(jpc[latest])

\* Every exposure thread ends within its exposure time plus the 1 s
\* readout, whatever aborts, restarts and stop() do meanwhile
\* (the loop of lines 172-183 and the sleep of line 191).
ExposureThreadDeadline ==
    \A j \in Jobs : Alive(jpc[j]) => age[j] <= jdur[j] + ReadoutSleep

\* When stop() returns, the update thread has ended: its 1 s sleep is
\* shorter than the 2 s join of line 82.
UpdateThreadJoined == life = "stopped" => upc \in {"none", "done"}

\* A busy camera always becomes idle again (start_exposure sets
\* is_exposing; some exposure thread or an abort clears it).
BusyClears == isExposing ~> ~isExposing

\* Spec section 8: after EXPOSURE_ABORTED for an exposure, no
\* EXPOSURE_COMPLETE for it follows (abort_exposure against
\* exposure_process lines 186-203).
AbortedNeverCompletes ==
    \A i, k \in 1..Len(events) :
        (i < k /\ events[i].kind = "EXPOSURE_ABORTED")
            => events[k] # Event("EXPOSURE_COMPLETE", events[i].job)
=============================================================================
