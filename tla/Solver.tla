------------------------------- MODULE Solver -------------------------------
(***************************************************************************)
(* AIPlateSolver and its script (src/examples/python/solver_example.py).   *)
(*                                                                         *)
(* The script starts the solver, calls solve_from_file, polls the state    *)
(* property once a second until it is no longer SOLVING, reads the last   *)
(* solution through get_solution_as_dict, and enters run(); Ctrl+C ends a  *)
(* sleep or run(), and the finally clause stop()s and disconnects.         *)
(*                                                                         *)
(* The solve job is the C++ solver's (spec section 4.8): solve() enters    *)
(* SOLVING at once, progress advances in ProgressSteps steps, and the job  *)
(* ends FAILED at any point or SUCCESS once progress is complete; only a   *)
(* SUCCESS populates the result record; stop() cancels the job.  The model *)
(* is untimed: a poll's sleep(1) ends at any point of the job.             *)
(***************************************************************************)
EXTENDS Naturals

CONSTANT ProgressSteps  \* progress reports of a full solve

ASSUME ProgressStepsAssumption == ProgressSteps \in Nat \ {0}

JobStates == {"IDLE", "SOLVING", "SUCCESS", "FAILED"}
\* the script: before start(), about to solve, in the poll's sleep, about
\* to read the state, about to read the solution, in run(), in finally,
\* about to disconnect, over
MainStates == {"init", "solve", "sleep", "read", "report", "run", "final",
               "disconnect", "done"}
Polling == {"sleep", "read"}

VARIABLES
    job,        \* the solver's "state" property
    progress,   \* the "progress" property, in steps
    hasResult,  \* is the result record populated?
    stopped,    \* has stop() been called?
    modelLoaded,\* self.ai_model_loaded
    mpc,        \* where the script is
    found       \* did get_solution_as_dict return a solution?

vars == <<job, progress, hasResult, stopped, modelLoaded, mpc, found>>

TypeOK ==
    /\ job \in JobStates
    /\ progress \in 0..ProgressSteps
    /\ hasResult \in BOOLEAN /\ stopped \in BOOLEAN /\ modelLoaded \in BOOLEAN
    /\ mpc \in MainStates
    /\ found \in BOOLEAN

\* __init__: ai_model_loaded = False (line 19)
Init ==
    /\ job = "IDLE" /\ progress = 0 /\ hasResult = FALSE
    /\ stopped = FALSE /\ modelLoaded = FALSE
    /\ mpc = "init" /\ found = FALSE

(***************************************************************************)
(* The script.                                                             *)
(***************************************************************************)
\* connect, register_device and start() (lines 115-129).  start(): when
\* super().start() succeeds, sleep(2), ai_model_loaded = True, parameters
\* and properties (lines 21-55).  A failure is sys.exit(1): the finally
\* clause runs.
StartScript ==
    /\ mpc = "init"
    /\ \E ok \in BOOLEAN :
         /\ modelLoaded' = ok
         /\ mpc' = IF ok THEN "solve" ELSE "final"
    /\ UNCHANGED <<job, progress, hasResult, stopped, found>>

\* solve_from_file: a solve while SOLVING is rejected; otherwise a fresh job
\* (spec section 4.8).  Then solving = True and the poll loop.
SolveFromFile ==
    /\ mpc = "solve"
    /\ IF job = "SOLVING"
         THEN UNCHANGED <<job, progress, hasResult>>
         ELSE job' = "SOLVING" /\ progress' = 0 /\ hasResult' = FALSE
    /\ mpc' = "sleep"
    /\ UNCHANGED <<stopped, modelLoaded, found>>

\* time.sleep(1) ends
PollSleep ==
    /\ mpc = "sleep"
    /\ mpc' = "read"
    /\ UNCHANGED <<job, progress, hasResult, stopped, modelLoaded, found>>

\* Mutant: the loop goes on until the state reads SUCCESS.
PollRead_UntilSuccess ==
    /\ mpc = "read"
    /\ mpc' = IF job # "SUCCESS" THEN "sleep" ELSE "report"
    /\ UNCHANGED <<job, progress, hasResult, stopped, modelLoaded, found>>

\* state = get_property("state"); progress = get_property("progress") is
\* only printed; solving = (state == "SOLVING")
PollRead ==
    /\ mpc = "read"
    /\ mpc' = IF job = "SOLVING" THEN "sleep" ELSE "report"
    /\ UNCHANGED <<job, progress, hasResult, stopped, modelLoaded, found>>

\* solution = get_solution_as_dict(): None unless the last solution has
\* success (lines 84-107, 147-155)
Report ==
    /\ mpc = "report"
    /\ found' = (hasResult /\ job = "SUCCESS")
    /\ mpc' = "run"
    /\ UNCHANGED <<job, progress, hasResult, stopped, modelLoaded>>

\* KeyboardInterrupt in a poll's sleep or in run(): on to finally
Interrupt ==
    /\ mpc \in {"sleep", "run"}
    /\ mpc' = "final"
    /\ UNCHANGED <<job, progress, hasResult, stopped, modelLoaded, found>>

\* finally: solver.stop() cancels the job
Final ==
    /\ mpc = "final"
    /\ stopped' = TRUE
    /\ mpc' = "disconnect"
    /\ UNCHANGED <<job, progress, hasResult, modelLoaded, found>>

\* solver.disconnect(); the script ends
Disconnect ==
    /\ mpc = "disconnect"
    /\ mpc' = "done"
    /\ UNCHANGED <<job, progress, hasResult, stopped, modelLoaded, found>>

(***************************************************************************)
(* The C++ solve job (spec section 4.8).                                   *)
(***************************************************************************)
JobVarsOther == <<stopped, modelLoaded, mpc, found>>

JobProgress ==
    /\ job = "SOLVING" /\ ~stopped
    /\ progress < ProgressSteps
    /\ progress' = progress + 1
    /\ UNCHANGED <<job, hasResult>> /\ UNCHANGED JobVarsOther

\* the ways the job may end at its current progress
JobOutcomes == IF progress = ProgressSteps THEN {"SUCCESS", "FAILED"}
                                           ELSE {"FAILED"}

JobEnd ==
    /\ job = "SOLVING" /\ ~stopped
    /\ job' \in JobOutcomes
    /\ hasResult' = (job' = "SUCCESS")
    /\ UNCHANGED progress /\ UNCHANGED JobVarsOther

MainStep ==
    \/ StartScript \/ SolveFromFile \/ PollSleep \/ PollRead \/ Report
    \/ Final \/ Disconnect

JobStep == JobProgress \/ JobEnd

Terminated == mpc = "done"

Next == MainStep \/ Interrupt \/ JobStep \/ (Terminated /\ UNCHANGED vars)

\* The script and the job run whenever they can; Ctrl+C need never come.
Fairness == WF_vars(MainStep) /\ WF_vars(JobStep)

Spec == Init /\ [][Next]_vars
FairSpec == Spec /\ Fairness

(***************************************************************************)
(* Properties.                                                             *)
(***************************************************************************)

\* The poll loop ends: every solve ends SUCCESS or FAILED and the loop
\* leaves on either (unless Ctrl+C ends it first).
PollEnds == (mpc \in Polling) ~> (mpc \notin Polling)
=============================================================================
