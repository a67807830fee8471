----------------------------- MODULE TaskRunner -----------------------------
(***************************************************************************)
(* What spec sections 4.4 and 5 promise of a device's background task and *)
(* of stop(): the task is spawned, runs bodies that write the device's     *)
(* properties, and exits only once cancellation was signalled; stop()      *)
(* signals and returns, with or without the task having exited (a timed-   *)
(* out join is allowed), and no body writes once stop() has returned.      *)
(* Cancellation is observed at a tick boundary: a body that has begun      *)
(* completes.  The task exits, and stop() returns, eventually.             *)
(***************************************************************************)

VARIABLES
    task,       \* "none" (not spawned), "idle", "body" (writing), "done"
    cancelled,  \* has stop() signalled cancellation?
    returned    \* has stop() returned?

vars == <<task, cancelled, returned>>

TypeOK ==
    /\ task \in {"none", "idle", "body", "done"}
    /\ cancelled \in BOOLEAN
    /\ returned \in BOOLEAN

Init == task = "none" /\ ~cancelled /\ ~returned

Spawn ==
    /\ task = "none" /\ ~cancelled
    /\ task' = "idle"
    /\ UNCHANGED <<cancelled, returned>>

\* A body begins only while no cancellation has been signalled.
Begin ==
    /\ task = "idle" /\ ~cancelled
    /\ task' = "body"
    /\ UNCHANGED <<cancelled, returned>>

\* The body's writes, never after stop() returned.
Write ==
    /\ task = "body" /\ ~returned
    /\ task' = "idle"
    /\ UNCHANGED <<cancelled, returned>>

\* The task exits only on cancellation.
Exit ==
    /\ task = "idle" /\ cancelled
    /\ task' = "done"
    /\ UNCHANGED <<cancelled, returned>>

\* stop() signals; with no live task it may return in the same call.
Cancel ==
    /\ ~cancelled
    /\ cancelled' = TRUE
    /\ returned' \in IF task \in {"idle", "body"} THEN {FALSE} ELSE BOOLEAN
    /\ UNCHANGED task

\* stop() returns: the join ended or timed out.
Return ==
    /\ cancelled /\ ~returned
    /\ returned' = TRUE
    /\ UNCHANGED <<task, cancelled>>

Next == Spawn \/ Begin \/ Write \/ Exit \/ Cancel \/ Return

Fairness == WF_vars(Write) /\ WF_vars(Exit) /\ WF_vars(Return)

SafeSpec == Init /\ [][Next]_vars
Spec == SafeSpec /\ Fairness
=============================================================================
