---------------------------- MODULE RunLifecycle ----------------------------
(***************************************************************************)
(* What the Shell promises about the status of a Run, whoever drives it:   *)
(* the owner, the recovery loop, a Module's Stages, a restart.  One         *)
(* variable, one edge per thing that may happen to a Run.  RunEngine is     *)
(* shown to implement it.                                                   *)
(***************************************************************************)
CONSTANT Runs

VARIABLE status

Statuses == {"pending", "running", "blocked", "failed", "done", "skipped"}

Settled == {"blocked", "failed", "done", "skipped"}

Init == status = [r \in Runs |-> "absent"]

Create(r) == /\ status[r] = "absent"
             /\ status' = [status EXCEPT ![r] = "pending"]

\* A Stage starts: only work that is queued or already under way runs.
Start(r) == /\ status[r] \in {"pending", "running"}
            /\ status' = [status EXCEPT ![r] = "running"]

\* Only a running Stage may fail or wait.
Stop(r) == /\ status[r] = "running"
           /\ \E s \in {"blocked", "failed"} : status' = [status EXCEPT ![r] = s]

\* A Module may end a Run before its first Stage as well as after its last.
Finish(r) == /\ status[r] \in {"pending", "running"}
             /\ \E s \in {"done", "skipped"} : status' = [status EXCEPT ![r] = s]

\* Retry, resume, re-entry and recovery all return to pending, and nothing
\* else leaves a settled status.
Reopen(r) == /\ status[r] \in Settled \cup {"running"}
             /\ status' = [status EXCEPT ![r] = "pending"]

Next == \E r \in Runs : Create(r) \/ Start(r) \/ Stop(r) \/ Finish(r) \/ Reopen(r)

Spec == Init /\ [][Next]_status
=============================================================================
