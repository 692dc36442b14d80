----------------------------- MODULE RunEngine -----------------------------
(***************************************************************************)
(* The generic Run engine (engine/runner.ts) over the Run store (runs.ts). *)
(*                                                                         *)
(* A JavaScript turn is atomic for every other turn but not for a crash:   *)
(* a transition writes meta.json and only then appends its events.  A turn  *)
(* therefore updates the volatile state at once and leaves the rest of its  *)
(* disk writes, in order, in io; no other turn starts before io is empty,   *)
(* and a crash drops what is left of it.                                    *)
(***************************************************************************)
EXTENDS Naturals, Sequences, FiniteSets

CONSTANTS
  Runs,         \* identities newRunId may hand out
  Planned,      \* Runs the Module plans a recovery for whenever it is asked
  NoRun,        \* "no Run is executing"
  MaxSteps,     \* bound: Stage entries, events and attempts of one module.run
  MaxAttempts,  \* bound on meta.attempts
  TornAppends   \* whether a crash may leave an appended line torn

ASSUME EngineAssumption ==
  /\ NoRun \notin Runs /\ Planned \subseteq Runs
  /\ MaxSteps \in Nat
  /\ MaxAttempts \in Nat
  /\ TornAppends \in BOOLEAN

VARIABLES
  meta,      \* runs/<id>/meta.json
  timeline,  \* runs/<id>/events.jsonl
  up,        \* the process is alive
  active,    \* Runner.active
  queue,     \* Runner.queue: the Runs chained and not yet executing
  exec,      \* the Run execute() is working on
  phase,     \* where its module.run stands
  steps,     \* how much of its finite program is left
  io,        \* the disk writes the running turn has still to perform
  ready      \* waitingReason() is null

volatile == <<active, queue, exec, phase, steps>>
vars == <<meta, timeline, up, active, queue, exec, phase, steps, io, ready>>

-----------------------------------------------------------------------------
(* meta.json and events.jsonl                                              *)

Statuses == {"pending", "running", "blocked", "failed", "done", "skipped"}

\* A wait is null, indefinite ("none"), or at a time still ahead or past.
Waits == {"null", "none", "at", "due"}

Meta == [status : Statuses \cup {"absent"}, wait : Waits,
         failedStage : BOOLEAN, attempts : 0..MaxAttempts]

NoMeta == [status |-> "absent", wait |-> "null", failedStage |-> FALSE, attempts |-> 0]

\* A timeline is kept as the status its last status event announces, whether
\* its last line is torn, and whether some other line is damaged.
Timeline == [says : Statuses \cup {"absent"}, torn : BOOLEAN, damaged : BOOLEAN]

\* What a damaged timeline says is never read again.
Damaged == [says |-> "absent", torn |-> FALSE, damaged |-> TRUE]

\* appendFileSync adds a line to whatever the file ends with: behind a torn
\* line the two become one unreadable line.
AppendLine(tl, says) ==
  IF tl.torn \/ tl.damaged THEN Damaged
  ELSE IF says = "same" THEN tl
  ELSE [tl EXCEPT !.says = says]

\* readEvents refuses a damaged line that is not the last.
Readable(tl) == ~tl.damaged

MetaWrite(r, m) == [kind |-> "meta", run |-> r, to |-> m]
EventAppend(r, says) == [kind |-> "event", run |-> r, says |-> says]

DiskOp == [kind : {"meta"}, run : Runs, to : Meta] \cup
          [kind : {"event"}, run : Runs, says : Statuses \cup {"same"}]

\* What each transition of RunHandleImpl does to the record; resumed,
\* recovered and reopen do the same under different events.
ToPending(m) == [m EXCEPT !.status = "pending", !.wait = "null", !.failedStage = FALSE]
ToRunning(m) == [m EXCEPT !.status = "running"]
ToFailed(m) == [m EXCEPT !.status = "failed", !.wait = "null", !.failedStage = TRUE]
ToBlocked(m, w) == [m EXCEPT !.status = "blocked", !.wait = w]
ToDone(m) == [m EXCEPT !.status = "done", !.wait = "null", !.failedStage = FALSE]
ToSkipped(m) == [m EXCEPT !.status = "skipped", !.wait = "null"]
OneMoreAttempt(m) == [m EXCEPT !.attempts = @ + 1]
NoAttempts(m) == [m EXCEPT !.attempts = 0]

\* Mutant of Reopened: a retry leaves no trace in the timeline.
ReopenedSilently(r) == <<MetaWrite(r, ToPending(meta[r]))>>

\* A transition commits the record first and then appends its events.
Created(r) == <<MetaWrite(r, ToPending(NoMeta)), EventAppend(r, "pending")>>
Started(r) == <<MetaWrite(r, ToRunning(meta[r])), EventAppend(r, "running")>>
Failed(r) ==
  <<MetaWrite(r, ToFailed(meta[r])), EventAppend(r, "same"), EventAppend(r, "failed")>>
Blocked(r, w) == <<MetaWrite(r, ToBlocked(meta[r], w)), EventAppend(r, "blocked")>>
Reopened(r) == <<MetaWrite(r, ToPending(meta[r])), EventAppend(r, "pending")>>
ReopenedFromScratch(r) ==
  <<MetaWrite(r, NoAttempts(meta[r])),
    MetaWrite(r, ToPending(NoAttempts(meta[r]))), EventAppend(r, "pending")>>
Done(r) == <<MetaWrite(r, ToDone(meta[r])), EventAppend(r, "done")>>
Skipped(r) ==
  <<MetaWrite(r, ToSkipped(meta[r])), EventAppend(r, "same"), EventAppend(r, "skipped")>>
AttemptStarted(r) == <<MetaWrite(r, OneMoreAttempt(meta[r]))>>

-----------------------------------------------------------------------------
(* Owner and host requests                                                 *)

\* A turn begins in a live process whose previous turn has finished.
Turn == up /\ io = <<>>

\* Mutant of Enqueue: no active guard.
EnqueueAlways(r) ==
  /\ active' = active \cup {r}
  /\ queue' = Append(queue, r)

\* Work for a Run that is already active is not chained a second time.
Enqueue(r) ==
  IF r \in active THEN UNCHANGED <<active, queue>>
  ELSE /\ active' = active \cup {r}
       /\ queue' = Append(queue, r)

StartRun(r) ==
  /\ Turn /\ ready
  /\ meta[r].status = "absent"
  /\ io' = Created(r)
  /\ Enqueue(r)
  /\ UNCHANGED <<meta, timeline, up, exec, phase, steps, ready>>

\* The Module's plan may ask for the attempts to be counted afresh.
RetryRun(r) ==
  /\ Turn /\ ready
  /\ meta[r].status = "failed" /\ meta[r].failedStage
  /\ io' \in {Reopened(r), ReopenedFromScratch(r)}
  /\ Enqueue(r)
  /\ UNCHANGED <<meta, timeline, up, exec, phase, steps, ready>>

\* A refused retry (not failed, or declined by the Module) leaves an event.
RefuseRetry(r) ==
  /\ Turn /\ ready
  /\ meta[r].status # "absent"
  /\ io' = <<EventAppend(r, "same")>>
  /\ UNCHANGED <<meta, timeline, up, volatile, ready>>

\* Re-entering a finished Run does not ask for the setup prerequisite.
ReenterRun(r) ==
  /\ Turn
  /\ meta[r].status \in {"done", "skipped"}
  /\ io' = Reopened(r)
  /\ Enqueue(r)
  /\ UNCHANGED <<meta, timeline, up, exec, phase, steps, ready>>

ResumeRun(r) ==
  /\ Turn /\ ready
  /\ meta[r].status = "blocked" /\ meta[r].wait # "null"
  /\ io' = Reopened(r)
  /\ Enqueue(r)
  /\ UNCHANGED <<meta, timeline, up, exec, phase, steps, ready>>

\* Mutant of Recoverable: pending work is passed over.
RecoverableNotPending(r) ==
  \/ meta[r].status = "blocked" /\ meta[r].wait = "due"
  \/ meta[r].status = "running" /\ Readable(timeline[r])

\* Which Runs the recovery sweep returns to the queue: due clock waits, and
\* pending or running work whose timeline can be read.
Recoverable(r) ==
  \/ meta[r].status = "blocked" /\ meta[r].wait = "due"
  \/ meta[r].status \in {"pending", "running"} /\ Readable(timeline[r])

\* Mutant of RecoverRun: the sweep does not skip the Runs being worked on.
RecoverRunActive(r) ==
  /\ Turn /\ ready
  /\ Recoverable(r)
  /\ io' = Reopened(r)
  /\ Enqueue(r)
  /\ UNCHANGED <<meta, timeline, up, exec, phase, steps, ready>>

\* One Run of the recovery sweep.  The sweep passes over a Run the Module has no
\* plan for (planRecovery or planResume returns null): then this step is not taken,
\* which only a Run in Planned is owed.
RecoverRun(r) ==
  /\ Turn /\ ready
  /\ r \notin active
  /\ Recoverable(r)
  /\ io' = Reopened(r)
  /\ Enqueue(r)
  /\ UNCHANGED <<meta, timeline, up, exec, phase, steps, ready>>

-----------------------------------------------------------------------------
(* The promise chain and module.run                                        *)

\* execute() takes the next chained Run; a missing prerequisite drops it.
Execute ==
  /\ Turn
  /\ exec = NoRun /\ queue # <<>>
  /\ queue' = Tail(queue)
  /\ IF ready
     THEN exec' = Head(queue) /\ phase' = "between" /\ steps' = MaxSteps /\ UNCHANGED active
     ELSE active' = active \ {Head(queue)} /\ UNCHANGED <<exec, phase, steps>>
  /\ UNCHANGED <<meta, timeline, up, io, ready>>

InModule(p) == Turn /\ exec # NoRun /\ phase = p

\* ctx.stage: the Stage is opened and the Run is running.
EnterStage ==
  /\ InModule("between") /\ steps > 0
  /\ io' = Started(exec)
  /\ phase' = "stage" /\ steps' = steps - 1
  /\ UNCHANGED <<meta, timeline, up, active, queue, exec, ready>>

\* ctx.event
ModuleEvent ==
  /\ InModule("stage") /\ steps > 0
  /\ io' = <<EventAppend(exec, "same")>>
  /\ steps' = steps - 1
  /\ UNCHANGED <<meta, timeline, up, active, queue, exec, phase, ready>>

\* ctx.attempt
Attempt ==
  /\ InModule("stage") /\ steps > 0
  /\ meta[exec].attempts < MaxAttempts
  /\ io' = AttemptStarted(exec)
  /\ steps' = steps - 1
  /\ UNCHANGED <<meta, timeline, up, active, queue, exec, phase, ready>>

LeaveStage ==
  /\ InModule("stage")
  /\ phase' = "between"
  /\ UNCHANGED <<meta, timeline, up, active, queue, exec, steps, io, ready>>

\* The Stage throws: the failure is recorded and the error unwinds module.run.
FailStage ==
  /\ InModule("stage")
  /\ io' = Failed(exec)
  /\ phase' = "unwind" /\ steps' = 0
  /\ UNCHANGED <<meta, timeline, up, active, queue, exec, ready>>

\* ctx.wait: a durable wait, then RunBlocked unwinds module.run.
WaitInStage ==
  /\ InModule("stage")
  /\ \E w \in {"none", "at"} : io' = Blocked(exec, w)
  /\ phase' = "unwind" /\ steps' = 0
  /\ UNCHANGED <<meta, timeline, up, active, queue, exec, ready>>

Release ==
  /\ active' = active \ {exec}
  /\ exec' = NoRun /\ phase' = "idle" /\ steps' = 0
  /\ UNCHANGED queue

\* module.run returned: the outcome is recorded and the Run is released.
FinishRun ==
  /\ InModule("between")
  /\ io' \in {Done(exec), Skipped(exec)}
  /\ Release
  /\ UNCHANGED <<meta, timeline, up, ready>>

\* module.run threw outside a Stage: nothing is recorded.
StopOutsideStage ==
  /\ InModule("between")
  /\ Release
  /\ UNCHANGED <<meta, timeline, up, io, ready>>

\* The error of a failed or blocked Stage reaches execute()'s finally.
Unwind ==
  /\ InModule("unwind")
  /\ Release
  /\ UNCHANGED <<meta, timeline, up, io, ready>>

-----------------------------------------------------------------------------
(* Disk, process and environment                                           *)

DiskWrite ==
  /\ up /\ io # <<>>
  /\ LET op == Head(io) IN
       IF op.kind = "meta"
       THEN /\ meta' = [meta EXCEPT ![op.run] = op.to]
            /\ UNCHANGED timeline
       ELSE /\ timeline' = [timeline EXCEPT ![op.run] = AppendLine(@, op.says)]
            /\ UNCHANGED meta
  /\ io' = Tail(io)
  /\ UNCHANGED <<up, volatile, ready>>

\* The file's last line is cut short by a crash during its append; behind a
\* line that is already torn the cut one only lengthens it.
TearLine(tl) == IF tl.damaged THEN tl ELSE [tl EXCEPT !.torn = TRUE]

Crash ==
  /\ up
  /\ up' = FALSE
  /\ io' = <<>> /\ active' = {} /\ queue' = <<>>
  /\ exec' = NoRun /\ phase' = "idle" /\ steps' = 0
  /\ \/ UNCHANGED timeline
     \/ /\ TornAppends /\ io # <<>> /\ Head(io).kind = "event"
        /\ timeline' = [timeline EXCEPT ![Head(io).run] = TearLine(@)]
  /\ UNCHANGED <<meta, ready>>

Restart ==
  /\ ~up
  /\ up' = TRUE
  /\ UNCHANGED <<meta, timeline, volatile, io, ready>>

\* Time reaches a clock wait.
ClockTick(r) ==
  /\ io = <<>>
  /\ meta[r].wait = "at"
  /\ meta' = [meta EXCEPT ![r].wait = "due"]
  /\ UNCHANGED <<timeline, up, volatile, io, ready>>

\* The owner completes, or undoes, the setup the Module waits for.
SetupChanges ==
  /\ io = <<>>
  /\ ready' = ~ready
  /\ UNCHANGED <<meta, timeline, up, volatile, io>>

-----------------------------------------------------------------------------
Init ==
  /\ meta = [r \in Runs |-> NoMeta]
  /\ timeline = [r \in Runs |-> [says |-> "absent", torn |-> FALSE, damaged |-> FALSE]]
  /\ up = TRUE
  /\ active = {} /\ queue = <<>>
  /\ exec = NoRun /\ phase = "idle" /\ steps = 0
  /\ io = <<>>
  /\ ready \in BOOLEAN

ModuleStep ==
  \/ EnterStage \/ ModuleEvent \/ Attempt \/ LeaveStage \/ FailStage \/ WaitInStage
  \/ FinishRun \/ StopOutsideStage \/ Unwind

Request(r) ==
  \/ StartRun(r) \/ RetryRun(r) \/ RefuseRetry(r) \/ ReenterRun(r) \/ ResumeRun(r)

Next ==
  \/ \E r \in Runs : Request(r) \/ RecoverRun(r) \/ ClockTick(r)
  \/ Execute
  \/ ModuleStep
  \/ DiskWrite
  \/ Crash
  \/ Restart
  \/ SetupChanges

Spec == Init /\ [][Next]_vars

\* The event loop gives every callback that stays ready, or keeps becoming
\* ready, a turn; a Stage ends; the sweep returns what the Module has a plan for;
\* the owner does not have to do anything.
Fairness ==
  /\ WF_vars(DiskWrite)
  /\ SF_vars(Execute)
  /\ SF_vars(ModuleStep)
  /\ \A r \in Planned : SF_vars(RecoverRun(r))

FairSpec == Spec /\ Fairness

-----------------------------------------------------------------------------
(* Properties                                                              *)

\* Every variable holds a value of its type.
TypeOK ==
  /\ meta \in [Runs -> Meta]
  /\ timeline \in [Runs -> Timeline]
  /\ up \in BOOLEAN
  /\ active \subseteq Runs
  /\ queue \in Seq(Runs)
  /\ exec \in Runs \cup {NoRun}
  /\ phase \in {"idle", "between", "stage", "unwind"}
  /\ steps \in 0..MaxSteps
  /\ io \in Seq(DiskOp)
  /\ ready \in BOOLEAN

\* Runner.active is exactly the Runs chained or executing, each of them once:
\* no Run is ever executed twice at the same time or chained twice, whatever
\* retries, resumes and recovery sweeps arrive while it unwinds.
ActiveExact ==
  /\ active = {queue[i] : i \in DOMAIN queue} \cup ({exec} \ {NoRun})
  /\ \A i, j \in DOMAIN queue : i # j => queue[i] # queue[j]
  /\ \A i \in DOMAIN queue : queue[i] # exec

\* Between turns the timeline of every Run this process works on announces
\* the status its record holds, unless an earlier crash damaged the timeline:
\* the promise of RunHandleImpl.transition, across crashes that cut a
\* transition after its record and before its events.
LiveTimelineAgrees ==
  io = <<>> => \A r \in active : timeline[r].says = meta[r].status \/ ~Readable(timeline[r])

\* A wait stands exactly while the Run is blocked and a failed Stage exactly
\* while it is failed, so resume and retry are never offered to, nor withheld
\* from, the wrong Run.
Coherent(m) == /\ m.wait # "null" <=> m.status = "blocked"
               /\ m.failedStage <=> m.status = "failed"

MetaCoherent == \A r \in Runs : Coherent(meta[r])

\* Every status change is one the lifecycle allows: a finished, failed or
\* blocked Run only ever returns to pending, and only a running one stops.
Lifecycle == INSTANCE RunLifecycle WITH status <- [r \in Runs |-> meta[r].status]
LifecycleHolds == Lifecycle!Spec

\* Once the process stays up and set up, a pending Run the Module plans for and
\* whose timeline can be read is eventually handed to its Module: no retry is lost because it
\* arrived while the failed execution was still unwinding, and no queue entry
\* because the prerequisite was missing when its turn came.
PendingIsExecuted ==
  <>[](up /\ ready) =>
    \A r \in Planned : meta[r].status = "pending" ~>
                         (exec = r \/ meta[r].status # "pending" \/ ~Readable(timeline[r]))
=============================================================================
