--------------------------- MODULE ResearchQueue ---------------------------
(***************************************************************************)
(* The queue of automatic Person research (person-profile/research-queue.ts *)
(* and the execution it drives, research.ts): one job per Profile, the      *)
(* operations in flight, and the file the jobs are saved in.                *)
(*                                                                         *)
(* Every method runs to completion and saves at its end; an operation in    *)
(* flight is the one await.  Whatever happens to its Profile, its job or    *)
(* the queue meanwhile is met when it settles.                              *)
(***************************************************************************)
EXTENDS Naturals, FiniteSets

CONSTANTS
  Profiles,
  Concurrency,   \* settings.concurrency
  CallLimit,     \* settings.profileCalls
  TimeLimit,     \* settings.profileMilliseconds, in slices
  MaxTraversal,  \* bound on the checkpoints of one operation
  MaxChanges,    \* bound on edits of Profiles and of their evidence
  MaxCommands,   \* bound on what the owner asks of the queue
  MaxFaults      \* bound on crashes, stops and lost readiness

ASSUME ResearchAssumption ==
  /\ IsFiniteSet(Profiles)
  /\ Concurrency \in Nat \ {0} /\ CallLimit \in Nat \ {0} /\ TimeLimit \in Nat \ {0}
  /\ MaxTraversal \in Nat /\ MaxChanges \in Nat /\ MaxCommands \in Nat /\ MaxFaults \in Nat

VARIABLES
  profile,   \* the Profiles: whether active, their revision and their evidence's
  jobs,      \* state.jobs of the running process
  disk,      \* the jobs in person-research.json
  history,   \* Profiles with entries in the research history
  loaded,    \* Profiles whose job the file held when it was read
  removed,   \* Profiles removed by this process
  flight,    \* the operations in flight
  ready,     \* provider, Workspace and settings allow research
  timer,     \* the dispatch timer runs
  stopped,   \* Profiles under an owner's stop
  changes, commands, faults

vars == <<profile, jobs, disk, history, loaded, removed, flight, ready, timer,
          stopped, changes, commands, faults>>
world == <<profile, changes>>

States == {"queued", "researching", "current", "incomplete", "interrupted", "unavailable"}
Conclusions == {"none", "completed", "bounded", "interrupted"}
Unknown == MaxChanges + 1     \* evidenceRevision of a job that has none yet

Profile == [status : {"active", "archived", "deleted"},
            revision : 0..MaxChanges, evidence : 0..MaxChanges]

\* checkpoint: how far the retained traversal went, 0 for none; due: nextAt has
\* come; conclusion: that of job.operation; operation: currentOperationId is set.
Job == [state : States, checkpoint : 0..MaxTraversal, at : 0..MaxChanges,
        operation : BOOLEAN, calls : 0..CallLimit, time : 0..TimeLimit, due : BOOLEAN,
        conclusion : Conclusions, evidence : 0..(MaxChanges + 1)]
NoJob == [state |-> "none"]
NewJob == [state |-> "queued", checkpoint |-> 0, at |-> 0, operation |-> FALSE, calls |-> 0,
           time |-> 0, due |-> TRUE, conclusion |-> "none", evidence |-> Unknown]

\* What an operation was dispatched with, and what became of it since: the
\* queue's generation moved on, its job was removed, the owner cancelled it.
Flight == [profile : Profile, calls : 0..CallLimit, made : 0..CallLimit, time : 0..TimeLimit,
           checkpoint : 0..MaxTraversal, superseded : BOOLEAN, detached : BOOLEAN,
           cancelled : BOOLEAN]
NoFlight == [made |-> CallLimit + 1]

Held(js, p) == js[p] # NoJob
Flying(p) == flight[p] # NoFlight
Active(p) == profile[p].status = "active"
Queued(p) == Held(jobs, p) /\ jobs[p].state = "queued"
Least(a, b) == IF a < b THEN a ELSE b
Slices == 1..TimeLimit     \* the time an operation, or its absence, may have taken

Command == commands < MaxCommands /\ commands' = commands + 1
Fault == faults < MaxFaults /\ faults' = faults + 1

-----------------------------------------------------------------------------
(* save: the jobs and the history, merged over what the file holds         *)

Saved(p) ==
  IF Held(disk, p) /\ p \notin removed' THEN (IF Held(jobs', p) THEN jobs'[p] ELSE disk[p])
  ELSE IF p \notin loaded THEN jobs'[p]
  ELSE NoJob

\* Mutant of KeptHistory: entries of a removed Profile are merged too.
KeptHistoryOfAll(h) == h

\* Entries of removed Profiles and of Profiles without a job are dropped.
KeptHistory(h) == {p \in h \ removed' : Held(disk', p)}

\* Replace the jobs, the removals and the history, and save.
Save(js, gone, h) ==
  /\ jobs' = js
  /\ removed' = gone
  /\ disk' = [p \in Profiles |-> Saved(p)]
  /\ history' = KeptHistory(h)
  /\ UNCHANGED loaded

SaveJob(p, job) == Save([jobs EXCEPT ![p] = job], removed, history)

-----------------------------------------------------------------------------
(* enqueue                                                                 *)

\* An explicit request renews a queued continuation that has spent something.
Renews(job, reason) ==
  reason = "explicit" /\ job.state = "queued" /\ (job.calls > 0 \/ job.time > 0)

\* A checkpoint goes with new evidence or another revision of the Profile.
Rechecked(job, p, reason) ==
  IF reason = "evidence" \/ job.at # profile[p].revision
  THEN [job EXCEPT !.checkpoint = 0] ELSE job

\* "aged" stands for a meeting's or a view's request on a record old enough.
Urgent(reason) == reason \in {"explicit", "evidence", "aged"}

\* Mutant of Requeued: the next date is left where it was.
RequeuedLater(job, reason) ==
  [job EXCEPT !.state = "queued", !.checkpoint = 0, !.operation = FALSE, !.calls = 0, !.time = 0]

Requeued(job, reason) ==
  LET resumes == Renews(job, reason) \/ job.conclusion \in {"bounded", "interrupted"}
      kept == IF resumes THEN job.checkpoint ELSE 0
      renewed == kept = 0 \/ reason = "explicit"
  IN [job EXCEPT !.state = "queued", !.due = TRUE, !.checkpoint = kept,
                 !.operation = kept # 0 /\ job.operation,
                 !.calls = IF renewed THEN 0 ELSE job.calls,
                 !.time = IF renewed THEN 0 ELSE job.time]

Accepted(job, reason) ==
  /\ job.state = "queued" => Renews(job, reason)
  /\ job.state # "researching"
  /\ Urgent(reason) \/ job.due

\* The job of p after enqueue(p, reason): coalesced, deferred or queued again.
Enqueued(job, p, reason) ==
  IF ~Active(p) THEN job
  ELSE IF job = NoJob THEN NewJob
  ELSE LET old == Rechecked(job, p, reason) IN
       IF Accepted(old, reason) THEN Requeued(old, reason) ELSE old

\* The owner asks for research, or it is asked for when a Profile is created.
Ask(p) ==
  /\ Command
  /\ ready /\ Active(p)
  /\ SaveJob(p, Enqueued(jobs[p], p, "explicit"))
  /\ stopped' = stopped \ {p}
  /\ UNCHANGED <<world, flight, ready, timer, faults>>

\* A look at the dossier asks too; after two days the request is urgent.
View(p, reason) ==
  /\ Command
  /\ ready /\ Active(p)
  /\ SaveJob(p, Enqueued(jobs[p], p, reason))
  /\ stopped' = IF reason = "aged" THEN stopped \ {p} ELSE stopped
  /\ UNCHANGED <<world, flight, ready, timer, faults>>

-----------------------------------------------------------------------------
(* tick: backfill, evidence, upcoming meetings, then dispatch              *)

NewEvidence(job, p) ==
  Active(p) /\ job # NoJob /\ job.evidence \notin {Unknown, profile[p].evidence}

\* The job of p once it was enqueued for backfill, if there is any for its new
\* evidence, and if it has one for its upcoming meeting.
RefreshedJob(p, meeting) ==
  LET backfilled == Enqueued(jobs[p], p, "backfill")
      renewed == IF NewEvidence(backfilled, p) THEN Enqueued(backfilled, p, "evidence")
                 ELSE backfilled
      noted == IF Active(p) THEN [renewed EXCEPT !.evidence = profile[p].evidence] ELSE renewed
  IN IF p \in meeting THEN Enqueued(noted, p, "aged") ELSE noted

Refreshed(meeting) == [p \in Profiles |-> RefreshedJob(p, meeting)]

Eligible(js) == {p \in Profiles : Held(js, p) /\ ~Flying(p) /\ js[p].state = "queued" /\ js[p].due}
Slots == Concurrency - Cardinality({p \in Profiles : Flying(p)})

\* Any choice of the free slots' number: which jobs waited longest, with three
\* hours' preference for a meeting, is a matter of times not modelled.
Choices(js) == {S \in SUBSET Eligible(js) : Cardinality(S) = Least(Slots, Cardinality(Eligible(js)))}

Spent(job) == job.calls >= CallLimit \/ job.time >= TimeLimit

\* The job of p as run leaves it before its await.
Dispatched(js, p) ==
  IF ~Active(p) THEN NoJob
  ELSE IF Spent(js[p]) THEN [js[p] EXCEPT !.state = "incomplete", !.due = FALSE]
  ELSE [js[p] EXCEPT !.state = "researching", !.operation = TRUE]

Launched(p) ==
  [profile |-> profile[p], calls |-> jobs'[p].calls, made |-> 0, time |-> jobs'[p].time,
   checkpoint |-> jobs'[p].checkpoint, superseded |-> FALSE, detached |-> FALSE, cancelled |-> FALSE]

\* The timer's ticks do not overlap, and a tick lasts as long as its operations.
Ticking == ready /\ timer /\ \A p \in Profiles : ~Flying(p)

Tick(meeting, S) ==
  /\ Ticking
  /\ LET js == Refreshed(meeting)
         gone == {p \in S : ~Active(p)} IN
       /\ Save([p \in Profiles |-> IF p \in S THEN Dispatched(js, p) ELSE js[p]],
               removed \cup gone, history \ gone)
       /\ flight' = [p \in Profiles |-> IF p \in S /\ jobs'[p].state = "researching"
                                        THEN Launched(p) ELSE NoFlight]
       /\ stopped' = stopped \ (meeting \cup {p \in Profiles : NewEvidence(jobs[p], p)})
  /\ UNCHANGED <<world, ready, timer, commands, faults>>

-----------------------------------------------------------------------------
(* An operation in flight                                                  *)

\* contextStatus: an interruption is seen before a change.
Interrupted(p) == ~ready \/ flight[p].superseded \/ flight[p].detached
Stale(p) == ~Interrupted(p) /\ profile[p] # flight[p].profile
Current(p) == Flying(p) /\ ~flight[p].cancelled /\ ~Interrupted(p) /\ ~Stale(p)

\* reserveModelCall: the slice's first count is saved, whichever call it is.
ModelCall(p) ==
  /\ Current(p)
  /\ flight[p].made < CallLimit - flight[p].calls
  /\ flight' = [flight EXCEPT ![p].made = @ + 1]
  /\ SaveJob(p, [jobs[p] EXCEPT !.calls = flight[p].calls + 1])
  /\ UNCHANGED <<world, ready, timer, stopped, commands, faults>>

\* saveCheckpoint: the traversal has gone further than the retained one.
Checkpoint(p) ==
  /\ Current(p)
  /\ jobs[p].operation /\ jobs[p].checkpoint < MaxTraversal
  /\ SaveJob(p, [jobs[p] EXCEPT !.checkpoint = @ + 1, !.at = profile[p].revision])
  /\ UNCHANGED <<world, flight, ready, timer, stopped, commands, faults>>

\* The checkpoint a result brings is the one the operation was dispatched with.
CheckpointAfter(p, conclusion) ==
  IF conclusion = "completed" THEN 0
  ELSE IF flight[p].checkpoint > 0 THEN flight[p].checkpoint
  ELSE jobs[p].checkpoint

StateAfter == [completed |-> "current", bounded |-> "incomplete", interrupted |-> "interrupted"]

\* A result cut short by a stop of the queue resumes at once, any other later.
Concluded(p, conclusion, slices) ==
  LET checkpoint == CheckpointAfter(p, conclusion) IN
  [jobs[p] EXCEPT !.state = StateAfter[conclusion], !.conclusion = conclusion,
                  !.checkpoint = checkpoint,
                  !.time = Least(TimeLimit, flight[p].time + slices),
                  !.due = flight[p].superseded /\ conclusion = "interrupted" /\ checkpoint > 0]

Discarded(job) == [job EXCEPT !.checkpoint = 0, !.conclusion = "none", !.state = "queued"]

\* Mutant of Ignored: the owner's stop is overwritten by the late result.
IgnoredUnlessRequeued(p) == ~jobs[p].operation

\* The owner stopped the operation, or asked anew and got another one.
Ignored(p) == flight[p].cancelled \/ ~jobs[p].operation

\* Mutant of Settled: a result is recorded whatever happened to the Profile.
SettledAnyway(p, conclusion, slices) ==
  IF flight[p].detached THEN jobs[p]
  ELSE IF Ignored(p)
    THEN IF jobs[p].operation /\ conclusion = "interrupted"
         THEN [jobs[p] EXCEPT !.conclusion = conclusion] ELSE jobs[p]
  ELSE Concluded(p, conclusion, slices)

\* The job after its operation returned; a removed one is nobody's job.
Settled(p, conclusion, slices) ==
  IF flight[p].detached THEN jobs[p]
  ELSE IF Ignored(p)
    THEN IF jobs[p].operation /\ conclusion = "interrupted"
         THEN [jobs[p] EXCEPT !.conclusion = conclusion] ELSE jobs[p]
  ELSE IF Stale(p) THEN Discarded(jobs[p])
  ELSE Concluded(p, conclusion, slices)

\* A removed job's result is still recorded in the history it holds.
Recorded(p, conclusion) ==
  IF flight[p].detached THEN ~flight[p].cancelled \/ conclusion = "interrupted"
  ELSE IF Ignored(p) THEN jobs[p].operation /\ conclusion = "interrupted"
  ELSE ~Stale(p)

Land(p) == flight' = [flight EXCEPT ![p] = NoFlight]

Settle(p, conclusion, slices) ==
  /\ Flying(p)
  /\ Land(p)
  /\ Save([jobs EXCEPT ![p] = Settled(p, conclusion, slices)], removed,
          IF Recorded(p, conclusion) THEN history \cup {p} ELSE history)
  /\ UNCHANGED <<world, ready, timer, stopped, commands, faults>>

\* acceptResearchFacts: the operation corrects the Profile before it returns,
\* and its own result is then stale.
SettleWithFacts(p) ==
  /\ Current(p)
  /\ changes < MaxChanges /\ changes' = changes + 1
  /\ profile' = [profile EXCEPT ![p].revision = @ + 1]
  /\ Land(p)
  /\ SaveJob(p, Discarded(jobs[p]))
  /\ UNCHANGED <<ready, timer, stopped, commands, faults>>

OperationThrows(p) ==
  /\ Flying(p)
  /\ Land(p)
  /\ SaveJob(p, IF flight[p].detached \/ flight[p].cancelled THEN jobs[p]
                ELSE [jobs[p] EXCEPT !.state = "unavailable", !.due = FALSE])
  /\ UNCHANGED <<world, ready, timer, stopped, commands, faults>>

-----------------------------------------------------------------------------
(* The owner's stop and removal                                            *)

\* cancel: of a queued job, or of an operation, which is billed to now.
Cancel(p, slices) ==
  /\ Command
  /\ Held(jobs, p) /\ jobs[p].state \in {"queued", "researching"}
  /\ LET running == jobs[p].state = "researching" IN
       /\ SaveJob(p, [jobs[p] EXCEPT !.state = "interrupted", !.due = FALSE,
                        !.time = IF running THEN Least(TimeLimit, flight[p].time + slices) ELSE @])
       /\ flight' = IF running THEN [flight EXCEPT ![p].cancelled = TRUE] ELSE flight
  /\ stopped' = stopped \cup {p}
  /\ UNCHANGED <<world, ready, timer, faults>>

Remove(p) ==
  /\ Save([jobs EXCEPT ![p] = NoJob], removed \cup {p}, history \ {p})
  /\ flight' = IF Flying(p) THEN [flight EXCEPT ![p].detached = TRUE] ELSE flight
  /\ stopped' = stopped \ {p}

\* A source is detached from the Profile, which takes its job with it.
DetachSource(p) ==
  /\ Command
  /\ profile[p].status # "deleted"
  /\ Remove(p)
  /\ UNCHANGED <<world, ready, timer, faults>>

\* Privacy deletion.
DeleteProfile(p) ==
  /\ Command
  /\ profile[p].status # "deleted"
  /\ profile' = [profile EXCEPT ![p].status = "deleted"]
  /\ Remove(p)
  /\ UNCHANGED <<ready, timer, changes, faults>>

-----------------------------------------------------------------------------
(* Profiles, time, readiness, stop and restart                             *)

queue == <<jobs, disk, history, loaded, removed, flight>>

ProfileChanges(p) ==
  /\ changes < MaxChanges /\ changes' = changes + 1
  /\ \/ Active(p) /\ profile' = [profile EXCEPT ![p].revision = @ + 1]
     \/ Active(p) /\ profile' = [profile EXCEPT ![p].evidence = @ + 1]
     \/ Active(p) /\ profile' = [profile EXCEPT ![p].status = "archived"]
     \/ profile[p].status = "archived" /\ profile' = [profile EXCEPT ![p].status = "active"]
  /\ UNCHANGED <<queue, ready, timer, stopped, commands, faults>>

\* A job's next date comes.
TimePasses(p) ==
  /\ Held(jobs, p) /\ ~jobs[p].due
  /\ jobs' = [jobs EXCEPT ![p].due = TRUE]
  /\ disk' = IF Held(disk, p) THEN [disk EXCEPT ![p].due = TRUE] ELSE disk
  /\ stopped' = stopped \ {p}
  /\ UNCHANGED <<world, history, loaded, removed, flight, ready, timer, commands, faults>>

Supersede == flight' = [p \in Profiles |-> IF Flying(p) THEN [flight[p] EXCEPT !.superseded = TRUE]
                                           ELSE NoFlight]

\* The owner pauses research, or it loses its provider.
Pause ==
  /\ Fault
  /\ ready /\ ready' = FALSE
  /\ Supersede
  /\ Save(jobs, removed, history)
  /\ UNCHANGED <<world, timer, stopped, commands>>

LoseReadiness ==
  /\ Fault
  /\ ready /\ ready' = FALSE
  /\ UNCHANGED <<world, queue, timer, stopped, commands>>

BecomeReady ==
  /\ ~ready /\ ready' = TRUE
  /\ UNCHANGED <<world, queue, timer, stopped, commands, faults>>

Stop ==
  /\ Fault
  /\ timer /\ timer' = FALSE
  /\ Supersede
  /\ UNCHANGED <<world, jobs, disk, history, loaded, removed, ready, stopped, commands>>

Start ==
  /\ ~timer /\ timer' = TRUE
  /\ UNCHANGED <<world, queue, ready, stopped, commands, faults>>

\* Generated data is cleared: the queue is stopped and drained, its file goes
\* with the Profiles, and it starts again from nothing.
ClearData ==
  /\ ~timer /\ timer' = TRUE
  /\ \A p \in Profiles : ~Flying(p)
  /\ profile' = [p \in Profiles |-> [profile[p] EXCEPT !.status = "deleted"]]
  /\ jobs' = [p \in Profiles |-> NoJob] /\ disk' = jobs'
  /\ history' = {} /\ loaded' = {} /\ removed' = {} /\ stopped' = {}
  /\ UNCHANGED <<flight, ready, changes, commands, faults>>

\* Mutant of Recovered: an interrupted operation keeps its state.
RecoveredAsIs(job, slices) == job

\* The constructor on a job of the file: an operation that was in flight is
\* queued and billed within its allowance, a shutdown's result resumes.
Recovered(job, slices) ==
  CASE job.state = "researching" ->
         [job EXCEPT !.state = "queued", !.time = Least(TimeLimit, @ + slices)]
    [] job.state = "interrupted" /\ job.checkpoint > 0 /\ job.due ->
         [job EXCEPT !.state = "queued"]
    [] OTHER -> job

\* A job the merge kept out of the file (in it at load, removed, enqueued again)
\* is gone, and with it a stop of it.
Restart(slices) ==
  /\ Fault
  /\ jobs' = [p \in Profiles |-> IF Held(disk, p) THEN Recovered(disk[p], slices) ELSE NoJob]
  /\ loaded' = {p \in Profiles : Held(disk, p)}
  /\ removed' = {}
  /\ flight' = [p \in Profiles |-> NoFlight]
  /\ timer' = TRUE
  /\ stopped' = stopped \cap loaded'
  /\ UNCHANGED <<world, disk, history, ready, commands>>

-----------------------------------------------------------------------------
Init ==
  /\ profile = [p \in Profiles |-> [status |-> "active", revision |-> 0, evidence |-> 0]]
  /\ jobs = [p \in Profiles |-> NoJob] /\ disk = jobs
  /\ history = {} /\ loaded = {} /\ removed = {}
  /\ flight = [p \in Profiles |-> NoFlight]
  /\ ready = TRUE /\ timer = TRUE
  /\ stopped = {}
  /\ changes = 0 /\ commands = 0 /\ faults = 0

Ticks == Ticking /\ \E meeting \in SUBSET Profiles : \E S \in Choices(Refreshed(meeting)) : Tick(meeting, S)
Lands(p) ==
  \/ \E c \in Conclusions \ {"none"}, slices \in Slices : Settle(p, c, slices)
  \/ SettleWithFacts(p) \/ OperationThrows(p)

Next ==
  \/ Ticks
  \/ \E p \in Profiles :
       \/ Ask(p) \/ View(p, "viewed") \/ View(p, "aged")
       \/ ModelCall(p) \/ Checkpoint(p) \/ Lands(p)
       \/ \E slices \in Slices : Cancel(p, slices)
       \/ DetachSource(p) \/ DeleteProfile(p)
       \/ ProfileChanges(p) \/ TimePasses(p)
  \/ Pause \/ LoseReadiness \/ BecomeReady
  \/ Stop \/ Start \/ ClearData
  \/ \E slices \in Slices : Restart(slices)

Spec == Init /\ [][Next]_vars

\* The timer dispatches every two seconds and operations end by their bounds.
Fairness ==
  /\ WF_vars(Ticks)
  /\ \A p \in Profiles : WF_vars(Lands(p))

FairSpec == Spec /\ Fairness

-----------------------------------------------------------------------------
(* Properties                                                              *)

\* Every variable holds a value of its type.
TypeOK ==
  /\ profile \in [Profiles -> Profile]
  /\ jobs \in [Profiles -> Job \cup {NoJob}]
  /\ disk \in [Profiles -> Job \cup {NoJob}]
  /\ history \subseteq Profiles /\ loaded \subseteq Profiles /\ removed \subseteq Profiles
  /\ flight \in [Profiles -> Flight \cup {NoFlight}]
  /\ ready \in BOOLEAN /\ timer \in BOOLEAN
  /\ stopped \subseteq Profiles
  /\ changes \in 0..MaxChanges /\ commands \in 0..MaxCommands /\ faults \in 0..MaxFaults

\* A job that says it is being researched is: it never waits for an operation
\* that ended, was cancelled, was removed or died with its process.
ResearchingIsRunning ==
  \A p \in Profiles : (Held(jobs, p) /\ jobs[p].state = "researching") =>
    Flying(p) /\ ~flight[p].detached /\ ~flight[p].cancelled

\* The owner's stop stands until its date comes, the owner asks again, or there
\* is new evidence or a meeting: no operation that settles late, no backfill and
\* no restart on a file that holds the job undoes it.
StopStands ==
  \A p \in stopped : Held(jobs, p) /\ jobs[p].state = "interrupted" /\ ~jobs[p].due

\* A deleted Profile has no job and no history, in memory or in the file,
\* whatever operation of it was still in flight.
DeletionStands ==
  \A p \in Profiles : profile[p].status = "deleted" =>
    ~Held(jobs, p) /\ ~Held(disk, p) /\ p \notin history

\* With the queue running, a completed operation is recorded only for the
\* Profile and the evidence it was dispatched with.
ResultsAreCurrent ==
  [][\A p \in Profiles :
       (/\ Flying(p) /\ ready /\ ~flight[p].superseded
        /\ flight'[p] = NoFlight
        /\ Held(jobs', p) /\ jobs'[p].state = "current")
       => profile[p] = flight[p].profile]_vars

\* As long as the queue is ready and running, no job waits for good, whatever
\* requests, stops, late results and crashes it went through.
QueuedIsServed ==
  <>[](ready /\ timer) => \A p \in Profiles : []<>~Queued(p)
=============================================================================
