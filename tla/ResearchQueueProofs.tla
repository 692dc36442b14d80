------------------------ MODULE ResearchQueueProofs ------------------------
(***************************************************************************)
(* For any set of Profiles and any number of commands, edits and faults:   *)
(* the types of ResearchQueue, and that no job waits for an operation that  *)
(* is gone, that an owner's stop stands and that a deletion stands.         *)
(***************************************************************************)
EXTENDS ResearchQueue, TLAPS

AnyJob == Job \cup {NoJob}

\* Revisions count changes, which bounds them.
CountsOk == \A p \in Profiles : profile[p].revision <= changes /\ profile[p].evidence <= changes

Researching(p) == Held(jobs, p) /\ jobs[p].state = "researching"

\* The live operations are the researching jobs' and the others are detached
\* from their job, or cancelled.
FlightOk(p) ==
  /\ Researching(p) <=> (Flying(p) /\ ~flight[p].detached /\ ~flight[p].cancelled)
  /\ Researching(p) => jobs[p].operation
  /\ (Flying(p) /\ ~flight[p].detached) => Held(jobs, p)

\* A stopped job is where the stop left it, and so is its record in the file.
StopOk(p) ==
  p \in stopped =>
    /\ Held(jobs, p) /\ jobs[p].state = "interrupted" /\ ~jobs[p].due
    /\ Held(disk, p) => disk[p].state = "interrupted" /\ ~disk[p].due

\* Nothing of a deleted Profile is left, but perhaps a detached operation.
DeletedOk(p) ==
  profile[p].status = "deleted" =>
    /\ ~Held(jobs, p) /\ ~Held(disk, p) /\ p \notin history
    /\ Flying(p) => flight[p].detached

ProfileInv(p) == FlightOk(p) /\ StopOk(p) /\ DeletedOk(p)

QueueInv == TypeOK /\ CountsOk /\ \A p \in Profiles : ProfileInv(p)

-----------------------------------------------------------------------------
(* Jobs                                                                    *)

\* The two special values are not records of their sets.
LEMMA Specials == NoJob \notin Job /\ NoFlight \notin Flight
BY ResearchAssumption DEF NoJob, Job, States, NoFlight, Flight

LEMMA NewJobType == NewJob \in Job
BY ResearchAssumption DEF NewJob, Job, States, Conclusions, Unknown

\* What enqueue may do to a job.
LEMMA EnqueuedJob ==
  ASSUME TypeOK, NEW p \in Profiles, NEW job \in AnyJob, NEW reason
  PROVE  LET j == Enqueued(job, p, reason) IN
         /\ j \in AnyJob
         /\ job # NoJob => j # NoJob
         /\ ~Active(p) => j = job
         /\ (j # NoJob /\ j.state = "researching") => (job # NoJob /\ job.state = "researching")
         /\ (job # NoJob /\ job.state = "researching")
              => (j.state = "researching" /\ j.operation = job.operation)
         /\ (j # NoJob /\ j.state = "current") => (job # NoJob /\ job.state = "current")
         /\ (job # NoJob /\ job.state = "interrupted" /\ ~job.due /\ ~Urgent(reason))
              => (j.state = "interrupted" /\ ~j.due /\ j.evidence = job.evidence)
<1>1. CASE ~Active(p)
  BY <1>1 DEF Enqueued
<1>2. CASE Active(p) /\ job = NoJob
  BY <1>2, NewJobType, Specials DEF Enqueued, AnyJob, NewJob
<1>3. CASE Active(p) /\ job # NoJob
  <2> DEFINE old == Rechecked(job, p, reason)
  <2>1. job \in Job
    BY <1>3 DEF AnyJob
  <2>2. old \in Job /\ old.state = job.state /\ old.operation = job.operation
        /\ old.due = job.due /\ old.evidence = job.evidence
    BY <2>1, ResearchAssumption DEF Rechecked, Job
  <2>3. Requeued(old, reason) \in Job /\ Requeued(old, reason).state = "queued"
    <3> HIDE DEF old
    <3>1. old.checkpoint \in 0..MaxTraversal /\ old.calls \in 0..CallLimit
          /\ old.time \in 0..TimeLimit
      BY <2>2 DEF Job
    <3> DEFINE resumes == Renews(old, reason) \/ old.conclusion \in {"bounded", "interrupted"}
               kept == IF resumes THEN old.checkpoint ELSE 0
               operation == kept # 0 /\ old.operation
               renewed == kept = 0 \/ reason = "explicit"
               calls == IF renewed THEN 0 ELSE old.calls
               time == IF renewed THEN 0 ELSE old.time
    <3>2. kept \in 0..MaxTraversal /\ calls \in 0..CallLimit /\ time \in 0..TimeLimit
      BY <3>1, ResearchAssumption
    <3>3. operation \in BOOLEAN
      OBVIOUS
    <3>4. Requeued(old, reason) =
            [old EXCEPT !.state = "queued", !.due = TRUE, !.checkpoint = kept,
                        !.operation = operation, !.calls = calls, !.time = time]
      BY DEF Requeued
    <3> HIDE DEF kept, operation, calls, time
    <3> QED
      BY <2>2, <3>2, <3>3, <3>4 DEF Job, States
  <2>4. Enqueued(job, p, reason) = IF Accepted(old, reason) THEN Requeued(old, reason) ELSE old
    BY <1>3 DEF Enqueued
  <2>5. Accepted(old, reason) => job.state # "researching" /\ (Urgent(reason) \/ job.due)
    BY <2>2 DEF Accepted
  <2> HIDE DEF old
  <2> QED
    BY <1>3, <2>1, <2>2, <2>3, <2>4, <2>5, Specials DEF AnyJob
<1> QED
  BY <1>1, <1>2, <1>3

\* What save leaves of a job in the file.
LEMMA SaveJobs ==
  ASSUME TypeOK, NEW js \in [Profiles -> AnyJob], NEW gone \in SUBSET Profiles,
         NEW h \in SUBSET Profiles, Save(js, gone, h)
  PROVE  /\ jobs' = js /\ removed' = gone /\ loaded' = loaded
         /\ disk' \in [Profiles -> AnyJob]
         /\ history' \subseteq Profiles
         /\ \A p \in Profiles :
              /\ p \in history' => Held(disk', p)
              /\ disk'[p] \in {NoJob, jobs'[p], disk[p]}
              /\ Held(jobs', p) => disk'[p] \in {NoJob, jobs'[p]}
              /\ (~Held(jobs', p) /\ (~Held(disk, p) \/ p \in gone)) => ~Held(disk', p)
BY DEF Save, Saved, KeptHistory, Held, TypeOK, AnyJob

\* What a tick's enqueues may do to a job.
LEMMA RefreshedOk ==
  ASSUME TypeOK, NEW p \in Profiles, NEW meeting
  PROVE  LET j == RefreshedJob(p, meeting) IN
         /\ j \in AnyJob
         /\ ~Active(p) => j = jobs[p]
         /\ (j # NoJob /\ j.state = "researching") => Researching(p)
         /\ (/\ Held(jobs, p) /\ jobs[p].state = "interrupted" /\ ~jobs[p].due
             /\ p \notin meeting /\ ~NewEvidence(jobs[p], p))
            => (j # NoJob /\ j.state = "interrupted" /\ ~j.due)
<1> DEFINE backfilled == Enqueued(jobs[p], p, "backfill")
           renewed == IF NewEvidence(backfilled, p) THEN Enqueued(backfilled, p, "evidence")
                      ELSE backfilled
           noted == IF Active(p) THEN [renewed EXCEPT !.evidence = profile[p].evidence] ELSE renewed
<1> DEFINE quiet == /\ Held(jobs, p) /\ jobs[p].state = "interrupted" /\ ~jobs[p].due
                    /\ p \notin meeting /\ ~NewEvidence(jobs[p], p)
<1>1. jobs[p] \in AnyJob /\ profile[p] \in Profile
  BY DEF TypeOK, AnyJob
<1>2. /\ backfilled \in AnyJob /\ (~Active(p) => backfilled = jobs[p])
      /\ (backfilled # NoJob /\ backfilled.state = "researching") => Researching(p)
      /\ quiet => /\ backfilled # NoJob /\ backfilled.state = "interrupted" /\ ~backfilled.due
                  /\ backfilled.evidence = jobs[p].evidence
      /\ Active(p) => backfilled # NoJob
  <2>1. Active(p) /\ jobs[p] = NoJob => backfilled # NoJob
    BY NewJobType, Specials DEF Enqueued
  <2>2. ~Urgent("backfill")
    BY DEF Urgent
  <2> QED
    BY <1>1, <2>1, <2>2, EnqueuedJob DEF Researching, Held
<1>3. quiet => ~NewEvidence(backfilled, p)
  BY <1>2 DEF NewEvidence, Held
<1> HIDE DEF backfilled
<1>4. /\ renewed \in AnyJob /\ (~Active(p) => renewed = jobs[p])
      /\ (renewed # NoJob /\ renewed.state = "researching") => Researching(p)
      /\ quiet => renewed # NoJob /\ renewed.state = "interrupted" /\ ~renewed.due
      /\ Active(p) => renewed # NoJob
  BY <1>2, <1>3, EnqueuedJob
<1> HIDE DEF renewed
<1>5. /\ noted \in AnyJob /\ (~Active(p) => noted = jobs[p])
      /\ (noted # NoJob /\ noted.state = "researching") => Researching(p)
      /\ quiet => noted # NoJob /\ noted.state = "interrupted" /\ ~noted.due
  <2>1. CASE ~Active(p)
    BY <1>4, <2>1
  <2>2. CASE Active(p)
    <3>1. renewed \in Job
      BY <1>4, <2>2 DEF AnyJob
    <3>2. profile[p].evidence \in 0..(MaxChanges + 1)
      BY <1>1, ResearchAssumption DEF Profile
    <3>3. noted \in Job /\ noted.state = renewed.state /\ noted.due = renewed.due
      BY <2>2, <3>1, <3>2 DEF Job
    <3> QED
      BY <1>4, <2>2, <3>1, <3>3, Specials DEF AnyJob
  <2> QED
    BY <2>1, <2>2
<1>6. RefreshedJob(p, meeting) = IF p \in meeting THEN Enqueued(noted, p, "aged") ELSE noted
  BY DEF RefreshedJob, backfilled, renewed
<1> HIDE DEF noted
<1> QED
  BY <1>5, <1>6, EnqueuedJob

\* What run makes of a queued job before its await.
LEMMA DispatchedOk ==
  ASSUME TypeOK, NEW js \in [Profiles -> AnyJob], NEW p \in Profiles,
         Held(js, p), js[p].state = "queued"
  PROVE  LET j == Dispatched(js, p) IN
         /\ j \in AnyJob
         /\ j # NoJob <=> Active(p)
         /\ j.state = "researching" => j # NoJob /\ j.operation
<1>1. js[p] \in Job
  BY DEF Held, AnyJob
<1>2. [js[p] EXCEPT !.state = "incomplete", !.due = FALSE] \in Job
  BY <1>1 DEF Job, States
<1>3. /\ [js[p] EXCEPT !.state = "researching", !.operation = TRUE] \in Job
      /\ [js[p] EXCEPT !.state = "researching", !.operation = TRUE].operation
  BY <1>1 DEF Job, States
<1>4. /\ [js[p] EXCEPT !.state = "incomplete", !.due = FALSE].state = "incomplete"
      /\ NoJob.state = "none"
  BY <1>1 DEF Job, NoJob
<1> QED
  BY <1>2, <1>3, <1>4, Specials DEF Dispatched, AnyJob

LEMMA DiscardedOk ==
  ASSUME NEW job \in Job
  PROVE  Discarded(job) \in Job /\ Discarded(job).state = "queued"
<1>1. 0 \in 0..MaxTraversal /\ "none" \in Conclusions /\ "queued" \in States
  BY ResearchAssumption DEF Conclusions, States
<1> QED
  BY <1>1 DEF Discarded, Job

\* What becomes of a job whose operation returns.
LEMMA SettledOk ==
  ASSUME QueueInv, NEW p \in Profiles, Flying(p),
         NEW c \in Conclusions \ {"none"}, NEW slices \in Slices
  PROVE  LET j == Settled(p, c, slices) IN
         /\ j \in AnyJob
         /\ j # NoJob => j.state # "researching"
         /\ j = NoJob => jobs[p] = NoJob
         /\ (flight[p].detached \/ flight[p].cancelled) =>
              /\ jobs[p] = NoJob => j = NoJob
              /\ j.state = jobs[p].state /\ j.due = jobs[p].due
<1>1. /\ flight[p] \in Flight /\ jobs[p] \in AnyJob
  BY DEF QueueInv, TypeOK, AnyJob, Flying
<1>2. FlightOk(p)
  BY DEF QueueInv, ProfileInv
<1>3. CASE flight[p].detached
  BY <1>1, <1>2, <1>3 DEF Settled, FlightOk, Researching, Held
<1>4. CASE ~flight[p].detached
  <2>1. jobs[p] \in Job
    BY <1>1, <1>2, <1>4 DEF FlightOk, Held, AnyJob
  <2>2. CASE Ignored(p)
    <3>1. jobs[p].state # "researching"
      BY <1>2, <2>1, <2>2, Specials DEF Ignored, FlightOk, Researching, Held
    <3>2. [jobs[p] EXCEPT !.conclusion = c] \in Job
          /\ [jobs[p] EXCEPT !.conclusion = c].state = jobs[p].state
          /\ [jobs[p] EXCEPT !.conclusion = c].due = jobs[p].due
      BY <2>1 DEF Job
    <3> QED
      BY <1>4, <2>1, <2>2, <3>1, <3>2, Specials DEF Settled, AnyJob
  <2>3. CASE ~Ignored(p)
    <3>1. Discarded(jobs[p]) \in Job /\ Discarded(jobs[p]).state = "queued"
      BY <2>1, DiscardedOk
    <3>2. Concluded(p, c, slices) \in Job /\ Concluded(p, c, slices).state # "researching"
      <4> DEFINE k == CheckpointAfter(p, c)
                 t == Least(TimeLimit, flight[p].time + slices)
                 d == flight[p].superseded /\ c = "interrupted" /\ k > 0
      <4>1. k \in 0..MaxTraversal
        BY <1>1, <2>1, ResearchAssumption DEF CheckpointAfter, Flight, Job
      <4>2. t \in 0..TimeLimit
        BY <1>1, ResearchAssumption DEF Least, Flight, Slices
      <4>3. d \in BOOLEAN
        OBVIOUS
      <4>4. StateAfter[c] \in States \ {"researching"} /\ c \in Conclusions
        BY DEF StateAfter, Conclusions, States
      <4>5. Concluded(p, c, slices) =
              [jobs[p] EXCEPT !.state = StateAfter[c], !.conclusion = c, !.checkpoint = k,
                              !.time = t, !.due = d]
        BY DEF Concluded
      <4> HIDE DEF k, t, d
      <4> QED
        BY <2>1, <4>1, <4>2, <4>3, <4>4, <4>5 DEF Job
    <3> QED
      BY <1>4, <2>1, <2>3, <3>1, <3>2, Specials DEF Settled, AnyJob, Ignored
  <2> QED
    BY <2>2, <2>3
<1> QED
  BY <1>3, <1>4

\* What the constructor makes of a job of the file.
LEMMA RecoveredOk ==
  ASSUME NEW job \in Job, NEW slices \in Slices
  PROVE  LET j == Recovered(job, slices) IN
         /\ j \in Job /\ j.state # "researching"
         /\ (job.state = "interrupted" /\ ~job.due) => j = job
<1>1. [job EXCEPT !.state = "queued"] \in Job
  BY DEF Job, States
<1>2. Least(TimeLimit, job.time + slices) \in 0..TimeLimit
  BY ResearchAssumption DEF Least, Job, Slices
<1>3. /\ [job EXCEPT !.state = "queued", !.time = Least(TimeLimit, @ + slices)] \in Job
      /\ [job EXCEPT !.state = "queued", !.time = Least(TimeLimit, @ + slices)].state = "queued"
  BY <1>2 DEF Job, States
<1>4. [job EXCEPT !.state = "queued"].state = "queued"
  BY DEF Job
<1> QED
  BY <1>1, <1>3, <1>4 DEF Recovered

-----------------------------------------------------------------------------
(* Saving                                                                  *)

FileTypes ==
  /\ jobs \in [Profiles -> AnyJob] /\ disk \in [Profiles -> AnyJob]
  /\ history \subseteq Profiles /\ loaded \subseteq Profiles /\ removed \subseteq Profiles

\* What a save, or a step that touches no job, does to the file.
FollowsAt(q) ==
  /\ q \in history' => q \in history \/ Held(disk', q)
  /\ disk'[q] \in {NoJob, jobs'[q], disk[q]}
  /\ (Held(jobs', q) /\ jobs'[q] # jobs[q]) => disk'[q] \in {NoJob, jobs'[q]}
  /\ (~Held(jobs', q) /\ ~Held(disk, q)) => ~Held(disk', q)
FileFollows == \A q \in Profiles : FollowsAt(q)

\* An operation that is in flight after a step if it was before, as detached
\* and as cancelled.
SameFlight(q) ==
  /\ flight'[q] = NoFlight <=> flight[q] = NoFlight
  /\ flight[q] # NoFlight => /\ flight'[q].detached = flight[q].detached
                             /\ flight'[q].cancelled = flight[q].cancelled

LEMMA SaveOk ==
  ASSUME TypeOK, NEW js \in [Profiles -> AnyJob], NEW gone \in SUBSET Profiles,
         NEW h \in SUBSET Profiles, Save(js, gone, h)
  PROVE  jobs' = js /\ FileTypes' /\ FileFollows
<1>1. loaded \subseteq Profiles
  BY DEF TypeOK
<1> QED
  BY <1>1, SaveJobs DEF FileTypes, FileFollows, FollowsAt, Held

LEMMA SaveOne ==
  ASSUME TypeOK, NEW p \in Profiles, NEW job \in AnyJob, SaveJob(p, job)
  PROVE  /\ jobs' = [jobs EXCEPT ![p] = job]
         /\ FileTypes' /\ FileFollows
<1>1. [jobs EXCEPT ![p] = job] \in [Profiles -> AnyJob] /\ removed \in SUBSET Profiles
      /\ history \in SUBSET Profiles
  BY DEF TypeOK, AnyJob
<1> QED
  BY <1>1, SaveOk DEF SaveJob

\* A Profile whose job, operation and status a step leaves alone stays in order.
LEMMA Untouched ==
  ASSUME NEW q \in Profiles, FollowsAt(q), ProfileInv(q),
         jobs'[q] = jobs[q], SameFlight(q), q \in stopped' => q \in stopped,
         profile'[q].status = "deleted" => profile[q].status = "deleted"
  PROVE  ProfileInv(q)'
<1>1. FlightOk(q)'
  BY DEF ProfileInv, FlightOk, Researching, Held, Flying, SameFlight
<1>2. StopOk(q)'
  BY DEF ProfileInv, StopOk, FollowsAt, Held
<1>3. DeletedOk(q)'
  BY DEF ProfileInv, DeletedOk, FollowsAt, Held, Flying, SameFlight
<1> QED
  BY <1>1, <1>2, <1>3 DEF ProfileInv

-----------------------------------------------------------------------------
(* The actions                                                             *)

\* Ask and View.
LEMMA EnqueueStep ==
  ASSUME QueueInv, NEW p \in Profiles, NEW reason, Command,
         SaveJob(p, Enqueued(jobs[p], p, reason)), Active(p),
         stopped' \subseteq stopped, p \in stopped' => ~Urgent(reason),
         UNCHANGED <<world, flight, ready, timer, faults>>
  PROVE  QueueInv'
<1> DEFINE j == Enqueued(jobs[p], p, reason)
<1>1. TypeOK /\ CountsOk /\ (\A q \in Profiles : ProfileInv(q)) /\ jobs[p] \in AnyJob
  BY DEF QueueInv, TypeOK, AnyJob
<1>2. /\ j \in AnyJob
      /\ j # NoJob
      /\ j.state = "researching" => Held(jobs, p) /\ jobs[p].state = "researching"
      /\ Researching(p) => j.state = "researching" /\ j.operation = jobs[p].operation
      /\ (Held(jobs, p) /\ jobs[p].state = "interrupted" /\ ~jobs[p].due /\ ~Urgent(reason))
            => j.state = "interrupted" /\ ~j.due
  <2>1. jobs[p] = NoJob => j # NoJob
    BY NewJobType, Specials DEF Enqueued
  <2> QED
    BY <1>1, <2>1, EnqueuedJob DEF Researching, Held
<1> HIDE DEF j
<1>3. jobs' = [jobs EXCEPT ![p] = j] /\ FileTypes' /\ FileFollows
  BY <1>1, <1>2, SaveOne DEF j
<1>4. jobs'[p] = j /\ \A q \in Profiles \ {p} : jobs'[q] = jobs[q]
  BY <1>1, <1>3 DEF TypeOK
<1>5. TypeOK'
  <2>1. commands' \in 0..MaxCommands
    BY <1>1, ResearchAssumption DEF Command, TypeOK
  <2> QED
    BY <1>1, <1>3, <2>1 DEF TypeOK, FileTypes, AnyJob, world
<1>6. CountsOk'
  BY <1>1 DEF CountsOk, world
<1>7. ASSUME NEW q \in Profiles PROVE ProfileInv(q)'
  <2>1. CASE q # p
    BY <1>1, <1>3, <1>4, <2>1, Untouched DEF world, FileFollows, SameFlight
  <2>2. CASE q = p
    <3>1. FlightOk(p)'
      BY <1>1, <1>2, <1>4 DEF ProfileInv, FlightOk, Researching, Held, Flying
    <3>2. StopOk(p)'
      BY <1>1, <1>2, <1>3, <1>4 DEF ProfileInv, StopOk, Held, FileFollows, FollowsAt
    <3>3. DeletedOk(p)'
      BY DEF DeletedOk, Active, world
    <3> QED
      BY <2>2, <3>1, <3>2, <3>3 DEF ProfileInv
  <2> QED
    BY <2>1, <2>2
<1> QED
  BY <1>5, <1>6, <1>7 DEF QueueInv

\* The steps of an operation in flight, and those that end it, change one job:
\* into one that is researching if and only if the operation stays live.
LEMMA FlightStep ==
  ASSUME QueueInv, NEW p \in Profiles, NEW j \in AnyJob, Flying(p),
         jobs' = [jobs EXCEPT ![p] = j], FileTypes', FileFollows,
         NEW f \in Flight \cup {NoFlight}, flight' = [flight EXCEPT ![p] = f],
         UNCHANGED <<ready, timer, stopped, commands, faults>>,
         \A q \in Profiles : profile'[q].status = profile[q].status,
         profile' \in [Profiles -> Profile], changes' \in 0..MaxChanges, CountsOk',
         (j # NoJob /\ j.state = "researching")
            <=> (f # NoFlight /\ ~f.detached /\ ~f.cancelled),
         (j # NoJob /\ j.state = "researching") => j.operation,
         f # NoFlight => f.detached = flight[p].detached,
         j = NoJob <=> jobs[p] = NoJob,
         (flight[p].detached \/ flight[p].cancelled)
            => j.state = jobs[p].state /\ j.due = jobs[p].due
  PROVE  QueueInv'
<1>1. TypeOK /\ (\A q \in Profiles : ProfileInv(q)) /\ jobs[p] \in AnyJob
  BY DEF QueueInv, TypeOK, AnyJob
<1>2. jobs'[p] = j /\ \A q \in Profiles \ {p} : jobs'[q] = jobs[q]
  BY <1>1 DEF TypeOK
<1>3. flight'[p] = f /\ \A q \in Profiles \ {p} : flight'[q] = flight[q]
  BY <1>1 DEF TypeOK
<1>4. TypeOK'
  BY <1>1 DEF TypeOK, FileTypes, AnyJob
<1>5. ASSUME NEW q \in Profiles PROVE ProfileInv(q)'
  <2>1. CASE q # p
    BY <1>1, <1>2, <1>3, <2>1, Untouched DEF FileFollows, SameFlight
  <2>2. CASE q = p
    <3>1. FlightOk(p)'
      BY <1>1, <1>2, <1>3 DEF ProfileInv, FlightOk, Researching, Held, Flying
    <3>2. StopOk(p)'
      <4>1. SUFFICES ASSUME p \in stopped PROVE StopOk(p)'
        BY DEF StopOk
      <4>2. Held(jobs, p) /\ jobs[p].state = "interrupted" /\ ~jobs[p].due
        BY <1>1, <4>1 DEF ProfileInv, StopOk
      <4>3. flight[p].detached \/ flight[p].cancelled
        BY <1>1, <4>2 DEF ProfileInv, FlightOk, Researching
      <4>4. Held(jobs', p) /\ jobs'[p].state = "interrupted" /\ ~jobs'[p].due
        BY <1>2, <4>2, <4>3 DEF Held
      <4>5. Held(disk', p) => disk'[p].state = "interrupted" /\ ~disk'[p].due
        <5>1. disk'[p] \in {NoJob, jobs'[p], disk[p]}
          BY <4>4 DEF FileFollows, FollowsAt
        <5>2. Held(disk, p) => disk[p].state = "interrupted" /\ ~disk[p].due
          BY <1>1, <4>1 DEF ProfileInv, StopOk
        <5> QED
          BY <4>4, <5>1, <5>2 DEF Held
      <4> QED
        BY <4>4, <4>5 DEF StopOk, Held
    <3>3. DeletedOk(p)'
      BY <1>1, <1>2, <1>3 DEF ProfileInv, DeletedOk, FileFollows, FollowsAt, Held, Flying
    <3> QED
      BY <2>2, <3>1, <3>2, <3>3 DEF ProfileInv
  <2> QED
    BY <2>1, <2>2
<1> QED
  BY <1>4, <1>5 DEF QueueInv

LEMMA CurrentOk ==
  ASSUME QueueInv, NEW p \in Profiles, Current(p)
  PROVE  /\ flight[p] \in Flight /\ flight[p] # NoFlight /\ jobs[p] \in Job
         /\ ~flight[p].detached /\ ~flight[p].cancelled
         /\ jobs[p].state = "researching" /\ jobs[p].operation
         /\ profile[p] \in Profile
<1>1. TypeOK /\ FlightOk(p)
  BY DEF QueueInv, ProfileInv
<1> QED
  BY <1>1, Specials DEF Current, Interrupted, TypeOK, FlightOk, Researching, Flying, Held

LEMMA ModelCallStep ==
  ASSUME QueueInv, NEW p \in Profiles, ModelCall(p)
  PROVE  QueueInv'
<1> DEFINE j == [jobs[p] EXCEPT !.calls = flight[p].calls + 1]
           f == [flight[p] EXCEPT !.made = @ + 1]
<1>1. TypeOK /\ CountsOk /\ Current(p) /\ SaveJob(p, j) /\ flight[p].made < CallLimit - flight[p].calls
  BY DEF QueueInv, ModelCall
<1>2. /\ flight[p] \in Flight /\ jobs[p] \in Job /\ flight[p] # NoFlight
      /\ ~flight[p].detached /\ ~flight[p].cancelled
      /\ jobs[p].state = "researching" /\ jobs[p].operation
  BY <1>1, CurrentOk
<1>3. flight[p].calls + 1 \in 0..CallLimit /\ flight[p].made + 1 \in 0..CallLimit
  BY <1>1, <1>2, ResearchAssumption DEF Flight
<1>4. j \in Job /\ j.state = jobs[p].state /\ j.operation = jobs[p].operation /\ j.due = jobs[p].due
  BY <1>2, <1>3 DEF Job
<1>5. f \in Flight /\ f.detached = flight[p].detached /\ f.cancelled = flight[p].cancelled
  BY <1>2, <1>3 DEF Flight
<1>6. flight' = [flight EXCEPT ![p] = f]
  BY DEF ModelCall
<1> HIDE DEF j, f
<1>7. jobs' = [jobs EXCEPT ![p] = j] /\ FileTypes' /\ FileFollows
  BY <1>1, <1>4, SaveOne DEF AnyJob
<1>8. /\ UNCHANGED <<ready, timer, stopped, commands, faults, profile, changes>>
      /\ profile' \in [Profiles -> Profile] /\ changes' \in 0..MaxChanges /\ CountsOk'
  BY <1>1 DEF ModelCall, world, TypeOK, CountsOk
<1> QED
  BY <1>2, <1>4, <1>5, <1>6, <1>7, <1>8, FlightStep, Specials DEF AnyJob, Flying

LEMMA CheckpointStep ==
  ASSUME QueueInv, NEW p \in Profiles, Checkpoint(p)
  PROVE  QueueInv'
<1> DEFINE j == [jobs[p] EXCEPT !.checkpoint = @ + 1, !.at = profile[p].revision]
<1>1. TypeOK /\ CountsOk /\ Current(p) /\ SaveJob(p, j) /\ jobs[p].checkpoint < MaxTraversal
  BY DEF QueueInv, Checkpoint
<1>2. /\ flight[p] \in Flight /\ jobs[p] \in Job /\ flight[p] # NoFlight
      /\ ~flight[p].detached /\ ~flight[p].cancelled
      /\ jobs[p].state = "researching" /\ jobs[p].operation /\ profile[p] \in Profile
  BY <1>1, CurrentOk
<1>3. jobs[p].checkpoint + 1 \in 0..MaxTraversal /\ profile[p].revision \in 0..MaxChanges
  BY <1>1, <1>2, ResearchAssumption DEF Job, Profile
<1>4. j \in Job /\ j.state = jobs[p].state /\ j.operation = jobs[p].operation /\ j.due = jobs[p].due
  BY <1>2, <1>3 DEF Job
<1>5. flight' = [flight EXCEPT ![p] = flight[p]]
  BY <1>1 DEF Checkpoint, TypeOK
<1> HIDE DEF j
<1>6. jobs' = [jobs EXCEPT ![p] = j] /\ FileTypes' /\ FileFollows
  BY <1>1, <1>4, SaveOne DEF AnyJob
<1>7. /\ UNCHANGED <<ready, timer, stopped, commands, faults, profile, changes>>
      /\ profile' \in [Profiles -> Profile] /\ changes' \in 0..MaxChanges /\ CountsOk'
  BY <1>1 DEF Checkpoint, world, TypeOK, CountsOk
<1> QED
  BY <1>2, <1>4, <1>5, <1>6, <1>7, FlightStep, Specials DEF AnyJob, Flying

LEMMA SettleStep ==
  ASSUME QueueInv, NEW p \in Profiles, NEW c \in Conclusions \ {"none"}, NEW slices \in Slices,
         Settle(p, c, slices)
  PROVE  QueueInv'
<1> DEFINE j == Settled(p, c, slices)
           h == IF Recorded(p, c) THEN history \cup {p} ELSE history
<1>1. /\ TypeOK /\ CountsOk /\ FlightOk(p) /\ Flying(p)
      /\ Save([jobs EXCEPT ![p] = j], removed, h)
  BY DEF QueueInv, ProfileInv, Settle
<1>2. /\ j \in AnyJob /\ (j # NoJob => j.state # "researching")
      /\ j = NoJob <=> jobs[p] = NoJob
      /\ (flight[p].detached \/ flight[p].cancelled) => j.state = jobs[p].state /\ j.due = jobs[p].due
  BY <1>1, SettledOk DEF FlightOk, Held
<1> HIDE DEF j
<1>3. jobs' = [jobs EXCEPT ![p] = j] /\ FileTypes' /\ FileFollows
  <2>1. /\ [jobs EXCEPT ![p] = j] \in [Profiles -> AnyJob]
        /\ removed \in SUBSET Profiles /\ h \in SUBSET Profiles
    BY <1>1, <1>2 DEF TypeOK, AnyJob
  <2> QED
    BY <1>1, <2>1, SaveOk
<1>4. flight' = [flight EXCEPT ![p] = NoFlight]
  BY DEF Settle, Land
<1>5. /\ UNCHANGED <<ready, timer, stopped, commands, faults, profile, changes>>
      /\ profile' \in [Profiles -> Profile] /\ changes' \in 0..MaxChanges /\ CountsOk'
  BY <1>1 DEF Settle, world, TypeOK, CountsOk
<1> QED
  BY <1>1, <1>2, <1>3, <1>4, <1>5, FlightStep

LEMMA FactsStep ==
  ASSUME QueueInv, NEW p \in Profiles, SettleWithFacts(p)
  PROVE  QueueInv'
<1> DEFINE j == Discarded(jobs[p])
<1>1. TypeOK /\ CountsOk /\ Current(p) /\ SaveJob(p, j)
  BY DEF QueueInv, SettleWithFacts
<1>2. /\ jobs[p] \in Job /\ flight[p] # NoFlight
      /\ ~flight[p].detached /\ ~flight[p].cancelled
  BY <1>1, CurrentOk
<1>3. j \in Job /\ j.state = "queued"
  BY <1>2, DiscardedOk
<1> HIDE DEF j
<1>4. jobs' = [jobs EXCEPT ![p] = j] /\ FileTypes' /\ FileFollows
  BY <1>1, <1>3, SaveOne DEF AnyJob
<1>5. flight' = [flight EXCEPT ![p] = NoFlight] /\ UNCHANGED <<ready, timer, stopped, commands, faults>>
  BY DEF SettleWithFacts, Land
<1>6. /\ profile' \in [Profiles -> Profile] /\ changes' \in 0..MaxChanges /\ CountsOk'
      /\ \A q \in Profiles : profile'[q].status = profile[q].status
  BY <1>1, ResearchAssumption DEF SettleWithFacts, TypeOK, CountsOk, Profile
<1>7. j \in AnyJob /\ j # NoJob /\ jobs[p] # NoJob /\ j.state # "researching" /\ Flying(p)
  BY <1>2, <1>3, Specials DEF AnyJob, Flying
<1> QED
  BY <1>2, <1>4, <1>5, <1>6, <1>7, FlightStep

LEMMA ThrowStep ==
  ASSUME QueueInv, NEW p \in Profiles, OperationThrows(p)
  PROVE  QueueInv'
<1> DEFINE failed == [jobs[p] EXCEPT !.state = "unavailable", !.due = FALSE]
           j == IF flight[p].detached \/ flight[p].cancelled THEN jobs[p] ELSE failed
<1>1. /\ TypeOK /\ CountsOk /\ FlightOk(p) /\ Flying(p) /\ SaveJob(p, j) /\ jobs[p] \in AnyJob
  BY DEF QueueInv, ProfileInv, OperationThrows, TypeOK, AnyJob
<1>2. jobs[p] \in Job => failed \in Job /\ failed.state = "unavailable"
  BY DEF Job, States
<1> HIDE DEF failed
<1>3. /\ j \in AnyJob /\ (j # NoJob => j.state # "researching") /\ (j = NoJob <=> jobs[p] = NoJob)
      /\ (flight[p].detached \/ flight[p].cancelled) => j = jobs[p]
  BY <1>1, <1>2, Specials DEF FlightOk, Researching, Held, AnyJob
<1> HIDE DEF j
<1>4. jobs' = [jobs EXCEPT ![p] = j] /\ FileTypes' /\ FileFollows
  BY <1>1, <1>3, SaveOne
<1>5. flight' = [flight EXCEPT ![p] = NoFlight]
  BY DEF OperationThrows, Land
<1>6. /\ UNCHANGED <<ready, timer, stopped, commands, faults, profile, changes>>
      /\ profile' \in [Profiles -> Profile] /\ changes' \in 0..MaxChanges /\ CountsOk'
  BY <1>1 DEF OperationThrows, world, TypeOK, CountsOk
<1> QED
  BY <1>1, <1>3, <1>4, <1>5, <1>6, FlightStep

LEMMA CancelStep ==
  ASSUME QueueInv, NEW p \in Profiles, NEW slices \in Slices, Cancel(p, slices)
  PROVE  QueueInv'
<1> DEFINE running == jobs[p].state = "researching"
           t == IF running THEN Least(TimeLimit, flight[p].time + slices) ELSE jobs[p].time
           j == [jobs[p] EXCEPT !.state = "interrupted", !.due = FALSE, !.time = t]
<1>1. /\ TypeOK /\ CountsOk /\ (\A q \in Profiles : ProfileInv(q))
      /\ Held(jobs, p) /\ jobs[p] \in Job /\ jobs[p].state \in {"queued", "researching"}
  BY DEF QueueInv, Cancel, TypeOK, Held
<1>2. running => flight[p] \in Flight /\ flight[p] # NoFlight
  BY <1>1, Specials DEF ProfileInv, FlightOk, Researching, Flying, TypeOK
<1>3. t \in 0..TimeLimit
  BY <1>1, <1>2, ResearchAssumption DEF Least, Flight, Slices, Job
<1>4. SaveJob(p, j)
  BY DEF Cancel
<1> HIDE DEF t
<1>5. j \in Job /\ j.state = "interrupted" /\ ~j.due
  BY <1>1, <1>3 DEF Job, States
<1> HIDE DEF j
<1>6. jobs' = [jobs EXCEPT ![p] = j] /\ FileTypes' /\ FileFollows
  BY <1>1, <1>4, <1>5, SaveOne DEF AnyJob
<1>7. jobs'[p] = j /\ \A q \in Profiles \ {p} : jobs'[q] = jobs[q]
  BY <1>1, <1>6 DEF TypeOK
<1>8. /\ flight' \in [Profiles -> Flight \cup {NoFlight}]
      /\ \A q \in Profiles \ {p} : flight'[q] = flight[q]
      /\ running => flight'[p].cancelled
      /\ ~running => flight'[p] = flight[p]
  <2>1. CASE ~running
    BY <1>1, <2>1 DEF Cancel, TypeOK
  <2>2. CASE running
    <3>1. [flight[p] EXCEPT !.cancelled = TRUE] \in Flight
          /\ [flight[p] EXCEPT !.cancelled = TRUE].cancelled
      BY <1>2, <2>2 DEF Flight
    <3>2. flight' = [flight EXCEPT ![p] = [flight[p] EXCEPT !.cancelled = TRUE]]
      BY <2>2 DEF Cancel
    <3> QED
      BY <1>1, <2>2, <3>1, <3>2 DEF TypeOK
  <2> QED
    BY <2>1, <2>2
<1>9. TypeOK'
  <2>1. commands' \in 0..MaxCommands
    BY <1>1, ResearchAssumption DEF Cancel, Command, TypeOK
  <2> QED
    BY <1>1, <1>6, <1>8, <2>1 DEF Cancel, TypeOK, FileTypes, AnyJob, world
<1>10. CountsOk'
  BY <1>1 DEF Cancel, CountsOk, world
<1>11. ASSUME NEW q \in Profiles PROVE ProfileInv(q)'
  <2>1. CASE q # p
    BY <1>1, <1>6, <1>7, <1>8, <2>1, Untouched DEF Cancel, world, FileFollows, SameFlight
  <2>2. CASE q = p
    <3>1. FlightOk(p)'
      BY <1>1, <1>5, <1>7, <1>8, Specials DEF ProfileInv, FlightOk, Researching, Held, Flying
    <3>2. StopOk(p)'
      <4>1. disk'[p] \in {NoJob, jobs'[p]}
        BY <1>1, <1>5, <1>6, <1>7, Specials DEF FileFollows, FollowsAt, Held
      <4> QED
        BY <1>5, <1>7, <4>1, Specials DEF StopOk, Held
    <3>3. DeletedOk(p)'
      BY <1>1 DEF ProfileInv, DeletedOk, Cancel, world
    <3> QED
      BY <2>2, <3>1, <3>2, <3>3 DEF ProfileInv
  <2> QED
    BY <2>1, <2>2
<1> QED
  BY <1>9, <1>10, <1>11 DEF QueueInv

\* DetachSource and DeleteProfile.
LEMMA RemoveStep ==
  ASSUME QueueInv, NEW p \in Profiles, Command, Remove(p),
         UNCHANGED <<ready, timer, changes, faults>>,
         profile' \in [Profiles -> Profile], CountsOk',
         \A q \in Profiles \ {p} : profile'[q] = profile[q]
  PROVE  QueueInv'
<1> DEFINE js == [jobs EXCEPT ![p] = NoJob]
<1>1. /\ TypeOK /\ \A q \in Profiles : ProfileInv(q)
      /\ js \in [Profiles -> AnyJob] /\ removed \cup {p} \in SUBSET Profiles
      /\ history \ {p} \in SUBSET Profiles
  BY DEF QueueInv, TypeOK, AnyJob
<1>2. Save(js, removed \cup {p}, history \ {p})
  BY DEF Remove
<1>3. js[p] = NoJob /\ \A q \in Profiles \ {p} : js[q] = jobs[q]
  BY <1>1 DEF TypeOK
<1> HIDE DEF js
<1>4. jobs' = js /\ FileTypes' /\ FileFollows
  BY <1>1, <1>2, SaveOk
<1>5. ~Held(jobs', p) /\ ~Held(disk', p) /\ p \notin history'
  BY <1>1, <1>2, <1>3, SaveJobs DEF Held
<1>6. /\ flight' \in [Profiles -> Flight \cup {NoFlight}]
      /\ \A q \in Profiles \ {p} : flight'[q] = flight[q]
      /\ flight'[p] # NoFlight => flight'[p].detached
  <2>1. CASE ~Flying(p)
    BY <1>1, <2>1 DEF Remove, TypeOK, Flying
  <2>2. CASE Flying(p)
    <3>1. flight[p] \in Flight
      BY <1>1, <2>2 DEF TypeOK, Flying
    <3>2. [flight[p] EXCEPT !.detached = TRUE] \in Flight
          /\ [flight[p] EXCEPT !.detached = TRUE].detached
      BY <3>1 DEF Flight
    <3>3. flight' = [flight EXCEPT ![p] = [flight[p] EXCEPT !.detached = TRUE]]
      BY <2>2 DEF Remove
    <3> QED
      BY <1>1, <3>2, <3>3 DEF TypeOK
  <2> QED
    BY <2>1, <2>2
<1>7. TypeOK'
  <2>1. commands' \in 0..MaxCommands
    BY <1>1, ResearchAssumption DEF Command, TypeOK
  <2> QED
    BY <1>1, <1>4, <1>6, <2>1 DEF Remove, TypeOK, FileTypes, AnyJob
<1>8. ASSUME NEW q \in Profiles PROVE ProfileInv(q)'
  <2>1. CASE q # p
    BY <1>1, <1>3, <1>4, <1>6, <2>1, Untouched DEF Remove, FileFollows, SameFlight
  <2>2. CASE q = p
    <3>1. FlightOk(p)' /\ DeletedOk(p)'
      BY <1>5, <1>6 DEF FlightOk, DeletedOk, Researching, Held, Flying
    <3>2. StopOk(p)'
      BY DEF Remove, StopOk
    <3> QED
      BY <2>2, <3>1, <3>2 DEF ProfileInv
  <2> QED
    BY <2>1, <2>2
<1> QED
  BY <1>7, <1>8 DEF QueueInv

LEMMA TickStep ==
  ASSUME QueueInv, NEW meeting \in SUBSET Profiles, NEW S \in Choices(Refreshed(meeting)),
         Tick(meeting, S)
  PROVE  QueueInv'
<1> DEFINE js == Refreshed(meeting)
           gone == {p \in S : ~Active(p)}
           out == [p \in Profiles |-> IF p \in S THEN Dispatched(js, p) ELSE js[p]]
<1>1. /\ TypeOK /\ CountsOk /\ (\A q \in Profiles : ProfileInv(q))
      /\ \A p \in Profiles : ~Flying(p) /\ ~Researching(p)
  BY DEF QueueInv, Tick, Ticking, ProfileInv, FlightOk
<1>2. \A p \in Profiles :
        /\ js[p] \in AnyJob /\ (~Active(p) => js[p] = jobs[p])
        /\ js[p] # NoJob => js[p].state # "researching"
        /\ (/\ Held(jobs, p) /\ jobs[p].state = "interrupted" /\ ~jobs[p].due
            /\ p \notin meeting /\ ~NewEvidence(jobs[p], p))
           => (js[p] # NoJob /\ js[p].state = "interrupted" /\ ~js[p].due)
  BY <1>1, RefreshedOk DEF Refreshed
<1>3. js \in [Profiles -> AnyJob]
  BY <1>2 DEF Refreshed
<1>4. \A p \in S : p \in Profiles /\ Held(js, p) /\ js[p].state = "queued"
  BY DEF Choices, Eligible
<1>5. /\ Save(out, removed \cup gone, history \ gone)
      /\ flight' = [p \in Profiles |-> IF p \in S /\ jobs'[p].state = "researching"
                                       THEN Launched(p) ELSE NoFlight]
      /\ stopped' = stopped \ (meeting \cup {p \in Profiles : NewEvidence(jobs[p], p)})
      /\ UNCHANGED <<profile, changes, ready, timer, commands, faults>>
  BY DEF Tick, world
<1> HIDE DEF js
<1>6. \A p \in S : /\ Dispatched(js, p) \in AnyJob
                   /\ Dispatched(js, p) # NoJob <=> Active(p)
                   /\ Dispatched(js, p).state = "researching"
                        => Dispatched(js, p) # NoJob /\ Dispatched(js, p).operation
  BY <1>1, <1>3, <1>4, DispatchedOk
<1>7. /\ out \in [Profiles -> AnyJob]
      /\ \A p \in Profiles : out[p] = IF p \in S THEN Dispatched(js, p) ELSE js[p]
  BY <1>3, <1>6
<1>8. /\ removed \cup gone \in SUBSET Profiles /\ history \ gone \in SUBSET Profiles
      /\ \A p \in S : p \in gone <=> ~Active(p)
  BY <1>1, <1>4 DEF TypeOK
<1> HIDE DEF out, gone
<1>9. jobs' = out /\ FileTypes' /\ FileFollows
  BY <1>1, <1>5, <1>7, <1>8, SaveOk
<1>10. \A p \in S : ~Active(p) => ~Held(disk', p)
  <2> SUFFICES ASSUME NEW p \in S, ~Active(p) PROVE ~Held(disk', p)
    OBVIOUS
  <2>1. ~Held(jobs', p) /\ p \in gone /\ p \in Profiles
    BY <1>4, <1>6, <1>7, <1>8, <1>9 DEF Held
  <2> QED
    BY <1>1, <1>5, <1>7, <1>8, <2>1, SaveJobs
<1>11. ASSUME NEW p \in Profiles
       PROVE  /\ flight'[p] \in Flight \cup {NoFlight}
              /\ flight'[p] # NoFlight => p \in S /\ jobs'[p].state = "researching"
              /\ (p \in S /\ jobs'[p].state = "researching")
                   => flight'[p] # NoFlight /\ ~flight'[p].detached /\ ~flight'[p].cancelled
  <2>1. CASE p \in S /\ jobs'[p].state = "researching"
    <3>1. jobs'[p] \in Job /\ profile[p] \in Profile
      BY <1>1, <1>6, <1>7, <1>9, <2>1 DEF AnyJob, TypeOK
    <3>2. Launched(p) \in Flight /\ ~Launched(p).detached /\ ~Launched(p).cancelled
      BY <3>1, ResearchAssumption DEF Launched, Flight, Job
    <3> QED
      BY <1>5, <2>1, <3>2, Specials
  <2>2. CASE ~(p \in S /\ jobs'[p].state = "researching")
    BY <1>5, <2>2
  <2> QED
    BY <2>1, <2>2
<1>12. TypeOK'
  <2>1. flight' \in [Profiles -> Flight \cup {NoFlight}]
    BY <1>5, <1>11
  <2> QED
    BY <1>1, <1>5, <1>9, <2>1 DEF TypeOK, FileTypes, AnyJob
<1>13. CountsOk'
  BY <1>1, <1>5 DEF CountsOk
<1>14. ASSUME NEW p \in Profiles PROVE ProfileInv(p)'
  <2>1. FlightOk(p)'
    BY <1>2, <1>6, <1>7, <1>9, <1>11 DEF FlightOk, Researching, Held, Flying, js
  <2>2. StopOk(p)'
    <3>1. SUFFICES ASSUME p \in stopped' PROVE StopOk(p)'
      BY DEF StopOk
    <3>2. p \in stopped /\ p \notin meeting /\ ~NewEvidence(jobs[p], p)
      BY <1>5, <3>1
    <3>3. Held(jobs, p) /\ jobs[p].state = "interrupted" /\ ~jobs[p].due
          /\ (Held(disk, p) => disk[p].state = "interrupted" /\ ~disk[p].due)
      BY <1>1, <3>2 DEF ProfileInv, StopOk
    <3>4. js[p] # NoJob /\ js[p].state = "interrupted" /\ ~js[p].due
      BY <1>2, <3>2, <3>3 DEF js
    <3>5. jobs'[p] = js[p]
      BY <1>4, <1>7, <1>9, <3>4
    <3>6. disk'[p] \in {NoJob, jobs'[p], disk[p]}
      BY <1>9, <3>4, <3>5 DEF FileFollows, FollowsAt, Held
    <3> QED
      BY <3>3, <3>4, <3>5, <3>6 DEF StopOk, Held
  <2>3. DeletedOk(p)'
    <3>1. SUFFICES ASSUME profile[p].status = "deleted" PROVE DeletedOk(p)'
      BY <1>5 DEF DeletedOk
    <3>2. ~Held(jobs, p) /\ ~Held(disk, p) /\ p \notin history /\ ~Active(p)
      BY <1>1, <3>1 DEF ProfileInv, DeletedOk, Active
    <3>3. js[p] = NoJob
      BY <1>2, <3>2 DEF Held, js
    <3>4. jobs'[p] = NoJob /\ p \notin S
      BY <1>4, <1>7, <1>9, <3>3 DEF Held
    <3> QED
      BY <1>9, <1>11, <3>2, <3>4 DEF DeletedOk, FileFollows, FollowsAt, Held, Flying
  <2> QED
    BY <2>1, <2>2, <2>3 DEF ProfileInv
<1> QED
  BY <1>12, <1>13, <1>14 DEF QueueInv

LEMMA ProfileStep ==
  ASSUME QueueInv, NEW p \in Profiles, ProfileChanges(p)
  PROVE  QueueInv'
<1>1. TypeOK /\ CountsOk /\ \A q \in Profiles : ProfileInv(q)
  BY DEF QueueInv
<1>2. /\ profile' \in [Profiles -> Profile] /\ changes' \in 0..MaxChanges /\ CountsOk'
      /\ \A q \in Profiles : profile'[q].status = "deleted" => profile[q].status = "deleted"
  BY <1>1, ResearchAssumption DEF ProfileChanges, TypeOK, CountsOk, Profile, Active
<1>3. UNCHANGED <<jobs, disk, history, loaded, removed, flight, ready, timer, stopped, commands, faults>>
  BY DEF ProfileChanges, queue
<1>4. TypeOK'
  BY <1>1, <1>2, <1>3 DEF TypeOK
<1>5. \A q \in Profiles : FollowsAt(q) /\ SameFlight(q)
  BY <1>3 DEF FollowsAt, SameFlight, Held
<1>6. \A q \in Profiles : ProfileInv(q)'
  BY <1>1, <1>2, <1>3, <1>5, Untouched
<1> QED
  BY <1>2, <1>4, <1>6 DEF QueueInv

LEMMA TimeStep ==
  ASSUME QueueInv, NEW p \in Profiles, TimePasses(p)
  PROVE  QueueInv'
<1>1. /\ TypeOK /\ CountsOk /\ (\A q \in Profiles : ProfileInv(q))
      /\ Held(jobs, p) /\ jobs[p] \in Job /\ (Held(disk, p) => disk[p] \in Job)
  BY DEF QueueInv, TimePasses, TypeOK, Held
<1> DEFINE j == [jobs[p] EXCEPT !.due = TRUE]
           d == [disk[p] EXCEPT !.due = TRUE]
<1>2. j \in Job /\ j.state = jobs[p].state /\ j.operation = jobs[p].operation
  BY <1>1 DEF Job
<1>3. Held(disk, p) => d \in Job
  BY <1>1 DEF Job
<1>4. /\ jobs' = [jobs EXCEPT ![p] = j]
      /\ disk' = IF Held(disk, p) THEN [disk EXCEPT ![p] = d] ELSE disk
      /\ stopped' = stopped \ {p}
      /\ UNCHANGED <<profile, changes, history, loaded, removed, flight, ready, timer, commands, faults>>
  BY DEF TimePasses, world
<1> HIDE DEF j, d
<1>5. TypeOK'
  BY <1>1, <1>2, <1>3, <1>4 DEF TypeOK
<1>6. CountsOk'
  BY <1>1, <1>4 DEF CountsOk
<1>7. ASSUME NEW q \in Profiles PROVE ProfileInv(q)'
  <2>1. CASE q # p
    <3>1. jobs'[q] = jobs[q] /\ disk'[q] = disk[q]
      BY <1>1, <1>4, <2>1 DEF TypeOK
    <3>2. FollowsAt(q) /\ SameFlight(q)
      BY <1>4, <3>1 DEF FollowsAt, SameFlight, Held
    <3> QED
      BY <1>1, <1>4, <3>1, <3>2, Untouched
  <2>2. CASE q = p
    <3>1. jobs'[p] = j /\ j # NoJob
      BY <1>1, <1>2, <1>4, Specials DEF TypeOK
    <3>2. FlightOk(p)'
      BY <1>1, <1>2, <1>4, <3>1 DEF ProfileInv, FlightOk, Researching, Held, Flying
    <3>3. StopOk(p)' /\ DeletedOk(p)'
      BY <1>1, <1>4 DEF ProfileInv, StopOk, DeletedOk
    <3> QED
      BY <2>2, <3>2, <3>3 DEF ProfileInv
  <2> QED
    BY <2>1, <2>2
<1> QED
  BY <1>5, <1>6, <1>7 DEF QueueInv

\* Pause, Stop, Start and the readiness that comes and goes: no job changes, and
\* at most the operations in flight are superseded.
LEMMA QuietStep ==
  ASSUME QueueInv, jobs' = jobs, FileTypes', FileFollows, Supersede \/ flight' = flight,
         UNCHANGED <<world, stopped, commands>>,
         ready' \in BOOLEAN, timer' \in BOOLEAN, faults' \in 0..MaxFaults
  PROVE  QueueInv'
<1>1. TypeOK /\ CountsOk /\ \A q \in Profiles : ProfileInv(q)
  BY DEF QueueInv
<1>2. ASSUME NEW q \in Profiles PROVE flight'[q] \in Flight \cup {NoFlight} /\ SameFlight(q)
  <2>1. CASE flight' = flight
    BY <1>1, <2>1 DEF SameFlight, TypeOK
  <2>2. CASE Supersede
    <3>1. CASE Flying(q)
      <4> DEFINE f == [flight[q] EXCEPT !.superseded = TRUE]
      <4>1. flight[q] \in Flight
        BY <1>1, <3>1 DEF TypeOK, Flying
      <4>2. f \in Flight /\ f.detached = flight[q].detached /\ f.cancelled = flight[q].cancelled
        BY <4>1 DEF Flight
      <4>3. flight'[q] = f
        BY <2>2, <3>1 DEF Supersede
      <4> QED
        BY <3>1, <4>2, <4>3, Specials DEF SameFlight, Flying
    <3>2. CASE ~Flying(q)
      BY <2>2, <3>2 DEF Supersede, SameFlight, Flying
    <3> QED
      BY <3>1, <3>2
  <2> QED
    BY <2>1, <2>2
<1>3. flight' \in [Profiles -> Flight \cup {NoFlight}]
  <2>1. flight' = [q \in Profiles |-> flight'[q]]
    BY <1>1 DEF Supersede, TypeOK
  <2> QED
    BY <1>2, <2>1
<1>4. TypeOK'
  BY <1>1, <1>3 DEF TypeOK, FileTypes, AnyJob, world
<1>5. CountsOk'
  BY <1>1 DEF CountsOk, world
<1>6. \A q \in Profiles : ProfileInv(q)'
  BY <1>1, <1>2, Untouched DEF FileFollows, world
<1> QED
  BY <1>4, <1>5, <1>6 DEF QueueInv

LEMMA ClearStep ==
  ASSUME QueueInv, ClearData
  PROVE  QueueInv'
<1>1. TypeOK /\ CountsOk /\ \A q \in Profiles : ~Flying(q)
  BY DEF QueueInv, ClearData
<1>2. /\ profile' \in [Profiles -> Profile]
      /\ \A q \in Profiles : profile'[q].revision = profile[q].revision
                            /\ profile'[q].evidence = profile[q].evidence
  BY <1>1 DEF ClearData, TypeOK, Profile
<1>3. TypeOK'
  BY <1>1, <1>2 DEF ClearData, TypeOK
<1>4. CountsOk'
  BY <1>1, <1>2 DEF ClearData, CountsOk
<1>5. ASSUME NEW q \in Profiles PROVE ProfileInv(q)'
  BY <1>1 DEF ClearData, ProfileInv, FlightOk, StopOk, DeletedOk, Researching, Held, Flying
<1> QED
  BY <1>3, <1>4, <1>5 DEF QueueInv

LEMMA RestartStep ==
  ASSUME QueueInv, NEW slices \in Slices, Restart(slices)
  PROVE  QueueInv'
<1>1. /\ TypeOK /\ CountsOk /\ (\A q \in Profiles : ProfileInv(q))
      /\ \A q \in Profiles : Held(disk, q) => disk[q] \in Job
  BY DEF QueueInv, TypeOK, Held
<1>2. /\ jobs' = [q \in Profiles |-> IF Held(disk, q) THEN Recovered(disk[q], slices) ELSE NoJob]
      /\ loaded' = {q \in Profiles : Held(disk, q)} /\ removed' = {}
      /\ flight' = [q \in Profiles |-> NoFlight]
      /\ timer' = TRUE /\ stopped' = stopped \cap loaded'
      /\ UNCHANGED <<profile, changes, disk, history, ready, commands>>
  BY DEF Restart, world
<1>3. \A q \in Profiles :
        /\ Held(disk, q) => jobs'[q] \in Job /\ jobs'[q].state # "researching"
        /\ (Held(disk, q) /\ disk[q].state = "interrupted" /\ ~disk[q].due) => jobs'[q] = disk[q]
        /\ ~Held(disk, q) => jobs'[q] = NoJob
  BY <1>1, <1>2, RecoveredOk
<1>4. TypeOK'
  <2>1. faults' \in 0..MaxFaults
    BY <1>1, ResearchAssumption DEF Restart, Fault, TypeOK
  <2>2. jobs' \in [Profiles -> Job \cup {NoJob}]
    BY <1>2, <1>3
  <2> QED
    BY <1>1, <1>2, <2>1, <2>2 DEF TypeOK
<1>5. CountsOk'
  BY <1>1, <1>2 DEF CountsOk
<1>6. ASSUME NEW q \in Profiles PROVE ProfileInv(q)'
  <2>1. FlightOk(q)'
    BY <1>2, <1>3 DEF FlightOk, Researching, Held, Flying
  <2>2. StopOk(q)'
    BY <1>1, <1>2, <1>3 DEF ProfileInv, StopOk, Held
  <2>3. DeletedOk(q)'
    BY <1>1, <1>2, <1>3 DEF ProfileInv, DeletedOk, Held, Flying
  <2> QED
    BY <2>1, <2>2, <2>3 DEF ProfileInv
<1> QED
  BY <1>4, <1>5, <1>6 DEF QueueInv

-----------------------------------------------------------------------------
(* The inductive invariant                                                 *)

LEMMA QueueInit == Init => QueueInv
<1> SUFFICES ASSUME Init PROVE QueueInv
  OBVIOUS
<1>1. TypeOK
  BY ResearchAssumption DEF Init, TypeOK, Profile
<1>2. CountsOk
  BY DEF Init, CountsOk
<1>3. \A p \in Profiles : ProfileInv(p)
  BY DEF Init, ProfileInv, FlightOk, StopOk, DeletedOk, Researching, Held, Flying
<1> QED
  BY <1>1, <1>2, <1>3 DEF QueueInv

LEMMA FilesUnchanged ==
  ASSUME TypeOK, UNCHANGED <<jobs, disk, history, loaded, removed>>
  PROVE  FileTypes' /\ FileFollows
BY DEF TypeOK, FileTypes, AnyJob, FileFollows, FollowsAt, Held

LEMMA QueueNext == QueueInv /\ [Next]_vars => QueueInv'
<1> SUFFICES ASSUME QueueInv, [Next]_vars PROVE QueueInv'
  OBVIOUS
<1>1. TypeOK /\ CountsOk
  BY DEF QueueInv
<1>2. CASE Ticks
  BY <1>2, TickStep DEF Ticks
<1>3. ASSUME NEW p \in Profiles, Ask(p) PROVE QueueInv'
  BY <1>3, EnqueueStep DEF Ask
<1>4. ASSUME NEW p \in Profiles, View(p, "viewed") PROVE QueueInv'
  <2>1. ~Urgent("viewed")
    BY DEF Urgent
  <2> QED
    BY <1>4, <2>1, EnqueueStep DEF View
<1>5. ASSUME NEW p \in Profiles, View(p, "aged") PROVE QueueInv'
  BY <1>5, EnqueueStep DEF View
<1>6. ASSUME NEW p \in Profiles, ModelCall(p) \/ Checkpoint(p) \/ Lands(p) PROVE QueueInv'
  BY <1>6, ModelCallStep, CheckpointStep, SettleStep, FactsStep, ThrowStep DEF Lands
<1>7. ASSUME NEW p \in Profiles, NEW slices \in Slices, Cancel(p, slices) PROVE QueueInv'
  BY <1>7, CancelStep
<1>8. ASSUME NEW p \in Profiles, DetachSource(p) PROVE QueueInv'
  <2>1. profile' \in [Profiles -> Profile] /\ CountsOk'
    BY <1>1, <1>8 DEF DetachSource, world, TypeOK, CountsOk
  <2> QED
    BY <1>8, <2>1, RemoveStep DEF DetachSource, world
<1>9. ASSUME NEW p \in Profiles, DeleteProfile(p) PROVE QueueInv'
  <2>1. /\ profile' \in [Profiles -> Profile] /\ CountsOk'
        /\ \A q \in Profiles \ {p} : profile'[q] = profile[q]
    BY <1>1, <1>9 DEF DeleteProfile, TypeOK, CountsOk, Profile
  <2> QED
    BY <1>9, <2>1, RemoveStep DEF DeleteProfile
<1>10. ASSUME NEW p \in Profiles, ProfileChanges(p) \/ TimePasses(p) PROVE QueueInv'
  BY <1>10, ProfileStep, TimeStep
<1>11. CASE Pause
  <2>1. jobs' = jobs /\ FileTypes' /\ FileFollows
    <3>1. jobs \in [Profiles -> AnyJob] /\ removed \in SUBSET Profiles /\ history \in SUBSET Profiles
      BY <1>1 DEF TypeOK, AnyJob
    <3> QED
      BY <1>1, <1>11, <3>1, SaveOk DEF Pause
  <2>2. ready' \in BOOLEAN /\ timer' \in BOOLEAN
    BY <1>1, <1>11, Zenon DEF Pause, TypeOK
  <2>3. faults' \in 0..MaxFaults
    BY <1>1, <1>11, ResearchAssumption DEF Pause, Fault, TypeOK
  <2> QED
    BY <1>11, <2>1, <2>2, <2>3, QuietStep DEF Pause
<1>12. CASE LoseReadiness \/ BecomeReady \/ Stop \/ Start
  <2>1. UNCHANGED <<jobs, disk, history, loaded, removed>> /\ UNCHANGED <<world, stopped, commands>>
        /\ (Supersede \/ flight' = flight)
    BY <1>12 DEF LoseReadiness, BecomeReady, Stop, Start, queue
  <2>2. ready' \in BOOLEAN /\ timer' \in BOOLEAN
    BY <1>1, <1>12, Zenon DEF LoseReadiness, BecomeReady, Stop, Start, TypeOK
  <2>3. faults' \in 0..MaxFaults
    BY <1>1, <1>12, ResearchAssumption DEF LoseReadiness, BecomeReady, Stop, Start, Fault, TypeOK
  <2> QED
    BY <1>1, <2>1, <2>2, <2>3, FilesUnchanged, QuietStep
<1>13. CASE ClearData
  BY <1>13, ClearStep
<1>14. ASSUME NEW slices \in Slices, Restart(slices) PROVE QueueInv'
  BY <1>14, RestartStep
<1>15. CASE UNCHANGED vars
  <2>1. UNCHANGED <<jobs, disk, history, loaded, removed>> /\ UNCHANGED <<world, stopped, commands>>
        /\ flight' = flight
    BY <1>15 DEF vars, world
  <2>2. ready' \in BOOLEAN /\ timer' \in BOOLEAN /\ faults' \in 0..MaxFaults
    BY <1>1, <1>15 DEF vars, TypeOK
  <2> QED
    BY <1>1, <2>1, <2>2, FilesUnchanged, QuietStep
<1> QED
  BY <1>2, <1>3, <1>4, <1>5, <1>6, <1>7, <1>8, <1>9, <1>10, <1>11, <1>12, <1>13, <1>14, <1>15
  DEF Next

LEMMA QueueInvariant == Spec => []QueueInv
BY QueueInit, QueueNext, PTL DEF Spec

-----------------------------------------------------------------------------
(* While an operation is in flight its job is not current, in memory or in  *)
(* the file: whoever is current when it lands became so by landing.         *)

Apart(q) ==
  Flying(q) => /\ Held(jobs, q) => jobs[q].state # "current"
               /\ Held(disk, q) => disk[q].state # "current"
ApartInv == \A q \in Profiles : Apart(q)

LEMMA ApartKept ==
  ASSUME NEW q \in Profiles, Apart(q), FollowsAt(q), flight'[q] # NoFlight => Flying(q),
         (Held(jobs', q) /\ jobs'[q].state = "current") => (Held(jobs, q) /\ jobs[q].state = "current")
  PROVE  Apart(q)'
BY DEF Apart, FollowsAt, Flying, Held

\* One job changes, into one that is not current if the old one was not.
LEMMA ApartOne ==
  ASSUME TypeOK, ApartInv, NEW p \in Profiles, NEW j \in AnyJob, SaveJob(p, j),
         \A q \in Profiles : flight'[q] # NoFlight => Flying(q),
         Flying(p) => ((j # NoJob /\ j.state = "current") => (Held(jobs, p) /\ jobs[p].state = "current"))
  PROVE  ApartInv'
<1>1. jobs' = [jobs EXCEPT ![p] = j] /\ FileFollows
  BY SaveOne
<1>2. jobs'[p] = j /\ \A q \in Profiles \ {p} : jobs'[q] = jobs[q]
  BY <1>1 DEF TypeOK
<1>3. ASSUME NEW q \in Profiles PROVE Apart(q)'
  <2>1. CASE flight'[q] = NoFlight
    BY <2>1 DEF Apart, Flying
  <2>2. CASE flight'[q] # NoFlight
    BY <1>1, <1>2, <2>2, ApartKept DEF ApartInv, FileFollows, Held
  <2> QED
    BY <2>1, <2>2
<1> QED
  BY <1>3 DEF ApartInv

LEMMA ApartNext ==
  ASSUME QueueInv, ApartInv, [Next]_vars
  PROVE  ApartInv'
<1>1. TypeOK /\ \A q \in Profiles : jobs[q] \in AnyJob
  BY DEF QueueInv, TypeOK, AnyJob
<1>2. ASSUME NEW meeting \in SUBSET Profiles, NEW S \in Choices(Refreshed(meeting)), Tick(meeting, S)
      PROVE  ApartInv'
  <2> DEFINE js == Refreshed(meeting)
             gone == {p \in S : ~Active(p)}
             out == [p \in Profiles |-> IF p \in S THEN Dispatched(js, p) ELSE js[p]]
  <2>1. js \in [Profiles -> AnyJob]
    BY <1>1, RefreshedOk DEF Refreshed
  <2>2. \A p \in S : p \in Profiles /\ Held(js, p) /\ js[p].state = "queued"
    BY DEF Choices, Eligible
  <2>3. Save(out, removed \cup gone, history \ gone)
    BY <1>2 DEF Tick
  <2>4. \A p \in Profiles : flight'[p] # NoFlight => p \in S /\ jobs'[p].state = "researching"
    BY <1>2 DEF Tick
  <2> HIDE DEF js
  <2>5. out \in [Profiles -> AnyJob]
    BY <1>1, <2>1, <2>2, DispatchedOk
  <2>6. removed \cup gone \in SUBSET Profiles /\ history \ gone \in SUBSET Profiles
    BY <1>1, <2>2 DEF TypeOK
  <2> HIDE DEF out, gone
  <2>7. jobs' = out /\ FileFollows
    BY <1>1, <2>3, <2>5, <2>6, SaveOk
  <2>8. ASSUME NEW p \in Profiles, flight'[p] # NoFlight PROVE Apart(p)'
    <3>1. jobs'[p].state = "researching" /\ ~Researching(p) /\ jobs'[p] # NoJob
      BY <1>2, <2>4, <2>8 DEF Tick, Ticking, QueueInv, ProfileInv, FlightOk, NoJob
    <3>2. jobs'[p] # jobs[p]
      BY <3>1 DEF Researching, Held
    <3>3. disk'[p] \in {NoJob, jobs'[p]}
      BY <2>7, <3>1, <3>2 DEF FileFollows, FollowsAt, Held
    <3> QED
      BY <3>1, <3>3 DEF Apart, Held
  <2>9. ASSUME NEW p \in Profiles, flight'[p] = NoFlight PROVE Apart(p)'
    BY <2>9 DEF Apart, Flying
  <2> QED
    BY <2>8, <2>9 DEF ApartInv
<1>3. ASSUME NEW p \in Profiles, NEW reason, SaveJob(p, Enqueued(jobs[p], p, reason)), flight' = flight
      PROVE  ApartInv'
  BY <1>1, <1>3, EnqueuedJob, ApartOne DEF Flying, Held
<1>4. ASSUME NEW p \in Profiles, ModelCall(p) \/ Checkpoint(p) PROVE ApartInv'
  <2>1. PICK j : SaveJob(p, j) /\ j \in {[jobs[p] EXCEPT !.calls = flight[p].calls + 1],
                                        [jobs[p] EXCEPT !.checkpoint = @ + 1, !.at = profile[p].revision]}
    BY <1>4 DEF ModelCall, Checkpoint
  <2>2. jobs[p] \in Job /\ jobs[p].state = "researching" /\ Current(p)
    BY <1>4, CurrentOk DEF ModelCall, Checkpoint
  <2>3. j.state = "researching"
    BY <2>1, <2>2 DEF Job
  <2>4. jobs' = [jobs EXCEPT ![p] = j] /\ j \in AnyJob
    <3>1. jobs'[p] \in AnyJob
      BY <1>4, ModelCallStep, CheckpointStep DEF QueueInv, TypeOK, AnyJob
    <3>2. jobs' = [jobs EXCEPT ![p] = j]
      BY <2>1 DEF SaveJob, Save
    <3> QED
      BY <1>1, <3>1, <3>2 DEF TypeOK
  <2>5. \A q \in Profiles : flight'[q] # NoFlight => Flying(q)
    BY <1>1, <1>4, <2>2 DEF ModelCall, Checkpoint, TypeOK, Flying, Current
  <2> QED
    BY <1>1, <2>1, <2>3, <2>4, <2>5, ApartOne
<1>5. ASSUME NEW p \in Profiles, Lands(p) PROVE ApartInv'
  <2>1. PICK j, h : /\ Save([jobs EXCEPT ![p] = j], removed, h) /\ flight' = [flight EXCEPT ![p] = NoFlight]
                    /\ h \in SUBSET Profiles
    <3>1. ASSUME NEW c, NEW slices, Settle(p, c, slices)
          PROVE  \E j, h : /\ Save([jobs EXCEPT ![p] = j], removed, h)
                           /\ flight' = [flight EXCEPT ![p] = NoFlight] /\ h \in SUBSET Profiles
      <4> DEFINE h == IF Recorded(p, c) THEN history \cup {p} ELSE history
      <4>1. h \in SUBSET Profiles
        BY <1>1 DEF TypeOK
      <4>2. Save([jobs EXCEPT ![p] = Settled(p, c, slices)], removed, h)
            /\ flight' = [flight EXCEPT ![p] = NoFlight]
        BY <3>1 DEF Settle, Land
      <4> HIDE DEF h
      <4> QED
        BY <4>1, <4>2
    <3>2. CASE SettleWithFacts(p)
      BY <1>1, <3>2 DEF SettleWithFacts, SaveJob, Land, TypeOK
    <3>3. CASE OperationThrows(p)
      <4> DEFINE j == IF flight[p].detached \/ flight[p].cancelled THEN jobs[p]
                      ELSE [jobs[p] EXCEPT !.state = "unavailable", !.due = FALSE]
      <4>1. Save([jobs EXCEPT ![p] = j], removed, history) /\ flight' = [flight EXCEPT ![p] = NoFlight]
        BY <3>3 DEF OperationThrows, SaveJob, Land
      <4> HIDE DEF j
      <4> QED
        BY <1>1, <4>1 DEF TypeOK
    <3> QED
      BY <1>5, <3>1, <3>2, <3>3 DEF Lands
  <2>2. jobs' \in [Profiles -> AnyJob]
    BY <1>5, SettleStep, FactsStep, ThrowStep DEF Lands, QueueInv, TypeOK, AnyJob
  <2>3. jobs' = [jobs EXCEPT ![p] = j] /\ removed \in SUBSET Profiles
    BY <1>1, <2>1 DEF Save, TypeOK
  <2>4. FileFollows
    BY <1>1, <2>1, <2>2, <2>3, SaveOk
  <2>5. \A q \in Profiles \ {p} : jobs'[q] = jobs[q] /\ flight'[q] = flight[q]
    BY <1>1, <2>1, <2>3 DEF TypeOK
  <2>6. flight'[p] = NoFlight
    BY <1>1, <2>1 DEF TypeOK
  <2>7. ASSUME NEW q \in Profiles PROVE Apart(q)'
    <3>1. CASE q = p
      BY <2>6, <3>1 DEF Apart, Flying
    <3>2. CASE q # p
      BY <2>4, <2>5, <3>2, ApartKept DEF ApartInv, FileFollows, Flying, Held
    <3> QED
      BY <3>1, <3>2
  <2> QED
    BY <2>7 DEF ApartInv
<1>6. ASSUME NEW p \in Profiles, NEW slices \in Slices, Cancel(p, slices) PROVE ApartInv'
  <2>1. PICK t : SaveJob(p, [jobs[p] EXCEPT !.state = "interrupted", !.due = FALSE, !.time = t])
    BY <1>6 DEF Cancel
  <2> DEFINE j == [jobs[p] EXCEPT !.state = "interrupted", !.due = FALSE, !.time = t]
  <2>2. jobs[p] \in Job /\ j.state = "interrupted"
    BY <1>1, <1>6 DEF Cancel, Held, AnyJob, Job
  <2>3. jobs' = [jobs EXCEPT ![p] = j]
    BY <2>1 DEF SaveJob, Save
  <2>4. jobs'[p] \in AnyJob
    BY <1>6, CancelStep DEF QueueInv, TypeOK, AnyJob
  <2>5. \A q \in Profiles : flight'[q] # NoFlight => Flying(q)
    BY <1>1, <1>6 DEF Cancel, TypeOK, Flying, QueueInv, ProfileInv, FlightOk, Researching, Held
  <2> HIDE DEF j
  <2>6. j \in AnyJob
    BY <1>1, <2>3, <2>4 DEF TypeOK
  <2>7. SaveJob(p, j)
    BY <2>1 DEF j
  <2> QED
    BY <1>1, <2>2, <2>5, <2>6, <2>7, ApartOne
<1>7. ASSUME NEW p \in Profiles, Remove(p) PROVE ApartInv'
  <2> DEFINE js == [jobs EXCEPT ![p] = NoJob]
  <2>1. js \in [Profiles -> AnyJob] /\ removed \cup {p} \in SUBSET Profiles /\ history \ {p} \in SUBSET Profiles
    BY <1>1 DEF TypeOK, AnyJob
  <2>2. Save(js, removed \cup {p}, history \ {p})
    BY <1>7 DEF Remove
  <2>3. js[p] = NoJob /\ \A q \in Profiles \ {p} : js[q] = jobs[q]
    BY <1>1 DEF TypeOK
  <2> HIDE DEF js
  <2>4. jobs' = js /\ FileFollows
    BY <1>1, <2>1, <2>2, SaveOk
  <2>5. \A q \in Profiles : flight'[q] # NoFlight => Flying(q)
    BY <1>1, <1>7 DEF Remove, TypeOK, Flying
  <2>6. ASSUME NEW q \in Profiles PROVE Apart(q)'
    BY <2>3, <2>4, <2>5, ApartKept DEF ApartInv, FileFollows, Held
  <2> QED
    BY <2>6 DEF ApartInv
<1>8. ASSUME NEW p \in Profiles, TimePasses(p) PROVE ApartInv'
  <2>1. /\ jobs[p] \in Job /\ (Held(disk, p) => disk[p] \in Job)
        /\ jobs' = [jobs EXCEPT ![p] = [jobs[p] EXCEPT !.due = TRUE]]
        /\ disk' = IF Held(disk, p) THEN [disk EXCEPT ![p] = [disk[p] EXCEPT !.due = TRUE]] ELSE disk
        /\ flight' = flight
    BY <1>1, <1>8 DEF TimePasses, TypeOK, Held, AnyJob
  <2>2. /\ [jobs[p] EXCEPT !.due = TRUE].state = jobs[p].state
        /\ Held(disk, p) => [disk[p] EXCEPT !.due = TRUE].state = disk[p].state
    BY <2>1 DEF Job
  <2>3. \A q \in Profiles :
          /\ Held(jobs', q) => Held(jobs, q) /\ jobs'[q].state = jobs[q].state
          /\ Held(disk', q) => Held(disk, q) /\ disk'[q].state = disk[q].state
    BY <1>1, <1>8, <2>1, <2>2 DEF Held, TypeOK, TimePasses
  <2> QED
    BY <2>1, <2>3 DEF ApartInv, Apart, Flying
<1>9. CASE Pause
  <2>1. jobs \in [Profiles -> AnyJob] /\ removed \in SUBSET Profiles /\ history \in SUBSET Profiles
    BY <1>1 DEF TypeOK, AnyJob
  <2>2. jobs' = jobs /\ FileFollows
    BY <1>1, <1>9, <2>1, SaveOk DEF Pause
  <2>3. \A q \in Profiles : flight'[q] # NoFlight => Flying(q)
    BY <1>9 DEF Pause, Supersede
  <2> QED
    BY <2>2, <2>3, ApartKept DEF ApartInv, FileFollows
<1>10. CASE /\ UNCHANGED <<jobs, disk>>
            /\ \A q \in Profiles : flight'[q] # NoFlight => Flying(q)
  BY <1>10 DEF ApartInv, Apart, Flying, Held
<1>11. ASSUME \/ LoseReadiness \/ BecomeReady \/ Stop \/ Start \/ UNCHANGED vars
              \/ \E p \in Profiles : ProfileChanges(p)
       PROVE  ApartInv'
  <2>1. UNCHANGED <<jobs, disk>> /\ (flight' = flight \/ Supersede)
    BY <1>11 DEF LoseReadiness, BecomeReady, Stop, Start, vars, ProfileChanges, queue
  <2> QED
    BY <1>10, <2>1 DEF Supersede, Flying
<1>12. ASSUME ClearData \/ \E slices \in Slices : Restart(slices) PROVE ApartInv'
  <2>1. \A q \in Profiles : flight'[q] = NoFlight
    BY <1>12 DEF ClearData, Restart, Flying
  <2> QED
    BY <2>1 DEF ApartInv, Apart, Flying
<1> QED
  BY <1>2, <1>3, <1>4, <1>5, <1>6, <1>7, <1>8, <1>9, <1>11, <1>12
  DEF Next, Ticks, Ask, View, DetachSource, DeleteProfile

LEMMA ApartInvariant == Spec => []ApartInv
<1>1. Init => ApartInv
  BY DEF Init, ApartInv, Apart, Flying
<1> QED
  BY <1>1, ApartNext, QueueInvariant, PTL DEF Spec

-----------------------------------------------------------------------------
(* The theorems                                                            *)

\* Every variable keeps its type: no allowance, count or checkpoint leaves its
\* range (ResearchQueue and its jobs).
THEOREM ResearchTypes == Spec => []TypeOK
BY QueueInvariant, PTL DEF QueueInv

\* No job waits for an operation that ended, was cancelled, was removed or died
\* with its process (run, cancel, remove and the constructor).
THEOREM NoDeadResearch == Spec => []ResearchingIsRunning
<1>1. QueueInv => ResearchingIsRunning
  BY DEF QueueInv, ProfileInv, FlightOk, Researching, ResearchingIsRunning
<1> QED
  BY <1>1, QueueInvariant, PTL

\* The owner's stop stands against late results, backfill and restarts (cancel
\* against run's continuation, tick and the constructor).
THEOREM StopsStand == Spec => []StopStands
<1>1. QueueInv => StopStands
  BY DEF QueueInv, ProfileInv, StopOk, StopStands, TypeOK
<1> QED
  BY <1>1, QueueInvariant, PTL

\* Nothing of a deleted Profile comes back (remove, the merge in save and the
\* continuation of run).
THEOREM DeletionsStand == Spec => []DeletionStands
<1>1. QueueInv => DeletionStands
  BY DEF QueueInv, ProfileInv, DeletedOk, DeletionStands
<1> QED
  BY <1>1, QueueInvariant, PTL

\* A completed operation that lands while the queue runs is recorded only if the
\* Profile and its evidence are those it was dispatched with (contextStatus,
\* before the job is saved).
THEOREM NoStaleResult == Spec => ResultsAreCurrent
<1>1. ASSUME QueueInv, ApartInv, [Next]_vars, NEW p \in Profiles,
             Flying(p), ready, ~flight[p].superseded, flight'[p] = NoFlight,
             Held(jobs', p), jobs'[p].state = "current"
      PROVE  profile[p] = flight[p].profile
  <2>1. TypeOK /\ (Held(jobs, p) => jobs[p].state # "current")
        /\ (Held(disk, p) => disk[p] \in Job /\ disk[p].state # "current")
    BY <1>1 DEF QueueInv, TypeOK, ApartInv, Apart, Held
  <2>2. ASSUME NEW q \in Profiles, flight' = [flight EXCEPT ![q] = NoFlight] PROVE q = p
    BY <1>1, <2>1, <2>2 DEF TypeOK, Flying
  <2>3. ASSUME NEW c \in Conclusions \ {"none"}, NEW slices \in Slices, Settle(p, c, slices)
        PROVE  profile[p] = flight[p].profile
    <3>1. jobs'[p] = Settled(p, c, slices)
      BY <2>1, <2>3 DEF Settle, Save, TypeOK
    <3>2. CASE flight[p].detached
      BY <1>1, <2>1, <3>1, <3>2 DEF Settled, Held
    <3>3. CASE ~flight[p].detached /\ Ignored(p)
      <4>1. jobs[p] \in Job
        BY <1>1, <2>1, <3>3 DEF QueueInv, ProfileInv, FlightOk, TypeOK, Held
      <4>2. [jobs[p] EXCEPT !.conclusion = c].state = jobs[p].state
        BY <4>1 DEF Job
      <4> QED
        BY <1>1, <2>1, <3>1, <3>3, <4>1, <4>2, Specials DEF Settled, Held
    <3>4. CASE ~flight[p].detached /\ ~Ignored(p) /\ Stale(p)
      <4>1. jobs[p] \in Job
        BY <1>1, <2>1, <3>4 DEF QueueInv, ProfileInv, FlightOk, TypeOK, Held
      <4> QED
        BY <1>1, <3>1, <3>4, <4>1, DiscardedOk DEF Settled
    <3>5. CASE ~flight[p].detached /\ ~Stale(p)
      BY <1>1, <3>5 DEF Stale, Interrupted
    <3> QED
      BY <3>2, <3>3, <3>4, <3>5
  <2>4. CASE SettleWithFacts(p)
    BY <2>4 DEF SettleWithFacts, Current, Stale
  <2>5. CASE OperationThrows(p)
    <3> DEFINE failed == [jobs[p] EXCEPT !.state = "unavailable", !.due = FALSE]
    <3>1. jobs'[p] = IF flight[p].detached \/ flight[p].cancelled THEN jobs[p] ELSE failed
      BY <2>1, <2>5 DEF OperationThrows, SaveJob, Save, TypeOK
    <3>2. ~flight[p].detached => jobs[p] \in Job
      BY <1>1, <2>1 DEF QueueInv, ProfileInv, FlightOk, TypeOK, Held
    <3>3. jobs[p] \in Job => failed.state = "unavailable"
      BY DEF Job
    <3> HIDE DEF failed
    <3> QED
      BY <1>1, <2>1, <3>1, <3>2, <3>3 DEF Held
  <2>6. ASSUME NEW slices \in Slices, Restart(slices) PROVE FALSE
    <3>1. Held(disk, p) /\ jobs'[p] = Recovered(disk[p], slices)
      BY <1>1, <2>6 DEF Restart, Held
    <3>2. [disk[p] EXCEPT !.state = "queued"].state = "queued"
          /\ [disk[p] EXCEPT !.state = "queued", !.time = Least(TimeLimit, @ + slices)].state = "queued"
      BY <2>1, <3>1 DEF Job
    <3> QED
      BY <1>1, <2>1, <3>1, <3>2 DEF Recovered
  <2>7. ASSUME NEW q \in Profiles, Lands(q) PROVE profile[p] = flight[p].profile
    <3>1. q = p
      BY <2>2, <2>7 DEF Lands, Settle, SettleWithFacts, OperationThrows, Land
    <3> QED
      BY <2>3, <2>4, <2>5, <2>7, <3>1 DEF Lands
  <2>8. ~Ticks /\ ~ClearData
    BY <1>1 DEF Ticks, Ticking, ClearData
  <2>9. ASSUME \/ flight' = flight \/ Supersede
        PROVE  FALSE
    <3>1. CASE flight' = flight
      BY <1>1, <3>1 DEF Flying
    <3>2. CASE Supersede
      <4>1. flight[p] \in Flight
        BY <1>1, <2>1 DEF TypeOK, Flying
      <4>2. [flight[p] EXCEPT !.superseded = TRUE] \in Flight
        BY <4>1 DEF Flight
      <4> QED
        BY <1>1, <3>2, <4>2, Specials DEF Supersede
    <3> QED
      BY <2>9, <3>1, <3>2
  <2>10. ASSUME NEW q \in Profiles, ModelCall(q) PROVE FALSE
    <3>1. /\ [flight[q] EXCEPT !.made = @ + 1].made = flight[q].made + 1
          /\ flight[q].made \in Nat /\ flight[q].made + 1 <= CallLimit
      <4>1. flight[q] \in Flight
        BY <1>1, <2>10, CurrentOk DEF ModelCall
      <4> QED
        BY <2>10, <4>1, ResearchAssumption DEF ModelCall, Flight
    <3>2. flight' = [flight EXCEPT ![q] = [flight[q] EXCEPT !.made = @ + 1]]
      BY <2>10 DEF ModelCall
    <3>3. flight'[q] = [flight[q] EXCEPT !.made = @ + 1] /\ (q # p => flight'[p] = flight[p])
      BY <2>1, <3>2 DEF TypeOK
    <3>4. NoFlight.made = CallLimit + 1
      BY DEF NoFlight
    <3>5. q = p
      BY <1>1, <3>3 DEF Flying
    <3>6. NoFlight.made = flight[q].made + 1
      BY <1>1, <3>1, <3>3, <3>5
    <3>7. flight[q].made + 1 = CallLimit + 1
      BY <3>4, <3>6
    <3> QED
      BY <3>1, <3>7, ResearchAssumption
  <2>11. ASSUME NEW q \in Profiles, NEW slices \in Slices, Cancel(q, slices) PROVE FALSE
    <3>1. CASE jobs[q].state # "researching"
      BY <2>9, <2>11, <3>1 DEF Cancel
    <3>2. CASE jobs[q].state = "researching"
      <4>1. flight[q] \in Flight
        BY <1>1, <2>1, <2>11, <3>2 DEF Cancel, QueueInv, ProfileInv, FlightOk, Researching, Flying, TypeOK
      <4>2. [flight[q] EXCEPT !.cancelled = TRUE] \in Flight
        BY <4>1 DEF Flight
      <4>3. flight' = [flight EXCEPT ![q] = [flight[q] EXCEPT !.cancelled = TRUE]]
        BY <2>11, <3>2 DEF Cancel
      <4> QED
        BY <1>1, <2>1, <4>2, <4>3, Specials DEF TypeOK, Flying
    <3> QED
      BY <3>1, <3>2
  <2>12. ASSUME NEW q \in Profiles, Remove(q) PROVE FALSE
    <3>1. CASE ~Flying(q)
      BY <2>9, <2>12, <3>1 DEF Remove
    <3>2. CASE Flying(q)
      <4>1. flight[q] \in Flight
        BY <2>1, <3>2 DEF Flying, TypeOK
      <4>2. [flight[q] EXCEPT !.detached = TRUE] \in Flight
        BY <4>1 DEF Flight
      <4>3. flight' = [flight EXCEPT ![q] = [flight[q] EXCEPT !.detached = TRUE]]
        BY <2>12, <3>2 DEF Remove
      <4> QED
        BY <1>1, <2>1, <4>2, <4>3, Specials DEF TypeOK, Flying
    <3> QED
      BY <3>1, <3>2
  <2>13. ASSUME NEW q \in Profiles,
                \/ Ask(q) \/ View(q, "viewed") \/ View(q, "aged") \/ Checkpoint(q)
                \/ ProfileChanges(q) \/ TimePasses(q)
         PROVE  FALSE
    BY <2>9, <2>13 DEF Ask, View, Checkpoint, ProfileChanges, TimePasses, queue
  <2>14. CASE Pause \/ LoseReadiness \/ BecomeReady \/ Stop \/ Start \/ UNCHANGED vars
    BY <2>9, <2>14 DEF Pause, LoseReadiness, BecomeReady, Stop, Start, queue, vars
  <2> QED
    BY <1>1, <2>6, <2>7, <2>8, <2>10, <2>11, <2>12, <2>13, <2>14
    DEF Next, DetachSource, DeleteProfile
<1>2. QueueInv /\ ApartInv /\ [Next]_vars =>
        [\A p \in Profiles :
           (/\ Flying(p) /\ ready /\ ~flight[p].superseded
            /\ flight'[p] = NoFlight
            /\ Held(jobs', p) /\ jobs'[p].state = "current")
           => profile[p] = flight[p].profile]_vars
  BY <1>1
<1> QED
  BY <1>2, QueueInvariant, ApartInvariant, PTL DEF Spec, ResultsAreCurrent
=============================================================================
