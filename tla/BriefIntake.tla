---------------------------- MODULE BriefIntake ----------------------------
(***************************************************************************)
(* The Intake of the Meeting Brief generator for one Calendar occurrence:  *)
(* Calendar reads that overlap (a relay wake-up, the maintenance tick, the *)
(* boot recovery), the durable schedule they keep, and the Runs the        *)
(* schedule is turned into (intake.ts, host.ts, engine/durableClock.ts).   *)
(*                                                                         *)
(* A Calendar read is one await; the loop over due schedules is not        *)
(* interrupted by other callbacks, but the process may die inside it.      *)
(***************************************************************************)
EXTENDS BriefRuns, Naturals, Sequences

CONSTANTS
  Materials,     \* what a Brief is made from, as a fingerprint
  MaxVersions,   \* bound on the changes of the Calendar event
  Relayed,       \* the Workspace has a relay for Calendar pushes
  MaxRuns,       \* bound on the Runs, high enough not to be met
  MaxFaults      \* bound on failed ticks and Stages and on crashes

IntakeConstants ==
  /\ MaxVersions \in Nat /\ MaxRuns \in Nat /\ MaxFaults \in Nat
  /\ Materials # {} /\ Relayed \in BOOLEAN

ASSUME IntakeAssumption == IntakeConstants

VARIABLES
  calendar,    \* the event as Google Calendar has it
  token,       \* the stored sync token: the version it stands for
  schedule,    \* the occurrence's durable schedule: the event it holds
  cancelled,   \* the occurrence is recorded as cancelled
  readers,     \* the Calendar reads in flight and what follows them
  faults       \* how much has gone wrong

vars == <<calendar, token, schedule, cancelled, readers, runs, faults>>

\* window: inside the week being prepared; beyond: later; absent: outside the
\* ninety days a full read asks for, or not created yet.
Kinds == {"absent", "beyond", "window", "cancelled"}
Event == [version : 0..MaxVersions, kind : Kinds, material : Materials]
AnyMaterial == CHOOSE m \in Materials : TRUE
NoEvent == [version |-> 0, kind |-> "absent", material |-> AnyMaterial]

Readers == {"relay", "tick", "boot"}
Reads == {"changes", "full", "sweep"}
Reader == [step : {"idle", "asked", "answered", "due"}, read : Reads,
           token : 0..MaxVersions, seen : Event, next : 0..MaxVersions]
IdleReader == [step |-> "idle", read |-> "full", token |-> 0, seen |-> NoEvent, next |-> 0]
Asking(read) == [IdleReader EXCEPT !.step = "asked", !.read = read,
                                   !.token = IF read = "changes" THEN token ELSE 0]

Statuses == {"working", "quiet", "done", "skipped", "failed"}
Run == [input : Event, snapshot : Event, status : Statuses,
        rests : BOOLEAN, retried : BOOLEAN]

Fault == faults < MaxFaults /\ faults' = faults + 1

-----------------------------------------------------------------------------
(* Calendar                                                                *)

\* The event is created, edited, moved or cancelled.  Moving it changes its
\* material, cancelling it does not.
CalendarChanges(kind, m) ==
  /\ calendar.version < MaxVersions
  /\ {kind, calendar.kind} = {"beyond", "window"} => m # calendar.material
  /\ kind \in {"absent", "cancelled"} => m = calendar.material
  /\ calendar' = [version |-> calendar.version + 1, kind |-> kind, material |-> m]
  /\ UNCHANGED <<token, schedule, cancelled, readers, runs, faults>>

\* A new week begins: the sweep window reaches the event, which is unchanged.
WeekTurns ==
  /\ calendar.kind = "beyond"
  /\ calendar' = [calendar EXCEPT !.kind = "window"]
  /\ UNCHANGED <<token, schedule, cancelled, readers, runs, faults>>

\* Google answers a read: everything in its bounds, or what changed since.
CalendarAnswers(r) ==
  /\ readers[r].step = "asked"
  /\ LET changed == calendar.version > readers[r].token
         listed == IF readers[r].read = "changes" THEN changed ELSE calendar.kind # "absent" IN
       readers' = [readers EXCEPT ![r].step = "answered",
                                  ![r].seen = IF listed THEN calendar ELSE NoEvent,
                                  ![r].next = calendar.version]
  /\ UNCHANGED <<calendar, token, schedule, cancelled, runs, faults>>

\* An expired token turns the read of changes into a full one.
TokenExpires(r) ==
  /\ readers[r].step = "asked" /\ readers[r].read = "changes"
  /\ readers' = [readers EXCEPT ![r].read = "full", ![r].token = 0]
  /\ UNCHANGED <<calendar, token, schedule, cancelled, runs, faults>>

\* A failed read ends a wake-up; the tick and the recovery go on to what is due.
AfterReading(r) == IF r = "relay" THEN IdleReader ELSE [IdleReader EXCEPT !.step = "due"]

ReadFails(r) ==
  /\ IF r = "relay" THEN UNCHANGED faults ELSE Fault
  /\ readers[r].step = "asked"
  /\ readers' = [readers EXCEPT ![r] = AfterReading(r)]
  /\ UNCHANGED <<calendar, token, schedule, cancelled, runs>>

-----------------------------------------------------------------------------
(* Reads begin                                                             *)

\* handleRelayWakeUp: a push, possibly late, doubled or lost.
RelayWakes ==
  /\ Relayed
  /\ readers["relay"].step = "idle"
  /\ readers' = [readers EXCEPT !["relay"] = Asking("changes")]
  /\ UNCHANGED <<calendar, token, schedule, cancelled, runs, faults>>

\* maintenanceTick: the sweep on Sundays, the full read every six hours, and
\* in any case what is due.  Ticks do not overlap.
TickSweeps ==
  /\ readers["tick"].step = "idle"
  /\ readers' = [readers EXCEPT !["tick"] = Asking("sweep")]
  /\ UNCHANGED <<calendar, token, schedule, cancelled, runs, faults>>

TickReads ==
  /\ readers["tick"].step = "idle"
  /\ readers' = [readers EXCEPT !["tick"] = Asking("full")]
  /\ UNCHANGED <<calendar, token, schedule, cancelled, runs, faults>>

TickOnlyStarts ==
  /\ readers["tick"].step = "idle"
  /\ readers' = [readers EXCEPT !["tick"].step = "due"]
  /\ UNCHANGED <<calendar, token, schedule, cancelled, runs, faults>>

-----------------------------------------------------------------------------
(* Reads end                                                               *)

\* The sweep leaves the token alone, a read of changes an unchanged one.
NextToken(rd) ==
  IF rd.read = "sweep" \/ (rd.read = "changes" /\ rd.next = rd.token) THEN token ELSE rd.next

\* A done Run holds a Brief for this very version.
HasCurrentBrief(e) ==
  \E i \in DOMAIN runs : runs[i].status = "done" /\ runs[i].snapshot.version = e.version

SweepSkips(e) ==
  e.kind # "window" \/ schedule.version = e.version \/ HasCurrentBrief(e)

\* reconcileCalendar and prepareWeekSweep: the schedule after a read.  What a
\* full read does not list loses its schedule.
ScheduleAfter(rd) ==
  IF rd.read = "sweep" THEN (IF SweepSkips(rd.seen) THEN schedule ELSE rd.seen)
  ELSE IF rd.seen.version = 0 THEN (IF rd.read = "full" THEN NoEvent ELSE schedule)
  ELSE IF rd.seen.kind = "window" THEN rd.seen
  ELSE NoEvent

\* Mutant of CancelledAfter: a restored event stays marked.
CancelledAfterForGood(rd) == cancelled \/ rd.seen.kind = "cancelled"

CancelledAfter(rd) ==
  IF rd.read = "sweep" THEN cancelled /\ SweepSkips(rd.seen)
  ELSE IF rd.seen.kind = "cancelled" THEN TRUE
  ELSE cancelled /\ rd.seen.kind # "window"

Reconcile(r) ==
  /\ readers[r].step = "answered"
  /\ token' = NextToken(readers[r])
  /\ schedule' = ScheduleAfter(readers[r])
  /\ cancelled' = CancelledAfter(readers[r])
  /\ \/ readers' = [readers EXCEPT ![r] = AfterReading(r)]
     \/ /\ readers[r].read = "sweep"
        /\ readers' = [readers EXCEPT ![r] = Asking("full")]
  /\ UNCHANGED <<calendar, runs, faults>>

\* The process dies: reads are gone, Runs at work are taken up again, and the
\* recovery begins with a full read.
Reboot == readers' = [r \in Readers |-> IF r = "boot" THEN Asking("full") ELSE IdleReader]

Crash ==
  /\ Fault
  /\ Reboot
  /\ UNCHANGED <<calendar, token, schedule, cancelled, runs>>

\* ... after the token is stored and before the events are applied.
CrashInReconcile(r) ==
  /\ Fault
  /\ readers[r].step = "answered"
  /\ token' = NextToken(readers[r])
  /\ Reboot
  /\ UNCHANGED <<calendar, schedule, cancelled, runs>>

-----------------------------------------------------------------------------
(* From the schedule to a Run: startBriefForSchedule                       *)

Active == {i \in DOMAIN runs : runs[i].status \in {"working", "quiet"}}

LatestOf(S) == CHOOSE i \in S : \A j \in S : j <= i
Done == {i \in DOMAIN runs : runs[i].status = "done"}

SameVersion(i, e) == runs[i].snapshot.version = e.version

\* Mutant of SameMaterial: any Brief will do.
SameMaterialAny(S, e) == S # {} /\ Frozen(LatestOf(S))

SameMaterial(S, e) ==
  /\ S # {} /\ Frozen(LatestOf(S))
  /\ runs[LatestOf(S)].snapshot.material = e.material

\* A prior Run still at work defers the revision, unless it holds this version.
Deferred(e) ==
  /\ \E i \in Active : runs[i].status = "working"
  /\ ~\E i \in Active : SameVersion(i, e)

\* Nothing new for a Brief: the version or its material has had its Run.
Spent(e) ==
  \/ \E i \in DOMAIN runs : SameVersion(i, e)
  \/ SameMaterial(Done, e)
  \/ SameMaterial(Active, e)

NewRun(e) ==
  [input |-> e, snapshot |-> NoEvent, status |-> "working",
   rests |-> Done # {} \/ Active # {}, retried |-> FALSE]

\* What becomes of the schedule and the Runs when it is due.
StartBrief ==
  LET e == schedule IN
  \/ /\ e.version = 0 \/ Deferred(e)
     /\ UNCHANGED <<schedule, runs>>
  \/ /\ e.version > 0 /\ ~Deferred(e) /\ Spent(e)
     /\ schedule' = NoEvent
     /\ UNCHANGED runs
  \/ /\ e.version > 0 /\ ~Deferred(e) /\ ~Spent(e)
     /\ Len(runs) < MaxRuns
     /\ runs' = Append(runs, NewRun(e))
     /\ schedule' = NoEvent

\* processDueSchedules, at the end of a tick or of the recovery.
ProcessDue(r) ==
  /\ readers[r].step = "due"
  /\ StartBrief
  /\ readers' = [readers EXCEPT ![r] = IdleReader]
  /\ UNCHANGED <<calendar, token, cancelled, faults>>

\* The owner asks for the Brief now.
PrepareNow ==
  /\ schedule.version > 0
  /\ StartBrief
  /\ UNCHANGED <<calendar, token, cancelled, readers, faults>>

\* The process dies with the Run created and the schedule still there.
CrashInStart(r) ==
  /\ Fault
  /\ readers[r].step = "due"
  /\ schedule.version > 0 /\ ~Deferred(schedule) /\ ~Spent(schedule)
  /\ Len(runs) < MaxRuns
  /\ runs' = Append(runs, NewRun(schedule))
  /\ Reboot
  /\ UNCHANGED <<calendar, token, schedule, cancelled>>

-----------------------------------------------------------------------------
(* What the Runs do to the state the Intake reads                          *)

Working(i) == i \in DOMAIN runs /\ runs[i].status = "working"

\* Mutant of SnapshotOf: the Run keeps the event it was scheduled with.
SnapshotOfInput(i) == runs[i].input

\* The snapshot Stage freezes the event as Calendar has it now; from then on the
\* snapshot is the Run's input.
SnapshotOf(i) == IF calendar.kind = "absent" THEN runs[i].input ELSE calendar

Snapshot(i) ==
  /\ Working(i) /\ ~Frozen(i)
  /\ runs' = [runs EXCEPT ![i].snapshot = SnapshotOf(i), ![i].input = NoEvent,
                          ![i].status = IF calendar.kind \in {"absent", "cancelled"}
                                        THEN "skipped" ELSE "working"]
  /\ UNCHANGED <<calendar, token, schedule, cancelled, readers, faults>>

\* A revision rests before it is delivered.
Rest(i) ==
  /\ Working(i) /\ Frozen(i) /\ runs[i].rests
  /\ runs' = [runs EXCEPT ![i].status = "quiet", ![i].rests = FALSE]
  /\ UNCHANGED <<calendar, token, schedule, cancelled, readers, faults>>

Resume(i) ==
  /\ i \in DOMAIN runs /\ runs[i].status = "quiet"
  /\ runs' = [runs EXCEPT ![i].status = "working"]
  /\ UNCHANGED <<calendar, token, schedule, cancelled, readers, faults>>

\* The recheck before delivery skips a cancelled meeting; a Run whose event has
\* moved on is done all the same, its delivery superseded.
Finish(i) ==
  /\ Working(i) /\ Frozen(i)
  /\ runs' = [runs EXCEPT ![i].status =
       IF calendar.kind \in {"absent", "cancelled"} THEN "skipped" ELSE "done"]
  /\ UNCHANGED <<calendar, token, schedule, cancelled, readers, faults>>

StageFails(i) ==
  /\ Fault
  /\ Working(i)
  /\ runs' = [runs EXCEPT ![i].status = "failed"]
  /\ UNCHANGED <<calendar, token, schedule, cancelled, readers>>

OwnerRetries(i) ==
  /\ i \in DOMAIN runs /\ runs[i].status = "failed"
  /\ runs' = [runs EXCEPT ![i].status = "working", ![i].retried = TRUE]
  /\ UNCHANGED <<calendar, token, schedule, cancelled, readers, faults>>

-----------------------------------------------------------------------------
Init ==
  /\ calendar = NoEvent
  /\ token = 0
  /\ schedule = NoEvent
  /\ cancelled = FALSE
  /\ readers = [r \in Readers |-> IdleReader]
  /\ runs = << >>
  /\ faults = 0

RunStep(i) == Snapshot(i) \/ Rest(i) \/ Resume(i) \/ Finish(i)

Next ==
  \/ \E kind \in Kinds, m \in Materials : CalendarChanges(kind, m)
  \/ WeekTurns
  \/ RelayWakes \/ TickSweeps \/ TickReads \/ TickOnlyStarts
  \/ PrepareNow
  \/ \E r \in Readers :
       \/ CalendarAnswers(r) \/ TokenExpires(r) \/ ReadFails(r)
       \/ Reconcile(r) \/ CrashInReconcile(r)
       \/ ProcessDue(r) \/ CrashInStart(r)
  \/ Crash
  \/ \E i \in 1..MaxRuns : RunStep(i) \/ StageFails(i) \/ OwnerRetries(i)

Spec == Init /\ [][Next]_vars

\* Reads are answered and applied, ticks come every thirty seconds and read in
\* full every six hours, Runs proceed.
Fairness ==
  /\ SF_vars(TickReads)
  /\ \A r \in Readers : WF_vars(CalendarAnswers(r)) /\ WF_vars(Reconcile(r)) /\ WF_vars(ProcessDue(r))
  /\ \A i \in 1..MaxRuns : WF_vars(RunStep(i))

FairSpec == Spec /\ Fairness

-----------------------------------------------------------------------------
(* Properties                                                              *)

\* Every variable holds a value of its type.
TypeOK ==
  /\ calendar \in Event
  /\ token \in 0..MaxVersions
  /\ schedule \in Event
  /\ cancelled \in BOOLEAN
  /\ readers \in [Readers -> Reader]
  /\ runs \in Seq(Run) /\ Len(runs) <= MaxRuns
  /\ faults \in 0..MaxFaults

\* Once the event rests and faults cease, an event in the prepared week has a
\* Run of its version, or its latest Brief was made from the same material: no
\* order of reads, crashes and Runs loses a revision for good.
RevisionsArePrepared ==
  <>[](calendar.kind = "window" =>
         \/ \E i \in DOMAIN runs : SameVersion(i, calendar)
         \/ \E i \in Done : /\ runs[i].snapshot.material = calendar.material
                            /\ \A j \in Done : j <= i)

\* What the Module presents as cancelled agrees with Calendar in the end, and a
\* cancelled meeting has no schedule.
CancellationsAreShown ==
  <>[](/\ calendar.kind = "cancelled" => cancelled /\ schedule = NoEvent
       /\ calendar.kind = "window" => ~cancelled)
=============================================================================
