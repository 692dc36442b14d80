--------------------------- MODULE TaskPromotion ---------------------------
(***************************************************************************)
(* Action Items on their way to Tasks: the reservation a Debrief Run takes  *)
(* before inference (meeting-debrief/host.ts, module.ts), materialization   *)
(* and automatic promotion (tasks/auto-promotion.ts, action-items.ts,       *)
(* promotion-eligibility.ts), and the owner's review commands and           *)
(* promotions (tasks/promotion.ts, api/tasks.ts).                           *)
(*                                                                         *)
(* The Runs belong to one lineage: one source file.  The model call is the  *)
(* only await of a Run's attempt; materialization and automatic promotion   *)
(* are one turn, in which the process may die between two writes.  An       *)
(* Action Item is named by its materialization key, the Run and the entry   *)
(* of its checked output.                                                   *)
(***************************************************************************)
EXTENDS AcceptedTasks, Naturals, Sequences

CONSTANTS
  NoRun,
  Transcripts,
  Supported,     \* those with a supported claim that the owner is to do it
  Title,         \* [Entries -> titles]
  Bundled,       \* the Workspace is on the canonical bundle: one commit
  MaxEnables,    \* bound on the owner's enablements
  MaxCommands,   \* bound on the owner's other commands
  MaxRevisions,  \* bound on the proposal revisions of an Action Item
  MaxTasks,      \* bound on the Tasks, high enough not to be met
  MaxFaults      \* bound on failing steps and crashes

PromotionConstants ==
  /\ NoRun \notin Runs
  /\ TranscriptOf \in [Runs -> Transcripts]
  /\ Supported \subseteq Entries
  /\ Bundled \in BOOLEAN
  /\ MaxEnables \in Nat /\ MaxCommands \in Nat /\ MaxRevisions \in Nat \ {0}
  /\ MaxTasks \in Nat /\ MaxFaults \in Nat

ASSUME PromotionAssumption == PromotionConstants

VARIABLES
  policy,    \* config.json: release, enablement and preference
  runs,      \* the Runs: where they stand, their reservations, their output
  head,      \* the Run of the first Action Item of a Transcript in the queue
  turn,      \* the Run whose materialization is under way, and what it has left
  commands,  \* how many commands the owner gave
  faults     \* how much has gone wrong

vars == <<policy, runs, items, head, tasks, turn, commands, faults>>

NoKey == <<NoRun, NoRun>>

\* enabledAt: which enablement is in force, 0 for none; enables: how many were made.
Policy == [released : BOOLEAN, enabledAt : 0..MaxEnables, enables : 0..MaxEnables,
           prefers : BOOLEAN]

Claims == {"none", "first", "review-only"}
Reservation == [claim : Claims, at : 0..MaxEnables]
NoReservation == [claim |-> "none", at |-> 0]

\* operation: what operation.json holds; handed: what this attempt computed.
Steps == {"new", "asked", "checked", "promoting", "failed", "done", "approved"}
Run == [step : Steps, operation : Reservation, handed : Reservation,
        output : SUBSET Entries, whole : BOOLEAN, answered : BOOLEAN,
        published : BOOLEAN, complete : BOOLEAN, reviewOnly : BOOLEAN]
NewRun == [step |-> "new", operation |-> NoReservation, handed |-> NoReservation,
           output |-> {}, whole |-> TRUE, answered |-> FALSE,
           published |-> FALSE, complete |-> FALSE, reviewOnly |-> FALSE]

\* past: what was selected at each version before this one.
States == {"absent", "pending", "promoted", "dismissed"}
\* settled: distinct new work or a new commitment, which nothing tells apart.
Dispositions == {"unresolved", "settled", "evidence-of-historical"}
Item == [state : States, extraction : Nat, reservation : Reservation, reviewOnly : BOOLEAN,
         selected : Nat, latest : Nat, reviewed : Nat, past : Seq(Nat),
         disposition : Dispositions \cup {"none"}, into : Keys \cup {NoKey}, task : Nat]
NoItem == [state |-> "absent", extraction |-> 1, reservation |-> NoReservation,
           reviewOnly |-> FALSE, selected |-> 1, latest |-> 1, reviewed |-> 1, past |-> << >>,
           disposition |-> "none", into |-> NoKey, task |-> 0]

\* shown: the revision selected at the version the decision was taken from.
Task == [key : Keys, revision : Nat, shown : Nat, automatic : BOOLEAN,
         status : {"open", "completed", "trashed", "gone"}]

Turn == [run : Runs \cup {NoRun}, left : SUBSET Entries]
NoTurn == [run |-> NoRun, left |-> {}]

Quiet == turn = NoTurn
Fault == faults < MaxFaults /\ faults' = faults + 1
Command == /\ Quiet
           /\ commands < MaxCommands /\ commands' = commands + 1
Held(k) == items[k].state # "absent"

-----------------------------------------------------------------------------
(* The authorization: tasks/promotion-authorization.ts                     *)

\* recordRelease, by the operator.
RecordRelease ==
  /\ Quiet /\ ~policy.released
  /\ policy' = [policy EXCEPT !.released = TRUE]
  /\ UNCHANGED <<runs, items, head, tasks, turn, commands, faults>>

\* enable: refused before the release, nothing to do when enabled.
Enable ==
  /\ Quiet /\ policy.released /\ policy.enabledAt = 0
  /\ policy.enables < MaxEnables
  /\ policy' = [policy EXCEPT !.enabledAt = policy.enables + 1, !.enables = @ + 1]
  /\ UNCHANGED <<runs, items, head, tasks, turn, commands, faults>>

Disable ==
  /\ Quiet /\ policy.enabledAt # 0
  /\ policy' = [policy EXCEPT !.enabledAt = 0]
  /\ UNCHANGED <<runs, items, head, tasks, turn, commands, faults>>

SetPreference ==
  /\ Command
  /\ policy' = [policy EXCEPT !.prefers = ~@]
  /\ UNCHANGED <<runs, items, head, tasks, turn, faults>>

\* authorizationAuthorizes of the facts in force.
Authorized == policy.released /\ policy.enabledAt # 0 /\ policy.prefers

-----------------------------------------------------------------------------
(* The Runs                                                                *)

\* retainedFirstReservation: another Run of the lineage holds the first claim.
LineageTaken(r) == \E q \in Runs \ {r} : runs[q].operation.claim = "first"

\* reserveLineage.
Reserve(r) ==
  [claim |-> IF Authorized /\ ~LineageTaken(r) THEN "first" ELSE "review-only",
   at |-> policy.enabledAt]

\* reconcile: every attempt takes a reservation; reserveOperation keeps the first.
Attempt(r, step) ==
  LET taken == Reserve(r)
      operation == IF runs[r].operation = NoReservation THEN taken ELSE runs[r].operation IN
  runs' = [runs EXCEPT ![r].step = step, ![r].handed = taken, ![r].operation = operation]

\* Another Run of the same Transcript is a redo, possible once it is approved.
StartRun(r) ==
  /\ Quiet /\ runs[r].step = "new"
  /\ \A q \in Runs \ {r} :
       TranscriptOf[q] = TranscriptOf[r] => runs[q].step \in {"new", "approved"}
  /\ Attempt(r, "asked")
  /\ UNCHANGED <<policy, items, head, tasks, turn, commands, faults>>

\* Result bytes on disk are adopted without the model, in the same turn.
Retry(r) ==
  /\ Quiet /\ runs[r].step = "failed"
  /\ \/ /\ runs[r].complete
        /\ runs' = [runs EXCEPT ![r].step = "done"]
        /\ UNCHANGED turn
     \/ /\ runs[r].answered
        /\ Attempt(r, "checked")
        /\ turn' = [run |-> r, left |-> {}]
     \/ /\ ~runs[r].answered /\ ~runs[r].complete
        /\ Attempt(r, "asked")
        /\ UNCHANGED turn
  /\ UNCHANGED <<policy, items, head, tasks, commands, faults>>

\* The owner's regeneration of the Action Items of a finished Run.
Regenerate(r) ==
  /\ Command /\ runs[r].step = "done"
  /\ Attempt(r, "asked")
  /\ UNCHANGED <<policy, items, head, tasks, turn, faults>>

Approve(r) ==
  /\ Quiet /\ runs[r].step = "done"
  /\ runs' = [runs EXCEPT ![r].step = "approved"]
  /\ UNCHANGED <<policy, items, head, tasks, turn, commands, faults>>

\* The model answers; an incomplete answer replaces no complete publication.
ModelAnswers(r, output, whole) ==
  /\ Quiet /\ runs[r].step = "asked"
  /\ whole \/ ~runs[r].complete
  /\ runs' = [runs EXCEPT ![r].step = "checked", ![r].output = output, ![r].whole = whole,
                          ![r].answered = ~runs[r].published]
  /\ turn' = [run |-> r, left |-> {}]
  /\ UNCHANGED <<policy, items, head, tasks, commands, faults>>

AtWork(r) == runs[r].step \in {"asked", "checked", "promoting"}

\* An attempt is over.  Result bytes stay where a retry adopts them.
Ended(r, step) ==
  IF runs[r].answered THEN [runs[r] EXCEPT !.step = step, !.handed = NoReservation]
  ELSE [runs[r] EXCEPT !.step = step, !.handed = NoReservation, !.output = {}, !.whole = TRUE]

\* The attempt fails; what it wrote stays.
StepFails(r) ==
  /\ Fault
  /\ AtWork(r) /\ (Quiet \/ turn.run = r)
  /\ runs' = [runs EXCEPT ![r] = Ended(r, "failed")]
  /\ turn' = NoTurn
  /\ UNCHANGED <<policy, items, head, tasks, commands>>

\* The process dies: attempts under way are taken up again.
Interrupted ==
  runs' = [r \in Runs |-> IF AtWork(r) THEN Ended(r, "failed") ELSE runs[r]]

Crash ==
  /\ Fault
  /\ Interrupted
  /\ turn' = NoTurn
  /\ UNCHANGED <<policy, items, head, tasks, commands>>

-----------------------------------------------------------------------------
(* Materialization                                                         *)

HeldBy(r) == {k \in Keys : k[1] = r /\ Held(k)}

\* nextRevision: a Run that holds nothing is on its first extraction.
NextRevision(r) ==
  LET highest == CHOOSE n \in {items[k].extraction : k \in HeldBy(r)} :
                   \A k \in HeldBy(r) : items[k].extraction <= n
      unseen == \E e \in runs[r].output : ~Held(<<r, e>>) IN
  IF HeldBy(r) = {} THEN 1 ELSE IF unseen THEN highest + 1 ELSE highest

\* actionItemProposal: what the selected revision of a proposal says.
Content(k) == <<Title[k[2]], items[k].selected>>

\* reconciliationCandidates: the same title from another Run of the Transcript.
Candidates(r, e) ==
  {k \in Keys : /\ Held(k) /\ k[1] # r
                /\ TranscriptOf[k[1]] = TranscriptOf[r]
                /\ Content(k) = <<Title[e], 1>>}

NewItem(r, e) ==
  [NoItem EXCEPT !.state = "pending", !.extraction = NextRevision(r),
                 !.reservation = runs[r].handed,
                 !.reviewOnly = runs[r].reviewOnly \/ ~runs[r].whole,
                 !.disposition = IF Candidates(r, e) = {} THEN "none" ELSE "unresolved"]

\* Mutant of Withheld: only the reservation counts.
WithheldNever(r) == FALSE

\* materializeUnderPolicy: another Run was the first to fill the queue.
Withheld(r) == head[TranscriptOf[r]] \notin {NoRun, r}

\* materialize: a key that is mapped keeps its record; then the promotions.
Materialize(r) ==
  /\ turn.run = r /\ runs[r].step = "checked"
  /\ items' = [k \in Keys |-> IF k[1] = r /\ k[2] \in runs[r].output /\ ~Held(k)
                              THEN NewItem(r, k[2]) ELSE items[k]]
  /\ head' = IF head[TranscriptOf[r]] = NoRun /\ runs[r].output # {}
             THEN [head EXCEPT ![TranscriptOf[r]] = r] ELSE head
  /\ turn' = [turn EXCEPT !.left = IF Withheld(r) THEN {} ELSE runs[r].output]
  /\ runs' = [runs EXCEPT ![r].step = "promoting"]
  /\ UNCHANGED <<policy, tasks, commands, faults>>

\* The manifest and the pointer: an incomplete revision is exposed, not done.
Publish(r) ==
  /\ turn.run = r /\ runs[r].step = "promoting" /\ turn.left = {}
  /\ runs' = [runs EXCEPT ![r] =
       [NewRun EXCEPT !.step = IF runs[r].whole THEN "done" ELSE "failed",
                      !.operation = runs[r].operation,
                      !.published = TRUE, !.complete = runs[r].whole,
                      !.reviewOnly = runs[r].reviewOnly \/ ~runs[r].whole]]
  /\ turn' = NoTurn
  /\ UNCHANGED <<policy, items, head, tasks, commands, faults>>

-----------------------------------------------------------------------------
(* Promotion                                                               *)

\* promotionRefusal.
Refused(k) ==
  \/ items[k].state = "dismissed"
  \/ items[k].into # NoKey
  \/ items[k].disposition = "unresolved"
  \/ items[k].reviewed < items[k].latest

\* findDuplicates: an open Task that says the same.
Duplicate(k) ==
  \E i \in DOMAIN tasks : /\ tasks[i].status = "open"
                          /\ <<Title[tasks[i].key[2]], tasks[i].revision>> = Content(k)

\* promotionEligibility.  The claim is checked against the observation of the
\* selected revision, which a correction does not have.
Eligible(k) ==
  /\ items[k].state = "pending" /\ ~Refused(k)
  /\ ~items[k].reviewOnly
  /\ items[k].reservation.claim = "first"
  /\ Authorized /\ policy.enabledAt = items[k].reservation.at
  /\ items[k].extraction = 1
  /\ k[2] \in Supported /\ items[k].selected = 1
  /\ ~Duplicate(k)

\* Mutant of Orphans: Tasks in Trash are not looked at.
OrphansNotTrashed(k) == {i \in DOMAIN tasks : tasks[i].key = k /\ tasks[i].status \in {"open", "completed"}}

\* The Tasks of an Action Item that are still there.
Orphans(k) == {i \in DOMAIN tasks : tasks[i].key = k /\ tasks[i].status # "gone"}

Version(k) == Len(items[k].past) + 1

\* stage: every change of a record advances its version.
Advanced(k) == [items[k] EXCEPT !.past = Append(@, items[k].selected)]

\* recordPromotion, stagePromotion.
Promoted(k, i) ==
  [items EXCEPT ![k] = [Advanced(k) EXCEPT !.state = "promoted", !.task = i]]

NewTask(k, shown, status, automatic) ==
  [key |-> k, revision |-> items[k].selected, shown |-> shown,
   automatic |-> automatic, status |-> status]

\* commitAcceptance: the decision that goes with the Task about to be appended.
AcceptedItems(k) == Promoted(k, Len(tasks) + 1)

\* promoteActionItem for a record that is not refused: adopt the Task an
\* interrupted promotion left behind, or accept a new one.  Two are a conflict.
Accept(k, shown, status, automatic) ==
  \/ \E i \in Orphans(k) :
       /\ Orphans(k) = {i}
       /\ items' = Promoted(k, i)
       /\ UNCHANGED tasks
  \/ /\ Orphans(k) = {} /\ Len(tasks) < MaxTasks
     /\ tasks' = Append(tasks, NewTask(k, shown, status, automatic))
     /\ items' = AcceptedItems(k)

\* promoteIfEligible, for one of the materialized records.
PromoteIfEligible(r, e) ==
  /\ turn.run = r /\ runs[r].step = "promoting" /\ e \in turn.left
  /\ IF Eligible(<<r, e>>)
     THEN Accept(<<r, e>>, 1, "open", TRUE)
     ELSE UNCHANGED <<items, tasks>>
  /\ turn' = [turn EXCEPT !.left = @ \ {e}]
  /\ UNCHANGED <<policy, runs, head, commands, faults>>

\* On per-record files the Task is written first; the process dies before the
\* Action Items are.
CrashInAcceptance(k, shown, status, automatic) ==
  /\ Fault /\ ~Bundled
  /\ Orphans(k) = {} /\ Len(tasks) < MaxTasks
  /\ tasks' = Append(tasks, NewTask(k, shown, status, automatic))
  /\ Interrupted
  /\ turn' = NoTurn
  /\ UNCHANGED <<policy, items, head>>

CrashInPromotion(r, e) ==
  /\ turn.run = r /\ runs[r].step = "promoting" /\ e \in turn.left
  /\ Eligible(<<r, e>>)
  /\ CrashInAcceptance(<<r, e>>, 1, "open", TRUE)
  /\ UNCHANGED commands

-----------------------------------------------------------------------------
(* The owner's commands: api/tasks.ts                                      *)

\* Mutant of Current: any version the record has had will do.
CurrentOnce(k, version) == version <= Version(k)

\* stage, promoteActionItem: a command may name no version (0) or the record's.
Current(k, version) == version \in {0, Version(k)}

ShownAt(k, version) ==
  IF version \in DOMAIN items[k].past THEN items[k].past[version] ELSE items[k].selected

\* POST promote, decided from any version the owner may have read.  A promoted
\* record answers with the Task it has.  A record of an incomplete publication
\* needs an acknowledgement, which the owner may give.
Promotable(k, version) ==
  items[k].state = "pending" /\ ~Refused(k) /\ Current(k, version)

OwnerPromotes(k, version, status) ==
  /\ Command
  /\ Promotable(k, version)
  /\ Accept(k, ShownAt(k, version), status, FALSE)
  /\ UNCHANGED <<policy, runs, head, turn, faults>>

CrashInOwnerPromotion(k, version, status) ==
  /\ Command
  /\ Promotable(k, version)
  /\ CrashInAcceptance(k, ShownAt(k, version), status, FALSE)

\* transition: one command on a record, with the version advanced.
Decide(k, record) ==
  /\ Command
  /\ items' = [items EXCEPT ![k] = record]
  /\ UNCHANGED <<policy, runs, head, tasks, turn, faults>>

\* decide: promoted is history.
Dismissable(k) == items[k].state = "pending"

Dismiss(k) ==
  /\ Dismissable(k)
  /\ Decide(k, [Advanced(k) EXCEPT !.state = "dismissed"])

RestoreItem(k) ==
  /\ items[k].state = "dismissed"
  /\ Decide(k, [Advanced(k) EXCEPT !.state = "pending"])

CorrectProposal(k) ==
  /\ Held(k) /\ items[k].latest < MaxRevisions
  /\ Decide(k, [Advanced(k) EXCEPT !.latest = @ + 1])

SelectProposal(k, n) ==
  /\ Held(k) /\ n \in 1..items[k].latest
  /\ ~(items[k].selected = n /\ items[k].reviewed >= n)
  /\ Decide(k, [Advanced(k) EXCEPT !.selected = n, !.reviewed = items[k].latest])

\* Mutant of Attachable: the target may itself be evidence.
AttachableAnywhere(k, target) == target # k /\ Held(target)

\* reconcile: evidence is attached to another record that is not evidence.
Attachable(k, target) == target # k /\ Held(target) /\ items[target].into = NoKey

AttachEvidence(k, target) ==
  /\ Held(k) /\ Attachable(k, target)
  /\ items[k].into # target
  /\ Decide(k, [Advanced(k) EXCEPT !.disposition = "evidence-of-historical", !.into = target])

Reconcile(k, disposition) ==
  /\ Held(k) /\ items[k].disposition # disposition
  /\ Decide(k, [Advanced(k) EXCEPT !.disposition = disposition, !.into = NoKey])

\* complete, reopen, trash, restore and deleteForever of the Task.
TaskStatus(i, status) ==
  /\ Command /\ i \in DOMAIN tasks
  /\ tasks[i].status # status
  /\ tasks[i].status \in {"open", "completed"} \/ (tasks[i].status = "trashed" /\ status # "completed")
  /\ status = "gone" => tasks[i].status = "trashed"
  /\ tasks' = [tasks EXCEPT ![i].status = status]
  /\ UNCHANGED <<policy, runs, items, head, turn, faults>>

-----------------------------------------------------------------------------
Init ==
  /\ policy = [released |-> FALSE, enabledAt |-> 0, enables |-> 0, prefers |-> TRUE]
  /\ runs = [r \in Runs |-> NewRun]
  /\ items = [k \in Keys |-> NoItem]
  /\ head = [t \in Transcripts |-> NoRun]
  /\ tasks = << >>
  /\ turn = NoTurn
  /\ commands = 0
  /\ faults = 0

RunStep(r) ==
  \/ StartRun(r) \/ Retry(r) \/ Regenerate(r) \/ Approve(r)
  \/ \E output \in SUBSET Entries, whole \in BOOLEAN : ModelAnswers(r, output, whole)
  \/ Materialize(r) \/ Publish(r) \/ StepFails(r)
  \/ \E e \in Entries : PromoteIfEligible(r, e) \/ CrashInPromotion(r, e)

Review(k) ==
  \/ \E version \in 0..MaxCommands + 1, status \in {"open", "completed"} :
       OwnerPromotes(k, version, status) \/ CrashInOwnerPromotion(k, version, status)
  \/ Dismiss(k) \/ RestoreItem(k) \/ CorrectProposal(k)
  \/ \E n \in 1..MaxRevisions : SelectProposal(k, n)
  \/ \E disposition \in Dispositions \ {"evidence-of-historical"} : Reconcile(k, disposition)
  \/ \E target \in Keys : AttachEvidence(k, target)

Next ==
  \/ RecordRelease \/ Enable \/ Disable \/ SetPreference
  \/ \E r \in Runs : RunStep(r)
  \/ \E k \in Keys : Review(k)
  \/ \E i \in 1..MaxTasks, status \in {"open", "completed", "trashed", "gone"} :
       TaskStatus(i, status)
  \/ Crash

Spec == Init /\ [][Next]_vars

-----------------------------------------------------------------------------
(* Properties                                                              *)

\* Every variable holds a value of its type.
TypeOK ==
  /\ policy \in Policy
  /\ runs \in [Runs -> Run]
  /\ items \in [Keys -> Item]
  /\ head \in [Transcripts -> Runs \cup {NoRun}]
  /\ tasks \in Seq(Task) /\ Len(tasks) <= MaxTasks
  /\ turn \in Turn
  /\ commands \in 0..MaxCommands
  /\ faults \in 0..MaxFaults
=============================================================================
