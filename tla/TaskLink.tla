------------------------------ MODULE TaskLink ------------------------------
(***************************************************************************)
(* The External Task Link of one Task: TaskLinking (tasks/external-link.ts)*)
(* over WorkspaceTasks (tasks/tasks.ts), its routes (api/tasks.ts) and a   *)
(* provider that other people edit too.                                    *)
(*                                                                         *)
(* Every outward operation reads the Task and its link, awaits the provider*)
(* and then writes a link built from what it read before.  Only retry      *)
(* shares an operation already under way; all others overlap freely.       *)
(***************************************************************************)
EXTENDS Naturals, FiniteSets

CONSTANTS
  Slots,        \* bound: operations in flight at the same time
  Contents,     \* title, notes and due date of a Task, as one value
  MaxRecords,   \* bound on the records created at the provider
  MaxEdits,     \* bound on what the owner does to the Task and its link
  MaxOutside,   \* bound on what others do to the provider's record
  MaxFaults     \* bound on refused requests, lost answers and crashes

ASSUME TaskLinkAssumption ==
  /\ MaxRecords \in Nat /\ MaxEdits \in Nat /\ MaxOutside \in Nat /\ MaxFaults \in Nat
  /\ Contents # {}

VARIABLES
  task,       \* the canonical Task
  link,       \* its External Task Link
  ops,        \* the operations in flight
  retrying,   \* TaskLinking.pending: the slot of the retry under way, or none
  provider,   \* the provider's records
  made,       \* how many of them were ever created
  edits,      \* how much the owner has done
  outside,    \* how much others have done
  faults,     \* how much has gone wrong
  unlinked    \* history: the owner ended or replaced a link

vars == <<task, link, ops, retrying, provider, made, edits, outside, faults, unlinked>>

Ids == 1..MaxRecords
NoId == 0
Statuses == {"open", "completed"}
Projection == [status : Statuses, content : Contents]
States == {"null", "waiting", "synchronized", "failed", "missing", "changed-externally", "conflicted"}
Failures == {"none", "auth", "reconnected", "refused", "other"}

Task == [status : Statuses, content : Contents, trashed : BOOLEAN]

\* failure "reconnected": an authorization failure under another connection.
Link == [state : States, remote : Ids \cup {NoId}, base : Projection, external : Projection,
         uncertain : BOOLEAN, failure : Failures]

AnyContent == CHOOSE c \in Contents : TRUE
Blank == [status |-> "open", content |-> AnyContent]
NoLink == [state |-> "null", remote |-> NoId, base |-> Blank, external |-> Blank,
           uncertain |-> FALSE, failure |-> "none"]

Steps == {"idle", "read", "status", "content", "create", "complete", "drift", "conflict",
          "delete", "recover"}
Replies == {"wait", "ok", "auth", "refused", "other", "missing"}
Operation == [step : Steps, whole : BOOLEAN, task : Task, link : Link,
              reply : Replies, seen : Projection, id : Ids \cup {NoId}]

NoTask == [status |-> "open", content |-> AnyContent, trashed |-> FALSE]
Idle == [step |-> "idle", whole |-> FALSE, task |-> NoTask, link |-> NoLink,
         reply |-> "wait", seen |-> Blank, id |-> NoId]

\* An operation that has sent its request; whole: retry goes on after it.
Sent(step, whole, t, l) ==
  [Idle EXCEPT !.step = step, !.whole = whole, !.task = t, !.link = l, !.id = l.remote]

-----------------------------------------------------------------------------
(* What each operation does up to its first await, from the Task t and the *)
(* link l it reads: the operation left in flight                           *)

OwnerDecides(l) == l.state \in {"missing", "conflicted", "changed-externally"}

\* Mutant of NothingToPush: a conflict does not hold pushes back.
NothingToPushInConflict(l) == l.state = "null" \/ l.remote = NoId \/ l.state = "missing"

NothingToPush(l) == l.state = "null" \/ l.remote = NoId \/ OwnerDecides(l)

PushContent(t, l) ==
  IF NothingToPush(l) \/ l.base.content = t.content THEN Idle ELSE Sent("content", FALSE, t, l)

PushStatus(t, l, whole) ==
  IF ~NothingToPush(l) /\ l.base.status # t.status THEN Sent("status", whole, t, l)
  ELSE IF whole /\ l.state # "failed" THEN PushContent(t, l) ELSE Idle

Inspect(t, l, whole) ==
  IF l.remote = NoId \/ l.state \in {"null", "waiting"} \/ OwnerDecides(l) THEN Idle
  ELSE Sent("read", whole, t, l)

DeleteExternal(t, l) ==
  IF l.remote = NoId \/ l.state = "missing" THEN Idle ELSE Sent("delete", FALSE, t, l)

\* Mutant of MayCreate: the mark of an unanswered creation is not consulted.
MayCreateAgain(l) == l.remote = NoId

\* link() creates only for a Task without a record and without an unanswered
\* creation.
MayCreate(l) == l.remote = NoId /\ ~l.uncertain

Waiting(t) == [NoLink EXCEPT !.state = "waiting", !.uncertain = TRUE, !.base.content = t.content]

BeginLink(t, l) == IF MayCreate(l) THEN Sent("create", FALSE, t, Waiting(t)) ELSE Idle
LinkAtBegin(t, l) ==
  IF MayCreate(l) THEN Waiting(t)
  ELSE IF l.uncertain THEN [l EXCEPT !.state = "failed", !.failure = "other"]
  ELSE l

Free(w) == ops[w].step = "idle"
Start(w, op) == ops' = [ops EXCEPT ![w] = op]

-----------------------------------------------------------------------------
(* Owner requests                                                          *)

Owner(w) == Free(w) /\ edits < MaxEdits /\ edits' = edits + 1

\* Complete or reopen: the local commit, then the push.
SetStatus(w, s) ==
  /\ Owner(w)
  /\ task' = [task EXCEPT !.status = s]
  /\ Start(w, PushStatus(task', link, FALSE))
  /\ UNCHANGED <<link, retrying, provider, made, outside, faults, unlinked>>

Edit(w, c) ==
  /\ Owner(w)
  /\ task' = [task EXCEPT !.content = c]
  /\ Start(w, PushContent(task', link))
  /\ UNCHANGED <<link, retrying, provider, made, outside, faults, unlinked>>

CreateLink(w) ==
  /\ Owner(w)
  /\ link' = LinkAtBegin(task, link)
  /\ Start(w, BeginLink(task, link))
  /\ UNCHANGED <<task, retrying, provider, made, outside, faults, unlinked>>

Synchronize(w) ==
  /\ Owner(w)
  /\ Start(w, Inspect(task, link, FALSE))
  /\ UNCHANGED <<task, link, retrying, provider, made, outside, faults, unlinked>>

\* Only a missing link is recreated: it is emptied and then linked anew.
Recreate(w) ==
  /\ Owner(w)
  /\ link.state = "missing"
  /\ LET l == [link EXCEPT !.state = "waiting", !.remote = NoId, !.failure = "none",
                           !.uncertain = FALSE] IN
       /\ link' = LinkAtBegin(task, l)
       /\ Start(w, BeginLink(task, l))
  /\ unlinked' = TRUE
  /\ UNCHANGED <<task, retrying, provider, made, outside, faults>>

RemoveLink(w) ==
  /\ Owner(w)
  /\ link' = NoLink
  /\ unlinked' = TRUE
  /\ UNCHANGED <<task, ops, retrying, provider, made, outside, faults>>

\* Trash, leaving the external record behind or deleting it.
TrashPreserve(w) ==
  /\ Owner(w)
  /\ task' = [task EXCEPT !.trashed = TRUE]
  /\ link' = NoLink
  /\ unlinked' = TRUE
  /\ UNCHANGED <<ops, retrying, provider, made, outside, faults>>

TrashDelete(w) ==
  /\ Owner(w)
  /\ task' = [task EXCEPT !.trashed = TRUE]
  /\ LET op == DeleteExternal(task', link) IN
       /\ Start(w, op)
       /\ link' = IF op = Idle THEN NoLink ELSE link
  /\ unlinked' = TRUE
  /\ UNCHANGED <<retrying, provider, made, outside, faults>>

Restore(w) ==
  /\ Owner(w) /\ task.trashed
  /\ task' = [task EXCEPT !.trashed = FALSE]
  /\ UNCHANGED <<link, ops, retrying, provider, made, outside, faults, unlinked>>

\* Accepting the outside edit is one local write, restoring the Workspace's
\* version an outward one.
AcceptDrift(w) ==
  /\ Owner(w) /\ link.state = "changed-externally"
  /\ task' = [task EXCEPT !.content = link.external.content]
  /\ link' = [link EXCEPT !.state = "synchronized", !.base.content = link.external.content,
                          !.external = Blank, !.failure = "none"]
  /\ UNCHANGED <<ops, retrying, provider, made, outside, faults, unlinked>>

RestoreDrift(w) ==
  /\ Owner(w) /\ link.state = "changed-externally"
  /\ Start(w, Sent("drift", FALSE, task, link))
  /\ UNCHANGED <<task, link, retrying, provider, made, outside, faults, unlinked>>

AcceptConflict(w) ==
  /\ Owner(w) /\ link.state = "conflicted"
  /\ task' = [task EXCEPT !.status = link.external.status]
  /\ link' = [link EXCEPT !.state = "synchronized", !.base.status = link.external.status,
                          !.external = Blank, !.failure = "none"]
  /\ UNCHANGED <<ops, retrying, provider, made, outside, faults, unlinked>>

RestoreConflict(w) ==
  /\ Owner(w) /\ link.state = "conflicted"
  /\ Start(w, Sent("conflict", FALSE, task, link))
  /\ UNCHANGED <<task, link, retrying, provider, made, outside, faults, unlinked>>

\* The owner names the record an unanswered creation left behind.
RecoverCreation(w, i) ==
  /\ Owner(w) /\ link.uncertain
  /\ Start(w, [Sent("recover", FALSE, task, link) EXCEPT !.id = i])
  /\ UNCHANGED <<task, link, retrying, provider, made, outside, faults, unlinked>>

-----------------------------------------------------------------------------
(* retry: every five minutes, on app start, on request                     *)

\* retryOne up to its first await: a trashed Task's record is deleted, a link
\* without record is created, any other is read.
RetryOp(t, l) ==
  IF t.trashed THEN DeleteExternal(t, l)
  ELSE IF l.state = "null" \/ OwnerDecides(l) THEN Idle
  ELSE IF l.remote = NoId THEN BeginLink(t, l)
  ELSE Inspect(t, l, TRUE)

RetryLink(t, l) ==
  IF t.trashed THEN (IF DeleteExternal(t, l) = Idle THEN NoLink ELSE l)
  ELSE IF l.state # "null" /\ ~OwnerDecides(l) /\ l.remote = NoId THEN LinkAtBegin(t, l)
  ELSE l

\* Concurrent triggers share the retry under way.
RetryOne(w) ==
  /\ Free(w) /\ retrying = "none"
  /\ Start(w, RetryOp(task, link))
  /\ link' = RetryLink(task, link)
  /\ retrying' = IF RetryOp(task, link) = Idle THEN "none" ELSE w
  /\ UNCHANGED <<task, provider, made, outside, faults, unlinked>>

\* The refresh passes over links whose authorization failed, until the owner
\* reconnects.
Refresh(w) ==
  /\ link.state # "null" /\ link.failure # "auth"
  /\ RetryOne(w)
  /\ UNCHANGED edits

OwnerRetry(w) == Owner(w) /\ RetryOne(w)

Reconnect ==
  /\ link.failure = "auth"
  /\ link' = [link EXCEPT !.failure = "reconnected"]
  /\ UNCHANGED <<task, ops, retrying, provider, made, edits, outside, faults, unlinked>>

-----------------------------------------------------------------------------
(* The provider                                                            *)

\* A request the provider has not answered yet.
Open(w) == ~Free(w) /\ ops[w].reply = "wait"
Answer(w, reply) == ops' = [ops EXCEPT ![w].reply = reply]

\* The request never reaches the record: refused, or lost on the way.
RequestFails(w) ==
  /\ Open(w)
  /\ faults < MaxFaults /\ faults' = faults + 1
  /\ \E reply \in {"auth", "refused", "other"} : Answer(w, reply)
  /\ UNCHANGED <<task, link, retrying, provider, made, edits, outside, unlinked>>

\* The request takes effect; its answer may still get lost.
Acknowledges(reply) ==
  \/ reply = "ok" /\ UNCHANGED faults
  \/ reply = "other" /\ faults < MaxFaults /\ faults' = faults + 1

There(i) == i \in Ids /\ provider[i].there

ProviderCreates(w) ==
  /\ Open(w) /\ ops[w].step = "create"
  /\ made < MaxRecords
  /\ made' = made + 1
  /\ provider' = [provider EXCEPT ![made + 1] =
       [there |-> TRUE, status |-> "open", content |-> ops[w].task.content]]
  /\ \E reply \in {"ok", "other"} :
       /\ ops' = [ops EXCEPT ![w].reply = reply, ![w].id = made + 1]
       /\ Acknowledges(reply)
  /\ UNCHANGED <<task, link, retrying, edits, outside, unlinked>>

ProviderUpdates(w) ==
  /\ Open(w) /\ ops[w].step \in {"status", "complete", "conflict", "content", "drift", "delete"}
  /\ There(ops[w].id)
  /\ provider' =
       IF ops[w].step \in {"status", "complete", "conflict"}
       THEN [provider EXCEPT ![ops[w].id].status = ops[w].task.status]
       ELSE IF ops[w].step = "delete" THEN [provider EXCEPT ![ops[w].id].there = FALSE]
       ELSE [provider EXCEPT ![ops[w].id].content = ops[w].task.content]
  /\ \E reply \in {"ok", "other"} : Answer(w, reply) /\ Acknowledges(reply)
  /\ UNCHANGED <<task, link, retrying, made, edits, outside, unlinked>>

ProviderReads(w) ==
  /\ Open(w) /\ ops[w].step \in {"read", "recover"}
  /\ There(ops[w].id)
  /\ LET r == provider[ops[w].id] IN
       ops' = [ops EXCEPT ![w].reply = "ok",
                          ![w].seen = [status |-> r.status, content |-> r.content]]
  /\ UNCHANGED <<task, link, retrying, provider, made, edits, outside, faults, unlinked>>

ProviderMisses(w) ==
  /\ Open(w) /\ ops[w].step # "create" /\ ~There(ops[w].id)
  /\ Answer(w, "missing")
  /\ UNCHANGED <<task, link, retrying, provider, made, edits, outside, faults, unlinked>>

\* Someone edits, completes, reopens or deletes the record at the provider.
OutsideEdit(i) ==
  /\ There(i) /\ outside < MaxOutside
  /\ outside' = outside + 1
  /\ \E there \in BOOLEAN, s \in Statuses, c \in Contents :
       provider' = [provider EXCEPT ![i] = [there |-> there, status |-> s, content |-> c]]
  /\ provider' # provider
  /\ UNCHANGED <<task, link, ops, retrying, made, edits, faults, unlinked>>

-----------------------------------------------------------------------------
(* After the await                                                         *)

\* refreshExternalLink refuses a Task without a link; recordExternalLink one
\* whose link may name a live record.
Refreshed(l) == IF link.state = "null" THEN link ELSE l
Recordable ==
  ~(link.state = "synchronized" \/ (link.state = "failed" /\ link.remote # NoId))
Recorded(l) == IF Recordable THEN l ELSE link

\* What an operation's failure makes of the link it read.
FailedLink(op) ==
  IF op.reply = "missing" THEN [op.link EXCEPT !.state = "missing", !.failure = "other"]
  ELSE [op.link EXCEPT !.state = "failed", !.failure = op.reply]

\* Mutant of Ended: the retry stays pending after its end.
EndedPending(w) == Start(w, Idle) /\ UNCHANGED retrying

Ended(w) ==
  /\ Start(w, Idle)
  /\ retrying' = IF retrying = w THEN "none" ELSE retrying

\* The operation goes on with op, or ends.
Continue(w, op) ==
  /\ Start(w, op)
  /\ retrying' = IF op = Idle /\ retrying = w THEN "none" ELSE retrying

Answered(w, step) == ops[w].step = step /\ ops[w].reply # "wait"

RemoteMoved(op) == op.seen.status # op.link.base.status
LocalMoved(op) == op.task.status # op.link.base.status

\* What a successful read makes of the link the operation started from.
ReadLink(op) ==
  LET l == op.link IN
  IF RemoteMoved(op) /\ LocalMoved(op)
  THEN [l EXCEPT !.state = "conflicted", !.external = op.seen, !.failure = "none"]
  ELSE IF RemoteMoved(op)
  THEN [l EXCEPT !.state = "synchronized", !.base.status = op.seen.status,
                 !.external = Blank, !.failure = "none"]
  ELSE IF LocalMoved(op) THEN link
  ELSE IF op.seen.content # l.base.content
  THEN [l EXCEPT !.state = "changed-externally", !.external = op.seen, !.failure = "none"]
  ELSE IF l.failure = "none" THEN link
  ELSE [l EXCEPT !.state = "synchronized", !.base.status = op.task.status,
                 !.external = Blank, !.failure = "none"]

\* inspect after its read: an outside completion or reopening is applied, and a
\* whole retry goes on to the pushes with what it then finds.
AfterRead(w) ==
  /\ Answered(w, "read")
  /\ LET op == ops[w] IN
       IF op.reply = "ok"
       THEN /\ task' = IF RemoteMoved(op) /\ ~LocalMoved(op)
                       THEN [task EXCEPT !.status = op.seen.status] ELSE task
            /\ link' = Refreshed(ReadLink(op))
            /\ Continue(w, IF op.whole /\ link.state # "null" /\ ~OwnerDecides(link')
                           THEN PushStatus(task', link', TRUE) ELSE Idle)
       ELSE /\ link' = Refreshed(FailedLink(op))
            /\ Ended(w)
            /\ UNCHANGED task
  /\ UNCHANGED <<provider, made, edits, outside, faults, unlinked>>

\* pushStatus after its write; a whole retry goes on to the content.
AfterStatus(w) ==
  /\ Answered(w, "status")
  /\ LET op == ops[w] IN
       IF op.reply = "ok"
       THEN /\ link' = Refreshed([op.link EXCEPT !.state = "synchronized",
                                    !.base.status = op.task.status, !.failure = "none"])
            /\ Continue(w, IF op.whole THEN PushContent(task, link') ELSE Idle)
       ELSE /\ link' = Refreshed(FailedLink(op))
            /\ Ended(w)
  /\ UNCHANGED <<task, provider, made, edits, outside, faults, unlinked>>

AfterContent(w) ==
  /\ Answered(w, "content")
  /\ LET op == ops[w] IN
       link' = Refreshed(IF op.reply = "ok"
                         THEN [op.link EXCEPT !.state = "synchronized", !.failure = "none",
                                 !.base.content = op.task.content, !.external = Blank]
                         ELSE FailedLink(op))
  /\ Ended(w)
  /\ UNCHANGED <<task, provider, made, edits, outside, faults, unlinked>>

\* resolveDrift and resolveConflict with the Workspace's version: a failure
\* leaves the link as the owner found it.
AfterResolve(w) ==
  /\ Answered(w, "drift") \/ Answered(w, "conflict")
  /\ LET op == ops[w] IN
       link' = Refreshed(
         IF op.reply # "ok"
         THEN [op.link EXCEPT !.failure = IF op.reply = "missing" THEN "other" ELSE op.reply]
         ELSE IF op.step = "drift"
         THEN [op.link EXCEPT !.state = "synchronized", !.base.content = op.task.content,
                              !.external = Blank, !.failure = "none"]
         ELSE [op.link EXCEPT !.state = "synchronized", !.base.status = op.task.status,
                              !.external = Blank, !.failure = "none"])
  /\ Ended(w)
  /\ UNCHANGED <<task, provider, made, edits, outside, faults, unlinked>>

\* The link a creation leaves: its record, known open.
CreatedLink(op) ==
  [NoLink EXCEPT !.state = "synchronized", !.remote = op.id, !.base.content = op.task.content]

\* link() after the creation: the identity is recorded before a completed
\* Task is completed at the provider too.  A creation that failed otherwise
\* than by a plain refusal stays uncertain.
AfterCreate(w) ==
  /\ Answered(w, "create")
  /\ LET op == ops[w] IN
       IF op.reply = "ok"
       THEN /\ link' = Recorded(CreatedLink(op))
            /\ IF Recordable /\ op.task.status = "completed"
               THEN Continue(w, Sent("complete", FALSE, op.task, CreatedLink(op)))
               ELSE Ended(w)
       ELSE /\ link' = Recorded([Waiting(op.task) EXCEPT !.state = "failed", !.failure = op.reply,
                                   !.uncertain = op.reply = "other"])
            /\ Ended(w)
  /\ UNCHANGED <<task, provider, made, edits, outside, faults, unlinked>>

AfterComplete(w) ==
  /\ Answered(w, "complete")
  /\ LET op == ops[w] IN
       link' = Refreshed(IF op.reply = "ok" THEN [op.link EXCEPT !.base.status = "completed"]
                         ELSE [op.link EXCEPT !.state = "failed",
                                 !.failure = IF op.reply = "missing" THEN "other" ELSE op.reply])
  /\ Ended(w)
  /\ UNCHANGED <<task, provider, made, edits, outside, faults, unlinked>>

AfterDelete(w) ==
  /\ Answered(w, "delete")
  /\ LET op == ops[w] IN
       link' = IF op.reply \in {"ok", "missing"} THEN NoLink
               ELSE Refreshed([op.link EXCEPT !.state = "failed", !.failure = op.reply])
  /\ Ended(w)
  /\ UNCHANGED <<task, provider, made, edits, outside, faults, unlinked>>

\* recoverCreation after its read: the record is adopted and reconciled.
AfterRecover(w) ==
  /\ Answered(w, "recover")
  /\ LET op == ops[w]
         l == [op.link EXCEPT !.state = "synchronized", !.remote = op.id,
                              !.uncertain = FALSE, !.failure = "none"] IN
       IF op.reply = "ok" /\ Recordable
       THEN IF retrying = "none"
            THEN /\ link' = RetryLink(task, l)
                 /\ Start(w, RetryOp(task, l))
                 /\ retrying' = IF RetryOp(task, l) = Idle THEN "none" ELSE w
            ELSE link' = l /\ Ended(w)
       ELSE UNCHANGED link /\ Ended(w)
  /\ UNCHANGED <<task, provider, made, edits, outside, faults, unlinked>>

\* The process dies and comes back: the operations in flight are gone.
Crash ==
  /\ faults < MaxFaults /\ faults' = faults + 1
  /\ ops' = [w \in Slots |-> Idle]
  /\ retrying' = "none"
  /\ UNCHANGED <<task, link, provider, made, edits, outside, unlinked>>

-----------------------------------------------------------------------------
Init ==
  /\ task = NoTask
  /\ link = NoLink
  /\ ops = [w \in Slots |-> Idle]
  /\ retrying = "none"
  /\ provider = [i \in Ids |-> [there |-> FALSE, status |-> "open", content |-> AnyContent]]
  /\ made = 0 /\ edits = 0 /\ outside = 0 /\ faults = 0
  /\ unlinked = FALSE

OwnerActs(w) ==
  \/ \E s \in Statuses : SetStatus(w, s)
  \/ \E c \in Contents : Edit(w, c)
  \/ CreateLink(w) \/ Synchronize(w) \/ Recreate(w) \/ RemoveLink(w)
  \/ TrashPreserve(w) \/ TrashDelete(w) \/ Restore(w)
  \/ AcceptDrift(w) \/ RestoreDrift(w) \/ AcceptConflict(w) \/ RestoreConflict(w)
  \/ OwnerRetry(w) \/ \E i \in Ids : RecoverCreation(w, i)

ProviderActs(w) ==
  ProviderCreates(w) \/ ProviderUpdates(w) \/ ProviderReads(w) \/ ProviderMisses(w)

Resumes(w) ==
  \/ AfterRead(w) \/ AfterStatus(w) \/ AfterContent(w) \/ AfterResolve(w)
  \/ AfterCreate(w) \/ AfterComplete(w) \/ AfterDelete(w) \/ AfterRecover(w)

Next ==
  \/ \E w \in Slots : OwnerActs(w) \/ Refresh(w) \/ ProviderActs(w) \/ RequestFails(w) \/ Resumes(w)
  \/ \E i \in Ids : OutsideEdit(i)
  \/ Reconnect
  \/ Crash

Spec == Init /\ [][Next]_vars

\* The refresh runs every five minutes; a request is answered; an answered
\* await resumes.
Fairness ==
  /\ WF_vars(\E w \in Slots : Refresh(w))
  /\ \A w \in Slots : WF_vars(ProviderActs(w)) /\ WF_vars(Resumes(w))

FairSpec == Spec /\ Fairness

-----------------------------------------------------------------------------
(* Properties                                                              *)

\* Every variable holds a value of its type.
TypeOK ==
  /\ task \in Task
  /\ link \in Link
  /\ ops \in [Slots -> Operation]
  /\ retrying \in Slots \cup {"none"}
  /\ provider \in [Ids -> [there : BOOLEAN, status : Statuses, content : Contents]]
  /\ made \in 0..MaxRecords
  /\ edits \in 0..MaxEdits /\ outside \in 0..MaxOutside /\ faults \in 0..MaxFaults
  /\ unlinked \in BOOLEAN

\* One Task has one record: until the owner ends or replaces the link, at most
\* one record is created, whatever answers are lost, wherever the process dies
\* and however many links, retries and refreshes run at once.
CreateOnce == ~unlinked => made <= 1

Agrees ==
  /\ link.state = "synchronized" /\ There(link.remote)
  /\ LET r == provider[link.remote] IN
       /\ link.base = [status |-> r.status, content |-> r.content]
       /\ task.status = r.status /\ task.content = r.content

\* What only the owner can settle: a missing record, a drift or conflict, a
\* creation nobody answered, a refused credential.
OwnersTurn ==
  \/ link.failure = "auth"
  \/ ~task.trashed /\ (OwnerDecides(link) \/ link.uncertain)

\* Once the owner and others stop and faults cease, the refresh brings Task,
\* baseline and record into agreement, or leaves the link to the owner; a
\* trashed Task loses its link.
Converges ==
  <>[](link.state = "null" \/ OwnersTurn \/ (~task.trashed /\ Agrees))

\* The provider has accepted the Workspace's side of a conflict.
Settling ==
  \E w \in Slots : ops[w].step = "conflict" /\ ops[w].reply = "ok" /\ ops'[w].step = "idle"

\* resolveConflict: "the link stays conflicted until the chosen operation
\* succeeds"; no other outward write or read under way ends it.
ConflictStands == [][(link.state = "conflicted" /\ edits' = edits /\ ~task.trashed)
                     => link'.state = "conflicted" \/ Settling]_vars

\* Operation w resumes, having read the link before it was in conflict.
ReadEarlier(w) == ops[w].reply # "wait" /\ ops'[w] # ops[w] /\ ops[w].link.state # "conflicted"

\* The owner trashed the Task with its record while the link was in conflict.
Deleting(w) == ops[w].step = "delete" /\ ops[w].reply # "wait" /\ ops'[w] # ops[w]

\* What holds of a conflict however many operations overlap: none that found the
\* conflict when it read the link ends it, but for the resolution the provider
\* accepted and the deletion the owner asked for.
ReadConflictStands ==
  [][(link.state = "conflicted" /\ edits' = edits /\ ~task.trashed)
     => \/ link'.state = "conflicted" \/ Settling
        \/ \E w \in Slots : ReadEarlier(w) \/ Deleting(w)]_vars
=============================================================================
