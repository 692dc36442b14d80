----------------------------- MODULE TaskProofs -----------------------------
(***************************************************************************)
(* Proofs about Tasks.                                                      *)
(*                                                                          *)
(* First their External Task Links (TaskLink), for any number of operations *)
(* in flight, records, edits and faults.  That one Task gets one record is  *)
(* not inductive by itself: OnceInv adds that a link free to create means   *)
(* that no record exists and that nobody is creating one.  ReadInv says     *)
(* what an operation that found a conflict may be in flight for: nothing    *)
(* but its resolution or a deletion, so that no other such answer ends it.  *)
(*                                                                          *)
(* Then the promotion of Action Items (TaskPromotion, as P), for any Runs,  *)
(* Transcripts and entries and any number of commands and faults: one Task  *)
(* per Action Item, acceptance of what was reviewed, no circle of evidence  *)
(* and one automated Run per Transcript (AcceptedTasks).  The constants     *)
(* satisfy P!PromotionConstants, which TaskPromotion assumes of them.       *)
(***************************************************************************)
EXTENDS TaskLink, AcceptedTasks, Sequences, TLAPS

-----------------------------------------------------------------------------
(* One record for one Task                                                 *)

Creating(w) == ops[w].step = "create"

\* What an operation in flight may be, when m records were created so far: a
\* creation that made none has not been answered with one, and any other has a
\* record to act on.
OpFits(op, m) ==
  /\ op.step # "delete"
  /\ op.step = "create" => /\ op.reply \notin {"ok", "other"} => m = 0
                           /\ op.reply = "ok" => op.id # NoId
  /\ op.step = "recover" => op.id # NoId
  /\ op.step \notin {"idle", "create", "recover"} => op.link.remote # NoId

\* A link that waits for the owner's decision names the record it is about.
NamesWhatDecides == OwnerDecides(link) => link.remote # NoId

\* As long as the owner ended no link: a link is free to create only while no
\* record exists and nobody is creating one, and never two create at once.
OnceInv ==
  ~unlinked =>
    /\ ~task.trashed
    /\ made <= 1
    /\ NamesWhatDecides
    /\ MayCreate(link) => made = 0 /\ \A w \in Slots : ~Creating(w)
    /\ \A w \in Slots : OpFits(ops[w], made)
    /\ \A v, w \in Slots : Creating(v) /\ Creating(w) => v = w

-----------------------------------------------------------------------------
(* What the operators return                                               *)

LEMMA BlankOk == AnyContent \in Contents /\ Blank \in Projection /\ NoTask \in Task
<1>1. AnyContent \in Contents
  BY TaskLinkAssumption DEF AnyContent
<1> QED
  BY <1>1 DEF Blank, Projection, NoTask, Task, Statuses

LEMMA NoLinkOk ==
  NoLink \in Link /\ NoLink.remote = NoId /\ ~NoLink.uncertain /\ NoLink.state = "null"
BY BlankOk DEF NoLink, Link, States, Failures

LEMMA IdleOk ==
  Idle \in Operation /\ Idle.step = "idle" /\ Idle.link = NoLink /\ Idle.reply = "wait"
BY BlankOk, NoLinkOk DEF Idle, Operation, Steps, Replies

\* A request of this step, just sent from what t and l held.
Request(op, step, t, l) ==
  /\ op \in Operation
  /\ op.step = step /\ op.link = l /\ op.id = l.remote /\ op.task = t /\ op.reply = "wait"

LEMMA SentOk ==
  ASSUME NEW step \in Steps, NEW whole \in BOOLEAN, NEW t \in Task, NEW l \in Link
  PROVE  Request(Sent(step, whole, t, l), step, t, l)
<1>1. l.remote \in Ids \cup {NoId}
  BY DEF Link
<1>2. Sent(step, whole, t, l) \in Operation
  BY <1>1, IdleOk DEF Sent, Operation
<1> QED
  BY <1>2, IdleOk DEF Sent, Operation, Request

LEMMA SentFrom ==
  ASSUME NEW t \in Task, NEW l \in Link
  PROVE  \A step \in Steps : /\ Request(Sent(step, TRUE, t, l), step, t, l)
                             /\ Request(Sent(step, FALSE, t, l), step, t, l)
<1> TAKE step \in Steps
<1>1. TRUE \in BOOLEAN /\ FALSE \in BOOLEAN
  OBVIOUS
<1> QED
  BY <1>1, SentOk, Zenon

LEMMA StepsOk ==
  /\ "content" \in Steps /\ "status" \in Steps /\ "read" \in Steps /\ "delete" \in Steps
  /\ "create" \in Steps /\ "complete" \in Steps /\ "drift" \in Steps /\ "conflict" \in Steps
  /\ "recover" \in Steps /\ "idle" \in Steps
BY DEF Steps

\* What an operation that ends, or has sent its request, is made of.
Begun(op, steps, l) ==
  /\ op \in Operation
  /\ \/ op = Idle
     \/ op.step \in steps /\ op.link = l /\ op.id = l.remote /\ op.reply = "wait" /\ l.remote # NoId

LEMMA PushContentOk ==
  ASSUME NEW t \in Task, NEW l \in Link
  PROVE  /\ Begun(PushContent(t, l), {"content"}, l)
         /\ OwnerDecides(l) => PushContent(t, l) = Idle
<1>1. Request(Sent("content", FALSE, t, l), "content", t, l)
  BY SentFrom, StepsOk, Zenon
<1> QED
  BY <1>1, IdleOk DEF PushContent, NothingToPush, Begun, Request

LEMMA PushStatusOk ==
  ASSUME NEW t \in Task, NEW l \in Link, NEW whole \in BOOLEAN
  PROVE  /\ Begun(PushStatus(t, l, whole), {"status", "content"}, l)
         /\ OwnerDecides(l) => PushStatus(t, l, whole) = Idle
<1>1. Request(Sent("status", whole, t, l), "status", t, l)
  BY SentOk, StepsOk, Zenon
<1> QED
  BY <1>1, PushContentOk, IdleOk DEF PushStatus, NothingToPush, Begun, Request

LEMMA InspectOk ==
  ASSUME NEW t \in Task, NEW l \in Link, NEW whole \in BOOLEAN
  PROVE  /\ Begun(Inspect(t, l, whole), {"read"}, l)
         /\ OwnerDecides(l) => Inspect(t, l, whole) = Idle
<1>1. Request(Sent("read", whole, t, l), "read", t, l)
  BY SentOk, StepsOk, Zenon
<1> QED
  BY <1>1, IdleOk DEF Inspect, Begun, Request

LEMMA DeleteOk ==
  ASSUME NEW t \in Task, NEW l \in Link
  PROVE  Begun(DeleteExternal(t, l), {"delete"}, l)
<1>1. Request(Sent("delete", FALSE, t, l), "delete", t, l)
  BY SentFrom, StepsOk, Zenon
<1> QED
  BY <1>1, IdleOk DEF DeleteExternal, Begun, Request

LEMMA WaitingOk ==
  ASSUME NEW t \in Task
  PROVE  /\ Waiting(t) \in Link /\ Waiting(t).remote = NoId /\ Waiting(t).uncertain
         /\ Waiting(t).state = "waiting"
<1>1. t.content \in Contents
  BY DEF Task
<1>2. Waiting(t) \in Link
  BY <1>1, NoLinkOk DEF Waiting, Link, States, Projection
<1> QED
  BY <1>2, NoLinkOk DEF Waiting, Link

LEMMA BeginLinkOk ==
  ASSUME NEW t \in Task, NEW l \in Link
  PROVE  /\ BeginLink(t, l) \in Operation /\ LinkAtBegin(t, l) \in Link
         /\ MayCreate(l) => /\ BeginLink(t, l).step = "create" /\ BeginLink(t, l).reply = "wait"
                            /\ BeginLink(t, l).link = Waiting(t)
                            /\ LinkAtBegin(t, l) = Waiting(t)
         /\ ~MayCreate(l) => /\ BeginLink(t, l) = Idle
                             /\ LinkAtBegin(t, l).remote = l.remote
                             /\ LinkAtBegin(t, l).uncertain = l.uncertain
                             /\ l.uncertain => LinkAtBegin(t, l).state = "failed"
                             /\ ~l.uncertain => LinkAtBegin(t, l) = l
<1>1. CASE MayCreate(l)
  <2>1. Waiting(t) \in Link
    BY WaitingOk
  <2>2. Request(Sent("create", FALSE, t, Waiting(t)), "create", t, Waiting(t))
    BY <2>1, SentFrom, StepsOk, Zenon
  <2> QED
    BY <1>1, <2>1, <2>2 DEF BeginLink, LinkAtBegin, Request
<1>2. CASE ~MayCreate(l)
  <2>1. [l EXCEPT !.state = "failed", !.failure = "other"] \in Link
    BY DEF Link, States, Failures
  <2> QED
    BY <1>2, <2>1, IdleOk DEF BeginLink, LinkAtBegin, Link
<1> QED
  BY <1>1, <1>2

LEMMA RetryOk ==
  ASSUME NEW t \in Task, NEW l \in Link
  PROVE  /\ RetryOp(t, l) \in Operation /\ RetryLink(t, l) \in Link
         /\ t.trashed => /\ Begun(RetryOp(t, l), {"delete"}, l)
                         /\ RetryLink(t, l) = IF RetryOp(t, l) = Idle THEN NoLink ELSE l
         /\ ~t.trashed => \/ Begun(RetryOp(t, l), {"read"}, l) /\ RetryLink(t, l) = l
                          \/ RetryOp(t, l) = BeginLink(t, l) /\ RetryLink(t, l) = LinkAtBegin(t, l)
         /\ ~t.trashed /\ OwnerDecides(l) => RetryOp(t, l) = Idle /\ RetryLink(t, l) = l
<1>1. BeginLink(t, l) \in Operation /\ LinkAtBegin(t, l) \in Link
  BY BeginLinkOk
<1>2. Begun(Inspect(t, l, TRUE), {"read"}, l)
  <2>1. TRUE \in BOOLEAN
    OBVIOUS
  <2> QED
    BY <2>1, InspectOk, Zenon
<1>3. Begun(DeleteExternal(t, l), {"delete"}, l)
  BY DeleteOk
<1>4. Begun(Idle, {"read"}, l)
  BY IdleOk DEF Begun
<1>5. CASE t.trashed
  BY <1>3, <1>5, NoLinkOk DEF RetryOp, RetryLink, Begun
<1>6. CASE ~t.trashed /\ (l.state = "null" \/ OwnerDecides(l))
  <2>1. RetryOp(t, l) = Idle /\ RetryLink(t, l) = l
    BY <1>6 DEF RetryOp, RetryLink
  <2> QED
    BY <1>4, <1>6, <2>1, IdleOk
<1>7. CASE ~t.trashed /\ ~(l.state = "null" \/ OwnerDecides(l)) /\ l.remote = NoId
  <2>1. RetryOp(t, l) = BeginLink(t, l) /\ RetryLink(t, l) = LinkAtBegin(t, l)
    BY <1>7 DEF RetryOp, RetryLink
  <2> QED
    BY <1>1, <1>7, <2>1
<1>8. CASE ~t.trashed /\ ~(l.state = "null" \/ OwnerDecides(l)) /\ l.remote # NoId
  <2>1. RetryOp(t, l) = Inspect(t, l, TRUE) /\ RetryLink(t, l) = l
    BY <1>8 DEF RetryOp, RetryLink
  <2> QED
    BY <1>2, <1>8, <2>1 DEF Begun
<1> QED
  BY <1>5, <1>6, <1>7, <1>8

\* A link that keeps its record: another state, baseline or failure.
Kept(m, l) == m \in Link /\ m.remote = l.remote /\ m.uncertain = l.uncertain

LEMMA FailedOk ==
  ASSUME NEW op \in Operation, op.reply \notin {"wait", "ok"}
  PROVE  Kept(FailedLink(op), op.link) /\ FailedLink(op).state \in {"missing", "failed"}
<1>1. op.link \in Link /\ op.reply \in {"auth", "refused", "other", "missing"}
  BY DEF Operation, Replies
<1> QED
  BY <1>1 DEF FailedLink, Kept, Link, States, Failures

LEMMA ReadOk ==
  ASSUME NEW op \in Operation, link \in Link
  PROVE  ReadLink(op) = link \/ Kept(ReadLink(op), op.link)
<1>1. op.link \in Link /\ op.task \in Task /\ op.seen \in Projection
  BY DEF Operation
<1>2. op.seen.status \in Statuses /\ op.task.status \in Statuses
  BY <1>1 DEF Projection, Task
<1> DEFINE l == op.link
<1> HIDE DEF l
<1>3. l \in Link /\ l = op.link
  BY <1>1 DEF l
<1>4. Kept([l EXCEPT !.state = "conflicted", !.external = op.seen, !.failure = "none"], l)
  BY <1>1, <1>3 DEF Kept, Link, States, Failures
<1>5. \A b \in Statuses : Kept([l EXCEPT !.state = "synchronized", !.base.status = b,
                                        !.external = Blank, !.failure = "none"], l)
  BY <1>3, BlankOk DEF Kept, Link, States, Failures, Projection
<1>6. Kept([l EXCEPT !.state = "changed-externally", !.external = op.seen, !.failure = "none"], l)
  BY <1>1, <1>3 DEF Kept, Link, States, Failures
<1> QED
  BY <1>2, <1>3, <1>4, <1>5, <1>6 DEF ReadLink

\* What the pushes, the resolutions and the completion write back.
LEMMA PushedOk ==
  ASSUME NEW op \in Operation
  PROVE  /\ Kept([op.link EXCEPT !.state = "synchronized",
                    !.base.status = op.task.status, !.failure = "none"], op.link)
         /\ Kept([op.link EXCEPT !.state = "synchronized", !.failure = "none",
                    !.base.content = op.task.content, !.external = Blank], op.link)
         /\ Kept([op.link EXCEPT !.base.status = "completed"], op.link)
         /\ \A f \in Failures : /\ Kept([op.link EXCEPT !.failure = f], op.link)
                                /\ Kept([op.link EXCEPT !.state = "failed", !.failure = f], op.link)
<1>1. op.link \in Link /\ op.task \in Task
  BY DEF Operation
<1>2. op.task.status \in Statuses /\ op.task.content \in Contents
  BY <1>1 DEF Task
<1> DEFINE l == op.link
<1> HIDE DEF l
<1>3. l \in Link
  BY <1>1 DEF l
<1>4. Kept([l EXCEPT !.state = "synchronized", !.base.status = op.task.status, !.failure = "none"], l)
  BY <1>2, <1>3 DEF Kept, Link, States, Failures, Projection
<1>5. Kept([l EXCEPT !.state = "synchronized", !.failure = "none",
              !.base.content = op.task.content, !.external = Blank], l)
  BY <1>2, <1>3, BlankOk DEF Kept, Link, States, Failures, Projection
<1>6. Kept([l EXCEPT !.base.status = "completed"], l)
  BY <1>3 DEF Kept, Link, Projection, Statuses
<1>7. ASSUME NEW f \in Failures
      PROVE  /\ Kept([l EXCEPT !.failure = f], l)
             /\ Kept([l EXCEPT !.state = "failed", !.failure = f], l)
  BY <1>3 DEF Kept, Link, States
<1> QED
  BY <1>4, <1>5, <1>6, <1>7 DEF l

LEMMA ResolvedOk ==
  ASSUME NEW op \in Operation
  PROVE  /\ Kept([op.link EXCEPT !.state = "synchronized", !.base.content = op.task.content,
                                 !.external = Blank, !.failure = "none"], op.link)
         /\ Kept([op.link EXCEPT !.state = "synchronized", !.base.status = op.task.status,
                                 !.external = Blank, !.failure = "none"], op.link)
<1>1. op.link \in Link /\ op.task \in Task
  BY DEF Operation
<1>2. op.task.status \in Statuses /\ op.task.content \in Contents
  BY <1>1 DEF Task
<1> DEFINE l == op.link
<1> HIDE DEF l
<1>3. l \in Link
  BY <1>1 DEF l
<1>4. Kept([l EXCEPT !.state = "synchronized", !.base.content = op.task.content,
                     !.external = Blank, !.failure = "none"], l)
  BY <1>2, <1>3, BlankOk DEF Kept, Link, States, Failures, Projection
<1>5. Kept([l EXCEPT !.state = "synchronized", !.base.status = op.task.status,
                     !.external = Blank, !.failure = "none"], l)
  BY <1>2, <1>3, BlankOk DEF Kept, Link, States, Failures, Projection
<1> QED
  BY <1>4, <1>5 DEF l

LEMMA CreatedOk ==
  ASSUME NEW op \in Operation
  PROVE  /\ CreatedLink(op) \in Link /\ CreatedLink(op).remote = op.id
         /\ ~CreatedLink(op).uncertain /\ CreatedLink(op).state = "synchronized"
         /\ \A f \in Failures, u \in BOOLEAN :
              LET m == [Waiting(op.task) EXCEPT !.state = "failed", !.failure = f, !.uncertain = u] IN
              m \in Link /\ m.remote = NoId /\ m.uncertain = u /\ m.state = "failed"
<1>1. op.task \in Task /\ op.id \in Ids \cup {NoId}
  BY DEF Operation
<1>2. op.task.content \in Contents
  BY <1>1 DEF Task
<1>3. CreatedLink(op) \in Link
  BY <1>1, <1>2, NoLinkOk DEF CreatedLink, Link, States, Projection
<1>4. /\ CreatedLink(op).remote = op.id
      /\ ~CreatedLink(op).uncertain /\ CreatedLink(op).state = "synchronized"
  BY <1>3, NoLinkOk DEF CreatedLink, Link
<1>5. Waiting(op.task) \in Link /\ Waiting(op.task).remote = NoId
  BY <1>1, WaitingOk
<1>6. ASSUME NEW f \in Failures, NEW u \in BOOLEAN
      PROVE  LET m == [Waiting(op.task) EXCEPT !.state = "failed", !.failure = f, !.uncertain = u] IN
             m \in Link /\ m.remote = NoId /\ m.uncertain = u /\ m.state = "failed"
  BY <1>5 DEF Link, States
<1> QED
  BY <1>3, <1>4, <1>6

LEMMA RecoveredOk ==
  ASSUME NEW op \in Operation
  PROVE  LET m == [op.link EXCEPT !.state = "synchronized", !.remote = op.id,
                                  !.uncertain = FALSE, !.failure = "none"] IN
         m \in Link /\ m.remote = op.id /\ ~m.uncertain /\ m.state = "synchronized"
<1>1. op.link \in Link /\ op.id \in Ids \cup {NoId}
  BY DEF Operation
<1> DEFINE l == op.link
<1> HIDE DEF l
<1>2. l \in Link
  BY <1>1 DEF l
<1>3. LET m == [l EXCEPT !.state = "synchronized", !.remote = op.id,
                         !.uncertain = FALSE, !.failure = "none"] IN
      m \in Link /\ m.remote = op.id /\ ~m.uncertain /\ m.state = "synchronized"
  BY <1>1, <1>2 DEF Link, States, Failures
<1> QED
  BY <1>3 DEF l

-----------------------------------------------------------------------------
(* Types                                                                   *)

\* A creation has no record to miss.
CreatesAnswered == \A w \in Slots : ops[w].step = "create" => ops[w].reply # "missing"

TypeInv == TypeOK /\ CreatesAnswered

\* What every request starts as.
NewOp(op) == op \in Operation /\ op.reply = "wait"

LEMMA BegunIsNew ==
  ASSUME NEW op, NEW steps, NEW l, Begun(op, steps, l)
  PROVE  NewOp(op)
BY IdleOk DEF Begun, NewOp

LEMMA RequestIsNew ==
  ASSUME NEW op, NEW step, NEW t, NEW l, Request(op, step, t, l)
  PROVE  NewOp(op)
BY DEF Request, NewOp

LEMMA OpReplaced ==
  ASSUME TypeInv, NEW w \in Slots, NEW op \in Operation, ops' = [ops EXCEPT ![w] = op],
         op.step = "create" => op.reply # "missing"
  PROVE  ops' \in [Slots -> Operation] /\ CreatesAnswered'
BY DEF TypeInv, TypeOK, CreatesAnswered

LEMMA RetryNew ==
  ASSUME NEW t \in Task, NEW l \in Link
  PROVE  NewOp(RetryOp(t, l)) /\ RetryLink(t, l) \in Link
<1>1. NewOp(BeginLink(t, l))
  BY BeginLinkOk, IdleOk DEF NewOp
<1>2. NewOp(RetryOp(t, l))
  BY <1>1, RetryOk, BegunIsNew
<1> QED
  BY <1>2, RetryOk

LEMMA OwnerTypes ==
  ASSUME TypeInv, NEW w \in Slots, OwnerActs(w)
  PROVE  TypeInv'
<1>1. /\ task \in Task /\ link \in Link /\ ops \in [Slots -> Operation]
      /\ edits \in 0..MaxEdits /\ MaxEdits \in Nat
  BY TaskLinkAssumption DEF TypeInv, TypeInv, TypeOK
<1>2. ASSUME Owner(w) PROVE edits' \in 0..MaxEdits
  BY <1>1, <1>2 DEF Owner
<1>3. ASSUME NEW op, NewOp(op), Start(w, op)
      PROVE  ops' \in [Slots -> Operation] /\ CreatesAnswered'
  <2>1. op \in Operation /\ (op.step = "create" => op.reply # "missing")
    BY <1>3 DEF NewOp
  <2> QED
    BY <1>3, <2>1, OpReplaced DEF Start
<1>0. ASSUME UNCHANGED ops PROVE CreatesAnswered'
  BY <1>0 DEF TypeInv, CreatesAnswered
<1>4. FALSE \in BOOLEAN
  OBVIOUS
<1>5. ASSUME NEW s \in Statuses, SetStatus(w, s) PROVE TypeInv'
  <2>1. task' \in Task
    BY <1>1, <1>5 DEF SetStatus, Task
  <2>2. NewOp(PushStatus(task', link, FALSE))
    BY <1>1, <1>4, <2>1, PushStatusOk, BegunIsNew, Zenon
  <2> QED
    BY <1>2, <1>3, <1>5, <2>1, <2>2 DEF SetStatus, TypeInv, TypeOK
<1>6. ASSUME NEW c \in Contents, Edit(w, c) PROVE TypeInv'
  <2>1. task' \in Task
    BY <1>1, <1>6 DEF Edit, Task
  <2>2. NewOp(PushContent(task', link))
    BY <1>1, <2>1, PushContentOk, BegunIsNew, Zenon
  <2> QED
    BY <1>2, <1>3, <1>6, <2>1, <2>2 DEF Edit, TypeInv, TypeOK
<1>7. ASSUME CreateLink(w) PROVE TypeInv'
  <2>1. NewOp(BeginLink(task, link)) /\ LinkAtBegin(task, link) \in Link
    BY <1>1, BeginLinkOk, IdleOk DEF NewOp
  <2> QED
    BY <1>2, <1>3, <1>7, <2>1 DEF CreateLink, TypeInv, TypeOK
<1>8. ASSUME Synchronize(w) PROVE TypeInv'
  <2>1. NewOp(Inspect(task, link, FALSE))
    BY <1>1, <1>4, InspectOk, BegunIsNew, Zenon
  <2> QED
    BY <1>2, <1>3, <1>8, <2>1 DEF Synchronize, TypeInv, TypeOK
<1>9. ASSUME Recreate(w) PROVE TypeInv'
  <2> DEFINE l == [link EXCEPT !.state = "waiting", !.remote = NoId, !.failure = "none",
                               !.uncertain = FALSE]
  <2>1. l \in Link
    BY <1>1 DEF Link, States, Failures
  <2>2. NewOp(BeginLink(task, l)) /\ LinkAtBegin(task, l) \in Link
    BY <1>1, <2>1, BeginLinkOk, IdleOk DEF NewOp
  <2>3. link' = LinkAtBegin(task, l) /\ Start(w, BeginLink(task, l)) /\ unlinked' = TRUE /\ Owner(w)
    BY <1>9 DEF Recreate
  <2> HIDE DEF l
  <2> QED
    BY <1>2, <1>3, <1>9, <2>2, <2>3 DEF Recreate, TypeInv, TypeOK
<1>10. ASSUME RemoveLink(w) PROVE TypeInv'
  BY <1>0, <1>2, <1>10, NoLinkOk DEF RemoveLink, TypeInv, TypeOK
<1>11. ASSUME TrashPreserve(w) PROVE TypeInv'
  <2>1. task' \in Task
    BY <1>1, <1>11 DEF TrashPreserve, Task
  <2> QED
    BY <1>0, <1>2, <1>11, <2>1, NoLinkOk DEF TrashPreserve, TypeInv, TypeOK
<1>12. ASSUME TrashDelete(w) PROVE TypeInv'
  <2>1. task' \in Task
    BY <1>1, <1>12 DEF TrashDelete, Task
  <2>2. NewOp(DeleteExternal(task', link))
    BY <1>1, <2>1, DeleteOk, BegunIsNew, Zenon
  <2>3. link' \in {link, NoLink} /\ Start(w, DeleteExternal(task', link)) /\ unlinked' = TRUE
    BY <1>12 DEF TrashDelete
  <2> QED
    BY <1>2, <1>3, <1>12, <2>1, <2>2, <2>3, NoLinkOk DEF TrashDelete, TypeInv, TypeOK
<1>13. ASSUME Restore(w) PROVE TypeInv'
  <2>1. task' \in Task
    BY <1>1, <1>13 DEF Restore, Task
  <2> QED
    BY <1>0, <1>2, <1>13, <2>1 DEF Restore, TypeInv, TypeOK
<1>14. ASSUME AcceptDrift(w) PROVE TypeInv'
  <2>1. link.external.content \in Contents
    BY <1>1 DEF Link, Projection
  <2>2. task' \in Task
    BY <1>1, <1>14, <2>1 DEF AcceptDrift, Task
  <2>3. link' \in Link
    BY <1>1, <1>14, <2>1, BlankOk DEF AcceptDrift, Link, States, Failures, Projection
  <2> QED
    BY <1>0, <1>2, <1>14, <2>2, <2>3 DEF AcceptDrift, TypeInv, TypeOK
<1>15. ASSUME RestoreDrift(w) PROVE TypeInv'
  <2>1. NewOp(Sent("drift", FALSE, task, link))
    BY <1>1, SentFrom, StepsOk, RequestIsNew, Zenon
  <2> QED
    BY <1>2, <1>3, <1>15, <2>1 DEF RestoreDrift, TypeInv, TypeOK
<1>16. ASSUME AcceptConflict(w) PROVE TypeInv'
  <2>1. link.external.status \in Statuses
    BY <1>1 DEF Link, Projection
  <2>2. task' \in Task
    BY <1>1, <1>16, <2>1 DEF AcceptConflict, Task
  <2>3. link' \in Link
    BY <1>1, <1>16, <2>1, BlankOk DEF AcceptConflict, Link, States, Failures, Projection
  <2> QED
    BY <1>0, <1>2, <1>16, <2>2, <2>3 DEF AcceptConflict, TypeInv, TypeOK
<1>17. ASSUME RestoreConflict(w) PROVE TypeInv'
  <2>1. NewOp(Sent("conflict", FALSE, task, link))
    BY <1>1, SentFrom, StepsOk, RequestIsNew, Zenon
  <2> QED
    BY <1>2, <1>3, <1>17, <2>1 DEF RestoreConflict, TypeInv, TypeOK
<1>18. ASSUME OwnerRetry(w) PROVE TypeInv'
  <2>1. NewOp(RetryOp(task, link)) /\ RetryLink(task, link) \in Link
    BY <1>1, RetryNew
  <2> QED
    BY <1>2, <1>3, <1>18, <2>1 DEF OwnerRetry, RetryOne, TypeInv, TypeOK
<1>19. ASSUME NEW i \in Ids, RecoverCreation(w, i) PROVE TypeInv'
  <2>1. NewOp(Sent("recover", FALSE, task, link))
    BY <1>1, SentFrom, StepsOk, RequestIsNew, Zenon
  <2>2. NewOp([Sent("recover", FALSE, task, link) EXCEPT !.id = i])
    BY <2>1 DEF NewOp, Operation
  <2> QED
    BY <1>2, <1>3, <1>19, <2>2 DEF RecoverCreation, TypeInv, TypeOK
<1> QED
  BY <1>5, <1>6, <1>7, <1>8, <1>9, <1>10, <1>11, <1>12, <1>13, <1>14, <1>15, <1>16, <1>17, <1>18,
     <1>19 DEF OwnerActs

LEMMA ProviderTypes ==
  ASSUME TypeInv, NEW w \in Slots, ProviderActs(w) \/ RequestFails(w)
  PROVE  TypeInv'
<1>1. /\ task \in Task /\ link \in Link /\ ops \in [Slots -> Operation] /\ ops[w] \in Operation
      /\ faults \in 0..MaxFaults /\ MaxFaults \in Nat /\ made \in 0..MaxRecords /\ MaxRecords \in Nat
      /\ provider \in [Ids -> [there : BOOLEAN, status : Statuses, content : Contents]]
  BY TaskLinkAssumption DEF TypeInv, TypeInv, TypeOK
<1>2. /\ ops[w].task \in Task
      /\ ops[w].task.status \in Statuses /\ ops[w].task.content \in Contents
  BY <1>1 DEF Operation, Task
<1>3. ASSUME NEW reply \in Replies, Answer(w, reply), reply = "missing" => ops[w].step # "create"
      PROVE  ops' \in [Slots -> Operation] /\ CreatesAnswered'
  BY <1>1, <1>3 DEF Answer, Operation, TypeInv, CreatesAnswered
<1>4. ASSUME NEW reply, Acknowledges(reply) PROVE faults' \in 0..MaxFaults
  BY <1>1, <1>4 DEF Acknowledges
<1>5. ASSUME RequestFails(w) PROVE TypeInv'
  <2>1. ops' \in [Slots -> Operation] /\ CreatesAnswered'
    BY <1>3, <1>5 DEF RequestFails, Replies
  <2>2. faults' \in 0..MaxFaults
    BY <1>1, <1>5 DEF RequestFails
  <2> QED
    BY <1>5, <2>1, <2>2 DEF RequestFails, TypeInv, TypeOK
<1>6. ASSUME ProviderCreates(w) PROVE TypeInv'
  <2>1. made + 1 \in Ids /\ made' \in 0..MaxRecords
    BY <1>1, <1>6 DEF ProviderCreates, Ids
  <2>2. provider' \in [Ids -> [there : BOOLEAN, status : Statuses, content : Contents]]
    BY <1>1, <1>2, <1>6, <2>1 DEF ProviderCreates, Statuses
  <2>3. PICK reply \in {"ok", "other"} :
          /\ ops' = [ops EXCEPT ![w].reply = reply, ![w].id = made + 1]
          /\ Acknowledges(reply)
    BY <1>6 DEF ProviderCreates
  <2>4. ops' \in [Slots -> Operation] /\ CreatesAnswered'
    BY <1>1, <2>1, <2>3 DEF Operation, Replies, TypeInv, CreatesAnswered
  <2> QED
    BY <1>4, <1>6, <2>1, <2>2, <2>3, <2>4 DEF ProviderCreates, TypeInv, TypeOK
<1>7. ASSUME ProviderUpdates(w) PROVE TypeInv'
  <2>1. ops[w].id \in Ids
    BY <1>7 DEF ProviderUpdates, There
  <2>2. provider' \in [Ids -> [there : BOOLEAN, status : Statuses, content : Contents]]
    <3> DEFINE i == ops[w].id  s == ops[w].task.status  c == ops[w].task.content
    <3>1. \/ provider' = [provider EXCEPT ![i].status = s]
          \/ provider' = [provider EXCEPT ![i].there = FALSE]
          \/ provider' = [provider EXCEPT ![i].content = c]
      BY <1>7 DEF ProviderUpdates
    <3> HIDE DEF i, s, c
    <3>2. i \in Ids /\ s \in Statuses /\ c \in Contents
      BY <1>2, <2>1 DEF i, s, c
    <3> QED
      BY <1>1, <3>1, <3>2
  <2>3. PICK reply \in {"ok", "other"} : Answer(w, reply) /\ Acknowledges(reply)
    BY <1>7 DEF ProviderUpdates
  <2>4. ops' \in [Slots -> Operation] /\ CreatesAnswered' /\ faults' \in 0..MaxFaults
    BY <1>3, <1>4, <2>3 DEF Replies
  <2> QED
    BY <1>7, <2>2, <2>4 DEF ProviderUpdates, TypeInv, TypeOK
<1>8. ASSUME ProviderReads(w) PROVE TypeInv'
  <2>1. provider[ops[w].id] \in [there : BOOLEAN, status : Statuses, content : Contents]
    BY <1>1, <1>8 DEF ProviderReads, There
  <2> DEFINE seen == [status |-> provider[ops[w].id].status, content |-> provider[ops[w].id].content]
  <2>2. seen \in Projection
    BY <2>1 DEF Projection
  <2>3. ops' = [ops EXCEPT ![w].reply = "ok", ![w].seen = seen]
    BY <1>8 DEF ProviderReads
  <2> HIDE DEF seen
  <2>4. ops' \in [Slots -> Operation] /\ CreatesAnswered'
    BY <1>1, <2>2, <2>3 DEF Operation, Replies, TypeInv, CreatesAnswered
  <2> QED
    BY <1>8, <2>4 DEF ProviderReads, TypeInv, TypeOK
<1>9. ASSUME ProviderMisses(w) PROVE TypeInv'
  BY <1>3, <1>9 DEF ProviderMisses, TypeInv, TypeOK, Replies
<1> QED
  BY <1>5, <1>6, <1>7, <1>8, <1>9 DEF ProviderActs

\* A push, a read or a resolution that resumes writes back the link it started
\* from, its record and its mark as they were, unless it leaves the link alone;
\* then it ends, or pushes what the link has now.
WritesBack(w) ==
  /\ task' \in Task /\ task'.trashed = task.trashed
  /\ link' = link \/ Kept(link', ops[w].link)
  /\ \E op : /\ Begun(op, {"status", "content"}, link')
             /\ ops' = [ops EXCEPT ![w] = op]
             /\ OwnerDecides(link') => op = Idle
  /\ retrying' \in {retrying, "none"}
  /\ UNCHANGED <<provider, made, edits, outside, faults, unlinked>>

Resuming(w) == AfterRead(w) \/ AfterStatus(w) \/ AfterContent(w) \/ AfterResolve(w) \/ AfterComplete(w)

LEMMA ResumingWritesBack ==
  ASSUME TypeOK, NEW w \in Slots, Resuming(w)
  PROVE  WritesBack(w)
<1>1. /\ task \in Task /\ link \in Link /\ ops \in [Slots -> Operation] /\ ops[w] \in Operation
      /\ ops[w].link \in Link
  BY DEF TypeOK, Operation
<1> DEFINE op == ops[w]
<1>2. ASSUME NEW l, l = link \/ Kept(l, op.link), link' = Refreshed(l)
      PROVE  /\ link' = link \/ Kept(link', op.link)
             /\ link' \in Link
  BY <1>1, <1>2 DEF Refreshed, Kept
<1>3. ASSUME Ended(w)
      PROVE  /\ retrying' \in {retrying, "none"}
             /\ \E next : /\ Begun(next, {"status", "content"}, link')
                          /\ ops' = [ops EXCEPT ![w] = next]
                          /\ OwnerDecides(link') => next = Idle
  BY <1>3, IdleOk DEF Ended, Start, Begun
<1>4. ASSUME NEW next, Begun(next, {"status", "content"}, link'), Continue(w, next),
             OwnerDecides(link') => next = Idle
      PROVE  /\ retrying' \in {retrying, "none"}
             /\ \E n : /\ Begun(n, {"status", "content"}, link')
                       /\ ops' = [ops EXCEPT ![w] = n]
                       /\ OwnerDecides(link') => n = Idle
  BY <1>4 DEF Continue, Start
<1>5. op.reply \in Replies /\ TRUE \in BOOLEAN
  BY <1>1 DEF Operation
<1>6. Begun(Idle, {"status", "content"}, link')
  BY IdleOk DEF Begun
<1>7. CASE AfterRead(w)
  <2>1. CASE op.reply = "ok"
    <3>1. task' \in Task /\ task'.trashed = task.trashed
      <4>1. op.seen.status \in Statuses
        BY <1>1 DEF Operation, Projection
      <4>2. task' = task \/ task' = [task EXCEPT !.status = op.seen.status]
        BY <1>7, <2>1 DEF AfterRead
      <4> QED
        BY <1>1, <4>1, <4>2 DEF Task
    <3>2. (link' = link \/ Kept(link', op.link)) /\ link' \in Link
      <4>1. ReadLink(op) = link \/ Kept(ReadLink(op), op.link)
        BY <1>1, ReadOk
      <4>2. link' = Refreshed(ReadLink(op))
        BY <1>7, <2>1 DEF AfterRead
      <4> QED
        BY <1>2, <4>1, <4>2
    <3>3. /\ Begun(PushStatus(task', link', TRUE), {"status", "content"}, link')
          /\ OwnerDecides(link') => PushStatus(task', link', TRUE) = Idle
      BY <1>5, <3>1, <3>2, PushStatusOk, Zenon
    <3>4. Continue(w, PushStatus(task', link', TRUE)) \/ Continue(w, Idle)
      BY <1>7, <2>1 DEF AfterRead
    <3> QED
      BY <1>4, <1>6, <1>7, <3>1, <3>2, <3>3, <3>4 DEF WritesBack, AfterRead
  <2>2. CASE op.reply # "ok"
    <3>1. op.reply \notin {"wait", "ok"}
      BY <1>7, <2>2 DEF AfterRead, Answered
    <3>2. Kept(FailedLink(op), op.link)
      BY <1>1, <3>1, FailedOk
    <3>3. link' = Refreshed(FailedLink(op)) /\ Ended(w) /\ task' = task
      BY <1>7, <2>2 DEF AfterRead
    <3> QED
      BY <1>1, <1>2, <1>3, <1>7, <3>2, <3>3 DEF WritesBack, AfterRead
  <2> QED
    BY <2>1, <2>2
<1>8. CASE AfterStatus(w)
  <2>1. CASE op.reply = "ok"
    <3> DEFINE l == [op.link EXCEPT !.state = "synchronized",
                                    !.base.status = op.task.status, !.failure = "none"]
    <3>1. Kept(l, op.link)
      BY <1>1, PushedOk
    <3>2. link' = Refreshed(l)
      BY <1>8, <2>1 DEF AfterStatus
    <3> HIDE DEF l
    <3>3. (link' = link \/ Kept(link', op.link)) /\ link' \in Link
      BY <1>2, <3>1, <3>2
    <3>4. /\ Begun(PushContent(task, link'), {"content"}, link')
          /\ OwnerDecides(link') => PushContent(task, link') = Idle
      BY <1>1, <3>3, PushContentOk
    <3>5. Continue(w, PushContent(task, link')) \/ Continue(w, Idle)
      BY <1>8, <2>1 DEF AfterStatus
    <3>6. Begun(PushContent(task, link'), {"status", "content"}, link')
      BY <3>4 DEF Begun
    <3> QED
      BY <1>1, <1>4, <1>6, <1>8, <3>3, <3>4, <3>5, <3>6 DEF WritesBack, AfterStatus
  <2>2. CASE op.reply # "ok"
    <3>1. op.reply \notin {"wait", "ok"}
      BY <1>8, <2>2 DEF AfterStatus, Answered
    <3>2. Kept(FailedLink(op), op.link)
      BY <1>1, <3>1, FailedOk
    <3>3. link' = Refreshed(FailedLink(op)) /\ Ended(w) /\ task' = task
      BY <1>8, <2>2 DEF AfterStatus
    <3> QED
      BY <1>1, <1>2, <1>3, <1>8, <3>2, <3>3 DEF WritesBack, AfterStatus
  <2> QED
    BY <2>1, <2>2
<1>9. CASE AfterContent(w)
  <2>1. op.reply # "ok" => op.reply \notin {"wait", "ok"}
    BY <1>9 DEF AfterContent, Answered
  <2>2. \E l : Kept(l, op.link) /\ link' = Refreshed(l)
    BY <1>1, <1>9, <2>1, FailedOk, PushedOk DEF AfterContent
  <2> QED
    BY <1>1, <1>2, <1>3, <1>9, <2>2 DEF WritesBack, AfterContent
<1>10. CASE AfterResolve(w)
  <2>1. op.reply # "ok" => /\ op.reply # "missing" => op.reply \in Failures
                           /\ "other" \in Failures
    BY <1>5, <1>10 DEF AfterResolve, Answered, Replies, Failures
  <2>2. \E l : Kept(l, op.link) /\ link' = Refreshed(l)
    <3>1. CASE op.reply # "ok"
      <4>1. PICK f \in Failures : link' = Refreshed([op.link EXCEPT !.failure = f])
        BY <1>10, <2>1, <3>1 DEF AfterResolve
      <4> QED
        BY <1>1, <4>1, PushedOk
    <3>2. CASE op.reply = "ok" /\ op.step = "drift"
      BY <1>1, <1>10, <3>2, ResolvedOk DEF AfterResolve
    <3>3. CASE op.reply = "ok" /\ op.step # "drift"
      BY <1>1, <1>10, <3>3, ResolvedOk DEF AfterResolve
    <3> QED
      BY <3>1, <3>2, <3>3
  <2> QED
    BY <1>1, <1>2, <1>3, <1>10, <2>2 DEF WritesBack, AfterResolve
<1>11. CASE AfterComplete(w)
  <2>1. op.reply # "ok" => /\ op.reply # "missing" => op.reply \in Failures
                           /\ "other" \in Failures
    BY <1>5, <1>11 DEF AfterComplete, Answered, Replies, Failures
  <2>2. \E l : Kept(l, op.link) /\ link' = Refreshed(l)
    <3>1. CASE op.reply # "ok"
      <4>1. PICK f \in Failures : link' = Refreshed([op.link EXCEPT !.state = "failed", !.failure = f])
        BY <1>11, <2>1, <3>1 DEF AfterComplete
      <4> QED
        BY <1>1, <4>1, PushedOk
    <3>2. CASE op.reply = "ok"
      BY <1>1, <1>11, <3>2, PushedOk DEF AfterComplete
    <3> QED
      BY <3>1, <3>2
  <2> QED
    BY <1>1, <1>2, <1>3, <1>11, <2>2 DEF WritesBack, AfterComplete
<1> QED
  BY <1>7, <1>8, <1>9, <1>10, <1>11 DEF Resuming

LEMMA WritesBackTypes ==
  ASSUME TypeInv, NEW w \in Slots, WritesBack(w)
  PROVE  TypeInv'
<1>1. PICK op : Begun(op, {"status", "content"}, link') /\ ops' = [ops EXCEPT ![w] = op]
  BY DEF WritesBack
<1>2. op \in Operation /\ op.reply = "wait"
  BY <1>1, BegunIsNew DEF NewOp
<1>3. link' \in Link
  BY DEF WritesBack, TypeInv, TypeOK, Kept
<1>4. ops' \in [Slots -> Operation] /\ CreatesAnswered'
  BY <1>1, <1>2, OpReplaced
<1> QED
  BY <1>3, <1>4 DEF WritesBack, TypeInv, TypeOK

\* The creation that resumes: its record, or the failed link of one without,
\* unless the link may name a live record.
AfterCreateSays(w) ==
  /\ link' \in Link
  /\ \/ link' = link
     \/ ops[w].reply = "ok" /\ link' = CreatedLink(ops[w])
     \/ /\ ops[w].reply # "ok" /\ link'.remote = NoId /\ link'.state = "failed"
        /\ link'.uncertain = (ops[w].reply = "other")
  /\ \E op \in Operation :
       /\ op = Idle \/ (op.step = "complete" /\ op.link = link' /\ link' = CreatedLink(ops[w]))
       /\ ops' = [ops EXCEPT ![w] = op]
  /\ retrying' \in {retrying, "none"}

LEMMA CreateResumes ==
  ASSUME TypeInv, NEW w \in Slots, AfterCreate(w)
  PROVE  AfterCreateSays(w)
<1> DEFINE op == ops[w]
<1>1. /\ task \in Task /\ link \in Link /\ ops \in [Slots -> Operation] /\ op \in Operation
      /\ op.task \in Task /\ op.reply \in Replies
  BY DEF TypeInv, TypeOK, Operation
<1>2. CreatedLink(op) \in Link /\ CreatedLink(op).remote = op.id
  BY <1>1, CreatedOk
<1>3. CASE op.reply = "ok"
  <2>1. Request(Sent("complete", FALSE, op.task, CreatedLink(op)), "complete", op.task, CreatedLink(op))
    BY <1>1, <1>2, SentFrom, StepsOk, Zenon
  <2>2. /\ link' = Recorded(CreatedLink(op))
        /\ \/ Recordable /\ Continue(w, Sent("complete", FALSE, op.task, CreatedLink(op)))
           \/ Ended(w)
    BY <1>3 DEF AfterCreate
  <2>3. link' \in Link /\ (link' = link \/ link' = CreatedLink(op))
    BY <1>1, <1>2, <2>2 DEF Recorded
  <2>4. CASE Ended(w)
    BY <1>3, <2>3, <2>4, IdleOk DEF AfterCreateSays, Ended, Start
  <2>5. CASE Recordable /\ Continue(w, Sent("complete", FALSE, op.task, CreatedLink(op)))
    <3>1. link' = CreatedLink(op)
      BY <2>2, <2>5 DEF Recorded
    <3> DEFINE next == Sent("complete", FALSE, op.task, CreatedLink(op))
    <3>2. next \in Operation /\ next.step = "complete" /\ next.link = link'
      BY <2>1, <3>1 DEF Request
    <3>3. ops' = [ops EXCEPT ![w] = next] /\ retrying' \in {retrying, "none"}
      BY <2>5 DEF Continue, Start
    <3> HIDE DEF next
    <3> QED
      BY <1>3, <2>3, <3>1, <3>2, <3>3 DEF AfterCreateSays
  <2> QED
    BY <2>2, <2>4, <2>5
<1>4. CASE op.reply # "ok"
  <2>1. op.reply \in Failures /\ (op.reply = "other") \in BOOLEAN
    BY <1>1, <1>4 DEF AfterCreate, Answered, Replies, Failures, TypeInv, CreatesAnswered
  <2> DEFINE l == [Waiting(op.task) EXCEPT !.state = "failed", !.failure = op.reply,
                                           !.uncertain = op.reply = "other"]
  <2>2. l \in Link /\ l.remote = NoId /\ l.uncertain = (op.reply = "other") /\ l.state = "failed"
    BY <1>1, <2>1, CreatedOk, Zenon
  <2>3. link' = Recorded(l) /\ Ended(w)
    BY <1>4 DEF AfterCreate
  <2> HIDE DEF l
  <2> QED
    BY <1>1, <1>4, <2>2, <2>3, IdleOk DEF AfterCreateSays, Recorded, Ended, Start
<1> QED
  BY <1>3, <1>4

LEMMA ResumesTypes ==
  ASSUME TypeInv, NEW w \in Slots, Resumes(w)
  PROVE  TypeInv'
<1>1. /\ task \in Task /\ link \in Link /\ ops[w] \in Operation /\ retrying \in Slots \cup {"none"}
      /\ ops[w].link \in Link /\ ops[w].reply \in Replies
  BY DEF TypeInv, TypeOK, Operation
<1>2. ASSUME Ended(w)
      PROVE  /\ ops' \in [Slots -> Operation] /\ CreatesAnswered' /\ retrying' \in Slots \cup {"none"}
  BY <1>1, <1>2, OpReplaced, IdleOk DEF Ended, Start
<1>3. CASE Resuming(w)
  BY <1>3, ResumingWritesBack, WritesBackTypes DEF TypeInv
<1>4. CASE AfterCreate(w)
  <2>1. AfterCreateSays(w)
    BY <1>4, CreateResumes
  <2>2. PICK op \in Operation :
          /\ op = Idle \/ (op.step = "complete" /\ op.link = link' /\ link' = CreatedLink(ops[w]))
          /\ ops' = [ops EXCEPT ![w] = op]
    BY <2>1 DEF AfterCreateSays
  <2>3. ops' \in [Slots -> Operation] /\ CreatesAnswered'
    BY <2>2, OpReplaced, IdleOk
  <2> QED
    BY <1>1, <1>4, <2>1, <2>3 DEF AfterCreateSays, AfterCreate, TypeInv, TypeOK
<1>5. CASE AfterDelete(w)
  <2>1. link' \in Link
    <3>1. CASE ops[w].reply \in {"ok", "missing"}
      BY <1>5, <3>1, NoLinkOk DEF AfterDelete
    <3>2. CASE ops[w].reply \notin {"ok", "missing"}
      <4>1. ops[w].reply \in Failures
        BY <1>1, <1>5, <3>2 DEF AfterDelete, Answered, Replies, Failures
      <4>2. [ops[w].link EXCEPT !.state = "failed", !.failure = ops[w].reply] \in Link
        BY <1>1, <4>1, PushedOk DEF Kept
      <4> QED
        BY <1>1, <1>5, <3>2, <4>2 DEF AfterDelete, Refreshed
    <3> QED
      BY <3>1, <3>2
  <2> QED
    BY <1>2, <1>5, <2>1 DEF AfterDelete, TypeInv, TypeOK
<1>6. CASE AfterRecover(w)
  <2> DEFINE l == [ops[w].link EXCEPT !.state = "synchronized", !.remote = ops[w].id,
                                      !.uncertain = FALSE, !.failure = "none"]
  <2>1. l \in Link
    BY <1>1, RecoveredOk
  <2>2. NewOp(RetryOp(task, l)) /\ RetryLink(task, l) \in Link
    BY <1>1, <2>1, RetryNew
  <2>3. \/ link' \in {link, l} /\ Ended(w)
        \/ /\ link' = RetryLink(task, l) /\ Start(w, RetryOp(task, l))
           /\ retrying' \in {"none", w}
    BY <1>6 DEF AfterRecover
  <2> HIDE DEF l
  <2>4. CASE link' \in {link, l} /\ Ended(w)
    BY <1>1, <1>2, <1>6, <2>1, <2>4 DEF AfterRecover, TypeInv, TypeOK
  <2>5. CASE /\ link' = RetryLink(task, l) /\ Start(w, RetryOp(task, l))
             /\ retrying' \in {"none", w}
    <3>1. ops' \in [Slots -> Operation] /\ CreatesAnswered'
      BY <2>2, <2>5, OpReplaced DEF Start, NewOp
    <3> QED
      BY <1>6, <2>2, <2>5, <3>1 DEF AfterRecover, TypeInv, TypeOK
  <2> QED
    BY <2>3, <2>4, <2>5
<1> QED
  BY <1>3, <1>4, <1>5, <1>6 DEF Resumes, Resuming

LEMMA OtherTypes ==
  ASSUME TypeInv,
         (\E w \in Slots : Refresh(w)) \/ (\E i \in Ids : OutsideEdit(i)) \/ Reconnect \/ Crash
                  \/ UNCHANGED vars
  PROVE  TypeInv'
<1>1. /\ task \in Task /\ link \in Link /\ ops \in [Slots -> Operation]
      /\ faults \in 0..MaxFaults /\ MaxFaults \in Nat
      /\ outside \in 0..MaxOutside /\ MaxOutside \in Nat
      /\ provider \in [Ids -> [there : BOOLEAN, status : Statuses, content : Contents]]
  BY TaskLinkAssumption DEF TypeInv, TypeOK
<1>2. ASSUME NEW w \in Slots, Refresh(w) PROVE TypeInv'
  <2>1. NewOp(RetryOp(task, link)) /\ RetryLink(task, link) \in Link
    BY <1>1, RetryNew
  <2>2. ops' \in [Slots -> Operation] /\ CreatesAnswered'
    BY <1>2, <2>1, OpReplaced DEF Refresh, RetryOne, Start, NewOp
  <2> QED
    BY <1>2, <2>1, <2>2 DEF Refresh, RetryOne, TypeInv, TypeOK
<1>3. ASSUME NEW i \in Ids, OutsideEdit(i) PROVE TypeInv'
  <2>1. provider' \in [Ids -> [there : BOOLEAN, status : Statuses, content : Contents]]
    BY <1>1, <1>3 DEF OutsideEdit
  <2>2. outside' \in 0..MaxOutside
    BY <1>1, <1>3 DEF OutsideEdit
  <2> QED
    BY <1>3, <2>1, <2>2 DEF OutsideEdit, TypeInv, TypeOK, CreatesAnswered
<1>4. CASE Reconnect
  <2>1. link' \in Link
    BY <1>1, <1>4 DEF Reconnect, Link, Failures
  <2> QED
    BY <1>4, <2>1 DEF Reconnect, TypeInv, TypeOK, CreatesAnswered
<1>5. CASE Crash
  <2>1. ops' \in [Slots -> Operation] /\ CreatesAnswered'
    BY <1>5, IdleOk DEF Crash, CreatesAnswered
  <2>2. faults' \in 0..MaxFaults
    BY <1>1, <1>5 DEF Crash
  <2> QED
    BY <1>5, <2>1, <2>2 DEF Crash, TypeInv, TypeOK
<1>6. CASE UNCHANGED vars
  BY <1>6 DEF vars, TypeInv, TypeOK, CreatesAnswered
<1> QED
  BY <1>2, <1>3, <1>4, <1>5, <1>6

LEMMA TypeStep == TypeInv /\ [Next]_vars => TypeInv'
<1> SUFFICES ASSUME TypeInv, [Next]_vars PROVE TypeInv'
  OBVIOUS
<1> QED
  BY OwnerTypes, ProviderTypes, ResumesTypes, OtherTypes DEF Next

LEMMA TypeInit == Init => TypeInv
<1> SUFFICES ASSUME Init PROVE TypeInv
  OBVIOUS
<1>1. MaxRecords \in Nat /\ MaxEdits \in Nat /\ MaxOutside \in Nat /\ MaxFaults \in Nat
  BY TaskLinkAssumption
<1>2. /\ 0 \in 0..MaxRecords /\ 0 \in 0..MaxEdits /\ 0 \in 0..MaxOutside /\ 0 \in 0..MaxFaults
  BY <1>1
<1>3. ops \in [Slots -> Operation] /\ CreatesAnswered
  BY IdleOk DEF Init, CreatesAnswered
<1>4. provider \in [Ids -> [there : BOOLEAN, status : Statuses, content : Contents]]
  BY BlankOk DEF Init, Statuses
<1> QED
  BY <1>2, <1>3, <1>4, BlankOk, NoLinkOk DEF Init, TypeInv, TypeOK

\* Every variable of the link holds a value of its type, and a creation is never
\* answered with a missing record, however operations, answers, edits of others
\* and crashes interleave (TaskLinking).
THEOREM LinkTypes == Spec => []TypeOK
<1>1. TypeInv => TypeOK
  BY DEF TypeInv
<1> QED
  BY <1>1, TypeInit, TypeStep, PTL DEF Spec

-----------------------------------------------------------------------------
(* One record                                                              *)

\* One slot moves on: it creates only from a link free to create, which then no
\* longer is; and only a creation that made nothing frees the link again.
LEMMA SlotMoves ==
  ASSUME TypeInv, OnceInv, ~unlinked, NEW w \in Slots, NEW op \in Operation,
         ops' = [ops EXCEPT ![w] = op], made' = made, ~task'.trashed,
         OpFits(op, made),
         op.step = "create" => ~MayCreate(link') /\ (Creating(w) \/ MayCreate(link)),
         MayCreate(link') => MayCreate(link) \/ (Creating(w) /\ made = 0), NamesWhatDecides'
  PROVE  OnceInv'
<1>1. ops \in [Slots -> Operation]
  BY DEF TypeInv, TypeOK
<1>2. \A v \in Slots : ops'[v] = IF v = w THEN op ELSE ops[v]
  BY <1>1
<1>3. /\ made <= 1
      /\ MayCreate(link) => made = 0 /\ \A v \in Slots : ~Creating(v)
      /\ \A v \in Slots : OpFits(ops[v], made)
      /\ \A u, v \in Slots : Creating(u) /\ Creating(v) => u = v
  BY DEF OnceInv
<1>4. \A v \in Slots : OpFits(ops'[v], made')
  BY <1>2, <1>3
<1>5. MayCreate(link') => made' = 0 /\ \A v \in Slots : ops'[v].step # "create"
  BY <1>2, <1>3 DEF Creating
<1>6. \A u, v \in Slots : ops'[u].step = "create" /\ ops'[v].step = "create" => u = v
  BY <1>2, <1>3 DEF Creating
<1> QED
  BY <1>3, <1>4, <1>5, <1>6 DEF OnceInv, Creating, MayCreate, NamesWhatDecides

\* An operation that is over, or reads and pushes a link with a record.
LEMMA BegunFits ==
  ASSUME NEW op, NEW l, NEW steps, Begun(op, steps, l),
         steps \subseteq {"read", "status", "content"}, NEW m
  PROVE  op \in Operation /\ OpFits(op, m) /\ op.step # "create"
<1>1. CASE op = Idle
  BY <1>1, IdleOk DEF OpFits
<1>2. CASE op # Idle
  BY <1>2 DEF Begun, OpFits
<1> QED
  BY <1>1, <1>2

\* The slot begins such an operation; the link is as free to create as it was.
LEMMA Harmless ==
  ASSUME TypeInv, OnceInv, ~unlinked, NEW w \in Slots, NEW op, NEW l, NEW steps,
         steps \subseteq {"read", "status", "content"}, Begun(op, steps, l),
         ops' = [ops EXCEPT ![w] = op], made' = made, ~task'.trashed,
         MayCreate(link') => MayCreate(link), NamesWhatDecides'
  PROVE  OnceInv'
BY BegunFits, SlotMoves

\* Nothing but the link and the Task changes, and the link is as free as it was.
LEMMA LinkChanges ==
  ASSUME OnceInv, UNCHANGED <<ops, made>>,
         ~unlinked => ~task'.trashed /\ ~unlinked', unlinked' \in {unlinked, TRUE},
         unlinked \in BOOLEAN,
         MayCreate(link') => MayCreate(link), NamesWhatDecides'
  PROVE  OnceInv'
BY DEF OnceInv, Creating, OpFits, MayCreate, NamesWhatDecides

LEMMA LinkBegins ==
  ASSUME TypeInv, OnceInv, ~unlinked, NEW w \in Slots,
         ops' = [ops EXCEPT ![w] = BeginLink(task, link)], link' = LinkAtBegin(task, link),
         made' = made, ~task'.trashed
  PROVE  OnceInv'
<1>1. task \in Task /\ link \in Link
  BY DEF TypeInv, TypeOK
<1> DEFINE op == BeginLink(task, link)
<1>2. CASE MayCreate(link)
  <2>1. /\ op \in Operation /\ op.step = "create" /\ op.reply = "wait"
        /\ link'.uncertain
    BY <1>1, <1>2, BeginLinkOk, WaitingOk
  <2>2. OpFits(op, made)
    BY <1>2, <2>1 DEF OpFits, OnceInv
  <2> HIDE DEF op
  <2>3. ~MayCreate(link') /\ ops' = [ops EXCEPT ![w] = op] /\ NamesWhatDecides'
    BY <1>1, <1>2, <2>1, BeginLinkOk, WaitingOk DEF MayCreate, op, NamesWhatDecides, OwnerDecides
  <2> QED
    BY <1>2, <2>1, <2>2, <2>3, SlotMoves
<1>3. CASE ~MayCreate(link)
  <2>1. /\ op = Idle
        /\ link'.remote = link.remote /\ link'.uncertain = link.uncertain
    BY <1>1, <1>3, BeginLinkOk
  <2>2. Begun(op, {"read"}, link)
    BY <2>1, IdleOk DEF Begun
  <2>3. (MayCreate(link') => MayCreate(link)) /\ NamesWhatDecides'
    <3>1. link'.state = "failed" \/ link' = link
      BY <1>1, <1>3, BeginLinkOk
    <3> QED
      BY <2>1, <3>1 DEF MayCreate, NamesWhatDecides, OwnerDecides, OnceInv
  <2> HIDE DEF op
  <2>4. ops' = [ops EXCEPT ![w] = op]
    BY DEF op
  <2> QED
    BY <2>2, <2>3, <2>4, Harmless
<1> QED
  BY <1>2, <1>3

LEMMA RetryOnce ==
  ASSUME TypeInv, OnceInv, ~unlinked, NEW w \in Slots, RetryOne(w)
  PROVE  OnceInv'
<1>1. task \in Task /\ link \in Link /\ ~task.trashed
  BY DEF TypeInv, TypeOK, OnceInv
<1>2. /\ ops' = [ops EXCEPT ![w] = RetryOp(task, link)] /\ link' = RetryLink(task, link)
      /\ made' = made /\ ~task'.trashed
  BY <1>1 DEF RetryOne, Start
<1>3. \/ Begun(RetryOp(task, link), {"read"}, link) /\ RetryLink(task, link) = link
      \/ RetryOp(task, link) = BeginLink(task, link) /\ RetryLink(task, link) = LinkAtBegin(task, link)
  BY <1>1, RetryOk
<1>4. CASE Begun(RetryOp(task, link), {"read"}, link) /\ RetryLink(task, link) = link
  <2>1. link' = link /\ NamesWhatDecides'
    BY <1>2, <1>4 DEF OnceInv, NamesWhatDecides
  <2> QED
    BY <1>2, <1>4, <2>1, Harmless
<1>5. CASE RetryOp(task, link) = BeginLink(task, link) /\ RetryLink(task, link) = LinkAtBegin(task, link)
  <2>1. ops' = [ops EXCEPT ![w] = BeginLink(task, link)] /\ link' = LinkAtBegin(task, link)
    BY <1>2, <1>5
  <2> QED
    BY <1>2, <2>1, LinkBegins
<1> QED
  BY <1>3, <1>4, <1>5

\* The owner starts a request of a link that has a record.
LEMMA RequestOnce ==
  ASSUME TypeInv, OnceInv, ~unlinked, NEW w \in Slots, NEW op, NEW step \in {"drift", "conflict"},
         NEW t, Request(op, step, t, link), link.remote # NoId, Start(w, op),
         UNCHANGED <<task, link, made>>
  PROVE  OnceInv'
<1>1. OpFits(op, made) /\ op \in Operation /\ op.step # "create"
  BY DEF Request, OpFits
<1>2. ops' = [ops EXCEPT ![w] = op] /\ ~task'.trashed /\ NamesWhatDecides'
  BY DEF Start, OnceInv, NamesWhatDecides
<1> QED
  BY <1>1, <1>2, SlotMoves

LEMMA OwnerOnce ==
  ASSUME TypeInv, OnceInv, ~unlinked', NEW w \in Slots, OwnerActs(w)
  PROVE  OnceInv'
<1>1. task \in Task /\ link \in Link /\ unlinked \in BOOLEAN /\ TRUE \in BOOLEAN /\ FALSE \in BOOLEAN
  BY DEF TypeInv, TypeOK
<1>2. ~unlinked
  BY DEF OwnerActs, SetStatus, Edit, CreateLink, Synchronize, Recreate, RemoveLink, TrashPreserve,
         TrashDelete, Restore, AcceptDrift, RestoreDrift, AcceptConflict, RestoreConflict,
         OwnerRetry, RetryOne, RecoverCreation
<1>3. /\ ~task.trashed /\ NamesWhatDecides
      /\ link' = link => NamesWhatDecides'
  BY <1>2 DEF OnceInv, NamesWhatDecides
<1>4. ASSUME NEW s \in Statuses, SetStatus(w, s) PROVE OnceInv'
  <2>1. task' \in Task /\ ~task'.trashed
    BY <1>1, <1>3, <1>4 DEF SetStatus, Task
  <2>2. Begun(PushStatus(task', link, FALSE), {"status", "content"}, link)
    BY <1>1, <2>1, PushStatusOk, Zenon
  <2>3. /\ ops' = [ops EXCEPT ![w] = PushStatus(task', link, FALSE)]
        /\ link' = link /\ made' = made
    BY <1>4 DEF SetStatus, Start
  <2> QED
    BY <1>2, <1>3, <2>1, <2>2, <2>3, Harmless
<1>5. ASSUME NEW c \in Contents, Edit(w, c) PROVE OnceInv'
  <2>1. task' \in Task /\ ~task'.trashed
    BY <1>1, <1>3, <1>5 DEF Edit, Task
  <2>2. Begun(PushContent(task', link), {"content"}, link)
    BY <1>1, <2>1, PushContentOk
  <2>3. /\ ops' = [ops EXCEPT ![w] = PushContent(task', link)]
        /\ link' = link /\ made' = made
    BY <1>5 DEF Edit, Start
  <2> QED
    BY <1>2, <1>3, <2>1, <2>2, <2>3, Harmless
<1>6. ASSUME CreateLink(w) PROVE OnceInv'
  BY <1>2, <1>3, <1>6, LinkBegins DEF CreateLink, Start
<1>7. ASSUME Synchronize(w) PROVE OnceInv'
  <2>1. Begun(Inspect(task, link, FALSE), {"read"}, link)
    BY <1>1, InspectOk, Zenon
  <2>2. /\ ops' = [ops EXCEPT ![w] = Inspect(task, link, FALSE)]
        /\ link' = link /\ made' = made /\ task' = task
    BY <1>7 DEF Synchronize, Start
  <2> QED
    BY <1>2, <1>3, <2>1, <2>2, Harmless
<1>8. ASSUME AcceptDrift(w) PROVE OnceInv'
  <2>1. ~task'.trashed /\ UNCHANGED <<ops, made, unlinked>>
    BY <1>1, <1>3, <1>8 DEF AcceptDrift, Task
  <2>2. link'.remote = link.remote /\ link'.uncertain = link.uncertain /\ link'.state = "synchronized"
    BY <1>1, <1>8 DEF AcceptDrift, Link
  <2> QED
    BY <1>1, <1>2, <2>1, <2>2, LinkChanges DEF MayCreate, NamesWhatDecides, OwnerDecides
<1>9. ASSUME AcceptConflict(w) PROVE OnceInv'
  <2>1. ~task'.trashed /\ UNCHANGED <<ops, made, unlinked>>
    BY <1>1, <1>3, <1>9 DEF AcceptConflict, Task
  <2>2. link'.remote = link.remote /\ link'.uncertain = link.uncertain /\ link'.state = "synchronized"
    BY <1>1, <1>9 DEF AcceptConflict, Link
  <2> QED
    BY <1>1, <1>2, <2>1, <2>2, LinkChanges DEF MayCreate, NamesWhatDecides, OwnerDecides
<1>10. ASSUME RestoreDrift(w) PROVE OnceInv'
  <2>1. Request(Sent("drift", FALSE, task, link), "drift", task, link)
    BY <1>1, SentFrom, StepsOk, Zenon
  <2>2. link.remote # NoId
    BY <1>3, <1>10 DEF RestoreDrift, NamesWhatDecides, OwnerDecides
  <2> QED
    BY <1>2, <1>10, <2>1, <2>2, RequestOnce DEF RestoreDrift
<1>11. ASSUME RestoreConflict(w) PROVE OnceInv'
  <2>1. Request(Sent("conflict", FALSE, task, link), "conflict", task, link)
    BY <1>1, SentFrom, StepsOk, Zenon
  <2>2. link.remote # NoId
    BY <1>3, <1>11 DEF RestoreConflict, NamesWhatDecides, OwnerDecides
  <2> QED
    BY <1>2, <1>11, <2>1, <2>2, RequestOnce DEF RestoreConflict
<1>12. ASSUME OwnerRetry(w) PROVE OnceInv'
  BY <1>2, <1>12, RetryOnce DEF OwnerRetry
<1>13. ASSUME NEW i \in Ids, RecoverCreation(w, i) PROVE OnceInv'
  <2> DEFINE op == [Sent("recover", FALSE, task, link) EXCEPT !.id = i]
  <2>1. Request(Sent("recover", FALSE, task, link), "recover", task, link)
    BY <1>1, SentFrom, StepsOk, Zenon
  <2>2. op \in Operation /\ op.step = "recover" /\ op.id = i
    BY <2>1 DEF Request, Operation
  <2>3. ops' = [ops EXCEPT ![w] = op] /\ UNCHANGED <<task, link, made>>
    BY <1>13 DEF RecoverCreation, Start
  <2> HIDE DEF op
  <2>4. i # NoId
    BY TaskLinkAssumption DEF Ids, NoId
  <2>5. OpFits(op, made)
    BY <2>2, <2>4 DEF OpFits
  <2> QED
    BY <1>2, <1>3, <2>2, <2>3, <2>5, SlotMoves
<1>14. ASSUME Restore(w) PROVE OnceInv'
  BY <1>3, <1>14 DEF Restore
<1> QED
  BY <1>4, <1>5, <1>6, <1>7, <1>8, <1>9, <1>10, <1>11, <1>12, <1>13, <1>14
     DEF OwnerActs, Recreate, RemoveLink, TrashPreserve, TrashDelete

LEMMA ProviderOnce ==
  ASSUME TypeInv, OnceInv, ~unlinked', NEW w \in Slots, ProviderActs(w) \/ RequestFails(w)
  PROVE  OnceInv'
<1>1. /\ ops \in [Slots -> Operation] /\ ops[w] \in Operation
      /\ made \in 0..MaxRecords /\ MaxRecords \in Nat
  BY TaskLinkAssumption DEF TypeInv, TypeOK
<1>2. /\ ~unlinked /\ task' = task /\ link' = link
      /\ made' = made \/ ProviderCreates(w)
  BY DEF ProviderActs, ProviderCreates, ProviderUpdates, ProviderReads, ProviderMisses, RequestFails
<1>3. /\ ~task.trashed /\ NamesWhatDecides'
      /\ OpFits(ops[w], made)
  BY <1>2 DEF OnceInv, NamesWhatDecides
<1>4. CASE ProviderCreates(w)
  <2>1. Creating(w) /\ ops[w].reply = "wait"
    BY <1>4 DEF ProviderCreates, Open, Creating
  <2>2. made = 0 /\ made' = 1 /\ ~MayCreate(link)
    BY <1>2, <1>3, <1>4, <2>1 DEF ProviderCreates, OnceInv, OpFits, Creating
  <2>3. PICK reply \in {"ok", "other"} : ops' = [ops EXCEPT ![w].reply = reply, ![w].id = made + 1]
    BY <1>4 DEF ProviderCreates
  <2>4. \A v \in Slots : /\ ops'[v].step = ops[v].step
                         /\ v # w => ops'[v] = ops[v]
    BY <1>1, <2>3 DEF Operation
  <2>5. ops'[w].id = 1 /\ ops'[w].reply \in {"ok", "other"} /\ ops'[w].step = "create"
    BY <1>1, <2>1, <2>2, <2>3 DEF Operation, Creating
  <2>6. \A v \in Slots : OpFits(ops'[v], made')
    <3> TAKE v \in Slots
    <3>1. CASE v = w
      BY <2>5, <3>1 DEF OpFits, NoId
    <3>2. CASE v # w
      <4>1. OpFits(ops[v], made) /\ ops[v].step # "create"
        BY <1>2, <2>1, <3>2 DEF OnceInv, Creating
      <4> QED
        BY <2>4, <3>2, <4>1 DEF OpFits
    <3> QED
      BY <3>1, <3>2
  <2> QED
    BY <1>2, <1>3, <2>2, <2>4, <2>6 DEF OnceInv, Creating, MayCreate
<1>5. CASE ~ProviderCreates(w)
  <2>1. PICK reply \in Replies, seen \in Projection :
          /\ ops' = [ops EXCEPT ![w] = [ops[w] EXCEPT !.reply = reply, !.seen = seen]]
          /\ reply = "ok" => ops[w].step # "create"
    <3>1. ops[w].seen \in Projection
      BY <1>1 DEF Operation
    <3>2. ASSUME NEW reply, Answer(w, reply)
          PROVE  ops' = [ops EXCEPT ![w] = [ops[w] EXCEPT !.reply = reply, !.seen = ops[w].seen]]
      BY <1>1, <3>2 DEF Answer, Operation
    <3>3. CASE RequestFails(w)
      <4>1. PICK reply \in {"auth", "refused", "other"} : Answer(w, reply)
        BY <3>3 DEF RequestFails
      <4>2. reply \in Replies /\ reply # "ok"
        BY DEF Replies
      <4> QED
        BY <3>1, <3>2, <4>1, <4>2
    <3>4. CASE ProviderUpdates(w)
      <4>1. PICK reply \in {"ok", "other"} : Answer(w, reply)
        BY <3>4 DEF ProviderUpdates
      <4>2. reply \in Replies /\ ops[w].step # "create"
        BY <3>4 DEF Replies, ProviderUpdates
      <4> QED
        BY <3>1, <3>2, <4>1, <4>2
    <3>5. CASE ProviderMisses(w)
      BY <3>1, <3>2, <3>5 DEF ProviderMisses, Replies
    <3>6. CASE ProviderReads(w)
      <4> DEFINE r == provider[ops[w].id]
      <4>1. r \in [there : BOOLEAN, status : Statuses, content : Contents]
        BY <3>6 DEF ProviderReads, There, TypeInv, TypeOK
      <4>2. [status |-> r.status, content |-> r.content] \in Projection
        BY <4>1 DEF Projection
      <4>3. ops' = [ops EXCEPT ![w] = [ops[w] EXCEPT !.reply = "ok",
                                         !.seen = [status |-> r.status, content |-> r.content]]]
        BY <1>1, <3>6 DEF ProviderReads
      <4> QED
        BY <3>6, <4>2, <4>3 DEF ProviderReads, Replies
    <3> QED
      BY <1>5, <3>3, <3>4, <3>5, <3>6 DEF ProviderActs
  <2> DEFINE op == [ops[w] EXCEPT !.reply = reply, !.seen = seen]
  <2>2. /\ op \in Operation /\ op.step = ops[w].step /\ op.reply = reply
        /\ op.id = ops[w].id /\ op.link = ops[w].link
    BY <1>1 DEF Operation
  <2>3. ops' = [ops EXCEPT ![w] = op]
    BY <2>1
  <2> HIDE DEF op
  <2>4. ops[w].reply = "wait"
    BY <1>5 DEF ProviderActs, ProviderUpdates, ProviderReads, ProviderMisses, RequestFails, Open
  <2>5. OpFits(op, made)
    BY <1>3, <2>1, <2>2, <2>4 DEF OpFits
  <2>6. op.step = "create" => ~MayCreate(link') /\ Creating(w)
    BY <1>2, <2>2 DEF Creating, OnceInv
  <2> QED
    BY <1>2, <1>3, <1>5, <2>2, <2>3, <2>5, <2>6, SlotMoves
<1> QED
  BY <1>4, <1>5

LEMMA ResumesOnce ==
  ASSUME TypeInv, OnceInv, ~unlinked', NEW w \in Slots, Resumes(w)
  PROVE  OnceInv'
<1>1. /\ ops[w] \in Operation /\ task \in Task /\ link \in Link /\ ops[w].link \in Link
  BY DEF TypeInv, TypeOK, Operation
<1>2. /\ ~unlinked /\ made' = made
  <2>1. CASE AfterRead(w)
    BY <2>1 DEF AfterRead
  <2>2. CASE AfterStatus(w)
    BY <2>2 DEF AfterStatus
  <2>3. CASE AfterContent(w)
    BY <2>3 DEF AfterContent
  <2>4. CASE AfterResolve(w)
    BY <2>4 DEF AfterResolve
  <2>5. CASE AfterCreate(w)
    BY <2>5 DEF AfterCreate
  <2>6. CASE AfterComplete(w)
    BY <2>6 DEF AfterComplete
  <2>7. CASE AfterDelete(w)
    BY <2>7 DEF AfterDelete
  <2>8. CASE AfterRecover(w)
    BY <2>8 DEF AfterRecover
  <2> QED
    BY <2>1, <2>2, <2>3, <2>4, <2>5, <2>6, <2>7, <2>8 DEF Resumes
<1>3. /\ ~task.trashed /\ OpFits(ops[w], made) /\ NamesWhatDecides
      /\ Creating(w) => ~MayCreate(link)
  BY <1>2 DEF OnceInv
<1>4. CASE Resuming(w)
  <2>1. WritesBack(w)
    BY <1>4, ResumingWritesBack DEF TypeInv
  <2>2. ops[w].step \notin {"idle", "create", "recover"}
    BY <1>4 DEF Resuming, AfterRead, AfterStatus, AfterContent, AfterResolve, AfterComplete,
                Answered
  <2>3. ops[w].link.remote # NoId
    BY <1>3, <2>2 DEF OpFits
  <2>4. PICK op : Begun(op, {"status", "content"}, link') /\ ops' = [ops EXCEPT ![w] = op]
    BY <2>1 DEF WritesBack
  <2>5. /\ MayCreate(link') => MayCreate(link)
        /\ NamesWhatDecides' /\ ~task'.trashed
    BY <1>3, <2>1, <2>3 DEF WritesBack, Kept, MayCreate, NamesWhatDecides
  <2> QED
    BY <1>2, <2>4, <2>5, Harmless
<1>5. CASE AfterCreate(w)
  <2>1. Creating(w) /\ task' = task
    BY <1>5 DEF AfterCreate, Answered, Creating
  <2>2. AfterCreateSays(w)
    BY <1>5, CreateResumes
  <2>3. PICK op \in Operation :
          /\ op = Idle \/ (op.step = "complete" /\ op.link = link' /\ link' = CreatedLink(ops[w]))
          /\ ops' = [ops EXCEPT ![w] = op]
    BY <2>2 DEF AfterCreateSays
  <2>4. /\ CreatedLink(ops[w]).remote = ops[w].id
        /\ CreatedLink(ops[w]).state = "synchronized"
    BY <1>1, CreatedOk
  <2>5. CASE ops[w].reply = "ok"
    <3>1. ops[w].id # NoId
      BY <1>3, <2>1, <2>5 DEF OpFits, Creating
    <3>2. OpFits(op, made) /\ op.step # "create"
      BY <2>3, <2>4, <3>1, IdleOk DEF OpFits
    <3>3. link' = link \/ link' = CreatedLink(ops[w])
      BY <2>2, <2>5 DEF AfterCreateSays
    <3>4. (MayCreate(link') => MayCreate(link)) /\ NamesWhatDecides'
      BY <1>3, <2>4, <3>1, <3>3 DEF MayCreate, NamesWhatDecides
    <3> QED
      BY <1>2, <1>3, <2>1, <2>3, <3>2, <3>4, SlotMoves
  <2>6. CASE ops[w].reply # "ok"
    <3>1. \/ link' = link
          \/ /\ link'.remote = NoId /\ link'.state = "failed"
             /\ link'.uncertain = (ops[w].reply = "other")
      BY <2>2, <2>6 DEF AfterCreateSays
    <3>2. MayCreate(link') => MayCreate(link) \/ made = 0
      BY <1>3, <2>1, <2>6, <3>1 DEF MayCreate, OpFits, Creating
    <3>3. NamesWhatDecides'
      BY <1>3, <3>1 DEF NamesWhatDecides, OwnerDecides
    <3>4. op = Idle
      BY <1>5, <2>3, <2>6 DEF AfterCreate, Ended, Start, TypeInv, TypeOK
    <3>5. OpFits(op, made) /\ op.step # "create"
      BY <3>4, IdleOk DEF OpFits
    <3> QED
      BY <1>2, <1>3, <2>1, <2>3, <3>2, <3>3, <3>5, SlotMoves
  <2> QED
    BY <2>5, <2>6
<1>6. CASE AfterDelete(w)
  BY <1>3, <1>6 DEF AfterDelete, Answered, OpFits
<1>7. CASE AfterRecover(w)
  <2> DEFINE l == [ops[w].link EXCEPT !.state = "synchronized", !.remote = ops[w].id,
                                      !.uncertain = FALSE, !.failure = "none"]
  <2>1. l \in Link /\ l.remote = ops[w].id /\ l.state = "synchronized"
    BY <1>1, RecoveredOk
  <2>2. ops[w].id # NoId
    BY <1>3, <1>7 DEF AfterRecover, Answered, OpFits
  <2>3. \/ link' \in {link, l} /\ Ended(w)
        \/ link' = RetryLink(task, l) /\ Start(w, RetryOp(task, l))
    BY <1>7 DEF AfterRecover
  <2> HIDE DEF l
  <2>4. task' = task /\ ~MayCreate(l)
    BY <1>7, <2>1, <2>2 DEF AfterRecover, MayCreate
  <2>5. CASE link' \in {link, l} /\ Ended(w)
    <3>1. (MayCreate(link') => MayCreate(link)) /\ NamesWhatDecides'
      BY <1>3, <2>1, <2>2, <2>4, <2>5 DEF NamesWhatDecides, MayCreate
    <3>2. Begun(Idle, {"read"}, link) /\ ops' = [ops EXCEPT ![w] = Idle]
      BY <2>5, IdleOk DEF Begun, Ended, Start
    <3> QED
      BY <1>2, <1>3, <2>4, <3>1, <3>2, Harmless
  <2>6. CASE link' = RetryLink(task, l) /\ Start(w, RetryOp(task, l))
    <3>1. Begun(RetryOp(task, l), {"read"}, l) /\ link'.remote # NoId
      <4>1. \/ Begun(RetryOp(task, l), {"read"}, l) /\ RetryLink(task, l) = l
            \/ /\ RetryOp(task, l) = BeginLink(task, l) /\ RetryLink(task, l) = LinkAtBegin(task, l)
        BY <1>1, <1>3, <2>1, RetryOk
      <4>2. BeginLink(task, l) = Idle /\ LinkAtBegin(task, l).remote = l.remote
        BY <1>1, <2>1, <2>4, BeginLinkOk
      <4>3. Begun(Idle, {"read"}, l)
        BY IdleOk DEF Begun
      <4> QED
        BY <2>1, <2>2, <2>6, <4>1, <4>2, <4>3
    <3>2. (MayCreate(link') => MayCreate(link)) /\ NamesWhatDecides'
      BY <3>1 DEF MayCreate, NamesWhatDecides
    <3>3. ops' = [ops EXCEPT ![w] = RetryOp(task, l)]
      BY <2>6 DEF Start
    <3> QED
      BY <1>2, <1>3, <2>4, <3>1, <3>2, <3>3, Harmless
  <2> QED
    BY <2>3, <2>5, <2>6
<1> QED
  BY <1>4, <1>5, <1>6, <1>7 DEF Resumes, Resuming

LEMMA OtherOnce ==
  ASSUME TypeInv, OnceInv, ~unlinked',
         (\E w \in Slots : Refresh(w)) \/ (\E i \in Ids : OutsideEdit(i)) \/ Reconnect \/ Crash
           \/ UNCHANGED vars
  PROVE  OnceInv'
<1>1. ASSUME NEW w \in Slots, Refresh(w) PROVE OnceInv'
  BY <1>1, RetryOnce DEF Refresh, RetryOne
<1>2. ASSUME NEW i \in Ids, OutsideEdit(i) PROVE OnceInv'
  BY <1>2 DEF OutsideEdit, OnceInv, Creating, OpFits, MayCreate, NamesWhatDecides
<1>3. CASE Reconnect
  <2>1. link'.remote = link.remote /\ link'.uncertain = link.uncertain /\ link'.state = link.state
    BY <1>3 DEF Reconnect, TypeInv, TypeOK, Link
  <2>2. ~unlinked /\ ~task'.trashed /\ UNCHANGED <<ops, made, unlinked>> /\ NamesWhatDecides
    BY <1>3 DEF Reconnect, OnceInv
  <2>3. (MayCreate(link') => MayCreate(link)) /\ NamesWhatDecides'
    BY <2>1, <2>2 DEF MayCreate, NamesWhatDecides, OwnerDecides
  <2>4. unlinked \in BOOLEAN
    BY DEF TypeInv, TypeOK
  <2> QED
    BY <2>2, <2>3, <2>4, LinkChanges
<1>4. CASE Crash
  <2>1. \A w \in Slots : ops'[w] = Idle
    BY <1>4 DEF Crash
  <2>2. \A w \in Slots : OpFits(ops'[w], made') /\ ops'[w].step # "create"
    BY <2>1, IdleOk DEF OpFits
  <2> QED
    BY <1>4, <2>2 DEF Crash, OnceInv, Creating, MayCreate, NamesWhatDecides
<1>5. CASE UNCHANGED vars
  BY <1>5 DEF vars, OnceInv, Creating, OpFits, MayCreate, NamesWhatDecides
<1> QED
  BY <1>1, <1>2, <1>3, <1>4, <1>5

LEMMA OnceStep == TypeInv /\ OnceInv /\ [Next]_vars => OnceInv'
<1> SUFFICES ASSUME TypeInv, OnceInv, [Next]_vars PROVE OnceInv'
  OBVIOUS
<1>1. CASE unlinked'
  BY <1>1 DEF OnceInv
<1>2. CASE ~unlinked'
  BY <1>2, OwnerOnce, ProviderOnce, ResumesOnce, OtherOnce DEF Next
<1> QED
  BY <1>1, <1>2

LEMMA OnceInit == Init => OnceInv
BY IdleOk, NoLinkOk DEF Init, OnceInv, NoTask, NamesWhatDecides, OwnerDecides, OpFits, Creating

\* link, retry and recover: until the owner ends or replaces the link, no lost
\* answer, crash or overlap of any number of operations creates a second record
\* for the Task.
THEOREM CreatedOnce == Spec => []CreateOnce
<1>1. TypeInv /\ OnceInv => CreateOnce
  BY DEF OnceInv, CreateOnce
<1> QED
  BY <1>1, TypeInit, TypeStep, OnceInit, OnceStep, PTL DEF Spec

-----------------------------------------------------------------------------
(* Conflicts                                                               *)

\* The mark of an unanswered creation and a known record exclude each other.
Settled(l) == l.uncertain => l.remote = NoId /\ l.state \in {"waiting", "failed"}

\* What an operation read before its await: a conflict only to resolve it, or to
\* delete the record.
OpSettled(op) ==
  /\ Settled(op.link)
  /\ op.step \notin {"idle", "create", "recover"} => op.link.remote # NoId
  /\ op.step = "create" /\ op.reply = "ok" => op.id # NoId
  /\ op.link.state = "conflicted" => op.step \in {"conflict", "delete"}

\* A link keeps its record while it is read, pushed or decided about, and so do
\* the links that operations in flight have read.
ReadInv ==
  /\ Settled(link) /\ NamesWhatDecides
  /\ \A w \in Slots : OpSettled(ops[w])

LEMMA SlotSettles ==
  ASSUME TypeInv, ReadInv, NEW w \in Slots, NEW op, Start(w, op),
         OpSettled(op), Settled(link'), NamesWhatDecides'
  PROVE  ReadInv'
<1>1. \A v \in Slots : ops'[v] = IF v = w THEN op ELSE ops[v]
  BY DEF Start, TypeInv, TypeOK
<1>2. \A v \in Slots : OpSettled(ops'[v])
  BY <1>1 DEF ReadInv
<1> QED
  BY <1>2 DEF ReadInv, OpSettled, Settled

LEMMA IdleSettled ==
  OpSettled(Idle) /\ Idle.step = "idle" /\ Settled(NoLink)
BY IdleOk, NoLinkOk DEF OpSettled, Settled

LEMMA BegunSettled ==
  ASSUME NEW op, NEW steps, NEW l, Settled(l), Begun(op, steps, l),
         \/ steps \subseteq {"read", "status", "content"} /\ (OwnerDecides(l) => op = Idle)
         \/ steps = {"delete"}
  PROVE  OpSettled(op)
<1>1. CASE op = Idle
  BY <1>1, IdleSettled
<1>2. CASE op # Idle
  BY <1>2 DEF Begun, OpSettled, OwnerDecides
<1> QED
  BY <1>1, <1>2

LEMMA LinkBeginsSettles ==
  ASSUME TypeInv, ReadInv, NEW w \in Slots, NEW t \in Task, NEW l \in Link,
         Settled(l), OwnerDecides(l) => l.remote # NoId,
         Start(w, BeginLink(t, l)), link' = LinkAtBegin(t, l)
  PROVE  ReadInv'
<1> DEFINE op == BeginLink(t, l)
<1>1. CASE MayCreate(l)
  <2>1. /\ op.step = "create" /\ op.reply = "wait" /\ op.link = Waiting(t) /\ link' = Waiting(t)
        /\ Waiting(t).remote = NoId /\ Waiting(t).state = "waiting"
    BY <1>1, BeginLinkOk, WaitingOk
  <2>2. OpSettled(op) /\ Settled(link') /\ NamesWhatDecides'
    BY <2>1 DEF OpSettled, Settled, NamesWhatDecides, OwnerDecides
  <2> HIDE DEF op
  <2>3. Start(w, op)
    BY DEF op
  <2> QED
    BY <2>1, <2>2, <2>3, SlotSettles
<1>2. CASE ~MayCreate(l)
  <2>1. /\ op = Idle
        /\ link'.remote = l.remote /\ link'.uncertain = l.uncertain
        /\ (l.uncertain /\ link'.state = "failed") \/ (~l.uncertain /\ link' = l)
    BY <1>2, BeginLinkOk
  <2>2. Settled(link') /\ NamesWhatDecides'
    BY <2>1 DEF Settled, NamesWhatDecides, OwnerDecides
  <2> QED
    BY <2>1, <2>2, IdleSettled, SlotSettles
<1> QED
  BY <1>1, <1>2

LEMMA RetrySettles ==
  ASSUME TypeInv, ReadInv, NEW w \in Slots, task \in Task, NEW l \in Link,
         Settled(l), OwnerDecides(l) => l.remote # NoId, task' = task,
         Start(w, RetryOp(task, l)), link' = RetryLink(task, l)
  PROVE  ReadInv'
<1>1. CASE task.trashed
  <2>1. /\ Begun(RetryOp(task, l), {"delete"}, l)
        /\ link' = IF RetryOp(task, l) = Idle THEN NoLink ELSE l
    BY <1>1, RetryOk
  <2>2. OpSettled(RetryOp(task, l))
    BY <1>1, <2>1, BegunSettled
  <2>3. Settled(link') /\ NamesWhatDecides'
    BY <2>1, NoLinkOk, IdleSettled DEF NamesWhatDecides, OwnerDecides
  <2> QED
    BY <2>2, <2>3, SlotSettles
<1>2. CASE ~task.trashed
  <2>1. \/ Begun(RetryOp(task, l), {"read"}, l) /\ RetryLink(task, l) = l
        \/ RetryOp(task, l) = BeginLink(task, l) /\ RetryLink(task, l) = LinkAtBegin(task, l)
    BY <1>2, RetryOk
  <2>2. CASE Begun(RetryOp(task, l), {"read"}, l) /\ RetryLink(task, l) = l
    <3>1. OwnerDecides(l) => RetryOp(task, l) = Idle
      BY <1>2, RetryOk
    <3>2. OpSettled(RetryOp(task, l))
      BY <2>2, <3>1, BegunSettled
    <3>3. Settled(link') /\ NamesWhatDecides'
      BY <2>2 DEF NamesWhatDecides, OwnerDecides
    <3> QED
      BY <3>2, <3>3, SlotSettles
  <2>3. CASE RetryOp(task, l) = BeginLink(task, l) /\ RetryLink(task, l) = LinkAtBegin(task, l)
    BY <2>3, LinkBeginsSettles
  <2> QED
    BY <2>1, <2>2, <2>3
<1> QED
  BY <1>1, <1>2

LEMMA OwnerSettles ==
  ASSUME TypeInv, ReadInv, NEW w \in Slots, OwnerActs(w)
  PROVE  ReadInv'
<1>1. /\ task \in Task /\ link \in Link /\ ops \in [Slots -> Operation]
      /\ TRUE \in BOOLEAN /\ FALSE \in BOOLEAN
  BY DEF TypeInv, TypeOK
<1>2. /\ Settled(link) /\ NamesWhatDecides /\ OpSettled(ops[w])
      /\ OwnerDecides(link) => link.remote # NoId
      /\ link' = link => NamesWhatDecides' /\ Settled(link')
  BY DEF ReadInv, NamesWhatDecides, Settled, OwnerDecides
<1>5. ASSUME UNCHANGED ops, Settled(link'), NamesWhatDecides' PROVE ReadInv'
  <2>1. Start(w, ops[w])
    BY <1>1, <1>5 DEF Start
  <2> QED
    BY <1>2, <1>5, <2>1, SlotSettles
<1>6. ASSUME NEW op, NEW steps, Start(w, op), Begun(op, steps, link), link' = link,
             steps \subseteq {"read", "status", "content"}, OwnerDecides(link) => op = Idle
      PROVE  ReadInv'
  <2>1. OpSettled(op)
    BY <1>2, <1>6, BegunSettled
  <2> QED
    BY <1>2, <1>6, <2>1, SlotSettles
<1>7. ASSUME NEW s \in Statuses, SetStatus(w, s) PROVE ReadInv'
  <2>1. task' \in Task
    BY <1>1, <1>7 DEF SetStatus, Task
  <2>2. /\ Begun(PushStatus(task', link, FALSE), {"status", "content"}, link)
        /\ OwnerDecides(link) => PushStatus(task', link, FALSE) = Idle
    BY <1>1, <2>1, PushStatusOk, Zenon
  <2> QED
    BY <1>6, <1>7, <2>2 DEF SetStatus
<1>8. ASSUME NEW c \in Contents, Edit(w, c) PROVE ReadInv'
  <2>1. task' \in Task
    BY <1>1, <1>8 DEF Edit, Task
  <2>2. /\ Begun(PushContent(task', link), {"content"}, link)
        /\ OwnerDecides(link) => PushContent(task', link) = Idle
    BY <1>1, <2>1, PushContentOk
  <2> QED
    BY <1>6, <1>8, <2>2 DEF Edit
<1>9. ASSUME CreateLink(w) PROVE ReadInv'
  BY <1>1, <1>2, <1>9, LinkBeginsSettles DEF CreateLink
<1>10. ASSUME Synchronize(w) PROVE ReadInv'
  <2>1. /\ Begun(Inspect(task, link, FALSE), {"read"}, link)
        /\ OwnerDecides(link) => Inspect(task, link, FALSE) = Idle
    BY <1>1, InspectOk, Zenon
  <2> QED
    BY <1>6, <1>10, <2>1 DEF Synchronize
<1>11. ASSUME Recreate(w) PROVE ReadInv'
  <2> DEFINE l == [link EXCEPT !.state = "waiting", !.remote = NoId, !.failure = "none",
                               !.uncertain = FALSE]
  <2>1. l \in Link /\ l.state = "waiting" /\ ~l.uncertain
    BY <1>1 DEF Link, States, Failures
  <2>2. Settled(l) /\ ~OwnerDecides(l)
    BY <2>1 DEF Settled, OwnerDecides
  <2>3. link' = LinkAtBegin(task, l) /\ Start(w, BeginLink(task, l))
    BY <1>11 DEF Recreate
  <2> HIDE DEF l
  <2> QED
    BY <1>1, <2>1, <2>2, <2>3, LinkBeginsSettles
<1>12. ASSUME link' = NoLink, UNCHANGED ops PROVE ReadInv'
  <2>1. Settled(link') /\ NamesWhatDecides'
    BY <1>12, NoLinkOk, IdleSettled DEF NamesWhatDecides, OwnerDecides
  <2> QED
    BY <1>5, <1>12, <2>1
<1>13. ASSUME TrashDelete(w) PROVE ReadInv'
  <2>1. task' \in Task /\ task'.trashed
    BY <1>1, <1>13 DEF TrashDelete, Task
  <2> DEFINE op == DeleteExternal(task', link)
  <2>2. Begun(op, {"delete"}, link)
    BY <1>1, <2>1, DeleteOk
  <2>3. link' = (IF op = Idle THEN NoLink ELSE link) /\ Start(w, op)
    BY <1>13 DEF TrashDelete
  <2> HIDE DEF op
  <2>4. OpSettled(op)
    BY <1>2, <2>2, BegunSettled
  <2>5. Settled(link') /\ NamesWhatDecides'
    BY <1>2, <2>3, NoLinkOk, IdleSettled DEF NamesWhatDecides, OwnerDecides
  <2> QED
    BY <2>3, <2>4, <2>5, SlotSettles
<1>14. ASSUME Restore(w) PROVE ReadInv'
  BY <1>2, <1>5, <1>14 DEF Restore
<1>15. ASSUME AcceptDrift(w) \/ AcceptConflict(w) PROVE ReadInv'
  <2>1. link'.remote = link.remote /\ link'.uncertain = link.uncertain /\ link'.state = "synchronized"
    BY <1>1, <1>15 DEF AcceptDrift, AcceptConflict, Link
  <2>2. ~link.uncertain
    BY <1>2, <1>15 DEF AcceptDrift, AcceptConflict, Settled
  <2>3. Settled(link') /\ NamesWhatDecides' /\ UNCHANGED ops
    BY <1>15, <2>1, <2>2 DEF Settled, NamesWhatDecides, OwnerDecides, AcceptDrift, AcceptConflict
  <2> QED
    BY <1>5, <2>3
<1>16. ASSUME NEW op, NEW step \in {"drift", "conflict"}, Request(op, step, task, link), Start(w, op),
              link' = link, OwnerDecides(link), (link.state = "conflicted") = (step = "conflict")
       PROVE  ReadInv'
  <2>1. OpSettled(op)
    BY <1>2, <1>16 DEF OpSettled, Request
  <2> QED
    BY <1>2, <1>16, <2>1, SlotSettles
<1>17. ASSUME RestoreDrift(w) PROVE ReadInv'
  <2>1. Request(Sent("drift", FALSE, task, link), "drift", task, link)
    BY <1>1, SentFrom, StepsOk, Zenon
  <2> QED
    BY <1>16, <1>17, <2>1 DEF RestoreDrift, OwnerDecides
<1>18. ASSUME RestoreConflict(w) PROVE ReadInv'
  <2>1. Request(Sent("conflict", FALSE, task, link), "conflict", task, link)
    BY <1>1, SentFrom, StepsOk, Zenon
  <2> QED
    BY <1>16, <1>18, <2>1 DEF RestoreConflict, OwnerDecides
<1>19. ASSUME OwnerRetry(w) PROVE ReadInv'
  BY <1>1, <1>2, <1>19, RetrySettles DEF OwnerRetry, RetryOne
<1>20. ASSUME NEW i \in Ids, RecoverCreation(w, i) PROVE ReadInv'
  <2> DEFINE op == [Sent("recover", FALSE, task, link) EXCEPT !.id = i]
  <2>1. Request(Sent("recover", FALSE, task, link), "recover", task, link)
    BY <1>1, SentFrom, StepsOk, Zenon
  <2>2. op.step = "recover" /\ op.link = link
    BY <2>1 DEF Request, Operation
  <2>3. Start(w, op) /\ link' = link /\ link.uncertain
    BY <1>20 DEF RecoverCreation
  <2> HIDE DEF op
  <2>4. OpSettled(op)
    BY <1>2, <2>2, <2>3 DEF OpSettled, Settled
  <2> QED
    BY <1>2, <2>3, <2>4, SlotSettles
<1> QED
  BY <1>7, <1>8, <1>9, <1>10, <1>11, <1>12, <1>13, <1>14, <1>15, <1>17, <1>18, <1>19, <1>20
     DEF OwnerActs, RemoveLink, TrashPreserve

\* An answer changes nothing of an operation but the answer, and what it names
\* once created.
LEMMA AnswerLeaves ==
  ASSUME TypeInv, NEW w \in Slots, ProviderActs(w) \/ RequestFails(w)
  PROVE  /\ task' = task /\ link' = link
         /\ ops'[w].step = ops[w].step /\ ops'[w].link = ops[w].link
         /\ ops'[w].step = "create" /\ ops'[w].reply = "ok" => ops'[w].id # NoId
         /\ Start(w, ops'[w])
<1>1. ops \in [Slots -> Operation] /\ ops[w] \in Operation /\ made \in Nat
  BY DEF TypeInv, TypeOK
<1>2. ASSUME NEW reply, Answer(w, reply)
      PROVE  /\ ops'[w].step = ops[w].step /\ ops'[w].link = ops[w].link /\ ops'[w].reply = reply
             /\ Start(w, ops'[w])
  BY <1>1, <1>2 DEF Answer, Operation, Start
<1>3. CASE RequestFails(w)
  <2>1. PICK reply \in {"auth", "refused", "other"} : Answer(w, reply)
    BY <1>3 DEF RequestFails
  <2> QED
    BY <1>2, <1>3, <2>1 DEF RequestFails
<1>4. CASE ProviderUpdates(w)
  <2>1. PICK reply \in {"ok", "other"} : Answer(w, reply)
    BY <1>4 DEF ProviderUpdates
  <2> QED
    BY <1>2, <1>4, <2>1 DEF ProviderUpdates
<1>5. CASE ProviderMisses(w)
  BY <1>2, <1>5 DEF ProviderMisses
<1>6. CASE ProviderReads(w)
  BY <1>1, <1>6 DEF ProviderReads, Operation, Start
<1>7. CASE ProviderCreates(w)
  <2>1. PICK reply \in {"ok", "other"} : ops' = [ops EXCEPT ![w].reply = reply, ![w].id = made + 1]
    BY <1>7 DEF ProviderCreates
  <2>2. /\ ops'[w].step = ops[w].step /\ ops'[w].link = ops[w].link /\ ops'[w].id = made + 1
        /\ Start(w, ops'[w])
    BY <1>1, <2>1 DEF Operation, Start
  <2> QED
    BY <1>1, <1>7, <2>2 DEF ProviderCreates, NoId
<1> QED
  BY <1>3, <1>4, <1>5, <1>6, <1>7 DEF ProviderActs

LEMMA ProviderSettles ==
  ASSUME TypeInv, ReadInv, NEW w \in Slots, ProviderActs(w) \/ RequestFails(w)
  PROVE  ReadInv'
<1>1. /\ task' = task /\ link' = link
      /\ ops'[w].step = ops[w].step /\ ops'[w].link = ops[w].link
      /\ ops'[w].step = "create" /\ ops'[w].reply = "ok" => ops'[w].id # NoId
      /\ Start(w, ops'[w])
  BY AnswerLeaves
<1>2. OpSettled(ops'[w])
  BY <1>1 DEF ReadInv, OpSettled
<1>3. Settled(link') /\ NamesWhatDecides'
  BY <1>1 DEF ReadInv, NamesWhatDecides, OwnerDecides
<1> QED
  BY <1>1, <1>2, <1>3, SlotSettles

LEMMA ResumesSettles ==
  ASSUME TypeInv, ReadInv, NEW w \in Slots, Resumes(w)
  PROVE  ReadInv'
<1>1. /\ ops \in [Slots -> Operation] /\ ops[w] \in Operation
      /\ task \in Task /\ link \in Link /\ ops[w].link \in Link
  BY DEF TypeInv, TypeOK, Operation
<1>2. /\ Settled(link) /\ NamesWhatDecides /\ OpSettled(ops[w])
      /\ link' = link => NamesWhatDecides' /\ Settled(link')
  BY DEF ReadInv, NamesWhatDecides, Settled, OwnerDecides
<1>3. ASSUME Ended(w), Settled(link'), NamesWhatDecides' PROVE ReadInv'
  <2>1. Start(w, Idle)
    BY <1>3 DEF Ended
  <2> QED
    BY <1>3, <2>1, IdleSettled, SlotSettles
<1>4. CASE Resuming(w)
  <2>1. WritesBack(w)
    BY <1>4, ResumingWritesBack DEF TypeInv
  <2>2. ops[w].step \notin {"idle", "create", "recover"}
    BY <1>4 DEF Resuming, AfterRead, AfterStatus, AfterContent, AfterResolve, AfterComplete,
                Answered
  <2>3. ops[w].link.remote # NoId /\ ~ops[w].link.uncertain
    BY <1>2, <2>2 DEF OpSettled, Settled
  <2>4. PICK op : /\ Begun(op, {"status", "content"}, link') /\ ops' = [ops EXCEPT ![w] = op]
                  /\ OwnerDecides(link') => op = Idle
    BY <2>1 DEF WritesBack
  <2>5. Settled(link') /\ NamesWhatDecides'
    BY <1>2, <2>1, <2>3 DEF WritesBack, Kept, Settled, NamesWhatDecides
  <2>6. OpSettled(op)
    BY <2>4, <2>5, BegunSettled
  <2>7. Start(w, op)
    BY <2>4 DEF Start
  <2> QED
    BY <2>5, <2>6, <2>7, SlotSettles
<1>5. CASE AfterCreate(w)
  <2>1. ops[w].step = "create" /\ task' = task
    BY <1>5 DEF AfterCreate, Answered
  <2>2. AfterCreateSays(w)
    BY <1>5, CreateResumes
  <2>3. PICK op \in Operation :
          /\ op = Idle \/ (op.step = "complete" /\ op.link = link' /\ link' = CreatedLink(ops[w]))
          /\ ops' = [ops EXCEPT ![w] = op]
    BY <2>2 DEF AfterCreateSays
  <2>4. /\ CreatedLink(ops[w]).remote = ops[w].id /\ ~CreatedLink(ops[w]).uncertain
        /\ CreatedLink(ops[w]).state = "synchronized"
    BY <1>1, CreatedOk
  <2>5. Settled(link') /\ NamesWhatDecides'
    BY <1>2, <2>1, <2>2, <2>4 DEF AfterCreateSays, Settled, NamesWhatDecides, OwnerDecides
  <2>6. CASE op = Idle
    <3>1. Start(w, Idle)
      BY <2>3, <2>6 DEF Start
    <3> QED
      BY <2>5, <3>1, IdleSettled, SlotSettles
  <2>7. CASE op # Idle
    <3>1. ops[w].reply = "ok"
      BY <1>1, <1>5, <2>3, <2>7 DEF AfterCreate, Ended, Start
    <3>2. ops[w].id # NoId
      BY <1>2, <2>1, <3>1 DEF OpSettled
    <3>3. OpSettled(op) /\ Start(w, op)
      BY <1>1, <2>3, <2>4, <2>5, <2>7, <3>2 DEF OpSettled, Start
    <3> QED
      BY <2>5, <3>3, SlotSettles
  <2> QED
    BY <2>6, <2>7
<1>6. CASE AfterDelete(w)
  <2>1. ops[w].link.remote # NoId /\ ~ops[w].link.uncertain
    BY <1>2, <1>6 DEF AfterDelete, Answered, OpSettled, Settled
  <2> DEFINE l == [ops[w].link EXCEPT !.state = "failed", !.failure = ops[w].reply]
  <2>2. l.state = "failed" /\ l.uncertain = ops[w].link.uncertain
    BY <1>1 DEF Link
  <2>3. link' \in {NoLink, link, l} /\ Ended(w)
    BY <1>6 DEF AfterDelete, Refreshed
  <2> HIDE DEF l
  <2>4. Settled(link') /\ NamesWhatDecides'
    BY <1>2, <2>1, <2>2, <2>3, NoLinkOk, IdleSettled DEF Settled, NamesWhatDecides, OwnerDecides
  <2> QED
    BY <1>3, <2>3, <2>4
<1>7. CASE AfterRecover(w)
  <2> DEFINE l == [ops[w].link EXCEPT !.state = "synchronized", !.remote = ops[w].id,
                                      !.uncertain = FALSE, !.failure = "none"]
  <2>1. l \in Link /\ l.state = "synchronized" /\ ~l.uncertain
    BY <1>1, RecoveredOk
  <2>2. \/ link' \in {link, l} /\ Ended(w)
        \/ link' = RetryLink(task, l) /\ Start(w, RetryOp(task, l))
    BY <1>7 DEF AfterRecover
  <2> HIDE DEF l
  <2>3. Settled(l) /\ ~OwnerDecides(l) /\ task' = task
    BY <1>7, <2>1 DEF Settled, OwnerDecides, AfterRecover
  <2>4. CASE link' \in {link, l} /\ Ended(w)
    <3>1. Settled(link') /\ NamesWhatDecides'
      BY <1>2, <2>3, <2>4 DEF NamesWhatDecides
    <3> QED
      BY <1>3, <2>4, <3>1
  <2>5. CASE link' = RetryLink(task, l) /\ Start(w, RetryOp(task, l))
    BY <1>1, <2>1, <2>3, <2>5, RetrySettles
  <2> QED
    BY <2>2, <2>4, <2>5
<1> QED
  BY <1>4, <1>5, <1>6, <1>7 DEF Resumes, Resuming

LEMMA OtherSettles ==
  ASSUME TypeInv, ReadInv,
         (\E w \in Slots : Refresh(w)) \/ (\E i \in Ids : OutsideEdit(i)) \/ Reconnect \/ Crash
           \/ UNCHANGED vars
  PROVE  ReadInv'
<1>1. ASSUME NEW w \in Slots, Refresh(w) PROVE ReadInv'
  <2>1. task \in Task /\ link \in Link /\ ops \in [Slots -> Operation]
    BY DEF TypeInv, TypeOK
  <2>2. Start(w, RetryOp(task, link)) /\ link' = RetryLink(task, link) /\ task' = task
    BY <1>1 DEF Refresh, RetryOne
  <2>3. Settled(link) /\ (OwnerDecides(link) => link.remote # NoId)
    BY DEF ReadInv, NamesWhatDecides
  <2> QED
    BY <2>1, <2>2, <2>3, RetrySettles
<1>2. ASSUME NEW i \in Ids, OutsideEdit(i) PROVE ReadInv'
  BY <1>2 DEF OutsideEdit, ReadInv, NamesWhatDecides, OwnerDecides, OpSettled, Settled
<1>3. CASE Reconnect
  <2>1. link'.remote = link.remote /\ link'.uncertain = link.uncertain /\ link'.state = link.state
    BY <1>3 DEF Reconnect, TypeInv, TypeOK, Link
  <2> QED
    BY <1>3, <2>1
    DEF Reconnect, ReadInv, NamesWhatDecides, OwnerDecides, OpSettled, Settled
<1>4. CASE Crash
  <2>1. \A w \in Slots : ops'[w] = Idle
    BY <1>4 DEF Crash
  <2>2. \A w \in Slots : OpSettled(ops'[w])
    BY <2>1, IdleSettled
  <2>3. Settled(link)' /\ NamesWhatDecides'
    BY <1>4, <2>2 DEF Crash, ReadInv, NamesWhatDecides, OwnerDecides, Settled
  <2> QED
    BY <2>2, <2>3 DEF ReadInv, OpSettled, Settled
<1>5. CASE UNCHANGED vars
  BY <1>5 DEF vars, ReadInv, NamesWhatDecides, OwnerDecides, OpSettled, Settled
<1> QED
  BY <1>1, <1>2, <1>3, <1>4, <1>5

LEMMA ReadStep == TypeInv /\ ReadInv /\ [Next]_vars => ReadInv'
<1> SUFFICES ASSUME TypeInv, ReadInv, [Next]_vars PROVE ReadInv'
  OBVIOUS
<1> QED
  BY OwnerSettles, ProviderSettles, ResumesSettles, OtherSettles DEF Next

LEMMA ReadInit == Init => ReadInv
<1> SUFFICES ASSUME Init PROVE ReadInv
  OBVIOUS
<1>1. \A w \in Slots : OpSettled(ops[w])
  BY IdleSettled DEF Init
<1>2. Settled(link) /\ NamesWhatDecides
  BY IdleSettled, NoLinkOk DEF Init, NamesWhatDecides, OwnerDecides
<1> QED
  BY <1>1, <1>2 DEF ReadInv

\* An answered operation that resumes ends or waits for another answer.
LEMMA ResumedElsewhere ==
  ASSUME TypeInv, NEW w \in Slots, Resumes(w)
  PROVE  ops[w].reply # "wait" /\ ops'[w] # ops[w]
<1>1. ops \in [Slots -> Operation] /\ ops[w].reply # "wait"
  BY DEF TypeInv, TypeOK, Resumes, AfterRead, AfterStatus, AfterContent, AfterResolve, AfterCreate,
         AfterComplete, AfterDelete, AfterRecover, Answered
<1>2. Idle.reply = "wait" /\ ops[w] \in Operation /\ task \in Task
  BY <1>1, IdleOk DEF TypeInv, TypeOK
<1>3. ASSUME Resuming(w) PROVE \E op : Start(w, op) /\ op.reply = "wait"
  BY <1>2, <1>3, ResumingWritesBack DEF WritesBack, Begun, Start, TypeInv
<1>4. ASSUME AfterCreate(w) PROVE \E op : Start(w, op) /\ op.reply = "wait"
  <2> DEFINE op == Sent("complete", FALSE, ops[w].task, CreatedLink(ops[w]))
  <2>1. ops[w].task \in Task /\ CreatedLink(ops[w]) \in Link
    BY <1>2, CreatedOk DEF Operation
  <2>2. Request(op, "complete", ops[w].task, CreatedLink(ops[w]))
    BY <2>1, SentFrom, StepsOk, Zenon
  <2>3. Start(w, op) \/ Start(w, Idle)
    BY <1>4 DEF AfterCreate, Continue, Ended
  <2> HIDE DEF op
  <2> QED
    BY <1>2, <2>2, <2>3 DEF Request
<1>5. ASSUME AfterDelete(w) PROVE Start(w, Idle)
  BY <1>5 DEF AfterDelete, Ended
<1>6. ASSUME AfterRecover(w) PROVE \E op : Start(w, op) /\ op.reply = "wait"
  <2> DEFINE l == [ops[w].link EXCEPT !.state = "synchronized", !.remote = ops[w].id,
                                      !.uncertain = FALSE, !.failure = "none"]
  <2>1. l \in Link
    BY <1>2, RecoveredOk DEF Operation
  <2>2. Start(w, RetryOp(task, l)) \/ Start(w, Idle)
    BY <1>6 DEF AfterRecover, Ended
  <2> HIDE DEF l
  <2>3. RetryOp(task, l).reply = "wait"
    <3>1. BeginLink(task, l).reply = "wait"
      BY <1>2, <2>1, BeginLinkOk
    <3>2. \/ Begun(RetryOp(task, l), {"delete"}, l) \/ Begun(RetryOp(task, l), {"read"}, l)
          \/ RetryOp(task, l) = BeginLink(task, l)
      BY <1>2, <2>1, RetryOk
    <3> QED
      BY <1>2, <3>1, <3>2 DEF Begun
  <2> QED
    BY <1>2, <2>2, <2>3
<1>7. PICK op : Start(w, op) /\ op.reply = "wait"
  BY <1>2, <1>3, <1>4, <1>5, <1>6 DEF Resumes, Resuming
<1> QED
  BY <1>1, <1>7 DEF Start

\* What a step may not do to a conflict.
LEMMA ConflictStep ==
  ASSUME TypeInv, ReadInv, [Next]_vars, link.state = "conflicted", edits' = edits, ~task.trashed
  PROVE  link'.state = "conflicted" \/ Settling \/ \E w \in Slots : ReadEarlier(w) \/ Deleting(w)
<1>1. /\ task \in Task /\ link \in Link /\ ops \in [Slots -> Operation] /\ edits \in Nat
      /\ OwnerDecides(link)
  BY DEF TypeInv, TypeOK, OwnerDecides
<1>2. ASSUME NEW w \in Slots, OwnerActs(w) PROVE FALSE
  <2>1. edits' = edits + 1
    BY <1>2 DEF OwnerActs, SetStatus, Edit, CreateLink, Synchronize, Recreate, RemoveLink,
         TrashPreserve, TrashDelete, Restore, AcceptDrift, RestoreDrift, AcceptConflict,
         RestoreConflict, OwnerRetry, RecoverCreation, Owner
  <2> QED
    BY <1>1, <2>1
<1>3. ASSUME NEW w \in Slots, Refresh(w) PROVE link' = link
  BY <1>1, <1>3, RetryOk DEF Refresh, RetryOne
<1>4. ASSUME NEW w \in Slots, ProviderActs(w) \/ RequestFails(w) PROVE link' = link
  BY <1>4, AnswerLeaves
<1>5. ASSUME NEW w \in Slots, Resumes(w), ops[w].link.state = "conflicted", ops[w].step # "delete"
      PROVE  link'.state = "conflicted" \/ Settling
  <2>1. ops[w].step = "conflict" /\ ops[w].link \in Link
    BY <1>1, <1>5 DEF ReadInv, OpSettled, Operation
  <2>2. AfterResolve(w)
    BY <1>5, <2>1 DEF Resumes, AfterRead, AfterStatus, AfterContent, AfterCreate,
         AfterComplete, AfterDelete, AfterRecover, Answered
  <2>3. CASE ops[w].reply = "ok"
    <3>1. ops'[w] = Idle
      BY <1>1, <2>2 DEF AfterResolve, Ended, Start
    <3> QED
      BY <2>1, <2>3, <3>1, IdleOk DEF Settling
  <2>4. CASE ops[w].reply # "ok"
    <3>1. PICK f : link' = Refreshed([ops[w].link EXCEPT !.failure = f])
      BY <2>2, <2>4 DEF AfterResolve
    <3>2. [ops[w].link EXCEPT !.failure = f].state = "conflicted"
      BY <1>5, <2>1 DEF Link
    <3> QED
      BY <3>1, <3>2 DEF Refreshed
  <2> QED
    BY <2>3, <2>4
<1>6. ASSUME NEW w \in Slots, Resumes(w) PROVE ops[w].reply # "wait" /\ ops'[w] # ops[w]
  BY <1>6, ResumedElsewhere
<1>7. ASSUME (\E i \in Ids : OutsideEdit(i)) \/ Crash \/ UNCHANGED vars PROVE link' = link
  BY <1>7 DEF OutsideEdit, Crash, vars
<1>8. ASSUME Reconnect PROVE link'.state = "conflicted"
  BY <1>1, <1>8 DEF Reconnect, Link
<1> QED
  BY <1>2, <1>3, <1>4, <1>5, <1>6, <1>7, <1>8 DEF Next, ReadEarlier, Deleting

\* resolveConflict, however many operations of the Task overlap: a conflict ends
\* by the owner's doing, by a provider that accepted the resolution, or by an
\* operation that read the link before the conflict; none that found it ends it,
\* and neither does a crash or an edit by others.
THEOREM ConflictsStand == Spec => ReadConflictStands
<1>1. TypeInv /\ ReadInv /\ [Next]_vars =>
        [(link.state = "conflicted" /\ edits' = edits /\ ~task.trashed)
           => \/ link'.state = "conflicted" \/ Settling
              \/ \E w \in Slots : ReadEarlier(w) \/ Deleting(w)]_vars
  BY ConflictStep
<1> QED
  BY <1>1, TypeInit, TypeStep, ReadInit, ReadStep, PTL DEF Spec, ReadConflictStands

-----------------------------------------------------------------------------
(* The promotion of Action Items: what is stored                           *)

CONSTANTS NoRun, Transcripts, Supported, Title, Bundled, MaxEnables, MaxCommands,
          MaxRevisions, MaxTasks

VARIABLES policy, runs, head, turn, commands

P == INSTANCE TaskPromotion

\* An Action Item whose fields no argument here is about lie in some set X.
Shape(X) ==
  [state : P!States, extraction : X, reservation : X, reviewOnly : X,
   selected : Nat, latest : Nat, reviewed : Nat, past : Seq(Nat),
   disposition : X, into : P!Keys \cup {P!NoKey}, task : X]

ItemsOk == \E X : items \in [P!Keys -> Shape(X)]
TurnOk == \E Y : turn \in [run : Runs \cup {NoRun}, left : Y]
StoresOk == /\ ItemsOk /\ TurnOk
            /\ tasks \in Seq(P!Task)
            /\ head \in [Transcripts -> Runs \cup {NoRun}]

\* Who was promoted automatically is of the Run that was first in its queue, and
\* so is who may still be in this turn.
AutomaticIsFirst ==
  \A i \in DOMAIN tasks :
    tasks[i].automatic => head[TranscriptOf[tasks[i].key[1]]] = tasks[i].key[1]
LeftIsFirst ==
  turn.left # {} => turn.run \in Runs /\ head[TranscriptOf[turn.run]] = turn.run

TasksInv == P!OneTask /\ P!ReviewedIsAccepted /\ AutomaticIsFirst
PromotionInv == StoresOk /\ TasksInv /\ P!EvidenceIsAcyclic /\ LeftIsFirst

-----------------------------------------------------------------------------
LEMMA NoKeyApart ==
  ASSUME P!PromotionConstants PROVE P!NoKey \notin P!Keys
BY DEF P!NoKey, P!PromotionConstants, P!Keys

LEMMA KeyParts == \A k \in P!Keys : k[1] \in Runs /\ k = <<k[1], k[2]>>
BY DEF P!Keys

LEMMA AdvancedOk ==
  ASSUME NEW X, items \in [P!Keys -> Shape(X)], NEW k \in P!Keys
  PROVE  /\ P!Advanced(k) \in Shape(X)
         /\ P!Advanced(k).into = items[k].into
<1>1. items[k] \in Shape(X)
  OBVIOUS
<1>2. Append(items[k].past, items[k].selected) \in Seq(Nat)
  BY <1>1 DEF Shape
<1> QED
  BY <1>1, <1>2 DEF P!Advanced, Shape

\* A record changes; what it is evidence of is as before, nothing, or another
\* record that is not evidence.
LEMMA RecordChanges ==
  ASSUME P!PromotionConstants, NEW X, items \in [P!Keys -> Shape(X)], NEW k \in P!Keys,
         NEW Z, NEW record \in Shape(Z), P!EvidenceIsAcyclic,
         items' = [items EXCEPT ![k] = record],
         \/ record.into \in {P!NoKey, items[k].into}
         \/ record.into \in P!Keys \ {k} /\ items[record.into].into = P!NoKey
  PROVE  ItemsOk' /\ P!EvidenceIsAcyclic'
<1>1. items' \in [P!Keys -> Shape(X \cup Z)]
  <2>1. Shape(X) \subseteq Shape(X \cup Z) /\ Shape(Z) \subseteq Shape(X \cup Z)
    BY DEF Shape
  <2> QED
    BY <2>1
<1>2. items'[k] = record /\ \A q \in P!Keys \ {k} : items'[q] = items[q]
  OBVIOUS
<1>3. ASSUME NEW S \in SUBSET P!Keys, S # {} PROVE \E q \in S : items'[q].into \notin S
  <2>1. PICK q \in S : items[q].into \notin S
    BY <1>3 DEF P!EvidenceIsAcyclic
  <2>2. CASE q # k
    BY <1>2, <2>1, <2>2
  <2>3. CASE q = k /\ record.into \in {P!NoKey, items[k].into}
    BY <1>2, <2>1, <2>3, NoKeyApart
  <2>4. CASE q = k /\ record.into \in P!Keys \ {k} /\ items[record.into].into = P!NoKey
    <3>1. CASE record.into \in S
      BY <1>2, <2>4, <3>1, NoKeyApart
    <3>2. CASE record.into \notin S
      BY <1>2, <2>4, <3>2
    <3> QED
      BY <3>1, <3>2
  <2> QED
    BY <2>2, <2>3, <2>4
<1> QED
  BY <1>1, <1>3 DEF ItemsOk, P!EvidenceIsAcyclic

LEMMA PromotedOk ==
  ASSUME P!PromotionConstants, ItemsOk, P!EvidenceIsAcyclic, NEW k \in P!Keys, NEW i,
         items' = P!Promoted(k, i)
  PROVE  ItemsOk' /\ P!EvidenceIsAcyclic'
<1>1. PICK X : items \in [P!Keys -> Shape(X)]
  BY DEF ItemsOk
<1> DEFINE record == [P!Advanced(k) EXCEPT !.state = "promoted", !.task = i]
<1>2. P!Advanced(k) \in Shape(X) /\ P!Advanced(k).into = items[k].into
  BY <1>1, AdvancedOk
<1>3. record \in Shape(X \cup {i}) /\ record.into = items[k].into
  BY <1>2 DEF Shape, P!States
<1>4. items' = [items EXCEPT ![k] = record]
  BY DEF P!Promoted
<1> HIDE DEF record
<1> QED
  BY <1>1, <1>3, <1>4, RecordChanges

\* A Task is accepted for a record that has none.
LEMMA TaskAccepted ==
  ASSUME StoresOk, TasksInv, NEW k \in P!Keys, NEW shown \in Nat,
         NEW status \in {"open", "completed"}, NEW automatic \in BOOLEAN,
         P!Orphans(k) = {}, tasks' = Append(tasks, P!NewTask(k, shown, status, automatic)),
         shown = items[k].selected,
         automatic => head[TranscriptOf[k[1]]] = k[1], head' = head
  PROVE  tasks' \in Seq(P!Task) /\ TasksInv'
<1> DEFINE t == P!NewTask(k, shown, status, automatic)
<1>1. t \in P!Task /\ t.key = k /\ t.revision = t.shown /\ t.automatic = automatic
  BY DEF P!NewTask, P!Task
<1> HIDE DEF t
<1>2. /\ tasks' \in Seq(P!Task) /\ Len(tasks) \in Nat
      /\ DOMAIN tasks' = 1..(Len(tasks) + 1) /\ DOMAIN tasks = 1..Len(tasks)
      /\ tasks'[Len(tasks) + 1] = t
      /\ \A i \in 1..Len(tasks) : tasks'[i] = tasks[i]
  BY <1>1 DEF StoresOk, t
<1>3. \A i \in 1..Len(tasks) : tasks[i].key = k => tasks[i].status = "gone"
  BY <1>2 DEF P!Orphans
<1>4. P!OneTask'
  BY <1>1, <1>2, <1>3 DEF TasksInv, P!OneTask
<1>5. P!ReviewedIsAccepted' /\ AutomaticIsFirst'
  BY <1>1, <1>2 DEF TasksInv, P!ReviewedIsAccepted, AutomaticIsFirst
<1> QED
  BY <1>2, <1>4, <1>5 DEF TasksInv

-----------------------------------------------------------------------------
(* The actions                                                             *)

\* Steps of the authorization and of Runs, which touch no store.
LEMMA StoresKept ==
  ASSUME PromotionInv, UNCHANGED <<items, head, tasks>>,
         turn' = turn \/ (\E r \in Runs \cup {NoRun} : turn' = [run |-> r, left |-> {}])
  PROVE  PromotionInv'
<1>1. TurnOk' /\ LeftIsFirst'
  <2>1. CASE turn' = turn
    BY <2>1 DEF PromotionInv, StoresOk, TurnOk, LeftIsFirst
  <2>2. ASSUME NEW r \in Runs \cup {NoRun}, turn' = [run |-> r, left |-> {}]
        PROVE  TurnOk' /\ LeftIsFirst'
    <3>1. turn' \in [run : Runs \cup {NoRun}, left : {{}}] /\ turn'.left = {}
      BY <2>2
    <3> QED
      BY <3>1 DEF TurnOk, LeftIsFirst
  <2> QED
    BY <2>1, <2>2
<1>2. ItemsOk' /\ P!EvidenceIsAcyclic' /\ TasksInv'
  BY DEF PromotionInv, StoresOk, ItemsOk, P!EvidenceIsAcyclic, TasksInv, P!OneTask,
         P!ReviewedIsAccepted, AutomaticIsFirst
<1> QED
  BY <1>1, <1>2 DEF PromotionInv, StoresOk

LEMMA NoTurnIs == \E r \in Runs \cup {NoRun} : P!NoTurn = [run |-> r, left |-> {}]
BY DEF P!NoTurn

LEMMA RunSteps ==
  ASSUME PromotionInv, NEW r \in Runs,
         \/ P!RecordRelease \/ P!Enable \/ P!Disable \/ P!SetPreference \/ P!Crash
         \/ P!StartRun(r) \/ P!Retry(r) \/ P!Regenerate(r) \/ P!Approve(r)
         \/ (\E output \in SUBSET Entries, whole \in BOOLEAN : P!ModelAnswers(r, output, whole))
         \/ P!Publish(r) \/ P!StepFails(r)
  PROVE  PromotionInv'
<1>1. /\ UNCHANGED <<items, head, tasks>>
      /\ turn' = turn \/ turn' = P!NoTurn \/ turn' = [run |-> r, left |-> {}]
  BY DEF P!RecordRelease, P!Enable, P!Disable, P!SetPreference, P!Crash, P!StartRun, P!Retry,
         P!Regenerate,
         P!Approve, P!ModelAnswers, P!Publish, P!StepFails
<1> QED
  BY <1>1, StoresKept, NoTurnIs

LEMMA MaterializeStep ==
  ASSUME P!PromotionConstants, PromotionInv, NEW r \in Runs, P!Materialize(r)
  PROVE  PromotionInv'
<1>1. PICK X : items \in [P!Keys -> Shape(X)]
  BY DEF PromotionInv, StoresOk, ItemsOk
<1>2. PICK Y : turn \in [run : Runs \cup {NoRun}, left : Y]
  BY DEF PromotionInv, StoresOk, TurnOk
<1>3. head \in [Transcripts -> Runs \cup {NoRun}] /\ TranscriptOf[r] \in Transcripts
      /\ turn.run = r
  BY DEF PromotionInv, StoresOk, P!Materialize, P!PromotionConstants
<1>4. ItemsOk'
  <2> DEFINE Z == X \cup {1, P!NoReservation, FALSE, 0, "none", "unresolved", P!NextRevision(r),
                          runs[r].handed, runs[r].reviewOnly \/ ~runs[r].whole}
  <2>1. Shape(X) \subseteq Shape(Z)
    BY DEF Shape
  <2>2. \A e : P!NewItem(r, e) \in Shape(Z)
    <3> SUFFICES ASSUME NEW e PROVE P!NewItem(r, e) \in Shape(Z)
      OBVIOUS
    <3> DEFINE reviewOnly == runs[r].reviewOnly \/ ~runs[r].whole
               disposition == IF P!Candidates(r, e) = {} THEN "none" ELSE "unresolved"
    <3>1. P!NewItem(r, e) = [P!NoItem EXCEPT !.state = "pending", !.extraction = P!NextRevision(r),
                             !.reservation = runs[r].handed, !.reviewOnly = reviewOnly,
                             !.disposition = disposition]
      BY DEF P!NewItem
    <3>2. reviewOnly \in Z /\ disposition \in Z /\ P!NextRevision(r) \in Z /\ runs[r].handed \in Z
          /\ 0 \in Z /\ 1 \in Z /\ P!NoReservation \in Z /\ FALSE \in Z /\ "none" \in Z
      OBVIOUS
    <3>3. P!NoKey \in P!Keys \cup {P!NoKey} /\ << >> \in Seq(Nat) /\ "pending" \in P!States
      BY DEF P!States
    <3> HIDE DEF reviewOnly, disposition, Z
    <3>4. P!NoItem \in Shape(Z)
      BY <3>2, <3>3 DEF P!NoItem, Shape, P!States
    <3> QED
      BY <3>1, <3>2, <3>3, <3>4 DEF Shape
  <2> HIDE DEF Z
  <2>3. items' \in [P!Keys -> Shape(Z)]
    BY <1>1, <2>1, <2>2 DEF P!Materialize
  <2> QED
    BY <2>3 DEF ItemsOk
<1>5. P!EvidenceIsAcyclic'
  <2>1. \A k \in P!Keys : items'[k].into \in {P!NoKey, items[k].into}
    <3> SUFFICES ASSUME NEW k \in P!Keys PROVE items'[k].into \in {P!NoKey, items[k].into}
      OBVIOUS
    <3>1. P!NewItem(r, k[2]).into = P!NoKey
      BY DEF P!NewItem, P!NoItem
    <3> QED
      BY <3>1 DEF P!Materialize
  <2>2. ASSUME NEW S \in SUBSET P!Keys, S # {} PROVE \E k \in S : items'[k].into \notin S
    <3>1. PICK k \in S : items[k].into \notin S
      BY <2>2 DEF PromotionInv, P!EvidenceIsAcyclic
    <3> QED
      BY <2>1, <3>1, NoKeyApart
  <2> QED
    BY <2>2 DEF P!EvidenceIsAcyclic
<1>6. /\ head' \in [Transcripts -> Runs \cup {NoRun}]
      /\ \A t \in Transcripts : head[t] # NoRun => head'[t] = head[t]
      /\ ~P!Withheld(r) /\ runs[r].output # {} => head'[TranscriptOf[r]] = r
  BY <1>3 DEF P!Materialize, P!Withheld
<1>7. TurnOk' /\ LeftIsFirst'
  <2> DEFINE left == IF P!Withheld(r) THEN {} ELSE runs[r].output
  <2>1. turn' = [turn EXCEPT !.left = left]
    BY DEF P!Materialize
  <2>2. left # {} => head'[TranscriptOf[r]] = r
    BY <1>6
  <2> HIDE DEF left
  <2>3. turn' \in [run : Runs \cup {NoRun}, left : {left}] /\ turn'.run = r /\ turn'.left = left
    BY <1>2, <1>3, <2>1
  <2> QED
    BY <2>2, <2>3 DEF TurnOk, LeftIsFirst
<1>8. TasksInv' /\ tasks' \in Seq(P!Task)
  <2>1. tasks' = tasks /\ tasks \in Seq(P!Task)
    BY DEF P!Materialize, PromotionInv, StoresOk
  <2>2. ASSUME NEW i \in DOMAIN tasks, tasks[i].automatic
        PROVE  head'[TranscriptOf[tasks[i].key[1]]] = tasks[i].key[1]
    <3>1. tasks[i].key[1] \in Runs
      <4>1. tasks[i] \in P!Task
        BY <2>1
      <4>2. tasks[i].key \in P!Keys
        BY <4>1 DEF P!Task
      <4> QED
        BY <4>2, KeyParts
    <3>2. head[TranscriptOf[tasks[i].key[1]]] = tasks[i].key[1]
      BY <2>2 DEF PromotionInv, TasksInv, AutomaticIsFirst
    <3> QED
      BY <1>6, <3>1, <3>2 DEF P!PromotionConstants
  <2> QED
    BY <2>1, <2>2 DEF PromotionInv, TasksInv, P!OneTask, P!ReviewedIsAccepted, AutomaticIsFirst
<1> QED
  BY <1>4, <1>5, <1>6, <1>7, <1>8 DEF PromotionInv, StoresOk

\* Acceptance, by the owner or by automation.
LEMMA AcceptStep ==
  ASSUME P!PromotionConstants, PromotionInv, NEW k \in P!Keys, NEW shown \in Nat,
         NEW status \in {"open", "completed"}, NEW automatic \in BOOLEAN,
         P!Accept(k, shown, status, automatic), shown = items[k].selected,
         automatic => head[TranscriptOf[k[1]]] = k[1], head' = head
  PROVE  /\ ItemsOk' /\ P!EvidenceIsAcyclic'
         /\ tasks' \in Seq(P!Task) /\ TasksInv'
<1>1. StoresOk /\ ItemsOk /\ TasksInv /\ P!EvidenceIsAcyclic
  BY DEF PromotionInv, StoresOk
<1>2. ASSUME NEW i \in P!Orphans(k), items' = P!Promoted(k, i), tasks' = tasks
      PROVE  /\ ItemsOk' /\ P!EvidenceIsAcyclic'
             /\ tasks' \in Seq(P!Task) /\ TasksInv'
  <2>1. tasks' \in Seq(P!Task) /\ TasksInv'
    BY <1>1, <1>2 DEF StoresOk, TasksInv, P!OneTask, P!ReviewedIsAccepted, AutomaticIsFirst
  <2> QED
    BY <1>1, <1>2, <2>1, PromotedOk
<1>3. CASE /\ P!Orphans(k) = {}
           /\ tasks' = Append(tasks, P!NewTask(k, shown, status, automatic))
           /\ items' = P!Promoted(k, Len(tasks) + 1)
  BY <1>1, <1>3, PromotedOk, TaskAccepted
<1> QED
  BY <1>2, <1>3 DEF P!Accept, P!AcceptedItems

LEMMA SelectedIs ==
  ASSUME PromotionInv, NEW k \in P!Keys
  PROVE  /\ items[k].selected \in Nat
         /\ \A version \in Nat : P!Current(k, version) => P!ShownAt(k, version) = items[k].selected
<1>1. PICK X : items \in [P!Keys -> Shape(X)]
  BY DEF PromotionInv, StoresOk, ItemsOk
<1>2. items[k].selected \in Nat /\ items[k].past \in Seq(Nat)
  BY <1>1 DEF Shape
<1> QED
  BY <1>2 DEF P!Current, P!Version, P!ShownAt

LEMMA AutomaticStep ==
  ASSUME P!PromotionConstants, PromotionInv, NEW r \in Runs, NEW e \in Entries,
         P!PromoteIfEligible(r, e)
  PROVE  PromotionInv'
<1> DEFINE k == <<r, e>>
<1>1. k \in P!Keys /\ k[1] = r
  BY DEF P!Keys
<1>2. PICK Y : turn \in [run : Runs \cup {NoRun}, left : Y]
  BY DEF PromotionInv, StoresOk, TurnOk
<1>3. turn.run = r /\ turn.left # {} /\ head[TranscriptOf[r]] = r /\ head' = head
  BY DEF P!PromoteIfEligible, PromotionInv, LeftIsFirst
<1>4. TurnOk' /\ LeftIsFirst'
  <2>1. turn' \in [run : Runs \cup {NoRun}, left : {turn.left \ {e}}] /\ turn'.run = r
    BY <1>2, <1>3 DEF P!PromoteIfEligible
  <2> QED
    BY <1>3, <2>1 DEF TurnOk, LeftIsFirst
<1>5. ItemsOk' /\ P!EvidenceIsAcyclic' /\ tasks' \in Seq(P!Task) /\ TasksInv'
  <2>1. CASE P!Eligible(k)
    <3>1. items[k].selected = 1 /\ P!Accept(k, 1, "open", TRUE)
      BY <2>1 DEF P!Eligible, P!PromoteIfEligible
    <3> HIDE DEF k
    <3> QED
      BY <1>1, <1>3, <3>1, AcceptStep
  <2>2. CASE ~P!Eligible(k)
    <3>1. UNCHANGED <<items, tasks, head>>
      BY <1>3, <2>2 DEF P!PromoteIfEligible
    <3> QED
      BY <3>1 DEF PromotionInv, StoresOk, ItemsOk, P!EvidenceIsAcyclic, TasksInv, P!OneTask,
                  P!ReviewedIsAccepted, AutomaticIsFirst
  <2> QED
    BY <2>1, <2>2
<1> QED
  BY <1>3, <1>4, <1>5 DEF PromotionInv, StoresOk

\* The process dies with the Task written and the Action Items not.
LEMMA CrashStep ==
  ASSUME PromotionInv, NEW k \in P!Keys, NEW shown \in Nat,
         NEW status \in {"open", "completed"}, NEW automatic \in BOOLEAN,
         P!CrashInAcceptance(k, shown, status, automatic), shown = items[k].selected,
         automatic => head[TranscriptOf[k[1]]] = k[1]
  PROVE  PromotionInv'
<1>1. /\ P!Orphans(k) = {} /\ tasks' = Append(tasks, P!NewTask(k, shown, status, automatic))
      /\ turn' = P!NoTurn /\ items' = items /\ head' = head
  BY DEF P!CrashInAcceptance
<1>2. tasks' \in Seq(P!Task) /\ TasksInv'
  BY <1>1, TaskAccepted DEF PromotionInv
<1>3. TurnOk' /\ LeftIsFirst'
  <2>1. turn' \in [run : Runs \cup {NoRun}, left : {{}}] /\ turn'.left = {}
    BY <1>1 DEF P!NoTurn
  <2> QED
    BY <2>1 DEF TurnOk, LeftIsFirst
<1>4. ItemsOk' /\ P!EvidenceIsAcyclic'
  BY <1>1 DEF PromotionInv, StoresOk, ItemsOk, P!EvidenceIsAcyclic
<1> QED
  BY <1>1, <1>2, <1>3, <1>4 DEF PromotionInv, StoresOk

\* The owner's commands on one record.
LEMMA DecideStep ==
  ASSUME P!PromotionConstants, PromotionInv, NEW k \in P!Keys, NEW X,
         items \in [P!Keys -> Shape(X)],
         NEW Z, NEW record \in Shape(Z), P!Decide(k, record),
         \/ record.into \in {P!NoKey, items[k].into}
         \/ record.into \in P!Keys \ {k} /\ items[record.into].into = P!NoKey
  PROVE  PromotionInv'
<1>1. items' = [items EXCEPT ![k] = record] /\ UNCHANGED <<head, tasks, turn>>
  BY DEF P!Decide
<1>2. ItemsOk' /\ P!EvidenceIsAcyclic'
  BY <1>1, RecordChanges DEF PromotionInv
<1> QED
  BY <1>1, <1>2 DEF PromotionInv, StoresOk, TurnOk, TasksInv, P!OneTask, P!ReviewedIsAccepted,
                    AutomaticIsFirst, LeftIsFirst

LEMMA ReviewStep ==
  ASSUME P!PromotionConstants, PromotionInv, NEW k \in P!Keys, P!Review(k)
  PROVE  PromotionInv'
<1>1. PICK X : items \in [P!Keys -> Shape(X)]
  BY DEF PromotionInv, StoresOk, ItemsOk
<1>2. /\ P!Advanced(k) \in Shape(X) /\ P!Advanced(k).into = items[k].into
      /\ items[k] \in Shape(X)
  BY <1>1, AdvancedOk
<1>3. ASSUME NEW version \in 0..MaxCommands + 1, NEW status \in {"open", "completed"},
             P!OwnerPromotes(k, version, status)
      PROVE  PromotionInv'
  <2>1. P!ShownAt(k, version) = items[k].selected /\ items[k].selected \in Nat
    BY <1>3, SelectedIs DEF P!OwnerPromotes, P!Promotable
  <2>2. ItemsOk' /\ P!EvidenceIsAcyclic' /\ tasks' \in Seq(P!Task) /\ TasksInv'
    BY <1>3, <2>1, AcceptStep DEF P!OwnerPromotes
  <2> QED
    BY <1>3, <2>2 DEF P!OwnerPromotes, PromotionInv, StoresOk, TurnOk, LeftIsFirst
<1>4. ASSUME NEW version \in 0..MaxCommands + 1, NEW status \in {"open", "completed"},
             P!CrashInOwnerPromotion(k, version, status)
      PROVE  PromotionInv'
  <2>1. P!ShownAt(k, version) = items[k].selected /\ items[k].selected \in Nat
    BY <1>4, SelectedIs DEF P!CrashInOwnerPromotion, P!Promotable
  <2> QED
    BY <1>4, <2>1, CrashStep DEF P!CrashInOwnerPromotion
<1>5. CASE P!Dismiss(k) \/ P!RestoreItem(k)
  <2>1. ASSUME NEW state \in P!States
        PROVE  [P!Advanced(k) EXCEPT !.state = state] \in Shape(X)
               /\ [P!Advanced(k) EXCEPT !.state = state].into = items[k].into
    BY <1>2 DEF Shape
  <2>2. "dismissed" \in P!States /\ "pending" \in P!States
    BY DEF P!States
  <2> QED
    BY <1>1, <1>5, <2>1, <2>2, DecideStep DEF P!Dismiss, P!RestoreItem
<1>6. CASE P!CorrectProposal(k)
  <2> DEFINE record == [P!Advanced(k) EXCEPT !.latest = P!Advanced(k).latest + 1]
  <2>1. P!Advanced(k).latest + 1 \in Nat
    BY <1>2 DEF Shape
  <2>2. record \in Shape(X) /\ record.into = items[k].into
    BY <1>2, <2>1 DEF Shape
  <2>3. P!Decide(k, record)
    BY <1>6 DEF P!CorrectProposal
  <2> HIDE DEF record
  <2> QED
    BY <1>1, <2>2, <2>3, DecideStep
<1>7. ASSUME NEW n \in 1..MaxRevisions, P!SelectProposal(k, n) PROVE PromotionInv'
  <2> DEFINE record == [P!Advanced(k) EXCEPT !.selected = n, !.reviewed = items[k].latest]
  <2>1. n \in Nat /\ items[k].latest \in Nat
    BY <1>2 DEF Shape
  <2>2. record \in Shape(X) /\ record.into = items[k].into
    BY <1>2, <2>1 DEF Shape
  <2>3. P!Decide(k, record)
    BY <1>7 DEF P!SelectProposal
  <2> HIDE DEF record
  <2> QED
    BY <1>1, <2>2, <2>3, DecideStep
<1>8. ASSUME NEW disposition, P!Reconcile(k, disposition) PROVE PromotionInv'
  <2> DEFINE record == [P!Advanced(k) EXCEPT !.disposition = disposition, !.into = P!NoKey]
  <2>1. record \in Shape(X \cup {disposition}) /\ record.into = P!NoKey
    BY <1>2 DEF Shape
  <2>2. P!Decide(k, record)
    BY <1>8 DEF P!Reconcile
  <2> HIDE DEF record
  <2> QED
    BY <1>1, <2>1, <2>2, DecideStep
<1>9. ASSUME NEW target \in P!Keys, P!AttachEvidence(k, target) PROVE PromotionInv'
  <2> DEFINE record == [P!Advanced(k) EXCEPT !.disposition = "evidence-of-historical", !.into = target]
  <2>1. record \in Shape(X \cup {"evidence-of-historical"}) /\ record.into = target
    BY <1>2 DEF Shape
  <2>2. P!Decide(k, record) /\ target # k /\ items[target].into = P!NoKey
    BY <1>9 DEF P!AttachEvidence, P!Attachable
  <2> HIDE DEF record
  <2> QED
    BY <1>1, <2>1, <2>2, DecideStep
<1> QED
  BY <1>3, <1>4, <1>5, <1>6, <1>7, <1>8, <1>9 DEF P!Review

LEMMA StatusStep ==
  ASSUME PromotionInv, NEW i \in 1..MaxTasks,
         NEW status \in {"open", "completed", "trashed", "gone"},
         P!TaskStatus(i, status)
  PROVE  PromotionInv'
<1>1. /\ tasks \in Seq(P!Task) /\ i \in DOMAIN tasks /\ tasks[i].status # "gone"
      /\ UNCHANGED <<items, head, turn>>
  BY DEF PromotionInv, StoresOk, P!TaskStatus
<1> DEFINE t == [tasks[i] EXCEPT !.status = status]
<1>2. tasks[i] \in P!Task
  BY <1>1
<1>3. /\ t \in P!Task /\ t.key = tasks[i].key /\ t.revision = tasks[i].revision
      /\ t.shown = tasks[i].shown /\ t.automatic = tasks[i].automatic
  BY <1>2 DEF P!Task
<1>4. tasks' = [tasks EXCEPT ![i] = t]
  BY DEF P!TaskStatus
<1> HIDE DEF t
<1>5. /\ tasks' \in Seq(P!Task) /\ DOMAIN tasks' = DOMAIN tasks /\ tasks'[i] = t
      /\ \A j \in DOMAIN tasks \ {i} : tasks'[j] = tasks[j]
  BY <1>1, <1>3, <1>4
<1>6. P!OneTask'
  BY <1>1, <1>3, <1>5 DEF PromotionInv, TasksInv, P!OneTask
<1>7. P!ReviewedIsAccepted' /\ AutomaticIsFirst'
  BY <1>1, <1>3, <1>5 DEF PromotionInv, TasksInv, P!ReviewedIsAccepted, AutomaticIsFirst
<1> QED
  BY <1>1, <1>5, <1>6, <1>7 DEF PromotionInv, StoresOk, ItemsOk, TurnOk, TasksInv,
                                P!EvidenceIsAcyclic, LeftIsFirst

-----------------------------------------------------------------------------
(* The inductive invariant                                                 *)

LEMMA PromotionInit ==
  ASSUME P!PromotionConstants PROVE P!Init => PromotionInv
<1> SUFFICES ASSUME P!Init PROVE PromotionInv
  OBVIOUS
<1> DEFINE X == {1, P!NoReservation, FALSE, 0, "none"}
<1>1. P!NoItem \in Shape(X)
  BY DEF P!NoItem, Shape, P!States
<1>2. ItemsOk
  <2>1. items \in [P!Keys -> Shape(X)]
    BY <1>1 DEF P!Init
  <2> QED
    BY <2>1 DEF ItemsOk
<1>3. TurnOk /\ LeftIsFirst
  <2>1. turn \in [run : Runs \cup {NoRun}, left : {{}}] /\ turn.left = {}
    BY DEF P!Init, P!NoTurn
  <2> QED
    BY <2>1 DEF TurnOk, LeftIsFirst
<1>4. tasks \in Seq(P!Task) /\ DOMAIN tasks = {} /\ head \in [Transcripts -> Runs \cup {NoRun}]
  BY DEF P!Init
<1>5. P!EvidenceIsAcyclic
  <2>1. \A k \in P!Keys : items[k].into = P!NoKey
    BY DEF P!Init, P!NoItem
  <2> QED
    BY <2>1, NoKeyApart DEF P!EvidenceIsAcyclic
<1> QED
  BY <1>2, <1>3, <1>4, <1>5 DEF PromotionInv, StoresOk, TasksInv, P!OneTask, P!ReviewedIsAccepted,
                                AutomaticIsFirst

LEMMA PromotionNext ==
  ASSUME P!PromotionConstants PROVE PromotionInv /\ [P!Next]_(P!vars) => PromotionInv'
<1> SUFFICES ASSUME PromotionInv, [P!Next]_(P!vars) PROVE PromotionInv'
  OBVIOUS
<1>1. CASE P!RecordRelease \/ P!Enable \/ P!Disable \/ P!SetPreference \/ P!Crash
  <2>1. UNCHANGED <<items, head, tasks>> /\ (turn' = turn \/ turn' = P!NoTurn)
    BY <1>1 DEF P!RecordRelease, P!Enable, P!Disable, P!SetPreference, P!Crash
  <2> QED
    BY <2>1, StoresKept, NoTurnIs
<1>2. ASSUME NEW r \in Runs, P!RunStep(r) PROVE PromotionInv'
  <2>1. ASSUME NEW e \in Entries, P!CrashInPromotion(r, e) PROVE PromotionInv'
    <3> DEFINE k == <<r, e>>
    <3>1. k \in P!Keys /\ k[1] = r /\ items[k].selected = 1
      BY <2>1 DEF P!Keys, P!CrashInPromotion, P!Eligible
    <3>2. head[TranscriptOf[r]] = r
      BY <2>1 DEF P!CrashInPromotion, PromotionInv, LeftIsFirst
    <3>3. P!CrashInAcceptance(k, 1, "open", TRUE)
      BY <2>1 DEF P!CrashInPromotion
    <3> HIDE DEF k
    <3> QED
      BY <3>1, <3>2, <3>3, CrashStep
  <2> QED
    BY <1>2, <2>1, RunSteps, MaterializeStep, AutomaticStep DEF P!RunStep
<1>3. ASSUME NEW k \in P!Keys, P!Review(k) PROVE PromotionInv'
  BY <1>3, ReviewStep
<1>4. ASSUME NEW i \in 1..MaxTasks, NEW status \in {"open", "completed", "trashed", "gone"},
             P!TaskStatus(i, status)
      PROVE  PromotionInv'
  BY <1>4, StatusStep
<1>5. CASE UNCHANGED P!vars
  BY <1>5, StoresKept DEF P!vars
<1> QED
  BY <1>1, <1>2, <1>3, <1>4, <1>5 DEF P!Next

LEMMA PromotionInvariant ==
  ASSUME P!PromotionConstants PROVE P!Spec => []PromotionInv
BY PromotionInit, PromotionNext, PTL DEF P!Spec

-----------------------------------------------------------------------------
(* The theorems                                                            *)

\* A commitment never has two Tasks, however often its promotion is retried,
\* replayed or torn between the two files (promoteActionItem).
THEOREM OneTaskEach ==
  ASSUME P!PromotionConstants PROVE P!Spec => []OneTask
<1>1. PromotionInv => OneTask
  BY DEF PromotionInv, TasksInv, P!OneTask, OneTask
<1> QED
  BY <1>1, PromotionInvariant, PTL

\* Every Task holds the revision that was selected at the version its decision
\* was taken from (promote, promoteIfEligible).
THEOREM AcceptedAsReviewed ==
  ASSUME P!PromotionConstants PROVE P!Spec => []ReviewedIsAccepted
<1>1. PromotionInv => ReviewedIsAccepted
  BY DEF PromotionInv, TasksInv, P!ReviewedIsAccepted, ReviewedIsAccepted
<1> QED
  BY <1>1, PromotionInvariant, PTL

\* No Action Items are evidence of each other in a circle (reconcile).
THEOREM NoCircleOfEvidence ==
  ASSUME P!PromotionConstants PROVE P!Spec => []EvidenceIsAcyclic
<1>1. PromotionInv => EvidenceIsAcyclic
  BY DEF PromotionInv, P!EvidenceIsAcyclic, EvidenceIsAcyclic, P!Keys, Keys
<1> QED
  BY <1>1, PromotionInvariant, PTL

\* At most one Run of a Transcript is ever promoted from automatically
\* (materializeUnderPolicy).
THEOREM OneRunAutomated ==
  ASSUME P!PromotionConstants PROVE P!Spec => []OneAutomaticRun
<1>1. PromotionInv => OneAutomaticRun
  BY DEF PromotionInv, TasksInv, AutomaticIsFirst, OneAutomaticRun
<1> QED
  BY <1>1, PromotionInvariant, PTL
=============================================================================
