--------------------------- MODULE BriefDelivery ---------------------------
(***************************************************************************)
(* Delivery of one Meeting Brief: executeDeliver (deliver.ts), run either  *)
(* by the Run's deliver Stage (module.ts) or in place by an explicit owner *)
(* retry of a completed Run (host.ts, sendDeferredBriefEmail).             *)
(*                                                                         *)
(* executeDeliver has three awaits: the Calendar read, the Gmail search    *)
(* and the Gmail send.  at[w] is the await attempt w stands at; the code   *)
(* between two awaits is one turn.  The files a turn writes are left in io *)
(* and written one by one, so that a crash can fall between delivery.json  *)
(* and result.json; no other turn starts before io is empty.               *)
(***************************************************************************)
EXTENDS Naturals, Sequences

CONSTANTS
  Stage,        \* the attempt the Runner makes
  Manuals,      \* owner requests that may be in flight at the same time
  AutoSend,     \* perBriefAutoSend
  MaxMessages   \* bound on the messages Gmail accepts

ASSUME DeliveryAssumption ==
  /\ Stage \notin Manuals
  /\ AutoSend \in BOOLEAN
  /\ MaxMessages \in Nat

VARIABLES
  run,        \* meta.json: the Run's status
  delivery,   \* delivery.json
  result,     \* result.json: the status of its delivery, or absent
  intent,     \* events.jsonl: brief_manual_send_requested
  refresh,    \* events.jsonl: brief_delivery_blocked
  at,         \* the await each attempt stands at
  io,         \* the artifact writes the running turn has still to perform
  messages,   \* Gmail: messages that carry the delivery identity
  calendar,   \* Google Calendar: the occurrence now
  near,       \* the frozen start is at most five minutes away
  revision,   \* the Brief supersedes another and is no profile refresh
  confirmed,  \* the owner Profile is confirmed
  stale,      \* a Person Profile the Brief cites has changed
  asked,      \* history: the owner has asked for this Brief by retrying
  together    \* history: two owner requests stood in the Gmail send at once

durable == <<run, delivery, result, intent, refresh>>
world == <<messages, calendar, near, revision, confirmed, stale>>
history == <<asked, together>>
vars == <<durable, at, io, world, history>>

Workers == Manuals \cup {Stage}

Outcomes == {"done", "failed", "skipped", "blocked"}
Statuses == {"absent", "pending", "failed", "sent", "reconciled", "skipped", "superseded"}
Delivery == [status : Statuses, quiet : BOOLEAN]

\* "same": eligible, with the fingerprint the snapshot froze; "moved": eligible
\* with another fingerprint.
Occurrences == {"same", "moved", "cancelled", "ineligible", "absent"}

-----------------------------------------------------------------------------
(* Artifact writes                                                         *)

Op == [file : {"delivery"}, to : Delivery] \cup [file : {"result"}, to : Statuses]
      \cup [file : {"refresh"}]

\* persistDelivery: delivery.json first, then the copy in result.json.
Persist(status, quiet) ==
  <<[file |-> "delivery", to |-> [status |-> status, quiet |-> quiet]],
    [file |-> "result", to |-> status]>>

PersistQuietWait == Persist("pending", TRUE)

BlockedByProfile == <<[file |-> "refresh"]>>

Turn == io = <<>>

\* Attempt w goes on to an await, or ends: the Runner has still to record the
\* outcome of the Stage, an owner request has no record of its own.
GoOn(w, pc) == at' = [at EXCEPT ![w] = pc]
End(w, outcome) == at' = [at EXCEPT ![w] = IF w = Stage THEN outcome ELSE "idle"]

Fail(w) == io' = Persist("failed", FALSE) /\ End(w, "failed")

-----------------------------------------------------------------------------
(* executeDeliver                                                          *)

\* Up to the first await: the owner must be confirmed.
Begin(w) ==
  IF confirmed THEN GoOn(w, "read") /\ UNCHANGED io ELSE Fail(w)

\* The quiet gate measures the start the read returned, the frozen one when it
\* returned none.
Far(read) ==
  {far \in BOOLEAN : read \in {"same", "absent", "empty", "error"} => far = ~near}

\* Mutant of MustWait: the mark of a wait is not consulted.
MustWaitAlways(far) == revision /\ far

MustWait(far) == revision /\ far /\ ~delivery.quiet

\* After the quiet gate: an unreliable read fails the attempt, a vanished or
\* ineligible occurrence skips it, a changed one supersedes it; otherwise the
\* identity is made durable (unless an outcome is recorded) and Gmail searched.
Recheck(w, read, before) ==
  \/ /\ read \in {"empty", "error"}
     /\ io' = before \o Persist("failed", FALSE)
     /\ End(w, "failed")
  \/ /\ read \in {"absent", "cancelled", "ineligible"}
     /\ io' = before \o Persist("skipped", FALSE)
     /\ End(w, "skipped")
  \/ /\ read = "moved"
     /\ io' = before \o Persist("superseded", FALSE)
     /\ End(w, "done")
  \/ /\ read = "same"
     /\ io' = IF before # <<>> \/ delivery.status \in {"absent", "failed", "pending"}
              THEN before \o Persist("pending", FALSE) ELSE <<>>
     /\ GoOn(w, "find")

\* The Calendar read returned.  A Stage that must wait out the quiet period
\* blocks its Run; for an owner request the wait is recorded and passed over.
AfterRead(w) ==
  /\ Turn /\ at[w] = "read"
  /\ \E read \in {calendar, "empty", "error"} : \E far \in Far(read) :
       IF MustWait(far)
       THEN IF w = Stage
            THEN io' = PersistQuietWait /\ End(w, "blocked")
            ELSE Recheck(w, read, PersistQuietWait)
       ELSE Recheck(w, read, <<>>)
  /\ UNCHANGED <<durable, world, history>>

\* Mutant of FoundByDeliveryId: a search that cannot be settled finds nothing.
FoundByDeliveryIdLax == {IF messages = 1 THEN "found" ELSE "none", "none"}

\* What findByDeliveryId may answer: how many messages carry the identity, or
\* that the question could not be settled.
FoundByDeliveryId ==
  {IF messages = 0 THEN "none" ELSE IF messages = 1 THEN "found" ELSE "ambiguous", "unreadable"}

\* Mutant of MaySend: preparation sends.
MaySendAlways(w) == TRUE

\* isManualSendAllowed: an owner request, or a Stage whose Run was retried.
MaySend(w) == w # Stage \/ AutoSend \/ intent

\* Two owner requests stand in the send, each with an empty search behind it.
Rivals == \E m, n \in Manuals : m # n /\ at[m] = "send" /\ at[n] = "send"

\* The Gmail search returned: only "none" may be followed by a send, and then
\* only with current Profile claims, the owner's intent and a confirmed owner.
AfterFind(w) ==
  /\ Turn /\ at[w] = "find"
  /\ \E found \in FoundByDeliveryId :
       \/ found \in {"ambiguous", "unreadable"} /\ Fail(w)
       \/ found = "found" /\ io' = Persist("reconciled", FALSE) /\ End(w, "done")
       \/ /\ found = "none" /\ stale
          /\ io' = Persist("failed", FALSE) \o BlockedByProfile /\ End(w, "failed")
       \/ /\ found = "none" /\ ~stale /\ ~MaySend(w)
          /\ io' = Persist("pending", FALSE) /\ End(w, "done")
       \/ found = "none" /\ ~stale /\ MaySend(w) /\ ~confirmed /\ Fail(w)
       \/ found = "none" /\ ~stale /\ MaySend(w) /\ confirmed /\ GoOn(w, "send") /\ UNCHANGED io
  /\ together' = (together \/ Rivals')
  /\ UNCHANGED <<durable, world, asked>>

\* Gmail accepts the message; the acknowledgement is still under way.
GmailAccepts(w) ==
  /\ at[w] = "send"
  /\ messages < MaxMessages
  /\ messages' = messages + 1
  /\ GoOn(w, "accepted")
  /\ UNCHANGED <<durable, io, calendar, near, revision, confirmed, stale, history>>

\* The send returned its acknowledgement.
AfterSend(w) ==
  /\ Turn /\ at[w] = "accepted"
  /\ io' = Persist("sent", FALSE) /\ End(w, "done")
  /\ UNCHANGED <<durable, world, history>>

\* Mutant of SendFails: the outcome is recorded as if the send had returned.
SendFailsAsSent(w) ==
  /\ Turn /\ at[w] \in {"send", "accepted"}
  /\ io' = Persist("sent", FALSE) /\ End(w, "failed")
  /\ UNCHANGED <<durable, world, history>>

\* The send threw: rejected, or accepted with the acknowledgement lost.
SendFails(w) ==
  /\ Turn /\ at[w] \in {"send", "accepted"}
  /\ Fail(w)
  /\ UNCHANGED <<durable, world, history>>

-----------------------------------------------------------------------------
(* The Run around the Stage                                                *)

\* module.run with a Brief still to be delivered goes straight to deliver.
StageDelivers ==
  /\ Turn /\ run = "pending" /\ at[Stage] = "idle"
  /\ result \in {"pending", "failed"}
  /\ run' = "running"
  /\ Begin(Stage)
  /\ UNCHANGED <<delivery, result, intent, refresh, world, history>>

\* Without one, or with one already settled (a crash before the Run was
\* recorded done), the Brief is generated, anew, and its result.json says
\* pending; then comes deliver.
StageGenerates ==
  /\ Turn /\ run = "pending" /\ at[Stage] = "idle"
  /\ result \notin {"pending", "failed"}
  /\ run' = "running"
  /\ result' = "pending"
  /\ Begin(Stage)
  /\ UNCHANGED <<delivery, intent, refresh, world, history>>

GenerateFails ==
  /\ Turn /\ run = "pending" /\ at[Stage] = "idle"
  /\ result \notin {"pending", "failed"}
  /\ run' = "failed"
  /\ UNCHANGED <<delivery, result, intent, refresh, at, io, world, history>>

\* The Runner records what became of the Stage.
StageEnds ==
  /\ Turn /\ at[Stage] \in Outcomes
  /\ run' = at[Stage]
  /\ GoOn(Stage, "idle")
  /\ UNCHANGED <<delivery, result, intent, refresh, io, world, history>>

\* The sweep returns a Run whose quiet wait is over, or that a crash
\* interrupted, to the queue.
QuietWaitOver ==
  /\ Turn /\ run = "blocked"
  /\ run' = "pending"
  /\ UNCHANGED <<delivery, result, intent, refresh, at, io, world, history>>

Recover ==
  /\ Turn /\ run = "running" /\ at[Stage] = "idle"
  /\ run' = "pending"
  /\ UNCHANGED <<delivery, result, intent, refresh, at, io, world, history>>

\* retryRun of a failed Run: the owner's intent is put on the timeline before
\* the Runner is asked, which may still refuse (or the process die in between).
RetryFailed ==
  /\ Turn /\ run = "failed" /\ ~refresh
  /\ intent' = (intent \/ ~AutoSend)
  /\ run' \in {"pending", "failed"}
  /\ asked' = TRUE
  /\ UNCHANGED <<delivery, result, refresh, at, io, world, together>>

\* retryRun of a completed Run whose Brief was never emailed.
SendDeferred(m) ==
  /\ Turn /\ run = "done" /\ ~refresh /\ at[m] = "idle"
  /\ result \in {"pending", "failed"}
  /\ Begin(m)
  /\ asked' = TRUE
  /\ UNCHANGED <<durable, world, together>>

-----------------------------------------------------------------------------
(* Disk, process and environment                                           *)

\* persistDelivery copies the status only into a result.json that exists.
WriteArtifact ==
  /\ io # <<>>
  /\ io' = Tail(io)
  /\ LET op == Head(io) IN
       /\ delivery' = IF op.file = "delivery" THEN op.to ELSE delivery
       /\ result' = IF op.file = "result" /\ result # "absent" THEN op.to ELSE result
       /\ refresh' = (refresh \/ op.file = "refresh")
  /\ UNCHANGED <<run, intent, at, world, history>>

\* The process dies and comes back: attempts and unwritten artifacts are gone.
Crash ==
  /\ io' = <<>>
  /\ at' = [w \in Workers |-> "idle"]
  /\ UNCHANGED <<durable, world, history>>

CalendarChanges ==
  /\ calendar' \in Occurrences \ {calendar}
  /\ UNCHANGED <<durable, at, io, messages, near, revision, confirmed, stale, history>>

StartDraws ==
  /\ ~near /\ near' = TRUE
  /\ UNCHANGED <<durable, at, io, messages, calendar, revision, confirmed, stale, history>>

OwnerConfirmationChanges ==
  /\ confirmed' = ~confirmed
  /\ UNCHANGED <<durable, at, io, messages, calendar, near, revision, stale, history>>

ProfileChanges ==
  /\ ~stale /\ stale' = TRUE
  /\ UNCHANGED <<durable, at, io, messages, calendar, near, revision, confirmed, history>>

-----------------------------------------------------------------------------
Init ==
  /\ run = "pending"
  /\ delivery = [status |-> "absent", quiet |-> FALSE]
  /\ result = "absent"
  /\ intent = FALSE /\ refresh = FALSE
  /\ at = [w \in Workers |-> "idle"]
  /\ io = <<>>
  /\ messages = 0
  /\ calendar = "same"
  /\ near \in BOOLEAN /\ revision \in BOOLEAN /\ confirmed \in BOOLEAN
  /\ stale = FALSE
  /\ asked = FALSE /\ together = FALSE

Attempt(w) ==
  AfterRead(w) \/ AfterFind(w) \/ GmailAccepts(w) \/ AfterSend(w) \/ SendFails(w)

RunStep == StageDelivers \/ StageGenerates \/ GenerateFails \/ StageEnds \/ QuietWaitOver \/ Recover

Environment == CalendarChanges \/ StartDraws \/ OwnerConfirmationChanges \/ ProfileChanges

Next ==
  \/ \E w \in Workers : Attempt(w)
  \/ RunStep
  \/ RetryFailed
  \/ \E m \in Manuals : SendDeferred(m)
  \/ WriteArtifact
  \/ Crash
  \/ Environment

Spec == Init /\ [][Next]_vars

\* Awaits are answered, the event loop goes on, the sweep keeps running.
Fairness ==
  /\ WF_vars(WriteArtifact)
  /\ SF_vars(RunStep)
  /\ \A w \in Workers : SF_vars(Attempt(w))

FairSpec == Spec /\ Fairness

-----------------------------------------------------------------------------
(* Properties                                                              *)

Awaits == {"idle", "read", "find", "send", "accepted"}

\* Every variable holds a value of its type.
TypeOK ==
  /\ run \in {"pending", "running"} \cup Outcomes
  /\ delivery \in Delivery
  /\ result \in Statuses
  /\ intent \in BOOLEAN /\ refresh \in BOOLEAN
  /\ at \in [Workers -> Awaits \cup Outcomes]
  /\ io \in Seq(Op)
  /\ messages \in 0..MaxMessages
  /\ calendar \in Occurrences
  /\ near \in BOOLEAN /\ revision \in BOOLEAN /\ confirmed \in BOOLEAN /\ stale \in BOOLEAN
  /\ asked \in BOOLEAN /\ together \in BOOLEAN

\* However often acknowledgements are lost, attempts fail or the process dies on
\* either side of the send, a second message carries the delivery identity only
\* if two owner requests stood in the send at once, each with an empty search
\* behind it.  The Stage never sends a second one, and neither does a request
\* whose search comes after the message.
OneMessage == messages > 1 => together

\* A receipt (sent, reconciled) is recorded only for a message Gmail holds.
ReceiptsAreTrue ==
  (delivery.status \in {"sent", "reconciled"} \/ result \in {"sent", "reconciled"}) => messages > 0

\* With per-Brief auto-send off, nothing is mailed the owner did not ask for:
\* neither preparation nor recovery nor a resumed quiet wait sends by itself.
NoUnaskedMessage == ~AutoSend /\ ~asked => messages = 0

Settled ==
  /\ io = <<>>
  /\ run \in {"done", "skipped"}
  /\ result \in {"sent", "reconciled", "skipped", "superseded"}

\* Once a finished Run has a settled delivery its records stand, no attempt of any
\* kind begins, and nothing is mailed or about to be written, but by an owner
\* request that was already under way: a sent Brief is not sent again, and a
\* superseded or skipped one is not mailed after all, by the Stage, the sweep,
\* recovery or a later request.
SettledStays ==
  [][Settled =>
       /\ UNCHANGED <<run, delivery, result>>
       /\ \A w \in Workers : at[w] = "idle" => at'[w] = "idle"
       /\ UNCHANGED <<io, messages>> \/ \E m \in Manuals : at[m] # "idle" /\ at'[m] # at[m]]_vars

\* If the process stops crashing, a Run that reaches deliver leaves it: quiet
\* waits do not repeat for ever.
DeliveryEnds == <>[][~Crash]_vars => (run = "pending" ~> run \in {"done", "failed", "skipped"})
=============================================================================
