------------------------- MODULE DebriefPublication -------------------------
(***************************************************************************)
(* One Meeting Debrief Run: its durable publication and its owner's turns. *)
(*                                                                         *)
(* The Run directory holds the operation record, the frozen context, the   *)
(* checked cores, and for every revision its result bytes and the manifest *)
(* that marks them prepared; then the publication pointer, the result.json *)
(* projection, the completion receipt, the review record and the Gmail     *)
(* draft receipt (modules/meeting-debrief/publication.ts).  Every one of   *)
(* them is a write of its own, so the process may die between any two, and *)
(* every path - extraction, retry, regeneration, recovery, the boot sweep  *)
(* - enters the one reconciler again (module.ts, host.ts).                 *)
(*                                                                         *)
(* Bytes are abstract: a result is the number of the model call that wrote *)
(* it (text), the discovery its Action Items came from (items), and        *)
(* whether every required section validated (complete).                    *)
(***************************************************************************)
EXTENDS Integers, FiniteSets

CONSTANTS
    MaxCalls,   \* bound: model calls, and so revisions, of the Run
    MaxFaults   \* bound: crashes, failing steps and lost files

ASSUME MaxCallsAssumption == MaxCalls \in Nat
ASSUME MaxFaultsAssumption == MaxFaults \in Nat

VARIABLES
    status,       \* the Run's status
    failedStage,  \* the Stage a failed Run names
    lastFailure,  \* the last stage_failed event: an integrity error or another
    up,           \* the process is alive
    job,          \* the attempt the Runner executes, or the host's own call
    op,           \* operation.json exists
    context,      \* context-snapshot.json exists
    cores,        \* core-r<n>.json: the discovery it holds, 0 when absent
    results,      \* revision-r<n>.result.json
    manifests,    \* revision-r<n>.manifest.json
    publication,  \* publication.json
    projection,   \* result.json: the text it holds, 0 when absent
    completion,   \* completion.json
    review,       \* review.json
    asked,        \* the timeline holds a request to regenerate Action Items
    receipt,      \* draft.json exists
    drafts,       \* Gmail drafts created
    materialized, \* discoveries whose Action Items the Workspace holds
    record,       \* the Transcript Catalog still holds the Transcript
    gate,         \* the approval gate is open
    calls,        \* model calls answered
    faults        \* faults still to come

files == <<op, context, cores, results, manifests, publication, projection,
           completion>>
outward == <<receipt, drafts>>
world == <<record, gate>>
run == <<status, failedStage, lastFailure>>
vars == <<run, up, job, asked, files, review, outward, materialized, world,
          calls, faults>>

-----------------------------------------------------------------------------
Revisions == 1..MaxCalls
Texts == 0..MaxCalls
Fields == {"items", "section"}
Turns == {"publish", "reconcile", "owner", "approve"} \cup Fields
Steps == {"associate", "reserve", "context", "core", "sections",
          "materialize", "review", "manifest", "publish", "exposed",
          "project", "complete", "settle", "finish", "enter", "approve",
          "draft", "receipt"}

Absent == [text |-> 0, items |-> 0, complete |-> FALSE]
Unmarked == [text |-> 0, items |-> 0, complete |-> FALSE, core |-> 0]

Idle == [pc |-> "idle", turn |-> "publish", rev |-> 0, core |-> 0]
Begin(pc, turn) == [pc |-> pc, turn |-> turn, rev |-> 0, core |-> 0]
Goto(pc) == [job EXCEPT !.pc = pc]

Regenerating == job.turn \in Fields

\* The revisions that have a file of each kind.
Cored == {r \in Revisions : cores[r] # 0}
Resulted == {r \in Revisions : results[r].text # 0}
Marked == {r \in Revisions : manifests[r].text # 0}

Newest(S) == CHOOSE r \in S : \A s \in S : s <= r

Published == publication.rev # 0
PublishedComplete == Published /\ manifests[publication.rev].complete
Exposed == Published /\ ~manifests[publication.rev].complete

\* The revision this reconciliation would produce (nextRevisionTarget).
Target == publication.rev + 1

\* readPreparedRevision: the newest marked revision, or, when nothing was ever
\* marked, the result an interrupted preparation left behind.
Prepared == IF Marked # {} THEN {Newest(Marked)} ELSE Resulted

\* The part of a prepared revision that is newer than the publication.
NewestPrepared == {r \in Prepared : r > publication.rev}

-----------------------------------------------------------------------------
\* Where a throw inside a Stage leaves the Run (the Stage that was open).
StageOf(j) ==
    IF j.turn \in Fields /\ j.pc # "enter" THEN "regenerate"
    ELSE IF j.turn \in {"owner", "approve"} \/ j.pc = "finish" THEN "review"
    ELSE IF j.pc = "associate" THEN "associate"
    ELSE "extract"

Throw(kind) ==
    /\ status' = "failed"
    /\ failedStage' = StageOf(job)
    /\ lastFailure' = kind
    /\ job' = Idle

Done ==
    /\ status' = "done"
    /\ job' = Idle
    /\ UNCHANGED <<failedStage, lastFailure>>

\* The Catalog lost the record: the Run ends skipped.
Skip ==
    /\ status' = "skipped"
    /\ job' = Idle
    /\ UNCHANGED <<failedStage, lastFailure>>

-----------------------------------------------------------------------------
Init ==
    /\ status = "running" /\ failedStage = "none" /\ lastFailure = "none"
    /\ up = TRUE
    /\ job = Begin("associate", "publish")
    /\ op = FALSE /\ context = FALSE
    /\ cores = [r \in Revisions |-> 0]
    /\ results = [r \in Revisions |-> Absent]
    /\ manifests = [r \in Revisions |-> Unmarked]
    /\ publication = [rev |-> 0, gen |-> 0, reviewOnly |-> FALSE]
    /\ projection = 0
    /\ completion = [rev |-> 0, gen |-> 0]
    /\ review = [held |-> FALSE, request |-> "none", approval |-> FALSE]
    /\ asked = FALSE /\ receipt = FALSE /\ drafts = 0
    /\ materialized = {}
    /\ record = TRUE /\ gate \in BOOLEAN
    /\ calls = 0 /\ faults = MaxFaults

\* The associate Stage of run(): the record is consumed, or the Run is skipped.
Associate ==
    /\ job.pc = "associate"
    /\ IF record THEN job' = Goto("reserve") /\ UNCHANGED run ELSE Skip
    /\ UNCHANGED <<up, asked, files, review, outward, materialized, world, calls, faults>>

\* reserveOperation: written once, replayed by every later attempt.
ReserveOperation ==
    /\ job.pc = "reserve"
    /\ op' = TRUE
    /\ job' = Goto("context")
    /\ UNCHANGED <<run, up, asked, context, cores, results, manifests, publication,
                   projection, completion, review, outward, materialized,
                   world, calls, faults>>

\* ensureContextSnapshot and the reconciler's decision: finish the newest
\* prepared revision, verify a complete publication, or ask the model.
Decide ==
    /\ job.pc = "context"
    /\ context' = TRUE
    /\ IF NewestPrepared # {}
       THEN /\ job' = [Goto("materialize") EXCEPT !.rev = Newest(NewestPrepared)]
            /\ UNCHANGED run
       ELSE IF PublishedComplete /\ ~Regenerating
       THEN /\ job' = [Goto("publish") EXCEPT !.rev = publication.rev]
            /\ UNCHANGED run
       ELSE IF job.turn = "reconcile"
       THEN Throw("error")
       ELSE job' = Goto("core") /\ UNCHANGED run
    /\ UNCHANGED <<up, asked, op, cores, results, manifests, publication, projection,
                   completion, review, outward, materialized, world, calls,
                   faults>>

\* Mutant of Reusable: the core serves until a revision is published.
ReusableUntilPublished == job.turn # "items" /\ Cored # {} /\ ~Published

\* The checked core is resumed unless the owner asked for the Action Items.
Reusable == job.turn # "items" /\ Cored # {}

\* produceModelRevision resumes the newest checked core.
ReuseCore ==
    /\ job.pc = "core" /\ Reusable
    /\ job' = [Goto("sections") EXCEPT !.core = Newest(Cored)]
    /\ UNCHANGED <<run, up, asked, files, review, outward, materialized, world, calls,
                   faults>>

\* extractDebriefCore, then writeCheckedCore: a core the revision already holds
\* has other bytes, its preparedAt at least, and is refused as damage.
DiscoverCore ==
    /\ job.pc = "core"
    /\ ~Reusable
    /\ calls < MaxCalls /\ Target \in Revisions
    /\ calls' = calls + 1
    /\ IF cores[Target] = 0
       THEN /\ cores' = [cores EXCEPT ![Target] = calls + 1]
            /\ job' = [Goto("sections") EXCEPT !.core = Target]
            /\ UNCHANGED run
       ELSE Throw("integrity") /\ UNCHANGED cores
    /\ UNCHANGED <<up, asked, op, context, results, manifests, publication, projection,
                   completion, review, outward, materialized, world, faults>>

\* What the merged revision holds: a section regeneration keeps the published
\* Action Items; unrequested sections keep the published availability.
Produced(ok) ==
    [text |-> calls + 1,
     items |-> IF job.turn = "section" THEN manifests[publication.rev].items
               ELSE cores[job.core],
     complete |-> CASE job.turn = "items" -> PublishedComplete
                    [] job.turn = "section" -> PublishedComplete /\ ok
                    [] OTHER -> ok]

\* extractDebriefSections (a refused section is unavailable, never thrown),
\* finalizeDebriefRevision and writeRevisionResult: bytes nobody accepted are
\* replaced.
WriteResult(ok) ==
    /\ job.pc = "sections"
    /\ calls < MaxCalls /\ Target \in Revisions
    /\ calls' = calls + 1
    /\ results' = [results EXCEPT ![Target] = Produced(ok)]
    /\ job' = [Goto("materialize") EXCEPT !.rev = Target]
    /\ UNCHANGED <<run, up, asked, op, context, cores, manifests, publication,
                   projection, completion, review, outward, materialized,
                   world, faults>>

\* The operation's model budget is spent: the attempt throws in its Stage.
BudgetExhausted ==
    /\ job.pc \in {"core", "sections"} /\ calls = MaxCalls
    /\ Throw("error")
    /\ UNCHANGED <<up, asked, files, review, outward, materialized, world, calls, faults>>

\* Mutants of Materialize: an incomplete revision may replace a complete one;
\* only a revision this attempt produced is materialized.
MaterializeAnything ==
    /\ job.pc = "materialize"
    /\ materialized' = materialized \cup {results[job.rev].items}
    /\ job' = Goto("review")
    /\ UNCHANGED <<run, up, asked, files, review, outward, world, calls, faults>>

MaterializeProduced ==
    /\ job.pc = "materialize"
    /\ results[job.rev].complete \/ ~PublishedComplete
    /\ materialized' = IF job.core = 0 THEN materialized
                       ELSE materialized \cup {results[job.rev].items}
    /\ job' = Goto("review")
    /\ UNCHANGED <<run, up, asked, files, review, outward, world, calls, faults>>

\* An incomplete revision never replaces a complete publication; otherwise the
\* Action Items are materialized, idempotently, unless the producer kept the
\* published ones.
Materialize ==
    /\ job.pc = "materialize"
    /\ IF ~results[job.rev].complete /\ PublishedComplete
       THEN Throw("integrity") /\ UNCHANGED materialized
       ELSE /\ materialized' = IF job.turn = "section" /\ job.core # 0
                               THEN materialized
                               ELSE materialized \cup {results[job.rev].items}
            /\ job' = Goto("review")
            /\ UNCHANGED run
    /\ UNCHANGED <<up, asked, files, review, outward, world, calls, faults>>

\* ensureReview: the review record is created once and never reset.
EnsureReview ==
    /\ job.pc = "review"
    /\ review' = [review EXCEPT !.held = TRUE]
    /\ job' = Goto("manifest")
    /\ UNCHANGED <<run, up, asked, files, outward, materialized, world, calls, faults>>

\* prepareRevision: the manifest is the marker, written last and only once.
PrepareRevision ==
    /\ job.pc = "manifest"
    /\ manifests' = IF job.rev \in Marked THEN manifests
                    ELSE [manifests EXCEPT ![job.rev] =
                            [text |-> results[job.rev].text,
                             items |-> results[job.rev].items,
                             complete |-> results[job.rev].complete,
                             core |-> job.core]]
    /\ job' = Goto("publish")
    /\ UNCHANGED <<run, up, asked, op, context, cores, results, publication, projection,
                   completion, review, outward, materialized, world, calls,
                   faults>>

\* The pointer to the revision in hand.
PointerTo ==
    [rev |-> job.rev, gen |-> publication.gen + 1,
     reviewOnly |-> publication.reviewOnly \/ ~manifests[job.rev].complete]

\* publishRevision: the pointer, its generation and the sticky review-only mark.
PublishRevision ==
    /\ job.pc = "publish"
    /\ IF publication.rev = job.rev
       THEN UNCHANGED publication
       ELSE publication' = PointerTo
    /\ job' = Goto(IF manifests[job.rev].complete THEN "project" ELSE "exposed")
    /\ UNCHANGED <<run, up, asked, op, context, cores, results, manifests, projection,
                   completion, review, outward, materialized, world, calls,
                   faults>>

\* An exposed incomplete revision gets neither projection nor receipt, and its
\* Run fails with the sections named.
ExposeIncomplete ==
    /\ job.pc = "exposed"
    /\ Throw("integrity")
    /\ UNCHANGED <<up, asked, files, review, outward, materialized, world, calls, faults>>

WriteProjection ==
    /\ job.pc = "project"
    /\ projection' = results[job.rev].text
    /\ job' = Goto("complete")
    /\ UNCHANGED <<run, up, asked, op, context, cores, results, manifests, publication,
                   completion, review, outward, materialized, world, calls,
                   faults>>

\* publicationFailures: what verifyCompletion reads back before the receipt.
PublicationSound ==
    /\ Published
    /\ publication.rev \in Marked
    /\ LET m == manifests[publication.rev]
           r == results[publication.rev]
       IN  /\ m.complete
           /\ m.text = r.text /\ m.items = r.items
           /\ projection = m.text
           /\ m.items \in materialized
           /\ m.core # 0 => cores[m.core] # 0
    /\ op /\ context /\ review.held

\* completionFailures is empty: the receipt names this very publication.
Verified ==
    /\ PublicationSound
    /\ completion = [rev |-> publication.rev, gen |-> publication.gen]

\* Mutant of ReceiptFor: a receipt that exists is taken for this one.
ReceiptHeld ==
    IF completion.rev # 0 THEN completion
    ELSE [rev |-> publication.rev, gen |-> publication.gen]

\* receiptFor: the receipt of this publication and generation.
ReceiptFor == [rev |-> publication.rev, gen |-> publication.gen]

VerifyCompletion ==
    /\ job.pc = "complete"
    /\ IF PublicationSound
       THEN /\ completion' = ReceiptFor
            /\ job' = Goto(IF Regenerating THEN "settle" ELSE "finish")
            /\ UNCHANGED run
       ELSE Throw("integrity") /\ UNCHANGED completion
    /\ UNCHANGED <<up, asked, op, context, cores, results, manifests, publication,
                   projection, review, outward, materialized, world, calls,
                   faults>>

\* The regenerate Stage's last write: the owner's request is carried out.
SettleRequest ==
    /\ job.pc = "settle"
    /\ review' = [review EXCEPT !.request = "none"]
    /\ job' = Goto("finish")
    /\ UNCHANGED <<run, up, asked, files, outward, materialized, world, calls, faults>>

\* The Run reports done; extraction ensures the review record once more.
Finish ==
    /\ job.pc = "finish"
    /\ review' = [review EXCEPT !.held = TRUE]
    /\ Done
    /\ UNCHANGED <<up, asked, files, outward, materialized, world, calls, faults>>

-----------------------------------------------------------------------------
\* reviewTurn: one owner turn, dispatched on the request the record holds.
EnterReview ==
    /\ job.pc = "enter"
    /\ IF ~record
       THEN Skip /\ UNCHANGED review
       ELSE /\ review' = [review EXCEPT !.held = TRUE]
            /\ job' = CASE review.request \in Fields -> Begin("reserve", review.request)
                        [] review.request = "approve" -> Begin("approve", "approve")
                        [] OTHER -> Begin(IF review.approval THEN "draft" ELSE "finish",
                                          "approve")
            /\ UNCHANGED run
    /\ UNCHANGED <<up, asked, files, outward, materialized, world, calls, faults>>

\* The review record once the owner's approval is carried out.
Locked == [review EXCEPT !.request = "none", !.approval = TRUE]

\* The gate is asserted again, then the preview's revision (its inputs live in
\* other records, so it may be stale at any time); only then is approval locked.
Approve(stale) ==
    /\ job.pc = "approve"
    /\ IF ~gate \/ stale
       THEN /\ review' = [review EXCEPT !.request = "none"]
            /\ job' = Goto("finish")
       ELSE /\ review' = Locked
            /\ job' = Goto("draft")
    /\ UNCHANGED <<run, up, asked, files, outward, materialized, world, calls, faults>>

\* writeApprovalOutputs: Gmail is asked unless the receipt exists ...
CreateDraft ==
    /\ job.pc = "draft"
    /\ IF receipt
       THEN job' = Goto("finish") /\ UNCHANGED drafts
       ELSE job' = Goto("receipt") /\ drafts' = drafts + 1
    /\ UNCHANGED <<run, up, asked, files, review, receipt, materialized, world, calls,
                   faults>>

\* ... and the receipt is written after Gmail answered.
WriteReceipt ==
    /\ job.pc = "receipt"
    /\ receipt' = TRUE
    /\ job' = Goto("finish")
    /\ UNCHANGED <<run, up, asked, files, review, drafts, materialized, world, calls,
                   faults>>

-----------------------------------------------------------------------------
\* Attempts are begun only while the bound allows another model call.
Room == calls < MaxCalls

\* Mutant of Reviewable: a request in flight does not close the routes.
ReviewableAgain ==
    /\ up /\ job.pc = "idle"
    /\ status = "done" \/ (status = "failed" /\ Exposed)
    /\ review.held /\ ~review.approval

\* reviewable: a finished Run, or a failed one holding an exposed revision, with
\* nothing approved and no request in flight.
Reviewable ==
    /\ up /\ job.pc = "idle"
    /\ status = "done" \/ (status = "failed" /\ Exposed)
    /\ review.held /\ ~review.approval /\ review.request = "none"

\* The regenerate route writes the request, then asks the Runner.
RequestRegenerate(field) ==
    /\ Reviewable /\ Room
    /\ review' = [review EXCEPT !.request = field]
    /\ asked' = (asked \/ field = "items")
    /\ job' = Begin("resume", "owner")
    /\ UNCHANGED <<run, up, files, outward, materialized, world, calls, faults>>

\* The approve route: complete sections and an open gate.
RequestApprove ==
    /\ Reviewable /\ Room
    /\ ~Exposed /\ gate
    /\ review' = [review EXCEPT !.request = "approve"]
    /\ job' = Begin("resume", "owner")
    /\ UNCHANGED <<run, up, asked, files, outward, materialized, world, calls, faults>>

\* planRetry: extraction resumes extraction, an owner turn its review Stage.
Retry ==
    /\ status' = "running"
    /\ job' = IF failedStage \in {"regenerate", "review"} THEN Begin("enter", "owner")
              ELSE Begin("associate", "publish")
    /\ UNCHANGED <<failedStage, lastFailure>>

Reenter(pc, turn) ==
    /\ status' = "running"
    /\ job' = Begin(pc, turn)
    /\ UNCHANGED <<failedStage, lastFailure>>

\* resumeOwnerTurn: a finished Run is re-entered, a failed one is retried.
ResumeOwnerTurn ==
    /\ job.pc = "resume"
    /\ IF status = "failed" THEN Retry ELSE Reenter("enter", "owner")
    /\ UNCHANGED <<up, asked, files, review, outward, materialized, world, calls, faults>>

\* The early-review route: expose the checked core, or finish what is exposed.
EarlyReview ==
    /\ up /\ job.pc = "idle" /\ Room
    /\ Cored # {} \/ Published
    /\ ~PublishedComplete
    /\ status = "failed"
    /\ Retry
    /\ UNCHANGED <<up, asked, files, review, outward, materialized, world, calls, faults>>

\* The Runs page's retry of a failed Run.
RetryRun ==
    /\ up /\ job.pc = "idle" /\ Room
    /\ status = "failed"
    /\ Retry
    /\ UNCHANGED <<up, asked, files, review, outward, materialized, world, calls, faults>>

-----------------------------------------------------------------------------
\* publicationNeedsRecovery: prepared work that is neither an exposed revision
\* nor refused as damaged, and not completed.
NeedsRecovery ==
    /\ Marked \cup Resulted # {}
    /\ ~Exposed
    /\ lastFailure # "integrity"
    /\ ~Verified

\* Mutant of RecoverRun: a Run with prepared work is left to the sweep, which
\* takes terminal Runs alone.
RecoverUnprepared ==
    status = "running" /\ Marked = {} /\ Reenter("associate", "publish")

\* planRecovery: an interrupted Run resumes at extract, whatever it was doing.
RecoverRun == status = "running" /\ Reenter("associate", "publish")

\* start(): recoverRuns resumes an interrupted Run at extract, then
\* reconcilePublications re-enters a terminal one with unfinished metadata.
Boot ==
    /\ ~up
    /\ up' = TRUE
    /\ \/ RecoverRun
       \/ status = "failed" /\ NeedsRecovery /\ Retry
       \/ status = "done" /\ NeedsRecovery /\ Reenter("associate", "reconcile")
       \/ status # "running" /\ ~(status \in {"failed", "done"} /\ NeedsRecovery)
          /\ UNCHANGED <<run, job>>
    /\ UNCHANGED <<asked, files, review, outward, materialized, world, calls, faults>>

\* The process dies: the attempt is gone, the files stay.
Crash ==
    /\ up /\ faults > 0
    /\ faults' = faults - 1
    /\ up' = FALSE
    /\ job' = Idle
    /\ UNCHANGED <<run, asked, files, review, outward, materialized, world, calls>>

\* A model call, a materialization, Gmail or a write throws inside a Stage.
StepFails ==
    /\ job.pc \in Steps \ {"exposed"} /\ faults > 0
    /\ job.pc = "finish" => job.turn \in {"publish", "reconcile"}
    /\ faults' = faults - 1
    /\ Throw("error")
    /\ UNCHANGED <<up, asked, files, review, outward, materialized, world, calls>>

\* Commit metadata of a finished Run disappears (an older backup is restored).
LoseMetadata ==
    /\ up /\ job.pc = "idle" /\ status = "done" /\ faults > 0
    /\ faults' = faults - 1
    /\ \/ projection' = 0 /\ UNCHANGED completion
       \/ completion' = [rev |-> 0, gen |-> 0] /\ UNCHANGED projection
    /\ UNCHANGED <<run, up, job, asked, op, context, cores, results, manifests,
                   publication, review, outward, materialized, world, calls>>

\* The Catalog drops the Transcript; the gate's other records change.
DropTranscript ==
    /\ record /\ record' = FALSE
    /\ UNCHANGED <<run, up, job, asked, files, review, outward, materialized, gate,
                   calls, faults>>

MoveGate ==
    /\ gate' = ~gate
    /\ UNCHANGED <<run, up, job, asked, files, review, outward, materialized, record,
                   calls, faults>>

-----------------------------------------------------------------------------
\* The steps the process takes by itself once an attempt is queued.
Advance ==
    \/ Associate \/ ReserveOperation \/ Decide \/ ReuseCore \/ DiscoverCore
    \/ \E ok \in BOOLEAN : WriteResult(ok)
    \/ BudgetExhausted \/ Materialize \/ EnsureReview \/ PrepareRevision
    \/ PublishRevision \/ ExposeIncomplete \/ WriteProjection
    \/ VerifyCompletion \/ SettleRequest \/ Finish
    \/ EnterReview \/ \E stale \in BOOLEAN : Approve(stale)
    \/ CreateDraft \/ WriteReceipt
    \/ ResumeOwnerTurn \/ Boot

Owner ==
    \/ \E field \in Fields : RequestRegenerate(field)
    \/ RequestApprove \/ EarlyReview \/ RetryRun

Environment == Crash \/ StepFails \/ LoseMetadata \/ DropTranscript \/ MoveGate

Next == Advance \/ Owner \/ Environment

Spec == Init /\ [][Next]_vars

\* An attempt in the queue is executed and a dead process is started again;
\* nothing is assumed of the owner.
FairSpec == Spec /\ WF_vars(Advance)

-----------------------------------------------------------------------------
(* Properties                                                              *)

\* Every variable holds a value of its type.
TypeOK ==
    /\ status \in {"running", "done", "failed", "skipped"}
    /\ failedStage \in {"none", "associate", "extract", "regenerate", "review"}
    /\ lastFailure \in {"none", "error", "integrity"}
    /\ up \in BOOLEAN
    /\ job \in [pc : Steps \cup {"idle", "resume"}, turn : Turns,
                rev : 0..MaxCalls, core : 0..MaxCalls]
    /\ op \in BOOLEAN /\ context \in BOOLEAN
    /\ cores \in [Revisions -> Texts]
    /\ results \in [Revisions -> [text : Texts, items : Texts, complete : BOOLEAN]]
    /\ manifests \in [Revisions -> [text : Texts, items : Texts,
                                    complete : BOOLEAN, core : 0..MaxCalls]]
    /\ publication \in [rev : 0..MaxCalls, gen : Nat, reviewOnly : BOOLEAN]
    /\ projection \in Texts
    /\ completion \in [rev : 0..MaxCalls, gen : Nat]
    /\ review \in [held : BOOLEAN, request : {"none", "approve"} \cup Fields,
                   approval : BOOLEAN]
    /\ asked \in BOOLEAN /\ receipt \in BOOLEAN /\ drafts \in Nat
    /\ materialized \subseteq Texts
    /\ record \in BOOLEAN /\ gate \in BOOLEAN
    /\ calls \in 0..MaxCalls /\ faults \in 0..MaxFaults

\* Whatever write the process died after, the pointer names a marked revision
\* whose bytes are the ones it was prepared from, over an operation, a context,
\* a core, a review record and materialized Action Items that all exist
\* (publishRevision after prepareRevision after materialize).
PointerHasItsChain ==
    Published =>
        LET m == manifests[publication.rev]
            r == results[publication.rev]
        IN  /\ publication.rev \in Marked
            /\ m.text = r.text /\ m.items = r.items /\ m.complete = r.complete
            /\ m.items \in materialized
            /\ m.core # 0 => cores[m.core] # 0
            /\ op /\ context /\ review.held

\* A Run whose Action Items nobody asked to regenerate discovers them once:
\* through every retry, recovery, exposure and section regeneration it keeps
\* one core, and every result the Action Items of it (resumableCheckedCore).
OneDiscovery ==
    ~asked => /\ Cardinality(Cored) <= 1
              /\ \A r \in Resulted : \E c \in Cored : cores[c] = results[r].items

\* A section regeneration always resumes the core its published Action Items
\* came from, so the candidate aliases it carries are theirs and the alias
\* refusals of finalizeDebriefRevision and preparedFailures never strike it -
\* although a failed Action Item regeneration leaves a newer core behind.
SectionResumesItsCore ==
    job.turn = "section" /\ job.pc = "sections"
        => cores[job.core] = manifests[publication.rev].items

\* The pointer only moves forward, one generation at a time; it never moves
\* from a complete revision to an incomplete one, and never forgets that the
\* Run was exposed (publishRevision, incomplete-replacement).
PointerMovesForward ==
    [][publication' # publication =>
         /\ publication'.rev > publication.rev
         /\ publication'.gen = publication.gen + 1
         /\ PublishedComplete => manifests'[publication'.rev].complete
         /\ publication.reviewOnly => publication'.reviewOnly]_vars

\* An extraction, a recovery or a regeneration reports done only when the whole
\* committed chain reads back: pointer, marked bytes, projection and a receipt
\* of this very generation, whatever was lost or interrupted before
\* (verifyCompletion before finished).
DoneIsVerified ==
    [][status' = "done" /\ job.pc = "finish" /\ job.turn # "approve" => Verified']_vars

\* A revision marked prepared is published, or its Run says that it failed:
\* no crash can leave it waiting (planRecovery, readPreparedRevision).
PreparedIsPublished ==
    (\E r \in Marked : r > publication.rev)
        ~> \/ \A r \in Marked : r <= publication.rev
           \/ status \in {"failed", "skipped"}

=============================================================================
