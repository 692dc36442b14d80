# Chief of Staff: a TLA+ verification project

Chief of Staff is a local-first assistant: one Node process (the *Shell*,
`apps/server`) that prepares Meeting Briefs from Google Calendar, debriefs
meetings, keeps Tasks and mirrors them to Google Tasks or Asana, researches
people and runs content work, all of it on JSON files in a Workspace directory.
A small separate service (`relay/`) forwards Calendar pushes.

There are no threads. What makes the program hard is that everything is
`async`: between two awaits a handler is alone, across an await anything may
happen; every operation is a read, an await of somebody else's service, and a
write of files; and the process may die between any two of those. The models
are built on exactly that: **one action is one JavaScript turn**, an await is a
place where other actions interleave, and a turn's file writes are separate
steps wherever a crash between them is visible.

Paths below are relative to `src/apps/server/src/` unless they start otherwise.

## 1. Inventory

| Component | State | Operations | Interacts with |
|---|---|---|---|
| Run engine and store (`engine/runner.ts`, `runs.ts`) | `meta.json`, `events.jsonl` per Run; `Runner.active`, `Runner.queue` | start, retry, re-enter, resume, execute, Stage begin/end/fail/wait, finish, recovery sweep | every Module's `run`; the durable clock; the setup prerequisite |
| Durable clock (`engine/durableClock.ts`) | one JSON record per module and key | schedule, remove, list, due | Intake hosts |
| Meeting Brief intake (`modules/meeting-brief-generator/{intake,host,calendar}.ts`) | sync token, schedules, cancellation marks | reconcile, prepare week, process due, prepare now, tick, wake-up, recovery | Calendar, relay poller, clock, Run engine |
| Meeting Brief delivery (`.../{deliver,module,host}.ts`, `google/gmailDelivery.ts`) | `delivery.json`, `result.json`, timeline intents | deliver Stage, quiet wait, reconcile, send, owner retry | Calendar, Gmail, Run engine |
| External Task Links (`tasks/external-link.ts`, `tasks/tasks.ts`) | the Task and its link (baseline, state, failure) | link, retry, refresh, push status/content, inspect, resolve drift and conflict, recreate, unlink, trash, restore, recover creation | Google Tasks / Asana, owner routes |
| Model admission and budgets (`llm/{admission,budget,providers}.ts`) | two queues, active leases, `model-budget-ledger.json` | acquire, pump, release, backoff, cancel; reserve, settle, extend, cancel | every model call; owner routes |
| Relay and poller (`relay/src/*`, `relay/*`) | in-memory installations, channels, messages; cursor on disk | pair, register, push, long-poll, acknowledge | Google push, intake |
| Person research queue (`person-profile/research-queue.ts`, `research.ts`) | jobs file shared by instances, runs in flight | enqueue, remove, cancel, tick, run, merge on save | Profiles, model calls |
| Meeting Debrief (`modules/meeting-debrief/*`) | operation, prepared revisions, publication pointer, review | reserve, prepare, publish, complete, review | Transcript Catalog, Action Items |
| Action Items, Tasks, promotion, cutover (`tasks/*`) | the Task store | materialise, promote, auto-promote, migrate once | Debrief, links |
| Transcript Catalog (`transcript-catalog/*`) | records, identities, tombstones | ingest, match, delete in a cascade | Drive, Debrief, Profiles |
| Content Projects (`content-projects/projects.ts`) | `projects.json`: Projects and their revisions, author policies, voices | revise, attach, freeze, propose and approve charters and Outlines; Research Request, Outline, Outline Set, Draft | research providers, model calls, onboarding, brand |
| Content Scout / Research / YouTube | JSON state per module | collections | model calls, adapters |
| Google connection (`google/connection.ts`) | tokens, connection state | sign in, prove, disconnect | every Google client |
| Workspace migration, backup, clear-data, commits | the whole directory; marker, receipt | classify, reset, staged rewrite, verified write | start-up |
| API, composition, web application, adapters, text, benchmarks | none of their own that other parts read | decode, call, render | all |

The hard behaviours and the lines where they bite are the `hazards` of
`PROJECT.json`. The recurring shapes are

* a value read before an await and written back after it (Task Links, Intake,
  Content Projects);
* two files, or a file and a remote effect, that a crash separates (Runs,
  delivery, sync token and schedules, reservations);
* a request that was accepted and whose answer is lost (Gmail, Tasks);
* a retry, sweep or timer that meets the thing it retries still under way;
* something that must happen in the end although each trigger may be lost.

What makes each modelled component correct is stated in its section below; for
the parts not modelled: a deleted transcript never returns (catalog), an
interrupted reset is finished and authentication survives it (migration).

## 2. Modules

| Module | Models | Checked by | Proved in |
|---|---|---|---|
| `RunLifecycle` | the promise about a Run's status, abstractly | – | – |
| `RunEngine` | Runner and Run store; implements `RunLifecycle` | `MCRunEngine` | `RunEngineProofs` |
| `BriefDelivery` | one Brief's delivery, Stage and owner requests | `MCBriefDelivery` | `BriefDeliveryProofs` |
| `TaskLink` | one Task, its link and a shared provider | `MCTaskLink` | `TaskProofs` |
| `BriefRuns` | what is promised of the Runs of one occurrence; extended by `BriefIntake` | – | – |
| `BriefIntake` | one occurrence from Calendar to its Runs | `MCBriefIntake` | `CalendarProofs` |
| `ModelCalls` | calls, queues, slots and the ledger | `MCModelCalls` | `ModelCallsProofs` |
| `DebriefPublication` | one Debrief Run: its artifacts and its owner's turns | `MCDebriefPublication` | `DebriefPublicationProofs` |
| `AcceptedTasks` | what is promised of Action Items and the Tasks accepted from them; extended by `TaskPromotion` | – | – |
| `TaskPromotion` | Action Items of the Runs of one lineage, and their Tasks | `MCTaskPromotion` | `TaskProofs` |
| `ResearchQueue` | the queue of Person research and its operations in flight | `MCResearchQueue` | `ResearchQueueProofs` |
| `WakeUps` | Calendar channels, the relay, the pollers | `MCWakeUps` | `CalendarProofs` |
| `ContentProjects` | one Content Project, its revisions and its provider calls | `MCContentProjects` | `ContentProjectsProofs` |

How they meet: the Runs of `BriefIntake`, `BriefDelivery`, `DebriefPublication`
and `TaskPromotion` are `RunEngine`'s, each seen through what it keeps for its
Module (status, Stage, retry, recovery). `RelayWakes` of `BriefIntake` is a poll
of `WakeUps` that reached its read; `ReadCalendar` of `WakeUps` is a whole
reconciliation of `BriefIntake`. A `Materialize` of `DebriefPublication` is the
`Materialize` of `TaskPromotion`. A model call of any of them is a call of
`ModelCalls`. They are not composed into one state space: each interface is one
action that is atomic, or split at its awaits, on both sides.

`map` in `PROJECT.json` names the lines of every definition.

### RunEngine

`meta` and `timeline` are the two files; `active`, `queue`, `exec` the Runner;
`io` the writes of the running turn that are not on disk yet. A transition of
`RunHandleImpl` writes `meta.json` and then appends its events, so a crash may
keep the first and lose the others. A timeline is abstracted to the status its
last status event announces and whether a line is torn or damaged. A Module is
any finite program of Stages (`MaxSteps`) that may fail, wait, finish or throw.
The recovery sweep is one action per Run. A Module may have no plan for a Run
(`planRecovery`, `planResume`); the sweep then passes over it, which is not to take
that action, and only the Runs of `Planned` are owed it by fairness.

Correct means: `active` is exactly what is chained or executing (`ActiveExact`);
waits and failed Stages stand exactly with their status (`MetaCoherent`); live
work has a timeline that agrees with its record even after a crash split an
earlier transition (`LiveTimelineAgrees`); every change is an edge of
`RunLifecycle`; pending work is executed.

### BriefDelivery

`executeDeliver` has three awaits (Calendar read, Gmail search, Gmail send);
`at[w]` is where an attempt stands, the Stage's or one of the owner's. Gmail's
acceptance and the answer are two steps, and either may be cut off. The two
artifacts are written one after the other. Data no decision reads (the rendered
mail, recipients, attempt counters) is left out.

Assumed of Gmail: a request is decided before its failure is observed, and a
search finds every accepted message. A request that did not reach Gmail before
a crash is lost with it.

### TaskLink

One Task, its link, and up to `Slots` operations under way; each carries the
Task and link it read before its await. The content of a Task is one value, so drift and
conflict are differences between Task, baseline and record, as in the code.
Others edit or delete the record. `CHECK_DEADLOCK FALSE`, because an unlinked
Task with no owner request left has nothing to do.

### BriefIntake

One occurrence. `readers` are the Calendar reads that overlap: the relay's, the
tick's, the boot recovery's; each remembers the token it was asked with and
what it saw. A version stands for Calendar's `updated`, a material for the
fingerprint of what a Brief is made from. The loop over due schedules holds no
inner await and is one turn; crashes inside it are actions of their own
(`CrashInReconcile`, `CrashInStart`). The snapshot's read and write are one
step. A behaviour begins after the first recovery of a fresh Workspace.

### ModelCalls

`complete()` reserves, acquires, goes on the wire, perhaps backs off once, and
settles. `pump()` is one step per iteration, and no other turn begins while it
runs (`pumping`). A lease is the n-th one of its call, so that the lease a call
was given first and the fresh one `backoff` exchanges for it are told apart.
Ages replace the clock: a request is fresh, aged (60 s) or expired, and requests
ahead in the same queue are at least as old. Dollars stand for the four ceilings
of an operation. A provider may bill more than the estimate, because the output
reserve is not sent as a ceiling. Time-sensitive requests are accepted inputs of
`acquire`, though no production caller asks for one today. Per-call limits
(`startedAt`, `queueAgeLimitMs`, `processingDeadlineMs`) have no production caller
either, so requests of one queue expire in order; the generation fence only
raises after everything is settled.

### DebriefPublication

One Run directory, one variable per artifact, one action per write: operation,
context snapshot, checked core, result, manifest, publication pointer,
projection, completion receipt, review record, draft receipt. `job` is the
attempt the Runner executes: the turn it serves (extraction, reconciliation of a
finished Run, regeneration of Action Items or of a section, approval) and the
step it is at. Bytes are the number of the model call that wrote them, the
discovery their Action Items come from, and whether every section validated.
`Crash` may hit before any write, `StepFails` throws in any step, `LoseMetadata`
takes the projection or the receipt of a finished Run away. `Boot` is
`recoverRuns` followed by `reconcilePublications`.

Correct means: the pointer has its whole chain behind it and only moves forward,
never from complete to incomplete and never forgetting an exposure; Action Items
are discovered once unless the owner asks; a section regeneration resumes the core its Action Items came from;
done means verified; prepared work is published.

### TaskPromotion

The Runs of one lineage. `policy` is the authorization in `config.json`;
`runs[r].operation` is what `operation.json` keeps of the reservation and
`runs[r].handed` what this attempt computed. An Action Item is named by its
materialization key; a proposal's content is its revision number, and `past`
remembers what each version had selected, so that a decision taken from an old
version can be told from one taken from the current one. Materialization and
automatic promotion are one turn (`turn`), in which the process may die between
the Task's file and the Action Items' file; the owner's promotion likewise. Tasks
are never taken off the sequence, so that a second Task would be seen.
`CHECK_DEADLOCK FALSE`: the owner may be out of commands.

### ResearchQueue

`jobs` is the state in memory, `disk` the file, `loaded` and `removed` the two
sets the merge in `save` consults. `flight[p]` is an operation in flight with
what it was dispatched with and what became of it since; `run` continues from its
only await in `Settle`, `SettleWithFacts` or `OperationThrows`. Every method saves
at its end. Time is two bits: whether `nextAt` has come (`due`) and how many
slices of the allowance are used. `stopped` remembers whom the owner
last stopped. Which of several eligible jobs goes first is any choice.
`CHECK_DEADLOCK FALSE`: after `ClearData` nothing may be left.

### WakeUps

Google's channels and their pushes, the relay's channels and buffered messages,
the channel the Shell has stored, and `caller[x]`: the loop, the owner's poll
route, the maintenance tick. `ensureCalendarWatch` is a step per request:
register at the relay, open at Google, confirm at the relay, stop the old one at
both, store. A message is known by the change it announces. Channel ids are
reused once nothing refers to them, which keeps the state space finite without
limiting the number of replacements. A request fails, the Shell or the relay
restarts, a message expires: each costs one of `MaxFaults`. `stopChannel` may fail
at either end for free.

### ContentProjects

One Project: `revisions` is the list in `projects.json`, of which only the last is
ever written; `owner`, `authorized`, `voiced` and `brand` are what the gates
read. Every method is one turn that reads the file, changes it and renames a new
one over it. The four methods that await providers are two actions each: a plan
made from the file (`GenerateOutline`, `GenerateOutlineSet`, `GenerateDraft`,
`RunResearchRequest`), kept in `call[s]`, and a landing that reads the file again
and checks what the code checks (`OutlineLands`, `SetLands`, `DraftLands`,
`ResearchLands`); anything else ends in `CallFails`, a crash included. Charters,
Outlines and Drafts are known by their place in their list, which is their version.
`prompted` is a history: the revision and the charter or Outline the provider was
given. The text of everything, diagnostics, the claims of a Draft, the lanes of
`runBounded` and the pinned revisions of Profiles are left out.

Correct means: an Outline or a Draft is never filed under another charter, Outline
or revision than the one its provider worked from, rests on approvals of its own
revision, and cites frozen evidence only (`Lineage`); nothing that was recorded
changes afterwards (`RecordsStand`).

## 3. Runs

| Run | Instance | Shows |
|---|---|---|
| `engine` | 2 Runs, 1 of them always planned for, 2 steps, 1 attempt, torn appends | `ActiveExact`, `LiveTimelineAgrees`, `LifecycleHolds` (refinement), `PendingIsExecuted` |
| `delivery_manual` | production setting, 2 owner requests that may overlap | a second message only from two requests in the send at once, true receipts, nothing unasked, the Stage ends |
| `link_conflict` | 2 operations, 3 owner acts, 1 outside edit, no faults | **violation**: an operation that read the link before the conflict ends it (`ConflictStands`) |
| `link_overlap` | 2 operations, 2 contents, 3 owner acts, 1 outside edit, 1 fault | one record although operations overlap, convergence, no operation that found a conflict ends it (`ReadConflictStands`) |
| `intake_relay` | relay, 2 versions, no faults | revisions go forward, cancellations are shown |
| `intake_faults` | no relay, 2 versions, 1 fault | every revision is prepared despite crashes, failed reads and Stages |
| `calls` | 3 calls, 2 operations, 1 slot, 1 extension | slots, queue, starvation, ledger and allowances |
| `debrief_faults` | 6 model calls, 2 faults | the chain behind the pointer, its forward moves, one discovery, a section's own core, verified completion, prepared work published |
| `promotion` | a Run and its redo, 1 entry, 1 enablement, 3 owner commands, 1 fault, per-record files | one Task per commitment, reviewed is accepted, no circle of evidence, one automated Run |
| `research` | 1 Profile, 2 calls and 2 slices, 1 edit, 2 owner commands, 1 fault | stops and deletions stand, no dead research, no stale result, jobs are served |
| `wakeups` | loop and tick, 3 channels, 1 change, 1 fault | read before acknowledged, no gap in a replacement, wake-ups read, coverage returns |
| `projects` | 1 target, 1 Source Item, 3 research modes, 2 revisions, 4 records (3 with two revisions), 2 requests at once | every Outline and Draft descends from what its provider was given and from frozen evidence; records stand |

`TypeOK` of every module, `MetaCoherent` of `RunEngine` and `SettledStays` of
`BriefDelivery` hold on the same instances; the runs do not repeat them. They are
theorems (section 5), but for the types of `TaskPromotion`.

Why the bounds are enough to meet the interesting cases:

* two Runs are what it takes for one to be queued behind the other while a third
  party retries either; two module steps allow a Stage to wait or fail after
  another has ended;
* `MaxMessages = 2` is one more than the property allows without rivals, and both
  messages are sent when two requests stand in the send at once;
* `MaxRecords` exceeds what the owner's requests can create, so that `CreateOnce`
  is never met by running out of records; the edits allow link, change, change
  back and one more, with a fault on either side;
* two versions and two materials give a revision, a revision back to the same
  material and a stale read of the first; `MaxRuns = 4`
  cuts nothing off: the instances never ask for a fifth Run (the same states are
  reached with a larger bound);
* one slot and three calls put two requests in the queue, of either priority,
  while a third backs off; `Threshold = 2` needs two urgent grants while a normal
  request waits, within reach of three calls; costs below and above the estimate
  and one extension reach the clamp at zero and the addition on top of it. Each
  call returns to the pool, so runs are unbounded in length;
* a Debrief's first extraction takes two model calls (core and sections) and a
  regeneration one or two, so six calls allow an exposed first revision, its
  completion and a regeneration on top, with a crash and a second fault during
  the recovery from the first;
* `TaskPromotion` needs a second Run for a redo, and a single entry makes both
  Runs' Action Items the same obligation; three commands allow a correction, a
  decision from the version before it, and one more; `MaxTasks = 4` is never met.
  The instance is on per-record files, where the two writes can be torn apart;
  on the bundle (`Bundled = TRUE`) they cannot, and it has fewer behaviours. Circles
  of evidence are of two Tasks here; the theorem is about any length. A
  Task a crash left behind is adopted with the revision it was written with, also
  after a correction: `ReviewedIsAccepted` compares it with what was selected when
  it was written;
* one Profile meets every race of its own job: nothing a job does depends on
  another but the slot it waits for, and with one slot another's operation is a
  delay of the tick. Two commands are a stop and a renewed request, or a deletion
  during either; the edit makes a result stale; the fault is a pause, a stop, a
  lost provider or a restart;
* two callers overlap in every pair of steps of the watch; three channels are the
  stored one and one new one for each. The bound on changes and faults is one, as
  each property is about one change or one failure. Two polls at once, and a message
  that arrives while another is processed, take a third caller or a second change,
  with which liveness is out of reach: there `AckedIsRead` rests on its theorem,
  which holds for any number of callers, changes and faults;
* a Draft takes a charter, an Outline and itself; the fourth record is the second
  Outline, or the second charter, that a Draft planned from the first must not land
  after. It is looked at in the first revision only (`FewRecords`), three records
  with the second, which is the one a late call must not land on. One author goes and
  comes back as the confirmed owner; the theorems have any number. Targets
  do not meet but in the list a set is planned for, and `existing` is `fresh`
  without a request, so one target and the other three modes are enough.

### Fairness

Only what the event loop and the code's own timers give. Owner actions,
outside edits, crashes and faults are never fair.

* `RunEngine`: writes of a turn complete; the chain, a Module's program, the
  30-second sweep get a turn (strong, because other turns and the
  setup prerequisite switch them off and on). Liveness is asked only of processes
  that eventually stay up and set up.
* `BriefDelivery`: writes complete; awaits are answered and the Stage goes on
  (strong across crashes). `DeliveryEnds` is asked of processes that stop
  crashing.
* `TaskLink`: the five-minute refresh, answers of the provider, resumption after
  an answer.
* `BriefIntake`: the six-hourly full read (strong: the tick is skipped while
  another read is under way), answers, their application, due schedules, Runs.
* `ModelCalls`, `TaskPromotion` and `ContentProjects`: none; their runs check safety only.
* `DebriefPublication`: an attempt in the Runner's queue goes on and a dead process
  is started again (weak, on `Advance`). The owner never has to act.
* `ResearchQueue`: the timer's ticks, every two seconds, and the end of an
  operation, which its call, time and request limits enforce. `QueuedIsServed` is
  asked of queues that eventually stay ready and started.
* `WakeUps`: the loop polls and the tick ticks for ever, and a request is answered
  or fails (weak); channels age; Google does not deliver one message for ever.
  `NewChannel` is strong only because the model has few ids and may have to wait
  for one, which the program never does. The owner's poll is not fair.

## 4. Disagreements met while modelling

Places where the program does something else than its comments, tests or decision
records say, or something a reader would not expect. One of them is a run that TLC
finds violated (`link_conflict`); the other properties are the ones that hold, and
where a disagreement limits one, it is said here.

Runs, delivery, links, intake:

* After a crash tears the last line of `events.jsonl` the next append is glued to
  it (`runs.ts:170`): the damage is no longer on the last line, which is all the
  comment at `runs.ts:174-178` allows for, and `readEvents` refuses the timeline
  for good. `LiveTimelineAgrees` and `PendingIsExecuted` therefore speak of
  timelines that can be read.
* Two overlapping retries of the same completed Run both find nothing sent and
  both send (`host.ts:446` against `google/gmailDelivery.ts:22`). The run has two
  such requests and reaches the second message; `OneMessage` says that nothing else
  does: `together` is a history of two requests that stood in the send at once.
* A status push whose acknowledgement is lost is later read back as somebody
  else's change and overrides the owner's newer choice
  (`external-link.ts:661`).
* Duplicates are judged by the scheduled version and made by the frozen one
  (`host.ts:967`), so a late read can produce two Briefs of one version
  (`host.ts:903`, ADR-0033). Revisions still never go backward.
* `quietWaitScheduledAt` is written before the Run is blocked; a crash in between
  makes recovery send a revision with no quiet wait (`deliver.ts:270`, ADR-0034).
* An operation writes back the link it built from what it read before its await,
  over a conflict recorded meanwhile (`external-link.ts:491`, the completion that
  follows a creation; `:534`, a push), although "the link stays conflicted until the
  chosen operation succeeds" (`:823`). `link_conflict` finds it in a few steps, with
  two operations and no fault, and `PROJECT.json` lists it as a finding. What
  holds for any overlap is `ReadConflictStands`: an operation that found the
  conflict does not end it.
* Likewise `link()` records its result over a trash or an unlink that preserved
  the record (`external-link.ts:460`, ADR-0056).
* Cancelling an operation aborts the controllers of its leases, but no attempt
  listens to them, and the cancellation of an operation without a record is
  dropped (`admission.ts:226`, `budget.ts:551`, ADR-0087).
* A queue age limit is noticed only when the request is selected
  (`admission.ts:257`), and one reservation covers both wire attempts of a call
  that backs off (`providers.ts:1872`), where ADR-0087 speaks of each dispatch.

Debriefs (`modules/meeting-debrief/`):

* A request to regenerate is stranded when its Run is a failed one with an exposed
  revision: `resumeOwnerTurn` retries the Stage that failed, the extraction, which
  never looks at the request, and `reviewable` refuses another one
  (`host.ts:494`, `:587`, `module.ts:892`). Any crash in an owner's turn has the
  same effect, since `planRecovery` resumes at extract (`module.ts:923`); after a
  crash between the locked approval and the draft the Run is approved without a
  draft.
* An Action Item regeneration that fails after writing `core-r<n>.json` fails in
  every retry, because the next core has other bytes (`publication.ts:358`).
* A regeneration interrupted between its result and its manifest is not adopted
  once an earlier revision is marked (`publication.ts:764`), where ADR-0084 has
  every prepared result adopted. The model is asked again.
* An incomplete replacement of a complete publication is refused only after its
  bytes are on disk (`publication.ts:1650`), where they stay.

Promotion:

* Every attempt computes the reservation anew and hands it to the materialization
  (`module.ts:590`), while `operation.json` keeps the first; the comments at
  `promotion-eligibility.ts:22` and `module.ts:163` say the first decides. An
  operation reserved while automation was off may be promoted automatically by
  its retry.
* Two Runs of one lineage with different Transcripts (a new revision of the file)
  may both be automated, unlike `host.ts:255`. `OneAutomaticRun` holds per
  Transcript.
* A regeneration after an extraction with no Action Items has extraction revision
  1 and is promoted automatically, although a regeneration stages for review.
* A Task an interrupted automatic promotion left behind counts as a duplicate of
  its own Action Item, so that automation never adopts it; the owner's promotion
  does.

Research:

* A result that stops short brings back the checkpoint its operation was
  dispatched with, over the newer ones saved since (`research.ts:529`).
* `reserveModelCall` saves the slice's first count plus one whichever call it is
  (`research.ts:500`), so a slice is billed one call at most.
* An operation that corrects its own Profile makes its own result stale
  (`research.ts:2173`), and the job is queued again.
* A job that was in the file at load, removed and enqueued again is dropped by
  every merge (`research-queue.ts:874`): it runs, and is gone at the next restart,
  with a stop the owner gave it; the backfill then queues it again.
  Several instances over one file bring back what another one removed.

Wake-ups:

* After a relay restart nothing registers the installation again until a channel
  is due for renewal; polls are refused meanwhile, and the six-hourly full read is
  what keeps the Intake current. `ReplacementKeepsCoverage` leaves that step out
  and `CoverageReturns` says it ends.
* Two overlapping replacements leave a channel open that nobody stores, until it
  expires (`intake.ts:107`).

Content Projects (`content-projects/projects.ts`):

* The targets of an Outline Set are chosen before the await and not looked at again
  (`:683`, `:707`): a second set, or a single Outline, under way at the same time
  leaves two Outlines of one target and charter, although "a repeat of this same
  call ... never duplicates or regenerates existing work" (`:669`). A set also lands
  when a gate was lost meanwhile, which a single Outline does not.
* A Research Request lands on whatever revision is current if its mode is still
  `fresh` (`:458`), so on one whose subject the owner changed since; the request
  keeps the subject it was asked about.
* `attachEvidence` after a request replaces what the request found (`:291`), while
  a request keeps what was attached (`:486`).
* `approveOutline` names a target, not an Outline, and approves the latest one
  (`:747`), which may have arrived after the owner looked.
* An unreadable `projects.json` is taken as an empty one (`:1170`) and the next
  write replaces it. The model has no unreadable file.

## 5. Proofs

Every safety property a run checks, invariant or action property, is a theorem
for all values of the constants, and under no other hypothesis; `ConflictStands`,
which the code violates, has none. The theorems rest on the named
`ASSUME` of the component's module, which only says that bounds are naturals,
that special values are not members of the sets they stand beside, and that sets
are non-empty or finite where a definition needs it.

Two components share `TaskProofs` and two share `CalendarProofs`. The second of
each comes in as an instance (`P == INSTANCE TaskPromotion`, `I == INSTANCE
BriefIntake`), whose assumption does not come along, so its theorems carry the same
formula as a hypothesis (`P!PromotionConstants`, `I!IntakeConstants`). What they
prove is stated in the small modules both sides extend, `AcceptedTasks` and
`BriefRuns`.

**`RunEngineProofs`.** `TypeCorrect` and `ActiveIsExact` are inductive as they
stand, together. `MetaIsCoherent` is not: a crash can stop a turn between its
writes, so the invariant `RecordInv` also says what the writes still in `io` may
be, given what is on disk and what the execution is doing (each record written is
coherent and is a lifecycle step from the one before). From the same invariant
`ImplementsLifecycle` shows every step to be a `RunLifecycle` step or a stutter:
only `DiskWrite` changes a status. `TimelinesAgree` (`LiveTimelineAgrees`) is about
the moments between turns; `LinesOk` says it at every write: the last status line
still owed to a timeline, or the one it has, announces the status the records
still owed will end in. A record cut off from its lines by a crash belongs to no
Run in hand until the sweep or a request writes both again.

**`BriefDeliveryProofs`.** `DeliveryInv` ties attempts to the Run's status and
says that every receipt recorded or about to be written is backed by a message.
It gives `DeliveryTypes` and `ReceiptsTrue` for any number of owner requests.
`OneMessageSent` adds `SendOk`: as long as no two requests have stood in the send at
once, an attempt in the send is alone there and the mailbox is as its search found
it, so its message is the first. `SettledIsFinal` follows from the guards once the
Stage is known to be idle and no write is owed: a request that is idle cannot begin.
`NothingUnasked` needs that an intent on the timeline has been asked for.

**`TaskProofs`, links.** `LinkTypes` rests on `TypeInv`, which adds that a creation
is never answered with "missing". `CreatedOnce` holds for any number of operations in
flight: `OnceInv` says, as long as the owner ended no link, that a link free to
create means that no record exists and nobody is creating one, that at most one
operation creates, and that any other operation in flight has a record to act on
(`OpFits`). The proof goes by what a turn may do to one slot: most operations
write back the link they read, its record and its mark unchanged (`WritesBack`);
only a creation that made nothing frees the link again. `ConflictsStand`
(`ReadConflictStands`) holds for any number of operations as well: `ReadInv` says
what an operation in flight may have read (`OpSettled`), so that one that read a
conflict is its resolution or a deletion.

**`TaskProofs`, promotion.** `PromotionInv`: besides the three properties that are
inductive as they stand (`OneTask`, `ReviewedIsAccepted`, `EvidenceIsAcyclic`), the
Run of every automatic Task is the first in its Transcript's queue, and so is the
Run whose entries this turn may still promote (`AutomaticIsFirst`, `LeftIsFirst`):
the queue's head never changes, which is why a redo stages whatever its
reservation says. Fields no argument is about are left in an arbitrary set
(`Shape`).

**`CalendarProofs`, pushes.** For any set of channels and any number of changes and
faults. `ReadBeforeAck` says that a batch announces only changes that have happened
when it is taken, so the read that follows covers it; `NothingUnreadIsAcked`
follows. `NoGapInReplacement` needs two more parts: `IdsApart`, that the channel a
caller is opening is neither the stored one nor one anybody else opens or is about
to stop (this is what lets replacements overlap), and `NewIsOpen`, that before the
old channel is stopped the new one is open and accepted, unless the relay has
forgotten the old one too.

**`CalendarProofs`, intake.** `IntakeInv`: nothing the Intake holds is newer than
Calendar, and an earlier Run that has frozen no version has failed. Without the
second an earlier Run could freeze after a later one. `RevisionsForward` follows.

**`ModelCallsProofs`.** `AllowancesHold` rests on `LedgerInv`: what remains is at
most allowed plus overrun less spent and reserved (`Within`), and an account
reserves at least one estimate for each call charged to it (`Covered`). `Covered`
is needed because `settle` clamps at zero: were a reservation missing, settling
would take away less than it adds. `SlotsStayExact` needs that the queues hold
calls that wait, each once and in one queue (`QueuesOK`), so that a grant never
meets a call that has a lease already. `NoSlotIdles` follows the pump: until it has
nothing left to do, no other turn begins. `NormalComesNext` counts urgent grants
that passed waiting work against the streak (`StreakCounts`). `LedgerStaysExact`
adds `BooksInv`: what is reserved is a count of open calls and orphans, and the
campaign's account is a sum over the operations.

**`DebriefPublicationProofs`.** One invariant, `PublicationInv`, for all six
theorems. `HandInv` says what the attempt holds at each of its steps (which
artifacts exist, how its revision stands to the pointer), so that a crash after any
write leaves the chain whole (`ChainInv`). `CoreInv` says which discovery the Action
Items of a revision come from: what is newer than the pointer is of the newest
core, and so is the published revision unless the owner's request for new Action
Items is open. That is what `DiscoveredOnce` and `SectionsResume` need: a failed
regeneration may leave a newer core, but only while the request stands.

**`ResearchQueueProofs`.** `QueueInv` ties each job to its operation: a job is
researching exactly when its operation is in flight, attached and not cancelled
(`FlightOk`). So an operation that lands on a job in any other state is one whose
result is ignored, which is what `StopStands` rests on; `StopOk` adds that the
record in the file says the same, for the restart. `DeletedOk` adds that an
operation still in flight for a deleted Profile is detached. `ApartInv` says that a
job whose operation flies is not current, in memory or in the file: whoever is
current when an operation lands became so by landing, which is what
`ResultsAreCurrent` needs. The attempt to prove
`StopStands` showed that a job the merge keeps out of the file loses its stop with
the process, which takes two restarts; `Restart` now says so.

**`ContentProjectsProofs`.** `ProjectInv` says of every revision, not only the
last, that charters come after the freeze and cite its evidence, that approvals are
of what it has (`Grounded`), and its part of `Lineage` (`Lined`); of every call in
flight that an Outline or a Draft has one target (`CallFits`). Each step does one of
three things (`Changed`): nothing, one revision stored in place of the last, or one
pushed after it. `LineageHolds` and `RecordsAreKept` follow from that alone. A call
that lands needs no memory in the invariant: the landing compares what it was
planned from with what the Project holds now, and the proof shows that this
comparison is enough.

Where an argument goes by induction (the filter of a queue, sums over sets, the
newest revision of a set) it is written as a least counterexample: the library's
induction schemes take an operator the provers cannot instantiate, but `WFMin` with
`NatLessThanWellFounded` gives the least element of a set of numbers.

Model-checked only: the liveness properties (`PendingIsExecuted`, `DeliveryEnds`,
`Converges`, `CancellationsAreShown`, `RevisionsArePrepared`, `PreparedIsPublished`,
`QueuedIsServed`, `WakeUpsAreRead`, `CoverageReturns`), since fairness is beyond the
prover; and the types of `TaskPromotion`, where the number of an extraction is a
maximum that only exists for finitely many entries.

## 6. Not modelled

`components` gives the reason for each part. In short: the web application,
adapters, conversion of documents, prompts and scores have no state another
part depends on; benchmarks and validation are offline tooling; model providers'
wire protocols are below `complete()`. The catalog's deletion cascade, the
Workspace reset, Profiles and the Google connection do have such
state and are left for later. Together these parts are most of the repository's
lines: the modules cover the coordination, not the text processing around it.

Of the modelled parts, not modelled: `deleteForever` and destinations of Task
Links; explicit regeneration and the history read of the Intake; redo, Runs of
older builds and damaged bytes of Debriefs; suggested amendments of Action Items;
`runNow`, dispatch priority, the daily counter and several instances of the
research queue; pairing and the owner's routes of the relay.

## 7. Plan

1. *Done*: Run engine, delivery, links, intake, model calls; Debrief publication,
   promotion, research queue, wake-ups, Content Projects.
2. *Done*: proofs of every safety property the runs check. Left: the types of
   `TaskPromotion` (a finite maximum).
3. `CatalogDeletion` and `WorkspaceReset`: order of writes under crashes.
4. An abstract mailbox (at-most-once send) that `BriefDelivery` implements, and an
   abstract at-least-once channel for `WakeUps`.
5. Liveness of `ModelCalls` (an admitted or queued call ends), on a smaller
   instance.
