---------------------- MODULE DebriefPublicationProofs ----------------------
(***************************************************************************)
(* The publication of one Debrief Run, for any number of model calls and   *)
(* faults: the pointer has its whole chain and only moves forward, done    *)
(* means verified, discovery happens once, and a section regeneration      *)
(* resumes the core its published Action Items came from.                  *)
(*                                                                         *)
(* The inductive invariant says what the attempt holds in hand at each     *)
(* step and which discovery the Action Items of every revision are of:     *)
(* what is newer than the pointer is always of the newest core, and so is  *)
(* the published revision unless the owner's request for new Action Items  *)
(* is still open.                                                          *)
(***************************************************************************)
EXTENDS DebriefPublication, FiniteSetTheorems, WellFoundedInduction, TLAPS

Preparing == {"materialize", "review", "manifest"}
Committed == {"exposed", "project", "complete", "settle"}

\* The newest discovery.
Top == cores[Newest(Cored)]

\* Whose turn it is, and what the Run and the review record say of it.
TurnInv ==
  /\ job.pc \in Steps => status = "running"
  /\ job.pc \in {"resume", "enter"} => job.turn = "owner"
  /\ job.pc \in {"approve", "draft", "receipt"} => job.turn = "approve"
  /\ job.pc = "approve" => review.request = "approve"
  /\ job.pc = "settle" => Regenerating
  /\ Regenerating /\ job.pc # "finish" => review.request = job.turn
  /\ review.request = "items" => asked

\* Owner turns, and everything that leads to one, find a publication.
PublishedInv ==
  \/ status = "done" \/ failedStage \in {"regenerate", "review"} \/ review.request # "none"
  \/ job.turn \in {"owner", "approve"} \cup Fields \/ job.pc \in {"finish", "settle"}
  => Published

Chained(r) ==
  /\ manifests[r].text = results[r].text /\ manifests[r].items = results[r].items
  /\ manifests[r].complete = results[r].complete
  /\ manifests[r].items \in materialized
  /\ manifests[r].core # 0 => cores[manifests[r].core] # 0

\* Every marked revision has its chain, and the pointer names one of them.
ChainInv ==
  /\ \A r \in Marked : Chained(r)
  /\ Marked # {} => op /\ context /\ review.held
  /\ Published => publication.rev \in Marked

\* What the attempt holds in hand.
HandInv ==
  /\ job.pc \in {"context", "core", "sections"} \cup Preparing => op
  /\ job.pc \in {"core", "sections"} \cup Preparing => context
  /\ job.pc \in {"core", "sections"} => \A r \in Marked : r <= publication.rev
  /\ job.pc \in Preparing => job.rev \in Resulted /\ job.rev > publication.rev
  /\ job.pc = "materialize" /\ job.turn = "section" /\ job.core # 0
       => results[job.rev].items \in materialized
  /\ job.pc \in {"review", "manifest"}
       => /\ results[job.rev].items \in materialized
          /\ results[job.rev].complete \/ ~PublishedComplete
  /\ job.pc = "manifest" => review.held
  /\ job.pc = "publish" => /\ job.rev \in Marked /\ job.rev >= publication.rev
                           /\ manifests[job.rev].complete \/ ~PublishedComplete
  /\ job.pc = "publish" /\ Regenerating => job.rev > publication.rev
  /\ job.pc \in Committed => Published /\ publication.rev = job.rev
  /\ job.pc \in {"associate", "reserve", "context", "core"} => job.core = 0
  /\ job.core # 0 => cores[job.core] # 0
  /\ job.pc = "sections" => job.core # 0
  /\ job.pc = "settle" \/ (job.pc = "finish" /\ job.turn # "approve") => Verified

\* Which discovery the Action Items of a revision are of.
CoreInv ==
  /\ \A r \in Cored : r <= Target
  /\ \A r \in Resulted : \E c \in Cored : cores[c] = results[r].items
  /\ \A r \in Marked : r > publication.rev => manifests[r].items = Top
  /\ Marked = {} => \A r \in Resulted : results[r].items = Top
  /\ job.pc \in Preparing => results[job.rev].items = Top
  /\ job.pc = "sections" => job.core = Newest(Cored)
  /\ job.pc \in Committed /\ Regenerating => manifests[publication.rev].items = Top
  /\ review.request # "items" /\ Published => manifests[publication.rev].items = Top
  /\ ~asked => Cardinality(Cored) <= 1

PublicationInv == TypeOK /\ TurnInv /\ PublishedInv /\ ChainInv /\ HandInv /\ CoreInv

-----------------------------------------------------------------------------
(* The newest of a set of revisions                                        *)

\* A set of numbers has a least one.
LEMMA LeastElement ==
  ASSUME NEW T \in SUBSET Nat, T # {}
  PROVE  \E x \in T : \A y \in T : x <= y
<1> DEFINE R == OpToRel(<, Nat)
<1>1. \E x \in T : \A y \in T : ~ (<<y, x>> \in R)
  <2>1. IsWellFoundedOn(R, Nat)
    BY NatLessThanWellFounded
  <2> HIDE DEF R
  <2> QED BY <2>1, WFMin
<1>2. R = {xy \in Nat \X Nat : xy[1] < xy[2]}
  BY DEF OpToRel
<1> HIDE DEF R
<1>3. PICK x \in T : \A y \in T : ~ (<<y, x>> \in R)
  BY <1>1
<1>4. \A y \in T : ~(y < x)
  BY <1>2, <1>3
<1>5. \A y \in T : x <= y
  BY <1>4
<1> QED BY <1>5

\* A revision that no other exceeds is the newest.
LEMMA NewestIs ==
  ASSUME NEW S \in SUBSET Revisions, NEW m \in S, \A s \in S : s <= m
  PROVE  Newest(S) = m
<1>1. Newest(S) \in S /\ \A s \in S : s <= Newest(S)
  BY DEF Newest
<1>2. \A s \in S : s \in Int
  BY MaxCallsAssumption DEF Revisions
<1>3. \A n \in S : n <= m /\ m <= n => n = m
  BY <1>2
<1> QED BY <1>1, <1>3

\* Revisions that exist have a newest.
LEMMA NewestExists ==
  ASSUME NEW S \in SUBSET Revisions, S # {}
  PROVE  Newest(S) \in S /\ \A s \in S : s <= Newest(S)
<1> DEFINE T == {MaxCalls - s : s \in S}
<1>1. \A s \in S : s \in Int /\ 1 <= s /\ s <= MaxCalls
  BY MaxCallsAssumption DEF Revisions
<1>2. T \in SUBSET Nat /\ T # {}
  BY <1>1, MaxCallsAssumption
<1>3. PICK x \in T : \A y \in T : x <= y
  <2> HIDE DEF T
  <2> QED BY <1>2, LeastElement
<1>4. PICK m \in S : x = MaxCalls - m
  OBVIOUS
<1>5. \A s \in S : s <= m
  <2> TAKE s \in S
  <2>1. x <= MaxCalls - s
    BY <1>3
  <2> QED BY <1>1, <1>4, <2>1, MaxCallsAssumption
<1>6. \E r \in S : \A s \in S : s <= r
  BY <1>5
<1> QED BY <1>6 DEF Newest

-----------------------------------------------------------------------------
(* The attempt                                                             *)

Jobs == [pc : Steps \cup {"idle", "resume"}, turn : Turns, rev : 0..MaxCalls, core : 0..MaxCalls]

\* Going on keeps the turn and what is in hand.
LEMMA JobMoves ==
  ASSUME job \in Jobs, NEW pc \in Steps
  PROVE  /\ Goto(pc) = [pc |-> pc, turn |-> job.turn, rev |-> job.rev, core |-> job.core]
         /\ Goto(pc) \in Jobs
<1>1. Goto(pc) = [pc |-> pc, turn |-> job.turn, rev |-> job.rev, core |-> job.core]
  BY DEF Goto, Jobs
<1>2. job.turn \in Turns /\ job.rev \in 0..MaxCalls /\ job.core \in 0..MaxCalls
  BY DEF Jobs
<1> QED BY <1>1, <1>2 DEF Jobs

\* Another revision, or another core, is taken in hand.
LEMMA JobTakes ==
  ASSUME job \in Jobs, NEW pc \in Steps, NEW r \in 0..MaxCalls
  PROVE  /\ [Goto(pc) EXCEPT !.rev = r] = [pc |-> pc, turn |-> job.turn, rev |-> r, core |-> job.core]
         /\ [Goto(pc) EXCEPT !.core = r] = [pc |-> pc, turn |-> job.turn, rev |-> job.rev, core |-> r]
         /\ [Goto(pc) EXCEPT !.rev = r] \in Jobs /\ [Goto(pc) EXCEPT !.core = r] \in Jobs
<1>1. Goto(pc) = [pc |-> pc, turn |-> job.turn, rev |-> job.rev, core |-> job.core]
  BY JobMoves
<1>2. /\ [Goto(pc) EXCEPT !.rev = r] = [pc |-> pc, turn |-> job.turn, rev |-> r, core |-> job.core]
      /\ [Goto(pc) EXCEPT !.core = r] = [pc |-> pc, turn |-> job.turn, rev |-> job.rev, core |-> r]
  BY <1>1
<1>3. job.turn \in Turns /\ job.rev \in 0..MaxCalls /\ job.core \in 0..MaxCalls
  BY DEF Jobs
<1> QED BY <1>2, <1>3 DEF Jobs

\* What depends on the files stands while they stand.
LEMMA FilesStand ==
  ASSUME UNCHANGED <<cores, results, manifests, publication>>
  PROVE  /\ Cored' = Cored /\ Resulted' = Resulted /\ Marked' = Marked
         /\ Top' = Top /\ Newest(Cored)' = Newest(Cored)
         /\ Published' = Published /\ PublishedComplete' = PublishedComplete
         /\ Target' = Target
         /\ \A r : (r \in Marked /\ Chained(r) /\ materialized \subseteq materialized')
                   => Chained(r)'
BY DEF Cored, Resulted, Marked, Top, Published, PublishedComplete, Target, Chained, Newest

\* The steps of an attempt that hold nothing in hand.
Outside == {"idle", "resume", "associate", "reserve", "enter", "approve", "draft", "receipt"}

\* A step that leaves the revisions alone and holds nothing in hand after it.
LEMMA NothingInHand ==
  ASSUME PublicationInv, UNCHANGED <<cores, results, manifests, publication>>,
         materialized \subseteq materialized',
         op => op', context => context', review.held => review'.held, asked => asked',
         review'.request # "items" => review.request # "items",
         job'.pc \in Outside \/ (job'.pc = "finish" /\ job'.turn = "approve"),
         job'.core \in {0, job.core}, job'.pc \in {"associate", "reserve"} => job'.core = 0
  PROVE  ChainInv' /\ HandInv' /\ CoreInv'
<1>1. /\ Cored' = Cored /\ Resulted' = Resulted /\ Marked' = Marked
      /\ Top' = Top /\ Newest(Cored)' = Newest(Cored)
      /\ Published' = Published /\ Target' = Target
      /\ \A r \in Marked : Chained(r) => Chained(r)'
  BY FilesStand
<1>2. ChainInv'
  BY <1>1 DEF PublicationInv, ChainInv
<1>3. HandInv'
  BY DEF PublicationInv, HandInv, Outside, Preparing, Committed
<1>4. CoreInv'
  BY <1>1 DEF PublicationInv, CoreInv, Outside, Preparing, Committed
<1> QED BY <1>2, <1>3, <1>4

\* The attempt throws: nothing is in hand, and the Stage it names is an owner's
\* only where a publication exists.
LEMMA ThrowKeeps ==
  ASSUME PublicationInv, NEW kind \in {"error", "integrity"}, Throw(kind), job.pc \in Steps,
         UNCHANGED <<up, op, cores, results, manifests, publication, projection, completion,
                     review, asked, outward, materialized, world>>,
         context' \in BOOLEAN, context => context', calls' \in 0..MaxCalls, faults' \in 0..MaxFaults
  PROVE  PublicationInv'
<1>1. /\ job' = [pc |-> "idle", turn |-> "publish", rev |-> 0, core |-> 0]
      /\ status' = "failed" /\ failedStage' = StageOf(job) /\ lastFailure' = kind
  BY DEF Throw, Idle
<1>2. TypeOK'
  BY <1>1, MaxCallsAssumption DEF PublicationInv, TypeOK, StageOf, Turns, outward, world
<1>3. TurnInv'
  BY <1>1 DEF PublicationInv, TurnInv, Steps, Regenerating, Fields
<1>4. PublishedInv'
  <2>1. Published' = Published
    BY FilesStand
  <2> QED BY <1>1, <2>1 DEF PublicationInv, PublishedInv, StageOf, Fields
<1>5. ChainInv' /\ HandInv' /\ CoreInv'
  BY <1>1, NothingInHand DEF Outside
<1> QED BY <1>2, <1>3, <1>4, <1>5 DEF PublicationInv

\* Steps of the Runner and of the owner's routes between two attempts: only the
\* Run, the review record and the attempt change, and nothing is in hand.
LEMMA BetweenKeeps ==
  ASSUME PublicationInv, UNCHANGED <<files, materialized>>,
         TypeOK', TurnInv', PublishedInv',
         review.held => review'.held, asked => asked',
         review'.request # "items" => review.request # "items",
         job'.pc \in Outside \/ (job'.pc = "finish" /\ job'.turn = "approve"),
         job'.core \in {0, job.core}, job'.pc \in {"associate", "reserve"} => job'.core = 0
  PROVE  PublicationInv'
<1>1. /\ UNCHANGED <<cores, results, manifests, publication>>
      /\ op' = op /\ context' = context /\ materialized \subseteq materialized'
  BY DEF files
<1>2. ChainInv' /\ HandInv' /\ CoreInv'
  BY <1>1, NothingInHand
<1> QED BY <1>2 DEF PublicationInv

\* The record is consumed, or the Run ends skipped.
LEMMA AssociateKeeps == PublicationInv /\ Associate => PublicationInv'
<1> SUFFICES ASSUME PublicationInv, Associate PROVE PublicationInv'
  OBVIOUS
<1>1. UNCHANGED <<up, asked, files, review, outward, materialized, world, calls, faults>>
  BY DEF Associate
<1>j. job \in Jobs /\ "publish" \in Turns /\ 0 \in 0..MaxCalls
  BY MaxCallsAssumption DEF PublicationInv, TypeOK, Jobs, Turns
<1>p. Published' = Published
  BY <1>1, FilesStand DEF files
<1>2. CASE record
  <2>1. /\ job' = [pc |-> "reserve", turn |-> job.turn, rev |-> job.rev, core |-> job.core]
        /\ job' \in Jobs /\ UNCHANGED run /\ job.pc = "associate"
    BY <1>2, <1>j, JobMoves DEF Associate, Steps
  <2>2. TypeOK'
    BY <1>1, <2>1 DEF PublicationInv, TypeOK, Jobs, run, files, outward, world
  <2>3. TurnInv'
    BY <1>1, <2>1 DEF PublicationInv, TurnInv, Regenerating, Steps, run
  <2>4. PublishedInv'
    BY <1>1, <1>p, <2>1 DEF PublicationInv, PublishedInv, run
  <2>5. job.core = 0
    BY <2>1 DEF PublicationInv, HandInv
  <2> QED BY <1>1, <2>1, <2>2, <2>3, <2>4, <2>5, BetweenKeeps DEF Outside
<1>3. CASE ~record
  <2>1. /\ job' = [pc |-> "idle", turn |-> "publish", rev |-> 0, core |-> 0]
        /\ status' = "skipped" /\ UNCHANGED <<failedStage, lastFailure>>
    BY <1>3 DEF Associate, Skip, Idle
  <2>2. TypeOK'
    BY <1>1, <1>j, <2>1 DEF PublicationInv, TypeOK, files, outward, world
  <2>3. TurnInv'
    BY <1>1, <2>1 DEF PublicationInv, TurnInv, Regenerating, Fields, Steps
  <2>4. PublishedInv'
    BY <1>1, <1>p, <2>1 DEF PublicationInv, PublishedInv, Fields
  <2> QED BY <1>1, <2>1, <2>2, <2>3, <2>4, BetweenKeeps DEF Outside
<1> QED BY <1>2, <1>3

\* The attempt begins anew or ends; the review record and the files stand.
LEMMA ReentryKeeps ==
  ASSUME PublicationInv, UNCHANGED <<asked, files, review, outward, materialized, world, calls>>,
         up' \in BOOLEAN, faults' \in 0..MaxFaults,
         \/ Retry
         \/ Reenter("associate", "publish")
         \/ Reenter("associate", "reconcile")
         \/ Published /\ Reenter("enter", "owner")
         \/ UNCHANGED run /\ job' = Idle
         \/ UNCHANGED run /\ UNCHANGED job /\ job.pc \in Outside
  PROVE  PublicationInv'
<1>j. job \in Jobs /\ {"publish", "reconcile", "owner"} \subseteq Turns /\ 0 \in 0..MaxCalls
  BY MaxCallsAssumption DEF PublicationInv, TypeOK, Jobs, Turns
<1>p. Published' = Published
  BY FilesStand DEF files
<1>1. \/ /\ status' = "running" /\ UNCHANGED <<failedStage, lastFailure>>
         /\ \/ job' = [pc |-> "associate", turn |-> "publish", rev |-> 0, core |-> 0]
            \/ job' = [pc |-> "associate", turn |-> "reconcile", rev |-> 0, core |-> 0]
            \/ job' = [pc |-> "enter", turn |-> "owner", rev |-> 0, core |-> 0] /\ Published
      \/ UNCHANGED run /\ job' = [pc |-> "idle", turn |-> "publish", rev |-> 0, core |-> 0]
      \/ UNCHANGED run /\ UNCHANGED job /\ job.pc \in Outside
  <2>1. CASE Retry
    BY <2>1 DEF Retry, Begin, PublicationInv, PublishedInv
  <2>2. CASE ~Retry
    BY <2>2 DEF Reenter, Begin, Idle
  <2> QED BY <2>1, <2>2
<1>2. TypeOK'
  BY <1>1, <1>j DEF PublicationInv, TypeOK, Jobs, Steps, run, files, outward, world
<1>3. TurnInv'
  BY <1>1 DEF PublicationInv, TurnInv, Regenerating, Fields, Steps, run
<1>4. PublishedInv'
  BY <1>1, <1>p DEF PublicationInv, PublishedInv, Fields, run
<1>5. /\ job'.pc \in Outside /\ job'.core \in {0, job.core}
      /\ job'.pc \in {"associate", "reserve"} => job'.core = 0
  BY <1>1 DEF Outside, PublicationInv, HandInv
<1> QED BY <1>2, <1>3, <1>4, <1>5, BetweenKeeps

\* The owner's side: requests, the review turn, approval and the draft.
LEMMA OwnerTurnKeeps ==
  ASSUME PublicationInv,
         \/ Finish \/ EnterReview \/ \E stale \in BOOLEAN : Approve(stale)
         \/ CreateDraft \/ WriteReceipt
         \/ \E field \in Fields : RequestRegenerate(field)
         \/ RequestApprove
  PROVE  PublicationInv'
<1>j. /\ job \in Jobs /\ {"publish", "owner", "approve"} \cup Fields \subseteq Turns /\ 0 \in 0..MaxCalls
      /\ review \in [held : BOOLEAN, request : {"none", "approve"} \cup Fields, approval : BOOLEAN]
      /\ "finish" \in Steps /\ "draft" \in Steps /\ "receipt" \in Steps
  BY MaxCallsAssumption DEF PublicationInv, TypeOK, Jobs, Turns, Steps
<1>u. UNCHANGED <<up, files, materialized, world, calls, faults>>
  BY DEF Finish, EnterReview, Approve, CreateDraft, WriteReceipt, RequestRegenerate, RequestApprove
<1>p. Published' = Published
  BY <1>u, FilesStand DEF files
<1>1. CASE Finish
  <2>1. /\ job' = [pc |-> "idle", turn |-> "publish", rev |-> 0, core |-> 0]
        /\ status' = "done" /\ UNCHANGED <<failedStage, lastFailure, asked, outward>>
        /\ review' = [review EXCEPT !.held = TRUE] /\ job.pc = "finish"
    BY <1>1 DEF Finish, Done, Idle
  <2>2. /\ review'.held /\ review'.request = review.request
        /\ review' \in [held : BOOLEAN, request : {"none", "approve"} \cup Fields, approval : BOOLEAN]
    BY <1>j, <2>1
  <2>3. TypeOK'
    BY <1>j, <1>u, <2>1, <2>2 DEF PublicationInv, TypeOK, files, outward, world
  <2>4. TurnInv'
    BY <2>1, <2>2 DEF PublicationInv, TurnInv, Regenerating, Fields, Steps
  <2>5. PublishedInv'
    BY <1>p, <2>1, <2>2 DEF PublicationInv, PublishedInv, Fields
  <2> QED BY <1>u, <2>1, <2>2, <2>3, <2>4, <2>5, BetweenKeeps DEF Outside
<1>2. CASE EnterReview
  <2>1. CASE ~record
    <3>1. /\ job' = [pc |-> "idle", turn |-> "publish", rev |-> 0, core |-> 0]
          /\ status' = "skipped" /\ UNCHANGED <<failedStage, lastFailure, asked, outward, review>>
      BY <1>2, <2>1 DEF EnterReview, Skip, Idle
    <3>2. TypeOK'
      BY <1>j, <1>u, <3>1 DEF PublicationInv, TypeOK, files, outward, world
    <3>3. TurnInv'
      BY <3>1 DEF PublicationInv, TurnInv, Regenerating, Fields, Steps
    <3>4. PublishedInv'
      BY <1>p, <3>1 DEF PublicationInv, PublishedInv, Fields
    <3> QED BY <1>u, <3>1, <3>2, <3>3, <3>4, BetweenKeeps DEF Outside
  <2>2. CASE record
    <3>1. /\ job.pc = "enter" /\ UNCHANGED <<run, asked, outward>>
          /\ review' = [review EXCEPT !.held = TRUE]
      BY <1>2, <2>2 DEF EnterReview
    <3>2. /\ review'.held /\ review'.request = review.request
          /\ review' \in [held : BOOLEAN, request : {"none", "approve"} \cup Fields, approval : BOOLEAN]
      BY <1>j, <3>1
    <3>3. \/ /\ review.request \in Fields
             /\ job' = [pc |-> "reserve", turn |-> review.request, rev |-> 0, core |-> 0]
          \/ /\ review.request = "approve"
             /\ job' = [pc |-> "approve", turn |-> "approve", rev |-> 0, core |-> 0]
          \/ job' = [pc |-> "draft", turn |-> "approve", rev |-> 0, core |-> 0]
          \/ job' = [pc |-> "finish", turn |-> "approve", rev |-> 0, core |-> 0]
      BY <1>2, <2>2 DEF EnterReview, Begin
    <3>4. Published /\ status = "running"
      BY <3>1 DEF PublicationInv, TurnInv, PublishedInv, Steps
    <3>5. TypeOK'
      BY <1>j, <1>u, <3>1, <3>2, <3>3 DEF PublicationInv, TypeOK, files, outward, world, run, Steps
    <3>6. TurnInv'
      BY <3>1, <3>2, <3>3, <3>4 DEF PublicationInv, TurnInv, Regenerating, Fields, run
    <3>7. PublishedInv'
      BY <1>p, <3>4 DEF PublishedInv
    <3> QED BY <1>u, <3>1, <3>2, <3>3, <3>5, <3>6, <3>7, BetweenKeeps DEF Outside
  <2> QED BY <2>1, <2>2
<1>3. ASSUME NEW stale \in BOOLEAN, Approve(stale) PROVE PublicationInv'
  <2>1. /\ job.pc = "approve" /\ UNCHANGED <<run, asked, outward>>
        /\ \/ review' = [review EXCEPT !.request = "none"] /\ job' = Goto("finish")
           \/ review' = [review EXCEPT !.request = "none", !.approval = TRUE] /\ job' = Goto("draft")
    BY <1>3 DEF Approve, Locked
  <2>2. /\ review'.held = review.held /\ review'.request = "none"
        /\ review' \in [held : BOOLEAN, request : {"none", "approve"} \cup Fields, approval : BOOLEAN]
    BY <1>j, <2>1
  <2>3. /\ job'.pc \in {"finish", "draft"} /\ job'.turn = job.turn /\ job'.core = job.core
        /\ job' \in Jobs
    BY <1>j, <2>1, JobMoves
  <2>4. job.turn = "approve" /\ Published /\ status = "running"
    BY <2>1 DEF PublicationInv, TurnInv, PublishedInv, Steps
  <2>5. review.request # "items"
    BY <2>1 DEF PublicationInv, TurnInv
  <2>6. TypeOK'
    BY <1>u, <2>1, <2>2, <2>3 DEF PublicationInv, TypeOK, Jobs, files, outward, world, run
  <2>7. TurnInv'
    BY <2>1, <2>2, <2>3, <2>4 DEF PublicationInv, TurnInv, Regenerating, Fields, run
  <2>8. PublishedInv'
    BY <1>p, <2>4 DEF PublishedInv
  <2> QED BY <1>u, <2>1, <2>2, <2>3, <2>4, <2>5, <2>6, <2>7, <2>8, BetweenKeeps DEF Outside
<1>4. CASE CreateDraft \/ WriteReceipt
  <2>1. /\ job.pc \in {"draft", "receipt"} /\ UNCHANGED <<run, asked, review>>
        /\ job' = Goto("finish") \/ job' = Goto("receipt")
        /\ receipt' \in {receipt, TRUE} /\ drafts' \in {drafts, drafts + 1}
    BY <1>4 DEF CreateDraft, WriteReceipt
  <2>2. /\ job'.pc \in {"finish", "receipt"} /\ job'.turn = job.turn /\ job'.core = job.core
        /\ job' \in Jobs
    BY <1>j, <2>1, JobMoves
  <2>3. job.turn = "approve" /\ Published /\ status = "running"
    BY <2>1 DEF PublicationInv, TurnInv, PublishedInv, Steps
  <2>4. TypeOK'
    <3>1. receipt \in BOOLEAN /\ drafts \in Nat
      BY DEF PublicationInv, TypeOK
    <3>2. receipt' \in BOOLEAN
      BY <2>1, <3>1, Zenon
    <3>3. drafts' \in Nat
      BY <2>1, <3>1
    <3> QED BY <1>u, <2>1, <2>2, <3>2, <3>3 DEF PublicationInv, TypeOK, Jobs, files, world, run
  <2>5. TurnInv'
    BY <2>1, <2>2, <2>3 DEF PublicationInv, TurnInv, Regenerating, Fields, run
  <2>6. PublishedInv'
    BY <1>p, <2>3 DEF PublishedInv
  <2> QED BY <1>u, <2>1, <2>2, <2>3, <2>4, <2>5, <2>6, BetweenKeeps DEF Outside
<1>5. CASE RequestApprove \/ \E field \in Fields : RequestRegenerate(field)
  <2>1. /\ Reviewable /\ UNCHANGED <<run, outward>>
        /\ job' = [pc |-> "resume", turn |-> "owner", rev |-> 0, core |-> 0]
        /\ \E request \in {"approve"} \cup Fields :
             /\ review' = [review EXCEPT !.request = request]
             /\ IF request = "items" THEN asked' = TRUE ELSE asked' = asked
    <3>a. asked \in BOOLEAN
      BY DEF PublicationInv, TypeOK
    <3>1. CASE RequestApprove
      BY <3>1 DEF RequestApprove, Begin
    <3>2. ASSUME NEW field \in Fields, RequestRegenerate(field)
          PROVE  /\ review' = [review EXCEPT !.request = field]
                 /\ IF field = "items" THEN asked' = TRUE ELSE asked' = asked
      BY <3>a, <3>2, Zenon DEF RequestRegenerate
    <3>3. \A field \in Fields : field \in {"approve"} \cup Fields
      OBVIOUS
    <3>4. ASSUME NEW field \in Fields, RequestRegenerate(field)
          PROVE  /\ Reviewable /\ UNCHANGED <<run, outward>>
                 /\ job' = [pc |-> "resume", turn |-> "owner", rev |-> 0, core |-> 0]
      BY <3>4 DEF RequestRegenerate, Begin
    <3> QED BY <1>5, <3>1, <3>2, <3>3, <3>4
  <2>2. /\ review'.held = review.held /\ (review'.request = "items" => asked')
        /\ review' \in [held : BOOLEAN, request : {"none", "approve"} \cup Fields, approval : BOOLEAN]
        /\ (asked => asked') /\ asked' \in BOOLEAN
    <3>1. PICK request \in {"approve"} \cup Fields :
             /\ review' = [review EXCEPT !.request = request]
             /\ IF request = "items" THEN asked' = TRUE ELSE asked' = asked
      BY <2>1
    <3>2. asked \in BOOLEAN
      BY DEF PublicationInv, TypeOK
    <3>3. /\ review'.held = review.held /\ review'.request = request
          /\ review' \in [held : BOOLEAN, request : {"none", "approve"} \cup Fields, approval : BOOLEAN]
      BY <1>j, <3>1
    <3>4. (asked => asked') /\ asked' \in BOOLEAN /\ (request = "items" => asked')
      BY <3>1, <3>2, Zenon
    <3> QED BY <3>3, <3>4
  <2>3. Published /\ review.request = "none"
    BY <2>1 DEF Reviewable, Exposed, PublicationInv, PublishedInv
  <2>4. TypeOK'
    <3>1. job' \in Jobs
      BY <1>j, <2>1 DEF Jobs
    <3>2. UNCHANGED <<run, outward>> /\ asked' \in BOOLEAN
      BY <2>1, <2>2
    <3>3. review' \in [held : BOOLEAN, request : {"none", "approve"} \cup Fields, approval : BOOLEAN]
      BY <2>2
    <3> QED BY <1>u, <3>1, <3>2, <3>3 DEF PublicationInv, TypeOK, Jobs, files, outward, world, run
  <2>5. TurnInv'
    BY <2>1, <2>2 DEF PublicationInv, TurnInv, Regenerating, Fields, Steps, run
  <2>6. PublishedInv'
    BY <1>p, <2>3 DEF PublishedInv
  <2> QED BY <1>u, <2>1, <2>2, <2>3, <2>4, <2>5, <2>6, BetweenKeeps DEF Outside
<1> QED BY <1>1, <1>2, <1>3, <1>4, <1>5

\* Commit metadata is lost while no attempt runs; the world around changes.
LEMMA SurroundingsKeep ==
  ASSUME PublicationInv, LoseMetadata \/ DropTranscript \/ MoveGate
  PROVE  PublicationInv'
<1>u. UNCHANGED <<run, up, job, asked, op, context, cores, results, manifests, publication,
                  review, outward, materialized, calls>>
  BY DEF LoseMetadata, DropTranscript, MoveGate, files, run
<1>p. /\ Cored' = Cored /\ Resulted' = Resulted /\ Marked' = Marked
      /\ Top' = Top /\ Newest(Cored)' = Newest(Cored)
      /\ Published' = Published /\ PublishedComplete' = PublishedComplete /\ Target' = Target
      /\ \A r \in Marked : Chained(r) => Chained(r)'
  BY <1>u, FilesStand
<1>1. TypeOK'
  <2>1. projection' \in Texts /\ completion' \in [rev : 0..MaxCalls, gen : Nat]
    <3>1. 0 \in Texts /\ [rev |-> 0, gen |-> 0] \in [rev : 0..MaxCalls, gen : Nat]
      BY MaxCallsAssumption DEF Texts
    <3> QED BY <3>1 DEF LoseMetadata, DropTranscript, MoveGate, PublicationInv, TypeOK, files
  <2>2. faults' \in 0..MaxFaults
    BY MaxFaultsAssumption DEF LoseMetadata, DropTranscript, MoveGate, PublicationInv, TypeOK
  <2>3. record' \in BOOLEAN /\ gate' \in BOOLEAN
    BY DEF LoseMetadata, DropTranscript, MoveGate, PublicationInv, TypeOK, world
  <2> QED BY <1>u, <2>1, <2>2, <2>3 DEF PublicationInv, TypeOK, run, outward
<1>2. TurnInv'
  BY <1>u DEF PublicationInv, TurnInv, Regenerating, run
<1>3. PublishedInv'
  BY <1>u, <1>p DEF PublicationInv, PublishedInv, run
<1>4. ChainInv'
  BY <1>u, <1>p DEF PublicationInv, ChainInv
<1>5. CoreInv'
  BY <1>u, <1>p DEF PublicationInv, CoreInv, Regenerating
<1>6. HandInv'
  <2>1. CASE LoseMetadata
    <3>1. job.pc = "idle"
      BY <2>1 DEF LoseMetadata
    <3> QED BY <1>u, <1>p, <3>1 DEF PublicationInv, HandInv, Preparing, Committed, Regenerating
  <2>2. CASE DropTranscript \/ MoveGate
    <3>1. UNCHANGED <<projection, completion>>
      BY <2>2 DEF DropTranscript, MoveGate, files
    <3>2. Verified' = Verified
      BY <1>u, <1>p, <3>1 DEF Verified, PublicationSound
    <3> QED BY <1>u, <1>p, <3>2 DEF PublicationInv, HandInv, Preparing, Committed, Regenerating
  <2> QED BY <2>1, <2>2
<1> QED BY <1>1, <1>2, <1>3, <1>4, <1>5, <1>6 DEF PublicationInv

-----------------------------------------------------------------------------
(* The reconciler's steps that leave the revisions alone                   *)

\* What such a step owes is only what its attempt holds after it.
LEMMA OnlyTheHand ==
  ASSUME PublicationInv, UNCHANGED <<cores, results, manifests, publication>>,
         TypeOK', TurnInv', PublishedInv', HandInv',
         materialized \subseteq materialized', asked' = asked,
         op => op', context => context', review.held => review'.held,
         job'.pc \in Preparing => results[job'.rev].items = Top,
         job'.pc = "sections" => job'.core = Newest(Cored),
         job'.pc \in Committed /\ job'.turn \in Fields => manifests[publication.rev].items = Top,
         review'.request # "items" /\ Published => manifests[publication.rev].items = Top
  PROVE  PublicationInv'
<1>1. /\ Cored' = Cored /\ Resulted' = Resulted /\ Marked' = Marked
      /\ Top' = Top /\ Newest(Cored)' = Newest(Cored)
      /\ Published' = Published /\ Target' = Target
      /\ \A r \in Marked : Chained(r) => Chained(r)'
  BY FilesStand
<1>2. ChainInv'
  BY <1>1 DEF PublicationInv, ChainInv
<1>3. CoreInv'
  BY <1>1 DEF PublicationInv, CoreInv, Regenerating
<1> QED BY <1>2, <1>3 DEF PublicationInv

\* The operation record is written before anything else.
LEMMA ReserveKeeps == PublicationInv /\ ReserveOperation => PublicationInv'
<1> SUFFICES ASSUME PublicationInv, ReserveOperation PROVE PublicationInv'
  OBVIOUS
<1>1. /\ job.pc = "reserve" /\ op' = TRUE
      /\ UNCHANGED <<run, up, asked, context, cores, results, manifests, publication,
                     projection, completion, review, outward, materialized, world, calls, faults>>
  BY DEF ReserveOperation
<1>2. /\ job' = [pc |-> "context", turn |-> job.turn, rev |-> job.rev, core |-> job.core]
      /\ job' \in Jobs
  BY JobMoves DEF ReserveOperation, PublicationInv, TypeOK, Jobs, Steps
<1>3. TypeOK'
  BY <1>1, <1>2 DEF PublicationInv, TypeOK, Jobs, run, outward, world
<1>4. TurnInv'
  BY <1>1, <1>2 DEF PublicationInv, TurnInv, Regenerating, Steps, run
<1>p. Published' = Published
  BY <1>1, FilesStand
<1>5. PublishedInv'
  BY <1>1, <1>2, <1>p DEF PublicationInv, PublishedInv, run
<1>6. HandInv'
  BY <1>1, <1>2 DEF PublicationInv, HandInv, Preparing, Committed
<1>7. review.request # "items" /\ Published => manifests[publication.rev].items = Top
  BY DEF PublicationInv, CoreInv
<1> QED BY <1>1, <1>2, <1>3, <1>4, <1>5, <1>6, <1>7, OnlyTheHand DEF Preparing, Committed

\* The reconciler finishes what is prepared, verifies what is complete, or asks
\* the model - the last only when nothing newer than the pointer is marked.
LEMMA DecideKeeps == PublicationInv /\ Decide => PublicationInv'
<1> SUFFICES ASSUME PublicationInv, Decide PROVE PublicationInv'
  OBVIOUS
<1>j. /\ job \in Jobs /\ job.pc = "context" /\ "context" \in Steps
      /\ {"materialize", "publish", "core"} \subseteq Steps
  BY DEF PublicationInv, TypeOK, Jobs, Decide, Steps
<1>u. /\ context' = TRUE
      /\ UNCHANGED <<up, asked, op, cores, results, manifests, publication, projection,
                     completion, review, outward, materialized, world, calls, faults>>
  BY DEF Decide
<1>p. /\ Marked' = Marked /\ Resulted' = Resulted
      /\ Published' = Published /\ PublishedComplete' = PublishedComplete
  BY <1>u, FilesStand
<1>o. op /\ status = "running"
  BY <1>j DEF PublicationInv, HandInv, TurnInv
<1>r. review.request # "items" /\ Published => manifests[publication.rev].items = Top
  BY DEF PublicationInv, CoreInv
<1>m. /\ Marked \subseteq Revisions /\ Resulted \subseteq Revisions
      /\ publication.rev \in 0..MaxCalls
  BY DEF Marked, Resulted, PublicationInv, TypeOK
<1>1. CASE NewestPrepared # {}
  <2> DEFINE r == Newest(NewestPrepared)
  <2>1. r \in NewestPrepared
    <3>1. NewestPrepared \in SUBSET Revisions
      <4>1. Marked # {} => Newest(Marked) \in Revisions
        BY <1>m, NewestExists
      <4> QED BY <1>m, <4>1 DEF NewestPrepared, Prepared
    <3> QED BY <1>1, <3>1, NewestExists
  <2>2. /\ r \in Revisions /\ r > publication.rev
        /\ IF Marked # {} THEN r \in Marked ELSE r \in Resulted
    <3>1. Marked # {} => Newest(Marked) \in Marked
      BY <1>m, NewestExists
    <3> HIDE DEF r
    <3> QED BY <1>m, <2>1, <3>1 DEF NewestPrepared, Prepared
  <2> HIDE DEF r
  <2>3. r \in Resulted /\ results[r].items = Top
    <3>1. CASE Marked # {}
      <4>1. r \in Marked /\ Chained(r) /\ manifests[r].items = Top
        BY <2>2, <3>1 DEF PublicationInv, ChainInv, CoreInv
      <4> QED BY <2>2, <4>1 DEF Chained, Marked, Resulted
    <3>2. CASE Marked = {}
      BY <2>2, <3>2 DEF PublicationInv, CoreInv
    <3> QED BY <3>1, <3>2
  <2>4. r \in 0..MaxCalls
    BY <2>2, MaxCallsAssumption DEF Revisions
  <2>5. /\ job' = [pc |-> "materialize", turn |-> job.turn, rev |-> r, core |-> job.core]
        /\ job' \in Jobs /\ UNCHANGED run
    <3>1. job' = [Goto("materialize") EXCEPT !.rev = r] /\ UNCHANGED run
      BY <1>1 DEF Decide, r
    <3> QED BY <1>j, <2>4, <3>1, JobTakes
  <2>6. TypeOK'
    BY <1>u, <2>5 DEF PublicationInv, TypeOK, Jobs, run, outward, world
  <2>7. TurnInv'
    BY <1>j, <1>u, <2>5 DEF PublicationInv, TurnInv, Regenerating, Steps, run
  <2>8. PublishedInv'
    BY <1>p, <1>u, <2>5 DEF PublicationInv, PublishedInv, run
  <2>9. HandInv'
    <3>1. job.core = 0
      BY <1>j DEF PublicationInv, HandInv
    <3> QED BY <1>p, <1>o, <1>u, <2>2, <2>3, <2>5, <3>1 DEF PublicationInv, HandInv, Preparing, Committed
  <2> QED BY <1>r, <1>u, <2>3, <2>5, <2>6, <2>7, <2>8, <2>9, OnlyTheHand DEF Preparing, Committed
<1>2. CASE NewestPrepared = {} /\ PublishedComplete /\ ~Regenerating
  <2>1. /\ job' = [pc |-> "publish", turn |-> job.turn, rev |-> publication.rev, core |-> job.core]
        /\ job' \in Jobs /\ UNCHANGED run
    <3>1. job' = [Goto("publish") EXCEPT !.rev = publication.rev] /\ UNCHANGED run
      BY <1>2 DEF Decide
    <3> QED BY <1>j, <1>m, <3>1, JobTakes
  <2>2. publication.rev \in Marked /\ manifests[publication.rev].complete
    BY <1>2 DEF PublicationInv, ChainInv, PublishedComplete
  <2>3. publication.rev >= publication.rev
    BY <1>m, MaxCallsAssumption
  <2>4. TypeOK'
    BY <1>u, <2>1 DEF PublicationInv, TypeOK, Jobs, run, outward, world
  <2>5. TurnInv'
    BY <1>j, <1>u, <2>1 DEF PublicationInv, TurnInv, Regenerating, Steps, run
  <2>6. PublishedInv'
    BY <1>p, <1>u, <2>1 DEF PublicationInv, PublishedInv, run
  <2>7. HandInv'
    BY <1>2, <1>p, <1>o, <1>u, <2>1, <2>2, <2>3
      DEF PublicationInv, HandInv, Preparing, Committed, Regenerating
  <2> QED BY <1>r, <1>u, <2>1, <2>4, <2>5, <2>6, <2>7, OnlyTheHand DEF Preparing, Committed
<1>3. CASE NewestPrepared = {} /\ ~(PublishedComplete /\ ~Regenerating) /\ job.turn = "reconcile"
  <2>1. Throw("error")
    BY <1>3 DEF Decide
  <2>2. /\ context' \in BOOLEAN /\ (context => context')
        /\ calls' \in 0..MaxCalls /\ faults' \in 0..MaxFaults
    BY <1>u DEF PublicationInv, TypeOK
  <2> QED BY <1>j, <1>u, <2>1, <2>2, ThrowKeeps
<1>4. CASE NewestPrepared = {} /\ ~(PublishedComplete /\ ~Regenerating) /\ job.turn # "reconcile"
  <2>1. /\ job' = [pc |-> "core", turn |-> job.turn, rev |-> job.rev, core |-> job.core]
        /\ job' \in Jobs /\ UNCHANGED run
    <3>1. job' = Goto("core") /\ UNCHANGED run
      BY <1>4 DEF Decide
    <3> QED BY <1>j, <3>1, JobMoves
  <2>2. \A r \in Marked : r <= publication.rev
    <3> SUFFICES ASSUME NEW r \in Marked PROVE r <= publication.rev
      OBVIOUS
    <3>1. Newest(Marked) \in Marked /\ r <= Newest(Marked)
      BY <1>m, NewestExists
    <3>2. ~(Newest(Marked) > publication.rev)
      BY <1>4, <3>1 DEF NewestPrepared, Prepared
    <3> HIDE DEF Newest
    <3>3. r \in Revisions /\ Newest(Marked) \in Revisions
      BY <1>m, <3>1
    <3>4. r \in Int /\ Newest(Marked) \in Int /\ publication.rev \in Int
      BY <1>m, <3>3, MaxCallsAssumption DEF Revisions
    <3> QED BY <3>1, <3>2, <3>4
  <2>3. job.core = 0
    BY <1>j DEF PublicationInv, HandInv
  <2>4. TypeOK'
    BY <1>u, <2>1 DEF PublicationInv, TypeOK, Jobs, run, outward, world
  <2>5. TurnInv'
    BY <1>j, <1>u, <2>1 DEF PublicationInv, TurnInv, Regenerating, Steps, run
  <2>6. PublishedInv'
    BY <1>p, <1>u, <2>1 DEF PublicationInv, PublishedInv, run
  <2>7. HandInv'
    BY <1>p, <1>o, <1>u, <2>1, <2>2, <2>3 DEF PublicationInv, HandInv, Preparing, Committed
  <2> QED BY <1>r, <1>u, <2>1, <2>4, <2>5, <2>6, <2>7, OnlyTheHand DEF Preparing, Committed
<1> QED BY <1>1, <1>2, <1>3, <1>4

\* produceModelRevision resumes the newest core.
LEMMA ReuseKeeps == PublicationInv /\ ReuseCore => PublicationInv'
<1> SUFFICES ASSUME PublicationInv, ReuseCore PROVE PublicationInv'
  OBVIOUS
<1>u. UNCHANGED <<run, up, asked, files, review, outward, materialized, world, calls, faults>>
  BY DEF ReuseCore
<1>f. UNCHANGED <<op, context, cores, results, manifests, publication, projection, completion>>
  BY <1>u DEF files
<1>p. Marked' = Marked /\ Published' = Published
  BY <1>f, FilesStand
<1>c. /\ Newest(Cored) \in Revisions /\ cores[Newest(Cored)] # 0
      /\ Newest(Cored) \in 0..MaxCalls /\ Newest(Cored) # 0
  <2>1. Cored \in SUBSET Revisions /\ Cored # {}
    BY DEF ReuseCore, Reusable, Cored
  <2>2. Newest(Cored) \in Cored
    BY <2>1, NewestExists
  <2>3. Newest(Cored) \in Revisions /\ cores[Newest(Cored)] # 0
    BY <2>2 DEF Cored
  <2> QED BY <2>3, MaxCallsAssumption DEF Revisions
<1>1. /\ job' = [pc |-> "sections", turn |-> job.turn, rev |-> job.rev, core |-> Newest(Cored)]
      /\ job' \in Jobs /\ job.pc = "core"
  <2>1. job \in Jobs /\ "sections" \in Steps
    BY DEF PublicationInv, TypeOK, Jobs, Steps
  <2> QED BY <1>c, <2>1, JobTakes DEF ReuseCore
<1>2. TypeOK'
  BY <1>u, <1>f, <1>1 DEF PublicationInv, TypeOK, Jobs, run, outward, world
<1>3. TurnInv'
  BY <1>u, <1>1 DEF PublicationInv, TurnInv, Regenerating, Steps, run
<1>4. PublishedInv'
  BY <1>p, <1>u, <1>1 DEF PublicationInv, PublishedInv, run
<1>5. HandInv'
  BY <1>p, <1>f, <1>c, <1>1 DEF PublicationInv, HandInv, Preparing, Committed
<1>r. review.request # "items" /\ Published => manifests[publication.rev].items = Top
  BY DEF PublicationInv, CoreInv
<1> QED BY <1>r, <1>u, <1>f, <1>1, <1>2, <1>3, <1>4, <1>5, OnlyTheHand DEF Preparing, Committed

-----------------------------------------------------------------------------
(* The reconciler's steps that write a core, a result, a marker, the pointer *)

\* A discovery is the newest core; nothing waits for publication beside it.
LEMMA DiscoverKeeps == PublicationInv /\ DiscoverCore => PublicationInv'
<1> SUFFICES ASSUME PublicationInv, DiscoverCore PROVE PublicationInv'
  OBVIOUS
<1>u. UNCHANGED <<up, asked, op, context, results, manifests, publication, projection,
                  completion, review, outward, materialized, world, faults>>
  BY DEF DiscoverCore
<1>j. /\ job \in Jobs /\ job.pc = "core" /\ "core" \in Steps /\ "sections" \in Steps
      /\ job.turn = "items" \/ Cored = {}
  BY DEF PublicationInv, TypeOK, Jobs, Steps, DiscoverCore, Reusable
<1>t. /\ calls \in Nat /\ calls' = calls + 1 /\ calls' \in 0..MaxCalls
      /\ Target \in Revisions /\ Target \in 0..MaxCalls /\ Target # 0
  BY MaxCallsAssumption DEF PublicationInv, TypeOK, DiscoverCore, Revisions
<1>1. CASE cores[Target] # 0
  <2>1. Throw("integrity") /\ cores' = cores
    BY <1>1 DEF DiscoverCore
  <2>2. context' \in BOOLEAN /\ (context => context') /\ faults' \in 0..MaxFaults
    BY <1>u DEF PublicationInv, TypeOK
  <2> QED BY <1>j, <1>t, <1>u, <2>1, <2>2, ThrowKeeps
<1>2. CASE cores[Target] = 0
  <2>1. /\ job' = [pc |-> "sections", turn |-> job.turn, rev |-> job.rev, core |-> Target]
        /\ job' \in Jobs /\ UNCHANGED run
        /\ cores' = [cores EXCEPT ![Target] = calls + 1]
    <3>1. /\ job' = [Goto("sections") EXCEPT !.core = Target] /\ UNCHANGED run
          /\ cores' = [cores EXCEPT ![Target] = calls + 1]
      BY <1>2 DEF DiscoverCore
    <3> QED BY <1>j, <1>t, <3>1, JobTakes
  <2>2. /\ cores' \in [Revisions -> Texts] /\ cores'[Target] = calls + 1
        /\ \A c \in Revisions : cores[c] # 0 => cores'[c] = cores[c]
        /\ \A c \in Revisions : c # Target => cores'[c] = cores[c]
    BY <1>t, <1>2, <2>1 DEF PublicationInv, TypeOK, Texts
  <2>3. Cored' = Cored \cup {Target}
    <3>1. cores'[Target] # 0
      BY <1>t, <2>2
    <3>2. \A c \in Revisions : cores'[c] # 0 <=> cores[c] # 0 \/ c = Target
      BY <2>2, <3>1
    <3> QED BY <1>t, <3>2 DEF Cored
  <2>4. \A c \in Cored' : c <= Target
    <3>1. Target <= Target
      BY <1>t, MaxCallsAssumption DEF Revisions
    <3> QED BY <2>3, <3>1 DEF PublicationInv, CoreInv
  <2>5. Newest(Cored') = Target
    <3>1. Cored' \in SUBSET Revisions /\ Target \in Cored'
      BY <1>t, <2>3 DEF Cored
    <3> QED BY <2>4, <3>1, NewestIs
  <2>6. /\ Marked' = Marked /\ Resulted' = Resulted /\ Target' = Target
        /\ Published' = Published /\ PublishedComplete' = PublishedComplete
    BY <1>u DEF Marked, Resulted, Target, Published, PublishedComplete
  <2>7. Published => Marked # {} /\ Resulted # {} /\ Cored # {}
    <3>1. Published => publication.rev \in Marked /\ Chained(publication.rev)
      BY DEF PublicationInv, ChainInv
    <3>2. Published => publication.rev \in Resulted
      BY <3>1 DEF Chained, Marked, Resulted
    <3> QED BY <3>1, <3>2 DEF PublicationInv, CoreInv
  <2>8. TypeOK'
    BY <1>u, <1>t, <2>1, <2>2 DEF PublicationInv, TypeOK, Jobs, run, outward, world
  <2>9. TurnInv'
    BY <1>j, <1>u, <2>1 DEF PublicationInv, TurnInv, Regenerating, Steps, run
  <2>10. PublishedInv'
    BY <1>u, <2>6, <2>1 DEF PublicationInv, PublishedInv, run
  <2>11. ChainInv'
    <3>1. \A r \in Marked : Chained(r)'
      <4> SUFFICES ASSUME NEW r \in Marked PROVE Chained(r)'
        OBVIOUS
      <4>1. Chained(r) /\ r \in Revisions
        BY DEF PublicationInv, ChainInv, Marked
      <4>2. manifests[r].core # 0 => manifests[r].core \in Revisions
        BY <4>1, MaxCallsAssumption DEF PublicationInv, TypeOK, Revisions
      <4> QED BY <1>u, <2>2, <4>1, <4>2 DEF Chained
    <3> QED BY <1>u, <2>6, <3>1 DEF PublicationInv, ChainInv
  <2>12. HandInv'
    <3>1. cores'[Target] # 0
      BY <1>t, <2>2
    <3> QED BY <1>j, <1>u, <1>t, <2>1, <2>6, <3>1 DEF PublicationInv, HandInv, Preparing, Committed
  <2>13. CoreInv'
    <3>1. \A r \in Resulted' : \E c \in Cored' : cores'[c] = results'[r].items
      <4> SUFFICES ASSUME NEW r \in Resulted
                   PROVE  \E c \in Cored' : cores'[c] = results[r].items
        BY <1>u, <2>6
      <4>1. PICK c \in Cored : cores[c] = results[r].items
        BY DEF PublicationInv, CoreInv
      <4>2. c \in Cored' /\ cores'[c] = cores[c]
        BY <2>2, <2>3 DEF Cored
      <4> QED BY <4>1, <4>2
    <3>2. \A r \in Marked' : r > publication'.rev => manifests'[r].items = Top'
      <4>1. \A r \in Marked : r <= publication.rev /\ r \in Int /\ publication.rev \in Int
        BY <1>j, MaxCallsAssumption
          DEF PublicationInv, HandInv, TypeOK, Marked, Revisions
      <4> QED BY <1>u, <2>6, <4>1
    <3>3. Marked' = {} => Resulted' = {}
      <4>1. Cored = {} => Resulted = {}
        BY DEF PublicationInv, CoreInv
      <4>2. job.turn = "items" => Published
        BY DEF PublicationInv, PublishedInv, Fields
      <4> QED BY <1>j, <2>6, <2>7, <4>1, <4>2
    <3>4. ~(review'.request # "items" /\ Published')
      BY <1>j, <1>u, <2>6, <2>7 DEF PublicationInv, TurnInv, Regenerating, Fields
    <3>5. ~asked' => Cardinality(Cored') <= 1
      <4>1. ~asked => job.turn # "items"
        BY <1>j DEF PublicationInv, TurnInv, Regenerating, Fields
      <4>2. Cored = {} => Cardinality(Cored') = 1
        BY <2>3, FS_Singleton
      <4> QED BY <1>j, <1>u, <4>1, <4>2
    <3>6. Newest(Cored)' = Target
      BY <2>5 DEF Newest
    <3> QED BY <2>1, <2>4, <2>6, <3>1, <3>2, <3>3, <3>4, <3>5, <3>6
      DEF CoreInv, Preparing, Committed
  <2> QED BY <2>8, <2>9, <2>10, <2>11, <2>12, <2>13 DEF PublicationInv
<1> QED BY <1>1, <1>2

\* A result is written beside the marked revisions, never over one.
LEMMA ResultKeeps ==
  ASSUME PublicationInv, NEW ok \in BOOLEAN, WriteResult(ok)
  PROVE  PublicationInv'
<1>u. UNCHANGED <<run, up, asked, op, context, cores, manifests, publication, projection,
                  completion, review, outward, materialized, world, faults>>
  BY DEF WriteResult
<1>j. /\ job \in Jobs /\ job.pc = "sections" /\ "sections" \in Steps /\ "materialize" \in Steps
      /\ op /\ context
  BY DEF PublicationInv, TypeOK, Jobs, Steps, HandInv, WriteResult
<1>t. /\ calls \in Nat /\ calls' = calls + 1 /\ calls' \in 0..MaxCalls /\ calls + 1 # 0
      /\ Target \in Revisions /\ Target \in 0..MaxCalls
      /\ publication.rev \in Int /\ Target = publication.rev + 1
  BY MaxCallsAssumption DEF PublicationInv, TypeOK, WriteResult, Revisions, Target
<1>c. /\ job.core \in Cored /\ job.core \in Revisions /\ cores[job.core] = Top
      /\ cores[job.core] \in Texts
  <2>1. job.core # 0 /\ cores[job.core] # 0 /\ job.core = Newest(Cored)
    BY <1>j DEF PublicationInv, HandInv, CoreInv
  <2>2. job.core \in Revisions
    BY <1>j, <2>1, MaxCallsAssumption DEF Jobs, Revisions
  <2>3. cores \in [Revisions -> Texts]
    BY DEF PublicationInv, TypeOK
  <2> QED BY <2>1, <2>2, <2>3 DEF Cored, Top
<1>s. job.turn = "section" => /\ Published /\ publication.rev \in Marked
                              /\ manifests[publication.rev].items = Top
                              /\ manifests[publication.rev].items \in materialized
  <2>1. job.turn = "section" => Published /\ review.request = "section"
    BY <1>j DEF PublicationInv, TurnInv, PublishedInv, Regenerating, Fields
  <2>2. Published => publication.rev \in Marked /\ Chained(publication.rev)
    BY DEF PublicationInv, ChainInv
  <2>3. review.request # "items" /\ Published => manifests[publication.rev].items = Top
    BY DEF PublicationInv, CoreInv
  <2> QED BY <2>1, <2>2, <2>3 DEF Chained
<1>1. /\ Produced(ok).text = calls + 1 /\ Produced(ok).items = Top
      /\ Produced(ok) \in [text : Texts, items : Texts, complete : BOOLEAN]
  <2>1. Produced(ok).text = calls + 1 /\ Produced(ok).items = Top
    BY <1>c, <1>s DEF Produced
  <2>2. calls + 1 \in Texts /\ Top \in Texts
    BY <1>t, <1>c DEF Texts
  <2>3. Produced(ok).complete \in BOOLEAN
    <3>1. PublishedComplete \in BOOLEAN
      BY DEF PublishedComplete
    <3>2. Produced(ok).complete = CASE job.turn = "items" -> PublishedComplete
                                    [] job.turn = "section" -> PublishedComplete /\ ok
                                    [] OTHER -> ok
      BY DEF Produced
    <3> QED BY <3>1, <3>2
  <2> QED BY <2>1, <2>2, <2>3 DEF Produced
<1>2. /\ job' = [pc |-> "materialize", turn |-> job.turn, rev |-> Target, core |-> job.core]
      /\ job' \in Jobs
      /\ results' = [results EXCEPT ![Target] = Produced(ok)]
  <2>1. /\ job' = [Goto("materialize") EXCEPT !.rev = Target]
        /\ results' = [results EXCEPT ![Target] = Produced(ok)]
    BY DEF WriteResult
  <2> QED BY <1>j, <1>t, <2>1, JobTakes
<1>3. /\ results' \in [Revisions -> [text : Texts, items : Texts, complete : BOOLEAN]]
      /\ results'[Target] = Produced(ok)
      /\ \A r \in Revisions : r # Target => results'[r] = results[r]
  <2>1. results \in [Revisions -> [text : Texts, items : Texts, complete : BOOLEAN]]
    BY DEF PublicationInv, TypeOK
  <2> QED BY <1>t, <1>1, <1>2, <2>1
<1>4. Resulted' = Resulted \cup {Target}
  <2>1. \A r \in Revisions : results'[r].text # 0 <=> results[r].text # 0 \/ r = Target
    BY <1>t, <1>1, <1>3
  <2> QED BY <1>t, <2>1 DEF Resulted
<1>5. /\ Marked' = Marked /\ Cored' = Cored /\ Target' = Target /\ Top' = Top
      /\ Published' = Published /\ PublishedComplete' = PublishedComplete
      /\ Newest(Cored)' = Newest(Cored)
  BY <1>u DEF Marked, Cored, Target, Top, Published, PublishedComplete, Newest
<1>6. \A r \in Marked : r \in Revisions /\ r # Target /\ ~(r > publication.rev)
  <2> SUFFICES ASSUME NEW r \in Marked
               PROVE  r \in Revisions /\ r # Target /\ ~(r > publication.rev)
    OBVIOUS
  <2>1. r \in Revisions /\ r <= publication.rev
    BY <1>j DEF PublicationInv, HandInv, Marked
  <2>2. r \in Int
    BY <2>1, MaxCallsAssumption DEF Revisions
  <2>3. r # publication.rev + 1 /\ ~(r > publication.rev)
    BY <1>t, <2>1, <2>2
  <2> QED BY <1>t, <2>1, <2>3
<1>7. TypeOK'
  BY <1>u, <1>t, <1>2, <1>3 DEF PublicationInv, TypeOK, Jobs, run, outward, world
<1>8. TurnInv'
  BY <1>j, <1>u, <1>2 DEF PublicationInv, TurnInv, Regenerating, Steps, run
<1>9. PublishedInv'
  BY <1>u, <1>5, <1>2 DEF PublicationInv, PublishedInv, run
<1>10. ChainInv'
  <2>1. \A r \in Marked : Chained(r)'
    BY <1>u, <1>3, <1>6 DEF PublicationInv, ChainInv, Chained
  <2> QED BY <1>u, <1>5, <2>1 DEF PublicationInv, ChainInv
<1>11. HandInv'
  <2>1. Target \in Resulted' /\ Target > publication.rev
    BY <1>t, <1>4
  <2>2. job.turn = "section" => results'[Target].items \in materialized
    BY <1>1, <1>3, <1>s
  <2> QED BY <1>j, <1>u, <1>2, <1>5, <2>1, <2>2 DEF PublicationInv, HandInv, Preparing, Committed
<1>12. CoreInv'
  <2>1. \A r \in Resulted' : \E c \in Cored : cores[c] = results'[r].items
    <3> SUFFICES ASSUME NEW r \in Resulted' PROVE \E c \in Cored : cores[c] = results'[r].items
      OBVIOUS
    <3>1. CASE r = Target
      BY <1>1, <1>3, <1>c, <3>1
    <3>2. CASE r # Target
      BY <1>3, <1>4, <3>2 DEF PublicationInv, CoreInv, Resulted
    <3> QED BY <3>1, <3>2
  <2>2. Marked = {} => \A r \in Resulted' : results'[r].items = Top
    BY <1>1, <1>3, <1>4 DEF PublicationInv, CoreInv, Resulted
  <2>3. results'[Target].items = Top
    BY <1>1, <1>3
  <2> QED BY <1>u, <1>2, <1>5, <1>6, <2>1, <2>2, <2>3
    DEF PublicationInv, CoreInv, Preparing, Committed, Regenerating
<1> QED BY <1>7, <1>8, <1>9, <1>10, <1>11, <1>12 DEF PublicationInv

\* The Action Items are materialized before anything is marked.
LEMMA MaterializeKeeps == PublicationInv /\ Materialize => PublicationInv'
<1> SUFFICES ASSUME PublicationInv, Materialize PROVE PublicationInv'
  OBVIOUS
<1>u. UNCHANGED <<up, asked, files, review, outward, world, calls, faults>>
  BY DEF Materialize
<1>f. UNCHANGED <<op, context, cores, results, manifests, publication, projection, completion>>
  BY <1>u DEF files
<1>j. /\ job \in Jobs /\ job.pc = "materialize" /\ "materialize" \in Steps /\ "review" \in Steps
  BY DEF PublicationInv, TypeOK, Jobs, Steps, Materialize
<1>1. CASE ~results[job.rev].complete /\ PublishedComplete
  <2>1. Throw("integrity") /\ materialized' = materialized
    BY <1>1 DEF Materialize
  <2>2. /\ context' \in BOOLEAN /\ (context => context')
        /\ calls' \in 0..MaxCalls /\ faults' \in 0..MaxFaults
    BY <1>u, <1>f DEF PublicationInv, TypeOK
  <2> QED BY <1>j, <1>u, <1>f, <2>1, <2>2, ThrowKeeps
<1>2. CASE results[job.rev].complete \/ ~PublishedComplete
  <2>1. /\ job' = [pc |-> "review", turn |-> job.turn, rev |-> job.rev, core |-> job.core]
        /\ job' \in Jobs /\ UNCHANGED run
        /\ materialized' = IF job.turn = "section" /\ job.core # 0 THEN materialized
                           ELSE materialized \cup {results[job.rev].items}
    <3>1. /\ job' = Goto("review") /\ UNCHANGED run
          /\ materialized' = IF job.turn = "section" /\ job.core # 0 THEN materialized
                             ELSE materialized \cup {results[job.rev].items}
      BY <1>2 DEF Materialize
    <3> QED BY <1>j, <3>1, JobMoves
  <2>2. /\ job.rev \in Resulted /\ job.rev > publication.rev /\ op /\ context
        /\ (job.turn = "section" /\ job.core # 0 => results[job.rev].items \in materialized)
        /\ results[job.rev].items = Top
    BY <1>j DEF PublicationInv, HandInv, CoreInv, Preparing
  <2>3. /\ materialized \subseteq materialized' /\ materialized' \subseteq Texts
        /\ results[job.rev].items \in materialized'
    <3>1. results[job.rev].items \in Texts /\ materialized \subseteq Texts
      BY <2>2 DEF PublicationInv, TypeOK, Resulted
    <3> QED BY <2>1, <2>2, <3>1
  <2>4. TypeOK'
    BY <1>u, <1>f, <2>1, <2>3 DEF PublicationInv, TypeOK, Jobs, run, outward, world
  <2>5. TurnInv'
    BY <1>j, <1>u, <2>1 DEF PublicationInv, TurnInv, Regenerating, Steps, run
  <2>p. /\ Published' = Published /\ Marked' = Marked /\ Resulted' = Resulted
        /\ PublishedComplete' = PublishedComplete
    BY <1>f, FilesStand
  <2>6. PublishedInv'
    BY <1>u, <2>1, <2>p DEF PublicationInv, PublishedInv, run
  <2>7. HandInv'
    BY <1>2, <1>f, <2>1, <2>2, <2>3, <2>p DEF PublicationInv, HandInv, Preparing, Committed
  <2>r. review.request # "items" /\ Published => manifests[publication.rev].items = Top
    BY DEF PublicationInv, CoreInv
  <2> QED BY <1>u, <1>f, <2>1, <2>2, <2>3, <2>4, <2>5, <2>6, <2>7, <2>r, OnlyTheHand
    DEF Preparing, Committed
<1> QED BY <1>1, <1>2

\* The review record exists before the marker.
LEMMA EnsureReviewKeeps == PublicationInv /\ EnsureReview => PublicationInv'
<1> SUFFICES ASSUME PublicationInv, EnsureReview PROVE PublicationInv'
  OBVIOUS
<1>u. /\ UNCHANGED <<run, up, asked, files, outward, materialized, world, calls, faults>>
      /\ review' = [review EXCEPT !.held = TRUE]
  BY DEF EnsureReview
<1>f. UNCHANGED <<op, context, cores, results, manifests, publication, projection, completion>>
  BY <1>u DEF files
<1>1. /\ job' = [pc |-> "manifest", turn |-> job.turn, rev |-> job.rev, core |-> job.core]
      /\ job' \in Jobs /\ job.pc = "review"
  <2>1. job \in Jobs /\ "manifest" \in Steps
    BY DEF PublicationInv, TypeOK, Jobs, Steps
  <2> QED BY <2>1, JobMoves DEF EnsureReview
<1>2. /\ review'.held /\ review'.request = review.request
      /\ review' \in [held : BOOLEAN, request : {"none", "approve"} \cup Fields, approval : BOOLEAN]
  BY <1>u DEF PublicationInv, TypeOK
<1>3. TypeOK'
  BY <1>u, <1>f, <1>1, <1>2 DEF PublicationInv, TypeOK, Jobs, run, outward, world
<1>4. TurnInv'
  BY <1>u, <1>1, <1>2 DEF PublicationInv, TurnInv, Regenerating, Steps, run
<1>p. /\ Published' = Published /\ Marked' = Marked /\ Resulted' = Resulted
      /\ PublishedComplete' = PublishedComplete
  BY <1>f, FilesStand
<1>5. PublishedInv'
  BY <1>u, <1>1, <1>2, <1>p DEF PublicationInv, PublishedInv, run
<1>6. HandInv'
  BY <1>u, <1>f, <1>1, <1>2, <1>p DEF PublicationInv, HandInv, Preparing, Committed
<1>7. /\ results[job.rev].items = Top
      /\ (review.request # "items" /\ Published => manifests[publication.rev].items = Top)
  BY <1>1 DEF PublicationInv, CoreInv, Preparing
<1> QED BY <1>u, <1>f, <1>1, <1>2, <1>3, <1>4, <1>5, <1>6, <1>7, OnlyTheHand
  DEF Preparing, Committed

\* The marker takes the bytes in hand, once, for a revision past the pointer.
LEMMA PrepareKeeps == PublicationInv /\ PrepareRevision => PublicationInv'
<1> SUFFICES ASSUME PublicationInv, PrepareRevision PROVE PublicationInv'
  OBVIOUS
<1>u. UNCHANGED <<run, up, asked, op, context, cores, results, publication, projection,
                  completion, review, outward, materialized, world, calls, faults>>
  BY DEF PrepareRevision
<1>1. /\ job' = [pc |-> "publish", turn |-> job.turn, rev |-> job.rev, core |-> job.core]
      /\ job' \in Jobs /\ job.pc = "manifest" /\ job \in Jobs
  <2>1. job \in Jobs /\ "publish" \in Steps
    BY DEF PublicationInv, TypeOK, Jobs, Steps
  <2> QED BY <2>1, JobMoves DEF PrepareRevision
<1>2. /\ job.rev \in Resulted /\ job.rev > publication.rev /\ op /\ context /\ review.held
      /\ results[job.rev].items \in materialized /\ results[job.rev].items = Top
      /\ results[job.rev].complete \/ ~PublishedComplete
      /\ job.core # 0 => cores[job.core] # 0
  BY <1>1 DEF PublicationInv, HandInv, CoreInv, Preparing
<1>3. /\ job.rev \in Revisions /\ job.rev # publication.rev /\ job.rev >= publication.rev
      /\ results[job.rev] \in [text : Texts, items : Texts, complete : BOOLEAN]
      /\ results[job.rev].text # 0
  <2>1. job.rev \in Revisions /\ results[job.rev].text # 0
    BY <1>2 DEF Resulted
  <2>2. job.rev \in Int /\ publication.rev \in Int
    BY <2>1, MaxCallsAssumption DEF PublicationInv, TypeOK, Revisions
  <2> QED BY <1>2, <2>1, <2>2 DEF PublicationInv, TypeOK
<1>r. review.request # "items" /\ Published => manifests[publication.rev].items = Top
  BY DEF PublicationInv, CoreInv
<1>4. CASE job.rev \in Marked
  <2>1. manifests' = manifests
    BY <1>4 DEF PrepareRevision
  <2>p. /\ Published' = Published /\ Marked' = Marked /\ Resulted' = Resulted
        /\ PublishedComplete' = PublishedComplete
    BY <1>u, <2>1, FilesStand
  <2>2. manifests[job.rev].complete = results[job.rev].complete
    BY <1>4 DEF PublicationInv, ChainInv, Chained
  <2>3. TypeOK'
    BY <1>u, <1>1, <2>1 DEF PublicationInv, TypeOK, Jobs, run, outward, world
  <2>4. TurnInv'
    BY <1>u, <1>1 DEF PublicationInv, TurnInv, Regenerating, Steps, run
  <2>5. PublishedInv'
    BY <1>u, <1>1, <2>p DEF PublicationInv, PublishedInv, run
  <2>6. HandInv'
    BY <1>u, <1>1, <1>2, <1>3, <1>4, <2>1, <2>p, <2>2 DEF HandInv, Preparing, Committed
  <2> QED BY <1>u, <1>1, <1>r, <2>1, <2>3, <2>4, <2>5, <2>6, OnlyTheHand DEF Preparing, Committed
<1>5. CASE job.rev \notin Marked
  <2> DEFINE m == [text |-> results[job.rev].text, items |-> results[job.rev].items,
                   complete |-> results[job.rev].complete, core |-> job.core]
  <2>1. manifests' = [manifests EXCEPT ![job.rev] = m]
    BY <1>5 DEF PrepareRevision
  <2>2. /\ m \in [text : Texts, items : Texts, complete : BOOLEAN, core : 0..MaxCalls]
        /\ m.text = results[job.rev].text /\ m.items = results[job.rev].items
        /\ m.complete = results[job.rev].complete /\ m.core = job.core
    BY <1>1, <1>3 DEF Jobs
  <2> HIDE DEF m
  <2>3. /\ manifests' \in [Revisions -> [text : Texts, items : Texts,
                                        complete : BOOLEAN, core : 0..MaxCalls]]
        /\ manifests'[job.rev] = m
        /\ \A r \in Revisions : r # job.rev => manifests'[r] = manifests[r]
    BY <1>3, <2>1, <2>2 DEF PublicationInv, TypeOK
  <2>4. Marked' = Marked \cup {job.rev}
    <3>1. \A r \in Revisions : manifests'[r].text # 0 <=> manifests[r].text # 0 \/ r = job.rev
      BY <1>3, <2>2, <2>3
    <3> QED BY <1>3, <3>1 DEF Marked
  <2>5. Published => /\ publication.rev \in Revisions
                     /\ manifests'[publication.rev] = manifests[publication.rev]
    <3>1. Published => publication.rev \in Revisions
      BY DEF PublicationInv, ChainInv, Marked
    <3> QED BY <1>3, <2>3, <3>1
  <2>6. /\ Published' = Published /\ PublishedComplete' = PublishedComplete
        /\ Cored' = Cored /\ Resulted' = Resulted /\ Target' = Target /\ Top' = Top
        /\ Newest(Cored)' = Newest(Cored)
    <3>1. Published' = Published
      BY <1>u DEF Published
    <3>2. PublishedComplete' = PublishedComplete
      BY <1>u, <2>5, <3>1 DEF PublishedComplete
    <3> QED BY <1>u, <3>1, <3>2 DEF Cored, Resulted, Target, Top, Newest
  <2>7. TypeOK'
    BY <1>u, <1>1, <2>3 DEF PublicationInv, TypeOK, Jobs, run, outward, world
  <2>8. TurnInv'
    BY <1>u, <1>1 DEF PublicationInv, TurnInv, Regenerating, Steps, run
  <2>9. PublishedInv'
    BY <1>u, <1>1, <2>6 DEF PublicationInv, PublishedInv, run
  <2>10. ChainInv'
    <3>1. \A r \in Marked' : Chained(r)'
      <4> SUFFICES ASSUME NEW r \in Marked' PROVE Chained(r)'
        OBVIOUS
      <4>1. CASE r = job.rev
        BY <1>u, <1>2, <2>2, <2>3, <4>1 DEF Chained
      <4>2. CASE r # job.rev
        <5>1. Chained(r) /\ r \in Revisions
          BY <2>4, <4>2 DEF PublicationInv, ChainInv, Marked
        <5> QED BY <1>u, <2>3, <4>2, <5>1 DEF Chained
      <4> QED BY <4>1, <4>2
    <3> QED BY <1>u, <1>2, <2>4, <2>6, <3>1 DEF PublicationInv, ChainInv
  <2>11. HandInv'
    BY <1>u, <1>1, <1>2, <1>3, <2>2, <2>3, <2>4, <2>6 DEF HandInv, Preparing, Committed
  <2>12. CoreInv'
    <3>1. \A r \in Marked' : r > publication.rev => manifests'[r].items = Top
      <4> SUFFICES ASSUME NEW r \in Marked', r > publication.rev PROVE manifests'[r].items = Top
        OBVIOUS
      <4>1. CASE r = job.rev
        BY <1>2, <2>2, <2>3, <4>1
      <4>2. CASE r # job.rev
        <5>1. r \in Marked /\ r \in Revisions
          BY <2>4, <4>2 DEF Marked
        <5>2. manifests[r].items = Top
          BY <5>1 DEF PublicationInv, CoreInv
        <5> QED BY <2>3, <4>2, <5>1, <5>2
      <4> QED BY <4>1, <4>2
    <3>2. review'.request # "items" /\ Published => manifests'[publication.rev].items = Top
      BY <1>u, <1>r, <2>5
    <3> QED BY <1>u, <1>1, <2>4, <2>6, <3>1, <3>2
      DEF PublicationInv, CoreInv, Preparing, Committed, Regenerating
  <2> QED BY <2>7, <2>8, <2>9, <2>10, <2>11, <2>12 DEF PublicationInv
<1> QED BY <1>4, <1>5

\* The pointer moves to the revision in hand, which is marked and newer.
LEMMA PublishKeeps == PublicationInv /\ PublishRevision => PublicationInv'
<1> SUFFICES ASSUME PublicationInv, PublishRevision PROVE PublicationInv'
  OBVIOUS
<1>u. UNCHANGED <<run, up, asked, op, context, cores, results, manifests, projection,
                  completion, review, outward, materialized, world, calls, faults>>
  BY DEF PublishRevision
<1>1. /\ job' = [pc |-> job'.pc, turn |-> job.turn, rev |-> job.rev, core |-> job.core]
      /\ job' \in Jobs /\ job.pc = "publish" /\ job \in Jobs /\ job'.pc \in {"project", "exposed"}
  <2>1. job \in Jobs /\ "project" \in Steps /\ "exposed" \in Steps
    BY DEF PublicationInv, TypeOK, Jobs, Steps
  <2>2. job.pc = "publish" /\ (job' = Goto("project") \/ job' = Goto("exposed"))
    BY DEF PublishRevision
  <2> QED BY <2>1, <2>2, JobMoves
<1>2. /\ job.rev \in Marked /\ job.rev >= publication.rev
      /\ manifests[job.rev].complete \/ ~PublishedComplete
      /\ Regenerating => job.rev > publication.rev
  BY <1>1 DEF PublicationInv, HandInv
<1>3. job.rev \in Revisions /\ job.rev \in Int /\ publication.rev \in Int /\ job.rev # 0
  BY <1>2, MaxCallsAssumption DEF Marked, Revisions, PublicationInv, TypeOK
<1>4. CASE publication.rev = job.rev
  <2>1. publication' = publication /\ Published
    BY <1>3, <1>4 DEF PublishRevision, Published
  <2>2. ~Regenerating
    BY <1>2, <1>3, <1>4
  <2>p. Published' = Published /\ Marked' = Marked
    BY <1>u, <2>1, FilesStand
  <2>3. TypeOK'
    BY <1>u, <1>1, <2>1 DEF PublicationInv, TypeOK, Jobs, run, outward, world
  <2>4. TurnInv'
    BY <1>u, <1>1 DEF PublicationInv, TurnInv, Regenerating, Steps, run
  <2>5. PublishedInv'
    BY <2>1, <2>p DEF PublishedInv
  <2>6. HandInv'
    BY <1>u, <1>1, <1>4, <2>1, <2>p DEF PublicationInv, HandInv, Preparing, Committed
  <2>r. review.request # "items" /\ Published => manifests[publication.rev].items = Top
    BY DEF PublicationInv, CoreInv
  <2> QED BY <1>u, <1>1, <2>1, <2>2, <2>3, <2>4, <2>5, <2>6, <2>r, OnlyTheHand
    DEF Preparing, Committed, Regenerating
<1>5. CASE publication.rev # job.rev
  <2>1. publication' = PointerTo
    BY <1>5 DEF PublishRevision
  <2>2. /\ publication'.rev = job.rev
        /\ publication' \in [rev : 0..MaxCalls, gen : Nat, reviewOnly : BOOLEAN]
    <3>1. publication.gen + 1 \in Nat /\ job.rev \in 0..MaxCalls
      BY <1>1 DEF PublicationInv, TypeOK, Jobs
    <3>2. (publication.reviewOnly \/ ~manifests[job.rev].complete) \in BOOLEAN
      OBVIOUS
    <3> QED BY <2>1, <3>1, <3>2 DEF PointerTo
  <2>3. job.rev > publication.rev /\ Published'
    BY <1>2, <1>3, <1>5, <2>2 DEF Published
  <2>4. /\ Marked' = Marked /\ Cored' = Cored /\ Resulted' = Resulted /\ Top' = Top
        /\ Newest(Cored)' = Newest(Cored)
    BY <1>u DEF Marked, Cored, Resulted, Top, Newest
  <2>5. manifests[job.rev].items = Top
    BY <1>2, <2>3 DEF PublicationInv, CoreInv
  <2>6. TypeOK'
    BY <1>u, <1>1, <2>2 DEF PublicationInv, TypeOK, Jobs, run, outward, world
  <2>7. TurnInv'
    BY <1>u, <1>1 DEF PublicationInv, TurnInv, Regenerating, Steps, run
  <2>8. PublishedInv'
    BY <2>3 DEF PublishedInv
  <2>9. ChainInv'
    <3>1. \A r \in Marked : Chained(r)'
      BY <1>u DEF PublicationInv, ChainInv, Chained
    <3> QED BY <1>u, <1>2, <2>2, <2>4, <3>1 DEF PublicationInv, ChainInv
  <2>10. HandInv'
    BY <1>u, <1>1, <2>2, <2>3 DEF PublicationInv, HandInv, Preparing, Committed
  <2>11. CoreInv'
    <3>1. \A r \in Cored : r <= job.rev + 1
      <4> SUFFICES ASSUME NEW r \in Cored PROVE r <= job.rev + 1
        OBVIOUS
      <4>1. r <= publication.rev + 1
        BY DEF PublicationInv, CoreInv, Target
      <4>2. r \in Int
        BY MaxCallsAssumption DEF Cored, Revisions
      <4> QED BY <1>3, <2>3, <4>1, <4>2
    <3>2. \A r \in Marked : r > job.rev => manifests[r].items = Top
      <4> SUFFICES ASSUME NEW r \in Marked, r > job.rev PROVE manifests[r].items = Top
        OBVIOUS
      <4>1. r \in Int
        BY MaxCallsAssumption DEF Marked, Revisions
      <4>2. r > publication.rev
        BY <1>3, <2>3, <4>1
      <4> QED BY <4>2 DEF PublicationInv, CoreInv
    <3>3. Target' = job.rev + 1
      BY <2>2 DEF Target
    <3> QED BY <1>u, <1>1, <2>2, <2>4, <2>5, <3>1, <3>2, <3>3
      DEF PublicationInv, CoreInv, Preparing, Committed
  <2> QED BY <2>6, <2>7, <2>8, <2>9, <2>10, <2>11 DEF PublicationInv
<1> QED BY <1>4, <1>5

\* The projection, the receipt and the settled request follow the pointer.
LEMMA CommitKeeps ==
  ASSUME PublicationInv, WriteProjection \/ VerifyCompletion \/ SettleRequest
  PROVE  PublicationInv'
<1>u. UNCHANGED <<up, asked, op, context, cores, results, manifests, publication,
                  outward, materialized, world, calls, faults>>
  BY DEF WriteProjection, VerifyCompletion, SettleRequest, files
<1>j. /\ job \in Jobs /\ job.pc \in {"project", "complete", "settle"} /\ job.pc \in Steps
      /\ {"complete", "settle", "finish"} \subseteq Steps
      /\ review \in [held : BOOLEAN, request : {"none", "approve"} \cup Fields, approval : BOOLEAN]
  BY DEF PublicationInv, TypeOK, Jobs, Steps, WriteProjection, VerifyCompletion, SettleRequest
<1>p. Published' = Published /\ Marked' = Marked
  BY <1>u, FilesStand
<1>h. /\ Published /\ publication.rev = job.rev /\ status = "running"
      /\ Regenerating => manifests[publication.rev].items = Top
      /\ review.request # "items" => manifests[publication.rev].items = Top
  BY <1>j DEF PublicationInv, HandInv, CoreInv, TurnInv, Committed
<1>5. PublishedInv'
  BY <1>h, <1>p DEF PublishedInv
<1>1. CASE WriteProjection
  <2>1. /\ job' = [pc |-> "complete", turn |-> job.turn, rev |-> job.rev, core |-> job.core]
        /\ job' \in Jobs /\ UNCHANGED <<run, completion, review>>
        /\ projection' = results[job.rev].text /\ job.pc = "project"
    <3>1. /\ job' = Goto("complete") /\ UNCHANGED <<run, completion, review>>
          /\ projection' = results[job.rev].text /\ job.pc = "project"
      BY <1>1 DEF WriteProjection
    <3> QED BY <1>j, <3>1, JobMoves
  <2>2. projection' \in Texts
    <3>1. job.rev \in Revisions
      BY <1>h DEF PublicationInv, ChainInv, Marked
    <3> QED BY <2>1, <3>1 DEF PublicationInv, TypeOK
  <2>3. TypeOK'
    BY <1>u, <2>1, <2>2 DEF PublicationInv, TypeOK, Jobs, run, outward, world
  <2>4. TurnInv'
    BY <1>u, <2>1 DEF PublicationInv, TurnInv, Regenerating, Steps, run
  <2>6. HandInv'
    BY <1>u, <1>h, <1>p, <2>1 DEF PublicationInv, HandInv, Preparing, Committed
  <2> QED BY <1>u, <1>h, <1>5, <2>1, <2>3, <2>4, <2>6, OnlyTheHand
    DEF Preparing, Committed, Regenerating
<1>2. CASE VerifyCompletion /\ ~PublicationSound
  <2>1. Throw("integrity") /\ UNCHANGED <<projection, completion, review>>
    BY <1>2 DEF VerifyCompletion
  <2>2. /\ context' \in BOOLEAN /\ (context => context')
        /\ calls' \in 0..MaxCalls /\ faults' \in 0..MaxFaults
    BY <1>u DEF PublicationInv, TypeOK
  <2> QED BY <1>j, <1>u, <2>1, <2>2, ThrowKeeps
<1>3. CASE VerifyCompletion /\ PublicationSound
  <2>1. /\ job' = [pc |-> job'.pc, turn |-> job.turn, rev |-> job.rev, core |-> job.core]
        /\ job' \in Jobs /\ UNCHANGED <<run, projection, review>> /\ job.pc = "complete"
        /\ completion' = [rev |-> publication.rev, gen |-> publication.gen]
        /\ \/ job'.pc = "settle" /\ Regenerating
           \/ job'.pc = "finish" /\ ~Regenerating
    <3>1. /\ UNCHANGED <<run, projection, review>> /\ job.pc = "complete"
          /\ completion' = [rev |-> publication.rev, gen |-> publication.gen]
          /\ \/ job' = Goto("settle") /\ Regenerating
             \/ job' = Goto("finish") /\ ~Regenerating
      BY <1>3 DEF VerifyCompletion, ReceiptFor
    <3> QED BY <1>j, <3>1, JobMoves
  <2>2. Verified'
    BY <1>3, <1>u, <1>p, <2>1 DEF Verified, PublicationSound
  <2>3. TypeOK'
    <3>1. completion' \in [rev : 0..MaxCalls, gen : Nat]
      BY <2>1 DEF PublicationInv, TypeOK
    <3> QED BY <1>u, <2>1, <3>1 DEF PublicationInv, TypeOK, Jobs, run, outward, world
  <2>4. TurnInv'
    BY <1>u, <1>h, <2>1 DEF PublicationInv, TurnInv, Regenerating, Steps, Fields, run
  <2>6. HandInv'
    BY <1>u, <1>h, <1>p, <2>1, <2>2 DEF PublicationInv, HandInv, Preparing, Committed
  <2> QED BY <1>u, <1>h, <1>5, <2>1, <2>3, <2>4, <2>6, OnlyTheHand
    DEF Preparing, Committed, Regenerating
<1>4. CASE SettleRequest
  <2>1. /\ job' = [pc |-> "finish", turn |-> job.turn, rev |-> job.rev, core |-> job.core]
        /\ job' \in Jobs /\ UNCHANGED <<run, projection, completion>> /\ job.pc = "settle"
        /\ review' = [review EXCEPT !.request = "none"]
    <3>1. /\ job' = Goto("finish") /\ UNCHANGED <<run, projection, completion>> /\ job.pc = "settle"
          /\ review' = [review EXCEPT !.request = "none"]
      BY <1>4 DEF SettleRequest, files
    <3> QED BY <1>j, <3>1, JobMoves
  <2>2. /\ review'.held = review.held /\ review'.request = "none"
        /\ review' \in [held : BOOLEAN, request : {"none", "approve"} \cup Fields, approval : BOOLEAN]
    BY <1>j, <2>1
  <2>3. Regenerating /\ Verified
    BY <2>1 DEF PublicationInv, TurnInv, HandInv
  <2>4. Verified'
    BY <1>u, <1>p, <2>1, <2>2, <2>3 DEF Verified, PublicationSound
  <2>5. TypeOK'
    BY <1>u, <2>1, <2>2 DEF PublicationInv, TypeOK, Jobs, run, outward, world
  <2>6. TurnInv'
    BY <1>u, <1>h, <2>1, <2>2 DEF PublicationInv, TurnInv, Regenerating, Steps, Fields, run
  <2>7. HandInv'
    BY <1>u, <1>h, <1>p, <2>1, <2>4 DEF PublicationInv, HandInv, Preparing, Committed
  <2> QED BY <1>u, <1>h, <1>5, <2>1, <2>2, <2>3, <2>5, <2>6, <2>7, OnlyTheHand
    DEF Preparing, Committed, Regenerating
<1> QED BY <1>1, <1>2, <1>3, <1>4

\* The steps that only throw.
LEMMA FailuresKeep ==
  ASSUME PublicationInv, BudgetExhausted \/ ExposeIncomplete \/ StepFails
  PROVE  PublicationInv'
<1>1. /\ job.pc \in Steps
      /\ Throw("error") \/ Throw("integrity")
      /\ UNCHANGED <<up, asked, files, review, outward, materialized, world, calls>>
      /\ faults' = faults \/ (faults > 0 /\ faults' = faults - 1)
  BY DEF BudgetExhausted, ExposeIncomplete, StepFails, Steps
<1>2. UNCHANGED <<op, context, cores, results, manifests, publication, projection, completion>>
  BY <1>1 DEF files
<1>3. context' \in BOOLEAN /\ calls' \in 0..MaxCalls /\ faults' \in 0..MaxFaults
  BY <1>1, <1>2, MaxFaultsAssumption DEF PublicationInv, TypeOK
<1> QED BY <1>1, <1>2, <1>3, ThrowKeeps

\* The steps after which an attempt begins, or none runs.
LEMMA EntriesKeep ==
  ASSUME PublicationInv, ResumeOwnerTurn \/ Boot \/ EarlyReview \/ RetryRun \/ Crash
  PROVE  PublicationInv'
<1>1. UNCHANGED <<asked, files, review, outward, materialized, world, calls>>
  BY DEF ResumeOwnerTurn, Boot, EarlyReview, RetryRun, Crash
<1>2. up' \in BOOLEAN /\ faults' \in 0..MaxFaults
  <2>1. up \in BOOLEAN /\ faults \in 0..MaxFaults
    BY DEF PublicationInv, TypeOK
  <2>2. up' = up \/ up' = TRUE \/ up' = FALSE
    BY DEF ResumeOwnerTurn, Boot, EarlyReview, RetryRun, Crash
  <2>3. up' \in BOOLEAN
    BY <2>1, <2>2, Zenon
  <2>4. faults' = faults \/ (faults > 0 /\ faults' = faults - 1)
    BY DEF ResumeOwnerTurn, Boot, EarlyReview, RetryRun, Crash
  <2>5. faults' \in 0..MaxFaults
    BY <2>1, <2>4, MaxFaultsAssumption
  <2> QED BY <2>3, <2>5
<1>3. CASE ResumeOwnerTurn
  <2>1. Published
    BY <1>3 DEF ResumeOwnerTurn, PublicationInv, TurnInv, PublishedInv
  <2>2. Retry \/ Reenter("enter", "owner")
    BY <1>3 DEF ResumeOwnerTurn
  <2> QED BY <1>1, <1>2, <2>1, <2>2, ReentryKeeps
<1>4. CASE Boot
  <2>1. \/ Reenter("associate", "publish") \/ Retry \/ Reenter("associate", "reconcile")
        \/ status # "running" /\ UNCHANGED run /\ UNCHANGED job
    BY <1>4 DEF Boot, RecoverRun
  <2>2. status # "running" => job.pc \in Outside
    <3>1. job.pc \in Steps => status = "running"
      BY DEF PublicationInv, TurnInv
    <3>2. job.pc \in Steps \cup {"idle", "resume"}
      BY DEF PublicationInv, TypeOK
    <3> QED BY <3>1, <3>2 DEF Outside
  <2> QED BY <1>1, <1>2, <2>1, <2>2, ReentryKeeps
<1>5. CASE EarlyReview \/ RetryRun
  BY <1>1, <1>2, <1>5, ReentryKeeps DEF EarlyReview, RetryRun
<1>6. CASE Crash
  BY <1>1, <1>2, <1>6, ReentryKeeps DEF Crash
<1> QED BY <1>3, <1>4, <1>5, <1>6

-----------------------------------------------------------------------------
(* The invariant                                                           *)

\* A new Run holds nothing.
LEMMA InitKeeps == Init => PublicationInv
<1> SUFFICES ASSUME Init PROVE PublicationInv
  OBVIOUS
<1>1. /\ job = [pc |-> "associate", turn |-> "publish", rev |-> 0, core |-> 0]
      /\ publication = [rev |-> 0, gen |-> 0, reviewOnly |-> FALSE]
      /\ review = [held |-> FALSE, request |-> "none", approval |-> FALSE]
  BY DEF Init, Begin
<1>2. TypeOK
  <2>0. 0 \in 0..MaxCalls /\ 0 \in Texts /\ 0 \in Nat /\ MaxFaults \in 0..MaxFaults
    BY MaxCallsAssumption, MaxFaultsAssumption DEF Texts
  <2>1. /\ job \in Jobs
        /\ publication \in [rev : 0..MaxCalls, gen : Nat, reviewOnly : BOOLEAN]
        /\ review \in [held : BOOLEAN, request : {"none", "approve"} \cup Fields, approval : BOOLEAN]
    BY <1>1, <2>0 DEF Jobs, Turns, Steps
  <2>2. /\ cores \in [Revisions -> Texts]
        /\ results \in [Revisions -> [text : Texts, items : Texts, complete : BOOLEAN]]
        /\ manifests \in [Revisions -> [text : Texts, items : Texts,
                                        complete : BOOLEAN, core : 0..MaxCalls]]
    BY <2>0 DEF Init, Absent, Unmarked
  <2>3. /\ projection \in Texts /\ completion \in [rev : 0..MaxCalls, gen : Nat]
        /\ calls \in 0..MaxCalls /\ faults \in 0..MaxFaults /\ drafts \in Nat
    BY <2>0 DEF Init
  <2>4. /\ up \in BOOLEAN /\ op \in BOOLEAN /\ context \in BOOLEAN /\ asked \in BOOLEAN
        /\ receipt \in BOOLEAN /\ record \in BOOLEAN /\ gate \in BOOLEAN
        /\ materialized \subseteq Texts
    BY DEF Init
  <2>5. /\ status \in {"running", "done", "failed", "skipped"}
        /\ failedStage \in {"none", "associate", "extract", "regenerate", "review"}
        /\ lastFailure \in {"none", "error", "integrity"}
    BY DEF Init
  <2> QED BY <2>1, <2>2, <2>3, <2>4, <2>5 DEF TypeOK, Jobs
<1>3. TurnInv /\ PublishedInv
  BY <1>1 DEF Init, TurnInv, PublishedInv, Regenerating, Fields, Published
<1>4. Marked = {} /\ Resulted = {} /\ Cored = {} /\ ~Published
  BY <1>1 DEF Init, Marked, Resulted, Cored, Absent, Unmarked, Published
<1>5. ChainInv
  BY <1>4 DEF ChainInv
<1>6. HandInv
  BY <1>1 DEF HandInv, Preparing, Committed
<1>7. CoreInv
  <2>1. Cardinality(Cored) <= 1
    BY <1>4, FS_EmptySet
  <2> QED BY <1>1, <1>4, <2>1 DEF CoreInv, Preparing, Committed
<1> QED BY <1>2, <1>3, <1>5, <1>6, <1>7 DEF PublicationInv

\* Every step keeps the invariant.
LEMMA NextKeeps == PublicationInv /\ [Next]_vars => PublicationInv'
<1> SUFFICES ASSUME PublicationInv, [Next]_vars PROVE PublicationInv'
  OBVIOUS
<1>1. CASE Advance
  <2>1. CASE Associate
    BY <2>1, AssociateKeeps
  <2>2. CASE ReserveOperation
    BY <2>2, ReserveKeeps
  <2>3. CASE Decide
    BY <2>3, DecideKeeps
  <2>4. CASE ReuseCore
    BY <2>4, ReuseKeeps
  <2>5. CASE DiscoverCore
    BY <2>5, DiscoverKeeps
  <2>6. CASE \E ok \in BOOLEAN : WriteResult(ok)
    BY <2>6, ResultKeeps
  <2>7. CASE Materialize
    BY <2>7, MaterializeKeeps
  <2>8. CASE EnsureReview
    BY <2>8, EnsureReviewKeeps
  <2>9. CASE PrepareRevision
    BY <2>9, PrepareKeeps
  <2>10. CASE PublishRevision
    BY <2>10, PublishKeeps
  <2>11. CASE WriteProjection \/ VerifyCompletion \/ SettleRequest
    BY <2>11, CommitKeeps
  <2>12. CASE BudgetExhausted \/ ExposeIncomplete
    BY <2>12, FailuresKeep
  <2>13. CASE \/ Finish \/ EnterReview \/ \E stale \in BOOLEAN : Approve(stale)
              \/ CreateDraft \/ WriteReceipt
    BY <2>13, OwnerTurnKeeps
  <2>14. CASE ResumeOwnerTurn \/ Boot
    BY <2>14, EntriesKeep
  <2> QED BY <1>1, <2>1, <2>2, <2>3, <2>4, <2>5, <2>6, <2>7, <2>8, <2>9, <2>10, <2>11, <2>12,
            <2>13, <2>14 DEF Advance
<1>2. CASE Owner
  <2>1. CASE RequestApprove \/ \E field \in Fields : RequestRegenerate(field)
    BY <2>1, OwnerTurnKeeps
  <2>2. CASE EarlyReview \/ RetryRun
    BY <2>2, EntriesKeep
  <2> QED BY <1>2, <2>1, <2>2 DEF Owner
<1>3. CASE Environment
  <2>1. CASE Crash
    BY <2>1, EntriesKeep
  <2>2. CASE StepFails
    BY <2>2, FailuresKeep
  <2>3. CASE LoseMetadata \/ DropTranscript \/ MoveGate
    BY <2>3, SurroundingsKeep
  <2> QED BY <1>3, <2>1, <2>2, <2>3 DEF Environment
<1>4. CASE UNCHANGED vars
  <2>1. UNCHANGED <<run, up, job, asked, op, context, cores, results, manifests, publication,
                    projection, completion, review, outward, materialized, world, calls, faults>>
    BY <1>4 DEF vars, files
  <2>2. /\ Cored' = Cored /\ Resulted' = Resulted /\ Marked' = Marked
        /\ Top' = Top /\ Newest(Cored)' = Newest(Cored)
        /\ Published' = Published /\ PublishedComplete' = PublishedComplete /\ Target' = Target
        /\ \A r \in Marked : Chained(r) => Chained(r)'
    BY <2>1, FilesStand
  <2>3. Verified' = Verified
    BY <2>1, <2>2 DEF Verified, PublicationSound
  <2>4. TypeOK'
    BY <2>1 DEF PublicationInv, TypeOK, run, outward, world
  <2>5. TurnInv' /\ PublishedInv'
    BY <2>1, <2>2 DEF PublicationInv, TurnInv, PublishedInv, Regenerating, run
  <2>6. ChainInv' /\ CoreInv'
    BY <2>1, <2>2 DEF PublicationInv, ChainInv, CoreInv, Regenerating
  <2>7. HandInv'
    BY <2>1, <2>2, <2>3 DEF PublicationInv, HandInv, Preparing, Committed, Regenerating
  <2> QED BY <2>4, <2>5, <2>6, <2>7 DEF PublicationInv
<1> QED BY <1>1, <1>2, <1>3, <1>4 DEF Next

\* The invariant holds in every reachable state.
LEMMA InvariantHolds == Spec => []PublicationInv
<1>1. Init => PublicationInv
  BY InitKeeps
<1>2. PublicationInv /\ [Next]_vars => PublicationInv'
  BY NextKeeps
<1> QED BY <1>1, <1>2, PTL DEF Spec

-----------------------------------------------------------------------------
(* What the Run promises                                                   *)

\* Every variable keeps its type: no call, revision or generation leaves its
\* range.
THEOREM TypesHold == Spec => []TypeOK
<1>1. PublicationInv => TypeOK
  BY DEF PublicationInv
<1> QED BY <1>1, InvariantHolds, PTL

\* Whatever write the process died after, the pointer names a marked revision
\* over a complete chain (publishRevision after prepareRevision after
\* materialize, in publication.ts).
THEOREM ChainHolds == Spec => []PointerHasItsChain
<1>1. PublicationInv => PointerHasItsChain
  <2> SUFFICES ASSUME PublicationInv, Published PROVE PointerHasItsChain
    BY DEF PointerHasItsChain
  <2>1. publication.rev \in Marked /\ Chained(publication.rev)
    BY DEF PublicationInv, ChainInv
  <2>2. op /\ context /\ review.held
    BY <2>1 DEF PublicationInv, ChainInv
  <2> QED BY <2>1, <2>2 DEF PointerHasItsChain, Chained
<1> QED BY <1>1, InvariantHolds, PTL

\* A Run whose Action Items nobody asked to regenerate discovers them once,
\* however often it is retried, recovered or exposed (resumableCheckedCore).
THEOREM DiscoveredOnce == Spec => []OneDiscovery
<1>1. PublicationInv => OneDiscovery
  BY DEF PublicationInv, CoreInv, OneDiscovery
<1> QED BY <1>1, InvariantHolds, PTL

\* A section regeneration resumes the core its published Action Items came
\* from, even past a failed Action Item regeneration that left a newer one.
THEOREM SectionsResume == Spec => []SectionResumesItsCore
<1>1. PublicationInv => SectionResumesItsCore
  <2> SUFFICES ASSUME PublicationInv, job.turn = "section", job.pc = "sections"
               PROVE  cores[job.core] = manifests[publication.rev].items
    BY DEF SectionResumesItsCore
  <2>1. Published /\ review.request = "section"
    BY DEF PublicationInv, TurnInv, PublishedInv, Regenerating, Fields
  <2>2. manifests[publication.rev].items = Top /\ job.core = Newest(Cored)
    BY <2>1 DEF PublicationInv, CoreInv
  <2> QED BY <2>2 DEF Top
<1> QED BY <1>1, InvariantHolds, PTL

\* Only publishRevision moves the pointer.
LEMMA PointerIsPublished ==
  ASSUME [Next]_vars, publication' # publication
  PROVE  PublishRevision
<1>1. CASE Advance
  BY <1>1 DEF Advance, Associate, ReserveOperation, Decide, ReuseCore, DiscoverCore, WriteResult,
    BudgetExhausted, Materialize, EnsureReview, PrepareRevision, ExposeIncomplete, WriteProjection,
    VerifyCompletion, SettleRequest, Finish, EnterReview, Approve, CreateDraft, WriteReceipt,
    ResumeOwnerTurn, Boot, files
<1>2. CASE Owner
  BY <1>2 DEF Owner, RequestRegenerate, RequestApprove, EarlyReview, RetryRun, files
<1>3. CASE Environment
  BY <1>3 DEF Environment, Crash, StepFails, LoseMetadata, DropTranscript, MoveGate, files
<1>4. CASE UNCHANGED vars
  BY <1>4 DEF vars, files
<1> QED BY <1>1, <1>2, <1>3, <1>4 DEF Next

\* The pointer moves forward one generation at a time, never from a complete
\* revision to an incomplete one, and stays review-only (publishRevision).
THEOREM PointerMoves == Spec => PointerMovesForward
<1>1. ASSUME PublicationInv, [Next]_vars, publication' # publication
      PROVE  /\ publication'.rev > publication.rev
             /\ publication'.gen = publication.gen + 1
             /\ PublishedComplete => manifests'[publication'.rev].complete
             /\ publication.reviewOnly => publication'.reviewOnly
  <2>1. PublishRevision
    BY <1>1, PointerIsPublished
  <2>2. /\ job.pc = "publish" /\ publication.rev # job.rev
        /\ publication' = PointerTo /\ manifests' = manifests
    BY <1>1, <2>1 DEF PublishRevision
  <2>3. /\ job.rev \in Marked /\ job.rev >= publication.rev
        /\ manifests[job.rev].complete \/ ~PublishedComplete
    BY <1>1, <2>2 DEF PublicationInv, HandInv
  <2>4. job.rev \in Int /\ publication.rev \in Int
    BY <1>1, MaxCallsAssumption DEF PublicationInv, TypeOK
  <2>5. /\ publication'.rev = job.rev /\ publication'.gen = publication.gen + 1
        /\ publication'.reviewOnly = (publication.reviewOnly \/ ~manifests[job.rev].complete)
    BY <2>2 DEF PointerTo
  <2>6. publication'.rev > publication.rev
    BY <2>2, <2>3, <2>4, <2>5
  <2> QED BY <2>2, <2>3, <2>5, <2>6
<1> QED BY <1>1, InvariantHolds, PTL DEF Spec, PointerMovesForward

\* Only the Runner's last step reports done.
LEMMA DoneIsFinish ==
  ASSUME [Next]_vars, status = "running", status' = "done"
  PROVE  Finish
<1>1. CASE Advance
  <2>1. \/ Finish \/ status' = status \/ status' \in {"failed", "skipped", "running"}
    BY <1>1 DEF Advance, Associate, ReserveOperation, Decide, ReuseCore, DiscoverCore, WriteResult,
      BudgetExhausted, Materialize, EnsureReview, PrepareRevision, PublishRevision,
      ExposeIncomplete, WriteProjection, VerifyCompletion, SettleRequest, EnterReview, Approve,
      CreateDraft, WriteReceipt, ResumeOwnerTurn, Boot, RecoverRun, Throw, Skip, Retry, Reenter, run
  <2> QED BY <2>1
<1>2. CASE Owner
  BY <1>2 DEF Owner, RequestRegenerate, RequestApprove, EarlyReview, RetryRun, Retry, run
<1>3. CASE Environment
  BY <1>3 DEF Environment, Crash, StepFails, LoseMetadata, DropTranscript, MoveGate, Throw, run
<1>4. CASE UNCHANGED vars
  BY <1>4 DEF vars, run
<1> QED BY <1>1, <1>2, <1>3, <1>4 DEF Next

\* An extraction, a recovery or a regeneration reports done only over a chain
\* that reads back, with a receipt of this very generation (verifyCompletion).
THEOREM DoneMeansVerified == Spec => DoneIsVerified
<1>1. ASSUME PublicationInv, [Next]_vars,
             status' = "done", job.pc = "finish", job.turn # "approve"
      PROVE  Verified'
  <2>1. status = "running" /\ Verified
    BY <1>1 DEF PublicationInv, TurnInv, HandInv, Steps
  <2>2. Finish
    BY <1>1, <2>1, DoneIsFinish
  <2>3. /\ UNCHANGED <<op, context, cores, results, manifests, publication, projection,
                       completion, materialized>>
        /\ review' = [review EXCEPT !.held = TRUE]
    BY <2>2 DEF Finish, files
  <2>4. review'.held
    BY <1>1, <2>3 DEF PublicationInv, TypeOK
  <2>5. Published' = Published /\ Marked' = Marked
    BY <2>3, FilesStand
  <2> QED BY <2>1, <2>3, <2>4, <2>5 DEF Verified, PublicationSound
<1> QED BY <1>1, InvariantHolds, PTL DEF Spec, DoneIsVerified
=============================================================================
