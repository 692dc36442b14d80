--------------------------- MODULE AcceptedTasks ---------------------------
(***************************************************************************)
(* What is promised of the Action Items of one lineage and of the Tasks     *)
(* accepted from them, whoever promotes (tasks/promotion.ts,                *)
(* tasks/auto-promotion.ts, tasks/action-items.ts).                         *)
(***************************************************************************)
CONSTANTS
  Runs,          \* Debrief Runs of one lineage
  TranscriptOf,  \* [Runs -> Transcripts]: a new revision of the file is a new one
  Entries        \* checked output entries the model may return

VARIABLES
  items,     \* the Action Items by key
  tasks      \* every Task ever accepted, oldest first

\* An Action Item is named by its materialization key.
Keys == Runs \X Entries

\* promoteActionItem: one commitment never has two Tasks, whatever retries,
\* replays of the materialization and crashes between the two files happen.
OneTask == \A i, j \in DOMAIN tasks :
  (tasks[i].key = tasks[j].key /\ tasks[i].status # "gone" /\ tasks[j].status # "gone") => i = j

\* A Task accepts the revision that was selected when the decision was taken,
\* whatever happened to the record since.
ReviewedIsAccepted ==
  \A i \in DOMAIN tasks : tasks[i].revision = tasks[i].shown

\* reconcile: no Action Items are evidence of each other in a circle.
EvidenceIsAcyclic ==
  \A S \in SUBSET Keys : S # {} => \E k \in S : items[k].into \notin S

\* Automation answers for the proposals of one Run of a Transcript only: a redo
\* of it stages, even where its reservation claims to be the first.
OneAutomaticRun ==
  \A i, j \in DOMAIN tasks :
    (/\ tasks[i].automatic /\ tasks[j].automatic
     /\ TranscriptOf[tasks[i].key[1]] = TranscriptOf[tasks[j].key[1]])
    => tasks[i].key[1] = tasks[j].key[1]
=============================================================================
