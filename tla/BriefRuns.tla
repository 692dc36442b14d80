----------------------------- MODULE BriefRuns -----------------------------
(***************************************************************************)
(* What is promised of the Brief Runs of one Calendar occurrence, whoever   *)
(* starts them (modules/meeting-brief-generator/host.ts).                   *)
(***************************************************************************)
EXTENDS Naturals, Sequences

VARIABLE runs   \* the occurrence's Runs, oldest first

\* The snapshot Stage has frozen the event; version 0 is no event.
Frozen(i) == runs[i].snapshot.version > 0

\* A later Run never holds an older version of the event than an earlier one:
\* what supersedes a Brief is not older than it, however late the Calendar read
\* that scheduled it.  (A failed Run the owner retries freezes anew.)
RevisionsGoForward ==
  \A i, j \in DOMAIN runs :
    (i < j /\ Frozen(i) /\ Frozen(j) /\ ~runs[i].retried /\ runs[j].status # "skipped")
    => runs[i].snapshot.version <= runs[j].snapshot.version
=============================================================================
