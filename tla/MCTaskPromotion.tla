-------------------------- MODULE MCTaskPromotion --------------------------
(* TaskPromotion for TLC: the Runs read one Transcript, so that a second one *)
(* is a redo of the first; the entries are the same obligation.              *)
EXTENDS TaskPromotion

OneTranscript == [r \in Runs |-> CHOOSE t \in Transcripts : TRUE]
OneTitle == [e \in Entries |-> CHOOSE f \in Entries : TRUE]
=============================================================================
