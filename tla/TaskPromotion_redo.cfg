SPECIFICATION Spec
CONSTANTS
  Runs = {r1, r2}
  NoRun = NoRun
  Transcripts = {t1}
  TranscriptOf <- OneTranscript
  Entries = {e1}
  Supported = {e1}
  Title <- OneTitle
  Bundled = FALSE
  MaxEnables = 1
  MaxCommands = 3
  MaxRevisions = 2
  MaxTasks = 4
  MaxFaults = 1
INVARIANTS OneTask ReviewedIsAccepted EvidenceIsAcyclic OneAutomaticRun
CHECK_DEADLOCK FALSE
