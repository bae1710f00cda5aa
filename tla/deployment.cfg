\* Three releases; a scheduled script beside the operations; every step may fail
\* and every script may be told to stop, killed, or lose power.
SPECIFICATION DeploySpec
CONSTANTS
  Releases = {r1, r2, r3}
  Scheduled = {j1, j2}
  Faults = {"step", "kill", "overlap"}
SYMMETRY Symmetric
INVARIANTS
  DeployTypeOK
  RecordedPassedSmoke
  RunningIsRecorded
  DeployCanBeUndone
  DecryptedFilesAreRemoved
