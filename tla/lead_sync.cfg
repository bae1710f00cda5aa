\* Two overlapping runs, two leads, a page of one, lost replies and one crash.
SPECIFICATION LeadFairSpec
CONSTANTS
  Runs = {r1, r2}
  Keys = {1, 2}
  PerRun = 1
  PerDay = 2
  DryModes = {FALSE}
  SwitchValues = {}
  DbReplies = {"done", "lost"}
  MaxDay = 0
  MaxApplied = 1
  MaxAttempts = 2
  BatchSize = 1
  MaxCrashes = 1
  r1 = r1
  r2 = r2
INVARIANTS
  LeadTypeOK
  SyncedWasApplied
  AttemptsBounded
PROPERTY
  LeadsSettle
