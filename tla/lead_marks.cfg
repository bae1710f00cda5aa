\* One scheduler, one lead, one crash; the database itself never fails.
SPECIFICATION LeadFairSpec
CONSTANTS
  Runs = {r1}
  Keys = {1}
  PerRun = 2
  PerDay = 2
  DryModes = {FALSE}
  SwitchValues = {}
  DbReplies = {"done"}
  MaxDay = 0
  MaxApplied = 1
  MaxAttempts = 2
  BatchSize = 1
  MaxCrashes = 1
  r1 = r1
PROPERTY
  RecordedLeadIsMarked
