\* Three keys against a budget of one per day, over midnight; every reply arrives.
SPECIFICATION GuardSpec
CONSTANTS
  Runs = {r1, r2}
  Keys = {k1, k2, k3}
  PerRun = 1
  PerDay = 1
  DryModes = {FALSE}
  SwitchValues = {}
  DbReplies = {"done"}
  MaxDay = 1
  MaxApplied = 1
  r1 = r1
  r2 = r2
  k1 = k1
  k2 = k2
  k3 = k3
SYMMETRY RunsAndKeys
INVARIANT
  DailyRowsBounded
