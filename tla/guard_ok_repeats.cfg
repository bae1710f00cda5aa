\* One run on one key while the operator flips the switch; every reply arrives.
SPECIFICATION GuardSpec
CONSTANTS
  Runs = {r1}
  Keys = {k1}
  PerRun = 2
  PerDay = 2
  DryModes = {FALSE}
  SwitchValues = {TRUE, FALSE}
  DbReplies = {"done"}
  MaxDay = 0
  MaxApplied = 2
  r1 = r1
  k1 = k1
INVARIANT
  OkNeverRepeats
