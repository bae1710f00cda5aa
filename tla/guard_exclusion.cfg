\* Three runs, live or dry, on one key, an operator flipping the switch, every reply.
SPECIFICATION GuardSpec
CONSTANTS
  Runs = {r1, r2, r3}
  Keys = {k1}
  PerRun = 1
  PerDay = 2
  DryModes = {TRUE, FALSE}
  SwitchValues = {TRUE, FALSE}
  DbReplies = {"done", "lost", "failed"}
  MaxDay = 0
  MaxApplied = 2
  r1 = r1
  r2 = r2
  r3 = r3
  k1 = k1
SYMMETRY RunsAndKeys
INVARIANTS
  TypeOK
  Exclusive
  AtMostOnce
  OkMeansApplied
PROPERTIES
  ImplementsLedger
  TakesView
