\* One run, two events, three edits; no crash.
SPECIFICATION BookingSpec
CONSTANTS
  Runs = {r1}
  Keys = {k1, k2}
  PerRun = 2
  PerDay = 2
  DryModes = {FALSE}
  SwitchValues = {}
  DbReplies = {"done"}
  MaxDay = 0
  MaxApplied = 1
  Starts = {1, 2}
  Kinds = {"review"}
  CalendarReplies = {"page"}
  PageSizes = {1}
  MaxPages = 2
  MaxCursorEvents = 2
  Leaving = {}
  MaxChanges = 4
  MaxCrashes = 0
  r1 = r1
  k1 = k1
  k2 = k2
INVARIANT
  PassedBookingsCurrent
