\* Two events, three edits, lost tokens, time, listings of two pages, a cursor of
\* one; no crash.
SPECIFICATION BookingFairSpec
CONSTANTS
  Runs = {r1}
  Keys = {k1, k2}
  PerRun = 2
  PerDay = 2
  DryModes = {FALSE}
  SwitchValues = {}
  DbReplies = {"done"}
  MaxDay = 0
  MaxApplied = 1
  Starts = {1, 2}
  Kinds = {"review", "broken"}
  CalendarReplies = {"page", "gone"}
  PageSizes = {1}
  MaxPages = 2
  MaxCursorEvents = 1
  Leaving = {1}
  MaxChanges = 4
  MaxCrashes = 0
  r1 = r1
  k1 = k1
  k2 = k2
INVARIANT
  CursorMatchesCalendar
PROPERTIES
  CursorKeepsGround
  BookingsClaimed
