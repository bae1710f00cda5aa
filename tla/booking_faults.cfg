\* One event, two edits, any reply, dry or live, an operator at the switch, a crash.
SPECIFICATION BookingSpec
CONSTANTS
  Runs = {r1}
  Keys = {k1}
  PerRun = 1
  PerDay = 1
  DryModes = {TRUE, FALSE}
  SwitchValues = {TRUE, FALSE}
  DbReplies = {"done", "lost", "failed"}
  MaxDay = 0
  MaxApplied = 2
  Starts = {1, 2}
  Kinds = {"review", "broken", "other"}
  CalendarReplies = {"page", "short", "gone", "refused", "failed"}
  PageSizes = {1}
  MaxPages = 2
  MaxCursorEvents = 1
  Leaving = {1}
  MaxChanges = 3
  MaxCrashes = 1
  r1 = r1
  k1 = k1
INVARIANTS
  BookingTypeOK
  CursorCoversBookings
  CursorMatchesCalendar
PROPERTY
  CursorKeepsGround
