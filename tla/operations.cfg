\* Five days of backups under a 1-daily, 1-weekly rule; two tasks at the kill
\* switch; two validations over two signing keys; requests over two
\* allowed hosts and one that is not.
SPECIFICATION OperationsSpec
CONSTANTS
  Daily = 1
  Weekly = 1
  WeekDays = 2
  DayTicks = 2
  MaxDeletes = 1
  DryModes = {TRUE, FALSE}
  MaxTick = 8
  FreshTicks = 3
  Askers = {a1, a2}
  SwitchWindow = 2
  MaxClock = 4
  Validations = {v1, v2}
  SigningKeys = {k1, k2}
  KeyWindow = 2
  MaxTime = 3
  Names <- MCNames
  Addresses = {1, 2, 3, 4}
  Domain <- MCDomain
  PersonalDomains = {"mail"}
  MaxAttendees = 2
  MaxLines = 2
  NoText = NoText
  Missing = Missing
  Unknown = Unknown
  Individual = Individual
  Hosts = {h1, h2, h3}
  Allowlist = {h1, h2}
  MaxTries = 3
  MaxRedirects = 5
INVARIANTS
  PageTypeOK
  RestorePoints
  ReportsAreTrue
  HealthMeansBackup
  PageIsCoherent
  RequiredFieldsFilled
  SwitchNotStale
  PublishedKeysKnown
  CarriedOutOnce
  RequestBounded
PROPERTIES
  SamePersonAgain
  RetiredKeysExpire
  ImplementsView
