\* A booking and a lead, called again and again, three sends a request.
SPECIFICATION FairSpec
CONSTANTS
  Bookings = {b1}
  Leads = {l1}
  NoOne = NoOne
  Attempts = 3
  MaxCopies = 2
  b1 = b1
  l1 = l1
INVARIANTS
  TypeOK
  ArtifactsOnce
  ValueMeansComplete
PROPERTY
  CallsEnd
