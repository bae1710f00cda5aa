\* Nothing goes wrong but smoke, and no scheduled script overlaps.
SPECIFICATION DeploySpec
CONSTANTS
  Releases = {r1, r2}
  Scheduled = {j1}
  Faults = {}
INVARIANT
  FailedDeployRestores
