CONSTANTS
  Req = {r1, r2}
  Email = {e1}
  MaxRelease = 2
  MaxFailures = 2
  None = None
SPECIFICATION Spec
INVARIANT ReadyIsMigrated
