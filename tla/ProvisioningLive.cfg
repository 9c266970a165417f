CONSTANTS
  Req = {r1, r2, r3}
  Email = {e1}
  MaxRelease = 1
  MaxFailures = 1
  None = None
SPECIFICATION FairSpec
PROPERTIES EveryRequestAnswered RetryRecovers
