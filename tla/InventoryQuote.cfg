CONSTANTS
  Req = {r1, r2}
  Existing = {a}
  Sku = {k1}
  None = None
  MaxInt = 2
  Inputs <- RaceInputs
SPECIFICATION Spec
INVARIANT ConflictQuotesShortage
