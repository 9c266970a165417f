CONSTANTS
  Req = {r1, r2, r3}
  Existing = {a, b}
  Vin = {v1, v2, v3}
  None = None
  Null = Null
  Inputs <- AllInputs
SPECIFICATION Spec
SYMMETRY Symmetry
INVARIANTS IInv ReferencesHold VinUnique RepliesMatchRows
PROPERTY RefusalsExplained
