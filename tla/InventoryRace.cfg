CONSTANTS
  Req = {r1, r2, r3}
  Existing = {a, b}
  Sku = {k1}
  None = None
  MaxInt = 2
  Inputs <- RaceInputs
SPECIFICATION Spec
SYMMETRY Symmetry
INVARIANTS TypeOK Balanced RefusedLeavesNoTrace Transactions LinesDone RepliesMatchHistory ConflictsOnlyOut
PROPERTY LedgerSpec
