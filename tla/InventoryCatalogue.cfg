CONSTANTS
  Req = {r1, r2, r3}
  Existing = {a}
  Sku = {k1, k2}
  None = None
  MaxInt = 1
  Inputs <- CatalogueInputs
SPECIFICATION Spec
SYMMETRY Symmetry
INVARIANTS IInv RepliesMatchHistory
