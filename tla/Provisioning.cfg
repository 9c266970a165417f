CONSTANTS
  Req = {r1, r2, r3}
  Email = {e1, e2}
  MaxRelease = 2
  MaxFailures = 2
  None = None
SPECIFICATION Spec
SYMMETRY Symmetry
INVARIANTS IInv NoDanglingTenant AccountIsKept ReadyWasMigrated TokenIsUsable
PROPERTY AccountSpec
