CONSTANTS
  Call = {c1, c2, c3}
  Schema = {s1, s2, bad}
  Safe = {s1, s2}
  None = None
SPECIFICATION FairSpec
INVARIANTS IInv NoOrphan OnePoolPerSchema NoStaleRejection OwnSchema
PROPERTIES CallsSettle ShutdownEnds
