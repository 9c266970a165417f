CONSTANTS
  Call = {c1, c2}
  Schema = {s1}
  Safe = {s1}
  None = None
SPECIFICATION Spec
INVARIANT NoPoolAfterShutdown
