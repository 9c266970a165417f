CONSTANTS
  Prefix <- ShortPrefix
  Default <- ShortDefault
  Suffix <- ShortSuffix
  SlugMax = 3
  NameMax = 7
  MaxRead = 6
SPECIFICATION Spec
CHECK_DEADLOCK FALSE
INVARIANTS GeneratedIsSafe SlugIsReadable
