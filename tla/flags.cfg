SPECIFICATION FlagsSpec
CONSTANTS
  Words <- MCWords
  Arguments <- MCArguments
INVARIANTS
  FlagsTypeOK
  AcceptsPairs
PROPERTIES
  Decides
CHECK_DEADLOCK FALSE
