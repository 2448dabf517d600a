SPECIFICATION TypedefsSpec
CONSTANTS
  TypeNames <- MCNames
  LettersOf <- MCLetters
  NoName = ""
  MaxBrackets = 4
INVARIANTS
  TypedefsTypeOK
  FlagMatchesStack
  
CHECK_DEADLOCK FALSE
