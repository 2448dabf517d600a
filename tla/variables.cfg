SPECIFICATION Spec
CONSTANTS
  Letters = {"t", "x", "y"}
  Joints = {"_"}
  Blank = " "
  Close = ")"
  VarTypes <- MCVarTypes
  Files <- MCFiles
  TypedefNames <- MCTypedefNames
  NewName <- MCNewName
INVARIANTS
  TypeOK
  CollectsTheDeclared
  RemovesTheWords
  RenamingUnseen
PROPERTIES
  Returns
CHECK_DEADLOCK FALSE
