SPECIFICATION Spec
CONSTANTS
  Blank = " "
  Quote <- MCQuote
  Directive = "#"
  Forbidden = {";"}
  Disks <- TwoFiles
  Objects = {"a", "b"}
  NoPath = NoPath
INVARIANTS
  OverloadsAgree
