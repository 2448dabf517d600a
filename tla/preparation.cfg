SPECIFICATION Spec
CONSTANTS
  Blank = " "
  Quote <- MCQuote
  Directive = "#"
  Forbidden = {";"}
  Disks <- MCDisks
  Objects = {"a", "b"}
  NoPath = NoPath
INVARIANTS
  TypeOK
  PreparedLikeC
  LinesAlike
  
