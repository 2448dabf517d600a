SPECIFICATION Spec
CONSTANT
  Lines <- MCLines
INVARIANT
  InStep
PROPERTY
  StripsLikeC
