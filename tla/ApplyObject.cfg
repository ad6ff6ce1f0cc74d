SPECIFICATION FairSpec
CONSTANTS
  OperatorFields = {a, b, s}
  Sticky = {s}
  ForeignFields = {x}
  Values = {v, w}
  None = None
  v = v  w = w
  a = a  b = b  s = s  x = x
  DirectEdits = TRUE
  MaxEdits = 2
  MaxForeign = 1
INVARIANTS TypeOK HashMeansApplied HeldFieldsGone
PROPERTIES ForeignFieldsKept ImplementsDeclarativeObject EventuallyApplied
