SPECIFICATION Spec
CONSTANTS
  OperatorFields = {a, b, s}
  Sticky = {s}
  ForeignFields = {x}
  Values = {v, w}
  None = None
  v = v  w = w
  a = a  b = b  s = s  x = x
  DirectEdits = FALSE
  MaxEdits = 3
  MaxForeign = 1
INVARIANTS RemovedFieldsGone
SYMMETRY Symmetry
