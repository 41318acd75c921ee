SPECIFICATION Spec
CONSTANTS
  s = s
  t = t
  one = one
  two = two
  Fields = {s, t}
  Values = {one, two}
  MaxDepth = 3
  MaxConditions = 4
  MaxFilters = 3
SYMMETRY Symmetry
CHECK_DEADLOCK FALSE
INVARIANTS EachListedOnce FilterIsExact FlatteningIsSound
