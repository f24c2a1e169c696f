\* Three entries, two heads, one loop at a time.
SPECIFICATION Spec
CONSTANTS
  a = a
  b = b
  c = c
  d = d
  s = s
  t = t
  Nodes = {a, b, c}
  Heads = {s, t}
  LIST_POISON1 = LIST_POISON1
  LIST_POISON2 = LIST_POISON2
SYMMETRY Symmetric
INVARIANTS
  TypeOK
  WellLinked
  OnOneList
  WalkSeesAll
PROPERTIES
  ImplementsLists
