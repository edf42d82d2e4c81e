SPECIFICATION Spec
CONSTANTS
  Identities = {a, b, c, d, e}
  Capacity = 4
INVARIANTS ListSafety
PROPERTIES ImplementsMap
