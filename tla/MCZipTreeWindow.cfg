SPECIFICATION Spec
CONSTANTS
  Elems = {1, 2, 3, 4}
  Times = {1, 2}
  Null = 0
  Unset = 0
INVARIANT WindowIsSearched
CHECK_DEADLOCK FALSE
