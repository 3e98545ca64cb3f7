SPECIFICATION Spec
CONSTANTS
  NParts = 2
  Lenovo = 2
  MaxNum = 3
  Times = {1, 2}
  MaxEntries = 3
INVARIANT
  NewestFirst
