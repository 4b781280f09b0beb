\* The same tables: the assertion.
SPECIFICATION HashSpec
CONSTANTS
  Keys = {0, 1, 2, 3, 4, 8, 12, 16}
  Prime = 1048583
  MinTable = 4
  None = None
INVARIANT
  EntryFound
CHECK_DEADLOCK FALSE
