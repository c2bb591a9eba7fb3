CONSTANTS
  Locs = {a, b}
  NPorts = 2
  NSources = 2
  Saved0 = {a}
  MaxBacklog = 1
  MaxCommands = 1
SPECIFICATION Spec
INVARIANT RowPortAgrees
INVARIANT HeldRowsExist
