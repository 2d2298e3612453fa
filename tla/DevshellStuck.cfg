SPECIFICATION ShellSpec
CONSTANTS
  Slots = {c1}
  Jobs = {b1}
  MaxEdits = 0
  MaxAsks = 2
  Nobody = Nobody
INVARIANTS WaitersWoken
CHECK_DEADLOCK FALSE
