CONSTANTS
  r1 = r1
  r2 = r2
  Reactions <- Two
  Fds = {5, 6}
  Scenarios <- Runs
SPECIFICATION Spec
INVARIANTS TasksOK NotDeaf DroppedOnlyAtEof
PROPERTIES IOSettles
