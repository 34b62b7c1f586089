\* Buffers, nested inline emits, Last and With, Once, Always and traced tasks.
CONSTANTS
  T = T
  U = U
  Event = Event
  Types = {T, U, Event}
  a = a
  b = b
  c = c
  Reactions = {a, b, c}
  e1 = e1
  e2 = e2
  w1 = w1
  w2 = w2
  Threads = {e1, e2, w1, w2}
  Scenarios <- MCScenarios
SPECIFICATION Spec
INVARIANTS Accounting RightMessages InScope EventsAreSilent SentencesFit
PROPERTIES EmissionsSettle AlwaysGoesOn
