SPECIFICATION Spec
CONSTANTS
  t1 = t1
  t2 = t2
  Tracer = Tracer
  Threads = {t1, t2}
  Scenarios <- MCScenarios
INVARIANTS Readable Faithful
PROPERTIES TraceSettles
