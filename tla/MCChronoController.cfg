\* Tasks of every kind, travels, a watchdog, a torn read of the clock and shutdown.
CONSTANTS
  a = a
  b = b
  c = c
  Jobs = {a, b, c}
  Scenarios <- MCScenarios
SPECIFICATION Spec
INVARIANTS OnTime Periodic ClockWhole
PROPERTIES ChronoSettles
