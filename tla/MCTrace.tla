------------------------------- MODULE MCTrace -------------------------------
(* Small instances of Trace: two threads and the thread of the pool Trace.    *)
EXTENDS Trace, TLC

CONSTANTS t1, t2

Do(do, reaction) == [do |-> do, reaction |-> reaction]
Emits(r) == Do("emit", r)
Starts(r) == Do("start", r)
Finishes == [do |-> "finish"]
Begins(logs) == [do |-> "BeginTrace", logs |-> logs]
Ends == [do |-> "EndTrace", logs |-> FALSE]
Logs(level, body, size) == [do |-> "log", level |-> level, body |-> body, size |-> size]
Shuts == [do |-> "shutdown"]

Levelled(display, min) == [display |-> display, min |-> min]
Warnings == Levelled("WARN", "ERROR")

\* A trace of nested tasks; one logs, and not what is below its levels.
Nested == [levels |-> Warnings, script |-> (
  t1 :> <<Begins(TRUE), Emits("a"), Emits("b"), Starts("a"), Starts("b"), Logs("WARN", "x", 10), Logs("INFO", "y", 10), Finishes>> @@
  t2 :> <<>>)]

\* Two threads log, one of them outside of any task.
Logging == [levels |-> Warnings, script |-> (
  t1 :> <<Begins(TRUE), Emits("a"), Starts("a"), Logs("ERROR", "x", 10)>> @@
  t2 :> <<Logs("TRACE", "x", 10)>>)]

\* Tasks of two threads that have started when the trace begins, and a message as
\* long as a packet can be.
Midway == [levels |-> Levelled("FATAL", "INFO"), script |-> (
  t1 :> <<Emits("a"), Emits("b"), Starts("a"), Begins(TRUE), Logs("INFO", "long", 16369), Logs("DEBUG", "y", 10), Finishes>> @@
  t2 :> <<Starts("b"), Finishes>>)]

\* A trace without logs that ends while a task runs.
Ending == [levels |-> Warnings, script |-> (
  t1 :> <<Begins(FALSE), Emits("a"), Ends>> @@
  t2 :> <<Starts("a"), Logs("ERROR", "x", 10), Finishes>>)]

\* A message longer than a packet can be.
Long == [levels |-> Warnings, script |-> (
  t1 :> <<Begins(TRUE), Logs("ERROR", "long", 16370), Logs("ERROR", "x", 10)>> @@
  t2 :> <<>>)]

\* A trace after a trace, which goes on or has ended, while a task of another thread runs.
Twice == [levels |-> Warnings, script |-> (
  t1 :> <<Begins(TRUE), Emits("a"), Begins(TRUE)>> @@
  t2 :> <<Starts("a"), Logs("ERROR", "x", 10), Finishes>>)]
Reopened == [levels |-> Warnings, script |-> (
  t1 :> <<Begins(FALSE), Emits("a"), Starts("a"), Ends, Begins(FALSE), Finishes>> @@
  t2 :> <<>>)]

\* Tasks that run on while the power plant shuts down.
Stopping == [levels |-> Warnings, script |-> (
  t1 :> <<Begins(TRUE), Emits("a"), Shuts>> @@
  t2 :> <<Starts("a"), Logs("FATAL", "x", 10), Finishes>>)]

MCScenarios == {Nested, Logging, Midway, Ending, Long, Twice, Reopened, Stopping}
==============================================================================
