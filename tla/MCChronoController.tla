-------------------------- MODULE MCChronoController --------------------------
(* Small instances of ChronoController: three jobs. *)
EXTENDS ChronoController, TLC

CONSTANTS a, b, c

Still == [kind |-> [j \in Jobs |-> "none"], period |-> [j \in Jobs |-> 1], unbinds |-> {}, services |-> 0,
          travels |-> <<>>, reads |-> FALSE, shutdown |-> FALSE, keyed |-> TRUE, binds |-> 1, until |-> 0]
Do(kinds, periods) == [Still EXCEPT !.kind = kinds @@ @, !.period = periods @@ @]
To(type, target, rtf) == [type |-> type, target |-> target, rtf |-> rtf]

\* Two repeated tasks and a delayed emit, of which one is unbound.
Timers == [Do(a :> "every" @@ b :> "every" @@ c :> "delay", a :> 3 @@ b :> 2 @@ c :> 3)
             EXCEPT !.unbinds = {b}, !.until = 6]
\* A watchdog that is serviced, unbound while its task may run, and an Every.
Dog == [Do(a :> "watchdog" @@ b :> "every", a :> 2 @@ b :> 3)
          EXCEPT !.unbinds = {a}, !.services = 1, !.until = 5]
\* Two watchdogs of one group without a key: one is unbound, the other goes on.
Two == [Do(a :> "watchdog" @@ c :> "watchdog", a :> 2 @@ c :> 3)
          EXCEPT !.unbinds = {a}, !.keyed = FALSE, !.until = 4]
\* A watchdog nobody unbinds.
Guard == [Do(a :> "watchdog", a :> 2) EXCEPT !.services = 2, !.until = 6]
\* Travels: the clock stops and runs again, twice as fast.
Jumps == [Do(a :> "every" @@ c :> "delay", a :> 3 @@ c :> 4)
            EXCEPT !.travels = <<To("RELATIVE", 6, 0), To("RELATIVE", 5, 2)>>, !.until = 4]
Nears == [Do(a :> "every" @@ c :> "delay", a :> 3 @@ c :> 4)
            EXCEPT !.travels = <<To("NEAREST", 9, 1), To("ABSOLUTE", 8, 2)>>, !.binds = 0, !.until = 4]
\* A thread reads the clock while it is adjusted twice.
Reads == [Still EXCEPT !.travels = <<To("ADJUST", 5, 0), To("ADJUST", 3, 2)>>, !.reads = TRUE, !.until = 2]
\* The power plant shuts down while tasks come.
Stops == [Do(b :> "delay" @@ c :> "delay", b :> 1 @@ c :> 2) EXCEPT !.shutdown = TRUE, !.until = 4]

MCScenarios == {Timers, Dog, Two, Guard, Jumps, Nears, Reads, Stops}
=============================================================================
