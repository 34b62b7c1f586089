---------------------------- MODULE MCPowerPlant ----------------------------
(* Small instances of PowerPlant: the main pool, the default pool d with two  *)
(* workers or one, a pool a with a single worker, and one thread outside.     *)
EXTENDS PowerPlant, TLC

Submit(t) == <<"submit", t>>
Stop(type) == <<"shutdown", type>>

Plain ==
  [workers |-> ("main" :> {"main"} @@ "d" :> {"d1", "d2"} @@ "a" :> {"a1"}),
   counts |-> {"main", "d", "a"}, persistent |-> {}, single |-> {"main", "a"},
   sync |-> {}, low |-> {"s"}, shutdown |-> {"s"},
   home |-> [t \in Tasks |-> CASE t \in {"t", "i", "s"} -> "d" [] t = "u" -> "main" [] OTHER -> "a"],
   body |-> [t \in Tasks |-> <<>>], setup |-> <<>>, outside |-> [th \in Threads |-> <<>>]]

\* A chain of tasks over three pools, the last of which shuts down.
Chain == [Plain EXCEPT !.setup = <<Submit("t")>>, !.body["t"] = <<Submit("v"), Submit("u")>>,
                       !.body["u"] = <<Stop("NORMAL")>>]
\* A reaction to Startup shuts down.
AtOnce == [Plain EXCEPT !.setup = <<Submit("t"), Stop("NORMAL"), Submit("u")>>]
\* The test harness: when nothing is left to do, shut down.
Idle == [Plain EXCEPT !.setup = <<<<"bindall", "i">>, Submit("u")>>, !.body["u"] = <<Submit("v")>>,
                      !.workers["d"] = {"d1"}, !.body["i"] = <<<<"unbindall", "i">>, Stop("NORMAL")>>]
\* The same, bound from outside when everyone may be idle.
LateIdle == [Plain EXCEPT !.setup = <<Submit("u")>>, !.body["i"] = <<Stop("NORMAL")>>, !.home["i"] = "main",
                          !.outside["o"] = <<<<"bindall", "i">>>>]
\* The idle reaction of one pool, which a task of a Sync group waits for.
LocalIdle == [Plain EXCEPT !.setup = <<<<"bind", "i", "a">>, Submit("t")>>, !.sync = {"u", "v"},
                           !.workers["d"] = {"d1"}, !.body["t"] = <<Submit("u"), Submit("v")>>,
                           !.home["i"] = "main", !.home["u"] = "d", !.body["i"] = <<<<"unbind", "i", "a">>, Stop("NORMAL")>>]
\* Two pools share a Sync group, and the system is idle at the end.
Synced == [Plain EXCEPT !.setup = <<<<"bindall", "i">>, Submit("u"), Submit("v")>>, !.sync = {"u", "v"},
                        !.home["i"] = "main", !.body["i"] = <<Stop("NORMAL")>>]
\* A persistent pool that does not count, used to the last.
Lasting == [Plain EXCEPT !.persistent = {"a"}, !.counts = {"main", "d"}, !.setup = <<Submit("u")>>,
                         !.workers["d"] = {"d1"},
                         !.body["u"] = <<Stop("NORMAL")>>, !.body["s"] = <<Submit("v")>>]
\* Two calls of shutdown, one from outside.
Twice == [Plain EXCEPT !.setup = <<Submit("t")>>, !.body["t"] = <<Stop("NORMAL")>>,
                       !.workers["d"] = {"d1"}, !.outside["o"] = <<Stop("NORMAL")>>]
\* A forced one, while a single consumer has work.
Forced == [Plain EXCEPT !.setup = <<Submit("v"), Submit("u")>>, !.body["v"] = <<Submit("u")>>,
                        !.workers["d"] = {"d1"}, !.outside["o"] = <<Stop("FORCE")>>]
\* A pool is first used when the system may be shutting down.
LatePool == [Plain EXCEPT !.setup = <<Submit("u")>>, !.body["u"] = <<Submit("t"), Submit("v")>>,
                          !.shutdown = {}, !.workers["d"] = {"d1"}, !.outside["o"] = <<Stop("NORMAL")>>]

\* A persistent pool, and a second call of shutdown that may come to stop it when
\* it has been stopped for good: not in MCScenarios, see the README.
LateStop == [Plain EXCEPT !.persistent = {"a"}, !.counts = {"main", "d"}, !.setup = <<Submit("u"), Submit("v")>>,
                          !.workers["d"] = {"d1"}, !.body["u"] = <<Stop("NORMAL")>>,
                          !.outside["o"] = <<Stop("NORMAL")>>]

MCScenarios == {Chain, AtOnce, Idle, LateIdle, LocalIdle, Synced, Lasting, Twice, Forced, LatePool}
=============================================================================
