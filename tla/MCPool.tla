------------------------------- MODULE MCPool -------------------------------
(***************************************************************************)
(* Small pools: which tasks each scenario submits, at what priority, which *)
(* of them are parked at a group or want its lock, and how it is stopped.  *)
(***************************************************************************)
EXTENDS Pool

CONSTANTS t1, t2, t3, w1, w2

\* Two tasks of one bucket and one of a lower priority.
TwoBuckets == [t \in Tasks |-> IF t = t3 THEN 3 ELSE 1]

\* Two workers and no stop: a parked task, and one that waits for a token.
Run ==
  [workers |-> {w1, w2}, tasks |-> {t1, t2, t3}, bucket |-> TwoBuckets, parked |-> {t2},
   holding |-> {t1}, locking |-> {t3}, stops |-> {}, persistent |-> FALSE, single_consumer |-> FALSE]
\* A normal stop of two workers against a parked task.
Stop ==
  [Run EXCEPT !.tasks = {t2}, !.holding = {}, !.locking = {}, !.stops = {"NORMAL"}]
\* A persistent pool, which outlives the normal stop of a submitted and a parked task and ends at the final one.
Persist ==
  [Stop EXCEPT !.workers = {w1}, !.tasks = {t1, t2}, !.stops = {"NORMAL", "FINAL"},
               !.persistent = TRUE]
\* A forced stop of a pool with one consumer, which answers the request to discard.
Force ==
  [Stop EXCEPT !.workers = {w1}, !.tasks = {t1, t2}, !.parked = {}, !.stops = {"FORCE"}, !.single_consumer = TRUE]

Pools == {Run, Stop, Persist, Force}
=============================================================================
