------------------------------ MODULE MCGroup ------------------------------
(***************************************************************************)
(* Instances of Group for TLC.  Groups 1 and 2, tasks 1, 2, 3 (their ids). *)
(***************************************************************************)
EXTENDS Group

\* Sync groups.
Sync == [g \in Groups |-> 1]

\* Single-group tasks of group 1.
AllFast == [t \in Tasks |-> {1}]
\* Task 1 uses both groups, the others only group 1.
OneSlow == [t \in Tasks |-> IF t = 1 THEN {1, 2} ELSE {1}]
\* Tasks 1 and 2 use both groups, the third only group 2.
Pair == [t \in Tasks |-> IF t <= 2 THEN {1, 2} ELSE {2}]

\* All priorities the same.
NormalPriority == [t \in Tasks |-> 500]
\* The last task has a higher priority than the others.
LastHigher == [t \in Tasks |-> IF t = 3 THEN 750 ELSE 500]
=============================================================================
