----------------------------- MODULE MCBuilder -----------------------------
(* Builder for TLC, and Canvas over two agents of one role and a task.     *)
EXTENDS Builder

MCNodes == {"agent-1", "agent-2", "task-1"}
MCKind(n) == IF n = "task-1" THEN "task" ELSE "analyst"
MCTemplates == {[nodes |-> {"agent-1", "task-1"}, edges |-> {<<"agent-1", "task-1">>}]}

C == INSTANCE Canvas WITH Nodes <- MCNodes, Kind <- MCKind, Task <- "task",
                          CrewTemplates <- MCTemplates

ASSUME MCCanvas == C!GesturesSound /\ C!CyclesDrawn
=============================================================================
