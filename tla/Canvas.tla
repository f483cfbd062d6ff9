------------------------------ MODULE Canvas ------------------------------
(***************************************************************************)
(* The canvas of the dashboard's agent builder, on which a crew is drawn:  *)
(* what its handlers make of a canvas, what is kept in localStorage, and   *)
(* the errors `fap crew validate` finds in a saved one.                    *)
(*                                                                         *)
(* A canvas has nodes, each of a kind it keeps: the role of an agent, or   *)
(* Task; and a set of connections.                                         *)
(***************************************************************************)
EXTENDS Naturals, FiniteSets, Relation

CONSTANTS
    Nodes,       \* identifiers of nodes
    Kind(_),     \* what a node stands for: a role, or Task
    Task,
    CrewTemplates \* the canvases of CREW_TEMPLATES

Canvases == [nodes : SUBSET Nodes, edges : SUBSET (Nodes \X Nodes)]
Empty == [nodes |-> {}, edges |-> {}]
Agents(c) == {n \in c.nodes : Kind(n) # Task}

\* onDrop and handleAddTask: a new node; the palette has the agents that are active.
Dropped(c, n) == [c EXCEPT !.nodes = @ \union {n}]

\* onConnect: only a task is told what comes before it.
Connected(c, n, m) ==
    IF {n, m} \subseteq c.nodes /\ Kind(m) = Task
    THEN [c EXCEPT !.edges = @ \union {<<n, m>>}]
    ELSE c

\* The Delete key.
Deleted(c, n) ==
    [nodes |-> c.nodes \ {n}, edges |-> {e \in c.edges : n \notin {e[1], e[2]}}]

\* handleLoadTemplate: the canvas is replaced.
Loaded(c, t) == t

\* The interval keeps what is drawn when anything is, the button always; a canvas that is
\* mounted again begins with what was kept.
Autosaved(c, kept) == IF c.nodes # {} THEN c ELSE kept
Restored(kept) == IF kept.nodes # {} THEN kept ELSE Empty

\* What one gesture makes of a canvas.
Gestures(c) ==
    {Dropped(c, n) : n \in Nodes \ c.nodes}
        \union {Connected(c, n, m) : n, m \in Nodes}
        \union {Deleted(c, n) : n \in c.nodes}
        \union {Loaded(c, t) : t \in CrewTemplates}

-----------------------------------------------------------------------------
\* The button Export, and what the dialog sends: agents that have a role.
Duplicated(c) ==
    {Kind(n) : n \in {k \in Agents(c) : \E j \in Agents(c) \ {k} : Kind(j) = Kind(k)}}
ExportEnabled(c) == Agents(c) # {} /\ Duplicated(c) = {}

\* crew.py, fap crew validate.  Roles are never missing on a canvas.
Cyclic(c) == LET reach == TransitiveClosure([n, m \in Nodes |-> <<n, m>> \in c.edges], Nodes)
             IN \E n \in Nodes : reach[n, n]

CrewErrors(c) ==
    {e \in {"duplicate", "source", "target", "cycle"} :
        CASE e = "duplicate" -> Duplicated(c) # {}
          [] e = "source"    -> \E x \in c.edges : x[1] \notin c.nodes
          [] e = "target"    -> \E x \in c.edges : x[2] \notin c.nodes
          [] e = "cycle"     -> Cyclic(c)}

-----------------------------------------------------------------------------
\* What can be wrong with a canvas, for the command line: roles that appear twice, which
\* take the Export button away, and cycles, which do not.
Sound(c) ==
    /\ CrewErrors(c) \subseteq {"duplicate", "cycle"}
    /\ ExportEnabled(c) => "duplicate" \notin CrewErrors(c)

\* Every gesture leaves a sound canvas sound, and so do a save and a visit of another tab.
GesturesSound ==
    /\ Sound(Empty)
    /\ \A c \in {k \in Canvases : Sound(k)} :
          /\ \A d \in Gestures(c) : Sound(d)
          /\ \A kept \in {Empty, c} : Sound(Restored(Autosaved(c, kept)))

\* The canvas lets through what the command line refuses: a task before itself.
CyclesDrawn == \E c \in Canvases : Sound(c) /\ ExportEnabled(c) /\ "cycle" \in CrewErrors(c)
=============================================================================
