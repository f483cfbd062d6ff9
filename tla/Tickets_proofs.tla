--------------------------- MODULE Tickets_proofs ---------------------------
(***************************************************************************)
(* Theorems about Tickets, for every number of requests and faults.        *)
(***************************************************************************)
EXTENDS Tickets, FiniteSetTheorems, TLAPS

\* A database request moves one handler, in its turn.
LEMMA RequestEffect ==
    ASSUME TypeOK, NEW c \in Callers, NEW from, NEW to \in Labels, NEW reply,
           Request(c, from, to, reply)
    PROVE  /\ pc[c] = from
           /\ pc' \in [Callers -> Labels]
           /\ pc'[c] \in {to, "error"}
           /\ \A e \in Callers \ {c} : pc'[e] = pc[e]
           /\ OneWorker => \A e \in Callers \ {c} : pc[e] \notin MidTurn
           /\ faults' \in 0..MaxFaults
           /\ reply = "ok" => pc'[c] = to
<1>1. "error" \in Labels  BY DEF Labels, EndLabels
<1>2. faults' \in 0..MaxFaults
  BY BoundAssumption DEF Request, Fault, TypeOK
<1>3. QED BY <1>1, <1>2 DEF Request, Turn, TypeOK

\* Every step of a handler preserves the types.
LEMMA HandleTyped ==
    ASSUME TypeOK, NEW c \in Callers, Handle(c)
    PROVE  TypeOK'
<1>1. ticket.status \in Statuses \union {"none", "deleted"}
  BY DEF TypeOK
<1>2. CASE Select(c)
  BY <1>2, RequestEffect DEF Select, TypeOK, Labels, EndLabels
<1>3. CASE Progress(c)
  <2>1. "flow" \in Labels  BY DEF Labels
  <2>2. byHand' \in BOOLEAN  BY <1>3 DEF Progress, Update, TypeOK
  <2>3. ticket' \in [status : Statuses \union {"none", "deleted"},
                     notes : SUBSET Authors, task : Callers \union {None}]
    BY <1>3 DEF Progress, Update, TypeOK, Statuses
  <2>4. QED BY <1>3, <2>1, <2>2, <2>3, RequestEffect DEF Progress, TypeOK
<1>4. CASE FlowEnds(c)
  BY <1>4 DEF FlowEnds, TypeOK, Labels
<1>5. CASE NoteSelect(c)
  <2>1. "note_update" \in Labels  BY DEF Labels
  <2>2. read' \in [Callers -> SUBSET Authors]  BY <1>5 DEF NoteSelect, TypeOK
  <2>3. QED BY <1>5, <2>1, <2>2, RequestEffect DEF NoteSelect, TypeOK
<1>6. CASE NoteUpdate(c)
  <2>1. "error" \in Labels  BY DEF Labels, EndLabels
  <2>2. /\ read[c] \union {c} \in SUBSET Authors
        /\ (IF TaskOf(c) = None THEN ticket.task ELSE c) \in Callers \union {None}
    BY DEF TypeOK, Authors
  <2> DEFINE row == [ticket EXCEPT !.status = "blocked", !.notes = read[c] \union {c},
                                   !.task = IF TaskOf(c) = None THEN @ ELSE c]
  <2>4. row \in [status : Statuses \union {"none", "deleted"},
                 notes : SUBSET Authors, task : Callers \union {None}]
    BY <2>2 DEF TypeOK, Statuses
  <2>5. ticket' \in {ticket, row}  BY <1>6 DEF NoteUpdate, Update
  <2>6. ticket' \in [status : Statuses \union {"none", "deleted"},
                     notes : SUBSET Authors, task : Callers \union {None}]
    BY <2>4, <2>5 DEF TypeOK
  <2> HIDE DEF row
  <2>7. byHand' \in BOOLEAN  BY <1>6 DEF NoteUpdate, Update, TypeOK
  <2>8. QED BY <1>6, <2>1, <2>6, <2>7, RequestEffect DEF NoteUpdate, TypeOK
<1>7. CASE DoneUpdate(c)
  <2>1. "reread" \in Labels  BY DEF Labels
  <2>2. TaskOf(c) \in Callers \union {None}  BY DEF TaskOf
  <2>3. ticket' \in [status : Statuses \union {"none", "deleted"},
                     notes : SUBSET Authors, task : Callers \union {None}]
    BY <1>7, <2>2 DEF DoneUpdate, Update, TypeOK, Statuses
  <2>4. byHand' \in BOOLEAN  BY <1>7 DEF DoneUpdate, Update, TypeOK
  <2>5. QED BY <1>7, <2>1, <2>3, <2>4, RequestEffect DEF DoneUpdate, TypeOK
<1>8. CASE Reread(c)
  <2>1. "ok" \in Labels  BY DEF Labels, EndLabels
  <2>2. QED BY <1>8, <2>1, RequestEffect DEF Reread, TypeOK
<1>9. CASE Patch(c)
  <2>1. {"ok", "refused"} \subseteq Labels  BY DEF Labels, EndLabels
  <2>2. /\ (IF body[c].status = None THEN ticket.status ELSE body[c].status)
               \in Statuses \union {"none", "deleted"}
        /\ (IF body[c].notes THEN {None} ELSE ticket.notes) \in SUBSET Authors
    BY PatchAssumption DEF TypeOK, Bodies, NoBody, Authors
  <2>3. ticket' \in [status : Statuses \union {"none", "deleted"},
                     notes : SUBSET Authors, task : Callers \union {None}]
    BY <1>9, <2>2 DEF Patch, Update, TypeOK
  <2>4. patched' \in BOOLEAN  BY <1>9 DEF Patch
  <2>5. byHand' \in BOOLEAN  BY <1>9 DEF Patch, Update, TypeOK
  <2>6. QED BY <1>9, <2>1, <2>3, <2>4, <2>5, RequestEffect DEF Patch, TypeOK
<1>10. CASE Check(c)
  <2>1. {"delete", "refused"} \subseteq Labels  BY DEF Labels, EndLabels
  <2>2. QED BY <1>10, <2>1, RequestEffect DEF Check, TypeOK
<1>11. CASE Delete(c)
  <2>1. "ok" \in Labels  BY DEF Labels, EndLabels
  <2>2. ticket' \in [status : Statuses \union {"none", "deleted"},
                     notes : SUBSET Authors, task : Callers \union {None}]
    BY <1>11 DEF Delete, Update, TypeOK
  <2>3. byHand' \in BOOLEAN  BY <1>11 DEF Delete, Update, TypeOK
  <2>4. QED BY <1>11, <2>1, <2>2, <2>3, RequestEffect DEF Delete, TypeOK
<1>12. QED BY <1>2, <1>3, <1>4, <1>5, <1>6, <1>7, <1>8, <1>9, <1>10, <1>11 DEF Handle

\* A step of handler c, by the label it starts from: where it goes, and what
\* becomes of the status and of `patched`.
Moves(c) ==
    \/ /\ pc[c] \in {"select", "note_select", "reread", "check"}
       /\ ticket' = ticket /\ patched' = patched
       /\ pc'[c] = "progress" => Executable
       /\ pc'[c] \in {"progress", "note_update", "delete"} \union EndLabels
       /\ pc'[c] = "note_update" => pc[c] = "note_select"
    \/ /\ pc[c] = "progress"
       /\ patched' = patched
       /\ pc'[c] \in {"flow", "error"}
       /\ ticket'.status \in {ticket.status, "in_progress"}
       /\ ~ Exists => ticket' = ticket
       /\ pc'[c] = "flow" /\ Exists => ticket'.status = "in_progress"
    \/ /\ pc[c] = "flow"
       /\ ticket' = ticket /\ patched' = patched
       /\ pc'[c] \in {"note_select", "done_update"}
    \/ /\ pc[c] \in {"note_update", "done_update"}
       /\ patched' = patched
       /\ pc'[c] \in {"reread", "error"}
       /\ ~ Exists => ticket' = ticket
       /\ ticket'.status \in {ticket.status, "blocked", "done"}
    \/ /\ pc[c] = "patch"
       /\ pc'[c] \in EndLabels
       /\ ~ Exists => ticket' = ticket
       /\ ticket'.status = "none" => ticket.status = "none"
       /\ patched => patched'
       /\ ~ patched' => ticket'.status = ticket.status
    \/ /\ pc[c] = "delete"
       /\ pc'[c] \in EndLabels
       /\ patched' = patched
       /\ ticket'.status \in {ticket.status, "deleted"}

\* These are all the ways.
LEMMA HandleMoves ==
    ASSUME TypeOK, NEW c \in Callers, Handle(c)
    PROVE  /\ Moves(c)
           /\ \A e \in Callers \ {c} : pc'[e] = pc[e]
           /\ OneWorker => \A e \in Callers \ {c} : pc[e] \notin MidTurn
<1>1. {"select", "progress", "flow", "note_select", "note_update", "done_update", "reread",
       "patch", "check", "delete", "ok", "error", "refused"} \subseteq Labels
  BY DEF Labels, EndLabels
<1>2. CASE Select(c) \/ Reread(c) \/ Check(c)
  BY <1>1, <1>2, RequestEffect DEF Select, Reread, Check, Moves, EndLabels
<1>3. CASE NoteSelect(c)
  BY <1>1, <1>3, RequestEffect DEF NoteSelect, Moves, EndLabels
<1>4. CASE Progress(c)
  <2>1. ticket \in [status : Statuses \union {"none", "deleted"},
                    notes : SUBSET Authors, task : Callers \union {None}]
    BY DEF TypeOK
  <2>2. PICK reply \in Replies :
          /\ Request(c, "progress", "flow", reply)
          /\ Update([ticket EXCEPT !.status = "in_progress"], reply, FALSE)
          /\ UNCHANGED <<body, read, runs, patched>>
    BY <1>4 DEF Progress
  <2>3. /\ ticket'.status \in {ticket.status, "in_progress"}
        /\ ~ Exists => ticket' = ticket
        /\ reply # "refused" /\ Exists => ticket'.status = "in_progress"
    BY <2>1, <2>2 DEF Update
  <2>4. pc'[c] = "flow" => reply = "ok"
    BY <2>2 DEF Request, TypeOK
  <2>5. QED BY <1>1, <2>2, <2>3, <2>4, RequestEffect DEF Moves
<1>5. CASE FlowEnds(c)
  BY <1>5 DEF FlowEnds, Turn, TypeOK, Moves
<1>6. CASE NoteUpdate(c) \/ DoneUpdate(c)
  <2>1. /\ ticket'.status \in {ticket.status, "blocked", "done"}
        /\ ~ Exists => ticket' = ticket
    BY <1>6 DEF NoteUpdate, DoneUpdate, Update, TypeOK
  <2>2. QED BY <1>1, <1>6, <2>1, RequestEffect DEF NoteUpdate, DoneUpdate, Moves
<1>7. CASE Patch(c)
  <2>1. PICK reply \in Replies :
          /\ Request(c, "patch", IF Exists THEN "ok" ELSE "refused", reply)
          /\ Update([ticket EXCEPT
                        !.status = IF body[c].status = None THEN @ ELSE body[c].status,
                        !.notes  = IF body[c].notes THEN {None} ELSE @],
                    reply, byHand \/ body[c].status # None)
          /\ patched' = (patched \/ (reply # "refused" /\ body[c].status # None))
    BY <1>7 DEF Patch
  <2>2. body[c].status # None => body[c].status \in Statuses
    BY PatchAssumption DEF TypeOK, Bodies, NoBody
  <2>3. /\ ~ Exists => ticket' = ticket
        /\ ticket'.status \in {ticket.status, body[c].status}
        /\ body[c].status = None \/ reply = "refused" => ticket'.status = ticket.status
    BY <2>1 DEF Update, TypeOK
  <2>4. "none" \notin Statuses  BY DEF Statuses
  <2>5. ticket'.status = "none" => ticket.status = "none"
    BY <2>2, <2>3, <2>4
  <2>6. /\ patched => patched'
        /\ ~ patched' => ticket'.status = ticket.status
    BY <2>1, <2>3
  <2>7. QED BY <1>1, <2>1, <2>3, <2>5, <2>6, RequestEffect DEF Moves, EndLabels
<1>8. CASE Delete(c)
  <2>1. ticket'.status \in {ticket.status, "deleted"}
    BY <1>8 DEF Delete, Update, TypeOK
  <2>2. QED BY <1>1, <1>8, <2>1, RequestEffect DEF Delete, Moves, EndLabels
<1>9. QED BY <1>2, <1>3, <1>4, <1>5, <1>6, <1>7, <1>8 DEF Handle

\* A step of a handler preserves the invariant.
LEMMA HandleKeeps ==
    ASSUME TypeOK, TurnInv, ExecutionInv, NEW c \in Callers, Handle(c)
    PROVE  TurnInv' /\ ExecutionInv'
<1>1. /\ Moves(c)
      /\ \A e \in Callers \ {c} : pc'[e] = pc[e]
      /\ OneWorker => \A e \in Callers \ {c} : pc[e] \notin MidTurn
  BY HandleMoves
<1>2. ticket.status # "none"
  BY <1>1 DEF TurnInv, Moves
<1>3. TurnInv'
  <2>1. ticket'.status # "none"  BY <1>1, <1>2 DEF Moves, Exists
  <2>2. QED BY <1>1, <2>1 DEF TurnInv
<1>4. ExecutionInv'
  <2> SUFFICES ASSUME OneWorker, ~ patched', NEW x \in Callers, InFlight(x)'
               PROVE  /\ ticket'.status \in {"in_progress", "deleted"}
                      /\ \A e \in Callers \ {x} : ~ InFlight(e)' /\ pc'[e] # "progress"
    BY DEF ExecutionInv
  <2>1. ~ patched  BY <1>1 DEF Moves
  <2>2. CASE x = c
    <3>1. CASE pc[c] = "progress"
      <4>1. ticket'.status \in {"in_progress", "deleted"}
        BY <1>1, <1>2, <2>2, <3>1 DEF Moves, InFlight, EndLabels, Exists
      <4>2. \A e \in Callers \ {c} : ~ InFlight(e) /\ pc[e] # "progress"
        BY <1>1, <2>1, <3>1 DEF ExecutionInv, MidTurn
      <4>3. QED BY <1>1, <2>2, <4>1, <4>2 DEF InFlight
    <3>2. CASE pc[c] # "progress"
      <4>1. InFlight(c)  BY <1>1, <2>2, <3>2 DEF Moves, InFlight, EndLabels
      <4>2. ticket'.status = ticket.status
        BY <1>1, <2>2, <3>2 DEF Moves, InFlight, EndLabels
      <4>3. QED BY <1>1, <2>1, <2>2, <4>1, <4>2 DEF ExecutionInv, InFlight
    <3>3. QED BY <3>1, <3>2
  <2>3. CASE x # c
    <3>1. InFlight(x)  BY <1>1, <2>3 DEF InFlight
    <3>2. /\ ticket.status \in {"in_progress", "deleted"}
          /\ \A e \in Callers \ {x} : ~ InFlight(e) /\ pc[e] # "progress"
      BY <2>1, <3>1 DEF ExecutionInv
    <3>3. ~ InFlight(c) /\ pc[c] # "progress"  BY <2>3, <3>2
    <3>4. pc[c] # "note_update"  BY <3>3 DEF InFlight
    <3>5. ~ Executable  BY <3>2 DEF Executable, Exists
    <3>6. pc'[c] # "progress" /\ ~ InFlight(c)'
      BY <1>1, <3>3, <3>5 DEF Moves, InFlight, EndLabels
    <3>7. ticket'.status \in {"in_progress", "deleted"}
      BY <1>1, <3>2, <3>3 DEF Moves, InFlight
    <3>8. QED BY <1>1, <3>2, <3>6, <3>7 DEF InFlight
  <2>4. QED BY <2>2, <2>3
<1>5. QED BY <1>3, <1>4

\* The invariant holds at the start, and every step preserves it.
LEMMA TicketsInductive ==
    /\ Init => TypeOK /\ TurnInv /\ ExecutionInv
    /\ TypeOK /\ TurnInv /\ ExecutionInv /\ [Next]_vars => (TypeOK /\ TurnInv /\ ExecutionInv)'
<1>1. Init => TypeOK /\ TurnInv /\ ExecutionInv
  <2> SUFFICES ASSUME Init  PROVE TypeOK /\ TurnInv /\ ExecutionInv
    OBVIOUS
  <2>1. pc \in [Callers -> Labels] /\ \A c \in Callers : pc[c] = "idle"
    BY DEF Init, Labels
  <2>2. ticket \in [status : Statuses \union {"none", "deleted"},
                    notes : SUBSET Authors, task : Callers \union {None}]
    BY DEF Init
  <2>3. /\ body \in [Callers -> Bodies \union {NoBody}]
        /\ read \in [Callers -> SUBSET Authors]
        /\ runs \in [Callers -> Runs]
        /\ patched \in BOOLEAN /\ byHand \in BOOLEAN /\ faults \in 0..MaxFaults
    <3>1. body \in [Callers -> Bodies \union {NoBody}]  BY DEF Init
    <3>2. read \in [Callers -> SUBSET Authors]  BY DEF Init
    <3>3. runs \in [Callers -> Runs] /\ patched \in BOOLEAN /\ byHand \in BOOLEAN  BY DEF Init, Runs
    <3>4. faults \in 0..MaxFaults  BY BoundAssumption DEF Init
    <3>5. QED BY <3>1, <3>2, <3>3, <3>4
  <2>4. TypeOK  BY <2>1, <2>2, <2>3 DEF TypeOK
  <2>5. TurnInv  BY <2>1 DEF TurnInv, MidTurn
  <2>6. ExecutionInv  BY <2>1 DEF ExecutionInv, InFlight
  <2>7. QED  BY <2>4, <2>5, <2>6
<1>2. ASSUME TypeOK, TurnInv, ExecutionInv, [Next]_vars
      PROVE  (TypeOK /\ TurnInv /\ ExecutionInv)'
  <2>1. CASE Create
    <3>1. TypeOK'  BY <1>2, <2>1 DEF Create, TypeOK, Statuses, Authors
    <3>2. \A c \in Callers : pc[c] = "idle"  BY <1>2, <2>1 DEF Create, TurnInv
    <3>3. QED BY <2>1, <3>1, <3>2 DEF Create, TurnInv, ExecutionInv, InFlight, MidTurn
  <2>2. ASSUME NEW c \in Callers, Ask(c)  PROVE (TypeOK /\ TurnInv /\ ExecutionInv)'
    <3>1. {"select", "check", "patch"} \subseteq Labels  BY DEF Labels
    <3>2. /\ pc' \in [Callers -> Labels] /\ pc'[c] \in {"select", "check", "patch"}
          /\ \A e \in Callers \ {c} : pc'[e] = pc[e]
          /\ ticket.status # "none"
          /\ body' \in [Callers -> Bodies \union {NoBody}]
          /\ UNCHANGED <<ticket, read, runs, patched, byHand, faults>>
      BY <1>2, <2>2, <3>1 DEF Ask, TypeOK
    <3>3. TypeOK'  BY <1>2, <3>2 DEF TypeOK
    <3>4. TurnInv'  BY <1>2, <3>2 DEF TurnInv, MidTurn
    <3>5. ExecutionInv'  BY <1>2, <3>2 DEF ExecutionInv, InFlight
    <3>6. QED BY <3>3, <3>4, <3>5
  <2>3. ASSUME NEW c \in Callers, Handle(c)  PROVE (TypeOK /\ TurnInv /\ ExecutionInv)'
    BY <1>2, <2>3, HandleTyped, HandleKeeps
  <2>4. ASSUME NEW c \in Callers, Supervise(c)  PROVE (TypeOK /\ TurnInv /\ ExecutionInv)'
    BY <1>2, <2>4 DEF Supervise, TypeOK, Runs, TurnInv, ExecutionInv, InFlight
  <2>5. ASSUME NEW dying \in SUBSET Callers, Crash(dying)
        PROVE  (TypeOK /\ TurnInv /\ ExecutionInv)'
    <3>1. "dead" \in Labels  BY DEF Labels, EndLabels
    <3>2. /\ pc' \in [Callers -> Labels]
          /\ \A c \in Callers : pc'[c] = pc[c] \/ (pc'[c] = "dead" /\ pc[c] # "idle")
          /\ UNCHANGED <<ticket, body, read, runs, patched, byHand>>
      BY <1>2, <2>5, <3>1 DEF Crash, TypeOK
    <3>3. faults' \in 0..MaxFaults  BY <1>2, <2>5, BoundAssumption DEF Crash, Fault, TypeOK
    <3>4. TypeOK'  BY <1>2, <3>2, <3>3 DEF TypeOK
    <3>5. TurnInv'  BY <1>2, <3>2 DEF TurnInv, MidTurn
    <3>6. ExecutionInv'  BY <1>2, <3>2 DEF ExecutionInv, InFlight
    <3>7. QED BY <3>4, <3>5, <3>6
  <2>6. CASE UNCHANGED vars
    BY <1>2, <2>6 DEF vars, TypeOK, TurnInv, ExecutionInv, InFlight
  <2>7. QED BY <1>2, <2>1, <2>2, <2>3, <2>4, <2>5, <2>6 DEF Next, Terminated
<1>3. QED BY <1>1, <1>2

\* With one worker, two executions of a ticket overlap only after a client has
\* written its status by hand: however many requests there are, and however
\* many fail.
THEOREM OneExecutionCorrect == Spec => []OneExecution
<1>1. ExecutionInv => OneExecution
  <2> SUFFICES ASSUME ExecutionInv, OneWorker, ~ patched
               PROVE  Cardinality({c \in Callers : InFlight(c)}) <= 1
    BY DEF OneExecution
  <2> DEFINE S == {c \in Callers : InFlight(c)}
  <2>1. S = {} \/ \E c \in Callers : S = {c}
    BY DEF ExecutionInv
  <2>2. CASE S = {}  BY <2>2, FS_EmptySet
  <2>3. ASSUME NEW c \in Callers, S = {c}  PROVE Cardinality(S) <= 1
    <3>1. Cardinality({c}) = 1  BY FS_Singleton
    <3>2. QED BY <2>3, <3>1
  <2>4. QED BY <2>1, <2>2, <2>3
<1>2. QED BY <1>1, TicketsInductive, PTL DEF Spec

\* The variables keep their types, however many requests there are, fail, or die
\* with their worker.  create_ticket to delete_ticket.
THEOREM TypeCorrect == Spec => []TypeOK
  BY TicketsInductive, PTL DEF Spec

-----------------------------------------------------------------------------
(* The notes of a ticket that one worker serves.                           *)

\* A handler about to write the notes back has read those the row has: it has kept
\* its turn since it read them.
ReadInv ==
    /\ ticket.status = "none" => ticket.notes = {}
    /\ \A c \in Callers : pc[c] = "note_update" /\ Exists => read[c] = ticket.notes

\* What a handler does to the row's notes when it is not a client's PATCH.
LEMMA HandleNotes ==
    ASSUME TypeOK, ReadInv, NEW c \in Callers, Handle(c), pc[c] # "patch"
    PROVE  ticket.notes \subseteq ticket'.notes
<1>1. ~ Patch(c)
  BY DEF Patch, Request
<1>2. CASE Progress(c)
  BY <1>2 DEF Progress, Update, TypeOK
<1>3. CASE NoteUpdate(c)
  <2>1. pc[c] = "note_update"
    BY <1>3 DEF NoteUpdate, Request
  <2>2. Exists => read[c] = ticket.notes
    BY <2>1 DEF ReadInv
  <2>3. PICK reply \in Replies :
            Update([ticket EXCEPT !.status = "blocked",
                                  !.notes = read[c] \union {c},
                                  !.task = IF TaskOf(c) = None THEN @ ELSE c], reply, FALSE)
    BY <1>3 DEF NoteUpdate
  <2>4. CASE reply # "refused" /\ Exists
    <3>1. ticket'.notes = read[c] \union {c}
      BY <2>3, <2>4 DEF Update, TypeOK
    <3>2. QED BY <2>2, <2>4, <3>1
  <2>5. CASE ~ (reply # "refused" /\ Exists)
    BY <2>3, <2>5 DEF Update
  <2>6. QED BY <2>4, <2>5
<1>4. CASE DoneUpdate(c) \/ Delete(c)
  BY <1>4 DEF DoneUpdate, Delete, Update, TypeOK
<1>5. CASE Select(c) \/ FlowEnds(c) \/ NoteSelect(c) \/ Reread(c) \/ Check(c)
  BY <1>5 DEF Select, FlowEnds, NoteSelect, Reread, Check
<1>6. QED BY <1>1, <1>2, <1>3, <1>4, <1>5 DEF Handle

LEMMA NotesStep ==
    ASSUME OneWorker, TypeOK, TurnInv, ReadInv, [Next]_vars
    PROVE  /\ ReadInv'
           /\ (\A c \in Callers : pc[c] = "patch" => pc'[c] = "patch")
                  => ticket.notes \subseteq ticket'.notes
<1>1. CASE Create
  <2>1. \A c \in Callers : pc[c] = "idle"
    BY <1>1 DEF Create, TurnInv
  <2>2. ticket.notes = {} /\ ticket'.status = "backlog" /\ pc' = pc
    BY <1>1 DEF Create, ReadInv
  <2>3. QED BY <2>1, <2>2 DEF ReadInv
<1>2. ASSUME NEW c \in Callers, Ask(c)
      PROVE  ReadInv' /\ ticket' = ticket
  <2>1. UNCHANGED <<ticket, read>> /\ \A e \in Callers : pc'[e] = "note_update" => pc[e] = "note_update"
    BY <1>2 DEF Ask, TypeOK
  <2>2. QED BY <2>1 DEF ReadInv, Exists
<1>3. ASSUME NEW c \in Callers, Handle(c)
      PROVE  /\ ReadInv'
             /\ (pc[c] = "patch" => pc'[c] = "patch") => ticket.notes \subseteq ticket'.notes
  <2>1. /\ Moves(c)
        /\ \A e \in Callers \ {c} : pc'[e] = pc[e] /\ pc[e] \notin MidTurn
    BY <1>3, HandleMoves
  <2>2. ticket'.status # "none"
    BY <2>1 DEF Moves, TurnInv, Exists
  <2>3. ASSUME pc'[c] = "note_update", Exists' PROVE read'[c] = ticket'.notes
    <3>1. pc[c] = "note_select" /\ ticket' = ticket
      BY <2>1, <2>3 DEF Moves, EndLabels
    <3>2. NoteSelect(c)
      BY <1>3, <3>1 DEF Handle, Select, Progress, FlowEnds, NoteUpdate, DoneUpdate, Reread,
                        Patch, Check, Delete, Request
    <3>3. QED BY <2>3, <3>1, <3>2 DEF NoteSelect, Exists, TypeOK
  <2>4. ReadInv'
    BY <2>1, <2>2, <2>3 DEF ReadInv, MidTurn
  <2>5. ~ (pc[c] = "patch" /\ pc'[c] = "patch")
    BY <2>1 DEF Moves, EndLabels
  <2>6. QED BY <1>3, <2>4, <2>5, HandleNotes
<1>4. ASSUME NEW c \in Callers, Supervise(c) PROVE ReadInv' /\ ticket' = ticket
  BY <1>4 DEF Supervise, ReadInv, Exists
<1>5. ASSUME NEW dying \in SUBSET Callers, Crash(dying) PROVE ReadInv' /\ ticket' = ticket
  <2>1. UNCHANGED <<ticket, read>> /\ \A e \in Callers : pc'[e] = "note_update" => pc[e] = "note_update"
    BY <1>5 DEF Crash
  <2>2. QED BY <2>1 DEF ReadInv, Exists
<1>6. CASE UNCHANGED vars
  BY <1>6 DEF vars, ReadInv, Exists
<1>7. QED BY <1>1, <1>2, <1>3, <1>4, <1>5, <1>6 DEF Next, Terminated

\* _handle_blocked_ticket "preserving existing content": with one worker, nothing but a
\* client's PATCH ever removes a note, although the notes are read in one request and
\* written in another.
THEOREM NotesKeptOnOneWorker ==
    ASSUME OneWorker
    PROVE  Spec => NotesKept
<1>1. Init => ReadInv
  BY DEF Init, ReadInv, Exists
<1>2. TypeOK /\ TurnInv /\ ReadInv /\ [Next]_vars
        => ReadInv' /\ [(\A c \in Callers : pc[c] = "patch" => pc'[c] = "patch")
                            => ticket.notes \subseteq ticket'.notes]_vars
  BY NotesStep
<1>3. QED BY <1>1, <1>2, TicketsInductive, PTL DEF Spec, NotesKept
=============================================================================
