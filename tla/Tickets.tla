------------------------------ MODULE Tickets ------------------------------
(***************************************************************************)
(* One ticket and the HTTP requests about it: POST /tickets, PATCH and     *)
(* DELETE /tickets/{id}, and POST /tickets/{id}/execute, which runs the    *)
(* ticket's flow inside the request and files its outcome in the row.      *)
(*                                                                         *)
(* The flow is seen from outside: it ends, fails, or pauses for approval   *)
(* (FlowHitl is its inside).  Handlers are coroutines: those of one worker *)
(* change over only where one awaits, and they await nothing but the flow; *)
(* those of several workers interleave at every database request, which is *)
(* what a label of pc names.                                               *)
(*                                                                         *)
(* Left out: titles, priorities, assignment and time stamps; reads.        *)
(***************************************************************************)
EXTENDS Naturals, FiniteSets

CONSTANTS
    Callers,        \* the requests, each of one client
    PatchStatuses,  \* the statuses clients write with PATCH
    MaxFaults,      \* bound: failed database requests and crashes
    OneWorker,      \* TRUE: one worker serves all requests
    None            \* no task, no field, or the client as an author of notes

Statuses == {"backlog", "in_progress", "blocked", "done", "cancelled"}

ASSUME CallerAssumption == None \notin Callers
ASSUME PatchAssumption  == PatchStatuses \subseteq Statuses
ASSUME BoundAssumption  == MaxFaults \in Nat
ASSUME WorkerAssumption == OneWorker \in BOOLEAN

VARIABLES
    ticket,   \* the row of tickets: status, authors of its notes, linked task
    pc,       \* the next database request of each handler
    body,     \* what each PATCH changes
    read,     \* the authors of the notes each handler has read
    runs,     \* the status of the task each execution made
    patched,  \* history: a PATCH wrote a status
    byHand,   \* history: the status there is, is one a PATCH wrote
    faults    \* faults that happened

vars == <<ticket, pc, body, read, runs, patched, byHand, faults>>

Runs    == {"none", "completed", "awaiting_approval", "failed"}
Authors == Callers \union {None}
Bodies  == {b \in [status : PatchStatuses \union {None}, notes : BOOLEAN] :
                b.status # None \/ b.notes}
NoBody  == [status |-> None, notes |-> FALSE]

EndLabels == {"ok", "error", "refused", "dead"}
Labels    == {"idle", "select", "progress", "flow", "note_select", "note_update",
              "done_update", "reread", "patch", "check", "delete"} \union EndLabels

TypeOK ==
    /\ ticket \in [status : Statuses \union {"none", "deleted"},
                   notes : SUBSET Authors, task : Callers \union {None}]
    /\ pc \in [Callers -> Labels]
    /\ body \in [Callers -> Bodies \union {NoBody}]
    /\ read \in [Callers -> SUBSET Authors]
    /\ runs \in [Callers -> Runs]
    /\ patched \in BOOLEAN
    /\ byHand \in BOOLEAN
    /\ faults \in 0..MaxFaults

Init ==
    /\ ticket = [status |-> "none", notes |-> {}, task |-> None]
    /\ pc = [c \in Callers |-> "idle"]
    /\ body = [c \in Callers |-> NoBody]
    /\ read = [c \in Callers |-> {}]
    /\ runs = [c \in Callers |-> "none"]
    /\ patched = FALSE
    /\ byHand = FALSE
    /\ faults = 0

-----------------------------------------------------------------------------
\* Database requests, each a plain execute() without retry.

Replies == {"ok", "lost", "refused"}

Exists == ticket.status \notin {"none", "deleted"}

Fault == faults < MaxFaults /\ faults' = faults + 1

\* Labels a handler reaches without an await since its last request.
MidTurn == {"progress", "note_update", "reread", "delete"}

\* On one event loop a handler keeps its turn from one request to the next,
\* until it returns or awaits the flow.
Turn(c) == OneWorker => \A e \in Callers \ {c} : pc[e] \notin MidTurn

\* The handler goes on at `to`, or answers 500 when the request fails.
Request(c, from, to, reply) ==
    /\ pc[c] = from
    /\ Turn(c)
    /\ \/ reply = "ok" /\ pc' = [pc EXCEPT ![c] = to] /\ UNCHANGED faults
       \/ reply # "ok" /\ pc' = [pc EXCEPT ![c] = "error"] /\ Fault

\* An update of the row by its id; of a deleted row it changes nothing.
Update(row, reply, hand) ==
    IF reply # "refused" /\ Exists
      THEN ticket' = row /\ byHand' = hand
      ELSE UNCHANGED <<ticket, byHand>>

-----------------------------------------------------------------------------
\* POST /tickets: the row is inserted, perhaps with the client's notes.
Create ==
    /\ ticket.status = "none"
    /\ \E notes \in {{}, {None}} :
          ticket' = [status |-> "backlog", notes |-> notes, task |-> None]
    /\ UNCHANGED <<pc, body, read, runs, patched, byHand, faults>>

\* A client that knows the ticket sends one of the other requests.
Ask(c) ==
    /\ ticket.status # "none"
    /\ pc[c] = "idle"
    /\ \/ \E to \in {"select", "check"} : pc' = [pc EXCEPT ![c] = to] /\ UNCHANGED body
       \/ /\ pc' = [pc EXCEPT ![c] = "patch"]
          /\ \E b \in Bodies : body' = [body EXCEPT ![c] = b]
    /\ UNCHANGED <<ticket, read, runs, patched, byHand, faults>>

\* Variant: only a ticket that is done is refused.
Executable_AlsoRunning == Exists /\ ticket.status # "done"

\* execute_ticket: the select and the checks on what it returned.  A ticket
\* without a flow type, or with one this worker does not know, is refused too.
Executable == Exists /\ ticket.status \notin {"in_progress", "done"}

Select(c) ==
    \E reply \in {"ok", "refused"}, to \in {"progress", "refused"} :
        /\ to = "progress" => Executable
        /\ Request(c, "select", to, reply)
        /\ UNCHANGED <<ticket, body, read, runs, patched, byHand>>

\* The update does not ask again what the status is.
Progress(c) ==
    \E reply \in Replies :
        /\ Request(c, "progress", "flow", reply)
        /\ Update([ticket EXCEPT !.status = "in_progress"], reply, FALSE)
        /\ UNCHANGED <<body, read, runs, patched>>

\* Variant: execute_ticket does not catch what execute_flow raises.
FlowEnds_Uncaught(c) ==
    /\ pc[c] = "flow"
    /\ Turn(c)
    /\ \E run \in {"none", "completed"} :
        /\ runs' = [runs EXCEPT ![c] = run]
        /\ pc' = [pc EXCEPT ![c] = IF run = "none" THEN "error" ELSE "done_update"]
    /\ UNCHANGED <<ticket, body, read, patched, byHand, faults>>

\* The flow is over, or paused, or there is none.  execute_flow returns the
\* text of the flow's exception, and an empty one passes for success; what
\* execute_flow itself raises is caught, before there is a task.
FlowEnds(c) ==
    /\ pc[c] = "flow"
    /\ Turn(c)
    /\ \E run \in Runs, text \in BOOLEAN :
        /\ runs' = [runs EXCEPT ![c] = run]
        /\ pc' = [pc EXCEPT ![c] = IF run \in {"none", "failed"} /\ text
                                     THEN "note_select" ELSE "done_update"]
    /\ UNCHANGED <<ticket, body, read, patched, byHand, faults>>

\* A supervisor decides on the paused task; the ticket is not told.
Supervise(c) ==
    /\ runs[c] = "awaiting_approval"
    /\ \E run \in {"completed", "failed"} : runs' = [runs EXCEPT ![c] = run]
    /\ UNCHANGED <<ticket, pc, body, read, patched, byHand, faults>>

\* The task id execute_flow has to tell.
TaskOf(c) == IF runs[c] = "none" THEN None ELSE c

\* _handle_blocked_ticket: select the notes, then one update with the new note
\* at their end.
NoteSelect(c) ==
    \E reply \in {"ok", "refused"} :
        /\ Request(c, "note_select", "note_update", reply)
        /\ read' = [read EXCEPT ![c] = IF Exists THEN ticket.notes ELSE {}]
        /\ UNCHANGED <<ticket, body, runs, patched, byHand>>

\* Variant: the new note takes the place of the others.
NoteUpdate_Replaces(c) ==
    /\ Request(c, "note_update", "error", "ok")
    /\ Update([ticket EXCEPT !.status = "blocked", !.notes = {c}], "ok", FALSE)
    /\ UNCHANGED <<body, read, runs, patched>>

NoteUpdate(c) ==
    \E reply \in Replies :
        /\ Request(c, "note_update", "error", reply)
        /\ Update([ticket EXCEPT !.status = "blocked",
                                 !.notes = read[c] \union {c},
                                 !.task = IF TaskOf(c) = None THEN @ ELSE c], reply, FALSE)
        /\ UNCHANGED <<body, read, runs, patched>>

\* _handle_done_ticket, and the select for the response.
DoneUpdate(c) ==
    \E reply \in Replies :
        /\ Request(c, "done_update", "reread", reply)
        /\ Update([ticket EXCEPT !.status = "done", !.task = TaskOf(c)], reply, FALSE)
        /\ UNCHANGED <<body, read, runs, patched>>

Reread(c) ==
    \E reply \in {"ok", "refused"} :
        /\ Request(c, "reread", "ok", reply)
        /\ UNCHANGED <<ticket, body, read, runs, patched, byHand>>

\* Variant: the fields a PATCH leaves out are written as null.
Patch_WritesUnset(c) ==
    /\ Request(c, "patch", "ok", "ok")
    /\ Update([ticket EXCEPT !.status = body[c].status], "ok", FALSE)
    /\ UNCHANGED <<body, read, runs, patched>>

\* update_ticket: any status, and notes in place of those there are.
Patch(c) ==
    \E reply \in Replies :
        /\ Request(c, "patch", IF Exists THEN "ok" ELSE "refused", reply)
        /\ Update([ticket EXCEPT
                      !.status = IF body[c].status = None THEN @ ELSE body[c].status,
                      !.notes  = IF body[c].notes THEN {None} ELSE @],
                  reply, byHand \/ body[c].status # None)
        /\ patched' = (patched \/ (reply # "refused" /\ body[c].status # None))
        /\ UNCHANGED <<body, read, runs>>

\* delete_ticket
Check(c) ==
    \E reply \in {"ok", "refused"} :
        /\ Request(c, "check", IF Exists THEN "delete" ELSE "refused", reply)
        /\ UNCHANGED <<ticket, body, read, runs, patched, byHand>>

Delete(c) ==
    \E reply \in Replies :
        /\ Request(c, "delete", "ok", reply)
        /\ Update([ticket EXCEPT !.status = "deleted"], reply, FALSE)
        /\ UNCHANGED <<body, read, runs, patched>>

Handle(c) ==
    \/ Select(c) \/ Progress(c) \/ FlowEnds(c)
    \/ NoteSelect(c) \/ NoteUpdate(c) \/ DoneUpdate(c) \/ Reread(c)
    \/ Patch(c) \/ Check(c) \/ Delete(c)

\* A worker dies with its handlers.
Crash(dying) ==
    LET atWork == {c \in Callers : pc[c] \notin EndLabels \union {"idle"}}
    IN  /\ dying # {} /\ dying \subseteq atWork
        /\ OneWorker => dying = atWork
        /\ pc' = [c \in Callers |-> IF c \in dying THEN "dead" ELSE pc[c]]
        /\ Fault
        /\ UNCHANGED <<ticket, body, read, runs, patched, byHand>>

Terminated ==
    /\ \A c \in Callers : pc[c] \in EndLabels /\ runs[c] # "awaiting_approval"
    /\ UNCHANGED vars

Next ==
    \/ Create
    \/ \E c \in Callers : Ask(c) \/ Handle(c) \/ Supervise(c)
    \/ \E dying \in SUBSET Callers : Crash(dying)
    \/ Terminated

Spec == Init /\ [][Next]_vars

\* A handler that has started gets its turns, and flows end.
FairSpec == Spec /\ \A c \in Callers : WF_vars(Handle(c))

-----------------------------------------------------------------------------
\* Properties.

InFlight(c) == pc[c] \in {"flow", "note_select", "note_update", "done_update"}

\* "Ticket is already in_progress": with one worker, two executions of a ticket
\* overlap only after a client has written its status by hand.
OneExecution ==
    OneWorker /\ ~ patched => Cardinality({c \in Callers : InFlight(c)}) <= 1

\* The parts of an inductive invariant that implies OneExecution: the ticket is
\* known before it is asked about, one handler at most is in its turn, and an
\* execution keeps the ticket's status from letting another one start.
TurnInv ==
    /\ \A c \in Callers : pc[c] # "idle" => ticket.status # "none"
    /\ OneWorker => \A c, e \in Callers : pc[c] \in MidTurn /\ pc[e] \in MidTurn => c = e

ExecutionInv ==
    OneWorker /\ ~ patched => \A c \in Callers : InFlight(c) =>
        /\ ticket.status \in {"in_progress", "deleted"}
        /\ \A e \in Callers \ {c} : ~ InFlight(e) /\ pc[e] # "progress"

\* "Append error information to ticket notes, preserving existing content":
\* nothing but a client's PATCH removes a note.
NotesKept ==
    [][(\A c \in Callers : pc[c] = "patch" => pc'[c] = "patch")
          => ticket.notes \subseteq ticket'.notes]_vars

\* A ticket does not stay in progress, unless a database request failed or a
\* worker died: whatever becomes of its flow, the handler files it.  The
\* exception is a ticket that a client's PATCH put in progress: no execution
\* files it, and execute_ticket refuses it until another PATCH.
LeavesProgress == []<>(ticket.status # "in_progress" \/ faults > 0 \/ byHand)

\* Without the exception it is violated by one PATCH and no fault; not checked.
NoneStranded == []<>(ticket.status # "in_progress" \/ faults > 0)

\* "A flow that fails must leave the ticket blocked": the task of a ticket that
\* its execution marked as done has not failed.
FailedFlowBlocks ==
    ~ patched /\ ticket.status = "done"
        => \A c \in Callers : ticket.task = c => runs[c] # "failed"
=============================================================================
