--------------------------- MODULE FlowHitl_proofs ---------------------------
(***************************************************************************)
(* Theorems about FlowHitl, for every number of deciders, steps and faults.*)
(***************************************************************************)
EXTENDS FlowHitl, FiniteSetTheorems, TLAPS

-----------------------------------------------------------------------------
(* Type correctness, one lemma per kind of database request. *)

\* A request moves one thread to a label, and counts what fails.
LEMMA RequestTyped ==
    ASSUME TypeOK, NEW t \in Threads, NEW from, NEW to \in Labels,
           NEW m \in Status, NEW reply, Request(t, from, to, m, reply)
    PROVE  /\ pc' \in [Threads -> Labels]
           /\ mem' \in [Threads -> Status]
           /\ faults' \in 0..MaxFaults
           /\ kind' = kind
           /\ request' = request
<1>1. {"fail_snap", "raised"} \subseteq Labels /\ "failed" \in Status
  BY DEF Labels, RunnerLabels, EndLabels, Status
<1>2. CASE reply = "ok"
  BY <1>2 DEF Request, TypeOK
<1>3. CASE reply # "ok"
  <2>1. faults' \in 0..MaxFaults
    BY <1>3, BoundAssumption DEF Request, Fault, TypeOK
  <2>2. QED BY <1>1, <1>3, <2>1 DEF Request, TypeOK
<1>4. QED BY <1>2, <1>3

\* The first half of persist_state preserves the types.
LEMMA WriteSnapshotTyped ==
    ASSUME TypeOK, NEW t \in Threads, NEW from, NEW to \in Labels,
           WriteSnapshot(t, from, to)
    PROVE  TypeOK'
<1>1. PICK reply \in Retried :
        /\ Request(t, from, to, mem[t], reply)
        /\ snapshot' = IF Served(reply) THEN [snapshot EXCEPT !.status = mem[t]]
                                        ELSE snapshot
        /\ UNCHANGED <<found, steps, task, approvals, events, verdict>>
  BY DEF WriteSnapshot
<1>2. mem[t] \in Status  BY DEF TypeOK
<1>3. snapshot' \in [status : Status, aggregate : BOOLEAN]
  BY <1>1, <1>2 DEF TypeOK
<1>4. QED BY <1>1, <1>2, <1>3, RequestTyped DEF TypeOK

\* So does the second half.
LEMMA WriteTaskTyped ==
    ASSUME TypeOK, NEW t \in Threads, NEW from, NEW to \in Labels,
           NEW m \in Status, WriteTask(t, from, to, m)
    PROVE  TypeOK'
<1>1. PICK reply \in Retried :
        /\ Request(t, from, to, m, reply)
        /\ task' = IF Served(reply) THEN mem[t] ELSE task
        /\ UNCHANGED <<found, steps, snapshot, approvals, events, verdict>>
  BY DEF WriteTask
<1>2. task' \in Status  BY <1>1 DEF TypeOK
<1>3. QED BY <1>1, <1>2, RequestTyped DEF TypeOK

\* So does the insert of an event.
LEMMA LogTyped ==
    ASSUME TypeOK, NEW t \in Threads, NEW from, NEW to \in Labels,
           NEW m \in Status, NEW type \in EventTypes, NEW replies,
           Log(t, from, to, m, type, replies)
    PROVE  TypeOK'
<1>1. PICK reply \in replies :
        /\ Request(t, from, to, m, reply)
        /\ events' = IF Served(reply) THEN Append(events, type) ELSE events
        /\ UNCHANGED <<found, steps, task, snapshot, approvals, verdict>>
  BY DEF Log
<1>2. events' \in Seq(EventTypes)  BY <1>1 DEF TypeOK
<1>3. QED BY <1>1, <1>2, RequestTyped DEF TypeOK

\* A crew's move between two requests preserves the types.
LEMMA CrewMovesTyped ==
    ASSUME TypeOK, NEW to \in Labels, NEW m \in Status, CrewMoves(to, m),
           steps' \in 0..MaxSteps
    PROVE  TypeOK'
BY DEF CrewMoves, TypeOK, rows, Threads

\* Every operation of the flow's thread preserves the types.
LEMMA RunFlowTyped ==
    ASSUME TypeOK, RunFlow
    PROVE  TypeOK'
<1>1. Runner \in Threads /\ RunnerLabels \subseteq Labels /\ EndLabels \subseteq Labels
  BY DEF Threads, Labels
<1>2. CASE InsertTask
  <2>1. PICK reply \in Replies, to \in {"trigger_event", "created_event"} :
          /\ Request(Runner, "insert", to, "pending", reply)
          /\ task' = IF Served(reply) THEN "pending" ELSE task
          /\ UNCHANGED <<found, steps, snapshot, approvals, events, verdict>>
    BY <1>2 DEF InsertTask
  <2>2. to \in Labels /\ "pending" \in Status  BY <1>1 DEF RunnerLabels, Status
  <2>3. QED BY <1>1, <2>1, <2>2, RequestTyped DEF TypeOK
<1>3. CASE EmitCreated
  BY <1>1, <1>3, LogTyped DEF EmitCreated, Emit, RunnerLabels, Status, EventTypes
<1>4. CASE StartSnapshot \/ StepSnapshot \/ DoneSnapshot \/ PauseSnapshot
             \/ RepauseSnapshot \/ FailSnapshot
  BY <1>1, <1>4, WriteSnapshotTyped
     DEF StartSnapshot, StepSnapshot, DoneSnapshot, PauseSnapshot,
         RepauseSnapshot, FailSnapshot, RunnerLabels, PauseLabels, DoneLabels
<1>5. CASE StartTask \/ StepTask \/ DoneTask \/ PauseTask \/ RepauseTask \/ FailTask
  BY <1>1, <1>5, WriteTaskTyped
     DEF StartTask, StepTask, DoneTask, PauseTask, RepauseTask, FailTask,
         RunnerLabels, PauseLabels, EndLabels, Status
<1>6. CASE CrewStep
  <2>1. steps' \in 0..MaxSteps  BY <1>6, BoundAssumption DEF CrewStep, TypeOK
  <2>2. QED BY <1>1, <1>6, <2>1, CrewMovesTyped DEF CrewStep, RunnerLabels, Status
<1>7. CASE CrewReturns \/ CrewPauses \/ CrewRaises
  <2>1. steps' \in 0..MaxSteps
    BY <1>7 DEF CrewReturns, CrewPauses, CrewRaises, TypeOK
  <2>2. QED BY <1>1, <1>7, <2>1, CrewMovesTyped
            DEF CrewReturns, CrewPauses, CrewRaises, RunnerLabels, PauseLabels,
                DoneLabels, Status
<1>8. CASE EmitStep \/ EmitCompleted \/ EmitTokens
  BY <1>1, <1>8, LogTyped
     DEF EmitStep, EmitCompleted, EmitTokens, Emit, RunnerLabels, DoneLabels, Status, EventTypes
<1>9. CASE PauseSnapshotV2
  <2>1. PICK reply \in Retried :
          /\ Request(Runner, "pause_v2", "pause_insert", "awaiting_approval", reply)
          /\ snapshot' = IF Served(reply)
                           THEN [status |-> "awaiting_approval", aggregate |-> TRUE]
                           ELSE snapshot
          /\ UNCHANGED <<found, steps, task, approvals, events, verdict>>
    BY <1>9 DEF PauseSnapshotV2
  <2>2. "pause_insert" \in Labels /\ "awaiting_approval" \in Status
    BY <1>1 DEF RunnerLabels, PauseLabels, Status
  <2>3. snapshot' \in [status : Status, aggregate : BOOLEAN]
    BY <2>1, <2>2 DEF TypeOK
  <2>4. QED BY <1>1, <2>1, <2>2, <2>3, RequestTyped DEF TypeOK
<1>10. CASE PauseInsert
  <2>1. PICK reply \in Retried :
          /\ Request(Runner, "pause_insert", "pause_snap", "awaiting_approval", reply)
          /\ approvals' = IF Served(reply) THEN Append(approvals, "pending")
                                           ELSE approvals
          /\ UNCHANGED <<found, steps, task, snapshot, events, verdict>>
    BY <1>10 DEF PauseInsert
  <2>2. "pause_snap" \in Labels /\ "awaiting_approval" \in Status
    BY <1>1 DEF RunnerLabels, PauseLabels, Status
  <2>3. approvals' \in Seq({"pending"} \union Rulings)
    BY <2>1 DEF TypeOK
  <2>4. QED BY <1>1, <2>1, <2>2, <2>3, RequestTyped DEF TypeOK
<1>11. CASE PauseEvent
  BY <1>1, <1>11, LogTyped
     DEF PauseEvent, AppendSync, RunnerLabels, PauseLabels, EndLabels, Status, EventTypes
<1>12. QED BY <1>2, <1>3, <1>4, <1>5, <1>6, <1>7, <1>8, <1>9, <1>10, <1>11 DEF RunFlow

\* Overwriting some elements of a sequence leaves a sequence of that length.
LEMMA Overwritten ==
    ASSUME NEW S, NEW s \in Seq(S), NEW new \in S, NEW I
    PROVE  /\ [i \in DOMAIN s |-> IF i \in I THEN new ELSE s[i]] \in Seq(S)
           /\ Len([i \in DOMAIN s |-> IF i \in I THEN new ELSE s[i]]) = Len(s)
<1> DEFINE r == [i \in DOMAIN s |-> IF i \in I THEN new ELSE s[i]]
<1>1. DOMAIN s = 1..Len(s) /\ Len(s) \in Nat  OBVIOUS
<1>2. r \in [1..Len(s) -> S]  BY <1>1
<1>3. QED BY <1>1, <1>2

\* Every operation of a decider preserves the types.
LEMMA DecideTyped ==
    ASSUME TypeOK, NEW d \in Deciders, request[d] \in Requests, Decide(d)
    PROVE  TypeOK'
<1>1. d \in Threads /\ DeciderLabels \subseteq Labels /\ EndLabels \subseteq Labels
  BY DEF Threads, Labels
<1>2. mem[d] \in Status /\ snapshot.status \in Status  BY <1>1 DEF TypeOK
<1>3. CASE CheckPending(d)
  <2>1. PICK reply \in {"ok", "refused"} :
          /\ Request(d, "check",
                     IF \E i \in Pending : Pending = {i} THEN "mark" ELSE "refused",
                     mem[d], reply)
          /\ found' = [found EXCEPT ![d] = IF Pending = {} THEN 0
                                           ELSE CHOOSE i \in Pending : TRUE]
          /\ UNCHANGED <<steps, rows, verdict>>
    BY <1>3 DEF CheckPending
  <2>2. (IF \E i \in Pending : Pending = {i} THEN "mark" ELSE "refused") \in Labels
    BY <1>1 DEF DeciderLabels, EndLabels
  <2>3. (IF Pending = {} THEN 0 ELSE CHOOSE i \in Pending : TRUE) \in Nat
    <3>1. Pending \subseteq Nat  BY DEF Pending, TypeOK
    <3>2. QED BY <3>1
  <2>4. found' \in [Deciders -> Nat]  BY <2>1, <2>3 DEF TypeOK
  <2>5. QED BY <1>1, <1>2, <2>1, <2>2, <2>4, RequestTyped DEF TypeOK, rows
<1>4. CASE MarkDecided(d)
  <2> DEFINE ruling == request[d].decision
             marked == IF request[d].via = "mcp" THEN {found[d]} ELSE DOMAIN approvals
             overwritten == [i \in DOMAIN approvals |->
                                IF i \in marked THEN ruling ELSE approvals[i]]
  <2>1. PICK reply \in Retried :
          /\ Request(d, "mark", "lookup", mem[d], reply)
          /\ approvals' = IF Served(reply) THEN overwritten ELSE approvals
          /\ verdict' = IF Served(reply) THEN [verdict EXCEPT ![d] = ruling]
                                         ELSE verdict
          /\ UNCHANGED <<found, steps, task, snapshot, events>>
    BY <1>4 DEF MarkDecided, Retried
  <2>2. ruling \in Rulings /\ ruling \in {"pending"} \union Rulings
    BY DEF Requests
  <2>3. overwritten \in Seq({"pending"} \union Rulings)
    <3>1. approvals \in Seq({"pending"} \union Rulings)  BY DEF TypeOK
    <3> HIDE DEF ruling, marked
    <3>2. QED BY <2>2, <3>1, Overwritten
  <2>4. approvals' \in Seq({"pending"} \union Rulings)
    BY <2>1, <2>3 DEF TypeOK
  <2>5. verdict' \in [Deciders -> Rulings \union {"none"}]
    BY <2>1, <2>2 DEF TypeOK
  <2>6. "lookup" \in Labels
    BY <1>1 DEF DeciderLabels
  <2> HIDE DEF overwritten, ruling, marked
  <2>7. QED BY <1>1, <1>2, <2>1, <2>4, <2>5, <2>6, RequestTyped DEF TypeOK
<1>5. CASE LookUpFlow(d)
  BY <1>1, <1>2, <1>5, RequestTyped DEF LookUpFlow, DeciderLabels, TypeOK, rows
<1>6. CASE LoadSnapshot(d)
  BY <1>1, <1>2, <1>6, RequestTyped DEF LoadSnapshot, DeciderLabels, EndLabels, TypeOK, rows
<1>7. CASE VerdictEvent(d)
  BY <1>1, <1>7, LogTyped
     DEF VerdictEvent, AppendSync, DeciderLabels, AcceptLabels, RejectLabels, Status, EventTypes
<1>8. CASE AcceptSnapshot(d) \/ RejectSnapshot(d) \/ ResumeSnapshot(d) \/ FinalSnapshot(d)
  BY <1>1, <1>8, WriteSnapshotTyped
     DEF AcceptSnapshot, RejectSnapshot, ResumeSnapshot, FinalSnapshot,
         DeciderLabels, AcceptLabels, RejectLabels
<1>9. CASE AcceptTask(d) \/ RejectTask(d) \/ ResumeTask(d) \/ FinalTask(d)
  BY <1>1, <1>9, WriteTaskTyped
     DEF AcceptTask, RejectTask, ResumeTask, FinalTask, DeciderLabels,
         AcceptLabels, RejectLabels, EndLabels, Status
<1>10. CASE AcceptEvent(d) \/ RejectEvent(d) \/ ResumedEvent(d) \/ FinalEvent(d)
  BY <1>1, <1>10, LogTyped
     DEF AcceptEvent, RejectEvent, ResumedEvent, FinalEvent, Emit, DeciderLabels,
         AcceptLabels, EndLabels, Status, EventTypes
<1>11. QED BY <1>3, <1>4, <1>5, <1>6, <1>7, <1>8, <1>9, <1>10 DEF Decide

\* What a decider has to ask for, once it has asked: the strengthening type
\* correctness needs, for a ruling is copied from the request into a row.
RequestsMade == \A d \in Deciders : pc[d] # "idle" => request[d] \in Requests

\* The flow's thread touches nothing of a decider.
LEMMA RunFlowFrame ==
    ASSUME TypeOK, RunFlow
    PROVE  /\ UNCHANGED <<kind, request, found, verdict>>
           /\ \A d \in Deciders : pc'[d] = pc[d] /\ mem'[d] = mem[d]
BY RunnerAssumption
   DEF RunFlow, InsertTask, EmitCreated, StartSnapshot, StartTask, CrewStep, StepSnapshot,
       StepTask, EmitStep, CrewReturns, CrewPauses, CrewRaises, EmitCompleted, EmitTokens,
       DoneSnapshot, DoneTask, PauseSnapshotV2, PauseInsert, PauseSnapshot, PauseTask,
       PauseEvent, RepauseSnapshot, RepauseTask, FailSnapshot, FailTask, CrewMoves,
       WriteSnapshot, WriteTask, Emit, AppendSync, Log, Request, TypeOK, Threads

\* A decider touches nothing of another thread, and does not return to idle.
LEMMA DecideFrame ==
    ASSUME TypeOK, NEW d \in Deciders, Decide(d)
    PROVE  /\ UNCHANGED <<kind, request, steps>>
           /\ \A t \in Threads \ {d} : pc'[t] = pc[t] /\ mem'[t] = mem[t]
           /\ pc[d] # "idle" /\ pc'[d] # "idle"
BY DEF Decide, CheckPending, MarkDecided, LookUpFlow, LoadSnapshot, VerdictEvent,
       AcceptSnapshot, AcceptTask, AcceptEvent, RejectSnapshot, RejectTask, RejectEvent,
       ResumeSnapshot, ResumeTask, ResumedEvent, FinalEvent, FinalSnapshot, FinalTask,
       WriteSnapshot, WriteTask, Emit, AppendSync, Log, Request, TypeOK, Threads

\* Everything in the specification is well typed: after the lemmas above, the
\* first use of the strengthening.
THEOREM TypeCorrect == Spec => []TypeOK
<1> DEFINE Inv == TypeOK /\ RequestsMade
<1>1. Init => Inv
  <2> SUFFICES ASSUME Init  PROVE Inv
    OBVIOUS
  <2>1. << >> \in Seq({"pending"} \union Rulings) /\ << >> \in Seq(EventTypes)
    OBVIOUS
  <2>2. pc \in [Threads -> Labels]
    BY DEF Init, Labels, RunnerLabels, DeciderLabels
  <2>3. QED
    BY <2>1, <2>2, BoundAssumption, RunnerAssumption
       DEF Init, TypeOK, RequestsMade, Threads, Status
<1>2. Inv /\ [Next]_vars => Inv'
  <2> SUFFICES ASSUME TypeOK, RequestsMade, [Next]_vars  PROVE Inv'
    OBVIOUS
  <2>1. CASE RunFlow
    BY <2>1, RunFlowTyped, RunFlowFrame DEF RequestsMade
  <2>2. ASSUME NEW d \in Deciders, Ask(d)  PROVE Inv'
    <3>1. "check" \in Labels  BY DEF Labels, DeciderLabels
    <3>2. TypeOK'
      BY <2>2, <3>1 DEF Ask, TypeOK, rows, Threads
    <3>3. RequestsMade'  BY <2>2, RunnerAssumption DEF Ask, TypeOK, RequestsMade, Threads
    <3>4. QED BY <3>2, <3>3
  <2>3. ASSUME NEW d \in Deciders, Decide(d)  PROVE Inv'
    <3>1. request[d] \in Requests  BY <2>3, DecideFrame DEF RequestsMade
    <3>2. RequestsMade'  BY <2>3, DecideFrame DEF RequestsMade, Threads
    <3>3. QED BY <2>3, <3>1, <3>2, DecideTyped
  <2>4. ASSUME NEW dying \in SUBSET Threads, Crash(dying)  PROVE Inv'
    <3>1. "dead" \in Labels  BY DEF Labels, EndLabels
    <3>2. TypeOK'  BY <2>4, <3>1, BoundAssumption DEF Crash, Fault, TypeOK, rows
    <3>3. RequestsMade'  BY <2>4 DEF Crash, TypeOK, RequestsMade, Threads, AtWork
    <3>4. QED BY <3>2, <3>3
  <2>5. CASE UNCHANGED vars
    BY <2>5 DEF vars, rows, TypeOK, RequestsMade
  <2>6. QED BY <2>1, <2>2, <2>3, <2>4, <2>5 DEF Next, Terminated
<1>3. Inv => TypeOK  OBVIOUS
<1>4. QED BY <1>1, <1>2, <1>3, PTL DEF Spec

-----------------------------------------------------------------------------
(* The approval gate.  What each kind of request can do to what is shown.  *)

\* A request is served and its thread goes on, or it is sent again, or it raises.
LEMMA RequestEffect ==
    ASSUME TypeOK, NEW t \in Threads, NEW from, NEW to, NEW m, NEW reply,
           Request(t, from, to, m, reply)
    PROVE  /\ pc[t] = from
           /\ \/ pc'[t] = to /\ mem'[t] = m
              \/ pc'[t] = "raised" /\ mem'[t] = mem[t]
              \/ pc'[t] = "fail_snap" /\ mem'[t] = "failed" /\ t = Runner
              \/ pc'[t] = pc[t] /\ mem'[t] = mem[t] /\ reply = "again"
BY DEF Request, Handled, TypeOK

\* A snapshot write shows at most the status in its thread's memory.
LEMMA WriteSnapshotEffect ==
    ASSUME TypeOK, NEW t \in Threads, NEW from, NEW to, WriteSnapshot(t, from, to)
    PROVE  /\ pc[t] = from
           /\ \/ pc'[t] = to /\ mem'[t] = mem[t]
              \/ pc'[t] = "raised" /\ mem'[t] = mem[t]
              \/ pc'[t] = "fail_snap" /\ mem'[t] = "failed" /\ t = Runner
              \/ pc'[t] = pc[t] /\ mem'[t] = mem[t]
           /\ snapshot'.aggregate = snapshot.aggregate
           /\ snapshot'.status \in {snapshot.status, mem[t]}
           /\ UNCHANGED <<task, approvals, events, verdict>>
<1>1. PICK reply \in Retried :
        /\ Request(t, from, to, mem[t], reply)
        /\ snapshot' = IF Served(reply) THEN [snapshot EXCEPT !.status = mem[t]]
                                        ELSE snapshot
        /\ UNCHANGED <<found, steps, task, approvals, events, verdict>>
  BY DEF WriteSnapshot
<1>2. /\ snapshot'.aggregate = snapshot.aggregate
      /\ snapshot'.status \in {snapshot.status, mem[t]}
  BY <1>1 DEF TypeOK
<1>3. QED BY <1>1, <1>2, RequestEffect

\* So does a write to tasks.
LEMMA WriteTaskEffect ==
    ASSUME TypeOK, NEW t \in Threads, NEW from, NEW to, NEW m, WriteTask(t, from, to, m)
    PROVE  /\ pc[t] = from
           /\ \/ pc'[t] = to /\ mem'[t] = m
              \/ pc'[t] = "raised" /\ mem'[t] = mem[t]
              \/ pc'[t] = "fail_snap" /\ mem'[t] = "failed" /\ t = Runner
              \/ pc'[t] = pc[t] /\ mem'[t] = mem[t]
           /\ task' \in {task, mem[t]}
           /\ UNCHANGED <<snapshot, approvals, events, verdict>>
BY RequestEffect DEF WriteTask

\* An event that is not flow.completed does not show completion.
LEMMA LogEffect ==
    ASSUME TypeOK, NEW t \in Threads, NEW from, NEW to, NEW m, NEW type \in EventTypes,
           NEW replies, Log(t, from, to, m, type, replies)
    PROVE  /\ pc[t] = from
           /\ \/ pc'[t] = to /\ mem'[t] = m
              \/ pc'[t] = "raised" /\ mem'[t] = mem[t]
              \/ pc'[t] = "fail_snap" /\ mem'[t] = "failed" /\ t = Runner
              \/ pc'[t] = pc[t] /\ mem'[t] = mem[t] /\ "again" \in replies
           /\ type # "flow.completed" => InLog("flow.completed")' = InLog("flow.completed")
           /\ events' \in {events, Append(events, type)}
           /\ UNCHANGED <<task, snapshot, approvals, verdict>>
<1>1. /\ pc[t] = from
      /\ \/ pc'[t] = to /\ mem'[t] = m
         \/ pc'[t] = "raised" /\ mem'[t] = mem[t]
         \/ pc'[t] = "fail_snap" /\ mem'[t] = "failed" /\ t = Runner
         \/ pc'[t] = pc[t] /\ mem'[t] = mem[t] /\ "again" \in replies
      /\ events' \in {events, Append(events, type)}
      /\ UNCHANGED <<task, snapshot, approvals, verdict>>
  BY RequestEffect DEF Log
<1>2. CASE events' = events
  BY <1>1, <1>2 DEF InLog
<1>3. CASE events' = Append(events, type) /\ type # "flow.completed"
  <2>1. events \in Seq(EventTypes)  BY DEF TypeOK
  <2>2. /\ DOMAIN events' = 1..(Len(events) + 1)
        /\ \A i \in DOMAIN events : events'[i] = events[i]
        /\ events'[Len(events) + 1] = type
        /\ DOMAIN events = 1..Len(events) /\ Len(events) \in Nat
    BY <1>3, <2>1
  <2>3. InLog("flow.completed")' <=> InLog("flow.completed")
    BY <1>3, <2>2 DEF InLog
  <2>4. QED BY <1>1, <2>3 DEF InLog
<1>4. QED BY <1>1, <1>2, <1>3

\* The same of an event that the queue writes, which is sent once ...
LEMMA EmitEffect ==
    ASSUME TypeOK, NEW t \in Threads, NEW from, NEW to, NEW m, NEW type \in EventTypes,
           Emit(t, from, to, m, type)
    PROVE  /\ pc[t] = from
           /\ \/ pc'[t] = to /\ mem'[t] = m
              \/ pc'[t] = "raised" /\ mem'[t] = mem[t]
              \/ pc'[t] = "fail_snap" /\ mem'[t] = "failed" /\ t = Runner
           /\ type # "flow.completed" => InLog("flow.completed")' = InLog("flow.completed")
           /\ UNCHANGED <<task, snapshot, approvals, verdict>>
<1>1. Log(t, from, to, m, type, Replies)  BY DEF Emit
<1>2. "again" \notin Replies  BY DEF Replies
<1>3. QED BY <1>1, <1>2, LogEffect

\* ... and of one that append_sync writes, which may be sent again.
LEMMA AppendSyncEffect ==
    ASSUME TypeOK, NEW t \in Threads, NEW from, NEW to, NEW m, NEW type \in EventTypes,
           AppendSync(t, from, to, m, type)
    PROVE  /\ pc[t] = from
           /\ \/ pc'[t] = to /\ mem'[t] = m
              \/ pc'[t] = "raised" /\ mem'[t] = mem[t]
              \/ pc'[t] = "fail_snap" /\ mem'[t] = "failed" /\ t = Runner
              \/ pc'[t] = pc[t] /\ mem'[t] = mem[t]
           /\ type # "flow.completed" => InLog("flow.completed")' = InLog("flow.completed")
           /\ UNCHANGED <<task, snapshot, approvals, verdict>>
<1>1. Log(t, from, to, m, type, Retried)  BY DEF AppendSync
<1>2. QED BY <1>1, LogEffect

\* Appending to a sequence never leaves it empty.
LEMMA Appended ==
    ASSUME NEW S, NEW s \in Seq(S), NEW e \in S
    PROVE  Append(s, e) # << >>
<1>1. Len(Append(s, e)) = Len(s) + 1 /\ Len(s) \in Nat  OBVIOUS
<1>2. Len(Append(s, e)) # 0  BY <1>1
<1>3. Len(<< >>) = 0  OBVIOUS
<1>4. QED BY <1>2, <1>3, Zenon

\* What an operation of the flow's thread leaves true.
RunnerKeeps ==
    /\ RunnerInv'
    /\ Paused => Paused'
    /\ ApprovalHasSnapshot'
    /\ Paused' /\ Shown' => Paused /\ Shown

\* Every operation of the flow's thread does.
LEMMA RunFlowGate ==
    ASSUME TypeOK, RunnerInv, ApprovalHasSnapshot, RunFlow
    PROVE  RunnerKeeps
<1>1. Runner \in Threads  BY DEF Threads
<1> USE DEF RunnerKeeps, RunnerInv, ApprovalHasSnapshot, Paused, Shown,
            RunnerLabels, EarlyLabels, PauseLabels, DoneLabels, EndLabels
<1>2. CASE InsertTask
  <2>1. PICK reply \in Replies, to \in {"trigger_event", "created_event"} :
          /\ Request(Runner, "insert", to, "pending", reply)
          /\ task' = IF Served(reply) THEN "pending" ELSE task
          /\ UNCHANGED <<found, steps, snapshot, approvals, events, verdict>>
    BY <1>2 DEF InsertTask
  <2>2. InLog("flow.completed")' = InLog("flow.completed")  BY <2>1 DEF InLog
  <2>3. QED BY <1>1, <2>1, <2>2, RequestEffect
<1>3. CASE EmitCreated
  <2>1. PICK from \in {"trigger_event", "created_event"} :
          Emit(Runner, from, "start_snap", "running", "flow.created")
    BY <1>3 DEF EmitCreated
  <2>2. QED BY <1>1, <2>1, EmitEffect DEF EventTypes
<1>4. CASE StartSnapshot \/ StepSnapshot \/ DoneSnapshot \/ PauseSnapshot
             \/ RepauseSnapshot \/ FailSnapshot
  <2>1. InLog("flow.completed")' = InLog("flow.completed")
    BY <1>1, <1>4, WriteSnapshotEffect
       DEF InLog, StartSnapshot, StepSnapshot, DoneSnapshot, PauseSnapshot,
           RepauseSnapshot, FailSnapshot
  <2>2. QED BY <1>1, <1>4, <2>1, WriteSnapshotEffect
            DEF StartSnapshot, StepSnapshot, DoneSnapshot, PauseSnapshot,
                RepauseSnapshot, FailSnapshot
<1>5. CASE StartTask \/ StepTask \/ DoneTask \/ PauseTask \/ RepauseTask \/ FailTask
  <2>1. InLog("flow.completed")' = InLog("flow.completed")
    BY <1>1, <1>5, WriteTaskEffect
       DEF InLog, StartTask, StepTask, DoneTask, PauseTask, RepauseTask, FailTask
  <2>2. QED BY <1>1, <1>5, <2>1, WriteTaskEffect
            DEF StartTask, StepTask, DoneTask, PauseTask, RepauseTask, FailTask
<1>6. CASE CrewStep \/ CrewReturns \/ CrewPauses \/ CrewRaises
  BY <1>1, <1>6 DEF CrewStep, CrewReturns, CrewPauses, CrewRaises, CrewMoves, rows,
                    InLog, TypeOK
<1>7. CASE EmitStep \/ EmitTokens
  BY <1>1, <1>7, EmitEffect DEF EmitStep, EmitTokens, EventTypes
<1>8. CASE EmitCompleted
  <2>1. PICK to \in {"done_snap", "tokens_event"} :
          Emit(Runner, "done_event", to, "completed", "flow.completed")
    BY <1>8 DEF EmitCompleted
  <2>2. QED BY <1>1, <2>1, EmitEffect DEF EventTypes
<1>9. CASE PauseSnapshotV2
  <2>1. PICK reply \in Retried :
          /\ Request(Runner, "pause_v2", "pause_insert", "awaiting_approval", reply)
          /\ snapshot' = IF Served(reply)
                           THEN [status |-> "awaiting_approval", aggregate |-> TRUE]
                           ELSE snapshot
          /\ UNCHANGED <<found, steps, task, approvals, events, verdict>>
    BY <1>9 DEF PauseSnapshotV2
  <2>2. InLog("flow.completed")' = InLog("flow.completed")  BY <2>1 DEF InLog
  <2>3. pc'[Runner] = "pause_insert" => snapshot'.aggregate
    BY <1>1, <2>1 DEF Request, Served, Handled, TypeOK
  <2>4. QED BY <1>1, <2>1, <2>2, <2>3, RequestEffect
<1>10. CASE PauseInsert
  <2>1. /\ pc[Runner] = "pause_insert"
        /\ \/ pc'[Runner] \in {"pause_snap", "pause_insert", "raised"}
                 /\ mem'[Runner] \in {mem[Runner], "awaiting_approval"}
           \/ pc'[Runner] = "fail_snap" /\ mem'[Runner] = "failed"
        /\ approvals' \in {approvals, Append(approvals, "pending")}
        /\ UNCHANGED <<task, snapshot, events>>
    BY <1>1, <1>10, RequestEffect DEF PauseInsert
  <2>2. InLog("flow.completed")' = InLog("flow.completed")  BY <2>1 DEF InLog
  <2>3. Paused => Paused'
    <3>1. approvals \in Seq({"pending"} \union Rulings)  BY DEF TypeOK
    <3>2. Append(approvals, "pending") # << >>  BY ONLY <3>1, Appended
    <3>3. QED BY <2>1, <3>2
  <2>4. QED BY <1>1, <2>1, <2>2, <2>3
<1>11. CASE PauseEvent
  BY <1>1, <1>11, AppendSyncEffect DEF PauseEvent, EventTypes
<1>12. QED BY <1>2, <1>3, <1>4, <1>5, <1>6, <1>7, <1>8, <1>9, <1>10, <1>11 DEF RunFlow

\* What an operation of decider d leaves true.
DeciderKeeps(d) ==
    /\ DeciderInv(d)'
    /\ Paused' <=> Paused
    /\ snapshot'.aggregate = snapshot.aggregate
    /\ \A e \in Deciders \ {d} : verdict'[e] = verdict[e]
    /\ verdict'[d] = verdict[d] \/ verdict[d] = "none"
    /\ Shown' => Shown \/ (Paused /\ verdict'[d] = "approved")

\* Every operation of a decider does.
LEMMA DecideGate ==
    ASSUME TypeOK, NEW d \in Deciders, DeciderInv(d), Decide(d)
    PROVE  DeciderKeeps(d)
<1>1. d \in Threads /\ d # Runner  BY RunnerAssumption DEF Threads
<1>2. request'[d] = request[d] /\ pc'[d] # "idle"  BY DecideFrame
<1> USE DEF DeciderKeeps, DeciderInv, Paused, Shown, DeciderLabels, AcceptLabels,
            RejectLabels, EndLabels
<1>3. CASE CheckPending(d)
  <2>1. /\ pc[d] = "check"
        /\ pc'[d] \in {"mark", "refused", "raised"}
        /\ pc'[d] = "mark" => \E i \in Pending : Pending = {i}
        /\ UNCHANGED <<task, snapshot, approvals, events, verdict>>
    BY <1>1, <1>3, RequestEffect DEF CheckPending, rows
  <2>2. InLog("flow.completed")' = InLog("flow.completed")  BY <2>1 DEF InLog
  <2>3. pc'[d] = "mark" => Paused  BY <2>1 DEF Pending
  <2>4. QED BY <1>1, <1>2, <2>1, <2>2, <2>3
<1>4. CASE MarkDecided(d)
  <2> DEFINE ruling == request[d].decision
             marked == IF request[d].via = "mcp" THEN {found[d]} ELSE DOMAIN approvals
             overwritten == [i \in DOMAIN approvals |->
                                IF i \in marked THEN ruling ELSE approvals[i]]
  <2>1. PICK reply \in Retried :
          /\ Request(d, "mark", "lookup", mem[d], reply)
          /\ approvals' = IF Served(reply) THEN overwritten ELSE approvals
          /\ verdict' = IF Served(reply) THEN [verdict EXCEPT ![d] = ruling]
                                         ELSE verdict
          /\ UNCHANGED <<found, steps, task, snapshot, events>>
    BY <1>4 DEF MarkDecided, Retried
  <2>2. InLog("flow.completed")' = InLog("flow.completed")  BY <2>1 DEF InLog
  <2>3. Paused  BY <1>4 DEF MarkDecided, Request
  <2>4. Paused'
    <3>1. approvals \in Seq({"pending"} \union Rulings)  BY DEF TypeOK
    <3>2. ruling \in {"pending"} \union Rulings
      BY <1>4 DEF MarkDecided, Request, Requests
    <3>3. Len(overwritten) = Len(approvals) /\ overwritten \in Seq({"pending"} \union Rulings)
      <4> HIDE DEF ruling, marked
      <4>1. QED BY <3>1, <3>2, Overwritten
    <3> HIDE DEF overwritten
    <3>4. Len(approvals) # 0  BY ONLY <2>3, <3>1 DEF Paused
    <3>5. overwritten # << >>  BY ONLY <3>3, <3>4
    <3>6. QED BY <2>1, <2>3, <3>5
  <2>5. /\ pc'[d] = "lookup" => verdict'[d] = ruling
        /\ pc'[d] = "mark" => verdict'[d] = ruling
    BY <1>1, <2>1 DEF Request, Served, Handled, TypeOK
  <2>6. /\ \A e \in Deciders \ {d} : verdict'[e] = verdict[e]
        /\ verdict'[d] = verdict[d] \/ verdict[d] = "none"
    BY <2>1 DEF TypeOK, Request
  <2>7. pc'[d] \in {"lookup", "raised", "mark"}  BY <1>1, <2>1, RequestEffect
  <2> HIDE DEF overwritten, ruling, marked
  <2>8. DeciderInv(d)'
    <3>1. request[d] \in Requests  BY <2>1 DEF Request
    <3>2. QED BY <1>2, <2>4, <2>5, <2>7, <3>1 DEF ruling
  <2>9. Shown' => Shown  BY <2>1, <2>2
  <2>10. QED BY <2>1, <2>3, <2>4, <2>6, <2>8, <2>9
<1>5. CASE LookUpFlow(d) \/ LoadSnapshot(d)
  <2>1. /\ pc[d] \in {"lookup", "load"}
        /\ pc'[d] \in {"load", "verdict_event", "raised"}
        /\ UNCHANGED <<task, snapshot, approvals, events, verdict>>
    BY <1>1, <1>5, RequestEffect DEF LookUpFlow, LoadSnapshot, rows
  <2>2. InLog("flow.completed")' = InLog("flow.completed")  BY <2>1 DEF InLog
  <2>3. QED BY <1>2, <2>1, <2>2
<1>6. CASE VerdictEvent(d)
  BY <1>1, <1>2, <1>6, AppendSyncEffect DEF VerdictEvent, EventTypes
<1>7. CASE AcceptSnapshot(d) \/ RejectSnapshot(d) \/ ResumeSnapshot(d) \/ FinalSnapshot(d)
  <2>1. InLog("flow.completed")' = InLog("flow.completed")
    BY <1>1, <1>7, WriteSnapshotEffect
       DEF InLog, AcceptSnapshot, RejectSnapshot, ResumeSnapshot, FinalSnapshot
  <2>2. QED BY <1>1, <1>2, <1>7, <2>1, WriteSnapshotEffect
            DEF AcceptSnapshot, RejectSnapshot, ResumeSnapshot, FinalSnapshot
<1>8. CASE AcceptTask(d) \/ RejectTask(d) \/ ResumeTask(d) \/ FinalTask(d)
  <2>1. InLog("flow.completed")' = InLog("flow.completed")
    BY <1>1, <1>8, WriteTaskEffect DEF InLog, AcceptTask, RejectTask, ResumeTask, FinalTask
  <2>2. QED BY <1>1, <1>2, <1>8, <2>1, WriteTaskEffect
            DEF AcceptTask, RejectTask, ResumeTask, FinalTask
<1>9. CASE AcceptEvent(d) \/ RejectEvent(d) \/ ResumedEvent(d) \/ FinalEvent(d)
  BY <1>1, <1>2, <1>9, EmitEffect
     DEF AcceptEvent, RejectEvent, ResumedEvent, FinalEvent, EventTypes
<1>10. QED BY <1>3, <1>4, <1>5, <1>6, <1>7, <1>8, <1>9 DEF Decide

\* The invariant of the gate is inductive.
LEMMA GateInductive == GateInv /\ [Next]_vars => GateInv'
<1> SUFFICES ASSUME GateInv, [Next]_vars  PROVE GateInv'
  OBVIOUS
<1>1. /\ TypeOK /\ RunnerInv /\ ApprovalHasSnapshot /\ ApprovalGate
      /\ \A d \in Deciders : DeciderInv(d)
  BY DEF GateInv
<1>2. \A d \in Deciders : d # Runner /\ d \in Threads
  BY RunnerAssumption DEF Threads
<1>3. CASE RunFlow
  <2>1. TypeOK'  BY <1>1, <1>3, RunFlowTyped
  <2>2. RunnerKeeps  BY <1>1, <1>3, RunFlowGate
  <2>3. /\ UNCHANGED <<request, verdict>>
        /\ \A d \in Deciders : pc'[d] = pc[d] /\ mem'[d] = mem[d]
    BY <1>1, <1>3, RunFlowFrame
  <2>4. Paused => Paused'  BY <2>2 DEF RunnerKeeps
  <2>5. \A d \in Deciders : DeciderInv(d)'
    BY <1>1, <2>3, <2>4 DEF DeciderInv
  <2>6. ApprovalGate'
    BY <1>1, <2>2, <2>3 DEF RunnerKeeps, ApprovalGate, Approved
  <2>7. QED BY <2>1, <2>2, <2>5, <2>6 DEF GateInv, RunnerKeeps
<1>4. ASSUME NEW d \in Deciders, Decide(d)  PROVE GateInv'
  <2>1. TypeOK'
    <3>1. request[d] \in Requests  BY <1>1, <1>4, DecideFrame DEF DeciderInv
    <3>2. QED BY <1>1, <1>4, <3>1, DecideTyped
  <2>2. DeciderKeeps(d)  BY <1>1, <1>4, DecideGate
  <2>3. /\ UNCHANGED request
        /\ \A t \in Threads \ {d} : pc'[t] = pc[t] /\ mem'[t] = mem[t]
    BY <1>1, <1>4, DecideFrame
  <2>4. pc'[Runner] = pc[Runner] /\ mem'[Runner] = mem[Runner]
    BY <1>2, <2>3 DEF Threads
  <2>5. RunnerInv'
    BY <1>1, <2>2, <2>4 DEF RunnerInv, DeciderKeeps
  <2>6. \A e \in Deciders : DeciderInv(e)'
    <3> SUFFICES ASSUME NEW e \in Deciders, e # d  PROVE DeciderInv(e)'
      BY <2>2 DEF DeciderKeeps
    <3>1. QED BY <1>1, <1>2, <2>2, <2>3 DEF DeciderInv, DeciderKeeps
  <2>7. ApprovalHasSnapshot'
    BY <1>1, <2>2 DEF ApprovalHasSnapshot, DeciderKeeps
  <2>8. Approved => Approved'
    BY <2>2 DEF Approved, DeciderKeeps
  <2>9. ApprovalGate'
    BY <1>1, <2>2, <2>8 DEF ApprovalGate, Approved, DeciderKeeps
  <2>10. QED BY <2>1, <2>5, <2>6, <2>7, <2>9 DEF GateInv
<1>5. CASE UNCHANGED <<mem, rows, verdict>> /\ TypeOK'
           /\ RunnerInv' /\ \A d \in Deciders : DeciderInv(d)'
  BY <1>1, <1>5 DEF GateInv, rows, ApprovalHasSnapshot, ApprovalGate, Paused, Shown,
                    InLog, Approved
<1>6. ASSUME NEW d \in Deciders, Ask(d)  PROVE GateInv'
  <2>1. TypeOK'
    <3>1. "check" \in Labels  BY DEF Labels, DeciderLabels
    <3>2. QED BY <1>1, <1>2, <1>6, <3>1 DEF Ask, TypeOK, rows
  <2>2. /\ \A t \in Threads \ {d} : pc'[t] = pc[t]
        /\ pc[d] = "idle" /\ pc'[d] = "check" /\ request'[d] \in Requests
        /\ \A e \in Deciders \ {d} : request'[e] = request[e]
        /\ UNCHANGED <<mem, rows, verdict>>
    BY <1>1, <1>2, <1>6 DEF Ask, TypeOK
  <2>3. RunnerInv'
    BY <1>1, <1>2, <2>2 DEF RunnerInv, rows, Paused, Shown, InLog, Threads
  <2>4. \A e \in Deciders : DeciderInv(e)'
    BY <1>1, <1>2, <2>2 DEF DeciderInv, rows, Paused, DeciderLabels, AcceptLabels,
                            RejectLabels
  <2>5. QED BY <1>5, <2>1, <2>2, <2>3, <2>4
<1>7. ASSUME NEW dying \in SUBSET Threads, Crash(dying)  PROVE GateInv'
  <2>1. /\ \A t \in Threads : pc'[t] \in {"dead", pc[t]}
        /\ UNCHANGED <<mem, request, rows, verdict>>
    BY <1>7 DEF Crash
  <2>2. TypeOK'
    <3>1. "dead" \in Labels  BY DEF Labels, EndLabels
    <3>2. QED BY <1>1, <1>7, <3>1, BoundAssumption DEF Crash, Fault, TypeOK, rows
  <2>3. RunnerInv'
    BY <1>1, <2>1 DEF RunnerInv, rows, Paused, Shown, InLog, Threads, RunnerLabels,
                      PauseLabels, DoneLabels, EarlyLabels, EndLabels
  <2>4. \A e \in Deciders : DeciderInv(e)'
    <3> SUFFICES ASSUME NEW e \in Deciders  PROVE DeciderInv(e)'
      OBVIOUS
    <3>1. pc'[e] # "idle" => pc[e] # "idle"
      BY <1>2, <1>7 DEF Crash, AtWork
    <3>2. QED BY <1>1, <1>2, <2>1, <3>1 DEF DeciderInv, rows, Paused, DeciderLabels,
                                        AcceptLabels, RejectLabels, EndLabels
  <2>5. QED BY <1>5, <2>1, <2>2, <2>3, <2>4
<1>8. CASE UNCHANGED vars
  BY <1>1, <1>8 DEF GateInv, vars, rows, TypeOK, RunnerInv, DeciderInv,
                    ApprovalHasSnapshot, ApprovalGate, Paused, Shown, InLog, Approved
<1>9. QED BY <1>3, <1>4, <1>6, <1>7, <1>8 DEF Next, Terminated

\* It holds before the task exists.
LEMMA GateInitial == Init => GateInv
<1> SUFFICES ASSUME Init  PROVE GateInv
  OBVIOUS
<1>1. TypeOK
  <2>1. << >> \in Seq({"pending"} \union Rulings) /\ << >> \in Seq(EventTypes)
    OBVIOUS
  <2>2. pc \in [Threads -> Labels]
    BY DEF Init, Labels, RunnerLabels, DeciderLabels
  <2>3. QED BY <2>1, <2>2, BoundAssumption DEF Init, TypeOK, Threads, Status
<1>2. ~ Paused /\ ~ Shown
  BY DEF Init, Paused, Shown, InLog
<1>3. RunnerInv
  BY <1>2 DEF Init, RunnerInv, Threads, RunnerLabels, PauseLabels
<1>4. \A d \in Deciders : DeciderInv(d)
  BY RunnerAssumption DEF Init, DeciderInv, Threads, DeciderLabels, AcceptLabels, RejectLabels
<1>5. QED BY <1>1, <1>2, <1>3, <1>4 DEF GateInv, ApprovalHasSnapshot, ApprovalGate

\* A flow that put itself before a supervisor is not shown as completed without
\* an approval: whatever the number of supervisors, steps and faults, and
\* whatever interleaving of execute, the decisions and the crashes.
THEOREM GateCorrect == Spec => []ApprovalGate
<1>1. GateInv => ApprovalGate  BY DEF GateInv
<1>2. QED BY <1>1, GateInitial, GateInductive, PTL DEF Spec

\* Whoever finds an approval row finds the snapshot that resume looks for.
THEOREM SnapshotCorrect == Spec => []ApprovalHasSnapshot
<1>1. GateInv => ApprovalHasSnapshot  BY DEF GateInv
<1>2. QED BY <1>1, GateInitial, GateInductive, PTL DEF Spec

-----------------------------------------------------------------------------
(* One approval row, one decision of a worker's.                           *)

\* What the flow's thread does to the approval rows and to the log.
RunnerLogs ==
    \/ UNCHANGED <<approvals, events>>
    \/ \E type \in {"flow.created", "step.completed", "flow.tokens_recorded", "approval.requested"} :
          approvals' = approvals /\ events' \in {events, Append(events, type)}
    \/ /\ pc[Runner] = "done_event"
       /\ approvals' = approvals /\ events' \in {events, Append(events, "flow.completed")}
    \/ /\ pc[Runner] = "pause_insert"
       /\ approvals' \in {approvals, Append(approvals, "pending")} /\ events' = events

LEMMA RunFlowLogs ==
    ASSUME RunFlow
    PROVE  RunnerLogs
<1>1. CASE InsertTask \/ PauseSnapshotV2 \/ CrewStep \/ CrewReturns \/ CrewPauses \/ CrewRaises
  BY <1>1 DEF InsertTask, PauseSnapshotV2, CrewStep, CrewReturns, CrewPauses, CrewRaises,
              CrewMoves, rows, RunnerLogs
<1>2. CASE StartSnapshot \/ StepSnapshot \/ DoneSnapshot \/ PauseSnapshot
             \/ RepauseSnapshot \/ FailSnapshot
  BY <1>2 DEF StartSnapshot, StepSnapshot, DoneSnapshot, PauseSnapshot, RepauseSnapshot,
              FailSnapshot, WriteSnapshot, RunnerLogs
<1>3. CASE StartTask \/ StepTask \/ DoneTask \/ PauseTask \/ RepauseTask \/ FailTask
  BY <1>3 DEF StartTask, StepTask, DoneTask, PauseTask, RepauseTask, FailTask, WriteTask,
              RunnerLogs
<1>4. CASE EmitCreated \/ EmitStep \/ EmitTokens \/ PauseEvent
  BY <1>4 DEF EmitCreated, EmitStep, EmitTokens, PauseEvent, Emit, AppendSync, Log, RunnerLogs
<1>5. CASE EmitCompleted
  BY <1>5 DEF EmitCompleted, Emit, Log, Request, RunnerLogs
<1>6. CASE PauseInsert
  BY <1>6 DEF PauseInsert, Request, RunnerLogs
<1>7. QED BY <1>1, <1>2, <1>3, <1>4, <1>5, <1>6 DEF RunFlow

\* Two requests that one worker serves.
SameWorker(d, e) == d # e /\ request[d].via = request[e].via /\ request[d].via \in Workers

\* As long as a task has one approval row, a decision of anyone's shows in the row, and
\* only one of a worker's requests is past the check with it or has decided it.
RuledInv ==
    /\ ~ Paused => \A d \in Deciders : verdict[d] = "none"
    /\ \A d \in Deciders : pc[d] = "mark" => found[d] \in DOMAIN approvals
    /\ Len(approvals) = 1 => \A d \in Deciders : verdict[d] # "none" => approvals[1] # "pending"
    /\ \A d, e \in Deciders : SameWorker(d, e) => ~ (pc[d] = "mark" /\ pc[e] = "mark")
    /\ \A d, e \in Deciders : SameWorker(d, e) /\ Len(approvals) = 1 /\ verdict[d] # "none"
                                 => verdict[e] = "none" /\ pc[e] # "mark"

\* With one row, a request that the check lets through finds it pending: nobody has
\* decided.
LEMMA CheckFindsPending ==
    ASSUME TypeOK, RuledInv, NEW d \in Deciders, CheckPending(d), pc'[d] = "mark"
    PROVE  /\ found'[d] \in DOMAIN approvals
           /\ Len(approvals) = 1 => \A e \in Deciders : verdict[e] = "none"
<1>0. d \in Threads  BY DEF Threads
<1>1. \E i \in Pending : Pending = {i}
  BY <1>0 DEF CheckPending, Request, Handled, TypeOK
<1>2. PICK i \in Pending : Pending = {i}  BY <1>1
<1>3. found'[d] = i
  BY <1>2 DEF CheckPending, TypeOK
<1>4. i \in DOMAIN approvals /\ approvals[i] = "pending"  BY <1>2 DEF Pending
<1>5. Len(approvals) = 1 => i = 1
  <2>1. approvals \in Seq({"pending"} \union Rulings)  BY DEF TypeOK
  <2>2. DOMAIN approvals = 1..Len(approvals)  BY <2>1
  <2>3. QED BY <1>4, <2>2
<1>6. QED BY <1>3, <1>4, <1>5 DEF RuledInv

\* The flow's thread inserts rows that are pending, the first one before anyone decides.
LEMMA RunFlowRules ==
    ASSUME GateInv, RuledInv, RunFlow
    PROVE  RuledInv'
<1>t. TypeOK /\ \A d \in Deciders : DeciderInv(d)  BY DEF GateInv
<1>1. /\ UNCHANGED <<request, found, verdict>>
      /\ \A d \in Deciders : pc'[d] = pc[d]
  BY <1>t, RunFlowFrame
<1>2. approvals' \in {approvals, Append(approvals, "pending")}
  BY RunFlowLogs DEF RunnerLogs
<1>3. CASE approvals' = approvals
  BY <1>1, <1>3 DEF RuledInv, Paused, SameWorker
<1>4. CASE approvals' = Append(approvals, "pending")
  <2>0. approvals \in Seq({"pending"} \union Rulings)  BY <1>t DEF TypeOK
  <2>1. /\ Len(approvals') = Len(approvals) + 1 /\ Len(approvals) \in Nat
        /\ DOMAIN approvals \subseteq DOMAIN approvals'
    BY <1>4, <2>0
  <2>2. Len(approvals') = 1 => ~ Paused
    <3>1. Len(approvals) = 0 => approvals = << >>  BY <2>0
    <3>2. Len(approvals') = 1 => Len(approvals) = 0
      <4>1. approvals' \in Seq({"pending"} \union Rulings)  BY <1>4, <2>0
      <4>2. QED BY <2>0, <2>1, <4>1
    <3>3. approvals = << >> => ~ Paused  BY DEF Paused
    <3>4. QED BY ONLY <3>1, <3>2, <3>3
  <2>3. Paused'
    <3>1. approvals' # << >>  BY ONLY <1>4, <2>0, Appended
    <3>2. QED BY <3>1 DEF Paused
  <2>4. Len(approvals') = 1 => \A d \in Deciders : verdict'[d] = "none"
    BY <1>1, <2>2 DEF RuledInv
  <2>5. QED BY <1>1, <2>1, <2>3, <2>4 DEF RuledInv, SameWorker
<1>5. QED BY <1>2, <1>3, <1>4

LEMMA MarkRules ==
    ASSUME GateInv, RuledInv, NEW d \in Deciders, MarkDecided(d)
    PROVE  RuledInv'
<1>t. TypeOK /\ DeciderInv(d) /\ d \in Threads  BY DEF GateInv, Threads
<1> DEFINE ruling == request[d].decision
           marked == IF request[d].via = "mcp" THEN {found[d]} ELSE DOMAIN approvals
           overwritten == [i \in DOMAIN approvals |->
                              IF i \in marked THEN ruling ELSE approvals[i]]
<1>1. PICK reply \in Retried :
        /\ Request(d, "mark", "lookup", mem[d], reply)
        /\ approvals' = IF Served(reply) THEN overwritten ELSE approvals
        /\ verdict' = IF Served(reply) THEN [verdict EXCEPT ![d] = ruling] ELSE verdict
        /\ UNCHANGED <<found, steps, task, snapshot, events>>
  BY DEF MarkDecided, Retried
<1>2. /\ pc[d] = "mark" /\ UNCHANGED <<request, found>>
      /\ \A e \in Deciders \ {d} : pc'[e] = pc[e] /\ verdict'[e] = verdict[e]
  BY <1>1, <1>t DEF Request, TypeOK, Threads
<1>3. ruling # "pending"
  BY <1>2, <1>t DEF DeciderInv, Requests, Rulings
<1>4. found[d] \in DOMAIN approvals  BY <1>2 DEF RuledInv
<1>5. approvals \in Seq({"pending"} \union Rulings)  BY <1>t DEF TypeOK
<1>6. DOMAIN approvals' = DOMAIN approvals
  BY <1>1
<1>7. /\ Len(approvals') = Len(approvals)
      /\ Paused' <=> Paused
  <2>1. DeciderKeeps(d)
    BY <1>t, DecideGate DEF Decide
  <2>2. Paused' <=> Paused  BY <2>1 DEF DeciderKeeps
  <2>3. Len(overwritten) = Len(approvals)
    <3>1. ruling \in {"pending"} \union Rulings  BY <1>2, <1>t DEF DeciderInv, Requests
    <3> HIDE DEF ruling, marked
    <3>2. QED BY <1>5, <3>1, Overwritten
  <2>4. approvals' = overwritten \/ approvals' = approvals  BY <1>1
  <2> HIDE DEF overwritten
  <2>5. QED BY <2>2, <2>3, <2>4
<1>8. Paused  BY <1>2, <1>t DEF DeciderInv
\* The one row carries the ruling, if the request was served.
<1>9. Len(approvals) = 1 => approvals'[1] \in {approvals[1], ruling}
                            /\ (Served(reply) => approvals'[1] = ruling)
  <2> SUFFICES ASSUME Len(approvals) = 1
               PROVE  approvals'[1] \in {approvals[1], ruling}
                      /\ (Served(reply) => approvals'[1] = ruling)
    OBVIOUS
  <2>1. DOMAIN approvals = 1..1  BY <1>5
  <2>2. 1 \in marked  BY <1>4, <2>1
  <2>3. overwritten[1] = ruling  BY <2>1, <2>2
  <2> HIDE DEF overwritten
  <2>4. QED BY <1>1, <2>3
<1> HIDE DEF ruling, marked, overwritten
<1>10. Len(approvals) = 1 => \A e \in Deciders : verdict'[e] # "none" => approvals'[1] # "pending"
  <2>1. CASE Served(reply)  BY <2>1, <1>3, <1>9
  <2>2. CASE ~ Served(reply)  BY <2>2, <1>1 DEF RuledInv
  <2>3. QED BY <2>1, <2>2
\* Nobody else of the worker is at the update, or has made it.
<1>11. ASSUME NEW e \in Deciders, SameWorker(d, e)
       PROVE  /\ pc[e] # "mark"
              /\ Len(approvals) = 1 => verdict[e] = "none"
  <2>1. SameWorker(e, d)  BY <1>11 DEF SameWorker
  <2>2. QED BY <1>2, <1>11, <2>1 DEF RuledInv
<1>12. \A e, f \in Deciders : SameWorker(e, f)' => SameWorker(e, f)
  BY <1>2 DEF SameWorker
<1>13. \A e, f \in Deciders : SameWorker(e, f) => ~ (pc'[e] = "mark" /\ pc'[f] = "mark")
  <2> SUFFICES ASSUME NEW e \in Deciders, NEW f \in Deciders, SameWorker(e, f)
               PROVE  ~ (pc'[e] = "mark" /\ pc'[f] = "mark")
    OBVIOUS
  <2>1. SameWorker(f, e) /\ e # f  BY DEF SameWorker
  <2>2. CASE e = d  BY <2>1, <2>2, <1>2, <1>11
  <2>3. CASE f = d  BY <2>1, <2>3, <1>2, <1>11
  <2>4. CASE e # d /\ f # d  BY <2>4, <1>2 DEF RuledInv
  <2>5. QED BY <2>2, <2>3, <2>4
<1>14. \A e, f \in Deciders : SameWorker(e, f) /\ Len(approvals) = 1 /\ verdict'[e] # "none"
                                 => verdict'[f] = "none" /\ pc'[f] # "mark"
  <2> SUFFICES ASSUME NEW e \in Deciders, NEW f \in Deciders, SameWorker(e, f),
                      Len(approvals) = 1, verdict'[e] # "none"
               PROVE  verdict'[f] = "none" /\ pc'[f] # "mark"
    OBVIOUS
  <2>1. SameWorker(f, e) /\ e # f  BY DEF SameWorker
  <2>2. CASE e = d  BY <2>1, <2>2, <1>2, <1>11
  <2>3. CASE f = d  BY <2>1, <2>3, <1>2, <1>11
  <2>4. CASE e # d /\ f # d  BY <2>4, <1>2 DEF RuledInv
  <2>5. QED BY <2>2, <2>3, <2>4
<1>15. \A e \in Deciders : pc'[e] = "mark" => found'[e] \in DOMAIN approvals'
  BY <1>2, <1>4, <1>6 DEF RuledInv
<1>16. QED BY <1>7, <1>8, <1>10, <1>12, <1>13, <1>14, <1>15 DEF RuledInv

\* What the other operations of a decider leave alone.
LEMMA DecideLeaves ==
    ASSUME TypeOK, NEW d \in Deciders, Decide(d), ~ CheckPending(d), ~ MarkDecided(d)
    PROVE  UNCHANGED <<approvals, verdict, found>> /\ pc'[d] # "mark"
<1>1. d \in Threads  BY DEF Threads
<1>2. CASE LookUpFlow(d) \/ LoadSnapshot(d)
  BY <1>1, <1>2, RequestEffect DEF LookUpFlow, LoadSnapshot, rows
<1>3. CASE VerdictEvent(d)
  BY <1>1, <1>3 DEF VerdictEvent, AppendSync, Log, Request, Handled, TypeOK
<1>4. CASE AcceptSnapshot(d) \/ RejectSnapshot(d) \/ ResumeSnapshot(d) \/ FinalSnapshot(d)
  BY <1>1, <1>4 DEF AcceptSnapshot, RejectSnapshot, ResumeSnapshot, FinalSnapshot,
                    WriteSnapshot, Request, Handled, TypeOK
<1>5. CASE AcceptTask(d) \/ RejectTask(d) \/ ResumeTask(d) \/ FinalTask(d)
  BY <1>1, <1>5 DEF AcceptTask, RejectTask, ResumeTask, FinalTask, WriteTask, Request,
                    Handled, TypeOK
<1>6. CASE AcceptEvent(d) \/ RejectEvent(d) \/ ResumedEvent(d) \/ FinalEvent(d)
  BY <1>1, <1>6 DEF AcceptEvent, RejectEvent, ResumedEvent, FinalEvent, Emit, Log, Request,
                    Handled, TypeOK
<1>7. QED BY <1>2, <1>3, <1>4, <1>5, <1>6 DEF Decide

LEMMA CheckRules ==
    ASSUME GateInv, RuledInv, NEW d \in Deciders, CheckPending(d)
    PROVE  RuledInv'
<1>t. TypeOK /\ DeciderInv(d) /\ d \in Threads  BY DEF GateInv, Threads
<1>1. /\ pc[d] = "check" /\ UNCHANGED <<request, approvals, verdict>>
      /\ \A e \in Deciders \ {d} : pc'[e] = pc[e] /\ found'[e] = found[e]
  BY <1>t DEF CheckPending, Request, TypeOK, rows, Threads
<1>2. request[d] \in Requests /\ verdict[d] = "none"
  BY <1>1, <1>t DEF DeciderInv
\* The event loop of a worker lets nobody past the check while another one is at the update.
<1>3. ASSUME NEW e \in Deciders, SameWorker(d, e) PROVE pc[e] # "mark"
  <2>1. request[d].via # "mcp"  BY <1>3, WorkerAssumption DEF SameWorker
  <2>2. QED BY <1>3, <2>1 DEF CheckPending, MyTurn, SameWorker
<1>4. pc'[d] = "mark" => /\ found'[d] \in DOMAIN approvals
                         /\ Len(approvals) = 1 => \A e \in Deciders : verdict[e] = "none"
  BY <1>t, CheckFindsPending
<1>5. \A e, f \in Deciders : SameWorker(e, f)' => SameWorker(e, f)
  BY <1>1 DEF SameWorker
<1>6. \A e, f \in Deciders : SameWorker(e, f) => ~ (pc'[e] = "mark" /\ pc'[f] = "mark")
  <2> SUFFICES ASSUME NEW e \in Deciders, NEW f \in Deciders, SameWorker(e, f)
               PROVE  ~ (pc'[e] = "mark" /\ pc'[f] = "mark")
    OBVIOUS
  <2>1. SameWorker(f, e) /\ e # f  BY DEF SameWorker
  <2>2. CASE e = d  BY <2>1, <2>2, <1>1, <1>3
  <2>3. CASE f = d  BY <2>1, <2>3, <1>1, <1>3
  <2>4. CASE e # d /\ f # d  BY <2>4, <1>1 DEF RuledInv
  <2>5. QED BY <2>2, <2>3, <2>4
<1>7. \A e, f \in Deciders : SameWorker(e, f) /\ Len(approvals) = 1 /\ verdict[e] # "none"
                                => verdict[f] = "none" /\ pc'[f] # "mark"
  BY <1>1, <1>4 DEF RuledInv
<1>8. QED BY <1>1, <1>4, <1>5, <1>6, <1>7 DEF RuledInv, Paused

LEMMA RuledInitial == Init => RuledInv
<1> SUFFICES ASSUME Init  PROVE RuledInv
  OBVIOUS
<1>1. \A d \in Deciders : verdict[d] = "none" /\ pc[d] = "idle"
  BY RunnerAssumption DEF Init, Threads
<1>2. QED BY <1>1 DEF RuledInv

LEMMA RuledInductive == GateInv /\ RuledInv /\ [Next]_vars => RuledInv'
<1> SUFFICES ASSUME GateInv, RuledInv, [Next]_vars  PROVE RuledInv'
  OBVIOUS
<1>t. TypeOK /\ \A d \in Deciders : DeciderInv(d) /\ d \in Threads
  BY DEF GateInv, Threads
<1>1. CASE RunFlow  BY <1>1, RunFlowRules
<1>2. ASSUME NEW d \in Deciders, Decide(d)  PROVE RuledInv'
  <2>1. CASE ~ CheckPending(d) /\ ~ MarkDecided(d)
    <3>1. UNCHANGED <<approvals, verdict, found>> /\ pc'[d] # "mark"
      BY <1>t, <1>2, <2>1, DecideLeaves
    <3>2. request' = request /\ \A e \in Deciders \ {d} : pc'[e] = pc[e]
      BY <1>t, <1>2, DecideFrame
    <3>3. QED BY <3>1, <3>2 DEF RuledInv, SameWorker, Paused
  <2>2. QED BY <1>2, <2>1, CheckRules, MarkRules
<1>3. ASSUME NEW d \in Deciders, Ask(d)  PROVE RuledInv'
  <2>1. /\ pc[d] = "idle" /\ pc'[d] = "check"
        /\ \A e \in Deciders \ {d} : pc'[e] = pc[e] /\ request'[e] = request[e]
        /\ UNCHANGED <<approvals, verdict, found>>
    BY <1>t, <1>3 DEF Ask, TypeOK, rows
  <2>2. verdict[d] = "none"  BY <1>t, <2>1 DEF DeciderInv
  <2>3. \A e, f \in Deciders : SameWorker(e, f)' => SameWorker(e, f) \/ e = d \/ f = d
    BY <2>1 DEF SameWorker
  <2>4. \A e \in Deciders : pc'[e] = "mark" => pc[e] = "mark" /\ e # d
    BY <2>1
  <2>5. QED BY <2>1, <2>2, <2>3, <2>4 DEF RuledInv, Paused
<1>4. ASSUME NEW dying \in SUBSET Threads, Crash(dying)  PROVE RuledInv'
  <2>1. /\ \A d \in Deciders : pc'[d] = "mark" => pc[d] = "mark"
        /\ UNCHANGED <<request, approvals, verdict, found>>
    BY <1>t, <1>4 DEF Crash, rows
  <2>2. QED BY <2>1 DEF RuledInv, SameWorker, Paused
<1>5. CASE UNCHANGED vars
  BY <1>5 DEF vars, rows, RuledInv, SameWorker, Paused
<1>6. QED BY <1>1, <1>2, <1>3, <1>4, <1>5 DEF Next, Terminated

\* process_approval between its select and its response: of the requests that decide on
\* one approval row, a worker accepts one at most, whatever other workers, MCP servers,
\* lost answers and crashes there are.
THEOREM OneDecisionCorrect == Spec => []OneDecisionPerWorker
<1>1. RuledInv => OneDecisionPerWorker
  <2> SUFFICES ASSUME RuledInv, Len(approvals) = 1, NEW w \in Workers
               PROVE  Cardinality({d \in Deciders : verdict[d] # "none" /\ request[d].via = w}) <= 1
    BY DEF OneDecisionPerWorker
  <2> DEFINE S == {d \in Deciders : verdict[d] # "none" /\ request[d].via = w}
  <2>1. \A d, e \in S : d = e
    BY DEF RuledInv, SameWorker
  <2> HIDE DEF S
  <2>2. S = {} \/ \E d : S = {d}  BY <2>1
  <2>3. ASSUME S = {}  PROVE Cardinality(S) <= 1
    <3>1. Cardinality({}) = 0  BY FS_EmptySet
    <3>2. QED BY <2>3, <3>1
  <2>4. ASSUME NEW d, S = {d}  PROVE Cardinality(S) <= 1
    <3>1. Cardinality({d}) = 1  BY FS_Singleton
    <3>2. QED BY <2>4, <3>1
  <2>5. QED BY <2>2, <2>3, <2>4 DEF S
<1>2. QED BY <1>1, GateInitial, GateInductive, RuledInitial, RuledInductive, PTL DEF Spec

\* "Approval not found or already processed": while a task has one approval row, a request
\* gets past the select of process_approval, or of the MCP tools, only if nobody, through
\* either interface, has decided.
THEOREM LateRefusedCorrect == Spec => LateDecisionRefused
<1>1. GateInv /\ RuledInv /\ [Next]_vars
        => \A d \in Deciders : pc[d] = "check" /\ pc'[d] = "mark" /\ Len(approvals) = 1
              => \A e \in Deciders : verdict[e] = "none"
  <2> SUFFICES ASSUME GateInv, RuledInv, [Next]_vars, NEW d \in Deciders,
                      pc[d] = "check", pc'[d] = "mark", Len(approvals) = 1
               PROVE  \A e \in Deciders : verdict[e] = "none"
    OBVIOUS
  <2>t. TypeOK /\ \A e \in Deciders : e \in Threads  BY DEF GateInv, Threads
  <2>1. ASSUME RunFlow  PROVE FALSE
    BY <2>t, <2>1, RunFlowFrame
  <2>2. ASSUME NEW e \in Deciders, Ask(e)  PROVE FALSE
    BY <2>t, <2>2 DEF Ask, TypeOK
  <2>3. ASSUME NEW e \in Deciders, Decide(e)  PROVE CheckPending(d)
    <3>1. e = d  BY <2>t, <2>3, DecideFrame
    <3>2. ~ MarkDecided(d)  BY DEF MarkDecided, Request
    <3>3. QED BY <2>t, <2>3, <3>1, <3>2, DecideLeaves
  <2>4. ASSUME NEW dying \in SUBSET Threads, Crash(dying)  PROVE FALSE
    BY <2>t, <2>4 DEF Crash
  <2>5. ASSUME UNCHANGED vars  PROVE FALSE
    BY <2>5 DEF vars
  <2>6. CheckPending(d)
    BY <2>1, <2>2, <2>3, <2>4, <2>5 DEF Next, Terminated
  <2>7. QED BY <2>t, <2>6, CheckFindsPending
<1>2. QED BY <1>1, GateInitial, GateInductive, RuledInitial, RuledInductive, PTL
          DEF Spec, LateDecisionRefused

-----------------------------------------------------------------------------
(* The order of the log.                                                   *)

\* What a decision leads to comes after a decision of that kind.
Ordered(log) ==
    \A i \in DOMAIN log :
        /\ log[i] \in {"flow.completed", "flow.resumed"}
             => \E j \in 1..(i - 1) : log[j] = "approval.approved"
        /\ log[i] = "flow.rejected"
             => \E j \in 1..(i - 1) : log[j] = "approval.rejected"

Has(log, type) == \E i \in DOMAIN log : log[i] = type

\* Whoever carries a decision out has it in the log, and nothing is resumed or rejected
\* that has not asked for approval.
LoggedInv ==
    /\ \A d \in Deciders : pc[d] \in AcceptLabels => Has(events, "approval.approved")
    /\ \A d \in Deciders : pc[d] \in RejectLabels => Has(events, "approval.rejected")
    /\ ~ Paused => ~ Has(events, "flow.resumed") /\ ~ Has(events, "flow.rejected")
    /\ Paused => Ordered(events)

\* An event more keeps what the log has.
LEMMA LogGrows ==
    ASSUME TypeOK, NEW type, events' \in {events, Append(events, type)}
    PROVE  \A x : /\ Has(events, x) => Has(events', x)
                  /\ Has(events', x) => Has(events, x) \/ x = type
<1>1. CASE events' = events
  BY <1>1 DEF Has
<1>2. CASE events' = Append(events, type)
  <2>1. events \in Seq(EventTypes)  BY DEF TypeOK
  <2>2. /\ DOMAIN events' = 1..(Len(events) + 1)
        /\ \A i \in DOMAIN events : events'[i] = events[i]
        /\ events'[Len(events) + 1] = type
        /\ DOMAIN events = 1..Len(events) /\ Len(events) \in Nat
    BY <1>2, <2>1
  <2>3. QED BY <2>2 DEF Has
<1>3. QED BY <1>1, <1>2

\* An event that is logged in its turn keeps the order.
LEMMA OrderGrows ==
    ASSUME TypeOK, Ordered(events), NEW type, events' \in {events, Append(events, type)},
           type \in {"flow.completed", "flow.resumed"} => Has(events, "approval.approved"),
           type = "flow.rejected" => Has(events, "approval.rejected")
    PROVE  Ordered(events')
<1>1. CASE events' = events
  BY <1>1 DEF Ordered
<1>2. CASE events' = Append(events, type)
  <2>1. events \in Seq(EventTypes)  BY DEF TypeOK
  <2>2. /\ DOMAIN events' = 1..(Len(events) + 1)
        /\ \A i \in 1..Len(events) : events'[i] = events[i]
        /\ events'[Len(events) + 1] = type
        /\ DOMAIN events = 1..Len(events) /\ Len(events) \in Nat
    BY <1>2, <2>1
  <2> SUFFICES ASSUME NEW i \in DOMAIN events'
               PROVE  /\ events'[i] \in {"flow.completed", "flow.resumed"}
                            => \E j \in 1..(i - 1) : events'[j] = "approval.approved"
                      /\ events'[i] = "flow.rejected"
                            => \E j \in 1..(i - 1) : events'[j] = "approval.rejected"
    BY DEF Ordered
  <2>3. CASE i = Len(events) + 1
    <3>1. /\ Has(events, "approval.approved")
                => \E j \in 1..Len(events) : events'[j] = "approval.approved"
          /\ Has(events, "approval.rejected")
                => \E j \in 1..Len(events) : events'[j] = "approval.rejected"
      BY <2>2 DEF Has
    <3>2. events'[i] = type /\ i - 1 = Len(events)  BY <2>2, <2>3
    <3>3. QED BY <3>1, <3>2
  <2>4. CASE i # Len(events) + 1
    <3>1. i \in 1..Len(events) /\ events'[i] = events[i]  BY <2>2, <2>4
    <3>2. \A j \in 1..(i - 1) : events'[j] = events[j]  BY <2>2, <3>1
    <3>3. QED BY <2>2, <3>1, <3>2 DEF Ordered
  <2>5. QED BY <2>3, <2>4
<1>3. QED BY <1>1, <1>2

LEMMA RunFlowLogged ==
    ASSUME GateInv, LoggedInv, RunFlow
    PROVE  LoggedInv'
<1>t. TypeOK /\ RunnerInv  BY DEF GateInv
<1>1. \A d \in Deciders : pc'[d] = pc[d]  BY <1>t, RunFlowFrame
<1>2. RunnerLogs  BY RunFlowLogs
<1>3. CASE UNCHANGED <<approvals, events>>
  BY <1>1, <1>3 DEF LoggedInv, Paused
<1>4. ASSUME NEW type \in {"flow.created", "step.completed", "flow.tokens_recorded",
                           "approval.requested"},
             approvals' = approvals, events' \in {events, Append(events, type)}
      PROVE  LoggedInv'
  <2>1. Paused' <=> Paused  BY <1>4 DEF Paused
  <2>2. \A x : /\ Has(events, x) => Has(events', x)
               /\ Has(events', x) => Has(events, x) \/ x = type
    BY <1>t, <1>4, LogGrows
  <2>3. Paused => Ordered(events')
    BY <1>t, <1>4, OrderGrows DEF LoggedInv
  <2>4. QED BY <1>1, <1>4, <2>1, <2>2, <2>3 DEF LoggedInv
\* Only a flow that has not asked for approval completes by itself.
<1>5. CASE /\ pc[Runner] = "done_event"
           /\ approvals' = approvals /\ events' \in {events, Append(events, "flow.completed")}
  <2>1. ~ Paused  BY <1>t, <1>5 DEF RunnerInv, DoneLabels
  <2>2. ~ Paused'  BY <1>5, <2>1 DEF Paused
  <2>3. \A x : /\ Has(events, x) => Has(events', x)
               /\ Has(events', x) => Has(events, x) \/ x = "flow.completed"
    BY <1>t, <1>5, LogGrows
  <2>4. QED BY <1>1, <2>1, <2>2, <2>3 DEF LoggedInv
\* And nothing is logged yet that a decision leads to when it asks.
<1>6. CASE pc[Runner] = "pause_insert" /\ events' = events
  <2>1. CASE Paused
    <3>1. Ordered(events')  BY <1>6, <2>1 DEF LoggedInv, Ordered
    <3>2. QED BY <1>1, <1>6, <2>1, <3>1, RunFlowGate DEF GateInv, LoggedInv, Has, RunnerKeeps
  <2>2. CASE ~ Paused
    <3>1. ~ Has(events, "flow.completed") /\ ~ Has(events, "flow.resumed") /\ ~ Has(events, "flow.rejected")
      BY <1>t, <1>6, <2>2 DEF RunnerInv, LoggedInv, Shown, InLog, Has
    <3>2. Ordered(events')  BY <1>6, <3>1 DEF Ordered, Has
    <3>3. QED BY <1>1, <1>6, <2>2, <3>2 DEF LoggedInv, Has
  <2>3. QED BY <2>1, <2>2
<1>7. QED BY <1>2, <1>3, <1>4, <1>5, <1>6 DEF RunnerLogs

\* What a decider does to the log, by the event it logs.
DeciderLogs(d) ==
    \/ /\ events' = events
       /\ pc'[d] \in AcceptLabels => pc[d] \in AcceptLabels
       /\ pc'[d] \in RejectLabels => pc[d] \in RejectLabels
    \/ \E type \in {"approval.approved", "approval.rejected"} :
          /\ events' \in {events, Append(events, type)}
          /\ pc'[d] \in AcceptLabels => type = "approval.approved"
          /\ pc'[d] \in RejectLabels => type = "approval.rejected"
          /\ pc'[d] \in AcceptLabels \union RejectLabels => events' = Append(events, type)
    \/ /\ pc[d] \in AcceptLabels /\ pc'[d] \notin RejectLabels
       /\ \E type \in {"flow.completed", "flow.resumed"} :
             events' \in {events, Append(events, type)}
    \/ /\ pc[d] \in RejectLabels /\ pc'[d] \notin AcceptLabels \union RejectLabels
       /\ events' \in {events, Append(events, "flow.rejected")}

LEMMA DecideLogs ==
    ASSUME TypeOK, NEW d \in Deciders, Decide(d)
    PROVE  DeciderLogs(d)
<1>1. d \in Threads /\ d # Runner  BY RunnerAssumption DEF Threads
<1> USE DEF DeciderLogs, AcceptLabels, RejectLabels
<1>2. CASE CheckPending(d) \/ MarkDecided(d) \/ LookUpFlow(d) \/ LoadSnapshot(d)
  BY <1>1, <1>2 DEF CheckPending, MarkDecided, LookUpFlow, LoadSnapshot, Request, Handled, rows,
                    TypeOK
<1>3. CASE VerdictEvent(d)
  BY <1>1, <1>3 DEF VerdictEvent, AppendSync, Log, Request, Handled, Served, TypeOK
<1>4. CASE AcceptSnapshot(d) \/ RejectSnapshot(d) \/ ResumeSnapshot(d) \/ FinalSnapshot(d)
  BY <1>1, <1>4, WriteSnapshotEffect
     DEF AcceptSnapshot, RejectSnapshot, ResumeSnapshot, FinalSnapshot
<1>5. CASE AcceptTask(d) \/ RejectTask(d) \/ ResumeTask(d) \/ FinalTask(d)
  BY <1>1, <1>5, WriteTaskEffect DEF AcceptTask, RejectTask, ResumeTask, FinalTask
<1>6. CASE AcceptEvent(d) \/ ResumedEvent(d) \/ FinalEvent(d)
  <2>1. /\ pc[d] \in AcceptLabels
        /\ pc'[d] \in {"returned", "final_event", "final_snap", "raised"} \/ pc'[d] = pc[d]
    BY <1>1, <1>6 DEF AcceptEvent, ResumedEvent, FinalEvent, Emit, Log, Request, Handled, TypeOK
  <2>2. \E type \in {"flow.completed", "flow.resumed"} : events' \in {events, Append(events, type)}
    BY <1>6 DEF AcceptEvent, ResumedEvent, FinalEvent, Emit, Log
  <2>3. QED BY <2>1, <2>2
<1>8. CASE RejectEvent(d)
  <2>1. pc[d] = "reject_event" /\ pc'[d] \in {"returned", "raised"}
    BY <1>1, <1>8 DEF RejectEvent, Emit, Log, Request, Handled, Replies, TypeOK
  <2>2. events' \in {events, Append(events, "flow.rejected")}
    BY <1>8 DEF RejectEvent, Emit, Log
  <2>3. QED BY <2>1, <2>2
<1>9. QED BY <1>2, <1>3, <1>4, <1>5, <1>6, <1>8 DEF Decide

LEMMA DecideLogged ==
    ASSUME GateInv, LoggedInv, NEW d \in Deciders, Decide(d)
    PROVE  LoggedInv'
<1>t. TypeOK /\ DeciderInv(d)  BY DEF GateInv
<1>1. \A e \in Deciders \ {d} : pc'[e] = pc[e]
  BY <1>t, DecideFrame DEF Threads
<1>2. Paused' <=> Paused  BY <1>t, DecideGate DEF DeciderKeeps
<1>3. DeciderLogs(d)  BY <1>t, DecideLogs
<1>4. CASE /\ events' = events
           /\ pc'[d] \in AcceptLabels => pc[d] \in AcceptLabels
           /\ pc'[d] \in RejectLabels => pc[d] \in RejectLabels
  BY <1>1, <1>2, <1>4 DEF LoggedInv
\* A decision is logged before it is carried out ...
<1>5. ASSUME NEW type \in {"approval.approved", "approval.rejected"},
             events' \in {events, Append(events, type)},
             pc'[d] \in AcceptLabels => type = "approval.approved",
             pc'[d] \in RejectLabels => type = "approval.rejected",
             pc'[d] \in AcceptLabels \union RejectLabels => events' = Append(events, type)
      PROVE  LoggedInv'
  <2>1. \A x : /\ Has(events, x) => Has(events', x)
               /\ Has(events', x) => Has(events, x) \/ x = type
    BY <1>t, <1>5, LogGrows
  <2>2. Has(Append(events, type), type)
    <3>1. events \in Seq(EventTypes) /\ type \in EventTypes  BY <1>t DEF TypeOK, EventTypes
    <3>2. /\ Len(events) + 1 \in DOMAIN Append(events, type)
          /\ Append(events, type)[Len(events) + 1] = type
      BY <3>1
    <3>3. QED BY <3>2 DEF Has
  <2>3. /\ pc'[d] \in AcceptLabels => Has(events', "approval.approved")
        /\ pc'[d] \in RejectLabels => Has(events', "approval.rejected")
    BY <1>5, <2>2
  <2>4. Paused => Ordered(events')
    BY <1>t, <1>5, OrderGrows DEF LoggedInv
  <2>5. QED BY <1>1, <1>2, <1>5, <2>1, <2>3, <2>4 DEF LoggedInv
\* ... and what it leads to is logged by who has logged it.
<1>6. ASSUME pc[d] \in AcceptLabels, pc'[d] \notin RejectLabels,
             NEW type \in {"flow.completed", "flow.resumed"},
             events' \in {events, Append(events, type)}
      PROVE  LoggedInv'
  <2>1. Has(events, "approval.approved") /\ Paused
    BY <1>t, <1>6 DEF LoggedInv, DeciderInv
  <2>2. \A x : /\ Has(events, x) => Has(events', x)
               /\ Has(events', x) => Has(events, x) \/ x = type
    BY <1>t, <1>6, LogGrows
  <2>3. Ordered(events')
    BY <1>t, <1>6, <2>1, OrderGrows DEF LoggedInv
  <2>4. QED BY <1>1, <1>2, <1>6, <2>1, <2>2, <2>3 DEF LoggedInv
<1>7. CASE /\ pc[d] \in RejectLabels /\ pc'[d] \notin AcceptLabels \union RejectLabels
           /\ events' \in {events, Append(events, "flow.rejected")}
  <2>1. Has(events, "approval.rejected") /\ Paused
    BY <1>t, <1>7 DEF LoggedInv, DeciderInv
  <2>2. \A x : Has(events, x) => Has(events', x)
    BY <1>t, <1>7, LogGrows
  <2>3. Ordered(events')
    <3>1. Ordered(events)  BY <2>1 DEF LoggedInv
    <3>2. QED BY <1>t, <1>7, <2>1, <3>1, OrderGrows
  <2>4. QED BY <1>1, <1>2, <1>7, <2>1, <2>2, <2>3 DEF LoggedInv
<1>8. QED BY <1>3, <1>4, <1>5, <1>6, <1>7 DEF DeciderLogs

LEMMA LoggedInitial == Init => LoggedInv
<1> SUFFICES ASSUME Init  PROVE LoggedInv
  OBVIOUS
<1>1. \A d \in Deciders : pc[d] = "idle"
  BY RunnerAssumption DEF Init, Threads
<1>2. ~ Paused /\ \A x : ~ Has(events, x)
  BY DEF Init, Paused, Has
<1>3. QED BY <1>1, <1>2 DEF LoggedInv, AcceptLabels, RejectLabels

LEMMA LoggedInductive == GateInv /\ LoggedInv /\ [Next]_vars => LoggedInv'
<1> SUFFICES ASSUME GateInv, LoggedInv, [Next]_vars  PROVE LoggedInv'
  OBVIOUS
<1>t. TypeOK /\ \A d \in Deciders : d \in Threads  BY DEF GateInv, Threads
<1>1. ASSUME UNCHANGED <<approvals, events>>,
             \A d \in Deciders : pc'[d] \in {pc[d], "check", "dead"}
      PROVE  LoggedInv'
  BY <1>1 DEF LoggedInv, Paused, AcceptLabels, RejectLabels
<1>2. ASSUME NEW d \in Deciders, Ask(d)  PROVE LoggedInv'
  <2>1. \A e \in Deciders : pc'[e] \in {pc[e], "check"}  BY <1>t, <1>2 DEF Ask, TypeOK
  <2>2. QED BY <1>1, <1>2, <2>1 DEF Ask, rows
<1>3. ASSUME NEW dying \in SUBSET Threads, Crash(dying)  PROVE LoggedInv'
  <2>1. \A e \in Deciders : pc'[e] \in {pc[e], "dead"}  BY <1>t, <1>3 DEF Crash
  <2>2. QED BY <1>1, <1>3, <2>1 DEF Crash, rows
<1>4. CASE UNCHANGED vars
  BY <1>1, <1>4 DEF vars, rows
<1>5. QED BY <1>2, <1>3, <1>4, RunFlowLogged, DecideLogged DEF Next, Terminated

\* Rule R6, "the flow does not advance until the event is confirmed": in the log of a flow
\* that asked for approval, what a decision leads to comes after a decision of that kind,
\* whatever threads overlap, answers are lost or processes die.
THEOREM DecisionLoggedCorrect == Spec => []DecisionLoggedFirst
<1>1. LoggedInv => DecisionLoggedFirst
  BY DEF LoggedInv, Ordered, DecisionLoggedFirst
<1>2. QED BY <1>1, GateInitial, GateInductive, LoggedInitial, LoggedInductive, PTL DEF Spec

-----------------------------------------------------------------------------
(* Decisions that arrive one at a time at a task that rests, and nothing   *)
(* fails: the tables agree, and the task's life is the promised one.       *)

OneAtATime == Serial = TRUE /\ MaxFaults = 0

Logged  == InLog("flow.completed")
Unruled == \A d \in Deciders : verdict[d] = "none"
Row(r)  == Len(approvals) = 1 /\ approvals[1] = r

RuledBy(d, r) == Row(r) /\ verdict[d] = r /\ \A e \in Deciders \ {d} : verdict[e] = "none"

\* What the two tables of the task say.
Says(row, snap) == task = row /\ snapshot.status = snap

\* How far the flow has got, and what it has in memory.
Reached(labels, row, snap, m) == pc[Runner] \in labels /\ Says(row, snap) /\ mem[Runner] = m

RunnerStory ==
    /\ \/ Reached({"insert"}, "none", "none", "none")
       \/ Reached({"trigger_event", "created_event"}, "pending", "none", "pending")
       \/ Reached({"start_snap"}, "pending", "none", "running")
       \/ Reached({"start_row"}, "pending", "running", "running")
       \/ Reached({"crew", "step_snap", "step_row", "step_event"}, "running", "running", "running")
       \/ Reached({"done_event", "tokens_event", "done_snap"}, "running", "running", "completed")
       \/ Reached({"done_row"}, "running", "completed", "completed")
       \/ Reached({"pause_v2"}, "running", "running", "awaiting_approval")
       \/ Reached({"pause_insert", "pause_snap", "pause_row"},
                  "running", "awaiting_approval", "awaiting_approval")
       \/ Reached({"pause_event", "repause_snap", "repause_row"},
                  "awaiting_approval", "awaiting_approval", "awaiting_approval")
       \/ Reached({"fail_snap"}, "running", "running", "failed")
       \/ Reached({"fail_row"}, "running", "failed", "failed")
    /\ Logged <=> pc[Runner] \in {"tokens_event", "done_snap", "done_row"}
    /\ IF pc[Runner] \in PauseLabels \ {"pause_v2", "pause_insert"} THEN Row("pending") ELSE ~ Paused
    /\ Unruled

Waiting == Row("pending") /\ Says("awaiting_approval", "awaiting_approval") /\ Unruled /\ ~ Logged

RestStory ==
    \/ ~ Paused /\ Unruled /\ Says("completed", "completed") /\ Logged
    \/ ~ Paused /\ Unruled /\ Says("failed", "failed") /\ ~ Logged
    \/ Waiting
    \/ \E d \in Deciders : RuledBy(d, "approved") /\ Says("completed", "completed") /\ Logged
    \/ \E d \in Deciders : RuledBy(d, "rejected") /\ Says("failed", "failed") /\ ~ Logged

\* How far a decider has got with its ruling.
Carries(d, labels, m, row, snap) == pc[d] \in labels /\ mem[d] = m /\ Says(row, snap)

DeciderStory(d) ==
    \/ pc[d] = "check" /\ RestStory
    \/ pc[d] = "mark" /\ found[d] = 1 /\ Waiting
    \/ /\ pc[d] \in {"lookup", "load", "verdict_event"}
       /\ Says("awaiting_approval", "awaiting_approval") /\ ~ Logged
       /\ RuledBy(d, request[d].decision)
    \/ /\ \/ Carries(d, {"accept_snap"}, "completed", "awaiting_approval", "awaiting_approval")
          \/ Carries(d, {"accept_row"}, "completed", "awaiting_approval", "completed")
          \/ Carries(d, {"accept_event"}, "completed", "completed", "completed")
          \/ Carries(d, {"resume_snap"}, "running", "awaiting_approval", "awaiting_approval")
          \/ Carries(d, {"resume_row"}, "running", "awaiting_approval", "running")
          \/ Carries(d, {"resumed_event"}, "running", "running", "running")
          \/ Carries(d, {"final_event", "final_snap"}, "completed", "running", "running")
          \/ Carries(d, {"final_row"}, "completed", "running", "completed")
       /\ Logged <=> pc[d] \in {"final_snap", "final_row"}
       /\ RuledBy(d, "approved")
    \/ /\ \/ Carries(d, {"reject_snap"}, "failed", "awaiting_approval", "awaiting_approval")
          \/ Carries(d, {"reject_row"}, "failed", "awaiting_approval", "failed")
          \/ Carries(d, {"reject_event"}, "failed", "failed", "failed")
       /\ ~ Logged
       /\ RuledBy(d, "rejected")

StoryInv ==
    /\ \A t, u \in Threads : AtWork(t) /\ AtWork(u) => t = u
    /\ AtWork(Runner) => RunnerStory
    /\ \A d \in Deciders : AtWork(d) => DeciderStory(d)
    /\ (\A t \in Threads : ~ AtWork(t)) => RestStory

\* What a step does to the task, as TaskLifecycle has it.
Lives == Lifecycle!Next \/ UNCHANGED <<task, Ruling>>

\* Every request is served, once.
LEMMA Answered ==
    ASSUME OneAtATime, TypeOK, NEW t \in Threads, NEW from, NEW to, NEW m, NEW reply,
           Request(t, from, to, m, reply)
    PROVE  /\ reply = "ok" /\ pc[t] = from
           /\ pc' = [pc EXCEPT ![t] = to] /\ mem' = [mem EXCEPT ![t] = m]
           /\ pc'[t] = to /\ mem'[t] = m
           /\ UNCHANGED <<kind, request>>
<1>1. ~ (faults < MaxFaults)  BY DEF OneAtATime, TypeOK
<1>2. QED BY <1>1 DEF Request, Fault, TypeOK

LEMMA SnapshotWritten ==
    ASSUME OneAtATime, TypeOK, NEW t \in Threads, NEW from, NEW to, WriteSnapshot(t, from, to)
    PROVE  /\ pc[t] = from /\ pc' = [pc EXCEPT ![t] = to]
           /\ pc'[t] = to /\ mem'[t] = mem[t]
           /\ snapshot'.status = mem[t]
           /\ UNCHANGED <<task, approvals, events, verdict, request>>
<1>1. PICK reply \in Retried :
        /\ Request(t, from, to, mem[t], reply)
        /\ snapshot' = IF Served(reply) THEN [snapshot EXCEPT !.status = mem[t]]
                                        ELSE snapshot
        /\ UNCHANGED <<found, steps, task, approvals, events, verdict>>
  BY DEF WriteSnapshot
<1>2. /\ reply = "ok" /\ pc[t] = from /\ pc' = [pc EXCEPT ![t] = to]
      /\ pc'[t] = to /\ mem'[t] = mem[t] /\ UNCHANGED <<kind, request>>
  BY <1>1, Answered
<1>3. snapshot'.status = mem[t]  BY <1>1, <1>2 DEF Served, TypeOK
<1>4. QED BY <1>1, <1>2, <1>3

LEMMA TaskWritten ==
    ASSUME OneAtATime, TypeOK, NEW t \in Threads, NEW from, NEW to, NEW m,
           WriteTask(t, from, to, m)
    PROVE  /\ pc[t] = from /\ pc' = [pc EXCEPT ![t] = to]
           /\ pc'[t] = to /\ mem'[t] = m
           /\ task' = mem[t]
           /\ UNCHANGED <<snapshot, approvals, events, verdict, request>>
BY Answered DEF WriteTask, Served

LEMMA EventWritten ==
    ASSUME OneAtATime, TypeOK, NEW t \in Threads, NEW from, NEW to, NEW m,
           NEW type \in EventTypes, NEW replies, Log(t, from, to, m, type, replies)
    PROVE  /\ pc[t] = from /\ pc' = [pc EXCEPT ![t] = to]
           /\ pc'[t] = to /\ mem'[t] = m
           /\ Logged' <=> Logged \/ type = "flow.completed"
           /\ UNCHANGED <<task, snapshot, approvals, verdict, request>>
<1>1. PICK reply \in replies :
        /\ Request(t, from, to, m, reply)
        /\ events' = IF Served(reply) THEN Append(events, type) ELSE events
        /\ UNCHANGED <<found, steps, task, snapshot, approvals, verdict>>
  BY DEF Log
<1>2. /\ reply = "ok" /\ pc[t] = from /\ pc' = [pc EXCEPT ![t] = to]
      /\ pc'[t] = to /\ mem'[t] = m /\ UNCHANGED <<kind, request>>
  BY <1>1, Answered
<1>3. events' = Append(events, type)  BY <1>1, <1>2 DEF Served
<1>4. events \in Seq(EventTypes)  BY DEF TypeOK
<1>5. /\ DOMAIN events' = 1..(Len(events) + 1)
      /\ \A i \in DOMAIN events : events'[i] = events[i]
      /\ events'[Len(events) + 1] = type
      /\ DOMAIN events = 1..Len(events) /\ Len(events) \in Nat
  BY <1>3, <1>4
<1>6. Logged' <=> Logged \/ type = "flow.completed"  BY <1>5 DEF Logged, InLog
<1>7. QED BY <1>1, <1>2, <1>6

\* Where a ruling is anyone's, it is Ruling.
LEMMA RulingKnown ==
    /\ Unruled => Ruling = "none"
    /\ \A d \in Deciders, r \in Rulings :
          verdict[d] = r /\ (\A e \in Deciders \ {d} : verdict[e] = "none") => Ruling = r
<1>1. Unruled => Ruling = "none"  BY DEF Unruled, Ruling
<1>2. ASSUME NEW d \in Deciders, NEW r \in Rulings, verdict[d] = r,
             \A e \in Deciders \ {d} : verdict[e] = "none"
      PROVE  Ruling = r
  <2>1. r # "none"  BY DEF Rulings
  <2>2. (CHOOSE e \in Deciders : verdict[e] # "none") = d  BY <1>2, <2>1
  <2>3. QED BY <1>2, <2>1, <2>2 DEF Ruling
<1>3. QED BY <1>1, <1>2

\* Where the flow's thread is after a step, and what it has done to the task.
RunnerTells ==
    /\ \/ pc'[Runner] \in RunnerLabels /\ RunnerStory'
       \/ pc'[Runner] \in EndLabels /\ RestStory'
    /\ \/ task' = task
       \/ <<task, task'>> \in {<<"none", "pending">>, <<"pending", "running">>,
                               <<"running", "completed">>, <<"running", "failed">>,
                               <<"running", "awaiting_approval">>}

LEMMA RunnerTellsStory ==
    ASSUME OneAtATime, TypeOK, RunnerStory, RunFlow
    PROVE  RunnerTells
<1>0. Runner \in Threads  BY DEF Threads
<1>u. Unruled'  BY RunFlowFrame DEF RunnerStory, Unruled
<1> USE <1>0, <1>u DEF RunnerTells, RunnerStory, Reached, Says, RunnerLabels, PauseLabels, DoneLabels,
            EndLabels
<1>1. CASE InsertTask
  <2>1. PICK reply \in Replies, to \in {"trigger_event", "created_event"} :
          /\ Request(Runner, "insert", to, "pending", reply)
          /\ task' = IF Served(reply) THEN "pending" ELSE task
          /\ UNCHANGED <<found, steps, snapshot, approvals, events, verdict>>
    BY <1>1 DEF InsertTask
  <2>2. /\ reply = "ok" /\ pc[Runner] = "insert" /\ pc'[Runner] = to /\ mem'[Runner] = "pending"
    BY <2>1, Answered
  <2>3. QED BY <2>1, <2>2 DEF Served, Logged, InLog, Paused
<1>2. ASSUME NEW from, NEW to, WriteSnapshot(Runner, from, to),
             <<from, to>> \in {<<"start_snap", "start_row">>, <<"step_snap", "step_row">>,
                               <<"done_snap", "done_row">>, <<"pause_snap", "pause_row">>,
                               <<"repause_snap", "repause_row">>, <<"fail_snap", "fail_row">>}
      PROVE  RunnerTells
  <2>1. /\ pc[Runner] = from
        /\ pc'[Runner] = to /\ mem'[Runner] = mem[Runner] /\ snapshot'.status = mem[Runner]
        /\ UNCHANGED <<task, approvals, events, verdict>>
    BY <1>2, SnapshotWritten
  <2>2. QED BY <1>2, <2>1 DEF Logged, InLog, Paused, Row
<1>3. CASE StartSnapshot \/ StepSnapshot \/ DoneSnapshot \/ PauseSnapshot \/ RepauseSnapshot
             \/ FailSnapshot
  BY <1>2, <1>3
     DEF StartSnapshot, StepSnapshot, DoneSnapshot, PauseSnapshot, RepauseSnapshot, FailSnapshot
<1>4. ASSUME NEW from, NEW to, NEW m, WriteTask(Runner, from, to, m),
             <<from, to, m>> \in {<<"start_row", "crew", "running">>,
                                  <<"step_row", "step_event", "running">>,
                                  <<"done_row", "returned", "completed">>,
                                  <<"pause_row", "pause_event", "awaiting_approval">>,
                                  <<"repause_row", "returned", "awaiting_approval">>,
                                  <<"fail_row", "raised", "failed">>}
      PROVE  RunnerTells
  <2>1. /\ pc[Runner] = from
        /\ pc'[Runner] = to /\ mem'[Runner] = m /\ task' = mem[Runner]
        /\ UNCHANGED <<snapshot, approvals, events, verdict>>
    BY <1>4, TaskWritten
  <2>2. QED BY <1>4, <2>1 DEF Logged, InLog, Paused, Row, RestStory, Waiting
<1>5. CASE StartTask \/ StepTask \/ DoneTask \/ PauseTask \/ RepauseTask \/ FailTask
  BY <1>4, <1>5 DEF StartTask, StepTask, DoneTask, PauseTask, RepauseTask, FailTask
<1>6. ASSUME NEW from, NEW to, NEW m, NEW type \in EventTypes, NEW replies,
             Log(Runner, from, to, m, type, replies),
             <<from, to, m, type>> \in
                {<<"trigger_event", "start_snap", "running", "flow.created">>,
                 <<"created_event", "start_snap", "running", "flow.created">>,
                 <<"step_event", "crew", "running", "step.completed">>,
                 <<"done_event", "done_snap", "completed", "flow.completed">>,
                 <<"done_event", "tokens_event", "completed", "flow.completed">>,
                 <<"tokens_event", "done_snap", "completed", "flow.tokens_recorded">>,
                 <<"pause_event", "repause_snap", "awaiting_approval", "approval.requested">>,
                 <<"pause_event", "returned", "awaiting_approval", "approval.requested">>}
      PROVE  RunnerTells
  <2>1. /\ pc[Runner] = from
        /\ pc'[Runner] = to /\ mem'[Runner] = m
        /\ Logged' <=> Logged \/ type = "flow.completed"
        /\ UNCHANGED <<task, snapshot, approvals, verdict>>
    BY <1>6, EventWritten
  <2>2. QED BY <1>6, <2>1 DEF Paused, Row, RestStory, Waiting
<1>7. CASE EmitCreated \/ EmitStep \/ EmitCompleted \/ EmitTokens \/ PauseEvent
  BY <1>6, <1>7 DEF EmitCreated, EmitStep, EmitCompleted, EmitTokens, PauseEvent, Emit, AppendSync,
                    EventTypes
<1>8. ASSUME NEW to, NEW m, CrewMoves(to, m),
             <<to, m>> \in {<<"step_snap", "running">>, <<"done_event", "completed">>,
                            <<"pause_v2", "awaiting_approval">>, <<"fail_snap", "failed">>}
      PROVE  RunnerTells
  <2>1. /\ pc[Runner] = "crew"
        /\ pc'[Runner] = to /\ mem'[Runner] = m
        /\ UNCHANGED <<task, snapshot, approvals, events, verdict>>
    BY <1>8 DEF CrewMoves, rows, TypeOK
  <2>2. QED BY <1>8, <2>1 DEF Logged, InLog, Paused
<1>9. CASE CrewStep \/ CrewReturns \/ CrewPauses \/ CrewRaises
  BY <1>8, <1>9 DEF CrewStep, CrewReturns, CrewPauses, CrewRaises
<1>10. CASE PauseSnapshotV2
  <2>1. PICK reply \in Retried :
          /\ Request(Runner, "pause_v2", "pause_insert", "awaiting_approval", reply)
          /\ snapshot' = IF Served(reply)
                           THEN [status |-> "awaiting_approval", aggregate |-> TRUE]
                           ELSE snapshot
          /\ UNCHANGED <<found, steps, task, approvals, events, verdict>>
    BY <1>10 DEF PauseSnapshotV2
  <2>2. /\ reply = "ok" /\ pc[Runner] = "pause_v2" /\ pc'[Runner] = "pause_insert"
        /\ mem'[Runner] = "awaiting_approval"
    BY <2>1, Answered
  <2>3. QED BY <2>1, <2>2 DEF Served, Logged, InLog, Paused
<1>11. CASE PauseInsert
  <2>1. PICK reply \in Retried :
          /\ Request(Runner, "pause_insert", "pause_snap", "awaiting_approval", reply)
          /\ approvals' = IF Served(reply) THEN Append(approvals, "pending")
                                           ELSE approvals
          /\ UNCHANGED <<found, steps, task, snapshot, events, verdict>>
    BY <1>11 DEF PauseInsert
  <2>2. /\ reply = "ok" /\ pc[Runner] = "pause_insert" /\ pc'[Runner] = "pause_snap"
        /\ mem'[Runner] = "awaiting_approval"
    BY <2>1, Answered
  <2>3. approvals' = Append(<< >>, "pending")  BY <2>1, <2>2 DEF Served, Paused
  <2>4. Row("pending")'  BY <2>3 DEF Row
  <2>5. QED BY <2>1, <2>2, <2>4 DEF Logged, InLog
<1>12. QED BY <1>1, <1>3, <1>5, <1>7, <1>9, <1>10, <1>11 DEF RunFlow

\* A task that nobody has ruled on moves as TaskLifecycle lets it, ...
LEMMA UnruledLives ==
    ASSUME Unruled, verdict' = verdict,
           \/ task' = task
           \/ <<task, task'>> \in {<<"none", "pending">>, <<"pending", "running">>,
                                   <<"running", "completed">>, <<"running", "failed">>,
                                   <<"running", "awaiting_approval">>}
    PROVE  Lives
<1>1. Ruling = "none" /\ Ruling' = Ruling  BY RulingKnown DEF Ruling
<1>2. QED
  BY <1>1 DEF Lives, Lifecycle!Next, Lifecycle!Create, Lifecycle!Start, Lifecycle!Finish,
              Lifecycle!Pause, Lifecycle!Move, Lifecycle!Ended

\* ... and so does one whose ruling is carried out.
LEMMA RuledLives ==
    ASSUME NEW d \in Deciders, NEW r \in Rulings, RuledBy(d, r), verdict' = verdict,
           \/ task' = task
           \/ r = "approved" /\ <<task, task'>> \in {<<"awaiting_approval", "running">>,
                                                     <<"awaiting_approval", "completed">>,
                                                     <<"running", "completed">>}
           \/ r = "rejected" /\ <<task, task'>> = <<"awaiting_approval", "failed">>
    PROVE  Lives
<1>1. Ruling = r /\ Ruling' = Ruling  BY RulingKnown DEF RuledBy, Ruling
<1>2. QED
  BY <1>1 DEF Lives, Lifecycle!Next, Lifecycle!Resume, Lifecycle!Settle, Lifecycle!Move

\* Where a decider is after a step, and that the step is one of the task's life.
DeciderTells(d) ==
    /\ \/ pc'[d] \in DeciderLabels \ {"idle"} /\ DeciderStory(d)'
       \/ pc'[d] \in EndLabels /\ RestStory'
    /\ Lives

\* Up to the ruling the task rests.
LEMMA RulingTellsStory ==
    ASSUME OneAtATime, TypeOK, NEW d \in Deciders, request[d] \in Requests, DeciderStory(d),
           CheckPending(d) \/ MarkDecided(d)
    PROVE  DeciderTells(d)
<1>0. d \in Threads /\ request[d].decision \in Rulings  BY DEF Threads, Requests
<1> USE <1>0
<1>1. CASE CheckPending(d)
  <2> DEFINE one == \E i \in Pending : Pending = {i}
  <2>1. PICK reply \in {"ok", "refused"} :
            /\ Request(d, "check", IF one THEN "mark" ELSE "refused", mem[d], reply)
            /\ found' = [found EXCEPT ![d] = IF Pending = {} THEN 0
                                             ELSE CHOOSE i \in Pending : TRUE]
            /\ UNCHANGED <<steps, rows, verdict>>
    BY <1>1 DEF CheckPending
  <2> HIDE DEF one
  <2>2. pc[d] = "check" /\ pc'[d] = IF one THEN "mark" ELSE "refused"
    BY <2>1, Answered
  <2>3. UNCHANGED <<task, snapshot, approvals, events, verdict>>  BY <2>1 DEF rows
  <2>4. RestStory  BY <2>2 DEF DeciderStory, Carries
  <2>5. Lives  BY <2>3 DEF Lives, Ruling
  <2>6. CASE one
    <3>1. PICK i \in Pending : Pending = {i}  BY <2>6 DEF one
    <3>2. i \in DOMAIN approvals /\ approvals[i] = "pending"  BY <3>1 DEF Pending
    <3>3. approvals # << >> /\ approvals[1] \in {"pending"} \union Rulings
      <4>1. approvals \in Seq({"pending"} \union Rulings)  BY DEF TypeOK
      <4>2. 1 \in DOMAIN approvals  BY <3>2, <4>1
      <4>3. approvals # << >>  BY <4>1, <4>2
      <4>4. QED BY <4>1, <4>2, <4>3
    <3>4. i = 1 /\ Waiting
      <4>1. Len(approvals) = 1
        BY <2>4, <3>3 DEF RestStory, Waiting, RuledBy, Row, Paused
      <4>2. approvals \in Seq({"pending"} \union Rulings)  BY DEF TypeOK
      <4>3. i = 1  BY <3>2, <4>1, <4>2
      <4>4. ~ \E r \in Rulings : Row(r)  BY <3>2, <4>3 DEF Row, Rulings
      <4>5. QED BY <2>4, <3>3, <4>3, <4>4 DEF RestStory, RuledBy, Paused, Rulings
    <3>5. found'[d] = 1  BY <2>1, <3>1, <3>4 DEF TypeOK
    <3>6. Waiting'  BY <2>3, <3>4 DEF Waiting, Row, Says, Unruled, Logged, InLog
    <3>7. QED BY <2>2, <2>5, <2>6, <3>5, <3>6 DEF DeciderTells, DeciderStory, DeciderLabels
  <2>7. CASE ~ one
    <3>1. RestStory'
      BY <2>3, <2>4 DEF RestStory, Waiting, RuledBy, Row, Says, Unruled, Logged, InLog, Paused
    <3>2. QED BY <2>2, <2>5, <2>7, <3>1 DEF DeciderTells, EndLabels
  <2>8. QED BY <2>6, <2>7
<1>2. CASE MarkDecided(d)
  <2> DEFINE ruling == request[d].decision
             marked == IF request[d].via = "mcp" THEN {found[d]} ELSE DOMAIN approvals
             ruled  == [i \in DOMAIN approvals |-> IF i \in marked THEN ruling ELSE approvals[i]]
  <2>1. PICK reply :
          /\ Request(d, "mark", "lookup", mem[d], reply)
          /\ approvals' = IF Served(reply) THEN ruled ELSE approvals
          /\ verdict' = IF Served(reply) THEN [verdict EXCEPT ![d] = ruling] ELSE verdict
          /\ UNCHANGED <<found, steps, task, snapshot, events>>
    BY <1>2 DEF MarkDecided
  <2>2. reply = "ok" /\ pc[d] = "mark" /\ pc'[d] = "lookup" /\ UNCHANGED request
    BY <2>1, Answered
  <2>3. approvals' = ruled /\ verdict' = [verdict EXCEPT ![d] = ruling]
    BY <2>1, <2>2 DEF Served
  <2>4. found[d] = 1 /\ Waiting  BY <2>2 DEF DeciderStory, Carries
  <2>5. approvals \in Seq({"pending"} \union Rulings) /\ Len(approvals) = 1
    BY <2>4 DEF TypeOK, Waiting, Row
  <2>6. Len(ruled) = 1 /\ ruled[1] = ruling
    <3>1. DOMAIN approvals = 1..1 /\ 1 \in marked  BY <2>4, <2>5
    <3>2. Len(ruled) = Len(approvals)  BY <2>5, Overwritten
    <3>3. QED BY <2>5, <3>1, <3>2
  <2>7. Row(ruling)'
    BY <2>2, <2>3, <2>6 DEF Row
  <2>8. verdict'[d] = ruling /\ \A e \in Deciders \ {d} : verdict'[e] = "none"
    BY <2>3, <2>4 DEF Waiting, Unruled, TypeOK
  <2>9. Says("awaiting_approval", "awaiting_approval")' /\ ~ Logged'
    BY <2>1, <2>4 DEF Waiting, Says, Logged, InLog
  <2>10. DeciderStory(d)'
    BY <2>2, <2>7, <2>8, <2>9 DEF DeciderStory, RuledBy
  <2>11. Lives
    <3>1. Ruling = "none" /\ Ruling' = ruling
      <4>1. Ruling = "none"  BY <2>4, RulingKnown DEF Waiting
      <4>2. ruling # "none"  BY DEF Rulings
      <4>3. (CHOOSE e \in Deciders : verdict'[e] # "none") = d  BY <2>8, <4>2
      <4>4. Ruling' = ruling  BY <2>8, <4>2, <4>3 DEF Ruling
      <4>5. QED BY <4>1, <4>4
    <3>2. task = "awaiting_approval" /\ task' = task  BY <2>1, <2>4 DEF Waiting, Says
    <3>3. Lifecycle!Rule  BY <3>1, <3>2 DEF Lifecycle!Rule, Lifecycle!Rulings, Rulings
    <3>4. QED BY <3>3 DEF Lives, Lifecycle!Next
  <2>12. QED BY <2>2, <2>10, <2>11 DEF DeciderTells, DeciderLabels
<1>3. QED BY <1>1, <1>2

\* Afterwards it carries its ruling out, request by request.
LEMMA CarryingTellsStory ==
    ASSUME OneAtATime, TypeOK, ApprovalHasSnapshot, NEW d \in Deciders, request[d] \in Requests,
           DeciderStory(d), Decide(d), ~ CheckPending(d), ~ MarkDecided(d)
    PROVE  DeciderTells(d)
<1>0. d \in Threads /\ request[d].decision \in Rulings  BY DEF Threads, Requests
<1> USE <1>0 DEF DeciderStory, Carries, Says, RuledBy, DeciderLabels, AcceptLabels, RejectLabels,
                 EndLabels
<1>1. ASSUME NEW to \in {"load", "verdict_event"},
             pc'[d] = to, UNCHANGED <<task, snapshot, approvals, events, verdict, request>>,
             \/ pc[d] = "lookup" /\ to = "load"
             \/ pc[d] = "load" /\ to = "verdict_event"
      PROVE  DeciderTells(d)
  <2>1. RuledBy(d, request[d].decision) /\ ~ Logged
    BY <1>1
  <2>2. Lives  BY <1>1 DEF Lives, Ruling
  <2>3. QED BY <1>1, <2>1, <2>2 DEF DeciderTells, Row, Logged, InLog
<1>2. CASE LookUpFlow(d)
  BY <1>1, <1>2, Answered DEF LookUpFlow, rows
<1>3. CASE LoadSnapshot(d)
  <2>1. PICK reply :
          /\ Request(d, "load", IF snapshot.aggregate THEN "verdict_event" ELSE "raised",
                     snapshot.status, reply)
          /\ UNCHANGED <<found, steps, rows, verdict>>
    BY <1>3 DEF LoadSnapshot
  <2>2. pc[d] = "load"  BY <2>1, Answered
  <2>3. approvals # << >>  BY <2>2 DEF Row
  <2>4. snapshot.aggregate  BY <2>3 DEF ApprovalHasSnapshot, Paused
  <2>5. Request(d, "load", "verdict_event", snapshot.status, reply)  BY <2>1, <2>4
  <2>6. pc'[d] = "verdict_event" /\ UNCHANGED request  BY <2>5, Answered
  <2>7. QED BY <1>1, <2>1, <2>2, <2>6 DEF rows
<1>4. ASSUME NEW from, NEW to, WriteSnapshot(d, from, to),
             <<from, to>> \in {<<"accept_snap", "accept_row">>, <<"reject_snap", "reject_row">>,
                               <<"resume_snap", "resume_row">>, <<"final_snap", "final_row">>}
      PROVE  DeciderTells(d)
  <2>1. /\ pc[d] = from
        /\ pc'[d] = to /\ mem'[d] = mem[d] /\ snapshot'.status = mem[d]
        /\ UNCHANGED <<task, approvals, events, verdict>>
    BY <1>4, SnapshotWritten
  <2>2. Lives  BY <2>1 DEF Lives, Ruling
  <2>3. QED BY <1>4, <2>1, <2>2 DEF DeciderTells, Row, Logged, InLog
<1>5. CASE AcceptSnapshot(d) \/ RejectSnapshot(d) \/ ResumeSnapshot(d) \/ FinalSnapshot(d)
  BY <1>4, <1>5 DEF AcceptSnapshot, RejectSnapshot, ResumeSnapshot, FinalSnapshot
<1>6. ASSUME NEW from, NEW to, NEW m, WriteTask(d, from, to, m),
             <<from, to, m>> \in {<<"accept_row", "accept_event", "completed">>,
                                  <<"reject_row", "reject_event", "failed">>,
                                  <<"resume_row", "resumed_event", "running">>,
                                  <<"final_row", "returned", "completed">>}
      PROVE  DeciderTells(d)
  <2>1. /\ pc[d] = from
        /\ pc'[d] = to /\ mem'[d] = m /\ task' = mem[d]
        /\ UNCHANGED <<snapshot, approvals, events, verdict>>
    BY <1>6, TaskWritten
  <2>2. Lives
    <3>1. {"approved", "rejected"} = Rulings  BY DEF Rulings
    <3>2. CASE from = "reject_row"
      <4>1. RuledBy(d, "rejected") /\ <<task, task'>> = <<"awaiting_approval", "failed">>
        BY <2>1, <3>2
      <4>2. QED BY <2>1, <3>1, <4>1, RuledLives
    <3>3. CASE from # "reject_row"
      <4>1. RuledBy(d, "approved")  BY <1>6, <2>1, <3>3
      <4>2. <<task, task'>> \in {<<"awaiting_approval", "running">>,
                                 <<"awaiting_approval", "completed">>, <<"running", "completed">>}
        BY <1>6, <2>1, <3>3
      <4>3. QED BY <2>1, <3>1, <4>1, <4>2, RuledLives
    <3>4. QED BY <3>2, <3>3
  <2>3. QED BY <1>6, <2>1, <2>2 DEF DeciderTells, Row, Logged, InLog, RestStory
<1>7. CASE AcceptTask(d) \/ RejectTask(d) \/ ResumeTask(d) \/ FinalTask(d)
  BY <1>6, <1>7 DEF AcceptTask, RejectTask, ResumeTask, FinalTask
<1>8. ASSUME NEW from, NEW to, NEW m, NEW type \in EventTypes, NEW replies,
             Log(d, from, to, m, type, replies),
             <<from, to, m, type>> \in
                {<<"verdict_event", "accept_snap", "completed", "approval.approved">>,
                 <<"verdict_event", "resume_snap", "running", "approval.approved">>,
                 <<"verdict_event", "reject_snap", "failed", "approval.rejected">>,
                 <<"accept_event", "returned", "completed", "flow.completed">>,
                 <<"reject_event", "returned", "failed", "flow.rejected">>,
                 <<"resumed_event", "final_event", "completed", "flow.resumed">>,
                 <<"final_event", "final_snap", "completed", "flow.completed">>},
             type = "approval.approved" => request[d].decision = "approved",
             type = "approval.rejected" => request[d].decision = "rejected"
      PROVE  DeciderTells(d)
  <2>1. /\ pc[d] = from
        /\ pc'[d] = to /\ mem'[d] = m
        /\ Logged' <=> Logged \/ type = "flow.completed"
        /\ UNCHANGED <<task, snapshot, approvals, verdict>>
    <3>1. Log(d, from, to, m, type, replies)  BY <1>8
    <3>2. pc[d] = from /\ pc'[d] = to /\ mem'[d] = m  BY <3>1, EventWritten
    <3>3. Logged' <=> Logged \/ type = "flow.completed"  BY <3>1, EventWritten
    <3>4. UNCHANGED <<task, snapshot, approvals, verdict>>  BY <3>1, EventWritten
    <3>5. QED BY <3>2, <3>3, <3>4
  <2>2. Lives  BY <2>1 DEF Lives, Ruling
  <2>3. QED BY <1>8, <2>1, <2>2 DEF DeciderTells, Row, RestStory
<1>9. CASE VerdictEvent(d) \/ AcceptEvent(d) \/ RejectEvent(d) \/ ResumedEvent(d) \/ FinalEvent(d)
  BY <1>8, <1>9 DEF VerdictEvent, AcceptEvent, RejectEvent, ResumedEvent, FinalEvent, Emit,
                    AppendSync, EventTypes
<1>10. QED BY <1>2, <1>3, <1>5, <1>7, <1>9 DEF Decide

\* A thread that makes a step is at work.
LEMMA StepAtWork ==
    /\ RunFlow => AtWork(Runner)
    /\ \A d \in Deciders : Decide(d) => AtWork(d)
<1> USE DEF AtWork, EndLabels
<1>1. RunFlow => AtWork(Runner)
  BY DEF RunFlow, InsertTask, EmitCreated, StartSnapshot, StartTask, CrewStep, StepSnapshot,
         StepTask, EmitStep, CrewReturns, CrewPauses, CrewRaises, EmitCompleted, EmitTokens,
         DoneSnapshot, DoneTask, PauseSnapshotV2, PauseInsert, PauseSnapshot, PauseTask,
         PauseEvent, RepauseSnapshot, RepauseTask, FailSnapshot, FailTask, CrewMoves,
         WriteSnapshot, WriteTask, Emit, AppendSync, Log, Request
<1>2. \A d \in Deciders : Decide(d) => AtWork(d)
  BY DEF Decide, CheckPending, MarkDecided, LookUpFlow, LoadSnapshot, VerdictEvent,
         AcceptSnapshot, AcceptTask, AcceptEvent, RejectSnapshot, RejectTask, RejectEvent,
         ResumeSnapshot, ResumeTask, ResumedEvent, FinalEvent, FinalSnapshot, FinalTask,
         WriteSnapshot, WriteTask, Emit, AppendSync, Log, Request
<1>3. QED BY <1>1, <1>2

\* The parts of a story that do not belong to a thread stay with the tables.
LEMMA StoryStays ==
    ASSUME UNCHANGED <<task, snapshot, approvals, events, verdict>>
    PROVE  RestStory' <=> RestStory
BY DEF RestStory, Waiting, RuledBy, Row, Says, Unruled, Logged, InLog, Paused

LEMMA StoryInductive ==
    ASSUME OneAtATime, GateInv, StoryInv, [Next]_vars
    PROVE  StoryInv' /\ Lives
<1>t. TypeOK /\ RunnerInv /\ ApprovalHasSnapshot /\ \A d \in Deciders : DeciderInv(d)
  BY DEF GateInv
<1>r. Runner \in Threads /\ \A d \in Deciders : d \in Threads /\ d # Runner
  BY RunnerAssumption DEF Threads
\* What follows from where the one thread at work, t, is afterwards.
<1>a. ASSUME NEW t \in Threads, AtWork(t), \A u \in Threads \ {t} : pc'[u] = pc[u],
             \/ AtWork(t)' /\ t = Runner /\ RunnerStory'
             \/ AtWork(t)' /\ t \in Deciders /\ DeciderStory(t)'
             \/ ~ AtWork(t)' /\ RestStory'
      PROVE  StoryInv'
  <2>1. \A u \in Threads \ {t} : ~ AtWork(u)  BY <1>a DEF StoryInv
  <2>2. \A u \in Threads \ {t} : ~ AtWork(u)'  BY <1>a, <2>1 DEF AtWork
  <2>3. \A u, v \in Threads : AtWork(u)' /\ AtWork(v)' => u = v  BY <2>2
  <2>4. AtWork(Runner)' => RunnerStory'  BY <1>a, <1>r, <2>2
  <2>5. \A d \in Deciders : AtWork(d)' => DeciderStory(d)'  BY <1>a, <1>r, <2>2
  <2>6. (\A u \in Threads : ~ AtWork(u)') => RestStory'  BY <1>a
  <2>7. QED BY <2>3, <2>4, <2>5, <2>6 DEF StoryInv
<1>1. CASE RunFlow
  <2>1. AtWork(Runner)  BY <1>1, StepAtWork
  <2>2. RunnerStory  BY <2>1 DEF StoryInv
  <2>3. RunnerTells  BY <1>1, <1>t, <2>2, RunnerTellsStory
  <2>4. \A u \in Threads \ {Runner} : pc'[u] = pc[u]  BY <1>1, <1>t, RunFlowFrame DEF Threads
  <2>5. verdict' = verdict  BY <1>1, <1>t, RunFlowFrame
  <2>6. Lives  BY <2>2, <2>3, <2>5, UnruledLives DEF RunnerTells, RunnerStory
  <2>7. \/ AtWork(Runner)' /\ RunnerStory'
        \/ ~ AtWork(Runner)' /\ RestStory'
    BY <2>3 DEF RunnerTells, AtWork, RunnerLabels, PauseLabels, DoneLabels, EndLabels
  <2>8. QED BY <1>a, <1>r, <2>1, <2>4, <2>6, <2>7
<1>2. ASSUME NEW d \in Deciders, Decide(d)  PROVE StoryInv' /\ Lives
  <2>1. AtWork(d)  BY <1>2, StepAtWork
  <2>2. DeciderStory(d)  BY <2>1 DEF StoryInv
  <2>3. request[d] \in Requests  BY <1>t, <2>1 DEF DeciderInv, AtWork
  <2>4. DeciderTells(d)
    <3>1. CASE CheckPending(d) \/ MarkDecided(d)
      BY <1>t, <2>2, <2>3, <3>1, RulingTellsStory
    <3>2. CASE ~ CheckPending(d) /\ ~ MarkDecided(d)
      BY <1>2, <1>t, <2>2, <2>3, <3>2, CarryingTellsStory
    <3>3. QED BY <3>1, <3>2
  <2>5. \A u \in Threads \ {d} : pc'[u] = pc[u]  BY <1>2, <1>t, DecideFrame
  <2>6. \/ AtWork(d)' /\ DeciderStory(d)'
        \/ ~ AtWork(d)' /\ RestStory'
    BY <2>4 DEF DeciderTells, AtWork, DeciderLabels, AcceptLabels, RejectLabels, EndLabels
  <2>7. StoryInv'  BY <1>a, <1>r, <2>1, <2>5, <2>6
  <2>8. QED BY <2>4, <2>7 DEF DeciderTells
<1>3. ASSUME NEW d \in Deciders, Ask(d)  PROVE StoryInv' /\ Lives
  <2>1. \A t \in Threads : ~ AtWork(t)  BY <1>3 DEF Ask, OneAtATime
  <2>2. RestStory  BY <2>1 DEF StoryInv
  <2>3. /\ pc'[d] = "check" /\ \A u \in Threads \ {d} : pc'[u] = pc[u]
        /\ UNCHANGED <<task, snapshot, approvals, events, verdict>>
    BY <1>3, <1>t, <1>r DEF Ask, rows, TypeOK
  <2>4. RestStory'  BY <2>2, <2>3, StoryStays
  <2>5. \A u \in Threads \ {d} : ~ AtWork(u)'  BY <2>1, <2>3 DEF AtWork
  <2>6. DeciderStory(d)'  BY <2>3, <2>4 DEF DeciderStory
  <2>7. Lives  BY <2>3 DEF Lives, Ruling
  <2>8. \A u, v \in Threads : AtWork(u)' /\ AtWork(v)' => u = v  BY <2>5
  <2>9. ~ AtWork(Runner)'  BY <1>r, <2>5
  <2>10. \A e \in Deciders : AtWork(e)' => DeciderStory(e)'  BY <1>r, <2>5, <2>6
  <2>11. QED BY <2>4, <2>7, <2>8, <2>9, <2>10 DEF StoryInv
<1>4. ASSUME NEW dying \in SUBSET Threads, Crash(dying)  PROVE FALSE
  BY <1>4, <1>t DEF Crash, Fault, OneAtATime, TypeOK
<1>5. CASE UNCHANGED vars
  <2>1. UNCHANGED <<pc, mem, request, found, task, snapshot, approvals, events, verdict>>
    BY <1>5 DEF vars, rows
  <2>2. RestStory' <=> RestStory  BY <2>1, StoryStays
  <2>3. RunnerStory' <=> RunnerStory
    BY <2>1 DEF RunnerStory, Reached, Says, Logged, InLog, Row, Paused, Unruled
  <2>4. \A d \in Deciders : DeciderStory(d)' <=> DeciderStory(d)
    BY <2>1, <2>2 DEF DeciderStory, Carries, Says, Logged, InLog, Row, RuledBy, Waiting, Unruled
  <2>5. \A t \in Threads : AtWork(t)' <=> AtWork(t)  BY <2>1 DEF AtWork
  <2>6. StoryInv'  BY <1>r, <2>2, <2>3, <2>4, <2>5 DEF StoryInv
  <2>7. QED BY <2>1, <2>6 DEF Lives, Ruling
<1>6. QED BY <1>1, <1>2, <1>3, <1>4, <1>5 DEF Next, Terminated

LEMMA StoryInitial == Init => StoryInv
<1> SUFFICES ASSUME Init  PROVE StoryInv
  OBVIOUS
<1>1. AtWork(Runner) /\ \A t \in Threads \ {Runner} : ~ AtWork(t)
  BY DEF Init, AtWork, EndLabels, Threads
<1>2. RunnerStory
  <2>1. /\ pc[Runner] = "insert" /\ mem[Runner] = "none" /\ Says("none", "none")
        /\ ~ Logged /\ ~ Paused /\ Unruled
    BY DEF Init, Threads, Says, Logged, InLog, Paused, Unruled
  <2>2. QED BY <2>1 DEF RunnerStory, Reached, PauseLabels
<1>3. QED BY <1>1, <1>2, RunnerAssumption DEF StoryInv, Threads

\* persist_state writes snapshots and tasks one after the other and the events between:
\* when every thread rests, decisions having come one at a time and nothing failed, the
\* tables and the log agree, for any number of deciders and steps.
THEOREM TablesAgreeCorrect ==
    ASSUME OneAtATime
    PROVE  Spec => []TablesAgreeAtRest
<1>1. ASSUME StoryInv, TypeOK  PROVE TablesAgreeAtRest
  <2> SUFFICES ASSUME \A t \in Threads : ~ AtWork(t)
               PROVE  /\ snapshot.status = task
                      /\ task = "completed" <=> InLog("flow.completed")
                      /\ Paused =>
                           /\ Len(approvals) = 1
                           /\ task = CASE approvals[1] = "pending"  -> "awaiting_approval"
                                       [] approvals[1] = "approved" -> "completed"
                                       [] approvals[1] = "rejected" -> "failed"
    BY DEF TablesAgreeAtRest
  <2>1. RestStory  BY <1>1 DEF StoryInv
  <2>2. QED BY <2>1 DEF RestStory, Waiting, RuledBy, Row, Says, Logged
<1>2. StoryInv /\ GateInv /\ [Next]_vars => StoryInv'  BY StoryInductive
<1>3. StoryInv /\ GateInv => TablesAgreeAtRest  BY <1>1 DEF GateInv
<1>4. QED BY <1>2, <1>3, StoryInitial, GateInitial, GateInductive, PTL DEF Spec

\* In the same mode the writes to tasks and the rulings make up the life TaskLifecycle
\* promises: a task is ruled on once, only while it waits, and ends as it was ruled.
LifecycleKept == Lifecycle!Init /\ [][Lifecycle!Next]_<<task, Ruling>>

THEOREM LifecycleKeptCorrect ==
    ASSUME OneAtATime
    PROVE  Spec => LifecycleKept
<1>1. Init => Lifecycle!Init
  BY RulingKnown DEF Init, Lifecycle!Init, Unruled
<1>2. StoryInv /\ GateInv /\ [Next]_vars => StoryInv' /\ [Lifecycle!Next]_<<task, Ruling>>
  BY StoryInductive DEF Lives
<1>3. QED
  BY <1>1, <1>2, StoryInitial, GateInitial, GateInductive, PTL DEF Spec, LifecycleKept
=============================================================================
