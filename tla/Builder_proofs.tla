--------------------------- MODULE Builder_proofs ---------------------------
(***************************************************************************)
(* Proofs about Builder and AgentRuns: the type invariant, that the row of *)
(* a task tells what its job did, and that the playground answers nobody   *)
(* twice.                                                                  *)
(***************************************************************************)
EXTENDS Builder, SequenceTheorems, FiniteSetTheorems, TLAPS

TaskRow   == [role : Roles, status : Statuses, text : BOOLEAN]
JobStates == {"queued", "working", "filing", "failing", "done", "gone"}

\* There is a job for every task.
LEMMA JobsOfTasks ==
    ASSUME AgentTypeOK
    PROVE  /\ tasks \in Seq(TaskRow) /\ Len(tasks) \in Nat /\ DOMAIN tasks = 1..Len(tasks)
           /\ jobs \in Seq(JobStates) /\ Len(jobs) = Len(tasks) /\ DOMAIN jobs = 1..Len(tasks)
<1>1. tasks \in Seq(TaskRow) /\ jobs \in [DOMAIN tasks -> JobStates]
  BY DEF AgentTypeOK, TaskRow, JobStates
<1>2. Len(tasks) \in Nat /\ DOMAIN tasks = 1..Len(tasks)
  BY <1>1, LenProperties
<1>3. jobs \in [1..Len(tasks) -> JobStates]
  BY <1>1, <1>2
<1> HIDE DEF JobStates
<1>4. jobs \in Seq(JobStates)
  BY <1>2, <1>3
<1>5. Len(jobs) = Len(tasks)
  BY <1>2, <1>3, <1>4, LenProperties
<1> QED BY <1>1, <1>2, <1>3, <1>4, <1>5

LEMMA AgentType ==
    ASSUME tasks' \in Seq(TaskRow), jobs' \in Seq(JobStates), Len(jobs') = Len(tasks'),
           catalog' \in [Roles -> Rows], saves' \in [Savers -> Saves], faults' \in 0..MaxFaults
    PROVE  AgentTypeOK'
<1>1. DOMAIN jobs' = DOMAIN tasks'
  BY LenProperties
<1>2. jobs' \in [DOMAIN tasks' -> JobStates]
  BY <1>1, LenProperties, SeqDef
<1> QED BY <1>2 DEF AgentTypeOK, TaskRow, JobStates

LEMMA FaultCounts ==
    ASSUME AgentTypeOK, NEW reply, Fault(reply)
    PROVE  /\ faults' \in 0..MaxFaults
           /\ faults' = 0 => faults = 0 /\ reply = "served"
<1>1. faults \in 0..MaxFaults /\ MaxFaults \in Nat
  BY AgentRunsAssumption DEF AgentTypeOK
<1>2. CASE reply = "served"
  BY <1>1, <1>2 DEF Fault
<1>3. CASE reply # "served"
  BY <1>1, <1>3 DEF Fault
<1> QED BY <1>2, <1>3

-----------------------------------------------------------------------------
(* A task and its job.                                                     *)

\* What a row may be while its job is there, with f requests failed so far: the row of a
\* job that is done is settled; a result is there only when the crew's has been filed.
Fits(row, job, f) ==
    /\ job = "done" => row.status \in {"completed", "failed"}
    /\ row.status = "completed" => row.text
    /\ f = 0 /\ row.text => row.status = "completed"
    /\ job \in {"queued", "working", "filing"} => ~row.text
    /\ job = "failing" /\ f = 0 => ~row.text

JobInv == \A i \in 1..Len(tasks) : Fits(tasks[i], jobs[i], faults)

\* What every step of the back end is shown to do.
Keeps == AgentTypeOK' /\ JobInv' /\ Len(tasks) <= Len(tasks')

LEMMA RequestKeeps ==
    ASSUME AgentTypeOK, JobInv, UNCHANGED <<tasks, jobs>>,
           catalog' \in [Roles -> Rows], saves' \in [Savers -> Saves],
           faults' \in 0..MaxFaults, faults' = 0 => faults = 0
    PROVE  Keeps
<1>1. AgentTypeOK'
  BY JobsOfTasks, AgentType
<1>2. Len(tasks) <= Len(tasks')
  BY JobsOfTasks
<1>3. JobInv'
  BY DEF JobInv, Fits
<1> QED BY <1>1, <1>2, <1>3 DEF Keeps

LEMMA SaveKeeps ==
    ASSUME AgentTypeOK, JobInv,
           \/ \E s \in Savers, r \in Roles : SaveLook(s, r)
           \/ \E s \in Savers, reply \in Replies : SaveWrite(s, reply)
           \/ \E r \in Roles : Deactivate(r)
    PROVE  Keeps
<1>t. /\ catalog \in [Roles -> Rows] /\ saves \in [Savers -> Saves] /\ faults \in 0..MaxFaults
  BY DEF AgentTypeOK
<1>1. ASSUME NEW s \in Savers, NEW r \in Roles, SaveLook(s, r) PROVE Keeps
  <2>1. saves' \in [Savers -> Saves]
    <3>1. [role |-> r, found |-> catalog[r] # None] \in Saves
      <4>1. (catalog[r] # None) \in BOOLEAN
        OBVIOUS
      <4> QED BY <4>1 DEF Saves
    <3> QED BY <1>1, <1>t, <3>1 DEF SaveLook
  <2> QED BY <1>1, <1>t, <2>1, RequestKeeps DEF SaveLook
<1>2. ASSUME NEW s \in Savers, NEW reply \in Replies, SaveWrite(s, reply) PROVE Keeps
  <2>1. saves' \in [Savers -> Saves]
    BY <1>2, <1>t DEF SaveWrite, Saves
  <2>2. catalog' \in [Roles -> Rows]
    <3>1. PICK x \in {"active", catalog[saves[s].role]} : catalog' = [catalog EXCEPT ![saves[s].role] = x]
      BY <1>2 DEF SaveWrite
    <3>2. saves[s].role \in Roles
      BY <1>2, <1>t DEF SaveWrite, Saves, NoSave
    <3> QED BY <3>1, <3>2, <1>t DEF Rows
  <2> QED BY <1>2, <2>1, <2>2, FaultCounts, RequestKeeps DEF SaveWrite
<1>3. ASSUME NEW r \in Roles, Deactivate(r) PROVE Keeps
  <2>1. catalog' \in [Roles -> Rows]
    BY <1>3, <1>t DEF Deactivate, Rows
  <2> QED BY <1>3, <1>t, <2>1, RequestKeeps DEF Deactivate
<1> QED BY <1>1, <1>2, <1>3

\* One job moves, and its row with it.
LEMMA JobMoves ==
    ASSUME AgentTypeOK, JobInv, UNCHANGED <<catalog, saves>>, NEW i \in 1..Len(tasks),
           NEW row \in TaskRow, NEW job \in JobStates,
           tasks' = [tasks EXCEPT ![i] = row], jobs' = [jobs EXCEPT ![i] = job],
           faults' \in 0..MaxFaults, faults' = 0 => faults = 0,
           Fits(row, job, faults')
    PROVE  Keeps
<1>s. /\ tasks \in Seq(TaskRow) /\ Len(tasks) \in Nat /\ DOMAIN tasks = 1..Len(tasks)
      /\ jobs \in Seq(JobStates) /\ Len(jobs) = Len(tasks) /\ DOMAIN jobs = 1..Len(tasks)
  BY JobsOfTasks
<1>1. /\ tasks' \in Seq(TaskRow) /\ Len(tasks') = Len(tasks)
      /\ tasks'[i] = row /\ \A j \in 1..Len(tasks) : j # i => tasks'[j] = tasks[j]
  BY <1>s, ExceptSeq
<1>2. /\ jobs' \in Seq(JobStates) /\ Len(jobs') = Len(jobs)
      /\ jobs'[i] = job /\ \A j \in 1..Len(tasks) : j # i => jobs'[j] = jobs[j]
  BY <1>s, ExceptSeq
<1>3. AgentTypeOK'
  <2>1. catalog' \in [Roles -> Rows] /\ saves' \in [Savers -> Saves]
    BY DEF AgentTypeOK
  <2> QED BY <2>1, <1>s, <1>1, <1>2, AgentType
<1>4. ASSUME NEW j \in 1..Len(tasks) PROVE Fits(tasks'[j], jobs'[j], faults')
  <2>1. CASE j = i
    BY <2>1, <1>1, <1>2
  <2>2. CASE j # i
    <3>1. Fits(tasks[j], jobs[j], faults)
      BY DEF JobInv
    <3>2. Fits(tasks[j], jobs[j], faults')
      BY <3>1 DEF Fits
    <3> QED BY <2>2, <3>2, <1>1, <1>2
  <2> QED BY <2>1, <2>2
<1>5. JobInv'
  BY <1>1, <1>4 DEF JobInv
<1> QED BY <1>s, <1>1, <1>3, <1>5 DEF Keeps

LEMMA JobKeeps ==
    ASSUME AgentTypeOK, JobInv, NEW i \in DOMAIN jobs, JobStep(i)
    PROVE  Keeps
<1>s. /\ i \in 1..Len(tasks) /\ tasks[i] \in TaskRow /\ jobs[i] \in JobStates
      /\ tasks \in Seq(TaskRow) /\ jobs \in Seq(JobStates)
      /\ DOMAIN tasks = 1..Len(tasks) /\ faults \in 0..MaxFaults
  BY JobsOfTasks DEF AgentTypeOK
<1>f. Fits(tasks[i], jobs[i], faults)
  BY <1>s DEF JobInv
<1> USE DEF TaskRow, Statuses
<1>1. ASSUME NEW reply \in Replies, Mark(i, reply) PROVE Keeps
  <2> DEFINE row == IF reply = "refused" THEN tasks[i] ELSE [tasks[i] EXCEPT !.status = "running"]
             job == IF reply = "served" THEN "working" ELSE "failing"
  <2>1. /\ UNCHANGED <<catalog, saves>> /\ Fault(reply)
        /\ tasks' = [tasks EXCEPT ![i] = row] /\ jobs' = [jobs EXCEPT ![i] = job]
        /\ jobs[i] = "queued"
    BY <1>1 DEF Mark, Update
  <2>2. row \in TaskRow /\ job \in JobStates /\ row.text = tasks[i].text
        /\ row.status \in {"running", tasks[i].status}
    BY <1>s DEF JobStates
  <2>3. faults' \in 0..MaxFaults /\ (faults' = 0 => faults = 0 /\ reply = "served")
    BY <2>1, FaultCounts
  <2>4. ~row.text /\ job \in {"working", "failing"} /\ (row.status = "completed" => row.text)
    BY <2>1, <2>2, <1>f DEF Fits
  <2>5. Fits(row, job, faults')
    BY <2>4 DEF Fits
  <2> HIDE DEF row, job
  <2> QED BY <1>s, <2>1, <2>2, <2>3, <2>5, JobMoves DEF TaskRow
<1>2. ASSUME NEW reply \in Replies, File(i, reply) PROVE Keeps
  <2> DEFINE row == IF reply = "refused" THEN tasks[i]
                    ELSE [tasks[i] EXCEPT !.status = "completed", !.text = TRUE]
             job == IF reply = "served" THEN "done" ELSE "failing"
  <2>1. /\ UNCHANGED <<catalog, saves>> /\ Fault(reply)
        /\ tasks' = [tasks EXCEPT ![i] = row] /\ jobs' = [jobs EXCEPT ![i] = job]
        /\ jobs[i] = "filing"
    BY <1>2 DEF File, Update
  <2>2. /\ row \in TaskRow /\ job \in JobStates
        /\ \/ row = tasks[i] /\ reply = "refused"
           \/ row.text /\ row.status = "completed"
    BY <1>s DEF JobStates
  <2>3. faults' \in 0..MaxFaults /\ (faults' = 0 => faults = 0 /\ reply = "served")
    BY <2>1, FaultCounts
  <2>4. ASSUME row.text, row.status = "completed" PROVE Fits(row, job, faults')
    <3>1. job = "done" \/ (job = "failing" /\ faults' # 0)
      BY <2>3
    <3> QED BY <2>4, <3>1 DEF Fits
  <2>5. ASSUME row = tasks[i], reply = "refused" PROVE Fits(row, job, faults')
    <3>1. job = "failing" /\ faults' # 0 /\ ~tasks[i].text
      BY <2>1, <2>3, <2>5, <1>f DEF Fits
    <3> QED BY <2>5, <3>1, <1>f DEF Fits
  <2>6. Fits(row, job, faults')
    BY <2>2, <2>4, <2>5
  <2> HIDE DEF row, job
  <2> QED BY <1>s, <2>1, <2>2, <2>3, <2>6, JobMoves DEF TaskRow
<1>3. ASSUME NEW reply \in Replies, Fail(i, reply) PROVE Keeps
  <2> DEFINE row == IF reply = "refused" THEN tasks[i] ELSE [tasks[i] EXCEPT !.status = "failed"]
             job == IF reply = "served" THEN "done" ELSE "gone"
  <2>1. /\ UNCHANGED <<catalog, saves>> /\ Fault(reply)
        /\ tasks' = [tasks EXCEPT ![i] = row] /\ jobs' = [jobs EXCEPT ![i] = job]
        /\ jobs[i] = "failing"
    BY <1>3 DEF Fail, Update
  <2>2. /\ row \in TaskRow /\ job \in JobStates /\ row.text = tasks[i].text
        /\ \/ row.status = "failed"
           \/ row = tasks[i] /\ reply = "refused"
    BY <1>s DEF JobStates
  <2>3. faults' \in 0..MaxFaults /\ (faults' = 0 => faults = 0 /\ reply = "served")
    BY <2>1, FaultCounts
  <2>4. faults' = 0 => ~row.text
    BY <2>1, <2>2, <2>3, <1>f DEF Fits
  <2>5. job = "done" => row.status = "failed"
    BY <2>2
  <2>6. row.status = "completed" => row.text
    BY <2>2, <1>f DEF Fits
  <2>7. job \in {"done", "gone"}
    OBVIOUS
  <2> HIDE DEF row, job
  <2>8. Fits(row, job, faults')
    BY <2>4, <2>5, <2>6, <2>7 DEF Fits
  <2> QED BY <1>s, <2>1, <2>2, <2>3, <2>8, JobMoves DEF TaskRow
<1>4. ASSUME NEW well \in BOOLEAN, CrewEnds(i, well) PROVE Keeps
  <2> DEFINE job == IF well /\ catalog[tasks[i].role] = "active" THEN "filing" ELSE "failing"
  <2>1. /\ UNCHANGED <<catalog, saves, tasks, faults>>
        /\ jobs' = [jobs EXCEPT ![i] = job] /\ jobs[i] = "working"
    BY <1>4 DEF CrewEnds
  <2>2. job \in {"filing", "failing"} /\ job \in JobStates
    BY DEF JobStates
  <2> HIDE DEF job
  <2>3. Fits(tasks[i], job, faults')
    BY <2>1, <2>2, <1>f DEF Fits
  <2>4. tasks' = [tasks EXCEPT ![i] = tasks[i]]
    BY <2>1, <1>s
  <2> QED BY <1>s, <2>1, <2>2, <2>3, <2>4, JobMoves DEF TaskRow
<1> QED BY <1>1, <1>2, <1>3, <1>4 DEF JobStep

\* A run that is accepted is a task more, and waits or is gone.
LEMMA AcceptKeeps ==
    ASSUME AgentTypeOK, JobInv, NEW r \in Roles, NEW reply \in Replies, Accept(r, reply)
    PROVE  Keeps /\ (reply = "served" => Len(tasks') = Len(tasks) + 1)
<1>s. /\ tasks \in Seq(TaskRow) /\ Len(tasks) \in Nat /\ jobs \in Seq(JobStates)
      /\ Len(jobs) = Len(tasks) /\ faults \in 0..MaxFaults
  BY JobsOfTasks DEF AgentTypeOK
<1>f. faults' \in 0..MaxFaults /\ (faults' = 0 => faults = 0)
  <2>1. CASE Len(tasks) < MaxTasks
    BY <2>1, FaultCounts DEF Accept
  <2>2. CASE ~(Len(tasks) < MaxTasks)
    BY <2>2, <1>s DEF Accept
  <2> QED BY <2>1, <2>2
<1>c. catalog' \in [Roles -> Rows] /\ saves' \in [Savers -> Saves]
  BY DEF Accept, AgentTypeOK
<1>1. CASE reply = "refused"
  <2>1. UNCHANGED <<tasks, jobs>>
    BY <1>1 DEF Accept
  <2> QED BY <1>1, <2>1, <1>f, <1>c, RequestKeeps
<1>2. CASE reply # "refused"
  <2> DEFINE row == [role |-> r, status |-> "pending", text |-> FALSE]
             job == IF reply = "served" THEN "queued" ELSE "gone"
  <2>1. row \in TaskRow /\ job \in JobStates
    BY DEF TaskRow, Statuses, JobStates
  <2>2. tasks' = Append(tasks, row) /\ jobs' = Append(jobs, job)
    BY <1>2 DEF Accept
  <2>3. Fits(row, job, faults')
    BY DEF Fits
  <2> HIDE DEF row, job
  <2>4. /\ tasks' \in Seq(TaskRow) /\ Len(tasks') = Len(tasks) + 1 /\ tasks'[Len(tasks) + 1] = row
        /\ \A i \in 1..Len(tasks) : tasks'[i] = tasks[i]
    BY <1>s, <2>1, <2>2, AppendProperties
  <2>5. /\ jobs' \in Seq(JobStates) /\ Len(jobs') = Len(tasks) + 1 /\ jobs'[Len(tasks) + 1] = job
        /\ \A i \in 1..Len(tasks) : jobs'[i] = jobs[i]
    BY <1>s, <2>1, <2>2, AppendProperties
  <2>6. AgentTypeOK'
    BY <2>4, <2>5, <1>f, <1>c, AgentType
  <2>7. ASSUME NEW i \in 1..Len(tasks') PROVE Fits(tasks'[i], jobs'[i], faults')
    <3>1. i \in 1..Len(tasks) \/ i = Len(tasks) + 1
      BY <2>4, <1>s
    <3>2. CASE i \in 1..Len(tasks)
      <4>1. Fits(tasks[i], jobs[i], faults)
        BY <3>2 DEF JobInv
      <4>2. Fits(tasks[i], jobs[i], faults')
        BY <4>1, <1>f DEF Fits
      <4> QED BY <3>2, <4>2, <2>4, <2>5
    <3>3. CASE i = Len(tasks) + 1
      BY <3>3, <2>3, <2>4, <2>5
    <3> QED BY <3>1, <3>2, <3>3
  <2>8. JobInv' /\ Len(tasks) <= Len(tasks')
    BY <2>4, <2>7, <1>s DEF JobInv
  <2> QED BY <2>4, <2>6, <2>8 DEF Keeps
<1> QED BY <1>1, <1>2

LEMMA CrashKeeps == ASSUME AgentTypeOK, JobInv, Crash PROVE Keeps
<1>s. /\ tasks \in Seq(TaskRow) /\ Len(tasks) \in Nat /\ jobs \in Seq(JobStates)
      /\ Len(jobs) = Len(tasks) /\ DOMAIN jobs = 1..Len(tasks)
      /\ faults \in 0..MaxFaults /\ MaxFaults \in Nat
  BY JobsOfTasks, AgentRunsAssumption DEF AgentTypeOK
<1>1. /\ UNCHANGED <<catalog, saves, tasks>> /\ faults' \in 0..MaxFaults /\ faults' # 0
      /\ jobs' = [i \in 1..Len(tasks) |-> IF jobs[i] = "done" THEN "done" ELSE "gone"]
  BY <1>s DEF Crash
<1>2. jobs' \in [1..Len(tasks) -> JobStates]
  BY <1>1 DEF JobStates
<1>3. jobs' \in Seq(JobStates)
  BY <1>2, <1>s
<1>4. Len(jobs') = Len(tasks)
  BY <1>2, <1>3, <1>s, LenProperties
<1>5. AgentTypeOK'
  <2>1. catalog' \in [Roles -> Rows] /\ saves' \in [Savers -> Saves]
    BY <1>1 DEF AgentTypeOK
  <2> QED BY <1>1, <1>3, <1>4, <1>s, <2>1, AgentType
<1>6. ASSUME NEW i \in 1..Len(tasks) PROVE Fits(tasks'[i], jobs'[i], faults')
  <2>1. Fits(tasks[i], jobs[i], faults)
    BY DEF JobInv
  <2>2. (jobs'[i] = "done" /\ jobs[i] = "done") \/ jobs'[i] = "gone"
    BY <1>1
  <2> QED BY <2>1, <2>2, <1>1 DEF Fits
<1>7. JobInv' /\ Len(tasks) <= Len(tasks')
  BY <1>1, <1>6, <1>s DEF JobInv
<1> QED BY <1>5, <1>7 DEF Keeps

-----------------------------------------------------------------------------
(* The pages.                                                              *)

LoopTypeOK == loops \in Seq(Loops) /\ shown \in [loop : 0..Len(loops), results : Results]

Plays(n) == [task : 0..n, data : {None, "pending", "running"}, late : BOOLEAN,
             sent : Nat, answers : Seq(0..n), flying : SUBSET (1..n), failing : Nat]

PlayTypeOK == play \in Plays(Len(tasks))

\* Who is polled has its role before it.
LoopInv == \A l \in 1..Len(loops) : loops[l].task # 0 => loops[l].queue # <<>>

\* The answers that may still come: of POSTs on their way, and of the task that is polled.
Owed(p) == Cardinality(p.flying) + p.failing + (IF p.task = 0 THEN 0 ELSE 1)

\* There are no more answers, with those to come, than messages; no task is answered
\* twice, nor polled or on its way when it is answered, nor on its way when it is polled.
Counted(p) ==
    /\ Len(p.answers) + Owed(p) <= p.sent
    /\ \A i, j \in 1..Len(p.answers) : i # j /\ p.answers[i] # 0 => p.answers[i] # p.answers[j]
    /\ \A i \in 1..Len(p.answers) :
          p.answers[i] # 0 => p.answers[i] # p.task /\ p.answers[i] \notin p.flying
    /\ p.task \notin p.flying

PlayInv == Counted(play)

LEMMA LoopsGrow ==
    ASSUME AgentTypeOK, AgentTypeOK', Len(tasks) <= Len(tasks'),
           LoopTypeOK, UNCHANGED <<loops, shown>>
    PROVE  LoopTypeOK'
<1>1. Len(tasks) \in Nat /\ Len(tasks') \in Nat
  BY JobsOfTasks, LenProperties DEF AgentTypeOK
<1>2. 0..Len(tasks) \subseteq 0..Len(tasks')
  BY <1>1
<1>3. Loops \subseteq Loops'
  BY <1>2 DEF Loops
<1>4. loops' \in Seq(Loops')
  BY <1>3, SeqMonotonic DEF LoopTypeOK
<1> QED BY <1>4 DEF LoopTypeOK, Results

LEMMA PlaysGrow ==
    ASSUME NEW n \in Nat, NEW m \in Nat, n <= m
    PROVE  Plays(n) \subseteq Plays(m)
<1>1. 0..n \subseteq 0..m /\ 1..n \subseteq 1..m
  OBVIOUS
<1>2. Seq(0..n) \subseteq Seq(0..m)
  BY <1>1, SeqMonotonic
<1> QED BY <1>1, <1>2 DEF Plays

LEMMA PlayGrows ==
    ASSUME AgentTypeOK, AgentTypeOK', Len(tasks) <= Len(tasks'), PlayTypeOK, UNCHANGED play
    PROVE  PlayTypeOK'
<1>1. Len(tasks) \in Nat /\ Len(tasks') \in Nat
  BY JobsOfTasks, LenProperties DEF AgentTypeOK
<1>2. play' \in Plays(Len(tasks'))
  BY <1>1, PlaysGrow DEF PlayTypeOK
<1> QED BY <1>2 DEF PlayTypeOK, Plays

\* One Run All moves.
LEMMA LoopMoves ==
    ASSUME AgentTypeOK, AgentTypeOK', Len(tasks) <= Len(tasks'), LoopTypeOK, LoopInv,
           NEW l \in 1..Len(loops), NEW row \in Loops', row.task # 0 => row.queue # <<>>,
           loops' = [loops EXCEPT ![l] = row],
           shown' \in [loop : 0..Len(loops), results : Results]
    PROVE  LoopTypeOK' /\ LoopInv'
<1>1. Len(tasks) \in Nat /\ Len(tasks') \in Nat /\ Len(loops) \in Nat
  BY JobsOfTasks, LenProperties DEF AgentTypeOK, LoopTypeOK
<1>2. 0..Len(tasks) \subseteq 0..Len(tasks')
  BY <1>1
<1>3. Loops \subseteq Loops'
  BY <1>2 DEF Loops
<1>4. loops \in Seq(Loops')
  BY <1>3, SeqMonotonic DEF LoopTypeOK
<1>5. /\ loops' \in Seq(Loops') /\ Len(loops') = Len(loops)
      /\ loops'[l] = row /\ \A m \in 1..Len(loops) : m # l => loops'[m] = loops[m]
  <2> DEFINE Kind == Loops'
  <2>1. loops \in Seq(Kind) /\ row \in Kind
    BY <1>4
  <2> HIDE DEF Kind
  <2>2. /\ [loops EXCEPT ![l] = row] \in Seq(Kind) /\ Len([loops EXCEPT ![l] = row]) = Len(loops)
        /\ \A m \in 1..Len(loops) : [loops EXCEPT ![l] = row][m] = IF m = l THEN row ELSE loops[m]
    BY <2>1, ExceptSeq
  <2> QED BY <2>2 DEF Kind
<1>6. LoopTypeOK'
  BY <1>5 DEF LoopTypeOK, Results
<1>7. LoopInv'
  BY <1>5 DEF LoopInv
<1> QED BY <1>6, <1>7

\* A result that is shown.
LEMMA ShowType ==
    ASSUME LoopTypeOK, NEW l, NEW r \in Roles, NEW result \in {"running", "completed", "failed"},
           Show(l, r, result)
    PROVE  shown' \in [loop : 0..Len(loops), results : Results]
<1>1. PICK R \in SUBSET Roles : shown.results \in [R -> {"running", "completed", "failed"}]
  BY DEF LoopTypeOK, Results
<1> DEFINE more == [x \in DOMAIN shown.results \union {r} |->
                      IF x = r THEN result ELSE shown.results[x]]
<1>2. more \in [R \union {r} -> {"running", "completed", "failed"}]
  BY <1>1
<1>3. more \in Results
  BY <1>2 DEF Results
<1>4. shown' = [shown EXCEPT !.results = more] \/ shown' = shown
  BY DEF Show
<1> HIDE DEF more
<1> QED BY <1>3, <1>4 DEF LoopTypeOK

\* A Run All with roles left goes on to the next one.
LEMMA AdvanceType ==
    ASSUME AgentTypeOK, AgentTypeOK', Len(tasks) <= Len(tasks'), LoopTypeOK, LoopInv,
           NEW l \in 1..Len(loops), loops[l].queue # <<>>,
           NEW result \in {"running", "completed", "failed"},
           Show(l, Head(loops[l].queue), result), loops' = Advance(l)
    PROVE  LoopTypeOK' /\ LoopInv'
<1> DEFINE row == [queue |-> Tail(loops[l].queue), task |-> 0, polls |-> 0, over |-> loops[l].over]
<1>1. loops[l] \in Loops
  BY ElementOfSeq DEF LoopTypeOK
<1>2. loops[l].queue \in Seq(Roles) /\ loops[l].over \in BOOLEAN
  BY <1>1 DEF Loops
<1>3. Tail(loops[l].queue) \in Seq(Roles) /\ Head(loops[l].queue) \in Roles
  BY <1>2, HeadTailProperties
<1>4. 0 \in 0..Len(tasks') /\ 0 \in 0..(MaxPolls - 1)
  BY BuilderAssumption, LenProperties DEF AgentTypeOK
<1>5. row \in Loops'
  BY <1>2, <1>3, <1>4 DEF Loops
<1>6. loops' = [loops EXCEPT ![l] = row]
  BY DEF Advance
<1>7. shown' \in [loop : 0..Len(loops), results : Results]
  BY <1>3, ShowType
<1>8. row.task = 0
  OBVIOUS
<1> HIDE DEF row
<1> QED BY <1>5, <1>6, <1>7, <1>8, LoopMoves

LEMMA RunKeeps ==
    ASSUME AgentTypeOK, JobInv, LoopTypeOK, LoopInv, NEW l \in DOMAIN loops, Loop(l)
    PROVE  Keeps /\ LoopTypeOK' /\ LoopInv'
<1>s. /\ DOMAIN loops = 1..Len(loops) /\ loops[l] \in Loops /\ Len(loops) \in Nat
      /\ loops[l].queue \in Seq(Roles) /\ loops[l].task \in 0..Len(tasks)
      /\ loops[l].polls \in 0..(MaxPolls - 1) /\ loops[l].over \in BOOLEAN
  <2>1. DOMAIN loops = 1..Len(loops) /\ Len(loops) \in Nat
    BY LenProperties DEF LoopTypeOK
  <2>2. loops[l] \in Loops
    BY <2>1, ElementOfSeq DEF LoopTypeOK
  <2> QED BY <2>1, <2>2 DEF Loops
<1>l. l \in 1..Len(loops)
  BY <1>s
<1>h. loops[l].queue # <<>> => Head(loops[l].queue) \in Roles
  BY <1>s, HeadTailProperties
<1>1. ASSUME NEW reply \in Replies, RunNext(l, reply) PROVE Keeps /\ LoopTypeOK' /\ LoopInv'
  <2>1. Keeps /\ (reply = "served" => Len(tasks') = Len(tasks) + 1)
    BY <1>1, <1>h, AcceptKeeps DEF RunNext
  <2>2. CASE reply = "served"
    <3> DEFINE row == [loops[l] EXCEPT !.task = Len(tasks')]
    <3>1. loops' = [loops EXCEPT ![l] = row] /\ Show(l, Head(loops[l].queue), "running")
      BY <1>1, <2>2 DEF RunNext
    <3>2. Len(tasks') \in 0..Len(tasks')
      BY <2>1, LenProperties DEF Keeps, AgentTypeOK
    <3>3. row = [queue |-> loops[l].queue, task |-> Len(tasks'), polls |-> loops[l].polls,
                 over |-> loops[l].over]
      BY <1>s DEF Loops
    <3>4. row \in Loops' /\ row.queue = loops[l].queue
      BY <3>2, <3>3, <1>s DEF Loops
    <3>5. row.queue # <<>>
      BY <3>4, <1>1 DEF RunNext
    <3> HIDE DEF row
    <3>6. shown' \in [loop : 0..Len(loops), results : Results]
      BY <3>1, <1>1, <1>h, ShowType DEF RunNext
    <3> QED BY <3>1, <3>4, <3>5, <3>6, <2>1, <1>l, LoopMoves DEF Keeps
  <2>3. CASE reply # "served"
    <3>1. loops' = Advance(l) /\ Show(l, Head(loops[l].queue), "failed") /\ loops[l].queue # <<>>
      BY <1>1, <2>3 DEF RunNext
    <3> QED BY <3>1, <2>1, <1>l, AdvanceType DEF Keeps
  <2> QED BY <2>2, <2>3
<1>2. ASSUME RunPoll(l) PROVE Keeps /\ LoopTypeOK' /\ LoopInv'
  <2>1. UNCHANGED agentVars /\ loops[l].task # 0 /\ loops[l].queue # <<>>
    BY <1>2, <1>l DEF RunPoll, LoopInv
  <2>2. Keeps
    BY <2>1, RequestKeeps DEF agentVars, AgentTypeOK
  <2>3. CASE /\ loops[l].polls + 1 # MaxPolls
             /\ loops' = [loops EXCEPT ![l].polls = @ + 1] /\ UNCHANGED shown
    <3> DEFINE n   == loops[l].polls + 1
               row == [loops[l] EXCEPT !.polls = n]
    <3>1. loops' = [loops EXCEPT ![l] = row]
      BY <2>3
    <3>2. n \in 0..(MaxPolls - 1)
      <4>1. n # MaxPolls
        BY <2>3
      <4>2. loops[l].polls \in 0..(MaxPolls - 1) /\ MaxPolls \in Nat
        BY <1>s, BuilderAssumption
      <4> QED BY ONLY <4>1, <4>2
    <3> HIDE DEF n
    <3>3. row = [queue |-> loops[l].queue, task |-> loops[l].task, polls |-> n,
                 over |-> loops[l].over]
      BY <1>s DEF Loops
    <3>4. row \in Loops' /\ row.queue # <<>>
      <4>1. loops[l].task \in 0..Len(tasks')
        BY <2>1, <1>s DEF agentVars
      <4> QED BY <4>1, <3>2, <3>3, <2>1, <1>s DEF Loops
    <3> HIDE DEF row
    <3> QED BY <3>1, <3>4, <2>2, <2>3, <1>l, LoopMoves DEF Keeps, LoopTypeOK
  <2>4. CASE \E result \in {"completed", "failed"} :
                loops' = Advance(l) /\ Show(l, Head(loops[l].queue), result)
    BY <2>1, <2>2, <2>4, <1>l, AdvanceType DEF Keeps
  <2> QED BY <1>2, <2>3, <2>4 DEF RunPoll
<1>3. ASSUME RunOver(l) PROVE Keeps /\ LoopTypeOK' /\ LoopInv'
  <2>1. UNCHANGED agentVars /\ loops[l].queue = <<>> /\ UNCHANGED shown
    BY <1>3 DEF RunOver
  <2>2. Keeps
    BY <2>1, RequestKeeps DEF agentVars, AgentTypeOK
  <2> DEFINE yes == TRUE
             row == [loops[l] EXCEPT !.over = yes]
  <2>y. yes \in BOOLEAN
    OBVIOUS
  <2>3. loops' = [loops EXCEPT ![l] = row]
    BY <1>3 DEF RunOver
  <2> HIDE DEF yes
  <2>4. row = [queue |-> loops[l].queue, task |-> loops[l].task, polls |-> loops[l].polls, over |-> yes]
    BY <1>s DEF Loops
  <2>5. row \in Loops' /\ row.task = 0
    <3>1. loops[l].task \in 0..Len(tasks')
      BY <2>1, <1>s DEF agentVars
    <3>2. loops[l].task = 0
      BY <2>1, <1>l DEF LoopInv
    <3> QED BY <3>1, <3>2, <2>y, <2>4, <1>s DEF Loops
  <2> HIDE DEF row
  <2> QED BY <2>1, <2>2, <2>3, <2>5, <1>l, LoopMoves DEF Keeps, LoopTypeOK
<1> QED BY <1>1, <1>2, <1>3 DEF Loop

LEMMA RunAllType ==
    ASSUME AgentTypeOK, JobInv, LoopTypeOK, LoopInv,
           NEW roles \in SeqOf(Roles, MaxAgents) \ {<<>>}, RunAll(roles), UNCHANGED agentVars
    PROVE  Keeps /\ LoopTypeOK' /\ LoopInv'
<1> DEFINE row == [queue |-> roles, task |-> 0, polls |-> 0, over |-> FALSE]
<1>1. roles \in Seq(Roles)
  <2>1. PICK n \in 0..MaxAgents : roles \in [1..n -> Roles]
    BY DEF SeqOf
  <2>2. n \in Nat
    BY BuilderAssumption
  <2> QED BY <2>1, <2>2
<1>2. Keeps
  BY RequestKeeps DEF agentVars, AgentTypeOK
<1>3. 0 \in 0..Len(tasks') /\ 0 \in 0..(MaxPolls - 1)
  BY <1>2, LenProperties, BuilderAssumption DEF Keeps, AgentTypeOK
<1>4. Loops' = Loops /\ row \in Loops /\ row.task = 0
  BY <1>1, <1>3 DEF Loops, agentVars
<1>5. loops' = Append(loops, row) /\ shown' = [loop |-> Len(loops) + 1, results |-> [r \in {} |-> None]]
  BY DEF RunAll, Unseen
<1> HIDE DEF row
<1>6. loops \in Seq(Loops) /\ Len(loops) \in Nat
  BY LenProperties DEF LoopTypeOK
<1>7. /\ loops' \in Seq(Loops) /\ Len(loops') = Len(loops) + 1
      /\ loops'[Len(loops) + 1] = row /\ \A m \in 1..Len(loops) : loops'[m] = loops[m]
  BY <1>4, <1>5, <1>6, AppendProperties
<1>8. shown' \in [loop : 0..Len(loops'), results : Results]
  <2>1. [r \in {} |-> None] \in [{} -> {"running", "completed", "failed"}]
    OBVIOUS
  <2>2. [r \in {} |-> None] \in Results
    BY <2>1 DEF Results
  <2>3. Len(loops) + 1 \in 0..Len(loops')
    BY <1>6, <1>7
  <2> QED BY <1>5, <2>2, <2>3
<1>9. LoopTypeOK'
  BY <1>4, <1>7, <1>8 DEF LoopTypeOK, Results
<1>10. ASSUME NEW m \in 1..Len(loops'), loops'[m].task # 0 PROVE loops'[m].queue # <<>>
  <2>1. m \in 1..Len(loops)
    BY <1>4, <1>6, <1>7, <1>10
  <2> QED BY <1>7, <1>10, <2>1 DEF LoopInv
<1> QED BY <1>2, <1>9, <1>10 DEF LoopInv

-----------------------------------------------------------------------------
(* The playground.                                                         *)

LEMMA PlayParts ==
    ASSUME NEW n \in Nat, NEW p \in Plays(n)
    PROVE  /\ p.sent \in Nat /\ p.failing \in Nat /\ p.task \in 0..n /\ p.flying \subseteq 1..n
           /\ p.answers \in Seq(0..n) /\ Len(p.answers) \in Nat
           /\ \A i \in 1..Len(p.answers) : p.answers[i] \in 0..n
           /\ IsFiniteSet(p.flying) /\ Cardinality(p.flying) \in Nat /\ Owed(p) \in Nat
<1>1. /\ p.sent \in Nat /\ p.failing \in Nat /\ p.task \in 0..n /\ p.flying \subseteq 1..n
      /\ p.answers \in Seq(0..n)
  BY DEF Plays
<1>2. Len(p.answers) \in Nat /\ \A i \in 1..Len(p.answers) : p.answers[i] \in 0..n
  BY <1>1, LenProperties, ElementOfSeq
<1>3. IsFiniteSet(1..n)
  BY FS_Interval
<1>4. IsFiniteSet(p.flying) /\ Cardinality(p.flying) \in Nat
  BY <1>1, <1>3, FS_Subset, FS_CardinalityType
<1> QED BY <1>1, <1>2, <1>4 DEF Owed

\* An answer more is one less that is owed: that of the task, or that of a POST that failed.
LEMMA AnswerCounts ==
    ASSUME NEW n \in Nat, NEW p \in Plays(n), Counted(p), NEW q \in Plays(n), NEW a \in 0..n,
           q.answers = Append(p.answers, a), q.sent = p.sent, q.flying = p.flying,
           \/ a = p.task /\ a # 0 /\ q.task = 0 /\ q.failing = p.failing
           \/ a = 0 /\ q.task = p.task /\ q.failing + 1 = p.failing
    PROVE  Counted(q)
<1>1. /\ p.answers \in Seq(0..n) /\ p.sent \in Nat /\ p.failing \in Nat /\ q.failing \in Nat
      /\ Cardinality(p.flying) \in Nat /\ q.flying \subseteq 1..n
      /\ Len(p.answers) \in Nat
  BY PlayParts
<1>2. /\ Len(q.answers) = Len(p.answers) + 1
      /\ q.answers[Len(p.answers) + 1] = a
      /\ \A i \in 1..Len(p.answers) : q.answers[i] = p.answers[i]
  BY <1>1, AppendProperties
<1>3. Len(q.answers) + Owed(q) <= q.sent
  <2>1. Owed(q) + 1 = Owed(p)
    BY <1>1 DEF Owed
  <2>2. Owed(p) \in Nat /\ Owed(q) \in Nat
    BY PlayParts
  <2>3. Len(p.answers) + Owed(p) <= p.sent
    BY DEF Counted
  <2> QED BY <2>1, <2>2, <2>3, <1>1, <1>2
<1>i. \A i \in 1..Len(q.answers) : i \in 1..Len(p.answers) \/ i = Len(p.answers) + 1
  BY <1>1, <1>2
<1>4. ASSUME NEW i \in 1..Len(p.answers), p.answers[i] # 0
      PROVE  p.answers[i] # a /\ p.answers[i] # q.task /\ p.answers[i] \notin q.flying
  BY <1>4 DEF Counted
<1>5. a # 0 => a # q.task /\ a \notin q.flying
  BY DEF Counted
<1>6. ASSUME NEW i \in 1..Len(q.answers), NEW j \in 1..Len(q.answers), i # j, q.answers[i] # 0
      PROVE  q.answers[i] # q.answers[j]
  <2>1. CASE i \in 1..Len(p.answers) /\ j \in 1..Len(p.answers)
    BY <2>1, <1>2, <1>6 DEF Counted
  <2>2. CASE i \in 1..Len(p.answers) /\ j = Len(p.answers) + 1
    BY <2>2, <1>2, <1>4, <1>6
  <2>3. CASE i = Len(p.answers) + 1 /\ j \in 1..Len(p.answers)
    <3>1. CASE p.answers[j] = 0
      BY <2>3, <3>1, <1>2, <1>6
    <3>2. CASE p.answers[j] # 0
      BY <2>3, <3>2, <1>2, <1>4
    <3> QED BY <3>1, <3>2
  <2> QED BY <2>1, <2>2, <2>3, <1>i, <1>6
<1>7. \A i \in 1..Len(q.answers) :
          q.answers[i] # 0 => q.answers[i] # q.task /\ q.answers[i] \notin q.flying
  BY <1>i, <1>2, <1>4, <1>5
<1>8. q.task \notin q.flying
  <2>1. 0 \notin q.flying
    BY <1>1
  <2> QED BY <2>1 DEF Counted
<1> QED BY <1>3, <1>6, <1>7, <1>8 DEF Counted

\* A message more is one more answer that is owed, of a task that is new or of a POST that
\* failed.
LEMMA SendCounts ==
    ASSUME NEW n \in Nat, NEW p \in Plays(n), Counted(p),
           NEW q, q.answers = p.answers, q.sent = p.sent + 1, q.task = p.task,
           \/ q.flying = p.flying \union {n + 1} /\ q.failing = p.failing
           \/ q.flying = p.flying /\ q.failing = p.failing + 1
    PROVE  Counted(q)
<1>1. /\ p.sent \in Nat /\ p.failing \in Nat /\ p.task \in 0..n /\ p.flying \subseteq 1..n
      /\ Len(p.answers) \in Nat /\ \A i \in 1..Len(p.answers) : p.answers[i] \in 0..n
      /\ IsFiniteSet(p.flying) /\ Cardinality(p.flying) \in Nat
  BY PlayParts
<1>2. n + 1 \notin p.flying /\ n + 1 # p.task /\ \A i \in 1..Len(p.answers) : p.answers[i] # n + 1
  BY <1>1
<1>3. Cardinality(p.flying \union {n + 1}) = Cardinality(p.flying) + 1
  BY <1>1, <1>2, FS_AddElement
<1>4. Owed(q) = Owed(p) + 1
  <2>1. Cardinality(q.flying) + q.failing = (Cardinality(p.flying) + p.failing) + 1
    <3>1. CASE q.flying = p.flying \union {n + 1} /\ q.failing = p.failing
      <4>1. Cardinality(q.flying) = Cardinality(p.flying) + 1
        BY <3>1, <1>3
      <4> QED BY <3>1, <4>1, <1>1
    <3>2. CASE q.flying = p.flying /\ q.failing = p.failing + 1
      BY <3>2, <1>1
    <3> QED BY <3>1, <3>2
  <2> QED BY <2>1, <1>1 DEF Owed
<1>5. Owed(p) \in Nat /\ Len(p.answers) + Owed(p) <= p.sent
  BY PlayParts DEF Counted
<1>6. Len(q.answers) + Owed(q) <= q.sent
  BY <1>1, <1>4, <1>5
<1> QED BY <1>2, <1>6 DEF Counted

\* The answer of a POST that arrives: the task is owed no longer by its flight but by its
\* polls, and one that was polled is owed no more.
LEMMA ArriveCounts ==
    ASSUME NEW n \in Nat, NEW p \in Plays(n), Counted(p), NEW t \in p.flying,
           NEW q, q.answers = p.answers, q.sent = p.sent, q.failing = p.failing,
           q.flying = p.flying \ {t}, q.task = t
    PROVE  Counted(q)
<1>1. /\ p.sent \in Nat /\ p.failing \in Nat /\ t # 0
      /\ Len(p.answers) \in Nat /\ IsFiniteSet(p.flying) /\ Cardinality(p.flying) \in Nat
  BY PlayParts
<1>2. Cardinality(p.flying \ {t}) = Cardinality(p.flying) - 1
  BY <1>1, FS_RemoveElement
<1>3. Owed(q) <= Owed(p) /\ Owed(q) \in Int
  BY <1>1, <1>2 DEF Owed
<1>4. Owed(p) \in Nat /\ Len(p.answers) + Owed(p) <= p.sent
  BY PlayParts DEF Counted
<1>5. Len(q.answers) + Owed(q) <= q.sent
  BY <1>1, <1>3, <1>4
<1> QED BY <1>5 DEF Counted

\* What changes neither the messages nor the answers nor the task changes nothing here.
LEMMA SameCounts ==
    ASSUME NEW p, NEW q, Counted(p), q.task = p.task, q.sent = p.sent, q.answers = p.answers,
           q.flying = p.flying, q.failing = p.failing
    PROVE  Counted(q)
BY DEF Counted, Owed

\* A task that is new is none that was answered.
LEMMA SendKeeps ==
    ASSUME AgentTypeOK, JobInv, PlayTypeOK, PlayInv,
           NEW r \in Roles, NEW reply \in Replies, Send(r, reply)
    PROVE  Keeps /\ PlayTypeOK' /\ PlayInv'
<1>1. Keeps /\ (reply = "served" => Len(tasks') = Len(tasks) + 1)
  BY AcceptKeeps DEF Send
<1>2. Len(tasks) \in Nat /\ Len(tasks') \in Nat /\ Len(tasks) <= Len(tasks')
  BY <1>1, LenProperties DEF Keeps, AgentTypeOK
<1>3. Counted(play) /\ play \in Plays(Len(tasks)) /\ play \in Plays(Len(tasks'))
  BY <1>2, PlaysGrow DEF PlayTypeOK, PlayInv
<1>4. play' \in Plays(Len(tasks')) /\ Counted(play')
  <2>1. CASE reply = "served"
    <3> DEFINE s == play.sent + 1
               f == play.flying \union {Len(tasks')}
    <3>1. play' = [play EXCEPT !.sent = s, !.flying = f]
      BY <2>1 DEF Send
    <3>2. Len(tasks') = Len(tasks) + 1
      BY <2>1, <1>1
    <3>3. s \in Nat /\ s = play.sent + 1 /\ f \in SUBSET (1..Len(tasks'))
          /\ f = play.flying \union {Len(tasks) + 1}
      <4>1. Len(tasks') \in 1..Len(tasks')
        BY <3>2, <1>2
      <4> QED BY <4>1, <3>2, <1>3 DEF Plays
    <3> HIDE DEF s, f
    <3>4. /\ play' \in Plays(Len(tasks'))
          /\ play'.answers = play.answers /\ play'.sent = s
          /\ play'.task = play.task /\ play'.failing = play.failing /\ play'.flying = f
      BY <3>1, <3>3, <1>3 DEF Plays
    <3> QED BY <3>3, <3>4, <1>2, <1>3, SendCounts
  <2>2. CASE reply # "served"
    <3> DEFINE s == play.sent + 1
               f == play.failing + 1
    <3>1. play' = [play EXCEPT !.sent = s, !.failing = f]
      BY <2>2 DEF Send
    <3>2. s \in Nat /\ s = play.sent + 1 /\ f \in Nat /\ f = play.failing + 1
      BY <1>3 DEF Plays
    <3> HIDE DEF s, f
    <3>3. /\ play' \in Plays(Len(tasks'))
          /\ play'.answers = play.answers /\ play'.sent = s
          /\ play'.task = play.task /\ play'.failing = f /\ play'.flying = play.flying
      BY <3>1, <3>2, <1>3 DEF Plays
    <3> QED BY <3>2, <3>3, <1>2, <1>3, SendCounts
  <2> QED BY <2>1, <2>2
<1>5. PlayTypeOK'
  BY <1>4 DEF PlayTypeOK, Plays
<1>6. PlayInv'
  BY <1>4 DEF PlayInv, Counted, Owed
<1> QED BY <1>1, <1>5, <1>6

LEMMA PlaygroundKeeps ==
    ASSUME AgentTypeOK, PlayTypeOK, PlayInv, UNCHANGED tasks,
           \/ \E t \in 1..Len(tasks) : Arrive(t)
           \/ ArriveError \/ PlayPoll \/ PlayLate \/ PlayClose
    PROVE  PlayTypeOK' /\ PlayInv'
<1>1. Counted(play) /\ play \in Plays(Len(tasks)) /\ Len(tasks) \in Nat
  BY LenProperties DEF AgentTypeOK, PlayTypeOK, PlayInv
<1>2. play.sent \in Nat /\ play.answers \in Seq(0..Len(tasks)) /\ play.task \in 0..Len(tasks)
  BY <1>1 DEF Plays
<1>3. play' \in Plays(Len(tasks)) /\ Counted(play')
  <2>1. CASE PlayClose
    <3>1. play' = [task |-> 0, data |-> None, late |-> FALSE, sent |-> 0, answers |-> <<>>,
                   flying |-> {}, failing |-> 0]
      BY <2>1 DEF PlayClose, Quiet
    <3>2. <<>> \in Seq(0..Len(tasks)) /\ Len(<<>>) = 0
      BY EmptySeq
    <3>3. play' \in Plays(Len(tasks))
      BY <3>1, <3>2, <1>1 DEF Plays
    <3>4. /\ play'.task = 0 /\ play'.sent = 0 /\ Len(play'.answers) = 0
          /\ play'.flying = {} /\ play'.failing = 0
      BY <3>1, <3>2
    <3>5. Owed(play') = 0
      BY <3>4, FS_EmptySet DEF Owed
    <3> QED BY <3>3, <3>4, <3>5 DEF Counted
  <2>2. CASE PlayLate
    <3>1. play' = [play EXCEPT !.late = TRUE]
      BY <2>2 DEF PlayLate
    <3>2. play' \in Plays(Len(tasks)) /\ play'.task = play.task
          /\ play'.sent = play.sent /\ play'.answers = play.answers
          /\ play'.flying = play.flying /\ play'.failing = play.failing
      BY <3>1, <1>1 DEF Plays
    <3> QED BY <3>2, <1>1, SameCounts
  <2>3. CASE PlayPoll
    <3> DEFINE seen == View(play.task)
               a    == Append(play.answers, play.task)
    <3>1. play.task # 0 /\ seen # "error"
      BY <2>3 DEF PlayPoll, Asks
    <3>2. CASE play' = [play EXCEPT !.task = 0, !.data = None, !.late = FALSE, !.answers = a]
      <4>1. a \in Seq(0..Len(tasks)) /\ a = Append(play.answers, play.task)
        BY <1>2, AppendProperties
      <4> HIDE DEF a
      <4>2. /\ play' \in Plays(Len(tasks)) /\ play'.task = 0 /\ play'.answers = a
            /\ play'.sent = play.sent /\ play'.flying = play.flying
            /\ play'.failing = play.failing
        <5>1. 0 \in 0..Len(tasks)
          BY <1>1
        <5> QED BY <3>2, <4>1, <5>1, <1>1 DEF Plays
      <4>3. Counted(play')
        BY <4>1, <4>2, <3>1, <1>1, <1>2, AnswerCounts
      <4> QED BY <4>2, <4>3
    <3>3. CASE seen \notin {"completed", "failed"} /\ play' = [play EXCEPT !.data = seen]
      <4>1. seen \in {"pending", "running"}
        <5>1. play.task \in 1..Len(tasks)
          BY <1>1, <1>2, <3>1
        <5>2. tasks[play.task] \in TaskRow
          BY <5>1, JobsOfTasks, ElementOfSeq
        <5>3. tasks[play.task].status \in Statuses
          BY <5>2 DEF TaskRow
        <5> QED BY <5>3, <3>1, <3>3 DEF View, Statuses
      <4> HIDE DEF seen
      <4>2. play' \in Plays(Len(tasks)) /\ play'.task = play.task
            /\ play'.sent = play.sent /\ play'.answers = play.answers
            /\ play'.flying = play.flying /\ play'.failing = play.failing
        BY <4>1, <3>3, <1>1 DEF Plays
      <4> QED BY <4>2, <1>1, SameCounts
    <3> QED BY <2>3, <3>2, <3>3 DEF PlayPoll
  <2>4. ASSUME NEW t \in 1..Len(tasks), Arrive(t)
        PROVE  play' \in Plays(Len(tasks)) /\ Counted(play')
    <3> DEFINE rest == play.flying \ {t}
    <3>1. /\ t \in play.flying
          /\ play' = [play EXCEPT !.flying = rest, !.task = t, !.data = None, !.late = FALSE]
      BY <2>4 DEF Arrive
    <3>t. t \in 0..Len(tasks)
      BY <1>1
    <3>2. rest \in SUBSET (1..Len(tasks)) /\ rest = play.flying \ {t}
      BY <1>1 DEF Plays
    <3> HIDE DEF rest
    <3>3. /\ play' \in Plays(Len(tasks)) /\ play'.task = t
          /\ play'.sent = play.sent /\ play'.answers = play.answers
          /\ play'.flying = rest /\ play'.failing = play.failing
      BY <3>1, <3>t, <3>2, <1>1 DEF Plays
    <3> QED BY <3>1, <3>2, <3>3, <1>1, ArriveCounts
  <2>5. CASE ArriveError
    <3> DEFINE a == Append(play.answers, 0)
               f == play.failing - 1
    <3>1. play' = [play EXCEPT !.failing = f, !.answers = a] /\ f \in Nat /\ f + 1 = play.failing
      BY <2>5, <1>1 DEF ArriveError, Plays
    <3>2. a \in Seq(0..Len(tasks)) /\ a = Append(play.answers, 0) /\ 0 \in 0..Len(tasks)
      BY <1>1, <1>2, AppendProperties
    <3> HIDE DEF a, f
    <3>3. /\ play' \in Plays(Len(tasks)) /\ play'.task = play.task /\ play'.answers = a
          /\ play'.sent = play.sent /\ play'.flying = play.flying /\ play'.failing = f
      BY <3>1, <3>2, <1>1 DEF Plays
    <3> QED BY <3>1, <3>2, <3>3, <1>1, AnswerCounts
  <2> QED BY <2>1, <2>2, <2>3, <2>4, <2>5
<1>4. PlayTypeOK'
  BY <1>3 DEF PlayTypeOK, Plays
<1>5. PlayInv'
  BY <1>3 DEF PlayInv, Counted, Owed
<1> QED BY <1>4, <1>5

-----------------------------------------------------------------------------
(* The invariant.                                                          *)

IInv == AgentTypeOK /\ JobInv /\ LoopTypeOK /\ LoopInv /\ PlayTypeOK /\ PlayInv

LEMMA InitIInv == Init => IInv
<1> SUFFICES ASSUME Init PROVE IInv
  OBVIOUS
<1>1. /\ catalog \in [Roles -> {None, "active"}] /\ saves = [s \in Savers |-> NoSave]
      /\ tasks = <<>> /\ jobs = <<>> /\ faults = 0 /\ loops = <<>>
      /\ shown = [loop |-> 0, results |-> [r \in {} |-> None]]
      /\ play = [task |-> 0, data |-> None, late |-> FALSE, sent |-> 0, answers |-> <<>>,
                 flying |-> {}, failing |-> 0]
  BY DEF Init, AgentInit, Unseen, Quiet
<1>2. Len(tasks) = 0 /\ DOMAIN tasks = {} /\ Len(loops) = 0 /\ \A S : <<>> \in Seq(S)
  BY <1>1, EmptySeq
<1>3. AgentTypeOK
  <2>1. catalog \in [Roles -> Rows]
    BY <1>1 DEF Rows
  <2>2. saves \in [Savers -> Saves]
    BY <1>1 DEF Saves
  <2>3. jobs \in [DOMAIN tasks -> {"queued", "working", "filing", "failing", "done", "gone"}]
    BY <1>1, <1>2
  <2> QED BY <1>1, <1>2, <2>1, <2>2, <2>3, AgentRunsAssumption DEF AgentTypeOK
<1>4. JobInv /\ LoopInv
  BY <1>2 DEF JobInv, LoopInv
<1>5. LoopTypeOK
  <2>1. [r \in {} |-> None] \in [{} -> {"running", "completed", "failed"}]
    OBVIOUS
  <2>2. [r \in {} |-> None] \in Results
    BY <2>1 DEF Results
  <2> QED BY <1>1, <1>2, <2>2 DEF LoopTypeOK
<1>6. PlayTypeOK
  BY <1>1, <1>2 DEF PlayTypeOK, Plays
<1>7. PlayInv
  BY <1>1, <1>2, FS_EmptySet DEF PlayInv, Counted, Owed
<1> QED BY <1>3, <1>4, <1>5, <1>6, <1>7 DEF IInv

\* What the back end does to its own variables leaves the pages as they should be.
LEMMA PagesKeep ==
    ASSUME IInv, Keeps, UNCHANGED <<loops, shown, play>>
    PROVE  IInv'
<1>1. LoopTypeOK' /\ PlayTypeOK'
  BY LoopsGrow, PlayGrows DEF IInv, Keeps
<1>2. LoopInv'
  BY DEF IInv, LoopInv
<1>3. PlayInv'
  BY DEF IInv, PlayInv, Counted, Owed
<1> QED BY <1>1, <1>2, <1>3 DEF IInv, Keeps

LEMMA PlayKeeps == ASSUME IInv, Keeps, UNCHANGED play PROVE PlayTypeOK' /\ PlayInv'
<1>1. PlayTypeOK'
  BY PlayGrows DEF IInv, Keeps
<1>2. PlayInv'
  BY DEF IInv, PlayInv, Counted, Owed
<1> QED BY <1>1, <1>2

LEMMA NextIInv == IInv /\ [Next]_vars => IInv'
<1> SUFFICES ASSUME IInv, [Next]_vars PROVE IInv'
  OBVIOUS
<1>s. UNCHANGED agentVars => Keeps
  BY RequestKeeps DEF IInv, agentVars, AgentTypeOK
<1>1. ASSUME Backend PROVE IInv'
  <2>1. UNCHANGED <<loops, shown, play>>
    BY <1>1 DEF Backend
  <2>2. Keeps
    <3>1. CASE \/ \E s \in Savers, r \in Roles : SaveLook(s, r)
               \/ \E s \in Savers, reply \in Replies : SaveWrite(s, reply)
               \/ \E r \in Roles : Deactivate(r)
      BY <3>1, SaveKeeps DEF IInv
    <3>2. ASSUME NEW i \in DOMAIN jobs, JobStep(i) PROVE Keeps
      BY <3>2, JobKeeps DEF IInv
    <3>3. CASE Crash
      BY <3>3, CrashKeeps DEF IInv
    <3> QED BY <1>1, <3>1, <3>2, <3>3 DEF Backend
  <2> QED BY <2>1, <2>2, PagesKeep
<1>2. ASSUME Switch PROVE IInv'
  <2>1. Keeps /\ UNCHANGED <<tasks, loops, play>>
        /\ shown' = [loop |-> 0, results |-> [r \in {} |-> None]]
    BY <1>2, <1>s DEF Switch, Unseen, agentVars
  <2>2. PlayTypeOK' /\ PlayInv'
    BY <2>1, PlayKeeps
  <2>3. LoopInv'
    BY <2>1 DEF IInv, LoopInv
  <2>4. LoopTypeOK'
    <3>1. [r \in {} |-> None] \in [{} -> {"running", "completed", "failed"}]
      OBVIOUS
    <3>2. [r \in {} |-> None] \in Results
      BY <3>1 DEF Results
    <3>3. 0 \in 0..Len(loops)
      BY LenProperties DEF IInv, LoopTypeOK
    <3> QED BY <2>1, <3>2, <3>3 DEF IInv, LoopTypeOK, Loops, Results
  <2> QED BY <2>1, <2>2, <2>3, <2>4 DEF IInv, Keeps
<1>3. ASSUME NEW roles \in SeqOf(Roles, MaxAgents) \ {<<>>}, RunAll(roles) PROVE IInv'
  <2>1. UNCHANGED agentVars /\ UNCHANGED play
    BY <1>3 DEF RunAll
  <2>2. Keeps /\ LoopTypeOK' /\ LoopInv'
    BY <1>3, <2>1, RunAllType DEF IInv
  <2> QED BY <2>1, <2>2, PlayKeeps DEF IInv, Keeps
<1>4. ASSUME NEW l \in DOMAIN loops, Loop(l) PROVE IInv'
  <2>1. UNCHANGED play
    BY <1>4 DEF Loop, RunNext, RunPoll, RunOver
  <2>2. Keeps /\ LoopTypeOK' /\ LoopInv'
    BY <1>4, RunKeeps DEF IInv
  <2> QED BY <2>1, <2>2, PlayKeeps DEF IInv, Keeps
<1>5. ASSUME NEW r \in Roles, NEW reply \in Replies, Send(r, reply) PROVE IInv'
  <2>1. UNCHANGED <<loops, shown>>
    BY <1>5 DEF Send
  <2>2. Keeps /\ PlayTypeOK' /\ PlayInv'
    BY <1>5, SendKeeps DEF IInv
  <2>3. LoopTypeOK'
    BY <2>1, <2>2, LoopsGrow DEF IInv, Keeps
  <2>4. LoopInv'
    BY <2>1 DEF IInv, LoopInv
  <2> QED BY <2>2, <2>3, <2>4 DEF IInv, Keeps
<1>6. ASSUME \/ \E t \in 1..Len(tasks) : Arrive(t)
             \/ ArriveError \/ PlayPoll \/ PlayLate \/ PlayClose
      PROVE  IInv'
  <2>1. UNCHANGED agentVars /\ UNCHANGED <<loops, shown>>
    BY <1>6 DEF Arrive, ArriveError, PlayPoll, PlayLate, PlayClose
  <2>2. Keeps /\ UNCHANGED tasks
    BY <2>1, <1>s DEF agentVars
  <2>3. PlayTypeOK' /\ PlayInv'
    BY <1>6, <2>2, PlaygroundKeeps DEF IInv
  <2>4. LoopTypeOK'
    BY <2>1, <2>2, LoopsGrow DEF IInv, Keeps
  <2>5. LoopInv'
    BY <2>1 DEF IInv, LoopInv
  <2> QED BY <2>2, <2>3, <2>4, <2>5 DEF IInv, Keeps
<1>7. CASE UNCHANGED vars
  BY <1>7, <1>s, PagesKeep DEF vars
<1> QED BY <1>1, <1>2, <1>3, <1>4, <1>5, <1>6, <1>7 DEF Next

THEOREM Invariance == Spec => []IInv
BY InitIInv, NextIInv, PTL DEF Spec

\* The state of the agents' routes and of the pages over them is of its type.
THEOREM TypeCorrect == Spec => []TypeOK
<1>1. IInv => TypeOK
  BY DEF IInv, LoopTypeOK, PlayTypeOK, Plays, TypeOK
<1> QED BY <1>1, Invariance, PTL

\* The row of a task tells what its job did: a job that is over has settled it, and with
\* no request lost what the crew made is there exactly when the row says completed.
THEOREM TaskTruthAlways == Spec => []TaskTruth
<1>1. IInv => TaskTruth
  BY JobsOfTasks DEF IInv, JobInv, Fits, TaskTruth
<1> QED BY <1>1, Invariance, PTL

\* The playground answers no message twice and shows no task twice, with any number of
\* messages whose POSTs overlap, fail, or arrive in another order than they were sent.
THEOREM AnsweredOnce == Spec => []OneAnswerEach
<1>1. ASSUME IInv PROVE OneAnswerEach
  <2>1. Len(tasks) \in Nat /\ play \in Plays(Len(tasks)) /\ Counted(play)
    BY <1>1, LenProperties DEF IInv, AgentTypeOK, PlayTypeOK, PlayInv
  <2>2. /\ play.sent \in Nat /\ Len(play.answers) \in Nat /\ Owed(play) \in Nat
        /\ DOMAIN play.answers = 1..Len(play.answers)
    BY <2>1, PlayParts, LenProperties
  <2>3. Len(play.answers) <= play.sent
    BY <2>1, <2>2 DEF Counted
  <2> QED BY <2>1, <2>2, <2>3 DEF Counted, OneAnswerEach
<1> QED BY <1>1, Invariance, PTL
=============================================================================
