--------------------------- MODULE TaskLifecycle ---------------------------
(***************************************************************************)
(* What a task promises to whoever reads the `tasks` table: it is created, *)
(* runs, either ends or waits for a supervisor, and once the supervisor    *)
(* has ruled it ends the way the ruling says.  FlowHitl, the code's        *)
(* database calls one by one, is shown to implement this.                  *)
(***************************************************************************)
VARIABLES
    status,   \* tasks.status, "none" before the row exists
    ruling    \* the supervisor's ruling, "none" until there is one

vars == <<status, ruling>>

Rulings == {"approved", "rejected"}
Ended   == {"completed", "failed"}

Init == status = "none" /\ ruling = "none"

\* A task moves from one status to the next without a human.
Move(from, to) ==
    /\ status = from
    /\ status' = to
    /\ UNCHANGED ruling

Create == Move("none", "pending")
Start  == Move("pending", "running")
Finish == ruling = "none" /\ \E end \in Ended : Move("running", end)
Pause  == ruling = "none" /\ Move("running", "awaiting_approval")

\* The supervisor rules once, and only on a task that waits.
Rule ==
    /\ status = "awaiting_approval"
    /\ ruling = "none"
    /\ ruling' \in Rulings
    /\ UNCHANGED status

\* An approved task may run again before it completes; a rejected one fails.
Resume == ruling = "approved" /\ Move("awaiting_approval", "running")

Settle ==
    \/ ruling = "approved" /\ \E from \in {"awaiting_approval", "running"} :
                                 Move(from, "completed")
    \/ ruling = "rejected" /\ Move("awaiting_approval", "failed")

Next == Create \/ Start \/ Finish \/ Pause \/ Rule \/ Resume \/ Settle

\* A ruling is carried out; nothing obliges the supervisor to rule.
Spec == Init /\ [][Next]_vars /\ WF_vars(Settle)
=============================================================================
