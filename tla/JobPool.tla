------------------------------ MODULE JobPool ------------------------------
(***************************************************************************)
(* What a scheduler promises for the jobs handed to it, without threads,   *)
(* fibers or a queue: a job that was accepted waits, runs, may give up the *)
(* processor (to wait again, or suspended until something wakes it), and   *)
(* ends once.  Scheduler implements this specification.                    *)
(***************************************************************************)

CONSTANT Jobs

VARIABLE status   \* of each job

Statuses == {"new", "waiting", "running", "suspended", "done"}

Init == status = [j \in Jobs |-> "new"]

Move(j, from, to) == status[j] = from /\ status' = [status EXCEPT ![j] = to]

\* one call of schedule() accepts one job or a batch of them
Accept(B) ==
    /\ \A j \in B : status[j] = "new"
    /\ status' = [j \in Jobs |-> IF j \in B THEN "waiting" ELSE status[j]]

Begin(j) == Move(j, "waiting", "running")
GiveWay(j) == Move(j, "running", "waiting")
Suspend(j) == Move(j, "running", "suspended")
Resume(j) == Move(j, "suspended", "waiting")
End(j) == Move(j, "running", "done")

Next ==
    \/ \E B \in SUBSET Jobs : Accept(B)
    \/ \E j \in Jobs : Begin(j) \/ GiveWay(j) \/ Suspend(j) \/ Resume(j) \/ End(j)

\* an accepted job is begun, and a suspended one resumed, sooner or later
Fairness == \A j \in Jobs : WF_status(Begin(j)) /\ WF_status(Resume(j))

Safety == Init /\ [][Next]_status

Spec == Safety /\ Fairness
=============================================================================
