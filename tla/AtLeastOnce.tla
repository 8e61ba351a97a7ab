----------------------------- MODULE AtLeastOnce ------------------------------
(***************************************************************************)
(* What the job queue promises those who enqueue, without workers, locks   *)
(* or time: a job is given up for dead only when it failed for good or     *)
(* began its last attempt, it leaves the queue only after one of its runs  *)
(* succeeded (or an administrator discarded it), and it is begun at most   *)
(* `Allowed` times. Nothing promises that it runs only once.               *)
(***************************************************************************)
EXTENDS Naturals

CONSTANTS Jobs, Allowed

VARIABLES
    state,   \* "absent", "pending" or "dead"
    begun,   \* how many runs have begun since the job became pending
    results  \* what those runs returned

vars == <<state, begun, results>>

Init ==
    /\ state = [j \in Jobs |-> "absent"]
    /\ begun = [j \in Jobs |-> 0]
    /\ results = [j \in Jobs |-> {}]

BecomePending(j) ==
    /\ state' = [state EXCEPT ![j] = "pending"]
    /\ begun' = [begun EXCEPT ![j] = 0]
    /\ results' = [results EXCEPT ![j] = {}]

Submit(j) == state[j] = "absent" /\ BecomePending(j)

Revive(j) == state[j] = "dead" /\ BecomePending(j)

Begin(j) ==
    /\ state[j] = "pending"
    /\ begun[j] < Allowed[j]
    /\ begun' = [begun EXCEPT ![j] = @ + 1]
    /\ UNCHANGED <<state, results>>

\* A run whose worker was presumed dead may return late, whatever became of the job.
Return(j, result) ==
    /\ results' = [results EXCEPT ![j] = @ \cup {result}]
    /\ UNCHANGED <<state, begun>>

Leave(j) ==
    /\ state' = [state EXCEPT ![j] = "absent"]
    /\ begun' = [begun EXCEPT ![j] = 0]
    /\ UNCHANGED results

Finish(j) == state[j] = "pending" /\ "ok" \in results[j] /\ Leave(j)

Discard(j) == state[j] = "dead" /\ Leave(j)

\* Jobs are given up together when the reaper finds several.
GiveUp(S) ==
    /\ \A j \in S : /\ state[j] = "pending"
                    /\ begun[j] = Allowed[j] \/ "permanent" \in results[j]
    /\ state' = [j \in Jobs |-> IF j \in S THEN "dead" ELSE state[j]]
    /\ UNCHANGED <<begun, results>>

Next ==
    \/ \E j \in Jobs : \/ Submit(j)
                       \/ Revive(j)
                       \/ Begin(j)
                       \/ \E result \in {"ok", "retry", "permanent"} : Return(j, result)
                       \/ Finish(j)
                       \/ Discard(j)
    \/ \E S \in SUBSET Jobs : GiveUp(S)

Spec == Init /\ [][Next]_vars

-------------------------------------------------------------------------------
(* What follows for those who enqueue.                                     *)

\* A job is begun at most as often as it is allowed, and given up for dead only when it
\* was begun that often, or failed for good.
DeadForAReason ==
    \A j \in Jobs :
        /\ begun[j] <= Allowed[j]
        /\ state[j] = "dead" => begun[j] = Allowed[j] \/ "permanent" \in results[j]

\* A job leaves the queue only when a run of it succeeded, or an administrator discards
\* it, dead.
LeavesForAReason ==
    [][\A j \in Jobs : state[j] # "absent" /\ state'[j] = "absent" =>
          state[j] = "dead" \/ "ok" \in results[j]]_vars
===============================================================================
