---------------------------- MODULE JobLifecycle ----------------------------
(***************************************************************************)
(* What the proxy promises about a service job, with no threads and no     *)
(* table: a job is opened, each of its services gets one result that never *)
(* changes, and only when all have one is the job settled; settled jobs    *)
(* can be forgotten at any time, open ones cannot (proxy_server.py,        *)
(* _service_jobs).                                                         *)
(***************************************************************************)
CONSTANTS Jobs,        \* the service jobs
          Names        \* the services of a job

VARIABLES state,       \* "new", "open", "settled" or "forgotten"
          verdicts     \* the result of each service of each job, or "none"

vars == <<state, verdicts>>

Results == {"ok", "failed", "interrupted"}

Init ==
    /\ state = [j \in Jobs |-> "new"]
    /\ verdicts = [j \in Jobs |-> [n \in Names |-> "none"]]

\* The states once job j is in state s and settled jobs may be forgotten.
MoveTo(j, s) ==
    /\ state'[j] \in s
    /\ \A k \in Jobs \ {j} :
          \/ state'[k] = state[k]
          \/ state[k] = "settled" /\ state'[k] = "forgotten"
    /\ DOMAIN state' = Jobs

Open(j) ==
    /\ state[j] = "new"
    /\ MoveTo(j, {"open"})
    /\ UNCHANGED verdicts

\* One service of an open job gets its result.
Decide(j, n) ==
    /\ state[j] = "open"
    /\ verdicts[j][n] = "none"
    /\ \E v \in Results : verdicts' = [verdicts EXCEPT ![j][n] = v]
    /\ UNCHANGED state

\* The job ends: what has no result by then was interrupted.
Settle(j) ==
    /\ state[j] = "open"
    /\ MoveTo(j, {"settled", "forgotten"})
    /\ verdicts' = [verdicts EXCEPT ![j] =
           [n \in Names |-> IF verdicts[j][n] = "none" THEN "interrupted"
                                                       ELSE verdicts[j][n]]]

Next ==
    \E j \in Jobs :
        \/ Open(j) \/ Settle(j)
        \/ \E n \in Names : Decide(j, n)

Spec == Init /\ [][Next]_vars
=============================================================================
