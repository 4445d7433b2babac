----------------------------- MODULE UpdateSlot -----------------------------
(***************************************************************************)
(* What the edge agent promises about updates, with no threads, no locks   *)
(* and no prune: one slot, taken by one update at a time, and a public     *)
(* step that says "starting" and "working" exactly while the slot is       *)
(* taken, and the last outcome afterwards (app.py, _update_state).         *)
(***************************************************************************)
CONSTANT Updates          \* the update commands the proxy sends

VARIABLES holders,        \* the updates that hold the slot: at most one
          served,         \* the updates that were ever given the slot
          step            \* what an update_status command reports

vars == <<holders, served, step>>

\* The steps at which an update is over.
Outcomes == {"done", "failed"}

\* The slot is free when the agent starts.
Init ==
    /\ holders = {}
    /\ served = {}
    /\ step = "idle"

\* Update i gets the free slot; it gets it once.
Take(i) ==
    /\ holders = {}
    /\ i \notin served
    /\ holders' = {i}
    /\ served' = served \cup {i}
    /\ step' = "starting"

\* The holder leaves the preamble and starts to work.
Work(i) ==
    /\ holders = {i}
    /\ step' = "working"
    /\ UNCHANGED <<holders, served>>

\* The holder gives the slot back, and the outcome is public in the same step.
Release(i) ==
    /\ holders = {i}
    /\ holders' = {}
    /\ step' \in Outcomes
    /\ UNCHANGED served

Next == \E i \in Updates : Take(i) \/ Work(i) \/ Release(i)

Spec == Init /\ [][Next]_vars
=============================================================================
