----------------------------- MODULE ServiceJobs -----------------------------
(***************************************************************************)
(* The service jobs of the proxy (proxy_server.py, _service_jobs).         *)
(*                                                                         *)
(* A start, stop, restart or status command for some services becomes a    *)
(* job: a record in a table, answered to the browser at once, and a thread *)
(* that asks the edge hosts, all services at a time, and enters each       *)
(* answer.  The browser polls the record.  The table is pruned whenever a  *)
(* job is added or ends: finished jobs go after an hour, and the oldest    *)
(* finished ones go when the table is too long.  Every access of the table *)
(* is under _service_jobs_lock, hence one action.                          *)
(***************************************************************************)
EXTENDS Naturals, Sequences, FiniteSets

CONSTANTS Jobs,        \* the commands that are sent, one job each
          Names,       \* the services of a job
          Loose,       \* those without a usable server_ip
          MaxJobs,     \* _SERVICE_JOB_MAX
          MayRaise     \* whether a job's thread can fail to get an event loop

ASSUME JobsAssumption ==
    /\ IsFiniteSet(Jobs)
    /\ Loose \subseteq Names
    /\ MaxJobs \in Nat
    /\ MayRaise \in BOOLEAN

VARIABLES table,       \* the keys of _service_jobs
          active,      \* job["active"]
          result,      \* the entry of each service: queued, active or its result
          runner,      \* where the thread of each job is
          ended,       \* the jobs that ended, by updated_at
          expired      \* how many of them ended more than _SERVICE_JOB_TTL_SEC ago

vars == <<table, active, result, runner, ended, expired>>

Done == {"ok", "failed", "interrupted"}

Init ==
    /\ table = {}
    /\ active = [j \in Jobs |-> FALSE]
    /\ result = [j \in Jobs |-> [n \in Names |-> "queued"]]
    /\ runner = [j \in Jobs |-> "none"]
    /\ ended = <<>>
    /\ expired = 0

-----------------------------------------------------------------------------
(***************************************************************************)
(* _prune_service_jobs_unlocked, for the table, the ended jobs and the     *)
(* flags as the caller has just made them.                                 *)
(***************************************************************************)
Position(order, j) == CHOOSE k \in 1 .. Len(order) : order[k] = j

\* The table after the jobs that ended too long ago are gone.
Unexpired(keys, order) ==
    {j \in keys : ~\E k \in 1 .. expired : order[k] = j}

\* Variant: the newest finished jobs go.
Overflow_Newest(keys, order) ==
    LET finished == {k \in 1 .. Len(order) : order[k] \in keys}
        newer(k) == Cardinality({i \in finished : i > k})
    IN {order[k] : k \in {i \in finished : newer(i) + MaxJobs < Cardinality(keys)}}

\* Variant: off by one.
Overflow_OneFew(keys, order) ==
    LET finished == {k \in 1 .. Len(order) : order[k] \in keys}
        older(k) == Cardinality({i \in finished : i < k})
    IN {order[k] : k \in {i \in finished : older(i) + MaxJobs + 1 < Cardinality(keys)}}

\* Variant: running jobs go too.
Overflow_AnyJob(keys, order) ==
    IF Cardinality(keys) > MaxJobs THEN {CHOOSE j \in keys : TRUE} ELSE {}

\* Too many jobs: the oldest finished ones go, as many as are too many.
Overflow(keys, order) ==
    LET finished == {k \in 1 .. Len(order) : order[k] \in keys}
        older(k) == Cardinality({i \in finished : i < k})
    IN {order[k] : k \in {i \in finished : older(i) + MaxJobs < Cardinality(keys)}}

Pruned(keys, order) ==
    LET left == Unexpired(keys, order) IN left \ Overflow(left, order)

-----------------------------------------------------------------------------
(***************************************************************************)
(* The request handler.                                                    *)
(***************************************************************************)

\* _start_service_job, then _spawn_service_job; the browser gets the job_id.
Submit(j) ==
    /\ runner[j] = "none"
    /\ active' = [active EXCEPT ![j] = TRUE]
    /\ table' = Pruned(table \cup {j}, ended)
    /\ runner' = [runner EXCEPT ![j] = "spawned"]
    /\ UNCHANGED <<result, ended, expired>>

-----------------------------------------------------------------------------
(***************************************************************************)
(* The thread of a job.                                                    *)
(***************************************************************************)

\* _run_service_job begins: a task for every service with a host.
StartRunner(j) ==
    /\ runner[j] = "spawned"
    /\ runner' = [runner EXCEPT ![j] = "running"]
    /\ UNCHANGED <<table, active, result, ended, expired>>

\* new_event_loop raised: _fail_service_job goes over the services.
RunnerRaises(j) ==
    /\ MayRaise
    /\ runner[j] = "spawned"
    /\ runner' = [runner EXCEPT ![j] = "failing"]
    /\ UNCHANGED <<table, active, result, ended, expired>>

\* An entry of a job that is no longer in the table is not made.
Enter(j, n, r) ==
    result' = IF j \in table THEN [result EXCEPT ![j][n] = r] ELSE result

\* _mark_pipeline_active, and the request to the edge goes out.
MarkActive(j, n) ==
    /\ runner[j] = "running"
    /\ n \notin Loose
    /\ result[j][n] = "queued"
    /\ Enter(j, n, "active")
    /\ UNCHANGED <<table, active, runner, ended, expired>>

\* The edge answered, or the request failed: _set_service_job_result.
SetResult(j, n) ==
    /\ runner[j] = "running"
    /\ result[j][n] = "active"
    /\ \E r \in {"ok", "failed"} : Enter(j, n, r)
    /\ UNCHANGED <<table, active, runner, ended, expired>>

\* The loop of _fail_service_job, one service at a time.
FailOne(j, n) ==
    /\ runner[j] = "failing"
    /\ result[j][n] \notin Done
    /\ Enter(j, n, "failed")
    /\ UNCHANGED <<table, active, runner, ended, expired>>

\* Variant: the tasks are not awaited.
Gathered_NoWait(j) ==
    \/ runner[j] = "running"
    \/ runner[j] = "failing" /\ \A n \in Names : result[j][n] \in Done

\* Every task of the gather is done, or the loop above went over all services.
Gathered(j) ==
    \/ runner[j] = "running" /\ \A n \in Names \ Loose : result[j][n] \in Done
    \/ runner[j] = "failing" /\ \A n \in Names : result[j][n] \in Done

\* _finalize_service_job: what has no result was interrupted, which is how the
\* services without a host end; the job is inactive, and the table is pruned.
Interrupted(j) ==
    result' = [result EXCEPT ![j] =
        [n \in Names |-> IF result[j][n] \in Done THEN result[j][n] ELSE "interrupted"]]

Finalize(j) ==
    /\ Gathered(j)
    /\ runner' = [runner EXCEPT ![j] = "over"]
    /\ IF j \in table
       THEN /\ Interrupted(j)
            /\ active' = [active EXCEPT ![j] = FALSE]
            /\ ended' = Append(ended, j)
            /\ table' = Pruned(table, ended')
       ELSE UNCHANGED <<table, active, result, ended>>
    /\ UNCHANGED expired

\* An hour has passed since the next job in the order ended.
Expire ==
    /\ expired < Len(ended)
    /\ expired' = expired + 1
    /\ UNCHANGED <<table, active, result, runner, ended>>

-----------------------------------------------------------------------------
RunnerStep(j) ==
    \/ StartRunner(j) \/ RunnerRaises(j)
    \/ \E n \in Names : MarkActive(j, n) \/ SetResult(j, n) \/ FailOne(j, n)
    \/ Finalize(j)

Next == (\E j \in Jobs : Submit(j) \/ RunnerStep(j)) \/ Expire

Spec == Init /\ [][Next]_vars

\* Threads run, and requests to an edge are answered or time out.
FairSpec == Spec /\ \A j \in Jobs : WF_vars(RunnerStep(j))

-----------------------------------------------------------------------------
TypeOK ==
    /\ table \subseteq Jobs
    /\ active \in [Jobs -> BOOLEAN]
    /\ result \in [Jobs -> [Names -> {"queued", "active"} \cup Done]]
    /\ runner \in [Jobs -> {"none", "spawned", "running", "failing", "over"}]
    /\ ended \in Seq(Jobs)
    /\ expired \in 0 .. Len(ended)

\* A job is never dropped while its thread runs, however many others are added
\* and end meanwhile: the browser polls it, and its answers would be lost.  Only
\* for such jobs does the table outgrow its limit.
TableKeepsRunning ==
    /\ \A j \in Jobs : runner[j] \in {"spawned", "running", "failing"}
                         <=> j \in table /\ active[j]
    /\ Cardinality(table) > MaxJobs => \A j \in table : active[j]

\* The limit drops a finished job only if no job that ended before it stays.
OldestDroppedFirst ==
    [][\A j \in table \ table', k \in table' :
          ~active'[k] => Position(ended', j) < Position(ended', k)]_vars

\* A service with a host is never reported as "Interrupted": its job waits
\* for the answer of the host, or for the failure of the request.
OnlyLooseInterrupted ==
    \A j \in Jobs, n \in Names : result[j][n] = "interrupted" => n \in Loose

\* The table implements the life of a job as the browser may rely on it: each
\* service has one result, fixed once given, and a job that is "done" is
\* complete and does not come back.
Lifecycle == INSTANCE JobLifecycle WITH
    state <- [j \in Jobs |-> IF runner[j] = "none" THEN "new"
                             ELSE IF j \notin table THEN "forgotten"
                             ELSE IF active[j] THEN "open" ELSE "settled"],
    verdicts <- [j \in Jobs |-> [n \in Names |->
                    IF result[j][n] \in Done THEN result[j][n] ELSE "none"]]

ImplementsLifecycle == Lifecycle!Spec
=============================================================================
