----------------------------- MODULE EdgeProbes -----------------------------
(***************************************************************************)
(* How the edge agent answers a status request (status_pipelines): a pool  *)
(* of worker threads probes the services, each through a cache of probe    *)
(* results that all requests share, and the request collects the rows      *)
(* until a deadline.  The proxy gives up on a slow answer and asks again,  *)
(* so several requests run at once.  Commands that stop, restart or update *)
(* a service empty the caches, whatever probes are under way.              *)
(*                                                                         *)
(* A probe is one of a stream, a camera or docker stats: all three caches  *)
(* work alike.  It ends, with a result or an exception, because every call *)
(* it makes has a timeout.  An interval of 0 turns a cache off.            *)
(***************************************************************************)
EXTENDS Naturals, Sequences, SequencesExt, FiniteSets, FiniteSetsExt

CONSTANTS Batches,     \* requests
          Items,       \* the services each request names, in its order
          Interval,    \* stream_probe_interval_sec or another cache's time
          Workers,     \* stream_probe_workers of edge_probe
          MaxWorkers,  \* EDGE_PROBE_WORKERS
          Deadline,    \* HOST_STATUS_DEADLINE
          MaxTime,     \* the time at which the clock stops
          MaxChanges   \* changes of a service's health

ASSUME ProbesAssumption ==
    /\ Interval \in Nat /\ Workers \in Nat /\ MaxWorkers \in Nat \ {0}
    /\ Deadline \in Nat /\ MaxTime \in Nat /\ MaxChanges \in Nat

VARIABLES clock,
          healthy,     \* whether each service answers its probe
          cache,       \* results of probes with the time they were asked for
          task,        \* of each request the probe of each service
          batch,       \* the state of each request
          row,         \* the rows each request has collected
          held,        \* history: when a service was last up, and last down
          changes       \* counter

vars == <<clock, healthy, cache, task, batch, row, held, changes>>

Asked(b) == Range(Items[b])
Services == UNION {Asked(b) : b \in Batches}
NoEntry == [at |-> 0, ok |-> FALSE, here |-> FALSE]
NoTask == [st |-> "queued", began |-> 0, was |-> FALSE, ok |-> FALSE]
\* "err" is the row of a service whose probe raised or came too late.
Rows == {"none", "up", "down", "err"}

\* Variant: 0 does not stand for the default.
WorkerCount_NoDefault(b) == Min({Workers, MaxWorkers, Len(Items[b])})

\* _status_worker_count
WorkerCount(b) ==
    Min({IF Workers = 0 THEN 1 ELSE Workers, MaxWorkers, Max({Len(Items[b]), 1})})

Busy(b) == {s \in Asked(b) : task[b][s].st = "probing"}

-----------------------------------------------------------------------------
Begin(b) ==
    /\ batch[b].st = "idle"
    /\ batch' = [batch EXCEPT ![b] = [st |-> "open", since |-> clock]]
    /\ UNCHANGED <<clock, healthy, cache, task, row, held, changes>>

\* A free worker takes the next task of the pool: a cached result that is
\* recent enough, or a probe, for which it remembers the time.
Hit(s) == /\ Interval > 0 /\ cache[s].here
          /\ clock - cache[s].at < Interval

Take(b, s) ==
    /\ batch[b].st = "open"
    /\ task[b][s].st = "queued"
    /\ Cardinality(Busy(b)) < WorkerCount(b)
    /\ \A i, j \in DOMAIN Items[b] :
         Items[b][i] = s /\ j < i => task[b][Items[b][j]].st # "queued"
    /\ task' = [task EXCEPT ![b][s] =
                  IF Hit(s)
                  THEN [st |-> "done", began |-> clock, was |-> FALSE, ok |-> cache[s].ok]
                  ELSE [st |-> "probing", began |-> clock, was |-> healthy[s], ok |-> FALSE]]
    /\ UNCHANGED <<clock, healthy, cache, batch, row, held, changes>>

\* Variant: the entry has the time after the probe.
Entered_After(b, s, ok) == [at |-> clock, ok |-> ok, here |-> TRUE]

\* The probe saw the service as it was at first or as it is now.  Its
\* result is entered with the time before the probe.
Entered(b, s, ok) == [at |-> task[b][s].began, ok |-> ok, here |-> TRUE]

ProbeEnds(b, s) ==
    /\ task[b][s].st = "probing"
    /\ \E ok \in {task[b][s].was, healthy[s]} :
         /\ task' = [task EXCEPT ![b][s] = [@ EXCEPT !.st = "done", !.was = FALSE, !.ok = ok]]
         /\ cache' = IF Interval > 0 THEN [cache EXCEPT ![s] = Entered(b, s, ok)]
                                     ELSE cache
    /\ UNCHANGED <<clock, healthy, batch, row, held, changes>>

ProbeRaises(b, s) ==
    /\ task[b][s].st = "probing"
    /\ task' = [task EXCEPT ![b][s] = [NoTask EXCEPT !.st = "raised"]]
    /\ UNCHANGED <<clock, healthy, cache, batch, row, held, changes>>

\* as_completed hands out a finished task.
Collect(b, s) ==
    /\ batch[b].st = "open"
    /\ task[b][s].st \in {"done", "raised"} /\ row[b][s] = "none"
    /\ row' = [row EXCEPT ![b][s] = IF task[b][s].st = "raised" THEN "err"
                                    ELSE IF task[b][s].ok THEN "up" ELSE "down"]
    /\ UNCHANGED <<clock, healthy, cache, task, batch, held, changes>>

\* All rows are there, or the deadline has passed: then the missing ones
\* are errors, and the tasks no worker has taken are cancelled.
Missing(b) == {s \in Asked(b) : row[b][s] = "none"}

CloseBatch(b) ==
    /\ batch' = [batch EXCEPT ![b].st = "closing"]
    /\ row' = [row EXCEPT ![b] = [s \in Asked(b) |-> IF s \in Missing(b) THEN "err"
                                                     ELSE @[s]]]
    /\ task' = [task EXCEPT ![b] =
                  [s \in Asked(b) |-> IF @[s].st = "queued"
                                      THEN [@[s] EXCEPT !.st = "cancelled"] ELSE @[s]]]
    /\ UNCHANGED <<clock, healthy, cache, held, changes>>

\* Variant: the first error ends the batch.
Close_FirstError(b) ==
    /\ batch[b].st = "open"
    /\ \/ Missing(b) = {} \/ clock - batch[b].since >= Deadline
       \/ \E s \in Asked(b) : row[b][s] = "err"
    /\ CloseBatch(b)

Close(b) ==
    /\ batch[b].st = "open"
    /\ Missing(b) = {} \/ clock - batch[b].since >= Deadline
    /\ CloseBatch(b)

\* The end of the pool waits for the probes under way, past the deadline.
Answer(b) ==
    /\ batch[b].st = "closing"
    /\ \A s \in Asked(b) : task[b][s].st \notin {"queued", "probing"}
    /\ batch' = [batch EXCEPT ![b].st = "answered"]
    /\ UNCHANGED <<clock, healthy, cache, task, row, held, changes>>

\* _invalidate_probe_caches, of a command to stop, restart or update.
Invalidate ==
    /\ cache' = [s \in Services |-> NoEntry]
    /\ UNCHANGED <<clock, healthy, task, batch, row, held, changes>>

Change(s) ==
    /\ changes < MaxChanges /\ changes' = changes + 1
    /\ healthy' = [healthy EXCEPT ![s] = ~@]
    /\ held' = [held EXCEPT ![s][~healthy[s]] = clock]
    /\ UNCHANGED <<clock, cache, task, batch, row>>

Tick ==
    /\ clock < MaxTime
    /\ clock' = clock + 1
    /\ held' = [s \in Services |-> [held[s] EXCEPT ![healthy[s]] = clock + 1]]
    /\ UNCHANGED <<healthy, cache, task, batch, row, changes>>

\* The clock starts late enough that 0 stands for "never".
Init ==
    /\ clock = Interval + 1
    /\ healthy = [s \in Services |-> TRUE]
    /\ cache = [s \in Services |-> NoEntry]
    /\ task = [b \in Batches |-> [s \in Asked(b) |-> NoTask]]
    /\ batch = [b \in Batches |-> [st |-> "idle", since |-> 0]]
    /\ row = [b \in Batches |-> [s \in Asked(b) |-> "none"]]
    /\ held = [s \in Services |-> [v \in BOOLEAN |-> IF v THEN clock ELSE 0]]
    /\ changes = 0

Work(b) ==
    \/ \E s \in Asked(b) : Take(b, s) \/ ProbeEnds(b, s) \/ ProbeRaises(b, s)
                             \/ Collect(b, s)
    \/ Close(b) \/ Answer(b)

Next ==
    \/ \E b \in Batches : Begin(b) \/ Work(b)
    \/ Invalidate \/ (\E s \in Services : Change(s)) \/ Tick

Spec == Init /\ [][Next]_vars

\* The threads of the agent run, and each probe ends: its calls time out.
FairSpec == Spec /\ \A b \in Batches : WF_vars(Work(b))

-----------------------------------------------------------------------------
\* Properties.

\* TypeOK: the types of the variables.
TypeOK ==
    /\ clock \in 0..MaxTime /\ healthy \in [Services -> BOOLEAN]
    /\ \A b \in Batches :
         /\ batch[b].st \in {"idle", "open", "closing", "answered"}
         /\ row[b] \in [Asked(b) -> Rows]
         /\ \A s \in Asked(b) :
              task[b][s].st \in {"queued", "probing", "done", "raised", "cancelled"}

\* RowsAreRecent: a row shows a health the service had less than Interval
\* before the request took it up: an old result never outlives the interval
\* in the cache, though slow probes of other requests enter theirs late,
\* over newer ones and after the caches were emptied.
RowsAreRecent ==
    \A b \in Batches : \A s \in Asked(b) :
        row[b][s] \in {"up", "down"} =>
            LET seen == held[s][row[b][s] = "up"] IN
            seen >= task[b][s].began \/ task[b][s].began - seen < Interval

\* ErrorHasCause: a service is answered with an error only if its probe
\* raised or the request had used up its deadline.
ErrorHasCause ==
    \A b \in Batches : \A s \in Asked(b) :
        row[b][s] = "err" =>
            task[b][s].st = "raised" \/ clock - batch[b].since >= Deadline

\* EveryRequestAnswered: a request is answered, with any worker count.
EveryRequestAnswered ==
    \A b \in Batches : (batch[b].st = "open") ~> (batch[b].st = "answered")
=============================================================================
