---------------------------- MODULE StatusProofs ----------------------------
(***************************************************************************)
(* Proofs about the status of a service: how recent it is when the edge    *)
(* agent answers, and how its row agrees with itself and with other rows   *)
(* on the way to the page.  The second part is about StatusRows, for any   *)
(* pipelines, kinds and hosts and any conditions.                          *)
(*                                                                         *)
(* The first part is about the status requests of the agent, for any       *)
(* number of requests, services and workers, any cache interval and any    *)
(* deadline.  RowsAreRecent speaks of rows only, but a row comes from a    *)
(* task and a task from the cache or from a probe: the invariant says of   *)
(* each what it knows of the health of its service, and since when.        *)
(***************************************************************************)
EXTENDS EdgeProbes, StatusRows, TLAPS

States == {"queued", "probing", "done", "raised", "cancelled"}
TaskRecord == [st : States, began : Nat, was : BOOLEAN, ok : BOOLEAN]
CacheEntry == [at : Nat, ok : BOOLEAN, here : BOOLEAN]
BatchRecord == [st : {"idle", "open", "closing", "answered"}, since : Nat]

\* The types of the variables, without the bounds of a run.
ProbesType ==
    /\ clock \in Nat
    /\ healthy \in [Services -> BOOLEAN]
    /\ held \in [Services -> [BOOLEAN -> Nat]]
    /\ cache \in [Services -> CacheEntry]
    /\ batch \in [Batches -> BatchRecord]
    /\ DOMAIN task = Batches /\ DOMAIN row = Batches
    /\ \A b \in Batches : task[b] \in [Asked(b) -> TaskRecord]
                          /\ row[b] \in [Asked(b) -> Rows]

\* The history is up to date: each service has its present health now.
HeldNow == \A s \in Services :
    held[s][healthy[s]] = clock /\ \A v \in BOOLEAN : held[s][v] <= clock

\* An entry shows a health the service still had at the time it is entered for.
CacheHeld == \A s \in Services : cache[s].here => held[s][cache[s].ok] >= cache[s].at

\* A probe remembers the health its service had when it began.
ProbeHeld == \A b \in Batches : \A s \in Asked(b) :
    task[b][s].st = "probing" =>
        task[b][s].began <= clock /\ held[s][task[b][s].was] >= task[b][s].began

\* A result is of a health the service had then, or less than Interval before.
Recent(s, began, ok) == held[s][ok] >= began \/ began - held[s][ok] < Interval

ResultRecent == \A b \in Batches : \A s \in Asked(b) :
    task[b][s].st = "done" => Recent(s, task[b][s].began, task[b][s].ok)

\* A row with a health has the one its task found.
RowOfTask == \A b \in Batches : \A s \in Asked(b) :
    row[b][s] \in {"up", "down"} =>
        task[b][s].st = "done" /\ task[b][s].ok = (row[b][s] = "up")

ProbesInv ==
    ProbesType /\ HeldNow /\ CacheHeld /\ ProbeHeld /\ ResultRecent /\ RowOfTask

\* The agent starts with empty caches and no request.
LEMMA InitProbesInv == Init => ProbesInv
<1> SUFFICES ASSUME Init PROVE ProbesInv
  OBVIOUS
<1>1. Interval + 1 \in Nat
  BY ProbesAssumption
<1>2. ProbesType
  BY <1>1 DEF Init, ProbesType, NoEntry, NoTask, CacheEntry, TaskRecord, States,
              BatchRecord, Rows
<1>3. HeldNow
  BY <1>1 DEF Init, HeldNow
<1>4. CacheHeld /\ ProbeHeld /\ ResultRecent /\ RowOfTask
  BY DEF Init, CacheHeld, ProbeHeld, ResultRecent, RowOfTask, NoEntry, NoTask
<1> QED
  BY <1>2, <1>3, <1>4 DEF ProbesInv

\* Every step keeps the variables in their types.
LEMMA ProbesTypeStep ==
  ASSUME ProbesType, [Next]_vars
  PROVE  ProbesType'
<1> USE ProbesAssumption DEF ProbesType
<1> \A b \in Batches : Asked(b) \subseteq Services
  BY DEF Services
<1>1. ASSUME NEW b \in Batches, Begin(b) PROVE ProbesType'
  BY <1>1 DEF Begin, BatchRecord
<1>2. ASSUME NEW b \in Batches, NEW s \in Asked(b), Take(b, s) PROVE ProbesType'
  <2>1. task'[b] \in [Asked(b) -> TaskRecord]
    BY <1>2 DEF Take, TaskRecord, CacheEntry, States
  <2> QED
    BY <1>2, <2>1 DEF Take
<1>3. ASSUME NEW b \in Batches, NEW s \in Asked(b), ProbeEnds(b, s) PROVE ProbesType'
  <2>1. PICK ok \in {task[b][s].was, healthy[s]} :
          /\ task' = [task EXCEPT ![b][s] = [@ EXCEPT !.st = "done", !.was = FALSE, !.ok = ok]]
          /\ cache' = IF Interval > 0 THEN [cache EXCEPT ![s] = Entered(b, s, ok)] ELSE cache
    BY <1>3 DEF ProbeEnds
  <2>2. ok \in BOOLEAN
    BY DEF TaskRecord
  <2>3. task'[b] \in [Asked(b) -> TaskRecord]
    <3> DEFINE rec == [task[b][s] EXCEPT !.st = "done", !.was = FALSE, !.ok = ok]
    <3>1. task[b][s] \in TaskRecord
      OBVIOUS
    <3>2. rec \in TaskRecord
      BY <2>2, <3>1 DEF TaskRecord, States
    <3>3. task'[b] = [task[b] EXCEPT ![s] = rec]
      BY <2>1
    <3> QED
      BY <3>2, <3>3
  <2>4. cache' \in [Services -> CacheEntry]
    BY <2>1, <2>2 DEF Entered, TaskRecord, CacheEntry
  <2> QED
    BY <1>3, <2>1, <2>3, <2>4 DEF ProbeEnds
<1>4. ASSUME NEW b \in Batches, NEW s \in Asked(b), ProbeRaises(b, s) PROVE ProbesType'
  BY <1>4 DEF ProbeRaises, NoTask, TaskRecord, States
<1>5. ASSUME NEW b \in Batches, NEW s \in Asked(b), Collect(b, s) PROVE ProbesType'
  BY <1>5 DEF Collect, Rows
<1>6. ASSUME NEW b \in Batches, Close(b) PROVE ProbesType'
  <2>1. row'[b] \in [Asked(b) -> Rows]
    BY <1>6 DEF Close, CloseBatch, Rows
  <2>2. task'[b] = [s \in Asked(b) |-> IF task[b][s].st = "queued"
                                      THEN [task[b][s] EXCEPT !.st = "cancelled"]
                                      ELSE task[b][s]]
    BY <1>6 DEF Close, CloseBatch
  <2>3. ASSUME NEW s \in Asked(b)
        PROVE  [task[b][s] EXCEPT !.st = "cancelled"] \in TaskRecord
    <3>1. task[b][s] \in TaskRecord
      OBVIOUS
    <3> QED
      BY <3>1 DEF TaskRecord, States
  <2>4. task'[b] \in [Asked(b) -> TaskRecord]
    BY <2>2, <2>3
  <2> QED
    BY <1>6, <2>1, <2>4 DEF Close, CloseBatch, BatchRecord
<1>7. ASSUME NEW b \in Batches, Answer(b) PROVE ProbesType'
  BY <1>7 DEF Answer, BatchRecord
<1>8. CASE Invalidate
  BY <1>8 DEF Invalidate, NoEntry, CacheEntry
<1>9. ASSUME NEW s \in Services, Change(s) PROVE ProbesType'
  BY <1>9 DEF Change
<1>10. CASE Tick
  BY <1>10 DEF Tick
<1>11. CASE UNCHANGED vars
  BY <1>11 DEF vars
<1> QED
  BY <1>1, <1>2, <1>3, <1>4, <1>5, <1>6, <1>7, <1>8, <1>9, <1>10, <1>11 DEF Next, Work

\* Time and changes of health: what was seen recently stays so, for a task that
\* has begun keeps its beginning.
LEMMA HeldStep ==
  ASSUME ProbesInv, [Next]_vars
  PROVE  HeldNow' /\ \A s \in Services : \A v \in BOOLEAN : held'[s][v] >= held[s][v]
<1> USE DEF ProbesInv, ProbesType, HeldNow
<1> DEFINE Kept == \A s \in Services : \A v \in BOOLEAN : held'[s][v] >= held[s][v]
<1>1. ASSUME NEW s \in Services, Change(s) PROVE HeldNow' /\ Kept
  <2>1. \A t \in Services : \A v \in BOOLEAN :
          held'[t][v] = IF t = s /\ v = ~healthy[s] THEN clock ELSE held[t][v]
    BY <1>1 DEF Change
  <2>2. \A t \in Services : healthy'[t] = IF t = s THEN ~healthy[s] ELSE healthy[t]
    BY <1>1 DEF Change
  <2>3. clock' = clock
    BY <1>1 DEF Change
  <2>4. ASSUME NEW t \in Services PROVE held'[t][healthy'[t]] = clock
    <3>1. healthy[t] \in BOOLEAN /\ healthy'[t] \in BOOLEAN
      BY <2>2
    <3> QED
      BY <2>1, <2>2, <3>1
  <2>5. ASSUME NEW t \in Services, NEW v \in BOOLEAN
        PROVE  held'[t][v] <= clock /\ held'[t][v] >= held[t][v]
    BY <2>1
  <2> QED
    BY <2>3, <2>4, <2>5
<1>2. CASE Tick
  BY <1>2 DEF Tick
<1>3. CASE UNCHANGED <<clock, healthy, held>>
  BY <1>3
<1>4. UNCHANGED <<clock, healthy, held>> \/ Tick \/ \E s \in Services : Change(s)
  <2>1. ASSUME NEW b \in Batches, Begin(b) PROVE UNCHANGED <<clock, healthy, held>>
    BY <2>1 DEF Begin
  <2>2. ASSUME NEW b \in Batches, Work(b) PROVE UNCHANGED <<clock, healthy, held>>
    BY <2>2 DEF Work, Take, ProbeEnds, ProbeRaises, Collect, Close, CloseBatch, Answer
  <2>3. CASE Invalidate \/ UNCHANGED vars
    BY <2>3 DEF Invalidate, vars
  <2> QED
    BY <2>1, <2>2, <2>3 DEF Next
<1> QED
  BY <1>1, <1>2, <1>3, <1>4

\* An old task keeps what it knows: the history only grows.
LEMMA HeldMonotone ==
  ASSUME ProbesInv, [Next]_vars, NEW s \in Services, NEW v \in BOOLEAN,
         NEW t \in Nat
  PROVE  /\ held[s][v] >= t => held'[s][v] >= t
         /\ Recent(s, t, v) => Recent(s, t, v)'
<1>1. held'[s][v] >= held[s][v]
  BY HeldStep
<1>2. held[s][v] \in Nat
  BY DEF ProbesInv, ProbesType
<1>3. held'[s][v] \in Nat
  BY ProbesTypeStep DEF ProbesInv, ProbesType
<1> QED
  BY <1>1, <1>2, <1>3, ProbesAssumption DEF Recent

\* What a step can do to the task of one service in one request.
LEMMA TaskChanges ==
  ASSUME ProbesInv, [Next]_vars, NEW b \in Batches, NEW s \in Asked(b)
  PROVE  \/ task'[b][s] = task[b][s]
         \/ Take(b, s)
         \/ ProbeEnds(b, s)
         \/ /\ task[b][s].st \in {"queued", "probing"}
            /\ task'[b][s].st \in {"raised", "cancelled"}
<1> DEFINE Goal == \/ task'[b][s] = task[b][s]
                   \/ Take(b, s)
                   \/ ProbeEnds(b, s)
                   \/ /\ task[b][s].st \in {"queued", "probing"}
                      /\ task'[b][s].st \in {"raised", "cancelled"}
<1> USE DEF ProbesInv, ProbesType
<1>1. ASSUME NEW c \in Batches, NEW x \in Asked(c), Take(c, x) PROVE Goal
  <2>1. CASE c = b /\ x = s
    BY <1>1, <2>1
  <2>2. CASE ~(c = b /\ x = s)
    BY <1>1, <2>2 DEF Take
  <2> QED
    BY <2>1, <2>2
<1>2. ASSUME NEW c \in Batches, NEW x \in Asked(c), ProbeEnds(c, x) PROVE Goal
  <2>1. CASE c = b /\ x = s
    BY <1>2, <2>1
  <2>2. CASE ~(c = b /\ x = s)
    BY <1>2, <2>2 DEF ProbeEnds
  <2> QED
    BY <2>1, <2>2
<1>3. ASSUME NEW c \in Batches, NEW x \in Asked(c), ProbeRaises(c, x) PROVE Goal
  <2>1. CASE c = b /\ x = s
    BY <1>3, <2>1 DEF ProbeRaises, NoTask
  <2>2. CASE ~(c = b /\ x = s)
    BY <1>3, <2>2 DEF ProbeRaises
  <2> QED
    BY <2>1, <2>2
<1>4. ASSUME NEW c \in Batches, Close(c) PROVE Goal
  <2>1. task' = [task EXCEPT ![c] = [x \in Asked(c) |->
                   IF task[c][x].st = "queued"
                   THEN [task[c][x] EXCEPT !.st = "cancelled"] ELSE task[c][x]]]
    BY <1>4 DEF Close, CloseBatch
  <2>2. CASE c = b /\ task[b][s].st = "queued"
    <3>1. task[b][s] \in TaskRecord
      OBVIOUS
    <3> QED
      BY <2>1, <2>2, <3>1 DEF TaskRecord
  <2>3. CASE ~(c = b /\ task[b][s].st = "queued")
    BY <2>1, <2>3
  <2> QED
    BY <2>2, <2>3
<1>5. CASE UNCHANGED task
  BY <1>5
<1> QED
  BY <1>1, <1>2, <1>3, <1>4, <1>5
     DEF Next, Work, vars, Begin, Collect, Answer, Invalidate, Change, Tick

\* What a probe found is a health its service had since the probe began.
LEMMA ProbeFinds ==
  ASSUME ProbesInv, [Next]_vars, NEW b \in Batches, NEW s \in Asked(b),
         ProbeEnds(b, s)
  PROVE  \E ok \in BOOLEAN :
           /\ held'[s][ok] >= task[b][s].began
           /\ task' = [task EXCEPT ![b][s] =
                         [@ EXCEPT !.st = "done", !.was = FALSE, !.ok = ok]]
           /\ cache' = IF Interval > 0 THEN [cache EXCEPT ![s] = Entered(b, s, ok)]
                                       ELSE cache
<1> s \in Services
  BY DEF Services
<1>1. PICK ok \in {task[b][s].was, healthy[s]} :
        /\ task' = [task EXCEPT ![b][s] =
                      [@ EXCEPT !.st = "done", !.was = FALSE, !.ok = ok]]
        /\ cache' = IF Interval > 0 THEN [cache EXCEPT ![s] = Entered(b, s, ok)]
                                    ELSE cache
  BY DEF ProbeEnds
<1>2. task[b][s] \in TaskRecord /\ healthy[s] \in BOOLEAN
  BY DEF ProbesInv, ProbesType
<1>3. ok \in BOOLEAN
  BY <1>2 DEF TaskRecord
<1>4. task[b][s].st = "probing" /\ held' = held
  BY DEF ProbeEnds
<1>5. task[b][s].began <= clock /\ held[s][task[b][s].was] >= task[b][s].began
  BY <1>4 DEF ProbesInv, ProbeHeld
<1>6. held[s][healthy[s]] = clock /\ clock \in Nat /\ task[b][s].began \in Nat
  BY <1>2 DEF ProbesInv, HeldNow, ProbesType, TaskRecord
<1>7. held[s][ok] >= task[b][s].began
  BY <1>5, <1>6
<1> QED
  BY <1>1, <1>3, <1>4, <1>7

\* Entries of the cache are of a health their service had at their time.
LEMMA CacheStep ==
  ASSUME ProbesInv, [Next]_vars
  PROVE  CacheHeld'
<1> SUFFICES ASSUME NEW s \in Services, cache'[s].here
             PROVE  held'[s][cache'[s].ok] >= cache'[s].at
  BY DEF CacheHeld
<1> cache[s] \in CacheEntry /\ DOMAIN cache = Services
  BY DEF ProbesInv, ProbesType
<1>1. CASE cache'[s] = cache[s]
  <2>1. cache[s].ok \in BOOLEAN /\ cache[s].at \in Nat
    BY DEF CacheEntry
  <2>2. held[s][cache[s].ok] >= cache[s].at
    BY <1>1 DEF ProbesInv, CacheHeld
  <2> QED
    BY <1>1, <2>1, <2>2, HeldMonotone
<1>2. ASSUME NEW b \in Batches, NEW x \in Asked(b), ProbeEnds(b, x)
      PROVE  cache'[s] = cache[s] \/ held'[s][cache'[s].ok] >= cache'[s].at
  <2>1. PICK ok \in BOOLEAN :
          /\ held'[x][ok] >= task[b][x].began
          /\ cache' = IF Interval > 0 THEN [cache EXCEPT ![x] = Entered(b, x, ok)]
                                      ELSE cache
    BY <1>2, ProbeFinds
  <2> QED
    BY <2>1 DEF Entered
<1>3. CASE Invalidate
  BY <1>3 DEF Invalidate, NoEntry
<1>4. CASE UNCHANGED cache
  BY <1>1, <1>4
<1> QED
  BY <1>1, <1>2, <1>3, <1>4
     DEF Next, Work, vars, Begin, Take, ProbeRaises, Collect, Close, CloseBatch,
         Answer, Change, Tick

\* Tasks: a worker remembers the present health when it begins a probe, or takes
\* a result from the cache that is not yet an interval old.
LEMMA TaskStep ==
  ASSUME ProbesInv, [Next]_vars
  PROVE  ProbeHeld' /\ ResultRecent'
<1> SUFFICES ASSUME NEW b \in Batches, NEW s \in Asked(b)
             PROVE  /\ task'[b][s].st = "probing" =>
                         /\ task'[b][s].began <= clock'
                         /\ held'[s][task'[b][s].was] >= task'[b][s].began
                    /\ task'[b][s].st = "done" =>
                         Recent(s, task[b][s].began, task[b][s].ok)'
  BY DEF ProbeHeld, ResultRecent
<1> s \in Services
  BY DEF Services
<1>0. /\ task[b][s] \in TaskRecord /\ clock \in Nat /\ clock' >= clock
      /\ held[s] \in [BOOLEAN -> Nat] /\ cache[s] \in CacheEntry /\ clock' \in Nat
  <2>1. UNCHANGED clock \/ Tick
    BY DEF Next, Work, vars, Begin, Take, ProbeEnds, ProbeRaises, Collect, Close,
           CloseBatch, Answer, Invalidate, Change
  <2> QED
    BY <2>1 DEF Tick, ProbesInv, ProbesType
<1>1. CASE task'[b][s] = task[b][s]
  <2>1. task[b][s].st = "probing" =>
           task[b][s].began <= clock /\ held[s][task[b][s].was] >= task[b][s].began
    BY DEF ProbesInv, ProbeHeld
  <2>2. task[b][s].st = "done" => Recent(s, task[b][s].began, task[b][s].ok)
    BY DEF ProbesInv, ResultRecent
  <2>3. /\ task[b][s].began \in Nat /\ task[b][s].was \in BOOLEAN
        /\ task[b][s].ok \in BOOLEAN
    BY <1>0 DEF TaskRecord
  <2>4. task[b][s].st = "probing" => held'[s][task[b][s].was] >= task[b][s].began
    BY <2>1, <2>3, HeldMonotone
  <2>5. task[b][s].st = "done" =>
           \/ held'[s][task[b][s].ok] >= task[b][s].began
           \/ task[b][s].began - held'[s][task[b][s].ok] < Interval
    BY <2>2, <2>3, HeldMonotone DEF Recent
  <2> QED
    BY <1>0, <1>1, <2>1, <2>3, <2>4, <2>5 DEF Recent
<1>2. CASE Take(b, s)
  <2>1. UNCHANGED <<clock, held>>
    BY <1>2 DEF Take
  <2>2. CASE Hit(s)
    <3>1. task'[b][s] = [st |-> "done", began |-> clock, was |-> FALSE, ok |-> cache[s].ok]
      BY <1>2, <2>2 DEF Take, ProbesInv, ProbesType
    <3>2. held[s][cache[s].ok] >= cache[s].at /\ clock - cache[s].at < Interval
      BY <2>2 DEF Hit, ProbesInv, CacheHeld
    <3>3. cache[s].at \in Nat /\ held[s][cache[s].ok] \in Nat
      BY <1>0 DEF CacheEntry
    <3> QED
      BY <1>0, <2>1, <3>1, <3>2, <3>3, ProbesAssumption DEF Recent
  <2>3. CASE ~Hit(s)
    <3>1. task'[b][s] = [st |-> "probing", began |-> clock, was |-> healthy[s], ok |-> FALSE]
      BY <1>2, <2>3 DEF Take, ProbesInv, ProbesType
    <3>2. held[s][healthy[s]] = clock
      BY DEF ProbesInv, HeldNow
    <3> QED
      BY <1>0, <2>1, <3>1, <3>2
  <2> QED
    BY <2>2, <2>3
<1>3. CASE ProbeEnds(b, s)
  <2>1. PICK ok \in BOOLEAN :
          /\ held'[s][ok] >= task[b][s].began
          /\ task' = [task EXCEPT ![b][s] =
                        [@ EXCEPT !.st = "done", !.was = FALSE, !.ok = ok]]
    BY <1>3, ProbeFinds
  <2>2. task'[b][s] = [task[b][s] EXCEPT !.st = "done", !.was = FALSE, !.ok = ok]
    BY <2>1 DEF ProbesInv, ProbesType
  <2>3. /\ task'[b][s].st = "done" /\ task'[b][s].ok = ok
        /\ task'[b][s].began = task[b][s].began
    BY <1>0, <2>2 DEF TaskRecord
  <2> QED
    BY <2>1, <2>3 DEF Recent
<1>4. CASE task'[b][s].st \in {"raised", "cancelled"}
  BY <1>4
<1> QED
  BY <1>1, <1>2, <1>3, <1>4, TaskChanges

\* A collected row leaves the others as they are.
LEMMA OtherRows ==
  ASSUME ProbesType, NEW c \in Batches, NEW x \in Asked(c), Collect(c, x),
         NEW b \in Batches, NEW s \in Asked(b), ~(c = b /\ x = s)
  PROVE  row'[b][s] = row[b][s]
<1> DEFINE r == IF task[c][x].st = "raised" THEN "err"
                ELSE IF task[c][x].ok THEN "up" ELSE "down"
<1>1. row' = [row EXCEPT ![c][x] = r]
  BY DEF Collect
<1>2. DOMAIN row = Batches /\ DOMAIN row[b] = Asked(b)
  BY DEF ProbesType
<1> HIDE DEF r
<1> QED
  BY <1>1, <1>2

\* A row is made from a task that is over, and neither changes afterwards.
LEMMA RowStep ==
  ASSUME ProbesInv, [Next]_vars
  PROVE  RowOfTask'
<1> SUFFICES ASSUME NEW b \in Batches, NEW s \in Asked(b),
                    row'[b][s] \in {"up", "down"}
             PROVE  task'[b][s].st = "done" /\ task'[b][s].ok = (row'[b][s] = "up")
  BY DEF RowOfTask
<1> USE DEF ProbesInv, ProbesType
<1>1. CASE row'[b][s] = row[b][s]
  <2>1. task[b][s].st = "done" /\ task[b][s].ok = (row[b][s] = "up")
    BY <1>1 DEF RowOfTask
  <2>2. task'[b][s] = task[b][s]
    BY <2>1, TaskChanges DEF Take, ProbeEnds
  <2> QED
    BY <1>1, <2>1, <2>2
<1>2. ASSUME NEW c \in Batches, NEW x \in Asked(c), Collect(c, x)
      PROVE  row'[b][s] = row[b][s]
             \/ (task'[b][s].st = "done" /\ task'[b][s].ok = (row'[b][s] = "up"))
  <2>1. CASE c = b /\ x = s
    <3>1. task[b][s] \in TaskRecord /\ task' = task
      BY <1>2 DEF Collect
    <3>2. row'[b][s] = IF task[b][s].st = "raised" THEN "err"
                       ELSE IF task[b][s].ok THEN "up" ELSE "down"
      BY <1>2, <2>1 DEF Collect
    <3>3. task[b][s].st = "done"
      BY <1>2, <2>1, <3>2 DEF Collect
    <3> QED
      BY <3>1, <3>2, <3>3 DEF TaskRecord
  <2>2. CASE ~(c = b /\ x = s)
    BY <1>2, <2>2, OtherRows
  <2> QED
    BY <2>1, <2>2
<1>3. ASSUME NEW c \in Batches, Close(c) PROVE row'[b][s] = row[b][s]
  BY <1>3 DEF Close, CloseBatch
<1>4. CASE UNCHANGED row
  BY <1>1, <1>4
<1> QED
  BY <1>1, <1>2, <1>3, <1>4
     DEF Next, Work, vars, Begin, Take, ProbeEnds, ProbeRaises, Answer,
         Invalidate, Change, Tick

LEMMA ProbesStep == ProbesInv /\ [Next]_vars => ProbesInv'
BY ProbesTypeStep, HeldStep, CacheStep, TaskStep, RowStep DEF ProbesInv

\* The invariant says of rows what RowsAreRecent asks.
LEMMA RecentRows == ProbesInv => RowsAreRecent
BY DEF ProbesInv, RowOfTask, ResultRecent, Recent, RowsAreRecent

-----------------------------------------------------------------------------
\* A row shows a health its service had less than an interval before the request
\* took the service up (_cached_probe_local_stream and the two caches like it),
\* whatever probes of other requests enter late, over newer results or after
\* _invalidate_probe_caches, for any number of requests, services and workers.
THEOREM RecentRowsAlways == Spec => []RowsAreRecent
BY InitProbesInv, ProbesStep, RecentRows, PTL DEF Spec

-----------------------------------------------------------------------------
\* A request that has not begun has no rows: its start sets the time from which
\* the deadline counts, which no error row may depend on yet.
IdleHasNoRows == \A b \in Batches : batch[b].st = "idle" =>
    \A s \in Asked(b) : row[b][s] = "none"

ErrorInv == ProbesType /\ IdleHasNoRows /\ ErrorHasCause

LEMMA InitErrorInv == Init => ErrorInv
BY InitProbesInv DEF ProbesInv, ErrorInv, Init, IdleHasNoRows, ErrorHasCause

\* What a step can do to the row of one service.
LEMMA RowChanges ==
  ASSUME ProbesType, [Next]_vars, NEW b \in Batches, NEW s \in Asked(b)
  PROVE  \/ row'[b][s] = row[b][s]
         \/ /\ row'[b][s] # "err" /\ batch'[b].st # "idle"
         \/ /\ task'[b][s].st = "raised" /\ batch'[b].st # "idle"
         \/ /\ clock' - batch'[b].since >= Deadline /\ batch'[b].st # "idle"
<1> DEFINE Goal == \/ row'[b][s] = row[b][s]
                   \/ row'[b][s] # "err" /\ batch'[b].st # "idle"
                   \/ task'[b][s].st = "raised" /\ batch'[b].st # "idle"
                   \/ clock' - batch'[b].since >= Deadline /\ batch'[b].st # "idle"
<1>1. ASSUME NEW c \in Batches, NEW x \in Asked(c), Collect(c, x) PROVE Goal
  <2>1. CASE c = b /\ x = s
    <3>1. task' = task /\ batch' = batch /\ batch[b].st = "open"
      BY <1>1, <2>1 DEF Collect
    <3>2. CASE task[b][s].st = "raised"
      BY <3>1, <3>2
    <3>3. CASE task[b][s].st # "raised"
      <4>1. row'[b][s] = IF task[b][s].ok THEN "up" ELSE "down"
        BY <1>1, <2>1, <3>3 DEF Collect, ProbesType
      <4> QED
        BY <3>1, <4>1
    <3> QED
      BY <3>2, <3>3
  <2>2. CASE ~(c = b /\ x = s)
    BY <1>1, <2>2, OtherRows
  <2> QED
    BY <2>1, <2>2
<1>2. ASSUME NEW c \in Batches, Close(c) PROVE Goal
  <2>1. row' = [row EXCEPT ![c] = [x \in Asked(c) |->
                  IF row[c][x] = "none" THEN "err" ELSE row[c][x]]]
    BY <1>2 DEF Close, CloseBatch, Missing
  <2>2. CASE c = b /\ row[b][s] = "none"
    <3>1. s \in Missing(b)
      BY <2>2 DEF Missing
    <3>2. clock - batch[b].since >= Deadline
      BY <1>2, <2>2, <3>1 DEF Close
    <3>3. clock' = clock /\ batch'[b].since = batch[b].since /\ batch'[b].st = "closing"
      BY <1>2, <2>2 DEF Close, CloseBatch, ProbesType, BatchRecord
    <3> QED
      BY <3>2, <3>3
  <2>3. CASE ~(c = b /\ row[b][s] = "none")
    BY <2>1, <2>3 DEF ProbesType
  <2> QED
    BY <2>2, <2>3
<1>3. CASE UNCHANGED row
  BY <1>3
<1> QED
  BY <1>1, <1>2, <1>3
     DEF Next, Work, vars, Begin, Take, ProbeEnds, ProbeRaises, Answer,
         Invalidate, Change, Tick

\* Time only passes, and only the start of a request sets its time.
LEMMA RequestTime ==
  ASSUME ProbesType, [Next]_vars, NEW b \in Batches
  PROVE  /\ clock' >= clock
         /\ batch'[b].st = "idle" => batch[b].st = "idle"
         /\ batch[b].st # "idle" => batch'[b].since = batch[b].since
<1>1. ASSUME NEW c \in Batches, Begin(c) \/ Close(c) \/ Answer(c)
      PROVE  /\ batch'[b].st = "idle" => batch[b].st = "idle"
             /\ batch[b].st # "idle" => batch'[b].since = batch[b].since
             /\ clock' = clock
  BY <1>1 DEF Begin, Close, CloseBatch, Answer, ProbesType, BatchRecord
<1>2. CASE UNCHANGED batch
  <2>1. UNCHANGED clock \/ Tick
    BY DEF Next, Work, vars, Begin, Take, ProbeEnds, ProbeRaises, Collect, Close,
           CloseBatch, Answer, Invalidate, Change
  <2> QED
    BY <1>2, <2>1 DEF Tick, ProbesType
<1>3. UNCHANGED batch \/ \E c \in Batches : Begin(c) \/ Close(c) \/ Answer(c)
  BY DEF Next, Work, vars, Take, ProbeEnds, ProbeRaises, Collect, Invalidate,
         Change, Tick
<1> QED
  BY <1>1, <1>2, <1>3 DEF ProbesType

\* A task whose probe has raised stays so.
LEMMA RaisedStays ==
  ASSUME ProbesType, [Next]_vars, NEW b \in Batches, NEW s \in Asked(b),
         task[b][s].st = "raised"
  PROVE  task'[b][s].st = "raised"
<1> USE DEF ProbesType
<1>1. ASSUME NEW c \in Batches, NEW x \in Asked(c),
             Take(c, x) \/ ProbeEnds(c, x) \/ ProbeRaises(c, x)
      PROVE  task'[b][s].st = "raised"
  <2>1. ~(c = b /\ x = s)
    BY <1>1 DEF Take, ProbeEnds, ProbeRaises
  <2>2. task'[b][s] = task[b][s]
    BY <1>1, <2>1 DEF Take, ProbeEnds, ProbeRaises
  <2> QED
    BY <2>2
<1>2. ASSUME NEW c \in Batches, Close(c) PROVE task'[b][s].st = "raised"
  BY <1>2 DEF Close, CloseBatch
<1>3. CASE UNCHANGED task
  BY <1>3
<1> QED
  BY <1>1, <1>2, <1>3
     DEF Next, Work, vars, Begin, Collect, Answer, Invalidate, Change, Tick

LEMMA ErrorStep == ErrorInv /\ [Next]_vars => ErrorInv'
<1> SUFFICES ASSUME ErrorInv, [Next]_vars PROVE ErrorInv'
  OBVIOUS
<1>1. ProbesType /\ ProbesType'
  BY ProbesTypeStep DEF ErrorInv
<1>2. IdleHasNoRows'
  <2> SUFFICES ASSUME NEW b \in Batches, batch'[b].st = "idle", NEW s \in Asked(b)
               PROVE  row'[b][s] = "none"
    BY DEF IdleHasNoRows
  <2>1. row[b][s] = "none"
    BY <1>1, RequestTime DEF ErrorInv, IdleHasNoRows
  <2> QED
    BY <1>1, <2>1, RowChanges
<1>3. ErrorHasCause'
  <2> SUFFICES ASSUME NEW b \in Batches, NEW s \in Asked(b), row'[b][s] = "err"
               PROVE  \/ task'[b][s].st = "raised"
                      \/ clock' - batch'[b].since >= Deadline
    BY DEF ErrorHasCause
  <2>1. CASE row[b][s] = "err"
    <3>1. batch[b].st # "idle"
      BY <2>1 DEF ErrorInv, IdleHasNoRows
    <3>2. batch'[b].since = batch[b].since /\ clock' >= clock
      BY <1>1, <3>1, RequestTime
    <3>3. clock \in Nat /\ clock' \in Nat /\ batch[b].since \in Nat
      BY <1>1 DEF ProbesType, BatchRecord
    <3>4. task[b][s].st = "raised" \/ clock - batch[b].since >= Deadline
      BY <2>1 DEF ErrorInv, ErrorHasCause
    <3> QED
      BY <1>1, <3>2, <3>3, <3>4, RaisedStays, ProbesAssumption
  <2>2. CASE row[b][s] # "err"
    BY <1>1, <2>2, RowChanges
  <2> QED
    BY <2>1, <2>2
<1> QED
  BY <1>1, <1>2, <1>3 DEF ErrorInv

\* A status answer has an error for a service only after its probe raised or the
\* request has used up HOST_STATUS_DEADLINE (status_pipelines): neither a slow
\* neighbour nor a full pool makes a service look broken before that.
THEOREM ErrorsHaveCauses == Spec => []ErrorHasCause
<1>1. ErrorInv => ErrorHasCause
  BY DEF ErrorInv
<1> QED
  BY <1>1, InitErrorInv, ErrorStep, PTL DEF Spec

-----------------------------------------------------------------------------
(***************************************************************************)
(* The rows.  The status of a row depends on the rest of the row, and that *)
(* of a system_monitor on other rows.                                      *)
(***************************************************************************)

\* finalize_pipeline_status gives a row its final status at once.
LEMMA FinalizeTwice ==
  ASSUME NEW s \in Pipelines, NEW r \in RowType
  PROVE  /\ Finalize(s, r) \in RowType
         /\ Finalize(s, r).running = r.running
         /\ Finalize(s, r).metrics = r.metrics
         /\ Finalize(s, Finalize(s, r)) = Finalize(s, r)
<1> DEFINE status(x) ==
          IF Kind[s] = "sys" THEN IF x.running THEN "OK" ELSE "ERR"
          ELSE IF ~x.running
            THEN IF Kind[s] \in {"cv", "eg", "plain"} /\ x.status \in {"OK", "WARN"}
                 THEN x.status ELSE "ERR"
          ELSE IF Kind[s] = "plain" THEN "OK"
          ELSE IF x.metrics \in {"good", "ports"} /\ (Kind[s] = "cv" => x.stream)
            THEN "OK"
          ELSE IF Kind[s] = "drift" /\ x.metrics \in {"none", "part"} THEN x.status
          ELSE "WARN"
<1>1. \A x : Finalize(s, x) = [x EXCEPT !.status = status(x)]
  BY DEF Finalize
<1>2. status(r) \in Statuses
  BY DEF RowType, Statuses
<1>3. PICK q : q = [r EXCEPT !.status = status(r)]
  OBVIOUS
<1>4. /\ q \in RowType /\ q.running = r.running /\ q.metrics = r.metrics
      /\ q.stream = r.stream /\ q.status = status(r)
  BY <1>2, <1>3 DEF RowType
<1>5. status(q) = status(r)
  BY <1>4
<1> HIDE DEF status
<1>6. [q EXCEPT !.status = status(q)] = q
  BY <1>4, <1>5 DEF RowType
<1> QED
  BY <1>1, <1>3, <1>4, <1>6

\* Each way a row comes about leaves it well typed.
LEMMA RowsTyped ==
  ASSUME NEW s \in Pipelines, RowsTypeOK
  PROVE  /\ Probe(s) \in Metrics
         /\ \A seen, timely \in BOOLEAN : EdgeRow(s, seen, timely) \in RowType
         /\ \A r \in RowType, seen \in BOOLEAN :
              EnrichedRow(s, r, seen) \in RowType
         /\ \A r \in RowType : Preserve(s, r) \in RowType
         /\ Blank \in RowType
<1>1. Probe(s) \in Metrics
  BY RowsAssumption DEF RowsTypeOK, Probe, DriftMetrics, PlcMetrics,
         CheckerMetrics, DeviceMetrics, StreamMetrics, Reached,
         Metrics, Kinds
<1>2. \A r \in RowType : Finalize(s, r) \in RowType
  BY FinalizeTwice
<1>3. ASSUME NEW seen \in BOOLEAN, NEW timely \in BOOLEAN
      PROVE  EdgeRow(s, seen, timely) \in RowType
  <2> DEFINE metrics == IF Kind[s] = "sys" THEN "none" ELSE Probe(s)
  <2>1. metrics \in Metrics
    BY <1>1 DEF Metrics
  <2> DEFINE stream == Kind[s] = "cv" /\ Reached(s) # "down"
  <2>3. stream \in BOOLEAN
    OBVIOUS
  <2> HIDE DEF metrics, stream
  <2>2. /\ [running |-> seen, status |-> "PENDING", metrics |-> metrics,
            stream |-> stream] \in RowType
        /\ [running |-> seen, status |-> "ERR", metrics |-> "none",
            stream |-> FALSE] \in RowType
    BY <2>1, <2>3 DEF RowType, Statuses, Metrics
  <2> QED
    BY <2>2, <1>2 DEF EdgeRow, metrics, stream
<1>4. ASSUME NEW r \in RowType, NEW m \in Metrics
      PROVE  [r EXCEPT !.metrics = m] \in RowType
  BY <1>4 DEF RowType
<1>5. ASSUME NEW r \in RowType, NEW seen \in BOOLEAN
      PROVE  EnrichedRow(s, r, seen) \in RowType
  <2>1. [r EXCEPT !.running = TRUE] \in RowType
    BY DEF RowType
  <2> DEFINE up == IF ~r.running /\ seen
                   THEN Finalize(s, [r EXCEPT !.running = TRUE]) ELSE r
  <2>2. up \in RowType
    BY <2>1, <1>2
  <2> HIDE DEF up
  <2>3. [up EXCEPT !.metrics = Probe(s)] \in RowType
    BY <2>2, <1>1, <1>4
  <2> QED
    BY <2>2, <2>3, <1>2 DEF EnrichedRow, up
<1>6. ASSUME NEW r \in RowType PROVE Preserve(s, r) \in RowType
  <2>1. rows[s].metrics \in Metrics
    BY DEF RowsTypeOK, RowType
  <2> QED
    BY <2>1, <1>4 DEF Preserve
<1>7. Blank \in RowType
  BY DEF Blank, RowType, Statuses, Metrics
<1> QED
  BY <1>1, <1>3, <1>5, <1>6, <1>7

\* The rows agree with themselves whatever happens, and the system_monitors with
\* their peers between collections; an answer on its way is made of typed rows.
MapInv == /\ RowsTypeOK /\ DOMAIN condition = Pipelines /\ DOMAIN answer = Hosts
          /\ RowAgrees /\ SysAgrees

\* The status of a system_monitor is all that WithSys changes.
LEMMA OnlySys ==
  ASSUME NEW map \in [Pipelines -> RowType], NEW hosts
  PROVE  /\ WithSys(map, hosts) \in [Pipelines -> RowType]
         /\ \A s \in Pipelines : Kind[s] # "sys" => WithSys(map, hosts)[s] = map[s]
         /\ \A s \in Pipelines : WithSys(map, hosts)[s].running = map[s].running
<1>1. \A m \in Pipelines : SysStatus(m, map) \in Statuses
  BY DEF SysStatus, Statuses
<1>2. ASSUME NEW s \in Pipelines
      PROVE  [map[s] EXCEPT !.status = SysStatus(s, map)] \in RowType
  BY <1>1 DEF RowType
<1> QED
  BY <1>2 DEF WithSys, RowType

\* Before the first answer every row is pending.
LEMMA InitMap == RowsInit => MapInv
<1> SUFFICES ASSUME RowsInit PROVE MapInv
  OBVIOUS
<1>1. RowsTypeOK /\ DOMAIN condition = Pipelines /\ DOMAIN answer = Hosts
  BY RowsAssumption DEF RowsInit, RowsTypeOK, Blank, RowType, Statuses,
         Metrics
<1> QED
  BY <1>1 DEF MapInv, RowsInit, RowAgrees, SysAgrees, Blank

\* An answer is on its way: the map is left alone.
LEMMA AskedStep ==
  ASSUME MapInv, NEW h \in Hosts,
         EdgeAnswer(h) \/ NoAnswer(h) \/ Enrich(h)
  PROVE  MapInv'
<1>1. UNCHANGED <<running, condition, events, rows>>
  BY DEF EdgeAnswer, NoAnswer, Enrich, worldVars
<1>2. PICK a, p : /\ at' = [at EXCEPT ![h] = p] /\ answer' = [answer EXCEPT ![h] = a]
                  /\ \/ p = "lost" /\ a = <<>>
                     \/ p \in {"answered", "enriched"} /\ a \in [On(h) -> RowType]
  <2>1. CASE EdgeAnswer(h)
    <3>1. PICK missed \in SUBSET (On(h) \cap UnitOnly),
               late \in SUBSET (On(h) \cap Probed) :
                 answer' = [answer EXCEPT ![h] = [s \in On(h) |->
                    EdgeRow(s, running[s] /\ s \notin missed, s \notin late)]]
      BY <2>1, Zenon DEF EdgeAnswer
    <3>2. ASSUME NEW s \in On(h)
          PROVE  EdgeRow(s, running[s] /\ s \notin missed, s \notin late) \in RowType
      <4>1. s \in Pipelines /\ running[s] \in BOOLEAN
        BY DEF On, MapInv, RowsTypeOK
      <4>2. \A seen, timely \in BOOLEAN : EdgeRow(s, seen, timely) \in RowType
        BY <4>1, RowsTyped DEF MapInv
      <4>3. (running[s] /\ s \notin missed) \in BOOLEAN /\ (s \notin late) \in BOOLEAN
        OBVIOUS
      <4> QED
        BY <4>2, <4>3, Zenon
    <3> DEFINE a == [s \in On(h) |->
                    EdgeRow(s, running[s] /\ s \notin missed, s \notin late)]
    <3>3. a \in [On(h) -> RowType] /\ answer' = [answer EXCEPT ![h] = a]
      BY <3>1, <3>2, Zenon
    <3> HIDE DEF a
    <3> QED
      BY <2>1, <3>3 DEF EdgeAnswer
  <2>2. CASE NoAnswer(h)
    BY <2>2 DEF NoAnswer
  <2>3. CASE Enrich(h)
    <3>1. PICK seen : answer' = [answer EXCEPT ![h] = [s \in On(h) |->
                    EnrichedRow(s, answer[h][s], s \in seen)]]
      BY <2>3, Zenon DEF Enrich
    <3>2. answer[h] \in [On(h) -> RowType]
      BY <2>3 DEF Enrich, MapInv, RowsTypeOK
    <3>3. ASSUME NEW s \in On(h)
          PROVE  EnrichedRow(s, answer[h][s], s \in seen) \in RowType
      <4>1. s \in Pipelines /\ answer[h][s] \in RowType
        BY <3>2 DEF On
      <4>2. \A r \in RowType, b \in BOOLEAN : EnrichedRow(s, r, b) \in RowType
        BY <4>1, RowsTyped DEF MapInv
      <4>3. (s \in seen) \in BOOLEAN
        OBVIOUS
      <4> QED
        BY <4>1, <4>2, <4>3, Zenon
    <3> DEFINE a == [s \in On(h) |-> EnrichedRow(s, answer[h][s], s \in seen)]
    <3>4. a \in [On(h) -> RowType] /\ answer' = [answer EXCEPT ![h] = a]
      BY <3>1, <3>3, Zenon
    <3> HIDE DEF a
    <3> QED
      BY <2>3, <3>4 DEF Enrich
  <2> QED
    BY <2>1, <2>2, <2>3
<1>3. at \in [Hosts -> {"ask", "answered", "enriched", "lost", "applied", "ended"}]
  BY DEF MapInv, RowsTypeOK
<1> QED
  BY <1>1, <1>2, <1>3 DEF MapInv, RowsTypeOK, RowAgrees, SysAgrees

\* An answer is applied: the rows are finalised, then the system_monitor.
LEMMA ApplyStep ==
  ASSUME MapInv, NEW h \in Hosts, Apply(h)
  PROVE  MapInv'
<1> DEFINE new(s) == IF at[h] = "lost" THEN Finalize(s, Blank)
                     ELSE AppliedRow(s, answer[h][s])
           map == [s \in Pipelines |-> IF s \in On(h) THEN new(s) ELSE rows[s]]
<1>1. rows' = WithSys(map, {h})
  BY DEF Apply
<1>2. ASSUME NEW s \in On(h)
      PROVE  new(s) \in RowType /\ Finalize(s, new(s)) = new(s)
  <2>1. s \in Pipelines /\ Blank \in RowType
    BY RowsTyped DEF On, MapInv
  <2>2. CASE at[h] = "lost"
    BY <2>1, <2>2, FinalizeTwice
  <2>3. CASE at[h] # "lost"
    <3>1. answer[h][s] \in RowType
      BY <2>3 DEF MapInv, RowsTypeOK, Apply
    <3>2. Preserve(s, answer[h][s]) \in RowType
      BY <2>1, <3>1, RowsTyped DEF MapInv
    <3> QED
      BY <2>1, <2>3, <3>2, FinalizeTwice DEF AppliedRow
  <2> QED
    BY <2>2, <2>3
<1>3. rows \in [Pipelines -> RowType]
  BY DEF MapInv, RowsTypeOK
<1> HIDE DEF new
<1>4. map \in [Pipelines -> RowType]
  BY <1>2, <1>3
<1>5. ASSUME NEW s \in Pipelines, Kind[s] # "sys", map[s].status # "PENDING"
      PROVE  Finalize(s, map[s]) = map[s]
  BY <1>2, <1>5 DEF MapInv, RowAgrees
<1> HIDE DEF map
<1>6. RowAgrees' /\ rows' \in [Pipelines -> RowType]
  BY <1>1, <1>4, <1>5, OnlySys DEF RowAgrees, Finalize
<1>7. /\ answer' = [answer EXCEPT ![h] = <<>>] /\ at' = [at EXCEPT ![h] = "applied"]
      /\ UNCHANGED <<running, condition, events>>
  BY DEF Apply, worldVars
<1> QED
  BY <1>6, <1>7 DEF MapInv, RowsTypeOK, SysAgrees

\* The end of a collection gives every system_monitor the status of its peers.
LEMMA EndStep ==
  ASSUME MapInv, EndCollect
  PROVE  MapInv'
<1>1. /\ rows' = WithSys(rows, Hosts)
      /\ rows \in [Pipelines -> RowType]
      /\ UNCHANGED <<running, condition, events, answer>>
      /\ at' = [h \in Hosts |-> "ended"]
      /\ \A h \in Hosts : at[h] = "applied"
  BY DEF EndCollect, MapInv, RowsTypeOK, worldVars
<1>2. RowAgrees' /\ rows' \in [Pipelines -> RowType]
  BY <1>1, OnlySys DEF RowAgrees, Finalize, MapInv
<1>3. RowsTypeOK'
  BY <1>1, <1>2 DEF MapInv, RowsTypeOK
<1>4. ASSUME NEW m \in Pipelines, Kind[m] = "sys", MonitorOf[m] # NoHost
      PROVE  /\ rows'[m].status = "OK" =>
                  \A p \in Peers(MonitorOf[m]) : rows'[p].running /\ rows'[p].status # "PENDING"
             /\ rows'[m].status = "ERR" => ~rows'[m].running
  <2>1. HostOf[m] \in Hosts
    BY DEF Hosts
  <2>2. rows'[m].status = SysStatus(m, rows)
    BY <1>1, <1>4, <2>1 DEF WithSys, RowType
  <2>3. \A p \in Peers(MonitorOf[m]) : rows'[p] = rows[p]
    BY <1>1, OnlySys DEF Peers
  <2>4. rows'[m].running = rows[m].running
    BY <1>1, OnlySys
  <2> QED
    BY <2>2, <2>3, <2>4 DEF SysStatus
<1> QED
  BY <1>1, <1>2, <1>3, <1>4 DEF MapInv, SysAgrees

\* A wipe leaves what it keeps finalised and the rest pending.
LEMMA WipeStep ==
  ASSUME MapInv, Wipe
  PROVE  MapInv'
<1>1. UNCHANGED <<running, condition, events, at, answer>>
  BY DEF Wipe, worldVars
<1>2. ASSUME NEW s \in Pipelines
      PROVE  /\ rows'[s] \in RowType
             /\ rows'[s].status # "PENDING" => Finalize(s, rows'[s]) = rows'[s]
             /\ Kind[s] = "sys" => rows'[s].status = "PENDING"
  <2>1. rows[s] \in RowType /\ Blank \in RowType
    BY RowsTyped DEF MapInv, RowsTypeOK
  <2> DEFINE kept == [rows[s] EXCEPT !.stream = FALSE]
  <2>2. \/ rows'[s] = Finalize(s, kept) /\ Kind[s] # "sys"
        \/ rows'[s] = Blank
    BY DEF Wipe
  <2>3. kept \in RowType
    BY <2>1 DEF RowType
  <2> HIDE DEF kept
  <2> QED
    BY <2>1, <2>2, <2>3, FinalizeTwice DEF Blank
<1>3. rows' \in [Pipelines -> RowType]
  BY <1>2 DEF Wipe
<1> QED
  BY <1>1, <1>2, <1>3 DEF MapInv, RowsTypeOK, RowAgrees, SysAgrees, Finalize

\* Pipelines change, and a new collection begins: no row does.
LEMMA OtherMapStep ==
  ASSUME MapInv,
         \/ BeginCollect
         \/ \E s \in Pipelines : PipelineChanges(s)
         \/ UNCHANGED rowsVars
  PROVE  MapInv'
<1>1. rows' = rows /\ answer' = answer
  BY DEF BeginCollect, PipelineChanges, rowsVars
<1>2. CASE BeginCollect
  BY <1>1, <1>2 DEF BeginCollect, worldVars, MapInv, RowsTypeOK, RowAgrees,
                    SysAgrees
<1>3. ASSUME NEW s \in Pipelines, PipelineChanges(s) PROVE MapInv'
  <2>1. events' \in 0 .. MaxEvents /\ at' = at
    BY <1>3, RowsAssumption DEF PipelineChanges, MapInv, RowsTypeOK
  <2>2. /\ running' \in [Pipelines -> BOOLEAN] /\ DOMAIN condition' = Pipelines
        /\ \A r \in Pipelines : condition'[r] \in Conditions[r]
    BY <1>3 DEF PipelineChanges, MapInv, RowsTypeOK
  <2> QED
    BY <1>1, <2>1, <2>2 DEF MapInv, RowsTypeOK, RowAgrees, SysAgrees
<1>4. CASE UNCHANGED rowsVars
  BY <1>4 DEF rowsVars, worldVars, MapInv, RowsTypeOK, RowAgrees, SysAgrees
<1> QED
  BY <1>2, <1>3, <1>4

\* The invariant of the rows, and of the answers on their way.
LEMMA MapInvAlways == RowsSpec => []MapInv
<1>1. RowsInit => MapInv
  BY InitMap
<1>2. MapInv /\ [RowsNext]_(rowsVars) => MapInv'
  BY AskedStep, ApplyStep, EndStep, WipeStep, OtherMapStep DEF RowsNext, CollectStatus
<1> QED
  BY <1>1, <1>2, PTL DEF RowsSpec

\* A row that is not pending has the status finalize_pipeline_status gives for
\* the rest of it, wherever its run state and its metrics come from: the edge, the
\* probes of the proxy, the row before, or a wipe.
THEOREM RowsAgree == RowsSpec => []RowAgrees
<1>1. MapInv => RowAgrees
  BY DEF MapInv
<1> QED
  BY <1>1, MapInvAlways, PTL

\* After a collection a system_monitor shown OK has only peers shown running, and
\* one shown ERR does not run, in whatever order the hosts answered.
THEOREM MonitorsAgree == RowsSpec => []SysAgrees
<1>1. MapInv => SysAgrees
  BY DEF MapInv
<1> QED
  BY <1>1, MapInvAlways, PTL
=============================================================================
