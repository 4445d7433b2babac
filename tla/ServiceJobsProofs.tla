------------------------- MODULE ServiceJobsProofs -------------------------
(***************************************************************************)
(* Proofs about the service jobs of the proxy, for any number of jobs and  *)
(* services and any limit of the table: no prune, however many jobs come   *)
(* and end, drops a job whose thread still runs, the limit drops the       *)
(* oldest first, and the table implements the life of a job that           *)
(* JobLifecycle promises to the browser.  The dialog of ServiceDialog is a *)
(* client of the table, and reports no end before the job has ended.       *)
(***************************************************************************)
EXTENDS ServiceDialog, FiniteSetTheorems, TLAPS

Running == {"spawned", "running", "failing"}

\* A job is active while its thread runs, and then it is in the table; a job that
\* ended is over, and nothing is known of one that was not sent.
RunInv ==
    /\ \A j \in Jobs : runner[j] \in Running => j \in table /\ active[j]
    /\ \A j \in Jobs : runner[j] \notin Running => ~active[j]
    /\ \A k \in 1 .. Len(ended) : runner[ended[k]] = "over"
    /\ \A j \in Jobs : runner[j] = "none" =>
         j \notin table /\ \A n \in Names : result[j][n] = "queued"

JobInv == TypeOK /\ RunInv

\* What a prune drops has ended.
LEMMA PruneDropsEnded ==
  ASSUME NEW keys, NEW order \in Seq(Jobs), expired \in 0 .. Len(order)
  PROVE  /\ Pruned(keys, order) \subseteq keys
         /\ \A j \in keys \ Pruned(keys, order) : \E k \in 1 .. Len(order) : order[k] = j
<1> Len(order) \in Nat
  OBVIOUS
<1>1. Unexpired(keys, order) \subseteq keys
  BY DEF Unexpired
<1>2. \A j \in keys \ Unexpired(keys, order) : \E k \in 1 .. Len(order) : order[k] = j
  BY DEF Unexpired
<1>3. \A S : \A j \in Overflow(S, order) : \E k \in 1 .. Len(order) : order[k] = j
  BY DEF Overflow
<1> QED
  BY <1>1, <1>2, <1>3 DEF Pruned

\* The proxy starts without jobs.
LEMMA InitJobInv == Init => JobInv
BY DEF Init, JobInv, TypeOK, RunInv, Running

\* A job is sent: the prune of the longer table leaves it and all that run.
LEMMA SubmitStep ==
  ASSUME JobInv, NEW j \in Jobs, Submit(j)
  PROVE  /\ JobInv'
         /\ j \in table' /\ table' \subseteq table \cup {j}
         /\ \A k \in table \ table' : runner[k] = "over"
<1> USE DEF JobInv, TypeOK
<1>1. /\ runner[j] = "none" /\ active' = [active EXCEPT ![j] = TRUE]
      /\ runner' = [runner EXCEPT ![j] = "spawned"]
      /\ table' = Pruned(table \cup {j}, ended)
      /\ UNCHANGED <<result, ended, expired>>
  BY DEF Submit
<1>2. /\ table' \subseteq table \cup {j}
      /\ \A k \in (table \cup {j}) \ table' : runner[k] = "over"
  BY <1>1, PruneDropsEnded DEF RunInv
<1>3. j \in table'
  BY <1>1, <1>2
<1>4. TypeOK'
  BY <1>1, <1>2
<1>5. RunInv'
  <2>1. \A k \in 1 .. Len(ended) : ended[k] \in Jobs /\ ended[k] # j
    BY <1>1 DEF RunInv
  <2> QED
    BY <1>1, <1>2, <1>3, <2>1 DEF RunInv, Running
<1> QED
  BY <1>2, <1>3, <1>4, <1>5

\* The thread of a job enters results, as long as it runs.
LEMMA WorkStep ==
  ASSUME JobInv, NEW j \in Jobs, NEW n \in Names,
         MarkActive(j, n) \/ SetResult(j, n) \/ FailOne(j, n)
  PROVE  /\ JobInv'
         /\ runner[j] \in Running /\ j \in table /\ active[j]
         /\ UNCHANGED <<table, active, runner>>
         /\ \E r \in {"active", "ok", "failed"} :
              /\ result' = [result EXCEPT ![j][n] = r]
              /\ result[j][n] \notin Done
              /\ r = "active" => result[j][n] = "queued"
<1> USE DEF JobInv, TypeOK
<1>1. runner[j] \in Running /\ UNCHANGED <<table, active, runner, ended, expired>>
  BY DEF MarkActive, SetResult, FailOne, Running
<1>2. j \in table /\ active[j]
  BY <1>1 DEF RunInv
<1>3. PICK r \in {"active", "ok", "failed"} :
        /\ result' = [result EXCEPT ![j][n] = r]
        /\ result[j][n] \notin Done
        /\ r = "active" => result[j][n] = "queued"
  BY <1>2 DEF MarkActive, SetResult, FailOne, Enter, Done
<1>4. TypeOK'
  <2>1. result'[j] \in [Names -> {"queued", "active"} \cup Done]
    BY <1>3 DEF Done
  <2> QED
    BY <1>1, <1>3, <2>1
<1>5. RunInv'
  BY <1>1, <1>3 DEF RunInv, Running
<1> QED
  BY <1>1, <1>2, <1>3, <1>4, <1>5

\* A job ends: it was in the table all the time, and only ended jobs are dropped.
LEMMA FinalizeStep ==
  ASSUME JobInv, NEW j \in Jobs, Finalize(j)
  PROVE  /\ JobInv'
         /\ runner[j] \in Running /\ j \in table /\ active[j]
         /\ runner' = [runner EXCEPT ![j] = "over"]
         /\ active' = [active EXCEPT ![j] = FALSE]
         /\ Interrupted(j)
         /\ table' \subseteq table
         /\ \A k \in table \ table' : k = j \/ runner[k] = "over"
<1> USE DEF JobInv, TypeOK
<1>1. runner[j] \in Running
  BY DEF Finalize, Gathered, Running
<1>2. j \in table /\ active[j]
  BY <1>1 DEF RunInv
<1>3. /\ runner' = [runner EXCEPT ![j] = "over"]
      /\ active' = [active EXCEPT ![j] = FALSE]
      /\ Interrupted(j) /\ ended' = Append(ended, j)
      /\ table' = Pruned(table, ended') /\ expired' = expired
  BY <1>2 DEF Finalize
<1>4. /\ ended' \in Seq(Jobs) /\ Len(ended') = Len(ended) + 1
      /\ ended'[Len(ended) + 1] = j
      /\ \A k \in 1 .. Len(ended) : ended'[k] = ended[k]
  BY <1>3
<1>5. expired' \in 0 .. Len(ended') /\ expired \in 0 .. Len(ended')
  BY <1>3, <1>4
<1>6. /\ table' \subseteq table
      /\ \A k \in table \ table' : k = j \/ runner[k] = "over"
  <2>1. /\ Pruned(table, ended') \subseteq table
        /\ \A k \in table \ Pruned(table, ended') :
             \E i \in 1 .. Len(ended') : ended'[i] = k
    BY <1>4, <1>5, PruneDropsEnded
  <2> QED
    BY <1>3, <1>4, <2>1 DEF RunInv
<1>7. TypeOK'
  BY <1>3, <1>4, <1>5, <1>6 DEF Interrupted, Done
<1>8. RunInv'
  <2>1. \A k \in 1 .. Len(ended') : runner'[ended'[k]] = "over"
    BY <1>3, <1>4 DEF RunInv
  <2>2. \A k \in Jobs : k # j => runner'[k] = runner[k] /\ active'[k] = active[k]
                                 /\ result'[k] = result[k]
    BY <1>3 DEF Interrupted
  <2> QED
    BY <1>1, <1>3, <1>6, <2>1, <2>2 DEF RunInv, Running
<1> QED
  BY <1>1, <1>2, <1>3, <1>6, <1>7, <1>8

\* Steps that only move a thread, or let time pass.
LEMMA QuietStep ==
  ASSUME JobInv,
         (\E j \in Jobs : StartRunner(j) \/ RunnerRaises(j)) \/ Expire \/ UNCHANGED vars
  PROVE  /\ JobInv'
         /\ UNCHANGED <<table, active, result>>
         /\ \A j \in Jobs : runner'[j] = "none" <=> runner[j] = "none"
<1> USE DEF JobInv, TypeOK
<1>1. ASSUME NEW j \in Jobs, StartRunner(j) \/ RunnerRaises(j)
      PROVE  /\ JobInv' /\ UNCHANGED <<table, active, result>>
             /\ \A k \in Jobs : runner'[k] = "none" <=> runner[k] = "none"
  <2>1. PICK v \in {"running", "failing"} : runner' = [runner EXCEPT ![j] = v]
    BY <1>1 DEF StartRunner, RunnerRaises
  <2>2. runner[j] = "spawned" /\ UNCHANGED <<table, active, result, ended, expired>>
    BY <1>1 DEF StartRunner, RunnerRaises
  <2>3. TypeOK'
    BY <2>1, <2>2
  <2>4. RunInv'
    BY <2>1, <2>2 DEF RunInv, Running
  <2> QED
    BY <2>1, <2>2, <2>3, <2>4
<1>2. CASE Expire \/ UNCHANGED vars
  BY <1>2 DEF Expire, vars, RunInv, Running
<1> QED
  BY <1>1, <1>2

LEMMA JobStep == JobInv /\ [Next]_vars => JobInv'
BY SubmitStep, WorkStep, FinalizeStep, QuietStep DEF Next, RunnerStep

-----------------------------------------------------------------------------
(***************************************************************************)
(* The refinement.                                                         *)
(***************************************************************************)
StateOf == [j \in Jobs |-> IF runner[j] = "none" THEN "new"
                           ELSE IF j \notin table THEN "forgotten"
                           ELSE IF active[j] THEN "open" ELSE "settled"]
VerdictsOf == [j \in Jobs |-> [n \in Names |->
                 IF result[j][n] \in Done THEN result[j][n] ELSE "none"]]

\* The other jobs of a step that may prune: they stay, or they are over and go.
LEMMA OthersMove ==
  ASSUME JobInv, JobInv', NEW j \in Jobs,
         table' \subseteq table \cup {j},
         \A k \in table \ table' : k = j \/ runner[k] = "over",
         \A k \in Jobs : k # j => runner'[k] = runner[k] /\ active'[k] = active[k],
         NEW S, StateOf'[j] \in S
  PROVE  Lifecycle!MoveTo(j, S)
<1>1. ASSUME NEW k \in Jobs \ {j}
      PROVE  StateOf'[k] = StateOf[k]
             \/ (StateOf[k] = "settled" /\ StateOf'[k] = "forgotten")
  BY <1>1 DEF StateOf, JobInv, RunInv, Running
<1> QED
  BY <1>1 DEF Lifecycle!MoveTo, StateOf

LEMMA LifecycleStep ==
  ASSUME JobInv, [Next]_vars
  PROVE  [Lifecycle!Next]_(Lifecycle!vars)
<1>0. JobInv'
  BY JobStep
<1>1. ASSUME NEW j \in Jobs, Submit(j) PROVE Lifecycle!Open(j)
  <2>1. StateOf[j] = "new" /\ StateOf'[j] \in {"open"} /\ result' = result
    BY <1>1, SubmitStep DEF Submit, StateOf, JobInv, TypeOK
  <2>2. Lifecycle!MoveTo(j, {"open"})
    BY <1>0, <1>1, <2>1, SubmitStep, OthersMove DEF Submit, JobInv, TypeOK
  <2> QED
    BY <2>1, <2>2 DEF Lifecycle!Open, StateOf
<1>2. ASSUME NEW j \in Jobs, NEW n \in Names,
             MarkActive(j, n) \/ SetResult(j, n) \/ FailOne(j, n)
      PROVE  Lifecycle!Decide(j, n) \/ UNCHANGED Lifecycle!vars
  <2>1. PICK r \in {"active", "ok", "failed"} :
          /\ result' = [result EXCEPT ![j][n] = r]
          /\ result[j][n] \notin Done
    BY <1>2, WorkStep
  <2>2. /\ runner[j] \in Running /\ j \in table /\ active[j]
        /\ UNCHANGED <<table, active, runner>>
    BY <1>2, WorkStep
  <2>3. StateOf' = StateOf /\ StateOf[j] = "open"
    BY <2>2 DEF StateOf, Running
  <2>4. VerdictsOf' = [VerdictsOf EXCEPT ![j][n] = IF r = "active" THEN "none" ELSE r]
    BY <2>1 DEF VerdictsOf, Done, JobInv, TypeOK
  <2>5. VerdictsOf[j][n] = "none"
    BY <2>1 DEF VerdictsOf
  <2>6. CASE r = "active"
    <3>1. ASSUME NEW k \in Jobs PROVE VerdictsOf'[k] = VerdictsOf[k]
      <4>1. ASSUME NEW m \in Names
            PROVE  result'[k][m] = result[k][m] \/ {result'[k][m], result[k][m]} \cap Done = {}
        BY <2>1, <2>6 DEF Done, JobInv, TypeOK
      <4>2. ASSUME NEW m \in Names
            PROVE  (IF result'[k][m] \in Done THEN result'[k][m] ELSE "none")
                     = (IF result[k][m] \in Done THEN result[k][m] ELSE "none")
        BY <4>1
      <4> QED
        BY <4>2 DEF VerdictsOf
    <3>2. VerdictsOf' = VerdictsOf
      BY <3>1 DEF VerdictsOf
    <3> QED
      BY <2>3, <3>2 DEF Lifecycle!vars, StateOf, VerdictsOf
  <2>7. CASE r # "active"
    <3>1. r \in Lifecycle!Results /\ VerdictsOf' = [VerdictsOf EXCEPT ![j][n] = r]
      BY <2>4, <2>7 DEF Lifecycle!Results
    <3> QED
      BY <2>3, <2>5, <3>1 DEF Lifecycle!Decide, StateOf, VerdictsOf
  <2> QED
    BY <2>6, <2>7
<1>3. ASSUME NEW j \in Jobs, Finalize(j) PROVE Lifecycle!Settle(j)
  <2>1. /\ runner[j] \in Running /\ j \in table /\ active[j]
        /\ runner' = [runner EXCEPT ![j] = "over"]
        /\ active' = [active EXCEPT ![j] = FALSE]
        /\ Interrupted(j) /\ table' \subseteq table
        /\ \A k \in table \ table' : k = j \/ runner[k] = "over"
    BY <1>3, FinalizeStep
  <2>2. StateOf[j] = "open" /\ StateOf'[j] \in {"settled", "forgotten"}
    BY <2>1 DEF StateOf, Running, JobInv, TypeOK
  <2>3. Lifecycle!MoveTo(j, {"settled", "forgotten"})
    BY <1>0, <2>1, <2>2, OthersMove DEF JobInv, TypeOK
  <2>4. VerdictsOf' = [VerdictsOf EXCEPT ![j] =
           [n \in Names |-> IF VerdictsOf[j][n] = "none" THEN "interrupted"
                                                        ELSE VerdictsOf[j][n]]]
    BY <2>1 DEF VerdictsOf, Interrupted, Done, JobInv, TypeOK
  <2> QED
    BY <2>2, <2>3, <2>4 DEF Lifecycle!Settle, StateOf, VerdictsOf
<1>4. CASE (\E j \in Jobs : StartRunner(j) \/ RunnerRaises(j)) \/ Expire \/ UNCHANGED vars
  <2>1. UNCHANGED <<table, active, result>>
        /\ \A j \in Jobs : runner'[j] = "none" <=> runner[j] = "none"
    BY <1>4, QuietStep
  <2>2. StateOf' = StateOf /\ VerdictsOf' = VerdictsOf
    BY <2>1 DEF StateOf, VerdictsOf
  <2> QED
    BY <2>2 DEF Lifecycle!vars, StateOf, VerdictsOf
<1> QED
  BY <1>1, <1>2, <1>3, <1>4 DEF Next, RunnerStep, Lifecycle!Next

LEMMA JobInvAlways == Spec => []JobInv
BY InitJobInv, JobStep, PTL DEF Spec

\* The types of the table and the threads of jobs hold throughout.
THEOREM TypeCorrect == Spec => []TypeOK
<1>1. JobInv => TypeOK
  BY DEF JobInv
<1> QED
  BY <1>1, JobInvAlways, PTL

\* _service_jobs, its threads and _prune_service_jobs_unlocked implement the life
\* of a job the browser relies on: a result is final, a job that is done is
\* complete, and no job is forgotten before it is done.
THEOREM Implementation == Spec => ImplementsLifecycle
<1>1. Init => Lifecycle!Init
  BY DEF Init, Lifecycle!Init, Done
<1> QED
  BY <1>1, LifecycleStep, JobInvAlways, PTL DEF Spec, ImplementsLifecycle, Lifecycle!Spec

\* Only services without a host can be reported as interrupted: a job's end waits
\* for the tasks of all others (_run_service_job and _fail_service_job).
THEOREM LooseOnly == Spec => []OnlyLooseInterrupted
<1>1. Init => OnlyLooseInterrupted
  BY DEF Init, OnlyLooseInterrupted
<1>2. JobInv /\ OnlyLooseInterrupted /\ [Next]_vars => OnlyLooseInterrupted'
  <2> SUFFICES ASSUME JobInv, OnlyLooseInterrupted, [Next]_vars,
                      NEW k \in Jobs, NEW m \in Names, result'[k][m] = "interrupted"
               PROVE  m \in Loose
    BY DEF OnlyLooseInterrupted
  <2>1. ASSUME NEW j \in Jobs, NEW n \in Names,
               MarkActive(j, n) \/ SetResult(j, n) \/ FailOne(j, n)
        PROVE  m \in Loose
    <3>1. PICK r \in {"active", "ok", "failed"} : result' = [result EXCEPT ![j][n] = r]
      BY <2>1, WorkStep
    <3> QED
      BY <3>1 DEF OnlyLooseInterrupted, JobInv, TypeOK
  <2>2. ASSUME NEW j \in Jobs, Finalize(j) PROVE m \in Loose
    <3>1. Interrupted(j)
      BY <2>2, FinalizeStep
    <3>2. \A n \in Names \ Loose : result[j][n] \in Done
      BY <2>2 DEF Finalize, Gathered
    <3> QED
      BY <3>1, <3>2 DEF Interrupted, Done, OnlyLooseInterrupted, JobInv, TypeOK
  <2>3. CASE UNCHANGED result
    BY <2>3 DEF OnlyLooseInterrupted
  <2> QED
    BY <2>1, <2>2, <2>3
       DEF Next, RunnerStep, Submit, StartRunner, RunnerRaises, Expire, vars
<1> QED
  BY <1>1, <1>2, JobInvAlways, PTL DEF Spec

-----------------------------------------------------------------------------
(***************************************************************************)
(* The limit of the table.                                                 *)
(***************************************************************************)

\* A nonempty set of numbers has a least one.
LEMMA LeastNumber ==
  ASSUME NEW S \in SUBSET Nat, S # {}
  PROVE  \E n \in S : \A m \in S : n <= m
<1> DEFINE Below == {0 .. n : n \in S}
<1>1. ASSUME NEW n \in S PROVE 0 .. n \in FiniteSubsetsOf(Nat)
  BY FS_Interval DEF FiniteSubsetsOf
<1>2. Below \subseteq FiniteSubsetsOf(Nat) /\ Below # {}
  BY <1>1
<1>3. PICK t \in Below : \A u \in Below : <<u, t>> \notin StrictSubsetOrdering(Nat)
  <2> HIDE DEF Below
  <2> QED
    BY <1>2, FS_StrictSubsetOrderingWellFounded, WFMin, Zenon
<1>4. PICK n \in S : t = 0 .. n
  OBVIOUS
<1>5. ASSUME NEW m \in S, m < n PROVE FALSE
  <2>1. 0 .. m \in Below /\ 0 .. m \subseteq 0 .. n /\ n \notin 0 .. m /\ n \in 0 .. n
    BY <1>5
  <2>2. <<0 .. m, 0 .. n>> \in StrictSubsetOrdering(Nat)
    BY <2>1 DEF StrictSubsetOrdering
  <2> QED
    BY <2>1, <2>2, <1>3, <1>4
<1> QED
  BY <1>5

\* The positions of the jobs among keys that ended, those of them before position
\* k, and orders in which no job ends twice.
EndedIn(keys, order) == {i \in 1 .. Len(order) : order[i] \in keys}
EndedBefore(keys, order, k) == {i \in EndedIn(keys, order) : i < k}
Once(order) == \A i, k \in 1 .. Len(order) : order[i] = order[k] => i = k

LEMMA EndedFinite ==
  ASSUME NEW keys, NEW order \in Seq(Jobs), NEW k \in 1 .. Len(order)
  PROVE  /\ IsFiniteSet(EndedBefore(keys, order, k))
         /\ Cardinality(EndedBefore(keys, order, k)) \in Nat
         /\ EndedBefore(keys, order, k) \subseteq Nat
<1>1. Len(order) \in Int /\ IsFiniteSet(1 .. Len(order))
  BY FS_Interval
<1>2. EndedBefore(keys, order, k) \in SUBSET (1 .. Len(order))
  BY DEF EndedBefore, EndedIn
<1>3. IsFiniteSet(EndedBefore(keys, order, k))
  BY <1>1, <1>2, FS_Subset
<1> QED
  BY <1>1, <1>2, <1>3, FS_CardinalityType

\* Which jobs are dropped, in terms of these.
LEMMA OverflowIs ==
  ASSUME NEW keys, NEW order \in Seq(Jobs), Once(order), NEW k \in EndedIn(keys, order)
  PROVE  order[k] \in Overflow(keys, order) <=>
           Cardinality(EndedBefore(keys, order, k)) + MaxJobs < Cardinality(keys)
BY DEF Overflow, EndedBefore, EndedIn, Once

\* If a job that ended is left, the table is within its limit.
LEMMA OverflowBounds ==
  ASSUME NEW keys, IsFiniteSet(keys), NEW order \in Seq(Jobs), Once(order),
         NEW k \in EndedIn(keys, order), order[k] \notin Overflow(keys, order)
  PROVE  Cardinality(keys \ Overflow(keys, order)) <= MaxJobs
<1> DEFINE Left == {i \in EndedIn(keys, order) : order[i] \notin Overflow(keys, order)}
<1>1. Left \in SUBSET Nat /\ Left # {}
  BY DEF EndedIn
<1>2. PICK n \in Left : \A m \in Left : n <= m
  <2> HIDE DEF Left
  <2> QED
    BY <1>1, LeastNumber
<1> DEFINE Early == EndedBefore(keys, order, n)
<1> DEFINE Gone == keys \cap Overflow(keys, order)
<1>3. n \in 1 .. Len(order) /\ n \in EndedIn(keys, order)
  BY DEF EndedIn
<1>4. Cardinality(Early) + MaxJobs >= Cardinality(keys)
  <2>1. ~(Cardinality(Early) + MaxJobs < Cardinality(keys))
    BY <1>3, OverflowIs
  <2>2. Cardinality(Early) \in Nat /\ Cardinality(keys) \in Nat
    BY <1>3, EndedFinite, FS_CardinalityType
  <2> HIDE DEF Early
  <2> QED
    BY <2>1, <2>2, JobsAssumption
<1>5. \A m \in Early : order[m] \in Gone
  <2> SUFFICES ASSUME NEW m \in Early PROVE order[m] \in Gone
    OBVIOUS
  <2>1. m \in EndedIn(keys, order) /\ m < n /\ m \in Nat /\ n \in Nat
    BY <1>3 DEF EndedBefore, EndedIn
  <2>2. m \notin Left
    BY <1>2, <2>1
  <2> QED
    BY <2>1, <2>2 DEF EndedIn
<1>6. [m \in Early |-> order[m]] \in Injection(Early, Gone)
  <2>1. \A i, m \in Early : order[i] = order[m] => i = m
    BY DEF Once, EndedBefore, EndedIn
  <2> HIDE DEF Early, Gone
  <2> QED
    BY <1>5, <2>1 DEF Injection, IsInjective
<1>7. IsFiniteSet(Gone) /\ Cardinality(Gone) \in Nat /\ Cardinality(keys) \in Nat
  BY FS_Intersection, FS_CardinalityType
<1>8. Cardinality(Early) <= Cardinality(Gone)
  <2> HIDE DEF Early, Gone
  <2> QED
    BY <1>6, <1>7, FS_Injection
<1>9. Cardinality(keys \ Overflow(keys, order)) = Cardinality(keys) - Cardinality(Gone)
  BY FS_Difference
<1>10. Cardinality(Early) \in Nat
  BY <1>3, EndedFinite
<1> HIDE DEF Early, Gone
<1> QED
  BY <1>4, <1>7, <1>8, <1>9, <1>10, JobsAssumption

\* What is dropped for the limit ended before all that is left of what ended.
LEMMA OverflowOldest ==
  ASSUME NEW keys, IsFiniteSet(keys), NEW order \in Seq(Jobs), Once(order),
         NEW i \in EndedIn(keys, order), order[i] \in Overflow(keys, order),
         NEW k \in EndedIn(keys, order), order[k] \notin Overflow(keys, order)
  PROVE  i < k
<1> SUFFICES ASSUME k <= i PROVE FALSE
  BY DEF EndedIn
<1>1. EndedBefore(keys, order, k) \in SUBSET EndedBefore(keys, order, i)
  BY DEF EndedBefore, EndedIn
<1>2. i \in 1 .. Len(order) /\ k \in 1 .. Len(order)
  BY DEF EndedIn
<1>3. /\ IsFiniteSet(EndedBefore(keys, order, i))
      /\ Cardinality(EndedBefore(keys, order, i)) \in Nat
      /\ Cardinality(EndedBefore(keys, order, k)) \in Nat
  BY <1>2, EndedFinite
<1>4. Cardinality(EndedBefore(keys, order, k)) <= Cardinality(EndedBefore(keys, order, i))
  BY <1>1, <1>3, FS_Subset
<1>5. Cardinality(keys) \in Nat
  BY FS_CardinalityType
<1>6. /\ Cardinality(EndedBefore(keys, order, i)) + MaxJobs < Cardinality(keys)
      /\ ~(Cardinality(EndedBefore(keys, order, k)) + MaxJobs < Cardinality(keys))
  BY OverflowIs
<1> QED
  BY <1>3, <1>4, <1>5, <1>6, JobsAssumption

LEMMA PruneBounds ==
  ASSUME NEW keys, IsFiniteSet(keys), NEW order \in Seq(Jobs), Once(order),
         NEW k \in 1 .. Len(order), order[k] \in Pruned(keys, order)
  PROVE  Cardinality(Pruned(keys, order)) <= MaxJobs
<1> DEFINE left == Unexpired(keys, order)
<1>1. IsFiniteSet(left)
  <2>1. left \in SUBSET keys
    BY DEF Unexpired
  <2> QED
    BY <2>1, FS_Subset
<1>2. k \in EndedIn(left, order) /\ order[k] \notin Overflow(left, order)
  BY DEF Pruned, EndedIn
<1>3. Pruned(keys, order) = left \ Overflow(left, order)
  BY DEF Pruned
<1> HIDE DEF left
<1> QED
  BY <1>1, <1>2, <1>3, OverflowBounds

LEMMA PruneOldest ==
  ASSUME NEW keys, IsFiniteSet(keys), NEW order \in Seq(Jobs), Once(order),
         expired \in 0 .. Len(order),
         NEW i \in 1 .. Len(order), order[i] \in keys \ Pruned(keys, order),
         NEW k \in 1 .. Len(order), order[k] \in Pruned(keys, order)
  PROVE  i < k
<1> DEFINE left == Unexpired(keys, order)
<1>1. IsFiniteSet(left)
  <2>1. left \in SUBSET keys
    BY DEF Unexpired
  <2> QED
    BY <2>1, FS_Subset
<1>2. k \in EndedIn(left, order) /\ order[k] \notin Overflow(left, order)
  BY DEF Pruned, EndedIn
<1>3. CASE order[i] \in left
  <2>1. i \in EndedIn(left, order) /\ order[i] \in Overflow(left, order)
    BY <1>3 DEF Pruned, EndedIn
  <2> HIDE DEF left
  <2> QED
    BY <1>1, <1>2, <2>1, OverflowOldest
<1>4. CASE order[i] \notin left
  <2>1. i <= expired
    BY <1>4 DEF Unexpired, Once
  <2>2. k > expired
    BY <1>2 DEF EndedIn, Unexpired
  <2> QED
    BY <2>1, <2>2
<1> QED
  BY <1>3, <1>4

LEMMA PositionIs ==
  ASSUME NEW order, Once(order), NEW k \in 1 .. Len(order)
  PROVE  Position(order, order[k]) = k
BY DEF Position, Once

\* Every job of the table that is not active is in the order in which they ended.
EndedInv ==
    /\ Once(ended)
    /\ \A j \in table : ~active[j] => \E k \in 1 .. Len(ended) : ended[k] = j

WithinLimit == Cardinality(table) > MaxJobs => \A j \in table : active[j]

DropsOldest == \A j \in table \ table', k \in table' :
                 ~active'[k] => Position(ended', j) < Position(ended', k)

\* A step that ends with a prune.
LEMMA PruningStep ==
  ASSUME JobInv', NEW keys, keys \subseteq Jobs, table \subseteq keys,
         table' = Pruned(keys, ended'), expired' = expired, Once(ended'),
         \A j \in keys : ~active'[j] => \E k \in 1 .. Len(ended') : ended'[k] = j
  PROVE  EndedInv' /\ WithinLimit' /\ DropsOldest
<1>1. IsFiniteSet(keys)
  BY JobsAssumption, FS_Subset
<1>2. ended' \in Seq(Jobs) /\ expired \in 0 .. Len(ended')
  BY DEF JobInv, TypeOK
<1>3. /\ table' \subseteq keys
      /\ \A j \in keys \ table' : \E k \in 1 .. Len(ended') : ended'[k] = j
  BY <1>2, PruneDropsEnded
<1>4. EndedInv'
  BY <1>3 DEF EndedInv
<1>5. WithinLimit'
  <2> SUFFICES ASSUME NEW j \in table', ~active'[j] PROVE ~(Cardinality(table') > MaxJobs)
    BY DEF WithinLimit
  <2>1. PICK k \in 1 .. Len(ended') : ended'[k] = j
    BY <1>4 DEF EndedInv
  <2>2. Cardinality(table') <= MaxJobs
    BY <1>1, <1>2, <2>1, PruneBounds
  <2>3. Cardinality(table') \in Nat
    BY <1>1, <1>3, FS_Subset, FS_CardinalityType
  <2> QED
    BY <2>2, <2>3, JobsAssumption
<1>6. DropsOldest
  <2> SUFFICES ASSUME NEW j \in table \ table', NEW k \in table', ~active'[k]
               PROVE  Position(ended', j) < Position(ended', k)
    BY DEF DropsOldest
  <2>1. PICK a \in 1 .. Len(ended') : ended'[a] = j
    BY <1>3
  <2>2. PICK b \in 1 .. Len(ended') : ended'[b] = k
    BY <1>4 DEF EndedInv
  <2>3. a < b
    BY <1>1, <1>2, <2>1, <2>2, PruneOldest
  <2> QED
    BY <2>1, <2>2, <2>3, PositionIs
<1> QED
  BY <1>4, <1>5, <1>6

LEMMA TableStep ==
  ASSUME JobInv, EndedInv, WithinLimit, [Next]_vars
  PROVE  EndedInv' /\ WithinLimit' /\ DropsOldest
<1>0. JobInv'
  BY JobStep
<1>1. ASSUME NEW j \in Jobs, Submit(j)
      PROVE  EndedInv' /\ WithinLimit' /\ DropsOldest
  <2>1. /\ active' = [active EXCEPT ![j] = TRUE] /\ UNCHANGED <<ended, expired>>
        /\ table' = Pruned(table \cup {j}, ended')
    BY <1>1 DEF Submit
  <2>2. \A k \in table \cup {j} : ~active'[k] =>
          \E i \in 1 .. Len(ended') : ended'[i] = k
    BY <2>1 DEF EndedInv, JobInv, TypeOK
  <2>3. Once(ended') /\ table \cup {j} \subseteq Jobs
    BY <2>1 DEF EndedInv, JobInv, TypeOK
  <2> QED
    BY <1>0, <2>1, <2>2, <2>3, PruningStep
<1>2. ASSUME NEW j \in Jobs, Finalize(j)
      PROVE  EndedInv' /\ WithinLimit' /\ DropsOldest
  <2>1. runner[j] \in Running /\ j \in table
    BY <1>2, FinalizeStep
  <2>2. /\ active' = [active EXCEPT ![j] = FALSE] /\ ended' = Append(ended, j)
        /\ table' = Pruned(table, ended') /\ expired' = expired
    BY <1>2, <2>1 DEF Finalize
  <2>3. /\ Len(ended') = Len(ended) + 1 /\ ended'[Len(ended) + 1] = j
        /\ \A k \in 1 .. Len(ended) : ended'[k] = ended[k] /\ ended[k] # j
        /\ Len(ended) \in Nat
    BY <2>1, <2>2 DEF JobInv, TypeOK, RunInv, Running
  <2>4. Once(ended')
    BY <2>3 DEF Once, EndedInv
  <2>5. \A k \in table : ~active'[k] => \E i \in 1 .. Len(ended') : ended'[i] = k
    <3> SUFFICES ASSUME NEW k \in table, ~active'[k]
                 PROVE  \E i \in 1 .. Len(ended') : ended'[i] = k
      OBVIOUS
    <3>1. CASE k = j
      BY <2>3, <3>1
    <3>2. CASE k # j
      <4>1. ~active[k]
        BY <2>2, <3>2 DEF JobInv, TypeOK
      <4>2. PICK i \in 1 .. Len(ended) : ended[i] = k
        BY <4>1 DEF EndedInv
      <4> QED
        BY <2>3, <4>2
    <3> QED
      BY <3>1, <3>2
  <2>6. table \subseteq Jobs
    BY DEF JobInv, TypeOK
  <2> QED
    BY <1>0, <2>2, <2>4, <2>5, <2>6, PruningStep
<1>3. CASE UNCHANGED <<table, active, ended>>
  BY <1>3 DEF EndedInv, WithinLimit, DropsOldest
<1> QED
  BY <1>1, <1>2, <1>3
     DEF Next, RunnerStep, StartRunner, RunnerRaises, MarkActive, SetResult, FailOne,
         Expire, vars

LEMMA EndedInvAlways == Spec => [](JobInv /\ EndedInv /\ WithinLimit)
<1>1. Init => EndedInv /\ WithinLimit
  BY DEF Init, EndedInv, WithinLimit, Once
<1> QED
  BY <1>1, InitJobInv, JobStep, TableStep, PTL DEF Spec

\* _prune_service_jobs_unlocked never drops a job whose thread runs, whatever comes
\* and ends meanwhile, and keeps the table within _SERVICE_JOB_MAX unless all its
\* jobs run.
THEOREM RunningKept == Spec => []TableKeepsRunning
<1>1. JobInv /\ EndedInv /\ WithinLimit => TableKeepsRunning
  BY DEF JobInv, TypeOK, RunInv, WithinLimit, TableKeepsRunning, Running
<1> QED
  BY <1>1, EndedInvAlways, PTL

\* The limit and the age drop a finished job only if none that ended before stays.
THEOREM OldestFirst == Spec => OldestDroppedFirst
<1>1. JobInv /\ EndedInv /\ WithinLimit /\ [Next]_vars =>
        [\A j \in table \ table', k \in table' :
            ~active'[k] => Position(ended', j) < Position(ended', k)]_vars
  BY TableStep DEF DropsOldest
<1> QED
  BY <1>1, EndedInvAlways, PTL DEF Spec, OldestDroppedFirst

-----------------------------------------------------------------------------
(***************************************************************************)
(* The tab that sends commands and polls their jobs.                       *)
(***************************************************************************)

\* A tab takes no step with the table that ServiceJobs does not know, so what is
\* proved of the table holds beside any tab.
THEOREM DialogUsesJobs == DialogSpec => Spec
<1>1. DialogInit => Init
  BY DEF DialogInit
<1>2. [DialogNext]_allVars => [Next]_vars
  BY DEF DialogNext, allVars, Next, Send, Poll, Arrive
<1> QED
  BY <1>1, <1>2, PTL DEF DialogSpec, Spec

\* A thread that began does not go back, and one that is over stays over.
LEMMA RunnersOnlyMoveOn ==
    ASSUME JobInv, [Next]_vars, NEW j \in Jobs
    PROVE  /\ runner[j] = "over" => runner'[j] = "over"
           /\ runner[j] # "none" => runner'[j] # "none"
<1>1. CASE UNCHANGED vars
  BY <1>1 DEF vars
<1>2. CASE Expire
  BY <1>2 DEF Expire
<1>3. ASSUME NEW i \in Jobs, Submit(i) \/ RunnerStep(i)
      PROVE  /\ runner[j] = "over" => runner'[j] = "over"
             /\ runner[j] # "none" => runner'[j] # "none"
  BY <1>3 DEF JobInv, TypeOK, RunnerStep, Submit, StartRunner, RunnerRaises, MarkActive,
     SetResult, FailOne, Finalize, Gathered
<1> QED
  BY <1>1, <1>2, <1>3 DEF Next

Over(j) == j \in Jobs /\ runner[j] = "over"

\* The tab polls a job that was sent, and every answer on its way that reports an
\* end was made when the thread of its job was over.
ReportInv ==
    /\ current # NoJob => current \in Jobs /\ runner[current] # "none"
    /\ \A reply \in replies : reply.kind # "progress" => Over(reply.job)
    /\ shown.kind # "progress" => Over(shown.from)

\* What a poll reports at its time: a job that is gone from the table, or that has
\* no result to come, is over.
LEMMA SnapshotIsTrue ==
    ASSUME JobInv, NEW j \in Jobs, runner[j] # "none", Snapshot(j).kind # "progress"
    PROVE  Over(Snapshot(j).job)
<1>1. Snapshot(j).job = j /\ (j \notin table \/ ~active[j])
  BY DEF Snapshot
<1>2. runner[j] \notin Running
  BY <1>1 DEF JobInv, RunInv
<1> QED
  BY <1>1, <1>2 DEF JobInv, TypeOK, Running, Over

\* However many polls overlap and whatever the limit drops meanwhile, the dialog
\* reports an end only of a job whose thread gave its last result: a job is missing
\* from the table only when it ended, and its thread does not start again.
THEOREM ReportsAreOver == DialogSpec => []ReportedIsOver
<1>1. DialogInit => ReportInv
  BY DEF DialogInit, ReportInv, Nothing
<1>2. JobInv /\ JobInv' /\ ReportInv /\ [DialogNext]_allVars => ReportInv'
  <2> SUFFICES ASSUME JobInv, JobInv', ReportInv, [DialogNext]_allVars PROVE ReportInv'
    OBVIOUS
  <2>0. [Next]_vars
    BY DEF DialogNext, allVars, Next, Send, Poll, Arrive
  <2>1. \A j \in Jobs : /\ runner[j] = "over" => runner'[j] = "over"
                        /\ runner[j] # "none" => runner'[j] # "none"
    BY <2>0, RunnersOnlyMoveOn
  <2>2. \A j : Over(j) => Over(j)'
    BY <2>1 DEF Over
  <2>3. ASSUME NEW j \in Jobs, Send(j) PROVE ReportInv'
    <3>1. runner'[j] # "none"
      BY <2>3 DEF Send, Submit, JobInv, TypeOK
    <3> QED
      BY <2>2, <2>3, <3>1 DEF Send, ReportInv
  <2>4. CASE Poll
    <3>1. Snapshot(current).kind # "progress" => Over(Snapshot(current).job)
      BY <2>4, SnapshotIsTrue DEF Poll, ReportInv
    <3> QED
      BY <2>1, <2>2, <2>4, <3>1 DEF Poll, ReportInv
  <2>5. ASSUME NEW reply \in replies, Arrive(reply) PROVE ReportInv'
    BY <2>1, <2>2, <2>5 DEF Arrive, ReportInv
  <2>6. CASE UNCHANGED dialogVars
    BY <2>1, <2>2, <2>6 DEF dialogVars, ReportInv
  <2> QED
    BY <2>3, <2>4, <2>5, <2>6 DEF DialogNext, allVars
<1>3. ReportInv => ReportedIsOver
  BY DEF ReportInv, ReportedIsOver, Over
<1>4. DialogSpec => []JobInv
  BY DialogUsesJobs, JobInvAlways, PTL
<1> QED
  BY <1>1, <1>2, <1>3, <1>4, PTL DEF DialogSpec
=============================================================================
