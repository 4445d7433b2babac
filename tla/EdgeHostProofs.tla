--------------------------- MODULE EdgeHostProofs ---------------------------
(***************************************************************************)
(* Proofs about what runs on an edge host: the update slot of its agent    *)
(* and the renaming of its systemd units.  The two share nothing but this  *)
(* module.                                                                 *)
(*                                                                         *)
(* EdgeUpdate, for any set of update and status commands and with or       *)
(* without exceptions that leave update_pipeline: TypeOK and               *)
(* OneUpdateAtATime are needed together.  That a finish frees the slot     *)
(* rests on its owner being the only active update, and that the next      *)
(* check is honest rests on "running" being raised by every owner.         *)
(*                                                                         *)
(* RenameUnits, for any hosts a run may find, any number of runs and of    *)
(* starts and stops between them, and a kill or a reboot between any two   *)
(* commands: RenameInv follows each service of a run through its stages.   *)
(* What holds between runs is HostInv alone, for a run that is killed      *)
(* leaves nothing else behind.                                             *)
(***************************************************************************)
EXTENDS EdgeUpdate, RenameUnits, FiniteSetTheorems, TLAPS

\* A prune thread is only started by a thread that has ended its update.
PruneFollowsUpdate ==
    \A i \in Updates : prune[i] # "none" => upd[i] = "over"

\* The inductive invariant: every safety invariant the runs check, and what
\* PruneFlagHasOwner needs of a thread that is about to start its prune.
SlotInv ==
    /\ TypeOK
    /\ PruneFollowsUpdate
    /\ OneUpdateAtATime
    /\ StatusCoherent
    /\ PruneFlagHasOwner

\* The agent starts with a free slot and no thread.
LEMMA InitSlotInv == Init => SlotInv
BY UpdateAssumption
   DEF Init, SlotInv, TypeOK, PruneFollowsUpdate, OneUpdateAtATime, StatusCoherent,
       PruneFlagHasOwner, Active, UpdatePhase, PrunePhase, Steps, Outcomes

\* Every step of every thread keeps the variables in their types.
LEMMA TypeStep == TypeOK /\ [Next]_vars => TypeOK'
<1> SUFFICES ASSUME TypeOK, [Next]_vars PROVE TypeOK'
  OBVIOUS
<1> USE DEF TypeOK, UpdatePhase, PrunePhase, Steps, Outcomes
<1>1. ASSUME NEW i \in Updates, Refuse(i) PROVE TypeOK'
  BY <1>1 DEF Refuse
<1>2. ASSUME NEW i \in Updates, Accept(i) PROVE TypeOK'
  BY <1>2 DEF Accept, MarkPreparing
<1>3. ASSUME NEW i \in Updates, StartThread(i) \/ StartThreadFails(i) PROVE TypeOK'
  BY <1>3 DEF StartThread, StartThreadFails
<1>4. ASSUME NEW i \in Updates, Begin(i) PROVE TypeOK'
  BY <1>4 DEF Begin
<1>5. ASSUME NEW i \in Updates, RaiseInPreamble(i) PROVE TypeOK'
  BY <1>5 DEF RaiseInPreamble
<1>6. ASSUME NEW i \in Updates, Finish(i) PROVE TypeOK'
  BY <1>6 DEF Finish, PublishOutcome
<1>7. ASSUME NEW i \in Updates, SpawnPrune(i) PROVE TypeOK'
  BY <1>7 DEF SpawnPrune
<1>8. ASSUME NEW i \in Updates, SpawnPruneFails(i) PROVE TypeOK'
  BY <1>8 DEF SpawnPruneFails
<1>9. ASSUME NEW i \in Updates, HandleException(i) PROVE TypeOK'
  BY <1>9 DEF HandleException
<1>10. ASSUME NEW i \in Updates, StartPrune(i) PROVE TypeOK'
  BY <1>10 DEF StartPrune
<1>11. ASSUME NEW i \in Updates, EndPrune(i) PROVE TypeOK'
  BY <1>11 DEF EndPrune
<1>12. ASSUME NEW p \in Polls, AnswerPoll(p) PROVE TypeOK'
  BY <1>12 DEF AnswerPoll
<1>13. CASE UNCHANGED vars
  BY <1>13 DEF vars
<1> QED
  BY <1>1, <1>2, <1>3, <1>4, <1>5, <1>6, <1>7, <1>8, <1>9, <1>10, <1>11,
     <1>12, <1>13 DEF Next, Handler, UpdateThread, PruneThread

\* A step that neither takes nor leaves the slot keeps the slot part.
LEMMA SlotFrame ==
  ASSUME OneUpdateAtATime, StatusCoherent,
         running' = running, step' = step,
         \A i \in Updates : Active(i)' <=> Active(i)
  PROVE  OneUpdateAtATime' /\ StatusCoherent'
BY DEF OneUpdateAtATime, StatusCoherent

\* Taking, using and freeing the slot: no second owner, and a public step
\* that matches the flag.
LEMMA SlotStep ==
  ASSUME TypeOK, OneUpdateAtATime, StatusCoherent, [Next]_vars
  PROVE  OneUpdateAtATime' /\ StatusCoherent'
<1> USE DEF TypeOK, UpdatePhase, Active
<1>1. ASSUME NEW i \in Updates, Refuse(i)
      PROVE  OneUpdateAtATime' /\ StatusCoherent'
  BY <1>1, SlotFrame DEF Refuse
<1>2. ASSUME NEW i \in Updates, Accept(i)
      PROVE  OneUpdateAtATime' /\ StatusCoherent'
  <2>1. ~running /\ running' = TRUE /\ step' = "starting"
    BY <1>2 DEF Accept, InProgress, MarkPreparing
  <2>2. \A j \in Updates : ~Active(j)
    BY <2>1 DEF OneUpdateAtATime
  <2>3. Active(i)' /\ \A j \in Updates \ {i} : ~Active(j)'
    BY <1>2, <2>2 DEF Accept
  <2> QED
    BY <2>1, <2>3 DEF OneUpdateAtATime, StatusCoherent
<1>3. ASSUME NEW i \in Updates, StartThread(i) \/ StartThreadFails(i)
      PROVE  OneUpdateAtATime' /\ StatusCoherent'
  BY <1>3, SlotFrame DEF StartThread, StartThreadFails
<1>4. ASSUME NEW i \in Updates, Begin(i)
      PROVE  OneUpdateAtATime' /\ StatusCoherent'
  <2>1. /\ Active(i) /\ Active(i)'
        /\ \A j \in Updates : Active(j)' <=> Active(j)
        /\ running' = TRUE /\ step' = "working"
    BY <1>4 DEF Begin
  <2> QED
    BY <2>1 DEF OneUpdateAtATime, StatusCoherent
<1>5. ASSUME NEW i \in Updates, RaiseInPreamble(i)
      PROVE  OneUpdateAtATime' /\ StatusCoherent'
  BY <1>5, SlotFrame DEF RaiseInPreamble
<1>6. ASSUME NEW i \in Updates, Finish(i)
      PROVE  OneUpdateAtATime' /\ StatusCoherent'
  <2>1. Active(i) /\ running' = FALSE /\ step' \in Outcomes
    BY <1>6 DEF Finish, PublishOutcome
  <2>2. \A j \in Updates \ {i} : ~Active(j)
    BY <2>1 DEF OneUpdateAtATime
  <2>3. \A j \in Updates : ~Active(j)'
    BY <1>6, <2>2 DEF Finish
  <2> QED
    BY <2>1, <2>3 DEF OneUpdateAtATime, StatusCoherent
<1>7. ASSUME NEW i \in Updates, SpawnPrune(i)
      PROVE  OneUpdateAtATime' /\ StatusCoherent'
  BY <1>7, SlotFrame DEF SpawnPrune
<1>8. ASSUME NEW i \in Updates, SpawnPruneFails(i)
      PROVE  OneUpdateAtATime' /\ StatusCoherent'
  BY <1>8, SlotFrame DEF SpawnPruneFails
<1>9. ASSUME NEW i \in Updates, HandleException(i)
      PROVE  OneUpdateAtATime' /\ StatusCoherent'
  <2>1. CASE running
    BY <1>9, <2>1, SlotFrame DEF HandleException
  <2>2. CASE ~running
    <3>1. upd[i] = "unspawned" /\ upd' = [upd EXCEPT ![i] = "over"]
      BY <1>9, <2>2 DEF HandleException, OneUpdateAtATime
    <3> QED
      BY <1>9, <3>1, SlotFrame DEF HandleException
  <2> QED
    BY <2>1, <2>2
<1>10. ASSUME NEW i \in Updates, PruneThread(i)
       PROVE  OneUpdateAtATime' /\ StatusCoherent'
  BY <1>10, SlotFrame DEF PruneThread, StartPrune, EndPrune
<1>11. ASSUME NEW p \in Polls, AnswerPoll(p)
       PROVE  OneUpdateAtATime' /\ StatusCoherent'
  BY <1>11, SlotFrame DEF AnswerPoll
<1>12. CASE UNCHANGED vars
  BY <1>12, SlotFrame DEF vars
<1> QED
  BY <1>1, <1>2, <1>3, <1>4, <1>5, <1>6, <1>7, <1>8, <1>9, <1>10, <1>11,
     <1>12 DEF Next, Handler, UpdateThread

\* No step of an update reaches a thread that has already started its prune.
LEMMA PruneFollowsStep ==
  ASSUME TypeOK, PruneFollowsUpdate, [Next]_vars
  PROVE  PruneFollowsUpdate'
BY DEF TypeOK, UpdatePhase, PrunePhase, PruneFollowsUpdate, Next, vars,
       Handler, UpdateThread, PruneThread, Refuse, Accept, StartThread,
       StartThreadFails, Begin,
       RaiseInPreamble, Finish, SpawnPrune, SpawnPruneFails, HandleException,
       StartPrune, EndPrune, AnswerPoll

\* The thread that raised the flag last is still there to lower it.
LEMMA PruneStep ==
  ASSUME TypeOK, PruneFollowsUpdate, PruneFlagHasOwner, [Next]_vars
  PROVE  PruneFlagHasOwner'
<1> USE DEF TypeOK, PrunePhase, PruneFlagHasOwner
<1>1. CASE UNCHANGED <<pruning, prune>>
  BY <1>1
<1>2. ASSUME NEW i \in Updates, SpawnPrune(i) PROVE PruneFlagHasOwner'
  <2>1. prune[i] = "none"
    BY <1>2 DEF SpawnPrune, PruneFollowsUpdate
  <2> QED
    BY <1>2, <2>1 DEF SpawnPrune
<1>3. ASSUME NEW i \in Updates, StartPrune(i) PROVE PruneFlagHasOwner'
  BY <1>3 DEF StartPrune
<1>4. ASSUME NEW i \in Updates, EndPrune(i) PROVE PruneFlagHasOwner'
  BY <1>4 DEF EndPrune
<1> QED
  BY <1>1, <1>2, <1>3, <1>4
     DEF Next, vars, Handler, UpdateThread, PruneThread, Refuse, Accept,
         StartThread, StartThreadFails, Begin, RaiseInPreamble, Finish, SpawnPruneFails,
         HandleException, AnswerPoll

\* SlotInv is inductive.
LEMMA SlotInvStep == SlotInv /\ [Next]_vars => SlotInv'
BY TypeStep, SlotStep, PruneFollowsStep, PruneStep DEF SlotInv

\* Type correctness of the edge agent's update state.
THEOREM TypeCorrect == Spec => []TypeOK
<1>1. SlotInv => TypeOK
  BY DEF SlotInv
<1> QED
  BY <1>1, InitSlotInv, SlotInvStep, PTL DEF Spec

\* start_update_pipeline lets one update through at a time, for any number of
\* commands, whatever is raised.
THEOREM OneUpdate == Spec => []OneUpdateAtATime
<1>1. SlotInv => OneUpdateAtATime
  BY DEF SlotInv
<1> QED
  BY <1>1, InitSlotInv, SlotInvStep, PTL DEF Spec

\* update_status never shows an outcome while an update runs, nor work in
\* progress once it is over.
THEOREM Coherent == Spec => []StatusCoherent
<1>1. SlotInv => StatusCoherent
  BY DEF SlotInv
<1> QED
  BY <1>1, InitSlotInv, SlotInvStep, PTL DEF Spec

\* The prune flag is never left raised with nobody to lower it, also when the
\* prunes of several updates overlap.
THEOREM PruneFlagOwned == Spec => []PruneFlagHasOwner
<1>1. SlotInv => PruneFlagHasOwner
  BY DEF SlotInv
<1> QED
  BY <1>1, InitSlotInv, SlotInvStep, PTL DEF Spec

-----------------------------------------------------------------------------
\* An outcome is only overwritten by the acceptance of another update.
THEOREM OutcomeKept == Spec => OutcomeStays
<1>1. SlotInv /\ [Next]_vars
        => [(step \in Outcomes /\ step' # step)
             => (step' = "starting" /\ ~running /\ ~pruning)]_vars
  <2> SUFFICES ASSUME SlotInv, [Next]_vars, step \in Outcomes, step' # step
               PROVE  step' = "starting" /\ ~running /\ ~pruning
    OBVIOUS
  <2>1. ~running /\ \A i \in Updates : ~Active(i)
    BY DEF SlotInv, TypeOK, StatusCoherent, OneUpdateAtATime, Outcomes
  <2>2. \A i \in Updates : ~Begin(i) /\ ~Finish(i)
    BY <2>1 DEF Begin, Finish, Active
  <2>3. ASSUME NEW i \in Updates, Accept(i)
        PROVE  step' = "starting" /\ ~pruning
    BY <2>3 DEF Accept, InProgress, MarkPreparing
  <2> QED
    BY <2>1, <2>2, <2>3
       DEF Next, vars, Handler, UpdateThread, PruneThread, Refuse,
           StartThread, StartThreadFails, RaiseInPreamble, SpawnPrune, SpawnPruneFails,
           HandleException, StartPrune, EndPrune, AnswerPoll
<1> QED
  BY <1>1, InitSlotInv, SlotInvStep, PTL DEF Spec, OutcomeStays

-----------------------------------------------------------------------------
(***************************************************************************)
(* The agent implements UpdateSlot: Accept is Take, Begin is Work, Finish  *)
(* is Release and every other step leaves the abstract state alone.        *)
(***************************************************************************)
Holders == {i \in Updates : Active(i)}
Served == {i \in Updates : upd[i] \notin {"sent", "busy"}}

\* A step that changes no update's place in the slot maps to a stutter.
LEMMA SlotStutter ==
  ASSUME step' = step,
         \A i \in Updates : Active(i)' <=> Active(i),
         \A i \in Updates :
            upd'[i] \in {"sent", "busy"} <=> upd[i] \in {"sent", "busy"}
  PROVE  UNCHANGED Slot!vars
<1>1. Holders' = Holders /\ Served' = Served
  BY DEF Holders, Served
<1> QED
  BY <1>1 DEF Slot!vars, Holders, Served

\* Initial states map to initial states.
LEMMA SlotInit == Init => Slot!Init
BY DEF Init, Slot!Init, Active

\* Every step maps to a step of the slot or to a stutter.
LEMMA SlotSimulation == SlotInv /\ [Next]_vars => [Slot!Next]_(Slot!vars)
<1> SUFFICES ASSUME SlotInv, [Next]_vars PROVE [Slot!Next]_(Slot!vars)
  OBVIOUS
<1> USE DEF SlotInv, TypeOK, UpdatePhase, Active
<1>1. ASSUME NEW i \in Updates, Accept(i) PROVE Slot!Take(i)
  <2>1. Holders = {}
    BY <1>1 DEF Accept, InProgress, OneUpdateAtATime, Holders
  <2>2. Holders' = {i} /\ i \notin Served /\ Served' = Served \cup {i}
    BY <1>1, <2>1 DEF Accept, Holders, Served
  <2> QED
    BY <1>1, <2>1, <2>2 DEF Slot!Take, Accept, MarkPreparing, Holders, Served
<1>2. ASSUME NEW i \in Updates, Begin(i) PROVE Slot!Work(i)
  <2>1. Holders = {i}
    BY <1>2 DEF Begin, OneUpdateAtATime, Holders
  <2>2. Holders' = Holders /\ Served' = Served
    BY <1>2 DEF Begin, Holders, Served
  <2> QED
    BY <1>2, <2>1, <2>2 DEF Slot!Work, Begin, Holders, Served
<1>3. ASSUME NEW i \in Updates, Finish(i) PROVE Slot!Release(i)
  <2>1. Holders = {i}
    BY <1>3 DEF Finish, OneUpdateAtATime, Holders
  <2>2. Holders' = {} /\ Served' = Served
    BY <1>3, <2>1 DEF Finish, Holders, Served
  <2> QED
    BY <1>3, <2>1, <2>2
       DEF Slot!Release, Slot!Outcomes, Outcomes, Finish, PublishOutcome,
           Holders, Served
<1>4. ASSUME NEW i \in Updates,
             \/ Refuse(i) \/ StartThread(i) \/ StartThreadFails(i) \/ RaiseInPreamble(i)
             \/ SpawnPrune(i) \/ SpawnPruneFails(i) \/ PruneThread(i)
      PROVE  UNCHANGED Slot!vars
  BY <1>4, SlotStutter
     DEF Refuse, StartThread, StartThreadFails, RaiseInPreamble, SpawnPrune, SpawnPruneFails,
         PruneThread, StartPrune, EndPrune
<1>5. ASSUME NEW i \in Updates, HandleException(i)
      PROVE  UNCHANGED Slot!vars
  <2>1. CASE running
    BY <1>5, <2>1, SlotStutter DEF HandleException
  <2>2. CASE ~running
    <3>1. upd[i] = "unspawned" /\ upd' = [upd EXCEPT ![i] = "over"]
      BY <1>5, <2>2 DEF HandleException, OneUpdateAtATime
    <3> QED
      BY <1>5, <3>1, SlotStutter DEF HandleException
  <2> QED
    BY <2>1, <2>2
<1>6. ASSUME NEW p \in Polls, AnswerPoll(p) PROVE UNCHANGED Slot!vars
  BY <1>6, SlotStutter DEF AnswerPoll
<1>7. CASE UNCHANGED vars
  BY <1>7, SlotStutter DEF vars
<1> QED
  BY <1>1, <1>2, <1>3, <1>4, <1>5, <1>6, <1>7
     DEF Next, Handler, UpdateThread, Slot!Next

\* The threads, the lock and the prune of the agent implement the slot.
THEOREM Implementation == Spec => ImplementsSlot
<1> QED
  BY InitSlotInv, SlotInvStep, SlotInit, SlotSimulation, PTL
     DEF Spec, ImplementsSlot, Slot!Spec

-----------------------------------------------------------------------------
(***************************************************************************)
(* RenameUnits.                                                            *)
(***************************************************************************)

\* The units, the links and the lines between runs and during them.
UnitsType ==
    /\ units \subseteq Names /\ IsFiniteSet(units)
    /\ active \subseteq Names /\ enabled \subseteq Names /\ containers \subseteq Ids
    /\ file \in Seq(Lines) /\ todo \subseteq Names

\* A unit with a new name never runs without its file, and every watchdog keeps
\* its container: stopping that is what ends one without a file.
GhostsInv ==
    /\ \A d \in Ids : ServiceNameFor[d] \in active => ServiceNameFor[d] \in units
    /\ \A n \in active : Serves[n] \in containers

HostInv == UnitsType /\ GhostsInv /\ Fits(file, units)

Entries == Range(run.pending)

\* The entries of a run: one for each server, and the unit file of it is under
\* one of its two names, under the new one once it was moved.
EntryOk(p) ==
    /\ p \in Pendings
    /\ p.new = ServiceNameFor[Serves[p.new]] /\ Serves[p.old] = Serves[p.new]
    /\ p.recoverOnly <=> p.old = p.new
    /\ p.old = p.new => p.alreadyRenamed
    /\ p.alreadyRenamed => p.new \in units
    /\ p.old # p.new => (p.old \in units <=> p.new \notin units)
EntriesInv ==
    /\ run = [flags |-> run.flags, pending |-> run.pending, disables |-> run.disables,
              legacy |-> run.legacy, moves |-> run.moves, lines |-> run.lines]
    /\ run.disables \subseteq Names /\ run.legacy \subseteq Names
    /\ \A p \in Entries : EntryOk(p)
    /\ \A p, q \in Entries : Serves[p.new] = Serves[q.new] => p = q
    /\ run.moves \subseteq {i \in DOMAIN run.pending : ~run.pending[i].alreadyRenamed}
    /\ \A i \in DOMAIN run.pending \ run.moves : run.pending[i].new \in units
    /\ run.legacy \cap {p.new : p \in Entries} = {}

Moved == {"enable", "start", "read", "truncate", "write", "done"}
Started == {"read", "truncate", "write", "done"}

\* What the stages have done, and what is left to do of the current one.
StagesInv ==
    /\ pc \in Range(Stages) \cup {"idle", "done"}
    /\ pc = "idle" => run = NoRun
    /\ pc \in Moved => run.moves = {}
    /\ pc = "stop" => todo \subseteq {p.old : p \in Renamed(run.pending)}
    /\ pc = "legacyStop" => todo \subseteq run.legacy
    /\ pc \in {"docker", "enable", "start"} => todo \subseteq {p.new : p \in Entries}
    /\ pc \in {"truncate", "write"} =>
         run.lines \in Seq(Lines) /\ Fits(run.lines, units)

\* The old name of a service is stopped, disabled and given up.
OldInv == \A p \in Renamed(run.pending) :
    /\ p.old \in active =>
         \/ pc = "stop" /\ p.old \in todo
         \/ <<"stop", p.old>> \in failed
    /\ p.old \in enabled =>
         \/ <<"disable", p.old>> \in failed
         \/ /\ ~p.alreadyRenamed /\ p.old \in run.disables
            /\ \/ pc = "stop"
               \/ pc = "disable" /\ p.old \in todo
         \/ /\ p.alreadyRenamed /\ p.old \in run.legacy
            /\ \/ pc \in {"stop", "disable", "docker", "legacyStop"}
               \/ pc = "legacy" /\ p.old \in todo

\* What a run has to start: what ran under a name of the line, or is up to date.
Wanted(p) == p.recoverOnly \/ {p.old, p.new} \cap ran # {}

\* The new name is enabled and started.
NewInv == \A p \in Entries :
    /\ pc = "enable" => p.new \in enabled \cup todo \/ <<"enable", p.new>> \in failed
    /\ pc \in Started \cup {"start"} => p.new \in enabled \/ <<"enable", p.new>> \in failed
    /\ Wanted(p) => p.wasRunning
    /\ Wanted(p) /\ pc \in Started \cup {"start"} =>
         \/ p.new \in active \/ run.flags.noStart \/ <<"start", p.new>> \in failed
         \/ pc = "start" /\ p.new \in todo

\* Why a run may leave another unit m of the server of an entry running: a command
\* failed, or it is one under a third name that the run does not look for.
Excused(p, m) ==
    \/ <<"stop", m>> \in failed \/ <<"docker", p.new>> \in failed
    \/ ~Looks(run.pending, run.flags.recover) /\ m \in units /\ m # p.old

\* Another unit that runs the server of an entry is stopped before the entry is
\* started: by docker if its file is gone, unless the new unit runs already, and
\* by systemctl under the old name or as a legacy unit.
RivalsInv == \A p \in Entries, m \in active :
    m # p.new /\ Serves[m] = Serves[p.new] /\ ~Excused(p, m) =>
        /\ m \notin units =>
             \/ p.new \in active \/ pc \in {"stop", "disable"}
             \/ pc = "docker" /\ p.new \in todo
        /\ m \in units =>
             \/ pc = "stop" /\ m \in todo
             \/ /\ m \in run.legacy
                /\ \/ pc \in {"stop", "disable", "docker"}
                   \/ pc = "legacyStop" /\ m \in todo

RenameInv ==
    HostInv /\ EntriesInv /\ StagesInv /\ OldInv /\ NewInv /\ RivalsInv

-----------------------------------------------------------------------------
LEMMA StageNames ==
  Range(Stages) = {"stop", "disable", "docker", "legacyStop", "legacy", "move",
                   "enable", "start", "read", "truncate", "write"}
<1>1. DOMAIN Stages = 1 .. 11
  BY DEF Stages
<1>2. 1 .. 11 = {1, 2, 3, 4, 5, 6, 7, 8, 9, 10, 11}
  OBVIOUS
<1> QED
  BY <1>1, <1>2 DEF Range, Stages

\* The order of the stages.
LEMMA StageOrder ==
  /\ After("stop") = "disable" /\ After("disable") = "docker"
  /\ After("docker") = "legacyStop" /\ After("legacyStop") = "legacy"
  /\ After("legacy") = "move" /\ After("move") = "enable"
  /\ After("enable") = "start" /\ After("start") \in {"read", "done"}
  /\ After("read") = "truncate" /\ After("truncate") = "write" /\ After("write") = "done"
<1>1. DOMAIN Stages = {1, 2, 3, 4, 5, 6, 7, 8, 9, 10, 11} /\ Len(Stages) = 11
  BY DEF Stages
<1>2. /\ Stages[1] = "stop" /\ Stages[2] = "disable" /\ Stages[3] = "docker"
      /\ Stages[4] = "legacyStop" /\ Stages[5] = "legacy" /\ Stages[6] = "move"
      /\ Stages[7] = "enable" /\ Stages[8] = "start" /\ Stages[9] = "read"
      /\ Stages[10] = "truncate" /\ Stages[11] = "write"
  BY DEF Stages
<1>3. \A j, k \in DOMAIN Stages : Stages[j] = Stages[k] => j = k
  BY <1>1, <1>2
<1>4. \A k \in DOMAIN Stages : (CHOOSE j \in DOMAIN Stages : Stages[j] = Stages[k]) = k
  BY <1>3, Zenon
<1>5. \A k \in DOMAIN Stages :
        After(Stages[k]) = IF k = 11 \/ (run.flags.noUpdate /\ Stages[k + 1] = "read")
                           THEN "done" ELSE Stages[k + 1]
  <2> TAKE k \in DOMAIN Stages
  <2> DEFINE i == CHOOSE j \in DOMAIN Stages : Stages[j] = Stages[k]
             next(j) == IF j = Len(Stages) \/ (run.flags.noUpdate /\ Stages[j + 1] = "read")
                        THEN "done" ELSE Stages[j + 1]
  <2>1. After(Stages[k]) = next(i)
    BY Zenon DEF After
  <2>2. i = k
    BY <1>4, Zenon
  <2>3. next(i) = next(k)
    BY <2>2, Zenon
  <2> QED
    BY <1>1, <2>1, <2>3, Zenon
<1>6. /\ After(Stages[1]) = "disable" /\ After(Stages[2]) = "docker"
      /\ After(Stages[3]) = "legacyStop" /\ After(Stages[4]) = "legacy"
      /\ After(Stages[5]) = "move" /\ After(Stages[6]) = "enable"
  BY <1>1, <1>2, <1>5
<1>7. /\ After(Stages[7]) = "start" /\ After(Stages[8]) \in {"read", "done"}
      /\ After(Stages[9]) = "truncate" /\ After(Stages[10]) = "write"
      /\ After(Stages[11]) = "done"
  BY <1>1, <1>2, <1>5
<1> QED
  BY <1>2, <1>6, <1>7

\* One entry for each server, made from its line.
LEMMA EntryOfLine ==
  ASSUME HostInv, NEW l \in Range(file), NEW recover \in BOOLEAN, Taken(l, recover)
  PROVE  /\ EntryOk(Entry(l)) /\ Entry(l).old = l.name
         /\ Entry(l).new = ServiceNameFor[l.id] /\ Serves[Entry(l).new] = l.id
         /\ Entry(l).alreadyRenamed <=> (UpToDate(l) \/ l.name \notin units)
         /\ Entry(l).wasRunning <=>
              (UpToDate(l) \/ l.name \in active \/ ServiceNameFor[l.id] \in active)
<1>1. l \in Lines
  BY DEF HostInv, UnitsType, Range
<1>2. /\ ServiceNameFor[l.id] \in Names /\ Serves[ServiceNameFor[l.id]] = l.id
      /\ Serves[l.name] = l.id
  BY <1>1, RenameAssumption DEF Lines, HostInv, Fits
<1>3. Entry(l) \in Pendings
  BY <1>1, <1>2 DEF Entry, Pendings, Lines, UpToDate
<1>4. /\ Entry(l).old = l.name /\ Entry(l).new = ServiceNameFor[l.id]
      /\ Entry(l).alreadyRenamed =
           (l.name = ServiceNameFor[l.id] \/ l.name \notin units)
      /\ Entry(l).recoverOnly = UpToDate(l)
      /\ Entry(l).wasRunning =
           (UpToDate(l) \/ l.name \in active \/ ServiceNameFor[l.id] \in active)
  BY DEF Entry
<1>5. UpToDate(l) <=> l.name = ServiceNameFor[l.id]
  BY DEF UpToDate
<1>6. EntryOk(Entry(l))
  <2>1. CASE UpToDate(l)
    BY <2>1, <1>2, <1>3, <1>4, <1>5 DEF EntryOk, Taken
  <2>2. CASE ~UpToDate(l)
    <3>1. l.name \in units <=> ServiceNameFor[l.id] \notin units
      BY <2>2, Zenon DEF Taken
    <3> QED
      BY <2>2, <3>1, <1>2, <1>3, <1>4, <1>5 DEF EntryOk
  <2> QED
    BY <2>1, <2>2
<1> QED
  BY <1>2, <1>4, <1>5, <1>6

\* No old name is a new one.
LEMMA OldIsNotNew ==
  ASSUME EntriesInv, NEW p \in Entries, NEW q \in Entries, p.old # p.new
  PROVE  p.old # q.new
BY DEF EntriesInv, EntryOk

\* Without a run there is nothing to say but of the host.
LEMMA IdleInv ==
  ASSUME HostInv', run' = NoRun, pc' = "idle"
  PROVE  RenameInv'
<1>1. Range(run'.pending) = {}
  BY DEF NoRun, Range
<1>2. /\ DOMAIN run'.pending = {} /\ run'.moves = {}
      /\ run'.legacy = {} /\ run'.disables = {}
  BY DEF NoRun
<1>3. EntriesInv'
  BY <1>1, <1>2 DEF EntriesInv, Entries, NoRun
<1>4. StagesInv' /\ OldInv' /\ NewInv' /\ RivalsInv'
  BY <1>1 DEF StagesInv, OldInv, NewInv, RivalsInv, Entries, Renamed, Moved, Started
<1> QED
  BY <1>3, <1>4 DEF RenameInv

LEMMA InitRename == RenameInit => RenameInv
<1> SUFFICES ASSUME RenameInit PROVE RenameInv
  OBVIOUS
<1>1. PICK h \in Hosts : /\ units = h.units /\ active = h.active
                         /\ enabled = h.enabled /\ file = h.file
  BY DEF RenameInit
<1>2. IsHost(h)
  BY RenameAssumption
<1>3. UnitsType
  BY <1>1, <1>2, RenameAssumption DEF UnitsType, IsHost, RenameInit, Serving
<1>4. GhostsInv /\ Fits(file, units)
  BY <1>1, <1>2 DEF GhostsInv, IsHost, RenameInit, Serving
<1>5. run = NoRun /\ pc = "idle"
  BY DEF RenameInit
<1>6. Entries = {} /\ Renamed(run.pending) = {}
  BY <1>5 DEF NoRun, Range, Entries, Renamed
<1>7. EntriesInv
  BY <1>5, <1>6 DEF EntriesInv, NoRun
<1>8. StagesInv /\ OldInv /\ NewInv /\ RivalsInv
  BY <1>5, <1>6 DEF StagesInv, OldInv, NewInv, RivalsInv, Moved, Started
<1> QED
  BY <1>3, <1>4, <1>7, <1>8 DEF RenameInv, HostInv

\* Stopping a watchdog or ending a container.
LEMMA EndEffect ==
  ASSUME HostInv, NEW d, NEW watchdogs \in SUBSET active,
         EndContainer(d, watchdogs), UNCHANGED <<units, enabled, file>>,
         todo' \subseteq todo
  PROVE  /\ HostInv' /\ active' \subseteq watchdogs
         /\ \A m \in active' : m \notin units => Serves[m] # d
         /\ \A m \in watchdogs \cap units : m \in active'
<1>1. /\ active' = {n \in watchdogs : n \in units \/ Serves[n] # d}
      /\ containers' = IF d \in Serving(active') THEN containers ELSE containers \ {d}
  BY DEF EndContainer
<1>2. UnitsType' /\ GhostsInv'
  BY <1>1 DEF HostInv, UnitsType, GhostsInv, Serving
<1>3. Fits(file, units)'
  BY <1>1 DEF HostInv, Fits
<1> QED
  BY <1>1, <1>2, <1>3 DEF HostInv

LEMMA StopEffect ==
  ASSUME HostInv, NEW n, StopWatchdog(n), UNCHANGED <<units, enabled, file>>,
         todo' \subseteq todo
  PROVE  /\ HostInv' /\ active' \subseteq active \ {n}
         /\ \A m \in active \cap units : m # n => m \in active'
<1>1. CASE active' = active \ {n} /\ UNCHANGED containers
  <2>1. UnitsType' /\ GhostsInv'
    BY <1>1 DEF HostInv, UnitsType, GhostsInv
  <2>2. Fits(file, units)'
    BY <1>1 DEF HostInv, Fits
  <2> QED
    BY <1>1, <2>1, <2>2 DEF HostInv
<1>2. CASE EndContainer(Serves[n], active \ {n})
  <2>1. active \ {n} \in SUBSET active
    OBVIOUS
  <2>2. /\ HostInv' /\ active' \subseteq active \ {n}
        /\ \A m \in (active \ {n}) \cap units : m \in active'
    BY <1>2, <2>1, EndEffect
  <2> QED
    BY <2>2
<1>3. (active' = active \ {n} /\ UNCHANGED containers) \/ EndContainer(Serves[n], active \ {n})
  BY Zenon DEF StopWatchdog
<1> QED
  BY <1>1, <1>2, <1>3

-----------------------------------------------------------------------------
LEMMA BeginInv ==
  ASSUME RenameInv, NEW flags \in Flags, BeginRun(flags)
  PROVE  RenameInv'
<1> DEFINE pending == CollectPending(flags.recover)
           legacy == Legacy(pending, flags.recover)
<1>0. flags.recover \in BOOLEAN
  BY DEF Flags
<1>1. /\ run' = [flags |-> flags, pending |-> pending,
                 disables |-> {p.old : p \in {q \in Renamed(pending) : ~q.alreadyRenamed}},
                 legacy |-> legacy,
                 moves |-> {i \in DOMAIN pending : ~pending[i].alreadyRenamed},
                 lines |-> <<>>]
      /\ todo' = {p.old : p \in Renamed(pending)} \cap active
      /\ pc' = "stop" /\ ran' = active /\ failed' = {}
      /\ UNCHANGED <<units, active, enabled, containers, file>>
  BY DEF BeginRun, systemd
<1>2. /\ run'.pending = pending /\ run'.legacy = legacy /\ run'.flags = flags
      /\ run'.disables = {p.old : p \in {q \in Renamed(pending) : ~q.alreadyRenamed}}
      /\ run'.moves = {i \in DOMAIN pending : ~pending[i].alreadyRenamed}
  BY <1>1
<1>3. \A p \in Range(pending) : \E l \in Range(file) :
        Taken(l, flags.recover) /\ p = Entry(l)
  BY DEF CollectPending, Range
<1> HIDE DEF pending
<1>4. \A p \in Range(pending) : \E l \in Range(file) :
        /\ EntryOk(p) /\ p.old = l.name /\ Taken(l, flags.recover) /\ p = Entry(l)
        /\ p.new = ServiceNameFor[l.id] /\ Serves[p.new] = l.id
        /\ p.alreadyRenamed <=> (UpToDate(l) \/ l.name \notin units)
        /\ p.wasRunning <=>
             (UpToDate(l) \/ l.name \in active \/ ServiceNameFor[l.id] \in active)
  <2> TAKE p \in Range(pending)
  <2>1. PICK l \in Range(file) : Taken(l, flags.recover) /\ p = Entry(l)
    BY <1>3
  <2> QED
    BY <1>0, <2>1, EntryOfLine DEF RenameInv
<1>5. \A p, q \in Range(pending) : Serves[p.new] = Serves[q.new] => p = q
  BY <1>4 DEF RenameInv, HostInv, Fits
<1>6. \A p, q \in Range(pending) : p.old # p.new => p.old # q.new
  BY <1>4, <1>5 DEF EntryOk
<1>7. legacy \cap {p.new : p \in Range(pending)} = {}
  BY DEF Legacy, DiscoverLegacy
<1>8. HostInv'
  <2>1. UnitsType'
    BY <1>1, <1>4 DEF RenameInv, HostInv, UnitsType, Renamed
  <2> QED
    BY <2>1, <1>1 DEF RenameInv, HostInv, GhostsInv, Fits
<1>9. Entries' = Range(pending)
  BY <1>2 DEF Entries
<1>10. legacy \subseteq Names
  <2>1. \A p \in Range(pending) : p.old \in Names /\ Orphans(p) \subseteq Names
    BY <1>4 DEF RenameInv, HostInv, UnitsType, Orphans, EntryOk, Pendings
  <2>2. /\ (UNION {Orphans(p) : p \in Range(pending)}) \subseteq Names
        /\ {p.old : p \in Renamed(pending)} \subseteq Names
        /\ {p.old : p \in {q \in Renamed(pending) : q.alreadyRenamed}} \subseteq Names
    BY <2>1 DEF Renamed
  <2>3. DiscoverLegacy(pending) \subseteq Names
    BY <2>2, Zenon DEF DiscoverLegacy
  <2> QED
    BY <2>3 DEF Legacy
<1> HIDE DEF legacy
<1>11. EntriesInv'
  <2>1. /\ run' = [flags |-> run'.flags, pending |-> run'.pending,
                   disables |-> run'.disables, legacy |-> run'.legacy,
                   moves |-> run'.moves, lines |-> run'.lines]
    BY <1>1
  <2>2. run'.disables \subseteq Names /\ run'.legacy \subseteq Names
    BY <1>2, <1>4, <1>10 DEF Renamed, EntryOk, Pendings
  <2>3. \A p \in Range(pending) : EntryOk(p)'
    BY <1>1, <1>4 DEF EntryOk
  <2>4. /\ run'.moves \subseteq {i \in DOMAIN run'.pending : ~run'.pending[i].alreadyRenamed}
        /\ \A i \in DOMAIN run'.pending \ run'.moves : run'.pending[i].new \in units'
    <3>1. \A i \in DOMAIN pending : pending[i] \in Range(pending)
      BY DEF Range
    <3> QED
      BY <1>1, <1>2, <1>4, <3>1 DEF EntryOk
  <2> QED
    BY <2>1, <2>2, <2>3, <2>4, <1>2, <1>5, <1>7, <1>9 DEF EntriesInv
<1>12. StagesInv'
  <2>1. pc' \in Range(Stages)
    BY <1>1, StageNames
  <2> QED
    BY <2>1, <1>1, <1>2 DEF StagesInv, Moved
<1>13. OldInv'
  <2> SUFFICES ASSUME NEW p \in Renamed(pending)
               PROVE  /\ p.old \in active => p.old \in todo'
                      /\ p.old \in enabled /\ ~p.alreadyRenamed => p.old \in run'.disables
                      /\ p.old \in enabled /\ p.alreadyRenamed => p.old \in run'.legacy
    BY <1>1, <1>2 DEF OldInv
  <2>1. p \in Range(pending) /\ p.old # p.new
    BY DEF Renamed
  <2>2. ASSUME p.alreadyRenamed PROVE p.old \in legacy
    <3>1. p.old \in {r.old : r \in {q \in Renamed(pending) : q.alreadyRenamed}}
      BY <2>2
    <3>2. p.old \notin {r.new : r \in Range(pending)}
      BY <2>1, <1>6
    <3>3. p.old \in DiscoverLegacy(pending)
      BY <3>1, <3>2, Zenon DEF DiscoverLegacy
    <3>4. legacy = DiscoverLegacy(pending)
      BY <2>1, <2>2, Zenon DEF legacy, Legacy, Looks
    <3> QED
      BY <3>3, <3>4
  <2> QED
    BY <1>1, <1>2, <2>2
<1>14. NewInv'
  <2>1. \A p \in Range(pending) : Wanted(p)' => p.wasRunning
    BY <1>1, <1>4 DEF Wanted, EntryOk, UpToDate
  <2> QED
    BY <1>1, <1>9, <2>1 DEF NewInv, Started
<1>15. RivalsInv'
  <2> SUFFICES ASSUME NEW p \in Range(pending), NEW m \in active, m # p.new,
                      Serves[m] = Serves[p.new], m \in units, ~Excused(p, m)'
               PROVE  m \in todo' \/ m \in legacy
    BY <1>1, <1>2, <1>9 DEF RivalsInv
  <2>1. CASE Looks(pending, flags.recover)
    <3>1. m \in Orphans(p)
      BY DEF Orphans
    <3>2. \A q \in Range(pending) : m # q.new
      BY <1>5
    <3> QED
      BY <2>1, <3>1, <3>2 DEF legacy, Legacy, DiscoverLegacy
  <2>2. CASE ~Looks(pending, flags.recover)
    <3>1. /\ p.old # p.new /\ p.old \in units
      BY <2>2, <1>4 DEF Looks, EntryOk, UpToDate
    <3>2. m = p.old
      BY <2>2, <1>1, <1>2 DEF Excused
    <3> QED
      BY <1>1, <3>1, <3>2 DEF Renamed
  <2> QED
    BY <2>1, <2>2
<1> QED
  BY <1>8, <1>11, <1>12, <1>13, <1>14, <1>15 DEF RenameInv

-----------------------------------------------------------------------------
\* A unit with a new name has its file, so no container that ends ends it.
LEMMA NewStays ==
  ASSUME HostInv, EntriesInv, NEW p \in Entries, p.new \in active
  PROVE  p.new \in units
BY RenameAssumption DEF HostInv, GhostsInv, EntriesInv, EntryOk, Pendings

\* A command that fails leaves the host as it is, and is remembered.
LEMMA FailInv ==
  ASSUME RenameInv, NEW n, NEW stage, NEW command, Treat(stage, n), Fail(command, n),
         \/ stage \in {"stop", "legacyStop"} /\ command = "stop"
         \/ stage \in {"disable", "legacy"} /\ command = "disable"
         \/ stage \in {"docker", "enable", "start"} /\ command = stage
  PROVE  RenameInv'
<1>1. /\ pc = stage /\ pc' = pc /\ n \in todo /\ todo' = todo \ {n}
      /\ run' = run /\ ran' = ran /\ units' = units /\ file' = file
      /\ active' = active /\ enabled' = enabled /\ containers' = containers
      /\ failed' = failed \cup {<<command, n>>}
  BY DEF Treat, Fail
<1>2. HostInv'
  BY <1>1 DEF RenameInv, HostInv, UnitsType, GhostsInv, Fits
<1>3. EntriesInv' /\ Entries' = Entries
  BY <1>1 DEF RenameInv, EntriesInv, EntryOk, Entries
<1>4. StagesInv'
  BY <1>1, <1>3 DEF RenameInv, StagesInv, Moved
<1>5. OldInv'
  BY <1>1 DEF RenameInv, OldInv
<1>6. NewInv'
  BY <1>1, <1>3 DEF RenameInv, NewInv, Started, Wanted
<1>7. RivalsInv'
  <2> SUFFICES ASSUME NEW p \in Entries, NEW m \in active,
                      m # p.new, Serves[m] = Serves[p.new], ~Excused(p, m)'
               PROVE  /\ m \notin units =>
                           \/ p.new \in active \/ pc \in {"stop", "disable"}
                           \/ pc = "docker" /\ p.new \in todo'
                      /\ m \in units =>
                           \/ pc = "stop" /\ m \in todo'
                           \/ /\ m \in run.legacy
                              /\ \/ pc \in {"stop", "disable", "docker"}
                                 \/ pc = "legacyStop" /\ m \in todo'
    BY <1>1, <1>3 DEF RivalsInv
  <2>1. /\ ~Excused(p, m)
        /\ command = "stop" => m # n
        /\ command = "docker" => p.new # n
    BY <1>1 DEF Excused
  <2> QED
    BY <2>1, <1>1 DEF RenameInv, RivalsInv
<1> QED
  BY <1>2, <1>3, <1>4, <1>5, <1>6, <1>7 DEF RenameInv

LEMMA StopInv ==
  ASSUME RenameInv, NEW n, NEW stage \in {"stop", "legacyStop"}, Treat(stage, n),
         StopWatchdog(n), UNCHANGED <<enabled, failed>>
  PROVE  RenameInv'
<1>1. /\ pc \in {"stop", "legacyStop"} /\ n \in todo /\ todo' = todo \ {n}
      /\ pc' = pc /\ run' = run /\ units' = units /\ enabled' = enabled
      /\ file' = file /\ ran' = ran /\ failed' = failed
  BY DEF Treat
<1>2. /\ HostInv' /\ active' \subseteq active \ {n}
      /\ \A m \in active \cap units : m # n => m \in active'
  BY <1>1, StopEffect DEF RenameInv
<1>3. Fits(run.lines, units) => Fits(run'.lines, units')
  BY <1>1 DEF Fits
<1>4. EntriesInv' /\ Entries' = Entries
  BY <1>1 DEF RenameInv, EntriesInv, EntryOk, Entries
<1>5. StagesInv'
  BY <1>1, <1>4 DEF RenameInv, StagesInv, Moved
<1>6. OldInv'
  BY <1>1, <1>2 DEF RenameInv, OldInv
<1>7. NewInv'
  BY <1>1, <1>4 DEF RenameInv, NewInv, Started, Wanted
<1>8. RivalsInv'
  <2> SUFFICES ASSUME NEW p \in Entries, NEW m \in active',
                      m # p.new, Serves[m] = Serves[p.new], ~Excused(p, m)'
               PROVE  /\ m \notin units =>
                           \/ p.new \in active' \/ pc = "stop"
                      /\ m \in units =>
                           \/ pc = "stop" /\ m \in todo'
                           \/ /\ m \in run.legacy
                              /\ \/ pc = "stop"
                                 \/ pc = "legacyStop" /\ m \in todo'
    BY <1>1, <1>4 DEF RivalsInv
  <2>1. m \in active /\ m # n /\ ~Excused(p, m)
    BY <1>1, <1>2 DEF Excused
  <2>2. /\ m \notin units => p.new \in active \/ pc = "stop"
        /\ m \in units =>
             \/ pc = "stop" /\ m \in todo
             \/ /\ m \in run.legacy
                /\ \/ pc = "stop"
                   \/ pc = "legacyStop" /\ m \in todo
    BY <2>1, <1>1 DEF RenameInv, RivalsInv
  <2>3. ASSUME p.new \in active, pc = "legacyStop" PROVE p.new \in active'
    <3>1. p.new \in units
      BY <2>3, NewStays DEF RenameInv
    <3>2. p.new # n
      BY <2>3, <1>1 DEF RenameInv, StagesInv, EntriesInv
    <3> QED
      BY <2>3, <3>1, <3>2, <1>2
  <2> QED
    BY <2>1, <2>2, <2>3, <1>1
<1> QED
  BY <1>2, <1>4, <1>5, <1>6, <1>7, <1>8 DEF RenameInv

\* Commands that change only links.
LEMMA LinksHost ==
  ASSUME HostInv, UNCHANGED <<units, active, containers, file>>,
         enabled' \subseteq Names, todo' \subseteq Names
  PROVE  HostInv'
BY DEF HostInv, UnitsType, GhostsInv, Fits

\* A step of a stage that is about to work on the units it listed.
LEMMA DisableInv ==
  ASSUME RenameInv, NEW n, NEW stage \in {"disable", "legacy"},
         Treat(stage, n), Unlink(n)
  PROVE  RenameInv'
<1>1. /\ pc = stage /\ pc' = pc /\ n \in todo /\ todo' = todo \ {n}
      /\ run' = run /\ ran' = ran /\ file' = file /\ units' = units
      /\ active' = active /\ containers' = containers /\ failed' = failed
      /\ enabled' = enabled \ {n}
  BY DEF Treat, Unlink
<1>2. HostInv'
  BY <1>1, LinksHost DEF RenameInv, HostInv, UnitsType
<1>3. EntriesInv' /\ Entries' = Entries
  BY <1>1 DEF RenameInv, EntriesInv, EntryOk, Entries
<1>4. StagesInv' /\ OldInv'
  BY <1>1, <1>3 DEF RenameInv, StagesInv, Moved, OldInv
<1>5. NewInv' /\ RivalsInv'
  BY <1>1, <1>3 DEF RenameInv, NewInv, Started, Wanted, RivalsInv, Excused
<1> QED
  BY <1>2, <1>3, <1>4, <1>5 DEF RenameInv

LEMMA DockerInv ==
  ASSUME RenameInv, NEW n, Treat("docker", n), EndContainer(Serves[n], active),
         UNCHANGED <<enabled, failed>>
  PROVE  RenameInv'
<1>1. /\ pc = "docker" /\ n \in todo /\ todo' = todo \ {n}
      /\ pc' = pc /\ run' = run /\ units' = units /\ enabled' = enabled
      /\ file' = file /\ ran' = ran /\ failed' = failed
  BY DEF Treat
<1>2. /\ HostInv' /\ active' \subseteq active
      /\ \A m \in active' : m \notin units => Serves[m] # Serves[n]
      /\ \A m \in active \cap units : m \in active'
  <2>1. active \in SUBSET active
    OBVIOUS
  <2> QED
    BY <1>1, <2>1, EndEffect DEF RenameInv
<1>3. EntriesInv' /\ Entries' = Entries
  BY <1>1 DEF RenameInv, EntriesInv, EntryOk, Entries
<1>4. StagesInv' /\ OldInv'
  BY <1>1, <1>2, <1>3 DEF RenameInv, StagesInv, Moved, OldInv
<1>5. NewInv'
  BY <1>1, <1>3 DEF RenameInv, NewInv, Started, Wanted
<1>6. RivalsInv'
  <2> SUFFICES ASSUME NEW p \in Entries, NEW m \in active',
                      m # p.new, Serves[m] = Serves[p.new], ~Excused(p, m)'
               PROVE  /\ m \notin units => p.new \in active' \/ p.new \in todo'
                      /\ m \in units => m \in run.legacy
    BY <1>1, <1>3 DEF RivalsInv
  <2>1. /\ m \notin units => p.new \in active \/ p.new \in todo
        /\ m \in units => m \in run.legacy
    <3>1. ~Excused(p, m)
      BY <1>1 DEF Excused
    <3> QED
      BY <3>1, <1>1, <1>2 DEF RenameInv, RivalsInv
  <2>2. p.new \in active => p.new \in active'
    BY <1>2, NewStays DEF RenameInv
  <2>3. m \notin units => p.new # n
    BY <1>2
  <2> QED
    BY <2>1, <2>2, <2>3, <1>1
<1> QED
  BY <1>2, <1>3, <1>4, <1>5, <1>6 DEF RenameInv

LEMMA EnableInv ==
  ASSUME RenameInv, NEW n, Treat("enable", n), n \in units,
         enabled' = enabled \cup {n}, UNCHANGED <<active, containers, failed>>
  PROVE  RenameInv'
<1>1. /\ pc = "enable" /\ n \in todo /\ todo' = todo \ {n}
      /\ pc' = pc /\ run' = run /\ units' = units /\ active' = active
      /\ containers' = containers /\ file' = file /\ ran' = ran
      /\ failed' = failed
      /\ enabled' = enabled \cup {n}
  BY DEF Treat
<1>2. PICK q \in Entries : n = q.new
  BY <1>1 DEF RenameInv, StagesInv
<1>4. HostInv'
  BY <1>1, LinksHost DEF RenameInv, HostInv, UnitsType
<1>5. EntriesInv' /\ Entries' = Entries
  BY <1>1 DEF RenameInv, EntriesInv, EntryOk, Entries
<1>6. StagesInv'
  BY <1>1, <1>5 DEF RenameInv, StagesInv, Moved
<1>7. OldInv'
  <2>1. \A p \in Renamed(run.pending) : p.old # n
    BY <1>2, OldIsNotNew DEF RenameInv, Renamed, Entries
  <2> QED
    BY <2>1, <1>1 DEF RenameInv, OldInv
<1>8. NewInv' /\ RivalsInv'
  BY <1>1, <1>5 DEF RenameInv, NewInv, Started, Wanted, RivalsInv, Excused
<1> QED
  BY <1>4, <1>5, <1>6, <1>7, <1>8 DEF RenameInv

LEMMA StartInv ==
  ASSUME RenameInv, NEW n, Treat("start", n), n \in units,
         active' = active \cup {n}, containers' = containers \cup {Serves[n]},
         UNCHANGED <<enabled, failed>>
  PROVE  /\ RenameInv'
         /\ \A k \in active' \ active : \A m \in active :
              Serves[m] = Serves[k] =>
                \/ <<"stop", m>> \in failed \/ <<"docker", k>> \in failed
                \/ Unsought(m, k)
<1>1. /\ pc = "start" /\ n \in todo /\ todo' = todo \ {n}
      /\ pc' = pc /\ run' = run /\ units' = units /\ enabled' = enabled
      /\ file' = file /\ ran' = ran /\ failed' = failed
      /\ active' = active \cup {n} /\ containers' = containers \cup {Serves[n]}
  BY DEF Treat
<1>2. PICK q \in Entries : n = q.new
  BY <1>1 DEF RenameInv, StagesInv
<1>3. /\ \A k \in active' : k \in active \/ (k = n /\ n \in units)
      /\ active \subseteq active' /\ n \in active'
  BY <1>1
<1>4. HostInv'
  <2>1. UnitsType' /\ GhostsInv'
    BY <1>1, RenameAssumption DEF RenameInv, HostInv, UnitsType, GhostsInv
  <2>2. Fits(file, units)'
    BY <1>1, <1>3 DEF RenameInv, HostInv, Fits
  <2> QED
    BY <2>1, <2>2 DEF HostInv
<1>5. EntriesInv' /\ Entries' = Entries
  BY <1>1 DEF RenameInv, EntriesInv, EntryOk, Entries
<1>6. StagesInv'
  BY <1>1, <1>5 DEF RenameInv, StagesInv, Moved
<1>7. OldInv'
  <2>1. \A p \in Renamed(run.pending) : p.old # n
    BY <1>2, OldIsNotNew DEF RenameInv, Renamed, Entries
  <2> QED
    BY <2>1, <1>1, <1>3 DEF RenameInv, OldInv
<1>8. NewInv'
  BY <1>1, <1>3, <1>5 DEF RenameInv, NewInv, Started, Wanted
<1>9. \A m \in active : m # n /\ Serves[m] = Serves[n] /\ ~Excused(q, m) =>
        m \notin units /\ n \in active
  BY <1>1, <1>2 DEF RenameInv, RivalsInv
<1>10. RivalsInv'
  <2> SUFFICES ASSUME NEW p \in Entries, NEW m \in active',
                      m # p.new, Serves[m] = Serves[p.new], ~Excused(p, m)'
               PROVE  m \notin units /\ p.new \in active'
    BY <1>1, <1>5 DEF RivalsInv
  <2>1. m \in active /\ ~Excused(p, m)
    BY <1>1, <1>2, <1>3 DEF RenameInv, EntriesInv, Excused
  <2> QED
    BY <2>1, <1>1, <1>3 DEF RenameInv, RivalsInv
<1>11. ASSUME NEW k \in active' \ active, NEW m \in active, Serves[m] = Serves[k]
       PROVE  \/ <<"stop", m>> \in failed \/ <<"docker", k>> \in failed
              \/ Unsought(m, k)
  <2>1. k = n /\ m # n
    BY <1>3, <1>11
  <2>2. Excused(q, m)
    BY <2>1, <1>9, <1>11
  <2>3. \A p \in Entries : p.new = n => p = q
    BY <1>2 DEF RenameInv, EntriesInv
  <2> QED
    BY <2>1, <2>2, <2>3, <1>2 DEF Excused, Unsought, Entries
<1> QED
  BY <1>4, <1>5, <1>6, <1>7, <1>8, <1>10, <1>11 DEF RenameInv

-----------------------------------------------------------------------------
\* A unit file that a run moves: it is there under the old name only.
LEMMA MoveFacts ==
  ASSUME RenameInv, NEW i \in run.moves, pc = "move"
  PROVE  LET p == run.pending[i] IN
         /\ p \in Entries /\ p.old # p.new
         /\ p.old \in Names /\ p.new \in Names
         /\ p.old \in units => p.new \notin units
         /\ p.new = ServiceNameFor[Serves[p.new]] /\ Serves[p.old] = Serves[p.new]
<1> DEFINE p == run.pending[i]
<1>1. p \in Entries /\ ~p.alreadyRenamed
  BY DEF RenameInv, EntriesInv, Entries, Range
<1>2. EntryOk(p)
  BY <1>1 DEF RenameInv, EntriesInv
<1>3. p.old # p.new
  BY <1>1, <1>2 DEF EntryOk
<1> QED
  BY <1>1, <1>2, <1>3 DEF EntryOk, Pendings

LEMMA MoveInv ==
  ASSUME RenameInv, NEW i \in run.moves, Move(i)
  PROVE  RenameInv'
<1> DEFINE p == run.pending[i]
<1>1. /\ pc = "move" /\ active' = active /\ enabled' = enabled
      /\ containers' = containers /\ file' = file /\ ran' = ran
      /\ failed' = failed
      /\ \/ /\ p.old \in units
            /\ units' = (units \ {p.old}) \cup {p.new}
            /\ run' = [run EXCEPT !.moves = run.moves \ {i}]
            /\ pc' = pc /\ todo' = todo
         \/ /\ p.old \notin units
            /\ pc' = "idle" /\ todo' = {} /\ run' = NoRun
            /\ units' = units
  BY DEF Move, history
<1>2. /\ p \in Entries /\ p.old # p.new
      /\ p.old \in Names /\ p.new \in Names
      /\ p.old \in units => p.new \notin units
      /\ p.new = ServiceNameFor[Serves[p.new]] /\ Serves[p.old] = Serves[p.new]
  BY <1>1, MoveFacts
<1> HIDE DEF p
<1>3. CASE p.old \notin units
  <2>1. HostInv'
    BY <1>1, <1>3 DEF RenameInv, HostInv, UnitsType, GhostsInv, Fits
  <2> QED
    BY <1>1, <1>3, <2>1, IdleInv
<1>4. CASE p.old \in units
  <2>1. /\ units' = (units \ {p.old}) \cup {p.new}
        /\ run' = [run EXCEPT !.moves = run.moves \ {i}]
        /\ pc' = pc /\ todo' = todo
    BY <1>1, <1>4
  <2>2. p.new \notin units /\ p.new \notin active
    BY <1>2, <1>4, NewStays DEF RenameInv
  <2>3. /\ run' = [flags |-> run.flags, pending |-> run.pending,
                   disables |-> run.disables, legacy |-> run.legacy,
                   moves |-> run.moves \ {i}, lines |-> run.lines]
    BY <2>1 DEF RenameInv, EntriesInv
  <2>4. Entries' = Entries
    BY <2>3 DEF Entries
  <2>5. HostInv'
    <3>1. UnitsType'
      <4>1. IsFiniteSet(units \ {p.old})
        BY FS_RemoveElement DEF RenameInv, HostInv, UnitsType
      <4>2. IsFiniteSet(units')
        BY <2>1, <4>1, FS_AddElement
      <4> QED
        BY <4>2, <1>1, <1>2, <2>1 DEF RenameInv, HostInv, UnitsType
    <3>2. GhostsInv'
      <4>1. \A d \in Ids : ServiceNameFor[d] # p.old
        BY <1>2, RenameAssumption
      <4> QED
        BY <4>1, <1>1, <2>1 DEF RenameInv, HostInv, GhostsInv
    <3>3. Fits(file, units)'
      <4> SUFFICES ASSUME NEW l \in Range(file)
                   PROVE  /\ Serves[l.name] = l.id
                          /\ \A k \in Range(file) : k.id = l.id => k = l
                          /\ (\E n \in units' : Serves[n] = l.id) =>
                               {l.name, ServiceNameFor[l.id]} \cap units' # {}
        BY <1>1 DEF Fits, UpToDate
      <4>1. /\ Serves[l.name] = l.id
            /\ \A k \in Range(file) : k.id = l.id => k = l
            /\ (\E n \in units : Serves[n] = l.id) =>
                 {l.name, ServiceNameFor[l.id]} \cap units # {}
        BY DEF RenameInv, HostInv, Fits
      <4>2. l \in Lines
        BY DEF RenameInv, HostInv, UnitsType, Range
      <4> l.id \in Ids /\ Serves[ServiceNameFor[l.id]] = l.id
        BY <4>2, RenameAssumption DEF Lines
      <4>3. CASE Serves[p.new] = l.id
        BY <4>1, <4>3, <1>2, <2>1
      <4>4. CASE Serves[p.new] # l.id
        BY <4>1, <4>2, <4>4, <1>2, <2>1
      <4> QED
        BY <4>3, <4>4
    <3> QED
      BY <3>1, <3>2, <3>3 DEF HostInv
  <2>6. EntriesInv'
    <3>1. \A q \in Entries : EntryOk(q)'
      <4> TAKE q \in Entries
      <4>1. EntryOk(q)
        BY DEF RenameInv, EntriesInv
      <4>2. q = p \/ Serves[q.new] # Serves[p.new]
        BY <1>2 DEF RenameInv, EntriesInv
      <4> QED
        BY <4>1, <4>2, <1>2, <2>1 DEF EntryOk
    <3>2. \A k \in DOMAIN run.pending : k \notin run.moves \ {i} =>
            run.pending[k].new \in units'
      <4> TAKE k \in DOMAIN run.pending
      <4>1. ASSUME k \notin run.moves PROVE run.pending[k].new \in units'
        <5>1. run.pending[k] \in Entries /\ run.pending[k].new \in units
          BY <4>1 DEF RenameInv, EntriesInv, Entries, Range
        <5>2. run.pending[k].new # p.old
          BY <5>1, <1>2, OldIsNotNew DEF RenameInv
        <5> QED
          BY <5>1, <5>2, <2>1
      <4> QED
        BY <4>1, <2>1 DEF p
    <3> QED
      BY <2>3, <2>4, <3>1, <3>2 DEF RenameInv, EntriesInv
  <2>7. StagesInv'
    <3>1. /\ pc' = "move" /\ pc' \notin Moved
          /\ pc' \notin {"idle", "stop", "legacyStop", "docker", "enable", "start",
                         "truncate", "write"}
      BY <1>1, <2>1 DEF Moved
    <3>2. pc' \in Range(Stages)
      BY <3>1, StageNames
    <3> QED
      BY <3>1, <3>2 DEF StagesInv
  <2>8. OldInv' /\ NewInv'
    BY <1>1, <2>1, <2>3, <2>4 DEF RenameInv, OldInv, NewInv, Started, Wanted
  <2>9. RivalsInv'
    <3> SUFFICES ASSUME NEW q \in Entries, NEW m \in active,
                        m # q.new, Serves[m] = Serves[q.new], ~Excused(q, m)'
                 PROVE  m \notin units' /\ q.new \in active
      BY <1>1, <2>1, <2>4 DEF RivalsInv
    <3>1. m # p.old \/ <<"stop", p.old>> \in failed
      BY <1>1, <1>2 DEF RenameInv, OldInv, Renamed, Entries
    <3>2. m # p.old /\ m # p.new
      BY <3>1, <1>1, <2>2 DEF Excused
    <3>3. m \in units' <=> m \in units
      BY <3>2, <2>1
    <3>4. ~Excused(q, m)
      BY <3>3, <1>1, <2>3 DEF Excused
    <3> QED
      BY <3>3, <3>4, <1>1 DEF RenameInv, RivalsInv
  <2> QED
    BY <2>5, <2>6, <2>7, <2>8, <2>9 DEF RenameInv
<1> QED
  BY <1>3, <1>4

\* The lines a run reads and renames fit its units as well.
LEMMA RenamedLines ==
  ASSUME RenameInv, pc = "read",
         NEW lines, lines = [k \in DOMAIN file |-> RenamedLine(file[k])]
  PROVE  lines \in Seq(Lines) /\ Fits(lines, units)
<1>1. \A l \in Range(file) : l \in Lines
  BY DEF RenameInv, HostInv, UnitsType, Range
<1>2. \A p \in Entries : /\ p.new \in units /\ p.new \in Names
                         /\ p.new = ServiceNameFor[Serves[p.new]]
                         /\ Serves[p.old] = Serves[p.new]
  BY DEF RenameInv, StagesInv, Moved, EntriesInv, EntryOk, Pendings, Entries, Range
<1>3. \A l \in Range(file) :
        /\ Serves[l.name] = l.id
        /\ \/ RenamedLine(l) = l
           \/ /\ RenamedLine(l) = [name |-> ServiceNameFor[l.id], id |-> l.id]
              /\ ServiceNameFor[l.id] \in units
  <2> TAKE l \in Range(file)
  <2>1. Serves[l.name] = l.id /\ l = [name |-> l.name, id |-> l.id]
    BY <1>1 DEF RenameInv, HostInv, Fits, Lines
  <2>2. ASSUME NEW p \in Entries, p.old = l.name
        PROVE  RenamedLine(l) = [name |-> ServiceNameFor[l.id], id |-> l.id]
               /\ ServiceNameFor[l.id] \in units
    <3> DEFINE q == CHOOSE r \in Entries : r.old = l.name
    <3>1. q \in Entries /\ q.old = l.name
      BY <2>2, Zenon
    <3>2. q.new = ServiceNameFor[l.id] /\ q.new \in units
      BY <3>1, <1>2, <2>1
    <3>3. RenamedLine(l) = [l EXCEPT !.name = q.new]
      BY <2>2, Zenon DEF RenamedLine, Entries
    <3> QED
      BY <3>2, <3>3, <2>1
  <2>3. ASSUME \A p \in Entries : p.old # l.name PROVE RenamedLine(l) = l
    BY <2>3, Zenon DEF RenamedLine, Entries
  <2> QED
    BY <2>1, <2>2, <2>3
<1>4. \A l \in Range(file) : /\ RenamedLine(l) \in Lines /\ RenamedLine(l).id = l.id
  BY <1>1, <1>3, RenameAssumption DEF Lines
<1>5. lines \in Seq(Lines)
  BY <1>4 DEF RenameInv, HostInv, UnitsType, Range
<1>6. \A k \in Range(lines) : \E l \in Range(file) : k = RenamedLine(l)
  BY DEF Range
<1>7. Fits(lines, units)
  <2> SUFFICES ASSUME NEW k \in Range(lines)
               PROVE  /\ Serves[k.name] = k.id
                      /\ \A j \in Range(lines) : j.id = k.id => j = k
                      /\ (\E n \in units : Serves[n] = k.id) =>
                           {k.name, ServiceNameFor[k.id]} \cap units # {}
    BY DEF Fits
  <2>1. PICK l \in Range(file) : k = RenamedLine(l)
    BY <1>6
  <2>2. \A j \in Range(lines) : j.id = k.id => j = k
    BY <1>4, <1>6, <2>1 DEF RenameInv, HostInv, Fits
  <2>3. CASE k = l
    BY <2>2, <2>3 DEF RenameInv, HostInv, Fits
  <2>4. CASE /\ k = [name |-> ServiceNameFor[l.id], id |-> l.id]
             /\ ServiceNameFor[l.id] \in units
    BY <2>2, <2>4, <1>1, RenameAssumption DEF UpToDate, Lines
  <2> QED
    BY <2>1, <2>3, <2>4, <1>3
<1> QED
  BY <1>5, <1>7

LEMMA UpdateFileInv ==
  ASSUME RenameInv, UpdateFile
  PROVE  RenameInv'
<1>1. /\ pc \in {"read", "truncate", "write"} /\ pc' = After(pc) /\ todo' = {}
      /\ units' = units /\ active' = active /\ enabled' = enabled
      /\ containers' = containers /\ ran' = ran /\ failed' = failed
      /\ pc = "read" =>
           /\ run' = [run EXCEPT !.lines = [k \in DOMAIN file |-> RenamedLine(file[k])]]
           /\ file' = file
      /\ pc = "truncate" => file' = <<>> /\ run' = run
      /\ pc = "write" => file' = run.lines /\ run' = run
  BY DEF UpdateFile, systemd, history
<1>2. /\ pc = "read" => pc' = "truncate"
      /\ pc = "truncate" => pc' = "write"
      /\ pc = "write" => pc' = "done"
  BY <1>1, StageOrder
<1>3. /\ pc = "read" =>
           run' = [flags |-> run.flags, pending |-> run.pending,
                   disables |-> run.disables, legacy |-> run.legacy,
                   moves |-> run.moves,
                   lines |-> [k \in DOMAIN file |-> RenamedLine(file[k])]]
      /\ pc # "read" => run' = run
  BY <1>1 DEF RenameInv, EntriesInv
<1>4. /\ run'.pending = run.pending /\ run'.moves = run.moves /\ run'.flags = run.flags
      /\ run'.legacy = run.legacy /\ run'.disables = run.disables
  BY <1>3
<1>5. pc \in {"truncate", "write"} =>
        run.lines \in Seq(Lines) /\ Fits(run.lines, units)
  BY DEF RenameInv, StagesInv
<1>6. HostInv'
  <2>1. file' \in Seq(Lines)
    <3>1. <<>> \in Seq(Lines) /\ file \in Seq(Lines)
      BY DEF RenameInv, HostInv, UnitsType
    <3>2. pc = "read" \/ pc = "truncate" \/ pc = "write"
      BY <1>1
    <3> QED
      BY <1>1, <1>5, <3>1, <3>2
  <2>2. Fits(file', units')
    <3>1. CASE pc = "read"
      BY <1>1, <3>1 DEF RenameInv, HostInv, Fits
    <3>2. CASE pc = "truncate"
      BY <1>1, <3>2 DEF Fits, Range
    <3>3. CASE pc = "write"
      BY <1>1, <1>5, <3>3 DEF Fits
    <3> QED
      BY <1>1, <3>1, <3>2, <3>3
  <2> QED
    BY <1>1, <2>1, <2>2 DEF RenameInv, HostInv, UnitsType, GhostsInv, Fits
<1>7. Entries' = Entries
  BY <1>4 DEF Entries
<1>8. EntriesInv'
  <2>1. /\ run' = [flags |-> run'.flags, pending |-> run'.pending,
                   disables |-> run'.disables, legacy |-> run'.legacy,
                   moves |-> run'.moves, lines |-> run'.lines]
    <3>1. CASE pc = "read"
      BY <1>3, <3>1
    <3>2. CASE pc # "read"
      BY <1>3, <3>2 DEF RenameInv, EntriesInv
    <3> QED
      BY <3>1, <3>2
  <2> QED
    BY <1>1, <1>4, <1>7, <2>1 DEF RenameInv, EntriesInv, EntryOk
<1>9. StagesInv'
  <2>1. pc' = "truncate" \/ pc' = "write" \/ pc' = "done"
    BY <1>1, <1>2
  <2>2. pc' \in Range(Stages) \cup {"done"}
    BY <2>1, StageNames
  <2>3. run'.moves = {}
    BY <1>1, <1>4 DEF RenameInv, StagesInv, Moved
  <2>4. pc' \in {"truncate", "write"} =>
          run'.lines \in Seq(Lines) /\ Fits(run'.lines, units')
    <3>1. CASE pc = "read"
      <4>1. run'.lines = [k \in DOMAIN file |-> RenamedLine(file[k])]
        BY <1>3, <3>1
      <4>2. run'.lines \in Seq(Lines) /\ Fits(run'.lines, units)
        BY <3>1, <4>1, RenamedLines
      <4> QED
        BY <1>1, <4>2 DEF Fits
    <3>2. CASE pc # "read"
      BY <1>1, <1>3, <1>5, <3>2 DEF Fits
    <3> QED
      BY <3>1, <3>2
  <2> QED
    BY <2>1, <2>2, <2>3, <2>4 DEF StagesInv, Fits
<1>10. OldInv'
  <2>1. \A p \in Renamed(run.pending) :
          /\ p.old \in active => <<"stop", p.old>> \in failed
          /\ p.old \in enabled => <<"disable", p.old>> \in failed
    BY <1>1 DEF RenameInv, OldInv
  <2> QED
    BY <1>1, <1>4, <2>1 DEF OldInv
<1>11. NewInv'
  BY <1>1, <1>2, <1>4, <1>7 DEF RenameInv, NewInv, Started, Wanted
<1>12. RivalsInv'
  BY <1>1, <1>2, <1>4, <1>7 DEF RenameInv, RivalsInv, Excused
<1> QED
  BY <1>6, <1>8, <1>9, <1>10, <1>11, <1>12 DEF RenameInv

-----------------------------------------------------------------------------
\* What each stage begins with.
LEMMA WorkOf ==
  /\ Work("disable") = run.disables
  /\ Work("docker") = {n \in {p.new : p \in Entries} :
                          n \notin active /\ Serves[n] \in containers}
  /\ Work("legacyStop") = run.legacy \cap units \cap active
  /\ Work("legacy") = run.legacy
  /\ Work("enable") = {p.new : p \in Entries}
  /\ Work("start") =
       IF run.flags.noStart THEN {}
       ELSE {p.new : p \in {q \in Entries : q.recoverOnly \/ q.wasRunning}} \ active
  /\ Work("move") = {} /\ Work("read") = {} /\ Work("done") = {}
BY DEF Work, Entries

LEMMA AdvanceInv ==
  ASSUME RenameInv, Advance
  PROVE  RenameInv'
<1>1. /\ pc \notin {"idle", "done", "read", "truncate", "write"} /\ todo = {}
      /\ pc = "move" => run.moves = {}
      /\ pc' = After(pc) /\ todo' = Work(pc')
      /\ units' = units /\ active' = active /\ enabled' = enabled
      /\ containers' = containers /\ ran' = ran /\ failed' = failed
      /\ run' = run /\ file' = file
  BY DEF Advance, systemd, history
<1>2. pc \in {"stop", "disable", "docker", "legacyStop", "legacy", "move",
              "enable", "start"}
  BY <1>1, StageNames DEF RenameInv, StagesInv
<1>3. /\ pc = "stop" => pc' = "disable"
      /\ pc = "disable" => pc' = "docker"
      /\ pc = "docker" => pc' = "legacyStop"
      /\ pc = "legacyStop" => pc' = "legacy"
      /\ pc = "legacy" => pc' = "move"
      /\ pc = "move" => pc' = "enable"
      /\ pc = "enable" => pc' = "start"
      /\ pc = "start" => pc' \in {"read", "done"}
  BY <1>1, StageOrder
<1>4. Entries' = Entries
  BY <1>1 DEF Entries
<1>5. \A p \in Entries : p.new \in Names
  BY DEF RenameInv, EntriesInv, EntryOk, Pendings
<1>6. todo' \subseteq Names
  <2>1. Work(pc') \subseteq Names
    BY <1>2, <1>3, <1>5, WorkOf DEF RenameInv, HostInv, UnitsType, EntriesInv
  <2> QED
    BY <1>1, <2>1
<1>7. HostInv' /\ EntriesInv'
  BY <1>1, <1>4, <1>6 DEF RenameInv, HostInv, UnitsType, GhostsInv, Fits, EntriesInv, EntryOk
<1>8. StagesInv'
  <2>1. pc' \in Range(Stages) \cup {"done"}
    BY <1>2, <1>3, StageNames
  <2>2. pc' \in Moved => run.moves = {}
    BY <1>1, <1>2, <1>3 DEF Moved, RenameInv, StagesInv
  <2>3. pc' \in {"docker", "enable", "start"} => todo' \subseteq {p.new : p \in Entries}
    BY <1>1, <1>2, <1>3, WorkOf
  <2>4. pc' = "legacyStop" => todo' \subseteq run.legacy
    BY <1>1, WorkOf
  <2>5. pc' \notin {"idle", "stop", "truncate", "write"}
    BY <1>2, <1>3
  <2> QED
    BY <1>1, <1>4, <2>1, <2>2, <2>3, <2>4, <2>5 DEF StagesInv
<1>9. OldInv'
  <2> SUFFICES ASSUME NEW p \in Renamed(run.pending)
               PROVE  /\ p.old \in active => <<"stop", p.old>> \in failed
                      /\ p.old \in enabled =>
                           \/ <<"disable", p.old>> \in failed
                           \/ /\ ~p.alreadyRenamed /\ p.old \in run.disables
                              /\ pc' = "disable" /\ p.old \in todo'
                           \/ /\ p.alreadyRenamed /\ p.old \in run.legacy
                              /\ \/ pc' \in {"stop", "disable", "docker", "legacyStop"}
                                 \/ pc' = "legacy" /\ p.old \in todo'
    BY <1>1 DEF OldInv
  <2>1. p.old \in active => <<"stop", p.old>> \in failed
    BY <1>1 DEF RenameInv, OldInv
  <2>2. CASE ~p.alreadyRenamed
    BY <2>1, <2>2, <1>1, <1>3, WorkOf DEF RenameInv, OldInv
  <2>3. CASE p.alreadyRenamed
    BY <2>1, <2>3, <1>1, <1>3, WorkOf DEF RenameInv, OldInv
  <2> QED
    BY <2>2, <2>3
<1>10. NewInv'
  <2> SUFFICES ASSUME NEW p \in Entries
               PROVE  /\ pc' = "enable" => p.new \in todo'
                      /\ pc' \in Started \cup {"start"} =>
                           p.new \in enabled \/ <<"enable", p.new>> \in failed
                      /\ Wanted(p) => p.wasRunning
                      /\ Wanted(p) /\ pc' \in Started \cup {"start"} =>
                           \/ p.new \in active \/ run.flags.noStart
                           \/ <<"start", p.new>> \in failed
                           \/ pc' = "start" /\ p.new \in todo'
    BY <1>1, <1>4 DEF NewInv, Wanted
  <2>1. /\ pc = "enable" => p.new \in enabled \cup todo \/ <<"enable", p.new>> \in failed
        /\ pc \in Started \cup {"start"} =>
             p.new \in enabled \/ <<"enable", p.new>> \in failed
        /\ Wanted(p) => p.wasRunning
        /\ Wanted(p) /\ pc \in Started \cup {"start"} =>
             \/ p.new \in active \/ run.flags.noStart
             \/ <<"start", p.new>> \in failed
             \/ pc = "start" /\ p.new \in todo
    BY DEF RenameInv, NewInv
  <2>2. pc' = "enable" => p.new \in todo'
    BY <1>1, WorkOf
  <2>3. pc' = "start" /\ p.wasRunning => run.flags.noStart \/ p.new \in active \cup todo'
    BY <1>1, WorkOf
  <2> QED
    BY <2>1, <2>2, <2>3, <1>1, <1>2, <1>3 DEF Started
<1>11. RivalsInv'
  <2> SUFFICES ASSUME NEW p \in Entries, NEW m \in active,
                      m # p.new, Serves[m] = Serves[p.new], ~Excused(p, m)
               PROVE  /\ m \notin units =>
                           \/ p.new \in active \/ pc' \in {"stop", "disable"}
                           \/ pc' = "docker" /\ p.new \in todo'
                      /\ m \in units =>
                           /\ m \in run.legacy
                           /\ \/ pc' \in {"stop", "disable", "docker"}
                              \/ pc' = "legacyStop" /\ m \in todo'
    BY <1>1, <1>4 DEF RivalsInv, Excused
  <2>1. /\ m \notin units => p.new \in active \/ pc \in {"stop", "disable"}
        /\ m \in units => m \in run.legacy /\ pc \in {"stop", "disable", "docker"}
    BY <1>1 DEF RenameInv, RivalsInv
  <2>2. Serves[p.new] \in containers
    BY DEF RenameInv, HostInv, GhostsInv
  <2>3. pc' = "docker" /\ m \notin units => p.new \in active \cup todo'
    BY <2>2, <1>1, WorkOf
  <2>4. pc' = "legacyStop" /\ m \in units /\ m \in run.legacy => m \in todo'
    BY <1>1, WorkOf
  <2> QED
    BY <2>1, <2>3, <2>4, <1>2, <1>3
<1> QED
  BY <1>7, <1>8, <1>9, <1>10, <1>11 DEF RenameInv

-----------------------------------------------------------------------------
\* What happens to the host between runs, or ends one.
LEMMA HostStepInv ==
  ASSUME RenameInv,
         \/ Return \/ Kill \/ Reboot
         \/ \E n \in Names : UserStart(n) \/ UserStop(n)
  PROVE  RenameInv'
<1>1. CASE Return \/ Kill
  <2>1. /\ pc' = "idle" /\ run' = NoRun /\ todo' \subseteq todo
        /\ UNCHANGED <<units, active, enabled, containers, file>>
    BY <1>1 DEF Return, Kill, systemd
  <2>2. HostInv'
    BY <2>1 DEF RenameInv, HostInv, UnitsType, GhostsInv, Fits
  <2> QED
    BY <2>1, <2>2, IdleInv
<1>2. CASE Reboot
  <2>1. /\ pc' = "idle" /\ run' = NoRun /\ todo' = {}
        /\ active' = enabled \cap units /\ containers' = Serving(enabled \cap units)
        /\ UNCHANGED <<units, enabled, file>>
    BY <1>2 DEF Reboot
  <2>2. UnitsType' /\ GhostsInv'
    BY <2>1, RenameAssumption DEF RenameInv, HostInv, UnitsType, GhostsInv, Serving
  <2>3. Fits(file, units)'
    BY <2>1 DEF RenameInv, HostInv, Fits
  <2> QED
    BY <2>1, <2>2, <2>3, IdleInv DEF HostInv
<1>3. ASSUME NEW n \in Names, UserStart(n) PROVE RenameInv'
  <2>1. /\ pc' = "idle" /\ run' = NoRun /\ todo' = todo /\ n \in units
        /\ active' = active \cup {n} /\ containers' = containers \cup {Serves[n]}
        /\ UNCHANGED <<units, enabled, file>>
    BY <1>3 DEF UserStart, RenameInv, StagesInv
  <2>2. UnitsType' /\ GhostsInv'
    BY <2>1, RenameAssumption DEF RenameInv, HostInv, UnitsType, GhostsInv
  <2>3. Fits(file, units)'
    BY <2>1 DEF RenameInv, HostInv, Fits
  <2> QED
    BY <2>1, <2>2, <2>3, IdleInv DEF HostInv
<1>4. ASSUME NEW n \in Names, UserStop(n) PROVE RenameInv'
  <2>1. /\ pc' = "idle" /\ run' = NoRun /\ todo' \subseteq todo
        /\ StopWatchdog(n) /\ UNCHANGED <<units, enabled, file>>
    BY <1>4 DEF UserStop, RenameInv, StagesInv
  <2>2. HostInv'
    BY <2>1, StopEffect DEF RenameInv
  <2> QED
    BY <2>1, <2>2, IdleInv
<1> QED
  BY <1>1, <1>2, <1>3, <1>4

\* RenameInv is inductive.
LEMMA RenameStep ==
  ASSUME RenameInv, [RenameNext]_renameVars
  PROVE  RenameInv'
<1>1. CASE UNCHANGED renameVars
  <2>1. /\ UNCHANGED <<units, active, enabled, containers, file, pc, todo, run,
                       ran, failed>>
    BY <1>1 DEF renameVars, systemd, history
  <2>2. Entries' = Entries
    BY <2>1 DEF Entries
  <2>3. HostInv' /\ EntriesInv'
    BY <2>1, <2>2 DEF RenameInv, HostInv, UnitsType, GhostsInv, Fits, EntriesInv, EntryOk
  <2>4. StagesInv' /\ OldInv'
    BY <2>1, <2>2 DEF RenameInv, StagesInv, OldInv, Fits
  <2>5. NewInv' /\ RivalsInv'
    BY <2>1, <2>2 DEF RenameInv, NewInv, Wanted, RivalsInv, Excused
  <2> QED
    BY <2>3, <2>4, <2>5 DEF RenameInv
<1>2. ASSUME NEW flags \in Flags, BeginRun(flags) PROVE RenameInv'
  BY <1>2, BeginInv
<1>3. ASSUME NEW n \in Names, Stop(n) PROVE RenameInv'
  <2>1. PICK stage \in {"stop", "legacyStop"} : Treat(stage, n)
    BY <1>3 DEF Stop
  <2>2. (StopWatchdog(n) /\ UNCHANGED <<enabled, failed>>) \/ Fail("stop", n)
    BY <1>3, Zenon DEF Stop
  <2> QED
    BY <2>1, <2>2, StopInv, FailInv
<1>4. ASSUME NEW n \in Names, Disable(n) \/ CleanupLegacy(n) PROVE RenameInv'
  <2>1. PICK stage \in {"disable", "legacy"} :
          Treat(stage, n) /\ (Unlink(n) \/ Fail("disable", n))
    BY <1>4 DEF Disable, CleanupLegacy
  <2> QED
    BY <2>1, DisableInv, FailInv
<1>5. ASSUME NEW n \in Names, DockerStop(n) PROVE RenameInv'
  <2>1. /\ Treat("docker", n)
        /\ \/ EndContainer(Serves[n], active) /\ UNCHANGED <<enabled, failed>>
           \/ Fail("docker", n)
    BY <1>5, Zenon DEF DockerStop
  <2> QED
    BY <2>1, DockerInv, FailInv
<1>6. ASSUME NEW n \in Names, Enable(n) PROVE RenameInv'
  BY <1>6, EnableInv, FailInv DEF Enable
<1>7. ASSUME NEW n \in Names, StartUnit(n) PROVE RenameInv'
  BY <1>7, StartInv, FailInv DEF StartUnit
<1>8. ASSUME NEW i \in run.moves, Move(i) PROVE RenameInv'
  BY <1>8, MoveInv
<1>9. CASE UpdateFile
  BY <1>9, UpdateFileInv
<1>10. CASE Advance
  BY <1>10, AdvanceInv
<1>11. CASE \/ Return \/ Kill \/ Reboot
            \/ \E n \in Names : UserStart(n) \/ UserStop(n)
  BY <1>11, HostStepInv
<1> QED
  BY <1>1, <1>2, <1>3, <1>4, <1>5, <1>6, <1>7, <1>8, <1>9, <1>10, <1>11
     DEF RenameNext

LEMMA RenameInvAlways == RenameSpec => []RenameInv
BY InitRename, RenameStep, PTL DEF RenameSpec

\* Wherever a run ends, each line leads to the unit file of its server: a line
\* never gets ahead of its file, which Fits says of the file and of what is
\* about to be written.
THEOREM LinesAlwaysResolve == RenameSpec => []LinesResolve
<1>1. RenameInv => LinesResolve
  BY DEF RenameInv, HostInv, Fits, LinesResolve, UpToDate
<1> QED
  BY <1>1, RenameInvAlways, PTL

\* A run that is through leaves each service it took with its new name enabled,
\* its old one gone, and running if it ran before under one of its names, but for
\* what a command failed to do: a failure spoils nothing else.
THEOREM RunsEndClean == RenameSpec => []RunEndsClean
<1>1. ASSUME RenameInv PROVE RunEndsClean
  <2> SUFFICES ASSUME pc = "done", NEW p \in Entries
               PROVE  /\ p.new \in units
                      /\ p.new \in enabled \/ <<"enable", p.new>> \in failed
                      /\ p.old # p.new =>
                           /\ p.old \notin units
                           /\ p.old \in active => <<"stop", p.old>> \in failed
                           /\ p.old \in enabled => <<"disable", p.old>> \in failed
                      /\ Wanted(p) => \/ p.new \in active \/ run.flags.noStart
                                      \/ <<"start", p.new>> \in failed
    BY DEF RunEndsClean, Entries, Wanted
  <2>1. p.new \in units
    BY <1>1 DEF RenameInv, StagesInv, Moved, EntriesInv, Entries, Range
  <2>2. p.old # p.new => p.old \notin units
    BY <1>1, <2>1 DEF RenameInv, EntriesInv, EntryOk
  <2>3. p.old # p.new => /\ p.old \in active => <<"stop", p.old>> \in failed
                         /\ p.old \in enabled => <<"disable", p.old>> \in failed
    BY <1>1 DEF RenameInv, OldInv, Renamed, Entries
  <2>4. /\ p.new \in enabled \/ <<"enable", p.new>> \in failed
        /\ Wanted(p) => \/ p.new \in active \/ run.flags.noStart
                        \/ <<"start", p.new>> \in failed
    BY <1>1 DEF RenameInv, NewInv, Started
  <2> QED
    BY <2>1, <2>2, <2>3, <2>4
<1> QED
  BY <1>1, RenameInvAlways, PTL

\* No step loses a unit file: what a move overwrites was not there.
THEOREM FilesKept == RenameSpec => UnitFilesKept
<1>1. ASSUME RenameInv, RenameNext PROVE Cardinality(units') = Cardinality(units)
  <2>1. ASSUME NEW i \in run.moves, Move(i) PROVE Cardinality(units') = Cardinality(units)
    <3> DEFINE p == run.pending[i]
    <3>1. /\ p.old \in units => p.new \notin units
          /\ p.old # p.new
      BY <1>1, <2>1, MoveFacts DEF Move
    <3>2. \/ units' = units
          \/ p.old \in units /\ units' = (units \ {p.old}) \cup {p.new}
      BY <2>1, Zenon DEF Move
    <3> HIDE DEF p
    <3>3. IsFiniteSet(units)
      BY <1>1 DEF RenameInv, HostInv, UnitsType
    <3>4. ASSUME p.old \in units, units' = (units \ {p.old}) \cup {p.new}
          PROVE  Cardinality(units') = Cardinality(units)
      <4>1. /\ IsFiniteSet(units \ {p.old})
            /\ Cardinality(units \ {p.old}) = Cardinality(units) - 1
        BY <3>3, <3>4, FS_RemoveElement
      <4>2. Cardinality(units') = Cardinality(units \ {p.old}) + 1
        BY <3>1, <3>4, <4>1, FS_AddElement
      <4> QED
        BY <3>3, <4>1, <4>2, FS_CardinalityType
    <3> QED
      BY <3>2, <3>4
  <2>2. CASE ~ \E i \in run.moves : Move(i)
    <3>1. units' = units
      BY <1>1, <2>2, Zenon
         DEF RenameNext, BeginRun, Stop, Disable, DockerStop, CleanupLegacy, Enable, StartUnit,
             Treat, UpdateFile, Advance, Return, Kill, Reboot, UserStart, UserStop, systemd
    <3> QED
      BY <3>1
  <2> QED
    BY <2>1, <2>2
<1>2. ASSUME RenameInv, [RenameNext]_renameVars
      PROVE  [Cardinality(units') = Cardinality(units)]_units
  BY <1>1, <1>2 DEF renameVars, systemd
<1> QED
  BY <1>2, RenameInvAlways, PTL DEF RenameSpec, UnitFilesKept

\* A run never starts a second watchdog of a server, unless stopping the other one
\* failed, or it is one of a third name that a run which only moves files does not
\* look for.
THEOREM OneWatchdog == RenameSpec => NoSecondWatchdog
<1> DEFINE Alone == \A n \in active' \ active : \A m \in active :
                       Serves[m] = Serves[n] =>
                         \/ <<"stop", m>> \in failed \/ <<"docker", n>> \in failed
                         \/ Unsought(m, n)
<1>1. ASSUME RenameInv, RenameNext, pc # "idle", pc' # "idle" PROVE Alone
  <2>1. ASSUME NEW n \in Names, StartUnit(n), active' # active PROVE Alone
    BY <1>1, <2>1, StartInv DEF StartUnit, Fail
  <2>2. CASE ~ \E n \in Names : StartUnit(n) /\ active' # active
    <3>1. active' \subseteq active
      <4>1. ASSUME NEW n \in Names, Stop(n) \/ DockerStop(n) PROVE active' \subseteq active
        BY <4>1 DEF Stop, DockerStop, StopWatchdog, EndContainer, Fail
      <4> QED
        BY <1>1, <2>2, <4>1
           DEF RenameNext, BeginRun, Disable, CleanupLegacy, Unlink, Fail, Enable, Move,
               UpdateFile, Advance, Return, Kill, Reboot, UserStart, UserStop, systemd
    <3> QED
      BY <3>1
  <2> QED
    BY <2>1, <2>2
<1>2. ASSUME RenameInv, [RenameNext]_renameVars
      PROVE  [pc # "idle" /\ pc' # "idle" => Alone]_renameVars
  BY <1>1, <1>2
<1> QED
  BY <1>2, RenameInvAlways, PTL DEF RenameSpec, NoSecondWatchdog
=============================================================================
