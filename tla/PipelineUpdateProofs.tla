------------------------ MODULE PipelineUpdateProofs ------------------------
(***************************************************************************)
(* Proofs about a run of update_pipeline, for any services, repositories   *)
(* and assignment of the ones to the others, whatever step fails and       *)
(* whatever users start and stop meanwhile; and about the dialog that      *)
(* watches the run, for any number of polls in flight.                     *)
(***************************************************************************)
EXTENDS UpdateModal, TLAPS

\* The variables the order and the report of an update depend on; what the
\* host runs does not matter for them once active_before is read.
reportVars == <<phase, activeBefore, build, restart, svcStep, errors, outcome>>

ReportType ==
    /\ phase \in Phases
    /\ activeBefore \subseteq Tracked
    /\ build \in [Repos -> {"todo", "synced", "ok", "failed", "lost"}]
    /\ restart \in [Services -> RestartSteps]
    /\ svcStep \in [Services -> SvcSteps]

Early == {"preamble", "starting", "sys_git", "sys_build"}
Ended == {"finish", "over"}

AllBuilt == \A s \in Jobs : Built(RepoOf[s])
AllRestarted == \A s \in ToRestart : Restarted(s)

\* The steps of the restart of one job.
RestartOfJob(s) ==
    \/ RestartStop(s) \/ RestartStart(s) \/ SawRun(s) \/ RestartPlain(s)
    \/ ReportRestarted(s) \/ RestartFails(s) \/ RestartLost(s)

\* Every job has gone as far as this update takes it.
JobsDone ==
    /\ \A s \in Jobs : BuildOver(RepoOf[s])
    /\ ~Thrown => AllBuilt /\ AllRestarted

\* What has happened when the update is in a phase, and what has not.
PhaseInv ==
    /\ phase \in Early => \A r \in Repos : build[r] = "todo"
    /\ phase \in Early \cup {"build"} => \A s \in Services : restart[s] = "todo"
    /\ phase \in {"restart", "sys_restart"} => AllBuilt
    /\ phase = "sys_restart" => AllRestarted
    /\ phase \in {"sys_git", "sys_build", "sys_restart"} => WithSys
    /\ phase \in Ended /\ Sys \notin errors => JobsDone
    /\ phase \in Ended /\ Sys \notin errors /\ ~Thrown /\ WithSys =>
         restart[Sys] = IF Sys \in activeBefore THEN "ok" ELSE "todo"
    /\ outcome # "none" => phase = "over"

\* Where the work of system_monitor can be.
SysInv ==
    /\ Sys \in errors => phase \in Ended /\ ~Thrown /\ WithSys
    /\ restart[Sys] # "todo" => phase \in Ended \cup {"sys_restart"} /\ AllBuilt /\ AllRestarted
    /\ phase \in {"restart", "sys_restart"} => \A r \in Repos : build[r] # "lost"
    /\ restart[Sys] = "ok" => Sys \notin errors
    /\ restart[Sys] # "todo" => Sys \in activeBefore
    /\ phase = "sys_restart" => restart[Sys] \in {"todo", "started", "ready"}
    /\ phase \in Ended => restart[Sys] \in {"todo", "ok", "failed"}

\* Only a service that was active and built is restarted.
RestartInv == \A s \in Jobs : restart[s] # "todo" => s \in ToRestart

\* The step shown for a job is the last thing that happened to it.
JobShown == \A s \in Jobs :
    /\ build[RepoOf[s]] = "ok" /\ restart[s] = "todo" => svcStep[s] = "built"
    /\ restart[s] = "ok" => svcStep[s] = "restarted"
    /\ restart[s] = "lost" => svcStep[s] = "built"
    /\ build[RepoOf[s]] = "lost" => svcStep[s] = "none"
    /\ build[RepoOf[s]] = "failed" \/ restart[s] = "failed" => svcStep[s] = "failed"

SysShown ==
    /\ ~WithSys => svcStep[Sys] = "none"
    /\ WithSys /\ phase \in {"build", "restart"} => svcStep[Sys] = "built"
    /\ phase = "sys_restart" =>
         svcStep[Sys] = IF restart[Sys] = "todo" THEN "built" ELSE "busy"
    /\ WithSys /\ phase \in Ended /\ Sys \notin errors =>
         svcStep[Sys] = IF restart[Sys] = "todo" THEN "built" ELSE "restarted"
    /\ Sys \in errors => svcStep[Sys] = "failed"

\* The errors are the builds and the restarts that failed; before the builds no
\* job shows a step.
ErrorsInv ==
    /\ \A x \in errors : \/ x = Sys
                         \/ x \in Repos /\ build[x] = "failed" /\ JobsOf(x) # {}
                         \/ x \in Jobs /\ restart[x] = "failed"
    /\ \A s \in Jobs : /\ build[RepoOf[s]] = "failed" => RepoOf[s] \in errors
                       /\ restart[s] = "failed" => s \in errors
    /\ \A r \in Repos : build[r] = "lost" => JobsOf(r) # {}
    /\ phase \notin Ended => \A s \in Jobs :
         build[RepoOf[s]] = "todo" => svcStep[s] = "none"

UpdateInv ==
    /\ ReportType /\ PhaseInv /\ SysInv /\ RestartInv
    /\ JobShown /\ SysShown /\ ErrorsInv
    /\ RestartsInOrder /\ OutcomeHonest

\* An update begins with nothing done.
LEMMA InitUpdateInv == Init => UpdateInv
<1> SUFFICES ASSUME Init PROVE UpdateInv
  OBVIOUS
<1> USE JobAssumption DEF Init, Services
<1>1. ReportType
  BY DEF ReportType, Phases, SvcSteps, RestartSteps
<1>2. PhaseInv /\ SysInv /\ RestartInv
  BY DEF PhaseInv, SysInv, RestartInv, Early, Ended
<1>3. JobShown /\ SysShown /\ ErrorsInv
  BY DEF JobShown, SysShown, ErrorsInv, Ended
<1>4. RestartsInOrder /\ OutcomeHonest
  BY DEF RestartsInOrder, BuildsBeforeRestarts, FailedBuildTouchesNothing,
         OutcomeHonest
<1> QED
  BY <1>1, <1>2, <1>3, <1>4 DEF UpdateInv

\* Every step keeps the variables of the report in their types.
LEMMA ReportTypeStep ==
  ASSUME ReportType, [Next]_vars
  PROVE  ReportType'
<1> USE JobAssumption DEF ReportType, Services, Phases, SvcSteps, RestartSteps
<1>1. CASE ReadActive \/ Begin
  BY <1>1 DEF ReadActive, Begin, Tracked
<1>2. CASE SysSync \/ SysBuilt \/ SysFails
  BY <1>2 DEF SysSync, SysBuilt, SysFails, Mark
<1>3. ASSUME NEW r \in Repos, RepoSync(r) \/ RepoBuilt(r) \/ RepoFails(r) \/ BuildLost(r)
      PROVE  ReportType'
  BY <1>3 DEF RepoSync, RepoBuilt, RepoFails, BuildLost, Mark
<1>4. ASSUME NEW s \in Jobs, RestartOfJob(s)
      PROVE  ReportType'
  <2>1. CASE RestartStop(s) \/ RestartStart(s) \/ SawRun(s) \/ RestartPlain(s)
    BY <2>1 DEF RestartStop, RestartStart, SawRun, RestartPlain, Mark
  <2>2. CASE ReportRestarted(s) \/ RestartFails(s) \/ RestartLost(s)
    BY <2>2 DEF ReportRestarted, RestartFails, RestartLost, Mark
  <2> QED
    BY <1>4, <2>1, <2>2 DEF RestartOfJob
<1>5. CASE JoinBuilds \/ JoinRestarts \/ SysStaysDown \/ Finish
  BY <1>5 DEF JoinBuilds, JoinRestarts, SysStaysDown, Finish
<1>6. CASE SysRestart \/ SawRun(Sys) \/ SysReport \/ SysRestartFails
  BY <1>6 DEF SysRestart, SawRun, SysReport, SysRestartFails, Mark
<1>7. CASE User \/ UNCHANGED vars
  BY <1>7 DEF User, UserStart, UserStop, vars
<1> QED
  BY <1>1, <1>2, <1>3, <1>4, <1>5, <1>6, <1>7 DEF Next, Update, Worker, RestartOfJob

\* What a build step does to the order and to the report.
LEMMA BuildStep ==
  ASSUME UpdateInv, ReportType', NEW r \in Repos,
         RepoSync(r) \/ RepoBuilt(r) \/ RepoFails(r) \/ BuildLost(r)
  PROVE  UpdateInv'
<1> USE JobAssumption DEF Services, JobsOf
<1> DEFINE v == build'[r]
<1>1. /\ phase = "build" /\ build[r] \in {"todo", "synced"}
      /\ \A q \in Repos : build'[q] = IF q = r THEN v ELSE build[q]
      /\ v \in {"synced", "ok", "failed", "lost"}
      /\ v = "lost" => build[r] = "todo"
      /\ errors' = IF v = "failed" THEN errors \cup {r} ELSE errors
      /\ v \in {"failed", "lost"} => JobsOf(r) # {}
      /\ UNCHANGED <<phase, activeBefore, restart, outcome>>
  BY DEF RepoSync, RepoBuilt, RepoFails, BuildLost, UpdateInv, ReportType
<1>2. \A s \in Services : svcStep'[s] =
        IF s \in JobsOf(r) /\ v # "lost"
        THEN IF v = "ok" THEN "built" ELSE IF v = "failed" THEN "failed" ELSE "busy"
        ELSE svcStep[s]
  BY DEF RepoSync, RepoBuilt, RepoFails, BuildLost, Mark, UpdateInv, ReportType
<1> HIDE DEF v
<1>3. /\ \A s \in Services : restart[s] = "todo"
      /\ Sys \notin errors /\ Sys # r /\ outcome = "none"
  BY <1>1 DEF UpdateInv, PhaseInv, SysInv, Ended
<1>4. PhaseInv' /\ SysInv' /\ RestartInv'
  BY <1>1, <1>3 DEF PhaseInv, SysInv, RestartInv, Early, Ended
<1>5. JobShown'
  BY <1>1, <1>2, <1>3 DEF UpdateInv, JobShown, ErrorsInv, Ended
<1>6. SysShown'
  BY <1>1, <1>2, <1>3 DEF UpdateInv, SysShown, Ended
<1>7. ErrorsInv'
  BY <1>1, <1>2, <1>3 DEF UpdateInv, ErrorsInv
<1>8. RestartsInOrder' /\ OutcomeHonest'
  BY <1>1, <1>3 DEF RestartsInOrder, BuildsBeforeRestarts, FailedBuildTouchesNothing,
                    OutcomeHonest
<1> QED
  BY <1>4, <1>5, <1>6, <1>7, <1>8 DEF UpdateInv

\* What a step of the restart of one job does.
LEMMA RestartStep ==
  ASSUME UpdateInv, ReportType', NEW s \in Jobs, RestartOfJob(s)
  PROVE  UpdateInv'
<1> USE JobAssumption DEF Services
<1> DEFINE v == restart'[s]
<1>1. /\ phase = "restart" /\ s \in ToRestart
      /\ restart[s] \in {"todo", "stopped", "started", "ready"}
      /\ \A t \in Services : restart'[t] = IF t = s THEN v ELSE restart[t]
      /\ v \in {"stopped", "started", "ready", "ok", "failed", "lost"}
      /\ v = "lost" => restart[s] = "todo"
      /\ errors' = IF v = "failed" THEN errors \cup {s} ELSE errors
      /\ UNCHANGED <<phase, activeBefore, build, outcome>>
  <2>1. restart[s] # "todo" => s \in ToRestart
    BY DEF UpdateInv, RestartInv
  <2>3. CASE RestartStop(s) \/ RestartStart(s) \/ RestartPlain(s)
    BY <2>1, <2>3 DEF RestartStop, RestartStart, RestartPlain, UpdateInv, ReportType
  <2>4. CASE SawRun(s)
    BY <2>1, <2>4 DEF SawRun, UpdateInv, ReportType
  <2>5. CASE ReportRestarted(s) \/ RestartFails(s) \/ RestartLost(s)
    BY <2>1, <2>5 DEF ReportRestarted, RestartFails, RestartLost, UpdateInv, ReportType
  <2> QED
    BY <2>3, <2>4, <2>5 DEF RestartOfJob
<1>2. \A t \in Services : /\ t # s => svcStep'[t] = svcStep[t]
                          /\ v = "ok" => svcStep'[s] = "restarted"
                          /\ v = "failed" => svcStep'[s] = "failed"
                          /\ v = "lost" => svcStep'[s] = svcStep[s]
  <2>1. CASE RestartStop(s) \/ RestartStart(s) \/ SawRun(s) \/ RestartPlain(s)
    BY <2>1 DEF RestartStop, RestartStart, SawRun, RestartPlain, Mark, UpdateInv,
                ReportType
  <2>2. CASE ReportRestarted(s) \/ RestartFails(s) \/ RestartLost(s)
    BY <2>2 DEF ReportRestarted, RestartFails, RestartLost, Mark, UpdateInv, ReportType
  <2> QED
    BY <2>1, <2>2 DEF RestartOfJob
<1> HIDE DEF v
<1>3. /\ Sys \notin errors /\ restart[Sys] = "todo" /\ outcome = "none"
      /\ Sys # s /\ AllBuilt /\ build[RepoOf[s]] = "ok" /\ ToRestart' = ToRestart
  BY <1>1 DEF UpdateInv, PhaseInv, SysInv, Ended, ToRestart
<1>4. PhaseInv' /\ SysInv' /\ RestartInv'
  BY <1>1, <1>3 DEF UpdateInv, PhaseInv, SysInv, RestartInv, Early, Ended, AllBuilt, Built
<1>5. JobShown'
  BY <1>1, <1>2, <1>3 DEF UpdateInv, JobShown
<1>6. SysShown'
  BY <1>1, <1>2, <1>3 DEF UpdateInv, SysShown, Ended
<1>7. ErrorsInv'
  BY <1>1, <1>2, <1>3 DEF UpdateInv, ErrorsInv, JobsOf
<1>8. RestartsInOrder' /\ OutcomeHonest'
  <2>1. BuildsBeforeRestarts'
    BY <1>1, <1>3 DEF BuildsBeforeRestarts, AllBuilt, Built
  <2>2. FailedBuildTouchesNothing'
    BY <1>1, <1>3, <1>4 DEF FailedBuildTouchesNothing, RestartInv, ToRestart
  <2> QED
    BY <1>1, <1>3, <2>1, <2>2 DEF RestartsInOrder, OutcomeHonest
<1> QED
  BY <1>4, <1>5, <1>6, <1>7, <1>8 DEF UpdateInv

\* The steps before the builds, and system_monitor's build.
LEMMA StartStep ==
  ASSUME UpdateInv, ReportType', ReadActive \/ Begin \/ SysSync \/ SysBuilt \/ SysFails
  PROVE  UpdateInv'
<1> USE JobAssumption DEF Services
<1>1. /\ phase \in Early
      /\ \A r \in Repos : build[r] = "todo"
      /\ \A s \in Services : restart[s] = "todo"
      /\ Sys \notin errors /\ outcome = "none" /\ errors = {}
      /\ \A s \in Jobs : svcStep[s] = "none"
      /\ ~WithSys => svcStep[Sys] = "none"
  <2>1. phase \in Early
    BY DEF ReadActive, Begin, SysSync, SysBuilt, SysFails, Early
  <2>2. /\ \A r \in Repos : build[r] = "todo"
        /\ \A s \in Services : restart[s] = "todo"
        /\ Sys \notin errors /\ outcome = "none"
    BY <2>1 DEF UpdateInv, PhaseInv, SysInv, Early, Ended
  <2> QED
    BY <2>1, <2>2 DEF UpdateInv, ErrorsInv, SysShown, Early, Ended
<1>2. /\ UNCHANGED <<build, restart, outcome>>
      /\ phase' = "finish" => errors' = {Sys} /\ svcStep'[Sys] = "failed" /\ WithSys
      /\ phase' # "finish" => /\ phase' \in Early \cup {"build"} /\ errors' = errors
                              /\ \A s \in Jobs : svcStep'[s] = "none"
      /\ phase' = "build" /\ WithSys => svcStep'[Sys] = "built"
      /\ phase' \in {"sys_git", "sys_build"} => WithSys
      /\ ~WithSys => svcStep'[Sys] = "none"
  BY <1>1 DEF ReadActive, Begin, SysSync, SysBuilt, SysFails, Mark, Early, UpdateInv,
              PhaseInv, ReportType
<1>3. ~Thrown' /\ (\A s \in Jobs : build'[RepoOf[s]] = "todo")
  BY <1>1, <1>2 DEF Thrown
<1>4. PhaseInv' /\ SysInv' /\ RestartInv'
  BY <1>1, <1>2, <1>3 DEF PhaseInv, SysInv, RestartInv, Early, Ended
<1>5. JobShown' /\ SysShown'
  BY <1>1, <1>2 DEF JobShown, SysShown, Early, Ended
<1>6. ErrorsInv'
  BY <1>1, <1>2 DEF ErrorsInv, Ended
<1>7. RestartsInOrder' /\ OutcomeHonest'
  BY <1>1, <1>2 DEF RestartsInOrder, BuildsBeforeRestarts, FailedBuildTouchesNothing,
                    OutcomeHonest
<1> QED
  BY <1>4, <1>5, <1>6, <1>7 DEF UpdateInv

\* The ends of the two parallel parts.
LEMMA JoinStep ==
  ASSUME UpdateInv, ReportType', JoinBuilds \/ JoinRestarts
  PROVE  UpdateInv'
<1> USE JobAssumption DEF Services
<1>1. /\ phase \in {"build", "restart"}
      /\ phase' \in {"restart", "sys_restart", "finish"}
      /\ UNCHANGED <<activeBefore, build, restart, svcStep, errors, outcome>>
      /\ outcome = "none" /\ Sys \notin errors /\ restart[Sys] = "todo"
      /\ ~WithSys => svcStep[Sys] = "none"
  BY DEF JoinBuilds, JoinRestarts, UpdateInv, PhaseInv, SysInv, SysShown, Ended
<1>2. Thrown' = Thrown /\ AllBuilt' = AllBuilt /\ AllRestarted' = AllRestarted
      /\ JobsDone' = JobsDone /\ ToRestart' = ToRestart
  BY <1>1 DEF Thrown, AllBuilt, Built, AllRestarted, Restarted, ToRestart, JobsDone,
              BuildOver
<1>3. /\ phase' = "restart" => AllBuilt /\ ~Thrown
      /\ phase' = "sys_restart" => AllBuilt /\ AllRestarted /\ WithSys /\ ~Thrown
      /\ phase' = "finish" => JobsDone /\ (~Thrown => ~WithSys)
  <2>1. CASE JoinBuilds
    <3>1. Thrown => phase' = "finish"
      BY <2>1 DEF JoinBuilds
    <3>2. ~Thrown => phase' = "restart" /\ AllBuilt
      BY <2>1 DEF JoinBuilds, Thrown, AllBuilt, BuildOver
    <3> QED
      BY <2>1, <3>1, <3>2 DEF JoinBuilds, JobsDone
  <2>2. CASE JoinRestarts
    <3>1. AllBuilt /\ \A s \in Jobs : BuildOver(RepoOf[s])
      BY <2>2 DEF JoinRestarts, UpdateInv, PhaseInv, AllBuilt, BuildOver
    <3>2. ~Thrown => AllRestarted
      BY <2>2 DEF JoinRestarts, Thrown, AllRestarted, RestartOver, ToRestart
    <3> QED
      BY <2>2, <3>1, <3>2 DEF JoinRestarts, JobsDone
  <2> QED
    BY <2>1, <2>2
<1>4. PhaseInv'
  BY <1>1, <1>2, <1>3 DEF PhaseInv, Early, Ended
<1>5. SysInv'
  BY <1>1, <1>2, <1>3 DEF SysInv, Ended, Thrown
<1>6. RestartInv' /\ JobShown' /\ ErrorsInv'
  BY <1>1, <1>2 DEF UpdateInv, RestartInv, JobShown, ErrorsInv, JobsOf, Ended
<1>7. SysShown'
  BY <1>1, <1>3 DEF UpdateInv, SysShown, Ended
<1>8. RestartsInOrder' /\ OutcomeHonest'
  BY <1>1, <1>2 DEF UpdateInv, RestartsInOrder, BuildsBeforeRestarts, Built,
                    FailedBuildTouchesNothing, OutcomeHonest
<1> QED
  BY <1>4, <1>5, <1>6, <1>7, <1>8 DEF UpdateInv

\* The restart of system_monitor, or none.
LEMMA SysStep ==
  ASSUME UpdateInv, ReportType',
         SysRestart \/ SawRun(Sys) \/ SysReport \/ SysRestartFails \/ SysStaysDown
  PROVE  UpdateInv'
<1> USE JobAssumption DEF Services
<1> DEFINE v == restart'[Sys]
<1>1. phase = "sys_restart"
  BY DEF SysRestart, SawRun, SysReport, SysRestartFails, SysStaysDown
<1>2. /\ outcome = "none" /\ Sys \notin errors /\ AllBuilt /\ AllRestarted /\ WithSys
      /\ \A r \in Repos : build[r] # "lost"
      /\ restart[Sys] \in {"todo", "started", "ready"}
  BY <1>1 DEF UpdateInv, PhaseInv, SysInv, Ended
<1>3. ~Thrown
  BY <1>2 DEF Thrown, AllRestarted, Restarted, UpdateInv, RestartInv
<1>4. /\ UNCHANGED <<activeBefore, build, outcome>>
      /\ \A t \in Jobs : restart'[t] = restart[t] /\ svcStep'[t] = svcStep[t]
      /\ \/ /\ v \in {"started", "ready"} /\ svcStep'[Sys] = "busy"
            /\ errors' = errors /\ phase' = "sys_restart"
         \/ /\ v = "ok" /\ svcStep'[Sys] = "restarted" /\ errors' = errors
            /\ phase' = "finish" /\ Sys \in activeBefore
         \/ /\ v = "failed" /\ svcStep'[Sys] = "failed" /\ errors' = errors \cup {Sys}
            /\ phase' = "finish"
         \/ /\ v = "todo" /\ svcStep'[Sys] = svcStep[Sys] /\ errors' = errors
            /\ phase' = "finish" /\ Sys \notin activeBefore /\ svcStep[Sys] = "built"
  <2>1. CASE SysRestart
    BY <2>1 DEF SysRestart, Mark, UpdateInv, ReportType
  <2>2. CASE SawRun(Sys)
    BY <1>1, <2>2 DEF SawRun, UpdateInv, ReportType, SysShown
  <2>3. CASE SysReport
    <3>1. Sys \in activeBefore
      BY <2>3 DEF SysReport, UpdateInv, SysInv
    <3> QED
      BY <2>3, <3>1 DEF SysReport, Mark, UpdateInv, ReportType
  <2>4. CASE SysRestartFails
    BY <2>4 DEF SysRestartFails, Mark, UpdateInv, ReportType
  <2>5. CASE SysStaysDown
    <3>1. restart[Sys] = "todo"
      BY <2>5 DEF SysStaysDown, UpdateInv, SysInv
    <3> QED
      BY <1>1, <2>5, <3>1 DEF SysStaysDown, UpdateInv, SysShown
  <2> QED
    BY <2>1, <2>2, <2>3, <2>4, <2>5
<1> HIDE DEF v
<1>5. /\ ToRestart' = ToRestart /\ AllBuilt' /\ AllRestarted' /\ ~Thrown'
      /\ \A s \in Jobs : BuildOver(RepoOf[s])'
  BY <1>2, <1>3, <1>4 DEF ToRestart, AllBuilt, Built, AllRestarted, Restarted, Thrown,
                          BuildOver
<1>6. PhaseInv'
  BY <1>2, <1>4, <1>5 DEF PhaseInv, JobsDone, Early, Ended, v
<1>7. SysInv'
  <2>1. v # "todo" => Sys \in activeBefore'
    <3>1. CASE SysRestart \/ SysRestartFails
      BY <1>4, <3>1 DEF SysRestart, SysRestartFails
    <3>2. CASE SawRun(Sys) \/ SysReport
      BY <1>4, <3>2 DEF SawRun, SysReport, UpdateInv, SysInv
    <3>3. CASE SysStaysDown
      <4>1. v = restart[Sys]
        BY <3>3 DEF SysStaysDown, v
      <4> QED
        BY <1>4, <4>1 DEF UpdateInv, SysInv
    <3> QED
      BY <3>1, <3>2, <3>3
  <2> QED
    BY <1>2, <1>4, <1>5, <2>1 DEF SysInv, Ended, v
<1>8. RestartInv' /\ JobShown'
  BY <1>4, <1>5 DEF UpdateInv, RestartInv, JobShown
<1>9. ErrorsInv'
  BY <1>1, <1>4 DEF UpdateInv, ErrorsInv, JobsOf, Ended
<1>10. SysShown'
  BY <1>1, <1>2, <1>4 DEF UpdateInv, SysShown, Ended, v
<1>11. RestartsInOrder' /\ OutcomeHonest'
  <2>1. BuildsBeforeRestarts'
    BY <1>5 DEF BuildsBeforeRestarts, AllBuilt
  <2>2. FailedBuildTouchesNothing'
    BY <1>2, <1>4 DEF UpdateInv, RestartsInOrder, FailedBuildTouchesNothing, v
  <2> QED
    BY <1>2, <1>4, <1>5, <2>1, <2>2 DEF RestartsInOrder, OutcomeHonest, AllRestarted
<1> QED
  BY <1>6, <1>7, <1>8, <1>9, <1>10, <1>11 DEF UpdateInv

\* The outcome is published: all jobs are over, and each error has its service.
LEMMA FinishStep ==
  ASSUME UpdateInv, ReportType', Finish
  PROVE  UpdateInv'
<1> USE JobAssumption DEF Services
<1>1. /\ phase = "finish" /\ phase' = "over"
      /\ outcome' = IF errors = {} /\ ~Thrown THEN "done" ELSE "failed"
      /\ UNCHANGED <<activeBefore, build, restart, svcStep, errors>>
  BY DEF Finish
<1>2. Thrown' = Thrown /\ AllBuilt' = AllBuilt /\ AllRestarted' = AllRestarted
      /\ JobsDone' = JobsDone
  BY <1>1 DEF Thrown, AllBuilt, Built, AllRestarted, Restarted, ToRestart, JobsDone,
              BuildOver
<1>3. PhaseInv' /\ SysInv'
  BY <1>1, <1>2 DEF UpdateInv, PhaseInv, SysInv, Early, Ended
<1>4. RestartInv' /\ JobShown' /\ SysShown' /\ ErrorsInv'
  BY <1>1 DEF UpdateInv, RestartInv, ToRestart, JobShown, SysShown, ErrorsInv, Ended,
              JobsOf
<1>5. RestartsInOrder'
  BY <1>1 DEF UpdateInv, RestartsInOrder, BuildsBeforeRestarts, Built, ToRestart,
              Restarted, FailedBuildTouchesNothing
<1> DEFINE Shows(s) == svcStep[s] = IF s \in activeBefore THEN "restarted" ELSE "built"
<1>6. ASSUME errors = {}, ~Thrown, NEW s \in Tracked
      PROVE  Shows(s)
  <2>1. CASE s \in Jobs
    <3>1. build[RepoOf[s]] = "ok"
      BY <1>1, <1>6, <2>1 DEF UpdateInv, PhaseInv, JobsDone, Ended, AllBuilt, Built, ErrorsInv
    <3>2. CASE s \in activeBefore
      <4>1. Restarted(s) /\ restart[s] # "failed"
        BY <1>1, <1>6, <2>1, <3>1, <3>2
           DEF UpdateInv, PhaseInv, JobsDone, Ended, AllRestarted, ToRestart, ErrorsInv
      <4> QED
        BY <2>1, <3>2, <4>1 DEF UpdateInv, JobShown, Restarted
    <3>3. CASE s \notin activeBefore
      <4>1. restart[s] = "todo"
        BY <2>1, <3>3 DEF UpdateInv, RestartInv, ToRestart
      <4> QED
        BY <2>1, <3>1, <3>3, <4>1 DEF UpdateInv, JobShown
    <3> QED
      BY <3>2, <3>3
  <2>2. CASE s = Sys
    BY <1>1, <1>6, <2>2 DEF UpdateInv, PhaseInv, SysShown, Ended, Tracked
  <2> QED
    BY <1>6, <2>1, <2>2 DEF Tracked
<1>7. ASSUME errors # {}
      PROVE  \E s \in Tracked : svcStep[s] = "failed"
  <2>1. PICK x \in errors : TRUE
    BY <1>7
  <2>2. CASE x = Sys
    BY <2>1, <2>2 DEF UpdateInv, SysInv, SysShown, Tracked
  <2>3. CASE x \in Repos /\ build[x] = "failed" /\ JobsOf(x) # {}
    <3>1. PICK s \in JobsOf(x) : TRUE
      BY <2>3
    <3>2. s \in Tracked /\ svcStep[s] = "failed"
      BY <2>3, <3>1 DEF JobsOf, Tracked, UpdateInv, JobShown
    <3> QED
      BY <3>2
  <2>4. CASE x \in Jobs /\ restart[x] = "failed"
    BY <2>4 DEF Tracked, UpdateInv, JobShown
  <2> QED
    BY <2>1, <2>2, <2>3, <2>4 DEF UpdateInv, ErrorsInv
<1>8. ASSUME Thrown
      PROVE  \E s \in Tracked : ~Shows(s)
  <2>1. CASE \E r \in Repos : build[r] = "lost"
    <3>1. PICK r \in Repos : build[r] = "lost"
      BY <2>1
    <3>2. PICK s \in JobsOf(r) : TRUE
      BY <3>1 DEF UpdateInv, ErrorsInv
    <3>3. s \in Tracked /\ svcStep[s] = "none"
      BY <3>1, <3>2 DEF JobsOf, Tracked, UpdateInv, JobShown
    <3> QED
      BY <3>3
  <2>2. CASE \E s \in Jobs : restart[s] = "lost"
    <3>1. PICK s \in Jobs : restart[s] = "lost"
      BY <2>2
    <3>2. s \in Tracked /\ svcStep[s] = "built" /\ s \in activeBefore
      BY <3>1 DEF Tracked, UpdateInv, JobShown, RestartInv, ToRestart
    <3> QED
      BY <3>2
  <2> QED
    BY <1>8, <2>1, <2>2 DEF Thrown
<1>9. OutcomeHonest'
  <2>1. Tracked' = Tracked /\ (\A s \in Tracked : Shows(s)' <=> Shows(s))
    BY <1>1 DEF Tracked
  <2>2. (outcome' = "done") <=> \A s \in Tracked : Shows(s)
    <3>1. CASE errors = {} /\ ~Thrown
      BY <1>1, <1>6, <3>1
    <3>2. CASE errors # {}
      <4>1. outcome' = "failed"
        BY <1>1, <3>2
      <4> QED
        BY <1>7, <3>2, <4>1
    <3>3. CASE Thrown
      <4>1. outcome' = "failed"
        BY <1>1, <3>3
      <4> QED
        BY <1>8, <3>3, <4>1
    <3> QED
      BY <3>1, <3>2, <3>3
  <2>3. outcome' = "failed" /\ ~Thrown' => \E s \in Tracked : svcStep'[s] = "failed"
    BY <1>1, <1>2, <1>7
  <2> QED
    BY <1>1, <2>2, <2>3 DEF OutcomeHonest
<1> QED
  BY <1>3, <1>4, <1>5, <1>9 DEF UpdateInv

\* What users do, and steps that change nothing, leave the report alone.
LEMMA ReportFrame ==
  ASSUME UpdateInv, UNCHANGED reportVars
  PROVE  UpdateInv'
<1> USE DEF reportVars
<1>1. Thrown' = Thrown /\ AllBuilt' = AllBuilt /\ AllRestarted' = AllRestarted
      /\ JobsDone' = JobsDone
  BY DEF Thrown, AllBuilt, Built, AllRestarted, Restarted, ToRestart, JobsDone, BuildOver
<1>2. ReportType' /\ RestartInv' /\ JobShown' /\ SysShown' /\ ErrorsInv'
  BY DEF UpdateInv, ReportType, RestartInv, ToRestart, JobShown, SysShown, ErrorsInv,
         JobsOf
<1>3. PhaseInv' /\ SysInv'
  BY <1>1 DEF UpdateInv, PhaseInv, SysInv
<1>4. RestartsInOrder' /\ OutcomeHonest'
  BY <1>1 DEF UpdateInv, RestartsInOrder, BuildsBeforeRestarts, Built, ToRestart, Restarted,
              FailedBuildTouchesNothing, OutcomeHonest
<1> QED
  BY <1>2, <1>3, <1>4 DEF UpdateInv

LEMMA UpdateStep == UpdateInv /\ [Next]_vars => UpdateInv'
<1> SUFFICES ASSUME UpdateInv, [Next]_vars PROVE UpdateInv'
  OBVIOUS
<1>1. ReportType'
  BY ReportTypeStep DEF UpdateInv
<1>2. CASE User \/ UNCHANGED vars
  <2>1. UNCHANGED reportVars
    BY <1>2 DEF User, UserStart, UserStop, vars, reportVars
  <2> QED
    BY <2>1, ReportFrame
<1>3. CASE Update
  BY <1>1, <1>3, StartStep, BuildStep, RestartStep, JoinStep, SysStep,
     FinishStep
     DEF Update, Worker, RestartOfJob
<1> QED
  BY <1>2, <1>3 DEF Next

LEMMA UpdateInvAlways == Spec => []UpdateInv
BY InitUpdateInv, UpdateStep, PTL DEF Spec

-----------------------------------------------------------------------------
\* update_pipeline builds everything before it takes a service down, takes none
\* down whose build failed, and restarts system_monitor after all the others,
\* for any services and repositories.
THEOREM OrderAlways == Spec => []RestartsInOrder
<1>1. UpdateInv => RestartsInOrder
  BY DEF UpdateInv
<1> QED
  BY <1>1, UpdateInvAlways, PTL

\* The outcome _finish_update_state publishes is what the service steps show:
\* "done" when each service was built and, if it was active, restarted, and
\* "failed" only with a failed service to show for it.
THEOREM OutcomeAlways == Spec => []OutcomeHonest
<1>1. UpdateInv => OutcomeHonest
  BY DEF UpdateInv
<1> QED
  BY <1>1, UpdateInvAlways, PTL

-----------------------------------------------------------------------------
\* What a service started now would run, and what a restart has left running.
\* After the image of a job was built it stays until the next update.
ImageInv ==
    /\ DOMAIN image = Sources /\ DOMAIN runs = Services
    /\ \A r \in Repos : build[r] = "ok" => image[r] = "new"
    /\ WithSys /\ phase \in {"build", "restart", "sys_restart"} => image[Sys] = "new"
    /\ \A s \in Jobs : restart[s] \in {"stopped", "started", "ready"} =>
         s \in stuck \/ runs[s] \in {"none", "new"}
    /\ phase = "sys_restart" /\ restart[Sys] \in {"started", "ready"} =>
         runs[Sys] \in {"none", "new"}

LEMMA InitImageInv == Init => ImageInv
BY JobAssumption DEF Init, ImageInv, Services, Sources

LEMMA ImageStep ==
  ASSUME UpdateInv, ImageInv, [Next]_vars
  PROVE  ImageInv'
<1> USE JobAssumption DEF Services, Sources
<1>1. CASE ReadActive \/ Begin \/ JoinBuilds \/ JoinRestarts \/ SysStaysDown \/ Finish
            \/ UNCHANGED vars
  BY <1>1 DEF ReadActive, Begin, JoinBuilds, JoinRestarts, SysStaysDown, Finish, vars,
              hostVars, ImageInv, UpdateInv, PhaseInv, SysInv
<1>2. CASE SysSync \/ SysBuilt \/ SysFails
  <2>1. \A r \in Repos : image'[r] = image[r]
    BY <1>2 DEF SysSync, SysBuilt, SysFails, MayLeaveImage, ImageInv
  <2> QED
    BY <1>2, <2>1 DEF SysSync, SysBuilt, SysFails, MayLeaveImage, ImageInv
<1>3. ASSUME NEW r \in Repos, RepoSync(r) \/ RepoBuilt(r) \/ RepoFails(r) \/ BuildLost(r)
      PROVE  ImageInv'
  BY <1>3 DEF RepoSync, RepoBuilt, RepoFails, BuildLost, MayLeaveImage, hostVars, ImageInv,
              UpdateInv, ReportType
<1>4. ASSUME NEW s \in Jobs, RestartOfJob(s)
      PROVE  ImageInv'
  <2>1. image[RepoOf[s]] = "new"
    BY <1>4 DEF RestartOfJob, RestartStop, RestartStart, SawRun, RestartPlain,
                ReportRestarted, RestartFails, RestartLost, UpdateInv, RestartInv,
                ToRestart, ImageInv
  <2>2. phase = "restart" /\ phase' = "restart" /\ s # Sys
    BY <1>4 DEF RestartOfJob, RestartStop, RestartStart, SawRun, RestartPlain,
                ReportRestarted, RestartFails, RestartLost
  <2>3. CASE RestartStop(s) \/ RestartStart(s)
    BY <2>1, <2>2, <2>3 DEF RestartStop, RestartStart, StartService, Up, ImageOf,
                            hostVars, ImageInv, UpdateInv, ReportType
  <2>4. CASE SawRun(s) \/ RestartPlain(s)
    BY <2>1, <2>2, <2>4 DEF SawRun, RestartPlain, hostVars, ImageInv, UpdateInv, ReportType
  <2>5. CASE ReportRestarted(s) \/ RestartFails(s) \/ RestartLost(s)
    BY <2>1, <2>2, <2>5 DEF ReportRestarted, RestartFails, RestartLost, hostVars, ImageInv,
                            UpdateInv, ReportType
  <2> QED
    BY <1>4, <2>3, <2>4, <2>5 DEF RestartOfJob
<1>5. CASE SysRestart \/ SawRun(Sys) \/ SysReport \/ SysRestartFails
  BY <1>5 DEF SysRestart, SawRun, SysReport, SysRestartFails, hostVars, ImageInv, UpdateInv,
              ReportType, PhaseInv
<1>6. ASSUME NEW s \in Services, UserStart(s) \/ UserStop(s) PROVE ImageInv'
  <2>1. s \in Jobs /\ restart[s] \in {"stopped", "started", "ready"}
          => image[ImageOf(s)] = "new"
    BY DEF UpdateInv, RestartInv, ToRestart, ImageInv, ImageOf
  <2>2. phase = "sys_restart" => image[ImageOf(Sys)] = "new"
    BY DEF UpdateInv, PhaseInv, ImageInv, ImageOf
  <2> QED
    BY <1>6, <2>1, <2>2 DEF UserStart, UserStop, StartService, Up, ImageInv
<1> QED
  BY <1>1, <1>2, <1>3, <1>4, <1>5, <1>6 DEF Next, Update, Worker, User, RestartOfJob

\* A service reported as restarted does not run its old image (service_pipeline,
\* _restart_pipeline_job and _restart_sys_monitor_if_active), whatever users
\* start and stop between the steps of its restart and its report, unless
\* neither systemctl stop nor docker rm -f took the old container down.
THEOREM NewAfterRestart == Spec => RestartedRunsNew
<1>1. ASSUME UpdateInv, ImageInv, [Next]_vars, NEW s \in Services,
             svcStep[s] # "restarted", svcStep'[s] = "restarted"
      PROVE  runs'[s] \in {"new", "none"} \/ s \in stuck
  <2> USE JobAssumption DEF Services
  <2>1. CASE s \in Jobs /\ ReportRestarted(s)
    <3>1. restart[s] = "ready" /\ runs' = runs
      BY <2>1 DEF ReportRestarted, hostVars
    <3>2. s \in stuck \/ runs[s] \in {"none", "new"}
      BY <1>1, <2>1, <3>1 DEF ImageInv
    <3> QED
      BY <3>1, <3>2
  <2>2. CASE SysReport
    <3>1. s = Sys
      BY <1>1, <2>2 DEF SysReport, Mark
    <3>2. phase = "sys_restart" /\ restart[Sys] = "ready" /\ runs' = runs
      BY <2>2 DEF SysReport, hostVars
    <3>3. runs[Sys] \in {"none", "new"}
      BY <1>1, <3>2 DEF ImageInv
    <3> QED
      BY <3>1, <3>2, <3>3
  <2>3. (s \in Jobs /\ ReportRestarted(s)) \/ SysReport
    <3>1. ~(UNCHANGED svcStep)
      BY <1>1
    <3>2. ~(User \/ UNCHANGED vars)
      BY <3>1 DEF User, UserStart, UserStop, vars
    <3>3. CASE Worker
      BY <1>1, <3>3 DEF Worker, RepoSync, RepoBuilt, RepoFails, BuildLost, RestartStop,
                        RestartStart, SawRun, RestartPlain, ReportRestarted, RestartFails,
                        RestartLost, Mark
    <3>4. CASE Update /\ ~Worker
      BY <1>1, <3>4 DEF Update, ReadActive, Begin, SysSync, SysBuilt, SysFails, JoinBuilds,
                        JoinRestarts, SysRestart, SawRun, SysReport, SysRestartFails,
                        SysStaysDown, Finish, Mark
    <3> QED
      BY <1>1, <3>2, <3>3, <3>4 DEF Next
  <2> QED
    BY <2>1, <2>2, <2>3
<1>2. UpdateInv /\ ImageInv /\ [Next]_vars =>
        [\A s \in Services : (svcStep[s] # "restarted" /\ svcStep'[s] = "restarted")
            => runs'[s] \in {"new", "none"} \/ s \in stuck]_vars
  BY <1>1
<1>3. UpdateInv /\ ImageInv /\ [Next]_vars => ImageInv'
  BY ImageStep
<1> QED
  BY <1>2, <1>3, InitImageInv, UpdateInvAlways, PTL DEF Spec, RestartedRunsNew

-----------------------------------------------------------------------------
\* system_monitor shows no end of its work before the update ends, and then
\* every service that was active shows how its restart went, unless an exception
\* ended the update.
LastInv ==
    /\ phase \in Early => svcStep[Sys] \in {"none", "busy"}
    /\ phase \in Ended /\ ~Thrown => \A s \in Tracked \cap activeBefore :
         svcStep[s] \in {"restarted", "failed"}

LEMMA InitLastInv == Init => LastInv
BY DEF Init, LastInv, Early, Ended, Services

\* Once the update has only its outcome left to publish, no service step changes.
LEMMA EndedStep ==
  ASSUME phase \in Ended, [Next]_vars
  PROVE  phase' \in Ended /\ UNCHANGED <<svcStep, activeBefore, Thrown>>
<1>1. CASE Finish \/ User \/ UNCHANGED vars
  BY <1>1 DEF Finish, User, UserStart, UserStop, vars, Ended, Thrown
<1>2. ~Worker
  BY DEF Worker, RepoSync, RepoBuilt, RepoFails, BuildLost, RestartStop, RestartStart,
         SawRun, RestartPlain, ReportRestarted, RestartFails, RestartLost, Ended
<1>3. ~(Update /\ ~Finish)
  BY <1>2 DEF Update, ReadActive, Begin, SysSync, SysBuilt, SysFails, JoinBuilds,
              JoinRestarts, SysRestart, SawRun, SysReport, SysRestartFails, SysStaysDown,
              Ended
<1> QED
  BY <1>1, <1>3 DEF Next

\* The jobs' part of LastInv, when _restart_active_pipelines has returned.
LEMMA JobsLast ==
  ASSUME UpdateInv, AllBuilt, AllRestarted, NEW s \in Jobs, s \in activeBefore
  PROVE  svcStep[s] \in {"restarted", "failed"}
<1>1. CASE build[RepoOf[s]] = "ok"
  <2>1. Restarted(s)
    BY <1>1 DEF AllRestarted, ToRestart
  <2> QED
    BY <2>1 DEF UpdateInv, JobShown, Restarted
<1>2. CASE build[RepoOf[s]] = "failed"
  BY <1>2 DEF UpdateInv, JobShown
<1> QED
  BY <1>1, <1>2 DEF AllBuilt, Built

LEMMA LastStep ==
  ASSUME UpdateInv, UpdateInv', LastInv, [Next]_vars
  PROVE  LastInv'
<1> USE JobAssumption DEF Services
<1>1. CASE phase \in Ended
  BY <1>1, EndedStep DEF LastInv, Tracked, Ended, Early
<1>2. CASE ReadActive \/ Begin \/ SysSync \/ SysBuilt \/ SysFails
  BY <1>2 DEF ReadActive, Begin, SysSync, SysBuilt, SysFails, Mark, LastInv, Tracked,
              UpdateInv, ReportType, Early, Ended
<1>3. CASE Worker
  <2>1. phase' \in {"build", "restart"}
    BY <1>3 DEF Worker, RepoSync, RepoBuilt, RepoFails, BuildLost, RestartStop,
                RestartStart, SawRun, RestartPlain, ReportRestarted, RestartFails,
                RestartLost
  <2> QED
    BY <2>1 DEF LastInv, Early, Ended
<1>4. CASE JoinBuilds \/ JoinRestarts
  <2>1. /\ phase' \in {"restart", "sys_restart", "finish"}
        /\ UNCHANGED <<activeBefore, build, restart, svcStep>>
    BY <1>4 DEF JoinBuilds, JoinRestarts
  <2>2. ASSUME phase' = "finish", ~Thrown
        PROVE  AllBuilt /\ AllRestarted /\ Tracked = Jobs
    <3>1. JoinRestarts /\ ~WithSys
      BY <1>4, <2>2 DEF JoinBuilds, JoinRestarts
    <3> QED
      BY <2>2, <3>1 DEF JoinRestarts, UpdateInv, PhaseInv, AllRestarted, RestartOver,
                        Thrown, ToRestart, Tracked
  <2>3. Thrown' = Thrown
    BY <2>1 DEF Thrown
  <2> QED
    BY <2>1, <2>2, <2>3, JobsLast DEF LastInv, Tracked, Early, Ended
<1>5. CASE SysRestart \/ SawRun(Sys)
  <2>1. phase' = "sys_restart"
    BY <1>5 DEF SysRestart, SawRun
  <2> QED
    BY <2>1 DEF LastInv, Early, Ended
<1>6. CASE SysReport \/ SysRestartFails \/ SysStaysDown
  <2>1. AllBuilt /\ AllRestarted /\ phase' = "finish"
    BY <1>6 DEF SysReport, SysRestartFails, SysStaysDown, UpdateInv, PhaseInv
  <2>2. /\ \A s \in Jobs : svcStep'[s] = svcStep[s]
        /\ activeBefore' = activeBefore
        /\ Sys \in activeBefore => svcStep'[Sys] \in {"restarted", "failed"}
    BY <1>6 DEF SysReport, SysRestartFails, SysStaysDown, Mark, UpdateInv, ReportType
  <2> QED
    BY <2>1, <2>2, JobsLast DEF LastInv, Tracked, Early
<1>7. CASE User \/ UNCHANGED vars
  BY <1>7 DEF User, UserStart, UserStop, vars, LastInv, Tracked, Thrown
<1> QED
  BY <1>1, <1>2, <1>3, <1>4, <1>5, <1>6, <1>7 DEF Next, Update, Finish, Ended

LEMMA LastInvAlways == Spec => []LastInv
<1>1. UpdateInv /\ UpdateInv' /\ LastInv /\ [Next]_vars => LastInv'
  BY LastStep
<1> QED
  BY <1>1, InitLastInv, UpdateInvAlways, PTL DEF Spec

-----------------------------------------------------------------------------
\* An answer the edge gave, waiting in the proxy or in the network, that
\* completes system_monitor shows the steps the update ends with.
RepliesInv == \A r \in replies :
    r # FailedReply /\ SysComplete(r) => phase \in Ended /\ r.services = svcStep

ClosedInv ==
    /\ modal = "complete" /\ ~madeUp => phase \in Ended
    /\ ClosedVerdictFinal

\* With the dialog, the update takes the steps it takes without it.
LEMMA DialogOnlyWatches == ModalSpec => Spec
<1>1. ModalInit => Init
  BY DEF ModalInit
<1>2. [ModalNext]_allVars => [Next]_vars
  BY DEF ModalNext, allVars, Open, Forget, Ask, Render, RenderNoEntry
<1> QED
  BY <1>1, <1>2, PTL DEF ModalSpec, Spec

LEMMA InitClosed == ModalInit => RepliesInv /\ ClosedInv
BY DEF ModalInit, RepliesInv, ClosedInv, ClosedVerdictFinal

\* What the edge answers now completes system_monitor only when it is over.
LEMMA EdgeReplyFinal ==
  ASSUME UpdateInv, LastInv, SysComplete(EdgeReply)
  PROVE  phase \in Ended
<1> USE JobAssumption
<1>1. StepOf(EdgeReply, Sys) = svcStep[Sys]
      /\ EdgeReply.step = IF outcome = "none" THEN "working" ELSE outcome
  BY DEF EdgeReply, StepOf, Services
<1>2. CASE outcome # "none"
  BY <1>2 DEF UpdateInv, PhaseInv, Ended
<1>3. CASE svcStep[Sys] \in {"failed", "restarted"}
  BY <1>3 DEF UpdateInv, ReportType, Phases, SysShown, LastInv, Early, Ended
<1> QED
  BY <1>1, <1>2, <1>3 DEF SysComplete, Over

\* What the proxy answers without asking the edge completes nothing but as a failure.
LEMMA NoEntryOpen == ~SysComplete(NoEntry)
BY DEF SysComplete, NoEntry, Over, StepOf

LEMMA RepliesStep ==
  ASSUME UpdateInv, LastInv, RepliesInv, [ModalNext]_allVars
  PROVE  RepliesInv'
<1> USE DEF RepliesInv
<1>2. CASE UNCHANGED replies /\ [Next]_vars
  <2> SUFFICES ASSUME NEW r \in replies, r # FailedReply, SysComplete(r)
               PROVE  phase' \in Ended /\ r.services = svcStep'
    BY <1>2 DEF FailedReply, SysComplete, Over, StepOf
  <2> QED
    BY <1>2, EndedStep
<1>3. CASE Ask
  <2>1. UNCHANGED <<phase, svcStep>>
    BY <1>3 DEF Ask, vars
  <2>2. replies' \subseteq replies \cup {EdgeReply, FailedReply, NoEntry}
    BY <1>3 DEF Ask
  <2>3. EdgeReply.services = svcStep
    BY DEF EdgeReply
  <2> SUFFICES ASSUME NEW r \in replies', r # FailedReply, SysComplete(r)
               PROVE  phase \in Ended /\ r.services = svcStep
    BY <2>1 DEF FailedReply, SysComplete, Over, StepOf
  <2> QED
    BY <2>2, <2>3, EdgeReplyFinal, NoEntryOpen
<1>4. CASE Render \/ RenderNoEntry
  <2>1. replies' \subseteq replies /\ UNCHANGED <<phase, svcStep>>
    BY <1>4 DEF Render, RenderNoEntry, vars
  <2> QED
    BY <2>1 DEF FailedReply, SysComplete, Over, StepOf
<1>5. CASE Open \/ Forget
  BY <1>2, <1>5 DEF Open, Forget
<1> QED
  BY <1>2, <1>3, <1>4, <1>5 DEF ModalNext, allVars, modalVars

LEMMA ClosedStep ==
  ASSUME Sys \in Targets, UpdateInv, LastInv, RepliesInv, ClosedInv,
         [ModalNext]_allVars
  PROVE  ClosedInv'
<1> USE ModalAssumption
<1>1. CASE UNCHANGED modalVars /\ [Next]_vars
  BY <1>1, EndedStep DEF modalVars, ClosedInv, ClosedVerdictFinal
<1>2. CASE Open \/ Forget \/ Ask \/ RenderNoEntry
  <2>1. /\ modal' = "complete" => modal = "complete"
        /\ UNCHANGED <<vars, shown, madeUp>>
    BY <1>2 DEF Open, Forget, Ask, RenderNoEntry
  <2>2. Thrown' = Thrown
    BY <2>1 DEF vars, Thrown
  <2> QED
    BY <2>1, <2>2 DEF vars, ClosedInv, ClosedVerdictFinal
<1>3. CASE Render
  <2>1. PICK r \in replies \ {NoEntry} :
          /\ IF Complete(r)
             THEN /\ modal' = "complete"
                  /\ shown' = [s \in Targets |-> Verdict(r, s)]
                  /\ madeUp' = (r = FailedReply)
             ELSE UNCHANGED <<modal, shown, madeUp>>
          /\ UNCHANGED vars
    BY <1>3 DEF Render
  <2>2. UNCHANGED <<phase, svcStep, activeBefore>> /\ Thrown' = Thrown
    BY <2>1 DEF vars, Thrown
  <2>3. CASE ~Complete(r)
    BY <2>1, <2>2, <2>3 DEF ClosedInv, ClosedVerdictFinal
  <2>4. CASE Complete(r)
    <3> SUFFICES ASSUME r # FailedReply
                 PROVE  /\ phase \in Ended
                        /\ \A s \in Targets \cap Services :
                             /\ Verdict(r, s) = "ok" => svcStep[s] # "failed"
                             /\ Verdict(r, s) = "failed" => svcStep[s] = "failed"
                             /\ s \in activeBefore /\ Verdict(r, s) = "ok" =>
                                  svcStep[s] = "restarted" \/ Thrown
      BY <2>1, <2>2, <2>4 DEF ClosedInv, ClosedVerdictFinal
    <3>1. SysComplete(r)
      BY <2>4 DEF Complete, SysComplete, Terminal
    <3>2. phase \in Ended /\ r.services = svcStep
      BY <3>1 DEF RepliesInv
    <3>3. activeBefore \subseteq Tracked
      BY DEF UpdateInv, ReportType
    <3> QED
      BY <3>2, <3>3 DEF Verdict, StepOf, LastInv
  <2> QED
    BY <2>3, <2>4
<1> QED
  BY <1>1, <1>2, <1>3 DEF ModalNext, allVars

\* isUpdateModalComplete may report only what the update cannot change any
\* more, when system_monitor is among the targets: a target shown as updated
\* does not fail later and, if it was active, has been restarted, and one shown
\* as failed has failed, however late and in whatever order the answers came,
\* and whichever of them the proxy gave without the edge.
THEOREM VerdictFinal == Sys \in Targets => (ModalSpec => []ClosedVerdictFinal)
<1> SUFFICES ASSUME Sys \in Targets PROVE ModalSpec => []ClosedVerdictFinal
  OBVIOUS
<1>1. UpdateInv /\ LastInv /\ RepliesInv /\ ClosedInv /\ [ModalNext]_allVars
        => RepliesInv' /\ ClosedInv'
  BY RepliesStep, ClosedStep
<1>2. ClosedInv => ClosedVerdictFinal
  BY DEF ClosedInv
<1> QED
  BY <1>1, <1>2, InitClosed, DialogOnlyWatches, UpdateInvAlways, LastInvAlways, PTL
     DEF ModalSpec
=============================================================================
