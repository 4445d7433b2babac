--------------------------- MODULE PipelineUpdate ---------------------------
(***************************************************************************)
(* One run of update_pipeline on an edge host (app.py): read which         *)
(* services are active, build system_monitor, build every repository in    *)
(* parallel, restart in parallel the services that were active, restart    *)
(* system_monitor last, publish the outcome.  Each step can fail, a step   *)
(* outside the inner try blocks ends the update through the outer except,  *)
(* and users start and stop services meanwhile through other commands.     *)
(***************************************************************************)
EXTENDS Naturals

CONSTANTS Jobs,          \* the services of the command's pipeline jobs
          Repos,         \* the repositories (eg_pipeline_path) they are built from
          RepoOf,        \* the repository of each job
          Sys,           \* the system_monitor service
          Plain,         \* the jobs without server_id, and the Kafka services
          WithSys,       \* whether the command carries a sys_monitor_path
          UserActs,      \* whether services are started and stopped meanwhile
          StopMayFail    \* whether systemctl stop and docker rm -f can both fail

ASSUME JobAssumption ==
    /\ RepoOf \in [Jobs -> Repos]
    /\ Plain \subseteq Jobs
    /\ Sys \notin Jobs /\ Sys \notin Repos
    /\ {WithSys, UserActs, StopMayFail} \subseteq BOOLEAN
    /\ WithSys \/ Jobs # {}      \* else update_pipeline raises: EdgeUpdate

VARIABLES phase,         \* where update_pipeline is
          image,         \* the image a service started now would run
          runs,          \* the image each service runs, "none" if it is down
          activeBefore,  \* active_before and sys_monitor_was_active
          build,         \* the build of each repository
          restart,       \* the restart of each job and of system_monitor
          stuck,         \* history: the services whose old container a
                         \* restart could neither stop nor remove
          svcStep,       \* _update_state["service_steps"]
          errors,        \* the list of errors, as the set of what failed
          outcome        \* the step _finish_update_state publishes

hostVars == <<image, runs, stuck>>
vars == <<phase, hostVars, activeBefore, build, restart, svcStep, errors,
          outcome>>

Services == Jobs \cup {Sys}
Tracked == IF WithSys THEN Services ELSE Jobs     \* tracked_services
Sources == Repos \cup {Sys}
ImageOf(s) == IF s = Sys THEN Sys ELSE RepoOf[s]

Phases == {"preamble", "starting", "sys_git", "sys_build", "build",
           "restart", "sys_restart", "finish", "over"}

\* "built" and "restarted" both have the step "done"; their labels differ.
SvcSteps == {"none", "busy", "built", "restarted", "failed"}

RestartSteps == {"todo", "stopped", "started", "ready", "ok", "failed", "lost"}

Init ==
    /\ phase = "preamble"
    /\ image = [x \in Sources |-> "old"]
    /\ runs \in [Services -> {"none", "old"}]
    /\ activeBefore = {}
    /\ build = [r \in Repos |-> "todo"]
    /\ restart = [s \in Services |-> "todo"]
    /\ stuck = {}
    /\ svcStep = [s \in Services |-> "none"]
    /\ errors = {}
    /\ outcome = "none"

Up(s) == runs[s] # "none"

Mark(S, v) == svcStep' = [s \in Services |-> IF s \in S THEN v ELSE svcStep[s]]

JobsOf(r) == {s \in Jobs : RepoOf[s] = r}

-----------------------------------------------------------------------------
(***************************************************************************)
(* The preamble and system_monitor's build.                                *)
(***************************************************************************)

\* _active_pipeline_service_names and _is_service_active: read once, here.
ReadActive ==
    /\ phase = "preamble"
    /\ activeBefore' = {s \in Tracked : Up(s)}
    /\ phase' = "starting"
    /\ UNCHANGED <<hostVars, build, restart, svcStep, errors, outcome>>

\* _begin_update_state clears the steps of the previous update.
Begin ==
    /\ phase = "starting"
    /\ svcStep' = [s \in Services |-> IF WithSys /\ s = Sys THEN "busy" ELSE "none"]
    /\ phase' = IF WithSys THEN "sys_git" ELSE "build"
    /\ UNCHANGED <<hostVars, activeBefore, build, restart, errors, outcome>>

\* _build_sys_monitor, first half: the sources are synchronised, and the old
\* images are removed before the build (a failed removal is only printed).
SysSync ==
    /\ phase = "sys_git"
    /\ \E left \in {"old", "gone"} : image' = [image EXCEPT ![Sys] = left]
    /\ phase' = "sys_build"
    /\ UNCHANGED <<runs, stuck, activeBefore, build, restart, svcStep, errors, outcome>>

\* _build_sys_monitor, second half: the build ran and the images are verified.
SysBuilt ==
    /\ phase = "sys_build"
    /\ image' = [image EXCEPT ![Sys] = "new"]
    /\ Mark({Sys}, "built")
    /\ phase' = "build"
    /\ UNCHANGED <<runs, stuck, activeBefore, build, restart, errors, outcome>>

\* Git, the build or the verification raised: no pipeline is built, and every
\* job is marked as failed ("skipped").  A build that fails its verification
\* may have made the image.
MayLeaveImage(x, built) ==
    \E left \in {image[x], IF built THEN "new" ELSE image[x]} :
        image' = [image EXCEPT ![x] = left]

SysFails ==
    /\ phase \in {"sys_git", "sys_build"}
    /\ MayLeaveImage(Sys, phase = "sys_build")
    /\ errors' = errors \cup {Sys}
    /\ Mark(Services, "failed")
    /\ phase' = "finish"
    /\ UNCHANGED <<runs, stuck, activeBefore, build, restart, outcome>>

-----------------------------------------------------------------------------
(***************************************************************************)
(* The builds, one thread per repository, and the restarts, one thread per *)
(* service that was active and whose repository was built.                 *)
(***************************************************************************)

\* _git_sync_repo for the repository's jobs.
RepoSync(r) ==
    /\ phase = "build"
    /\ JobsOf(r) # {}
    /\ build[r] = "todo"
    /\ build' = [build EXCEPT ![r] = "synced"]
    /\ Mark(JobsOf(r), "busy")
    /\ UNCHANGED <<phase, hostVars, activeBefore, restart, errors, outcome>>

\* docker build and the verification of the images.
RepoBuilt(r) ==
    /\ phase = "build"
    /\ build[r] = "synced"
    /\ build' = [build EXCEPT ![r] = "ok"]
    /\ image' = [image EXCEPT ![r] = "new"]
    /\ Mark(JobsOf(r), "built")
    /\ UNCHANGED <<phase, runs, stuck, activeBefore, restart, errors, outcome>>

\* _try_build_repo_for_jobs: the jobs of a failed repository are marked, the
\* other repositories go on.  A build that fails its verification may have
\* replaced the image.
RepoFails(r) ==
    /\ phase = "build"
    /\ JobsOf(r) # {}
    /\ build[r] \in {"todo", "synced"}
    /\ build' = [build EXCEPT ![r] = "failed"]
    /\ MayLeaveImage(r, build[r] = "synced")
    /\ errors' = errors \cup {r}
    /\ Mark(JobsOf(r), "failed")
    /\ UNCHANGED <<phase, runs, stuck, activeBefore, restart, outcome>>

\* build_one raised outside _try_build_repo_for_jobs, in _git_ref_for_repo, or
\* no thread could be started for it: the build of r never begins.
BuildLost(r) ==
    /\ phase = "build"
    /\ JobsOf(r) # {}
    /\ build[r] = "todo"
    /\ build' = [build EXCEPT ![r] = "lost"]
    /\ UNCHANGED <<phase, hostVars, activeBefore, restart, svcStep, errors, outcome>>

Built(r) == build[r] \in {"ok", "failed"}
BuildOver(r) == Built(r) \/ build[r] = "lost"

\* An exception that only the outer except of update_pipeline catches.
Thrown == \/ \E r \in Repos : build[r] = "lost"
          \/ \E s \in Jobs : restart[s] = "lost"

ToRestart == {s \in Jobs : build[RepoOf[s]] = "ok" /\ s \in activeBefore}

\* _build_pipeline_jobs waits for every repository, also to raise.
JoinBuilds ==
    /\ phase = "build"
    /\ \A s \in Jobs : BuildOver(RepoOf[s])
    /\ phase' = IF Thrown THEN "finish" ELSE "restart"
    /\ UNCHANGED <<hostVars, activeBefore, build, restart, svcStep, errors, outcome>>

\* service_pipeline("restart") of a service with a container of its own, first
\* half: systemctl stop, docker rm -f and the wait for the container to go;
\* failures of these are only printed.
RestartStop(s) ==
    /\ phase = "restart"
    /\ s \in ToRestart \ Plain
    /\ restart[s] = "todo"
    /\ restart' = [restart EXCEPT ![s] = "stopped"]
    /\ \/ runs' = [runs EXCEPT ![s] = "none"] /\ UNCHANGED stuck
       \/ StopMayFail /\ Up(s) /\ stuck' = stuck \cup {s} /\ UNCHANGED runs
    /\ Mark({s}, "busy")
    /\ UNCHANGED <<phase, image, activeBefore, build, errors, outcome>>

\* systemctl start, which does nothing for a service that runs.
StartService(s) ==
    runs' = IF Up(s) THEN runs ELSE [runs EXCEPT ![s] = image[ImageOf(s)]]

\* Variant: the old container is started again.
RestartStart_OldImage(s) ==
    /\ phase = "restart"
    /\ restart[s] = "stopped"
    /\ restart' = [restart EXCEPT ![s] = "started"]
    /\ runs' = [runs EXCEPT ![s] = "old"]
    /\ UNCHANGED <<phase, image, stuck, activeBefore, build, svcStep, errors, outcome>>

RestartStart(s) ==
    /\ phase = "restart"
    /\ restart[s] = "stopped"
    /\ restart' = [restart EXCEPT ![s] = "started"]
    /\ StartService(s)
    /\ UNCHANGED <<phase, image, stuck, activeBefore, build, svcStep, errors, outcome>>

\* _wait_for_pipeline_ready, and _wait_for_service_active for system_monitor,
\* saw the service run.
SawRun(s) ==
    /\ phase = IF s = Sys THEN "sys_restart" ELSE "restart"
    /\ restart[s] = "started"
    /\ Up(s)
    /\ restart' = [restart EXCEPT ![s] = "ready"]
    /\ UNCHANGED <<phase, hostVars, activeBefore, build, svcStep, errors, outcome>>

\* service_pipeline("restart") of the other services: one systemctl restart,
\* whose return code is all that is asked.
RestartPlain(s) ==
    /\ phase = "restart"
    /\ s \in ToRestart \cap Plain
    /\ restart[s] = "todo"
    /\ restart' = [restart EXCEPT ![s] = "ready"]
    /\ runs' = [runs EXCEPT ![s] = image[RepoOf[s]]]
    /\ Mark({s}, "busy")
    /\ UNCHANGED <<phase, image, stuck, activeBefore, build, errors, outcome>>

\* _mark_service_step_done, whatever has become of the service by now.
ReportRestarted(s) ==
    /\ phase = "restart"
    /\ restart[s] = "ready"
    /\ restart' = [restart EXCEPT ![s] = "ok"]
    /\ Mark({s}, "restarted")
    /\ UNCHANGED <<phase, hostVars, activeBefore, build, errors, outcome>>

\* docker did not answer, a systemctl failed, or the wait timed out:
\* _try_restart_pipeline_job marks the service.  A systemctl restart that
\* failed may have done either half of it.
RestartFails(s) ==
    /\ phase = "restart"
    /\ s \in ToRestart
    /\ restart[s] \in {"todo", "stopped", "started"}
    /\ restart' = [restart EXCEPT ![s] = "failed"]
    /\ \E x \in IF s \in Plain THEN {runs[s], "none", image[RepoOf[s]]} ELSE {runs[s]} :
          runs' = [runs EXCEPT ![s] = x]
    /\ errors' = errors \cup {s}
    /\ Mark({s}, "failed")
    /\ UNCHANGED <<phase, image, stuck, activeBefore, build, outcome>>

\* No thread could be started for the restart of s: the executor raises when
\* the others are over.  A single restart needs no thread.
RestartLost(s) ==
    /\ phase = "restart"
    /\ s \in ToRestart /\ ToRestart # {s}
    /\ restart[s] = "todo"
    /\ restart' = [restart EXCEPT ![s] = "lost"]
    /\ UNCHANGED <<phase, hostVars, activeBefore, build, svcStep, errors, outcome>>

Restarted(s) == restart[s] \in {"ok", "failed"}
RestartOver(s) == Restarted(s) \/ restart[s] = "lost"

\* Variant: the restarts are not joined.
JoinRestarts_NoWait ==
    /\ phase = "restart"
    /\ phase' = IF WithSys /\ ~Thrown THEN "sys_restart" ELSE "finish"
    /\ UNCHANGED <<hostVars, activeBefore, build, restart, svcStep, errors, outcome>>

\* Variant: waits for services that are not restarted.
JoinRestarts_AllJobs ==
    /\ phase = "restart"
    /\ \A s \in Jobs : RestartOver(s)
    /\ phase' = IF WithSys /\ ~Thrown THEN "sys_restart" ELSE "finish"
    /\ UNCHANGED <<hostVars, activeBefore, build, restart, svcStep, errors, outcome>>

\* _restart_active_pipelines waits for every restart, also to raise; then
\* system_monitor is not restarted.
JoinRestarts ==
    /\ phase = "restart"
    /\ \A s \in ToRestart : RestartOver(s)
    /\ phase' = IF WithSys /\ ~Thrown THEN "sys_restart" ELSE "finish"
    /\ UNCHANGED <<hostVars, activeBefore, build, restart, svcStep, errors, outcome>>

\* _restart_sys_monitor_if_active: systemctl restart, the wait (SawRun) and the
\* mark; or nothing.
SysRestart ==
    /\ phase = "sys_restart"
    /\ Sys \in activeBefore
    /\ restart[Sys] = "todo"
    /\ restart' = [restart EXCEPT ![Sys] = "started"]
    /\ runs' = [runs EXCEPT ![Sys] = image[Sys]]
    /\ Mark({Sys}, "busy")
    /\ UNCHANGED <<phase, image, stuck, activeBefore, build, errors, outcome>>

SysReport ==
    /\ phase = "sys_restart"
    /\ restart[Sys] = "ready"
    /\ restart' = [restart EXCEPT ![Sys] = "ok"]
    /\ Mark({Sys}, "restarted")
    /\ phase' = "finish"
    /\ UNCHANGED <<hostVars, activeBefore, build, errors, outcome>>

\* The command failed, and the service may run or not, or the wait timed out.
SysRestartFails ==
    /\ phase = "sys_restart"
    /\ Sys \in activeBefore
    /\ restart[Sys] \in {"todo", "started"}
    /\ restart' = [restart EXCEPT ![Sys] = "failed"]
    /\ \E x \in IF restart[Sys] = "todo" THEN {"none", runs[Sys], image[Sys]}
                 ELSE {runs[Sys]} :
          runs' = [runs EXCEPT ![Sys] = x]
    /\ errors' = errors \cup {Sys}
    /\ Mark({Sys}, "failed")
    /\ phase' = "finish"
    /\ UNCHANGED <<image, stuck, activeBefore, build, outcome>>

SysStaysDown ==
    /\ phase = "sys_restart"
    /\ Sys \notin activeBefore
    /\ phase' = "finish"
    /\ UNCHANGED <<hostVars, activeBefore, build, restart, svcStep, errors, outcome>>

\* Variant: the outer except only prints the exception.
Finish_IgnoresThrown ==
    /\ phase = "finish"
    /\ outcome' = IF errors = {} THEN "done" ELSE "failed"
    /\ phase' = "over"
    /\ UNCHANGED <<hostVars, activeBefore, build, restart, svcStep, errors>>

\* The outer except, which adds what was thrown to the errors, and the finally
\* of update_pipeline: _finish_update_state(not errors, ...).
Finish ==
    /\ phase = "finish"
    /\ outcome' = IF errors = {} /\ ~Thrown THEN "done" ELSE "failed"
    /\ phase' = "over"
    /\ UNCHANGED <<hostVars, activeBefore, build, restart, svcStep, errors>>

-----------------------------------------------------------------------------
(***************************************************************************)
(* Service commands of users, and crashes, at any time.                    *)
(***************************************************************************)
UserStart(s) ==
    /\ UserActs
    /\ ~Up(s) /\ image[ImageOf(s)] # "gone"
    /\ StartService(s)
    /\ UNCHANGED <<phase, image, stuck, activeBefore, build, restart, svcStep, errors, outcome>>

UserStop(s) ==
    /\ UserActs
    /\ Up(s)
    /\ runs' = [runs EXCEPT ![s] = "none"]
    /\ UNCHANGED <<phase, image, stuck, activeBefore, build, restart, svcStep, errors, outcome>>

-----------------------------------------------------------------------------
Worker ==
    \/ \E r \in Repos : RepoSync(r) \/ RepoBuilt(r) \/ RepoFails(r) \/ BuildLost(r)
    \/ \E s \in Jobs : \/ RestartStop(s) \/ RestartStart(s) \/ SawRun(s)
                       \/ RestartPlain(s) \/ ReportRestarted(s)
                       \/ RestartFails(s) \/ RestartLost(s)

Update ==
    \/ ReadActive \/ Begin \/ SysSync \/ SysBuilt \/ SysFails
    \/ JoinBuilds \/ JoinRestarts
    \/ SysRestart \/ SawRun(Sys) \/ SysReport \/ SysRestartFails \/ SysStaysDown
    \/ Finish
    \/ Worker

User == \E s \in Services : UserStart(s) \/ UserStop(s)

Next == Update \/ User

Spec == Init /\ [][Next]_vars

\* The commands of an update end, and its waits have timeouts.
FairSpec == Spec /\ WF_vars(Update)

-----------------------------------------------------------------------------
TypeOK ==
    /\ phase \in Phases
    /\ image \in [Sources -> {"old", "new", "gone"}]
    /\ runs \in [Services -> {"none", "old", "new"}]
    /\ activeBefore \subseteq Services
    /\ build \in [Repos -> {"todo", "synced", "ok", "failed", "lost"}]
    /\ restart \in [Services -> RestartSteps]
    /\ stuck \subseteq Jobs
    /\ svcStep \in [Services -> SvcSteps]
    /\ errors \subseteq Services \cup Sources
    /\ outcome \in {"none", "done", "failed"}

\* "Build all pipeline repos first": no service is taken down for the update
\* while a repository can still fail or is still being built.
BuildsBeforeRestarts ==
    \A s \in Jobs : restart[s] # "todo" => \A j \in Jobs : Built(RepoOf[j])

\* A failed build costs no service: what was not built goes on running from
\* its old container, and after system_monitor failed nothing is touched.
FailedBuildTouchesNothing ==
    /\ \A s \in Jobs : build[RepoOf[s]] = "failed" => restart[s] = "todo"
    /\ Sys \in errors /\ restart[Sys] = "todo"
         => \A s \in Jobs : build[RepoOf[s]] = "todo" /\ restart[s] = "todo"

\* The order of an update: builds before restarts, nothing down for a build
\* that failed, and system_monitor after every pipeline that had to restart, so
\* that it monitors the services that were just replaced.
RestartsInOrder ==
    /\ BuildsBeforeRestarts
    /\ FailedBuildTouchesNothing
    /\ restart[Sys] # "todo" => \A s \in ToRestart : Restarted(s)

\* The outcome is what the service steps say: "done" is published exactly when
\* every service of the command was built and, if it ran before, restarted.
\* One that is "failed" has a service that shows why, unless an exception went
\* past the inner try blocks: then nothing of what was lost shows as restarted.
OutcomeHonest ==
    outcome # "none" =>
        /\ outcome = "done" <=> \A s \in Tracked :
               svcStep[s] = IF s \in activeBefore THEN "restarted" ELSE "built"
        /\ outcome = "failed" /\ ~Thrown => \E s \in Tracked : svcStep[s] = "failed"

\* A service reported as restarted does not run its old image: what was started
\* since the stop came from the image just built, whatever users start and stop
\* between the steps of the restart, also between the wait and the report.  The
\* exception is an old container that neither systemctl stop nor docker rm -f
\* took down, which the code prints and then reports as restarted.
RestartedRunsNew ==
    [][\A s \in Services : (svcStep[s] # "restarted" /\ svcStep'[s] = "restarted")
          => runs'[s] \in {"new", "none"} \/ s \in stuck]_vars

\* Whatever fails and whatever users do, the update ends.
UpdateEnds == <>(outcome # "none")
=============================================================================
