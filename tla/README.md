# A verification of server_command

server_command operates a fleet of edge hosts that run camera pipelines in
docker containers under systemd. A person at a web page sees the status of every
pipeline, starts, stops and restarts services, and updates the software of the
hosts. This directory holds TLA+ models of the parts in which several threads,
processes or machines share state, TLC configurations that check them, and TLAPS
proofs of the invariants and refinements that matter most.

    tlc -workers 2 -config EdgeUpdate.cfg MCEdgeUpdate     # one run
    tlapm EdgeHostProofs.tla                               # the proofs (any *Proofs.tla)

`PROJECT.json` says for every definition which lines of the source it models,
and lists the runs, the hazards and what was found.

## 1. The system

Three programs talk to each other:

    browser (index.js) --HTTP--> proxy (proxy_server.py) --POST /command--> edge agent (app.py), one per host

| Component | State it keeps | Operations | Talks to |
|---|---|---|---|
| **edge update slot** (`app.py`) | `_update_state` (running, step, error, steps of the services), `_update_pruning`, both under `_update_lock` | `start_update_pipeline`, the thread that runs `update_pipeline`, the prune thread, `get_update_status` | proxy, by commands |
| **edge update work** (`app.py`) | docker images, git checkouts, the services of systemd | read the active services, build system_monitor, build each repository, restart each service, restart system_monitor | git, docker, systemctl |
| **edge service control** (`app.py`) | the services of systemd | `service_pipeline`: start, stop, restart, status | systemctl, docker |
| **edge probe caches** (`app.py`) | results of stream, camera and docker-stats probes with the time they were made | probe, read, invalidate | RTSP, HTTP, docker |
| **edge status probes** (`app.py`) | none of its own | probe all services in a thread pool with a deadline | probe caches |
| **edge git synchronisation** (`app.py`) | working tree, stash, submodules | fetch, stash, pull, pop, recover | git |
| **status collector** (`proxy_server.py`) | `img_n_status` (the map the page shows), the generation and its flags under `_collect_lock` | collect, force a refresh, wipe | edges; pages read the map |
| **update watch** (`proxy_server.py`) | `_update_watch` under its lock | enter hosts, ask them, drop finished ones | edges; update dialogs |
| **service jobs** (`proxy_server.py`) | `_service_jobs` under its lock | submit, run, enter results, finalise, prune | edges; service dialogs |
| **central version cache** (`proxy_server.py`, `git_versions.py`) | latest version of each central repository, with its age | read, refresh | git |
| **address edits** and **servers.json synchronisation** (`proxy_server.py`, `pipeline_ip.py`, `sync_servers_json.py`) | `servers.json` | read, change, write | S3 |
| **host power** (`proxy_server.py`, `app.py`) | none | reboot and shut down, own host last | edges |
| **status and kind rules** (`servers_cfg.py`) | none | pure functions from answers to rows | collector, agent |
| **update dialog**, **service dialog** (`index.js`) | the job or targets polled, what is shown | send, poll, render, stop | proxy |
| **unit renaming** (`rename_systemd_services.py`) | systemd units | stop, rename, enable, start | systemctl |
| deployment, host setup, command line clients, camera and drift images, the page itself | none, or files on disk | sequential scripts, streaming, layout | |

### What is hard about it

* Flask runs every request on a thread of its own, in the agent and in the proxy.
  The locks cover short sections; the work between them (docker, git, HTTP) does
  not hold them, so what was read before is used after.
* A request to an edge can fail although the edge did what it was asked.
* The page polls once a second without waiting for the previous answer, and
  callbacks use the page's current state, not that of the time they were sent.
* An update takes many minutes; users start and stop services, edit addresses and
  force refreshes meanwhile, and each of its steps can fail on its own.
* The state of the agent and of the proxy is in memory: a restart loses it.

`PROJECT.json`, "hazards", lists these at their lines.

### What makes each component correct

* *Update slot*: one update at a time; a status command never reads an outcome of
  a running update; the slot and the prune flag become free again; an outcome
  stays until the next update; every command is answered.
* *Update work*: nothing is restarted before everything is built; a failed build
  costs no running service; system_monitor comes last; the outcome says what
  happened; the update ends.
* *Update dialog*: what it shows when it closes is final; it closes in the end.
* *Collector*: "ready" means that every host was asked after the last forced
  refresh; a forced refresh is honoured; versions survive wipes; "updating in the
  background" is said only over a complete map.
* *Update watch*: an entry outlives its update; entries are dropped in the end.
* *Service jobs and their dialog*: a job is kept while it runs; the table is
  bounded; each service has one final result; what a dialog reports is over, and it
  comes to an end.
* *Git synchronisation*: what is built is as new as the origin was; stashes of the
  user are left alone; edits in submodules survive failures and restarts.
* *Status rows*: both sides come to the same status for the same row; the status
  of system_monitor agrees with its peers; a stopped service is shown as one.
* *Probe caches and batches*: a row is never older than the cache interval; an
  error has a cause; each request is answered.
* *servers.json*: what a site has set itself survives a synchronisation; the proxy
  asks the addresses that the file names.
* *Unit renaming*: whatever a killed run leaves, the next one finds every unit
  file; no file is overwritten; a run that ends leaves one enabled unit per server.

## 2. The modules

| Module | Models | Relation |
|---|---|---|
| `UpdateSlot` | what the agent promises about updates: one slot, taken in turn | abstract |
| `EdgeUpdate` | the slot of the agent with threads, lock and prune | implements `UpdateSlot` |
| `*Proofs` | the proofs about the modules in front of the name, section 4 | each extends its modules; `PipelineUpdateProofs` covers `UpdateModal` too, `ServiceJobsProofs` covers `ServiceDialog`; `EdgeHostProofs` is about `EdgeUpdate` and `RenameUnits`, `StatusProofs` about `EdgeProbes` and `StatusRows` |
| `PipelineUpdate` | the work of one update on one host | one `Begin` .. `Finish` of `EdgeUpdate` in detail |
| `UpdateModal` | the update dialog over `PipelineUpdate`, with the proxy between | extends it |
| `Collector` | the status collector and forced refreshes | |
| `UpdateWatch` | the watch, with the agents as seen by the proxy | |
| `JobLifecycle` | what the proxy promises about a service job | abstract |
| `ServiceJobs` | the job table and its threads | implements `JobLifecycle` |
| `ServiceDialog` | one tab that sends and polls jobs | extends `ServiceJobs` |
| `GitSync` | the synchronisation of a repository and its submodules | the git steps of `PipelineUpdate` in detail |
| `StatusRows` | how a row of the status map comes about | what `Collector` applies, in detail |
| `EdgeProbes` | status requests, the worker pool and the probe caches | |
| `ServersFile` | servers.json with those who write it | |
| `RenameUnits` | the renaming of systemd units | |
| `MC...` | the instances that are checked | |

Operators called `X_Something` before a definition `X` are variants of it with a
plausible mistake. Each property is checked against one of them, to know that the
property notices. `TypeOK` in each module documents its variables; those
of `EdgeUpdate`, `ServiceJobs`, `UpdateWatch`, `ServersFile` and `StatusRows` are proved (the
last within `MapInv`), the others are checked while a module is changed and are not
among the properties of the runs. In `StatusRows` and `RenameUnits` the names of the
specification carry the module's (`RowsSpec`, `RenameSpec`), so that a proof module
can extend them beside another one.

### EdgeUpdate

Each `with _update_lock` section is one action guarded by `Free` (the lock has no
owner); the code between sections is where other threads take their steps.
`upd[i]` is the place of the i-th update command: "sent", "busy" (refused),
"marked" (`_mark_update_preparing` was called), "thread" (in the preamble of
`update_pipeline`), "working", "finished" (outcome published), "over". `running`
and `step` are the fields of `_update_state`; `step` is cut down to "idle",
"starting", "working" and the two outcomes.

With `MayRaise` an exception can leave `update_pipeline`: before its own `try`
(no job in the command, `docker ps` timing out), or from the start of the prune
thread; and the thread of the update itself may fail to start (`StartThreadFails`),
which leaves the slot taken ("stranded") for ever. `HandleException` is the handler in `_run`. It takes `_update_lock` and,
if an update is marked as running, calls `_finish_update_state`, which takes the
same lock; `threading.Lock` cannot be taken twice by its owner, so the action
leaves the lock with the thread for ever.

### PipelineUpdate

`phase` is the place in `update_pipeline`; `build[r]` and `restart[s]` are the
places of the worker threads for repositories and services. The host is `image`
(the image a start would use) and `runs` (the image each service runs, "none" if
it is down). A start of a running service does nothing, as with systemctl. The steps of a
restart (stop and `docker rm`, start, the wait for the container, the mark of the
step) are actions of their own; services without a server ID and Kafka services
(`Plain`) have one `systemctl restart` in place of the first three. `UserStart` and `UserStop` are the commands of users
(and crashes) at any time. A failed build may leave the old image or none, since
the old images are removed first, or the new one when only the verification
failed. `stuck` is history: the services whose stop and `docker rm -f` both
failed, which the code prints and ignores. An exception past the inner `try`
blocks (a ref that is not a string, a thread that cannot be started) loses a build or
a restart ("lost"); the executor raises it when the other threads are over, and the
outer `except` ends the update as failed without marking a service. Git is one step: it succeeds or raises;
`GitSync` has the commands of it.

### UpdateModal

The dialog opens at any moment of an update, and also over one that is finished
while its images are pruned, since the edge answers "Busy" then. `Ask` is one poll at
the moment it is answered: by the edge (`EdgeReply`), by the proxy for an edge it
could not reach (`FailedReply`, step "failed" without services), or without an entry
for the host (`NoEntry`) once it has left the watch or the list (`Forget`); such an
answer changes nothing on the page. Answers lie in `replies` and are rendered in any order; at most
`MaxPolls` are on their way. `Verdict`, `Terminal`, `SysComplete` and `Complete`
are `pipelineUpdateEntry`, `pipelineUpdateTerminal`, `sysMonitorUpdateComplete`
and `isUpdateModalComplete` for one host.

### Collector

`rows` is `img_n_status`: a status, and as history the generation in which the
host observed it. `versions` are the rows with version fields; `known`, history,
are those that had them when they were last saved, or that got them since outside
of a forced wipe. `at` is the place of the collector thread. A wipe
is three steps (save, bind a fresh map, put back); what it saves are the versions
and the rows whose probe metrics are complete (`chips`: rows of drift, Kafka and PLC-CV
services), which come back with their status and look finished. In a forced
refresh they happen under `_collect_lock`, in the collector without it. The edges
answer on their own (`EdgeAnswers`), the collector applies answers one by one and
looks for a cancellation before each await, not after it. `viewers` changes at
any time. An answer may be full, without the metrics of the chips, or, for a camera
drift, half: then the row stays PENDING unless older metrics are kept
(`HasChips`). An exception out of `run_collect` is not modelled.

### UpdateWatch

An agent is what the proxy sees of it: idle, working or over, and how many updates
it was given (`run`, history). `aged` tells which updates ended 45 seconds ago or
earlier. A status request copies the watch, asks its hosts, and drops entries from
the watch as it is when the last answer came. `since` is history: which update an
entry was made for. Failing requests, restarts of agents and edits of addresses
are actions that constants switch on. An edge that is through with an update and
still prunes answers "Busy" and does not start another (`EdgeTakes`).

A second update request (`Posts`) can enter a host that is still watched anew:
`since` moves on, and the answers of polls under way are about the update before.

### ServiceJobs, ServiceDialog

`result[j][n]` is the entry of service n in job j; `ended` holds the jobs in the
order they ended, of which the first `expired` are older than the TTL. Services
without an address have no task, and end as "interrupted" when the job is
finalised. Pruning is part of `Submit` and `Finalize`, as in the code.

In the dialog `current` is `activeServiceJobId`; `shown` records for which command
the dialog was opened and from which job its content came. A poll carries the
snapshot the proxy made; its arrival acts on whatever job is current by then.

### GitSync

One sync of one repository (`_git_sync_repo` takes a lock per repository, so two
never overlap). Every git command is an action that succeeds or fails. Commits
are numbered per branch; `tip` is the origin, `tracking` what the clone has of it,
`local` its own branches and tags. The ref asked for may be a branch the clone has, one
that only the origin has, or something else, such as a pull request. `stash` is the stash of the main repository:
entries of earlier updates ("ours", whose message has "server_command update") and
of users. `ListStashes` and `DropStash` are the loop of `_git_drop_update_stashes`, one
command at a time: `drops` holds the numbers it read from one listing, and a drop takes
whatever has the number by then. `subTree` and `subStash` are the edits in the trees and stashes of
the submodules. `Push`, `Edit`, `UserStash` and `Crash` belong to developers,
users and the operating system. `run` holds what the thread knows, with the tips
of the origin at its begin and the submodules users stashed in since (`meddled`) as
history. `CheckConflicts` is `_git_submodule_has_merge_conflicts`: unmerged files and
any failure of its command lead to the reset of every submodule; `suspect`, history,
says that a check did. A detached HEAD is left out.

### StatusRows

A row is cut down to its run state, its status and its metrics: none, "down" (the
API does not answer), "part", "ports" (the camera ports of a PLC-CV service in
place of its checkers), "good" or "bad". `Finalize` is `finalize_pipeline_status`;
`EdgeRow` what `status_one` or `_status_failure` makes on the edge; `EnrichedRow`
what the proxy adds; `AppliedRow` keeps metrics of the row before
(`_preserve_probe_metrics`), but never `stream`, the health of the stream, which a wipe
drops as well: a PLC-CV row it puts back becomes WARN. `WithSys` sets the status of the system_monitors of
some hosts by the rows of the services they monitor (`MonitorOf`, which is
`pipeline_monitor_host` and may be another host than the service's). `at[h]` is the way of the answer of a host through one collection.

### EdgeProbes

`task[b][s]` is the future of service s in request b, `cache[s]` its cached result
with the time before the probe. A worker takes a task in order, looks into the
cache, or probes; what a probe sees is the service as it was at its start or is
at its end. `Close` is the end of `_collect_status_results`, `Answer` the exit of
the pool, which waits for probes that no deadline stops. `held`, history, is when
a service was last up and last down. The three caches work alike, and one stands
for all of them.

### ServersFile

`last` is the list in the file and `whole` whether the file is JSON at all: `Open`
is `open(path, "w")`, which empties it, `Write` the rest. A request takes the
address of one pipeline from S3, reads, opens, writes and then changes `cfg`; the
sync reads, fetches, merges (`Compose`), opens and writes. An entry has a server ID
or none (the proxy loads only those that have one, `Loaded`), the
address, the monitor host, a service name and `sys_monitor_path`, the fields on
which the merge has rules of their own. `overlapped`, history, is true once a
writer went on from what another had replaced.

### RenameUnits

The units are names in `units` (files), `active`, and `enabled`; `Serves[n]` is the
server whose container the watchdog of a unit runs. `pc` goes through `Stages` in
the order of `main`; a stage has a set `todo` of commands that run in any order,
as in `parallel_systemctl`. `Kill` and `Reboot` come between any two; the next run
starts from what is left. `file` is `__services__`, which is rewritten last, in
three steps.

The script ignores what the commands of systemctl and docker return. `Fail` lets any
of them fail, `MaxFailed` in one run, and remembers it in `failed`; `ran`, history,
holds the units that were active when the run began.

`IsHost` says which hosts a run may find (`Fits`): each line names a unit of its
server, no two lines differ about a server, and a line or its new name leads to a unit
file of the server if there is one. There may be more units of any name, also third
ones. The script looks for these only with `--recover` or beside a line that is renamed
already (`Looks`); what a run does not look for is `Unsought`.

## 3. The runs

| Run | Instance | What it shows |
|---|---|---|
| `EdgeUpdate` | 3 updates, 2 polls, exceptions, threads that do not start | `OneUpdateAtATime`, `PruneFlagHasOwner`; `EveryUpdateSettles` as long as no exception leaves `update_pipeline` and its thread could be started; `ImplementsSlot`: the agent implements `UpdateSlot` |
| `EdgeUpdate_hang` | the same | **violated**: `EveryPollAnswered`. After an exception in the preamble the agent answers no update and no status command any more |
| `PipelineUpdate` | 3 services of 2 repositories, one of them restarted without a container, and system_monitor; every failure and exception; users act | `RestartsInOrder` (builds before restarts, a failed build touches nothing, system_monitor last), `OutcomeHonest`, `RestartedRunsNew`, `UpdateEnds` |
| `UpdateModal` | 2 services and system_monitor, all selected; 2 overlapping polls that may fail; a host the proxy may forget | `ClosedVerdictFinal` for dialogs closed by an answer of the edge; `ModalCompletes` unless the host was forgotten |
| `Collector` | 2 hosts, a drift service on one and a PLC-CV on the other, a row without host, 2 forced refreshes | `ReadyIsFresh`, `BackgroundOverCompleteMap`, `VersionsSurviveResets`, `ForcedRefreshHonoured` |
| `UpdateWatch` | 2 hosts, one of which can be moved, 2 update requests, 1 status request at a time; failures and restarts | `EntryOutlivesUpdate`, `DropsAfterAllAnswered`, `WatchDrains` |
| `ServiceDialog` | 2 commands of the tab, 1 of another; a table of 2; 2 services and one without host | of the table: `TableKeepsRunning` (running jobs are listed and the table is bounded), `OldestDroppedFirst`, `OnlyLooseInterrupted`, `ImplementsLifecycle`; of the dialog, with 2 overlapping polls: `ReportedIsOver`, `CommandReported` |
| `GitSync` | a branch of the clone, one of the origin alone, a pull request, 3 leftover stashes, 2 submodules, 2 edits, 1 push | `SyncedIsFresh`, `UserStashesKept`, `EditsOnlyLostToConflicts`, `DoneRestoresEdits` |
| `StatusRows` | system_monitor and PLC-CV on one host, drift on another; 1 change | `RowAgrees`, `SysAgrees`, `StoppedIsShown` |
| `EdgeProbes` | 2 requests for 2 and 1 services, interval and deadline of 2, 5 ticks | `RowsAreRecent`, `ErrorHasCause`, `EveryRequestAnswered` |
| `RenameUnits` | 2 servers, one of which may have a unit of a third name, 2 runs, 2 failing commands in each, 1 start or stop between | `LinesResolve`, `RunEndsClean`, `UnitFilesKept`, `NoSecondWatchdog` |
| `ServersFile` | 2 pipelines of 4 kinds, any entry and any S3 data of one of them, 1 sync, 2 requests | `SecondSyncIdle`, `MemoryIsFile`, `ListSurvives` |

The finding behind the violated property, with the lines that say otherwise, is in
`PROJECT.json`.

### What the code does that a reader may not expect

Each of these comes out of a model, as the reason for a condition below or as the
behaviour of an action; the code makes no clear promise against them.

* An update accepted between the release of the slot and the moment the prune
  thread raises its flag (`app.py:2530-2538`) runs beside `docker image prune`.
* An update whose thread cannot be started (`app.py:2569`) keeps the slot for ever:
  every later one is answered "Busy".
* A restart whose stop and `docker rm` both fail is reported as done over the old
  container (`app.py:1371-1387`).
* When an exception past the inner `try` blocks ends an update, the outcome is
  "failed" and no service step is; the dialog then shows every service as done
  (`index.js:939-951`), restarted or not.
* A dialog whose host has left the proxy's watch or list polls for ever: answers
  without an entry are ignored (`index.js:743-749`).
* Without system_monitor the update dialog closes at "build complete", before the
  restart: the edge writes the step "done" for both (`app.py:2317`). `UpdateModal`
  with `Targets <- MCJobs` violates `ClosedVerdictFinal`.
* A failed status request counts as a finished update in the watch
  (`proxy_server.py:1296`, `1326`), so finished hosts are dropped while an
  unreachable one is still updating: `Unheard` in `DropsAfterAllAnswered`.
* An answer about the update before can drop an entry that a second update has
  renewed meanwhile: `Outdated` in `EntryOutlivesUpdate`.
* Version fields are lost in two overlaps of wipes (see `VersionsSurviveResets`).
* After a forced refresh the rows of drift, Kafka and PLC-CV services come back with
  the status of before (`proxy_server.py:1527-1530`), and the map can be "ready" with them
  before their hosts were asked.
* A camera drift whose `/get_drift` answers and whose cameras do not stays PENDING
  (`servers_cfg.py:763`, `1342`): while it goes on so, the map is never ready.
* A late answer about a job is shown as the end of the command the tab sent next
  (`index.js:5404-5447`): polls overlap, and their callback does not compare the job.
* `--git-ref` with the name of a local branch resolves to that branch as it was
  synced last, not to the origin (`app.py:1932`), though the origin was fetched.
* After a conflict in one submodule the edits of all are thrown away, and `git
  stash drop` drops the newest entry, which may be the user's. A check for conflicts
  that fails for another reason has the same effect (`app.py:2016-2018`).
* Somebody who stashes in a submodule during a sync gets his entry popped, and the
  edits the sync had stashed stay in the stash.
* The stash of the main repository is listed once and then dropped from by number: a
  user who stashes there in between moves the numbers (`app.py:1905`). The model has
  nobody do that.
* A plain renaming run looks for units of a third name only beside a line that is renamed
  already (`rename_systemd_services.py:342`). On other hosts it starts a second watchdog
  next to one (`Unsought`). And a service that ran under a third name alone
  may be stopped as legacy and not started again, since only the old and the new name
  count as running before.
* The renaming goes on after a `systemctl stop` or `disable` that failed
  (`rename_systemd_services.py:99-109`), and so may start a second watchdog too.
* Metrics of a drift or Kafka service that fails are copied from row to row without
  an end (`proxy_server.py:1510`), so chips can be older than any refresh; leaves
  of `/plc` that do not answer are left out of the counts (`servers_cfg.py:1025`).
* The edge's deadline for a batch (45 s) is longer than the proxy waits (20 s), and
  the exit of the pool waits longer still.
* A service that is stopped while its probe runs can be shown healthy for one more
  interval: the probe enters its result after the invalidation. `RowsAreRecent` is
  the bound that remains.
* `open(path, "w")` empties `servers.json` and `__services__` before they are
  written; a crash in between leaves an empty file that nothing restores.
* A sync without `--fetch-ip` that fetches a cfg because the monitor host is
  missing also replaces a known `server_ip` by the one in S3, and the other way
  round, where the help of the option says "default: only missing/0.0.0.0"
  (`sync_servers_json.py:356`). `ListSurvives` says what happens: an address that is known
  changes by a request for it, or by a sync that had to get the cfg (`SyncRenews`).
* A renaming that is killed after it stopped a service leaves the service stopped:
  the next run asks systemd anew and finds it inactive. With `--recover` only
  services whose line is up to date are started regardless.

### Where a property needs its condition

* `EveryUpdateSettles` excepts exceptions and an update whose thread did not start.
* `RestartedRunsNew` excepts services whose stop and `docker rm` failed (`stuck`): start does
  nothing for a service that still runs, and the service is reported as restarted
  with the old image.
* `ClosedVerdictFinal` excepts dialogs closed by a made-up "failed" answer: those
  show "Update complete" for an update that runs. It also needs system_monitor
  among the targets. Of an update that an exception ended (`Thrown`) it says only that
  no verdict is changed, not that what is shown as done was restarted.
* `ModalCompletes` excepts a host the proxy has forgotten.
* `ReadyIsFresh` excepts rows that a wipe put back with their chips, and needs, beside
  the row of each host, one that no wipe puts back: else the late answer of a
  cancelled collection completes the wiped map by itself (an instance
  with one host and no other row shows it).
* `BackgroundOverCompleteMap` excepts, and `ForcedRefreshHonoured` excludes in the end,
  camera drifts that are answered without their metrics.
* `VersionsSurviveResets` leaves out what an answer brings between the snapshot and
  the rebinding of a forced wipe, and what one wipe does not find when it saves
  the versions in the middle of another: the collector takes no lock.
* `WatchDrains` is for agents that do not restart and addresses that are not
  edited: a restarted agent reports "idle" without a time, which never gets old,
  and a moved host is never asked again and counts as active. It asks that
  requests succeed from some time on.
* `ReportedIsOver` speaks of the job an answer is about, which a late answer shows in the
  place of the current one: that the dialog shows its own job does not hold.
* With as many running jobs as the table holds, a job is dropped in the step that
  ends it; the tab then says that the job is missing, and `CommandReported`
  counts that as a report.
* `SyncedIsFresh` excepts refs that are names of local branches.
* `EditsOnlyLostToConflicts` excepts what follows a check for conflicts that found one
  or failed (`suspect`), `DoneRestoresEdits` the submodules in which a user stashed
  during the sync (`meddled`).
* `RunEndsClean` is stated for runs that come to their end, and compares with what
  ran by the old or the new name when that run began. It excuses what a command of
  the run failed to do, and nothing else.
* `NoSecondWatchdog` excepts a unit the run failed to stop, and one it does not look
  for (`Unsought`).
* `ListSurvives` and `MemoryIsFile` are for writers that do not overlap; that two
  overlapping ones lose a change is what `overlapped` records. `MemoryIsFile` also
  excepts a sync, since the proxy reads the file only when it starts.

### Bounds, and why they are enough

* Three updates: one holds the slot, one is refused or overtakes a prune, one
  overlaps the prunes of two others. No action relates more than three.
* A drift row is the one an answer can leave pending and whose chips outlive a failed
  probe, a PLC-CV row loses them; a Kafka row is a drift row without the half answer.
* Two repositories, one with two services: a failed repository with several
  services beside a good one, and restarts that end differently.
* Two hosts in collector and watch: the properties compare an old or unfinished
  host with one other. Two forced refreshes let the second fall into any step of
  the first, and generations cancel in both directions. The watch with two
  overlapping status requests and one update request was checked as well.
* Two overlapping polls are the fewest whose answers change order, in the update
  dialog and in the service dialog.
* Three jobs over a table of two: the limit is exceeded by running jobs, by
  finished jobs and by both.
* One push and two edits: a push before, between or after the two fetches of a
  sync; an edit stashed and one made after the stash; two submodules, so that the
  first pop can succeed and the second fail; three entries in the stash, so that a
  wrong order of the drops hits the user's.
* One change of a service while its rows travel: an answer is from before it or
  after it, and both may be in one map. `TLC` looks at every starting condition.
* Five ticks with an interval and a deadline of two: a result can expire, be
  entered late over a newer one, and a request can run out of its deadline.
* Two runs of the renaming: one that is killed and one that meets what it left; in
  addition the layouts an earlier version of the script may have left, and a third name.
  Two failing commands in a run: the stop and the `docker stop` of one service, which
  can stand in for each other, or one of each of two services.
* One sync and two requests are the fewest that can overlap in every pair.
* Symmetry is used in `GitSync` (edits) and `ServersFile` (requests), whose
  properties are invariants and action properties only.
* Deadlock is checked for the collector, the git synchronisation and the status
  rows, which never stop. The other instances stop when all their commands are
  over.

### Fairness

Fairness is weak, and on the steps of a thread that has been started: the operating
system runs it, and each request has a timeout or an answer. `git`, `docker` and
`systemctl` are assumed to end; the agent sets no limit on a build, so
`UpdateEnds` and `EveryUpdateSettles` say nothing of a build that hangs. Polls of
the dialogs are fair because their interval timers fire while the page is visible
(a page hidden for good is not reported to). Probes end because each of their calls
has a timeout, and so does a collection. Users, forced refreshes, viewers,
restarts, edits, changes of services, invalidations and exceptions have no
fairness. `ForcedRefreshHonoured` says "while someone keeps looking", since the
collector stops without viewers. `GitSync`, `RenameUnits` and `ServersFile` state
no liveness: a user calls these, and looks at what they print.

## 4. The proofs

Eight modules hold proofs, for every value of the constants their `ASSUME` allows.
Those assumptions only say what kind of thing each constant is (numbers, Booleans,
names that differ, a repository for each job, refs that are no branches, lists of fallback branches and of
submodules, files that hold lists of entries, S3 sites that are well formed, a kind
and a host for each service) and, for `RenameUnits`, on which hosts the script is
used (`IsHost`, section 2). Two theorems have a hypothesis of their own, named
with them below.

| Module | Theorem | Statement |
|---|---|---|
| `EdgeHostProofs` | `TypeCorrect` | `Spec => []TypeOK` |
| | `OneUpdate` | `Spec => []OneUpdateAtATime` |
| | `Coherent` | `Spec => []StatusCoherent` (in no run of its own) |
| | `PruneFlagOwned` | `Spec => []PruneFlagHasOwner` |
| | `OutcomeKept` | `Spec => OutcomeStays` (in no run of its own) |
| | `Implementation` | `Spec => ImplementsSlot`, the refinement of `UpdateSlot` |
| | `LinesAlwaysResolve` | `RenameSpec => []LinesResolve` |
| | `RunsEndClean` | `RenameSpec => []RunEndsClean` |
| | `FilesKept` | `RenameSpec => UnitFilesKept` |
| | `OneWatchdog` | `RenameSpec => NoSecondWatchdog` |
| `PipelineUpdateProofs` | `OrderAlways` | `Spec => []RestartsInOrder` |
| | `OutcomeAlways` | `Spec => []OutcomeHonest` |
| | `NewAfterRestart` | `Spec => RestartedRunsNew` |
| | `VerdictFinal` | `Sys \in Targets => (ModalSpec => []ClosedVerdictFinal)` |
| `CollectorProofs` | `BackgroundAlways` | `Spec => []BackgroundOverCompleteMap` |
| | `VersionsKept` | `Spec => []VersionsSurviveResets` |
| | `ReadyAlways` | `Spec => []ReadyIsFresh`, if beside each host's row there is one that no wipe puts back |
| `ServiceJobsProofs` | `TypeCorrect` | `Spec => []TypeOK` |
| | `Implementation` | `Spec => ImplementsLifecycle`, the refinement of `JobLifecycle` |
| | `LooseOnly` | `Spec => []OnlyLooseInterrupted` |
| | `RunningKept` | `Spec => []TableKeepsRunning` |
| | `OldestFirst` | `Spec => OldestDroppedFirst` |
| | `DialogUsesJobs` | `DialogSpec => Spec`: the dialog uses the table as any client |
| | `ReportsAreOver` | `DialogSpec => []ReportedIsOver` |
| `UpdateWatchProofs` | `TypeCorrect` | `Spec => []TypeOK` (in no run of its own) |
| | `EntriesOutlive` | `Spec => EntryOutlivesUpdate` |
| | `DropsAfterAll` | `Spec => DropsAfterAllAnswered` |
| `StatusProofs` | `RecentRowsAlways` | `Spec => []RowsAreRecent` |
| | `ErrorsHaveCauses` | `Spec => []ErrorHasCause` |
| | `RowsAgree` | `RowsSpec => []RowAgrees` |
| | `MonitorsAgree` | `RowsSpec => []SysAgrees` |
| `GitSyncProofs` | `SyncedFreshAlways` | `Spec => []SyncedIsFresh` |
| | `EditsKept` | `Spec => EditsOnlyLostToConflicts` |
| | `EditsRestored` | `Spec => DoneRestoresEdits` |
| | `UserEntriesKept` | `Spec => UserStashesKept` |
| `ServersFileProofs` | `TypeCorrect` | `Spec => []TypeOK` (in no run of its own) |
| | `MemoryAlways` | `Spec => []MemoryIsFile` |
| | `ListKept` | `Spec => ListSurvives` |
| | `SyncIdempotent` | `Spec => []SecondSyncIdle` |

**EdgeUpdate.** The inductive invariant is `SlotInv`. The properties support each
other and cannot be proved one by one: that the refusal is sound (no owner when `running` is down)
is one half of `OneUpdateAtATime`, which a finish keeps only because the finishing
update was the only owner, the other half. `PruneFlagHasOwner` needs one fact that
no run checks, `PruneFollowsUpdate`: a prune thread exists only for an update that
is over, so starting one never resets the place of another. The lemmas
`TypeStep`, `SlotStep`, `PruneFollowsStep` and `PruneStep` take the actions one by
one; `SlotFrame` and `SlotStutter` cover the many steps that leave the slot
alone. In the refinement `Accept` is `Take`, `Begin` is `Work`, `Finish` is
`Release`, and every other step stutters, the thread that hangs on its own lock
included: the slot stays taken, which the abstract slot allows.

**PipelineUpdate.** Neither the order nor the outcome is inductive. `PhaseInv` says
what has happened in each phase (nothing built before the builds, everything built
in the restarts, everything joined before system_monitor); `JobShown` and `SysShown`
say that the step shown for a service is the last thing that happened to it;
`ErrorsInv` ties the errors to the builds and restarts that failed. A lost build or
restart ends the update in the same way from either pool: nothing is restarted after
it but what was under way (`JobsDone`, `SysInv`). The steps of
users change none of this (`ReportFrame`): the update reads once who is active.
`ImageInv` adds what the host runs: between the stop and the start of a restart a
service runs the new image or none, even if a user starts it first, and from then on
nothing brings the old one back, between the wait and the mark neither.

**UpdateModal.** The dialog only reads (the lemma `DialogOnlyWatches`), so the invariants
of the update hold under it. What closes it is an answer that may be old by then, and what
makes the answer safe is that system_monitor comes last: `LastInv` says that once
system_monitor shows the end of its work every service that was active shows how its
restart went, and `RepliesInv` that an answer of the edge, in the proxy or under way,
that completes system_monitor shows the steps the update ends with; an answer
without the host completes nothing (`NoEntryOpen`). Hence
the hypothesis `Sys \in Targets`: without it "built" is the end of the wait for
a service (`pipelineUpdateTerminal`), and its restart may still fail.

**Collector.** Three flags decide what the page shows, and two threads set them.
A forced refresh raises `pendingReset` under the lock and keeps the lock until its
wipe is over (`ForceInv`), so the collector's choice, which needs the lock, never
falls into it; the collector's own wipe happens only in a collection marked as one
that wipes (`WipeInv`); and a choice not to wipe was made over a complete map, which
only a wipe makes incomplete (`ChoiceInv`, `CompleteKept`).

`VersionsSurviveResets` is inductive once the flags are there. `ReadyIsFresh` is not:
a cancelled collection does apply the answer it waits for, after the wipe. `GenInv`
says of which refresh an answer can be, and `StaleInv` that a row older than the last
refresh is in the map only while that map is incomplete, and that the collector is
then on its way to the next wipe. An old answer fills one row, so the map stays
incomplete if there is a second one that the wipe did not put back: the hypothesis of
`ReadyAlways`. `ChipInv` says that only rows of drift, Kafka and PLC-CV services have
chips, in the map and in what a wipe has saved, so that no other row is put back.

**StatusRows.** The inductive invariant is `MapInv`. `FinalizeTwice` says that `finalize_pipeline_status` changes nothing the second time,
for every kind and every row. Whatever the two sides mix into a row is finalised
afterwards (`ApplyStep`, `WipeStep`), and a collection ends with the
system_monitors, whose status depends on rows of other kinds only (`EndStep`).

**ServiceJobs.** `RunInv`: a job is active exactly while its thread runs, and is in
the table then, because a prune drops only what has ended (`PruneDropsEnded`). In the
refinement `Submit` is `Open`, a result is `Decide`, `Finalize` is `Settle`; a prune
in any of them lets settled jobs be forgotten (`OthersMove`). For the limit `EndedInv`
says that the ended jobs of the table are in the list of the ended ones once each,
in the order in which they ended; counting positions then gives that a prune which
drops a job has as many to drop as the table is too large, so it stops either at
the limit or with no ended job left. The dialog only sends and asks
(`DialogUsesJobs`). What it reports is over because a snapshot says so only of a job
whose thread is through, or that is not in the table, where every running job is
(`SnapshotIsTrue`), and a thread that is through stays so (`RunnersOnlyMoveOn`): an answer that
was true when it was made is true whenever it comes (`ReportInv`).

**UpdateWatch.** The watch compares nothing but steps and times, so a late answer about
an earlier update of a host must never look like the end of the one it is watched for.
`CountInv` bounds the updates a host was given by the requests that can have given
them, and so keeps the runs numbered; `AgedInv` says that only what is over gets old;
`AnswersInv` that an answer which is not "working" is about an update that is over by
now, whenever it comes and whatever restarted meanwhile. Only status requests
drop entries (`OnlyPollsDrop`), and they drop by such answers.

**EdgeProbes.** A row is made from a task, and a task's result from the cache or from
a probe. `CacheHeld` says that an entry shows a health the service still had at the
time it is entered for, `ProbeHeld` the same of a probe under way, `ResultRecent`
and `RowOfTask` carry it to the row. None depends on the order in which entries come,
which is why late entries and invalidations do no harm. `ErrorHasCause` needs that
a request without a beginning has no rows yet.

**GitSync.** `PullFresh` and `RefFresh` say at each command which of
`origin/<branch>`, `FETCH_HEAD` and the working commit are no older than the origin
at the beginning of the sync; `NotAhead` that the origin only moves forward.
For the local edits, `BeforeKept` follows them from the trees of the submodules to the
top of their stashes and back: before the stash they are in the trees, after it each is
in a tree or in the top entry of its submodule. A pop takes the top entry, whoever
made it, and nothing is lost that way (`PopMoves`); users may stash in between
(`UserStep`), which moves edits from the tree to the stash and takes the submodule out
of `BeforeKept`. Only a check that did not answer "no conflict" leads to the throwing away
(`ThrowStep`). The main repository
and the origin have no part in it (`MainStep`). For the stash of the main repository
`StashInv` says that every number still to be dropped names an entry of an update:
the highest goes first, so a drop moves only entries behind the numbers that are left
(`Removed`, `RemovedRange`).

**ServersFile.** While a request is between the file and the memory the two differ, so
`MemoryIsFile` is not inductive. `MemoryBehind` says that they differ only at the
pipeline of such a request (`Pending`), whatever number of them there is, and
`ListIsLast` that a request nobody wrote past writes the last list with its own
address in it, and later enters that address in memory. A request somebody did
write past is stale, and then `overlapped` takes over; a stopped proxy has no
requests (`RequestsRun`), so it starts with nothing pending. `SyncMerged` adds that what
a sync is about to write is the merge of what it fetched with the list it read, and
that this is the last list unless somebody wrote past the sync. What the merge
keeps, and of which entries it may renew the addresses (`ComposeKeeps`), and that it is idempotent (`ComposeTwice`) are facts about
`compose_synced_servers` alone, proved entry by entry.

**RenameUnits.** Nothing of a run survives it but what it did to the host, so between
runs the invariant is `HostInv`: the lines fit the units (`Fits`), a unit with a new
name runs only with its file, and a unit that runs without its file has its container,
which is what `docker stop` ends it by. During a run `RenameInv` follows each service:
`EntriesInv` (one entry for each server, its unit file under exactly one of the two
names, so a move overwrites nothing, which is `UnitFilesKept`), `OldInv` (the
old name is stopped, disabled or given up, by which stage at the latest), `NewInv` (the
new one is enabled and started), and `RivalsInv`: any other unit that runs the server is
stopped by the old name, as a legacy unit or, without a file, with the container,
before "start" begins, or a command that should have stopped it failed, or the run does not
look for it. A command that fails changes only what is excused (`FailInv`). That the old name
and the new one of each line are the ones to look at (`BeginInv`) is where `IsHost` is
needed, and that what it writes to `__services__` fits the units at every moment of
the rewriting (`RenamedLines`) is why a killed run leaves lines that resolve.

Every safety property of a passing run is a theorem. With TLC alone stay the
liveness properties (`EveryUpdateSettles`, `EveryPollAnswered`, `UpdateEnds`,
`ModalCompletes`, `ForcedRefreshHonoured`, `WatchDrains`, `CommandReported`,
`StoppedIsShown`, `EveryRequestAnswered`): fairness is about `ENABLED`, which is beyond
the prover.

## 5. What is not modelled, and what is left

Not modelled, since there is no shared state to get wrong: deployment and setup
scripts, command line clients, streaming and drift images, the page, its style and
its texts; host power, which is one loop over hosts with the own one last; the
central version cache, a cache with a lifetime that one thread reads and fills.

Modelled in part: the answers and time-outs of single service commands (their
effect on the host is in `PipelineUpdate`), several hosts in one update dialog,
the direct results of a refused service command, and of the status probes what
only concerns texts (memory, versions, links). `--dry-run` of the renaming changes
nothing. `StatusRows` takes a whole row as good or bad; how chips are coloured
within one is left out.

What would be worth adding: `ServiceControl` with the waits of start and stop and
the time-outs of single commands; several hosts in one update dialog; and
`PipelineUpdate` under `EdgeUpdate` as one refinement of an abstract host update.

Theorems worth proving next: the type invariants of `GitSync`, `Collector` and
`PipelineUpdate` as theorems of their own, which the invariants above contain in the
parts they need.
