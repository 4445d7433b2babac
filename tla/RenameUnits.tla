---------------------------- MODULE RenameUnits ----------------------------
(***************************************************************************)
(* rename_systemd_services.py: renames the systemd units of an edge host   *)
(* to the server IDs its __services__ file lists.  A run stops and         *)
(* disables the old units, moves the unit files, enables and starts the    *)
(* new ones and at last rewrites the file.  Nothing of it is atomic: the   *)
(* script is killed, one of its calls raises, or the host goes down        *)
(* between any two commands, and the next run, plain or with --recover,    *)
(* finds what is left.                                                     *)
(*                                                                         *)
(* A unit runs a watchdog that keeps the container of a server running.    *)
(* The script ignores what the commands of systemctl and docker return, so *)
(* any of them may fail and the run goes on.  Between runs somebody may    *)
(* start and stop services; nobody does during a run.  A dry run changes   *)
(* nothing and is left out, and so are daemon-reload, reset-failed and the *)
(* restart of the checker, which change nothing of what follows.           *)
(***************************************************************************)
EXTENDS Naturals, Sequences, FiniteSets, Functions

CONSTANTS Names,       \* service names, without ".service"
          Ids,         \* server IDs
          ServiceNameFor, \* service_name_for: the new name of the service of an ID
          Serves,      \* the server whose container the watchdog of a unit runs
          Hosts,       \* the hosts a run may find, see IsHost
          MaxFailed,   \* commands that fail in a run
          MaxRuns,     \* runs of the script
          MaxActs      \* starts and stops between runs

Lines == [name : Names, id : Ids]

UpToDate(l) == l.name = ServiceNameFor[l.id]

(***************************************************************************)
(* Lines that fit the units of a host: each names a unit of its server,    *)
(* no two differ about one, and a line or its new name leads to a unit     *)
(* file of its server, if there is one.  There may be more units of the    *)
(* server, under third names.                                              *)
(***************************************************************************)
Fits(lines, files) ==
    \A l \in Range(lines) :
        /\ Serves[l.name] = l.id
        /\ \A k \in Range(lines) : k.id = l.id => k = l
        /\ (\E n \in files : Serves[n] = l.id) =>
             {l.name, ServiceNameFor[l.id]} \cap files # {}

\* A host a run may find.  A unit with a new name that is active has its file,
\* since only a run makes such units.
IsHost(h) ==
    /\ h.units \subseteq Names /\ IsFiniteSet(h.units)
    /\ h.active \subseteq Names /\ h.enabled \subseteq Names
    /\ h.file \in Seq(Lines)
    /\ Fits(h.file, h.units)
    /\ \A d \in Ids : ServiceNameFor[d] \in h.active => ServiceNameFor[d] \in h.units

ASSUME RenameAssumption ==
    /\ ServiceNameFor \in [Ids -> Names]
    /\ Serves \in [Names -> Ids]
    /\ \A d \in Ids : Serves[ServiceNameFor[d]] = d
    /\ \A h \in Hosts : IsHost(h)
    /\ MaxFailed \in Nat /\ MaxRuns \in Nat /\ MaxActs \in Nat

VARIABLES units,       \* names with a unit file in /etc/systemd/system
          active,      \* units systemd reports active, a "ghost" without file too
          enabled,     \* units with a link in multi-user.target.wants
          containers,  \* servers whose container runs
          file,        \* lines of __services__
          pc,          \* what the run does: a member of Stages, or idle, done
          todo,        \* names the stage still has to treat
          run,         \* what the run found out, see BeginRun
          ran,         \* history: units that were active when the run began
          failed,      \* history: the commands of the run that failed
          runs, acts   \* counters

systemd == <<units, active, enabled, containers>>
history == <<ran, failed>>
renameVars == <<systemd, file, pc, todo, run, history, runs, acts>>

Commands == {"stop", "disable", "docker", "enable", "start"}
Flags == [recover : BOOLEAN, noStart : BOOLEAN, noUpdate : BOOLEAN]
Pendings == [old : Names, new : Names, wasRunning : BOOLEAN,
             alreadyRenamed : BOOLEAN, recoverOnly : BOOLEAN]
NoRun == [flags |-> [recover |-> FALSE, noStart |-> FALSE, noUpdate |-> FALSE],
          pending |-> <<>>, disables |-> {}, legacy |-> {},
          moves |-> {}, lines |-> <<>>]

Serving(ns) == {Serves[n] : n \in ns}

-----------------------------------------------------------------------------
\* What a run finds out before it changes anything.

\* Variant: a line is taken although both of its files are there.
Taken_Overwrites(l, recover) ==
    LET new == ServiceNameFor[l.id] IN
    IF UpToDate(l) THEN recover /\ new \in units
                   ELSE l.name \in units \/ new \in units

\* Whether collect_pending_renames takes a line: one that is up to date
\* only to recover it, another one if exactly one of its files is there.
Taken(l, recover) ==
    LET new == ServiceNameFor[l.id] IN
    IF UpToDate(l) THEN recover /\ new \in units
                   ELSE l.name \in units <=> new \notin units

Entry(l) ==
    LET new == ServiceNameFor[l.id] IN
    [old |-> l.name,
     new |-> new,
     wasRunning |-> UpToDate(l) \/ l.name \in active \/ new \in active,
     alreadyRenamed |-> l.name = new \/ l.name \notin units,
     recoverOnly |-> UpToDate(l)]

\* The entries, by the numbers of their lines.
CollectPending(recover) ==
    [i \in {k \in DOMAIN file : Taken(file[k], recover)} |-> Entry(file[i])]

Renamed(pending) == {p \in Range(pending) : p.old # p.new}

\* Variant: only units without a file count.
Orphans_Ghosts(p) == {n \in active \ units : n # p.new /\ Serves[n] = Serves[p.new]}

\* Units other than the new one whose watchdog process runs the server.
Orphans(p) == {n \in active : n # p.new /\ Serves[n] = Serves[p.new]}

DiscoverLegacy(pending) ==
    LET candidates == {p.old : p \in Renamed(pending)}
        staleLinks == candidates \cap enabled
        ghosts == (candidates \cap active) \ units
    IN ((UNION {Orphans(p) : p \in Range(pending)})
          \cup {p.old : p \in {q \in Renamed(pending) : q.alreadyRenamed}}
          \cup staleLinks \cup ghosts)
        \ {p.new : p \in Range(pending)}

\* Variant: old units are sought only with --recover.
Legacy_RecoverOnly(pending, recover) ==
    IF recover THEN DiscoverLegacy(pending) ELSE {}

\* Whether a run looks for units of other names: a plain one that has only to
\* move files does not.
Looks(pending, recover) == recover \/ \E p \in Range(pending) : p.alreadyRenamed

Legacy(pending, recover) ==
    IF Looks(pending, recover) THEN DiscoverLegacy(pending) ELSE {}

-----------------------------------------------------------------------------
\* Variant: the file is rewritten before the units are moved.
Stages_FileFirst == <<"stop", "disable", "docker", "legacyStop", "legacy",
                      "read", "truncate", "write", "move", "enable", "start">>

\* The stages of a run, in the order of main.
Stages == <<"stop", "disable", "docker", "legacyStop", "legacy", "move",
            "enable", "start", "read", "truncate", "write">>

\* What a stage has to do, seen from the state in which it begins.
Work(stage) ==
    LET pending == Range(run.pending)
    IN CASE stage = "disable" -> run.disables
         [] stage = "docker" ->
              {n \in {p.new : p \in pending} :
                 n \notin active /\ Serves[n] \in containers}
         [] stage = "legacyStop" -> run.legacy \cap units \cap active
         [] stage = "legacy" -> run.legacy
         [] stage = "enable" -> {p.new : p \in pending}
         [] stage = "start" ->
              IF run.flags.noStart THEN {}
              ELSE {p.new : p \in {q \in pending : q.recoverOnly \/ q.wasRunning}}
                     \ active
         [] OTHER -> {}

\* Stages that come after stage.  --no-update-file skips the file.
After(stage) ==
    LET i == CHOOSE k \in DOMAIN Stages : Stages[k] = stage
    IN IF i = Len(Stages) \/ (run.flags.noUpdate /\ Stages[i + 1] = "read")
       THEN "done" ELSE Stages[i + 1]

BeginRun(flags) ==
    /\ pc = "idle"
    /\ runs < MaxRuns
    /\ LET pending == CollectPending(flags.recover)
           renamed == Renamed(pending)
       IN /\ DOMAIN pending # {}
          /\ run' = [flags |-> flags,
                     pending |-> pending,
                     disables |-> {p.old : p \in {q \in renamed : ~q.alreadyRenamed}},
                     legacy |-> Legacy(pending, flags.recover),
                     moves |-> {i \in DOMAIN pending : ~pending[i].alreadyRenamed},
                     lines |-> <<>>]
          /\ todo' = {p.old : p \in renamed} \cap active
    /\ pc' = "stop"
    /\ ran' = active
    /\ failed' = {}
    /\ runs' = runs + 1
    /\ UNCHANGED <<systemd, file, acts>>

\* One command of a stage is done; stages other than "move" and those that
\* write the file may do theirs in any order.
Treat(stage, n) ==
    /\ pc = stage /\ n \in todo
    /\ todo' = todo \ {n}
    /\ UNCHANGED <<units, file, pc, run, ran, runs, acts>>

\* The command failed, and nobody looks.
Fail(command, n) ==
    /\ Cardinality(failed) < MaxFailed
    /\ failed' = failed \cup {<<command, n>>}
    /\ UNCHANGED <<active, enabled, containers>>

\* A container ends, and with it the watchdog of a "ghost" unit, one whose
\* file is gone ("cleared by docker stop + reset-failed"); another watchdog
\* starts the container again.
EndContainer(d, watchdogs) ==
    /\ active' = {n \in watchdogs : n \in units \/ Serves[n] # d}
    /\ containers' = IF d \in Serving(active') THEN containers ELSE containers \ {d}

\* systemctl stop of a watchdog; its container may be left running.
StopWatchdog(n) ==
    \/ active' = active \ {n} /\ UNCHANGED containers
    \/ EndContainer(Serves[n], active \ {n})

Stop(n) ==
    /\ \E stage \in {"stop", "legacyStop"} : Treat(stage, n)
    /\ \/ StopWatchdog(n) /\ UNCHANGED <<enabled, failed>>
       \/ Fail("stop", n)

Unlink(n) == enabled' = enabled \ {n} /\ UNCHANGED <<active, containers, failed>>

Disable(n) ==
    /\ Treat("disable", n)
    /\ Unlink(n) \/ Fail("disable", n)

DockerStop(n) ==
    /\ Treat("docker", n)
    /\ \/ EndContainer(Serves[n], active) /\ UNCHANGED <<enabled, failed>>
       \/ Fail("docker", n)

\* systemctl disable, or the removal of the link if there is no file.
CleanupLegacy(n) ==
    /\ Treat("legacy", n)
    /\ \/ Unlink(n)
       \/ n \in units /\ Fail("disable", n)

\* The next unit file is moved, over whatever has its new name by now; if
\* it is gone, shutil.move raises and the script ends there.
Move(i) ==
    /\ pc = "move"
    /\ i \in run.moves /\ \A j \in run.moves : i <= j
    /\ LET p == run.pending[i] IN
       \/ /\ p.old \in units
          /\ units' = (units \ {p.old}) \cup {p.new}
          /\ run' = [run EXCEPT !.moves = run.moves \ {i}]
          /\ UNCHANGED <<pc, todo>>
       \/ /\ p.old \notin units
          /\ pc' = "idle" /\ todo' = {} /\ run' = NoRun
          /\ UNCHANGED units
    /\ UNCHANGED <<active, enabled, containers, file, history, runs, acts>>

Enable(n) ==
    /\ Treat("enable", n)
    /\ \/ /\ n \in units
          /\ enabled' = enabled \cup {n}
          /\ UNCHANGED <<active, containers, failed>>
       \/ Fail("enable", n)

StartUnit(n) ==
    /\ Treat("start", n)
    /\ \/ /\ n \in units
          /\ active' = active \cup {n}
          /\ containers' = containers \cup {Serves[n]}
          /\ UNCHANGED <<enabled, failed>>
       \/ Fail("start", n)

\* update_services_file: the lines are read and renamed, the file opened
\* for writing, which empties it, and then written.
RenamedLine(l) ==
    IF \E p \in Range(run.pending) : p.old = l.name
    THEN [l EXCEPT !.name = (CHOOSE p \in Range(run.pending) : p.old = l.name).new]
    ELSE l

UpdateFile ==
    /\ \/ /\ pc = "read"
          /\ run' = [run EXCEPT !.lines = [i \in DOMAIN file |-> RenamedLine(file[i])]]
          /\ pc' = After(pc)
          /\ UNCHANGED file
       \/ /\ pc = "truncate" /\ file' = <<>> /\ pc' = After(pc) /\ UNCHANGED run
       \/ /\ pc = "write" /\ file' = run.lines /\ pc' = After(pc) /\ UNCHANGED run
    /\ todo' = {}
    /\ UNCHANGED <<systemd, history, runs, acts>>

Advance ==
    /\ pc \notin {"idle", "done", "read", "truncate", "write"}
    /\ todo = {}
    /\ pc = "move" => run.moves = {}
    /\ pc' = After(pc)
    /\ todo' = Work(After(pc))
    /\ UNCHANGED <<systemd, file, run, history, runs, acts>>

Return ==
    /\ pc = "done"
    /\ pc' = "idle" /\ run' = NoRun
    /\ UNCHANGED <<systemd, file, todo, history, runs, acts>>

-----------------------------------------------------------------------------
\* What happens to the script and the host.

Kill ==
    /\ pc \notin {"idle", "done"}
    /\ pc' = "idle" /\ todo' = {} /\ run' = NoRun
    /\ UNCHANGED <<systemd, file, history, runs, acts>>

\* The enabled units that have a file are started, and the others are not.
Reboot ==
    /\ pc \notin {"idle", "done"}
    /\ pc' = "idle" /\ todo' = {} /\ run' = NoRun
    /\ active' = enabled \cap units
    /\ containers' = Serving(enabled \cap units)
    /\ UNCHANGED <<units, enabled, file, history, runs, acts>>

UserStart(n) ==
    /\ pc = "idle" /\ acts < MaxActs
    /\ n \in units \ active
    /\ active' = active \cup {n}
    /\ containers' = containers \cup {Serves[n]}
    /\ acts' = acts + 1
    /\ UNCHANGED <<units, enabled, file, pc, todo, run, history, runs>>

UserStop(n) ==
    /\ pc = "idle" /\ acts < MaxActs
    /\ n \in active
    /\ StopWatchdog(n)
    /\ acts' = acts + 1
    /\ UNCHANGED <<units, enabled, file, pc, todo, run, history, runs>>

RenameInit ==
    /\ \E h \in Hosts :
         /\ units = h.units /\ active = h.active
         /\ enabled = h.enabled /\ file = h.file
    /\ containers = Serving(active)
    /\ pc = "idle" /\ todo = {} /\ run = NoRun
    /\ ran = {} /\ failed = {}
    /\ runs = 0 /\ acts = 0

RenameNext ==
    \/ \E flags \in Flags : BeginRun(flags)
    \/ \E n \in Names : Stop(n) \/ Disable(n) \/ DockerStop(n) \/ CleanupLegacy(n)
                          \/ Enable(n) \/ StartUnit(n)
    \/ \E i \in run.moves : Move(i)
    \/ UpdateFile \/ Advance \/ Return
    \/ Kill \/ Reboot
    \/ \E n \in Names : UserStart(n) \/ UserStop(n)

RenameSpec == RenameInit /\ [][RenameNext]_renameVars

-----------------------------------------------------------------------------
\* Properties.

\* RenameTypeOK: systemd, the file and the run hold what the script can leave.
RenameTypeOK ==
    /\ units \subseteq Names /\ active \subseteq Names /\ enabled \subseteq Names
    /\ containers \subseteq Ids
    /\ file \in Seq(Lines)
    /\ pc \in Range(Stages) \cup {"idle", "done"}
    /\ todo \subseteq Names
    /\ DOMAIN run.pending \subseteq Nat /\ Range(run.pending) \subseteq Pendings
    /\ run.moves \subseteq DOMAIN run.pending
    /\ run.lines \in Seq(Lines)
    /\ failed \subseteq Commands \X Names
    /\ pc = "idle" => run = NoRun /\ todo = {}

\* LinesResolve: wherever a run ends, killed or not, each line still leads
\* a later run to the unit file of its server: a line with the new name is
\* never ahead of its file, for such a line is skipped as "already up to
\* date" and its unit would stay under the old name, stopped and disabled.
LinesResolve ==
    \A l \in Range(file) :
        (\E n \in units : Serves[n] = l.id) =>
            \/ ServiceNameFor[l.id] \in units
            \/ ~UpToDate(l) /\ l.name \in units

\* UnitFilesKept: no step of a run loses a unit file, so a move never
\* overwrites one.
UnitFilesKept == [][Cardinality(units') = Cardinality(units)]_units

\* RunEndsClean: when a run is through, whatever earlier runs left, each
\* service it took has its file under its new name alone, is enabled and active
\* under that one alone, and runs if it ran before by either name or was up to
\* date, but for what the command that would have done it failed to do.
RunEndsClean ==
    pc = "done" =>
        \A p \in Range(run.pending) :
            /\ p.new \in units
            /\ p.new \in enabled \/ <<"enable", p.new>> \in failed
            /\ p.old # p.new =>
                 /\ p.old \notin units
                 /\ p.old \in active => <<"stop", p.old>> \in failed
                 /\ p.old \in enabled => <<"disable", p.old>> \in failed
            /\ p.recoverOnly \/ {p.old, p.new} \cap ran # {} =>
                 p.new \in active \/ run.flags.noStart \/ <<"start", p.new>> \in failed

\* A unit a run that starts n leaves alone: one under a third name, with a file,
\* when the run has only to move files.
Unsought(m, n) ==
    /\ ~Looks(run.pending, run.flags.recover)
    /\ m \in units
    /\ \A p \in Range(run.pending) : p.new = n => m # p.old

\* NoSecondWatchdog: a run starts a unit only when no other unit runs the
\* same server, so two watchdogs do not fight over one container because of
\* it, unless stopping the other one failed or the run does not look for it.
NoSecondWatchdog ==
    [][pc # "idle" /\ pc' # "idle" =>
         \A n \in active' \ active : \A m \in active :
            Serves[m] = Serves[n] =>
              \/ <<"stop", m>> \in failed \/ <<"docker", n>> \in failed
              \/ Unsought(m, n)]_renameVars
=============================================================================
