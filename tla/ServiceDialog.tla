---------------------------- MODULE ServiceDialog ----------------------------
(***************************************************************************)
(* One browser tab that sends service commands (templates/static/index.js) *)
(* beside the jobs of others.  After the answer with the job_id the tab    *)
(* polls the job once a second, whether or not the previous request was    *)
(* answered, and pauses while it is hidden.  The callback of a poll uses   *)
(* the tab's current job and targets, not those the poll was sent for: an  *)
(* answer that comes late ends the polling of the next command.            *)
(* The command buttons are enabled only while no job is polled.            *)
(***************************************************************************)
EXTENDS ServiceJobs

CONSTANTS Mine,        \* the jobs this tab sends
          MaxPolls,    \* polls under way at a time
          NoJob        \* activeServiceJobId is null

ASSUME DialogAssumption ==
    /\ Mine \subseteq Jobs
    /\ MaxPolls \in Nat \ {0}
    /\ NoJob \notin Jobs

VARIABLES current,     \* activeServiceJobId, and with it the targets
          replies,     \* answers to polls that have not arrived
          shown        \* what the dialog shows: for which job, from which, what

dialogVars == <<current, replies, shown>>
allVars == <<vars, dialogVars>>

Kinds == {"progress", "done", "missing"}
Nothing == [for |-> NoJob, from |-> NoJob, kind |-> "progress"]

\* _service_job_snapshot: "done" needs every result and an inactive job.
Snapshot(j) ==
    [job |-> j,
     kind |-> IF j \notin table THEN "missing"
              ELSE IF ~active[j] /\ \A n \in Names : result[j][n] \in Done
              THEN "done" ELSE "progress"]

DialogInit ==
    /\ Init
    /\ current = NoJob
    /\ replies = {}
    /\ shown = Nothing

\* sendCommand and startServiceCommandPolling.
Send(j) ==
    /\ j \in Mine
    /\ current = NoJob
    /\ Submit(j)
    /\ current' = j
    /\ shown' = [for |-> j, from |-> j, kind |-> "progress"]
    /\ UNCHANGED replies

\* The interval timer, or the tab becoming visible again.
Poll ==
    /\ current # NoJob
    /\ Cardinality(replies) < MaxPolls
    /\ replies' = replies \cup {Snapshot(current)}
    /\ UNCHANGED <<vars, current, shown>>

\* Variant: polls a missing job for ever.
StopOn_DoneOnly(kind) == kind = "done"

\* The callback of fetchServiceCommandStatus: show what came, and stop polling
\* when the job is over or gone.
StopOn(kind) == kind \in {"done", "missing"}

Arrive(reply) ==
    /\ reply \in replies
    /\ replies' = replies \ {reply}
    /\ shown' = [for |-> current, from |-> reply.job, kind |-> reply.kind]
    /\ current' = IF StopOn(reply.kind) THEN NoJob ELSE current
    /\ UNCHANGED vars

DialogNext ==
    \/ /\ \/ \E j \in Jobs \ Mine : Submit(j)
          \/ \E j \in Jobs : RunnerStep(j)
          \/ Expire
       /\ UNCHANGED dialogVars
    \/ \E j \in Jobs : Send(j)
    \/ Poll
    \/ \E reply \in replies : Arrive(reply)

DialogSpec == DialogInit /\ [][DialogNext]_allVars

\* Threads run; a tab that is not hidden for good polls, and polls are answered.
DialogFairSpec ==
    /\ DialogSpec
    /\ \A j \in Jobs : WF_allVars(RunnerStep(j) /\ UNCHANGED dialogVars)
    /\ WF_allVars(Poll)
    /\ WF_allVars(\E reply \in replies : Arrive(reply))

-----------------------------------------------------------------------------
DialogTypeOK ==
    /\ current \in Jobs \cup {NoJob}
    /\ replies \subseteq [job : Jobs, kind : Kinds]
    /\ shown \in [for : Jobs \cup {NoJob}, from : Jobs \cup {NoJob}, kind : Kinds]

\* Whenever the dialog reports an end, "job not found" included, the thread of
\* the job it was told of has given its last result, whatever the limit dropped
\* meanwhile and however many polls overlap.
ReportedIsOver == shown.kind # "progress" => runner[shown.from] = "over"

\* The buttons come back: a command of the tab is reported in the end, also
\* when its job was dropped from the table before the tab could read it.
CommandReported == \A j \in Mine : current = j ~> current = NoJob
=============================================================================
