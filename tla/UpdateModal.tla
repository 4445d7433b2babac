---------------------------- MODULE UpdateModal ----------------------------
(***************************************************************************)
(* The update dialog of the web UI (templates/static/index.js) over one    *)
(* update of one edge host.  It opens when the host answered "Started", or *)
(* "Busy": while an update of another user runs, perhaps of other services,*)
(* and also after it, while the images are pruned.  The dialog polls       *)
(* /get_update_status through the proxy, which asks the edge for its state *)
(* and, when the request fails, answers for it with a made-up "failed"     *)
(* step; once the host has left the proxy's watch or its list, the answers *)
(* say nothing of it.  Polls overlap, so answers can arrive out of order.  *)
(* The dialog ends its polling and reports each target once it judges the  *)
(* update complete.                                                        *)
(***************************************************************************)
EXTENDS PipelineUpdate, FiniteSets

CONSTANTS Targets,        \* the services the user selected
          FetchMayFail,   \* whether the proxy's request to the edge can fail
          MayForget,      \* whether the host can leave the proxy's watch or cfg
          MaxPolls        \* polls in flight at a time

ASSUME ModalAssumption ==
    /\ Targets # {}
    /\ {FetchMayFail, MayForget} \subseteq BOOLEAN /\ MaxPolls \in Nat \ {0}

VARIABLES modal,     \* "open" while activeUpdateTargets is set, then "complete"
          watched,   \* the proxy has the host in _update_watch and in cfg
          shown,     \* the verdict the dialog ends with for each target
          madeUp,    \* history: it ended on an answer that was not the edge's
          replies    \* answers of the proxy that have not arrived yet

modalVars == <<modal, watched, shown, madeUp, replies>>
allVars == <<vars, modalVars>>

\* What _fetch_edge_update_status returns; what _collect_update_status answers
\* for an edge it could not ask, without service_steps; and an answer without
\* an entry for the host.
EdgeReply == [step |-> IF outcome = "none" THEN "working" ELSE outcome,
              services |-> svcStep]
FailedReply == [step |-> "failed", services |-> [s \in Services |-> "none"]]
NoEntry == [step |-> "none", services |-> [s \in Services |-> "none"]]

Over(reply) == reply.step \in {"done", "failed"}

\* pipelineServiceStep: a target the update does not concern has none.
StepOf(reply, s) == IF s \in Services THEN reply.services[s] ELSE "none"

-----------------------------------------------------------------------------
(***************************************************************************)
(* How the dialog reads an answer.                                         *)
(***************************************************************************)

\* Variant: a build completes system_monitor.
SysComplete_Built(reply) ==
    Over(reply) \/ StepOf(reply, Sys) \in {"failed", "restarted", "built"}

\* sysMonitorUpdateComplete: a build alone does not complete system_monitor.
SysComplete(reply) ==
    Over(reply) \/ StepOf(reply, Sys) \in {"failed", "restarted"}

\* A service step "done", whatever its label says was done.
StepDone(reply, s) == StepOf(reply, s) \in {"built", "restarted"}

\* pipelineUpdateEntry.  A host that failed without naming the service counts
\* as a success of the service.
Verdict(reply, s) ==
    IF StepOf(reply, s) = "failed" THEN "failed"
    ELSE IF \/ Over(reply)
            \/ StepDone(reply, s) /\ (s = Sys => SysComplete(reply))
         THEN "ok" ELSE "pending"

\* pipelineUpdateTerminal.
Terminal(reply, s) ==
    IF s = Sys THEN SysComplete(reply)
    ELSE Over(reply) \/ StepOf(reply, s) \in {"built", "restarted", "failed"}

\* Variant: waits for services that are not restarted.
Complete_NeedsRestart(reply) ==
    \A s \in Targets : StepOf(reply, s) = "restarted"

\* isUpdateModalComplete, for the one host of the targets.
Complete(reply) ==
    \/ /\ \A s \in Targets : Verdict(reply, s) # "pending"
       /\ Sys \in Targets => SysComplete(reply)
    \/ Over(reply)
    \/ \A s \in Targets : Terminal(reply, s)

-----------------------------------------------------------------------------
ModalInit ==
    /\ Init
    /\ modal = "closed"
    /\ watched = TRUE
    /\ shown = [s \in Targets |-> "pending"]
    /\ madeUp = FALSE
    /\ replies = {}

\* handleManageDockerResponse: the proxy has put the host into its watch, for
\* "Started", when the update has just replaced the previous outcome
\* (_mark_update_preparing), or for "Busy", at any later moment of it.
Open ==
    /\ modal = "closed" /\ watched
    /\ modal' = "open"
    /\ UNCHANGED <<vars, watched, shown, madeUp, replies>>

\* The polls of another page dropped the finished update from the watch after
\* 45 seconds, the proxy restarted, or its list of addresses changed.
Forget ==
    /\ MayForget /\ watched /\ modal = "open"
    /\ watched' = FALSE
    /\ UNCHANGED <<vars, modal, shown, madeUp, replies>>

\* One poll reaches the proxy and, unless the request fails, the edge.
Ask ==
    /\ modal = "open"
    /\ Cardinality(replies) < MaxPolls
    /\ \/ watched /\ replies' = replies \cup {EdgeReply}
       \/ watched /\ FetchMayFail /\ replies' = replies \cup {FailedReply}
       \/ ~watched /\ replies' = replies \cup {NoEntry}
    /\ UNCHANGED <<vars, modal, watched, shown, madeUp>>

\* fetchUpdateStatus' callback: render, and stop polling when complete.  What
\* arrives after that is ignored, since there are no targets any more.  (What
\* is rendered before that is left out.)
Render ==
    \E reply \in replies \ {NoEntry} :
        /\ modal = "open"
        /\ IF Complete(reply)
           THEN /\ modal' = "complete" /\ replies' = {}
                /\ shown' = [s \in Targets |-> Verdict(reply, s)]
                /\ madeUp' = (reply = FailedReply)
           ELSE /\ replies' = replies \ {reply}
                /\ UNCHANGED <<modal, shown, madeUp>>
        /\ UNCHANGED <<vars, watched>>

\* mergeUpdateServers: without an entry the last one counts, which did not
\* complete the update when it came.
RenderNoEntry ==
    /\ modal = "open"
    /\ NoEntry \in replies
    /\ replies' = replies \ {NoEntry}
    /\ UNCHANGED <<vars, modal, watched, shown, madeUp>>

ModalNext ==
    \/ Next /\ UNCHANGED modalVars
    \/ Open \/ Forget
    \/ Ask
    \/ Render \/ RenderNoEntry

ModalSpec == ModalInit /\ [][ModalNext]_allVars

\* The page is visible, so that its timer fires, and answers arrive: every
\* answer in flight is rendered in the end.
ModalFairSpec ==
    /\ ModalSpec
    /\ WF_allVars(Update /\ UNCHANGED modalVars)
    /\ WF_allVars(Ask)
    /\ WF_allVars(Render)
    /\ WF_allVars(RenderNoEntry)

-----------------------------------------------------------------------------
ModalTypeOK ==
    /\ modal \in {"closed", "open", "complete"}
    /\ watched \in BOOLEAN
    /\ shown \in [Targets -> {"pending", "ok", "failed"}]
    /\ madeUp \in BOOLEAN
    /\ Cardinality(replies) <= MaxPolls

\* When the user selected system_monitor too, a dialog that reports completion
\* on an answer of the edge has waited for the last restart of the host: nothing
\* the update still does can turn a service shown as "ok" into a failure, and
\* one that was active has been restarted by then.  An update that an exception
\* ended (Thrown) keeps only the first half: index.js counts a host that failed
\* without naming the service as a success of the service.
ClosedVerdictFinal ==
    modal = "complete" /\ ~madeUp => \A s \in Targets \cap Services :
        /\ shown[s] = "ok" => svcStep[s] # "failed"
        /\ shown[s] = "failed" => svcStep[s] = "failed"
        /\ s \in activeBefore /\ shown[s] = "ok" =>
             svcStep[s] = "restarted" \/ Thrown

\* An open dialog reports once the update is over, unless the proxy has lost
\* the host from its watch or its list, in which case it polls for ever.
ModalCompletes == modal = "open" ~> modal = "complete" \/ ~watched
=============================================================================
