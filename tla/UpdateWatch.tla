----------------------------- MODULE UpdateWatch -----------------------------
(***************************************************************************)
(* The update watch of the proxy (proxy_server.py, _update_watch).         *)
(*                                                                         *)
(* An update request is sent to its edge hosts, and those that answered    *)
(* "Started" or "Busy" are entered into the watch.  Each GET /update_status*)
(* copies the watch, asks the hosts in it, and at the end, with the        *)
(* answers it collected, drops entries from the watch as it is by then.    *)
(* Requests run on threads of their own; _update_watch_lock covers the     *)
(* entering, the copy and the dropping, but not the asking between them.   *)
(***************************************************************************)
EXTENDS Naturals, FiniteSets

CONSTANTS Hosts,         \* the edge hosts
          Posts,         \* the update requests of the users, each sent once
          Polls,         \* how many status requests can be under way, by name
          FetchMayFail,  \* whether a request to a host can fail or time out
          MayRestart,    \* whether an edge agent can restart
          Movable        \* the hosts that can lose their place in cfg

ASSUME WatchAssumption ==
    /\ IsFiniteSet(Posts)
    /\ {FetchMayFail, MayRestart} \subseteq BOOLEAN /\ Movable \subseteq Hosts

VARIABLES edge,      \* the step of each host's agent
          run,       \* history: how many updates the host was given
          aged,      \* history: the last update over for 45 seconds or more
          moved,     \* hosts whose address left cfg (update_server_ip)
          watch,     \* the keys of _update_watch
          since,     \* history: the update each entry was made for
          post,      \* where each update request is
          poll       \* where each status request is

edgeVars == <<edge, run, aged, moved>>
vars == <<edgeVars, watch, since, post, poll>>

Runs == 0 .. Cardinality(Posts)

\* An answer to update_status: the step, and the update it is about (0 when
\* updated_at is missing: after a restart, or in an answer the proxy makes up).
Answer == [step : {"none", "idle", "working", "over"}, run : Runs]
NoAnswer == [step |-> "none", run |-> 0]
MadeUp == [step |-> "over", run |-> 0]      \* _update_status_entry: "failed"

NewPost == [at |-> "none", todo |-> {}, got |-> [h \in Hosts |-> 0]]
NewPoll == [at |-> "none", asked |-> {}, got |-> [h \in Hosts |-> NoAnswer]]

Init ==
    /\ edge = [h \in Hosts |-> "idle"]
    /\ run = [h \in Hosts |-> 0]
    /\ aged = [h \in Hosts |-> 0]
    /\ moved = {}
    /\ watch = {}
    /\ since = [h \in Hosts |-> 0]
    /\ post = [q \in Posts |-> NewPost]
    /\ poll = [p \in Polls |-> NewPoll]

-----------------------------------------------------------------------------
(***************************************************************************)
(* The edge hosts, as far as the proxy can tell (module EdgeUpdate).       *)
(***************************************************************************)
FinishUpdate(h) ==
    /\ edge[h] = "working"
    /\ edge' = [edge EXCEPT ![h] = "over"]
    /\ UNCHANGED <<run, aged, moved, watch, since, post, poll>>

\* The updates of h that are over.
Finished(h) == IF edge[h] = "working" THEN run[h] - 1 ELSE run[h]

\* 45 seconds pass since the last update that is over.
Age(h) ==
    /\ aged[h] < Finished(h)
    /\ aged' = [aged EXCEPT ![h] = Finished(h)]
    /\ UNCHANGED <<edge, run, moved, watch, since, post, poll>>

\* The agent, or its host, restarts: the state of the update is lost with it.
Restart(h) ==
    /\ MayRestart
    /\ edge[h] # "idle"
    /\ edge' = [edge EXCEPT ![h] = "idle"]
    /\ UNCHANGED <<run, aged, moved, watch, since, post, poll>>

\* The address of the host's pipelines is edited; no pipeline has the old one.
Move(h) ==
    /\ h \in Movable \ moved
    /\ moved' = moved \cup {h}
    /\ UNCHANGED <<edge, run, aged, watch, since, post, poll>>

-----------------------------------------------------------------------------
(***************************************************************************)
(* POST /manage_docker with "update": manage_docker and run_n_update.      *)
(***************************************************************************)
SendUpdate(q, targets) ==
    /\ post[q].at = "none"
    /\ targets # {} /\ targets \cap moved = {}
    /\ post' = [post EXCEPT ![q].at = "sent", ![q].todo = targets]
    /\ UNCHANGED <<edgeVars, watch, since, poll>>

\* The host starts the update or answers "Busy": while it works, or while
\* the update is over and the old images are still being removed.
EdgeTakes(h) ==
    \/ /\ edge[h] # "working"
       /\ edge' = [edge EXCEPT ![h] = "working"]
       /\ run' = [run EXCEPT ![h] = run[h] + 1]
    \/ /\ edge[h] # "idle"
       /\ UNCHANGED <<edge, run>>

HostAnswers(q, h) ==
    /\ post[q].at = "sent" /\ h \in post[q].todo
    /\ \/ /\ EdgeTakes(h)
          /\ post' = [post EXCEPT ![q].todo = @ \ {h}, ![q].got[h] = run'[h]]
       \/ /\ FetchMayFail        \* never reached, or started and timed out
          /\ UNCHANGED <<edge, run>> \/ EdgeTakes(h)
          /\ post' = [post EXCEPT ![q].todo = @ \ {h}]
    /\ UNCHANGED <<aged, moved, watch, since, poll>>

\* _register_update_watch, for the hosts that started or were busy.
Entered(q) == {h \in Hosts : post[q].got[h] > 0}

Register(q) ==
    /\ post[q].at = "sent" /\ post[q].todo = {}
    /\ watch' = watch \cup Entered(q)
    /\ since' = [h \in Hosts |-> IF post[q].got[h] > since[h]
                                 THEN post[q].got[h] ELSE since[h]]
    /\ post' = [post EXCEPT ![q] = [NewPost EXCEPT !.at = "over"]]
    /\ UNCHANGED <<edgeVars, poll>>

-----------------------------------------------------------------------------
(***************************************************************************)
(* GET /update_status: _collect_update_status and _prune_update_watch.     *)
(***************************************************************************)

\* Copy the watch, and ask the hosts in it that cfg still names.
StartPoll(p) ==
    /\ poll[p].at = "none"
    /\ watch # {}
    /\ poll' = [poll EXCEPT ![p] = [NewPoll EXCEPT !.at = "asking",
                                                   !.asked = watch \ moved]]
    /\ UNCHANGED <<edgeVars, watch, since, post>>

\* A host answers, or _update_status_entry answers for it with "failed".
PollAnswer(p, h) ==
    /\ h \in poll[p].asked
    /\ \E answer \in
          {[step |-> edge[h], run |-> IF edge[h] = "idle" THEN 0 ELSE run[h]]}
          \cup (IF FetchMayFail THEN {MadeUp} ELSE {}) :
              poll' = [poll EXCEPT ![p].asked = @ \ {h}, ![p].got[h] = answer]
    /\ UNCHANGED <<edgeVars, watch, since, post>>

\* _update_step_active: a host without an answer counts as active.
StepActive(answer) == answer.step \in {"none", "working"}

\* updated_at is there and 45 seconds old.
LongOver(answer, h) == answer.run > 0 /\ answer.run <= aged[h]

\* Variant: entries do not wait for each other.
Dropped_EachOnItsOwn(got) ==
    {h \in watch : ~StepActive(got[h]) /\ LongOver(got[h], h)}

\* Variant: terminal entries do not stay 45 seconds.
Dropped_AnyAge(got) ==
    IF \E h \in watch : StepActive(got[h]) THEN {} ELSE watch

\* Variant: nothing is dropped.
Dropped_Never(got) == {}

\* The entries _prune_update_watch drops.
Dropped(got) ==
    IF \E h \in watch : StepActive(got[h]) THEN {}
    ELSE {h \in watch : LongOver(got[h], h)}

EndPoll(p) ==
    /\ poll[p].at = "asking" /\ poll[p].asked = {}
    /\ watch' = watch \ Dropped(poll[p].got)
    /\ poll' = [poll EXCEPT ![p] = NewPoll]
    /\ UNCHANGED <<edgeVars, since, post>>

-----------------------------------------------------------------------------
Next ==
    \/ \E h \in Hosts : FinishUpdate(h) \/ Age(h) \/ Restart(h) \/ Move(h)
    \/ \E q \in Posts :
          \/ \E targets \in SUBSET Hosts : SendUpdate(q, targets)
          \/ \E h \in Hosts : HostAnswers(q, h)
          \/ Register(q)
    \/ \E p \in Polls :
          \/ StartPoll(p)
          \/ \E h \in Hosts : PollAnswer(p, h)
          \/ EndPoll(p)

Spec == Init /\ [][Next]_vars

\* Updates end, time passes, requests are answered or time out, and some page
\* goes on asking for the status (each page asks when it loads, and every
\* second while an update dialog is open).
Fairness ==
    /\ \A h \in Hosts : WF_vars(FinishUpdate(h)) /\ WF_vars(Age(h))
    /\ \A q \in Posts : /\ \A h \in Hosts : WF_vars(HostAnswers(q, h))
                        /\ WF_vars(Register(q))
    /\ \A p \in Polls : /\ WF_vars(StartPoll(p))
                        /\ \A h \in Hosts : WF_vars(PollAnswer(p, h))
                        /\ WF_vars(EndPoll(p))

FairSpec == Spec /\ Fairness

-----------------------------------------------------------------------------
TypeOK ==
    /\ edge \in [Hosts -> {"idle", "working", "over"}]
    /\ run \in [Hosts -> Runs] /\ aged \in [Hosts -> Runs]
    /\ moved \subseteq Hosts /\ watch \subseteq Hosts
    /\ since \in [Hosts -> Runs]
    /\ post \in [Posts -> [at : {"none", "sent", "over"},
                           todo : SUBSET Hosts, got : [Hosts -> Runs]]]
    /\ poll \in [Polls -> [at : {"none", "asking"},
                           asked : SUBSET Hosts, got : [Hosts -> Answer]]]

DroppedNow == watch \ watch'
RunsStill(h) == edge[h] = "working" /\ run[h] = since[h]

\* A status request holds an answer of h about an update before the one the
\* entry of h is made for.
Outdated(h) == \E p \in Polls : poll[p].got[h].run \in 1 .. since[h] - 1

\* The same, or an answer that is about no update: "idle" from an agent that
\* had just restarted, or one the proxy made up for a failed request.
Unheard(h) == \E p \in Polls : poll[p].got[h].step # "none"
                                /\ poll[p].got[h].run < since[h]
Unreached(h) == \E p \in Polls : poll[p].got[h] = MadeUp

\* An entry is not dropped while the update it was made for still runs: the
\* update dialog learns of an update only through its entry, and waits for
\* ever without one.  The exception is an entry that was renewed between the
\* answer of its host and the end of the status request that asked.
EntryOutlivesUpdate ==
    [][\A h \in DroppedNow : ~RunsStill(h) \/ Outdated(h)]_vars

\* "Drop finished hosts only after every watched host has reached a terminal
\* step" (_prune_update_watch), of the hosts that answered for the update they
\* are watched for: a host that still runs keeps all the others watched.
DropsAfterAllAnswered ==
    [][DroppedNow # {} => \A h \in watch : ~RunsStill(h) \/ Unheard(h)]_vars

\* A watched host is dropped in the end, so that the proxy does not ask it with
\* every status request for ever: once no more requests fail, if its address is
\* not edited and its agent does not restart.
Lasting == moved = {} /\ \A h \in Hosts : edge[h] = "idle" => run[h] = 0
WatchDrains ==
    /\ []Lasting
    /\ <>[]~(\E h \in Hosts : Unreached(h))
    => (watch # {} ~> watch = {})
=============================================================================
