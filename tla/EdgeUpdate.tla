----------------------------- MODULE EdgeUpdate -----------------------------
(***************************************************************************)
(* The update slot of the edge agent (app.py).                             *)
(*                                                                         *)
(* Every POST /command runs on a Flask thread of its own.  An "update"     *)
(* command takes _update_lock, answers "Busy" when an update runs or a     *)
(* prune is flagged, and otherwise marks the state as running, releases    *)
(* the lock and starts the update thread.  That thread runs                *)
(* update_pipeline: a preamble that asks docker and systemd, the work, and *)
(* a finish that publishes the outcome and starts a prune thread.  An      *)
(* "update_status" command copies the state under the same lock.           *)
(*                                                                         *)
(* _update_lock is a threading.Lock, which its owner cannot take again.    *)
(* Each critical section of the code is one action guarded by a free lock, *)
(* except the one in which the owner asks for the lock again.              *)
(***************************************************************************)
CONSTANTS Updates,     \* the update commands that arrive, one thread each
          Polls,       \* the update_status commands that arrive
          MayRaise,    \* whether threads fail to start and update_pipeline raises
          NoThread     \* the owner of a free lock

ASSUME UpdateAssumption ==
    /\ MayRaise \in BOOLEAN
    /\ NoThread \notin Updates

VARIABLES lock,        \* the thread that owns _update_lock, or NoThread
          running,     \* _update_state["running"]
          step,        \* _update_state["step"]
          pruning,     \* _update_pruning
          upd,         \* where the handler and the thread of an update are
          prune,       \* where the prune thread of an update is
          poll         \* which status commands were answered

vars == <<lock, running, step, pruning, upd, prune, poll>>

(***************************************************************************)
(* An update is "sent", then "busy" (refused) or "marked" (accepted, its   *)
(* thread not started), "thread" (in the preamble), "working", "finished"  *)
(* (outcome published, prune thread not started) and "over".  "raised" and *)
(* "unspawned" are a thread on which an exception left update_pipeline,    *)
(* before the work or when the prune thread could not be started;          *)
(* "stranded" is an accepted update whose own thread could not be.         *)
(***************************************************************************)
UpdatePhase == {"sent", "busy", "marked", "stranded", "thread", "raised", "working",
                "finished", "unspawned", "over"}

PrunePhase == {"none", "spawned", "pruning", "over"}

\* _TERMINAL_UPDATE_STEPS without the "idle" the state starts with.
Outcomes == {"done", "failed"}

\* "working" stands for every step _set_update_step writes during the work.
Steps == {"idle", "starting", "working"} \cup Outcomes

\* The update owns the slot: it was accepted and has published no outcome.
Active(i) == upd[i] \in {"marked", "stranded", "thread", "raised", "working"}

Free == lock = NoThread

Init ==
    /\ lock = NoThread
    /\ running = FALSE
    /\ step = "idle"
    /\ pruning = FALSE
    /\ upd = [i \in Updates |-> "sent"]
    /\ prune = [i \in Updates |-> "none"]
    /\ poll = [p \in Polls |-> "sent"]

-----------------------------------------------------------------------------
(***************************************************************************)
(* The command handler: start_update_pipeline.                             *)
(***************************************************************************)

\* Variant: a running update refuses nobody.
InProgress_OnlyPrune == pruning

\* _update_in_progress, read under the lock.
InProgress == running \/ pruning

\* An update is under way: the command is answered "Busy".
Refuse(i) ==
    /\ upd[i] = "sent"
    /\ Free
    /\ InProgress
    /\ upd' = [upd EXCEPT ![i] = "busy"]
    /\ UNCHANGED <<lock, running, step, pruning, prune, poll>>

\* _mark_update_preparing: the slot is taken before any thread is started.
MarkPreparing ==
    /\ running' = TRUE
    /\ step' = "starting"

\* Variant: the lock is not released.
Accept_KeepsLock(i) ==
    /\ upd[i] = "sent"
    /\ Free
    /\ ~InProgress
    /\ MarkPreparing
    /\ lock' = i
    /\ upd' = [upd EXCEPT ![i] = "marked"]
    /\ UNCHANGED <<pruning, prune, poll>>

\* Nothing is under way: the slot is taken under the lock.
Accept(i) ==
    /\ upd[i] = "sent"
    /\ Free
    /\ ~InProgress
    /\ MarkPreparing
    /\ upd' = [upd EXCEPT ![i] = "marked"]
    /\ UNCHANGED <<lock, pruning, prune, poll>>

\* Outside the lock: the probe caches are dropped, the thread is started and
\* the command is answered "Started".
StartThread(i) ==
    /\ upd[i] = "marked"
    /\ upd' = [upd EXCEPT ![i] = "thread"]
    /\ UNCHANGED <<lock, running, step, pruning, prune, poll>>

\* Thread.start can raise when the process has no thread to spare.  The mark
\* stays, for only the thread would take it back.
StartThreadFails(i) ==
    /\ MayRaise
    /\ upd[i] = "marked"
    /\ upd' = [upd EXCEPT ![i] = "stranded"]
    /\ UNCHANGED <<lock, running, step, pruning, prune, poll>>

-----------------------------------------------------------------------------
(***************************************************************************)
(* The update thread: update_pipeline inside the handler of _run.          *)
(***************************************************************************)

\* The preamble found jobs and the active services: _begin_update_state.
Begin(i) ==
    /\ upd[i] = "thread"
    /\ Free
    /\ running' = TRUE
    /\ step' = "working"
    /\ upd' = [upd EXCEPT ![i] = "working"]
    /\ UNCHANGED <<lock, pruning, prune, poll>>

\* The preamble raises, outside the function's own try: no job in the command,
\* or "docker ps" timing out while the active services are read.
RaiseInPreamble(i) ==
    /\ MayRaise
    /\ upd[i] = "thread"
    /\ upd' = [upd EXCEPT ![i] = "raised"]
    /\ UNCHANGED <<lock, running, step, pruning, prune, poll>>

\* Variant: the outcome is not published.
PublishOutcome_NoStep ==
    /\ running' = FALSE
    /\ step' = step

\* The work ended, with or without errors: _finish_update_state.
PublishOutcome ==
    /\ running' = FALSE
    /\ step' \in Outcomes

Finish(i) ==
    /\ upd[i] = "working"
    /\ Free
    /\ PublishOutcome
    /\ upd' = [upd EXCEPT ![i] = "finished"]
    /\ UNCHANGED <<lock, pruning, prune, poll>>

\* The last line of update_pipeline starts the prune thread.
SpawnPrune(i) ==
    /\ upd[i] = "finished"
    /\ upd' = [upd EXCEPT ![i] = "over"]
    /\ prune' = [prune EXCEPT ![i] = "spawned"]
    /\ UNCHANGED <<lock, running, step, pruning, poll>>

\* Thread.start raises here as well.
SpawnPruneFails(i) ==
    /\ MayRaise
    /\ upd[i] = "finished"
    /\ upd' = [upd EXCEPT ![i] = "unspawned"]
    /\ UNCHANGED <<lock, running, step, pruning, prune, poll>>

\* The handler of _run takes the lock.  When some update is marked as running
\* it calls _finish_update_state, whose first line asks for the lock this
\* thread owns: the thread stays here, the lock with it, and no step of any
\* thread that needs the lock is enabled again.  Otherwise the thread ends.
HandleException(i) ==
    /\ upd[i] \in {"raised", "unspawned"}
    /\ Free
    /\ \/ /\ running
          /\ lock' = i
          /\ UNCHANGED upd
       \/ /\ ~running
          /\ upd' = [upd EXCEPT ![i] = "over"]
          /\ UNCHANGED lock
    /\ UNCHANGED <<running, step, pruning, prune, poll>>

-----------------------------------------------------------------------------
(***************************************************************************)
(* The prune thread, _prune_after_update, and the status command.          *)
(***************************************************************************)

\* The flag goes up when the prune thread runs, after the slot was released.
StartPrune(i) ==
    /\ prune[i] = "spawned"
    /\ Free
    /\ pruning' = TRUE
    /\ prune' = [prune EXCEPT ![i] = "pruning"]
    /\ UNCHANGED <<lock, running, step, upd, poll>>

\* Variant: no finally that lowers the flag.
EndPrune_KeepsFlag(i) ==
    /\ prune[i] = "pruning"
    /\ Free
    /\ prune' = [prune EXCEPT ![i] = "over"]
    /\ UNCHANGED <<lock, running, step, pruning, upd, poll>>

\* docker image prune ended or raised; the finally lowers the flag.
EndPrune(i) ==
    /\ prune[i] = "pruning"
    /\ Free
    /\ pruning' = FALSE
    /\ prune' = [prune EXCEPT ![i] = "over"]
    /\ UNCHANGED <<lock, running, step, upd, poll>>

\* get_update_status copies the state under the lock.
AnswerPoll(p) ==
    /\ poll[p] = "sent"
    /\ Free
    /\ poll' = [poll EXCEPT ![p] = "answered"]
    /\ UNCHANGED <<lock, running, step, pruning, upd, prune>>

-----------------------------------------------------------------------------
Handler(i) == Refuse(i) \/ Accept(i) \/ StartThread(i) \/ StartThreadFails(i)

UpdateThread(i) ==
    \/ Begin(i) \/ RaiseInPreamble(i) \/ Finish(i)
    \/ SpawnPrune(i) \/ SpawnPruneFails(i) \/ HandleException(i)

PruneThread(i) == StartPrune(i) \/ EndPrune(i)

Next ==
    \/ \E i \in Updates : Handler(i) \/ UpdateThread(i) \/ PruneThread(i)
    \/ \E p \in Polls : AnswerPoll(p)

Spec == Init /\ [][Next]_vars

\* The operating system runs every thread, and the commands an update runs
\* (git, docker, systemctl) end.  No exception has to be raised.
Fairness ==
    /\ \A i \in Updates : /\ WF_vars(Refuse(i) \/ Accept(i) \/ StartThread(i))
                          /\ WF_vars(\/ Begin(i) \/ Finish(i)
                                     \/ SpawnPrune(i) \/ HandleException(i))
                          /\ WF_vars(PruneThread(i))
    /\ \A p \in Polls : WF_vars(AnswerPoll(p))

FairSpec == Spec /\ Fairness

-----------------------------------------------------------------------------
TypeOK ==
    /\ lock \in Updates \cup {NoThread}
    /\ running \in BOOLEAN
    /\ step \in Steps
    /\ pruning \in BOOLEAN
    /\ upd \in [Updates -> UpdatePhase]
    /\ prune \in [Updates -> PrunePhase]
    /\ poll \in [Polls -> {"sent", "answered"}]

\* Two updates are never under way together, however their threads, the prunes
\* of earlier updates and failing preambles interleave: the check in
\* start_update_pipeline and the mark share one critical section, and nothing
\* but the holder's own finish clears "running".
OneUpdateAtATime ==
    /\ \A i, j \in Updates : Active(i) /\ Active(j) => i = j
    /\ running <=> \E i \in Updates : Active(i)

\* What a status command can see is coherent: no outcome while an update runs,
\* and no working step once it is over.  The UI stops polling on an outcome.
StatusCoherent ==
    IF running THEN step \in {"starting", "working"}
               ELSE step \in {"idle"} \cup Outcomes

\* A raised prune flag always has a prune thread that will lower it, also when
\* the prunes of two updates overlap; otherwise every later update is refused.
PruneFlagHasOwner ==
    pruning => \E i \in Updates : prune[i] = "pruning"

\* A published outcome stays until another update is accepted: a client that
\* polls late still reads how the last update ended.
OutcomeStays ==
    [][(step \in Outcomes /\ step' # step)
          => (step' = "starting" /\ ~running /\ ~pruning)]_vars

\* The agent implements the abstract slot: accepted updates hold it in turn,
\* and the outcome appears in the step that releases it.
Slot == INSTANCE UpdateSlot WITH
            holders <- {i \in Updates : Active(i)},
            served <- {i \in Updates : upd[i] \notin {"sent", "busy"}}

ImplementsSlot == Slot!Spec

NoException == \A i \in Updates : upd[i] \notin {"stranded", "raised", "unspawned"}

\* Unless an exception leaves update_pipeline or its thread cannot be started,
\* every update command gets an answer, and an accepted update ends: no thread
\* waits for the lock for ever.
EveryUpdateSettles ==
    []NoException =>
        \A i \in Updates : (upd[i] = "sent") ~> (upd[i] \in {"busy", "over"})

\* Every status command gets an answer, whatever the updates do.
EveryPollAnswered ==
    \A p \in Polls : (poll[p] = "sent") ~> (poll[p] = "answered")
=============================================================================
