----------------------------- MODULE Collector -----------------------------
(***************************************************************************)
(* The status collector of the proxy (proxy_server.py).                    *)
(*                                                                         *)
(* While someone views the page, one background thread asks every edge     *)
(* host for its status, applies the answers to the global map              *)
(* img_n_status, retries the hosts that failed once, and rests.  A Flask   *)
(* thread that handles a forced refresh starts a new generation, which     *)
(* cancels the collection under way, and wipes the map; the collector      *)
(* wipes it once more before it collects again.  _collect_lock guards the  *)
(* generation and the flags, and the wipe of a forced refresh; nothing     *)
(* guards the collector's own wipe and its writes to the map.              *)
(***************************************************************************)
EXTENDS Integers, FiniteSets

CONSTANTS Hosts,       \* the edge hosts, one row of the map for each
          Loose,       \* rows of pipelines without a usable server_ip
          Drift,       \* the hosts whose pipeline is a camera drift,
          Kafka,       \* a Kafka consumer,
          PlcCv,       \* or a PLC-CV: the rows with chips of their own
          Forcers,     \* the requests that force a refresh
          NoThread     \* the owner of a free lock

ASSUME CollectorAssumption ==
    /\ NoThread \notin Forcers
    /\ Hosts \cap Loose = {}
    /\ Drift \cup Kafka \cup PlcCv \subseteq Hosts
    /\ IsFiniteSet(Forcers)

VARIABLES lock,          \* the forced refresh that owns _collect_lock
          gen,           \* _collect_generation
          pendingReset,  \* _pending_reset
          rerunAfter,    \* _rerun_after
          collectReset,  \* _collect_reset
          refreshing,    \* _refreshing
          viewers,       \* _viewers_active()
          rows,          \* img_n_status: the status, and when it was observed
          chips,         \* the rows whose probe metrics are complete
          versions,      \* the rows whose version fields are filled
          known,         \* history: the rows whose versions were there when
                         \* last saved, or were read since and outside a wipe
          at,            \* where the collector thread is
          reset,         \* the collector's own choice whether to wipe
          myGen,         \* collect_gen, the generation of this collection
          tasks,         \* the hosts whose answer is not applied yet
          answer,        \* the answer of each host asked
          failed,        \* failed_ips
          retrying,      \* whether this is the second round
          mySnap,        \* what the collector's wipe saved
          force,         \* where each forced refresh is
          snap           \* what its wipe saved

flagVars == <<gen, pendingReset, rerunAfter>>
mapVars == <<rows, chips, versions, known>>
fetchVars == <<tasks, answer, failed, retrying>>
forceVars == <<lock, force, snap>>
vars == <<flagVars, mapVars, fetchVars, forceVars, collectReset, refreshing,
          viewers, at, reset, myGen, mySnap>>

Rows == Hosts \cup Loose
Free == lock = NoThread

Never == -1
Gens == 0 .. Cardinality(Forcers)

\* "OK" is any status that an edge gave.
Row == [status : {"PENDING", "OK", "ERR"}, asOf : Gens \cup {Never}]

\* An edge answers with all metrics, without those of the chips, or for a camera
\* drift with neither metrics nor a failure: /get_drift is there, the cameras not.
Answer == [kind : {"none", "ok", "bare", "half", "fail"}, asOf : Gens]
Blank == [status |-> "PENDING", asOf |-> Never]
NoAnswer == [kind |-> "none", asOf |-> 0]

Probed == Drift \cup Kafka \cup PlcCv

\* What a wipe saves: version fields, and whole rows with their chips.
Saves == [versions : SUBSET Rows, rows : UNION {[P -> Row] : P \in SUBSET Probed}]
Nothing == [versions |-> {}, rows |-> [r \in {} |-> Blank]]

\* preview_from_cfg.
Preview == [r \in Rows |-> Blank]

Places == {"idle", "picked", "snap", "wipe", "restore", "start", "check",
           "await", "last", "fill", "rerun", "rest"}

\* _is_collect_complete.
CollectComplete == \A r \in Rows : rows[r].status # "PENDING"

Init ==
    /\ lock = NoThread
    /\ gen = 0
    /\ pendingReset = FALSE /\ rerunAfter = FALSE
    /\ collectReset = FALSE /\ refreshing = FALSE
    /\ viewers = FALSE
    /\ rows = Preview /\ chips = {} /\ versions = {} /\ known = {}
    /\ at = "idle" /\ reset = FALSE /\ myGen = 0
    /\ tasks = {} /\ answer = [h \in Hosts |-> NoAnswer]
    /\ failed = {} /\ retrying = FALSE
    /\ mySnap = Nothing
    /\ force = [f \in Forcers |-> "none"]
    /\ snap = [f \in Forcers |-> Nothing]

-----------------------------------------------------------------------------
(***************************************************************************)
(* The wipe, _reset_status_keeping_cache, in the steps that other threads  *)
(* can fall between: save the versions and the rows with complete chips,   *)
(* bind the global to a fresh map, put what was saved back into whatever   *)
(* map the global names by then.                                           *)
(***************************************************************************)
Snapshot == [versions |-> versions, rows |-> [r \in chips |-> rows[r]]]

\* Variant: the statuses are kept.
Wipe_VersionsOnly == rows' = rows /\ chips' = {} /\ versions' = {}

Wipe == rows' = Preview /\ chips' = {} /\ versions' = {}

\* Variant: the fresh map gets the versions that were saved, and no others.
PutBack_Replaces(saved) ==
    /\ versions' = saved.versions
    /\ rows' = [r \in Rows |-> IF r \in DOMAIN saved.rows THEN saved.rows[r] ELSE rows[r]]
    /\ chips' = chips \cup DOMAIN saved.rows

\* Versions fill what is empty; a row with chips is put back with its status.
PutBack(saved) ==
    /\ versions' = versions \cup saved.versions
    /\ rows' = [r \in Rows |-> IF r \in DOMAIN saved.rows THEN saved.rows[r] ELSE rows[r]]
    /\ chips' = chips \cup DOMAIN saved.rows

(***************************************************************************)
(* A forced refresh: request_force_refresh, on a Flask thread.             *)
(***************************************************************************)

\* Under the lock: a new generation and the flags; the wipe saves first.
\* Only GET /get_status?force=1 counts as a viewer; an update command or the
\* end of a service job does not.
StartGeneration ==
    /\ gen' = gen + 1
    /\ pendingReset' = TRUE
    /\ rerunAfter' = TRUE
    /\ collectReset' = TRUE

RequestRefresh(f) ==
    /\ force[f] = "none"
    /\ Free
    /\ lock' = f
    /\ StartGeneration
    /\ snap' = [snap EXCEPT ![f] = Snapshot]
    /\ known' = known \cap versions
    /\ force' = [force EXCEPT ![f] = "wipe"]
    /\ viewers' \in {viewers, TRUE}
    /\ UNCHANGED <<rows, chips, versions, fetchVars, refreshing, at, reset, myGen, mySnap>>

ForceWipe(f) ==
    /\ force[f] = "wipe"
    /\ Wipe
    /\ force' = [force EXCEPT ![f] = "restore"]
    /\ UNCHANGED <<flagVars, known, fetchVars, lock, snap, collectReset,
                   refreshing, viewers, at, reset, myGen, mySnap>>

ForceRestore(f) ==
    /\ force[f] = "restore"
    /\ PutBack(snap[f])
    /\ snap' = [snap EXCEPT ![f] = Nothing]
    /\ lock' = NoThread
    /\ force' = [force EXCEPT ![f] = "over"]
    /\ UNCHANGED <<flagVars, known, fetchVars, collectReset,
                   refreshing, viewers, at, reset, myGen, mySnap>>

-----------------------------------------------------------------------------
\* A forced refresh has saved what it keeps and not yet bound the fresh map.
Saved == \E f \in Forcers : force[f] = "wipe"

(***************************************************************************)
(* The collector thread: collector_loop and run_collect.                   *)
(***************************************************************************)

\* Variant: an incomplete map is not wiped.
Pick_OnlyPending ==
    /\ at = "idle"
    /\ viewers
    /\ Free
    /\ reset' = pendingReset
    /\ pendingReset' = FALSE
    /\ at' = "picked"
    /\ UNCHANGED <<gen, rerunAfter, mapVars, fetchVars, forceVars, collectReset,
                   refreshing, viewers, myGen, mySnap>>

\* Someone looks: decide under the lock whether the map must be wiped.  The
\* request for a wipe is taken over here, before the viewers are asked again.
Pick ==
    /\ at = "idle"
    /\ viewers
    /\ Free
    /\ reset' = (pendingReset \/ ~CollectComplete)
    /\ pendingReset' = FALSE
    /\ at' = "picked"
    /\ UNCHANGED <<gen, rerunAfter, mapVars, fetchVars, forceVars, collectReset,
                   refreshing, viewers, myGen, mySnap>>

\* Nobody looks any more: back to waiting.
GiveUp ==
    /\ at = "picked"
    /\ ~viewers
    /\ at' = "idle"
    /\ UNCHANGED <<flagVars, mapVars, fetchVars, forceVars, collectReset,
                   refreshing, viewers, reset, myGen, mySnap>>

\* run_collect: read the generation under the lock, raise the flags.
BeginCollect ==
    /\ at = "picked"
    /\ viewers
    /\ Free
    /\ myGen' = gen
    /\ collectReset' = reset
    /\ refreshing' = TRUE
    /\ at' = IF reset THEN "snap" ELSE "start"
    /\ UNCHANGED <<flagVars, mapVars, fetchVars, forceVars, viewers, reset, mySnap>>

\* The collector's own wipe, which takes no lock.
SaveVersions ==
    /\ at = "snap"
    /\ mySnap' = Snapshot
    /\ known' = known \cap versions
    /\ at' = "wipe"
    /\ UNCHANGED <<flagVars, rows, chips, versions, fetchVars, forceVars,
                   collectReset, refreshing, viewers, reset, myGen>>

WipeMap ==
    /\ at = "wipe"
    /\ Wipe
    /\ at' = "restore"
    /\ UNCHANGED <<flagVars, known, fetchVars, forceVars, collectReset,
                   refreshing, viewers, reset, myGen, mySnap>>

RestoreVersions ==
    /\ at = "restore"
    /\ PutBack(mySnap)
    /\ mySnap' = Nothing
    /\ at' = "start"
    /\ UNCHANGED <<flagVars, known, fetchVars, forceVars, collectReset,
                   refreshing, viewers, reset, myGen>>

\* _mark_pipelines_without_ip, and one task for every host.
StartTasks ==
    /\ at = "start"
    /\ rows' = [r \in Rows |-> IF r \in Loose
                               THEN [status |-> "ERR", asOf |-> gen] ELSE rows[r]]
    /\ versions' = versions \ Loose
    /\ known' = known \ Loose
    /\ UNCHANGED chips
    /\ tasks' = Hosts
    /\ answer' = [h \in Hosts |-> NoAnswer]
    /\ failed' = {}
    /\ retrying' = FALSE
    /\ at' = "check"
    /\ UNCHANGED <<flagVars, forceVars, collectReset, refreshing, viewers,
                   reset, myGen, mySnap>>

\* An edge reports its state as it is now; or the request fails, times out, or
\* is not made because fetch_host finds the collection cancelled.
EdgeAnswers(h) ==
    /\ at \in {"check", "await"}
    /\ h \in tasks
    /\ answer[h].kind = "none"
    /\ \E k \in {"ok", "bare", "half", "fail"} :
          /\ k = "bare" => h \in Probed
          /\ k = "half" => h \in Drift
          /\ answer' = [answer EXCEPT ![h] =
                 [kind |-> k, asOf |-> IF k = "fail" THEN myGen ELSE gen]]
    /\ UNCHANGED <<flagVars, mapVars, tasks, failed, retrying, forceVars,
                   collectReset, refreshing, viewers, at, reset, myGen, mySnap>>

\* Variant: every collection after a forced refresh counts as cancelled.
Cancelled_ForGood == gen > 0

\* _collect_was_cancelled, before every await and at the end of a round.
Cancelled == gen # myGen

CheckCancelled ==
    /\ at = "check"
    /\ Free
    /\ \/ /\ Cancelled
          /\ at' = "last"
          /\ tasks' = {}
          /\ UNCHANGED <<failed, retrying, answer>>
       \/ /\ ~Cancelled /\ tasks # {}
          /\ at' = "await"
          /\ UNCHANGED <<tasks, failed, retrying, answer>>
       \/ /\ ~Cancelled /\ tasks = {} /\ failed # {} /\ ~retrying
          /\ tasks' = failed
          /\ answer' = [h \in Hosts |-> NoAnswer]
          /\ failed' = {}
          /\ retrying' = TRUE
          /\ UNCHANGED at
       \/ /\ ~Cancelled /\ tasks = {} /\ (failed = {} \/ retrying)
          /\ at' = "last"
          /\ UNCHANGED <<tasks, failed, retrying, answer>>
    /\ UNCHANGED <<flagVars, mapVars, forceVars, collectReset, refreshing,
                   viewers, reset, myGen, mySnap>>

\* _preserve_probe_metrics: the chips of a drift or Kafka row outlive an answer
\* without them.
HasChips(h) ==
    /\ h \in Probed
    /\ answer[h].kind = "ok" \/ h \in chips \cap (Drift \cup Kafka)

\* The awaited answer is applied, whatever happened during the await:
\* _apply_host_fetch_result.  A camera drift of which no metrics are known stays
\* pending (finalize_pipeline_status).  An error row is built anew, without
\* versions and chips.
ApplyAnswer(h) ==
    /\ at = "await"
    /\ h \in tasks
    /\ answer[h].kind # "none"
    /\ tasks' = tasks \ {h}
    /\ \/ /\ answer[h].kind \in {"ok", "bare", "half"}
          /\ rows' = [rows EXCEPT ![h] =
                 [status |-> IF answer[h].kind = "half" /\ ~HasChips(h) THEN "PENDING"
                             ELSE "OK",
                  asOf |-> answer[h].asOf]]
          /\ chips' = IF HasChips(h) THEN chips \cup {h} ELSE chips \ {h}
          /\ versions' = versions \cup {h}
          /\ known' = IF Saved THEN known ELSE known \cup {h}
          /\ UNCHANGED failed
       \/ /\ answer[h].kind = "fail"
          /\ rows' = [rows EXCEPT ![h] = [status |-> "ERR", asOf |-> answer[h].asOf]]
          /\ chips' = chips \ {h}
          /\ versions' = versions \ {h}
          /\ known' = known \ {h}
          /\ failed' = failed \cup {h}
    /\ at' = "check"
    /\ UNCHANGED <<flagVars, answer, retrying, forceVars, collectReset,
                   refreshing, viewers, reset, myGen, mySnap>>

\* The end of collect_status_via_edge: a cancelled collection stops here.
LastCheck ==
    /\ at = "last"
    /\ Free
    /\ \/ /\ Cancelled
          /\ refreshing' = FALSE
          /\ at' = "rerun"
       \/ /\ ~Cancelled
          /\ at' = "fill"
          /\ UNCHANGED refreshing
    /\ UNCHANGED <<flagVars, mapVars, fetchVars, forceVars, collectReset,
                   viewers, reset, myGen, mySnap>>

\* _fill_central_latest_versions, when the repositories can be reached.
FillVersions ==
    /\ at = "fill"
    /\ \/ versions' = Rows /\ known' = IF Saved THEN known ELSE Rows
       \/ UNCHANGED <<versions, known>>
    /\ refreshing' = FALSE
    /\ at' = "rerun"
    /\ UNCHANGED <<flagVars, rows, chips, fetchVars, forceVars, collectReset,
                   viewers, reset, myGen, mySnap>>

\* Collect again at once if a refresh was forced meanwhile; else rest.
Rerun ==
    /\ at = "rerun"
    /\ Free
    /\ rerunAfter' = FALSE
    /\ at' = IF rerunAfter \/ ~viewers THEN "idle" ELSE "rest"
    /\ UNCHANGED <<gen, pendingReset, mapVars, fetchVars, forceVars, collectReset,
                   refreshing, viewers, reset, myGen, mySnap>>

\* The interval is over, nobody looks any more, or a refresh was forced.
EndRest ==
    /\ at = "rest"
    /\ at' = "idle"
    /\ UNCHANGED <<flagVars, mapVars, fetchVars, forceVars, collectReset,
                   refreshing, viewers, reset, myGen, mySnap>>

\* A request of the page arrives, or none came for VIEWER_IDLE_SEC.
ViewersChange ==
    /\ viewers' = ~viewers
    /\ UNCHANGED <<flagVars, mapVars, fetchVars, forceVars, collectReset,
                   refreshing, at, reset, myGen, mySnap>>

-----------------------------------------------------------------------------
CollectorStep ==
    \/ Pick \/ GiveUp \/ BeginCollect
    \/ SaveVersions \/ WipeMap \/ RestoreVersions
    \/ StartTasks \/ CheckCancelled
    \/ \E h \in Hosts : ApplyAnswer(h)
    \/ LastCheck \/ FillVersions \/ Rerun \/ EndRest

ForceStep(f) == RequestRefresh(f) \/ ForceWipe(f) \/ ForceRestore(f)

Next ==
    \/ CollectorStep
    \/ \E h \in Hosts : EdgeAnswers(h)
    \/ \E f \in Forcers : ForceStep(f)
    \/ ViewersChange

Spec == Init /\ [][Next]_vars

\* The collector thread runs, a handler that started its refresh ends it, and
\* every request to an edge is answered or times out.
Fairness ==
    /\ WF_vars(CollectorStep)
    /\ \A h \in Hosts : WF_vars(EdgeAnswers(h))
    /\ \A f \in Forcers : WF_vars(ForceWipe(f) \/ ForceRestore(f))

FairSpec == Spec /\ Fairness

-----------------------------------------------------------------------------
TypeOK ==
    /\ lock \in Forcers \cup {NoThread}
    /\ gen \in Gens /\ myGen \in Gens
    /\ {pendingReset, rerunAfter, collectReset, refreshing, viewers, reset,
        retrying} \subseteq BOOLEAN
    /\ rows \in [Rows -> Row]
    /\ chips \subseteq Probed
    /\ versions \subseteq Rows /\ known \subseteq Rows /\ mySnap \in Saves
    /\ at \in Places
    /\ tasks \subseteq Hosts /\ failed \subseteq Hosts
    /\ answer \in [Hosts -> Answer]
    /\ force \in [Forcers -> {"none", "wipe", "restore", "over"}]
    /\ snap \in [Forcers -> Saves]

\* status_payload's "ready" and "background_refreshing".
Ready == CollectComplete /\ ~pendingReset
Background == refreshing /\ ~collectReset /\ ~pendingReset

Fresh(h) == rows[h].asOf = gen

\* When the page is told that the status is ready, every host was asked after
\* the last forced refresh: the cancelled collection, the two wipes and the
\* consumed request for a wipe never add up to a complete map of old answers.
\* The exception are the rows that a wipe puts back with their chips ("keep row
\* healthy across wipe"), which have an old status until their host answers.
\* If all rows but one host's can be such rows it fails for that host too: the
\* late answer of the cancelled collection completes the map.
ReadyIsFresh == Ready => \A h \in Hosts : Fresh(h) \/ h \in chips

\* The page shows "updating" whenever rows are without an answer: only a
\* collection over a complete map counts as a background refresh, and what is
\* pending in one is a camera drift whose edge answered without its metrics.
BackgroundOverCompleteMap ==
    Background => \A r \in Rows : rows[r].status = "PENDING" =>
                     r \in Drift \ chips /\ rows[r].asOf # Never

\* "Keep Current/Latest across force-refresh resets (status rows are wiped)",
\* but for two overlaps: what an answer brings between the snapshot and the
\* rebinding of a forced wipe, and what one wipe does not find when it saves
\* the versions in the middle of another.  Everything else is kept.
Resetting == at \in {"wipe", "restore"} \/ \E f \in Forcers : force[f] \in {"wipe", "restore"}
VersionsSurviveResets == Resetting \/ known \subseteq versions

\* While someone keeps looking, every forced refresh is honoured: the map ends
\* up complete, with what each host reported after the last one.  A camera drift
\* that keeps answering without its cameras can prevent it for good.
ForcedRefreshHonoured ==
    <>[]viewers /\ <>[](\A h \in Drift : answer[h].kind # "half")
        => <>[](Ready /\ \A h \in Hosts : Fresh(h))
=============================================================================
