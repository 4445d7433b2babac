-------------------------- MODULE CollectorProofs --------------------------
(***************************************************************************)
(* Proofs about the status collector, for any hosts and rows and any       *)
(* number of forced refreshes that fall into its collections.              *)
(*                                                                         *)
(* The page says "updating" of a collection by three flags: _refreshing,   *)
(* _collect_reset and _pending_reset.  Two threads set them, and wipe the  *)
(* map, at different times, the collector in part without the lock.        *)
(***************************************************************************)
EXTENDS Collector, TLAPS

\* Where the collector is while a collection is under way.
Collecting == {"snap", "wipe", "restore", "start", "check", "await", "last", "fill"}

FlagType ==
    /\ {pendingReset, collectReset, refreshing, reset} \subseteq BOOLEAN
    /\ DOMAIN rows = Rows /\ DOMAIN force = Forcers

\* A forced refresh holds the lock until its wipe is over, and asks for a wipe by
\* the collector that only the collector's next choice takes back.
ForceInv == \A f \in Forcers : force[f] \in {"wipe", "restore"} =>
                lock = f /\ pendingReset

\* Answers carry a generation, only a camera drift's can leave its row pending,
\* and chips are of rows that are probed for them.
ChipInv ==
    /\ gen \in Nat /\ myGen \in Nat
    /\ DOMAIN answer = Hosts
    /\ \A h \in Hosts : answer[h].asOf \in Nat /\ (answer[h].kind = "half" => h \in Drift)
    /\ chips \subseteq Probed /\ DOMAIN mySnap.rows \subseteq Probed
    /\ DOMAIN snap = Forcers /\ \A f \in Forcers : DOMAIN snap[f].rows \subseteq Probed

\* The collector wipes the map only in a collection that is marked as such.
WipeInv == at \in {"snap", "wipe", "restore"} => collectReset

\* Outside of a collection nothing is shown as refreshing.
RefreshInv == refreshing => at \in Collecting

\* What the collector chose: no wipe only over a complete map, which stays
\* complete unless a forced refresh asks for a wipe.
ChoiceInv ==
    /\ at = "picked" /\ ~reset /\ ~pendingReset => CollectComplete
    /\ BackgroundOverCompleteMap

FlagInv == FlagType /\ ForceInv /\ WipeInv /\ RefreshInv /\ ChoiceInv

\* At the start nothing is under way.
LEMMA InitFlagInv == Init => FlagInv
BY DEF Init, FlagInv, FlagType, ForceInv, WipeInv, RefreshInv, ChoiceInv, Preview,
       BackgroundOverCompleteMap, Background

\* What the map of a background collection is like.
AllAnswered ==
    \A r \in Rows : rows[r].status = "PENDING" => r \in Drift \ chips /\ rows[r].asOf # Never

LEMMA InitChipInv == Init => ChipInv
BY DEF Init, ChipInv, NoAnswer, Nothing

LEMMA ChipStep ==
  ASSUME ChipInv, [Next]_vars
  PROVE  ChipInv'
<1> USE CollectorAssumption DEF ChipInv
<1>1. ASSUME NEW f \in Forcers, ForceStep(f) PROVE ChipInv'
  <2>1. DOMAIN Snapshot.rows = chips /\ DOMAIN Nothing.rows = {}
    BY DEF Snapshot, Nothing
  <2>2. CASE RequestRefresh(f)
    BY <2>1, <2>2 DEF RequestRefresh, StartGeneration, fetchVars
  <2>3. CASE ForceWipe(f)
    BY <2>3 DEF ForceWipe, Wipe, flagVars, fetchVars
  <2>4. CASE ForceRestore(f)
    BY <2>1, <2>4 DEF ForceRestore, PutBack, flagVars, fetchVars
  <2> QED
    BY <1>1, <2>2, <2>3, <2>4 DEF ForceStep
<1>2. ASSUME NEW h \in Hosts, EdgeAnswers(h) PROVE ChipInv'
  <2>1. /\ UNCHANGED <<gen, myGen, chips, mySnap, snap>>
        /\ \E k \in {"ok", "bare", "half", "fail"} :
              /\ k = "half" => h \in Drift
              /\ answer' = [answer EXCEPT ![h] =
                    [kind |-> k, asOf |-> IF k = "fail" THEN myGen ELSE gen]]
    BY <1>2 DEF EdgeAnswers, flagVars, mapVars, forceVars
  <2> QED
    BY <2>1
<1>3. ASSUME NEW h \in Hosts, ApplyAnswer(h) PROVE ChipInv'
  BY <1>3 DEF ApplyAnswer, HasChips, flagVars, forceVars, Probed
<1>4. CASE SaveVersions \/ WipeMap \/ RestoreVersions
  <2>1. DOMAIN Snapshot.rows = chips /\ DOMAIN Nothing.rows = {}
    BY DEF Snapshot, Nothing
  <2> QED
    BY <1>4, <2>1 DEF SaveVersions, WipeMap, RestoreVersions, Wipe, PutBack, flagVars,
                      fetchVars, forceVars
<1>5. CASE StartTasks \/ CheckCancelled
  BY <1>5 DEF StartTasks, CheckCancelled, NoAnswer, flagVars, mapVars, forceVars
<1>6. CASE \/ Pick \/ GiveUp \/ BeginCollect \/ LastCheck \/ FillVersions \/ Rerun
           \/ EndRest \/ ViewersChange \/ UNCHANGED vars
  BY <1>6 DEF Pick, GiveUp, BeginCollect, LastCheck, FillVersions, Rerun, EndRest,
              ViewersChange, vars, flagVars, mapVars, fetchVars, forceVars
<1> QED
  BY <1>1, <1>2, <1>3, <1>4, <1>5, <1>6 DEF Next, CollectorStep

\* A step that is neither a wipe nor its end keeps an answered map answered: only
\* the answer of a camera drift leaves a row pending.
LEMMA CompleteKept ==
  ASSUME FlagType, ChipInv, CollectorStep \/ (\E h \in Hosts : EdgeAnswers(h)),
         ~WipeMap, ~RestoreVersions, AllAnswered
  PROVE  AllAnswered'
<1>1. CASE UNCHANGED <<rows, chips>>
  BY <1>1 DEF AllAnswered
<1>2. CASE StartTasks
  BY <1>2 DEF StartTasks, AllAnswered
<1>3. ASSUME NEW h \in Hosts, ApplyAnswer(h) PROVE AllAnswered'
  <2>1. CASE answer[h].kind = "fail"
    BY <1>3, <2>1 DEF ApplyAnswer, AllAnswered, FlagType
  <2>2. CASE answer[h].kind # "fail"
    <3>1. answer[h].asOf # Never
      BY DEF ChipInv, Never
    <3>2. /\ \A r \in Rows \ {h} : rows'[r] = rows[r] /\ (r \in chips' <=> r \in chips)
          /\ rows'[h].asOf = answer[h].asOf
          /\ rows'[h].status = "PENDING" => answer[h].kind = "half" /\ h \notin chips'
      BY <1>3, <2>2 DEF ApplyAnswer, FlagType, Rows
    <3> QED
      BY <3>1, <3>2 DEF AllAnswered, ChipInv
  <2> QED
    BY <2>1, <2>2
<1> QED
  BY <1>1, <1>2, <1>3
     DEF CollectorStep, Pick, GiveUp, BeginCollect, SaveVersions,
         CheckCancelled, LastCheck, FillVersions, Rerun, EndRest, EdgeAnswers, mapVars

\* A forced refresh.
LEMMA ForceFlags ==
  ASSUME FlagInv, NEW f \in Forcers, ForceStep(f)
  PROVE  FlagInv'
<1> USE CollectorAssumption DEF FlagInv, FlagType
<1>1. CASE RequestRefresh(f)
  <2>1. /\ pendingReset' = TRUE /\ collectReset' = TRUE /\ lock' = f
        /\ UNCHANGED <<rows, chips, refreshing, at, reset>>
        /\ \A g \in Forcers : g # f => force'[g] = force[g]
        /\ lock = NoThread /\ DOMAIN force' = Forcers
    BY <1>1 DEF RequestRefresh, StartGeneration, fetchVars, Free
  <2>2. \A g \in Forcers : force[g] \notin {"wipe", "restore"}
    BY <2>1 DEF ForceInv
  <2> QED
    BY <2>1, <2>2 DEF ForceInv, WipeInv, RefreshInv, ChoiceInv,
                      BackgroundOverCompleteMap, Background
<1>2. CASE ForceWipe(f)
  <2>1. pendingReset /\ lock = f /\ force[f] = "wipe"
    BY <1>2 DEF ForceWipe, ForceInv
  <2>2. /\ UNCHANGED <<pendingReset, collectReset, refreshing, at, reset, lock>>
        /\ DOMAIN rows' = Rows /\ DOMAIN force' = Forcers
        /\ \A g \in Forcers : g # f => force'[g] = force[g]
    BY <1>2 DEF ForceWipe, Wipe, Preview, flagVars
  <2> QED
    BY <2>1, <2>2 DEF ForceInv, WipeInv, RefreshInv, ChoiceInv,
                      BackgroundOverCompleteMap, Background
<1>3. CASE ForceRestore(f)
  <2>1. /\ UNCHANGED <<pendingReset, collectReset, refreshing, at, reset>>
        /\ \A g \in Forcers : g # f => force'[g] = force[g]
        /\ force'[f] = "over" /\ DOMAIN force' = Forcers /\ DOMAIN rows' = Rows
        /\ lock = f /\ pendingReset
    BY <1>3 DEF ForceRestore, PutBack, flagVars, ForceInv
  <2>2. \A g \in Forcers : g # f => force[g] \notin {"wipe", "restore"}
    BY <2>1 DEF ForceInv
  <2> QED
    BY <2>1, <2>2 DEF ForceInv, WipeInv, RefreshInv, ChoiceInv,
                      BackgroundOverCompleteMap, Background, CollectComplete
<1> QED
  BY <1>1, <1>2, <1>3 DEF ForceStep

\* A step of the collector or of an edge.
LEMMA CollectorFlags ==
  ASSUME FlagInv, ChipInv, CollectorStep \/ (\E h \in Hosts : EdgeAnswers(h))
  PROVE  FlagInv'
<1> USE CollectorAssumption DEF FlagInv
<1>1. FlagType'
  BY DEF FlagType, CollectorStep, Pick, GiveUp, BeginCollect, SaveVersions, WipeMap, Wipe,
         Preview, RestoreVersions, PutBack, StartTasks, CheckCancelled, ApplyAnswer, LastCheck,
         FillVersions, Rerun, EndRest, EdgeAnswers, flagVars, mapVars, forceVars
<1>2. ForceInv'
  <2>1. UNCHANGED <<force, lock>> /\ (pendingReset' = pendingReset \/ lock = NoThread)
    BY DEF CollectorStep, Pick, GiveUp, BeginCollect, SaveVersions, WipeMap,
           RestoreVersions, StartTasks, CheckCancelled, ApplyAnswer, LastCheck,
           FillVersions, Rerun, EndRest, EdgeAnswers, flagVars, forceVars, Free
  <2> QED
    BY <2>1 DEF ForceInv
<1>3. WipeInv' /\ RefreshInv'
  <2>1. CASE BeginCollect
    BY <2>1 DEF BeginCollect, WipeInv, RefreshInv, Collecting, FlagType
  <2>2. CASE ~BeginCollect
    BY <2>2 DEF CollectorStep, Pick, GiveUp, SaveVersions, WipeMap,
           RestoreVersions, StartTasks, CheckCancelled, ApplyAnswer, LastCheck,
           FillVersions, Rerun, EndRest, EdgeAnswers, WipeInv, RefreshInv, Collecting
  <2> QED
    BY <2>1, <2>2
<1>4. ChoiceInv'
  <2>1. CASE Pick
    <3>1. UNCHANGED <<rows, refreshing>> /\ ~refreshing /\ at' = "picked"
          /\ (~reset' => CollectComplete)
      BY <2>1 DEF Pick, mapVars, RefreshInv, Collecting
    <3> QED
      BY <3>1 DEF ChoiceInv, BackgroundOverCompleteMap, Background, CollectComplete
  <2>2. CASE WipeMap \/ RestoreVersions
    <3>1. collectReset' /\ at' # "picked"
      BY <2>2 DEF WipeMap, RestoreVersions, WipeInv
    <3> QED
      BY <3>1 DEF ChoiceInv, BackgroundOverCompleteMap, Background
  <2>3. CASE BeginCollect
    <3>1. /\ UNCHANGED <<rows, pendingReset>> /\ collectReset' = reset
          /\ at = "picked" /\ at' # "picked"
      BY <2>3 DEF BeginCollect, flagVars, mapVars
    <3> QED
      BY <3>1 DEF ChoiceInv, BackgroundOverCompleteMap, Background, CollectComplete
  <2>4. CASE ~Pick /\ ~WipeMap /\ ~RestoreVersions /\ ~BeginCollect
    <3>1. /\ UNCHANGED <<pendingReset, collectReset>> /\ at' # "picked"
          /\ refreshing' => refreshing
      BY <2>4 DEF CollectorStep, GiveUp, SaveVersions, StartTasks,
             CheckCancelled, ApplyAnswer, LastCheck, FillVersions, Rerun, EndRest,
             EdgeAnswers, flagVars
    <3>2. AllAnswered => AllAnswered'
      BY <2>4, CompleteKept
    <3> QED
      BY <3>1, <3>2 DEF ChoiceInv, BackgroundOverCompleteMap, Background, AllAnswered
  <2> QED
    BY <2>1, <2>2, <2>3, <2>4
<1> QED
  BY <1>1, <1>2, <1>3, <1>4

\* The viewers come and go, and stuttering steps leave the flags alone.
LEMMA FlagFrame ==
  ASSUME FlagInv, ViewersChange \/ UNCHANGED vars
  PROVE  FlagInv'
<1>1. UNCHANGED <<pendingReset, collectReset, refreshing, reset, rows, chips, force, lock, at>>
  BY DEF ViewersChange, vars, flagVars, mapVars, forceVars
<1> QED
  BY <1>1 DEF FlagInv, FlagType, ForceInv, WipeInv, RefreshInv, ChoiceInv,
              BackgroundOverCompleteMap, Background, CollectComplete

LEMMA FlagInvAlways == Spec => [](FlagInv /\ ChipInv)
<1>1. FlagInv /\ ChipInv /\ [Next]_vars => FlagInv'
  BY ForceFlags, CollectorFlags, FlagFrame DEF Next
<1>2. ChipInv /\ [Next]_vars => ChipInv'
  BY ChipStep
<1> QED
  BY <1>1, <1>2, InitFlagInv, InitChipInv, PTL DEF Spec

-----------------------------------------------------------------------------
\* status_payload says that the map is refreshed in the background only when every
\* row has an answer, wherever forced refreshes fall into the collector's choice to
\* wipe, its wipe and its collection, for any number of hosts and of refreshes.
THEOREM BackgroundAlways == Spec => []BackgroundOverCompleteMap
<1>1. FlagInv => BackgroundOverCompleteMap
  BY DEF FlagInv, ChoiceInv
<1> QED
  BY <1>1, FlagInvAlways, PTL

-----------------------------------------------------------------------------
(***************************************************************************)
(* The versions.  Two wipes can overlap, that of a forced refresh and that *)
(* of the collector, and answers arrive in both.                           *)
(***************************************************************************)

\* What is known is in the map, or in what an unfinished wipe has saved.
KnownInv ==
    /\ at \in {"wipe", "restore"} => known \subseteq mySnap.versions
    /\ \A f \in Forcers : force[f] = "wipe" => known \subseteq snap[f].versions
    /\ \A f \in Forcers : force[f] = "restore" /\ at \notin {"wipe", "restore"}
         => known \subseteq snap[f].versions \cup versions
    /\ VersionsSurviveResets
    /\ known \subseteq Rows /\ DOMAIN snap = Forcers

\* A forced refresh saves the versions, wipes them, and puts them back.
LEMMA ForceKnown ==
  ASSUME FlagInv, KnownInv, NEW f \in Forcers, ForceStep(f)
  PROVE  KnownInv'
<1> USE CollectorAssumption DEF FlagInv, FlagType, KnownInv, VersionsSurviveResets, Resetting
<1>1. CASE RequestRefresh(f)
  <2>0. Snapshot.versions = versions
    BY DEF Snapshot
  <2>1. /\ snap' = [snap EXCEPT ![f] = Snapshot] /\ known' = known \cap versions
        /\ force' = [force EXCEPT ![f] = "wipe"] /\ lock = NoThread
        /\ UNCHANGED <<versions, at, mySnap>>
    BY <1>1 DEF RequestRefresh, Free
  <2>2. \A g \in Forcers : force[g] \notin {"wipe", "restore"}
    BY <2>1 DEF ForceInv
  <2> QED
    BY <2>0, <2>1, <2>2
<1>2. CASE ForceWipe(f)
  <2>1. /\ force[f] = "wipe" /\ force' = [force EXCEPT ![f] = "restore"]
        /\ UNCHANGED <<known, snap, at, mySnap>>
    BY <1>2 DEF ForceWipe
  <2>2. \A g \in Forcers : g # f => force[g] \notin {"wipe", "restore"}
    BY <2>1 DEF ForceInv
  <2> QED
    BY <2>1, <2>2
<1>3. CASE ForceRestore(f)
  <2>1. /\ force[f] = "restore" /\ force' = [force EXCEPT ![f] = "over"]
        /\ versions' = versions \cup snap[f].versions /\ UNCHANGED <<known, at, mySnap>>
        /\ snap' = [snap EXCEPT ![f] = Nothing]
    BY <1>3 DEF ForceRestore, PutBack
  <2>2. \A g \in Forcers : g # f => force[g] \notin {"wipe", "restore"}
    BY <2>1 DEF ForceInv
  <2> QED
    BY <2>1, <2>2
<1> QED
  BY <1>1, <1>2, <1>3 DEF ForceStep

\* The collector saves, wipes and puts back as well, and enters what it learns.
LEMMA CollectorKnown ==
  ASSUME FlagInv, KnownInv, CollectorStep
  PROVE  KnownInv'
<1> USE DEF KnownInv, VersionsSurviveResets, Resetting
<1>0. UNCHANGED <<force, snap>>
  BY DEF CollectorStep, Pick, GiveUp, BeginCollect, SaveVersions, WipeMap,
         RestoreVersions, StartTasks, CheckCancelled, ApplyAnswer, LastCheck,
         FillVersions, Rerun, EndRest, forceVars
<1>1. CASE SaveVersions
  BY <1>0, <1>1 DEF SaveVersions, Snapshot
<1>2. CASE WipeMap
  BY <1>0, <1>2 DEF WipeMap
<1>3. CASE RestoreVersions
  BY <1>0, <1>3 DEF RestoreVersions, PutBack
<1>4. CASE StartTasks
  BY <1>0, <1>4 DEF StartTasks
<1>5. ASSUME NEW h \in Hosts, ApplyAnswer(h) PROVE KnownInv'
  <2>1. at = "await" /\ at' = "check" /\ UNCHANGED mySnap
    BY <1>5 DEF ApplyAnswer
  <2>2. CASE /\ versions' = versions \cup {h}
             /\ known' = IF Saved THEN known ELSE known \cup {h}
    BY <1>0, <2>1, <2>2 DEF Saved, Rows
  <2>3. CASE versions' = versions \ {h} /\ known' = known \ {h}
    BY <1>0, <2>1, <2>3
  <2> QED
    BY <1>5, <2>2, <2>3 DEF ApplyAnswer
<1>6. CASE FillVersions
  <2>1. at = "fill" /\ at' = "rerun" /\ UNCHANGED mySnap
    BY <1>6 DEF FillVersions
  <2>2. CASE versions' = Rows /\ known' = IF Saved THEN known ELSE Rows
    BY <1>0, <2>1, <2>2 DEF Saved
  <2> QED
    BY <1>0, <1>6, <2>1, <2>2 DEF FillVersions
<1>7. CASE Pick \/ GiveUp \/ BeginCollect \/ CheckCancelled \/ LastCheck \/ Rerun \/ EndRest
  <2>1. /\ UNCHANGED <<versions, known, mySnap>>
        /\ at \notin {"wipe", "restore"} /\ at' \notin {"wipe", "restore"}
    BY <1>7 DEF Pick, GiveUp, BeginCollect, CheckCancelled, LastCheck, Rerun, EndRest,
                mapVars
  <2> QED
    BY <1>0, <2>1
<1> QED
  BY <1>1, <1>2, <1>3, <1>4, <1>5, <1>6, <1>7 DEF CollectorStep

\* Answers that arrive and viewers that come and go do not touch the map.
LEMMA KnownFrame ==
  ASSUME KnownInv, (\E h \in Hosts : EdgeAnswers(h)) \/ ViewersChange \/ UNCHANGED vars
  PROVE  KnownInv'
<1>1. UNCHANGED <<versions, known, mySnap, snap, force, at>>
  BY DEF EdgeAnswers, ViewersChange, vars, mapVars, forceVars
<1> QED
  BY <1>1 DEF KnownInv, VersionsSurviveResets, Resetting

\* _reset_status_keeping_cache keeps the versions over any number of overlapping
\* wipes, however answers and failures of hosts fall into their steps.
THEOREM VersionsKept == Spec => []VersionsSurviveResets
<1>1. Init => KnownInv
  BY DEF Init, KnownInv, VersionsSurviveResets
<1>2. FlagInv /\ KnownInv /\ [Next]_vars => KnownInv'
  BY ForceKnown, CollectorKnown, KnownFrame DEF Next
<1>3. KnownInv => VersionsSurviveResets
  BY DEF KnownInv
<1> QED
  BY <1>1, <1>2, <1>3, FlagInvAlways, PTL DEF Spec

-----------------------------------------------------------------------------
(***************************************************************************)
(* The statuses.  A collection that a forced refresh cancels may apply the *)
(* answer it is waiting for, after the map was wiped.                      *)
(***************************************************************************)

\* The hosts with a status from before the last forced refresh, but for those
\* whose chips are kept.
Stale == {h \in Hosts \ chips : rows[h].status # "PENDING" /\ rows[h].asOf # gen}

\* No wipe puts such a row back.
SomeBlank == \E r \in Rows \ Probed : rows[r].status = "PENDING"

\* Where the collector is from the cancellation of a collection to its next wipe.
Discarding ==
    \/ at = "check" /\ Cancelled
    \/ at = "last" /\ Cancelled
    \/ at \in {"rerun", "rest", "idle"}
    \/ at = "picked" /\ reset
    \/ at \in {"snap", "wipe"}

GenInv ==
    /\ gen \in Nat /\ myGen \in Nat /\ myGen <= gen
    /\ \A h \in Hosts : at \in {"check", "await"} /\ answer[h].kind # "none" =>
         answer[h].asOf \in myGen .. gen

\* Once a forced refresh has bound the fresh map, a cancelled collection finds
\* it blank but for the rows that were put back, and what it applies is wiped
\* before anything else is applied.
StaleInv ==
    ~Saved =>
      /\ at = "await" /\ Cancelled => \A r \in Rows \ chips : rows[r].status = "PENDING"
      /\ Stale # {} => SomeBlank /\ Discarding

FreshInv == GenInv /\ StaleInv

\* A forced refresh starts a generation; until it has wiped the map nothing is
\* said of it, and then the map is blank.
LEMMA ForceFresh ==
  ASSUME FlagInv, ChipInv, FreshInv, NEW f \in Forcers, ForceStep(f)
  PROVE  FreshInv'
<1> USE DEF FlagInv, FlagType, FreshInv
<1>1. CASE RequestRefresh(f)
  <2>1. /\ gen' = gen + 1 /\ Saved' /\ UNCHANGED <<at, myGen, answer>>
    BY <1>1 DEF RequestRefresh, StartGeneration, Saved, fetchVars
  <2> QED
    BY <2>1 DEF GenInv, StaleInv
<1>2. CASE ForceWipe(f)
  <2>1. rows' = Preview /\ UNCHANGED <<gen, at, myGen, answer>>
    BY <1>2 DEF ForceWipe, Wipe, flagVars, fetchVars
  <2>2. \A r \in Rows : rows'[r].status = "PENDING"
    BY <2>1 DEF Preview, Blank
  <2> QED
    BY <2>1, <2>2 DEF GenInv, StaleInv, Stale, Rows
<1>3. CASE ForceRestore(f)
  <2>1. /\ UNCHANGED <<gen, at, myGen, answer, reset>>
        /\ force[f] = "restore" /\ \A g \in Forcers : g # f => force'[g] = force[g]
        /\ chips \subseteq chips' /\ chips' \subseteq Probed
        /\ \A r \in Rows \ chips' : rows'[r] = rows[r]
    BY <1>3 DEF ForceRestore, PutBack, flagVars, fetchVars, ChipInv
  <2>2. Saved => Saved'
    BY <2>1 DEF Saved
  <2>3. Stale' \subseteq Stale /\ (SomeBlank => SomeBlank')
    BY <2>1 DEF Stale, SomeBlank, Rows
  <2> QED
    BY <2>1, <2>2, <2>3 DEF GenInv, StaleInv, Discarding, Cancelled
<1> QED
  BY <1>1, <1>2, <1>3 DEF ForceStep

\* The generations of the answers of a collection.
LEMMA CollectorGen ==
  ASSUME FlagInv, ChipInv, FreshInv, CollectorStep \/ (\E h \in Hosts : EdgeAnswers(h))
  PROVE  GenInv' /\ UNCHANGED <<gen, force>>
<1> USE DEF FreshInv, GenInv
<1>1. UNCHANGED <<gen, force>>
  BY DEF CollectorStep, Pick, GiveUp, BeginCollect, SaveVersions, WipeMap,
         RestoreVersions, StartTasks, CheckCancelled, ApplyAnswer, LastCheck,
         FillVersions, Rerun, EndRest, EdgeAnswers, flagVars, forceVars
<1>2. CASE BeginCollect
  BY <1>1, <1>2 DEF BeginCollect, fetchVars
<1>3. CASE StartTasks
  BY <1>1, <1>3 DEF StartTasks, NoAnswer
<1>4. CASE CheckCancelled
  BY <1>1, <1>4 DEF CheckCancelled, NoAnswer
<1>5. ASSUME NEW h \in Hosts, EdgeAnswers(h) PROVE GenInv'
  <2>1. PICK k \in {"ok", "bare", "half", "fail"} :
          answer' = [answer EXCEPT ![h] =
                       [kind |-> k, asOf |-> IF k = "fail" THEN myGen ELSE gen]]
    BY <1>5 DEF EdgeAnswers
  <2>2. UNCHANGED <<at, myGen>>
    BY <1>5 DEF EdgeAnswers
  <2> QED
    BY <1>1, <2>1, <2>2 DEF ChipInv
<1>6. CASE Pick \/ GiveUp \/ SaveVersions \/ WipeMap \/ RestoreVersions
           \/ (\E h \in Hosts : ApplyAnswer(h)) \/ LastCheck \/ FillVersions
           \/ Rerun \/ EndRest
  <2>1. UNCHANGED <<myGen, answer>> /\ (at' \in {"check", "await"} => at = "await")
    BY <1>6 DEF Pick, GiveUp, SaveVersions, WipeMap, RestoreVersions, ApplyAnswer,
                LastCheck, FillVersions, Rerun, EndRest, fetchVars
  <2> QED
    BY <1>1, <2>1
<1> QED
  BY <1>1, <1>2, <1>3, <1>4, <1>5, <1>6 DEF CollectorStep

\* The collector applies an answer.  In a cancelled collection it is the only row
\* of the blank map that was not put back, so that another row is still pending.
LEMMA ApplyFresh ==
  ASSUME FlagInv, ChipInv, FreshInv, NEW h \in Hosts, ApplyAnswer(h), ~Saved',
         NEW r \in Rows \ Probed, r # h
  PROVE  StaleInv'
<1> USE DEF FreshInv, FlagInv, FlagType
<1>1. /\ at = "await" /\ at' = "check" /\ answer[h].kind # "none"
      /\ UNCHANGED <<gen, myGen, force>> /\ ~Saved
      /\ \E s \in {"PENDING", "OK", "ERR"} :
           rows' = [rows EXCEPT ![h] = [status |-> s, asOf |-> answer[h].asOf]]
      /\ \A q \in Rows \ {h} : q \in chips' <=> q \in chips
  <2>1. answer[h].kind = "fail" \/ answer[h].kind \in {"ok", "bare", "half"}
    BY DEF ApplyAnswer
  <2>2. /\ at = "await" /\ at' = "check" /\ answer[h].kind # "none"
        /\ UNCHANGED <<gen, myGen, force>> /\ ~Saved
        /\ \A q \in Rows \ {h} : q \in chips' <=> q \in chips
    BY DEF ApplyAnswer, flagVars, forceVars, Saved
  <2>3. \E s \in {"PENDING", "OK", "ERR"} :
           rows' = [rows EXCEPT ![h] = [status |-> s, asOf |-> answer[h].asOf]]
    BY <2>1 DEF ApplyAnswer
  <2> QED
    BY <2>2, <2>3
<1>2. Stale = {}
  BY <1>1 DEF StaleInv, Discarding
<1>3. h \in Rows /\ \A q \in Rows : q # h => rows'[q] = rows[q]
  BY <1>1 DEF Rows
<1>4. CASE Cancelled
  <2>1. rows'[r].status = "PENDING"
    BY <1>1, <1>3, <1>4 DEF StaleInv, ChipInv
  <2>2. Cancelled'
    BY <1>1, <1>4 DEF Cancelled
  <2> QED
    BY <1>1, <2>1, <2>2 DEF StaleInv, SomeBlank, Discarding
<1>5. CASE ~Cancelled
  <2>1. answer[h].asOf = gen
    BY <1>1, <1>5 DEF GenInv, Cancelled
  <2>2. Stale' = {}
    BY <1>1, <1>2, <1>3, <2>1 DEF Stale, Rows
  <2> QED
    BY <1>1, <2>2 DEF StaleInv
<1> QED
  BY <1>4, <1>5

\* The other steps of the collector, and the arrival of answers.
LEMMA OtherFresh ==
  ASSUME FlagInv, ChipInv, FreshInv, CollectorStep \/ (\E h \in Hosts : EdgeAnswers(h)),
         ~\E h \in Hosts : ApplyAnswer(h)
  PROVE  StaleInv'
<1> USE DEF FreshInv, FlagInv, FlagType
<1>1. UNCHANGED <<gen, force>>
  BY CollectorGen
<1>2. CASE WipeMap
  <2>1. at' = "restore" /\ \A r \in Rows : rows'[r].status = "PENDING"
    BY <1>2 DEF WipeMap, Wipe, Preview, Blank
  <2> QED
    BY <2>1 DEF StaleInv, Stale, Rows
<1>3. CASE StartTasks
  <2>1. /\ at = "start" /\ at' = "check"
        /\ \A h \in Hosts : rows'[h] = rows[h]
        /\ UNCHANGED chips
    BY <1>3, CollectorAssumption DEF StartTasks, Rows
  <2>2. ~Saved' => Stale' = {}
    BY <1>1, <2>1 DEF StaleInv, Stale, Saved, Discarding
  <2> QED
    BY <2>1, <2>2 DEF StaleInv
<1>4. CASE RestoreVersions
  <2>1. /\ at = "restore" /\ at' = "start" /\ chips \subseteq chips'
        /\ \A r \in Rows \ chips' : rows'[r] = rows[r]
    BY <1>4 DEF RestoreVersions, PutBack
  <2>2. ~Saved' => Stale' = {}
    BY <1>1, <2>1 DEF StaleInv, Stale, Saved, Discarding, Rows
  <2> QED
    BY <2>1, <2>2 DEF StaleInv
<1>5. CASE ~WipeMap /\ ~RestoreVersions /\ ~StartTasks
  <2>1. UNCHANGED <<rows, chips>>
    BY <1>5 DEF CollectorStep, Pick, GiveUp, BeginCollect, SaveVersions,
         CheckCancelled, LastCheck, FillVersions, Rerun, EndRest,
         EdgeAnswers, mapVars
  <2>2. /\ Stale' = Stale /\ (SomeBlank' <=> SomeBlank) /\ (CollectComplete' <=> CollectComplete)
        /\ (Saved' <=> Saved)
    BY <1>1, <2>1 DEF Stale, SomeBlank, CollectComplete, Saved
  <2>3. at' = "await" /\ Cancelled' => at = "await" /\ Cancelled
    BY <1>1, <1>5 DEF CollectorStep, Pick, GiveUp, BeginCollect, SaveVersions,
         CheckCancelled, LastCheck, FillVersions, Rerun, EndRest,
         EdgeAnswers, Cancelled
  <2>4. ~CollectComplete /\ Discarding => Discarding'
    <3>1. CASE Pick
      BY <3>1 DEF Pick, Discarding
    <3>2. CASE BeginCollect
      BY <3>2 DEF BeginCollect, Discarding
    <3>3. CASE CheckCancelled \/ LastCheck
      BY <1>1, <3>3 DEF CheckCancelled, LastCheck, Discarding, Cancelled
    <3>4. CASE GiveUp \/ SaveVersions \/ FillVersions \/ Rerun \/ EndRest
      BY <3>4 DEF GiveUp, SaveVersions, FillVersions, Rerun, EndRest,
                  Discarding
    <3>5. CASE \E h \in Hosts : EdgeAnswers(h)
      BY <1>1, <3>5 DEF EdgeAnswers, Discarding, Cancelled
    <3> QED
      BY <1>5, <3>1, <3>2, <3>3, <3>4, <3>5 DEF CollectorStep
  <2>5. SomeBlank => ~CollectComplete
    BY DEF SomeBlank, CollectComplete
  <2> QED
    BY <2>1, <2>2, <2>3, <2>4, <2>5 DEF StaleInv
<1> QED
  BY <1>2, <1>3, <1>4, <1>5

\* Viewers and stuttering.
LEMMA FreshFrame ==
  ASSUME FreshInv, ViewersChange \/ UNCHANGED vars
  PROVE  FreshInv'
<1>1. UNCHANGED <<rows, chips, gen, myGen, answer, at, reset, force>>
  BY DEF ViewersChange, vars, flagVars, mapVars, fetchVars, forceVars
<1> QED
  BY <1>1 DEF FreshInv, GenInv, StaleInv, Stale, SomeBlank, Discarding, Cancelled, Saved

\* status_payload says "ready" only of a map whose hosts were all asked after the
\* last forced refresh, or whose chips a wipe kept, for any number of hosts and of
\* refreshes.  The map of a cancelled collection, into which its last answer came,
\* must be seen to be incomplete: beside each host's row there is one more that no
\* wipe puts back, such as a row without a host.
THEOREM ReadyAlways ==
  ASSUME \A h \in Hosts : \E r \in Rows \ Probed : r # h
  PROVE  Spec => []ReadyIsFresh
<1>1. Init => FreshInv
  BY DEF Init, FreshInv, GenInv, StaleInv, Stale, Preview, Blank, Rows, NoAnswer
<1>2. FlagInv /\ ChipInv /\ FreshInv /\ [Next]_vars => FreshInv'
  <2> SUFFICES ASSUME FlagInv, ChipInv, FreshInv, [Next]_vars PROVE FreshInv'
    OBVIOUS
  <2>1. ASSUME NEW h \in Hosts, ApplyAnswer(h) PROVE FreshInv'
    <3>1. PICK r \in Rows \ Probed : r # h
      OBVIOUS
    <3>2. GenInv'
      BY <2>1, CollectorGen DEF CollectorStep
    <3> QED
      BY <2>1, <3>1, <3>2, ApplyFresh DEF FreshInv, StaleInv
  <2>2. CASE /\ CollectorStep \/ (\E h \in Hosts : EdgeAnswers(h))
             /\ ~\E h \in Hosts : ApplyAnswer(h)
    BY <2>2, CollectorGen, OtherFresh DEF FreshInv
  <2> QED
    BY <2>1, <2>2, ForceFresh, FreshFrame DEF Next
<1>3. FlagInv /\ FreshInv => ReadyIsFresh
  <2> SUFFICES ASSUME FlagInv, FreshInv, CollectComplete, ~pendingReset,
                      NEW h \in Hosts, h \notin chips
               PROVE  Fresh(h)
    BY DEF ReadyIsFresh, Ready
  <2>1. ~Saved
    BY DEF FlagInv, ForceInv, Saved
  <2>2. ~SomeBlank
    BY DEF SomeBlank, CollectComplete
  <2>3. h \notin Stale
    BY <2>1, <2>2 DEF FreshInv, StaleInv
  <2> QED
    BY <2>3 DEF Stale, CollectComplete, Fresh, Rows
<1> QED
  BY <1>1, <1>2, <1>3, FlagInvAlways, PTL DEF Spec
=============================================================================
