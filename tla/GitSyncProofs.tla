--------------------------- MODULE GitSyncProofs ---------------------------
(***************************************************************************)
(* Proofs about the synchronisation of a repository, for any branches,     *)
(* refs and submodules, any number of pushes to the origin and any failure *)
(* of a git command.  The commit a sync puts the repository at is taken    *)
(* from origin/<branch>, from FETCH_HEAD or by a pull: the invariant says  *)
(* at each command which of them are fresh.  The edits made in submodules  *)
(* go from a tree to the top of a stash and back.                          *)
(***************************************************************************)
EXTENDS GitSync, SequenceTheorems, TLAPS

\* No older than the branch was at the origin when the sync began.
FreshFor(c, start) == c.branch \in DOMAIN start => c.n >= start[c.branch]
Fresh(c) == FreshFor(c, run.start)

Fields == {"mode", "target", "fetchHead", "start", "before", "meddled"}

SyncType ==
    /\ tip \in [Branches -> Nat]
    /\ DOMAIN local = LocalNames /\ DOMAIN tracking = Branches
    /\ upstream => Cur \in Branches
    /\ pc # "idle" =>
         /\ DOMAIN run = Fields
         /\ run.start \in [Branches -> Nat]

\* Developers only add commits.
NotAhead == pc # "idle" => \A b \in Branches : run.start[b] <= tip[b]

\* Of a pull, up to its reset.
PullFresh ==
    /\ pc = "pull" => run.target = Cur
    /\ pc \in {"list", "discard", "fetch", "reset"} => run.target \in Branches
    /\ pc = "reset" => Fresh(tracking[run.target]) /\ \A c \in run.fetchHead : Fresh(c)

\* Of the checkout of a ref: after its fetch every branch of the origin is fresh.
RefFresh ==
    /\ pc \in {"fetchref", "lookup", "listref", "discardref", "resetref"} =>
         run.mode = "ref"
    /\ pc \in {"lookup", "listref", "discardref", "resetref"} =>
         /\ \A b \in Branches : Fresh(tracking[b])
         /\ \A c \in run.fetchHead : Fresh(c)

SyncInv == SyncType /\ NotAhead /\ PullFresh /\ RefFresh /\ SyncedIsFresh

\* Before a sync nothing is asked of the clone.
LEMMA InitSyncInv == Init => SyncInv
<1> SUFFICES ASSUME Init PROVE SyncInv
  OBVIOUS
<1>1. PICK B \in SUBSET OriginNames : tip = [b \in B |-> 0]
  BY DEF Init
<1>2. Branches = B
  BY <1>1 DEF Branches
<1>3. SyncType
  BY <1>1, <1>2 DEF Init, SyncType
<1> QED
  BY <1>3 DEF Init, SyncInv, NotAhead, PullFresh, RefFresh, SyncedIsFresh

\* The newest commit of a branch is fresh.
LEMMA NewestFresh ==
  ASSUME SyncType, NotAhead, pc # "idle", NEW b
  PROVE  Fresh(NewestOf(b))
BY DEF SyncType, NotAhead, Fresh, FreshFor, NewestOf, Commit

\* A sync begins, or ends, or is killed.
LEMMA EdgeOfSync ==
  ASSUME SyncInv, UNCHANGED <<tip, upstream, DOMAIN local, DOMAIN tracking>>,
         pc' = "idle"
  PROVE  SyncInv'
BY DEF SyncInv, SyncType, NotAhead, PullFresh, RefFresh, SyncedIsFresh, Branches

LEMMA BeginStep ==
  ASSUME SyncInv, NEW m \in {"pull", "ref"}, NEW ref, Begin(m, ref),
         m = "pull" => ref = Cur
  PROVE  SyncInv'
<1>1. /\ UNCHANGED <<tip, upstream, local, tracking>>
      /\ run'.start = tip /\ run'.mode = m /\ run'.target = ref
      /\ DOMAIN run' = Fields
      /\ pc' = IF m = "pull" THEN "pull" ELSE "fetchref"
  BY DEF Begin, repoVars, Run, Fields
<1>2. SyncType' /\ NotAhead'
  BY <1>1 DEF SyncInv, SyncType, NotAhead, Branches
<1> QED
  BY <1>1, <1>2 DEF SyncInv, PullFresh, RefFresh, SyncedIsFresh

\* Pushes, edits and what users stash leave the sync where it is.
LEMMA QuietStep ==
  ASSUME SyncInv, UNCHANGED <<upstream, local, tracking, pc>>,
         run' = run \/ (pc # "idle" /\ \E m : run' = [run EXCEPT !.meddled = m]),
         tip' \in [Branches -> Nat], \A b \in Branches : tip'[b] >= tip[b]
  PROVE  SyncInv'
<1>1. Branches' = Branches
  BY DEF Branches
<1>2. pc # "idle" => /\ DOMAIN run' = DOMAIN run /\ run'.mode = run.mode
                     /\ run'.target = run.target /\ run'.fetchHead = run.fetchHead
                     /\ run'.start = run.start
  BY DEF SyncInv, SyncType, Fields
<1>3. SyncType'
  BY <1>1, <1>2 DEF SyncInv, SyncType
<1>4. NotAhead'
  BY <1>1, <1>2 DEF SyncInv, SyncType, NotAhead
<1> QED
  BY <1>1, <1>2, <1>3, <1>4 DEF SyncInv, PullFresh, RefFresh, SyncedIsFresh, Fresh, FreshFor

\* A command of the sync that ends well: what is left to show is about the clone
\* at the next command.
LEMMA NextCommand ==
  ASSUME SyncInv, pc # "idle", pc' # "idle", UNCHANGED <<tip, upstream>>,
         DOMAIN local' = LocalNames, DOMAIN tracking' = Branches,
         DOMAIN run' = DOMAIN run, run'.start = run.start
  PROVE  SyncType' /\ NotAhead'
BY DEF SyncInv, SyncType, NotAhead, Branches

\* The commands of a pull.
LEMMA PullStep ==
  ASSUME SyncInv, PullMerges \/ PullFails \/ ResolveBranch \/ Discard
                  \/ FetchOrigin \/ ResetToOrigin
  PROVE  SyncInv'
<1> USE GitAssumption DEF Goto, End, Fetched
<1>0. \A b : pc # "idle" => Fresh(NewestOf(b))
  BY NewestFresh DEF SyncInv
<1>1. CASE pc' = "idle"
  <2>1. UNCHANGED <<tip, upstream, DOMAIN local, DOMAIN tracking>>
    BY <1>1 DEF PullMerges, PullFails, ResolveBranch, Discard, DiscardThen, FetchOrigin,
                ResetToOrigin, repoVars, SyncInv, SyncType
  <2> QED
    BY <1>1, <2>1, EdgeOfSync
<1>2. CASE pc' # "idle" /\ PullMerges
  <2>1. local'[Cur] = NewestOf(Cur) /\ run' = run /\ pc' = "stash" /\ pc # "idle"
    BY <1>2 DEF PullMerges, SyncInv, SyncType
  <2>2. SyncType' /\ NotAhead'
    BY <1>2, <2>1, NextCommand DEF PullMerges, SyncInv, SyncType
  <2>3. FreshFor(local'[Cur], run'.start) /\ Branches' = Branches
    BY <1>0, <1>2, <2>1 DEF Fresh, PullMerges, Branches
  <2> QED
    BY <2>1, <2>2, <2>3 DEF SyncInv, SyncType, PullFresh, RefFresh, SyncedIsFresh, FreshFor
<1>3. CASE pc' # "idle" /\ PullFails
  <2>1. /\ UNCHANGED <<tip, upstream, local, tracking, run>> /\ pc = "pull"
        /\ pc' = "resolve" \/ (pc' = "list" /\ upstream)
    BY <1>3 DEF PullFails, repoVars
  <2>2. SyncType' /\ NotAhead'
    BY <1>3, <2>1, NextCommand DEF SyncInv, SyncType
  <2> QED
    BY <2>1, <2>2 DEF SyncInv, SyncType, PullFresh, RefFresh, SyncedIsFresh, Branches
<1>4. CASE pc' # "idle" /\ ResolveBranch
  <2>1. PICK b \in Branches : run' = [run EXCEPT !.target = b]
    BY <1>4 DEF ResolveBranch
  <2>2. /\ pc = "resolve" /\ pc' = "list" /\ UNCHANGED <<tip, upstream, local>>
        /\ DOMAIN tracking' = Branches
    BY <1>4 DEF ResolveBranch
  <2>3. run'.start = run.start /\ DOMAIN run' = DOMAIN run /\ run'.target = b
    BY <2>1, <2>2 DEF SyncInv, SyncType, Fields
  <2>4. SyncType' /\ NotAhead'
    BY <2>2, <2>3, NextCommand DEF SyncInv, SyncType
  <2> QED
    BY <2>2, <2>3, <2>4 DEF SyncInv, PullFresh, RefFresh, SyncedIsFresh, Branches
<1>5. CASE pc' # "idle" /\ Discard
  <2>1. /\ pc = "discard" /\ pc' = "fetch"
        /\ UNCHANGED <<tip, upstream, local, tracking, run>>
    BY <1>5 DEF Discard, DiscardThen, repoVars
  <2>2. SyncType' /\ NotAhead'
    BY <2>1, NextCommand DEF SyncInv, SyncType
  <2> QED
    BY <2>1, <2>2 DEF SyncInv, PullFresh, RefFresh, SyncedIsFresh, Branches
<1>6. CASE pc' # "idle" /\ FetchOrigin
  <2>1. /\ pc = "fetch" /\ pc' = "reset" /\ UNCHANGED <<tip, upstream, local>>
        /\ run.target \in Branches
    BY <1>6 DEF FetchOrigin, SyncInv, PullFresh
  <2>2. PICK F : /\ run' = [run EXCEPT !.fetchHead = F]
                 /\ \A c \in F : \E b : c = NewestOf(b)
    <3> DEFINE All == IF upstream THEN {NewestOf(Cur)} ELSE {NewestOf(b) : b \in Branches}
               One == {NewestOf(run.target)}
    <3>1. \A F \in {All, One} : \A c \in F : \E b : c = NewestOf(b)
      OBVIOUS
    <3>2. \E F \in {All, One} : run' = [run EXCEPT !.fetchHead = F]
      BY <1>6 DEF FetchOrigin
    <3> HIDE DEF All, One
    <3> QED
      BY <3>1, <3>2
  <2>3. /\ run'.start = run.start /\ DOMAIN run' = DOMAIN run
        /\ run'.target = run.target /\ run'.fetchHead = F
    BY <2>1, <2>2 DEF SyncInv, SyncType, Fields
  <2>4. tracking'[run.target] = NewestOf(run.target) /\ DOMAIN tracking' = Branches
    BY <1>6, <2>1 DEF FetchOrigin, SyncInv, SyncType
  <2>5. SyncType' /\ NotAhead'
    BY <2>1, <2>3, <2>4, NextCommand DEF SyncInv, SyncType
  <2>6. /\ FreshFor(tracking'[run.target], run.start)
        /\ \A c \in F : FreshFor(c, run.start)
    BY <1>0, <2>1, <2>2, <2>4 DEF Fresh
  <2>7. PullFresh'
    BY <2>1, <2>3, <2>6 DEF PullFresh, Fresh, Branches
  <2> QED
    BY <2>1, <2>5, <2>7 DEF SyncInv, RefFresh, SyncedIsFresh
<1>7. CASE pc' # "idle" /\ ResetToOrigin
  <2>1. PICK c \in {tracking[run.target]} \cup run.fetchHead : local' = [local EXCEPT ![Cur] = c]
    BY <1>7 DEF ResetToOrigin
  <2>2. /\ pc = "reset" /\ pc' = "stash"
        /\ UNCHANGED <<tip, upstream, tracking, run>>
    BY <1>7 DEF ResetToOrigin
  <2>3. Fresh(c) /\ local'[Cur] = c
    BY <2>1, <2>2 DEF SyncInv, SyncType, PullFresh
  <2>4. SyncType' /\ NotAhead'
    BY <2>1, <2>2, NextCommand DEF SyncInv, SyncType
  <2>5. SyncedIsFresh'
    BY <2>2, <2>3, <2>4 DEF SyncInv, SyncType, SyncedIsFresh, Fresh, FreshFor, Branches
  <2> QED
    BY <2>2, <2>4, <2>5 DEF SyncInv, PullFresh, RefFresh
<1> QED
  BY <1>1, <1>2, <1>3, <1>4, <1>5, <1>6, <1>7

\* The commands that check a ref out.
LEMMA RefStep ==
  ASSUME SyncInv, FetchRef \/ LookupRef \/ DiscardForRef \/ ResetToRef
  PROVE  SyncInv'
<1> USE GitAssumption DEF Goto, End, Fetched
<1>0. \A b : pc # "idle" => Fresh(NewestOf(b))
  BY NewestFresh DEF SyncInv
<1>1. CASE pc' = "idle"
  <2>1. UNCHANGED <<tip, upstream, DOMAIN local, DOMAIN tracking>>
    BY <1>1 DEF FetchRef, LookupRef, DiscardForRef, DiscardThen, ResetToRef, repoVars,
                SyncInv, SyncType
  <2> QED
    BY <1>1, <2>1, EdgeOfSync
<1>2. CASE pc' # "idle" /\ FetchRef
  <2>1. PICK F : /\ run' = [run EXCEPT !.fetchHead = F]
                 /\ \A c \in F : \E b : c = NewestOf(b)
    <3>1. \A F \in {{}, {NewestOf(run.target)}} : \A c \in F : \E b : c = NewestOf(b)
      OBVIOUS
    <3>2. \E F \in {{}, {NewestOf(run.target)}} : run' = [run EXCEPT !.fetchHead = F]
      BY <1>2 DEF FetchRef
    <3> QED
      BY <3>1, <3>2
  <2>2. /\ pc = "fetchref" /\ pc' = "lookup" /\ UNCHANGED <<tip, upstream, local>>
        /\ tracking' = [b \in Branches |-> NewestOf(b)]
    BY <1>2 DEF FetchRef
  <2>3. /\ run'.start = run.start /\ DOMAIN run' = DOMAIN run
        /\ run'.mode = run.mode /\ run'.fetchHead = F
    BY <2>1, <2>2 DEF SyncInv, SyncType, Fields
  <2>4. SyncType' /\ NotAhead'
    BY <2>2, <2>3, NextCommand DEF SyncInv, SyncType
  <2>5. RefFresh'
    <3>1. \A b \in Branches : FreshFor(tracking'[b], run.start)
      BY <1>0, <2>2 DEF Fresh
    <3>2. \A c \in F : FreshFor(c, run.start)
      BY <1>0, <2>1, <2>2 DEF Fresh
    <3> QED
      BY <2>2, <2>3, <3>1, <3>2 DEF SyncInv, RefFresh, Fresh, Branches
  <2> QED
    BY <2>2, <2>4, <2>5 DEF SyncInv, PullFresh, SyncedIsFresh
<1>3. CASE pc' # "idle" /\ (LookupRef \/ DiscardForRef)
  <2>1. /\ UNCHANGED <<tip, upstream, local, tracking, run>>
        /\ pc \in {"lookup", "discardref"} /\ pc' \in {"listref", "resetref"}
    BY <1>3 DEF LookupRef, DiscardForRef, DiscardThen, repoVars
  <2>2. SyncType' /\ NotAhead'
    BY <2>1, NextCommand DEF SyncInv, SyncType
  <2> QED
    BY <2>1, <2>2 DEF SyncInv, PullFresh, RefFresh, SyncedIsFresh, Fresh, Branches
<1>4. CASE pc' # "idle" /\ ResetToRef
  <2>1. PICK c \in Resolved : local' = [local EXCEPT ![Cur] = c]
    BY <1>4 DEF ResetToRef
  <2>2. /\ pc = "resetref" /\ pc' = "stash" /\ UNCHANGED <<tip, upstream, tracking, run>>
    BY <1>4 DEF ResetToRef
  <2>3. run.target \notin LocalNames => Fresh(c)
    BY <2>1, <2>2 DEF Resolved, SyncInv, RefFresh
  <2>4. local'[Cur] = c /\ run.mode = "ref"
    BY <2>1, <2>2 DEF SyncInv, SyncType, RefFresh
  <2>5. SyncType' /\ NotAhead'
    BY <2>1, <2>2, NextCommand DEF SyncInv, SyncType
  <2>6. SyncedIsFresh'
    BY <2>2, <2>3, <2>4, <2>5
       DEF SyncInv, SyncType, SyncedIsFresh, Fresh, FreshFor, Branches
  <2> QED
    BY <2>2, <2>5, <2>6 DEF SyncInv, PullFresh, RefFresh
<1> QED
  BY <1>1, <1>2, <1>3, <1>4

\* Neither are the entries of its stash part of what the repository is put at,
LEMMA DropStep ==
  ASSUME SyncInv, ListStashes \/ \E i \in drops : DropStash(i)
  PROVE  SyncInv'
<1>1. /\ UNCHANGED <<tip, upstream, local, tracking, run>> /\ pc # "idle"
      /\ \/ pc' = pc
         \/ pc = "list" /\ pc' = "discard"
         \/ pc = "listref" /\ pc' = "discardref"
  BY DEF ListStashes, ListStashesThen, DropStash, repoVars
<1>2. CASE pc' = pc
  BY <1>1, <1>2, QuietStep DEF SyncInv, SyncType
<1>3. CASE pc' # pc
  <2>1. SyncType' /\ NotAhead'
    BY <1>1, <1>3, NextCommand DEF SyncInv, SyncType
  <2> QED
    BY <1>1, <1>3, <2>1 DEF SyncInv, PullFresh, RefFresh, SyncedIsFresh, Fresh, Branches
<1> QED
  BY <1>2, <1>3

\* nor are the submodules.
LEMMA SubmoduleStep ==
  ASSUME SyncInv, StashSubmodules \/ UpdateSubmodules \/ PopSubmodules
                  \/ CheckConflicts \/ ResetSubmodules \/ DropSubmoduleStashes
  PROVE  SyncInv'
<1>1. /\ UNCHANGED <<tip, upstream, local, tracking>>
      /\ pc # "idle"
      /\ pc' \in {"idle", "submodules", "pop", "check", "checkfailed", "resetsubs", "dropsubs"}
      /\ pc' # "idle" => DOMAIN run' = DOMAIN run /\ run'.start = run.start
  <2>1. CASE StashSubmodules
    <3>1. run' = [run EXCEPT !.fetchHead = {}]
      BY <2>1 DEF StashSubmodules, Fetched
    <3>2. pc # "idle" /\ DOMAIN run' = DOMAIN run /\ run'.start = run.start
      BY <2>1, <3>1 DEF StashSubmodules, SyncInv, SyncType, Fields
    <3> QED
      BY <2>1, <3>2 DEF StashSubmodules, Fetched, repoVars
  <2>2. CASE ~StashSubmodules
    BY <2>2 DEF UpdateSubmodules, PopSubmodules, CheckConflicts, ResetSubmodules,
                DropSubmoduleStashes, Goto, End, repoVars
  <2> QED
    BY <2>1, <2>2
<1>2. CASE pc' = "idle"
  BY <1>1, <1>2, EdgeOfSync
<1>3. CASE pc' # "idle"
  <2>1. SyncType' /\ NotAhead'
    BY <1>1, <1>3, NextCommand DEF SyncInv, SyncType
  <2> QED
    BY <1>1, <1>3, <2>1 DEF SyncInv, PullFresh, RefFresh, SyncedIsFresh
<1> QED
  BY <1>2, <1>3

LEMMA SyncStep == SyncInv /\ [Next]_vars => SyncInv'
<1> SUFFICES ASSUME SyncInv, [Next]_vars PROVE SyncInv'
  OBVIOUS
<1>1. CASE \/ Begin("pull", Cur) \/ \E ref \in Names : Begin("ref", ref)
  BY <1>1, BeginStep
<1>2. CASE Unprepared \/ Crash
  BY <1>2, EdgeOfSync DEF Unprepared, Crash, End, repoVars
<1>3. CASE UNCHANGED vars \/ (\E b \in Branches : Push(b))
           \/ (\E s \in Subs, e \in Edits : Edit(s, e)) \/ (\E s \in Subs : UserStash(s))
  <2>1. /\ UNCHANGED <<upstream, local, tracking, pc>>
        /\ run' = run \/ (pc # "idle" /\ \E m : run' = [run EXCEPT !.meddled = m])
    BY <1>3 DEF vars, Push, Edit, UserStash, repoVars, syncVars
  <2>2. tip \in [Branches -> Nat]
    BY DEF SyncInv, SyncType
  <2>3. CASE UNCHANGED tip
    BY <2>1, <2>2, <2>3, QuietStep
  <2>4. ASSUME NEW b \in Branches, Push(b) PROVE SyncInv'
    <3>1. tip' = [tip EXCEPT ![b] = tip[b] + 1]
      BY <2>4 DEF Push
    <3>2. tip' \in [Branches -> Nat] /\ \A c \in Branches : tip'[c] >= tip[c]
      BY <2>2, <3>1
    <3> QED
      BY <2>1, <3>2, QuietStep
  <2> QED
    BY <1>3, <2>3, <2>4 DEF vars, Edit, UserStash
<1>4. CASE Sync
  BY <1>1, <1>2, <1>4, DropStep, PullStep, RefStep, SubmoduleStep DEF Sync
<1> QED
  BY <1>2, <1>3, <1>4 DEF Next

-----------------------------------------------------------------------------
\* _git_sync_repo builds nothing older than the origin had when it began, whichever
\* of its fetches fail, whatever is pushed meanwhile and whatever FETCH_HEAD names,
\* unless the ref asked for is the name of a local branch.
THEOREM SyncedFreshAlways == Spec => []SyncedIsFresh
<1>1. SyncInv => SyncedIsFresh
  BY DEF SyncInv
<1> QED
  BY <1>1, InitSyncInv, SyncStep, PTL DEF Spec

-----------------------------------------------------------------------------
\* Stashes as sequences: the newest entry is the first.

LEMMA PushedEntry ==
  ASSUME NEW S, NEW st \in Seq(S), NEW x \in S
  PROVE  LET new == <<x>> \o st IN
         /\ new \in Seq(S) /\ new # <<>> /\ Head(new) = x
         /\ Range(new) = {x} \cup Range(st)
<1> DEFINE new == <<x>> \o st
<1>1. /\ new \in Seq(S) /\ Len(new) = Len(st) + 1 /\ Head(new) = x /\ new # <<>>
      /\ \A i \in 1..Len(new) : new[i] = IF i = 1 THEN x ELSE st[i - 1]
  OBVIOUS
<1>2. \A i \in 1..Len(st) : st[i] = new[i + 1]
  BY <1>1
<1>3. DOMAIN new = 1..Len(new) /\ DOMAIN st = 1..Len(st) /\ Len(st) \in Nat
  BY <1>1
<1> HIDE DEF new
<1>4. Range(new) \subseteq {x} \cup Range(st)
  <2>1. \A i \in 1..Len(new) : i = 1 \/ (i - 1 \in 1..Len(st) /\ new[i] = st[i - 1])
    BY <1>1, <1>3
  <2> QED
    BY <1>1, <1>3, <2>1 DEF Range
<1>5. ASSUME NEW y \in {x} \cup Range(st) PROVE y \in Range(new)
  <2>1. CASE y = x
    <3>1. 1 \in DOMAIN new /\ new[1] = y
      BY <1>1, <1>3, <2>1
    <3> QED
      BY <3>1 DEF Range
  <2>2. CASE y \in Range(st)
    <3>1. PICK i \in 1..Len(st) : y = st[i]
      BY <1>3, <2>2 DEF Range
    <3>2. i + 1 \in DOMAIN new /\ new[i + 1] = y
      BY <1>1, <1>2, <1>3, <3>1
    <3> QED
      BY <3>2 DEF Range
  <2> QED
    BY <2>1, <2>2
<1> QED
  BY <1>1, <1>4, <1>5 DEF new

LEMMA PoppedEntry ==
  ASSUME NEW S, NEW st \in Seq(S), st # <<>>
  PROVE  /\ Head(st) \in S /\ Tail(st) \in Seq(S)
         /\ Range(st) \subseteq {Head(st)} \cup Range(Tail(st))
         /\ Range(Tail(st)) \subseteq Range(st)
<1> DEFINE rest == Tail(st)
<1>1. /\ Head(st) = st[1] /\ st[1] \in S /\ rest \in Seq(S)
      /\ Len(st) \in Nat \ {0} /\ Len(rest) = Len(st) - 1
      /\ \A i \in 1..Len(rest) : rest[i] = st[i + 1]
  OBVIOUS
<1>2. DOMAIN rest = 1..Len(rest) /\ DOMAIN st = 1..Len(st)
  BY <1>1
<1> HIDE DEF rest
<1>3. \A i \in 1..Len(st) : i = 1 \/ (i - 1 \in 1..Len(rest) /\ st[i] = rest[i - 1])
  BY <1>1
<1>4. \A i \in 1..Len(rest) : i + 1 \in 1..Len(st) /\ rest[i] = st[i + 1]
  BY <1>1
<1>5. ASSUME NEW y \in Range(st) PROVE y \in {Head(st)} \cup Range(rest)
  <2>1. PICK i \in 1..Len(st) : y = st[i]
    BY <1>2 DEF Range
  <2>2. CASE i = 1
    BY <1>1, <2>1, <2>2
  <2>3. CASE i # 1
    BY <1>2, <1>3, <2>1, <2>3 DEF Range
  <2> QED
    BY <2>2, <2>3
<1>6. Range(rest) \subseteq Range(st)
  BY <1>2, <1>4 DEF Range
<1> QED
  BY <1>1, <1>5, <1>6 DEF rest

-----------------------------------------------------------------------------
SubType ==
    /\ subTree \in [Subs -> SUBSET Edits]
    /\ subStash \in [Subs -> Seq(Entries)]

\* The commands before the submodules are stashed.
MainCommands == {"pull", "resolve", "list", "discard", "fetch", "reset", "fetchref",
                 "lookup", "listref", "discardref", "resetref", "stash"}

\* What "stash pop" would bring back.
AtTop(e, s) == subStash[s] # <<>> /\ e \in Head(subStash[s]).edits

\* The edits a submodule had when the sync began are in its tree, or stashed last,
\* unless somebody stashed there since.
BeforeKept ==
    /\ pc \in MainCommands \cup {"check"} =>
         \A s \in Subs \ run.meddled : run.before[s] \subseteq subTree[s]
    /\ pc \in {"submodules", "pop"} =>
         \A s \in Subs \ run.meddled : \A e \in run.before[s] : e \in subTree[s] \/ AtTop(e, s)

EditsInv ==
    /\ SubType /\ BeforeKept
    /\ pc # "idle" => outcome = "none"
    /\ pc \in {"resetsubs", "dropsubs"} => suspect

GitInv == SyncInv /\ EditsInv

LEMMA InitEdits == Init => EditsInv
BY DEF Init, EditsInv, SubType, BeforeKept, MainCommands

\* A command that ends the sync leaves the edits where they are.
LEMMA EndKeepsEdits ==
  ASSUME EditsInv, UNCHANGED subVars, pc' = "idle"
  PROVE  EditsInv' /\ Made' = Made
BY DEF EditsInv, SubType, BeforeKept, MainCommands, subVars, Made, InTrees, InStashes,
       EntriesOf, Range

\* The commands on the main repository and the pushes to the origin.
LEMMA MainStep ==
  ASSUME GitInv,
         \/ PullMerges \/ PullFails \/ ResolveBranch \/ Discard
         \/ FetchOrigin \/ ResetToOrigin
         \/ FetchRef \/ LookupRef \/ DiscardForRef \/ ResetToRef
         \/ \E b \in Branches : Push(b)
         \/ UNCHANGED vars
  PROVE  EditsInv' /\ Made' = Made
<1> USE DEF Goto, End, Fetched
<1>1. UNCHANGED subVars
  BY DEF PullMerges, PullFails, ResolveBranch, Discard, DiscardThen, FetchOrigin,
         ResetToOrigin, FetchRef, LookupRef, DiscardForRef, ResetToRef, Push, vars
<1>2. Made' = Made /\ InTrees' = InTrees
  BY <1>1 DEF subVars, Made, InTrees, InStashes, EntriesOf, Range
<1>3. CASE UNCHANGED syncVars
  BY <1>1, <1>2, <1>3 DEF subVars, syncVars, GitInv, EditsInv, SubType, BeforeKept, AtTop
<1>4. CASE pc' = "idle"
  BY <1>1, <1>4, EndKeepsEdits DEF GitInv
<1>5. CASE pc' # "idle" /\ ~UNCHANGED syncVars
  <2>1. pc \in MainCommands /\ pc' \in MainCommands /\ outcome' = "none"
    BY <1>5 DEF PullMerges, PullFails, ResolveBranch, Discard, DiscardThen, FetchOrigin,
                ResetToOrigin, FetchRef, LookupRef, DiscardForRef, ResetToRef, Push,
                syncVars, vars, MainCommands
  <2>2. run'.before = run.before /\ run'.meddled = run.meddled /\ UNCHANGED suspect
    <3>0. UNCHANGED suspect
      BY <1>5 DEF PullMerges, PullFails, ResolveBranch, Discard, DiscardThen, FetchOrigin,
                  ResetToOrigin, FetchRef, LookupRef, DiscardForRef, ResetToRef, Push,
                  syncVars, vars
    <3>1. DOMAIN run = {"mode", "target", "fetchHead", "start", "before", "meddled"}
      BY <2>1 DEF GitInv, SyncInv, SyncType, MainCommands, Fields
    <3>2. \/ run' = run \/ (\E b : run' = [run EXCEPT !.target = b])
          \/ \E F : run' = [run EXCEPT !.fetchHead = F]
      BY <1>5 DEF PullMerges, PullFails, ResolveBranch, Discard, DiscardThen, FetchOrigin,
                  ResetToOrigin, FetchRef, LookupRef, DiscardForRef, ResetToRef, Push,
                  syncVars, vars
    <3> QED
      BY <3>0, <3>1, <3>2
  <2> QED
    BY <1>1, <1>2, <2>1, <2>2
       DEF subVars, GitInv, EditsInv, SubType, BeforeKept, MainCommands
<1> QED
  BY <1>2, <1>3, <1>4, <1>5

LEMMA DropEdits ==
  ASSUME GitInv, ListStashes \/ \E i \in drops : DropStash(i)
  PROVE  EditsInv' /\ Made' = Made
<1>1. /\ UNCHANGED subVars /\ run' = run /\ pc \in MainCommands /\ pc' \in MainCommands
      /\ outcome' = "none"
  BY DEF ListStashes, ListStashesThen, DropStash, MainCommands, GitInv, EditsInv
<1>2. Made' = Made /\ InTrees' = InTrees
  BY <1>1 DEF subVars, Made, InTrees, InStashes, EntriesOf, Range
<1> QED
  BY <1>1, <1>2 DEF subVars, GitInv, EditsInv, SubType, BeforeKept, MainCommands

LEMMA BeginEdits ==
  ASSUME GitInv, NEW m \in {"pull", "ref"}, NEW ref, Begin(m, ref)
  PROVE  EditsInv' /\ Made' = Made
<1>1. UNCHANGED subVars
  BY DEF Begin
<1>2. Made' = Made /\ InTrees' = InTrees
  BY <1>1 DEF subVars, Made, InTrees, InStashes, EntriesOf, Range
<1>3. /\ run'.before = subTree /\ run'.meddled = {} /\ outcome' = "none"
      /\ pc' \in {"pull", "fetchref"}
  BY DEF Begin, Run
<1> QED
  BY <1>1, <1>2, <1>3 DEF subVars, GitInv, EditsInv, SubType, BeforeKept, MainCommands

\* Somebody edits in a submodule, or stashes there, between two syncs or in one.
LEMMA UserStep ==
  ASSUME GitInv, NEW s \in Subs, UserStash(s) \/ \E e \in Edits : Edit(s, e)
  PROVE  EditsInv' /\ Made \subseteq Made'
<1> USE DEF GitInv, EditsInv, SubType
<1>1. ASSUME NEW e \in Edits, Edit(s, e)
      PROVE  EditsInv' /\ Made \subseteq Made'
  <2>1. /\ subTree' = [subTree EXCEPT ![s] = subTree[s] \cup {e}]
        /\ UNCHANGED <<subStash, suspect, pc, run, outcome>>
    BY <1>1 DEF Edit, syncVars
  <2>2. /\ subTree' \in [Subs -> SUBSET Edits]
        /\ \A u \in Subs : subTree[u] \subseteq subTree'[u]
    BY <2>1
  <2>3. InTrees \subseteq InTrees' /\ InStashes' = InStashes
    BY <2>1, <2>2 DEF InTrees, InStashes, EntriesOf, Range
  <2>4. BeforeKept'
    BY <2>1, <2>2, <2>3 DEF BeforeKept, AtTop
  <2> QED
    BY <2>1, <2>2, <2>3, <2>4 DEF Made
<1>2. CASE UserStash(s)
  <2> DEFINE entry == [owner |-> "user", edits |-> subTree[s]]
             new == <<entry>> \o subStash[s]
  <2>1. /\ UNCHANGED <<suspect, pc, outcome>>
        /\ run' = IF pc = "idle" THEN run
                  ELSE [run EXCEPT !.meddled = run.meddled \cup {s}]
        /\ subStash' = [subStash EXCEPT ![s] = new]
        /\ subTree' = [subTree EXCEPT ![s] = {}]
    BY <1>2 DEF UserStash, syncVars
  <2>2. entry \in Entries /\ subStash[s] \in Seq(Entries)
    <3>1. subTree[s] \in (SUBSET Edits) \ {{}}
      BY <1>2 DEF UserStash
    <3> QED
      BY <3>1 DEF Entries
  <2>3. new \in Seq(Entries) /\ Range(new) = {entry} \cup Range(subStash[s])
    BY <2>2, PushedEntry
  <2>4. EditsInv'
    <3>1. pc # "idle" => run'.before = run.before /\ run'.meddled = run.meddled \cup {s}
      BY <2>1 DEF SyncInv, SyncType, Fields
    <3>2. \A q \in Subs \ {s} : subTree'[q] = subTree[q] /\ subStash'[q] = subStash[q]
      BY <2>1
    <3>3. BeforeKept'
      BY <2>1, <3>1, <3>2 DEF BeforeKept, AtTop, MainCommands
    <3> QED
      BY <2>1, <2>3, <3>3
  <2>5. ASSUME NEW e \in Made PROVE e \in Made'
    <3>1. CASE e \in subTree[s]
      <4>1. entry \in EntriesOf(subStash'[s]) /\ e \in entry.edits
        BY <2>1, <2>3, <3>1 DEF EntriesOf
      <4> QED
        BY <4>1 DEF Made, InStashes
    <3>2. ASSUME NEW u \in Subs, e \in subTree[u], u # s PROVE e \in Made'
      BY <2>1, <3>2 DEF Made, InTrees
    <3>3. ASSUME NEW u \in Subs, NEW x \in EntriesOf(subStash[u]), e \in x.edits
          PROVE  e \in Made'
      <4>1. x \in EntriesOf(subStash'[u])
        BY <2>1, <2>3, <3>3 DEF EntriesOf
      <4> QED
        BY <3>3, <4>1 DEF Made, InStashes
    <3> QED
      BY <3>1, <3>2, <3>3 DEF Made, InTrees, InStashes
  <2> QED
    BY <2>4, <2>5
<1> QED
  BY <1>1, <1>2

-----------------------------------------------------------------------------
\* "stash push" in the submodules that have edits: what was in their trees is
\* now at the top of their stashes, or, where it failed, still in the trees.
LEMMA StashStep ==
  ASSUME GitInv, StashSubmodules
  PROVE  EditsInv' /\ Made \subseteq Made'
<1> USE DEF GitInv, EditsInv, SubType
<1> DEFINE entry(s) == [owner |-> "ours", edits |-> subTree[s]]
           new(s) == <<entry(s)>> \o subStash[s]
<1>1. PICK done \in SUBSET {s \in Subs \ conflict : subTree[s] # {}} :
        /\ subStash' = [s \in Subs |-> IF s \in done THEN new(s) ELSE subStash[s]]
        /\ subTree' = [s \in Subs |-> IF s \in done THEN {} ELSE subTree[s]]
  BY DEF StashSubmodules
<1>2. /\ pc = "stash" /\ pc' = "submodules" /\ outcome' = "none" /\ UNCHANGED suspect
      /\ run'.before = run.before /\ run'.meddled = run.meddled
  <2>1. pc = "stash" /\ pc' = "submodules" /\ outcome' = "none" /\ UNCHANGED suspect
        /\ run' = [run EXCEPT !.fetchHead = {}]
    BY DEF StashSubmodules, Fetched
  <2> QED
    BY <2>1 DEF SyncInv, SyncType, Fields
<1>3. ASSUME NEW s \in done PROVE entry(s) \in Entries /\ subStash[s] \in Seq(Entries)
  <2>1. subTree[s] \in (SUBSET Edits) \ {{}}
    OBVIOUS
  <2> QED
    BY <2>1 DEF Entries
<1>4. \A s \in done : /\ new(s) \in Seq(Entries) /\ new(s) # <<>>
                      /\ Head(new(s)) = entry(s)
                      /\ Range(new(s)) = {entry(s)} \cup Range(subStash[s])
  BY <1>3, PushedEntry
<1>5. \A s \in Subs : subTree[s] = entry(s).edits
  OBVIOUS
<1> HIDE DEF entry, new
<1>6. SubType'
  BY <1>1, <1>4
<1>7. ASSUME NEW s \in Subs, NEW e \in subTree[s]
      PROVE  (e \in subTree[s] \/ AtTop(e, s))' /\ e \in Made'
  <2>1. CASE s \in done
    <3>1. subStash'[s] = new(s)
      BY <1>1, <2>1
    <3>2. AtTop(e, s)'
      BY <1>4, <1>5, <1>7, <2>1, <3>1 DEF AtTop
    <3>3. entry(s) \in EntriesOf(subStash'[s]) /\ e \in entry(s).edits
      BY <1>4, <1>5, <1>7, <2>1, <3>1 DEF EntriesOf
    <3> QED
      BY <3>2, <3>3 DEF Made, InStashes
  <2>2. CASE s \notin done
    BY <1>1, <1>7, <2>2 DEF Made, InTrees
  <2> QED
    BY <2>1, <2>2
<1>8. BeforeKept'
  <2>1. \A s \in Subs \ run.meddled : run.before[s] \subseteq subTree[s]
    BY <1>2 DEF BeforeKept, MainCommands
  <2>2. \A s \in Subs \ run.meddled : \A e \in run.before[s] :
          (e \in subTree[s] \/ AtTop(e, s))'
    BY <1>7, <2>1
  <2> QED
    BY <1>2, <2>2 DEF BeforeKept, MainCommands
<1>9. ASSUME NEW s \in Subs, NEW x \in EntriesOf(subStash[s]), NEW e \in x.edits
      PROVE  e \in Made'
  <2>1. x \in EntriesOf(subStash'[s])
    BY <1>1, <1>4, <1>9 DEF EntriesOf
  <2> QED
    BY <2>1 DEF Made, InStashes
<1>10. EditsInv'
  BY <1>2, <1>6, <1>8
<1>11. Made \subseteq Made'
  <2> SUFFICES ASSUME NEW e \in Made PROVE e \in Made'
    OBVIOUS
  <2>1. CASE e \in InTrees
    BY <1>7, <2>1 DEF InTrees
  <2>2. CASE e \in InStashes
    BY <1>9, <2>2 DEF InStashes
  <2> QED
    BY <2>1, <2>2 DEF Made
<1> QED
  BY <1>10, <1>11

\* "stash pop": the newest entry of a stash goes into the tree.
LEMMA PopMoves ==
  ASSUME SubType, NEW done \in SUBSET Subs, PopIn(done)
  PROVE  /\ SubType' /\ Made \subseteq Made'
         /\ \A s \in Subs : subTree[s] \subseteq subTree'[s]
         /\ \A s \in done : \A e : AtTop(e, s) => e \in subTree'[s]
<1> USE DEF SubType
<1>1. /\ subTree' = [s \in Subs |-> IF s \in done /\ subStash[s] # <<>>
                                    THEN subTree[s] \cup Head(subStash[s]).edits
                                    ELSE subTree[s]]
      /\ subStash' = [s \in Subs |-> IF s \in done /\ subStash[s] # <<>>
                                     THEN Tail(subStash[s]) ELSE subStash[s]]
  BY DEF PopIn
<1>2. \A s \in Subs : subStash[s] # <<>> =>
        /\ Head(subStash[s]) \in Entries /\ Tail(subStash[s]) \in Seq(Entries)
        /\ Range(subStash[s]) \subseteq {Head(subStash[s])} \cup Range(Tail(subStash[s]))
  BY PoppedEntry
<1>3. \A x \in Entries : x.edits \in SUBSET Edits
  BY DEF Entries
<1>4. SubType'
  BY <1>1, <1>2, <1>3
<1>5. /\ \A s \in Subs : subTree[s] \subseteq subTree'[s]
      /\ \A s \in done : \A e : AtTop(e, s) => e \in subTree'[s]
  BY <1>1 DEF AtTop
<1>6. ASSUME NEW s \in Subs, NEW x \in EntriesOf(subStash[s]), NEW e \in x.edits
      PROVE  e \in Made'
  <2>1. CASE x \in EntriesOf(subStash'[s])
    BY <1>6, <2>1 DEF Made, InStashes
  <2>2. CASE x \notin EntriesOf(subStash'[s])
    <3>1. s \in done /\ subStash[s] # <<>> /\ x = Head(subStash[s])
      BY <1>1, <1>2, <1>6, <2>2 DEF EntriesOf
    <3>2. e \in subTree'[s]
      BY <1>1, <1>6, <3>1
    <3> QED
      BY <3>2 DEF Made, InTrees
  <2> QED
    BY <2>1, <2>2
<1> QED
  BY <1>4, <1>5, <1>6 DEF Made, InTrees, InStashes

LEMMA PopStep ==
  ASSUME GitInv, PopSubmodules
  PROVE  EditsInv' /\ Made \subseteq Made'
<1> USE DEF GitInv, EditsInv
<1>1. PICK n \in 0..Len(Submodules) :
        LET done == {Submodules[i] : i \in 1..n}
            failed == IF n < Len(Submodules) THEN {Submodules[n + 1]} ELSE {}
        IN  /\ PopIn(done)
            /\ Goto(IF failed = {} THEN "check" ELSE "checkfailed")
  BY DEF PopSubmodules
<1> DEFINE done == {Submodules[i] : i \in 1..n}
<1>2. pc = "pop"
  BY DEF PopSubmodules
<1>3. Submodules \in Seq(Range(Submodules)) /\ Len(Submodules) \in Nat
  BY GitAssumption
<1>4. done \in SUBSET Subs
  BY <1>3 DEF Subs
<1>5. PopIn(done)
  BY <1>1
<1>6. /\ SubType' /\ Made \subseteq Made'
      /\ \A s \in Subs : subTree[s] \subseteq subTree'[s]
      /\ \A s \in done : \A e : AtTop(e, s) => e \in subTree'[s]
  BY <1>4, <1>5, PopMoves
<1>7. /\ pc' \in {"check", "checkfailed"} /\ outcome' = "none" /\ run' = run
      /\ pc' = "check" => n = Len(Submodules)
  BY <1>1, <1>3 DEF Goto
<1>8. ASSUME pc' = "check", NEW s \in Subs \ run.meddled PROVE run.before[s] \subseteq subTree'[s]
  <2>1. s \in done
    BY <1>3, <1>7, <1>8 DEF Subs, Range
  <2>2. \A e \in run.before[s] : e \in subTree[s] \/ AtTop(e, s)
    BY <1>2, <1>8 DEF BeforeKept
  <2> HIDE DEF done
  <2> QED
    BY <1>6, <1>8, <2>1, <2>2
<1>9. BeforeKept'
  BY <1>7, <1>8 DEF BeforeKept, MainCommands
<1> QED
  BY <1>6, <1>7, <1>9

\* After a conflict, or a check that failed, the edits are thrown away; the rest
\* of the submodule commands do not touch them.
LEMMA ThrowStep ==
  ASSUME GitInv,
         UpdateSubmodules \/ CheckConflicts \/ ResetSubmodules \/ DropSubmoduleStashes
  PROVE  EditsInv' /\ (suspect \/ Made' = Made)
<1> USE DEF GitInv, EditsInv, SubType
<1>1. CASE UpdateSubmodules \/ CheckConflicts
  <2>1. /\ UNCHANGED subVars /\ pc \in {"submodules", "check", "checkfailed"}
        /\ \/ pc' = "idle"
           \/ pc = "submodules" /\ pc' = "pop" /\ outcome' = "none" /\ run' = run
           \/ pc' = "resetsubs" /\ outcome' = outcome /\ suspect'
    BY <1>1 DEF UpdateSubmodules, CheckConflicts, Goto, End
  <2>2. Made' = Made
    BY <2>1 DEF subVars, Made, InTrees, InStashes, EntriesOf, Range
  <2> QED
    BY <2>1, <2>2 DEF subVars, BeforeKept, MainCommands, AtTop
<1>2. CASE ResetSubmodules
  <2>1. PICK done \in SUBSET Subs :
          subTree' = [s \in Subs |-> IF s \in done THEN {} ELSE subTree[s]]
    BY <1>2 DEF ResetSubmodules
  <2>2. subTree' \in [Subs -> SUBSET Edits]
    BY <2>1
  <2> QED
    BY <1>2, <2>2 DEF ResetSubmodules, Goto, BeforeKept, MainCommands
<1>3. CASE DropSubmoduleStashes
  <2>1. PICK n \in 0..Len(Submodules) :
          subStash' = [s \in Subs |->
              IF /\ \E i \in 1..n : Submodules[i] = s
                 /\ \E e \in EntriesOf(subStash[s]) : e.owner = "ours"
              THEN Tail(subStash[s]) ELSE subStash[s]]
    BY <1>3 DEF DropSubmoduleStashes
  <2>2. ASSUME NEW s \in Subs PROVE subStash'[s] \in Seq(Entries)
    <3>1. CASE subStash[s] = <<>>
      <4>1. EntriesOf(subStash[s]) = {}
        BY <3>1 DEF EntriesOf, Range
      <4> QED
        BY <2>1, <4>1
    <3>2. CASE subStash[s] # <<>>
      BY <2>1, <3>2, PoppedEntry
    <3> QED
      BY <3>1, <3>2
  <2>3. subStash' \in [Subs -> Seq(Entries)]
    BY <2>1, <2>2
  <2>4. /\ pc' = "idle" /\ UNCHANGED subTree /\ suspect
    BY <1>3 DEF DropSubmoduleStashes, End
  <2> QED
    BY <2>3, <2>4 DEF BeforeKept, MainCommands
<1> QED
  BY <1>1, <1>2, <1>3

\* Every step keeps the invariant, and what was made unless the check suspects a conflict.
LEMMA EditsStep ==
  ASSUME GitInv, [Next]_vars
  PROVE  GitInv' /\ (suspect \/ Made \subseteq Made')
<1>1. SyncInv'
  BY SyncStep DEF GitInv
<1>2. CASE Unprepared \/ Crash
  BY <1>1, <1>2, EndKeepsEdits DEF Unprepared, Crash, End, GitInv
<1>3. CASE Begin("pull", Cur) \/ \E ref \in Names : Begin("ref", ref)
  BY <1>1, <1>3, BeginEdits DEF GitInv
<1>4. CASE \E s \in Subs : UserStash(s) \/ \E e \in Edits : Edit(s, e)
  BY <1>1, <1>4, UserStep DEF GitInv
<1> QED
  BY <1>1, <1>2, <1>3, <1>4, MainStep, DropEdits, StashStep, PopStep, ThrowStep
     DEF Next, Sync, GitInv

LEMMA GitInvAlways == Spec => []GitInv
<1>1. Init => GitInv
  BY InitSyncInv, InitEdits DEF GitInv
<1>2. GitInv /\ [Next]_vars => GitInv'
  BY EditsStep
<1> QED
  BY <1>1, <1>2, PTL DEF Spec

-----------------------------------------------------------------------------
\* _git_submodule_update_inner loses no edit of the edge host: whichever command
\* fails and whenever the agent is restarted, an edit is in a tree or in a stash,
\* until the check for unmerged files finds a conflict or fails itself.
THEOREM EditsKept == Spec => EditsOnlyLostToConflicts
<1>1. GitInv /\ [Next]_vars => [suspect \/ Made \subseteq Made']_vars
  BY EditsStep
<1> QED
  BY <1>1, GitInvAlways, PTL DEF Spec, EditsOnlyLostToConflicts

\* When the pops of _git_submodule_pop_all all succeed and the check finds nothing,
\* each submodule has the edits in its tree again that it had at the beginning,
\* whatever users stashed there before: the newest entry, which the pop takes, is
\* the one of the sync unless somebody stashed in between.
THEOREM EditsRestored == Spec => DoneRestoresEdits
<1>1. ASSUME GitInv, [Next]_vars, outcome' = "done", pc = "check"
      PROVE  \A s \in Subs \ run.meddled : run.before[s] \subseteq subTree'[s]
  <2>1. UNCHANGED subTree
    BY <1>1 DEF GitInv, EditsInv, Next, Sync, Begin, Unprepared, PullMerges, PullFails,
                ResolveBranch, ListStashes, ListStashesThen, DropStash, Discard,
                DiscardThen, FetchOrigin, ResetToOrigin, FetchRef,
                LookupRef, DiscardForRef, ResetToRef, StashSubmodules, UpdateSubmodules,
                PopSubmodules, CheckConflicts, ResetSubmodules, DropSubmoduleStashes,
                Crash, Push, Edit, UserStash, Goto, End, subVars, syncVars, vars
  <2> QED
    BY <1>1, <2>1 DEF GitInv, EditsInv, BeforeKept
<1>2. GitInv /\ [Next]_vars =>
        [outcome' = "done" /\ pc = "check" =>
           \A s \in Subs \ run.meddled : run.before[s] \subseteq subTree'[s]]_vars
  BY <1>1
<1> QED
  BY <1>2, GitInvAlways, PTL DEF Spec, DoneRestoresEdits

-----------------------------------------------------------------------------
\* The numbers of the listing stay valid: what is still to be dropped lies before
\* everything that was.
StashInv ==
    /\ stash \in Seq({"ours"} \cup UserStashes)
    /\ \A i \in drops : i \in DOMAIN stash /\ stash[i] = "ours"

LEMMA InitStash == Init => StashInv
BY GitAssumption DEF Init, StashInv

\* What is left of a sequence without its i-th element.
LEMMA Removed ==
  ASSUME NEW S, NEW st \in Seq(S), NEW i \in DOMAIN st
  PROVE  /\ RemoveAt(st, i) \in Seq(S)
         /\ Len(RemoveAt(st, i)) = Len(st) - 1
         /\ \A j \in 1 .. (i - 1) : RemoveAt(st, i)[j] = st[j]
         /\ \A j \in i .. (Len(st) - 1) : RemoveAt(st, i)[j] = st[j + 1]
<1> DEFINE a == SubSeq(st, 1, i - 1)
           b == SubSeq(st, i + 1, Len(st))
<1>1. i \in 1 .. Len(st) /\ Len(st) \in Nat
  OBVIOUS
<1>2. a \in Seq(S) /\ Len(a) = i - 1 /\ \A j \in 1 .. (i - 1) : a[j] = st[j]
  BY <1>1
<1>3. b \in Seq(S) /\ Len(b) = Len(st) - i /\ \A j \in 1 .. Len(b) : b[j] = st[i + j]
  BY <1>1
<1>4. RemoveAt(st, i) = a \o b
  BY DEF RemoveAt
<1> HIDE DEF a, b
<1>5. /\ a \o b \in Seq(S) /\ Len(a \o b) = Len(st) - 1
      /\ \A j \in 1 .. (i - 1) : (a \o b)[j] = st[j]
  BY <1>1, <1>2, <1>3
<1>6. ASSUME NEW j \in i .. (Len(st) - 1) PROVE (a \o b)[j] = st[j + 1]
  <2>1. PICK k \in 1 .. Len(b) : k = j - (i - 1)
    BY <1>1, <1>3
  <2>2. (a \o b)[j] = b[k]
    <3>1. j \in 1 .. (Len(a) + Len(b)) /\ ~(j <= Len(a)) /\ j - Len(a) = k
      <4>1. i \in Nat /\ j \in Nat /\ 1 <= i /\ i <= j /\ j <= Len(st) - 1
        BY <1>1
      <4>2. Len(a) = i - 1 /\ Len(b) = Len(st) - i /\ k = j - (i - 1)
        BY <1>2, <1>3, <2>1
      <4> QED
        BY <1>1, <4>1, <4>2
    <3> QED
      BY <1>2, <1>3, <3>1, ConcatProperties
  <2>3. b[k] = st[i + k] /\ i + k = j + 1
    BY <1>1, <1>3, <2>1
  <2> QED
    BY <2>2, <2>3
<1> QED
  BY <1>4, <1>5, <1>6

LEMMA RemovedRange ==
  ASSUME NEW S, NEW st \in Seq(S), NEW i \in DOMAIN st
  PROVE  /\ Range(RemoveAt(st, i)) \subseteq Range(st)
         /\ \A e \in Range(st) : e # st[i] => e \in Range(RemoveAt(st, i))
<1> DEFINE rest == RemoveAt(st, i)
<1>1. /\ rest \in Seq(S) /\ Len(rest) = Len(st) - 1
      /\ \A j \in 1 .. (i - 1) : rest[j] = st[j]
      /\ \A j \in i .. (Len(st) - 1) : rest[j] = st[j + 1]
  BY Removed
<1> HIDE DEF rest
<1>2. ASSUME NEW j \in DOMAIN rest PROVE rest[j] \in Range(st)
  BY <1>1, <1>2 DEF Range
<1>3. ASSUME NEW j \in DOMAIN st, st[j] # st[i] PROVE st[j] \in Range(rest)
  <2>1. CASE j < i
    <3>1. j \in DOMAIN rest /\ rest[j] = st[j]
      BY <1>1, <2>1
    <3> QED
      BY <3>1 DEF Range
  <2>2. CASE j > i
    <3>0. j - 1 \in i .. (Len(st) - 1) /\ (j - 1) + 1 = j
      BY <2>2
    <3>1. j - 1 \in DOMAIN rest /\ rest[j - 1] = st[j]
      BY <1>1, <3>0
    <3> QED
      BY <3>1 DEF Range
  <2> QED
    BY <1>3, <2>1, <2>2
<1> QED
  BY <1>2, <1>3 DEF Range, rest

LEMMA DropKeepsUsers ==
  ASSUME StashInv, NEW i \in drops, DropStash(i)
  PROVE  StashInv' /\ UserEntries' = UserEntries
<1>1. /\ i \in DOMAIN stash /\ stash[i] = "ours" /\ stash \in Seq({"ours"} \cup UserStashes)
      /\ drops' = drops \ {i} /\ \A j \in drops' : j < i
  BY DEF StashInv, DropStash, NextDrop
<1>2. CASE stash' = stash
  BY <1>1, <1>2 DEF StashInv, UserEntries
<1>3. CASE stash' = RemoveAt(stash, i)
  <2>1. /\ stash' \in Seq({"ours"} \cup UserStashes) /\ Len(stash') = Len(stash) - 1
        /\ \A j \in 1 .. (i - 1) : stash'[j] = stash[j]
    BY <1>1, <1>3, Removed
  <2>2. StashInv'
    BY <1>1, <2>1 DEF StashInv
  <2>3. /\ Range(stash') \subseteq Range(stash)
        /\ \A e \in Range(stash) : e # "ours" => e \in Range(stash')
    BY <1>1, <1>3, RemovedRange
  <2>4. UserEntries' = UserEntries
    BY <2>3, GitAssumption DEF UserEntries
  <2> QED
    BY <2>2, <2>4
<1> QED
  BY <1>1, <1>2, <1>3 DEF DropStash

\* Only a drop changes the stash of the main repository.
LEMMA StashKept ==
  ASSUME StashInv, [Next]_vars
  PROVE  StashInv' /\ UserEntries' = UserEntries
<1>1. CASE \E i \in drops : DropStash(i)
  BY <1>1, DropKeepsUsers
<1>2. CASE ListStashes
  <2>1. stash' = stash /\ drops' \in {{}, {i \in DOMAIN stash : stash[i] = "ours"}}
    BY <1>2 DEF ListStashes, ListStashesThen, repoVars
  <2> QED
    BY <2>1 DEF StashInv, UserEntries
<1>3. CASE ~ ListStashes /\ ~ \E i \in drops : DropStash(i)
  <2>1. stash' = stash /\ drops' \in {drops, {}}
    <3>1. CASE \/ PullMerges \/ PullFails \/ ResolveBranch \/ Discard
               \/ FetchOrigin \/ ResetToOrigin
               \/ FetchRef \/ LookupRef \/ DiscardForRef \/ ResetToRef
      BY <3>1 DEF PullMerges, PullFails, ResolveBranch, Discard, DiscardThen, FetchOrigin,
                ResetToOrigin, FetchRef, LookupRef, DiscardForRef, ResetToRef, Goto, End,
                Fetched, repoVars
    <3>2. CASE \/ StashSubmodules \/ UpdateSubmodules \/ PopSubmodules
               \/ CheckConflicts \/ ResetSubmodules \/ DropSubmoduleStashes
               \/ Unprepared \/ Crash
      BY <3>2 DEF StashSubmodules, UpdateSubmodules, PopSubmodules, CheckConflicts,
                  ResetSubmodules, DropSubmoduleStashes, Unprepared, Crash, Goto, End,
                  Fetched, repoVars
    <3>3. CASE \/ Begin("pull", Cur) \/ \E ref \in Names : Begin("ref", ref)
               \/ \E b \in Branches : Push(b)
               \/ \E s \in Subs, e \in Edits : Edit(s, e)
               \/ \E s \in Subs : UserStash(s)
               \/ UNCHANGED vars
      BY <3>3 DEF Begin, Push, Edit, UserStash, repoVars, syncVars, vars
    <3> QED
      BY <1>3, <3>1, <3>2, <3>3 DEF Next, Sync
  <2> QED
    BY <2>1 DEF StashInv, UserEntries
<1> QED
  BY <1>1, <1>2, <1>3

\* _git_drop_update_stashes drops no entry of a user, wherever in its listing
\* a drop fails or the agent is restarted.
THEOREM UserEntriesKept == Spec => UserStashesKept
<1>1. StashInv /\ [Next]_vars => StashInv' /\ [UserEntries' = UserEntries]_vars
  BY StashKept
<1> QED
  BY <1>1, InitStash, PTL DEF Spec, UserStashesKept
=============================================================================
