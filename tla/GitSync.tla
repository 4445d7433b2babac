------------------------------ MODULE GitSync ------------------------------
(***************************************************************************)
(* The synchronisation of one git repository and its submodules before a   *)
(* build (_git_sync_repo in app.py): a pull, or the checkout of a ref the  *)
(* user asked for, and then the update of the submodules around a stash of *)
(* the changes made in them on the edge host.                              *)
(*                                                                         *)
(* Every git command is one action, and every one of them may fail.  Other *)
(* actors come in between: developers push to the origin, somebody edits   *)
(* or stashes in a submodule, and the agent is restarted, which kills the  *)
(* git command it runs.  _git_sync_lock keeps two syncs of one repository  *)
(* apart, so there is one sync at a time.  The current branch is checked   *)
(* out (a detached HEAD is left out), and the origin deletes no branch.    *)
(***************************************************************************)
EXTENDS Naturals, Sequences, SequencesExt, FiniteSets, FiniteSetsExt

CONSTANTS Cur,         \* the current branch of the clone
          LocalNames,  \* branches and tags of the clone, as rev-parse finds them
          OriginNames, \* branches the origin may have
          FallbackNames, \* _GIT_PULL_BRANCH_FALLBACKS
          OtherRefs,   \* what else the origin can be asked for: tags, pull requests
          UserStashes, \* entries of the stash of the main repository by users
          Leftovers,   \* what that stash may hold: these, and "ours" for each entry
                       \* of an earlier update
          Submodules,  \* the submodules, in the order of "submodule foreach"
          Edits,       \* changes made in submodules on the edge host
          MaxPush      \* pushes to the origin

ASSUME GitAssumption ==
    /\ Cur \in LocalNames
    /\ FallbackNames \in Seq(OriginNames)
    /\ "ours" \notin UserStashes
    /\ Leftovers \subseteq Seq({"ours"} \cup UserStashes)
    /\ Submodules \in Seq(Range(Submodules))
    /\ OtherRefs \cap (LocalNames \cup OriginNames) = {}
    /\ MaxPush \in Nat

VARIABLES tip,         \* number of the newest commit of each branch of the origin
          upstream,    \* whether the current branch has an upstream branch
          local,       \* the commit each local name stands for
          tracking,    \* the commit each origin/<branch> of the clone stands for
          stash,       \* the entries of the stash of the main repository, the
                       \* newest first
          subTree,     \* uncommitted edits in the tree of each submodule
          subStash,    \* stash of each submodule, the newest entry first
          conflict,    \* submodules with unmerged files
          pc,          \* the next command of the sync
          run,         \* what the thread of the sync knows, see Run
          drops,       \* the entries it still has to drop, by their listed indices
          outcome,     \* how the last sync ended
          suspect      \* history: whether the check for unmerged files of this
                       \* sync did not answer that there are none

repoVars == <<upstream, local, tracking, stash>>
subVars == <<subTree, subStash, conflict>>
syncVars == <<pc, run, drops, outcome, suspect>>
vars == <<tip, repoVars, subVars, syncVars>>

Subs == Range(Submodules)
Names == LocalNames \cup OriginNames \cup OtherRefs
Commit(b, n) == [branch |-> b, n |-> n]
Commits == [branch : Names, n : 0..MaxPush]
Branches == DOMAIN tip
NewestOf(b) == IF b \in Branches THEN Commit(b, tip[b]) ELSE Commit(b, 0)
InTrees == UNION {subTree[s] : s \in Subs}
EntriesOf(st) == Range(st)
InStashes == UNION {UNION {e.edits : e \in EntriesOf(subStash[s])} : s \in Subs}
Made == InTrees \cup InStashes

\* The mode is "pull" or "ref", the target a branch or a ref, fetchHead the
\* commits FETCH_HEAD may stand for.  The rest is history: the tips of the origin
\* and the trees of the submodules at the beginning, and the submodules in which
\* somebody stashed since.
Run(m, ref) == [mode |-> m, target |-> ref, fetchHead |-> {},
                start |-> tip, before |-> subTree, meddled |-> {}]
NoRun == [mode |-> "none"]

Init ==
    /\ \E B \in SUBSET OriginNames : tip = [b \in B |-> 0]
    /\ upstream \in IF Cur \in Branches THEN BOOLEAN ELSE {FALSE}
    /\ local = [b \in LocalNames |-> Commit(b, 0)]
    /\ tracking = [b \in Branches |-> Commit(b, 0)]
    /\ stash \in Leftovers
    /\ subTree = [s \in Subs |-> {}] /\ subStash = [s \in Subs |-> <<>>]
    /\ conflict = {} /\ suspect = FALSE
    /\ pc = "idle" /\ run = NoRun /\ drops = {} /\ outcome = "none"

Goto(place) == pc' = place /\ outcome' = "none" /\ UNCHANGED <<run, drops, suspect>>
End(o) == pc' = "idle" /\ outcome' = o /\ run' = NoRun /\ drops' = {} /\ suspect' = FALSE
Fetched(commits, place) ==
    /\ pc' = place /\ outcome' = "none" /\ UNCHANGED <<drops, suspect>>
    /\ run' = [run EXCEPT !.fetchHead = commits]

-----------------------------------------------------------------------------
(***************************************************************************)
(* The actors beside the sync.                                             *)
(***************************************************************************)

Push(b) ==
    /\ FoldFunction(+, 0, tip) < MaxPush
    /\ tip' = [tip EXCEPT ![b] = @ + 1]
    /\ UNCHANGED <<repoVars, subVars, syncVars>>

Edit(s, e) ==
    /\ e \notin Made /\ s \notin conflict
    /\ subTree' = [subTree EXCEPT ![s] = @ \cup {e}]
    /\ UNCHANGED <<tip, repoVars, subStash, conflict, syncVars>>

UserStash(s) ==
    /\ subTree[s] # {} /\ s \notin conflict
    /\ subStash' = [subStash EXCEPT
            ![s] = <<[owner |-> "user", edits |-> subTree[s]]>> \o @]
    /\ subTree' = [subTree EXCEPT ![s] = {}]
    /\ run' = IF pc = "idle" THEN run ELSE [run EXCEPT !.meddled = @ \cup {s}]
    /\ UNCHANGED <<tip, repoVars, conflict, pc, drops, outcome, suspect>>

\* The agent is restarted: its git command dies with it.
Crash ==
    /\ pc # "idle"
    /\ End("none")
    /\ UNCHANGED <<tip, repoVars, subVars>>

-----------------------------------------------------------------------------
(***************************************************************************)
(* Throwing local changes of the main repository away.                     *)
(***************************************************************************)

\* "stash list", which may fail: nothing is dropped then.
ListStashesThen(next) ==
    /\ drops' \in {{}, {i \in DOMAIN stash : stash[i] = "ours"}}
    /\ pc' = next /\ outcome' = "none"
    /\ UNCHANGED <<tip, repoVars, subVars, run, suspect>>

ListStashes ==
    \/ pc = "list" /\ ListStashesThen("discard")
    \/ pc = "listref" /\ ListStashesThen("discardref")

\* Variant: the listed entries are dropped from the newest on.
NextDrop_Newest(i) == i \in drops /\ \A j \in drops : i <= j

\* The oldest first, "so remaining numbers stay valid".
NextDrop(i) == i \in drops /\ \A j \in drops : j <= i

\* "stash drop" of the entry that has this number by now, which may fail.
DropStash(i) ==
    /\ pc \in {"discard", "discardref"}
    /\ NextDrop(i)
    /\ stash' \in {stash} \cup {RemoveAt(stash, k) : k \in {i} \cap DOMAIN stash}
    /\ drops' = drops \ {i}
    /\ UNCHANGED <<tip, upstream, local, tracking, subVars, pc, run,
                   outcome, suspect>>

\* The rest of _git_discard_local_changes: "reset --hard", unless the work tree is
\* clean, and "clean -fd", whose failure is only printed.  The work tree of the
\* main repository is left out.
DiscardThen(next) ==
    /\ drops = {}
    /\ Goto(next) \/ End("failed")
    /\ UNCHANGED <<tip, repoVars, subVars>>

-----------------------------------------------------------------------------
(***************************************************************************)
(* The pull.                                                               *)
(***************************************************************************)

\* _git_sync_repo takes the lock of the repository.
Begin(m, ref) ==
    /\ pc = "idle"
    /\ run' = Run(m, ref) /\ outcome' = "none"
    /\ pc' = IF m = "pull" THEN "pull" ELSE "fetchref"
    /\ UNCHANGED <<tip, repoVars, subVars, drops, suspect>>

\* _prepare_git_repo: no repository, or no credentials for its origin.
Unprepared ==
    /\ pc = "idle"
    /\ End("failed")
    /\ UNCHANGED <<tip, repoVars, subVars>>

\* git pull, which fetches before it merges.
PullMerges ==
    /\ pc = "pull" /\ upstream
    /\ tracking' = [b \in Branches |-> NewestOf(b)]
    /\ local' = [local EXCEPT ![Cur] = NewestOf(Cur)]
    /\ Goto("stash")
    /\ UNCHANGED <<tip, upstream, stash, subVars>>

\* _git_pull_inner: no upstream, a failure a reset recovers from, or any other.
PullFails ==
    /\ pc = "pull"
    /\ \/ ~upstream /\ Goto("resolve")
       \/ upstream /\ Goto("list")
       \/ End("failed")
    /\ UNCHANGED <<tip, repoVars, subVars>>

\* The origin's branch of the same name, or else the first fallback it has.
ResolvesTo(b) ==
    IF Cur \in Branches THEN b = Cur
    ELSE /\ b \in Branches
         /\ \E i \in DOMAIN FallbackNames :
              /\ FallbackNames[i] = b
              /\ \A j \in 1..(i - 1) : FallbackNames[j] \notin Branches

\* _git_resolve_pull_branch.
ResolveBranch ==
    /\ pc = "resolve"
    /\ \/ /\ tracking' = [b \in Branches |-> NewestOf(b)]
          /\ \/ \E b \in Branches :
                   /\ ResolvesTo(b)
                   /\ run' = [run EXCEPT !.target = b]
                   /\ pc' = "list" /\ outcome' = "none" /\ UNCHANGED <<drops, suspect>>
             \/ (\A b \in Branches : ~ResolvesTo(b)) /\ End("failed")
       \/ UNCHANGED tracking /\ End("failed")
    /\ UNCHANGED <<tip, upstream, local, stash, subVars>>

Discard == pc = "discard" /\ DiscardThen("fetch")

\* Variant: a failed fetch is only reported.
FetchOrigin_Lenient ==
    /\ pc = "fetch"
    /\ \/ /\ tracking' = [b \in Branches |-> NewestOf(b)]
          /\ Fetched(IF upstream THEN {NewestOf(Cur)}
                     ELSE {NewestOf(b) : b \in Branches}, "reset")
       \/ UNCHANGED tracking /\ Goto("reset")
    /\ UNCHANGED <<tip, upstream, local, stash, subVars>>

\* The fetches of _git_reset_to_origin: everything, or else the target, by one
\* refspec or another; each brings origin/<target> up to date.  FETCH_HEAD names
\* the upstream branch first, and without one any branch.
FetchOrigin ==
    /\ pc = "fetch"
    /\ \/ /\ tracking' = [b \in Branches |-> NewestOf(b)]
          /\ Fetched(IF upstream THEN {NewestOf(Cur)}
                     ELSE {NewestOf(b) : b \in Branches}, "reset")
       \/ /\ tracking' = [tracking EXCEPT ![run.target] = NewestOf(run.target)]
          /\ Fetched({NewestOf(run.target)}, "reset")
       \/ UNCHANGED tracking /\ End("failed")
    /\ UNCHANGED <<tip, upstream, local, stash, subVars>>

\* Its resets: to origin/<target>, or else to FETCH_HEAD.
ResetToOrigin ==
    /\ pc = "reset"
    /\ \/ \E c \in {tracking[run.target]} \cup run.fetchHead :
            local' = [local EXCEPT ![Cur] = c]
          /\ Goto("stash")
       \/ UNCHANGED local /\ End("failed")
    /\ UNCHANGED <<tip, upstream, tracking, stash, subVars>>

-----------------------------------------------------------------------------
(***************************************************************************)
(* The checkout of a ref: _git_checkout_ref.                               *)
(***************************************************************************)

\* "fetch --prune --tags", which must end well, and the fetch of the ref, which
\* need not.  A fetch that fails leaves FETCH_HEAD empty.
FetchRef ==
    /\ pc = "fetchref"
    /\ \/ /\ tracking' = [b \in Branches |-> NewestOf(b)]
          /\ \/ Fetched({}, "lookup")
             \/ /\ run.target \in Branches \cup OtherRefs
                /\ Fetched({NewestOf(run.target)}, "lookup")
       \/ UNCHANGED tracking /\ End("failed")
    /\ UNCHANGED <<tip, upstream, local, stash, subVars>>

\* _git_resolve_fetch_ref: the first candidate that rev-parse finds.  The ref by
\* itself is looked for in the clone, where a branch is as old as its last sync.
Resolved ==
    IF run.target \in LocalNames THEN {local[run.target]}
    ELSE IF run.target \in Branches THEN {tracking[run.target]}
    ELSE run.fetchHead

LookupRef ==
    /\ pc = "lookup"
    /\ IF Resolved = {} THEN End("failed") ELSE Goto("listref")
    /\ UNCHANGED <<tip, repoVars, subVars>>

DiscardForRef == pc = "discardref" /\ DiscardThen("resetref")

ResetToRef ==
    /\ pc = "resetref"
    /\ \/ \E c \in Resolved : local' = [local EXCEPT ![Cur] = c]
          /\ Goto("stash")
       \/ UNCHANGED local /\ End("failed")
    /\ UNCHANGED <<tip, upstream, tracking, stash, subVars>>

-----------------------------------------------------------------------------
(***************************************************************************)
(* The submodules: _git_submodule_update_inner.                            *)
(***************************************************************************)

\* _git_submodule_stash_all: a "stash push" that fails is ignored.
\* Nothing is asked of FETCH_HEAD from here on.
StashSubmodules ==
    /\ pc = "stash"
    /\ \E done \in SUBSET {s \in Subs \ conflict : subTree[s] # {}} :
        /\ subStash' = [s \in Subs |-> IF s \in done
                THEN <<[owner |-> "ours", edits |-> subTree[s]]>> \o subStash[s]
                ELSE subStash[s]]
        /\ subTree' = [s \in Subs |-> IF s \in done THEN {} ELSE subTree[s]]
    /\ Fetched({}, "submodules")
    /\ UNCHANGED <<tip, repoVars, conflict>>

\* "submodule update"; a failure leaves the stashes behind.
UpdateSubmodules ==
    /\ pc = "submodules"
    /\ Goto("pop") \/ End("failed")
    /\ UNCHANGED <<tip, repoVars, subVars>>

\* "stash pop" in the submodules first to last: the newest entry, whoever made it.
PopIn(done) ==
    /\ subTree' = [s \in Subs |-> IF s \in done /\ subStash[s] # <<>>
                                  THEN subTree[s] \cup Head(subStash[s]).edits
                                  ELSE subTree[s]]
    /\ subStash' = [s \in Subs |-> IF s \in done /\ subStash[s] # <<>>
                                   THEN Tail(subStash[s]) ELSE subStash[s]]

\* Variant: a pop that fails is ignored.
PopSubmodules_Lenient ==
    /\ pc = "pop"
    /\ \E n \in 0..Len(Submodules) : PopIn({Submodules[i] : i \in 1..n})
    /\ Goto("check")
    /\ UNCHANGED <<tip, repoVars, conflict>>

\* Variant: every failure of a pop counts as a conflict.
PopSubmodules_AllConflicts ==
    /\ pc = "pop"
    /\ \E n \in 0..Len(Submodules) :
        /\ PopIn({Submodules[i] : i \in 1..n})
        /\ IF n = Len(Submodules) THEN Goto("check") ELSE Goto("resetsubs")
    /\ UNCHANGED <<tip, repoVars, conflict>>

\* _git_submodule_pop_all: foreach ends at the first submodule whose pop fails,
\* by a conflict, which leaves the entry in the stash and unmerged files in the
\* tree, or for another reason.
PopSubmodules ==
    /\ pc = "pop"
    /\ \E n \in 0..Len(Submodules) :
        LET done == {Submodules[i] : i \in 1..n}
            failed == IF n < Len(Submodules) THEN {Submodules[n + 1]} ELSE {}
        IN  /\ \A s \in failed : subStash[s] # <<>>
            /\ \A s \in done \cap conflict : subStash[s] = <<>>
            /\ PopIn(done)
            /\ conflict' \in {conflict, conflict \cup failed}
            /\ Goto(IF failed = {} THEN "check" ELSE "checkfailed")
    /\ UNCHANGED <<tip, repoVars>>

\* _git_submodule_has_merge_conflicts: unmerged files in any submodule have the
\* changes of all thrown away, and so has any other failure of the command; when
\* there are none, a pop that failed ends the sync.
CheckConflicts ==
    /\ pc \in {"check", "checkfailed"}
    /\ \/ /\ pc' = "resetsubs" /\ suspect' = TRUE
          /\ UNCHANGED <<run, drops, outcome>>
       \/ /\ conflict = {}
          /\ End(IF pc = "check" THEN "done" ELSE "failed")
    /\ UNCHANGED <<tip, repoVars, subVars>>

\* _git_submodule_raise_stash_conflict: "reset --hard" in every submodule, where
\* a failure is ignored,
ResetSubmodules ==
    /\ pc = "resetsubs"
    /\ \E done \in SUBSET Subs :
        /\ subTree' = [s \in Subs |-> IF s \in done THEN {} ELSE subTree[s]]
        /\ conflict' = conflict \ done
    /\ Goto("dropsubs")
    /\ UNCHANGED <<tip, repoVars, subStash>>

\* and "stash drop", of the newest entry, in those with an update's stash, up to
\* the first submodule where it fails.
DropSubmoduleStashes ==
    /\ pc = "dropsubs"
    /\ \E n \in 0..Len(Submodules) :
        subStash' = [s \in Subs |->
            IF /\ \E i \in 1..n : Submodules[i] = s
               /\ \E e \in EntriesOf(subStash[s]) : e.owner = "ours"
            THEN Tail(subStash[s]) ELSE subStash[s]]
    /\ End("done")
    /\ UNCHANGED <<tip, repoVars, subTree, conflict>>

-----------------------------------------------------------------------------
Sync ==
    \/ Begin("pull", Cur) \/ \E ref \in Names : Begin("ref", ref)
    \/ Unprepared \/ PullMerges \/ PullFails \/ ResolveBranch
    \/ ListStashes \/ \E i \in drops : DropStash(i)
    \/ Discard \/ FetchOrigin \/ ResetToOrigin
    \/ FetchRef \/ LookupRef \/ DiscardForRef \/ ResetToRef
    \/ StashSubmodules \/ UpdateSubmodules \/ PopSubmodules
    \/ CheckConflicts \/ ResetSubmodules \/ DropSubmoduleStashes

Next ==
    \/ Sync \/ Crash
    \/ \E b \in Branches : Push(b)
    \/ \E s \in Subs, e \in Edits : Edit(s, e)
    \/ \E s \in Subs : UserStash(s)

Spec == Init /\ [][Next]_vars

-----------------------------------------------------------------------------
Entries == [owner : {"ours", "user"}, edits : (SUBSET Edits) \ {{}}]

TypeOK ==
    /\ tip \in [Branches -> 0..MaxPush] /\ upstream \in BOOLEAN
    /\ local \in [LocalNames -> Commits] /\ tracking \in [Branches -> Commits]
    /\ stash \in Seq({"ours"} \cup UserStashes) /\ drops \subseteq Nat
    /\ subTree \in [Subs -> SUBSET Edits] /\ subStash \in [Subs -> Seq(Entries)]
    /\ conflict \subseteq Subs /\ suspect \in BOOLEAN
    /\ pc \in {"idle", "pull", "resolve", "list", "discard", "fetch", "reset",
              "fetchref", "lookup", "listref", "discardref", "resetref", "stash", "submodules", "pop",
              "check", "checkfailed", "resetsubs", "dropsubs"}
    /\ pc = "idle" => run = NoRun
    /\ pc # "idle" => run \in [mode : {"pull", "ref"}, target : Names,
                             fetchHead : SUBSET Commits,
                             before : [Subs -> SUBSET Edits], meddled : SUBSET Subs,
                             start : [Branches -> 0..MaxPush]]
    /\ outcome \in {"none", "done", "failed"}

UserEntries == Range(stash) \cap UserStashes

\* "Drop leftover stashes created by previous server_command updates"
\* (_git_drop_update_stashes): the entries the user made in the stash of the
\* main repository are never dropped, whichever drops fail and wherever the
\* agent is restarted among them.
UserStashesKept == [][UserEntries' = UserEntries]_vars

\* A sync that goes on to the submodules has put the repository at a commit no
\* older than what the origin had when it began, whatever fetches and resets
\* failed on the way.
\* The condition: the ref asked for is not the name of a local branch.
SyncedIsFresh ==
    pc = "stash" /\ (run.mode = "pull" \/ run.target \notin LocalNames)
        => LET at == local[Cur]
           IN  at.branch \in Branches => at.n >= run.start[at.branch]

\* An edit made in a submodule is lost only after the check for unmerged files:
\* crashes and failures of any command between stash and pop leave it in a tree
\* or in a stash, and so does a pop that fails without a conflict, if the check
\* can be made.  A check that fails is taken for a conflict, and costs the edits.
EditsOnlyLostToConflicts ==
    [][suspect \/ Made \subseteq Made']_vars

\* A sync that ends well without a conflict leaves every submodule with the
\* edits it had when the sync began (_git_submodule_pop_all), although each pop
\* takes the newest entry, whoever made it.  The exception are the submodules in
\* which somebody stashed during the sync: there the pop takes that entry, and
\* leaves the one of the sync in the stash.
DoneRestoresEdits ==
    [][outcome' = "done" /\ pc = "check" =>
         \A s \in Subs \ run.meddled : run.before[s] \subseteq subTree'[s]]_vars
=============================================================================
