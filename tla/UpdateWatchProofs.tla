-------------------------- MODULE UpdateWatchProofs --------------------------
(***************************************************************************)
(* Proofs about the update watch of the proxy, for any hosts, any finite   *)
(* number of update requests and any number of status requests at a time,  *)
(* whatever requests fail, agents restart and addresses are edited.        *)
(***************************************************************************)
EXTENDS UpdateWatch, FiniteSetTheorems, TLAPS

\* The records of the update requests and of the status requests.
PostType == [at : {"none", "sent", "over"}, todo : SUBSET Hosts, got : [Hosts -> Runs]]
PollType == [at : {"none", "asking"}, asked : SUBSET Hosts, got : [Hosts -> Answer]]

\* The requests that can start no update on h any more.
SpentOn(h) == {q \in Posts : post[q].at # "none" /\ h \notin post[q].todo}

\* A host is given one update by each request at most.
CountInv == \A h \in Hosts : run[h] <= Cardinality(SpentOn(h))

\* Only what is over ages, and an update under way is one the host was given.
AgedInv == \A h \in Hosts :
    /\ edge[h] = "working" => run[h] > 0
    /\ aged[h] <= Finished(h)

\* An answer that is not "working" is about an update that is over, or about none.
AnswersInv == \A p \in Polls : \A h \in Hosts :
    poll[p].got[h].step \in {"idle", "over"} => poll[p].got[h].run <= Finished(h)

WatchInv == TypeOK /\ CountInv /\ AgedInv /\ AnswersInv

LEMMA RunsAreNumbers == Cardinality(Posts) \in Nat /\ Runs \subseteq Nat /\ 0 \in Runs
<1>1. Cardinality(Posts) \in Nat
  BY WatchAssumption, FS_CardinalityType
<1> QED
  BY <1>1 DEF Runs

\* What the proofs use of TypeOK, element by element.
LEMMA Typed ==
  ASSUME TypeOK
  PROVE  /\ watch \subseteq Hosts
         /\ \A h \in Hosts : /\ edge[h] \in {"idle", "working", "over"}
                             /\ run[h] \in Nat /\ aged[h] \in Nat /\ since[h] \in Nat
         /\ \A p \in Polls : \A h \in Hosts :
              /\ poll[p].got[h].step \in {"none", "idle", "working", "over"}
              /\ poll[p].got[h].run \in Nat
<1>1. \A p \in Polls : \A h \in Hosts : poll[p].got[h] \in Answer
  BY DEF TypeOK
<1> QED
  BY <1>1, RunsAreNumbers DEF TypeOK, Answer

LEMMA SpentBounds ==
  ASSUME NEW h \in Hosts
  PROVE  /\ IsFiniteSet(SpentOn(h)) /\ Cardinality(SpentOn(h)) \in Nat
         /\ Cardinality(SpentOn(h)) <= Cardinality(Posts)
<1>1. SpentOn(h) \in SUBSET Posts
  BY DEF SpentOn
<1> HIDE DEF SpentOn
<1> QED
  BY <1>1, WatchAssumption, FS_Subset, FS_CardinalityType

LEMMA InitWatch == Init => WatchInv
<1> SUFFICES ASSUME Init PROVE WatchInv
  OBVIOUS
<1> USE RunsAreNumbers
<1>1. TypeOK
  BY DEF Init, TypeOK, NewPost, NewPoll, NoAnswer, Answer
<1>2. CountInv
  BY SpentBounds DEF Init, CountInv
<1>3. AgedInv /\ AnswersInv
  BY DEF Init, AgedInv, AnswersInv, Finished, NewPoll, NoAnswer
<1> QED
  BY <1>1, <1>2, <1>3 DEF WatchInv

\* Requests are only ever spent; the numbers of updates can stay as they are.
LEMMA SpentGrows ==
  ASSUME CountInv, TypeOK, UNCHANGED run,
         \A q \in Posts, h \in Hosts :
           post[q].at # "none" /\ h \notin post[q].todo =>
             post'[q].at # "none" /\ h \notin post'[q].todo
  PROVE  CountInv'
<1> SUFFICES ASSUME NEW h \in Hosts PROVE run[h] <= Cardinality(SpentOn(h)')
  BY DEF CountInv
<1>1. SpentOn(h) \in SUBSET SpentOn(h)' /\ SpentOn(h)' \in SUBSET Posts
  BY DEF SpentOn
<1>2. run[h] <= Cardinality(SpentOn(h)) /\ run[h] \in Nat
  BY RunsAreNumbers DEF CountInv, TypeOK
<1> DEFINE S == SpentOn(h)  T == SpentOn(h)'
<1> HIDE DEF S, T
<1>3. Cardinality(S) \in Nat /\ Cardinality(T) \in Nat /\ Cardinality(S) <= Cardinality(T)
  <2>1. S \in SUBSET T /\ T \in SUBSET Posts
    BY <1>1 DEF S, T
  <2>2. IsFiniteSet(T)
    BY <2>1, WatchAssumption, FS_Subset
  <2>3. IsFiniteSet(S) /\ Cardinality(S) <= Cardinality(T)
    BY <2>1, <2>2, FS_Subset
  <2> QED
    BY <2>2, <2>3, FS_CardinalityType
<1> QED
  BY <1>2, <1>3 DEF S, T

-----------------------------------------------------------------------------
\* What a host does by itself moves Finished up, never down.
LEMMA HostStep ==
  ASSUME WatchInv, NEW h \in Hosts, FinishUpdate(h) \/ Age(h) \/ Restart(h) \/ Move(h)
  PROVE  WatchInv'
<1> USE RunsAreNumbers
<1>1. TypeOK'
  BY DEF WatchInv, TypeOK, FinishUpdate, Age, Restart, Move, Finished, Runs, AgedInv
<1>2. UNCHANGED <<run, post, poll>>
  BY DEF FinishUpdate, Age, Restart, Move
<1>3. \A g \in Hosts : /\ run[g] \in Nat /\ aged[g] \in Nat /\ Finished(g) <= Finished(g)'
                       /\ edge'[g] = "working" => edge[g] = "working"
                       /\ aged'[g] <= Finished(g)
  <2>1. \A g \in Hosts : Finished(g) \in Int /\ aged[g] <= Finished(g)
    BY Typed DEF WatchInv, AgedInv, Finished
  <2>2. CASE Age(h)
    BY <2>1, <2>2, Typed DEF Age, WatchInv, TypeOK, Finished
  <2>3. CASE FinishUpdate(h) \/ Restart(h) \/ Move(h)
    <3>1. \A g \in Hosts : \/ edge'[g] = edge[g]
                           \/ edge[g] = "working" /\ edge'[g] # "working"
                           \/ edge[g] # "working" /\ edge'[g] # "working"
      <4>1. edge \in [Hosts -> {"idle", "working", "over"}]
        BY DEF WatchInv, TypeOK
      <4> QED
        BY <2>3, <4>1 DEF FinishUpdate, Restart, Move
    <3>2. UNCHANGED <<run, aged>>
      BY <2>3 DEF FinishUpdate, Restart, Move
    <3> QED
      BY <2>1, <3>1, <3>2, Typed DEF WatchInv, Finished
  <2> QED
    BY <2>2, <2>3
<1>4. CountInv'
  BY <1>2, SpentGrows DEF WatchInv
<1>5. AgedInv'
  <2>1. \A g \in Hosts : Finished(g) \in Int /\ Finished(g)' \in Int /\ aged'[g] \in Nat
    <3>1. aged' \in [Hosts -> Runs]
      BY <1>1 DEF TypeOK
    <3>2. \A g \in Hosts : Finished(g) \in Int /\ Finished(g)' \in Int
      BY <1>2, <1>3 DEF Finished
    <3> QED
      BY <3>1, <3>2
  <2>2. \A g \in Hosts : aged'[g] <= Finished(g)'
    BY <1>3, <2>1
  <2> QED
    BY <1>2, <1>3, <2>2 DEF WatchInv, AgedInv
<1>6. AnswersInv'
  <2>1. \A g \in Hosts : Finished(g) \in Int /\ Finished(g)' \in Int
    BY <1>2, <1>3 DEF Finished
  <2> SUFFICES ASSUME NEW p \in Polls, NEW g \in Hosts,
                      poll[p].got[g].step \in {"idle", "over"}
               PROVE  poll[p].got[g].run <= Finished(g)'
    BY <1>2 DEF AnswersInv
  <2>2. poll[p].got[g].run <= Finished(g) /\ poll[p].got[g].run \in Nat
    BY Typed DEF WatchInv, AnswersInv
  <2> QED
    BY <1>3, <2>1, <2>2
<1> QED
  BY <1>1, <1>4, <1>5, <1>6 DEF WatchInv

\* Sending a request, and entering the hosts it reached.
LEMMA RequestStep ==
  ASSUME WatchInv, NEW q \in Posts,
         (\E targets \in SUBSET Hosts : SendUpdate(q, targets)) \/ Register(q)
  PROVE  WatchInv'
<1> USE RunsAreNumbers
<1>1. TypeOK'
  <2>1. CASE \E targets \in SUBSET Hosts : SendUpdate(q, targets)
    <3>1. PICK targets \in SUBSET Hosts : SendUpdate(q, targets)
      BY <2>1
    <3>2. post' \in [Posts -> PostType]
      <4>1. post \in [Posts -> PostType]
        BY DEF WatchInv, TypeOK, PostType
      <4>2. post'[q] = [post[q] EXCEPT !.at = "sent", !.todo = targets]
        BY <3>1, <4>1 DEF SendUpdate
      <4>3. post'[q] = [at |-> "sent", todo |-> targets, got |-> post[q].got]
        BY <4>1, <4>2 DEF PostType
      <4>4. post'[q] \in PostType
        BY <4>1, <4>3 DEF PostType
      <4>5. post' = [r \in Posts |-> IF r = q THEN post'[q] ELSE post[r]]
        BY <3>1, <4>1 DEF SendUpdate
      <4> QED
        BY <4>1, <4>4, <4>5
    <3> QED
      BY <3>1, <3>2 DEF SendUpdate, edgeVars, WatchInv, TypeOK, PostType
  <2>2. CASE Register(q)
    <3>1. [NewPost EXCEPT !.at = "over"] \in PostType
      BY DEF NewPost, PostType
    <3>2. post' \in [Posts -> PostType]
      BY <2>2, <3>1 DEF Register, WatchInv, TypeOK, PostType
    <3>3. post[q].got \in [Hosts -> Runs]
      BY DEF WatchInv, TypeOK
    <3>4. since' \in [Hosts -> Runs]
      BY <2>2, <3>3 DEF Register, WatchInv, TypeOK
    <3> QED
      BY <2>2, <3>2, <3>4 DEF Register, Entered, edgeVars, WatchInv, TypeOK, PostType
  <2> QED
    BY <2>1, <2>2
<1>2. UNCHANGED <<edge, run, aged, poll>>
  BY DEF SendUpdate, Register, edgeVars
<1>3. CountInv'
  <2>1. \A r \in Posts \ {q} : post'[r] = post[r]
    BY DEF WatchInv, TypeOK, SendUpdate, Register
  <2>2. \/ post[q].at = "none"
        \/ post'[q].at = "over" /\ post'[q].todo = {}
    BY DEF WatchInv, TypeOK, SendUpdate, Register, NewPost
  <2> QED
    BY <1>2, <2>1, <2>2, SpentGrows DEF WatchInv
<1>4. AgedInv' /\ AnswersInv'
  BY <1>2 DEF WatchInv, AgedInv, AnswersInv, Finished
<1> QED
  BY <1>1, <1>3, <1>4 DEF WatchInv

\* A host that answers a request, and may start an update for it.
LEMMA AnswerStep ==
  ASSUME WatchInv, NEW q \in Posts, NEW h \in Hosts, HostAnswers(q, h)
  PROVE  WatchInv'
<1> USE RunsAreNumbers
<1>1. /\ post[q].at = "sent" /\ h \in post[q].todo
      /\ (UNCHANGED <<edge, run>>) \/ EdgeTakes(h)
      /\ \/ post' = [post EXCEPT ![q].todo = @ \ {h}, ![q].got[h] = run'[h]]
         \/ post' = [post EXCEPT ![q].todo = @ \ {h}]
      /\ UNCHANGED <<aged, moved, watch, since, poll>>
  BY DEF HostAnswers
<1>2. /\ \A r \in Posts \ {q} : post'[r] = post[r]
      /\ post'[q].at = "sent" /\ post'[q].todo = post[q].todo \ {h}
  BY <1>1 DEF WatchInv, TypeOK
<1>3. /\ SpentOn(h)' = SpentOn(h) \cup {q} /\ q \notin SpentOn(h)
      /\ \A g \in Hosts \ {h} : SpentOn(g)' = SpentOn(g)
  BY <1>1, <1>2 DEF SpentOn
<1>4. /\ Cardinality(SpentOn(h)') = Cardinality(SpentOn(h)) + 1
      /\ Cardinality(SpentOn(h)') <= Cardinality(Posts)
      /\ Cardinality(SpentOn(h)) \in Nat
  <2> DEFINE S == SpentOn(h)
  <2>1. IsFiniteSet(S) /\ Cardinality(S) \in Nat
    BY SpentBounds
  <2>2. S \cup {q} \in SUBSET Posts /\ q \notin S
    BY <1>3 DEF SpentOn
  <2> HIDE DEF S
  <2>3. Cardinality(S \cup {q}) = Cardinality(S) + 1
    BY <2>1, <2>2, FS_AddElement
  <2>4. Cardinality(S \cup {q}) <= Cardinality(Posts)
    BY <2>2, WatchAssumption, FS_Subset
  <2> QED
    BY <1>3, <2>1, <2>3, <2>4 DEF S
<1>5. /\ \A g \in Hosts \ {h} : run'[g] = run[g] /\ edge'[g] = edge[g]
      /\ \/ run'[h] = run[h] /\ edge'[h] = edge[h]
         \/ run'[h] = run[h] + 1 /\ edge'[h] = "working" /\ edge[h] # "working"
      /\ run[h] <= Cardinality(SpentOn(h)) /\ run[h] \in Nat
      /\ DOMAIN run' = Hosts /\ DOMAIN edge' = Hosts
  BY <1>1 DEF EdgeTakes, WatchInv, TypeOK, CountInv
<1>6. run'[h] \in Runs
  BY <1>4, <1>5 DEF Runs
<1>7. TypeOK'
  <2>1. run' \in [Hosts -> Runs]
    BY <1>1, <1>6 DEF EdgeTakes, WatchInv, TypeOK
  <2>2. edge' \in [Hosts -> {"idle", "working", "over"}]
    BY <1>1 DEF EdgeTakes, WatchInv, TypeOK
  <2>3. post' \in [Posts -> PostType]
    <3>1. post \in [Posts -> PostType]
      BY DEF WatchInv, TypeOK, PostType
    <3>2. post'[q] \in PostType
      <4>1. CASE post' = [post EXCEPT ![q].todo = @ \ {h}]
        BY <3>1, <4>1 DEF PostType
      <4>2. CASE post' = [post EXCEPT ![q].todo = @ \ {h}, ![q].got[h] = run'[h]]
        <5>1. post'[q] = [post[q] EXCEPT !.todo = @ \ {h}, !.got[h] = run'[h]]
          BY <3>1, <4>2
        <5>2. post'[q] = [at |-> post[q].at, todo |-> post[q].todo \ {h},
                          got |-> [post[q].got EXCEPT ![h] = run'[h]]]
          BY <3>1, <5>1 DEF PostType
        <5> QED
          BY <1>6, <3>1, <5>2 DEF PostType
      <4> QED
        BY <1>1, <4>1, <4>2
    <3>3. DOMAIN post' = Posts /\ post' = [r \in Posts |-> post'[r]]
      BY <1>1, <3>1
    <3> QED
      BY <1>2, <3>1, <3>2, <3>3
  <2> QED
    BY <1>1, <2>1, <2>2, <2>3 DEF WatchInv, TypeOK
<1>8. CountInv'
  BY <1>3, <1>4, <1>5 DEF WatchInv, CountInv
<1>9. \A g \in Hosts : Finished(g)' = Finished(g)
  BY <1>5 DEF Finished
<1>10. AgedInv'
  BY <1>1, <1>5, <1>9 DEF WatchInv, AgedInv
<1>11. AnswersInv'
  BY <1>1, <1>9 DEF WatchInv, AnswersInv
<1> QED
  BY <1>7, <1>8, <1>10, <1>11 DEF WatchInv

\* A status request begins, gets an answer, or ends.
LEMMA PollStep ==
  ASSUME WatchInv, NEW p \in Polls,
         StartPoll(p) \/ EndPoll(p) \/ (\E h \in Hosts : PollAnswer(p, h))
  PROVE  WatchInv'
<1> USE RunsAreNumbers
<1>1. UNCHANGED <<edge, run, aged, moved, since, post>> /\ watch' \subseteq watch
  BY DEF StartPoll, EndPoll, PollAnswer, edgeVars
<1>2. \A h \in Hosts : Finished(h) \in Nat
  BY DEF WatchInv, TypeOK, AgedInv, Finished, Runs
<1>3. CountInv' /\ AgedInv'
  BY <1>1, SpentGrows DEF WatchInv, AgedInv, Finished
<1>4. CASE StartPoll(p) \/ EndPoll(p)
  <2>1. poll'[p].got = [h \in Hosts |-> NoAnswer] /\ \A o \in Polls \ {p} : poll'[o] = poll[o]
    <3>1. poll \in [Polls -> PollType]
      BY DEF WatchInv, TypeOK, PollType
    <3>2. \/ poll' = [poll EXCEPT ![p] = NewPoll]
          \/ poll' = [poll EXCEPT ![p] = [NewPoll EXCEPT !.at = "asking",
                                                       !.asked = watch \ moved]]
      BY <1>4 DEF StartPoll, EndPoll
    <3>3. poll'[p] = NewPoll \/ poll'[p] = [NewPoll EXCEPT !.at = "asking",
                                                        !.asked = watch \ moved]
      BY <3>1, <3>2
    <3>4. poll'[p].got = NewPoll.got
      BY <3>3 DEF NewPoll
    <3> QED
      BY <3>1, <3>2, <3>4 DEF NewPoll
  <2>2. TypeOK'
    <3>1. NewPoll \in PollType
      BY DEF NewPoll, NoAnswer, Answer, PollType
    <3>2. [NewPoll EXCEPT !.at = "asking", !.asked = watch \ moved] \in PollType
      BY DEF NewPoll, NoAnswer, Answer, WatchInv, TypeOK, PollType
    <3>3. poll \in [Polls -> PollType] => poll' \in [Polls -> PollType]
      BY <1>4, <3>1, <3>2 DEF StartPoll, EndPoll
    <3> QED
      BY <1>1, <3>3 DEF PollType, WatchInv, TypeOK
  <2>3. AnswersInv'
    BY <1>1, <2>1 DEF WatchInv, AnswersInv, NoAnswer, Finished
  <2> QED
    BY <1>3, <2>2, <2>3 DEF WatchInv
<1>5. ASSUME NEW h \in Hosts, PollAnswer(p, h) PROVE WatchInv'
  <2>1. PICK answer \in {[step |-> edge[h], run |-> IF edge[h] = "idle" THEN 0 ELSE run[h]],
                         MadeUp} :
          poll' = [poll EXCEPT ![p].asked = @ \ {h}, ![p].got[h] = answer]
    BY <1>5 DEF PollAnswer
  <2>2. answer \in Answer
    BY <2>1 DEF Answer, MadeUp, WatchInv, TypeOK
  <2>3. answer.step \in {"idle", "over"} => answer.run <= Finished(h)
    BY <1>2, <2>1 DEF MadeUp, Finished, WatchInv, TypeOK
  <2>4. \A o \in Polls, g \in Hosts :
          poll'[o].got[g] = IF o = p /\ g = h THEN answer ELSE poll[o].got[g]
    BY <2>1 DEF WatchInv, TypeOK
  <2>5. TypeOK'
    <3>1. poll' \in [Polls -> PollType]
      <4>1. poll \in [Polls -> PollType]
        BY DEF WatchInv, TypeOK, PollType
      <4>2. poll'[p] = [poll[p] EXCEPT !.asked = @ \ {h}, !.got[h] = answer]
        BY <2>1, <4>1
      <4>3. poll'[p] \in PollType
        <5>1. poll'[p] = [at |-> poll[p].at, asked |-> poll[p].asked \ {h},
                          got |-> [poll[p].got EXCEPT ![h] = answer]]
          BY <4>1, <4>2 DEF PollType
        <5> QED
          BY <2>2, <4>1, <5>1 DEF PollType
      <4>4. \A o \in Polls \ {p} : poll'[o] = poll[o]
        BY <2>1, <4>1
      <4>5. poll' = [o \in Polls |-> poll'[o]]
        BY <2>1, <4>1
      <4> QED
        BY <4>1, <4>3, <4>4, <4>5
    <3> QED
      BY <1>1, <1>5, <3>1 DEF PollAnswer, WatchInv, TypeOK, PollType
  <2>6. AnswersInv'
    BY <1>1, <2>3, <2>4 DEF WatchInv, AnswersInv, Finished
  <2> QED
    BY <1>3, <2>5, <2>6 DEF WatchInv
<1> QED
  BY <1>4, <1>5

LEMMA WatchStep == WatchInv /\ [Next]_vars => WatchInv'
<1> SUFFICES ASSUME WatchInv, [Next]_vars PROVE WatchInv'
  OBVIOUS
<1>1. CASE UNCHANGED vars
  BY <1>1 DEF vars, edgeVars, WatchInv, TypeOK, CountInv, SpentOn, AgedInv, AnswersInv,
              Finished
<1> QED
  BY <1>1, HostStep, RequestStep, AnswerStep, PollStep DEF Next

LEMMA WatchInvAlways == Spec => []WatchInv
BY InitWatch, WatchStep, PTL DEF Spec

-----------------------------------------------------------------------------
\* The watch, the requests and their answers stay in their types; a host is
\* given no more updates than there are requests.
THEOREM TypeCorrect == Spec => []TypeOK
<1>1. WatchInv => TypeOK
  BY DEF WatchInv
<1> QED
  BY <1>1, WatchInvAlways, PTL

\* Only the end of a status request takes entries out, those of hosts whose
\* answer is about an update 45 seconds over, once no host answered "working".
LEMMA OnlyPollsDrop ==
  ASSUME WatchInv, [Next]_vars, DroppedNow # {}
  PROVE  \E p \in Polls :
           /\ \A h \in watch : ~StepActive(poll[p].got[h])
           /\ \A h \in DroppedNow : LongOver(poll[p].got[h], h)
<1>1. PICK p \in Polls : EndPoll(p)
  BY DEF DroppedNow, Next, FinishUpdate, Age, Restart, Move, SendUpdate, HostAnswers,
         Register, StartPoll, PollAnswer, vars
<1>2. DroppedNow = watch \cap Dropped(poll[p].got)
  BY <1>1 DEF EndPoll, DroppedNow
<1> QED
  BY <1>2 DEF Dropped

\* _prune_update_watch drops no entry while the update it was made for runs,
\* except on an answer from before that update: an update counts as 45 seconds
\* over only when it is over, and answers name the update they are about.
THEOREM EntriesOutlive == Spec => EntryOutlivesUpdate
<1>1. ASSUME WatchInv, [Next]_vars, NEW h \in DroppedNow, RunsStill(h)
      PROVE  Outdated(h)
  <2>1. PICK p \in Polls : LongOver(poll[p].got[h], h)
    BY <1>1, OnlyPollsDrop
  <2>2. h \in Hosts
    BY <1>1, Typed DEF DroppedNow, WatchInv
  <2>3. aged[h] <= since[h] - 1
    BY <1>1, <2>2 DEF RunsStill, WatchInv, AgedInv, Finished
  <2>4. poll[p].got[h].run \in 1 .. since[h] - 1
    BY <1>1, <2>1, <2>2, <2>3, Typed DEF LongOver, WatchInv
  <2> QED
    BY <2>4 DEF Outdated
<1>2. WatchInv /\ [Next]_vars => [\A h \in DroppedNow : ~RunsStill(h) \/ Outdated(h)]_vars
  BY <1>1
<1> QED
  BY <1>2, WatchInvAlways, PTL DEF Spec, EntryOutlivesUpdate

\* "Drop finished hosts only after every watched host has reached a terminal
\* step" (_prune_update_watch): a watched host whose update still runs keeps
\* every entry, unless it gave an answer that is not about that update.
THEOREM DropsAfterAll == Spec => DropsAfterAllAnswered
<1>1. ASSUME WatchInv, [Next]_vars, DroppedNow # {}, NEW h \in watch, RunsStill(h)
      PROVE  Unheard(h)
  <2>1. PICK p \in Polls : ~StepActive(poll[p].got[h])
    BY <1>1, OnlyPollsDrop
  <2>2. h \in Hosts
    BY <1>1, Typed DEF WatchInv
  <2>3. poll[p].got[h].step \in {"idle", "over"}
    BY <1>1, <2>1, <2>2, Typed DEF StepActive, WatchInv
  <2>4. poll[p].got[h].run <= since[h] - 1
    BY <1>1, <2>2, <2>3 DEF RunsStill, WatchInv, AnswersInv, Finished
  <2>5. poll[p].got[h].run < since[h]
    BY <1>1, <2>2, <2>4, Typed DEF WatchInv
  <2> QED
    BY <2>3, <2>5 DEF Unheard
<1>2. WatchInv /\ [Next]_vars =>
        [DroppedNow # {} => \A h \in watch : ~RunsStill(h) \/ Unheard(h)]_vars
  BY <1>1
<1> QED
  BY <1>2, WatchInvAlways, PTL DEF Spec, DropsAfterAllAnswered
=============================================================================
