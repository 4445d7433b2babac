------------------------- MODULE ServersFileProofs -------------------------
(***************************************************************************)
(* Proofs about servers.json, for any pipelines, addresses and number of   *)
(* requests and syncs.  The file and the memory of the proxy are written   *)
(* one after the other and without a lock; what keeps them together is     *)
(* that a request that nobody wrote past enters in both the address it     *)
(* resolved.                                                               *)
(***************************************************************************)
EXTENDS ServersFile, TLAPS

WriterFields == {"pc", "name", "ip", "list", "stale", "shared"}

WritersType ==
    /\ DOMAIN writer = Writers
    /\ \A w \in Writers : /\ DOMAIN writer[w] = WriterFields
                          /\ writer[w].stale \in BOOLEAN
                          /\ writer[w].shared \in BOOLEAN
    /\ {overlapped, synced, up} \subseteq BOOLEAN

\* A stopped proxy has no requests, and no request has the places of the sync.
RequestsRun == \A r \in Requests :
    /\ ~up => writer[r].pc = "idle"
    /\ writer[r].pc \in {"idle", "read", "open", "write", "answer"}

SyncPlaces == writer["sync"].pc \in {"idle", "fetch", "open", "write"}

\* What a request nobody wrote past is about to write, or has written.
ListIsLast == \A r \in Requests : ~writer[r].stale =>
    /\ writer[r].pc \in {"open", "write"} =>
         /\ writer[r].name \in DOMAIN last
         /\ writer[r].list = [last EXCEPT ![writer[r].name].ip = writer[r].ip]
    /\ writer[r].pc = "answer" =>
         writer[r].name \in DOMAIN last /\ last[writer[r].name].ip = writer[r].ip

Pending(n) == \E r \in Requests : writer[r].pc = "answer" /\ writer[r].name = n

\* Memory and file differ only where a request is between the two.
MemoryBehind ==
    up /\ ~synced /\ ~overlapped =>
        /\ DOMAIN cfg = Loaded(last)
        /\ \A n \in Loaded(last) : Pending(n) \/ cfg[n] = last[n].ip

\* Every entry of a list has an address, a usable one or none, and a server
\* id or not; the memory is a function.
HasIps(list) == \A n \in DOMAIN list : {"ip", "hasId"} \subseteq DOMAIN list[n]

ListsType ==
    /\ HasIps(last) /\ HasIps(merge.local)
    /\ DOMAIN merge = {"local", "got", "failed", "fetchAll"}
    /\ \A w \in Writers : HasIps(writer[w].list)
    /\ cfg = [n \in DOMAIN cfg |-> cfg[n]]

FileInv ==
    /\ WritersType /\ ListsType /\ RequestsRun /\ SyncPlaces
    /\ ListIsLast /\ MemoryBehind

\* The proxy starts from the file.
LEMMA InitFileInv == Init => FileInv
<1> SUFFICES ASSUME Init PROVE FileInv
  OBVIOUS
<1>1. HasIps(last)
  BY FilesAssumption DEF Init, HasIps, IsList, Entries
<1>2. \A w \in Writers : writer[w] = Idle
  BY DEF Init
<1>3. WritersType /\ RequestsRun /\ SyncPlaces
  BY <1>2 DEF Init, Idle, WritersType, WriterFields, RequestsRun, SyncPlaces, Writers
<1>4. ListsType
  BY <1>1, <1>2 DEF Init, Idle, NoMerge, Empty, Ips, HasIps, ListsType
<1>5. ListIsLast /\ MemoryBehind
  BY <1>2 DEF Init, Idle, Ips, Loaded, ListIsLast, MemoryBehind, Writers
<1> QED
  BY <1>3, <1>4, <1>5 DEF FileInv

\* What a write leaves of the writers: the one that wrote goes on, and whoever
\* has read what it replaced is stale.
LEMMA WriteFrame ==
  ASSUME WritersType, NEW w \in Writers, Write(w)
  PROVE  /\ \A v \in Writers : v # w =>
              /\ writer'[v].pc = writer[v].pc /\ writer'[v].name = writer[v].name
              /\ writer'[v].ip = writer[v].ip /\ writer'[v].list = writer[v].list
              /\ DOMAIN writer'[v] = WriterFields
              /\ writer'[v].shared = writer[v].shared
              /\ writer'[v].stale \in BOOLEAN
              /\ writer[v].pc \notin {"idle", "read"} => writer'[v].stale
         /\ writer'[w].pc = IF w = "sync" THEN "idle" ELSE "answer"
         /\ writer'[w].list = Empty /\ DOMAIN writer'[w] = WriterFields
         /\ writer'[w].shared \in BOOLEAN /\ writer'[w].stale \in BOOLEAN
         /\ w # "sync" => /\ writer'[w].name = writer[w].name
                          /\ writer'[w].ip = writer[w].ip
                          /\ writer'[w].stale = writer[w].stale
<1> USE ServersAssumption DEF WritersType, WriterFields, Writers
<1>1. writer'[w] = IF w = "sync" THEN Idle
                   ELSE [writer[w] EXCEPT !.pc = "answer", !.list = Empty]
  BY DEF Write
<1>2. \A v \in Writers : v # w =>
        writer'[v] = [writer[v] EXCEPT
                        !.stale = @ \/ writer[v].pc \notin {"idle", "read"}]
  BY DEF Write
<1>3. ASSUME NEW v \in Writers, v # w
      PROVE  /\ writer'[v].pc = writer[v].pc /\ writer'[v].name = writer[v].name
             /\ writer'[v].ip = writer[v].ip /\ writer'[v].list = writer[v].list
             /\ DOMAIN writer'[v] = WriterFields
             /\ writer'[v].shared = writer[v].shared
             /\ writer'[v].stale \in BOOLEAN
             /\ writer[v].pc \notin {"idle", "read"} => writer'[v].stale
  <2> DEFINE late == writer[v].stale \/ writer[v].pc \notin {"idle", "read"}
  <2>1. writer'[v] = [writer[v] EXCEPT !.stale = late]
    BY <1>2, <1>3
  <2>2. late \in BOOLEAN /\ (writer[v].pc \notin {"idle", "read"} => late = TRUE)
    OBVIOUS
  <2>3. DOMAIN writer[v] = WriterFields /\ writer[v].shared \in BOOLEAN
    OBVIOUS
  <2> HIDE DEF late
  <2> QED
    BY <2>1, <2>2, <2>3
<1>4. /\ writer'[w].pc = IF w = "sync" THEN "idle" ELSE "answer"
      /\ writer'[w].list = Empty /\ DOMAIN writer'[w] = WriterFields
      /\ writer'[w].shared \in BOOLEAN /\ writer'[w].stale \in BOOLEAN
      /\ w # "sync" => /\ writer'[w].name = writer[w].name /\ writer'[w].ip = writer[w].ip
                       /\ writer'[w].stale = writer[w].stale
  <2>1. CASE w = "sync"
    BY <1>1, <2>1 DEF Idle
  <2>2. CASE w # "sync"
    BY <1>1, <2>2
  <2> QED
    BY <2>1, <2>2
<1> QED
  BY <1>3, <1>4

\* Another address does not change what the proxy would load.
LEMMA LoadedEdit ==
  ASSUME NEW list, HasIps(list), NEW n \in DOMAIN list, NEW a
  PROVE  Loaded([list EXCEPT ![n].ip = a]) = Loaded(list)
<1> DEFINE edited == [list EXCEPT ![n].ip = a]
<1>1. DOMAIN edited = DOMAIN list
  OBVIOUS
<1>2. ASSUME NEW k \in DOMAIN list PROVE edited[k].hasId = list[k].hasId
  BY DEF HasIps
<1> QED
  BY <1>1, <1>2 DEF Loaded

\* An open file is written and closed.
LEMMA WriteStep ==
  ASSUME FileInv, NEW w \in Writers, Write(w)
  PROVE  FileInv'
<1> USE ServersAssumption DEF FileInv, WritersType, WriterFields, Writers
<1>1. /\ writer[w].pc = "write" /\ last' = writer[w].list
      /\ overlapped' = (overlapped \/ writer[w].stale \/ writer[w].shared)
      /\ synced' = (synced \/ w = "sync") /\ UNCHANGED <<cfg, up>>
      /\ merge' = IF w = "sync" THEN NoMerge ELSE merge
  BY DEF Write
<1>4. DOMAIN writer' = Writers
  BY DEF Write
<1>5. \A v \in Writers : v # w =>
        /\ writer'[v].pc = writer[v].pc /\ writer'[v].name = writer[v].name
        /\ writer'[v].ip = writer[v].ip /\ writer'[v].list = writer[v].list
        /\ DOMAIN writer'[v] = WriterFields
        /\ writer'[v].shared = writer[v].shared
        /\ writer'[v].stale \in BOOLEAN
        /\ writer[v].pc \notin {"idle", "read"} => writer'[v].stale
  BY WriteFrame
<1>6. /\ writer'[w].pc = IF w = "sync" THEN "idle" ELSE "answer"
      /\ writer'[w].list = Empty /\ DOMAIN writer'[w] = WriterFields
      /\ writer'[w].shared \in BOOLEAN /\ writer'[w].stale \in BOOLEAN
      /\ w # "sync" => /\ writer'[w].name = writer[w].name /\ writer'[w].ip = writer[w].ip
                       /\ writer'[w].stale = writer[w].stale
  BY WriteFrame
<1>7. WritersType'
  BY <1>1, <1>4, <1>5, <1>6
<1>8. ListsType'
  BY <1>1, <1>5, <1>6 DEF ListsType, HasIps, NoMerge, Empty
<1>9. RequestsRun' /\ SyncPlaces'
  BY <1>1, <1>5, <1>6 DEF RequestsRun, SyncPlaces
<1>10. ListIsLast'
  <2> SUFFICES ASSUME NEW r \in Requests, ~writer'[r].stale,
                      writer'[r].pc \in {"open", "write", "answer"}
               PROVE  /\ writer'[r].pc = "answer" /\ writer'[r].name \in DOMAIN last'
                      /\ last'[writer'[r].name].ip = writer'[r].ip
    BY DEF ListIsLast
  <2>1. r = w
    BY <1>5
  <2>2. /\ writer[w].name \in DOMAIN last
        /\ writer[w].list = [last EXCEPT ![writer[w].name].ip = writer[w].ip]
    BY <1>1, <1>6, <2>1 DEF ListIsLast
  <2> QED
    BY <1>1, <1>6, <2>1, <2>2 DEF ListsType, HasIps
<1>11. MemoryBehind'
  <2> SUFFICES ASSUME up, ~synced', ~overlapped'
               PROVE  /\ DOMAIN cfg = Loaded(last')
                      /\ \A n \in Loaded(last') : Pending(n)' \/ cfg[n] = last'[n].ip
    BY <1>1 DEF MemoryBehind, Loaded
  <2>1. w \in Requests /\ ~writer[w].stale /\ ~synced /\ ~overlapped
    BY <1>1
  <2>2. /\ writer[w].name \in DOMAIN last
        /\ last' = [last EXCEPT ![writer[w].name].ip = writer[w].ip]
    BY <1>1, <2>1 DEF ListIsLast
  <2>3. /\ DOMAIN cfg = Loaded(last)
        /\ \A n \in Loaded(last) : Pending(n) \/ cfg[n] = last[n].ip
    BY <2>1 DEF MemoryBehind
  <2>5. Loaded(last') = Loaded(last)
    BY <2>2, LoadedEdit DEF ListsType
  <2>4. ASSUME NEW n \in Loaded(last) PROVE Pending(n)' \/ cfg[n] = last'[n].ip
    <3>1. CASE n = writer[w].name
      BY <1>6, <2>1, <3>1 DEF Pending
    <3>2. CASE n # writer[w].name
      <4>1. last'[n] = last[n]
        BY <2>2, <3>2
      <4>2. Pending(n) => Pending(n)'
        BY <1>1, <1>5 DEF Pending
      <4> QED
        BY <2>3, <4>1, <4>2
    <3> QED
      BY <3>1, <3>2
  <2> QED
    BY <2>3, <2>4, <2>5
<1> QED
  BY <1>7, <1>8, <1>9, <1>10, <1>11

\* Opening the file changes only where the writer is, and who shares it.
LEMMA OpenFrame ==
  ASSUME WritersType, NEW w \in Writers, Open(w), NEW v \in Writers
  PROVE  /\ writer'[v].name = writer[v].name /\ writer'[v].ip = writer[v].ip
         /\ writer'[v].list = writer[v].list /\ writer'[v].stale = writer[v].stale
         /\ writer'[v].shared \in BOOLEAN /\ DOMAIN writer'[v] = WriterFields
         /\ v # w => writer'[v].pc = writer[v].pc
         /\ v = w => writer'[v].pc = "write"
<1> USE DEF WritersType, WriterFields
<1>1. CASE v = w
  <2> DEFINE b == Opened # {}
  <2>1. b \in BOOLEAN /\ writer'[v] = [writer[v] EXCEPT !.pc = "write", !.shared = b]
    BY <1>1 DEF Open
  <2> HIDE DEF b
  <2> QED
    BY <1>1, <2>1
<1>2. CASE v # w /\ v \in Opened
  <2>1. writer'[v] = [writer[v] EXCEPT !.shared = TRUE]
    BY <1>2 DEF Open
  <2> QED
    BY <1>2, <2>1
<1>3. CASE v # w /\ v \notin Opened
  <2>1. writer'[v] = writer[v]
    BY <1>3 DEF Open
  <2> QED
    BY <1>3, <2>1
<1> QED
  BY <1>1, <1>2, <1>3

\* The file is opened: the list it held stays the last one.
LEMMA OpenStep ==
  ASSUME FileInv, NEW w \in Writers, Open(w)
  PROVE  FileInv'
<1> USE ServersAssumption DEF FileInv, WritersType, WriterFields, Writers
<1>1. /\ writer[w].pc = "open" /\ DOMAIN writer' = Writers
      /\ UNCHANGED <<last, cfg, up, merge, overlapped, synced>>
  BY DEF Open
<1>2. ASSUME NEW v \in Writers
      PROVE  /\ writer'[v].name = writer[v].name /\ writer'[v].ip = writer[v].ip
             /\ writer'[v].list = writer[v].list /\ writer'[v].stale = writer[v].stale
             /\ writer'[v].shared \in BOOLEAN /\ DOMAIN writer'[v] = WriterFields
             /\ v # w => writer'[v].pc = writer[v].pc
             /\ v = w => writer'[v].pc = "write"
  BY OpenFrame
<1>3. WritersType' /\ ListsType'
  BY <1>1, <1>2 DEF ListsType, HasIps
<1>4. RequestsRun' /\ SyncPlaces'
  BY <1>1, <1>2 DEF RequestsRun, SyncPlaces
<1>5. ListIsLast'
  BY <1>1, <1>2 DEF ListIsLast
<1>6. MemoryBehind'
  BY <1>1, <1>2 DEF MemoryBehind, Pending
<1> QED
  BY <1>3, <1>4, <1>5, <1>6

\* A request learns an address, and later reads the file.
LEMMA RequestStep ==
  ASSUME FileInv, NEW r \in Requests, Read(r) \/ \E n \in Names : Resolve(r, n)
  PROVE  FileInv'
<1> USE ServersAssumption DEF FileInv, WritersType, WriterFields, Writers
<1>1. /\ writer[r].pc \in {"idle", "read"}
      /\ UNCHANGED <<last, cfg, up, merge, overlapped, synced>>
      /\ DOMAIN writer' = Writers
      /\ \A v \in Writers : v # r => writer'[v] = writer[v]
  BY DEF Read, Resolve
<1>2. /\ DOMAIN writer'[r] = WriterFields
      /\ writer'[r].stale \in BOOLEAN /\ writer'[r].shared \in BOOLEAN
      /\ HasIps(writer'[r].list)
      /\ writer'[r].pc \in {"idle", "read", "open"}
      /\ ~up => writer'[r].pc = "idle"
      /\ writer'[r].pc = "open" =>
           /\ writer'[r].name \in DOMAIN last
           /\ writer'[r].list = [last EXCEPT ![writer'[r].name].ip = writer'[r].ip]
  <2>1. ASSUME NEW n \in Names, Resolve(r, n)
        PROVE  /\ up /\ writer'[r].pc = "read" /\ writer'[r].list = Empty
               /\ writer'[r].stale = FALSE /\ writer'[r].shared = FALSE
               /\ DOMAIN writer'[r] = WriterFields
    BY <2>1 DEF Resolve, Idle
  <2>2. CASE \E n \in Names : Resolve(r, n)
    BY <1>1, <2>1, <2>2 DEF HasIps, Empty
  <2>3. CASE Read(r)
    <3>1. CASE writer'[r] = Idle
      BY <3>1 DEF Idle, HasIps, Empty
    <3>2. CASE writer'[r] # Idle
      <4>1. /\ writer[r].name \in DOMAIN last
            /\ writer'[r] = [writer[r] EXCEPT !.pc = "open",
                  !.list = [last EXCEPT ![writer[r].name].ip = writer[r].ip]]
        BY <2>3, <3>2 DEF Read
      <4>2. HasIps([last EXCEPT ![writer[r].name].ip = writer[r].ip])
        BY <4>1 DEF ListsType, HasIps
      <4>3. up
        BY <2>3 DEF Read, RequestsRun
      <4> QED
        BY <1>1, <4>1, <4>2, <4>3
    <3> QED
      BY <3>1, <3>2
  <2> QED
    BY <2>2, <2>3
<1>3. WritersType'
  BY <1>1, <1>2
<1>4. ListsType'
  BY <1>1, <1>2 DEF ListsType, HasIps
<1>5. RequestsRun' /\ SyncPlaces'
  BY <1>1, <1>2 DEF RequestsRun, SyncPlaces
<1>6. ListIsLast'
  <2>1. ASSUME NEW v \in Requests, v # r, ~writer'[v].stale
        PROVE  /\ writer'[v].pc \in {"open", "write"} =>
                    /\ writer'[v].name \in DOMAIN last
                    /\ writer'[v].list = [last EXCEPT ![writer'[v].name].ip = writer'[v].ip]
               /\ writer'[v].pc = "answer" =>
                    writer'[v].name \in DOMAIN last
                      /\ last[writer'[v].name].ip = writer'[v].ip
    BY <1>1, <2>1 DEF ListIsLast
  <2>2. writer'[r].pc \notin {"write", "answer"}
    BY <1>2
  <2> QED
    BY <1>1, <1>2, <2>1, <2>2 DEF ListIsLast
<1>7. MemoryBehind'
  BY <1>1, <1>2 DEF MemoryBehind, Pending
<1> QED
  BY <1>3, <1>4, <1>5, <1>6, <1>7

\* A request enters in memory what it wrote; if somebody wrote past it, the
\* two are no longer claimed to agree.
LEMMA AnswerStep ==
  ASSUME FileInv, NEW r \in Requests, Answer(r)
  PROVE  FileInv'
<1> USE ServersAssumption DEF FileInv, WritersType, WriterFields, Writers
<1>1. /\ writer[r].pc = "answer" /\ writer'[r] = Idle
      /\ cfg' = [cfg EXCEPT ![writer[r].name] = writer[r].ip]
      /\ overlapped' = (overlapped \/ writer[r].stale)
      /\ UNCHANGED <<last, up, merge, synced>>
      /\ DOMAIN writer' = Writers
      /\ \A v \in Writers : v # r => writer'[v] = writer[v]
  BY DEF Answer
<1>2. /\ DOMAIN writer'[r] = WriterFields /\ writer'[r].stale = FALSE
      /\ writer'[r].shared = FALSE /\ writer'[r].pc = "idle" /\ HasIps(writer'[r].list)
  BY <1>1 DEF Idle, HasIps, Empty
<1>3. WritersType'
  BY <1>1, <1>2
<1>4. ListsType'
  <2>1. cfg' = [n \in DOMAIN cfg' |-> cfg'[n]]
    BY <1>1
  <2> QED
    BY <1>1, <1>2, <2>1 DEF ListsType, HasIps
<1>5. RequestsRun' /\ SyncPlaces'
  BY <1>1, <1>2 DEF RequestsRun, SyncPlaces
<1>6. ListIsLast'
  BY <1>1, <1>2 DEF ListIsLast
<1>7. MemoryBehind'
  <2> SUFFICES ASSUME up, ~synced, ~overlapped, ~writer[r].stale
               PROVE  /\ DOMAIN cfg' = Loaded(last)
                      /\ \A n \in Loaded(last) : Pending(n)' \/ cfg'[n] = last[n].ip
    BY <1>1 DEF MemoryBehind, Loaded
  <2>1. /\ DOMAIN cfg = Loaded(last)
        /\ \A n \in Loaded(last) : Pending(n) \/ cfg[n] = last[n].ip
    BY DEF MemoryBehind
  <2>2. writer[r].name \in DOMAIN last /\ last[writer[r].name].ip = writer[r].ip
    BY <1>1 DEF ListIsLast
  <2>3. ASSUME NEW n \in Loaded(last) PROVE Pending(n)' \/ cfg'[n] = last[n].ip
    BY <1>1, <2>1, <2>2 DEF Pending
  <2> QED
    BY <1>1, <2>1, <2>3
<1> QED
  BY <1>3, <1>4, <1>5, <1>6, <1>7

\* The sync reads, merges and may end; the file is as it was.
LEMMA SyncStep ==
  ASSUME FileInv, SyncFetch \/ SyncEnds \/ \E fetchAll \in BOOLEAN : SyncRead(fetchAll)
  PROVE  FileInv'
<1> USE ServersAssumption DEF FileInv, WritersType, WriterFields, Writers
<1>1. /\ UNCHANGED <<last, cfg, up, overlapped, synced>>
      /\ DOMAIN writer' = Writers
      /\ \A v \in Requests : writer'[v] = writer[v]
  BY DEF SyncFetch, SyncEnds, SyncRead
<1>2. /\ DOMAIN writer'["sync"] = WriterFields
      /\ writer'["sync"].stale \in BOOLEAN /\ writer'["sync"].shared \in BOOLEAN
      /\ HasIps(writer'["sync"].list) /\ HasIps(merge'.local)
      /\ DOMAIN merge' = {"local", "got", "failed", "fetchAll"}
      /\ writer'["sync"].pc \in {"idle", "fetch", "open"}
  <2>1. ASSUME NEW fetchAll \in BOOLEAN, SyncRead(fetchAll)
        PROVE  /\ writer' = [writer EXCEPT !["sync"].pc = "fetch"]
               /\ merge' = [NoMerge EXCEPT !.local = last, !.fetchAll = fetchAll]
    BY <2>1 DEF SyncRead
  <2>2. CASE \E fetchAll \in BOOLEAN : SyncRead(fetchAll)
    <3>1. PICK fetchAll \in BOOLEAN : SyncRead(fetchAll)
      BY <2>2
    <3>2. /\ merge'.local = last
          /\ DOMAIN merge' = {"local", "got", "failed", "fetchAll"}
      BY <2>1, <3>1 DEF NoMerge
    <3>3. writer'["sync"] = [writer["sync"] EXCEPT !.pc = "fetch"]
      BY <2>1, <3>1
    <3> QED
      BY <3>2, <3>3 DEF ListsType
  <2>3. CASE SyncEnds
    BY <2>3 DEF SyncEnds, NoMerge, Idle, HasIps, Empty
  <2>4. CASE SyncFetch
    <3>1. PICK m : /\ merge' = m
                   /\ \E g, f : m = [merge EXCEPT !.got = g, !.failed = f]
                   /\ writer' = [writer EXCEPT !["sync"].pc = "open",
                                              !["sync"].list = Compose(m)]
      BY <2>4 DEF SyncFetch
    <3>2. m.local = merge.local /\ DOMAIN m = {"local", "got", "failed", "fetchAll"}
      BY <3>1 DEF ListsType
    <3>3. HasIps(Compose(m))
      <4>1. ASSUME NEW n, NEW c PROVE {"ip", "hasId"} \subseteq DOMAIN Built(n, m.local, c)
        BY <3>2 DEF Built, EntryOf, Blank, ListsType, HasIps
      <4> QED
        BY <3>2, <4>1 DEF Compose, ListsType, HasIps
    <3> QED
      BY <3>1, <3>2, <3>3 DEF ListsType
  <2> QED
    BY <2>2, <2>3, <2>4
<1>3. WritersType'
  BY <1>1, <1>2
<1>4. ListsType'
  BY <1>1, <1>2 DEF ListsType, HasIps
<1>5. RequestsRun' /\ SyncPlaces'
  BY <1>1, <1>2 DEF RequestsRun, SyncPlaces
<1>6. ListIsLast'
  BY <1>1 DEF ListIsLast
<1>7. MemoryBehind'
  BY <1>1 DEF MemoryBehind, Pending
<1> QED
  BY <1>3, <1>4, <1>5, <1>6, <1>7

\* The proxy stops with its requests, and starts from the file.
LEMMA ProxyStep ==
  ASSUME FileInv, StopProxy \/ StartProxy
  PROVE  FileInv'
<1> USE ServersAssumption DEF FileInv, WritersType, WriterFields, Writers
<1>1. CASE StopProxy
  <2>1. /\ up' = FALSE /\ UNCHANGED <<last, cfg, merge, overlapped, synced>>
        /\ DOMAIN writer' = Writers /\ writer'["sync"] = writer["sync"]
        /\ \A r \in Requests : writer'[r] = Idle
    BY <1>1 DEF StopProxy
  <2>2. \A r \in Requests :
          /\ DOMAIN writer'[r] = WriterFields /\ writer'[r].stale = FALSE
          /\ writer'[r].shared = FALSE /\ writer'[r].pc = "idle" /\ HasIps(writer'[r].list)
    BY <2>1 DEF Idle, HasIps, Empty
  <2>3. WritersType'
    BY <2>1, <2>2
  <2>4. ListsType'
    BY <2>1, <2>2 DEF ListsType, HasIps
  <2> QED
    BY <2>1, <2>2, <2>3, <2>4 DEF RequestsRun, SyncPlaces, ListIsLast, MemoryBehind
<1>2. CASE StartProxy
  <2>1. /\ ~up /\ up' = TRUE /\ cfg' = Ips(last) /\ synced' = FALSE
        /\ UNCHANGED <<last, writer, merge, overlapped>>
    BY <1>2 DEF StartProxy
  <2>2. MemoryBehind'
    BY <2>1 DEF MemoryBehind, Ips, Loaded
  <2>3. ListsType'
    BY <2>1 DEF ListsType, HasIps, Ips
  <2>4. RequestsRun' /\ SyncPlaces' /\ ListIsLast'
    BY <2>1 DEF RequestsRun, SyncPlaces, ListIsLast
  <2> QED
    BY <2>1, <2>2, <2>3, <2>4
<1> QED
  BY <1>1, <1>2

\* What is proved of a state is the invariant of every step.
LEMMA FileStep == FileInv /\ [Next]_vars => FileInv'
<1> SUFFICES ASSUME FileInv, [Next]_vars PROVE FileInv'
  OBVIOUS
<1>1. CASE \E n \in Names, addr \in Addrs : Move(n, addr)
  BY <1>1 DEF Move, FileInv, WritersType, ListsType, HasIps, RequestsRun, SyncPlaces,
              ListIsLast, MemoryBehind, Pending
<1>2. CASE UNCHANGED vars
  BY <1>2 DEF vars, FileInv, WritersType, ListsType, HasIps, RequestsRun, SyncPlaces,
              ListIsLast, MemoryBehind, Pending
<1> QED
  BY <1>1, <1>2, OpenStep, WriteStep, RequestStep, AnswerStep, SyncStep, ProxyStep
  DEF Next

\* Between two requests nothing separates the memory from the file.
LEMMA FileInvMemory == FileInv => MemoryIsFile
<1> SUFFICES ASSUME FileInv, up, ~synced, ~overlapped,
                    \A r \in Requests : writer[r].pc # "answer"
             PROVE  cfg = Ips(last)
  BY DEF MemoryIsFile
<1>1. DOMAIN cfg = Loaded(last) /\ \A n \in Loaded(last) : cfg[n] = last[n].ip
  BY DEF FileInv, MemoryBehind, Pending
<1>2. cfg = [n \in DOMAIN cfg |-> cfg[n]]
  BY DEF FileInv, ListsType
<1> QED
  BY <1>1, <1>2 DEF Ips

\* However requests and syncs interleave, stop and start, the proxy asks
\* the addresses of servers.json, unless a sync wrote it since the start,
\* writers overlapped, or a request is between the file and the memory.
THEOREM MemoryAlways == Spec => []MemoryIsFile
<1>1. Init => FileInv
  BY InitFileInv
<1>2. FileInv /\ [Next]_vars => FileInv'
  BY FileStep
<1>3. FileInv => MemoryIsFile
  BY FileInvMemory
<1> QED
  BY <1>1, <1>2, <1>3, PTL DEF Spec

-----------------------------------------------------------------------------
\* The merge of a sync, entry by entry, and twice.

\* build_sync_entry fills in what it has and keeps the rest.
LEMMA BuiltEntry ==
  ASSUME NEW local, IsList(local), NEW n, NEW c \in Cfgs
  PROVE  /\ EntryOf(local, n) \in Entries /\ Built(n, local, c) \in Entries
         /\ Built(n, local, c).ip = Or(c.ip, EntryOf(local, n).ip)
         /\ Built(n, local, c).monitor = IF n \in SysMonitors THEN EntryOf(local, n).monitor
                                         ELSE Or(c.monitor, EntryOf(local, n).monitor)
         /\ Built(n, local, c).hasId = TRUE
         /\ Built(n, local, c).service = EntryOf(local, n).service
         /\ Built(n, local, c).sysPath = BuiltSysPath(n, local)
<1> DEFINE e == EntryOf(local, n)
<1>1. e \in Entries
  BY DEF EntryOf, IsList, Blank, Entries, Address
<1>2. e = [hasId |-> e.hasId, ip |-> e.ip, monitor |-> e.monitor, service |-> e.service,
           sysPath |-> e.sysPath]
  BY <1>1 DEF Entries
<1>3. BuiltSysPath(n, local) \in {"absent", "blank", "default", "own"}
  BY <1>1 DEF BuiltSysPath, Entries
<1> DEFINE ip == Or(c.ip, e.ip)
           mon == IF n \in SysMonitors THEN e.monitor ELSE Or(c.monitor, e.monitor)
           path == BuiltSysPath(n, local)
<1>4. Built(n, local, c) = [e EXCEPT !.hasId = TRUE, !.ip = ip, !.monitor = mon, !.sysPath = path]
  BY DEF Built
<1>5. ip \in Address /\ mon \in Address
  BY <1>1 DEF Or, Cfgs, Entries, Address
<1> HIDE DEF e, ip, mon, path
<1>6. Built(n, local, c) = [hasId |-> TRUE, ip |-> ip, monitor |-> mon,
                            service |-> e.service, sysPath |-> path]
  BY <1>2, <1>4
<1>7. Built(n, local, c) \in Entries
  BY <1>1, <1>3, <1>5, <1>6 DEF Entries, path
<1> QED
  BY <1>1, <1>6, <1>7 DEF e, ip, mon, path

LEMMA ComposedList ==
  ASSUME NEW m, IsList(m.local), IsSite(s3), m.got \in [DOMAIN s3 -> Cfgs]
  PROVE  IsList(Compose(m))
<1>1. \A n \in DOMAIN s3 : Built(n, m.local, m.got[n]) \in Entries
  BY BuiltEntry
<1>2. \A n \in DOMAIN m.local : m.local[n] \in Entries
  BY DEF IsList
<1> QED
  BY <1>1, <1>2 DEF Compose, IsList, IsSite

\* An entry of the list that S3 does not say to skip is in the merged list,
\* with what was known of it.
LEMMA ComposeKeeps ==
  ASSUME NEW m, IsList(m.local), IsSite(s3), m.got \in [DOMAIN s3 -> Cfgs],
         NEW n \in DOMAIN m.local \ (SkipNames \cap DOMAIN s3)
  PROVE  LET e == m.local[n]  f == Compose(m)[n] IN
         /\ n \in DOMAIN Compose(m)
         /\ e.ip # None => f.ip # None
         /\ e.monitor # None => f.monitor # None
         /\ n \in DOMAIN m.got /\ m.got[n] = NoCfg => f.ip = e.ip /\ f.monitor = e.monitor
         /\ n \notin DOMAIN m.got => f.ip = e.ip /\ f.monitor = e.monitor
         /\ f.service = e.service
         /\ e.sysPath # "absent" => f.sysPath = e.sysPath
<1>1. CASE n \in DOMAIN s3 \ (SkipNames \cup m.failed)
  <2>1. n \in DOMAIN Compose(m) /\ Compose(m)[n] = Built(n, m.local, m.got[n])
    BY <1>1 DEF Compose
  <2>2. EntryOf(m.local, n) = m.local[n] /\ m.got[n] \in Cfgs
    BY <1>1 DEF EntryOf
  <2> DEFINE e == EntryOf(m.local, n)
             b == Built(n, m.local, m.got[n])
  <2>3. /\ b.ip = Or(m.got[n].ip, e.ip)
        /\ b.monitor = IF n \in SysMonitors THEN e.monitor
                       ELSE Or(m.got[n].monitor, e.monitor)
        /\ b.service = e.service /\ b.sysPath = BuiltSysPath(n, m.local)
    BY <2>2, BuiltEntry
  <2> HIDE DEF b
  <2>4. e.sysPath # "absent" => b.sysPath = e.sysPath
    BY <2>3 DEF BuiltSysPath
  <2>5. m.got[n] = NoCfg => m.got[n].ip = None /\ m.got[n].monitor = None
    BY DEF NoCfg
  <2>6. /\ e.ip # None => b.ip # None
        /\ e.monitor # None => b.monitor # None
        /\ m.got[n] = NoCfg => b.ip = e.ip /\ b.monitor = e.monitor
    BY <2>3, <2>5 DEF Or
  <2> QED
    BY <1>1, <2>1, <2>2, <2>3, <2>4, <2>6 DEF b
<1>2. CASE n \notin DOMAIN s3 \/ n \in m.failed
  BY <1>2 DEF Compose
<1> QED
  BY <1>1, <1>2

\* What the merge of a sync gives is a fixed point of that merge.
LEMMA ComposeTwice ==
  ASSUME NEW m, NEW again, IsList(m.local), IsSite(s3), m.got \in [DOMAIN s3 -> Cfgs],
         again.local = Compose(m), again.got = m.got, again.failed = m.failed
  PROVE  Compose(again) = Compose(m)
<1> DEFINE once == Compose(m)
           aws == DOMAIN s3 \ (SkipNames \cup m.failed)
           kept == {n \in DOMAIN m.local : n \notin DOMAIN s3 \/ n \in m.failed}
<1>1. once = [n \in aws \cup kept |->
                IF n \in aws THEN Built(n, m.local, m.got[n]) ELSE m.local[n]]
  BY DEF Compose
<1>2. kept = {n \in DOMAIN once : n \notin DOMAIN s3 \/ n \in m.failed}
  BY <1>1
<1>3. Compose(again) = [n \in aws \cup kept |->
                          IF n \in aws THEN Built(n, once, m.got[n]) ELSE once[n]]
  BY <1>2 DEF Compose
<1>4. IsList(once)
  BY ComposedList
<1>5. ASSUME NEW n \in aws PROVE Built(n, once, m.got[n]) = once[n]
  <2>1. m.got[n] \in Cfgs
    BY <1>5
  <2>2. EntryOf(once, n) = once[n] /\ once[n] = Built(n, m.local, m.got[n])
    BY <1>1 DEF EntryOf
  <2> HIDE DEF once, aws, kept
  <2> DEFINE b == Built(n, once, m.got[n])
  <2>3. /\ b \in Entries /\ once[n] \in Entries
        /\ b.hasId = TRUE /\ once[n].hasId = TRUE
        /\ b.ip = Or(m.got[n].ip, once[n].ip)
        /\ b.monitor = IF n \in SysMonitors THEN once[n].monitor
                       ELSE Or(m.got[n].monitor, once[n].monitor)
        /\ b.service = once[n].service /\ b.sysPath = BuiltSysPath(n, once)
    <3>1. /\ EntryOf(once, n) \in Entries /\ b \in Entries /\ b.hasId = TRUE
          /\ b.ip = Or(m.got[n].ip, EntryOf(once, n).ip)
          /\ b.monitor = IF n \in SysMonitors THEN EntryOf(once, n).monitor
                         ELSE Or(m.got[n].monitor, EntryOf(once, n).monitor)
          /\ b.service = EntryOf(once, n).service /\ b.sysPath = BuiltSysPath(n, once)
      BY <1>4, <2>1, BuiltEntry
    <3>2. Built(n, m.local, m.got[n]).hasId = TRUE
      BY <2>1, BuiltEntry
    <3> HIDE DEF b
    <3> QED
      BY <2>2, <3>1, <3>2
  <2>4. /\ once[n].ip = Or(m.got[n].ip, EntryOf(m.local, n).ip)
        /\ once[n].monitor = IF n \in SysMonitors THEN EntryOf(m.local, n).monitor
                             ELSE Or(m.got[n].monitor, EntryOf(m.local, n).monitor)
        /\ once[n].sysPath = BuiltSysPath(n, m.local)
    <3> DEFINE local == m.local  got == m.got[n]
               c == Built(n, local, got)
    <3>2. IsList(local) /\ got \in Cfgs
      BY <2>1
    <3> HIDE DEF b, local, got
    <3>1. /\ c.ip = Or(got.ip, EntryOf(local, n).ip)
          /\ c.monitor = IF n \in SysMonitors THEN EntryOf(local, n).monitor
                         ELSE Or(got.monitor, EntryOf(local, n).monitor)
          /\ c.sysPath = BuiltSysPath(n, local)
      BY <3>2, BuiltEntry
    <3> HIDE DEF c
    <3> QED
      BY <2>2, <3>1 DEF c, local, got
  <2>5. BuiltSysPath(n, once) = once[n].sysPath
    BY <2>2, <2>4 DEF BuiltSysPath
  <2>6. b.ip = once[n].ip /\ b.monitor = once[n].monitor
    BY <2>3, <2>4 DEF Or
  <2> HIDE DEF b
  <2>7. b = once[n]
    BY <2>3, <2>5, <2>6 DEF Entries
  <2> QED
    BY <2>7 DEF b
<1> HIDE DEF aws, kept
<1>6. Compose(again) = [n \in aws \cup kept |-> once[n]]
  BY <1>3, <1>5
<1>7. once = [n \in aws \cup kept |-> once[n]]
  BY <1>1
<1> QED
  BY <1>6, <1>7

\* An address taken from S3 is all that a request changes.
LEMMA AddressEdit ==
  ASSUME NEW list, IsList(list), NEW n \in DOMAIN list, NEW a \in Address
  PROVE  LET edited == [list EXCEPT ![n].ip = a] IN
         /\ IsList(edited) /\ DOMAIN edited = DOMAIN list
         /\ edited[n].ip = a /\ edited[n].monitor = list[n].monitor
         /\ edited[n].service = list[n].service /\ edited[n].sysPath = list[n].sysPath
         /\ \A k \in DOMAIN list \ {n} : edited[k] = list[k]
<1> DEFINE e == [list[n] EXCEPT !.ip = a]
<1>1. e = [hasId |-> list[n].hasId, ip |-> a, monitor |-> list[n].monitor, service |-> list[n].service,
           sysPath |-> list[n].sysPath]
  BY DEF IsList, Entries
<1>2. e \in Entries
  BY <1>1 DEF IsList, Entries
<1>3. [list EXCEPT ![n].ip = a] = [list EXCEPT ![n] = e]
  OBVIOUS
<1> HIDE DEF e
<1> QED
  BY <1>1, <1>2, <1>3 DEF IsList

-----------------------------------------------------------------------------
\* Whoever writes holds a list, and an address to enter.
Listed ==
    /\ IsList(last) /\ IsList(merge.local) /\ IsSite(s3)
    /\ DOMAIN cfg \subseteq Names /\ cfg \in [DOMAIN cfg -> Address]
    /\ \A w \in Writers :
         /\ IsList(writer[w].list)
         /\ writer[w].pc = "write" => ~whole \/ writer[w].stale
    /\ \A r \in Requests : writer[r].pc # "idle" => writer[r].ip \in Addrs

\* What the sync is about to write is what it merged, from the last list if
\* nobody wrote past it.
SyncMerged ==
    /\ writer["sync"].pc \in {"open", "write"} =>
         /\ writer["sync"].list = Compose(merge)
         /\ merge.got \in [DOMAIN s3 -> Cfgs]
         /\ \A n \in DOMAIN s3 :
              merge.got[n] = NoCfg \/ NeedsCfg(n, EntryOf(merge.local, n), merge.fetchAll)
    /\ writer["sync"].pc # "idle" /\ ~writer["sync"].stale => merge.local = last

KeepInv == FileInv /\ Listed /\ SyncMerged

LEMMA EmptyList == IsList(Empty) /\ IsList(Idle.list) /\ IsList(NoMerge.local)
BY DEF Empty, IsList, Idle, NoMerge

\* The merge is a function of the merged list and of the names in S3.
LEMMA ComposeFrame ==
  ASSUME UNCHANGED merge, DOMAIN s3' = DOMAIN s3
  PROVE  Compose(merge)' = Compose(merge)
BY DEF Compose

LEMMA InitKeep == Init => KeepInv
<1> SUFFICES ASSUME Init PROVE KeepInv
  OBVIOUS
<1>1. FileInv
  BY InitFileInv
<1>2. IsList(last) /\ IsSite(s3)
  BY FilesAssumption, SitesAssumption DEF Init
<1>3. \A w \in Writers : writer[w] = Idle
  BY DEF Init
<1>4. DOMAIN cfg \subseteq Names /\ cfg \in [DOMAIN cfg -> Address]
  BY <1>2 DEF Init, Ips, Loaded, IsList, Entries
<1>5. Listed
  BY <1>2, <1>3, <1>4, EmptyList DEF Init, Listed, Idle, Writers
<1>6. SyncMerged
  BY <1>3 DEF SyncMerged, Idle, Writers
<1> QED
  BY <1>1, <1>5, <1>6 DEF KeepInv

LEMMA KeepWrite ==
  ASSUME KeepInv, FileInv', NEW w \in Writers, Write(w)
  PROVE  KeepInv'
<1> USE ServersAssumption DEF Writers
<1>1. /\ writer[w].pc = "write" /\ last' = writer[w].list
      /\ UNCHANGED <<cfg, s3>>
      /\ merge' = IF w = "sync" THEN NoMerge ELSE merge
  BY DEF Write
<1>2. \A v \in Writers : v # w =>
        /\ writer'[v].pc = writer[v].pc /\ writer'[v].ip = writer[v].ip
        /\ writer'[v].list = writer[v].list
        /\ writer[v].pc \notin {"idle", "read"} => writer'[v].stale
  BY WriteFrame DEF KeepInv, FileInv
<1>3. /\ writer'[w].pc = IF w = "sync" THEN "idle" ELSE "answer"
      /\ writer'[w].list = Empty
      /\ w # "sync" => writer'[w].ip = writer[w].ip
  BY WriteFrame DEF KeepInv, FileInv
<1>4. Listed'
  BY <1>1, <1>2, <1>3, EmptyList DEF KeepInv, Listed, IsSite
<1>5. SyncMerged'
  <2>1. CASE w = "sync"
    BY <1>3, <2>1 DEF SyncMerged
  <2>2. CASE w # "sync"
    BY <1>1, <1>2, <2>2, ComposeFrame DEF KeepInv, FileInv, SyncPlaces, SyncMerged
  <2> QED
    BY <2>1, <2>2
<1> QED
  BY <1>4, <1>5 DEF KeepInv

LEMMA KeepOpen ==
  ASSUME KeepInv, FileInv', NEW w \in Writers, Open(w)
  PROVE  KeepInv'
<1> USE DEF Writers
<1>1. /\ whole' = FALSE /\ UNCHANGED <<last, cfg, s3, merge>> /\ writer[w].pc = "open"
  BY DEF Open
<1>2. \A v \in Writers :
        /\ writer'[v].ip = writer[v].ip /\ writer'[v].list = writer[v].list
        /\ writer'[v].stale = writer[v].stale
        /\ v # w => writer'[v].pc = writer[v].pc
        /\ v = w => writer'[v].pc = "write"
  BY OpenFrame DEF KeepInv, FileInv
<1>3. Listed'
  BY <1>1, <1>2 DEF KeepInv, Listed, IsSite
<1>4. SyncMerged'
  BY <1>1, <1>2, ComposeFrame DEF KeepInv, SyncMerged
<1> QED
  BY <1>3, <1>4 DEF KeepInv

LEMMA KeepRequest ==
  ASSUME KeepInv, FileInv', NEW r \in Requests,
         Read(r) \/ Answer(r) \/ \E n \in Names : Resolve(r, n)
  PROVE  KeepInv'
<1> USE ServersAssumption DEF Writers
<1>1. /\ UNCHANGED <<whole, last, s3, merge>>
      /\ \A v \in Writers : v # r => writer'[v] = writer[v]
  BY DEF Read, Answer, Resolve, KeepInv, FileInv, WritersType
<1>2. /\ IsList(writer'[r].list) /\ writer'[r].pc # "write"
      /\ writer'[r].pc # "idle" => writer'[r].ip \in Addrs
  <2>1. ASSUME NEW n \in Names, Resolve(r, n)
        PROVE  /\ IsList(writer'[r].list) /\ writer'[r].pc # "write"
               /\ writer'[r].ip \in Addrs
    <3>1. s3[n].cfg.ip \in Addrs
      BY <2>1 DEF Resolve, KeepInv, Listed, IsSite, SiteEntries, Cfgs, Address
    <3>2. writer'[r] = [Idle EXCEPT !.pc = "read", !.name = n, !.ip = s3[n].cfg.ip]
      BY <2>1 DEF Resolve, KeepInv, FileInv, WritersType
    <3> QED
      BY <3>1, <3>2, EmptyList DEF Idle
  <2>2. CASE Answer(r) \/ writer'[r] = Idle
    <3>1. writer'[r] = Idle
      BY <2>2 DEF Answer, KeepInv, FileInv, WritersType
    <3> QED
      BY <3>1, EmptyList DEF Idle
  <2>3. CASE Read(r) /\ writer'[r] # Idle
    <3> DEFINE edited == [last EXCEPT ![writer[r].name].ip = writer[r].ip]
    <3>1. /\ writer[r].name \in DOMAIN last /\ writer[r].pc = "read"
          /\ writer'[r] = [writer[r] EXCEPT !.pc = "open", !.list = edited]
      BY <2>3 DEF Read, KeepInv, FileInv, WritersType
    <3>2. writer[r].ip \in Addrs /\ writer[r].ip \in Address
      BY <3>1 DEF KeepInv, Listed, Address
    <3>3. IsList(edited)
      BY <3>1, <3>2, AddressEdit DEF KeepInv, Listed
    <3> HIDE DEF edited
    <3> QED
      BY <3>1, <3>2, <3>3 DEF KeepInv, FileInv, WritersType, WriterFields
  <2> QED
    BY <2>1, <2>2, <2>3
<1>3. DOMAIN cfg' \subseteq Names /\ cfg' \in [DOMAIN cfg' -> Address]
  <2>1. CASE UNCHANGED cfg
    BY <2>1 DEF KeepInv, Listed
  <2>2. CASE Answer(r)
    <3>1. writer[r].ip \in Address
      BY <2>2 DEF Answer, KeepInv, Listed, Address
    <3> QED
      BY <2>2, <3>1 DEF Answer, KeepInv, Listed
  <2> QED
    BY <2>1, <2>2 DEF Read, Resolve
<1>4. Listed'
  BY <1>1, <1>2, <1>3 DEF KeepInv, Listed, IsSite
<1>5. SyncMerged'
  BY <1>1, ComposeFrame DEF KeepInv, SyncMerged
<1> QED
  BY <1>4, <1>5 DEF KeepInv

LEMMA KeepSync ==
  ASSUME KeepInv, FileInv',
         SyncFetch \/ SyncEnds \/ \E fetchAll \in BOOLEAN : SyncRead(fetchAll)
  PROVE  KeepInv'
<1> USE ServersAssumption DEF Writers
<1>1. /\ UNCHANGED <<whole, last, cfg, s3>>
      /\ \A r \in Requests : writer'[r] = writer[r]
  BY DEF SyncFetch, SyncEnds, SyncRead, KeepInv, FileInv, WritersType
<1>2. /\ IsList(writer'["sync"].list) /\ writer'["sync"].pc # "write"
      /\ IsList(merge'.local)
      /\ writer'["sync"].pc = "open" =>
           /\ writer'["sync"].list = Compose(merge')
           /\ merge'.got \in [DOMAIN s3 -> Cfgs]
           /\ \A n \in DOMAIN s3 :
                \/ merge'.got[n] = NoCfg
                \/ NeedsCfg(n, EntryOf(merge'.local, n), merge'.fetchAll)
      /\ writer'["sync"].pc # "idle" /\ ~writer'["sync"].stale => merge'.local = last
  <2>1. CASE \E fetchAll \in BOOLEAN : SyncRead(fetchAll)
    <3>1. PICK fetchAll \in BOOLEAN : SyncRead(fetchAll)
      BY <2>1
    <3>2. writer'["sync"] = [writer["sync"] EXCEPT !.pc = "fetch"]
      BY <3>1 DEF SyncRead, KeepInv, FileInv, WritersType
    <3>3. merge'.local = last
      BY <3>1 DEF SyncRead, NoMerge
    <3> QED
      BY <3>2, <3>3 DEF KeepInv, Listed, FileInv, WritersType, WriterFields
  <2>2. CASE SyncEnds
    <3>1. writer'["sync"] = Idle /\ merge' = NoMerge
      BY <2>2 DEF SyncEnds, KeepInv, FileInv, WritersType
    <3> QED
      BY <3>1, EmptyList DEF Idle
  <2>3. CASE SyncFetch
    <3>1. PICK missed \in SUBSET MayMiss : \E raised \in SUBSET missed :
            LET m == [merge EXCEPT
                        !.got = [n \in DOMAIN s3 |-> IF n \in MayMiss \ missed
                                                     THEN s3[n].cfg ELSE NoCfg],
                        !.failed = raised \cup {n \in DOMAIN s3 : ~s3[n].hasId}]
            IN merge' = m /\ writer' = [writer EXCEPT !["sync"].pc = "open",
                                                      !["sync"].list = Compose(m)]
      BY <2>3 DEF SyncFetch
    <3> DEFINE got == [n \in DOMAIN s3 |-> IF n \in MayMiss \ missed
                                           THEN s3[n].cfg ELSE NoCfg]
    <3>2. got \in [DOMAIN s3 -> Cfgs]
      BY DEF KeepInv, Listed, IsSite, SiteEntries, NoCfg, Cfgs, Address
    <3>8. \A n \in DOMAIN s3 :
            got[n] = NoCfg \/ NeedsCfg(n, EntryOf(merge.local, n), merge.fetchAll)
      BY DEF MayMiss
    <3>3. PICK raised \in SUBSET missed :
            LET m == [merge EXCEPT
                        !.got = got,
                        !.failed = raised \cup {n \in DOMAIN s3 : ~s3[n].hasId}]
            IN merge' = m /\ writer' = [writer EXCEPT !["sync"].pc = "open",
                                                      !["sync"].list = Compose(m)]
      BY <3>1
    <3> HIDE DEF got
    <3>4. /\ merge'.local = merge.local /\ merge'.got = got
          /\ merge'.fetchAll = merge.fetchAll
          /\ writer' = [writer EXCEPT !["sync"].pc = "open",
                                      !["sync"].list = Compose(merge')]
      BY <3>3 DEF KeepInv, FileInv, ListsType
    <3>5. IsList(Compose(merge'))
      BY <3>2, <3>4, ComposedList DEF KeepInv, Listed
    <3>6. /\ writer'["sync"].pc = "open" /\ writer'["sync"].list = Compose(merge')
          /\ writer'["sync"].stale = writer["sync"].stale
      BY <3>4 DEF KeepInv, FileInv, WritersType, WriterFields
    <3>7. writer["sync"].pc # "idle"
      BY <2>3 DEF SyncFetch
    <3> QED
      BY <3>2, <3>4, <3>5, <3>6, <3>7, <3>8 DEF KeepInv, Listed, SyncMerged
  <2> QED
    BY <2>1, <2>2, <2>3
<1>3. Listed'
  BY <1>1, <1>2 DEF KeepInv, Listed, IsSite
<1>4. SyncMerged'
  BY <1>1, <1>2 DEF KeepInv, SyncMerged, Compose
<1> QED
  BY <1>3, <1>4 DEF KeepInv

\* The proxy stops and starts, hosts move: the sync notices neither.
LEMMA KeepOther ==
  ASSUME KeepInv, FileInv',
         \/ StopProxy \/ StartProxy \/ UNCHANGED vars
         \/ \E n \in Names, addr \in Addrs : Move(n, addr)
  PROVE  KeepInv'
<1> USE ServersAssumption DEF Writers
<1>1. /\ UNCHANGED <<whole, last, merge>> /\ writer'["sync"] = writer["sync"]
      /\ \A r \in Requests : writer'[r] = writer[r] \/ writer'[r] = Idle
  BY DEF StopProxy, StartProxy, Move, vars, KeepInv, FileInv, WritersType
<1>2. IsSite(s3') /\ DOMAIN s3' = DOMAIN s3
  <2>1. CASE UNCHANGED s3
    BY <2>1 DEF KeepInv, Listed
  <2>2. ASSUME NEW n \in Names, NEW addr \in Addrs, Move(n, addr)
        PROVE  IsSite(s3') /\ DOMAIN s3' = DOMAIN s3
    <3> DEFINE e == [hasId |-> s3[n].hasId,
                     cfg |-> [ip |-> addr, monitor |-> s3[n].cfg.monitor]]
    <3>1. n \in DOMAIN s3 /\ s3' = [s3 EXCEPT ![n].cfg.ip = addr]
      BY <2>2 DEF Move
    <3>2. s3[n] \in SiteEntries
      BY <3>1 DEF KeepInv, Listed, IsSite
    <3>3. [s3[n] EXCEPT !.cfg.ip = addr] = e /\ e \in SiteEntries
      BY <3>2 DEF SiteEntries, Cfgs, Address
    <3>4. s3' = [s3 EXCEPT ![n] = e]
      BY <3>1, <3>3
    <3> HIDE DEF e
    <3> QED
      BY <3>1, <3>3, <3>4 DEF KeepInv, Listed, IsSite
  <2> QED
    BY <2>1, <2>2 DEF StopProxy, StartProxy, vars
<1>3. DOMAIN cfg' \subseteq Names /\ cfg' \in [DOMAIN cfg' -> Address]
  <2>1. CASE StartProxy
    BY <2>1 DEF StartProxy, Ips, Loaded, KeepInv, Listed, IsList, Entries
  <2>2. CASE UNCHANGED cfg
    BY <2>2 DEF KeepInv, Listed
  <2> QED
    BY <2>1, <2>2 DEF StopProxy, Move, vars
<1>4. Listed'
  BY <1>1, <1>2, <1>3, EmptyList DEF KeepInv, Listed, Idle
<1>5. SyncMerged'
  BY <1>1, <1>2, ComposeFrame DEF KeepInv, SyncMerged
<1> QED
  BY <1>4, <1>5 DEF KeepInv

LEMMA KeepStep == KeepInv /\ [Next]_vars => KeepInv'
<1> SUFFICES ASSUME KeepInv, [Next]_vars PROVE KeepInv'
  OBVIOUS
<1>1. FileInv'
  BY FileStep DEF KeepInv
<1> QED
  BY <1>1, KeepWrite, KeepOpen, KeepRequest, KeepSync, KeepOther DEF Next

LEMMA KeepInvAlways == Spec => []KeepInv
BY InitKeep, KeepStep, PTL DEF Spec

-----------------------------------------------------------------------------
\* The file, the memory and everything on its way into them are lists of
\* entries; whoever has the file open finds it incomplete or replaced.
THEOREM TypeCorrect == Spec => []TypeOK
<1>1. ASSUME KeepInv PROVE TypeOK
  <2>1. \A w \in Writers :
          writer[w].pc \in {"idle", "read", "fetch", "open", "write", "answer"}
    BY <1>1 DEF KeepInv, FileInv, RequestsRun, SyncPlaces, Writers
  <2> QED
    BY <1>1, <2>1 DEF KeepInv, Listed, TypeOK
<1> QED
  BY <1>1, KeepInvAlways, PTL

\* sync_servers_json.py and /update_server_ip lose nothing of servers.json, as
\* long as nobody writes over what he has not read: no pipeline that S3 does
\* not say to skip, no known address, and no setting of the site; and they
\* replace a known address only when told to, or when the other is missing.
THEOREM ListKept == Spec => ListSurvives
<1> DEFINE Kept(n) ==
      /\ n \in DOMAIN last'
      /\ last[n].ip # None =>
           /\ last'[n].ip # None
           /\ last'[n].ip = last[n].ip \/ RequestWrites(n) \/ SyncRenews(n)
      /\ last[n].monitor # None =>
           /\ last'[n].monitor # None
           /\ last'[n].monitor = last[n].monitor \/ SyncRenews(n)
      /\ last'[n].service = last[n].service
      /\ last[n].sysPath # "absent" => last'[n].sysPath = last[n].sysPath
<1>1. ASSUME KeepInv, [Next]_vars, last' # last, ~overlapped',
             NEW n \in DOMAIN last \ (SkipNames \cap DOMAIN s3)
      PROVE  Kept(n)
  <2>1. PICK w \in Writers : Write(w)
    BY <1>1 DEF Next, Open, Resolve, Read, Answer, SyncRead, SyncFetch, SyncEnds,
                StopProxy, StartProxy, Move, vars
  <2>2. /\ writer[w].pc = "write" /\ last' = writer[w].list /\ ~writer[w].stale
    BY <1>1, <2>1 DEF Write
  <2>3. CASE w \in Requests
    <3>1. /\ writer[w].name \in DOMAIN last
          /\ last' = [last EXCEPT ![writer[w].name].ip = writer[w].ip]
      BY <1>1, <2>2, <2>3 DEF KeepInv, FileInv, ListIsLast
    <3>2. writer[w].ip \in Address /\ writer[w].ip # None /\ IsList(last)
      BY <1>1, <2>2, <2>3, ServersAssumption DEF KeepInv, Listed, Address
    <3>3. n = writer[w].name => RequestWrites(n)
      <4>1. writer'[w].pc = "answer"
        BY <1>1, <2>1, <2>3, WriteFrame, ServersAssumption DEF KeepInv, FileInv
      <4> QED
        BY <2>2, <2>3, <4>1 DEF RequestWrites
    <3> QED
      BY <3>1, <3>2, <3>3, AddressEdit
  <2>4. CASE w = "sync"
    <3>1. /\ last' = Compose(merge) /\ merge.local = last
          /\ merge.got \in [DOMAIN s3 -> Cfgs]
          /\ \A k \in DOMAIN s3 :
               \/ merge.got[k] = NoCfg
               \/ NeedsCfg(k, EntryOf(merge.local, k), merge.fetchAll)
      BY <1>1, <2>2, <2>4 DEF KeepInv, SyncMerged
    <3>2. IsList(merge.local) /\ IsSite(s3)
      BY <1>1 DEF KeepInv, Listed
    <3>3. writer'["sync"].pc = "idle"
      BY <1>1, <2>1, <2>4, WriteFrame DEF KeepInv, FileInv
    <3>4. n \in DOMAIN merge.got /\ merge.got[n] # NoCfg => SyncRenews(n)
      BY <2>2, <2>4, <3>1, <3>3 DEF SyncRenews, EntryOf
    <3> QED
      BY <3>1, <3>2, <3>4, ComposeKeeps
  <2> QED
    BY <2>3, <2>4 DEF Writers
<1>2. KeepInv /\ [Next]_vars =>
        [~overlapped' =>
           \A n \in DOMAIN last \ (SkipNames \cap DOMAIN s3) : Kept(n)]_last
  BY <1>1
<1> QED
  BY <1>2, KeepInvAlways, PTL DEF Spec, ListSurvives

\* compose_synced_servers is idempotent: what a sync writes it would not
\* change with the same answers of S3, so syncs do not undo each other.
THEOREM SyncIdempotent == Spec => []SecondSyncIdle
<1>1. ASSUME KeepInv, writer["sync"].pc = "open"
      PROVE  LET once == writer["sync"].list
             IN Compose([merge EXCEPT !.local = once]) = once
  <2> DEFINE again == [merge EXCEPT !.local = Compose(merge)]
  <2>1. /\ writer["sync"].list = Compose(merge) /\ merge.got \in [DOMAIN s3 -> Cfgs]
        /\ IsList(merge.local) /\ IsSite(s3)
    BY <1>1 DEF KeepInv, SyncMerged, Listed
  <2>2. /\ again.local = Compose(merge) /\ again.got = merge.got
        /\ again.failed = merge.failed
    BY <1>1 DEF KeepInv, FileInv, ListsType
  <2> HIDE DEF again
  <2>3. Compose(again) = Compose(merge)
    BY <2>1, <2>2, ComposeTwice
  <2> QED
    BY <2>1, <2>3 DEF again
<1>2. KeepInv => SecondSyncIdle
  BY <1>1 DEF SecondSyncIdle
<1> QED
  BY <1>2, KeepInvAlways, PTL
=============================================================================
