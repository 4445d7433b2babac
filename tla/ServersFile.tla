---------------------------- MODULE ServersFile ----------------------------
(***************************************************************************)
(* servers.json, the list of a site's pipelines, and those who write it:   *)
(* sync_servers_json.py, which merges the S3 servers db into it, and the   *)
(* requests of the proxy that take the address of one pipeline from S3     *)
(* (/update_server_ip).  Each of them reads the file, changes what it read *)
(* and writes it back, with no lock: open(..., "w") empties the file, and  *)
(* the new content follows.  The proxy keeps the list it loaded when it    *)
(* started in cfg.                                                         *)
(*                                                                         *)
(* S3 is external: it names pipelines, not all with a server id, and holds *)
(* a cfg with the addresses of some of them.  A download may fail.  The    *)
(* server id of a name does not change, and the order of the entries and   *)
(* the fields of an entry no rule of the merge looks at are left out.      *)
(***************************************************************************)
EXTENDS Naturals

CONSTANTS Names,       \* pipelines
          SysMonitors, \* names for which is_sys_monitor_entry
          KafkaNames,  \* names for which is_kafka_pipeline
          RtlsNames,   \* names for which is_rtls_pipeline
          SkipNames,   \* names for which should_skip_pipeline
          Addrs,       \* usable addresses
          None,        \* no address, or one like 0.0.0.0
          Requests,    \* threads of the proxy
          Files,       \* the lists the file may hold at first
          Sites,       \* what S3 may name, and with what cfg
          MaxMoves,    \* hosts that get another address
          MaxSyncs,    \* runs of sync_servers_json.py
          MaxAsked     \* requests

ASSUME ServersAssumption ==
    /\ SysMonitors \cup KafkaNames \cup RtlsNames \cup SkipNames \subseteq Names
    /\ None \notin Addrs /\ "sync" \notin Requests
    /\ {MaxMoves, MaxSyncs, MaxAsked} \subseteq Nat

VARIABLES whole,       \* the file is a complete JSON document
          last,        \* the list the file holds while it is whole
          cfg,         \* the addresses in the proxy's memory
          up,          \* the proxy runs
          s3,          \* what S3 holds
          writer,      \* what each request and the sync is about to do
          merge,       \* what the sync merges: see SyncFetch
          overlapped,  \* history: somebody went on from what another had replaced
          synced,      \* history: a sync wrote the file since the proxy started
          moves, syncs, asked \* counters

counters == <<moves, syncs, asked>>
vars == <<whole, last, cfg, up, s3, writer, merge, overlapped, synced, counters>>

Address == Addrs \cup {None}
\* hasId: a server_id, which an entry of a list made by hand may lack;
\* service: a service name or pipeline path of its own, or the default one;
\* sysPath: sys_monitor_path, where "blank" is a key without a value.
Entries == [hasId : BOOLEAN, ip : Address, monitor : Address, service : {"default", "own"},
            sysPath : {"absent", "blank", "default", "own"}]
IsList(list) == DOMAIN list \subseteq Names /\ list \in [DOMAIN list -> Entries]
ASSUME FilesAssumption == \A list \in Files : IsList(list)
Cfgs == [ip : Address, monitor : Address]
NoCfg == [ip |-> None, monitor |-> None]
\* What S3 has of a name: no server id, or the cfg of the server, NoCfg if
\* there is no {id}.json or none of the addresses is in it.
SiteEntries == [hasId : BOOLEAN, cfg : Cfgs]
IsSite(site) == DOMAIN site \subseteq Names /\ site \in [DOMAIN site -> SiteEntries]
ASSUME SitesAssumption == \A site \in Sites : IsSite(site)

Blank == [hasId |-> FALSE, ip |-> None, monitor |-> None, service |-> "default",
          sysPath |-> "absent"]
EntryOf(list, n) == IF n \in DOMAIN list THEN list[n] ELSE Blank
Or(x, y) == IF x # None THEN x ELSE y

\* load_cfg passes over the entries without a server id.
Loaded(list) == {n \in DOMAIN list : list[n].hasId}
Ips(list) == [n \in Loaded(list) |-> list[n].ip]

Empty == [n \in {} |-> Blank]
Idle == [pc |-> "idle", name |-> None, ip |-> None, list |-> Empty,
         stale |-> FALSE, shared |-> FALSE]
NoMerge == [local |-> Empty, got |-> [n \in {} |-> NoCfg], failed |-> {},
            fetchAll |-> FALSE]
Writers == Requests \cup {"sync"}

-----------------------------------------------------------------------------
\* The merge of one sync.  m.local is the list the sync read, m.got the
\* cfg it has of each name, m.failed the names whose entry failed.

NeedsMonitor(n, e) == n \notin SysMonitors \cup RtlsNames /\ e.monitor = None
NeedsCfg(n, e, fetchAll) == fetchAll \/ e.ip = None \/ NeedsMonitor(n, e)

\* Variant: a key without a value counts as absent.
BuiltSysPath_DropsBlank(n, local) ==
    LET own == EntryOf(local, n).sysPath IN
    IF own = "blank" THEN "absent"
    ELSE IF own = "absent" /\ n \notin KafkaNames THEN "default" ELSE own

\* The key the local entry has, even one without a value, or the default.
BuiltSysPath(n, local) ==
    LET own == EntryOf(local, n).sysPath IN
    IF own = "absent" /\ n \notin KafkaNames THEN "default" ELSE own

\* build_sync_entry, and what compose_synced_servers takes back from the
\* local entry: an address S3 does not give, and every setting of its own.
Built(n, local, c) ==
    [EntryOf(local, n) EXCEPT
       !.hasId = TRUE,
       !.ip = Or(c.ip, @),
       !.monitor = IF n \in SysMonitors THEN @ ELSE Or(c.monitor, @),
       !.sysPath = BuiltSysPath(n, local)]

\* Names S3 has and the sync skips leave the list, the ones S3 does not
\* have or whose entry failed stay as they are.
Compose(m) ==
    LET aws == DOMAIN s3 \ (SkipNames \cup m.failed)
        kept == {n \in DOMAIN m.local : n \notin DOMAIN s3 \/ n \in m.failed}
    IN [n \in aws \cup kept |->
          IF n \in aws THEN Built(n, m.local, m.got[n]) ELSE m.local[n]]

-----------------------------------------------------------------------------
\* Reading and writing the file.

Opened == {w \in Writers : writer[w].pc = "write"}

\* open(path, "w"): from now on the file is no JSON document.
Open(w) ==
    /\ writer[w].pc = "open"
    /\ writer' = [v \in Writers |->
                    IF v = w THEN [writer[v] EXCEPT !.pc = "write",
                                                    !.shared = Opened # {}]
                    ELSE IF v \in Opened THEN [writer[v] EXCEPT !.shared = TRUE]
                    ELSE writer[v]]
    /\ whole' = FALSE
    /\ UNCHANGED <<last, cfg, up, s3, merge, overlapped, synced, counters>>

\* The content is written and the file closed.  If another one had it open
\* as well, it may be a mixture of both.
Write(w) ==
    /\ writer[w].pc = "write"
    /\ whole' \in IF writer[w].shared THEN BOOLEAN ELSE {TRUE}
    /\ last' = writer[w].list
    /\ overlapped' = (overlapped \/ writer[w].stale \/ writer[w].shared)
    /\ writer' = [v \in Writers |->
                    IF v = w THEN IF w = "sync" THEN Idle
                                  ELSE [writer[v] EXCEPT !.pc = "answer",
                                                         !.list = Empty]
                    ELSE [writer[v] EXCEPT
                            !.stale = @ \/ writer[v].pc \notin {"idle", "read"}]]
    /\ merge' = IF w = "sync" THEN NoMerge ELSE merge
    /\ synced' = (synced \/ w = "sync")
    /\ UNCHANGED <<cfg, up, s3, counters>>

-----------------------------------------------------------------------------
\* /update_server_ip for the pipeline n.

\* The address of S3; without one the request is answered with an error.
Resolve(r, n) ==
    /\ up /\ writer[r].pc = "idle" /\ asked < MaxAsked
    /\ n \in DOMAIN cfg \cap DOMAIN s3
    /\ s3[n].cfg.ip # None
    /\ writer' = [writer EXCEPT ![r] =
                    [Idle EXCEPT !.pc = "read", !.name = n, !.ip = s3[n].cfg.ip]]
    /\ asked' = asked + 1
    /\ UNCHANGED <<whole, last, cfg, up, s3, merge, overlapped, synced, moves, syncs>>

\* A name the file has lost is an error, and so is a file that is not whole.
Read(r) ==
    /\ writer[r].pc = "read"
    /\ writer' = [writer EXCEPT ![r] =
                    IF whole /\ @.name \in DOMAIN last
                    THEN [@ EXCEPT !.pc = "open",
                                   !.list = [last EXCEPT ![writer[r].name].ip = writer[r].ip]]
                    ELSE Idle]
    /\ UNCHANGED <<whole, last, cfg, up, s3, merge, overlapped, synced, counters>>

\* Variant: the address is not entered into cfg.
Answer_FileOnly(r) ==
    /\ writer[r].pc = "answer"
    /\ overlapped' = (overlapped \/ writer[r].stale)
    /\ writer' = [writer EXCEPT ![r] = Idle]
    /\ UNCHANGED <<whole, last, cfg, up, s3, merge, synced, counters>>

Answer(r) ==
    /\ writer[r].pc = "answer"
    /\ cfg' = [cfg EXCEPT ![writer[r].name] = writer[r].ip]
    /\ overlapped' = (overlapped \/ writer[r].stale)
    /\ writer' = [writer EXCEPT ![r] = Idle]
    /\ UNCHANGED <<whole, last, up, s3, merge, synced, counters>>

-----------------------------------------------------------------------------
\* sync_servers_json.py, with or without --fetch-ip.

SyncRead(fetchAll) ==
    /\ writer["sync"].pc = "idle" /\ syncs < MaxSyncs
    /\ whole
    /\ writer' = [writer EXCEPT !["sync"].pc = "fetch"]
    /\ merge' = [NoMerge EXCEPT !.local = last, !.fetchAll = fetchAll]
    /\ syncs' = syncs + 1
    /\ UNCHANGED <<whole, last, cfg, up, s3, overlapped, synced, moves, asked>>

\* Variant: without --fetch-ip the cfgs of all pipelines are taken as well.
MayMiss_All == DOMAIN s3

\* The cfgs a sync may get: of a name that needs one it may be missed, or
\* its second download raise, and the entry of a name without id fails.
MayMiss == {n \in DOMAIN s3 : NeedsCfg(n, EntryOf(merge.local, n), merge.fetchAll)}

SyncFetch ==
    /\ writer["sync"].pc = "fetch"
    /\ \E missed \in SUBSET MayMiss : \E raised \in SUBSET missed :
         LET m == [merge EXCEPT
                     !.got = [n \in DOMAIN s3 |-> IF n \in MayMiss \ missed
                                                  THEN s3[n].cfg ELSE NoCfg],
                     !.failed = raised \cup {n \in DOMAIN s3 : ~s3[n].hasId}]
         IN /\ merge' = m
            /\ writer' = [writer EXCEPT !["sync"].pc = "open",
                                        !["sync"].list = Compose(m)]
    /\ UNCHANGED <<whole, last, cfg, up, s3, overlapped, synced, counters>>

-----------------------------------------------------------------------------
\* Somebody stops the sync, or a download of the prefetch raises; the
\* proxy is stopped and started; a host moves to another address.

SyncEnds ==
    /\ writer["sync"].pc # "idle"
    /\ writer' = [writer EXCEPT !["sync"] = Idle]
    /\ merge' = NoMerge
    /\ UNCHANGED <<whole, last, cfg, up, s3, overlapped, synced, counters>>

StopProxy ==
    /\ up /\ up' = FALSE
    /\ writer' = [w \in Writers |-> IF w \in Requests THEN Idle ELSE writer[w]]
    /\ UNCHANGED <<whole, last, cfg, s3, merge, overlapped, synced, counters>>

StartProxy ==
    /\ ~up /\ whole
    /\ up' = TRUE
    /\ cfg' = Ips(last)
    /\ synced' = FALSE
    /\ UNCHANGED <<whole, last, s3, writer, merge, overlapped, counters>>

Move(n, addr) ==
    /\ moves < MaxMoves
    /\ n \in DOMAIN s3 /\ s3[n].cfg.ip \notin {None, addr}
    /\ s3' = [s3 EXCEPT ![n].cfg.ip = addr]
    /\ moves' = moves + 1
    /\ UNCHANGED <<whole, last, cfg, up, writer, merge, overlapped, synced, syncs, asked>>

Init ==
    /\ whole = TRUE /\ last \in Files
    /\ s3 \in Sites
    /\ up = TRUE /\ cfg = Ips(last)
    /\ writer = [w \in Writers |-> Idle]
    /\ merge = NoMerge
    /\ overlapped = FALSE /\ synced = FALSE
    /\ moves = 0 /\ syncs = 0 /\ asked = 0

Next ==
    \/ \E w \in Writers : Open(w) \/ Write(w)
    \/ \E r \in Requests : (\E n \in Names : Resolve(r, n)) \/ Read(r) \/ Answer(r)
    \/ \E fetchAll \in BOOLEAN : SyncRead(fetchAll)
    \/ SyncFetch \/ SyncEnds
    \/ StopProxy \/ StartProxy
    \/ \E n \in Names, addr \in Addrs : Move(n, addr)

Spec == Init /\ [][Next]_vars

-----------------------------------------------------------------------------
\* Properties.

\* TypeOK: the file, the memory and the writers hold lists of entries.
TypeOK ==
    /\ IsList(last)
    /\ DOMAIN cfg \subseteq Names /\ cfg \in [DOMAIN cfg -> Address]
    /\ IsSite(s3)
    /\ \A w \in Writers :
         /\ writer[w].pc \in {"idle", "read", "fetch", "open", "write", "answer"}
         /\ IsList(writer[w].list)
         /\ writer[w].pc = "write" => ~whole \/ writer[w].stale

\* This step is the write of a request for n; of a sync that had to get
\* the cfg of n: told to get all, or without one of its two addresses.
RequestWrites(n) == \E r \in Requests :
    writer[r].pc = "write" /\ writer'[r].pc = "answer" /\ writer[r].name = n
SyncRenews(n) ==
    /\ writer["sync"].pc = "write" /\ writer'["sync"].pc = "idle"
    /\ NeedsCfg(n, last[n], merge.fetchAll)

\* ListSurvives: as long as nobody writes over what he has not read, no
\* write loses a pipeline (but the ones S3 says to skip), an address that
\* was known, or a setting the site made itself, whatever S3 had or missed;
\* and a known address is only replaced by a request for that pipeline, or
\* by a sync that had to get its cfg.
ListSurvives ==
    [][~overlapped' =>
         \A n \in DOMAIN last \ (SkipNames \cap DOMAIN s3) :
            /\ n \in DOMAIN last'
            /\ last[n].ip # None =>
                 /\ last'[n].ip # None
                 /\ last'[n].ip = last[n].ip \/ RequestWrites(n) \/ SyncRenews(n)
            /\ last[n].monitor # None =>
                 /\ last'[n].monitor # None
                 /\ last'[n].monitor = last[n].monitor \/ SyncRenews(n)
            /\ last'[n].service = last[n].service
            /\ last[n].sysPath # "absent" => last'[n].sysPath = last[n].sysPath]_last

\* SecondSyncIdle: a sync whose result is merged once more, with the same
\* cfgs, changes nothing: it writes no entry it would itself not keep.
SecondSyncIdle ==
    writer["sync"].pc = "open" =>
        LET once == writer["sync"].list
        IN Compose([merge EXCEPT !.local = once]) = once

\* MemoryIsFile: the proxy asks the addresses the file names, of the
\* entries with a server id, unless a
\* sync wrote it since the start, writers overlapped, or a request is just
\* between the file and the memory.
MemoryIsFile ==
    up /\ whole /\ ~synced /\ ~overlapped
       /\ (\A r \in Requests : writer[r].pc # "answer")
    => cfg = Ips(last)
=============================================================================
