----------------------------- MODULE StatusRows -----------------------------
(***************************************************************************)
(* How the status row of a service comes about: what the edge reports of   *)
(* it (status_one in app.py), what the proxy adds by probes of its own     *)
(* (_enrich_... in proxy_server.py), what it keeps of the row before       *)
(* (_preserve_probe_metrics, _restore_probe_metrics), and the rules both   *)
(* sides share for the status of a row (finalize_pipeline_status) and for  *)
(* the status of a system_monitor, which depends on other rows             *)
(* (apply_sys_monitor_host_status, both in servers_cfg.py).                *)
(*                                                                         *)
(* One collection asks every host, applies the answers in the order they   *)
(* come in, and ends with the system_monitors.  A wipe comes in between at *)
(* any time.  Cancelled and repeated collections are the subject of module *)
(* Collector; here every collection runs to its end.                       *)
(***************************************************************************)
EXTENDS FiniteSets, Naturals, Functions

CONSTANTS Pipelines,    \* the pipelines of servers.json
          Kind,        \* "sys", "rtls", "drift", "kafka", "cv" (PLC-CV), "eg",
                       \* or "plain": no cameras are configured for it
          HostOf,      \* the edge host of each service
          MonitorOf,   \* host of the system_monitor each service is counted under;
                       \* of a system_monitor, the host it counts for
          NoHost,      \* no such host is usable
          Conditions,  \* the conditions the API or devices of each service can
                       \* be in; one without any to probe is in the only one
          MaxEvents   \* changes of the services while TLC looks

Kinds == {"sys", "rtls", "drift", "kafka", "cv", "eg", "plain"}
Hosts == {HostOf[s] : s \in Pipelines}
On(h) == {s \in Pipelines : HostOf[s] = h}
SysOn(h) == {s \in On(h) : Kind[s] = "sys"}
Probed == {s \in Pipelines : Kind[s] \notin {"sys", "plain"}}
UnitOnly == {s \in Pipelines : Kind[s] \in {"drift", "kafka"}}
Peers(h) == {s \in Pipelines : Kind[s] # "sys" /\ MonitorOf[s] = h}

ASSUME RowsAssumption ==
    /\ Kind \in [Pipelines -> Kinds]
    /\ DOMAIN HostOf = Pipelines /\ DOMAIN MonitorOf = Pipelines
    /\ Conditions \in [Pipelines -> SUBSET {"good", "bad", "part", "down"}]
    /\ MaxEvents \in Nat

VARIABLES running,     \* whether the unit of each service is active
          condition,   \* the condition of what each service is probed for
          events,     \* how often the services changed
          at,          \* how far the collection is with each host
          answer,      \* the rows in the answer of each host, while they are on
                       \* their way to the status map
          rows         \* img_n_status

worldVars == <<running, condition, events>>
rowsVars == <<worldVars, at, answer, rows>>

Statuses == {"PENDING", "OK", "WARN", "ERR"}

\* What a row has of the probe of its service: nothing (none), an API that did
\* not answer (down) or answered in part, the camera ports of a PLC-CV service in
\* place of its checkers, or all, with or without alarms.  The stream of a PLC-CV
\* service is checked as well (stream_health).
Metrics == {"none", "down", "part", "ports", "good", "bad"}
RowType == [running : BOOLEAN, status : Statuses, metrics : Metrics, stream : BOOLEAN]

Blank == [running |-> FALSE, status |-> "PENDING", metrics |-> "none", stream |-> FALSE]

-----------------------------------------------------------------------------
(***************************************************************************)
(* The rules for one row.                                                  *)
(***************************************************************************)

\* What the probes find.  A stopped service, a stream or device that does not
\* answer and an API that does not all count as down.
Reached(s) == IF running[s] THEN condition[s] ELSE "down"

\* Streams, and the lights and speakers of RTLS: one that misses some counts as bad.
StreamMetrics(s) == IF Reached(s) = "part" THEN "bad" ELSE Reached(s)
DeviceMetrics(s) == IF Reached(s) = "part" THEN "bad" ELSE Reached(s)

\* /get_drift and /api/cameras: without the second the metrics are incomplete.
DriftMetrics(s) == Reached(s)

\* /plc and its leaves: one that does not answer is left out, and the rest
\* counts as all there is.
PlcMetrics(s) == IF Reached(s) = "part" THEN "good" ELSE Reached(s)

\* /checkers of PLC-CV, or without them the camera ports.
CheckerMetrics(s) == IF Reached(s) = "part" THEN "ports" ELSE Reached(s)

Probe(s) ==
    CASE Kind[s] = "drift" -> DriftMetrics(s)
      [] Kind[s] = "kafka" -> PlcMetrics(s)
      [] Kind[s] = "cv"    -> CheckerMetrics(s)
      [] Kind[s] = "rtls"  -> DeviceMetrics(s)
      [] OTHER             -> StreamMetrics(s)

\* Whether the proxy need not probe again: _drift_metrics_incomplete and others.
Complete(metrics) == metrics \in {"good", "bad"}

\* finalize_pipeline_status.  Of a stopped stream the rule keeps OK and WARN, of
\* a running drift service without metrics whatever status the row has.
Finalize(s, row) ==
    LET status ==
          IF Kind[s] = "sys" THEN IF row.running THEN "OK" ELSE "ERR"
          ELSE IF ~row.running
            THEN IF Kind[s] \in {"cv", "eg", "plain"} /\ row.status \in {"OK", "WARN"}
                 THEN row.status ELSE "ERR"
          ELSE IF Kind[s] = "plain" THEN "OK"
          ELSE IF row.metrics \in {"good", "ports"} /\ (Kind[s] = "cv" => row.stream)
            THEN "OK"
          ELSE IF Kind[s] = "drift" /\ row.metrics \in {"none", "part"} THEN row.status
          ELSE "WARN"
    IN  [row EXCEPT !.status = status]

\* sys_monitor_status_from_counts over apply_sys_monitor_peer_status: waiting for
\* a peer is a warning, whether or not the system_monitor runs itself.
SysStatus(m, map) ==
    LET peers == Peers(MonitorOf[m])
    IN  IF \E p \in peers : map[p].status = "PENDING" THEN "WARN"
        ELSE IF ~map[m].running THEN "ERR"
        ELSE IF \A p \in peers : map[p].running THEN "OK" ELSE "WARN"

\* apply_sys_monitor_host_status, for the system_monitors of some hosts.
WithSys(map, hosts) ==
    [s \in Pipelines |->
        IF Kind[s] = "sys" /\ HostOf[s] \in hosts /\ MonitorOf[s] # NoHost
        THEN [map[s] EXCEPT !.status = SysStatus(s, map)] ELSE map[s]]

-----------------------------------------------------------------------------
RowsInit ==
    /\ running \in [Pipelines -> BOOLEAN]
    /\ condition \in {c \in [Pipelines -> UNION Range(Conditions)] :
                        \A s \in Pipelines : c[s] \in Conditions[s]}
    /\ events = 0
    /\ at = [h \in Hosts |-> "ask"]
    /\ answer = [h \in Hosts |-> <<>>]
    /\ rows = [s \in Pipelines |-> Blank]

\* A service starts, stops, or what it is probed for gets better or worse.
PipelineChanges(s) ==
    /\ events < MaxEvents
    /\ events' = events + 1
    /\ \/ running' = [running EXCEPT ![s] = ~@] /\ UNCHANGED condition
       \/ /\ \E c \in Conditions[s] : condition' = [condition EXCEPT ![s] = c]
          /\ UNCHANGED running
    /\ UNCHANGED <<at, answer, rows>>

\* status_one on the edge.  The stream of a service that is answered makes it
\* running; an older edge misses a unit that has no container; the probe of a
\* service whose deadline passes leaves ERR and no metrics (_status_failure).
EdgeRow(s, seen, timely) ==
    IF timely
    THEN Finalize(s, [running |-> seen, status |-> "PENDING",
                      metrics |-> IF Kind[s] = "sys" THEN "none" ELSE Probe(s),
                      stream |-> Kind[s] = "cv" /\ Reached(s) # "down"])
    ELSE [running |-> seen, status |-> "ERR", metrics |-> "none", stream |-> FALSE]

EdgeAnswer(h) ==
    /\ at[h] = "ask"
    /\ \E missed \in SUBSET (On(h) \cap UnitOnly), late \in SUBSET (On(h) \cap Probed) :
        answer' = [answer EXCEPT ![h] = [s \in On(h) |->
                    EdgeRow(s, running[s] /\ s \notin missed, s \notin late)]]
    /\ at' = [at EXCEPT ![h] = "answered"]
    /\ UNCHANGED <<worldVars, rows>>

\* The host does not answer in time, or not with a JSON object.
NoAnswer(h) ==
    /\ at[h] = "ask"
    /\ answer' = [answer EXCEPT ![h] = <<>>]
    /\ at' = [at EXCEPT ![h] = "lost"]
    /\ UNCHANGED <<worldVars, rows>>

\* The probes of the proxy: the unit of a service the edge reports as stopped,
\* and the APIs whose metrics the edge did not get.  "service:status" may fail.
EnrichedRow(s, row, unitSeen) ==
    LET up == IF ~row.running /\ unitSeen
              THEN Finalize(s, [row EXCEPT !.running = TRUE]) ELSE row
    IN  IF s \in UnitOnly
          THEN Finalize(s, IF Complete(up.metrics) THEN up
                           ELSE [up EXCEPT !.metrics = Probe(s)])
        ELSE IF Kind[s] = "cv" /\ ~Complete(up.metrics)
          THEN Finalize(s, IF Complete(Probe(s))
                           THEN [up EXCEPT !.metrics = Probe(s)] ELSE up)
        ELSE up

Enrich(h) ==
    /\ at[h] = "answered"
    /\ \E seen \in SUBSET {s \in On(h) : running[s] /\ ~answer[h][s].running} :
        answer' = [answer EXCEPT ![h] = [s \in On(h) |->
                    EnrichedRow(s, answer[h][s], s \in seen)]]
    /\ at' = [at EXCEPT ![h] = "enriched"]
    /\ UNCHANGED <<worldVars, rows>>

\* Variant: a row that kept its metrics keeps its run state too.
Preserve_Runtime(s, row) ==
    IF s \in UnitOnly /\ ~Complete(row.metrics)
            /\ Complete(rows[s].metrics)
    THEN [row EXCEPT !.metrics = rows[s].metrics, !.running = rows[s].running]
    ELSE row

\* _preserve_probe_metrics: complete metrics replace incomplete ones.
Preserve(s, row) ==
    IF s \in UnitOnly /\ ~Complete(row.metrics)
            /\ Complete(rows[s].metrics)
    THEN [row EXCEPT !.metrics = rows[s].metrics] ELSE row

\* Variant: the metrics are preserved in a row that has its status.
AppliedRow_FinalFirst(s, row) == Preserve(s, Finalize(s, row))

\* _apply_host_status, for one service.
AppliedRow(s, row) == Finalize(s, Preserve(s, row))

\* _apply_host_fetch_result: the rows of the host, or _mark_host_err, and then
\* the system_monitor of this host only.
Apply(h) ==
    /\ at[h] \in {"enriched", "lost"}
    /\ LET new(s) == IF at[h] = "lost" THEN Finalize(s, Blank)
                     ELSE AppliedRow(s, answer[h][s])
       IN  rows' = WithSys([s \in Pipelines |-> IF s \in On(h) THEN new(s)
                                               ELSE rows[s]], {h})
    /\ answer' = [answer EXCEPT ![h] = <<>>]
    /\ at' = [at EXCEPT ![h] = "applied"]
    /\ UNCHANGED worldVars

\* Variant: the system_monitors are left as the last answers left them.
EndCollect_NoSys ==
    /\ \A h \in Hosts : at[h] = "applied"
    /\ at' = [h \in Hosts |-> "ended"]
    /\ UNCHANGED <<worldVars, answer, rows>>

\* The end of collect_status_via_edge.
EndCollect ==
    /\ \A h \in Hosts : at[h] = "applied"
    /\ rows' = WithSys(rows, Hosts)
    /\ at' = [h \in Hosts |-> "ended"]
    /\ UNCHANGED <<worldVars, answer>>

BeginCollect ==
    /\ \A h \in Hosts : at[h] = "ended"
    /\ at' = [h \in Hosts |-> "ask"]
    /\ UNCHANGED <<worldVars, answer, rows>>

\* _reset_status_keeping_cache: rows with complete metrics of their own get them
\* back, with their run state and status, but not what the stream was found to be
\* (_restore_probe_metrics): a running PLC-CV service is WARN until it is asked.
Wipe ==
    /\ rows' = [s \in Pipelines |->
            IF Kind[s] \in {"drift", "kafka", "cv"} /\ Complete(rows[s].metrics)
            THEN Finalize(s, [rows[s] EXCEPT !.stream = FALSE]) ELSE Blank]
    /\ UNCHANGED <<worldVars, at, answer>>

CollectStatus ==
    \/ \E h \in Hosts : EdgeAnswer(h) \/ NoAnswer(h) \/ Enrich(h) \/ Apply(h)
    \/ EndCollect \/ BeginCollect

RowsNext == CollectStatus \/ Wipe \/ \E s \in Pipelines : PipelineChanges(s)

RowsSpec == RowsInit /\ [][RowsNext]_rowsVars

\* Collections follow each other, and none waits for a host for ever: requests
\* have time-outs, and NoAnswer is what a time-out leaves.
RowsFairness == WF_rowsVars(CollectStatus)
FairRowsSpec == RowsSpec /\ RowsFairness

-----------------------------------------------------------------------------
\* Rows and answers are well typed, and an answer exists only on its way.
RowsTypeOK ==
    /\ running \in [Pipelines -> BOOLEAN] /\ \A s \in Pipelines : condition[s] \in Conditions[s]
    /\ events \in 0..MaxEvents
    /\ at \in [Hosts -> {"ask", "answered", "enriched", "lost", "applied", "ended"}]
    /\ rows \in [Pipelines -> RowType]
    /\ \A h \in Hosts : IF at[h] \in {"answered", "enriched"}
                        THEN answer[h] \in [On(h) -> RowType] ELSE answer[h] = <<>>

\* The status of a row is what the rules give for the rest of the row, on both
\* sides: re-applying finalize_pipeline_status, as the proxy does several times
\* per row, changes nothing, although metrics and run state come from different
\* probes, from the row before and from wipes.
RowAgrees == \A s \in Pipelines :
    Kind[s] # "sys" /\ rows[s].status # "PENDING" => Finalize(s, rows[s]) = rows[s]

\* After a collection a system_monitor that is shown OK has peers that are all
\* shown running, and one shown ERR does not run itself, whatever the order in
\* which their hosts answered and whatever was wiped in between.
SysAgrees == \A s \in Pipelines :
    Kind[s] = "sys" /\ MonitorOf[s] # NoHost /\ (\A h \in Hosts : at[h] = "ended")
        => /\ rows[s].status = "OK" =>
                \A p \in Peers(MonitorOf[s]) : rows[p].running /\ rows[p].status # "PENDING"
           /\ rows[s].status = "ERR" => ~rows[s].running

\* A service that stays stopped is no longer shown OK or WARN after some time,
\* for all the metrics and run states the proxy keeps of its earlier rows.
StoppedIsShown == \A s \in Pipelines :
    Kind[s] # "sys" =>
        (<>[]~running[s] => <>[](rows[s].status \in {"ERR", "PENDING"}))
=============================================================================
