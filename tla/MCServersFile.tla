--------------------------- MODULE MCServersFile ---------------------------
EXTENDS ServersFile, TLC

CONSTANTS p, k, s, c, a1, a2, r1, r2

(* The pipeline p with any entry and any cfg beside a Kafka service, and a *)
(* crane and a system monitor with typical ones.                           *)
Typical == [hasId |-> TRUE, ip |-> a1, monitor |-> a1, service |-> "own",
            sysPath |-> "absent"]
Unknown == [hasId |-> FALSE, ip |-> None, monitor |-> None, service |-> "default",
            sysPath |-> "blank"]
PEntries == [hasId : {TRUE}, ip : {a1, None}, monitor : {a1, None}, service : {"own"},
             sysPath : {"absent", "blank", "own"}]
PSites == [hasId : {TRUE}, cfg : [ip : {a1, None}, monitor : {a1, None}]]
            \cup {[hasId |-> FALSE, cfg |-> NoCfg]}

MCFiles == {[n \in {p, k} |-> IF n = p THEN e ELSE Typical] : e \in PEntries}
             \cup {[n \in {s, c} |-> IF n = s THEN e ELSE Typical] :
                      e \in {Typical, Unknown}}
Found(addr) == [hasId |-> TRUE, cfg |-> [ip |-> addr, monitor |-> None]]
MCSites == {[n \in {p, s} |-> IF n = p THEN e ELSE Found(a2)] : e \in PSites}
             \cup {[n \in {k, c} |-> Found(a2)]}
Symmetry == Permutations(Requests)
=============================================================================
