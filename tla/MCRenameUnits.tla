--------------------------- MODULE MCRenameUnits ---------------------------
EXTENDS RenameUnits

CONSTANTS a, b, c, newA, newB, idA, idB

NameFor == [d \in {idA, idB} |-> IF d = idA THEN newA ELSE newB]
ServedBy == [n \in {a, b, c, newA, newB} |-> IF n \in {a, c, newA} THEN idA ELSE idB]

Old == [name |-> a, id |-> idA]
New == [name |-> newA, id |-> idA]
Other == [name |-> b, id |-> idB]

(* The first server as it was installed, renamed in part or whole by an    *)
(* earlier run or version of the script, installed twice, or not at all;   *)
(* the second one as it was installed and running.                         *)
Layouts == [line : {Old}, units : {{a}, {newA}, {a, newA}, {}}]
             \cup [line : {New}, units : {{newA}, {a, newA}}]
HostsWith(others) ==
    {[units |-> l.units \cup {b}, active |-> act \cup {b}, enabled |-> en \cup {b},
      file |-> <<l.line>> \o others] :
        l \in Layouts, act \in SUBSET {a, newA}, en \in SUBSET {a, newA}}
(* A unit without a file can be active, a unit without one never starts.   *)
Possible(h) == newA \in h.active \cup h.enabled => newA \in h.units

TwoServers == {h \in HostsWith(<<Other>>) : Possible(h)}
LineTwice == {h \in HostsWith(<<Old>>) : Possible(h) /\ h.units = {a, b}}
(* The first server runs under a third name as well, with or without its   *)
(* unit file.                                                              *)
ThirdName ==
    {[units |-> l.units \cup third, active |-> act \cup {c}, enabled |-> en,
      file |-> <<l.line>>] :
        l \in {k \in Layouts : k.units # {}}, third \in {{}, {c}},
        act \in {{}, {a}}, en \in {{a}, {a, c}}}
MCHosts == TwoServers \cup LineTwice \cup ThirdName
=============================================================================
