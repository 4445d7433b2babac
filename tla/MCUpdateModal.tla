--------------------------- MODULE MCUpdateModal ---------------------------
(***************************************************************************)
(* Two services of two repositories beside system_monitor, one with a      *)
(* container of its own and one without, and two polls in flight, the      *)
(* least with which answers arrive out of order.                           *)
(***************************************************************************)
EXTENDS UpdateModal

CONSTANTS s1, s2, r1, r2

MCJobs == {s1, s2}
MCRepos == {r1, r2}
MCRepoOf == [s \in MCJobs |-> IF s = s1 THEN r1 ELSE r2]
MCAll == MCJobs \cup {Sys}
=============================================================================
