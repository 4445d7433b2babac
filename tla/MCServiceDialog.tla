--------------------------- MODULE MCServiceDialog ---------------------------
(***************************************************************************)
(* Two commands of the tab, so that a late answer to the first can meet    *)
(* the second, and one of somebody else; a table of two, so that the limit *)
(* drops jobs while others run; a service without a host in every job.     *)
(***************************************************************************)
EXTENDS ServiceDialog

CONSTANTS j1, j2, j3, n1, loose1

ThreeJobs == {j1, j2, j3}
TwoMine == {j1, j2}
TwoNames == {n1, loose1}
OneLoose == {loose1}
=============================================================================
