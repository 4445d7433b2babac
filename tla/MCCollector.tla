---------------------------- MODULE MCCollector ----------------------------
(***************************************************************************)
(* Two hosts, so that one can fail or answer late while the other is       *)
(* applied; two forced refreshes, so that the second can fall into the     *)
(* wipe, the collection or the cancellation that the first one causes.     *)
(* One host has a camera drift, whose answers can leave its row pending    *)
(* and whose chips outlive a failed probe, the other a PLC-CV; a Kafka row *)
(* is a camera drift's without the answer that leaves it pending.          *)
(***************************************************************************)
EXTENDS Collector

CONSTANTS h1, h2, loose1, f1, f2

TwoHosts == {h1, h2}
TheDrift == {h1}
ThePlcCv == {h2}
OneLoose == {loose1}
TwoForces == {f1, f2}
=============================================================================
