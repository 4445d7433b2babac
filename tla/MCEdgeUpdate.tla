---------------------------- MODULE MCEdgeUpdate ----------------------------
(***************************************************************************)
(* Instances of EdgeUpdate: three update commands, so that an update can   *)
(* be refused, and the prunes of two others can overlap a third; two polls.*)
(***************************************************************************)
EXTENDS EdgeUpdate

CONSTANTS u1, u2, u3, p1, p2

MCUpdates == {u1, u2, u3}
MCPolls == {p1, p2}
=============================================================================
