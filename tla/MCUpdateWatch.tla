---------------------------- MODULE MCUpdateWatch ----------------------------
(***************************************************************************)
(* Two hosts, so that one can be slow or running while the other is done,  *)
(* and one of them can be moved; two requests, so that a host can be       *)
(* watched anew while it is asked for its first update.  With one request  *)
(* and two polls (OnePost, TwoPolls) one poll acts on a watch the other    *)
(* has changed.                                                            *)
(***************************************************************************)
EXTENDS UpdateWatch

CONSTANTS h1, h2, q1, q2, p1, p2

OneHost == {h1}
TwoHosts == {h1, h2}
OnePost == {q1}
TwoPosts == {q1, q2}
OnePoll == {p1}
TwoPolls == {p1, p2}
=============================================================================
