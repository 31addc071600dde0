----------------------------- MODULE MCReferee -----------------------------
(* Referee with two nodes. *)
EXTENDS Referee

MCNode == {1, 2}
=============================================================================
