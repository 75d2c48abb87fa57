-------------------------- MODULE MCCollectWithin --------------------------
(* Bounded instances of CollectWithin for TLC. *)
EXTENDS CollectWithin

CONSTANTS v1, v2

MCValues == {v1, v2}
=============================================================================
