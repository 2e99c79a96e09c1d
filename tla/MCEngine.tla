------------------------------- MODULE MCEngine -------------------------------
(* A small instance of Engine, with Asks that all look alike. *)
EXTENDS Engine

CONSTANTS a1, a2

Alike == [a \in Asks |-> "same"]
=============================================================================
