------------------------------ MODULE MCApproval ------------------------------
(* A small instance of Approval, with Asks that all look different. *)
EXTENDS Approval

CONSTANTS a1, a2

Different == [a \in Asks |-> IF a = a1 THEN "first" ELSE "second"]
=============================================================================
