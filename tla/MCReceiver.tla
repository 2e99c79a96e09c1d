------------------------------ MODULE MCReceiver ------------------------------
(* Small instances of Receiver: two connections of one device, which share *)
(* a grant, and of two devices, which must not.                            *)
EXTENDS Receiver

CONSTANTS c1, c2, p1, p2

OneDevice == [c \in Conns |-> p1]
TwoDevices == [c \in Conns |-> IF c = c1 THEN p1 ELSE p2]
=============================================================================
