------------------------------ MODULE MCClipboard -----------------------------
(* Small instances of Clipboard: a phone that changes its address and a Mac *)
(* that keeps it.                                                           *)
EXTENDS Clipboard

CONSTANTS phone, mac, p1, p2, m1

MCOwner == [a \in Addrs |-> IF a = m1 THEN mac ELSE phone]
MCCopies == [d \in Devices |-> IF d = mac THEN 1 ELSE 2]
=============================================================================
