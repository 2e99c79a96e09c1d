---------------------------- MODULE MCKeyTransfer -----------------------------
(* Small instances of KeyTransfer: two runs of send-key, the second one may  *)
(* be the next attempt of a Mac whose first one broke off.                   *)
EXTENDS KeyTransfer

CONSTANTS s1, s2

\* Two frames, the second one shorter; or three.
MCChunkLens == {4, 6}
=============================================================================
