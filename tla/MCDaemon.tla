------------------------------- MODULE MCDaemon -------------------------------
(* Small instances of Daemon. *)
EXTENDS Daemon, TLC

CONSTANTS t1, t2, t3, b1

\* Tasks are interchangeable; used by the run that checks no liveness.
TaskSymmetry == Permutations(Tasks)
=============================================================================
