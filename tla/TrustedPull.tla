------------------------------ MODULE TrustedPull -------------------------------
(***************************************************************************)
(* What a pull of the clipboard promises: a board is given only by a       *)
(* device that trusts us to us who trust it, and what we take was given in *)
(* this pull.  The reply may be lost.                                      *)
(***************************************************************************)
CONSTANTS
  Devices,    \* devices that answer as companion-link peers
  KnownToUs,  \* those whose key is in our identity file
  KnowUs      \* those that have our key

VARIABLES
  reached,  \* the device behind the address that was resolved
  agreed,   \* both ends have verified each other
  given,    \* the device has given its board
  result    \* of the pull: none yet, the board, or failed

pullVars == <<reached, agreed, given, result>>

PullInit ==
  /\ reached \in Devices
  /\ agreed = FALSE
  /\ given = FALSE
  /\ result = "none"

Agree ==
  /\ reached \in KnownToUs \cap KnowUs
  /\ agreed' = TRUE
  /\ UNCHANGED <<reached, given, result>>

Give ==
  /\ agreed
  /\ given' = TRUE
  /\ UNCHANGED <<reached, agreed, result>>

Take ==
  /\ given
  /\ result = "none"
  /\ result' = "board"
  /\ UNCHANGED <<reached, agreed, given>>

Fail ==
  /\ result = "none"
  /\ result' = "failed"
  /\ UNCHANGED <<reached, agreed, given>>

PullNext == Agree \/ Give \/ Take \/ Fail

PullSpec == PullInit /\ [][PullNext]_pullVars
=============================================================================
