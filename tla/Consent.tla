-------------------------------- MODULE Consent --------------------------------
(***************************************************************************)
(* What the receive window promises the user.  Every request is answered   *)
(* once.  One that is agreed to, before it is answered, either delivers    *)
(* its links or is granted one Upload from its own address; the grant may  *)
(* lapse at any time and never comes back, and no Upload spends two.       *)
(* Nothing else reaches the receive folder.                                *)
(***************************************************************************)
CONSTANTS
  Requests,  \* requests that nearby devices may make
  From,      \* the address each of them comes from
  NeedsYes   \* does somebody decide, or is every Ask agreed to?

VARIABLES
  yes,       \* requests somebody has said yes to
  answered,  \* requests that are answered, or whose connection is gone
  granted,   \* requests that may still be followed by an Upload
  used,      \* which request let which Upload in
  folder     \* requests with something in the receive folder

consentVars == <<yes, answered, granted, used, folder>>

ConsentInit ==
  /\ yes = {}
  /\ answered = {}
  /\ granted = {}
  /\ used = {}
  /\ folder = {}

\* A yes that comes too late changes nothing but this set.
SayYes(r) ==
  /\ yes' = yes \cup {r}
  /\ UNCHANGED <<answered, granted, used, folder>>

\* Requests are answered, or dropped, and grants lapse: all at once when the
\* window closes.
GiveUp ==
  /\ answered \subseteq answered'
  /\ granted' \subseteq granted
  /\ UNCHANGED <<yes, used, folder>>

Agreed(r) == r \notin answered /\ (NeedsYes => r \in yes)

\* The grant replaces the one its address may have had.
GiveGrant(r) ==
  /\ Agreed(r)
  /\ answered' = answered \cup {r}
  /\ granted' = {q \in granted : From[q] # From[r]} \cup {r}
  /\ UNCHANGED <<yes, used, folder>>

UseGrant(r, u) ==
  /\ r \in granted
  /\ u \notin answered
  /\ From[u] = From[r]
  /\ \A x \in used : x.upload # u
  /\ granted' = granted \ {r}
  /\ used' = used \cup {[upload |-> u, ask |-> r]}
  /\ UNCHANGED <<yes, answered, folder>>

\* What an Upload brings may be published after its connection is gone.
Publish(u) ==
  /\ \E x \in used : x.upload = u
  /\ folder' = folder \cup {u}
  /\ UNCHANGED <<yes, answered, granted, used>>

DeliverAsked(r) ==
  /\ Agreed(r)
  /\ answered' = answered \cup {r}
  /\ folder' = folder \cup {r}
  /\ UNCHANGED <<yes, granted, used>>

ConsentNext ==
  \/ GiveUp
  \/ \E r \in Requests : SayYes(r) \/ GiveGrant(r) \/ Publish(r) \/ DeliverAsked(r)
  \/ \E r, u \in Requests : UseGrant(r, u)

ConsentSpec == ConsentInit /\ [][ConsentNext]_consentVars
=============================================================================
