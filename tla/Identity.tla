------------------------------- MODULE Identity -------------------------------
(***************************************************************************)
(* The TLS identity (src/src/airdrop/mod.rs, identity): key.pem and        *)
(* certificate.pem of one directory, made by whoever needs them first.     *)
(* The receive window, each search for recipients and each transfer load   *)
(* it; some run in the same daemon at once.  Every system call is a step,  *)
(* and a caller may crash or meet an I/O error at any of them.             *)
(***************************************************************************)
EXTENDS Naturals, FiniteSets

CONSTANTS
  Callers,  \* each generates a key pair of its own
  Absent,   \* no such file
  Partial   \* created, and not completely written

ASSUME IdentityAssumption == Absent \notin Callers /\ Partial \notin Callers /\ Absent # Partial

VARIABLES
  ipc,     \* where each caller is
  key,     \* key.pem: Absent, Partial or whose key it holds
  cert,    \* certificate.pem
  seen,    \* the certificate each caller has read
  handed,  \* history: the identities handed out
  broken   \* history: a caller died between creating a file and ending both

identityVars == <<ipc, key, cert, seen, handed, broken>>

Files == Callers \cup {Absent, Partial}
Ends == {"idle", "loaded", "failed"}

IdentityTypeOK ==
  /\ ipc \in [Callers -> Ends \cup {"start", "keyExists", "createKey", "writeKey",
                                    "createCert", "writeCert", "readCert", "readKey"}]
  /\ key \in Files /\ cert \in Files
  /\ seen \in [Callers -> Files]
  /\ handed \subseteq Callers
  /\ broken \in BOOLEAN

IdentityInit ==
  /\ ipc = [p \in Callers |-> "idle"]
  /\ key = Absent /\ cert = Absent
  /\ seen = [p \in Callers |-> Absent]
  /\ handed = {}
  /\ broken = FALSE

At(p, l) == ipc[p] = l
Goto(p, l) == ipc' = [ipc EXCEPT ![p] = l]
-----------------------------------------------------------------------------
Call(p) ==
  /\ ipc[p] \in Ends
  /\ Goto(p, "start")
  /\ UNCHANGED <<key, cert, seen, handed, broken>>

\* !cert_path.exists() && !key_path.exists(), looked at one after the other.
CertExists(p) ==
  /\ At(p, "start")
  /\ Goto(p, IF cert = Absent THEN "keyExists" ELSE "readCert")
  /\ UNCHANGED <<key, cert, seen, handed, broken>>

KeyExists(p) ==
  /\ At(p, "keyExists")
  /\ Goto(p, IF key = Absent THEN "createKey" ELSE "readCert")
  /\ UNCHANGED <<key, cert, seen, handed, broken>>

\* create_new fails on a file somebody else has created meanwhile.
MayCreate_Replaces(file) == TRUE
MayCreate(file) == file = Absent

CreateKey(p) ==
  /\ At(p, "createKey")
  /\ IF MayCreate(key) THEN key' = Partial /\ Goto(p, "writeKey")
                       ELSE Goto(p, "failed") /\ UNCHANGED key
  /\ UNCHANGED <<cert, seen, handed, broken>>

WriteKey(p) ==
  /\ At(p, "writeKey")
  /\ key' = p
  /\ Goto(p, "createCert")
  /\ UNCHANGED <<cert, seen, handed, broken>>

CreateCert(p) ==
  /\ At(p, "createCert")
  /\ IF MayCreate(cert) THEN cert' = Partial /\ Goto(p, "writeCert")
                        ELSE Goto(p, "failed") /\ UNCHANGED cert
  /\ UNCHANGED <<key, seen, handed, broken>>

WriteCert(p) ==
  /\ At(p, "writeCert")
  /\ cert' = p
  /\ Goto(p, "readCert")
  /\ UNCHANGED <<key, seen, handed, broken>>

ReadCert(p) ==
  /\ At(p, "readCert")
  /\ seen' = [seen EXCEPT ![p] = cert]
  /\ Goto(p, IF cert \in Callers THEN "readKey" ELSE "failed")
  /\ UNCHANGED <<key, cert, handed, broken>>

\* public_eq: a key that does not fit the certificate is refused.
ReadKey(p) ==
  /\ At(p, "readKey")
  /\ IF key = seen[p] THEN Goto(p, "loaded") /\ handed' = handed \cup {key}
                      ELSE Goto(p, "failed") /\ UNCHANGED handed
  /\ UNCHANGED <<key, cert, seen, broken>>

\* The caller crashes, or a call fails: its files stay as they are.
Dies(p) ==
  /\ ipc[p] \notin Ends
  /\ broken' = (broken \/ ipc[p] \in {"writeKey", "createCert", "writeCert"})
  /\ Goto(p, "failed")
  /\ UNCHANGED <<key, cert, seen, handed>>

Loading(p) ==
  \/ CertExists(p) \/ KeyExists(p) \/ CreateKey(p) \/ WriteKey(p) \/ CreateCert(p)
  \/ WriteCert(p) \/ ReadCert(p) \/ ReadKey(p) \/ Dies(p)

IdentityNext == \E p \in Callers : Call(p) \/ Loading(p)
IdentitySpec == IdentityInit /\ [][IdentityNext]_identityVars
-----------------------------------------------------------------------------
\* All that ever load the identity get the same one, and while nobody is
\* loading it the directory holds all of it or nothing, unless somebody died
\* between its two files.
OneIdentity ==
  /\ Cardinality(handed) <= 1
  /\ ~broken /\ (\A p \in Callers : ipc[p] \in Ends) =>
       key = cert /\ handed \subseteq {key}
=============================================================================
