----------------------------- MODULE DeliveryProofs -----------------------------
(***************************************************************************)
(* One transfer and its parts: the receive window of Receiver, OneIdentity *)
(* of Identity, PreparedIsAccepted of Outgoing, and, for the composition   *)
(* of Delivery, PublishedAtMostOnce and DeliveredAsDecided.  The           *)
(* composition takes no step its parts do not have: seen from the receive  *)
(* window it is a behaviour of Receiver, seen from the identity's          *)
(* directory one of Identity, so what is proved of the parts holds of a    *)
(* whole transfer.                                                         *)
(***************************************************************************)
EXTENDS Delivery, FiniteSetTheorems, TLAPS

(* The receive window, for any number of connections, addresses, requests  *)
(* and channel capacities.                                                 *)

USE ReceiverAssumption

\* The request a connection serves is a request.
LEMMA RidType ==
  ASSUME TypeOK, NEW c \in Conns
  PROVE  Rid(c) \in Request
  BY DEF TypeOK, Rid, Request

\* The responses the handlers make.
LEMMA ReplyTypes ==
  /\ [status |-> 200, done |-> FALSE] \in Reply
  /\ [status |-> 200, done |-> TRUE] \in Reply
  /\ [status |-> 403, done |-> FALSE] \in Reply
  /\ [status |-> 415, done |-> FALSE] \in Reply
  BY DEF Reply

\* What the grant table may hold.
LEMMA GrantTypes ==
  /\ NoGrant \in GrantType
  /\ ~NoGrant.live
  /\ \A r \in Request, f \in BOOLEAN :
       /\ Grant(r, f) \in GrantType
       /\ Grant(r, f).live
       /\ Grant(r, f).ask = r
       /\ Grant(r, f).fresh = f
  /\ \A g \in GrantType :
       /\ g.live \in BOOLEAN
       /\ g.live => g.ask \in Request /\ g.fresh \in BOOLEAN
<1>1. NoGrant \in GrantType /\ ~NoGrant.live
  BY DEF GrantType, NoGrant
<1>2. ASSUME NEW r \in Request, NEW f \in BOOLEAN
      PROVE  /\ Grant(r, f) \in GrantType
             /\ Grant(r, f).live
             /\ Grant(r, f).ask = r
             /\ Grant(r, f).fresh = f
  BY DEF GrantType, Grant
<1>3. ASSUME NEW g \in GrantType
      PROVE  /\ g.live \in BOOLEAN
             /\ g.live => g.ask \in Request /\ g.fresh \in BOOLEAN
  <2>1. CASE g = NoGrant
    BY <2>1 DEF NoGrant
  <2>2. CASE g \in [live : {TRUE}, ask : Request, fresh : BOOLEAN]
    BY <2>2
  <2> QED
    BY <2>1, <2>2 DEF GrantType
<1> QED
  BY <1>1, <1>2, <1>3

\* Init has the types.
LEMMA TypeInit == Init => TypeOK
<1> SUFFICES ASSUME Init PROVE TypeOK
  OBVIOUS
<1>1. /\ grants \in [Peers -> GrantType]
      /\ reply \in [Conns -> Reply]
  BY GrantTypes, ReplyTypes DEF Init
<1>2. /\ pc \in [Conns -> Pcs]
      /\ path \in [Conns -> Paths]
      /\ served \in [Conns -> 0 .. MaxRequests - 1]
      /\ completed \in 0 .. CompletedCap
  BY DEF Init, Pcs, Paths
<1>3. queue \in Seq(Request)
  BY DEF Init
<1> QED
  BY <1>1, <1>2, <1>3 DEF Init, TypeOK

\* Every step keeps the types.
LEMMA TypeStep == TypeOK /\ [Next]_vars => TypeOK'
<1> SUFFICES ASSUME TypeOK, [Next]_vars PROVE TypeOK'
  OBVIOUS
<1> USE DEF winVars, connVars, askVars, grantVars, storeVars
<1>a. \A c \in Conns : Rid(c) \in Request
  BY RidType
<1>b. /\ pc \in [Conns -> Pcs] /\ reply \in [Conns -> Reply]
      /\ served \in [Conns -> 0 .. MaxRequests - 1]
      /\ queue \in Seq(Request) /\ denied \in SUBSET Request
      /\ completed \in 0 .. CompletedCap
  BY DEF TypeOK
<1>1. ASSUME NEW c \in Conns, Accept(c) PROVE TypeOK'
  BY <1>1 DEF TypeOK, Accept, Pcs
<1>2. ASSUME NEW c \in Conns, Join(c) PROVE TypeOK'
  BY <1>2 DEF TypeOK, Join, Pcs
<1>3. ASSUME NEW c \in Conns, TlsEstablished(c) PROVE TypeOK'
  BY <1>3 DEF TypeOK, TlsEstablished, Pcs
<1>4. ASSUME NEW c \in Conns, ConnectionFails(c) PROVE TypeOK'
  BY <1>4 DEF TypeOK, ConnectionFails, Pcs
<1>5. ASSUME NEW c \in Conns, NEW p \in Paths, ReadHead(c, p) PROVE TypeOK'
  BY <1>5 DEF TypeOK, ReadHead, Pcs
<1>6. ASSUME NEW c \in Conns, AuthorizeUpload(c) PROVE TypeOK'
  <2>1. PeerOf[c] \in Peers /\ grants[PeerOf[c]] \in GrantType
    BY DEF TypeOK
  <2>2. consumed' \in SUBSET [upload : Request, ask : Request]
    <3>1. CASE ~Usable(grants[PeerOf[c]])
      BY <1>6, <3>1 DEF TypeOK, AuthorizeUpload
    <3>2. CASE Usable(grants[PeerOf[c]])
      <4>1. grants[PeerOf[c]].ask \in Request
        BY <2>1, <3>2, GrantTypes DEF Usable
      <4>2. [upload |-> Rid(c), ask |-> grants[PeerOf[c]].ask]
              \in [upload : Request, ask : Request]
        BY <4>1, <1>a
      <4> QED
        BY <1>6, <3>2, <4>2 DEF TypeOK, AuthorizeUpload
    <3> QED
      BY <3>1, <3>2
  <2>3. grants' \in [Peers -> GrantType]
    BY <1>6, <2>1, GrantTypes DEF TypeOK, AuthorizeUpload, WithoutGrant
  <2>4. pc' \in [Conns -> Pcs] /\ path' \in [Conns -> Paths]
    BY <1>6 DEF TypeOK, AuthorizeUpload, Pcs, Paths
  <2> QED
    BY <1>6, <2>2, <2>3, <2>4 DEF TypeOK, AuthorizeUpload
<1>7. ASSUME NEW c \in Conns, Discover(c) PROVE TypeOK'
  <2>1. pc' \in [Conns -> Pcs]
    BY <1>7, <1>b DEF Discover, Answering, Pcs
  <2>2. reply' \in [Conns -> Reply]
    <3>1. reply' = [reply EXCEPT ![c] = [status |-> 200, done |-> FALSE]]
      BY <1>7 DEF Discover, Answering
    <3>2. [status |-> 200, done |-> FALSE] \in Reply
      BY ReplyTypes
    <3> QED
      BY <3>1, <3>2, <1>b
  <2> QED
    BY <1>7, <2>1, <2>2 DEF TypeOK, Discover
<1>8. ASSUME NEW c \in Conns, NEW l \in BOOLEAN, Ask(c, l) PROVE TypeOK'
  <2>1. pc' \in [Conns -> Pcs]
    BY <1>8, <1>b DEF Ask, Answering, Pcs
  <2>2. reply' \in [Conns -> Reply]
    <3>1. reply' = reply \/ reply' = [reply EXCEPT ![c] = [status |-> 403, done |-> FALSE]]
      BY <1>8 DEF Ask, Answering
    <3>2. [status |-> 403, done |-> FALSE] \in Reply
      BY ReplyTypes
    <3>3. CASE reply' = reply
      BY <3>3, <1>b
    <3>4. CASE reply' = [reply EXCEPT ![c] = [status |-> 403, done |-> FALSE]]
      BY <3>2, <3>4, <1>b
    <3> QED
      BY <3>1, <3>3, <3>4
  <2>3. Append(queue, Rid(c)) \in Seq(Request)
    BY <1>a, <1>b
  <2>4. queue' \in Seq(Request)
    BY <1>8, <1>b, <2>3 DEF Ask
  <2>5. denied' \subseteq denied \cup {Rid(c)}
    BY <1>8 DEF Ask
  <2>6. denied' \in SUBSET Request
    BY <1>a, <1>b, <2>5
  <2> QED
    BY <1>8, <2>1, <2>2, <2>4, <2>6 DEF TypeOK, Ask
<1>9. ASSUME NEW c \in Conns, AskDecided(c) PROVE TypeOK'
  <2>1. pc' \in [Conns -> Pcs]
    BY <1>9, <1>b DEF AskDecided, Answering, Pcs
  <2>2. reply' \in [Conns -> Reply]
    <3>1. reply' = reply \/ reply' = [reply EXCEPT ![c] = [status |-> 403, done |-> FALSE]]
      BY <1>9 DEF AskDecided, Answering
    <3>2. [status |-> 403, done |-> FALSE] \in Reply
      BY ReplyTypes
    <3>3. CASE reply' = reply
      BY <3>3, <1>b
    <3>4. CASE reply' = [reply EXCEPT ![c] = [status |-> 403, done |-> FALSE]]
      BY <3>2, <3>4, <1>b
    <3> QED
      BY <3>1, <3>3, <3>4
  <2> QED
    BY <1>9, <2>1, <2>2, <1>a DEF TypeOK, AskDecided
<1>10. ASSUME NEW c \in Conns, AskTimesOut(c) PROVE TypeOK'
  <2>1. pc' \in [Conns -> Pcs]
    BY <1>10, <1>b DEF AskTimesOut, Answering, Pcs
  <2>2. reply' \in [Conns -> Reply]
    <3>1. reply' = [reply EXCEPT ![c] = [status |-> 403, done |-> FALSE]]
      BY <1>10 DEF AskTimesOut, Answering
    <3>2. [status |-> 403, done |-> FALSE] \in Reply
      BY ReplyTypes
    <3> QED
      BY <3>1, <3>2, <1>b
  <2> QED
    BY <1>10, <1>a, <2>1, <2>2 DEF TypeOK, AskTimesOut
<1>11. ASSUME NEW c \in Conns, DeliverLinks(c) PROVE TypeOK'
  <2>1. pc' \in [Conns -> Pcs]
    BY <1>11, <1>b DEF DeliverLinks, Answering, Pcs
  <2>2. reply' \in [Conns -> Reply]
    <3>1. reply' = reply \/ reply' = [reply EXCEPT ![c] = [status |-> 200, done |-> TRUE]]
      BY <1>11 DEF DeliverLinks, Answering
    <3>2. [status |-> 200, done |-> TRUE] \in Reply
      BY ReplyTypes
    <3>3. CASE reply' = reply
      BY <3>3, <1>b
    <3>4. CASE reply' = [reply EXCEPT ![c] = [status |-> 200, done |-> TRUE]]
      BY <3>2, <3>4, <1>b
    <3> QED
      BY <3>1, <3>3, <3>4
  <2>3. stored' \in SUBSET Request
    <3>1. stored' = stored \/ stored' = stored \cup {Rid(c)}
      BY <1>11 DEF DeliverLinks
    <3>2. Rid(c) \in Request /\ stored \in SUBSET Request
      BY <1>11, <1>a DEF TypeOK
    <3> QED
      BY <3>1, <3>2
  <2>4. UNCHANGED <<winVars, served, path, links, askVars, grantVars, job>>
    BY <1>11 DEF DeliverLinks
  <2> QED
    BY <2>1, <2>2, <2>3, <2>4 DEF TypeOK
<1>12. ASSUME NEW c \in Conns, GrantUpload(c) PROVE TypeOK'
  <2>1. pc' \in [Conns -> Pcs]
    BY <1>12, <1>b DEF GrantUpload, Answering, Pcs
  <2>2. reply' \in [Conns -> Reply]
    <3>1. reply' = reply \/ reply' = [reply EXCEPT ![c] = [status |-> 200, done |-> FALSE]]
      BY <1>12 DEF GrantUpload, Answering
    <3>2. [status |-> 200, done |-> FALSE] \in Reply
      BY ReplyTypes
    <3>3. CASE reply' = reply
      BY <3>3, <1>b
    <3>4. CASE reply' = [reply EXCEPT ![c] = [status |-> 200, done |-> FALSE]]
      BY <3>2, <3>4, <1>b
    <3> QED
      BY <3>1, <3>3, <3>4
  <2>3. Retained \in [Peers -> GrantType]
    BY GrantTypes DEF TypeOK, Retained
  <2>4. Grant(Rid(c), TRUE) \in GrantType
    BY <1>a, GrantTypes
  <2>5. grants' \in [Peers -> GrantType]
    BY <1>12, <2>3, <2>4 DEF GrantUpload
  <2> QED
    BY <1>12, <2>1, <2>2, <2>5 DEF TypeOK, GrantUpload
<1>13. ASSUME NEW c \in Conns, Upload(c) PROVE TypeOK'
  <2>1. pc' \in [Conns -> Pcs]
    BY <1>13, <1>b DEF Upload, Answering, Pcs
  <2>2. reply' \in [Conns -> Reply]
    <3>1. reply' = reply \/ reply' = [reply EXCEPT ![c] = [status |-> 415, done |-> FALSE]]
      BY <1>13 DEF Upload, Answering
    <3>2. [status |-> 415, done |-> FALSE] \in Reply
      BY ReplyTypes
    <3>3. CASE reply' = reply
      BY <3>3, <1>b
    <3>4. CASE reply' = [reply EXCEPT ![c] = [status |-> 415, done |-> FALSE]]
      BY <3>2, <3>4, <1>b
    <3> QED
      BY <3>1, <3>3, <3>4
  <2> QED
    BY <1>13, <2>1, <2>2 DEF TypeOK, Upload
<1>14. ASSUME NEW c \in Conns, UploadStored(c) PROVE TypeOK'
  <2>1. pc' \in [Conns -> Pcs]
    BY <1>14, <1>b DEF UploadStored, Answering, Pcs
  <2>2. reply' \in [Conns -> Reply]
    <3>1. reply' = reply \/ reply' = [reply EXCEPT ![c] = [status |-> 200, done |-> TRUE]]
      BY <1>14 DEF UploadStored, Answering
    <3>2. [status |-> 200, done |-> TRUE] \in Reply
      BY ReplyTypes
    <3>3. CASE reply' = reply
      BY <3>3, <1>b
    <3>4. CASE reply' = [reply EXCEPT ![c] = [status |-> 200, done |-> TRUE]]
      BY <3>2, <3>4, <1>b
    <3> QED
      BY <3>1, <3>3, <3>4
  <2> QED
    BY <1>14, <2>1, <2>2 DEF TypeOK, UploadStored
<1>15. ASSUME NEW c \in Conns, Respond(c) PROVE TypeOK'
  <2>1. served' \in [Conns -> 0 .. MaxRequests - 1]
    <3>1. CASE UNCHANGED served
      BY <1>b, <3>1
    <3>2. CASE ~LastRequest(c) /\ served' = [served EXCEPT ![c] = @ + 1]
      <4>1. served[c] + 1 \in 0 .. MaxRequests - 1
        BY <1>b, <3>2 DEF LastRequest
      <4> QED
        BY <1>b, <3>2, <4>1
    <3> QED
      BY <1>15, <3>1, <3>2 DEF Respond
  <2>2. completed' \in 0 .. CompletedCap
    BY <1>15, <1>b DEF Respond, Report
  <2>3. reported' \in BOOLEAN
    BY <1>15 DEF Respond
  <2>4. pc' \in [Conns -> Pcs]
    BY <1>15, <1>b DEF Respond, Pcs
  <2>5. UNCHANGED <<run, path, links, reply, askVars, grantVars, storeVars>>
    BY <1>15 DEF Respond
  <2> QED
    BY <2>1, <2>2, <2>3, <2>4, <2>5 DEF TypeOK
<1>16. ASSUME NEW c \in Conns, JobEnds(c) PROVE TypeOK'
  BY <1>16, <1>a DEF TypeOK, JobEnds
<1>17. ASSUME Close, completed' \in 0 .. CompletedCap, UNCHANGED reported PROVE TypeOK'
  <2>1. pc' \in [Conns -> Pcs]
    BY <1>17, <1>b DEF Close, Pcs
  <2>2. grants' \in [Peers -> GrantType]
    BY <1>17, GrantTypes DEF Close
  <2> QED
    BY <1>17, <2>1, <2>2 DEF TypeOK, Close
<1>18. CASE WindowEnds
  BY <1>17, <1>18 DEF TypeOK, WindowEnds
<1>19. CASE CompletedReceived
  <2>1. completed' \in 0 .. CompletedCap
    BY <1>19 DEF TypeOK, CompletedReceived
  <2> QED
    BY <1>17, <1>19, <2>1 DEF TypeOK, CompletedReceived
<1>20. CASE TakeAsk
  BY <1>20 DEF TypeOK, TakeAsk
<1>21. ASSUME NEW r \in held, NEW b \in BOOLEAN, Decide(r, b) PROVE TypeOK'
  BY <1>21 DEF TypeOK, Decide
<1>22. ASSUME NEW p \in Peers, GrantAges(p) PROVE TypeOK'
  <2>1. grants[p].ask \in Request
    BY <1>22, GrantTypes DEF TypeOK, GrantAges, Usable
  <2> QED
    BY <1>22, <2>1, GrantTypes DEF TypeOK, GrantAges
<1>23. CASE UNCHANGED vars
  BY <1>23 DEF TypeOK, vars
<1> QED
  BY <1>1, <1>2, <1>3, <1>4, <1>5, <1>6, <1>7, <1>8, <1>9, <1>10, <1>11,
     <1>12, <1>13, <1>14, <1>15, <1>16, <1>18, <1>19, <1>20, <1>21,
     <1>22, <1>23 DEF Next, ConnStep

\* Every state of the receive window has its type: the one step that could
\* leave it is the request counter of a connection, which stops in time.
THEOREM TypeCorrect == Spec => []TypeOK
  BY TypeInit, TypeStep, PTL DEF Spec
-----------------------------------------------------------------------------
(* The inductive invariant behind the approval properties.                 *)

\* What is refused or has aged is over.
PastIsSettled == \A r \in denied \cup expired : Settled(r)

\* A grant in the table stands for one accepted Ask of its own address, not
\* used yet.
GrantInv ==
  \A p \in Peers : grants[p].live =>
    /\ PeerOf[grants[p].ask[1]] = p
    /\ Settled(grants[p].ask)
    /\ Approval => grants[p].ask \in approved
    /\ grants[p].ask \notin denied
    /\ grants[p].ask \in expired => ~grants[p].fresh
    /\ \A x \in consumed : x.ask # grants[p].ask

\* So does a grant that has been used.
ConsumedInv ==
  /\ \A x \in consumed : Settled(x.ask)
  /\ UploadsFollowAsks
  /\ GrantsPairUploads
  /\ AgedGrantsNeverUsed

\* An Upload that was let in is being received or stored, or it is over: the
\* headers its connection reads next are another request's.
InProgress(r) ==
  /\ r[2] = served[r[1]]
  /\ path[r[1]] = "Upload" /\ pc[r[1]] \in {"body", "store"}

AdmittedInv == \A x \in consumed : Settled(x.upload) \/ InProgress(x.upload)

\* An Ask goes on only after a yes.
WaitInv ==
  \A c \in Conns :
    /\ Approval /\ pc[c] = "accepted" => Rid(c) \in approved
    /\ pc[c] = "wait" /\ answer[c] = "yes" => Rid(c) \in approved

\* A body that is being received or stored was let in by a grant, and a
\* storage job works for the request its connection is at, even when that
\* connection has been aborted.
JobInv ==
  \A c \in Conns :
    /\ job[c] = "running" => pc[c] \in {"store", "joined"}
    /\ pc[c] = "store" /\ job[c] = "ok" => Rid(c) \in stored
    /\ (pc[c] = "body" /\ path[c] = "Upload") \/ job[c] = "running"
         => \E x \in consumed : x.upload = Rid(c)

ReceiverInv ==
  /\ TypeOK /\ PastIsSettled /\ GrantInv /\ ConsumedInv /\ AdmittedInv /\ WaitInv
  /\ JobInv /\ StoredWasApproved /\ DoneMeansStored

\* How many steps a connection may still take while it serves a request.
Place(l) ==
  CASE l = "none" -> 11 [] l = "refused" -> 10 [] l = "tls" -> 9 [] l = "head" -> 8
    [] l = "body" -> 7 [] l = "wait" -> 6 [] l = "accepted" -> 5 [] l = "store" -> 4
    [] l = "reply" -> 3 [] l = "ended" -> 2 [] OTHER -> 1

\* What a step may do to connection d.
Moves(d) ==
  \/ UNCHANGED <<pc[d], served[d], path[d]>>
  \/ /\ pc[d] = "reply" /\ pc'[d] = "head"
     /\ served'[d] = served[d] + 1
  \/ /\ Place(pc'[d]) < Place(pc[d]) /\ served'[d] = served[d]
     /\ pc[d] = "head" \/ path'[d] = path[d]
     /\ path[d] = "Upload" /\ pc[d] \in {"body", "store"} => pc'[d] \in Past \cup {"store"}

LEMMA ConnMoves ==
  ASSUME TypeOK, [Next]_vars, NEW d \in Conns
  PROVE  Moves(d)
<1>a. /\ served \in [Conns -> 0 .. MaxRequests - 1]
      /\ pc \in [Conns -> Pcs] /\ path \in [Conns -> Paths]
  BY DEF TypeOK
<1> USE DEF winVars, connVars, Past, Place, Moves, Pcs
<1>1. ASSUME NEW c \in Conns, Accept(c) PROVE Moves(d)
  BY <1>1, <1>a DEF Accept
<1>2. ASSUME NEW c \in Conns, Join(c) PROVE Moves(d)
  BY <1>2, <1>a DEF Join
<1>3. ASSUME NEW c \in Conns, TlsEstablished(c) PROVE Moves(d)
  BY <1>3, <1>a DEF TlsEstablished
<1>4. ASSUME NEW c \in Conns, ConnectionFails(c) PROVE Moves(d)
  BY <1>4, <1>a DEF ConnectionFails
<1>5. ASSUME NEW c \in Conns, NEW p \in Paths, ReadHead(c, p) PROVE Moves(d)
  BY <1>5, <1>a DEF ReadHead
<1>6. ASSUME NEW c \in Conns, AuthorizeUpload(c) PROVE Moves(d)
  BY <1>6, <1>a DEF AuthorizeUpload
<1>7. ASSUME NEW c \in Conns, Discover(c) PROVE Moves(d)
  BY <1>7, <1>a DEF Discover, Answering
<1>8. ASSUME NEW c \in Conns, NEW l \in BOOLEAN, Ask(c, l) PROVE Moves(d)
  BY <1>8, <1>a DEF Ask, Answering
<1>9. ASSUME NEW c \in Conns, AskDecided(c) PROVE Moves(d)
  BY <1>9, <1>a DEF AskDecided, Answering
<1>10. ASSUME NEW c \in Conns, AskTimesOut(c) PROVE Moves(d)
  BY <1>10, <1>a DEF AskTimesOut, Answering
<1>11. ASSUME NEW c \in Conns, DeliverLinks(c) PROVE Moves(d)
  BY <1>11, <1>a DEF DeliverLinks, Answering
<1>12. ASSUME NEW c \in Conns, GrantUpload(c) PROVE Moves(d)
  <2>1. /\ pc[c] = "accepted" /\ UNCHANGED <<served, path>>
        /\ pc' = [pc EXCEPT ![c] = "reply"] \/ pc' = [pc EXCEPT ![c] = "ended"]
    BY <1>12 DEF GrantUpload, Answering
  <2> QED
    BY <2>1, <1>a
<1>13. ASSUME NEW c \in Conns, Upload(c) PROVE Moves(d)
  BY <1>13, <1>a DEF Upload, Answering
<1>14. ASSUME NEW c \in Conns, UploadStored(c) PROVE Moves(d)
  BY <1>14, <1>a DEF UploadStored, Answering
<1>15. ASSUME NEW c \in Conns, Respond(c) PROVE Moves(d)
  BY <1>15, <1>a DEF Respond
<1>16. ASSUME NEW c \in Conns, JobEnds(c) PROVE Moves(d)
  BY <1>16, <1>a DEF JobEnds
<1>17. ASSUME Close PROVE Moves(d)
  BY <1>17, <1>a DEF Close
<1>18. ASSUME WindowEnds PROVE Moves(d)
  BY <1>17, <1>18 DEF WindowEnds
<1>19. ASSUME CompletedReceived PROVE Moves(d)
  BY <1>17, <1>19 DEF CompletedReceived
<1>20. ASSUME TakeAsk PROVE Moves(d)
  BY <1>20 DEF TakeAsk
<1>21. ASSUME NEW r \in held, NEW b \in BOOLEAN, Decide(r, b) PROVE Moves(d)
  BY <1>21 DEF Decide
<1>22. ASSUME NEW p \in Peers, GrantAges(p) PROVE Moves(d)
  BY <1>22 DEF GrantAges
<1>23. ASSUME UNCHANGED vars PROVE Moves(d)
  BY <1>23 DEF vars
<1> HIDE DEF Moves
<1> QED
  BY <1>1, <1>2, <1>3, <1>4, <1>5, <1>6, <1>7, <1>8, <1>9, <1>10, <1>11,
     <1>12, <1>13, <1>14, <1>15, <1>16, <1>18, <1>19, <1>20, <1>21, <1>22,
     <1>23 DEF Next, ConnStep

\* A connection never goes back: its request counter grows, or stays with
\* an answered request still answered.
LEMMA ConnProgress ==
  ASSUME TypeOK, [Next]_vars, NEW d \in Conns
  PROVE  /\ served[d] \in Nat /\ served'[d] \in Nat
         /\ \/ served'[d] > served[d]
            \/ served'[d] = served[d] /\ (pc[d] \in Past => pc'[d] \in Past)
<1>1. TypeOK'
  BY TypeStep
<1>2. /\ served[d] \in 0 .. MaxRequests - 1 /\ served'[d] \in 0 .. MaxRequests - 1
      /\ pc[d] \in Pcs /\ pc'[d] \in Pcs
  BY <1>1 DEF TypeOK
<1>3. \A l \in Pcs : Place(l) \in 1 .. 11 /\ (l \in Past <=> Place(l) <= 3)
  BY DEF Place, Past, Pcs
<1>4. Place(pc'[d]) < Place(pc[d]) /\ pc[d] \in Past => pc'[d] \in Past
  BY <1>2, <1>3
<1> QED
  BY <1>2, <1>4, ConnMoves DEF Moves

\* How many steps a connection may still take, the requests that may follow
\* included.
StepsLeft(c) == 10 * (MaxRequests - served[c]) + Place(pc[c])

\* Whatever moves a connection uses one of them up.
Descends ==
  \A c \in Conns :
    /\ StepsLeft(c) \in 1 .. 10 * MaxRequests + 11
    /\ pc'[c] # pc[c] \/ served'[c] # served[c] => StepsLeft(c)' < StepsLeft(c)

\* A connection takes at most 10 * MaxRequests + 10 steps, from the accept to
\* the join: no request sends it back, and no other connection, approver or
\* storage job can make it start anew.  What is left of SlotIsFreed is that
\* each of these steps is taken, which its timers see to.
THEOREM ConnectionsDescend == Spec => [][Descends]_vars
<1>1. TypeOK /\ [Next]_vars => [Descends]_vars
  <2> SUFFICES ASSUME TypeOK, [Next]_vars, NEW c \in Conns
               PROVE  /\ StepsLeft(c) \in 1 .. 10 * MaxRequests + 11
                      /\ pc'[c] # pc[c] \/ served'[c] # served[c] => StepsLeft(c)' < StepsLeft(c)
    BY DEF Descends
  <2>1. TypeOK'
    BY TypeStep
  <2>2. /\ served[c] \in 0 .. MaxRequests - 1 /\ served'[c] \in 0 .. MaxRequests - 1
        /\ pc[c] \in Pcs /\ pc'[c] \in Pcs
    BY <2>1 DEF TypeOK
  <2>3. /\ \A l \in Pcs : Place(l) \in 1 .. 11
        /\ Place("reply") = 3 /\ Place("head") = 8
    BY DEF Place, Pcs
  <2>4. StepsLeft(c)' = 10 * (MaxRequests - served'[c]) + Place(pc'[c])
    BY DEF StepsLeft
  <2>5. StepsLeft(c) \in 1 .. 10 * MaxRequests + 11
    BY <2>2, <2>3 DEF StepsLeft
  <2>6. /\ Place(pc[c]) \in 1 .. 11 /\ Place(pc'[c]) \in 1 .. 11
        /\ pc[c] = "reply" => Place(pc[c]) = 3
        /\ pc'[c] = "head" => Place(pc'[c]) = 8
    BY <2>2, <2>3
  <2>7. Moves(c)
    BY ConnMoves
  <2> QED
    BY <2>2, <2>4, <2>5, <2>6, <2>7 DEF Moves, StepsLeft
<1> QED
  BY <1>1, TypeCorrect, PTL DEF Spec

\* Hence what is settled stays settled.
LEMMA SettledStable ==
  ASSUME TypeOK, [Next]_vars, NEW r \in Request, Settled(r)
  PROVE  Settled(r)'
<1>1. r[1] \in Conns /\ r[2] \in Nat
  BY DEF Request
<1> QED
  BY <1>1, ConnProgress DEF Settled, Past

\* The request a connection is still working on is not settled.
LEMMA CurrentNotSettled ==
  ASSUME TypeOK, NEW c \in Conns, pc[c] \notin Past
  PROVE  ~Settled(Rid(c))
  BY DEF TypeOK, Settled, Rid, Past

\* It is once the response is on its way.
LEMMA AnsweredSettled ==
  ASSUME NEW c \in Conns, pc'[c] \in Past, served' = served
  PROVE  Settled(Rid(c))'
  BY DEF Settled, Rid, Past
-----------------------------------------------------------------------------
(* What a step can do to the grants and to the histories.                  *)

Denies(c) ==
  /\ pc[c] \notin Past /\ pc'[c] \in Past /\ served' = served
  /\ denied' = denied \cup {Rid(c)}
  /\ UNCHANGED <<grants, expired, consumed, approved>>

GrantStep ==
  \/ UNCHANGED <<grants, denied, expired, consumed, approved>>
  \/ \E c \in Conns : AuthorizeUpload(c) \/ GrantUpload(c) \/ Denies(c)
  \/ \E p \in Peers : GrantAges(p)
  \/ Close
  \/ approved \subseteq approved' /\ UNCHANGED <<grants, denied, expired, consumed>>

\* Every step is one of these.
LEMMA GrantSteps ==
  ASSUME TypeOK, [Next]_vars
  PROVE  GrantStep
<1>a. pc \in [Conns -> Pcs]
  BY DEF TypeOK
<1> USE DEF GrantStep, askVars, grantVars
<1>1. ASSUME NEW c \in Conns, Accept(c) PROVE GrantStep
  BY <1>1 DEF Accept
<1>2. ASSUME NEW c \in Conns, Join(c) PROVE GrantStep
  BY <1>2 DEF Join
<1>3. ASSUME NEW c \in Conns, TlsEstablished(c) PROVE GrantStep
  BY <1>3 DEF TlsEstablished
<1>4. ASSUME NEW c \in Conns, ConnectionFails(c) PROVE GrantStep
  BY <1>4 DEF ConnectionFails
<1>5. ASSUME NEW c \in Conns, NEW p \in Paths, ReadHead(c, p) PROVE GrantStep
  BY <1>5 DEF ReadHead
<1>6. ASSUME NEW c \in Conns, AuthorizeUpload(c) PROVE GrantStep
  BY <1>6 DEF AuthorizeUpload
<1>7. ASSUME NEW c \in Conns, Discover(c) PROVE GrantStep
  BY <1>7 DEF Discover
<1>8. ASSUME NEW c \in Conns, NEW l \in BOOLEAN, Ask(c, l) PROVE GrantStep
  BY <1>8, <1>a DEF Ask, Answering, Denies, Past, winVars
<1>9. ASSUME NEW c \in Conns, AskDecided(c) PROVE GrantStep
  BY <1>9, <1>a DEF AskDecided, Answering, Denies, Past, winVars
<1>10. ASSUME NEW c \in Conns, AskTimesOut(c) PROVE GrantStep
  BY <1>10, <1>a DEF AskTimesOut, Answering, Denies, Past, winVars
<1>11. ASSUME NEW c \in Conns, DeliverLinks(c) PROVE GrantStep
  BY <1>11 DEF DeliverLinks
<1>12. ASSUME NEW c \in Conns, GrantUpload(c) PROVE GrantStep
  BY <1>12 DEF GrantUpload
<1>13. ASSUME NEW c \in Conns, Upload(c) PROVE GrantStep
  BY <1>13 DEF Upload
<1>14. ASSUME NEW c \in Conns, UploadStored(c) PROVE GrantStep
  BY <1>14 DEF UploadStored
<1>15. ASSUME NEW c \in Conns, Respond(c) PROVE GrantStep
  BY <1>15 DEF Respond
<1>16. ASSUME NEW c \in Conns, JobEnds(c) PROVE GrantStep
  BY <1>16 DEF JobEnds
<1>17. ASSUME Close PROVE GrantStep
  BY <1>17 DEF Close
<1>18. ASSUME WindowEnds PROVE GrantStep
  BY <1>17, <1>18 DEF WindowEnds
<1>19. ASSUME CompletedReceived PROVE GrantStep
  BY <1>17, <1>19 DEF CompletedReceived
<1>20. ASSUME TakeAsk PROVE GrantStep
  BY <1>20 DEF TakeAsk
<1>21. ASSUME NEW r \in held, NEW b \in BOOLEAN, Decide(r, b) PROVE GrantStep
  BY <1>21 DEF Decide
<1>22. ASSUME NEW p \in Peers, GrantAges(p) PROVE GrantStep
  BY <1>22 DEF GrantAges
<1>23. ASSUME UNCHANGED vars PROVE GrantStep
  BY <1>23 DEF vars
<1> QED
  BY <1>1, <1>2, <1>3, <1>4, <1>5, <1>6, <1>7, <1>8, <1>9, <1>10, <1>11,
     <1>12, <1>13, <1>14, <1>15, <1>16, <1>18, <1>19, <1>20, <1>21, <1>22,
     <1>23 DEF Next, ConnStep

\* The Ask of a live grant is a request.
LEMMA GrantAsk ==
  ASSUME TypeOK, NEW p \in Peers, grants[p].live
  PROVE  grants[p].ask \in Request /\ grants[p].fresh \in BOOLEAN
<1>1. grants[p] \in GrantType
  BY DEF TypeOK
<1> QED
  BY <1>1, GrantTypes

\* PastIsSettled is inductive: a refusal answers its request, and only an
\* Ask that was answered has a grant that can age.
LEMMA PastStep ==
  ASSUME TypeOK, PastIsSettled, GrantInv, [Next]_vars
  PROVE  PastIsSettled'
<1>1. \A r \in denied \cup expired : Settled(r)'
  BY SettledStable DEF PastIsSettled, TypeOK
<1>2. SUFFICES ASSUME NEW r \in (denied \cup expired)', r \notin denied \cup expired
               PROVE  Settled(r)'
  BY <1>1 DEF PastIsSettled
<1>3. ASSUME NEW c \in Conns, Denies(c) PROVE Settled(r)'
  <2>1. r = Rid(c)
    BY <1>2, <1>3 DEF Denies
  <2> QED
    BY <1>3, <2>1, AnsweredSettled DEF Denies, Rid
<1>4. ASSUME NEW p \in Peers, GrantAges(p) PROVE Settled(r)'
  <2>1. r = grants[p].ask /\ grants[p].live
    BY <1>2, <1>4 DEF GrantAges, Usable, askVars
  <2> QED
    BY <2>1, GrantAsk, SettledStable DEF GrantInv
<1>5. ASSUME NEW c \in Conns, AuthorizeUpload(c) \/ GrantUpload(c) PROVE FALSE
  BY <1>2, <1>5 DEF AuthorizeUpload, GrantUpload, askVars
<1>6. ASSUME Close PROVE FALSE
  BY <1>2, <1>6 DEF Close
<1> QED
  BY <1>2, <1>3, <1>4, <1>5, <1>6, GrantSteps DEF GrantStep

\* What the invariant says of one address's grant.
GrantGood(p) ==
  grants[p].live =>
    /\ PeerOf[grants[p].ask[1]] = p
    /\ Settled(grants[p].ask)
    /\ Approval => grants[p].ask \in approved
    /\ grants[p].ask \notin denied
    /\ grants[p].ask \in expired => ~grants[p].fresh
    /\ \A x \in consumed : x.ask # grants[p].ask

\* GrantInv is inductive: the Ask that gets a grant has just been accepted
\* and is in none of the histories, because those are settled.
LEMMA GrantInvStep ==
  ASSUME ReceiverInv, [Next]_vars
  PROVE  GrantInv'
<1> SUFFICES ASSUME NEW p \in Peers, (grants[p].live)' PROVE GrantGood(p)'
  BY DEF GrantInv, GrantGood
<1>a. TypeOK /\ GrantInv /\ PastIsSettled /\ ConsumedInv /\ WaitInv
  BY DEF ReceiverInv
<1>b. ASSUME NEW q \in Peers, grants[q].live, NEW a, a = grants[q].ask
      PROVE  a \in Request /\ Settled(a)' /\ GrantGood(q)
  <2>1. GrantGood(q) /\ a \in Request
    BY <1>a, <1>b, GrantAsk DEF GrantInv, GrantGood
  <2>2. Settled(a)
    BY <1>b, <2>1 DEF GrantGood
  <2> QED
    BY <1>a, <2>1, <2>2, SettledStable
<1>1. CASE UNCHANGED <<grants, denied, expired, consumed, approved>>
  BY <1>1, <1>b DEF GrantGood
<1>2. ASSUME NEW c \in Conns, AuthorizeUpload(c) PROVE GrantGood(p)'
  <2>1. p # PeerOf[c] /\ grants[p].live /\ grants'[p] = grants[p]
    BY <1>2, <1>a, GrantTypes DEF AuthorizeUpload, WithoutGrant, TypeOK
  <2>2. UNCHANGED <<denied, expired, approved>>
    BY <1>2 DEF AuthorizeUpload, askVars
  <2>3. ASSUME NEW x \in consumed' PROVE x.ask # grants[p].ask
    <3>1. CASE x \in consumed
      BY <3>1, <2>1, <1>b DEF GrantGood
    <3>2. CASE x \notin consumed
      <4>1. /\ x.ask = grants[PeerOf[c]].ask
            /\ grants[PeerOf[c]].live
        BY <3>2, <1>2 DEF AuthorizeUpload, Usable
      <4> QED
        BY <4>1, <2>1, <1>b DEF GrantGood
    <3> QED
      BY <3>1, <3>2
  <2> QED
    BY <2>1, <2>2, <2>3, <1>b DEF GrantGood
<1>3. ASSUME NEW c \in Conns, GrantUpload(c) PROVE GrantGood(p)'
  <2>1. UNCHANGED <<denied, expired, approved, consumed>>
    BY <1>3 DEF GrantUpload, askVars
  <2>2. CASE grants[p].live /\ grants'[p] = grants[p]
    BY <2>1, <2>2, <1>b DEF GrantGood
  <2>3. CASE p = PeerOf[c] /\ grants'[p] = Grant(Rid(c), TRUE)
    <3>1. /\ Rid(c) \in Request /\ Rid(c)[1] = c
          /\ grants'[p].ask = Rid(c)
      <4>1. Rid(c) \in Request /\ Rid(c)[1] = c
        BY <1>a, RidType DEF Rid
      <4>2. Grant(Rid(c), TRUE).ask = Rid(c)
        BY <4>1, GrantTypes
      <4> QED
        BY <2>3, <4>1, <4>2
    <3>2. ~Settled(Rid(c))
      BY <1>3, <1>a, CurrentNotSettled DEF GrantUpload, Past
    <3>3. Settled(Rid(c))'
      <4>1. pc'[c] \in Past /\ served' = served
        BY <1>3, <1>a DEF GrantUpload, Answering, Past, TypeOK
      <4> QED
        BY <4>1, AnsweredSettled
    <3>4. Rid(c)' = Rid(c)
      BY <1>3 DEF GrantUpload, Rid
    <3>5. /\ Rid(c) \notin denied /\ Rid(c) \notin expired
          /\ \A x \in consumed : x.ask # Rid(c)
      BY <3>2, <1>a DEF PastIsSettled, ConsumedInv
    <3>6. Approval => Rid(c) \in approved
      BY <1>3, <1>a DEF GrantUpload, WaitInv
    <3> QED
      BY <2>1, <2>3, <3>1, <3>3, <3>4, <3>5, <3>6 DEF GrantGood
  <2>4. Retained[p].live => grants[p].live /\ Retained[p] = grants[p]
    BY GrantTypes DEF Retained, Usable
  <2>5. Retained \in [Peers -> GrantType]
    BY <1>a, GrantTypes DEF TypeOK, Retained
  <2>6. \/ grants'[p] = Retained[p]
        \/ p = PeerOf[c] /\ grants'[p] = Grant(Rid(c), TRUE)
    BY <1>3, <2>5 DEF GrantUpload
  <2> QED
    BY <2>2, <2>3, <2>4, <2>6
<1>4. ASSUME NEW c \in Conns, Denies(c) PROVE GrantGood(p)'
  <2>1. grants[p].live /\ Rid(c) # grants[p].ask
    BY <1>4, <1>a, <1>b, CurrentNotSettled DEF Denies, GrantGood
  <2> QED
    BY <1>4, <2>1, <1>b DEF Denies, GrantGood
<1>5. ASSUME NEW q \in Peers, GrantAges(q) PROVE GrantGood(p)'
  <2>1. UNCHANGED <<denied, approved, consumed>>
    BY <1>5 DEF GrantAges, askVars
  <2>2. grants[q].live /\ expired' = expired \cup {grants[q].ask}
    BY <1>5 DEF GrantAges, Usable
  <2>3. CASE p = q
    <3>1. grants'[p] = Grant(grants[p].ask, FALSE)
      BY <1>5, <1>a, <2>3 DEF GrantAges, TypeOK
    <3>2. grants[p].ask \in Request
      BY <1>a, <2>2, <2>3, GrantAsk
    <3>3. grants'[p].ask = grants[p].ask /\ ~grants'[p].fresh
      <4>1. /\ Grant(grants[p].ask, FALSE).ask = grants[p].ask
            /\ Grant(grants[p].ask, FALSE).fresh = FALSE
        BY <3>2, GrantTypes
      <4> QED
        BY <3>1, <4>1
    <3> QED
      BY <2>1, <2>2, <2>3, <3>3, <1>b DEF GrantGood
  <2>4. CASE p # q
    <3>1. grants'[p] = grants[p]
      BY <1>5, <2>4, <1>a DEF GrantAges, TypeOK
    <3>2. grants[p].ask # grants[q].ask
      BY <2>2, <2>4, <3>1, <1>b DEF GrantGood
    <3> QED
      BY <2>1, <2>2, <3>1, <3>2, <1>b DEF GrantGood
  <2> QED
    BY <2>3, <2>4
<1>6. ASSUME Close PROVE GrantGood(p)'
  BY <1>6, GrantTypes DEF Close, GrantGood
<1>7. CASE approved \subseteq approved' /\ UNCHANGED <<grants, denied, expired, consumed>>
  BY <1>7, <1>b DEF GrantGood
<1> QED
  BY <1>a, <1>1, <1>2, <1>3, <1>4, <1>5, <1>6, <1>7, GrantSteps DEF GrantStep

\* No Upload has been let in for the request whose headers are being read.
LEMMA NothingAdmitted ==
  ASSUME TypeOK, AdmittedInv, NEW c \in Conns, pc[c] = "head", NEW x \in consumed
  PROVE  x.upload # Rid(c)
<1>1. ~Settled(Rid(c))
  BY CurrentNotSettled DEF Past
<1>2. ~InProgress(Rid(c))
  BY DEF InProgress, Rid
<1> QED
  BY <1>1, <1>2 DEF AdmittedInv

\* AdmittedInv is inductive: an Upload is received, then stored, then over.
LEMMA AdmittedStep ==
  ASSUME TypeOK, AdmittedInv, [Next]_vars
  PROVE  AdmittedInv'
<1>a. consumed \in SUBSET [upload : Request, ask : Request]
  BY DEF TypeOK
<1>1. ASSUME NEW r \in Request, InProgress(r) PROVE (Settled(r) \/ InProgress(r))'
  <2>1. r[1] \in Conns /\ Moves(r[1])
    BY ConnMoves DEF Request
  <2> QED
    BY <1>1, <2>1 DEF Moves, InProgress, Settled, Past
<1>2. ASSUME NEW x \in consumed PROVE (Settled(x.upload) \/ InProgress(x.upload))'
  <2>1. PICK r \in Request : r = x.upload
    BY <1>a, <1>2
  <2>2. (Settled(r) \/ InProgress(r))'
    BY <1>1, <2>1, SettledStable DEF AdmittedInv
  <2> QED
    BY <2>1, <2>2
<1>3. ASSUME NEW c \in Conns, AuthorizeUpload(c), NEW x \in consumed', x \notin consumed
      PROVE  (Settled(x.upload) \/ InProgress(x.upload))'
  <2>1. x.upload = Rid(c) /\ pc' = [pc EXCEPT ![c] = "body"]
    BY <1>3 DEF AuthorizeUpload
  <2>2. path' = [path EXCEPT ![c] = "Upload"] /\ served' = served
    BY <1>3 DEF AuthorizeUpload
  <2>3. pc'[c] = "body" /\ path'[c] = "Upload"
    BY <2>1, <2>2 DEF TypeOK
  <2>4. x.upload[1] = c /\ x.upload[2] = served[c]
    BY <2>1 DEF Rid
  <2> QED
    BY <2>2, <2>3, <2>4 DEF InProgress
<1>4. ASSUME ~\E c \in Conns : AuthorizeUpload(c) PROVE consumed' = consumed
  BY <1>4, GrantSteps DEF GrantStep, GrantUpload, Denies, GrantAges, Close
<1> QED
  BY <1>2, <1>3, <1>4 DEF AdmittedInv

\* ConsumedInv is inductive: a grant is taken out of the table when it is
\* used, so its Ask can neither be used again nor age.
LEMMA ConsumedStep ==
  ASSUME ReceiverInv, [Next]_vars
  PROVE  ConsumedInv'
<1>a. /\ TypeOK /\ GrantInv /\ ConsumedInv /\ AdmittedInv
      /\ consumed \in SUBSET [upload : Request, ask : Request]
  BY DEF ReceiverInv, TypeOK
<1>b. ASSUME NEW x \in consumed
      PROVE  /\ Settled(x.ask)' /\ x.ask \in Request
             /\ Settled(x.ask)
             /\ Approval => x.ask \in approved
             /\ x.ask \notin denied /\ x.ask \notin expired
             /\ PeerOf[x.ask[1]] = PeerOf[x.upload[1]]
  BY <1>a, SettledStable DEF ConsumedInv, UploadsFollowAsks, AgedGrantsNeverUsed
<1> DEFINE Good(x) == /\ Settled(x.ask)
                      /\ Approval => x.ask \in approved
                      /\ x.ask \notin denied /\ x.ask \notin expired
                      /\ PeerOf[x.ask[1]] = PeerOf[x.upload[1]]
<1>c. SUFFICES (\A x \in consumed : Good(x))' /\ GrantsPairUploads'
  BY DEF ConsumedInv, UploadsFollowAsks, AgedGrantsNeverUsed
<1>d. GrantsPairUploads
  BY <1>a DEF ConsumedInv
<1>1. ASSUME UNCHANGED consumed PROVE GrantsPairUploads'
  BY <1>1, <1>d DEF GrantsPairUploads
<1>2. ASSUME NEW c \in Conns, AuthorizeUpload(c)
      PROVE  (\A x \in consumed : Good(x))' /\ GrantsPairUploads'
  <2> DEFINE g == grants[PeerOf[c]]
             new == [upload |-> Rid(c), ask |-> g.ask]
  <2>1. UNCHANGED <<denied, expired, approved>>
    BY <1>2 DEF AuthorizeUpload, askVars
  <2>2. ASSUME NEW x \in consumed PROVE Good(x)'
    BY <2>1, <1>b
  <2>3. CASE consumed' = consumed
    BY <2>2, <2>3, <1>1
  <2>4. CASE consumed' = consumed \cup {new} /\ g.live /\ g.fresh
    <3>1. /\ PeerOf[c] \in Peers /\ g.ask \in Request
          /\ PeerOf[g.ask[1]] = PeerOf[c] /\ Settled(g.ask)
          /\ Approval => g.ask \in approved
          /\ g.ask \notin denied /\ g.ask \notin expired
          /\ \A x \in consumed : x.ask # g.ask
      BY <1>a, <2>4, GrantAsk DEF GrantInv
    <3>2. PICK a \in Request : a = g.ask
      BY <3>1
    <3>3. Settled(a)'
      BY <1>a, <3>1, <3>2, SettledStable
    <3>4. PICK n : n = new
      OBVIOUS
    <3>5. n.ask = a /\ n.upload = Rid(c) /\ n.upload[1] = c
      BY <3>2, <3>4 DEF Rid
    <3>6. Good(n)'
      BY <2>1, <3>1, <3>2, <3>3, <3>5
    <3>7. /\ consumed' = consumed \cup {n}
          /\ \A x \in consumed : x.ask # n.ask /\ x.upload # n.upload
      BY <1>a, <1>2, <2>4, <3>1, <3>2, <3>4, <3>5, NothingAdmitted DEF AuthorizeUpload
    <3>8. GrantsPairUploads'
      BY <1>d, <3>7 DEF GrantsPairUploads
    <3> QED
      BY <2>2, <3>6, <3>7, <3>8
  <2> QED
    BY <1>2, <2>3, <2>4 DEF AuthorizeUpload, Usable
<1>3. ASSUME UNCHANGED <<consumed, expired, denied>>, approved \subseteq approved'
      PROVE  (\A x \in consumed : Good(x))'
  BY <1>3, <1>b
<1>4. ASSUME NEW c \in Conns, Denies(c) PROVE (\A x \in consumed : Good(x))'
  <2>1. ASSUME NEW x \in consumed PROVE x.ask # Rid(c)
    BY <1>4, <1>a, <1>b, CurrentNotSettled DEF Denies
  <2> QED
    BY <1>4, <1>b, <2>1 DEF Denies
<1>5. ASSUME NEW p \in Peers, GrantAges(p) PROVE (\A x \in consumed : Good(x))'
  <2>1. grants[p].live /\ expired' = expired \cup {grants[p].ask}
    BY <1>5 DEF GrantAges, Usable
  <2>2. UNCHANGED <<consumed, denied, approved>>
    BY <1>5 DEF GrantAges, askVars
  <2>3. ASSUME NEW x \in consumed PROVE x.ask # grants[p].ask
    BY <1>a, <2>1 DEF GrantInv
  <2> QED
    BY <1>b, <2>1, <2>2, <2>3
<1> QED
  BY <1>a, <1>1, <1>2, <1>3, <1>4, <1>5, GrantSteps
     DEF GrantStep, Denies, GrantUpload, GrantAges, Close, askVars

\* WaitInv is inductive: a yes reaches the Ask it was given for.
LEMMA WaitStep ==
  ASSUME TypeOK, WaitInv, [Next]_vars
  PROVE  WaitInv'
<1>a. /\ pc \in [Conns -> Pcs] /\ served \in [Conns -> 0 .. MaxRequests - 1]
      /\ answer \in [Conns -> {"none", "yes", "no"}]
      /\ held \in SUBSET Request
  BY DEF TypeOK
<1> USE DEF connVars, askVars
<1>1. ASSUME NEW c \in Conns, Accept(c) PROVE WaitInv'
  BY <1>1, <1>a DEF Accept, WaitInv, Rid
<1>2. ASSUME NEW c \in Conns, Join(c) PROVE WaitInv'
  BY <1>2, <1>a DEF Join, WaitInv, Rid
<1>3. ASSUME NEW c \in Conns, TlsEstablished(c) PROVE WaitInv'
  BY <1>3, <1>a DEF TlsEstablished, WaitInv, Rid
<1>4. ASSUME NEW c \in Conns, ConnectionFails(c) PROVE WaitInv'
  BY <1>4, <1>a DEF ConnectionFails, WaitInv, Rid
<1>5. ASSUME NEW c \in Conns, NEW p \in Paths, ReadHead(c, p) PROVE WaitInv'
  BY <1>5, <1>a DEF ReadHead, WaitInv, Rid
<1>6. ASSUME NEW c \in Conns, AuthorizeUpload(c) PROVE WaitInv'
  BY <1>6, <1>a DEF AuthorizeUpload, WaitInv, Rid
<1>7. ASSUME NEW c \in Conns, Discover(c) PROVE WaitInv'
  BY <1>7, <1>a DEF Discover, Answering, WaitInv, Rid
<1>8. ASSUME NEW c \in Conns, NEW l \in BOOLEAN, Ask(c, l) PROVE WaitInv'
  BY <1>8, <1>a DEF Ask, Answering, WaitInv, Rid
<1>9. ASSUME NEW c \in Conns, AskDecided(c) PROVE WaitInv'
  BY <1>9, <1>a DEF AskDecided, Answering, WaitInv, Rid
<1>10. ASSUME NEW c \in Conns, AskTimesOut(c) PROVE WaitInv'
  BY <1>10, <1>a DEF AskTimesOut, Answering, WaitInv, Rid
<1>11. ASSUME NEW c \in Conns, DeliverLinks(c) PROVE WaitInv'
  BY <1>11, <1>a DEF DeliverLinks, Answering, WaitInv, Rid
<1>12. ASSUME NEW c \in Conns, GrantUpload(c) PROVE WaitInv'
  BY <1>12, <1>a DEF GrantUpload, Answering, WaitInv, Rid
<1>13. ASSUME NEW c \in Conns, Upload(c) PROVE WaitInv'
  BY <1>13, <1>a DEF Upload, Answering, WaitInv, Rid
<1>14. ASSUME NEW c \in Conns, UploadStored(c) PROVE WaitInv'
  BY <1>14, <1>a DEF UploadStored, Answering, WaitInv, Rid
<1>15. ASSUME NEW c \in Conns, Respond(c) PROVE WaitInv'
  BY <1>15, <1>a DEF Respond, WaitInv, Rid
<1>16. ASSUME NEW c \in Conns, JobEnds(c) PROVE WaitInv'
  BY <1>16, <1>a DEF JobEnds, WaitInv, Rid
<1>17. ASSUME Close PROVE WaitInv'
  BY <1>17, <1>a DEF Close, WaitInv, Rid
<1>18. ASSUME WindowEnds PROVE WaitInv'
  BY <1>17, <1>18, <1>a DEF WindowEnds, WaitInv, Rid
<1>19. ASSUME CompletedReceived PROVE WaitInv'
  BY <1>17, <1>19, <1>a DEF CompletedReceived, WaitInv, Rid
<1>20. ASSUME TakeAsk PROVE WaitInv'
  BY <1>20, <1>a DEF TakeAsk, WaitInv, Rid
<1>21. ASSUME NEW r \in held, NEW b \in BOOLEAN, Decide(r, b) PROVE WaitInv'
  BY <1>21, <1>a DEF Decide, Listening, Request, WaitInv, Rid
<1>22. ASSUME NEW p \in Peers, GrantAges(p) PROVE WaitInv'
  BY <1>22, <1>a DEF GrantAges, WaitInv, Rid
<1>23. ASSUME UNCHANGED vars PROVE WaitInv'
  BY <1>23, <1>a DEF vars, WaitInv, Rid
<1> QED
  BY <1>1, <1>2, <1>3, <1>4, <1>5, <1>6, <1>7, <1>8, <1>9, <1>10, <1>11,
     <1>12, <1>13, <1>14, <1>15, <1>16, <1>18, <1>19, <1>20, <1>21, <1>22,
     <1>23 DEF Next, ConnStep

\* JobInv is inductive: a connection whose storage job runs does not serve
\* another request.
LEMMA JobStep ==
  ASSUME TypeOK, JobInv, [Next]_vars
  PROVE  JobInv'
<1>a. /\ pc \in [Conns -> Pcs] /\ served \in [Conns -> 0 .. MaxRequests - 1]
      /\ path \in [Conns -> Paths]
      /\ job \in [Conns -> {"none", "running", "ok", "err"}]
  BY DEF TypeOK
<1> USE DEF connVars, storeVars, grantVars
<1>1. ASSUME NEW c \in Conns, Accept(c) PROVE JobInv'
  BY <1>1, <1>a DEF Accept, JobInv, Rid
<1>2. ASSUME NEW c \in Conns, Join(c) PROVE JobInv'
  BY <1>2, <1>a DEF Join, JobInv, Rid
<1>3. ASSUME NEW c \in Conns, TlsEstablished(c) PROVE JobInv'
  BY <1>3, <1>a DEF TlsEstablished, JobInv, Rid
<1>4. ASSUME NEW c \in Conns, ConnectionFails(c) PROVE JobInv'
  BY <1>4, <1>a DEF ConnectionFails, JobInv, Rid
<1>5. ASSUME NEW c \in Conns, NEW p \in Paths, ReadHead(c, p) PROVE JobInv'
  BY <1>5, <1>a DEF ReadHead, JobInv, Rid
<1>6. ASSUME NEW c \in Conns, AuthorizeUpload(c) PROVE JobInv'
  <2>1. consumed \subseteq consumed' /\ served' = served /\ UNCHANGED storeVars
    BY <1>6 DEF AuthorizeUpload
  <2>2. pc'[c] = "body" => \E x \in consumed' : x.upload = Rid(c)
    <3>1. pc'[c] = "body" => [upload |-> Rid(c), ask |-> grants[PeerOf[c]].ask] \in consumed'
      BY <1>6, <1>a DEF AuthorizeUpload
    <3> QED
      BY <3>1
  <2>3. pc[c] = "head" /\ pc'[c] \in {"body", "ended"}
    BY <1>6, <1>a DEF AuthorizeUpload
  <2>4. \A d \in Conns \ {c} : pc'[d] = pc[d] /\ path'[d] = path[d]
    BY <1>6, <1>a DEF AuthorizeUpload
  <2> QED
    BY <2>1, <2>2, <2>3, <2>4, <1>a DEF JobInv, Rid
<1>7. ASSUME NEW c \in Conns, Discover(c) PROVE JobInv'
  BY <1>7, <1>a DEF Discover, Answering, JobInv, Rid
<1>8. ASSUME NEW c \in Conns, NEW l \in BOOLEAN, Ask(c, l) PROVE JobInv'
  <2>1. /\ pc[c] = "body" /\ pc'[c] \in {"accepted", "wait", "reply"}
        /\ \A d \in Conns \ {c} : pc'[d] = pc[d]
        /\ UNCHANGED <<served, path, consumed, job, stored>>
    BY <1>8, <1>a DEF Ask, Answering
  <2> QED
    BY <2>1, <1>a DEF JobInv, Rid
<1>9. ASSUME NEW c \in Conns, AskDecided(c) PROVE JobInv'
  <2>1. /\ pc[c] = "wait" /\ pc'[c] \in {"accepted", "reply"}
        /\ \A d \in Conns \ {c} : pc'[d] = pc[d]
        /\ UNCHANGED <<served, path, consumed, job, stored>>
    BY <1>9, <1>a DEF AskDecided, Answering
  <2> QED
    BY <2>1, <1>a DEF JobInv, Rid
<1>10. ASSUME NEW c \in Conns, AskTimesOut(c) PROVE JobInv'
  BY <1>10, <1>a DEF AskTimesOut, Answering, JobInv, Rid
<1>11. ASSUME NEW c \in Conns, DeliverLinks(c) PROVE JobInv'
  BY <1>11, <1>a DEF DeliverLinks, Answering, JobInv, Rid
<1>12. ASSUME NEW c \in Conns, GrantUpload(c) PROVE JobInv'
  BY <1>12, <1>a DEF GrantUpload, Answering, JobInv, Rid
<1>13. ASSUME NEW c \in Conns, Upload(c) PROVE JobInv'
  <2>1. /\ \/ pc'[c] = "reply" /\ job' = job
           \/ pc'[c] = "store" /\ job'[c] = "running"
        /\ pc[c] = "body" /\ path[c] = "Upload"
        /\ \A d \in Conns \ {c} : pc'[d] = pc[d] /\ job'[d] = job[d]
        /\ UNCHANGED <<served, path, consumed, stored>>
    BY <1>13, <1>a DEF Upload, Answering
  <2> QED
    BY <2>1, <1>a DEF JobInv, Rid
<1>14. ASSUME NEW c \in Conns, UploadStored(c) PROVE JobInv'
  BY <1>14, <1>a DEF UploadStored, Answering, JobInv, Rid
<1>15. ASSUME NEW c \in Conns, Respond(c) PROVE JobInv'
  BY <1>15, <1>a DEF Respond, JobInv, Rid
<1>16. ASSUME NEW c \in Conns, JobEnds(c) PROVE JobInv'
  BY <1>16, <1>a DEF JobEnds, JobInv, Rid
<1>17. ASSUME Close PROVE JobInv'
  BY <1>17, <1>a DEF Close, JobInv, Rid
<1>18. ASSUME WindowEnds PROVE JobInv'
  BY <1>17, <1>18, <1>a DEF WindowEnds, JobInv, Rid
<1>19. ASSUME CompletedReceived PROVE JobInv'
  BY <1>17, <1>19, <1>a DEF CompletedReceived, JobInv, Rid
<1>20. ASSUME TakeAsk PROVE JobInv'
  BY <1>20, <1>a DEF TakeAsk, JobInv, Rid
<1>21. ASSUME NEW r \in held, NEW b \in BOOLEAN, Decide(r, b) PROVE JobInv'
  BY <1>21, <1>a DEF Decide, Listening, Request, JobInv, Rid
<1>22. ASSUME NEW p \in Peers, GrantAges(p) PROVE JobInv'
  BY <1>22, <1>a DEF GrantAges, JobInv, Rid
<1>23. ASSUME UNCHANGED vars PROVE JobInv'
  BY <1>23, <1>a DEF vars, JobInv, Rid
<1> QED
  BY <1>1, <1>2, <1>3, <1>4, <1>5, <1>6, <1>7, <1>8, <1>9, <1>10, <1>11,
     <1>12, <1>13, <1>14, <1>15, <1>16, <1>18, <1>19, <1>20, <1>21, <1>22,
     <1>23 DEF Next, ConnStep

\* Items are published only for an approved link Ask, or by a job that a
\* grant let in.
LEMMA StoredStep ==
  ASSUME ReceiverInv, [Next]_vars
  PROVE  StoredWasApproved'
<1>a. /\ TypeOK /\ WaitInv /\ JobInv /\ StoredWasApproved /\ UploadsFollowAsks
  BY DEF ReceiverInv, ConsumedInv
<1> DEFINE Good(r) == \/ r \in approved
                      \/ \E x \in consumed : x.upload = r /\ x.ask \in approved
<1>1. approved \subseteq approved' /\ consumed \subseteq consumed'
  BY <1>a, GrantSteps
     DEF GrantStep, AuthorizeUpload, GrantUpload, Denies, GrantAges, Close, askVars
<1>2. \A r : Good(r) => Good(r)'
  BY <1>1
<1>3. \/ UNCHANGED stored
      \/ \E c \in Conns : /\ stored' \subseteq stored \cup {Rid(c)}
                          /\ DeliverLinks(c) \/ JobEnds(c)
  <2>1. ASSUME NEW c \in Conns, DeliverLinks(c) \/ JobEnds(c)
        PROVE  stored' \subseteq stored \cup {Rid(c)}
    BY <2>1 DEF DeliverLinks, JobEnds
  <2>2. ASSUME NEW c \in Conns,
               \/ Accept(c) \/ Join(c) \/ TlsEstablished(c) \/ ConnectionFails(c)
               \/ AuthorizeUpload(c) \/ GrantUpload(c) \/ Respond(c)
               \/ \E p \in Paths : ReadHead(c, p)
        PROVE  UNCHANGED stored
    BY <2>2 DEF Accept, Join, TlsEstablished, ConnectionFails, AuthorizeUpload, GrantUpload,
                Respond, ReadHead, storeVars
  <2>3. ASSUME NEW c \in Conns,
               \/ Discover(c) \/ AskDecided(c) \/ AskTimesOut(c) \/ Upload(c) \/ UploadStored(c)
               \/ \E l \in BOOLEAN : Ask(c, l)
        PROVE  UNCHANGED stored
    BY <2>3 DEF Discover, AskDecided, AskTimesOut, Upload, UploadStored, Ask, storeVars
  <2>4. ASSUME \/ WindowEnds \/ CompletedReceived \/ TakeAsk \/ UNCHANGED vars
               \/ \E r \in held, d \in BOOLEAN : Decide(r, d)
               \/ \E p \in Peers : GrantAges(p)
        PROVE  UNCHANGED stored
    BY <2>4 DEF WindowEnds, Close, CompletedReceived, TakeAsk, vars, Decide, GrantAges, storeVars
  <2> QED
    BY <2>1, <2>2, <2>3, <2>4 DEF Next, ConnStep
<1>4. ASSUME NEW c \in Conns, DeliverLinks(c), Approval PROVE Good(Rid(c))
  BY <1>4, <1>a DEF DeliverLinks, WaitInv
<1>5. ASSUME NEW c \in Conns, JobEnds(c), Approval PROVE Good(Rid(c))
  BY <1>5, <1>a DEF JobEnds, JobInv, UploadsFollowAsks
<1>6. ASSUME Approval, NEW r \in stored' PROVE Good(r)
  BY <1>3, <1>4, <1>5, <1>6, <1>a DEF StoredWasApproved
<1> QED
  BY <1>2, <1>6 DEF StoredWasApproved

\* A response that reports a transfer is written after it was published.
LEMMA DoneStep ==
  ASSUME TypeOK, JobInv, DoneMeansStored, [Next]_vars
  PROVE  DoneMeansStored'
<1>a. /\ pc \in [Conns -> Pcs] /\ served \in [Conns -> 0 .. MaxRequests - 1]
      /\ reply \in [Conns -> Reply]
  BY DEF TypeOK
<1> USE DEF connVars, storeVars
<1>1. ASSUME NEW c \in Conns, Accept(c) PROVE DoneMeansStored'
  BY <1>1, <1>a DEF Accept, DoneMeansStored, Rid
<1>2. ASSUME NEW c \in Conns, Join(c) PROVE DoneMeansStored'
  BY <1>2, <1>a DEF Join, DoneMeansStored, Rid
<1>3. ASSUME NEW c \in Conns, TlsEstablished(c) PROVE DoneMeansStored'
  BY <1>3, <1>a DEF TlsEstablished, DoneMeansStored, Rid
<1>4. ASSUME NEW c \in Conns, ConnectionFails(c) PROVE DoneMeansStored'
  BY <1>4, <1>a DEF ConnectionFails, DoneMeansStored, Rid
<1>5. ASSUME NEW c \in Conns, NEW p \in Paths, ReadHead(c, p) PROVE DoneMeansStored'
  BY <1>5, <1>a DEF ReadHead, DoneMeansStored, Rid
<1>6. ASSUME NEW c \in Conns, AuthorizeUpload(c) PROVE DoneMeansStored'
  BY <1>6, <1>a DEF AuthorizeUpload, DoneMeansStored, Rid
<1>7. ASSUME NEW c \in Conns, Discover(c) PROVE DoneMeansStored'
  BY <1>7, <1>a DEF Discover, Answering, DoneMeansStored, Rid
<1>8. ASSUME NEW c \in Conns, NEW l \in BOOLEAN, Ask(c, l) PROVE DoneMeansStored'
  BY <1>8, <1>a DEF Ask, Answering, DoneMeansStored, Rid
<1>9. ASSUME NEW c \in Conns, AskDecided(c) PROVE DoneMeansStored'
  BY <1>9, <1>a DEF AskDecided, Answering, DoneMeansStored, Rid
<1>10. ASSUME NEW c \in Conns, AskTimesOut(c) PROVE DoneMeansStored'
  BY <1>10, <1>a DEF AskTimesOut, Answering, DoneMeansStored, Rid
<1>11. ASSUME NEW c \in Conns, DeliverLinks(c) PROVE DoneMeansStored'
  BY <1>11, <1>a DEF DeliverLinks, Answering, DoneMeansStored, Rid
<1>12. ASSUME NEW c \in Conns, GrantUpload(c) PROVE DoneMeansStored'
  <2>1. served' = served /\ stored' = stored
    BY <1>12 DEF GrantUpload
  <2>2. pc'[c] = "ended" \/ reply'[c] = [status |-> 200, done |-> FALSE]
    BY <1>12, <1>a DEF GrantUpload, Answering
  <2>3. \A d \in Conns \ {c} : pc'[d] = pc[d] /\ reply'[d] = reply[d]
    BY <1>12, <1>a DEF GrantUpload, Answering
  <2> QED
    BY <2>1, <2>2, <2>3 DEF DoneMeansStored, Rid
<1>13. ASSUME NEW c \in Conns, Upload(c) PROVE DoneMeansStored'
  BY <1>13, <1>a DEF Upload, Answering, DoneMeansStored, Rid
<1>14. ASSUME NEW c \in Conns, UploadStored(c) PROVE DoneMeansStored'
  BY <1>14, <1>a DEF UploadStored, Answering, JobInv, DoneMeansStored, Rid
<1>15. ASSUME NEW c \in Conns, Respond(c) PROVE DoneMeansStored'
  BY <1>15, <1>a DEF Respond, DoneMeansStored, Rid
<1>16. ASSUME NEW c \in Conns, JobEnds(c) PROVE DoneMeansStored'
  BY <1>16, <1>a DEF JobEnds, DoneMeansStored, Rid
<1>17. ASSUME Close PROVE DoneMeansStored'
  BY <1>17, <1>a DEF Close, DoneMeansStored, Rid
<1>18. ASSUME WindowEnds PROVE DoneMeansStored'
  BY <1>17, <1>18, <1>a DEF WindowEnds, DoneMeansStored, Rid
<1>19. ASSUME CompletedReceived PROVE DoneMeansStored'
  BY <1>17, <1>19, <1>a DEF CompletedReceived, DoneMeansStored, Rid
<1>20. ASSUME TakeAsk PROVE DoneMeansStored'
  BY <1>20, <1>a DEF TakeAsk, DoneMeansStored, Rid
<1>21. ASSUME NEW r \in held, NEW b \in BOOLEAN, Decide(r, b) PROVE DoneMeansStored'
  BY <1>21, <1>a DEF Decide, Listening, Request, DoneMeansStored, Rid
<1>22. ASSUME NEW p \in Peers, GrantAges(p) PROVE DoneMeansStored'
  BY <1>22, <1>a DEF GrantAges, DoneMeansStored, Rid
<1>23. ASSUME UNCHANGED vars PROVE DoneMeansStored'
  BY <1>23, <1>a DEF vars, DoneMeansStored, Rid
<1> QED
  BY <1>1, <1>2, <1>3, <1>4, <1>5, <1>6, <1>7, <1>8, <1>9, <1>10, <1>11,
     <1>12, <1>13, <1>14, <1>15, <1>16, <1>18, <1>19, <1>20, <1>21, <1>22,
     <1>23 DEF Next, ConnStep

\* The invariant holds throughout.
LEMMA ReceiverInvariant == Spec => []ReceiverInv
<1>1. Init => ReceiverInv
  <2> SUFFICES ASSUME Init PROVE ReceiverInv
    OBVIOUS
  <2>1. TypeOK
    BY TypeInit
  <2>2. PastIsSettled /\ ConsumedInv /\ AdmittedInv /\ StoredWasApproved
    BY DEF Init, PastIsSettled, ConsumedInv, AdmittedInv, UploadsFollowAsks, GrantsPairUploads,
           AgedGrantsNeverUsed, StoredWasApproved
  <2>3. GrantInv
    BY GrantTypes DEF Init, GrantInv
  <2>4. WaitInv /\ JobInv /\ DoneMeansStored
    BY DEF Init, WaitInv, JobInv, DoneMeansStored
  <2> QED
    BY <2>1, <2>2, <2>3, <2>4 DEF ReceiverInv
<1>2. ReceiverInv /\ [Next]_vars => ReceiverInv'
  BY TypeStep, PastStep, GrantInvStep, ConsumedStep, AdmittedStep, WaitStep, JobStep, StoredStep,
     DoneStep DEF ReceiverInv
<1> QED
  BY <1>1, <1>2, PTL DEF Spec

\* Every Upload that is let in stands for an accepted Ask of the same
\* address, whatever the interleaving of late decisions, timeouts and
\* connections.
THEOREM UploadsAccepted == Spec => []UploadsWereAccepted
<1>1. ReceiverInv => UploadsWereAccepted
  BY DEF ReceiverInv, ConsumedInv, UploadsWereAccepted
<1> QED
  BY <1>1, ReceiverInvariant, PTL

\* An accepted Ask lets one Upload in, on whichever connection it arrives, and
\* an Upload spends one grant.
THEOREM GrantsUsedOnce == Spec => []GrantsPairUploads
<1>1. ReceiverInv => GrantsPairUploads
  BY DEF ReceiverInv, ConsumedInv
<1> QED
  BY <1>1, ReceiverInvariant, PTL

\* A grant older than 120 seconds lets nothing in.
THEOREM GrantsExpire == Spec => []AgedGrantsNeverUsed
<1>1. ReceiverInv => AgedGrantsNeverUsed
  BY DEF ReceiverInv, ConsumedInv
<1> QED
  BY <1>1, ReceiverInvariant, PTL

\* Whatever is published in the receive folder was approved, also by a
\* storage job that outlives its connection.
THEOREM PublishedWasApproved == Spec => []StoredWasApproved
<1>1. ReceiverInv => StoredWasApproved
  BY DEF ReceiverInv
<1> QED
  BY <1>1, ReceiverInvariant, PTL

\* A transfer reported as done has been published.
THEOREM DoneWasPublished == Spec => []DoneMeansStored
<1>1. ReceiverInv => DoneMeansStored
  BY DEF ReceiverInv
<1> QED
  BY <1>1, ReceiverInvariant, PTL
-----------------------------------------------------------------------------
(* The two bounds.                                                         *)

\* An element adds at most one.
LEMMA AddOne ==
  ASSUME NEW S, NEW x, IsFiniteSet(S)
  PROVE  /\ IsFiniteSet(S \cup {x})
         /\ Cardinality(S \cup {x}) <= Cardinality(S) + 1
         /\ Cardinality(S \cup {x}) \in Nat
<1>1. IsFiniteSet(S \cup {x})
  BY FS_AddElement
<1>2. Cardinality(S) \in Nat /\ Cardinality(S \cup {x}) \in Nat
  BY <1>1, FS_CardinalityType
<1>3. Cardinality(S \cup {x}) = IF x \in S THEN Cardinality(S) ELSE Cardinality(S) + 1
  BY FS_AddElement
<1> QED
  BY <1>1, <1>2, <1>3

\* The set of tasks grows only by an accepted connection, when not full.
LEMMA TasksStep ==
  ASSUME TypeOK, [Next]_vars
  PROVE  \/ Tasks' \subseteq Tasks
         \/ ~Full /\ \E c \in Conns : Tasks' \subseteq Tasks \cup {c}
<1> DEFINE Goal == \/ Tasks' \subseteq Tasks
                   \/ ~Full /\ \E c \in Conns : Tasks' \subseteq Tasks \cup {c}
<1>a. pc \in [Conns -> Pcs]
  BY DEF TypeOK
<1> USE DEF connVars
<1>1. ASSUME NEW c \in Conns, Accept(c) PROVE Goal
  BY <1>1, <1>a DEF Accept, Tasks
<1>2. ASSUME NEW c \in Conns, Join(c) PROVE Goal
  BY <1>2, <1>a DEF Join, Tasks
<1>3. ASSUME NEW c \in Conns, TlsEstablished(c) PROVE Goal
  BY <1>3, <1>a DEF TlsEstablished, Tasks
<1>4. ASSUME NEW c \in Conns, ConnectionFails(c) PROVE Goal
  BY <1>4, <1>a DEF ConnectionFails, Tasks
<1>5. ASSUME NEW c \in Conns, NEW p \in Paths, ReadHead(c, p) PROVE Goal
  BY <1>5, <1>a DEF ReadHead, Tasks
<1>6. ASSUME NEW c \in Conns, AuthorizeUpload(c) PROVE Goal
  BY <1>6, <1>a DEF AuthorizeUpload, Tasks
<1>7. ASSUME NEW c \in Conns, Discover(c) PROVE Goal
  BY <1>7, <1>a DEF Discover, Answering, Tasks
<1>8. ASSUME NEW c \in Conns, NEW l \in BOOLEAN, Ask(c, l) PROVE Goal
  BY <1>8, <1>a DEF Ask, Answering, Tasks
<1>9. ASSUME NEW c \in Conns, AskDecided(c) PROVE Goal
  BY <1>9, <1>a DEF AskDecided, Answering, Tasks
<1>10. ASSUME NEW c \in Conns, AskTimesOut(c) PROVE Goal
  BY <1>10, <1>a DEF AskTimesOut, Answering, Tasks
<1>11. ASSUME NEW c \in Conns, DeliverLinks(c) PROVE Goal
  BY <1>11, <1>a DEF DeliverLinks, Answering, Tasks
<1>12. ASSUME NEW c \in Conns, GrantUpload(c) PROVE Goal
  BY <1>12, <1>a DEF GrantUpload, Answering, Tasks
<1>13. ASSUME NEW c \in Conns, Upload(c) PROVE Goal
  BY <1>13, <1>a DEF Upload, Answering, Tasks
<1>14. ASSUME NEW c \in Conns, UploadStored(c) PROVE Goal
  BY <1>14, <1>a DEF UploadStored, Answering, Tasks
<1>15. ASSUME NEW c \in Conns, Respond(c) PROVE Goal
  BY <1>15, <1>a DEF Respond, Tasks
<1>16. ASSUME NEW c \in Conns, JobEnds(c) PROVE Goal
  BY <1>16, <1>a DEF JobEnds, Tasks
<1>17. ASSUME Close PROVE Goal
  BY <1>17, <1>a DEF Close, Tasks
<1>18. ASSUME WindowEnds PROVE Goal
  BY <1>17, <1>18, <1>a DEF WindowEnds, Tasks
<1>19. ASSUME CompletedReceived PROVE Goal
  BY <1>17, <1>19, <1>a DEF CompletedReceived, Tasks
<1>20. ASSUME TakeAsk PROVE Goal
  BY <1>20, <1>a DEF TakeAsk, Tasks
<1>21. ASSUME NEW r \in held, NEW b \in BOOLEAN, Decide(r, b) PROVE Goal
  BY <1>21, <1>a DEF Decide, Listening, Request, Tasks
<1>22. ASSUME NEW p \in Peers, GrantAges(p) PROVE Goal
  BY <1>22, <1>a DEF GrantAges, Tasks
<1>23. ASSUME UNCHANGED vars PROVE Goal
  BY <1>23, <1>a DEF vars, Tasks
<1> QED
  BY <1>1, <1>2, <1>3, <1>4, <1>5, <1>6, <1>7, <1>8, <1>9, <1>10, <1>11,
     <1>12, <1>13, <1>14, <1>15, <1>16, <1>18, <1>19, <1>20, <1>21, <1>22,
     <1>23 DEF Next, ConnStep

\* At most MaxConns tasks, for any number of devices and connections.
THEOREM ConnectionsBounded == Spec => []ConnectionBound
<1>1. Init => ConnectionBound
  <2>1. Init => Tasks = {}
    BY DEF Init, Tasks
  <2> QED
    BY <2>1, FS_EmptySet DEF ConnectionBound
<1>2. TypeOK /\ ConnectionBound /\ [Next]_vars => ConnectionBound'
  <2> SUFFICES ASSUME TypeOK, ConnectionBound, [Next]_vars PROVE ConnectionBound'
    OBVIOUS
  <2>1. /\ IsFiniteSet(Tasks) /\ IsFiniteSet(Tasks')
        /\ Cardinality(Tasks) \in Nat /\ Cardinality(Tasks') \in Nat
    <3>1. Tasks \subseteq Conns /\ Tasks' \subseteq Conns
      BY DEF Tasks
    <3> QED
      BY <3>1, FS_Subset, FS_CardinalityType
  <2>2. CASE Tasks' \subseteq Tasks
    BY <2>1, <2>2, FS_Subset DEF ConnectionBound
  <2>3. ASSUME ~Full, NEW c \in Conns, Tasks' \subseteq Tasks \cup {c}
        PROVE  ConnectionBound'
    <3>1. Cardinality(Tasks) < MaxConns
      BY <2>1, <2>3 DEF Full
    <3>2. /\ IsFiniteSet(Tasks \cup {c})
          /\ Cardinality(Tasks \cup {c}) <= Cardinality(Tasks) + 1
          /\ Cardinality(Tasks \cup {c}) \in Nat
      BY <2>1, AddOne
    <3>3. Cardinality(Tasks') <= Cardinality(Tasks \cup {c})
      BY <2>3, <3>2, FS_Subset
    <3> QED
      BY <2>1, <3>1, <3>2, <3>3 DEF ConnectionBound
  <2> QED
    BY <2>2, <2>3, TasksStep
<1> QED
  BY <1>1, <1>2, TypeCorrect, PTL DEF Spec

-----------------------------------------------------------------------------
\* With --once no report is lost for good: the first one that is not taken at
\* once stays in the channel, and those dropped behind it leave it there.  What
\* is left of OnceCloses is that run's loop polls the channel.
THEOREM ReportsAreKept == Spec => []ReportIsKept
<1>1. Init => ReportIsKept
  BY DEF Init, ReportIsKept
<1>2. TypeOK /\ ReportIsKept /\ [Next]_vars => ReportIsKept'
  <2> SUFFICES ASSUME TypeOK, ReportIsKept, [Next]_vars PROVE ReportIsKept'
    OBVIOUS
  <2>0. completed \in Nat /\ run \in {"open", "closed"} /\ CompletedCap > 0
    BY ReceiverAssumption DEF TypeOK
  <2>1. CASE UNCHANGED winVars
    BY <2>1 DEF winVars, ReportIsKept
  <2>2. ASSUME NEW c \in Conns, Respond(c) PROVE ReportIsKept'
    <3>1. completed' \in Nat /\ completed' >= completed /\ run' = run
      BY <2>0, <2>2 DEF Respond, Report
    <3>2. CASE Once /\ reply[c].done
      <4>1. completed' > 0
        BY <2>0, <2>2, <3>2 DEF Respond, Report
      <4> QED
        BY <4>1 DEF ReportIsKept
    <3>3. CASE ~(Once /\ reply[c].done)
      <4>1. Once /\ reported' => reported
        BY <2>2, <3>3, Zenon DEF Respond
      <4>2. Once /\ reported' => completed > 0 \/ run = "closed"
        BY <4>1, Zenon DEF ReportIsKept
      <4>3. completed > 0 => completed' > 0
        BY <2>0, <3>1
      <4> QED
        BY <3>1, <4>2, <4>3 DEF ReportIsKept
    <3> QED
      BY <3>2, <3>3
  <2>3. CASE WindowEnds \/ CompletedReceived
    <3>1. Once => run' = "closed"
      BY <2>3 DEF WindowEnds, CompletedReceived, Close
    <3> QED
      BY <3>1 DEF ReportIsKept
  <2>4. ASSUME NEW c \in Conns,
               Accept(c) \/ Join(c) \/ JobEnds(c) \/ (ConnStep(c) /\ ~Respond(c))
        PROVE  UNCHANGED winVars
    <3>1. CASE Accept(c) \/ Join(c) \/ JobEnds(c)
      BY <3>1 DEF Accept, Join, JobEnds
    <3>2. CASE ConnStep(c) /\ ~Respond(c)
      BY <3>2 DEF ConnStep, TlsEstablished, ConnectionFails, ReadHead, AuthorizeUpload, Discover, Ask,
                  AskDecided, AskTimesOut, DeliverLinks, GrantUpload, Upload, UploadStored
    <3> QED
      BY <2>4, <3>1, <3>2
  <2>5. CASE \/ TakeAsk \/ UNCHANGED vars
             \/ \E r \in held, b \in BOOLEAN : Decide(r, b)
             \/ \E p \in Peers : GrantAges(p)
    <3>1. UNCHANGED winVars
      BY <2>5 DEF TakeAsk, vars, Decide, GrantAges
    <3> QED
      BY <2>1, <3>1
  <2> QED
    BY <2>1, <2>2, <2>3, <2>4, <2>5 DEF Next, ConnStep
<1> QED
  BY <1>1, <1>2, TypeCorrect, PTL DEF Spec

\* A set of addresses is finite.
LEMMA LiveFinite ==
  ASSUME NEW g
  PROVE  IsFiniteSet(LivePeers(g)) /\ Cardinality(LivePeers(g)) \in Nat
<1>1. LivePeers(g) \subseteq Peers
  BY DEF LivePeers
<1> QED
  BY <1>1, FS_Subset, FS_CardinalityType

\* The grant table never outgrows its bound: each insertion looks at the
\* table it inserts into, not at the one before the wait for approval.
THEOREM GrantsBounded == Spec => []GrantBound
<1>1. Init => GrantBound
  <2>1. Init => LivePeers(grants) = {}
    BY GrantTypes DEF Init, LivePeers
  <2> QED
    BY <2>1, FS_EmptySet DEF GrantBound
<1>2. TypeOK /\ GrantBound /\ [Next]_vars => GrantBound'
  <2> SUFFICES ASSUME TypeOK, GrantBound, [Next]_vars PROVE GrantBound'
    OBVIOUS
  <2>a. grants \in [Peers -> GrantType] /\ PeerOf \in [Conns -> Peers]
    BY DEF TypeOK
  <2>1. ASSUME LivePeers(grants)' \subseteq LivePeers(grants) PROVE GrantBound'
    <3>1. Cardinality(LivePeers(grants)') <= Cardinality(LivePeers(grants))
      BY <2>1, LiveFinite, FS_Subset
    <3>2. Cardinality(LivePeers(grants)') \in Nat /\ Cardinality(LivePeers(grants)) \in Nat
      BY LiveFinite
    <3> QED
      BY <3>1, <3>2 DEF GrantBound
  <2>2. ASSUME NEW c \in Conns, AuthorizeUpload(c)
        PROVE  LivePeers(grants)' \subseteq LivePeers(grants)
    BY <2>2, <2>a, GrantTypes DEF AuthorizeUpload, WithoutGrant, LivePeers
  <2>3. ASSUME NEW p \in Peers, GrantAges(p)
        PROVE  LivePeers(grants)' \subseteq LivePeers(grants)
    BY <2>3, <2>a DEF GrantAges, Usable, LivePeers
  <2>4. ASSUME NEW c \in Conns, GrantUpload(c) PROVE GrantBound'
    <3>1. CASE grants' = Retained
      <4>1. LivePeers(grants)' \subseteq LivePeers(grants)
        BY <3>1, <2>a, GrantTypes DEF Retained, Usable, LivePeers
      <4> QED
        BY <2>1, <4>1
    <3>2. CASE RoomForGrant /\ grants' = [Retained EXCEPT ![PeerOf[c]] = Grant(Rid(c), TRUE)]
      <4> DEFINE S == LivePeers(Retained)
      <4>1. LivePeers(grants)' \subseteq S \cup {PeerOf[c]}
        BY <3>2 DEF LivePeers, Retained
      <4>2. IsFiniteSet(S) /\ Cardinality(S) \in Nat
        BY LiveFinite
      <4>3. /\ IsFiniteSet(S \cup {PeerOf[c]})
            /\ Cardinality(S \cup {PeerOf[c]}) <= Cardinality(S) + 1
            /\ Cardinality(S \cup {PeerOf[c]}) \in Nat
        BY <4>2, AddOne
      <4>4. /\ Cardinality(LivePeers(grants)') <= Cardinality(S \cup {PeerOf[c]})
            /\ Cardinality(LivePeers(grants)') \in Nat
        BY <4>1, <4>3, LiveFinite, FS_Subset
      <4>5. Cardinality(S) < MaxGrants
        BY <3>2 DEF RoomForGrant
      <4> QED
        BY <4>2, <4>3, <4>4, <4>5 DEF GrantBound
    <3> QED
      BY <2>4, <3>1, <3>2 DEF GrantUpload
  <2>5. ASSUME Close PROVE LivePeers(grants)' \subseteq LivePeers(grants)
    BY <2>5, GrantTypes DEF Close, LivePeers
  <2>6. ASSUME UNCHANGED grants PROVE GrantBound'
    BY <2>6 DEF GrantBound, LivePeers
  <2> QED
    BY <2>1, <2>2, <2>3, <2>4, <2>5, <2>6, GrantSteps DEF GrantStep, Denies
<1> QED
  BY <1>1, <1>2, TypeCorrect, PTL DEF Spec

\* Neither limit of the window is ever exceeded.
THEOREM LimitsRespected == Spec => []LimitsHold
  BY ConnectionsBounded, GrantsBounded, PTL DEF LimitsHold

-----------------------------------------------------------------------------
(* The window implements Consent: all its steps but the few that follow    *)
(* are answers and lapses there.                                           *)

\* A grant that counts is one of the table, by its address.
LEMMA GrantedBy ==
  ASSUME TypeOK, GrantInv, NEW r \in Granted
  PROVE  /\ r \in Request /\ r[1] \in Conns /\ PeerOf[r[1]] \in Peers
         /\ Usable(grants[PeerOf[r[1]]]) /\ grants[PeerOf[r[1]]].ask = r
<1>1. r \in Request /\ r[1] \in Conns
  BY DEF Granted, Request
<1>2. PICK p \in Peers : Usable(grants[p]) /\ grants[p].ask = r
  BY DEF Granted
<1>3. PeerOf[r[1]] = p
  BY <1>2 DEF Usable, GrantInv
<1> QED
  BY <1>1, <1>2, <1>3

\* What is answered when one connection has moved.
LEMMA AnsweredBy ==
  ASSUME TypeOK, NEW c \in Conns, pc[c] \notin Past, served' = served,
         \A d \in Conns \ {c} : pc'[d] = pc[d]
  PROVE  SettledRequests' = IF pc'[c] \in Past THEN SettledRequests \cup {Rid(c)} ELSE SettledRequests
<1>1. ASSUME NEW r \in Request, r # Rid(c) PROVE Settled(r)' <=> Settled(r)
  <2>1. r = <<r[1], r[2]>> /\ r[1] \in Conns
    BY DEF Request
  <2>2. r[1] # c \/ r[2] # served[c]
    BY <1>1, <2>1 DEF Rid
  <2> QED
    BY <2>1, <2>2 DEF Settled
<1>2. Rid(c) \in Request
  BY RidType
<1>3. ASSUME NEW r \in Request, r = Rid(c)
      PROVE  /\ ~Settled(r)
             /\ Settled(r)' <=> pc'[c] \in Past
  <2>1. served[c] \in Nat /\ r[1] = c /\ r[2] = served[c]
    BY <1>3 DEF TypeOK, Rid
  <2> QED
    BY <2>1 DEF Settled
<1>4. ASSUME NEW r \in Request
      PROVE  Settled(r)' <=> Settled(r) \/ (pc'[c] \in Past /\ r = Rid(c))
  BY <1>1, <1>3
<1>5. SettledRequests' = {r \in Request : Settled(r) \/ (pc'[c] \in Past /\ r = Rid(c))}
  BY <1>4 DEF SettledRequests
<1> QED
  BY <1>2, <1>5 DEF SettledRequests

\* Every step of the window is one of Consent, or none.
LEMMA ConsentStep ==
  ASSUME ReceiverInv, [Next]_vars
  PROVE  [Asked!ConsentNext]_(Asked!consentVars)
<1> DEFINE Goal == [Asked!ConsentNext]_(Asked!consentVars)
<1>a. /\ TypeOK /\ GrantInv /\ ConsumedInv /\ AdmittedInv /\ WaitInv /\ JobInv
      /\ pc \in [Conns -> Pcs]
      /\ grants \in [Peers -> GrantType]
      /\ PeerOf \in [Conns -> Peers]
  BY DEF ReceiverInv, TypeOK
<1>b. SettledRequests \subseteq SettledRequests'
  BY <1>a, SettledStable DEF SettledRequests
<1>c. ASSUME Granted' \subseteq Granted, UNCHANGED <<approved, consumed, stored>> PROVE Goal
  BY <1>b, <1>c DEF Asked!ConsentNext, Asked!GiveUp
<1>d. ASSUME UNCHANGED grants PROVE Granted' = Granted
  BY <1>d DEF Granted
<1>e. ASSUME NEW r \in Request PROVE PeerOf[r[1]] = [q \in Request |-> PeerOf[q[1]]][r]
  BY <1>e
<1>1. ASSUME UNCHANGED <<grants, approved, consumed, stored>> PROVE Goal
  BY <1>1, <1>c, <1>d
<1>2. ASSUME NEW c \in Conns, AuthorizeUpload(c) PROVE Goal
  <2> DEFINE p == PeerOf[c]
             g == grants[p]
  <2>1. /\ grants' = [grants EXCEPT ![p] = NoGrant]
        /\ UNCHANGED <<approved, stored, served>>
    BY <1>2 DEF AuthorizeUpload, WithoutGrant, connVars, winVars, askVars, storeVars
  <2>2. \A q \in Peers : Usable(grants'[q]) <=> q # p /\ Usable(grants[q])
    BY <1>a, <2>1, GrantTypes DEF Usable
  <2>3. \A q \in Peers : q # p => grants'[q] = grants[q]
    BY <1>a, <2>1
  <2>4. CASE ~Usable(g)
    <3>1. consumed' = consumed
      BY <1>2, <2>4 DEF AuthorizeUpload
    <3>2. Granted' \subseteq Granted
      BY <2>2, <2>3 DEF Granted
    <3> QED
      BY <1>c, <2>1, <3>1, <3>2
  <2>5. CASE Usable(g)
    <3>1. /\ consumed' = consumed \cup {[upload |-> Rid(c), ask |-> g.ask]}
          /\ pc[c] = "head" /\ pc' = [pc EXCEPT ![c] = "body"]
      BY <1>2, <2>5 DEF AuthorizeUpload
    <3>2. Rid(c) \in Request /\ Rid(c)[1] = c /\ Rid(c) \notin SettledRequests
      BY <1>a, <3>1, RidType, CurrentNotSettled DEF Past, Rid, SettledRequests
    <3>3. g.ask \in Request /\ PeerOf[g.ask[1]] = p /\ g.ask \in Granted
      BY <1>a, <2>5, GrantAsk DEF GrantInv, Usable, Granted
    <3>4. SettledRequests' = SettledRequests
      BY <1>a, <2>1, <3>1, AnsweredBy DEF Past
    <3>5. Granted' = Granted \ {g.ask}
      <4>1. ASSUME NEW r \in Request PROVE r \in Granted' <=> r \in Granted /\ r # g.ask
        <5>1. r \in Granted' <=> \E q \in Peers : q # p /\ Usable(grants[q]) /\ grants[q].ask = r
          BY <2>2, <2>3 DEF Granted
        <5>2. \A q \in Peers : Usable(grants[q]) => PeerOf[grants[q].ask[1]] = q
          BY <1>a DEF GrantInv, Usable
        <5> QED
          BY <5>1, <5>2, <3>3 DEF Granted
      <4> QED
        BY <4>1 DEF Granted
    <3>6. \A x \in consumed : x.upload # Rid(c)
      BY <1>a, <3>1, NothingAdmitted
    <3>7. Asked!UseGrant(g.ask, Rid(c))
      BY <1>e, <2>1, <3>1, <3>2, <3>3, <3>4, <3>5, <3>6 DEF Asked!UseGrant
    <3> QED
      BY <3>2, <3>3, <3>7 DEF Asked!ConsentNext
  <2> QED
    BY <2>4, <2>5
<1>3. ASSUME NEW c \in Conns, GrantUpload(c) PROVE Goal
  <2> DEFINE p == PeerOf[c]
  <2>1. /\ pc[c] = "accepted"
        /\ UNCHANGED <<approved, consumed, stored, served>>
    BY <1>3 DEF GrantUpload, askVars, storeVars
  <2>2. /\ Retained \in [Peers -> GrantType]
        /\ \A q \in Peers : Usable(Retained[q]) <=> Usable(grants[q])
        /\ \A q \in Peers : Usable(grants[q]) => Retained[q] = grants[q]
    BY <1>a, GrantTypes DEF Retained, Usable
  <2>3. CASE grants' = Retained
    <3>1. Granted' \subseteq Granted
      BY <2>2, <2>3 DEF Granted
    <3> QED
      BY <1>c, <2>1, <3>1
  <2>4. CASE /\ grants' = [Retained EXCEPT ![p] = Grant(Rid(c), TRUE)]
             /\ Answering(c, 200, FALSE)
    <3>1. Rid(c) \in Request /\ Rid(c)[1] = c /\ Rid(c) \notin SettledRequests
      BY <1>a, <2>1, RidType, CurrentNotSettled DEF Past, Rid, SettledRequests
    <3>2. Approval => Rid(c) \in approved
      BY <1>a, <2>1 DEF WaitInv
    <3>3. SettledRequests' = SettledRequests \cup {Rid(c)}
      <4>1. pc'[c] \in Past /\ \A d \in Conns \ {c} : pc'[d] = pc[d]
        BY <1>a, <2>4 DEF Answering, Past
      <4> QED
        BY <1>a, <2>1, <4>1, AnsweredBy DEF Past
    <3>4. /\ Usable(grants'[p]) /\ grants'[p].ask = Rid(c)
          /\ \A q \in Peers \ {p} : grants'[q] = Retained[q]
      <4>1. /\ grants'[p] = Grant(Rid(c), TRUE)
            /\ \A q \in Peers \ {p} : grants'[q] = Retained[q]
        BY <1>a, <2>2, <2>4
      <4>2. Usable(Grant(Rid(c), TRUE)) /\ Grant(Rid(c), TRUE).ask = Rid(c)
        BY <3>1, GrantTypes DEF Usable
      <4> QED
        BY <4>1, <4>2
    <3>5. Granted' = {r \in Granted : PeerOf[r[1]] # p} \cup {Rid(c)}
      <4>1. ASSUME NEW r \in Request
            PROVE  r \in Granted' <=> (r \in Granted /\ PeerOf[r[1]] # p) \/ r = Rid(c)
        <5>1. r \in Granted'
                <=> \E q \in Peers : Usable(grants'[q]) /\ grants'[q].ask = r
          BY DEF Granted
        <5>2. \A q \in Peers \ {p} :
                (Usable(grants'[q]) <=> Usable(grants[q])) /\ (Usable(grants[q]) => grants'[q] = grants[q])
          BY <2>2, <3>4
        <5>3. \A q \in Peers : Usable(grants[q]) => PeerOf[grants[q].ask[1]] = q
          BY <1>a DEF GrantInv, Usable
        <5> QED
          BY <1>a, <5>1, <5>2, <5>3, <3>4 DEF Granted
      <4> QED
        BY <3>1, <4>1 DEF Granted
    <3>6. Asked!GiveGrant(Rid(c))
      <4>1. Asked!Agreed(Rid(c))
        BY <3>1, <3>2 DEF Asked!Agreed
      <4>2. {q \in Granted : [r \in Request |-> PeerOf[r[1]]][q] # [r \in Request |-> PeerOf[r[1]]][Rid(c)]}
              = {r \in Granted : PeerOf[r[1]] # p}
        BY <1>e, <3>1 DEF Granted
      <4> QED
        BY <2>1, <3>3, <3>5, <4>1, <4>2 DEF Asked!GiveGrant
    <3> QED
      BY <3>1, <3>6 DEF Asked!ConsentNext
  <2> QED
    BY <1>3, <2>3, <2>4 DEF GrantUpload
<1>4. ASSUME NEW c \in Conns, DeliverLinks(c) PROVE Goal
  <2>1. /\ pc[c] = "accepted"
        /\ UNCHANGED <<grants, approved, consumed, served>>
    BY <1>4 DEF DeliverLinks, askVars, grantVars
  <2>2. CASE stored' = stored
    BY <1>1, <2>1, <2>2
  <2>3. CASE /\ stored' = stored \cup {Rid(c)}
             /\ \/ Answering(c, 200, TRUE)
                \/ pc' = [pc EXCEPT ![c] = "ended"]
    <3>1. Rid(c) \in Request /\ Rid(c) \notin SettledRequests
      BY <1>a, <2>1, RidType, CurrentNotSettled DEF Past, SettledRequests
    <3>2. Approval => Rid(c) \in approved
      BY <1>a, <2>1 DEF WaitInv
    <3>3. pc'[c] \in Past /\ \A d \in Conns \ {c} : pc'[d] = pc[d]
      BY <1>a, <2>3 DEF Answering, Past
    <3>4. SettledRequests' = SettledRequests \cup {Rid(c)}
      BY <1>a, <2>1, <3>3, AnsweredBy DEF Past
    <3>5. Asked!DeliverAsked(Rid(c))
      BY <1>d, <2>1, <2>3, <3>1, <3>2, <3>4 DEF Asked!DeliverAsked, Asked!Agreed
    <3> QED
      BY <3>1, <3>5 DEF Asked!ConsentNext
  <2> QED
    BY <1>4, <2>2, <2>3 DEF DeliverLinks
<1>5. ASSUME NEW c \in Conns, JobEnds(c) PROVE Goal
  <2>1. /\ job[c] = "running"
        /\ UNCHANGED <<grants, approved, consumed, served, pc>>
    BY <1>5 DEF JobEnds, connVars, askVars, grantVars
  <2>2. CASE stored' = stored
    BY <1>1, <2>1, <2>2
  <2>3. CASE stored' = stored \cup {Rid(c)}
    <3>1. Rid(c) \in Request /\ \E x \in consumed : x.upload = Rid(c)
      BY <1>a, <2>1, RidType DEF JobInv
    <3>2. SettledRequests' = SettledRequests
      BY <2>1 DEF SettledRequests, Settled
    <3>3. Asked!Publish(Rid(c))
      BY <1>d, <2>1, <2>3, <3>1, <3>2 DEF Asked!Publish
    <3> QED
      BY <3>1, <3>3 DEF Asked!ConsentNext
  <2> QED
    BY <1>5, <2>2, <2>3 DEF JobEnds
<1>6. ASSUME Close PROVE Goal
  <2>1. Granted' = {}
    BY <1>6, GrantTypes DEF Close, Granted, Usable
  <2> QED
    BY <1>6, <1>c, <2>1 DEF Close, storeVars
<1>7. ASSUME NEW r \in held, NEW b \in BOOLEAN, Decide(r, b) PROVE Goal
  <2>1. UNCHANGED <<grants, consumed, stored, served, pc>> /\ r \in Request
    BY <1>7, <1>a DEF Decide, connVars, grantVars, storeVars, TypeOK
  <2>2. CASE approved' = approved
    BY <1>1, <2>1, <2>2
  <2>3. CASE approved' = approved \cup {r}
    <3>1. SettledRequests' = SettledRequests
      BY <2>1 DEF SettledRequests, Settled
    <3>2. Asked!SayYes(r)
      BY <1>d, <2>1, <2>3, <3>1 DEF Asked!SayYes
    <3> QED
      BY <2>1, <3>2 DEF Asked!ConsentNext
  <2> QED
    BY <1>7, <2>2, <2>3 DEF Decide
<1>8. ASSUME NEW p \in Peers, GrantAges(p) PROVE Goal
  <2>1. \A q \in Peers : Usable(grants'[q]) => q # p /\ grants'[q] = grants[q]
    <3>1. ~Usable(grants'[p])
      <4>1. grants[p].ask \in Request
        BY <1>8, <1>a, GrantAsk DEF GrantAges, Usable
      <4>2. ~Usable(Grant(grants[p].ask, FALSE))
        BY <4>1, GrantTypes DEF Usable
      <4> QED
        BY <1>8, <1>a, <4>2 DEF GrantAges
    <3>2. \A q \in Peers \ {p} : grants'[q] = grants[q]
      BY <1>8, <1>a DEF GrantAges
    <3> QED
      BY <3>1, <3>2
  <2>2. Granted' \subseteq Granted
    BY <2>1 DEF Granted
  <2> QED
    BY <1>8, <1>c, <2>2 DEF GrantAges, askVars, storeVars
<1>9. ASSUME NEW c \in Conns,
             \/ Accept(c) \/ Join(c) \/ TlsEstablished(c) \/ ConnectionFails(c) \/ Respond(c)
             \/ Discover(c) \/ AskDecided(c) \/ AskTimesOut(c) \/ Upload(c) \/ UploadStored(c)
             \/ \E p \in Paths : ReadHead(c, p)
             \/ \E l \in BOOLEAN : Ask(c, l)
      PROVE  Goal
  <2>1. UNCHANGED <<grants, approved, consumed, stored>>
    BY <1>9 DEF Accept, Join, TlsEstablished, ConnectionFails, Respond, Discover, AskDecided,
                AskTimesOut, Upload, UploadStored, ReadHead, Ask, askVars, grantVars, storeVars
  <2> QED
    BY <1>1, <2>1
<1>10. ASSUME \/ WindowEnds \/ CompletedReceived \/ TakeAsk \/ UNCHANGED vars PROVE Goal
  <2>1. Close \/ UNCHANGED <<grants, approved, consumed, stored>>
    BY <1>10 DEF WindowEnds, CompletedReceived, TakeAsk, vars, askVars, grantVars, storeVars
  <2> QED
    BY <1>1, <1>6, <2>1
<1> QED
  BY <1>2, <1>3, <1>4, <1>5, <1>7, <1>8, <1>9, <1>10 DEF Next, ConnStep

\* The receive window is an implementation of Consent: what anybody can see
\* of it, in the receive folder, is what Consent allows.
THEOREM ReceivedByConsent == Spec => ReceivesByConsent
<1>1. Init => Asked!ConsentInit
  <2>1. Init => SettledRequests = {}
    BY DEF Init, SettledRequests, Settled, Past, Request
  <2>2. Init => Granted = {}
    BY GrantTypes DEF Init, Granted, Usable
  <2> QED
    BY <2>1, <2>2 DEF Init, Asked!ConsentInit
<1>2. ReceiverInv /\ [Next]_vars => [Asked!ConsentNext]_(Asked!consentVars)
  BY ConsentStep
<1> QED
  BY <1>1, <1>2, ReceiverInvariant, PTL DEF Spec, ReceivesByConsent, Asked!ConsentSpec

HIDE ReceiverAssumption
-----------------------------------------------------------------------------
(* The identity, for any number of callers: at most one of them ever is    *)
(* between creating key.pem and ending certificate.pem, and what anybody   *)
(* reads was written by that one.                                          *)

Making == {"writeKey", "createCert", "writeCert"}
Makers == {p \in Callers : ipc[p] \in Making}

\* How far the pair of files is, for a caller that makes it.
MakerInv ==
  \A p \in Makers :
    /\ ipc[p] = "writeKey" => key = Partial /\ cert = Absent
    /\ ipc[p] = "createCert" => key = p /\ cert = Absent
    /\ ipc[p] = "writeCert" => key = p /\ cert = Partial

OneMaker == \A p, q \in Makers : p = q

\* What a caller has read, or been handed, is the pair as it stays.
ReaderInv ==
  /\ key = Absent => Makers = {}
  /\ cert # Absent => key \in Callers
  /\ cert \in Callers => key = cert
  /\ \A p \in Callers : ipc[p] = "readKey" => seen[p] \in Callers /\ seen[p] = cert
  /\ handed \subseteq Callers /\ handed \subseteq {key}

\* A half-made pair has a maker, or the maker died.
WholeInv == ~broken => key = cert \/ Makers # {}

IdentityInv == IdentityTypeOK /\ MakerInv /\ OneMaker /\ ReaderInv /\ WholeInv

LEMMA IdentityInitInv == IdentityInit => IdentityInv
BY IdentityAssumption
DEF IdentityInit, IdentityInv, IdentityTypeOK, MakerInv, OneMaker, ReaderInv, WholeInv, Makers,
    Making, Files, Ends

LEMMA IdentityStepInv == IdentityInv /\ [IdentityNext]_identityVars => IdentityInv'
<1> SUFFICES ASSUME IdentityInv, [IdentityNext]_identityVars
             PROVE  IdentityInv'
  OBVIOUS
<1> USE IdentityAssumption
<1> USE DEF IdentityInv, IdentityTypeOK, MakerInv, OneMaker, ReaderInv, WholeInv, Makers, Making,
            Files, Ends, At, Goto
<1>1. CASE UNCHANGED identityVars
  BY <1>1 DEF identityVars
<1>2. ASSUME NEW p \in Callers, Call(p) PROVE IdentityInv'
  BY <1>2 DEF Call
<1>3. ASSUME NEW p \in Callers, CertExists(p) PROVE IdentityInv'
  BY <1>3 DEF CertExists
<1>4. ASSUME NEW p \in Callers, KeyExists(p) PROVE IdentityInv'
  BY <1>4 DEF KeyExists
<1>5. ASSUME NEW p \in Callers, CreateKey(p) PROVE IdentityInv'
  BY <1>5 DEF CreateKey, MayCreate
<1>6. ASSUME NEW p \in Callers, WriteKey(p) PROVE IdentityInv'
  BY <1>6 DEF WriteKey
<1>7. ASSUME NEW p \in Callers, CreateCert(p) PROVE IdentityInv'
  BY <1>7 DEF CreateCert, MayCreate
<1>8. ASSUME NEW p \in Callers, WriteCert(p) PROVE IdentityInv'
  BY <1>8 DEF WriteCert
<1>9. ASSUME NEW p \in Callers, ReadCert(p) PROVE IdentityInv'
  BY <1>9 DEF ReadCert
<1>10. ASSUME NEW p \in Callers, ReadKey(p) PROVE IdentityInv'
  BY <1>10 DEF ReadKey
<1>11. ASSUME NEW p \in Callers, Dies(p) PROVE IdentityInv'
  <2>1. /\ ipc'[p] = "failed"
        /\ \A q \in Callers \ {p} : ipc'[q] = ipc[q]
        /\ UNCHANGED <<key, cert, seen, handed>>
    BY <1>11 DEF Dies
  <2>2. Makers' = Makers \ {p}
    BY <2>1
  <2>3. IdentityTypeOK'
    BY <1>11 DEF Dies
  <2>4. MakerInv' /\ OneMaker'
    BY <2>1, <2>2
  <2>5. ReaderInv'
    BY <2>1, <2>2
  <2>6. WholeInv'
    <3>1. CASE p \in Makers
      BY <1>11, <3>1 DEF Dies
    <3>2. CASE p \notin Makers
      <4>1. Makers' = Makers /\ (~broken' => ~broken)
        BY <1>11, <2>2, <3>2 DEF Dies
      <4> QED
        BY <2>1, <4>1 DEF WholeInv
    <3> QED
      BY <3>1, <3>2
  <2> QED
    BY <2>3, <2>4, <2>5, <2>6
<1> QED
  BY <1>1, <1>2, <1>3, <1>4, <1>5, <1>6, <1>7, <1>8, <1>9, <1>10, <1>11 DEF IdentityNext, Loading

LEMMA IdentityInvIsOne == IdentityInv => OneIdentity
<1> SUFFICES ASSUME IdentityInv PROVE OneIdentity
  OBVIOUS
<1>1. Cardinality(handed) <= 1
  <2>1. Cardinality({key}) = 1 /\ IsFiniteSet({key})
    BY FS_Singleton
  <2>2. handed \subseteq {key}
    BY DEF IdentityInv, ReaderInv
  <2> QED
    BY <2>1, <2>2, FS_Subset
<1>2. ASSUME ~broken, \A p \in Callers : ipc[p] \in Ends
      PROVE  key = cert /\ handed \subseteq {key}
  BY <1>2 DEF IdentityInv, ReaderInv, WholeInv, Makers, Making, Ends
<1> QED
  BY <1>1, <1>2 DEF OneIdentity

\* Whoever loads the TLS identity, however their steps interleave and
\* wherever they die, all get the same one (identity in airdrop/mod.rs).
THEOREM IdentityIsOne == IdentitySpec => []OneIdentity
<1>1. IdentitySpec => []IdentityInv
  BY IdentityInitInv, IdentityStepInv, PTL DEF IdentitySpec
<1> QED
  BY <1>1, IdentityInvIsOne, PTL
-----------------------------------------------------------------------------
(* The archive: what the walk still has to add lies apart, nothing of it is *)
(* in the archive yet, and every folder on a path is an entry before it.    *)

Names == {NameOf[n] : n \in Nodes}
ArchivePath == Seq(Names) \ {<<>>}
Item == [node : Nodes, path : ArchivePath]
Entry == [path : ArchivePath, kind : {"file", "folder"}, size : 0 .. MaxFile, data : Nat]
Busy == {"add", "list", "open", "copy", "check"}

LastName(p) == p[Len(p)]
\* Path q is p or lies below it.
Extends(q, p) == Len(p) <= Len(q) /\ \A k \in 1 .. Len(p) : q[k] = p[k]

\* What the walk has in hand while it is at a selected path.
SpoolType ==
  /\ todo \in Seq(Item) /\ entries \in Seq(Entry)
  /\ opc \in Busy => next <= Len(files)
  /\ opc \in {"list", "open", "copy", "check"} => todo # <<>>

\* Every entry has the data its header announces, but the one being copied.
Copied ==
  /\ \A i \in DOMAIN entries : entries[i].data = entries[i].size \/ (opc = "copy" /\ i = Len(entries))
  /\ opc = "copy" => entries # <<>> /\ entries[Len(entries)].size = open.was

\* There is room for the trailer, and for the header of what may be added.
Counted ==
  /\ entries # <<>> => Len(entries) + 1 <= MaxEntries
  /\ opc \in {"list", "open"} => Len(entries) + 1 < MaxEntries

\* No path of the archive is too long, nor that of what may be added.
Short ==
  /\ \A i \in DOMAIN entries : entries[i].path \notin LongPaths
  /\ opc \in {"list", "open"} => Path \notin LongPaths

\* No path still to be added lies below another, and none of the archive lies
\* below one of those, but for the file whose entry has been begun.
Apart == \A i, j \in DOMAIN todo : Extends(todo[i].path, todo[j].path) => i = j
Fresh == \A i \in DOMAIN todo, j \in DOMAIN entries :
           Extends(entries[j].path, todo[i].path) => i = 1 /\ opc \in {"copy", "check"}
Distinct == \A i, j \in DOMAIN entries : entries[i].path = entries[j].path => i = j

\* The selected paths walked so far, the one at hand included while it is.
Walked == IF opc \in Busy THEN 1 .. next ELSE 1 .. next - 1
Rooted ==
  /\ opc \in Busy => \A i \in DOMAIN todo : todo[i].path[1] = NameOf[files[next]]
  /\ \A i \in DOMAIN entries : \E j \in Walked : entries[i].path[1] = NameOf[files[j]]

\* Every name on a path is the last one of an entry.
Named ==
  /\ \A i \in DOMAIN entries : \A k \in DOMAIN entries[i].path :
        \E j \in DOMAIN entries : LastName(entries[j].path) = entries[i].path[k]
  /\ \A i \in DOMAIN todo : \A k \in 1 .. Len(todo[i].path) - 1 :
        \E j \in DOMAIN entries : LastName(entries[j].path) = todo[i].path[k]

Sound == Copied /\ Counted /\ Short /\ Apart /\ Fresh /\ Distinct /\ Rooted /\ Named
PrepareInv == OutgoingTypeOK /\ SpoolType /\ (opc # "failed" => Sound)

LEMMA PathParts ==
  ASSUME NEW p \in ArchivePath
  PROVE  /\ Len(p) \in Nat \ {0} /\ DOMAIN p = 1 .. Len(p)
         /\ \A k \in 1 .. Len(p) : p[k] \in Names
         /\ Extends(p, p)
<1>1. p \in Seq(Names) /\ p # <<>>
  BY DEF ArchivePath
<1>2. Len(p) \in Nat /\ Len(p) # 0 /\ DOMAIN p = 1 .. Len(p) /\ \A k \in 1 .. Len(p) : p[k] \in Names
  BY <1>1
<1> QED
  BY <1>2 DEF Extends

LEMMA PathBelow ==
  ASSUME NEW p \in ArchivePath, NEW n \in Nodes
  PROVE  LET q == Append(p, NameOf[n]) IN
         /\ q \in ArchivePath
         /\ Len(q) = Len(p) + 1 /\ q[Len(p) + 1] = NameOf[n]
         /\ \A k \in 1 .. Len(p) : q[k] = p[k]
<1>1. p \in Seq(Names) /\ NameOf[n] \in Names
  BY DEF ArchivePath, Names
<1> QED
  BY <1>1 DEF ArchivePath

\* What lies below one of two paths apart lies apart from the other.
LEMMA BelowApart ==
  ASSUME NEW p \in ArchivePath, NEW r \in ArchivePath, NEW n \in Nodes,
         ~Extends(p, r), ~Extends(r, p)
  PROVE  LET q == Append(p, NameOf[n]) IN ~Extends(q, r) /\ ~Extends(r, q)
<1> DEFINE q == Append(p, NameOf[n])
<1>1. /\ Len(q) = Len(p) + 1 /\ \A k \in 1 .. Len(p) : q[k] = p[k]
      /\ Len(p) \in Nat /\ Len(r) \in Nat
  BY PathBelow, PathParts
<1> HIDE DEF q
<1>2. ~Extends(q, r)
  <2> SUFFICES ASSUME Extends(q, r) PROVE FALSE
    OBVIOUS
  <2>1. CASE Len(r) <= Len(p)
    BY <1>1, <2>1 DEF Extends
  <2>2. CASE Len(r) = Len(p) + 1
    <3>1. \A k \in 1 .. Len(p) : r[k] = p[k]
      BY <1>1, <2>2 DEF Extends
    <3> QED
      BY <1>1, <2>2, <3>1 DEF Extends
  <2> QED
    BY <1>1, <2>1, <2>2 DEF Extends
<1>3. ~Extends(r, q)
  BY <1>1 DEF Extends
<1> QED
  BY <1>2, <1>3 DEF q
LEMMA Bounds ==
  /\ MaxDepth \in Nat /\ MaxEntries \in Nat /\ MaxFile \in Nat /\ MaxTransfer \in Nat
  /\ MaxSize \in Nat \ {0} /\ MaxChanges \in Nat
BY OutgoingAssumption

LEMMA PrepareStart == OutgoingInit => PrepareInv
<1> SUFFICES ASSUME OutgoingInit PROVE PrepareInv
  OBVIOUS
<1>1. files \in Seq(Nodes) /\ Len(files) \in Nat
  BY OutgoingAssumption DEF OutgoingInit
<1>2. OutgoingTypeOK
  <2>1. kind \in [Nodes -> Kinds] /\ size \in [Nodes -> 0 .. MaxSize]
    BY Bounds DEF OutgoingInit, Kinds
  <2>2. next \in 1 .. Len(files) + 1 /\ changes \in 0 .. MaxChanges /\ total \in 0 .. MaxTransfer
    BY <1>1, Bounds DEF OutgoingInit
  <2>3. open \in [was : 0 .. MaxSize, now : 0 .. MaxSize, linked : BOOLEAN]
    BY Bounds DEF OutgoingInit
  <2>4. /\ \A i \in DOMAIN todo : todo[i].node \in Nodes
        /\ \A i \in DOMAIN entries : entries[i].size \in 0 .. MaxFile
    BY DEF OutgoingInit
  <2>5. opc = "idle" /\ token = FALSE
    BY DEF OutgoingInit
  <2> QED
    BY <1>1, <2>1, <2>2, <2>3, <2>4, <2>5 DEF OutgoingTypeOK
<1>3. opc = "idle" /\ todo = <<>> /\ entries = <<>>
  BY DEF OutgoingInit
<1> QED
  BY <1>2, <1>3
  DEF PrepareInv, SpoolType, Sound, Copied, Counted, Short, Apart, Fresh, Distinct, Rooted, Named, Busy

\* The types of what the walk is at, as the steps below use them.
LEMMA AtHand ==
  ASSUME PrepareInv, todo # <<>>
  PROVE  /\ Node = todo[1].node /\ Path = todo[1].path
         /\ Node \in Nodes /\ Path \in ArchivePath
         /\ Len(todo) \in Nat \ {0} /\ DOMAIN todo = 1 .. Len(todo)
         /\ Tail(todo) \in Seq(Item) /\ Len(Tail(todo)) = Len(todo) - 1
         /\ \A i \in 1 .. Len(todo) - 1 : Tail(todo)[i] = todo[i + 1]
         /\ \A i \in 1 .. Len(todo) : todo[i].node \in Nodes /\ todo[i].path \in ArchivePath
<1>1. todo \in Seq(Item)
  BY DEF PrepareInv, SpoolType
<1>2. \A i \in 1 .. Len(todo) : todo[i].node \in Nodes /\ todo[i].path \in ArchivePath
  <2>1. \A i \in 1 .. Len(todo) : todo[i] \in Item
    BY <1>1
  <2> QED
    BY <2>1 DEF Item
<1>3. /\ Head(todo) = todo[1] /\ Len(todo) \in Nat \ {0} /\ DOMAIN todo = 1 .. Len(todo)
      /\ Tail(todo) \in Seq(Item) /\ Len(Tail(todo)) = Len(todo) - 1
      /\ \A i \in 1 .. Len(todo) - 1 : Tail(todo)[i] = todo[i + 1]
  BY <1>1
<1> QED
  BY <1>2, <1>3 DEF Node, Path

LEMMA EntriesAre ==
  ASSUME PrepareInv
  PROVE  /\ entries \in Seq(Entry) /\ Len(entries) \in Nat /\ DOMAIN entries = 1 .. Len(entries)
         /\ \A i \in 1 .. Len(entries) :
              /\ entries[i] \in Entry /\ entries[i].path \in ArchivePath
              /\ entries[i].kind \in {"file", "folder"} /\ entries[i].size \in 0 .. MaxFile
              /\ entries[i].data \in Nat
<1>1. entries \in Seq(Entry)
  BY DEF PrepareInv, SpoolType
<1>2. /\ Len(entries) \in Nat /\ DOMAIN entries = 1 .. Len(entries)
      /\ \A i \in 1 .. Len(entries) : entries[i] \in Entry
  BY <1>1
<1> QED
  BY <1>1, <1>2 DEF Entry

\* What does not touch the archive.
LEMMA SpoolStays ==
  ASSUME PrepareInv, OutgoingTypeOK', UNCHANGED <<opc, files, next, todo, entries>>,
         open'.was = open.was
  PROVE  PrepareInv'
BY DEF PrepareInv, SpoolType, Sound, Copied, Counted, Short, Apart, Fresh, Distinct, Rooted, Named,
       Walked, Path

LEMMA SpoolFails ==
  ASSUME PrepareInv, OutgoingTypeOK', opc' = "failed", UNCHANGED <<todo, entries>>
  PROVE  PrepareInv'
BY DEF PrepareInv, SpoolType, Busy

\* What others do to the files, or to the transfer, changes nothing spooled.
LEMMA WorldStep ==
  ASSUME PrepareInv, Others \/ Drop
  PROVE  PrepareInv'
<1>1. OutgoingTypeOK /\ open \in [was : 0 .. MaxSize, now : 0 .. MaxSize, linked : BOOLEAN]
  BY DEF PrepareInv, OutgoingTypeOK
<1>2. CASE Drop
  <2>1. OutgoingTypeOK'
    BY <1>1, <1>2 DEF Drop, OutgoingTypeOK, world, spool
  <2> QED
    BY <1>2, <2>1, SpoolStays DEF Drop, spool
<1>3. ASSUME NEW n \in Nodes, NEW s \in 0 .. MaxSize, Resize(n, s) PROVE PrepareInv'
  <2>1. /\ open' \in [was : 0 .. MaxSize, now : 0 .. MaxSize, linked : BOOLEAN]
        /\ open'.was = open.was
    BY <1>1, <1>3 DEF Resize
  <2>2. size' \in [Nodes -> 0 .. MaxSize] /\ changes' \in 0 .. MaxChanges
    <3>1. size \in [Nodes -> 0 .. MaxSize] /\ size' = [size EXCEPT ![n] = s]
      BY <1>1, <1>3 DEF Resize, OutgoingTypeOK
    <3>2. changes \in Nat /\ changes < MaxChanges /\ changes' = changes + 1
      BY <1>1, <1>3, Bounds DEF Resize, OutgoingTypeOK
    <3> QED
      BY <3>1, <3>2, Bounds
  <2>3. OutgoingTypeOK'
    BY <1>1, <1>3, <2>1, <2>2 DEF Resize, OutgoingTypeOK
  <2> QED
    BY <1>3, <2>1, <2>3, SpoolStays DEF Resize
<1>4. ASSUME NEW n \in Nodes, NEW k \in Kinds, Replace(n, k) PROVE PrepareInv'
  <2>1. /\ open' \in [was : 0 .. MaxSize, now : 0 .. MaxSize, linked : BOOLEAN]
        /\ open'.was = open.was
    BY <1>1, <1>4 DEF Replace
  <2>2. kind' \in [Nodes -> Kinds] /\ changes' \in 0 .. MaxChanges
    BY <1>1, <1>4, Bounds DEF Replace, OutgoingTypeOK
  <2>3. OutgoingTypeOK'
    BY <1>1, <1>4, <2>1, <2>2 DEF Replace, OutgoingTypeOK
  <2> QED
    BY <1>4, <2>1, <2>3, SpoolStays DEF Replace
<1> QED
  BY <1>2, <1>3, <1>4 DEF Others
\* The entry of what is at hand is a new one, whose names have all been seen.
LEMMA EntryAdded ==
  ASSUME PrepareInv, todo # <<>>, Distinct, Named, NEW e \in Entry, e.path = Path,
         \A j \in DOMAIN entries : ~Extends(entries[j].path, Path),
         entries' = Append(entries, e)
  PROVE  /\ entries' \in Seq(Entry) /\ Len(entries') = Len(entries) + 1
         /\ DOMAIN entries' = 1 .. Len(entries) + 1
         /\ entries'[Len(entries) + 1] = e
         /\ \A i \in 1 .. Len(entries) : entries'[i] = entries[i]
         /\ Distinct'
         /\ \A i \in DOMAIN entries' : \A k \in DOMAIN entries'[i].path :
               \E j \in DOMAIN entries' : LastName(entries'[j].path) = entries'[i].path[k]
         /\ \A i \in DOMAIN todo : \A k \in 1 .. Len(todo[i].path) - 1 :
               \E j \in DOMAIN entries' : LastName(entries'[j].path) = todo[i].path[k]
<1>1. /\ entries \in Seq(Entry) /\ Len(entries) \in Nat /\ DOMAIN entries = 1 .. Len(entries)
      /\ \A i \in 1 .. Len(entries) : entries[i].path \in ArchivePath
  BY EntriesAre
<1>2. /\ entries' \in Seq(Entry) /\ Len(entries') = Len(entries) + 1
      /\ DOMAIN entries' = 1 .. Len(entries) + 1
      /\ entries'[Len(entries) + 1] = e
      /\ \A i \in 1 .. Len(entries) : entries'[i] = entries[i]
  BY <1>1
<1>3. Path \in ArchivePath /\ Path = todo[1].path /\ 1 \in DOMAIN todo
  BY AtHand
<1>4. Len(Path) \in Nat \ {0} /\ DOMAIN Path = 1 .. Len(Path) /\ Extends(Path, Path)
  BY <1>3, PathParts
<1>5. Distinct'
  BY <1>1, <1>2, <1>4 DEF Distinct
<1>6. \A i \in DOMAIN todo : \A k \in 1 .. Len(todo[i].path) - 1 :
         \E j \in DOMAIN entries' : LastName(entries'[j].path) = todo[i].path[k]
  <2> SUFFICES ASSUME NEW i \in DOMAIN todo, NEW k \in 1 .. Len(todo[i].path) - 1
               PROVE  \E j \in DOMAIN entries' : LastName(entries'[j].path) = todo[i].path[k]
    OBVIOUS
  <2>1. PICK j \in DOMAIN entries : LastName(entries[j].path) = todo[i].path[k]
    BY DEF Named
  <2>2. j \in DOMAIN entries' /\ entries'[j] = entries[j]
    BY <1>1, <1>2
  <2> QED
    BY <2>1, <2>2
<1>7. \A k \in 1 .. Len(Path) :
         \E j \in DOMAIN entries' : LastName(entries'[j].path) = Path[k]
  <2> SUFFICES ASSUME NEW k \in 1 .. Len(Path)
               PROVE  \E j \in DOMAIN entries' : LastName(entries'[j].path) = Path[k]
    OBVIOUS
  <2>1. CASE k = Len(Path)
    <3>1. Len(entries) + 1 \in DOMAIN entries' /\ LastName(entries'[Len(entries) + 1].path) = Path[k]
      BY <1>1, <1>2, <2>1 DEF LastName
    <3> QED
      BY <3>1
  <2>2. CASE k \in 1 .. Len(todo[1].path) - 1
    BY <1>3, <1>6, <2>2
  <2> QED
    BY <1>3, <1>4, <2>1, <2>2
<1>8. \A i \in DOMAIN entries' : \A k \in DOMAIN entries'[i].path :
         \E j \in DOMAIN entries' : LastName(entries'[j].path) = entries'[i].path[k]
  <2> SUFFICES ASSUME NEW i \in DOMAIN entries', NEW k \in DOMAIN entries'[i].path
               PROVE  \E j \in DOMAIN entries' : LastName(entries'[j].path) = entries'[i].path[k]
    OBVIOUS
  <2>1. CASE i = Len(entries) + 1
    BY <1>2, <1>4, <1>7, <2>1
  <2>2. CASE i \in DOMAIN entries
    <3>1. entries'[i] = entries[i]
      BY <1>1, <1>2, <2>2
    <3>2. PICK j \in DOMAIN entries : LastName(entries[j].path) = entries[i].path[k]
      BY <2>2, <3>1 DEF Named
    <3>3. j \in DOMAIN entries' /\ entries'[j] = entries[j]
      BY <1>1, <1>2
    <3> QED
      BY <3>1, <3>2, <3>3
  <2> QED
    BY <1>1, <1>2, <2>1, <2>2
<1> QED
  BY <1>2, <1>5, <1>6, <1>8

\* A selected path is taken up.
LEMMA NextPathStep ==
  ASSUME PrepareInv, NextPath
  PROVE  PrepareInv'
<1>0. /\ OutgoingTypeOK /\ SpoolType /\ Sound /\ opc = "path"
      /\ UNCHANGED <<world, token>>
  BY DEF PrepareInv, NextPath
<1>1. CASE Fails
  <2>1. OutgoingTypeOK'
    BY <1>0, <1>1 DEF OutgoingTypeOK, world, Fails, spool, Over
  <2> QED
    BY <1>1, <2>1, SpoolFails DEF Fails, spool
<1>2. CASE ~Fails
  <2> DEFINE n == files[next]
             p == <<NameOf[n]>>
  <2>1. /\ next \in 1 .. Len(files) /\ ~Repeated
        /\ opc' = "add" /\ todo' = <<[node |-> n, path |-> p]>>
        /\ UNCHANGED <<files, next, open, entries, total>>
    BY <1>0, <1>2 DEF NextPath, OutgoingTypeOK
  <2>2. n \in Nodes /\ NameOf[n] \in Names
    BY <1>0, <2>1 DEF OutgoingTypeOK, Names
  <2>3. p \in ArchivePath /\ Len(p) = 1 /\ p[1] = NameOf[n]
    BY <2>2 DEF ArchivePath
  <2>4. /\ todo' \in Seq(Item) /\ Len(todo') = 1 /\ DOMAIN todo' = {1}
        /\ todo'[1].path = p /\ todo'[1].node = n
    BY <2>1, <2>2, <2>3 DEF Item
  <2> HIDE DEF p, n
  <2>5. OutgoingTypeOK'
    BY <1>0, <2>1, <2>2, <2>4 DEF OutgoingTypeOK, world
  <2>6. SpoolType'
    BY <1>0, <2>1, <2>4 DEF SpoolType, Busy
  <2>7. (Copied /\ Counted /\ Short /\ Distinct)'
    BY <1>0, <2>1 DEF Sound, Copied, Counted, Short, Distinct
  <2>8. Apart'
    BY <2>4 DEF Apart
  <2>9. \A j \in DOMAIN entries : ~Extends(entries[j].path, p)
    <3> SUFFICES ASSUME NEW j \in DOMAIN entries, Extends(entries[j].path, p) PROVE FALSE
      OBVIOUS
    <3>1. entries[j].path[1] = NameOf[n]
      BY <2>3 DEF Extends
    <3>2. PICK k \in 1 .. next - 1 : entries[j].path[1] = NameOf[files[k]]
      BY <1>0 DEF Sound, Rooted, Walked, Busy
    <3> QED
      BY <2>1, <3>1, <3>2 DEF Repeated, n
  <2>10. Fresh'
    BY <2>1, <2>4, <2>9 DEF Fresh
  <2>11. Rooted'
    <3>1. todo'[1].path[1] = NameOf[files'[next']]
      BY <2>1, <2>3, <2>4 DEF n
    <3>2. \A i \in DOMAIN entries : \E j \in 1 .. next : entries[i].path[1] = NameOf[files[j]]
      BY <1>0, <2>1 DEF Sound, Rooted, Walked, Busy, OutgoingTypeOK
    <3> QED
      BY <2>1, <2>4, <3>1, <3>2 DEF Rooted, Walked, Busy
  <2>12. Named'
    <3>0. Len(todo'[1].path) = 1 /\ \A i \in DOMAIN todo' : i = 1
      BY <2>3, <2>4
    <3>1. \A i \in DOMAIN todo' : \A k \in 1 .. Len(todo'[i].path) - 1 : FALSE
      <4> SUFFICES ASSUME NEW i \in DOMAIN todo', NEW k \in 1 .. Len(todo'[i].path) - 1 PROVE FALSE
        OBVIOUS
      <4>1. Len(todo'[i].path) = 1
        BY <3>0
      <4> QED
        BY <4>1
    <3> QED
      BY <1>0, <2>1, <3>1 DEF Sound, Named
  <2> QED
    BY <2>5, <2>6, <2>7, <2>8, <2>10, <2>11, <2>12 DEF PrepareInv, Sound
<1> QED
  BY <1>1, <1>2
\* All that a selected path holds has been added.
LEMMA PathAddedStep ==
  ASSUME PrepareInv, PathAdded
  PROVE  PrepareInv'
<1>0. /\ OutgoingTypeOK /\ SpoolType /\ Sound /\ opc = "add" /\ todo = <<>>
      /\ UNCHANGED <<kind, size, changes, token, files, todo, open, entries, total>>
      /\ next' = next + 1 /\ opc' \in {"compress", "path"}
  BY DEF PrepareInv, PathAdded, world
<1>1. Len(files) \in Nat /\ next \in 1 .. Len(files)
  BY <1>0 DEF OutgoingTypeOK, SpoolType, Busy
<1>2. next' \in 1 .. Len(files) + 1
  BY <1>0, <1>1
<1>3. OutgoingTypeOK'
  BY <1>0, <1>2 DEF OutgoingTypeOK
<1>4. SpoolType'
  BY <1>0 DEF SpoolType, Busy
<1>5. (Copied /\ Counted /\ Short /\ Apart /\ Distinct /\ Named)'
  BY <1>0 DEF Sound, Copied, Counted, Short, Apart, Distinct, Named
<1>6. Fresh'
  BY <1>0 DEF Fresh
<1>7. Rooted'
  <2>1. Walked' = Walked
    BY <1>0, <1>1 DEF Walked, Busy
  <2> QED
    BY <1>0, <2>1 DEF Sound, Rooted, Busy
<1> QED
  BY <1>3, <1>4, <1>5, <1>6, <1>7 DEF PrepareInv, Sound

\* The header of a file is written.
LEMMA OpenStep ==
  ASSUME PrepareInv, Open
  PROVE  PrepareInv'
<1>0. /\ OutgoingTypeOK /\ SpoolType /\ Sound /\ opc = "open" /\ todo # <<>>
      /\ UNCHANGED <<kind, size, changes, token>>
  BY DEF PrepareInv, Open, SpoolType, world
<1>1. CASE Fails
  <2>1. OutgoingTypeOK'
    BY <1>0, <1>1 DEF OutgoingTypeOK, Fails, spool, Over
  <2> QED
    BY <1>1, <2>1, SpoolFails DEF Fails, spool
<1>2. CASE ~Fails
  <2> DEFINE s == size[Node]
             e == [path |-> Path, kind |-> "file", size |-> s, data |-> 0]
  <2>0. s \in 0 .. MaxSize /\ total \in 0 .. MaxTransfer
    BY <1>0, AtHand DEF OutgoingTypeOK
  <2>1. /\ ~(s > MaxTransfer - total) /\ ~(s > MaxFile)
        /\ opc' = "copy" /\ open' = [was |-> s, now |-> s, linked |-> TRUE]
        /\ entries' = Append(entries, e) /\ total' = total + s
        /\ UNCHANGED <<files, next, todo>>
    BY <1>2 DEF Open
  <2>2. s \in 0 .. MaxSize /\ s \in 0 .. MaxFile
    BY <2>0, <2>1, Bounds
  <2>3. e \in Entry /\ e.path = Path /\ e.size = s
    BY <2>2, <1>0, AtHand DEF Entry
  <2>4. 1 \in DOMAIN todo /\ Path = todo[1].path
    BY <1>0, AtHand
  <2>5. \A j \in DOMAIN entries : ~Extends(entries[j].path, Path)
    BY <1>0, <2>4 DEF Sound, Fresh
  <2>6. /\ entries' \in Seq(Entry) /\ Len(entries') = Len(entries) + 1
        /\ DOMAIN entries' = 1 .. Len(entries) + 1
        /\ entries'[Len(entries) + 1] = e
        /\ \A i \in 1 .. Len(entries) : entries'[i] = entries[i]
        /\ Len(entries) \in Nat /\ DOMAIN entries = 1 .. Len(entries)
    BY <1>0, <2>1, <2>3, <2>5, EntryAdded, EntriesAre DEF Sound
  <2>7. Distinct' /\ Named'
    BY <1>0, <2>1, <2>3, <2>5, EntryAdded DEF Sound, Named
  <2>8. OutgoingTypeOK'
    <3>1. total' \in 0 .. MaxTransfer
      <4> HIDE DEF s
      <4> QED
        BY <2>0, <2>1, Bounds
    <3>2. open' \in [was : 0 .. MaxSize, now : 0 .. MaxSize, linked : BOOLEAN]
      BY <2>1, <2>2
    <3>3. \A i \in DOMAIN entries' : entries'[i].size \in 0 .. MaxFile
      <4>1. \A i \in 1 .. Len(entries) : entries'[i].size \in 0 .. MaxFile
        BY <2>6, EntriesAre
      <4>2. entries'[Len(entries) + 1].size \in 0 .. MaxFile
        BY <2>2, <2>3, <2>6
      <4> QED
        BY <2>6, <4>1, <4>2
    <3> QED
      BY <1>0, <2>1, <3>1, <3>2, <3>3 DEF OutgoingTypeOK
  <2> HIDE DEF e, s
  <2>9. SpoolType'
    BY <1>0, <2>1, <2>6 DEF SpoolType, Busy
  <2>10. Copied'
    <3>1. entries' # <<>>
      BY <2>6
    <3>2. entries'[Len(entries')].size = open'.was
      BY <2>1, <2>3, <2>6
    <3>3. \A i \in 1 .. Len(entries) : entries'[i].data = entries'[i].size
      BY <1>0, <2>6 DEF Sound, Copied
    <3> QED
      BY <2>1, <2>6, <3>1, <3>2, <3>3 DEF Copied
  <2>11. Counted'
    BY <1>0, <2>1, <2>6, Bounds DEF Sound, Counted
  <2>12. Apart' /\ Short'
    <3>1. \A i \in 1 .. Len(entries) + 1 : entries'[i].path \notin LongPaths
      BY <1>0, <2>3, <2>6 DEF Sound, Short
    <3> QED
      BY <1>0, <2>1, <2>6, <3>1 DEF Sound, Apart, Short
  <2>13. Fresh'
    <3> SUFFICES ASSUME NEW i \in DOMAIN todo, NEW j \in DOMAIN entries',
                        Extends(entries'[j].path, todo[i].path)
                 PROVE  i = 1
      BY <2>1 DEF Fresh
    <3>1. CASE j \in 1 .. Len(entries)
      BY <1>0, <2>6, <3>1 DEF Sound, Fresh
    <3>2. CASE j = Len(entries) + 1
      BY <1>0, <2>3, <2>4, <2>6, <3>2 DEF Sound, Apart
    <3> QED
      BY <2>6, <3>1, <3>2
  <2>14. Rooted'
    <3>1. Walked' = Walked /\ Walked = 1 .. next /\ next \in Nat \ {0}
      BY <1>0, <2>1 DEF Walked, Busy, OutgoingTypeOK
    <3>2. \A i \in DOMAIN todo : todo[i].path[1] = NameOf[files[next]]
      BY <1>0 DEF Sound, Rooted, Busy
    <3>3. next \in Walked /\ e.path[1] = NameOf[files[next]]
      BY <2>3, <2>4, <3>1, <3>2
    <3>4. \A i \in 1 .. Len(entries) : \E j \in Walked : entries[i].path[1] = NameOf[files[j]]
      BY <1>0, <2>6 DEF Sound, Rooted
    <3>5. \A i \in DOMAIN entries' : \E j \in Walked : entries'[i].path[1] = NameOf[files[j]]
      BY <2>6, <3>3, <3>4
    <3> QED
      BY <2>1, <3>1, <3>2, <3>5 DEF Rooted
  <2> QED
    BY <2>7, <2>8, <2>9, <2>10, <2>11, <2>12, <2>13, <2>14 DEF PrepareInv, Sound
<1> QED
  BY <1>1, <1>2
LEMMA TupleIsSeq ==
  ASSUME NEW S, NEW n \in Nat, NEW f \in [1 .. n -> S]
  PROVE  f \in Seq(S) /\ Len(f) = n
OBVIOUS

LEMMA JoinedSeqs ==
  ASSUME NEW S, NEW a \in Seq(S), NEW b \in Seq(S)
  PROVE  /\ a \o b \in Seq(S) /\ Len(a \o b) = Len(a) + Len(b)
         /\ DOMAIN (a \o b) = 1 .. Len(a) + Len(b)
         /\ \A i \in 1 .. Len(a) : (a \o b)[i] = a[i]
         /\ \A i \in Len(a) + 1 .. Len(a) + Len(b) : (a \o b)[i] = b[i - Len(a)]
OBVIOUS

\* What may be added is left to be opened or listed.
LEMMA AddStep ==
  ASSUME PrepareInv, Add
  PROVE  PrepareInv'
<1>0. /\ OutgoingTypeOK /\ SpoolType /\ Sound /\ opc = "add" /\ todo # <<>>
      /\ UNCHANGED <<kind, size, changes, token>>
  BY DEF PrepareInv, Add, world
<1>1. CASE Fails
  <2>1. OutgoingTypeOK'
    BY <1>0, <1>1 DEF OutgoingTypeOK, Fails, spool, Over
  <2> QED
    BY <1>1, <2>1, SpoolFails DEF Fails, spool
<1>2. ASSUME CountFits, Path \notin LongPaths, opc' \in {"list", "open"}, UNCHANGED spool
      PROVE  PrepareInv'
  <2>0. UNCHANGED <<files, next, todo, open, entries, total>>
    BY <1>2 DEF spool
  <2>1. OutgoingTypeOK'
    BY <1>0, <1>2, <2>0 DEF OutgoingTypeOK
  <2>2. SpoolType'
    BY <1>0, <1>2, <2>0 DEF SpoolType, Busy
  <2>3. Walked' = Walked
    BY <1>0, <1>2, <2>0 DEF Walked, Busy
  <2>4. (Apart /\ Distinct /\ Named)'
    BY <1>0, <2>0 DEF Sound, Apart, Distinct, Named
  <2>5. (Copied /\ Counted)'
    BY <1>0, <1>2, <2>0 DEF Sound, Copied, Counted, CountFits
  <2>6. Fresh'
    BY <1>0, <2>0 DEF Sound, Fresh
  <2>7. Short'
    BY <1>0, <1>2, <2>0 DEF Sound, Short, Path
  <2>8. Rooted'
    BY <1>0, <1>2, <2>0, <2>3 DEF Sound, Rooted, Busy
  <2> QED
    BY <2>1, <2>2, <2>4, <2>5, <2>6, <2>7, <2>8 DEF PrepareInv, Sound
<1> QED
  BY <1>1, <1>2 DEF Add

\* A folder is an entry itself, and what it holds comes next.
LEMMA ReadDirStep ==
  ASSUME PrepareInv, ReadDir
  PROVE  PrepareInv'
<1>0. /\ OutgoingTypeOK /\ SpoolType /\ Sound /\ opc = "list" /\ todo # <<>>
      /\ UNCHANGED <<kind, size, changes, token>>
  BY DEF PrepareInv, ReadDir, SpoolType, world
<1>1. CASE Fails
  <2>1. OutgoingTypeOK'
    BY <1>0, <1>1 DEF OutgoingTypeOK, Fails, spool, Over
  <2> QED
    BY <1>1, <2>1, SpoolFails DEF Fails, spool
<1>2. CountFits /\ Path \notin LongPaths
  BY <1>0 DEF Sound, Counted, Short, CountFits
<1>3. ASSUME opc' = "add", UNCHANGED <<files, next, open, total>>,
             entries' = Append(entries, [path |-> Path, kind |-> "folder", size |-> 0, data |-> 0]),
             todo' = Below \o Tail(todo)
      PROVE  PrepareInv'
  <2> DEFINE e == [path |-> Path, kind |-> "folder", size |-> 0, data |-> 0]
             cs == Children[Node]
  <2>1. e \in Entry /\ e.path = Path /\ e.size = 0 /\ e.data = 0
    BY <1>0, AtHand, Bounds DEF Entry
  <2>2. 1 \in DOMAIN todo /\ Path = todo[1].path /\ Path \in ArchivePath /\ Len(Path) \in Nat \ {0}
    BY <1>0, AtHand, PathParts
  <2>3. \A j \in DOMAIN entries : ~Extends(entries[j].path, Path)
    BY <1>0, <2>2 DEF Sound, Fresh
  <2>4. /\ entries' \in Seq(Entry) /\ Len(entries') = Len(entries) + 1
        /\ DOMAIN entries' = 1 .. Len(entries) + 1
        /\ entries'[Len(entries) + 1] = e
        /\ \A i \in 1 .. Len(entries) : entries'[i] = entries[i]
        /\ Len(entries) \in Nat /\ DOMAIN entries = 1 .. Len(entries)
    BY <1>0, <1>3, <2>1, <2>3, EntryAdded, EntriesAre DEF Sound
  <2>5. /\ Distinct'
        /\ \A i \in DOMAIN entries' : \A k \in DOMAIN entries'[i].path :
              \E j \in DOMAIN entries' : LastName(entries'[j].path) = entries'[i].path[k]
        /\ \A i \in DOMAIN todo : \A k \in 1 .. Len(todo[i].path) - 1 :
              \E j \in DOMAIN entries' : LastName(entries'[j].path) = todo[i].path[k]
    BY <1>0, <1>3, <2>1, <2>3, EntryAdded DEF Sound
  \* What comes next is what the folder holds, before what was to come.
  <2>6. /\ cs \in Seq(Nodes) /\ Len(cs) \in Nat /\ DOMAIN cs = 1 .. Len(cs)
        /\ \A i \in 1 .. Len(cs) : cs[i] \in Nodes
        /\ \A i, j \in 1 .. Len(cs) : NameOf[cs[i]] = NameOf[cs[j]] => i = j
    <3>1. Node \in Nodes
      BY <1>0, AtHand
    <3>2. cs \in Seq(Nodes)
      BY <3>1, OutgoingAssumption
    <3>3. Len(cs) \in Nat /\ DOMAIN cs = 1 .. Len(cs) /\ \A i \in 1 .. Len(cs) : cs[i] \in Nodes
      BY <3>2
    <3>4. \A i, j \in DOMAIN cs : NameOf[cs[i]] = NameOf[cs[j]] => i = j
      BY <3>1, OutgoingAssumption
    <3> QED
      BY <3>2, <3>3, <3>4
  <2> HIDE DEF e
  <2>7. /\ Below \in Seq(Item) /\ Len(Below) = Len(cs)
        /\ \A i \in 1 .. Len(cs) : /\ Below[i].path = Append(Path, NameOf[cs[i]])
                                   /\ Below[i].path \in ArchivePath
    <3>1. Below = [i \in 1 .. Len(cs) |-> [node |-> cs[i], path |-> Append(Path, NameOf[cs[i]])]]
      BY <2>6 DEF Below
    <3> HIDE DEF cs
    <3>2. \A i \in 1 .. Len(cs) : /\ Append(Path, NameOf[cs[i]]) \in ArchivePath
                                  /\ cs[i] \in Nodes
      BY <2>2, <2>6, PathBelow
    <3>3. \A i \in 1 .. Len(cs) : /\ Below[i] = [node |-> cs[i], path |-> Append(Path, NameOf[cs[i]])]
                                  /\ Below[i] \in Item
      BY <3>1, <3>2 DEF Item
    <3>4. Below \in [1 .. Len(cs) -> Item]
      BY <3>1, <3>3
    <3>5. Below \in Seq(Item) /\ Len(Below) = Len(cs)
      BY <2>6, <3>4, TupleIsSeq
    <3>6. \A i \in 1 .. Len(cs) : Below[i].path = Append(Path, NameOf[cs[i]])
      <4> SUFFICES ASSUME NEW i \in 1 .. Len(cs)
                   PROVE  Below[i].path = Append(Path, NameOf[cs[i]])
        OBVIOUS
      <4> DEFINE q == Append(Path, NameOf[cs[i]])
      <4>1. Below[i] = [node |-> cs[i], path |-> q]
        BY <3>3
      <4> HIDE DEF q
      <4>2. Below[i].path = q
        BY <4>1
      <4> QED
        BY <4>2 DEF q
    <3> QED
      BY <3>2, <3>5, <3>6
  <2> DEFINE m == Len(cs)
             t == Tail(todo)
  <2>8. /\ t \in Seq(Item) /\ Len(t) \in Nat /\ Len(t) = Len(todo) - 1
        /\ \A i \in 1 .. Len(t) : t[i] = todo[i + 1] /\ i + 1 \in DOMAIN todo
    BY <1>0, AtHand
  <2> HIDE DEF t, cs
  <2>9. /\ todo' \in Seq(Item) /\ Len(todo') = m + Len(t) /\ DOMAIN todo' = 1 .. m + Len(t)
        /\ \A i \in 1 .. m : todo'[i] = Below[i]
        /\ \A i \in m + 1 .. m + Len(t) : todo'[i] = t[i - m]
    <3>1. todo' = Below \o t
      BY <1>3 DEF t
    <3>2. Len(Below) = m /\ m \in Nat /\ Len(t) \in Nat
      BY <2>6, <2>7, <2>8
    <3>3. /\ todo' \in Seq(Item) /\ Len(todo') = Len(Below) + Len(t)
          /\ DOMAIN todo' = 1 .. Len(Below) + Len(t)
          /\ \A i \in 1 .. Len(Below) : todo'[i] = Below[i]
          /\ \A i \in Len(Below) + 1 .. Len(Below) + Len(t) : todo'[i] = t[i - Len(Below)]
      <4> HIDE DEF m
      <4> QED
        <5>1. Below \in Seq(Item) /\ t \in Seq(Item)
          BY <2>7, <2>8
        <5>2. /\ Below \o t \in Seq(Item) /\ Len(Below \o t) = Len(Below) + Len(t)
              /\ DOMAIN (Below \o t) = 1 .. Len(Below) + Len(t)
              /\ \A i \in 1 .. Len(Below) : (Below \o t)[i] = Below[i]
              /\ \A i \in Len(Below) + 1 .. Len(Below) + Len(t) :
                    (Below \o t)[i] = t[i - Len(Below)]
          BY <5>1, JoinedSeqs
        <5> QED
          BY <3>1, <5>2
    <3> QED
      BY <3>2, <3>3
  <2>10. \A i \in DOMAIN todo' :
           \/ i \in 1 .. m /\ todo'[i].path = Append(Path, NameOf[cs[i]])
           \/ /\ i \in m + 1 .. m + Len(t)
              /\ i - m + 1 \in DOMAIN todo /\ i - m + 1 # 1 /\ todo'[i] = todo[i - m + 1]
    <3> SUFFICES ASSUME NEW i \in DOMAIN todo'
                 PROVE  \/ i \in 1 .. m /\ todo'[i].path = Append(Path, NameOf[cs[i]])
                        \/ /\ i \in m + 1 .. m + Len(t)
                           /\ i - m + 1 \in DOMAIN todo /\ i - m + 1 # 1 /\ todo'[i] = todo[i - m + 1]
      OBVIOUS
    <3>0. m \in Nat
      BY <2>6
    <3>1. CASE i \in 1 .. m
      BY <2>7, <2>9, <3>1
    <3>2. CASE i \in m + 1 .. m + Len(t)
      <4>1. i - m \in 1 .. Len(t) /\ i - m + 1 # 1
        BY <2>8, <3>0, <3>2
      <4> QED
        BY <2>8, <2>9, <3>2, <4>1
    <3> QED
      BY <2>8, <2>9, <3>0, <3>1, <3>2
  <2>11. \A i \in 1 .. m :
           /\ todo'[i].path = Append(Path, NameOf[cs[i]]) /\ cs[i] \in Nodes
           /\ todo'[i].path \in ArchivePath
           /\ Len(todo'[i].path) = Len(Path) + 1
           /\ todo'[i].path[Len(Path) + 1] = NameOf[cs[i]]
           /\ \A k \in 1 .. Len(Path) : todo'[i].path[k] = Path[k]
    <3> SUFFICES ASSUME NEW i \in 1 .. m
                 PROVE  /\ todo'[i].path = Append(Path, NameOf[cs[i]]) /\ cs[i] \in Nodes
                        /\ todo'[i].path \in ArchivePath
                        /\ Len(todo'[i].path) = Len(Path) + 1
                        /\ todo'[i].path[Len(Path) + 1] = NameOf[cs[i]]
                        /\ \A k \in 1 .. Len(Path) : todo'[i].path[k] = Path[k]
      OBVIOUS
    <3>1. todo'[i].path = Append(Path, NameOf[cs[i]]) /\ cs[i] \in Nodes
      BY <2>6, <2>7, <2>9
    <3> QED
      BY <2>2, <3>1, PathBelow
  <2>12. \A i \in DOMAIN todo : todo[i].path \in ArchivePath
    BY <1>0, AtHand
  <2>13. OutgoingTypeOK'
    <3>1. \A i \in DOMAIN todo' : todo'[i].node \in Nodes
      <4>1. \A i \in DOMAIN todo' : todo'[i] \in Item
        BY <2>9
      <4> QED
        BY <4>1 DEF Item
    <3>2. \A i \in DOMAIN entries' : entries'[i].size \in 0 .. MaxFile
      <4>1. \A i \in 1 .. Len(entries) : entries'[i].size \in 0 .. MaxFile
        BY <2>4, EntriesAre
      <4>2. entries'[Len(entries) + 1].size \in 0 .. MaxFile
        BY <2>1, <2>4, Bounds
      <4> QED
        BY <2>4, <4>1, <4>2
    <3> QED
      BY <1>0, <1>3, <3>1, <3>2 DEF OutgoingTypeOK
  <2>14. SpoolType'
    BY <1>0, <1>3, <2>4, <2>9 DEF SpoolType, Busy
  <2>15. Copied'
    BY <1>0, <1>3, <2>1, <2>4 DEF Sound, Copied
  <2>16. Counted'
    BY <1>2, <1>3, <2>4, Bounds DEF Counted, CountFits
  <2>17. Apart'
    <3> SUFFICES ASSUME NEW i \in DOMAIN todo', NEW j \in DOMAIN todo',
                        Extends(todo'[i].path, todo'[j].path)
                 PROVE  i = j
      BY DEF Apart
    <3>0. m \in Nat /\ Len(t) \in Nat
      BY <2>6, <2>8
    <3>1. CASE i \in 1 .. m /\ j \in 1 .. m
      <4>1. Len(Path) + 1 \in 1 .. Len(todo'[j].path)
        BY <2>2, <2>11, <3>1
      <4>2. NameOf[cs[i]] = NameOf[cs[j]]
        BY <2>11, <3>1, <4>1 DEF Extends
      <4> QED
        BY <2>6, <3>1, <4>2
    <3>2. CASE i \in 1 .. m /\ j \notin 1 .. m
      <4>1. /\ todo'[i].path = Append(Path, NameOf[cs[i]]) /\ cs[i] \in Nodes
            /\ j - m + 1 \in DOMAIN todo /\ j - m + 1 # 1 /\ todo'[j] = todo[j - m + 1]
        BY <2>10, <2>11, <3>2
      <4>2. ~Extends(Path, todo[j - m + 1].path) /\ ~Extends(todo[j - m + 1].path, Path)
        BY <1>0, <2>2, <4>1 DEF Sound, Apart
      <4> QED
        BY <2>2, <2>12, <4>1, <4>2, BelowApart
    <3>3. CASE i \notin 1 .. m /\ j \in 1 .. m
      <4>1. /\ todo'[j].path = Append(Path, NameOf[cs[j]]) /\ cs[j] \in Nodes
            /\ i - m + 1 \in DOMAIN todo /\ i - m + 1 # 1 /\ todo'[i] = todo[i - m + 1]
        BY <2>10, <2>11, <3>3
      <4>2. ~Extends(Path, todo[i - m + 1].path) /\ ~Extends(todo[i - m + 1].path, Path)
        BY <1>0, <2>2, <4>1 DEF Sound, Apart
      <4> QED
        BY <2>2, <2>12, <4>1, <4>2, BelowApart
    <3>4. CASE i \notin 1 .. m /\ j \notin 1 .. m
      <4>1. /\ i - m + 1 \in DOMAIN todo /\ todo'[i] = todo[i - m + 1]
            /\ j - m + 1 \in DOMAIN todo /\ todo'[j] = todo[j - m + 1]
        BY <2>10, <3>4
      <4>2. i - m + 1 = j - m + 1
        BY <1>0, <4>1 DEF Sound, Apart
      <4> QED
        BY <2>9, <3>0, <4>2
    <3> QED
      BY <3>1, <3>2, <3>3, <3>4
  <2>18. Fresh'
    <3> SUFFICES ASSUME NEW i \in DOMAIN todo', NEW j \in DOMAIN entries',
                        Extends(entries'[j].path, todo'[i].path)
                 PROVE  FALSE
      BY DEF Fresh
    <3>1. CASE i \in 1 .. m
      <4>1. todo'[i].path = Append(Path, NameOf[cs[i]])
        BY <2>7, <2>9, <3>1
      <4>2. Extends(entries'[j].path, Path)
        <5>1. Len(entries'[j].path) \in Nat
          BY <2>4, PathParts DEF Entry
        <5>2. /\ Len(todo'[i].path) = Len(Path) + 1 /\ Len(Path) \in Nat
              /\ \A k \in 1 .. Len(Path) : todo'[i].path[k] = Path[k]
          BY <2>2, <2>11, <3>1
        <5>3. Len(Path) <= Len(entries'[j].path)
          BY <5>1, <5>2 DEF Extends
        <5>4. \A k \in 1 .. Len(Path) : entries'[j].path[k] = Path[k]
          <6>1. \A k \in 1 .. Len(todo'[i].path) : entries'[j].path[k] = todo'[i].path[k]
            BY DEF Extends
          <6>2. 1 .. Len(Path) \subseteq 1 .. Len(todo'[i].path)
            BY <5>2
          <6> QED
            BY <5>2, <6>1, <6>2
        <5> QED
          BY <5>3, <5>4 DEF Extends
      <4>3. j = Len(entries) + 1
        BY <2>3, <2>4, <4>2
      <4>4. Len(entries'[j].path) = Len(Path)
        BY <2>1, <2>4, <4>3
      <4> QED
        BY <2>2, <2>11, <3>1, <4>1, <4>4 DEF Extends
    <3>2. CASE i \notin 1 .. m
      <4>1. i - m + 1 \in DOMAIN todo /\ i - m + 1 # 1 /\ todo'[i] = todo[i - m + 1]
        BY <2>10, <3>2
      <4>2. CASE j \in DOMAIN entries
        BY <1>0, <2>4, <4>1, <4>2 DEF Sound, Fresh
      <4>3. CASE j = Len(entries) + 1
        BY <1>0, <2>1, <2>2, <2>4, <4>1, <4>3 DEF Sound, Apart
      <4> QED
        BY <2>4, <4>2, <4>3
    <3> QED
      BY <3>1, <3>2
  <2>19. Rooted'
    <3>1. Walked' = Walked /\ Walked = 1 .. next /\ next \in Walked
      BY <1>0, <1>3 DEF Walked, Busy, OutgoingTypeOK
    <3>2. \A i \in DOMAIN todo : todo[i].path[1] = NameOf[files[next]]
      BY <1>0 DEF Sound, Rooted, Busy
    <3>3. Path[1] = NameOf[files[next]]
      BY <2>2, <3>2
    <3>4. \A i \in DOMAIN todo' : todo'[i].path[1] = NameOf[files[next]]
      <4> SUFFICES ASSUME NEW i \in DOMAIN todo' PROVE todo'[i].path[1] = NameOf[files[next]]
        OBVIOUS
      <4>1. CASE i \in 1 .. m
        BY <2>2, <2>11, <3>3, <4>1
      <4>2. CASE i \notin 1 .. m
        BY <2>10, <3>2, <4>2
      <4> QED
        BY <4>1, <4>2
    <3>5. \A i \in DOMAIN entries' : \E j \in Walked : entries'[i].path[1] = NameOf[files[j]]
      <4>1. \A i \in 1 .. Len(entries) : \E j \in Walked : entries[i].path[1] = NameOf[files[j]]
        BY <1>0, <2>4 DEF Sound, Rooted
      <4> QED
        BY <2>1, <2>4, <3>1, <3>3, <4>1
    <3> QED
      BY <1>3, <3>1, <3>4, <3>5 DEF Rooted
  <2>20. \A i \in DOMAIN todo' : \A k \in 1 .. Len(todo'[i].path) - 1 :
            \E j \in DOMAIN entries' : LastName(entries'[j].path) = todo'[i].path[k]
    <3> SUFFICES ASSUME NEW i \in DOMAIN todo', NEW k \in 1 .. Len(todo'[i].path) - 1
                 PROVE  \E j \in DOMAIN entries' : LastName(entries'[j].path) = todo'[i].path[k]
      OBVIOUS
    <3>1. CASE i \in 1 .. m
      <4>1. k \in 1 .. Len(Path) /\ todo'[i].path[k] = Path[k]
        BY <2>2, <2>11, <3>1
      <4>2. Len(entries) + 1 \in DOMAIN entries' /\ DOMAIN Path = 1 .. Len(Path)
        BY <2>2, <2>4, PathParts
      <4>3. entries'[Len(entries) + 1].path = Path /\ k \in DOMAIN Path
        BY <2>1, <2>4, <4>1, <4>2
      <4>4. \E j \in DOMAIN entries' : LastName(entries'[j].path) = Path[k]
        BY <2>5, <4>2, <4>3
      <4> QED
        BY <4>1, <4>4
    <3>2. CASE i \notin 1 .. m
      BY <2>5, <2>10, <3>2
    <3> QED
      BY <3>1, <3>2
  <2>21. Named'
    BY <2>5, <2>20 DEF Named
  <2>22. Short'
    <3>1. \A i \in 1 .. Len(entries) + 1 : entries'[i].path \notin LongPaths
      BY <1>0, <1>2, <2>1, <2>4 DEF Sound, Short
    <3> QED
      BY <1>3, <2>4, <3>1 DEF Short
  <2> QED
    BY <2>5, <2>13, <2>14, <2>15, <2>16, <2>17, <2>18, <2>19, <2>21, <2>22 DEF PrepareInv, Sound
<1> QED
  BY <1>1, <1>3 DEF ReadDir
\* Its data follow, all that the header announced or the archive fails.
LEMMA CopyStep ==
  ASSUME PrepareInv, Copy
  PROVE  PrepareInv'
<1>0. /\ OutgoingTypeOK /\ SpoolType /\ Sound /\ opc = "copy" /\ todo # <<>>
      /\ UNCHANGED <<kind, size, changes, token>>
  BY DEF PrepareInv, Copy, SpoolType, world
<1>1. CASE Fails
  <2>1. OutgoingTypeOK'
    BY <1>0, <1>1 DEF OutgoingTypeOK, Fails, spool, Over
  <2> QED
    BY <1>1, <2>1, SpoolFails DEF Fails, spool
<1>2. CASE ~Fails
  <2> DEFINE n == Len(entries)
  <2>1. ~(open.now < open.was)
    BY <1>2 DEF Copy, Shorter
  <2>2. /\ opc' = "check" /\ UNCHANGED <<files, next, todo, open, total>>
        /\ entries' = [entries EXCEPT ![n].data = open.was]
    BY <1>2, <2>1 DEF Copy, Shorter
  <2>3. /\ entries \in Seq(Entry) /\ n \in Nat /\ DOMAIN entries = 1 .. n
        /\ \A i \in 1 .. n : entries[i] \in Entry /\ entries[i].size \in 0 .. MaxFile
    BY EntriesAre
  <2>4. n \in 1 .. n /\ entries[n].size = open.was
    BY <1>0, <2>3 DEF Sound, Copied
  <2> HIDE DEF n
  <2>5. open.was \in Nat
    BY <2>3, <2>4, Bounds
  <2>6. /\ DOMAIN entries' = 1 .. n
        /\ \A i \in 1 .. n : i # n => entries'[i] = entries[i]
        /\ entries'[n] = [entries[n] EXCEPT !.data = open.was]
    BY <2>2, <2>3, <2>4
  <2>7. /\ entries'[n] \in Entry /\ entries'[n].path = entries[n].path
        /\ entries'[n].size = entries[n].size /\ entries'[n].data = open.was
    BY <2>3, <2>4, <2>5, <2>6 DEF Entry
  <2>8. /\ entries' \in Seq(Entry) /\ Len(entries') = n
        /\ \A i \in 1 .. n : /\ entries'[i].path = entries[i].path
                             /\ entries'[i].size = entries[i].size
    <3>1. \A i \in 1 .. n : entries'[i] \in Entry
      BY <2>3, <2>6, <2>7
    <3>2. entries' = [i \in 1 .. n |-> entries'[i]]
      BY <2>2, <2>3, <2>6
    <3>3. entries' \in [1 .. n -> Entry]
      BY <3>1, <3>2
    <3> QED
      BY <2>3, <2>6, <2>7, <3>3, TupleIsSeq
  <2>9. OutgoingTypeOK'
    <3>1. \A i \in DOMAIN entries' : entries'[i].size \in 0 .. MaxFile
      BY <2>3, <2>6, <2>8
    <3> QED
      BY <1>0, <2>2, <3>1 DEF OutgoingTypeOK
  <2>10. SpoolType'
    BY <1>0, <2>2, <2>8 DEF SpoolType, Busy
  <2>11. Copied'
    <3>1. \A i \in 1 .. n : entries'[i].data = entries'[i].size
      <4>1. \A i \in 1 .. n : i # n => entries[i].data = entries[i].size
        BY <1>0, <2>3 DEF Sound, Copied, n
      <4> QED
        BY <2>4, <2>6, <2>7, <4>1
    <3> QED
      BY <2>2, <2>6, <3>1 DEF Copied
  <2>12. Counted'
    BY <1>0, <2>2, <2>3, <2>4, <2>8 DEF Sound, Counted, n
  <2>13. (Apart /\ Distinct /\ Short)'
    BY <1>0, <2>2, <2>3, <2>6, <2>8 DEF Sound, Apart, Distinct, Short
  <2>14. Fresh'
    BY <1>0, <2>2, <2>3, <2>6, <2>8 DEF Sound, Fresh
  <2>15. Rooted'
    <3>1. Walked' = Walked
      BY <1>0, <2>2 DEF Walked, Busy
    <3> QED
      BY <1>0, <2>2, <2>3, <2>6, <2>8, <3>1 DEF Sound, Rooted, Busy
  <2>16. Named'
    <3>1. \A i \in 1 .. n : \A k \in DOMAIN entries'[i].path :
             \E j \in 1 .. n : LastName(entries'[j].path) = entries'[i].path[k]
      <4> SUFFICES ASSUME NEW i \in 1 .. n, NEW k \in DOMAIN entries'[i].path
                   PROVE  \E j \in 1 .. n : LastName(entries'[j].path) = entries'[i].path[k]
        OBVIOUS
      <4>1. PICK j \in 1 .. n : LastName(entries[j].path) = entries[i].path[k]
        BY <1>0, <2>3, <2>8 DEF Sound, Named
      <4> QED
        BY <2>8, <4>1
    <3>2. \A i \in DOMAIN todo : \A k \in 1 .. Len(todo[i].path) - 1 :
             \E j \in 1 .. n : LastName(entries'[j].path) = todo[i].path[k]
      BY <1>0, <2>3, <2>8 DEF Sound, Named
    <3> QED
      BY <2>2, <2>6, <3>1, <3>2 DEF Named
  <2> QED
    BY <2>9, <2>10, <2>11, <2>12, <2>13, <2>14, <2>15, <2>16 DEF PrepareInv, Sound
<1> QED
  BY <1>1, <1>2

\* What has been copied is done with.
LEMMA CheckStep ==
  ASSUME PrepareInv, Check
  PROVE  PrepareInv'
<1>0. /\ OutgoingTypeOK /\ SpoolType /\ Sound /\ opc = "check" /\ todo # <<>>
      /\ UNCHANGED <<kind, size, changes, token>>
  BY DEF PrepareInv, Check, SpoolType, world
<1>1. CASE Fails
  <2>1. OutgoingTypeOK'
    BY <1>0, <1>1 DEF OutgoingTypeOK, Fails, spool, Over
  <2> QED
    BY <1>1, <2>1, SpoolFails DEF Fails, spool
<1>2. CASE ~Fails
  <2>1. /\ opc' = "add" /\ todo' = Tail(todo) /\ UNCHANGED <<files, next, open, entries, total>>
    BY <1>2 DEF Check
  <2>2. /\ todo' \in Seq(Item) /\ Len(todo) \in Nat \ {0} /\ DOMAIN todo = 1 .. Len(todo)
        /\ DOMAIN todo' = 1 .. Len(todo) - 1
        /\ \A i \in DOMAIN todo' : todo'[i] = todo[i + 1] /\ i + 1 \in DOMAIN todo /\ i + 1 # 1
    <3>1. /\ todo' \in Seq(Item) /\ Len(todo') = Len(todo) - 1 /\ Len(todo) \in Nat \ {0}
          /\ \A i \in 1 .. Len(todo) - 1 : todo'[i] = todo[i + 1]
          /\ DOMAIN todo = 1 .. Len(todo)
      BY <1>0, <2>1, AtHand
    <3>2. DOMAIN todo' = 1 .. Len(todo')
      BY <3>1
    <3> QED
      BY <3>1, <3>2
  <2>3. OutgoingTypeOK'
    <3>1. \A i \in DOMAIN todo' : todo'[i].node \in Nodes
      BY <1>0, <2>2 DEF OutgoingTypeOK
    <3> QED
      BY <1>0, <2>1, <3>1 DEF OutgoingTypeOK
  <2>4. SpoolType'
    BY <1>0, <2>1, <2>2 DEF SpoolType, Busy
  <2>5. (Copied /\ Counted /\ Short /\ Distinct)'
    BY <1>0, <2>1 DEF Sound, Copied, Counted, Short, Distinct
  <2>6. Apart'
    <3> SUFFICES ASSUME NEW i \in DOMAIN todo', NEW j \in DOMAIN todo',
                        Extends(todo'[i].path, todo'[j].path)
                 PROVE  i = j
      BY DEF Apart
    <3>1. i + 1 = j + 1
      BY <1>0, <2>2 DEF Sound, Apart
    <3> QED
      BY <2>2, <3>1
  <2>7. Fresh'
    BY <1>0, <2>1, <2>2 DEF Sound, Fresh
  <2>8. Rooted'
    <3>1. Walked' = Walked
      BY <1>0, <2>1 DEF Walked, Busy
    <3> QED
      BY <1>0, <2>1, <2>2, <3>1 DEF Sound, Rooted, Busy
  <2>9. Named'
    BY <1>0, <2>1, <2>2 DEF Sound, Named
  <2> QED
    BY <2>3, <2>4, <2>5, <2>6, <2>7, <2>8, <2>9 DEF PrepareInv, Sound
<1> QED
  BY <1>1, <1>2

LEMMA CompressStep ==
  ASSUME PrepareInv, Compress \/ Begin
  PROVE  PrepareInv'
<1>0. /\ OutgoingTypeOK /\ SpoolType /\ UNCHANGED <<kind, size, changes, token>> /\ UNCHANGED spool
      /\ \/ opc = "compress" /\ opc' \in {"failed", "prepared"}
         \/ opc = "idle" /\ opc' = "path"
  BY DEF PrepareInv, Compress, Begin, world, Over
<1>1. OutgoingTypeOK'
  BY <1>0 DEF OutgoingTypeOK, spool, Over
<1>2. CASE opc' = "failed"
  BY <1>1, <1>2, <1>0, SpoolFails DEF spool
<1>3. CASE opc' # "failed"
  <2>1. opc \notin Busy /\ opc' \notin Busy /\ opc # "failed" /\ Sound
    BY <1>0, <1>3 DEF Busy, PrepareInv
  <2>2. Walked' = Walked
    BY <1>0, <2>1 DEF Walked, spool
  <2>3. SpoolType'
    BY <1>0, <2>1 DEF SpoolType, spool, Busy
  <2>4. (Copied /\ Counted /\ Short)'
    BY <1>0, <2>1 DEF Sound, Copied, Counted, Short, spool, Busy
  <2>5. (Apart /\ Fresh /\ Distinct /\ Named)'
    BY <1>0, <2>1 DEF Sound, Apart, Fresh, Distinct, Named, spool
  <2>6. Rooted'
    BY <1>0, <2>1, <2>2 DEF Sound, Rooted, spool
  <2> QED
    BY <1>1, <2>3, <2>4, <2>5, <2>6 DEF PrepareInv, Sound
<1> QED
  BY <1>2, <1>3

LEMMA PrepareStep == PrepareInv /\ [OutgoingNext]_outgoingVars => PrepareInv'
<1> SUFFICES ASSUME PrepareInv, [OutgoingNext]_outgoingVars PROVE PrepareInv'
  OBVIOUS
<1>1. CASE UNCHANGED outgoingVars
  <2>1. /\ UNCHANGED <<kind, size, changes, token>>
        /\ UNCHANGED <<opc, files, next, todo, open, entries, total>>
    BY <1>1 DEF outgoingVars
  <2>2. OutgoingTypeOK'
    BY <2>1 DEF PrepareInv, OutgoingTypeOK
  <2> QED
    BY <2>1, <2>2, SpoolStays
<1>2. CASE Preparing
  BY <1>2, NextPathStep, PathAddedStep, AddStep, ReadDirStep, OpenStep, CopyStep, CheckStep, CompressStep
  DEF Preparing
<1> QED
  BY <1>1, <1>2, WorldStep, CompressStep DEF OutgoingNext

\* What is left when nothing of the files is kept.
LEMMA PrepareForgets ==
  ASSUME PrepareInv, opc' = opc, opc \in Over, token' = token, files' = <<>>,
         kind' = [n \in Nodes |-> "none"], size' = [n \in Nodes |-> 0], changes' = 0,
         next' = 1, todo' = <<>>, entries' = <<>>, total' = 0,
         open' = [was |-> 0, now |-> 0, linked |-> FALSE]
  PROVE  PrepareInv'
<1>1. OutgoingTypeOK'
  <2>1. files' \in Seq(Nodes) /\ Len(files') \in Nat
    OBVIOUS
  <2>2. kind' \in [Nodes -> Kinds] /\ size' \in [Nodes -> 0 .. MaxSize]
    BY Bounds DEF Kinds
  <2>3. next' \in 1 .. Len(files') + 1 /\ changes' \in 0 .. MaxChanges /\ total' \in 0 .. MaxTransfer
    BY <2>1, Bounds
  <2>4. open' \in [was : 0 .. MaxSize, now : 0 .. MaxSize, linked : BOOLEAN]
    BY Bounds
  <2>5. /\ \A i \in DOMAIN todo' : todo'[i].node \in Nodes
        /\ \A i \in DOMAIN entries' : entries'[i].size \in 0 .. MaxFile
    OBVIOUS
  <2>6. opc' \in Over /\ token' \in BOOLEAN
    BY DEF PrepareInv, OutgoingTypeOK
  <2> QED
    BY <2>1, <2>2, <2>3, <2>4, <2>5, <2>6 DEF OutgoingTypeOK
<1> QED
  BY <1>1
  DEF PrepareInv, SpoolType, Sound, Copied, Counted, Short, Apart, Fresh, Distinct, Rooted, Named,
      Busy, Over

LEMMA PreparedArchive == PrepareInv => PreparedIsAccepted
<1> SUFFICES ASSUME PrepareInv, opc = "prepared",
                    ~\E i \in DOMAIN entries : entries[i].path[Len(entries[i].path)] \in Formatting,
                    ~\A i \in DOMAIN entries :
                        entries[i].kind = "folder" \/ entries[i].path[Len(entries[i].path)] \in Hidden,
                    ~(total + HeaderSize * (Len(entries) + 1) > MaxTransfer)
             PROVE  Accepted(entries, total)
  BY DEF PrepareInv, PreparedIsAccepted
<1>0. OutgoingTypeOK /\ Sound
  BY DEF PrepareInv
<1>1. /\ Len(entries) \in Nat /\ DOMAIN entries = 1 .. Len(entries)
      /\ \A i \in DOMAIN entries : entries[i].kind \in {"file", "folder"}
  BY EntriesAre
<1>2. \E i \in DOMAIN entries : entries[i].kind = "file" /\ entries[i].path[Len(entries[i].path)] \notin Hidden
  BY <1>1
<1>3. Len(entries) + 1 <= MaxEntries
  BY <1>0, <1>2 DEF Sound, Counted
<1>4. total + HeaderSize * (Len(entries) + 1) <= MaxTransfer
  <2>1. total \in Nat /\ HeaderSize \in Nat /\ MaxTransfer \in Nat
    BY <1>0, OutgoingAssumption DEF OutgoingTypeOK
  <2>2. HeaderSize * (Len(entries) + 1) \in Nat
    BY <1>1, <2>1
  <2> QED
    BY <2>1, <2>2
<1>5. \A i \in DOMAIN entries : entries[i].data = entries[i].size
  BY <1>0 DEF Sound, Copied
<1>6. \A i \in DOMAIN entries : \A k \in DOMAIN entries[i].path : entries[i].path[k] \notin Formatting
  BY <1>0 DEF Sound, Named, LastName
<1>7. \A i \in DOMAIN entries : \A j \in 1 .. i - 1 : entries[i].path # entries[j].path
  BY <1>0, <1>1 DEF Sound, Distinct
<1>8. \A i \in DOMAIN entries : entries[i].path \notin LongPaths
  BY <1>0 DEF Sound, Short
<1> QED
  BY <1>2, <1>3, <1>4, <1>5, <1>6, <1>7, <1>8 DEF Accepted

\* Whatever others do to the files while they are spooled, and whenever the
\* transfer is dropped: an archive that is prepared is one that the receiving
\* end takes, but for the three things the sender does not look at.
THEOREM PreparedForReceiver == OutgoingSpec => []PreparedIsAccepted
BY PrepareStart, PrepareStep, PreparedArchive, PTL DEF OutgoingSpec
-----------------------------------------------------------------------------
(* The composition, seen from its parts.                                   *)

\* Steps in which the receiver has no part.
LEMMA SenderAlone ==
  \/ LoadIdentity \/ Spool \/ Prepare \/ SessionFails \/ SendAsk \/ AskReply \/ AskLost
  \/ SendUpload \/ LastChunk \/ UploadReply \/ UploadLost \/ Abort \/ Elsewhere
  => UNCHANGED vars
BY DEF LoadIdentity, Spool, Prepare, SessionFails, SendAsk, AskReply, AskLost,
       SendUpload, LastChunk, UploadReply, UploadLost, Abort, Elsewhere

\* Those in which it has are steps of its own.
LEMMA ReceiverPart == links_ \in BOOLEAN /\ [DNext]_allVars => [Next]_vars
<1> SUFFICES ASSUME links_ \in BOOLEAN, [DNext]_allVars PROVE [Next]_vars
  OBVIOUS
<1>1. CASE UNCHANGED allVars
  BY <1>1 DEF allVars
<1>2. CASE SenderStep
  <2>1. ASSUME NEW c \in Conns, Connect(c) \/ Reconnect(c) PROVE Next
    BY <2>1 DEF Connect, Reconnect, Next
  <2> QED
    BY <1>2, <2>1, SenderAlone DEF SenderStep
<1>3. CASE Abort \/ Elsewhere
  BY <1>3, SenderAlone
<1>4. ASSUME NEW c \in Conns, ReceiveAsk(c) PROVE Next
  <2>1. "Ask" \in Paths
    BY DEF Paths
  <2> QED
    BY <1>4, <2>1 DEF ReceiveAsk, ConnStep, Next
<1>5. ASSUME NEW c \in Conns, ReceiveUpload(c) PROVE Next
  BY <1>5 DEF ReceiveUpload, ConnStep, Next
<1>6. ASSUME NEW c \in Conns, ReceiveBody(c) PROVE Next
  BY <1>6 DEF ReceiveBody, ConnStep, Next
<1>7. ASSUME NEW c \in Conns, WriteReply(c) PROVE Next
  BY <1>7 DEF WriteReply, ConnStep, Next
<1>8. ASSUME NEW c \in Conns, Internal(c) PROVE Next
  BY <1>8 DEF Internal, ConnStep, Next
<1>9. CASE Environment
  BY <1>9 DEF Environment, Next
<1> QED
  BY <1>1, <1>2, <1>3, <1>4, <1>5, <1>6, <1>7, <1>8, <1>9 DEF DNext

\* Whether it is links or files that are sent is decided at the start.
LEMMA LinksStay == [DNext]_allVars => UNCHANGED links_
BY DEF DNext, SenderStep, LoadIdentity, Spool, Prepare, SessionFails, Connect, Reconnect, SendAsk,
       AskReply, AskLost, SendUpload, LastChunk, UploadReply, UploadLost, Abort, Elsewhere, Fail,
       ReceiveAsk, ReceiveUpload, ReceiveBody, WriteReply, Internal, Environment, allVars, sendVars

\* A transfer between two machines that run this program is, at its receiving
\* end, a behaviour of the receive window: what is proved of it with any
\* peers holds of this program's own sender.
THEOREM DeliveryIsReceived == DSpec => Spec
<1>1. DInit => Init /\ links_ \in BOOLEAN
  BY DEF DInit
<1>2. links_ \in BOOLEAN /\ [DNext]_allVars => (links_ \in BOOLEAN)'
  BY LinksStay
<1> QED
  BY <1>1, <1>2, ReceiverPart, PTL DEF DSpec, Spec

\* Everything a transfer publishes goes back to an approval of its Ask, also
\* when its connections break, it is aborted, or the window is closed.
THEOREM DeliveredWasApproved == DSpec => []StoredWasApproved
BY DeliveryIsReceived, PublishedWasApproved, PTL

\* A whole transfer keeps the promise of Consent: the sender, who decides when
\* to connect, what to send and when to give up, has no way around the user.
THEOREM DeliveredByConsent == DSpec => ReceivesByConsent
BY DeliveryIsReceived, ReceivedByConsent, PTL

LEMMA IdentityPart == [DNext]_allVars => [IdentityNext]_identityVars
<1> SUFFICES ASSUME [DNext]_allVars PROVE [IdentityNext]_identityVars
  OBVIOUS
<1>1. CASE LoadIdentity
  BY <1>1, DeliveryAssumption DEF LoadIdentity, IdentityNext, prepVars
<1>2. CASE Elsewhere
  BY <1>2 DEF Elsewhere, IdentityNext
<1>3. CASE Spool \/ Prepare \/ SessionFails \/ SendAsk \/ AskReply \/ AskLost \/ SendUpload
           \/ LastChunk \/ UploadReply \/ UploadLost \/ Abort
  BY <1>3 DEF Spool, Prepare, SessionFails, SendAsk, AskReply, AskLost, SendUpload, LastChunk,
              UploadReply, UploadLost, Abort, prepVars
<1>4. ASSUME NEW c \in Conns,
             \/ Connect(c) \/ Reconnect(c) \/ ReceiveAsk(c) \/ ReceiveUpload(c)
             \/ ReceiveBody(c) \/ WriteReply(c) \/ Internal(c)
      PROVE  UNCHANGED identityVars
  BY <1>4 DEF Connect, Reconnect, ReceiveAsk, ReceiveUpload, ReceiveBody, WriteReply, Internal,
              prepVars
<1>5. CASE Environment \/ UNCHANGED allVars
  BY <1>5 DEF Environment, allVars, prepVars
<1> QED
  BY <1>1, <1>2, <1>3, <1>4, <1>5 DEF DNext, SenderStep

\* The sender, the window and the searches of one daemon load one identity,
\* and a crash leaves it whole unless it came between the two files.
THEOREM TransferLoadsOneIdentity == DSpec => []OneIdentity
<1>1. DInit => IdentityInv
  BY IdentityAssumption
  DEF DInit, IdentityInv, IdentityTypeOK, MakerInv, OneMaker, ReaderInv, WholeInv, Makers, Making,
      Files, Ends
<1>2. DSpec => []IdentityInv
  BY <1>1, IdentityPart, IdentityStepInv, PTL DEF DSpec
<1> QED
  BY <1>2, IdentityInvIsOne, PTL

\* The steps of a transfer, seen from the archive: its own, or the end of it.
LEMMA OutgoingPart == PrepareInv /\ [DNext]_allVars => PrepareInv'
<1> SUFFICES ASSUME PrepareInv, [DNext]_allVars PROVE PrepareInv'
  OBVIOUS
<1>1. ASSUME UNCHANGED outgoingVars PROVE PrepareInv'
  BY <1>1, PrepareStep
<1>2. CASE LoadIdentity \/ Spool \/ Abort \/ Elsewhere
  <2>1. OutgoingNext \/ UNCHANGED outgoingVars
    BY <1>2 DEF LoadIdentity, Spool, Abort, Elsewhere, OutgoingNext, prepVars
  <2> QED
    BY <2>1, PrepareStep
<1>3. CASE Prepare
  BY <1>3, PrepareForgets DEF Prepare, Over
<1>4. CASE SessionFails \/ SendAsk \/ AskReply \/ AskLost \/ SendUpload \/ LastChunk
           \/ UploadReply \/ UploadLost
  BY <1>1, <1>4
  DEF SessionFails, SendAsk, AskReply, AskLost, SendUpload, LastChunk, UploadReply, UploadLost,
      prepVars
<1>5. ASSUME NEW c \in Conns,
             \/ Connect(c) \/ Reconnect(c) \/ ReceiveAsk(c) \/ ReceiveUpload(c)
             \/ ReceiveBody(c) \/ WriteReply(c) \/ Internal(c)
      PROVE  UNCHANGED outgoingVars
  BY <1>5 DEF Connect, Reconnect, ReceiveAsk, ReceiveUpload, ReceiveBody, WriteReply, Internal,
              prepVars
<1>6. CASE Environment \/ UNCHANGED allVars
  BY <1>1, <1>6 DEF Environment, allVars, prepVars
<1> QED
  BY <1>1, <1>2, <1>3, <1>4, <1>5, <1>6 DEF DNext, SenderStep

\* So in a whole transfer, whoever aborts it and whatever becomes of its
\* connections.
THEOREM SentIsAccepted == DSpec => []PreparedIsAccepted
<1>1. DInit => PrepareInv
  BY PrepareStart DEF DInit
<1> QED
  BY <1>1, OutgoingPart, PreparedArchive, PTL DEF DSpec
-----------------------------------------------------------------------------
(* Both ends together.  A transfer makes one Ask and at most one Upload,    *)
(* each of them on the wire or being served on one connection; what is      *)
(* published is the doing of the one that the transfer is about.            *)

Early == {"identity", "prepare", "connect", "ask"}

\* The one Ask of the transfer and its one Upload, on the wire or being served.
AskRead(c) == pc[c] \in {"wait", "accepted"} \/ (pc[c] = "body" /\ path[c] = "Ask")
Asking(c) == wire[c] = "Ask" \/ AskRead(c)
UploadRead(c) == pc[c] = "body" /\ path[c] = "Upload"
Uploading(c) == wire[c] = "Upload" \/ UploadRead(c) \/ job[c] = "running"
\* A 200 on its way to the sender.
Answered(c) == back[c] = 200 \/ (pc[c] = "reply" /\ reply[c].status = 200)

\* The sender's session is a connection; the Ask being served is its own.
Handling ==
  /\ spc \in {"ask", "askSent", "upload", "uploadSent"} => session \in Conns
  /\ \A c \in Conns : pc[c] \in {"wait", "accepted"} => links[c] = links_

\* There is one Ask, and it is in one place,
OneAsk ==
  /\ \A c, d \in Conns : Asking(c) /\ Asking(d) => c = d
  /\ \A c \in Conns : wire[c] = "Ask" => ~AskRead(c)

\* and so it is with the Upload.
OneUpload ==
  /\ \A c, d \in Conns : Uploading(c) /\ Uploading(d) => c = d
  /\ \A c \in Conns :
       /\ wire[c] = "Upload" => ~UploadRead(c) /\ job[c] # "running"
       /\ UploadRead(c) => job[c] # "running"

Unanswered == denied = {} /\ stored = {} /\ uploads = 0 /\ \A c \in Conns : ~Answered(c)

\* While the Ask is under way nothing has come of it, nor before; when it has
\* been refused nothing ever will.
AskPhase ==
  /\ \A c \in Conns : Asking(c) => spc \in {"askSent", "err", "aborted"} /\ Unanswered
  /\ spc \in Early => Unanswered /\ \A c \in Conns : ~Asking(c)
  /\ denied # {} => /\ spc \in {"askSent", "err", "aborted"}
                    /\ stored = {} /\ uploads = 0 /\ \A c \in Conns : ~Answered(c)

\* Only files are uploaded, and only when an Upload was sent.
UploadPhase ==
  /\ spc \in {"askSent", "upload"} => uploads = 0
  /\ spc \in {"upload", "uploadSent"} => ~links_
  /\ uploads = 1 => ~links_
  /\ uploads = 0 => \A c \in Conns : ~Uploading(c) /\ pc[c] # "store"

\* What is published: the links when they are answered, or an archive once.
Published ==
  /\ \A r, q \in stored : r = q
  /\ ~links_ /\ uploads = 0 => stored = {}
  /\ ~links_ => \A c \in Conns : Uploading(c) => stored = {}
  /\ links_ => \A c \in Conns : Answered(c) => stored # {}
  /\ links_ /\ spc = "ok" => stored # {}

Kept == Handling /\ OneAsk /\ OneUpload /\ AskPhase /\ UploadPhase /\ Published

DeliverInv ==
  /\ DeliveryTypeOK /\ TypeOK
  /\ Kept

\* Steps that put no request on a connection, take none a step further, and
\* bring no answer.
Idles ==
  /\ UNCHANGED <<links_, uploads, stored, denied>>
  /\ \A c \in Conns :
       /\ Asking(c)' => Asking(c)
       /\ (wire[c] = "Ask")' => wire[c] = "Ask"
       /\ AskRead(c)' => AskRead(c)
       /\ links'[c] = links[c]
       /\ (pc[c] \in {"wait", "accepted"})' => pc[c] \in {"wait", "accepted"}
       /\ (wire[c] = "Upload")' => wire[c] = "Upload"
       /\ UploadRead(c)' => UploadRead(c)
       /\ job'[c] = job[c]
       /\ (pc[c] = "store")' => pc[c] = "store"
       /\ Answered(c)' => Answered(c)

\* The sender may go on, or give up, or be told what the answer says.
LEMMA IdleStep ==
  ASSUME DeliverInv, Idles,
         spc' \in {"ask", "askSent", "upload", "uploadSent"} => session' \in Conns,
         \/ spc' = spc
         \/ spc' \in {"err", "aborted"}
         \/ spc \in Early /\ spc' \in Early
         \/ /\ denied = {} /\ \A c \in Conns : ~Asking(c)
            /\ \/ spc' = "upload" /\ uploads = 0 /\ ~links_
               \/ spc' = "ok" /\ (links_ => stored # {})
  PROVE  Kept'
<1>1. \A c \in Conns : Uploading(c)' => Uploading(c)
  BY DEF Idles, Uploading
<1>2. Handling'
  BY DEF DeliverInv, Kept, Idles, Handling
<1>3. OneAsk'
  BY DEF DeliverInv, Kept, Idles, OneAsk
<1>4. OneUpload'
  BY <1>1 DEF DeliverInv, Kept, Idles, OneUpload
<1>5. AskPhase'
  <2>1. Unanswered => Unanswered'
    BY DEF Idles, Unanswered
  <2>2. (\A c \in Conns : Asking(c) => spc \in {"askSent", "err", "aborted"} /\ Unanswered)'
    BY <2>1 DEF DeliverInv, Kept, Idles, AskPhase, Early
  <2>3. (spc \in Early => Unanswered /\ \A c \in Conns : ~Asking(c))'
    BY <2>1 DEF DeliverInv, Kept, Idles, AskPhase, Early
  <2>4. (denied # {} => /\ spc \in {"askSent", "err", "aborted"}
                       /\ stored = {} /\ uploads = 0 /\ \A c \in Conns : ~Answered(c))'
    BY DEF DeliverInv, Kept, Idles, AskPhase, Early, Unanswered
  <2> QED
    BY <2>2, <2>3, <2>4 DEF AskPhase
<1>6. UploadPhase'
  BY <1>1 DEF DeliverInv, Kept, Idles, UploadPhase, AskPhase, Unanswered, Early
<1>7. Published'
  BY <1>1 DEF DeliverInv, Kept, Idles, Published, Early
<1> QED
  BY <1>2, <1>3, <1>4, <1>5, <1>6, <1>7 DEF Kept

LEMMA ReceiverIdles ==
  ASSUME TypeOK, DeliveryTypeOK, UNCHANGED <<sendVars, wireVars>>,
         \/ \E c \in Conns : TlsEstablished(c) \/ ConnectionFails(c) \/ Join(c)
         \/ WindowEnds \/ CompletedReceived \/ TakeAsk
         \/ \E r \in held, b \in BOOLEAN : Decide(r, b)
         \/ \E p \in Peers : GrantAges(p)
  PROVE  Idles
<1> USE DEF TypeOK, DeliveryTypeOK, sendVars, wireVars, Idles, Asking, AskRead, UploadRead,
            Answered, winVars, connVars, askVars, grantVars, storeVars
<1>1. ASSUME NEW c \in Conns, TlsEstablished(c) \/ ConnectionFails(c) \/ Join(c)
      PROVE  Idles
  BY <1>1 DEF TlsEstablished, ConnectionFails, Join
<1>2. CASE WindowEnds \/ CompletedReceived
  BY <1>2 DEF WindowEnds, CompletedReceived, Close
<1>3. CASE \/ TakeAsk \/ \E r \in held, b \in BOOLEAN : Decide(r, b)
           \/ \E p \in Peers : GrantAges(p)
  BY <1>3 DEF TakeAsk, Decide, GrantAges
<1> QED
  BY <1>1, <1>2, <1>3
\* What a step on one connection changes there and nowhere else.
OnlyAt(c) ==
  \A d \in Conns \ {c} :
    /\ pc'[d] = pc[d] /\ path'[d] = path[d] /\ links'[d] = links[d]
    /\ reply'[d] = reply[d] /\ job'[d] = job[d] /\ wire'[d] = wire[d] /\ back'[d] = back[d]

LEMMA OthersKeep ==
  ASSUME NEW c \in Conns, OnlyAt(c)
  PROVE  \A d \in Conns \ {c} :
           /\ AskRead(d)' <=> AskRead(d)
           /\ Asking(d)' <=> Asking(d)
           /\ UploadRead(d)' <=> UploadRead(d)
           /\ Uploading(d)' <=> Uploading(d)
           /\ Answered(d)' <=> Answered(d)
BY DEF OnlyAt, AskRead, Asking, UploadRead, Uploading, Answered

\* A step of the receiver with the Ask: it is read, waits, is refused or is
\* answered, and goes nowhere else.
LEMMA AskServed ==
  ASSUME DeliverInv, NEW c \in Conns, OnlyAt(c), Asking(c),
         UNCHANGED <<spc, session, links_, uploads>>,
         wire'[c] # "Ask", wire'[c] = "Upload" => wire[c] = "Upload",
         job'[c] = job[c], ~UploadRead(c)', pc'[c] # "store",
         pc'[c] \in {"wait", "accepted"} => links'[c] = links_,
         denied' # {} \/ stored' # {} \/ Answered(c)' => ~Asking(c)',
         denied' # {} => stored' = {} /\ ~Answered(c)',
         stored' # {} => links_,
         Answered(c)' /\ links_ => stored' # {},
         \A r, q \in stored' : r = q
  PROVE  Kept'
<1>1. /\ spc \in {"askSent", "err", "aborted"} /\ Unanswered
      /\ Uploading(c)' => Uploading(c)
      /\ \A d \in Conns \ {c} : ~Asking(d)
  BY DEF DeliverInv, Kept, AskPhase, OneAsk, Uploading
<1>2. Handling'
  BY DEF DeliverInv, Kept, Handling, OnlyAt
<1>3. OneAsk'
  BY OthersKeep DEF DeliverInv, Kept, OneAsk, OnlyAt
<1>4. OneUpload'
  BY <1>1, OthersKeep DEF DeliverInv, Kept, OneUpload, OnlyAt
<1>5. AskPhase'
  BY <1>1, OthersKeep DEF DeliverInv, Kept, OneAsk, AskPhase, Unanswered
<1>6. UploadPhase'
  BY <1>1, OthersKeep DEF DeliverInv, Kept, UploadPhase, OnlyAt
<1>7. Published'
  BY <1>1, OthersKeep DEF DeliverInv, Kept, Unanswered, Published
<1> QED
  BY <1>2, <1>3, <1>4, <1>5, <1>6, <1>7 DEF Kept

\* A step of the receiver with the Upload: it is read or turned away, its
\* archive is stored, and it is answered.
LEMMA UploadServed ==
  ASSUME DeliverInv, NEW c \in Conns, OnlyAt(c), uploads = 1,
         UNCHANGED <<spc, session, links_, uploads, denied>>,
         wire'[c] = "Upload" => wire[c] = "Upload" /\ ~UploadRead(c)' /\ job'[c] # "running",
         wire'[c] = "Ask" => wire[c] = "Ask", ~AskRead(c)',
         Uploading(c)' => Uploading(c),
         UploadRead(c)' => job'[c] # "running",
         stored' # stored => Uploading(c) /\ ~Uploading(c)',
         stored' \in {stored, stored \cup {Rid(c)}}
  PROVE  Kept'
<1>1. /\ ~links_ /\ denied = {} /\ spc \notin Early /\ spc # "askSent" /\ spc # "upload"
      /\ \A d \in Conns : ~Asking(d)
      /\ ~Asking(c)'
  BY DEF DeliverInv, Kept, AskPhase, UploadPhase, Unanswered, Asking
<1>2. Handling'
  BY DEF DeliverInv, Kept, Handling, OnlyAt, AskRead
<1>3. OneAsk'
  BY <1>1, OthersKeep DEF OneAsk, Asking
<1>4. OneUpload'
  BY <1>1, OthersKeep DEF DeliverInv, Kept, OneUpload, OnlyAt
<1>5. AskPhase'
  BY <1>1, OthersKeep DEF DeliverInv, Kept, OneAsk, AskPhase, Unanswered
<1>6. UploadPhase'
  BY <1>1, OthersKeep DEF DeliverInv, Kept, UploadPhase, OnlyAt
<1>7. Published'
  BY <1>1, OthersKeep DEF DeliverInv, Kept, OneUpload, Published
<1> QED
  BY <1>2, <1>3, <1>4, <1>5, <1>6, <1>7 DEF Kept
\* Where a step with an Ask that has been read can take it.
AskMoves(c) ==
  /\ OnlyAt(c) /\ job' = job
  /\ pc'[c] \in {"wait", "accepted", "reply", "ended"}
  /\ pc'[c] \in {"wait", "accepted"} => links'[c] = links_
  /\ denied' # {} => stored' = {} /\ pc'[c] = "reply" /\ reply'[c].status = 403
  /\ stored' # {} => links_ /\ pc'[c] \in {"reply", "ended"} /\ stored' = {Rid(c)}
  /\ pc'[c] = "reply" /\ reply'[c].status = 200 /\ links_ => stored' # {}

LEMMA ReceiverAsk ==
  ASSUME DeliverInv, NEW c \in Conns,
         \/ ReceiveAsk(c)
         \/ /\ Ask(c, links_) \/ AskDecided(c) \/ AskTimesOut(c) \/ DeliverLinks(c) \/ GrantUpload(c)
            /\ UNCHANGED <<sendVars, wireVars, prepVars>>
  PROVE  Kept'
<1> USE DEF sendVars, wireVars, winVars, askVars, grantVars, storeVars, Answering
<1>1. Asking(c)
  BY DEF ReceiveAsk, Ask, AskDecided, AskTimesOut, DeliverLinks, GrantUpload, Asking, AskRead
<1>2. /\ wire[c] = "Ask" => ~AskRead(c)
      /\ pc[c] \in {"wait", "accepted"} => links[c] = links_
      /\ stored = {} /\ denied = {} /\ ~Answered(c)
      /\ spc \notin Returned \ {"err", "aborted"}
  BY <1>1 DEF DeliverInv, Kept, OneAsk, Handling, AskPhase, Unanswered, Returned
<1>3. DeliverInv /\ TypeOK /\ DeliveryTypeOK
  BY DEF DeliverInv
<1>4. CASE ReceiveAsk(c)
  <2>1. OnlyAt(c)
    BY <1>3, <1>4 DEF ReceiveAsk, ReadHead, OnlyAt, TypeOK, DeliveryTypeOK
  <2>2. /\ UNCHANGED <<spc, session, links_, uploads>> /\ stored' = {} /\ denied' = {}
        /\ wire'[c] = "none" /\ job'[c] = job[c] /\ pc'[c] = "body" /\ ~UploadRead(c)' /\ ~Answered(c)'
    BY <1>2, <1>3, <1>4 DEF ReceiveAsk, ReadHead, TypeOK, DeliveryTypeOK, UploadRead, Answered
  <2> QED
    BY <1>1, <1>3, <2>1, <2>2, AskServed DEF Kept
<1>5. ASSUME \/ Ask(c, links_) \/ AskDecided(c) \/ AskTimesOut(c) \/ DeliverLinks(c)
             \/ GrantUpload(c),
             UNCHANGED <<sendVars, wireVars, prepVars>>
      PROVE  Kept'
  <2>1. AskRead(c)
    BY <1>5 DEF Ask, AskDecided, AskTimesOut, DeliverLinks, GrantUpload, AskRead
  <2>2. AskMoves(c)
    <3>0. UNCHANGED <<wire, back, links_>>
      BY <1>5
    <3> USE <1>2, <1>3, <3>0 DEF TypeOK, Answering
    <3>1. CASE Ask(c, links_)
      <4>1. OnlyAt(c)
        BY <3>1 DEF Ask, OnlyAt
      <4> QED
        BY <3>1, <4>1 DEF Ask, AskMoves
    <3>2. CASE AskDecided(c)
      <4>1. OnlyAt(c)
        BY <3>2 DEF AskDecided, OnlyAt
      <4> QED
        BY <3>2, <4>1 DEF AskDecided, AskMoves
    <3>3. CASE AskTimesOut(c)
      <4>1. OnlyAt(c)
        BY <3>3 DEF AskTimesOut, OnlyAt
      <4> QED
        BY <3>3, <4>1 DEF AskTimesOut, AskMoves
    <3>4. CASE DeliverLinks(c)
      <4>1. OnlyAt(c)
        BY <3>4 DEF DeliverLinks, OnlyAt
      <4>2. links_ /\ denied' = {} /\ job' = job
        BY <3>4 DEF DeliverLinks
      <4>3. pc'[c] \in {"reply", "ended"}
        BY <3>4 DEF DeliverLinks
      <4>4. \/ stored' = {Rid(c)}
            \/ stored' = {} /\ pc'[c] = "ended"
        BY <3>4 DEF DeliverLinks
      <4> QED
        BY <4>1, <4>2, <4>3, <4>4 DEF AskMoves
    <3>5. CASE GrantUpload(c)
      <4>1. OnlyAt(c)
        BY <3>5 DEF GrantUpload, OnlyAt
      <4>2. ~links_
        BY <3>5 DEF GrantUpload
      <4>3. stored' = {} /\ denied' = {} /\ job' = job
        BY <3>5 DEF GrantUpload
      <4>4. pc'[c] \in {"reply", "ended"}
        BY <3>5 DEF GrantUpload
      <4> QED
        BY <4>1, <4>2, <4>3, <4>4 DEF AskMoves
    <3> QED
      BY <1>5, <3>1, <3>2, <3>3, <3>4, <3>5
  <2>3. UNCHANGED <<spc, session, links_, uploads, wire, back>>
    BY <1>5
  <2>4. /\ wire'[c] # "Ask" /\ ~UploadRead(c)' /\ pc'[c] # "store"
        /\ Answered(c)' <=> pc'[c] = "reply" /\ reply'[c].status = 200
        /\ Asking(c)' <=> pc'[c] \in {"wait", "accepted"}
    BY <1>2, <2>1, <2>2, <2>3 DEF Asking, AskRead, UploadRead, Answered, AskMoves
  <2>5. \A r, q \in stored' : r = q
    BY <2>2 DEF AskMoves
  <2> QED
    BY <1>1, <1>3, <2>2, <2>3, <2>4, <2>5, AskServed DEF Kept, AskMoves
<1> QED
  BY <1>4, <1>5
LEMMA ReceiverUpload ==
  ASSUME DeliverInv, NEW c \in Conns,
         \/ ReceiveUpload(c)
         \/ /\ Upload(c) \/ JobEnds(c) \/ UploadStored(c)
            /\ UNCHANGED <<sendVars, wireVars, prepVars>>
  PROVE  Kept'
<1> USE DEF sendVars, wireVars, winVars, connVars, askVars, grantVars, storeVars, Answering
<1>1. Uploading(c) \/ pc[c] = "store"
  BY DEF ReceiveUpload, Upload, JobEnds, UploadStored, Uploading, UploadRead
<1>2. uploads = 1 /\ ~Asking(c)
  BY <1>1 DEF DeliverInv, Kept, DeliveryTypeOK, UploadPhase, AskPhase, Unanswered
<1>3. /\ wire[c] = "Upload" => ~UploadRead(c) /\ job[c] # "running"
      /\ UploadRead(c) => wire[c] # "Upload" /\ job[c] # "running"
      /\ job[c] = "running" => wire[c] # "Upload" /\ ~UploadRead(c)
      /\ pc[c] \notin {"wait", "accepted"} /\ ~(pc[c] = "body" /\ path[c] = "Ask")
  BY <1>2 DEF DeliverInv, Kept, OneUpload, Asking, AskRead
<1>4. DeliverInv /\ TypeOK /\ DeliveryTypeOK
  BY DEF DeliverInv
<1>5. CASE ReceiveUpload(c)
  <2>1. OnlyAt(c)
    BY <1>4, <1>5 DEF ReceiveUpload, AuthorizeUpload, OnlyAt, TypeOK, DeliveryTypeOK
  <2>2. UNCHANGED <<spc, session, links_, uploads, denied, stored, job>>
    BY <1>5 DEF ReceiveUpload, AuthorizeUpload
  <2>3. /\ wire[c] = "Upload" /\ wire'[c] = "none" /\ pc'[c] \in {"body", "ended"}
        /\ path'[c] = "Upload"
    BY <1>4, <1>5 DEF ReceiveUpload, AuthorizeUpload, TypeOK, DeliveryTypeOK
  <2>4. /\ Uploading(c) /\ ~AskRead(c)'
        /\ UploadRead(c)' => job'[c] # "running"
    BY <1>3, <2>2, <2>3 DEF Uploading, AskRead
  <2> QED
    BY <1>2, <1>4, <2>1, <2>2, <2>3, <2>4, UploadServed DEF Kept
<1>6. ASSUME UNCHANGED <<sendVars, wireVars, prepVars>>, Upload(c) \/ UploadStored(c)
      PROVE  Kept'
  <2>1. OnlyAt(c) /\ stored' = stored /\ denied' = denied
    BY <1>4, <1>6 DEF Upload, UploadStored, OnlyAt, TypeOK
  <2>2. /\ pc'[c] \in {"reply", "store", "ended"}
        /\ job'[c] = "running" => UploadRead(c) \/ job[c] = "running"
    BY <1>4, <1>6 DEF Upload, UploadStored, TypeOK, UploadRead
  <2>3. wire'[c] = "Upload" => job'[c] # "running"
    BY <1>3, <1>6, <2>2 DEF Upload, UploadStored, UploadRead
  <2> QED
    BY <1>2, <1>4, <1>6, <2>1, <2>2, <2>3, UploadServed
    DEF Kept, Uploading, UploadRead, AskRead
<1>7. ASSUME UNCHANGED <<sendVars, wireVars, prepVars>>, JobEnds(c)
      PROVE  Kept'
  <2>1. OnlyAt(c) /\ denied' = denied /\ stored' \in {stored, stored \cup {Rid(c)}}
    BY <1>4, <1>7 DEF JobEnds, OnlyAt, TypeOK
  <2>2. /\ job[c] = "running" /\ job'[c] # "running"
        /\ pc' = pc /\ path' = path /\ wire' = wire
    BY <1>4, <1>7 DEF JobEnds, TypeOK
  <2>3. /\ Uploading(c) /\ ~Uploading(c)' /\ ~AskRead(c)' /\ wire'[c] # "Upload"
    BY <1>3, <2>2 DEF Uploading, AskRead, UploadRead
  <2> QED
    BY <1>2, <1>4, <1>7, <2>1, <2>2, <2>3, UploadServed DEF Kept
<1> QED
  BY <1>5, <1>6, <1>7

LEMMA ReplyIdles ==
  ASSUME TypeOK, DeliveryTypeOK, NEW c \in Conns, WriteReply(c)
  PROVE  Idles
<1> USE DEF TypeOK, DeliveryTypeOK, WriteReply, Respond, sendVars, askVars, grantVars, storeVars
<1>1. UNCHANGED <<links_, uploads, stored, denied, links, job, wire, path, reply>>
  OBVIOUS
<1>2. /\ pc[c] = "reply" /\ pc'[c] \in {"head", "ended"} /\ back'[c] = reply[c].status
      /\ \A d \in Conns \ {c} : pc'[d] = pc[d] /\ back'[d] = back[d]
  OBVIOUS
<1> QED
  BY <1>1, <1>2 DEF Idles, Asking, AskRead, UploadRead, Answered

LEMMA ConnectIdles ==
  ASSUME DeliverInv, NEW c \in Conns, Connect(c) \/ Reconnect(c)
  PROVE  Kept'
<1>1. Idles
  <2>1. /\ UNCHANGED <<links_, uploads, stored, denied, links, job, wire, back, path, reply>>
        /\ pc[c] = "none" /\ pc'[c] \in {"tls", "refused"}
        /\ \A d \in Conns \ {c} : pc'[d] = pc[d]
    BY DEF DeliverInv, TypeOK, Connect, Reconnect, Accept, wireVars, askVars, grantVars, storeVars
  <2> QED
    BY <2>1 DEF Idles, Asking, AskRead, UploadRead, Answered
<1>2. session' \in Conns /\ (spc' = spc \/ (spc \in Early /\ spc' \in Early))
  BY DEF Connect, Reconnect, Early
<1> QED
  BY <1>1, <1>2, IdleStep

\* The sender's own steps that put nothing on the wire.
LEMMA SenderIdles ==
  ASSUME DeliverInv,
         \/ LoadIdentity \/ Spool \/ Prepare \/ SessionFails \/ AskReply \/ AskLost
         \/ LastChunk \/ UploadReply \/ UploadLost \/ Abort \/ Elsewhere
  PROVE  Kept'
<1>0. DeliverInv /\ Kept /\ TypeOK /\ DeliveryTypeOK
  BY DEF DeliverInv
<1>1. /\ UNCHANGED <<vars, links_, uploads, wire>>
      /\ \A c \in Conns : back'[c] = 200 => back[c] = 200
      /\ spc' \in {"ask", "askSent", "upload", "uploadSent"} => session' = session
  BY <1>0
  DEF LoadIdentity, Spool, Prepare, SessionFails, AskReply, AskLost, LastChunk, UploadReply,
      UploadLost, Abort, Elsewhere, Fail, sendVars, wireVars, DeliveryTypeOK
<1>2. Idles
  <2>1. UNCHANGED <<pc, path, links, reply, job, stored, denied>>
    BY <1>1 DEF vars, connVars, storeVars, askVars
  <2> QED
    BY <1>1, <2>1 DEF Idles, Asking, AskRead, UploadRead, Answered
<1>3. CASE AskReply \/ UploadReply
  <2>1. CASE spc' = "err"
    BY <1>0, <1>2, <2>1, IdleStep
  <2>2. CASE spc' # "err"
    <3>1. session \in Conns /\ back[session] = 200 /\ spc \in {"askSent", "uploadSent"}
      BY <1>0, <1>3, <2>2 DEF AskReply, UploadReply, Fail, Kept, Handling
    <3>2. Answered(session)
      BY <3>1 DEF Answered
    <3>3. denied = {} /\ \A c \in Conns : ~Asking(c)
      BY <1>0, <3>1, <3>2 DEF Kept, AskPhase, Unanswered
    <3>4. links_ => stored # {}
      BY <1>0, <3>1, <3>2 DEF Kept, Published
    <3>5. spc = "askSent" => uploads = 0
      BY <1>0 DEF Kept, UploadPhase
    <3>6. spc' = "ok" \/ (spc' = "upload" /\ ~links_ /\ spc = "askSent")
      BY <1>3, <2>2 DEF AskReply, UploadReply, Fail
    <3> QED
      BY <1>0, <1>1, <1>2, <3>1, <3>3, <3>4, <3>5, <3>6, IdleStep
  <2> QED
    BY <2>1, <2>2
<1>4. CASE UploadLost /\ spc' = "ok"
  <2>1. ~links_ /\ spc = "uploadSent"
    BY <1>0, <1>4 DEF UploadLost, Fail, Kept, UploadPhase
  <2>2. denied = {} /\ \A c \in Conns : ~Asking(c)
    BY <1>0, <2>1 DEF Kept, AskPhase
  <2> QED
    BY <1>0, <1>2, <1>4, <2>1, <2>2, IdleStep
<1>5. ASSUME ~(AskReply \/ UploadReply), ~(UploadLost /\ spc' = "ok") PROVE Kept'
  <2>1. \/ spc' = spc
        \/ spc' \in {"err", "aborted"}
        \/ spc \in Early /\ spc' \in Early \ {"ask"}
    BY <1>5
    DEF LoadIdentity, Spool, Prepare, SessionFails, AskLost, LastChunk, UploadLost, Abort,
        Elsewhere, Fail, sendVars, Early
  <2>2. spc' \in {"ask", "askSent", "upload", "uploadSent"} => session' \in Conns
    BY <1>0, <1>1, <2>1 DEF Kept, Handling, Early
  <2> QED
    BY <1>0, <1>2, <2>1, <2>2, IdleStep
<1> QED
  BY <1>3, <1>4, <1>5

\* The two requests of the sender.
LEMMA AskSent == DeliverInv /\ SendAsk => Kept'
<1> SUFFICES ASSUME DeliverInv, SendAsk PROVE Kept'
  OBVIOUS
<1>0. DeliverInv /\ Kept /\ TypeOK /\ DeliveryTypeOK
  BY DEF DeliverInv
<1>1. /\ UNCHANGED <<links_, session, uploads, stored, denied, links, job, back, pc, path, reply>>
      /\ spc = "ask" /\ spc' = "askSent" /\ session \in Conns /\ wire'[session] = "Ask"
      /\ \A c \in Conns \ {session} : wire'[c] = wire[c]
  BY <1>0 DEF SendAsk, vars, connVars, askVars, storeVars, DeliveryTypeOK, Kept, Handling
<1>2. Unanswered /\ \A c \in Conns : ~Asking(c)
  BY <1>0, <1>1 DEF Kept, AskPhase, Early
<1>3. \A c \in Conns : /\ AskRead(c)' <=> AskRead(c)
                       /\ Asking(c)' <=> c = session
                       /\ Answered(c)' <=> Answered(c)
                       /\ UploadRead(c)' <=> UploadRead(c)
                       /\ Uploading(c)' => Uploading(c)
                       /\ wire'[c] = "Upload" => wire[c] = "Upload"
  BY <1>1, <1>2 DEF Asking, AskRead, Answered, UploadRead, Uploading
<1>4. Handling'
  BY <1>0, <1>1 DEF Kept, Handling
<1>5. OneAsk'
  BY <1>0, <1>2, <1>3 DEF Asking, OneAsk
<1>6. OneUpload'
  BY <1>0, <1>1, <1>3 DEF Kept, OneUpload
<1>7. AskPhase'
  BY <1>1, <1>2, <1>3 DEF AskPhase, Unanswered, Early
<1>8. UploadPhase'
  BY <1>0, <1>1, <1>2, <1>3 DEF Kept, UploadPhase, Unanswered
<1>9. Published'
  BY <1>0, <1>1, <1>3 DEF Kept, Published
<1> QED
  BY <1>4, <1>5, <1>6, <1>7, <1>8, <1>9 DEF Kept

LEMMA UploadSent == DeliverInv /\ SendUpload => Kept'
<1> SUFFICES ASSUME DeliverInv, SendUpload PROVE Kept'
  OBVIOUS
<1>0. DeliverInv /\ Kept /\ TypeOK /\ DeliveryTypeOK
  BY DEF DeliverInv
<1>1. /\ UNCHANGED <<links_, session, stored, denied, links, job, back, pc, path, reply>>
      /\ spc = "upload" /\ spc' = "uploadSent" /\ session \in Conns /\ wire'[session] = "Upload"
      /\ \A c \in Conns \ {session} : wire'[c] = wire[c]
      /\ uploads' = uploads + 1
  BY <1>0 DEF SendUpload, vars, connVars, askVars, storeVars, DeliveryTypeOK, Kept, Handling
<1>2. /\ ~links_ /\ uploads = 0 /\ uploads' = 1 /\ stored = {} /\ denied = {}
      /\ \A c \in Conns : ~Asking(c) /\ ~Uploading(c)
  BY <1>0, <1>1 DEF Kept, AskPhase, UploadPhase, Published
<1>3. \A c \in Conns : /\ ~Asking(c)'
                       /\ wire'[c] # "Ask"
                       /\ Uploading(c)' <=> c = session
                       /\ ~UploadRead(c)' /\ job'[c] # "running"
  BY <1>1, <1>2 DEF Asking, AskRead, UploadRead, Uploading
<1>4. Handling'
  BY <1>0, <1>1 DEF Kept, Handling
<1>5. OneAsk'
  BY <1>3 DEF OneAsk
<1>6. OneUpload'
  BY <1>3 DEF OneUpload
<1>7. AskPhase'
  BY <1>1, <1>2, <1>3 DEF AskPhase, Early
<1>8. UploadPhase'
  BY <1>1, <1>2 DEF UploadPhase
<1>9. Published'
  BY <1>1, <1>2 DEF Published
<1> QED
  BY <1>4, <1>5, <1>6, <1>7, <1>8, <1>9 DEF Kept
LEMMA DeliveryTypes == DeliverInv /\ [DNext]_allVars => DeliveryTypeOK'
<1> SUFFICES ASSUME DeliverInv, [DNext]_allVars PROVE DeliveryTypeOK'
  OBVIOUS
<1>0. TypeOK /\ DeliveryTypeOK /\ UploadPhase /\ Handling
  BY DEF DeliverInv, Kept
<1> USE <1>0 DEF DeliveryTypeOK, SenderPcs, Returned, sendVars, wireVars, Fail
<1>1. CASE LoadIdentity \/ Spool \/ Prepare \/ SessionFails
  BY <1>1 DEF LoadIdentity, Spool, Prepare, SessionFails
<1>2. ASSUME NEW c \in Conns, Connect(c) \/ Reconnect(c) PROVE DeliveryTypeOK'
  BY <1>2 DEF Connect, Reconnect
<1>3. CASE SendAsk \/ SendUpload
  <2>1. wire' \in [Conns -> {"none", "Ask", "Upload"}]
    BY <1>3 DEF SendAsk, SendUpload
  <2>2. uploads' \in 0 .. 1
    BY <1>3 DEF SendAsk, SendUpload, UploadPhase
  <2> QED
    BY <1>3, <2>1, <2>2 DEF SendAsk, SendUpload
<1>4. CASE AskReply \/ AskLost \/ UploadReply
  <2>1. back' \in [Conns -> {0, 200, 403, 415}]
    BY <1>4 DEF AskReply, AskLost, UploadReply
  <2>2. spc' \in {"ok", "upload", "err"}
    BY <1>4 DEF AskReply, AskLost, UploadReply
  <2>3. UNCHANGED <<links_, session, sentAll, uploads, wire>>
    BY <1>4 DEF AskReply, AskLost, UploadReply
  <2> QED
    BY <2>1, <2>2, <2>3
<1>5. CASE LastChunk \/ UploadLost \/ Abort \/ Elsewhere
  <2>1. CASE LastChunk
    BY <2>1 DEF LastChunk
  <2>2. CASE UploadLost
    BY <2>2 DEF UploadLost
  <2>3. CASE Abort
    BY <2>3 DEF Abort
  <2>4. CASE Elsewhere
    BY <2>4 DEF Elsewhere
  <2> QED
    BY <1>5, <2>1, <2>2, <2>3, <2>4
<1>6. ASSUME NEW c \in Conns, ReceiveAsk(c) \/ ReceiveUpload(c) \/ ReceiveBody(c) \/ Internal(c)
      PROVE  DeliveryTypeOK'
  BY <1>6 DEF ReceiveAsk, ReceiveUpload, ReceiveBody, Internal
<1>7. ASSUME NEW c \in Conns, WriteReply(c) PROVE DeliveryTypeOK'
  <2>1. reply[c].status \in {200, 403, 415}
    BY DEF TypeOK, Reply
  <2> QED
    BY <1>7, <2>1 DEF WriteReply
<1>8. CASE Environment \/ UNCHANGED allVars
  BY <1>8 DEF Environment, allVars
<1> QED
  BY <1>1, <1>2, <1>3, <1>4, <1>5, <1>6, <1>7, <1>8 DEF DNext, SenderStep

LEMMA KeptStep == DeliverInv /\ [DNext]_allVars => Kept'
<1> SUFFICES ASSUME DeliverInv, [DNext]_allVars PROVE Kept'
  OBVIOUS
<1>0. TypeOK /\ DeliveryTypeOK /\ Kept
  BY DEF DeliverInv
<1>1. CASE SenderStep \/ Abort \/ Elsewhere
  BY <1>1, SenderIdles, ConnectIdles, AskSent, UploadSent DEF SenderStep
<1>2. ASSUME UNCHANGED <<sendVars, wireVars>>, Idles PROVE Kept'
  <2>1. UNCHANGED <<spc, session>>
    BY <1>2 DEF sendVars
  <2>2. spc' \in {"ask", "askSent", "upload", "uploadSent"} => session' \in Conns
    BY <1>0, <2>1 DEF Kept, Handling
  <2> QED
    BY <1>2, <2>1, <2>2, IdleStep
<1>3. ASSUME NEW c \in Conns, WriteReply(c) PROVE Kept'
  <2>1. UNCHANGED <<spc, session>>
    BY <1>3 DEF WriteReply, sendVars
  <2>2. spc' \in {"ask", "askSent", "upload", "uploadSent"} => session' \in Conns
    BY <1>0, <2>1 DEF Kept, Handling
  <2> QED
    BY <1>0, <1>3, <2>1, <2>2, IdleStep, ReplyIdles
<1>4. ASSUME NEW c \in Conns, ReceiveAsk(c) \/ ReceiveUpload(c) PROVE Kept'
  BY <1>4, ReceiverAsk, ReceiverUpload
<1>5. ASSUME NEW c \in Conns, ReceiveBody(c) PROVE Kept'
  BY <1>5, ReceiverAsk, ReceiverUpload DEF ReceiveBody
<1>6. ASSUME NEW c \in Conns, Internal(c) PROVE Kept'
  <2>1. UNCHANGED <<sendVars, wireVars, prepVars>>
    BY <1>6 DEF Internal
  <2>2. CASE TlsEstablished(c) \/ ConnectionFails(c) \/ Join(c)
    BY <1>0, <1>2, <2>1, <2>2, ReceiverIdles
  <2>3. CASE AskDecided(c) \/ AskTimesOut(c) \/ DeliverLinks(c) \/ GrantUpload(c)
    BY <2>1, <2>3, ReceiverAsk
  <2>4. CASE JobEnds(c) \/ UploadStored(c)
    BY <2>1, <2>4, ReceiverUpload
  <2> QED
    BY <1>6, <2>2, <2>3, <2>4 DEF Internal
<1>7. CASE Environment
  <2>1. UNCHANGED <<sendVars, wireVars>>
    BY <1>7 DEF Environment
  <2> QED
    BY <1>0, <1>2, <1>7, <2>1, ReceiverIdles DEF Environment
<1>8. CASE UNCHANGED allVars
  <2>1. /\ UNCHANGED <<sendVars, wireVars>>
        /\ UNCHANGED <<spc, links_, uploads, stored, denied, pc, path, links, reply, job, wire, back>>
    BY <1>8 DEF allVars, vars, sendVars, wireVars, connVars, askVars, storeVars
  <2>2. Idles
    BY <2>1 DEF Idles, Asking, AskRead, UploadRead, Answered
  <2> QED
    BY <1>2, <2>1, <2>2
<1> QED
  BY <1>1, <1>3, <1>4, <1>5, <1>6, <1>7, <1>8 DEF DNext

LEMMA DeliverStart == DInit => DeliverInv
<1> SUFFICES ASSUME DInit PROVE DeliverInv
  OBVIOUS
<1>1. TypeOK
  BY TypeInit DEF DInit
<1>2. DeliveryTypeOK
  <2>1. wire \in [Conns -> {"none", "Ask", "Upload"}] /\ back \in [Conns -> {0, 200, 403, 415}]
    BY DEF DInit
  <2>2. uploads \in 0 .. 1
    BY DEF DInit
  <2> QED
    BY <2>1, <2>2 DEF DInit, DeliveryTypeOK, SenderPcs
<1>3. \A c \in Conns : /\ pc[c] = "none" /\ job[c] = "none" /\ wire[c] = "none" /\ back[c] = 0
                       /\ ~Asking(c) /\ ~AskRead(c) /\ ~Uploading(c) /\ ~UploadRead(c) /\ ~Answered(c)
  BY DEF DInit, Init, Asking, AskRead, Uploading, UploadRead, Answered
<1>4. spc = "identity" /\ stored = {} /\ denied = {} /\ uploads = 0
  BY DEF DInit, Init
<1>5. Handling /\ OneAsk /\ OneUpload
  BY <1>3, <1>4 DEF Handling, OneAsk, OneUpload
<1>6. AskPhase /\ UploadPhase /\ Published
  BY <1>3, <1>4 DEF AskPhase, UploadPhase, Published, Unanswered, Early
<1> QED
  BY <1>1, <1>2, <1>5, <1>6 DEF DeliverInv, Kept

LEMMA DeliverInvariant == DSpec => []DeliverInv
<1>1. DeliverInv /\ [DNext]_allVars => DeliverInv'
  <2> SUFFICES ASSUME DeliverInv, [DNext]_allVars PROVE DeliverInv'
    OBVIOUS
  <2>1. TypeOK'
    BY ReceiverPart, TypeStep DEF DeliverInv, DeliveryTypeOK
  <2> QED
    BY <2>1, DeliveryTypes, KeptStep DEF DeliverInv
<1> QED
  BY <1>1, DeliverStart, PTL DEF DSpec

\* However replies are lost and connections break, whatever is aborted and
\* whenever the window closes, at most one request of the transfer publishes.
THEOREM PublishedOnce == DSpec => []PublishedAtMostOnce
<1>1. DeliverInv => PublishedAtMostOnce
  <2> SUFFICES ASSUME DeliverInv PROVE Cardinality(stored) <= 1
    BY DEF DeliverInv, PublishedAtMostOnce
  <2>1. \A r, q \in stored : r = q
    BY DEF DeliverInv, Kept, Published
  <2>2. CASE stored = {}
    BY <2>2, FS_EmptySet
  <2>3. ASSUME NEW r \in stored PROVE Cardinality(stored) <= 1
    <3>1. stored = {r}
      BY <2>1
    <3>2. Cardinality({r}) = 1
      BY FS_Singleton
    <3> QED
      BY <3>1, <3>2
  <2> QED
    BY <2>2, <2>3
<1> QED
  BY <1>1, DeliverInvariant, PTL

\* A link transfer that is reported as delivered has been stored; one whose
\* Ask was refused stores nothing and is never reported as delivered.
THEOREM ReportedAsDecided == DSpec => []DeliveredAsDecided
<1>1. DeliverInv => DeliveredAsDecided
  BY DEF DeliverInv, Kept, Published, AskPhase, DeliveredAsDecided
<1> QED
  BY <1>1, DeliverInvariant, PTL
-----------------------------------------------------------------------------
(* The sender does not go back either.                                     *)

\* What the sender has still to do.
Stage(l) ==
  CASE l = "identity" -> 7 [] l = "prepare" -> 6 [] l = "connect" -> 5 [] l = "ask" -> 4
    [] l = "askSent" -> 3 [] l = "upload" -> 2 [] l = "uploadSent" -> 1 [] OTHER -> 0

\* The transfer goes forward, and every session is a connection of its own.
Forward ==
  /\ spc' # spc => Stage(spc') < Stage(spc)
  /\ session' # session => pc[session'] = "none" /\ pc'[session'] # "none"
  /\ sentAll => sentAll'

\* Whatever is lost, refused or aborted, transfer_with_progress only goes
\* forward: it never asks or uploads again, and a session it replaces is
\* replaced by a new connection.  What is left of TransferEnds is that it goes
\* on, which its deadlines see to.
THEOREM SenderGoesForward == DSpec => [][Forward]_allVars
<1>1. DeliverInv /\ [DNext]_allVars => [Forward]_allVars
  <2> SUFFICES ASSUME DeliverInv, DNext PROVE Forward
    OBVIOUS
  <2>0. spc \in SenderPcs /\ pc \in [Conns -> Pcs]
    BY DEF DeliverInv, DeliveryTypeOK, TypeOK
  <2>1. CASE LoadIdentity
    BY <2>1 DEF LoadIdentity, Fail, Forward, Stage, sendVars
  <2>2. CASE Prepare \/ SessionFails \/ SendAsk \/ AskReply \/ AskLost
    BY <2>2 DEF Prepare, SessionFails, SendAsk, AskReply, AskLost, Fail, Forward, Stage
  <2>3. CASE SendUpload \/ LastChunk \/ UploadReply \/ UploadLost
    BY <2>3 DEF SendUpload, LastChunk, UploadReply, UploadLost, Fail, Forward, Stage
  <2>4. CASE Abort
    BY <2>0, <2>4 DEF Abort, Forward, Stage, SenderPcs, Returned
  <2>5. ASSUME NEW c \in Conns, Connect(c) \/ Reconnect(c) PROVE Forward
    <3>1. pc[c] = "none" /\ pc'[c] # "none"
      BY <2>0, <2>5 DEF Connect, Reconnect, Accept
    <3> QED
      BY <2>5, <3>1 DEF Connect, Reconnect, Forward, Stage
  <2>6. ASSUME UNCHANGED sendVars PROVE Forward
    BY <2>6 DEF sendVars, Forward
  <2>7. CASE Spool \/ Elsewhere \/ Environment
    BY <2>6, <2>7 DEF Spool, Elsewhere, Environment
  <2>8. ASSUME NEW c \in Conns,
               ReceiveAsk(c) \/ ReceiveUpload(c) \/ ReceiveBody(c) \/ WriteReply(c) \/ Internal(c)
        PROVE  Forward
    BY <2>6, <2>8 DEF ReceiveAsk, ReceiveUpload, ReceiveBody, WriteReply, Internal
  <2> QED
    BY <2>1, <2>2, <2>3, <2>4, <2>5, <2>7, <2>8 DEF DNext, SenderStep
<1> QED
  BY <1>1, DeliverInvariant, PTL DEF DSpec
=============================================================================
