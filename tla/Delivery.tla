------------------------------- MODULE Delivery -------------------------------
(***************************************************************************)
(* One outgoing transfer, src/src/airdrop/send.rs over the sessions of     *)
(* src/src/airdrop/client_http.rs, composed with the identity it loads     *)
(* (Identity), the archive it spools (Outgoing) and the receive window     *)
(* (Receiver): both ends of a transfer between two machines that run this  *)
(* program.  A session of the sender is a connection of the receiver; the  *)
(* receiver reads what the sender has put on the wire and its responses    *)
(* travel back.  Connections break at any point and messages are lost with *)
(* them.  The engine may abort the sender's task at any point.             *)
(***************************************************************************)
EXTENDS Receiver, Identity, Outgoing

CONSTANTS
  NoConn,  \* no session
  Client   \* the sender among those that load the identity

ASSUME DeliveryAssumption == NoConn \notin Conns /\ Client \in Callers

VARIABLES
  spc,       \* where transfer_with_progress is
  links_,    \* does it send links (Ask only) or files (Ask, then Upload)?
  session,   \* the current Session
  wire,      \* request on its way on each connection
  back,      \* status on its way back on each connection
  sentAll,   \* uploaded == total: every byte has been handed to hyper
  uploads    \* Upload requests made

sendVars == <<spc, links_, session, sentAll, uploads>>
wireVars == <<wire, back>>
prepVars == <<identityVars, outgoingVars>>
allVars == <<vars, sendVars, wireVars, prepVars>>

Returned == {"ok", "err", "aborted"}
SenderPcs == {"identity", "prepare", "connect", "ask", "askSent", "upload", "uploadSent"}
               \cup Returned

DeliveryTypeOK ==
  /\ spc \in SenderPcs
  /\ links_ \in BOOLEAN
  /\ session \in Conns \cup {NoConn}
  /\ wire \in [Conns -> {"none", "Ask", "Upload"}]
  /\ back \in [Conns -> {0, 200, 403, 415}]
  /\ sentAll \in BOOLEAN
  /\ uploads \in 0 .. 1

DInit ==
  /\ Init /\ OutgoingInit
  /\ ipc = [p \in Callers |-> IF p = Client THEN "start" ELSE "idle"]
  /\ key = Absent /\ cert = Absent /\ seen = [p \in Callers |-> Absent]
  /\ handed = {} /\ broken = FALSE
  /\ spc = "identity"
  /\ links_ \in BOOLEAN
  /\ session = NoConn
  /\ wire = [c \in Conns |-> "none"]
  /\ back = [c \in Conns |-> 0]
  /\ sentAll = FALSE
  /\ uploads = 0

\* The receiver has closed connection c (or never kept it).
Closed(c) == pc[c] \in {"refused", "ended", "joined"}
Fail == spc' = "err" /\ UNCHANGED <<links_, session, sentAll, uploads>>
-----------------------------------------------------------------------------
(* The sender.                                                             *)

\* Client::new.
LoadIdentity ==
  /\ spc = "identity"
  /\ \/ Loading(Client) /\ UNCHANGED <<sendVars, outgoingVars>>
     \/ /\ ipc[Client] = "loaded"
        /\ IF links_ THEN spc' = "connect" /\ UNCHANGED outgoingVars ELSE spc' = "prepare" /\ Begin
        /\ UNCHANGED <<links_, session, sentAll, uploads, identityVars>>
     \/ ipc[Client] = "failed" /\ Fail /\ UNCHANGED prepVars
  /\ UNCHANGED <<vars, wireVars>>

\* The blocking task goes on by itself when the transfer is aborted.
Spool ==
  /\ spc \in {"prepare", "aborted"}
  /\ Preparing
  /\ UNCHANGED <<vars, wireVars, sendVars, identityVars>>

\* Nothing looks at the files again, which leaves the model.
Prepare ==
  /\ spc = "prepare"
  /\ \/ /\ opc = "prepared"
        /\ spc' = "connect"
        /\ UNCHANGED <<links_, session, sentAll, uploads>>
     \/ opc = "failed" /\ Fail
  /\ kind' = [n \in Nodes |-> "none"] /\ size' = [n \in Nodes |-> 0] /\ changes' = 0
  /\ files' = <<>> /\ next' = 1 /\ todo' = <<>> /\ entries' = <<>> /\ total' = 0
  /\ open' = [was |-> 0, now |-> 0, linked |-> FALSE]
  /\ UNCHANGED <<opc, token, vars, wireVars, identityVars>>

\* Session::connect, before the Ask.
Connect(c) ==
  /\ spc = "connect"
  /\ Accept(c)
  /\ session' = c
  /\ spc' = "ask"
  /\ UNCHANGED <<links_, sentAll, uploads, wireVars, prepVars>>

\* Before the Upload a session that is_closed() is replaced.
Reconnect(c) ==
  /\ spc = "upload"
  /\ Closed(session)
  /\ Accept(c)
  /\ session' = c
  /\ UNCHANGED <<spc, links_, sentAll, uploads, wireVars, prepVars>>

\* No connection, or TLS does not come up, or it is lost before the request.
SessionFails ==
  /\ spc \in {"connect", "ask", "upload"}
  /\ Fail
  /\ UNCHANGED <<vars, wireVars, prepVars>>

SendAsk ==
  /\ spc = "ask"
  /\ pc[session] = "head"
  /\ wire' = [wire EXCEPT ![session] = "Ask"]
  /\ spc' = "askSent"
  /\ UNCHANGED <<vars, back, links_, session, sentAll, uploads, prepVars>>

\* post("/Ask"): anything but a 200 is an error; for links that was all.
AskReply ==
  /\ spc = "askSent"
  /\ back[session] # 0
  /\ back' = [back EXCEPT ![session] = 0]
  /\ \/ /\ back[session] = 200
        /\ spc' = IF links_ THEN "ok" ELSE "upload"
        /\ UNCHANGED <<links_, session, sentAll, uploads>>
     \/ /\ back[session] # 200
        /\ Fail
  /\ UNCHANGED <<vars, wire, prepVars>>

AskLost_CloseIsYes ==
  /\ spc = "askSent"
  /\ Closed(session)
  /\ spc' = IF links_ THEN "ok" ELSE "err"
  /\ UNCHANGED <<vars, wireVars, prepVars, links_, session, sentAll, uploads>>

\* A response that never comes: closed connection or deadline.
AskLost ==
  /\ spc = "askSent"
  /\ Fail
  /\ UNCHANGED <<vars, wireVars, prepVars>>

\* The Upload goes out once, on the session the Ask used; only a session
\* already known to be closed is replaced first (Reconnect), so the Upload
\* may meet a connection the receiver has closed unnoticed.
SendUpload ==
  /\ spc = "upload"
  /\ pc[session] = "head" \/ Closed(session)
  /\ wire' = [wire EXCEPT ![session] = "Upload"]
  /\ uploads' = uploads + 1
  /\ spc' = "uploadSent"
  /\ UNCHANGED <<vars, back, links_, session, sentAll, prepVars>>

\* The last chunk is pulled from the archive.
LastChunk ==
  /\ spc = "uploadSent"
  /\ ~sentAll
  /\ sentAll' = TRUE
  /\ UNCHANGED <<vars, wireVars, prepVars, spc, links_, session, uploads>>

UploadReply ==
  /\ spc = "uploadSent"
  /\ back[session] # 0
  /\ back' = [back EXCEPT ![session] = 0]
  /\ \/ /\ back[session] = 200
        /\ spc' = "ok"
        /\ UNCHANGED <<links_, session, sentAll, uploads>>
     \/ /\ back[session] # 200
        /\ Fail
  /\ UNCHANGED <<vars, wire, prepVars>>

UploadLost_StartsOver ==
  /\ spc = "uploadSent"
  /\ Closed(session)
  /\ spc' = "connect"
  /\ sentAll' = FALSE
  /\ UNCHANGED <<vars, wireVars, prepVars, links_, session, uploads>>

UploadLost_NoDeadline ==
  /\ spc = "uploadSent"
  /\ sentAll
  /\ Closed(session)
  /\ spc' = "ok"
  /\ UNCHANGED <<vars, wireVars, prepVars, links_, session, sentAll, uploads>>

\* No response, or one lost with its connection: with every byte handed
\* over, "connection closed before message completed" counts as success;
\* any other error, the 3600 s deadline or an early close is a failure.
UploadLost ==
  /\ spc = "uploadSent"
  /\ \/ /\ sentAll
        /\ Closed(session)
        /\ spc' = "ok"
        /\ UNCHANGED <<links_, session, sentAll, uploads>>
     \/ Fail
  /\ UNCHANGED <<vars, wireVars, prepVars>>

\* Cancel, Stop or Quit: the task is dropped wherever it is.
Abort ==
  /\ spc \notin Returned
  /\ spc' = "aborted"
  /\ Drop
  /\ UNCHANGED <<links_, session, sentAll, uploads, vars, wireVars, identityVars>>

SenderStep ==
  \/ LoadIdentity \/ Spool \/ Prepare \/ SessionFails
  \/ \E c \in Conns : Connect(c) \/ Reconnect(c)
  \/ SendAsk \/ AskReply \/ AskLost
  \/ SendUpload \/ LastChunk \/ UploadReply \/ UploadLost
-----------------------------------------------------------------------------
(* The receiver's steps, fed by the wire.                                  *)

\* A dropped session closes its connection: only a live one delivers.
Connected(c) == session = c /\ spc \notin Returned

ReceiveAsk(c) ==
  /\ Connected(c)
  /\ wire[c] = "Ask"
  /\ ReadHead(c, "Ask")
  /\ wire' = [wire EXCEPT ![c] = "none"]
  /\ UNCHANGED <<back, sendVars, prepVars>>

\* A 403 to an unauthorised Upload is written before the connection closes.
ReceiveUpload(c) ==
  /\ Connected(c)
  /\ wire[c] = "Upload"
  /\ AuthorizeUpload(c)
  /\ wire' = [wire EXCEPT ![c] = "none"]
  /\ back' = IF pc'[c] = "ended" THEN [back EXCEPT ![c] = 403] ELSE back
  /\ UNCHANGED <<sendVars, prepVars>>

ReceiveBody(c) ==
  /\ \/ Ask(c, links_)
     \/ sentAll /\ Upload(c)
  /\ UNCHANGED <<sendVars, wireVars, prepVars>>

WriteReply(c) ==
  /\ Respond(c)
  /\ back' = [back EXCEPT ![c] = reply[c].status]
  /\ UNCHANGED <<wire, sendVars, prepVars>>

Internal(c) ==
  /\ \/ TlsEstablished(c) \/ ConnectionFails(c) \/ Join(c) \/ AskDecided(c)
     \/ AskTimesOut(c) \/ DeliverLinks(c) \/ GrantUpload(c)
     \/ JobEnds(c) \/ UploadStored(c)
  /\ UNCHANGED <<sendVars, wireVars, prepVars>>

Environment ==
  /\ \/ WindowEnds \/ CompletedReceived \/ TakeAsk
     \/ \E r \in held, b \in BOOLEAN : Decide(r, b)
     \/ \E p \in Peers : GrantAges(p)
  /\ UNCHANGED <<sendVars, wireVars, prepVars>>

\* The daemon's receive window or search for recipients loads the identity;
\* the files are worked on.
Elsewhere ==
  /\ \/ /\ \E p \in Callers \ {Client} : Call(p) \/ Loading(p)
        /\ UNCHANGED outgoingVars
     \/ spc = "prepare" /\ Others /\ UNCHANGED identityVars
  /\ UNCHANGED <<vars, sendVars, wireVars>>

DNext ==
  \/ SenderStep \/ Abort \/ Elsewhere
  \/ \E c \in Conns : \/ ReceiveAsk(c) \/ ReceiveUpload(c) \/ ReceiveBody(c)
                      \/ WriteReply(c) \/ Internal(c)
  \/ Environment

DSpec == DInit /\ [][DNext]_allVars

\* Every wait of the sender has a deadline (10 s TCP, 15 s TLS, 120 s or
\* 3600 s per request).
DFairSpec == DSpec /\ WF_allVars(SenderStep)
-----------------------------------------------------------------------------
\* However replies are lost and connections break, a transfer is published
\* at most once: the Upload is never replayed.
PublishedAtMostOnce == DeliveryTypeOK /\ Cardinality(stored) <= 1

\* A link transfer reported as delivered has been stored by the receiver; one
\* whose Ask was refused stores nothing and is never reported as delivered.
DeliveredAsDecided ==
  /\ spc = "ok" /\ links_ => stored # {}
  /\ denied # {} => stored = {} /\ spc # "ok"

\* The sender's call always returns, and the thread that spools for it ends.
TransferEnds == <>[](spc \in Returned /\ opc \in Over \cup {"idle"})
=============================================================================
