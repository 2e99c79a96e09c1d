------------------------------- MODULE Receiver -------------------------------
(***************************************************************************)
(* The AirDrop-compatible receive window: the accept loop `run' and the    *)
(* per-connection task `connection' of src/src/airdrop/mod.rs, with the    *)
(* request reader of src/src/airdrop/http.rs.                              *)
(*                                                                         *)
(* Every connection task is an actor; they share the table of upload      *)
(* grants (Sessions.approved, keyed by IP address), the bounded approval  *)
(* queue (Sessions.approval) and the bounded `completed' channel.  A       *)
(* request is named by its connection and the iteration of the `for _ in  *)
(* 0..32' loop that serves it.                                             *)
(*                                                                         *)
(* Timers are not counted: each one is an action that may happen whenever  *)
(* it is armed.  An Instant in the grant table is reduced to whether 120   *)
(* seconds have passed since, and the grant also remembers which Ask made  *)
(* it (history, never read by the code).                                   *)
(***************************************************************************)
EXTENDS Naturals, FiniteSets, Sequences

CONSTANTS
  Conns,         \* the TCP connections that nearby devices may open
  Peers,         \* their IP addresses
  PeerOf,        \* the address each connection comes from
  MaxConns,      \* `tasks.len() >= 4' in run
  MaxRequests,   \* `for _ in 0..32' in connection
  MaxGrants,     \* `grants.len() < 128'
  ApprovalCap,   \* capacity of the approval mpsc channel (8)
  CompletedCap,  \* capacity of the completed mpsc channel (8)
  Approval,      \* is Config.approval Some? (daemon: yes, command line: no)
  Once           \* Config.once

ASSUME ReceiverAssumption ==
  /\ IsFiniteSet(Conns)
  /\ IsFiniteSet(Peers)
  /\ PeerOf \in [Conns -> Peers]
  /\ MaxConns \in Nat \ {0}
  /\ MaxRequests \in Nat \ {0}
  /\ MaxGrants \in Nat \ {0}
  /\ ApprovalCap \in Nat \ {0}
  /\ CompletedCap \in Nat \ {0}
  /\ Approval \in BOOLEAN
  /\ Once \in BOOLEAN

VARIABLES
  run,        \* "open" while run's select loop turns, then "closed"
  pc,         \* where each connection is; "none" before it is opened
  served,     \* iteration of connection's request loop
  path,       \* endpoint of the request being served
  links,      \* is the Ask being served a link transfer?
  reply,      \* status and `done' of the response being written
  answer,     \* the oneshot each waiting Ask listens on
  queue,      \* approval channel: Asks nobody has looked at yet
  held,       \* Asks the approver has taken and not yet decided
  grants,     \* Sessions.approved
  completed,  \* messages in the completed channel
  job,        \* the spawn_blocking storage job of each connection
  approved,   \* history: Asks the approver said yes to
  denied,     \* history: Asks refused, by decision, timeout or full queue
  expired,    \* history: Asks whose grant has aged past 120 seconds
  consumed,   \* history: which grant authorised which Upload
  stored,     \* history: requests with items published in the folder
  reported    \* history: with --once, a response has told of a finished transfer

winVars == <<run, completed, reported>>
connVars == <<pc, served, path, links, reply>>
askVars == <<answer, queue, held, approved, denied>>
grantVars == <<grants, expired, consumed>>
storeVars == <<job, stored>>
vars == <<winVars, connVars, askVars, grantVars, storeVars>>

Request == Conns \X (0 .. MaxRequests - 1)
Rid(c) == <<c, served[c]>>

Paths == {"Discover", "Ask", "Upload"}
Reply == [status : {200, 403, 415}, done : BOOLEAN]

NoGrant == [live |-> FALSE]
Grant(r, f) == [live |-> TRUE, ask |-> r, fresh |-> f]
GrantType == {NoGrant} \cup [live : {TRUE}, ask : Request, fresh : BOOLEAN]

\* A grant younger than 120 seconds.
Usable_AnyAge(g) == g.live
Usable(g) == g.live /\ g.fresh

Pcs == {"none", "refused", "tls", "head", "body", "wait", "accepted",
        "store", "reply", "ended", "joined"}

\* Members of run's JoinSet: a task counts until join_next has collected it,
\* also when it has already returned.
Tasks == {c \in Conns : pc[c] \notin {"none", "refused", "joined"}}

TypeOK ==
  /\ run \in {"open", "closed"}
  /\ pc \in [Conns -> Pcs]
  /\ served \in [Conns -> 0 .. MaxRequests - 1]
  /\ path \in [Conns -> Paths]
  /\ links \in [Conns -> BOOLEAN]
  /\ reply \in [Conns -> Reply]
  /\ answer \in [Conns -> {"none", "yes", "no"}]
  /\ queue \in Seq(Request)
  /\ held \in SUBSET Request
  /\ grants \in [Peers -> GrantType]
  /\ completed \in 0 .. CompletedCap
  /\ job \in [Conns -> {"none", "running", "ok", "err"}]
  /\ approved \in SUBSET Request
  /\ denied \in SUBSET Request
  /\ expired \in SUBSET Request
  /\ consumed \in SUBSET [upload : Request, ask : Request]
  /\ stored \in SUBSET Request
  /\ reported \in BOOLEAN

Init ==
  /\ run = "open"
  /\ pc = [c \in Conns |-> "none"]
  /\ served = [c \in Conns |-> 0]
  /\ path = [c \in Conns |-> "Discover"]
  /\ links = [c \in Conns |-> FALSE]
  /\ reply = [c \in Conns |-> [status |-> 200, done |-> FALSE]]
  /\ answer = [c \in Conns |-> "none"]
  /\ queue = <<>>
  /\ held = {}
  /\ grants = [p \in Peers |-> NoGrant]
  /\ completed = 0
  /\ job = [c \in Conns |-> "none"]
  /\ approved = {}
  /\ denied = {}
  /\ expired = {}
  /\ consumed = {}
  /\ stored = {}
  /\ reported = FALSE
-----------------------------------------------------------------------------
(* The accept loop of `run'.                                               *)

Full_OffByOne == Cardinality(Tasks) > MaxConns
Full == Cardinality(Tasks) >= MaxConns

\* listener.accept: beyond MaxConns members of the JoinSet the socket is
\* dropped on the spot.
Accept(c) ==
  /\ run = "open"
  /\ pc[c] = "none"
  /\ pc' = [pc EXCEPT ![c] = IF Full THEN "refused" ELSE "tls"]
  /\ UNCHANGED <<winVars, served, path, links, reply, askVars, grantVars, storeVars>>

\* tasks.join_next: the slot of a returned task becomes free.
Join(c) ==
  /\ run = "open"
  /\ pc[c] = "ended"
  /\ pc' = [pc EXCEPT ![c] = "joined"]
  /\ UNCHANGED <<winVars, served, path, links, reply, askVars, grantVars, storeVars>>

\* Leaving the loop: tasks.abort_all() and the join of all tasks (or, after
\* an accept error, the drop of the JoinSet).  A storage job is a blocking
\* thread: it is told to cancel but is not stopped here.
Close ==
  /\ run' = "closed"
  /\ pc' = [c \in Conns |-> IF pc[c] \in {"none", "refused"} THEN pc[c] ELSE "joined"]
  /\ queue' = <<>>
  /\ grants' = [p \in Peers |-> NoGrant]
  /\ UNCHANGED <<served, path, links, reply, answer, held, approved, denied,
                 expired, consumed, storeVars>>

\* The end timer, SIGINT/SIGTERM, or an error of accept.
WindowEnds ==
  /\ run = "open"
  /\ Close
  /\ UNCHANGED <<completed, reported>>

\* rx.recv: with --once the first completed transfer closes the window.
CompletedReceived ==
  /\ run = "open"
  /\ completed > 0
  /\ completed' = completed - 1
  /\ UNCHANGED reported
  /\ IF Once THEN Close
             ELSE UNCHANGED <<run, connVars, askVars, grantVars, storeVars>>
-----------------------------------------------------------------------------
(* One connection: TLS, then the request loop.                             *)

TlsEstablished(c) ==
  /\ pc[c] = "tls"
  /\ pc' = [pc EXCEPT ![c] = "head"]
  /\ UNCHANGED <<winVars, served, path, links, reply, askVars, grantVars, storeVars>>

\* Every `?' that leaves `connection': TLS or header or body timeouts, a
\* closed socket, malformed framing or plist, a failed write.
ConnectionFails(c) ==
  /\ pc[c] \in {"tls", "head", "body", "reply"}
  /\ pc' = [pc EXCEPT ![c] = "ended"]
  /\ UNCHANGED <<winVars, served, path, links, reply, askVars, grantVars, storeVars>>

\* Request line and headers of a Discover or an Ask.
ReadHead(c, p) ==
  /\ pc[c] = "head"
  /\ p # "Upload"
  /\ path' = [path EXCEPT ![c] = p]
  /\ pc' = [pc EXCEPT ![c] = "body"]
  /\ UNCHANGED <<winVars, served, links, reply, askVars, grantVars, storeVars>>

WithoutGrant_Peek(p) == grants
WithoutGrant(p) == [grants EXCEPT ![p] = NoGrant]

\* Headers of an Upload: the authorize closure removes the grant of this
\* address whatever its age; only one younger than 120 s lets the body in,
\* anything else is answered 403 and the connection is dropped.
AuthorizeUpload(c) ==
  LET g == grants[PeerOf[c]] IN
  /\ pc[c] = "head"
  /\ path' = [path EXCEPT ![c] = "Upload"]
  /\ grants' = WithoutGrant(PeerOf[c])
  /\ \/ /\ Usable(g)
        /\ pc' = [pc EXCEPT ![c] = "body"]
        /\ consumed' = consumed \cup {[upload |-> Rid(c), ask |-> g.ask]}
     \/ /\ ~Usable(g)
        /\ pc' = [pc EXCEPT ![c] = "ended"]
        /\ UNCHANGED consumed
  /\ UNCHANGED <<winVars, served, links, reply, askVars, expired, storeVars>>

Answering(c, status, done) ==
  /\ pc' = [pc EXCEPT ![c] = "reply"]
  /\ reply' = [reply EXCEPT ![c] = [status |-> status, done |-> done]]

Discover(c) ==
  /\ pc[c] = "body"
  /\ path[c] = "Discover"
  /\ Answering(c, 200, FALSE)
  /\ UNCHANGED <<winVars, served, path, links, askVars, grantVars, storeVars>>

\* The Ask has been read; l tells a link transfer.  With an approver the Ask
\* goes to the bounded queue by try_send: a full queue is a refusal.
Ask(c, l) ==
  /\ pc[c] = "body"
  /\ path[c] = "Ask"
  /\ links' = [links EXCEPT ![c] = l]
  /\ \/ /\ ~Approval
        /\ pc' = [pc EXCEPT ![c] = "accepted"]
        /\ UNCHANGED <<reply, answer, queue, denied>>
     \/ /\ Approval
        /\ Len(queue) < ApprovalCap
        /\ queue' = Append(queue, Rid(c))
        /\ answer' = [answer EXCEPT ![c] = "none"]
        /\ pc' = [pc EXCEPT ![c] = "wait"]
        /\ UNCHANGED <<reply, denied>>
     \/ /\ Approval
        /\ Len(queue) >= ApprovalCap
        /\ denied' = denied \cup {Rid(c)}
        /\ Answering(c, 403, FALSE)
        /\ UNCHANGED <<answer, queue>>
  /\ UNCHANGED <<winVars, served, path, held, approved, grantVars, storeVars>>

\* The oneshot resolved: true goes on, false or a dropped sender is a 403.
AskDecided(c) ==
  /\ pc[c] = "wait"
  /\ \/ /\ answer[c] = "yes"
        /\ pc' = [pc EXCEPT ![c] = "accepted"]
        /\ UNCHANGED <<reply, denied>>
     \/ /\ answer[c] = "no"
        /\ denied' = denied \cup {Rid(c)}
        /\ Answering(c, 403, FALSE)
  /\ UNCHANGED <<winVars, served, path, links, answer, queue, held, approved,
                 grantVars, storeVars>>

AskTimesOut_Accepts(c) ==
  /\ pc[c] = "wait"
  /\ answer[c] = "none"
  /\ pc' = [pc EXCEPT ![c] = "accepted"]
  /\ UNCHANGED <<winVars, served, path, links, reply, askVars, grantVars, storeVars>>

AskTimesOut_Never(c) == FALSE /\ UNCHANGED <<vars, c>>

\* The 90 s timer wins only if the oneshot has not resolved: timeout polls
\* the oneshot first.
AskTimesOut(c) ==
  /\ pc[c] = "wait"
  /\ answer[c] = "none"
  /\ denied' = denied \cup {Rid(c)}
  /\ Answering(c, 403, FALSE)
  /\ UNCHANGED <<winVars, served, path, links, answer, queue, held, approved,
                 grantVars, storeVars>>

\* An accepted link Ask is the whole transfer: `deliver' stores the links
\* and the request is done.  An unsupported link or a storage error leaves
\* the connection without a response, and the latter perhaps links that its
\* rollback could not remove.
DeliverLinks(c) ==
  /\ pc[c] = "accepted"
  /\ links[c]
  /\ \/ /\ stored' = stored \cup {Rid(c)}
        /\ Answering(c, 200, TRUE)
     \/ /\ pc' = [pc EXCEPT ![c] = "ended"]
        /\ stored' \in {stored, stored \cup {Rid(c)}}
        /\ UNCHANGED reply
  /\ UNCHANGED <<winVars, served, path, links, askVars, grantVars, job>>

Retained_Renews == [p \in Peers |-> IF grants[p].live THEN Grant(grants[p].ask, TRUE) ELSE NoGrant]
Retained == [p \in Peers |-> IF Usable(grants[p]) THEN grants[p] ELSE NoGrant]
LivePeers(g) == {p \in Peers : g[p].live}
RoomForGrant_OffByOne == Cardinality(LivePeers(Retained)) <= MaxGrants
RoomForGrant == Cardinality(LivePeers(Retained)) < MaxGrants

\* An accepted file Ask: drop the aged grants, refuse beyond the bound (the
\* connection ends without a response), else replace this address's grant.
GrantUpload(c) ==
  /\ pc[c] = "accepted"
  /\ ~links[c]
  /\ \/ /\ RoomForGrant
        /\ grants' = [Retained EXCEPT ![PeerOf[c]] = Grant(Rid(c), TRUE)]
        /\ Answering(c, 200, FALSE)
     \/ /\ ~RoomForGrant
        /\ grants' = Retained
        /\ pc' = [pc EXCEPT ![c] = "ended"]
        /\ UNCHANGED reply
  /\ UNCHANGED <<winVars, served, path, links, askVars, expired, consumed, storeVars>>

\* The Upload body is spooled: an unknown content type is a 415 (the grant
\* is gone all the same), else a blocking thread decodes and stores it.
Upload(c) ==
  /\ pc[c] = "body"
  /\ path[c] = "Upload"
  /\ \/ /\ Answering(c, 415, FALSE)
        /\ UNCHANGED job
     \/ /\ pc' = [pc EXCEPT ![c] = "store"]
        /\ job' = [job EXCEPT ![c] = "running"]
        /\ UNCHANGED reply
  /\ UNCHANGED <<winVars, served, path, links, askVars, grantVars, stored>>

\* storage::receive_cancel ends on its blocking thread, also when the
\* connection it worked for has been aborted (then the cancellation flag is
\* up, which is seen only before the publication loop).  An error may come
\* after some or all items were published.
JobEnds(c) ==
  /\ job[c] = "running"
  /\ \/ /\ job' = [job EXCEPT ![c] = "ok"]
        /\ stored' = stored \cup {Rid(c)}
     \/ /\ job' = [job EXCEPT ![c] = "err"]
        /\ stored' \in {stored, stored \cup {Rid(c)}}
  /\ UNCHANGED <<winVars, connVars, askVars, grantVars>>

UploadStored_IgnoresError(c) ==
  /\ pc[c] = "store"
  /\ job[c] \in {"ok", "err"}
  /\ Answering(c, 200, TRUE)
  /\ UNCHANGED <<winVars, served, path, links, askVars, grantVars, storeVars>>

\* `.await??' on the job: success is answered 200, an error closes the
\* connection with no response at all.
UploadStored(c) ==
  /\ pc[c] = "store"
  /\ \/ /\ job[c] = "ok"
        /\ Answering(c, 200, TRUE)
     \/ /\ job[c] = "err"
        /\ pc' = [pc EXCEPT ![c] = "ended"]
        /\ UNCHANGED reply
  /\ UNCHANGED <<winVars, served, path, links, askVars, grantVars, storeVars>>

\* completed.try_send of a finished transfer, dropped when the channel is full.
Report(c) ==
  completed' = IF reply[c].done /\ completed < CompletedCap THEN completed + 1 ELSE completed

LastRequest(c) == served[c] + 1 = MaxRequests

Respond_EndsFirst(c) ==
  /\ pc[c] = "reply"
  /\ \/ /\ path[c] = "Discover" \/ LastRequest(c)
        /\ pc' = [pc EXCEPT ![c] = "ended"]
        /\ UNCHANGED <<served, completed>>
     \/ /\ path[c] # "Discover" /\ ~LastRequest(c)
        /\ pc' = [pc EXCEPT ![c] = "head"]
        /\ served' = [served EXCEPT ![c] = @ + 1]
        /\ Report(c)
  /\ reported' = (reported \/ (Once /\ reply[c].done))
  /\ UNCHANGED <<run, path, links, reply, askVars, grantVars, storeVars>>

\* The response is written.  Discover closes the connection; a finished
\* transfer reports to run; then the next iteration, or the end of the loop.
Respond(c) ==
  /\ pc[c] = "reply"
  /\ \/ /\ path[c] = "Discover" \/ LastRequest(c)
        /\ pc' = [pc EXCEPT ![c] = "ended"]
        /\ UNCHANGED served
     \/ /\ path[c] # "Discover" /\ ~LastRequest(c)
        /\ pc' = [pc EXCEPT ![c] = "head"]
        /\ served' = [served EXCEPT ![c] = @ + 1]
  /\ Report(c)
  /\ reported' = (reported \/ (Once /\ reply[c].done))
  /\ UNCHANGED <<run, path, links, reply, askVars, grantVars, storeVars>>
-----------------------------------------------------------------------------
(* The approver (the daemon's receive task and whoever decides) and time.   *)

TakeAsk ==
  /\ run = "open"
  /\ queue # <<>>
  /\ held' = held \cup {Head(queue)}
  /\ queue' = Tail(queue)
  /\ UNCHANGED <<winVars, connVars, answer, approved, denied, grantVars, storeVars>>

\* The oneshot of r still has its receiver.
Listening_SameConnection(r) == pc[r[1]] = "wait"
Listening(r) == pc[r[1]] = "wait" /\ served[r[1]] = r[2]

\* decision.send(b), or the drop of the sender (b = FALSE).  It reaches the
\* Ask only while that very Ask still listens; otherwise it is lost.
Decide(r, b) ==
  /\ r \in held
  /\ held' = held \ {r}
  /\ approved' = IF b THEN approved \cup {r} ELSE approved
  /\ answer' = IF Listening(r)
               THEN [answer EXCEPT ![r[1]] = IF b THEN "yes" ELSE "no"]
               ELSE answer
  /\ UNCHANGED <<winVars, connVars, queue, denied, grantVars, storeVars>>

\* 120 seconds have passed since the grant was inserted.
GrantAges(p) ==
  /\ Usable(grants[p])
  /\ grants' = [grants EXCEPT ![p] = Grant(grants[p].ask, FALSE)]
  /\ expired' = expired \cup {grants[p].ask}
  /\ UNCHANGED <<winVars, connVars, askVars, consumed, storeVars>>

ConnStep(c) ==
  \/ TlsEstablished(c) \/ ConnectionFails(c)
  \/ \E p \in Paths : ReadHead(c, p)
  \/ AuthorizeUpload(c) \/ Discover(c)
  \/ \E l \in BOOLEAN : Ask(c, l)
  \/ AskDecided(c) \/ AskTimesOut(c)
  \/ DeliverLinks(c) \/ GrantUpload(c)
  \/ Upload(c) \/ UploadStored(c) \/ Respond(c)

Next ==
  \/ \E c \in Conns : Accept(c) \/ Join(c) \/ ConnStep(c) \/ JobEnds(c)
  \/ WindowEnds \/ CompletedReceived
  \/ TakeAsk
  \/ \E r \in held, b \in BOOLEAN : Decide(r, b)
  \/ \E p \in Peers : GrantAges(p)

Spec == Init /\ [][Next]_vars
-----------------------------------------------------------------------------
(* Fairness: every state of a connection is bounded by a timer (10 s TLS,  *)
(* 30 s header and body stalls within 3600 s per request, 90 s approval),  *)
(* a blocking job runs to its end, and run's loop polls its JoinSet and    *)
(* its channel.  Nothing obliges a device to connect, the approver to      *)
(* decide or the window to end.                                            *)
Fairness ==
  /\ \A c \in Conns : WF_vars(ConnStep(c)) /\ WF_vars(JobEnds(c)) /\ WF_vars(Join(c))
  /\ WF_vars(CompletedReceived)

FairSpec == Spec /\ Fairness
-----------------------------------------------------------------------------
UploadsFollowAsks ==
  \A x \in consumed :
    /\ Approval => x.ask \in approved
    /\ x.ask \notin denied
    /\ PeerOf[x.ask[1]] = PeerOf[x.upload[1]]

\* A grant that has aged past its 120 seconds never lets an Upload in, even
\* if the table has not been swept since.
AgedGrantsNeverUsed ==
  \A x \in consumed : x.ask \notin expired

\* An Upload body is let in only on behalf of an Ask from the same address
\* that was accepted: said yes to when there is an approver, never one that
\* was refused, timed out or found the queue full, however late the decision
\* comes, and never one whose grant has aged.  With it the types of all
\* variables.
UploadsWereAccepted == TypeOK /\ UploadsFollowAsks /\ AgedGrantsNeverUsed

\* Grants and Uploads pair off: an accepted Ask authorises at most one Upload,
\* whichever of the address's connections sends it and whatever becomes of it,
\* and an Upload spends one grant and no other.
GrantsPairUploads ==
  \A x, y \in consumed : x.ask = y.ask \/ x.upload = y.upload => x = y

\* Whatever is published in the receive folder was approved: a link Ask by
\* its own approval, an Upload by the approval of the Ask it consumed, also
\* when the storage job outlives its connection or the window.
StoredWasApproved ==
  Approval => \A r \in stored :
    r \in approved \/ \E x \in consumed : x.upload = r /\ x.ask \in approved

\* A transfer reported as done, by a 200 to the sender and a message to run,
\* has been published.
DoneMeansStored ==
  \A c \in Conns : pc[c] = "reply" /\ reply[c].done => Rid(c) \in stored

\* Where a connection is once its request is answered or dropped.
Past == {"reply", "ended", "joined"}

\* Request r has been answered or dropped: its connection is past it.
Settled(r) ==
  \/ r[2] < served[r[1]]
  \/ r[2] = served[r[1]] /\ pc[r[1]] \in Past

SettledRequests == {r \in Request : Settled(r)}

\* Requests with a grant that still counts.
Granted == {r \in Request : \E p \in Peers : Usable(grants[p]) /\ grants[p].ask = r}

\* The window keeps the promise of Consent, in which every request is
\* answered once, with what was agreed to before: a late decision, an aged
\* or replaced grant and a closed window leave no way into the folder, and a
\* grant that no longer counts is never renewed by a later sweep of the table.
Asked == INSTANCE Consent WITH
  Requests <- Request,
  From <- [r \in Request |-> PeerOf[r[1]]],
  NeedsYes <- Approval,
  yes <- approved,
  answered <- SettledRequests,
  granted <- Granted,
  used <- consumed,
  folder <- stored
ReceivesByConsent == Asked!ConsentSpec

\* At most MaxConns tasks exist at a time, returned but uncollected included.
ConnectionBound == Cardinality(Tasks) <= MaxConns

\* The grant table never outgrows its bound, though a grant is inserted after
\* a wait of up to 90 seconds during which other Asks are granted.
GrantBound == Cardinality(LivePeers(grants)) <= MaxGrants

\* Both limits of the window.
LimitsHold == ConnectionBound /\ GrantBound

\* An accepted connection always gives its slot back: no request, approval
\* or storage job holds it for ever, and it cannot ask for ever either.
SlotIsFreed == \A c \in Conns : pc[c] = "tls" ~> pc[c] = "joined"

\* With --once the window knows of every transfer whose end was told to the
\* sender until it closes: a report that finds the channel full is dropped
\* only because another one is still there.
ReportIsKept == Once /\ reported => completed > 0 \/ run = "closed"

\* With --once a transfer whose end was told to its sender closes the window,
\* also when its own report was dropped because the channel was full.
OnceCloses == Once /\ reported ~> run = "closed"
=============================================================================
