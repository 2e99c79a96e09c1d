----------------------------- MODULE CompanionLink ------------------------------
(***************************************************************************)
(* One pull over the companion link: Pair-Verify M1 .. M4, then the        *)
(* exchanges P1/P2 (system info) and P3/P4 (pasteboard) over the encrypted *)
(* channel, of the client (src/src/companion_client.rs, with               *)
(* PairVerifyClient and ContentChannel of src/src/companion.rs) with the   *)
(* device behind the address that was resolved, which acts as              *)
(* PairVerifyServer and run_mock_server do.  Every pull has a connection   *)
(* and ephemeral keys of its own, so that one is enough.                   *)
(*                                                                         *)
(* Cryptography is symbolic: a sealed text opens under the key, nonce and  *)
(* associated data it was sealed with, a signature verifies under the key  *)
(* of its device over the text that was signed.  An OPACK message is its   *)
(* length, what the decoder counts in it, and whether it is a pasteboard;  *)
(* transaction numbers, which no reader compares, are left out.            *)
(***************************************************************************)
EXTENDS Naturals, Sequences, Framing

CONSTANTS
  Devices,     \* devices that answer as companion-link peers
  KnownToUs,   \* those whose key is in our identity file
  KnowUs,      \* those that have our key
  Us,          \* this device
  Info, Fetch, \* a system info and the request for the pasteboard
  Boards       \* what a device may send as its pasteboard

TagLen == 16
MaxPacketBody == 4194304
MaxWireLen == 16777215

\* What opack::decode finds in a message: objects, the deepest one, what is
\* charged for all; and is it what parse_pasteboard_response expects?
Messages == [len : Nat, objects : Nat, depth : Nat, charged : Nat, pasteboard : BOOLEAN]

\* opack::decode, of a message that was encoded.
Decodes(msg) ==
  /\ msg.len <= MaxInput
  /\ msg.objects <= MaxObjects
  /\ msg.depth <= MaxDepth
  /\ msg.charged <= MaxBudget

\* build_pasteboard_response: n items, whose types and data have b bytes and
\* take w more to say how long they are beyond 32.
Response(n, b, w) ==
  [len |-> 16 + 13 * n + b + w + (IF n < 15 THEN 0 ELSE 1),
   objects |-> 7 + 5 * n,
   depth |-> 3,
   charged |-> 32 * (7 + 5 * n) + 2 * (9 + 8 * n + b),
   pasteboard |-> TRUE]

\* A system info and a request are a few short strings.
ASSUME CompanionAssumption ==
  /\ KnownToUs \subseteq Devices /\ KnowUs \subseteq Devices
  /\ Us \notin Devices
  /\ {Info, Fetch} \cup Boards \subseteq Messages
  /\ \A msg \in {Info, Fetch} : msg.len + TagLen <= MaxPacketBody /\ Decodes(msg)

VARIABLES
  reached,     \* the device at the other end
  board,       \* its pasteboard
  cpc, spc,    \* what each end reads or writes next
  cSecret, sSecret,  \* PairVerifyClient.shared, PairVerifyServer.shared
  sClientPub,  \* PairVerifyServer.client_pub
  cChan, sChan,      \* the content channel of each end
  toServer, toClient,  \* packets under way
  link,        \* the connection: up, reset, or silent without a reset
  disturbed    \* history: the network or a deadline interfered

endVars == <<cpc, spc>>
keyVars == <<cSecret, sSecret, sClientPub>>
chanVars == <<cChan, sChan>>
wireVars == <<toServer, toClient, link, disturbed>>
vars == <<reached, board, endVars, keyVars, chanVars, wireVars>>

-----------------------------------------------------------------------------
(* Keys, signatures, ciphertexts.                                          *)

Pubs == {"clientPub", "serverPub"}
NoSecret == {}
Secret(a, b) == {a, b}          \* X25519: the same at both ends
PairVerifyKey(s) == <<"PairVerify", s>>
Sealed(key, nonce, aad, text) == [key |-> key, nonce |-> nonce, aad |-> aad, text |-> text]
Opens(box, key, nonce, aad) == box.key = key /\ box.nonce = nonce /\ box.aad = aad
PvNonce(n) == <<"PV-Msg", n>>
Counter(n) == <<"counter", n>>
NoBox == Sealed(<<"none", {}>>, Counter(0), 0, <<>>)

\* Each end signs its own ephemeral key and then that of the other.
Signature(device, own, peer) == [by |-> device, over |-> <<own, peer>>]
Verifies(sig, known, peer, own) == \E d \in known : sig = Signature(d, peer, own)

Keys(s, role) ==
  IF role = "client" THEN [enc |-> <<"Client", s>>, dec |-> <<"Server", s>>]
                     ELSE [enc |-> <<"Server", s>>, dec |-> <<"Client", s>>]
Channel(s, role) ==
  [encKey |-> Keys(s, role).enc, decKey |-> Keys(s, role).dec, encNonce |-> 0, decNonce |-> 0]
NoChannel == [encKey |-> <<"none", {}>>, decKey |-> <<"none", {}>>, encNonce |-> 0, decNonce |-> 0]

\* len is the length in the header; pairing packets are short.
Packet(kind, pub, len, box) == [kind |-> kind, pub |-> pub, len |-> len, box |-> box]

-----------------------------------------------------------------------------
ClientStates == {"sendM1", "readM2", "sendM3", "readM4", "sendP1", "readP2", "sendP3", "readP4",
                 "done", "failed"}
ServerStates == {"readM1", "sendM2", "readM3", "sendM4", "readP1", "sendP2", "readP3", "sendP4",
                 "done", "failed"}
Ended == {"done", "failed"}
ClientReading == {"readM2", "readM4", "readP2", "readP4"}
ServerReading == {"readM1", "readM3", "readP1", "readP3"}

TypeOK ==
  /\ reached \in Devices
  /\ board \in Boards
  /\ cpc \in ClientStates
  /\ spc \in ServerStates
  /\ cSecret \in {NoSecret, Pubs}
  /\ sSecret \in {NoSecret, Pubs}
  /\ sClientPub \in Pubs \cup {"none"}
  /\ cChan.encNonce \in 0 .. 2 /\ cChan.decNonce \in 0 .. 2
  /\ sChan.encNonce \in 0 .. 2 /\ sChan.decNonce \in 0 .. 2
  /\ Len(toServer) <= 1 /\ Len(toClient) <= 1
  /\ link \in {"up", "reset", "silent"}
  /\ disturbed \in BOOLEAN

Init ==
  /\ reached \in Devices
  /\ board \in Boards
  /\ cpc = "sendM1" /\ spc = "readM1"
  /\ cSecret = NoSecret /\ sSecret = NoSecret /\ sClientPub = "none"
  /\ cChan = NoChannel /\ sChan = NoChannel
  /\ toServer = <<>> /\ toClient = <<>>
  /\ link = "up"
  /\ disturbed = FALSE

-----------------------------------------------------------------------------
(* The stream.  An end that returns drops it; what it wrote before arrives,*)
(* and after that the other end reads the end of the stream.               *)

\* write_packet by one end (pc'), to an end that is at `peer'.
Writes(pkt, pc, next, wire, wireNext, peer) ==
  \/ link = "up" /\ peer \notin Ended /\ wireNext = Append(wire, pkt) /\ pc = next
  \/ (link = "silent" \/ peer \in Ended) /\ wireNext = wire /\ pc = next
  \/ (link = "reset" \/ peer \in Ended) /\ wireNext = wire /\ pc = "failed"

ClientWrites(pkt, next) ==
  Writes(pkt, cpc', next, toServer, toServer', spc) /\ UNCHANGED <<spc, toClient>>
ServerWrites(pkt, next) ==
  Writes(pkt, spc', next, toClient, toClient', cpc) /\ UNCHANGED <<cpc, toServer>>

ClientTakes == toClient # <<>> /\ toClient' = Tail(toClient) /\ UNCHANGED <<spc, toServer>>
ServerTakes == toServer # <<>> /\ toServer' = Tail(toServer) /\ UNCHANGED <<cpc, toClient>>

ClientEof ==
  /\ cpc \in ClientReading
  /\ toClient = <<>>
  /\ link = "reset" \/ (link = "up" /\ spc \in Ended)
  /\ cpc' = "failed"
  /\ UNCHANGED <<reached, board, spc, keyVars, chanVars, wireVars>>

ServerEof ==
  /\ spc \in ServerReading
  /\ toServer = <<>>
  /\ link = "reset" \/ (link = "up" /\ cpc \in Ended)
  /\ spc' = "failed"
  /\ UNCHANGED <<reached, board, cpc, keyVars, chanVars, wireVars>>

\* The reads that have a deadline: every read_packet.
Timed_Handshake(pc) == pc \in {"readM1", "readM2", "readM3", "readM4"}
Timed(pc) == pc \in ClientReading \cup ServerReading

ClientTimer ==
  /\ Timed(cpc)
  /\ cpc' = "failed"
  /\ disturbed' = TRUE
  /\ UNCHANGED <<reached, board, spc, keyVars, chanVars, toServer, toClient, link>>

ServerTimer ==
  /\ Timed(spc)
  /\ spc' = "failed"
  /\ disturbed' = TRUE
  /\ UNCHANGED <<reached, board, cpc, keyVars, chanVars, toServer, toClient, link>>

\* The deadlines of connect and of the pull, a write that takes 10 s, an
\* abort: at any time.
ClientDropped ==
  /\ cpc \notin Ended
  /\ cpc' = "failed"
  /\ disturbed' = TRUE
  /\ UNCHANGED <<reached, board, spc, keyVars, chanVars, toServer, toClient, link>>

\* The connection is reset, or the device is out of range.
LinkBreaks ==
  /\ link = "up"
  /\ link' \in {"reset", "silent"}
  /\ toServer' = <<>> /\ toClient' = <<>>
  /\ disturbed' = TRUE
  /\ UNCHANGED <<reached, board, endVars, keyVars, chanVars>>
-----------------------------------------------------------------------------
(* Pair-Verify.                                                            *)

SendM1 ==
  /\ cpc = "sendM1"
  /\ ClientWrites(Packet("M1", "clientPub", 0, NoBox), "readM2")
  /\ UNCHANGED <<reached, board, keyVars, chanVars, link, disturbed>>

ProcessM1 ==
  /\ spc = "readM1"
  /\ ServerTakes
  /\ sClientPub' = toServer[1].pub
  /\ sSecret' = Secret("serverPub", toServer[1].pub)
  /\ spc' = "sendM2"
  /\ UNCHANGED <<reached, board, cSecret, chanVars, link, disturbed>>

SendM2 ==
  /\ spc = "sendM2"
  /\ ServerWrites(Packet("M2", "serverPub", 0,
                        Sealed(PairVerifyKey(sSecret), PvNonce(2), 0,
                               Signature(reached, "serverPub", sClientPub))),
                  "readM3")
  /\ UNCHANGED <<reached, board, keyVars, chanVars, link, disturbed>>

ClientAccepts(m2, secret) ==
  /\ Opens(m2.box, PairVerifyKey(secret), PvNonce(2), 0)
  /\ Verifies(m2.box.text, KnownToUs, m2.pub, "clientPub")

ProcessM2 ==
  /\ cpc = "readM2"
  /\ ClientTakes
  /\ cSecret' = Secret("clientPub", toClient[1].pub)
  /\ cpc' = IF ClientAccepts(toClient[1], cSecret') THEN "sendM3" ELSE "failed"
  /\ UNCHANGED <<reached, board, sSecret, sClientPub, chanVars, link, disturbed>>

SendM3 ==
  /\ cpc = "sendM3"
  /\ ClientWrites(Packet("M3", "none", 0,
                        Sealed(PairVerifyKey(cSecret), PvNonce(3), 0,
                               Signature(Us, "clientPub", "serverPub"))),
                  "readM4")
  /\ UNCHANGED <<reached, board, keyVars, chanVars, link, disturbed>>

\* What the device knows: our key, or not.
ServerKnows == IF reached \in KnowUs THEN {Us} ELSE {}

ServerAccepts_Anyone(m3) == Opens(m3.box, PairVerifyKey(sSecret), PvNonce(3), 0)
ServerAccepts(m3) ==
  /\ Opens(m3.box, PairVerifyKey(sSecret), PvNonce(3), 0)
  /\ Verifies(m3.box.text, ServerKnows, sClientPub, "serverPub")

ProcessM3 ==
  /\ spc = "readM3"
  /\ ServerTakes
  /\ \/ /\ ServerAccepts(toServer[1])
        /\ sChan' = Channel(sSecret, "server")
        /\ spc' = "sendM4"
     \/ /\ ~ServerAccepts(toServer[1])
        /\ spc' = "failed"
        /\ UNCHANGED sChan
  /\ UNCHANGED <<reached, board, keyVars, cChan, link, disturbed>>

SendM4 ==
  /\ spc = "sendM4"
  /\ ServerWrites(Packet("M4", "none", 0, NoBox), "readP1")
  /\ UNCHANGED <<reached, board, keyVars, chanVars, link, disturbed>>

CheckM4 ==
  /\ cpc = "readM4"
  /\ ClientTakes
  /\ cChan' = Channel(cSecret, "client")
  /\ cpc' = "sendP1"
  /\ UNCHANGED <<reached, board, keyVars, sChan, link, disturbed>>

-----------------------------------------------------------------------------
(* The encrypted exchanges.                                                *)

\* send_opack: the header, which is authenticated, holds the length of the
\* ciphertext.
FitsHeader(len) == len + TagLen <= MaxWireLen
DataPacket_PlainLength(chan, msg) ==
  Packet("data", "none", msg.len + TagLen,
         Sealed(chan.encKey, Counter(chan.encNonce), msg.len, msg))
DataPacket(chan, msg) ==
  Packet("data", "none", msg.len + TagLen,
         Sealed(chan.encKey, Counter(chan.encNonce), msg.len + TagLen, msg))
AfterEncrypt(chan) == [chan EXCEPT !.encNonce = @ + 1]

\* recv_opack: read_packet refuses a long body before it reads it.
Accepts(chan, pkt) ==
  /\ pkt.kind = "data"
  /\ pkt.len <= MaxPacketBody
  /\ Opens(pkt.box, chan.decKey, Counter(chan.decNonce), pkt.len)
AfterDecrypt(chan) == [chan EXCEPT !.decNonce = @ + 1]

ClientSends(here, msg, next) ==
  /\ cpc = here
  /\ ClientWrites(DataPacket(cChan, msg), next)
  /\ cChan' = AfterEncrypt(cChan)
  /\ UNCHANGED <<reached, board, keyVars, sChan, link, disturbed>>

ServerSends(here, msg, next) ==
  /\ spc = here
  /\ \/ /\ FitsHeader(msg.len)
        /\ ServerWrites(DataPacket(sChan, msg), next)
        /\ sChan' = AfterEncrypt(sChan)
     \/ /\ ~FitsHeader(msg.len)
        /\ spc' = "failed"
        /\ UNCHANGED <<cpc, sChan, toServer, toClient>>
  /\ UNCHANGED <<reached, board, keyVars, cChan, link, disturbed>>

\* The text is decoded, and parsed as what the caller awaits.
Understood(msg, awaited) == Decodes(msg) /\ (awaited = "pasteboard" => msg.pasteboard)

ClientReceives(here, awaited, next) ==
  /\ cpc = here
  /\ ClientTakes
  /\ \/ /\ Accepts(cChan, toClient[1])
        /\ cChan' = AfterDecrypt(cChan)
        /\ cpc' = IF Understood(toClient[1].box.text, awaited) THEN next ELSE "failed"
     \/ /\ ~Accepts(cChan, toClient[1])
        /\ cpc' = "failed"
        /\ UNCHANGED cChan
  /\ UNCHANGED <<reached, board, keyVars, sChan, link, disturbed>>

ServerReceives(here, next) ==
  /\ spc = here
  /\ ServerTakes
  /\ \/ /\ Accepts(sChan, toServer[1])
        /\ sChan' = AfterDecrypt(sChan)
        /\ spc' = IF Decodes(toServer[1].box.text) THEN next ELSE "failed"
     \/ /\ ~Accepts(sChan, toServer[1])
        /\ spc' = "failed"
        /\ UNCHANGED sChan
  /\ UNCHANGED <<reached, board, keyVars, cChan, link, disturbed>>

SystemInfoExchange ==
  ClientSends("sendP1", Info, "readP2") \/ ClientReceives("readP2", "info", "sendP3")
FetchPasteboard ==
  ClientSends("sendP3", Fetch, "readP4") \/ ClientReceives("readP4", "pasteboard", "done")
AnswerInfo == ServerReceives("readP1", "sendP2") \/ ServerSends("sendP2", Info, "readP3")
AnswerFetch == ServerReceives("readP3", "sendP4") \/ ServerSends("sendP4", board, "done")

ClientStep ==
  SendM1 \/ ProcessM2 \/ SendM3 \/ CheckM4 \/ SystemInfoExchange \/ FetchPasteboard \/ ClientEof
ServerStep ==
  ProcessM1 \/ SendM2 \/ ProcessM3 \/ SendM4 \/ AnswerInfo \/ AnswerFetch \/ ServerEof

Next ==
  ClientStep \/ ServerStep \/ ClientTimer \/ ServerTimer \/ ClientDropped \/ LinkBreaks

Spec == Init /\ [][Next]_vars

\* The runtime polls both ends, and the deadlines are those of the code.
FairSpec ==
  Spec /\ WF_vars(ClientStep) /\ WF_vars(ServerStep) /\ WF_vars(ClientTimer) /\ WF_vars(ServerTimer)
-----------------------------------------------------------------------------
Mutual == reached \in KnownToUs \cap KnowUs

\* A pull from a device that is trusted and trusts us fails only when the
\* network or a deadline interferes, or when the pasteboard is longer than a
\* reader accepts, more than its decoder does, or none: keys, counters and
\* authenticated lengths of the two ends agree at every packet.  With it the
\* types of all variables.
BoardFits == board.len <= MaxPacketBody - TagLen /\ Decodes(board) /\ board.pasteboard
FailsForAReason ==
  /\ TypeOK
  /\ cpc = "failed" => disturbed \/ ~Mutual \/ ~BoardFits

\* A pull gives a board only of a device that trusts us and is trusted, and
\* only one given in this pull.
Pull == INSTANCE TrustedPull WITH
  agreed <- sChan # NoChannel,
  given <- spc = "done",
  result <- CASE cpc = "done" -> "board" [] cpc = "failed" -> "failed" [] OTHER -> "none"
PullIsTrusted == Pull!PullSpec

\* Both ends come to an end, whatever the other one and the network do.
BothEnd == <>(cpc \in Ended /\ spc \in Ended)
=============================================================================
