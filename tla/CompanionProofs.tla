----------------------------- MODULE CompanionProofs ----------------------------
(***************************************************************************)
(* CompanionLink implements TrustedPull, and fails only for a reason, for  *)
(* any devices, any trust between them and us and any pasteboards of       *)
(* theirs.  The first relies on: a signature in a packet of a kind is  *)
(* of the one end that sends that kind, and the packet that opens under    *)
(* the second nonce is the pasteboard.  The second on: the two ends are in *)
(* step, so that every packet is the one its reader waits for.             *)
(*                                                                         *)
(* A pull comes to its end: each step of either end takes one off a count  *)
(* of what is left.  And the framing both ends use reads back what was     *)
(* written, one packet at a time.                                          *)
(***************************************************************************)
EXTENDS CompanionLink, SequenceTheorems, TLAPS

PubsOrNone == Pubs \cup {"none"}
Secrets == SUBSET PubsOrNone
SecretKeys == {"none", "Client", "Server"} \X Secrets
Channels == [encKey : SecretKeys, decKey : SecretKeys, encNonce : Nat, decNonce : Nat]

\* The packets under way.
Under(wire) == {wire[i] : i \in 1 .. Len(wire)}

PastM2 == {"sendM3", "readM4", "sendP1", "readP2", "sendP3", "readP4", "done"}
PastM3 == {"sendM4", "readP1", "sendP2", "readP3", "sendP4", "done"}

\* An end knows whom it has verified, and counts what it has opened or sealed.
ClientInv ==
  /\ cpc \in ClientStates
  /\ cSecret \in Secrets
  /\ cChan \in Channels
  /\ cpc \in PastM2 => reached \in KnownToUs
  /\ cpc \in {"sendP1", "readP2"} => cChan.decNonce = 0
  /\ cpc \in {"sendP3", "readP4"} => cChan.decNonce = 1

ServerInv ==
  /\ spc \in ServerStates
  /\ sSecret \in Secrets
  /\ sChan \in Channels
  /\ spc \in PastM3 => Mutual /\ sChan.encKey[1] = "Server"
  /\ spc \in {"sendM4", "readP1", "sendP2"} => sChan.encNonce = 0

\* Only the client seals under the third nonce, once it has verified the
\* device; only the device under the second, and under its second counter
\* with its last packet.
OfClient(p) == p.pub \in PubsOrNone /\ (p.box.nonce = PvNonce(3) => reached \in KnownToUs)
OfServer(p) ==
  /\ p.pub \in PubsOrNone
  /\ p.box.nonce = PvNonce(2) => p.box.text.by = reached
  /\ p.box.nonce = Counter(1) => spc = "done"

WireInv ==
  /\ \E S : toServer \in Seq(S)
  /\ \E S : toClient \in Seq(S)
  /\ \A p \in Under(toServer) : OfClient(p)
  /\ \A p \in Under(toClient) : OfServer(p)

PullInv == ClientInv /\ ServerInv /\ WireInv

USE CompanionAssumption
-----------------------------------------------------------------------------
LEMMA Appended ==
  ASSUME NEW S, NEW s \in Seq(S), NEW p
  PROVE  /\ Append(s, p) \in Seq(S \cup {p})
         /\ Under(Append(s, p)) \subseteq Under(s) \cup {p}
<1>1. s \in Seq(S \cup {p}) /\ p \in S \cup {p}
  OBVIOUS
<1>2. Append(s, p) \in Seq(S \cup {p}) /\ Len(Append(s, p)) = Len(s) + 1
  BY <1>1
<1>3. \A i \in 1 .. Len(s) + 1 : Append(s, p)[i] = IF i <= Len(s) THEN s[i] ELSE p
  BY <1>1
<1> QED
  BY <1>2, <1>3 DEF Under

LEMMA Taken ==
  ASSUME NEW S, NEW s \in Seq(S), s # <<>>
  PROVE  /\ Tail(s) \in Seq(S)
         /\ s[1] \in Under(s)
         /\ Under(Tail(s)) \subseteq Under(s)
<1>1. Len(s) \in Nat /\ Len(s) >= 1 /\ Len(Tail(s)) = Len(s) - 1 /\ Tail(s) \in Seq(S)
  OBVIOUS
<1>2. \A i \in 1 .. Len(s) - 1 : Tail(s)[i] = s[i + 1] /\ i + 1 \in 1 .. Len(s)
  BY <1>1
<1> QED
  BY <1>1, <1>2 DEF Under

LEMMA NoncesDiffer ==
  /\ PvNonce(2) # PvNonce(3)
  /\ \A n \in Nat : Counter(n) # PvNonce(2) /\ Counter(n) # PvNonce(3)
  /\ Counter(0) # Counter(1)
BY DEF PvNonce, Counter

LEMMA ChannelType ==
  /\ NoChannel \in Channels
  /\ NoChannel.encKey[1] # "Server"
  /\ \A s \in Secrets, role \in {"client", "server"} :
       Channel(s, role) \in Channels /\ Channel(s, role).encNonce = 0 /\ Channel(s, role).decNonce = 0
  /\ \A s \in Secrets : Channel(s, "server").encKey[1] = "Server"
  /\ \A c \in Channels :
       /\ AfterEncrypt(c) \in Channels /\ AfterDecrypt(c) \in Channels
       /\ AfterEncrypt(c).encKey = c.encKey /\ AfterDecrypt(c).encKey = c.encKey
       /\ AfterEncrypt(c).decNonce = c.decNonce /\ AfterDecrypt(c).encNonce = c.encNonce
       /\ AfterDecrypt(c).decNonce = c.decNonce + 1
BY DEF NoChannel, Channels, SecretKeys, Secrets, PubsOrNone, Channel, Keys, AfterEncrypt, AfterDecrypt

\* Writing adds at most the packet, and goes on or fails.
LEMMA ClientWrote ==
  ASSUME PullInv, NEW pkt, NEW next, ClientWrites(pkt, next), OfClient(pkt), UNCHANGED reached
  PROVE  WireInv' /\ spc' = spc /\ (cpc' = next \/ cpc' = "failed")
<1>1. /\ toServer' = Append(toServer, pkt) \/ toServer' = toServer
      /\ cpc' = next \/ cpc' = "failed"
      /\ UNCHANGED <<spc, toClient>>
  BY DEF ClientWrites, Writes
<1>2. (\E S : toServer' \in Seq(S)) /\ Under(toServer') \subseteq Under(toServer) \cup {pkt}
  <2>1. PICK S : toServer \in Seq(S)
    BY DEF PullInv, WireInv
  <2>2. CASE toServer' = Append(toServer, pkt)
    BY <2>1, <2>2, Appended
  <2>3. CASE toServer' = toServer
    BY <2>1, <2>3
  <2> QED
    BY <1>1, <2>2, <2>3
<1> QED
  BY <1>1, <1>2 DEF PullInv, WireInv, OfClient, OfServer

LEMMA ServerWrote ==
  ASSUME PullInv, NEW pkt, NEW next, ServerWrites(pkt, next), UNCHANGED reached, spc # "done",
         pkt.pub \in PubsOrNone,
         pkt.box.nonce = PvNonce(2) => pkt.box.text.by = reached,
         pkt.box.nonce = Counter(1) => next = "done"
  PROVE  WireInv' /\ cpc' = cpc /\ (spc' = next \/ spc' = "failed")
<1>1. /\ (toClient' = Append(toClient, pkt) /\ spc' = next) \/ toClient' = toClient
      /\ spc' = next \/ spc' = "failed"
      /\ UNCHANGED <<cpc, toServer>>
  BY DEF ServerWrites, Writes
<1>2. (\E S : toClient' \in Seq(S)) /\ Under(toClient') \subseteq Under(toClient) \cup {pkt}
  <2>1. PICK S : toClient \in Seq(S)
    BY DEF PullInv, WireInv
  <2>2. CASE toClient' = Append(toClient, pkt)
    <3>1. /\ \E T : Append(toClient, pkt) \in Seq(T)
          /\ Under(Append(toClient, pkt)) \subseteq Under(toClient) \cup {pkt}
      BY <2>1, Appended
    <3> QED
      BY <2>2, <3>1
  <2>3. CASE toClient' = toClient
    BY <2>1, <2>3
  <2> QED
    BY <1>1, <2>2, <2>3
<1>3. \A p \in Under(toClient) : OfServer(p)'
  BY DEF PullInv, WireInv, OfServer
<1>4. toClient' # toClient => OfServer(pkt)'
  BY <1>1 DEF OfServer
<1> QED
  BY <1>1, <1>2, <1>3, <1>4 DEF PullInv, WireInv, OfClient

\* Reading takes the first packet away.
LEMMA ClientTook ==
  ASSUME PullInv, ClientTakes, UNCHANGED reached
  PROVE  WireInv' /\ OfServer(toClient[1]) /\ spc' = spc
<1>1. /\ \E S : toClient' \in Seq(S)
      /\ toClient[1] \in Under(toClient) /\ Under(toClient') \subseteq Under(toClient)
  BY Taken DEF PullInv, WireInv, ClientTakes
<1> QED
  BY <1>1 DEF PullInv, WireInv, ClientTakes, OfClient, OfServer

LEMMA ServerTook ==
  ASSUME PullInv, ServerTakes, UNCHANGED reached, spc # "done"
  PROVE  WireInv' /\ OfClient(toServer[1]) /\ cpc' = cpc
<1>1. /\ \E S : toServer' \in Seq(S)
      /\ toServer[1] \in Under(toServer) /\ Under(toServer') \subseteq Under(toServer)
  BY Taken DEF PullInv, WireInv, ServerTakes
<1> QED
  BY <1>1 DEF PullInv, WireInv, ServerTakes, OfClient, OfServer

LEMMA InitInv == Init => PullInv
<1> SUFFICES ASSUME Init PROVE PullInv
  OBVIOUS
<1>1. ClientInv /\ ServerInv
  BY ChannelType DEF Init, ClientInv, ServerInv, ClientStates, ServerStates, PastM2, PastM3, Secrets, NoSecret
<1>2. <<>> \in Seq({}) /\ Under(<<>>) = {}
  BY DEF Under
<1>3. WireInv
  BY <1>2 DEF Init, WireInv
<1> QED
  BY <1>1, <1>3 DEF PullInv
-----------------------------------------------------------------------------
(* Steps of the client.                                                    *)

\* The device sees none of them but the packets.
LEMMA ServerUnaffected ==
  ASSUME PullInv, UNCHANGED <<reached, spc, sSecret, sChan>> PROVE ServerInv'
BY DEF PullInv, ServerInv, Mutual

LEMMA ClientUnaffected ==
  ASSUME PullInv, UNCHANGED <<reached, cpc, cSecret, cChan>> PROVE ClientInv'
BY DEF PullInv, ClientInv

LEMMA WireUnaffected ==
  ASSUME PullInv, UNCHANGED <<reached, toServer, toClient>>, spc = "done" => spc' = "done"
  PROVE  WireInv'
BY DEF PullInv, WireInv, OfClient, OfServer

LEMMA FailureKeeps ==
  ASSUME PullInv, ClientEof \/ ClientTimer \/ ClientDropped PROVE PullInv'
<1>1. /\ UNCHANGED <<reached, spc, sSecret, sChan, cSecret, cChan, toServer, toClient>>
      /\ cpc' = "failed"
  BY DEF ClientEof, ClientTimer, ClientDropped, keyVars, chanVars, wireVars
<1>2. ClientInv'
  BY <1>1 DEF PullInv, ClientInv, ClientStates, PastM2
<1> QED
  BY <1>1, <1>2, ServerUnaffected, WireUnaffected DEF PullInv

LEMMA SendM1Keeps == ASSUME PullInv, SendM1 PROVE PullInv'
<1> DEFINE pkt == Packet("M1", "clientPub", 0, NoBox)
<1>1. ClientWrites(pkt, "readM2") /\ UNCHANGED <<reached, sSecret, sChan, cSecret, cChan>>
  BY DEF SendM1, keyVars, chanVars
<1>2. OfClient(pkt)
  BY NoncesDiffer DEF OfClient, Packet, NoBox, Sealed, PubsOrNone, Pubs
<1> HIDE DEF pkt
<1>3. WireInv' /\ spc' = spc /\ (cpc' = "readM2" \/ cpc' = "failed")
  BY <1>1, <1>2, ClientWrote
<1>4. ClientInv'
  BY <1>1, <1>3 DEF PullInv, ClientInv, ClientStates, PastM2
<1> QED
  BY <1>1, <1>3, <1>4, ServerUnaffected DEF PullInv

\* What opens and verifies was signed by the device at the other end.
LEMMA ProcessM2Keeps == ASSUME PullInv, ProcessM2 PROVE PullInv'
<1>1. /\ ClientTakes /\ UNCHANGED <<reached, sSecret, sChan, cChan>>
      /\ cSecret' = Secret("clientPub", toClient[1].pub)
      /\ cpc' = IF ClientAccepts(toClient[1], cSecret') THEN "sendM3" ELSE "failed"
  BY DEF ProcessM2, chanVars
<1>2. WireInv' /\ OfServer(toClient[1]) /\ spc' = spc
  BY <1>1, ClientTook
<1>3. ClientAccepts(toClient[1], cSecret') => reached \in KnownToUs
  BY <1>2 DEF ClientAccepts, Opens, Verifies, Signature, OfServer
<1>4. cSecret' \in Secrets
  BY <1>1, <1>2 DEF OfServer, Secret, Secrets, PubsOrNone, Pubs
<1>5. ClientInv'
  BY <1>1, <1>3, <1>4 DEF PullInv, ClientInv, ClientStates, PastM2
<1> QED
  BY <1>1, <1>2, <1>5, ServerUnaffected DEF PullInv

LEMMA SendM3Keeps == ASSUME PullInv, SendM3 PROVE PullInv'
<1> DEFINE pkt == Packet("M3", "none", 0, Sealed(PairVerifyKey(cSecret), PvNonce(3), 0,
                                                 Signature(Us, "clientPub", "serverPub")))
<1>1. /\ cpc = "sendM3" /\ ClientWrites(pkt, "readM4")
      /\ UNCHANGED <<reached, sSecret, sChan, cSecret, cChan>>
  BY DEF SendM3, keyVars, chanVars
<1>2. OfClient(pkt)
  BY <1>1 DEF PullInv, ClientInv, PastM2, OfClient, Packet, Sealed, PubsOrNone
<1> HIDE DEF pkt
<1>3. WireInv' /\ spc' = spc /\ (cpc' = "readM4" \/ cpc' = "failed")
  BY <1>1, <1>2, ClientWrote
<1>4. ClientInv'
  BY <1>1, <1>3 DEF PullInv, ClientInv, ClientStates, PastM2
<1> QED
  BY <1>1, <1>3, <1>4, ServerUnaffected DEF PullInv

LEMMA CheckM4Keeps == ASSUME PullInv, CheckM4 PROVE PullInv'
<1>1. /\ ClientTakes /\ UNCHANGED <<reached, sSecret, sChan, cSecret>>
      /\ cpc = "readM4" /\ cpc' = "sendP1"
      /\ cChan' = Channel(cSecret, "client")
  BY DEF CheckM4, keyVars
<1>2. WireInv' /\ spc' = spc
  BY <1>1, ClientTook
<1>3. cChan' \in Channels /\ cChan'.decNonce = 0
  BY <1>1, ChannelType DEF PullInv, ClientInv
<1>4. ClientInv'
  BY <1>1, <1>3 DEF PullInv, ClientInv, ClientStates, PastM2
<1> QED
  BY <1>1, <1>2, <1>4, ServerUnaffected DEF PullInv

LEMMA ClientSendsKeeps ==
  ASSUME PullInv, NEW text,
         ClientSends("sendP1", text, "readP2") \/ ClientSends("sendP3", text, "readP4")
  PROVE  PullInv'
<1> DEFINE pkt == DataPacket(cChan, text)
           next == IF cpc = "sendP1" THEN "readP2" ELSE "readP4"
<1>1. /\ cpc \in {"sendP1", "sendP3"} /\ ClientWrites(pkt, next)
      /\ UNCHANGED <<reached, sSecret, sChan, cSecret>>
      /\ cChan' = AfterEncrypt(cChan)
  BY DEF ClientSends, keyVars
<1>2. OfClient(pkt)
  <2>1. cChan.encNonce \in Nat
    BY DEF PullInv, ClientInv, Channels
  <2> QED
    BY <2>1, NoncesDiffer DEF OfClient, DataPacket, Packet, Sealed, PubsOrNone
<1>3. \/ next = "readP2" /\ cpc = "sendP1"
      \/ next = "readP4" /\ cpc = "sendP3"
  BY <1>1
<1> HIDE DEF pkt, next
<1>4. WireInv' /\ spc' = spc /\ (cpc' = next \/ cpc' = "failed")
  BY <1>1, <1>2, ClientWrote
<1>5. cChan' \in Channels /\ cChan'.decNonce = cChan.decNonce
  BY <1>1, ChannelType DEF PullInv, ClientInv
<1>6. ClientInv'
  BY <1>1, <1>3, <1>4, <1>5 DEF PullInv, ClientInv, ClientStates, PastM2
<1> QED
  BY <1>1, <1>4, <1>6, ServerUnaffected DEF PullInv

LEMMA ClientReceivesKeeps ==
  ASSUME PullInv, ClientReceives("readP2", "info", "sendP3") \/ ClientReceives("readP4", "pasteboard", "done")
  PROVE  PullInv'
<1>1. /\ \/ cpc = "readP2" /\ cpc' \in {"sendP3", "failed"}
         \/ cpc = "readP4" /\ cpc' \in {"done", "failed"}
      /\ ClientTakes
      /\ UNCHANGED <<reached, sSecret, sChan, cSecret>>
      /\ \/ cChan' = AfterDecrypt(cChan)
         \/ cChan' = cChan /\ cpc' = "failed"
  BY DEF ClientReceives, keyVars
<1>2. WireInv' /\ spc' = spc
  BY <1>1, ClientTook
<1>3. cChan \in Channels /\ AfterDecrypt(cChan) \in Channels
      /\ AfterDecrypt(cChan).decNonce = cChan.decNonce + 1
  BY ChannelType DEF PullInv, ClientInv
<1>4. ClientInv'
  BY <1>1, <1>3 DEF PullInv, ClientInv, ClientStates, PastM2
<1> QED
  BY <1>1, <1>2, <1>4, ServerUnaffected DEF PullInv

\* The pasteboard that is taken was given.
LEMMA BoardWasGiven ==
  ASSUME PullInv, ClientReceives("readP4", "pasteboard", "done"), cpc' = "done"
  PROVE  spc = "done"
<1>1. ClientTakes /\ Accepts(cChan, toClient[1]) /\ cpc = "readP4" /\ UNCHANGED reached
  BY DEF ClientReceives
<1>2. toClient[1].box.nonce = Counter(1)
  BY <1>1 DEF Accepts, Opens, PullInv, ClientInv
<1> QED
  BY <1>1, <1>2, ClientTook DEF OfServer

LEMMA ClientStepKeeps == ASSUME PullInv, ClientStep PROVE PullInv'
BY FailureKeeps, SendM1Keeps, ProcessM2Keeps, SendM3Keeps, CheckM4Keeps, ClientSendsKeeps,
   ClientReceivesKeeps
DEF ClientStep, SystemInfoExchange, FetchPasteboard
-----------------------------------------------------------------------------
(* Steps of the device.                                                    *)

LEMMA ServerFailureKeeps ==
  ASSUME PullInv, ServerEof \/ ServerTimer PROVE PullInv'
<1>1. /\ UNCHANGED <<reached, cpc, sSecret, sChan, cSecret, cChan, toServer, toClient>>
      /\ spc # "done" /\ spc' = "failed"
  BY DEF ServerEof, ServerTimer, Timed, ServerReading, ClientReading, keyVars, chanVars, wireVars
<1>2. ServerInv'
  BY <1>1 DEF PullInv, ServerInv, ServerStates, PastM3
<1> QED
  BY <1>1, <1>2, ClientUnaffected, WireUnaffected DEF PullInv

LEMMA LinkBreaksKeeps == ASSUME PullInv, LinkBreaks PROVE PullInv'
<1>1. /\ UNCHANGED <<reached, cpc, spc, sSecret, sChan, cSecret, cChan>>
      /\ toServer' = <<>> /\ toClient' = <<>>
  BY DEF LinkBreaks, endVars, keyVars, chanVars
<1>2. <<>> \in Seq({}) /\ Under(<<>>) = {}
  BY DEF Under
<1>3. WireInv'
  BY <1>1, <1>2 DEF WireInv
<1> QED
  BY <1>1, <1>3, ClientUnaffected, ServerUnaffected DEF PullInv

LEMMA ProcessM1Keeps == ASSUME PullInv, ProcessM1 PROVE PullInv'
<1>1. /\ spc = "readM1" /\ ServerTakes /\ spc' = "sendM2"
      /\ UNCHANGED <<reached, cSecret, sChan, cChan>>
      /\ sSecret' = Secret("serverPub", toServer[1].pub)
  BY DEF ProcessM1, chanVars
<1>2. WireInv' /\ OfClient(toServer[1]) /\ cpc' = cpc
  BY <1>1, ServerTook
<1>3. sSecret' \in Secrets
  BY <1>1, <1>2 DEF OfClient, Secret, Secrets, PubsOrNone, Pubs
<1>4. ServerInv'
  BY <1>1, <1>3 DEF PullInv, ServerInv, ServerStates, PastM3
<1> QED
  BY <1>1, <1>2, <1>4, ClientUnaffected DEF PullInv

LEMMA SendM2Keeps == ASSUME PullInv, SendM2 PROVE PullInv'
<1> DEFINE pkt == Packet("M2", "serverPub", 0,
                         Sealed(PairVerifyKey(sSecret), PvNonce(2), 0,
                                Signature(reached, "serverPub", sClientPub)))
<1>1. /\ spc = "sendM2" /\ ServerWrites(pkt, "readM3")
      /\ UNCHANGED <<reached, sSecret, sChan, cSecret, cChan>>
  BY DEF SendM2, keyVars, chanVars
<1>2. /\ pkt.pub \in PubsOrNone /\ pkt.box.text.by = reached
      /\ pkt.box.nonce # Counter(1)
  BY NoncesDiffer DEF Packet, Sealed, Signature, PubsOrNone, Pubs
<1> HIDE DEF pkt
<1>3. WireInv' /\ cpc' = cpc /\ (spc' = "readM3" \/ spc' = "failed")
  BY <1>1, <1>2, ServerWrote
<1>4. ServerInv'
  BY <1>1, <1>3 DEF PullInv, ServerInv, ServerStates, PastM3
<1> QED
  BY <1>1, <1>3, <1>4, ClientUnaffected DEF PullInv

\* What opens and verifies came from a client that had verified the device.
LEMMA AcceptedIsMutual ==
  ASSUME PullInv, NEW p, OfClient(p), ServerAccepts(p) PROVE Mutual
<1>1. p.box.nonce = PvNonce(3) /\ reached \in KnowUs
  BY DEF ServerAccepts, Opens, Verifies, ServerKnows
<1> QED
  BY <1>1 DEF OfClient, Mutual

LEMMA ProcessM3Keeps == ASSUME PullInv, ProcessM3 PROVE PullInv'
<1>1. /\ spc = "readM3" /\ ServerTakes
      /\ UNCHANGED <<reached, sSecret, cSecret, cChan>>
      /\ \/ /\ ServerAccepts(toServer[1])
            /\ sChan' = Channel(sSecret, "server")
            /\ spc' = "sendM4"
         \/ spc' = "failed" /\ sChan' = sChan
  BY DEF ProcessM3, keyVars
<1>2. WireInv' /\ OfClient(toServer[1]) /\ cpc' = cpc
  BY <1>1, ServerTook
<1>3. ServerInv'
  <2>1. CASE spc' = "failed" /\ sChan' = sChan
    BY <1>1, <2>1 DEF PullInv, ServerInv, ServerStates, PastM3
  <2>2. CASE /\ ServerAccepts(toServer[1])
             /\ sChan' = Channel(sSecret, "server")
             /\ spc' = "sendM4"
    <3>1. Mutual'
      BY <1>1, <1>2, <2>2, AcceptedIsMutual DEF Mutual
    <3>2. sChan' \in Channels /\ sChan'.encNonce = 0 /\ sChan'.encKey[1] = "Server"
      BY <2>2, ChannelType DEF PullInv, ServerInv
    <3> QED
      BY <1>1, <2>2, <3>1, <3>2 DEF PullInv, ServerInv, ServerStates
  <2> QED
    BY <1>1, <2>1, <2>2
<1> QED
  BY <1>1, <1>2, <1>3, ClientUnaffected DEF PullInv

LEMMA SendM4Keeps == ASSUME PullInv, SendM4 PROVE PullInv'
<1> DEFINE pkt == Packet("M4", "none", 0, NoBox)
<1>1. /\ spc = "sendM4" /\ ServerWrites(pkt, "readP1")
      /\ UNCHANGED <<reached, sSecret, sChan, cSecret, cChan>>
  BY DEF SendM4, keyVars, chanVars
<1>2. /\ pkt.pub \in PubsOrNone /\ pkt.box.nonce # PvNonce(2) /\ pkt.box.nonce # Counter(1)
  BY NoncesDiffer DEF Packet, NoBox, Sealed, PubsOrNone
<1> HIDE DEF pkt
<1>3. WireInv' /\ cpc' = cpc /\ (spc' = "readP1" \/ spc' = "failed")
  BY <1>1, <1>2, ServerWrote
<1>4. ServerInv'
  BY <1>1, <1>3 DEF PullInv, ServerInv, ServerStates, PastM3, Mutual
<1> QED
  BY <1>1, <1>3, <1>4, ClientUnaffected DEF PullInv

LEMMA ServerSendsKeeps ==
  ASSUME PullInv, NEW text,
         ServerSends("sendP2", text, "readP3") \/ ServerSends("sendP4", text, "done")
  PROVE  PullInv'
<1> DEFINE pkt == DataPacket(sChan, text)
           next == IF spc = "sendP2" THEN "readP3" ELSE "done"
<1>1. /\ spc \in {"sendP2", "sendP4"}
      /\ UNCHANGED <<reached, sSecret, cSecret, cChan>>
      /\ \/ ServerWrites(pkt, next) /\ sChan' = AfterEncrypt(sChan)
         \/ spc' = "failed" /\ UNCHANGED <<cpc, sChan, toServer, toClient>>
  BY DEF ServerSends, keyVars
<1>2. CASE spc' = "failed" /\ UNCHANGED <<cpc, sChan, toServer, toClient>>
  <2>1. ServerInv'
    BY <1>1, <1>2 DEF PullInv, ServerInv, ServerStates, PastM3
  <2> QED
    BY <1>1, <1>2, <2>1, ClientUnaffected, WireUnaffected DEF PullInv
<1>3. CASE ServerWrites(pkt, next) /\ sChan' = AfterEncrypt(sChan)
  <2>1. pkt.pub \in PubsOrNone /\ pkt.box.nonce = Counter(sChan.encNonce)
    BY DEF DataPacket, Packet, Sealed, PubsOrNone
  <2>2. sChan.encNonce \in Nat /\ (spc = "sendP2" => sChan.encNonce = 0)
    BY DEF PullInv, ServerInv, Channels
  <2>3. pkt.box.nonce # PvNonce(2) /\ (pkt.box.nonce = Counter(1) => next = "done")
    BY <1>1, <2>1, <2>2, NoncesDiffer
  <2>4. next \in {"readP3", "done"}
    OBVIOUS
  <2> HIDE DEF pkt, next
  <2>5. WireInv' /\ cpc' = cpc /\ (spc' = next \/ spc' = "failed")
    BY <1>1, <1>3, <2>1, <2>3, ServerWrote
  <2>6. sChan' \in Channels /\ sChan'.encKey = sChan.encKey
    BY <1>3, ChannelType DEF PullInv, ServerInv
  <2>7. ServerInv'
    BY <1>1, <2>4, <2>5, <2>6 DEF PullInv, ServerInv, ServerStates, PastM3, Mutual
  <2> QED
    BY <1>1, <2>5, <2>7, ClientUnaffected DEF PullInv
<1> QED
  BY <1>1, <1>2, <1>3

LEMMA ServerReceivesKeeps ==
  ASSUME PullInv, ServerReceives("readP1", "sendP2") \/ ServerReceives("readP3", "sendP4")
  PROVE  PullInv'
<1>1. /\ \/ spc = "readP1" /\ spc' \in {"sendP2", "failed"}
         \/ spc = "readP3" /\ spc' \in {"sendP4", "failed"}
      /\ ServerTakes
      /\ UNCHANGED <<reached, sSecret, cSecret, cChan>>
      /\ sChan' = AfterDecrypt(sChan) \/ sChan' = sChan
  BY DEF ServerReceives, keyVars
<1>2. WireInv' /\ cpc' = cpc
  BY <1>1, ServerTook
<1>3. sChan' \in Channels /\ sChan'.encKey = sChan.encKey /\ sChan'.encNonce = sChan.encNonce
  BY <1>1, ChannelType DEF PullInv, ServerInv
<1>4. ServerInv'
  BY <1>1, <1>3 DEF PullInv, ServerInv, ServerStates, PastM3, Mutual
<1> QED
  BY <1>1, <1>2, <1>4, ClientUnaffected DEF PullInv

LEMMA ServerStepKeeps == ASSUME PullInv, ServerStep PROVE PullInv'
BY ServerFailureKeeps, ProcessM1Keeps, SendM2Keeps, ProcessM3Keeps, SendM4Keeps, ServerSendsKeeps,
   ServerReceivesKeeps
DEF ServerStep, AnswerInfo, AnswerFetch

LEMMA StepInv == PullInv /\ [Next]_vars => PullInv'
<1> SUFFICES ASSUME PullInv, [Next]_vars PROVE PullInv'
  OBVIOUS
<1>1. CASE UNCHANGED vars
  BY <1>1, ClientUnaffected, ServerUnaffected, WireUnaffected
  DEF vars, endVars, keyVars, chanVars, wireVars, PullInv
<1>2. CASE Next
  BY <1>2, FailureKeeps, ClientStepKeeps, ServerStepKeeps, ServerFailureKeeps, LinkBreaksKeeps DEF Next
<1> QED
  BY <1>1, <1>2
-----------------------------------------------------------------------------
(* The refinement: each step is one of TrustedPull or a stutter of it.     *)

\* The client takes the board, fails, or nothing is seen of its step.
LEMMA ClientRefines ==
  ASSUME PullInv, UNCHANGED <<reached, spc, sChan>>, cpc' = cpc \/ cpc \notin Ended,
         cpc' = "done" /\ cpc # "done" => spc = "done"
  PROVE  [Pull!PullNext]_(Pull!pullVars)
<1> USE DEF Pull!PullNext, Pull!pullVars
<1>1. CASE cpc' = cpc
  BY <1>1
<1>2. CASE cpc \notin Ended /\ cpc' = "done"
  BY <1>2 DEF Pull!Take, Ended
<1>3. CASE cpc \notin Ended /\ cpc' = "failed"
  BY <1>3 DEF Pull!Fail, Ended
<1>4. CASE cpc \notin Ended /\ cpc' \notin Ended
  BY <1>4 DEF Ended
<1> QED
  BY <1>1, <1>2, <1>3, <1>4 DEF Ended

\* The device agrees when it accepts M3, gives with its last packet, or
\* nothing is seen of its step.
LEMMA ServerRefines ==
  ASSUME PullInv, UNCHANGED <<reached, cpc>>, spc # "done",
         \/ sChan' = sChan /\ spc' # "done"
         \/ Mutual /\ sChan' # NoChannel /\ spc' # "done"
         \/ sChan # NoChannel /\ sChan' # NoChannel
  PROVE  [Pull!PullNext]_(Pull!pullVars)
<1> USE DEF Pull!PullNext, Pull!pullVars
<1>1. CASE sChan' = sChan /\ spc' # "done"
  BY <1>1
<1>2. CASE Mutual /\ sChan' # NoChannel /\ spc' # "done"
  BY <1>2 DEF Pull!Agree, Mutual
<1>3. CASE sChan # NoChannel /\ sChan' # NoChannel /\ spc' = "done"
  BY <1>3 DEF Pull!Give
<1>4. CASE sChan # NoChannel /\ sChan' # NoChannel /\ spc' # "done"
  BY <1>4
<1> QED
  BY <1>1, <1>2, <1>3, <1>4

LEMMA ClientStepRefines ==
  ASSUME PullInv, ClientStep \/ ClientTimer \/ ClientDropped
  PROVE  [Pull!PullNext]_(Pull!pullVars)
<1>1. UNCHANGED <<reached, spc, sChan>>
  BY DEF ClientStep, ClientTimer, ClientDropped, SendM1, ProcessM2, SendM3, CheckM4, SystemInfoExchange,
         FetchPasteboard, ClientSends, ClientReceives, ClientEof, ClientWrites, ClientTakes, keyVars, chanVars
<1>2. cpc \notin Ended
  BY DEF ClientStep, ClientTimer, ClientDropped, SendM1, ProcessM2, SendM3, CheckM4, SystemInfoExchange,
         FetchPasteboard, ClientSends, ClientReceives, ClientEof, Timed, ClientReading, ServerReading, Ended
<1>3. cpc' = "done" => ClientReceives("readP4", "pasteboard", "done")
  BY DEF ClientStep, ClientTimer, ClientDropped, SendM1, ProcessM2, SendM3, CheckM4, SystemInfoExchange,
         FetchPasteboard, ClientSends, ClientReceives, ClientEof, ClientWrites, Writes
<1> QED
  BY <1>1, <1>2, <1>3, BoardWasGiven, ClientRefines

LEMMA ServerStepRefines ==
  ASSUME PullInv, ServerStep \/ ServerTimer
  PROVE  [Pull!PullNext]_(Pull!pullVars)
<1>0. spc \in PastM3 => sChan.encKey[1] = "Server" /\ sChan # NoChannel /\ sChan \in Channels
  BY ChannelType DEF PullInv, ServerInv
<1>1. CASE ServerEof \/ ServerTimer
  <2>1. UNCHANGED <<reached, cpc, sChan>> /\ spc # "done" /\ spc' = "failed"
    BY <1>1 DEF ServerEof, ServerTimer, Timed, ServerReading, ClientReading, chanVars
  <2> QED
    BY <2>1, ServerRefines
<1>2. CASE ProcessM1 \/ SendM2 \/ SendM4
  <2>1. UNCHANGED <<reached, cpc, sChan>> /\ spc # "done" /\ spc' # "done"
    BY <1>2 DEF ProcessM1, SendM2, SendM4, ServerWrites, ServerTakes, Writes, chanVars
  <2> QED
    BY <2>1, ServerRefines
<1>3. CASE ProcessM3
  <2>1. /\ UNCHANGED reached /\ ServerTakes /\ spc = "readM3" /\ spc' # "done"
        /\ \/ ServerAccepts(toServer[1]) /\ sChan' = Channel(sSecret, "server")
           \/ sChan' = sChan
    BY <1>3 DEF ProcessM3
  <2>2. OfClient(toServer[1]) /\ cpc' = cpc
    BY <2>1, ServerTook
  <2>3. CASE ServerAccepts(toServer[1]) /\ sChan' = Channel(sSecret, "server")
    <3>1. Mutual
      BY <2>2, <2>3, AcceptedIsMutual
    <3>2. sChan' # NoChannel
      BY <2>3, ChannelType DEF PullInv, ServerInv
    <3> QED
      BY <2>1, <2>2, <3>1, <3>2, ServerRefines
  <2> QED
    BY <2>1, <2>2, <2>3, ServerRefines
<1>4. CASE AnswerInfo \/ AnswerFetch
  <2>1. /\ UNCHANGED <<reached, cpc>>
        /\ spc \in {"readP1", "sendP2", "readP3", "sendP4"}
        /\ sChan' = sChan \/ sChan' = AfterEncrypt(sChan) \/ sChan' = AfterDecrypt(sChan)
    BY <1>4 DEF AnswerInfo, AnswerFetch, ServerSends, ServerReceives, ServerWrites, ServerTakes
  <2>2. sChan # NoChannel /\ sChan' # NoChannel
    BY <1>0, <2>1, ChannelType DEF PastM3
  <2> QED
    BY <2>1, <2>2, ServerRefines
<1> QED
  BY <1>1, <1>2, <1>3, <1>4 DEF ServerStep

\* A pull gives a board only of a device that trusts us and is trusted, and
\* only one given in this pull, whoever is behind the address and whatever
\* the network and the deadlines do.
THEOREM PullImplementsTrusted == Spec => PullIsTrusted
<1>1. Init => Pull!PullInit
  BY DEF Init, Pull!PullInit
<1>2. PullInv /\ [Next]_vars => [Pull!PullNext]_(Pull!pullVars)
  <2> SUFFICES ASSUME PullInv, [Next]_vars PROVE [Pull!PullNext]_(Pull!pullVars)
    OBVIOUS
  <2>1. CASE UNCHANGED vars \/ LinkBreaks
    <3>1. UNCHANGED <<reached, cpc, spc, sChan>>
      BY <2>1 DEF vars, LinkBreaks, endVars, chanVars
    <3> QED
      BY <3>1, ClientRefines
  <2> QED
    BY <2>1, ClientStepRefines, ServerStepRefines DEF Next
<1>3. Spec => []PullInv
  BY InitInv, StepInv, PTL DEF Spec
<1> QED
  BY <1>1, <1>2, <1>3, PTL DEF Spec, PullIsTrusted, Pull!PullSpec
-----------------------------------------------------------------------------
(* FailsForAReason.  Each end has the secret and the counters of the place *)
(* where it is, a packet under way is the one its reader waits for, and,   *)
(* as long as the connection is up and neither end has failed, one of the  *)
(* two is at work or one packet is under way.                              *)

OurChannel(enc, dec) ==
  [encKey |-> <<"Client", Pubs>>, decKey |-> <<"Server", Pubs>>, encNonce |-> enc, decNonce |-> dec]
ItsChannel(enc, dec) ==
  [encKey |-> <<"Server", Pubs>>, decKey |-> <<"Client", Pubs>>, encNonce |-> enc, decNonce |-> dec]

ClientHas ==
  /\ cpc \in PastM2 => cSecret = Pubs
  /\ cpc = "sendP1" => cChan = OurChannel(0, 0)
  /\ cpc = "readP2" => cChan = OurChannel(1, 0)
  /\ cpc = "sendP3" => cChan = OurChannel(1, 1)
  /\ cpc = "readP4" => cChan = OurChannel(2, 1)

ServerHas ==
  /\ spc \in {"sendM2", "readM3"} \cup PastM3 => sSecret = Pubs /\ sClientPub = "clientPub"
  /\ spc \in {"sendM4", "readP1"} => sChan = ItsChannel(0, 0)
  /\ spc = "sendP2" => sChan = ItsChannel(0, 1)
  /\ spc = "readP3" => sChan = ItsChannel(1, 1)
  /\ spc = "sendP4" => sChan = ItsChannel(1, 2)

\* What the server reads at s, and the client at c.
ForServer(s) ==
  CASE s = "readM1" -> Packet("M1", "clientPub", 0, NoBox)
    [] s = "readM3" -> Packet("M3", "none", 0, Sealed(PairVerifyKey(Pubs), PvNonce(3), 0,
                                                     Signature(Us, "clientPub", "serverPub")))
    [] s = "readP1" -> DataPacket(OurChannel(0, 0), Info)
    [] s = "readP3" -> DataPacket(OurChannel(1, 1), Fetch)
ForClient(c) ==
  CASE c = "readM2" -> Packet("M2", "serverPub", 0, Sealed(PairVerifyKey(Pubs), PvNonce(2), 0,
                                                     Signature(reached, "serverPub", "clientPub")))
    [] c = "readM4" -> Packet("M4", "none", 0, NoBox)
    [] c = "readP2" -> DataPacket(ItsChannel(0, 1), Info)
    [] c = "readP4" -> DataPacket(ItsChannel(1, 2), board)

Expected ==
  /\ \/ toServer = <<>> \/ spc = "failed"
     \/ spc \in ServerReading /\ toServer = <<ForServer(spc)>>
  /\ \/ toClient = <<>> \/ cpc = "failed"
     \/ cpc \in ClientReading /\ toClient = <<ForClient(cpc)>>

InStep ==
  \/ /\ toServer = <<>> /\ toClient = <<>>
     /\ \/ cpc = "sendM1" /\ spc = "readM1"
        \/ cpc = "readM2" /\ spc = "sendM2"
        \/ cpc = "sendM3" /\ spc = "readM3"
        \/ cpc = "readM4" /\ spc = "sendM4"
        \/ cpc = "sendP1" /\ spc = "readP1"
        \/ cpc = "readP2" /\ spc = "sendP2"
        \/ cpc = "sendP3" /\ spc = "readP3"
        \/ cpc = "readP4" /\ spc = "sendP4"
        \/ cpc = "done" /\ spc = "done"
  \/ /\ toServer # <<>> /\ toClient = <<>>
     /\ \/ cpc = "readM2" /\ spc = "readM1"
        \/ cpc = "readM4" /\ spc = "readM3"
        \/ cpc = "readP2" /\ spc = "readP1"
        \/ cpc = "readP4" /\ spc = "readP3"
  \/ /\ toServer = <<>> /\ toClient # <<>>
     /\ \/ cpc = "readM2" /\ spc = "readM3"
        \/ cpc = "readM4" /\ spc = "readP1"
        \/ cpc = "readP2" /\ spc = "readP3"
        \/ cpc = "readP4" /\ spc = "done"

Alive == link = "up" /\ cpc # "failed" /\ spc # "failed"
Sound == Mutual /\ BoardFits

AgreeInv ==
  /\ TypeOK
  /\ ClientHas /\ ServerHas
  /\ Expected
  /\ Alive => InStep
  /\ ~disturbed => link = "up" /\ (Sound => Alive)

\* Counters and keys.
LEMMA ChannelsCount ==
  /\ Channel(Pubs, "client") = OurChannel(0, 0) /\ Channel(Pubs, "server") = ItsChannel(0, 0)
  /\ \A e, d : AfterEncrypt(OurChannel(e, d)) = OurChannel(e + 1, d)
  /\ \A e, d : AfterEncrypt(ItsChannel(e, d)) = ItsChannel(e + 1, d)
  /\ \A e, d : AfterDecrypt(OurChannel(e, d)) = OurChannel(e, d + 1)
  /\ \A e, d : AfterDecrypt(ItsChannel(e, d)) = ItsChannel(e, d + 1)
  /\ \A e, d : OurChannel(e, d).encNonce = e /\ OurChannel(e, d).decNonce = d
  /\ \A e, d : ItsChannel(e, d).encNonce = e /\ ItsChannel(e, d).decNonce = d
  /\ NoChannel.encNonce = 0 /\ NoChannel.decNonce = 0
BY DEF Channel, Keys, OurChannel, ItsChannel, AfterEncrypt, AfterDecrypt, NoChannel

LEMMA AgreeInit == Init => AgreeInv
<1> SUFFICES ASSUME Init PROVE AgreeInv
  OBVIOUS
<1>1. Len(toServer) = 0 /\ Len(toClient) = 0
  BY DEF Init
<1>2. TypeOK
  <2>1. cChan.encNonce \in 0 .. 2 /\ cChan.decNonce \in 0 .. 2
    BY ChannelsCount DEF Init
  <2>2. sChan.encNonce \in 0 .. 2 /\ sChan.decNonce \in 0 .. 2
    BY ChannelsCount DEF Init
  <2>3. cpc \in ClientStates /\ spc \in ServerStates /\ link \in {"up", "reset", "silent"}
    BY DEF Init, ClientStates, ServerStates
  <2>4. /\ cSecret \in {NoSecret, Pubs} /\ sSecret \in {NoSecret, Pubs}
        /\ sClientPub \in Pubs \cup {"none"} /\ disturbed \in BOOLEAN
        /\ reached \in Devices /\ board \in Boards
    BY DEF Init
  <2> QED
    BY <1>1, <2>1, <2>2, <2>3, <2>4 DEF TypeOK
<1>3. ClientHas /\ ServerHas
  BY DEF Init, ClientHas, ServerHas, PastM2, PastM3
<1>4. Expected /\ InStep
  BY DEF Init, Expected, InStep
<1> QED
  BY <1>2, <1>3, <1>4 DEF Init, AgreeInv, Alive

\* What a reader finds is the packet it expects, and the only one.
LEMMA ClientFinds ==
  ASSUME AgreeInv, cpc \in ClientReading, ClientTakes
  PROVE  /\ toClient[1] = ForClient(cpc)
         /\ toClient' = <<>> /\ toServer' = toServer /\ spc' = spc
<1>1. toClient = <<ForClient(cpc)>>
  BY DEF AgreeInv, Expected, ClientReading, ClientTakes
<1>2. \A x : <<x>>[1] = x /\ Tail(<<x>>) = <<>>
  OBVIOUS
<1> QED
  BY <1>1, <1>2 DEF ClientTakes

LEMMA ServerFinds ==
  ASSUME AgreeInv, spc \in ServerReading, ServerTakes
  PROVE  /\ toServer[1] = ForServer(spc)
         /\ toServer' = <<>> /\ toClient' = toClient /\ cpc' = cpc
<1>1. toServer = <<ForServer(spc)>>
  BY DEF AgreeInv, Expected, ServerReading, ServerTakes
<1>2. \A x : <<x>>[1] = x /\ Tail(<<x>>) = <<>>
  OBVIOUS
<1> QED
  BY <1>1, <1>2 DEF ServerTakes

\* From an end that writes what the other one expects next.
LEMMA ClientWriteAgrees ==
  ASSUME AgreeInv, NEW pkt, NEW next, ClientWrites(pkt, next),
         \/ cpc = "sendM1" /\ next = "readM2" /\ pkt = ForServer("readM1")
         \/ cpc = "sendM3" /\ next = "readM4" /\ pkt = ForServer("readM3")
         \/ cpc = "sendP1" /\ next = "readP2" /\ pkt = ForServer("readP1")
         \/ cpc = "sendP3" /\ next = "readP4" /\ pkt = ForServer("readP3"),
         UNCHANGED <<reached, board, link, disturbed>>
  PROVE  /\ spc' = spc /\ cpc' \in {next, "failed"}
         /\ Len(toServer') <= 1 /\ Len(toClient') <= 1
         /\ Expected'
         /\ Alive' => InStep'
         /\ ~disturbed' => link' = "up" /\ (Sound' => Alive')
<1>1. /\ spc' = spc /\ toClient' = toClient /\ cpc' \in {next, "failed"}
      /\ Len(toServer) <= 1 /\ Len(toClient) <= 1
  BY DEF ClientWrites, Writes, AgreeInv, TypeOK
<1>2. toClient = <<>>
  BY DEF AgreeInv, Expected, ClientReading
<1>3. Alive => toServer = <<>> /\ spc \notin Ended
                 /\ spc \in ServerReading /\ pkt = ForServer(spc)
  BY DEF AgreeInv, InStep, Ended, ServerReading
<1>4. CASE link = "up" /\ spc \notin Ended /\ toServer' = Append(toServer, pkt) /\ cpc' = next
  <2>1. Alive /\ Alive'
    BY <1>1, <1>4 DEF Alive, Ended
  <2>2. toServer' = <<pkt>>
    BY <1>3, <1>4, <2>1
  <2>3. Len(<<pkt>>) = 1 /\ <<pkt>> # <<>>
    OBVIOUS
  <2>4. Expected'
    BY <1>1, <1>2, <1>3, <2>1, <2>2 DEF Expected
  <2>5. InStep'
    BY <1>1, <1>2, <1>4, <2>1, <2>2, <2>3 DEF AgreeInv, InStep
  <2> QED
    BY <1>1, <2>1, <2>2, <2>3, <2>4, <2>5 DEF AgreeInv, Alive
<1>5. CASE /\ toServer' = toServer
           /\ \/ (link = "silent" \/ spc \in Ended) /\ cpc' = next
              \/ (link = "reset" \/ spc \in Ended) /\ cpc' = "failed"
  <2>1. ~Alive
    BY <1>3, <1>5 DEF Alive
  <2>2. Expected'
    BY <1>1, <1>2, <1>5 DEF AgreeInv, Expected
  <2>3. ~Alive'
    BY <1>1, <2>1 DEF Alive
  <2>4. ~disturbed' => link' = "up" /\ ~Sound'
    BY <2>1 DEF AgreeInv, Sound, BoardFits, Mutual
  <2> QED
    BY <1>1, <1>5, <2>2, <2>3, <2>4
<1> QED
  BY <1>4, <1>5 DEF ClientWrites, Writes

LEMMA ServerWriteAgrees ==
  ASSUME AgreeInv, NEW pkt, NEW next, ServerWrites(pkt, next),
         \/ spc = "sendM2" /\ next = "readM3" /\ pkt = ForClient("readM2")
         \/ spc = "sendM4" /\ next = "readP1" /\ pkt = ForClient("readM4")
         \/ spc = "sendP2" /\ next = "readP3" /\ pkt = ForClient("readP2")
         \/ spc = "sendP4" /\ next = "done" /\ pkt = ForClient("readP4"),
         UNCHANGED <<reached, board, link, disturbed>>
  PROVE  /\ cpc' = cpc /\ spc' \in {next, "failed"}
         /\ Len(toServer') <= 1 /\ Len(toClient') <= 1
         /\ Expected'
         /\ Alive' => InStep'
         /\ ~disturbed' => link' = "up" /\ (Sound' => Alive')
<1>1. /\ cpc' = cpc /\ toServer' = toServer /\ spc' \in {next, "failed"}
      /\ Len(toServer) <= 1 /\ Len(toClient) <= 1
  BY DEF ServerWrites, Writes, AgreeInv, TypeOK
<1>2. toServer = <<>>
  BY DEF AgreeInv, Expected, ServerReading
<1>3. Alive => toClient = <<>> /\ cpc \notin Ended
                 /\ cpc \in ClientReading /\ pkt = ForClient(cpc)
  BY DEF AgreeInv, InStep, Ended, ClientReading
<1>4. CASE link = "up" /\ cpc \notin Ended /\ toClient' = Append(toClient, pkt) /\ spc' = next
  <2>1. Alive /\ Alive'
    BY <1>1, <1>4 DEF Alive, Ended
  <2>2. toClient' = <<pkt>>
    BY <1>3, <1>4, <2>1
  <2>3. Len(<<pkt>>) = 1 /\ <<pkt>> # <<>>
    OBVIOUS
  <2>4. Expected'
    <3>1. ForClient(cpc)' = ForClient(cpc)
      BY <1>1 DEF ForClient
    <3> QED
      BY <1>1, <1>2, <1>3, <2>1, <2>2, <3>1 DEF Expected
  <2>5. InStep'
    BY <1>1, <1>2, <1>4, <2>1, <2>2, <2>3 DEF AgreeInv, InStep
  <2> QED
    BY <1>1, <2>1, <2>2, <2>3, <2>4, <2>5 DEF AgreeInv, Alive
<1>5. CASE /\ toClient' = toClient
           /\ \/ (link = "silent" \/ cpc \in Ended) /\ spc' = next
              \/ (link = "reset" \/ cpc \in Ended) /\ spc' = "failed"
  <2>1. ~Alive
    BY <1>3, <1>5 DEF Alive
  <2>2. Expected'
    <3>1. ForClient(cpc)' = ForClient(cpc)
      BY <1>1 DEF ForClient
    <3> QED
      BY <1>1, <1>2, <1>5, <3>1 DEF AgreeInv, Expected
  <2>3. ~Alive'
    BY <1>1, <2>1 DEF Alive
  <2>4. ~disturbed' => link' = "up" /\ ~Sound'
    BY <2>1 DEF AgreeInv, Sound, BoardFits, Mutual
  <2> QED
    BY <1>1, <1>5, <2>2, <2>3, <2>4
<1> QED
  BY <1>4, <1>5 DEF ServerWrites, Writes

\* From an end that reads what it expects.
LEMMA ClientReadAgrees ==
  ASSUME AgreeInv, ClientTakes, NEW next,
         \/ cpc = "readM2" /\ next = "sendM3"
         \/ cpc = "readM4" /\ next = "sendP1"
         \/ cpc = "readP2" /\ next = "sendP3"
         \/ cpc = "readP4" /\ next = "done",
         cpc' = next \/ (cpc' = "failed" /\ ~Sound),
         UNCHANGED <<reached, board, link, disturbed>>
  PROVE  /\ Len(toServer') <= 1 /\ Len(toClient') <= 1
         /\ Expected'
         /\ Alive' => InStep'
         /\ ~disturbed' => link' = "up" /\ (Sound' => Alive')
<1>1. /\ toClient' = <<>> /\ toServer' = toServer /\ spc' = spc
      /\ toClient # <<>>
  BY ClientFinds DEF ClientReading, ClientTakes
<1>2. Len(toServer) <= 1 /\ Len(<<>>) = 0
  BY DEF AgreeInv, TypeOK
<1>3. Expected'
  BY <1>1 DEF AgreeInv, Expected
<1>4. Alive' => InStep'
  BY <1>1 DEF AgreeInv, Alive, InStep
<1>5. ~disturbed' => link' = "up" /\ (Sound' => Alive')
  BY <1>1 DEF AgreeInv, Alive, Sound, BoardFits, Mutual
<1> QED
  BY <1>1, <1>2, <1>3, <1>4, <1>5

LEMMA ServerReadAgrees ==
  ASSUME AgreeInv, ServerTakes, NEW next,
         \/ spc = "readM1" /\ next = "sendM2"
         \/ spc = "readM3" /\ next = "sendM4"
         \/ spc = "readP1" /\ next = "sendP2"
         \/ spc = "readP3" /\ next = "sendP4",
         spc' = next \/ (spc' = "failed" /\ ~Sound),
         UNCHANGED <<reached, board, link, disturbed>>
  PROVE  /\ Len(toServer') <= 1 /\ Len(toClient') <= 1
         /\ Expected'
         /\ Alive' => InStep'
         /\ ~disturbed' => link' = "up" /\ (Sound' => Alive')
<1>1. /\ toServer' = <<>> /\ toClient' = toClient /\ cpc' = cpc
      /\ toServer # <<>>
  BY ServerFinds DEF ServerReading, ServerTakes
<1>2. Len(toClient) <= 1 /\ Len(<<>>) = 0
  BY DEF AgreeInv, TypeOK
<1>3. Expected'
  <2>1. ForClient(cpc)' = ForClient(cpc)
    BY <1>1 DEF ForClient
  <2> QED
    BY <1>1, <2>1 DEF AgreeInv, Expected
<1>4. Alive' => InStep'
  BY <1>1 DEF AgreeInv, Alive, InStep
<1>5. ~disturbed' => link' = "up" /\ (Sound' => Alive')
  BY <1>1 DEF AgreeInv, Alive, Sound, BoardFits, Mutual
<1> QED
  BY <1>1, <1>2, <1>3, <1>4, <1>5
-----------------------------------------------------------------------------
LEMMA FailureAgrees ==
  ASSUME AgreeInv, ClientEof \/ ServerEof \/ ClientTimer \/ ServerTimer \/ ClientDropped PROVE AgreeInv'
<1>1. /\ UNCHANGED <<reached, board, keyVars, chanVars, toServer, toClient, link>>
      /\ \/ cpc' = "failed" /\ spc' = spc /\ cpc # "failed"
         \/ spc' = "failed" /\ cpc' = cpc /\ spc # "failed"
      /\ disturbed' = disturbed \/ disturbed' = TRUE
  BY DEF ClientEof, ServerEof, ClientTimer, ServerTimer, ClientDropped, wireVars, Timed,
         ClientReading, ServerReading, Ended
<1>2. TypeOK'
  BY <1>1 DEF AgreeInv, TypeOK, ClientStates, ServerStates, keyVars, chanVars
<1>3. ClientHas' /\ ServerHas'
  BY <1>1 DEF AgreeInv, ClientHas, ServerHas, PastM2, PastM3, keyVars, chanVars
<1>4. Expected'
  <2>1. CASE cpc' = cpc
    <3>1. ForClient(cpc)' = ForClient(cpc)
      BY <1>1, <2>1 DEF ForClient
    <3> QED
      BY <1>1, <2>1, <3>1 DEF AgreeInv, Expected
  <2>2. CASE cpc' = "failed" /\ spc' = spc
    BY <1>1, <2>2 DEF AgreeInv, Expected
  <2> QED
    BY <1>1, <2>1, <2>2
<1>5. ~Alive'
  BY <1>1 DEF Alive
<1>6. ~disturbed' => link' = "up" /\ ~Sound'
  <2>1. CASE disturbed' = TRUE
    BY <2>1
  <2>2. CASE disturbed' = disturbed /\ disturbed' # TRUE
    <3>1. /\ ~disturbed /\ link = "up"
          /\ \/ cpc \in ClientReading /\ toClient = <<>> /\ spc \in Ended
             \/ spc \in ServerReading /\ toServer = <<>> /\ cpc \in Ended
      BY <2>2 DEF ClientEof, ServerEof, ClientTimer, ServerTimer, ClientDropped, AgreeInv, TypeOK
    <3>2. ~Alive
      BY <3>1 DEF AgreeInv, Alive, InStep, ClientReading, ServerReading, Ended
    <3> QED
      BY <1>1, <3>1, <3>2 DEF AgreeInv, Sound, BoardFits, Mutual
  <2> QED
    BY <1>1, <2>1, <2>2
<1> QED
  BY <1>2, <1>3, <1>4, <1>5, <1>6 DEF AgreeInv

LEMMA LinkBreaksAgrees == ASSUME AgreeInv, LinkBreaks PROVE AgreeInv'
<1>1. /\ UNCHANGED <<reached, board, endVars, keyVars, chanVars>>
      /\ toServer' = <<>> /\ toClient' = <<>> /\ Len(<<>>) = 0
      /\ link' \in {"reset", "silent"} /\ disturbed' = TRUE
  BY DEF LinkBreaks
<1>2. TypeOK'
  BY <1>1 DEF AgreeInv, TypeOK, endVars, keyVars, chanVars
<1>3. ClientHas' /\ ServerHas'
  BY <1>1 DEF AgreeInv, ClientHas, ServerHas, endVars, keyVars, chanVars
<1> QED
  BY <1>1, <1>2, <1>3 DEF AgreeInv, Expected, Alive

\* What an action of one end leaves of the other.
LEMMA ClientActs ==
  ASSUME AgreeInv, cpc' \in ClientStates, cSecret' \in {NoSecret, Pubs},
         cChan'.encNonce \in 0 .. 2, cChan'.decNonce \in 0 .. 2, ClientHas',
         UNCHANGED <<reached, board, spc, sSecret, sClientPub, sChan, link, disturbed>>,
         Len(toServer') <= 1, Len(toClient') <= 1,
         Expected', Alive' => InStep', ~disturbed' => link' = "up" /\ (Sound' => Alive')
  PROVE  AgreeInv'
<1>1. TypeOK'
  BY DEF AgreeInv, TypeOK
<1>2. ServerHas'
  BY DEF AgreeInv, ServerHas
<1> QED
  BY <1>1, <1>2 DEF AgreeInv

LEMMA ServerActs ==
  ASSUME AgreeInv, spc' \in ServerStates, sSecret' \in {NoSecret, Pubs},
         sClientPub' \in Pubs \cup {"none"},
         sChan'.encNonce \in 0 .. 2, sChan'.decNonce \in 0 .. 2, ServerHas',
         UNCHANGED <<reached, board, cpc, cSecret, cChan, link, disturbed>>,
         Len(toServer') <= 1, Len(toClient') <= 1,
         Expected', Alive' => InStep', ~disturbed' => link' = "up" /\ (Sound' => Alive')
  PROVE  AgreeInv'
<1>1. TypeOK'
  BY DEF AgreeInv, TypeOK
<1>2. ClientHas'
  BY DEF AgreeInv, ClientHas
<1> QED
  BY <1>1, <1>2 DEF AgreeInv
-----------------------------------------------------------------------------
LEMMA SendM1Agrees == ASSUME AgreeInv, SendM1 PROVE AgreeInv'
<1>1. /\ cpc = "sendM1" /\ ClientWrites(ForServer("readM1"), "readM2")
      /\ UNCHANGED <<reached, board, keyVars, chanVars, link, disturbed>>
  BY DEF SendM1, ForServer
<1>2. /\ spc' = spc /\ cpc' \in {"readM2", "failed"}
      /\ Len(toServer') <= 1 /\ Len(toClient') <= 1
      /\ Expected' /\ (Alive' => InStep')
      /\ ~disturbed' => link' = "up" /\ (Sound' => Alive')
  BY <1>1, ClientWriteAgrees
<1>3. ClientHas'
  BY <1>1, <1>2 DEF ClientHas, PastM2
<1>4. cpc' \in ClientStates /\ cSecret' \in {NoSecret, Pubs}
      /\ cChan'.encNonce \in 0 .. 2 /\ cChan'.decNonce \in 0 .. 2
  BY <1>1, <1>2 DEF AgreeInv, TypeOK, ClientStates, keyVars, chanVars
<1> QED
  BY <1>1, <1>2, <1>3, <1>4, ClientActs DEF keyVars, chanVars

LEMMA SendM3Agrees == ASSUME AgreeInv, SendM3 PROVE AgreeInv'
<1>1. /\ cpc = "sendM3" /\ ClientWrites(ForServer("readM3"), "readM4")
      /\ UNCHANGED <<reached, board, keyVars, chanVars, link, disturbed>>
  BY DEF SendM3, ForServer, AgreeInv, ClientHas, PastM2
<1>2. /\ spc' = spc /\ cpc' \in {"readM4", "failed"}
      /\ Len(toServer') <= 1 /\ Len(toClient') <= 1
      /\ Expected' /\ (Alive' => InStep')
      /\ ~disturbed' => link' = "up" /\ (Sound' => Alive')
  BY <1>1, ClientWriteAgrees
<1>3. ClientHas'
  BY <1>1, <1>2 DEF AgreeInv, ClientHas, PastM2, keyVars, chanVars
<1>4. cpc' \in ClientStates /\ cSecret' \in {NoSecret, Pubs}
      /\ cChan'.encNonce \in 0 .. 2 /\ cChan'.decNonce \in 0 .. 2
  BY <1>1, <1>2 DEF AgreeInv, TypeOK, ClientStates, keyVars, chanVars
<1> QED
  BY <1>1, <1>2, <1>3, <1>4, ClientActs DEF keyVars, chanVars

LEMMA ProcessM2Agrees == ASSUME AgreeInv, ProcessM2 PROVE AgreeInv'
<1>1. /\ cpc = "readM2" /\ ClientTakes
      /\ cSecret' = Secret("clientPub", toClient[1].pub)
      /\ cpc' = IF ClientAccepts(toClient[1], cSecret') THEN "sendM3" ELSE "failed"
      /\ UNCHANGED <<reached, board, sSecret, sClientPub, chanVars, link, disturbed>>
  BY DEF ProcessM2
<1>2. toClient[1] = ForClient("readM2") /\ spc' = spc
  BY <1>1, ClientFinds DEF ClientReading
<1> DEFINE m2 == toClient[1]
<1>3. /\ m2.pub = "serverPub"
      /\ m2.box = Sealed(PairVerifyKey(Pubs), PvNonce(2), 0,
                         Signature(reached, "serverPub", "clientPub"))
  BY <1>2 DEF ForClient, Packet
<1>4. cSecret' = Pubs
  BY <1>1, <1>3 DEF Secret, Pubs
<1>5. Sound => ClientAccepts(m2, cSecret')
  BY <1>3, <1>4 DEF ClientAccepts, Opens, Verifies, Sealed, Sound, Mutual
<1>6. cpc' = "sendM3" \/ (cpc' = "failed" /\ ~Sound)
  BY <1>1, <1>5
<1> HIDE DEF m2
<1>7. /\ Len(toServer') <= 1 /\ Len(toClient') <= 1
      /\ Expected' /\ (Alive' => InStep')
      /\ ~disturbed' => link' = "up" /\ (Sound' => Alive')
  BY <1>1, <1>6, ClientReadAgrees
<1>8. ClientHas'
  BY <1>4, <1>6 DEF ClientHas, PastM2
<1>9. cpc' \in ClientStates /\ cChan'.encNonce \in 0 .. 2 /\ cChan'.decNonce \in 0 .. 2
  BY <1>1, <1>6 DEF AgreeInv, TypeOK, ClientStates, chanVars
<1> QED
  BY <1>1, <1>2, <1>4, <1>7, <1>8, <1>9, ClientActs DEF chanVars

LEMMA CheckM4Agrees == ASSUME AgreeInv, CheckM4 PROVE AgreeInv'
<1>1. /\ cpc = "readM4" /\ ClientTakes
      /\ cChan' = Channel(cSecret, "client") /\ cpc' = "sendP1"
      /\ UNCHANGED <<reached, board, keyVars, sChan, link, disturbed>>
  BY DEF CheckM4
<1>2. spc' = spc
  BY <1>1, ClientFinds DEF ClientReading
<1>3. cSecret = Pubs /\ cChan' = OurChannel(0, 0)
  BY <1>1, ChannelsCount DEF AgreeInv, ClientHas, PastM2
<1>4. /\ Len(toServer') <= 1 /\ Len(toClient') <= 1
      /\ Expected' /\ (Alive' => InStep')
      /\ ~disturbed' => link' = "up" /\ (Sound' => Alive')
  BY <1>1, ClientReadAgrees
<1>5. ClientHas'
  BY <1>1, <1>3 DEF ClientHas, PastM2, keyVars
<1>6. /\ cpc' \in ClientStates /\ cSecret' \in {NoSecret, Pubs}
      /\ cChan'.encNonce \in 0 .. 2 /\ cChan'.decNonce \in 0 .. 2
  BY <1>1, <1>3, ChannelsCount DEF ClientStates, keyVars
<1> QED
  BY <1>1, <1>2, <1>4, <1>5, <1>6, ClientActs DEF keyVars

LEMMA ClientSendsAgrees ==
  ASSUME AgreeInv, ClientSends("sendP1", Info, "readP2") \/ ClientSends("sendP3", Fetch, "readP4")
  PROVE  AgreeInv'
<1>1. /\ UNCHANGED <<reached, board, keyVars, sChan, link, disturbed>>
      /\ cChan' = AfterEncrypt(cChan)
      /\ \/ /\ cpc = "sendP1" /\ cChan = OurChannel(0, 0)
            /\ ClientWrites(ForServer("readP1"), "readP2")
         \/ /\ cpc = "sendP3" /\ cChan = OurChannel(1, 1)
            /\ ClientWrites(ForServer("readP3"), "readP4")
  BY DEF ClientSends, AgreeInv, ClientHas, ForServer
<1>2. /\ spc' = spc /\ cpc' \in {"readP2", "readP4", "failed"}
      /\ cpc' = "readP2" => cpc = "sendP1"
      /\ cpc' = "readP4" => cpc = "sendP3"
      /\ Len(toServer') <= 1 /\ Len(toClient') <= 1
      /\ Expected' /\ (Alive' => InStep')
      /\ ~disturbed' => link' = "up" /\ (Sound' => Alive')
  BY <1>1, ClientWriteAgrees
<1>3. \/ cpc = "sendP1" /\ cChan' = OurChannel(1, 0)
      \/ cpc = "sendP3" /\ cChan' = OurChannel(2, 1)
  BY <1>1, ChannelsCount
<1>4. ClientHas'
  BY <1>1, <1>2, <1>3 DEF AgreeInv, ClientHas, PastM2, keyVars
<1>5. /\ cpc' \in ClientStates /\ cSecret' \in {NoSecret, Pubs}
      /\ cChan'.encNonce \in 0 .. 2 /\ cChan'.decNonce \in 0 .. 2
  BY <1>1, <1>2, <1>3, ChannelsCount DEF AgreeInv, TypeOK, ClientStates, keyVars
<1> QED
  BY <1>1, <1>2, <1>4, <1>5, ClientActs DEF keyVars

\* The data packet that is expected opens, if its length is accepted.
LEMMA ExpectedOpens ==
  ASSUME NEW e \in Nat, NEW d \in Nat, NEW msg, msg.len \in Nat, msg.len + TagLen <= MaxPacketBody
  PROVE  /\ \A x \in Nat : Accepts(OurChannel(x, e), DataPacket(ItsChannel(e, d), msg))
         /\ \A x \in Nat : Accepts(ItsChannel(x, e), DataPacket(OurChannel(e, d), msg))
         /\ DataPacket(ItsChannel(e, d), msg).box.text = msg
         /\ DataPacket(OurChannel(e, d), msg).box.text = msg
BY DEF Accepts, Opens, DataPacket, Packet, Sealed, OurChannel, ItsChannel

LEMMA MessagesFit ==
  ASSUME TypeOK
  PROVE  /\ Info.len \in Nat /\ Fetch.len \in Nat /\ board.len \in Nat
         /\ Info.len + TagLen <= MaxPacketBody /\ Decodes(Info)
         /\ Fetch.len + TagLen <= MaxPacketBody /\ Decodes(Fetch)
<1>1. {Info, Fetch} \cup Boards \subseteq Messages /\ board \in Boards
  BY DEF TypeOK
<1> QED
  BY <1>1 DEF Messages

LEMMA ClientReceivesAgrees ==
  ASSUME AgreeInv, ClientReceives("readP2", "info", "sendP3") \/ ClientReceives("readP4", "pasteboard", "done")
  PROVE  AgreeInv'
<1>1. /\ UNCHANGED <<reached, board, keyVars, sChan, link, disturbed>>
      /\ ClientTakes
      /\ \/ cpc = "readP2" /\ cChan = OurChannel(1, 0) /\ cpc' \in {"sendP3", "failed"}
         \/ cpc = "readP4" /\ cChan = OurChannel(2, 1) /\ cpc' \in {"done", "failed"}
      /\ \/ Accepts(cChan, toClient[1]) /\ cChan' = AfterDecrypt(cChan)
         \/ ~Accepts(cChan, toClient[1]) /\ cpc' = "failed" /\ cChan' = cChan
  BY DEF ClientReceives, AgreeInv, ClientHas
<1>2. toClient[1] = ForClient(cpc) /\ spc' = spc
  BY <1>1, ClientFinds DEF ClientReading
<1>3. /\ Info.len \in Nat /\ board.len \in Nat
      /\ Info.len + TagLen <= MaxPacketBody /\ Decodes(Info)
  BY MessagesFit DEF AgreeInv
<1>4. Sound => Accepts(cChan, toClient[1]) /\ cpc' # "failed"
  <2>1. CASE cpc = "readP2"
    <3>1. toClient[1] = DataPacket(ItsChannel(0, 1), Info)
      BY <1>2, <2>1 DEF ForClient
    <3>2. Accepts(cChan, toClient[1]) /\ toClient[1].box.text = Info
      BY <1>1, <1>3, <2>1, <3>1, ExpectedOpens
    <3>3. Understood(Info, "info")
      BY <1>3 DEF Understood
    <3> QED
      BY <2>1, <3>2, <3>3 DEF ClientReceives
  <2>2. CASE cpc = "readP4"
    <3>1. toClient[1] = DataPacket(ItsChannel(1, 2), board)
      BY <1>2, <2>2 DEF ForClient
    <3>2. Sound => board.len + TagLen <= MaxPacketBody
      BY <1>3 DEF Sound, BoardFits, TagLen, MaxPacketBody
    <3>3. Sound => Accepts(cChan, toClient[1]) /\ toClient[1].box.text = board
      BY <1>1, <1>3, <2>2, <3>1, <3>2, ExpectedOpens
    <3>4. Sound => Understood(board, "pasteboard")
      BY DEF Sound, BoardFits, Understood
    <3> QED
      BY <2>2, <3>3, <3>4 DEF ClientReceives
  <2> QED
    BY <1>1, <2>1, <2>2
<1>5. \/ cpc = "readP2" /\ cpc' = "sendP3" /\ cChan' = OurChannel(1, 1)
      \/ cpc = "readP4" /\ cpc' = "done" /\ cChan' = OurChannel(2, 2)
      \/ /\ cpc' = "failed" /\ ~Sound
         /\ \/ cChan' = cChan
            \/ cpc = "readP2" /\ cChan' = OurChannel(1, 1)
            \/ cpc = "readP4" /\ cChan' = OurChannel(2, 2)
  BY <1>1, <1>4, ChannelsCount
<1>6. /\ Len(toServer') <= 1 /\ Len(toClient') <= 1
      /\ Expected' /\ (Alive' => InStep')
      /\ ~disturbed' => link' = "up" /\ (Sound' => Alive')
  BY <1>1, <1>5, ClientReadAgrees
<1>7. ClientHas'
  BY <1>1, <1>5 DEF AgreeInv, ClientHas, PastM2, keyVars
<1>8. /\ cpc' \in ClientStates /\ cSecret' \in {NoSecret, Pubs}
      /\ cChan'.encNonce \in 0 .. 2 /\ cChan'.decNonce \in 0 .. 2
  BY <1>1, <1>5, ChannelsCount DEF AgreeInv, TypeOK, ClientStates, keyVars
<1> QED
  BY <1>1, <1>2, <1>6, <1>7, <1>8, ClientActs DEF keyVars
-----------------------------------------------------------------------------
LEMMA ProcessM1Agrees == ASSUME AgreeInv, ProcessM1 PROVE AgreeInv'
<1>1. /\ spc = "readM1" /\ ServerTakes /\ spc' = "sendM2"
      /\ sClientPub' = toServer[1].pub
      /\ sSecret' = Secret("serverPub", toServer[1].pub)
      /\ UNCHANGED <<reached, board, cSecret, chanVars, link, disturbed>>
  BY DEF ProcessM1
<1>2. toServer[1] = ForServer("readM1") /\ cpc' = cpc
  BY <1>1, ServerFinds DEF ServerReading
<1>3. sClientPub' = "clientPub" /\ sSecret' = Pubs
  BY <1>1, <1>2 DEF ForServer, Packet, Secret, Pubs
<1>4. /\ Len(toServer') <= 1 /\ Len(toClient') <= 1
      /\ Expected' /\ (Alive' => InStep')
      /\ ~disturbed' => link' = "up" /\ (Sound' => Alive')
  BY <1>1, ServerReadAgrees
<1>5. ServerHas'
  BY <1>1, <1>3 DEF ServerHas
<1>6. /\ spc' \in ServerStates /\ sClientPub' \in Pubs \cup {"none"} /\ sSecret' \in {NoSecret, Pubs}
      /\ sChan'.encNonce \in 0 .. 2 /\ sChan'.decNonce \in 0 .. 2
  BY <1>1, <1>3 DEF AgreeInv, TypeOK, ServerStates, Pubs, chanVars
<1> QED
  BY <1>1, <1>2, <1>4, <1>5, <1>6, ServerActs DEF chanVars

LEMMA SendM2Agrees == ASSUME AgreeInv, SendM2 PROVE AgreeInv'
<1>1. /\ spc = "sendM2" /\ ServerWrites(ForClient("readM2"), "readM3")
      /\ UNCHANGED <<reached, board, keyVars, chanVars, link, disturbed>>
  BY DEF SendM2, ForClient, AgreeInv, ServerHas
<1>2. /\ cpc' = cpc /\ spc' \in {"readM3", "failed"}
      /\ Len(toServer') <= 1 /\ Len(toClient') <= 1
      /\ Expected' /\ (Alive' => InStep')
      /\ ~disturbed' => link' = "up" /\ (Sound' => Alive')
  BY <1>1, ServerWriteAgrees
<1>3. ServerHas'
  BY <1>1, <1>2 DEF AgreeInv, ServerHas, PastM3, keyVars, chanVars
<1>4. /\ spc' \in ServerStates /\ sClientPub' \in Pubs \cup {"none"} /\ sSecret' \in {NoSecret, Pubs}
      /\ sChan'.encNonce \in 0 .. 2 /\ sChan'.decNonce \in 0 .. 2
  BY <1>1, <1>2 DEF AgreeInv, TypeOK, ServerStates, keyVars, chanVars
<1> QED
  BY <1>1, <1>2, <1>3, <1>4, ServerActs DEF keyVars, chanVars

LEMMA ProcessM3Agrees == ASSUME AgreeInv, ProcessM3 PROVE AgreeInv'
<1>1. /\ spc = "readM3" /\ ServerTakes
      /\ \/ /\ ServerAccepts(toServer[1])
            /\ sChan' = Channel(sSecret, "server") /\ spc' = "sendM4"
         \/ ~ServerAccepts(toServer[1]) /\ spc' = "failed" /\ sChan' = sChan
      /\ UNCHANGED <<reached, board, keyVars, cChan, link, disturbed>>
  BY DEF ProcessM3
<1>2. toServer[1] = ForServer("readM3") /\ cpc' = cpc /\ sSecret = Pubs /\ sClientPub = "clientPub"
  BY <1>1, ServerFinds DEF ServerReading, AgreeInv, ServerHas
<1> DEFINE m3 == toServer[1]
<1>3. m3.box = Sealed(PairVerifyKey(Pubs), PvNonce(3), 0, Signature(Us, "clientPub", "serverPub"))
  BY <1>2 DEF ForServer, Packet
<1>4. Sound => ServerAccepts(m3)
  BY <1>2, <1>3 DEF ServerAccepts, Opens, Verifies, Sealed, ServerKnows, Sound, Mutual
<1>5. \/ spc' = "sendM4" /\ sChan' = ItsChannel(0, 0)
      \/ spc' = "failed" /\ ~Sound /\ sChan' = sChan
  BY <1>1, <1>2, <1>4, ChannelsCount
<1> HIDE DEF m3
<1>6. /\ Len(toServer') <= 1 /\ Len(toClient') <= 1
      /\ Expected' /\ (Alive' => InStep')
      /\ ~disturbed' => link' = "up" /\ (Sound' => Alive')
  BY <1>1, <1>5, ServerReadAgrees
<1>7. ServerHas'
  BY <1>1, <1>2, <1>5 DEF ServerHas, PastM3, keyVars
<1>8. /\ spc' \in ServerStates /\ sClientPub' \in Pubs \cup {"none"} /\ sSecret' \in {NoSecret, Pubs}
      /\ sChan'.encNonce \in 0 .. 2 /\ sChan'.decNonce \in 0 .. 2
  BY <1>1, <1>5, ChannelsCount DEF AgreeInv, TypeOK, ServerStates, keyVars
<1> QED
  BY <1>1, <1>2, <1>6, <1>7, <1>8, ServerActs DEF keyVars

LEMMA SendM4Agrees == ASSUME AgreeInv, SendM4 PROVE AgreeInv'
<1>1. /\ spc = "sendM4" /\ ServerWrites(ForClient("readM4"), "readP1")
      /\ UNCHANGED <<reached, board, keyVars, chanVars, link, disturbed>>
  BY DEF SendM4, ForClient
<1>2. /\ cpc' = cpc /\ spc' \in {"readP1", "failed"}
      /\ Len(toServer') <= 1 /\ Len(toClient') <= 1
      /\ Expected' /\ (Alive' => InStep')
      /\ ~disturbed' => link' = "up" /\ (Sound' => Alive')
  BY <1>1, ServerWriteAgrees
<1>3. ServerHas'
  BY <1>1, <1>2 DEF AgreeInv, ServerHas, PastM3, keyVars, chanVars
<1>4. /\ spc' \in ServerStates /\ sClientPub' \in Pubs \cup {"none"} /\ sSecret' \in {NoSecret, Pubs}
      /\ sChan'.encNonce \in 0 .. 2 /\ sChan'.decNonce \in 0 .. 2
  BY <1>1, <1>2 DEF AgreeInv, TypeOK, ServerStates, keyVars, chanVars
<1> QED
  BY <1>1, <1>2, <1>3, <1>4, ServerActs DEF keyVars, chanVars

LEMMA ServerReceivesAgrees ==
  ASSUME AgreeInv, ServerReceives("readP1", "sendP2") \/ ServerReceives("readP3", "sendP4")
  PROVE  AgreeInv'
<1>1. /\ UNCHANGED <<reached, board, keyVars, cChan, link, disturbed>>
      /\ ServerTakes
      /\ \/ spc = "readP1" /\ sChan = ItsChannel(0, 0) /\ spc' \in {"sendP2", "failed"}
         \/ spc = "readP3" /\ sChan = ItsChannel(1, 1) /\ spc' \in {"sendP4", "failed"}
      /\ \/ Accepts(sChan, toServer[1]) /\ sChan' = AfterDecrypt(sChan)
         \/ ~Accepts(sChan, toServer[1]) /\ spc' = "failed" /\ sChan' = sChan
  BY DEF ServerReceives, AgreeInv, ServerHas
<1>2. toServer[1] = ForServer(spc) /\ cpc' = cpc
  BY <1>1, ServerFinds DEF ServerReading
<1>3. Accepts(sChan, toServer[1]) /\ spc' # "failed"
  <2>0. /\ Info.len \in Nat /\ Fetch.len \in Nat
        /\ Info.len + TagLen <= MaxPacketBody /\ Decodes(Info)
        /\ Fetch.len + TagLen <= MaxPacketBody /\ Decodes(Fetch)
    BY MessagesFit DEF AgreeInv
  <2>1. CASE spc = "readP1"
    <3>1. toServer[1] = DataPacket(OurChannel(0, 0), Info)
      BY <1>2, <2>1 DEF ForServer
    <3>2. Accepts(sChan, toServer[1]) /\ toServer[1].box.text = Info
      BY <1>1, <2>0, <2>1, <3>1, ExpectedOpens
    <3> QED
      BY <2>0, <2>1, <3>2 DEF ServerReceives
  <2>2. CASE spc = "readP3"
    <3>1. toServer[1] = DataPacket(OurChannel(1, 1), Fetch)
      BY <1>2, <2>2 DEF ForServer
    <3>2. Accepts(sChan, toServer[1]) /\ toServer[1].box.text = Fetch
      BY <1>1, <2>0, <2>2, <3>1, ExpectedOpens
    <3> QED
      BY <2>0, <2>2, <3>2 DEF ServerReceives
  <2> QED
    BY <1>1, <2>1, <2>2
<1>4. \/ spc = "readP1" /\ spc' = "sendP2" /\ sChan' = ItsChannel(0, 1)
      \/ spc = "readP3" /\ spc' = "sendP4" /\ sChan' = ItsChannel(1, 2)
  BY <1>1, <1>3, ChannelsCount
<1>5. /\ Len(toServer') <= 1 /\ Len(toClient') <= 1
      /\ Expected' /\ (Alive' => InStep')
      /\ ~disturbed' => link' = "up" /\ (Sound' => Alive')
  BY <1>1, <1>4, ServerReadAgrees
<1>6. ServerHas'
  BY <1>1, <1>4 DEF AgreeInv, ServerHas, PastM3, keyVars
<1>7. /\ spc' \in ServerStates /\ sClientPub' \in Pubs \cup {"none"} /\ sSecret' \in {NoSecret, Pubs}
      /\ sChan'.encNonce \in 0 .. 2 /\ sChan'.decNonce \in 0 .. 2
  BY <1>1, <1>4, ChannelsCount DEF AgreeInv, TypeOK, ServerStates, keyVars
<1> QED
  BY <1>1, <1>2, <1>5, <1>6, <1>7, ServerActs DEF keyVars

LEMMA ServerSendsAgrees ==
  ASSUME AgreeInv,
         ServerSends("sendP2", Info, "readP3") \/ ServerSends("sendP4", board, "done")
  PROVE  AgreeInv'
<1>1. /\ UNCHANGED <<reached, board, keyVars, cChan, link, disturbed>>
      /\ \/ spc = "sendP2" /\ sChan = ItsChannel(0, 1)
         \/ spc = "sendP4" /\ sChan = ItsChannel(1, 2)
  BY DEF ServerSends, AgreeInv, ServerHas
<1>2. keyVars' = keyVars /\ sSecret' = sSecret /\ sClientPub' = sClientPub /\ cSecret' = cSecret
  BY <1>1 DEF keyVars
<1>3. CASE /\ sChan' = AfterEncrypt(sChan)
           /\ \/ spc = "sendP2" /\ ServerWrites(ForClient("readP2"), "readP3")
              \/ spc = "sendP4" /\ ServerWrites(ForClient("readP4"), "done")
  <2>1. /\ cpc' = cpc /\ spc' \in {"readP3", "done", "failed"}
        /\ spc' = "readP3" => spc = "sendP2"
        /\ Len(toServer') <= 1 /\ Len(toClient') <= 1
        /\ Expected' /\ (Alive' => InStep')
        /\ ~disturbed' => link' = "up" /\ (Sound' => Alive')
    BY <1>1, <1>3, ServerWriteAgrees
  <2>2. \/ spc = "sendP2" /\ sChan' = ItsChannel(1, 1)
        \/ spc = "sendP4" /\ sChan' = ItsChannel(2, 2)
    BY <1>1, <1>3, ChannelsCount
  <2>3. ServerHas'
    BY <1>1, <1>2, <2>1, <2>2 DEF AgreeInv, ServerHas, PastM3
  <2>4. /\ spc' \in ServerStates /\ sClientPub' \in Pubs \cup {"none"} /\ sSecret' \in {NoSecret, Pubs}
        /\ sChan'.encNonce \in 0 .. 2 /\ sChan'.decNonce \in 0 .. 2
    BY <1>2, <2>1, <2>2, ChannelsCount DEF AgreeInv, TypeOK, ServerStates
  <2> QED
    BY <1>1, <1>2, <2>1, <2>3, <2>4, ServerActs
<1>4. CASE /\ spc' = "failed" /\ UNCHANGED <<cpc, sChan, toServer, toClient>>
           /\ \/ spc = "sendP2" /\ ~FitsHeader(Info.len)
              \/ spc = "sendP4" /\ ~FitsHeader(board.len)
  <2>1. ~Sound
    BY <1>4, MessagesFit
    DEF AgreeInv, Sound, BoardFits, FitsHeader, TagLen, MaxPacketBody, MaxWireLen
  <2>2. Expected'
    <3>1. ForClient(cpc)' = ForClient(cpc)
      BY <1>1, <1>4 DEF ForClient
    <3> QED
      BY <1>1, <1>4, <3>1 DEF AgreeInv, Expected
  <2>3. ~Alive' /\ (~disturbed' => link' = "up" /\ ~Sound')
    BY <1>1, <1>4, <2>1 DEF AgreeInv, Alive, Sound, BoardFits, Mutual
  <2>4. ServerHas'
    BY <1>4 DEF ServerHas, PastM3
  <2>5. /\ spc' \in ServerStates /\ sClientPub' \in Pubs \cup {"none"} /\ sSecret' \in {NoSecret, Pubs}
        /\ sChan'.encNonce \in 0 .. 2 /\ sChan'.decNonce \in 0 .. 2
        /\ Len(toServer') <= 1 /\ Len(toClient') <= 1
    BY <1>2, <1>4 DEF AgreeInv, TypeOK, ServerStates
  <2> QED
    BY <1>1, <1>2, <1>4, <2>2, <2>3, <2>4, <2>5, ServerActs
<1> QED
  BY <1>1, <1>3, <1>4 DEF ServerSends, ForClient

\* Between a device that trusts us and is trusted and this one, keys, counters
\* and authenticated lengths agree at every packet: a pull fails only by what
\* the network or a deadline does, or by a pasteboard that is longer than a
\* reader accepts, beyond a limit of the decoder, or none (PairVerify and
\* ContentChannel of companion.rs, the exchanges of companion_client.rs).
THEOREM PullFailsForAReason == Spec => []FailsForAReason
<1>1. AgreeInv /\ [Next]_vars => AgreeInv'
  <2> SUFFICES ASSUME AgreeInv, [Next]_vars PROVE AgreeInv'
    OBVIOUS
  <2>1. CASE UNCHANGED vars
    <3>1. UNCHANGED <<reached, board, cpc, spc, cSecret, sSecret, sClientPub, cChan, sChan,
                      toServer, toClient, link, disturbed>>
      BY <2>1 DEF vars, endVars, keyVars, chanVars, wireVars
    <3>2. TypeOK' /\ ClientHas' /\ ServerHas'
      BY <3>1 DEF AgreeInv, TypeOK, ClientHas, ServerHas
    <3>3. Expected'
      <4>1. ForClient(cpc)' = ForClient(cpc)
        BY <3>1 DEF ForClient
      <4> QED
        BY <3>1, <4>1 DEF AgreeInv, Expected
    <3>4. (Alive' <=> Alive) /\ (InStep' <=> InStep) /\ (Sound' <=> Sound)
      BY <3>1 DEF Alive, InStep, Sound, BoardFits, Mutual
    <3> QED
      BY <3>1, <3>2, <3>3, <3>4 DEF AgreeInv
  <2>2. CASE ClientStep
    BY <2>2, SendM1Agrees, ProcessM2Agrees, SendM3Agrees, CheckM4Agrees, ClientSendsAgrees,
       ClientReceivesAgrees, FailureAgrees
    DEF ClientStep, SystemInfoExchange, FetchPasteboard
  <2>3. CASE ServerStep
    BY <2>3, ProcessM1Agrees, SendM2Agrees, ProcessM3Agrees, SendM4Agrees, ServerReceivesAgrees,
       ServerSendsAgrees, FailureAgrees
    DEF ServerStep, AnswerInfo, AnswerFetch
  <2> QED
    BY <2>1, <2>2, <2>3, FailureAgrees, LinkBreaksAgrees DEF Next
<1>2. AgreeInv => FailsForAReason
  BY DEF AgreeInv, Alive, Sound, FailsForAReason
<1> QED
  BY <1>1, <1>2, AgreeInit, PTL DEF Spec

\* Of what this program's own encoder makes of a pasteboard, the decoder
\* refuses exactly the ones of more than 13105 items: with a text short enough
\* for a packet, the limits of its depth and of its memory are never reached
\* (build_pasteboard_response of companion_client.rs, parse of opack.rs).
THEOREM OwnBoardsFit ==
  ASSUME NEW n \in Nat, NEW b \in Nat, NEW w \in Nat,
         Response(n, b, w).len <= MaxPacketBody - TagLen
  PROVE  Response(n, b, w) \in Messages /\ (Decodes(Response(n, b, w)) <=> n <= 13105)
<1> DEFINE len == 16 + 13 * n + b + w + (IF n < 15 THEN 0 ELSE 1)
           objects == 7 + 5 * n
           charged == 32 * (7 + 5 * n) + 2 * (9 + 8 * n + b)
<1>1. Response(n, b, w) =
        [len |-> len, objects |-> objects, depth |-> 3, charged |-> charged, pasteboard |-> TRUE]
  BY DEF Response
<1>2. len \in Nat /\ objects \in Nat /\ charged \in Nat
  OBVIOUS
<1>3. len <= 4194288
  BY <1>1, <1>2 DEF MaxPacketBody, TagLen
<1>4. objects <= 65536 <=> n <= 13105
  OBVIOUS
<1>5. charged <= 16777216 \/ ~(n <= 13105)
  BY <1>3
<1> HIDE DEF len, objects, charged
<1>6. Response(n, b, w) \in Messages
  BY <1>1, <1>2 DEF Messages
<1>7. Decodes(Response(n, b, w)) <=> len <= 4194304 /\ objects <= 65536 /\ charged <= 16777216
  BY <1>1, <1>2 DEF Decodes, MaxInput, MaxObjects, MaxDepth, MaxBudget
<1> QED
  BY <1>2, <1>3, <1>4, <1>5, <1>6, <1>7
-----------------------------------------------------------------------------
(* Both ends come to an end because no step of either can be repeated.     *)

\* How many packets an end has still to read or write.
ClientLeft(here) ==
  CASE here = "sendM1" -> 8 [] here = "readM2" -> 7 [] here = "sendM3" -> 6 [] here = "readM4" -> 5
    [] here = "sendP1" -> 4 [] here = "readP2" -> 3 [] here = "sendP3" -> 2 [] here = "readP4" -> 1
    [] OTHER -> 0
ServerLeft(here) ==
  CASE here = "readM1" -> 8 [] here = "sendM2" -> 7 [] here = "readM3" -> 6 [] here = "sendM4" -> 5
    [] here = "readP1" -> 4 [] here = "sendP2" -> 3 [] here = "readP3" -> 2 [] here = "sendP4" -> 1
    [] OTHER -> 0

ClientGoesOn == ClientLeft(cpc') < ClientLeft(cpc) /\ spc' = spc /\ link' = link
ServerGoesOn == ServerLeft(spc') < ServerLeft(spc) /\ cpc' = cpc /\ link' = link

PullLeft == ClientLeft(cpc) + ServerLeft(spc) + (IF link = "up" THEN 1 ELSE 0)
PullDescends == PullLeft \in 1 .. 17 /\ PullLeft' < PullLeft

LEMMA LeftAtMost8 ==
  /\ \A here \in ClientStates : ClientLeft(here) \in 0 .. 8
  /\ \A here \in ServerStates : ServerLeft(here) \in 0 .. 8
<1>1. \A here \in ClientStates : ClientLeft(here) \in 0 .. 8
  BY DEF ClientLeft, ClientStates
<1>2. \A here \in ServerStates : ServerLeft(here) \in 0 .. 8
  BY DEF ServerLeft, ServerStates
<1> QED
  BY <1>1, <1>2

LEMMA ClientStepGoesOn == ASSUME ClientStep PROVE ClientGoesOn
<1>1. CASE SendM1
  BY <1>1 DEF SendM1, ClientWrites, Writes, ClientGoesOn, ClientLeft
<1>2. CASE ProcessM2
  <2>1. cpc = "readM2" /\ cpc' \in {"sendM3", "failed"} /\ UNCHANGED <<spc, link>>
    BY <1>2 DEF ProcessM2, ClientTakes
  <2> QED
    BY <2>1 DEF ClientGoesOn, ClientLeft
<1>3. CASE SendM3
  BY <1>3 DEF SendM3, ClientWrites, Writes, ClientGoesOn, ClientLeft
<1>4. CASE CheckM4
  BY <1>4 DEF CheckM4, ClientTakes, ClientGoesOn, ClientLeft
<1>5. ASSUME NEW here, NEW text, NEW awaited, NEW next,
             ClientSends(here, text, next) \/ ClientReceives(here, awaited, next),
             <<here, next>> \in {<<"sendP1", "readP2">>, <<"readP2", "sendP3">>,
                                 <<"sendP3", "readP4">>, <<"readP4", "done">>}
      PROVE  ClientGoesOn
  <2>1. cpc = here /\ cpc' \in {next, "failed"} /\ UNCHANGED <<spc, link>>
    BY <1>5 DEF ClientSends, ClientReceives, ClientWrites, ClientTakes, Writes
  <2> QED
    BY <1>5, <2>1 DEF ClientGoesOn, ClientLeft
<1>6. CASE ClientEof
  <2>1. cpc \in ClientReading /\ cpc' = "failed" /\ UNCHANGED <<spc, link>>
    BY <1>6 DEF ClientEof, wireVars
  <2> QED
    BY <2>1 DEF ClientReading, ClientGoesOn, ClientLeft
<1> QED
  BY <1>1, <1>2, <1>3, <1>4, <1>5, <1>6 DEF ClientStep, SystemInfoExchange, FetchPasteboard

LEMMA ServerStepGoesOn == ASSUME ServerStep PROVE ServerGoesOn
<1>1. CASE ProcessM1
  BY <1>1 DEF ProcessM1, ServerTakes, ServerGoesOn, ServerLeft
<1>2. CASE SendM2
  BY <1>2 DEF SendM2, ServerWrites, Writes, ServerGoesOn, ServerLeft
<1>3. CASE ProcessM3
  <2>1. spc = "readM3" /\ spc' \in {"sendM4", "failed"} /\ UNCHANGED <<cpc, link>>
    BY <1>3 DEF ProcessM3, ServerTakes
  <2> QED
    BY <2>1 DEF ServerGoesOn, ServerLeft
<1>4. CASE SendM4
  BY <1>4 DEF SendM4, ServerWrites, Writes, ServerGoesOn, ServerLeft
<1>5. ASSUME NEW here, NEW text, NEW next,
             ServerSends(here, text, next) \/ ServerReceives(here, next),
             <<here, next>> \in {<<"readP1", "sendP2">>, <<"sendP2", "readP3">>,
                                 <<"readP3", "sendP4">>, <<"sendP4", "done">>}
      PROVE  ServerGoesOn
  <2>1. spc = here /\ spc' \in {next, "failed"} /\ UNCHANGED <<cpc, link>>
    BY <1>5 DEF ServerSends, ServerReceives, ServerWrites, ServerTakes, Writes
  <2> QED
    BY <1>5, <2>1 DEF ServerGoesOn, ServerLeft
<1>6. CASE ServerEof
  <2>1. spc \in ServerReading /\ spc' = "failed" /\ UNCHANGED <<cpc, link>>
    BY <1>6 DEF ServerEof, wireVars
  <2> QED
    BY <2>1 DEF ServerReading, ServerGoesOn, ServerLeft
<1> QED
  BY <1>1, <1>2, <1>3, <1>4, <1>5, <1>6 DEF ServerStep, AnswerInfo, AnswerFetch

\* A deadline ends an end that has not ended.
LEMMA DeadlineGoesOn ==
  ASSUME TypeOK, ClientTimer \/ ServerTimer \/ ClientDropped
  PROVE  ClientGoesOn \/ ServerGoesOn
<1>1. CASE ClientTimer \/ ClientDropped
  <2>1. cpc \in ClientStates \ Ended /\ cpc' = "failed" /\ UNCHANGED <<spc, link>>
    BY <1>1 DEF ClientTimer, ClientDropped, Timed, TypeOK, ClientStates, ClientReading, ServerReading, Ended
  <2> QED
    BY <2>1 DEF ClientGoesOn, ClientLeft, ClientStates, Ended
<1>2. CASE ServerTimer
  <2>1. spc \in ServerStates \ Ended /\ spc' = "failed" /\ UNCHANGED <<cpc, link>>
    BY <1>2 DEF ServerTimer, Timed, TypeOK, ServerStates, ClientReading, ServerReading, Ended
  <2> QED
    BY <2>1 DEF ServerGoesOn, ServerLeft, ServerStates, Ended
<1> QED
  BY <1>1, <1>2

\* A pull and its answer take at most 17 steps together, the loss of the
\* connection included: neither end reads or writes a packet of the sequence
\* twice, whatever the other sends, and nothing is retried within a pull
\* (PairVerify and the two exchanges of companion_client.rs).  What is left of
\* BothEnd is that an end that waits is woken, which its deadlines see to.
THEOREM PullDescendsToItsEnd == Spec => [][PullDescends]_vars
<1>1. TypeOK /\ [Next]_vars => [PullDescends]_vars
  <2> SUFFICES ASSUME TypeOK, Next PROVE PullDescends
    OBVIOUS
  <2>1. /\ ClientLeft(cpc) \in 0 .. 8 /\ ServerLeft(spc) \in 0 .. 8
    BY LeftAtMost8 DEF TypeOK
  <2>2. /\ ClientLeft(cpc') \in Nat /\ ServerLeft(spc') \in Nat
    BY DEF ClientLeft, ServerLeft
  <2>3. PullLeft' = ClientLeft(cpc') + ServerLeft(spc') + (IF link' = "up" THEN 1 ELSE 0)
    BY DEF PullLeft
  <2>4. CASE ClientGoesOn
    BY <2>1, <2>2, <2>3, <2>4 DEF ClientGoesOn, PullDescends, PullLeft
  <2>5. CASE ServerGoesOn
    BY <2>1, <2>2, <2>3, <2>5 DEF ServerGoesOn, PullDescends, PullLeft
  <2>6. CASE LinkBreaks
    <3>1. link = "up" /\ link' # "up" /\ UNCHANGED <<cpc, spc>>
      BY <2>6 DEF LinkBreaks, endVars
    <3> QED
      BY <2>1, <2>3, <3>1 DEF PullDescends, PullLeft
  <2> QED
    BY <2>4, <2>5, <2>6, ClientStepGoesOn, ServerStepGoesOn, DeadlineGoesOn DEF Next
<1>2. FailsForAReason => TypeOK
  BY DEF FailsForAReason
<1> QED
  BY <1>1, <1>2, PullFailsForAReason, PTL DEF Spec
-----------------------------------------------------------------------------
(* The frame of a packet: that what is written is read back, for every     *)
(* body, and that the end of a packet is never in doubt.                   *)

Byte == 0 .. 255

LEMMA HeaderBytes ==
  ASSUME NEW ptype \in PacketTypes, NEW n \in Nat, n <= MaxWireLen
  PROVE  /\ Header(ptype, n) \in Seq(Byte) /\ Len(Header(ptype, n)) = 4
         /\ Header(ptype, n)[1] = ptype
         /\ n = LengthOf(Header(ptype, n)[2], Header(ptype, n)[3], Header(ptype, n)[4])
<1>1. /\ n \div 65536 \in Byte /\ (n \div 256) % 256 \in Byte /\ n % 256 \in Byte
      /\ n = LengthOf(n \div 65536, (n \div 256) % 256, n % 256)
  BY DEF Byte, MaxWireLen, LengthOf
<1>2. ptype \in Byte
  BY DEF PacketTypes, Byte
<1> QED
  BY <1>1, <1>2 DEF Header

\* Only one header gives its three bytes of length.
LEMMA HeaderOfBytes ==
  ASSUME NEW a \in Byte, NEW b \in Byte, NEW c \in Byte
  PROVE  /\ LengthOf(a, b, c) \in Nat /\ LengthOf(a, b, c) <= MaxWireLen
         /\ LengthOf(a, b, c) \div 65536 = a /\ (LengthOf(a, b, c) \div 256) % 256 = b
         /\ LengthOf(a, b, c) % 256 = c
BY DEF Byte, MaxWireLen, LengthOf

LEMMA Parsed ==
  ASSUME NEW data \in Seq(Byte)
  PROVE  LET ok == /\ Len(data) >= 4 /\ data[1] \in PacketTypes
                   /\ Len(data) = 4 + LengthOf(data[2], data[3], data[4])
         IN /\ ParsePacket(data).ok <=> ok
            /\ ok => ParsePacket(data) = [ok |-> TRUE, body |-> SubSeq(data, 5, Len(data))]
<1> DEFINE ok == /\ Len(data) >= 4 /\ data[1] \in PacketTypes
                 /\ Len(data) = 4 + LengthOf(data[2], data[3], data[4])
<1>1. CASE ok
  <2>1. ParsePacket(data) = [ok |-> TRUE, body |-> SubSeq(data, 5, Len(data))]
    BY <1>1 DEF ParsePacket
  <2> QED
    BY <1>1, <2>1
<1>2. CASE ~ok
  <2>1. ParsePacket(data) = [ok |-> FALSE, body |-> <<>>]
    BY <1>2 DEF ParsePacket
  <2> QED
    BY <1>2, <2>1
<1> QED
  BY <1>1, <1>2

LEMMA Joined ==
  ASSUME NEW head \in Seq(Byte), Len(head) = 4, NEW body \in Seq(Byte)
  PROVE  /\ head \o body \in Seq(Byte) /\ Len(head \o body) = 4 + Len(body)
         /\ \A i \in 1 .. 4 : (head \o body)[i] = head[i]
         /\ \A i \in 1 .. Len(body) : (head \o body)[4 + i] = body[i]
<1>1. /\ head \o body \in Seq(Byte)
      /\ Len(head \o body) = Len(head) + Len(body)
      /\ \A i \in 1 .. Len(head) + Len(body) :
           (head \o body)[i] = IF i <= Len(head) THEN head[i] ELSE body[i - Len(head)]
  BY ConcatProperties
<1> QED
  BY <1>1

LEMMA BodyOf ==
  ASSUME NEW data \in Seq(Byte), Len(data) >= 4
  PROVE  LET body == SubSeq(data, 5, Len(data)) IN
         /\ body \in Seq(Byte) /\ Len(body) = Len(data) - 4
         /\ \A i \in 1 .. Len(data) - 4 : body[i] = data[4 + i]
<1> DEFINE body == SubSeq(data, 5, Len(data))
<1>1. /\ Len(data) \in Nat /\ 5 \in Int
      /\ \A i \in 5 .. Len(data) : data[i] \in Byte
  OBVIOUS
<1>2. /\ body \in Seq(Byte)
      /\ Len(body) = IF 5 <= Len(data) THEN Len(data) - 5 + 1 ELSE 0
      /\ \A i \in 1 .. Len(data) - 5 + 1 : body[i] = data[5 + i - 1]
  BY <1>1, SubSeqProperties
<1> HIDE DEF body
<1>3. Len(body) = Len(data) - 4
  <2>1. \A n \in Nat : n >= 4 => (IF 5 <= n THEN n - 5 + 1 ELSE 0) = n - 4
    OBVIOUS
  <2> QED
    BY <1>1, <1>2, <2>1
<1>4. ASSUME NEW i \in 1 .. Len(data) - 4 PROVE body[i] = data[4 + i]
  <2>1. i \in 1 .. Len(data) - 5 + 1 /\ 5 + i - 1 = 4 + i
    BY <1>1
  <2> QED
    BY <1>2, <2>1
<1> QED
  BY <1>2, <1>3, <1>4 DEF body

\* A body that fits the length is read back as it was written
\* (ContinuityPacket::serialize and parse of companion.rs).
THEOREM PacketsReadBack ==
  ASSUME NEW ptype \in PacketTypes, NEW body \in Seq(Byte), Len(body) <= MaxWireLen
  PROVE  /\ Serialize(ptype, body) \in Seq(Byte)
         /\ ParsePacket(Serialize(ptype, body)) = [ok |-> TRUE, body |-> body]
<1> DEFINE head == Header(ptype, Len(body))
           data == head \o body
<1>1. /\ head \in Seq(Byte) /\ Len(head) = 4 /\ head[1] = ptype
      /\ Len(body) = LengthOf(head[2], head[3], head[4])
  BY HeaderBytes
<1> HIDE DEF head
<1>2. /\ data \in Seq(Byte) /\ Len(data) = 4 + Len(body)
      /\ data[1] = head[1] /\ data[2] = head[2] /\ data[3] = head[3] /\ data[4] = head[4]
      /\ \A i \in 1 .. Len(body) : data[4 + i] = body[i]
  BY <1>1, Joined
<1> HIDE DEF data
<1>3. Len(data) >= 4 /\ Len(data) - 4 = Len(body)
  BY <1>2
<1>4. SubSeq(data, 5, Len(data)) = body
  <2> DEFINE rest == SubSeq(data, 5, Len(data))
  <2>1. /\ rest \in Seq(Byte) /\ Len(rest) = Len(data) - 4
        /\ \A i \in 1 .. Len(data) - 4 : rest[i] = data[4 + i]
    BY <1>2, <1>3, BodyOf
  <2> HIDE DEF rest
  <2>2. Len(rest) = Len(body) /\ \A i \in 1 .. Len(rest) : rest[i] = body[i]
    BY <1>2, <1>3, <2>1
  <2> QED
    BY <2>1, <2>2, SeqEqual DEF rest
<1>5. /\ data[1] \in PacketTypes
      /\ Len(data) = 4 + LengthOf(data[2], data[3], data[4])
  BY <1>1, <1>2
<1>6. ParsePacket(data) = [ok |-> TRUE, body |-> body]
  BY <1>2, <1>3, <1>4, <1>5, Parsed
<1>7. Serialize(ptype, body) = data
  BY DEF Serialize, data, head
<1> QED
  BY <1>2, <1>6, <1>7

\* What is read as a packet is the one way to write its body, so that of two
\* packets that are read neither is the beginning of the other: a body that
\* was cut off, or that runs into the next packet, is never taken for one.
THEOREM PacketsAreDelimited ==
  ASSUME NEW data \in Seq(Byte), ParsePacket(data).ok
  PROVE  /\ data = Serialize(data[1], ParsePacket(data).body)
         /\ \A more \in Seq(Byte) : ParsePacket(data \o more).ok => more = <<>>
<1> DEFINE n == LengthOf(data[2], data[3], data[4])
           body == SubSeq(data, 5, Len(data))
           head == Header(data[1], n)
<1>1. /\ Len(data) \in Nat /\ Len(data) >= 4 /\ data[1] \in PacketTypes /\ Len(data) = 4 + n
      /\ ParsePacket(data) = [ok |-> TRUE, body |-> body]
  BY Parsed
<1>2. /\ data[2] \in Byte /\ data[3] \in Byte /\ data[4] \in Byte
  BY <1>1
<1>3. /\ n \in Nat /\ n <= MaxWireLen
      /\ n \div 65536 = data[2] /\ (n \div 256) % 256 = data[3] /\ n % 256 = data[4]
  <2> DEFINE a == data[2]
             b == data[3]
             c == data[4]
  <2>1. a \in Byte /\ b \in Byte /\ c \in Byte
    BY <1>2
  <2> HIDE DEF a, b, c
  <2>2. /\ LengthOf(a, b, c) \in Nat /\ LengthOf(a, b, c) <= MaxWireLen
        /\ LengthOf(a, b, c) \div 65536 = a /\ (LengthOf(a, b, c) \div 256) % 256 = b
        /\ LengthOf(a, b, c) % 256 = c
    BY <2>1, HeaderOfBytes
  <2> QED
    BY <2>2 DEF a, b, c
<1>4. /\ body \in Seq(Byte) /\ Len(body) = Len(data) - 4
      /\ \A i \in 1 .. Len(data) - 4 : body[i] = data[4 + i]
  BY <1>1, BodyOf
<1> HIDE DEF n, body
<1>5. /\ head \in Seq(Byte) /\ Len(head) = 4
      /\ head[1] = data[1] /\ head[2] = data[2] /\ head[3] = data[3] /\ head[4] = data[4]
  <2>1. head \in Seq(Byte) /\ Len(head) = 4
    BY <1>1, <1>3, HeaderBytes
  <2>2. head = <<data[1], data[2], data[3], data[4]>>
    BY <1>3 DEF Header
  <2> QED
    BY <2>1, <2>2
<1> HIDE DEF head
<1>6. Len(body) = n /\ Len(data) - 4 = n
  BY <1>1, <1>3, <1>4
<1>7. head \o body = data
  <2>1. /\ head \o body \in Seq(Byte) /\ Len(head \o body) = 4 + n
        /\ \A i \in 1 .. 4 : (head \o body)[i] = head[i]
        /\ \A i \in 1 .. n : (head \o body)[4 + i] = body[i]
    BY <1>4, <1>5, <1>6, Joined
  <2>2. ASSUME NEW i \in 1 .. Len(data) PROVE (head \o body)[i] = data[i]
    <3>1. CASE i \in 1 .. 4
      <4>1. i = 1 \/ i = 2 \/ i = 3 \/ i = 4
        BY <3>1
      <4> QED
        BY <1>5, <2>1, <3>1, <4>1
    <3>2. CASE i \notin 1 .. 4
      <4>1. PICK j \in 1 .. n : i = 4 + j
        <5>1. i - 4 \in 1 .. n /\ i = 4 + (i - 4)
          BY <1>1, <1>3, <3>2
        <5> QED
          BY <5>1
      <4>2. body[j] = data[4 + j]
        BY <1>4, <1>6, <4>1
      <4> QED
        BY <2>1, <4>1, <4>2
    <3> QED
      BY <3>1, <3>2
  <2>3. Len(head \o body) = Len(data)
    BY <1>1, <2>1
  <2> QED
    BY <2>1, <2>2, <2>3, SeqEqual
<1>8. ASSUME NEW more \in Seq(Byte), ParsePacket(data \o more).ok
      PROVE  more = <<>>
  <2> DEFINE all == data \o more
  <2>1. /\ all \in Seq(Byte) /\ Len(all) = Len(data) + Len(more)
        /\ \A i \in 1 .. Len(data) + Len(more) :
             all[i] = IF i <= Len(data) THEN data[i] ELSE more[i - Len(data)]
    BY ConcatProperties
  <2>2. Len(more) \in Nat
    OBVIOUS
  <2> HIDE DEF all
  <2>3. all[2] = data[2] /\ all[3] = data[3] /\ all[4] = data[4]
    BY <1>1, <2>1, <2>2
  <2>4. Len(all) = 4 + LengthOf(all[2], all[3], all[4])
    BY <1>8, <2>1, Parsed DEF all
  <2>5. Len(all) = 4 + n
    BY <2>3, <2>4 DEF n
  <2>6. Len(more) = 0
    BY <1>1, <1>3, <2>1, <2>2, <2>5
  <2> QED
    BY <2>6
<1>9. data = Serialize(data[1], ParsePacket(data).body)
  BY <1>1, <1>6, <1>7 DEF Serialize, head
<1> QED
  BY <1>8, <1>9
=============================================================================
