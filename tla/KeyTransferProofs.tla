---------------------------- MODULE KeyTransferProofs --------------------------
(***************************************************************************)
(* The key transfer, for any number of runs of send-key, any length of the *)
(* keys and any chunks: the key file holds the confirmed run's keys or     *)
(* none, and a run that is alone has its payload opened.  The end of the   *)
(* transfer never goes unnoticed between the helper's loop and the         *)
(* callback that ends it.                                                  *)
(***************************************************************************)
EXTENDS KeyTransfer, SequenceTheorems, TLAPS

\* Nobody but c has sent a byte of a payload.
Lone(c) == \A s \in Senders \ {c} : sent[s] = 0

\* The stages behind the user's yes.
After == {"open", "write", "chmod", "done", "badTag", "ioError"}

\* The length is known from the first frame on.
StreamInv ==
  /\ stream = <<>> => expected = 0 /\ \A s \in Senders : sent[s] = 0
  /\ stream # <<>> => expected = SealedLen

\* A run that is alone has its own bytes in the reassembler, in order.
LoneInv ==
  \A c \in Senders : Lone(c) =>
    /\ Len(stream) = sent[c]
    /\ \A i \in 1 .. sent[c] : stream[i] = StreamOf(c)[i]
    /\ pc \in After \cup {"ask", "refused"} => sealed = Sealed(c)

\* The code asked about, the key that opens and the keys that are written
\* belong to the run of the snapshot.
ConfirmedInv ==
  /\ pc \in After => confirmed = snapshot /\ snapshot \in Senders
  /\ pc \in {"write", "chmod", "done", "ioError"} => sealed = Sealed(snapshot)
  /\ pc = "badTag" => sealed # Sealed(snapshot)
  /\ file \notin {NoSender, "torn"} => pc \in {"chmod", "done", "ioError"} /\ file = snapshot

KeyInv == TypeOK /\ StreamInv /\ LoneInv /\ ConfirmedInv
-----------------------------------------------------------------------------
\* Tuples as sequences, joined and cut.

LEMMA TupleIsSeq ==
  ASSUME NEW S, NEW n \in Nat, NEW f \in [1 .. n -> S]
  PROVE  f \in Seq(S) /\ Len(f) = n
OBVIOUS

LEMMA JoinedSeqs ==
  ASSUME NEW S, NEW a \in Seq(S), NEW b \in Seq(S)
  PROVE  /\ a \o b \in Seq(S) /\ Len(a \o b) = Len(a) + Len(b)
         /\ \A i \in 1 .. Len(a) : (a \o b)[i] = a[i]
         /\ \A i \in 1 .. Len(b) : (a \o b)[Len(a) + i] = b[i]
OBVIOUS

LEMMA CutSeq ==
  ASSUME NEW S, NEW t \in Seq(S), NEW k \in Nat, NEW n \in Nat, k <= n, n <= Len(t)
  PROVE  /\ SubSeq(t, k + 1, n) \in Seq(S) /\ Len(SubSeq(t, k + 1, n)) = n - k
         /\ \A i \in 1 .. n - k : SubSeq(t, k + 1, n)[i] = t[k + i]
<1> DEFINE m == k + 1
<1>1. m \in Int /\ n \in Int /\ m <= n + 1 /\ m >= 1
  OBVIOUS
<1>2. \A i \in m .. n : t[i] \in S
  OBVIOUS
<1>3. n - m + 1 = n - k /\ \A i \in 1 .. n - k : m + i - 1 = k + i
  OBVIOUS
<1>4. (m <= n => n - m + 1 = n - k) /\ (~(m <= n) => n - k = 0)
  OBVIOUS
<1> HIDE DEF m
<1>5. /\ SubSeq(t, m, n) \in Seq(S)
      /\ Len(SubSeq(t, m, n)) = IF m <= n THEN n - m + 1 ELSE 0
      /\ \A i \in 1 .. n - m + 1 : SubSeq(t, m, n)[i] = t[m + i - 1]
  BY <1>1, <1>2, SubSeqProperties
<1>6. Len(SubSeq(t, m, n)) = n - k
  BY <1>4, <1>5
<1>7. \A i \in 1 .. n - k : SubSeq(t, m, n)[i] = t[k + i]
  BY <1>3, <1>5
<1> QED
  BY <1>5, <1>6, <1>7 DEF m
-----------------------------------------------------------------------------
\* The stream of a run: four bytes of length, then the sealed keys.
LEMMA StreamIs ==
  ASSUME NEW c \in Senders
  PROVE  /\ Sealed(c) \in Seq(Bytes) /\ Len(Sealed(c)) = SealedLen
         /\ \A i \in 1 .. SealedLen : Sealed(c)[i].from = c
         /\ StreamOf(c) \in Seq(Bytes) /\ Len(StreamOf(c)) = SealedLen + 4
         /\ StreamOf(c)[4].value = SealedLen
         /\ \A i \in 1 .. SealedLen : StreamOf(c)[4 + i] = Sealed(c)[i]
<1>0. SealedLen \in Nat \ {0}
  BY KeyTransferAssumption
<1>1. /\ Sealed(c) \in Seq(Bytes) /\ Len(Sealed(c)) = SealedLen
      /\ \A i \in 1 .. SealedLen : Sealed(c)[i].from = c
  <2>1. Sealed(c) \in [1 .. SealedLen -> Bytes]
    BY <1>0 DEF Sealed, Byte, Bytes
  <2>2. \A i \in 1 .. SealedLen : Sealed(c)[i].from = c
    BY DEF Sealed, Byte
  <2> QED
    BY <1>0, <2>1, <2>2, TupleIsSeq
<1>2. /\ Header(c) \in Seq(Bytes) /\ Len(Header(c)) = 4 /\ Header(c)[4].value = SealedLen
  <2>1. Header(c) \in [1 .. 4 -> Bytes]
    BY <1>0 DEF Header, Byte, Bytes
  <2>2. Header(c)[4].value = SealedLen
    BY DEF Header, Byte
  <2> QED
    BY <2>1, <2>2, TupleIsSeq
<1>3. /\ StreamOf(c) \in Seq(Bytes) /\ Len(StreamOf(c)) = SealedLen + 4
      /\ StreamOf(c)[4] = Header(c)[4]
      /\ \A i \in 1 .. SealedLen : StreamOf(c)[4 + i] = Sealed(c)[i]
  <2> DEFINE h == Header(c)
             d == Sealed(c)
  <2>0. h \in Seq(Bytes) /\ d \in Seq(Bytes)
    BY <1>1, <1>2
  <2>1. Len(h) = 4 /\ Len(d) = SealedLen
    BY <1>1, <1>2
  <2> HIDE DEF h, d
  <2>2. /\ h \o d \in Seq(Bytes) /\ Len(h \o d) = Len(h) + Len(d)
        /\ \A i \in 1 .. Len(h) : (h \o d)[i] = h[i]
        /\ \A i \in 1 .. Len(d) : (h \o d)[Len(h) + i] = d[i]
    BY <2>0, JoinedSeqs
  <2>3. 4 \in 1 .. Len(h) /\ Len(h) + Len(d) = SealedLen + 4
    BY <1>0, <2>1
  <2>4. StreamOf(c) = h \o d
    BY DEF StreamOf, h, d
  <2> QED
    BY <2>1, <2>2, <2>3, <2>4 DEF h, d
<1> QED
  BY <1>1, <1>2, <1>3

\* What a run writes next, of a stream that is not at its end.
LEMMA ChunkIs ==
  ASSUME TypeOK, NEW s \in Senders, sent[s] < SealedLen + 4
  PROVE  /\ NextChunk(s) \in Seq(Bytes)
         /\ Len(NextChunk(s)) \in 1 .. SealedLen + 4 - sent[s]
         /\ sent[s] = 0 => Len(NextChunk(s)) >= 4
         /\ \A i \in 1 .. Len(NextChunk(s)) : NextChunk(s)[i] = StreamOf(s)[sent[s] + i]
<1> DEFINE b == IF sent[s] + chunkLen[s] > SealedLen + 4 THEN SealedLen + 4 ELSE sent[s] + chunkLen[s]
           k == sent[s]
           t == StreamOf(s)
<1>1. /\ SealedLen \in Nat \ {0} /\ k \in 0 .. SealedLen + 4
      /\ chunkLen[s] \in Nat /\ chunkLen[s] >= 4
  BY KeyTransferAssumption DEF TypeOK
<1>2. b \in Nat /\ k + 1 <= b /\ b <= SealedLen + 4 /\ (k = 0 => b >= 4)
  BY <1>1
<1>3. t \in Seq(Bytes) /\ Len(t) = SealedLen + 4
  BY StreamIs
<1>4. NextChunk(s) = SubSeq(t, k + 1, b)
  BY DEF NextChunk
<1> HIDE DEF b, t, k
<1>0. k \in Nat /\ b \in Nat /\ k <= b /\ b <= Len(t) /\ t \in Seq(Bytes)
  BY <1>1, <1>2, <1>3
<1>5. /\ SubSeq(t, k + 1, b) \in Seq(Bytes) /\ Len(SubSeq(t, k + 1, b)) = b - k
      /\ \A i \in 1 .. b - k : SubSeq(t, k + 1, b)[i] = t[k + i]
  BY <1>0, CutSeq
<1>6. b - k \in 1 .. SealedLen + 4 - k /\ (k = 0 => b - k >= 4)
  BY <1>1, <1>2
<1> QED
  BY <1>4, <1>5, <1>6 DEF t, k

\* What receive_key takes out of the reassembler.
LEMMA TakenIs ==
  ASSUME TypeOK, StreamInv, IsComplete
  PROVE  /\ Taken \in Seq(Bytes) /\ Len(Taken) = SealedLen
         /\ \A i \in 1 .. SealedLen : Taken[i] = stream[4 + i]
<1>1. /\ expected = SealedLen /\ SealedLen \in Nat \ {0}
      /\ stream \in Seq(Bytes) /\ Len(stream) >= 4 + SealedLen
  BY KeyTransferAssumption DEF StreamInv, IsComplete, TypeOK
<1> DEFINE n == 4 + SealedLen
<1>2. n \in Nat /\ 4 <= n /\ n - 4 = SealedLen /\ n <= Len(stream)
  BY <1>1
<1>3. Taken = SubSeq(stream, 4 + 1, n)
  BY <1>1 DEF Taken
<1> HIDE DEF n
<1>4. /\ SubSeq(stream, 4 + 1, n) \in Seq(Bytes) /\ Len(SubSeq(stream, 4 + 1, n)) = n - 4
      /\ \A i \in 1 .. n - 4 : SubSeq(stream, 4 + 1, n)[i] = stream[4 + i]
  BY <1>1, <1>2, CutSeq
<1> QED
  BY <1>2, <1>3, <1>4
-----------------------------------------------------------------------------
\* It holds when receive-key begins to advertise.
LEMMA KeyStart == Init => KeyInv
<1> SUFFICES ASSUME Init PROVE KeyInv
  OBVIOUS
<1>0. SealedLen \in Nat \ {0}
  BY KeyTransferAssumption
<1>1. TypeOK
  <2>1. spc \in [Senders -> SenderStates] /\ pc \in MainStates
    BY DEF Init, SenderStates, MainStates
  <2>2. sent \in [Senders -> 0 .. SealedLen + 4]
    BY <1>0 DEF Init
  <2>3. stream \in Seq(Bytes) /\ sealed \in Seq(Bytes) /\ Len(sealed) = 0
    BY DEF Init
  <2> QED
    BY <2>1, <2>2, <2>3 DEF Init, TypeOK
<1>2. StreamInv /\ ConfirmedInv
  BY <1>0 DEF Init, StreamInv, ConfirmedInv, After
<1>3. LoneInv
  BY DEF Init, LoneInv, After
<1> QED
  BY <1>1, <1>2, <1>3 DEF KeyInv

\* The steps that write nothing into the reassembler and do not move
\* receive_key keep all but the types.
LEMMA SenderKeeps ==
  ASSUME KeyInv, UNCHANGED <<sent, stream, expected, pc, mainVars>>
  PROVE  StreamInv' /\ LoneInv' /\ ConfirmedInv'
<1>1. StreamInv'
  BY DEF KeyInv, StreamInv
<1>2. LoneInv'
  BY DEF KeyInv, LoneInv, Lone, mainVars, StreamOf, Header, Sealed, Byte
<1>3. ConfirmedInv'
  BY DEF KeyInv, ConfirmedInv, mainVars, Sealed, Byte
<1> QED
  BY <1>1, <1>2, <1>3

\* The callbacks of a run, and its end.
LEMMA SenderStep ==
  ASSUME KeyInv, NEW s \in Senders,
         ReadReceiverPub(s) \/ SenderQuits(s) \/ WriteSenderPub(s) \/ Wake(s)
  PROVE  KeyInv'
<1>1. TypeOK'
  <2>1. spc' \in [Senders -> SenderStates]
    BY DEF KeyInv, TypeOK, ReadReceiverPub, SenderQuits, WriteSenderPub, Wake, GotoSender, SenderStates
  <2>2. senderPub' \in Senders \cup {NoSender} /\ permit' \in BOOLEAN
    BY DEF KeyInv, TypeOK, ReadReceiverPub, SenderQuits, WriteSenderPub, Wake, inboundVars, Permit
  <2>3. UNCHANGED <<chunkLen, sent, stream, expected, pc, mainVars>>
    BY DEF ReadReceiverPub, SenderQuits, WriteSenderPub, Wake, inboundVars
  <2> QED
    BY <2>1, <2>2, <2>3 DEF KeyInv, TypeOK, mainVars
<1>2. UNCHANGED <<sent, stream, expected, pc, mainVars>>
  BY DEF ReadReceiverPub, SenderQuits, WriteSenderPub, Wake, inboundVars
<1> QED
  BY <1>1, <1>2, SenderKeeps DEF KeyInv

\* A frame: the reassembler grows by the next bytes of the run's stream.
LEMMA FrameStep ==
  ASSUME KeyInv, NEW s \in Senders, WriteFrame(s)
  PROVE  KeyInv'
<1> DEFINE chunk == NextChunk(s)
           k == sent[s]
<1>1. /\ TypeOK /\ SealedLen \in Nat \ {0} /\ k \in 0 .. SealedLen + 4 /\ k < SealedLen + 4
      /\ stream \in Seq(Bytes) /\ sent \in [Senders -> 0 .. SealedLen + 4]
  BY KeyTransferAssumption DEF KeyInv, TypeOK, WriteFrame
<1>2. /\ chunk \in Seq(Bytes) /\ Len(chunk) \in 1 .. SealedLen + 4 - k
      /\ k = 0 => Len(chunk) >= 4
      /\ \A i \in 1 .. Len(chunk) : chunk[i] = StreamOf(s)[k + i]
  BY <1>1, ChunkIs
<1>3. /\ stream' = stream \o chunk
      /\ expected' = IF expected = 0 /\ Len(stream) + Len(chunk) >= 4
                     THEN (stream \o chunk)[4].value ELSE expected
      /\ sent' = [sent EXCEPT ![s] = k + Len(chunk)]
      /\ spc' = [spc EXCEPT ![s] = "wakeFrame"]
      /\ UNCHANGED <<chunkLen, senderPub, permit, pc, mainVars>>
  BY DEF WriteFrame, PushChunk, GotoSender
<1> HIDE DEF chunk
<1>4. /\ stream' \in Seq(Bytes) /\ Len(stream') = Len(stream) + Len(chunk)
      /\ \A i \in 1 .. Len(stream) : stream'[i] = stream[i]
      /\ \A i \in 1 .. Len(chunk) : stream'[Len(stream) + i] = chunk[i]
  BY <1>1, <1>2, <1>3, JoinedSeqs
<1>5. /\ sent' \in [Senders -> 0 .. SealedLen + 4]
      /\ sent'[s] = k + Len(chunk) /\ \A q \in Senders \ {s} : sent'[q] = sent[q]
  BY <1>1, <1>2, <1>3
<1>6. stream' # <<>> /\ expected' = SealedLen
  <2>1. stream' # <<>>
    BY <1>2, <1>4
  <2>2. CASE stream = <<>>
    <3>1. expected = 0 /\ k = 0 /\ Len(stream) = 0
      BY <2>2 DEF KeyInv, StreamInv
    <3>2. Len(chunk) >= 4 /\ 4 \in 1 .. Len(chunk) /\ Len(stream) + 4 = 4 /\ k + 4 = 4
      BY <1>2, <3>1
    <3>3. stream'[4] = chunk[4] /\ chunk[4] = StreamOf(s)[4]
      BY <1>2, <1>4, <3>2
    <3>4. expected' = stream'[4].value
      BY <1>2, <1>3, <3>1, <3>2
    <3> QED
      BY <2>1, <3>3, <3>4, StreamIs
  <2>3. CASE stream # <<>>
    BY <1>1, <1>3, <2>1, <2>3 DEF KeyInv, StreamInv
  <2> QED
    BY <2>2, <2>3
<1>7. TypeOK'
  <2>1. spc' \in [Senders -> SenderStates]
    BY <1>1, <1>3 DEF TypeOK, SenderStates
  <2> QED
    BY <1>1, <1>3, <1>4, <1>5, <1>6, <2>1 DEF TypeOK, mainVars
<1>8. StreamInv'
  BY <1>6 DEF StreamInv
<1>9. LoneInv'
  <2> SUFFICES ASSUME NEW c \in Senders, Lone(c)'
               PROVE  /\ Len(stream') = sent'[c]
                      /\ \A i \in 1 .. sent'[c] : stream'[i] = StreamOf(c)[i]
                      /\ pc' \in After \cup {"ask", "refused"} => sealed' = Sealed(c)
    BY DEF LoneInv, StreamOf, Header, Sealed, Byte
  <2>1. c = s
    <3>1. sent'[s] # 0
      BY <1>1, <1>2, <1>5
    <3> QED
      BY <3>1 DEF Lone
  <2>2. Lone(s)
    BY <1>5, <2>1 DEF Lone
  <2>3. /\ Len(stream) = k /\ \A i \in 1 .. k : stream[i] = StreamOf(s)[i]
        /\ pc \in After \cup {"ask", "refused"} => sealed = Sealed(s)
    BY <2>2 DEF KeyInv, LoneInv
  <2>4. \A i \in 1 .. k + Len(chunk) : stream'[i] = StreamOf(s)[i]
    <3> SUFFICES ASSUME NEW i \in 1 .. k + Len(chunk) PROVE stream'[i] = StreamOf(s)[i]
      OBVIOUS
    <3>1. CASE i \in 1 .. k
      BY <1>4, <2>3, <3>1
    <3>2. CASE i \notin 1 .. k
      <4>1. i - k \in 1 .. Len(chunk) /\ k + (i - k) = i
        BY <1>1, <1>2, <3>2
      <4>2. stream'[k + (i - k)] = chunk[i - k] /\ chunk[i - k] = StreamOf(s)[k + (i - k)]
        BY <1>2, <1>4, <2>3, <4>1
      <4> QED
        BY <4>1, <4>2
    <3> QED
      BY <3>1, <3>2
  <2>5. Len(stream') = sent'[s]
    BY <1>4, <1>5, <2>3
  <2> QED
    BY <1>3, <1>5, <2>1, <2>3, <2>4, <2>5 DEF mainVars
<1>10. ConfirmedInv'
  BY <1>3 DEF KeyInv, ConfirmedInv, mainVars, Sealed, Byte
<1> QED
  BY <1>7, <1>8, <1>9, <1>10 DEF KeyInv
-----------------------------------------------------------------------------
\* The steps of receive_key leave the runs and the reassembler alone.
LEMMA MainKeeps ==
  ASSUME KeyInv, UNCHANGED <<senderVars, inboundVars>>
  PROVE  /\ StreamInv'
         /\ \A c \in Senders : Lone(c)' => Lone(c)
         /\ \A c \in Senders : Sealed(c)' = Sealed(c)
<1>1. StreamInv'
  BY DEF KeyInv, StreamInv, senderVars, inboundVars
<1>2. \A c \in Senders : Lone(c)' => Lone(c)
  BY DEF Lone, senderVars
<1>3. \A c \in Senders : Sealed(c)' = Sealed(c)
  BY DEF Sealed, Byte
<1> QED
  BY <1>1, <1>2, <1>3

\* A step of receive_key that takes no payload keeps LoneInv, if the stages
\* with a payload are entered from such stages only.
LEMMA LoneStays ==
  ASSUME KeyInv, UNCHANGED <<senderVars, inboundVars>>,
         pc' \in After \cup {"ask", "refused"} =>
           sealed' = sealed /\ pc \in After \cup {"ask", "refused"}
  PROVE  LoneInv'
<1> SUFFICES ASSUME NEW c \in Senders, Lone(c)
             PROVE  /\ Len(stream') = sent'[c]
                    /\ \A i \in 1 .. sent'[c] : stream'[i] = StreamOf(c)[i]
                    /\ pc' \in After \cup {"ask", "refused"} => sealed' = Sealed(c)
  BY MainKeeps DEF LoneInv, StreamOf, Header, Sealed, Byte
<1> QED
  BY DEF KeyInv, LoneInv, senderVars, inboundVars

\* The waiting loop up to the key it reads.
LEMMA LoopStep ==
  ASSUME KeyInv, Await \/ Notified \/ ReadPub
  PROVE  KeyInv'
<1>1. /\ UNCHANGED <<senderVars, inboundVars, sealed, confirmed, file>>
      /\ pc \in {"loop", "wait", "readPub"} /\ pc' \in {"wait", "readPub", "readFrames"}
      /\ permit' \in {permit, FALSE} /\ snapshot' \in {snapshot, senderPub}
  BY DEF Await, Notified, ReadPub, mainVars
<1>2. TypeOK'
  <2>1. pc' \in MainStates /\ permit' \in BOOLEAN /\ snapshot' \in Senders \cup {NoSender}
    BY <1>1 DEF KeyInv, TypeOK, MainStates
  <2> QED
    BY <1>1, <2>1 DEF KeyInv, TypeOK, senderVars, inboundVars
<1>3. LoneInv'
  BY <1>1, LoneStays DEF After
<1>4. ConfirmedInv'
  BY <1>1 DEF KeyInv, ConfirmedInv, After
<1> QED
  BY <1>1, <1>2, <1>3, <1>4, MainKeeps DEF KeyInv

\* The payload is taken: of a lone run, it is what that run has sealed.
LEMMA TakeStep ==
  ASSUME KeyInv, ReadFrames
  PROVE  KeyInv'
<1>1. /\ UNCHANGED <<senderVars, inboundVars, permit, snapshot, confirmed, file>>
      /\ pc = "readFrames"
      /\ \/ pc' = "loop" /\ sealed' = sealed
         \/ pc' = "ask" /\ IsComplete /\ sealed' = Taken
  BY DEF ReadFrames
<1>2. /\ TypeOK /\ StreamInv /\ SealedLen \in Nat \ {0}
  BY KeyTransferAssumption DEF KeyInv
<1>3. TypeOK'
  <2>1. sealed' \in Seq(Bytes) /\ Len(sealed') \in {0, SealedLen}
    <3>1. CASE sealed' = sealed
      BY <1>2, <3>1 DEF TypeOK
    <3>2. CASE IsComplete /\ sealed' = Taken
      <4>1. Taken \in Seq(Bytes) /\ Len(Taken) = SealedLen
        BY <1>2, <3>2, TakenIs
      <4> QED
        BY <3>2, <4>1
    <3> QED
      BY <1>1, <3>1, <3>2
  <2>2. pc' \in MainStates
    BY <1>1 DEF MainStates
  <2> QED
    BY <1>1, <1>2, <2>1, <2>2 DEF TypeOK, senderVars, inboundVars
<1>4. LoneInv'
  <2>1. CASE pc' = "loop"
    BY <1>1, <2>1, LoneStays DEF After
  <2>2. CASE pc' = "ask" /\ IsComplete /\ sealed' = Taken
    <3> SUFFICES ASSUME NEW c \in Senders, Lone(c)
                 PROVE  /\ Len(stream') = sent'[c]
                        /\ \A i \in 1 .. sent'[c] : stream'[i] = StreamOf(c)[i]
                        /\ Taken = Sealed(c)
      BY <1>1, <2>2, MainKeeps DEF LoneInv, StreamOf, Header, Sealed, Byte
    <3>1. Len(stream) = sent[c] /\ \A i \in 1 .. sent[c] : stream[i] = StreamOf(c)[i]
      BY DEF KeyInv, LoneInv
    <3>2. sent[c] = SealedLen + 4
      <4>1. expected = SealedLen /\ Len(stream) >= 4 + expected
        BY <1>2, <2>2 DEF StreamInv, IsComplete
      <4>2. sent[c] \in 0 .. SealedLen + 4
        BY <1>2 DEF TypeOK
      <4> QED
        BY <1>2, <3>1, <4>1, <4>2
    <3>3. /\ Taken \in Seq(Bytes) /\ Len(Taken) = SealedLen
          /\ \A i \in 1 .. SealedLen : Taken[i] = stream[4 + i]
      BY <1>2, <2>2, TakenIs
    <3>4. /\ Sealed(c) \in Seq(Bytes) /\ Len(Sealed(c)) = SealedLen
          /\ \A i \in 1 .. SealedLen : StreamOf(c)[4 + i] = Sealed(c)[i]
      BY StreamIs
    <3>5. \A i \in 1 .. SealedLen : Taken[i] = Sealed(c)[i]
      <4> SUFFICES ASSUME NEW i \in 1 .. SealedLen PROVE Taken[i] = Sealed(c)[i]
        OBVIOUS
      <4>1. 4 + i \in 1 .. sent[c]
        BY <1>2, <3>2
      <4>2. Taken[i] = stream[4 + i]
        BY <3>3
      <4>3. stream[4 + i] = StreamOf(c)[4 + i]
        BY <3>1, <4>1
      <4>4. StreamOf(c)[4 + i] = Sealed(c)[i]
        BY <3>4
      <4> QED
        BY <4>2, <4>3, <4>4
    <3>6. Taken = Sealed(c)
      BY <3>3, <3>4, <3>5, SeqEqual
    <3> QED
      BY <1>1, <3>1, <3>6 DEF senderVars, inboundVars
  <2> QED
    BY <1>1, <2>1, <2>2
<1>5. ConfirmedInv'
  BY <1>1 DEF KeyInv, ConfirmedInv, After
<1> QED
  BY <1>1, <1>3, <1>4, <1>5, MainKeeps DEF KeyInv

\* The user's answer is about the snapshot; the key that opens is its key.
LEMMA AnswerStep ==
  ASSUME KeyInv, Confirm \/ Refuse \/ Open
  PROVE  KeyInv'
<1>1. /\ UNCHANGED <<senderVars, inboundVars, permit, snapshot, sealed, file>>
      /\ \/ pc = "ask" /\ pc' = "open" /\ confirmed' = snapshot /\ snapshot \in Senders
         \/ pc = "ask" /\ pc' = "refused" /\ confirmed' = confirmed
         \/ /\ pc = "open" /\ confirmed' = confirmed
            /\ \/ pc' = "write" /\ sealed = Sealed(snapshot)
               \/ pc' = "badTag" /\ sealed # Sealed(snapshot)
  BY DEF Confirm, Refuse, Open, CodeMatches, OpeningKey, mainVars
<1>2. TypeOK'
  <2>1. pc' \in MainStates /\ confirmed' \in Senders \cup {NoSender}
    BY <1>1 DEF KeyInv, TypeOK, MainStates
  <2> QED
    BY <1>1, <2>1 DEF KeyInv, TypeOK, senderVars, inboundVars
<1>3. LoneInv'
  BY <1>1, LoneStays DEF After
<1>4. ConfirmedInv'
  BY <1>1 DEF KeyInv, ConfirmedInv, After, Sealed, Byte
<1> QED
  BY <1>1, <1>2, <1>3, <1>4, MainKeeps DEF KeyInv

\* The keys are written, or a part of them, and their file made private.
LEMMA WriteStep ==
  ASSUME KeyInv, WriteFile \/ SetPermissions
  PROVE  KeyInv'
<1>1. /\ UNCHANGED <<senderVars, inboundVars, permit, snapshot, sealed, confirmed>>
      /\ \/ pc = "write" /\ pc' = "chmod" /\ file' = sealed[1].from
         \/ pc = "write" /\ pc' = "ioError" /\ file' \in {file, "torn"}
         \/ pc = "chmod" /\ pc' \in {"done", "ioError"} /\ file' = file
  BY DEF WriteFile, SetPermissions, mainVars
<1>2. pc = "write" => sealed[1].from = snapshot
  <2> SUFFICES ASSUME pc = "write" PROVE sealed[1].from = snapshot
    OBVIOUS
  <2>1. sealed = Sealed(snapshot) /\ snapshot \in Senders
    BY DEF KeyInv, ConfirmedInv, After
  <2>2. 1 \in 1 .. SealedLen
    BY KeyTransferAssumption
  <2> QED
    BY <2>1, <2>2, StreamIs
<1>3. snapshot \in Senders
  BY <1>1 DEF KeyInv, ConfirmedInv, After
<1>4. TypeOK'
  <2>1. pc' \in MainStates /\ file' \in Senders \cup {NoSender, "torn"}
    BY <1>1, <1>2, <1>3 DEF KeyInv, TypeOK, MainStates
  <2> QED
    BY <1>1, <2>1 DEF KeyInv, TypeOK, senderVars, inboundVars
<1>5. LoneInv'
  BY <1>1, LoneStays DEF After
<1>6. ConfirmedInv'
  BY <1>1, <1>2 DEF KeyInv, ConfirmedInv, After, Sealed, Byte
<1> QED
  BY <1>1, <1>4, <1>5, <1>6, MainKeeps DEF KeyInv
-----------------------------------------------------------------------------
\* What the runs send and what is asked, opened and written belong together.
THEOREM KeyInvariant == Spec => []KeyInv
<1>1. KeyInv /\ [Next]_vars => KeyInv'
  <2> SUFFICES ASSUME KeyInv, [Next]_vars PROVE KeyInv'
    OBVIOUS
  <2>1. CASE UNCHANGED vars
    <3>1. TypeOK'
      BY <2>1 DEF KeyInv, TypeOK, vars, senderVars, inboundVars, mainVars
    <3> QED
      BY <2>1, <3>1, SenderKeeps DEF KeyInv, vars, senderVars, inboundVars
  <2>2. CASE Next
    BY <2>2, SenderStep, FrameStep, LoopStep, TakeStep, AnswerStep, WriteStep DEF Next, Collect
  <2> QED
    BY <2>1, <2>2
<1> QED
  BY <1>1, KeyStart, PTL DEF Spec

\* The key file holds the complete keys of the confirmed run or none at all
\* (fs::write in receive_key, src/src/transfer_ble.rs), whatever runs write.
THEOREM ConfirmedFile == Spec => []FileIsConfirmed
<1>1. KeyInv => FileIsConfirmed
  BY DEF KeyInv, ConfirmedInv, FileIsConfirmed, After
<1> QED
  BY <1>1, KeyInvariant, PTL

\* The tag of a confirmed transfer is bad only if another run sent frames
\* (the reassembler of src/src/transfer.rs serves all runs).
THEOREM LoneTransferSucceeds == Spec => []LoneTransferOpens
<1>1. KeyInv => LoneTransferOpens
  <2> SUFFICES ASSUME KeyInv, pc = "badTag", \A s \in Senders \ {confirmed} : ~(sent[s] > 0)
               PROVE  FALSE
    BY DEF LoneTransferOpens
  <2>1. confirmed = snapshot /\ snapshot \in Senders /\ sealed # Sealed(snapshot)
    BY DEF KeyInv, ConfirmedInv, After
  <2>2. Lone(snapshot)
    <3>1. sent \in [Senders -> 0 .. SealedLen + 4] /\ SealedLen \in Nat
      BY KeyTransferAssumption DEF KeyInv, TypeOK
    <3>2. \A s \in Senders : ~(sent[s] > 0) => sent[s] = 0
      BY <3>1
    <3> QED
      BY <2>1, <3>2 DEF Lone
  <2>3. sealed = Sealed(snapshot)
    BY <2>1, <2>2 DEF KeyInv, LoneInv, After
  <2> QED
    BY <2>1, <2>3
<1> QED
  BY <1>1, KeyInvariant, PTL
-----------------------------------------------------------------------------
(* No wakeup is lost between the main task's look at the data and its wait.*)

\* A callback has changed something and not yet notified.
Waking == \E s \in Senders : spc[s] \in {"wakePub", "wakeFrame"}

\* The main task will not look at the data again unless it is woken: it is on
\* its way to the wait, or looks with the key it has read too early.
Unaware == pc \in {"loop", "wait"} \/ (pc = "readFrames" /\ snapshot = NoSender)

WakeupComes == senderPub # NoSender /\ IsComplete /\ Unaware => permit \/ Waking

LEMMA CallbackWakes ==
  ASSUME KeyInv, WakeupComes, NEW s \in Senders,
         ReadReceiverPub(s) \/ SenderQuits(s) \/ WriteSenderPub(s) \/ WriteFrame(s) \/ Wake(s)
  PROVE  WakeupComes'
<1>1. spc \in [Senders -> SenderStates]
  BY DEF KeyInv, TypeOK
<1>2. CASE WriteSenderPub(s) \/ WriteFrame(s)
  <2>1. spc'[s] \in {"wakePub", "wakeFrame"}
    BY <1>1, <1>2 DEF WriteSenderPub, WriteFrame, GotoSender
  <2> QED
    BY <2>1 DEF WakeupComes, Waking
<1>3. CASE Wake(s)
  BY <1>3 DEF Wake, Permit, WakeupComes
<1>4. CASE ReadReceiverPub(s) \/ SenderQuits(s)
  <2>1. /\ UNCHANGED <<senderPub, stream, expected, permit, pc, snapshot>>
        /\ spc[s] \notin {"wakePub", "wakeFrame"}
        /\ \A r \in Senders \ {s} : spc'[r] = spc[r]
    BY <1>1, <1>4 DEF ReadReceiverPub, SenderQuits, GotoSender, inboundVars, mainVars
  <2>2. Waking => Waking'
    BY <2>1 DEF Waking
  <2> QED
    BY <2>1, <2>2 DEF WakeupComes, Unaware, IsComplete
<1> QED
  BY <1>2, <1>3, <1>4

LEMMA CollectWakes ==
  ASSUME KeyInv, WakeupComes, Collect
  PROVE  WakeupComes'
<1>1. UNCHANGED <<spc, senderPub, stream, expected>> /\ (Waking' <=> Waking)
  BY DEF Collect, Await, Notified, ReadPub, ReadFrames, Waking, senderVars, inboundVars
<1>2. CASE Await
  BY <1>1, <1>2 DEF Await, WakeupComes, Unaware, IsComplete, mainVars
<1>3. CASE Notified
  BY <1>3 DEF Notified, WakeupComes, Unaware
<1>4. CASE ReadPub
  BY <1>1, <1>4 DEF ReadPub, WakeupComes, Unaware
<1>5. CASE ReadFrames
  BY <1>1, <1>5 DEF ReadFrames, WakeupComes, Unaware, IsComplete
<1> QED
  BY <1>2, <1>3, <1>4, <1>5 DEF Collect

\* When the key and the whole payload are there and the main task is not going
\* to see them, it has been notified or a callback that has returned the lock
\* is about to (on_write callbacks and the loop of receive_key,
\* src/src/transfer_ble.rs): no order of write, look, wait and notify lets it
\* sleep over a complete transfer.  It is what CompleteIsNoticed needs besides
\* fairness.
THEOREM NoWakeupIsLost == Spec => []WakeupComes
<1>1. Init => WakeupComes
  BY DEF Init, WakeupComes
<1>2. KeyInv /\ WakeupComes /\ [Next]_vars => WakeupComes'
  <2> SUFFICES ASSUME KeyInv, WakeupComes, [Next]_vars PROVE WakeupComes'
    OBVIOUS
  <2>1. CASE UNCHANGED vars
    <3>1. UNCHANGED <<spc, senderPub, stream, expected, permit, pc, snapshot>>
      BY <2>1 DEF vars, senderVars, inboundVars, mainVars
    <3> QED
      BY <3>1 DEF WakeupComes, Waking, Unaware, IsComplete
  <2>2. CASE Confirm \/ Refuse \/ Open \/ WriteFile \/ SetPermissions
    <3>1. pc' \notin {"loop", "wait", "readFrames"}
      BY <2>2 DEF Confirm, Refuse, Open, WriteFile, SetPermissions
    <3> QED
      BY <3>1 DEF WakeupComes, Unaware
  <2> QED
    BY <2>1, <2>2, CallbackWakes, CollectWakes DEF Next
<1> QED
  BY <1>1, <1>2, KeyInvariant, PTL DEF Spec
=============================================================================
