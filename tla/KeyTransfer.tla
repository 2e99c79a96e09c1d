------------------------------ MODULE KeyTransfer -----------------------------
(***************************************************************************)
(* The key transfer over Bluetooth LE: `receive-key' on Linux              *)
(* (src/src/transfer_ble.rs, with the reassembler and the cipher of        *)
(* src/src/transfer.rs) and runs of `send-key' on Macs                     *)
(* (src/macos/ac-dc-send).  GATT write callbacks run on other threads than *)
(* the main task, which sleeps on a Notify.                                *)
(*                                                                         *)
(* Each run of send-key has a key pair of its own and is named by it.  The *)
(* session key and the security code are those of the pair (receiver,      *)
(* sender), so they are named by the sender too: a sealed payload opens    *)
(* with the key of the run that sealed it and no other, and two codes are  *)
(* equal when the sender is.  A byte of the payload stream is a record of  *)
(* who sent it and what it is.                                             *)
(***************************************************************************)
EXTENDS Naturals, Sequences

CONSTANTS
  Senders,     \* runs of send-key
  NoSender,    \* None
  SealedLen,   \* bytes of a sealed key file
  ChunkLens    \* payload bytes per frame, from the MTU of the connection

\* A frame of send-key is never smaller than 20 bytes: the header fits.
ASSUME KeyTransferAssumption ==
  /\ NoSender \notin Senders
  /\ SealedLen \in Nat \ {0}
  /\ ChunkLens \subseteq Nat /\ \A n \in ChunkLens : n >= 4

VARIABLES
  spc,        \* where each run of send-key is
  chunkLen,   \* its chunk length
  sent,       \* bytes of its stream it has written
  senderPub,  \* Inbound.sender_pub
  stream,     \* Reassembler.stream
  expected,   \* Reassembler.expected; 0: None
  permit,     \* the Notify's permit
  pc,         \* where receive_key is
  snapshot,   \* the sender_pub it has read
  sealed,     \* the payload it has taken
  confirmed,  \* history: the run whose code the user found to match
  file        \* the key file: none, torn, or the keys of a run

senderVars == <<spc, chunkLen, sent>>
inboundVars == <<senderPub, stream, expected>>
mainVars == <<snapshot, sealed, confirmed, file>>
vars == <<senderVars, inboundVars, permit, pc, mainVars>>

\* stream = u32_be(sealed.len()) || sealed
Byte(s, kind, n) == [from |-> s, kind |-> kind, value |-> n]
Sealed(s) == [i \in 1 .. SealedLen |-> Byte(s, "data", i)]
Header(s) == [i \in 1 .. 4 |-> Byte(s, "length", IF i = 4 THEN SealedLen ELSE 0)]
StreamOf(s) == Header(s) \o Sealed(s)

SenderStates == {"start", "writePub", "wakePub", "writeFrame", "wakeFrame", "sent", "quit"}
MainStates == {"loop", "wait", "readPub", "readFrames", "ask", "open", "write", "chmod", "done",
               "refused", "badTag", "ioError"}
Bytes == [from : Senders, kind : {"length", "data"}, value : 0 .. SealedLen]

TypeOK ==
  /\ spc \in [Senders -> SenderStates]
  /\ chunkLen \in [Senders -> ChunkLens]
  /\ sent \in [Senders -> 0 .. SealedLen + 4]
  /\ senderPub \in Senders \cup {NoSender}
  /\ stream \in Seq(Bytes)
  /\ expected \in {0, SealedLen}
  /\ permit \in BOOLEAN
  /\ pc \in MainStates
  /\ snapshot \in Senders \cup {NoSender}
  /\ sealed \in Seq(Bytes) /\ Len(sealed) \in {0, SealedLen}
  /\ confirmed \in Senders \cup {NoSender}
  /\ file \in Senders \cup {NoSender, "torn"}

Init ==
  /\ spc = [s \in Senders |-> "start"]
  /\ chunkLen \in [Senders -> ChunkLens]
  /\ sent = [s \in Senders |-> 0]
  /\ senderPub = NoSender
  /\ stream = <<>>
  /\ expected = 0
  /\ permit = FALSE
  /\ pc = "loop"
  /\ snapshot = NoSender
  /\ sealed = <<>>
  /\ confirmed = NoSender
  /\ file = NoSender

Serving == pc \notin {"done", "refused", "badTag", "ioError"}
GotoSender(s, l) == spc' = [spc EXCEPT ![s] = l]
-----------------------------------------------------------------------------
(* send-key: read the receiver's key, show the code, write the own key,    *)
(* then one frame after the other, each when the last one was answered.    *)

ReadReceiverPub(s) ==
  /\ Serving
  /\ spc[s] = "start"
  /\ GotoSender(s, "writePub")
  /\ UNCHANGED <<chunkLen, sent, inboundVars, permit, pc, mainVars>>

SenderQuits(s) ==
  /\ spc[s] \notin {"quit", "wakePub", "wakeFrame"}
  /\ GotoSender(s, "quit")
  /\ UNCHANGED <<chunkLen, sent, inboundVars, permit, pc, mainVars>>

\* The write callback of the sender's public key: the last one wins.
WriteSenderPub(s) ==
  /\ Serving
  /\ spc[s] = "writePub"
  /\ senderPub' = s
  /\ GotoSender(s, "wakePub")
  /\ UNCHANGED <<chunkLen, sent, stream, expected, permit, pc, mainVars>>

NextChunk(s) ==
  SubSeq(StreamOf(s), sent[s] + 1,
         IF sent[s] + chunkLen[s] > SealedLen + 4 THEN SealedLen + 4 ELSE sent[s] + chunkLen[s])

\* The length, once its four bytes are there.  They are the first four of
\* some run: every run starts with a frame that holds them.
PushChunk(chunk) ==
  /\ stream' = stream \o chunk
  /\ expected' = IF expected = 0 /\ Len(stream) + Len(chunk) >= 4
                 THEN (stream \o chunk)[4].value ELSE expected

\* The write callback of a frame; frames of all runs go into one reassembler,
\* which is never reset.  (send-key's frames are well formed.)
WriteFrame(s) ==
  /\ Serving
  /\ spc[s] = "writeFrame"
  /\ sent[s] < SealedLen + 4
  /\ PushChunk(NextChunk(s))
  /\ sent' = [sent EXCEPT ![s] = @ + Len(NextChunk(s))]
  /\ GotoSender(s, "wakeFrame")
  /\ UNCHANGED <<chunkLen, senderPub, permit, pc, mainVars>>

Permit_OnlyWaiter == permit \/ pc = "wait"
Permit == TRUE

\* The lock released, the callback calls notify_one and answers the write.
Wake(s) ==
  /\ spc[s] \in {"wakePub", "wakeFrame"}
  /\ permit' = Permit
  /\ GotoSender(s, IF sent[s] = SealedLen + 4 THEN "sent" ELSE "writeFrame")
  /\ UNCHANGED <<chunkLen, sent, inboundVars, pc, mainVars>>
-----------------------------------------------------------------------------
(* receive_key.                                                            *)

\* The lock of the frames is released before the wait begins.
Await ==
  /\ pc = "loop"
  /\ pc' = "wait"
  /\ UNCHANGED <<senderVars, inboundVars, permit, mainVars>>

Notified ==
  /\ pc = "wait"
  /\ permit
  /\ permit' = FALSE
  /\ pc' = "readPub"
  /\ UNCHANGED <<senderVars, inboundVars, mainVars>>

ReadPub ==
  /\ pc = "readPub"
  /\ snapshot' = senderPub
  /\ pc' = "readFrames"
  /\ UNCHANGED <<senderVars, inboundVars, permit, sealed, confirmed, file>>

IsComplete == expected # 0 /\ Len(stream) >= 4 + expected

Taken_WithHeader == SubSeq(stream, 1, expected)
Taken == SubSeq(stream, 5, 4 + expected)

\* Both locks in turn, not together: the key was read before.
ReadFrames ==
  /\ pc = "readFrames"
  /\ \/ /\ snapshot # NoSender /\ IsComplete
        /\ sealed' = Taken
        /\ pc' = "ask"
     \/ /\ ~(snapshot # NoSender /\ IsComplete)
        /\ pc' = "loop"
        /\ UNCHANGED sealed
  /\ UNCHANGED <<senderVars, inboundVars, permit, snapshot, confirmed, file>>

CodeMatches(s) == s = snapshot

\* The user compares the code with that on a Mac's screen.
Confirm ==
  /\ pc = "ask"
  /\ \E s \in Senders :
       /\ spc[s] # "start"
       /\ CodeMatches(s)
       /\ confirmed' = s
  /\ pc' = "open"
  /\ UNCHANGED <<senderVars, inboundVars, permit, snapshot, sealed, file>>

\* Anything but yes, or stdin fails.
Refuse ==
  /\ pc = "ask"
  /\ pc' = "refused"
  /\ UNCHANGED <<senderVars, inboundVars, permit, mainVars>>

OpeningKey_Latest == senderPub
OpeningKey == snapshot

Open ==
  /\ pc = "open"
  /\ pc' = IF sealed = Sealed(OpeningKey) THEN "write" ELSE "badTag"
  /\ UNCHANGED <<senderVars, inboundVars, permit, mainVars>>

\* fs::write truncates before it writes.
WriteFile ==
  /\ pc = "write"
  /\ \/ /\ file' = sealed[1].from
        /\ pc' = "chmod"
     \/ /\ file' \in {file, "torn"}
        /\ pc' = "ioError"
  /\ UNCHANGED <<senderVars, inboundVars, permit, snapshot, sealed, confirmed>>

SetPermissions ==
  /\ pc = "chmod"
  /\ pc' \in {"done", "ioError"}
  /\ UNCHANGED <<senderVars, inboundVars, permit, mainVars>>

Collect == Await \/ Notified \/ ReadPub \/ ReadFrames

Next ==
  \/ \E s \in Senders :
       \/ ReadReceiverPub(s) \/ SenderQuits(s) \/ WriteSenderPub(s)
       \/ WriteFrame(s) \/ Wake(s)
  \/ Collect \/ Confirm \/ Refuse \/ Open \/ WriteFile \/ SetPermissions

Spec == Init /\ [][Next]_vars

\* The runtime finishes a callback it has begun and polls the main task; no
\* sender need go on and the user need not answer.
FairSpec == Spec /\ WF_vars(Collect) /\ \A s \in Senders : WF_vars(Wake(s))
-----------------------------------------------------------------------------
\* The key file never holds anything but the complete keys of the run whose
\* code the user found on the Mac's screen, however many runs write to the
\* receiver at the same time.  With it the types of all variables.
FileIsConfirmed ==
  /\ TypeOK
  /\ file \notin {NoSender, "torn"} =>
       /\ file = confirmed
       /\ sealed = Sealed(file)

\* A confirmed transfer fails on a bad tag only if frames of another run than
\* the confirmed one reached the receiver.
LoneTransferOpens ==
  pc = "badTag" => \E s \in Senders \ {confirmed} : sent[s] > 0

\* No wakeup is lost: when key and payload are there the user is asked.
CompleteIsNoticed ==
  senderPub # NoSender /\ IsComplete ~> pc \notin {"loop", "wait", "readPub", "readFrames"}
=============================================================================
