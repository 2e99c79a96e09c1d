--------------------------------- MODULE Framing --------------------------------
(***************************************************************************)
(* The frame of a companion packet, ContinuityPacket of                    *)
(* src/src/companion.rs: its type, the length of the body in 24 bits, the  *)
(* body; and the limits of the decoder of src/src/opack.rs.  They are      *)
(* apart from Codecs because nothing in them is recursive, so that         *)
(* CompanionLink can use them and CompanionProofs can say what they do     *)
(* with every body.                                                        *)
(***************************************************************************)
EXTENDS Naturals, Sequences

PacketTypes == {1, 5, 6, 8}

\* header and serialize: the length is big endian.
Header(ptype, n) == <<ptype, n \div 65536, (n \div 256) % 256, n % 256>>
Serialize(ptype, body) == Header(ptype, Len(body)) \o body

\* The length that the three bytes of a header tell.
LengthOf(a, b, c) == a * 65536 + b * 256 + c

\* parse: the body, or that there is none.
ParsePacket(data) ==
  LET ok == Len(data) >= 4 /\ data[1] \in PacketTypes
            /\ Len(data) = 4 + LengthOf(data[2], data[3], data[4])
  IN [ok |-> ok, body |-> IF ok THEN SubSeq(data, 5, Len(data)) ELSE <<>>]
-----------------------------------------------------------------------------
(* What opack::decode takes at most.                                       *)

MaxDepth == 64
MaxObjects == 65536
MaxBudget == 16777216
MaxInput == 4194304
=============================================================================
