---------------------------------- MODULE Codecs --------------------------------
(***************************************************************************)
(* The encodings of a companion packet as operators on sequences of bytes: *)
(* OPACK (src/src/opack.rs), TLV8 (src/src/tlv8.rs), and the wrapping of   *)
(* pairing data (src/src/companion.rs) in packets, which Framing has.      *)
(*                                                                         *)
(* An OPACK value is its type and what it holds: the bytes of a string or  *)
(* data, the eight little-endian bytes of a number, a sequence of values,  *)
(* or one of pairs.                                                        *)
(***************************************************************************)
EXTENDS Integers, Sequences, Framing
LOCAL INSTANCE SequencesExt

CONSTANTS
  Values,   \* OPACK values that are encoded
  Pairings  \* pairing data: sequences of TLV8 items, adjacent ones of different types

Zeros(n) == [i \in 1 .. n |-> 0]
Little(n, width) == [i \in 1 .. width |-> IF i > 3 THEN 0 ELSE (n \div 256 ^ (i - 1)) % 256]

\* A length beyond 24 bits is only known to be too long for any input.
TooLong == 16777216
Number(bytes) ==
  IF \E i \in 4 .. Len(bytes) : bytes[i] # 0 THEN TooLong
  ELSE FoldLeft(LAMBDA n, i : n + bytes[i] * 256 ^ (i - 1), 0,
                [i \in 1 .. (IF Len(bytes) < 3 THEN Len(bytes) ELSE 3) |-> i])
-----------------------------------------------------------------------------
(* opack::encode.                                                          *)

\* The narrowest of the widths, each in bytes.
Fits(n, width) == width >= 3 \/ n < 256 ^ width

\* encode_int; v holds eight bytes.
EncodeInt(v) ==
  LET narrow(width) == \A i \in width + 1 .. 8 : v[i] = 0 IN
  IF narrow(1) /\ v[1] < 40 THEN <<v[1] + 8>>
  ELSE IF narrow(1) THEN <<48>> \o SubSeq(v, 1, 1)
  ELSE IF narrow(2) THEN <<49>> \o SubSeq(v, 1, 2)
  ELSE IF narrow(4) THEN <<50>> \o SubSeq(v, 1, 4)
  ELSE <<51>> \o v

EncodeStr(s) ==
  LET n == Len(s)
      width == IF Fits(n, 1) THEN 1 ELSE IF Fits(n, 2) THEN 2 ELSE 3
  IN (IF n <= 32 THEN <<64 + n>> ELSE <<96 + width>> \o Little(n, width)) \o s

EncodeBytes(b) ==
  LET n == Len(b)
      code == IF Fits(n, 1) THEN 0 ELSE IF Fits(n, 2) THEN 1 ELSE 2
  IN (IF n <= 32 THEN <<112 + n>> ELSE <<145 + code>> \o Little(n, 2 ^ code)) \o b

\* A short container says how many elements follow, a longer one is closed.
Container_Counts15(tag, elements) == <<tag + Len(elements)>> \o FlattenSeq(elements)
Container(tag, elements) ==
  IF Len(elements) < 15 THEN <<tag + Len(elements)>> \o FlattenSeq(elements)
  ELSE <<tag + 15>> \o FlattenSeq(elements) \o <<3>>

RECURSIVE Encode(_)
Encode(value) ==
  LET v == value.v IN
  CASE value.type = "null" -> <<4>>
    [] value.type = "float" -> <<54>> \o v
    [] value.type = "uuid" -> <<5>> \o v
    [] value.type = "time" -> <<6>> \o v
    [] value.type = "true" -> <<1>>
    [] value.type = "false" -> <<2>>
    [] value.type = "int" -> EncodeInt(v)
    [] value.type = "str" -> EncodeStr(v)
    [] value.type = "bytes" -> EncodeBytes(v)
    [] value.type = "array" -> Container(208, [i \in DOMAIN v |-> Encode(v[i])])
    [] value.type = "dict" ->
         Container(224, [i \in DOMAIN v |-> Encode(v[i][1]) \o Encode(v[i][2])])
-----------------------------------------------------------------------------
(* opack::decode.  The decoder is a record; one that has failed stays so.  *)

Null == [type |-> "null", v |-> <<>>]
Failed == [ok |-> FALSE, pos |-> 0, objects |-> <<>>, count |-> 0, budget |-> 0, value |-> Null]

Left(data, d) == Len(data) - d.pos
Charge(d, n) == IF d.ok /\ n <= d.budget THEN [d EXCEPT !.budget = @ - n] ELSE Failed
Yields(d, value) == IF d.ok THEN [d EXCEPT !.value = value] ELSE d

\* The next n bytes, as a value of this type.
Take(data, d, n, type) ==
  IF ~d.ok \/ n > Left(data, d) THEN Failed
  ELSE [d EXCEPT !.pos = @ + n, !.value = [type |-> type, v |-> SubSeq(data, d.pos + 1, d.pos + n)]]

\* A number of n bytes.
TakeNumber(data, d, n, type) ==
  LET e == Take(data, d, n, type) IN
  IF e.ok THEN [e EXCEPT !.value.v = @ \o Zeros(8 - n)] ELSE e

\* Objects that a reference can name: each once, in the order they came.
Remember(d) ==
  IF d.ok /\ ~Contains(d.objects, d.value) THEN [d EXCEPT !.objects = Append(@, d.value)] ELSE d

\* A number the tag itself gives.
Inline(d, n) == Yields(d, [type |-> "int", v |-> Little(n, 8)])

\* What the number just read is the length of.
Lengthy(data, d, limit, type) ==
  IF ~d.ok \/ Number(d.value.v) > limit THEN Failed
  ELSE Take(data, Charge(d, Number(d.value.v) * 2), Number(d.value.v), type)

\* The object whose index was just read.
Reference(d) ==
  IF ~d.ok \/ Number(d.value.v) >= Len(d.objects) THEN Failed
  ELSE LET object == d.objects[Number(d.value.v) + 1] IN
       Yields(Charge(d, IF object.type \in {"str", "bytes"} THEN Len(object.v) ELSE 16), object)

\* std::str::from_utf8, of which the model has the ASCII part.
Utf8(d) == IF d.ok /\ \A i \in DOMAIN d.value.v : d.value.v[i] < 128 THEN d ELSE Failed

RECURSIVE Parse(_, _, _), Elements(_, _, _, _, _, _), FurtherElements(_, _, _, _, _, _)

\* The value that follows its tag.
Tagged(data, d, depth, t) ==
  LET number(width) == TakeNumber(data, d, width, "int")
      is(type) == Yields(d, [type |-> type, v |-> <<>>])
  IN CASE t = 1 -> is("true")
       [] t = 2 -> is("false")
       [] t = 4 -> is("null")
       [] t = 5 -> Remember(Take(data, d, 16, "uuid"))
       [] t = 6 -> Remember(TakeNumber(data, d, 8, "time"))
       [] t \in 8 .. 47 -> Inline(d, t - 8)
       [] t \in 48 .. 51 -> Remember(number(2 ^ (t - 48)))
       [] t = 53 -> Remember(Take(data, d, 4, "float"))
       [] t = 54 -> Remember(Take(data, d, 8, "float"))
       [] t \in 64 .. 100 ->
            Remember(Utf8(Lengthy(data, IF t <= 96 THEN Inline(d, t - 64) ELSE number(t - 96),
                                  TooLong, "str")))
       [] t \in 112 .. 148 ->
            Remember(Lengthy(data, IF t <= 144 THEN Inline(d, t - 112) ELSE number(2 ^ (t - 145)),
                             MaxInput, "bytes"))
       [] t \in 160 .. 196 ->
            Reference(IF t <= 192 THEN Inline(d, t - 160) ELSE number(t - 192))
       [] t \in 208 .. 239 ->
            Elements(data, d, depth, IF t < 224 THEN "array" ELSE "dict", t % 16, <<>>)
       [] OTHER -> Failed

AfterTag(data, d, depth) == IF d.ok THEN Tagged(data, d, depth, d.value.v[1]) ELSE Failed

Parse(data, d, depth) ==
  IF depth > MaxDepth \/ d.count >= MaxObjects THEN Failed
  ELSE AfterTag(data, Take(data, Charge([d EXCEPT !.count = @ + 1], 32), 1, "tag"), depth)

\* The loop over the elements of a container; those of a dictionary are read
\* in turn, keys and what they stand for, and paired at its end.
Elements(data, d, depth, type, n, items) ==
  LET per == IF type = "dict" THEN 2 ELSE 1
      all == IF type = "array" THEN items
             ELSE [i \in 1 .. Len(items) \div 2 |-> <<items[2 * i - 1], items[2 * i]>>]
      done == [type |-> type, v |-> all]
  IN IF ~d.ok THEN Failed
     ELSE IF n < 15 /\ Len(items) = per * n THEN Yields(d, done)
     ELSE IF n = 15 /\ Len(items) % per = 0 /\ Left(data, d) > 0 /\ data[d.pos + 1] = 3
       THEN Yields([d EXCEPT !.pos = @ + 1], done)
     ELSE FurtherElements(data, Parse(data, d, depth + 1), depth, type, n, items)

FurtherElements(data, d, depth, type, n, items) ==
  Elements(data, d, depth, type, n, Append(items, d.value))

Decode(data) ==
  LET start == [Failed EXCEPT !.ok = Len(data) <= MaxInput, !.budget = MaxBudget]
      d == Parse(data, start, 0)
  IN IF d.pos = Len(data) THEN d ELSE Failed
-----------------------------------------------------------------------------
(* TLV8: items are <<type, value>>.                                        *)

Chunk == 255

RECURSIVE Chunks(_, _)
Chunks(type, value) ==
  IF Len(value) <= Chunk THEN <<type, Len(value) % 256>> \o value
  ELSE <<type, Chunk % 256>> \o SubSeq(value, 1, Chunk)
         \o Chunks(type, SubSeq(value, Chunk + 1, Len(value)))

TlvEncode(items) == FlattenSeq([i \in DOMAIN items |-> Chunks(items[i][1], items[i][2])])

\* Fragments of one type are joined.
Merged(items, type, payload) ==
  IF items # <<>> /\ Last(items)[1] = type
    THEN [items EXCEPT ![Len(items)][2] = @ \o payload]
    ELSE Append(items, <<type, payload>>)

RECURSIVE TlvRest(_, _, _)
TlvRest(data, pos, items) ==
  IF pos + 2 > Len(data) THEN items
  ELSE LET n == pos + 2 + data[pos + 2]
           end == IF n < Len(data) THEN n ELSE Len(data)
       IN TlvRest(data, end, Merged(items, data[pos + 1], SubSeq(data, pos + 3, end)))

TlvDecode(data) == TlvRest(data, 0, <<>>)
-----------------------------------------------------------------------------
(* Pairing data in a packet.                                               *)

\* The key "_pd".
PdKey == [type |-> "str", v |-> <<95, 112, 100>>]
WrapPairingData(items) ==
  Encode([type |-> "dict", v |-> <<<<PdKey, [type |-> "bytes", v |-> TlvEncode(items)]>>>>])

\* pairing_tlv: the first entry under the key, which must be data.
PairingTlv(body) ==
  LET d == Decode(body)
      at == IF d.ok /\ d.value.type = "dict"
              THEN SelectInSeq(d.value.v, LAMBDA pair : pair[1] = PdKey) ELSE 0
      ok == at > 0 /\ d.value.v[at][2].type = "bytes"
  IN [ok |-> ok, items |-> IF ok THEN TlvDecode(d.value.v[at][2].v) ELSE <<>>]
-----------------------------------------------------------------------------
Scalars == {x \in Values : x.type \in {"int", "str", "bytes", "time", "uuid", "float"}
                             /\ Len(x.v) <= 256}
Nameable(x) == x.type # "int" \/ Len(EncodeInt(x.v)) > 1

\* Every value the encoder writes is read back as it was, at each boundary of
\* its widths and forms and down to the deepest nesting allowed; nothing of
\* another length is taken for it.  A peer that replaces a repeated value by
\* a reference, which the encoder never does, is read the same, and a
\* repeated value takes one index.
OpackReadsBack ==
  /\ \A x \in Values :
       LET bytes == Encode(x) IN
       /\ Decode(bytes).ok /\ Decode(bytes).value = x
       /\ ~Decode(bytes \o <<4>>).ok
       /\ Len(bytes) < 80 => \A n \in 0 .. Len(bytes) - 1 : ~Decode(SubSeq(bytes, 1, n)).ok
  /\ \A x, y \in {z \in Scalars : Nameable(z)} :
       LET named(i) == Decode(<<211>> \o Encode(x) \o Encode(y) \o <<160 + i>>)
           last == IF x = y THEN 0 ELSE 1
       IN /\ named(last).ok /\ named(last).value.v = <<x, y, y>>
          /\ ~named(last + 1).ok

\* Pairing data survive the way into a packet and out of it, for every
\* length of an item around the fragments of 255 bytes and of the whole
\* around the widths of its length.
PairingReadsBack ==
  \A items \in Pairings, ptype \in PacketTypes :
    LET packet == Serialize(ptype, WrapPairingData(items))
        parsed == ParsePacket(packet)
    IN /\ parsed.ok
       /\ PairingTlv(parsed.body).ok
       /\ PairingTlv(parsed.body).items = items
       /\ ~ParsePacket(packet \o <<0>>).ok
       /\ ~ParsePacket(SubSeq(packet, 1, Len(packet) - 1)).ok
=============================================================================
