--------------------------- MODULE MCCompanionLink -----------------------------
(* Four devices, for each side of the trust; boards at each limit.         *)
EXTENDS CompanionLink, Codecs

CONSTANTS phone, tablet, oldMac, stranger, linux

\* A name of 5 bytes, a model of 7 and a version of 3; the request.
ShortInfo == [len |-> 51, objects |-> 11, depth |-> 1, charged |-> 432, pasteboard |-> FALSE]
FetchRequest == [len |-> 28, objects |-> 7, depth |-> 1, charged |-> 266, pasteboard |-> FALSE]

\* One item that makes a message of n bytes, its type of ten.
OneItem(n) == Response(1, n - 33, 4)

\* Empty and short ones, ones at the two limits of a length, at that of the
\* objects, nested too deep, with an item repeated by references, and no
\* pasteboard at all.
BoundaryBoards ==
  {Response(0, 0, 0), Response(1, 22, 0)}
    \cup {OneItem(n) : n \in {MaxPacketBody - TagLen, MaxPacketBody - TagLen + 1,
                              MaxWireLen - TagLen, MaxWireLen - TagLen + 1}}
    \cup {Response(n, n, 0) : n \in {13105, 13106}}
    \cup {[Response(1, 22, 0) EXCEPT !.depth = n] : n \in {MaxDepth, MaxDepth + 1}}
    \cup {[Response(16, 1000000, 64) EXCEPT !.charged = n] : n \in {MaxBudget, MaxBudget + 1}}
    \cup {[Response(1, 22, 0) EXCEPT !.pasteboard = FALSE]}

Bare(type) == [type |-> type, v |-> <<>>]
Num(v) == [type |-> "int", v |-> v]
Run(type, n) == [type |-> type, v |-> [i \in 1 .. n |-> i % 128]]
RECURSIVE Nest(_)
Nest(n) == IF n = 0 THEN Bare("null") ELSE [type |-> "array", v |-> <<Nest(n - 1)>>]

\* Each type; numbers and lengths at each boundary; containers around the
\* fifteen elements at which their form changes, also one within the other,
\* with elements whose encodings hold the byte that closes a container.
BoundaryValues ==
  LET ints == {Num(<<a, b, c, 0, 0, 0, 0, h>>) : a \in {3, 39, 40, 255}, b \in {0, 1}, c \in {0, 3},
                                                h \in {0, 3}}
      strs == {Run("str", n) : n \in {0, 3, 32, 33, 255, 256, 65535, 65536}}
      data == {Run("bytes", n) : n \in {0, 3, 32, 33, 255, 256, 65535, 65536}}
      long(n) == [type |-> "array", v |-> [i \in 1 .. n |-> Num(<<3, 3, i, 0, 0, 0, 0, 0>>)]]
      wide(n) == [type |-> "dict", v |-> [i \in 1 .. n |-> <<Run("str", i), long(i)>>]]
  IN ints \cup strs \cup data
       \cup {Bare("null"), Bare("true"), Bare("false"), Run("uuid", 16), Run("time", 8), Run("float", 8)}
       \cup {long(n) : n \in {0, 1, 14, 15, 16}} \cup {wide(n) : n \in {0, 1, 14, 15, 16}}
       \cup {Nest(1), Nest(64)}

BoundaryPairings ==
  LET item(type, n) == <<type, [i \in 1 .. n |-> i % 256]>>
      lens == {0, 1, 32, 254, 255, 256, 510, 511}
  IN {<<item(3, m)>> : m \in lens} \cup {<<item(6, m), item(3, n), item(6, 1)>> : m, n \in lens}
-----------------------------------------------------------------------------
\* The messages in full: entries of a name of so many letters and a value.
Entries(pairs) ==
  [type |-> "dict", v |-> [i \in DOMAIN pairs |-> <<Run("str", pairs[i][1]), pairs[i][2]>>]]
Small == Num(<<2, 0, 0, 0, 0, 0, 0, 0>>)
InfoValue ==
  Entries(<<<<2, Small>>, <<2, Run("str", 10)>>, <<4, Run("str", 5)>>, <<5, Run("str", 7)>>,
            <<2, Run("str", 3)>>>>)
FetchValue == Entries(<<<<2, Small>>, <<2, Run("str", 15)>>, <<2, Small>>>>)
ResponseValue(n, type, data) ==
  LET items == [i \in 1 .. n |-> Entries(<<<<4, Run("str", type)>>, <<4, Run("bytes", data)>>>>)]
  IN Entries(<<<<2, Small>>, <<2, Small>>, <<5, [type |-> "array", v |-> items]>>>>)

Measures(msg, value) ==
  LET bytes == Encode(value)
      d == Decode(bytes)
  IN Len(bytes) = msg.len /\ d.ok /\ d.count = msg.objects /\ MaxBudget - d.budget = msg.charged

\* What a pull that is done has exchanged, whatever it was, was read as it
\* was written: pairing data and messages survive their encodings, at every
\* boundary of a width, a form or a fragment.  And what CompanionLink says of
\* the size of a message is what its encoding and its decoder make of it.
PayloadsReadBack ==
  cpc = "done" =>
    /\ PairingReadsBack /\ OpackReadsBack
    /\ Measures(Info, InfoValue) /\ Measures(Fetch, FetchValue)
    /\ \A n \in {0, 1, 14, 15, 16}, b \in {0, 32} :
         Measures(Response(n, (10 + b) * n, 0), ResponseValue(n, 10, b))
    /\ Measures(Response(15, 345 * 15, 3 * 15), ResponseValue(15, 45, 300))
=============================================================================
