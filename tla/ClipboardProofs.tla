---------------------------- MODULE ClipboardProofs ---------------------------
(***************************************************************************)
(* The clipboard auto-pull, for any number of devices, addresses and       *)
(* copies: a copy is reported once at one address, the clipboard never     *)
(* goes back to an older copy of the device it holds a copy of, and every  *)
(* copy made is on its way, tried, or known to be lost.                    *)
(***************************************************************************)
EXTENDS Clipboard, TLAPS

AtHome(d) == addr[d] = FirstAddr(d)
Home(d) == stream[FirstAddr(d)]

\* The board a pull has got is no older than the clipboard's copy of its
\* device: there is one pull at a time.
BoardInv ==
  /\ clip.dev \in Devices => clip.copy <= copy[clip.dev]
  /\ pull.pc \in {"fetch", "copy"} => pull.from \in Devices
  /\ pull.pc = "copy" =>
       /\ pull.board <= copy[pull.from]
       /\ clip.dev = pull.from => clip.copy <= pull.board

\* One address, one follower: its adverts come in the order of the copies
\* they announce, none older than the last copy seen, and no copy behind that
\* has been reported.
OrderInv ==
  \A d \in Devices : AtHome(d) =>
    /\ \A n \in Copies : reports[d][n] <= 1
    /\ running =>
         /\ seen[d] <= copy[d]
         /\ \A n \in Copies : n > seen[d] => reports[d][n] = 0
         /\ \A a \in Addrs : Owner[a] = d /\ a # FirstAddr(d) => stream[a] = <<>>
         /\ \A i \in 1 .. Len(Home(d)) : Home(d)[i].copy \in seen[d] .. copy[d]
         /\ \A i, j \in 1 .. Len(Home(d)) : i <= j => Home(d)[i].copy <= Home(d)[j].copy

ClipInv == TypeOK /\ BoardInv /\ OrderInv
-----------------------------------------------------------------------------
\* Copies are numbers, among them those a device may make.
LEMMA CopiesAre ==
  /\ Copies \subseteq Nat /\ 0 \in Copies
  /\ \A d \in Devices, n \in Nat : n < MaxCopies[d] => n + 1 \in Copies
<1>1. Copies \subseteq Nat /\ 0 \in Copies
  BY ClipboardAssumption DEF Copies
<1>2. ASSUME NEW d \in Devices, NEW n \in Nat, n < MaxCopies[d] PROVE n + 1 \in Copies
  <2>1. n + 1 \in 0 .. MaxCopies[d]
    BY <1>2, ClipboardAssumption
  <2> QED
    BY <2>1 DEF Copies
<1> QED
  BY <1>1, <1>2

LEMMA FirstAddrOwned == \A d \in Devices : FirstAddr(d) \in Addrs /\ Owner[FirstAddr(d)] = d
BY ClipboardAssumption DEF FirstAddr

LEMMA AdvertsJoin ==
  ASSUME NEW s \in Seq(Adverts), NEW x \in Adverts
  PROVE  /\ Append(s, x) \in Seq(Adverts) /\ Len(Append(s, x)) = Len(s) + 1
         /\ \A i \in 1 .. Len(s) : Append(s, x)[i] = s[i]
         /\ Append(s, x)[Len(s) + 1] = x
OBVIOUS

LEMMA AdvertsLeave ==
  ASSUME NEW s \in Seq(Adverts), s # <<>>
  PROVE  /\ Head(s) \in Adverts /\ Head(s) = s[1] /\ Len(s) >= 1
         /\ Tail(s) \in Seq(Adverts) /\ Len(Tail(s)) = Len(s) - 1
         /\ \A i \in 1 .. Len(s) - 1 : Tail(s)[i] = s[i + 1]
OBVIOUS

LEMMA EventsMove ==
  ASSUME NEW q \in Seq(Events)
  PROVE  /\ \A e \in Events : Append(q, e) \in Seq(Events) /\ Len(Append(q, e)) = Len(q) + 1
         /\ q # <<>> => Head(q) \in Events /\ Tail(q) \in Seq(Events) /\ Len(Tail(q)) <= Len(q)
OBVIOUS

LEMMA IdleType ==
  Idle \in [pc : PullStates, event : Events \cup {NoEvent}, from : Devices \cup {NoDevice}, board : Copies]
<1>1. 0 \in Copies
  BY CopiesAre
<1> QED
  BY <1>1 DEF Idle, PullStates

\* The fields of a record of known type.
LEMMA PullType ==
  ASSUME TypeOK
  PROVE  /\ pull.from \in Devices \cup {NoDevice} /\ pull.board \in Copies
         /\ pull.event \in Events \cup {NoEvent} /\ pull.pc \in PullStates
         /\ clip.dev \in Devices \cup {NoDevice} /\ clip.copy \in Copies
BY DEF TypeOK

LEMMA ClipStart == Init => ClipInv
<1> SUFFICES ASSUME Init PROVE ClipInv
  OBVIOUS
<1>0. 0 \in Copies
  BY CopiesAre
<1>1. TypeOK
  <2>1. /\ copy \in [Devices -> Copies] /\ flag \in [Devices -> BOOLEAN] /\ label \in [Addrs -> Copies]
        /\ seen \in [Devices -> Copies] /\ begun \in [Devices -> Copies]
    BY <1>0 DEF Init
  <2>2. addr \in [Devices -> Addrs] /\ \A d \in Devices : Owner[addr[d]] = d
    BY FirstAddrOwned DEF Init
  <2>3. stream \in [Addrs -> Seq(Adverts)] /\ \A a \in Addrs : Len(stream[a]) <= StreamCap
    BY ClipboardAssumption DEF Init
  <2>4. queue \in Seq(Events) /\ Len(queue) <= QueueCap
    BY ClipboardAssumption DEF Init
  <2>5. reports \in [Devices -> [Copies -> Nat]]
    BY DEF Init
  <2>6. clip \in [dev : Devices \cup {NoDevice}, copy : Copies]
    BY <1>0 DEF Init, NoClip
  <2> QED
    BY <2>1, <2>2, <2>3, <2>4, <2>5, <2>6, IdleType DEF Init, TypeOK
<1>2. BoardInv
  BY ClipboardAssumption DEF Init, BoardInv, NoClip, Idle
<1>3. OrderInv
  <2> SUFFICES ASSUME NEW d \in Devices
               PROVE  /\ \A n \in Copies : reports[d][n] = 0
                      /\ seen[d] = 0 /\ copy[d] = 0
                      /\ \A a \in Addrs : stream[a] = <<>>
                      /\ Len(Home(d)) = 0
    BY DEF OrderInv
  <2> QED
    BY FirstAddrOwned DEF Init, Home
<1> QED
  BY <1>1, <1>2, <1>3 DEF ClipInv
-----------------------------------------------------------------------------
\* The types, step by step.

LEMMA DeviceTypes ==
  ASSUME TypeOK, NEW d \in Devices, NEW a \in Addrs,
         CopiesSomething(d) \/ StopsOffering(d) \/ Advertises(d) \/ Rotates(d, a)
  PROVE  TypeOK'
<1> USE DEF TypeOK, deviceVars, scanVars, historyVars, runVars
<1>1. CASE CopiesSomething(d)
  <2>1. copy[d] \in Copies /\ copy[d] \in Nat /\ MaxCopies[d] \in Nat
    BY CopiesAre, ClipboardAssumption
  <2>2. copy[d] + 1 \in Copies
    BY <1>1, <2>1, CopiesAre DEF CopiesSomething
  <2> QED
    BY <1>1, <2>2 DEF CopiesSomething
<1>2. CASE StopsOffering(d)
  BY <1>2 DEF StopsOffering
<1>3. CASE Advertises(d)
  <2> DEFINE h == addr[d]
             x == [copy |-> copy[d], flag |-> flag[d]]
  <2>1. h \in Addrs /\ stream[h] \in Seq(Adverts) /\ x \in Adverts
    BY DEF Adverts
  <2>2. Len(stream[h]) < StreamCap /\ StreamCap \in Nat /\ stream' = [stream EXCEPT ![h] = Append(@, x)]
    BY <1>3, ClipboardAssumption DEF Advertises
  <2> HIDE DEF h, x
  <2>3. /\ Append(stream[h], x) \in Seq(Adverts)
        /\ Len(Append(stream[h], x)) = Len(stream[h]) + 1 /\ Len(stream[h]) \in Nat
    BY <2>1, AdvertsJoin
  <2>4. Len(stream[h]) + 1 <= StreamCap
    BY <2>2, <2>3
  <2>5. stream' \in [Addrs -> Seq(Adverts)] /\ \A b \in Addrs : Len(stream'[b]) <= StreamCap
    BY <2>1, <2>2, <2>3, <2>4
  <2> QED
    BY <1>3, <2>5 DEF Advertises
<1>4. CASE Rotates(d, a)
  BY <1>4 DEF Rotates
<1> QED
  BY <1>1, <1>2, <1>3, <1>4

LEMMA HandleTypes ==
  ASSUME TypeOK, NEW a \in Addrs, HandleAdvert(a)
  PROVE  TypeOK'
<1> DEFINE d == Owner[a]
           n == Head(stream[a]).copy
<1>1. d \in Devices /\ stream[a] \in Seq(Adverts) /\ stream[a] # <<>>
  BY ClipboardAssumption DEF TypeOK, HandleAdvert
<1>2. /\ Head(stream[a]) \in Adverts /\ Tail(stream[a]) \in Seq(Adverts)
      /\ Len(stream[a]) \in Nat /\ Len(Tail(stream[a])) = Len(stream[a]) - 1
  BY <1>1, AdvertsLeave
<1>3. n \in Copies
  BY <1>2 DEF Adverts
<1>4. /\ stream' = [stream EXCEPT ![a] = Tail(@)]
      /\ \/ UNCHANGED <<seen, label, reports>>
         \/ /\ seen' = [seen EXCEPT ![d] = n]
            /\ label' = [label EXCEPT ![a] = n]
            /\ reports' = [reports EXCEPT ![d][n] = @ + 1]
      /\ UNCHANGED <<deviceVars, queue, pull, clip, runVars, historyVars>>
  BY DEF HandleAdvert, Remember
<1> HIDE DEF d, n
<1>5. stream' \in [Addrs -> Seq(Adverts)]
  BY <1>2, <1>4 DEF TypeOK
<1>6. \A b \in Addrs : Len(stream'[b]) <= StreamCap
  <2>1. StreamCap \in Nat /\ Len(Tail(stream[a])) <= StreamCap
    BY <1>2, ClipboardAssumption DEF TypeOK
  <2> QED
    BY <1>4, <2>1 DEF TypeOK
<1>7. seen' \in [Devices -> Copies] /\ label' \in [Addrs -> Copies]
  <2>1. seen \in [Devices -> Copies] /\ label \in [Addrs -> Copies]
    BY DEF TypeOK
  <2> QED
    BY <1>3, <1>4, <2>1
<1>8. reports' \in [Devices -> [Copies -> Nat]]
  <2>1. reports \in [Devices -> [Copies -> Nat]]
    BY DEF TypeOK
  <2>2. reports[d] \in [Copies -> Nat] /\ reports[d][n] \in Nat
    BY <1>1, <1>3, <2>1
  <2>3. [reports[d] EXCEPT ![n] = reports[d][n] + 1] \in [Copies -> Nat]
    <3>1. ASSUME NEW f \in [Copies -> Nat], NEW k \in Nat
          PROVE  [f EXCEPT ![n] = k] \in [Copies -> Nat]
      OBVIOUS
    <3>2. reports[d][n] + 1 \in Nat
      BY <2>2
    <3> QED
      BY <2>2, <3>1, <3>2
  <2>4. reports' = reports \/ reports' = [reports EXCEPT ![d] = [reports[d] EXCEPT ![n] = reports[d][n] + 1]]
    BY <1>1, <1>4, <2>1, <2>2
  <2> QED
    BY <2>1, <2>3, <2>4
<1> QED
  BY <1>4, <1>5, <1>6, <1>7, <1>8 DEF TypeOK, deviceVars, historyVars, runVars

LEMMA SendTypes ==
  ASSUME TypeOK, NEW a \in Addrs, SendEvent(a)
  PROVE  TypeOK'
<1> DEFINE e == [dev |-> Owner[a], addr |-> a, copy |-> label[a]]
<1>1. e \in Events /\ <<Owner[a], label[a]>> \in Devices \X Copies /\ queue \in Seq(Events)
  BY ClipboardAssumption DEF TypeOK, Events
<1>2. label' \in [Addrs -> Copies]
  BY CopiesAre DEF TypeOK, SendEvent
<1>3. /\ \/ HasRoom /\ queue' = Append(queue, e)
         \/ queue' = queue
      /\ \/ crowded' = crowded
         \/ crowded' = crowded \cup {<<Owner[a], label[a]>>}
      /\ UNCHANGED <<deviceVars, stream, seen, reports, pull, clip, runVars, begun>>
  BY DEF SendEvent
<1> HIDE DEF e
<1>4. queue' \in Seq(Events) /\ Len(queue') <= QueueCap
  <2>1. CASE HasRoom /\ queue' = Append(queue, e)
    <3>1. /\ Append(queue, e) \in Seq(Events) /\ Len(Append(queue, e)) = Len(queue) + 1
          /\ Len(queue) \in Nat
      BY <1>1, EventsMove
    <3>2. Len(queue) < QueueCap /\ QueueCap \in Nat
      BY <2>1, ClipboardAssumption DEF HasRoom
    <3>3. Len(queue) + 1 <= QueueCap
      BY <3>1, <3>2
    <3> QED
      BY <2>1, <3>1, <3>3
  <2>2. CASE queue' = queue
    BY <2>2 DEF TypeOK
  <2> QED
    BY <1>3, <2>1, <2>2
<1>5. crowded' \subseteq Devices \X Copies
  BY <1>1, <1>3 DEF TypeOK
<1> QED
  BY <1>2, <1>3, <1>4, <1>5 DEF TypeOK, deviceVars, runVars

LEMMA LoopTypes ==
  ASSUME TypeOK, BoardInv, ReceiveEvent \/ PullStep
  PROVE  TypeOK'
<1> USE DEF TypeOK, deviceVars, scanVars, historyVars, runVars
<1>1. CASE ReceiveEvent
  <2>1. Head(queue) \in Events /\ Tail(queue) \in Seq(Events) /\ Len(Tail(queue)) <= Len(queue)
    BY <1>1, EventsMove DEF ReceiveEvent
  <2>2. Len(Tail(queue)) <= QueueCap
    <3>1. Len(Tail(queue)) \in Nat
      BY <2>1
    <3>2. Len(queue) \in Nat /\ Len(queue) <= QueueCap
      OBVIOUS
    <3>3. QueueCap \in Nat
      BY ClipboardAssumption
    <3> QED
      BY <2>1, <3>1, <3>2, <3>3
  <2>3. pull' \in [pc : PullStates, event : Events \cup {NoEvent},
                   from : Devices \cup {NoDevice}, board : Copies]
    BY <1>1, <2>1, CopiesAre DEF ReceiveEvent, PullStates
  <2>4. begun' \in [Devices -> Copies]
    <3>1. Head(queue).dev \in Devices
      BY <2>1 DEF Events
    <3> QED
      BY <1>1, <3>1 DEF ReceiveEvent
  <2> QED
    BY <1>1, <2>1, <2>2, <2>3, <2>4 DEF ReceiveEvent
<1>2. CASE Resolve
  <2>1. pull' \in [pc : PullStates, event : Events \cup {NoEvent},
                   from : Devices \cup {NoDevice}, board : Copies]
    BY <1>2 DEF Resolve, PullStates
  <2> QED
    BY <1>2, <2>1 DEF Resolve
<1>3. CASE FetchPasteboard
  <2>1. Board \in Copies
    BY <1>3 DEF FetchPasteboard, Board, BoardInv, At
  <2>2. pull' \in [pc : PullStates, event : Events \cup {NoEvent},
                   from : Devices \cup {NoDevice}, board : Copies]
    BY <1>3, <2>1 DEF FetchPasteboard, PullStates
  <2> QED
    BY <1>3, <2>2 DEF FetchPasteboard
<1>4. CASE CopyPasteboard
  <2>1. pull' \in [pc : PullStates, event : Events \cup {NoEvent},
                   from : Devices \cup {NoDevice}, board : Copies]
    BY <1>4, IdleType DEF CopyPasteboard, PullStates
  <2>2. clip' \in [dev : Devices \cup {NoDevice}, copy : Copies]
    BY <1>4, PullType DEF CopyPasteboard
  <2> QED
    BY <1>4, <2>1, <2>2 DEF CopyPasteboard
<1>5. CASE NotifyEnds \/ PullFails
  BY <1>5, IdleType DEF NotifyEnds, PullFails
<1> QED
  BY <1>1, <1>2, <1>3, <1>4, <1>5 DEF PullStep

LEMMA ShutdownTypes == TypeOK /\ Shutdown => TypeOK'
<1> SUFFICES ASSUME TypeOK, Shutdown PROVE TypeOK'
  OBVIOUS
<1>1. /\ 0 \in Copies
      /\ StreamCap \in Nat /\ QueueCap \in Nat
  BY CopiesAre, ClipboardAssumption
<1>2. stream' \in [Addrs -> Seq(Adverts)] /\ \A a \in Addrs : Len(stream'[a]) <= StreamCap
  BY <1>1 DEF Shutdown
<1>3. label' \in [Addrs -> Copies] /\ seen' \in [Devices -> Copies]
  BY <1>1 DEF Shutdown
<1>4. queue' \in Seq(Events) /\ Len(queue') <= QueueCap
  BY <1>1 DEF Shutdown
<1> QED
  BY <1>2, <1>3, <1>4, IdleType DEF TypeOK, Shutdown, deviceVars, historyVars
-----------------------------------------------------------------------------
\* The clipboard and the board under way.

\* Copies only grow, and what pull and clipboard hold stays.
LEMMA BoardStays ==
  ASSUME TypeOK, BoardInv, UNCHANGED <<pull, clip>>,
         \A d \in Devices : copy'[d] \in Nat /\ copy'[d] >= copy[d]
  PROVE  BoardInv'
<1>1. \A d \in Devices : copy[d] \in Nat
  BY CopiesAre DEF TypeOK
<1>2. clip.copy \in Nat /\ pull.board \in Nat
  BY PullType, CopiesAre
<1>3. clip'.dev \in Devices => clip'.copy <= copy'[clip'.dev]
  BY <1>1, <1>2 DEF BoardInv
<1>4. pull'.pc = "copy" => pull'.board <= copy'[pull'.from]
  BY <1>1, <1>2 DEF BoardInv
<1> QED
  BY <1>3, <1>4 DEF BoardInv

LEMMA CopiesGrow ==
  ASSUME TypeOK, NEW d \in Devices, NEW a \in Addrs,
         CopiesSomething(d) \/ StopsOffering(d) \/ Advertises(d) \/ Rotates(d, a)
  PROVE  \A e \in Devices : copy[e] \in Nat /\ copy'[e] \in Nat /\ copy'[e] >= copy[e]
<1>1. \A e \in Devices : copy[e] \in Nat
  BY CopiesAre DEF TypeOK
<1>2. copy' = copy \/ copy' = [copy EXCEPT ![d] = copy[d] + 1]
  BY DEF CopiesSomething, StopsOffering, Advertises, Rotates, deviceVars
<1>3. \A e \in Devices : copy'[e] = copy[e] \/ copy'[e] = copy[e] + 1
  BY <1>2 DEF TypeOK
<1> QED
  BY <1>1, <1>3

LEMMA PullBoard ==
  ASSUME TypeOK, BoardInv, ReceiveEvent \/ PullStep
  PROVE  /\ BoardInv'
         /\ clip'.dev = clip.dev => clip'.copy >= clip.copy
<1>0. /\ clip.copy \in Nat /\ pull.board \in Nat
      /\ \A d \in Devices : copy[d] \in Nat
  BY PullType, CopiesAre DEF TypeOK
<1>1. copy' = copy
  BY DEF ReceiveEvent, PullStep, Resolve, FetchPasteboard, CopyPasteboard, NotifyEnds, PullFails, deviceVars
<1>2. CASE ReceiveEvent \/ NotifyEnds \/ PullFails
  <2>1. clip' = clip /\ pull'.pc \in {"idle", "resolve"}
    BY <1>2 DEF ReceiveEvent, NotifyEnds, PullFails, Idle
  <2> QED
    BY <1>0, <1>1, <2>1 DEF BoardInv
<1>3. CASE Resolve
  <2>1. clip' = clip /\ pull'.pc = "fetch" /\ pull'.from \in Devices
    BY <1>3 DEF Resolve, TypeOK
  <2> QED
    BY <1>0, <1>1, <2>1 DEF BoardInv
<1>4. CASE FetchPasteboard
  <2>1. clip' = clip /\ pull'.pc = "copy" /\ pull'.from = pull.from /\ pull'.board = copy[pull.from]
    BY <1>4 DEF FetchPasteboard, Board, TypeOK
  <2>2. pull.from \in Devices
    BY <1>4 DEF FetchPasteboard, At, BoardInv
  <2> QED
    BY <1>0, <1>1, <2>1, <2>2 DEF BoardInv
<1>5. CASE CopyPasteboard
  <2>1. /\ \/ clip' = clip
           \/ clip' = [dev |-> pull.from, copy |-> pull.board]
        /\ pull'.pc \in {"idle", "notify"}
    BY <1>5 DEF CopyPasteboard, Idle, TypeOK
  <2>2. /\ pull.from \in Devices /\ pull.board <= copy[pull.from]
        /\ clip.dev = pull.from => clip.copy <= pull.board
    BY <1>5 DEF CopyPasteboard, At, BoardInv
  <2> QED
    BY <1>0, <1>1, <2>1, <2>2 DEF BoardInv
<1> QED
  BY <1>2, <1>3, <1>4, <1>5 DEF PullStep
-----------------------------------------------------------------------------
\* The order of the adverts at one address.

\* What OrderInv says of one device.
InOrder(d) ==
  /\ \A n \in Copies : reports[d][n] <= 1
  /\ running =>
       /\ seen[d] <= copy[d]
       /\ \A n \in Copies : n > seen[d] => reports[d][n] = 0
       /\ \A a \in Addrs : Owner[a] = d /\ a # FirstAddr(d) => stream[a] = <<>>
       /\ \A i \in 1 .. Len(Home(d)) : Home(d)[i].copy \in seen[d] .. copy[d]
       /\ \A i, j \in 1 .. Len(Home(d)) : i <= j => Home(d)[i].copy <= Home(d)[j].copy

LEMMA OrderByDevice == OrderInv <=> \A d \in Devices : AtHome(d) => InOrder(d)
BY DEF OrderInv, InOrder

\* The types of what InOrder speaks of.
LEMMA OrderType ==
  ASSUME TypeOK, NEW d \in Devices
  PROVE  /\ seen[d] \in Nat /\ copy[d] \in Nat
         /\ \A n \in Copies : n \in Nat /\ reports[d][n] \in Nat
         /\ FirstAddr(d) \in Addrs /\ Owner[FirstAddr(d)] = d
         /\ Home(d) \in Seq(Adverts) /\ Len(Home(d)) \in Nat
         /\ \A i \in 1 .. Len(Home(d)) : Home(d)[i].copy \in Nat
<1>1. seen[d] \in Nat /\ copy[d] \in Nat
  BY CopiesAre DEF TypeOK
<1>2. \A n \in Copies : n \in Nat /\ reports[d][n] \in Nat
  BY CopiesAre DEF TypeOK
<1>3. FirstAddr(d) \in Addrs /\ Owner[FirstAddr(d)] = d
  BY FirstAddrOwned
<1>4. Home(d) \in Seq(Adverts) /\ Len(Home(d)) \in Nat
  BY <1>3 DEF Home, TypeOK
<1>5. \A i \in 1 .. Len(Home(d)) : Home(d)[i].copy \in Nat
  <2> SUFFICES ASSUME NEW i \in 1 .. Len(Home(d)) PROVE Home(d)[i].copy \in Nat
    OBVIOUS
  <2>1. Home(d)[i] \in Adverts
    BY <1>4
  <2> QED
    BY <2>1, CopiesAre DEF Adverts
<1> QED
  BY <1>1, <1>2, <1>3, <1>4, <1>5

\* Copies grow, addresses change, the rest stays.
LEMMA OrderStays ==
  ASSUME TypeOK, OrderInv, UNCHANGED <<stream, seen, reports>>,
         running' => running,
         \A d \in Devices : addr'[d] = addr[d] \/ addr'[d] # FirstAddr(d),
         \A d \in Devices : copy'[d] \in Nat /\ copy'[d] >= copy[d]
  PROVE  OrderInv'
<1> SUFFICES ASSUME NEW d \in Devices, AtHome(d)'
             PROVE  InOrder(d)'
  BY OrderByDevice DEF OrderInv, InOrder
<1>1. AtHome(d) /\ InOrder(d)
  BY OrderByDevice DEF AtHome, FirstAddr
<1>2. Home(d)' = Home(d) /\ FirstAddr(d)' = FirstAddr(d)
  BY DEF Home, FirstAddr
<1>3. /\ seen[d] \in Nat /\ copy[d] \in Nat /\ copy'[d] \in Nat /\ copy'[d] >= copy[d]
      /\ Len(Home(d)) \in Nat
      /\ \A i \in 1 .. Len(Home(d)) : Home(d)[i].copy \in Nat
  BY OrderType
<1>4. running' => seen'[d] <= copy'[d]
  BY <1>1, <1>3 DEF InOrder
<1>5. running' => \A i \in 1 .. Len(Home(d)) : Home(d)[i].copy \in seen[d] .. copy'[d]
  BY <1>1, <1>3 DEF InOrder
<1> QED
  BY <1>1, <1>2, <1>4, <1>5 DEF InOrder

\* An advert announces the latest copy, behind those under way.
LEMMA AdvertOrder ==
  ASSUME TypeOK, OrderInv, NEW e \in Devices, Advertises(e)
  PROVE  OrderInv'
<1> SUFFICES ASSUME NEW d \in Devices, AtHome(d)'
             PROVE  InOrder(d)'
  BY OrderByDevice DEF OrderInv, InOrder
<1> DEFINE x == [copy |-> copy[e], flag |-> flag[e]]
           s == Home(d)
<1>1. /\ stream' = [stream EXCEPT ![addr[e]] = Append(@, x)]
      /\ UNCHANGED <<copy, addr, flag, seen, reports, running>>
  BY DEF Advertises, deviceVars, runVars
<1>2. AtHome(d) /\ InOrder(d)
  BY <1>1, OrderByDevice DEF AtHome, FirstAddr
<1>3. /\ addr[e] \in Addrs /\ Owner[addr[e]] = e
      /\ x \in Adverts /\ x.copy = copy[e]
  BY DEF TypeOK, Adverts
<1>4. /\ seen[d] \in Nat /\ copy[d] \in Nat /\ FirstAddr(d) \in Addrs /\ Owner[FirstAddr(d)] = d
      /\ s \in Seq(Adverts) /\ Len(s) \in Nat
      /\ \A i \in 1 .. Len(s) : s[i].copy \in Nat
  BY OrderType
<1>5. FirstAddr(d)' = FirstAddr(d)
  BY DEF FirstAddr
<1>6. CASE e = d
  <2>1. addr[e] = FirstAddr(d)
    BY <1>2, <1>6 DEF AtHome
  <2>2. Home(d)' = Append(s, x)
    BY <1>1, <1>4, <1>5, <2>1 DEF Home, TypeOK
  <2>3. \A a \in Addrs : a # FirstAddr(d) => stream'[a] = stream[a]
    BY <1>1, <2>1 DEF TypeOK
  <2> HIDE DEF x, s
  <2>4. /\ Append(s, x) \in Seq(Adverts) /\ Len(Append(s, x)) = Len(s) + 1
        /\ \A i \in 1 .. Len(s) : Append(s, x)[i] = s[i]
        /\ Append(s, x)[Len(s) + 1] = x
    BY <1>3, <1>4, AdvertsJoin
  <2>5. SUFFICES ASSUME running
        PROVE  /\ \A i \in 1 .. Len(s) + 1 : Append(s, x)[i].copy \in seen[d] .. copy[d]
               /\ \A i, j \in 1 .. Len(s) + 1 :
                    i <= j => Append(s, x)[i].copy <= Append(s, x)[j].copy
    BY <1>1, <1>2, <1>5, <2>2, <2>3, <2>4 DEF InOrder
  <2>6. /\ seen[d] <= copy[d]
        /\ \A i \in 1 .. Len(s) : s[i].copy \in seen[d] .. copy[d]
        /\ \A i, j \in 1 .. Len(s) : i <= j => s[i].copy <= s[j].copy
    BY <1>2, <2>5 DEF InOrder, s
  <2>7. \A i \in 1 .. Len(s) + 1 : i \in 1 .. Len(s) \/ i = Len(s) + 1
    BY <1>4
  <2>8. x.copy = copy[d]
    BY <1>3, <1>6
  <2>9. \A i \in 1 .. Len(s) + 1 : Append(s, x)[i].copy \in seen[d] .. copy[d]
    BY <1>4, <2>4, <2>6, <2>7, <2>8
  <2>10. ASSUME NEW i \in 1 .. Len(s) + 1, NEW j \in 1 .. Len(s) + 1, i <= j
         PROVE  Append(s, x)[i].copy <= Append(s, x)[j].copy
    <3>1. CASE j = Len(s) + 1
      <4>1. Append(s, x)[j].copy = copy[d]
        BY <2>4, <2>8, <3>1
      <4>2. Append(s, x)[i].copy \in seen[d] .. copy[d]
        BY <2>9
      <4> QED
        BY <1>4, <4>1, <4>2
    <3>2. CASE j # Len(s) + 1
      <4>1. i \in 1 .. Len(s) /\ j \in 1 .. Len(s)
        BY <1>4, <2>10, <3>2
      <4> QED
        BY <2>4, <2>6, <2>10, <4>1
    <3> QED
      BY <3>1, <3>2
  <2> QED
    BY <2>9, <2>10
<1>7. CASE e # d
  <2>1. \A a \in Addrs : Owner[a] = d => stream'[a] = stream[a]
    BY <1>1, <1>3, <1>7 DEF TypeOK
  <2>2. Home(d)' = Home(d)
    BY <1>4, <1>5, <2>1 DEF Home
  <2> HIDE DEF x, s
  <2> QED
    BY <1>1, <1>2, <1>5, <2>1, <2>2 DEF InOrder
<1> QED
  BY <1>6, <1>7

\* A follower reports the first advert of its address if it is a new copy.
LEMMA HandleOrder ==
  ASSUME TypeOK, OrderInv, NEW b \in Addrs, HandleAdvert(b)
  PROVE  OrderInv'
<1> SUFFICES ASSUME NEW d \in Devices, AtHome(d)'
             PROVE  InOrder(d)'
  BY OrderByDevice DEF OrderInv, InOrder
<1> DEFINE e == Owner[b]
           n == Head(stream[b]).copy
           s == Home(d)
<1>1. /\ running /\ stream[b] # <<>>
      /\ stream' = [stream EXCEPT ![b] = Tail(@)]
      /\ \/ UNCHANGED <<seen, reports>>
         \/ /\ seen[e] # n
            /\ seen' = [seen EXCEPT ![e] = n]
            /\ reports' = [reports EXCEPT ![e][n] = @ + 1]
      /\ UNCHANGED <<copy, addr, running>>
  BY DEF HandleAdvert, Remember, deviceVars, runVars
<1>2. AtHome(d) /\ InOrder(d)
  BY <1>1, OrderByDevice DEF AtHome, FirstAddr
<1>3. /\ seen[d] \in Nat /\ copy[d] \in Nat /\ FirstAddr(d) \in Addrs /\ Owner[FirstAddr(d)] = d
      /\ s \in Seq(Adverts) /\ Len(s) \in Nat
      /\ \A i \in 1 .. Len(s) : s[i].copy \in Nat
      /\ \A k \in Copies : k \in Nat /\ reports[d][k] \in Nat
  BY OrderType
<1>4. FirstAddr(d)' = FirstAddr(d)
  BY DEF FirstAddr
<1>5. e \in Devices /\ n \in Copies
  <2>1. e \in Devices /\ stream[b] \in Seq(Adverts)
    BY ClipboardAssumption DEF TypeOK
  <2>2. Head(stream[b]) \in Adverts
    BY <1>1, <2>1, AdvertsLeave
  <2> QED
    BY <2>1, <2>2 DEF Adverts
<1>6. CASE e = d
  <2>1. b = FirstAddr(d)
    BY <1>1, <1>2, <1>6 DEF InOrder
  <2>2. stream[b] = s /\ Home(d)' = Tail(s) /\ s # <<>> /\ n = Head(s).copy
    BY <1>1, <1>3, <1>4, <2>1 DEF Home, TypeOK
  <2>3. \A a \in Addrs : a # FirstAddr(d) => stream'[a] = stream[a]
    BY <1>1, <2>1 DEF TypeOK
  <2> HIDE DEF s, n, e
  <2>4. /\ Head(s) = s[1] /\ Len(s) >= 1 /\ Len(Tail(s)) = Len(s) - 1
        /\ \A i \in 1 .. Len(s) - 1 : Tail(s)[i] = s[i + 1]
    BY <1>3, <2>2, AdvertsLeave
  <2>5. /\ seen[d] <= copy[d]
        /\ \A k \in Copies : reports[d][k] <= 1
        /\ \A k \in Copies : k > seen[d] => reports[d][k] = 0
        /\ \A a \in Addrs : Owner[a] = d /\ a # FirstAddr(d) => stream[a] = <<>>
        /\ \A i \in 1 .. Len(s) : s[i].copy \in seen[d] .. copy[d]
        /\ \A i, j \in 1 .. Len(s) : i <= j => s[i].copy <= s[j].copy
    BY <1>1, <1>2 DEF InOrder, s
  <2>6. n = s[1].copy /\ n \in seen[d] .. copy[d] /\ n \in Nat /\ 1 \in 1 .. Len(s)
    BY <1>3, <2>2, <2>4, <2>5
  <2>7. \A i \in 1 .. Len(s) - 1 : i + 1 \in 1 .. Len(s) /\ 1 <= i + 1
    BY <1>3, <2>4
  <2>8. \A i \in 1 .. Len(s) - 1 : Tail(s)[i].copy \in n .. copy[d]
    <3> SUFFICES ASSUME NEW i \in 1 .. Len(s) - 1 PROVE Tail(s)[i].copy \in n .. copy[d]
      OBVIOUS
    <3>1. i + 1 \in 1 .. Len(s) /\ 1 <= i + 1 /\ Tail(s)[i] = s[i + 1]
      BY <2>4, <2>7
    <3>2. s[1].copy <= s[i + 1].copy /\ s[i + 1].copy \in seen[d] .. copy[d]
      BY <2>5, <2>6, <3>1
    <3> QED
      BY <1>3, <2>6, <3>1, <3>2
  <2>9. \A i, j \in 1 .. Len(s) - 1 : i <= j => Tail(s)[i].copy <= Tail(s)[j].copy
    <3> SUFFICES ASSUME NEW i \in 1 .. Len(s) - 1, NEW j \in 1 .. Len(s) - 1, i <= j
                 PROVE  Tail(s)[i].copy <= Tail(s)[j].copy
      OBVIOUS
    <3>1. i + 1 \in 1 .. Len(s) /\ j + 1 \in 1 .. Len(s) /\ i + 1 <= j + 1
      BY <2>7
    <3>2. s[i + 1].copy <= s[j + 1].copy
      BY <2>5, <3>1
    <3> QED
      BY <2>4, <3>2
  <2>10. seen'[d] \in {seen[d], n} /\ seen'[d] \in Nat /\ seen'[d] <= n /\ seen'[d] <= copy[d]
    <3>1. seen'[d] \in {seen[d], n}
      BY <1>1, <1>6 DEF TypeOK
    <3> QED
      BY <1>3, <2>5, <2>6, <3>1
  <2>11. /\ \A k \in Copies : reports'[d][k] <= 1
         /\ \A k \in Copies : k > seen'[d] => reports'[d][k] = 0
    <3>1. CASE UNCHANGED <<seen, reports>>
      BY <2>5, <3>1
    <3>2. CASE /\ seen[e] # n
               /\ seen' = [seen EXCEPT ![e] = n]
               /\ reports' = [reports EXCEPT ![e][n] = @ + 1]
      <4>1. seen'[d] = n /\ n > seen[d]
        <5>1. seen'[d] = n /\ seen[d] # n
          BY <1>6, <3>2 DEF TypeOK
        <5> QED
          BY <1>3, <2>6, <5>1
      <4>2. /\ reports'[d][n] = reports[d][n] + 1
            /\ \A k \in Copies : k # n => reports'[d][k] = reports[d][k]
        BY <1>5, <1>6, <3>2 DEF TypeOK
      <4>3. reports[d][n] = 0
        BY <1>5, <2>5, <4>1
      <4>4. \A k \in Copies : reports'[d][k] <= 1
        BY <2>5, <4>2, <4>3
      <4>5. ASSUME NEW k \in Copies, k > seen'[d] PROVE reports'[d][k] = 0
        <5>1. k \in Nat /\ k # n /\ k > seen[d]
          BY <1>3, <2>6, <4>1, <4>5
        <5> QED
          BY <2>5, <4>2, <5>1
      <4> QED
        BY <4>4, <4>5
    <3> QED
      BY <1>1, <3>1, <3>2
  <2>12. \A i \in 1 .. Len(s) - 1 : Tail(s)[i].copy \in seen'[d] .. copy[d]
    BY <1>3, <2>6, <2>8, <2>10
  <2> QED
    BY <1>1, <1>4, <2>2, <2>3, <2>4, <2>5, <2>9, <2>10, <2>11, <2>12 DEF InOrder
<1>7. CASE e # d
  <2>1. \A a \in Addrs : Owner[a] = d => stream'[a] = stream[a]
    BY <1>1, <1>7 DEF TypeOK
  <2>2. Home(d)' = Home(d)
    BY <1>3, <1>4, <2>1 DEF Home
  <2>3. seen'[d] = seen[d] /\ reports'[d] = reports[d]
    BY <1>1, <1>7 DEF TypeOK
  <2> HIDE DEF e, n, s
  <2> QED
    BY <1>1, <1>2, <1>4, <2>1, <2>2, <2>3 DEF InOrder
<1> QED
  BY <1>6, <1>7

\* Behind a shutdown nothing is handled.
LEMMA ShutdownOrder == OrderInv /\ Shutdown => OrderInv'
BY DEF OrderInv, Shutdown, AtHome, FirstAddr, deviceVars
-----------------------------------------------------------------------------
LEMMA ClipStep ==
  ASSUME ClipInv, [Next]_vars
  PROVE  /\ ClipInv'
         /\ clip'.dev = clip.dev => clip'.copy >= clip.copy
<1>0. TypeOK /\ BoardInv /\ OrderInv /\ clip.copy \in Nat
  BY PullType, CopiesAre DEF ClipInv
<1>1. ASSUME NEW d \in Devices, NEW a \in Addrs,
             CopiesSomething(d) \/ StopsOffering(d) \/ Advertises(d) \/ Rotates(d, a)
      PROVE  ClipInv' /\ clip' = clip
  <2>1. TypeOK'
    BY <1>0, <1>1, DeviceTypes
  <2>2. UNCHANGED <<pull, clip, running>>
    BY <1>1 DEF CopiesSomething, StopsOffering, Advertises, Rotates, runVars
  <2>3. \A e \in Devices : copy'[e] \in Nat /\ copy'[e] >= copy[e]
    BY <1>0, <1>1, CopiesGrow
  <2>4. BoardInv'
    BY <1>0, <2>2, <2>3, BoardStays
  <2>5. OrderInv'
    <3>1. CASE Advertises(d)
      BY <1>0, <3>1, AdvertOrder
    <3>2. CASE CopiesSomething(d) \/ StopsOffering(d) \/ Rotates(d, a)
      <4>1. UNCHANGED <<stream, seen, reports>>
        BY <3>2 DEF CopiesSomething, StopsOffering, Rotates, scanVars
      <4>2. \A e \in Devices : addr'[e] = addr[e] \/ addr'[e] # FirstAddr(e)
        BY <1>0, <3>2 DEF CopiesSomething, StopsOffering, Rotates, TypeOK
      <4> QED
        BY <1>0, <2>2, <2>3, <4>1, <4>2, OrderStays
    <3> QED
      BY <1>1, <3>1, <3>2
  <2> QED
    BY <2>1, <2>2, <2>4, <2>5 DEF ClipInv
<1>2. \A d \in Devices : copy[d] \in Nat
  BY <1>0, CopiesAre DEF TypeOK
<1>3. ASSUME NEW a \in Addrs, HandleAdvert(a)
      PROVE  ClipInv' /\ clip' = clip
  <2>1. UNCHANGED <<pull, clip, copy>>
    BY <1>3 DEF HandleAdvert, deviceVars
  <2>2. \A d \in Devices : copy'[d] \in Nat /\ copy'[d] >= copy[d]
    BY <1>2, <2>1
  <2> QED
    BY <1>0, <1>3, <2>1, <2>2, HandleTypes, HandleOrder, BoardStays DEF ClipInv
<1>4. ASSUME NEW a \in Addrs, SendEvent(a)
      PROVE  ClipInv' /\ clip' = clip
  <2>1. UNCHANGED <<pull, clip, copy, addr, stream, seen, reports, running>>
    BY <1>4 DEF SendEvent, deviceVars, runVars
  <2>2. \A d \in Devices : copy'[d] \in Nat /\ copy'[d] >= copy[d]
    BY <1>2, <2>1
  <2> QED
    BY <1>0, <1>4, <2>1, <2>2, SendTypes, OrderStays, BoardStays DEF ClipInv
<1>5. CASE ReceiveEvent \/ PullStep
  <2>1. UNCHANGED <<copy, addr, stream, seen, reports, running>>
    BY <1>5 DEF ReceiveEvent, PullStep, Resolve, FetchPasteboard, CopyPasteboard, NotifyEnds, PullFails,
                deviceVars, scanVars, runVars
  <2>2. \A d \in Devices : copy'[d] \in Nat /\ copy'[d] >= copy[d]
    BY <1>2, <2>1
  <2> QED
    BY <1>0, <1>5, <2>1, <2>2, LoopTypes, PullBoard, OrderStays DEF ClipInv
<1>6. CASE Shutdown
  <2>1. clip' = clip /\ copy' = copy /\ pull'.pc = "idle"
    BY <1>6 DEF Shutdown, deviceVars, Idle
  <2>2. BoardInv'
    BY <1>0, <2>1 DEF BoardInv
  <2> QED
    BY <1>0, <1>6, <2>1, <2>2, ShutdownTypes, ShutdownOrder DEF ClipInv
<1>7. CASE UNCHANGED vars
  <2>1. UNCHANGED <<copy, addr, stream, seen, reports, running, pull, clip>>
    BY <1>7 DEF vars, deviceVars, scanVars, runVars
  <2>2. \A d \in Devices : copy'[d] \in Nat /\ copy'[d] >= copy[d]
    BY <1>2, <2>1
  <2>3. TypeOK'
    BY <1>0, <1>7 DEF TypeOK, vars, deviceVars, scanVars, runVars, historyVars
  <2> QED
    BY <1>0, <2>1, <2>2, <2>3, OrderStays, BoardStays DEF ClipInv
<1> QED
  <2>1. ASSUME NEW d \in Devices, CopiesSomething(d) \/ StopsOffering(d) \/ Advertises(d)
        PROVE  ClipInv' /\ clip' = clip
    BY <1>1, <2>1, FirstAddrOwned
  <2> QED
    BY <1>0, <1>1, <2>1, <1>3, <1>4, <1>5, <1>6, <1>7 DEF Next, vars

THEOREM ClipInvariant == Spec => []ClipInv
BY ClipStart, ClipStep, PTL DEF Spec

\* While a device keeps its address no copy of it is reported twice (the
\* SeenMap in handle, src/src/scan.rs), for any number of devices and copies.
THEOREM CopiesReportedOnce == Spec => []ReportedOnce
<1>1. ClipInv => ReportedOnce
  BY DEF ClipInv, OrderInv, ReportedOnce, AtHome
<1> QED
  BY <1>1, ClipInvariant, PTL

\* The clipboard never goes back to an older copy of a device, in whatever
\* order the events are queued (the loop of src/src/orchestrate.rs).
THEOREM ClipboardNeverGoesBack == Spec => NeverGoesBack
<1>1. ClipInv /\ [Next]_vars => [clip'.dev = clip.dev => clip'.copy >= clip.copy]_vars
  BY ClipStep
<1> QED
  BY <1>1, ClipInvariant, PTL DEF Spec, NeverGoesBack
-----------------------------------------------------------------------------
(* A copy that was reported is on its way to the loop, or has been tried.  *)

\* A follower is to send an event of this copy, or any event of the device is
\* queued: the pull that this one starts finds the copy, or a later one.
Queued(d) == \E i \in 1 .. Len(queue) : queue[i].dev = d
OnItsWay(d, n) == (\E a \in Addrs : Owner[a] = d /\ label[a] = n) \/ Queued(d)
Accounted(d, n) == begun[d] >= n \/ <<d, n>> \in crowded \/ OnItsWay(d, n)

CopiesAccounted ==
  running => \A d \in Devices, n \in Copies \ {0} : reports[d][n] > 0 => Accounted(d, n)

\* What was advertised or reported had been copied before.
AdvertsKnown ==
  running =>
    /\ \A a \in Addrs : \A i \in 1 .. Len(stream[a]) : stream[a][i].copy <= copy[Owner[a]]
    /\ \A d \in Devices, n \in Copies : reports[d][n] > 0 => n <= copy[d]

WayInv == CopiesAccounted /\ AdvertsKnown

LEMMA WayStart == Init => WayInv
<1> SUFFICES ASSUME Init PROVE WayInv
  OBVIOUS
<1>1. \A d \in Devices, n \in Copies : reports[d][n] = 0
  BY DEF Init
<1>2. \A a \in Addrs : Len(stream[a]) = 0
  BY DEF Init
<1> QED
  BY <1>1, <1>2 DEF WayInv, CopiesAccounted, AdvertsKnown

LEMMA AccountedStays ==
  ASSUME UNCHANGED <<queue, label, begun, crowded>>, NEW d \in Devices, NEW n, Accounted(d, n)
  PROVE  Accounted(d, n)'
BY DEF Accounted, OnItsWay, Queued

\* Steps of the devices.
LEMMA DeviceWay ==
  ASSUME TypeOK, WayInv, NEW d \in Devices, NEW b \in Addrs,
         CopiesSomething(d) \/ StopsOffering(d) \/ Advertises(d) \/ Rotates(d, b)
  PROVE  WayInv'
<1>1. /\ UNCHANGED <<queue, label, begun, crowded, reports, running>>
      /\ \/ stream' = stream
         \/ /\ stream' = [stream EXCEPT ![addr[d]] = Append(@, [copy |-> copy[d], flag |-> flag[d]])]
            /\ copy' = copy
  BY DEF CopiesSomething, StopsOffering, Advertises, Rotates, scanVars, historyVars, runVars, deviceVars
<1>2. CopiesAccounted'
  BY <1>1, AccountedStays DEF WayInv, CopiesAccounted
<1>3. \A e \in Devices : copy[e] \in Nat /\ copy'[e] \in Nat /\ copy'[e] >= copy[e]
  BY CopiesGrow
<1>4. ASSUME running, NEW a \in Addrs, NEW i \in 1 .. Len(stream'[a])
      PROVE  stream'[a][i].copy <= copy'[Owner[a]]
  <2> DEFINE x == [copy |-> copy[d], flag |-> flag[d]]
  <2>1. /\ stream[a] \in Seq(Adverts) /\ x \in Adverts /\ addr[d] \in Addrs /\ Owner[addr[d]] = d
        /\ Owner[a] \in Devices
    BY ClipboardAssumption DEF TypeOK, Adverts
  <2>2. x.copy = copy[d]
    OBVIOUS
  <2> HIDE DEF x
  <2>3. /\ Append(stream[a], x) \in Seq(Adverts) /\ Len(Append(stream[a], x)) = Len(stream[a]) + 1
        /\ \A j \in 1 .. Len(stream[a]) : Append(stream[a], x)[j] = stream[a][j]
        /\ Append(stream[a], x)[Len(stream[a]) + 1] = x
    BY <2>1, AdvertsJoin
  <2>4. ASSUME NEW j \in 1 .. Len(stream[a]) PROVE stream[a][j].copy <= copy'[Owner[a]]
    <3>1. stream[a][j].copy <= copy[Owner[a]]
      BY <1>4, <2>4 DEF WayInv, AdvertsKnown
    <3>2. stream[a][j].copy \in Nat
      <4>1. stream[a][j] \in Adverts
        BY <2>1
      <4> QED
        BY <4>1, CopiesAre DEF Adverts
    <3> QED
      BY <1>3, <2>1, <3>1, <3>2
  <2>5. CASE stream'[a] = stream[a]
    BY <2>4, <2>5
  <2>6. CASE stream'[a] # stream[a]
    <3>1. a = addr[d] /\ stream'[a] = Append(stream[a], x) /\ copy' = copy
      <4>1. /\ stream' = [stream EXCEPT ![addr[d]] = Append(stream[addr[d]], x)]
            /\ copy' = copy
        BY <1>1, <2>6 DEF x
      <4>2. stream \in [Addrs -> Seq(Adverts)]
        BY DEF TypeOK
      <4> QED
        BY <2>6, <4>1, <4>2
    <3>2. i \in 1 .. Len(stream[a]) + 1 /\ Len(stream[a]) \in Nat
      BY <2>1, <2>3, <3>1
    <3>3. CASE i = Len(stream[a]) + 1
      BY <1>3, <2>1, <2>2, <2>3, <3>1, <3>3
    <3>4. CASE i # Len(stream[a]) + 1
      <4>1. i \in 1 .. Len(stream[a])
        BY <3>2, <3>4
      <4> QED
        BY <2>3, <2>4, <3>1, <4>1
    <3> QED
      BY <3>3, <3>4
  <2> QED
    BY <2>5, <2>6
<1>5. ASSUME running, NEW e \in Devices, NEW n \in Copies, reports'[e][n] > 0
      PROVE  n <= copy'[e]
  <2>1. n <= copy[e] /\ n \in Nat
    BY <1>1, <1>5, CopiesAre DEF WayInv, AdvertsKnown
  <2> QED
    BY <1>3, <2>1
<1> QED
  BY <1>1, <1>2, <1>4, <1>5 DEF WayInv, AdvertsKnown

\* What a follower reports, it is about to send.
LEMMA HandleWay ==
  ASSUME TypeOK, WayInv, NEW a \in Addrs, HandleAdvert(a)
  PROVE  WayInv'
<1> DEFINE d == Owner[a]
           n == Head(stream[a]).copy
<1>1. d \in Devices /\ stream[a] \in Seq(Adverts) /\ stream[a] # <<>> /\ running /\ label[a] = 0
  BY ClipboardAssumption DEF TypeOK, HandleAdvert
<1>2. /\ Head(stream[a]) = stream[a][1] /\ Len(stream[a]) >= 1 /\ Len(stream[a]) \in Nat
      /\ Tail(stream[a]) \in Seq(Adverts) /\ Len(Tail(stream[a])) = Len(stream[a]) - 1
      /\ \A i \in 1 .. Len(stream[a]) - 1 : Tail(stream[a])[i] = stream[a][i + 1]
      /\ n \in Copies
  <2>1. Head(stream[a]) \in Adverts
    BY <1>1, AdvertsLeave
  <2> QED
    BY <1>1, <2>1, AdvertsLeave DEF Adverts
<1>3. n <= copy[d]
  <2>1. 1 \in 1 .. Len(stream[a])
    BY <1>2
  <2> QED
    BY <1>1, <1>2, <2>1 DEF WayInv, AdvertsKnown
<1>4. /\ stream' = [stream EXCEPT ![a] = Tail(@)]
      /\ \/ label' = label /\ reports' = reports
         \/ /\ label' = [label EXCEPT ![a] = n]
            /\ reports' = [reports EXCEPT ![d][n] = @ + 1]
      /\ UNCHANGED <<copy, queue, begun, crowded, running>>
  BY DEF HandleAdvert, deviceVars, historyVars, runVars
<1> HIDE DEF d, n
<1>5. ASSUME NEW e \in Devices, NEW m \in Copies, reports'[e][m] > 0
      PROVE  reports[e][m] > 0 \/ (e = d /\ m = n /\ label' = [label EXCEPT ![a] = n])
  <2>1. reports \in [Devices -> [Copies -> Nat]]
    BY DEF TypeOK
  <2>2. CASE reports' = reports
    BY <1>5, <2>2
  <2>3. CASE reports' # reports
    <3>1. reports' = [reports EXCEPT ![d][n] = @ + 1] /\ label' = [label EXCEPT ![a] = n]
      BY <1>4, <2>3
    <3>2. (e = d /\ m = n) \/ reports'[e][m] = reports[e][m]
      BY <1>1, <1>2, <2>1, <3>1
    <3> QED
      BY <1>5, <3>1, <3>2
  <2> QED
    BY <2>2, <2>3
<1>6. ASSUME NEW e \in Devices, NEW m \in Copies \ {0}, reports'[e][m] > 0
      PROVE  Accounted(e, m)'
  <2>1. CASE reports[e][m] > 0
    <3>1. Accounted(e, m)
      BY <1>1, <2>1 DEF WayInv, CopiesAccounted
    <3>2. ASSUME NEW b \in Addrs, Owner[b] = e, label[b] = m
          PROVE  Owner[b] = e /\ label'[b] = m
      <4>1. b # a
        BY <1>1, <3>2
      <4> QED
        BY <1>4, <3>2, <4>1 DEF TypeOK
    <3> QED
      BY <1>4, <3>1, <3>2 DEF Accounted, OnItsWay, Queued
  <2>2. CASE e = d /\ m = n /\ label' = [label EXCEPT ![a] = n]
    <3>1. label'[a] = m /\ Owner[a] = e
      BY <2>2 DEF TypeOK, d
    <3> QED
      BY <3>1 DEF Accounted, OnItsWay
  <2> QED
    BY <1>5, <1>6, <2>1, <2>2
<1>7. ASSUME NEW b \in Addrs, NEW i \in 1 .. Len(stream'[b])
      PROVE  stream'[b][i].copy <= copy'[Owner[b]]
  <2>1. \A j \in 1 .. Len(stream[b]) : stream[b][j].copy <= copy[Owner[b]]
    BY <1>1 DEF WayInv, AdvertsKnown
  <2>2. CASE b = a
    <3>1. stream'[b] = Tail(stream[a])
      BY <1>4, <2>2 DEF TypeOK
    <3>2. i \in 1 .. Len(stream[a]) - 1 /\ i + 1 \in 1 .. Len(stream[a])
      BY <1>2, <3>1
    <3>3. stream'[b][i] = stream[a][i + 1]
      BY <1>2, <3>1, <3>2
    <3> QED
      BY <1>4, <2>1, <2>2, <3>2, <3>3
  <2>3. CASE b # a
    BY <1>4, <2>1, <2>3 DEF TypeOK
  <2> QED
    BY <2>2, <2>3
<1>8. ASSUME NEW e \in Devices, NEW m \in Copies, reports'[e][m] > 0
      PROVE  m <= copy'[e]
  BY <1>1, <1>3, <1>4, <1>5, <1>8 DEF WayInv, AdvertsKnown
<1> QED
  BY <1>6, <1>7, <1>8 DEF WayInv, CopiesAccounted, AdvertsKnown

\* An event that finds the queue full is left to one of its device in the
\* queue, or counted as crowded out.
LEMMA SendWay ==
  ASSUME TypeOK, WayInv, NEW a \in Addrs, SendEvent(a)
  PROVE  WayInv'
<1> DEFINE d == Owner[a]
           x == [dev |-> d, addr |-> a, copy |-> label[a]]
<1>1. d \in Devices /\ x \in Events /\ queue \in Seq(Events) /\ Len(queue) \in Nat /\ x.dev = d
  BY ClipboardAssumption DEF TypeOK, Events
<1>2. /\ UNCHANGED <<copy, stream, reports, begun, running>>
      /\ running
      /\ label' = [label EXCEPT ![a] = 0]
      /\ \/ queue' = Append(queue, x) /\ crowded' = crowded
         \/ queue' = queue /\ crowded' = crowded /\ Queued(d)
         \/ queue' = queue /\ crowded' = crowded \cup {<<d, label[a]>>}
  BY DEF SendEvent, deviceVars, runVars, Queued
<1> HIDE DEF d, x
<1>3. /\ Len(Append(queue, x)) = Len(queue) + 1
      /\ \A i \in 1 .. Len(queue) : Append(queue, x)[i] = queue[i]
      /\ Append(queue, x)[Len(queue) + 1] = x
  BY <1>1
<1>4. ASSUME NEW e \in Devices, Queued(e) PROVE Queued(e)'
  <2>1. PICK i \in 1 .. Len(queue) : queue[i].dev = e
    BY <1>4 DEF Queued
  <2>2. i \in 1 .. Len(queue') /\ queue'[i] = queue[i]
    BY <1>1, <1>2, <1>3
  <2> QED
    BY <2>1, <2>2 DEF Queued
<1>5. queue' = Append(queue, x) => Queued(d)'
  <2> SUFFICES ASSUME queue' = Append(queue, x) PROVE Queued(d)'
    OBVIOUS
  <2>1. Len(queue) + 1 \in 1 .. Len(queue') /\ queue'[Len(queue) + 1].dev = d
    BY <1>1, <1>3
  <2> QED
    BY <2>1 DEF Queued
<1>6. ASSUME NEW e \in Devices, NEW m \in Copies \ {0}, Accounted(e, m)
      PROVE  Accounted(e, m)'
  <2>1. CASE begun[e] >= m \/ <<e, m>> \in crowded
    BY <1>2, <2>1 DEF Accounted
  <2>2. CASE Queued(e)
    BY <1>4, <2>2 DEF Accounted, OnItsWay
  <2>3. ASSUME NEW b \in Addrs, Owner[b] = e, label[b] = m
        PROVE  Accounted(e, m)'
    <3>1. CASE b = a
      <4>1. e = d /\ m = label[a]
        BY <2>3, <3>1 DEF d
      <4>2. Queued(d)' \/ <<d, label[a]>> \in crowded'
        BY <1>1, <1>2, <1>4, <1>5
      <4> QED
        BY <4>1, <4>2 DEF Accounted, OnItsWay
    <3>2. CASE b # a
      <4>1. Owner[b] = e /\ label'[b] = m
        BY <1>2, <2>3, <3>2 DEF TypeOK
      <4> QED
        BY <4>1 DEF Accounted, OnItsWay
    <3> QED
      BY <3>1, <3>2
  <2> QED
    BY <1>6, <2>1, <2>2, <2>3 DEF Accounted, OnItsWay
<1> QED
  BY <1>2, <1>6 DEF WayInv, CopiesAccounted, AdvertsKnown

\* A pull that an event starts finds every copy of its device made so far.
LEMMA ReceiveWay ==
  ASSUME TypeOK, WayInv, ReceiveEvent
  PROVE  WayInv'
<1> DEFINE d == Head(queue).dev
<1>1. /\ queue \in Seq(Events) /\ queue # <<>> /\ Len(queue) \in Nat /\ d \in Devices
      /\ d = queue[1].dev
      /\ Tail(queue) \in Seq(Events) /\ Len(Tail(queue)) = Len(queue) - 1
      /\ \A i \in 1 .. Len(queue) - 1 : Tail(queue)[i] = queue[i + 1]
  <2>1. queue \in Seq(Events) /\ queue # <<>>
    BY DEF TypeOK, ReceiveEvent
  <2>2. Head(queue) \in Events /\ Head(queue) = queue[1]
    BY <2>1
  <2>3. Head(queue).dev \in Devices
    BY <2>2 DEF Events
  <2> QED
    BY <2>1, <2>2, <2>3
<1>2. /\ UNCHANGED <<copy, stream, reports, label, crowded, running>>
      /\ running
      /\ queue' = Tail(queue)
      /\ begun' = [begun EXCEPT ![d] = copy[d]]
  BY DEF ReceiveEvent, At, deviceVars, scanVars, runVars
<1> HIDE DEF d
<1>3. ASSUME NEW e \in Devices, NEW m \in Copies \ {0}, reports[e][m] > 0, Accounted(e, m)
      PROVE  Accounted(e, m)'
  <2>1. m <= copy[e] /\ m \in Nat /\ copy[e] \in Nat
    BY <1>2, <1>3, CopiesAre DEF WayInv, AdvertsKnown, TypeOK
  <2>2. CASE e = d
    <3>1. begun'[e] = copy[e]
      BY <1>1, <1>2, <2>2 DEF TypeOK
    <3> QED
      BY <2>1, <3>1 DEF Accounted
  <2>3. CASE e # d
    <3>1. begun'[e] = begun[e]
      BY <1>2, <2>3 DEF TypeOK
    <3>2. Queued(e) => Queued(e)'
      <4> SUFFICES ASSUME NEW i \in 1 .. Len(queue), queue[i].dev = e PROVE Queued(e)'
        BY DEF Queued
      <4>1. i # 1
        BY <1>1, <2>3
      <4>2. i - 1 \in 1 .. Len(queue) - 1 /\ (i - 1) + 1 = i
        BY <1>1, <4>1
      <4>3. Tail(queue)[i - 1] = queue[i]
        BY <1>1, <4>2
      <4>4. i - 1 \in 1 .. Len(queue') /\ queue'[i - 1].dev = e
        BY <1>1, <1>2, <4>2, <4>3
      <4> QED
        BY <4>4 DEF Queued
    <3> QED
      BY <1>2, <1>3, <3>1, <3>2 DEF Accounted, OnItsWay
  <2> QED
    BY <2>2, <2>3
<1> QED
  BY <1>2, <1>3 DEF WayInv, CopiesAccounted, AdvertsKnown

\* Every copy that was ever reported has been tried (a pull was begun when the
\* device had it or a later one), is on its way, or found the queue full of
\* other devices' events: try_send may drop an event and the re-broadcasts of
\* its copy are ignored, but no copy is forgotten (handle of src/src/scan.rs,
\* the loop of src/src/orchestrate.rs).  CopyIsTried adds that followers and
\* loop go on.
THEOREM NoCopyForgotten == Spec => []CopiesAccounted
<1>1. TypeOK /\ WayInv /\ [Next]_vars => WayInv'
  <2> SUFFICES ASSUME TypeOK, WayInv, [Next]_vars PROVE WayInv'
    OBVIOUS
  <2>1. CASE PullStep \/ UNCHANGED vars
    <3>1. UNCHANGED <<copy, stream, label, reports, queue, begun, crowded, running>>
      BY <2>1 DEF PullStep, Resolve, FetchPasteboard, CopyPasteboard, NotifyEnds, PullFails, vars,
                  deviceVars, scanVars, runVars, historyVars
    <3>2. CopiesAccounted'
      BY <3>1, AccountedStays DEF WayInv, CopiesAccounted
    <3> QED
      BY <3>1, <3>2 DEF WayInv, AdvertsKnown
  <2>2. CASE Shutdown
    BY <2>2 DEF Shutdown, WayInv, CopiesAccounted, AdvertsKnown
  <2>3. ASSUME NEW d \in Devices, CopiesSomething(d) \/ StopsOffering(d) \/ Advertises(d)
        PROVE  WayInv'
    BY <2>3, DeviceWay, FirstAddrOwned
  <2> QED
    BY <2>1, <2>2, <2>3, DeviceWay, HandleWay, SendWay, ReceiveWay DEF Next
<1>2. ClipInv => TypeOK
  BY DEF ClipInv
<1>3. WayInv => CopiesAccounted
  BY DEF WayInv
<1> QED
  BY <1>1, <1>2, <1>3, WayStart, ClipInvariant, PTL DEF Spec
=============================================================================
