------------------------------ MODULE EngineProofs ------------------------------
(***************************************************************************)
(* CancelHolds, AcceptedByAClick and RadioIsFreed of Engine, for any       *)
(* number of Asks and clicks, and the safety parts of its two liveness     *)
(* properties.                                                             *)
(*                                                                         *)
(* CancelHolds: the queue of actions is in the order of the clicks, so     *)
(* that what is still in it was clicked after the last Cancel, Stop or     *)
(* Quit that was served; and the Send the engine is waiting for the radio  *)
(* with is still at its head.                                              *)
(***************************************************************************)
EXTENDS Engine, SequenceTheorems, FunctionTheorems, FiniteSetTheorems, TLAPS

WindowOps == {"start", "stop", "quit", "browse", "send", "cancel"}
OfWindow(a) == a.op \in WindowOps

\* Each click of a window button has its number, and they come in order.
InOrder(s, last) ==
  /\ \A i \in 1 .. Len(s) : OfWindow(s[i]) => s[i].click \in 1 .. last
  /\ \A i, j \in 1 .. Len(s) :
       i < j /\ OfWindow(s[i]) /\ OfWindow(s[j]) => s[i].click < s[j].click

\* Those from the n-th on were clicked after the one numbered `after'.
Later(s, n, after) == \A i \in n .. Len(s) : OfWindow(s[i]) => s[i].click > after

CountInv ==
  /\ clicks \in 0 .. MaxClicks
  /\ running \in 0 .. MaxClicks
  /\ cancelled \in 0 .. clicks
  /\ engine \in {"idle", "radio", "stopping", "gone"}
  /\ {owned, radio, fault, browsing, peers, closed} \subseteq BOOLEAN

QueueInv ==
  /\ \E S : actions \in Seq(S)
  /\ InOrder(actions, clicks)
  /\ engine = "radio" => actions # <<>> /\ Head(actions).op = "send"
  /\ engine = "stopping" =>
       /\ actions # <<>> /\ Head(actions).op \in {"stop", "quit"}
       /\ Later(actions, 2, cancelled)
  /\ engine # "stopping" => Later(actions, 1, cancelled)

CancelInv == running # 0 => running > cancelled

EngineInv == CountInv /\ QueueInv /\ CancelInv

USE ApprovalAssumption
-----------------------------------------------------------------------------
\* The queue after its head is served.
LEMMA Served ==
  ASSUME NEW S, NEW s \in Seq(S), s # <<>>, NEW last \in Nat, InOrder(s, last)
  PROVE  /\ Tail(s) \in Seq(S)
         /\ InOrder(Tail(s), last)
         /\ OfWindow(Head(s)) =>
              Head(s).click \in 1 .. last /\ Later(Tail(s), 1, Head(s).click)
         /\ \A after : Later(s, 2, after) => Later(Tail(s), 1, after)
         /\ \A after : Later(s, 1, after) =>
              Later(s, 2, after) /\ (OfWindow(Head(s)) => Head(s).click > after)
         /\ OfWindow(Head(s)) => Later(s, 2, Head(s).click)
<1>1. /\ Tail(s) \in Seq(S)
      /\ Len(s) \in Nat \ {0}
      /\ Len(Tail(s)) = Len(s) - 1
      /\ \A i \in 1 .. Len(s) - 1 : Tail(s)[i] = s[i + 1]
      /\ Head(s) = s[1]
  OBVIOUS
<1>2. \A i \in 1 .. Len(Tail(s)) : i + 1 \in 1 .. Len(s) /\ i + 1 > 1 /\ Tail(s)[i] = s[i + 1]
  BY <1>1
<1>3. InOrder(Tail(s), last)
  BY <1>1, <1>2 DEF InOrder
<1>4. ASSUME OfWindow(Head(s)) PROVE Later(Tail(s), 1, Head(s).click) /\ Later(s, 2, Head(s).click)
  BY <1>1, <1>2, <1>4 DEF InOrder, Later
<1> QED
  BY <1>1, <1>2, <1>3, <1>4 DEF InOrder, Later

\* The queue after a click, of a window button or on a card.
LEMMA Clicked ==
  ASSUME NEW S, NEW s \in Seq(S), NEW last \in Nat, InOrder(s, last), NEW a,
         OfWindow(a) => a.click = last + 1
  PROVE  /\ Append(s, a) \in Seq(S \cup {a})
         /\ InOrder(Append(s, a), last + 1)
         /\ \A n \in Nat \ {0} : \A after \in 0 .. last :
              Later(s, n, after) => Later(Append(s, a), n, after)
         /\ Append(s, a) # <<>>
         /\ s # <<>> => Head(Append(s, a)) = Head(s)
<1>1. /\ s \in Seq(S \cup {a})
      /\ Len(s) \in Nat
      /\ Len(Append(s, a)) = Len(s) + 1
      /\ \A i \in 1 .. Len(s) : Append(s, a)[i] = s[i]
      /\ Append(s, a)[Len(s) + 1] = a
  <2>1. s \in Seq(S \cup {a})
    BY SeqMonotonic
  <2> QED
    BY <2>1
<1>2. Append(s, a) \in Seq(S \cup {a})
  BY <1>1
<1>3. \A i \in 1 .. Len(s) + 1 : i \in 1 .. Len(s) \/ i = Len(s) + 1
  BY <1>1
<1>4. InOrder(Append(s, a), last + 1)
  BY <1>1, <1>3 DEF InOrder
<1>5. ASSUME NEW n \in Nat \ {0}, NEW after \in 0 .. last, Later(s, n, after)
      PROVE  Later(Append(s, a), n, after)
  BY <1>1, <1>3, <1>5 DEF Later
<1>6. Append(s, a) # <<>> /\ (s # <<>> => Head(Append(s, a)) = Head(s))
  BY <1>1, HeadTailAppend
<1> QED
  BY <1>2, <1>4, <1>5, <1>6
-----------------------------------------------------------------------------
LEMMA EngineInit == EInit => EngineInv
<1> SUFFICES ASSUME EInit PROVE EngineInv
  OBVIOUS
<1>1. actions = <<>> /\ Len(actions) = 0 /\ actions \in Seq({})
  BY DEF EInit, Init
<1>2. InOrder(actions, clicks) /\ Later(actions, 1, cancelled)
  BY <1>1 DEF InOrder, Later
<1>3. CountInv
  <2>1. MaxClicks \in Nat /\ 0 \in 0 .. MaxClicks /\ 0 \in 0 .. 0
    BY DEF ApprovalAssumption
  <2>2. {owned, radio, fault, browsing, peers, closed} \subseteq BOOLEAN
    BY DEF EInit
  <2> QED
    BY <2>1, <2>2 DEF EInit, Init, CountInv
<1>4. QueueInv
  BY <1>1, <1>2 DEF EInit, QueueInv
<1> QED
  BY <1>3, <1>4 DEF EInit, EngineInv, CancelInv

\* Steps that leave the queue, the clicks and the transfers alone.
LEMMA EngineKeeps ==
  ASSUME EngineInv, UNCHANGED <<actions, clicks, cancelled>>,
         engine' = engine, running' = running \/ running' = 0,
         {owned', radio', fault', browsing', peers', closed'} \subseteq BOOLEAN
  PROVE  EngineInv'
BY DEF EngineInv, CountInv, QueueInv, CancelInv, InOrder, Later, OfWindow

\* Serving the action at the head: nobody who is served later was clicked
\* earlier, so that `cancelled' only grows.
LEMMA EngineServes ==
  ASSUME EngineInv, actions # <<>>, engine # "stopping" \/ cancelled' = cancelled,
         actions' = Tail(actions), UNCHANGED clicks, engine' \in {"idle", "gone"},
         {owned', radio', fault', browsing', peers', closed'} \subseteq BOOLEAN,
         \/ UNCHANGED <<running, cancelled>>
         \/ /\ OfWindow(Head(actions)) /\ engine # "stopping"
            /\ \/ running' = 0 /\ cancelled' = Head(actions).click
               \/ running' = Head(actions).click /\ cancelled' = cancelled
  PROVE  EngineInv'
<1> USE DEF EngineInv, CountInv, QueueInv
<1>1. PICK S : actions \in Seq(S)
  OBVIOUS
<1>2. /\ Tail(actions) \in Seq(S)
      /\ InOrder(Tail(actions), clicks)
      /\ OfWindow(Head(actions)) =>
           /\ Head(actions).click \in 1 .. clicks
           /\ Later(Tail(actions), 1, Head(actions).click)
      /\ Later(actions, 2, cancelled) => Later(Tail(actions), 1, cancelled)
      /\ Later(actions, 1, cancelled) =>
           /\ Later(actions, 2, cancelled)
           /\ OfWindow(Head(actions)) => Head(actions).click > cancelled
  BY <1>1, Served
<1>3. Later(Tail(actions), 1, cancelled)
  BY <1>2
<1>4. InOrder(actions', clicks')
  BY <1>2 DEF InOrder, OfWindow
<1>5. Later(actions', 1, cancelled')
  BY <1>2, <1>3 DEF Later, OfWindow
<1>6. QueueInv'
  BY <1>2, <1>4, <1>5
<1>7. CountInv' /\ CancelInv'
  BY <1>2 DEF CancelInv
<1> QED
  BY <1>6, <1>7

\* A click of a button of the window, or on a card.
LEMMA EngineClicked ==
  ASSUME EngineInv, NEW a, OfWindow(a) => a.click = clicks + 1,
         clicks < MaxClicks, clicks' = clicks + 1, actions' = Append(actions, a),
         UNCHANGED <<engine, running, cancelled>>,
         {owned', radio', fault', browsing', peers', closed'} \subseteq BOOLEAN
  PROVE  EngineInv'
<1>1. PICK S : actions \in Seq(S)
  BY DEF EngineInv, QueueInv
<1>2. clicks \in Nat /\ cancelled \in 0 .. clicks /\ InOrder(actions, clicks)
  BY DEF EngineInv, QueueInv, CountInv
<1>3. /\ Append(actions, a) \in Seq(S \cup {a})
      /\ InOrder(Append(actions, a), clicks + 1)
      /\ \A n \in Nat \ {0} : Later(actions, n, cancelled) => Later(Append(actions, a), n, cancelled)
      /\ Append(actions, a) # <<>>
      /\ actions # <<>> => Head(Append(actions, a)) = Head(actions)
  <2>1. \A n \in Nat \ {0} : \A after \in 0 .. clicks :
          Later(actions, n, after) => Later(Append(actions, a), n, after)
    BY <1>2, <1>1, Clicked
  <2>2. /\ Append(actions, a) \in Seq(S \cup {a})
        /\ InOrder(Append(actions, a), clicks + 1)
        /\ Append(actions, a) # <<>>
        /\ actions # <<>> => Head(Append(actions, a)) = Head(actions)
    BY <1>2, <1>1, Clicked
  <2> QED
    BY <1>2, <2>1, <2>2
<1> USE DEF EngineInv, CountInv, QueueInv
<1>4. InOrder(actions', clicks')
  BY <1>3 DEF InOrder, OfWindow
<1>5. /\ Later(actions, 1, cancelled) => Later(actions', 1, cancelled')
      /\ Later(actions, 2, cancelled) => Later(actions', 2, cancelled')
  BY <1>3 DEF Later, OfWindow
<1>6. QueueInv'
  BY <1>3, <1>4, <1>5
<1> QED
  BY <1>6 DEF CancelInv
-----------------------------------------------------------------------------
LEMMA EngineStep == EngineInv /\ [ENext]_allVars => EngineInv'
<1> SUFFICES ASSUME EngineInv, [ENext]_allVars PROVE EngineInv'
  OBVIOUS
<1>1. /\ {owned, radio, fault, browsing, peers, closed} \subseteq BOOLEAN
      /\ FALSE \in BOOLEAN /\ TRUE \in BOOLEAN
  BY DEF EngineInv, CountInv
<1> USE DEF allVars, vars, outVars, daemonVars, uiVars, incomingKeep
\* The daemon, the window's own steps and the tasks do not touch the queue.
<1>2. CASE UNCHANGED allVars \/ EPoll \/ EPump \/ PumpPeers \/ BrowseEnds
  BY <1>1, <1>2, EngineKeeps DEF EPoll, Poll, EPump, Pump, PumpPeers, BrowseEnds
<1>3. CASE Daemon
  BY <1>1, <1>3, EngineKeeps DEF Daemon, AskArrives, AskTimesOut, TakeAsk, WindowEnds
<1>4. CASE TransferEnds \/ RadioExpires
  BY <1>1, <1>4, EngineKeeps DEF TransferEnds, RadioExpires
\* Actions that are served at once.
<1>5. CASE Decides \/ Starts
  BY <1>1, <1>5, EngineServes DEF Decides, EngineDecides, Starts, EngineStarts
<1>6. CASE Cancel
  BY <1>1, <1>6, EngineServes DEF Cancel, Serving, AbortTransfer, OfWindow, WindowOps
<1>7. CASE Browse
  BY <1>1, <1>7, EngineServes DEF Browse, Serving
<1>8. CASE User
  <2>1. ASSUME NEW k \in cards, NEW op \in {"approve", "decline"}, Click(k, op), UNCHANGED outVars
        PROVE  EngineInv'
    BY <1>1, <2>1, EngineClicked DEF Click, OfWindow, WindowOps
  <2>2. ASSUME NEW op, ClickWindow(op), UNCHANGED outVars
        PROVE  EngineInv'
    BY <1>1, <2>2, EngineClicked DEF ClickWindow
  <2>3. CASE ClickWindow("quit") /\ closed' = TRUE
             /\ UNCHANGED <<engine, running, owned, radio, fault, cancelled, browsing, peers>>
    BY <1>1, <2>3, EngineClicked DEF ClickWindow
  <2> QED
    BY <1>8, <2>1, <2>2, <2>3 DEF User
\* A Send stays at the head while the engine waits for the radio.
<1>9. CASE Send
  BY <1>1, <1>9, EngineServes DEF Send, Serving, EngineInv, CountInv, QueueInv, CancelInv, InOrder,
     Later, OfWindow
<1>10. CASE RadioStarts
  <2>1. actions # <<>> /\ Head(actions).op = "send"
    BY <1>10 DEF RadioStarts, EngineInv, QueueInv
  <2> QED
    BY <1>1, <1>10, <2>1, EngineServes DEF RadioStarts, Own, OfWindow, WindowOps
<1>11. CASE RadioFails
  BY <1>1, <1>11, EngineServes DEF RadioFails, EngineInv, QueueInv
\* So does a Stop or Quit between its two parts; then `cancelled' is its own number.
<1>12. CASE StopOutgoing
  <2>1. PICK S : actions \in Seq(S)
    BY DEF EngineInv, QueueInv
  <2>2. actions # <<>> /\ Head(actions).op \in {"stop", "quit"} /\ OfWindow(Head(actions))
    BY <1>12 DEF StopOutgoing, Serving, OfWindow, WindowOps
  <2>3. clicks \in Nat /\ InOrder(actions, clicks)
    BY DEF EngineInv, QueueInv, CountInv
  <2>4. Head(actions).click \in 1 .. clicks /\ Later(actions, 2, Head(actions).click)
    BY <2>1, <2>2, <2>3, Served
  <2>5. /\ actions' = actions /\ clicks' = clicks /\ engine' = "stopping"
        /\ running' = 0 /\ cancelled' = Head(actions).click
        /\ {owned', radio', fault', browsing', peers', closed'} \subseteq BOOLEAN
    BY <1>1, <1>12 DEF StopOutgoing, AbortTransfer
  <2>6. QueueInv'
    BY <2>1, <2>2, <2>3, <2>4, <2>5 DEF QueueInv, InOrder, Later, OfWindow
  <2> QED
    BY <2>3, <2>4, <2>5, <2>6 DEF EngineInv, CountInv, CancelInv
<1>13. CASE StopDaemon
  BY <1>1, <1>13, EngineServes DEF StopDaemon, EngineStops, AfterStop
<1> QED
  BY <1>2, <1>3, <1>4, <1>5, <1>6, <1>7, <1>8, <1>9, <1>10, <1>11, <1>12, <1>13 DEF ENext

\* However many clicks pile up while the engine waits for the radio, a
\* transfer that runs was sent after the last Cancel, Stop or Quit that has
\* been served (engine of ui.rs).
THEOREM CancelledStaysCancelled == ESpec => []CancelHolds
<1>1. EngineInv => CancelHolds
  BY DEF EngineInv, CountInv, CancelInv, CancelHolds, EngineTypeOK, ApprovalAssumption
<1> QED
  BY <1>1, EngineInit, EngineStep, PTL DEF ESpec
-----------------------------------------------------------------------------
(* AcceptedByAClick.  Each card on its way, and each status the engine has *)
(* yet to show, is paid for by an Ask that left the queue or by a click    *)
(* that was served; each accepted Ask, by a click that was served.         *)

Types ==
  /\ ask \in [Asks -> {"new", "waiting", "accepted", "refused"}]
  /\ queue \in Seq(Asks) /\ Len(queue) <= QueueCap
  /\ window \in BOOLEAN
  /\ pending \in Asks \cup {NoAsk}
  /\ lastPending \in Labels \cup {NoAsk}
  /\ events \in Seq(Event) /\ actions \in Seq(Action)
  /\ cards \subseteq Card
  /\ counter \in 0 .. MaxCards
  /\ clicks \in 0 .. MaxClicks
  /\ shown \subseteq Asks \X Labels

\* The messages that will make a card.
Incoming(s) == {i \in 1 .. Len(s) : s[i].type = "incoming"}

\* The Asks that arrived and are in the queue no longer, or never were.
Taken == {a \in Asks : ask[a] # "new" /\ \A i \in 1 .. Len(queue) : queue[i] # a}

QueuedOnce ==
  /\ \A i \in 1 .. Len(queue) : ask[queue[i]] # "new"
  /\ \A i, j \in 1 .. Len(queue) : queue[i] = queue[j] => i = j

\* The next poll makes a card.
ToPoll == IF Polled \notin {NoAsk, lastPending} THEN 1 ELSE 0

\* The cards made and yet to make, and the clicks that may still cost one.
Owed == counter + Cardinality(Incoming(events)) + ToPoll + Len(actions)

CardsInv == Owed <= Cardinality(Taken) + clicks

ClicksInv ==
  /\ Cardinality(Approvals) + Len(actions) <= clicks
  /\ \A a \in Approvals : \E b \in Labels : <<a, b>> \in shown

AcceptInv == Types /\ QueuedOnce /\ CardsInv /\ ClicksInv

\* What the engine sends to the window.
LEMMA EventTypes ==
  /\ [type |-> "allCleared"] \in Event /\ [type |-> "peers"] \in Event
  /\ \A l \in Labels : [type |-> "incoming", label |-> l] \in Event
  /\ \A i \in Nat : [type |-> "cleared", id |-> i] \in Event
  /\ \A e \in Event : e.type = "incoming" => e.label \in Labels
<1>1. /\ [type |-> "allCleared"] \in Event /\ [type |-> "peers"] \in Event
      /\ \A l \in Labels : [type |-> "incoming", label |-> l] \in Event
      /\ \A i \in Nat : [type |-> "cleared", id |-> i] \in Event
  BY DEF Event
<1>2. ASSUME NEW e \in Event, e.type = "incoming" PROVE e.label \in Labels
  BY <1>2 DEF Event
<1> QED
  BY <1>1, <1>2

LEMMA IncomingCount ==
  ASSUME NEW s \in Seq(Event)
  PROVE  IsFiniteSet(Incoming(s)) /\ Cardinality(Incoming(s)) \in Nat
<1>1. IsFiniteSet(1 .. Len(s)) /\ Incoming(s) \in SUBSET (1 .. Len(s))
  BY FS_Interval DEF Incoming
<1> QED
  BY <1>1, FS_Subset, FS_CardinalityType

LEMMA IncomingAppended ==
  ASSUME NEW s \in Seq(Event), NEW e \in Event
  PROVE  /\ Append(s, e) \in Seq(Event)
         /\ Cardinality(Incoming(Append(s, e))) =
              Cardinality(Incoming(s)) + (IF e.type = "incoming" THEN 1 ELSE 0)
<1>1. /\ Append(s, e) \in Seq(Event)
      /\ Len(s) \in Nat /\ Len(Append(s, e)) = Len(s) + 1
      /\ \A i \in 1 .. Len(s) : Append(s, e)[i] = s[i]
      /\ Append(s, e)[Len(s) + 1] = e
  OBVIOUS
<1>2. \A i : i \in 1 .. Len(s) + 1 <=> i \in 1 .. Len(s) \/ i = Len(s) + 1
  BY <1>1
<1>3. Len(s) + 1 \notin Incoming(s)
  BY <1>1 DEF Incoming
<1>4. IsFiniteSet(Incoming(s)) /\ Cardinality(Incoming(s)) \in Nat
  BY IncomingCount
<1>5. CASE e.type = "incoming"
  <2>1. Incoming(Append(s, e)) = Incoming(s) \cup {Len(s) + 1}
    BY <1>1, <1>2, <1>5 DEF Incoming
  <2>2. Cardinality(Incoming(s) \cup {Len(s) + 1}) = Cardinality(Incoming(s)) + 1
    BY <1>3, <1>4, FS_AddElement
  <2> QED
    BY <1>1, <1>5, <2>1, <2>2
<1>6. CASE e.type # "incoming"
  <2>1. Incoming(Append(s, e)) = Incoming(s)
    BY <1>1, <1>2, <1>6 DEF Incoming
  <2> QED
    BY <1>1, <1>4, <1>6, <2>1
<1> QED
  BY <1>5, <1>6

LEMMA IncomingServed ==
  ASSUME NEW s \in Seq(Event), s # <<>>
  PROVE  /\ Tail(s) \in Seq(Event) /\ Head(s) \in Event
         /\ Cardinality(Incoming(s)) =
              Cardinality(Incoming(Tail(s))) + (IF Head(s).type = "incoming" THEN 1 ELSE 0)
<1> DEFINE t == Tail(s)
           rest == Incoming(s) \ {1}
           f == [i \in Incoming(t) |-> i + 1]
<1>1. /\ t \in Seq(Event) /\ Head(s) \in Event /\ Head(s) = s[1]
      /\ Len(s) \in Nat \ {0} /\ Len(t) = Len(s) - 1
      /\ \A i \in 1 .. Len(t) : t[i] = s[i + 1]
  OBVIOUS
<1>2. Cardinality(rest) = Cardinality(Incoming(t))
  <2>1. \A i \in Incoming(t) : i \in Int /\ i + 1 \in rest
    BY <1>1 DEF Incoming
  <2>2. \A k \in rest : k \in Int /\ k - 1 \in Incoming(t) /\ (k - 1) + 1 = k
    BY <1>1 DEF Incoming
  <2>3. f \in [Incoming(t) -> rest]
    BY <2>1
  <2>4. \A i, j \in Incoming(t) : f[i] = f[j] => i = j
    BY <2>1
  <2>5. \A k \in rest : \E i \in Incoming(t) : f[i] = k
    BY <2>2
  <2> HIDE DEF f, rest
  <2>6. f \in Bijection(Incoming(t), rest)
    BY <2>3, <2>4, <2>5, Fun_IsBij
  <2>7. IsFiniteSet(Incoming(t)) /\ ExistsBijection(Incoming(t), rest)
    BY <1>1, <2>6, IncomingCount DEF ExistsBijection
  <2> QED
    BY <2>7, FS_Bijection
<1>3. /\ IsFiniteSet(Incoming(s)) /\ Cardinality(Incoming(s)) \in Nat
      /\ Cardinality(Incoming(t)) \in Nat
  BY <1>1, IncomingCount
<1>4. Cardinality(rest) = IF 1 \in Incoming(s) THEN Cardinality(Incoming(s)) - 1
                                               ELSE Cardinality(Incoming(s))
  BY <1>3, FS_RemoveElement
<1>5. 1 \in Incoming(s) <=> Head(s).type = "incoming"
  BY <1>1 DEF Incoming
<1> QED
  BY <1>1, <1>2, <1>3, <1>4, <1>5

LEMMA Numbers ==
  ASSUME Types
  PROVE  /\ Cardinality(Asks) \in Nat /\ MaxCards = Cardinality(Asks) + MaxClicks
         /\ IsFiniteSet(Taken) /\ Cardinality(Taken) \in Nat
         /\ Cardinality(Taken) <= Cardinality(Asks)
         /\ IsFiniteSet(Approvals) /\ Cardinality(Approvals) \in Nat
         /\ Cardinality(Incoming(events)) \in Nat
         /\ Len(actions) \in Nat /\ counter \in Nat /\ clicks \in Nat /\ MaxClicks \in Nat
         /\ ToPoll \in {0, 1} /\ Owed \in Nat
<1>1. Taken \in SUBSET Asks /\ Approvals \in SUBSET Asks
  BY DEF Taken, Approvals
<1>2. /\ Cardinality(Asks) \in Nat
      /\ IsFiniteSet(Taken) /\ Cardinality(Taken) \in Nat
      /\ Cardinality(Taken) <= Cardinality(Asks)
      /\ IsFiniteSet(Approvals) /\ Cardinality(Approvals) \in Nat
  BY <1>1, FS_CardinalityType, FS_Subset
<1>3. Cardinality(Incoming(events)) \in Nat
  BY IncomingCount DEF Types
<1>4. Len(actions) \in Nat /\ counter \in Nat /\ clicks \in Nat
  BY DEF Types
<1>5. ToPoll \in {0, 1}
  BY DEF ToPoll
<1> QED
  BY <1>2, <1>3, <1>4, <1>5 DEF MaxCards, Owed

\* How the queue may change, and what that does to the Asks taken.
QueueStep ==
  \/ queue' = queue
  \/ queue' = <<>>
  \/ queue # <<>> /\ queue' = Tail(queue)
  \/ \E a \in Asks : ask[a] = "new" /\ ask'[a] # "new" /\ queue' = Append(queue, a)

LEMMA QueueSteps ==
  ASSUME Types, QueuedOnce, QueueStep, \A x \in Asks : ask[x] # "new" => ask'[x] # "new"
  PROVE  /\ queue' \in Seq(Asks)
         /\ QueuedOnce'
         /\ Cardinality(Taken)' \in Nat
         /\ Cardinality(Taken) <= Cardinality(Taken)'
         /\ queue # <<>> /\ queue' = Tail(queue) => Cardinality(Taken) + 1 <= Cardinality(Taken)'
<1>1. /\ queue \in Seq(Asks) /\ Len(queue) \in Nat
      /\ \A i \in 1 .. Len(queue) : queue[i] \in Asks
  BY DEF Types
<1>2. /\ queue' \in Seq(Asks) /\ QueuedOnce' /\ Taken \subseteq Taken'
  <2>1. CASE queue' = queue
    BY <1>1, <2>1 DEF QueuedOnce, Taken
  <2>2. CASE queue' = <<>>
    BY <1>1, <2>2 DEF QueuedOnce, Taken
  <2>3. CASE queue # <<>> /\ queue' = Tail(queue)
    <3>1. /\ queue' \in Seq(Asks) /\ Len(queue') = Len(queue) - 1
          /\ \A i \in 1 .. Len(queue') : queue'[i] = queue[i + 1] /\ i + 1 \in 1 .. Len(queue)
      BY <1>1, <2>3
    <3>2. \A i, j \in 1 .. Len(queue') : i + 1 = j + 1 => i = j
      BY <1>1, <3>1
    <3>3. Taken \subseteq Taken'
      BY <2>3, <3>1 DEF Taken
    <3>4. \A i \in 1 .. Len(queue') : ask[queue[i + 1]] # "new" /\ queue[i + 1] \in Asks
      BY <1>1, <3>1 DEF QueuedOnce
    <3>5. \A i, j \in 1 .. Len(queue') : queue[i + 1] = queue[j + 1] => i + 1 = j + 1
      BY <3>1 DEF QueuedOnce
    <3>6. QueuedOnce'
      BY <3>1, <3>2, <3>4, <3>5 DEF QueuedOnce
    <3> QED
      BY <3>1, <3>3, <3>6
  <2>4. ASSUME NEW a \in Asks, ask[a] = "new", ask'[a] # "new", queue' = Append(queue, a)
        PROVE  queue' \in Seq(Asks) /\ QueuedOnce' /\ Taken \subseteq Taken'
    <3>1. /\ queue' \in Seq(Asks) /\ Len(queue') = Len(queue) + 1
          /\ \A i \in 1 .. Len(queue) : queue'[i] = queue[i]
          /\ queue'[Len(queue) + 1] = a
      BY <1>1, <2>4
    <3>2. \A i \in 1 .. Len(queue') : i \in 1 .. Len(queue) \/ i = Len(queue) + 1
      BY <1>1, <3>1
    <3>3. \A i \in 1 .. Len(queue) : queue[i] # a
      BY <2>4 DEF QueuedOnce
    <3>4. Taken \subseteq Taken'
      BY <2>4, <3>1, <3>2 DEF Taken
    <3>5. QueuedOnce'
      BY <1>1, <2>4, <3>1, <3>2, <3>3 DEF QueuedOnce
    <3> QED
      BY <3>1, <3>4, <3>5
  <2> QED
    BY <2>1, <2>2, <2>3, <2>4 DEF QueueStep
<1>3. /\ IsFiniteSet(Taken') /\ Cardinality(Taken') \in Nat
      /\ IsFiniteSet(Taken) /\ Cardinality(Taken) \in Nat
      /\ Cardinality(Taken) <= Cardinality(Taken')
  <2>1. Taken' \in SUBSET Asks
    BY DEF Taken
  <2> QED
    BY <1>2, <2>1, FS_Subset, FS_CardinalityType
<1>4. ASSUME queue # <<>>, queue' = Tail(queue) PROVE Cardinality(Taken) + 1 <= Cardinality(Taken')
  <2>1. /\ 1 \in 1 .. Len(queue) /\ Head(queue) = queue[1] /\ Head(queue) \in Asks
        /\ Len(queue') = Len(queue) - 1
        /\ \A i \in 1 .. Len(queue') : queue'[i] = queue[i + 1] /\ i + 1 \in 2 .. Len(queue)
    BY <1>1, <1>4
  <2>2. \A i \in 2 .. Len(queue) : i \in 1 .. Len(queue) /\ i # 1
    BY <1>1
  <2>3. Head(queue) \in Taken' /\ Head(queue) \notin Taken
    BY <2>1, <2>2 DEF Taken, QueuedOnce
  <2>4. Cardinality(Taken \cup {Head(queue)}) = Cardinality(Taken) + 1
    BY <1>3, <2>3, FS_AddElement
  <2>5. Taken \cup {Head(queue)} \in SUBSET (Taken')
    BY <1>2, <2>3
  <2> QED
    BY <1>3, <2>4, <2>5, FS_Subset
<1> QED
  BY <1>2, <1>3, <1>4

\* Steps of the daemon that leave the window and the engine alone.
LEMMA DaemonKeeps ==
  ASSUME AcceptInv, UNCHANGED uiVars, QueueStep, Len(queue') <= QueueCap,
         ask' \in [Asks -> {"new", "waiting", "accepted", "refused"}],
         \A x \in Asks : ask[x] # "new" => ask'[x] # "new",
         \A x \in Asks : ask'[x] = "accepted" <=> ask[x] = "accepted",
         window' \in BOOLEAN, pending' \in Asks \cup {NoAsk},
         pending' # pending => queue # <<>> /\ queue' = Tail(queue)
  PROVE  AcceptInv'
<1>a. Types /\ QueuedOnce /\ CardsInv /\ ClicksInv
  BY DEF AcceptInv
<1>1. /\ queue' \in Seq(Asks) /\ QueuedOnce'
      /\ Cardinality(Taken)' \in Nat
      /\ Cardinality(Taken) <= Cardinality(Taken)'
      /\ queue # <<>> /\ queue' = Tail(queue) => Cardinality(Taken) + 1 <= Cardinality(Taken)'
  BY <1>a, QueueSteps
<1>2. Types'
  BY <1>a, <1>1 DEF Types, uiVars
<1>3. ToPoll' \in {0, 1} /\ (pending' = pending => ToPoll' = ToPoll)
  BY DEF ToPoll, Polled, uiVars
<1>4. CardsInv'
  <2>1. /\ counter' = counter /\ clicks' = clicks /\ Len(actions)' = Len(actions)
        /\ Cardinality(Incoming(events))' = Cardinality(Incoming(events))
    BY DEF uiVars, Incoming
  <2>2. /\ Cardinality(Taken) \in Nat /\ Cardinality(Incoming(events)) \in Nat
        /\ Len(actions) \in Nat /\ counter \in Nat /\ clicks \in Nat /\ ToPoll \in {0, 1}
    BY <1>a, Numbers
  <2>3. ToPoll' <= ToPoll + (Cardinality(Taken)' - Cardinality(Taken))
    BY <1>1, <1>3, <2>2
  <2> DEFINE rest == counter + Cardinality(Incoming(events)) + Len(actions)
  <2>4. Owed = rest + ToPoll /\ Owed' = rest + ToPoll' /\ rest \in Int
    BY <1>3, <2>1, <2>2 DEF Owed
  <2>5. Owed <= Cardinality(Taken) + clicks
    BY <1>a DEF CardsInv
  <2> HIDE DEF rest
  <2>6. \A r, x, y, t, u, c \in Int :
          x <= y + (u - t) /\ r + y <= t + c => r + x <= u + c
    OBVIOUS
  <2>7. ToPoll' \in Int /\ ToPoll \in Int
    BY <1>3, <2>2
  <2>8. rest + ToPoll' <= Cardinality(Taken)' + clicks
    BY <1>1, <2>2, <2>3, <2>4, <2>5, <2>6, <2>7
  <2> QED
    BY <2>1, <2>4, <2>8 DEF CardsInv
<1>5. Approvals' = Approvals
  BY DEF Approvals
<1>6. ClicksInv'
  BY <1>a, <1>5 DEF ClicksInv, uiVars
<1> QED
  BY <1>1, <1>2, <1>4, <1>6 DEF AcceptInv

LEMMA DaemonAccepts == AcceptInv /\ Daemon => AcceptInv'
<1> SUFFICES ASSUME AcceptInv, Daemon PROVE AcceptInv'
  OBVIOUS
<1>a. /\ ask \in [Asks -> {"new", "waiting", "accepted", "refused"}]
      /\ queue \in Seq(Asks) /\ Len(queue) \in Nat /\ Len(queue) <= QueueCap
      /\ QueueCap \in Nat
      /\ window \in BOOLEAN /\ pending \in Asks \cup {NoAsk}
  BY DEF AcceptInv, Types
<1>1. ASSUME NEW a \in Asks, AskArrives(a) PROVE AcceptInv'
  <2>1. /\ UNCHANGED uiVars /\ window' = window /\ pending' = pending
        /\ ask[a] = "new"
        /\ \/ /\ Len(queue) < QueueCap /\ ask' = [ask EXCEPT ![a] = "waiting"]
              /\ queue' = Append(queue, a)
           \/ ask' = [ask EXCEPT ![a] = "refused"] /\ queue' = queue
    BY <1>1 DEF AskArrives
  <2>2. /\ ask' \in [Asks -> {"new", "waiting", "accepted", "refused"}]
        /\ \A x \in Asks : ask[x] # "new" => ask'[x] # "new"
        /\ \A x \in Asks : ask'[x] = "accepted" <=> ask[x] = "accepted"
        /\ ask'[a] # "new"
    BY <1>a, <2>1
  <2>3. QueueStep /\ Len(queue') <= QueueCap
    BY <1>a, <2>1, <2>2 DEF QueueStep
  <2> QED
    BY <1>a, <2>1, <2>2, <2>3, DaemonKeeps
<1>2. ASSUME NEW a \in Asks, AskTimesOut(a) PROVE AcceptInv'
  <2>1. /\ UNCHANGED uiVars /\ window' = window /\ pending' = pending /\ queue' = queue
        /\ ask' = Answered(ask, a, "refused")
    BY <1>2 DEF AskTimesOut
  <2>2. /\ ask' \in [Asks -> {"new", "waiting", "accepted", "refused"}]
        /\ \A x \in Asks : ask[x] # "new" => ask'[x] # "new"
        /\ \A x \in Asks : ask'[x] = "accepted" <=> ask[x] = "accepted"
    BY <1>a, <2>1 DEF Answered
  <2> QED
    BY <1>a, <2>1, <2>2, DaemonKeeps DEF QueueStep
<1>3. CASE TakeAsk
  <2>1. /\ UNCHANGED uiVars /\ window' = window
        /\ pending' = Head(queue) /\ queue # <<>> /\ queue' = Tail(queue)
        /\ ask' = Answered(ask, pending, "refused")
    BY <1>3 DEF TakeAsk, Displaced
  <2>2. /\ ask' \in [Asks -> {"new", "waiting", "accepted", "refused"}]
        /\ \A x \in Asks : ask[x] # "new" => ask'[x] # "new"
        /\ \A x \in Asks : ask'[x] = "accepted" <=> ask[x] = "accepted"
    BY <1>a, <2>1 DEF Answered
  <2>3. Len(queue') <= QueueCap /\ pending' \in Asks
    BY <1>a, <2>1
  <2> QED
    BY <1>a, <2>1, <2>2, <2>3, DaemonKeeps DEF QueueStep
<1>4. CASE WindowEnds
  <2>1. /\ UNCHANGED uiVars /\ window' = FALSE /\ pending' = pending /\ queue' = <<>>
        /\ ask' = AllRefused
    BY <1>4 DEF WindowEnds
  <2>2. /\ ask' \in [Asks -> {"new", "waiting", "accepted", "refused"}]
        /\ \A x \in Asks : ask[x] # "new" => ask'[x] # "new"
        /\ \A x \in Asks : ask'[x] = "accepted" <=> ask[x] = "accepted"
    BY <1>a, <2>1 DEF AllRefused
  <2>3. Len(queue') <= QueueCap
    BY <1>a, <2>1
  <2> QED
    BY <1>a, <2>1, <2>2, <2>3, DaemonKeeps DEF QueueStep
<1> QED
  BY <1>1, <1>2, <1>3, <1>4 DEF Daemon

LEMMA DifferenceFrom ==
  \A p, d, q, e, k \in Int : p - d <= q - e /\ q <= k + e => p <= k + d
OBVIOUS

LEMMA DifferenceTo ==
  \A p, d, q, e, k \in Int : p - d <= q - e /\ k + q <= e => k + p <= d
OBVIOUS

\* Steps of the window and the engine that leave the daemon's Asks alone.
LEMMA UiKeeps ==
  ASSUME AcceptInv, UNCHANGED <<ask, queue, pending, shown>>, Types',
         Owed' \in Nat, Owed' - clicks' <= Owed - clicks,
         Len(actions)' - clicks' <= Len(actions) - clicks
  PROVE  AcceptInv'
<1>a. Types /\ QueuedOnce /\ CardsInv /\ ClicksInv
  BY DEF AcceptInv
<1>1. /\ QueuedOnce' /\ Approvals' = Approvals
      /\ Cardinality(Taken)' = Cardinality(Taken)
      /\ Cardinality(Approvals)' = Cardinality(Approvals)
  BY <1>a DEF QueuedOnce, Taken, Approvals
<1>2. /\ Cardinality(Taken) \in Nat /\ Cardinality(Approvals) \in Nat
      /\ Len(actions) \in Nat /\ clicks \in Nat /\ Owed \in Nat
  BY <1>a, Numbers
<1>3. Len(actions)' \in Nat /\ clicks' \in Nat
  BY DEF Types
<1>4. CardsInv'
  <2>1. Owed <= Cardinality(Taken) + clicks
    BY <1>a DEF CardsInv
  <2>2. Owed' <= Cardinality(Taken) + clicks'
    <3>1. /\ Owed' \in Int /\ clicks' \in Int /\ Owed \in Int /\ clicks \in Int
          /\ Cardinality(Taken) \in Int
      BY <1>2, <1>3
    <3>2. Owed' - clicks' <= Owed - clicks
      OBVIOUS
    <3> QED
      BY <2>1, <3>1, <3>2, DifferenceFrom
  <2> QED
    BY <1>1, <2>2 DEF CardsInv
<1>5. ClicksInv'
  <2>1. Cardinality(Approvals) + Len(actions) <= clicks
    BY <1>a DEF ClicksInv
  <2>2. Cardinality(Approvals) + Len(actions)' <= clicks'
    BY <1>2, <1>3, <2>1, DifferenceTo
  <2> QED
    BY <1>a, <1>1, <2>2 DEF ClicksInv
<1> QED
  BY <1>1, <1>4, <1>5 DEF AcceptInv

\* The numbers and types that the steps below start from.
LEMMA UiFacts ==
  ASSUME AcceptInv
  PROVE  /\ Types
         /\ events \in Seq(Event) /\ actions \in Seq(Action)
         /\ Cardinality(Incoming(events)) \in Nat
         /\ Len(actions) \in Nat /\ counter \in Nat /\ clicks \in Nat /\ ToPoll \in {0, 1}
         /\ Owed \in Nat
         /\ actions # <<>> =>
              /\ Tail(actions) \in Seq(Action) /\ Head(actions) \in Action
              /\ Len(Tail(actions)) = Len(actions) - 1
<1>1. Types
  BY DEF AcceptInv
<1> QED
  BY <1>1, Numbers DEF Types

\* An action is served that decides nothing.
LEMMA ServedAccepts ==
  ASSUME AcceptInv, actions # <<>>, actions' = Tail(actions), window' \in BOOLEAN,
         UNCHANGED <<ask, queue, pending, lastPending, events, cards, counter, clicks, shown>>
  PROVE  AcceptInv'
<1>1. Types'
  BY UiFacts DEF Types
<1>2. /\ Cardinality(Incoming(events))' = Cardinality(Incoming(events)) /\ ToPoll' = ToPoll
      /\ Len(actions)' = Len(actions) - 1 /\ Len(actions)' \in Nat
  BY UiFacts DEF Incoming, ToPoll, Polled
<1>3. Owed' \in Nat /\ Owed' = Owed - 1
  BY <1>2, UiFacts DEF Owed
<1> QED
  BY <1>1, <1>2, <1>3, UiFacts, UiKeeps

LEMMA PollAccepts == AcceptInv /\ Poll => AcceptInv'
<1> SUFFICES ASSUME AcceptInv, Poll PROVE AcceptInv'
  OBVIOUS
<1>1. /\ Polled # lastPending /\ lastPending' = Polled /\ events' = events \o PollEvents
      /\ UNCHANGED <<ask, queue, window, pending, actions, cards, counter, clicks, shown>>
  BY DEF Poll, daemonVars
<1>2. pending \in Asks \cup {NoAsk}
  BY UiFacts DEF Types
<1>3. \A a \in Asks : LabelOf[a] \in Labels /\ LabelOf[a] # NoAsk
  BY DEF Labels
<1>4. Polled \in Labels \cup {NoAsk} /\ ToPoll' = 0
  BY <1>1, <1>2, <1>3 DEF Polled, ToPoll
<1>5. /\ events' \in Seq(Event)
      /\ Cardinality(Incoming(events))' = Cardinality(Incoming(events)) + ToPoll
  <2>1. CASE pending = NoAsk
    <3>1. /\ PollEvents = <<[type |-> "allCleared"]>> /\ ToPoll = 0
          /\ [type |-> "allCleared"].type # "incoming"
      BY <2>1 DEF PollEvents, ToPoll, Polled
    <3>2. events' = Append(events, [type |-> "allCleared"])
      BY <1>1, <3>1, UiFacts, EventTypes, AppendIsConcat
    <3> QED
      BY <3>1, <3>2, UiFacts, EventTypes, IncomingAppended
  <2>2. CASE pending # NoAsk
    <3> DEFINE e == [type |-> "incoming", label |-> LabelOf[pending]]
    <3>1. PollEvents = <<e>> /\ ToPoll = 1 /\ e.type = "incoming"
      BY <1>1, <1>2, <1>3, <2>2 DEF PollEvents, ToPoll, Polled
    <3>2. e \in Event
      BY <1>2, <1>3, <2>2, EventTypes
    <3> HIDE DEF e
    <3>3. events' = Append(events, e)
      BY <1>1, <3>1, <3>2, UiFacts, AppendIsConcat
    <3> QED
      BY <3>1, <3>2, <3>3, UiFacts, IncomingAppended
  <2> QED
    BY <2>1, <2>2
<1>6. Types'
  BY <1>1, <1>4, <1>5, UiFacts DEF Types
<1>7. Owed' = Owed
  BY <1>1, <1>4, <1>5, UiFacts DEF Owed
<1> QED
  BY <1>1, <1>6, <1>7, UiFacts, UiKeeps

LEMMA PumpAccepts == AcceptInv /\ Pump => AcceptInv'
<1> SUFFICES ASSUME AcceptInv, Pump PROVE AcceptInv'
  OBVIOUS
<1> DEFINE e == Head(events)
<1>1. /\ events # <<>> /\ events' = Tail(events)
      /\ UNCHANGED <<ask, queue, window, pending, lastPending, actions, clicks, shown>>
      /\ \/ /\ e.type = "incoming" /\ counter' = counter + 1
            /\ cards' = cards \cup {[id |-> counter + 1, label |-> e.label]}
         \/ e.type # "incoming" /\ counter' = counter /\ cards' \subseteq cards
  BY DEF Pump, daemonVars
<1>2. /\ events' \in Seq(Event) /\ e \in Event
      /\ Cardinality(Incoming(events)) =
           Cardinality(Incoming(events))' + (IF e.type = "incoming" THEN 1 ELSE 0)
      /\ Cardinality(Incoming(events))' \in Nat
  BY <1>1, UiFacts, IncomingServed, IncomingCount
<1>3. ToPoll' = ToPoll
  BY <1>1 DEF ToPoll, Polled
<1> HIDE DEF e
<1>4. Types'
  <2>1. CASE e.type = "incoming"
    <3>1. /\ Cardinality(Taken) <= Cardinality(Asks) /\ MaxCards = Cardinality(Asks) + MaxClicks
          /\ Cardinality(Taken) \in Nat /\ Cardinality(Asks) \in Nat /\ MaxClicks \in Nat
          /\ clicks \in 0 .. MaxClicks
      BY UiFacts, Numbers DEF Types
    <3>2. counter + 1 \in 1 .. MaxCards
      <4>1. counter + 1 <= Owed
        <5>1. /\ counter \in Nat /\ ToPoll \in {0, 1} /\ Len(actions) \in Nat
              /\ Cardinality(Incoming(events)) \in Nat
          BY UiFacts
        <5>2. Cardinality(Incoming(events)) >= 1
          BY <1>2, <2>1, <5>1
        <5> QED
          BY <5>1, <5>2 DEF Owed
      <4>2. Owed <= Cardinality(Taken) + clicks
        BY DEF AcceptInv, CardsInv
      <4>3. Cardinality(Taken) + clicks <= MaxCards /\ MaxCards \in Nat
        BY <3>1
      <4> QED
        BY <3>1, <4>1, <4>2, <4>3, UiFacts
    <3>3. [id |-> counter + 1, label |-> e.label] \in Card
      BY <1>2, <2>1, <3>2, EventTypes DEF Card
    <3>4. counter' \in 0 .. MaxCards /\ cards' \subseteq Card
      BY <1>1, <2>1, <3>2, <3>3, UiFacts DEF Types
    <3> QED
      BY <1>1, <1>2, <3>4, UiFacts DEF Types
  <2>2. CASE e.type # "incoming"
    BY <1>1, <1>2, <2>2, UiFacts DEF Types
  <2> QED
    BY <2>1, <2>2
<1>5. counter' + Cardinality(Incoming(events))' = counter + Cardinality(Incoming(events))
  BY <1>1, <1>2, UiFacts
<1>6. Len(actions)' = Len(actions) /\ clicks' = clicks
  BY <1>1
<1>7. Owed' = Owed
  <2>1. counter' \in Nat
    BY <1>1, UiFacts
  <2> QED
    BY <1>2, <1>3, <1>5, <1>6, <2>1, UiFacts DEF Owed
<1> QED
  BY <1>1, <1>4, <1>6, <1>7, UiFacts, UiKeeps

\* The list of recipients comes and goes through the same channel.
LEMMA PeersAccept ==
  ASSUME AcceptInv,
         UNCHANGED <<daemonVars, lastPending, actions, cards, counter, clicks, shown>>,
         \/ events' = events
         \/ events' = Append(events, [type |-> "peers"])
         \/ events # <<>> /\ Head(events).type = "peers" /\ events' = Tail(events)
  PROVE  AcceptInv'
<1>1. /\ events' \in Seq(Event)
      /\ Cardinality(Incoming(events))' = Cardinality(Incoming(events))
  <2>1. CASE events' = events
    BY <2>1, UiFacts
  <2>2. CASE events' = Append(events, [type |-> "peers"])
    <3>1. [type |-> "peers"].type # "incoming"
      OBVIOUS
    <3> QED
      BY <2>2, <3>1, UiFacts, EventTypes, IncomingAppended
  <2>3. CASE events # <<>> /\ Head(events).type = "peers" /\ events' = Tail(events)
    <3>1. Cardinality(Incoming(Tail(events))) \in Nat
      BY <2>3, UiFacts, IncomingCount, IncomingServed
    <3>2. Cardinality(Incoming(events)) = Cardinality(Incoming(Tail(events))) + 0
      BY <2>3, UiFacts, IncomingServed
    <3>3. Tail(events) \in Seq(Event)
      BY <2>3, UiFacts, IncomingServed
    <3> QED
      BY <2>3, <3>1, <3>2, <3>3
  <2> QED
    BY <2>1, <2>2, <2>3
<1>2. Types' /\ ToPoll' = ToPoll
  BY <1>1, UiFacts DEF Types, ToPoll, Polled, daemonVars
<1>3. Len(actions)' = Len(actions) /\ Owed' = Owed
  BY <1>1, <1>2 DEF Owed
<1> QED
  BY <1>2, <1>3, UiFacts, UiKeeps DEF daemonVars

LEMMA ClickAccepts ==
  ASSUME AcceptInv, NEW act \in Action, clicks < MaxClicks, clicks' = clicks + 1,
         actions' = Append(actions, act), cards' \subseteq cards,
         UNCHANGED <<daemonVars, lastPending, events, counter, shown>>
  PROVE  AcceptInv'
<1>1. actions' \in Seq(Action) /\ Len(actions)' = Len(actions) + 1
  BY UiFacts
<1>2. clicks' \in 0 .. MaxClicks
  BY UiFacts, Numbers
<1>3. Types' /\ ToPoll' = ToPoll
  BY <1>1, <1>2, UiFacts DEF Types, ToPoll, Polled, daemonVars
<1>4. Cardinality(Incoming(events))' = Cardinality(Incoming(events))
  OBVIOUS
<1>5. Owed' = Owed + 1
  <2>1. /\ counter \in Nat /\ Cardinality(Incoming(events)) \in Nat /\ ToPoll \in {0, 1}
        /\ Len(actions) \in Nat
    BY UiFacts
  <2>2. Owed' = counter + Cardinality(Incoming(events)) + ToPoll + (Len(actions) + 1)
    BY <1>1, <1>3, <1>4 DEF Owed
  <2> QED
    BY <2>1, <2>2 DEF Owed
<1> QED
  BY <1>1, <1>3, <1>5, UiFacts, UiKeeps DEF daemonVars

\* Whatever answers or drops the pending Ask: the click it serves is spent,
\* on the one acceptance there may be and on the card a reset may cost.
LEMMA PendingAnswered ==
  ASSUME AcceptInv, actions # <<>>, actions' = Tail(actions), Types', QueueStep,
         \A x \in Asks : ask[x] # "new" => ask'[x] # "new",
         UNCHANGED <<counter, clicks>>,
         Cardinality(Incoming(events))' = Cardinality(Incoming(events)),
         shown \subseteq shown',
         \/ Approvals' = Approvals
         \/ \E a \in Asks, b \in Labels : Approvals' = Approvals \cup {a} /\ <<a, b>> \in shown'
  PROVE  AcceptInv'
<1>a. Types /\ QueuedOnce /\ CardsInv /\ ClicksInv
  BY DEF AcceptInv
<1>1. /\ QueuedOnce'
      /\ Cardinality(Taken)' \in Nat
      /\ Cardinality(Taken) <= Cardinality(Taken)'
  BY <1>a, QueueSteps
<1>2. /\ Cardinality(Taken) \in Nat /\ Cardinality(Incoming(events)) \in Nat
      /\ IsFiniteSet(Approvals) /\ Cardinality(Approvals) \in Nat
      /\ Len(actions) \in Nat /\ counter \in Nat /\ clicks \in Nat /\ ToPoll \in {0, 1}
      /\ Owed \in Nat
  BY <1>a, Numbers
<1>3. Len(actions)' = Len(actions) - 1
  BY UiFacts
<1>4. ToPoll' \in {0, 1}
  BY DEF ToPoll
<1>5. CardsInv'
  <2>1. Owed' = counter + Cardinality(Incoming(events)) + ToPoll' + (Len(actions) - 1)
    BY <1>3 DEF Owed
  <2>2. Owed' <= Owed
    BY <1>2, <1>4, <2>1 DEF Owed
  <2>3. Owed' \in Int
    BY <1>2, <1>4, <2>1
  <2>4. Owed <= Cardinality(Taken) + clicks
    BY <1>a DEF CardsInv
  <2>5. Owed' <= Cardinality(Taken)' + clicks
    BY <1>1, <1>2, <2>2, <2>3, <2>4
  <2> QED
    BY <2>5 DEF CardsInv
<1>6. Cardinality(Approvals)' <= Cardinality(Approvals) + 1 /\ Cardinality(Approvals)' \in Nat
  <2>1. CASE Approvals' = Approvals
    BY <1>2, <2>1
  <2>2. ASSUME NEW a, Approvals' = Approvals \cup {a}
        PROVE  /\ Cardinality(Approvals)' <= Cardinality(Approvals) + 1
               /\ Cardinality(Approvals)' \in Nat
    <3>1. Cardinality(Approvals \cup {a}) =
            IF a \in Approvals THEN Cardinality(Approvals) ELSE Cardinality(Approvals) + 1
      BY <1>2, FS_AddElement
    <3>2. Cardinality(Approvals)' = Cardinality(Approvals \cup {a})
      BY <2>2
    <3> QED
      BY <1>2, <3>1, <3>2
  <2> QED
    BY <2>1, <2>2
<1>7. ClicksInv'
  <2>1. Cardinality(Approvals) + Len(actions) <= clicks
    BY <1>a DEF ClicksInv
  <2>2. Cardinality(Approvals)' + Len(actions)' <= clicks'
    BY <1>2, <1>3, <1>6, <2>1
  <2>3. (\A a \in Approvals : \E b \in Labels : <<a, b>> \in shown)'
    BY <1>a DEF ClicksInv
  <2> QED
    BY <2>2, <2>3 DEF ClicksInv
<1> QED
  BY <1>1, <1>5, <1>7 DEF AcceptInv

LEMMA DecidesAccepts == AcceptInv /\ EngineDecides => AcceptInv'
<1> SUFFICES ASSUME AcceptInv, EngineDecides PROVE AcceptInv'
  OBVIOUS
<1> DEFINE act == Head(actions)
           cleared == [type |-> "cleared", id |-> act.card.id]
<1>1. /\ actions # <<>> /\ actions' = Tail(actions)
      /\ act.op \in {"approve", "decline"}
      /\ lastPending' = NoAsk /\ events' = Append(events, cleared)
      /\ UNCHANGED <<queue, window, cards, counter, clicks>>
      /\ \/ /\ ask' = Answered(ask, pending, IF act.op = "approve" THEN "accepted" ELSE "refused")
            /\ pending' = NoAsk
            /\ shown' = IF act.op = "approve" /\ pending # NoAsk /\ ask[pending] = "waiting"
                        THEN shown \cup {<<pending, act.card.label>>} ELSE shown
         \/ UNCHANGED <<ask, pending, shown>>
  BY DEF EngineDecides
<1>2. act.card \in Card /\ act.card.id \in Nat /\ act.card.label \in Labels
  <2>1. act \in Action
    BY <1>1, UiFacts
  <2>2. act.card \in Card
    BY <1>1, <2>1 DEF Action
  <2>3. MaxCards \in Nat
    BY UiFacts, Numbers
  <2> QED
    BY <2>2, <2>3 DEF Card
<1>3. cleared \in Event /\ cleared.type # "incoming"
  BY <1>2, EventTypes
<1> HIDE DEF act, cleared
<1>4. /\ events' \in Seq(Event)
      /\ Cardinality(Incoming(events))' = Cardinality(Incoming(events))
  <2>1. Cardinality(Incoming(events))' = Cardinality(Incoming(events)) + 0
    BY <1>1, <1>3, UiFacts, IncomingAppended
  <2> QED
    BY <1>1, <1>3, <2>1, UiFacts, IncomingAppended
<1>5. /\ ask \in [Asks -> {"new", "waiting", "accepted", "refused"}]
      /\ pending \in Asks \cup {NoAsk} /\ shown \subseteq Asks \X Labels
  BY UiFacts DEF Types
<1>6. /\ ask' \in [Asks -> {"new", "waiting", "accepted", "refused"}]
      /\ \A x \in Asks : ask[x] # "new" => ask'[x] # "new"
      /\ pending' \in Asks \cup {NoAsk}
      /\ shown \subseteq shown' /\ shown' \subseteq Asks \X Labels
      /\ \/ Approvals' = Approvals
         \/ \E a \in Asks, b \in Labels : Approvals' = Approvals \cup {a} /\ <<a, b>> \in shown'
  <2>1. CASE UNCHANGED <<ask, pending, shown>>
    BY <1>5, <2>1 DEF Approvals
  <2>2. CASE act.op = "approve" /\ pending # NoAsk /\ ask[pending] = "waiting"
             /\ ask' = Answered(ask, pending, "accepted") /\ pending' = NoAsk
             /\ shown' = shown \cup {<<pending, act.card.label>>}
    <3>1. pending \in Asks
      BY <1>5, <2>2
    <3>2. Approvals' = Approvals \cup {pending}
      BY <1>5, <2>2, <3>1 DEF Approvals, Answered
    <3>3. /\ ask' \in [Asks -> {"new", "waiting", "accepted", "refused"}]
          /\ \A x \in Asks : ask[x] # "new" => ask'[x] # "new"
      BY <1>5, <2>2 DEF Answered
    <3> QED
      BY <1>2, <1>5, <2>2, <3>1, <3>2, <3>3
  <2>3. ASSUME ~(act.op = "approve" /\ pending # NoAsk /\ ask[pending] = "waiting"),
               NEW to \in {"accepted", "refused"}, ask' = Answered(ask, pending, to),
               to = "accepted" => act.op = "approve",
               pending' = NoAsk, shown' = shown
        PROVE  /\ ask' \in [Asks -> {"new", "waiting", "accepted", "refused"}]
               /\ \A x \in Asks : ask[x] # "new" => ask'[x] # "new"
               /\ Approvals' = Approvals
    BY <1>5, <2>3 DEF Answered, Approvals
  <2> QED
    BY <1>1, <1>5, <2>1, <2>2, <2>3
<1>7. Types'
  BY <1>1, <1>4, <1>6, UiFacts DEF Types
<1>8. QueueStep
  BY <1>1 DEF QueueStep
<1> QED
  BY <1>1, <1>4, <1>6, <1>7, <1>8, PendingAnswered

LEMMA StopsAccepts == AcceptInv /\ EngineStops => AcceptInv'
<1> SUFFICES ASSUME AcceptInv, EngineStops PROVE AcceptInv'
  OBVIOUS
<1>1. /\ actions # <<>> /\ actions' = Tail(actions)
      /\ UNCHANGED <<cards, counter, clicks, shown>>
      /\ \/ UNCHANGED <<ask, queue, window, pending>>
         \/ window' = FALSE /\ queue' = <<>> /\ ask' = AllRefused /\ pending' = NoAsk
      /\ \/ UNCHANGED <<lastPending, events>>
         \/ lastPending' = NoAsk /\ events' = Append(events, [type |-> "allCleared"])
  BY DEF EngineStops, daemonVars
<1>2. [type |-> "allCleared"] \in Event /\ [type |-> "allCleared"].type # "incoming"
  BY EventTypes
<1>3. /\ events' \in Seq(Event) /\ lastPending' \in Labels \cup {NoAsk}
      /\ Cardinality(Incoming(events))' = Cardinality(Incoming(events))
  <2>1. CASE UNCHANGED <<lastPending, events>>
    BY <2>1, UiFacts DEF Types
  <2>2. CASE lastPending' = NoAsk /\ events' = Append(events, [type |-> "allCleared"])
    <3>1. Cardinality(Incoming(events))' = Cardinality(Incoming(events)) + 0
      BY <1>2, <2>2, UiFacts, IncomingAppended
    <3> QED
      BY <1>2, <2>2, <3>1, UiFacts, IncomingAppended
  <2> QED
    BY <1>1, <2>1, <2>2
<1>4. /\ ask \in [Asks -> {"new", "waiting", "accepted", "refused"}]
      /\ queue \in Seq(Asks) /\ Len(queue) <= QueueCap
      /\ window \in BOOLEAN /\ pending \in Asks \cup {NoAsk}
  BY UiFacts DEF Types
<1>5. /\ ask' \in [Asks -> {"new", "waiting", "accepted", "refused"}]
      /\ \A x \in Asks : ask[x] # "new" => ask'[x] # "new"
      /\ Approvals' = Approvals
      /\ QueueStep /\ queue' \in Seq(Asks) /\ Len(queue') <= QueueCap
      /\ window' \in BOOLEAN /\ pending' \in Asks \cup {NoAsk}
  <2>1. CASE UNCHANGED <<ask, queue, window, pending>>
    BY <1>4, <2>1 DEF Approvals, QueueStep
  <2>2. CASE window' = FALSE /\ queue' = <<>> /\ ask' = AllRefused /\ pending' = NoAsk
    <3>1. /\ queue' \in Seq(Asks) /\ Len(queue') <= QueueCap
      BY <2>2
    <3> QED
      BY <1>4, <2>2, <3>1 DEF AllRefused, Approvals, QueueStep
  <2> QED
    BY <1>1, <2>1, <2>2
<1>6. Types'
  BY <1>1, <1>3, <1>5, UiFacts DEF Types
<1> QED
  BY <1>1, <1>3, <1>5, <1>6, UiFacts, PendingAnswered
-----------------------------------------------------------------------------
LEMMA AcceptInit == EInit => AcceptInv
<1> SUFFICES ASSUME EInit PROVE AcceptInv
  OBVIOUS
<1> USE DEF EInit, Init
<1>1. /\ Cardinality(Asks) \in Nat /\ MaxCards \in Nat /\ MaxClicks \in Nat
  BY FS_CardinalityType DEF MaxCards
<1>2. /\ queue \in Seq(Asks) /\ Len(queue) = 0
      /\ events \in Seq(Event) /\ Len(events) = 0
      /\ actions \in Seq(Action) /\ Len(actions) = 0
  OBVIOUS
<1>3. Types
  BY <1>1, <1>2 DEF Types
<1>4. QueuedOnce
  BY <1>2 DEF QueuedOnce
<1>5. Incoming(events) = {} /\ Taken = {} /\ Approvals = {}
  BY <1>2 DEF Incoming, Taken, Approvals
<1>6. Cardinality(Incoming(events)) = 0 /\ Cardinality(Taken) = 0 /\ Cardinality(Approvals) = 0
  BY <1>5, FS_EmptySet
<1>7. ToPoll = 0
  BY DEF ToPoll, Polled
<1>8. CardsInv
  BY <1>2, <1>6, <1>7 DEF CardsInv, Owed
<1>9. ClicksInv
  BY <1>2, <1>5, <1>6 DEF ClicksInv
<1> QED
  BY <1>3, <1>4, <1>8, <1>9 DEF AcceptInv

LEMMA AcceptStep == EngineInv /\ AcceptInv /\ [ENext]_allVars => AcceptInv'
<1> SUFFICES ASSUME EngineInv, AcceptInv, [ENext]_allVars PROVE AcceptInv'
  OBVIOUS
<1>a. /\ engine = "radio" => actions # <<>>
      /\ clicks \in Nat /\ clicks \in 0 .. MaxClicks /\ MaxClicks \in Nat /\ window \in BOOLEAN
  BY UiFacts DEF EngineInv, QueueInv, Types
<1>b. \A op \in WindowOps, n \in 1 .. MaxClicks : [op |-> op, click |-> n] \in Action
  BY DEF Action, WindowOps
<1>c. \A op \in {"approve", "decline"}, k \in cards : [op |-> op, card |-> k] \in Action
  BY UiFacts DEF Action, Types
<1> USE DEF allVars, vars, outVars, daemonVars, uiVars, incomingKeep
<1>1. CASE UNCHANGED allVars \/ TransferEnds \/ RadioExpires \/ StopOutgoing
  BY <1>1, PeersAccept DEF TransferEnds, RadioExpires, StopOutgoing
<1>2. CASE Daemon
  BY <1>2, DaemonAccepts
<1>3. CASE EPoll \/ EPump
  BY <1>3, PollAccepts, PumpAccepts DEF EPoll, EPump
<1>4. CASE Decides
  BY <1>4, DecidesAccepts DEF Decides
<1>5. CASE StopDaemon
  BY <1>5, StopsAccepts DEF StopDaemon
<1>6. CASE BrowseEnds
  BY <1>6, PeersAccept DEF BrowseEnds
<1>7. CASE PumpPeers
  BY <1>7, PeersAccept DEF PumpPeers
<1>8. CASE Starts
  <2>1. window' \in BOOLEAN
    BY <1>a, <1>8 DEF Starts, EngineStarts
  <2> QED
    BY <1>8, <2>1, ServedAccepts DEF Starts, EngineStarts
<1>9. CASE Send
  <2>1. CASE UNCHANGED actions
    BY <1>9, <2>1, PeersAccept DEF Send
  <2>2. CASE actions' = Tail(actions)
    BY <1>a, <1>9, <2>2, ServedAccepts DEF Send, Serving
  <2> QED
    BY <1>9, <2>1, <2>2 DEF Send
<1>10. CASE RadioStarts \/ RadioFails
  BY <1>a, <1>10, ServedAccepts DEF RadioStarts, RadioFails
<1>11. CASE Cancel \/ Browse
  BY <1>a, <1>11, ServedAccepts DEF Cancel, Browse, Serving
<1>12. CASE User
  <2>1. ASSUME NEW k \in cards, NEW op \in {"approve", "decline"}, Click(k, op) PROVE AcceptInv'
    <3>1. cards \ {k} \subseteq cards /\ [op |-> op, card |-> k] \in Action
      BY <1>c
    <3> QED
      BY <2>1, <3>1, ClickAccepts DEF Click
  <2>2. ASSUME NEW op \in WindowOps, ClickWindow(op) PROVE AcceptInv'
    <3>1. clicks + 1 \in 1 .. MaxClicks
      BY <1>a, <2>2 DEF ClickWindow
    <3>2. [op |-> op, click |-> clicks + 1] \in Action
      BY <1>b, <3>1
    <3> QED
      BY <2>2, <3>2, ClickAccepts DEF ClickWindow
  <2> QED
    BY <1>12, <2>1, <2>2 DEF User, WindowOps
<1> QED
  BY <1>1, <1>2, <1>3, <1>4, <1>5, <1>6, <1>7, <1>8, <1>9, <1>10, <1>11, <1>12 DEF ENext

LEMMA AcceptInvAccepts == AcceptInv => AcceptedByAClick
<1> SUFFICES ASSUME AcceptInv PROVE AcceptedByAClick
  OBVIOUS
<1>1. TypeOK
  <2>1. /\ \A i \in DOMAIN queue : queue[i] \in Asks
        /\ \A i \in DOMAIN events : events[i] \in Event
        /\ \A i \in DOMAIN actions : actions[i] \in Action
    BY UiFacts DEF Types
  <2> QED
    BY <2>1, UiFacts DEF Types, TypeOK
<1>2. Cardinality(Approvals) <= clicks
  <2>1. Cardinality(Approvals) \in Nat /\ Len(actions) \in Nat /\ clicks \in Nat
    BY UiFacts, Numbers
  <2>2. Cardinality(Approvals) + Len(actions) <= clicks
    BY DEF AcceptInv, ClicksInv
  <2> QED
    BY <2>1, <2>2
<1> QED
  BY <1>1, <1>2 DEF AcceptedByAClick, AcceptInv, ClicksInv

\* No Ask is accepted without a click of its own, whatever displaces it, times
\* it out or ends its window, and the window never makes more cards than
\* there were Asks and clicks (start_receive, stop and decide of daemon.rs, the
\* engine's poll and the cards of ui.rs).
THEOREM AcceptanceTakesAClick == ESpec => []AcceptedByAClick
<1>1. ESpec => [](EngineInv /\ AcceptInv)
  BY EngineInit, EngineStep, AcceptInit, AcceptStep, PTL DEF ESpec
<1> QED
  BY <1>1, AcceptInvAccepts, PTL
-----------------------------------------------------------------------------
(* RadioIsFreed.  The radio is up without the engine owning it only after  *)
(* a command to it failed, and Stop and Quit give it up.                   *)

RadioInv ==
  /\ radio => owned \/ fault
  /\ engine \in {"stopping", "gone"} => ~owned

LEMMA RadioStep == RadioInv /\ [ENext]_allVars => RadioInv'
<1> SUFFICES ASSUME RadioInv, [ENext]_allVars PROVE RadioInv'
  OBVIOUS
<1> USE DEF RadioInv, allVars, outVars
<1>1. CASE UNCHANGED outVars
  BY <1>1
<1>2. CASE TransferEnds \/ RadioExpires
  BY <1>2 DEF TransferEnds, RadioExpires
<1>3. CASE Send \/ Cancel \/ Browse
  BY <1>3 DEF Send, Cancel, Browse, Serving
<1>4. CASE RadioStarts \/ RadioFails
  BY <1>4 DEF RadioStarts, RadioFails, Own
<1>5. CASE BrowseEnds \/ PumpPeers
  BY <1>5 DEF BrowseEnds, PumpPeers
<1>6. CASE StopOutgoing
  BY <1>6 DEF StopOutgoing
<1>7. CASE StopDaemon
  BY <1>7 DEF StopDaemon
<1>8. CASE User
  BY <1>8 DEF User
<1> QED
  BY <1>1, <1>2, <1>3, <1>4, <1>5, <1>6, <1>7, <1>8
  DEF ENext, Daemon, EPoll, Decides, Starts, EPump

\* Once the engine has quit, the radio service it started is down, unless a
\* command to it failed: also after transfers that ended, were cancelled, or
\* whose radio was started twice (radio_owned in engine of ui.rs).
THEOREM RadioIsGivenBack == ESpec => []RadioIsFreed
<1>1. EInit => RadioInv
  BY DEF EInit, RadioInv
<1>2. RadioInv => RadioIsFreed
  BY DEF RadioInv, RadioIsFreed
<1> QED
  BY <1>1, <1>2, RadioStep, PTL DEF ESpec
-----------------------------------------------------------------------------
(* Quit: the safety part of QuitEnds.                                      *)

\* Quit is the last thing the engine is told: until it is served it is at the
\* end of the queue, and nothing is behind it.  No transfer runs from the
\* moment the engine stops.
QuitIsLast ==
  /\ closed /\ engine # "gone" => actions # <<>> /\ actions[Len(actions)].op = "quit"
  /\ \A i \in 1 .. Len(actions) : actions[i].op = "quit" => closed /\ i = Len(actions)
  /\ engine = "gone" => closed /\ actions = <<>>
  /\ engine \in {"stopping", "gone"} => running = 0

\* Once the window is closed, every action the engine serves brings Quit nearer.
ComesToQuit ==
  closed => /\ closed'
            /\ \/ actions' = actions
               \/ actions # <<>> /\ actions' = Tail(actions)

LEMMA TailFacts ==
  ASSUME NEW S, NEW s \in Seq(S), s # <<>>
  PROVE  /\ Len(s) \in Nat \ {0} /\ Len(Tail(s)) = Len(s) - 1 /\ Head(s) = s[1]
         /\ \A i \in 1 .. Len(Tail(s)) : i + 1 \in 2 .. Len(s) /\ Tail(s)[i] = s[i + 1]
         /\ \A i \in 2 .. Len(s) : i - 1 \in 1 .. Len(Tail(s)) /\ Tail(s)[i - 1] = s[i]
<1>1. /\ Len(s) \in Nat \ {0} /\ Len(Tail(s)) = Len(s) - 1 /\ Head(s) = s[1]
      /\ \A i \in 1 .. Len(s) - 1 : Tail(s)[i] = s[i + 1]
  OBVIOUS
<1>2. \A i \in 1 .. Len(Tail(s)) : i + 1 \in 2 .. Len(s) /\ Tail(s)[i] = s[i + 1]
  BY <1>1
<1>3. ASSUME NEW i \in 2 .. Len(s) PROVE i - 1 \in 1 .. Len(Tail(s)) /\ Tail(s)[i - 1] = s[i]
  <2>1. i - 1 \in 1 .. Len(s) - 1 /\ (i - 1) + 1 = i
    BY <1>1
  <2>2. Tail(s)[i - 1] = s[(i - 1) + 1]
    BY <1>1, <2>1
  <2> QED
    BY <1>1, <2>1, <2>2
<1> QED
  BY <1>1, <1>2, <1>3

LEMMA AppendFacts ==
  ASSUME NEW S, NEW s \in Seq(S), NEW a
  PROVE  /\ Len(s) \in Nat /\ Len(Append(s, a)) = Len(s) + 1 /\ Append(s, a) # <<>>
         /\ \A i \in 1 .. Len(s) : i \in 1 .. Len(Append(s, a)) /\ Append(s, a)[i] = s[i]
         /\ Append(s, a)[Len(s) + 1] = a /\ Len(s) + 1 \in 1 .. Len(Append(s, a))
         /\ \A i \in 1 .. Len(Append(s, a)) : i \in 1 .. Len(s) \/ i = Len(s) + 1
<1>1. s \in Seq(S \cup {a}) /\ a \in S \cup {a}
  BY SeqMonotonic
<1>2. /\ Len(s) \in Nat /\ Len(Append(s, a)) = Len(s) + 1
      /\ \A i \in 1 .. Len(s) : Append(s, a)[i] = s[i]
      /\ Append(s, a)[Len(s) + 1] = a
  BY <1>1
<1>3. Append(s, a) # <<>>
  BY <1>2
<1> QED
  BY <1>2, <1>3

\* The action at the head is served, by the loop or by the end of Stop and Quit.
LEMMA QuitServed ==
  ASSUME EngineInv, QuitIsLast, actions # <<>>, actions' = Tail(actions),
         engine' = (IF Head(actions).op = "quit" THEN "gone" ELSE "idle"),
         Head(actions).op = "quit" => running' = 0, closed' = closed, engine # "gone"
  PROVE  QuitIsLast'
<1>1. PICK S : actions \in Seq(S)
  BY DEF EngineInv, QueueInv
<1>2. /\ Len(actions) \in Nat \ {0} /\ Len(actions') = Len(actions) - 1
      /\ Head(actions) = actions[1]
      /\ \A i \in 1 .. Len(actions') : i + 1 \in 2 .. Len(actions) /\ actions'[i] = actions[i + 1]
      /\ \A i \in 2 .. Len(actions) : i - 1 \in 1 .. Len(actions') /\ actions'[i - 1] = actions[i]
      /\ actions' \in Seq(S)
  BY <1>1, TailFacts
<1>3. ASSUME NEW i \in 1 .. Len(actions'), actions'[i].op = "quit" PROVE closed' /\ i = Len(actions')
  <2>1. i + 1 \in 1 .. Len(actions) /\ actions[i + 1].op = "quit"
    BY <1>2, <1>3
  <2>2. closed /\ i + 1 = Len(actions)
    BY <2>1 DEF QuitIsLast
  <2>3. i = Len(actions')
    <3>1. i \in Nat
      BY <1>2
    <3>2. Len(actions) \in Nat /\ Len(actions') = Len(actions) - 1 /\ i + 1 = Len(actions)
      BY <1>2, <2>2
    <3>3. ASSUME NEW m \in Nat, NEW n \in Nat, m + 1 = n PROVE m = n - 1
      BY <3>3
    <3> QED
      BY <3>1, <3>2, <3>3, Zenon
  <2> QED
    BY <2>2, <2>3, Zenon
<1>4. CASE Head(actions).op = "quit"
  <2>1. closed /\ 1 = Len(actions)
    <3>1. 1 \in 1 .. Len(actions) /\ actions[1].op = "quit"
      BY <1>2, <1>4
    <3> QED
      BY <3>1, Zenon DEF QuitIsLast
  <2>2. Len(actions') = 0
    BY <1>2, <2>1
  <2>3. actions' = <<>>
    BY <1>2, <2>2, EmptySeq
  <2> QED
    BY <1>3, <1>4, <2>1, <2>3 DEF QuitIsLast
<1>5. CASE Head(actions).op # "quit"
  <2>1. ASSUME closed PROVE actions' # <<>> /\ actions'[Len(actions')].op = "quit"
    <3>1. actions[Len(actions)].op = "quit"
      BY <2>1 DEF QuitIsLast
    <3>2. Len(actions) \in 2 .. Len(actions)
      BY <1>2, <1>5, <3>1
    <3>3. Len(actions) - 1 \in 1 .. Len(actions') /\ actions'[Len(actions) - 1].op = "quit"
      BY <1>2, <3>1, <3>2
    <3>4. Len(actions') = Len(actions) - 1 /\ Len(actions') # 0
      BY <1>2, <3>2
    <3> QED
      BY <3>3, <3>4
  <2> QED
    BY <1>3, <1>5, <2>1 DEF QuitIsLast
<1> QED
  BY <1>4, <1>5

\* Quit is the click that closes the window; there is none after it.
LEMMA QuitClicked ==
  ASSUME EngineInv, QuitIsLast, ~closed, NEW a, actions' = Append(actions, a),
         UNCHANGED <<engine, running>>, closed' = (a.op = "quit")
  PROVE  QuitIsLast'
<1>1. PICK S : actions \in Seq(S)
  BY DEF EngineInv, QueueInv
<1>2. /\ Len(actions) \in Nat /\ Len(actions') = Len(actions) + 1 /\ actions' # <<>>
      /\ \A i \in 1 .. Len(actions) : actions'[i] = actions[i]
      /\ actions'[Len(actions) + 1] = a
      /\ \A i \in 1 .. Len(actions') : i \in 1 .. Len(actions) \/ i = Len(actions) + 1
  BY <1>1, AppendFacts
<1>3. \A i \in 1 .. Len(actions) : actions[i].op # "quit"
  BY DEF QuitIsLast
<1>4. engine # "gone"
  BY DEF QuitIsLast
<1>5. ASSUME NEW i \in 1 .. Len(actions'), actions'[i].op = "quit" PROVE closed' /\ i = Len(actions')
  BY <1>2, <1>3, <1>5
<1>6. closed' => actions'[Len(actions')].op = "quit"
  BY <1>2
<1> QED
  BY <1>2, <1>4, <1>5, <1>6 DEF QuitIsLast

LEMMA QuitStep ==
  EngineInv /\ QuitIsLast /\ [ENext]_allVars => QuitIsLast' /\ (ComesToQuit \/ UNCHANGED allVars)
<1> SUFFICES ASSUME EngineInv, QuitIsLast, [ENext]_allVars
             PROVE  QuitIsLast' /\ (ComesToQuit \/ UNCHANGED allVars)
  OBVIOUS
<1> USE DEF allVars, vars, outVars, daemonVars, uiVars, incomingKeep
<1>1. ASSUME UNCHANGED <<actions, closed>>, engine' = engine, running' \in {running, 0}
      PROVE  QuitIsLast' /\ ComesToQuit
  BY <1>1 DEF QuitIsLast, ComesToQuit
<1>2. ASSUME UNCHANGED <<actions, closed>>, engine = "idle",
             \/ engine' = "radio"
             \/ engine' = "stopping" /\ running' = 0
      PROVE  QuitIsLast' /\ ComesToQuit
  BY <1>2 DEF QuitIsLast, ComesToQuit
<1>3. CASE UNCHANGED allVars \/ EPoll \/ EPump \/ PumpPeers \/ BrowseEnds
  BY <1>1, <1>3 DEF EPoll, Poll, EPump, Pump, PumpPeers, BrowseEnds
<1>4. CASE Daemon
  BY <1>1, <1>4 DEF Daemon, AskArrives, AskTimesOut, TakeAsk, WindowEnds
<1>5. CASE TransferEnds \/ RadioExpires
  BY <1>1, <1>5 DEF TransferEnds, RadioExpires
<1>6. CASE StopOutgoing
  BY <1>2, <1>6 DEF StopOutgoing, Serving, AbortTransfer
<1>7. CASE Decides \/ Starts
  <2>1. /\ actions # <<>> /\ Head(actions).op \in {"approve", "decline", "start"}
        /\ actions' = Tail(actions) /\ engine = "idle" /\ UNCHANGED outVars
    BY <1>7 DEF Decides, EngineDecides, Starts, EngineStarts
  <2> QED
    BY <2>1, QuitServed DEF ComesToQuit
<1>8. CASE Cancel \/ Browse
  BY <1>8, QuitServed DEF Cancel, Browse, Serving, ComesToQuit
<1>9. CASE Send
  BY <1>2, <1>9, QuitServed DEF Send, Serving, ComesToQuit
<1>10. CASE RadioStarts \/ RadioFails
  <2>1. actions # <<>> /\ Head(actions).op = "send" /\ engine = "radio"
    BY <1>10 DEF RadioStarts, RadioFails, EngineInv, QueueInv
  <2> QED
    BY <1>10, <2>1, QuitServed DEF RadioStarts, RadioFails, ComesToQuit
<1>11. CASE StopDaemon
  <2>1. running = 0 /\ engine = "stopping"
    BY <1>11 DEF StopDaemon, QuitIsLast
  <2> QED
    BY <1>11, <2>1, QuitServed DEF StopDaemon, EngineStops, AfterStop, ComesToQuit
<1>12. CASE User
  <2>1. ~closed /\ ComesToQuit
    BY <1>12 DEF User, ComesToQuit
  <2>2. ASSUME NEW k \in cards, NEW op \in {"approve", "decline"}, Click(k, op), UNCHANGED outVars
        PROVE  QuitIsLast'
    <3>1. actions' = Append(actions, [op |-> op, card |-> k]) /\ [op |-> op, card |-> k].op # "quit"
      BY <2>2 DEF Click
    <3>2. closed' = FALSE /\ closed' = ([op |-> op, card |-> k].op = "quit")
      BY <2>1, <2>2, <3>1 DEF EngineInv, CountInv
    <3> QED
      BY <2>1, <2>2, <3>1, <3>2, QuitClicked
  <2>3. ASSUME NEW op \in WindowOps, ClickWindow(op), UNCHANGED <<engine, running>>,
               closed' = (op = "quit")
        PROVE  QuitIsLast'
    <3>1. /\ actions' = Append(actions, [op |-> op, click |-> clicks + 1])
          /\ closed' = ([op |-> op, click |-> clicks + 1].op = "quit")
      BY <2>3 DEF ClickWindow
    <3> QED
      BY <2>1, <2>3, <3>1, QuitClicked
  <2>4. closed = FALSE
    BY <2>1 DEF EngineInv, CountInv
  <2> QED
    BY <1>12, <2>1, <2>2, <2>3, <2>4 DEF User, WindowOps
<1> QED
  BY <1>3, <1>4, <1>5, <1>6, <1>7, <1>8, <1>9, <1>10, <1>11, <1>12 DEF ENext

LEMMA QuitInvariant == ESpec => [](EngineInv /\ QuitIsLast)
<1>1. EInit => QuitIsLast
  <2> SUFFICES ASSUME EInit PROVE QuitIsLast
    OBVIOUS
  <2>1. actions = <<>> /\ Len(actions) = 0 /\ engine = "idle" /\ closed = FALSE
    BY DEF EInit, Init
  <2> QED
    BY <2>1 DEF QuitIsLast
<1> QED
  BY <1>1, EngineInit, EngineStep, QuitStep, PTL DEF ESpec

\* Closing the window puts Quit at the end of what the engine has to serve;
\* nothing is put behind it and nothing takes it out; when the engine is gone
\* it has served everything, and no transfer runs (Quit in engine of ui.rs).
THEOREM QuitIsTheEnd == ESpec => []QuitIsLast
BY QuitInvariant, PTL

\* Once the window is closed, the queue before Quit only gets shorter.  With
\* QuitIsTheEnd, what QuitEnds needs besides the fairness of the engine.
THEOREM QuitComesNearer == ESpec => [][ComesToQuit]_allVars
<1>1. EngineInv /\ QuitIsLast /\ [ENext]_allVars => [ComesToQuit]_allVars
  BY QuitStep
<1> QED
  BY <1>1, QuitInvariant, PTL DEF ESpec
-----------------------------------------------------------------------------
(* What the engine believes to be on screen: the safety part of            *)
(* PendingIsShown.                                                         *)

Decisions == {"approve", "decline"}

\* Cards are numbered by the window; what names a card names one it has made.
CardsCounted == \A k \in cards : k.id <= counter
ClearedCounted == \A i \in 1 .. Len(events) : events[i].type = "cleared" => events[i].id <= counter
ClickedCounted ==
  \A i \in 1 .. Len(actions) : actions[i].op \in Decisions => actions[i].card.id <= counter

\* A card for l is still to come, and nothing on the way removes it.
ComesUp(l) ==
  \E i \in 1 .. Len(events) :
    /\ events[i].type = "incoming" /\ events[i].label = l
    /\ \A j \in 1 .. Len(events) : j > i => events[j].type # "allCleared"

\* A card for l is on screen, and nothing on the way removes it.
IsUp(l) ==
  \E k \in cards :
    /\ k.label = l
    /\ \A j \in 1 .. Len(events) :
         /\ events[j].type # "allCleared"
         /\ events[j].type = "cleared" => events[j].id # k.id

\* The user has clicked a card, and the engine will forget what it told.
Decided == \E i \in 1 .. Len(actions) : actions[i].op \in Decisions

\* Comparing with last_pending is enough: what the engine takes for shown is.
ToldIsShown ==
  lastPending # NoAsk => ComesUp(lastPending) \/ IsUp(lastPending) \/ Decided

ShownInv == CardsCounted /\ ClearedCounted /\ ClickedCounted /\ ToldIsShown

\* The queue of actions: nothing is served but what is no decision, or what
\* comes behind names cards that were made.
LEMMA ClicksCounted ==
  ASSUME AcceptInv, ShownInv, counter' \in Nat, counter <= counter',
         \/ actions' = actions
         \/ /\ actions # <<>> /\ actions' = Tail(actions)
            /\ Head(actions).op \notin Decisions
         \/ \E a : /\ actions' = Append(actions, a)
                   /\ a.op \in Decisions => a.card.id \in Nat /\ a.card.id <= counter
  PROVE  ClickedCounted' /\ (Decided => Decided')
<1>1. /\ actions \in Seq(Action) /\ counter \in Nat
      /\ \A i \in 1 .. Len(actions) : actions[i].op \in Decisions =>
            actions[i].card.id \in Nat /\ actions[i].card.id <= counter
  <2>1. actions \in Seq(Action) /\ counter \in Nat /\ MaxCards \in Nat
    BY UiFacts, Numbers
  <2>2. ASSUME NEW a \in Action, a.op \in Decisions PROVE a.card.id \in Nat
    BY <2>1, <2>2 DEF Action, Card, Decisions
  <2> QED
    BY <2>1, <2>2 DEF ShownInv, ClickedCounted
<1>2. CASE actions' = actions
  BY <1>1, <1>2 DEF ClickedCounted, Decided
<1>3. CASE actions # <<>> /\ actions' = Tail(actions) /\ Head(actions).op \notin Decisions
  <2>1. /\ Head(actions) = actions[1] /\ Len(actions) \in Nat
        /\ \A i \in 1 .. Len(actions') : i + 1 \in 2 .. Len(actions) /\ actions'[i] = actions[i + 1]
        /\ \A i \in 2 .. Len(actions) : i - 1 \in 1 .. Len(actions') /\ actions'[i - 1] = actions[i]
    BY <1>1, <1>3, TailFacts
  <2>2. \A i \in 2 .. Len(actions) : i \in 1 .. Len(actions)
    BY <2>1
  <2>3. ClickedCounted'
    <3> SUFFICES ASSUME NEW i \in 1 .. Len(actions'), actions'[i].op \in Decisions
                 PROVE  actions'[i].card.id <= counter'
      BY DEF ClickedCounted
    <3>1. actions[i + 1].card.id \in Nat /\ actions[i + 1].card.id <= counter
      BY <1>1, <2>1, <2>2
    <3>2. actions[i + 1].card.id <= counter'
      BY <1>1, <3>1
    <3> QED
      BY <2>1, <3>2
  <2>4. ASSUME Decided PROVE Decided'
    <3>1. PICK i \in 1 .. Len(actions) : actions[i].op \in Decisions
      BY <2>4 DEF Decided
    <3>2. i \in 2 .. Len(actions)
      BY <1>3, <2>1, <3>1
    <3> QED
      BY <2>1, <3>1, <3>2 DEF Decided
  <2> QED
    BY <2>3, <2>4
<1>4. ASSUME NEW a, actions' = Append(actions, a),
             a.op \in Decisions => a.card.id \in Nat /\ a.card.id <= counter
      PROVE  ClickedCounted' /\ (Decided => Decided')
  <2>1. /\ \A i \in 1 .. Len(actions) : i \in 1 .. Len(actions') /\ actions'[i] = actions[i]
        /\ actions'[Len(actions) + 1] = a
        /\ \A i \in 1 .. Len(actions') : i \in 1 .. Len(actions) \/ i = Len(actions) + 1
    BY <1>1, <1>4, AppendFacts
  <2>2. ClickedCounted'
    <3> SUFFICES ASSUME NEW i \in 1 .. Len(actions'), actions'[i].op \in Decisions
                 PROVE  actions'[i].card.id <= counter'
      BY DEF ClickedCounted
    <3>1. actions'[i].card.id \in Nat /\ actions'[i].card.id <= counter
      BY <1>1, <1>4, <2>1
    <3> QED
      BY <1>1, <3>1
  <2>3. Decided => Decided'
    BY <2>1 DEF Decided
  <2> QED
    BY <2>2, <2>3
<1> QED
  BY <1>2, <1>3, <1>4

\* A message goes to the window that takes no card off that is to stay.
LEMMA MessageSent ==
  ASSUME AcceptInv, ShownInv, NEW e, events' = Append(events, e), UNCHANGED <<cards, counter>>,
         e.type = "cleared" => e.id <= counter
  PROVE  /\ CardsCounted' /\ ClearedCounted'
         /\ e.type \notin {"cleared", "allCleared"} =>
              \A l : ComesUp(l) \/ IsUp(l) => ComesUp(l)' \/ IsUp(l)'
         /\ e.type = "incoming" => ComesUp(e.label)'
<1>1. /\ Len(events) \in Nat /\ Len(events') = Len(events) + 1
      /\ \A i \in 1 .. Len(events) : i \in 1 .. Len(events') /\ events'[i] = events[i]
      /\ events'[Len(events) + 1] = e /\ Len(events) + 1 \in 1 .. Len(events')
      /\ \A i \in 1 .. Len(events') : i \in 1 .. Len(events) \/ i = Len(events) + 1
  <2>1. events \in Seq(Event)
    BY UiFacts
  <2> QED
    BY <2>1, AppendFacts
<1>2. CardsCounted' /\ ClearedCounted'
  BY <1>1 DEF ShownInv, CardsCounted, ClearedCounted
<1>3. ASSUME e.type \notin {"cleared", "allCleared"}, NEW l, ComesUp(l) PROVE ComesUp(l)'
  <2>1. PICK i \in 1 .. Len(events) :
           /\ events[i].type = "incoming" /\ events[i].label = l
           /\ \A j \in 1 .. Len(events) : j > i => events[j].type # "allCleared"
    BY <1>3 DEF ComesUp
  <2>2. \A j \in 1 .. Len(events') : j > i => events'[j].type # "allCleared"
    BY <1>1, <1>3, <2>1
  <2> QED
    BY <1>1, <2>1, <2>2 DEF ComesUp
<1>4. ASSUME e.type \notin {"cleared", "allCleared"}, NEW l, IsUp(l) PROVE IsUp(l)'
  <2>1. PICK k \in cards :
           /\ k.label = l
           /\ \A j \in 1 .. Len(events) :
                events[j].type # "allCleared" /\ (events[j].type = "cleared" => events[j].id # k.id)
    BY <1>4 DEF IsUp
  <2>2. \A j \in 1 .. Len(events') :
          events'[j].type # "allCleared" /\ (events'[j].type = "cleared" => events'[j].id # k.id)
    BY <1>1, <1>4, <2>1
  <2> QED
    BY <2>1, <2>2 DEF IsUp
<1>5. ASSUME e.type = "incoming" PROVE ComesUp(e.label)'
  <2>1. \A j \in 1 .. Len(events') : ~(j > Len(events) + 1)
    BY <1>1
  <2> QED
    BY <1>1, <1>5, <2>1 DEF ComesUp
<1> QED
  BY <1>2, <1>3, <1>4, <1>5

\* The window takes a message: a card goes up, or comes down, and what stays
\* up or is still to come is what was.
LEMMA MessageTaken ==
  ASSUME AcceptInv, ShownInv, events # <<>>, events' = Tail(events),
         \/ /\ Head(events).type = "incoming" /\ counter' = counter + 1
            /\ cards' = cards \cup {[id |-> counter + 1, label |-> Head(events).label]}
         \/ /\ Head(events).type = "cleared" /\ counter' = counter
            /\ cards' = {k \in cards : k.id # Head(events).id}
         \/ /\ Head(events).type = "allCleared" /\ counter' = counter
            /\ cards' = {}
         \/ /\ Head(events).type = "peers" /\ UNCHANGED <<counter, cards>>
  PROVE  /\ CardsCounted' /\ ClearedCounted'
         /\ \A l : ComesUp(l) \/ IsUp(l) => ComesUp(l)' \/ IsUp(l)'
<1> DEFINE new == [id |-> counter + 1, label |-> Head(events).label]
<1>1. /\ Len(events) \in Nat \ {0} /\ Head(events) = events[1]
      /\ \A i \in 1 .. Len(events') : i + 1 \in 2 .. Len(events) /\ events'[i] = events[i + 1]
      /\ \A i \in 2 .. Len(events) : i - 1 \in 1 .. Len(events') /\ events'[i - 1] = events[i]
  <2>1. events \in Seq(Event)
    BY UiFacts
  <2> QED
    BY <2>1, TailFacts
<1>2. /\ counter \in Nat /\ counter' \in Nat /\ counter <= counter' /\ counter' <= counter + 1
      /\ \A k \in cards : k.id \in Nat /\ k.id <= counter
      /\ \A i \in 1 .. Len(events) : events[i].type = "cleared" =>
           events[i].id \in Nat /\ events[i].id <= counter
  <2>1. counter \in Nat /\ events \in Seq(Event) /\ cards \subseteq Card /\ MaxCards \in Nat
    <3>1. Types /\ counter \in Nat /\ events \in Seq(Event)
      BY UiFacts
    <3>2. MaxCards \in Nat
      <4>1. /\ Cardinality(Asks) \in Nat /\ MaxClicks \in Nat
            /\ MaxCards = Cardinality(Asks) + MaxClicks
        BY <3>1, Numbers
      <4> HIDE DEF MaxCards, new
      <4> QED
        BY <4>1
    <3>3. cards \subseteq Card
      BY <3>1, Zenon DEF Types
    <3> QED
      BY <3>1, <3>2, <3>3
  <2>2. \A e \in Event : e.type = "cleared" => e.id \in Nat
    BY DEF Event
  <2>3. \A k \in Card : k.id \in Nat
    BY <2>1 DEF Card
  <2> QED
    BY <2>1, <2>2, <2>3 DEF ShownInv, CardsCounted, ClearedCounted
<1>3. \A i \in 2 .. Len(events) : i \in 1 .. Len(events) /\ i # 1
  BY <1>1
<1>4. CardsCounted'
  <2> SUFFICES ASSUME NEW k \in cards' PROVE k.id <= counter'
    BY DEF CardsCounted
  <2>1. CASE k \in cards
    BY <1>2, <2>1
  <2>2. CASE k \notin cards
    <3>1. k = new /\ counter' = counter + 1
      BY <2>2
    <3> QED
      BY <1>2, <3>1
  <2> QED
    BY <2>1, <2>2
<1>5. ClearedCounted'
  <2> SUFFICES ASSUME NEW i \in 1 .. Len(events'), events'[i].type = "cleared"
               PROVE  events'[i].id <= counter'
    BY DEF ClearedCounted
  <2>1. events[i + 1].id \in Nat /\ events[i + 1].id <= counter /\ events'[i] = events[i + 1]
    BY <1>1, <1>2, <1>3
  <2> QED
    BY <1>2, <2>1
\* The card that comes up: no message names a card that was not made.
<1>6. ASSUME NEW l, ComesUp(l) PROVE ComesUp(l)' \/ IsUp(l)'
  <2>1. PICK i \in 1 .. Len(events) :
           /\ events[i].type = "incoming" /\ events[i].label = l
           /\ \A j \in 1 .. Len(events) : j > i => events[j].type # "allCleared"
    BY <1>6 DEF ComesUp
  <2>2. CASE i = 1
    <3>1. new \in cards' /\ new.label = l /\ new.id = counter + 1
      BY <1>1, <2>1, <2>2
    <3>2. ASSUME NEW j \in 1 .. Len(events')
          PROVE  events'[j].type # "allCleared" /\ (events'[j].type = "cleared" => events'[j].id # new.id)
      <4>1. j + 1 \in 1 .. Len(events) /\ j + 1 > i /\ events'[j] = events[j + 1]
        BY <1>1, <2>2
      <4>2. events[j + 1].type = "cleared" => events[j + 1].id \in Nat /\ events[j + 1].id <= counter
        BY <1>2, <4>1
      <4> QED
        BY <1>2, <2>1, <3>1, <4>1, <4>2
    <3> HIDE DEF new
    <3> QED
      BY <3>1, <3>2 DEF IsUp
  <2>3. CASE i # 1
    <3>1. i \in 2 .. Len(events) /\ i - 1 \in 1 .. Len(events') /\ events'[i - 1] = events[i]
      BY <1>1, <2>3
    <3>2. ASSUME NEW j \in 1 .. Len(events'), j > i - 1 PROVE events'[j].type # "allCleared"
      <4>1. j + 1 \in 1 .. Len(events) /\ j + 1 > i /\ events'[j] = events[j + 1]
        BY <1>1, <3>1, <3>2
      <4> QED
        BY <2>1, <4>1
    <3> QED
      BY <2>1, <3>1, <3>2 DEF ComesUp
  <2> QED
    BY <2>2, <2>3
\* The card that is up: no message on the way names it.
<1>7. ASSUME NEW l, IsUp(l) PROVE IsUp(l)'
  <2>1. PICK k \in cards :
           /\ k.label = l
           /\ \A j \in 1 .. Len(events) :
                events[j].type # "allCleared" /\ (events[j].type = "cleared" => events[j].id # k.id)
    BY <1>7 DEF IsUp
  <2>2. k \in cards'
    <3>1. Head(events).type # "allCleared" /\ (Head(events).type = "cleared" => Head(events).id # k.id)
      BY <1>1, <2>1
    <3> QED
      BY <3>1
  <2>3. \A j \in 1 .. Len(events') :
          events'[j].type # "allCleared" /\ (events'[j].type = "cleared" => events'[j].id # k.id)
    BY <1>1, <1>3, <2>1
  <2> QED
    BY <2>1, <2>2, <2>3 DEF IsUp
<1> QED
  BY <1>4, <1>5, <1>6, <1>7

\* Steps that leave the cards, the channel to the window and what was told alone.
LEMMA ShownKept ==
  ASSUME AcceptInv, ShownInv, UNCHANGED <<events, cards, counter, lastPending>>,
         \/ actions' = actions
         \/ /\ actions # <<>> /\ actions' = Tail(actions)
            /\ Head(actions).op \notin Decisions
         \/ \E a : actions' = Append(actions, a) /\ a.op \notin Decisions
  PROVE  ShownInv'
<1>1. counter \in Nat /\ counter' = counter /\ counter <= counter
  BY UiFacts
<1>2. ClickedCounted' /\ (Decided => Decided')
  BY <1>1, ClicksCounted
<1>3. CardsCounted' /\ ClearedCounted'
  BY DEF ShownInv, CardsCounted, ClearedCounted
<1>4. \A l : ComesUp(l) \/ IsUp(l) => ComesUp(l)' \/ IsUp(l)'
  BY DEF ComesUp, IsUp
<1>5. ToldIsShown'
  BY <1>2, <1>4 DEF ShownInv, ToldIsShown
<1> QED
  BY <1>2, <1>3, <1>5 DEF ShownInv

\* The message that was taken, and the one for the list of recipients.
LEMMA ShownPassed ==
  ASSUME AcceptInv, ShownInv, UNCHANGED <<actions, lastPending>>, counter' \in Nat,
         counter <= counter', CardsCounted', ClearedCounted',
         \A l : ComesUp(l) \/ IsUp(l) => ComesUp(l)' \/ IsUp(l)'
  PROVE  ShownInv'
<1>1. ClickedCounted' /\ (Decided => Decided')
  BY ClicksCounted
<1>2. ToldIsShown'
  BY <1>1 DEF ShownInv, ToldIsShown
<1> QED
  BY <1>1, <1>2 DEF ShownInv

LEMMA ShownPoll == AcceptInv /\ ShownInv /\ Poll => ShownInv'
<1> SUFFICES ASSUME AcceptInv, ShownInv, Poll PROVE ShownInv'
  OBVIOUS
<1>1. /\ lastPending' = Polled /\ events' = events \o PollEvents
      /\ UNCHANGED <<actions, cards, counter>> /\ counter \in Nat /\ counter <= counter
      /\ events \in Seq(Event)
  BY UiFacts DEF Poll
<1>2. ClickedCounted'
  BY <1>1, ClicksCounted
<1>3. CASE pending = NoAsk
  <2>1. events' = Append(events, [type |-> "allCleared"])
    BY <1>1, <1>3, EventTypes, AppendIsConcat DEF PollEvents
  <2>2. CardsCounted' /\ ClearedCounted'
    BY <1>1, <2>1, MessageSent
  <2>3. lastPending' = NoAsk
    BY <1>1, <1>3 DEF Polled
  <2> QED
    BY <1>2, <2>2, <2>3 DEF ShownInv, ToldIsShown
<1>4. CASE pending # NoAsk
  <2>1. PICK l \in Labels : l = LabelOf[pending]
    BY <1>4, UiFacts DEF Types, Labels
  <2> DEFINE e == [type |-> "incoming", label |-> l]
  <2>2. e \in Event /\ e.type = "incoming" /\ e.label = l
    BY EventTypes
  <2>3. PollEvents = <<e>> /\ lastPending' = l
    BY <1>1, <1>4, <2>1 DEF PollEvents, Polled
  <2> HIDE DEF e
  <2>4. events' = Append(events, e)
    BY <1>1, <2>2, <2>3, AppendIsConcat
  <2>5. CardsCounted' /\ ClearedCounted' /\ ComesUp(l)'
    <3>1. CardsCounted' /\ ClearedCounted' /\ ComesUp(e.label)'
      BY <1>1, <2>2, <2>4, MessageSent
    <3> QED
      BY <2>2, <3>1
  <2>6. ComesUp(lastPending)'
    BY <2>3, <2>5 DEF ComesUp
  <2> QED
    BY <1>2, <2>5, <2>6 DEF ShownInv, ToldIsShown
<1> QED
  BY <1>3, <1>4

\* The engine forgets what it told, and takes a card off, or all of them.
LEMMA ShownForgotten ==
  ASSUME AcceptInv, ShownInv, NEW e, events' = Append(events, e), UNCHANGED <<cards, counter>>,
         e.type = "cleared" => e.id <= counter,
         lastPending' = NoAsk, actions # <<>>, actions' = Tail(actions)
  PROVE  ShownInv'
<1>1. CardsCounted' /\ ClearedCounted'
  BY MessageSent
<1>2. ClickedCounted'
  <2>1. actions \in Seq(Action) /\ counter' = counter
    BY UiFacts
  <2>2. \A i \in 1 .. Len(actions') : i + 1 \in 1 .. Len(actions) /\ actions'[i] = actions[i + 1]
    BY <2>1, TailFacts
  <2> QED
    BY <2>1, <2>2 DEF ShownInv, ClickedCounted
<1>3. ToldIsShown'
  BY DEF ToldIsShown
<1> QED
  BY <1>1, <1>2, <1>3 DEF ShownInv

LEMMA ShownDecides == AcceptInv /\ ShownInv /\ EngineDecides => ShownInv'
<1> SUFFICES ASSUME AcceptInv, ShownInv, EngineDecides PROVE ShownInv'
  OBVIOUS
<1> DEFINE e == [type |-> "cleared", id |-> Head(actions).card.id]
<1>1. /\ actions # <<>> /\ Head(actions).op \in Decisions
      /\ lastPending' = NoAsk /\ events' = Append(events, e) /\ actions' = Tail(actions)
      /\ UNCHANGED <<cards, counter>>
  BY DEF EngineDecides, Decisions
<1>2. Head(actions).card.id <= counter
  <2>1. actions \in Seq(Action) /\ Head(actions) = actions[1] /\ Len(actions) \in Nat \ {0}
    BY <1>1, UiFacts, TailFacts
  <2>2. 1 \in 1 .. Len(actions)
    BY <2>1
  <2> QED
    BY <1>1, <2>1, <2>2 DEF ShownInv, ClickedCounted
<1>3. e.type = "cleared" => e.id <= counter
  BY <1>2
<1> HIDE DEF e
<1> QED
  BY <1>1, <1>3, ShownForgotten

LEMMA ShownStops == AcceptInv /\ ShownInv /\ EngineStops => ShownInv'
<1> SUFFICES ASSUME AcceptInv, ShownInv, EngineStops PROVE ShownInv'
  OBVIOUS
<1>1. /\ actions # <<>> /\ Head(actions).op \notin Decisions /\ actions' = Tail(actions)
      /\ UNCHANGED <<cards, counter>>
      /\ \/ UNCHANGED <<lastPending, events>>
         \/ lastPending' = NoAsk /\ events' = Append(events, [type |-> "allCleared"])
  BY DEF EngineStops, daemonVars, Decisions
<1>2. CASE UNCHANGED <<lastPending, events>>
  BY <1>1, <1>2, ShownKept
<1>3. CASE lastPending' = NoAsk /\ events' = Append(events, [type |-> "allCleared"])
  BY <1>1, <1>3, ShownForgotten
<1> QED
  BY <1>1, <1>2, <1>3

\* A card that is clicked comes down, and its decision is on its way.
LEMMA ShownClicked ==
  ASSUME AcceptInv, ShownInv, NEW k \in cards, NEW op \in Decisions, Click(k, op)
  PROVE  ShownInv'
<1> DEFINE a == [op |-> op, card |-> k]
<1>1. /\ actions' = Append(actions, a) /\ cards' = cards \ {k}
      /\ UNCHANGED <<lastPending, events, counter>>
  BY DEF Click
<1>2. a.op \in Decisions /\ a.card.id \in Nat /\ a.card.id <= counter
  <2>1. k \in Card /\ MaxCards \in Nat
    BY UiFacts, Numbers DEF Types
  <2>2. k.id \in Nat
    BY <2>1 DEF Card
  <2> QED
    BY <2>2 DEF ShownInv, CardsCounted
<1> HIDE DEF a
<1>3. counter \in Nat /\ counter' = counter /\ counter <= counter
  BY <1>1, UiFacts
<1>4. ClickedCounted'
  BY <1>1, <1>2, <1>3, ClicksCounted
<1>5. Decided'
  <2>1. actions \in Seq(Action)
    BY UiFacts
  <2>2. Len(actions) + 1 \in 1 .. Len(actions') /\ actions'[Len(actions) + 1] = a
    BY <1>1, <2>1, AppendFacts
  <2> QED
    BY <1>2, <2>2 DEF Decided
<1>6. CardsCounted' /\ ClearedCounted'
  BY <1>1 DEF ShownInv, CardsCounted, ClearedCounted
<1> QED
  BY <1>4, <1>5, <1>6 DEF ShownInv, ToldIsShown

LEMMA ShownStep == EngineInv /\ AcceptInv /\ ShownInv /\ [ENext]_allVars => ShownInv'
<1> SUFFICES ASSUME EngineInv, AcceptInv, ShownInv, [ENext]_allVars PROVE ShownInv'
  OBVIOUS
<1> USE DEF allVars, vars, outVars, daemonVars, uiVars, incomingKeep
<1>a. /\ engine = "radio" => actions # <<>> /\ Head(actions).op = "send"
      /\ counter \in Nat /\ counter <= counter /\ counter <= counter + 1 /\ counter + 1 \in Nat
  BY UiFacts DEF EngineInv, QueueInv
<1>1. CASE UNCHANGED allVars \/ TransferEnds \/ RadioExpires \/ StopOutgoing
  BY <1>1, ShownKept DEF TransferEnds, RadioExpires, StopOutgoing
<1>2. CASE Daemon
  BY <1>2, ShownKept DEF Daemon, AskArrives, AskTimesOut, TakeAsk, WindowEnds
<1>3. CASE EPoll
  BY <1>3, ShownPoll DEF EPoll
<1>4. CASE Decides
  BY <1>4, ShownDecides DEF Decides
<1>5. CASE StopDaemon
  BY <1>5, ShownStops DEF StopDaemon
<1>6. CASE EPump
  <2>1. /\ counter' \in Nat /\ counter <= counter'
        /\ UNCHANGED <<actions, lastPending>>
    BY <1>a, <1>6 DEF EPump, Pump
  <2>2. /\ CardsCounted' /\ ClearedCounted'
        /\ \A l : ComesUp(l) \/ IsUp(l) => ComesUp(l)' \/ IsUp(l)'
    BY <1>6, MessageTaken DEF EPump, Pump
  <2> QED
    BY <2>1, <2>2, ShownPassed
<1>7. CASE PumpPeers
  <2>1. /\ CardsCounted' /\ ClearedCounted'
        /\ \A l : ComesUp(l) \/ IsUp(l) => ComesUp(l)' \/ IsUp(l)'
    BY <1>7, MessageTaken DEF PumpPeers
  <2> QED
    BY <1>a, <1>7, <2>1, ShownPassed DEF PumpPeers
<1>8. CASE BrowseEnds
  <2>1. CASE events' = events
    BY <1>8, <2>1, ShownKept DEF BrowseEnds
  <2>2. CASE events' = Append(events, [type |-> "peers"])
    <3>1. /\ CardsCounted' /\ ClearedCounted'
          /\ \A l : ComesUp(l) \/ IsUp(l) => ComesUp(l)' \/ IsUp(l)'
      BY <1>8, <2>2, MessageSent DEF BrowseEnds
    <3> QED
      BY <1>a, <1>8, <3>1, ShownPassed DEF BrowseEnds
  <2> QED
    BY <1>8, <2>1, <2>2 DEF BrowseEnds
<1>9. CASE Starts
  BY <1>9, ShownKept DEF Starts, EngineStarts, Decisions
<1>10. CASE Send
  BY <1>10, ShownKept DEF Send, Serving, Decisions
<1>11. CASE RadioStarts \/ RadioFails
  BY <1>a, <1>11, ShownKept DEF RadioStarts, RadioFails, Decisions
<1>12. CASE Cancel \/ Browse
  BY <1>12, ShownKept DEF Cancel, Browse, Serving, Decisions
<1>13. CASE User
  <2>1. ASSUME NEW k \in cards, NEW op \in {"approve", "decline"}, Click(k, op) PROVE ShownInv'
    BY <2>1, ShownClicked DEF Decisions
  <2>2. ASSUME NEW op \in WindowOps, ClickWindow(op) PROVE ShownInv'
    <3>1. /\ actions' = Append(actions, [op |-> op, click |-> clicks + 1])
          /\ [op |-> op, click |-> clicks + 1].op \notin Decisions
          /\ UNCHANGED <<events, cards, counter, lastPending>>
      BY <2>2 DEF ClickWindow, WindowOps, Decisions
    <3> QED
      BY <3>1, ShownKept
  <2> QED
    BY <1>13, <2>1, <2>2 DEF User, WindowOps
<1> QED
  BY <1>1, <1>2, <1>3, <1>4, <1>5, <1>6, <1>7, <1>8, <1>9, <1>10, <1>11, <1>12, <1>13 DEF ENext

\* What the engine told the window last (last_pending) is on screen, or on its
\* way there with nothing on the way that would take it off again, or the
\* user has just clicked a card and the engine will tell it anew: so that the
\* comparison by label in the poll of ui.rs never hides a transfer for good.
\* The safety part of PendingIsShown.
THEOREM WhatWasToldIsShown == ESpec => []ToldIsShown
<1>1. EInit => ShownInv
  <2> SUFFICES ASSUME EInit PROVE ShownInv
    OBVIOUS
  <2>1. /\ events = <<>> /\ actions = <<>> /\ Len(events) = 0 /\ Len(actions) = 0
        /\ cards = {} /\ lastPending = NoAsk
    BY DEF EInit, Init
  <2> QED
    BY <2>1 DEF ShownInv, CardsCounted, ClearedCounted, ClickedCounted, ToldIsShown
<1>2. ESpec => [](EngineInv /\ AcceptInv /\ ShownInv)
  BY <1>1, EngineInit, EngineStep, AcceptInit, AcceptStep, ShownStep, PTL DEF ESpec
<1>3. ShownInv => ToldIsShown
  BY DEF ShownInv
<1> QED
  BY <1>2, <1>3, PTL
=================================================================================
