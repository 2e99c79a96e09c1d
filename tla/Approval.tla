------------------------------- MODULE Approval -------------------------------
(***************************************************************************)
(* How an incoming transfer reaches the user and how the decision gets     *)
(* back: the Asks of the receive window (src/src/airdrop/mod.rs), the one  *)
(* `pending' slot of the daemon (src/src/daemon.rs), the UI engine that    *)
(* polls it every second and the cards the window shows (src/src/ui.rs).   *)
(*                                                                         *)
(* The engine is one sequential loop, so a status poll or a control        *)
(* request and what the engine does with the reply are one action, taken   *)
(* when the daemon's handler holds the mutex.  An Ask's sender and items   *)
(* are its label: all the UI ever sees of it, and two Asks may share one.  *)
(* Engine adds what else the engine does.                                  *)
(***************************************************************************)
EXTENDS Naturals, Sequences, FiniteSets

CONSTANTS
  Asks,      \* the Asks that devices make, each once
  LabelOf,   \* the sender name and items each Ask shows
  NoAsk,     \* None
  QueueCap,  \* capacity of the approval channel (8)
  MaxClicks  \* bound on what the user clicks

Labels == {LabelOf[a] : a \in Asks}

ASSUME ApprovalAssumption ==
  /\ IsFiniteSet(Asks)
  /\ NoAsk \notin Asks \cup Labels
  /\ DOMAIN LabelOf = Asks
  /\ QueueCap \in Nat \ {0} /\ MaxClicks \in Nat

VARIABLES
  ask,          \* each Ask: "new", "waiting", "accepted" or "refused"
  queue,        \* Asks in the approval channel
  window,       \* is a receive window open?
  pending,      \* State.pending of the daemon
  lastPending,  \* last_pending of the engine
  events,       \* engine -> window channel
  actions,      \* window -> engine channel
  cards,        \* cards on screen
  counter,      \* incoming_counter
  clicks,       \* how often the user has clicked
  shown         \* history: accepted Asks with the label of the card clicked

vars == <<ask, queue, window, pending, lastPending, events, actions, cards, counter,
          clicks, shown>>
daemonVars == <<ask, queue, window, pending>>
uiVars == <<lastPending, events, actions, cards, counter, clicks, shown>>

\* Each Ask, and each click that resets last_pending, may make a card.
MaxCards == Cardinality(Asks) + MaxClicks
Card == [id : 1 .. MaxCards, label : Labels]
Event == [type : {"incoming"}, label : Labels]
           \cup [type : {"cleared"}, id : Nat] \cup [type : {"allCleared", "peers"}]
Action == [op : {"approve", "decline"}, card : Card]
            \cup [op : {"start", "stop", "quit", "browse", "send", "cancel"},
                  click : 1 .. MaxClicks]

TypeOK ==
  /\ ask \in [Asks -> {"new", "waiting", "accepted", "refused"}]
  /\ \A i \in DOMAIN queue : queue[i] \in Asks
  /\ Len(queue) <= QueueCap
  /\ window \in BOOLEAN
  /\ pending \in Asks \cup {NoAsk}
  /\ lastPending \in Labels \cup {NoAsk}
  /\ \A i \in DOMAIN events : events[i] \in Event
  /\ \A i \in DOMAIN actions : actions[i] \in Action
  /\ cards \subseteq Card
  /\ counter \in 0 .. MaxCards
  /\ clicks \in 0 .. MaxClicks
  /\ shown \subseteq Asks \X Labels

Init ==
  /\ ask = [a \in Asks |-> "new"]
  /\ queue = <<>>
  /\ window = TRUE
  /\ pending = NoAsk
  /\ lastPending = NoAsk
  /\ events = <<>>
  /\ actions = <<>>
  /\ cards = {}
  /\ counter = 0
  /\ clicks = 0
  /\ shown = {}

\* The oneshot of a: only an Ask that still listens hears the answer.
Answered(f, a, to) ==
  [x \in Asks |-> IF x = a /\ f[x] = "waiting" THEN to ELSE f[x]]
-----------------------------------------------------------------------------
(* The receive window and the daemon's receive task.                       *)

\* try_send of the Ask: a full channel refuses it.
AskArrives(a) ==
  /\ window
  /\ ask[a] = "new"
  /\ \/ /\ Len(queue) < QueueCap
        /\ ask' = [ask EXCEPT ![a] = "waiting"]
        /\ queue' = Append(queue, a)
     \/ /\ Len(queue) >= QueueCap
        /\ ask' = [ask EXCEPT ![a] = "refused"]
        /\ UNCHANGED queue
  /\ UNCHANGED <<window, pending, uiVars>>

\* The receive task moves the next Ask into the slot.  Whatever was pending
\* loses its decision sender, which its Ask reads as a refusal.
Displaced_Accepts == "accepted"
Displaced == "refused"

\* An Ask that gave up while it was queued is taken all the same.
TakeAsk ==
  /\ window
  /\ queue # <<>>
  /\ ask' = Answered(ask, pending, Displaced)
  /\ pending' = Head(queue)
  /\ queue' = Tail(queue)
  /\ UNCHANGED <<window, uiVars>>

\* 90 seconds: the Ask gives up, and the daemon does not hear of it.
AskTimesOut(a) ==
  /\ ask[a] = "waiting"
  /\ ask' = Answered(ask, a, "refused")
  /\ UNCHANGED <<queue, window, pending, uiVars>>

\* Its connections are aborted, their Asks unanswered.
AllRefused == [a \in Asks |-> IF ask[a] = "waiting" THEN "refused" ELSE ask[a]]

\* The window ends: its connections are aborted; pending stays as it is.
WindowEnds ==
  /\ window
  /\ window' = FALSE
  /\ queue' = <<>>
  /\ ask' = AllRefused
  /\ UNCHANGED <<pending, uiVars>>
-----------------------------------------------------------------------------
(* The engine.                                                             *)

\* What status answers: the label of the pending Ask.
Polled == IF pending = NoAsk THEN NoAsk ELSE LabelOf[pending]

\* tick: poll the status, and tell the window when the answer differs from
\* the previous one.
PollEvents_NoCards == <<>>
PollEvents == IF pending = NoAsk THEN <<[type |-> "allCleared"]>>
              ELSE <<[type |-> "incoming", label |-> LabelOf[pending]]>>

Poll ==
  /\ Polled # lastPending
  /\ events' = events \o PollEvents
  /\ lastPending' = Polled
  /\ UNCHANGED <<daemonVars, actions, cards, counter, clicks, shown>>

\* Approve(id), Decline(id): `approve' and `reject' name no transfer; the
\* daemon answers whatever is pending now.  When the daemon cannot be
\* reached nothing is decided.  Either way last_pending is reset and the
\* clicked card is cleared.
EngineDecides ==
  LET act == Head(actions)
      yes == act.op = "approve"
  IN
  /\ actions # <<>>
  /\ act.op \in {"approve", "decline"}
  /\ \/ /\ ask' = Answered(ask, pending, IF yes THEN "accepted" ELSE "refused")
        /\ pending' = NoAsk
        /\ shown' = IF yes /\ pending # NoAsk /\ ask[pending] = "waiting"
                    THEN shown \cup {<<pending, act.card.label>>} ELSE shown
     \/ UNCHANGED <<ask, pending, shown>>
  /\ lastPending' = NoAsk
  /\ events' = Append(events, [type |-> "cleared", id |-> act.card.id])
  /\ actions' = Tail(actions)
  /\ UNCHANGED <<queue, window, cards, counter, clicks>>

\* Stop or Quit: the daemon aborts the window and drops pending; the engine
\* clears every card when it gets the reply, which may be lost or never come.
EngineStops ==
  /\ actions # <<>>
  /\ Head(actions).op \in {"stop", "quit"}
  /\ actions' = Tail(actions)
  /\ \/ /\ window' = FALSE
        /\ queue' = <<>>
        /\ ask' = AllRefused
        /\ pending' = NoAsk
        /\ \/ /\ lastPending' = NoAsk
              /\ events' = Append(events, [type |-> "allCleared"])
           \/ UNCHANGED <<lastPending, events>>
     \/ UNCHANGED <<daemonVars, lastPending, events>>
  /\ UNCHANGED <<cards, counter, clicks, shown>>

\* Start: a new window, unless one is open, the daemon is busy or the radio
\* fails.  A transfer pending from the last window stays pending.
EngineStarts ==
  /\ actions # <<>>
  /\ Head(actions).op = "start"
  /\ actions' = Tail(actions)
  /\ window' \in {window, TRUE}
  /\ UNCHANGED <<ask, queue, pending, lastPending, events, cards, counter, clicks, shown>>
-----------------------------------------------------------------------------
(* The window: the event pump and the buttons.                             *)

Pump ==
  LET e == Head(events) IN
  /\ events # <<>>
  /\ events' = Tail(events)
  /\ \/ /\ e.type = "incoming"
        /\ counter' = counter + 1
        /\ cards' = cards \cup {[id |-> counter + 1, label |-> e.label]}
     \/ /\ e.type = "cleared"
        /\ cards' = {k \in cards : k.id # e.id}
        /\ UNCHANGED counter
     \/ /\ e.type = "allCleared"
        /\ cards' = {}
        /\ UNCHANGED counter
  /\ UNCHANGED <<daemonVars, lastPending, actions, clicks, shown>>

Click(k, op) ==
  /\ clicks < MaxClicks
  /\ clicks' = clicks + 1
  /\ actions' = Append(actions, [op |-> op, card |-> k])
  /\ cards' = cards \ {k}
  /\ UNCHANGED <<daemonVars, lastPending, events, counter, shown>>

\* The buttons that send an action to the engine.
ClickWindow(op) ==
  /\ clicks < MaxClicks
  /\ clicks' = clicks + 1
  /\ actions' = Append(actions, [op |-> op, click |-> clicks + 1])
  /\ UNCHANGED <<daemonVars, lastPending, events, cards, counter, shown>>

Next ==
  \/ \E a \in Asks : AskArrives(a) \/ AskTimesOut(a)
  \/ TakeAsk \/ WindowEnds \/ Poll \/ EngineDecides \/ EngineStops \/ EngineStarts \/ Pump
  \/ \E op \in {"start", "stop"} : ClickWindow(op)
  \/ \E k \in cards, op \in {"approve", "decline"} : Click(k, op)

Spec == Init /\ [][Next]_vars
-----------------------------------------------------------------------------
Approvals == {a \in Asks : ask[a] = "accepted"}

\* No transfer is accepted without a click of its own: never because it was
\* displaced, timed out, or the window ended.
AcceptedByAClick ==
  /\ TypeOK
  /\ Cardinality(Approvals) <= clicks
  /\ \A a \in Approvals : \E b \in Labels : <<a, b>> \in shown

\* The transfer that is accepted is what the clicked card showed.
AcceptedWasShown == \A p \in shown : LabelOf[p[1]] = p[2]
=============================================================================
