-------------------------------- MODULE Engine --------------------------------
(***************************************************************************)
(* The whole UI engine (src/src/ui.rs, engine): Approval composed with the *)
(* outgoing side.  The engine is one loop that serves one action at a      *)
(* time; while it waits for the radio of an outgoing transfer it neither   *)
(* polls the daemon nor serves a click.  Transfers and searches for        *)
(* recipients run in tasks of their own.                                   *)
(***************************************************************************)
EXTENDS Approval

VARIABLES
  engine,    \* "idle", "radio" (in radio_start), "stopping" or "gone"
  running,   \* the click whose transfer runs, 0 for none: transfers
  owned,     \* radio_owned
  radio,     \* is ac-dc-airdrop-radio.service, as started here, up?
  fault,     \* history: the last command to the radio failed
  cancelled, \* history: the last click that was to end transfers, once served
  browsing,  \* is a search for recipients running?
  peers,     \* does the window list recipients?
  closed     \* has the window been closed?

outVars == <<engine, running, owned, radio, fault, cancelled, browsing, peers, closed>>
allVars == <<vars, outVars>>

EngineTypeOK ==
  /\ engine \in {"idle", "radio", "stopping", "gone"}
  /\ running \in 0 .. MaxClicks
  /\ cancelled \in 0 .. MaxClicks
  /\ {owned, radio, fault, browsing, peers, closed} \subseteq BOOLEAN

EInit ==
  /\ Init
  /\ engine = "idle"
  /\ running = 0
  /\ cancelled = 0
  /\ owned = FALSE /\ radio = FALSE /\ fault = FALSE
  /\ browsing = FALSE /\ peers = FALSE
  /\ closed = FALSE

\* The engine's loop is at its select and op is the next action.
Serving(op) == engine = "idle" /\ actions # <<>> /\ Head(actions).op = op
incomingKeep == <<daemonVars, lastPending, events, cards, counter, clicks, shown>>
-----------------------------------------------------------------------------
(* Sending.                                                                *)

\* Send: one transfer at a time; then radio_start.
Send ==
  /\ Serving("send")
  /\ \/ /\ running # 0
        /\ actions' = Tail(actions)
        /\ UNCHANGED engine
     \/ /\ running = 0
        /\ engine' = "radio"
        /\ UNCHANGED actions
  /\ UNCHANGED <<incomingKeep, running, owned, radio, fault, cancelled, browsing, peers, closed>>

Own_Forgotten == UNCHANGED owned
Own == owned' = TRUE

\* The radio is announced and ready: the transfer's task is spawned.
RadioStarts ==
  /\ engine = "radio"
  /\ engine' = "idle"
  /\ actions' = Tail(actions)
  /\ radio' = TRUE /\ fault' = FALSE
  /\ Own
  /\ running' = Head(actions).click
  /\ UNCHANGED <<incomingKeep, cancelled, browsing, peers, closed>>

\* pkexec is denied or takes 120 s, or the radio is not ready 45 s later;
\* the service may have been started, and is not stopped.
RadioFails ==
  /\ engine = "radio"
  /\ engine' = "idle"
  /\ actions' = Tail(actions)
  /\ radio' \in BOOLEAN /\ fault' = TRUE
  /\ UNCHANGED <<incomingKeep, running, owned, cancelled, browsing, peers, closed>>

\* Delivered or failed.
TransferEnds ==
  /\ running # 0
  /\ running' = 0
  /\ UNCHANGED <<vars, engine, owned, radio, fault, cancelled, browsing, peers, closed>>

\* The service ends by itself after its 600 s.
RadioExpires ==
  /\ radio
  /\ radio' = FALSE
  /\ UNCHANGED <<vars, engine, running, owned, fault, cancelled, browsing, peers, closed>>

\* Its task is aborted and awaited.
AbortTransfer_Detached == UNCHANGED running
AbortTransfer == running' = 0

Cancel ==
  /\ Serving("cancel")
  /\ actions' = Tail(actions)
  /\ AbortTransfer
  /\ cancelled' = Head(actions).click
  /\ UNCHANGED <<incomingKeep, engine, owned, radio, fault, browsing, peers, closed>>
-----------------------------------------------------------------------------
(* Recipients.                                                             *)

\* A search that still runs is not repeated.
Browse ==
  /\ Serving("browse")
  /\ actions' = Tail(actions)
  /\ browsing' = TRUE
  /\ UNCHANGED <<incomingKeep, engine, running, owned, radio, fault, cancelled, peers, closed>>

BrowseEnds ==
  /\ browsing
  /\ browsing' = FALSE
  /\ events' \in {events, Append(events, [type |-> "peers"])}
  /\ UNCHANGED <<daemonVars, lastPending, actions, cards, counter, clicks, shown>>
  /\ UNCHANGED <<engine, running, owned, radio, fault, cancelled, peers, closed>>

\* The list is replaced, perhaps by an empty one, and its first entry selected.
PumpPeers ==
  /\ ~closed
  /\ events # <<>>
  /\ Head(events).type = "peers"
  /\ events' = Tail(events)
  /\ peers' \in BOOLEAN
  /\ UNCHANGED <<daemonVars, lastPending, actions, cards, counter, clicks, shown>>
  /\ UNCHANGED <<engine, running, owned, radio, fault, cancelled, browsing, closed>>
-----------------------------------------------------------------------------
(* Stop and Quit.  Outgoing work and the radio end first, then the daemon  *)
(* is told; the engine forgets the radio also when the command fails.      *)

StopOutgoing ==
  /\ Serving("stop") \/ Serving("quit")
  /\ engine' = "stopping"
  /\ AbortTransfer
  /\ browsing' = FALSE
  /\ cancelled' = Head(actions).click
  /\ owned' = FALSE
  /\ \/ ~owned /\ UNCHANGED <<radio, fault>>
     \/ owned /\ radio' = FALSE /\ fault' = FALSE
     \/ owned /\ fault' = TRUE /\ UNCHANGED radio
  /\ UNCHANGED <<vars, peers, closed>>

AfterStop_Loops == engine' = "idle"
AfterStop == engine' = IF Head(actions).op = "quit" THEN "gone" ELSE "idle"

StopDaemon ==
  /\ engine = "stopping"
  /\ EngineStops
  /\ AfterStop
  /\ UNCHANGED <<running, owned, radio, fault, cancelled, browsing, peers, closed>>
-----------------------------------------------------------------------------
(* What Approval describes, while the engine is at its select and the      *)
(* window is open.                                                         *)

Daemon ==
  /\ (\E a \in Asks : AskArrives(a) \/ AskTimesOut(a)) \/ TakeAsk \/ WindowEnds
  /\ UNCHANGED outVars

EPoll == engine = "idle" /\ Poll /\ UNCHANGED outVars
Decides == engine = "idle" /\ EngineDecides /\ UNCHANGED outVars
Starts == engine = "idle" /\ EngineStarts /\ UNCHANGED outVars
EPump == ~closed /\ Pump /\ UNCHANGED outVars

\* Send is only sent with a recipient; Quit closes the window.
User ==
  /\ ~closed
  /\ \/ /\ \/ \E k \in cards, op \in {"approve", "decline"} : Click(k, op)
           \/ \E op \in {"start", "stop", "browse", "cancel"} : ClickWindow(op)
           \/ peers /\ ClickWindow("send")
        /\ UNCHANGED outVars
     \/ /\ ClickWindow("quit")
        /\ closed' = TRUE
        /\ UNCHANGED <<engine, running, owned, radio, fault, cancelled, browsing, peers>>

ENext ==
  \/ Daemon \/ EPoll \/ Decides \/ Starts \/ EPump \/ User
  \/ Send \/ RadioStarts \/ RadioFails \/ TransferEnds \/ RadioExpires \/ Cancel
  \/ Browse \/ BrowseEnds \/ PumpPeers \/ StopOutgoing \/ StopDaemon

ESpec == EInit /\ [][ENext]_allVars

\* The engine ticks and serves its actions: a reachable daemon answers in five
\* seconds, and radio_start gives up after 120 + 45.  The pump drains its
\* channel.  The user need not click, and no transfer needs to end.
EFairness ==
  /\ WF_allVars(EPoll) /\ WF_allVars(Decides) /\ WF_allVars(Starts)
  /\ WF_allVars(EPump) /\ WF_allVars(PumpPeers)
  /\ WF_allVars(Send) /\ WF_allVars(RadioStarts \/ RadioFails) /\ WF_allVars(Cancel)
  /\ WF_allVars(Browse) /\ WF_allVars(StopOutgoing) /\ WF_allVars(StopDaemon)

EFairSpec == ESpec /\ EFairness
-----------------------------------------------------------------------------
\* Once a Cancel, Stop or Quit is served, no transfer runs whose Send was
\* clicked before it, also when the engine was still waiting for the radio
\* of that transfer at the time of the click.
CancelHolds == EngineTypeOK /\ (running # 0 => running > cancelled)

\* When the engine has quit, the radio it started is off, unless a command to
\* the radio failed.
RadioIsFreed == engine = "gone" /\ radio => fault

\* A transfer that stays pending is put on screen, also when an earlier one
\* looked just the same, the daemon could not be reached, or the engine waited
\* for the radio.
PendingIsShown ==
  \A a \in Asks : pending = a ~>
    pending # a \/ closed \/ \E k \in cards : k.label = LabelOf[a]

\* Closing the window ends the engine and the transfer it runs.
QuitEnds == closed ~> engine = "gone" /\ running = 0
=============================================================================
