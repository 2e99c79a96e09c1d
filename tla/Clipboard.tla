------------------------------- MODULE Clipboard ------------------------------
(***************************************************************************)
(* The BLE-triggered clipboard pull: the Scanner of src/src/scan.rs, which  *)
(* hears the Handoff adverts of the user's devices, and the loop of        *)
(* src/src/orchestrate.rs, which fetches the pasteboard of a device that   *)
(* announced a copy.                                                       *)
(*                                                                         *)
(* A device's copies are numbered; the number stands for the pair of IV    *)
(* counter and activity hash that the scanner compares.  Adverts carry     *)
(* that pair, never the content: a pull gets whatever the device's         *)
(* pasteboard holds when it answers.  Radio, Pair-Verify and the companion *)
(* link are reduced to: a pull may fail at any point.  An advert is opened *)
(* by the key of the device that sent it.                                  *)
(***************************************************************************)
EXTENDS Naturals, Sequences

CONSTANTS
  Devices,    \* the user's other devices; one key each
  Addrs,      \* Bluetooth addresses
  Owner,      \* the device an address belongs to
  NoDevice,   \* None
  Instances,  \* what --instance may name: a device to pull from, or NoDevice
  QueueCap,   \* mpsc::channel(8)
  MaxCopies,  \* bound: copies each device makes
  StreamCap   \* bound: adverts of one address not yet handled

ASSUME ClipboardAssumption ==
  /\ Owner \in [Addrs -> Devices]
  /\ \A d \in Devices : \E a \in Addrs : Owner[a] = d
  /\ NoDevice \notin Devices
  /\ Instances \subseteq Devices \cup {NoDevice}
  /\ MaxCopies \in [Devices -> Nat]
  /\ QueueCap \in Nat \ {0} /\ StreamCap \in Nat \ {0}

VARIABLES
  instance,  \* AutoConfig.instance, fixed at the start
  copy,      \* number of the copy on each device's pasteboard; 0: none yet
  flag,      \* does its advert say that the clipboard is available?
  addr,      \* its current Bluetooth address
  stream,    \* adverts BlueZ has reported for an address, not yet handled
  label,     \* copy for which an address's follower waits in device_label; or 0
  seen,      \* SeenMap: last copy seen of each key
  queue,     \* CopyEvents under way to the loop
  pull,      \* the loop: its state, its event, the device resolved, the board
  clip,      \* what the Linux clipboard holds
  running,   \* scanner and loop run until shutdown
  reports,   \* history: how often a copy was reported
  begun,     \* history: a device's copy when a pull for it last began
  crowded    \* history: copies dropped while the queue held none of the device

deviceVars == <<copy, flag, addr>>
scanVars == <<stream, label, seen, reports>>
historyVars == <<begun, crowded>>
runVars == <<running, instance>>
vars == <<runVars, deviceVars, scanVars, queue, pull, clip, historyVars>>

Copies == {0} \cup UNION {0 .. MaxCopies[d] : d \in Devices}
Adverts == [copy : Copies, flag : BOOLEAN]
Events == [dev : Devices, addr : Addrs, copy : Copies]
NoClip == [dev |-> NoDevice, copy |-> 0]
FirstAddr(d) == CHOOSE a \in Addrs : Owner[a] = d
NoEvent == [dev |-> NoDevice, addr |-> NoDevice, copy |-> 0]
Idle == [pc |-> "idle", event |-> NoEvent, from |-> NoDevice, board |-> 0]
PullStates == {"idle", "resolve", "fetch", "copy", "notify"}

TypeOK ==
  /\ instance \in Instances
  /\ copy \in [Devices -> Copies]
  /\ flag \in [Devices -> BOOLEAN]
  /\ addr \in [Devices -> Addrs]
  /\ \A d \in Devices : Owner[addr[d]] = d
  /\ stream \in [Addrs -> Seq(Adverts)]
  /\ \A a \in Addrs : Len(stream[a]) <= StreamCap
  /\ label \in [Addrs -> Copies]
  /\ seen \in [Devices -> Copies]
  /\ queue \in Seq(Events) /\ Len(queue) <= QueueCap
  /\ pull \in [pc : PullStates, event : Events \cup {NoEvent},
             from : Devices \cup {NoDevice}, board : Copies]
  /\ clip \in [dev : Devices \cup {NoDevice}, copy : Copies]
  /\ running \in BOOLEAN
  /\ reports \in [Devices -> [Copies -> Nat]]
  /\ begun \in [Devices -> Copies]
  /\ crowded \subseteq Devices \X Copies

Init ==
  /\ instance \in Instances
  /\ copy = [d \in Devices |-> 0]
  /\ flag = [d \in Devices |-> FALSE]
  /\ addr = [d \in Devices |-> FirstAddr(d)]
  /\ stream = [a \in Addrs |-> <<>>]
  /\ label = [a \in Addrs |-> 0]
  /\ seen = [d \in Devices |-> 0]
  /\ queue = <<>>
  /\ pull = Idle
  /\ clip = NoClip
  /\ running = TRUE
  /\ reports = [d \in Devices |-> [n \in Copies |-> 0]]
  /\ begun = [d \in Devices |-> 0]
  /\ crowded = {}
-----------------------------------------------------------------------------
(* The devices.                                                            *)

CopiesSomething(d) ==
  /\ copy[d] < MaxCopies[d]
  /\ copy' = [copy EXCEPT ![d] = @ + 1]
  /\ flag' = [flag EXCEPT ![d] = TRUE]
  /\ UNCHANGED <<addr, scanVars, queue, pull, clip, runVars, historyVars>>

\* The advert goes on without the clipboard flag.
StopsOffering(d) ==
  /\ flag[d]
  /\ flag' = [flag EXCEPT ![d] = FALSE]
  /\ UNCHANGED <<copy, addr, scanVars, queue, pull, clip, runVars, historyVars>>

\* A new random address, in the adverts and in the service's rpBA record
\* (bound: once per device).
Rotates(d, a) ==
  /\ Owner[a] = d
  /\ addr[d] = FirstAddr(d)
  /\ a # FirstAddr(d)
  /\ addr' = [addr EXCEPT ![d] = a]
  /\ UNCHANGED <<copy, flag, scanVars, queue, pull, clip, runVars, historyVars>>

\* An advert is received; adverts are repeated all the time and any may be
\* missed.
Advertises(d) ==
  /\ copy[d] > 0
  /\ Len(stream[addr[d]]) < StreamCap
  /\ stream' = [stream EXCEPT ![addr[d]] = Append(@, [copy |-> copy[d], flag |-> flag[d]])]
  /\ UNCHANGED <<deviceVars, label, seen, reports, queue, pull, clip, runVars, historyVars>>
-----------------------------------------------------------------------------
(* Scanner: one follower task per address, all with the same SeenMap.      *)

Remember_LastOfAll(d, n) == [e \in Devices |-> IF e = d THEN n ELSE 0]
Remember(d, n) == [seen EXCEPT ![d] = n]

\* handle and report up to device_label: adverts without the flag and what
\* was seen last are ignored; anything else is remembered at once.
HandleAdvert(a) ==
  LET d == Owner[a]
      n == Head(stream[a]).copy
  IN /\ running
     /\ label[a] = 0
     /\ stream[a] # <<>>
     /\ stream' = [stream EXCEPT ![a] = Tail(@)]
     /\ \/ /\ ~Head(stream[a]).flag \/ seen[d] = n
           /\ UNCHANGED <<seen, label, reports>>
        \/ /\ Head(stream[a]).flag /\ seen[d] # n
           /\ seen' = Remember(d, n)
           /\ label' = [label EXCEPT ![a] = n]
           /\ reports' = [reports EXCEPT ![d][n] = @ + 1]
     /\ UNCHANGED <<deviceVars, queue, pull, clip, runVars, historyVars>>

HasRoom == Len(queue) < QueueCap

\* device_label has answered; try_send drops the event when the queue is full.
SendEvent(a) ==
  LET d == Owner[a] IN
  /\ running
  /\ label[a] # 0
  /\ label' = [label EXCEPT ![a] = 0]
  /\ \/ /\ HasRoom
        /\ queue' = Append(queue, [dev |-> d, addr |-> a, copy |-> label[a]])
        /\ UNCHANGED crowded
     \/ /\ ~HasRoom
        /\ crowded' = IF \E i \in 1 .. Len(queue) : queue[i].dev = d
                      THEN crowded ELSE crowded \cup {<<d, label[a]>>}
        /\ UNCHANGED queue
  /\ UNCHANGED <<deviceVars, stream, seen, reports, pull, clip, runVars, begun>>
-----------------------------------------------------------------------------
(* The loop: one pull at a time.                                           *)

At(s) == running /\ pull.pc = s

ReceiveEvent ==
  /\ At("idle")
  /\ queue # <<>>
  /\ queue' = Tail(queue)
  /\ pull' = [pc |-> "resolve", event |-> Head(queue), from |-> NoDevice, board |-> 0]
  /\ begun' = [begun EXCEPT ![Head(queue).dev] = copy[Head(queue).dev]]
  /\ UNCHANGED <<deviceVars, scanVars, clip, runVars, crowded>>

\* discover::resolve: the configured instance, or the service whose rpBA is
\* the address of the advert, which is stale once the device has rotated it.
Resolve ==
  /\ At("resolve")
  /\ \E d \in Devices :
       /\ IF instance # NoDevice THEN d = instance ELSE addr[d] = pull.event.addr
       /\ pull' = [pull EXCEPT !.pc = "fetch", !.from = d]
  /\ UNCHANGED <<deviceVars, scanVars, queue, clip, runVars, historyVars>>

Board_Announced == pull.event.copy
Board == copy[pull.from]

\* connect, system_info_exchange, fetch_pasteboard: the peer answers.
FetchPasteboard ==
  /\ At("fetch")
  /\ pull' = [pull EXCEPT !.pc = "copy", !.board = Board]
  /\ UNCHANGED <<deviceVars, scanVars, queue, clip, runVars, historyVars>>

\* copy_pasteboard runs to its end once the answer is there.  An empty
\* pasteboard is no error; without a Wayland display nothing is copied.
CopyPasteboard ==
  /\ At("copy")
  /\ \/ /\ pull.board > 0
        /\ clip' = [dev |-> pull.from, copy |-> pull.board]
        /\ pull' = [pull EXCEPT !.pc = "notify"]
     \/ /\ pull' = Idle
        /\ UNCHANGED clip
  /\ UNCHANGED <<deviceVars, scanVars, queue, runVars, historyVars>>

NotifyEnds ==
  /\ At("notify")
  /\ pull' = Idle
  /\ UNCHANGED <<deviceVars, scanVars, queue, clip, runVars, historyVars>>

PullFails_NoDeadline ==
  /\ At("fetch") \/ At("copy")
  /\ pull' = Idle
  /\ UNCHANGED <<deviceVars, scanVars, queue, clip, runVars, historyVars>>

\* Any error, or the 40 s deadline: a warning, and on to the next event.
PullFails ==
  /\ At("resolve") \/ At("fetch") \/ At("copy")
  /\ pull' = Idle
  /\ UNCHANGED <<deviceVars, scanVars, queue, clip, runVars, historyVars>>

\* shutdown, or the end of BlueZ's discovery: select! drops both sides and
\* the program ends.
Shutdown ==
  /\ running' = FALSE
  /\ stream' = [a \in Addrs |-> <<>>]
  /\ label' = [a \in Addrs |-> 0]
  /\ seen' = [d \in Devices |-> 0]
  /\ queue' = <<>>
  /\ pull' = Idle
  /\ UNCHANGED <<instance, deviceVars, reports, clip, historyVars>>

PullStep ==
  \/ Resolve \/ FetchPasteboard \/ CopyPasteboard \/ NotifyEnds \/ PullFails

Next ==
  /\ running
  /\ \/ \E d \in Devices :
          \/ CopiesSomething(d) \/ StopsOffering(d) \/ Advertises(d)
          \/ \E a \in Addrs : Rotates(d, a)
     \/ \E a \in Addrs : HandleAdvert(a) \/ SendEvent(a)
     \/ ReceiveEvent \/ PullStep \/ Shutdown

Spec == Init /\ [][Next]_vars

\* A follower that has an advert reported goes on; the loop receives, and a
\* pull ends by its deadline at the latest.
Fairness ==
  /\ \A a \in Addrs : WF_vars(SendEvent(a))
  /\ WF_vars(ReceiveEvent) /\ WF_vars(PullStep)

FairSpec == Spec /\ Fairness
-----------------------------------------------------------------------------
\* A pull never puts an older copy of a device on the clipboard than the one
\* of that device already there, although events may be queued out of order
\* by the followers of two addresses.
NeverGoesBack ==
  [][clip'.dev = clip.dev => clip'.copy >= clip.copy]_vars

\* While a device keeps its address each of its copies is reported once,
\* whatever the other devices do and however often it is advertised.
\* With it the types of all variables.
ReportedOnce ==
  /\ TypeOK
  /\ \A d \in Devices : addr[d] = FirstAddr(d) =>
       \A n \in Copies : reports[d][n] <= 1

\* A copy that was seen leads to a pull begun when the device had this copy
\* or a later one, also if its own event found the queue full: the queue then
\* held an event of the same device.  Only a queue full of other devices'
\* events loses it.
CopyIsTried ==
  \A d \in Devices, n \in Copies \ {0} :
    seen[d] = n ~> begun[d] >= n \/ <<d, n>> \in crowded \/ ~running
=============================================================================
