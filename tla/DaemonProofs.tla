----------------------------- MODULE DaemonProofs -----------------------------
(***************************************************************************)
(* Until a client asks for a stop, the phase of the daemon matches its     *)
(* slot and operations exclude each other, for any number of operations    *)
(* and of searches.  What the two properties rely on is that the slot      *)
(* holds every live task, and nothing else.                                *)
(*                                                                         *)
(* With stops at any moment: nothing that runs is left without an owner,   *)
(* and nothing that has ended or was aborted keeps the slot.               *)
(***************************************************************************)
EXTENDS Daemon, TLAPS

Ops == {"starting", "receiving", "sending"}

\* Only stop aborts.
NobodyAborted == \A t \in Tasks : ~aborted[t]

\* A task is spawned into an empty slot and empties it with its last section.
SlotIsLive ==
  /\ \A t \in Tasks : Live(t) => slot = t
  /\ slot # NoTask => slot \in Tasks /\ Live(slot)

PhaseIsSlot ==
  /\ phase \in Ops <=> slot # NoTask
  /\ slot # NoTask => (phase = "sending" <=> kind[slot] = "send")

\* Only a receive operation comes to the section that shows it as such.
OnlyReceives == \A t \in Tasks : pc[t] = "lockReceiving" => kind[t] = "receive"

UntilStop == NobodyAborted /\ SlotIsLive /\ PhaseIsSlot /\ OnlyReceives
DaemonInv == TypeOK /\ (~stopped => UntilStop)

LEMMA SlotNotNone == NoTask \notin Tasks
BY DaemonAssumption

LEMMA TypesKept == TypeOK /\ [Next]_vars => TypeOK'
<1> SUFFICES ASSUME TypeOK, [Next]_vars PROVE TypeOK'
  OBVIOUS
<1> USE DEF TypeOK, stateVars, taskVars
<1>1. ASSUME NEW t \in Tasks, StartReceive(t) \/ StartSend(t) PROVE TypeOK'
  BY <1>1 DEF StartReceive, StartSend, Spawn, Goto, Pcs
<1>2. ASSUME NEW t \in Tasks, TaskStep(t) PROVE TypeOK'
  <2>1. CASE SpawnRadio(t) \/ RadioReady(t) \/ RadioFails(t) \/ EnterReceiving(t)
    BY <2>1 DEF SpawnRadio, RadioReady, RadioFails, EnterReceiving, Goto, Pcs
  <2>2. CASE AskArrives(t) \/ StorePending(t) \/ RadioKilled(t) \/ Finish(t)
    BY <2>2 DEF AskArrives, StorePending, RadioKilled, Finish, FinishPhase, FinishSlot, Goto, Pcs
  <2>3. CASE \E r \in {"ok", "err"} : ServeEnds(t, r) \/ SendEnds(t, r)
    BY <2>3 DEF ServeEnds, SendEnds, Goto, Pcs
  <2> QED
    BY <1>2, <2>1, <2>2, <2>3 DEF TaskStep
<1>3. ASSUME NEW t \in Tasks, Dropped(t) PROVE TypeOK'
  BY <1>3 DEF Dropped, DropsRadio, Goto, Pcs
<1>4. ASSUME NEW b \in Browsers, DiscoverStart(b) \/ BrowseStep(b) PROVE TypeOK'
  BY <1>4 DEF DiscoverStart, BrowseStep, DiscoverReady, DiscoverBrowsed, DiscoverEnd
<1>5. CASE Stop
  BY <1>5 DEF Stop
<1>6. CASE Decide
  BY <1>6 DEF Decide
<1>7. CASE UNCHANGED vars
  BY <1>7 DEF vars
<1> QED
  BY <1>1, <1>2, <1>3, <1>4, <1>5, <1>6, <1>7 DEF Next

LEMMA UntilStopKept ==
  ASSUME DaemonInv, Next, ~stopped'
  PROVE  UntilStop'
<1>1. ~stopped /\ TypeOK /\ TypeOK' /\ UntilStop
  <2>1. TypeOK /\ TypeOK'
    BY TypesKept DEF DaemonInv
  <2>2. ~stopped
    <3>1. SUFFICES ASSUME stopped PROVE stopped'
      OBVIOUS
    <3> QED
      BY <3>1 DEF Next, StartReceive, StartSend, Spawn, TaskStep, SpawnRadio, RadioReady,
         RadioFails, EnterReceiving, AskArrives, StorePending, ServeEnds, SendEnds, RadioKilled,
         Finish, Dropped, DiscoverStart, BrowseStep, DiscoverReady, DiscoverBrowsed,
         DiscoverEnd, Stop, Decide, stateVars
  <2> QED
    BY <2>1, <2>2 DEF DaemonInv
<1> USE DEF UntilStop, NobodyAborted, SlotIsLive, PhaseIsSlot, OnlyReceives, Live, Ops,
            stateVars, taskVars, Goto
<1>2. ASSUME NEW t \in Tasks, StartReceive(t) \/ StartSend(t) PROVE UntilStop'
  <2>1. pc[t] = "new" /\ slot = NoTask
    BY <1>1, <1>2 DEF StartReceive, StartSend, Spawn, Busy
  <2>2. /\ slot' = t /\ aborted' = aborted
        /\ pc' = [pc EXCEPT ![t] = "start"]
    BY <1>2 DEF StartReceive, StartSend, Spawn
  <2>3. \/ phase' = "starting" /\ kind' = [kind EXCEPT ![t] = "receive"]
        \/ phase' = "sending" /\ kind' = [kind EXCEPT ![t] = "send"]
    BY <1>2 DEF StartReceive, StartSend, Spawn
  <2> QED
    BY <1>1, <2>1, <2>2, <2>3, SlotNotNone DEF TypeOK
\* A live task moves on and stays live.
<1>3. ASSUME NEW t \in Tasks, NEW l \in Pcs \ {"new", "done"},
             Live(t), pc' = [pc EXCEPT ![t] = l],
             l = "lockReceiving" => kind[t] = "receive",
             UNCHANGED <<slot, kind, aborted>>,
             \/ phase' = phase
             \/ phase' = "receiving" /\ kind[t] = "receive"
      PROVE  UntilStop'
  <2>1. slot = t
    BY <1>1, <1>3
  <2> QED
    BY <1>1, <1>3, <2>1, SlotNotNone DEF TypeOK
<1>4. ASSUME NEW t \in Tasks, TaskStep(t) PROVE UntilStop'
  <2>1. CASE SpawnRadio(t)
    BY <1>3, <2>1 DEF SpawnRadio, Pcs
  <2>2. CASE RadioReady(t)
    BY <1>1, <1>3, <2>2 DEF RadioReady, Pcs
  <2>3. CASE RadioFails(t)
    BY <1>3, <2>3 DEF RadioFails, Pcs
  <2>4. CASE EnterReceiving(t)
    BY <1>1, <1>3, <2>4 DEF EnterReceiving, Pcs
  <2>5. CASE AskArrives(t)
    BY <1>3, <2>5 DEF AskArrives, Pcs
  <2>6. CASE StorePending(t)
    BY <1>3, <2>6 DEF StorePending, Pcs
  <2>7. ASSUME NEW r \in {"ok", "err"}, ServeEnds(t, r) \/ SendEnds(t, r) PROVE UntilStop'
    BY <1>3, <2>7 DEF ServeEnds, SendEnds, Pcs
  <2>8. CASE RadioKilled(t)
    BY <1>3, <2>8 DEF RadioKilled, Pcs
  <2>9. CASE Finish(t)
    <3>1. slot = t
      BY <1>1, <2>9 DEF Finish
    <3>2. /\ slot' = NoTask /\ phase' \in {"idle", "error"}
          /\ pc' = [pc EXCEPT ![t] = "done"]
          /\ aborted' = aborted /\ kind' = kind
      BY <2>9 DEF Finish, FinishPhase, FinishSlot
    <3> QED
      BY <1>1, <3>1, <3>2 DEF TypeOK
  <2> QED
    BY <1>4, <2>1, <2>2, <2>3, <2>4, <2>5, <2>6, <2>7, <2>8, <2>9 DEF TaskStep
<1>5. ASSUME NEW t \in Tasks, Dropped(t) PROVE UntilStop'
  BY <1>1, <1>5 DEF Dropped
<1>6. ASSUME NEW b \in Browsers, DiscoverStart(b) \/ BrowseStep(b) PROVE UntilStop'
  <2>1. UNCHANGED <<phase, slot, kind, pc, aborted>>
    BY <1>6 DEF DiscoverStart, BrowseStep, DiscoverReady, DiscoverBrowsed, DiscoverEnd
  <2> QED
    BY <1>1, <2>1
<1>7. CASE Stop
  BY <1>7 DEF Stop
<1>8. CASE Decide
  BY <1>1, <1>8 DEF Decide
<1> QED
  BY <1>2, <1>4, <1>5, <1>6, <1>7, <1>8 DEF Next

LEMMA DaemonInvariant == Spec => []DaemonInv
<1>1. Init => DaemonInv
  <2> SUFFICES ASSUME Init PROVE DaemonInv
    OBVIOUS
  <2>1. TypeOK
    BY DEF Init, TypeOK, Ops, Pcs
  <2>2. NobodyAborted /\ SlotIsLive
    BY SlotNotNone DEF Init, NobodyAborted, SlotIsLive, Live
  <2>3. PhaseIsSlot /\ OnlyReceives
    BY DEF Init, PhaseIsSlot, OnlyReceives, Ops
  <2> QED
    BY <2>1, <2>2, <2>3 DEF DaemonInv, UntilStop
<1>2. DaemonInv /\ [Next]_vars => DaemonInv'
  <2> SUFFICES ASSUME DaemonInv, [Next]_vars PROVE DaemonInv'
    OBVIOUS
  <2>1. TypeOK'
    BY TypesKept DEF DaemonInv
  <2>2. CASE Next
    BY <2>1, <2>2, UntilStopKept DEF DaemonInv
  <2>3. CASE UNCHANGED vars
    BY <2>1, <2>3 DEF vars, DaemonInv, UntilStop, NobodyAborted, SlotIsLive, PhaseIsSlot,
       OnlyReceives, Live, Ops
  <2> QED
    BY <2>2, <2>3
<1> QED
  BY <1>1, <1>2, PTL DEF Spec

\* Until somebody asks for a stop, what status shows is what the slot holds,
\* for any number of operations that start, fail and end (daemon.rs).
THEOREM PhaseTellsSlot == Spec => []PhaseMatchesSlot
<1>1. DaemonInv => PhaseMatchesSlot
  <2> SUFFICES ASSUME DaemonInv PROVE PhaseMatchesSlot
    OBVIOUS
  <2>1. TypeOK
    BY DEF DaemonInv
  <2>2. ASSUME ~stopped
        PROVE  /\ phase \in {"starting", "receiving", "sending"} <=> Busy
               /\ Busy => (phase = "sending" <=> kind[slot] = "send")
    BY <2>2 DEF DaemonInv, UntilStop, SlotIsLive, PhaseIsSlot, Busy, Ops
  <2> QED
    BY <2>1, <2>2 DEF PhaseMatchesSlot
<1> QED
  BY <1>1, DaemonInvariant, PTL

\* Until somebody asks for a stop, the daemon runs one operation at a time.
THEOREM OperationsExclude == Spec => []SingleOperationUntilStop
<1>1. DaemonInv => SingleOperationUntilStop
  BY DEF DaemonInv, UntilStop, SlotIsLive, SingleOperationUntilStop, SingleOperation
<1> QED
  BY <1>1, DaemonInvariant, PTL
-----------------------------------------------------------------------------
(* What is held, whoever stops what and when: the safety part of           *)
(* OperationsLetGo.                                                        *)

\* Where an operation, and a search, has its awdlctl child.
HoldsRadio == {"probe", "lockReceiving", "serve", "lockPending", "work", "kill"}
Searches == {"probe", "browse", "kill"}

\* Every radio that runs belongs to an operation or a search that still has
\* to release it.
RadioHasOwner ==
  \A x \in radio : \/ x \in Tasks /\ pc[x] \in HoldsRadio
                   \/ x \in Browsers /\ bpc[x] \in Searches

\* What keeps later operations out is one that runs and that nobody has
\* aborted; it is the handle of a task that was spawned.
SlotIsHeld ==
  /\ slot # NoTask => slot \in Tasks /\ Live(slot) /\ ~aborted[slot]
  /\ \A t \in Tasks : pc[t] = "new" => ~aborted[t]

HeldInv == TypeOK /\ RadioHasOwner /\ SlotIsHeld

\* A task that moves on keeps its radio as long as it is to release it.
LEMMA MovesOn ==
  ASSUME HeldInv, NEW t \in Tasks, NEW l \in Pcs \ {"new"},
         Live(t), pc' = [pc EXCEPT ![t] = l],
         radio' \in {radio, radio \cup {t}, radio \ {t}},
         t \in radio' => l \in HoldsRadio,
         UNCHANGED <<bpc, aborted>>,
         slot' \in {slot, NoTask}, slot' = t => l # "done"
  PROVE  RadioHasOwner' /\ SlotIsHeld'
<1>1. RadioHasOwner'
  <2> SUFFICES ASSUME NEW x \in radio'
               PROVE  \/ x \in Tasks /\ pc'[x] \in HoldsRadio
                      \/ x \in Browsers /\ bpc'[x] \in Searches
    BY DEF RadioHasOwner
  <2>1. CASE x = t
    BY <2>1 DEF HeldInv, TypeOK
  <2>2. CASE x # t
    BY <2>2 DEF HeldInv, TypeOK, RadioHasOwner
  <2> QED
    BY <2>1, <2>2
<1>2. SlotIsHeld'
  BY SlotNotNone DEF HeldInv, TypeOK, SlotIsHeld, Live
<1> QED
  BY <1>1, <1>2

LEMMA HeldStep == HeldInv /\ [Next]_vars => HeldInv'
<1> SUFFICES ASSUME HeldInv, [Next]_vars PROVE RadioHasOwner' /\ SlotIsHeld'
  BY TypesKept DEF HeldInv
<1> USE DEF Goto, stateVars, taskVars
<1>1. ASSUME NEW t \in Tasks, StartReceive(t) \/ StartSend(t) PROVE RadioHasOwner' /\ SlotIsHeld'
  <2>1. /\ pc[t] = "new" /\ pc' = [pc EXCEPT ![t] = "start"]
        /\ slot' = t /\ UNCHANGED <<aborted, radio, bpc>>
    BY <1>1 DEF StartReceive, StartSend, Spawn
  <2>2. RadioHasOwner'
    BY <2>1 DEF HeldInv, RadioHasOwner, TypeOK, HoldsRadio
  <2>3. SlotIsHeld'
    BY <2>1 DEF HeldInv, SlotIsHeld, TypeOK, Live
  <2> QED
    BY <2>2, <2>3
\* Nothing but the steps of a task that holds it starts a radio.
<1>2. ASSUME NEW t \in Tasks, pc[t] \notin HoldsRadio PROVE t \notin radio
  BY <1>2, DaemonAssumption DEF HeldInv, RadioHasOwner
<1>3. ASSUME NEW t \in Tasks, TaskStep(t) PROVE RadioHasOwner' /\ SlotIsHeld'
  <2>1. CASE SpawnRadio(t)
    BY <1>2, <1>3, <2>1, MovesOn DEF SpawnRadio, Live, HoldsRadio, Pcs
  <2>2. CASE RadioReady(t)
    BY <2>2, MovesOn DEF RadioReady, Live, HoldsRadio, Pcs
  <2>3. CASE RadioFails(t)
    BY <2>3, MovesOn DEF RadioFails, Live, HoldsRadio, Pcs
  <2>4. CASE EnterReceiving(t)
    BY <2>4, MovesOn DEF EnterReceiving, Live, HoldsRadio, Pcs
  <2>5. CASE AskArrives(t)
    BY <2>5, MovesOn DEF AskArrives, Live, HoldsRadio, Pcs
  <2>6. CASE StorePending(t)
    BY <2>6, MovesOn DEF StorePending, Live, HoldsRadio, Pcs
  <2>7. ASSUME NEW r \in {"ok", "err"}, ServeEnds(t, r) PROVE RadioHasOwner' /\ SlotIsHeld'
    BY <2>7, MovesOn DEF ServeEnds, Live, HoldsRadio, Pcs
  <2>8. ASSUME NEW r \in {"ok", "err"}, SendEnds(t, r) PROVE RadioHasOwner' /\ SlotIsHeld'
    BY <2>8, MovesOn DEF SendEnds, Live, HoldsRadio, Pcs
  <2>9. CASE RadioKilled(t)
    BY <2>9, MovesOn DEF RadioKilled, Live, HoldsRadio, Pcs
  <2>10. CASE Finish(t)
    <3>1. t \notin radio
      BY <1>2, <2>10 DEF Finish, HoldsRadio
    <3> QED
      BY <2>10, <3>1, MovesOn, SlotNotNone DEF Finish, FinishSlot, Live, HoldsRadio, Pcs
  <2> QED
    BY <1>3, <2>1, <2>2, <2>3, <2>4, <2>5, <2>6, <2>7, <2>8, <2>9, <2>10 DEF TaskStep
<1>4. ASSUME NEW t \in Tasks, Dropped(t) PROVE RadioHasOwner' /\ SlotIsHeld'
  <2>1. slot # t
    <3>1. slot # NoTask => ~aborted[slot]
      BY DEF HeldInv, SlotIsHeld
    <3>2. aborted[t]
      BY <1>4 DEF Dropped
    <3> QED
      BY <3>1, <3>2, SlotNotNone, Zenon
  <2> QED
    BY <1>4, <2>1, MovesOn DEF Dropped, DropsRadio, Live, HoldsRadio, Pcs
<1>5. ASSUME NEW b \in Browsers, DiscoverStart(b) \/ BrowseStep(b)
      PROVE  RadioHasOwner' /\ SlotIsHeld'
  <2>1. UNCHANGED <<slot, pc, aborted>>
    BY <1>5 DEF DiscoverStart, BrowseStep, DiscoverReady, DiscoverBrowsed, DiscoverEnd
  <2>2. RadioHasOwner'
    BY <1>5, <2>1, DaemonAssumption DEF DiscoverStart, BrowseStep, DiscoverReady,
       DiscoverBrowsed, DiscoverEnd, HeldInv, RadioHasOwner, TypeOK, Searches
  <2>3. SlotIsHeld'
    BY <2>1 DEF HeldInv, SlotIsHeld, Live
  <2> QED
    BY <2>2, <2>3
<1>6. CASE Stop
  <2>1. /\ slot' = NoTask /\ UNCHANGED <<pc, bpc, radio>>
        /\ aborted' = [t \in Tasks |-> aborted[t] \/ t = slot]
    BY <1>6 DEF Stop
  <2>2. RadioHasOwner'
    BY <2>1 DEF HeldInv, RadioHasOwner
  <2>3. SlotIsHeld'
    BY <2>1, SlotNotNone DEF HeldInv, SlotIsHeld, Live
  <2> QED
    BY <2>2, <2>3
<1>7. CASE Decide \/ UNCHANGED vars
  <2>1. UNCHANGED <<slot, pc, aborted, radio, bpc>>
    BY <1>7 DEF Decide, vars
  <2> QED
    BY <2>1 DEF HeldInv, RadioHasOwner, SlotIsHeld, Live
<1> QED
  BY <1>1, <1>3, <1>4, <1>5, <1>6, <1>7 DEF Next

\* However operations and searches start, fail, end, are aborted and dropped,
\* and with however many stops: no awdlctl child runs without the operation
\* or the search that releases it, and the slot never holds an operation that
\* has ended or was aborted (start, stop and discover of daemon.rs).  This is the
\* safety part of OperationsLetGo.
THEOREM NothingIsOrphaned == Spec => [](RadioHasOwner /\ SlotIsHeld)
<1>1. Init => HeldInv
  <2> SUFFICES ASSUME Init PROVE HeldInv
    OBVIOUS
  <2>1. TypeOK
    BY DEF Init, TypeOK, Pcs
  <2>2. RadioHasOwner
    BY DEF Init, RadioHasOwner
  <2>3. SlotIsHeld
    BY DEF Init, SlotIsHeld
  <2> QED
    BY <2>1, <2>2, <2>3 DEF HeldInv
<1>2. HeldInv => RadioHasOwner /\ SlotIsHeld
  BY DEF HeldInv
<1> QED
  BY <1>1, <1>2, HeldStep, PTL DEF Spec
=============================================================================
