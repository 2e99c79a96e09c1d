-------------------------------- MODULE Daemon --------------------------------
(***************************************************************************)
(* The control service of src/src/daemon.rs: the State behind the mutex    *)
(* (phase, task, pending), the handlers that clients reach through the     *)
(* control socket, the background receive and send tasks they spawn, and   *)
(* the awdlctl child (the radio) each operation starts.                    *)
(*                                                                         *)
(* A section that holds the mutex is one action.  A handler that returns   *)
(* early without changing anything is not an action.                       *)
(*                                                                         *)
(* JoinHandle::abort drops a task at its next suspension.  A task that is  *)
(* being polled on another worker thread at that moment runs on to its     *)
(* next pending await, so it may still take the mutex once: in the states  *)
(* "lockReceiving", "lockPending" and "lockFinal" an aborted task either   *)
(* goes on or is dropped; in every other state it is only dropped.         *)
(***************************************************************************)
EXTENDS Naturals, FiniteSets

CONSTANTS
  Tasks,     \* background operations that may be spawned, each at most once
  Browsers,  \* `peers' requests that may be made, each at most once
  NoTask     \* None

ASSUME DaemonAssumption ==
  /\ NoTask \notin Tasks \cup Browsers
  /\ Tasks \cap Browsers = {}

VARIABLES
  phase,    \* State.phase
  slot,     \* State.task
  pending,  \* State.pending: the task whose Ask it holds, or NoTask
  kind,     \* "receive" or "send"
  pc,       \* where each background task is
  aborted,  \* has the task been aborted?
  result,   \* Ok or Err of the task's inner block
  bpc,      \* where each `peers' handler is
  radio,    \* owners of a running awdlctl child
  stopped   \* history: a client has asked for a stop

vars == <<phase, slot, pending, kind, pc, aborted, result, bpc, radio, stopped>>
taskVars == <<kind, pc, aborted, result>>
stateVars == <<phase, slot, pending, stopped>>

Pcs == {"new", "start", "probe", "lockReceiving", "serve", "lockPending",
        "work", "kill", "lockFinal", "done"}

TypeOK ==
  /\ phase \in {"idle", "starting", "receiving", "sending", "error"}
  /\ slot \in Tasks \cup {NoTask}
  /\ pending \in Tasks \cup {NoTask}
  /\ kind \in [Tasks -> {"receive", "send"}]
  /\ pc \in [Tasks -> Pcs]
  /\ aborted \in [Tasks -> BOOLEAN]
  /\ result \in [Tasks -> {"ok", "err"}]
  /\ bpc \in [Browsers -> {"new", "probe", "browse", "kill", "done"}]
  /\ radio \subseteq Tasks \cup Browsers
  /\ stopped \in BOOLEAN

Init ==
  /\ phase = "idle"
  /\ slot = NoTask
  /\ pending = NoTask
  /\ kind = [t \in Tasks |-> "receive"]
  /\ pc = [t \in Tasks |-> "new"]
  /\ aborted = [t \in Tasks |-> FALSE]
  /\ result = [t \in Tasks |-> "ok"]
  /\ bpc = [b \in Browsers |-> "new"]
  /\ radio = {}
  /\ stopped = FALSE

Live(t) == pc[t] \notin {"new", "done"}
Goto(t, l) == pc' = [pc EXCEPT ![t] = l]
-----------------------------------------------------------------------------
(* Handlers.                                                               *)

\* s.task.as_ref().is_some_and(|t| !t.is_finished())
Busy_NoCheck == FALSE
Busy == slot # NoTask /\ Live(slot)

Spawn(t, k) ==
  /\ pc[t] = "new"
  /\ ~Busy
  /\ slot' = t
  /\ kind' = [kind EXCEPT ![t] = k]
  /\ Goto(t, "start")
  /\ UNCHANGED <<pending, aborted, result, bpc, radio, stopped>>

\* When busy: "already receiving".
StartReceive(t) ==
  /\ Spawn(t, "receive")
  /\ phase' = "starting"

\* When busy: "another operation is active".
StartSend(t) ==
  /\ Spawn(t, "send")
  /\ phase' = "sending"

Stop ==
  /\ aborted' = [t \in Tasks |-> aborted[t] \/ t = slot]
  /\ slot' = NoTask
  /\ phase' = "idle"
  /\ pending' = NoTask
  /\ stopped' = TRUE
  /\ UNCHANGED <<kind, pc, result, bpc, radio>>

\* approve and reject: the pending Ask is taken and answered.
Decide ==
  /\ pending # NoTask
  /\ pending' = NoTask
  /\ UNCHANGED <<phase, slot, taskVars, bpc, radio, stopped>>

\* discover: a radio of its own, whatever the slot holds, then a bounded
\* browse, then radio.kill().  A start failure drops the child.
DiscoverStart(b) ==
  /\ bpc[b] = "new"
  /\ bpc' = [bpc EXCEPT ![b] = "probe"]
  /\ radio' = radio \cup {b}
  /\ UNCHANGED <<stateVars, taskVars>>

DiscoverReady(b) ==
  /\ bpc[b] = "probe"
  /\ \/ /\ bpc' = [bpc EXCEPT ![b] = "browse"]
        /\ UNCHANGED radio
     \/ /\ bpc' = [bpc EXCEPT ![b] = "done"]
        /\ radio' = radio \ {b}
  /\ UNCHANGED <<stateVars, taskVars>>

DiscoverBrowsed(b) ==
  /\ bpc[b] = "browse"
  /\ bpc' = [bpc EXCEPT ![b] = "kill"]
  /\ UNCHANGED <<stateVars, taskVars, radio>>

DiscoverEnd(b) ==
  /\ bpc[b] = "kill"
  /\ bpc' = [bpc EXCEPT ![b] = "done"]
  /\ radio' = radio \ {b}
  /\ UNCHANGED <<stateVars, taskVars>>
-----------------------------------------------------------------------------
(* The background tasks.                                                   *)

\* start_radio: spawn awdlctl (which may fail), then poll until it is ready,
\* has exited or ten seconds have passed.
SpawnRadio(t) ==
  /\ pc[t] = "start"
  /\ ~aborted[t]
  /\ \/ /\ Goto(t, "probe")
        /\ radio' = radio \cup {t}
        /\ UNCHANGED result
     \/ /\ Goto(t, "lockFinal")
        /\ result' = [result EXCEPT ![t] = "err"]
        /\ UNCHANGED radio
  /\ UNCHANGED <<stateVars, kind, aborted, bpc>>

RadioReady(t) ==
  /\ pc[t] = "probe"
  /\ ~aborted[t]
  /\ Goto(t, IF kind[t] = "receive" THEN "lockReceiving" ELSE "work")
  /\ UNCHANGED <<stateVars, kind, aborted, result, bpc, radio>>

RadioFails(t) ==
  /\ pc[t] = "probe"
  /\ ~aborted[t]
  /\ Goto(t, "lockFinal")
  /\ radio' = radio \ {t}
  /\ result' = [result EXCEPT ![t] = "err"]
  /\ UNCHANGED <<stateVars, kind, aborted, bpc>>

EnterReceiving(t) ==
  /\ pc[t] = "lockReceiving"
  /\ phase' = "receiving"
  /\ Goto(t, "serve")
  /\ UNCHANGED <<slot, pending, stopped, kind, aborted, result, bpc, radio>>

\* approval_rx.recv: an Ask reached the receiver.
AskArrives(t) ==
  /\ pc[t] = "serve"
  /\ ~aborted[t]
  /\ Goto(t, "lockPending")
  /\ UNCHANGED <<stateVars, kind, aborted, result, bpc, radio>>

\* s.pending = Some(..): what was pending before is dropped.
StorePending(t) ==
  /\ pc[t] = "lockPending"
  /\ pending' = t
  /\ Goto(t, "serve")
  /\ UNCHANGED <<phase, slot, stopped, kind, aborted, result, bpc, radio>>

\* airdrop::run returned; radio.kill() follows whatever it returned.
ServeEnds(t, r) ==
  /\ pc[t] = "serve"
  /\ ~aborted[t]
  /\ result' = [result EXCEPT ![t] = r]
  /\ Goto(t, "kill")
  /\ UNCHANGED <<stateVars, kind, aborted, bpc, radio>>

\* resolve, discover and transfer; an error drops the radio on the way out.
SendEnds(t, r) ==
  /\ pc[t] = "work"
  /\ ~aborted[t]
  /\ result' = [result EXCEPT ![t] = r]
  /\ \/ r = "ok" /\ Goto(t, "kill") /\ UNCHANGED radio
     \/ r = "err" /\ Goto(t, "lockFinal") /\ radio' = radio \ {t}
  /\ UNCHANGED <<stateVars, kind, aborted, bpc>>

RadioKilled(t) ==
  /\ pc[t] = "kill"
  /\ ~aborted[t]
  /\ radio' = radio \ {t}
  /\ Goto(t, "lockFinal")
  /\ UNCHANGED <<stateVars, kind, aborted, result, bpc>>

FinishPhase_Sticky(t) == phase
FinishPhase(t) == IF result[t] = "ok" THEN "idle" ELSE "error"

FinishSlot(t) == NoTask

\* The last section of both tasks; it does not touch pending.
Finish(t) ==
  /\ pc[t] = "lockFinal"
  /\ phase' = FinishPhase(t)
  /\ slot' = FinishSlot(t)
  /\ Goto(t, "done")
  /\ UNCHANGED <<pending, stopped, kind, aborted, result, bpc, radio>>

DropsRadio_Leak(t) == radio
DropsRadio(t) == radio \ {t}

\* The runtime drops an aborted task; its Child has kill_on_drop.
Dropped(t) ==
  /\ aborted[t]
  /\ Live(t)
  /\ Goto(t, "done")
  /\ radio' = DropsRadio(t)
  /\ UNCHANGED <<stateVars, kind, aborted, result, bpc>>

TaskStep(t) ==
  \/ SpawnRadio(t) \/ RadioReady(t) \/ RadioFails(t) \/ EnterReceiving(t)
  \/ AskArrives(t) \/ StorePending(t)
  \/ \E r \in {"ok", "err"} : ServeEnds(t, r) \/ SendEnds(t, r)
  \/ RadioKilled(t) \/ Finish(t)

BrowseStep(b) == DiscoverReady(b) \/ DiscoverBrowsed(b) \/ DiscoverEnd(b)

Next ==
  \/ \E t \in Tasks : StartReceive(t) \/ StartSend(t) \/ TaskStep(t) \/ Dropped(t)
  \/ \E b \in Browsers : DiscoverStart(b) \/ BrowseStep(b)
  \/ Stop \/ Decide

\* Every wait of a task has a timer (ten-second radio start, window of at
\* most 3600 s, request timeouts of the sender, kill of a child), the browse
\* has one of 20 s, and the runtime drops what was aborted.
Fairness ==
  /\ \A t \in Tasks :
       /\ WF_vars(TaskStep(t) /\ pc'[t] # "lockPending")
       /\ WF_vars(Dropped(t))
       /\ SF_vars(\E r \in {"ok", "err"} : ServeEnds(t, r))
  /\ \A b \in Browsers : WF_vars(BrowseStep(b))

Spec == Init /\ [][Next]_vars
FairSpec == Spec /\ Fairness
-----------------------------------------------------------------------------
\* Until a client asks for a stop, the phase clients are shown says exactly
\* whether the slot holds a live operation, and of which kind.
\* With it the types of all variables.
PhaseMatchesSlot ==
  /\ TypeOK
  /\ ~stopped =>
       /\ phase \in {"starting", "receiving", "sending"} <=> Busy
       /\ Busy => (phase = "sending" <=> kind[slot] = "send")

\* At most one background operation that nobody has aborted.
SingleOperation ==
  \A t, u \in Tasks : Live(t) /\ Live(u) /\ ~aborted[t] /\ ~aborted[u] => t = u

\* Until a client asks for a stop, operations exclude each other: the check
\* of the slot and its clearing at the end of a task fit together.
SingleOperationUntilStop == ~stopped => SingleOperation

\* Whatever happens to an operation (it ends, fails, is aborted in any
\* state), the radio that was started for it is released, and it gives the
\* slot back: none keeps later ones out for ever.
OperationsLetGo ==
  /\ \A x \in Tasks \cup Browsers : x \in radio ~> x \notin radio
  /\ \A t \in Tasks : slot = t ~> slot # t
=============================================================================
