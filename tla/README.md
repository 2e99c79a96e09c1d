# A TLA+ model of ac-dc (Adhoc Cross-Device Connection)

ac-dc lets a Linux desktop exchange files, links and the clipboard with nearby
devices over AWDL and Bluetooth. This directory models the parts of it whose
correctness depends on what happens at the same time or in an unusual order: the
receive window, the control daemon, the desktop window's engine with the way an
incoming transfer is shown and approved, the sender from the identity it loads
and the archive it spools to the last reply, the publication of received files,
the clipboard pull, the companion link and its encodings, the key transfer, and
the window's text fields. TLC checks the models on small instances. TLAPS proves
every safety property of them but one for every value of the constants; the one
left and all liveness are model-checked only, and of every liveness property
TLAPS proves the safety part.

Paths below are relative to the repository; line numbers of every definition
are in `PROJECT.json` under `map`.

## The system and its parts

| Part | State it keeps | Operations | What is hard about it |
| --- | --- | --- | --- |
| Receive window, `src/airdrop/mod.rs`, `http.rs` | accept loop with a set of connection tasks; per task the request being served; shared grant table by IP address; approval channel (8); completed channel (8) | accept, Discover, Ask, Upload, close | up to four tasks interleave; a decision may come after the Ask gave up; grants age; blocking storage jobs outlive the window |
| Storage, `storage.rs`, `archive.rs`, `cancel.rs` | staging directory, receive folder, cancellation token | decode, extract, publish; store links, roll back | several jobs and the user work in one folder; a failure halfway; cancellation |
| Control daemon, `daemon.rs` | mutex around phase, task handle and pending transfer; one radio child per operation | status, receive, send, stop, approve, reject, peers | tasks are aborted at any await and, on a multi-threaded runtime, while they are being polled |
| Approval, `daemon.rs`, `ui.rs` | one pending slot; the engine's last poll; event and action channels; cards on screen | poll, show, click, decide, start, stop | every hop is stale by the time the next one looks; decisions name no transfer |
| Engine, `ui.rs` | queue of clicks; the running transfer and search; whether it owns the radio service | send, cancel, browse, start, stop, quit, poll | while it waits for the radio nothing is served; a Cancel arrives before the transfer it means exists; the radio must not outlive the window |
| Text fields, `ui_widgets.rs` | bytes, selection, composition, layout of the last paint | keys, mouse, input method, paint | byte, character and UTF-16 offsets; a click looked up in an older layout; a slice inside a character panics |
| Outgoing archive, `outgoing.rs` | the spool, entry count and total size | walk, copy, check | files change between a look at them and the next; limits; the other end refuses what is malformed |
| TLS identity, `mod.rs` | `key.pem`, `certificate.pem` | generate, load | several callers at once; a crash between two files |
| Sender, `send.rs`, `client_http.rs` | one session, bytes handed over | connect, Ask, reconnect, Upload | replies and connections are lost at any point |
| Clipboard auto-pull, `scan.rs`, `orchestrate.rs` | last copy seen per key, bounded queue | advert, dedupe, pull | a copy lost between dedupe and queue; one pull at a time with a deadline |
| Companion link, `companion.rs`, `companion_client.rs` | Pair-Verify progress, content keys and nonce counters of both ends | M1 to M4, encrypted requests | either end may reject, give up or lose the other after any packet; keys, counters and authenticated lengths must agree at both |
| Key transfer, `transfer.rs`, `transfer_ble.rs` | sender key, reassembler | GATT writes, confirm, write file | writes of several centrals interleave with the waiting task |
| Recipient discovery, `peers.rs`, `discover.rs`, `health.rs` | candidate addresses | browse, fall back, probe | deadlines inside deadlines |
| Codecs, `opack.rs`, `tlv8.rs`, `advert.rs` | none | encode, decode | widths, forms and fragments at their boundaries; depth and object limits; references |

They interact as follows. A client (the window, the bar widget, the command
line) sends one request per connection to the daemon. `receive` spawns a task
that starts the radio and runs the receive window; the window's connections
put each Ask on the approval channel and wait on a oneshot; the task moves the
Ask into the daemon's pending slot; the engine of the window polls the slot
and shows a card; a click travels back as `approve` or `reject`, which fires
the oneshot. An accepted Ask of files leaves a grant for the sender's address,
which the headers of the next Upload from that address consume; the body is
spooled and a blocking thread publishes it. `send` spawns a task that drives
the same protocol from the other end: it loads the identity (which the receive
window and every search load too), spools the chosen files on a blocking thread,
asks, and uploads. The window's engine does the same for its own transfers, in
a task of its own, after it has started the radio service.

## Modules

| Module | Models |
| --- | --- |
| `Receiver` | the receive window |
| `Consent` | what the receive window promises; `Receiver` implements it |
| `Identity` | generation and loading of key and certificate by several callers |
| `Outgoing` | the spooling of chosen files while they change; what the other end accepts |
| `Delivery` | the sender, composed with `Receiver` (extends it) over a lossy wire, with `Identity` and with `Outgoing` |
| `Storage` | publication of archives and links |
| `Daemon` | the control daemon and its background tasks |
| `Approval` | Ask, pending slot, polls, cards, clicks |
| `Engine` | the whole engine of the window; extends `Approval` |
| `TextField` | the one-line text input |
| `Clipboard` | the BLE scanner and the loop that pulls announced copies |
| `KeyTransfer` | `receive-key` and runs of `send-key` over Bluetooth LE |
| `CompanionLink` | Pair-Verify and the encrypted exchanges of one pull, both ends |
| `TrustedPull` | what a pull promises; `CompanionLink` implements it |
| `Framing` | the packet frame as operators, and the limits of the OPACK decoder |
| `Codecs` | OPACK and TLV8 as operators; extends `Framing` |
| `StorageProofs`, `DaemonProofs`, `EngineProofs`, `TextFieldProofs`, `ClipboardProofs`, `KeyTransferProofs` | theorems about the module each is named after |
| `DeliveryProofs` | theorems about `Receiver`, `Identity`, `Outgoing` and `Delivery`, which composes them |
| `CompanionProofs` | theorems about `CompanionLink` and `Framing` |
| `MC*` | constants of the instances the `.cfg` files check |

Operators named `X_Something` in front of an operator `X` are faulty variants of
it: each property is known to fail when `X` is replaced by one of them, so the
run is sensitive to that part of the code. No specification uses them.

### Receiver

`pc[c]` says where the task of connection `c` is in `connection`; `served[c]` is
the iteration of its `for _ in 0..32` loop; a request is the pair of both.
`queue` is the approval channel, `held` the Asks somebody has taken out of it and
not yet decided, `answer` the oneshots. `grants` is `Sessions.approved`; an
`Instant` in it is reduced to whether 120 s have passed, and `GrantAges` may
happen whenever a grant is young. `job[c]` is the `spawn_blocking` closure of an
Upload. `approved`, `denied`, `expired`, `consumed` and `stored` are history.

Each suspension point of `connection` separates two actions. Everything between
two awaits is one action, also when it takes the table's mutex, because the
mutex is never held across an await. `ConnectionFails` is every `?` on reading
or writing. Two details of the code carry the properties and are modelled as
they are: the authorize closure removes the grant before it looks at its age,
and `tokio::time::timeout` polls the oneshot before the timer, so that
`AskTimesOut` needs an unanswered oneshot. `Close` aborts every task in one
step: a step a task takes while it is being aborted could as well have come
first, since it touches nothing that `run` looks at afterwards. Storage jobs go
on after `Close`; whether they still publish is left open (`JobEnds`), because
cancellation is a race that `Storage` models in detail. A storage error of links ends the
connection, and may leave some of them in the folder (`DeliverLinks`).

`Respond` tells `run` of a finished transfer by `try_send`, which drops the report
if the channel is full. `reported` remembers, with `--once`, that a reply has
announced the end of a transfer to its sender. If that reply cannot be written,
nothing is reported and the window stays open: the code does so, and `OnceCloses`
speaks of replies that were written.

### Identity

`exists()` and `create_new` of each file, each write, each read is one step of one
caller; a caller may stop at any of them (`broken` remembers that it did between
the first creation and the last write). The identity someone is handed is named
after whoever generated it. A crash or an I/O error between the two files leaves
a directory in which loading fails for ever: both files are needed, and a new pair
is generated only if both are missing. `OneIdentity` says that no two identities
are ever handed out, and that unless somebody died so, the two files belong
together whenever nobody is at work on them.

### Outgoing

One action per look at the file system: `prepare_cancel` takes each path; `add` looks
at what is there (`Add`), then lists a folder (`ReadDir`) or opens, copies and compares
a file; and `Resize` and `Replace` let others grow, swap or remove a node between any
two of these. A folder that has become a link to itself by the second look is listed
all the same, since `read_dir` follows links. `ReadDir` yields all that were ever in the
folder: one that is gone by then makes its own `Add` fail, where the code may also
pass over it. Names are model values; a path in the archive is the sequence of names,
and `LongPaths` are those of more bytes than both ends allow. `Accepted` is what `storage.rs` demands of an
archive. The two ends disagree in three ways, which `PreparedIsAccepted` lists:
names with characters that turn the text direction pass `filename()` and are
refused by `relative()`; a folder without any visible file is packed and then
refused; and headers count towards the receiver's 32 GiB but not towards the
sender's.

### Delivery

A session of the sender is a connection of the receiver; `wire` and `back` hold
what travels. The receiver's actions are those of `Receiver`, fed by the wire.
Before it connects, the sender loads the identity, as one of the callers of
`Identity` (`Elsewhere` is what the other callers do), then spools with
`Outgoing`. `Abort` is the drop of the transfer's future at any await; the
spooling thread then finds its token raised.
The sender may give up at every wait (`SessionFails`, `AskLost`, `UploadLost`):
each has a deadline. `Closed(session)` with all bytes handed over is the case in
which the code accepts a missing reply as success; it may win over a reply that
is still under way, since a close with unread data destroys it. So a transfer of
files the receiver failed to store may be reported as delivered (`send.rs`
explains why it accepts this); `DeliveredAsDecided` speaks of links, for which
the reply to the Ask is the delivery, and of refusals. The Discover request that
precedes a transfer uses a session of its own and is left out.

### Storage

A name is the sequence of suffixes it carries, so that "photo 2.jpg" is both a
received name and the second candidate of "photo.jpg". A rename is one atomic
step that needs a free name (`RENAME_NOREPLACE`, `persist_noclobber`). Extraction
may pick up items after a cancel because the reader is buffered; `CheckToken` is
the only look at the token afterwards. `item` and `number` are locals of the
publication loop and have their first value outside it. Directories inside an item are part of it.
An archive of several items is not published as a whole: items are renamed one
by one, and those before a failed rename or sync stay. No property says
otherwise, although storage.rs calls publication atomic in its first line.
Candidate numbers stop at `MaxNumber`, one more than the names that can ever be
taken, while the code counts on in a `u64`; `NumbersSuffice` says that no job
gets there, so that the bound hides nothing. The rollback of a link transfer goes
through the paths it wrote one after the other and removes by path whatever is there
(`Removed`), or fails to, which the code passes over (`NotRemoved`; `kept` remembers
the name). Nobody takes a file away while a transfer runs, so what is there is the
transfer's own file; a user who moved a link away and saved another file under its
name before the rollback would lose that one.

### Daemon

A section under the mutex is one action. Handlers that answer without changing
anything are not actions. `JoinHandle::abort` drops a task at its next
suspension; the runtime is multi-threaded (`Runtime::new` in `main.rs`), so a
task that is being polled when it is aborted runs on to its next pending await
and can take the mutex once more if it is free. In the three states that are
about to lock, an aborted task therefore either goes on or is dropped; local
steps before a lock can be taken to precede the abort. What two radio children
do to each other is up to `awdlctl` and not modelled.

### Approval

An Ask's sender and item names are its label, all that the UI sees; two Asks may
have the same. The engine is one sequential loop, so a request to the daemon and
what the engine does with the reply form one action. The races of `stop` with a
task that is being polled are in `Daemon`, not here.

### Engine

`Engine` extends `Approval` with the outgoing half of the same loop. `engine` says
what the loop awaits: its `select` ("idle"), `radio_start` ("radio") or a stop
command ("stopping"). While it waits for the radio, up to 165 s, it neither polls
nor serves a click, so what the user clicks meanwhile stays in `actions`; the last
Cancel, Stop or Quit that was served is `cancelled`, and `CancelHolds` compares it
with the click of the running transfer. A failed command to the radio service may leave it on (`fault`);
otherwise it is off when the engine has quit. Clicks are numbered, which is
history.

### TextField

The field is a sequence of UTF-8 code units, of which the instance has four kinds:
a letter, the first unit of a character that joins the grapheme before it, the
first of one that takes two UTF-16 units, and a further unit. Ranges are pairs of byte
offsets as in the code; a slice outside the text or inside a character sets
`panicked`, as it would end the program. `layout` is the text of the last paint.
`index_for_mouse_position` does not compare it with the text of the field, so a
click between an edit and the next paint may take an offset that does not exist:
`stale` marks such a selection, and `RangesFit` excludes it. Whether the toolkit
ever delivers a click between an edit and the next paint, the repository does not
say, which is why this is a limit of the property and not called an error.

### Framing and Codecs

`Framing` has `Serialize` and `ParsePacket` of a packet, which recurse nowhere and are
proved about; `Codecs` has `Encode` and `Decode` of OPACK, `TlvEncode` and `TlvDecode`,
on sequences of byte values. `Framing` also holds the decoder's limits, which
`CompanionLink` needs as well. Strings are ASCII; numbers are their eight bytes, so
that no width is lost. The decoder is a record that is handed on, with the object
table, the object count and the memory budget of the code; it is `RECURSIVE`, so
no theorem is stated about it. The encoder does not look at the nesting, so what it
writes beyond 64 levels its own decoder refuses; TLV8 joins adjacent items of one type
and takes truncated input for what it has. The model keeps both, and the values it
is checked on stay on the side where the two directions agree.

### CompanionLink

Each pull has a connection and ephemeral keys of its own and pulls share no
state, so one connection is modelled, with the device that happens to be behind
the resolved address. Cryptography is symbolic (see the module's header). A
packet arrives whole or its reader times out.

A message is a record of its length, what the decoder counts in it (objects, depth,
the memory charged) and whether `parse_pasteboard_response` finds what it expects.
`recv_opack` may so end in three ways: a packet that is refused, a text that
`opack::decode` refuses (`Decodes`), a text that is not what the caller awaits
(`Understood`); the first leaves the counter alone. `Response` gives these numbers for what
`build_pasteboard_response` writes, and `PayloadsReadBack` compares them, and those
of the system info and the request, with what the byte-level `Encode` and `Decode` make of
such messages. A system info and a request are assumed to be within all limits. A board
of more than 13,105 items has more objects than the decoder takes and fails, though it
may be far shorter than a packet; `OwnBoardsFit` says that no other board of our own
encoder does.

`TrustedPull` says what the pull
promises, in terms of four variables: `agreed` is refined by the existence of
the device's content channel, `given` by the end of the device's session,
`result` by that of ours. A device that acts as `PairVerifyServer` does is
assumed; what a real one does differently the repository does not know either.

## Runs

All instances are explored completely. Bounds are named constants.

| Run | Checks |
| --- | --- |
| `Receiver` | UploadsWereAccepted (which includes that an aged grant is never used), GrantsPairUploads, StoredWasApproved, DoneMeansStored, ReceivesByConsent (the refinement of Consent); under fairness SlotIsFreed, with an approver that may never answer. Two connections of one address with two requests each: enough for a grant of one connection used by the other, a decision for the first request while the second waits, a replaced grant, a full queue (capacity 1). 554,248 states. |
| `Receiver_once` | LimitsHold (tasks and grants); OnceCloses under fairness: a transfer whose end was told to its sender closes the window, also if its report was dropped. The `--once` receiver without an approver: two connections of two addresses with three requests each compete for one slot (a second connection meets a returned but unjoined task), one grant, and a completed channel of one, fewer than the transfers. 84,594 states. |
| `Delivery` | PublishedAtMostOnce, DeliveredAsDecided, OneIdentity, PreparedIsAccepted; TransferEnds under fairness of the sender only. Two connections, the transfer's own and the one it reconnects on; two callers of the identity; a selection of a folder with a hidden and a visible file, of the visible one chosen twice, or of the folder's parent, in whose archive its path is too long; two changes by others, which may make a file too large or a folder something else between its two looks. 941,628 states. |
| `Storage` | NothingReplaced (an action property), NoItemLost, FailureLeavesNothing, NumbersSuffice; PublishingEnds under fairness of the publication loop. Two jobs, the names "photo.jpg" and "photo 2.jpg", a user who may take each at any time, and a transfer of three links on the first name with three attempts, so that its numbering can be exhausted and a rollback has up to two links to take back, each of which may fail to go. 1,424,304 states. |
| `Daemon` | PhaseMatchesSlot and SingleOperationUntilStop until a client asks for a stop; OperationsLetGo (the radio and the slot are given back) under fairness with `stop` at any moment. Two operations and a browse. |
| `Engine` | AcceptedByAClick, CancelHolds, RadioIsFreed; PendingIsShown and QuitEnds under fairness of engine and event pump. Two Asks that look alike, a queue of one, four clicks of any kind: enough for Send, Cancel and Send again while the radio of the first comes up, or for an accept on an old card. 512,854 states. |
| `TextField` | RangesFit, MarkIsComposition, Utf16Agrees, AnchorIsHeld (an action property). Texts of at most six bytes, so that two wide characters or a joined one with neighbours fit. 11,672 states. |
| `Clipboard` | ReportedOnce, NeverGoesBack (an action property); CopyIsTried under fairness of followers and loop. A phone with two copies that changes its address once, a Mac with one copy, a queue of one, one unhandled advert per address, with `--instance` and without: enough for a full queue of the same and of another device, an event with a stale address, events queued in the wrong order. |
| `CompanionLink` | FailsForAReason, PayloadsReadBack (the encodings survive, at every boundary of a width, form, fragment and depth), PullIsTrusted (the refinement of TrustedPull); BothEnd under fairness of both ends and of their read deadlines. Devices for each combination of trust; pasteboards at and one above each limit (the two lengths, objects, depth, memory), far below all, and one that is none; a connection that may break with or without notice at any point. 4,331 states. |
| `KeyTransfer` | FileIsConfirmed, LoneTransferOpens; CompleteIsNoticed under fairness of callbacks and main task. Two runs of `send-key` with two or three frames each, at the same time or the second after the first broke off. |

Each module's `TypeOK` is a conjunct of the first invariant of its run.

Two runs state what a comment, a message or a document of the repository says
and show a behaviour of the code that contradicts it:

| Run | Says | Behaviour found |
| --- | --- | --- |
| `Approval_wrong` | ui.rs: incoming transfers require your approval | a second Ask takes the pending slot between the poll and the click on the first one's card, and is accepted unseen |
| `Daemon_singleop` | daemon.rs: another operation is active | a task aborted while it runs its last section clears the slot of the operation started after the stop |

`CHECK_DEADLOCK FALSE` is set everywhere: a window that was closed, a transfer
that ended and an idle daemon may stay as they are, and the instances have a
finite supply of connections, jobs and clicks.

### Fairness

- `Receiver`: every wait of a connection has a timer in the code (10 s TLS, 30 s
  for headers and body, 3600 s per request, 90 s for the decision), a blocking
  job runs to its end and `run`'s loop polls its tasks and its channel. Nothing
  is assumed about devices, the approver, or the end of the window.
- `Delivery`: every wait of the sender has a deadline in `Session::connect` or
  `post_with_headers`, and the spooling thread runs until it is done or finds its
  token raised (`SenderStep`). The receiver and the wire owe nothing.
- `Daemon`: every wait of a task and of a browse has a deadline; the window's
  timer fires although Asks keep arriving (strong fairness of `ServeEnds`); the
  runtime drops aborted tasks.
- `Engine`: the engine ticks and serves its queue, each of its waits (the start of
  the radio, a stop command) has a deadline, and the pump drains its channel. Each
  kind of action is fair by itself, because the queue is served in order. The user
  need not click.
- `Storage`: the publication loop keeps running; no fairness for failures.
- `Clipboard`: a follower sends what it has remembered, the loop receives, and a
  pull has a deadline of 40 s; that the synchronous call of `wl-copy` returns is
  assumed. Devices need not advertise.
- `CompanionLink`: both ends are polled; each `read_packet` has a deadline of
  10 s. The network owes nothing.
- `KeyTransfer`: a callback that has begun ends, and the main task is polled. No
  sender need go on.

## Proofs

Each theorem holds for every value of the constants that satisfies the named
assumption of the module it is about. TLC evaluates them on its instances. They
say that `None` is not one of the values it stands beside, that limits are
numbers, and besides:

- `ReceiverAssumption`: finite sets of connections and addresses, positive bounds;
- `StorageAssumption`: finite sets of transfers and names; `NamesAssumption`: a name
  is the sequence of the numbers it carries;
- `OutgoingAssumption`: the children of one directory have different names, as
  the entries `read_dir` yields do, and the size limit of an archive is not zero;
- `ApprovalAssumption`: finitely many Asks, so that they can be counted;
- `ClipboardAssumption`: an address belongs to one device, and each device has one;
- `KeyTransferAssumption`: a frame of `send-key` holds at least the four bytes of
  the length (its payload is never below 20), and sealed keys are not empty;
- `CompanionAssumption`: the trusted devices are devices, and an encoded system
  info and the request fit into a packet and are within the decoder's limits;
- `TextFieldAssumption`: the kinds of code units are as their names say, and what
  is typed and shown as placeholder are strings;
- `IdentityAssumption`, `DaemonAssumption`: nothing else.

| Module | Theorem | States |
| --- | --- | --- |
| `DeliveryProofs` | `TypeCorrect` | `[]TypeOK` of `Receiver` |
| | `UploadsAccepted` | `[]UploadsWereAccepted` |
| | `GrantsUsedOnce` | `[]GrantsPairUploads` |
| | `GrantsExpire` | `[]AgedGrantsNeverUsed`, a conjunct of `UploadsWereAccepted` |
| | `ConnectionsDescend` | `[][Descends]_vars`: a connection takes a bounded number of steps |
| | `PublishedWasApproved` | `[]StoredWasApproved` |
| | `DoneWasPublished` | `[]DoneMeansStored` |
| | `ReceivedByConsent` | `Spec => ReceivesByConsent`: `Receiver` implements `Consent` |
| | `LimitsRespected` | `[]LimitsHold`, from `ConnectionsBounded` and `GrantsBounded` |
| | `ReportsAreKept` | `[]ReportIsKept`: until the window closes, a report stays in the channel |
| | `IdentityIsOne` | `[]OneIdentity` for any number of callers |
| | `PreparedForReceiver` | `OutgoingSpec => []PreparedIsAccepted`, for any tree, limits and changes |
| | `DeliveryIsReceived` | `DSpec => Spec`: a transfer, seen from the receiver, is a behaviour of `Receiver` |
| | `DeliveredWasApproved`, `TransferLoadsOneIdentity`, `SentIsAccepted` | `DSpec => []StoredWasApproved`, `[]OneIdentity`, `[]PreparedIsAccepted` |
| | `DeliveredByConsent` | `DSpec => ReceivesByConsent` |
| | `SenderGoesForward` | `[][Forward]_allVars`: no stage of a transfer is entered twice |
| | `PublishedOnce` | `DSpec => []PublishedAtMostOnce` |
| | `ReportedAsDecided` | `DSpec => []DeliveredAsDecided` |
| `StorageProofs` | `NothingIsReplaced` | `NothingReplaced`, for any number of transfers, names and links |
| | `EveryItemPublished` | `[]NoItemLost` |
| | `FailuresLeaveNothing` | `[]FailureLeavesNothing` |
| | `NumbersAreEnough` | `[]NumbersSuffice` |
| | `PublishingDescends` | `[][LoopDescends]_vars`: each round of the loop has fewer numbers or items left |
| `DaemonProofs` | `PhaseTellsSlot` | `[]PhaseMatchesSlot`: until somebody asks for a stop, phase and slot agree, for any number of operations and searches |
| | `OperationsExclude` | `[]SingleOperationUntilStop` |
| | `NothingIsOrphaned` | `[](RadioHasOwner /\ SlotIsHeld)`, with stops at any moment |
| `CompanionProofs` | `PullImplementsTrusted` | `Spec => PullIsTrusted`: `CompanionLink` implements `TrustedPull` |
| | `PullFailsForAReason` | `[]FailsForAReason`, for boards of any size and shape |
| | `OwnBoardsFit` | of boards our encoder makes that fit a packet, the decoder refuses exactly those of more than 13,105 items |
| | `PullDescendsToItsEnd` | `[][PullDescends]_vars`: both ends together take at most 17 steps |
| | `PacketsReadBack` | a packet is read as it was written, for every body that fits |
| | `PacketsAreDelimited` | what parses is one packet, written in one way, and no beginning of another |
| `EngineProofs` | `CancelledStaysCancelled` | `[]CancelHolds` for any number of Asks and clicks |
| | `AcceptanceTakesAClick` | `[]AcceptedByAClick` |
| | `RadioIsGivenBack` | `[]RadioIsFreed` |
| | `WhatWasToldIsShown` | `[]ToldIsShown` |
| | `QuitIsTheEnd`, `QuitComesNearer` | `[]QuitIsLast`, `[][ComesToQuit]_allVars` |
| `TextFieldProofs` | `RangesAlwaysFit` | `[]RangesFit` for texts of any length over any characters |
| | `AnchorAlwaysHeld` | `AnchorIsHeld` |
| | `MarkAlwaysComposition` | `[]MarkIsComposition` |
| | `Utf16AlwaysAgrees` | `[]Utf16Agrees` |
| `KeyTransferProofs` | `ConfirmedFile` | `[]FileIsConfirmed` for any number of runs, any length and any chunks |
| | `LoneTransferSucceeds` | `[]LoneTransferOpens` |
| | `NoWakeupIsLost` | `[]WakeupComes` |
| `ClipboardProofs` | `CopiesReportedOnce` | `[]ReportedOnce` for any number of devices, addresses and copies |
| | `ClipboardNeverGoesBack` | `NeverGoesBack` |
| | `NoCopyForgotten` | `[]CopiesAccounted` |

TLC has checked every inductive invariant below on the instance of its run
before it was proved.

### Receiver

None of the safety properties is inductive alone. `ReceiverInv` adds what the code
relies on without saying it. A request is *settled* when its connection has moved
past it or it is no longer waiting for a decision. The invariant says that every
grant and every used grant comes from a settled Ask that was accepted and not
refused (`GrantInv`, `ConsumedInv`); that a connection which has been accepted,
or whose oneshot holds a yes, belongs to an approved request that is not denied
(`WaitInv`); that a running or finished job belongs to an Upload in `consumed`
(`JobInv`); and that history sets speak only of requests that exist already
(`PastIsSettled`). The heart of the argument: only an unsettled Ask can be
denied, and settled requests stay settled (`SettledStable`), so a late decision
or a timeout cannot touch an Ask whose grant is in the table or was used. A
grant sits under its own address, so two entries never come from the same Ask,
and using one removes it, which gives at most one Upload per Ask. An Upload that was
let in is the request its connection is at, or one it has moved past, so that the next
Upload is another one (`AdmittedInv`). The bounds
follow from their guards and from how one step changes the finite sets involved
(`AddOne`, `TasksStep`).

For `Consent`, every step of the window answers requests or lets grants lapse, and
nothing else, but for five: a decision, the grant, its use, links delivered and a
job that publishes. Settled requests stay settled, so `answered` only grows; and
since a grant sits under the address of its Ask (`GrantedBy`), replacing or using
the entry of an address takes out the one request that `Consent` takes out.

`Descends` counts the steps a connection has left: ten for every request that may
still follow, and its place within the current one. Every action of the module
either leaves a connection where it is or takes something off its count
(`ConnMoves`).

`ReportIsKept` is inductive with the types: a report is dropped only when another
one fills the channel, and what takes one out closes the window.

### Storage

`StorageInv`: an item is staged or moved, never both, and from the check of the
archive on one of them (`JobInv`); a job owns as many names as it has moved items
(`NamesInv`, since a rename needs a free name and takes an item that is still
staged); a token raised early finds the job before publication, with nothing
moved; a link transfer owns the names it remembers, less those its rollback has been to
without failing (`LinkInv`), so that the rollback, which looks only at paths, removes
nothing else and leaves only what it could not remove.

`NumbersAreEnough` is a pigeonhole argument. Names once taken may become free again
by a rollback, so it counts the names that were ever taken: each is accounted for
by an item a job has moved, by a link written, or by a file the user had or saved
(`EverTaken`), and `TakenBound` bounds them. A job that is at number n has met
n - 1 candidates that were taken (`TriedInv`), all different (`CandidatesDiffer`: here
names have to be sequences), so n is at most one more than all that can be taken.

### Identity

`IdentityInv`: at most one caller is between creating `key.pem` and ending
`certificate.pem` (`OneMaker`, since `create_new` lets one in and the key is never
removed), the two files are exactly as far as that caller is (`MakerInv`), and a
certificate that could be read was written by whoever wrote the key (`ReaderInv`).
Hence a caller that read the certificate and then the key was handed one pair.

### Outgoing

`PrepareInv`: every entry but the one being copied has the data its header
announces (`Copied`) and a path that is not too long (`Short`), and room is left for
the trailer (`Counted`). What makes two
entries of one path impossible is a statement about prefixes: no path still to be
added extends another (`Apart`), and none extends one of the archive, except the
file whose entry has been begun (`Fresh`). It holds because the children of a
directory have different names and because a selected name that was used before
is refused, which needs to know that the entries of the archive start with names
walked so far (`Rooted`). `Named` carries the remaining condition from names on a
path to names of entries: a folder whose name turns the text direction has an
entry of its own, so a bad name in the middle of a path is one of the three
disagreements too.

### Delivery

That the parts stay as they are: `ReceiverPart` shows that every step of the
composition is a step or a stutter of `Receiver`, `IdentityPart` the same for
`Identity`, `OutgoingPart` that every step keeps `PrepareInv`, and the theorems
about the parts do the rest. The two properties of the whole rest on `DeliverInv`: the one Ask is in one
place, on a wire or with one connection (`OneAsk`), the one Upload too, and a job
runs only when it is in no other place (`OneUpload`). Until the Ask is answered
nothing has come of it, and after a refusal nothing will (`AskPhase`); an archive
is stored only after an Upload, and by its last place (`UploadPhase`, `Published`).
So a reconnect, which reopens a connection, never makes a second Upload of one.
`Forward` orders the stages of a transfer; that a stage is never entered twice also
needs that what was answered on a session stays answered, which `DeliverInv` says.

### Daemon

`DaemonInv`: as long as nobody has asked for a stop, nobody is aborted
(`NobodyAborted`), the slot holds every live task and nothing else (`SlotIsLive`),
and the phase is that of the slot (`PhaseIsSlot`). `SlotIsLive` is what both
properties hang on: a task is spawned in the same section that fills the slot
and is over in the section that clears it. It fails after a stop, and the run
`Daemon_singleop` shows how.

`HeldInv` holds with stops too: a radio that runs belongs to a task or a search in a
state in which it is still to be killed or dropped, and the task in the slot is live and
not aborted. The converse fails: a stop empties the slot before its task is gone.

### Companion link

`PullInv` says of each packet under way what its nonce tells of its sender: under
the third Pair-Verify nonce there is only what the client sealed, which it does after it has
verified the device (`OfClient`); under the second only the device's signature,
and under its second content counter only its last packet (`OfServer`). With the
two ends' own knowledge (`ClientInv`, `ServerInv`) the acceptance of M3 is a step
`Agree`, the device's last packet `Give` and its opening `Take`.

`AgreeInv` is about the honest course. Each end has the keys, the secret and the
counters of the place where it is (`ClientHas`, `ServerHas`); a packet under way is
the one its reader waits for, down to the length its authentication covers
(`Expected`); and while the connection is up and nobody has failed, the two places
belong together (`InStep`). So a reader that is alive opens what it reads, and an
end fails for a reason. What the text holds takes no invariant: infos and requests are
within the limits by assumption (`MessagesFit`), and a board is or is not, from the start
(`BoardFits`). `OwnBoardsFit` is arithmetic on the numbers of `Response`.

`PullLeft` counts what both ends have still to read and write. The framing theorems are
about `Framing` alone, for bodies of any length that 24 bits can tell: the three
bytes of a length give it back (`HeaderBytes`, `HeaderOfBytes`), so the cut is where the
body was joined. What a body holds is `Codecs`.

### Engine

`EngineInv`: the clicks in the queue are numbered in order (`InOrder`), the Send the engine waits for the radio
with is still its head, and everything behind the head is later than the last
Cancel that was served. What starts is therefore later than every Cancel served.

`AcceptInv` is a count. The cards made, the cards still to be made (events the pump
has not taken, and the next poll if the daemon holds a new Ask) and the clicks in
the queue are together no more than the Asks that have left the approval channel
and the clicks that were made (`CardsInv`): a click may cost one more card, since a
decision lets the engine forget what it has shown. Accepted Asks and waiting
clicks are no more than clicks (`ClicksInv`). Both need that an Ask is in the
channel once (`QueuedOnce`). `RadioInv`: a radio that is up is owned, or a command
to it failed, and neither Stop nor Quit leaves one owned.

`ShownInv`: what the engine told last has a card on screen or a message on the way that
will make one, and no message behind it takes the card off. That needs that a message
to take a card off names a card that was made before (`ClearedCounted`,
`ClickedCounted`): the number of a card that is still to come is higher. `QuitIsLast`
follows the end of the queue: only the click that closes the window puts Quit there,
and no click comes after it.

### TextField

`RangesAlwaysFit` needs that each offset an event computes is the start of a
character or the end of the text. `LeastIsLeast` and `GreatestIsGreatest` give
the neighbouring boundaries; an edit keeps boundaries because what
is inserted is whole characters; and the UTF-16 offsets of an input method are
clamped to boundaries when they are converted.

An edit takes the mark away wherever it cuts (`EditUnmarks`), and what marks anew has
just inserted what it marks (`SplicedHolds`, from the place of every byte of an
edited text). The number of UTF-16 units before a boundary grows from each boundary
to the next (`UnitsGrow`), so the least boundary that reaches an offset is the one
the offset came from (`UnitsComeBack`).

### Clipboard

One address has one follower, so the adverts waiting at it announce copies in
order, none older than the last copy seen, and no copy behind that one has been
reported (`OrderInv`); this is lost when the device changes its address, and so is
the property. `BoardInv`: there is one pull at a time, so the copy it has got is no
older than the one of the same device on the clipboard.

`WayInv`: a copy reported is the last one remembered at an address of its device, whose
follower is to send it, or an event of the device is in the queue, or a pull has begun
since it was made (`begun`), or `try_send` found the queue full of others' events
(`crowded`). A pull begins with the copy the device has then, so it needs besides that
no copy is reported before it is made (`AdvertsKnown`).

### Key transfer

`KeyInv`: a run that is the only one to have sent bytes finds them in the
reassembler as they are in its stream, whatever the chunks (`LoneInv`, with
`StreamInv` for the length that the first frame announces), so that what is taken
out is what it sealed. After the user's yes, the confirmed run is the one of the
snapshot, and what the write stage holds was opened with its key (`ConfirmedInv`).

`WakeupComes`: when key and payload are complete and the main task is past its look at
them, there is a permit or a callback that is about to store one. `Notify` stores one
permit, and the step that takes it leads back to the look, which is why one is enough.

### Only model-checked

- PayloadsReadBack: what the recursive operators of `Codecs` compute for every
  input is an induction over data, and a module that reaches a `RECURSIVE`
  operator cannot be proved about. The frame around the payloads is proved.
- Liveness, which is out of the prover's reach. What is proved of each property is
  its safety part, which leaves to TLC and to fairness that the next step is taken:

| Property | Safety part, proved |
| --- | --- |
| SlotIsFreed | `ConnectionsDescend` |
| TransferEnds | `SenderGoesForward` |
| PublishingEnds | `NumbersAreEnough`, `PublishingDescends` |
| OperationsLetGo | `NothingIsOrphaned` |
| PendingIsShown | `WhatWasToldIsShown` |
| QuitEnds | `QuitIsTheEnd`, `QuitComesNearer` |
| BothEnd | `PullDescendsToItsEnd` |
| CompleteIsNoticed | `NoWakeupIsLost` |
| CopyIsTried | `NoCopyForgotten` |
| OnceCloses | `ReportsAreKept` |

## Not modelled

- Recipient discovery (`peers.rs`, `discover.rs`, `health.rs`): a merge of one-shot
  command outputs and probes, each with a deadline. Its radio is in `Daemon`, its
  task in the window in `Engine`, the resolution of an address in `Clipboard`.
- AES-GCM and other cryptography: bit level, covered by the repository's test
  vectors; symbolic here.
- Key store, Bluetooth advertising, the command line: parsed once or one call.
- Clipboard output: the choice of a representation; Clipboard has the call of
  `wl-copy` as one action.
- The receive window's set-up and the desktop side effects of a finished transfer
  (clipboard, notification, opening the folder): they change none of the state modelled.
- Preferences, file dialogs, drop-downs and drawing of the window.
- The bar widget, packaging and the macOS helpers: other languages, no shared state
  but the control socket, which `Daemon` models.

What could come next: a receive folder with names that `Storage` implements
and that `Consent` publishes into, and the parts listed above.
