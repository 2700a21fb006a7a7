# MegaVNC: a TLA+ model

MegaVNC is a web application for reaching remote PCs by VNC.  A Spring Boot
application (`src/src/main/java/kr/co/megabridge/megavnc`, called `megavnc/`
below) keeps the PCs, their groups, users and files in PostgreSQL.  An UltraVNC
repeater (`src/src/main/resources/UVNCRepeater`) pairs a PC's VNC server with a
viewer by a number, the *repeater id*, and reports what happens to the
application over TCP.  A user sees the PC through *noVNC*, which the application
serves (`src/src/main/resources/static/js/viewer/noVNC-1.4.0`, `noVNC/` below)
and which talks to the repeater through a web socket proxy.

## Inventory

| Component | State | Operations | Modelled by |
|---|---|---|---|
| Registry of remote PCs (`service/RemotePcApiService`, `service/RemotePcService`, `domain/RemotePc`, `web/admin/AdminGroupService.deleteGroup`) | table `remote_pc`, rows of `segment` | register, connect-setting, dis-assign, set status, delete a PC, delete a group | `RemotePcRegistry`, `PcLifecycle`, `PcTable` |
| Handler of repeater messages (`tcp/`) | none of its own | parse, find the PC, set its status, log | `HandleEvent`, `Merge` of `RemotePcRegistry` |
| Dashboards (`websocket/RemotePcStatusHandler`, `static/js/remote-pcs`) | open sessions; the page's table | open, close, broadcast | `board` of `RemotePcRegistry` |
| VNC repeater, parent process (`repeater.cpp`) | `servers[]`, `viewers[]`, `repeaterProcs[]` | accept, pair and fork, remove idle or broken, reap a child | `Repeater`, `Pairing` |
| Repeater child (`repeaterproc.cpp`) | the two sockets and a buffer each way | relay until an end closes | its end, in `Repeater`; the bytes planned: `Relay` |
| Event sender (`repeaterevents.cpp`) | `eventFifo[]`, the sender process | queue, fork a sender, send | length of the queue and the sender, in `Repeater`; delivery planned: `StatusPipeline` |
| File transfer (`filetransfer/`) | table `file_info`, the upload directory | upload, streamed download, delete, scheduled cleanup | planned: `FileTransfer` |
| Groups, members, assignment (`web/admin/`) | `segment`, `member`, `member_group` | register, delete, assign, dis-assign | planned: `AdminDirectory` |
| Channel to the server (`noVNC/core/websock.js`) | receive and send buffers, the socket | append, read, put back, write, flush, close | `Websock` |
| Handshake (`noVNC/core/rfb.js`, `ra2.js`) | the state of the negotiation, credentials | version, security types, result, ServerInit | `Handshake` |
| Connection and page (`rfb.js`, `noVNC/app/ui.js`) | the state of an RFB object, dialogs, panels, timers | connect, leave, reconnect, approve, status line | `Connection`, `ConnectionLife` |
| Updates (`rfb.js`, `noVNC/core/decoders/`, `display.js`) | the update at hand, decoder memory, the render queue | each message, each encoding, images, requests | `Wire`, `Updates` |
| Keyboard (`noVNC/core/input/keyboard.js`, `ui.js`) | keys down, AltGr, the text field of touch devices | key events, grab and ungrab, page keys, typing | `Keyboard`, `OnScreenKeyboard` |
| Mouse, touch, viewport (`gesturehandler.js`, `rfb.js`, `display.js`) | touches, timers, buttons, the part shown | touch and mouse events, wheel, drag, resize | `Gestures`, `Pointer` |
| Clipboard (`rfb.js`) | what the server's clipboard offers | send, receive | the text's way, in `Websock` and `Updates` |
| Password change, log retention, security, pages, error pages | sessions, log tables | | not modelled, see the end |

How they interact.  The browser and the app on a remote PC call the services
over REST; every service method is one transaction, READ COMMITTED, and no
entity has a version column.  The repeater opens one TCP connection per event,
from one forked sender process at a time; the application answers from a pool
of threads (`TcpNioServerConnectionFactory`, an `async` service activator), so
two events can be handled at once.  The handler writes the same rows as the
REST calls and then tells every open dashboard by websocket.

In the viewer everything runs in one thread: a task (a message, a timer, an
event, a promise that has settled) runs to its end before the next.  `websock`
appends each message to its buffer and calls `rfb`, which reads as much as is
whole; `rfb` drives the decoders and the display, and tells the page by events.
The page, the input devices and the display call or are called by `rfb` in the
same task, except where a timer or an `await` lies between.

What is hard here:

* **Full-row writes of stale rows.** `MessageService.processMessage` reads a PC
  outside any transaction; `setRemotePcStatus` merges all its columns later.
* **Check-then-act.** A name, a group, a status or a greatest repeater id is
  read in one statement and relied on in a later one.
* **Rows that disappear.** A PC or its group may be deleted while a request or
  message holds its row; `merge()` of a missing row inserts it anew.
* **Broadcast before commit.** Dashboards hear of a status that may never be
  stored, or is stored in another order.
* **Processes and sockets in the repeater.** Children that exit or are killed,
  tables and queues of fixed size, entries timed out while being paired.

* **A stream cut anywhere.** Every reader of the viewer may run out of bytes in
  the middle and is called again from the start of its step.
* **Later tasks.** Timers, images that decode, fingerprints and key operations
  come back to a page and a connection that may have moved on.
* **Lost events.** Key and button releases the browser never reports.

The hazards, each at its line, are in `PROJECT.json`.

## The registry

`RemotePc` holds what happens to a row in memory: `createRemotePc`,
`updateReconnectId`, `disAssign`, `SetStatus` (`updateStatus` and `assign`), the
status a message asks for, and the check of a connection request.  Nothing in it
touches the database.

`RemotePcRegistry` is the database and the threads that use it.

| Variable | Code |
|---|---|
| `pcs`, `nextId` | committed rows of `remote_pc`, its id sequence |
| `groups` | rows of `segment` |
| `board` | the status of each PC on a dashboard page open since the start |
| `at`, `key`, `copy` | a thread's place in its request, the id and the in-memory row it works on |
| `doomed`, `leaving` | the entities and the group a deleting transaction has removed from its session |

| Action | Code |
|---|---|
| `RegisterReadTop`, `RegisterCheck`, `Insert` | the query, the lookups and the commit of `registerRemotePc` |
| `ConnectSetting`, `DisAssign`, then `Update` | loading and changing the row; the commit |
| `HandleEvent`, `Merge`, then `Update` or `Insert` | the lookup in `processMessage`; the broadcast and `merge()` in `setRemotePcStatus`; the commit |
| `DeletePc`, `DeleteGroup`, then `Delete` | loading what is to go; the commit |
| `Abort` | any failed check, violated constraint, lost connection or restart: rolled back |

Where the database refuses a commit, the commit's guard is the schema's
constraint (`repeater_id` unique, `group_id` a foreign key) or Hibernate's
check that an updated or deleted row was still there; a worker stuck before
such a commit can only `Abort`.  Every merge of steps keeps what matters:
`findByGroupName` and `existsByNameAndGroup` are one step because the foreign
key checks the group again at the commit.

Abstractions.  The access password and the check that a PC belongs to one of
the caller's groups are left out: they refuse a request before it changes
anything, and they do not depend on the state modelled.  Of `assignedAt` only
"null or not" is kept, the only thing the code tests.  Groups exist from the
start; a group created later behaves as one that existed and was not used.
`"default"` is not in `ReconnectIds`, since the code never stores it.  Ids are
handed out at the commit, without the sequence's gaps; no code compares ids but
with 1, the base PC.  `findByReconnectId` throws when several rows match, which
is why `DisAssign` needs the match to be the only one.  The initial state is
what `MegaVncApplication.dataLoader` leaves; by `BasePcStays` a later start
finds its rows present.

`PcTable` is what the table guarantees under any interleaving: a row has one
identity (repeater id, name, group) for life, no two rows share a repeater id,
nothing is inserted under a used id, the base PC stays.  `PcLifecycle` is the
stronger reading of the API, each operation one atomic step, which the registry
has only when requests do not overlap.

## The repeater

`Repeater` is the parent process.  Its loop (`routeConnections`) is one actor;
peers that close a connection, children that end and ctrl+c are the others, and
they act between any two of its steps.

| Variable | Code |
|---|---|
| `servers`, `viewers` | the tables: `code`, `active`, and whether the peer has gone |
| `procs` | `repeaterProcs[]` |
| `child` | what the system knows of each process: running, returned 1 to 5, killed by a signal, none |
| `mode1ConnCode` | the code invented last for a mode 1 session |
| `itemsInFifo`, `sending` | the length of the event queue; `eventProc != 0` |
| `told` | what the events queued so far say of each code's server; a history variable |
| `stopped`, `phase`, `ind`, `seconds` | the flag; the place in the loop, the index of the table entry that is next, the passes since the last cleanup |

| Action | Code |
|---|---|
| `Select`, `NobodyConnects` | `select()`; no connection, or one that `acceptConnection` closes before it touches a table |
| `ViewerConnects`, `ServerConnects`, `Mode1Connects` | `acceptConnection`, with the entry, the activation, the fork and all events |
| `RemoveViewer`, `RemoveServer` | one `connectionRemover` each, in the order of `removeOldOrBrokenConnections` |
| `Heartbeat`, `Reap`, `HandleEvents` | the rest of a pass: heartbeat, one entry of `cleanUpAfterRepeaterProcs`, `handleRepeaterEvents` |
| `Shutdown` | the end of `main` |
| `ServerGoes`, `ViewerGoes`, `ChildEnds`, `handleSigInt` | the outside |

The operators `add`, `remove`, `setActive` search a table from index 0 as the
functions they are named for do, and change nothing when they find nothing.
`forkRepeater` may fail when `ForkFails`; then `fatal()` sets `stopped` and the
pass goes on, as in the code.

Abstractions.  The steps between two system calls that look at the outside are
one action: nothing else reads the parent's memory.  An entry's peer has *gone*
when the end of file is the next thing to be read.  Whether an idle entry is
older than `MAX_IDLE_CONNECTION_TIME` and whether a heartbeat is due is left
open at each pass.  The events' text and the ring buffer's indices are left out;
`sending` says only whether a sender is alive, whatever it achieves.  The event
interface is on, as in the shipped ini files; these also allow mode 2 only.
The address, listed-id and host checks are `NobodyConnects`.  A code number is a
member of `Codes`; what `parseId` makes of the text is in the plan.

`Pairing` is what the two ends of a code are promised: the first waits, the
second is paired with it at once, a waiting end may leave alone, paired ends
leave together.  `Repeater` implements it with `EndOf` as the mapping.

## The viewer

### The channel

`Websock` represents a byte by its place in its stream, so a byte that is lost,
repeated or read from the wrong place is visible.

| Variable | Code |
|---|---|
| `rQ`, `allocated`, `rQbufferSize`, `rQi`, `rQlen` | `_rQ`, its real length, `_rQbufferSize`, `_rQi`, `_rQlen` |
| `sQ`, `sQlen`, `remaining` | `_sQ`, `_sQlen`; of `clientCutText`, the text still to write |
| `readyState`, `listening` | the socket's state; whether `onmessage` is still the one of `open` |
| `handling` | the handler is running, called by a message or by a timer |
| `arrived`, `taken`, `takenNow`, `lost`, `written`, `sent` | history: what has come, was read, was dropped, written, sent |

`RecvMessage` is `_recvMessage` with its two exceptions, `Shift` any `rQshift`,
`GoBack` `rQwait` with a header put back, `EndHandler` and `HandlerThrows` the
ends of the handler, `WriteMessage` a message that is written and flushed,
`CutTextBegins` and `CutTextChunk` the loop of `clientCutText`.

### The handshake

`Handshake` is `_initMsg` and the sub-negotiations, one action per function
named as in the code, with RA2 as the chain of promises of `ra2.js`
(`Ra2Key` to `Ra2Credentials`), which runs beside the handler.  `queue` and `cut`
are the stream in items, each as long as one wait, the last perhaps not whole;
`owed` is what the server sends next.  `SendCredentials`, `ApproveServer` and
`Disconnect` are the page, `ResumeAuthentication` the timer that calls the
handler again.  Colours, names and the contents of keys are left out.

### The connection and the page

`Connection` holds an RFB object (`state`, the socket and which of its events are
listened to, the timer that ends a slow close) and the page (`visual` is the
class of the document; `panel`, the dialogs, the status line, the timers).
Since `rfb` dispatches an event within the call that changes its state, an
action contains what the page does about it: `Disconnected` calls
`DisconnectFinished`.  `ConnectionLife` is the promise of noVNC's `docs/API.md`
about the events of one object; `Connection` implements it.

### Updates

`Wire` defines what a server sends: for each kind of rectangle its pieces, what
it draws, what it does to the framebuffer's size and to the JPEG tables.
`Updates` is the client: `wire` and `avail` are the stream and what of it has
arrived, `fbu` is `_FBU`, `dec` what the decoders remember between two calls,
`queue` is `_renderQ`.  One action per message, pseudo rectangle and step of a
decoder; `Arrive`, `ImageLoads` and `ImageBreaks` are the browser, `SendUpdate`
and `SendOther` the server.  A draw is named, not painted; `due` is what has
still to be drawn, in the server's order.

A flip shows what was drawn.  An update ends with one (`flip`); the display puts
another (`viewFlip`) whenever the view changes, so a resize may put one in the
middle of an update, or next to the one at its end (`ResizeDone`), and the page
may at any other time, by clipping, dragging or resizing (`ViewChanges`).  Whether
the view changes is a choice here.  Flips in a row do what one does, so one resize
puts one at most and `ViewChanges` none behind another.

### Input

`InputSession` is what the devices share.  `Keyboard` is a physical keyboard with
`keys.down` for `_keyDownList` and `keys.remote` for what the server holds;
`OnScreenKeyboard` compares the text field with an editor that is sent the same
keys; `Gestures` is the state machine of `gesturehandler.js` with its two timers;
`Pointer` builds on it the messages of mouse and touch, the mouse capture, and
the viewport.  `Input` puts them together with a session that becomes view-only
and ends.  One dimension stands for both of the desktop; distances and angles
of fingers are choices.

## Runs

`MCRemotePcRegistry`, `MCRepeater`, `MCUpdates` and `MCInput` hold what a `.cfg`
cannot: symmetry sets, negative numbers, sets of updates and keys.

| Run | Bounds | Shows |
|---|---|---|
| `RegistrySerial` | 1 worker, 2 names, 2 groups, 2 reconnect ids, all 4 messages, 2 rows | `TakesEffectAtOnce` (implements `PcLifecycle`), `AssignedPcKeepsItsApp`: overwritten assignments need a second worker |
| `RegistryIdentity` | 2 workers, 1 name, 2 groups, 1 reconnect id, 1 message, 4 rows | `TableKeepsItsRows` (implements `PcTable`), the inductive invariant `RegistryInv`, `NamesUniqueUntilDeletion` |
| `RegistryTakeover` | 2 workers, 1 PC | violated: an assigned PC's reconnect id is overwritten by a stale row |
| `RepeaterTables` | mode 2, tables of 2, 2 codes, 2 children, signals and failing forks, queue of 1, cleanup in every pass | `TablesAgree`, `PairsEnds` (implements `Pairing`) |
| `RepeaterLive` | mode 2, tables of 1, 2 codes, no signals, queue of 2, cleanup in every 2nd pass | `EventsTellTable`, `ActiveHasChild`, `GoneEntriesAreFreed` |
| `RepeaterMode1` | mode 1, tables of 1, 2 invented codes, no signals | `TablesAgree` and `ActiveHasChild` for sessions the repeater opens |
| `Websock` | receive buffer of 16, at most 17, send buffer of 3; 18 bytes in, 5 out | the streams in order, dropped messages only where they cannot fit, clipboard texts written to the end |
| `Handshake` | every security type, 5 versions, stream cut anywhere | `InStep`, `OutcomeIsJustified`, `Ra2SecretIsGuarded`, `HandshakeEnds` |
| `Connection` | one page, any number of connections, reconnecting on | `PageAgrees`, `StaysAway`, `WaitsEnd`, implements `ConnectionLife` |
| `Updates` | 5 kinds of server, every encoding, 2 sizes, 1 piece unread when the server sends | `InStep`, `PaintsInOrder`, `AsksForAll`, `UpdatesGoOn` |
| `Input` | keys of 4 platforms, 2 mouse buttons, 3 fingers, 2 places, texts of up to 5 of 3 characters | `KeysAgree`, `ServerTextFollows`, `GesturesInOrder`, `PointerAgrees`, `ViewFits` |
| `InputLostTap` | 2 fingers, 1 place | violated: a tap after a gesture of two fingers is swallowed |

`MaxRows` bounds the rows ever inserted; it is the only bound of the registry.
Four rows allow the base PC, one registered and deleted, and two inserts after
that (one of them a revival by `merge()`); two workers are enough for every
stale read, as a third adds no step between a read and a write that one other
worker cannot take.
One name suffices in `RegistryIdentity` because only equal names are compared.

In the repeater nothing grows without limit, so its bounds are only sizes.  Two
slots and two codes give a first and a second match in every search and let one
session end while another starts; two children are all two slots can hold.  The
queue is short so that it is full often, and `MinInventedCode` is -2 instead of
-1000000; two codes are more than a table of one can have in use.  A repeater may stop, so these runs do not check for deadlock;
`MaxSessions`, `MaxFifoEvents` and `CleanupSeconds` are the code's constants,
scaled down.

In the viewer:

* `Websock`: 16, 17 and 3 stand for 4 MiB, 40 MiB and 10 KiB; the buffer can
  grow once and then is at its limit, which is where the arithmetic of
  `_expandCompactRQ` bites.  Texts of length 4 need two chunks.  An empty text
  is written only to an empty queue.  The proofs lift all of these but the last.
* `Handshake`: version 3.3 is combined with types that ask for nothing
  (`Schemes33`); the RA2 random number of the server is never cut
  (`RandomIsWhole`), because `ra2.js` waits there for another length than it
  reads; a user's answer includes XVP's target (`UserFields`), which the page's
  own dialog does not offer.
* `Connection`: a fingerprint that is ready only after its connection ended
  would open its dialog over the next one; `DigestIsLate = FALSE` leaves that
  out of `PageAgrees`.
* `Updates`: the server sends only what was asked for, in updates of at least
  one rectangle, and at most `MaxBacklog` pieces are unread when it sends.  Raw,
  RRE and hextile are not sent after an image of the same update (`Orderly` in
  the proofs): there the queued draws are copied from the wrong place of the
  receive buffer, or are views of it that change when it is reused (`display.js`,
  `hextile.js`, `rre.js`), which `FromReceiveQueue` says; `PaintsInOrder` is
  false there.
  Nor is an empty Tight rectangle with a palette, whose palette `tight.js` keeps
  for the next, or a VMware cursor of an unknown type, of which `rfb.js` gives up
  in the middle without a failure; `InStep` is false there.
  One piece of backlog is enough for an update to be sent while the end of the one
  before is unread, which the proofs lift to any stream but for `UpdatesGoOn`.
* `Input`: one device per session; on touch screens the drag and view-only modes
  stay as they are.  Fewer keys than a keyboard has, but each kind the code
  treats on its own: AltGr, both Shift keys, Meta, CapsLock, keys that toggle.
  `Screen` is constant, so a browser window that is resized (`rfb.js` 718-739) is
  not covered by `ViewFits`.  Under Meta on a Mac `keyboard.js` sends a press and
  its release together (156); the model's browser reports those releases all the
  same, so that a lack of this would not be found.

What `GesturesInOrder` excepts, since the code does it: two fingers come down and
one goes up, which makes the handler wait for the release of a tap; the other
moves far and starts the timer, which decides on a pinch or a drag.  When the last
finger goes up the handler tells the listener of the start again (`EndEvents`;
`gesturehandler.js` 317), or, if time has passed, not of the end
(`GestureDropped`; 304, 309).  So the start of a gesture of two fingers that waits
for a release may be told twice, or `open` be left "unended"; no other gesture's.

What the models contain and no property above says: a group that is deleted takes
PCs in use with it (`PcLifecycle` says so in its step); after a deletion two
registrations of one name can both succeed; a dashboard may show a status that
was rolled back (`board`); a child killed by a signal leaves two active entries
for ever, which is why `ActiveHasChild` is checked without signals; with both
modes on, a refused mode 1 session leaves an active entry; a mode 1 session that
lives until the counter of invented codes comes round gets a namesake; the event of the
shutdown stays in the queue while a sender runs; a clipboard text on a closing
socket never ends; an image of the wrong size holds the display up for ever; keys
and buttons held when a session becomes view-only stay down at the server.

Fairness.  In the repeater `WF_vars(Loop)`: the parent is a running process, and
every call in its loop has a timeout or does not block.
`WF_vars(NoticesClose(p))`: a child's `select()` reports a closed socket, its
`recv()` then returns 0, and it returns. (Each read buffer has to have room for
that; a peer that never drains its end while the other has gone is outside this
model.) Nothing is assumed of peers, of ctrl+c, or of a child whose peers stay.

In the viewer: a loop that runs in one task goes on (`CutTextChunk` of
`Websock`, `Handle` of `Updates`, `InitMsg` and the promises of `Handshake`),
and the browser fires the timers that are set (`Connection`,
`ResumeAuthentication`).  `HandshakeEnds` also needs a server that sends what it
owes and a user who answers; nothing of the kind is assumed in `Connection`,
where leaving ends without the server.  `UpdatesGoOn` assumes that what was sent
arrives and that the first image of the queue is decoded; both are strong, since
a handler that is called again and again disables them in between, and the
browser gives every task its turn.

## Proofs

`RemotePcRegistryProofs` proves, for every set of workers, names, groups and
reconnect ids and every `MaxRows`, the theorems `TypeCorrect`,
`RegistryInvariant`, `NamesStayUnique` and `TableRefinement`.  The only
assumptions are `RemotePcAssumption` and `RegistryAssumption`: the base name and
group are among the names and groups, and the model's "no row" is no row.

The argument.  `TypeOK` alone is not inductive, since `Merge` broadcasts and
writes whatever row the worker holds; `WorkersHoldRows` says that this is a row.
`CopiesShareIdentity` says why stale writes are harmless to the table's shape:
no operation changes a row's repeater id, name or group, so a stale copy differs
from the row in other columns only.  With `RowsBelowNextId` and
`RepeaterIdsUnique` each commit is a step of `PcTable`.  `NamesCheckedInOrder` is
why names stay unique although nothing in the schema says so: while nothing has
been deleted, rows carry the repeater ids 100, 101, ... without a gap, a
registration reads the greatest of them *before* it looks for the name, and only
the one whose number is still free can commit; so the one that commits has seen
every row.  The first deletion breaks this chain: then two registrations compute
different ids and both commit.

It also proves that with one worker (`OneWorker`) the registry implements
`PcLifecycle` (`SerialRefinement`) and keeps an assigned PC with its app
(`SerialAssignment`).  The extra
invariant `ReadsStayCurrent` says that what a lone worker has read is still so
when it commits.

No fairness is assumed of the registry, and no liveness property is stated of it.

`RepeaterProofs` proves, for every size of the tables, set of codes and set of
process ids, that the tables agree (`TablesAgree`), and for the codes of mode 2
that the repeater implements `Pairing`; signals and failing forks are included.

* `TypeCorrect`, `TablesStayInAgreement` and `RepeaterPairsEnds`: with mode 2
  alone, from `RepeaterAssumption` and nothing else.
* `Mode1TablesAgree`: with mode 1 alone, as long as `NoCodeReused` holds.
* `BothModesAgree`: with any modes, as long as `OpensWhole` holds.

The last two hypotheses restrict steps and not constants, because the code looks
for neither.  `acceptConnection` counts its codes down and begins again at the
end without asking whether the next is in use: with two entries and two codes
TLC finds two sessions of one code, which the cleanup, looking for a code, cannot
tell apart.  It also fills the two tables one by one, so that with both
modes on a waiting peer of mode 2 can leave room in one only.  With mode 1 alone
the second cannot happen: every entry has a partner of the same code (`Mirrored`),
so by counting both tables are full together, and `NoCodeReused` is then all
that `OpensWhole` asks.

First the tables: what `add`, `remove` and `setActive` do to which codes a table
*has* and which are *active*; from there on no proof but those of the counting
looks at an index again.  Then every action is shown to be one of eight changes
of the pair of tables (`TablesStep`), each of which keeps the tables in agreement
(`StepAgrees`) and is a step of `Pairing` or none (`StepRefines`): a session that
the repeater opens has a code that `Pairing` does not know.  The inductive
invariant is `TypeOK /\ TablesAgree`.  The part that needs it most is `FreeProc`:
`addRepeaterProcList` only warns when its table is full, and the child would
never be reaped; by the pigeonhole principle it never is, because every child
has a session of its own in `servers[]` and the entry being activated has none.
The first entry of a search exists because the indices are well-founded.

`EverySessionHasAChild` and `EventsTellTheTable` are proved for `Mode2Only` and
`NoSignals`, `Mode1SessionsHaveChildren` for `Mode1Only` and `NoSignals` as long as
`NoCodeReused` holds; failing forks are included.  Neither property is inductive
without the other parts of `SessionInv`: `NobodyKilled`, since a child
ended by a signal is reaped without its session and its event says "absent" all
the same (the theorems are false then); `SessionsHaveChildren`, which a failed
fork ends together with the repeater; and `FreeAreIdle`, since `ActiveHasChild`
looks at entries and not at codes.  What the events say is then read off the
changes of the tables (`EndsAfter`).

`WebsockProofs` proves, for buffers, messages, reads and texts of every size that
`WebsockAssumption` allows (a message and a header of a clipboard text fit the
send buffer), `TypeCorrect`, `StreamInOrder`, `QueueInOrder` and
`DropsNothingElse`.  The bytes unread being in order is not inductive, since a
handler puts bytes back: `HandlerKeepsItsBytes` says that those it has read lie
unchanged in front of the unread ones.  `RoomIsBelieved` is for the time after an
exception, when the buffer is smaller than the code believes and yet no read or
write leaves it.  On the sending side the sum of what is sent and what waits is
what was written in every state of the socket; the order needs
`OnlyAHeaderWaits`: on an open socket nothing but the header of a clipboard text
is ever left behind by a flush.

`ConnectionProofs` proves `TypeCorrect`, `LeaversStayAway` and `TellsItsLife`
for both values of both constants, and `PageAndObjectAgree` where fingerprints
are not late.  The strengthening (`ConnInv`) says what has been told at each
state; that the connect panel, an RFB object and the timer exclude each other
(`OneWayOn`), so that cancelling a reconnect finds no connection; and that
whoever has left has either no object or one that will not come back
(`LeftForGood`), from which `StaysAway` follows.

`HandshakeProofs` proves, for every set of versions, types, answers and
sub-types that `HandshakeAssumption` allows:

* `SecretIsGuarded` (`Ra2SecretIsGuarded`), of everything the model contains:
  the random number may be cut, too.
* `EndsForAReason` (`OutcomeIsJustified`), if the RA2 random number comes whole:
  otherwise the code fails on a server that has done nothing wrong.
* `StaysInStep` (`InStep`), under `Rfb33`: a server of version 3.3 decides on a
  type of that version, or one that is unknown.  Of the other types the code
  does not read the result that such a server would send.  After a password the
  model's 3.3 server sends no result either, which is what the code waits for;
  the runs leave that case out.
* `TypeCorrect` (`TypeOK`), under `Rfb33` and with a user who answers all that
  is asked (`UserFields = Fields`).  Any other user is asked again, and each
  answer sets another timer: then their number has no bound.

`InStep` looks at the head of the queue and is far from inductive.  `Chained`
says of the whole stream what is in step: the head is what the code reads next,
a second item is what the server sends after the first unasked, and what the
server owes follows the last.  A timer that fires late can call `_initMsg` in any
state, so `Consumed` says that nothing that is whole is left where nobody is
called (but for a password, a logon and the promises, which wait for more than
bytes), `TimersAreOfAnAnswer` that timers and questions come only from the types
that ask, and `Stages` and `PromisesAreOfTheirType` which states the sub-negotiations
can be in.  `Taken` and `Appended` are what a read and an arrival do to a chained
stream; no other proof opens the queue.

For the outcome (`EndInv`) the order does not matter.  Whatever makes the code
give up is known as a refusal from its arrival on (`RefusalsAreKnown`), while it
waits in the queue, and after it was taken for as long as `SecurityReason` or an
unsupported type is ahead; and the states after the result are reached with one
that was OK (`AcceptedFirst`).

`KeyboardProofs` and `InputProofs` prove, of `Input` and for every value of its
constants, `TextFollows`, `ViewAlwaysFits`, `FingersAgree`, `GesturesStayInOrder`,
`PointerIsTheUsers` and `TypeCorrect`.  Each has an invariant over the variables
of its own device, and the other devices' steps leave those alone.  Besides the
sizes, `PointerAssumption` says that fingers touch some place.

* Keys: `KeysAgree` is not inductive.  `KeyInv` names every reason for which a
  key may be down (`Reasons`): a finger, a focus that was lost, the Ctrl that
  Windows made up, the second half of an AltGr, a Shift that comes up with the
  other.  `PressKeeps` and `ReleaseKeeps` say that one key sent leaves the
  agreement of server and page as it was on all other keys; `KeyDownDoes` and
  `KeyUpDoes` reduce the two long handlers to which keys they may add and take
  away, and no later step opens them.
* Text: the text up to where old and new differ is common to both, and what is
  erased and typed is the rest (`KeysMakeTheChange`).
* View: arithmetic of one shift (`ShiftStaysIn`) and one change of size
  (`SizeStaysIn`); every way to change the view is made of these.
* Gestures: `Possible` lists which gestures can be left with so many fingers
  tracked, before and after the first release; there are few such sets for any
  number of fingers, since a fourth rules out all gestures but one that is already
  going on.  `GestureInv` says that the list is complete, that a gesture goes on
  exactly while one that is no tap is left (`GestureKnown`), and that the timers
  run only before that.  With these, what the listener was told (`open`) is the
  gesture the fingers make; a gesture that begins while releases are waited for is
  one of two fingers, and only such a one can be told twice or left "unended".
* Pointer, the place: a message sent while no move waits tells everything
  (`SentIsKnown`), and `PushingIsKnown` has every button flush the move that
  waits.  Gestures arrive as one or two events that are folded; `FoldOfFew` and
  `FoldOfEvents` unfold them, since nothing general about a fold can be proved
  here.
* Pointer, the buttons: `NoButtonStuck` alone is not inductive: a release can be
  swallowed by a drag of the view, or go to another element.  `ButtonInv` rules
  both out for a button that is not a stray.  With a mouse it is then the only
  one held, was pressed with the mouse captured, and no drag is under way
  (`MouseHolds`); with fingers the button is that of the gesture going on, and
  in drag mode none is held, since a press begins a drag or is a whole click
  (`TouchHolds`).  A gesture told twice or left "unended" is one of two fingers,
  which holds no button (`OtherGesturesHoldNothing`).
* Types: besides the invariants above, every key in the keyboard's records is a
  key of the platform with a symbol that key can have (`KeysTyped`).

`UpdatesProofs` proves of `Updates`, for servers that send any updates of any
length made of the rectangles in `Readable` (all but the two named under Runs),
`InStep`, `TypeOK`, `AsksForAll` and `OneUpdateQueued`; and `PaintsInOrder`
(`CanvasFollows`) if no raw, RRE or hextile rectangle follows an image of its
update (`Orderly`), as in the run and for the reason given there.

* The stream: a server's messages are a walk through places (`Place`): a place is
  a block of pieces (a message, the header of an update, a rectangle), how many of
  its pieces were read, how many rectangles of the update follow, and the size the
  framebuffer then has.  `Follows` says which block may come after which.
  `StreamInv` says that the unread stream leads from the place the viewer is at
  to the end of a message (`Run`), and that `fbu` and `dec` are what they must be
  at that place (`Agrees`; `Doing` lists what the decoders remember after so many
  pieces of each kind of rectangle).  `InStep` alone is not inductive: it says
  nothing of what the next handler will expect.
* Sending appends a walk from where the last one ended: `RunUpdate` does this for
  an update of any number of rectangles, by induction over the set of indices for
  which it holds.
* Each handler takes one of four ways (`WaitsIs`, `FailsIs`, `GoesOn`,
  `Finishes`), so the proof of a decoder says how many pieces it reads, that they
  are of the kinds it takes them for, and what it then remembers.
* The queue and the requests need less of the handlers than that: `Outcome` lists
  what one may do to them, and `DrawInv` (behind the flip of an update nothing waits
  but flips of the view, and then no update is being read but one that waits for
  the flush) and `AskInv` (the area asked for is the framebuffer, but for an
  update that changed its size and goes on) follow from `Outcome`.  A flip of the
  view may stand anywhere in the queue; it draws nothing.
* The canvas: a place also has its ink, which is all that has been drawn up to
  there and the tables of JPEG files the decoder then has to remember.  `Owes`
  says that what is due is what waits in the queue, then what is left of the
  rectangle at hand (`ToPaint`), then what the rest of the walk adds; `Painted`
  adds what the decoders must remember for it (`TablesMatch`, `LastTile`) and that
  the queue is empty wherever the draws refer to the receive queue, since only an
  image makes draws wait.  Appending a walk appends to its ink, and taking what is
  drawn from the front of `due` is `Canvas`; that it is shown in the end needs
  `Shown`: between two updates the queue ends with a flip of either kind, or is
  empty and nothing is damaged.

Only model-checked: all liveness, which is out of the prover's reach
(`GoneEntriesAreFreed`, `HandshakeEnds`, `WaitsEnd`, `UpdatesGoOn` and that clipboard
texts are written to the end), and the two violations.

## Not modelled

Log retention and the access and error logs (append-only, read by nobody that
decides), login and the security configuration (framework configuration), page
rendering, the exception-to-page mapping, the Swing `EventListener`, and
third-party code: websockify, jQuery, `start-stop-daemon`, the ini parser.  Of
noVNC: pixels, compression and cryptography, cursors as they are drawn, tables of
keysyms, translations, the settings of the page and its layout, the formats of
the extended clipboard.  `viewer.js` only passes parameters to noVNC and clicks
to the page.  File transfer, the administration of groups and members, and the
relaying of bytes are planned.

## Plan

1. `Relay`: bytes through a child's two buffers under partial sends, and the
   handshake that is read ahead for a waiting server; an abstract FIFO pipe each
   way that it should implement.
2. `StatusPipeline`: the sender, its losses and the application's pool of
   threads, composed with the statuses of `RemotePc`: when the stored status is
   that of the last event, and what a session's end leaves behind.
3. `FileTransfer`: rows and files under concurrent downloads, failed commits and
   the scheduled cleanup; an abstract store of which a row and its file are one
   entry.
4. `AdminDirectory`: members, groups, assignments and password changes.
5. `Clipboard`: notify, request and provide of the extended clipboard, composed
   with the channel.
6. Proofs of the invariants of the modules above.
