# OrbitLan in TLA+

OrbitLan joins computers into a virtual LAN: a coordinator keeps a *room* per join code, engines on
each computer join the room, exchange connection offers through it and then carry Ethernet frames over
encrypted peer-to-peer connections. This directory models the parts of it that are hard to test, checks
them with TLC on small instances, and proves the most important results with TLAPS for every size.

## 1. The system

| part | source | state | operations | hard behaviour |
|---|---|---|---|---|
| coordinator room | `coordinator/src/index.ts`, class `Network` | members, octets in use, version, edition, cap, host, bans, waiters | join, signal, poll, leave, kick; reap on every request | handlers interleave at every `await`; long polls; lazy reaping; succession of the host |
| Worker routing | `index.ts`, `export default` | none | picks the Durable Object of a room code | none |
| relay credentials | `index.ts`, `turn()` | a cached credential and its expiry | mint, reuse | two joins may mint at once |
| secure channel | `client/engine/crypto.go` | send counter; highest counter and bitmap received | seal, open | concurrent senders; UDP reordering and duplication at the edges of the window |
| mesh | `client/engine/mesh.go`, `Mesh` | peers, switch tables, version, host | pollLoop, reconcile, datapathLoop, Close | the poll loop, the datapath loop and one goroutine per peer share the tables |
| peer connection | `mesh.go`, `Peer` | agent, connection, sealer, offer queue, pings | run, connectOnce, stop, readLoop, pingLoop | offers out of step, stop during a connect, retries |
| coordinator client | `client/engine/coord.go` | none | the HTTP side of the five requests | lost requests and lost replies |
| engine | `client/engine/main.go`, `api.go` | stages of start and shutdown | start, control API, shutdown | failure between two stages |
| datapath | `datapath.go`, `tap_*.go` | an OS handle | read, write, close | I/O |
| Linux background mode | `platform_commands_linux.go` | pid file, control socket | new, join, kick, leave | two commands at once; a file that outlives its process |
| Windows service | `client/native/service_main.cpp`, `common.cpp` | engine process, its job and token | the six commands of the pipe; stop, crash and start of the service | one thread and one pipe instance for all callers; an engine that exits, hangs or is slow; waking a blocked pipe |
| native UI | `client/native/ui_main.cpp` | what it shows, its open boxes and menus, its thread | connect, disconnect, kick, settings, tray menu, status timer | nested message loops under a handler; results of threads; a service that is busy for half a minute |
| installer | `client/native/setup_main.cpp` | files, service, TAP adapters, registry | install, portable install, uninstall | cut off at any step; files in use; devices that are late; adapters of other products |
| legacy UI, updater, terminal dashboard, scripts | `client/ui`, `terminal_ui.go`, `scripts`, `tools` | files, screen | | left out, see section 8 |

How they interact: an engine calls the coordinator over HTTP (`join`, then `poll` for ever, `signal` when it
has an offer, `leave` or `kick` when asked); the reply of `poll` carries the roster, the host, the version
and the mail. The mesh turns the roster into peers and the mail into their offers; each peer runs its own
connection, whose two ends seal and open frames. The control API, the Linux commands and the Windows
service start and stop the engine and ask it for its state. The UI and the service talk over a named pipe, one
request and one reply a call; the service and its engine over HTTP on 127.0.0.1:9101 (`kEngineApiPort`,
`protocol.h:15`; `docs/architecture.md:33` still says 9099), with a token the service makes for each engine. Setup
installs the service, which finds the adapter by the registry values that setup wrote.

What makes each part correct:

- *Room*: distinct addresses; one host, the eldest member; the founder's capacity; bans that last as long as
  the room; no poll asleep while there is news; a version that names one roster, but for the names in it; every
  request answered.
- *Secure channel*: no counter used twice; at most one delivery; nothing within the window lost.
- *Mesh*: after the last roster, exactly its peers exist; the switch never points at a peer that is gone.
- *Peer connection*: at most one live agent per peer and none after `stop`; two willing ends connect.
- *Engine, Linux commands*: an engine that is not running holds no membership, no adapter and no socket.
- *Windows service*: at most one engine, which never outlives the service; what callers are told is true; a stop
  completes and every call ends.
- *Native UI*: one thread at a time; no answer to a question that has become another one; a window that shows
  what is; a connection that ends with the window.
- *Installer*: success means a complete installation whose adapter is on record; what is broken can be repaired by
  running setup again; nothing of another product is removed that setup can tell from its own.

`PROJECT.json` lists, under `hazards`, each place in the code where this can go wrong.

## 2. Modules

| module | what it is |
|---|---|
| `Coordinator` | one room of the coordinator, every handler split at its awaits |
| `RoomMembership` | the abstract promise of a room: who is present at which address, in which order they came, who is host, how many may come |
| `CoordinatorRefinement` | the mapping under which `Coordinator` implements `RoomMembership` |
| `MCCoordinator` | instances of it for TLC |
| `CoordinatorProofs` | proofs about `Coordinator`: the inductive invariant and what follows from it at once |
| `CoordinatorStepProofs` | what a step can do to the room; bans, bounds and the refinement of `RoomMembership` |
| `SecureChannel` | one direction of one connection: the two sealers and a network that repeats and reorders |
| `AtMostOnce` | the abstract promise of a channel: each frame handed over at most once |
| `MCSecureChannel` | an instance of it for TLC |
| `SecureChannelProofs` | proofs about `SecureChannel` |
| `Mesh` | one engine: the poll loop, `Close`, the peers' goroutines, the switch tables |
| `MCMesh` | instances of it for TLC |
| `MeshProofs` | proofs about `Mesh` |
| `PeerLink` | the two ends of one connection: offers on their way, timeouts, retries |
| `MCPeerLink` | instances of it for TLC |
| `PeerLinkProofs` | the bounds of its queues, which offers can be current, what the two ends of a connection share |
| `WindowsService` | the service: its pipe thread, callers, engine process, stop, crash and restart |
| `EngineLease` | the abstract promise about the engine: at most one, and only while the service runs |
| `MCWindowsService` | instances of it for TLC |
| `WindowsServiceProofs` | proofs about it, and the refinement of `EngineLease` |
| `NativeUI` | the window: its handlers, nested message loops and threads, over a coarse service |
| `MCNativeUI`, `NativeUIProofs` | its instances and proofs |
| `Installer` | setup, run after run, and the machine it changes |
| `MCInstaller`, `InstallerProofs` | its instances and proofs |

`WindowsService` and `NativeUI` meet at the pipe: `WindowsService` has what happens to a call (it waits for the
pipe, it opens it, it is answered or given up), `NativeUI` what the window makes of the outcome. What the second
assumes of the service are results of the first: a call ends (`CallsEnd`), OFFLINE is true (`OfflineIsTrue`),
while an engine is started nothing else is answered. `Installer` assumes that a service that was told to stop
does (`StopCompletes`).

### Coordinator

A Durable Object is single threaded, but its handlers are asynchronous. An action is one uninterrupted
segment of a handler, from the arrival of the request or an `await` to the next `await` or the reply.
`room` holds the object's fields; `req[r]` holds what the handler serving request slot `r` keeps across its
await (its locals), and after the last segment the reply, until the client has read it.

| code | model |
|---|---|
| `fetch`: `reap()`, then dispatch | `Receive` (POST), first conjuncts of `Poll` (GET) |
| `await req.json()`, bad requests | `req[r].pc = "body"`, `BadRequest` |
| `join` to its hash / after it | `Join` / `JoinHashed`, both through `FinishJoin` |
| `signal` to `memberAuthenticated` / after it | `Signal` / `SignalAuthed` |
| `poll` to `memberAuthenticated` / to the hold / woken | `Poll` / `PollAuthed` / `PollResumed` |
| the timer of a held poll | `PollElapsed` |
| `bump` resolving the waiters | `Notice`, applied to every other slot by `Step` |
| `leave`, `kick` before / after the await | `Leave`, `Kick` / `LeaveAuthed`, `KickAuthed` |
| 60 s without a sign of a member | `Lapse` |
| the client reads the reply or gives up | `Deliver` |

Points a reader may wonder about:

- `poll` keeps the member *object* over its await. The object is identified by the version at which it was
  inserted (`object`), and a poll whose object leaves the Map keeps that object's inbox (`Notice`).
- Time is reduced to the two comparisons the code makes. `joinedAt` is the version at insertion: the clock
  and the version both never decrease, and where two members have the same millisecond, `promoteHost` takes
  the first in the Map's insertion order, which is the order of the versions. `lastSeen` is `"recent"` or
  `"stale"`. A poll is held 25 s and refreshed `lastSeen` when it was held, so its member cannot go stale
  meanwhile; `Lapse` has that as a guard.
- The loop in `reap` removes several members one by one and may promote several hosts on the way; only the
  last promotion can be seen, and it is the eldest of those left (`RemoveMembers`).
- A client polls with the current version or an outdated one. All outdated ones are version 0: the code only
  compares for equality, and no version comes back.
- A member that joins again under another name changes the snapshot, and the version stays (`index.ts:250`): the
  name is part of a member and of each entry of a view, and `Placing` is a view without its names. What the code
  promises of versions is promised of placings (`VersionNamesView`, `ChangesAreAnnounced`); `NamesAreAnnounced`, the
  same with names, is violated (section 6).
- `turn()` changes nothing in the room; the time it takes is part of the time a reply is on its way.

### SecureChannel

`Take` is the locked part of `seal`, `Write` the rest of it and the write to the socket, so the order of
writes is not the order of counters. `network` only grows: any datagram may be shown to the receiver again,
in any order, or never. `Ahead`, `Within` and `Rejects` are the three outcomes of `acceptCounter`. The word
`window` is the set of its bits; a shift drops what leaves the word, and a shift of W or more leaves nothing,
as the code's special case does. `opened` and `passes` are histories: which datagrams `open` let through,
and how often the frame of each reached the datapath. Datagrams that fail authentication change nothing and
are left out. The model is of one connection, from `newSealer` on.

### Mesh

| code | model |
|---|---|
| `main` after its join, before the goroutines start | `Init` |
| `pollLoop`: look at `closed`; `poll` | `Ask`, then `Answer`, `Lose` or `Refuse` (403, 410) |
| `reconcile`: first loop / collecting / `removePeer` for each | `Ensure` / `Sweep` / `Detach`, `StopRemoved`, `Forget` |
| the loop over the messages | `Hear` |
| `Close` | `CloseBegins`, `Leave`, `Lock`, `StopNext`, `StopHeld`, `Unlock` |
| `stop`, from either goroutine | `Looked`, `CloseChannel`, `Shut`: the look at `stopCh` and its closing are two steps |
| `run`, `connectOnce`, `readLoop` | `Go`, `Build`, `Connect`, `Fail`, `Deliver`, `Announce` |
| the room | `Come`, `Depart`, `Expel`, `Offer` |

An action is what runs between two points at which another goroutine's access to the same data can come in:
`m.mu` and `p.mu` make their critical sections atomic, and the tables are `sync.Map`s. The condition at
`mesh.go:223` is always true of a 200 answer, since the asking member is in its own roster, so each answer
is reconciled. The room here is what this engine can see of `Coordinator`; an answer is built and read in one
step, because a change in between would only look like a change after it. `Objs` are the Peer objects, which
are used again when nothing refers to them any more (`Unused`). A peer's ID stands for its MAC: the engine
has one adapter.

### PeerLink

What decides whether two engines connect is which of the other's offers each dials with. An offer is
`"current"` while its sender is at the attempt that made it and `"spent"` after (`GiveUp`); ICE joins the
two ends exactly if both dial with current offers (`Meet`): a spent one names the credentials of an agent
that no longer looks for a connection. `mail` is the member's inbox at the coordinator and `sigInbox` the
channel of the Peer object, both queues with their code's bounds and their different overflow: the first
drops its oldest message, the second the newest.

Time is counted in seconds with the constants of the code, and passes only when nothing can be done at once:
the network and the coordinator are taken as faster than a second. That is what makes the retries of both
sides run in step, as they do. `Appear` is late by up to `MaxLate` for an engine that is a member already and
has not begun to poll, for instance while its adapter is set up. After `Break`, the `timer` of an end is the
time it takes to notice: that `Read` on a dead connection returns at all, as `mesh.go:447` has it, is an
assumption about the ICE library.

### WindowsService

| code | model |
|---|---|
| `ServePipe`: look at the event / `CreateNamedPipeW` / `ConnectNamedPipe` / read / handle / write | `Check` / `CreatePipe`, `CreatePipeFails` / `Listen` / `Read` / `HandleCommand` / `Respond`: one value of `worker` for each place the thread can be at |
| `StartEngine` | `Connect`, `Launch`, `Adopt`, `Poll`, `PollTimeout`: up to 35 s, in the same thread |
| `StopEngineLocked` | `Disconnect` or the end of the service, `Shutdown`, `AwaitExit` |
| `ProcessRunningLocked` | `Reap`, where a command finds that no engine runs |
| `ServiceControl` | `Stop`, and later `Wake`, which calls the pipe once |
| the process of the service ends | `Crash`: its handles close, and with the last handle of the job its processes end |
| `CallService` (`common.cpp`) | `Call`, `WaitOver`, `OpenFails`, `Open`, `HangUp` |
| the engine | `GoOnline`, `Hang`, `Exit` |

There is one thread that serves the pipe, and one instance of the pipe at a time, so a handler's state is three
variables (`worker`, `request`, `reply`), and everything that can happen while it waits for the engine is an
action of somebody else: the engine exits, the client gives up, the service is told to stop or dies. Times are
left out: a wait may end when its timeout allows it. `token` is the engine that the control token was made for.

`online` are the engines whose API answers. `StartEngine` takes that for having joined, and rightly, since the engine
opens its API after its join (`main.go:189-234`); whether the engine stays a member is a matter of `Coordinator` and
`Mesh`, and nothing is claimed of it here. A malformed CONNECT is refused before the engine is looked at, any other
after `ProcessRunningLocked` (`ConnectRefused`).

### NativeUI

A handler of `WindowProc` is one step, with one exception that makes this program hard: a message box and a menu
run a message loop of their own under the handler that opened them. `modal` is the stack of what is open, and
`kick` and `menuLeave` are the locals of the handlers below, which go on when theirs is the innermost and
is dismissed (`Innermost`, `Back`). Timers, the tray icon and outcomes of threads are handled at any depth; clicks
in the window only when nothing is open (`Clickable`). A thread (`worker`) is at its call, or is served, or has
posted its outcome. The first message is such a handler too: when PING fails and setup cannot be started, a box
(`"offer"`) comes before the poll that follows it (`FirstMessage`, `OfferDismissed`), and meanwhile the timer polls
and the tray menu may disconnect. There is one application of this kind in a session (the mutex is `Local\`,
`ui_main.cpp:1946`), and the model has one session; other sessions' windows are callers of `WindowsService`.

The service is what the window can tell of it: it runs, it is busy starting an engine, it has an engine that
answers or not, and the engine's room changes; when another leaves it, the user may become the host. Rows are nodes
in the order of their addresses, as the status is sorted by them. Somebody who calms down (`calm`) stops clicking, and nothing goes wrong any more; the liveness
properties speak of what follows.

### Installer

One action is one step of `Install` or `Uninstall` that can be the last before setup is cut off; `at` is the
step, and everything the machine remembers survives it. Files are the four groups that matter (`Files`): what the
UI needs, what the service needs, the driver with devcon, the uninstaller. A copy that fails or is cut off leaves some
of a group, or part of a file (`Tear`). Programs that run cannot be replaced. The service manager deletes a service
when its process has ended (`"marked"` until then), and may refuse any call (`ControlStop`, `DeleteFails`,
`CreateService`).

An adapter is its GUID, which Windows gives once. Its device instance (`ROOT\NET\0003`) is another matter: Windows
gives the instance of a removed adapter to the next. All that setup does with an instance is to compare it with
the recorded one, so `ownInstance` is the adapter that has the recorded instance, or `Gone`; an adapter that appears
while it is `Gone` may be given it (`Appears`). `ready` are the adapters whose identity Windows can tell already; `ours`
is history: which adapters devcon made for OrbitLan. `alike` is history too: adapters of other products that setup
cannot tell from its own, because they came between the two listings around devcon, have the recorded instance, or
were alone beside a legacy installation. `Strangers` are the other adapters of other products.

`WriteAdapterOwnership` writes two values and asks of neither whether it was written: `OwnInstance` and `OwnGuid`, two
steps between which setup may be cut off and each of which may fail unnoticed (fault `"registry"`); `resume` is the step
that its caller goes on with, and `lost` remembers that this run failed to write one. What
`WriteUninstallRegistration` writes is left out: nobody reads it but Windows, for its list of apps.

## 3. Runs

| run | instance | shows |
|---|---|---|
| `coordinator_rooms` | 3 peers, 2 names, 2 requests at once, 3 addresses, community cap 2, global cap 3 | addresses, succession, capacity, forgetting and bans hold at every interleaving; a version names one roster but for its names, and changes are announced, while the host takes other names; the room implements `RoomMembership` |
| `coordinator_mail` | 2 peers, 2 requests, 1 payload, inboxes of 1, 2 versions, fairness | inboxes keep to their limit, no lost wakeup, changes of the mail are announced, every request is answered |
| `coordinator_kick` | 2 peers, 2 requests, nobody falls silent | finds the violation of section 6 |
| `mesh` | 2 peers, 1 address, 2 objects, 1 change in the room, fairness | no object stopped twice or left running, the peers follow the roster; members become peers and those who left are dropped, though answers get lost |
| `mesh_arp` | 2 peers, 1 address, 2 objects, 2 changes | finds the violation of section 6 |
| `link` | the code's times; one side up to 7 s late, one offer lost on either leg, 2 breaks noticed up to 7 s apart | the two ends connect, and again after each break; only the newest offer can be current |
| `link_late` | the code's times; one side up to 22 s late | finds the violation of section 6 |
| `service_engine` | 2 callers, 2 engine processes, all six commands; the engine exits, hangs and comes back, the service stops, crashes and starts | an engine is never lost and never outlives the service, the token fits, OFFLINE is true, `EngineLease` is implemented |
| `service_stops` | 2 callers that go on calling, 1 engine, 3 commands, the job may fail, fairness | a stop completes, every call ends |
| `ui` | 2 other members, 1 visible row, an engine that exits and hangs and a service that stops, fairness | one thread, no kick in another's room, no connection left behind, waiting ends, the window shows what is |
| `setup` | 3 adapters, cut off at any step, copies, devcon, the service manager, registry writes and the service's start that fail, a device and a stop that are late, adapters of others at any time, a legacy installation, fairness | success is complete and on record, no service without programs, the adapters of others are left alone as far as setup can tell them, setup can be repeated until it succeeds |
| `channel` | 6 frames, 2 sending goroutines, window of 3 | unique nonces, exact window, no false reject, at most one delivery |

Bounds. `MaxVersion` stops new joins and signals from that version on; what is in flight then still finishes,
and leaves, kicks, polls and reaping are not bounded by it. Four versions are enough to fill a supporter's
room of three, remove the host, and let a removed peer come back while another request waits at its await; a
larger bound (5) was run once on the same instance, with one name, and showed nothing new. Two request slots let any two
handlers overlap; a third peer is needed for a succession with a choice, and two tokens are not: a wrong token
is covered by the empty one. The inbox holds one message, so that the overflow happens. A window of three with
six frames reaches shifts below, at and above the width, and a datagram at every distance from the highest.
The types and the limit of the inboxes (`TypeOK`) are checked in `coordinator_mail`, since `coordinator_rooms` has no mail.
`coordinator_rooms` and `coordinator_mail` differ in peers, names and payloads, because their product is too large. In
`coordinator_rooms` only the host goes by another name than the rest (`OthersShareName`), which it may change, and
pass its role on with it: a change of names is invisible to everything but views, so that one member that renames
itself at any time is enough.
`coordinator_mail` has two versions, enough for a second member or a message while the first one's poll is held;
with four and symmetry, without the fairness, its safety properties and `IInv` hold as well, and they are proved
for every number. Symmetry is over peers and slots, which nothing orders; not where fairness is assumed.

`Mesh` starts with whoever is in the room when the engine joins, so one change lets a member leave while its mail is
on the way, be made a peer again by that mail, with a second object, and be removed again while `Close` runs. That
two members follow each other at one address takes two changes: with them the safety properties hold too, and they are proved for any number; the liveness properties cannot be checked with
them and two objects, because a removed peer that still dials keeps its object and the bound on objects, which the
code has not, is reached. The polls are not bounded.

`PeerLink` uses the numbers of the code, 8, 128, 20, 30, 3 and 1, because the outcome turns on them. Its
bounds are on the environment: gathering takes up to a second, a start is up to `MaxLate` late, breaks and
losses are counted. With one offer lost, seven seconds of delay are always good under those bounds, as are eighteen
if none is lost (`MaxLosses = 0`, `MaxLate = NoticeTime = 18`); at twenty the first attempt of the other side has
timed out.

`NewestIsCurrent` is about queues that fill, which they hardly do in the run: `MCPeerLink_queues.cfg` has queues of one
offer and sides that are up to 48 seconds late, so that both queues overflow, and checks it there with `SessionsMatch`.

`WindowsService`: two callers, so that one holds the pipe while another waits for it and takes the next instance;
two engine processes, so that one may be started while another is still there. The liveness run has one engine
(`EngineOwned` needs two, the waits do not) and the three commands whose handlers wait. It is not symmetric.
`MCWindowsService_calls.cfg` checks `CallsServed` and `TokenFits` with jobs that may fail.

`NativeUI`: two members and one row are the smallest list that scrolls and the smallest in which the row of
a question can become another's. Three members and two rows were run once for the safety properties (689 thousand
states). A fourth fault, `"miss"`, that a call fails though the service is free, is left out: with it the window can
close without having disconnected, since nobody looks at the outcome (`ui_main.cpp:1896`); the waits end and the
window shows what is with that fault too.

`Installer`: three adapters are OrbitLan's first, the one a repair makes, and another product's. The run has every
fault but `"late restart"`, which the code does not survive (section 6); the theorems about success and about strangers
hold with that one too. Runs of setup are not bounded, GUIDs are: `Spare`.

`CHECK_DEADLOCK` stays on but for `PeerLink`, where two connected ends have nothing left to do: a room can
always receive requests, a receiver can always be shown an old datagram (`Rejects`, which stutters), and an
engine that has closed stays so (`Exit`).

## 4. Fairness

`FairSpec` assumes weak fairness of `Continue(r)` for each slot: a body that is read arrives or fails
(`req.json()` rejects and is caught), a promise of `crypto.subtle` settles, `setTimeout` fires. Nothing is
assumed about clients: no request need ever come, no reply need be read, nobody need leave. Under it
`EveryRequestAnswered` holds; without the timer of the held poll it does not (that is its mutant).

`Mesh`: weak fairness of `PollStep` and `CloseStep`, the steps that the two goroutines take by themselves
(the Go scheduler runs every goroutine), and strong fairness of `Answer`: the engine polls again two seconds
after each failure, and of infinitely many polls sent as a member some is answered. No fairness of the peers'
goroutines, nor of anything in the room. `MembersBecomePeers` and `DepartedAreDropped` speak of members and
engines that stay as they are from some time on.

`PeerLink`: weak fairness of `Progress`, all that the two engines, the timers and ICE do: time passes and
whoever can go on does. Breaks and losses are not fair, and their number is bounded: "once nothing more goes
wrong" is part of the property.

`WindowsService`: weak fairness of the pipe's thread (`ServePipe`: its waits for the engine have limits) and of the
wake-up of `ServiceControl`, strong fairness of `CreatePipe` (a pipe that cannot be made is tried again after
half a second), weak fairness of a client's way through `CallService`, whose waits have limits too. None of the engine.
`BusySpec` adds that clients go on calling, as an open window does every second: `StopCompletes` needs it,
see section 6.

`NativeUI`: weak fairness of the message loop's work (messages, timers, outcomes), of the calls of threads and of
a start of the engine, each of which has a limit, of an engine that hangs to answer again and of the service to be
started again by the service manager, and that faults end at some time (`CalmDown`).

`Installer`: setup goes on, a failed setup is tried again, the service's process ends, drivers become ready, windows
are closed when setup asks for it, a pending restart comes, and faults end at some time.

## 5. What is proved

All of it by `tlapm`, from the named assumptions on the constants only: `PeersAssumption`,
`FinitePeersAssumption`, `OctetAssumption` (a range of at least two addresses, none of them 0),
`LimitAssumption`, `WidthAssumption`, for `Mesh`, `WindowsService` and `Installer` `NoneAssumption` (None is nobody),
`AdaptersAssumption` (a GUID exists), `ChangesAssumption`, and what each module says of its faults and times.

*Coordinator* (`CoordinatorProofs`). The inductive invariant is `IInv`: `RoomInv(room)` and, for each slot,
`RequestInv`. None of the properties is inductive alone:

- `HostIsEldest` needs `Dated`: who is eldest is well defined because members have different joining times,
  all of them past.
- `AddressesExact` needs `CapRespected` and the other way round the caps' bounds: `assignIP` finds an address
  because fewer members than addresses are in the room, which counts through the reserved octets
  (`RoomForOne`).
- `NoLostWakeup` needs `PollSound`: a poll that has lost its member object carries an outdated version, so
  that it is never held; and it needs that members whose poll is held do not lapse.

Part 1 of the module proves that each helper of the object takes a sound room to a sound room. Part 2 proves
that each segment leaves a sound room that has *advanced* (`Advance`: a higher version, or the same roster
but for names, host, and mail but for deliveries), and that this is all the other requests need (`NoticeInv`). From
`Invariance` follow the seven theorems at its end.

*Coordinator, step by step* (`CoordinatorStepProofs`). The rest cannot be read off a state. `NextSegment` says once what
any segment of any handler does to the room (`Moves`): nothing; it refreshes a member or touches mail (`Updates`); it
removes some members, perhaps with a ban (`Removes`); or it admits one that is neither present nor shut out by a ban
(`Admits`). The three effect lemmas say what each of them means for the fields, and everything below is a case split
over four ways instead of twenty actions:

- `TypeCorrect` includes that no inbox exceeds `MaxInbox`, which only `post` could break.
- `BannedAlwaysStayOut` needs what a segment says of the *request* too: `Unbanned` holds of a request that is about to
  wait for its hash, because the ban check comes before that await. That is why a ban can be passed by a join in flight
  and by nothing else.
- `RefinesRoomMembership` maps the Map's keys to the peers present, `joinedAt` to their order and the snapshot to
  their addresses. A removal is a departure whatever its cause and however many go at once; that the host chosen by
  `promoteHost` is the first of those who stay needs `HostIsEldest` (`HostIsFirst`), that an arrival
  gets an address of its own needs `AddressesExact`, that it fits needs `CapRespected`. So the interleaved handlers are
  one sequential room: two joins that overlap cannot both found it, nor get one address, nor the last place.
- `PlacesAlwaysKept` follows from the refinement: who stays keeps its address, and the role of the host passes on only when
  its holder goes. With it the finding about kicks (section 6) is exact: a kick by somebody who is not host any more is
  one by somebody who left in between.

*Secure channel* (`SecureChannelProofs`). Invariant by invariant, and the refinement of `AtMostOnce`: initial
states map to initial states, and each step to a step or a stutter.

*Mesh* (`MeshProofs`). The inductive invariant is `IInv == TypeOK /\ Clear /\ Following`.

- `StopOnce` is not inductive: that neither goroutine closes the channel the other is about to close needs
  `Removing` (what `removePeer` stops is out of `m.peers`, and its channel is open when it was found open)
  and `Closing` (what `Close` stops is in `m.peers`, because it holds the lock). The two therefore never
  stop the same object, and `Registered` says that an object is in `m.peers` under one ID only.
- `NoOrphans` needs the same: an object leaves `m.peers` only into the hands of `removePeer`.
- `RosterFollowed` needs `Following`, which says for each place of the loop which peers are still to be
  added or removed.

`Undisturbed` carries the steps of the room and of the peers' goroutines, `CreateClear` those of `ensurePeer`,
`StopRemovedIInv` and `StopHeldIInv` the two callers of `stop`.

*Peer connection* (`PeerLinkProofs`). `TypeCorrect` includes that neither queue of offers grows beyond its
capacity: what is taken off a full one, and at which end, is what the two queues differ in. `OnlyNewestIsCurrent` says
that nevertheless, whatever is lost, dropped or late, of all offers on their way to a side only the newest can be one to
connect with. It is not inductive as it stands, since offers move from queue to queue: `Queued` says it of each place
(an offer held that is current has nothing behind it, mail that waits means that all in `sigInbox` are dead, and a side
between two attempts has no current offer anywhere), with a lemma for each thing a queue does (`PostedNewest`,
`DeliveredNewest`, `TailNewest`, `SpentIsSpent`). It is what makes the remedy of section 6 right: a side that skipped all
but the newest offer would never skip one that can connect. `SessionsAlwaysMatch` says of the two ends of a connection
that they dialled with each other's present offers, and that an end that reads alone has a dead connection.

*Windows service* (`WindowsServiceProofs`). `TypeCorrect`, and the inductive invariant `IInv == TypeOK /\ Paired /\
(~JobMayFail => Kept)`. `Paired` ties the handle to the token and the service's status to the place of the thread,
whether or not jobs work: `TokenAlwaysFits` needs no more. `Kept` says that a running engine is the one in hand and in
its job; it needs jobs that work, and so do the theorems about engines that follow from it and the refinement:
`LeaseStep` takes each action to a step of `EngineLease` or to none. What happens without is a finding (section 6).
`CallsAlwaysServed` is about the callers, with or without jobs: whoever waits for an answer is at the other end of the
pipe and its request is before the worker. `CInv` adds that a free instance has nobody at its other end; that the worker
stops only between two calls comes from `Paired`. This is the safety half of `CallsEnd`.

*Native UI* (`NativeUIProofs`). `OneWorker` needs `WInv`: which flags of the window go with which stage of the
thread. `KickAsHost` needs `RInv` besides: a question is open only while its box is on the stack, and no
thread connects meanwhile, because nothing that starts one can be clicked. `EndsConnection` follows from both if calls
of a free service get through (`"miss" \notin Faults`).

*Installer* (`InstallerProofs`). Three of the four hold with all faults, `"late restart"` included.
`SuccessIsComplete` needs `SInv`, which says what has been done at each step (`Copied`, `Started`). `SuccessIsRecorded`
needs `RInv`: setup writes down only adapters that have an identity (`Identified`), and from the second write on the
recorded GUID is that of an adapter that is there, unless a write was lost in this run (`Recorded`); what earlier runs
recorded never counts, because every way through `InstallAdapter` writes both values anew. `StrangersLeftAlone` needs
`OInv`: the name, the record and the run in progress point at no stranger (`Apart`), and what appeared since the first
listing is not one (`Listed`). `ServiceHasPrograms` holds if nobody runs setup before a pending restart; `PInv` says
that files are replaced and condemned only while there is no service to start from them.

Every safety property that a run checks is stated by one of these theorems. Only model-checked are the liveness
properties (`EveryRequestAnswered`, `MembersBecomePeers`, `DepartedAreDropped`, `Connects`, `StopCompletes`,
`CallsEnd`, `WaitEnds`, `ShowsWhatIs`, `RepairSucceeds`), since liveness under fairness is beyond the prover.

## 6. Findings

`OnlyHostKicks` fails (run `coordinator_kick`). `kick` compares the asker with the host, awaits the hash of
its token, and removes the target without looking again (`index.ts:355-358`). If the host's own `leave`
finishes in between, the room has passed to the eldest member and the former host's kick still takes effect,
also on the new host. `client/linux/README.md:38` says "Only the host can kick, and the coordinator verifies
that permission".

`ArpAnswersNameTheOwner` fails (run `mesh_arp`). `removePeer` clears a departed peer out of `macTable`
(`mesh.go:143`) and leaves its entry in `ipToMac`, which only an announcement overwrites (`mesh.go:597`). The
coordinator gives the lowest free address to the next who joins. Until that one's connection is up and its
announcement has come, ARP requests for its address are answered with the MAC of the peer that left, against
"a request for a peer whose MAC we already know (announced over the control channel)" (`mesh.go:261`) and
`docs/architecture.md:23`.

`Connects` fails if one engine begins to poll 20 seconds or more after the other (run `link_late`). The first
has timed out and posted a second offer; the late one finds both, takes the older, and dials its dead
credentials for 30 seconds. The first dials with the late one's offer just as long in vain. Both retry at the
same time, and again the late one finds the outdated offer before the current one: they stay one offer apart
for ever, until something else (a restart, a lost offer) brings them in step. The same happens when the two
ends of a dead connection notice it 20 seconds or more apart. `mesh.go:429` says "run keeps a
connection to this peer alive, retrying on failure." Taking the newest offer of `sigInbox` instead of the
oldest would end it.

`BannedStayOut` is stated with the exception the code needs: a join that has passed the ban check
(`index.ts:218`) and waits for its hash may still be admitted after its peer was kicked. From the moment no
such join is in flight the ban holds until the room is empty. The property is thus about what a ban is worth after that
race, and does not show the race itself.

`NamesAreAnnounced` fails (`MCCoordinator_names.cfg`). A member that joins again under another name changes the
snapshot, and `join` does not bump for it (`index.ts:250`): two replies with one version differ in a name, and a held
poll is not woken. Clients see the new name with the next change of something else, or within `POLL_MS`. `bump` is to
"wake every long-poll waiting on this network, and advance the version" (`index.ts:129`), and nothing says for which
changes; the properties that a run checks are of everything but names.

The models of the Windows client have more such places. They are no runs of their own; the configurations below
show each.

| configuration, property | what happens | what is said |
|---|---|---|
| `MCNativeUI_kick.cfg`, `RowIsNodes` | `RequestKickNode` keeps a row over its box, under which statuses are applied, and erases that row afterwards (`ui_main.cpp:448`): another node's row goes until the next status, or erase is called past the end. The node that the service removes is the right one. | the box: "Remove ... from this room?" (`ui_main.cpp:436`) |
| `MCNativeUI_close.cfg`, `CloseLeaves` | closing the window while it connects calls DISCONNECT, which gives up after 8 s behind a CONNECT of up to 35 s, or comes before it: the engine starts and stays | "leave the room, stop the engine, and exit" (`ui_main.cpp:1894`) |
| `MCNativeUI_priority.cfg`, `OffIsOff` | PRIORITY is sent only while connected, and on connecting only if it is on: turned off in between, the adapter keeps its metric (`ui_main.cpp:1811`, `1841`) | the setting shows "off" (`ui_main.cpp:1808`) |
| `MCNativeUI_setup.cfg`, `SetupWhenNeeded` | a service that is busy does not answer PING within 350 ms, and setup is started with the administrator's approval (`ui_main.cpp:968`) | "when system components need installation" (`client/native/README.md:63`) |
| `MCWindowsService_lost_wake.cfg`, `StopCompletes` | the stop's one call of the pipe comes between the look at the event and the next instance (`service_main.cpp:419`): without another caller the service stays in STOP_PENDING | "Wake the blocking ConnectNamedPipe call." (`service_main.cpp:465`) |
| `MCWindowsService_no_job.cfg`, `NoEngineOutlivesService` | whether the job object could be made, limited and assigned is not asked (`service_main.cpp:313-319`): without it a crash of the service leaves the engine | "a kill-on-close Windows job" (`docs/architecture.md:33`) |
| `MCInstaller_late_restart.cfg`, `InstalledStays` | files left to be deleted at the restart are installed again before it, and the restart deletes them (`setup_main.cpp:695`) | "Installation completed successfully" (`setup_main.cpp:690`) |
| `MCInstaller_cut_off.cfg`, `NoAdapterLeft` | setup ends, or finds the device not ready, between devcon and the record of its adapter (`setup_main.cpp:473-495`): the next run makes another one, and nothing removes the first | "removes ... owned TAP adapter" (`README.md:171`) |
| `MCInstaller_registry.cfg`, `SuccessIsFound` | the GUID could not be written (`setup_main.cpp:363`) and the adapter not be renamed, of which neither stops setup: the service finds no adapter | "Installation completed successfully" (`setup_main.cpp:690`) |
| `MCInstaller_reused.cfg`, `OthersStay` | an uninstallation ends between the removal of the adapter and that of the record (`setup_main.cpp:713-724`), Windows gives its instance to another product's adapter, and the next uninstallation removes that one | "removes ... owned TAP adapter" (`README.md:171`) |
| `MCInstaller_other_setup.cfg`, `OthersStay` | an adapter that another product adds while devcon runs is taken for the new one (`setup_main.cpp:480`), and removed by an uninstallation | "removes ... owned TAP adapter" (`README.md:171`) |

With the fault `"legacy"` `OthersStay` fails too: beside a legacy installation the only adapter is adopted, whosever it is
(`setup_main.cpp:648`). `StrangersLeftAlone` is what remains true with all three: of an adapter that setup can tell from
its own nothing is ever written down, and it is never named or removed.

## 7. Plan

In this order; each module is written so that it can be proved about (constants with assumptions, one action
per operation, invariants as conjunctions of named parts, no recursive operators).

1. `Coordinator`, `SecureChannel`, `Mesh`: done as described above. Left in `Mesh`: whether a peer that was
   removed in the middle of `connectOnce` ever becomes quiet (`stop` closes the agent it finds; the next one may
   connect), and the frames it then delivers.
2. `PeerLink`: the core is done. Left: `stop` and restarts of one side, ping loops (one per connection, ended
   only by `stopCh`), agents of attempts that failed, a mailbox and an inbox at their limits.
3. `Room`: `Coordinator` with clients that lose requests and replies, crash, restart under the same ID, and a
   coordinator that is evicted. Properties: rosters converge once changes cease; silent members are reaped
   while anybody polls; a removed client learns it.
4. `EngineLifecycle` (`main.go`, `api.go`) and `LinuxBackground` (`platform_commands_linux.go`): the stages of
   start and shutdown, every way out of them, two commands at once. Properties: at most one engine, nothing
   left behind by any exit.
5. `WindowsService`, `NativeUI`, `Installer`: done as described above. Left: a composition of the first two (their
   product is beyond TLC at the sizes above, so that `NativeUI` takes the service's promises as its environment), the
   relay and performance settings, the parsing of the status in the window.
6. `TurnCredentials`.

Abstract specifications worth stating: besides `RoomMembership`, `AtMostOnce` and `EngineLease`, a single-engine lock
for `LinuxBackground`.

Theorems next: for the modules still to be written, first of all `Room`: that a client whose version is the room's has the
room's roster but for names, which `VersionNamesView` and `ChangesAreAnnounced` prepare. For `Mesh`, what is still true of the tables
after a removal.

## 8. Not modelled

Worker routing (stateless), display and drawing (`terminal_ui.go`, the drawing, layout and scroll bar of
`ui_main.cpp`, which is most of it), resources and texts (`resource.h`), encodings of the pipe's fields
(`common.cpp`), TAP and OS calls, key derivation and ciphers, HTTP parsing, the legacy WPF client and its updater, build scripts. The parts of
section 1 without a module yet are listed in `PROJECT.json` with the module planned for them.
