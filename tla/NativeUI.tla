------------------------------ MODULE NativeUI ------------------------------
(***************************************************************************)
(* The Windows desktop application (client/native/ui_main.cpp) and what it *)
(* sees of the network service, which WindowsService has in detail.        *)
(*                                                                         *)
(* One thread runs WindowProc.  Its calls of the service block it, so that *)
(* a handler is one step; but message boxes and menus run message loops of *)
(* their own, and while one is open timers, the tray icon and messages go  *)
(* on under the handler that opened it.  CONNECT and DISCONNECT of the     *)
(* buttons are called by a thread of their own, which posts the outcome to *)
(* the window.                                                             *)
(*                                                                         *)
(* The service takes one call at a time.  While it starts an engine every  *)
(* other call waits: it fails, or it is as good as made when the engine    *)
(* has been started.                                                       *)
(***************************************************************************)
EXTENDS Naturals, Sequences, FiniteSets

CONSTANTS
    Peers,      \* other members of the room, in the order of their addresses
    Rows,       \* rows of the list of nodes that are visible: 4
    Faults      \* what may go wrong

ASSUME PeerAssumption == Peers \subseteq Nat /\ IsFiniteSet(Peers)
ASSUME RowAssumption == Rows \in Nat \ {0}

\* "miss": a call fails though the service is free, as between two instances of its
\* pipe; "exit", "silent": the engine ends, or does not answer; "stop": the service
\* does.
ASSUME FaultAssumption == Faults \subseteq {"miss", "exit", "silent", "stop"}

VARIABLES
    running,    \* the application of one session, in which there is one at a time
    fresh,      \* its first message, WM_APP, has yet to be handled
    ended,      \* how it ended
    offered,    \* g.install_offered
    connected, connecting, isHost, text, nodes, top,    \* what the window shows
    priority, settingsOpen,
    saved,      \* the priority of native.ini
    modal,      \* boxes and menus that are open, the innermost last
    kick,       \* what RequestKickNode asks about: the row and the node
    menuLeave,  \* "Disconnect" of the tray menu is not grayed
    worker,     \* the thread that calls the service
    up, busy,   \* the service: it runs; it is starting an engine
    engine, host, room, \* the engine, and what it says of its room
    metric,     \* the adapter has priority
    calm        \* nothing goes wrong, and nobody clicks in the window, any more

process == <<running, fresh, ended, offered>>
shown == <<nodes, top>>
view == <<connected, connecting, isHost, text, shown>>
settings == <<priority, settingsOpen, saved>>
boxes == <<modal, kick, menuLeave>>
network == <<engine, host, room>>
service == <<up, busy, network, metric>>
vars == <<process, view, settings, boxes, worker, service, calm>>

NoKick == [row |-> 0, node |-> 0]
Idle == [kind |-> "none", stage |-> "none", ok |-> FALSE]
Thread(kind, stage, ok) == [kind |-> kind, stage |-> stage, ok |-> ok]

TypeOK ==
    /\ running \in BOOLEAN /\ fresh \in BOOLEAN /\ offered \in BOOLEAN
    /\ ended \in {"no", "closed", "exit", "crashed"}
    /\ connected \in BOOLEAN /\ connecting \in BOOLEAN /\ isHost \in BOOLEAN
    /\ text \in {"Offline", "Setup needed", "Connecting", "Connected", "Disconnecting"}
    /\ nodes \in Seq(Peers) /\ top \in 0 .. Cardinality(Peers)
    /\ priority \in BOOLEAN /\ settingsOpen \in BOOLEAN /\ saved \in BOOLEAN
    /\ modal \in Seq({"kick", "menu", "notice", "offer"}) /\ Len(modal) <= 3
    /\ kick \in [row : 1 .. Cardinality(Peers), node : Peers] \cup {NoKick}
    /\ menuLeave \in BOOLEAN
    /\ worker \in [kind : {"connect", "disconnect"}, stage : {"call", "serve", "posted"},
                   ok : BOOLEAN] \cup {Idle}
    /\ up \in BOOLEAN /\ busy \in BOOLEAN
    /\ engine \in {"off", "on", "silent"} /\ host \in BOOLEAN /\ room \subseteq Peers
    /\ metric \in BOOLEAN /\ calm \in BOOLEAN

Blank ==
    /\ connected' = FALSE /\ connecting' = FALSE /\ isHost' = FALSE /\ text' = "Offline"
    /\ nodes' = <<>> /\ top' = 0
    /\ settingsOpen' = FALSE
    /\ modal' = <<>> /\ kick' = NoKick /\ menuLeave' = FALSE
    /\ worker' = Idle

Init ==
    /\ running = FALSE /\ fresh = FALSE /\ ended = "no" /\ offered = FALSE
    /\ connected = FALSE /\ connecting = FALSE /\ isHost = FALSE /\ text = "Offline"
    /\ nodes = <<>> /\ top = 0
    /\ saved = FALSE /\ priority = FALSE /\ settingsOpen = FALSE
    /\ modal = <<>> /\ kick = NoKick /\ menuLeave = FALSE
    /\ worker = Idle
    /\ up \in {TRUE, "stop" \notin Faults}
    /\ busy = FALSE /\ engine = "off" /\ host = FALSE /\ room = {}
    /\ metric = FALSE
    /\ calm = FALSE

Fault(f) == f \in Faults /\ ~calm

\* A call of the service is answered, or it is not.
Free == up /\ ~busy
Fails == ~Free \/ Fault("miss")

Clickable == running /\ ~fresh /\ modal = <<>> /\ ~calm

-----------------------------------------------------------------------------
(* What the window shows *)

Sorted(S) ==
    [i \in 1 .. Cardinality(S) |->
        CHOOSE p \in S : Cardinality({q \in S : q < p}) = i - 1]

MaxTop(n) == IF n > Rows THEN n - Rows ELSE 0

SetUiState(c, cg, h) ==
    /\ connected' = c /\ connecting' = cg
    /\ isHost' = (h /\ (c \/ cg))

\* Mutation: the nodes of the first status stay.
ApplyOnce ==
    /\ nodes' = IF nodes = <<>> THEN Sorted(room) ELSE nodes
    /\ top' = IF top > MaxTop(Cardinality(room)) THEN MaxTop(Cardinality(room)) ELSE top

ApplyStatus ==
    /\ nodes' = Sorted(room)
    /\ top' = IF top > MaxTop(Cardinality(room)) THEN MaxTop(Cardinality(room)) ELSE top

\* The rest of PollStatus, when no thread is at work.
Poll ==
    \/ /\ Fails
       /\ text' = "Setup needed"
       /\ SetUiState(FALSE, FALSE, isHost)
       /\ UNCHANGED shown
    \/ /\ Free /\ engine = "off"
       /\ text' = "Offline"
       /\ SetUiState(FALSE, FALSE, isHost)
       /\ UNCHANGED shown
    \/ /\ Free /\ engine = "silent"
       /\ text' = "Connecting"
       /\ connecting' = FALSE
       /\ UNCHANGED <<connected, isHost, shown>>
    \/ /\ Free /\ engine = "on"
       /\ ApplyStatus
       /\ text' = "Connected"
       /\ SetUiState(TRUE, FALSE, host)

\* WinMain and WM_CREATE.
Open ==
    /\ ~running
    /\ running' = TRUE /\ fresh' = TRUE /\ ended' = "no" /\ offered' = FALSE
    /\ priority' = saved
    /\ Blank
    /\ UNCHANGED <<saved, service, calm>>

\* OfferServiceInstall starts setup when PING is not answered in 350 ms.  If it cannot,
\* a box says so, and the poll that follows waits for the box.
FirstMessage ==
    /\ running /\ fresh
    /\ fresh' = FALSE
    /\ \/ Free /\ Poll /\ UNCHANGED <<offered, modal>>
       \/ Fails /\ offered' = TRUE /\ Poll /\ UNCHANGED modal
       \/ Fails /\ offered' = TRUE /\ modal' = <<"offer">> /\ UNCHANGED view
    /\ UNCHANGED <<running, ended, settings, kick, menuLeave, worker, service, calm>>

Innermost(box) == running /\ modal # <<>> /\ modal[Len(modal)] = box
Back == SubSeq(modal, 1, Len(modal) - 1)

\* The tray menu may have begun to disconnect meanwhile.
OfferDismissed ==
    /\ Innermost("offer")
    /\ modal' = Back
    /\ \/ connecting /\ UNCHANGED view
       \/ ~connecting /\ Poll
    /\ UNCHANGED <<process, settings, kick, menuLeave, worker, service, calm>>

\* Mutation: polls go on while a thread is at work.
TimerAlways ==
    /\ running /\ ~fresh
    /\ Poll
    /\ UNCHANGED <<process, settings, boxes, worker, service, calm>>

\* Once a second.
Timer ==
    /\ running /\ ~fresh
    /\ ~connecting
    /\ Poll
    /\ UNCHANGED <<process, settings, boxes, worker, service, calm>>

-----------------------------------------------------------------------------
(* Connecting and disconnecting *)

BadInput ==
    /\ Clickable /\ ~settingsOpen /\ ~connected /\ ~connecting
    /\ modal' = <<"notice">>
    /\ UNCHANGED <<process, view, settings, kick, menuLeave, worker, service, calm>>

\* Mutation: boxes do not disable the window.
StartUnderBox ==
    /\ running /\ ~fresh /\ ~calm /\ ~settingsOpen /\ ~connected /\ ~connecting
    /\ text' = "Connecting"
    /\ SetUiState(FALSE, TRUE, isHost)
    /\ worker' = Thread("connect", "call", FALSE)
    /\ UNCHANGED <<process, shown, settings, boxes, service, calm>>

StartConnection ==
    /\ Clickable /\ ~settingsOpen /\ ~connected /\ ~connecting
    /\ text' = "Connecting"
    /\ SetUiState(FALSE, TRUE, isHost)
    /\ worker' = Thread("connect", "call", FALSE)
    /\ UNCHANGED <<process, shown, settings, boxes, service, calm>>

StopConnection ==
    IF connecting
    THEN UNCHANGED <<connecting, text, worker>>
    ELSE /\ connecting' = TRUE
         /\ text' = "Disconnecting"
         /\ worker' = Thread("disconnect", "call", FALSE)

Disconnect ==
    /\ Clickable /\ ~settingsOpen /\ connected
    /\ StopConnection
    /\ UNCHANGED <<process, connected, isHost, shown, settings, boxes, service, calm>>

Answered(ok) == worker' = Thread(worker.kind, "posted", ok)

Unanswered ==
    /\ worker.stage = "call"
    /\ Fails
    /\ Answered(FALSE)
    /\ UNCHANGED <<process, view, settings, boxes, service, calm>>

\* StartEngine of the service refuses if it has an engine.
ConnectTaken ==
    /\ worker.kind = "connect" /\ worker.stage = "call"
    /\ Free
    /\ IF engine = "off"
       THEN busy' = TRUE /\ worker' = Thread("connect", "serve", FALSE)
       ELSE Answered(FALSE) /\ UNCHANGED busy
    /\ UNCHANGED <<process, view, settings, boxes, up, network, metric, calm>>

NoEngine == engine' = "off" /\ host' = FALSE /\ room' = {}

DisconnectTaken ==
    /\ worker.kind = "disconnect" /\ worker.stage = "call"
    /\ Free
    /\ NoEngine
    /\ Answered(TRUE)
    /\ UNCHANGED <<process, view, settings, boxes, up, busy, metric, calm>>

\* The service is done with StartEngine, whoever asked for it is there or not.
EngineStarts ==
    /\ busy
    /\ busy' = FALSE
    /\ \E ok \in BOOLEAN :
         /\ IF ok THEN engine' = "on" /\ host' \in BOOLEAN /\ room' \in SUBSET Peers
            ELSE UNCHANGED network
         /\ IF worker.stage = "serve" THEN Answered(ok) ELSE UNCHANGED worker
    /\ UNCHANGED <<process, view, settings, boxes, up, metric, calm>>

ConnectFailed ==
    /\ worker.kind = "connect" /\ worker.stage = "posted" /\ ~worker.ok
    /\ text' = "Offline"
    /\ SetUiState(FALSE, FALSE, isHost)
    /\ modal' = Append(modal, "notice")
    /\ worker' = Idle
    /\ UNCHANGED <<process, shown, settings, kick, menuLeave, service, calm>>

SetPriority(on) ==
    \/ Free /\ metric' = on
    \/ Fails /\ UNCHANGED metric

ConnectDone ==
    /\ worker.kind = "connect" /\ worker.stage = "posted" /\ worker.ok
    /\ IF priority THEN SetPriority(TRUE) ELSE UNCHANGED metric
    /\ Poll
    /\ worker' = Idle
    /\ UNCHANGED <<process, settings, boxes, up, busy, network, calm>>

\* Mutation: the window goes on waiting.
DisconnectForgotten ==
    /\ worker.kind = "disconnect" /\ worker.stage = "posted"
    /\ text' = "Offline"
    /\ SetUiState(FALSE, connecting, isHost)
    /\ modal' = IF worker.ok THEN modal ELSE Append(modal, "notice")
    /\ worker' = Idle
    /\ UNCHANGED <<process, shown, settings, kick, menuLeave, service, calm>>

DisconnectDone ==
    /\ worker.kind = "disconnect" /\ worker.stage = "posted"
    /\ text' = "Offline"
    /\ SetUiState(FALSE, FALSE, isHost)
    /\ modal' = IF worker.ok THEN modal ELSE Append(modal, "notice")
    /\ worker' = Idle
    /\ UNCHANGED <<process, shown, settings, kick, menuLeave, service, calm>>

-----------------------------------------------------------------------------
(* The list of nodes *)

Scroll ==
    /\ Clickable /\ ~settingsOpen /\ connected
    /\ top' \in 0 .. MaxTop(Len(nodes))
    /\ UNCHANGED <<process, connected, connecting, isHost, text, nodes, settings, boxes,
                   worker, service, calm>>

\* RequestKickNode, until its question is answered.
AskKick ==
    /\ Clickable /\ ~settingsOpen /\ connected /\ isHost
    /\ \E row \in 1 .. Rows :
         /\ top + row <= Len(nodes)
         /\ kick' = [row |-> top + row, node |-> nodes[top + row]]
    /\ modal' = <<"kick">>
    /\ UNCHANGED <<process, view, settings, menuLeave, worker, service, calm>>

Dismiss(box) ==
    /\ Innermost(box)
    /\ modal' = Back
    /\ kick' = IF box = "kick" THEN NoKick ELSE kick
    /\ menuLeave' = IF box = "menu" THEN FALSE ELSE menuLeave
    /\ UNCHANGED <<process, view, settings, worker, service, calm>>

KickAnswered == Innermost("kick") /\ ~calm

KickFails ==
    /\ KickAnswered
    /\ Fails \/ engine # "on" \/ kick.node \notin room
    /\ modal' = Append(Back, "notice")
    /\ kick' = NoKick
    /\ UNCHANGED <<process, view, settings, menuLeave, worker, service, calm>>

WithoutRow(s, i) == [j \in 1 .. Len(s) - 1 |-> IF j < i THEN s[j] ELSE s[j + 1]]

\* The row that the node had when the question was asked is erased.
KickWorks ==
    /\ KickAnswered
    /\ Free /\ engine = "on" /\ kick.node \in room
    /\ room' = room \ {kick.node}
    /\ kick.row <= Len(nodes)
    /\ nodes' = WithoutRow(nodes, kick.row)
    /\ modal' = Back
    /\ kick' = NoKick
    /\ UNCHANGED <<process, connected, connecting, isHost, text, top, settings, menuLeave,
                   worker, up, busy, engine, host, metric,
                   calm>>

End(how) ==
    /\ running' = FALSE /\ fresh' = FALSE /\ ended' = how
    /\ Blank
    /\ UNCHANGED <<offered, priority, saved, up, metric, calm>>

\* Erasing an element past the end is undefined: the program ends.
KickBreaks ==
    /\ KickAnswered
    /\ Free /\ engine = "on" /\ kick.node \in room
    /\ kick.row > Len(nodes)
    /\ room' = room \ {kick.node}
    /\ End("crashed")
    /\ UNCHANGED <<busy, engine, host>>

-----------------------------------------------------------------------------
(* Settings *)

ToggleSettings ==
    /\ running /\ ~fresh /\ modal = <<>>
    /\ settingsOpen' = ~settingsOpen
    /\ saved' = IF settingsOpen THEN priority ELSE saved
    /\ SetUiState(connected, connecting, isHost)
    /\ UNCHANGED <<process, text, shown, priority, boxes, worker, service, calm>>

TogglePriority ==
    /\ Clickable /\ settingsOpen
    /\ priority' = ~priority /\ saved' = ~priority
    /\ IF connected THEN SetPriority(~priority) ELSE UNCHANGED metric
    /\ UNCHANGED <<process, view, settingsOpen, boxes, worker, up, busy, network, calm>>

-----------------------------------------------------------------------------
(* The tray menu and the end *)

\* Boxes and menus are nested two deep, not counting what is reported meanwhile.
OpenMenu ==
    /\ running /\ ~fresh /\ ~calm
    /\ Len(modal) < 2 /\ ~Innermost("menu")
    /\ modal' = Append(modal, "menu")
    /\ menuLeave' = connected
    /\ UNCHANGED <<process, view, settings, kick, worker, service, calm>>

MenuDisconnect ==
    /\ Innermost("menu") /\ ~calm
    /\ menuLeave
    /\ modal' = Back /\ menuLeave' = FALSE
    /\ StopConnection
    /\ UNCHANGED <<process, connected, isHost, shown, settings, kick, service, calm>>

\* DISCONNECT is called and the process ends, but the service may be quicker and
\* take the CONNECT of the other thread.
Leave ==
    \/ Fails /\ UNCHANGED <<busy, network>>
    \/ /\ Free
       /\ NoEngine
       /\ \/ UNCHANGED busy
          \/ worker = Thread("connect", "call", FALSE) /\ busy' = TRUE

\* Mutation: the tray icon just ends.
MenuQuit ==
    /\ Innermost("menu") /\ ~calm
    /\ UNCHANGED <<busy, network>>
    /\ End("exit")

MenuExit ==
    /\ Innermost("menu") /\ ~calm
    /\ IF connected THEN Leave ELSE UNCHANGED <<busy, network>>
    /\ End("exit")

\* WM_CLOSE
Close ==
    /\ Clickable
    /\ IF connected \/ connecting THEN Leave ELSE UNCHANGED <<busy, network>>
    /\ End("closed")

-----------------------------------------------------------------------------
(* The service, its engine, and the room: external *)

\* The host may leave, and the user be the next one.
RoomChanges ==
    /\ engine # "off" /\ ~calm
    /\ \E p \in Peers :
         \/ p \in room /\ room' = room \ {p} /\ host' \in {host, TRUE}
         \/ p \notin room /\ room' = room \cup {p} /\ UNCHANGED host
    /\ UNCHANGED <<process, view, settings, boxes, worker, up, busy, engine, metric, calm>>

EngineExits ==
    /\ engine # "off" /\ Fault("exit")
    /\ NoEngine
    /\ UNCHANGED <<process, view, settings, boxes, worker, up, busy, metric, calm>>

EngineHangs ==
    /\ engine = "on" /\ Fault("silent")
    /\ engine' = "silent"
    /\ UNCHANGED <<process, view, settings, boxes, worker, up, busy, host, room, metric,
                   calm>>

EngineAnswers ==
    /\ engine = "silent"
    /\ engine' = "on"
    /\ UNCHANGED <<process, view, settings, boxes, worker, up, busy, host, room, metric,
                   calm>>

ServiceStops ==
    /\ up /\ Fault("stop")
    /\ up' = FALSE /\ busy' = FALSE
    /\ NoEngine
    /\ IF worker.stage = "serve" THEN Answered(FALSE) ELSE UNCHANGED worker
    /\ UNCHANGED <<process, view, settings, boxes, metric, calm>>

ServiceStarts ==
    /\ ~up
    /\ up' = TRUE
    /\ UNCHANGED <<process, view, settings, boxes, worker, busy, network, metric, calm>>

CalmDown ==
    /\ ~calm
    /\ calm' = TRUE
    /\ UNCHANGED <<process, view, settings, boxes, worker, service>>

Calls == Unanswered \/ ConnectTaken \/ DisconnectTaken
Outcomes == ConnectFailed \/ ConnectDone \/ DisconnectDone

User ==
    \/ Open \/ BadInput \/ StartConnection \/ Disconnect \/ Scroll
    \/ AskKick \/ KickFails \/ KickWorks \/ KickBreaks
    \/ \E box \in {"kick", "menu", "notice"} : Dismiss(box)
    \/ OfferDismissed
    \/ ToggleSettings \/ TogglePriority
    \/ OpenMenu \/ MenuDisconnect \/ MenuExit \/ Close

Next ==
    \/ User
    \/ FirstMessage \/ Timer \/ Calls \/ Outcomes \/ EngineStarts
    \/ RoomChanges \/ EngineExits \/ EngineHangs \/ EngineAnswers
    \/ ServiceStops \/ ServiceStarts \/ CalmDown

Spec == Init /\ [][Next]_vars

\* Messages are handled and timers run, whether or not a box is open; a wait for the
\* service has a limit, and StartEngine has one.
Fairness ==
    /\ WF_vars(FirstMessage) /\ WF_vars(Timer) /\ WF_vars(Calls) /\ WF_vars(Outcomes)
    /\ WF_vars(EngineStarts) /\ WF_vars(EngineAnswers) /\ WF_vars(ServiceStarts)

FairSpec == Spec /\ Fairness /\ WF_vars(CalmDown)

-----------------------------------------------------------------------------
(* Properties *)

\* The window waits exactly as long as a thread of it is at work, of which there is
\* never a second, and no poll, no box and no menu ends the wait before.
OneWorker == running => (connecting <=> worker # Idle)

\* The question whether to remove a node does not outlive the room that it was asked
\* in: if there is a room when it is answered, it is still one of the user's own.
KickAsHost == kick # NoKick /\ engine # "off" => host

\* Who closes or exits while the window shows a connection has left the room.
EndsConnection ==
    [][running /\ connected /\ ~running' /\ ended' # "crashed"
         => engine' = "off" /\ ~busy']_vars

\* Connecting and disconnecting come to an end.
WaitEnds == connecting ~> ~connecting

\* When all is quiet the window comes to show what is, connected or not and the
\* members of the room, and goes on showing it.
ShowsWhatIs ==
    calm ~> [](running => /\ connected = (engine = "on")
                          /\ connected => nodes = Sorted(room) /\ isHost = host)

\* "Remove ... from this room?": the row that goes is that of the node asked about.
RowIsNodes ==
    [][KickAnswered /\ room' # room /\ kick' = NoKick
         => kick.row <= Len(nodes) /\ nodes[kick.row] = kick.node]_vars

\* WM_CLOSE: "leave the room, stop the engine, and exit".
CloseLeaves == ended = "closed" => engine = "off" /\ ~busy

\* "Prioritize OrbitLan adapter", turned off, is off.
OffIsOff == connected /\ ~priority => ~metric

\* Setup is started only when there is no service.
SetupWhenNeeded == [][offered' /\ ~offered => ~up]_vars

=============================================================================
