-------------------------- MODULE NativeUIProofs --------------------------
(***************************************************************************)
(* Proofs about the desktop application, for any members of the room, any  *)
(* number of visible rows and any number of its runs.                      *)
(***************************************************************************)
EXTENDS NativeUI, TLAPS

(* What the window shows and what the thread does *)

Flags ==
    /\ running \in BOOLEAN /\ fresh \in BOOLEAN
    /\ connected \in BOOLEAN /\ connecting \in BOOLEAN
    /\ isHost \in BOOLEAN /\ host \in BOOLEAN

\* There is a thread just as long as the window waits, and none without a window.
Waits ==
    /\ running => (connecting <=> worker # Idle)
    /\ ~running => worker = Idle /\ ~connecting
    /\ fresh => running /\ worker = Idle /\ modal = <<>>

\* While a thread is about to connect the window shows no room.
Unconnected ==
    /\ isHost => connected \/ connecting
    /\ worker.kind = "connect" => ~connected /\ ~isHost

WInv == Flags /\ Waits /\ Unconnected

LEMMA WInit == Init => WInv
BY DEF Init, WInv, Flags, Waits, Unconnected, Idle

LEMMA PollShows == ASSUME Flags, Poll, isHost => connected PROVE isHost' => connected'
<1>1. CASE Fails /\ SetUiState(FALSE, FALSE, isHost)
  BY <1>1 DEF SetUiState
<1>2. CASE Free /\ SetUiState(FALSE, FALSE, isHost)
  BY <1>2 DEF SetUiState
<1>3. CASE UNCHANGED <<connected, isHost, shown>>
  BY <1>3
<1>4. CASE SetUiState(TRUE, FALSE, host)
  BY <1>4 DEF SetUiState
<1> QED
  BY <1>1, <1>2, <1>3, <1>4 DEF Poll

LEMMA PollEndsNoWait == ASSUME connecting = FALSE, Poll PROVE connecting' = FALSE
BY DEF Poll, SetUiState

\* There is no room to show while the service is busy.
LEMMA BusyPoll == ASSUME Poll, busy PROVE ~connected' /\ ~isHost'
BY DEF Poll, Free, SetUiState

LEMMA WStep == ASSUME WInv, [Next]_vars PROVE WInv'
<1>1. CASE Open
  <2>1. Flags'
    BY <1>1 DEF Open, Blank, service, NoKick, Idle, network, WInv, Flags, process,
        view
  <2>2. Waits'
    BY <1>1 DEF Open, Blank, service, NoKick, Idle, network, WInv, Flags, Waits, view,
        boxes, process
  <2>3. Unconnected'
    BY <1>1 DEF Open, Blank, service, NoKick, Idle, network, WInv, Flags, Waits,
        Unconnected, Thread, view, process
  <2> QED
    BY <2>1, <2>2, <2>3 DEF WInv
<1>2. CASE BadInput
  <2>1. Flags'
    BY <1>2 DEF BadInput, Clickable, process, view, settings, service, shown, network,
        WInv, Flags
  <2>2. Waits'
    BY <1>2 DEF BadInput, Clickable, process, view, settings, service, shown, network,
        WInv, Flags, Waits, Idle, boxes
  <2>3. Unconnected'
    BY <1>2 DEF BadInput, Clickable, process, view, settings, service, shown, network,
        WInv, Flags, Waits, Unconnected, Idle, Thread
  <2> QED
    BY <2>1, <2>2, <2>3 DEF WInv
<1>3. CASE StartConnection
  <2>1. Flags'
    BY <1>3 DEF StartConnection, Clickable, SetUiState, Thread, process, shown,
        settings, boxes, service, network, WInv, Flags, view
  <2>2. Waits'
    BY <1>3 DEF StartConnection, Clickable, SetUiState, Thread, process, shown,
        settings, boxes, service, network, WInv, Flags, Waits, Idle, view
  <2>3. Unconnected'
    BY <1>3 DEF StartConnection, Clickable, SetUiState, Thread, process, shown,
        settings, boxes, service, network, WInv, Flags, Waits, Unconnected, Idle, view
  <2> QED
    BY <2>1, <2>2, <2>3 DEF WInv
<1>4. CASE Disconnect
  <2>1. Flags'
    BY <1>4 DEF Disconnect, Clickable, StopConnection, process, shown, settings,
        boxes, service, Thread, network, WInv, Flags, view
  <2>2. Waits'
    BY <1>4 DEF Disconnect, Clickable, StopConnection, process, shown, settings,
        boxes, service, Thread, network, WInv, Flags, Waits, Idle, view
  <2>3. Unconnected'
    BY <1>4 DEF Disconnect, Clickable, StopConnection, process, shown, settings,
        boxes, service, Thread, network, WInv, Flags, Waits, Unconnected, Idle, view
  <2> QED
    BY <2>1, <2>2, <2>3 DEF WInv
<1>5. CASE Scroll
  <2>1. Flags'
    BY <1>5 DEF Scroll, Clickable, process, settings, boxes, service, network, WInv,
        Flags, view
  <2>2. Waits'
    BY <1>5 DEF Scroll, Clickable, process, settings, boxes, service, network, WInv,
        Flags, Waits, Idle, view
  <2>3. Unconnected'
    BY <1>5 DEF Scroll, Clickable, process, settings, boxes, service, network, WInv,
        Flags, Waits, Unconnected, Idle, Thread, view
  <2> QED
    BY <2>1, <2>2, <2>3 DEF WInv
<1>6. CASE AskKick
  <2>1. Flags'
    BY <1>6 DEF AskKick, Clickable, process, view, settings, service, shown, network,
        WInv, Flags
  <2>2. Waits'
    BY <1>6 DEF AskKick, Clickable, process, view, settings, service, shown, network,
        WInv, Flags, Waits, Idle, boxes
  <2>3. Unconnected'
    BY <1>6 DEF AskKick, Clickable, process, view, settings, service, shown, network,
        WInv, Flags, Waits, Unconnected, Idle, Thread
  <2> QED
    BY <2>1, <2>2, <2>3 DEF WInv
<1>7. CASE KickFails
  <2>1. Flags'
    BY <1>7 DEF KickFails, KickAnswered, Fails, Back, NoKick, process, view, settings,
        service, Innermost, Free, Fault, shown, network, WInv, Flags
  <2>2. Waits'
    BY <1>7 DEF KickFails, KickAnswered, Fails, Back, NoKick, process, view, settings,
        service, Innermost, Free, Fault, shown, network, WInv, Flags, Waits, Idle,
        boxes
  <2>3. Unconnected'
    BY <1>7 DEF KickFails, KickAnswered, Fails, Back, NoKick, process, view, settings,
        service, Innermost, Free, Fault, shown, network, WInv, Flags, Waits,
        Unconnected, Idle, Thread
  <2> QED
    BY <2>1, <2>2, <2>3 DEF WInv
<1>8. CASE KickWorks
  <2>1. Flags'
    BY <1>8 DEF KickWorks, KickAnswered, Free, Back, NoKick, process, settings,
        Innermost, WInv, Flags, view, service, network
  <2>2. Waits'
    BY <1>8 DEF KickWorks, KickAnswered, Free, Back, NoKick, process, settings,
        Innermost, WInv, Flags, Waits, Idle, view, boxes
  <2>3. Unconnected'
    BY <1>8 DEF KickWorks, KickAnswered, Free, Back, NoKick, process, settings,
        Innermost, WInv, Flags, Waits, Unconnected, Idle, Thread, view
  <2> QED
    BY <2>1, <2>2, <2>3 DEF WInv
<1>9. CASE KickBreaks
  <2>1. Flags'
    BY <1>9 DEF KickBreaks, KickAnswered, Free, End, Innermost, Blank, NoKick, Idle,
        WInv, Flags, process, view, service, network
  <2>2. Waits'
    BY <1>9 DEF KickBreaks, KickAnswered, Free, End, Innermost, Blank, NoKick, Idle,
        WInv, Flags, Waits, view, boxes, process
  <2>3. Unconnected'
    BY <1>9 DEF KickBreaks, KickAnswered, Free, End, Innermost, Blank, NoKick, Idle,
        WInv, Flags, Waits, Unconnected, Thread, view, process
  <2> QED
    BY <2>1, <2>2, <2>3 DEF WInv
<1>10. ASSUME NEW box \in {"kick", "menu", "notice"}, Dismiss(box) PROVE WInv'
  <2>1. Flags'
    BY <1>10 DEF Dismiss, Innermost, Back, NoKick, process, view, settings, service,
        shown, network, WInv, Flags
  <2>2. Waits'
    BY <1>10 DEF Dismiss, Innermost, Back, NoKick, process, view, settings, service,
        shown, network, WInv, Flags, Waits, Idle, boxes
  <2>3. Unconnected'
    BY <1>10 DEF Dismiss, Innermost, Back, NoKick, process, view, settings, service,
        shown, network, WInv, Flags, Waits, Unconnected, Idle, Thread
  <2> QED
    BY <2>1, <2>2, <2>3 DEF WInv
<1>11. CASE OfferDismissed
  <2>1. Flags'
    BY <1>11 DEF OfferDismissed, Innermost, Back, view, Poll, process, settings,
        service, shown, Fails, SetUiState, Free, network, Fault, WInv, Flags
  <2>2. Waits'
    <3>1. running /\ running' = running /\ worker' = worker /\ fresh' = fresh
      BY <1>11 DEF OfferDismissed, Innermost, process
    <3>2. ~fresh
      BY <1>11 DEF OfferDismissed, Innermost, WInv, Waits
    <3>3. connecting' = connecting
      BY <1>11, PollEndsNoWait DEF OfferDismissed, WInv, Flags, view
    <3> QED
      BY <3>1, <3>2, <3>3 DEF WInv, Waits
  <2>3. Unconnected'
    <3>1. worker' = worker /\ running
      BY <1>11 DEF OfferDismissed, Innermost
    <3>2. CASE connecting /\ UNCHANGED view
      BY <3>1, <3>2 DEF WInv, Unconnected, view
    <3>3. CASE ~connecting /\ Poll
      <4>1. isHost' => connected'
        BY <3>3, PollShows DEF WInv, Flags, Unconnected
      <4>2. worker = Idle
        BY <3>1, <3>3 DEF WInv, Waits
      <4> QED
        BY <3>1, <4>1, <4>2 DEF Unconnected, Idle
    <3> QED
      BY <1>11, <3>2, <3>3 DEF OfferDismissed
  <2> QED
    BY <2>1, <2>2, <2>3 DEF WInv
<1>12. CASE ToggleSettings
  <2>1. Flags'
    BY <1>12 DEF ToggleSettings, SetUiState, process, shown, boxes, service, network,
        WInv, Flags, view
  <2>2. Waits'
    BY <1>12 DEF ToggleSettings, SetUiState, process, shown, boxes, service, network,
        WInv, Flags, Waits, Idle, view
  <2>3. Unconnected'
    BY <1>12 DEF ToggleSettings, SetUiState, process, shown, boxes, service, network,
        WInv, Flags, Waits, Unconnected, Idle, Thread, view
  <2> QED
    BY <2>1, <2>2, <2>3 DEF WInv
<1>13. CASE TogglePriority
  <2>1. Flags'
    BY <1>13 DEF TogglePriority, Clickable, SetPriority, process, view, boxes,
        network, Free, Fails, shown, Fault, WInv, Flags, service
  <2>2. Waits'
    BY <1>13 DEF TogglePriority, Clickable, SetPriority, process, view, boxes,
        network, Free, Fails, shown, Fault, WInv, Flags, Waits, Idle
  <2>3. Unconnected'
    BY <1>13 DEF TogglePriority, Clickable, SetPriority, process, view, boxes,
        network, Free, Fails, shown, Fault, WInv, Flags, Waits, Unconnected, Idle,
        Thread
  <2> QED
    BY <2>1, <2>2, <2>3 DEF WInv
<1>14. CASE OpenMenu
  <2>1. Flags'
    BY <1>14 DEF OpenMenu, Innermost, process, view, settings, service, shown,
        network, WInv, Flags
  <2>2. Waits'
    BY <1>14 DEF OpenMenu, Innermost, process, view, settings, service, shown,
        network, WInv, Flags, Waits, Idle, boxes
  <2>3. Unconnected'
    BY <1>14 DEF OpenMenu, Innermost, process, view, settings, service, shown,
        network, WInv, Flags, Waits, Unconnected, Idle, Thread
  <2> QED
    BY <2>1, <2>2, <2>3 DEF WInv
<1>15. CASE MenuDisconnect
  <2>1. Flags'
    BY <1>15 DEF MenuDisconnect, Innermost, Back, StopConnection, process, shown,
        settings, service, Thread, network, WInv, Flags, view
  <2>2. Waits'
    <3>1. running /\ running' /\ fresh' = fresh
      BY <1>15 DEF MenuDisconnect, Innermost, process
    <3>2. CASE connecting
      BY <1>15, <3>1, <3>2 DEF MenuDisconnect, StopConnection, WInv, Flags, Waits
    <3>3. CASE ~connecting
      <4>1. connecting' = TRUE /\ worker'.stage = "call" /\ ~fresh
        BY <1>15, <3>1, <3>3
        DEF MenuDisconnect, Innermost, StopConnection, Thread, WInv, Waits
      <4> QED
        BY <3>1, <4>1 DEF Waits, Idle
    <3> QED
      BY <3>2, <3>3
  <2>3. Unconnected'
    BY <1>15 DEF MenuDisconnect, Innermost, Back, StopConnection, process, shown,
        settings, service, Thread, network, WInv, Flags, Waits, Unconnected, Idle,
        view
  <2> QED
    BY <2>1, <2>2, <2>3 DEF WInv
<1>16. CASE MenuExit
  <2>1. Flags'
    BY <1>16 DEF MenuExit, Innermost, Leave, network, End, Fails, Free, NoEngine,
        Thread, Blank, Fault, NoKick, Idle, WInv, Flags, process, view, service
  <2>2. Waits'
    BY <1>16 DEF MenuExit, Innermost, Leave, network, End, Fails, Free, NoEngine,
        Thread, Blank, Fault, NoKick, Idle, WInv, Flags, Waits, view, boxes, process
  <2>3. Unconnected'
    BY <1>16 DEF MenuExit, Innermost, Leave, network, End, Fails, Free, NoEngine,
        Thread, Blank, Fault, NoKick, Idle, WInv, Flags, Waits, Unconnected, view,
        process
  <2> QED
    BY <2>1, <2>2, <2>3 DEF WInv
<1>17. CASE Close
  <2>1. Flags'
    BY <1>17 DEF Close, Clickable, Leave, network, End, Fails, Free, NoEngine, Thread,
        Blank, Fault, NoKick, Idle, WInv, Flags, process, view, service
  <2>2. Waits'
    BY <1>17 DEF Close, Clickable, Leave, network, End, Fails, Free, NoEngine, Thread,
        Blank, Fault, NoKick, Idle, WInv, Flags, Waits, view, boxes, process
  <2>3. Unconnected'
    BY <1>17 DEF Close, Clickable, Leave, network, End, Fails, Free, NoEngine, Thread,
        Blank, Fault, NoKick, Idle, WInv, Flags, Waits, Unconnected, view, process
  <2> QED
    BY <2>1, <2>2, <2>3 DEF WInv
<1>18. CASE FirstMessage
  <2>1. Flags'
    BY <1>18 DEF FirstMessage, Free, Poll, Fails, view, settings, service, SetUiState,
        shown, Fault, network, WInv, Flags, process
  <2>2. Waits'
    <3>1. running' = running /\ worker' = worker /\ fresh' = FALSE
      BY <1>18 DEF FirstMessage
    <3>2. running /\ worker = Idle /\ ~connecting
      BY <1>18 DEF FirstMessage, WInv, Waits
    <3>3. ~connecting'
      BY <1>18, <3>2, PollEndsNoWait DEF FirstMessage, WInv, Flags, view
    <3> QED
      BY <3>1, <3>2, <3>3 DEF Waits
  <2>3. Unconnected'
    <3>1. worker' = worker /\ worker = Idle /\ ~connecting
      BY <1>18 DEF FirstMessage, WInv, Waits
    <3>2. CASE UNCHANGED view
      BY <3>1, <3>2 DEF WInv, Unconnected, view
    <3>3. CASE Poll
      <4>1. isHost' => connected'
        BY <3>1, <3>3, PollShows DEF WInv, Flags, Unconnected
      <4> QED
        BY <3>1, <4>1 DEF Unconnected, Idle
    <3> QED
      BY <1>18, <3>2, <3>3 DEF FirstMessage
  <2> QED
    BY <2>1, <2>2, <2>3 DEF WInv
<1>19. CASE Timer
  <2>1. Flags'
    BY <1>19 DEF Timer, Poll, process, settings, boxes, service, Fails, SetUiState,
        shown, Free, network, Fault, WInv, Flags, view
  <2>2. Waits'
    BY <1>19 DEF Timer, Poll, process, settings, boxes, service, Fails, SetUiState,
        shown, Free, network, Fault, WInv, Flags, Waits, Idle, view
  <2>3. Unconnected'
    <3>1. isHost' => connected'
      BY <1>19, PollShows DEF Timer, WInv, Flags, Unconnected
    <3>2. worker' = worker /\ worker = Idle
      BY <1>19 DEF Timer, WInv, Waits
    <3> QED
      BY <3>1, <3>2 DEF Unconnected, Idle
  <2> QED
    BY <2>1, <2>2, <2>3 DEF WInv
<1>20. CASE Unanswered
  <2>1. Flags'
    BY <1>20 DEF Unanswered, Fails, Answered, process, view, settings, boxes, service,
        Free, Fault, Thread, shown, network, WInv, Flags
  <2>2. Waits'
    BY <1>20 DEF Unanswered, Fails, Answered, process, view, settings, boxes, service,
        Free, Fault, Thread, shown, network, WInv, Flags, Waits, Idle
  <2>3. Unconnected'
    BY <1>20 DEF Unanswered, Fails, Answered, process, view, settings, boxes, service,
        Free, Fault, Thread, shown, network, WInv, Flags, Waits, Unconnected, Idle
  <2> QED
    BY <2>1, <2>2, <2>3 DEF WInv
<1>21. CASE ConnectTaken
  <2>1. Flags'
    BY <1>21 DEF ConnectTaken, Free, Thread, Answered, process, view, settings, boxes,
        network, shown, WInv, Flags, service
  <2>2. Waits'
    BY <1>21 DEF ConnectTaken, Free, Thread, Answered, process, view, settings, boxes,
        network, shown, WInv, Flags, Waits, Idle
  <2>3. Unconnected'
    BY <1>21 DEF ConnectTaken, Free, Thread, Answered, process, view, settings, boxes,
        network, shown, WInv, Flags, Waits, Unconnected, Idle
  <2> QED
    BY <2>1, <2>2, <2>3 DEF WInv
<1>22. CASE DisconnectTaken
  <2>1. Flags'
    BY <1>22 DEF DisconnectTaken, Free, NoEngine, Answered, process, view, settings,
        boxes, Thread, shown, WInv, Flags, service, network
  <2>2. Waits'
    BY <1>22 DEF DisconnectTaken, Free, NoEngine, Answered, process, view, settings,
        boxes, Thread, shown, WInv, Flags, Waits, Idle
  <2>3. Unconnected'
    BY <1>22 DEF DisconnectTaken, Free, NoEngine, Answered, process, view, settings,
        boxes, Thread, shown, WInv, Flags, Waits, Unconnected, Idle
  <2> QED
    BY <2>1, <2>2, <2>3 DEF WInv
<1>23. CASE ConnectFailed
  <2>1. Flags'
    BY <1>23 DEF ConnectFailed, SetUiState, Idle, process, shown, settings, service,
        network, WInv, Flags, view
  <2>2. Waits'
    BY <1>23 DEF ConnectFailed, SetUiState, Idle, process, shown, settings, service,
        network, WInv, Flags, Waits, view, boxes
  <2>3. Unconnected'
    BY <1>23 DEF ConnectFailed, SetUiState, Idle, process, shown, settings, service,
        network, WInv, Flags, Waits, Unconnected, Thread, view
  <2> QED
    BY <2>1, <2>2, <2>3 DEF WInv
<1>24. CASE ConnectDone
  <2>1. Flags'
    BY <1>24 DEF ConnectDone, SetPriority, Poll, Idle, process, settings, boxes,
        network, Free, Fails, SetUiState, shown, Fault, WInv, Flags, view, service
  <2>2. Waits'
    BY <1>24 DEF ConnectDone, SetPriority, Poll, Idle, process, settings, boxes,
        network, Free, Fails, SetUiState, shown, Fault, WInv, Flags, Waits, view
  <2>3. Unconnected'
    <3>1. isHost' => connected'
      BY <1>24, PollShows DEF ConnectDone, WInv, Flags, Unconnected
    <3>2. worker' = Idle
      BY <1>24 DEF ConnectDone
    <3> QED
      BY <3>1, <3>2 DEF Unconnected, Idle
  <2> QED
    BY <2>1, <2>2, <2>3 DEF WInv
<1>25. CASE DisconnectDone
  <2>1. Flags'
    BY <1>25 DEF DisconnectDone, SetUiState, Idle, process, shown, settings, service,
        network, WInv, Flags, view
  <2>2. Waits'
    BY <1>25 DEF DisconnectDone, SetUiState, Idle, process, shown, settings, service,
        network, WInv, Flags, Waits, view, boxes
  <2>3. Unconnected'
    BY <1>25 DEF DisconnectDone, SetUiState, Idle, process, shown, settings, service,
        network, WInv, Flags, Waits, Unconnected, Thread, view
  <2> QED
    BY <2>1, <2>2, <2>3 DEF WInv
<1>26. CASE EngineStarts
  <2>1. Flags'
    BY <1>26 DEF EngineStarts, network, Answered, process, view, settings, boxes,
        Thread, shown, WInv, Flags, service
  <2>2. Waits'
    BY <1>26 DEF EngineStarts, network, Answered, process, view, settings, boxes,
        Thread, shown, WInv, Flags, Waits, Idle
  <2>3. Unconnected'
    BY <1>26 DEF EngineStarts, network, Answered, process, view, settings, boxes,
        Thread, shown, WInv, Flags, Waits, Unconnected, Idle
  <2> QED
    BY <2>1, <2>2, <2>3 DEF WInv
<1>27. CASE RoomChanges
  <2>1. Flags'
    BY <1>27 DEF RoomChanges, process, view, settings, boxes, shown, WInv, Flags,
        service, network
  <2>2. Waits'
    BY <1>27 DEF RoomChanges, process, view, settings, boxes, shown, WInv, Flags,
        Waits, Idle
  <2>3. Unconnected'
    BY <1>27 DEF RoomChanges, process, view, settings, boxes, shown, WInv, Flags,
        Waits, Unconnected, Idle, Thread
  <2> QED
    BY <2>1, <2>2, <2>3 DEF WInv
<1>28. CASE EngineExits
  <2>1. Flags'
    BY <1>28 DEF EngineExits, Fault, NoEngine, process, view, settings, boxes, shown,
        WInv, Flags, service, network
  <2>2. Waits'
    BY <1>28 DEF EngineExits, Fault, NoEngine, process, view, settings, boxes, shown,
        WInv, Flags, Waits, Idle
  <2>3. Unconnected'
    BY <1>28 DEF EngineExits, Fault, NoEngine, process, view, settings, boxes, shown,
        WInv, Flags, Waits, Unconnected, Idle, Thread
  <2> QED
    BY <2>1, <2>2, <2>3 DEF WInv
<1>29. CASE EngineHangs
  <2>1. Flags'
    BY <1>29 DEF EngineHangs, Fault, process, view, settings, boxes, shown, WInv,
        Flags, service, network
  <2>2. Waits'
    BY <1>29 DEF EngineHangs, Fault, process, view, settings, boxes, shown, WInv,
        Flags, Waits, Idle
  <2>3. Unconnected'
    BY <1>29 DEF EngineHangs, Fault, process, view, settings, boxes, shown, WInv,
        Flags, Waits, Unconnected, Idle, Thread
  <2> QED
    BY <2>1, <2>2, <2>3 DEF WInv
<1>30. CASE EngineAnswers
  <2>1. Flags'
    BY <1>30 DEF EngineAnswers, process, view, settings, boxes, shown, WInv, Flags,
        service, network
  <2>2. Waits'
    BY <1>30 DEF EngineAnswers, process, view, settings, boxes, shown, WInv, Flags,
        Waits, Idle
  <2>3. Unconnected'
    BY <1>30 DEF EngineAnswers, process, view, settings, boxes, shown, WInv, Flags,
        Waits, Unconnected, Idle, Thread
  <2> QED
    BY <2>1, <2>2, <2>3 DEF WInv
<1>31. CASE ServiceStops
  <2>1. Flags'
    BY <1>31 DEF ServiceStops, Fault, NoEngine, Answered, process, view, settings,
        boxes, Thread, shown, WInv, Flags, service, network
  <2>2. Waits'
    BY <1>31 DEF ServiceStops, Fault, NoEngine, Answered, process, view, settings,
        boxes, Thread, shown, WInv, Flags, Waits, Idle
  <2>3. Unconnected'
    BY <1>31 DEF ServiceStops, Fault, NoEngine, Answered, process, view, settings,
        boxes, Thread, shown, WInv, Flags, Waits, Unconnected, Idle
  <2> QED
    BY <2>1, <2>2, <2>3 DEF WInv
<1>32. CASE ServiceStarts
  <2>1. Flags'
    BY <1>32 DEF ServiceStarts, process, view, settings, boxes, network, shown, WInv,
        Flags, service
  <2>2. Waits'
    BY <1>32 DEF ServiceStarts, process, view, settings, boxes, network, shown, WInv,
        Flags, Waits, Idle
  <2>3. Unconnected'
    BY <1>32 DEF ServiceStarts, process, view, settings, boxes, network, shown, WInv,
        Flags, Waits, Unconnected, Idle, Thread
  <2> QED
    BY <2>1, <2>2, <2>3 DEF WInv
<1>33. CASE CalmDown
  <2>1. Flags'
    BY <1>33 DEF CalmDown, process, view, settings, boxes, service, shown, network,
        WInv, Flags
  <2>2. Waits'
    BY <1>33 DEF CalmDown, process, view, settings, boxes, service, shown, network,
        WInv, Flags, Waits, Idle
  <2>3. Unconnected'
    BY <1>33 DEF CalmDown, process, view, settings, boxes, service, shown, network,
        WInv, Flags, Waits, Unconnected, Idle, Thread
  <2> QED
    BY <2>1, <2>2, <2>3 DEF WInv
<1>34. CASE UNCHANGED vars
  <2>1. Flags'
    BY <1>34 DEF vars, process, shown, view, settings, boxes, network, service, WInv,
        Flags
  <2>2. Waits'
    BY <1>34 DEF vars, process, shown, view, settings, boxes, network, service, WInv,
        Flags, Waits, Idle
  <2>3. Unconnected'
    BY <1>34 DEF vars, process, shown, view, settings, boxes, network, service, WInv,
        Flags, Waits, Unconnected, Idle, Thread
  <2> QED
    BY <2>1, <2>2, <2>3 DEF WInv
<1> QED
  BY <1>1, <1>2, <1>3, <1>4, <1>5, <1>6, <1>7, <1>8, <1>9, <1>10, <1>11, <1>12, <1>13,
      <1>14, <1>15, <1>16, <1>17, <1>18, <1>19, <1>20, <1>21, <1>22, <1>23, <1>24,
      <1>25, <1>26, <1>27, <1>28, <1>29, <1>30, <1>31, <1>32, <1>33, <1>34
      DEF Next, User, Calls, Outcomes

LEMMA WAlways == Spec => []WInv
<1>1. WInv /\ [Next]_vars => WInv'
  BY WStep
<1> QED
  BY <1>1, WInit, PTL DEF Spec

\* The window waits exactly as long as its one thread is at work.
THEOREM OneWorkerAlways == Spec => []OneWorker
<1>1. WInv => OneWorker
  BY DEF WInv, Waits, OneWorker
<1> QED
  BY <1>1, WAlways, PTL

-----------------------------------------------------------------------------
(* Rooms *)

\* The service that starts an engine, or has stopped, has no room to show.
NoRoom ==
    /\ busy => engine = "off" /\ ~connected /\ ~isHost /\ kick = NoKick
    /\ ~up => engine = "off" /\ ~busy

\* A question about a node is in a box, and is asked before a thread connects.
Asked ==
    /\ modal \in Seq({"kick", "menu", "notice", "offer"})
    /\ kick # NoKick => \E i \in 1 .. Len(modal) : modal[i] = "kick"
    /\ worker.kind = "connect" => kick = NoKick

Hosts == engine # "off" /\ (isHost \/ kick # NoKick) => host

RInv == NoRoom /\ Asked /\ Hosts

LEMMA RInit == Init => RInv
BY DEF Init, RInv, NoRoom, Asked, Hosts, NoKick, Idle

LEMMA RStep == ASSUME WInv, RInv, [Next]_vars PROVE RInv'
<1>1. CASE Open
  <2>1. NoRoom'
    BY <1>1 DEF Open, Blank, service, NoKick, Idle, network, RInv, NoRoom, Asked,
        WInv, Waits, Unconnected, Thread, process, view, boxes
  <2>2. Asked'
    BY <1>1 DEF Open, Blank, service, NoKick, Idle, network, RInv, Asked, WInv, Waits,
        Unconnected, Thread, process, view, boxes
  <2>3. Hosts'
    BY <1>1 DEF Open, Blank, service, NoKick, Idle, network, RInv, NoRoom, Asked,
        Hosts, WInv, Flags, Waits, Unconnected, process, view, boxes
  <2> QED
    BY <2>1, <2>2, <2>3 DEF RInv
<1>2. CASE BadInput
  <2>1. NoRoom'
    BY <1>2 DEF BadInput, Clickable, process, view, settings, service, shown, network,
        RInv, NoRoom, Asked, WInv, Waits, Unconnected, NoKick, Idle, Thread, boxes
  <2>2. Asked'
    BY <1>2 DEF BadInput, Clickable, process, view, settings, service, shown, network,
        RInv, Asked, WInv, Waits, Unconnected, NoKick, Idle, Thread, boxes
  <2>3. Hosts'
    BY <1>2 DEF BadInput, Clickable, process, view, settings, service, shown, network,
        RInv, NoRoom, Asked, Hosts, WInv, Flags, Waits, Unconnected, NoKick, boxes
  <2> QED
    BY <2>1, <2>2, <2>3 DEF RInv
<1>3. CASE StartConnection
  <2>1. NoRoom'
    BY <1>3 DEF StartConnection, Clickable, SetUiState, Thread, process, shown,
        settings, boxes, service, network, RInv, NoRoom, Asked, WInv, Waits,
        Unconnected, NoKick, Idle, view
  <2>2. Asked'
    BY <1>3 DEF StartConnection, Clickable, SetUiState, Thread, process, shown,
        settings, boxes, service, network, RInv, Asked, WInv, Waits, Unconnected,
        NoKick, Idle, view
  <2>3. Hosts'
    BY <1>3 DEF StartConnection, Clickable, SetUiState, Thread, process, shown,
        settings, boxes, service, network, RInv, NoRoom, Asked, Hosts, WInv, Flags,
        Waits, Unconnected, NoKick, view
  <2> QED
    BY <2>1, <2>2, <2>3 DEF RInv
<1>4. CASE Disconnect
  <2>1. NoRoom'
    BY <1>4 DEF Disconnect, Clickable, StopConnection, process, shown, settings,
        boxes, service, Thread, network, RInv, NoRoom, Asked, WInv, Waits,
        Unconnected, NoKick, Idle, view
  <2>2. Asked'
    BY <1>4 DEF Disconnect, Clickable, StopConnection, process, shown, settings,
        boxes, service, Thread, network, RInv, Asked, WInv, Waits, Unconnected,
        NoKick, Idle, view
  <2>3. Hosts'
    BY <1>4 DEF Disconnect, Clickable, StopConnection, process, shown, settings,
        boxes, service, Thread, network, RInv, NoRoom, Asked, Hosts, WInv, Flags,
        Waits, Unconnected, NoKick, view
  <2> QED
    BY <2>1, <2>2, <2>3 DEF RInv
<1>5. CASE Scroll
  <2>1. NoRoom'
    BY <1>5 DEF Scroll, Clickable, process, settings, boxes, service, network, RInv,
        NoRoom, Asked, WInv, Waits, Unconnected, NoKick, Idle, Thread, view
  <2>2. Asked'
    BY <1>5 DEF Scroll, Clickable, process, settings, boxes, service, network, RInv,
        Asked, WInv, Waits, Unconnected, NoKick, Idle, Thread, view
  <2>3. Hosts'
    BY <1>5 DEF Scroll, Clickable, process, settings, boxes, service, network, RInv,
        NoRoom, Asked, Hosts, WInv, Flags, Waits, Unconnected, NoKick, view
  <2> QED
    BY <2>1, <2>2, <2>3 DEF RInv
<1>6. CASE AskKick
  <2>1. NoRoom'
    BY <1>6 DEF AskKick, Clickable, process, view, settings, service, shown, network,
        RInv, NoRoom, Asked, WInv, Waits, Unconnected, NoKick, Idle, Thread, boxes
  <2>2. Asked'
    BY <1>6 DEF AskKick, Clickable, process, view, settings, service, shown, network,
        RInv, Asked, WInv, Waits, Unconnected, NoKick, Idle, Thread, boxes
  <2>3. Hosts'
    BY <1>6 DEF AskKick, Clickable, process, view, settings, service, shown, network,
        RInv, NoRoom, Asked, Hosts, WInv, Flags, Waits, Unconnected, NoKick, boxes
  <2> QED
    BY <2>1, <2>2, <2>3 DEF RInv
<1>7. CASE KickFails
  <2>1. NoRoom'
    BY <1>7 DEF KickFails, KickAnswered, Fails, Back, NoKick, process, view, settings,
        service, Innermost, Free, Fault, shown, network, RInv, NoRoom, Asked, WInv,
        Waits, Unconnected, Idle, Thread, boxes
  <2>2. Asked'
    BY <1>7 DEF KickFails, KickAnswered, Fails, Back, NoKick, process, view, settings,
        service, Innermost, Free, Fault, shown, network, RInv, Asked, WInv, Waits,
        Unconnected, Idle, Thread, boxes
  <2>3. Hosts'
    BY <1>7 DEF KickFails, KickAnswered, Fails, Back, NoKick, process, view, settings,
        service, Innermost, Free, Fault, shown, network, RInv, NoRoom, Asked, Hosts,
        WInv, Flags, Waits, Unconnected, boxes
  <2> QED
    BY <2>1, <2>2, <2>3 DEF RInv
<1>8. CASE KickWorks
  <2>1. NoRoom'
    BY <1>8 DEF KickWorks, KickAnswered, Free, Back, NoKick, process, settings,
        Innermost, RInv, NoRoom, Asked, WInv, Waits, Unconnected, Idle, Thread, view,
        boxes, service, network
  <2>2. Asked'
    BY <1>8 DEF KickWorks, KickAnswered, Free, Back, NoKick, process, settings,
        Innermost, RInv, Asked, WInv, Waits, Unconnected, Idle, Thread, view, boxes
  <2>3. Hosts'
    BY <1>8 DEF KickWorks, KickAnswered, Free, Back, NoKick, process, settings,
        Innermost, RInv, NoRoom, Asked, Hosts, WInv, Flags, Waits, Unconnected, view,
        boxes, service, network
  <2> QED
    BY <2>1, <2>2, <2>3 DEF RInv
<1>9. CASE KickBreaks
  <2>1. NoRoom'
    BY <1>9 DEF KickBreaks, KickAnswered, Free, End, Innermost, Blank, NoKick, Idle,
        RInv, NoRoom, Asked, WInv, Waits, Unconnected, Thread, process, view, boxes,
        service, network
  <2>2. Asked'
    BY <1>9 DEF KickBreaks, KickAnswered, Free, End, Innermost, Blank, NoKick, Idle,
        RInv, Asked, WInv, Waits, Unconnected, Thread, process, view, boxes
  <2>3. Hosts'
    BY <1>9 DEF KickBreaks, KickAnswered, Free, End, Innermost, Blank, NoKick, Idle,
        RInv, NoRoom, Asked, Hosts, WInv, Flags, Waits, Unconnected, process, view,
        boxes, service, network
  <2> QED
    BY <2>1, <2>2, <2>3 DEF RInv
<1>10. ASSUME NEW box \in {"kick", "menu", "notice"}, Dismiss(box) PROVE RInv'
  <2>1. NoRoom'
    BY <1>10 DEF Dismiss, Innermost, Back, NoKick, process, view, settings, service,
        shown, network, RInv, NoRoom, Asked, WInv, Waits, Unconnected, Idle, Thread,
        boxes
  <2>2. Asked'
    BY <1>10 DEF Dismiss, Innermost, Back, NoKick, process, view, settings, service,
        shown, network, RInv, Asked, WInv, Waits, Unconnected, Idle, Thread, boxes
  <2>3. Hosts'
    BY <1>10 DEF Dismiss, Innermost, Back, NoKick, process, view, settings, service,
        shown, network, RInv, NoRoom, Asked, Hosts, WInv, Flags, Waits, Unconnected,
        boxes
  <2> QED
    BY <2>1, <2>2, <2>3 DEF RInv
<1>11. CASE OfferDismissed
  <2>1. NoRoom'
    <3>1. UNCHANGED <<engine, busy, up, kick>>
      BY <1>11 DEF OfferDismissed, service, network
    <3>2. CASE UNCHANGED view
      BY <3>1, <3>2 DEF RInv, NoRoom, view
    <3>3. CASE Poll
      BY <3>1, <3>3, BusyPoll DEF RInv, NoRoom
    <3> QED
      BY <1>11, <3>2, <3>3 DEF OfferDismissed
  <2>2. Asked'
    BY <1>11 DEF OfferDismissed, Innermost, Back, RInv, Asked
  <2>3. Hosts'
    <3>1. UNCHANGED <<engine, host, kick>>
      BY <1>11 DEF OfferDismissed, service, network
    <3>2. CASE UNCHANGED view
      BY <3>1, <3>2 DEF RInv, Hosts, view
    <3>3. CASE Poll
      BY <3>1, <3>3 DEF Poll, SetUiState, RInv, Hosts
    <3> QED
      BY <1>11, <3>2, <3>3 DEF OfferDismissed
  <2> QED
    BY <2>1, <2>2, <2>3 DEF RInv
<1>12. CASE ToggleSettings
  <2>1. NoRoom'
    BY <1>12 DEF ToggleSettings, SetUiState, process, shown, boxes, service, network,
        RInv, NoRoom, Asked, WInv, Waits, Unconnected, NoKick, Idle, Thread, view
  <2>2. Asked'
    BY <1>12 DEF ToggleSettings, SetUiState, process, shown, boxes, service, network,
        RInv, Asked, WInv, Waits, Unconnected, NoKick, Idle, Thread, view
  <2>3. Hosts'
    BY <1>12 DEF ToggleSettings, SetUiState, process, shown, boxes, service, network,
        RInv, NoRoom, Asked, Hosts, WInv, Flags, Waits, Unconnected, NoKick, view
  <2> QED
    BY <2>1, <2>2, <2>3 DEF RInv
<1>13. CASE TogglePriority
  <2>1. NoRoom'
    BY <1>13 DEF TogglePriority, Clickable, SetPriority, process, view, boxes,
        network, Free, Fails, shown, Fault, RInv, NoRoom, Asked, WInv, Waits,
        Unconnected, NoKick, Idle, Thread, service
  <2>2. Asked'
    BY <1>13 DEF TogglePriority, Clickable, SetPriority, process, view, boxes,
        network, Free, Fails, shown, Fault, RInv, Asked, WInv, Waits, Unconnected,
        NoKick, Idle, Thread
  <2>3. Hosts'
    BY <1>13 DEF TogglePriority, Clickable, SetPriority, process, view, boxes,
        network, Free, Fails, shown, Fault, RInv, NoRoom, Asked, Hosts, WInv, Flags,
        Waits, Unconnected, NoKick, service
  <2> QED
    BY <2>1, <2>2, <2>3 DEF RInv
<1>14. CASE OpenMenu
  <2>1. NoRoom'
    BY <1>14 DEF OpenMenu, Innermost, process, view, settings, service, shown,
        network, RInv, NoRoom, Asked, WInv, Waits, Unconnected, NoKick, Idle, Thread,
        boxes
  <2>2. Asked'
    BY <1>14 DEF OpenMenu, Innermost, process, view, settings, service, shown,
        network, RInv, Asked, WInv, Waits, Unconnected, NoKick, Idle, Thread, boxes
  <2>3. Hosts'
    BY <1>14 DEF OpenMenu, Innermost, process, view, settings, service, shown,
        network, RInv, NoRoom, Asked, Hosts, WInv, Flags, Waits, Unconnected, NoKick,
        boxes
  <2> QED
    BY <2>1, <2>2, <2>3 DEF RInv
<1>15. CASE MenuDisconnect
  <2>1. NoRoom'
    BY <1>15 DEF MenuDisconnect, Innermost, Back, StopConnection, process, shown,
        settings, service, Thread, network, RInv, NoRoom, Asked, WInv, Waits,
        Unconnected, NoKick, Idle, view, boxes
  <2>2. Asked'
    BY <1>15 DEF MenuDisconnect, Innermost, Back, StopConnection, process, shown,
        settings, service, Thread, network, RInv, Asked, WInv, Waits, Unconnected,
        NoKick, Idle, view, boxes
  <2>3. Hosts'
    BY <1>15 DEF MenuDisconnect, Innermost, Back, StopConnection, process, shown,
        settings, service, Thread, network, RInv, NoRoom, Asked, Hosts, WInv, Flags,
        Waits, Unconnected, NoKick, view, boxes
  <2> QED
    BY <2>1, <2>2, <2>3 DEF RInv
<1>16. CASE MenuExit
  <2>1. NoRoom'
    BY <1>16 DEF MenuExit, Innermost, Leave, network, End, Fails, Free, NoEngine,
        Thread, Blank, Fault, NoKick, Idle, RInv, NoRoom, Asked, WInv, Waits,
        Unconnected, process, view, boxes, service
  <2>2. Asked'
    BY <1>16 DEF MenuExit, Innermost, Leave, network, End, Fails, Free, NoEngine,
        Thread, Blank, Fault, NoKick, Idle, RInv, Asked, WInv, Waits, Unconnected,
        process, view, boxes
  <2>3. Hosts'
    BY <1>16 DEF MenuExit, Innermost, Leave, network, End, Fails, Free, NoEngine,
        Thread, Blank, Fault, NoKick, Idle, RInv, NoRoom, Asked, Hosts, WInv, Flags,
        Waits, Unconnected, process, view, boxes, service
  <2> QED
    BY <2>1, <2>2, <2>3 DEF RInv
<1>17. CASE Close
  <2>1. NoRoom'
    BY <1>17 DEF Close, Clickable, Leave, network, End, Fails, Free, NoEngine, Thread,
        Blank, Fault, NoKick, Idle, RInv, NoRoom, Asked, WInv, Waits, Unconnected,
        process, view, boxes, service
  <2>2. Asked'
    BY <1>17 DEF Close, Clickable, Leave, network, End, Fails, Free, NoEngine, Thread,
        Blank, Fault, NoKick, Idle, RInv, Asked, WInv, Waits, Unconnected, process,
        view, boxes
  <2>3. Hosts'
    BY <1>17 DEF Close, Clickable, Leave, network, End, Fails, Free, NoEngine, Thread,
        Blank, Fault, NoKick, Idle, RInv, NoRoom, Asked, Hosts, WInv, Flags, Waits,
        Unconnected, process, view, boxes, service
  <2> QED
    BY <2>1, <2>2, <2>3 DEF RInv
<1>18. CASE FirstMessage
  <2>1. NoRoom'
    <3>1. UNCHANGED <<engine, busy, up, kick>>
      BY <1>18 DEF FirstMessage, service, network
    <3>2. CASE UNCHANGED view
      BY <3>1, <3>2 DEF RInv, NoRoom, view
    <3>3. CASE Poll
      BY <3>1, <3>3, BusyPoll DEF RInv, NoRoom
    <3> QED
      BY <1>18, <3>2, <3>3 DEF FirstMessage
  <2>2. Asked'
    <3>1. modal = <<>> /\ UNCHANGED <<kick, worker>>
      BY <1>18 DEF FirstMessage, WInv, Waits
    <3>2. kick = NoKick
      BY <3>1 DEF RInv, Asked
    <3>3. modal' = modal \/ modal' = <<"offer">>
      BY <1>18, <3>1 DEF FirstMessage
    <3>4. modal' \in Seq({"kick", "menu", "notice", "offer"})
      <4>1. modal \in Seq({"kick", "menu", "notice", "offer"})
        BY DEF RInv, Asked
      <4>2. <<"offer">> \in Seq({"kick", "menu", "notice", "offer"})
        OBVIOUS
      <4> QED
        BY <3>3, <4>1, <4>2
    <3>5. kick' = NoKick'
      BY <3>1, <3>2 DEF NoKick
    <3> QED
      BY <3>4, <3>5 DEF Asked
  <2>3. Hosts'
    BY <1>18 DEF FirstMessage, Free, Poll, Fails, view, settings, service, SetUiState,
        shown, Fault, network, RInv, NoRoom, Asked, Hosts, WInv, Flags, Waits,
        Unconnected, NoKick, process, boxes
  <2> QED
    BY <2>1, <2>2, <2>3 DEF RInv
<1>19. CASE Timer
  <2>1. NoRoom'
    BY <1>19 DEF Timer, Poll, process, settings, boxes, service, Fails, SetUiState,
        shown, Free, network, Fault, RInv, NoRoom, Asked, WInv, Waits, Unconnected,
        NoKick, Idle, Thread, view
  <2>2. Asked'
    BY <1>19 DEF Timer, Poll, process, settings, boxes, service, Fails, SetUiState,
        shown, Free, network, Fault, RInv, Asked, WInv, Waits, Unconnected, NoKick,
        Idle, Thread, view
  <2>3. Hosts'
    BY <1>19 DEF Timer, Poll, process, settings, boxes, service, Fails, SetUiState,
        shown, Free, network, Fault, RInv, NoRoom, Asked, Hosts, WInv, Flags, Waits,
        Unconnected, NoKick, view
  <2> QED
    BY <2>1, <2>2, <2>3 DEF RInv
<1>20. CASE Unanswered
  <2>1. NoRoom'
    BY <1>20 DEF Unanswered, Fails, Answered, process, view, settings, boxes, service,
        Free, Fault, Thread, shown, network, RInv, NoRoom, Asked, WInv, Waits,
        Unconnected, NoKick, Idle
  <2>2. Asked'
    BY <1>20 DEF Unanswered, Fails, Answered, process, view, settings, boxes, service,
        Free, Fault, Thread, shown, network, RInv, Asked, WInv, Waits, Unconnected,
        NoKick, Idle
  <2>3. Hosts'
    BY <1>20 DEF Unanswered, Fails, Answered, process, view, settings, boxes, service,
        Free, Fault, Thread, shown, network, RInv, NoRoom, Asked, Hosts, WInv, Flags,
        Waits, Unconnected, NoKick
  <2> QED
    BY <2>1, <2>2, <2>3 DEF RInv
<1>21. CASE ConnectTaken
  <2>1. NoRoom'
    BY <1>21 DEF ConnectTaken, Free, Thread, Answered, process, view, settings, boxes,
        network, shown, RInv, NoRoom, Asked, WInv, Waits, Unconnected, NoKick, Idle,
        service
  <2>2. Asked'
    BY <1>21 DEF ConnectTaken, Free, Thread, Answered, process, view, settings, boxes,
        network, shown, RInv, Asked, WInv, Waits, Unconnected, NoKick, Idle
  <2>3. Hosts'
    BY <1>21 DEF ConnectTaken, Free, Thread, Answered, process, view, settings, boxes,
        network, shown, RInv, NoRoom, Asked, Hosts, WInv, Flags, Waits, Unconnected,
        NoKick, service
  <2> QED
    BY <2>1, <2>2, <2>3 DEF RInv
<1>22. CASE DisconnectTaken
  <2>1. NoRoom'
    BY <1>22 DEF DisconnectTaken, Free, NoEngine, Answered, process, view, settings,
        boxes, Thread, shown, RInv, NoRoom, Asked, WInv, Waits, Unconnected, NoKick,
        Idle, service, network
  <2>2. Asked'
    BY <1>22 DEF DisconnectTaken, Free, NoEngine, Answered, process, view, settings,
        boxes, Thread, shown, RInv, Asked, WInv, Waits, Unconnected, NoKick, Idle
  <2>3. Hosts'
    BY <1>22 DEF DisconnectTaken, Free, NoEngine, Answered, process, view, settings,
        boxes, Thread, shown, RInv, NoRoom, Asked, Hosts, WInv, Flags, Waits,
        Unconnected, NoKick, service, network
  <2> QED
    BY <2>1, <2>2, <2>3 DEF RInv
<1>23. CASE ConnectFailed
  <2>1. NoRoom'
    BY <1>23 DEF ConnectFailed, SetUiState, Idle, process, shown, settings, service,
        network, RInv, NoRoom, Asked, WInv, Waits, Unconnected, NoKick, Thread, view,
        boxes
  <2>2. Asked'
    BY <1>23 DEF ConnectFailed, SetUiState, Idle, process, shown, settings, service,
        network, RInv, Asked, WInv, Waits, Unconnected, NoKick, Thread, view, boxes
  <2>3. Hosts'
    BY <1>23 DEF ConnectFailed, SetUiState, Idle, process, shown, settings, service,
        network, RInv, NoRoom, Asked, Hosts, WInv, Flags, Waits, Unconnected, NoKick,
        view, boxes
  <2> QED
    BY <2>1, <2>2, <2>3 DEF RInv
<1>24. CASE ConnectDone
  <2>1. NoRoom'
    BY <1>24 DEF ConnectDone, SetPriority, Poll, Idle, process, settings, boxes,
        network, Free, Fails, SetUiState, shown, Fault, RInv, NoRoom, Asked, WInv,
        Waits, Unconnected, NoKick, Thread, view, service
  <2>2. Asked'
    BY <1>24 DEF ConnectDone, SetPriority, Poll, Idle, process, settings, boxes,
        network, Free, Fails, SetUiState, shown, Fault, RInv, Asked, WInv, Waits,
        Unconnected, NoKick, Thread, view
  <2>3. Hosts'
    BY <1>24 DEF ConnectDone, SetPriority, Poll, Idle, process, settings, boxes,
        network, Free, Fails, SetUiState, shown, Fault, RInv, NoRoom, Asked, Hosts,
        WInv, Flags, Waits, Unconnected, NoKick, view, service
  <2> QED
    BY <2>1, <2>2, <2>3 DEF RInv
<1>25. CASE DisconnectDone
  <2>1. NoRoom'
    BY <1>25 DEF DisconnectDone, SetUiState, Idle, process, shown, settings, service,
        network, RInv, NoRoom, Asked, WInv, Waits, Unconnected, NoKick, Thread, view,
        boxes
  <2>2. Asked'
    BY <1>25 DEF DisconnectDone, SetUiState, Idle, process, shown, settings, service,
        network, RInv, Asked, WInv, Waits, Unconnected, NoKick, Thread, view, boxes
  <2>3. Hosts'
    BY <1>25 DEF DisconnectDone, SetUiState, Idle, process, shown, settings, service,
        network, RInv, NoRoom, Asked, Hosts, WInv, Flags, Waits, Unconnected, NoKick,
        view, boxes
  <2> QED
    BY <2>1, <2>2, <2>3 DEF RInv
<1>26. CASE EngineStarts
  <2>1. NoRoom'
    BY <1>26 DEF EngineStarts, network, Answered, process, view, settings, boxes,
        Thread, shown, RInv, NoRoom, Asked, WInv, Waits, Unconnected, NoKick, Idle,
        service
  <2>2. Asked'
    BY <1>26 DEF EngineStarts, network, Answered, process, view, settings, boxes,
        Thread, shown, RInv, Asked, WInv, Waits, Unconnected, NoKick, Idle
  <2>3. Hosts'
    BY <1>26 DEF EngineStarts, network, Answered, process, view, settings, boxes,
        Thread, shown, RInv, NoRoom, Asked, Hosts, WInv, Flags, Waits, Unconnected,
        NoKick, service
  <2> QED
    BY <2>1, <2>2, <2>3 DEF RInv
<1>27. CASE RoomChanges
  <2>1. NoRoom'
    BY <1>27 DEF RoomChanges, process, view, settings, boxes, shown, RInv, NoRoom,
        Asked, WInv, Waits, Unconnected, NoKick, Idle, Thread, service, network
  <2>2. Asked'
    BY <1>27 DEF RoomChanges, process, view, settings, boxes, shown, RInv, Asked,
        WInv, Waits, Unconnected, NoKick, Idle, Thread
  <2>3. Hosts'
    <3>1. UNCHANGED <<engine, isHost, kick>>
      BY <1>27 DEF RoomChanges, view, boxes
    <3>2. host' = host \/ host' = TRUE
      BY <1>27 DEF RoomChanges
    <3>3. CASE host' = host
      BY <3>1, <3>3 DEF RInv, Hosts, NoKick
    <3>4. CASE host' = TRUE
      BY <3>4 DEF Hosts
    <3> QED
      BY <3>2, <3>3, <3>4
  <2> QED
    BY <2>1, <2>2, <2>3 DEF RInv
<1>28. CASE EngineExits
  <2>1. NoRoom'
    BY <1>28 DEF EngineExits, Fault, NoEngine, process, view, settings, boxes, shown,
        RInv, NoRoom, Asked, WInv, Waits, Unconnected, NoKick, Idle, Thread, service,
        network
  <2>2. Asked'
    BY <1>28 DEF EngineExits, Fault, NoEngine, process, view, settings, boxes, shown,
        RInv, Asked, WInv, Waits, Unconnected, NoKick, Idle, Thread
  <2>3. Hosts'
    BY <1>28 DEF EngineExits, Fault, NoEngine, process, view, settings, boxes, shown,
        RInv, NoRoom, Asked, Hosts, WInv, Flags, Waits, Unconnected, NoKick, service,
        network
  <2> QED
    BY <2>1, <2>2, <2>3 DEF RInv
<1>29. CASE EngineHangs
  <2>1. NoRoom'
    BY <1>29 DEF EngineHangs, Fault, process, view, settings, boxes, shown, RInv,
        NoRoom, Asked, WInv, Waits, Unconnected, NoKick, Idle, Thread, service,
        network
  <2>2. Asked'
    BY <1>29 DEF EngineHangs, Fault, process, view, settings, boxes, shown, RInv,
        Asked, WInv, Waits, Unconnected, NoKick, Idle, Thread
  <2>3. Hosts'
    BY <1>29 DEF EngineHangs, Fault, process, view, settings, boxes, shown, RInv,
        NoRoom, Asked, Hosts, WInv, Flags, Waits, Unconnected, NoKick, service,
        network
  <2> QED
    BY <2>1, <2>2, <2>3 DEF RInv
<1>30. CASE EngineAnswers
  <2>1. NoRoom'
    BY <1>30 DEF EngineAnswers, process, view, settings, boxes, shown, RInv, NoRoom,
        Asked, WInv, Waits, Unconnected, NoKick, Idle, Thread, service, network
  <2>2. Asked'
    BY <1>30 DEF EngineAnswers, process, view, settings, boxes, shown, RInv, Asked,
        WInv, Waits, Unconnected, NoKick, Idle, Thread
  <2>3. Hosts'
    BY <1>30 DEF EngineAnswers, process, view, settings, boxes, shown, RInv, NoRoom,
        Asked, Hosts, WInv, Flags, Waits, Unconnected, NoKick, service, network
  <2> QED
    BY <2>1, <2>2, <2>3 DEF RInv
<1>31. CASE ServiceStops
  <2>1. NoRoom'
    BY <1>31 DEF ServiceStops, Fault, NoEngine, Answered, process, view, settings,
        boxes, Thread, shown, RInv, NoRoom, Asked, WInv, Waits, Unconnected, NoKick,
        Idle, service, network
  <2>2. Asked'
    BY <1>31 DEF ServiceStops, Fault, NoEngine, Answered, process, view, settings,
        boxes, Thread, shown, RInv, Asked, WInv, Waits, Unconnected, NoKick, Idle
  <2>3. Hosts'
    BY <1>31 DEF ServiceStops, Fault, NoEngine, Answered, process, view, settings,
        boxes, Thread, shown, RInv, NoRoom, Asked, Hosts, WInv, Flags, Waits,
        Unconnected, NoKick, service, network
  <2> QED
    BY <2>1, <2>2, <2>3 DEF RInv
<1>32. CASE ServiceStarts
  <2>1. NoRoom'
    BY <1>32 DEF ServiceStarts, process, view, settings, boxes, network, shown, RInv,
        NoRoom, Asked, WInv, Waits, Unconnected, NoKick, Idle, Thread, service
  <2>2. Asked'
    BY <1>32 DEF ServiceStarts, process, view, settings, boxes, network, shown, RInv,
        Asked, WInv, Waits, Unconnected, NoKick, Idle, Thread
  <2>3. Hosts'
    BY <1>32 DEF ServiceStarts, process, view, settings, boxes, network, shown, RInv,
        NoRoom, Asked, Hosts, WInv, Flags, Waits, Unconnected, NoKick, service
  <2> QED
    BY <2>1, <2>2, <2>3 DEF RInv
<1>33. CASE CalmDown
  <2>1. NoRoom'
    BY <1>33 DEF CalmDown, process, view, settings, boxes, service, shown, network,
        RInv, NoRoom, Asked, WInv, Waits, Unconnected, NoKick, Idle, Thread
  <2>2. Asked'
    BY <1>33 DEF CalmDown, process, view, settings, boxes, service, shown, network,
        RInv, Asked, WInv, Waits, Unconnected, NoKick, Idle, Thread
  <2>3. Hosts'
    BY <1>33 DEF CalmDown, process, view, settings, boxes, service, shown, network,
        RInv, NoRoom, Asked, Hosts, WInv, Flags, Waits, Unconnected, NoKick
  <2> QED
    BY <2>1, <2>2, <2>3 DEF RInv
<1>34. CASE UNCHANGED vars
  <2>1. NoRoom'
    BY <1>34 DEF vars, process, shown, view, settings, boxes, network, service, RInv,
        NoRoom, Asked, WInv, Waits, Unconnected, NoKick, Idle, Thread
  <2>2. Asked'
    BY <1>34 DEF vars, process, shown, view, settings, boxes, network, service, RInv,
        Asked, WInv, Waits, Unconnected, NoKick, Idle, Thread
  <2>3. Hosts'
    BY <1>34 DEF vars, process, shown, view, settings, boxes, network, service, RInv,
        NoRoom, Asked, Hosts, WInv, Flags, Waits, Unconnected, NoKick
  <2> QED
    BY <2>1, <2>2, <2>3 DEF RInv
<1> QED
  BY <1>1, <1>2, <1>3, <1>4, <1>5, <1>6, <1>7, <1>8, <1>9, <1>10, <1>11, <1>12, <1>13,
      <1>14, <1>15, <1>16, <1>17, <1>18, <1>19, <1>20, <1>21, <1>22, <1>23, <1>24,
      <1>25, <1>26, <1>27, <1>28, <1>29, <1>30, <1>31, <1>32, <1>33, <1>34
      DEF Next, User, Calls, Outcomes

LEMMA RAlways == Spec => []RInv
<1>1. WInv /\ RInv /\ [Next]_vars => RInv'
  BY RStep
<1> QED
  BY <1>1, RInit, WAlways, PTL DEF Spec

\* The question whether to remove a node does not outlive the room it was asked in.
THEOREM KickAlwaysAsHost == Spec => []KickAsHost
<1>1. RInv => KickAsHost
  BY DEF RInv, Hosts, KickAsHost
<1> QED
  BY <1>1, RAlways, PTL


LEMMA LeaveEnds ==
  ASSUME "miss" \notin Faults, WInv, RInv, connected, Leave
  PROVE  engine' = "off" /\ ~busy'
<1>1. ~busy /\ (~up => engine = "off") /\ worker.kind # "connect"
  BY DEF RInv, NoRoom, WInv, Unconnected
<1>2. CASE Fails /\ UNCHANGED <<busy, network>>
  BY <1>1, <1>2 DEF Fails, Free, Fault, network
<1>3. CASE NoEngine /\ UNCHANGED busy
  BY <1>1, <1>3 DEF NoEngine
<1>4. worker # Thread("connect", "call", FALSE)
  BY <1>1 DEF Thread
<1> QED
  BY <1>2, <1>3, <1>4 DEF Leave

\* Who closes or exits while the window shows a connection has left the room.
THEOREM EndsConnectionAlways ==
  ASSUME "miss" \notin Faults
  PROVE  Spec => EndsConnection
<1> DEFINE Ends ==
      running /\ connected /\ ~running' /\ ended' # "crashed" => engine' = "off" /\ ~busy'
<1>1. ASSUME WInv, RInv, [Next]_vars PROVE [Ends]_vars
  <2>1. CASE Close
    BY <1>1, <2>1, LeaveEnds DEF Close
  <2>2. CASE MenuExit
    BY <1>1, <2>2, LeaveEnds DEF MenuExit
  <2>3. CASE KickBreaks
    BY <2>3 DEF KickBreaks, End
  <2>4. CASE ~Close /\ ~MenuExit /\ ~KickBreaks
    <3>1. CASE Open
      BY <3>1 DEF Open
    <3>2. CASE BadInput
      BY <3>2 DEF BadInput, process
    <3>3. CASE StartConnection
      BY <3>3 DEF StartConnection, process
    <3>4. CASE Disconnect
      BY <3>4 DEF Disconnect, process
    <3>5. CASE Scroll
      BY <3>5 DEF Scroll, process
    <3>6. CASE AskKick
      BY <3>6 DEF AskKick, process
    <3>7. CASE KickFails
      BY <3>7 DEF KickFails, process
    <3>8. CASE KickWorks
      BY <3>8 DEF KickWorks, process
    <3>9. ASSUME NEW box \in {"kick", "menu", "notice"}, Dismiss(box) PROVE Ends
      BY <3>9 DEF Dismiss, process
    <3>10. CASE OfferDismissed
      BY <3>10 DEF OfferDismissed, process
    <3>11. CASE ToggleSettings
      BY <3>11 DEF ToggleSettings, process
    <3>12. CASE TogglePriority
      BY <3>12 DEF TogglePriority, process
    <3>13. CASE OpenMenu
      BY <3>13 DEF OpenMenu, process
    <3>14. CASE MenuDisconnect
      BY <3>14 DEF MenuDisconnect, process
    <3>15. CASE FirstMessage
      BY <3>15 DEF FirstMessage
    <3>16. CASE Timer
      BY <3>16 DEF Timer, process
    <3>17. CASE Unanswered
      BY <3>17 DEF Unanswered, process
    <3>18. CASE ConnectTaken
      BY <3>18 DEF ConnectTaken, process
    <3>19. CASE DisconnectTaken
      BY <3>19 DEF DisconnectTaken, process
    <3>20. CASE ConnectFailed
      BY <3>20 DEF ConnectFailed, process
    <3>21. CASE ConnectDone
      BY <3>21 DEF ConnectDone, process
    <3>22. CASE DisconnectDone
      BY <3>22 DEF DisconnectDone, process
    <3>23. CASE EngineStarts
      BY <3>23 DEF EngineStarts, process
    <3>24. CASE RoomChanges
      BY <3>24 DEF RoomChanges, process
    <3>25. CASE EngineExits
      BY <3>25 DEF EngineExits, process
    <3>26. CASE EngineHangs
      BY <3>26 DEF EngineHangs, process
    <3>27. CASE EngineAnswers
      BY <3>27 DEF EngineAnswers, process
    <3>28. CASE ServiceStops
      BY <3>28 DEF ServiceStops, process
    <3>29. CASE ServiceStarts
      BY <3>29 DEF ServiceStarts, process
    <3>30. CASE CalmDown
      BY <3>30 DEF CalmDown, process
    <3>31. CASE UNCHANGED vars
      BY <3>31 DEF vars, process
    <3> QED
      BY <1>1, <2>4, <3>1, <3>2, <3>3, <3>4, <3>5, <3>6, <3>7, <3>8, <3>9, <3>10,
          <3>11, <3>12, <3>13, <3>14, <3>15, <3>16, <3>17, <3>18, <3>19, <3>20, <3>21,
          <3>22, <3>23, <3>24, <3>25, <3>26, <3>27, <3>28, <3>29, <3>30, <3>31
          DEF Next, User, Calls, Outcomes
  <2> QED
    BY <2>1, <2>2, <2>3, <2>4
<1>2. Spec => [][Ends]_vars
  BY <1>1, WAlways, RAlways, PTL DEF Spec
<1> QED
  BY <1>2 DEF EndsConnection


=============================================================================
