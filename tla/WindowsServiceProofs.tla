------------------------ MODULE WindowsServiceProofs ------------------------
(***************************************************************************)
(* Proofs about the Windows service, for any number of clients and engine  *)
(* processes and any number of crashes.                                    *)
(***************************************************************************)
EXTENDS WindowsService, TLAPS

LEMMA TypeInit == Init => TypeOK
BY DEF Init, TypeOK, TypeService, TypeCalls, TypeEngine, EngineOrNone, Requests, Replies

LEMMA TypeStep == TypeOK /\ [Next]_vars => TypeOK'
<1> SUFFICES ASSUME TypeOK, [Next]_vars PROVE TypeOK'
  OBVIOUS
<1> USE CommandAssumption, NoneAssumption
<1>1. CASE Trivial
  <2>1. TypeService'
    BY <1>1 DEF Trivial, Answer, control, thread, channel, callers, engine, TypeOK,
        TypeService, Requests, Replies
  <2>2. TypeCalls'
    BY <1>1 DEF Trivial, Answer, control, thread, channel, callers, engine, TypeOK,
        TypeCalls, Replies, TypeService
  <2>3. TypeEngine'
    BY <1>1 DEF Trivial, Answer, control, thread, channel, callers, engine, TypeOK,
        TypeEngine, EngineOrNone
  <2> QED
    BY <2>1, <2>2, <2>3 DEF TypeOK
<1>2. CASE ConnectRefused
  <2>1. TypeService'
    BY <1>2 DEF ConnectRefused, Handles, Answer, Reap, Running, ForgetEngine, CloseJob,
        control, thread, channel, callers, engine, TypeOK, TypeService, Requests,
        Replies
  <2>2. TypeCalls'
    BY <1>2 DEF ConnectRefused, Handles, Answer, Reap, Running, ForgetEngine, CloseJob,
        control, thread, channel, callers, engine, TypeOK, TypeCalls, Replies,
        TypeService
  <2>3. TypeEngine'
    BY <1>2 DEF ConnectRefused, Handles, Answer, Reap, Running, ForgetEngine, CloseJob,
        control, thread, channel, callers, engine, TypeOK, TypeEngine, EngineOrNone
  <2> QED
    BY <2>1, <2>2, <2>3 DEF TypeOK
<1>3. CASE Connect
  <2>1. TypeService'
    BY <1>3 DEF Connect, Handles, Running, CloseJob, control, thread, channel, callers,
        engine, TypeOK, TypeService, Requests, Replies
  <2>2. TypeCalls'
    BY <1>3 DEF Connect, Handles, Running, CloseJob, control, thread, channel, callers,
        engine, TypeOK, TypeCalls, Replies, TypeService
  <2>3. TypeEngine'
    BY <1>3 DEF Connect, Handles, Running, CloseJob, control, thread, channel, callers,
        engine, TypeOK, TypeEngine, EngineOrNone
  <2> QED
    BY <2>1, <2>2, <2>3 DEF TypeOK
<1>4. CASE Launch
  <2>1. TypeService'
    BY <1>4 DEF Launch, Answer, control, thread, channel, callers, engine, TypeOK,
        TypeService, Requests, Replies
  <2>2. TypeCalls'
    BY <1>4 DEF Launch, Answer, control, thread, channel, callers, engine, TypeOK,
        TypeCalls, Replies, TypeService
  <2>3. TypeEngine'
    BY <1>4 DEF Launch, Answer, control, thread, channel, callers, engine, TypeOK,
        TypeEngine, EngineOrNone
  <2> QED
    BY <2>1, <2>2, <2>3 DEF TypeOK
<1>5. CASE Adopt
  <2>1. TypeService'
    BY <1>5 DEF Adopt, control, thread, channel, callers, engine, TypeOK, TypeService,
        Requests, Replies
  <2>2. TypeCalls'
    BY <1>5 DEF Adopt, control, thread, channel, callers, engine, TypeOK, TypeCalls,
        Replies, TypeService
  <2>3. TypeEngine'
    BY <1>5 DEF Adopt, control, thread, channel, callers, engine, TypeOK, TypeEngine,
        EngineOrNone
  <2> QED
    BY <2>1, <2>2, <2>3 DEF TypeOK
<1>6. CASE Poll
  <2>1. TypeService'
    BY <1>6 DEF Poll, Answer, Reap, Running, ForgetEngine, CloseJob, ApiAnswers,
        control, thread, channel, callers, engine, TypeOK, TypeService, Requests,
        Replies
  <2>2. TypeCalls'
    BY <1>6 DEF Poll, Answer, Reap, Running, ForgetEngine, CloseJob, ApiAnswers,
        control, thread, channel, callers, engine, TypeOK, TypeCalls, Replies,
        TypeService
  <2>3. TypeEngine'
    BY <1>6 DEF Poll, Answer, Reap, Running, ForgetEngine, CloseJob, ApiAnswers,
        control, thread, channel, callers, engine, TypeOK, TypeEngine, EngineOrNone
  <2> QED
    BY <2>1, <2>2, <2>3 DEF TypeOK
<1>7. CASE PollTimeout
  <2>1. TypeService'
    BY <1>7 DEF PollTimeout, control, thread, channel, callers, engine, TypeOK,
        TypeService, Requests, Replies
  <2>2. TypeCalls'
    BY <1>7 DEF PollTimeout, control, thread, channel, callers, engine, TypeOK,
        TypeCalls, Replies, TypeService
  <2>3. TypeEngine'
    BY <1>7 DEF PollTimeout, control, thread, channel, callers, engine, TypeOK,
        TypeEngine, EngineOrNone
  <2> QED
    BY <2>1, <2>2, <2>3 DEF TypeOK
<1>8. CASE Disconnect
  <2>1. TypeService'
    BY <1>8 DEF Disconnect, Handles, control, thread, channel, callers, engine, TypeOK,
        TypeService, Requests, Replies
  <2>2. TypeCalls'
    BY <1>8 DEF Disconnect, Handles, control, thread, channel, callers, engine, TypeOK,
        TypeCalls, Replies, TypeService
  <2>3. TypeEngine'
    BY <1>8 DEF Disconnect, Handles, control, thread, channel, callers, engine, TypeOK,
        TypeEngine, EngineOrNone
  <2> QED
    BY <2>1, <2>2, <2>3 DEF TypeOK
<1>9. CASE Shutdown
  <2>1. TypeService'
    BY <1>9 DEF Shutdown, Reap, Running, ForgetEngine, CloseJob, Return, Answer,
        StopReply, control, thread, channel, callers, engine, TypeOK, TypeService,
        Requests, Replies
  <2>2. TypeCalls'
    BY <1>9 DEF Shutdown, Reap, Running, ForgetEngine, CloseJob, Return, Answer,
        StopReply, control, thread, channel, callers, engine, TypeOK, TypeCalls,
        Replies, TypeService
  <2>3. TypeEngine'
    BY <1>9 DEF Shutdown, Reap, Running, ForgetEngine, CloseJob, Return, Answer,
        StopReply, control, thread, channel, callers, engine, TypeOK, TypeEngine,
        EngineOrNone
  <2> QED
    BY <2>1, <2>2, <2>3 DEF TypeOK
<1>10. CASE AwaitExit
  <2>1. TypeService'
    BY <1>10 DEF AwaitExit, ForgetEngine, CloseJob, Return, Answer, StopReply, control,
        thread, channel, callers, engine, TypeOK, TypeService, Requests, Replies
  <2>2. TypeCalls'
    BY <1>10 DEF AwaitExit, ForgetEngine, CloseJob, Return, Answer, StopReply, control,
        thread, channel, callers, engine, TypeOK, TypeCalls, Replies, TypeService
  <2>3. TypeEngine'
    BY <1>10 DEF AwaitExit, ForgetEngine, CloseJob, Return, Answer, StopReply, control,
        thread, channel, callers, engine, TypeOK, TypeEngine, EngineOrNone
  <2> QED
    BY <2>1, <2>2, <2>3 DEF TypeOK
<1>11. CASE Priority
  <2>1. TypeService'
    BY <1>11 DEF Priority, Handles, Answer, control, thread, channel, callers, engine,
        TypeOK, TypeService, Requests, Replies
  <2>2. TypeCalls'
    BY <1>11 DEF Priority, Handles, Answer, control, thread, channel, callers, engine,
        TypeOK, TypeCalls, Replies, TypeService
  <2>3. TypeEngine'
    BY <1>11 DEF Priority, Handles, Answer, control, thread, channel, callers, engine,
        TypeOK, TypeEngine, EngineOrNone
  <2> QED
    BY <2>1, <2>2, <2>3 DEF TypeOK
<1>12. CASE Kick
  <2>1. TypeService'
    BY <1>12 DEF Kick, Handles, Answer, Reap, Running, ForgetEngine, CloseJob,
        ApiAnswers, control, thread, channel, callers, engine, TypeOK, TypeService,
        Requests, Replies
  <2>2. TypeCalls'
    BY <1>12 DEF Kick, Handles, Answer, Reap, Running, ForgetEngine, CloseJob,
        ApiAnswers, control, thread, channel, callers, engine, TypeOK, TypeCalls,
        Replies, TypeService
  <2>3. TypeEngine'
    BY <1>12 DEF Kick, Handles, Answer, Reap, Running, ForgetEngine, CloseJob,
        ApiAnswers, control, thread, channel, callers, engine, TypeOK, TypeEngine,
        EngineOrNone
  <2> QED
    BY <2>1, <2>2, <2>3 DEF TypeOK
<1>13. CASE Status
  <2>1. TypeService'
    BY <1>13 DEF Status, Handles, Answer, Reap, Running, ForgetEngine, CloseJob,
        ApiAnswers, control, thread, channel, callers, engine, TypeOK, TypeService,
        Requests, Replies
  <2>2. TypeCalls'
    BY <1>13 DEF Status, Handles, Answer, Reap, Running, ForgetEngine, CloseJob,
        ApiAnswers, control, thread, channel, callers, engine, TypeOK, TypeCalls,
        Replies, TypeService
  <2>3. TypeEngine'
    BY <1>13 DEF Status, Handles, Answer, Reap, Running, ForgetEngine, CloseJob,
        ApiAnswers, control, thread, channel, callers, engine, TypeOK, TypeEngine,
        EngineOrNone
  <2> QED
    BY <2>1, <2>2, <2>3 DEF TypeOK
<1>14. CASE Check
  <2>1. TypeService'
    BY <1>14 DEF Check, control, thread, channel, callers, engine, TypeOK, TypeService,
        Requests, Replies
  <2>2. TypeCalls'
    BY <1>14 DEF Check, control, thread, channel, callers, engine, TypeOK, TypeCalls,
        Replies, TypeService
  <2>3. TypeEngine'
    BY <1>14 DEF Check, control, thread, channel, callers, engine, TypeOK, TypeEngine,
        EngineOrNone
  <2> QED
    BY <2>1, <2>2, <2>3 DEF TypeOK
<1>15. CASE CreatePipe
  <2>1. TypeService'
    BY <1>15 DEF CreatePipe, control, thread, channel, callers, engine, TypeOK,
        TypeService, Requests, Replies
  <2>2. TypeCalls'
    BY <1>15 DEF CreatePipe, control, thread, channel, callers, engine, TypeOK,
        TypeCalls, Replies, TypeService
  <2>3. TypeEngine'
    BY <1>15 DEF CreatePipe, control, thread, channel, callers, engine, TypeOK,
        TypeEngine, EngineOrNone
  <2> QED
    BY <2>1, <2>2, <2>3 DEF TypeOK
<1>16. CASE CreatePipeFails
  <2>1. TypeService'
    BY <1>16 DEF CreatePipeFails, control, thread, channel, callers, engine, TypeOK,
        TypeService, Requests, Replies
  <2>2. TypeCalls'
    BY <1>16 DEF CreatePipeFails, control, thread, channel, callers, engine, TypeOK,
        TypeCalls, Replies, TypeService
  <2>3. TypeEngine'
    BY <1>16 DEF CreatePipeFails, control, thread, channel, callers, engine, TypeOK,
        TypeEngine, EngineOrNone
  <2> QED
    BY <2>1, <2>2, <2>3 DEF TypeOK
<1>17. CASE Listen
  <2>1. TypeService'
    BY <1>17 DEF Listen, control, thread, channel, callers, engine, TypeOK, TypeService,
        Requests, Replies
  <2>2. TypeCalls'
    BY <1>17 DEF Listen, control, thread, channel, callers, engine, TypeOK, TypeCalls,
        Replies, TypeService
  <2>3. TypeEngine'
    BY <1>17 DEF Listen, control, thread, channel, callers, engine, TypeOK, TypeEngine,
        EngineOrNone
  <2> QED
    BY <2>1, <2>2, <2>3 DEF TypeOK
<1>18. CASE Read
  <2>1. TypeService'
    BY <1>18 DEF Read, control, thread, channel, callers, engine, TypeOK, TypeService,
        TypeCalls, Requests, Replies
  <2>2. TypeCalls'
    BY <1>18 DEF Read, control, thread, channel, callers, engine, TypeOK, TypeCalls,
        Replies, TypeService
  <2>3. TypeEngine'
    BY <1>18 DEF Read, control, thread, channel, callers, engine, TypeOK, TypeEngine,
        EngineOrNone
  <2> QED
    BY <2>1, <2>2, <2>3 DEF TypeOK
<1>19. CASE Respond
  <2>1. TypeService'
    BY <1>19 DEF Respond, control, thread, channel, callers, engine, TypeOK,
        TypeService, Requests, Replies
  <2>2. TypeCalls'
    BY <1>19 DEF Respond, control, thread, channel, callers, engine, TypeOK, TypeCalls,
        Replies, TypeService
  <2>3. TypeEngine'
    BY <1>19 DEF Respond, control, thread, channel, callers, engine, TypeOK, TypeEngine,
        EngineOrNone
  <2> QED
    BY <2>1, <2>2, <2>3 DEF TypeOK
<1>20. CASE Stop
  <2>1. TypeService'
    BY <1>20 DEF Stop, control, thread, channel, callers, engine, TypeOK, TypeService,
        Requests, Replies
  <2>2. TypeCalls'
    BY <1>20 DEF Stop, control, thread, channel, callers, engine, TypeOK, TypeCalls,
        Replies, TypeService
  <2>3. TypeEngine'
    BY <1>20 DEF Stop, control, thread, channel, callers, engine, TypeOK, TypeEngine,
        EngineOrNone
  <2> QED
    BY <2>1, <2>2, <2>3 DEF TypeOK
<1>21. CASE Wake
  <2>1. TypeService'
    BY <1>21 DEF Wake, control, thread, channel, callers, engine, TypeOK, TypeService,
        Requests, Replies
  <2>2. TypeCalls'
    BY <1>21 DEF Wake, control, thread, channel, callers, engine, TypeOK, TypeCalls,
        Replies, TypeService
  <2>3. TypeEngine'
    BY <1>21 DEF Wake, control, thread, channel, callers, engine, TypeOK, TypeEngine,
        EngineOrNone
  <2> QED
    BY <2>1, <2>2, <2>3 DEF TypeOK
<1>22. CASE Crash
  <2>1. TypeService'
    BY <1>22 DEF Crash, ProcessEnds, CloseJob, control, thread, channel, callers,
        engine, TypeOK, TypeService, Requests, Replies
  <2>2. TypeCalls'
    BY <1>22 DEF Crash, ProcessEnds, CloseJob, control, thread, channel, callers,
        engine, TypeOK, TypeCalls, Replies, TypeService
  <2>3. TypeEngine'
    BY <1>22 DEF Crash, ProcessEnds, CloseJob, control, thread, channel, callers,
        engine, TypeOK, TypeEngine, EngineOrNone
  <2> QED
    BY <2>1, <2>2, <2>3 DEF TypeOK
<1>23. CASE Start
  <2>1. TypeService'
    BY <1>23 DEF Start, control, thread, channel, callers, engine, TypeOK, TypeService,
        Requests, Replies
  <2>2. TypeCalls'
    BY <1>23 DEF Start, control, thread, channel, callers, engine, TypeOK, TypeCalls,
        Replies, TypeService
  <2>3. TypeEngine'
    BY <1>23 DEF Start, control, thread, channel, callers, engine, TypeOK, TypeEngine,
        EngineOrNone
  <2> QED
    BY <2>1, <2>2, <2>3 DEF TypeOK
<1>24. ASSUME NEW c \in Clients, Call(c) PROVE TypeOK'
  <2>1. TypeService'
    BY <1>24 DEF Call, Fails, control, thread, channel, callers, engine, TypeOK,
        TypeService, Requests, Replies
  <2>2. TypeCalls'
    BY <1>24 DEF Call, Fails, control, thread, channel, callers, engine, TypeOK,
        TypeCalls, Replies, TypeService
  <2>3. TypeEngine'
    BY <1>24 DEF Call, Fails, control, thread, channel, callers, engine, TypeOK,
        TypeEngine, EngineOrNone
  <2> QED
    BY <2>1, <2>2, <2>3 DEF TypeOK
<1>25. ASSUME NEW c \in Clients, WaitOver(c) PROVE TypeOK'
  <2>1. TypeService'
    BY <1>25 DEF WaitOver, Fails, control, thread, channel, callers, engine, TypeOK,
        TypeService, Requests, Replies
  <2>2. TypeCalls'
    BY <1>25 DEF WaitOver, Fails, control, thread, channel, callers, engine, TypeOK,
        TypeCalls, Replies, TypeService
  <2>3. TypeEngine'
    BY <1>25 DEF WaitOver, Fails, control, thread, channel, callers, engine, TypeOK,
        TypeEngine, EngineOrNone
  <2> QED
    BY <2>1, <2>2, <2>3 DEF TypeOK
<1>26. ASSUME NEW c \in Clients, OpenFails(c) PROVE TypeOK'
  <2>1. TypeService'
    BY <1>26 DEF OpenFails, Fails, control, thread, channel, callers, engine, TypeOK,
        TypeService, Requests, Replies
  <2>2. TypeCalls'
    BY <1>26 DEF OpenFails, Fails, control, thread, channel, callers, engine, TypeOK,
        TypeCalls, Replies, TypeService
  <2>3. TypeEngine'
    BY <1>26 DEF OpenFails, Fails, control, thread, channel, callers, engine, TypeOK,
        TypeEngine, EngineOrNone
  <2> QED
    BY <2>1, <2>2, <2>3 DEF TypeOK
<1>27. ASSUME NEW c \in Clients, Open(c) PROVE TypeOK'
  <2>1. TypeService'
    BY <1>27 DEF Open, control, thread, channel, callers, engine, TypeOK, TypeService,
        Requests, Replies
  <2>2. TypeCalls'
    BY <1>27 DEF Open, control, thread, channel, callers, engine, TypeOK, TypeCalls,
        Replies, TypeService
  <2>3. TypeEngine'
    BY <1>27 DEF Open, control, thread, channel, callers, engine, TypeOK, TypeEngine,
        EngineOrNone
  <2> QED
    BY <2>1, <2>2, <2>3 DEF TypeOK
<1>28. ASSUME NEW c \in Clients, HangUp(c) PROVE TypeOK'
  <2>1. TypeService'
    BY <1>28 DEF HangUp, Fails, control, thread, channel, callers, engine, TypeOK,
        TypeService, Requests, Replies
  <2>2. TypeCalls'
    BY <1>28 DEF HangUp, Fails, control, thread, channel, callers, engine, TypeOK,
        TypeCalls, Replies, TypeService
  <2>3. TypeEngine'
    BY <1>28 DEF HangUp, Fails, control, thread, channel, callers, engine, TypeOK,
        TypeEngine, EngineOrNone
  <2> QED
    BY <2>1, <2>2, <2>3 DEF TypeOK
<1>29. ASSUME NEW e \in Engines, GoOnline(e) PROVE TypeOK'
  <2>1. TypeService'
    BY <1>29 DEF GoOnline, control, thread, channel, callers, engine, TypeOK,
        TypeService, Requests, Replies
  <2>2. TypeCalls'
    BY <1>29 DEF GoOnline, control, thread, channel, callers, engine, TypeOK, TypeCalls,
        Replies, TypeService
  <2>3. TypeEngine'
    BY <1>29 DEF GoOnline, control, thread, channel, callers, engine, TypeOK,
        TypeEngine, EngineOrNone
  <2> QED
    BY <2>1, <2>2, <2>3 DEF TypeOK
<1>30. ASSUME NEW e \in Engines, Hang(e) PROVE TypeOK'
  <2>1. TypeService'
    BY <1>30 DEF Hang, control, thread, channel, callers, engine, TypeOK, TypeService,
        Requests, Replies
  <2>2. TypeCalls'
    BY <1>30 DEF Hang, control, thread, channel, callers, engine, TypeOK, TypeCalls,
        Replies, TypeService
  <2>3. TypeEngine'
    BY <1>30 DEF Hang, control, thread, channel, callers, engine, TypeOK, TypeEngine,
        EngineOrNone
  <2> QED
    BY <2>1, <2>2, <2>3 DEF TypeOK
<1>31. ASSUME NEW e \in Engines, Exit(e) PROVE TypeOK'
  <2>1. TypeService'
    BY <1>31 DEF Exit, control, thread, channel, callers, engine, TypeOK, TypeService,
        Requests, Replies
  <2>2. TypeCalls'
    BY <1>31 DEF Exit, control, thread, channel, callers, engine, TypeOK, TypeCalls,
        Replies, TypeService
  <2>3. TypeEngine'
    BY <1>31 DEF Exit, control, thread, channel, callers, engine, TypeOK, TypeEngine,
        EngineOrNone
  <2> QED
    BY <2>1, <2>2, <2>3 DEF TypeOK
<1>32. CASE UNCHANGED vars
  <2>1. TypeService'
    BY <1>32 DEF vars, control, thread, channel, callers, engine, TypeOK, TypeService,
        Requests, Replies
  <2>2. TypeCalls'
    BY <1>32 DEF vars, control, thread, channel, callers, engine, TypeOK, TypeCalls,
        Replies, TypeService
  <2>3. TypeEngine'
    BY <1>32 DEF vars, control, thread, channel, callers, engine, TypeOK, TypeEngine,
        EngineOrNone
  <2> QED
    BY <2>1, <2>2, <2>3 DEF TypeOK
<1> QED
  BY <1>1, <1>2, <1>3, <1>4, <1>5, <1>6, <1>7, <1>8, <1>9, <1>10, <1>11, <1>12, <1>13,
      <1>14, <1>15, <1>16, <1>17, <1>18, <1>19, <1>20, <1>21, <1>22, <1>23, <1>24,
      <1>25, <1>26, <1>27, <1>28, <1>29, <1>30, <1>31, <1>32 DEF Next, ServePipe,
      HandleCommand, ClientStep, EngineStep

\* The state of the service, of its handles and of its callers is what the
\* program's types allow.
THEOREM TypeCorrect == Spec => []TypeOK
BY TypeInit, TypeStep, PTL DEF Spec

-----------------------------------------------------------------------------
(* The engine belongs to the service as long as job objects work. *)

\* The handle and the token go together, and stopping is the end of ServiceMain.
\* This does not depend on the job.
Paired ==
    /\ worker \in {"launch", "created"} => proc = None
    /\ worker \notin {"launch", "created", "gone"} => token = proc
    /\ status = "stopped" <=> worker = "gone"
    /\ worker \notin {"shutdown", "await", "gone"} => request # "stop"

\* The engine that runs is the one of the handle and in the job, and nobody is
\* told that there is none.
Kept ==
    /\ live \subseteq {proc} /\ live \subseteq jobbed
    /\ status = "stopped" => live = {}
    /\ OfflineIsTrue

\* What the service keeps of its engine, if jobs work.
IInv == TypeOK /\ Paired /\ (~JobMayFail => Kept)

LEMMA IInvInit == Init => IInv
BY TypeInit DEF Init, IInv, Paired, Kept, OfflineIsTrue

LEMMA IInvStep ==
    ASSUME IInv, [Next]_vars
    PROVE  IInv'
<1> USE CommandAssumption, NoneAssumption, TypeStep DEF IInv
<1>1. CASE Trivial
  BY <1>1 DEF Trivial, Answer, Paired, Kept, OfflineIsTrue, TypeOK, TypeService,
      TypeCalls, TypeEngine, EngineOrNone, Requests, Replies, control, thread,
      channel, callers, engine
<1>2. CASE ConnectRefused
  BY <1>2 DEF ConnectRefused, Handles, Answer, Reap, Running, ForgetEngine, CloseJob,
      Paired, Kept, OfflineIsTrue, TypeOK, TypeService, TypeCalls, TypeEngine,
      EngineOrNone, Requests, Replies, control, thread, channel, callers, engine
<1>3. CASE Connect
  BY <1>3 DEF Connect, Handles, Running, CloseJob, Paired, Kept, OfflineIsTrue,
      TypeOK, TypeService, TypeCalls, TypeEngine, EngineOrNone, Requests, Replies,
      control, thread, channel, callers, engine
<1>4. CASE Launch
  BY <1>4 DEF Launch, Answer, Paired, Kept, OfflineIsTrue, TypeOK, TypeService,
      TypeCalls, TypeEngine, EngineOrNone, Requests, Replies, control, thread,
      channel, callers, engine
<1>5. CASE Adopt
  BY <1>5 DEF Adopt, Paired, Kept, OfflineIsTrue, TypeOK, TypeService, TypeCalls,
      TypeEngine, EngineOrNone, Requests, Replies, control, thread, channel, callers,
      engine
<1>6. CASE Poll
  BY <1>6 DEF Poll, Answer, Reap, Running, ForgetEngine, CloseJob, ApiAnswers,
      Paired, Kept, OfflineIsTrue, TypeOK, TypeService, TypeCalls, TypeEngine,
      EngineOrNone, Requests, Replies, control, thread, channel, callers, engine
<1>7. CASE PollTimeout
  BY <1>7 DEF PollTimeout, Paired, Kept, OfflineIsTrue, TypeOK, TypeService,
      TypeCalls, TypeEngine, EngineOrNone, Requests, Replies, control, thread,
      channel, callers, engine
<1>8. CASE Disconnect
  BY <1>8 DEF Disconnect, Handles, Paired, Kept, OfflineIsTrue, TypeOK,
      TypeService, TypeCalls, TypeEngine, EngineOrNone, Requests, Replies, control,
      thread, channel, callers, engine
<1>9. CASE Shutdown
  BY <1>9 DEF Shutdown, Reap, Running, ForgetEngine, CloseJob, Return, Answer,
      StopReply, Paired, Kept, OfflineIsTrue, TypeOK, TypeService, TypeCalls,
      TypeEngine, EngineOrNone, Requests, Replies, control, thread, channel, callers,
      engine
<1>10. CASE AwaitExit
  BY <1>10 DEF AwaitExit, ForgetEngine, CloseJob, Return, Answer, StopReply, Paired,
      Kept, OfflineIsTrue, TypeOK, TypeService, TypeCalls, TypeEngine,
      EngineOrNone, Requests, Replies, control, thread, channel, callers, engine
<1>11. CASE Priority
  BY <1>11 DEF Priority, Handles, Answer, Paired, Kept, OfflineIsTrue, TypeOK,
      TypeService, TypeCalls, TypeEngine, EngineOrNone, Requests, Replies, control,
      thread, channel, callers, engine
<1>12. CASE Kick
  BY <1>12 DEF Kick, Handles, Answer, Reap, Running, ForgetEngine, CloseJob,
      ApiAnswers, Paired, Kept, OfflineIsTrue, TypeOK, TypeService, TypeCalls,
      TypeEngine, EngineOrNone, Requests, Replies, control, thread, channel, callers,
      engine
<1>13. CASE Status
  BY <1>13 DEF Status, Handles, Answer, Reap, Running, ForgetEngine, CloseJob,
      ApiAnswers, Paired, Kept, OfflineIsTrue, TypeOK, TypeService, TypeCalls,
      TypeEngine, EngineOrNone, Requests, Replies, control, thread, channel, callers,
      engine
<1>14. CASE Check
  BY <1>14 DEF Check, Paired, Kept, OfflineIsTrue, TypeOK, TypeService,
      TypeCalls, TypeEngine, EngineOrNone, Requests, Replies, control, thread,
      channel, callers, engine
<1>15. CASE CreatePipe
  BY <1>15 DEF CreatePipe, Paired, Kept, OfflineIsTrue, TypeOK, TypeService,
      TypeCalls, TypeEngine, EngineOrNone, Requests, Replies, control, thread,
      channel, callers, engine
<1>16. CASE CreatePipeFails
  BY <1>16 DEF CreatePipeFails, Paired, Kept, OfflineIsTrue, TypeOK, TypeService,
      TypeCalls, TypeEngine, EngineOrNone, Requests, Replies, control, thread,
      channel, callers, engine
<1>17. CASE Listen
  BY <1>17 DEF Listen, Paired, Kept, OfflineIsTrue, TypeOK, TypeService,
      TypeCalls, TypeEngine, EngineOrNone, Requests, Replies, control, thread,
      channel, callers, engine
<1>18. CASE Read
  BY <1>18 DEF Read, Paired, Kept, OfflineIsTrue, TypeOK, TypeService, TypeCalls,
      TypeEngine, EngineOrNone, Requests, Replies, control, thread, channel, callers,
      engine
<1>19. CASE Respond
  BY <1>19 DEF Respond, Paired, Kept, OfflineIsTrue, TypeOK, TypeService,
      TypeCalls, TypeEngine, EngineOrNone, Requests, Replies, control, thread,
      channel, callers, engine
<1>20. CASE Stop
  BY <1>20 DEF Stop, Paired, Kept, OfflineIsTrue, TypeOK, TypeService, TypeCalls,
      TypeEngine, EngineOrNone, Requests, Replies, control, thread, channel, callers,
      engine
<1>21. CASE Wake
  BY <1>21 DEF Wake, Paired, Kept, OfflineIsTrue, TypeOK, TypeService, TypeCalls,
      TypeEngine, EngineOrNone, Requests, Replies, control, thread, channel, callers,
      engine
<1>22. CASE Crash
  BY <1>22 DEF Crash, ProcessEnds, CloseJob, Paired, Kept, OfflineIsTrue, TypeOK,
      TypeService, TypeCalls, TypeEngine, EngineOrNone, Requests, Replies, control,
      thread, channel, callers, engine
<1>23. CASE Start
  BY <1>23 DEF Start, Paired, Kept, OfflineIsTrue, TypeOK, TypeService,
      TypeCalls, TypeEngine, EngineOrNone, Requests, Replies, control, thread,
      channel, callers, engine
<1>24. ASSUME NEW c \in Clients, Call(c) PROVE IInv'
  BY <1>24 DEF Call, Fails, Paired, Kept, OfflineIsTrue, TypeOK, TypeService,
      TypeCalls, TypeEngine, EngineOrNone, Requests, Replies, control, thread,
      channel, callers, engine
<1>25. ASSUME NEW c \in Clients, WaitOver(c) PROVE IInv'
  BY <1>25 DEF WaitOver, Fails, Paired, Kept, OfflineIsTrue, TypeOK, TypeService,
      TypeCalls, TypeEngine, EngineOrNone, Requests, Replies, control, thread,
      channel, callers, engine
<1>26. ASSUME NEW c \in Clients, OpenFails(c) PROVE IInv'
  BY <1>26 DEF OpenFails, Fails, Paired, Kept, OfflineIsTrue, TypeOK,
      TypeService, TypeCalls, TypeEngine, EngineOrNone, Requests, Replies, control,
      thread, channel, callers, engine
<1>27. ASSUME NEW c \in Clients, Open(c) PROVE IInv'
  BY <1>27 DEF Open, Paired, Kept, OfflineIsTrue, TypeOK, TypeService, TypeCalls,
      TypeEngine, EngineOrNone, Requests, Replies, control, thread, channel, callers,
      engine
<1>28. ASSUME NEW c \in Clients, HangUp(c) PROVE IInv'
  BY <1>28 DEF HangUp, Fails, Paired, Kept, OfflineIsTrue, TypeOK, TypeService,
      TypeCalls, TypeEngine, EngineOrNone, Requests, Replies, control, thread,
      channel, callers, engine
<1>29. ASSUME NEW e \in Engines, GoOnline(e) PROVE IInv'
  BY <1>29 DEF GoOnline, Paired, Kept, OfflineIsTrue, TypeOK, TypeService,
      TypeCalls, TypeEngine, EngineOrNone, Requests, Replies, control, thread,
      channel, callers, engine
<1>30. ASSUME NEW e \in Engines, Hang(e) PROVE IInv'
  BY <1>30 DEF Hang, Paired, Kept, OfflineIsTrue, TypeOK, TypeService, TypeCalls,
      TypeEngine, EngineOrNone, Requests, Replies, control, thread, channel, callers,
      engine
<1>31. ASSUME NEW e \in Engines, Exit(e) PROVE IInv'
  BY <1>31 DEF Exit, Paired, Kept, OfflineIsTrue, TypeOK, TypeService, TypeCalls,
      TypeEngine, EngineOrNone, Requests, Replies, control, thread, channel, callers,
      engine
<1>32. CASE UNCHANGED vars
  BY <1>32 DEF vars, Paired, Kept, OfflineIsTrue, TypeOK, TypeService, TypeCalls,
      TypeEngine, EngineOrNone, Requests, Replies, control, thread, channel, callers,
      engine
<1> QED
  BY <1>1, <1>2, <1>3, <1>4, <1>5, <1>6, <1>7, <1>8, <1>9, <1>10, <1>11, <1>12, <1>13,
      <1>14, <1>15, <1>16, <1>17, <1>18, <1>19, <1>20, <1>21, <1>22, <1>23, <1>24,
      <1>25, <1>26, <1>27, <1>28, <1>29, <1>30, <1>31, <1>32 DEF Next, ServePipe,
      HandleCommand, ClientStep, EngineStep

LEMMA Inductive == Spec => []IInv
BY IInvInit, IInvStep, PTL DEF Spec

\* No handle of an engine that runs is ever dropped: the service can stop every
\* engine it started.
THEOREM EveryEngineOwned ==
    ASSUME ~JobMayFail PROVE Spec => []EngineOwned
<1>1. IInv => EngineOwned
  BY DEF IInv, Kept, EngineOwned
<1> QED
  BY <1>1, Inductive, PTL

\* No engine runs while the service does not, after a stop or a crash.
THEOREM EngineEndsWithService ==
    ASSUME ~JobMayFail PROVE Spec => []NoEngineOutlivesService
<1>1. IInv => NoEngineOutlivesService
  BY DEF IInv, Kept, NoEngineOutlivesService
<1> QED
  BY <1>1, Inductive, PTL

\* The control token and the engine's handle come and go together.
THEOREM TokenAlwaysFits == Spec => []TokenFits
<1>1. IInv => TokenFits
  BY DEF IInv, Paired, TokenFits
<1> QED
  BY <1>1, Inductive, PTL

\* OFFLINE is answered only when no engine runs.
THEOREM OfflineAlwaysTrue ==
    ASSUME ~JobMayFail PROVE Spec => []OfflineIsTrue
<1>1. IInv => OfflineIsTrue
  BY DEF IInv, Kept
<1> QED
  BY <1>1, Inductive, PTL

-----------------------------------------------------------------------------
(* The callers *)

\* A free instance has nobody at its other end, and the worker listens on it.
CInv ==
    /\ TypeOK /\ Paired
    /\ CallsServed
    /\ pipe = "free" => worker = "listen" /\ peer = None

\* What a handler does to the worker loses no caller: there is none while the
\* service stops, and otherwise it ends with an answer.
LEMMA HandlerServes ==
  ASSUME CInv, HandleCommand
  PROVE  /\ UNCHANGED <<pipe, peer, wire, call>>
         /\ worker \notin {"listen", "read", "check", "create"}
         /\ worker' \notin {"listen", "read", "check", "create"}
         /\ request' = request
         /\ worker' = "gone" => request = "stop"
<1> USE DEF channel, callers
<1>1. CASE Trivial \/ Launch \/ Priority \/ Adopt \/ PollTimeout \/ Disconnect \/ Connect
  BY <1>1 DEF Trivial, Launch, Priority, Adopt, PollTimeout, Disconnect, Connect, Handles, Answer
<1>2. CASE ConnectRefused \/ Poll \/ Kick \/ Status
  BY <1>2 DEF ConnectRefused, Poll, Kick, Status, Handles, Answer
<1>3. CASE Shutdown \/ AwaitExit
  BY <1>3 DEF Shutdown, AwaitExit, Return, Answer
<1> QED
  BY <1>1, <1>2, <1>3 DEF HandleCommand

LEMMA CallsStep == CInv /\ Paired' /\ [Next]_vars => CInv'
<1> SUFFICES ASSUME CInv, Paired', [Next]_vars
             PROVE  CallsServed' /\ (pipe' = "free" => worker' = "listen" /\ peer' = None)
  BY TypeStep DEF CInv
<1> USE CallerAssumption, CommandAssumption DEF CInv
<1>1. CASE HandleCommand
  BY <1>1, HandlerServes DEF CallsServed
<1>2. CASE Check \/ CreatePipe \/ CreatePipeFails
  <2>1. peer = None
    BY <1>2 DEF Check, CreatePipe, CreatePipeFails, CallsServed, TypeOK, TypeCalls
  <2> QED
    BY <1>2, <2>1 DEF Check, CreatePipe, CreatePipeFails, CallsServed, channel, callers
<1>3. CASE Listen \/ Read
  BY <1>3 DEF Listen, Read, CallsServed, channel, callers, TypeOK, TypeCalls
<1>4. CASE Respond
  BY <1>4 DEF Respond, CallsServed, callers, TypeOK, TypeCalls, TypeService, Replies
<1>5. CASE Stop \/ Wake
  BY <1>5 DEF Stop, Wake, CallsServed, thread, channel, callers
<1>6. CASE Crash
  BY <1>6 DEF Crash, ProcessEnds, CallsServed, TypeOK, TypeCalls
<1>7. CASE Start
  <2>1. peer = None
    BY <1>7 DEF Start, Paired, CallsServed, TypeOK, TypeCalls
  <2> QED
    BY <1>7, <2>1 DEF Start, Paired, CallsServed, channel, callers
<1>8. ASSUME NEW c \in Clients, Call(c) \/ WaitOver(c) \/ OpenFails(c) PROVE CallsServed'
  <2>1. \A d \in Clients : call'[d] = "sent" <=> call[d] = "sent"
    BY <1>8 DEF Call, WaitOver, OpenFails, Fails, TypeOK, TypeCalls
  <2>2. UNCHANGED <<thread, channel>>
    BY <1>8 DEF Call, WaitOver, OpenFails
  <2> QED
    BY <2>1, <2>2 DEF CallsServed, thread, channel
<1>9. ASSUME NEW c \in Clients, Open(c) PROVE CallsServed' /\ pipe' = "taken"
  <2>1. worker = "listen" /\ peer = None /\ request # "stop" /\ wire' # ""
    BY <1>9 DEF Open, Paired
  <2>2. \A d \in Clients : call'[d] = "sent" <=> d = c
    BY <1>9, <2>1 DEF Open, CallsServed, TypeOK, TypeCalls
  <2> QED
    BY <1>9, <2>1, <2>2 DEF Open, CallsServed, thread
<1>10. ASSUME NEW c \in Clients, HangUp(c) PROVE CallsServed'
  <2>1. \A d \in Clients : call'[d] # "sent"
    BY <1>10 DEF HangUp, Fails, CallsServed, TypeOK, TypeCalls
  <2> QED
    BY <1>10, <2>1 DEF HangUp, CallsServed
<1>11. ASSUME NEW c \in Clients, ClientStep(c)
       PROVE  pipe' = "free" => worker' = "listen" /\ peer' = None
  BY <1>9, <1>11 DEF ClientStep, Call, WaitOver, OpenFails, HangUp, thread, channel
<1>12. ASSUME NEW e \in Engines, EngineStep(e) PROVE UNCHANGED <<thread, channel, callers>>
  BY <1>12 DEF EngineStep, GoOnline, Hang, Exit
<1>13. CASE UNCHANGED <<thread, channel, callers>>
  BY <1>13 DEF CallsServed, thread, channel, callers
<1> QED
  BY <1>1, <1>2, <1>3, <1>4, <1>5, <1>6, <1>7, <1>8, <1>9, <1>10, <1>11, <1>12, <1>13
      DEF Next, ServePipe, ClientStep, vars

\* Whoever waits for an answer is at the other end of the pipe, and its request is
\* before the worker, whatever the others, a stop or a crash do: no two callers are
\* mixed up, none is left at an instance that was closed.
THEOREM CallsAlwaysServed == Spec => []CallsServed
<1>1. Init => CInv
  BY IInvInit, CallerAssumption DEF Init, CInv, IInv, CallsServed
<1>2. IInv' => Paired'
  BY DEF IInv
<1>3. CInv => CallsServed
  BY DEF CInv
<1> QED
  BY <1>1, <1>2, <1>3, CallsStep, Inductive, PTL DEF Spec

-----------------------------------------------------------------------------
(* Refinement of EngineLease *)

LeaseState == IF live = {} THEN "none" ELSE IF online = {} THEN "quiet" ELSE "ready"

LEMMA LeaseStarts == Init => Lease!LeaseInit
BY DEF Init, Lease!LeaseInit

\* While at most one engine runs, a step that leaves the service as it is moves
\* the lease as far as one step of the lease does.
LEMMA LeaseMoves ==
    ASSUME IInv, status' = status,
           \/ live' = live /\ online' = online
           \/ live' = {} /\ online' = {}
           \/ live = {} /\ online' = {} /\ status # "stopped"
           \/ live # {} /\ live' = live /\ live' # {}
    PROVE  [Lease!LeaseNext]_<<status, LeaseState>>
BY DEF IInv, TypeOK, TypeEngine, LeaseState, Lease!LeaseNext, Lease!Launch, Lease!Ready,
    Lease!Silent, Lease!End, Lease!Ask, Lease!Down, Lease!Up

LEMMA LeaseStep ==
    ASSUME ~JobMayFail, IInv, IInv', [Next]_vars
    PROVE  [Lease!LeaseNext]_<<status, LeaseState>>
<1> USE NoneAssumption
<1>1. ASSUME UNCHANGED <<status, live, online>> PROVE [Lease!LeaseNext]_<<status, LeaseState>>
  BY <1>1, LeaseMoves
<1>2. CASE Adopt
  <2>1. live = {} /\ online = {} /\ status # "stopped" /\ status' = status /\ online' = {}
    BY <1>2 DEF Adopt, IInv, Paired, Kept, TypeOK, TypeEngine, control
  <2> QED
    BY <2>1, LeaseMoves
<1>3. ASSUME status' = status, CloseJob PROVE [Lease!LeaseNext]_<<status, LeaseState>>
  <2>1. live' = {} /\ online' = {}
    BY <1>3 DEF CloseJob, IInv, Paired, Kept, TypeOK, TypeEngine
  <2> QED
    BY <1>3, <2>1, LeaseMoves
<1>4. ASSUME NEW r, Return(r), live' = {}, online' = {}, worker \in {"shutdown", "await"}
      PROVE  [Lease!LeaseNext]_<<status, LeaseState>>
  <2>1. CASE request = "stop"
    <3>1. status # "stopped" /\ status' = "stopped"
      BY <1>4, <2>1 DEF Return, IInv, Paired, Kept
    <3>2. Lease!Down
      BY <1>4, <3>1 DEF Lease!Down
    <3> QED
      BY <3>2 DEF Lease!LeaseNext, LeaseState
  <2>2. CASE request # "stop"
    BY <1>4, <2>2, LeaseMoves DEF Return
  <2> QED
    BY <2>1, <2>2
<1>5. CASE Shutdown
  <2>1. CASE worker' = "await"
    BY <1>1, <1>5, <2>1 DEF Shutdown, Return, Answer, engine
  <2>2. ASSUME Reap, Return(StopReply) PROVE live' = {} /\ online' = {}
    BY <2>2 DEF Reap, Running, ForgetEngine, CloseJob, engine, IInv, Paired, Kept, TypeOK,
        TypeEngine
  <2> QED
    BY <1>1, <1>4, <1>5, <2>1, <2>2 DEF Shutdown, engine
<1>6. CASE AwaitExit
  <2>1. live' = {} /\ online' = {}
    BY <1>6 DEF AwaitExit, ForgetEngine, CloseJob, IInv, Paired, Kept, TypeOK, TypeEngine
  <2> QED
    BY <1>4, <1>6, <2>1 DEF AwaitExit
<1>7. CASE Trivial \/ Launch \/ PollTimeout \/ Disconnect \/ Priority
  BY <1>1, <1>7 DEF Trivial, Launch, PollTimeout, Disconnect, Priority, control, engine
<1>8. CASE ConnectRefused \/ Poll \/ Kick \/ Status
  <2>1. status' = status
    BY <1>8 DEF ConnectRefused, Poll, Kick, Status, control
  <2>2. UNCHANGED engine \/ CloseJob
    BY <1>8 DEF ConnectRefused, Poll, Kick, Status, Reap, ForgetEngine
  <2> QED
    BY <1>1, <1>3, <2>1, <2>2 DEF engine
<1>9. CASE Connect
  BY <1>3, <1>9 DEF Connect, control
<1>10. CASE Check \/ CreatePipe \/ CreatePipeFails \/ Listen \/ Read \/ Respond \/ Wake
  BY <1>1, <1>10 DEF Check, CreatePipe, CreatePipeFails, Listen, Read, Respond, Wake, control,
      engine
<1>11. CASE Stop
  BY <1>11 DEF Stop, engine, LeaseState, Lease!LeaseNext, Lease!Ask
<1>12. CASE Crash
  <2>1. live' = {} /\ online' = {}
    BY <1>12 DEF Crash, ProcessEnds, CloseJob, IInv, Paired, Kept, TypeOK, TypeEngine
  <2> QED
    BY <1>12, <2>1 DEF Crash, LeaseState, Lease!LeaseNext, Lease!Down
<1>13. CASE Start
  BY <1>13 DEF Start, LeaseState, Lease!LeaseNext, Lease!Up
<1>14. ASSUME NEW c \in Clients, ClientStep(c) PROVE [Lease!LeaseNext]_<<status, LeaseState>>
  BY <1>1, <1>14 DEF ClientStep, Call, WaitOver, OpenFails, Open, HangUp, control, engine
<1>15. ASSUME NEW e \in Engines, EngineStep(e) PROVE [Lease!LeaseNext]_<<status, LeaseState>>
  <2>1. status' = status
    BY <1>15 DEF EngineStep, GoOnline, Hang, Exit, control
  <2>2. CASE Exit(e)
    <3>1. live' = {} /\ online' = {}
      BY <2>2 DEF Exit, IInv, Paired, Kept, TypeOK, TypeEngine
    <3> QED
      BY <2>1, <3>1, LeaseMoves
  <2>3. CASE GoOnline(e) \/ Hang(e)
    <3>1. live # {} /\ live' = live
      BY <2>3 DEF GoOnline, Hang, IInv, TypeOK, TypeEngine
    <3> QED
      BY <2>1, <3>1, LeaseMoves
  <2> QED
    BY <1>15, <2>2, <2>3 DEF EngineStep
<1>16. CASE UNCHANGED vars
  BY <1>1, <1>16 DEF vars, control, engine
<1> QED
  BY <1>2, <1>5, <1>6, <1>7, <1>8, <1>9, <1>10, <1>11, <1>12, <1>13, <1>14, <1>15, <1>16
      DEF Next, ServePipe, HandleCommand

\* Whatever threads, handles and crashes do, what can be seen of the engine is a
\* lease: one engine at most, and none without the service.
THEOREM RefinesEngineLease ==
    ASSUME ~JobMayFail PROVE Spec => ImplementsEngineLease
<1>1. IInv /\ IInv' /\ [Next]_vars => [Lease!LeaseNext]_<<status, LeaseState>>
  BY LeaseStep
<1>2. Spec => Lease!LeaseInit /\ [][Lease!LeaseNext]_<<status, LeaseState>>
  BY <1>1, LeaseStarts, Inductive, PTL DEF Spec
<1> QED
  BY <1>2 DEF ImplementsEngineLease, Lease!LeaseSpec, LeaseState

=============================================================================
