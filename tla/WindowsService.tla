--------------------------- MODULE WindowsService ---------------------------
(***************************************************************************)
(* The Windows network service (client/native/service_main.cpp) and the    *)
(* callers of its pipe (common.cpp, CallService).                          *)
(*                                                                         *)
(* One thread, the worker, serves the named pipe: it makes an instance,    *)
(* waits for a caller, reads a command, runs it to the end, answers, and   *)
(* closes the instance.  Only when it is back at the top of its loop does  *)
(* it look at the stop event.  The service control handler runs on another *)
(* thread: it sets the event and then calls the pipe itself, to wake the   *)
(* worker.  CONNECT starts the engine, a process with an HTTP API of its   *)
(* own that may exit or hang whenever it likes.                            *)
(*                                                                         *)
(* Times are not counted: a wait that has a limit may end at any moment.   *)
(***************************************************************************)
CONSTANTS
    Clients,    \* the threads of the signed-in user that use the pipe
    Engines,    \* identities of engine processes
    None,
    Commands,   \* the commands that clients send
    JobMayFail  \* whether the engine's job object may fail to be set up

ASSUME NoneAssumption == None \notin Engines
ASSUME CallerAssumption == None \notin Clients
ASSUME CommandAssumption ==
    Commands \subseteq {"PING", "CONNECT", "DISCONNECT", "PRIORITY", "KICK", "STATUS"}
ASSUME FaultAssumption == JobMayFail \in BOOLEAN

VARIABLES
    status,     \* what the service control manager knows of the service
    stopEvent,
    waking,     \* the control handler has yet to call the pipe
    worker,     \* where the pipe thread is
    request,    \* the command it runs, or "stop" for the end of ServiceMain
    reply,
    pipe,       \* the only instance of the pipe
    peer,       \* who is at its other end
    wire,       \* the request written into it
    call,       \* where each client is in CallService
    answer,     \* the outcome of its last call
    proc,       \* g_engine_process
    token,      \* g_api_token: the engine it was made for
    live, online,   \* engine processes that run, and whose API answers
    jobbed,     \* the engine processes in the job of g_engine_job
    metric      \* interface metric of the adapter

control == <<status, stopEvent, waking>>
thread == <<worker, request, reply>>
channel == <<pipe, peer, wire>>
callers == <<call, answer>>
engine == <<proc, token, live, online, jobbed>>
vars == <<control, thread, channel, callers, engine, metric>>

EngineOrNone == Engines \cup {None}
Requests == Commands \cup {"", "stop"}
Replies == {"PONG", "CONNECTED", "OFFLINE", "CONNECTING", "ONLINE", "OK", "ERR"}

TypeService ==
    /\ status \in {"running", "stop pending", "stopped"}
    /\ stopEvent \in BOOLEAN /\ waking \in BOOLEAN
    /\ worker \in {"check", "create", "listen", "read", "handle", "launch", "created",
                   "poll", "shutdown", "await", "answer", "gone"}
    /\ request \in Requests
    /\ reply \in Replies \cup {""}

TypeCalls ==
    /\ pipe \in {"none", "free", "taken"}
    /\ peer \in Clients \cup {None}
    /\ wire \in Commands \cup {""}
    /\ call \in [Clients -> {"idle", "wait", "open", "sent"}]
    /\ answer \in [Clients -> Replies \cup {"", "unreachable"}]

TypeEngine ==
    /\ proc \in EngineOrNone /\ token \in EngineOrNone
    /\ worker \in {"launch", "created"} => token \in Engines
    /\ live \subseteq Engines /\ online \subseteq live /\ jobbed \subseteq Engines
    /\ metric \in {"automatic", "1"}

TypeOK == TypeService /\ TypeCalls /\ TypeEngine

Init ==
    /\ status = "running" /\ stopEvent = FALSE /\ waking = FALSE
    /\ worker = "check" /\ request = "" /\ reply = ""
    /\ pipe = "none" /\ peer = None /\ wire = ""
    /\ call = [c \in Clients |-> "idle"]
    /\ answer = [c \in Clients |-> ""]
    /\ proc = None /\ token = None
    /\ live = {} /\ online = {} /\ jobbed = {}
    /\ metric = "automatic"

-----------------------------------------------------------------------------
(* The engine process and the handles to it *)

Running == proc \in live

\* Mutation: the job has no kill-on-close limit.
CloseJobOnly == jobbed' = {} /\ UNCHANGED <<live, online>>

\* The last handle to the job is closed, which kills what is left in it.
CloseJob ==
    /\ jobbed' = {}
    /\ live' = live \ jobbed
    /\ online' = online \ jobbed

ForgetEngine ==
    /\ proc' = None
    /\ token' = None
    /\ CloseJob

\* Mutation: the token of an engine that exited is kept.
ReapKeepsToken ==
    /\ ~Running
    /\ IF proc = None
       THEN UNCHANGED engine
       ELSE proc' = None /\ CloseJob /\ UNCHANGED token

\* ProcessRunningLocked, when it finds that no engine runs.
Reap ==
    /\ ~Running
    /\ IF proc = None THEN UNCHANGED engine ELSE ForgetEngine

\* The engine listens, and takes the service for the service.
ApiAnswers == proc \in online /\ token = proc

Answer(r) ==
    /\ worker' = "answer"
    /\ reply' = r
    /\ UNCHANGED request

\* Where StopEngineLocked returns to: HandleCommand, or ServiceMain, which then
\* reports that the service has stopped.
Return(r) ==
    IF request = "stop"
    THEN /\ worker' = "gone"
         /\ status' = "stopped"
         /\ UNCHANGED <<request, reply>>
    ELSE /\ Answer(r)
         /\ UNCHANGED status

-----------------------------------------------------------------------------
(* HandleCommand *)

Handles(command) == worker = "handle" /\ request = command

\* PING, and everything that is not a command.
Trivial ==
    /\ worker = "handle"
    /\ \/ request = "PING" /\ Answer("PONG")
       \/ request = "" /\ Answer("ERR")
    /\ UNCHANGED <<control, channel, callers, engine, metric>>

\* The request is malformed or an engine runs already; or, when neither is so, an
\* argument is no good, or the adapter, the engine's file or a token is missing.
ConnectRefused ==
    /\ Handles("CONNECT")
    /\ UNCHANGED engine \/ Reap
    /\ Answer("ERR")
    /\ UNCHANGED <<control, channel, callers, metric>>

\* Mutation: StartEngine does not ask whether an engine runs.
StartUnchecked ==
    /\ Handles("CONNECT")
    /\ \E e \in Engines \ live : token' = e
    /\ worker' = "launch"
    /\ UNCHANGED <<control, request, reply, channel, callers, proc, live, online,
                   jobbed, metric>>

\* The first half of StartEngine: no engine runs, and there is a token for a new one.
Connect ==
    /\ Handles("CONNECT")
    /\ ~Running
    /\ proc' = None
    /\ CloseJob
    /\ \E e \in Engines \ live : token' = e
    /\ worker' = "launch"
    /\ UNCHANGED <<control, request, reply, channel, callers, metric>>

\* CreateProcessW makes a process that does not run yet, and never will if the
\* service ends before the next step.
Launch ==
    /\ worker = "launch"
    /\ \/ /\ worker' = "created"
          /\ UNCHANGED <<request, reply, token>>
       \/ /\ token' = None
          /\ Answer("ERR")
    /\ UNCHANGED <<control, channel, callers, proc, live, online, jobbed, metric>>

\* Mutation: the job is forgotten.
AdoptWithoutJob ==
    /\ worker = "created"
    /\ proc' = token
    /\ live' = live \cup {token}
    /\ worker' = "poll"
    /\ UNCHANGED <<control, request, reply, channel, callers, token, online, jobbed, metric>>

\* The process is put into the job, which nobody checks, and may then run.
Adopt ==
    /\ worker = "created"
    /\ \/ jobbed' = jobbed \cup {token}
       \/ JobMayFail /\ UNCHANGED jobbed
    /\ proc' = token
    /\ live' = live \cup {token}
    /\ worker' = "poll"
    /\ UNCHANGED <<control, request, reply, channel, callers, token, online, metric>>

\* The engine exited, or its API answers with an address, which it has from the
\* start.  Otherwise StartEngine sleeps and asks again.
Poll ==
    /\ worker = "poll"
    /\ \/ ~Running /\ Reap /\ Answer("ERR")
       \/ ApiAnswers /\ Answer("CONNECTED") /\ UNCHANGED engine
    /\ UNCHANGED <<control, channel, callers, metric>>

\* 35 seconds have passed.
PollTimeout ==
    /\ worker = "poll"
    /\ worker' = "shutdown"
    /\ UNCHANGED <<control, request, reply, channel, callers, engine, metric>>

Disconnect ==
    /\ Handles("DISCONNECT")
    /\ worker' = "shutdown"
    /\ UNCHANGED <<control, request, reply, channel, callers, engine, metric>>

StopReply == IF request = "DISCONNECT" THEN "OFFLINE" ELSE "ERR"

\* StopEngineLocked: nothing to stop, or POST /shutdown, whose result is ignored.
Shutdown ==
    /\ worker = "shutdown"
    /\ \/ Reap /\ Return(StopReply)
       \/ /\ Running
          /\ worker' = "await"
          /\ UNCHANGED <<status, request, reply, engine>>
    /\ UNCHANGED <<stopEvent, waking, channel, callers, metric>>

\* The engine is gone, or 4 seconds have passed and its job is terminated.
\* TerminateJobObject and the closing of the job's handle do the same.
AwaitExit ==
    /\ worker = "await"
    /\ ForgetEngine
    /\ Return(StopReply)
    /\ UNCHANGED <<stopEvent, waking, channel, callers, metric>>

\* netsh runs outside the mutex, and without asking whether an engine runs.
Priority ==
    /\ Handles("PRIORITY")
    /\ \/ /\ metric' \in {"automatic", "1"}
          /\ Answer("OK")
       \/ Answer("ERR") /\ UNCHANGED metric
    /\ UNCHANGED <<control, channel, callers, engine>>

\* A malformed request, no engine, an engine that says no or nothing, or done.
Kick ==
    /\ Handles("KICK")
    /\ \/ Answer("ERR") /\ UNCHANGED engine
       \/ Reap /\ Answer("ERR")
       \/ ApiAnswers /\ Answer("OK") /\ UNCHANGED engine
    /\ UNCHANGED <<control, channel, callers, metric>>

Status ==
    /\ Handles("STATUS")
    /\ \/ Reap /\ Answer("OFFLINE")
       \/ Running /\ Answer("CONNECTING") /\ UNCHANGED engine
       \/ ApiAnswers /\ Answer("ONLINE") /\ UNCHANGED engine
    /\ UNCHANGED <<control, channel, callers, metric>>

HandleCommand ==
    \/ Trivial
    \/ ConnectRefused \/ Connect \/ Launch \/ Adopt \/ Poll \/ PollTimeout
    \/ Disconnect \/ Shutdown \/ AwaitExit
    \/ Priority \/ Kick \/ Status

-----------------------------------------------------------------------------
(* ServePipe *)

\* Mutation: the worker serves on, whatever the event says.
CheckNothing ==
    /\ worker = "check"
    /\ worker' = "create"
    /\ UNCHANGED <<control, request, reply, channel, callers, engine, metric>>

Check ==
    /\ worker = "check"
    /\ IF stopEvent
       THEN worker' = "shutdown" /\ request' = "stop"
       ELSE worker' = "create" /\ UNCHANGED request
    /\ UNCHANGED <<control, reply, channel, callers, engine, metric>>

CreatePipe ==
    /\ worker = "create"
    /\ pipe' = "free"
    /\ worker' = "listen"
    /\ UNCHANGED <<control, request, reply, peer, wire, callers, engine, metric>>

\* The worker sleeps half a second, and starts over.
CreatePipeFails ==
    /\ worker = "create"
    /\ worker' = "check"
    /\ UNCHANGED <<control, request, reply, channel, callers, engine, metric>>

\* ConnectNamedPipe returns once there is a caller, also one that came first.
Listen ==
    /\ worker = "listen"
    /\ pipe = "taken"
    /\ worker' = "read"
    /\ UNCHANGED <<control, request, reply, channel, callers, engine, metric>>

\* Nothing is read from a caller that hung up without a word.
Read ==
    /\ worker = "read"
    /\ peer = None \/ wire # ""
    /\ request' = wire
    /\ wire' = ""
    /\ worker' = "handle"
    /\ UNCHANGED <<control, reply, pipe, peer, callers, engine, metric>>

\* Mutation: a request is read, and nobody is answered while the service stops.
RespondUnlessStopping ==
    /\ worker = "answer"
    /\ IF peer = None \/ stopEvent
       THEN UNCHANGED callers
       ELSE /\ answer' = [answer EXCEPT ![peer] = reply]
            /\ call' = [call EXCEPT ![peer] = "idle"]
    /\ pipe' = "none" /\ peer' = None
    /\ worker' = "check" /\ request' = "" /\ reply' = ""
    /\ UNCHANGED <<control, wire, engine, metric>>

\* The answer is written and flushed, which waits for the caller to read it, and
\* the instance is closed.
Respond ==
    /\ worker = "answer"
    /\ IF peer = None
       THEN UNCHANGED callers
       ELSE /\ answer' = [answer EXCEPT ![peer] = reply]
            /\ call' = [call EXCEPT ![peer] = "idle"]
    /\ pipe' = "none" /\ peer' = None
    /\ worker' = "check" /\ request' = "" /\ reply' = ""
    /\ UNCHANGED <<control, wire, engine, metric>>

ServePipe ==
    \/ Check \/ CreatePipe \/ CreatePipeFails \/ Listen \/ Read \/ Respond
    \/ HandleCommand

-----------------------------------------------------------------------------
(* ServiceControl *)

\* The service manager sends the control only to a service that runs.
Stop ==
    /\ status = "running"
    /\ status' = "stop pending"
    /\ stopEvent' = TRUE
    /\ waking' = TRUE
    /\ UNCHANGED <<thread, channel, callers, engine, metric>>

\* CreateFileW, and CloseHandle if the call got through.
Wake ==
    /\ waking
    /\ waking' = FALSE
    /\ pipe' = IF pipe = "free" THEN "taken" ELSE pipe
    /\ UNCHANGED <<status, stopEvent, thread, peer, wire, callers, engine, metric>>

\* The process of the service ends, and Windows closes its handles.
ProcessEnds ==
    /\ pipe' = "none" /\ peer' = None /\ wire' = ""
    /\ call' = [c \in Clients |-> IF c = peer THEN "idle" ELSE call[c]]
    /\ answer' = [c \in Clients |-> IF c = peer THEN "unreachable" ELSE answer[c]]
    /\ CloseJob

Crash ==
    /\ status # "stopped"
    /\ status' = "stopped"
    /\ waking' = FALSE
    /\ worker' = "gone"
    /\ ProcessEnds
    /\ UNCHANGED <<stopEvent, request, reply, proc, token, metric>>

\* ServiceMain in a new process, when the old one has ended.
Start ==
    /\ status = "stopped"
    /\ ~waking
    /\ status' = "running" /\ stopEvent' = FALSE
    /\ worker' = "check" /\ request' = "" /\ reply' = ""
    /\ proc' = None /\ token' = None
    /\ UNCHANGED <<waking, channel, callers, live, online, jobbed, metric>>

-----------------------------------------------------------------------------
(* CallService *)

Fails(c) ==
    /\ call' = [call EXCEPT ![c] = "idle"]
    /\ answer' = [answer EXCEPT ![c] = "unreachable"]

\* WaitNamedPipeW fails at once if there is no instance, and waits if there is
\* one that is taken.
Call(c) ==
    /\ call[c] = "idle"
    /\ \/ pipe = "none" /\ Fails(c)
       \/ pipe = "free" /\ call' = [call EXCEPT ![c] = "open"] /\ UNCHANGED answer
       \/ pipe = "taken" /\ call' = [call EXCEPT ![c] = "wait"] /\ UNCHANGED answer
    /\ UNCHANGED <<control, thread, channel, engine, metric>>

\* The wait ends with an instance that is free, or for the time that passed.
WaitOver(c) ==
    /\ call[c] = "wait"
    /\ \/ pipe = "free" /\ call' = [call EXCEPT ![c] = "open"] /\ UNCHANGED answer
       \/ Fails(c)
    /\ UNCHANGED <<control, thread, channel, engine, metric>>

\* Somebody else may have been faster.
OpenFails(c) ==
    /\ call[c] = "open"
    /\ pipe # "free"
    /\ Fails(c)
    /\ UNCHANGED <<control, thread, channel, engine, metric>>

Open(c) ==
    /\ call[c] = "open"
    /\ pipe = "free"
    /\ pipe' = "taken"
    /\ peer' = c
    /\ \E command \in Commands : wire' = command
    /\ call' = [call EXCEPT ![c] = "sent"]
    /\ UNCHANGED <<control, thread, answer, engine, metric>>

\* The caller's process ends before it has its answer.
HangUp(c) ==
    /\ call[c] = "sent"
    /\ peer' = None
    /\ Fails(c)
    /\ UNCHANGED <<control, thread, pipe, wire, engine, metric>>

-----------------------------------------------------------------------------
(* The engine process: external *)

\* Its API answers, which the engine starts when it has joined its room
\* (main.go:189-234).  Whether it is a member still is not modelled.
GoOnline(e) ==
    /\ e \in live \ online
    /\ online' = online \cup {e}
    /\ UNCHANGED <<control, thread, channel, callers, proc, token, live, jobbed,
                   metric>>

\* It hangs, or its API does not answer in time.
Hang(e) ==
    /\ e \in online
    /\ online' = online \ {e}
    /\ UNCHANGED <<control, thread, channel, callers, proc, token, live, jobbed,
                   metric>>

\* It was asked to, it failed to join, or it was removed from its room.
Exit(e) ==
    /\ e \in live
    /\ live' = live \ {e}
    /\ online' = online \ {e}
    /\ UNCHANGED <<control, thread, channel, callers, proc, token, jobbed, metric>>

ClientStep(c) == Call(c) \/ WaitOver(c) \/ OpenFails(c) \/ Open(c) \/ HangUp(c)
EngineStep(e) == GoOnline(e) \/ Hang(e) \/ Exit(e)

Next ==
    \/ ServePipe
    \/ Stop \/ Wake \/ Crash \/ Start
    \/ \E c \in Clients : ClientStep(c)
    \/ \E e \in Engines : EngineStep(e)

Spec == Init /\ [][Next]_vars

\* Every step of the worker ends: its waits for the engine have limits, and it
\* cannot fail for ever to make a pipe.  So do a client's call and the handler's.
Fairness ==
    /\ WF_vars(ServePipe)
    /\ SF_vars(CreatePipe)
    /\ WF_vars(PollTimeout)
    /\ WF_vars(Wake)
    /\ \A c \in Clients : WF_vars(WaitOver(c) \/ OpenFails(c) \/ Open(c))

FairSpec == Spec /\ Fairness

\* Somebody goes on calling, as a UI does that is open.
BusySpec == FairSpec /\ \A c \in Clients : WF_vars(Call(c))

-----------------------------------------------------------------------------
(* Properties *)

\* Every engine that runs is the one the service has a handle to, so that the
\* next DISCONNECT or stop ends it: StartEngine, StopEngineLocked and
\* ProcessRunningLocked drop no handle of a running engine.
EngineOwned == live \subseteq {proc}

\* docs/architecture.md: stopping the service also stops its data plane.  So does
\* a crash.
NoEngineOutlivesService == status = "stopped" => live = {}

\* Except while an engine is started, the control token is the one of the engine
\* that the service has a handle to, and there is none without an engine: what
\* answers the service with CONNECTED or the nodes is not an earlier engine.
TokenFits == worker \notin {"launch", "created", "gone"} => token = proc

\* A client that reads OFFLINE may rely on it: no engine runs, whether it asked
\* for the status or to disconnect.
OfflineIsTrue == worker = "answer" /\ reply = "OFFLINE" => live = {}

\* A client that waits for its answer is the one at the other end of the pipe, and
\* the worker has its request before it: nobody gets the answer to another's
\* command, and nobody waits at an instance that was closed or by a worker that is
\* done with it.
CallsServed ==
    \A c \in Clients :
        /\ call[c] = "sent" <=> peer = c
        /\ peer = c => /\ pipe = "taken" /\ request # "stop"
                       /\ worker \notin {"check", "create", "gone"}
                       /\ worker \in {"listen", "read"} => wire # ""

Lease == INSTANCE EngineLease WITH
    service <- status,
    lease <- IF live = {} THEN "none" ELSE IF online = {} THEN "quiet" ELSE "ready"

\* The threads, handles and commands do nothing that EngineLease does not allow.
ImplementsEngineLease == Lease!LeaseSpec

\* A service that was told to stop does stop, whatever it was doing.
StopCompletes == stopEvent ~> status = "stopped"

\* No call of a client hangs: it ends with the answer of the service or without.
CallsEnd == \A c \in Clients : call[c] # "idle" ~> call[c] = "idle"

=============================================================================
