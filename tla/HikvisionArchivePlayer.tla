----------------------- MODULE HikvisionArchivePlayer -----------------------
(***************************************************************************)
(* The players of the archive window.  The GUI thread posts each player's  *)
(* requests to a worker thread of the player's own, which stops the        *)
(* playback, shares the recorder's session with the other players through  *)
(* HikvisionManager, and starts a stream; the SDK delivers the stream from *)
(* a thread of its own to the decoder port.  The GUI thread changes the    *)
(* player's members, and destroys the player, while the worker is at work. *)
(*                                                                         *)
(* NET_DVR_StopPlayBack is assumed to return after the stream's running    *)
(* callback has, unless it fails.  Handles and ports are given again once  *)
(* they are free; what the SDK refuses to stop or free stays in use.       *)
(***************************************************************************)
EXTENDS Naturals, Sequences, FiniteSets

CONSTANTS
    Players,
    Ips,            \* recorders
    Ids,            \* bound: the user ids the SDK has to give
    Handles,        \* playbacks the SDK runs at a time
    Ports,          \* decoders PlayM4 has
    PtzWorker, None,
    MaxReferences,  \* bound of HikvisionManager
    MaxRefusals,    \* bound: playbacks and ports the SDK refuses to stop or free
    MaxRequests     \* bound: requests made of the players, all told

VARIABLES
    m_sessions, m_sharedSessions, sdk, init, call, m_ptzQueue, shown,  \* HikvisionManager
    player,     \* each player's members
    tasks,      \* requests posted to its worker's event loop
    worker,     \* what the worker is doing; after it, the destructor
    destroying, \* the player whose destructor the GUI thread is in
    requests,
    stream,     \* of each handle: whose it is, how far it is opened
    callback,   \* PlayDataCallBack of each handle
    ports,      \* decoder ports: "free", "allocated", "open", or "refused" to be freed
    s_portMap

managerVars == <<m_sessions, m_sharedSessions, sdk, init, call, m_ptzQueue, shown>>
guiVars == <<destroying, requests>>
streamVars == <<stream, callback, ports, s_portMap>>
vars == <<managerVars, player, tasks, worker, guiVars, streamVars>>

Manager ==
    INSTANCE HikvisionManager WITH Clients <- Players, PtzLimit <- 0

\* The last three are the manager's own assumptions.
ASSUME ArchiveAssumption ==
    /\ None \notin Handles \cup Ports \cup Players
    /\ MaxRequests \in Nat
    /\ MaxRefusals \in Nat
    /\ PtzWorker \notin Players
    /\ None \notin Ids \cup Manager!SharedSession
    /\ MaxReferences \in Nat

Alive(p) == worker[p].at # "gone"

\* The thread that works for p goes on at a place of its task.
Goes(p, at) == worker' = [worker EXCEPT ![p].at = at]

Begins(task) ==
    [at |-> IF task.kind \in {"pause", "resume"} THEN "control" ELSE "exchange",
     task |-> task, retry |-> FALSE, handle |-> None, port |-> None]

Waiting == [at |-> "waiting"]

Gone == [at |-> "gone"]

\* A task is over: the event loop delivers all that is posted before it waits.
Ends(p) ==
    IF tasks[p] = << >>
    THEN worker' = [worker EXCEPT ![p] = Waiting] /\ UNCHANGED tasks
    ELSE /\ worker' = [worker EXCEPT ![p] = Begins(Head(tasks[p]))]
         /\ tasks' = [tasks EXCEPT ![p] = Tail(@)]

-----------------------------------------------------------------------------
(***************************************************************************)
(* The GUI thread.                                                         *)
(***************************************************************************)
Posts(p, task) ==
    /\ destroying = None /\ Alive(p) /\ requests < MaxRequests
    /\ requests' = requests + 1
    /\ tasks' = [tasks EXCEPT ![p] = Append(@, task)]
    /\ UNCHANGED <<managerVars, worker, destroying, streamVars>>

PlayAtTime(p) ==
    /\ Posts(p, [kind |-> "play", ip |-> player[p].m_recorderIp, id |-> None])
    /\ UNCHANGED player

\* stop() and setChannelId().
Stop(p) ==
    Posts(p, [kind |-> "stop", ip |-> None, id |-> None]) /\ UNCHANGED player

PauseOrResume(p, kind) ==
    /\ player[p].m_lPlayHandle # None
    /\ Posts(p, [kind |-> kind, ip |-> None, id |-> None])
    /\ UNCHANGED player

\* setRecorderIp(), and setPort(), setUsername(), setPassword(), which leave ip.
Reconfigure(p, ip) ==
    /\ Posts(p, [kind |-> "logout", ip |-> player[p].m_recorderIp, id |-> player[p].m_lUserID])
    /\ player' = [player EXCEPT ![p].m_recorderIp = ip, ![p].m_lUserID = None]

\* ~HikvisionArchivePlayer: quit(), wait() and all that follows block the GUI thread.
Destroy(p) ==
    /\ destroying = None /\ Alive(p)
    /\ destroying' = p
    /\ UNCHANGED <<managerVars, player, tasks, worker, requests, streamVars>>

Requests ==
    \E p \in Players :
        \/ PlayAtTime(p) \/ Stop(p) \/ PauseOrResume(p, "pause") \/ PauseOrResume(p, "resume")
        \/ \E ip \in Ips : Reconfigure(p, ip)
        \/ Destroy(p)

-----------------------------------------------------------------------------
(***************************************************************************)
(* The worker's event loop.                                                *)
(***************************************************************************)
TakesTask(p) ==
    /\ worker[p] = Waiting /\ tasks[p] # << >> /\ Ends(p)
    /\ UNCHANGED <<managerVars, player, guiVars, streamVars>>

\* quit() ends a loop that waits, with what was posted before it or not; the
\* destructor calls cleanupPlayback() next.
LoopExits(p) ==
    /\ worker[p] = Waiting /\ destroying = p
    /\ worker' = [worker EXCEPT ![p] = Begins([kind |-> "destroy", ip |-> None, id |-> None])]
    /\ tasks' = [tasks EXCEPT ![p] = << >>]
    /\ UNCHANGED <<managerVars, player, guiVars, streamVars>>

Controls(p) ==
    /\ worker[p].at = "control" /\ Ends(p)
    /\ player' = IF player[p].m_lPlayHandle = None THEN player
                 ELSE [player EXCEPT ![p].m_isPlaying = (worker[p].task.kind = "resume")]
    /\ UNCHANGED <<managerVars, guiVars, streamVars>>

\* After cleanupPlayback(), whose locals are gone.
CleanedUp(p, at) ==
    worker' = [worker EXCEPT ![p].at = at, ![p].handle = None, ![p].port = None]

GoesOn(p) ==
    LET task == worker[p].task
    IN  CASE task.kind = "play" -> CleanedUp(p, "ensureLogin") /\ UNCHANGED tasks
          [] task.kind = "destroy" \/ task.id # None -> CleanedUp(p, "leave") /\ UNCHANGED tasks
          [] OTHER -> Ends(p)

\* cleanupPlayback(): the members are given up first, then the stream is
\* stopped, then the port is freed.
Exchanges(p) ==
    /\ worker[p].at = "exchange"
    /\ IF player[p].m_lPlayHandle = None
       THEN /\ player' = [player EXCEPT ![p].m_isPlaying = FALSE]
            /\ GoesOn(p)
       ELSE /\ player' = [player EXCEPT ![p].m_lPlayHandle = None, ![p].m_nPort = None]
            /\ worker' = [worker EXCEPT ![p].at = "stopPlayBack",
                                        ![p].handle = player[p].m_lPlayHandle,
                                        ![p].port = player[p].m_nPort]
            /\ UNCHANGED tasks
    /\ UNCHANGED <<managerVars, guiVars, streamVars>>

NoStream == [user |-> None, state |-> "free", head |-> FALSE]

NoCallback == [at |-> "idle", type |-> "none", port |-> None]

\* NET_DVR_StopPlayBack: the SDK makes no new callback, and waits for the one
\* that runs.
StopPlayBack(p) ==
    /\ worker[p].at = "stopPlayBack" /\ Goes(p, "stopping")
    /\ stream' = [stream EXCEPT ![worker[p].handle].state = "stopping"]
    /\ UNCHANGED <<managerVars, player, tasks, guiVars, callback, ports, s_portMap>>

StopReturns(p) ==
    LET h == worker[p].handle
    IN  /\ worker[p].at = "stopping" /\ callback[h] = NoCallback
        /\ stream' = [stream EXCEPT ![h] = NoStream]
        /\ Goes(p, "freePort")
        /\ UNCHANGED <<managerVars, player, tasks, guiVars, callback, ports, s_portMap>>

\* Bound: what the SDK refused to stop or free so far.
MayRefuse ==
    Cardinality({h \in Handles : stream[h].state = "refused"})
      + Cardinality({o \in Ports : ports[o] = "refused"}) < MaxRefusals

\* NET_DVR_StopPlayBack fails, which is only logged: the playback goes on, and
\* the callback that runs was not waited for.
StopFails(p) ==
    /\ worker[p].at = "stopping" /\ MayRefuse /\ Goes(p, "freePort")
    /\ stream' = [stream EXCEPT ![worker[p].handle].state = "refused"]
    /\ UNCHANGED <<managerVars, player, tasks, guiVars, callback, ports, s_portMap>>

FreePortKeepsMap(p) ==  \* mutant of FreePort
    /\ worker[p].at = "freePort" /\ GoesOn(p)
    /\ ports' = [ports EXCEPT ![worker[p].port] = "free"]
    /\ player' = [player EXCEPT ![p].m_isPlaying = FALSE]
    /\ UNCHANGED <<managerVars, guiVars, stream, callback, s_portMap>>

\* PlayM4_FreePort may fail, which is only logged too.
FreePort(p) ==
    LET o == worker[p].port
    IN  /\ worker[p].at = "freePort" /\ GoesOn(p)
        /\ s_portMap' = [s_portMap EXCEPT ![o] = None]
        /\ \E state \in {"free"} \cup IF MayRefuse THEN {"refused"} ELSE {} :
             ports' = [ports EXCEPT ![o] = state]
        /\ player' = [player EXCEPT ![p].m_isPlaying = FALSE]
        /\ UNCHANGED <<managerVars, guiVars, stream, callback>>

-----------------------------------------------------------------------------
(***************************************************************************)
(* The sessions, and playAtTime() after the cleanup.                       *)
(***************************************************************************)
Asks(p, op, ip, at) ==
    /\ Manager!Call(p, op, ip) /\ Goes(p, at)
    /\ UNCHANGED <<player, tasks, guiVars, streamVars>>

Answered(p) == call[p] # Manager!NoCall /\ call[p].at = "returned" /\ Manager!Returns(p)

\* ensureLogin(): the player's session, or one shared with the others.
EnsuresLogin(p) ==
    /\ worker[p].at = "ensureLogin"
    /\ \/ /\ player[p].m_lUserID # None /\ Goes(p, "playBack")
          /\ UNCHANGED <<managerVars, player, tasks, guiVars, streamVars>>
       \/ /\ player[p].m_lUserID = None
          /\ Asks(p, "loginShared", worker[p].task.ip, "login")

LoggedIn(p) ==
    /\ worker[p].at = "login" /\ Answered(p) /\ Goes(p, "loggedIn")
    /\ player' = [player EXCEPT ![p].m_lUserID = call[p].id]
    /\ UNCHANGED <<tasks, guiVars, streamVars>>

\* m_lUserID is read again: the GUI thread may have taken the session away.
TestsLogin(p) ==
    /\ worker[p].at = "loggedIn"
    /\ IF player[p].m_lUserID = None THEN Ends(p) ELSE Goes(p, "playBack") /\ UNCHANGED tasks
    /\ UNCHANGED <<managerVars, player, guiVars, streamVars>>

PlaysBack(p) ==
    LET id == player[p].m_lUserID
    IN  /\ worker[p].at = "playBack" /\ id # None /\ sdk[id] = "open"
        /\ \E h \in Handles :
             /\ stream[h] = NoStream
             /\ stream' = [stream EXCEPT ![h] = [user |-> p, state |-> "opened", head |-> FALSE]]
             /\ worker' = [worker EXCEPT ![p].at = "getPort", ![p].handle = h, ![p].retry = FALSE]
        /\ UNCHANGED <<managerVars, player, tasks, guiVars, callback, ports, s_portMap>>

\* NET_DVR_PlayBackByTime_V40 fails: once the session is forced out, and the
\* playback tried again with a new one.
PlayBackFails(p) ==
    /\ worker[p].at = "playBack"
    /\ IF worker[p].retry
       THEN Ends(p) /\ UNCHANGED <<managerVars, player>>
       ELSE /\ player' = [player EXCEPT ![p].m_lUserID = None]
            /\ worker' = [worker EXCEPT ![p].retry = TRUE,
                            ![p].at = IF player[p].m_lUserID = None THEN "ensureLogin" ELSE "force"]
            /\ IF player[p].m_lUserID = None
               THEN UNCHANGED managerVars
               ELSE Manager!Call(p, "forceLogoutShared", worker[p].task.ip)
            /\ UNCHANGED tasks
    /\ UNCHANGED <<guiVars, streamVars>>

Forced(p) ==
    /\ worker[p].at = "force" /\ Answered(p) /\ Goes(p, "ensureLogin")
    /\ UNCHANGED <<player, tasks, guiVars, streamVars>>

GetPort(p) ==
    /\ worker[p].at = "getPort"
    /\ \E o \in Ports :
         /\ ports[o] = "free"
         /\ ports' = [ports EXCEPT ![o] = "allocated"]
         /\ player' = [player EXCEPT ![p].m_lPlayHandle = worker[p].handle, ![p].m_nPort = o]
    /\ worker' = [worker EXCEPT ![p].at = "setCallback", ![p].handle = None]
    /\ UNCHANGED <<managerVars, tasks, guiVars, stream, callback, s_portMap>>

GetPortFailsOpen(p) ==  \* mutant of GetPortFails
    /\ worker[p].at = "getPort" /\ Ends(p)
    /\ UNCHANGED <<managerVars, player, guiVars, streamVars>>

\* The playback is stopped again, or NET_DVR_StopPlayBack fails.
GetPortFails(p) ==
    /\ worker[p].at = "getPort" /\ Ends(p)
    /\ \/ stream' = [stream EXCEPT ![worker[p].handle] = NoStream]
       \/ MayRefuse /\ stream' = [stream EXCEPT ![worker[p].handle].state = "refused"]
    /\ UNCHANGED <<managerVars, player, guiVars, callback, ports, s_portMap>>

\* NET_DVR_SetPlayDataCallBack_V40, then NET_DVR_PLAYSTART; when either fails
\* the task ends with another cleanupPlayback().
StartsStream(p, from, state, at) ==
    /\ worker[p].at = from
    /\ \/ /\ stream' = [stream EXCEPT ![player[p].m_lPlayHandle].state = state]
          /\ Goes(p, at)
       \/ /\ worker' = [worker EXCEPT ![p] = Begins([kind |-> "stop", ip |-> None, id |-> None])]
          /\ UNCHANGED stream
    /\ UNCHANGED <<managerVars, player, tasks, guiVars, callback, ports, s_portMap>>

SetsCallback(p) == StartsStream(p, "setCallback", "registered", "playStart")

PlayStarts(p) == StartsStream(p, "playStart", "started", "started")

Started(p) ==
    /\ worker[p].at = "started" /\ Ends(p)
    /\ player' = [player EXCEPT ![p].m_sysHeadReceived = FALSE, ![p].m_isPlaying = TRUE]
    /\ UNCHANGED <<managerVars, guiVars, streamVars>>

\* The logout of a setter's task, and of the destructor.
LeavesSession(p) ==
    LET task == worker[p].task
        ip == IF task.kind = "destroy" THEN player[p].m_recorderIp ELSE task.ip
        id == IF task.kind = "destroy" THEN player[p].m_lUserID ELSE task.id
    IN  /\ worker[p].at = "leave"
        /\ \/ id # None /\ Asks(p, "logoutShared", ip, "logout")
           \/ /\ id = None
              /\ worker' = [worker EXCEPT ![p] = Gone] /\ destroying' = None
              /\ UNCHANGED <<managerVars, player, tasks, requests, streamVars>>

LeftSession(p) ==
    /\ worker[p].at = "logout" /\ Answered(p)
    /\ IF worker[p].task.kind = "destroy"
       THEN /\ worker' = [worker EXCEPT ![p] = Gone] /\ destroying' = None
            /\ player' = [player EXCEPT ![p].m_lUserID = None]
            /\ UNCHANGED tasks
       ELSE Ends(p) /\ UNCHANGED <<player, destroying>>
    /\ UNCHANGED <<requests, streamVars>>

Works(p) ==
    \/ TakesTask(p) \/ LoopExits(p) \/ Controls(p) \/ Exchanges(p) \/ StopPlayBack(p)
    \/ StopReturns(p) \/ FreePort(p) \/ EnsuresLogin(p) \/ LoggedIn(p) \/ TestsLogin(p) \/ PlaysBack(p)
    \/ PlayBackFails(p) \/ Forced(p) \/ GetPort(p) \/ GetPortFails(p) \/ SetsCallback(p)
    \/ PlayStarts(p) \/ Started(p) \/ LeavesSession(p) \/ LeftSession(p)
    \/ (Manager!Steps(p) /\ UNCHANGED <<player, tasks, worker, guiVars, streamVars>>)

-----------------------------------------------------------------------------
(***************************************************************************)
(* PlayDataCallBack, on the SDK's thread of handle h: the stream's header  *)
(* first, then its data.                                                   *)
(***************************************************************************)
Returns(h) == callback' = [callback EXCEPT ![h] = NoCallback]

\* What the SDK refused to stop may go on.
DataArrives(h) ==
    /\ stream[h].state \in {"started", "refused"} /\ callback[h] = NoCallback
    /\ stream' = [stream EXCEPT ![h].head = TRUE]
    /\ callback' = [callback EXCEPT ![h] =
         [at |-> "entered", type |-> IF stream[h].head THEN "data" ELSE "head", port |-> None]]
    /\ UNCHANGED <<managerVars, player, tasks, worker, guiVars, ports, s_portMap>>

ReadsMembersUnchecked(h) ==  \* mutant of ReadsMembers
    /\ callback[h].at = "entered"
    /\ callback' = [callback EXCEPT
         ![h].at = IF callback[h].type = "head" THEN "head" ELSE "input",
         ![h].port = player[stream[h].user].m_nPort]
    /\ UNCHANGED <<managerVars, player, tasks, worker, guiVars, stream, ports, s_portMap>>

\* Under m_stateMutex.  Late data is discarded, and data before a header; so is
\* all the data of a player that is gone, which holds no handle.
ReadsMembers(h) ==
    LET p == stream[h].user
        isHead == callback[h].type = "head"
    IN  /\ callback[h].at = "entered"
        /\ IF player[p].m_lPlayHandle = h /\ (isHead \/ player[p].m_sysHeadReceived)
           THEN callback' = [callback EXCEPT ![h].at = IF isHead THEN "head" ELSE "input",
                                             ![h].port = player[p].m_nPort]
           ELSE Returns(h)
        /\ UNCHANGED <<managerVars, player, tasks, worker, guiVars, stream, ports, s_portMap>>

\* Under m_stateMutex again: the header is noted.  It is discarded when a
\* cleanupPlayback(), whose first act changes the session id, has begun since.
NotesHeader(h) ==
    LET p == stream[h].user
    IN  /\ callback[h].at = "head"
        /\ \/ /\ callback' = [callback EXCEPT ![h].at = "open"]
              /\ player' = [player EXCEPT ![p].m_sysHeadReceived = TRUE]
           \/ /\ worker[p].at = "exchange" \/ player[p].m_lPlayHandle # h
              /\ Returns(h) /\ UNCHANGED player
        /\ UNCHANGED <<managerVars, tasks, worker, guiVars, stream, ports, s_portMap>>

\* There is no port, or PlayM4_OpenStream fails, as it does on a port that is
\* free; or the port is opened and registered, whoever holds it now.
OpensStream(h) ==
    LET o == callback[h].port
    IN  /\ callback[h].at = "open" /\ Returns(h)
        /\ \/ UNCHANGED <<ports, s_portMap>>
           \/ /\ o # None /\ ports[o] # "free"
              /\ ports' = [ports EXCEPT ![o] = IF @ = "refused" THEN @ ELSE "open"]
              /\ s_portMap' = [s_portMap EXCEPT ![o] = stream[h].user]
        /\ UNCHANGED <<managerVars, player, tasks, worker, guiVars, stream>>

\* PlayM4_InputData takes the data, or refuses it for good.
InputsData(h) ==
    /\ callback[h].at = "input" /\ Returns(h)
    /\ UNCHANGED <<managerVars, player, tasks, worker, guiVars, stream, ports, s_portMap>>

GivesUpNever(h) ==  \* mutant of GivesUpInput
    callback[h].at = "input" /\ UNCHANGED vars

\* PLAYM4_BUF_OVER: tried again until the members say that the playback is
\* over or paused.
GivesUpInput(h) ==
    LET p == stream[h].user
    IN  /\ callback[h].at = "input" /\ Returns(h)
        /\ player[p].m_lPlayHandle # h \/ ~player[p].m_isPlaying
        /\ UNCHANGED <<managerVars, player, tasks, worker, guiVars, stream, ports, s_portMap>>

Delivers(h) == ReadsMembers(h) \/ NotesHeader(h) \/ OpensStream(h) \/ GivesUpInput(h)

-----------------------------------------------------------------------------
\* The players are made when the program has long been running.
Init ==
    /\ m_sessions = [ip \in Ips |-> None] /\ m_sharedSessions = [ip \in Ips |-> None]
    /\ sdk = [id \in Ids |-> "unused"] /\ init = "ready"
    /\ call = [t \in Players \cup {PtzWorker} |-> Manager!NoCall]
    /\ m_ptzQueue = << >> /\ shown = [ip \in Ips |-> FALSE]
    /\ \E ip \in Ips :
         player = [p \in Players |->
           [m_recorderIp |-> ip, m_lUserID |-> None, m_lPlayHandle |-> None, m_nPort |-> None,
            m_sysHeadReceived |-> FALSE, m_isPlaying |-> FALSE]]
    /\ tasks = [p \in Players |-> << >>]
    /\ worker = [p \in Players |-> Waiting]
    /\ destroying = None
    /\ requests = 0
    /\ stream = [h \in Handles |-> NoStream]
    /\ callback = [h \in Handles |-> NoCallback]
    /\ ports = [o \in Ports |-> "free"]
    /\ s_portMap = [o \in Ports |-> None]

Runs ==
    \/ \E p \in Players : Works(p) \/ StopFails(p)
    \/ \E h \in Handles : DataArrives(h) \/ Delivers(h) \/ InputsData(h)

Next == Requests \/ Runs

Spec == Init /\ [][Next]_vars

\* Worker threads, callbacks and the SDK's calls go on; that the decoder ever
\* takes the data is not assumed, nor that a call fails which has to wait.
Fairness ==
    /\ \A p \in Players : WF_vars(Works(p))
    /\ \A h \in Handles : WF_vars(Delivers(h))

FairSpec == Spec /\ Fairness

-----------------------------------------------------------------------------
Tasks == [kind : {"play", "stop", "pause", "resume", "logout", "destroy"},
          ip : Ips \cup {None}, id : Ids \cup {None}]

Places == {"exchange", "control", "stopPlayBack", "stopping", "freePort", "ensureLogin", "login", "loggedIn",
           "playBack", "force", "getPort", "setCallback", "playStart", "started", "leave", "logout"}

TypeOK ==
    /\ Manager!TypeOK
    /\ player \in [Players -> [m_recorderIp : Ips, m_lUserID : Ids \cup {None},
                               m_lPlayHandle : Handles \cup {None}, m_nPort : Ports \cup {None},
                               m_sysHeadReceived : BOOLEAN, m_isPlaying : BOOLEAN]]
    /\ tasks \in [Players -> Seq(Tasks)]
    /\ worker \in [Players -> {Waiting, Gone}
                     \cup [at : Places, task : Tasks, retry : BOOLEAN,
                           handle : Handles \cup {None}, port : Ports \cup {None}]]
    /\ destroying \in Players \cup {None}
    /\ requests \in 0..MaxRequests
    /\ stream \in [Handles -> [user : Players \cup {None}, head : BOOLEAN,
                               state : {"free", "opened", "registered", "started", "stopping", "refused"}]]
    /\ callback \in [Handles -> [at : {"idle", "entered", "head", "open", "input"},
                                 type : {"none", "head", "data"}, port : Ports \cup {None}]]
    /\ ports \in [Ports -> {"free", "allocated", "open", "refused"}]
    /\ s_portMap \in [Ports -> Players \cup {None}]

\* What a player holds: in its members, or in the hands of its worker.
Holds(p, h) ==
    \/ Alive(p) /\ player[p].m_lPlayHandle = h
    \/ worker[p].at \in {"getPort", "stopPlayBack", "stopping"} /\ worker[p].handle = h

HoldsPort(p, o) ==
    \/ Alive(p) /\ player[p].m_nPort = o
    \/ worker[p].at \in {"stopPlayBack", "stopping", "freePort"} /\ worker[p].port = o

\* Playbacks and decoders are never held twice, so never stopped twice, and are
\* not forgotten while they run: whichever call fails and whenever the player is
\* destroyed, each one in use is held by one player, which is alive.  Only those
\* the SDK refused to stop or free are held by nobody: the code logs that, and
\* has given them up.
StreamHasOneHolder ==
    /\ \A h \in Handles :
         Cardinality({p \in Players : Holds(p, h)}) =
            IF stream[h] = NoStream \/ stream[h].state = "refused" THEN 0 ELSE 1
    /\ \A o \in Ports :
         Cardinality({p \in Players : HoldsPort(p, o)}) =
            IF ports[o] \in {"free", "refused"} THEN 0 ELSE 1

\* The data of a stream is given to the decoder of its own player, and that
\* port has not been freed (and given to another) under the callback, which
\* holds no lock when it uses it; unless the SDK refused to stop the stream.
DataGoesToOwnDecoder ==
    \A h \in Handles :
        callback[h].at \in {"head", "open", "input"} /\ stream[h].state # "refused" =>
            callback[h].port \in Ports /\ HoldsPort(stream[h].user, callback[h].port)

\* A playback of the player's that the SDK refused to stop.
Refused(p) == \E h \in Handles : stream[h].user = p /\ stream[h].state = "refused"

\* DecCallBack finds its player by the port: only a port a player holds is
\* registered, with that player; but the header of a playback the SDK refused
\* to stop may come after the port was freed.
PortMapIsCurrent ==
    \A o \in Ports :
        s_portMap[o] # None => HoldsPort(s_portMap[o], o) \/ Refused(s_portMap[o])

\* A destructor, which blocks the GUI thread, ends: although the worker may
\* be in any task, the stream's callback in any loop, and the decoder full.
DestructorEnds == destroying # None ~> destroying = None

=============================================================================
