-------------------------- MODULE HikvisionManager --------------------------
(***************************************************************************)
(* HikvisionManager: the recorder sessions of the whole program.  Any      *)
(* thread may call it.  m_sharedSessionsMutex protects the two tables, but *)
(* every call releases it around the SDK's login and logout and around the *)
(* signal it emits, so a call is several steps; between them any other     *)
(* call may run.  PTZ commands are queued for a worker of their own.       *)
(***************************************************************************)
EXTENDS Naturals, Sequences, FiniteSets

CONSTANTS
    Clients,    \* threads that call the manager
    PtzWorker,  \* the thread of ptzWorkerLoop()
    Ips,        \* recorders
    Ids,        \* bound: the user ids the SDK has to give
    None,
    MaxReferences,  \* bound: a shared session with that many is not asked for
    PtzLimit        \* bound: PTZ commands queued

Threads == Clients \cup {PtzWorker}

SharedSession == [lUserID : Ids, refCount : Nat]

ASSUME ManagerAssumption ==
    /\ PtzWorker \notin Clients
    /\ None \notin Ids \cup SharedSession
    /\ MaxReferences \in Nat
    /\ PtzLimit \in Nat

VARIABLES
    m_sessions,        \* recorder -> user id, of getSession() and discovery
    m_sharedSessions,  \* recorder -> user id and references, of the players
    sdk,               \* user id -> "unused", "open" or "closed"
    init,              \* the SDK: "starting", "initialized", "ready" or "failed"
    call,              \* the call each thread is in
    m_ptzQueue,
    shown              \* the status sessionStatusChanged last gave of a recorder

vars == <<m_sessions, m_sharedSessions, sdk, init, call, m_ptzQueue, shown>>

Ops == {"loginShared", "logoutShared", "forceLogoutShared", "getSession", "logout",
        "discoverCameras"}

\* Where a call is: about to enter its critical section, to log in, to put the
\* new session in its table, to log out, to emit, or back with its result.
Places == {"enter", "login", "insert", "logout", "emit", "returned"}

NoCall == [op |-> "none"]

Calling(op, ip) ==
    [op |-> op, ip |-> ip, at |-> "enter", id |-> None,
     wasLogged |-> FALSE, isLoggedNow |-> FALSE]

At(t, ops, place) == call[t].op \in ops /\ call[t].at = place

Goes(t, place) == call' = [call EXCEPT ![t].at = place]

\* isLoggedInternal(), for the tables as given.
IsLoggedIn(sessions, shared, ip) == sessions[ip] # None \/ shared[ip] # None

IsLogged(ip) == IsLoggedIn(m_sessions, m_sharedSessions, ip)

-----------------------------------------------------------------------------
Call(t, op, ip) ==
    /\ call[t] = NoCall
    /\ op = "loginShared" /\ m_sharedSessions[ip] # None =>
         m_sharedSessions[ip].refCount < MaxReferences
    /\ call' = [call EXCEPT ![t] = Calling(op, ip)]
    /\ UNCHANGED <<m_sessions, m_sharedSessions, sdk, init, m_ptzQueue, shown>>

\* A session found in a table is returned, else the call goes on to log in.
ReturnsOrLogsIn(t, found) ==
    call' = [call EXCEPT ![t].at = IF found # None THEN "returned" ELSE "login",
                         ![t].id = found,
                         ![t].wasLogged = IsLogged(call[t].ip)]

LoginSharedEnters(t) ==
    LET ip == call[t].ip
        shared == m_sharedSessions[ip]
    IN  /\ At(t, {"loginShared"}, "enter")
        /\ ReturnsOrLogsIn(t, IF shared = None THEN None ELSE shared.lUserID)
        /\ m_sharedSessions' =
             IF shared = None THEN m_sharedSessions
             ELSE [m_sharedSessions EXCEPT ![ip].refCount = @ + 1]
        /\ UNCHANGED <<m_sessions, sdk, init, m_ptzQueue, shown>>

GetSessionEnters(t) ==
    LET ip == call[t].ip
    IN  /\ At(t, {"getSession"}, "enter")
        /\ ReturnsOrLogsIn(t, IF m_sessions[ip] # None THEN m_sessions[ip]
                              ELSE IF m_sharedSessions[ip] # None
                              THEN m_sharedSessions[ip].lUserID
                              ELSE None)
        /\ UNCHANGED <<m_sessions, m_sharedSessions, sdk, init, m_ptzQueue, shown>>

\* The critical section of a logout leaves the tables as given, and id to log out.
Leaves(t, sessions, shared, id) ==
    /\ m_sessions' = sessions
    /\ m_sharedSessions' = shared
    /\ call' = [call EXCEPT ![t].at = IF id # None THEN "logout" ELSE "emit",
                            ![t].id = id,
                            ![t].wasLogged = IsLogged(call[t].ip),
                            ![t].isLoggedNow = IsLoggedIn(sessions, shared, call[t].ip)]
    /\ UNCHANGED <<sdk, init, m_ptzQueue, shown>>

LogoutEnters(t) ==
    LET ip == call[t].ip
    IN  /\ At(t, {"logout", "discoverCameras"}, "enter")
        /\ call[t].op = "discoverCameras" => init \in {"initialized", "ready"}
        /\ Leaves(t, [m_sessions EXCEPT ![ip] = None], m_sharedSessions, m_sessions[ip])

\* discoverCameras() does not wait for the SDK.
DiscoveryGivesUp(t) ==
    /\ At(t, {"discoverCameras"}, "enter") /\ init \in {"starting", "failed"}
    /\ Goes(t, "returned")
    /\ UNCHANGED <<m_sessions, m_sharedSessions, sdk, init, m_ptzQueue, shown>>

LogoutSharedKeepsLast(t) ==  \* mutant of LogoutSharedEnters
    LET ip == call[t].ip
        shared == m_sharedSessions[ip]
    IN  /\ At(t, {"logoutShared"}, "enter")
        /\ IF shared # None /\ shared.refCount > 0
           THEN Leaves(t, m_sessions,
                       [m_sharedSessions EXCEPT ![ip].refCount = @ - 1], None)
           ELSE Leaves(t, m_sessions, [m_sharedSessions EXCEPT ![ip] = None],
                       IF shared = None THEN None ELSE shared.lUserID)

LogoutSharedEnters(t) ==
    LET ip == call[t].ip
        shared == m_sharedSessions[ip]
    IN  /\ At(t, {"logoutShared"}, "enter")
        /\ IF shared # None /\ shared.refCount > 1
           THEN Leaves(t, m_sessions,
                       [m_sharedSessions EXCEPT ![ip].refCount = @ - 1], None)
           ELSE Leaves(t, m_sessions, [m_sharedSessions EXCEPT ![ip] = None],
                       IF shared = None THEN None ELSE shared.lUserID)

ForceLogoutSharedKeeps(t) ==  \* mutant of ForceLogoutSharedEnters
    LET shared == m_sharedSessions[call[t].ip]
    IN  /\ At(t, {"forceLogoutShared"}, "enter")
        /\ Leaves(t, m_sessions, m_sharedSessions,
                  IF shared = None THEN None ELSE shared.lUserID)

ForceLogoutSharedEnters(t) ==
    LET ip == call[t].ip
        shared == m_sharedSessions[ip]
    IN  /\ At(t, {"forceLogoutShared"}, "enter")
        /\ Leaves(t, m_sessions, [m_sharedSessions EXCEPT ![ip] = None],
                  IF shared = None THEN None ELSE shared.lUserID)

-----------------------------------------------------------------------------
LoginFailsUnchecked(t) ==  \* mutant of LoginFails
    /\ call[t].op \in Ops /\ call[t].at = "login"
    /\ call[t].op # "discoverCameras" => init \in {"ready", "failed"}
    /\ call' = [call EXCEPT ![t].at = "insert", ![t].id = None]
    /\ UNCHANGED <<m_sessions, m_sharedSessions, sdk, init, m_ptzQueue, shown>>

\* NET_DVR_Login_V40, after ensureInitialized(): the recorder refuses or does
\* not answer, or there is a new session.
LoginFails(t) ==
    /\ call[t].op \in Ops /\ call[t].at = "login"
    /\ call[t].op # "discoverCameras" => init \in {"ready", "failed"}
    /\ call' = [call EXCEPT ![t].at = "returned", ![t].id = None]
    /\ UNCHANGED <<m_sessions, m_sharedSessions, sdk, init, m_ptzQueue, shown>>

LoginSucceeds(t, id) ==
    /\ call[t].op \in Ops /\ call[t].at = "login"
    /\ init \in IF call[t].op = "discoverCameras" THEN {"initialized", "ready"} ELSE {"ready"}
    /\ sdk[id] = "unused"
    /\ sdk' = [sdk EXCEPT ![id] = "open"]
    /\ call' = [call EXCEPT ![t].at = "insert", ![t].id = id]
    /\ UNCHANGED <<m_sessions, m_sharedSessions, init, m_ptzQueue, shown>>

Inserts(t, sessions, shared) ==
    /\ m_sessions' = sessions
    /\ m_sharedSessions' = shared
    /\ call' = [call EXCEPT ![t].at = "emit",
                            ![t].wasLogged = IF call[t].op = "discoverCameras"
                                             THEN IsLogged(call[t].ip) ELSE @,
                            ![t].isLoggedNow = IsLoggedIn(sessions, shared, call[t].ip)]
    /\ UNCHANGED <<sdk, init, m_ptzQueue, shown>>

InsertsShared(t) ==
    /\ At(t, {"loginShared"}, "insert")
    /\ Inserts(t, m_sessions,
               [m_sharedSessions EXCEPT ![call[t].ip] = [lUserID |-> call[t].id, refCount |-> 1]])

InsertsSession(t) ==
    /\ At(t, {"getSession", "discoverCameras"}, "insert")
    /\ Inserts(t, [m_sessions EXCEPT ![call[t].ip] = call[t].id], m_sharedSessions)

\* NET_DVR_Logout, after ensureInitialized().
LogsOut(t) ==
    /\ call[t].op \in Ops /\ call[t].at = "logout" /\ init \in {"ready", "failed"}
    /\ sdk' = [sdk EXCEPT ![call[t].id] = "closed"]
    /\ call' = [call EXCEPT ![t].at = "emit", ![t].id = None]
    /\ UNCHANGED <<m_sessions, m_sharedSessions, init, m_ptzQueue, shown>>

\* The signal, if the status changed; discoverCameras() goes on to log in when
\* its logout() returns, and a login returns its user id.
Emits(t) ==
    /\ call[t].op \in Ops /\ call[t].at = "emit"
    /\ shown' = IF call[t].wasLogged # call[t].isLoggedNow
                THEN [shown EXCEPT ![call[t].ip] = call[t].isLoggedNow] ELSE shown
    /\ Goes(t, IF call[t].op = "discoverCameras" /\ call[t].id = None
               THEN "login" ELSE "returned")
    /\ UNCHANGED <<m_sessions, m_sharedSessions, sdk, init, m_ptzQueue>>

Steps(t) ==
    \/ LoginSharedEnters(t) \/ GetSessionEnters(t) \/ LogoutEnters(t)
    \/ DiscoveryGivesUp(t) \/ LogoutSharedEnters(t) \/ ForceLogoutSharedEnters(t)
    \/ LoginFails(t) \/ (\E id \in Ids : LoginSucceeds(t, id))
    \/ InsertsShared(t) \/ InsertsSession(t) \/ LogsOut(t) \/ Emits(t)

Returns(t) ==
    /\ call[t].op \in Ops /\ call[t].at = "returned"
    /\ call' = [call EXCEPT ![t] = NoCall]
    /\ UNCHANGED <<m_sessions, m_sharedSessions, sdk, init, m_ptzQueue, shown>>

-----------------------------------------------------------------------------
\* The detached thread of the constructor: NET_DVR_Init(), then m_initCompleted.
InitFails ==
    /\ init = "starting" /\ init' = "failed"
    /\ UNCHANGED <<m_sessions, m_sharedSessions, sdk, call, m_ptzQueue, shown>>

InitSucceeds ==
    /\ init = "starting" /\ init' = "initialized"
    /\ UNCHANGED <<m_sessions, m_sharedSessions, sdk, call, m_ptzQueue, shown>>

InitCompletes ==
    /\ init = "initialized" /\ init' = "ready"
    /\ UNCHANGED <<m_sessions, m_sharedSessions, sdk, call, m_ptzQueue, shown>>

Initializes == InitFails \/ InitSucceeds \/ InitCompletes

PtzZoom(ip) ==
    /\ Len(m_ptzQueue) < PtzLimit
    /\ m_ptzQueue' = Append(m_ptzQueue, ip)
    /\ UNCHANGED <<m_sessions, m_sharedSessions, sdk, init, call, shown>>

PtzTakes ==
    /\ m_ptzQueue # << >> /\ call[PtzWorker] = NoCall
    /\ m_ptzQueue' = Tail(m_ptzQueue)
    /\ call' = [call EXCEPT ![PtzWorker] = Calling("getSession", Head(m_ptzQueue))]
    /\ UNCHANGED <<m_sessions, m_sharedSessions, sdk, init, shown>>

\* The worker sends the command, or drops it when it got no session.
PtzControls == Returns(PtzWorker)

-----------------------------------------------------------------------------
Init ==
    /\ m_sessions = [ip \in Ips |-> None]
    /\ m_sharedSessions = [ip \in Ips |-> None]
    /\ sdk = [id \in Ids |-> "unused"]
    /\ init = "starting"
    /\ call = [t \in Threads |-> NoCall]
    /\ m_ptzQueue = << >>
    /\ shown = [ip \in Ips |-> FALSE]

Next ==
    \/ \E t \in Clients : (\E op \in Ops, ip \in Ips : Call(t, op, ip)) \/ Returns(t)
    \/ \E t \in Threads : Steps(t)
    \/ Initializes
    \/ \E ip \in Ips : PtzZoom(ip)
    \/ PtzTakes
    \/ PtzControls

Spec == Init /\ [][Next]_vars

-----------------------------------------------------------------------------
InCall ==
    [op : Ops, ip : Ips, at : Places, id : Ids \cup {None},
     wasLogged : BOOLEAN, isLoggedNow : BOOLEAN]

TypeOK ==
    /\ m_sessions \in [Ips -> Ids \cup {None}]
    /\ DOMAIN m_sharedSessions = Ips
    /\ \A ip \in Ips : m_sharedSessions[ip] \in SharedSession \cup {None}
    /\ sdk \in [Ids -> {"unused", "open", "closed"}]
    /\ init \in {"starting", "initialized", "ready", "failed"}
    /\ DOMAIN call = Threads
    /\ \A t \in Threads : call[t] \in InCall \cup {NoCall}
    /\ m_ptzQueue \in Seq(Ips)
    /\ shown \in [Ips -> BOOLEAN]

\* Who will log id out: a table's entry, or a call between the SDK and a table.
Owners(id) ==
    {<<"m_sessions", ip>> : ip \in {i \in Ips : m_sessions[i] = id}}
      \cup {<<"m_sharedSessions", ip>> :
              ip \in {i \in Ips : m_sharedSessions[i] # None
                                    /\ m_sharedSessions[i].lUserID = id}}
      \cup {<<"call", t>> :
              t \in {u \in Threads : call[u].op \in Ops /\ call[u].at \in {"insert", "logout"}
                                       /\ call[u].id = id}}

\* However the calls interleave around the mutex, a session has one owner, who
\* finds it open: no session is logged out twice (the SDK gives a closed id to
\* the next login, of any recorder) and none in a table is closed.
SessionHasOneOwner ==
    \A id \in Ids :
        /\ \A a, b \in Owners(id) : a = b
        /\ Owners(id) # {} => sdk[id] = "open"

\* A shared session stays in its table only while somebody refers to it: the
\* decrement and the removal are one critical section.
SharedIsReferenced ==
    \A ip \in Ips : m_sharedSessions[ip] # None => m_sharedSessions[ip].refCount > 0
=============================================================================
