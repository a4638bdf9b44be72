--------------------- MODULE HikvisionArchivePlayerProofs ---------------------
(***************************************************************************)
(* Proofs about HikvisionArchivePlayer, for any number of players,         *)
(* playbacks and decoders: each one in use has one holder, unless the SDK  *)
(* refused to stop or free it; the data of the others is given to the      *)
(* decoder of its own player, and a port finds the player that holds it.   *)
(* The players call HikvisionManager as its own proofs have it, so what    *)
(* these say of the sessions holds with players for clients.               *)
(*                                                                         *)
(* A player has its playback and its decoder in its members, or in the     *)
(* hands of its worker, or not at all: where the worker is tells which.    *)
(***************************************************************************)
EXTENDS HikvisionArchivePlayer, FiniteSetTheorems, TLAPS

\* The worker has the playback, or its decoder, in hand.
InHand == {"getPort", "stopPlayBack", "stopping", "freePort"}

\* The members are given up here.
Bare ==
    InHand \cup {"ensureLogin", "login", "loggedIn", "playBack", "force", "leave", "logout", "gone"}

Starting == {"setCallback", "playStart"}

MemberFields ==
    {"m_recorderIp", "m_lUserID", "m_lPlayHandle", "m_nPort", "m_sysHeadReceived", "m_isPlaying"}

WorkerFields == {"at", "task", "retry", "handle", "port"}

StreamStates == {"free", "opened", "registered", "started", "stopping", "refused"}

Streams == [Handles -> [user : Players \cup {None}, head : BOOLEAN, state : StreamStates]]

StreamTypes ==
    /\ stream \in Streams
    /\ callback \in [Handles -> [at : {"idle", "entered", "head", "open", "input"},
                                 type : {"none", "head", "data"}, port : Ports \cup {None}]]
    /\ ports \in [Ports -> {"free", "allocated", "open", "refused"}]
    /\ s_portMap \in [Ports -> Players \cup {None}]

\* A port that nobody holds.
Spare == {"free", "refused"}

\* A callback that has read the members.
Past == {"head", "open", "input"}

\* The types these proofs need; PlayersInv has the rest.
ShapeInv ==
    /\ DOMAIN player = Players /\ DOMAIN worker = Players
    /\ \A p \in Players :
         /\ DOMAIN player[p] = MemberFields
         /\ DOMAIN worker[p] = IF worker[p].at \in {"waiting", "gone"} THEN {"at"} ELSE WorkerFields
    /\ StreamTypes

\* What p has, by where its worker is.
PlaceOK(p) ==
    /\ player[p].m_lPlayHandle \in Handles \cup {None}
    /\ player[p].m_nPort \in Ports \cup {None}
    /\ player[p].m_lPlayHandle = None <=> player[p].m_nPort = None
    /\ worker[p].at \in Bare => player[p].m_lPlayHandle = None
    /\ worker[p].at \in InHand \ {"freePort"} => worker[p].handle \in Handles
    /\ worker[p].at \in InHand \ {"getPort"} => worker[p].port \in Ports
    /\ worker[p].at \in Starting => player[p].m_lPlayHandle \in Handles
    /\ worker[p].at = "getPort" => stream[worker[p].handle].state = "opened"
    /\ worker[p].at = "setCallback" => stream[player[p].m_lPlayHandle].state = "opened"
    /\ worker[p].at = "playStart" => stream[player[p].m_lPlayHandle].state = "registered"

PlaceInv == \A p \in Players : PlaceOK(p)

\* A stream in use, which the SDK did not refuse to stop.
Held(h) == stream[h] # NoStream /\ stream[h].state # "refused"

\* A stream knows its holder.
StreamOK(h) ==
    /\ stream[h] # NoStream => stream[h].user \in Players
    /\ \A p \in Players : Holds(p, h) <=> Held(h) /\ stream[h].user = p

StreamInv == \A h \in Handles : StreamOK(h)

PortOK(o) ==
    /\ \A p, q \in Players : HoldsPort(p, o) /\ HoldsPort(q, o) => p = q
    /\ (\E p \in Players : HoldsPort(p, o)) <=> ports[o] \notin Spare

PortInv == \A o \in Ports : PortOK(o)

\* A callback runs on a stream that was started.
CallbackOK(h) ==
    /\ callback[h] # NoCallback => stream[h].state \in {"started", "stopping", "refused"}
    /\ callback[h].at \in Past => callback[h].port \in Ports
    /\ callback[h].at \in Past /\ stream[h].state # "refused" =>
         HoldsPort(stream[h].user, callback[h].port)

CallbackInv == \A h \in Handles : CallbackOK(h)

IInv == ShapeInv /\ PlaceInv /\ StreamInv /\ PortInv /\ CallbackInv /\ PortMapIsCurrent

-----------------------------------------------------------------------------
(***************************************************************************)
(* What a step does to the worker and to the members.                      *)
(***************************************************************************)
Resting == {"waiting", "gone"}

\* Only p's worker may have gone on, only p's members changed.
WorkerOf(p) ==
    /\ DOMAIN worker' = Players
    /\ \A q \in Players : q # p => worker'[q] = worker[q]
    /\ DOMAIN worker'[p] = IF worker'[p].at \in Resting THEN {"at"} ELSE WorkerFields

MembersOf(p) ==
    /\ DOMAIN player' = Players
    /\ \A q \in Players : q # p => player'[q] = player[q]
    /\ DOMAIN player'[p] = MemberFields

HandlesKept(p) ==
    /\ player'[p].m_lPlayHandle = player[p].m_lPlayHandle
    /\ player'[p].m_nPort = player[p].m_nPort

Ended == {"waiting", "exchange", "control"}

LEMMA GoesDoes ==
    ASSUME ShapeInv, NEW p \in Players, NEW at, worker[p].at \notin Resting,
           at \notin Resting, Goes(p, at)
    PROVE  /\ WorkerOf(p) /\ worker'[p].at = at
           /\ worker'[p].handle = worker[p].handle /\ worker'[p].port = worker[p].port
  <1>1. worker'[p] = [worker[p] EXCEPT !.at = at]
    BY DEF Goes, ShapeInv
  <1>2. DOMAIN worker[p] = WorkerFields
    BY DEF ShapeInv, Resting
  <1>3. /\ DOMAIN worker'[p] = WorkerFields /\ worker'[p].at = at
        /\ worker'[p].handle = worker[p].handle /\ worker'[p].port = worker[p].port
    BY <1>1, <1>2 DEF WorkerFields
  <1>4. QED
    BY <1>3 DEF Goes, ShapeInv, WorkerOf

LEMMA ShapeFrom ==
    ASSUME ShapeInv, NEW p \in Players, WorkerOf(p), MembersOf(p), StreamTypes'
    PROVE  ShapeInv'
  BY DEF ShapeInv, WorkerOf, MembersOf, Resting

LEMMA BeginsDoes ==
    ASSUME NEW task
    PROVE  Begins(task).at \in {"exchange", "control"} /\ DOMAIN Begins(task) = WorkerFields
  BY DEF Begins, WorkerFields

LEMMA EndsDoes ==
    ASSUME ShapeInv, NEW p \in Players, Ends(p)
    PROVE  WorkerOf(p) /\ worker'[p].at \in Ended
  <1>1. CASE tasks[p] = << >>
    BY <1>1 DEF Ends, Waiting, ShapeInv, WorkerOf, Ended, Resting
  <1>2. CASE tasks[p] # << >>
    <2>1. worker' = [worker EXCEPT ![p] = Begins(Head(tasks[p]))]
      BY <1>2 DEF Ends
    <2>2. QED
      BY <2>1, BeginsDoes DEF ShapeInv, WorkerOf, Ended, Resting
  <1>3. QED
    BY <1>1, <1>2

LEMMA GoesOnDoes ==
    ASSUME ShapeInv, NEW p \in Players, worker[p].at \notin Resting, GoesOn(p)
    PROVE  WorkerOf(p) /\ worker'[p].at \in Ended \cup {"ensureLogin", "leave"}
  <1>1. CASE Ends(p)
    BY <1>1, EndsDoes
  <1>2. ASSUME NEW at \in {"ensureLogin", "leave"}, CleanedUp(p, at)
        PROVE  WorkerOf(p) /\ worker'[p].at = at
    <2>1. worker'[p] = [worker[p] EXCEPT !.at = at, !.handle = None, !.port = None]
      BY <1>2 DEF CleanedUp, ShapeInv
    <2>2. DOMAIN worker[p] = WorkerFields
      BY DEF ShapeInv, Resting
    <2>3. DOMAIN worker'[p] = WorkerFields /\ worker'[p].at = at
      BY <2>1, <2>2 DEF WorkerFields
    <2>4. QED
      BY <1>2, <2>3 DEF CleanedUp, ShapeInv, WorkerOf, Resting
  <1>3. QED
    BY <1>1, <1>2 DEF GoesOn

-----------------------------------------------------------------------------
(***************************************************************************)
(* Steps that move no playback and no decoder.                             *)
(***************************************************************************)
LEMMA RunningIsHeld ==
    ASSUME IInv, NEW h \in Handles, callback[h].at # "idle"
    PROVE  stream[h] # NoStream /\ stream[h].user \in Players
  BY DEF IInv, CallbackInv, CallbackOK, StreamInv, StreamOK, NoStream, NoCallback

LEMMA SameHolders ==
    ASSUME IInv, UNCHANGED streamVars,
           \A q \in Players, h \in Handles : Holds(q, h)' <=> Holds(q, h),
           \A q \in Players, o \in Ports : HoldsPort(q, o)' <=> HoldsPort(q, o)
    PROVE  StreamInv' /\ PortInv' /\ CallbackInv' /\ PortMapIsCurrent'
  <1>1. StreamInv'
    BY DEF IInv, StreamInv, StreamOK, Held, streamVars
  <1>2. PortInv'
    BY DEF IInv, PortInv, PortOK, streamVars
  <1>3. CallbackInv'
    BY RunningIsHeld DEF IInv, CallbackInv, CallbackOK, Past, streamVars, HoldsPort, Alive
  <1>4. PortMapIsCurrent'
    BY DEF IInv, ShapeInv, StreamTypes, Streams, PortMapIsCurrent, Refused, streamVars, HoldsPort, Alive
  <1>5. QED
    BY <1>1, <1>2, <1>3, <1>4

LEMMA QuietStep ==
    ASSUME IInv, NEW p \in Players, WorkerOf(p), MembersOf(p), HandlesKept(p),
           UNCHANGED streamVars,
           worker[p].at \notin InHand, worker'[p].at \notin InHand \cup Starting,
           worker'[p].at \in Bare => player[p].m_lPlayHandle = None
    PROVE  IInv'
  <1>1. ShapeInv'
    BY ShapeFrom DEF IInv, ShapeInv, StreamTypes, Streams, streamVars
  <1>2. PlaceInv'
    <2> SUFFICES ASSUME NEW q \in Players PROVE PlaceOK(q)'
      BY DEF PlaceInv
    <2>1. CASE q # p
      BY <2>1 DEF IInv, PlaceInv, PlaceOK, WorkerOf, MembersOf, streamVars
    <2>2. CASE q = p
      BY <2>2 DEF IInv, PlaceInv, PlaceOK, HandlesKept, streamVars, InHand, Starting
    <2>3. QED
      BY <2>1, <2>2
  <1>3. \A q \in Players, h \in Handles : Holds(q, h)' <=> Holds(q, h)
    <2> SUFFICES ASSUME NEW q \in Players, NEW h \in Handles PROVE Holds(q, h)' <=> Holds(q, h)
      OBVIOUS
    <2>1. CASE q # p
      BY <2>1 DEF Holds, Alive, WorkerOf, MembersOf
    <2>2. CASE q = p
      BY <2>2, ArchiveAssumption DEF IInv, PlaceInv, PlaceOK, Holds, Alive, HandlesKept, InHand, Bare
    <2>3. QED
      BY <2>1, <2>2
  <1>4. \A q \in Players, o \in Ports : HoldsPort(q, o)' <=> HoldsPort(q, o)
    <2> SUFFICES ASSUME NEW q \in Players, NEW o \in Ports PROVE HoldsPort(q, o)' <=> HoldsPort(q, o)
      OBVIOUS
    <2>1. CASE q # p
      BY <2>1 DEF HoldsPort, Alive, WorkerOf, MembersOf
    <2>2. CASE q = p
      BY <2>2, ArchiveAssumption DEF IInv, PlaceInv, PlaceOK, HoldsPort, Alive, HandlesKept, InHand, Bare
    <2>3. QED
      BY <2>1, <2>2
  <1>5. QED
    BY <1>1, <1>2, <1>3, <1>4, SameHolders DEF IInv

LEMMA StillStep ==
    ASSUME IInv, worker' = worker, DOMAIN player' = Players, UNCHANGED streamVars,
           \A q \in Players : DOMAIN player'[q] = MemberFields /\ HandlesKept(q)
    PROVE  IInv'
  <1>1. ShapeInv' /\ PlaceInv'
    BY DEF IInv, ShapeInv, StreamTypes, Streams, streamVars, PlaceInv, PlaceOK, HandlesKept
  <1>2. /\ \A q \in Players, h \in Handles : Holds(q, h)' <=> Holds(q, h)
        /\ \A q \in Players, o \in Ports : HoldsPort(q, o)' <=> HoldsPort(q, o)
    BY DEF Holds, HoldsPort, Alive, HandlesKept
  <1>3. QED
    BY <1>1, <1>2, SameHolders DEF IInv

LEMMA MembersSame ==
    ASSUME ShapeInv, NEW p \in Players, UNCHANGED player
    PROVE  MembersOf(p) /\ HandlesKept(p)
  BY DEF ShapeInv, MembersOf, HandlesKept

LEMMA SessionChanges ==
    ASSUME ShapeInv, NEW p \in Players, NEW id, player' = [player EXCEPT ![p].m_lUserID = id]
    PROVE  MembersOf(p) /\ HandlesKept(p)
  <1>1. player'[p] = [player[p] EXCEPT !.m_lUserID = id] /\ DOMAIN player[p] = MemberFields
    BY DEF ShapeInv
  <1>2. DOMAIN player'[p] = MemberFields /\ HandlesKept(p)
    BY <1>1 DEF MemberFields, HandlesKept
  <1>3. QED
    BY <1>2 DEF ShapeInv, MembersOf

LEMMA PlayingChanges ==
    ASSUME ShapeInv, NEW p \in Players, NEW on, player' = [player EXCEPT ![p].m_isPlaying = on]
    PROVE  MembersOf(p) /\ HandlesKept(p)
  <1>1. player'[p] = [player[p] EXCEPT !.m_isPlaying = on] /\ DOMAIN player[p] = MemberFields
    BY DEF ShapeInv
  <1>2. DOMAIN player'[p] = MemberFields /\ HandlesKept(p)
    BY <1>1 DEF MemberFields, HandlesKept
  <1>3. QED
    BY <1>2 DEF ShapeInv, MembersOf

\* A task without cleanup, its end, and the calls to the manager.
LEMMA TaskSteps ==
    ASSUME IInv, NEW p \in Players, TakesTask(p) \/ LoopExits(p) \/ Controls(p)
    PROVE  IInv'
  <1>1. ShapeInv
    BY DEF IInv
  <1>2. CASE TakesTask(p)
    <2>1. worker[p].at = "waiting" /\ Ends(p) /\ UNCHANGED <<player, streamVars>>
      BY <1>2 DEF TakesTask, Waiting
    <2>2. WorkerOf(p) /\ worker'[p].at \in Ended
      BY <1>1, <2>1, EndsDoes
    <2>3. MembersOf(p) /\ HandlesKept(p)
      BY <1>1, <2>1, MembersSame
    <2>4. QED
      BY <2>1, <2>2, <2>3, QuietStep DEF Ended, InHand, Starting, Bare
  <1>3. CASE LoopExits(p)
    <2>1. /\ worker[p].at = "waiting" /\ UNCHANGED <<player, streamVars>>
          /\ worker' = [worker EXCEPT ![p] = Begins([kind |-> "destroy", ip |-> None, id |-> None])]
      BY <1>3 DEF LoopExits, Waiting
    <2>2. WorkerOf(p) /\ worker'[p].at \in {"exchange", "control"}
      BY <1>1, <2>1, BeginsDoes DEF ShapeInv, WorkerOf, Resting
    <2>3. MembersOf(p) /\ HandlesKept(p)
      BY <1>1, <2>1, MembersSame
    <2>4. QED
      BY <2>1, <2>2, <2>3, QuietStep DEF InHand, Starting, Bare
  <1>4. CASE Controls(p)
    <2>1. worker[p].at = "control" /\ Ends(p) /\ UNCHANGED streamVars
      BY <1>4 DEF Controls
    <2>2. WorkerOf(p) /\ worker'[p].at \in Ended
      BY <1>1, <2>1, EndsDoes
    <2>3. MembersOf(p) /\ HandlesKept(p)
      BY <1>1, <1>4, MembersSame, PlayingChanges DEF Controls
    <2>4. QED
      BY <2>1, <2>2, <2>3, QuietStep DEF Ended, InHand, Starting, Bare
  <1>5. QED
    BY <1>2, <1>3, <1>4

\* The worker goes on without playback.
LEMMA BareGoes ==
    ASSUME IInv, NEW p \in Players, NEW at \in Bare \ (InHand \cup {"gone"}),
           worker[p].at \in Bare \ (InHand \cup {"gone"}), Goes(p, at),
           MembersOf(p), HandlesKept(p), UNCHANGED streamVars
    PROVE  IInv'
  <1>1. WorkerOf(p) /\ worker'[p].at = at
    BY GoesDoes DEF IInv, Resting, Bare
  <1>2. player[p].m_lPlayHandle = None
    BY DEF IInv, PlaceInv, PlaceOK
  <1>3. QED
    BY <1>1, <1>2, QuietStep DEF Bare, Starting, InHand

LEMMA QuietEnds ==
    ASSUME IInv, NEW p \in Players, worker[p].at \notin InHand, Ends(p),
           MembersOf(p), HandlesKept(p), UNCHANGED streamVars
    PROVE  IInv'
  <1>1. WorkerOf(p) /\ worker'[p].at \in Ended
    BY EndsDoes DEF IInv
  <1>2. QED
    BY <1>1, QuietStep DEF Ended, InHand, Starting, Bare

LEMMA LoginSteps ==
    ASSUME IInv, NEW p \in Players, EnsuresLogin(p) \/ LoggedIn(p) \/ TestsLogin(p) \/ Forced(p)
    PROVE  IInv'
  <1>1. ShapeInv
    BY DEF IInv
  <1>2. CASE EnsuresLogin(p)
    <2>1. /\ worker[p].at = "ensureLogin" /\ UNCHANGED <<player, streamVars>>
          /\ Goes(p, "playBack") \/ Goes(p, "login")
      BY <1>2 DEF EnsuresLogin, Asks
    <2>2. QED
      BY <1>1, <2>1, MembersSame, BareGoes DEF Bare, InHand
  <1>3. CASE LoggedIn(p)
    <2>1. /\ worker[p].at = "login" /\ Goes(p, "loggedIn") /\ UNCHANGED streamVars
          /\ player' = [player EXCEPT ![p].m_lUserID = call[p].id]
      BY <1>3 DEF LoggedIn
    <2>2. QED
      BY <1>1, <2>1, SessionChanges, BareGoes DEF Bare, InHand
  <1>4. CASE TestsLogin(p)
    <2>1. /\ worker[p].at = "loggedIn" /\ UNCHANGED <<player, streamVars>>
          /\ Ends(p) \/ Goes(p, "playBack")
      BY <1>4 DEF TestsLogin
    <2>2. QED
      BY <1>1, <2>1, MembersSame, QuietEnds, BareGoes DEF Bare, InHand
  <1>5. CASE Forced(p)
    <2>1. worker[p].at = "force" /\ Goes(p, "ensureLogin") /\ UNCHANGED <<player, streamVars>>
      BY <1>5 DEF Forced
    <2>2. QED
      BY <1>1, <2>1, MembersSame, BareGoes DEF Bare, InHand
  <1>6. QED
    BY <1>2, <1>3, <1>4, <1>5

LEMMA PlayBackFailsStep ==
    ASSUME IInv, NEW p \in Players, PlayBackFails(p)
    PROVE  IInv'
  <1>1. ShapeInv
    BY DEF IInv
  <1>2. worker[p].at = "playBack" /\ UNCHANGED streamVars
    BY DEF PlayBackFails
  <1>3. CASE worker[p].retry
    BY <1>1, <1>2, <1>3, MembersSame, QuietEnds DEF PlayBackFails, InHand
  <1>4. CASE ~worker[p].retry
    <2>1. PICK at \in {"ensureLogin", "force"} :
            /\ player' = [player EXCEPT ![p].m_lUserID = None]
            /\ worker' = [worker EXCEPT ![p].retry = TRUE, ![p].at = at]
      BY <1>4 DEF PlayBackFails
    <2>2. worker'[p] = [worker[p] EXCEPT !.retry = TRUE, !.at = at] /\ DOMAIN worker[p] = WorkerFields
      BY <1>1, <1>2, <2>1 DEF ShapeInv
    <2>3. DOMAIN worker'[p] = WorkerFields /\ worker'[p].at = at
      BY <2>2 DEF WorkerFields
    <2>4. WorkerOf(p)
      BY <1>1, <2>1, <2>3 DEF ShapeInv, WorkerOf, Resting
    <2>5. MembersOf(p) /\ HandlesKept(p)
      BY <1>1, <2>1, SessionChanges
    <2>6. player[p].m_lPlayHandle = None
      BY <1>2 DEF IInv, PlaceInv, PlaceOK, Bare
    <2>7. QED
      BY <1>2, <2>3, <2>4, <2>5, <2>6, QuietStep DEF Bare, InHand, Starting
  <1>5. QED
    BY <1>3, <1>4

LEMMA StartedStep ==
    ASSUME IInv, NEW p \in Players, Started(p)
    PROVE  IInv'
  <1>1. player'[p] = [player[p] EXCEPT !.m_sysHeadReceived = FALSE, !.m_isPlaying = TRUE]
    BY DEF Started, IInv, ShapeInv
  <1>2. DOMAIN player[p] = MemberFields
    BY DEF IInv, ShapeInv
  <1>3. DOMAIN player'[p] = MemberFields /\ HandlesKept(p)
    BY <1>1, <1>2 DEF MemberFields, HandlesKept
  <1>4. MembersOf(p)
    BY <1>3 DEF Started, IInv, ShapeInv, MembersOf
  <1>5. QED
    BY <1>3, <1>4, QuietEnds DEF Started, InHand

\* The worker is gone with neither playback nor decoder.
LEMMA GoneStep ==
    ASSUME IInv, NEW p \in Players, worker[p].at \in {"leave", "logout"},
           worker' = [worker EXCEPT ![p] = Gone], MembersOf(p), HandlesKept(p),
           UNCHANGED streamVars
    PROVE  IInv'
  <1>1. WorkerOf(p) /\ worker'[p].at = "gone"
    BY DEF IInv, ShapeInv, WorkerOf, Resting, Gone
  <1>2. player[p].m_lPlayHandle = None
    BY DEF IInv, PlaceInv, PlaceOK, Bare
  <1>3. QED
    BY <1>1, <1>2, QuietStep DEF InHand, Starting

LEMMA LeavingSteps ==
    ASSUME IInv, NEW p \in Players, LeavesSession(p) \/ LeftSession(p)
    PROVE  IInv'
  <1>1. ShapeInv
    BY DEF IInv
  <1>2. CASE LeavesSession(p)
    <2>1. /\ worker[p].at = "leave" /\ UNCHANGED <<player, streamVars>>
          /\ Goes(p, "logout") \/ worker' = [worker EXCEPT ![p] = Gone]
      BY <1>2 DEF LeavesSession, Asks
    <2>2. QED
      BY <1>1, <2>1, MembersSame, BareGoes, GoneStep DEF Bare, InHand
  <1>3. CASE LeftSession(p)
    <2>1. /\ worker[p].at = "logout" /\ UNCHANGED streamVars
          /\ \/ /\ worker' = [worker EXCEPT ![p] = Gone]
                /\ player' = [player EXCEPT ![p].m_lUserID = None]
             \/ Ends(p) /\ UNCHANGED player
      BY <1>3 DEF LeftSession
    <2>2. QED
      BY <1>1, <2>1, MembersSame, SessionChanges, QuietEnds, GoneStep DEF InHand
  <1>4. QED
    BY <1>2, <1>3

-----------------------------------------------------------------------------
(***************************************************************************)
(* Steps that move the playback and the decoder.                           *)
(***************************************************************************)
\* Whatever p does, the others hold what they held.
LEMMA OthersHold ==
    ASSUME NEW p \in Players, WorkerOf(p), MembersOf(p), NEW q \in Players, q # p
    PROVE  /\ worker'[q] = worker[q] /\ player'[q] = player[q]
           /\ \A h \in Handles : Holds(q, h)' <=> Holds(q, h)
           /\ \A o \in Ports : HoldsPort(q, o)' <=> HoldsPort(q, o)
  BY DEF WorkerOf, MembersOf, Holds, HoldsPort, Alive

\* What a player holds, for every place of its worker.
LEMMA HoldsIs ==
    ASSUME PlaceInv, NEW p \in Players
    PROVE  /\ \A h \in Handles : Holds(p, h) <=>
                \/ player[p].m_lPlayHandle = h
                \/ worker[p].at \in InHand \ {"freePort"} /\ worker[p].handle = h
           /\ \A o \in Ports : HoldsPort(p, o) <=>
                \/ player[p].m_nPort = o
                \/ worker[p].at \in InHand \ {"getPort"} /\ worker[p].port = o
  BY ArchiveAssumption DEF PlaceInv, PlaceOK, Holds, HoldsPort, Alive, InHand, Bare

\* When p changes no stream but its own or a free one, the others keep their places.
LEMMA OthersPlace ==
    ASSUME IInv, NEW p \in Players, WorkerOf(p), MembersOf(p), NEW h \in Handles,
           Holds(p, h) \/ stream[h] = NoStream,
           \A g \in Handles : g # h => stream'[g] = stream[g],
           NEW q \in Players, q # p
    PROVE  PlaceOK(q)'
  <1>1. worker'[q] = worker[q] /\ player'[q] = player[q]
    BY OthersHold
  <1>2. ~Holds(q, h)
    BY DEF IInv, StreamInv, StreamOK, Held
  <1>3. PlaceOK(q)
    BY DEF IInv, PlaceInv
  <1>4. /\ worker[q].at = "getPort" => worker[q].handle # h
        /\ player[q].m_lPlayHandle # h
    BY <1>2, HoldsIs DEF IInv, InHand
  <1>5. QED
    BY <1>1, <1>3, <1>4 DEF PlaceOK, InHand, Starting

\* cleanupPlayback() takes both from the members.
LEMMA ExchangesStep ==
    ASSUME IInv, NEW p \in Players, Exchanges(p)
    PROVE  IInv'
  <1>1. ShapeInv /\ worker[p].at = "exchange" /\ UNCHANGED streamVars
    BY DEF Exchanges, IInv
  <1>2. CASE player[p].m_lPlayHandle = None
    <2>1. WorkerOf(p) /\ worker'[p].at \in Ended \cup {"ensureLogin", "leave"}
      BY <1>1, <1>2, GoesOnDoes DEF Exchanges, Resting
    <2>2. MembersOf(p) /\ HandlesKept(p)
      BY <1>1, <1>2, PlayingChanges DEF Exchanges
    <2>3. QED
      BY <1>1, <1>2, <2>1, <2>2, QuietStep DEF Ended, InHand, Starting
  <1>3. CASE player[p].m_lPlayHandle # None
    <2>1. PlaceOK(p)
      BY DEF IInv, PlaceInv
    <2>2. /\ player'[p] = [player[p] EXCEPT !.m_lPlayHandle = None, !.m_nPort = None]
          /\ worker'[p] = [worker[p] EXCEPT !.at = "stopPlayBack",
                             !.handle = player[p].m_lPlayHandle, !.port = player[p].m_nPort]
      BY <1>1, <1>3 DEF Exchanges, ShapeInv
    <2>3. DOMAIN worker[p] = WorkerFields /\ DOMAIN player[p] = MemberFields
      BY <1>1 DEF ShapeInv
    <2>4. /\ DOMAIN player'[p] = MemberFields /\ DOMAIN worker'[p] = WorkerFields
          /\ player'[p].m_lPlayHandle = None /\ player'[p].m_nPort = None
          /\ worker'[p].at = "stopPlayBack"
          /\ worker'[p].handle = player[p].m_lPlayHandle /\ worker'[p].port = player[p].m_nPort
      BY <2>2, <2>3 DEF MemberFields, WorkerFields
    <2>5. WorkerOf(p) /\ MembersOf(p)
      BY <1>1, <1>3, <2>4 DEF Exchanges, ShapeInv, WorkerOf, MembersOf, Resting
    <2>6. ShapeInv'
      BY <1>1, <2>5, ShapeFrom DEF ShapeInv, StreamTypes, Streams, streamVars
    <2>7. PlaceOK(p)'
      BY <1>3, <2>1, <2>4 DEF PlaceOK, InHand, Starting
    <2>8. PlaceInv'
      BY <1>1, <2>5, <2>7, OthersHold DEF IInv, PlaceInv, PlaceOK, streamVars
    <2>9. /\ \A h \in Handles : Holds(p, h)' <=> Holds(p, h)
          /\ \A o \in Ports : HoldsPort(p, o)' <=> HoldsPort(p, o)
      BY <1>1, <2>4, ArchiveAssumption DEF Holds, HoldsPort, Alive
    <2>10. QED
      BY <1>1, <2>5, <2>6, <2>8, <2>9, OthersHold, SameHolders DEF IInv
  <1>4. QED
    BY <1>2, <1>3

\* The steps that change one stream: what must be shown of the rest.
LEMMA StreamStep ==
    ASSUME IInv, NEW p \in Players, NEW h \in Handles, WorkerOf(p), MembersOf(p),
           \A g \in Handles : g # h => stream'[g] = stream[g],
           Holds(p, h) \/ stream[h] = NoStream,
           stream' \in Streams,
           UNCHANGED <<callback, ports, s_portMap>>,
           callback[h] # NoCallback => stream'[h].state \in {"started", "stopping", "refused"}
                                         /\ stream'[h].user = stream[h].user,
           PlaceOK(p)',
           \A g \in Handles : g # h => (Holds(p, g)' <=> Holds(p, g)),
           stream'[h] # NoStream => stream'[h].user = p,
           Holds(p, h)' <=> stream'[h] # NoStream /\ stream'[h].state # "refused",
           \A o \in Ports : HoldsPort(p, o)' <=> HoldsPort(p, o)
    PROVE  IInv'
  <1>0. stream[h].state # "refused"
    BY DEF IInv, StreamInv, StreamOK, Held, NoStream
  <1>1. ShapeInv'
    BY ShapeFrom DEF IInv, ShapeInv, StreamTypes, Streams
  <1>2. PlaceInv'
    BY OthersPlace DEF PlaceInv
  <1>3. \A q \in Players : q # p => ~Holds(q, h) /\ ~Holds(q, h)'
    BY OthersHold DEF IInv, StreamInv, StreamOK, Held
  <1>4. StreamInv'
    <2> SUFFICES ASSUME NEW g \in Handles PROVE StreamOK(g)'
      BY DEF StreamInv
    <2>1. CASE g = h
      BY <1>3, <2>1 DEF StreamOK, Held
    <2>2. CASE g # h
      <3>1. stream'[g] = stream[g] /\ StreamOK(g)
        BY <2>2 DEF IInv, StreamInv
      <3>2. \A q \in Players : Holds(q, g)' <=> Holds(q, g)
        BY <2>2, OthersHold
      <3>3. QED
        BY <3>1, <3>2 DEF StreamOK, Held
    <2>3. QED
      BY <2>1, <2>2
  <1>5. \A q \in Players, o \in Ports : HoldsPort(q, o)' <=> HoldsPort(q, o)
    BY OthersHold
  <1>6. PortInv'
    BY <1>5 DEF IInv, PortInv, PortOK
  <1>7. CallbackInv'
    <2> SUFFICES ASSUME NEW g \in Handles PROVE CallbackOK(g)'
      BY DEF CallbackInv
    <2>1. CallbackOK(g) /\ callback'[g] = callback[g]
      BY DEF IInv, CallbackInv
    <2>2. CASE callback[g] = NoCallback
      BY <2>1, <2>2 DEF CallbackOK, NoCallback, Past
    <2>3. CASE callback[g] # NoCallback
      <3>1. /\ stream'[g].user = stream[g].user
            /\ stream'[g].state \in {"started", "stopping", "refused"}
            /\ stream[g].state = "refused" => stream'[g].state = "refused"
        BY <1>0, <2>1, <2>3 DEF CallbackOK
      <3>2. stream[g].user \in Players
        BY <2>1, <2>3 DEF IInv, StreamInv, StreamOK, CallbackOK, NoStream
      <3>3. QED
        BY <1>5, <2>1, <3>1, <3>2 DEF CallbackOK, HoldsPort, Alive
    <2>4. QED
      BY <2>2, <2>3
  <1>8. PortMapIsCurrent'
    <2>1. \A q \in Players : Refused(q) => Refused(q)'
      BY <1>0 DEF Refused
    <2>2. QED
      BY <1>5, <2>1 DEF IInv, ShapeInv, StreamTypes, PortMapIsCurrent
  <1>9. QED
    BY <1>1, <1>2, <1>4, <1>6, <1>7, <1>8 DEF IInv

\* In the hands of its worker, p has nothing else.
LEMMA InHandHolds ==
    ASSUME IInv, NEW p \in Players, worker[p].at \in InHand
    PROVE  /\ PlaceOK(p) /\ player[p].m_lPlayHandle = None /\ player[p].m_nPort = None
           /\ \A h \in Handles : Holds(p, h) <=> worker[p].at # "freePort" /\ worker[p].handle = h
           /\ \A o \in Ports : HoldsPort(p, o) <=> worker[p].at # "getPort" /\ worker[p].port = o
  <1>1. PlaceInv /\ PlaceOK(p)
    BY DEF IInv, PlaceInv
  <1>2. player[p].m_lPlayHandle = None /\ player[p].m_nPort = None
    BY <1>1 DEF PlaceOK, Bare
  <1>3. QED
    BY <1>1, <1>2, HoldsIs, ArchiveAssumption DEF InHand

LEMMA StateChanges ==
    ASSUME stream \in Streams, NEW h \in Handles, NEW state \in StreamStates,
           stream' = [stream EXCEPT ![h].state = state]
    PROVE  /\ stream' \in Streams
           /\ stream'[h].state = state /\ stream'[h].user = stream[h].user
           /\ \A g \in Handles : g # h => stream'[g] = stream[g]
  BY DEF Streams

LEMMA StreamIsFree ==
    ASSUME stream \in Streams, NEW h \in Handles, stream' = [stream EXCEPT ![h] = NoStream]
    PROVE  /\ stream' \in Streams /\ stream'[h] = NoStream
           /\ \A g \in Handles : g # h => stream'[g] = stream[g]
  <1>1. NoStream \in [user : Players \cup {None}, head : BOOLEAN, state : StreamStates]
    BY DEF NoStream, StreamStates
  <1>2. QED
    BY <1>1 DEF Streams

LEMMA StopPlayBackStep ==
    ASSUME IInv, NEW p \in Players, StopPlayBack(p)
    PROVE  IInv'
  <1> DEFINE h == worker[p].handle
  <1>1. /\ worker[p].at = "stopPlayBack" /\ Goes(p, "stopping")
        /\ stream' = [stream EXCEPT ![h].state = "stopping"]
        /\ UNCHANGED <<player, callback, ports, s_portMap>>
    BY DEF StopPlayBack
  <1>2. /\ WorkerOf(p) /\ worker'[p].at = "stopping"
        /\ worker'[p].handle = h /\ worker'[p].port = worker[p].port
    BY <1>1, GoesDoes DEF IInv, Resting
  <1>3. MembersOf(p) /\ HandlesKept(p)
    BY <1>1, MembersSame DEF IInv
  <1>4. /\ PlaceOK(p) /\ h \in Handles /\ Holds(p, h)
        /\ player[p].m_lPlayHandle = None /\ player[p].m_nPort = None
    BY <1>1, InHandHolds DEF InHand, PlaceOK
  <1>5. /\ stream' \in Streams
        /\ stream'[h].state = "stopping" /\ stream'[h].user = stream[h].user
        /\ \A g \in Handles : g # h => stream'[g] = stream[g]
    BY <1>1, <1>4, StateChanges DEF IInv, ShapeInv, StreamTypes, StreamStates
  <1>6. PlaceOK(p)'
    BY <1>2, <1>3, <1>4, <1>1 DEF PlaceOK, HandlesKept, InHand, Starting, Bare
  <1>7. /\ \A g \in Handles : Holds(p, g)' <=> Holds(p, g)
        /\ \A o \in Ports : HoldsPort(p, o)' <=> HoldsPort(p, o)
    BY <1>1, <1>2, <1>3 DEF Holds, HoldsPort, Alive, HandlesKept
  <1>8. stream[h].user = p /\ stream'[h] # NoStream /\ stream'[h].state # "refused"
    BY <1>4, <1>5 DEF IInv, StreamInv, StreamOK, Held, NoStream
  <1>9. QED
    BY <1>1, <1>2, <1>3, <1>4, <1>5, <1>6, <1>7, <1>8, StreamStep

\* The worker's playback is stopped, or is refused to be and given up.
LEMMA StoppedStep ==
    ASSUME IInv, NEW p \in Players, StopReturns(p) \/ StopFails(p)
    PROVE  IInv'
  <1> DEFINE h == worker[p].handle
  <1>1. /\ worker[p].at = "stopping" /\ Goes(p, "freePort")
        /\ \/ callback[h] = NoCallback /\ stream' = [stream EXCEPT ![h] = NoStream]
           \/ stream' = [stream EXCEPT ![h].state = "refused"]
        /\ UNCHANGED <<player, callback, ports, s_portMap>>
    BY DEF StopReturns, StopFails
  <1>2. /\ WorkerOf(p) /\ worker'[p].at = "freePort"
        /\ worker'[p].handle = h /\ worker'[p].port = worker[p].port
    BY <1>1, GoesDoes DEF IInv, Resting
  <1>3. MembersOf(p) /\ HandlesKept(p)
    BY <1>1, MembersSame DEF IInv
  <1>4. /\ PlaceOK(p) /\ h \in Handles
        /\ player[p].m_lPlayHandle = None /\ player[p].m_nPort = None
        /\ \A g \in Handles : Holds(p, g) <=> g = h
    BY <1>1, InHandHolds DEF InHand, PlaceOK
  <1>5. /\ stream' \in Streams
        /\ \/ callback[h] = NoCallback /\ stream'[h] = NoStream
           \/ stream'[h].state = "refused" /\ stream'[h].user = stream[h].user
        /\ \A g \in Handles : g # h => stream'[g] = stream[g]
    BY <1>1, <1>4, StateChanges, StreamIsFree DEF IInv, ShapeInv, StreamTypes, StreamStates
  <1>6. PlaceOK(p)'
    BY <1>1, <1>2, <1>3, <1>4 DEF PlaceOK, HandlesKept, InHand, Starting, Bare
  <1>7. /\ \A g \in Handles : ~Holds(p, g)'
        /\ \A o \in Ports : HoldsPort(p, o)' <=> HoldsPort(p, o)
    BY <1>1, <1>2, <1>3, <1>4, ArchiveAssumption DEF Holds, HoldsPort, Alive, HandlesKept
  <1>8. stream[h].user = p /\ (stream'[h] = NoStream \/ stream'[h].state = "refused")
    BY <1>4, <1>5 DEF IInv, StreamInv, StreamOK, Held
  <1>9. QED
    BY <1>1, <1>2, <1>3, <1>4, <1>5, <1>6, <1>7, <1>8, StreamStep

LEMMA PlaysBackStep ==
    ASSUME IInv, NEW p \in Players, PlaysBack(p)
    PROVE  IInv'
  <1>1. PICK h \in Handles :
          /\ stream[h] = NoStream
          /\ stream' = [stream EXCEPT ![h] = [user |-> p, state |-> "opened", head |-> FALSE]]
          /\ worker' = [worker EXCEPT ![p].at = "getPort", ![p].handle = h, ![p].retry = FALSE]
    BY DEF PlaysBack
  <1>2. worker[p].at = "playBack" /\ UNCHANGED <<player, callback, ports, s_portMap>>
    BY DEF PlaysBack
  <1>3. /\ worker'[p] = [worker[p] EXCEPT !.at = "getPort", !.handle = h, !.retry = FALSE]
        /\ DOMAIN worker[p] = WorkerFields
    BY <1>1, <1>2 DEF IInv, ShapeInv
  <1>4. DOMAIN worker'[p] = WorkerFields /\ worker'[p].at = "getPort" /\ worker'[p].handle = h
    BY <1>3 DEF WorkerFields
  <1>5. WorkerOf(p)
    BY <1>1, <1>4 DEF IInv, ShapeInv, WorkerOf, Resting
  <1>6. MembersOf(p) /\ HandlesKept(p)
    BY <1>2, MembersSame DEF IInv
  <1>7. PlaceOK(p) /\ player[p].m_lPlayHandle = None /\ player[p].m_nPort = None
    BY <1>2 DEF IInv, PlaceInv, PlaceOK, Bare
  <1>8. /\ stream' \in Streams
        /\ stream'[h].user = p /\ stream'[h].state = "opened" /\ stream'[h] # NoStream
        /\ \A g \in Handles : g # h => stream'[g] = stream[g]
    BY <1>1 DEF IInv, ShapeInv, StreamTypes, Streams, StreamStates, NoStream
  <1>9. PlaceOK(p)'
    BY <1>4, <1>6, <1>7, <1>8 DEF PlaceOK, HandlesKept, InHand, Starting, Bare
  <1>10. /\ \A g \in Handles : Holds(p, g)' <=> g = h
         /\ \A g \in Handles : ~Holds(p, g)
         /\ \A o \in Ports : HoldsPort(p, o)' <=> HoldsPort(p, o)
    BY <1>2, <1>4, <1>6, <1>7, ArchiveAssumption DEF Holds, HoldsPort, Alive, HandlesKept
  <1>11. callback[h] = NoCallback
    BY <1>1 DEF IInv, CallbackInv, CallbackOK, NoStream
  <1>12. QED
    BY <1>1, <1>2, <1>5, <1>6, <1>8, <1>9, <1>10, <1>11, StreamStep

LEMMA GetPortFailsStep ==
    ASSUME IInv, NEW p \in Players, GetPortFails(p)
    PROVE  IInv'
  <1> DEFINE h == worker[p].handle
  <1>1. /\ worker[p].at = "getPort" /\ Ends(p)
        /\ \/ stream' = [stream EXCEPT ![h] = NoStream]
           \/ stream' = [stream EXCEPT ![h].state = "refused"]
        /\ UNCHANGED <<player, callback, ports, s_portMap>>
    BY DEF GetPortFails
  <1>2. WorkerOf(p) /\ worker'[p].at \in Ended
    BY <1>1, EndsDoes DEF IInv
  <1>3. MembersOf(p) /\ HandlesKept(p)
    BY <1>1, MembersSame DEF IInv
  <1>4. /\ PlaceOK(p) /\ h \in Handles /\ stream[h].state = "opened"
        /\ player[p].m_lPlayHandle = None /\ player[p].m_nPort = None
        /\ \A g \in Handles : Holds(p, g) <=> g = h
        /\ \A o \in Ports : ~HoldsPort(p, o)
    BY <1>1, InHandHolds DEF InHand, PlaceOK
  <1>5. /\ stream' \in Streams
        /\ \/ stream'[h] = NoStream
           \/ stream'[h].state = "refused" /\ stream'[h].user = stream[h].user
        /\ \A g \in Handles : g # h => stream'[g] = stream[g]
    BY <1>1, <1>4, StateChanges, StreamIsFree DEF IInv, ShapeInv, StreamTypes, StreamStates
  <1>6. PlaceOK(p)'
    BY <1>2, <1>3, <1>4 DEF PlaceOK, HandlesKept, InHand, Starting, Bare, Ended
  <1>7. /\ \A g \in Handles : ~Holds(p, g)'
        /\ \A o \in Ports : ~HoldsPort(p, o)'
    BY <1>2, <1>3, <1>4, ArchiveAssumption DEF Holds, HoldsPort, Alive, HandlesKept, Ended
  <1>8. /\ callback[h] = NoCallback /\ stream[h].user = p
        /\ stream'[h] = NoStream \/ stream'[h].state = "refused"
    BY <1>4, <1>5 DEF IInv, CallbackInv, CallbackOK, StreamInv, StreamOK, Held
  <1>9. QED
    BY <1>1, <1>2, <1>3, <1>4, <1>5, <1>6, <1>7, <1>8, StreamStep

LEMMA StartsStreamStep ==
    ASSUME IInv, NEW p \in Players, SetsCallback(p) \/ PlayStarts(p)
    PROVE  IInv'
  <1> DEFINE h == player[p].m_lPlayHandle
  <1>1. PICK state \in {"registered", "started"}, at \in {"playStart", "started"} :
          /\ StartsStream(p, worker[p].at, state, at)
          /\ \/ worker[p].at = "setCallback" /\ state = "registered"
             \/ worker[p].at = "playStart" /\ at = "started"
    BY DEF SetsCallback, PlayStarts, StartsStream
  <1>2. UNCHANGED <<player, callback, ports, s_portMap>>
    BY <1>1 DEF StartsStream
  <1>3. MembersOf(p) /\ HandlesKept(p)
    BY <1>2, MembersSame DEF IInv
  <1>4. CASE worker' = [worker EXCEPT ![p] = Begins([kind |-> "stop", ip |-> None, id |-> None])]
             /\ UNCHANGED stream
    <2>1. WorkerOf(p) /\ worker'[p].at \in {"exchange", "control"}
      BY <1>4, BeginsDoes DEF IInv, ShapeInv, WorkerOf, Resting
    <2>2. QED
      BY <1>1, <1>2, <1>3, <1>4, <2>1, QuietStep DEF InHand, Starting, Bare, streamVars
  <1>5. CASE Goes(p, at) /\ stream' = [stream EXCEPT ![h].state = state]
    <2>1. WorkerOf(p) /\ worker'[p].at = at
      BY <1>1, <1>5, GoesDoes DEF IInv, Resting
    <2>2. /\ PlaceOK(p) /\ h \in Handles /\ stream[h].state \in {"opened", "registered"}
          /\ \A g \in Handles : Holds(p, g) <=> g = h
      BY <1>1, HoldsIs DEF IInv, PlaceInv, PlaceOK, InHand, Starting
    <2>3. /\ stream' \in Streams
          /\ stream'[h].state = state /\ stream'[h].user = stream[h].user
          /\ \A g \in Handles : g # h => stream'[g] = stream[g]
      BY <1>5, <2>2, StateChanges DEF IInv, ShapeInv, StreamTypes, StreamStates
    <2>4. PlaceOK(p)'
      BY <1>1, <1>3, <2>1, <2>2, <2>3 DEF PlaceOK, HandlesKept, InHand, Starting, Bare
    <2>5. \A g \in Handles : Holds(p, g)' <=> Holds(p, g)
      BY <1>1, <1>3, <2>1, <2>2 DEF Holds, Alive, HandlesKept
    <2>6. \A o \in Ports : HoldsPort(p, o)' <=> HoldsPort(p, o)
      BY <1>1, <1>3, <2>1 DEF HoldsPort, Alive, HandlesKept
    <2>7. stream[h].user = p /\ stream'[h] # NoStream /\ stream'[h].state # "refused"
      BY <2>2, <2>3 DEF IInv, StreamInv, StreamOK, Held, NoStream
    <2>8. callback[h] = NoCallback
      BY <2>2 DEF IInv, CallbackInv, CallbackOK
    <2>9. QED
      BY <1>2, <1>3, <2>1, <2>2, <2>3, <2>4, <2>5, <2>6, <2>7, <2>8, StreamStep
  <1>6. QED
    BY <1>1, <1>4, <1>5 DEF StartsStream

\* The steps that change one decoder: what must be shown of the rest.
LEMMA PortStep ==
    ASSUME IInv, NEW p \in Players, NEW o \in Ports, WorkerOf(p), MembersOf(p),
           ports' \in [Ports -> {"free", "allocated", "open", "refused"}],
           \A e \in Ports : e # o => ports'[e] = ports[e],
           HoldsPort(p, o) \/ ports[o] = "free",
           s_portMap' \in [Ports -> Players \cup {None}],
           \A e \in Ports : e # o => s_portMap'[e] = s_portMap[e],
           s_portMap'[o] = None \/ (ports[o] = "free" /\ s_portMap'[o] = s_portMap[o]),
           UNCHANGED <<stream, callback>>,
           PlaceOK(p)',
           \A g \in Handles : Holds(p, g)' <=> Holds(p, g),
           \A e \in Ports : e # o => (HoldsPort(p, e)' <=> HoldsPort(p, e)),
           HoldsPort(p, o)' <=> ports'[o] \notin Spare,
           HoldsPort(p, o)' \/ \A g \in Handles : ~Holds(p, g)
    PROVE  IInv'
  <1>1. ShapeInv'
    BY ShapeFrom DEF IInv, ShapeInv, StreamTypes, Streams
  <1>2. PlaceInv'
    <2> SUFFICES ASSUME NEW q \in Players PROVE PlaceOK(q)'
      BY DEF PlaceInv
    <2>1. CASE q # p
      BY <2>1, OthersHold DEF IInv, PlaceInv, PlaceOK
    <2>2. QED
      BY <2>1
  <1>3. StreamInv'
    BY OthersHold DEF IInv, StreamInv, StreamOK, Held
  <1>4. \A q \in Players : q # p => ~HoldsPort(q, o) /\ ~HoldsPort(q, o)'
    BY OthersHold DEF IInv, PortInv, PortOK, Spare
  <1>5. \A q \in Players, e \in Ports : e # o => (HoldsPort(q, e)' <=> HoldsPort(q, e))
    BY OthersHold
  <1>6. PortInv'
    <2> SUFFICES ASSUME NEW e \in Ports PROVE PortOK(e)'
      BY DEF PortInv
    <2>1. CASE e = o
      BY <1>4, <2>1 DEF PortOK
    <2>2. CASE e # o
      BY <1>5, <2>2 DEF IInv, PortInv, PortOK
    <2>3. QED
      BY <2>1, <2>2
  <1>7. CallbackInv'
    <2> SUFFICES ASSUME NEW g \in Handles PROVE CallbackOK(g)'
      BY DEF CallbackInv
    <2>1. CallbackOK(g) /\ callback'[g] = callback[g] /\ stream'[g] = stream[g]
      BY DEF IInv, CallbackInv
    <2>2. CASE callback[g].at \notin Past \/ stream[g].state = "refused"
      BY <2>1, <2>2 DEF CallbackOK
    <2>3. CASE callback[g].at \in Past /\ stream[g].state # "refused"
      <3> DEFINE u == stream[g].user
                 e == callback[g].port
      <3>1. u \in Players /\ e \in Ports /\ Holds(u, g) /\ HoldsPort(u, e)
        BY <2>1, <2>3, RunningIsHeld DEF CallbackOK, IInv, StreamInv, StreamOK, Held, Past
      <3>2. \A q \in Players, f \in Ports :
               Holds(q, g) /\ HoldsPort(q, f) => HoldsPort(q, f)'
        BY <1>4, <1>5
      <3>3. QED
        BY <2>1, <3>1, <3>2 DEF CallbackOK, HoldsPort, Alive
    <2>4. QED
      BY <2>2, <2>3
  <1>8. PortMapIsCurrent'
    <2> SUFFICES ASSUME NEW e \in Ports, NEW q \in Players, s_portMap'[e] = q
                 PROVE  HoldsPort(q, e)' \/ Refused(q)'
      BY <1>1 DEF PortMapIsCurrent, ShapeInv, StreamTypes
    <2>1. s_portMap[e] = q /\ (e = o => ports[o] = "free")
      BY ArchiveAssumption
    <2>2. HoldsPort(q, e) \/ Refused(q)
      BY <2>1, ArchiveAssumption DEF IInv, PortMapIsCurrent
    <2>3. HoldsPort(q, e) => e # o
      BY <2>1 DEF IInv, PortInv, PortOK, Spare
    <2>4. Refused(q) => Refused(q)'
      BY DEF Refused
    <2>5. QED
      BY <1>5, <2>2, <2>3, <2>4
  <1>9. QED
    BY <1>1, <1>2, <1>3, <1>6, <1>7, <1>8 DEF IInv

LEMMA FreePortStep ==
    ASSUME IInv, NEW p \in Players, FreePort(p)
    PROVE  IInv'
  <1> DEFINE o == worker[p].port
  <1>1. /\ worker[p].at = "freePort" /\ GoesOn(p)
        /\ s_portMap' = [s_portMap EXCEPT ![o] = None]
        /\ \E state \in Spare : ports' = [ports EXCEPT ![o] = state]
        /\ player' = [player EXCEPT ![p].m_isPlaying = FALSE]
        /\ UNCHANGED <<stream, callback>>
    BY DEF FreePort, Spare
  <1>2. WorkerOf(p) /\ worker'[p].at \in Ended \cup {"ensureLogin", "leave"}
    BY <1>1, GoesOnDoes DEF IInv, Resting
  <1>3. MembersOf(p) /\ HandlesKept(p)
    BY <1>1, PlayingChanges DEF IInv
  <1>4. /\ PlaceOK(p) /\ o \in Ports
        /\ player[p].m_lPlayHandle = None /\ player[p].m_nPort = None
        /\ \A g \in Handles : ~Holds(p, g)
        /\ \A e \in Ports : HoldsPort(p, e) <=> e = o
    BY <1>1, InHandHolds DEF InHand, PlaceOK
  <1>5. /\ s_portMap' \in [Ports -> Players \cup {None}] /\ s_portMap'[o] = None
        /\ \A e \in Ports : e # o => s_portMap'[e] = s_portMap[e]
        /\ ports' \in [Ports -> {"free", "allocated", "open", "refused"}] /\ ports'[o] \in Spare
        /\ \A e \in Ports : e # o => ports'[e] = ports[e]
    BY <1>1, <1>4 DEF IInv, ShapeInv, StreamTypes, Spare
  <1>6. PlaceOK(p)'
    BY <1>2, <1>3, <1>4 DEF PlaceOK, HandlesKept, InHand, Starting, Bare, Ended
  <1>7. /\ \A g \in Handles : ~Holds(p, g)'
        /\ \A e \in Ports : ~HoldsPort(p, e)'
    BY <1>2, <1>3, <1>4, ArchiveAssumption DEF Holds, HoldsPort, Alive, HandlesKept, Ended
  <1>8. QED
    BY <1>1, <1>2, <1>3, <1>4, <1>5, <1>6, <1>7, PortStep

LEMMA GetPortStep ==
    ASSUME IInv, NEW p \in Players, GetPort(p)
    PROVE  IInv'
  <1> DEFINE h == worker[p].handle
  <1>1. PICK o \in Ports :
          /\ ports[o] = "free" /\ ports' = [ports EXCEPT ![o] = "allocated"]
          /\ player' = [player EXCEPT ![p].m_lPlayHandle = h, ![p].m_nPort = o]
    BY DEF GetPort
  <1>2. /\ worker[p].at = "getPort"
        /\ worker' = [worker EXCEPT ![p].at = "setCallback", ![p].handle = None]
        /\ UNCHANGED <<stream, callback, s_portMap>>
    BY DEF GetPort
  <1>3. /\ worker'[p] = [worker[p] EXCEPT !.at = "setCallback", !.handle = None]
        /\ player'[p] = [player[p] EXCEPT !.m_lPlayHandle = h, !.m_nPort = o]
        /\ DOMAIN worker[p] = WorkerFields /\ DOMAIN player[p] = MemberFields
    BY <1>1, <1>2 DEF IInv, ShapeInv
  <1>4. /\ DOMAIN worker'[p] = WorkerFields /\ worker'[p].at = "setCallback"
        /\ DOMAIN player'[p] = MemberFields
        /\ player'[p].m_lPlayHandle = h /\ player'[p].m_nPort = o
    BY <1>3 DEF WorkerFields, MemberFields
  <1>5. WorkerOf(p) /\ MembersOf(p)
    BY <1>1, <1>2, <1>4 DEF IInv, ShapeInv, WorkerOf, MembersOf, Resting
  <1>6. /\ PlaceOK(p) /\ h \in Handles /\ stream[h].state = "opened"
        /\ \A g \in Handles : Holds(p, g) <=> g = h
        /\ \A e \in Ports : ~HoldsPort(p, e)
    BY <1>2, InHandHolds DEF InHand, PlaceOK
  <1>7. /\ ports' \in [Ports -> {"free", "allocated", "open", "refused"}] /\ ports'[o] \notin Spare
        /\ \A e \in Ports : e # o => ports'[e] = ports[e]
    BY <1>1 DEF IInv, ShapeInv, StreamTypes, Spare
  <1>8. s_portMap \in [Ports -> Players \cup {None}]
    BY DEF IInv, ShapeInv, StreamTypes
  <1>9. PlaceOK(p)'
    BY <1>2, <1>4, <1>6, ArchiveAssumption DEF PlaceOK, InHand, Starting, Bare
  <1>10. /\ \A g \in Handles : Holds(p, g)' <=> g = h
         /\ \A e \in Ports : HoldsPort(p, e)' <=> e = o
    BY <1>4, ArchiveAssumption DEF Holds, HoldsPort, Alive
  <1>11. QED
    BY <1>1, <1>2, <1>5, <1>6, <1>7, <1>8, <1>9, <1>10, PortStep

LEMMA WorkKeeps ==
    ASSUME IInv, NEW p \in Players, Works(p)
    PROVE  IInv'
  <1>1. CASE Manager!Steps(p) /\ UNCHANGED <<player, tasks, worker, guiVars, streamVars>>
    BY <1>1, StillStep DEF IInv, ShapeInv, HandlesKept
  <1>2. QED
    BY <1>1, TaskSteps, ExchangesStep, StopPlayBackStep, StoppedStep, FreePortStep,
       LoginSteps, PlaysBackStep, PlayBackFailsStep, GetPortStep, GetPortFailsStep,
       StartsStreamStep, StartedStep, LeavingSteps DEF Works

LEMMA RequestKeeps ==
    ASSUME IInv, Requests
    PROVE  IInv'
  <1>1. worker' = worker /\ UNCHANGED streamVars
    BY DEF Requests, PlayAtTime, Stop, PauseOrResume, Reconfigure, Destroy, Posts
  <1>2. CASE UNCHANGED player
    BY <1>1, <1>2, StillStep DEF IInv, ShapeInv, HandlesKept
  <1>3. CASE \E p \in Players : \E ip \in Ips : Reconfigure(p, ip)
    <2>1. PICK p \in Players, ip \in Ips :
            player' = [player EXCEPT ![p].m_recorderIp = ip, ![p].m_lUserID = None]
      BY <1>3 DEF Reconfigure
    <2>2. /\ player'[p] = [player[p] EXCEPT !.m_recorderIp = ip, !.m_lUserID = None]
          /\ DOMAIN player[p] = MemberFields
      BY <2>1 DEF IInv, ShapeInv
    <2>3. DOMAIN player'[p] = MemberFields /\ HandlesKept(p)
      BY <2>2 DEF MemberFields, HandlesKept
    <2>4. QED
      BY <1>1, <2>1, <2>3, StillStep DEF IInv, ShapeInv, HandlesKept
  <1>4. QED
    BY <1>2, <1>3 DEF Requests, PlayAtTime, Stop, PauseOrResume, Destroy

-----------------------------------------------------------------------------
(***************************************************************************)
(* The callback of a stream.                                               *)
(***************************************************************************)
LEMMA CallbackStep ==
    ASSUME IInv, NEW h \in Handles, worker' = worker, DOMAIN player' = Players,
           \A q \in Players : DOMAIN player'[q] = MemberFields /\ HandlesKept(q),
           StreamTypes',
           \A g \in Handles : /\ stream'[g].user = stream[g].user
                              /\ stream'[g].state = stream[g].state
                              /\ stream'[g] = NoStream <=> stream[g] = NoStream,
           \A g \in Handles : g # h => callback'[g] = callback[g],
           CallbackOK(h)',
           \A o \in Ports : ports'[o] \in Spare <=> ports[o] \in Spare,
           PortMapIsCurrent'
    PROVE  IInv'
  <1>1. /\ \A q \in Players, g \in Handles : Holds(q, g)' <=> Holds(q, g)
        /\ \A q \in Players, o \in Ports : HoldsPort(q, o)' <=> HoldsPort(q, o)
    BY DEF Holds, HoldsPort, Alive, HandlesKept
  <1>2. ShapeInv'
    BY DEF IInv, ShapeInv
  <1>3. PlaceInv'
    BY DEF IInv, PlaceInv, PlaceOK, HandlesKept, InHand, Starting
  <1>4. StreamInv'
    BY <1>1 DEF IInv, StreamInv, StreamOK, Held
  <1>5. PortInv'
    BY <1>1 DEF IInv, PortInv, PortOK
  <1>6. CallbackInv'
    <2> SUFFICES ASSUME NEW g \in Handles, g # h PROVE CallbackOK(g)'
      BY DEF CallbackInv
    <2>1. /\ CallbackOK(g) /\ callback'[g] = callback[g]
          /\ stream'[g].user = stream[g].user /\ stream'[g].state = stream[g].state
      BY DEF IInv, CallbackInv
    <2>2. callback[g].at \in Past => stream[g].user \in Players
      BY RunningIsHeld DEF Past
    <2>3. QED
      BY <1>1, <2>1, <2>2 DEF CallbackOK
  <1>7. QED
    BY <1>2, <1>3, <1>4, <1>5, <1>6 DEF IInv

LEMMA DataArrivesStep ==
    ASSUME IInv, NEW h \in Handles, DataArrives(h)
    PROVE  IInv'
  <1>1. /\ stream[h].state \in {"started", "refused"}
        /\ stream' = [stream EXCEPT ![h].head = TRUE]
        /\ UNCHANGED <<player, worker, ports, s_portMap>>
    BY DEF DataArrives
  <1>2. PICK type \in {"head", "data"} :
          callback' = [callback EXCEPT ![h] = [at |-> "entered", type |-> type, port |-> None]]
    BY DEF DataArrives
  <1>3. StreamTypes'
    BY <1>1, <1>2, ZenonT(30) DEF IInv, ShapeInv, StreamTypes, Streams
  <1>4. \A g \in Handles : /\ stream'[g].user = stream[g].user
                           /\ stream'[g].state = stream[g].state
                           /\ stream'[g] = NoStream <=> stream[g] = NoStream
    <2>1. \A g \in Handles : g # h => stream'[g] = stream[g]
      BY <1>1 DEF IInv, ShapeInv, StreamTypes, Streams
    <2>2. stream'[h].user = stream[h].user /\ stream'[h].state = stream[h].state
      BY <1>1 DEF IInv, ShapeInv, StreamTypes, Streams
    <2>3. stream'[h] # NoStream /\ stream[h] # NoStream
      BY <1>1, <2>2 DEF NoStream
    <2>4. QED
      BY <2>1, <2>2, <2>3
  <1>5. CallbackOK(h)'
    BY <1>1, <1>2, <1>4 DEF IInv, ShapeInv, StreamTypes, Streams, CallbackOK, Past
  <1>6. PortMapIsCurrent'
    BY <1>1, <1>4 DEF IInv, PortMapIsCurrent, Refused, HoldsPort, Alive
  <1>7. \A g \in Handles : g # h => callback'[g] = callback[g]
    BY <1>2 DEF IInv, ShapeInv, StreamTypes, Streams
  <1>8. QED
    BY <1>1, <1>3, <1>4, <1>5, <1>6, <1>7, CallbackStep DEF IInv, ShapeInv, HandlesKept

LEMMA ReturnsStep ==
    ASSUME IInv, NEW h \in Handles, Returns(h), UNCHANGED <<player, worker, stream, ports, s_portMap>>
    PROVE  IInv'
  <1>1. /\ StreamTypes' /\ callback'[h] = NoCallback
        /\ \A g \in Handles : g # h => callback'[g] = callback[g]
    BY DEF Returns, IInv, ShapeInv, StreamTypes, Streams, NoCallback
  <1>2. CallbackOK(h)'
    BY <1>1 DEF CallbackOK, NoCallback, Past
  <1>3. PortMapIsCurrent'
    BY DEF IInv, PortMapIsCurrent, Refused, HoldsPort, Alive
  <1>4. QED
    BY <1>1, <1>2, <1>3, CallbackStep DEF IInv, ShapeInv, HandlesKept

LEMMA ReadsMembersStep ==
    ASSUME IInv, NEW h \in Handles, ReadsMembers(h)
    PROVE  IInv'
  <1> DEFINE p == stream[h].user
  <1>1. callback[h].at = "entered" /\ UNCHANGED <<player, worker, stream, ports, s_portMap>>
    BY DEF ReadsMembers
  <1>2. stream[h] # NoStream /\ p \in Players /\ callback[h] # NoCallback
    BY <1>1, RunningIsHeld DEF NoCallback
  <1>3. CASE Returns(h)
    BY <1>1, <1>3, ReturnsStep
  <1>4. CASE ~Returns(h)
    <2>1. PICK at \in {"head", "input"} :
            callback' = [callback EXCEPT ![h].at = at, ![h].port = player[p].m_nPort]
      BY <1>4 DEF ReadsMembers
    <2>2. PlaceOK(p) /\ player[p].m_nPort \in Ports /\ HoldsPort(p, player[p].m_nPort)
      <3>1. player[p].m_lPlayHandle = h
        BY <1>4 DEF ReadsMembers
      <3>2. QED
        BY <1>2, <3>1, ArchiveAssumption DEF IInv, PlaceInv, PlaceOK, HoldsPort, Alive, Bare
    <2>3. /\ StreamTypes' /\ callback'[h].at = at /\ callback'[h].port = player[p].m_nPort
          /\ \A g \in Handles : g # h => callback'[g] = callback[g]
      BY <1>1, <2>1, <2>2, ZenonT(30) DEF IInv, ShapeInv, StreamTypes, Streams
    <2>4. CallbackOK(h)
      BY DEF IInv, CallbackInv
    <2>5. CallbackOK(h)'
      BY <1>1, <1>2, <2>2, <2>3, <2>4 DEF CallbackOK, HoldsPort, Alive
    <2>6. PortMapIsCurrent'
      BY <1>1 DEF IInv, PortMapIsCurrent, Refused, HoldsPort, Alive
    <2>7. QED
      BY <1>1, <2>3, <2>5, <2>6, CallbackStep DEF IInv, ShapeInv, HandlesKept
  <1>5. QED
    BY <1>3, <1>4

LEMMA NotesHeaderStep ==
    ASSUME IInv, NEW h \in Handles, NotesHeader(h)
    PROVE  IInv'
  <1> DEFINE p == stream[h].user
  <1>1. callback[h].at = "head" /\ UNCHANGED <<worker, stream, ports, s_portMap>>
    BY DEF NotesHeader
  <1>2. p \in Players /\ CallbackOK(h) /\ callback[h] # NoCallback
    BY <1>1, RunningIsHeld DEF IInv, CallbackInv, NoCallback
  <1>3. CASE Returns(h) /\ UNCHANGED player
    BY <1>1, <1>3, ReturnsStep
  <1>4. CASE /\ callback' = [callback EXCEPT ![h].at = "open"]
             /\ player' = [player EXCEPT ![p].m_sysHeadReceived = TRUE]
    <2>1. /\ player'[p] = [player[p] EXCEPT !.m_sysHeadReceived = TRUE]
          /\ DOMAIN player[p] = MemberFields
      BY <1>2, <1>4 DEF IInv, ShapeInv
    <2>2. DOMAIN player'[p] = MemberFields /\ HandlesKept(p)
      BY <2>1 DEF MemberFields, HandlesKept
    <2>3. /\ DOMAIN player' = Players
          /\ \A q \in Players : DOMAIN player'[q] = MemberFields /\ HandlesKept(q)
      BY <1>4, <2>2 DEF IInv, ShapeInv, HandlesKept
    <2>4. /\ StreamTypes' /\ callback'[h].at = "open" /\ callback'[h].port = callback[h].port
          /\ \A g \in Handles : g # h => callback'[g] = callback[g]
      BY <1>1, <1>4, ZenonT(30) DEF IInv, ShapeInv, StreamTypes, Streams
    <2>5. CallbackOK(h)'
      BY <1>1, <1>2, <2>3, <2>4 DEF CallbackOK, Past, HoldsPort, Alive, HandlesKept
    <2>6. PortMapIsCurrent'
      BY <1>1, <2>3 DEF IInv, ShapeInv, StreamTypes, PortMapIsCurrent, Refused, HoldsPort, Alive, HandlesKept
    <2>7. QED
      BY <1>1, <2>3, <2>4, <2>5, <2>6, CallbackStep
  <1>5. QED
    BY <1>3, <1>4 DEF NotesHeader

LEMMA OpensStreamStep ==
    ASSUME IInv, NEW h \in Handles, OpensStream(h)
    PROVE  IInv'
  <1> DEFINE o == callback[h].port
             p == stream[h].user
  <1>1. callback[h].at = "open" /\ Returns(h) /\ UNCHANGED <<player, worker, stream>>
    BY DEF OpensStream
  <1>2. CASE UNCHANGED <<ports, s_portMap>>
    BY <1>1, <1>2, ReturnsStep
  <1>3. CASE /\ ports[o] # "free"
             /\ ports' = [ports EXCEPT ![o] = IF @ = "refused" THEN @ ELSE "open"]
             /\ s_portMap' = [s_portMap EXCEPT ![o] = p]
    <2>1. /\ stream[h] # NoStream /\ p \in Players /\ o \in Ports
          /\ stream[h].state # "refused" => HoldsPort(p, o)
      BY <1>1, RunningIsHeld DEF IInv, CallbackInv, CallbackOK, Past
    <2>2. /\ StreamTypes' /\ callback'[h] = NoCallback
          /\ \A g \in Handles : g # h => callback'[g] = callback[g]
      BY <1>1, <1>3, <2>1 DEF Returns, IInv, ShapeInv, StreamTypes, Streams, NoCallback
    <2>3. CallbackOK(h)'
      BY <2>2 DEF CallbackOK, NoCallback, Past
    <2>4. \A e \in Ports : ports'[e] \in Spare <=> ports[e] \in Spare
      BY <1>3, <2>1 DEF IInv, ShapeInv, StreamTypes, Spare
    <2>5. PortMapIsCurrent'
      <3>1. HoldsPort(p, o) \/ Refused(p)
        BY <2>1 DEF Refused
      <3>2. \A q : /\ Refused(q)' <=> Refused(q)
                   /\ \A e : HoldsPort(q, e)' <=> HoldsPort(q, e)
        BY <1>1 DEF Refused, HoldsPort, Alive
      <3>3. \A e \in Ports : s_portMap'[e] = IF e = o THEN p ELSE s_portMap[e]
        BY <1>3, <2>1 DEF IInv, ShapeInv, StreamTypes
      <3>4. QED
        BY <3>1, <3>2, <3>3 DEF IInv, PortMapIsCurrent
    <2>6. QED
      BY <1>1, <2>2, <2>3, <2>4, <2>5, CallbackStep DEF IInv, ShapeInv, HandlesKept
  <1>4. QED
    BY <1>2, <1>3 DEF OpensStream

-----------------------------------------------------------------------------
(***************************************************************************)
(* The theorems.                                                           *)
(***************************************************************************)
LEMMA NextKeeps == IInv /\ [Next]_vars => IInv'
  <1> SUFFICES ASSUME IInv, [Next]_vars PROVE IInv'
    OBVIOUS
  <1>1. CASE UNCHANGED vars
    BY <1>1, StillStep DEF vars, streamVars, IInv, ShapeInv, HandlesKept
  <1>2. CASE Requests
    BY <1>2, RequestKeeps
  <1>3. CASE \E p \in Players : Works(p) \/ StopFails(p)
    BY <1>3, WorkKeeps, StoppedStep
  <1>4. CASE \E h \in Handles : DataArrives(h) \/ Delivers(h) \/ InputsData(h)
    BY <1>4, DataArrivesStep, ReadsMembersStep, NotesHeaderStep, OpensStreamStep, ReturnsStep
    DEF Delivers, InputsData, GivesUpInput
  <1>5. QED
    BY <1>1, <1>2, <1>3, <1>4 DEF Next, Runs

LEMMA InitHolds == Init => IInv
  <1> SUFFICES ASSUME Init PROVE IInv
    OBVIOUS
  <1>1. ShapeInv
    BY DEF Init, ShapeInv, StreamTypes, Streams, StreamStates, Waiting, NoStream, NoCallback, MemberFields
  <1>2. \A p \in Players : /\ worker[p].at = "waiting"
                           /\ player[p].m_lPlayHandle = None /\ player[p].m_nPort = None
    BY DEF Init, Waiting
  <1>3. PlaceInv
    BY <1>2 DEF PlaceInv, PlaceOK, InHand, Bare, Starting
  <1>4. /\ \A p \in Players, h \in Handles : ~Holds(p, h)
        /\ \A p \in Players, o \in Ports : ~HoldsPort(p, o)
    BY <1>2, ArchiveAssumption DEF Holds, HoldsPort
  <1>5. StreamInv /\ PortInv
    BY <1>4 DEF Init, StreamInv, StreamOK, PortInv, PortOK, Held, Spare
  <1>6. CallbackInv /\ PortMapIsCurrent
    BY DEF Init, CallbackInv, CallbackOK, PortMapIsCurrent, NoCallback, Past
  <1>7. QED
    BY <1>1, <1>3, <1>5, <1>6 DEF IInv

LEMMA AlwaysIInv == Spec => []IInv
  BY InitHolds, NextKeeps, PTL DEF Spec

LEMMA HoldersAreOne == IInv => StreamHasOneHolder
  <1> SUFFICES ASSUME IInv PROVE StreamHasOneHolder
    OBVIOUS
  <1>1. ASSUME NEW h \in Handles
        PROVE  Cardinality({p \in Players : Holds(p, h)}) =
                  IF stream[h] = NoStream \/ stream[h].state = "refused" THEN 0 ELSE 1
    <2>1. CASE ~Held(h)
      <3>1. {p \in Players : Holds(p, h)} = {}
        BY <2>1 DEF IInv, StreamInv, StreamOK
      <3>2. QED
        BY <2>1, <3>1, FS_EmptySet DEF Held
    <2>2. CASE Held(h)
      <3>1. {p \in Players : Holds(p, h)} = {stream[h].user}
        BY <2>2 DEF IInv, StreamInv, StreamOK, Held
      <3>2. QED
        BY <2>2, <3>1, FS_Singleton DEF Held
    <2>3. QED
      BY <2>1, <2>2
  <1>2. ASSUME NEW o \in Ports
        PROVE  Cardinality({p \in Players : HoldsPort(p, o)}) =
                  IF ports[o] \in {"free", "refused"} THEN 0 ELSE 1
    <2>1. CASE ports[o] \in Spare
      <3>1. {p \in Players : HoldsPort(p, o)} = {}
        BY <2>1 DEF IInv, PortInv, PortOK
      <3>2. QED
        BY <2>1, <3>1, FS_EmptySet DEF Spare
    <2>2. CASE ports[o] \notin Spare
      <3>1. PICK q \in Players : HoldsPort(q, o)
        BY <2>2 DEF IInv, PortInv, PortOK
      <3>2. {p \in Players : HoldsPort(p, o)} = {q}
        BY <3>1 DEF IInv, PortInv, PortOK
      <3>3. QED
        BY <2>2, <3>2, FS_Singleton DEF Spare
    <2>3. QED
      BY <2>1, <2>2
  <1>3. QED
    BY <1>1, <1>2 DEF StreamHasOneHolder

\* Every playback and every decoder in use is held by exactly one player, which
\* is alive, whichever call fails and whenever a player is destroyed, but for
\* those the SDK refused to stop or free, which the code has given up
\* (hikvisionarchiveplayer.cpp, cleanupPlayback() and playAtTime()).
THEOREM ArchiveStreamHasOneHolder == Spec => []StreamHasOneHolder
  BY AlwaysIInv, HoldersAreOne, PTL

\* The callback, which has released the mutex when it uses the decoder, uses
\* the one its own player still holds, unless the SDK refused to stop the
\* playback (PlayDataCallBack).
THEOREM ArchiveDataGoesToOwnDecoder == Spec => []DataGoesToOwnDecoder
  <1>1. IInv => DataGoesToOwnDecoder
    BY DEF IInv, CallbackInv, CallbackOK, Past, DataGoesToOwnDecoder
  <1>2. QED
    BY <1>1, AlwaysIInv, PTL

\* DecCallBack never finds, by its port, a player that has given the port up,
\* unless the SDK refused to stop a playback of that player's (s_portMap).
THEOREM ArchivePortMapIsCurrent == Spec => []PortMapIsCurrent
  <1>1. IInv => PortMapIsCurrent
    BY DEF IInv
  <1>2. QED
    BY <1>1, AlwaysIInv, PTL

-----------------------------------------------------------------------------
(***************************************************************************)
(* The types, and the manager's part of the state.  A worker asks the      *)
(* manager for what its task says, so its tasks must be what the GUI       *)
(* thread may post: a recorder with a playback, a session only with a      *)
(* logout.  Then each step of the players is one of HikvisionManager's, or *)
(* leaves it alone, and HikvisionManagerProofs says the rest.              *)
(***************************************************************************)
MP == INSTANCE HikvisionManagerProofs WITH Clients <- Players, PtzLimit <- 0

LEMMA ManagerAssumed ==
    /\ PtzWorker \notin Players
    /\ None \notin Ids \cup MP!SharedSession
    /\ MaxReferences \in Nat
  BY ArchiveAssumption DEF Manager!SharedSession, MP!SharedSession

Posted ==
    {task \in Tasks : /\ task.kind \in {"play", "logout"} => task.ip \in Ips
                      /\ task.id # None => task.kind = "logout"}

\* Where playAtTime() needs the recorder of its task.
PlayPlaces == {"ensureLogin", "login", "loggedIn", "playBack", "force"}

Work ==
    {w \in [at : Places, task : Posted, retry : BOOLEAN,
            handle : Handles \cup {None}, port : Ports \cup {None}] :
       /\ w.at \in PlayPlaces => w.task.kind = "play"
       /\ w.at \in {"leave", "logout"} => w.task.kind \in {"logout", "destroy"}}

Workers == {Waiting, Gone} \cup Work

Members ==
    [m_recorderIp : Ips, m_lUserID : Ids \cup {None},
     m_lPlayHandle : Handles \cup {None}, m_nPort : Ports \cup {None},
     m_sysHeadReceived : BOOLEAN, m_isPlaying : BOOLEAN]

PlayersInv ==
    /\ player \in [Players -> Members]
    /\ tasks \in [Players -> Seq(Posted)]
    /\ worker \in [Players -> Workers]
    /\ destroying \in Players \cup {None}
    /\ requests \in 0..MaxRequests

TypesInv == IInv /\ PlayersInv /\ MP!TypeInv

LEMMA AtWork ==
    ASSUME PlayersInv, NEW p \in Players, worker[p].at \notin Resting
    PROVE  worker[p] \in Work
  BY DEF PlayersInv, Workers, Waiting, Gone, Resting

LEMMA WorkersSet ==
    ASSUME PlayersInv, NEW p \in Players, NEW w \in Workers, worker' = [worker EXCEPT ![p] = w]
    PROVE  worker' \in [Players -> Workers]
  BY DEF PlayersInv

LEMMA GoesTyped ==
    ASSUME PlayersInv, NEW p \in Players, NEW at \in Places,
           worker[p].at \notin Resting, Goes(p, at),
           at \in PlayPlaces => worker[p].task.kind = "play",
           at \in {"leave", "logout"} => worker[p].task.kind \in {"logout", "destroy"}
    PROVE  worker' \in [Players -> Workers]
  <1>1. worker[p] \in Work
    BY AtWork
  <1>2. [worker[p] EXCEPT !.at = at] \in Work
    BY <1>1 DEF Work
  <1>3. worker' = [worker EXCEPT ![p] = [worker[p] EXCEPT !.at = at]]
    BY DEF Goes, PlayersInv
  <1>4. QED
    BY <1>2, <1>3, WorkersSet DEF Workers

LEMMA BeginsTyped ==
    ASSUME NEW task \in Posted
    PROVE  Begins(task) \in Workers
  BY DEF Begins, Workers, Work, Places, PlayPlaces

LEMMA EndsTyped ==
    ASSUME PlayersInv, NEW p \in Players, Ends(p)
    PROVE  worker' \in [Players -> Workers] /\ tasks' \in [Players -> Seq(Posted)]
  <1>1. tasks[p] \in Seq(Posted) /\ tasks \in [Players -> Seq(Posted)]
    BY DEF PlayersInv
  <1>2. CASE tasks[p] = << >>
    BY <1>1, <1>2, WorkersSet DEF Ends, Workers
  <1>3. CASE tasks[p] # << >>
    <2>1. Head(tasks[p]) \in Posted /\ Tail(tasks[p]) \in Seq(Posted)
      BY <1>1, <1>3
    <2>2. Begins(Head(tasks[p])) \in Workers
      BY <2>1, BeginsTyped
    <2>3. /\ worker' = [worker EXCEPT ![p] = Begins(Head(tasks[p]))]
          /\ tasks' = [tasks EXCEPT ![p] = Tail(tasks[p])]
      BY <1>1, <1>3 DEF Ends
    <2>4. QED
      BY <1>1, <2>1, <2>2, <2>3, WorkersSet
  <1>4. QED
    BY <1>2, <1>3

LEMMA GoesOnTyped ==
    ASSUME PlayersInv, NEW p \in Players, worker[p].at \notin Resting, GoesOn(p)
    PROVE  worker' \in [Players -> Workers] /\ tasks' \in [Players -> Seq(Posted)]
  <1>1. worker[p] \in Work /\ worker[p].task \in Posted
    BY AtWork DEF Work
  <1>2. ASSUME NEW at \in {"ensureLogin", "leave"}, CleanedUp(p, at), tasks' = tasks,
               at = "ensureLogin" => worker[p].task.kind = "play",
               at = "leave" => worker[p].task.kind \in {"logout", "destroy"}
        PROVE  worker' \in [Players -> Workers] /\ tasks' \in [Players -> Seq(Posted)]
    <2> DEFINE w == [worker[p] EXCEPT !.at = at, !.handle = None, !.port = None]
    <2>1. w \in Work
      BY <1>1, <1>2 DEF Work, Places, PlayPlaces
    <2>2. worker' = [worker EXCEPT ![p] = w]
      BY <1>2 DEF CleanedUp, PlayersInv
    <2> HIDE DEF w
    <2>3. QED
      BY <1>2, <2>1, <2>2, WorkersSet DEF Workers, PlayersInv
  <1>3. CASE worker[p].task.kind = "play" \/ worker[p].task.kind = "destroy" \/ worker[p].task.id # None
    BY <1>1, <1>2, <1>3 DEF GoesOn, Posted
  <1>4. CASE worker[p].task.kind # "play" /\ ~(worker[p].task.kind = "destroy" \/ worker[p].task.id # None)
    BY <1>4, EndsTyped DEF GoesOn
  <1>5. QED
    BY <1>3, <1>4

-----------------------------------------------------------------------------
LEMMA RequestTypes ==
    ASSUME TypesInv, Requests
    PROVE  PlayersInv' /\ UNCHANGED managerVars
  <1>1. PlayersInv
    BY DEF TypesInv
  <1>2. ASSUME NEW p \in Players, NEW task \in Posted, Posts(p, task),
               player' \in [Players -> Members]
        PROVE  PlayersInv' /\ UNCHANGED managerVars
    <2>1. Append(tasks[p], task) \in Seq(Posted)
      BY <1>1 DEF PlayersInv
    <2>2. tasks' \in [Players -> Seq(Posted)]
      BY <1>1, <1>2, <2>1 DEF Posts, PlayersInv
    <2>3. requests' \in 0..MaxRequests
      BY <1>1, <1>2, ArchiveAssumption DEF Posts, PlayersInv
    <2>4. QED
      BY <1>1, <1>2, <2>2, <2>3 DEF Posts, PlayersInv
  <1>3. \A p \in Players : player[p] \in Members /\ player[p].m_recorderIp \in Ips
                             /\ player[p].m_lUserID \in Ids \cup {None}
    BY <1>1 DEF PlayersInv, Members
  <1>4. ASSUME NEW p \in Players,
               PlayAtTime(p) \/ Stop(p) \/ PauseOrResume(p, "pause") \/ PauseOrResume(p, "resume")
        PROVE  PlayersInv' /\ UNCHANGED managerVars
    <2>1. PICK kind \in {"play", "stop", "pause", "resume"}, ip \in Ips \cup {None} :
            /\ Posts(p, [kind |-> kind, ip |-> ip, id |-> None]) /\ UNCHANGED player
            /\ kind = "play" => ip \in Ips
      BY <1>3, <1>4 DEF PlayAtTime, Stop, PauseOrResume
    <2>2. [kind |-> kind, ip |-> ip, id |-> None] \in Posted
      BY <2>1 DEF Posted, Tasks
    <2>3. QED
      BY <1>1, <1>2, <2>1, <2>2 DEF PlayersInv
  <1>5. ASSUME NEW p \in Players, NEW ip \in Ips, Reconfigure(p, ip)
        PROVE  PlayersInv' /\ UNCHANGED managerVars
    <2>1. [kind |-> "logout", ip |-> player[p].m_recorderIp, id |-> player[p].m_lUserID] \in Posted
      BY <1>3 DEF Posted, Tasks
    <2>2. player' \in [Players -> Members]
      BY <1>1, <1>5 DEF Reconfigure, PlayersInv, Members
    <2>3. QED
      BY <1>2, <1>5, <2>1, <2>2 DEF Reconfigure
  <1>6. ASSUME NEW p \in Players, Destroy(p)
        PROVE  PlayersInv' /\ UNCHANGED managerVars
    BY <1>1, <1>6 DEF Destroy, PlayersInv
  <1>7. QED
    BY <1>4, <1>5, <1>6 DEF Requests

\* The worker's steps that do not call the manager.
LEMMA CleanupTypes ==
    ASSUME TypesInv, NEW p \in Players,
           TakesTask(p) \/ LoopExits(p) \/ Controls(p) \/ Exchanges(p) \/ StopPlayBack(p)
             \/ StopReturns(p) \/ StopFails(p) \/ FreePort(p)
    PROVE  PlayersInv' /\ UNCHANGED managerVars
  <1>1. /\ PlayersInv /\ player \in [Players -> Members] /\ worker \in [Players -> Workers]
        /\ tasks \in [Players -> Seq(Posted)]
    BY DEF TypesInv, PlayersInv
  <1>2. UNCHANGED <<managerVars, guiVars>>
    BY DEF TakesTask, LoopExits, Controls, Exchanges, StopPlayBack, StopReturns, StopFails, FreePort
  <1>3. player[p] \in Members /\ player[p].m_lPlayHandle \in Handles \cup {None}
          /\ player[p].m_nPort \in Ports \cup {None}
    BY <1>1 DEF Members
  <1>4. player' \in [Players -> Members]
    <2>1. CASE Controls(p)
      <3>1. CASE player' = player
        BY <1>1, <3>1
      <3>2. CASE player' = [player EXCEPT ![p].m_isPlaying = TRUE]
        BY <1>1, <3>2 DEF Members
      <3>3. CASE player' = [player EXCEPT ![p].m_isPlaying = FALSE]
        BY <1>1, <3>3 DEF Members
      <3>4. QED
        BY <2>1, <3>1, <3>2, <3>3 DEF Controls
    <2>2. CASE Exchanges(p) \/ FreePort(p)
      <3>1. CASE player' = [player EXCEPT ![p].m_isPlaying = FALSE]
        BY <1>1, <3>1 DEF Members
      <3>2. CASE player' = [player EXCEPT ![p].m_lPlayHandle = None, ![p].m_nPort = None]
        BY <1>1, <3>2 DEF Members
      <3>3. QED
        BY <2>2, <3>1, <3>2 DEF Exchanges, FreePort
    <2>3. CASE UNCHANGED player
      BY <1>1, <2>3
    <2>4. QED
      BY <2>1, <2>2, <2>3 DEF TakesTask, LoopExits, StopPlayBack, StopReturns, StopFails
  <1> DEFINE Typed == worker' \in [Players -> Workers] /\ tasks' \in [Players -> Seq(Posted)]
  <1>5. ASSUME TakesTask(p) \/ Controls(p) PROVE Typed
    BY <1>1, <1>5, EndsTyped DEF TakesTask, Controls
  <1>6. ASSUME LoopExits(p) PROVE Typed
    <2>1. [kind |-> "destroy", ip |-> None, id |-> None] \in Posted
      BY DEF Posted, Tasks
    <2>2. QED
      BY <1>1, <1>6, <2>1, BeginsTyped, WorkersSet DEF LoopExits
  <1>7. ASSUME Exchanges(p) PROVE Typed
    <2>1. worker[p].at = "exchange" /\ worker[p].at \notin Resting
      BY <1>7 DEF Exchanges, Resting
    <2>2. CASE player[p].m_lPlayHandle = None
      BY <1>1, <1>7, <2>1, <2>2, GoesOnTyped DEF Exchanges
    <2>3. CASE player[p].m_lPlayHandle # None
      <3> DEFINE w == [worker[p] EXCEPT !.at = "stopPlayBack",
                         !.handle = player[p].m_lPlayHandle, !.port = player[p].m_nPort]
      <3>1. w \in Work
        BY <1>1, <1>3, <2>1, AtWork DEF Work, Places, PlayPlaces
      <3>2. worker' = [worker EXCEPT ![p] = w] /\ tasks' = tasks
        BY <1>1, <1>7, <2>3 DEF Exchanges
      <3> HIDE DEF w
      <3>3. QED
        BY <1>1, <3>1, <3>2, WorkersSet DEF Workers
    <2>4. QED
      BY <2>2, <2>3
  <1>8. ASSUME StopPlayBack(p) \/ StopReturns(p) \/ StopFails(p) PROVE Typed
    <2>1. /\ worker[p].at \in {"stopPlayBack", "stopping"} /\ worker[p].at \notin Resting
          /\ Goes(p, "stopping") \/ Goes(p, "freePort")
          /\ tasks' = tasks
      BY <1>8 DEF StopPlayBack, StopReturns, StopFails, Resting
    <2>2. QED
      BY <1>1, <2>1, GoesTyped DEF Places, PlayPlaces
  <1>9. ASSUME FreePort(p) PROVE Typed
    BY <1>1, <1>9, GoesOnTyped DEF FreePort, Resting
  <1>10. Typed
    BY <1>5, <1>6, <1>7, <1>8, <1>9
  <1>11. QED
    BY <1>1, <1>2, <1>4, <1>10 DEF PlayersInv, guiVars

LEMMA StartingTypes ==
    ASSUME TypesInv, NEW p \in Players,
           TestsLogin(p) \/ PlaysBack(p) \/ GetPort(p) \/ GetPortFails(p)
             \/ SetsCallback(p) \/ PlayStarts(p) \/ Started(p)
    PROVE  PlayersInv' /\ UNCHANGED managerVars
  <1>1. /\ PlayersInv /\ player \in [Players -> Members] /\ worker \in [Players -> Workers]
        /\ tasks \in [Players -> Seq(Posted)]
    BY DEF TypesInv, PlayersInv
  <1>2. UNCHANGED <<managerVars, guiVars>>
    BY DEF TestsLogin, PlaysBack, GetPort, GetPortFails, SetsCallback, PlayStarts, StartsStream, Started
  <1>3. worker[p].at \notin Resting /\ worker[p] \in Work
    BY <1>1, AtWork
    DEF TestsLogin, PlaysBack, GetPort, GetPortFails, SetsCallback, PlayStarts, StartsStream, Started, Resting
  <1>4. worker[p].handle \in Handles \cup {None}
    BY <1>3 DEF Work
  <1>5. player' \in [Players -> Members]
    <2>1. CASE GetPort(p)
      <3>1. PICK o \in Ports :
              player' = [player EXCEPT ![p].m_lPlayHandle = worker[p].handle, ![p].m_nPort = o]
        BY <2>1 DEF GetPort
      <3>2. QED
        BY <1>1, <1>4, <3>1, ZenonT(30) DEF Members
    <2>2. CASE Started(p)
      BY <1>1, <2>2, ZenonT(30) DEF Started, Members
    <2>3. CASE UNCHANGED player
      BY <1>1, <2>3
    <2>4. QED
      BY <2>1, <2>2, <2>3 DEF TestsLogin, PlaysBack, GetPortFails, SetsCallback, PlayStarts, StartsStream
  <1> DEFINE Typed == worker' \in [Players -> Workers] /\ tasks' \in [Players -> Seq(Posted)]
  <1>6. ASSUME Ends(p) PROVE Typed
    BY <1>1, <1>6, EndsTyped
  <1>7. ASSUME TestsLogin(p) PROVE Typed
    <2>1. worker[p].at = "loggedIn" /\ worker[p].task.kind = "play"
      BY <1>3, <1>7 DEF TestsLogin, Work, PlayPlaces
    <2>2. CASE Goes(p, "playBack") /\ tasks' = tasks
      BY <1>1, <1>3, <2>1, <2>2, GoesTyped DEF Places
    <2>3. QED
      BY <1>6, <1>7, <2>2 DEF TestsLogin
  <1>8. ASSUME PlaysBack(p) PROVE Typed
    <2>1. PICK h \in Handles :
            worker' = [worker EXCEPT ![p].at = "getPort", ![p].handle = h, ![p].retry = FALSE]
      BY <1>8 DEF PlaysBack
    <2> DEFINE w == [worker[p] EXCEPT !.at = "getPort", !.handle = h, !.retry = FALSE]
    <2>2. w \in Work
      BY <1>3 DEF Work, Places, PlayPlaces
    <2>3. worker' = [worker EXCEPT ![p] = w] /\ tasks' = tasks
      BY <1>1, <1>8, <2>1 DEF PlaysBack
    <2> HIDE DEF w
    <2>4. QED
      BY <1>1, <2>2, <2>3, WorkersSet DEF Workers
  <1>9. ASSUME GetPort(p) PROVE Typed
    <2> DEFINE w == [worker[p] EXCEPT !.at = "setCallback", !.handle = None]
    <2>1. w \in Work
      BY <1>3 DEF Work, Places, PlayPlaces
    <2>2. worker' = [worker EXCEPT ![p] = w] /\ tasks' = tasks
      BY <1>1, <1>9 DEF GetPort
    <2> HIDE DEF w
    <2>3. QED
      BY <1>1, <2>1, <2>2, WorkersSet DEF Workers
  <1>10. ASSUME SetsCallback(p) \/ PlayStarts(p) PROVE Typed
    <2>1. [kind |-> "stop", ip |-> None, id |-> None] \in Posted
      BY DEF Posted, Tasks
    <2>2. /\ tasks' = tasks
          /\ \/ Goes(p, "playStart") \/ Goes(p, "started")
             \/ worker' = [worker EXCEPT ![p] = Begins([kind |-> "stop", ip |-> None, id |-> None])]
      BY <1>10 DEF SetsCallback, PlayStarts, StartsStream
    <2>3. QED
      BY <1>1, <1>3, <2>1, <2>2, GoesTyped, BeginsTyped, WorkersSet DEF Places, PlayPlaces
  <1>11. Typed
    BY <1>6, <1>7, <1>8, <1>9, <1>10 DEF GetPortFails, Started
  <1>12. QED
    BY <1>1, <1>2, <1>5, <1>11 DEF PlayersInv, guiVars

-----------------------------------------------------------------------------
(***************************************************************************)
(* The steps that call the manager, and return from it.                    *)
(***************************************************************************)
\* What the manager's own step may be: one of its next-state relation, or none.
ManagerStep == [MP!Next]_managerVars

\* The two instances are one and the same manager.
LEMMA SameManager ==
    /\ \A t : Manager!Steps(t) <=> MP!Steps(t)
    /\ Manager!Next <=> MP!Next
  <1>1. ASSUME NEW t PROVE Manager!Steps(t) <=> MP!Steps(t)
    BY DEF Manager!Steps, MP!Steps, Manager!At, MP!At, Manager!Ops, MP!Ops, Manager!Goes,
       MP!Goes, Manager!ReturnsOrLogsIn, MP!ReturnsOrLogsIn, Manager!IsLogged, MP!IsLogged,
       Manager!IsLoggedIn, MP!IsLoggedIn, Manager!Leaves, MP!Leaves, Manager!Inserts,
       MP!Inserts, Manager!LoginSharedEnters, MP!LoginSharedEnters,
       Manager!GetSessionEnters, MP!GetSessionEnters, Manager!LogoutEnters, MP!LogoutEnters,
       Manager!DiscoveryGivesUp, MP!DiscoveryGivesUp, Manager!LogoutSharedEnters,
       MP!LogoutSharedEnters, Manager!ForceLogoutSharedEnters, MP!ForceLogoutSharedEnters,
       Manager!LoginFails, MP!LoginFails, Manager!LoginSucceeds, MP!LoginSucceeds,
       Manager!InsertsShared, MP!InsertsShared, Manager!InsertsSession, MP!InsertsSession,
       Manager!LogsOut, MP!LogsOut, Manager!Emits, MP!Emits
  <1>2. /\ \A t, op, ip : Manager!Call(t, op, ip) <=> MP!Call(t, op, ip)
        /\ \A t : Manager!Returns(t) <=> MP!Returns(t)
        /\ Manager!Initializes <=> MP!Initializes
        /\ \A ip : Manager!PtzZoom(ip) <=> MP!PtzZoom(ip)
        /\ Manager!PtzTakes <=> MP!PtzTakes
        /\ Manager!PtzControls <=> MP!PtzControls
    BY DEF Manager!Call, MP!Call, Manager!Calling, MP!Calling, Manager!NoCall, MP!NoCall,
       Manager!Returns, MP!Returns, Manager!Ops, MP!Ops, Manager!Initializes,
       MP!Initializes, Manager!InitFails, MP!InitFails, Manager!InitSucceeds,
       MP!InitSucceeds, Manager!InitCompletes, MP!InitCompletes, Manager!PtzZoom,
       MP!PtzZoom, Manager!PtzTakes, MP!PtzTakes, Manager!PtzControls, MP!PtzControls
  <1>3. Manager!Threads = MP!Threads /\ Manager!Ops = MP!Ops
    BY DEF Manager!Threads, MP!Threads, Manager!Ops, MP!Ops
  <1>4. Manager!Next <=> MP!Next
    BY <1>1, <1>2, <1>3 DEF Manager!Next, MP!Next
  <1>5. QED
    BY <1>1, <1>4

LEMMA CallIsStep ==
    ASSUME NEW p \in Players, NEW op \in MP!Ops, NEW ip \in Ips, Manager!Call(p, op, ip)
    PROVE  ManagerStep
  <1>1. MP!Call(p, op, ip)
    BY DEF Manager!Call, MP!Call, Manager!NoCall, MP!NoCall, Manager!Calling, MP!Calling
  <1>2. QED
    BY <1>1 DEF ManagerStep, MP!Next

LEMMA AnsweredIsStep ==
    ASSUME NEW p \in Players, Answered(p)
    PROVE  ManagerStep /\ call[p].op \in MP!Ops
  <1>1. MP!Returns(p)
    BY DEF Answered, Manager!Returns, MP!Returns, Manager!NoCall, MP!NoCall, Manager!Ops, MP!Ops
  <1>2. QED
    BY <1>1 DEF ManagerStep, MP!Next, MP!Returns

LEMMA SessionTypes ==
    ASSUME TypesInv, NEW p \in Players,
           EnsuresLogin(p) \/ LoggedIn(p) \/ PlayBackFails(p) \/ Forced(p)
    PROVE  PlayersInv' /\ ManagerStep
  <1>1. /\ PlayersInv /\ player \in [Players -> Members] /\ worker \in [Players -> Workers]
        /\ tasks \in [Players -> Seq(Posted)] /\ MP!TypeInv
    BY DEF TypesInv, PlayersInv
  <1>2. UNCHANGED guiVars
    BY DEF EnsuresLogin, Asks, LoggedIn, PlayBackFails, Forced
  <1>3. /\ worker[p].at \in PlayPlaces /\ worker[p].at \notin Resting /\ worker[p] \in Work
    BY <1>1, AtWork DEF EnsuresLogin, LoggedIn, PlayBackFails, Forced, PlayPlaces, Resting
  <1>4. worker[p].task \in Posted /\ worker[p].task.kind = "play" /\ worker[p].task.ip \in Ips
    BY <1>3 DEF Work, Posted
  <1> DEFINE Typed == worker' \in [Players -> Workers] /\ tasks' \in [Players -> Seq(Posted)]
  <1>5. ASSUME NEW at \in {"login", "loggedIn", "playBack", "ensureLogin"}, Goes(p, at), tasks' = tasks
        PROVE  Typed
    BY <1>1, <1>3, <1>4, <1>5, GoesTyped DEF Places, PlayPlaces
  <1>6. CASE EnsuresLogin(p)
    <2>1. Typed /\ player' = player
      BY <1>5, <1>6 DEF EnsuresLogin, Asks
    <2>2. ManagerStep
      BY <1>4, <1>6, CallIsStep DEF EnsuresLogin, Asks, ManagerStep, MP!Ops
    <2>3. QED
      BY <1>1, <1>2, <2>1, <2>2 DEF PlayersInv, guiVars
  <1>7. CASE LoggedIn(p)
    <2>1. Typed
      BY <1>5, <1>7 DEF LoggedIn
    <2>2. ManagerStep /\ call[p].op \in MP!Ops
      BY <1>7, AnsweredIsStep DEF LoggedIn
    <2>3. call[p].id \in Ids \cup {None}
      BY <1>1, <2>2, MP!SameFields, ManagerAssumed DEF MP!Threads
    <2>4. player' \in [Players -> Members]
      BY <1>1, <1>7, <2>3 DEF LoggedIn, Members
    <2>5. QED
      BY <1>1, <1>2, <2>1, <2>2, <2>4 DEF PlayersInv, guiVars
  <1>8. CASE PlayBackFails(p)
    <2>1. player' \in [Players -> Members]
      <3>1. player' = player \/ player' = [player EXCEPT ![p].m_lUserID = None]
        BY <1>8 DEF PlayBackFails
      <3>2. QED
        BY <1>1, <3>1, ZenonT(30) DEF Members
    <2>2. CASE worker[p].retry
      <3>1. Typed /\ UNCHANGED managerVars
        BY <1>1, <1>8, <2>2, EndsTyped DEF PlayBackFails
      <3>2. QED
        BY <1>1, <1>2, <2>1, <3>1 DEF PlayersInv, guiVars, ManagerStep
    <2>3. CASE ~worker[p].retry
      <3>1. PICK at \in {"ensureLogin", "force"} :
              worker' = [worker EXCEPT ![p].retry = TRUE, ![p].at = at]
        BY <1>8, <2>3 DEF PlayBackFails
      <3> DEFINE w == [worker[p] EXCEPT !.retry = TRUE, !.at = at]
      <3>2. w \in Work
        BY <1>3, <1>4 DEF Work, Places, PlayPlaces
      <3>3. worker' = [worker EXCEPT ![p] = w] /\ tasks' = tasks
        BY <1>1, <1>8, <2>3, <3>1 DEF PlayBackFails
      <3> HIDE DEF w
      <3>4. Typed
        BY <1>1, <3>2, <3>3, WorkersSet DEF Workers
      <3>5. ManagerStep
        BY <1>4, <1>8, <2>3, CallIsStep DEF PlayBackFails, ManagerStep, MP!Ops
      <3>6. QED
        BY <1>1, <1>2, <2>1, <3>4, <3>5 DEF PlayersInv, guiVars
    <2>4. QED
      BY <2>2, <2>3
  <1>9. CASE Forced(p)
    <2>1. Typed /\ player' = player
      BY <1>5, <1>9 DEF Forced
    <2>2. ManagerStep
      BY <1>9, AnsweredIsStep DEF Forced
    <2>3. QED
      BY <1>1, <1>2, <2>1, <2>2 DEF PlayersInv, guiVars
  <1>10. QED
    BY <1>6, <1>7, <1>8, <1>9

LEMMA LeavingTypes ==
    ASSUME TypesInv, NEW p \in Players, LeavesSession(p) \/ LeftSession(p)
    PROVE  PlayersInv' /\ ManagerStep
  <1>1. /\ PlayersInv /\ player \in [Players -> Members] /\ worker \in [Players -> Workers]
        /\ tasks \in [Players -> Seq(Posted)] /\ destroying \in Players \cup {None}
    BY DEF TypesInv, PlayersInv
  <1>2. /\ worker[p].at \in {"leave", "logout"} /\ worker[p].at \notin Resting /\ worker[p] \in Work
    BY <1>1, AtWork DEF LeavesSession, LeftSession, Resting
  <1>3. /\ worker[p].task \in Posted /\ worker[p].task.kind \in {"logout", "destroy"}
        /\ worker[p].task.kind = "logout" => worker[p].task.ip \in Ips
    BY <1>2 DEF Work, Posted
  <1>4. UNCHANGED requests /\ destroying' \in Players \cup {None}
    BY <1>1 DEF LeavesSession, LeftSession, Asks, guiVars
  <1>5. player' \in [Players -> Members]
    <2>1. player' = player \/ player' = [player EXCEPT ![p].m_lUserID = None]
      BY DEF LeavesSession, LeftSession, Asks
    <2>2. QED
      BY <1>1, <2>1, ZenonT(30) DEF Members
  <1> DEFINE Typed == worker' \in [Players -> Workers] /\ tasks' \in [Players -> Seq(Posted)]
  <1>6. ASSUME worker' = [worker EXCEPT ![p] = Gone], tasks' = tasks
        PROVE  Typed
    BY <1>1, <1>6, WorkersSet DEF Workers
  <1>7. CASE LeavesSession(p)
    <2>1. PICK ip \in Ips :
            \/ Asks(p, "logoutShared", ip, "logout")
            \/ /\ worker' = [worker EXCEPT ![p] = Gone]
               /\ UNCHANGED <<managerVars, tasks>>
      <3>1. player[p].m_recorderIp \in Ips
        BY <1>1 DEF Members
      <3>2. QED
        BY <1>3, <1>7, <3>1 DEF LeavesSession
    <2>2. CASE Asks(p, "logoutShared", ip, "logout")
      <3>1. Goes(p, "logout") /\ tasks' = tasks
        BY <2>2 DEF Asks
      <3>2. Typed
        BY <1>1, <1>2, <1>3, <3>1, GoesTyped DEF Places, PlayPlaces
      <3>3. ManagerStep
        BY <2>2, CallIsStep DEF Asks, MP!Ops
      <3>4. QED
        BY <1>1, <1>4, <1>5, <3>2, <3>3 DEF PlayersInv
    <2>3. CASE worker' = [worker EXCEPT ![p] = Gone] /\ UNCHANGED <<managerVars, tasks>>
      BY <1>1, <1>4, <1>5, <1>6, <2>3 DEF PlayersInv, ManagerStep
    <2>4. QED
      BY <2>1, <2>2, <2>3
  <1>8. CASE LeftSession(p)
    <2>1. Typed
      BY <1>1, <1>6, <1>8, EndsTyped DEF LeftSession
    <2>2. ManagerStep
      BY <1>8, AnsweredIsStep DEF LeftSession
    <2>3. QED
      BY <1>1, <1>4, <1>5, <2>1, <2>2 DEF PlayersInv
  <1>9. QED
    BY <1>7, <1>8

LEMMA StepIsManagers ==
    ASSUME NEW p \in Players, Manager!Steps(p)
    PROVE  ManagerStep /\ MP!Steps(p)
  <1>1. MP!Steps(p)
    BY SameManager
  <1>2. p \in MP!Threads
    BY DEF MP!Threads
  <1>3. QED
    BY <1>1, <1>2 DEF ManagerStep, MP!Next

LEMMA PlayersStep ==
    ASSUME TypesInv, [Next]_vars
    PROVE  PlayersInv' /\ ManagerStep
  <1>1. CASE UNCHANGED vars
    BY <1>1 DEF TypesInv, PlayersInv, vars, guiVars, ManagerStep
  <1>2. CASE Requests
    BY <1>2, RequestTypes DEF ManagerStep
  <1>3. ASSUME NEW p \in Players, Works(p) \/ StopFails(p)
        PROVE  PlayersInv' /\ ManagerStep
    <2>1. CASE Manager!Steps(p) /\ UNCHANGED <<player, tasks, worker, guiVars, streamVars>>
      BY <2>1, StepIsManagers DEF TypesInv, PlayersInv, guiVars
    <2>2. QED
      BY <1>3, <2>1, CleanupTypes, StartingTypes, SessionTypes, LeavingTypes DEF Works, ManagerStep
  <1>4. ASSUME NEW h \in Handles, DataArrives(h) \/ Delivers(h) \/ InputsData(h)
        PROVE  PlayersInv' /\ ManagerStep
    <2>1. UNCHANGED <<managerVars, tasks, worker, guiVars>>
      BY <1>4 DEF DataArrives, Delivers, ReadsMembers, NotesHeader, OpensStream, GivesUpInput, InputsData
    <2>2. PlayersInv
      BY DEF TypesInv
    <2>3. player' \in [Players -> Members]
      <3>1. player' = player \/ \E p \in Players : player' = [player EXCEPT ![p].m_sysHeadReceived = TRUE]
        <4>1. CASE NotesHeader(h)
          <5>1. stream[h].user \in Players
            BY <4>1, RunningIsHeld DEF TypesInv, NotesHeader
          <5>2. QED
            BY <4>1, <5>1 DEF NotesHeader
        <4>2. QED
          BY <1>4, <4>1 DEF DataArrives, Delivers, ReadsMembers, OpensStream, GivesUpInput, InputsData
      <3>2. ASSUME NEW p \in Players, player' = [player EXCEPT ![p].m_sysHeadReceived = TRUE]
            PROVE  player' \in [Players -> Members]
        BY <2>2, <3>2 DEF PlayersInv, Members
      <3>3. QED
        BY <2>2, <3>1, <3>2 DEF PlayersInv
    <2>4. QED
      BY <2>1, <2>2, <2>3 DEF PlayersInv, guiVars, ManagerStep
  <1>5. QED
    BY <1>1, <1>2, <1>3, <1>4 DEF Next, Runs

-----------------------------------------------------------------------------
LEMMA ManagerTypes ==
    ASSUME MP!TypeInv, ManagerStep
    PROVE  MP!TypeInv'
  BY MP!TypeStep, ManagerAssumed DEF ManagerStep, managerVars, MP!vars

LEMMA TypesInit == Init => TypesInv
  <1> SUFFICES ASSUME Init PROVE TypesInv
    OBVIOUS
  <1>1. PlayersInv
    BY ArchiveAssumption DEF Init, PlayersInv, Members, Workers
  <1>2. MP!TypeInv
    BY DEF Init, MP!TypeInv, MP!TypeOK, MP!NoCall, Manager!NoCall, MP!Threads, MP!InHand, MP!Ops
  <1>3. QED
    BY <1>1, <1>2, InitHolds DEF TypesInv

LEMMA AlwaysTyped == Spec => []TypesInv
  <1>1. TypesInv /\ [Next]_vars => TypesInv'
    BY NextKeeps, PlayersStep, ManagerTypes DEF TypesInv
  <1>2. QED
    BY <1>1, TypesInit, PTL DEF Spec

LEMMA TypesAreOK == TypesInv => TypeOK
  <1> SUFFICES ASSUME TypesInv PROVE TypeOK
    OBVIOUS
  <1>1. Manager!TypeOK
    BY DEF TypesInv, MP!TypeInv, MP!TypeOK, Manager!TypeOK, MP!SharedSession, Manager!SharedSession,
           MP!Threads, Manager!Threads, MP!InCall, Manager!InCall, MP!NoCall, Manager!NoCall,
           MP!Ops, Manager!Ops, MP!Places, Manager!Places
  <1>2. worker \in [Players -> {Waiting, Gone}
                     \cup [at : Places, task : Tasks, retry : BOOLEAN,
                           handle : Handles \cup {None}, port : Ports \cup {None}]]
    BY DEF TypesInv, PlayersInv, Workers, Work, Posted
  <1>3. tasks \in [Players -> Seq(Tasks)]
    <2>1. \A s \in Seq(Posted) : s \in Seq(Tasks)
      BY DEF Posted
    <2>2. QED
      BY <2>1 DEF TypesInv, PlayersInv
  <1>4. QED
    BY <1>1, <1>2, <1>3 DEF TypesInv, PlayersInv, Members, IInv, ShapeInv, StreamTypes, Streams, StreamStates, TypeOK

\* The members, the tasks, the workers, the streams and the manager's tables
\* keep their types, although the session ids and recorders come and go by way
\* of tasks posted long before (HikvisionArchivePlayer with HikvisionManager).
THEOREM ArchiveTypeOK == Spec => []TypeOK
  BY AlwaysTyped, TypesAreOK, PTL

\* The players call the manager as it may be called, from the worker of each,
\* one call at a time: a step of theirs is a step of HikvisionManager or leaves
\* it alone.
THEOREM ArchiveStepsAreManagers == Spec => [][Manager!Next]_managerVars
  <1>1. TypesInv /\ [Next]_vars => [Manager!Next]_managerVars
    <2> SUFFICES ASSUME TypesInv, [Next]_vars PROVE [Manager!Next]_managerVars
      OBVIOUS
    <2> QED
      BY SameManager, PlayersStep DEF ManagerStep
  <1>2. QED
    BY <1>1, AlwaysTyped, PTL DEF Spec

\* With the players at work on their threads no session is logged out twice, and
\* none in a table is closed (loginShared() and logoutShared()).
THEOREM ArchiveSessionsOwnedOnce == Spec => []Manager!SessionHasOneOwner
  <1>1. Init => MP!OwnerInv
    <2> SUFFICES ASSUME Init PROVE MP!OwnerInv
      OBVIOUS
    <2>1. MP!TypeInv
      BY TypesInit DEF TypesInv
    <2>2. /\ \A i \in Ips : MP!InSessions(i) = None /\ MP!InShared(i) = None
          /\ \A t \in MP!Threads : MP!Holds(t) = None
      BY DEF Init, MP!InSessions, MP!InShared, MP!Holds, MP!InHand, MP!Ops, MP!Threads, Manager!NoCall
    <2>3. QED
      BY <2>1, <2>2 DEF MP!OwnerInv, MP!OneOwner, MP!OwnedAreOpen
  <1>2. TypesInv /\ MP!OwnerInv /\ [Next]_vars => MP!OwnerInv'
    <2>1. MP!OwnerInv /\ ManagerStep => MP!OwnerInv'
      BY MP!OwnerStep, ManagerAssumed DEF ManagerStep, managerVars, MP!vars
    <2>2. QED
      BY <2>1, PlayersStep
  <1>3. MP!OwnerInv => Manager!SessionHasOneOwner
    <2>1. MP!OwnerInv => MP!SessionHasOneOwner
      BY MP!OwnersAreOne, ManagerAssumed
    <2>2. MP!SessionHasOneOwner => Manager!SessionHasOneOwner
      BY DEF MP!SessionHasOneOwner, Manager!SessionHasOneOwner, MP!Owners, Manager!Owners,
             MP!Threads, Manager!Threads, MP!Ops, Manager!Ops
    <2>3. QED
      BY <2>1, <2>2
  <1>4. QED
    BY <1>1, <1>2, <1>3, AlwaysTyped, PTL DEF Spec

\* A shared session the players have all left is in no table (logoutShared()).
THEOREM ArchiveSharedIsReferenced == Spec => []Manager!SharedIsReferenced
  <1>1. Init => Manager!SharedIsReferenced
    BY DEF Init, Manager!SharedIsReferenced
  <1>2. TypesInv /\ Manager!SharedIsReferenced /\ [Next]_vars => Manager!SharedIsReferenced'
    <2>1. MP!TypeInv /\ MP!SharedIsReferenced /\ ManagerStep => MP!SharedIsReferenced'
      <3> SUFFICES ASSUME MP!TypeInv, MP!SharedIsReferenced, ManagerStep PROVE MP!SharedIsReferenced'
        OBVIOUS
      <3>1. CASE UNCHANGED managerVars
        BY <3>1 DEF managerVars, MP!SharedIsReferenced
      <3>2. CASE MP!Rest
        BY <3>2, MP!RestKeeps, ManagerAssumed DEF MP!SharedIsReferenced
      <3>3. CASE \E t \in MP!Threads : MP!Steps(t)
        BY <3>3, MP!ReferencedSteps, ManagerAssumed
      <3>4. QED
        BY <3>1, <3>2, <3>3 DEF ManagerStep, MP!Next, MP!Rest
    <2>2. QED
      BY <2>1, PlayersStep DEF TypesInv, MP!SharedIsReferenced, Manager!SharedIsReferenced
  <1>3. QED
    BY <1>1, <1>2, AlwaysTyped, PTL DEF Spec
=============================================================================
