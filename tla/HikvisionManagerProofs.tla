----------------------- MODULE HikvisionManagerProofs -----------------------
(***************************************************************************)
(* Proofs about HikvisionManager, for any threads, recorders and user ids: *)
(* its tables keep their types, a session has one owner, and a shared      *)
(* session in its table is referred to.                                    *)
(***************************************************************************)
EXTENDS HikvisionManager, TLAPS

\* A thread between the SDK and a table has a session in hand.
InHand(t) == call[t].op \in Ops /\ call[t].at \in {"insert", "logout"}

TypeInv ==
    /\ TypeOK
    /\ \A t \in Threads : InHand(t) => call[t].id \in Ids

CallOK(t) ==
    /\ call[t] \in InCall \cup {NoCall}
    /\ InHand(t) => call[t].id \in Ids

LEMMA CallIs ==
    ASSUME TypeInv, NEW t \in Threads
    PROVE  /\ CallOK(t)
           /\ call[t].op \in Ops => call[t] \in InCall
           /\ call[t] = NoCall => call[t].op \notin Ops
  BY DEF TypeInv, TypeOK, CallOK, NoCall, Ops

LEMMA TableIs ==
    ASSUME TypeInv, NEW ip \in Ips
    PROVE  /\ m_sessions[ip] \in Ids \cup {None}
           /\ m_sharedSessions[ip] # None =>
                /\ m_sharedSessions[ip] \in SharedSession
                /\ m_sharedSessions[ip].lUserID \in Ids
                /\ m_sharedSessions[ip].refCount \in Nat
           /\ m_sharedSessions[ip] \in SharedSession \cup {None}
  BY DEF TypeInv, TypeOK, SharedSession

\* Thread t's call becomes c, and no other thread's changes.
LEMMA OneCallChanges ==
    ASSUME TypeInv, NEW t \in Threads, NEW c \in InCall \cup {NoCall},
           c.op \in Ops /\ c.at \in {"insert", "logout"} => c.id \in Ids,
           call' = [call EXCEPT ![t] = c]
    PROVE  DOMAIN call' = Threads /\ \A u \in Threads : CallOK(u)'
  <1>1. DOMAIN call' = Threads /\ call'[t] = c
    BY DEF TypeInv, TypeOK
  <1>2. \A u \in Threads : u # t => call'[u] = call[u]
    BY DEF TypeInv, TypeOK
  <1>3. QED
    BY <1>1, <1>2, CallIs DEF CallOK, InHand

LEMMA TypeFrom ==
    ASSUME m_sessions' \in [Ips -> Ids \cup {None}],
           DOMAIN m_sharedSessions' = Ips,
           \A ip \in Ips : m_sharedSessions'[ip] \in SharedSession \cup {None},
           sdk' \in [Ids -> {"unused", "open", "closed"}],
           init' \in {"starting", "initialized", "ready", "failed"},
           DOMAIN call' = Threads, \A t \in Threads : CallOK(t)',
           m_ptzQueue' \in Seq(Ips), shown' \in [Ips -> BOOLEAN]
    PROVE  TypeInv'
  BY DEF TypeInv, TypeOK, CallOK, InHand

\* The record a step leaves in its thread.
Updated(t, place, id, was, now) ==
    [call[t] EXCEPT !.at = place, !.id = id, !.wasLogged = was, !.isLoggedNow = now]

LEMMA UpdatedIsCall ==
    ASSUME TypeInv, NEW t \in Threads, call[t].op \in Ops,
           NEW place \in Places, NEW id \in Ids \cup {None},
           NEW was \in BOOLEAN, NEW now \in BOOLEAN
    PROVE  /\ Updated(t, place, id, was, now) \in InCall
           /\ Updated(t, place, id, was, now).op = call[t].op
           /\ Updated(t, place, id, was, now).at = place
           /\ Updated(t, place, id, was, now).id = id
  BY CallIs DEF Updated, InCall

LEMMA SameFields ==
    ASSUME TypeInv, NEW t \in Threads, call[t].op \in Ops
    PROVE  /\ call[t].ip \in Ips /\ call[t].at \in Places
           /\ call[t].id \in Ids \cup {None}
           /\ call[t].wasLogged \in BOOLEAN /\ call[t].isLoggedNow \in BOOLEAN
  BY CallIs DEF InCall

\* A step of a call replaces its record: where it goes, and with which id.
LEMMA StepUpdates ==
    ASSUME TypeInv, NEW t \in Threads, Steps(t)
    PROVE  /\ call[t].op \in Ops
           /\ \E place \in Places, id \in Ids \cup {None}, was \in BOOLEAN, now \in BOOLEAN :
                /\ call' = [call EXCEPT ![t] = Updated(t, place, id, was, now)]
                /\ place \in {"insert", "logout"} => id \in Ids
  <1>1. call[t].op \in Ops
    BY DEF Steps, At, Ops, LoginSharedEnters, GetSessionEnters, LogoutEnters,
           DiscoveryGivesUp, LogoutSharedEnters, ForceLogoutSharedEnters, LoginFails,
           LoginSucceeds, InsertsShared, InsertsSession, LogsOut, Emits
  <1>2. call[t] \in InCall /\ DOMAIN call = Threads
    BY <1>1, CallIs DEF TypeInv, TypeOK
  <1>3. /\ call[t].ip \in Ips /\ call[t].at \in Places /\ call[t].id \in Ids \cup {None}
        /\ call[t].wasLogged \in BOOLEAN /\ call[t].isLoggedNow \in BOOLEAN
    BY <1>1, SameFields
  <1>4. \A sessions, shared, ip : IsLoggedIn(sessions, shared, ip) \in BOOLEAN
    BY DEF IsLoggedIn
  <1>5. \A ip : IsLogged(ip) \in BOOLEAN
    BY <1>4 DEF IsLogged
  <1>6. /\ m_sessions[call[t].ip] \in Ids \cup {None}
        /\ m_sharedSessions[call[t].ip] # None => m_sharedSessions[call[t].ip].lUserID \in Ids
    BY <1>3, TableIs
  <1> DEFINE Goal ==
        \E place \in Places, id \in Ids \cup {None}, was \in BOOLEAN, now \in BOOLEAN :
            /\ call' = [call EXCEPT ![t] = Updated(t, place, id, was, now)]
            /\ place \in {"insert", "logout"} => id \in Ids
  <1>7. ASSUME NEW found \in Ids \cup {None}, ReturnsOrLogsIn(t, found)
        PROVE  Goal
    <2>1. call' = [call EXCEPT ![t] = Updated(t, IF found # None THEN "returned" ELSE "login",
                                             found, IsLogged(call[t].ip), call[t].isLoggedNow)]
      BY <1>2, <1>7 DEF ReturnsOrLogsIn, Updated, InCall
    <2>2. QED
      BY <1>3, <1>5, <2>1 DEF Places
  <1>8. ASSUME NEW sessions, NEW shared, NEW id \in Ids \cup {None},
               Leaves(t, sessions, shared, id)
        PROVE  Goal
    <2>1. call' = [call EXCEPT ![t] =
                     Updated(t, IF id # None THEN "logout" ELSE "emit", id,
                             IsLogged(call[t].ip), IsLoggedIn(sessions, shared, call[t].ip))]
      BY <1>2, <1>8 DEF Leaves, Updated, InCall
    <2>2. QED
      BY <1>4, <1>5, <2>1 DEF Places
  <1>9. ASSUME NEW sessions, NEW shared, Inserts(t, sessions, shared)
        PROVE  Goal
    <2>1. PICK was \in BOOLEAN :
            call' = [call EXCEPT ![t] =
                       Updated(t, "emit", call[t].id, was,
                               IsLoggedIn(sessions, shared, call[t].ip))]
      <3>1. CASE call[t].op = "discoverCameras"
        BY <1>2, <1>5, <1>9, <3>1 DEF Inserts, Updated, InCall
      <3>2. CASE call[t].op # "discoverCameras"
        BY <1>2, <1>3, <1>9, <3>2 DEF Inserts, Updated, InCall
      <3>3. QED
        BY <3>1, <3>2
    <2>2. QED
      BY <1>3, <1>4, <2>1 DEF Places
  <1>10. ASSUME NEW place \in {"returned", "login"}, Goes(t, place)
         PROVE  Goal
    <2>1. call' = [call EXCEPT ![t] = Updated(t, place, call[t].id, call[t].wasLogged,
                                             call[t].isLoggedNow)]
      BY <1>2, <1>10 DEF Goes, Updated, InCall
    <2>2. QED
      BY <1>3, <2>1 DEF Places
  <1>11. ASSUME NEW place \in Places, NEW id \in Ids \cup {None},
                place \in {"insert", "logout"} => id \in Ids,
                call' = [call EXCEPT ![t].at = place, ![t].id = id]
         PROVE  Goal
    <2>1. call' = [call EXCEPT ![t] = Updated(t, place, id, call[t].wasLogged,
                                             call[t].isLoggedNow)]
      BY <1>2, <1>11 DEF Updated, InCall
    <2>2. QED
      BY <1>3, <1>11, <2>1
  <1> HIDE DEF Goal
  <1>12. ASSUME LoginSharedEnters(t) \/ GetSessionEnters(t)
         PROVE  Goal
    BY <1>6, <1>7, <1>12 DEF LoginSharedEnters, GetSessionEnters
  <1>13. ASSUME LogoutEnters(t) \/ LogoutSharedEnters(t) \/ ForceLogoutSharedEnters(t)
         PROVE  Goal
    BY <1>6, <1>8, <1>13 DEF LogoutEnters, LogoutSharedEnters, ForceLogoutSharedEnters
  <1>14. ASSUME DiscoveryGivesUp(t) \/ Emits(t)
         PROVE  Goal
    BY <1>10, <1>14 DEF DiscoveryGivesUp, Emits
  <1>15. ASSUME LoginFails(t) \/ (\E id \in Ids : LoginSucceeds(t, id)) \/ LogsOut(t)
         PROVE  Goal
    BY <1>11, <1>15 DEF LoginFails, LoginSucceeds, LogsOut, Places
  <1>16. ASSUME InsertsShared(t) \/ InsertsSession(t)
         PROVE  Goal
    BY <1>9, <1>16 DEF InsertsShared, InsertsSession
  <1>17. Goal
    BY <1>12, <1>13, <1>14, <1>15, <1>16 DEF Steps
  <1>18. QED
    BY <1>1, <1>17 DEF Goal

-----------------------------------------------------------------------------
(***************************************************************************)
(* Type correctness.                                                       *)
(***************************************************************************)

LEMMA StepsType ==
    ASSUME TypeInv, NEW t \in Threads, Steps(t)
    PROVE  TypeInv'
  <1>1. DOMAIN call' = Threads /\ \A u \in Threads : CallOK(u)'
    <2>1. PICK place \in Places, id \in Ids \cup {None}, was \in BOOLEAN, now \in BOOLEAN :
            /\ call' = [call EXCEPT ![t] = Updated(t, place, id, was, now)]
            /\ place \in {"insert", "logout"} => id \in Ids
      BY StepUpdates
    <2> DEFINE c == Updated(t, place, id, was, now)
    <2>2. c \in InCall /\ c.at = place /\ c.id = id
      BY StepUpdates, UpdatedIsCall
    <2> HIDE DEF c
    <2>3. c \in InCall \cup {NoCall} /\ (c.op \in Ops /\ c.at \in {"insert", "logout"} => c.id \in Ids)
      BY <2>1, <2>2
    <2>4. call' = [call EXCEPT ![t] = c]
      BY <2>1 DEF c
    <2>5. QED
      BY <2>3, <2>4, OneCallChanges
  <1>2. /\ call[t].ip \in Ips /\ call[t].id \in Ids \cup {None}
        /\ call[t].wasLogged \in BOOLEAN /\ call[t].isLoggedNow \in BOOLEAN
        /\ InHand(t) => call[t].id \in Ids
    BY StepUpdates, SameFields, CallIs DEF CallOK
  <1>3. /\ m_sessions \in [Ips -> Ids \cup {None}] /\ DOMAIN m_sharedSessions = Ips
        /\ sdk \in [Ids -> {"unused", "open", "closed"}]
        /\ init \in {"starting", "initialized", "ready", "failed"}
        /\ m_ptzQueue \in Seq(Ips) /\ shown \in [Ips -> BOOLEAN]
    BY DEF TypeInv, TypeOK
  <1>4. m_ptzQueue' = m_ptzQueue /\ init' = init
    BY ZenonT(30) DEF Steps, LoginSharedEnters, GetSessionEnters, LogoutEnters, Leaves,
           DiscoveryGivesUp, LogoutSharedEnters, ForceLogoutSharedEnters, LoginFails,
           LoginSucceeds, InsertsShared, InsertsSession, Inserts, LogsOut, Emits
  <1>5. sdk' \in [Ids -> {"unused", "open", "closed"}]
    BY <1>3, ZenonT(30) DEF Steps, LoginSharedEnters, GetSessionEnters, LogoutEnters, Leaves,
           DiscoveryGivesUp, LogoutSharedEnters, ForceLogoutSharedEnters, LoginFails,
           LoginSucceeds, InsertsShared, InsertsSession, Inserts, LogsOut, Emits
  <1>6. shown' \in [Ips -> BOOLEAN]
    BY <1>2, <1>3, ZenonT(30) DEF Steps, LoginSharedEnters, GetSessionEnters, LogoutEnters, Leaves,
           DiscoveryGivesUp, LogoutSharedEnters, ForceLogoutSharedEnters, LoginFails,
           LoginSucceeds, InsertsShared, InsertsSession, Inserts, LogsOut, Emits
  <1>7. m_sessions' \in [Ips -> Ids \cup {None}]
    BY <1>2, <1>3 DEF Steps, LoginSharedEnters, GetSessionEnters, LogoutEnters, Leaves,
           DiscoveryGivesUp, LogoutSharedEnters, ForceLogoutSharedEnters, LoginFails,
           LoginSucceeds, InsertsShared, InsertsSession, Inserts, LogsOut, Emits
  <1>8. /\ DOMAIN m_sharedSessions' = Ips
        /\ \A ip \in Ips : m_sharedSessions'[ip] \in SharedSession \cup {None}
    <2>1. \/ m_sharedSessions' = m_sharedSessions
          \/ \E entry \in SharedSession \cup {None} :
                m_sharedSessions' = [m_sharedSessions EXCEPT ![call[t].ip] = entry]
      <3>1. CASE LoginSharedEnters(t)
        <4>1. CASE m_sharedSessions[call[t].ip] = None
          BY <3>1, <4>1 DEF LoginSharedEnters
        <4>2. CASE m_sharedSessions[call[t].ip] # None
          <5> DEFINE entry == [m_sharedSessions[call[t].ip] EXCEPT
                                 !.refCount = m_sharedSessions[call[t].ip].refCount + 1]
          <5>1. entry \in SharedSession
            BY <1>2, <4>2, TableIs DEF SharedSession
          <5>2. m_sharedSessions' = [m_sharedSessions EXCEPT ![call[t].ip] = entry]
            BY <1>2, <1>3, <3>1, <4>2 DEF LoginSharedEnters
          <5>3. QED
            BY <5>1, <5>2
        <4>3. QED
          BY <4>1, <4>2
      <3>2. CASE LogoutSharedEnters(t)
        <4>1. CASE m_sharedSessions[call[t].ip] # None
                     /\ m_sharedSessions[call[t].ip].refCount > 1
          <5> DEFINE entry == [m_sharedSessions[call[t].ip] EXCEPT
                                 !.refCount = m_sharedSessions[call[t].ip].refCount - 1]
          <5>1. entry \in SharedSession
            BY <1>2, <4>1, TableIs DEF SharedSession
          <5>2. m_sharedSessions' = [m_sharedSessions EXCEPT ![call[t].ip] = entry]
            BY <1>2, <1>3, <3>2, <4>1 DEF LogoutSharedEnters, Leaves
          <5>3. QED
            BY <5>1, <5>2
        <4>2. CASE ~(m_sharedSessions[call[t].ip] # None
                       /\ m_sharedSessions[call[t].ip].refCount > 1)
          BY <3>2, <4>2 DEF LogoutSharedEnters, Leaves
        <4>3. QED
          BY <4>1, <4>2
      <3>3. CASE ForceLogoutSharedEnters(t)
        BY <3>3 DEF ForceLogoutSharedEnters, Leaves
      <3>4. CASE InsertsShared(t)
        <4>1. call[t].id \in Ids
          BY <1>2, <3>4, StepUpdates DEF InsertsShared, At, InHand
        <4>2. [lUserID |-> call[t].id, refCount |-> 1] \in SharedSession
          BY <4>1 DEF SharedSession
        <4>3. QED
          BY <3>4, <4>2 DEF InsertsShared, Inserts
      <3>5. CASE ~LoginSharedEnters(t) /\ ~LogoutSharedEnters(t)
                   /\ ~ForceLogoutSharedEnters(t) /\ ~InsertsShared(t)
        BY <3>5 DEF Steps, GetSessionEnters, LogoutEnters, Leaves, DiscoveryGivesUp, LoginFails,
                    LoginSucceeds, InsertsSession, Inserts, LogsOut, Emits
      <3>6. QED
        BY <3>1, <3>2, <3>3, <3>4, <3>5
    <2>2. QED
      BY <1>3, <2>1, TableIs
  <1>9. QED
    BY <1>1, <1>3, <1>4, <1>5, <1>6, <1>7, <1>8, TypeFrom

\* The steps that leave the tables and the SDK's sessions alone.
Rest ==
    \/ \E t \in Clients : (\E op \in Ops, ip \in Ips : Call(t, op, ip)) \/ Returns(t)
    \/ Initializes \/ (\E ip \in Ips : PtzZoom(ip)) \/ PtzTakes \/ PtzControls

LEMMA RestKeeps ==
    ASSUME TypeInv, Rest
    PROVE  /\ UNCHANGED <<m_sessions, m_sharedSessions, sdk, shown>>
           /\ init' \in {"starting", "initialized", "ready", "failed"}
           /\ m_ptzQueue' \in Seq(Ips)
           /\ \/ call' = call
              \/ \E t \in Threads, c \in InCall \cup {NoCall} :
                   /\ call' = [call EXCEPT ![t] = c]
                   /\ ~(c.op \in Ops /\ c.at \in {"insert", "logout"})
  <1>1. \A op \in Ops, ip \in Ips :
          Calling(op, ip) \in InCall /\ Calling(op, ip).at = "enter"
    BY DEF Calling, InCall, Places
  <1>2. NoCall \in InCall \cup {NoCall} /\ NoCall.op \notin Ops
    BY DEF NoCall, Ops
  <1>3. init \in {"starting", "initialized", "ready", "failed"} /\ m_ptzQueue \in Seq(Ips)
    BY DEF TypeInv, TypeOK
  <1>4. ASSUME NEW t \in Clients, NEW op \in Ops, NEW ip \in Ips, Call(t, op, ip)
        PROVE  \E c \in InCall \cup {NoCall} :
                 call' = [call EXCEPT ![t] = c] /\ ~(c.op \in Ops /\ c.at \in {"insert", "logout"})
    BY <1>1, <1>4 DEF Call
  <1>5. ASSUME NEW t \in Threads, Returns(t)
        PROVE  \E c \in InCall \cup {NoCall} :
                 call' = [call EXCEPT ![t] = c] /\ ~(c.op \in Ops /\ c.at \in {"insert", "logout"})
    BY <1>2, <1>5 DEF Returns
  <1>6. ASSUME PtzTakes
        PROVE  /\ m_ptzQueue' \in Seq(Ips)
               /\ \E c \in InCall \cup {NoCall} :
                    /\ call' = [call EXCEPT ![PtzWorker] = c]
                    /\ ~(c.op \in Ops /\ c.at \in {"insert", "logout"})
    <2>1. Head(m_ptzQueue) \in Ips /\ Tail(m_ptzQueue) \in Seq(Ips)
      BY <1>3, <1>6 DEF PtzTakes
    <2>2. Calling("getSession", Head(m_ptzQueue)) \in InCall
      BY <1>1, <2>1 DEF Ops
    <2>3. Calling("getSession", Head(m_ptzQueue)).at = "enter"
      BY DEF Calling
    <2>4. QED
      BY <1>6, <2>1, <2>2, <2>3 DEF PtzTakes
  <1>7. UNCHANGED <<m_sessions, m_sharedSessions, sdk, shown>>
    BY DEF Rest, Call, Returns, Initializes, InitFails, InitSucceeds, InitCompletes, PtzZoom,
           PtzTakes, PtzControls
  <1>8. init' \in {"starting", "initialized", "ready", "failed"}
    BY <1>3 DEF Rest, Call, Returns, Initializes, InitFails, InitSucceeds, InitCompletes, PtzZoom,
           PtzTakes, PtzControls
  <1>9. m_ptzQueue' \in Seq(Ips)
    BY <1>3, <1>6 DEF Rest, Call, Returns, Initializes, InitFails, InitSucceeds, InitCompletes,
                      PtzZoom, PtzControls
  <1>10. \/ call' = call
         \/ \E t \in Threads, c \in InCall \cup {NoCall} :
              /\ call' = [call EXCEPT ![t] = c]
              /\ ~(c.op \in Ops /\ c.at \in {"insert", "logout"})
    <2>1. Clients \subseteq Threads /\ PtzWorker \in Threads
      BY DEF Threads
    <2>2. CASE Initializes \/ \E ip \in Ips : PtzZoom(ip)
      BY <2>2 DEF Initializes, InitFails, InitSucceeds, InitCompletes, PtzZoom
    <2>3. QED
      BY <1>4, <1>5, <1>6, <2>1, <2>2 DEF Rest, PtzControls
  <1>11. QED
    BY <1>7, <1>8, <1>9, <1>10

LEMMA NextIs ==
    ASSUME [Next]_vars
    PROVE  UNCHANGED vars \/ Rest \/ \E t \in Threads : Steps(t)
  BY DEF Next, Rest

LEMMA TypeStep == TypeInv /\ [Next]_vars => TypeInv'
  <1> SUFFICES ASSUME TypeInv, [Next]_vars PROVE TypeInv'
    OBVIOUS
  <1>1. CASE UNCHANGED vars
    BY <1>1 DEF vars, TypeInv, TypeOK, InHand
  <1>2. CASE Rest
    <2>1. \A u \in Threads : CallOK(u)
      BY CallIs
    <2>2. DOMAIN call' = Threads /\ \A u \in Threads : CallOK(u)'
      <3>1. CASE call' = call
        BY <2>1, <3>1 DEF CallOK, InHand, TypeInv, TypeOK
      <3>2. QED
        BY <1>2, <3>1, RestKeeps, OneCallChanges
    <2>3. QED
      BY <1>2, <2>2, RestKeeps, TypeFrom DEF TypeInv, TypeOK
  <1>3. QED
    BY <1>1, <1>2, StepsType, NextIs

LEMMA InitType == Init => TypeInv
  BY DEF Init, TypeInv, TypeOK, NoCall, InHand, Ops

\* The tables, the calls and the PTZ queue keep their types; a call that puts a
\* session in a table, or logs one out, has one.
THEOREM ManagerTypeOK == Spec => []TypeOK
  <1>1. Spec => []TypeInv
    BY InitType, TypeStep, PTL DEF Spec
  <1>2. TypeInv => TypeOK
    BY DEF TypeInv
  <1>3. QED
    BY <1>1, <1>2, PTL

-----------------------------------------------------------------------------
(***************************************************************************)
(* A session has one owner.  Every step moves an id from one place to      *)
(* another, drops it, or takes a fresh one.                                *)
(***************************************************************************)

\* The id in a table's entry or in a thread's hand.
InSessions(ip) == m_sessions[ip]

InShared(ip) == IF m_sharedSessions[ip] = None THEN None ELSE m_sharedSessions[ip].lUserID

Holds(t) == IF InHand(t) THEN call[t].id ELSE None

OneOwner ==
    /\ \A i, j \in Ips : InSessions(i) # None /\ InSessions(i) = InSessions(j) => i = j
    /\ \A i, j \in Ips : InShared(i) # None /\ InShared(i) = InShared(j) => i = j
    /\ \A t, u \in Threads : Holds(t) # None /\ Holds(t) = Holds(u) => t = u
    /\ \A i, j \in Ips : InSessions(i) # None => InSessions(i) # InShared(j)
    /\ \A i \in Ips, t \in Threads :
         Holds(t) # None => Holds(t) # InSessions(i) /\ Holds(t) # InShared(i)

OwnedAreOpen ==
    /\ \A i \in Ips : InSessions(i) # None => sdk[InSessions(i)] = "open"
    /\ \A i \in Ips : InShared(i) # None => sdk[InShared(i)] = "open"
    /\ \A t \in Threads : Holds(t) # None => sdk[Holds(t)] = "open"

OwnerInv == TypeInv /\ OneOwner /\ OwnedAreOpen

\* An id is only dropped.
LEMMA Dropped ==
    ASSUME OneOwner, OwnedAreOpen, sdk' = sdk,
           \A i \in Ips : InSessions(i)' \in {InSessions(i), None},
           \A i \in Ips : InShared(i)' \in {InShared(i), None},
           \A t \in Threads : Holds(t)' \in {Holds(t), None}
    PROVE  OneOwner' /\ OwnedAreOpen'
  BY DEF OneOwner, OwnedAreOpen

\* A logout's critical section takes the id of a table's entry in hand.
LEMMA TakenFromSessions ==
    ASSUME OneOwner, OwnedAreOpen, sdk' = sdk, NEW ip \in Ips, NEW t \in Threads,
           InSessions(ip)' = None, Holds(t)' = InSessions(ip),
           \A i \in Ips : i # ip => InSessions(i)' = InSessions(i),
           \A i \in Ips : InShared(i)' = InShared(i),
           \A u \in Threads : u # t => Holds(u)' = Holds(u)
    PROVE  OneOwner' /\ OwnedAreOpen'
  BY DEF OneOwner, OwnedAreOpen

LEMMA TakenFromShared ==
    ASSUME OneOwner, OwnedAreOpen, sdk' = sdk, NEW ip \in Ips, NEW t \in Threads,
           InShared(ip)' = None, Holds(t)' = InShared(ip),
           \A i \in Ips : i # ip => InShared(i)' = InShared(i),
           \A i \in Ips : InSessions(i)' = InSessions(i),
           \A u \in Threads : u # t => Holds(u)' = Holds(u)
    PROVE  OneOwner' /\ OwnedAreOpen'
  BY DEF OneOwner, OwnedAreOpen

\* A login's critical section puts the id in hand into a table, over what the
\* entry held.
LEMMA PutInSessions ==
    ASSUME OneOwner, OwnedAreOpen, sdk' = sdk, NEW ip \in Ips, NEW t \in Threads,
           Holds(t)' = None, InSessions(ip)' = Holds(t),
           \A i \in Ips : i # ip => InSessions(i)' = InSessions(i),
           \A i \in Ips : InShared(i)' = InShared(i),
           \A u \in Threads : u # t => Holds(u)' = Holds(u)
    PROVE  OneOwner' /\ OwnedAreOpen'
  BY DEF OneOwner, OwnedAreOpen

LEMMA PutInShared ==
    ASSUME OneOwner, OwnedAreOpen, sdk' = sdk, NEW ip \in Ips, NEW t \in Threads,
           Holds(t)' = None, InShared(ip)' = Holds(t),
           \A i \in Ips : i # ip => InShared(i)' = InShared(i),
           \A i \in Ips : InSessions(i)' = InSessions(i),
           \A u \in Threads : u # t => Holds(u)' = Holds(u)
    PROVE  OneOwner' /\ OwnedAreOpen'
  BY DEF OneOwner, OwnedAreOpen

\* The SDK gives an id nobody owns.
LEMMA Given ==
    ASSUME TypeInv, OneOwner, OwnedAreOpen, NEW t \in Threads, NEW id \in Ids,
           sdk[id] = "unused", sdk' = [sdk EXCEPT ![id] = "open"], Holds(t)' = id,
           \A i \in Ips : InSessions(i)' = InSessions(i),
           \A i \in Ips : InShared(i)' = InShared(i),
           \A u \in Threads : u # t => Holds(u)' = Holds(u)
    PROVE  OneOwner' /\ OwnedAreOpen'
  <1>1. sdk'[id] = "open" /\ \A x \in Ids : sdk[x] = "open" => sdk'[x] = "open"
    BY DEF TypeInv, TypeOK
  <1>2. /\ \A i \in Ips : InSessions(i) # id /\ InShared(i) # id
        /\ \A u \in Threads : Holds(u) # id
    BY ManagerAssumption DEF OwnedAreOpen
  <1>3. OneOwner'
    BY <1>2 DEF OneOwner
  <1>4. /\ \A i \in Ips : InSessions(i) \in Ids \cup {None} /\ InShared(i) \in Ids \cup {None}
        /\ \A u \in Threads : Holds(u) \in Ids \cup {None}
    BY TableIs, CallIs DEF InSessions, InShared, Holds, CallOK
  <1>5. OwnedAreOpen'
    BY <1>1, <1>4 DEF OwnedAreOpen
  <1>6. QED
    BY <1>3, <1>5

\* The id in hand is logged out.
LEMMA Closed ==
    ASSUME TypeInv, OneOwner, OwnedAreOpen, NEW t \in Threads, Holds(t) # None,
           sdk' = [sdk EXCEPT ![Holds(t)] = "closed"], Holds(t)' = None,
           \A i \in Ips : InSessions(i)' = InSessions(i),
           \A i \in Ips : InShared(i)' = InShared(i),
           \A u \in Threads : u # t => Holds(u)' = Holds(u)
    PROVE  OneOwner' /\ OwnedAreOpen'
  <1>1. \A x \in Ids : x # Holds(t) => sdk'[x] = sdk[x]
    BY DEF TypeInv, TypeOK
  <1>2. OneOwner'
    BY DEF OneOwner
  <1>3. /\ \A i \in Ips : InSessions(i) \in Ids \cup {None} /\ InShared(i) \in Ids \cup {None}
        /\ \A u \in Threads : Holds(u) \in Ids \cup {None}
    BY TableIs, CallIs DEF InSessions, InShared, Holds, CallOK
  <1>4. /\ \A i \in Ips : InSessions(i) # Holds(t) /\ InShared(i) # Holds(t)
        /\ \A u \in Threads : u # t => Holds(u) # Holds(t)
    BY DEF OneOwner
  <1>5. OwnedAreOpen'
    BY <1>1, <1>3, <1>4 DEF OwnedAreOpen
  <1>6. QED
    BY <1>2, <1>5

\* What a step leaves in the hands of its thread, and of the others.
LEMMA HandAfter ==
    ASSUME TypeInv, NEW t \in Threads, call[t].op \in Ops,
           DOMAIN call' = Threads, call'[t].op = call[t].op,
           \A u \in Threads : u # t => call'[u] = call[u]
    PROVE  /\ Holds(t)' = IF call'[t].at \in {"insert", "logout"} THEN call'[t].id ELSE None
           /\ \A u \in Threads : u # t => Holds(u)' = Holds(u)
  BY DEF Holds, InHand

\* The fields of the record a step updates.
LEMMA CallAfter ==
    ASSUME TypeInv, NEW t \in Threads, call[t].op \in Ops
    PROVE  /\ \A place : Goes(t, place) =>
                call'[t].at = place /\ call'[t].id = call[t].id
           /\ \A found : ReturnsOrLogsIn(t, found) =>
                call'[t].at \in {"returned", "login"}
           /\ \A sessions, shared, id : Leaves(t, sessions, shared, id) =>
                /\ call'[t].at = IF id # None THEN "logout" ELSE "emit"
                /\ call'[t].id = id
           /\ \A sessions, shared : Inserts(t, sessions, shared) => call'[t].at = "emit"
           /\ \A place, id : call' = [call EXCEPT ![t].at = place, ![t].id = id] =>
                call'[t].at = place /\ call'[t].id = id
  <1>1. call[t] \in InCall /\ DOMAIN call = Threads
    BY CallIs DEF TypeInv, TypeOK
  <1>2. \A place : Goes(t, place) => call'[t].at = place /\ call'[t].id = call[t].id
    BY <1>1 DEF Goes, InCall
  <1>3. \A found : ReturnsOrLogsIn(t, found) => call'[t].at \in {"returned", "login"}
    BY <1>1 DEF ReturnsOrLogsIn, InCall
  <1>4. \A sessions, shared, id : Leaves(t, sessions, shared, id) =>
          call'[t].at = (IF id # None THEN "logout" ELSE "emit") /\ call'[t].id = id
    BY <1>1 DEF Leaves, InCall
  <1>5. \A sessions, shared : Inserts(t, sessions, shared) => call'[t].at = "emit"
    BY <1>1 DEF Inserts, InCall
  <1>6. \A place, id : call' = [call EXCEPT ![t].at = place, ![t].id = id] =>
          call'[t].at = place /\ call'[t].id = id
    BY <1>1 DEF InCall
  <1>7. QED
    BY <1>2, <1>3, <1>4, <1>5, <1>6

LEMMA StepFrame ==
    ASSUME TypeInv, NEW t \in Threads, Steps(t)
    PROVE  /\ call[t].op \in Ops /\ call[t].ip \in Ips
           /\ Holds(t)' = IF call'[t].at \in {"insert", "logout"} THEN call'[t].id ELSE None
           /\ \A u \in Threads : u # t => Holds(u)' = Holds(u)
  <1>1. PICK place \in Places, id \in Ids \cup {None}, was \in BOOLEAN, now \in BOOLEAN :
          call' = [call EXCEPT ![t] = Updated(t, place, id, was, now)]
    BY StepUpdates
  <1>2. call[t].op \in Ops /\ call[t].ip \in Ips
    BY StepUpdates, SameFields
  <1>3. Updated(t, place, id, was, now).op = call[t].op
    BY <1>2, UpdatedIsCall
  <1>4. /\ DOMAIN call' = Threads /\ call'[t].op = call[t].op
        /\ \A u \in Threads : u # t => call'[u] = call[u]
    BY <1>1, <1>3 DEF TypeInv, TypeOK
  <1>5. QED
    BY <1>2, <1>4, HandAfter

LEMMA OwnerSteps ==
    ASSUME OwnerInv, NEW t \in Threads, Steps(t)
    PROVE  OneOwner' /\ OwnedAreOpen'
  <1>1. TypeInv /\ OneOwner /\ OwnedAreOpen
    BY DEF OwnerInv
  <1>0. PICK ip \in Ips : call[t].ip = ip
    BY <1>1, StepFrame
  <1>2. /\ call[t].op \in Ops /\ call[t].ip = ip
        /\ Holds(t)' = IF call'[t].at \in {"insert", "logout"} THEN call'[t].id ELSE None
        /\ \A u \in Threads : u # t => Holds(u)' = Holds(u)
    BY <1>0, <1>1, StepFrame
  <1>3. /\ DOMAIN m_sharedSessions = Ips /\ m_sessions \in [Ips -> Ids \cup {None}]
        /\ m_sharedSessions[ip] # None =>
             /\ m_sharedSessions[ip].lUserID \in Ids
             /\ m_sharedSessions[ip] \in SharedSession
    BY <1>1, <1>2, TableIs DEF TypeInv, TypeOK
  <1>4. \A entry \in SharedSession : entry # None
    BY ManagerAssumption
  <1>5. CASE GetSessionEnters(t) \/ DiscoveryGivesUp(t) \/ LoginFails(t) \/ Emits(t)
    <2>1. UNCHANGED <<m_sessions, m_sharedSessions, sdk>>
      BY <1>5 DEF GetSessionEnters, DiscoveryGivesUp, LoginFails, Emits
    <2>2. ASSUME GetSessionEnters(t) PROVE call'[t].at \in {"returned", "login"}
      BY <1>1, <1>2, <2>2, CallAfter DEF GetSessionEnters
    <2>3. ASSUME DiscoveryGivesUp(t) PROVE call'[t].at \in {"returned", "login"}
      BY <1>1, <1>2, <2>3, CallAfter DEF DiscoveryGivesUp
    <2>4. ASSUME LoginFails(t) PROVE call'[t].at \in {"returned", "login"}
      BY <1>1, <1>2, <2>4, CallAfter DEF LoginFails
    <2>5. ASSUME Emits(t) PROVE call'[t].at \in {"returned", "login"}
      BY <1>1, <1>2, <2>5, CallAfter DEF Emits
    <2>6. Holds(t)' = None
      BY <1>2, <1>5, <2>2, <2>3, <2>4, <2>5
    <2>7. QED
      BY <1>1, <1>2, <2>1, <2>6, Dropped DEF InSessions, InShared
  <1>6. ASSUME NEW entry \in SharedSession, m_sharedSessions[ip] # None,
               entry.lUserID = m_sharedSessions[ip].lUserID,
               m_sharedSessions' = [m_sharedSessions EXCEPT ![ip] = entry]
        PROVE  \A i \in Ips : InShared(i)' = InShared(i)
    BY <1>2, <1>3, <1>4, <1>6 DEF InShared
  <1>7. CASE LoginSharedEnters(t)
    <2>1. call'[t].at \in {"returned", "login"} /\ UNCHANGED <<m_sessions, sdk>>
      BY <1>1, <1>2, <1>7, CallAfter DEF LoginSharedEnters
    <2>2. \A i \in Ips : InShared(i)' = InShared(i)
      <3>1. CASE m_sharedSessions[ip] = None
        BY <1>2, <1>7, <3>1 DEF LoginSharedEnters, InShared
      <3>2. CASE m_sharedSessions[ip] # None
        <4> DEFINE entry == [m_sharedSessions[ip] EXCEPT
                               !.refCount = m_sharedSessions[ip].refCount + 1]
        <4>1. entry \in SharedSession /\ entry.lUserID = m_sharedSessions[ip].lUserID
          BY <1>3, <3>2 DEF SharedSession
        <4>2. m_sharedSessions' = [m_sharedSessions EXCEPT ![ip] = entry]
          BY <1>2, <1>3, <1>7, <3>2 DEF LoginSharedEnters
        <4>3. QED
          BY <1>6, <3>2, <4>1, <4>2
      <3>3. QED
        BY <3>1, <3>2
    <2>3. QED
      BY <1>1, <1>2, <2>1, <2>2, Dropped DEF InSessions
  <1>8. CASE LogoutEnters(t)
    <2>1. Leaves(t, [m_sessions EXCEPT ![ip] = None], m_sharedSessions, m_sessions[ip])
      BY <1>2, <1>8 DEF LogoutEnters
    <2>2. /\ call'[t].at = (IF m_sessions[ip] # None THEN "logout" ELSE "emit")
          /\ call'[t].id = m_sessions[ip]
      BY <1>1, <1>2, <2>1, CallAfter
    <2>3. Holds(t)' = m_sessions[ip]
      BY <1>2, <2>2
    <2>4. /\ m_sessions' = [m_sessions EXCEPT ![ip] = None]
          /\ m_sharedSessions' = m_sharedSessions /\ sdk' = sdk
      BY <2>1 DEF Leaves
    <2>5. QED
      BY <1>1, <1>2, <1>3, <2>3, <2>4, TakenFromSessions DEF InSessions, InShared
  <1>9. ASSUME m_sessions' = m_sessions, sdk' = sdk,
               m_sharedSessions' = [m_sharedSessions EXCEPT ![ip] = None],
               Leaves(t, m_sessions, [m_sharedSessions EXCEPT ![ip] = None], InShared(ip))
        PROVE  OneOwner' /\ OwnedAreOpen'
    <2>1. /\ call'[t].at = (IF InShared(ip) # None THEN "logout" ELSE "emit")
          /\ call'[t].id = InShared(ip)
      BY <1>1, <1>2, <1>9, CallAfter
    <2>2. Holds(t)' = InShared(ip)
      BY <1>2, <2>1
    <2>3. InShared(ip)' = None /\ \A i \in Ips : i # ip => InShared(i)' = InShared(i)
      BY <1>2, <1>3, <1>9 DEF InShared
    <2>4. \A i \in Ips : InSessions(i)' = InSessions(i)
      BY <1>9 DEF InSessions
    <2>5. QED
      BY <1>1, <1>2, <1>9, <2>2, <2>3, <2>4, TakenFromShared
  <1>10. CASE ForceLogoutSharedEnters(t)
    BY <1>2, <1>9, <1>10 DEF ForceLogoutSharedEnters, Leaves, InShared
  <1>11. CASE LogoutSharedEnters(t)
    <2>1. CASE m_sharedSessions[ip] # None /\ m_sharedSessions[ip].refCount > 1
      <3> DEFINE entry == [m_sharedSessions[ip] EXCEPT
                             !.refCount = m_sharedSessions[ip].refCount - 1]
      <3>1. entry \in SharedSession /\ entry.lUserID = m_sharedSessions[ip].lUserID
        BY <1>3, <2>1 DEF SharedSession
      <3>2. Leaves(t, m_sessions, [m_sharedSessions EXCEPT ![ip].refCount = @ - 1], None)
        BY <1>2, <1>11, <2>1 DEF LogoutSharedEnters
      <3>3. m_sharedSessions' = [m_sharedSessions EXCEPT ![ip] = entry]
        BY <1>2, <1>3, <2>1, <3>2 DEF Leaves
      <3>4. \A i \in Ips : InShared(i)' = InShared(i)
        BY <1>6, <2>1, <3>1, <3>3
      <3>5. m_sessions' = m_sessions /\ sdk' = sdk
        BY <3>2 DEF Leaves
      <3>6. call'[t].at = "emit"
        BY <1>1, <1>2, <3>2, CallAfter
      <3>7. QED
        BY <1>1, <1>2, <3>4, <3>5, <3>6, Dropped DEF InSessions
    <2>2. CASE ~(m_sharedSessions[ip] # None /\ m_sharedSessions[ip].refCount > 1)
      BY <1>2, <1>9, <1>11, <2>2 DEF LogoutSharedEnters, Leaves, InShared
    <2>3. QED
      BY <2>1, <2>2
  <1>12. CASE \E id \in Ids : LoginSucceeds(t, id)
    <2>1. PICK id \in Ids : LoginSucceeds(t, id)
      BY <1>12
    <2>2. call'[t].at = "insert" /\ call'[t].id = id
      BY <1>1, <1>2, <2>1, CallAfter DEF LoginSucceeds
    <2>3. Holds(t)' = id
      BY <1>2, <2>2
    <2>4. UNCHANGED <<m_sessions, m_sharedSessions>> /\ sdk[id] = "unused"
            /\ sdk' = [sdk EXCEPT ![id] = "open"]
      BY <2>1 DEF LoginSucceeds
    <2>5. QED
      BY <1>1, <1>2, <2>3, <2>4, Given DEF InSessions, InShared
  <1>13. CASE InsertsShared(t) \/ InsertsSession(t)
    <2>1. call'[t].at = "emit" /\ sdk' = sdk
      BY <1>1, <1>2, <1>13, CallAfter DEF InsertsShared, InsertsSession, Inserts
    <2>2. Holds(t)' = None /\ Holds(t) = call[t].id /\ call[t].id \in Ids
      BY <1>1, <1>2, <1>13, <2>1, CallIs DEF InsertsShared, InsertsSession, At, Holds, InHand, CallOK
    <2>3. CASE InsertsShared(t)
      <3> DEFINE entry == [lUserID |-> call[t].id, refCount |-> 1]
      <3>1. m_sessions' = m_sessions /\ m_sharedSessions' = [m_sharedSessions EXCEPT ![ip] = entry]
        BY <1>2, <2>3 DEF InsertsShared, Inserts
      <3>2. entry # None /\ entry.lUserID = call[t].id
        BY <1>4, <2>2 DEF SharedSession
      <3>3. InShared(ip)' = Holds(t) /\ \A i \in Ips : i # ip => InShared(i)' = InShared(i)
        BY <1>2, <1>3, <2>2, <3>1, <3>2 DEF InShared
      <3>4. QED
        BY <1>1, <1>2, <2>1, <2>2, <3>1, <3>3, PutInShared DEF InSessions
    <2>4. CASE InsertsSession(t)
      <3>1. /\ m_sharedSessions' = m_sharedSessions
            /\ m_sessions' = [m_sessions EXCEPT ![ip] = call[t].id]
        BY <1>2, <2>4 DEF InsertsSession, Inserts
      <3>2. InSessions(ip)' = Holds(t) /\ \A i \in Ips : i # ip => InSessions(i)' = InSessions(i)
        BY <1>2, <1>3, <2>2, <3>1 DEF InSessions
      <3>3. QED
        BY <1>1, <1>2, <2>1, <2>2, <3>1, <3>2, PutInSessions DEF InShared
    <2>5. QED
      BY <1>13, <2>3, <2>4
  <1>14. CASE LogsOut(t)
    <2>1. call'[t].at = "emit"
      BY <1>1, <1>2, <1>14, CallAfter DEF LogsOut
    <2>2. Holds(t)' = None /\ Holds(t) = call[t].id /\ call[t].id \in Ids
      BY <1>1, <1>2, <1>14, <2>1, CallIs DEF LogsOut, Holds, InHand, CallOK
    <2>3. UNCHANGED <<m_sessions, m_sharedSessions>> /\ sdk' = [sdk EXCEPT ![Holds(t)] = "closed"]
      BY <1>14, <2>2 DEF LogsOut
    <2>4. QED
      BY <1>1, <1>2, <2>2, <2>3, Closed, ManagerAssumption DEF InSessions, InShared
  <1>15. QED
    BY <1>5, <1>7, <1>8, <1>10, <1>11, <1>12, <1>13, <1>14 DEF Steps

LEMMA OwnerStep == OwnerInv /\ [Next]_vars => OwnerInv'
  <1> SUFFICES ASSUME OwnerInv, [Next]_vars PROVE OneOwner' /\ OwnedAreOpen'
    BY TypeStep DEF OwnerInv
  <1>1. TypeInv /\ OneOwner /\ OwnedAreOpen
    BY DEF OwnerInv
  <1>2. CASE UNCHANGED vars
    BY <1>1, <1>2, Dropped DEF vars, InSessions, InShared, Holds, InHand
  <1>3. CASE Rest
    <2>1. UNCHANGED <<m_sessions, m_sharedSessions, sdk>>
      BY <1>1, <1>3, RestKeeps
    <2>2. \A u \in Threads : Holds(u)' \in {Holds(u), None}
      <3>1. CASE call' = call
        BY <3>1 DEF Holds, InHand
      <3>2. ASSUME NEW t \in Threads, NEW c \in InCall \cup {NoCall},
                   call' = [call EXCEPT ![t] = c],
                   ~(c.op \in Ops /\ c.at \in {"insert", "logout"})
            PROVE  \A u \in Threads : Holds(u)' \in {Holds(u), None}
        BY <1>1, <3>2 DEF Holds, InHand, TypeInv, TypeOK
      <3>3. QED
        BY <1>1, <1>3, <3>1, <3>2, RestKeeps
    <2>3. QED
      BY <1>1, <2>1, <2>2, Dropped DEF InSessions, InShared
  <1>4. QED
    BY <1>2, <1>3, OwnerSteps, NextIs

LEMMA OwnerInit == Init => OwnerInv
  <1> SUFFICES ASSUME Init PROVE OneOwner /\ OwnedAreOpen
    BY InitType DEF OwnerInv
  <1>1. /\ \A i \in Ips : InSessions(i) = None /\ InShared(i) = None
        /\ \A t \in Threads : Holds(t) = None
    BY DEF Init, InSessions, InShared, Holds, InHand, NoCall, Ops
  <1>2. QED
    BY <1>1 DEF OneOwner, OwnedAreOpen

LEMMA OwnersAreOne ==
    ASSUME OwnerInv
    PROVE  SessionHasOneOwner
  <1>1. TypeInv /\ OneOwner /\ OwnedAreOpen
    BY DEF OwnerInv
  <1>2. ASSUME NEW id \in Ids, NEW a \in Owners(id)
        PROVE  \/ \E i \in Ips : a = <<"m_sessions", i>> /\ InSessions(i) = id
               \/ \E i \in Ips : a = <<"m_sharedSessions", i>> /\ InShared(i) = id
               \/ \E t \in Threads : a = <<"call", t>> /\ Holds(t) = id
    BY DEF Owners, InSessions, InShared, Holds, InHand
  <1>3. ASSUME NEW id \in Ids, NEW a \in Owners(id), NEW b \in Owners(id)
        PROVE  a = b
    BY <1>1, <1>2, ManagerAssumption DEF OneOwner
  <1>4. ASSUME NEW id \in Ids, NEW a \in Owners(id)
        PROVE  sdk[id] = "open"
    BY <1>1, <1>2, ManagerAssumption DEF OwnedAreOpen
  <1>5. QED
    BY <1>3, <1>4 DEF SessionHasOneOwner

\* However the calls of any number of threads interleave around the mutex, no
\* session is logged out twice and none in a table is closed.
THEOREM SessionOwnedOnce == Spec => []SessionHasOneOwner
  <1>1. Spec => []OwnerInv
    BY OwnerInit, OwnerStep, PTL DEF Spec
  <1>2. OwnerInv => SessionHasOneOwner
    BY OwnersAreOne
  <1>3. QED
    BY <1>1, <1>2, PTL

-----------------------------------------------------------------------------
LEMMA ReferencedSteps ==
    ASSUME TypeInv, SharedIsReferenced, NEW t \in Threads, Steps(t)
    PROVE  SharedIsReferenced'
  <1>1. PICK ip \in Ips : call[t].ip = ip
    BY StepFrame
  <1>2. /\ DOMAIN m_sharedSessions = Ips
        /\ m_sharedSessions[ip] # None => m_sharedSessions[ip] \in SharedSession
    BY <1>1, TableIs DEF TypeInv, TypeOK
  <1>3. CASE LoginSharedEnters(t) /\ m_sharedSessions[ip] # None
    <2>1. m_sharedSessions' = [m_sharedSessions EXCEPT ![ip].refCount = @ + 1]
      BY <1>1, <1>3 DEF LoginSharedEnters
    <2>2. m_sharedSessions'[ip].refCount = m_sharedSessions[ip].refCount + 1
      BY <1>2, <1>3, <2>1 DEF SharedSession
    <2>3. m_sharedSessions[ip].refCount \in Nat
      BY <1>2, <1>3 DEF SharedSession
    <2>4. \A i \in Ips : i # ip => m_sharedSessions'[i] = m_sharedSessions[i]
      BY <1>2, <2>1
    <2>5. QED
      BY <2>2, <2>3, <2>4 DEF SharedIsReferenced
  <1>4. CASE LogoutSharedEnters(t)
    <2>1. CASE m_sharedSessions[ip] # None /\ m_sharedSessions[ip].refCount > 1
      <3>1. m_sharedSessions' = [m_sharedSessions EXCEPT ![ip].refCount = @ - 1]
        BY <1>1, <1>4, <2>1 DEF LogoutSharedEnters, Leaves
      <3>2. m_sharedSessions'[ip].refCount = m_sharedSessions[ip].refCount - 1
        BY <1>2, <2>1, <3>1 DEF SharedSession
      <3>3. m_sharedSessions[ip].refCount \in Nat
        BY <1>2, <2>1 DEF SharedSession
      <3>4. \A i \in Ips : i # ip => m_sharedSessions'[i] = m_sharedSessions[i]
        BY <1>2, <3>1
      <3>5. QED
        BY <2>1, <3>2, <3>3, <3>4 DEF SharedIsReferenced
    <2>2. CASE ~(m_sharedSessions[ip] # None /\ m_sharedSessions[ip].refCount > 1)
      <3>1. m_sharedSessions' = [m_sharedSessions EXCEPT ![ip] = None]
        BY <1>1, <1>4, <2>2 DEF LogoutSharedEnters, Leaves
      <3>2. QED
        BY <1>2, <3>1 DEF SharedIsReferenced
    <2>3. QED
      BY <2>1, <2>2
  <1>5. CASE ForceLogoutSharedEnters(t)
    <2>1. m_sharedSessions' = [m_sharedSessions EXCEPT ![ip] = None]
      BY <1>1, <1>5 DEF ForceLogoutSharedEnters, Leaves
    <2>2. QED
      BY <1>2, <2>1 DEF SharedIsReferenced
  <1>6. CASE InsertsShared(t)
    <2>1. m_sharedSessions' =
            [m_sharedSessions EXCEPT ![ip] = [lUserID |-> call[t].id, refCount |-> 1]]
      BY <1>1, <1>6 DEF InsertsShared, Inserts
    <2>2. QED
      BY <1>2, <2>1 DEF SharedIsReferenced
  <1>7. CASE m_sharedSessions' = m_sharedSessions
    BY <1>7 DEF SharedIsReferenced
  <1>8. CASE LoginSharedEnters(t) /\ m_sharedSessions[ip] = None
    BY <1>1, <1>7, <1>8 DEF LoginSharedEnters
  <1>9. CASE GetSessionEnters(t) \/ LogoutEnters(t) \/ DiscoveryGivesUp(t) \/ LoginFails(t)
             \/ (\E id \in Ids : LoginSucceeds(t, id)) \/ InsertsSession(t) \/ LogsOut(t)
             \/ Emits(t)
    BY <1>7, <1>9 DEF GetSessionEnters, LogoutEnters, Leaves, DiscoveryGivesUp, LoginFails,
       LoginSucceeds, InsertsSession, Inserts, LogsOut, Emits
  <1>10. QED
    BY <1>3, <1>4, <1>5, <1>6, <1>8, <1>9 DEF Steps

\* A shared session leaves its table when its last reference goes, in the same
\* critical section: no entry waits there unreferenced.
THEOREM SharedStaysReferenced == Spec => []SharedIsReferenced
  <1>1. Init => SharedIsReferenced
    BY DEF Init, SharedIsReferenced
  <1>2. TypeInv /\ SharedIsReferenced /\ [Next]_vars => SharedIsReferenced'
    <2> SUFFICES ASSUME TypeInv, SharedIsReferenced, [Next]_vars PROVE SharedIsReferenced'
      OBVIOUS
    <2>1. CASE UNCHANGED vars
      BY <2>1 DEF vars, SharedIsReferenced
    <2>2. CASE Rest
      BY <2>2, RestKeeps DEF SharedIsReferenced
    <2>3. QED
      BY <2>1, <2>2, ReferencedSteps, NextIs
  <1>3. QED
    BY <1>1, <1>2, InitType, TypeStep, PTL DEF Spec

=============================================================================
