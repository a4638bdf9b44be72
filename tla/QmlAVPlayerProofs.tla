------------------------- MODULE QmlAVPlayerProofs -------------------------
(***************************************************************************)
(* Proofs that a QmlAVPlayer owns one stream at most, looks stopped when   *)
(* it owns none, and while it plays has only its own stream's events in    *)
(* the GUI queue, for any sources, number of sessions and length of queue. *)
(***************************************************************************)
EXTENDS QmlAVPlayer, TLAPS

(***************************************************************************)
(* The handlers, one by one: each maps members of the right type that      *)
(* satisfy the invariant to members that do, and never attaches a demuxer. *)
(***************************************************************************)

\* What a handler may do to the player's members, for any queue.
Preserves(p, r) ==
    /\ r \in Player
    /\ r.m_demuxer \in {None, p.m_demuxer}
    /\ Quiet(p) => Quiet(r)
    /\ \A q \in Seq(Event) :
         /\ PlayingCurrent(p, q) => PlayingCurrent(r, q)
         /\ Quiet(p) /\ PlayingCurrent(p, q) /\ StartCurrent(p, q) => StartCurrent(r, q)

LEMMA EventFields ==
    ASSUME NEW q \in Seq(Event), NEW i \in DOMAIN q
    PROVE  q[i] \in Event
  OBVIOUS

LEMMA NoneIsNoSession == None \notin Sessions
  BY DEF None, Sessions

\* stop()'s call of setStatus(NoMedia).
LEMMA SetNoMediaPreserves ==
    ASSUME NEW p \in Player
    PROVE  /\ Preserves(p, SetNoMedia(p))
           /\ SetNoMedia(p).m_playbackState = p.m_playbackState
           /\ SetNoMedia(p).m_demuxer = p.m_demuxer
           /\ SetNoMedia(p).m_source = p.m_source
           /\ SetNoMedia(p).m_status = "NoMedia"
  <1> DEFINE r == SetNoMedia(p)
  <1>1. /\ r \in Player
        /\ r.m_playbackState = p.m_playbackState
        /\ r.m_demuxer = p.m_demuxer
        /\ r.m_source = p.m_source
        /\ r.m_status = "NoMedia"
        /\ r.m_hasVideo = p.m_hasVideo
        /\ r.m_hasAudio = p.m_hasAudio
        /\ r.m_framePresented = p.m_framePresented
        /\ r.m_audioOutput = p.m_audioOutput
    BY PlayerAssumption DEF SetNoMedia, StartPlayTimer, Player, Statuses, Terminal
  <1>2. QED
    BY <1>1 DEF Preserves, Quiet, PlayingCurrent, StartCurrent

\* stop() itself.
LEMMA StopPreserves ==
    ASSUME NEW p \in Player
    PROVE  /\ Preserves(p, Stop(p))
           /\ Stop(p).m_playbackState = "StoppedState"
           /\ Stop(p).m_source = p.m_source
  <1> DEFINE n == SetNoMedia(p)
  <1>1. CASE p.m_playbackState = "StoppedState"
    BY <1>1, SetNoMediaPreserves DEF Stop
  <1>2. CASE p.m_playbackState # "StoppedState"
    <2> DEFINE r == Teardown(n)
    <2>1. Stop(p) = r
      BY <1>2 DEF Stop
    <2>2. n \in Player /\ n.m_status = "NoMedia" /\ n.m_source = p.m_source
      BY SetNoMediaPreserves DEF Preserves
    <2>3. /\ r \in Player /\ r.m_demuxer = None /\ r.m_status = "NoMedia"
          /\ r.m_playbackState = "StoppedState" /\ r.m_source = p.m_source
          /\ ~r.m_hasVideo /\ ~r.m_hasAudio /\ ~r.m_framePresented /\ ~r.m_audioOutput
      BY <2>2 DEF Teardown, Player, States
    <2>4. p.m_playbackState = "PlayingState"
      BY <1>2 DEF Player, States
    <2>5. \A q \in Seq(Event) : PlayingCurrent(p, q) => StartCurrent(r, q)
      BY <2>4 DEF PlayingCurrent, StartCurrent
    <2>6. Preserves(p, r)
      BY <2>3, <2>5 DEF Preserves, Quiet, PlayingCurrent
    <2>7. QED
      BY <2>1, <2>3, <2>6
  <1>3. QED
    BY <1>1, <1>2

LEMMA PreservesIsReflexive ==
    ASSUME NEW p \in Player
    PROVE  Preserves(p, p)
  BY DEF Preserves

\* stateMachine().
LEMMA StateMachinePreserves ==
    ASSUME NEW p \in Player
    PROVE  Preserves(p, StateMachine(p))
  <1>1. CASE ~Interrupted(p)
    BY <1>1, PreservesIsReflexive DEF StateMachine
  <1>2. CASE Interrupted(p)
    <2> DEFINE t == Stop(p)
               r == StartPlayTimer(t)
    <2>1. t \in Player /\ Preserves(p, t)
      BY StopPreserves DEF Preserves
    <2>2. /\ r \in Player /\ r.m_playbackState = t.m_playbackState
          /\ r.m_demuxer = t.m_demuxer /\ r.m_status = t.m_status
          /\ r.m_hasVideo = t.m_hasVideo /\ r.m_hasAudio = t.m_hasAudio
          /\ r.m_framePresented = t.m_framePresented
          /\ r.m_audioOutput = t.m_audioOutput
      BY <2>1, PlayerAssumption DEF StartPlayTimer, Player
    <2>3. Preserves(p, r)
      BY <2>1, <2>2 DEF Preserves, Quiet, PlayingCurrent, StartCurrent
    <2>4. QED
      BY <1>2, <2>3 DEF StateMachine
  <1>3. QED
    BY <1>1, <1>2

\* setStatus(), for a status any demuxer posted.
LEMMA SetStatusPreserves ==
    ASSUME TypeOK, NEW p \in Player, NEW status \in Statuses
    PROVE  Preserves(p, SetStatus(p, status))
  <1> DEFINE m == [p EXCEPT !.m_status = status]
             t == SetHasTracks(m)
  <1>1. CASE \/ p.m_demuxer = None /\ status # "NoMedia"
             \/ p.m_status = status
    BY <1>1, PreservesIsReflexive DEF SetStatus
  <1>2. CASE ~(\/ p.m_demuxer = None /\ status # "NoMedia"
               \/ p.m_status = status)
    <2>1. m \in Player
      BY DEF Player
    <2>2. /\ t \in Player
          /\ t.m_demuxer = p.m_demuxer /\ t.m_playbackState = p.m_playbackState
          /\ t.m_status = status
          /\ t.m_framePresented = p.m_framePresented
          /\ t.m_audioOutput = p.m_audioOutput
          /\ p.m_demuxer = None =>
               t.m_hasVideo = p.m_hasVideo /\ t.m_hasAudio = p.m_hasAudio
      <3>1. CASE m.m_status \in {"LoadedMedia", "BufferedMedia"} /\ m.m_demuxer # None
        <4> DEFINE v == demuxer[m.m_demuxer].video
                   a == demuxer[m.m_demuxer].audio
        <4>1. v \in BOOLEAN /\ a \in BOOLEAN
          <5>1. demuxer[m.m_demuxer] \in Demuxer
            BY <2>1, <3>1 DEF TypeOK, Player
          <5>2. QED
            BY <5>1 DEF Demuxer
        <4>2. t = [m EXCEPT !.m_hasVideo = v, !.m_hasAudio = a]
          BY <3>1 DEF SetHasTracks
        <4> HIDE DEF v, a, t
        <4>3. QED
          BY <2>1, <3>1, <4>1, <4>2 DEF Player
      <3>2. CASE ~(m.m_status \in {"LoadedMedia", "BufferedMedia"} /\ m.m_demuxer # None)
        <4>1. t = m
          BY <3>2 DEF SetHasTracks
        <4>2. QED
          BY <2>1, <4>1 DEF Player
      <3>3. QED
        BY <3>1, <3>2
    <2>3. Preserves(p, t)
      BY <1>2, <2>2 DEF Preserves, Quiet, PlayingCurrent, StartCurrent
    <2>4. Preserves(t, StateMachine(t))
      BY <2>2, StateMachinePreserves
    <2>5. Preserves(p, StateMachine(t))
      BY <2>3, <2>4 DEF Preserves
    <2>6. QED
      BY <1>2, <2>5 DEF SetStatus
  <1>3. QED
    BY <1>1, <1>2

\* setPlaybackState(StoppedState).
LEMMA SetStoppedPreserves ==
    ASSUME NEW p \in Player, NEW known \in BOOLEAN
    PROVE  Preserves(p, SetPlaybackState(p, "StoppedState", known))
  <1> DEFINE r == [p EXCEPT !.m_playbackState = "StoppedState"]
  <1>1. CASE p.m_playbackState = "StoppedState"
    BY <1>1, PreservesIsReflexive DEF SetPlaybackState
  <1>2. CASE p.m_playbackState # "StoppedState"
    <2>1. /\ r \in Player /\ r.m_demuxer = p.m_demuxer /\ r.m_status = p.m_status
          /\ r.m_playbackState = "StoppedState"
          /\ r.m_hasVideo = p.m_hasVideo /\ r.m_hasAudio = p.m_hasAudio
          /\ r.m_framePresented = p.m_framePresented
          /\ r.m_audioOutput = p.m_audioOutput
      BY DEF Player, States
    <2>2. Preserves(p, r)
      BY <2>1 DEF Preserves, Quiet, PlayingCurrent, StartCurrent
    <2>3. Preserves(r, StateMachine(r))
      BY <2>1, StateMachinePreserves
    <2>4. Preserves(p, StateMachine(r))
      BY <2>2, <2>3 DEF Preserves
    <2>5. SetPlaybackState(p, "StoppedState", known) = IF known THEN StateMachine(r) ELSE r
      BY <1>2 DEF SetPlaybackState
    <2>6. QED
      BY <2>2, <2>4, <2>5
  <1>3. QED
    BY <1>1, <1>2

\* frameHandler().
LEMMA FrameHandlerPreserves ==
    ASSUME NEW p \in Player, NEW frame \in Frames, NEW surface \in SurfaceResults
    PROVE  Preserves(p, FrameHandler(p, frame, surface))
  <1> DEFINE r == FrameHandler(p, frame, surface)
  <1>1. CASE p.m_demuxer = None \/ p.m_playbackState # "PlayingState"
    BY <1>1, PreservesIsReflexive DEF FrameHandler
  <1>2. CASE p.m_demuxer # None /\ p.m_playbackState = "PlayingState"
    <2>1. /\ r \in Player /\ r.m_demuxer = p.m_demuxer
          /\ r.m_playbackState = p.m_playbackState
      <3>1. CASE frame = "video"
        <4> DEFINE v == p.m_hasVideo \/ surface # "unavailable"
                   f == p.m_framePresented \/ surface = "presented"
        <4>1. r = [p EXCEPT !.m_hasVideo = v, !.m_framePresented = f]
          BY <1>2, <3>1 DEF FrameHandler, ShowVideo
        <4>2. v \in BOOLEAN /\ f \in BOOLEAN
          OBVIOUS
        <4> HIDE DEF v, f, r
        <4>3. QED
          BY <4>1, <4>2 DEF Player
      <3>2. CASE frame # "video"
        <4>1. p.m_audioOutput \in BOOLEAN /\ p.m_hasAudio \in BOOLEAN
          BY DEF Player
        <4> DEFINE a == p.m_hasAudio \/ ~p.m_audioOutput
        <4>2. a \in BOOLEAN
          OBVIOUS
        <4>3. r = p \/ r = [p EXCEPT !.m_hasAudio = a, !.m_audioOutput = TRUE]
          BY <1>2, <3>2 DEF FrameHandler, PlayAudio
        <4> HIDE DEF a, r
        <4>4. QED
          BY <4>2, <4>3 DEF Player
      <3>3. QED
        BY <3>1, <3>2
    <2>2. QED
      BY <1>2, <2>1 DEF Preserves, Quiet, PlayingCurrent, StartCurrent
  <1>3. QED
    BY <1>1, <1>2

-----------------------------------------------------------------------------
(***************************************************************************)
(* The steps of the GUI thread.                                            *)
(***************************************************************************)

\* Members a handler may leave behind, with the events still queued.
Sound(p, q) ==
    /\ p \in Player
    /\ p.m_demuxer \in {None, player.m_demuxer}
    /\ Quiet(p) /\ PlayingCurrent(p, q) /\ StartCurrent(p, q)

LEMMA PreservesSound ==
    ASSUME NEW p, NEW q \in Seq(Event), Sound(p, q), NEW r, Preserves(p, r)
    PROVE  Sound(r, q)
  BY DEF Sound, Preserves

LEMMA PlayerIsSound ==
    ASSUME PlayerInv
    PROVE  /\ Sound(player, events) /\ events \in Seq(Event)
           /\ Sound(Stop(player), events)
  <1>1. Sound(player, events) /\ events \in Seq(Event)
    BY DEF PlayerInv, TypeOK, Sound
  <1>2. QED
    BY <1>1, StopPreserves, PreservesSound DEF Sound

\* Changing a property of QML does not touch the stream.
LEMMA SameStreamIsSound ==
    ASSUME NEW p, NEW q, Sound(p, q), NEW r \in Player,
           r.m_demuxer = p.m_demuxer, r.m_playbackState = p.m_playbackState,
           r.m_status = p.m_status, r.m_hasVideo = p.m_hasVideo,
           r.m_hasAudio = p.m_hasAudio, r.m_framePresented = p.m_framePresented,
           r.m_audioOutput = p.m_audioOutput \/ r.m_audioOutput = FALSE
    PROVE  Sound(r, q)
  BY DEF Sound, Quiet, PlayingCurrent, StartCurrent

LEMMA ReleasedType ==
    ASSUME PlayerInv, NEW p \in Player
    PROVE  /\ Released(p) \in [Sessions -> Demuxer]
           /\ p.m_demuxer = None /\ alive =>
                \A s \in 1..created : Released(p)[s].deleted
           /\ \A s \in Sessions : ~Released(p)[s].deleted => ~demuxer[s].deleted
  <1> USE DEF PlayerInv, TypeOK
  <1>1. 1..created \subseteq Sessions
    BY PlayerAssumption DEF Sessions
  <1>2. demuxer \in [Sessions -> Demuxer] /\ player.m_demuxer \in Sessions \cup {None}
    BY DEF Player
  <1>3. CASE player.m_demuxer # None /\ p.m_demuxer = None
    <2> DEFINE d == player.m_demuxer
    <2>1. Released(p) = [demuxer EXCEPT ![d].deleted = TRUE]
      BY <1>3 DEF Released
    <2>2. d \in Sessions
      BY <1>2, <1>3
    <2>3. demuxer[d] \in Demuxer
      BY <1>2, <2>2
    <2>4. [demuxer[d] EXCEPT !.deleted = TRUE] \in Demuxer
      BY <2>3 DEF Demuxer
    <2>5. Released(p) \in [Sessions -> Demuxer]
      BY <1>2, <2>1, <2>2, <2>4
    <2>6. \A s \in Sessions : s # d => Released(p)[s] = demuxer[s]
      BY <1>2, <2>1, <2>2
    <2>7. Released(p)[d].deleted
      BY <1>2, <2>1, <2>2, <2>3 DEF Demuxer
    <2>8. QED
      BY <1>1, <2>5, <2>6, <2>7 DEF OneStream
  <1>4. CASE ~(player.m_demuxer # None /\ p.m_demuxer = None)
    <2>1. Released(p) = demuxer
      BY <1>4 DEF Released
    <2>2. p.m_demuxer = None /\ alive => \A s \in 1..created : demuxer[s].deleted
      <3>1. \A s \in 1..created : s # None
        BY <1>1, NoneIsNoSession
      <3>2. QED
        BY <1>1, <1>2, <1>4, <3>1 DEF OneStream, Demuxer
    <2>3. QED
      BY <1>2, <2>1, <2>2
  <1>5. QED
    BY <1>3, <1>4

\* A step that leaves sound members and creates no demuxer.
LEMMA KeepStep ==
    ASSUME PlayerInv, alive, NEW p, NEW q \in Seq(Event), Sound(p, q),
           player' = p, demuxer' = Released(p), created' = created,
           events' = q, alive' = alive
    PROVE  PlayerInv'
  <1>1. p \in Player
    BY DEF Sound
  <1>2. TypeOK'
    BY <1>1, ReleasedType DEF PlayerInv, TypeOK
  <1>3. OneStream'
    <2>1. \A s \in 1..created : s \in Sessions
      BY PlayerAssumption DEF PlayerInv, TypeOK, Sessions
    <2>2. CASE p.m_demuxer = None
      BY <1>1, <2>2, ReleasedType DEF OneStream
    <2>3. CASE p.m_demuxer = player.m_demuxer
      BY <1>1, <2>1, <2>3, ReleasedType DEF OneStream, PlayerInv
    <2>4. QED
      BY <2>2, <2>3 DEF Sound
  <1>4. QED
    BY <1>2, <1>3 DEF PlayerInv, Sound, Quiet, PlayingCurrent, StartCurrent

LEMMA UnderwayIs ==
    ASSUME NEW url \in Urls \cup {NoUrl}, NEW start \in BOOLEAN,
           NEW d \in Underway(NewDemuxer(url, start), start)
    PROVE  d \in Demuxer
  <1> DEFINE n == NewDemuxer(url, start)
  <1>1. n \in Demuxer
    BY DEF NewDemuxer, Demuxer
  <1>2. d = n \/ \E l \in {"failed", "reported", "loaded"}, t \in SUBSET Frames : d = LoaderAt(n, l, t)
    <2> HIDE DEF n
    <2>1. d \in Underway(n, start)
      BY DEF n
    <2>2. QED
      BY <2>1 DEF Underway
  <1> HIDE DEF n
  <1>3. ASSUME NEW l \in {"failed", "reported", "loaded"}, NEW t
        PROVE  LoaderAt(n, l, t) \in Demuxer
    <2> DEFINE v == "video" \in t
               a == "audio" \in t
    <2>1. v \in BOOLEAN /\ a \in BOOLEAN
      OBVIOUS
    <2>2. LoaderAt(n, l, t) = [n EXCEPT !.loader = l, !.video = v, !.audio = a]
      BY DEF LoaderAt
    <2> HIDE DEF v, a
    <2>3. QED
      BY <1>1, <2>1, <2>2 DEF Demuxer
  <1>4. QED
    BY <1>1, <1>2, <1>3

\* Only its last event is a start.
LastStarts(s, q) ==
    /\ q \in Seq(Event)
    /\ \A i \in 1..Len(q) : q[i].session = s /\ (Starts(q[i]) => i = Len(q))

LEMMA LoadEventsAre ==
    ASSUME NEW s \in Sessions, NEW url \in Urls \cup {NoUrl}, NEW start \in BOOLEAN, NEW loader
    PROVE  LastStarts(s, LoadEvents(s, url, start, loader))
  <1> DEFINE f == Status(s, FirstStatus(url))
             g == Status(s, "InvalidMedia")
             h == Status(s, "LoadedMedia")
             k == Status(s, "BufferedMedia")
             b == State(s, "PlayingState")
             m == LoaderStatuses(s, loader)
             e == IF start THEN <<b>> ELSE << >>
             q == LoadEvents(s, url, start, loader)
  <1>1. \A x \in {f, g, h, k} : x \in Event /\ x.session = s /\ ~Starts(x)
    BY DEF Status, Event, Starts, Statuses, Terminal, FirstStatus
  <1>2. b \in Event /\ b.session = s
    BY DEF State, Event, States
  <1>3. m = <<g>> \/ m = <<h>> \/ m = <<h, k>> \/ m = << >>
    BY DEF LoaderStatuses
  <1>4. q = (<<f>> \o m) \o e
    BY DEF LoadEvents
  <1> HIDE DEF f, g, h, k, b, m, q
  <1>5. /\ m \in Seq(Event) /\ Len(m) \in Nat
        /\ \A i \in 1..Len(m) : m[i].session = s /\ ~Starts(m[i])
    <2>1. \A x \in {f, g, h, k} :
            /\ <<x>> \in Seq(Event) /\ Len(<<x>>) = 1 /\ <<x>>[1] = x
            /\ \A i \in 1..1 : i = 1
      BY <1>1
    <2>2. CASE m = <<h, k>>
      BY <1>1, <2>2
    <2>3. CASE m = << >>
      BY <2>3
    <2>4. ASSUME NEW x \in {f, g, h, k}, m = <<x>>
          PROVE  /\ m \in Seq(Event) /\ Len(m) \in Nat
                 /\ \A i \in 1..Len(m) : m[i].session = s /\ ~Starts(m[i])
      BY <1>1, <2>1, <2>4
    <2>5. QED
      BY <1>3, <2>2, <2>3, <2>4
  <1>6. /\ <<f>> \o m \in Seq(Event) /\ Len(<<f>> \o m) \in Nat
        /\ \A i \in 1..Len(<<f>> \o m) :
             (<<f>> \o m)[i].session = s /\ ~Starts((<<f>> \o m)[i])
    BY <1>1, <1>5
  <1> DEFINE c == <<f>> \o m
  <1> HIDE DEF c
  <1>7. c \in Seq(Event) /\ Len(c) \in Nat
        /\ \A i \in 1..Len(c) : c[i].session = s /\ ~Starts(c[i])
    BY <1>6 DEF c
  <1>8. CASE start
    <2>1. q = c \o <<b>>
      BY <1>4, <1>8 DEF c
    <2>2. QED
      BY <1>2, <1>7, <2>1 DEF LastStarts, q
  <1>9. CASE ~start
    <2>1. q = c \o << >>
      BY <1>4, <1>9 DEF c
    <2>2. QED
      BY <1>7, <2>1 DEF LastStarts, q
  <1>10. QED
    BY <1>8, <1>9

\* load(), with or without start(), on sound members.
LEMMA LoadStep ==
    ASSUME PlayerInv, alive, NEW p, Sound(p, events), NEW start \in BOOLEAN,
           Load(p, start), alive' = alive
    PROVE  PlayerInv'
  <1>1. CASE ~CanLoad(p)
    <2>1. player' = p /\ demuxer' = Released(p) /\ created' = created /\ events' = events
      BY <1>1 DEF Load
    <2>2. QED
      BY <2>1, KeepStep, PlayerIsSound
  <1>2. CASE CanLoad(p)
    <2> DEFINE n == created + 1
               url == p.m_source
               D == Released(p)
    <2>1. /\ created < MaxSessions /\ created' = n
          /\ player' = [p EXCEPT !.m_demuxer = n]
      BY <1>2 DEF Load
    <2>1a. PICK d \in Underway(NewDemuxer(url, start), start) :
             /\ demuxer' = [D EXCEPT ![n] = d]
             /\ events' = events \o LoadEvents(n, url, start, d.loader)
      BY <1>2 DEF Load
    <2> DEFINE L == LoadEvents(n, url, start, d.loader)
    <2>1b. demuxer' = [D EXCEPT ![n] = d] /\ events' = events \o L
      BY <2>1a
    <2>2. p \in Player /\ p.m_demuxer = None /\ url \in Urls \cup {NoUrl}
      BY <1>2 DEF Sound, CanLoad, Player
    <2>3. created \in Nat /\ n \in Sessions /\ n # None
      BY <2>1, PlayerAssumption DEF PlayerInv, TypeOK, Sessions, None
    <2>4. /\ L \in Seq(Event) /\ Len(L) \in Nat
          /\ \A i \in 1..Len(L) : L[i].session = n /\ (Starts(L[i]) => i = Len(L))
      <3>1. LastStarts(n, L)
        BY <2>2, <2>3, LoadEventsAre
      <3> HIDE DEF L
      <3>2. QED
        BY <3>1 DEF LastStarts
    <2>5. d \in Demuxer
      BY <2>2, UnderwayIs
    <2>6. /\ D \in [Sessions -> Demuxer]
          /\ \A s \in 1..created : D[s].deleted
      BY <2>2, ReleasedType
    <2>7. \A i \in DOMAIN events : ~Starts(events[i])
      BY <2>2 DEF Sound, StartCurrent
    <2>8. events \in Seq(Event)
      BY PlayerIsSound
    <2>9. p.m_playbackState = "StoppedState"
      BY <2>2 DEF Sound, Quiet
    <2> HIDE DEF n, url, L, D
    <2>10. /\ player' \in Player /\ player'.m_demuxer = n
           /\ player'.m_playbackState = "StoppedState"
      BY <2>1, <2>2, <2>3, <2>9 DEF Player
    <2>11. TypeOK'
      BY <2>1, <2>1b, <2>3, <2>4, <2>5, <2>6, <2>8, <2>10, PlayerAssumption
        DEF TypeOK, PlayerInv, n
    <2>12. StartCurrent(player', events')
      <3> SUFFICES ASSUME NEW i \in DOMAIN events', Starts(events'[i])
                   PROVE  /\ player'.m_demuxer # None
                          /\ \A j \in DOMAIN events' : j >= i =>
                               /\ events'[j].session = player'.m_demuxer
                               /\ j > i => ~Starts(events'[j])
        BY DEF StartCurrent
      <3>1. i = Len(events')
        <4> DEFINE k == i - Len(events)
        <4>1. /\ Len(events) \in Nat /\ Len(events') = Len(events) + Len(L)
              /\ i \in 1..Len(events')
          BY <2>1b, <2>4, <2>8
        <4>2. i \notin 1..Len(events)
          BY <2>1b, <2>4, <2>7, <2>8
        <4>3. k \in 1..Len(L)
          BY <2>4, <4>1, <4>2
        <4>4. events'[i] = L[k]
          BY <2>1b, <2>4, <2>8, <4>1, <4>2
        <4>5. k = Len(L)
          BY <2>4, <4>3, <4>4
        <4>6. QED
          BY <2>4, <4>1, <4>5
      <3>2. events'[i].session = n
        BY <2>1b, <2>4, <2>7, <2>8
      <3>3. \A j \in DOMAIN events' : j >= i => j = i
        <4>1. Len(events') \in Nat /\ DOMAIN events' = 1..Len(events')
          BY <2>1b, <2>4, <2>8
        <4>2. QED
          BY <3>1, <4>1
      <3>4. QED
        BY <2>3, <2>8, <2>10, <3>2, <3>3, <2>1b, <2>4
    <2>13. Quiet(player') /\ PlayingCurrent(player', events')
      BY <2>3, <2>10 DEF Quiet, PlayingCurrent
    <2>14. OneStream'
      <3>1. ASSUME NEW s \in 1..created', s # n
            PROVE  demuxer'[s].deleted
        BY <2>1, <2>1b, <2>3, <2>6, <3>1 DEF n, Sessions
      <3>2. QED
        BY <2>10, <3>1 DEF OneStream
    <2>15. QED
      BY <2>11, <2>12, <2>13, <2>14 DEF PlayerInv, Quiet, PlayingCurrent, StartCurrent
  <1>3. QED
    BY <1>1, <1>2

\* stop() in reset(), and the play() or load() that may follow.
LEMMA AutoStartStep ==
    ASSUME PlayerInv, alive, NEW p, Sound(p, events), AutoStart(p), alive' = alive
    PROVE  PlayerInv'
  <1>1. CASE p.m_autoPlay
    BY <1>1, LoadStep DEF AutoStart
  <1>2. CASE ~p.m_autoPlay /\ p.m_autoLoad
    BY <1>2, LoadStep DEF AutoStart
  <1>3. CASE ~p.m_autoPlay /\ ~p.m_autoLoad
    BY <1>3, KeepStep, PlayerIsSound DEF AutoStart, Keep
  <1>4. QED
    BY <1>1, <1>2, <1>3

LEMMA ResetStep ==
    ASSUME PlayerInv, alive, NEW p, Sound(p, events), Reset(p), alive' = alive
    PROVE  PlayerInv'
  <1>1. Sound(Stop(p), events)
    BY StopPreserves, PreservesSound, PlayerIsSound DEF Sound
  <1>2. CASE p.m_complete
    BY <1>1, <1>2, AutoStartStep DEF Reset
  <1>3. CASE ~p.m_complete
    BY <1>3, KeepStep, PlayerIsSound DEF Reset, Keep
  <1>4. QED
    BY <1>2, <1>3

LEMMA QmlStep ==
    ASSUME PlayerInv, Qml
    PROVE  PlayerInv'
  <1> USE DEF Keep
  <1>1. Sound(player, events) /\ Sound(Stop(player), events) /\ player \in Player
    BY PlayerIsSound DEF Sound
  <1>2. CASE ComponentComplete
    <2> DEFINE p == [player EXCEPT !.m_complete = TRUE]
    <2>1. p \in Player /\ Sound(p, events)
      BY <1>1, SameStreamIsSound DEF Player
    <2>2. QED
      BY <1>2, <2>1, AutoStartStep DEF ComponentComplete
  <1>3. CASE Play
    BY <1>1, <1>3, LoadStep DEF Play
  <1>4. CASE StopCall
    BY <1>1, <1>4, KeepStep, PlayerIsSound DEF StopCall
  <1>5. ASSUME NEW url \in Urls \cup {NoUrl}, SetSource(url)
        PROVE  PlayerInv'
    <2> DEFINE p == [player EXCEPT !.m_source = url]
    <2>1. p \in Player /\ Sound(p, events)
      BY <1>1, SameStreamIsSound DEF Player
    <2>2. QED
      BY <1>5, <2>1, ResetStep DEF SetSource
  <1>6. CASE SetAVOptions
    BY <1>1, <1>6, ResetStep DEF SetAVOptions
  <1>7. ASSUME NEW b \in BOOLEAN, SetAutoPlay(b)
        PROVE  PlayerInv'
    <2> DEFINE p == [player EXCEPT !.m_autoPlay = b]
    <2>1. p \in Player /\ Sound(p, events)
      BY <1>1, SameStreamIsSound DEF Player
    <2>2. QED
      BY <1>7, <2>1, LoadStep, KeepStep, PlayerIsSound DEF SetAutoPlay
  <1>8. ASSUME NEW b \in BOOLEAN, SetAutoLoad(b)
        PROVE  PlayerInv'
    <2> DEFINE p == [player EXCEPT !.m_autoLoad = b]
    <2>1. p \in Player /\ Sound(p, events)
      BY <1>1, SameStreamIsSound DEF Player
    <2>2. QED
      BY <1>8, <2>1, LoadStep, KeepStep, PlayerIsSound DEF SetAutoLoad
  <1>9. ASSUME NEW b \in BOOLEAN, SetMuted(b)
        PROVE  PlayerInv'
    <2> DEFINE p == [player EXCEPT !.m_muted = b, !.m_audioOutput = @ /\ ~b]
    <2>1. p \in Player /\ Sound(p, events)
      BY <1>1, SameStreamIsSound DEF Player
    <2>2. QED
      BY <1>9, <2>1, KeepStep, PlayerIsSound DEF SetMuted
  <1>10. CASE Destroy
    <2> DEFINE p == Stop(player)
               r == [p EXCEPT !.m_playTimer = FALSE]
    <2>1. /\ alive' = FALSE /\ player' = r /\ demuxer' = Released(p)
          /\ created' = created /\ events' = << >>
      BY <1>10 DEF Destroy
    <2>2. r \in Player /\ Quiet(r)
      BY <1>1 DEF Sound, Player, Quiet
    <2>3. PlayingCurrent(r, << >>) /\ StartCurrent(r, << >>)
      BY <1>1, StopPreserves DEF PlayingCurrent, StartCurrent, Sound, Player
    <2>4. TypeOK'
      <3>1. Released(p) \in [Sessions -> Demuxer]
        BY <1>1, ReleasedType DEF Sound
      <3>2. << >> \in Seq(Event)
        OBVIOUS
      <3>3. created \in 0..MaxSessions
        BY DEF PlayerInv, TypeOK
      <3> HIDE DEF p, r
      <3>4. QED
        BY <2>1, <2>2, <3>1, <3>2, <3>3 DEF TypeOK
    <2>5. QED
      BY <2>1, <2>2, <2>3, <2>4 DEF PlayerInv, OneStream, Quiet, PlayingCurrent, StartCurrent
  <1>11. QED
    BY <1>2, <1>3, <1>4, <1>5, <1>6, <1>7, <1>8, <1>9, <1>10 DEF Qml

LEMMA PlayTimeoutStep ==
    ASSUME PlayerInv, PlayTimeout
    PROVE  PlayerInv'
  <1> DEFINE p == [player EXCEPT !.m_playTimer = FALSE]
  <1>1. Sound(player, events) /\ player \in Player
    BY PlayerIsSound DEF Sound
  <1>2. p \in Player /\ Sound(p, events)
    BY <1>1, SameStreamIsSound DEF Player
  <1>3. QED
    BY <1>2, LoadStep DEF PlayTimeout

LEMMA TailIsCurrent ==
    ASSUME NEW p, NEW q \in Seq(Event), q # << >>
    PROVE  /\ Tail(q) \in Seq(Event)
           /\ PlayingCurrent(p, q) => PlayingCurrent(p, Tail(q))
           /\ StartCurrent(p, q) => StartCurrent(p, Tail(q))
  <1>1. /\ Tail(q) \in Seq(Event) /\ Len(q) \in Nat /\ Len(q) > 0
        /\ Len(Tail(q)) = Len(q) - 1
        /\ \A i \in 1..Len(Tail(q)) : Tail(q)[i] = q[i + 1]
    OBVIOUS
  <1>2. \A i \in 1..Len(Tail(q)) : i + 1 \in 1..Len(q)
    BY <1>1
  <1>3. DOMAIN Tail(q) = 1..Len(Tail(q)) /\ DOMAIN q = 1..Len(q)
    BY <1>1
  <1>4. PlayingCurrent(p, q) => PlayingCurrent(p, Tail(q))
    BY <1>1, <1>2, <1>3 DEF PlayingCurrent
  <1>5. StartCurrent(p, q) => StartCurrent(p, Tail(q))
    <2> SUFFICES ASSUME StartCurrent(p, q), NEW i \in 1..Len(Tail(q)), Starts(Tail(q)[i])
                 PROVE  /\ p.m_demuxer # None
                        /\ \A j \in 1..Len(Tail(q)) : j >= i =>
                             /\ Tail(q)[j].session = p.m_demuxer
                             /\ j > i => ~Starts(Tail(q)[j])
      BY <1>3 DEF StartCurrent
    <2>1. i + 1 \in DOMAIN q /\ Starts(q[i + 1])
      BY <1>1, <1>2, <1>3
    <2>2. ASSUME NEW j \in 1..Len(Tail(q)), j >= i
          PROVE  /\ Tail(q)[j].session = p.m_demuxer
                 /\ j > i => ~Starts(Tail(q)[j])
      <3>1. j + 1 \in DOMAIN q /\ j + 1 >= i + 1 /\ Tail(q)[j] = q[j + 1]
        BY <1>1, <1>2, <1>3, <2>2
      <3>2. j > i => j + 1 > i + 1
        BY <1>1
      <3>3. QED
        BY <2>1, <3>1, <3>2 DEF StartCurrent
    <2>3. QED
      BY <2>1, <2>2 DEF StartCurrent
  <1>6. QED
    BY <1>1, <1>4, <1>5

\* The delivery of the attached demuxer's start.
LEMMA StartDelivered ==
    ASSUME NEW p \in Player, NEW q \in Seq(Event), q # << >>, Starts(Head(q)),
           Quiet(p), PlayingCurrent(p, q), StartCurrent(p, q), NEW known \in BOOLEAN
    PROVE  LET r == SetPlaybackState(p, "PlayingState", known) IN
             /\ r \in Player /\ r.m_demuxer = p.m_demuxer
             /\ Quiet(r) /\ PlayingCurrent(r, Tail(q)) /\ StartCurrent(r, Tail(q))
  <1> DEFINE r == SetPlaybackState(p, "PlayingState", known)
             s == [p EXCEPT !.m_playbackState = "PlayingState"]
  <1>1. 1 \in DOMAIN q /\ Head(q) = q[1] /\ DOMAIN q = 1..Len(q) /\ Len(q) \in Nat
    OBVIOUS
  <1>2. /\ p.m_demuxer # None
        /\ \A j \in DOMAIN q : q[j].session = p.m_demuxer /\ (j > 1 => ~Starts(q[j]))
    <2>1. \A j \in DOMAIN q : j >= 1
      BY <1>1
    <2>2. QED
      BY <1>1, <2>1 DEF StartCurrent
  <1>3. p.m_playbackState = "StoppedState"
    BY <1>1 DEF PlayingCurrent, Player, States
  <1>4. r = s
    BY <1>2, <1>3, s.m_playbackState = "PlayingState"
      DEF SetPlaybackState, StateMachine, Interrupted, Player
  <1>5. /\ s \in Player /\ s.m_demuxer = p.m_demuxer
    BY DEF Player, States
  <1>6. \A i \in DOMAIN Tail(q) :
          Tail(q)[i].session = p.m_demuxer /\ ~Starts(Tail(q)[i])
    <2>1. /\ Len(Tail(q)) = Len(q) - 1 /\ DOMAIN Tail(q) = 1..Len(Tail(q))
          /\ \A i \in 1..Len(Tail(q)) : Tail(q)[i] = q[i + 1]
      OBVIOUS
    <2>2. \A i \in 1..Len(Tail(q)) : i + 1 \in DOMAIN q /\ i + 1 > 1
      BY <1>1, <2>1
    <2>3. QED
      BY <1>2, <2>1, <2>2
  <1>7. QED
    BY <1>2, <1>4, <1>5, <1>6 DEF Quiet, PlayingCurrent, StartCurrent

\* What sound members and a sound queue become in one delivery.
LEMMA DeliverIsSound ==
    ASSUME PlayerInv, Deliver
    PROVE  Sound(player', Tail(events))
  <1> DEFINE e == Head(events)
  <1>1. /\ Sound(player, events) /\ events \in Seq(Event) /\ player \in Player
        /\ events # << >> /\ e \in Event
    BY PlayerIsSound DEF Sound, Deliver
  <1>2. ASSUME NEW r, Preserves(player, r)
        PROVE  Sound(r, Tail(events))
    BY <1>1, <1>2, PreservesSound, TailIsCurrent DEF Sound
  <1>3. SenderKnown(e) \subseteq BOOLEAN
    BY DEF SenderKnown
  <1>4. CASE e.kind = "status" /\ player' = SetStatus(player, e.value)
    <2>1. e.value \in Statuses
      BY <1>1, <1>4 DEF Event
    <2>2. QED
      BY <1>1, <1>2, <1>4, <2>1, SetStatusPreserves DEF PlayerInv
  <1>5. ASSUME e.kind = "state", NEW known \in SenderKnown(e),
               player' = SetPlaybackState(player, e.value, known)
        PROVE  Sound(player', Tail(events))
    <2>1. e.value \in States /\ known \in BOOLEAN
      BY <1>1, <1>3, <1>5 DEF Event
    <2>2. CASE e.value = "StoppedState"
      BY <1>1, <1>2, <1>5, <2>1, <2>2, SetStoppedPreserves
    <2>3. CASE e.value = "PlayingState"
      <3>1. Starts(e)
        BY <1>5, <2>3 DEF Starts
      <3>2. Quiet(player) /\ PlayingCurrent(player, events) /\ StartCurrent(player, events)
        BY <1>1 DEF Sound
      <3>3. /\ player' \in Player /\ player'.m_demuxer = player.m_demuxer
            /\ Quiet(player') /\ PlayingCurrent(player', Tail(events))
            /\ StartCurrent(player', Tail(events))
        BY <1>1, <1>5, <2>1, <2>3, <3>1, <3>2, StartDelivered
      <3>4. QED
        BY <3>3 DEF Sound
    <2>4. QED
      BY <2>1, <2>2, <2>3 DEF States
  <1>6. ASSUME e.kind = "frame", NEW surface \in SurfaceResults,
               player' = FrameHandler(player, e.value, surface)
        PROVE  Sound(player', Tail(events))
    <2>1. e.value \in Frames
      BY <1>1, <1>6 DEF Event
    <2>2. QED
      BY <1>1, <1>2, <1>6, <2>1, FrameHandlerPreserves
  <1>7. QED
    BY <1>4, <1>5, <1>6 DEF Deliver

LEMMA DeliverStep ==
    ASSUME PlayerInv, Deliver
    PROVE  PlayerInv'
  <1>1. Sound(player', Tail(events)) /\ Tail(events) \in Seq(Event)
    BY DeliverIsSound, PlayerIsSound, TailIsCurrent DEF Deliver
  <1>2. /\ alive /\ alive' = alive /\ created' = created
        /\ demuxer' = Released(player') /\ events' = Tail(events)
    BY DEF Deliver
  <1> DEFINE p == player'
  <1>3. p = player'
    OBVIOUS
  <1> HIDE DEF p
  <1>4. QED
    BY <1>1, <1>2, <1>3, KeepStep

-----------------------------------------------------------------------------
(***************************************************************************)
(* The steps of a demuxer's threads.  A thread runs only while its demuxer *)
(* is not deleted, hence (OneStream) for the attached demuxer: what it     *)
(* posts is current.                                                       *)
(***************************************************************************)

LEMMA PostStep ==
    ASSUME PlayerInv, NEW s \in Sessions, Live(s), NEW q \in Seq(Event), Post(q),
           \A i \in DOMAIN q : q[i].session = s /\ ~Starts(q[i]),
           demuxer' \in [Sessions -> Demuxer],
           \A t \in Sessions : demuxer'[t].deleted = demuxer[t].deleted,
           player' = player, alive' = alive, created' = created
    PROVE  PlayerInv'
  <1>1. events \in Seq(Event) /\ alive \in BOOLEAN
    BY DEF PlayerInv, TypeOK
  <1>2. TypeOK'
    BY <1>1 DEF PlayerInv, TypeOK, Post
  <1>3. OneStream'
    <2>1. \A t \in 1..created : t \in Sessions
      BY PlayerAssumption DEF PlayerInv, TypeOK, Sessions
    <2>2. QED
      BY <2>1 DEF PlayerInv, OneStream
  <1>4. CASE ~alive
    BY <1>2, <1>3, <1>4 DEF PlayerInv, Post, Quiet, PlayingCurrent, StartCurrent
  <1>5. CASE alive
    <2>1. s = player.m_demuxer
      BY <1>5 DEF Live, PlayerInv, OneStream
    <2>2. events' = events \o q
      BY <1>5 DEF Post
    <2>3. /\ Len(events) \in Nat /\ Len(q) \in Nat /\ Len(events') = Len(events) + Len(q)
          /\ DOMAIN events = 1..Len(events) /\ DOMAIN q = 1..Len(q)
          /\ DOMAIN events' = 1..(Len(events) + Len(q))
      BY <1>1, <2>2
    <2>4. \A i \in DOMAIN events : i \in DOMAIN events' /\ events'[i] = events[i]
      BY <1>1, <2>2, <2>3
    <2>5. \A i \in DOMAIN events' : i \notin DOMAIN events =>
            /\ events'[i].session = player.m_demuxer /\ ~Starts(events'[i])
      <3>1. \A i \in DOMAIN events' : i \notin DOMAIN events =>
              i - Len(events) \in DOMAIN q /\ events'[i] = q[i - Len(events)]
        BY <1>1, <2>2, <2>3
      <3>2. QED
        BY <2>1, <3>1
    <2>6. PlayingCurrent(player, events')
      BY <2>4, <2>5 DEF PlayingCurrent, PlayerInv
    <2>7. StartCurrent(player, events')
      BY <2>3, <2>4, <2>5 DEF StartCurrent, PlayerInv
    <2>8. QED
      BY <1>2, <1>3, <2>6, <2>7 DEF PlayerInv, Quiet, PlayingCurrent, StartCurrent
  <1>6. QED
    BY <1>1, <1>4, <1>5

LEMMA EventIs ==
    ASSUME NEW s \in Sessions
    PROVE  /\ \A v \in Statuses : /\ Status(s, v) \in Event
                                  /\ Status(s, v).session = s /\ ~Starts(Status(s, v))
           /\ /\ State(s, "StoppedState") \in Event
              /\ State(s, "StoppedState").session = s
              /\ ~Starts(State(s, "StoppedState"))
           /\ \A f \in Frames : /\ Frame(s, f) \in Event
                                /\ Frame(s, f).session = s /\ ~Starts(Frame(s, f))
  BY DEF Event, Status, State, Frame, Starts, States

LEMMA ThreadsStep ==
    ASSUME PlayerInv, NEW s \in Sessions, Threads(s)
    PROVE  PlayerInv'
  <1>1. demuxer \in [Sessions -> Demuxer] /\ demuxer[s] \in Demuxer
    BY DEF PlayerInv, TypeOK
  <1>2. ASSUME NEW d \in Demuxer, d.deleted = demuxer[s].deleted,
               demuxer' = [demuxer EXCEPT ![s] = d]
        PROVE  /\ demuxer' \in [Sessions -> Demuxer]
               /\ \A t \in Sessions : demuxer'[t].deleted = demuxer[t].deleted
    BY <1>1, <1>2
  <1>3. ASSUME NEW a \in Event, a.session = s, ~Starts(a)
        PROVE  <<a>> \in Seq(Event) /\ \A i \in DOMAIN <<a>> :
                 <<a>>[i].session = s /\ ~Starts(<<a>>[i])
    BY <1>3
  <1>4. ASSUME NEW a \in Event, a.session = s, ~Starts(a),
               NEW b \in Event, b.session = s, ~Starts(b)
        PROVE  <<a, b>> \in Seq(Event) /\ \A i \in DOMAIN <<a, b>> :
                 <<a, b>>[i].session = s /\ ~Starts(<<a, b>>[i])
    BY <1>4
  <1>5. /\ "LoadedMedia" \in Statuses /\ "InvalidMedia" \in Statuses
        /\ "BufferedMedia" \in Statuses /\ "EndOfMedia" \in Statuses
    BY DEF Statuses, Terminal
  <1>6. CASE LoaderOpens(s)
    <2>1. PICK v \in BOOLEAN, a \in BOOLEAN :
            demuxer' = [demuxer EXCEPT ![s].loader = "opened", ![s].video = v, ![s].audio = a]
      BY <1>6 DEF LoaderOpens
    <2> DEFINE d == [demuxer[s] EXCEPT !.loader = "opened", !.video = v, !.audio = a]
    <2>2. d \in Demuxer /\ d.deleted = demuxer[s].deleted
      BY <1>1 DEF Demuxer
    <2>3. demuxer' = [demuxer EXCEPT ![s] = d]
      BY <1>1, <2>1
    <2> HIDE DEF d
    <2>4. /\ demuxer' \in [Sessions -> Demuxer]
          /\ \A t \in Sessions : demuxer'[t].deleted = demuxer[t].deleted
      BY <1>2, <2>2, <2>3
    <2>5. /\ player' = player /\ alive' = alive /\ created' = created /\ events' = events
      BY <1>6 DEF LoaderOpens
    <2>6. TypeOK'
      BY <2>4, <2>5 DEF PlayerInv, TypeOK
    <2>7. OneStream'
      <3>1. \A t \in 1..created : t \in Sessions
        BY PlayerAssumption DEF PlayerInv, TypeOK, Sessions
      <3>2. QED
        BY <2>4, <2>5, <3>1 DEF PlayerInv, OneStream
    <2>8. QED
      BY <2>5, <2>6, <2>7 DEF PlayerInv, Quiet, PlayingCurrent, StartCurrent
  <1>7. CASE LoaderFails(s)
    <2> DEFINE q == <<Status(s, "InvalidMedia")>>
               d == [demuxer[s] EXCEPT !.loader = "failed"]
    <2>1. d \in Demuxer /\ d.deleted = demuxer[s].deleted
      BY <1>1 DEF Demuxer
    <2>2. /\ q \in Seq(Event) /\ \A i \in DOMAIN q : q[i].session = s /\ ~Starts(q[i])
      BY <1>3, <1>5, EventIs
    <2>3. /\ Live(s) /\ Post(q) /\ demuxer' = [demuxer EXCEPT ![s] = d]
          /\ player' = player /\ alive' = alive /\ created' = created
      BY <1>7 DEF LoaderFails
    <2> HIDE DEF d, q
    <2>4. QED
      BY <1>2, <2>1, <2>2, <2>3, PostStep
  <1>8. CASE LoaderFinishes(s)
    <2> DEFINE q == <<Status(s, "BufferedMedia")>>
               d == [demuxer[s] EXCEPT !.loader = "loaded"]
    <2>1. d \in Demuxer /\ d.deleted = demuxer[s].deleted
      BY <1>1 DEF Demuxer
    <2>2. /\ q \in Seq(Event) /\ \A i \in DOMAIN q : q[i].session = s /\ ~Starts(q[i])
      BY <1>3, <1>5, EventIs
    <2>3. /\ Live(s) /\ Post(q) /\ demuxer' = [demuxer EXCEPT ![s] = d]
          /\ player' = player /\ alive' = alive /\ created' = created
      BY <1>8 DEF LoaderFinishes
    <2> HIDE DEF d, q
    <2>4. QED
      BY <1>2, <2>1, <2>2, <2>3, PostStep
  <1>9. CASE LoaderReports(s)
    <2> DEFINE q == <<Status(s, "LoadedMedia")>>
               d == [demuxer[s] EXCEPT !.loader = "reported"]
    <2>1. d \in Demuxer /\ d.deleted = demuxer[s].deleted
      BY <1>1 DEF Demuxer
    <2>2. /\ q \in Seq(Event) /\ \A i \in DOMAIN q : q[i].session = s /\ ~Starts(q[i])
      BY <1>3, <1>5, EventIs
    <2>3. /\ Live(s) /\ Post(q) /\ demuxer' = [demuxer EXCEPT ![s] = d]
          /\ player' = player /\ alive' = alive /\ created' = created
      BY <1>9 DEF LoaderReports
    <2> HIDE DEF d, q
    <2>4. QED
      BY <1>2, <2>1, <2>2, <2>3, PostStep
  <1>10. CASE ReaderFails(s)
    <2> DEFINE q == <<Status(s, "InvalidMedia"), State(s, "StoppedState")>>
               d == [demuxer[s] EXCEPT !.reader = "failed"]
    <2>1. d \in Demuxer /\ d.deleted = demuxer[s].deleted
      BY <1>1 DEF Demuxer
    <2>2. /\ q \in Seq(Event) /\ \A i \in DOMAIN q : q[i].session = s /\ ~Starts(q[i])
      BY <1>4, <1>5, EventIs
    <2>3. /\ Live(s) /\ Post(q) /\ demuxer' = [demuxer EXCEPT ![s] = d]
          /\ player' = player /\ alive' = alive /\ created' = created
      BY <1>10 DEF ReaderFails
    <2> HIDE DEF d, q
    <2>4. QED
      BY <1>2, <2>1, <2>2, <2>3, PostStep
  <1>11. CASE ReaderReachesEnd(s)
    <2> DEFINE q == <<Status(s, "EndOfMedia"), State(s, "StoppedState")>>
               d == [demuxer[s] EXCEPT !.reader = "eof"]
    <2>1. d \in Demuxer /\ d.deleted = demuxer[s].deleted
      BY <1>1 DEF Demuxer
    <2>2. /\ q \in Seq(Event) /\ \A i \in DOMAIN q : q[i].session = s /\ ~Starts(q[i])
      BY <1>4, <1>5, EventIs
    <2>3. /\ Live(s) /\ Post(q) /\ demuxer' = [demuxer EXCEPT ![s] = d]
          /\ player' = player /\ alive' = alive /\ created' = created
      BY <1>11 DEF ReaderReachesEnd
    <2> HIDE DEF d, q
    <2>4. QED
      BY <1>2, <2>1, <2>2, <2>3, PostStep
  <1>12. ASSUME NEW frame \in Frames, DecodesFrame(s, frame)
         PROVE  PlayerInv'
    <2> DEFINE q == <<Frame(s, frame)>>
    <2>1. /\ q \in Seq(Event) /\ \A i \in DOMAIN q : q[i].session = s /\ ~Starts(q[i])
      BY <1>3, EventIs
    <2>2. /\ Live(s) /\ Post(q) /\ demuxer' = demuxer
          /\ player' = player /\ alive' = alive /\ created' = created
      BY <1>12 DEF DecodesFrame
    <2> HIDE DEF q
    <2>3. QED
      BY <1>1, <2>1, <2>2, PostStep
  <1>13. QED
    BY <1>6, <1>7, <1>8, <1>10, <1>11, <1>12, <1>9 DEF Threads, Loader

-----------------------------------------------------------------------------
LEMMA InitInv == Init => PlayerInv
  <1> SUFFICES ASSUME Init PROVE PlayerInv
    OBVIOUS
  <1>1. player \in Player /\ player.m_demuxer = None
    BY DEF Init, Player, States, Statuses, Terminal
  <1>2. demuxer \in [Sessions -> Demuxer]
    BY DEF Init, Demuxer
  <1>3. created \in 0..MaxSessions /\ alive \in BOOLEAN
    BY PlayerAssumption DEF Init
  <1>4. events \in Seq(Event) /\ \A i \in DOMAIN events : FALSE
    BY DEF Init
  <1>5. OneStream
    BY DEF Init, OneStream
  <1>6. Quiet(player) /\ player.m_playbackState = "StoppedState"
    BY DEF Init, Quiet
  <1>7. QED
    BY <1>1, <1>2, <1>3, <1>4, <1>5, <1>6 DEF PlayerInv, TypeOK, PlayingCurrent, StartCurrent

\* No step of the program breaks the inductive invariant.
LEMMA NextInv == PlayerInv /\ [Next]_vars => PlayerInv'
  <1>1. ASSUME PlayerInv, UNCHANGED vars
        PROVE  PlayerInv'
    BY <1>1 DEF vars, PlayerInv, TypeOK, Quiet, PlayingCurrent, StartCurrent, OneStream
  <1>2. ASSUME PlayerInv, Next
        PROVE  PlayerInv'
    BY <1>2, QmlStep, PlayTimeoutStep, DeliverStep, ThreadsStep DEF Next
  <1>3. QED
    BY <1>1, <1>2

\* Spec => []PlayerInv: the invariant of every theorem below.
THEOREM PlayerInvariant == Spec => []PlayerInv
  BY InitInv, NextInv, PTL DEF Spec

\* The members of the player, the demuxers and the queued events keep their
\* types through every handler, call and thread step.
THEOREM PlayerTypeOK == Spec => []TypeOK
  <1>1. PlayerInv => TypeOK
    BY DEF PlayerInv
  <1>2. QED
    BY <1>1, PlayerInvariant, PTL

\* A player that is alive owns every running demuxer: setSource(), play(),
\* autoPlay, autoLoad and the restart timer never leave two streams running.
THEOREM PlayerOwnsOneStream == Spec => []OneStream
  <1>1. PlayerInv => OneStream
    BY DEF PlayerInv
  <1>2. QED
    BY <1>1, PlayerInvariant, PTL

\* A player without a demuxer reports NoMedia and StoppedState and shows
\* nothing, whatever events of deleted demuxers are still delivered.
THEOREM DetachedPlayerIsQuiet == Spec => []DetachedIsQuiet
  <1>1. PlayerInv => DetachedIsQuiet
    BY DEF PlayerInv, Quiet, DetachedIsQuiet
  <1>2. QED
    BY <1>1, PlayerInvariant, PTL

\* While a player plays, every queued event is its own demuxer's.
THEOREM PlayingQueueStaysCurrent == Spec => []PlayingQueueIsCurrent
  <1>1. PlayerInv => PlayingQueueIsCurrent
    BY DEF PlayerInv, PlayingCurrent, PlayingQueueIsCurrent
  <1>2. QED
    BY <1>1, PlayerInvariant, PTL
=============================================================================
