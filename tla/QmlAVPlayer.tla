---------------------------- MODULE QmlAVPlayer ----------------------------
(***************************************************************************)
(* The live-view player of qmlav.  A QmlAVPlayer lives in the GUI thread   *)
(* and drives one QmlAVDemuxer at a time; the demuxer's loader, reader and *)
(* decoder threads report through queued signals, which Qt delivers one by *)
(* one, in posting order, as events of the GUI thread.  disconnect() stops *)
(* later emissions, not the events already posted: an event can outlive    *)
(* the demuxer that posted it.                                             *)
(*                                                                         *)
(* A demuxer is identified by the number of its load(), a SESSION; None is *)
(* the null pointer.  stateMachine() and stop() call each other; a player  *)
(* handler is an operator from the player's members to the player's        *)
(* members with that recursion unfolded.                                   *)
(***************************************************************************)
EXTENDS Naturals, Sequences, FiniteSets

CONSTANTS
    Urls,           \* valid sources
    BlankUrls,      \* valid QUrls whose source string is empty (an empty local path)
    NoUrl,          \* the empty, invalid QUrl
    InfiniteLoops,  \* m_loops = -1 (MediaPlayer.Infinite)
    MaxSessions,    \* bound: demuxers created in a behaviour
    FrameLimit      \* bound: frames waiting in the GUI event queue

ASSUME PlayerAssumption ==
    /\ NoUrl \notin Urls
    /\ BlankUrls \subseteq Urls
    /\ InfiniteLoops \in BOOLEAN
    /\ MaxSessions \in Nat
    /\ FrameLimit \in Nat

VARIABLES
    player,   \* the members of the QmlAVPlayer
    alive,    \* FALSE once ~QmlAVPlayer has run
    created,  \* number of demuxers constructed so far
    demuxer,  \* state of each demuxer's threads, by session
    events    \* events posted to the GUI thread and not yet delivered

vars == <<player, alive, created, demuxer, events>>

None == 0
Sessions == 1..MaxSessions

States   == {"StoppedState", "PlayingState"}
Terminal == {"NoMedia", "EndOfMedia", "InvalidMedia"}
Statuses == Terminal \cup {"LoadingMedia", "LoadedMedia", "BufferedMedia"}
Frames   == {"video", "audio"}

Player ==
    [m_complete : BOOLEAN, m_autoLoad : BOOLEAN, m_autoPlay : BOOLEAN,
     m_source : Urls \cup {NoUrl}, m_demuxer : Sessions \cup {None},
     m_playbackState : States, m_status : Statuses, m_playTimer : BOOLEAN,
     m_muted : BOOLEAN, m_audioOutput : BOOLEAN, m_hasVideo : BOOLEAN,
     m_hasAudio : BOOLEAN, m_framePresented : BOOLEAN]

\* loader: the thread of QmlAVDemuxer::load; reader: the thread of ::start.
Demuxer ==
    [url : Urls \cup {NoUrl},
     loader : {"none", "loading", "opened", "reported", "loaded", "failed"},
     reader : {"idle", "reading", "eof", "failed"},
     video : BOOLEAN, audio : BOOLEAN, deleted : BOOLEAN]

Event ==
    [kind : {"status"}, value : Statuses, session : Sessions]
      \cup [kind : {"state"}, value : States, session : Sessions]
      \cup [kind : {"frame"}, value : Frames, session : Sessions]

Status(s, v) == [kind |-> "status", value |-> v, session |-> s]
State(s, v)  == [kind |-> "state",  value |-> v, session |-> s]
Frame(s, v)  == [kind |-> "frame",  value |-> v, session |-> s]

-----------------------------------------------------------------------------
(***************************************************************************)
(* The handlers of the player, as operators on its members.                *)
(***************************************************************************)

\* stateMachine()'s condition: "Internal demuxer interrupt".
Interrupted(p) ==
    /\ p.m_playbackState = "StoppedState"
    /\ p.m_status \in Terminal
    /\ p.m_demuxer # None

\* stateMachine() after stop() has run: the single-shot restart timer.
StartPlayTimer(p) == [p EXCEPT !.m_playTimer = @ \/ InfiniteLoops]

\* setStatus(NoMedia) as stop() calls it.  Its own stateMachine() may call
\* stop() again: that call finds NoMedia and StoppedState and returns.
SetNoMedia(p) ==
    LET q == [p EXCEPT !.m_status = "NoMedia"]
    IN  IF p.m_status # "NoMedia" /\ Interrupted(q) THEN StartPlayTimer(q) ELSE q

\* The part of stop() behind its early return.
Teardown(p) ==
    [p EXCEPT !.m_demuxer = None, !.m_audioOutput = FALSE,
              !.m_playbackState = "StoppedState", !.m_hasVideo = FALSE,
              !.m_hasAudio = FALSE, !.m_framePresented = FALSE]

StopAlwaysTearsDown(p) == Teardown(SetNoMedia(p))  \* mutant of Stop

Stop(p) ==
    IF p.m_playbackState = "StoppedState"
    THEN SetNoMedia(p)
    ELSE Teardown(SetNoMedia(p))

StateMachine(p) == IF Interrupted(p) THEN StartPlayTimer(Stop(p)) ELSE p

\* hasVideo()/hasAudio() of the attached demuxer, read from the GUI thread: the
\* decoder is open, be the loader ready to say so or not.
SetHasTracks(p) ==
    IF p.m_status \in {"LoadedMedia", "BufferedMedia"} /\ p.m_demuxer # None
    THEN [p EXCEPT !.m_hasVideo = demuxer[p.m_demuxer].video,
                   !.m_hasAudio = demuxer[p.m_demuxer].audio]
    ELSE p

SetStatusUnguarded(p, status) ==  \* mutant of SetStatus
    IF p.m_status = status THEN p
    ELSE StateMachine(SetHasTracks([p EXCEPT !.m_status = status]))

SetStatus(p, status) ==
    IF \/ p.m_demuxer = None /\ status # "NoMedia"
       \/ p.m_status = status
    THEN p
    ELSE StateMachine(SetHasTracks([p EXCEPT !.m_status = status]))

\* fromDemuxer: sender() is not null.
SetPlaybackState(p, state, fromDemuxer) ==
    IF \/ p.m_demuxer = None /\ state # "StoppedState"
       \/ p.m_playbackState = state
    THEN p
    ELSE LET q == [p EXCEPT !.m_playbackState = state]
         IN  IF fromDemuxer THEN StateMachine(q) ELSE q

\* What the video surface (external) makes of a frame: it does not start, it
\* starts and rejects the frame, or it presents it.
SurfaceResults == {"unavailable", "rejected", "presented"}

ShowVideo(p, surface) ==
    [p EXCEPT !.m_hasVideo = @ \/ surface # "unavailable",
              !.m_framePresented = @ \/ surface = "presented"]

PlayAudio(p) ==
    IF p.m_muted THEN p
    ELSE [p EXCEPT !.m_hasAudio = @ \/ ~p.m_audioOutput, !.m_audioOutput = TRUE]

FrameHandler(p, frame, surface) ==
    IF p.m_demuxer = None \/ p.m_playbackState # "PlayingState" THEN p
    ELSE IF frame = "video" THEN ShowVideo(p, surface) ELSE PlayAudio(p)

-----------------------------------------------------------------------------
(***************************************************************************)
(* Loading and starting a demuxer.                                         *)
(***************************************************************************)

\* Deleting the attached demuxer interrupts and joins its threads.  The signals
\* they emit meanwhile are lost: stop() has disconnected them.
Released(p) ==
    IF player.m_demuxer # None /\ p.m_demuxer = None
    THEN [demuxer EXCEPT ![player.m_demuxer].deleted = TRUE]
    ELSE demuxer

CanLoadOver(p) == p.m_source # NoUrl  \* mutant of CanLoad

CanLoad(p) == p.m_demuxer = None /\ p.m_source # NoUrl

NewDemuxer(url, start) ==
    [url |-> url, loader |-> IF url \in BlankUrls THEN "none" ELSE "loading",
     reader |-> IF start THEN "reading" ELSE "idle",
     video |-> FALSE, audio |-> FALSE, deleted |-> FALSE]

FirstStatus(url) == IF url \in BlankUrls THEN "NoMedia" ELSE "LoadingMedia"

\* A demuxer whose loader has opened the decoders of the tracks.
LoaderAt(d, loader, tracks) ==
    [d EXCEPT !.loader = loader, !.video = "video" \in tracks, !.audio = "audio" \in tracks]

\* The loader thread runs from within load() on: how far it may have come when
\* start() emits PlayingState.
Underway(d, start) ==
    {d} \cup IF ~start \/ d.loader = "none" THEN {}
             ELSE {LoaderAt(d, "failed", {})}
                    \cup {LoaderAt(d, loader, tracks) : loader \in {"reported", "loaded"},
                                                       tracks \in SUBSET Frames \ {{}}}

\* The statuses a loader that has come so far has posted.
LoaderStatuses(s, loader) ==
    CASE loader = "failed" -> <<Status(s, "InvalidMedia")>>
      [] loader = "reported" -> <<Status(s, "LoadedMedia")>>
      [] loader = "loaded" -> <<Status(s, "LoadedMedia"), Status(s, "BufferedMedia")>>
      [] OTHER -> << >>

LoadEvents(s, url, start, loader) ==
    <<Status(s, FirstStatus(url))>> \o LoaderStatuses(s, loader)
      \o IF start THEN <<State(s, "PlayingState")>> ELSE << >>

\* load() and, if start, QmlAVDemuxer::start(), with the player's members p.
Load(p, start) ==
    IF CanLoad(p)
    THEN /\ created < MaxSessions
         /\ created' = created + 1
         /\ player' = [p EXCEPT !.m_demuxer = created + 1]
         /\ \E d \in Underway(NewDemuxer(p.m_source, start), start) :
              /\ demuxer' = [Released(p) EXCEPT ![created + 1] = d]
              /\ events' = events \o LoadEvents(created + 1, p.m_source, start, d.loader)
    ELSE /\ player' = p
         /\ demuxer' = Released(p)
         /\ UNCHANGED <<created, events>>

Keep(p) ==
    /\ player' = p
    /\ demuxer' = Released(p)
    /\ UNCHANGED <<created, events>>

AutoStart(p) ==
    IF p.m_autoPlay THEN Load(p, TRUE)
    ELSE IF p.m_autoLoad THEN Load(p, FALSE)
    ELSE Keep(p)

Reset(p) == IF p.m_complete THEN AutoStart(Stop(p)) ELSE Keep(p)

-----------------------------------------------------------------------------
(***************************************************************************)
(* Calls from QML and the restart timer, in the GUI thread.                *)
(***************************************************************************)

ComponentComplete ==
    /\ alive /\ ~player.m_complete
    /\ AutoStart([player EXCEPT !.m_complete = TRUE])
    /\ UNCHANGED alive

Play == alive /\ Load(player, TRUE) /\ UNCHANGED alive

StopCall == alive /\ Keep(Stop(player)) /\ UNCHANGED alive

SetSource(url) ==
    /\ alive /\ player.m_source # url
    /\ Reset([player EXCEPT !.m_source = url])
    /\ UNCHANGED alive

SetAVOptions == alive /\ Reset(player) /\ UNCHANGED alive

SetAutoPlay(b) ==
    /\ alive /\ player.m_autoPlay # b
    /\ LET p == [player EXCEPT !.m_autoPlay = b]
       IN  IF p.m_complete /\ b THEN Load(p, TRUE) ELSE Keep(p)
    /\ UNCHANGED alive

SetAutoLoad(b) ==
    /\ alive /\ player.m_autoLoad # b
    /\ LET p == [player EXCEPT !.m_autoLoad = b]
       IN  IF p.m_complete /\ b THEN Load(p, FALSE) ELSE Keep(p)
    /\ UNCHANGED alive

SetMuted(b) ==
    /\ alive /\ player.m_muted # b
    /\ Keep([player EXCEPT !.m_muted = b, !.m_audioOutput = @ /\ ~b])
    /\ UNCHANGED alive

PlayTimeout ==
    /\ alive /\ player.m_playTimer
    /\ Load([player EXCEPT !.m_playTimer = FALSE], TRUE)
    /\ UNCHANGED alive

\* ~QmlAVPlayer: stop(); Qt drops the events posted to the object.
Destroy ==
    /\ alive
    /\ alive' = FALSE
    /\ player' = [Stop(player) EXCEPT !.m_playTimer = FALSE]
    /\ demuxer' = Released(Stop(player))
    /\ events' = << >>
    /\ UNCHANGED created

-----------------------------------------------------------------------------
(***************************************************************************)
(* Delivery of a queued signal.  sender() finds the demuxer among the      *)
(* player's connections by its address: for an event of a deleted demuxer  *)
(* it is null unless the attached demuxer was allocated at that address.   *)
(***************************************************************************)

SenderKnown(e) ==
    IF e.session = player.m_demuxer THEN {TRUE}
    ELSE IF player.m_demuxer = None THEN {FALSE} ELSE BOOLEAN

Deliver ==
    /\ alive /\ events # << >>
    /\ LET e == Head(events) IN
         \/ e.kind = "status" /\ player' = SetStatus(player, e.value)
         \/ /\ e.kind = "state"
            /\ \E known \in SenderKnown(e) :
                 player' = SetPlaybackState(player, e.value, known)
         \/ /\ e.kind = "frame"
            /\ \E surface \in SurfaceResults :
                 player' = FrameHandler(player, e.value, surface)
    /\ events' = Tail(events)
    /\ demuxer' = Released(player')
    /\ UNCHANGED <<alive, created>>

-----------------------------------------------------------------------------
(***************************************************************************)
(* The demuxer's threads.  FFmpeg and the network are external: opening    *)
(* and reading may fail at any time.  A demuxer its player leaked goes on, *)
(* with nobody to post to.                                                 *)
(***************************************************************************)

Live(s) == s \in 1..created /\ ~demuxer[s].deleted

Post(evs) == events' = IF alive THEN events \o evs ELSE events

\* initDecoders(), at least one decoder opens: isLoaded().
LoaderOpens(s) ==
    /\ Live(s) /\ demuxer[s].loader = "loading"
    /\ \E v, a \in BOOLEAN :
         /\ v \/ a
         /\ demuxer' = [demuxer EXCEPT ![s].loader = "opened",
                                       ![s].video = v, ![s].audio = a]
    /\ UNCHANGED <<player, alive, created, events>>

LoaderReports(s) ==
    /\ Live(s) /\ demuxer[s].loader = "opened"
    /\ demuxer' = [demuxer EXCEPT ![s].loader = "reported"]
    /\ Post(<<Status(s, "LoadedMedia")>>)
    /\ UNCHANGED <<player, alive, created>>

LoaderFailsSilently(s) ==  \* mutant of LoaderFails
    /\ Live(s) /\ demuxer[s].loader = "loading"
    /\ demuxer' = [demuxer EXCEPT ![s].loader = "failed"]
    /\ UNCHANGED <<player, alive, created, events>>

LoaderFails(s) ==
    /\ Live(s) /\ demuxer[s].loader = "loading"
    /\ demuxer' = [demuxer EXCEPT ![s].loader = "failed"]
    /\ Post(<<Status(s, "InvalidMedia")>>)
    /\ UNCHANGED <<player, alive, created>>

LoaderFinishes(s) ==
    /\ Live(s) /\ demuxer[s].loader = "reported"
    /\ demuxer' = [demuxer EXCEPT ![s].loader = "loaded"]
    /\ Post(<<Status(s, "BufferedMedia")>>)
    /\ UNCHANGED <<player, alive, created>>

ReaderFailsPlaying(s) ==  \* mutant of ReaderFails
    /\ Live(s) /\ demuxer[s].reader = "reading"
    /\ demuxer[s].loader \in {"none", "failed", "loaded"}
    /\ demuxer' = [demuxer EXCEPT ![s].reader = "failed"]
    /\ Post(<<Status(s, "InvalidMedia")>>)
    /\ UNCHANGED <<player, alive, created>>

\* waitForFinished() on the loader has returned and nothing is loaded, or
\* av_read_frame() failed.
ReaderFails(s) ==
    /\ Live(s) /\ demuxer[s].reader = "reading"
    /\ demuxer[s].loader \in {"none", "failed", "loaded"}
    /\ demuxer' = [demuxer EXCEPT ![s].reader = "failed"]
    /\ Post(<<Status(s, "InvalidMedia"), State(s, "StoppedState")>>)
    /\ UNCHANGED <<player, alive, created>>

ReaderReachesEnd(s) ==
    /\ Live(s) /\ demuxer[s].reader = "reading" /\ demuxer[s].loader = "loaded"
    /\ demuxer' = [demuxer EXCEPT ![s].reader = "eof"]
    /\ Post(<<Status(s, "EndOfMedia"), State(s, "StoppedState")>>)
    /\ UNCHANGED <<player, alive, created>>

QueuedFrames == {i \in DOMAIN events : events[i].kind = "frame"}

\* A decoder finishes a frame.  After a read error the packets already queued
\* are still decoded; at the end of the media the reader waited for them.
DecodesFrame(s, frame) ==
    /\ Live(s) /\ demuxer[s].loader = "loaded"
    /\ demuxer[s].reader \in {"reading", "failed"}
    /\ IF frame = "video" THEN demuxer[s].video ELSE demuxer[s].audio
    /\ alive /\ Cardinality(QueuedFrames) < FrameLimit
    /\ Post(<<Frame(s, frame)>>)
    /\ UNCHANGED <<player, alive, created, demuxer>>

-----------------------------------------------------------------------------
Init ==
    /\ player = [m_complete |-> FALSE, m_autoLoad |-> TRUE, m_autoPlay |-> FALSE,
                 m_source |-> NoUrl, m_demuxer |-> None,
                 m_playbackState |-> "StoppedState", m_status |-> "NoMedia",
                 m_playTimer |-> FALSE, m_muted |-> FALSE, m_audioOutput |-> FALSE,
                 m_hasVideo |-> FALSE, m_hasAudio |-> FALSE, m_framePresented |-> FALSE]
    /\ alive = TRUE
    /\ created = 0
    /\ demuxer = [s \in Sessions |-> [url |-> NoUrl, loader |-> "none", reader |-> "idle",
                                      video |-> FALSE, audio |-> FALSE, deleted |-> FALSE]]
    /\ events = << >>

Qml ==
    \/ ComponentComplete
    \/ Play
    \/ StopCall
    \/ \E url \in Urls \cup {NoUrl} : SetSource(url)
    \/ SetAVOptions
    \/ \E b \in BOOLEAN : SetAutoPlay(b) \/ SetAutoLoad(b) \/ SetMuted(b)
    \/ Destroy

Loader(s) ==
    LoaderOpens(s) \/ LoaderFails(s) \/ LoaderReports(s) \/ LoaderFinishes(s)

\* The reader of a demuxer with nothing loaded gives up: no network involved.
ReaderGivesUp(s) == demuxer[s].loader # "loaded" /\ ReaderFails(s)

Threads(s) ==
    \/ Loader(s)
    \/ ReaderFails(s)
    \/ ReaderReachesEnd(s)
    \/ \E frame \in Frames : DecodesFrame(s, frame)

Next == Qml \/ PlayTimeout \/ Deliver \/ \E s \in Sessions : Threads(s)

Spec == Init /\ [][Next]_vars

\* Qt delivers posted events and expired timers; the interrupt callback's
\* timeout ends a loader that the network keeps waiting.  Nothing obliges QML
\* to call, or a stream to deliver, fail or end.
Fairness ==
    /\ WF_vars(Deliver) /\ WF_vars(PlayTimeout)
    /\ \A s \in Sessions : WF_vars(Loader(s)) /\ WF_vars(ReaderGivesUp(s))

-----------------------------------------------------------------------------
TypeOK ==
    /\ player \in Player
    /\ alive \in BOOLEAN
    /\ created \in 0..MaxSessions
    /\ demuxer \in [Sessions -> Demuxer]
    /\ events \in Seq(Event)

\* A player streams from one demuxer at most: every demuxer not deleted is the
\* one m_demuxer points to, so no camera stream runs unowned behind a viewport.
OneStream ==
    alive => \A s \in 1..created : ~demuxer[s].deleted => s = player.m_demuxer

\* Without a demuxer the player looks stopped and empty, whatever events of
\* deleted demuxers Qt still delivers (the guards of setStatus,
\* setPlaybackState and frameHandler).
DetachedIsQuiet ==
    player.m_demuxer = None =>
        /\ player.m_playbackState = "StoppedState"
        /\ player.m_status = "NoMedia"
        /\ ~player.m_hasVideo /\ ~player.m_hasAudio
        /\ ~player.m_framePresented /\ ~player.m_audioOutput

\* While a player plays, every event still queued comes from its own demuxer: what
\* a stream that was replaced has posted is delivered before the new one plays, so
\* none of its frames is shown as the new one's, and no status of it is taken for
\* the new one's once that plays.  (Before that it may be: setStatus() tests only
\* that there is a demuxer.)
PlayingQueueIsCurrent ==
    player.m_playbackState = "PlayingState" =>
        /\ player.m_demuxer # None
        /\ \A i \in DOMAIN events : events[i].session = player.m_demuxer

\* A stream that fails or ends is reported: the player leaves PlayingState,
\* unless QML has replaced the stream or destroyed the player meanwhile.
EndIsReported ==
    \A s \in Sessions :
        (demuxer[s].reader \in {"eof", "failed"} /\ ~demuxer[s].deleted) ~>
            (~alive \/ player.m_demuxer # s \/ player.m_playbackState = "StoppedState")

\* A player does not show LoadingMedia for ever.
LoadingResolves == player.m_status = "LoadingMedia" ~> player.m_status # "LoadingMedia"

-----------------------------------------------------------------------------
(***************************************************************************)
(* The inductive invariant behind OneStream, DetachedIsQuiet and           *)
(* PlayingQueueIsCurrent.  What keeps the queue current is that a demuxer  *)
(* emits PlayingState once, before anything but statuses of its loader, and *)
(* is deleted only by a player that has taken that event.                  *)
(***************************************************************************)

Starts(e) == e.kind = "state" /\ e.value = "PlayingState"

Quiet(p) ==
    p.m_demuxer = None =>
        /\ p.m_playbackState = "StoppedState" /\ p.m_status = "NoMedia"
        /\ ~p.m_hasVideo /\ ~p.m_hasAudio
        /\ ~p.m_framePresented /\ ~p.m_audioOutput

\* All that is queued for a playing player is current, and no start among it.
PlayingCurrent(p, q) ==
    p.m_playbackState = "PlayingState" =>
        /\ p.m_demuxer # None
        /\ \A i \in DOMAIN q : q[i].session = p.m_demuxer /\ ~Starts(q[i])

\* A queued start is the attached demuxer's, and only events of that demuxer,
\* with no second start, follow it.
StartCurrent(p, q) ==
    \A i \in DOMAIN q : Starts(q[i]) =>
        /\ p.m_demuxer # None
        /\ \A j \in DOMAIN q : j >= i =>
             /\ q[j].session = p.m_demuxer
             /\ j > i => ~Starts(q[j])

\* The three invariants above, strengthened by StartCurrent, are inductive.
PlayerInv ==
    /\ TypeOK
    /\ Quiet(player)
    /\ PlayingCurrent(player, events)
    /\ StartCurrent(player, events)
    /\ OneStream

=============================================================================
