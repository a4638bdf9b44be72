---------------------------- MODULE ArchiveFrames ----------------------------
(***************************************************************************)
(* The decoded pictures of a HikvisionArchivePlayer.  The decoder's thread *)
(* copies each picture to a buffer of the player's pool and starts a task  *)
(* of the global thread pool, which converts it and posts it to the GUI    *)
(* thread; two counters, m_pendingTasks and m_guiPendingTasks, hold the    *)
(* decoder back.  Meanwhile the player's worker stops one playback after   *)
(* another (cleanupPlayback), and the GUI thread destroys the player.      *)
(*                                                                         *)
(* A buffer is a shared_ptr: it lives while the pool, a task or a QImage   *)
(* has it, and its inUse flag is cleared when the last QImage made of it   *)
(* goes.  PlayM4_Stop is assumed to return after DecCallBack has, and the  *)
(* 5000 ms the destructor waits for the tasks to be long enough.           *)
(***************************************************************************)
EXTENDS Naturals, SequencesExt

CONSTANTS
    Buffers,      \* bound: FrameBuffers alive at a time
    MaxTasks,     \* bound: YV12ToRGBTasks alive at a time
    Limit,        \* pictures under way at which the decoder drops one; 5 in the code
    MaxSessions,  \* bound: playbacks stopped
    None

ASSUME FramesAssumption ==
    /\ Limit \in Nat \ {0}
    /\ MaxTasks \in Nat /\ MaxSessions \in Nat
    /\ None \notin Buffers

VARIABLES
    m_playbackSessionId,
    m_frameBufferPool, inUse,
    m_pendingTasks, m_guiPendingTasks,
    m_currentImage,
    port,      \* "none", "mapped" in s_portMap, or "erased" from it and not stopped yet
    decoder,   \* DecCallBack
    task,      \* YV12ToRGBTasks, in the order of their start; any of them goes on
    posted,    \* pictures in the GUI thread's event queue
    gui,       \* the event the GUI thread handles
    worker,    \* cleanupPlayback, and what its caller does next
    player     \* "open", "destroying", "gone"

pipeline == <<decoder, task, posted, gui>>
buffers == <<m_frameBufferPool, inUse>>
counters == <<m_pendingTasks, m_guiPendingTasks>>
vars == <<m_playbackSessionId, buffers, counters, m_currentImage, port, pipeline, worker, player>>

Idle == [at |-> "idle"]

\* The buffers a QImage is made of.
Pictured ==
    {task[s].buffer : s \in {t \in DOMAIN task : task[t].at \in {"wrapped", "posted", "returning"}}}
        \cup {posted[i].buffer : i \in DOMAIN posted}
        \cup (IF gui.at = "idle" THEN {} ELSE {gui.buffer})
        \cup ({m_currentImage} \ {None})

\* The QImage's cleanup function, for those that go in this step.
PicturesGo == inUse' = inUse \ (Pictured \ Pictured')

Alive ==
    m_frameBufferPool \cup Pictured
        \cup {task[s].buffer : s \in DOMAIN task}

-----------------------------------------------------------------------------
(***************************************************************************)
(* DecCallBack, on the decoder's thread.                                   *)
(***************************************************************************)
\* A registered port has a player; its session is read, then one counter: the
\* other counter is read after it.
ReadsPending ==
    /\ decoder.at = "idle" /\ port = "mapped"
    /\ decoder' = [at |-> "read", session |-> m_playbackSessionId, pending |-> m_pendingTasks]
    /\ UNCHANGED <<m_playbackSessionId, buffers, counters, m_currentImage, port, task, posted,
                   gui, worker, player>>

\* Mutant: only the tasks are counted, not what waits for the GUI thread.
TestsLimitOfTasks ==
    /\ decoder.at = "read"
    /\ decoder' = IF decoder.pending >= Limit THEN Idle
                  ELSE [at |-> "passed", session |-> decoder.session]
    /\ UNCHANGED <<m_playbackSessionId, buffers, counters, m_currentImage, port, task, posted,
                   gui, worker, player>>

TestsLimit ==
    /\ decoder.at = "read"
    /\ decoder' = IF decoder.pending + m_guiPendingTasks >= Limit THEN Idle
                  ELSE [at |-> "passed", session |-> decoder.session]
    /\ UNCHANGED <<m_playbackSessionId, buffers, counters, m_currentImage, port, task, posted,
                   gui, worker, player>>

\* getOrCreateFrameBuffer.
Free == m_frameBufferPool \ inUse

FrameBuffer == CHOOSE b \in IF Free # {} THEN Free ELSE Buffers \ Alive : TRUE

TakesBuffer ==
    /\ decoder.at = "passed" /\ Free \cup (Buffers \ Alive) # {}
    /\ m_frameBufferPool' = m_frameBufferPool \cup {FrameBuffer}
    /\ inUse' = inUse \cup {FrameBuffer}
    /\ decoder' = [at |-> "copying", session |-> decoder.session, buffer |-> FrameBuffer]
    /\ UNCHANGED <<m_playbackSessionId, counters, m_currentImage, port, task, posted, gui,
                   worker, player>>

\* Mutant: the task is counted by no one.
StartsTaskUncounted ==
    /\ decoder.at = "copying" /\ Len(task) < MaxTasks
    /\ task' = Append(task, [at |-> "queued", session |-> decoder.session,
                             buffer |-> decoder.buffer])
    /\ decoder' = Idle
    /\ UNCHANGED <<m_playbackSessionId, buffers, counters, m_currentImage, port, posted, gui,
                   worker, player>>

StartsTask ==
    /\ decoder.at = "copying" /\ Len(task) < MaxTasks
    /\ m_pendingTasks' = m_pendingTasks + 1
    /\ task' = Append(task, [at |-> "queued", session |-> decoder.session,
                             buffer |-> decoder.buffer])
    /\ decoder' = Idle
    /\ UNCHANGED <<m_playbackSessionId, buffers, m_guiPendingTasks, m_currentImage, port,
                   posted, gui, worker, player>>

DecCallBack ==
    ReadsPending \/ TestsLimit \/ TakesBuffer \/ StartsTask

-----------------------------------------------------------------------------
(***************************************************************************)
(* YV12ToRGBTask::run, on a thread of the global pool.                     *)
(***************************************************************************)
\* The session is tested before the conversion and after it.
TestsSession(s, from, next) ==
    /\ task[s].at = from
    /\ IF task[s].session = m_playbackSessionId
       THEN task' = [task EXCEPT ![s].at = next] /\ UNCHANGED inUse
       ELSE /\ task' = [task EXCEPT ![s].at = "dropped"]
            /\ inUse' = inUse \ {task[s].buffer}
    /\ UNCHANGED <<m_playbackSessionId, m_frameBufferPool, counters, m_currentImage, port,
                   decoder, posted, gui, worker, player>>

\* Mutant: the buffer is free once it is converted.
PostsPictureFrees(s) ==
    /\ task[s].at = "wrapped"
    /\ m_guiPendingTasks' = m_guiPendingTasks + 1
    /\ posted' = Append(posted, [session |-> task[s].session, buffer |-> task[s].buffer])
    /\ task' = [task EXCEPT ![s].at = "posted"]
    /\ inUse' = inUse \ {task[s].buffer}
    /\ UNCHANGED <<m_playbackSessionId, m_frameBufferPool, m_pendingTasks, m_currentImage,
                   port, decoder, gui, worker, player>>

PostsPicture(s) ==
    /\ task[s].at = "wrapped"
    /\ m_guiPendingTasks' = m_guiPendingTasks + 1
    /\ posted' = Append(posted, [session |-> task[s].session, buffer |-> task[s].buffer])
    /\ task' = [task EXCEPT ![s].at = "posted"]
    /\ UNCHANGED <<m_playbackSessionId, buffers, m_pendingTasks, m_currentImage, port, decoder,
                   gui, worker, player>>

\* Mutant: a posted picture's task is left to the GUI thread to count down.
CountsDownLater(s) ==
    /\ task[s].at \in {"posted", "dropped"}
    /\ m_pendingTasks' = IF task[s].at = "posted" THEN m_pendingTasks ELSE m_pendingTasks - 1
    /\ task' = IF task[s].at = "posted" THEN [task EXCEPT ![s].at = "returning"]
               ELSE RemoveAt(task, s)
    /\ UNCHANGED <<m_playbackSessionId, buffers, m_guiPendingTasks, m_currentImage, port,
                   decoder, posted, gui, worker, player>>

CountsDown(s) ==
    /\ task[s].at \in {"posted", "dropped"}
    /\ m_pendingTasks' = m_pendingTasks - 1
    /\ task' = IF task[s].at = "posted" THEN [task EXCEPT ![s].at = "returning"]
               ELSE RemoveAt(task, s)
    /\ UNCHANGED <<m_playbackSessionId, buffers, m_guiPendingTasks, m_currentImage, port,
                   decoder, posted, gui, worker, player>>

\* The task's QImage goes after its last statement.
Returns(s) ==
    /\ task[s].at = "returning"
    /\ task' = RemoveAt(task, s)
    /\ UNCHANGED <<m_playbackSessionId, m_frameBufferPool, counters, m_currentImage, port,
                   decoder, posted, gui, worker, player>>
    /\ PicturesGo

Runs(s) ==
    \/ TestsSession(s, "queued", "converting")
    \/ TestsSession(s, "converting", "wrapped")
    \/ PostsPicture(s) \/ CountsDown(s) \/ Returns(s)

-----------------------------------------------------------------------------
(***************************************************************************)
(* The GUI thread.                                                         *)
(***************************************************************************)
TakesPicture ==
    /\ player = "open" /\ gui = Idle /\ posted # << >>
    /\ gui' = [at |-> IF Head(posted).session = m_playbackSessionId THEN "current" ELSE "late",
               buffer |-> Head(posted).buffer]
    /\ posted' = Tail(posted)
    /\ UNCHANGED <<m_playbackSessionId, buffers, counters, m_currentImage, port, decoder, task,
                   worker, player>>

\* updateImage, for a picture of the current session.
Shows ==
    /\ gui.at \in {"current", "late"}
    /\ m_currentImage' = IF gui.at = "current" THEN gui.buffer ELSE m_currentImage
    /\ m_guiPendingTasks' = m_guiPendingTasks - 1
    /\ gui' = [gui EXCEPT !.at = "shown"]
    /\ UNCHANGED <<m_playbackSessionId, m_frameBufferPool, m_pendingTasks, port, decoder, task,
                   posted, worker, player>>
    /\ PicturesGo

\* The event is deleted, and the picture with it.
DeletesEvent ==
    /\ gui.at = "shown"
    /\ gui' = Idle
    /\ UNCHANGED <<m_playbackSessionId, m_frameBufferPool, counters, m_currentImage, port,
                   decoder, task, posted, worker, player>>
    /\ PicturesGo

Gui == TakesPicture \/ Shows \/ DeletesEvent

-----------------------------------------------------------------------------
(***************************************************************************)
(* cleanupPlayback, on the worker's thread or in the destructor.           *)
(***************************************************************************)
\* stop() and the setters; playAtTime(), which starts a playback after it.
BeginsCleanup(next) ==
    /\ player = "open" /\ worker = Idle /\ m_playbackSessionId < MaxSessions
    /\ m_playbackSessionId' = m_playbackSessionId + 1
    /\ worker' = [at |-> "stopping", next |-> next]
    /\ UNCHANGED <<buffers, counters, m_currentImage, port, pipeline, player>>

\* ~HikvisionArchivePlayer: from here on the GUI thread handles no event; it
\* waits for the worker's thread, and then cleans up itself.
Destroy ==
    /\ player = "open" /\ gui = Idle
    /\ player' = "destroying"
    /\ UNCHANGED <<m_playbackSessionId, buffers, counters, m_currentImage, port, pipeline, worker>>

BeginsLastCleanup ==
    /\ player = "destroying" /\ worker = Idle
    /\ m_playbackSessionId' = m_playbackSessionId + 1
    /\ worker' = [at |-> "stopping", next |-> "destroy"]
    /\ UNCHANGED <<buffers, counters, m_currentImage, port, pipeline, player>>

ErasesPort ==
    /\ worker.at = "stopping"
    /\ port' = IF port = "mapped" THEN "erased" ELSE port
    /\ worker' = [worker EXCEPT !.at = "erased"]
    /\ UNCHANGED <<m_playbackSessionId, buffers, counters, m_currentImage, pipeline, player>>

\* PlayM4_Stop returns; the picture and the pool are then nobody's but the GUI's.
StopsDecoder ==
    /\ worker.at = "erased" /\ decoder = Idle
    /\ port' = "none"
    /\ m_currentImage' = None
    /\ m_frameBufferPool' = {}
    /\ worker' = IF worker.next = "none" THEN Idle ELSE [worker EXCEPT !.at = "cleaned"]
    /\ UNCHANGED <<m_playbackSessionId, counters, pipeline, player>>
    /\ PicturesGo

\* The stream's header comes: s_portMap[port] = player; or the playback fails.
OpensPort ==
    /\ worker.at = "cleaned" /\ worker.next = "play"
    /\ port' \in {"none", "mapped"}
    /\ worker' = Idle
    /\ UNCHANGED <<m_playbackSessionId, buffers, counters, m_currentImage, pipeline, player>>

\* The wait for the tasks is over; what is posted to the player goes with it.
IsDestroyed ==
    /\ worker.at = "cleaned" /\ worker.next = "destroy" /\ m_pendingTasks = 0
    /\ player' = "gone"
    /\ posted' = << >>
    /\ worker' = Idle
    /\ UNCHANGED <<m_playbackSessionId, m_frameBufferPool, counters, m_currentImage, port,
                   decoder, task, gui>>
    /\ PicturesGo

Cleanup ==
    BeginsLastCleanup \/ ErasesPort \/ StopsDecoder \/ OpensPort \/ IsDestroyed

-----------------------------------------------------------------------------
\* The player's first playback runs, or has failed; sessions are counted from it.
Init ==
    /\ m_playbackSessionId = 0
    /\ m_frameBufferPool = {} /\ inUse = {}
    /\ m_pendingTasks = 0 /\ m_guiPendingTasks = 0
    /\ m_currentImage = None
    /\ port \in {"none", "mapped"}
    /\ decoder = Idle /\ task = << >>
    /\ posted = << >> /\ gui = Idle
    /\ worker = Idle /\ player = "open"

Next ==
    \/ DecCallBack \/ Gui \/ Cleanup \/ Destroy
    \/ \E s \in DOMAIN task : Runs(s)
    \/ \E next \in {"none", "play"} : BeginsCleanup(next)

Spec == Init /\ [][Next]_vars

\* Threads run; whether the user asks for anything, and the recorder sends, is open.
Fairness ==
    /\ WF_vars(Cleanup) /\ WF_vars(Gui)
    /\ WF_vars(TestsLimit \/ TakesBuffer \/ StartsTask)
    /\ WF_vars(\E s \in DOMAIN task : Runs(s))

FairSpec == Spec /\ Fairness

-----------------------------------------------------------------------------
\* Pictures under way: being copied, converted, or waiting for the GUI thread.
UnderWay ==
    (IF decoder.at = "copying" THEN {decoder.buffer} ELSE {})
        \cup {task[s].buffer :
                s \in {t \in DOMAIN task : task[t].at \in {"queued", "converting", "wrapped", "posted"}}}
        \cup {posted[i].buffer : i \in DOMAIN posted}
        \cup (IF gui.at \in {"current", "late"} THEN {gui.buffer} ELSE {})

(***************************************************************************)
(* walkthrough.md:376-384: however long the GUI thread is blocked, no more *)
(* than Limit pictures are under way, across the hand-over from one        *)
(* counter to the other and from one playback to the next; besides these   *)
(* only the picture shown, and those of threads about to return, are in    *)
(* use.                                                                    *)
(***************************************************************************)
BackpressureHolds ==
    /\ Cardinality(UnderWay) <= Limit
    /\ inUse \subseteq UnderWay \cup Pictured
    /\ Len(posted) <= Limit

(***************************************************************************)
(* A buffer that is being written, by the decoder or by a task, is in      *)
(* nobody else's hands: neither another task has it nor a picture that may *)
(* be on the screen; and what the pool gives out as free is used by none.  *)
(***************************************************************************)
BufferHasOneUser ==
    LET Writes(s) == task[s].at \in {"queued", "converting"}
        Written == {task[s].buffer : s \in {t \in DOMAIN task : Writes(t)}}
    IN  /\ Written \cap Pictured = {}
        /\ decoder.at = "copying" => decoder.buffer \notin Written \cup Pictured
        /\ \A s, t \in DOMAIN task : Writes(s) /\ Writes(t) /\ task[s].buffer = task[t].buffer => s = t
        /\ Free \cap (UnderWay \cup Pictured) = {}

(***************************************************************************)
(* What the wait in ~HikvisionArchivePlayer is for: when the player is     *)
(* gone no decoder callback and no task that would still touch it is left. *)
(***************************************************************************)
TasksEndFirst ==
    player = "gone" =>
        /\ decoder = Idle
        /\ \A s \in DOMAIN task : task[s].at = "returning"

(***************************************************************************)
(* walkthrough.md:133-134: the wait ends although it keeps the GUI thread  *)
(* from handling what is posted to it.                                     *)
(***************************************************************************)
DestructorEnds == player = "destroying" ~> player = "gone"
=============================================================================
