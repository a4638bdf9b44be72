-------------------------- MODULE ThumbnailProvider --------------------------
(***************************************************************************)
(* The pictures of a recorder's cameras.  The GUI thread keeps a queue of  *)
(* the cameras asked for and hands the next one to a worker thread when    *)
(* the one before it is answered; the worker opens the camera's stream and *)
(* posts a frame, or that there is none.  The user may ask for all cameras *)
(* or for one, again and again, and cancel what waits.                     *)
(*                                                                         *)
(* A frame is the number of the request it was fetched for: 0 is no frame. *)
(***************************************************************************)
EXTENDS Naturals, FiniteSets, Sequences, SequencesExt

CONSTANTS
    Keys,        \* the cameras of a recorder
    MaxRequests  \* bound: requests made by the user

ASSUME ThumbnailAssumption == IsFiniteSet(Keys) /\ MaxRequests \in Nat

VARIABLES
    m_queue,     \* what waits to be fetched
    m_fetching,
    m_cache,     \* frame of each camera, in memory
    files,       \* and in the thumbnails directory
    posted,      \* calls posted to the GUI thread
    worker,      \* startFetch posted to it, or what it fetches
    app,         \* "open", "closing" (~ThumbnailProvider) or "closed"
    requests

vars == <<m_queue, m_fetching, m_cache, files, posted, worker, app, requests>>

Process == [kind |-> "process"]

Idle == [at |-> "idle"]

KeysOf(queue) == {queue[i].key : i \in 1 .. Len(queue)}

-----------------------------------------------------------------------------
(***************************************************************************)
(* The GUI thread: requests.                                               *)
(***************************************************************************)
\* mutant of Prepended: what waits is asked for once more.
PrependedTwice(queue, req) == <<req>> \o queue

\* requestThumbnail(..., prepend = true): the camera's entry, if there is one, is moved.
Prepended(queue, req) ==
    LET Waiting == {i \in DOMAIN queue : queue[i].key = req.key}
    IN  <<req>> \o (IF Waiting = {} THEN queue
                    ELSE RemoveAt(queue, CHOOSE i \in Waiting : TRUE))

\* requestThumbnail() for one camera after another: those that wait are left.
Appended(queue, ks, n) ==
    queue \o [i \in 1 .. Len(ks) |-> [key |-> ks[i], frame |-> n]]

Asks == app = "open" /\ requests < MaxRequests /\ requests' = requests + 1

\* The old file and frame go first, so that the placeholder shows.
GenerateSingleThumbnail(k) ==
    /\ Asks
    /\ files' = [files EXCEPT ![k] = 0]
    /\ m_cache' = [m_cache EXCEPT ![k] = 0]
    /\ m_queue' = Prepended(m_queue, [key |-> k, frame |-> requests + 1])
    /\ posted' = Append(posted, Process)
    /\ UNCHANGED <<m_fetching, worker, app>>

\* The files go; the frames in memory stay.
GenerateThumbnails ==
    LET new == SetToSeq(Keys \ KeysOf(m_queue))
    IN  /\ Asks
        /\ files' = [k \in Keys |-> 0]
        /\ m_queue' = Appended(m_queue, new, requests + 1)
        /\ posted' = posted \o [i \in 1 .. Len(new) |-> Process]
        /\ UNCHANGED <<m_fetching, m_cache, worker, app>>

CancelAll ==
    /\ app = "open" /\ m_queue' = << >>
    /\ UNCHANGED <<m_fetching, m_cache, files, posted, worker, app, requests>>

\* The destructor cancels what waits, interrupts the thread and waits for it.
Destroy ==
    /\ app = "open" /\ app' = "closing" /\ m_queue' = << >>
    /\ UNCHANGED <<m_fetching, m_cache, files, posted, worker, requests>>

Destroyed ==
    /\ app = "closing" /\ worker = Idle
    /\ app' = "closed" /\ posted' = << >>
    /\ UNCHANGED <<m_queue, m_fetching, m_cache, files, worker, requests>>

-----------------------------------------------------------------------------
(***************************************************************************)
(* The GUI thread: what is posted to it.                                   *)
(***************************************************************************)
\* mutant of ProcessQueue: it does not look whether a fetch is under way.
ProcessQueueAlways(fetching) ==
    IF m_queue = << >>
    THEN m_fetching' = fetching /\ UNCHANGED <<m_queue, worker>>
    ELSE /\ m_fetching' = TRUE
         /\ m_queue' = Tail(m_queue)
         /\ worker' = [at |-> "posted", req |-> Head(m_queue)]

ProcessQueue(fetching) ==
    IF fetching \/ m_queue = << >>
    THEN m_fetching' = fetching /\ UNCHANGED <<m_queue, worker>>
    ELSE /\ m_fetching' = TRUE
         /\ m_queue' = Tail(m_queue)
         /\ worker' = [at |-> "posted", req |-> Head(m_queue)]

\* The frame is kept, and saved if the file can be written.
OnFrameFetched(call) ==
    /\ m_cache' = [m_cache EXCEPT ![call.key] = call.frame]
    /\ files' \in {files, [files EXCEPT ![call.key] = call.frame]}
    /\ ProcessQueue(FALSE)

\* mutant of OnFetchFailed: the next request waits for the user's next one.
OnFetchFailedIdles ==
    m_fetching' = FALSE /\ UNCHANGED <<m_cache, files, m_queue, worker>>

OnFetchFailed == ProcessQueue(FALSE) /\ UNCHANGED <<m_cache, files>>

Delivers ==
    /\ app = "open" /\ posted # << >> /\ posted' = Tail(posted)
    /\ LET call == Head(posted)
       IN  \/ /\ call.kind = "process" /\ ProcessQueue(m_fetching)
              /\ UNCHANGED <<m_cache, files>>
           \/ call.kind = "fetched" /\ OnFrameFetched(call)
           \/ call.kind = "failed" /\ OnFetchFailed
    /\ UNCHANGED <<app, requests>>

-----------------------------------------------------------------------------
(***************************************************************************)
(* The worker thread.                                                      *)
(***************************************************************************)
StartsFetch ==
    /\ worker.at = "posted" /\ worker' = [worker EXCEPT !.at = "fetching"]
    /\ UNCHANGED <<m_queue, m_fetching, m_cache, files, posted, app, requests>>

\* quit(): the event loop may end before it takes what is posted.
LoopExits ==
    /\ app = "closing" /\ worker.at = "posted" /\ worker' = Idle
    /\ UNCHANGED <<m_queue, m_fetching, m_cache, files, posted, app, requests>>

\* fetchFrame() ends: its timeout and the interruption see to that.
FetchFrame ==
    /\ worker.at = "fetching" /\ worker' = Idle
    /\ \/ posted' = Append(posted, [kind |-> "fetched", key |-> worker.req.key,
                                    frame |-> worker.req.frame])
       \/ posted' = Append(posted, [kind |-> "failed", key |-> worker.req.key])
    /\ UNCHANGED <<m_queue, m_fetching, m_cache, files, app, requests>>

-----------------------------------------------------------------------------
Init ==
    /\ m_queue = << >> /\ m_fetching = FALSE
    /\ m_cache = [k \in Keys |-> 0]
    /\ files = [k \in Keys |-> 0]
    /\ posted = << >> /\ worker = Idle /\ app = "open" /\ requests = 0

Next ==
    \/ \E k \in Keys : GenerateSingleThumbnail(k)
    \/ GenerateThumbnails \/ CancelAll \/ Destroy \/ Destroyed
    \/ Delivers
    \/ StartsFetch \/ LoopExits \/ FetchFrame

Spec == Init /\ [][Next]_vars

Fairness ==
    WF_vars(Delivers) /\ WF_vars(StartsFetch) /\ WF_vars(FetchFrame) /\ WF_vars(Destroyed)

FairSpec == Spec /\ Fairness

-----------------------------------------------------------------------------
Frame == 0 .. MaxRequests

Request == [key : Keys, frame : Frame \ {0}]

Call ==
    {Process} \cup [kind : {"fetched"}, key : Keys, frame : Frame \ {0}]
      \cup [kind : {"failed"}, key : Keys]

\* The queue, the caches, the calls and the worker keep their types.
TypeOK ==
    /\ m_queue \in Seq(Request) /\ m_fetching \in BOOLEAN
    /\ m_cache \in [Keys -> Frame] /\ files \in [Keys -> Frame]
    /\ posted \in Seq(Call)
    /\ worker \in {Idle} \cup [at : {"posted", "fetching"}, req : Request]
    /\ app \in {"open", "closing", "closed"}
    /\ requests \in Frame

Answers == {i \in 1 .. Len(posted) : posted[i] # Process}

(***************************************************************************)
(* m_fetching is set exactly while one fetch is with the worker or its     *)
(* answer is under way, however requests, cancels and answers interleave;  *)
(* a camera waits once; and nothing waits that no call would take.         *)
(***************************************************************************)
OneFetchAtATime ==
    app = "open" =>
      /\ m_fetching <=> worker # Idle \/ Answers # {}
      /\ worker # Idle => Answers = {}
      /\ \A i, j \in Answers : i = j
      /\ \A i, j \in 1 .. Len(m_queue) : m_queue[i].key = m_queue[j].key => i = j
      /\ m_queue # << >> => m_fetching \/ posted # << >>

(***************************************************************************)
(* A camera's picture is never replaced by one that was asked for earlier, *)
(* in memory or on disk, and what is on disk is never newer than memory's. *)
(***************************************************************************)
PicturesGetNewer ==
    [][\A k \in Keys :
        /\ m_cache'[k] # 0 => m_cache'[k] >= m_cache[k]
        /\ files'[k] # 0 => files'[k] >= files[k] /\ files'[k] <= m_cache'[k]]_vars

(***************************************************************************)
(* A camera that waits is fetched, or cancelled; cameras asked for later   *)
(* and answers that fail do not leave it waiting.                          *)
(***************************************************************************)
EveryRequestIsTaken ==
    \A k \in Keys : k \in KeysOf(m_queue) ~> k \notin KeysOf(m_queue)
=============================================================================
