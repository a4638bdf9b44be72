------------------------- MODULE HikvisionDownloader -------------------------
(***************************************************************************)
(* The download of a recorder's files for one camera row.  startDownload() *)
(* spawns a thread that logs in and searches on its own and posts what it  *)
(* found to the GUI thread, which then fetches one file after another and  *)
(* has FFmpeg convert each.  The user may stop, start again and close the  *)
(* dialog at any moment, while a thread searches or its answer is posted.  *)
(*                                                                         *)
(* The members and what the SDK has open for them are one record: a slot   *)
(* is a function from records to records, so that stopDownload() can call  *)
(* onFfmpegFinished() in the middle, as it does through waitForFinished(). *)
(* A killed FFmpeg is assumed to end within the 1000 ms of that wait.      *)
(*                                                                         *)
(* Nothing in the code tells the answer of a stopped download's search     *)
(* from the answer of the download begun after it.  The history field      *)
(* dl.crossed records that one was taken for the other: the properties say *)
(* what holds in any case, and what only while that has not happened.      *)
(***************************************************************************)
EXTENDS Naturals, Sequences

CONSTANTS
    Threads,     \* bound: the search threads, one for every download
    Ids,         \* user ids the SDK has to give
    Handles,     \* file transfers the SDK runs at a time
    None,
    MaxSegments  \* bound: files a search finds

ASSUME DownloaderAssumption ==
    /\ None \notin Threads \cup Ids \cup Handles
    /\ MaxSegments \in Nat

VARIABLES
    dl,       \* members, the ids and transfers the SDK has open, and history
    search,   \* each thread: how far it is, its id, requestInterruption()
    posted,   \* calls posted to the GUI thread, in order
    dialog    \* "open", "closing" (in the destructor, at wait()) or "closed"

vars == <<dl, search, posted, dialog>>

-----------------------------------------------------------------------------
(***************************************************************************)
(* The slots, as functions of the record x.                                *)
(***************************************************************************)
\* emit downloadFinished(success, ...)
Answer(x, success) == [x EXCEPT !.answers = Append(@, success)]

Logout(x) == [x EXCEPT !.ids = @ \ {x.m_lUserID}, !.m_lUserID = None]

\* Log out, and answer: the end of every download the user did not stop.
Finish(x, success) == Answer([Logout(x) EXCEPT !.m_isDownloading = FALSE], success)

\* mutant of StartNextSegment: the timer is not started.
StartNextSegmentUnwatched(x, h) ==
    IF x.m_currentSegmentIndex >= x.m_segments THEN Finish(x, TRUE)
    ELSE IF h = None THEN [Finish(x, FALSE) EXCEPT !.m_lFileHandle = None]
    ELSE [x EXCEPT !.m_lFileHandle = h, !.files = @ \cup {h}]

\* mutant of StartNextSegment: a transfer that does not start keeps the session.
StartNextSegmentKeepsId(x, h) ==
    IF x.m_currentSegmentIndex >= x.m_segments THEN Finish(x, TRUE)
    ELSE IF h = None THEN Answer([x EXCEPT !.m_isDownloading = FALSE], FALSE)
    ELSE [x EXCEPT !.m_lFileHandle = h, !.files = @ \cup {h}, !.timer = TRUE]

\* mutant of StartNextSegment: it stops one segment late.
StartNextSegmentOneMore(x, h) ==
    IF x.m_currentSegmentIndex > x.m_segments THEN Finish(x, TRUE)
    ELSE IF h = None THEN [Finish(x, FALSE) EXCEPT !.m_lFileHandle = None]
    ELSE [x EXCEPT !.m_lFileHandle = h, !.files = @ \cup {h}, !.timer = TRUE]

\* h: the transfer that was started, None if a call on the way to it failed.
StartNextSegment(x, h) ==
    IF x.m_currentSegmentIndex >= x.m_segments THEN Finish(x, TRUE)
    ELSE IF h = None THEN [Finish(x, FALSE) EXCEPT !.m_lFileHandle = None]
    ELSE [x EXCEPT !.m_lFileHandle = h, !.files = @ \cup {h}, !.timer = TRUE]

Converted(x) == [x EXCEPT !.m_convertedSegmentsCount = @ + 1, !.m_currentSegmentIndex = @ + 1]

OnFfmpegFinished(x, ok, h) ==
    LET y == [x EXCEPT !.m_isConverting = FALSE, !.ffmpeg = "idle"]
    IN  IF ok THEN StartNextSegment(Converted(y), h) ELSE Finish(y, FALSE)

\* checkProgress() of a transfer that is over.
Fetched(x) == [x EXCEPT !.timer = FALSE, !.files = @ \ {x.m_lFileHandle}, !.m_lFileHandle = None]

\* The transfers that can be started for x: none without a session.
Startable(x) == {None} \cup IF x.m_lUserID = None THEN {} ELSE Handles \ x.files

\* mutant of Found: the index keeps the last download's value.
FoundNoReset(x, id, n, h) ==
    LET y == [x EXCEPT !.m_lUserID = id, !.m_segments = n]
    IN  IF ~x.m_isDownloading THEN [x EXCEPT !.ids = @ \ {id}]
        ELSE IF n = 0 THEN Finish(y, FALSE)
        ELSE StartNextSegment([y EXCEPT !.m_totalSegmentsCount = n,
                                        !.m_convertedSegmentsCount = 0], h)

\* The search's answer: n files found.
Found(x, id, n, h) ==
    LET y == [x EXCEPT !.m_lUserID = id, !.m_segments = n]
    IN  IF ~x.m_isDownloading THEN [x EXCEPT !.ids = @ \ {id}]
        ELSE IF n = 0 THEN Finish(y, FALSE)
        ELSE StartNextSegment([y EXCEPT !.m_currentSegmentIndex = 0, !.m_totalSegmentsCount = n,
                                        !.m_convertedSegmentsCount = 0], h)

\* FFmpeg that runs is killed; one that has exited well is only noticed now.
StopFfmpeg(x) ==
    IF x.ffmpeg \in {"idle", "missing"} THEN [x EXCEPT !.ffmpeg = "idle"]
    ELSE OnFfmpegFinished(x, x.ffmpeg = "done", None)

Stopped(x) ==
    LET y == StopFfmpeg([x EXCEPT !.timer = FALSE, !.m_segments = 0, !.stopped = TRUE])
        z == [y EXCEPT !.files = @ \ {y.m_lFileHandle}, !.m_lFileHandle = None]
    IN  Answer([Logout(z) EXCEPT !.m_isDownloading = FALSE, !.m_isConverting = FALSE], FALSE)

-----------------------------------------------------------------------------
(***************************************************************************)
(* The GUI thread.                                                         *)
(***************************************************************************)
Searching(t) == search[t].at \in {"login", "find", "ending"}

StartDownload(t) ==
    /\ dialog = "open" /\ ~dl.m_isDownloading
    /\ search[t].at = "unused"
    /\ dl' = [dl EXCEPT !.m_isDownloading = TRUE, !.m_searchThread = t, !.thread = t,
                        !.answers = << >>, !.stopped = FALSE, !.refused = FALSE]
    /\ search' = [search EXCEPT ![t].at = "login"]
    /\ UNCHANGED <<posted, dialog>>

\* startDownload() while a download runs (bound: once for each download).
RefusesDownload ==
    /\ dialog = "open" /\ dl.m_isDownloading /\ ~dl.refused
    /\ dl' = [Answer(dl, FALSE) EXCEPT !.refused = TRUE]
    /\ UNCHANGED <<search, posted, dialog>>

\* mutant of Interrupts: the thread is left to find out by itself.
InterruptsNot(t) == UNCHANGED search

\* requestInterruption()
Interrupts(t) ==
    search' = IF t = None THEN search ELSE [search EXCEPT ![t].interrupted = TRUE]

StopDownload ==
    /\ dialog = "open" /\ dl.m_isDownloading
    /\ dl' = Stopped(dl)
    /\ Interrupts(dl.m_searchThread)
    /\ UNCHANGED <<posted, dialog>>

\* ~HikvisionDownloader, up to wait().
Destroy ==
    /\ dialog = "open"
    /\ dialog' = "closing"
    /\ Interrupts(dl.m_searchThread)
    /\ dl' = IF dl.m_isDownloading THEN Stopped(dl) ELSE dl
    /\ UNCHANGED posted

\* The thread has ended.  What is posted to the object dies with it.
Destroyed ==
    /\ dialog = "closing"
    /\ \A t \in {dl.m_searchThread} \ {None} : ~Searching(t)
    /\ dialog' = "closed" /\ posted' = << >>
    /\ UNCHANGED <<dl, search>>

\* The thread's finished signal.
ThreadFinished(t) ==
    [dl EXCEPT !.m_searchThread = IF @ = t THEN None ELSE @]

\* A login that failed: whatever the download does by now.
LoginFailed == Answer([dl EXCEPT !.m_isDownloading = FALSE], FALSE)

\* History: an earlier download's answer, taken for the latest one's.
Crosses(call) ==
    /\ call.kind # "finished" /\ call.thread # dl.thread /\ ~dl.stopped
    /\ dl.m_isDownloading \/ call.kind = "loginFailed"

Taken(call) ==
    CASE call.kind = "finished" -> {ThreadFinished(call.thread)}
      [] call.kind = "loginFailed" -> {LoginFailed}
      [] call.kind = "found" ->
           {Found(dl, call.id, call.segments, h) : h \in {None} \cup (Handles \ dl.files)}

Delivers ==
    /\ dialog = "open" /\ posted # << >>
    /\ posted' = Tail(posted)
    /\ \E x \in Taken(Head(posted)) :
         dl' = [x EXCEPT !.crossed = @ \/ Crosses(Head(posted))]
    /\ UNCHANGED <<search, dialog>>

\* start("ffmpeg", ...), which a QProcess that already runs only warns of.
Starts(ffmpeg) == IF ffmpeg \in {"idle", "missing"} THEN {"running", "missing"} ELSE {ffmpeg}

\* The timer fires when the transfer has ended, well or not.
CheckProgress ==
    /\ dialog = "open" /\ dl.timer /\ dl.m_lFileHandle # None
    /\ LET x == Fetched(dl)
       IN  \/ \E started \in Starts(dl.ffmpeg) :  \* an .mp4
                dl' = [x EXCEPT !.m_isConverting = TRUE, !.ffmpeg = started]
           \/ \E h \in Startable(x) :
                dl' = StartNextSegment(Converted(x), h)
           \/ dl' = [Finish(x, FALSE) EXCEPT !.m_isConverting = FALSE]
    /\ UNCHANGED <<search, posted, dialog>>

FfmpegExits ==
    /\ dl.ffmpeg = "running"
    /\ \E how \in {"done", "failed"} : dl' = [dl EXCEPT !.ffmpeg = how]
    /\ UNCHANGED <<search, posted, dialog>>

FfmpegNoticed ==
    /\ dialog = "open" /\ dl.ffmpeg \in {"done", "failed"}
    /\ \E h \in Startable(dl) :
         dl' = OnFfmpegFinished(dl, dl.ffmpeg = "done", h)
    /\ UNCHANGED <<search, posted, dialog>>

-----------------------------------------------------------------------------
(***************************************************************************)
(* The search threads.                                                     *)
(***************************************************************************)
Posts(call) == posted' = IF dialog = "closed" THEN posted ELSE Append(posted, call)

LogsIn(t) ==
    /\ search[t].at = "login"
    /\ \/ \E id \in Ids \ dl.ids :
            /\ dl' = [dl EXCEPT !.ids = @ \cup {id}]
            /\ search' = [search EXCEPT ![t].at = "find", ![t].id = id]
            /\ UNCHANGED posted
       \/ /\ search' = [search EXCEPT ![t].at = "ending"]
          /\ Posts([kind |-> "loginFailed", thread |-> t])
          /\ UNCHANGED dl
    /\ UNCHANGED dialog

\* All the files, or those found when the thread sees the interruption.
Finds(t) ==
    /\ search[t].at = "find"
    /\ \E n \in 0 .. MaxSegments :
         Posts([kind |-> "found", thread |-> t, id |-> search[t].id, segments |-> n])
    /\ search' = [search EXCEPT ![t].at = "ending", ![t].id = None]
    /\ UNCHANGED <<dl, dialog>>

\* disconnect() in the destructor: its finished signal reaches nobody then.
Ends(t) ==
    /\ search[t].at = "ending"
    /\ search' = [search EXCEPT ![t].at = "over"]
    /\ IF dialog = "open" \/ dl.m_searchThread # t
       THEN Posts([kind |-> "finished", thread |-> t])
       ELSE UNCHANGED posted
    /\ UNCHANGED <<dl, dialog>>

Searches(t) == LogsIn(t) \/ Finds(t) \/ Ends(t)

-----------------------------------------------------------------------------
Init ==
    /\ dl = [m_isDownloading |-> FALSE, m_isConverting |-> FALSE, m_lUserID |-> None,
             m_lFileHandle |-> None, m_segments |-> 0, m_currentSegmentIndex |-> 0,
             m_totalSegmentsCount |-> 0, m_convertedSegmentsCount |-> 0, m_searchThread |-> None,
             timer |-> FALSE, ffmpeg |-> "idle", ids |-> {}, files |-> {},
             answers |-> << >>, stopped |-> FALSE, refused |-> FALSE,
             thread |-> None, crossed |-> FALSE]
    /\ search = [t \in Threads |-> [at |-> "unused", id |-> None, interrupted |-> FALSE]]
    /\ posted = << >>
    /\ dialog = "open"

Runs == Delivers \/ CheckProgress \/ FfmpegExits \/ FfmpegNoticed

Next ==
    \/ \E t \in Threads : StartDownload(t) \/ Searches(t)
    \/ RefusesDownload \/ StopDownload \/ Destroy \/ Destroyed
    \/ Runs

Spec == Init /\ [][Next]_vars

\* A login, a transfer and FFmpeg end, and so does a search that is interrupted;
\* the event loop runs.  No search need end by itself, and no user need do anything.
Fairness ==
    /\ \A t \in Threads :
         /\ WF_vars(LogsIn(t)) /\ WF_vars(Ends(t))
         /\ WF_vars(search[t].interrupted /\ Finds(t))
    /\ WF_vars(Delivers) /\ WF_vars(CheckProgress)
    /\ WF_vars(FfmpegExits) /\ WF_vars(FfmpegNoticed) /\ WF_vars(Destroyed)

FairSpec == Spec /\ Fairness

-----------------------------------------------------------------------------
Call ==
    [kind : {"loginFailed", "finished"}, thread : Threads]
      \cup [kind : {"found"}, thread : Threads, id : Ids, segments : 0 .. MaxSegments]

Members ==
    [m_isDownloading : BOOLEAN, m_isConverting : BOOLEAN,
     m_lUserID : Ids \cup {None}, m_lFileHandle : Handles \cup {None},
     m_segments : 0 .. MaxSegments, m_currentSegmentIndex : Nat,
     m_totalSegmentsCount : 0 .. MaxSegments, m_convertedSegmentsCount : Nat,
     m_searchThread : Threads \cup {None}, timer : BOOLEAN,
     ffmpeg : {"idle", "missing", "running", "done", "failed"},
     ids : SUBSET Ids, files : SUBSET Handles, answers : Seq(BOOLEAN), stopped : BOOLEAN,
     refused : BOOLEAN, thread : Threads \cup {None}, crossed : BOOLEAN]

\* The members, the threads and the posted calls keep their types, and unless
\* answers crossed no index leaves the segments a search found.
TypeOK ==
    /\ dl \in Members
    /\ ~dl.crossed => /\ dl.m_currentSegmentIndex <= MaxSegments
                      /\ dl.m_convertedSegmentsCount <= MaxSegments
    /\ search \in [Threads -> [at : {"unused", "login", "find", "ending", "over"},
                              id : Ids \cup {None}, interrupted : BOOLEAN]]
    /\ posted \in Seq(Call)
    /\ dialog \in {"open", "closing", "closed"}

UserIds == {dl.m_lUserID} \ {None}

SearchIds == {search[t].id : t \in Threads} \ {None}

\* The ids of answers that wait in the event queue.
FoundAt == {i \in 1 .. Len(posted) : posted[i].kind = "found"}
PostedIds == {posted[i].id : i \in FoundAt}

\* No session has two holders among the member, the searches and the answers.
HeldOnce ==
    /\ \A t, u \in Threads : search[t].id # None /\ search[t].id = search[u].id => t = u
    /\ \A i, j \in FoundAt : posted[i].id = posted[j].id => i = j
    /\ UserIds \cap (SearchIds \cup PostedIds) = {}
    /\ SearchIds \cap PostedIds = {}

(***************************************************************************)
(* Whenever the user stops and starts again, and whichever login, search,  *)
(* transfer or conversion fails: a session that the member, a search or a  *)
(* posted answer holds is open and has no second holder, so none is used   *)
(* after its logout or logged out twice, and the member's transfer is one  *)
(* the SDK runs.  Unless an earlier download's answer was taken for a      *)
(* later one's, nothing leaks either: every open session has its holder,   *)
(* the only transfer is the member's, with its session open and the timer  *)
(* watching it, and a row that does not download holds no session, no      *)
(* transfer and no FFmpeg.                                                 *)
(***************************************************************************)
NothingLeaks ==
    dialog = "open" =>
      /\ HeldOnce
      /\ UserIds \cup SearchIds \cup PostedIds \subseteq dl.ids
      /\ {dl.m_lFileHandle} \ {None} \subseteq dl.files
      /\ ~dl.crossed =>
           /\ dl.ids = UserIds \cup SearchIds \cup PostedIds
           /\ dl.files = {dl.m_lFileHandle} \ {None}
           /\ dl.files # {} => UserIds # {} /\ dl.timer /\ dl.ffmpeg = "idle"
           /\ ~dl.m_isDownloading =>
                UserIds = {} /\ dl.files = {} /\ ~dl.timer /\ dl.ffmpeg = "idle"

(***************************************************************************)
(* Unless an earlier download's answer was taken for this one's: the row   *)
(* is told how its download ended when it has, once unless the user        *)
(* stopped it, and that it succeeded only if every file the search found   *)
(* was fetched.  A second start that is refused is told so and changes     *)
(* nothing of it.  (stopDownload() may answer twice: see the README.)      *)
(***************************************************************************)
OneTrueAnswer ==
    LET refusals == IF dl.refused THEN <<FALSE>> ELSE << >>
    IN  ~dl.crossed =>
          /\ dl.m_isDownloading => dl.answers = refusals
          /\ ~dl.stopped =>
               /\ Len(dl.answers) <= Len(refusals) + 1
               /\ \A i \in 1 .. Len(dl.answers) :
                    dl.answers[i] => /\ dl.m_totalSegmentsCount > 0
                                     /\ dl.m_convertedSegmentsCount = dl.m_totalSegmentsCount

(***************************************************************************)
(* A download whose search has ended comes to an end by itself, whichever  *)
(* search's answer it took, unless FFmpeg could not be started: QProcess   *)
(* emits no finished() then.                                               *)
(***************************************************************************)
DownloadEnds ==
    dl.m_isDownloading /\ dl.m_searchThread = None
      ~> ~dl.m_isDownloading \/ dl.ffmpeg = "missing" \/ dl.m_searchThread # None

(***************************************************************************)
(* Closing the dialog in the middle of a search does not block the GUI for *)
(* good, however long the recorder's own search would last.                *)
(***************************************************************************)
CloseEnds == dialog = "closing" ~> dialog = "closed"

(***************************************************************************)
(* What ~HikvisionDownloader's comment promises: when the object is gone,  *)
(* no search thread that would post to it is left.                         *)
(***************************************************************************)
DestroyedLeavesNoSearch == dialog = "closed" => \A t \in Threads : ~Searching(t)
=============================================================================
