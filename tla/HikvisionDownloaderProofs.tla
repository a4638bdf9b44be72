----------------------- MODULE HikvisionDownloaderProofs -----------------------
(***************************************************************************)
(* Proofs about HikvisionDownloader, for any number of downloads, sessions *)
(* and transfers, and searches that overlap in any way.                    *)
(*                                                                         *)
(* Whatever happens, a slot keeps the session and the transfer it finds or *)
(* gives them up (Gives), so that no session gets a second holder (Held).  *)
(* While no earlier answer was taken for a later one's (dl.crossed), the   *)
(* members are at rest or they fetch (Resting, Fetching), and at rest as   *)
(* long as the latest search or its answer is under way: so whatever a     *)
(* slot is called for, it finds the session, the transfer and FFmpeg as it *)
(* expects them.                                                           *)
(*                                                                         *)
(* The last part is about NvrStatusManager, the other client of the        *)
(* recorders' ISAPI, for any recorders and kinds of faults.                *)
(***************************************************************************)
EXTENDS HikvisionDownloader, NvrStatusManager, SequenceTheorems, TLAPS

-----------------------------------------------------------------------------
(***************************************************************************)
(* The slots, in whatever state they are called.                           *)
(***************************************************************************)
FileHeld(x) == x.m_lFileHandle # None => x.m_lFileHandle \in x.files

Gives(x, y) ==
    /\ y \in Members /\ (FileHeld(x) => FileHeld(y))
    /\ y.thread = x.thread /\ y.crossed = x.crossed /\ y.refused = x.refused
    /\ \/ y.ids = x.ids /\ y.m_lUserID = x.m_lUserID
       \/ y.ids = x.ids \ {x.m_lUserID} /\ y.m_lUserID = None

LEMMA GivesOn ==
    ASSUME NEW x \in Members, NEW y, NEW z, Gives(x, y), Gives(y, z)
    PROVE  Gives(x, z)
<1>1. None \notin x.ids
  BY DownloaderAssumption DEF Members
<1>. QED  BY <1>1 DEF Gives

LEMMA FinishGives ==
    ASSUME NEW x \in Members, NEW success \in BOOLEAN
    PROVE  LET y == Finish(x, success)
           IN  /\ Gives(x, y) /\ ~y.m_isDownloading /\ y.m_lUserID = None
               /\ y.ids = x.ids \ {x.m_lUserID} /\ y.answers = Append(x.answers, success)
               /\ y.files = x.files /\ y.m_lFileHandle = x.m_lFileHandle /\ y.timer = x.timer
               /\ y.ffmpeg = x.ffmpeg /\ y.stopped = x.stopped
               /\ y.m_totalSegmentsCount = x.m_totalSegmentsCount
               /\ y.m_convertedSegmentsCount = x.m_convertedSegmentsCount
               /\ y.m_currentSegmentIndex = x.m_currentSegmentIndex
<1>. DEFINE y == Finish(x, success)
            answers == Append(x.answers, success)
<1>1. answers \in Seq(BOOLEAN)
  BY AppendProperties DEF Members
<1>2. y = [x EXCEPT !.ids = x.ids \ {x.m_lUserID}, !.m_lUserID = None,
                    !.m_isDownloading = FALSE, !.answers = answers]
  BY DEF Finish, Logout, Answer, Members
<1>. HIDE DEF y, answers
<1>3. /\ y \in Members /\ ~y.m_isDownloading /\ y.m_lUserID = None
      /\ y.ids = x.ids \ {x.m_lUserID} /\ y.answers = answers
      /\ y.files = x.files /\ y.m_lFileHandle = x.m_lFileHandle /\ y.timer = x.timer
      /\ y.ffmpeg = x.ffmpeg /\ y.stopped = x.stopped
      /\ y.m_totalSegmentsCount = x.m_totalSegmentsCount
      /\ y.m_convertedSegmentsCount = x.m_convertedSegmentsCount
      /\ y.m_currentSegmentIndex = x.m_currentSegmentIndex
      /\ y.thread = x.thread /\ y.crossed = x.crossed /\ y.refused = x.refused
  BY <1>1, <1>2 DEF Members
<1>. QED  BY <1>3 DEF Gives, FileHeld, y, answers

LEMMA StartNextSegmentGives ==
    ASSUME NEW x \in Members, NEW h \in Handles \cup {None}
    PROVE  Gives(x, StartNextSegment(x, h))
<1>. DEFINE y == StartNextSegment(x, h)
<1>1. CASE x.m_currentSegmentIndex >= x.m_segments
  BY <1>1, FinishGives DEF StartNextSegment
<1>2. CASE ~(x.m_currentSegmentIndex >= x.m_segments) /\ h = None
  <2>. DEFINE f == Finish(x, FALSE)
  <2>1. Gives(x, f)
    BY FinishGives
  <2>2. y = [f EXCEPT !.m_lFileHandle = None]
    BY <1>2 DEF StartNextSegment
  <2>. HIDE DEF f, y
  <2>3. /\ y \in Members /\ y.m_lFileHandle = None /\ y.ids = f.ids /\ y.m_lUserID = f.m_lUserID
        /\ y.thread = f.thread /\ y.crossed = f.crossed /\ y.refused = f.refused
    BY <2>1, <2>2 DEF Gives, Members
  <2>. QED  BY <2>1, <2>3 DEF Gives, FileHeld, y
<1>3. CASE ~(x.m_currentSegmentIndex >= x.m_segments) /\ h # None
  <2>1. y = [x EXCEPT !.m_lFileHandle = h, !.files = x.files \cup {h}, !.timer = TRUE]
    BY <1>3 DEF StartNextSegment
  <2>. HIDE DEF y
  <2>2. /\ y \in Members /\ y.m_lFileHandle = h /\ h \in y.files
        /\ y.ids = x.ids /\ y.m_lUserID = x.m_lUserID
        /\ y.thread = x.thread /\ y.crossed = x.crossed /\ y.refused = x.refused
    BY <1>3, <2>1 DEF Members
  <2>. QED  BY <2>2 DEF Gives, FileHeld, y
<1>. QED  BY <1>1, <1>2, <1>3

LEMMA ConvertedGives ==
    ASSUME NEW x \in Members
    PROVE  LET y == Converted(x)
           IN  /\ Gives(x, y) /\ y.ids = x.ids /\ y.m_lUserID = x.m_lUserID
               /\ y.files = x.files /\ y.m_lFileHandle = x.m_lFileHandle /\ y.timer = x.timer
               /\ y.ffmpeg = x.ffmpeg /\ y.stopped = x.stopped /\ y.answers = x.answers
               /\ y.m_isDownloading = x.m_isDownloading /\ y.m_segments = x.m_segments
               /\ y.m_totalSegmentsCount = x.m_totalSegmentsCount
               /\ y.m_convertedSegmentsCount = x.m_convertedSegmentsCount + 1
               /\ y.m_currentSegmentIndex = x.m_currentSegmentIndex + 1
<1>. DEFINE y == Converted(x)
            n == x.m_currentSegmentIndex + 1
            c == x.m_convertedSegmentsCount + 1
<1>1. n \in Nat /\ c \in Nat
  BY DEF Members
<1>2. y = [x EXCEPT !.m_convertedSegmentsCount = c, !.m_currentSegmentIndex = n]
  BY DEF Converted
<1>. HIDE DEF y, n, c
<1>3. /\ y \in Members /\ y.ids = x.ids /\ y.m_lUserID = x.m_lUserID
      /\ y.files = x.files /\ y.m_lFileHandle = x.m_lFileHandle /\ y.timer = x.timer
      /\ y.ffmpeg = x.ffmpeg /\ y.stopped = x.stopped /\ y.answers = x.answers
      /\ y.m_isDownloading = x.m_isDownloading /\ y.m_segments = x.m_segments
      /\ y.m_totalSegmentsCount = x.m_totalSegmentsCount
      /\ y.m_convertedSegmentsCount = c /\ y.m_currentSegmentIndex = n
      /\ y.thread = x.thread /\ y.crossed = x.crossed /\ y.refused = x.refused
  BY <1>1, <1>2 DEF Members
<1>. QED  BY <1>3 DEF Gives, FileHeld, y, n, c

\* FFmpeg is over, one way or the other.
Idled(x) == [x EXCEPT !.m_isConverting = FALSE, !.ffmpeg = "idle"]

LEMMA IdledGives ==
    ASSUME NEW x \in Members
    PROVE  LET y == Idled(x)
           IN  /\ Gives(x, y) /\ y.ids = x.ids /\ y.m_lUserID = x.m_lUserID
               /\ y.files = x.files /\ y.m_lFileHandle = x.m_lFileHandle /\ y.timer = x.timer
               /\ y.ffmpeg = "idle" /\ y.stopped = x.stopped /\ y.answers = x.answers
               /\ y.m_isDownloading = x.m_isDownloading /\ y.m_segments = x.m_segments
               /\ y.m_totalSegmentsCount = x.m_totalSegmentsCount
               /\ y.m_convertedSegmentsCount = x.m_convertedSegmentsCount
               /\ y.m_currentSegmentIndex = x.m_currentSegmentIndex
<1>. DEFINE y == Idled(x)
<1>1. y = [x EXCEPT !.m_isConverting = FALSE, !.ffmpeg = "idle"]
  BY DEF Idled
<1>. HIDE DEF y
<1>2. /\ y \in Members /\ y.ids = x.ids /\ y.m_lUserID = x.m_lUserID
      /\ y.files = x.files /\ y.m_lFileHandle = x.m_lFileHandle /\ y.timer = x.timer
      /\ y.ffmpeg = "idle" /\ y.stopped = x.stopped /\ y.answers = x.answers
      /\ y.m_isDownloading = x.m_isDownloading /\ y.m_segments = x.m_segments
      /\ y.m_totalSegmentsCount = x.m_totalSegmentsCount
      /\ y.m_convertedSegmentsCount = x.m_convertedSegmentsCount
      /\ y.m_currentSegmentIndex = x.m_currentSegmentIndex
      /\ y.thread = x.thread /\ y.crossed = x.crossed /\ y.refused = x.refused
  BY <1>1 DEF Members
<1>. QED  BY <1>2 DEF Gives, FileHeld, y

LEMMA OnFfmpegFinishedIs ==
    ASSUME NEW x, NEW ok \in BOOLEAN, NEW h
    PROVE  OnFfmpegFinished(x, ok, h) =
             IF ok THEN StartNextSegment(Converted(Idled(x)), h) ELSE Finish(Idled(x), FALSE)
BY DEF OnFfmpegFinished, Idled

LEMMA OnFfmpegFinishedGives ==
    ASSUME NEW x \in Members, NEW ok \in BOOLEAN, NEW h \in Handles \cup {None}
    PROVE  Gives(x, OnFfmpegFinished(x, ok, h))
<1>1. Idled(x) \in Members /\ Gives(x, Idled(x))
  BY IdledGives DEF Gives
<1>2. Converted(Idled(x)) \in Members /\ Gives(Idled(x), Converted(Idled(x)))
  BY <1>1, ConvertedGives DEF Gives
<1>3. /\ Gives(Converted(Idled(x)), StartNextSegment(Converted(Idled(x)), h))
      /\ Gives(Idled(x), Finish(Idled(x), FALSE))
  BY <1>1, <1>2, StartNextSegmentGives, FinishGives
<1>4. /\ Gives(x, StartNextSegment(Converted(Idled(x)), h))
      /\ Gives(x, Finish(Idled(x), FALSE))
  BY <1>1, <1>2, <1>3, GivesOn
<1>. QED  BY <1>4, OnFfmpegFinishedIs

\* stopDownload() ends FFmpeg and, with it, perhaps the download.
LEMMA StopFfmpegGives ==
    ASSUME NEW w \in Members, w.m_segments = 0
    PROVE  LET y == StopFfmpeg(w)
           IN  /\ Gives(w, y) /\ y.ffmpeg = "idle" /\ y.timer = w.timer /\ y.stopped = w.stopped
               /\ y.files = w.files /\ y.m_lFileHandle = w.m_lFileHandle
               /\ y.m_currentSegmentIndex <= w.m_currentSegmentIndex + 1
               /\ y.m_convertedSegmentsCount <= w.m_convertedSegmentsCount + 1
               /\ w.ffmpeg = "idle" =>
                    /\ y.m_currentSegmentIndex = w.m_currentSegmentIndex
                    /\ y.m_convertedSegmentsCount = w.m_convertedSegmentsCount
<1>. DEFINE y == StopFfmpeg(w)
            v == Idled(w)
            c == Converted(v)
<1>0. w.m_currentSegmentIndex \in Nat /\ w.m_convertedSegmentsCount \in Nat
  BY DEF Members
<1>1. CASE w.ffmpeg \in {"idle", "missing"}
  <2>1. y = [w EXCEPT !.ffmpeg = "idle"]
    BY <1>1 DEF StopFfmpeg
  <2>. HIDE DEF y
  <2>2. /\ y \in Members /\ y.ids = w.ids /\ y.m_lUserID = w.m_lUserID
        /\ y.files = w.files /\ y.m_lFileHandle = w.m_lFileHandle /\ y.timer = w.timer
        /\ y.ffmpeg = "idle" /\ y.stopped = w.stopped
        /\ y.m_convertedSegmentsCount = w.m_convertedSegmentsCount
        /\ y.m_currentSegmentIndex = w.m_currentSegmentIndex
        /\ y.thread = w.thread /\ y.crossed = w.crossed /\ y.refused = w.refused
    BY <2>1 DEF Members
  <2>. QED  BY <1>0, <2>2 DEF Gives, FileHeld, y
<1>2. CASE w.ffmpeg \notin {"idle", "missing"}
  <2>0. y = OnFfmpegFinished(w, w.ffmpeg = "done", None)
    BY <1>2 DEF StopFfmpeg
  <2>1. y = IF w.ffmpeg = "done" THEN StartNextSegment(c, None) ELSE Finish(v, FALSE)
    BY <2>0, OnFfmpegFinishedIs
  <2>2. /\ v \in Members /\ Gives(w, v) /\ v.ffmpeg = "idle" /\ v.timer = w.timer
        /\ v.stopped = w.stopped /\ v.files = w.files /\ v.m_lFileHandle = w.m_lFileHandle
        /\ v.m_segments = 0 /\ v.m_currentSegmentIndex = w.m_currentSegmentIndex
        /\ v.m_convertedSegmentsCount = w.m_convertedSegmentsCount
    BY IdledGives DEF Gives
  <2>3. /\ c \in Members /\ Gives(w, c) /\ c.ffmpeg = "idle" /\ c.timer = w.timer
        /\ c.stopped = w.stopped /\ c.files = w.files /\ c.m_lFileHandle = w.m_lFileHandle
        /\ c.m_segments = 0 /\ c.m_currentSegmentIndex = w.m_currentSegmentIndex + 1
        /\ c.m_convertedSegmentsCount = w.m_convertedSegmentsCount + 1
    <3>. HIDE DEF v
    <3>1. /\ Gives(v, c) /\ c.ffmpeg = v.ffmpeg /\ c.timer = v.timer
          /\ c.stopped = v.stopped /\ c.files = v.files /\ c.m_lFileHandle = v.m_lFileHandle
          /\ c.m_segments = v.m_segments /\ c.m_currentSegmentIndex = v.m_currentSegmentIndex + 1
          /\ c.m_convertedSegmentsCount = v.m_convertedSegmentsCount + 1
      BY <2>2, ConvertedGives
    <3>. HIDE DEF c
    <3>2. Gives(w, c)
      BY <2>2, <3>1, GivesOn
    <3>3. c \in Members
      BY <3>1 DEF Gives
    <3>. QED  BY <2>2, <3>1, <3>2, <3>3
  <2>. HIDE DEF v, c
  <2>4. c.m_currentSegmentIndex >= c.m_segments
    BY <1>0, <2>3
  <2>5. y = IF w.ffmpeg = "done" THEN Finish(c, TRUE) ELSE Finish(v, FALSE)
    BY <2>1, <2>4 DEF StartNextSegment
  <2>6. PICK u \in {v, c}, b \in BOOLEAN : y = Finish(u, b)
    BY <2>5
  <2>7. /\ u \in Members /\ Gives(w, u) /\ u.ffmpeg = "idle" /\ u.timer = w.timer
        /\ u.stopped = w.stopped /\ u.files = w.files /\ u.m_lFileHandle = w.m_lFileHandle
        /\ u.m_currentSegmentIndex <= w.m_currentSegmentIndex + 1
        /\ u.m_convertedSegmentsCount <= w.m_convertedSegmentsCount + 1
    BY <1>0, <2>2, <2>3
  <2>. HIDE DEF y
  <2>8. /\ Gives(u, y) /\ y.ffmpeg = u.ffmpeg /\ y.timer = u.timer
        /\ y.stopped = u.stopped /\ y.files = u.files /\ y.m_lFileHandle = u.m_lFileHandle
        /\ y.m_currentSegmentIndex = u.m_currentSegmentIndex
        /\ y.m_convertedSegmentsCount = u.m_convertedSegmentsCount
    BY <2>6, <2>7, FinishGives
  <2>9. Gives(w, y)
    BY <2>7, <2>8, GivesOn
  <2>. QED  BY <1>2, <2>7, <2>8, <2>9 DEF y
<1>. QED  BY <1>1, <1>2

LEMMA StoppedGives ==
    ASSUME NEW x \in Members
    PROVE  LET y == Stopped(x)
           IN  /\ Gives(x, y) /\ y.ids = x.ids \ {x.m_lUserID} /\ y.m_lUserID = None
               /\ ~y.m_isDownloading /\ y.stopped /\ ~y.timer /\ y.ffmpeg = "idle"
               /\ y.files = x.files \ {x.m_lFileHandle} /\ y.m_lFileHandle = None
               /\ y.m_currentSegmentIndex <= x.m_currentSegmentIndex + 1
               /\ y.m_convertedSegmentsCount <= x.m_convertedSegmentsCount + 1
               /\ x.ffmpeg = "idle" =>
                    /\ y.m_currentSegmentIndex = x.m_currentSegmentIndex
                    /\ y.m_convertedSegmentsCount = x.m_convertedSegmentsCount
<1>. DEFINE w == [x EXCEPT !.timer = FALSE, !.m_segments = 0, !.stopped = TRUE]
            y == StopFfmpeg(w)
            z == [y EXCEPT !.files = @ \ {y.m_lFileHandle}, !.m_lFileHandle = None]
            over == [Logout(z) EXCEPT !.m_isDownloading = FALSE, !.m_isConverting = FALSE]
            r == Stopped(x)
<1>1. r = Answer(over, FALSE)
  BY Zenon DEF Stopped
<1>2. /\ w \in Members /\ w.m_segments = 0 /\ w.stopped /\ ~w.timer /\ w.ffmpeg = x.ffmpeg
      /\ w.files = x.files /\ w.m_lFileHandle = x.m_lFileHandle
      /\ w.ids = x.ids /\ w.m_lUserID = x.m_lUserID
      /\ w.thread = x.thread /\ w.crossed = x.crossed /\ w.refused = x.refused
      /\ w.m_convertedSegmentsCount = x.m_convertedSegmentsCount
      /\ w.m_currentSegmentIndex = x.m_currentSegmentIndex
  <2>1. 0 \in 0 .. MaxSegments
    BY DownloaderAssumption
  <2>. QED  BY <2>1 DEF Members
<1>. HIDE DEF w
<1>3. Gives(x, w)
  BY <1>2 DEF Gives, FileHeld
<1>4. /\ Gives(w, y) /\ y.ffmpeg = "idle" /\ y.timer = w.timer /\ y.stopped = w.stopped
      /\ y.files = w.files /\ y.m_lFileHandle = w.m_lFileHandle
      /\ y.m_currentSegmentIndex <= w.m_currentSegmentIndex + 1
      /\ y.m_convertedSegmentsCount <= w.m_convertedSegmentsCount + 1
      /\ w.ffmpeg = "idle" => /\ y.m_currentSegmentIndex = w.m_currentSegmentIndex
                              /\ y.m_convertedSegmentsCount = w.m_convertedSegmentsCount
  BY <1>2, StopFfmpegGives
<1>. HIDE DEF y
<1>5. Gives(x, y) /\ y \in Members
  BY <1>3, <1>4, GivesOn DEF Gives
<1>6. /\ z \in Members /\ z.files = y.files \ {y.m_lFileHandle} /\ z.m_lFileHandle = None
      /\ z.timer = y.timer /\ z.ffmpeg = y.ffmpeg /\ z.stopped = y.stopped
      /\ z.ids = y.ids /\ z.m_lUserID = y.m_lUserID
      /\ z.thread = y.thread /\ z.crossed = y.crossed /\ z.refused = y.refused
      /\ z.m_convertedSegmentsCount = y.m_convertedSegmentsCount
      /\ z.m_currentSegmentIndex = y.m_currentSegmentIndex
  BY <1>5 DEF Members
<1>. HIDE DEF z
<1>7. over = [Logout(z) EXCEPT !.m_isDownloading = FALSE, !.m_isConverting = FALSE]
  OBVIOUS
<1>. HIDE DEF over
<1>8. /\ over \in Members /\ over.ids = z.ids \ {z.m_lUserID} /\ over.m_lUserID = None
      /\ ~over.m_isDownloading /\ over.files = z.files /\ over.m_lFileHandle = None
      /\ over.timer = z.timer /\ over.ffmpeg = z.ffmpeg /\ over.stopped = z.stopped
      /\ over.thread = z.thread /\ over.crossed = z.crossed /\ over.refused = z.refused
      /\ over.m_convertedSegmentsCount = z.m_convertedSegmentsCount
      /\ over.m_currentSegmentIndex = z.m_currentSegmentIndex
  <2>. DEFINE l == Logout(z)
  <2>1. l = [z EXCEPT !.ids = z.ids \ {z.m_lUserID}, !.m_lUserID = None]
    BY DEF Logout
  <2>2. over = [l EXCEPT !.m_isDownloading = FALSE, !.m_isConverting = FALSE]
    BY <1>7
  <2>. HIDE DEF l
  <2>3. /\ l \in Members /\ l.ids = z.ids \ {z.m_lUserID} /\ l.m_lUserID = None
        /\ l.files = z.files /\ l.m_lFileHandle = None
        /\ l.timer = z.timer /\ l.ffmpeg = z.ffmpeg /\ l.stopped = z.stopped
        /\ l.thread = z.thread /\ l.crossed = z.crossed /\ l.refused = z.refused
        /\ l.m_convertedSegmentsCount = z.m_convertedSegmentsCount
        /\ l.m_currentSegmentIndex = z.m_currentSegmentIndex
    <3>1. z.ids \ {z.m_lUserID} \in SUBSET Ids /\ None \in Ids \cup {None}
      BY <1>6 DEF Members
    <3>2. z \in Members
      BY <1>6
    <3>3. l \in Members
      BY <2>1, <3>1, <3>2 DEF Members
    <3>4. /\ l.ids = z.ids \ {z.m_lUserID} /\ l.m_lUserID = None
          /\ l.files = z.files /\ l.m_lFileHandle = z.m_lFileHandle
          /\ l.timer = z.timer /\ l.ffmpeg = z.ffmpeg /\ l.stopped = z.stopped
          /\ l.thread = z.thread /\ l.crossed = z.crossed /\ l.refused = z.refused
          /\ l.m_convertedSegmentsCount = z.m_convertedSegmentsCount
          /\ l.m_currentSegmentIndex = z.m_currentSegmentIndex
      BY <2>1, <3>2 DEF Members
    <3>5. z.m_lFileHandle = None
      BY <1>6
    <3>. QED  BY <3>3, <3>4, <3>5
  <2>. QED  BY <2>2, <2>3 DEF Members
<1>9. /\ r \in Members /\ r.ids = over.ids /\ r.m_lUserID = None
      /\ ~r.m_isDownloading /\ r.files = over.files /\ r.m_lFileHandle = None
      /\ r.timer = over.timer /\ r.ffmpeg = over.ffmpeg /\ r.stopped = over.stopped
      /\ r.thread = over.thread /\ r.crossed = over.crossed /\ r.refused = over.refused
      /\ r.m_convertedSegmentsCount = over.m_convertedSegmentsCount
      /\ r.m_currentSegmentIndex = over.m_currentSegmentIndex
  <2>1. Append(over.answers, FALSE) \in Seq(BOOLEAN)
    BY <1>8, AppendProperties DEF Members
  <2>2. r = [over EXCEPT !.answers = Append(over.answers, FALSE)]
    BY <1>1 DEF Answer
  <2>. HIDE DEF r
  <2>. QED  BY <1>8, <2>1, <2>2 DEF Members
<1>. HIDE DEF r
<1>10. r.ids = x.ids \ {x.m_lUserID}
  <2>1. None \notin x.ids
    BY DownloaderAssumption DEF Members
  <2>. QED  BY <1>5, <1>6, <1>8, <1>9, <2>1 DEF Gives
<1>11. Gives(x, r)
  BY <1>5, <1>6, <1>8, <1>9, <1>10 DEF Gives, FileHeld
<1>. QED  BY <1>2, <1>4, <1>6, <1>8, <1>9, <1>10, <1>11 DEF r

LEMMA FetchedGives ==
    ASSUME NEW x \in Members
    PROVE  LET y == Fetched(x)
           IN  /\ Gives(x, y) /\ y.ids = x.ids /\ y.m_lUserID = x.m_lUserID
               /\ y.files = x.files \ {x.m_lFileHandle} /\ y.m_lFileHandle = None /\ ~y.timer
               /\ y.ffmpeg = x.ffmpeg /\ y.stopped = x.stopped /\ y.answers = x.answers
               /\ y.m_isDownloading = x.m_isDownloading /\ y.m_segments = x.m_segments
               /\ y.m_totalSegmentsCount = x.m_totalSegmentsCount
               /\ y.m_convertedSegmentsCount = x.m_convertedSegmentsCount
               /\ y.m_currentSegmentIndex = x.m_currentSegmentIndex
<1>. DEFINE y == Fetched(x)
            files == x.files \ {x.m_lFileHandle}
<1>1. files \in SUBSET Handles
  BY DEF Members
<1>2. y = [x EXCEPT !.timer = FALSE, !.files = files, !.m_lFileHandle = None]
  BY DEF Fetched
<1>. HIDE DEF y, files
<1>3. y \in Members
  BY <1>1, <1>2 DEF Members
<1>4. /\ y.ids = x.ids /\ y.m_lUserID = x.m_lUserID
      /\ y.files = files /\ y.m_lFileHandle = None /\ ~y.timer
      /\ y.ffmpeg = x.ffmpeg /\ y.stopped = x.stopped /\ y.answers = x.answers
      /\ y.m_isDownloading = x.m_isDownloading /\ y.m_segments = x.m_segments
      /\ y.m_totalSegmentsCount = x.m_totalSegmentsCount
      /\ y.m_convertedSegmentsCount = x.m_convertedSegmentsCount
      /\ y.m_currentSegmentIndex = x.m_currentSegmentIndex
      /\ y.thread = x.thread /\ y.crossed = x.crossed /\ y.refused = x.refused
  BY <1>2 DEF Members
<1>. QED  BY <1>3, <1>4 DEF Gives, FileHeld, y, files

\* FFmpeg is asked to start, and does or not.
Asked(x, ffmpeg) == [x EXCEPT !.m_isConverting = TRUE, !.ffmpeg = ffmpeg]

LEMMA AskedGives ==
    ASSUME NEW x \in Members, NEW started \in {"missing", "running", "done", "failed"}
    PROVE  LET y == Asked(x, started)
           IN  /\ Gives(x, y) /\ y.ids = x.ids /\ y.m_lUserID = x.m_lUserID
               /\ y.files = x.files /\ y.m_lFileHandle = x.m_lFileHandle /\ y.timer = x.timer
               /\ y.ffmpeg = started /\ y.stopped = x.stopped /\ y.answers = x.answers
               /\ y.m_isDownloading = x.m_isDownloading /\ y.m_segments = x.m_segments
               /\ y.m_totalSegmentsCount = x.m_totalSegmentsCount
               /\ y.m_convertedSegmentsCount = x.m_convertedSegmentsCount
               /\ y.m_currentSegmentIndex = x.m_currentSegmentIndex
<1>. DEFINE y == Asked(x, started)
<1>1. y = [x EXCEPT !.m_isConverting = TRUE, !.ffmpeg = started]
  BY DEF Asked
<1>. HIDE DEF y
<1>2. /\ y \in Members /\ y.ids = x.ids /\ y.m_lUserID = x.m_lUserID
      /\ y.files = x.files /\ y.m_lFileHandle = x.m_lFileHandle /\ y.timer = x.timer
      /\ y.ffmpeg = started /\ y.stopped = x.stopped /\ y.answers = x.answers
      /\ y.m_isDownloading = x.m_isDownloading /\ y.m_segments = x.m_segments
      /\ y.m_totalSegmentsCount = x.m_totalSegmentsCount
      /\ y.m_convertedSegmentsCount = x.m_convertedSegmentsCount
      /\ y.m_currentSegmentIndex = x.m_currentSegmentIndex
      /\ y.thread = x.thread /\ y.crossed = x.crossed /\ y.refused = x.refused
  BY <1>1 DEF Members
<1>. QED  BY <1>2 DEF Gives, FileHeld, y

\* A transfer that has failed ends the download.
Broken(x) == [Finish(x, FALSE) EXCEPT !.m_isConverting = FALSE]

LEMMA BrokenGives ==
    ASSUME NEW x \in Members
    PROVE  LET f == Finish(x, FALSE)
               y == Broken(x)
           IN  /\ Gives(x, y) /\ y.ids = f.ids /\ y.m_lUserID = f.m_lUserID
               /\ y.files = f.files /\ y.m_lFileHandle = f.m_lFileHandle /\ y.timer = f.timer
               /\ y.ffmpeg = f.ffmpeg /\ y.stopped = f.stopped /\ y.answers = f.answers
               /\ y.m_isDownloading = f.m_isDownloading /\ y.refused = f.refused
               /\ y.m_totalSegmentsCount = f.m_totalSegmentsCount
               /\ y.m_convertedSegmentsCount = f.m_convertedSegmentsCount
               /\ y.m_currentSegmentIndex = f.m_currentSegmentIndex
<1>. DEFINE f == Finish(x, FALSE)
            y == Broken(x)
<1>1. Gives(x, f) /\ f \in Members
  BY FinishGives DEF Gives
<1>2. y = [f EXCEPT !.m_isConverting = FALSE]
  BY DEF Broken
<1>. HIDE DEF f, y
<1>3. /\ y \in Members /\ y.ids = f.ids /\ y.m_lUserID = f.m_lUserID
      /\ y.files = f.files /\ y.m_lFileHandle = f.m_lFileHandle /\ y.timer = f.timer
      /\ y.ffmpeg = f.ffmpeg /\ y.stopped = f.stopped /\ y.answers = f.answers
      /\ y.m_isDownloading = f.m_isDownloading /\ y.refused = f.refused
      /\ y.m_totalSegmentsCount = f.m_totalSegmentsCount
      /\ y.m_convertedSegmentsCount = f.m_convertedSegmentsCount
      /\ y.m_currentSegmentIndex = f.m_currentSegmentIndex
      /\ y.thread = f.thread /\ y.crossed = f.crossed
  BY <1>1, <1>2 DEF Members
<1>. QED  BY <1>1, <1>3 DEF Gives, FileHeld, f, y

\* What checkProgress() does with x when its transfer is over.
Progresses(x, y) ==
    LET f == Fetched(x)
    IN  \/ \E started \in Starts(x.ffmpeg) : y = Asked(f, started)
        \/ \E h \in Startable(f) : y = StartNextSegment(Converted(f), h)
        \/ y = Broken(f)

LEMMA CheckProgressIs == CheckProgress => Progresses(dl, dl')
BY DEF CheckProgress, Progresses, Asked, Broken

LEMMA StartableIn ==
    ASSUME NEW x \in Members
    PROVE  Startable(x) \subseteq Handles \cup {None}
BY DEF Startable, Members

LEMMA CheckProgressGives ==
    ASSUME NEW x \in Members, NEW y, Progresses(x, y)
    PROVE  Gives(x, y)
<1>. DEFINE f == Fetched(x)
<1>1. Gives(x, f) /\ f \in Members
  BY FetchedGives DEF Gives
<1>2. Gives(f, Converted(f)) /\ Converted(f) \in Members
  BY <1>1, ConvertedGives DEF Gives
<1>3. Gives(f, y)
  <2>1. CASE \E started \in Starts(x.ffmpeg) : y = Asked(f, started)
    BY <1>1, <2>1, AskedGives DEF Starts, Members
  <2>2. CASE \E h \in Startable(f) : y = StartNextSegment(Converted(f), h)
    BY <1>1, <1>2, <2>2, StartNextSegmentGives, GivesOn, StartableIn
  <2>3. CASE y = Broken(f)
    BY <1>1, <2>3, BrokenGives
  <2>. QED  BY <2>1, <2>2, <2>3 DEF Progresses
<1>. QED  BY <1>1, <1>3, GivesOn

-----------------------------------------------------------------------------
(***************************************************************************)
(* The slots, of a download that no other's answer has reached.            *)
(***************************************************************************)
Resting(x) ==
    /\ x.m_lUserID = None /\ x.m_lFileHandle = None /\ x.files = {}
    /\ ~x.timer /\ x.ffmpeg = "idle"

Counted(x) ==
    /\ x.m_convertedSegmentsCount = x.m_currentSegmentIndex
    /\ x.m_totalSegmentsCount = x.m_segments /\ x.m_segments > 0

Refusals(x) == IF x.refused THEN <<FALSE>> ELSE << >>

\* It runs, and its end has not been told.
Running(x) ==
    /\ x.m_isDownloading /\ ~x.stopped /\ x.answers = Refusals(x)
    /\ x.m_lUserID # None /\ Counted(x)

\* Between two files.
Between(x) ==
    /\ Running(x) /\ x.m_currentSegmentIndex <= x.m_segments
    /\ x.m_lFileHandle = None /\ x.files = {} /\ ~x.timer /\ x.ffmpeg = "idle"

\* A transfer that is watched, or FFmpeg with the file.
Fetching(x) ==
    /\ Running(x) /\ x.m_currentSegmentIndex < x.m_segments
    /\ \/ x.m_lFileHandle # None /\ x.files = {x.m_lFileHandle} /\ x.timer /\ x.ffmpeg = "idle"
       \/ x.m_lFileHandle = None /\ x.files = {} /\ ~x.timer /\ x.ffmpeg # "idle"

Bounded(x) ==
    /\ x.m_currentSegmentIndex <= MaxSegments /\ x.m_convertedSegmentsCount <= MaxSegments

Told(x) ==
    /\ x.m_isDownloading => ~x.stopped /\ x.answers = Refusals(x)
    /\ ~x.stopped =>
         /\ Len(x.answers) <= Len(Refusals(x)) + 1
         /\ \A i \in 1 .. Len(x.answers) :
              x.answers[i] => /\ x.m_totalSegmentsCount > 0
                              /\ x.m_convertedSegmentsCount = x.m_totalSegmentsCount
    /\ Bounded(x)

\* What a slot does with a download: it goes on, or it is over.
GoesOn(x, y) ==
    Fetching(y) /\ Told(y) /\ y.ids = x.ids /\ y.m_lUserID = x.m_lUserID

IsOver(x, y) ==
    Resting(y) /\ Told(y) /\ ~y.m_isDownloading /\ y.ids = x.ids \ {x.m_lUserID}

\* While a download runs, the row has been told of refusals only.
LEMMA RefusalsAre ==
    ASSUME NEW x
    PROVE  /\ Refusals(x) \in Seq(BOOLEAN) /\ Len(Refusals(x)) \in Nat
           /\ \A i \in 1 .. Len(Refusals(x)) : ~Refusals(x)[i]
<1>1. CASE x.refused
  <2>1. <<FALSE>> \in Seq(BOOLEAN) /\ Len(<<FALSE>>) = 1 /\ \A i \in 1 .. 1 : ~(<<FALSE>>[i])
    OBVIOUS
  <2>2. Refusals(x) = <<FALSE>>
    BY <1>1 DEF Refusals
  <2>. HIDE DEF Refusals
  <2>. QED  BY <2>1, <2>2
<1>2. CASE ~x.refused
  <2>1. << >> \in Seq(BOOLEAN) /\ Len(<< >>) = 0
    OBVIOUS
  <2>. QED  BY <1>2, <2>1 DEF Refusals
<1>. QED  BY <1>1, <1>2

LEMMA RunningTold ==
    ASSUME NEW x \in Members, Running(x), x.m_currentSegmentIndex <= x.m_segments
    PROVE  Told(x)
<1>1. Bounded(x)
  BY DownloaderAssumption DEF Running, Counted, Bounded, Members
<1>2. x.answers = Refusals(x) /\ ~x.stopped
  BY DEF Running
<1>. QED  BY <1>1, <1>2, RefusalsAre DEF Told

\* The last answer.
LEMMA LastTold ==
    ASSUME NEW x, NEW y, NEW success \in BOOLEAN,
           y.answers = Append(Refusals(x), success), y.refused = x.refused,
           ~y.m_isDownloading, Bounded(y),
           success => /\ y.m_totalSegmentsCount > 0
                      /\ y.m_convertedSegmentsCount = y.m_totalSegmentsCount
    PROVE  Told(y)
<1>. DEFINE r == Refusals(x)
<1>1. r \in Seq(BOOLEAN) /\ Len(r) \in Nat /\ \A i \in 1 .. Len(r) : ~r[i]
  BY RefusalsAre
<1>2. Refusals(y) = r
  BY DEF Refusals
<1>3. /\ Len(y.answers) = Len(r) + 1 /\ y.answers[Len(r) + 1] = success
      /\ \A i \in 1 .. Len(r) : y.answers[i] = r[i]
  BY <1>1, AppendProperties
<1>. HIDE DEF r
<1>4. \A i \in 1 .. Len(y.answers) : y.answers[i] => i = Len(r) + 1
  BY <1>1, <1>3
<1>5. \A i \in 1 .. Len(y.answers) : y.answers[i] => success
  BY <1>3, <1>4
<1>. QED  BY <1>1, <1>2, <1>3, <1>5 DEF Told

LEMMA FinishDoes ==
    ASSUME NEW x \in Members, NEW success \in BOOLEAN, x.answers = Refusals(x), Bounded(x),
           x.m_lFileHandle = None, x.files = {}, ~x.timer, x.ffmpeg = "idle",
           success => x.m_totalSegmentsCount > 0
                        /\ x.m_convertedSegmentsCount = x.m_totalSegmentsCount
    PROVE  IsOver(x, Finish(x, success))
<1>. DEFINE y == Finish(x, success)
<1>1. /\ ~y.m_isDownloading /\ y.m_lUserID = None
      /\ y.ids = x.ids \ {x.m_lUserID} /\ y.answers = Append(x.answers, success)
      /\ y.files = x.files /\ y.m_lFileHandle = x.m_lFileHandle /\ y.timer = x.timer
      /\ y.ffmpeg = x.ffmpeg /\ y.refused = x.refused
      /\ y.m_totalSegmentsCount = x.m_totalSegmentsCount
      /\ y.m_convertedSegmentsCount = x.m_convertedSegmentsCount
      /\ y.m_currentSegmentIndex = x.m_currentSegmentIndex
  BY FinishGives DEF Gives
<1>. HIDE DEF y
<1>2. Told(y)
  BY <1>1, LastTold DEF Bounded
<1>. QED  BY <1>1, <1>2 DEF IsOver, Resting, y

LEMMA StartNextSegmentDoes ==
    ASSUME NEW x \in Members, Between(x), NEW h \in Handles \cup {None}
    PROVE  LET y == StartNextSegment(x, h)
           IN  GoesOn(x, y) \/ IsOver(x, y)
<1>. DEFINE y == StartNextSegment(x, h)
<1>0. /\ x.m_segments \in Nat /\ x.m_currentSegmentIndex \in Nat
      /\ x.answers = Refusals(x) /\ Bounded(x)
  BY RunningTold, DownloaderAssumption DEF Between, Running, Told, Members
<1>1. CASE x.m_currentSegmentIndex >= x.m_segments
  <2>1. y = Finish(x, TRUE)
    BY <1>1 DEF StartNextSegment
  <2>2. x.m_totalSegmentsCount > 0 /\ x.m_convertedSegmentsCount = x.m_totalSegmentsCount
    BY <1>0, <1>1 DEF Between, Running, Counted
  <2>. QED  BY <1>0, <2>1, <2>2, FinishDoes DEF Between
<1>2. CASE ~(x.m_currentSegmentIndex >= x.m_segments) /\ h = None
  <2>. DEFINE f == Finish(x, FALSE)
  <2>1. y = [f EXCEPT !.m_lFileHandle = None]
    BY <1>2 DEF StartNextSegment
  <2>2. f \in Members /\ IsOver(x, f)
    BY <1>0, FinishDoes, FinishGives DEF Between, Gives
  <2>. HIDE DEF f, y
  <2>3. f.m_lFileHandle = None
    BY <2>2 DEF IsOver, Resting
  <2>4. y = f
    BY <2>1, <2>2, <2>3 DEF Members
  <2>. QED  BY <2>2, <2>4 DEF y
<1>3. CASE ~(x.m_currentSegmentIndex >= x.m_segments) /\ h # None
  <2>1. y = [x EXCEPT !.m_lFileHandle = h, !.files = {h}, !.timer = TRUE]
    <3>1. y = [x EXCEPT !.m_lFileHandle = h, !.files = @ \cup {h}, !.timer = TRUE]
      BY <1>3 DEF StartNextSegment
    <3>2. x.files \cup {h} = {h}
      BY DEF Between
    <3>. QED  BY <3>1, <3>2
  <2>. HIDE DEF y
  <2>2. y \in Members
    BY <1>3, <2>1 DEF Members
  <2>3. /\ y.m_lFileHandle = h /\ y.files = {h} /\ y.timer /\ y.ffmpeg = x.ffmpeg
        /\ y.m_isDownloading = x.m_isDownloading /\ y.stopped = x.stopped
        /\ y.answers = x.answers /\ y.refused = x.refused /\ y.m_lUserID = x.m_lUserID
        /\ y.m_convertedSegmentsCount = x.m_convertedSegmentsCount
        /\ y.m_currentSegmentIndex = x.m_currentSegmentIndex
        /\ y.m_totalSegmentsCount = x.m_totalSegmentsCount /\ y.m_segments = x.m_segments
        /\ y.ids = x.ids
    BY <1>3, <2>1 DEF Members
  <2>4. Running(y)
    BY <2>3 DEF Between, Running, Counted, Refusals
  <2>5. Fetching(y) /\ y.m_currentSegmentIndex <= y.m_segments
    BY <1>0, <1>3, <2>3, <2>4 DEF Fetching, Between
  <2>. QED  BY <2>2, <2>3, <2>4, <2>5, RunningTold DEF GoesOn, y
<1>. QED  BY <1>0, <1>1, <1>2, <1>3

\* A file that has come is counted.
LEMMA ConvertedDoes ==
    ASSUME NEW y \in Members, Between(y), y.m_currentSegmentIndex < y.m_segments
    PROVE  /\ Converted(y) \in Members /\ Between(Converted(y))
           /\ Converted(y).ids = y.ids /\ Converted(y).m_lUserID = y.m_lUserID
<1>. DEFINE z == Converted(y)
<1>0. y.m_currentSegmentIndex \in Nat /\ y.m_segments \in Nat
  BY DownloaderAssumption DEF Members
<1>1. /\ z \in Members /\ z.ids = y.ids /\ z.m_lUserID = y.m_lUserID /\ z.refused = y.refused
      /\ z.files = y.files /\ z.m_lFileHandle = y.m_lFileHandle /\ z.timer = y.timer
      /\ z.ffmpeg = y.ffmpeg /\ z.stopped = y.stopped /\ z.answers = y.answers
      /\ z.m_isDownloading = y.m_isDownloading /\ z.m_segments = y.m_segments
      /\ z.m_totalSegmentsCount = y.m_totalSegmentsCount
      /\ z.m_convertedSegmentsCount = y.m_convertedSegmentsCount + 1
      /\ z.m_currentSegmentIndex = y.m_currentSegmentIndex + 1
  BY ConvertedGives DEF Gives
<1>. HIDE DEF z
<1>2. Running(z)
  BY <1>1 DEF Between, Running, Counted, Refusals
<1>3. z.m_currentSegmentIndex <= z.m_segments
  BY <1>0, <1>1
<1>. QED  BY <1>1, <1>2, <1>3 DEF Between, z

LEMMA OnFfmpegFinishedDoes ==
    ASSUME NEW x \in Members, Fetching(x), x.ffmpeg # "idle",
           NEW ok \in BOOLEAN, NEW h \in Handles \cup {None}
    PROVE  LET y == OnFfmpegFinished(x, ok, h)
           IN  GoesOn(x, y) \/ IsOver(x, y)
<1>. DEFINE y == Idled(x)
            z == Converted(y)
<1>0. x.m_currentSegmentIndex \in Nat /\ x.m_segments \in Nat
  BY DownloaderAssumption DEF Members
<1>1. /\ y \in Members /\ y.ids = x.ids /\ y.m_lUserID = x.m_lUserID /\ y.refused = x.refused
      /\ y.files = x.files /\ y.m_lFileHandle = x.m_lFileHandle /\ y.timer = x.timer
      /\ y.ffmpeg = "idle" /\ y.stopped = x.stopped /\ y.answers = x.answers
      /\ y.m_isDownloading = x.m_isDownloading /\ y.m_segments = x.m_segments
      /\ y.m_totalSegmentsCount = x.m_totalSegmentsCount
      /\ y.m_convertedSegmentsCount = x.m_convertedSegmentsCount
      /\ y.m_currentSegmentIndex = x.m_currentSegmentIndex
  BY IdledGives DEF Gives
<1>2. OnFfmpegFinished(x, ok, h) = IF ok THEN StartNextSegment(z, h) ELSE Finish(y, FALSE)
  BY OnFfmpegFinishedIs
<1>. HIDE DEF y
<1>3. Between(y) /\ y.m_currentSegmentIndex < y.m_segments
  <2>1. Running(y)
    BY <1>1 DEF Fetching, Running, Counted, Refusals
  <2>. QED  BY <1>0, <1>1, <2>1 DEF Fetching, Between
<1>4. CASE ok
  <2>1. z \in Members /\ Between(z) /\ z.ids = x.ids /\ z.m_lUserID = x.m_lUserID
    BY <1>1, <1>3, ConvertedDoes
  <2>. HIDE DEF z
  <2>. QED  BY <1>2, <1>4, <2>1, StartNextSegmentDoes DEF GoesOn, IsOver
<1>5. CASE ~ok
  <2>1. Bounded(y) /\ y.answers = Refusals(y)
    BY <1>1, <1>3, RunningTold DEF Between, Running, Told
  <2>2. IsOver(y, Finish(y, FALSE))
    BY <1>1, <1>3, <2>1, FinishDoes DEF Between
  <2>. QED  BY <1>1, <1>2, <1>5, <2>2 DEF IsOver
<1>. QED  BY <1>4, <1>5

LEMMA StoppedDoes ==
    ASSUME NEW x \in Members, Resting(x) \/ Fetching(x), Told(x)
    PROVE  IsOver(x, Stopped(x)) /\ Stopped(x).stopped
<1>. DEFINE y == Stopped(x)
<1>1. /\ y.ids = x.ids \ {x.m_lUserID} /\ y.m_lUserID = None
      /\ ~y.m_isDownloading /\ y.stopped /\ ~y.timer /\ y.ffmpeg = "idle"
      /\ y.files = x.files \ {x.m_lFileHandle} /\ y.m_lFileHandle = None
      /\ y.m_currentSegmentIndex <= x.m_currentSegmentIndex + 1
      /\ y.m_convertedSegmentsCount <= x.m_convertedSegmentsCount + 1
      /\ x.ffmpeg = "idle" =>
           /\ y.m_currentSegmentIndex = x.m_currentSegmentIndex
           /\ y.m_convertedSegmentsCount = x.m_convertedSegmentsCount
      /\ y \in Members
  BY StoppedGives DEF Gives
<1>. HIDE DEF y
<1>2. y.files = {}
  BY <1>1 DEF Resting, Fetching
<1>3. Bounded(y)
  <2>1. CASE x.ffmpeg = "idle"
    BY <1>1, <2>1 DEF Told, Bounded
  <2>2. CASE x.ffmpeg # "idle"
    <3>1. /\ x.m_currentSegmentIndex < x.m_segments
          /\ x.m_convertedSegmentsCount = x.m_currentSegmentIndex
      BY <2>2 DEF Resting, Fetching, Running, Counted
    <3>2. /\ x.m_segments \in Nat /\ x.m_segments <= MaxSegments /\ x.m_currentSegmentIndex \in Nat
          /\ y.m_currentSegmentIndex \in Nat /\ y.m_convertedSegmentsCount \in Nat
      BY <1>1, DownloaderAssumption DEF Members
    <3>. QED  BY <1>1, <3>1, <3>2, DownloaderAssumption DEF Bounded
  <2>. QED  BY <2>1, <2>2
<1>. QED  BY <1>1, <1>2, <1>3 DEF IsOver, Resting, Told, y

\* checkProgress(): on to FFmpeg, to the next file, or to the end.
LEMMA CheckProgressDoes ==
    ASSUME NEW x \in Members, Fetching(x), x.m_lFileHandle # None, NEW y, Progresses(x, y)
    PROVE  GoesOn(x, y) \/ IsOver(x, y)
<1>. DEFINE f == Fetched(x)
<1>0. x.m_currentSegmentIndex \in Nat /\ x.m_segments \in Nat
  BY DownloaderAssumption DEF Members
<1>1. /\ f \in Members /\ f.ids = x.ids /\ f.m_lUserID = x.m_lUserID /\ f.refused = x.refused
      /\ f.files = x.files \ {x.m_lFileHandle} /\ f.m_lFileHandle = None /\ ~f.timer
      /\ f.ffmpeg = x.ffmpeg /\ f.stopped = x.stopped /\ f.answers = x.answers
      /\ f.m_isDownloading = x.m_isDownloading /\ f.m_segments = x.m_segments
      /\ f.m_totalSegmentsCount = x.m_totalSegmentsCount
      /\ f.m_convertedSegmentsCount = x.m_convertedSegmentsCount
      /\ f.m_currentSegmentIndex = x.m_currentSegmentIndex
  BY FetchedGives DEF Gives
<1>2. PICK started \in Starts(x.ffmpeg), h \in Handles \cup {None} :
        \/ y = Asked(f, started)
        \/ y = StartNextSegment(Converted(f), h)
        \/ y = Broken(f)
  <2>1. \E started : started \in Starts(x.ffmpeg)
    BY DEF Starts
  <2>. QED  BY <1>1, <2>1, StartableIn DEF Progresses
<1>. HIDE DEF f
<1>3. Between(f) /\ f.m_currentSegmentIndex < f.m_segments
  <2>1. Running(f)
    BY <1>1 DEF Fetching, Running, Counted, Refusals
  <2>2. f.files = {} /\ f.ffmpeg = "idle"
    BY <1>1 DEF Fetching
  <2>. QED  BY <1>0, <1>1, <2>1, <2>2 DEF Fetching, Between
<1>4. CASE y = Asked(f, started)
  <2>0. started \in {"running", "missing"}
    BY DEF Fetching, Starts
  <2>1. /\ y \in Members /\ y.ids = f.ids /\ y.m_lUserID = f.m_lUserID /\ y.refused = f.refused
        /\ y.files = f.files /\ y.m_lFileHandle = f.m_lFileHandle /\ y.timer = f.timer
        /\ y.ffmpeg = started /\ y.stopped = f.stopped /\ y.answers = f.answers
        /\ y.m_isDownloading = f.m_isDownloading /\ y.m_segments = f.m_segments
        /\ y.m_totalSegmentsCount = f.m_totalSegmentsCount
        /\ y.m_convertedSegmentsCount = f.m_convertedSegmentsCount
        /\ y.m_currentSegmentIndex = f.m_currentSegmentIndex
    BY <1>1, <1>4, <2>0, AskedGives DEF Gives
  <2>2. Running(y)
    BY <1>3, <2>1 DEF Between, Running, Counted, Refusals
  <2>3. Fetching(y) /\ y.m_currentSegmentIndex <= y.m_segments
    BY <1>3, <2>0, <2>1, <2>2 DEF Fetching, Between
  <2>. QED  BY <1>1, <2>1, <2>2, <2>3, RunningTold DEF GoesOn
<1>5. CASE y = StartNextSegment(Converted(f), h)
  <2>1. /\ Converted(f) \in Members /\ Between(Converted(f))
        /\ Converted(f).ids = x.ids /\ Converted(f).m_lUserID = x.m_lUserID
    BY <1>1, <1>3, ConvertedDoes
  <2>. QED  BY <1>5, <2>1, StartNextSegmentDoes DEF GoesOn, IsOver
<1>6. CASE y = Broken(f)
  <2>. DEFINE z == Finish(f, FALSE)
  <2>1. Bounded(f) /\ f.answers = Refusals(f)
    BY <1>1, <1>3, RunningTold DEF Between, Running, Told
  <2>2. IsOver(f, z)
    BY <1>1, <1>3, <2>1, FinishDoes DEF Between
  <2>3. /\ y.ids = z.ids /\ y.m_lUserID = z.m_lUserID /\ y.files = z.files
        /\ y.m_lFileHandle = z.m_lFileHandle /\ y.timer = z.timer /\ y.ffmpeg = z.ffmpeg
        /\ y.m_isDownloading = z.m_isDownloading /\ y.answers = z.answers
        /\ y.stopped = z.stopped /\ y.m_totalSegmentsCount = z.m_totalSegmentsCount
        /\ y.m_convertedSegmentsCount = z.m_convertedSegmentsCount /\ y.refused = z.refused
        /\ y.m_currentSegmentIndex = z.m_currentSegmentIndex
    BY <1>1, <1>6, BrokenGives
  <2>. HIDE DEF z
  <2>. QED  BY <1>1, <2>2, <2>3 DEF IsOver, Resting, Told, Refusals, Bounded
<1>. QED  BY <1>2, <1>4, <1>5, <1>6

-----------------------------------------------------------------------------
(***************************************************************************)
(* The posted calls that are not about the members' own work.              *)
(***************************************************************************)
\* The search's answer: its session becomes the member's, or is logged out.
Takes(x, y, id) ==
    \/ y.ids = x.ids /\ y.m_lUserID = id
    \/ y.ids = x.ids \ {id} /\ y.m_lUserID \in {None, x.m_lUserID}

\* x with the session and n files.
Given(x, id, n) == [x EXCEPT !.m_lUserID = id, !.m_segments = n]

Counting(x, n) ==
    [x EXCEPT !.m_currentSegmentIndex = 0, !.m_totalSegmentsCount = n,
              !.m_convertedSegmentsCount = 0]

LEMMA FoundIs ==
    ASSUME NEW x, NEW id, NEW n, NEW h
    PROVE  Found(x, id, n, h) =
             IF ~x.m_isDownloading THEN [x EXCEPT !.ids = @ \ {id}]
             ELSE IF n = 0 THEN Finish(Given(x, id, n), FALSE)
             ELSE StartNextSegment(Counting(Given(x, id, n), n), h)
BY DEF Found, Given, Counting

LEMMA GivenIs ==
    ASSUME NEW x \in Members, NEW id \in Ids, NEW n \in 0 .. MaxSegments
    PROVE  LET y == Given(x, id, n)
           IN  /\ y \in Members /\ y.ids = x.ids /\ y.m_lUserID = id /\ y.m_segments = n
               /\ y.files = x.files /\ y.m_lFileHandle = x.m_lFileHandle /\ y.timer = x.timer
               /\ y.ffmpeg = x.ffmpeg /\ y.stopped = x.stopped /\ y.answers = x.answers
               /\ y.m_isDownloading = x.m_isDownloading /\ y.refused = x.refused
               /\ y.m_convertedSegmentsCount = x.m_convertedSegmentsCount
               /\ y.m_currentSegmentIndex = x.m_currentSegmentIndex
               /\ y.thread = x.thread /\ y.crossed = x.crossed
<1>. DEFINE y == Given(x, id, n)
<1>1. y = [x EXCEPT !.m_lUserID = id, !.m_segments = n]
  BY DEF Given
<1>. HIDE DEF y
<1>2. /\ y \in Members /\ y.ids = x.ids /\ y.m_lUserID = id /\ y.m_segments = n
      /\ y.files = x.files /\ y.m_lFileHandle = x.m_lFileHandle /\ y.timer = x.timer
      /\ y.ffmpeg = x.ffmpeg /\ y.stopped = x.stopped /\ y.answers = x.answers
      /\ y.m_isDownloading = x.m_isDownloading /\ y.refused = x.refused
      /\ y.m_convertedSegmentsCount = x.m_convertedSegmentsCount
      /\ y.m_currentSegmentIndex = x.m_currentSegmentIndex
      /\ y.thread = x.thread /\ y.crossed = x.crossed
  BY <1>1 DEF Members
<1>. QED  BY <1>2 DEF y

LEMMA CountingIs ==
    ASSUME NEW x \in Members, NEW n \in 0 .. MaxSegments
    PROVE  LET y == Counting(x, n)
           IN  /\ Gives(x, y) /\ y.ids = x.ids /\ y.m_lUserID = x.m_lUserID
               /\ y.files = x.files /\ y.m_lFileHandle = x.m_lFileHandle /\ y.timer = x.timer
               /\ y.ffmpeg = x.ffmpeg /\ y.stopped = x.stopped /\ y.answers = x.answers
               /\ y.m_isDownloading = x.m_isDownloading /\ y.m_segments = x.m_segments
               /\ y.m_convertedSegmentsCount = 0 /\ y.m_currentSegmentIndex = 0
               /\ y.m_totalSegmentsCount = n
<1>. DEFINE y == Counting(x, n)
<1>1. y = [x EXCEPT !.m_currentSegmentIndex = 0, !.m_totalSegmentsCount = n,
                    !.m_convertedSegmentsCount = 0]
  BY DEF Counting
<1>. HIDE DEF y
<1>2. /\ y \in Members /\ y.ids = x.ids /\ y.m_lUserID = x.m_lUserID
      /\ y.files = x.files /\ y.m_lFileHandle = x.m_lFileHandle /\ y.timer = x.timer
      /\ y.ffmpeg = x.ffmpeg /\ y.stopped = x.stopped /\ y.answers = x.answers
      /\ y.m_isDownloading = x.m_isDownloading /\ y.m_segments = x.m_segments
      /\ y.m_convertedSegmentsCount = 0 /\ y.m_currentSegmentIndex = 0
      /\ y.m_totalSegmentsCount = n
      /\ y.thread = x.thread /\ y.crossed = x.crossed /\ y.refused = x.refused
  BY <1>1 DEF Members
<1>. QED  BY <1>2 DEF Gives, FileHeld, y

LEMMA FoundTakes ==
    ASSUME NEW x \in Members, NEW id \in Ids, NEW n \in 0 .. MaxSegments, NEW h \in Handles \cup {None}
    PROVE  LET y == Found(x, id, n, h)
           IN  /\ y \in Members /\ (FileHeld(x) => FileHeld(y)) /\ Takes(x, y, id)
               /\ y.thread = x.thread /\ y.crossed = x.crossed /\ y.refused = x.refused
<1>. DEFINE y == Found(x, id, n, h)
            w == Given(x, id, n)
            v == Counting(w, n)
<1>1. y = IF ~x.m_isDownloading THEN [x EXCEPT !.ids = @ \ {id}]
          ELSE IF n = 0 THEN Finish(w, FALSE) ELSE StartNextSegment(v, h)
  BY FoundIs
<1>2. /\ w \in Members /\ w.ids = x.ids /\ w.m_lUserID = id
      /\ w.files = x.files /\ w.m_lFileHandle = x.m_lFileHandle
      /\ w.thread = x.thread /\ w.crossed = x.crossed /\ w.refused = x.refused
  BY GivenIs
<1>. HIDE DEF w
<1>3. v \in Members /\ Gives(w, v)
  BY <1>2, CountingIs DEF Gives
<1>. HIDE DEF v, y
<1>4. CASE ~x.m_isDownloading
  <2>1. y = [x EXCEPT !.ids = x.ids \ {id}]
    BY <1>1, <1>4
  <2>2. /\ y \in Members /\ y.ids = x.ids \ {id} /\ y.m_lUserID = x.m_lUserID
        /\ y.files = x.files /\ y.m_lFileHandle = x.m_lFileHandle
        /\ y.thread = x.thread /\ y.crossed = x.crossed /\ y.refused = x.refused
    BY <2>1 DEF Members
  <2>. QED  BY <2>2 DEF Takes, FileHeld, y
<1>5. CASE x.m_isDownloading
  <2>1. Gives(w, Finish(w, FALSE)) /\ Gives(v, StartNextSegment(v, h))
    BY <1>2, <1>3, FinishGives, StartNextSegmentGives
  <2>2. Gives(w, y)
    BY <1>1, <1>2, <1>3, <1>5, <2>1, GivesOn
  <2>. QED  BY <1>2, <2>2 DEF Gives, Takes, FileHeld, y
<1>. QED  BY <1>4, <1>5

LEMMA FoundDoes ==
    ASSUME NEW x \in Members, Resting(x), Told(x), NEW id \in Ids,
           NEW n \in 0 .. MaxSegments, NEW h \in Handles \cup {None}
    PROVE  LET y == Found(x, id, n, h)
           IN  /\ Told(y)
               /\ \/ Fetching(y) /\ y.ids = x.ids /\ y.m_lUserID = id
                  \/ Resting(y) /\ ~y.m_isDownloading /\ y.ids = x.ids \ {id}
               /\ ~x.m_isDownloading => y.stopped = x.stopped /\ ~y.m_isDownloading
<1>. DEFINE y == Found(x, id, n, h)
            w == Given(x, id, n)
            v == Counting(w, n)
<1>1. y = IF ~x.m_isDownloading THEN [x EXCEPT !.ids = @ \ {id}]
          ELSE IF n = 0 THEN Finish(w, FALSE) ELSE StartNextSegment(v, h)
  BY FoundIs
<1>2. /\ w \in Members /\ w.ids = x.ids /\ w.m_lUserID = id /\ w.m_segments = n
      /\ w.files = x.files /\ w.m_lFileHandle = x.m_lFileHandle /\ w.timer = x.timer
      /\ w.ffmpeg = x.ffmpeg /\ w.stopped = x.stopped /\ w.answers = x.answers
      /\ w.m_isDownloading = x.m_isDownloading /\ w.refused = x.refused
      /\ w.m_convertedSegmentsCount = x.m_convertedSegmentsCount
      /\ w.m_currentSegmentIndex = x.m_currentSegmentIndex
  BY GivenIs
<1>. HIDE DEF w
<1>3. CASE ~x.m_isDownloading
  <2>. HIDE DEF y
  <2>1. y = [x EXCEPT !.ids = x.ids \ {id}]
    BY <1>1, <1>3
  <2>2. /\ y.ids = x.ids \ {id} /\ y.m_lUserID = x.m_lUserID /\ y.files = x.files
        /\ y.m_lFileHandle = x.m_lFileHandle /\ y.timer = x.timer /\ y.ffmpeg = x.ffmpeg
        /\ y.m_isDownloading = x.m_isDownloading /\ y.answers = x.answers
        /\ y.stopped = x.stopped /\ y.m_totalSegmentsCount = x.m_totalSegmentsCount
        /\ y.m_convertedSegmentsCount = x.m_convertedSegmentsCount
        /\ y.m_currentSegmentIndex = x.m_currentSegmentIndex /\ y.refused = x.refused
    BY <2>1 DEF Members
  <2>. QED  BY <1>3, <2>2 DEF Resting, Told, Bounded, Refusals, y
<1>4. CASE x.m_isDownloading /\ n = 0
  <2>1. y = Finish(w, FALSE)
    BY <1>1, <1>4
  <2>2. w.answers = Refusals(w) /\ Bounded(w)
    BY <1>2, <1>4 DEF Told, Refusals, Bounded
  <2>3. IsOver(w, Finish(w, FALSE))
    BY <1>2, <2>2, FinishDoes DEF Resting
  <2>. QED  BY <1>2, <1>4, <2>1, <2>3 DEF IsOver
<1>5. CASE x.m_isDownloading /\ n # 0
  <2>1. /\ v \in Members /\ v.ids = w.ids /\ v.m_lUserID = w.m_lUserID
        /\ v.files = w.files /\ v.m_lFileHandle = w.m_lFileHandle /\ v.timer = w.timer
        /\ v.ffmpeg = w.ffmpeg /\ v.stopped = w.stopped /\ v.answers = w.answers
        /\ v.m_isDownloading = w.m_isDownloading /\ v.m_segments = w.m_segments
        /\ v.m_convertedSegmentsCount = 0 /\ v.m_currentSegmentIndex = 0
        /\ v.m_totalSegmentsCount = n /\ v.refused = w.refused
    BY <1>2, CountingIs DEF Gives
  <2>. HIDE DEF v
  <2>2. n \in Nat /\ n > 0 /\ id # None
    BY <1>5, DownloaderAssumption
  <2>3. Running(v)
    BY <1>2, <1>5, <2>1, <2>2 DEF Running, Counted, Told, Refusals
  <2>4. Between(v)
    BY <1>2, <2>1, <2>2, <2>3 DEF Between, Resting
  <2>5. y = StartNextSegment(v, h)
    BY <1>1, <1>5
  <2>6. GoesOn(v, y) \/ IsOver(v, y)
    BY <2>1, <2>4, <2>5, StartNextSegmentDoes
  <2>. QED  BY <1>2, <1>5, <2>1, <2>6 DEF GoesOn, IsOver, y
<1>. QED  BY <1>3, <1>4, <1>5

\* A login that failed, of a download that runs or was stopped.
LEMMA LoginFailedDoes ==
    ASSUME dl \in Members
    PROVE  LET y == LoginFailed
           IN  /\ Gives(dl, y) /\ y.ids = dl.ids /\ y.m_lUserID = dl.m_lUserID
               /\ ~y.m_isDownloading /\ y.stopped = dl.stopped
               /\ Resting(dl) => Resting(y)
               /\ Told(dl) /\ (dl.m_isDownloading \/ dl.stopped) => Told(y)
<1>. DEFINE y == LoginFailed
            answers == Append(dl.answers, FALSE)
<1>1. answers \in Seq(BOOLEAN)
  BY AppendProperties DEF Members
<1>2. y = [dl EXCEPT !.m_isDownloading = FALSE, !.answers = answers]
  BY DEF LoginFailed, Answer, Members
<1>. HIDE DEF y
<1>3. /\ y \in Members /\ y.ids = dl.ids /\ y.m_lUserID = dl.m_lUserID /\ y.files = dl.files
      /\ y.m_lFileHandle = dl.m_lFileHandle /\ y.timer = dl.timer /\ y.ffmpeg = dl.ffmpeg
      /\ ~y.m_isDownloading /\ y.answers = answers /\ y.stopped = dl.stopped
      /\ y.thread = dl.thread /\ y.crossed = dl.crossed /\ y.refused = dl.refused
      /\ y.m_convertedSegmentsCount = dl.m_convertedSegmentsCount
      /\ y.m_currentSegmentIndex = dl.m_currentSegmentIndex
  <2>. HIDE DEF answers
  <2>. QED  BY <1>1, <1>2 DEF Members
<1>4. ASSUME Told(dl), dl.m_isDownloading \/ dl.stopped PROVE Told(y)
  <2>1. CASE dl.stopped
    BY <1>3, <1>4, <2>1 DEF Told, Bounded
  <2>2. CASE dl.m_isDownloading
    <3>1. Bounded(y) /\ answers = Append(Refusals(dl), FALSE)
      BY <1>3, <1>4, <2>2 DEF Told, Bounded
    <3>. QED  BY <1>3, <3>1, LastTold
  <2>. QED  BY <1>4, <2>1, <2>2
<1>5. Gives(dl, y)
  BY <1>3 DEF Gives, FileHeld
<1>. QED  BY <1>3, <1>4, <1>5 DEF Resting, y

-----------------------------------------------------------------------------
(***************************************************************************)
(* What is posted: the threads that have answered, and their sessions.     *)
(***************************************************************************)
AnswersIn(p) == {i \in 1 .. Len(p) : p[i].kind # "finished"}

FoundIn(p) == {i \in 1 .. Len(p) : p[i].kind = "found"}

ThreadsIn(p) == {p[i].thread : i \in AnswersIn(p)}

IdsIn(p) == {p[i].id : i \in FoundIn(p)}

OneIn(p) ==
    /\ \A i, j \in AnswersIn(p) : p[i].thread = p[j].thread => i = j
    /\ \A i, j \in FoundIn(p) : p[i].id = p[j].id => i = j

IdOf(c) == IF c.kind = "found" THEN {c.id} ELSE {}

LEMMA NothingIn == ThreadsIn(<< >>) = {} /\ IdsIn(<< >>) = {} /\ OneIn(<< >>)
BY DEF AnswersIn, FoundIn, ThreadsIn, IdsIn, OneIn

LEMMA AppendedAt ==
    ASSUME NEW p \in Seq(Call), NEW c \in Call
    PROVE  /\ Append(p, c) \in Seq(Call) /\ Len(p) \in Nat /\ Append(p, c)[Len(p) + 1] = c
           /\ \A i : i \in 1 .. Len(Append(p, c)) <=> i \in 1 .. Len(p) \/ i = Len(p) + 1
           /\ \A i \in 1 .. Len(p) : Append(p, c)[i] = p[i]
<1>1. /\ Append(p, c) \in Seq(Call) /\ Len(Append(p, c)) = Len(p) + 1
      /\ Append(p, c)[Len(p) + 1] = c /\ \A i \in 1 .. Len(p) : Append(p, c)[i] = p[i]
  BY AppendProperties
<1>2. Len(p) \in Nat
  BY LenProperties
<1>. QED  BY <1>1, <1>2

LEMMA AnswerHas ==
    ASSUME NEW p \in Seq(Call), NEW c \in Call, c.kind # "finished", OneIn(p),
           c.thread \notin ThreadsIn(p), c.kind = "found" => c.id \notin IdsIn(p)
    PROVE  LET q == Append(p, c)
           IN  /\ OneIn(q) /\ ThreadsIn(q) = ThreadsIn(p) \cup {c.thread}
               /\ IdsIn(q) = IdsIn(p) \cup IdOf(c)
<1>. DEFINE q == Append(p, c)
            n == Len(p) + 1
<1>1. /\ q[n] = c /\ n \notin 1 .. Len(p)
      /\ \A i : i \in 1 .. Len(q) <=> i \in 1 .. Len(p) \/ i = n
      /\ \A i \in 1 .. Len(p) : q[i] = p[i]
  BY AppendedAt
<1>. HIDE DEF q, n
<1>2. AnswersIn(q) = AnswersIn(p) \cup {n} /\ \A i \in AnswersIn(p) : i \in 1 .. Len(p)
  BY <1>1 DEF AnswersIn
<1>3. FoundIn(q) = FoundIn(p) \cup (IF c.kind = "found" THEN {n} ELSE {})
  BY <1>1 DEF FoundIn
<1>4. \A i \in FoundIn(p) : i \in 1 .. Len(p) /\ q[i] = p[i]
  BY <1>1 DEF FoundIn
<1>5. ThreadsIn(q) = ThreadsIn(p) \cup {c.thread}
  BY <1>1, <1>2 DEF ThreadsIn
<1>6. IdsIn(q) = IdsIn(p) \cup IdOf(c)
  BY <1>1, <1>3, <1>4 DEF IdsIn, IdOf
<1>7. \A i, j \in AnswersIn(q) : q[i].thread = q[j].thread => i = j
  BY <1>1, <1>2 DEF OneIn, ThreadsIn
<1>8. \A i, j \in FoundIn(q) : q[i].id = q[j].id => i = j
  BY <1>1, <1>3, <1>4 DEF OneIn, IdsIn
<1>. QED  BY <1>5, <1>6, <1>7, <1>8 DEF OneIn, q

LEMMA FinishedHas ==
    ASSUME NEW p \in Seq(Call), NEW c \in Call, c.kind = "finished", OneIn(p)
    PROVE  LET q == Append(p, c)
           IN  OneIn(q) /\ ThreadsIn(q) = ThreadsIn(p) /\ IdsIn(q) = IdsIn(p)
<1>. DEFINE q == Append(p, c)
            n == Len(p) + 1
<1>1. /\ q[n] = c
      /\ \A i : i \in 1 .. Len(q) <=> i \in 1 .. Len(p) \/ i = n
      /\ \A i \in 1 .. Len(p) : q[i] = p[i]
  BY AppendedAt
<1>. HIDE DEF q, n
<1>2. AnswersIn(q) = AnswersIn(p) /\ FoundIn(q) = FoundIn(p)
  BY <1>1 DEF AnswersIn, FoundIn
<1>3. (\A i \in AnswersIn(p) : q[i] = p[i]) /\ (\A i \in FoundIn(p) : q[i] = p[i])
  BY <1>1 DEF AnswersIn, FoundIn
<1>4. OneIn(q)
  BY <1>2, <1>3 DEF OneIn
<1>5. ThreadsIn(q) = ThreadsIn(p)
  BY <1>2, <1>3 DEF ThreadsIn
<1>6. IdsIn(q) = IdsIn(p)
  BY <1>2, <1>3 DEF IdsIn
<1>. QED  BY <1>4, <1>5, <1>6 DEF q

\* What is left once the first call is taken.
LEMMA RestHas ==
    ASSUME NEW p \in Seq(Call), p # << >>, OneIn(p)
    PROVE  LET c == Head(p)
               q == Tail(p)
           IN  /\ c \in Call /\ q \in Seq(Call) /\ OneIn(q)
               /\ IdsIn(q) = IdsIn(p) \ IdOf(c) /\ IdOf(c) \subseteq IdsIn(p)
               /\ c.kind = "finished" => ThreadsIn(q) = ThreadsIn(p)
               /\ c.kind # "finished" =>
                    ThreadsIn(q) = ThreadsIn(p) \ {c.thread} /\ c.thread \in ThreadsIn(p)
<1>. DEFINE c == Head(p)
            q == Tail(p)
<1>1. /\ c \in Call /\ q \in Seq(Call) /\ Len(q) = Len(p) - 1
      /\ \A i \in 1 .. Len(q) : q[i] = p[i + 1]
  BY HeadTailProperties
<1>2. Len(p) \in Nat /\ 1 \in 1 .. Len(p) /\ c = p[1]
  BY EmptySeq, LenProperties, SMT
<1>. HIDE DEF c, q
<1>3. \A i \in 1 .. Len(q) : i \in Nat /\ i + 1 \in 1 .. Len(p) /\ i + 1 # 1 /\ q[i] = p[i + 1]
  BY <1>1, <1>2
<1>4. \A j \in 1 .. Len(p) : j # 1 => \E i \in 1 .. Len(q) : j = i + 1
  <2>. SUFFICES ASSUME NEW j \in 1 .. Len(p), j # 1 PROVE \E i \in 1 .. Len(q) : j = i + 1
    OBVIOUS
  <2>1. j - 1 \in 1 .. Len(q) /\ j = (j - 1) + 1
    BY <1>1, <1>2
  <2>. QED  BY <2>1
<1>5. \A i \in AnswersIn(q) : i + 1 \in AnswersIn(p) /\ i + 1 # 1 /\ q[i] = p[i + 1] /\ i \in Nat
  BY <1>3 DEF AnswersIn
<1>6. \A i \in FoundIn(q) : i + 1 \in FoundIn(p) /\ i + 1 # 1 /\ q[i] = p[i + 1] /\ i \in Nat
  BY <1>3 DEF FoundIn
<1>7. \A j \in AnswersIn(p) : j # 1 => \E i \in AnswersIn(q) : p[j] = q[i]
  BY <1>3, <1>4 DEF AnswersIn
<1>8. \A j \in FoundIn(p) : j # 1 => \E i \in FoundIn(q) : p[j] = q[i]
  BY <1>3, <1>4 DEF FoundIn
<1>9. (1 \in AnswersIn(p) <=> c.kind # "finished") /\ (1 \in FoundIn(p) <=> c.kind = "found")
  BY <1>2 DEF AnswersIn, FoundIn
<1>10. OneIn(q)
  <2>1. \A i, j \in AnswersIn(q) : q[i].thread = q[j].thread => i + 1 = j + 1
    BY <1>5 DEF OneIn
  <2>2. \A i, j \in FoundIn(q) : q[i].id = q[j].id => i + 1 = j + 1
    BY <1>6 DEF OneIn
  <2>3. \A i, j \in AnswersIn(q) : i + 1 = j + 1 => i = j
    BY <1>5
  <2>4. \A i, j \in FoundIn(q) : i + 1 = j + 1 => i = j
    BY <1>6
  <2>. QED  BY <2>1, <2>2, <2>3, <2>4 DEF OneIn
<1>11. \A i \in FoundIn(q) : q[i].id \in IdsIn(p) /\ q[i].id \notin IdOf(c)
  <2>. SUFFICES ASSUME NEW i \in FoundIn(q) PROVE q[i].id \in IdsIn(p) /\ q[i].id \notin IdOf(c)
    OBVIOUS
  <2>1. q[i].id \in IdsIn(p)
    BY <1>6 DEF IdsIn
  <2>2. c.kind = "found" => p[i + 1].id # p[1].id
    BY <1>6, <1>9 DEF OneIn
  <2>. QED  BY <1>2, <1>6, <2>1, <2>2 DEF IdOf
<1>12. \A j \in FoundIn(p) : p[j].id \in IdsIn(q) \cup IdOf(c)
  BY <1>2, <1>8, <1>9 DEF IdsIn, IdOf
<1>13. IdsIn(q) = IdsIn(p) \ IdOf(c) /\ IdOf(c) \subseteq IdsIn(p)
  <2>1. IdOf(c) \subseteq IdsIn(p)
    BY <1>2, <1>9 DEF IdOf, IdsIn
  <2>2. IdsIn(q) \subseteq IdsIn(p) \ IdOf(c)
    BY <1>11 DEF IdsIn
  <2>3. IdsIn(p) \subseteq IdsIn(q) \cup IdOf(c)
    BY <1>12 DEF IdsIn
  <2>. QED  BY <2>1, <2>2, <2>3
<1>14. ThreadsIn(q) \subseteq ThreadsIn(p) /\ ThreadsIn(p) \subseteq ThreadsIn(q) \cup {c.thread}
  <2>1. \A i \in AnswersIn(q) : q[i].thread \in ThreadsIn(p)
    BY <1>5 DEF ThreadsIn
  <2>2. \A j \in AnswersIn(p) : p[j].thread \in ThreadsIn(q) \cup {c.thread}
    BY <1>2, <1>7 DEF ThreadsIn
  <2>. QED  BY <2>1, <2>2 DEF ThreadsIn
<1>15. ASSUME c.kind = "finished" PROVE ThreadsIn(q) = ThreadsIn(p)
  <2>1. \A j \in AnswersIn(p) : \E i \in AnswersIn(q) : p[j] = q[i]
    BY <1>7, <1>9, <1>15
  <2>. QED  BY <1>14, <2>1 DEF ThreadsIn
<1>16. ASSUME c.kind # "finished"
       PROVE  ThreadsIn(q) = ThreadsIn(p) \ {c.thread} /\ c.thread \in ThreadsIn(p)
  <2>1. c.thread \in ThreadsIn(p)
    BY <1>2, <1>9, <1>16 DEF ThreadsIn
  <2>2. \A i \in AnswersIn(q) : q[i].thread # c.thread
    BY <1>2, <1>5, <1>9, <1>16 DEF OneIn
  <2>3. c.thread \notin ThreadsIn(q)
    BY <2>2 DEF ThreadsIn
  <2>. QED  BY <1>14, <2>1, <2>3
<1>. QED  BY <1>1, <1>10, <1>13, <1>15, <1>16 DEF c, q

-----------------------------------------------------------------------------
(***************************************************************************)
(* The invariant.  Held is kept whatever happens; Open says what the       *)
(* members are like while no answer has crossed: at rest as long as the    *)
(* latest download's search or answer is under way, and with no session    *)
(* but theirs, the searches' and the answers'.                             *)
(***************************************************************************)
Threading ==
    [Threads -> [at : {"unused", "login", "find", "ending", "over"},
                 id : Ids \cup {None}, interrupted : BOOLEAN]]

IdsOf(s) == {s[t].id : t \in Threads} \ {None}

Asking(s, t) == t \in Threads /\ s[t].at \in {"login", "find"}

HasId(s) == \A t \in Threads : s[t].at = "find" <=> s[t].id # None

Held(x, s, p) ==
    /\ FileHeld(x) /\ OneIn(p)
    /\ \A t, u \in Threads : s[t].id # None /\ s[t].id = s[u].id => t = u
    /\ \A t \in Threads : t \in ThreadsIn(p) => s[t].at \in {"ending", "over"}
    /\ x.m_lUserID # None => x.m_lUserID \in x.ids \ (IdsOf(s) \cup IdsIn(p))
    /\ IdsOf(s) \cap IdsIn(p) = {}
    /\ IdsOf(s) \cup IdsIn(p) \subseteq x.ids

Awaits(x, s, p) == Asking(s, x.thread) \/ x.thread \in ThreadsIn(p)

Open(x, s, p) ==
    /\ Resting(x) \/ Fetching(x)
    /\ Awaits(x, s, p) => Resting(x) /\ (x.m_isDownloading \/ x.stopped)
    /\ x.ids \subseteq {x.m_lUserID} \cup IdsOf(s) \cup IdsIn(p)

LeakInv ==
    /\ TypeOK /\ HasId(search)
    /\ ~dl.crossed => Told(dl)
    /\ dialog = "open" => /\ Held(dl, search, posted)
                          /\ ~dl.crossed => Open(dl, search, posted)

\* The parts of the type.
Typed(x, s, p, d) ==
    /\ x \in Members /\ s \in Threading /\ p \in Seq(Call)
    /\ d \in {"open", "closing", "closed"}

LEMMA LeakInvIs ==
    LeakInv <=> /\ Typed(dl, search, posted, dialog) /\ HasId(search)
                /\ ~dl.crossed => Told(dl)
                /\ dialog = "open" => /\ Held(dl, search, posted)
                                      /\ ~dl.crossed => Open(dl, search, posted)
BY DEF LeakInv, TypeOK, Typed, Threading, Told, Bounded

LEMMA LeakInvImplies == LeakInv => NothingLeaks /\ OneTrueAnswer
<1>. SUFFICES ASSUME LeakInv PROVE NothingLeaks /\ OneTrueAnswer
  OBVIOUS
<1>1. OneTrueAnswer
  BY DEF LeakInv, Told, Refusals, OneTrueAnswer
<1>2. SearchIds = IdsOf(search) /\ PostedIds = IdsIn(posted) /\ FoundAt = FoundIn(posted)
  BY DEF SearchIds, IdsOf, PostedIds, IdsIn, FoundAt, FoundIn
<1>3. ASSUME dialog = "open" PROVE NothingLeaks
  <2>1. Held(dl, search, posted) /\ dl \in Members
    BY <1>3 DEF LeakInv, TypeOK
  <2>2. HeldOnce
    <3>1. UserIds \cap (SearchIds \cup PostedIds) = {} /\ SearchIds \cap PostedIds = {}
      BY <1>2, <2>1 DEF Held, UserIds
    <3>2. \A i, j \in FoundAt : posted[i].id = posted[j].id => i = j
      BY <1>2, <2>1 DEF Held, OneIn
    <3>. QED  BY <2>1, <3>1, <3>2 DEF Held, HeldOnce
  <2>3. /\ UserIds \cup SearchIds \cup PostedIds \subseteq dl.ids
        /\ {dl.m_lFileHandle} \ {None} \subseteq dl.files
    BY <1>2, <2>1 DEF Held, FileHeld, UserIds
  <2>4. ASSUME ~dl.crossed
        PROVE  /\ dl.ids = UserIds \cup SearchIds \cup PostedIds
               /\ dl.files = {dl.m_lFileHandle} \ {None}
               /\ dl.files # {} => UserIds # {} /\ dl.timer /\ dl.ffmpeg = "idle"
               /\ ~dl.m_isDownloading =>
                    UserIds = {} /\ dl.files = {} /\ ~dl.timer /\ dl.ffmpeg = "idle"
    <3>1. Open(dl, search, posted)
      BY <1>3, <2>4 DEF LeakInv
    <3>2. None \notin dl.ids
      BY <2>1, DownloaderAssumption DEF Members
    <3>3. dl.ids = UserIds \cup SearchIds \cup PostedIds
      BY <1>2, <2>3, <3>1, <3>2 DEF Open, UserIds
    <3>4. Resting(dl) \/ Fetching(dl)
      BY <3>1 DEF Open
    <3>5. CASE Resting(dl)
      BY <3>3, <3>5 DEF Resting, UserIds
    <3>6. CASE Fetching(dl)
      BY <3>3, <3>6 DEF Fetching, Running, UserIds
    <3>. QED  BY <3>4, <3>5, <3>6
  <2>. QED  BY <2>2, <2>3, <2>4 DEF NothingLeaks
<1>. QED  BY <1>1, <1>3 DEF NothingLeaks

LEMMA InitLeak == Init => LeakInv
<1>. SUFFICES ASSUME Init PROVE LeakInv
  OBVIOUS
<1>1. 0 \in 0 .. MaxSegments /\ 0 <= MaxSegments /\ << >> \in Seq(BOOLEAN) /\ << >> \in Seq(Call)
  BY DownloaderAssumption, EmptySeq
<1>2. dl \in Members
  BY <1>1 DEF Init, Members
<1>3. /\ Resting(dl) /\ dl.ids = {} /\ dl.thread = None /\ dl.answers = << >> /\ ~dl.refused
      /\ ~dl.m_isDownloading /\ Bounded(dl)
  BY <1>1 DEF Init, Resting, Bounded
<1>4. Told(dl)
  <2>1. Len(dl.answers) = 0 /\ Len(Refusals(dl)) = 0
    BY <1>3 DEF Refusals
  <2>. QED  BY <1>3, <2>1 DEF Told
<1>5. search \in Threading /\ \A t \in Threads : search[t].at = "unused" /\ search[t].id = None
  BY DEF Init, Threading
<1>6. IdsOf(search) = {} /\ HasId(search) /\ \A t : ~Asking(search, t)
  BY <1>5 DEF IdsOf, HasId, Asking
<1>7. Held(dl, search, posted) /\ Open(dl, search, posted)
  BY <1>3, <1>5, <1>6, NothingIn DEF Init, Held, Open, Awaits, FileHeld, Resting
<1>. QED  BY <1>1, <1>2, <1>4, <1>5, <1>6, <1>7, LeakInvIs DEF Init, Typed

-----------------------------------------------------------------------------
(***************************************************************************)
(* The steps of the members alone.                                         *)
(***************************************************************************)
\* Whatever the member does with its session, nobody else is given it.
LEMMA GivesHeld ==
    ASSUME NEW x \in Members, NEW y, NEW s, NEW p, Gives(x, y), Held(x, s, p)
    PROVE  Held(y, s, p)
<1>1. FileHeld(y)
  BY DEF Gives, Held
<1>2. None \notin x.ids
  BY DownloaderAssumption DEF Members
<1>3. x.m_lUserID \notin IdsOf(s) \cup IdsIn(p)
  <2>1. CASE x.m_lUserID = None
    BY <1>2, <2>1 DEF Held
  <2>2. CASE x.m_lUserID # None
    BY <2>2 DEF Held
  <2>. QED  BY <2>1, <2>2
<1>4. IdsOf(s) \cup IdsIn(p) \subseteq y.ids
  <2>1. IdsOf(s) \cup IdsIn(p) \subseteq x.ids
    BY DEF Held
  <2>2. y.ids = x.ids \/ y.ids = x.ids \ {x.m_lUserID}
    BY DEF Gives
  <2>. QED  BY <1>3, <2>1, <2>2
<1>5. y.m_lUserID # None => y.m_lUserID \in y.ids \ (IdsOf(s) \cup IdsIn(p))
  <2>1. x.m_lUserID # None => x.m_lUserID \in x.ids
    BY DEF Held
  <2>2. y.m_lUserID # None => y.m_lUserID = x.m_lUserID /\ y.ids = x.ids
    BY DEF Gives
  <2>. QED  BY <1>3, <2>1, <2>2
<1>. QED  BY <1>1, <1>4, <1>5 DEF Held

LEMMA MembersStep ==
    ASSUME NEW x \in Members, NEW y, NEW s, NEW p, Gives(x, y), Open(x, s, p),
           \/ GoesOn(x, y) /\ Fetching(x)
           \/ IsOver(x, y) /\ (Fetching(x) \/ y.stopped)
    PROVE  Open(y, s, p)
<1>1. CASE Fetching(x)
  <2>1. ~Awaits(x, s, p)
    BY <1>1 DEF Open, Fetching, Running, Resting
  <2>2. ~Awaits(y, s, p)
    BY <2>1 DEF Awaits, Gives
  <2>. QED  BY <2>2 DEF Open, GoesOn, IsOver
<1>2. CASE IsOver(x, y) /\ y.stopped
  BY <1>2 DEF Open, IsOver
<1>. QED  BY <1>1, <1>2

\* A step of the members alone.
LEMMA MembersKeep ==
    ASSUME LeakInv, Gives(dl, dl'), UNCHANGED <<posted, dialog>>,
           search' \in Threading,
           \A u \in Threads : search'[u].at = search[u].at /\ search'[u].id = search[u].id,
           ~dl.crossed => Told(dl'),
           ~dl.crossed /\ dialog = "open" => Open(dl', search, posted)
    PROVE  LeakInv'
<1>1. /\ dl \in Members /\ posted \in Seq(Call) /\ HasId(search)
      /\ dialog \in {"open", "closing", "closed"}
  BY LeakInvIs DEF Typed
<1>2. HasId(search') /\ IdsOf(search') = IdsOf(search) /\ \A t : Asking(search', t) <=> Asking(search, t)
  BY <1>1 DEF HasId, IdsOf, Asking
<1>3. ASSUME dialog = "open" PROVE Held(dl', search', posted')
  <2>1. Held(dl', search, posted)
    BY <1>1, <1>3, GivesHeld DEF LeakInv
  <2>. QED  BY <1>2, <2>1 DEF Held
<1>4. ASSUME dialog = "open", ~dl.crossed PROVE Open(dl', search', posted')
  BY <1>2, <1>4 DEF Open, Awaits
<1>5. dl' \in Members /\ dl'.crossed = dl.crossed
  BY DEF Gives
<1>. QED  BY <1>1, <1>2, <1>3, <1>4, <1>5, LeakInvIs DEF LeakInv, TypeOK, Threading, Told, Bounded

LEMMA InterruptsKeeps ==
    ASSUME search \in Threading, NEW t \in Threads \cup {None}, Interrupts(t)
    PROVE  /\ search' \in Threading
           /\ \A u \in Threads : search'[u].at = search[u].at /\ search'[u].id = search[u].id
<1>1. CASE t = None
  BY <1>1 DEF Interrupts
<1>2. CASE t # None
  <2>1. t \in Threads /\ search' = [search EXCEPT ![t].interrupted = TRUE]
    BY <1>2 DEF Interrupts
  <2>. QED  BY <2>1 DEF Threading
<1>. QED  BY <1>1, <1>2

LEMMA StopDownloadKeeps == LeakInv /\ StopDownload => LeakInv'
<1>. SUFFICES ASSUME LeakInv, StopDownload PROVE LeakInv'
  OBVIOUS
<1>1. /\ dl \in Members /\ search \in Threading /\ dl' = Stopped(dl)
      /\ Interrupts(dl.m_searchThread) /\ dl.m_searchThread \in Threads \cup {None}
      /\ UNCHANGED <<posted, dialog>>
  BY LeakInvIs DEF StopDownload, Typed, Members
<1>2. Gives(dl, dl')
  BY <1>1, StoppedGives
<1>3. ASSUME ~dl.crossed PROVE Told(dl') /\ Open(dl', search, posted)
  <2>1. Open(dl, search, posted) /\ Told(dl)
    BY <1>3 DEF LeakInv, StopDownload
  <2>2. IsOver(dl, dl') /\ dl'.stopped
    BY <1>1, <2>1, StoppedDoes DEF Open
  <2>. QED  BY <1>1, <1>2, <2>1, <2>2, MembersStep DEF IsOver
<1>. QED  BY <1>1, <1>2, <1>3, MembersKeep, InterruptsKeeps

LEMMA DestroyKeeps == LeakInv /\ Destroy => LeakInv'
<1>. SUFFICES ASSUME LeakInv, Destroy PROVE LeakInv'
  OBVIOUS
<1>1. /\ Typed(dl, search, posted, dialog) /\ HasId(search) /\ dialog = "open"
      /\ dl \in Members /\ search \in Threading
      /\ Interrupts(dl.m_searchThread) /\ dl.m_searchThread \in Threads \cup {None}
      /\ posted' = posted /\ dialog' = "closing"
      /\ ~dl.crossed => Told(dl) /\ Open(dl, search, posted)
  BY LeakInvIs DEF Destroy, Typed, Members
<1>2. dl' \in Members /\ dl'.crossed = dl.crossed /\ (~dl.crossed => Told(dl'))
  <2>1. CASE dl.m_isDownloading
    <3>1. dl' = Stopped(dl)
      BY <2>1 DEF Destroy
    <3>. QED  BY <1>1, <3>1, StoppedGives, StoppedDoes DEF Open, Gives, IsOver
  <2>2. CASE ~dl.m_isDownloading
    BY <1>1, <2>2 DEF Destroy
  <2>. QED  BY <2>1, <2>2
<1>3. /\ search' \in Threading
      /\ \A u \in Threads : search'[u].at = search[u].at /\ search'[u].id = search[u].id
  BY <1>1, InterruptsKeeps
<1>4. HasId(search')
  BY <1>1, <1>3 DEF HasId
<1>. QED  BY <1>1, <1>2, <1>3, <1>4, LeakInvIs DEF LeakInv, TypeOK, Threading, Told, Bounded, Typed

LEMMA DestroyedKeeps == LeakInv /\ Destroyed => LeakInv'
BY EmptySeq DEF LeakInv, TypeOK, Destroyed, HasId, Told, Bounded, Refusals

LEMMA CheckProgressKeeps == LeakInv /\ CheckProgress => LeakInv'
<1>. SUFFICES ASSUME LeakInv, CheckProgress PROVE LeakInv'
  OBVIOUS
<1>1. /\ dl \in Members /\ search \in Threading /\ dialog = "open"
      /\ dl.timer /\ dl.m_lFileHandle # None /\ UNCHANGED <<search, posted, dialog>>
  BY LeakInvIs DEF Typed, CheckProgress
<1>2. Progresses(dl, dl')
  BY CheckProgressIs
<1>3. Gives(dl, dl')
  BY <1>1, <1>2, CheckProgressGives
<1>4. ASSUME ~dl.crossed PROVE Told(dl') /\ Open(dl', search, posted)
  <2>1. Open(dl, search, posted) /\ Fetching(dl)
    BY <1>1, <1>4 DEF LeakInv, Open, Resting
  <2>2. GoesOn(dl, dl') \/ IsOver(dl, dl')
    BY <1>1, <1>2, <2>1, CheckProgressDoes
  <2>. QED  BY <1>1, <1>3, <2>1, <2>2, MembersStep DEF GoesOn, IsOver
<1>. QED  BY <1>1, <1>3, <1>4, MembersKeep

LEMMA FfmpegNoticedKeeps == LeakInv /\ FfmpegNoticed => LeakInv'
<1>. SUFFICES ASSUME LeakInv, FfmpegNoticed PROVE LeakInv'
  OBVIOUS
<1>1. /\ dl \in Members /\ search \in Threading /\ dialog = "open"
      /\ dl.ffmpeg # "idle" /\ UNCHANGED <<search, posted, dialog>>
  BY LeakInvIs DEF Typed, FfmpegNoticed
<1>2. PICK h \in Handles \cup {None} : dl' = OnFfmpegFinished(dl, dl.ffmpeg = "done", h)
  BY <1>1, StartableIn DEF FfmpegNoticed
<1>3. (dl.ffmpeg = "done") \in BOOLEAN
  OBVIOUS
<1>4. Gives(dl, dl')
  BY <1>1, <1>2, <1>3, OnFfmpegFinishedGives
<1>5. ASSUME ~dl.crossed PROVE Told(dl') /\ Open(dl', search, posted)
  <2>1. Open(dl, search, posted) /\ Fetching(dl)
    BY <1>1, <1>5 DEF LeakInv, Open, Resting
  <2>2. GoesOn(dl, dl') \/ IsOver(dl, dl')
    BY <1>1, <1>2, <1>3, <2>1, OnFfmpegFinishedDoes
  <2>. QED  BY <1>1, <1>4, <2>1, <2>2, MembersStep DEF GoesOn, IsOver
<1>. QED  BY <1>1, <1>4, <1>5, MembersKeep

LEMMA FfmpegExitsKeeps == LeakInv /\ FfmpegExits => LeakInv'
<1>. SUFFICES ASSUME LeakInv, FfmpegExits PROVE LeakInv'
  OBVIOUS
<1>1. /\ dl \in Members /\ search \in Threading /\ dl.ffmpeg = "running"
      /\ UNCHANGED <<search, posted, dialog>>
  BY LeakInvIs DEF Typed, FfmpegExits
<1>2. PICK how \in {"done", "failed"} : dl' = [dl EXCEPT !.ffmpeg = how]
  BY DEF FfmpegExits
<1>3. /\ dl' \in Members /\ dl'.ids = dl.ids /\ dl'.m_lUserID = dl.m_lUserID
      /\ dl'.files = dl.files /\ dl'.m_lFileHandle = dl.m_lFileHandle /\ dl'.timer = dl.timer
      /\ dl'.ffmpeg # "idle" /\ dl'.m_isDownloading = dl.m_isDownloading
      /\ dl'.answers = dl.answers /\ dl'.stopped = dl.stopped
      /\ dl'.m_totalSegmentsCount = dl.m_totalSegmentsCount
      /\ dl'.m_convertedSegmentsCount = dl.m_convertedSegmentsCount
      /\ dl'.m_segments = dl.m_segments /\ dl'.m_currentSegmentIndex = dl.m_currentSegmentIndex
      /\ dl'.thread = dl.thread /\ dl'.crossed = dl.crossed /\ dl'.refused = dl.refused
  BY <1>1, <1>2 DEF Members
<1>4. Gives(dl, dl')
  BY <1>3 DEF Gives, FileHeld
<1>5. ASSUME ~dl.crossed PROVE Told(dl')
  BY <1>3, <1>5 DEF LeakInv, Told, Bounded, Refusals
<1>6. ASSUME ~dl.crossed, dialog = "open" PROVE Open(dl', search, posted)
  <2>1. Open(dl, search, posted) /\ Fetching(dl)
    BY <1>1, <1>6 DEF LeakInv, Open, Resting
  <2>2. Fetching(dl')
    BY <1>1, <1>3, <2>1 DEF Fetching, Running, Counted, Refusals
  <2>3. GoesOn(dl, dl')
    BY <1>3, <1>5, <1>6, <2>2 DEF GoesOn
  <2>. QED  BY <1>1, <1>4, <2>1, <2>3, MembersStep
<1>. QED  BY <1>1, <1>4, <1>5, <1>6, MembersKeep

\* A second start is refused, and told so.
LEMMA RefusesDownloadKeeps == LeakInv /\ RefusesDownload => LeakInv'
<1>. SUFFICES ASSUME LeakInv, RefusesDownload PROVE LeakInv'
  OBVIOUS
<1>1. /\ Typed(dl, search, posted, dialog) /\ HasId(search) /\ dialog = "open"
      /\ dl \in Members /\ dl.m_isDownloading /\ ~dl.refused
      /\ UNCHANGED <<search, posted, dialog>>
      /\ Held(dl, search, posted)
      /\ ~dl.crossed => Told(dl) /\ Open(dl, search, posted)
  BY LeakInvIs DEF RefusesDownload, Typed
<1>. DEFINE answers == Append(dl.answers, FALSE)
<1>2. answers \in Seq(BOOLEAN)
  BY <1>1, AppendProperties DEF Members
<1>3. dl' = [dl EXCEPT !.answers = answers, !.refused = TRUE]
  BY DEF RefusesDownload, Answer
<1>. HIDE DEF answers
<1>4. /\ dl' \in Members /\ dl'.ids = dl.ids /\ dl'.m_lUserID = dl.m_lUserID
      /\ dl'.files = dl.files /\ dl'.m_lFileHandle = dl.m_lFileHandle /\ dl'.timer = dl.timer
      /\ dl'.ffmpeg = dl.ffmpeg /\ dl'.m_isDownloading = dl.m_isDownloading
      /\ dl'.answers = answers /\ dl'.stopped = dl.stopped
      /\ dl'.m_totalSegmentsCount = dl.m_totalSegmentsCount
      /\ dl'.m_convertedSegmentsCount = dl.m_convertedSegmentsCount
      /\ dl'.m_segments = dl.m_segments /\ dl'.m_currentSegmentIndex = dl.m_currentSegmentIndex
      /\ dl'.thread = dl.thread /\ dl'.crossed = dl.crossed /\ dl'.refused
  BY <1>1, <1>2, <1>3 DEF Members
<1>5. Held(dl', search, posted)
  BY <1>1, <1>4 DEF Held, FileHeld
<1>6. ASSUME ~dl.crossed PROVE Told(dl') /\ Open(dl', search, posted)
  <2>1. Told(dl) /\ Open(dl, search, posted) /\ dl.answers = << >> /\ ~dl.stopped
    BY <1>1, <1>6 DEF Told, Refusals
  <2>2. dl'.answers = <<FALSE>> /\ Refusals(dl') = <<FALSE>>
    <3>1. Append(<< >>, FALSE) = <<FALSE>>
      OBVIOUS
    <3>. QED  BY <1>4, <2>1, <3>1 DEF Refusals, answers
  <2>3. Told(dl')
    <3>1. Len(Refusals(dl')) \in Nat /\ \A i \in 1 .. Len(Refusals(dl')) : ~Refusals(dl')[i]
      BY RefusalsAre
    <3>. QED  BY <1>4, <2>1, <2>2, <3>1 DEF Told, Bounded
  <2>4. (Resting(dl) => Resting(dl')) /\ (Fetching(dl) => Fetching(dl'))
    BY <1>4, <2>2 DEF Resting, Fetching, Running, Counted
  <2>. QED  BY <1>1, <1>4, <2>1, <2>3, <2>4 DEF Open, Awaits
<1>. QED  BY <1>1, <1>4, <1>5, <1>6, LeakInvIs DEF LeakInv, TypeOK, Threading, Told, Bounded, Typed

-----------------------------------------------------------------------------
(***************************************************************************)
(* The steps that meet the threads and the posted calls.                   *)
(***************************************************************************)
\* y is x but for the search thread it waits for and the mark of a crossing.
Alike(x, y) ==
    /\ y \in Members
    /\ y.ids = x.ids /\ y.m_lUserID = x.m_lUserID /\ y.files = x.files
    /\ y.m_lFileHandle = x.m_lFileHandle /\ y.timer = x.timer /\ y.ffmpeg = x.ffmpeg
    /\ y.m_isDownloading = x.m_isDownloading /\ y.answers = x.answers
    /\ y.stopped = x.stopped /\ y.refused = x.refused /\ y.thread = x.thread
    /\ y.m_totalSegmentsCount = x.m_totalSegmentsCount
    /\ y.m_convertedSegmentsCount = x.m_convertedSegmentsCount
    /\ y.m_segments = x.m_segments /\ y.m_currentSegmentIndex = x.m_currentSegmentIndex

LEMMA AlikeKeeps ==
    ASSUME NEW x, NEW y, Alike(x, y), NEW s, NEW p
    PROVE  /\ Told(x) => Told(y)
           /\ Held(x, s, p) => Held(y, s, p)
           /\ Open(x, s, p) => Open(y, s, p)
<1>1. (Resting(x) => Resting(y)) /\ (Fetching(x) => Fetching(y))
  BY DEF Alike, Resting, Fetching, Running, Counted, Refusals
<1>2. Told(x) => Told(y)
  BY DEF Alike, Told, Bounded, Refusals
<1>3. Held(x, s, p) => Held(y, s, p)
  BY DEF Alike, Held, FileHeld
<1>. QED  BY <1>1, <1>2, <1>3 DEF Alike, Open, Awaits

LEMMA ThreadFinishedDoes ==
    ASSUME dl \in Members, NEW t
    PROVE  Alike(dl, ThreadFinished(t)) /\ ThreadFinished(t).crossed = dl.crossed
<1>. DEFINE y == ThreadFinished(t)
            u == IF dl.m_searchThread = t THEN None ELSE dl.m_searchThread
<1>1. y = [dl EXCEPT !.m_searchThread = u] /\ u \in Threads \cup {None}
  BY DEF ThreadFinished, Members
<1>. HIDE DEF y, u
<1>2. y \in Members /\ y.crossed = dl.crossed
  BY <1>1 DEF Members
<1>3. Alike(dl, y)
  BY <1>1, <1>2 DEF Members, Alike
<1>. QED  BY <1>2, <1>3 DEF y

\* The history's mark.
Marked(x, b) == [x EXCEPT !.crossed = b]

LEMMA MarkedDoes ==
    ASSUME NEW x \in Members, NEW b \in BOOLEAN
    PROVE  Alike(x, Marked(x, b)) /\ Marked(x, b).crossed = b
<1>. DEFINE y == Marked(x, b)
<1>1. y = [x EXCEPT !.crossed = b]
  BY DEF Marked
<1>. HIDE DEF y
<1>2. y \in Members /\ y.crossed = b
  BY <1>1 DEF Members
<1>3. Alike(x, y)
  BY <1>1, <1>2 DEF Members, Alike
<1>. QED  BY <1>2, <1>3 DEF y

LEMMA StartDownloadKeeps ==
    ASSUME LeakInv, NEW t \in Threads, StartDownload(t) PROVE LeakInv'
<1>1. /\ Typed(dl, search, posted, dialog) /\ dl \in Members /\ search \in Threading
      /\ HasId(search) /\ Held(dl, search, posted) /\ dialog = "open"
      /\ ~dl.crossed => Told(dl) /\ Open(dl, search, posted)
      /\ ~dl.m_isDownloading /\ search[t].at = "unused" /\ UNCHANGED <<posted, dialog>>
  BY LeakInvIs DEF StartDownload, Typed
<1>2. << >> \in Seq(BOOLEAN) /\ Len(<< >>) = 0
  BY EmptySeq
<1>3. dl' = [dl EXCEPT !.m_isDownloading = TRUE, !.m_searchThread = t, !.thread = t,
                       !.answers = << >>, !.stopped = FALSE, !.refused = FALSE]
  BY DEF StartDownload
<1>4. /\ dl' \in Members /\ dl'.ids = dl.ids /\ dl'.m_lUserID = dl.m_lUserID
      /\ dl'.files = dl.files /\ dl'.m_lFileHandle = dl.m_lFileHandle /\ dl'.timer = dl.timer
      /\ dl'.ffmpeg = dl.ffmpeg /\ dl'.m_isDownloading /\ dl'.answers = << >>
      /\ ~dl'.stopped /\ ~dl'.refused /\ dl'.crossed = dl.crossed
      /\ dl'.m_convertedSegmentsCount = dl.m_convertedSegmentsCount
      /\ dl'.m_currentSegmentIndex = dl.m_currentSegmentIndex
  BY <1>1, <1>2, <1>3 DEF Members
<1>5. /\ search' \in Threading
      /\ \A u \in Threads : search'[u].id = search[u].id
      /\ \A u \in Threads : search'[u].at = IF u = t THEN "login" ELSE search[u].at
  <2>1. search' = [search EXCEPT ![t].at = "login"]
    BY DEF StartDownload
  <2>. QED  BY <1>1, <2>1 DEF Threading
<1>6. HasId(search') /\ IdsOf(search') = IdsOf(search)
  BY <1>1, <1>5 DEF HasId, IdsOf
<1>7. Held(dl', search', posted')
  <2>1. t \notin ThreadsIn(posted)
    BY <1>1 DEF Held
  <2>2. \A u \in Threads : u \in ThreadsIn(posted) => search'[u].at \in {"ending", "over"}
    BY <1>1, <1>5, <2>1 DEF Held
  <2>. QED  BY <1>1, <1>4, <1>5, <1>6, <2>2 DEF Held, FileHeld
<1>8. ASSUME ~dl.crossed PROVE Told(dl') /\ Open(dl', search', posted')
  <2>1. Resting(dl) /\ Told(dl) /\ dl.ids \subseteq {dl.m_lUserID} \cup IdsOf(search) \cup IdsIn(posted)
    BY <1>1, <1>8 DEF Open, Fetching, Running
  <2>2. Resting(dl')
    BY <1>4, <2>1 DEF Resting
  <2>3. Told(dl')
    BY <1>2, <1>4, <2>1 DEF Told, Bounded, Refusals
  <2>. QED  BY <1>1, <1>4, <1>6, <2>1, <2>2, <2>3 DEF Open
<1>. QED  BY <1>1, <1>4, <1>5, <1>6, <1>7, <1>8, LeakInvIs DEF LeakInv, TypeOK, Threading, Told, Bounded, Typed

\* What an answer leaves of the invariant, whatever download it is for.
LEMMA AnswerKeeps ==
    ASSUME LeakInv, dialog = "open", posted # << >>, Head(posted).kind # "finished",
           NEW x, x \in Taken(Head(posted))
    PROVE  /\ x \in Members /\ x.crossed = dl.crossed
           /\ Held(x, search, Tail(posted))
           /\ ~dl.crossed /\ ~Crosses(Head(posted)) => Told(x) /\ Open(x, search, Tail(posted))
<1>. DEFINE call == Head(posted)
            rest == Tail(posted)
<1>1. /\ dl \in Members /\ search \in Threading /\ posted \in Seq(Call)
      /\ HasId(search) /\ Held(dl, search, posted)
      /\ ~dl.crossed => Told(dl) /\ Open(dl, search, posted)
  BY LeakInvIs DEF Typed
<1>2. /\ call \in Call /\ rest \in Seq(Call) /\ OneIn(rest)
      /\ IdsIn(rest) = IdsIn(posted) \ IdOf(call) /\ IdOf(call) \subseteq IdsIn(posted)
      /\ ThreadsIn(rest) = ThreadsIn(posted) \ {call.thread} /\ call.thread \in ThreadsIn(posted)
  BY <1>1, RestHas DEF Held
<1>. HIDE DEF call, rest
<1>3. call.thread \in Threads /\ (call.kind = "loginFailed" \/ call.kind = "found")
  BY <1>2 DEF Call, call
<1>4. ~Asking(search, call.thread)
  BY <1>1, <1>2, <1>3 DEF Held, Asking
<1>5. ASSUME ~dl.crossed, ~Crosses(call)
      PROVE  /\ Resting(dl)
             /\ call.kind = "loginFailed" => dl.m_isDownloading \/ dl.stopped
             /\ dl.thread = call.thread => ~Awaits(dl, search, rest)
             /\ dl.thread # call.thread => dl.stopped \/ ~dl.m_isDownloading
             /\ Awaits(dl, search, rest) => Awaits(dl, search, posted)
  <2>1. CASE dl.thread = call.thread
    <3>1. Awaits(dl, search, posted)
      BY <1>2, <2>1 DEF Awaits
    <3>. QED  BY <1>1, <1>2, <1>4, <1>5, <2>1, <3>1 DEF Open, Awaits
  <2>2. CASE dl.thread # call.thread
    <3>1. dl.stopped \/ ~dl.m_isDownloading
      BY <1>3, <1>5, <2>2 DEF Crosses
    <3>2. call.kind = "loginFailed" => dl.stopped
      BY <1>3, <1>5, <2>2 DEF Crosses
    <3>3. Resting(dl)
      BY <1>1, <1>5, <3>1 DEF Open, Told, Fetching, Running
    <3>. QED  BY <1>2, <2>2, <3>1, <3>2, <3>3 DEF Awaits
  <2>. QED  BY <2>1, <2>2
<1>6. CASE call.kind = "loginFailed"
  <2>1. x = LoginFailed
    BY <1>6 DEF Taken, call
  <2>2. IdOf(call) = {}
    BY <1>6 DEF IdOf
  <2>3. /\ Gives(dl, x) /\ x.ids = dl.ids /\ x.m_lUserID = dl.m_lUserID
        /\ ~x.m_isDownloading /\ x.stopped = dl.stopped
        /\ Resting(dl) => Resting(x)
        /\ Told(dl) /\ (dl.m_isDownloading \/ dl.stopped) => Told(x)
    BY <1>1, <2>1, LoginFailedDoes
  <2>4. Held(x, search, posted)
    BY <1>1, <2>3, GivesHeld
  <2>5. Held(x, search, rest)
    BY <1>2, <2>2, <2>4 DEF Held
  <2>6. ASSUME ~dl.crossed, ~Crosses(call) PROVE Told(x) /\ Open(x, search, rest)
    <3>1. Resting(x) /\ Told(x)
      BY <1>1, <1>5, <1>6, <2>3, <2>6
    <3>2. Awaits(x, search, rest) => Awaits(dl, search, rest) /\ dl.thread # call.thread
      BY <1>5, <2>3, <2>6 DEF Gives, Awaits
    <3>3. Awaits(x, search, rest) => x.stopped
      BY <1>1, <1>5, <2>3, <2>6, <3>2 DEF Open, Told
    <3>. QED  BY <1>1, <1>2, <2>2, <2>3, <2>6, <3>1, <3>3 DEF Open
  <2>. QED  BY <2>3, <2>5, <2>6 DEF Gives, call, rest
<1>7. CASE call.kind = "found"
  <2>1. call.id \in Ids /\ call.segments \in 0 .. MaxSegments /\ IdOf(call) = {call.id}
    BY <1>2, <1>7 DEF Call, IdOf
  <2>2. PICK h \in Handles \cup {None} : x = Found(dl, call.id, call.segments, h)
    BY <1>7 DEF Taken, call
  <2>3. /\ x \in Members /\ (FileHeld(dl) => FileHeld(x)) /\ Takes(dl, x, call.id)
        /\ x.thread = dl.thread /\ x.crossed = dl.crossed
    BY <1>1, <2>1, <2>2, FoundTakes
  <2>4. call.id \notin IdsOf(search) /\ call.id \notin IdsIn(rest) /\ call.id \in dl.ids
    BY <1>1, <1>2, <2>1 DEF Held
  <2>5. IdsOf(search) \cup IdsIn(rest) \subseteq x.ids
    BY <1>1, <1>2, <2>3, <2>4 DEF Held, Takes
  <2>6. x.m_lUserID # None => x.m_lUserID \in x.ids \ (IdsOf(search) \cup IdsIn(rest))
    <3>1. dl.m_lUserID # None => dl.m_lUserID \in dl.ids \ (IdsOf(search) \cup IdsIn(posted))
      BY <1>1 DEF Held
    <3>2. dl.m_lUserID # call.id \/ dl.m_lUserID = None
      BY <1>2, <2>1, <3>1
    <3>. QED  BY <1>2, <2>3, <2>4, <3>1, <3>2 DEF Takes
  <2>7. Held(x, search, rest)
    BY <1>1, <1>2, <2>3, <2>5, <2>6 DEF Held
  <2>8. ASSUME ~dl.crossed, ~Crosses(call) PROVE Told(x) /\ Open(x, search, rest)
    <3>1. Resting(dl) /\ Told(dl)
      BY <1>1, <1>5, <2>8
    <3>2. /\ Told(x)
          /\ \/ Fetching(x) /\ x.ids = dl.ids /\ x.m_lUserID = call.id
             \/ Resting(x) /\ ~x.m_isDownloading /\ x.ids = dl.ids \ {call.id}
          /\ ~dl.m_isDownloading => x.stopped = dl.stopped /\ ~x.m_isDownloading
      BY <1>1, <2>1, <2>2, <3>1, FoundDoes
    <3>3. dl.m_lUserID = None /\ None \notin dl.ids
      BY <1>1, <3>1, DownloaderAssumption DEF Resting, Members
    <3>4. x.ids \subseteq {x.m_lUserID} \cup IdsOf(search) \cup IdsIn(rest)
      <4>1. dl.ids \subseteq IdsOf(search) \cup IdsIn(posted)
        BY <1>1, <2>8, <3>3 DEF Open
      <4>2. dl.ids \subseteq {call.id} \cup IdsOf(search) \cup IdsIn(rest)
        BY <1>2, <2>1, <4>1
      <4>. QED  BY <3>2, <4>2
    <3>5. Awaits(x, search, rest) => Awaits(dl, search, rest) /\ dl.thread # call.thread
      BY <1>5, <2>3, <2>8 DEF Awaits
    <3>6. Awaits(x, search, rest) => ~dl.m_isDownloading /\ dl.stopped
      BY <1>1, <1>5, <2>8, <3>1, <3>5 DEF Open, Told
    <3>7. Awaits(x, search, rest) => Resting(x) /\ x.stopped
      BY <3>2, <3>6 DEF Fetching, Running
    <3>. QED  BY <3>2, <3>4, <3>7 DEF Open
  <2>. QED  BY <2>3, <2>7, <2>8 DEF call, rest
<1>. QED  BY <1>3, <1>6, <1>7

LEMMA DeliversKeeps == LeakInv /\ Delivers => LeakInv'
<1>. SUFFICES ASSUME LeakInv, Delivers PROVE LeakInv'
  OBVIOUS
<1>. DEFINE call == Head(posted)
            rest == Tail(posted)
<1>1. /\ dl \in Members /\ search \in Threading /\ posted \in Seq(Call)
      /\ HasId(search) /\ dialog = "open" /\ posted # << >>
      /\ Held(dl, search, posted)
      /\ ~dl.crossed => Told(dl) /\ Open(dl, search, posted)
      /\ posted' = rest /\ UNCHANGED <<search, dialog>>
  BY LeakInvIs DEF Typed, Delivers
<1>2. rest \in Seq(Call) /\ call \in Call
  BY <1>1, RestHas DEF Held
<1>3. PICK x \in Taken(call) : dl' = Marked(x, x.crossed \/ Crosses(call))
  BY DEF Delivers, Marked
<1>4. /\ x \in Members /\ x.crossed = dl.crossed /\ Held(x, search, rest)
      /\ ~dl.crossed /\ ~Crosses(call) => Told(x) /\ Open(x, search, rest)
  <2>1. CASE call.kind # "finished"
    BY <1>1, <2>1, AnswerKeeps
  <2>2. CASE call.kind = "finished"
    <3>1. x = ThreadFinished(call.thread)
      BY <2>2 DEF Taken
    <3>2. Alike(dl, x) /\ x.crossed = dl.crossed
      BY <1>1, <3>1, ThreadFinishedDoes
    <3>3. OneIn(rest) /\ IdsIn(rest) = IdsIn(posted) /\ ThreadsIn(rest) = ThreadsIn(posted)
      <4>1. IdOf(call) = {}
        BY <2>2 DEF IdOf
      <4>. QED  BY <1>1, <2>2, <4>1, RestHas DEF Held
    <3>4. /\ Held(dl, search, rest)
          /\ ~dl.crossed => Told(dl) /\ Open(dl, search, rest)
      BY <1>1, <3>3 DEF Held, Open, Awaits
    <3>. QED  BY <3>2, <3>4, AlikeKeeps DEF Alike
  <2>. QED  BY <2>1, <2>2
<1>. DEFINE b == x.crossed \/ Crosses(call)
<1>5. b \in BOOLEAN
  OBVIOUS
<1>6. Alike(x, dl') /\ dl'.crossed = b
  BY <1>3, <1>4, <1>5, MarkedDoes
<1>. HIDE DEF call, rest
<1>7. /\ dl' \in Members /\ Held(dl', search, rest)
      /\ ~dl'.crossed => Told(dl') /\ Open(dl', search, rest)
  BY <1>4, <1>6, AlikeKeeps DEF Alike
<1>. QED  BY <1>1, <1>2, <1>7 DEF LeakInv, TypeOK, Threading, Told, Bounded

\* A thread's login takes an id that is not open; or it answers, as its only time.
LEMMA LogsInKeeps ==
    ASSUME LeakInv, NEW t \in Threads, LogsIn(t) PROVE LeakInv'
<1>1. /\ Typed(dl, search, posted, dialog) /\ dl \in Members /\ search \in Threading
      /\ posted \in Seq(Call) /\ HasId(search) /\ search[t].at = "login" /\ UNCHANGED dialog
      /\ ~dl.crossed => Told(dl)
      /\ dialog = "open" => /\ Held(dl, search, posted)
                            /\ ~dl.crossed => Open(dl, search, posted)
  BY LeakInvIs DEF Typed, LogsIn
<1>2. search[t].id = None
  BY <1>1 DEF HasId
<1>3. CASE /\ search' = [search EXCEPT ![t].at = "ending"]
           /\ Posts([kind |-> "loginFailed", thread |-> t]) /\ UNCHANGED dl
  <2>. DEFINE c == [kind |-> "loginFailed", thread |-> t]
  <2>1. c \in Call /\ c.kind = "loginFailed" /\ c.thread = t /\ IdOf(c) = {}
    BY DEF Call, IdOf
  <2>2. posted' = IF dialog = "closed" THEN posted ELSE Append(posted, c)
    BY <1>3 DEF Posts
  <2>. HIDE DEF c
  <2>3. posted' \in Seq(Call)
    BY <1>1, <2>1, <2>2, AppendProperties
  <2>4. /\ search' \in Threading /\ \A u \in Threads : search'[u].id = search[u].id
        /\ \A u \in Threads : search'[u].at = IF u = t THEN "ending" ELSE search[u].at
    BY <1>1, <1>3 DEF Threading
  <2>5. HasId(search') /\ IdsOf(search') = IdsOf(search)
    BY <1>1, <1>2, <2>4 DEF HasId, IdsOf
  <2>6. ASSUME dialog = "open"
        PROVE  /\ Held(dl, search', posted')
               /\ ~dl.crossed => Open(dl, search', posted')
    <3>1. Held(dl, search, posted) /\ posted' = Append(posted, c)
      BY <1>1, <2>2, <2>6
    <3>2. t \notin ThreadsIn(posted)
      BY <1>1, <3>1 DEF Held
    <3>3. OneIn(posted') /\ ThreadsIn(posted') = ThreadsIn(posted) \cup {t} /\ IdsIn(posted') = IdsIn(posted)
      <4>1. OneIn(posted) /\ c.kind # "finished" /\ c.kind # "found" /\ c.thread \notin ThreadsIn(posted)
        BY <2>1, <3>1, <3>2 DEF Held
      <4>2. /\ OneIn(posted') /\ ThreadsIn(posted') = ThreadsIn(posted) \cup {c.thread}
            /\ IdsIn(posted') = IdsIn(posted) \cup IdOf(c)
        BY <1>1, <2>1, <3>1, <4>1, AnswerHas
      <4>. QED  BY <2>1, <4>2
    <3>4. \A u \in Threads : u \in ThreadsIn(posted') => search'[u].at \in {"ending", "over"}
      BY <2>4, <3>1, <3>3 DEF Held
    <3>5. Held(dl, search', posted')
      BY <2>4, <2>5, <3>1, <3>3, <3>4 DEF Held
    <3>6. Awaits(dl, search', posted') => Awaits(dl, search, posted)
      BY <1>1, <2>4, <3>3 DEF Awaits, Asking
    <3>. QED  BY <1>1, <2>5, <2>6, <3>3, <3>5, <3>6 DEF Open
  <2>. QED  BY <1>1, <1>3, <2>3, <2>4, <2>5, <2>6 DEF LeakInv, TypeOK, Threading, Told, Bounded, Typed
<1>4. ASSUME NEW id \in Ids \ dl.ids,
             dl' = [dl EXCEPT !.ids = @ \cup {id}],
             search' = [search EXCEPT ![t].at = "find", ![t].id = id], UNCHANGED posted
      PROVE  LeakInv'
  <2>1. /\ dl' \in Members /\ dl'.ids = dl.ids \cup {id} /\ dl'.m_lUserID = dl.m_lUserID
        /\ dl'.files = dl.files /\ dl'.m_lFileHandle = dl.m_lFileHandle /\ dl'.timer = dl.timer
        /\ dl'.ffmpeg = dl.ffmpeg /\ dl'.m_isDownloading = dl.m_isDownloading
        /\ dl'.answers = dl.answers /\ dl'.stopped = dl.stopped /\ dl'.refused = dl.refused
        /\ dl'.m_totalSegmentsCount = dl.m_totalSegmentsCount
        /\ dl'.m_convertedSegmentsCount = dl.m_convertedSegmentsCount
        /\ dl'.m_segments = dl.m_segments /\ dl'.m_currentSegmentIndex = dl.m_currentSegmentIndex
        /\ dl'.thread = dl.thread /\ dl'.crossed = dl.crossed
    BY <1>1, <1>4 DEF Members
  <2>2. /\ search' \in Threading
        /\ \A u \in Threads : search'[u].id = IF u = t THEN id ELSE search[u].id
        /\ \A u \in Threads : search'[u].at = IF u = t THEN "find" ELSE search[u].at
    BY <1>1, <1>4 DEF Threading
  <2>3. id # None
    BY DownloaderAssumption
  <2>4. HasId(search') /\ IdsOf(search') = IdsOf(search) \cup {id}
    <3>1. HasId(search')
      BY <1>1, <2>2, <2>3 DEF HasId
    <3>2. IdsOf(search') \subseteq IdsOf(search) \cup {id}
      BY <2>2 DEF IdsOf
    <3>3. IdsOf(search) \subseteq IdsOf(search') /\ id \in IdsOf(search')
      <4>1. \A u \in Threads : search[u].id # None => search'[u].id = search[u].id
        BY <1>2, <2>2
      <4>2. search'[t].id = id
        BY <2>2
      <4>. QED  BY <2>3, <4>1, <4>2 DEF IdsOf
    <3>. QED  BY <3>1, <3>2, <3>3
  <2>5. ~dl.crossed => Told(dl')
    BY <1>1, <2>1 DEF Told, Bounded, Refusals
  <2>6. ASSUME dialog = "open"
        PROVE  /\ Held(dl', search', posted)
               /\ ~dl.crossed => Open(dl', search', posted)
    <3>1. /\ Held(dl, search, posted) /\ t \notin ThreadsIn(posted)
      BY <1>1, <2>6 DEF Held
    <3>2. \A u \in Threads : search[u].id # None => search[u].id # id
      BY <3>1 DEF Held, IdsOf
    <3>3. \A u, v \in Threads : search'[u].id # None /\ search'[u].id = search'[v].id => u = v
      BY <2>2, <2>3, <3>1, <3>2 DEF Held
    <3>4. id \notin IdsIn(posted) /\ id # dl.m_lUserID
      BY <2>3, <3>1 DEF Held
    <3>5. \A u \in Threads : u \in ThreadsIn(posted) => search'[u].at \in {"ending", "over"}
      BY <2>2, <3>1 DEF Held
    <3>6. Held(dl', search', posted)
      BY <2>1, <2>4, <3>1, <3>3, <3>4, <3>5 DEF Held, FileHeld
    <3>7. \A u : Asking(search', u) <=> Asking(search, u)
      BY <1>1, <2>2 DEF Asking
    <3>8. ASSUME ~dl.crossed PROVE Open(dl', search', posted)
      <4>1. Open(dl, search, posted)
        BY <1>1, <2>6, <3>8
      <4>2. (Resting(dl) => Resting(dl')) /\ (Fetching(dl) => Fetching(dl'))
        BY <2>1 DEF Resting, Fetching, Running, Counted, Refusals
      <4>. QED  BY <2>1, <2>4, <3>7, <4>1, <4>2 DEF Open, Awaits
    <3>. QED  BY <3>6, <3>8
  <2>. QED  BY <1>1, <1>4, <2>1, <2>2, <2>4, <2>5, <2>6 DEF LeakInv, TypeOK, Threading, Told, Bounded, Typed
<1>. QED  BY <1>3, <1>4 DEF LogsIn

\* Its answer takes the id along.
LEMMA FindsKeeps ==
    ASSUME LeakInv, NEW t \in Threads, Finds(t) PROVE LeakInv'
<1>1. /\ Typed(dl, search, posted, dialog) /\ dl \in Members /\ search \in Threading
      /\ posted \in Seq(Call) /\ HasId(search) /\ search[t].at = "find"
      /\ UNCHANGED <<dl, dialog>>
      /\ ~dl.crossed => Told(dl)
      /\ dialog = "open" => /\ Held(dl, search, posted)
                            /\ ~dl.crossed => Open(dl, search, posted)
  BY LeakInvIs DEF Typed, Finds
<1>2. search[t].id \in Ids /\ search[t].id # None
  BY <1>1 DEF HasId, Threading
<1>3. PICK n \in 0 .. MaxSegments :
        Posts([kind |-> "found", thread |-> t, id |-> search[t].id, segments |-> n])
  BY DEF Finds
<1>. DEFINE c == [kind |-> "found", thread |-> t, id |-> search[t].id, segments |-> n]
<1>4. c \in Call /\ c.kind = "found" /\ c.thread = t /\ c.id = search[t].id /\ IdOf(c) = {search[t].id}
  BY <1>2 DEF Call, IdOf
<1>5. posted' = IF dialog = "closed" THEN posted ELSE Append(posted, c)
  BY <1>3 DEF Posts
<1>. HIDE DEF c
<1>6. posted' \in Seq(Call)
  BY <1>1, <1>4, <1>5, AppendProperties
<1>7. /\ search' \in Threading
      /\ \A u \in Threads : search'[u].id = IF u = t THEN None ELSE search[u].id
      /\ \A u \in Threads : search'[u].at = IF u = t THEN "ending" ELSE search[u].at
  <2>1. search' = [search EXCEPT ![t].at = "ending", ![t].id = None]
    BY DEF Finds
  <2>. QED  BY <1>1, <2>1 DEF Threading
<1>8. HasId(search')
  BY <1>1, <1>7 DEF HasId
<1>9. ASSUME dialog = "open"
      PROVE  /\ Held(dl, search', posted')
             /\ ~dl.crossed => Open(dl, search', posted')
  <2>1. Held(dl, search, posted) /\ posted' = Append(posted, c) /\ t \notin ThreadsIn(posted)
    BY <1>1, <1>5, <1>9 DEF Held
  <2>2. search[t].id \in IdsOf(search) /\ search[t].id \notin IdsIn(posted)
    <3>1. search[t].id \in IdsOf(search)
      BY <1>2 DEF IdsOf
    <3>. QED  BY <2>1, <3>1 DEF Held
  <2>3. /\ OneIn(posted') /\ ThreadsIn(posted') = ThreadsIn(posted) \cup {t}
        /\ IdsIn(posted') = IdsIn(posted) \cup {search[t].id}
    <3>1. OneIn(posted)
      BY <2>1 DEF Held
    <3>. QED  BY <1>1, <1>4, <2>1, <2>2, <3>1, AnswerHas
  <2>4. IdsOf(search) = IdsOf(search') \cup {search[t].id} /\ search[t].id \notin IdsOf(search')
    <3>1. \A u \in Threads : u # t => search'[u].id = search[u].id
      BY <1>7
    <3>2. IdsOf(search') \subseteq IdsOf(search) /\ IdsOf(search) \subseteq IdsOf(search') \cup {search[t].id}
      BY <1>7, <3>1 DEF IdsOf
    <3>3. \A u \in Threads : search'[u].id # search[t].id
      BY <1>2, <1>7, <2>1 DEF Held
    <3>4. search[t].id \notin IdsOf(search')
      BY <3>3 DEF IdsOf
    <3>. QED  BY <2>2, <3>2, <3>4
  <2>5. \A u, v \in Threads : search'[u].id # None /\ search'[u].id = search'[v].id => u = v
    BY <1>7, <2>1 DEF Held
  <2>6. \A u \in Threads : u \in ThreadsIn(posted') => search'[u].at \in {"ending", "over"}
    BY <1>7, <2>1, <2>3 DEF Held
  <2>7. IdsOf(search') \cup IdsIn(posted') = IdsOf(search) \cup IdsIn(posted)
    BY <2>3, <2>4
  <2>8. IdsOf(search') \cap IdsIn(posted') = {}
    <3>1. IdsOf(search) \cap IdsIn(posted) = {}
      BY <2>1 DEF Held
    <3>. QED  BY <2>3, <2>4, <3>1
  <2>9. Held(dl, search', posted')
    BY <2>1, <2>3, <2>5, <2>6, <2>7, <2>8 DEF Held
  <2>10. Awaits(dl, search', posted') => Awaits(dl, search, posted)
    BY <1>1, <1>7, <2>3 DEF Awaits, Asking
  <2>. QED  BY <1>1, <1>9, <2>7, <2>9, <2>10 DEF Open
<1>. QED  BY <1>1, <1>6, <1>7, <1>8, <1>9 DEF LeakInv, TypeOK, Threading, Told, Bounded, Typed

LEMMA EndsKeeps ==
    ASSUME LeakInv, NEW t \in Threads, Ends(t) PROVE LeakInv'
<1>1. /\ Typed(dl, search, posted, dialog) /\ search \in Threading
      /\ posted \in Seq(Call) /\ HasId(search) /\ search[t].at = "ending"
      /\ UNCHANGED <<dl, dialog>>
      /\ ~dl.crossed => Told(dl)
      /\ dialog = "open" => /\ Held(dl, search, posted)
                            /\ ~dl.crossed => Open(dl, search, posted)
  BY LeakInvIs DEF Typed, Ends
<1>. DEFINE c == [kind |-> "finished", thread |-> t]
<1>2. c \in Call /\ c.kind = "finished"
  BY DEF Call
<1>3. posted' = posted \/ posted' = Append(posted, c)
  BY DEF Ends, Posts
<1>. HIDE DEF c
<1>4. posted' \in Seq(Call)
  BY <1>1, <1>2, <1>3, AppendProperties
<1>5. /\ search' \in Threading /\ \A u \in Threads : search'[u].id = search[u].id
      /\ \A u \in Threads : search'[u].at = IF u = t THEN "over" ELSE search[u].at
  <2>1. search' = [search EXCEPT ![t].at = "over"]
    BY DEF Ends
  <2>. QED  BY <1>1, <2>1 DEF Threading
<1>6. /\ HasId(search') /\ IdsOf(search') = IdsOf(search)
      /\ \A u : Asking(search', u) <=> Asking(search, u)
  BY <1>1, <1>5 DEF HasId, IdsOf, Asking
<1>7. ASSUME dialog = "open"
      PROVE  /\ Held(dl, search', posted')
             /\ ~dl.crossed => Open(dl, search', posted')
  <2>1. Held(dl, search, posted)
    BY <1>1, <1>7
  <2>2. OneIn(posted') /\ ThreadsIn(posted') = ThreadsIn(posted) /\ IdsIn(posted') = IdsIn(posted)
    <3>1. OneIn(posted)
      BY <2>1 DEF Held
    <3>. QED  BY <1>1, <1>2, <1>3, <3>1, FinishedHas
  <2>3. \A u \in Threads : u \in ThreadsIn(posted) => search'[u].at \in {"ending", "over"}
    BY <1>5, <2>1 DEF Held
  <2>4. Held(dl, search', posted')
    BY <1>5, <1>6, <2>1, <2>2, <2>3 DEF Held
  <2>. QED  BY <1>1, <1>6, <1>7, <2>2, <2>4 DEF Open, Awaits
<1>. QED  BY <1>1, <1>4, <1>5, <1>6, <1>7 DEF LeakInv, TypeOK, Threading, Told, Bounded, Typed

LEMMA NextLeak == ASSUME LeakInv, [Next]_vars PROVE LeakInv'
<1>1. ASSUME NEW t \in Threads, StartDownload(t) \/ Searches(t) PROVE LeakInv'
  BY <1>1, StartDownloadKeeps, LogsInKeeps, FindsKeeps, EndsKeeps DEF Searches
<1>2. CASE RefusesDownload \/ StopDownload \/ Destroy \/ Destroyed
  BY <1>2, RefusesDownloadKeeps, StopDownloadKeeps, DestroyKeeps, DestroyedKeeps
<1>3. CASE Runs
  BY <1>3, DeliversKeeps, CheckProgressKeeps, FfmpegExitsKeeps, FfmpegNoticedKeeps DEF Runs
<1>4. CASE UNCHANGED vars
  <2>1. UNCHANGED <<dl, search, posted, dialog>> /\ dl \in Members /\ search \in Threading
    BY <1>4, LeakInvIs DEF vars, Typed
  <2>2. Gives(dl, dl')
    BY <2>1 DEF Gives
  <2>. QED  BY <2>1, <2>2, MembersKeep DEF LeakInv
<1>. QED  BY <1>1, <1>2, <1>3, <1>4 DEF Next

\* However the searches overlap, the members, the threads and the posted calls keep
\* their types, and the indexes stay in range unless an answer was taken for another
\* download's.
THEOREM DownloaderTypeOK == Spec => []TypeOK
<1>1. LeakInv /\ [Next]_vars => LeakInv'
  BY NextLeak
<1>2. LeakInv => TypeOK
  BY DEF LeakInv
<1>. QED  BY <1>1, <1>2, InitLeak, PTL DEF Spec

\* Whenever the user stops and starts again: a session that is held is open and held
\* once, and unless an answer was taken for another download's none is left without a
\* holder, each transfer is watched, and a row that does not download holds nothing.
THEOREM DownloaderLeaksNothing == Spec => []NothingLeaks
<1>1. LeakInv /\ [Next]_vars => LeakInv'
  BY NextLeak
<1>2. LeakInv => NothingLeaks
  BY LeakInvImplies
<1>. QED  BY <1>1, <1>2, InitLeak, PTL DEF Spec

\* Unless an answer was taken for another download's, a download that was not stopped
\* is answered at most once, and with success only if every file was fetched.
THEOREM DownloaderAnswersTrue == Spec => []OneTrueAnswer
<1>1. LeakInv /\ [Next]_vars => LeakInv'
  BY NextLeak
<1>2. LeakInv => OneTrueAnswer
  BY LeakInvImplies
<1>. QED  BY <1>1, <1>2, InitLeak, PTL DEF Spec


-----------------------------------------------------------------------------
(***************************************************************************)
(* The check of the recorders' health.  Each method is shown to keep the   *)
(* members' type, and then what is shown in step with what was found; each *)
(* action is then one or two methods.  What is shown follows from the      *)
(* errors found only if these belong to recorders that were checked, which *)
(* depends on the worker: hence ErrorsChecked.                             *)
(***************************************************************************)
LEMMA ClearedType ==
    ASSUME NEW x \in StatusMembers
    PROVE  Cleared(x) \in StatusMembers
BY DEF Cleared, StatusMembers

LEMMA StartCheckType ==
    ASSUME NEW x \in StatusMembers, disk \in Files
    PROVE  StartCheck(x) \in StatusMembers
<1>1. [NoWorker EXCEPT !.todo = disk.recorders, !.checks = x.m_checks] \in Workers
  BY DEF NoWorker, Workers, StatusMembers, Files
<1>. QED  BY <1>1, ClearedType DEF StartCheck, StatusMembers

LEMMA OnRecordersChangedType ==
    ASSUME NEW x \in StatusMembers, disk \in Files
    PROVE  OnRecordersChanged(x) \in StatusMembers
<1>1. [x EXCEPT !.timer = TRUE] \in StatusMembers
  BY DEF StatusMembers
<1>. QED  BY <1>1, StartCheckType, ClearedType DEF OnRecordersChanged

LEMMA ApplyMutingType ==
    ASSUME NEW x \in StatusMembers
    PROVE  ApplyMuting(x) \in StatusMembers
<1>. DEFINE errors == {e \in x.m_rawErrors : e.recorder \notin x.m_mutedRecorders}
            rows == {[name |-> r, muted |-> r \in x.m_mutedRecorders] :
                        r \in x.m_rawCheckedRecorders}
<1>1. errors \in SUBSET Error
  BY DEF StatusMembers
<1>2. rows \in SUBSET [name : Recorders, muted : BOOLEAN]
  <2>1. \A r \in Recorders, b \in BOOLEAN :
          [name |-> r, muted |-> b] \in [name : Recorders, muted : BOOLEAN]
    OBVIOUS
  <2>2. \A r : (r \in x.m_mutedRecorders) \in BOOLEAN
    OBVIOUS
  <2>3. x.m_rawCheckedRecorders \subseteq Recorders
    BY DEF StatusMembers
  <2>. QED  BY <2>1, <2>2, <2>3, Zenon
<1>. DEFINE some == (errors # {})
<1>3. some \in BOOLEAN
  OBVIOUS
<1>4. ApplyMuting(x) = [x EXCEPT !.m_errors = errors, !.m_checkedRecorders = rows,
                                 !.m_hasErrors = some]
  BY DEF ApplyMuting
<1>. HIDE DEF errors, rows, some
<1>. QED  BY <1>1, <1>2, <1>3, <1>4 DEF StatusMembers

LEMMA OnCheckFinishedType ==
    ASSUME NEW x \in StatusMembers
    PROVE  OnCheckFinished(x) \in StatusMembers
<1>. DEFINE y == [x EXCEPT !.m_isChecking = FALSE, !.m_rawErrors = x.worker.errors,
                           !.m_rawCheckedRecorders = x.worker.checked, !.worker = NoWorker]
<1>1. y \in StatusMembers
  BY DEF StatusMembers, Workers, NoWorker
<1>. HIDE DEF y
<1>2. ApplyMuting(y) \in StatusMembers
  BY <1>1, ApplyMutingType
<1>. QED  BY <1>2 DEF OnCheckFinished, y

LEMMA LoadedType ==
    ASSUME NEW x \in StatusMembers, disk \in Files
    PROVE  Loaded(x) \in StatusMembers
BY DEF Loaded, StatusMembers, Files

LEMMA ReloadSettingsType ==
    ASSUME NEW x \in StatusMembers, disk \in Files
    PROVE  ReloadSettings(x) \in StatusMembers
BY LoadedType, OnRecordersChangedType, StartCheckType, ApplyMutingType DEF ReloadSettings

LEMMA SettersType ==
    ASSUME m \in StatusMembers, NEW on \in BOOLEAN, NEW ks \in SUBSET Kinds,
           NEW rs \in SUBSET Recorders
    PROVE  /\ [m EXCEPT !.m_monitoringEnabled = on] \in StatusMembers
           /\ [m EXCEPT !.m_checks = ks] \in StatusMembers
           /\ [m EXCEPT !.m_mutedRecorders = rs] \in StatusMembers
BY DEF StatusMembers

LEMMA SavesType ==
    ASSUME NEW x \in StatusMembers, disk \in Files, SaveSettings(x)
    PROVE  disk' \in Files
BY DEF SaveSettings, Writes, StatusMembers, Files

LEMMA StatusInitType == StatusInit => StatusTypes
<1>. SUFFICES ASSUME StatusInit PROVE StatusTypes
  OBVIOUS
<1>1. disk \in Files
  BY DEF StatusInit, Files
<1>2. NoWorker \in Workers
  BY DEF NoWorker, Workers
<1>3. (disk.enabled /\ disk.recorders # {}) \in BOOLEAN
  OBVIOUS
<1>4. m \in StatusMembers
  <2>. DEFINE timer == disk.enabled /\ disk.recorders # {}
  <2>1. m = [m_monitoringEnabled |-> disk.enabled, m_checks |-> disk.checks,
             m_mutedRecorders |-> disk.muted, m_isChecking |-> FALSE, timer |-> timer,
             m_rawErrors |-> {}, m_rawCheckedRecorders |-> {}, m_errors |-> {},
             m_checkedRecorders |-> {}, m_hasErrors |-> FALSE, worker |-> NoWorker]
    BY DEF StatusInit
  <2>2. timer \in BOOLEAN
    OBVIOUS
  <2>. HIDE DEF timer
  <2>. QED  BY <1>1, <1>2, <2>1, <2>2 DEF Files, StatusMembers
<1>5. recordersJson \in SUBSET Recorders
  BY <1>1 DEF StatusInit, Files
<1>6. unwritten \in BOOLEAN /\ changed \in BOOLEAN /\ firstCheck \in BOOLEAN
  BY DEF StatusInit
<1>7. faults \in [Recorders -> SUBSET Kinds]
  BY DEF StatusInit
<1>8. changes \in 0 .. MaxChanges
  BY StatusAssumption DEF StatusInit
<1>. QED  BY <1>1, <1>4, <1>5, <1>6, <1>7, <1>8 DEF StatusTypes

\* Each action is one or two methods, and what they leave alone.
LEMMA StatusNextType == StatusTypes /\ [StatusNext]_statusVars => StatusTypes'
<1>. SUFFICES ASSUME StatusTypes, [StatusNext]_statusVars PROVE StatusTypes'
  OBVIOUS
<1>. USE DEF StatusTypes
<1>0. ASSUME Changes PROVE changes' \in 0 .. MaxChanges
  BY <1>0, StatusAssumption DEF Changes
<1>1. CASE EditRecorders
  <2>1. m' \in StatusMembers
    BY <1>1, OnRecordersChangedType DEF EditRecorders
  <2>. QED  BY <1>1, <1>0, <2>1 DEF EditRecorders, world
<1>2. CASE SetMonitoringEnabled
  <2>. DEFINE x == [m EXCEPT !.m_monitoringEnabled = ~@]
  <2>1. x \in StatusMembers
    BY DEF StatusMembers
  <2>. HIDE DEF x
  <2>2. SaveSettings(x) /\ m' = OnRecordersChanged(x) /\ Changes
    BY <1>2 DEF SetMonitoringEnabled, x
  <2>3. disk' \in Files /\ m' \in StatusMembers
    BY <2>1, <2>2, SavesType, OnRecordersChangedType
  <2>4. changed' \in BOOLEAN
    BY <2>2 DEF SaveSettings, Writes
  <2>. QED  BY <1>2, <1>0, <2>2, <2>3, <2>4 DEF SetMonitoringEnabled, window, world
<1>3. ASSUME NEW k \in Kinds, SetCheck(k) PROVE StatusTypes'
  <2>. DEFINE x == [m EXCEPT !.m_checks = IF k \in @ THEN @ \ {k} ELSE @ \cup {k}]
  <2>1. x \in StatusMembers
    BY DEF StatusMembers
  <2>. HIDE DEF x
  <2>2. SaveSettings(x) /\ m' = StartCheck(x) /\ Changes
    BY <1>3 DEF SetCheck, x
  <2>3. disk' \in Files /\ m' \in StatusMembers
    BY <2>1, <2>2, SavesType, StartCheckType
  <2>4. changed' \in BOOLEAN
    BY <2>2 DEF SaveSettings, Writes
  <2>. QED  BY <1>3, <1>0, <2>2, <2>3, <2>4 DEF SetCheck, window, world
<1>4. ASSUME NEW r \in Recorders, NEW muted \in BOOLEAN, SetRecorderMuted(r, muted)
      PROVE  StatusTypes'
  <2>. DEFINE x == [m EXCEPT !.m_mutedRecorders = IF muted THEN @ \cup {r} ELSE @ \ {r}]
  <2>1. x \in StatusMembers
    BY DEF StatusMembers
  <2>. HIDE DEF x
  <2>2. SaveSettings(x) /\ m' = ApplyMuting(x) /\ Changes
    BY <1>4 DEF SetRecorderMuted, x
  <2>3. disk' \in Files /\ m' \in StatusMembers
    BY <2>1, <2>2, SavesType, ApplyMutingType
  <2>4. changed' \in BOOLEAN
    BY <2>2 DEF SaveSettings, Writes
  <2>. QED  BY <1>4, <1>0, <2>2, <2>3, <2>4 DEF SetRecorderMuted, window, world
<1>5. CASE OthersWrite
  <2>1. disk' \in Files /\ changed' \in BOOLEAN
    BY <1>5 DEF OthersWrite, Writes, Files
  <2>. QED  BY <1>5, <1>0, <2>1 DEF OthersWrite, window, world
<1>6. ASSUME NEW r \in Recorders, AsksRecorder(r) PROVE StatusTypes'
  <2>1. m.worker \in Workers
    BY DEF StatusMembers
  <2>. DEFINE new == {[recorder |-> r, kind |-> k] : k \in faults[r] \cap m.worker.checks}
              w == [m.worker EXCEPT !.todo = @ \ {r}, !.checked = @ \cup {r},
                                    !.errors = @ \cup new]
  <2>5. new \in SUBSET Error
    BY <2>1 DEF Workers, Error
  <2>3. m' = [m EXCEPT !.worker = w]
    BY <1>6, <2>1 DEF AsksRecorder, StatusMembers, Workers
  <2>. HIDE DEF new
  <2>2. w \in Workers
    BY <2>1, <2>5 DEF Workers
  <2>. HIDE DEF w
  <2>4. m' \in StatusMembers
    BY <2>2, <2>3 DEF StatusMembers
  <2>. QED  BY <1>6, <2>4 DEF AsksRecorder, window, world
<1>7. ASSUME NEW r \in Recorders, FaultsChange(r) PROVE StatusTypes'
  BY <1>7, <1>0 DEF FaultsChange, window
<1>8. CASE WriteSettings
  <2>1. disk' \in Files /\ changed' \in BOOLEAN
    BY <1>8 DEF WriteSettings, Writes, Files
  <2>. QED  BY <1>8, <2>1 DEF WriteSettings, world
<1>9. CASE ConfigFileChanged
  <2>1. (IF disk.recorders # recordersJson THEN OnRecordersChanged(m) ELSE m) \in StatusMembers
    BY OnRecordersChangedType
  <2>2. m' \in StatusMembers
    BY <1>9, <2>1, ReloadSettingsType DEF ConfigFileChanged
  <2>3. disk.recorders \in SUBSET Recorders
    BY DEF Files
  <2>. QED  BY <1>9, <2>2, <2>3 DEF ConfigFileChanged, world
<1>10. CASE Tick
  BY <1>10, StartCheckType DEF Tick, window, world
<1>11. CASE FirstCheck
  BY <1>11, StartCheckType DEF FirstCheck, window
<1>12. CASE CheckFinished
  BY <1>12, OnCheckFinishedType DEF CheckFinished, window, world
<1>13. CASE UNCHANGED statusVars
  BY <1>13 DEF statusVars, window, world
<1>. QED
  BY <1>1, <1>2, <1>3, <1>4, <1>5, <1>6, <1>7, <1>8, <1>9, <1>10, <1>11, <1>12, <1>13
  DEF StatusNext, User

\* StatusMembers, worker, file and window keep their types.
THEOREM StatusTypeOK == StatusSpec => []StatusTypes
BY StatusInitType, StatusNextType, PTL DEF StatusSpec

-----------------------------------------------------------------------------
(***************************************************************************)
(* What is shown.                                                          *)
(***************************************************************************)
ErrorsChecked(x) ==
    /\ \A e \in x.m_rawErrors : e.recorder \in x.m_rawCheckedRecorders
    /\ \A e \in x.worker.errors : e.recorder \in x.worker.checked

InStep(x) ==
    /\ x.m_errors = {e \in x.m_rawErrors : e.recorder \notin x.m_mutedRecorders}
    /\ x.m_checkedRecorders =
         {[name |-> r, muted |-> r \in x.m_mutedRecorders] : r \in x.m_rawCheckedRecorders}
    /\ x.m_hasErrors = (x.m_errors # {})

LEMMA ClearedShows ==
    ASSUME NEW x \in StatusMembers
    PROVE  /\ ErrorsChecked(x) => ErrorsChecked(Cleared(x))
           /\ InStep(Cleared(x))
BY DEF Cleared, ErrorsChecked, InStep, StatusMembers

LEMMA StartCheckShows ==
    ASSUME NEW x \in StatusMembers
    PROVE  /\ ErrorsChecked(x) => ErrorsChecked(StartCheck(x))
           /\ InStep(x) => InStep(StartCheck(x))
<1>. DEFINE y == [x EXCEPT !.m_isChecking = TRUE,
                           !.worker = [NoWorker EXCEPT !.todo = disk.recorders,
                                                       !.checks = x.m_checks]]
<1>1. ErrorsChecked(x) => ErrorsChecked(y)
  BY DEF ErrorsChecked, NoWorker, StatusMembers
<1>2. InStep(x) => InStep(y)
  BY DEF InStep, StatusMembers
<1>3. StartCheck(x) \in {x, y, Cleared(x)}
  BY DEF StartCheck
<1>. HIDE DEF y
<1>. QED  BY <1>1, <1>2, <1>3, ClearedShows

LEMMA OnRecordersChangedShows ==
    ASSUME NEW x \in StatusMembers
    PROVE  /\ ErrorsChecked(x) => ErrorsChecked(OnRecordersChanged(x))
           /\ InStep(x) => InStep(OnRecordersChanged(x))
<1>. DEFINE y == [x EXCEPT !.timer = TRUE]
<1>1. y \in StatusMembers /\ (ErrorsChecked(x) => ErrorsChecked(y)) /\ (InStep(x) => InStep(y))
  BY DEF StatusMembers, ErrorsChecked, InStep
<1>2. OnRecordersChanged(x) \in {StartCheck(y), Cleared(x)}
  BY DEF OnRecordersChanged
<1>. HIDE DEF y
<1>. QED  BY <1>1, <1>2, StartCheckShows, ClearedShows

LEMMA ApplyMutingShows ==
    ASSUME NEW x \in StatusMembers
    PROVE  /\ ErrorsChecked(x) => ErrorsChecked(ApplyMuting(x))
           /\ InStep(ApplyMuting(x))
BY DEF ApplyMuting, ErrorsChecked, InStep, StatusMembers

LEMMA OnCheckFinishedShows ==
    ASSUME NEW x \in StatusMembers, ErrorsChecked(x)
    PROVE  ErrorsChecked(OnCheckFinished(x)) /\ InStep(OnCheckFinished(x))
<1>. DEFINE y == [x EXCEPT !.m_isChecking = FALSE, !.m_rawErrors = x.worker.errors,
                           !.m_rawCheckedRecorders = x.worker.checked, !.worker = NoWorker]
<1>1. y \in StatusMembers
  BY DEF StatusMembers, Workers, NoWorker
<1>2. ErrorsChecked(y)
  BY DEF ErrorsChecked, StatusMembers, NoWorker
<1>3. OnCheckFinished(x) = ApplyMuting(y)
  BY DEF OnCheckFinished
<1>. HIDE DEF y
<1>. QED  BY <1>1, <1>2, <1>3, ApplyMutingShows

\* What is loaded is out of step only when recorders were muted or unmuted; then
\* applyMuting() comes last, whatever a check that was started has cleared.
LEMMA ReloadSettingsShows ==
    ASSUME NEW x \in StatusMembers, disk \in Files, ErrorsChecked(x), InStep(x)
    PROVE  ErrorsChecked(ReloadSettings(x)) /\ InStep(ReloadSettings(x))
<1>. DEFINE y == Loaded(x)
            z == IF y.m_monitoringEnabled # x.m_monitoringEnabled THEN OnRecordersChanged(y)
                 ELSE IF y # x THEN StartCheck(y) ELSE y
<1>1. y \in StatusMembers
  BY LoadedType
<1>2. ErrorsChecked(y)
  BY DEF Loaded, ErrorsChecked, StatusMembers
<1>3. y.m_mutedRecorders = x.m_mutedRecorders => InStep(y)
  BY DEF Loaded, InStep, StatusMembers
<1>4. ReloadSettings(x) = IF y.m_mutedRecorders # x.m_mutedRecorders THEN ApplyMuting(z) ELSE z
  BY DEF ReloadSettings
<1>. HIDE DEF y
<1>5. z \in StatusMembers /\ ErrorsChecked(z)
  BY <1>1, <1>2, OnRecordersChangedType, StartCheckType, OnRecordersChangedShows,
     StartCheckShows
<1>6. y.m_mutedRecorders = x.m_mutedRecorders => InStep(z)
  BY <1>1, <1>3, OnRecordersChangedShows, StartCheckShows
<1>. HIDE DEF z
<1>. QED  BY <1>4, <1>5, <1>6, ApplyMutingShows

ShownInv == ErrorsChecked(m) /\ InStep(m)

LEMMA ShownInvImplies == StatusTypes /\ ShownInv => ShownIsFiltered
<1>. SUFFICES ASSUME m \in StatusMembers, ErrorsChecked(m), InStep(m) PROVE ShownIsFiltered
  BY DEF StatusTypes, ShownInv
<1>1. m.m_errors = {e \in m.m_rawErrors : e.recorder \notin m.m_mutedRecorders}
  BY DEF InStep
<1>2. m.m_checkedRecorders =
         {[name |-> r, muted |-> r \in m.m_mutedRecorders] : r \in m.m_rawCheckedRecorders}
  BY DEF InStep
<1>3. ASSUME NEW e \in m.m_errors
      PROVE  [name |-> e.recorder, muted |-> FALSE] \in m.m_checkedRecorders
  <2>1. e \in m.m_rawErrors /\ e.recorder \notin m.m_mutedRecorders
    BY <1>1
  <2>2. (e.recorder \in m.m_mutedRecorders) = FALSE
    BY <2>1
  <2>. QED  BY <1>2, <2>1, <2>2 DEF ErrorsChecked
<1>4. ASSUME NEW c \in m.m_checkedRecorders
      PROVE  c.muted = (c.name \in m.m_mutedRecorders)
  BY <1>2, <1>4
<1>5. m.m_hasErrors = (m.m_errors # {})
  BY DEF InStep
<1>. QED  BY <1>1, <1>3, <1>4, <1>5 DEF ShownIsFiltered

LEMMA StatusInitShows == StatusInit => ShownInv
<1>. SUFFICES ASSUME StatusInit PROVE ShownInv
  OBVIOUS
<1>1. /\ m.m_rawErrors = {} /\ m.m_rawCheckedRecorders = {} /\ m.m_errors = {}
      /\ m.m_checkedRecorders = {} /\ m.m_hasErrors = FALSE /\ m.worker = NoWorker
  BY DEF StatusInit
<1>2. NoWorker.errors = {}
  BY DEF NoWorker
<1>3. {e \in m.m_rawErrors : e.recorder \notin m.m_mutedRecorders} = {}
  BY <1>1
<1>4. {[name |-> r, muted |-> r \in m.m_mutedRecorders] : r \in m.m_rawCheckedRecorders} = {}
  BY <1>1
<1>5. ErrorsChecked(m)
  BY <1>1, <1>2 DEF ErrorsChecked
<1>6. InStep(m)
  BY <1>1, <1>3, <1>4 DEF InStep
<1>. QED  BY <1>5, <1>6 DEF ShownInv

LEMMA StatusNextShows == StatusTypes /\ ShownInv /\ [StatusNext]_statusVars => ShownInv'
<1>. SUFFICES ASSUME StatusTypes, ShownInv, [StatusNext]_statusVars
              PROVE  ErrorsChecked(m') /\ InStep(m')
  BY DEF ShownInv, ErrorsChecked, InStep
<1>. USE DEF StatusTypes, ShownInv
<1>1. CASE EditRecorders
  BY <1>1, OnRecordersChangedShows DEF EditRecorders
<1>2. CASE SetMonitoringEnabled
  <2>. DEFINE x == [m EXCEPT !.m_monitoringEnabled = ~@]
  <2>1. x \in StatusMembers /\ ErrorsChecked(x) /\ InStep(x)
    BY DEF StatusMembers, ErrorsChecked, InStep
  <2>2. m' = OnRecordersChanged(x)
    BY <1>2 DEF SetMonitoringEnabled
  <2>. HIDE DEF x
  <2>. QED  BY <2>1, <2>2, OnRecordersChangedShows
<1>3. ASSUME NEW k \in Kinds, SetCheck(k) PROVE ErrorsChecked(m') /\ InStep(m')
  <2>. DEFINE x == [m EXCEPT !.m_checks = IF k \in @ THEN @ \ {k} ELSE @ \cup {k}]
  <2>1. x \in StatusMembers /\ ErrorsChecked(x) /\ InStep(x)
    BY DEF StatusMembers, ErrorsChecked, InStep
  <2>2. m' = StartCheck(x)
    BY <1>3 DEF SetCheck
  <2>. HIDE DEF x
  <2>. QED  BY <2>1, <2>2, StartCheckShows
<1>4. ASSUME NEW r \in Recorders, NEW muted \in BOOLEAN, SetRecorderMuted(r, muted)
      PROVE  ErrorsChecked(m') /\ InStep(m')
  <2>. DEFINE x == [m EXCEPT !.m_mutedRecorders = IF muted THEN @ \cup {r} ELSE @ \ {r}]
  <2>1. x \in StatusMembers /\ ErrorsChecked(x)
    BY DEF StatusMembers, ErrorsChecked
  <2>2. m' = ApplyMuting(x)
    BY <1>4 DEF SetRecorderMuted
  <2>. HIDE DEF x
  <2>. QED  BY <2>1, <2>2, ApplyMutingShows
<1>5. ASSUME NEW r \in Recorders, AsksRecorder(r) PROVE ErrorsChecked(m') /\ InStep(m')
  <2>. DEFINE new == {[recorder |-> r, kind |-> k] : k \in faults[r] \cap m.worker.checks}
              w == [m.worker EXCEPT !.todo = @ \ {r}, !.checked = @ \cup {r},
                                    !.errors = @ \cup new]
  <2>1. m' = [m EXCEPT !.worker = w]
    BY <1>5 DEF AsksRecorder, StatusMembers, Workers
  <2>2. \A e \in new : e.recorder = r
    OBVIOUS
  <2>. HIDE DEF new
  <2>3. m.worker \in Workers
    BY DEF StatusMembers
  <2>4. w.errors = m.worker.errors \cup new /\ w.checked = m.worker.checked \cup {r}
    BY <2>3 DEF Workers
  <2>. HIDE DEF w
  <2>5. ErrorsChecked(m')
    BY <2>1, <2>2, <2>4 DEF ErrorsChecked, StatusMembers
  <2>6. InStep(m')
    BY <2>1 DEF InStep, StatusMembers
  <2>. QED  BY <2>5, <2>6
<1>6. CASE ConfigFileChanged
  <2>. DEFINE x == IF disk.recorders # recordersJson THEN OnRecordersChanged(m) ELSE m
  <2>1. x \in StatusMembers /\ ErrorsChecked(x) /\ InStep(x)
    BY OnRecordersChangedType, OnRecordersChangedShows
  <2>2. m' = ReloadSettings(x)
    BY <1>6 DEF ConfigFileChanged
  <2>. HIDE DEF x
  <2>. QED  BY <2>1, <2>2, ReloadSettingsShows
<1>7. CASE Tick \/ FirstCheck
  BY <1>7, StartCheckShows DEF Tick, FirstCheck
<1>8. CASE CheckFinished
  BY <1>8, OnCheckFinishedShows DEF CheckFinished
<1>9. CASE \/ OthersWrite \/ WriteSettings \/ (\E r \in Recorders : FaultsChange(r))
           \/ UNCHANGED statusVars
  <2>1. m' = m
    BY <1>9 DEF OthersWrite, WriteSettings, FaultsChange, statusVars
  <2>. QED  BY <2>1
<1>. QED
  BY <1>1, <1>2, <1>3, <1>4, <1>5, <1>6, <1>7, <1>8, <1>9 DEF StatusNext, User

\* However checks, muting, options and reloads interleave, what is shown is the
\* last check's findings without the muted, and the alarm agrees with it.
THEOREM StatusShownIsFiltered == StatusSpec => []ShownIsFiltered
<1>1. StatusInit => StatusTypes /\ ShownInv
  BY StatusInitType, StatusInitShows
<1>2. (StatusTypes /\ ShownInv) /\ [StatusNext]_statusVars => (StatusTypes /\ ShownInv)'
  BY StatusNextType, StatusNextShows
<1>. QED  BY <1>1, <1>2, ShownInvImplies, PTL DEF StatusSpec
=============================================================================
