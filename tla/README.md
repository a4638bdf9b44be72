# A TLA+ development of KVision (cctv-viewer2)

KVision is a Qt/QML viewer for network cameras and Hikvision recorders.  This
directory models, model-checks and proves properties of its concurrent core:
the live-view player (`src/src/qmlav`), the sessions, archive players and
downloads of the Hikvision SDK (`src/src/hikvision*.cpp`), the recorders'
status and thumbnails, and of the one algorithm that is hard to test, the
layout of viewports.  Every definition is translated
from the C++ source at the lines the `map` of `PROJECT.json` gives; a
definition named after a function is that whole function, or the section of it
between two points where another thread may run.

Paths below are relative to `src/src/` unless they begin with `src/`.

## 1. Inventory

### Live view: `qmlav/src`

| Part | State | Operations | Interacts by |
|---|---|---|---|
| `QmlAVPlayer` (qmlavplayer.cpp) | source, status, playback state, the demuxer it owns, restart timer, outputs | QML calls `play`, `stop`, setters; timer; handlers of the demuxer's signals; frames | calls of QML in the GUI thread; queued signals of the demuxer's threads |
| `QmlAVDemuxer` (qmlavdemuxer.cpp) | loader and reader threads, media context with the decoders | `load`, `start`, destructor | emits status and state; puts packets to the decoders |
| `QmlAVDecoder` (qmlavdecoder.cpp) | a worker thread, its packet queue, open codec, count of frames out | decode a packet, emit frames | packet queue from the reader; frames to the player |
| `QmlAVThread` (qmlavthread.h/.cpp) | running and interrupt flags, condition variable | loop, `requestInterruption`, `wait` | detached threads |
| `QmlAVWaitingQueue` (qmlavwaitingqueue.h) | deque, two limits, a mutex, a condition variable | `enqueue`, `head`, `dequeue`, `waitForEmpty`, limits | any thread |
| frames, audio device, resampler, options, formats | data | conversions | - |

Hard here: signals are queued, so an event can outlive the demuxer that posted
it; the destructor joins four threads that block on each other's queues; stop
and state machine call each other; streams fail at any moment.  It is correct
when a player owns one stream at most and believes only that one, when a
stream's end or failure is always reported, when no packet is lost or decoded
twice, and when the destructor ends and leaves no thread behind.

### Recorders: the Hikvision SDK

| Part | State | Operations | Interacts by |
|---|---|---|---|
| `HikvisionManager` | two session tables (own and shared with reference counts), SDK initialization, PTZ queue | log in, log out, force out, discover, PTZ | called from any thread; releases its mutex around the SDK |
| `HikvisionArchivePlayer` | handle, port, user id, flags; a worker thread's tasks; global port map and player set | play, stop, pause, setters, destructor; SDK callbacks | GUI thread posts to worker; worker calls the manager; SDK threads call back |
| its pictures | pool of frame buffers, two counters, the picture shown | decode, convert, post, show, clean up | decoder's thread, global thread pool, GUI thread, worker |
| `HikvisionDownloader` | segments, file handle, FFmpeg process, search thread | start, stop, progress timer, destructor | GUI thread and search threads; calls posted by these; `waitForFinished()` re-enters a slot |
| `HikvisionISAPI` | search sessions and replies | search, cancel, reply | asynchronous HTTP |
| `NvrStatusManager` | options, muting, errors found and shown, a check under way | check, recorders changed, setters, reload | a worker thread per check; the configuration file, which windows of several processes write |
| `ThumbnailProvider` | queue of requests, cache, files | request one or all, cancel, fetched or failed | a worker thread, one fetch at a time |

Hard here: check-then-act around a released mutex; ids, handles and ports that
the SDK gives again after they were released; callbacks on the SDK's threads
that race stop and destruction; a GUI thread that blocks in destructors.  It is
correct when whatever was obtained is released exactly once on every path, when
nothing released is used, and when the blocking calls return.

### Layouts

`ViewportsLayoutModel` keeps a grid of items with spans and normalizes it after
every change: it may start over many times, with items left over from larger
grids.  `ViewportsLayout.qml` merges and splits cells; layouts are saved and
loaded.  It is correct when normalization ends with every cell covered once and
a layout loaded is the layout saved.

### The rest

The limit on auxiliary windows (`main.cpp`), `Context`, `SystemStats`, `Config`,
`EventFilter`, the QML user interface, diagnostic programs, the vendored SDK
headers and FFmpeg.  `PROJECT.json` lists each with the reason it is left out
or the plan for it, and, under `hazards`, the places in the code that are hard
to test and what covers them.

## 2. Modules

| Module | Models | Correspondence |
|---|---|---|
| `QmlAVPlayer` | the player, its demuxers' threads as far as they report, Qt's queue of posted events | `player` is the record of members; a handler (`Stop`, `SetStatus`, `SetPlaybackState`, `FrameHandler`) is an operator from members to members, with the recursion stop() - stateMachine() unfolded; a demuxer is the number of its load(); `events` is the GUI thread's queue |
| `MCQmlAVPlayer` | a fair specification for the liveness runs, in which QML leaves `muted` and, once the component is complete, `autoLoad` alone, as Player.qml does | - |
| `BlockingQueue` | abstract: what a waiting queue promises | each call takes effect at one instant; no mutex, no condition variable |
| `QmlAVWaitingQueue` | qmlavwaitingqueue.h | a critical section is a step, a notification after the unlock is another; `pc` tells who sleeps; `limits` may change while threads sleep |
| `DemuxerSession` | abstract: what a demuxer promises its player | order of statuses and states, EndOfMedia only when nothing is left to decode, silence once deleted, deletion ends |
| `QmlAVDemuxer` | loader, reader, two decoders, destructor, frame counters | `at[t]` is where each thread is in its callable; `gui` is how far the destructor has come; queues are `BlockingQueue`s |
| `HikvisionManager` | hikvisionmanager.cpp | `call[t]` is the call a thread is in and its place around the mutex; `sdk` is the state of each user id |
| `HikvisionArchivePlayer` | hikvisionarchiveplayer.cpp, composed with `HikvisionManager` by INSTANCE (the players are its clients) | `worker[p]` is the task the worker is in; `tasks` what was posted to it; `stream` and `callback` are the SDK's side of each handle; `ports` and `s_portMap` the decoders; a playback or a port that the SDK failed to stop or free is `refused`; each section of PlayDataCallBack under the mutex is a step (`ReadsMembers`, `NotesHeader`) |
| `ArchiveFrames` | the decoded pictures of one archive player | `decoder`, `task[s]`, `gui`, `worker` are places in DecCallBack, YV12ToRGBTask::run, the lambda run() posts, cleanupPlayback; `inUse` is the buffers' flags |
| `HikvisionDownloader` | hikvisiondownloader.cpp | `dl` is the record of members with what the SDK has open for them; a slot is an operator from records to records, so that stopDownload() can contain onFfmpegFinished(); `search[t]` is a search thread, `posted` the GUI thread's queue; `dl.crossed` (history) says that an answer was taken for another download's |
| `NvrStatusManager` | nvrstatusmanager.cpp, with RootWindow's Settings item | `m` is the record of members and the worker; methods are operators on it; `disk` is the configuration file, `changed` the watcher's notice |
| `ThumbnailProvider` | thumbnailprovider.cpp | a frame is the number of the request it was fetched for, which is how one sees that an older one replaces a newer |
| `ViewportsLayoutModel`, `MCViewportsLayoutModel` | viewportslayoutmodel.cpp and mergeCells of ViewportsLayout.qml; the grids TLC takes | `at` and `index` are normalize()'s place in its two loops, `Collides` is its `goto`, `caller` who waits for it: an edit, or one of the three calls in fromJSValue(); `given` (history) the items it was called with |
| `*Proofs` | theorems and proofs of the module they are named for; those of `NvrStatusManager` are in `HikvisionDownloaderProofs`, those of `ThumbnailProvider` and `ViewportsLayoutModel` in `UserInterfaceProofs` | section 5 |

How they fit: `QmlAVWaitingQueue` implements `BlockingQueue`; `QmlAVDemuxer`
uses blocking queues of that kind and implements `DemuxerSession`; the demuxer
inside `QmlAVPlayer` emits its signals in the orders `DemuxerSession` allows.
`HikvisionArchivePlayer` contains `HikvisionManager` whole.  `ArchiveFrames`
is the same player seen from the decoder: of playAtTime() and PlayDataCallBack it
has only that a port is mapped.  The other modules share no state.

Abstractions.  URLs, recorders, packets, frames and user ids are model values
or numbers; passwords, channels, times, picture data, logging and counters of
bytes are left out.  FFmpeg and the SDK are external: a call may fail, end or
answer when it likes, in the archive player also the ones that give something back,
whose failure the code only logs (`StopFails`, `GetPortFails`, `FreePort`).
Taken to succeed are `NET_DVR_Logout` and the downloader's `NET_DVR_StopGetFile`.
A user id is not given twice in a behaviour (so that a
use after its logout is seen as such), handles and ports are.  Assumed of the
SDK: `NET_DVR_StopPlayBack` makes no new callback and returns after the running
one (the code relies on it) unless it fails, and ids, handles and ports in use are not given to
another; `PlayM4_Stop` likewise returns after DecCallBack has.  Calls of QML run
to their end; a handler that calls back into the player while it emits is not
modelled.  Two timed waits are taken to be long enough: the 5000 ms for the
conversion tasks in ~HikvisionArchivePlayer and the 1000 ms for a killed FFmpeg.
The two counters of hikvisionarchiveplayer.cpp:1066 are taken to be read from left to
right.  C++ leaves the order open; read the other way round the limit can be passed,
as TLC finds with the two reads exchanged.

## 3. Runs

A run is one question.  Numbers of states are for the configurations here.

| Run | Question and answer | Bounds and why they are enough |
|---|---|---|
| `player_safety` | Over every order of calls, events and threads: one stream at most, quiet without one, and once it plays nothing of a replaced stream is left in the queue; before that a late status may be believed (section 4).  Holds (3.6 million states). | Two demuxers: a stream and its replacement, which is what an event can be mistaken for; two sources, one of them blank (a valid QUrl with an empty path); one frame queued; the loader thread may report before start() does |
| `player_liveness` | A stream's end or failure reaches the player and LoadingMedia is left.  Holds. | One source, two demuxers, no frames: frames change no status |
| `queue` | No lost wake-up; what `dequeue()` removes is what `head()` gave; refines `BlockingQueue` with its liveness.  Holds (96 thousand states). | Two producers, one consumer, one controller that changes limits; limits 0 and 1, a queue of 3: full, empty and unlimited all happen, with two threads asleep on either side |
| `demuxer` | Packets in order and once; the reader puts only where somebody takes; nothing runs when the demuxer is gone; end reported; refines `DemuxerSession`, whose liveness is that deletion ends.  Holds. | A queue limit of 2, three packets: the queue is full, and a packet is retried with others behind it |
| `manager` | An id is in one place and open while it is; shared sessions have references.  Holds (790 thousand states up to symmetry). | Two clients and the PTZ worker in any calls, three ids, two references: a third thread adds no new pair of critical sections. Threads and ids are interchangeable, which the symmetry uses |
| `archive` | A playback or port in use has one living holder, unless the SDK refused to stop or free it; callbacks use ports their player holds; the port map is current; the destructor ends however long the decoder stays full.  Holds (918 thousand states). | Two players, two requests in all and the destruction of either at any moment, two handles and one port: the port one player gives back is at once the other's, the case in which a late callback would do harm.  Two ids: the session forced out and the new one.  One refusal: a playback that goes on while the other player gets the second handle and the port, or a port that is lost |
| `frames` | At most `Limit` pictures under way however long the GUI thread blocks; a buffer has one user; no task is left when the player goes; its destructor ends.  Holds (478 thousand states). | Limit 2 for 5: the limit is reached with pictures on both counters at once.  Two tasks at a time and three buffers (one shown, one posted, one converted); one playback stopped, and the last clean-up |
| `downloader` | A session held is open and has one holder; unless an answer was taken for another download's, all is given back and the row is told once and truly; it ends; closing does not block.  Holds (219 thousand states). | Two downloads, the second begun at any moment after the first was stopped or ended, also during its search: a third adds no new pair of answers.  Two ids and two transfers, one for each; three files: a first, one between and a last |
| `downloader_destroyed` | The destructor joins the search thread.  Violated when a download was stopped and started again during a search. | Two overlapping downloads |
| `status` | What is shown is the last check's findings less the muted ones, and catches up with the file.  Holds (170 thousand states). | Two recorders, one kind of fault, three changes of any kind: one before a check, one during it and one after |
| `thumbnails` | One fetch at a time, nothing left waiting, no picture replaced by an older one.  Holds (26 thousand states). | Two cameras, four requests: two refreshes of one while the other waits or is fetched |
| `layout` | normalize() ends, because it starts over only after it narrowed a viewport; each cell is drawn on once; a viewport nothing meets stays; what is saved is restored over anything, also over a new layout with fewer items and an appended one with none.  Holds (494 thousand states, which are all that these operations reach; `given` is forgotten at rest). | Grids 2x1, 2x3, 3x2, 4x4: both orientations, viewports of four and of nine cells, chains of collisions, left-over items; the user interface allows up to 9x9, and the theorems any size |

`CHECK_DEADLOCK FALSE` stands where the system may really stop (after a
destructor, or when the user asks for nothing more); the queue, the manager and
the layout are checked for deadlock.

Types are an invariant of the runs where an index, a counter or an id of the code
could leave its range (`manager`, `demuxer`, `downloader`); those of the other modules
are proved (section 5).

Each property of a passing run has a mutant: a definition replaced by a
plausible bug (its operator is commented "mutant of"), under which TLC finds
the property violated.

Fairness.  Weak fairness only.  `QmlAVPlayer`: Qt delivers posted events and
expired timers, the loader is ended by demuxerTimeout and the interrupt
callback; nothing obliges QML to call, or a stream to deliver, fail or end.
`QmlAVWaitingQueue`: a thread that can run its critical section or its
notification does.  `QmlAVDemuxer`: loader, reader, decoders and destructor
go on; FFmpeg's calls return.  `HikvisionArchivePlayer`: workers and callbacks
go on, the SDK's calls return; that the decoder ever accepts data is *not*
assumed, so `DestructorEnds` covers a decoder that stays full, nor that a stop fails
(`StopFails`), which would excuse it from waiting for the callback.
`ArchiveFrames`: threads and the GUI's event loop go on; the user and the
recorder do as they like.  `HikvisionDownloader`: a login, a transfer and FFmpeg
end, posted calls and timers are served, and a search that is *interrupted* ends
(it looks between pages); one that is not may search for ever.
`NvrStatusManager`: timers fire, the Settings item writes, a recorder answers or
times out.  `ThumbnailProvider`: posted calls are served, and a fetch ends, by its
timeout at the latest; there are finitely many requests, as refreshes made for ever,
which go to the front of the queue, could keep a camera waiting.  `ViewportsLayoutModel`: a call of normalize() or
fromJSValue() runs on, as nothing in it waits.

## 4. Where the code does otherwise

One run is kept as a violation.  `downloader_destroyed`: the destructor of
`HikvisionDownloader` joins the latest search thread only; one left from a
download that was stopped and begun again is neither interrupted again nor joined, and
posts to the object that is gone.

These others came up while modelling; TLC found each in the modules as they are
(the state named is reachable), and no property claims the opposite:

- a stream that fails or ends by itself is never restarted, whatever `loops` says
  (qmlavplayer.h:27): `stop()` returns early (qmlavplayer.cpp:69), so the dead
  demuxer stays and `play()` loads no other;
- a status that a replaced stream has queued is believed until the new one plays:
  `setStatus()` tests only that there is a demuxer (qmlavplayer.cpp:419), so an
  InvalidMedia of the old stream stops the new one and starts the restart timer;
- a source set after the stream started, before its PlayingState is delivered, is
  not played (qmlavplayer.cpp:296);
- QmlAVThread's `wait()` may return before the thread has notified the condition
  variable that is destroyed next (qmlavthread.cpp:26);
- frames are counted once and counted down by every copy, so the limit on frames
  in flight never trips (qmlavframe.cpp:27);
- two simultaneous `loginShared()` of one recorder overwrite each other, and the
  first session stays open after both players are closed
  (hikvisionmanager.cpp:505; walkthrough.md:359 says none does): `SessionHasOneOwner`
  says that a session has one owner *at most*, and one that was overwritten, like one
  whose logout is posted to a worker that quits first, has none;
- a playback that `NET_DVR_StopPlayBack` fails to stop, or a port that
  `PlayM4_FreePort` fails to free, is given up for good
  (hikvisionarchiveplayer.cpp:292, 327, 629), and a header of that playback that comes
  late may register the port again;
- a header that comes before hikvisionarchiveplayer.cpp:671 is forgotten and the
  playback stays black;
- a picture decoded between hikvisionarchiveplayer.cpp:276 and PlayM4_Stop belongs
  to the *new* session and is shown after the stop or the seek;
- the answer of a search that was stopped is taken for the next download's when that was
  begun meanwhile: the lambda tests only `m_isDownloading`
  (hikvisiondownloader.cpp:186, "Download was stopped while searching! Logout and
  abort."), so the next download gets the old session and files, and its own answer
  overwrites `m_lUserID` (191), whose session stays open; a failed login (112) tests
  nothing and ends whichever download runs.  `NothingLeaks` and `OneTrueAnswer` say
  what holds in this case too, and the rest only until it happens (`dl.crossed`);
- `stopDownload()` may answer twice, and even with a success first, when FFmpeg
  has just finished (hikvisiondownloader.cpp:407): `OneTrueAnswer` excepts a
  download the user stopped;
- an `ffmpeg` that cannot be started leaves a row downloading for good
  (hikvisiondownloader.cpp:481): `DownloadEnds` excepts it;
- a first recorder is not monitored until the configuration file is written
  again: the list is read before the Settings item has written it
  (nvrstatusmanager.cpp:47), so `CatchesUp` speaks of the time the timer runs.

## 5. Theorems

Checked by TLAPS from the assumptions on constants each module states
(`PlayerAssumption`, `QueueAssumption`, `ManagerAssumption`,
`DemuxerAssumption`, `ArchiveAssumption`, `FramesAssumption`,
`DownloaderAssumption`, `StatusAssumption`, `ThumbnailAssumption`,
`SizesAssumption`), for every
value of the constants, in particular any number of demuxers, threads, players,
recorders and ids, queues of any length, any limit on pictures and grids of any
size.  The assumptions say that bounds are naturals, that `None` is none of the
things it stands in for, that the PTZ worker is no player, and that a grid has a
row and a column at least.

- `QmlAVPlayerProofs`: `PlayerTypeOK`, `PlayerOwnsOneStream`,
  `DetachedPlayerIsQuiet`, `PlayingQueueStaysCurrent`.  None of the three
  invariants is inductive: that no stale event is queued while a player plays
  depends on how it came to play.  `PlayerInv` adds `StartCurrent`: a queued
  PlayingState is the attached demuxer's, and only events of that demuxer follow it.
  Each handler is shown to preserve what the next one needs (`StopPreserves`,
  `SetStatusPreserves`, ...), then each action is one step of `NextInv`.
- `QmlAVWaitingQueueProofs`: `QueueTypeOK`, `NoLostWakeup`, `HeldStaysOldest`,
  `QueueIsBlocking`.  The wake-up proof strengthens `SleeperIsNotified` by
  `SleepersWait` (who sleeps is in a call that waits): a thread sleeps only
  when its condition is false, and whoever makes it true is between its unlock
  and its notification until it notifies all.  `QueueIsBlocking` is the safety half of the
  refinement: each critical section is the call's instant or a stutter.
- `HikvisionManagerProofs`: `ManagerTypeOK`, `SessionOwnedOnce`,
  `SharedStaysReferenced`.  The invariant `OwnerInv` speaks of table entries and
  of ids in hand (`InHand`: between the SDK and a table) at once; a section of a
  call hands an id from one to the other (`TakenFromShared`, `PutInSessions`,
  ...), a login gives an unused one (`Given`), a logout closes one nobody else
  has (`Closed`).

- `QmlAVDemuxerProofs`: `DemuxerTypeOK`, `PacketsStayInOrder`,
  `ReaderAlwaysPutsToOpen`, `GoneIsQuiet`, `DemuxerKeepsSession`.  The invariant
  `IInv` has, besides the types, `JoinInv` (how far the destructor is tells who is
  over and who may be interrupted: a decoder stops only after the reader was
  joined), `SaidInv` (what loader and reader have said, by where they are) and
  `PacketInv` (the order, and that a decoder at work has its packet at the head
  of its queue, without which `head()` and `dequeue()` could disagree).  The order
  rests on three lemmas about sequences: `ReadsLast`, `PutsLast`, `SubmitsHead`.
  `DemuxerKeepsSession` maps each step to one of `DemuxerSession`; EndOfMedia is
  the step that needs all of `PacketInv`, a failure the one that needs `JoinInv`.

- `UserInterfaceProofs`: `ThumbnailTypeOK`, `ThumbnailOneFetch`,
  `ThumbnailGetsNewer`.  `FetchInv` is inductive with the fact that a camera
  waits once (`Unique`), for which the lemmas `PrependedHas`, `AppendedHas` and
  `TailHas` say what each way to change the queue keeps.  That pictures only
  get newer follows from `Newer`: along cache, fetch or answer, and queue,
  a camera's requests are in the order they were made.  It needs `FetchInv`:
  when an answer is stored there is no other one on its way to overtake it.
- The second part of `UserInterfaceProofs` is about `ViewportsLayoutModel` (its
  names begin with `Layout`, for both to be extended by one module): `LayoutTypes`,
  `LayoutIsDrawn`, `LayoutIsRestored`, `LayoutNarrows`, `LayoutLeavesUntouched`.
  An index stands for one cell only because of a few facts about quotients and
  remainders (`Divided`, `SameCell`, `LaterCell`, `RowInGrid`), from which
  `OthersAreLater`: what an item hides has a greater index.  So the second loop
  never hides what it has passed, and `HiddenUpTo` is its invariant: the items
  before `index` span squares inside the grid, each item they span is hidden
  behind one of them, and nothing else is hidden.  At the end that is
  `Normal`, which `EveryCellIsDrawnOnce` says cell by cell.  A layout that is saved
  is `Normal`, also one never normalized, whose items are single cells; `Again` says
  that the loops, given such items, hide just what was hidden (`AgainHides`) and meet
  no collision (`AgainMeets`), so that the third normalize() of a load
  changes nothing, whatever the first two made of the spans.
  `UntouchedInv` relates each item to what the call was given: it is as the first
  loop would cut it, or a wide one met it.  That normalize() ends
  follows from `LayoutNarrows` by induction on the number of wide items, the one
  step left to TLC.

- `HikvisionDownloaderProofs`: `DownloaderTypeOK`, `DownloaderLeaksNothing`,
  `DownloaderAnswersTrue`, for searches that overlap in any way.  What holds in any
  case follows from one relation: a slot keeps the member's session and transfer or
  gives them up (`Gives`), so that no session gets a second holder.  What holds
  only while no answer was taken for another download's needs more: the members are
  `Resting` or `Fetching`, and they rest while the latest search or its answer is
  pending, so that an answer never meets a session or a transfer of before.  `LeakInv`
  is both.  Each slot is a function of the members and has one lemma for
  each half (`StoppedGives` and `StoppedDoes`, with FFmpeg ending inside it, ...).

- The second part of `HikvisionDownloaderProofs` is about `NvrStatusManager`
  (which names its specification `StatusSpec`, its state `statusVars` and so on,
  for both to be extended by one module): `StatusTypeOK`, `StatusShownIsFiltered`.
  The strengthening `ShownInv` has `ErrorsChecked` (a finding, kept or still in the
  worker, is of a recorder that check asked) beside `InStep` (what is shown is the
  findings less the muted ones); each method of the class is a function from
  members to members, and has one lemma that says it keeps both.  The point of
  the proof is the order inside the methods: whatever the setting, muting is
  applied last.

- `HikvisionArchivePlayerProofs`: `ArchiveStreamHasOneHolder`,
  `ArchiveDataGoesToOwnDecoder`, `ArchivePortMapIsCurrent`.  None is inductive:
  whether a step of the worker moves a playback depends on where it comes from.
  `IInv` says by the worker's place what a player has (`PlaceOK`: in its members,
  in its worker's hands, or nothing), that a stream knows its holder
  (`StreamOK`), a decoder has one (`PortOK`), both unless the SDK refused to stop
  or free it, and that a callback runs only on a stream that was started and is not
  yet given back, or was refused (`CallbackOK`), which is why a
  playback whose port could not be had may be closed without waiting.  Most
  steps are `QuietStep`s; one that moves something changes a single stream
  (`StreamStep`) or a single decoder (`PortStep`).
- The second part of that module composes it with `HikvisionManagerProofs`:
  `ArchiveTypeOK`, `ArchiveStepsAreManagers`, `ArchiveSessionsOwnedOnce`,
  `ArchiveSharedIsReferenced`.  A worker asks the manager for the recorder its
  task names, and the task was posted by the GUI thread before it may have changed
  the members, so `TypesInv` says what a task may be (`Posted`: a recorder with a
  playback, a session only with a logout) and which task a worker at a place is
  doing (`Work`).  From that each step of the players is a step of the manager with
  the players as its clients, or leaves it alone (`PlayersStep`), and the
  manager's invariants, proved for any threads in any calls, carry over: no session is logged
  out twice however the players are stopped, reconfigured, forced out and destroyed.
- `ArchiveFramesProofs`: `FramesBackpressureHolds`, `FramesBufferHasOneUser`,
  `FramesTasksEndFirst`.  What a buffer is used for is told by where the tasks, the
  queue and the GUI thread that have it are (`OfTasks`, `OfPosted`), and a step
  moves, starts or ends a single task (`Moved`, `Started`, `Ended`).  `BufferInv`:
  a buffer is written by one, or pictured, or free, and `inUse` is just those that are not
  free.  `PostedInv`: a picture is posted once, without which the GUI thread
  could free a buffer that a second event still has.  The limit is the delicate one:
  DecCallBack reads the two counters one after the other while tasks end and events
  are delivered.  `CountInv` says that neither counter, nor what was read of the
  first, is ever less than what there is, because a task counts its picture as the
  GUI thread's before it takes it off its own count; `BoundInv` that the decoder, past
  the test, has room for one more, because all the others only reduce what is under
  way (`WorkGoesOn`).

Every safety property of a passing run is stated by a theorem, those of the
refinements as far as they are safety.  Only model-checked: all liveness, as fairness
and ENABLED are beyond the prover: `EndIsReported` and `LoadingResolves` of the player,
the liveness in `BlockingQueue` and in `DemuxerSession` (that deletion ends),
`DestructorEnds`, `DownloadEnds`, `CloseEnds`, `CatchesUp`, `EveryRequestIsTaken` and
`NormalizeEnds`.

## 6. Not modelled, and why

- Audio of the archive player: its limit (hikvisionarchiveplayer.cpp:1086) tests the
  counter of pictures, its devices are platform calls.
- `HikvisionISAPI`: requests and the XML and JSON they carry; the discovery
  threads' bookkeeping: I/O that changes no session.  Each search has an id of its own,
  a cancelled reply is disconnected, and the next page is asked for only after the one
  before it.
- The reloading of layouts by RootWindow.qml (`isSyncing`, `saveTimer`), the seamless
  switch of Player.qml, the limit on auxiliary windows of main.cpp.
- Hardware output, pixel formats, resampling, clocks: data.
- The destructor of `HikvisionManager`: main.cpp:270 creates it without a parent and it
  is never destroyed.
- The rest of QML: declarative; `MCQmlAVPlayer` takes from Player.qml which calls it
  makes.
- Memory order and data races on flags that only a display reads.
- Vendored code (FFmpeg, the SDK's headers), which is most of the repository's
  lines: external, modelled by what its callers rely on.

## 7. Plan

Done: the core (player, queue, manager, demuxer) with its proofs; the archive
player and its pictures, downloads, status, thumbnails and layouts.  Next:

1. `SeamlessSwitch`: the two players of Player.qml and their timer.
2. `LayoutSync`: RootWindow's two timers and the file that several processes write.
3. `HikvisionISAPI`: pages and cancellation.
4. Proofs: what a step of the downloader may never do as action properties.
