---------------------------- MODULE QmlAVDemuxer ----------------------------
(***************************************************************************)
(* One QmlAVDemuxer and the threads it owns: the loader, the reader and a  *)
(* decoder for each stream, fed through a bounded queue of packets.  The   *)
(* GUI thread loads, starts and deletes it; the destructor interrupts and  *)
(* joins the threads one after the other.  The queues are BlockingQueues   *)
(* (QmlAVWaitingQueue implements them).  FFmpeg and the network are        *)
(* external: opening and reading fail or end when they like.               *)
(***************************************************************************)
EXTENDS Integers, Sequences, FiniteSets

CONSTANTS
    PacketsLimit,    \* PACKETS_LIMIT
    MaxPackets,      \* bound: packets read in a behaviour
    FramesPerPacket  \* bound: frames a packet makes

Decoders == {"video", "audio"}

Threads == {"loader", "reader"} \cup Decoders

ASSUME DemuxerAssumption ==
    /\ PacketsLimit \in Nat \ {0}
    /\ MaxPackets \in Nat
    /\ FramesPerPacket \in Nat

VARIABLES
    gui,            \* what the GUI thread has done with the demuxer, or waits for
    at,             \* where each thread is
    interrupted,    \* m_loopInterruptRequested of each thread
    loaderSaid,     \* the last status of load() and its thread
    readerSaid,     \* the last state or status of start() and its thread
    open,           \* decoders whose codec is open
    target,         \* the decoder of the packet the reader has read
    queue,          \* packets waiting for each decoder
    consumerLimit,  \* of each queue
    read,           \* packets read for each decoder so far
    submitted,      \* packets each codec was given so far
    made,           \* frames each codec has to give
    posted,         \* frames on their way to the player
    held,           \* frames the video surface or the audio device has
    frameQueueLength

threadVars == <<interrupted, loaderSaid, readerSaid, open, target>>
packetVars == <<queue, consumerLimit, read, submitted>>
frameVars == <<made, posted, held, frameQueueLength>>
vars == <<gui, at, threadVars, packetVars, frameVars>>

\* m_running; a thread has set it to FALSE when it is "finished", and is to
\* notify those who wait for it.
Running(t) == at[t] \notin {"none", "finished", "ended"}

IsOpen(d) == d \in open /\ Running(d)

Goes(t, place) == at' = [at EXCEPT ![t] = place]

\* run(): the loop's condition, tested before every invoke().
Loops(t, place) ==
    /\ at[t] = "top"
    /\ Goes(t, IF interrupted[t] THEN "finished" ELSE place)

\* m_waitCond.notify_all(), the last thing run() does with its object.
Notifies(t) ==
    /\ at[t] = "finished" /\ Goes(t, "ended")
    /\ UNCHANGED <<gui, threadVars, packetVars, frameVars>>

-----------------------------------------------------------------------------
(***************************************************************************)
(* The loader.                                                             *)
(***************************************************************************)
LoaderBegins ==
    /\ Loops("loader", "opening")
    /\ UNCHANGED <<gui, threadVars, packetVars, frameVars>>

LoaderFails ==
    /\ at["loader"] = "opening" /\ Goes("loader", "finished")
    /\ loaderSaid' = "InvalidMedia"
    /\ UNCHANGED <<gui, interrupted, readerSaid, open, target, packetVars, frameVars>>

\* initDecoders().
LoaderOpens ==
    /\ at["loader"] = "opening" /\ Goes("loader", "opened")
    /\ open' \in SUBSET Decoders \ {{}}
    /\ UNCHANGED <<gui, interrupted, loaderSaid, readerSaid, target, packetVars, frameVars>>

LoaderReports ==
    /\ at["loader"] = "opened" /\ Goes("loader", "reported")
    /\ loaderSaid' = "LoadedMedia"
    /\ UNCHANGED <<gui, interrupted, readerSaid, open, target, packetVars, frameVars>>

LoaderFinishes ==
    /\ at["loader"] = "reported" /\ Goes("loader", "finished")
    /\ loaderSaid' = "BufferedMedia"
    /\ UNCHANGED <<gui, interrupted, readerSaid, open, target, packetVars, frameVars>>

Loader ==
    \/ LoaderBegins \/ LoaderFails \/ LoaderOpens \/ LoaderReports \/ LoaderFinishes
    \/ Notifies("loader")

-----------------------------------------------------------------------------
(***************************************************************************)
(* The reader.                                                             *)
(***************************************************************************)
ReaderBegins ==
    /\ Loops("reader", "waitForFinished")
    /\ UNCHANGED <<gui, threadVars, packetVars, frameVars>>

\* The stop() of start(): the status, then StoppedState, then Break.
Stops(status) ==
    /\ Goes("reader", "finished")
    /\ readerSaid' = status
    /\ UNCHANGED <<gui, interrupted, loaderSaid, open, target, packetVars, frameVars>>

ReaderAwaitsLoader ==
    /\ at["reader"] = "waitForFinished" /\ ~Running("loader")
    /\ \/ (\A d \in Decoders : ~IsOpen(d)) /\ Stops("InvalidMedia")
       \/ /\ \E d \in Decoders : IsOpen(d)
          /\ Goes("reader", "av_read_frame")
          /\ UNCHANGED <<gui, threadVars, packetVars, frameVars>>

ReadCount == Len(read["video"]) + Len(read["audio"])

\* A packet of a stream that no decoder is open for is dropped.
ReaderReads(d) ==
    /\ at["reader"] = "av_read_frame" /\ ReadCount < MaxPackets
    /\ Goes("reader", IF d \in open THEN "decodeAVPacket" ELSE "top")
    /\ target' = IF d \in open THEN d ELSE target
    /\ read' = IF d \in open THEN [read EXCEPT ![d] = Append(@, ReadCount + 1)] ELSE read
    /\ UNCHANGED <<gui, interrupted, loaderSaid, readerSaid, open, queue, consumerLimit,
                   submitted, frameVars>>

\* decodeAVPacket(): enqueue() waits at the limit.
ReaderPuts ==
    /\ at["reader"] = "decodeAVPacket"
    /\ Len(queue[target]) < PacketsLimit
    /\ queue' = [queue EXCEPT ![target] = Append(@, ReadCount)]
    /\ Goes("reader", "top")
    /\ UNCHANGED <<gui, threadVars, consumerLimit, read, submitted, frameVars>>

ReaderFails == at["reader"] = "av_read_frame" /\ Stops("InvalidMedia")

ReaderReachesEnd ==
    /\ at["reader"] = "av_read_frame" /\ Goes("reader", "emptyVideo")
    /\ UNCHANGED <<gui, threadVars, packetVars, frameVars>>

ReaderAwaitsVideo ==
    /\ at["reader"] = "emptyVideo" /\ queue["video"] = << >>
    /\ Goes("reader", "emptyAudio")
    /\ UNCHANGED <<gui, threadVars, packetVars, frameVars>>

ReaderAwaitsNothing ==  \* mutant of ReaderAwaitsAudio
    at["reader"] = "emptyAudio" /\ Stops("EndOfMedia")

ReaderAwaitsAudio ==
    at["reader"] = "emptyAudio" /\ queue["audio"] = << >> /\ Stops("EndOfMedia")

Reader ==
    \/ ReaderBegins \/ ReaderAwaitsLoader \/ (\E d \in Decoders : ReaderReads(d)) \/ ReaderPuts
    \/ ReaderFails \/ ReaderReachesEnd \/ ReaderAwaitsVideo \/ ReaderAwaitsAudio
    \/ Notifies("reader")

-----------------------------------------------------------------------------
(***************************************************************************)
(* A decoder: head(), worker(), and dequeue() unless worker() says Retry.  *)
(***************************************************************************)
DecoderBegins(d) ==
    /\ Loops(d, "head")
    /\ UNCHANGED <<gui, threadVars, packetVars, frameVars>>

\* Without a packet invoke() returns Continue.
DecoderHeads(d) ==
    /\ at[d] = "head" /\ Len(queue[d]) >= consumerLimit[d]
    /\ Goes(d, IF queue[d] = << >> THEN "top" ELSE "worker")
    /\ UNCHANGED <<gui, threadVars, packetVars, frameVars>>

DecoderMakesNoFrame(d) ==  \* mutant of DecoderMakesFrame
    /\ at[d] = "worker" /\ Goes(d, "top")
    /\ made' = [made EXCEPT ![d] = @ - 1]
    /\ UNCHANGED <<gui, threadVars, packetVars, posted, held, frameQueueLength>>

DecoderDropsPacket(d) ==  \* mutant of DecoderMakesFrame
    /\ at[d] = "worker" /\ made[d] > 0 /\ Goes(d, "dequeue")
    /\ made' = [made EXCEPT ![d] = @ - 1]
    /\ UNCHANGED <<gui, threadVars, packetVars, posted, held, frameQueueLength>>

\* avcodec_receive_frame() gives a frame, which is posted, or dropped above
\* the soft limit or when it is not valid; the packet stays (Retry).
DecoderMakesFrame(d) ==
    /\ at[d] = "worker" /\ made[d] > 0 /\ Goes(d, "top")
    /\ made' = [made EXCEPT ![d] = @ - 1]
    /\ \/ /\ posted' = [posted EXCEPT ![d] = @ + 1]
          /\ frameQueueLength' = [frameQueueLength EXCEPT ![d] = @ + 1]
       \/ UNCHANGED <<posted, frameQueueLength>>
    /\ UNCHANGED <<gui, threadVars, packetVars, held>>

DecoderTriesAgain(d) ==  \* mutant of DecoderSubmits
    /\ at[d] = "worker" /\ made[d] = 0
    /\ \/ /\ Goes(d, "dequeue")
          /\ submitted' = [submitted EXCEPT ![d] = Append(@, Head(queue[d]))]
       \/ Goes(d, "top") /\ UNCHANGED submitted
    /\ UNCHANGED <<gui, threadVars, queue, consumerLimit, read, frameVars>>

\* No frame to receive: avcodec_send_packet(), which may refuse the packet.
DecoderSubmits(d) ==
    /\ at[d] = "worker" /\ made[d] = 0 /\ Goes(d, "dequeue")
    /\ submitted' = [submitted EXCEPT ![d] = Append(@, Head(queue[d]))]
    /\ made' \in {[made EXCEPT ![d] = n] : n \in 0..FramesPerPacket}
    /\ UNCHANGED <<gui, threadVars, queue, consumerLimit, read, posted, held, frameQueueLength>>

DecoderDequeues(d) ==
    /\ at[d] = "dequeue" /\ Goes(d, "top")
    /\ queue' = [queue EXCEPT ![d] = Tail(@)]
    /\ UNCHANGED <<gui, threadVars, consumerLimit, read, submitted, frameVars>>

Decoder(d) ==
    \/ DecoderBegins(d) \/ DecoderHeads(d) \/ DecoderMakesFrame(d) \/ DecoderSubmits(d)
    \/ DecoderDequeues(d) \/ Notifies(d)

-----------------------------------------------------------------------------
(***************************************************************************)
(* The GUI thread: the calls QmlAVPlayer makes, and the frames.            *)
(***************************************************************************)
Owned == gui \in {"loaded", "started"}

\* load() with an empty source starts no loader.
Load(blank) ==
    /\ gui = "constructed" /\ gui' = "loaded"
    /\ loaderSaid' = IF blank THEN "NoMedia" ELSE "LoadingMedia"
    /\ Goes("loader", IF blank THEN "none" ELSE "top")
    /\ UNCHANGED <<interrupted, readerSaid, open, target, packetVars, frameVars>>

Start ==
    /\ gui = "loaded" /\ gui' = "started"
    /\ readerSaid' = "PlayingState"
    /\ Goes("reader", "top")
    /\ UNCHANGED <<interrupted, loaderSaid, open, target, packetVars, frameVars>>

\* frameHandler(): a video frame shown is copied into the surface's
\* QVideoFrame (QmlAVVideoBuffer) and the frame itself is destroyed; an audio
\* frame played goes to the device.
TakeFrame(d) ==
    /\ Owned /\ posted[d] > 0
    /\ posted' = [posted EXCEPT ![d] = @ - 1]
    /\ \E kept \in BOOLEAN :
         /\ held' = IF kept THEN [held EXCEPT ![d] = @ + 1] ELSE held
         /\ frameQueueLength' = IF kept /\ d = "audio" THEN frameQueueLength
                                ELSE [frameQueueLength EXCEPT ![d] = @ - 1]
    /\ UNCHANGED <<gui, at, threadVars, packetVars, made>>

\* ~QmlAVFrame of a frame, or of its copy.
ReleaseFrame(d) ==
    /\ gui # "gone" /\ held[d] > 0
    /\ held' = [held EXCEPT ![d] = @ - 1]
    /\ frameQueueLength' = [frameQueueLength EXCEPT ![d] = @ - 1]
    /\ UNCHANGED <<gui, at, threadVars, packetVars, made, posted>>

-----------------------------------------------------------------------------
(***************************************************************************)
(* ~QmlAVDemuxer, up to each thread it waits for.  A decoder's interrupt   *)
(* lowers the consumer limit of its queue before it sets the loop's flag.  *)
(***************************************************************************)
Interrupts(t) ==
    /\ interrupted' = [interrupted EXCEPT ![t] = TRUE]
    /\ UNCHANGED <<at, loaderSaid, readerSaid, open, target, packetVars, frameVars>>

Unblocks(d) ==
    /\ consumerLimit' = [consumerLimit EXCEPT ![d] = 0]
    /\ UNCHANGED <<at, threadVars, queue, read, submitted, frameVars>>

Delete == Owned /\ gui' = "loader" /\ Interrupts("loader")

LoaderJoined == gui = "loader" /\ ~Running("loader") /\ gui' = "reader" /\ Interrupts("reader")

ReaderNotJoined ==  \* mutant of ReaderJoined
    gui = "reader" /\ gui' = "unblocked video" /\ Unblocks("video")

ReaderJoined ==
    gui = "reader" /\ ~Running("reader") /\ gui' = "unblocked video" /\ Unblocks("video")

VideoInterrupted == gui = "unblocked video" /\ gui' = "video" /\ Interrupts("video")

VideoJoined ==
    gui = "video" /\ ~Running("video") /\ gui' = "unblocked audio" /\ Unblocks("audio")

AudioInterrupted == gui = "unblocked audio" /\ gui' = "audio" /\ Interrupts("audio")

AudioNotJoined ==  \* mutant of AudioJoined
    gui = "audio" /\ gui' = "gone" /\ UNCHANGED <<at, threadVars, packetVars, frameVars>>

\* The members go: the context with its decoders, the thread objects.
AudioJoined ==
    /\ gui = "audio" /\ ~Running("audio") /\ gui' = "gone"
    /\ UNCHANGED <<at, threadVars, packetVars, frameVars>>

Destructor ==
    \/ LoaderJoined \/ ReaderJoined \/ VideoInterrupted \/ VideoJoined
    \/ AudioInterrupted \/ AudioJoined

-----------------------------------------------------------------------------
Init ==
    /\ gui = "constructed"
    /\ at = [t \in Threads |-> IF t \in Decoders THEN "top" ELSE "none"]
    /\ interrupted = [t \in Threads |-> FALSE]
    /\ loaderSaid = "none" /\ readerSaid = "none"
    /\ open = {} /\ target = "video"
    /\ queue = [d \in Decoders |-> << >>]
    /\ consumerLimit = [d \in Decoders |-> 1]
    /\ read = [d \in Decoders |-> << >>]
    /\ submitted = [d \in Decoders |-> << >>]
    /\ made = [d \in Decoders |-> 0]
    /\ posted = [d \in Decoders |-> 0]
    /\ held = [d \in Decoders |-> 0]
    /\ frameQueueLength = [d \in Decoders |-> 0]

Next ==
    \/ \E blank \in BOOLEAN : Load(blank)
    \/ Start \/ Delete \/ Destructor \/ Loader \/ Reader
    \/ \E d \in Decoders : Decoder(d) \/ TakeFrame(d) \/ ReleaseFrame(d)

Spec == Init /\ [][Next]_vars

\* Threads run, and a sleep ends; FFmpeg's calls return (the interrupt callback
\* and demuxerTimeout see to it); the destructor goes on when it may.
Fairness ==
    /\ WF_vars(Loader) /\ WF_vars(Reader) /\ WF_vars(Destructor)
    /\ \A d \in Decoders : WF_vars(Decoder(d))

FairSpec == Spec /\ Fairness

-----------------------------------------------------------------------------
TypeOK ==
    /\ gui \in {"constructed", "loaded", "started", "loader", "reader", "unblocked video",
                "video", "unblocked audio", "audio", "gone"}
    /\ at \in [Threads -> {"none", "top", "opening", "opened", "reported", "waitForFinished",
                           "av_read_frame", "decodeAVPacket", "emptyVideo", "emptyAudio",
                           "head", "worker", "dequeue", "finished", "ended"}]
    /\ interrupted \in [Threads -> BOOLEAN]
    /\ loaderSaid \in {"none", "NoMedia", "LoadingMedia", "InvalidMedia", "LoadedMedia",
                       "BufferedMedia"}
    /\ readerSaid \in {"none", "PlayingState", "InvalidMedia", "EndOfMedia"}
    /\ open \subseteq Decoders /\ target \in Decoders
    /\ queue \in [Decoders -> Seq(Nat)] /\ consumerLimit \in [Decoders -> {0, 1}]
    /\ read \in [Decoders -> Seq(Nat)] /\ submitted \in [Decoders -> Seq(Nat)]
    /\ made \in [Decoders -> Nat] /\ posted \in [Decoders -> Nat] /\ held \in [Decoders -> Nat]
    /\ frameQueueLength \in [Decoders -> Int]

\* Every packet read is submitted to its codec once, in the order it was read:
\* what was submitted, then what waits, then what the reader is about to put is
\* what was read, although head() leaves a packet in the queue over any number
\* of Retries.
Waiting(d) ==
    (IF at[d] = "dequeue" THEN Tail(queue[d]) ELSE queue[d])
      \o IF at["reader"] = "decodeAVPacket" /\ target = d THEN <<ReadCount>> ELSE << >>

PacketsInOrder == \A d \in Decoders : submitted[d] \o Waiting(d) = read[d]

\* `decodeAVPacket(avPacket) || stop()`: the decoder is open, so that packets
\* are never put where nobody takes them, whenever the destructor runs.
ReaderPutsToOpen == at["reader"] = "decodeAVPacket" => IsOpen(target)

\* "Important! Serialization point for decoders dtor's": once the demuxer is
\* gone none of its threads is in its callable, which would use its members and
\* emit its signals.
QuietOnceGone == gui = "gone" => \A t \in Threads : ~Running(t)

\* A stream's end is always reported: the reader does not wait for ever for a
\* decoder to empty its queue, whatever the codec makes of the packets.
EndIsReported == at["reader"] \in {"emptyVideo", "emptyAudio"} ~> readerSaid = "EndOfMedia"

\* The demuxer keeps its promise to the player; in particular its deletion,
\* which blocks the GUI thread, ends.
Session ==
    INSTANCE DemuxerSession
        WITH loader <- loaderSaid,
             reader <- readerSaid,
             undecoded <- [d \in Decoders |-> Len(read[d]) - Len(submitted[d])],
             life <- CASE gui \in {"constructed", "loaded", "started"} -> "owned"
                       [] gui = "gone" -> "deleted"
                       [] OTHER -> "deleting"

KeepsPromise == Session!Spec
=============================================================================
