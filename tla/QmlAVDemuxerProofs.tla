------------------------- MODULE QmlAVDemuxerProofs -------------------------
(***************************************************************************)
(* Proofs that a QmlAVDemuxer decodes what it reads, in order and once,    *)
(* puts no packet where nobody takes it, is quiet once deleted, and keeps  *)
(* its promise to the player (DemuxerSession), for any PACKETS_LIMIT and   *)
(* any number of packets and frames.                                       *)
(***************************************************************************)
EXTENDS QmlAVDemuxer, SequenceTheorems, TLAPS

AfterReader == {"unblocked video", "video", "unblocked audio", "audio", "gone"}

AfterLoader == {"reader"} \cup AfterReader

Reading == at["reader"] \in {"av_read_frame", "decodeAVPacket", "emptyVideo", "emptyAudio"}

\* Where the threads may be.
PlacesInv ==
    /\ at["loader"] \in {"none", "top", "opening", "opened", "reported", "finished", "ended"}
    /\ at["reader"] \in {"none", "top", "waitForFinished", "av_read_frame", "decodeAVPacket",
                         "emptyVideo", "emptyAudio", "finished", "ended"}
    /\ \A d \in Decoders : at[d] \in {"top", "head", "worker", "dequeue", "finished", "ended"}

\* How far the destructor is, and who is interrupted or over.
JoinInv ==
    /\ gui \in AfterLoader => ~Running("loader")
    /\ gui \in AfterReader => ~Running("reader")
    /\ gui \in {"unblocked audio", "audio", "gone"} => ~Running("video")
    /\ gui = "gone" => ~Running("audio")
    /\ interrupted["loader"] => ~Owned /\ gui # "constructed"
    /\ \A d \in Decoders : interrupted[d] => gui \in AfterReader
    /\ \A d \in Decoders : ~Running(d) => interrupted[d]

\* What the loader and the reader have said, by where they are.
SaidInv ==
    /\ gui = "constructed" => at["loader"] = "none" /\ loaderSaid = "none"
    /\ gui # "constructed" => loaderSaid # "none"
    /\ gui \in {"constructed", "loaded"} => at["reader"] = "none" /\ readerSaid = "none"
    /\ at["loader"] = "none" => loaderSaid \in {"none", "NoMedia"}
    /\ at["loader"] \in {"top", "opening", "opened"} => loaderSaid = "LoadingMedia"
    /\ at["loader"] = "reported" => loaderSaid = "LoadedMedia"
    /\ ~Running("loader") /\ loaderSaid \in {"LoadingMedia", "LoadedMedia"} => interrupted["loader"]
    /\ at["loader"] \in {"none", "top", "opening"} => open = {}
    /\ open # {} /\ ~Running("loader") => loaderSaid = "BufferedMedia"
    /\ Running("reader") => readerSaid = "PlayingState"
    /\ Reading => ~Running("loader") /\ open # {}
    /\ at["reader"] = "decodeAVPacket" => target \in open

ControlInv == PlacesInv /\ JoinInv /\ SaidInv

\* A decoder at work has its packet at the head of its queue.
PacketInv ==
    /\ PacketsInOrder
    /\ \A d \in Decoders : at[d] \in {"worker", "dequeue"} => queue[d] # << >>
    /\ at["reader"] = "emptyAudio" => queue["video"] = << >>

IInv == TypeOK /\ ControlInv /\ PacketInv

-----------------------------------------------------------------------------
(***************************************************************************)
(* Type correctness.                                                       *)
(***************************************************************************)

Atoms == {"none", "top", "opening", "opened", "reported", "waitForFinished", "av_read_frame",
          "decodeAVPacket", "emptyVideo", "emptyAudio", "head", "worker", "dequeue",
          "finished", "ended"}

LEMMA GoesType ==
    ASSUME at \in [Threads -> Atoms], NEW t \in Threads, NEW place \in Atoms, Goes(t, place)
    PROVE  /\ at' \in [Threads -> Atoms]
           /\ at'[t] = place
           /\ \A u \in Threads : u # t => at'[u] = at[u]
  BY DEF Goes

\* Threads, by kind.
LEMMA ThreadsAre ==
    /\ "loader" \in Threads /\ "reader" \in Threads /\ Decoders \subseteq Threads
    /\ "video" \in Decoders /\ "audio" \in Decoders
    /\ "loader" \notin Decoders /\ "reader" \notin Decoders
  BY DEF Threads, Decoders

LEMMA TypeStep == IInv /\ [Next]_vars => TypeOK'
  <1> SUFFICES ASSUME IInv, [Next]_vars PROVE TypeOK'
    OBVIOUS
  <1>0. TypeOK
    BY DEF IInv
  <1>a. at \in [Threads -> Atoms]
    BY <1>0 DEF TypeOK, Atoms
  <1>b. queue \in [Decoders -> Seq(Nat)] /\ read \in [Decoders -> Seq(Nat)]
          /\ submitted \in [Decoders -> Seq(Nat)]
    BY <1>0 DEF TypeOK
  <1>c. made \in [Decoders -> Nat]
    BY <1>0 DEF TypeOK
  <1>d. posted \in [Decoders -> Nat] /\ held \in [Decoders -> Nat]
    BY <1>0 DEF TypeOK
  <1>e. frameQueueLength \in [Decoders -> Int]
    BY <1>0 DEF TypeOK
  <1>f. interrupted \in [Threads -> BOOLEAN] /\ consumerLimit \in [Decoders -> {0, 1}]
          /\ target \in Decoders
    BY <1>0 DEF TypeOK
  <1> USE ThreadsAre
  <1>1. CASE UNCHANGED vars
    BY <1>0, <1>1 DEF TypeOK, vars, threadVars, packetVars, frameVars
  <1>2. CASE Loader
    <2>1. at' \in [Threads -> Atoms]
      BY <1>a, <1>2, GoesType DEF Loader, LoaderBegins, LoaderFails, LoaderOpens, LoaderReports,
         LoaderFinishes, Notifies, Loops, Atoms
    <2>2. QED
      BY <1>0, <1>2, <2>1 DEF Loader, LoaderBegins, LoaderFails, LoaderOpens, LoaderReports,
         LoaderFinishes, Notifies, TypeOK, Atoms, threadVars, packetVars, frameVars
  <1>3. CASE Reader
    <2>1. at' \in [Threads -> Atoms]
      BY <1>a, <1>3, GoesType DEF Reader, ReaderBegins, ReaderAwaitsLoader, ReaderReads, ReaderPuts,
         ReaderFails, ReaderReachesEnd, ReaderAwaitsVideo, ReaderAwaitsAudio, Notifies, Loops,
         Stops, Atoms
    <2>2. ReadCount \in Nat /\ ReadCount + 1 \in Nat
      BY <1>b DEF ReadCount
    <2>a. \A d \in Decoders, n \in Nat :
            Append(read[d], n) \in Seq(Nat) /\ Append(queue[d], n) \in Seq(Nat)
      BY <1>b
    <2>3. read' \in [Decoders -> Seq(Nat)]
      <3>1. ASSUME NEW d \in Decoders, ReaderReads(d) PROVE read' \in [Decoders -> Seq(Nat)]
        <4>1. read' \in {read, [read EXCEPT ![d] = Append(read[d], ReadCount + 1)]}
          BY <3>1 DEF ReaderReads
        <4>2. QED
          BY <1>b, <2>a, <2>2, <4>1
      <3>2. ASSUME ~ \E d \in Decoders : ReaderReads(d) PROVE read' = read
        BY <1>3, <3>2 DEF Reader, ReaderBegins, ReaderAwaitsLoader, ReaderPuts, ReaderFails,
           ReaderReachesEnd, ReaderAwaitsVideo, ReaderAwaitsAudio, Notifies, Stops, packetVars
      <3>3. QED
        BY <1>b, <3>1, <3>2
    <2>4. queue' \in [Decoders -> Seq(Nat)]
      <3>1. CASE ReaderPuts
        <4>1. queue' = [queue EXCEPT ![target] = Append(queue[target], ReadCount)]
          BY <3>1 DEF ReaderPuts
        <4>2. QED
          BY <1>b, <1>f, <2>a, <2>2, <4>1
      <3>2. ASSUME ~ReaderPuts PROVE queue' = queue
        BY <1>3, <3>2 DEF Reader, ReaderBegins, ReaderAwaitsLoader, ReaderReads, ReaderFails,
           ReaderReachesEnd, ReaderAwaitsVideo, ReaderAwaitsAudio, Notifies, Stops, packetVars
      <3>3. QED
        BY <1>b, <3>1, <3>2
    <2>5. target' \in Decoders
      BY <1>f, <1>3 DEF Reader, ReaderBegins, ReaderAwaitsLoader, ReaderReads,
         ReaderPuts, ReaderFails, ReaderReachesEnd, ReaderAwaitsVideo, ReaderAwaitsAudio, Notifies,
         Stops, threadVars
    <2>6. readerSaid' \in {"none", "PlayingState", "InvalidMedia", "EndOfMedia"}
      BY <1>0, <1>3 DEF Reader, ReaderBegins, ReaderAwaitsLoader, ReaderReads,
         ReaderPuts, ReaderFails, ReaderReachesEnd, ReaderAwaitsVideo, ReaderAwaitsAudio, Notifies,
         Stops, threadVars, TypeOK
    <2>7. UNCHANGED <<gui, interrupted, loaderSaid, open, consumerLimit, submitted, made, posted,
                      held, frameQueueLength>>
      BY <1>3 DEF Reader, ReaderBegins, ReaderAwaitsLoader, ReaderReads,
         ReaderPuts, ReaderFails, ReaderReachesEnd, ReaderAwaitsVideo, ReaderAwaitsAudio, Notifies,
         Stops, threadVars, packetVars, frameVars
    <2>8. QED
      BY <1>0, <2>1, <2>3, <2>4, <2>5, <2>6, <2>7 DEF TypeOK, Atoms
  <1>4. ASSUME NEW d \in Decoders, Decoder(d) PROVE TypeOK'
    <2>1. at' \in [Threads -> Atoms]
      BY <1>a, <1>4, GoesType DEF Decoder, DecoderBegins, DecoderHeads, DecoderMakesFrame,
         DecoderSubmits, DecoderDequeues, Notifies, Loops, Atoms
    <2>2. ASSUME at[d] \in {"worker", "dequeue"}
          PROVE  Head(queue[d]) \in Nat /\ Tail(queue[d]) \in Seq(Nat)
      <3>1. queue[d] # << >>
        BY <2>2 DEF IInv, PacketInv
      <3>2. QED
        BY <1>b, <3>1
    <2>3. queue' \in [Decoders -> Seq(Nat)]
      BY <1>b, <1>4, <2>2 DEF Decoder, DecoderBegins, DecoderHeads, DecoderMakesFrame,
         DecoderSubmits, DecoderDequeues, Notifies, packetVars
    <2>4. submitted' \in [Decoders -> Seq(Nat)]
      <3>1. CASE DecoderSubmits(d)
        <4>1. /\ submitted' = [submitted EXCEPT ![d] = Append(submitted[d], Head(queue[d]))]
              /\ at[d] = "worker"
          BY <3>1 DEF DecoderSubmits
        <4>2. Append(submitted[d], Head(queue[d])) \in Seq(Nat)
          BY <1>b, <2>2, <4>1
        <4>3. QED
          BY <1>b, <4>1, <4>2
      <3>2. ASSUME ~DecoderSubmits(d) PROVE submitted' = submitted
        BY <1>4, <3>2 DEF Decoder, DecoderBegins, DecoderHeads, DecoderMakesFrame,
           DecoderDequeues, Notifies, packetVars
      <3>3. QED
        BY <1>b, <3>1, <3>2
    <2>5. made' \in [Decoders -> Nat]
      BY <1>c, <1>4, DemuxerAssumption DEF Decoder, DecoderBegins, DecoderHeads,
         DecoderMakesFrame, DecoderSubmits, DecoderDequeues, Notifies, frameVars
    <2>6. posted' \in [Decoders -> Nat] /\ frameQueueLength' \in [Decoders -> Int]
      BY <1>d, <1>e, <1>4 DEF Decoder, DecoderBegins, DecoderHeads, DecoderMakesFrame,
         DecoderSubmits, DecoderDequeues, Notifies, frameVars
    <2>7. UNCHANGED <<gui, interrupted, loaderSaid, readerSaid, open, target, consumerLimit, read,
                      held>>
      BY <1>4 DEF Decoder, DecoderBegins, DecoderHeads, DecoderMakesFrame,
         DecoderSubmits, DecoderDequeues, Notifies, threadVars, packetVars, frameVars
    <2>8. QED
      BY <1>0, <2>1, <2>3, <2>4, <2>5, <2>6, <2>7 DEF TypeOK, Atoms
  <1>5. CASE (\E blank \in BOOLEAN : Load(blank)) \/ Start
    <2>1. at' \in [Threads -> Atoms]
      BY <1>a, <1>5, GoesType DEF Load, Start, Atoms
    <2>2. QED
      BY <1>0, <1>5, <2>1 DEF Load, Start, TypeOK, Atoms, threadVars, packetVars, frameVars
  <1>6. CASE Delete \/ Destructor
    <2>1. interrupted' \in [Threads -> BOOLEAN]
      BY <1>f, <1>6 DEF Delete, Destructor, LoaderJoined, ReaderJoined, VideoInterrupted,
         VideoJoined, AudioInterrupted, AudioJoined, Interrupts, Unblocks, threadVars
    <2>2. consumerLimit' \in [Decoders -> {0, 1}]
      BY <1>f, <1>6 DEF Delete, Destructor, LoaderJoined, ReaderJoined, VideoInterrupted,
         VideoJoined, AudioInterrupted, AudioJoined, Interrupts, Unblocks, packetVars
    <2>3. QED
      BY <1>0, <1>6, <2>1, <2>2 DEF Delete, Destructor, LoaderJoined, ReaderJoined,
         VideoInterrupted, VideoJoined, AudioInterrupted, AudioJoined, Interrupts, Unblocks,
         TypeOK, threadVars, packetVars, frameVars
  <1>7. ASSUME NEW d \in Decoders, TakeFrame(d) \/ ReleaseFrame(d) PROVE TypeOK'
    <2>1. posted' \in [Decoders -> Nat] /\ held' \in [Decoders -> Nat]
      BY <1>d, <1>7 DEF TakeFrame, ReleaseFrame
    <2>2. frameQueueLength' \in [Decoders -> Int]
      BY <1>e, <1>7 DEF TakeFrame, ReleaseFrame
    <2>3. UNCHANGED <<gui, at, threadVars, packetVars, made>>
      BY <1>7 DEF TakeFrame, ReleaseFrame
    <2>4. QED
      BY <1>0, <2>1, <2>2, <2>3 DEF TypeOK, threadVars, packetVars
  <1>8. QED
    BY <1>1, <1>2, <1>3, <1>4, <1>5, <1>6, <1>7 DEF Next

-----------------------------------------------------------------------------
(***************************************************************************)
(* Who runs, who is interrupted, and what has been said.                   *)
(***************************************************************************)

\* One thread moves.
LEMMA Moves ==
    ASSUME TypeOK, NEW t \in Threads, NEW place \in Atoms, Goes(t, place)
    PROVE  at'[t] = place /\ \A u \in Threads : u # t => at'[u] = at[u]
  BY GoesType DEF TypeOK, Atoms

LEMMA InitInv == Init => IInv
  <1> SUFFICES ASSUME Init PROVE IInv
    OBVIOUS
  <1>1. /\ at["loader"] = "none" /\ at["reader"] = "none"
        /\ \A d \in Decoders : at[d] = "top"
        /\ \A t \in Threads : ~interrupted[t]
    BY DEF Init, Threads, Decoders
  <1>2. TypeOK
    BY DEF Init, TypeOK, Threads, Decoders
  <1>3. ControlInv
    BY <1>1, ThreadsAre DEF Init, ControlInv, PlacesInv, JoinInv, SaidInv, AfterReader, AfterLoader,
       Owned, Running, Reading
  <1>4. PacketInv
    <2>1. \A d \in Decoders : submitted[d] \o Waiting(d) = << >> \o (<< >> \o << >>)
      BY <1>1 DEF Init, Waiting
    <2>2. << >> \o (<< >> \o << >>) = << >>
      OBVIOUS
    <2>3. \A d \in Decoders : read[d] = << >>
      BY DEF Init
    <2>4. PacketsInOrder
      BY <2>1, <2>2, <2>3 DEF PacketsInOrder
    <2>5. QED
      BY <1>1, <2>4 DEF PacketInv
  <1>5. QED
    BY <1>2, <1>3, <1>4 DEF IInv

LEMMA LoaderControl == TypeOK /\ ControlInv /\ Loader => ControlInv'
  <1> SUFFICES ASSUME TypeOK, ControlInv, Loader PROVE ControlInv'
    OBVIOUS
  <1> USE ThreadsAre
  <1>0. /\ PlacesInv /\ JoinInv /\ SaidInv
        /\ UNCHANGED <<gui, interrupted, readerSaid, target>>
    BY DEF ControlInv, Loader, LoaderBegins, LoaderFails, LoaderOpens, LoaderReports,
       LoaderFinishes, Notifies, threadVars
  <1>1. \A u \in Threads : u # "loader" => at'[u] = at[u]
    BY Moves DEF Loader, LoaderBegins, LoaderFails, LoaderOpens, LoaderReports,
       LoaderFinishes, Notifies, Loops, Atoms
  <1>2. CASE LoaderBegins
    <2>1. /\ at["loader"] = "top" /\ UNCHANGED <<loaderSaid, open>>
          /\ at'["loader"] = IF interrupted["loader"] THEN "finished" ELSE "opening"
      BY <1>2, Moves DEF LoaderBegins, Loops, Atoms, threadVars
    <2>2. QED
      BY <1>0, <1>1, <2>1 DEF ControlInv, PlacesInv, JoinInv, SaidInv, Running, Reading, Owned,
         AfterReader, AfterLoader
  <1>3. CASE LoaderFails
    <2>1. /\ at["loader"] = "opening" /\ open' = open
          /\ at'["loader"] = "finished" /\ loaderSaid' = "InvalidMedia"
      BY <1>3, Moves DEF LoaderFails, Atoms
    <2>2. QED
      BY <1>0, <1>1, <2>1 DEF ControlInv, PlacesInv, JoinInv, SaidInv, Running, Reading, Owned,
         AfterReader, AfterLoader
  <1>4. CASE LoaderOpens
    <2>1. /\ at["loader"] = "opening" /\ loaderSaid' = loaderSaid /\ at'["loader"] = "opened"
      BY <1>4, Moves DEF LoaderOpens, Atoms
    <2>2. QED
      BY <1>0, <1>1, <2>1 DEF ControlInv, PlacesInv, JoinInv, SaidInv, Running, Reading, Owned,
         AfterReader, AfterLoader
  <1>5. CASE LoaderReports
    <2>1. /\ at["loader"] = "opened" /\ open' = open
          /\ at'["loader"] = "reported" /\ loaderSaid' = "LoadedMedia"
      BY <1>5, Moves DEF LoaderReports, Atoms
    <2>2. QED
      BY <1>0, <1>1, <2>1 DEF ControlInv, PlacesInv, JoinInv, SaidInv, Running, Reading, Owned,
         AfterReader, AfterLoader
  <1>6. CASE LoaderFinishes
    <2>1. /\ at["loader"] = "reported" /\ open' = open
          /\ at'["loader"] = "finished" /\ loaderSaid' = "BufferedMedia"
      BY <1>6, Moves DEF LoaderFinishes, Atoms
    <2>2. QED
      BY <1>0, <1>1, <2>1 DEF ControlInv, PlacesInv, JoinInv, SaidInv, Running, Reading, Owned,
         AfterReader, AfterLoader
  <1>7. CASE Notifies("loader")
    <2>1. /\ at["loader"] = "finished" /\ UNCHANGED <<loaderSaid, open>>
          /\ at'["loader"] = "ended"
      BY <1>7, Moves DEF Notifies, Atoms, threadVars
    <2>2. QED
      BY <1>0, <1>1, <2>1 DEF ControlInv, PlacesInv, JoinInv, SaidInv, Running, Reading, Owned,
         AfterReader, AfterLoader
  <1>8. QED
    BY <1>2, <1>3, <1>4, <1>5, <1>6, <1>7 DEF Loader

LEMMA ReaderControl == TypeOK /\ ControlInv /\ Reader => ControlInv'
  <1> SUFFICES ASSUME TypeOK, ControlInv, Reader PROVE ControlInv'
    OBVIOUS
  <1> USE ThreadsAre
  <1>0. /\ PlacesInv /\ JoinInv /\ SaidInv
        /\ UNCHANGED <<gui, interrupted, loaderSaid, open>>
    BY DEF ControlInv, Reader, ReaderBegins, ReaderAwaitsLoader, ReaderReads, ReaderPuts,
       ReaderFails, ReaderReachesEnd, ReaderAwaitsVideo, ReaderAwaitsAudio, Notifies, Stops,
       threadVars
  <1>1. \A u \in Threads : u # "reader" => at'[u] = at[u]
    BY Moves DEF Reader, ReaderBegins, ReaderAwaitsLoader, ReaderReads, ReaderPuts,
       ReaderFails, ReaderReachesEnd, ReaderAwaitsVideo, ReaderAwaitsAudio, Notifies, Stops,
       Loops, Atoms
  <1>2. \/ /\ Running("reader") /\ at'["reader"] = "finished"
        \/ /\ at["reader"] = "finished" /\ at'["reader"] = "ended" /\ readerSaid' = readerSaid
        \/ /\ Running("reader") /\ at'["reader"] \in {"top", "waitForFinished"}
           /\ readerSaid' = readerSaid
        \/ /\ Reading /\ readerSaid' = readerSaid
           /\ at'["reader"] \in {"emptyVideo", "emptyAudio"}
        \/ /\ Reading /\ readerSaid' = readerSaid
           /\ at'["reader"] = "decodeAVPacket" /\ target' \in open
        \/ /\ at["reader"] = "waitForFinished" /\ readerSaid' = readerSaid
           /\ at'["reader"] = "av_read_frame" /\ ~Running("loader") /\ open # {}
    <2>1. CASE ReaderBegins
      BY <2>1, Moves DEF ReaderBegins, Loops, Atoms, Running, threadVars
    <2>2. CASE ReaderAwaitsLoader
      BY <2>2, Moves DEF ReaderAwaitsLoader, Stops, IsOpen, Atoms, Running, threadVars
    <2>3. ASSUME NEW d \in Decoders, ReaderReads(d)
          PROVE  \/ at'["reader"] = "top"
                 \/ at'["reader"] = "decodeAVPacket" /\ target' \in open
      BY <2>3, Moves DEF ReaderReads, Atoms
    <2>4. CASE \E d \in Decoders : ReaderReads(d)
      BY <2>3, <2>4 DEF ReaderReads, Running, Reading
    <2>5. CASE ReaderPuts
      BY <2>5, Moves DEF ReaderPuts, Atoms, Running, threadVars
    <2>6. CASE ReaderFails
      BY <2>6, Moves DEF ReaderFails, Stops, Atoms, Running
    <2>7. CASE ReaderReachesEnd
      BY <2>7, Moves DEF ReaderReachesEnd, Atoms, Reading, threadVars
    <2>8. CASE ReaderAwaitsVideo
      BY <2>8, Moves DEF ReaderAwaitsVideo, Atoms, Reading, threadVars
    <2>9. CASE ReaderAwaitsAudio
      BY <2>9, Moves DEF ReaderAwaitsAudio, Stops, Atoms, Running
    <2>10. CASE Notifies("reader")
      BY <2>10, Moves DEF Notifies, Atoms, threadVars
    <2>11. QED
      BY <2>1, <2>2, <2>4, <2>5, <2>6, <2>7, <2>8, <2>9, <2>10 DEF Reader
  <1>3. PlacesInv'
    BY <1>0, <1>1, <1>2 DEF PlacesInv
  <1>4. JoinInv'
    <2>1. \A u \in Threads : u # "reader" => Running(u)' = Running(u)
      BY <1>1 DEF Running
    <2>2. ~Running("reader") => ~Running("reader")'
      BY <1>2 DEF Running, Reading
    <2>3. QED
      BY <1>0, <2>1, <2>2 DEF JoinInv, Owned, AfterReader, AfterLoader
  <1>5. SaidInv'
    BY <1>0, <1>1, <1>2 DEF SaidInv, Running, Reading
  <1>6. QED
    BY <1>3, <1>4, <1>5 DEF ControlInv

LEMMA DecoderControl ==
    ASSUME TypeOK, ControlInv, NEW d \in Decoders, Decoder(d)
    PROVE  ControlInv'
  <1> USE ThreadsAre
  <1>0. /\ PlacesInv /\ JoinInv /\ SaidInv
        /\ UNCHANGED <<gui, interrupted, loaderSaid, readerSaid, open, target>>
    BY DEF ControlInv, Decoder, DecoderBegins, DecoderHeads, DecoderMakesFrame, DecoderSubmits,
       DecoderDequeues, Notifies, threadVars
  <1>1. \A u \in Threads : u # d => at'[u] = at[u]
    BY Moves DEF Decoder, DecoderBegins, DecoderHeads, DecoderMakesFrame, DecoderSubmits,
       DecoderDequeues, Notifies, Loops, Atoms
  <1>2. \/ at'[d] \in {"top", "head", "worker", "dequeue"} /\ Running(d)
        \/ at'[d] = "finished" /\ interrupted[d]
        \/ at'[d] = "ended" /\ at[d] = "finished"
    <2>1. CASE DecoderBegins(d)
      BY <2>1, Moves DEF DecoderBegins, Loops, Atoms, Running
    <2>2. CASE DecoderHeads(d)
      BY <2>2, Moves DEF DecoderHeads, Atoms, Running
    <2>3. CASE DecoderMakesFrame(d)
      BY <2>3, Moves DEF DecoderMakesFrame, Atoms, Running
    <2>4. CASE DecoderSubmits(d)
      BY <2>4, Moves DEF DecoderSubmits, Atoms, Running
    <2>5. CASE DecoderDequeues(d)
      BY <2>5, Moves DEF DecoderDequeues, Atoms, Running
    <2>6. CASE Notifies(d)
      BY <2>6, Moves DEF Notifies, Atoms
    <2>7. QED
      BY <2>1, <2>2, <2>3, <2>4, <2>5, <2>6 DEF Decoder
  <1>3. PlacesInv'
    BY <1>0, <1>1, <1>2 DEF PlacesInv
  <1>4. JoinInv'
    BY <1>0, <1>1, <1>2 DEF JoinInv, Running, Owned, AfterReader, AfterLoader
  <1>5. SaidInv'
    BY <1>0, <1>1, <1>2 DEF SaidInv, Running, Reading
  <1>6. QED
    BY <1>3, <1>4, <1>5 DEF ControlInv

\* The calls of the GUI thread and the destructor's joins.
LEMMA GuiControl ==
    ASSUME TypeOK, ControlInv,
           (\E blank \in BOOLEAN : Load(blank)) \/ Start \/ Delete \/ Destructor
    PROVE  ControlInv'
  <1> USE ThreadsAre
  <1>0. PlacesInv /\ JoinInv /\ SaidInv
    BY DEF ControlInv
  <1>1. ASSUME NEW blank \in BOOLEAN, Load(blank) PROVE ControlInv'
    <2>1. /\ gui = "constructed" /\ gui' = "loaded"
          /\ UNCHANGED <<interrupted, readerSaid, open, target>>
          /\ \/ loaderSaid' = "NoMedia" /\ at'["loader"] = "none"
             \/ loaderSaid' = "LoadingMedia" /\ at'["loader"] = "top"
          /\ \A u \in Threads : u # "loader" => at'[u] = at[u]
      BY <1>1, Moves DEF Load, Atoms
    <2>2. QED
      BY <1>0, <2>1 DEF ControlInv, PlacesInv, JoinInv, SaidInv, Running, Reading, Owned,
         AfterReader, AfterLoader
  <1>2. CASE Start
    <2>1. /\ gui = "loaded" /\ gui' = "started" /\ readerSaid' = "PlayingState"
          /\ UNCHANGED <<interrupted, loaderSaid, open, target>>
          /\ at'["reader"] = "top"
          /\ \A u \in Threads : u # "reader" => at'[u] = at[u]
      BY <1>2, Moves DEF Start, Atoms
    <2>2. QED
      BY <1>0, <2>1 DEF ControlInv, PlacesInv, JoinInv, SaidInv, Running, Reading, Owned,
         AfterReader, AfterLoader
  <1>3. CASE Delete \/ Destructor
    <2>1. UNCHANGED <<at, loaderSaid, readerSaid, open, target>>
      BY <1>3 DEF Delete, Destructor, LoaderJoined, ReaderJoined, VideoInterrupted, VideoJoined,
         AudioInterrupted, AudioJoined, Interrupts, Unblocks, threadVars
    <2>2. ASSUME NEW t \in Threads, Interrupts(t)
          PROVE  interrupted'[t] /\ \A u \in Threads : u # t => interrupted'[u] = interrupted[u]
      BY <2>2 DEF Interrupts, TypeOK
    <2>3. CASE Delete
      BY <1>0, <2>1, <2>2, <2>3 DEF Delete, ControlInv, PlacesInv, JoinInv, SaidInv, Running,
         Reading, Owned, AfterReader, AfterLoader
    <2>4. CASE LoaderJoined
      BY <1>0, <2>1, <2>2, <2>4 DEF LoaderJoined, ControlInv, PlacesInv, JoinInv, SaidInv, Running,
         Reading, Owned, AfterReader, AfterLoader
    <2>5. CASE ReaderJoined
      BY <1>0, <2>1, <2>5 DEF ReaderJoined, Unblocks, ControlInv, PlacesInv, JoinInv, SaidInv,
         Running, Reading, Owned, AfterReader, AfterLoader, threadVars
    <2>6. CASE VideoInterrupted
      BY <1>0, <2>1, <2>2, <2>6 DEF VideoInterrupted, ControlInv, PlacesInv, JoinInv, SaidInv,
         Running, Reading, Owned, AfterReader, AfterLoader
    <2>7. CASE VideoJoined
      BY <1>0, <2>1, <2>7 DEF VideoJoined, Unblocks, ControlInv, PlacesInv, JoinInv, SaidInv,
         Running, Reading, Owned, AfterReader, AfterLoader, threadVars
    <2>8. CASE AudioInterrupted
      BY <1>0, <2>1, <2>2, <2>8 DEF AudioInterrupted, ControlInv, PlacesInv, JoinInv, SaidInv,
         Running, Reading, Owned, AfterReader, AfterLoader
    <2>9. CASE AudioJoined
      BY <1>0, <2>1, <2>9 DEF AudioJoined, ControlInv, PlacesInv, JoinInv, SaidInv, Running,
         Reading, Owned, AfterReader, AfterLoader, threadVars
    <2>10. QED
      BY <1>3, <2>3, <2>4, <2>5, <2>6, <2>7, <2>8, <2>9 DEF Destructor
  <1>4. QED
    BY <1>1, <1>2, <1>3

LEMMA ControlStep == TypeOK /\ ControlInv /\ [Next]_vars => ControlInv'
  <1> SUFFICES ASSUME TypeOK, ControlInv, [Next]_vars PROVE ControlInv'
    OBVIOUS
  <1>1. ASSUME UNCHANGED <<gui, at, threadVars>> PROVE ControlInv'
    <2>0. PlacesInv /\ JoinInv /\ SaidInv
      BY DEF ControlInv
    <2>1. \A t \in Threads : Running(t)' = Running(t)
      BY <1>1 DEF Running
    <2>2. PlacesInv'
      BY <1>1, <2>0 DEF PlacesInv
    <2>3. JoinInv'
      BY <1>1, <2>0, <2>1, ThreadsAre DEF JoinInv, Owned, threadVars
    <2>4. SaidInv'
      BY <1>1, <2>0, <2>1, ThreadsAre DEF SaidInv, Reading, threadVars
    <2>5. QED
      BY <2>2, <2>3, <2>4 DEF ControlInv
  <1>2. CASE UNCHANGED vars
    BY <1>1, <1>2 DEF vars
  <1>3. ASSUME NEW d \in Decoders, TakeFrame(d) \/ ReleaseFrame(d) PROVE ControlInv'
    BY <1>1, <1>3 DEF TakeFrame, ReleaseFrame
  <1>4. QED
    BY <1>2, <1>3, LoaderControl, ReaderControl, DecoderControl, GuiControl DEF Next

-----------------------------------------------------------------------------
(***************************************************************************)
(* Packets.                                                                *)
(***************************************************************************)

\* A packet read comes last.
LEMMA ReadsLast ==
    ASSUME NEW s \in Seq(Nat), NEW q \in Seq(Nat), NEW n \in Nat
    PROVE  s \o (q \o <<n>>) = Append(s \o (q \o << >>), n)
  <1>1. <<n>> \in Seq(Nat) /\ s \o q \in Seq(Nat) /\ q \o << >> = q
    BY ConcatProperties, ConcatEmptySeq
  <1>2. s \o (q \o <<n>>) = (s \o q) \o <<n>>
    BY <1>1, ConcatAssociative
  <1>3. QED
    BY <1>1, <1>2, AppendIsConcat

\* A packet put into the queue was about to be put.
LEMMA PutsLast ==
    ASSUME NEW q \in Seq(Nat), NEW n \in Nat
    PROVE  Append(q, n) \o << >> = q \o <<n>>
  BY AppendProperties, AppendIsConcat, ConcatEmptySeq

LEMMA Associative ==
    \A a, b, c \in Seq(Nat) : (a \o b) \o c = a \o (b \o c)
  <1>1. SUFFICES ASSUME NEW a \in Seq(Nat), NEW b \in Seq(Nat), NEW c \in Seq(Nat)
                 PROVE  (a \o b) \o c = a \o (b \o c)
    OBVIOUS
  <1>2. QED
    BY ConcatAssociative

\* The head of the queue is submitted.
LEMMA SubmitsHead ==
    ASSUME NEW s \in Seq(Nat), NEW q \in Seq(Nat), q # << >>, NEW c \in Seq(Nat)
    PROVE  Append(s, Head(q)) \o (Tail(q) \o c) = s \o (q \o c)
  <1> DEFINE h == <<Head(q)>>
  <1>1. /\ Head(q) \in Nat /\ Tail(q) \in Seq(Nat) /\ h \in Seq(Nat)
        /\ Append(s, Head(q)) = s \o h
    BY HeadTailProperties, AppendIsConcat
  <1>2. q = h \o Tail(q)
    <2>1. h \o Tail(q) \in Seq(Nat) /\ Len(h \o Tail(q)) = Len(q)
      BY <1>1, HeadTailProperties, ConcatProperties
    <2>2. ASSUME NEW i \in 1 .. Len(q) PROVE q[i] = (h \o Tail(q))[i]
      BY <1>1, HeadTailProperties, ConcatProperties
    <2>3. QED
      BY <2>1, <2>2, SeqEqual
  <1> HIDE DEF h
  <1>a. Tail(q) \o c \in Seq(Nat)
    BY <1>1, ConcatProperties
  <1>3. (s \o h) \o (Tail(q) \o c) = s \o (h \o (Tail(q) \o c))
    <2>1. h \in Seq(Nat)
      BY <1>1
    <2>2. QED
      BY <2>1, <1>a, Associative
  <1>4. h \o (Tail(q) \o c) = (h \o Tail(q)) \o c
    <2>1. h \in Seq(Nat) /\ Tail(q) \in Seq(Nat)
      BY <1>1
    <2>2. QED
      BY <2>1, Associative
  <1>5. QED
    BY <1>1, <1>2, <1>3, <1>4

\* The packets a decoder still has, and the one that comes.
Kept(d) == IF at[d] = "dequeue" THEN Tail(queue[d]) ELSE queue[d]

Coming(d) == IF at["reader"] = "decodeAVPacket" /\ target = d THEN <<ReadCount>> ELSE << >>

LEMMA PacketTypes ==
    ASSUME IInv, NEW d \in Decoders
    PROVE  /\ queue[d] \in Seq(Nat) /\ read[d] \in Seq(Nat) /\ submitted[d] \in Seq(Nat)
           /\ ReadCount \in Nat
           /\ Kept(d) \in Seq(Nat) /\ Coming(d) \in Seq(Nat)
           /\ submitted[d] \o (Kept(d) \o Coming(d)) = read[d]
  <1>a. \A c \in Decoders : queue[c] \in Seq(Nat) /\ read[c] \in Seq(Nat)
                            /\ submitted[c] \in Seq(Nat)
    BY DEF IInv, TypeOK
  <1>b. Len(read["video"]) \in Nat /\ Len(read["audio"]) \in Nat
    BY <1>a, ThreadsAre, LenProperties
  <1>c. ReadCount \in Nat
    <2> DEFINE v == Len(read["video"])
               a == Len(read["audio"])
    <2>1. v \in Nat /\ a \in Nat /\ ReadCount = v + a
      BY <1>b DEF ReadCount
    <2> HIDE DEF v, a
    <2>2. QED
      BY <2>1
  <1>1. /\ \A c \in Decoders : queue[c] \in Seq(Nat) /\ read[c] \in Seq(Nat)
                               /\ submitted[c] \in Seq(Nat)
        /\ ReadCount \in Nat
    BY <1>a, <1>c
  <1>2. Kept(d) \in Seq(Nat)
    BY <1>1, HeadTailProperties DEF IInv, PacketInv, Kept
  <1>3. Coming(d) \in Seq(Nat)
    BY <1>1 DEF Coming
  <1>4. submitted[d] \o (Kept(d) \o Coming(d)) = read[d]
    BY DEF IInv, PacketInv, PacketsInOrder, Waiting, Kept, Coming
  <1>5. QED
    BY <1>1, <1>2, <1>3, <1>4

\* The order is kept where nothing that it is about moves.
LEMMA OrderIsKept ==
    ASSUME IInv, NEW d \in Decoders,
           queue'[d] = queue[d], submitted'[d] = submitted[d], read'[d] = read[d],
           at'[d] = "dequeue" <=> at[d] = "dequeue",
           Coming(d)' = Coming(d)
    PROVE  submitted'[d] \o Waiting(d)' = read'[d]
  <1>1. Waiting(d)' = Kept(d) \o Coming(d)
    BY DEF Waiting, Kept, Coming
  <1>2. QED
    BY <1>1, PacketTypes

LEMMA ReaderPackets == IInv /\ Reader => PacketInv'
  <1> SUFFICES ASSUME IInv, Reader PROVE PacketInv'
    OBVIOUS
  <1> USE ThreadsAre
  <1>0. TypeOK /\ PacketInv /\ UNCHANGED submitted
    BY DEF IInv, Reader, ReaderBegins, ReaderAwaitsLoader, ReaderReads, ReaderPuts,
       ReaderFails, ReaderReachesEnd, ReaderAwaitsVideo, ReaderAwaitsAudio, Notifies, Stops,
       packetVars
  <1>1. \A u \in Threads : u # "reader" => at'[u] = at[u]
    BY <1>0, Moves DEF Reader, ReaderBegins, ReaderAwaitsLoader, ReaderReads, ReaderPuts,
       ReaderFails, ReaderReachesEnd, ReaderAwaitsVideo, ReaderAwaitsAudio, Notifies, Stops,
       Loops, Atoms
  <1>2. ASSUME NEW d \in Decoders, ReaderReads(d) PROVE PacketInv'
    <2>1. /\ at["reader"] = "av_read_frame" /\ UNCHANGED queue
          /\ d \in open => /\ at'["reader"] = "decodeAVPacket" /\ target' = d
                           /\ read' = [read EXCEPT ![d] = Append(read[d], ReadCount + 1)]
          /\ d \notin open => at'["reader"] = "top" /\ read' = read
      BY <1>0, <1>2, Moves DEF ReaderReads, Atoms
    <2>2. \A e \in Decoders : Coming(e) = << >>
      BY <2>1 DEF Coming
    <2>3. ASSUME NEW e \in Decoders, e # d \/ d \notin open
          PROVE  submitted'[e] \o Waiting(e)' = read'[e]
      <3>1. Coming(e)' = << >> /\ read'[e] = read[e]
        BY <1>0, <2>1, <2>3 DEF Coming, TypeOK
      <3>2. QED
        BY <1>0, <1>1, <2>1, <2>2, <3>1, OrderIsKept
    <2>4. ASSUME d \in open PROVE submitted'[d] \o Waiting(d)' = read'[d]
      <3>1. ReadCount' = ReadCount + 1
        <4>1. \A e \in Decoders : read[e] \in Seq(Nat) /\ Len(read[e]) \in Nat
          BY PacketTypes, LenProperties
        <4>2. ReadCount \in Nat /\ ReadCount + 1 \in Nat
          <5>1. ReadCount \in Nat
            BY PacketTypes
          <5>2. QED
            BY <5>1
        <4>3. Len(read'[d]) = Len(read[d]) + 1
          <5>1. read'[d] = Append(read[d], ReadCount + 1)
            BY <1>0, <2>1, <2>4 DEF TypeOK
          <5>2. QED
            BY <4>1, <4>2, <5>1, AppendProperties
        <4>4. \A e \in Decoders : e # d => Len(read'[e]) = Len(read[e])
          BY <1>0, <2>1, <2>4 DEF TypeOK
        <4> DEFINE v == Len(read["video"])
                   a == Len(read["audio"])
                   vv == Len(read'["video"])
                   aa == Len(read'["audio"])
        <4>5. (vv = v + 1 /\ aa = a) \/ (vv = v /\ aa = a + 1)
          <5>1. d = "video" \/ d = "audio"
            BY DEF Decoders
          <5>2. QED
            BY <4>3, <4>4, <5>1
        <4>6. ReadCount = v + a /\ ReadCount' = vv + aa /\ v \in Nat /\ a \in Nat
          BY <4>1 DEF ReadCount
        <4> HIDE DEF v, a, vv, aa
        <4>7. QED
          BY <4>5, <4>6
      <3>2. Waiting(d)' = Kept(d) \o <<ReadCount + 1>>
        BY <1>1, <2>1, <2>4, <3>1 DEF Waiting, Kept
      <3>3. read'[d] = Append(read[d], ReadCount + 1)
        BY <1>0, <2>1, <2>4 DEF TypeOK
      <3>4. submitted[d] \o (Kept(d) \o << >>) = read[d]
        BY <2>2, PacketTypes
      <3>5. submitted[d] \in Seq(Nat) /\ Kept(d) \in Seq(Nat) /\ ReadCount \in Nat
        BY PacketTypes
      <3>6. ReadCount + 1 \in Nat
        BY <3>5
      <3>7. submitted[d] \o (Kept(d) \o <<ReadCount + 1>>)
              = Append(submitted[d] \o (Kept(d) \o << >>), ReadCount + 1)
        BY <3>5, <3>6, ReadsLast
      <3>8. QED
        BY <1>0, <3>2, <3>3, <3>4, <3>7
    <2>5. PacketsInOrder'
      BY <2>3, <2>4 DEF PacketsInOrder
    <2>6. QED
      BY <1>0, <1>1, <2>1, <2>5 DEF PacketInv
  <1>3. CASE ReaderPuts
    <2>1. /\ at["reader"] = "decodeAVPacket" /\ at'["reader"] = "top"
          /\ queue' = [queue EXCEPT ![target] = Append(queue[target], ReadCount)]
          /\ UNCHANGED <<target, read>>
      BY <1>0, <1>3, Moves DEF ReaderPuts, Atoms, threadVars
    <2>2. ASSUME NEW e \in Decoders, e # target
          PROVE  submitted'[e] \o Waiting(e)' = read'[e]
      <3>1. Coming(e)' = << >> /\ Coming(e) = << >> /\ queue'[e] = queue[e]
        BY <1>0, <2>1, <2>2 DEF Coming, TypeOK
      <3>2. QED
        BY <1>0, <1>1, <2>1, <3>1, OrderIsKept
    <2>3. /\ target \in Decoders
          /\ queue'[target] = Append(queue[target], ReadCount)
      BY <1>0, <2>1 DEF TypeOK
    <2>4. queue[target] \in Seq(Nat) /\ Kept(target) \in Seq(Nat) /\ ReadCount \in Nat
      BY <2>3, PacketTypes
    <2>5. submitted'[target] \o Waiting(target)' = read'[target]
      <3>1. (IF at'[target] = "dequeue" THEN Tail(queue'[target]) ELSE queue'[target])
              = Append(Kept(target), ReadCount)
        <4>1. CASE at[target] = "dequeue"
          <5>1. queue[target] # << >>
            BY <1>0, <2>3, <4>1 DEF PacketInv
          <5>2. QED
            BY <1>1, <2>3, <2>4, <4>1, <5>1, HeadTailAppend DEF Kept
        <4>2. CASE at[target] # "dequeue"
          BY <1>1, <2>3, <2>4, <4>2 DEF Kept
        <4>3. QED
          BY <4>1, <4>2
      <3>2. Waiting(target)' = Append(Kept(target), ReadCount) \o << >>
        BY <2>1, <3>1 DEF Waiting
      <3>3. Coming(target) = <<ReadCount>>
        BY <2>1 DEF Coming
      <3>4. submitted[target] \o (Kept(target) \o Coming(target)) = read[target]
        BY <2>3, PacketTypes
      <3>5. Waiting(target)' = Kept(target) \o Coming(target)
        BY <2>4, <3>2, <3>3, PutsLast
      <3>6. QED
        BY <1>0, <2>1, <3>4, <3>5
    <2>6. PacketsInOrder'
      BY <2>1, <2>2, <2>5 DEF PacketsInOrder
    <2>7. \A d \in Decoders : queue[d] # << >> => queue'[d] # << >>
      <3>1. queue'[target] # << >>
        BY <2>3, <2>4, AppendProperties
      <3>2. \A d \in Decoders : d # target => queue'[d] = queue[d]
        BY <1>0, <2>1 DEF TypeOK
      <3>3. QED
        BY <3>1, <3>2
    <2>8. QED
      BY <1>0, <1>1, <2>1, <2>6, <2>7 DEF PacketInv
  <1>4. ASSUME ~ReaderPuts, ~ \E d \in Decoders : ReaderReads(d) PROVE PacketInv'
    <2>1. UNCHANGED <<queue, read, target>>
      BY <1>4 DEF Reader, ReaderBegins, ReaderAwaitsLoader,
         ReaderFails, ReaderReachesEnd, ReaderAwaitsVideo, ReaderAwaitsAudio, Notifies, Stops,
         threadVars, packetVars
    <2>2. /\ at["reader"] # "decodeAVPacket" /\ at'["reader"] # "decodeAVPacket"
          /\ at'["reader"] = "emptyAudio" => queue["video"] = << >>
      BY <1>0, <1>4, Moves DEF Reader, ReaderBegins, ReaderAwaitsLoader,
         ReaderFails, ReaderReachesEnd, ReaderAwaitsVideo, ReaderAwaitsAudio, Notifies, Stops,
         Loops, Atoms
    <2>3. \A d \in Decoders : Coming(d)' = Coming(d)
      BY <2>2 DEF Coming
    <2>4. PacketsInOrder'
      BY <1>0, <1>1, <2>1, <2>3, OrderIsKept DEF PacketsInOrder
    <2>5. QED
      BY <1>0, <1>1, <2>1, <2>2, <2>4 DEF PacketInv
  <1>5. QED
    BY <1>2, <1>3, <1>4

LEMMA DecoderPackets ==
    ASSUME IInv, NEW d \in Decoders, Decoder(d)
    PROVE  PacketInv'
  <1> USE ThreadsAre
  <1>0. /\ TypeOK /\ PacketInv
        /\ UNCHANGED <<target, read>>
    BY DEF IInv, Decoder, DecoderBegins, DecoderHeads, DecoderMakesFrame, DecoderSubmits,
       DecoderDequeues, Notifies, threadVars, packetVars
  <1>1. \A u \in Threads : u # d => at'[u] = at[u]
    BY <1>0, Moves DEF Decoder, DecoderBegins, DecoderHeads, DecoderMakesFrame, DecoderSubmits,
       DecoderDequeues, Notifies, Loops, Atoms
  <1>2. \A e \in Decoders : Coming(e)' = Coming(e)
    BY <1>0, <1>1 DEF Coming, ReadCount
  <1>3. CASE DecoderSubmits(d)
    <2>1. /\ at[d] = "worker" /\ at'[d] = "dequeue" /\ UNCHANGED queue
          /\ submitted' = [submitted EXCEPT ![d] = Append(submitted[d], Head(queue[d]))]
      BY <1>0, <1>3, Moves DEF DecoderSubmits, Atoms
    <2>2. ASSUME NEW e \in Decoders, e # d PROVE submitted'[e] \o Waiting(e)' = read'[e]
      BY <1>0, <1>1, <1>2, <2>1, <2>2, OrderIsKept DEF TypeOK
    <2>3. submitted'[d] \o Waiting(d)' = read'[d]
      <3>1. Waiting(d)' = Tail(queue[d]) \o Coming(d)
        BY <1>2, <2>1 DEF Waiting, Coming
      <3>2. submitted'[d] = Append(submitted[d], Head(queue[d]))
        BY <1>0, <2>1 DEF TypeOK
      <3>3. queue[d] # << >> /\ Kept(d) = queue[d]
        BY <1>0, <2>1 DEF PacketInv, Kept
      <3>4. /\ queue[d] \in Seq(Nat) /\ submitted[d] \in Seq(Nat) /\ Coming(d) \in Seq(Nat)
            /\ submitted[d] \o (queue[d] \o Coming(d)) = read[d]
        BY <3>3, PacketTypes
      <3>5. Append(submitted[d], Head(queue[d])) \o (Tail(queue[d]) \o Coming(d))
              = submitted[d] \o (queue[d] \o Coming(d))
        BY <3>3, <3>4, SubmitsHead
      <3>6. QED
        BY <1>0, <3>1, <3>2, <3>4, <3>5
    <2>4. PacketsInOrder'
      BY <2>2, <2>3 DEF PacketsInOrder
    <2>5. QED
      BY <1>0, <1>1, <2>1, <2>4 DEF PacketInv
  <1>4. CASE DecoderDequeues(d)
    <2>1. /\ at[d] = "dequeue" /\ at'[d] = "top" /\ UNCHANGED submitted
          /\ queue' = [queue EXCEPT ![d] = Tail(queue[d])]
      BY <1>0, <1>4, Moves DEF DecoderDequeues, Atoms
    <2>2. \A e \in Decoders : queue'[e] = IF e = d THEN Tail(queue[d]) ELSE queue[e]
      BY <1>0, <2>1 DEF TypeOK
    <2>3. ASSUME NEW e \in Decoders, e # d PROVE submitted'[e] \o Waiting(e)' = read'[e]
      BY <1>0, <1>1, <1>2, <2>1, <2>2, <2>3, OrderIsKept
    <2>4. Waiting(d)' = Kept(d) \o Coming(d)
      BY <1>2, <2>1, <2>2 DEF Waiting, Kept, Coming
    <2>5. submitted'[d] \o Waiting(d)' = read'[d]
      BY <1>0, <2>1, <2>4, PacketTypes
    <2>6. PacketsInOrder'
      BY <2>3, <2>5 DEF PacketsInOrder
    <2>7. at'["reader"] = "emptyAudio" => queue'["video"] = << >>
      BY <1>0, <1>1, <2>1, <2>2 DEF PacketInv
    <2>8. QED
      BY <1>0, <1>1, <2>1, <2>2, <2>6, <2>7 DEF PacketInv
  <1>5. ASSUME ~DecoderSubmits(d), ~DecoderDequeues(d) PROVE PacketInv'
    <2>1. UNCHANGED <<queue, submitted>>
      BY <1>5 DEF Decoder, DecoderBegins, DecoderHeads, DecoderMakesFrame, Notifies, packetVars
    <2>2. /\ at[d] # "dequeue" /\ at'[d] # "dequeue"
          /\ at'[d] = "worker" => queue[d] # << >>
      BY <1>0, <1>5, Moves DEF Decoder, DecoderBegins, DecoderHeads, DecoderMakesFrame, Notifies,
         Loops, Atoms
    <2>3. PacketsInOrder'
      BY <1>0, <1>1, <1>2, <2>1, <2>2, OrderIsKept DEF PacketsInOrder
    <2>4. QED
      BY <1>0, <1>1, <2>1, <2>2, <2>3 DEF PacketInv
  <1>6. QED
    BY <1>3, <1>4, <1>5

LEMMA PacketStep == IInv /\ [Next]_vars => PacketInv'
  <1> SUFFICES ASSUME IInv, [Next]_vars PROVE PacketInv'
    OBVIOUS
  <1> USE ThreadsAre
  <1>1. ASSUME UNCHANGED <<queue, read, submitted, target>>,
               UNCHANGED at \/ (/\ at["reader"] # "decodeAVPacket"
                                /\ at'["reader"] \notin {"decodeAVPacket", "emptyAudio"}
                                /\ \A d \in Decoders : at'[d] = at[d])
        PROVE  PacketInv'
    <2>1. \A d \in Decoders : Coming(d)' = Coming(d)
      BY <1>1 DEF Coming, ReadCount
    <2>2. PacketsInOrder'
      BY <1>1, <2>1, OrderIsKept DEF PacketsInOrder
    <2>3. QED
      BY <1>1, <2>2 DEF IInv, PacketInv
  <1>2. CASE UNCHANGED vars \/ Delete \/ Destructor
    <2>1. UNCHANGED <<at, queue, read, submitted, target>>
      BY <1>2 DEF vars, Delete, Destructor, LoaderJoined, ReaderJoined, VideoInterrupted,
         VideoJoined, AudioInterrupted, AudioJoined, Interrupts, Unblocks, threadVars, packetVars
    <2>2. QED
      BY <1>1, <2>1
  <1>3. CASE (\E blank \in BOOLEAN : Load(blank)) \/ Start \/ Loader
    <2>1. UNCHANGED <<queue, read, submitted, target>>
      BY <1>3 DEF Load, Start, Loader, LoaderBegins, LoaderFails, LoaderOpens, LoaderReports,
         LoaderFinishes, Notifies, threadVars, packetVars
    <2>2. PacketInv /\ TypeOK
      BY DEF IInv
    <2>3. CASE Start
      <3>1. at["reader"] = "none"
        BY <2>3 DEF IInv, ControlInv, SaidInv, Start
      <3>2. at'["reader"] = "top" /\ \A d \in Decoders : at'[d] = at[d]
        BY <2>2, <2>3, Moves DEF Start, Atoms
      <3>3. QED
        BY <1>1, <2>1, <3>1, <3>2
    <2>4. CASE (\E blank \in BOOLEAN : Load(blank)) \/ Loader
      <3>1. \A u \in Threads : u # "loader" => at'[u] = at[u]
        BY <2>2, <2>4, Moves DEF Load, Loader, LoaderBegins, LoaderFails, LoaderOpens,
           LoaderReports, LoaderFinishes, Notifies, Loops, Atoms
      <3>2. \A d \in Decoders : Coming(d)' = Coming(d) /\ at'[d] = at[d]
        BY <2>1, <3>1 DEF Coming, ReadCount
      <3>3. PacketsInOrder'
        BY <2>1, <3>2, OrderIsKept DEF PacketsInOrder
      <3>4. QED
        BY <2>1, <2>2, <3>1, <3>3 DEF PacketInv
    <2>5. QED
      BY <1>3, <2>3, <2>4
  <1>4. ASSUME NEW d \in Decoders, TakeFrame(d) \/ ReleaseFrame(d) PROVE PacketInv'
    BY <1>1, <1>4 DEF TakeFrame, ReleaseFrame, threadVars, packetVars
  <1>5. QED
    BY <1>2, <1>3, <1>4, ReaderPackets, DecoderPackets DEF Next

LEMMA Inductive == IInv /\ [Next]_vars => IInv'
  BY TypeStep, ControlStep, PacketStep DEF IInv

LEMMA Invariant == Spec => []IInv
  <1>1. Init => IInv
    BY InitInv
  <1>2. IInv /\ [Next]_vars => IInv'
    BY Inductive
  <1>3. QED
    BY <1>1, <1>2, PTL DEF Spec

-----------------------------------------------------------------------------
(***************************************************************************)
(* What a demuxer promises in every state.                                 *)
(***************************************************************************)

\* The variables keep their types; in particular no decoder takes the head of
\* an empty queue, and the reader's target is a decoder.
THEOREM DemuxerTypeOK == Spec => []TypeOK
  BY Invariant, PTL DEF IInv

\* Every packet read is submitted to its codec exactly once and in order,
\* however often worker() asks for a Retry and whatever the limit.
THEOREM PacketsStayInOrder == Spec => []PacketsInOrder
  <1>1. IInv => PacketsInOrder
    BY DEF IInv, PacketInv
  <1>2. QED
    BY <1>1, Invariant, PTL

\* The reader puts packets only where a decoder with an open codec runs: the
\* destructor interrupts the decoders after it has joined the reader.
THEOREM ReaderAlwaysPutsToOpen == Spec => []ReaderPutsToOpen
  <1>1. IInv => ReaderPutsToOpen
    <2> SUFFICES ASSUME IInv, at["reader"] = "decodeAVPacket" PROVE IsOpen(target)
      BY DEF ReaderPutsToOpen
    <2>1. target \in open /\ target \in Decoders
      BY DEF IInv, TypeOK, ControlInv, SaidInv
    <2>2. gui \notin AfterReader
      BY DEF IInv, ControlInv, JoinInv, Running
    <2>3. Running(target)
      BY <2>1, <2>2 DEF IInv, ControlInv, JoinInv
    <2>4. QED
      BY <2>1, <2>3 DEF IsOpen
  <1>2. QED
    BY <1>1, Invariant, PTL

\* No thread of a deleted demuxer is in its callable.
THEOREM GoneIsQuiet == Spec => []QuietOnceGone
  <1>1. IInv => QuietOnceGone
    <2> SUFFICES ASSUME IInv, gui = "gone", NEW t \in Threads PROVE ~Running(t)
      BY DEF QuietOnceGone
    <2>1. t \in {"loader", "reader", "video", "audio"}
      BY DEF Threads, Decoders
    <2>2. QED
      BY <2>1 DEF IInv, ControlInv, JoinInv, AfterLoader, AfterReader
  <1>2. QED
    BY <1>1, Invariant, PTL

-----------------------------------------------------------------------------
(***************************************************************************)
(* Every step is one that DemuxerSession allows, or changes nothing there. *)
(***************************************************************************)

Undecoded(d) == Len(read[d]) - Len(submitted[d])

Life ==
    CASE gui \in {"constructed", "loaded", "started"} -> "owned"
      [] gui = "gone" -> "deleted"
      [] OTHER -> "deleting"

LEMMA LifeIs ==
    ASSUME IInv
    PROVE  /\ gui \in {"constructed", "loaded", "started"} <=> Life = "owned"
           /\ gui = "gone" <=> Life = "deleted"
           /\ gui \in {"loader", "reader", "unblocked video", "video", "unblocked audio", "audio"}
                <=> Life = "deleting"
           /\ \A t \in Threads : Running(t) => Life # "deleted"
  <1>1. gui \in {"constructed", "loaded", "started", "loader", "reader", "unblocked video",
                "video", "unblocked audio", "audio", "gone"}
    BY DEF IInv, TypeOK
  <1>2. \A t \in Threads : Running(t) => gui # "gone"
    BY DEF IInv, ControlInv, JoinInv, AfterLoader, AfterReader, Threads, Decoders
  <1>3. QED
    BY <1>1, <1>2 DEF Life

\* What is left to decode is what a decoder keeps and what comes.
LEMMA UndecodedIs ==
    ASSUME IInv, NEW d \in Decoders
    PROVE  Undecoded(d) = Len(Kept(d)) + Len(Coming(d))
  <1>1. /\ submitted[d] \in Seq(Nat) /\ Kept(d) \in Seq(Nat) /\ Coming(d) \in Seq(Nat)
        /\ submitted[d] \o (Kept(d) \o Coming(d)) = read[d]
    BY PacketTypes
  <1>2. /\ Kept(d) \o Coming(d) \in Seq(Nat)
        /\ Len(Kept(d) \o Coming(d)) = Len(Kept(d)) + Len(Coming(d))
    BY <1>1, ConcatProperties
  <1>3. Len(read[d]) = Len(submitted[d]) + (Len(Kept(d)) + Len(Coming(d)))
    BY <1>1, <1>2, ConcatProperties
  <1> DEFINE s == Len(submitted[d])
             k == Len(Kept(d)) + Len(Coming(d))
             r == Len(read[d])
  <1>4. s \in Nat /\ k \in Nat /\ r = s + k /\ Undecoded(d) = r - s
    BY <1>1, <1>3, LenProperties DEF Undecoded
  <1>5. SUFFICES Undecoded(d) = k
    OBVIOUS
  <1> HIDE DEF s, k, r
  <1>6. QED
    BY <1>4

LEMMA Stutters ==
    ASSUME UNCHANGED <<loaderSaid, readerSaid, read, submitted>>, Life' = Life
    PROVE  UNCHANGED Session!vars
  BY DEF Session!vars, Life

LEMMA InitSession == Init => Session!Init
  <1> SUFFICES ASSUME Init PROVE Session!Init
    OBVIOUS
  <1>1. \A d \in Decoders : Len(read[d]) - Len(submitted[d]) = 0
    BY DEF Init
  <1>2. QED
    BY <1>1 DEF Init, Session!Init

LEMMA SessionLoader == IInv /\ Loader => [Session!Next]_(Session!vars)
  <1> SUFFICES ASSUME IInv, Loader PROVE [Session!Next]_(Session!vars)
    OBVIOUS
  <1> USE ThreadsAre
  <1>1. /\ UNCHANGED <<gui, readerSaid, read, submitted>>
        /\ Life' = Life
    BY DEF Loader, LoaderBegins, LoaderFails, LoaderOpens, LoaderReports, LoaderFinishes, Notifies,
       threadVars, packetVars, Life
  <1>2. CASE UNCHANGED loaderSaid
    BY <1>1, <1>2, Stutters
  <1>3. ASSUME NEW from, NEW to, loaderSaid = from, loaderSaid' = to, Running("loader")
        PROVE  Session!LoadingGoesOn(from, to)
    BY <1>1, <1>3, LifeIs DEF Session!LoadingGoesOn, Session!Alive, Life
  <1>4. \/ UNCHANGED loaderSaid
        \/ /\ Running("loader")
           /\ \/ loaderSaid = "LoadingMedia" /\ loaderSaid' = "InvalidMedia"
              \/ loaderSaid = "LoadingMedia" /\ loaderSaid' = "LoadedMedia"
              \/ loaderSaid = "LoadedMedia" /\ loaderSaid' = "BufferedMedia"
    BY DEF IInv, ControlInv, SaidInv, Running, Loader, LoaderBegins, LoaderFails, LoaderOpens,
       LoaderReports, LoaderFinishes, Notifies, threadVars
  <1>5. QED
    BY <1>2, <1>3, <1>4 DEF Session!Next

LEMMA SessionReader == IInv /\ Reader => [Session!Next]_(Session!vars)
  <1> SUFFICES ASSUME IInv, Reader PROVE [Session!Next]_(Session!vars)
    OBVIOUS
  <1> USE ThreadsAre
  <1>1. /\ UNCHANGED <<gui, loaderSaid, submitted>>
        /\ Life' = Life
    BY DEF Reader, ReaderBegins, ReaderAwaitsLoader, ReaderReads, ReaderPuts, ReaderFails,
       ReaderReachesEnd, ReaderAwaitsVideo, ReaderAwaitsAudio, Notifies, Stops, threadVars,
       packetVars, Life
  <1>2. Running("reader") => Life # "deleted" /\ readerSaid = "PlayingState"
    BY LifeIs DEF IInv, ControlInv, SaidInv
  <1>3. Reading => Running("reader") /\ loaderSaid = "BufferedMedia"
    BY DEF IInv, ControlInv, SaidInv, Reading, Running
  <1>4. CASE UNCHANGED <<readerSaid, read>>
    BY <1>1, <1>4, Stutters
  <1>5. ASSUME Running("reader"), ~Running("loader"), Stops("InvalidMedia")
        PROVE  Session!Fails
    <2>1. loaderSaid \in {"LoadingMedia", "LoadedMedia"} => Life = "deleting"
      <3> SUFFICES ASSUME loaderSaid \in {"LoadingMedia", "LoadedMedia"} PROVE Life = "deleting"
        OBVIOUS
      <3>1. interrupted["loader"]
        BY <1>5 DEF IInv, ControlInv, SaidInv
      <3>2. Life # "owned"
        BY <3>1, LifeIs DEF IInv, ControlInv, JoinInv, Owned
      <3>3. QED
        BY <1>2, <1>5, <3>2 DEF Life
    <2>2. readerSaid' = "InvalidMedia" /\ UNCHANGED <<read, submitted>>
      BY <1>5 DEF Stops, packetVars
    <2>3. QED
      BY <1>1, <1>2, <1>5, <2>1, <2>2 DEF Session!Fails, Session!Alive, Life
  <1>6. ASSUME NEW d \in Decoders, ReaderReads(d)
        PROVE  Session!Reads(d) \/ UNCHANGED Session!vars
    <2>1. Reading /\ UNCHANGED readerSaid
      BY <1>6 DEF ReaderReads, Reading
    <2>2. CASE d \in open
      <3>1. read' = [read EXCEPT ![d] = Append(read[d], ReadCount + 1)]
        BY <1>6, <2>2 DEF ReaderReads
      <3>2. /\ \A e \in Decoders : /\ read[e] \in Seq(Nat) /\ Len(read[e]) \in Nat
                                   /\ Len(submitted[e]) \in Nat
            /\ ReadCount \in Nat
        BY PacketTypes, LenProperties
      <3>3. ReadCount + 1 \in Nat
        BY <3>2
      <3>4. /\ read'[d] = Append(read[d], ReadCount + 1)
            /\ \A e \in Decoders : e # d => read'[e] = read[e]
        BY <3>1 DEF IInv, TypeOK
      <3>5. Len(read'[d]) = Len(read[d]) + 1
        BY <3>2, <3>3, <3>4, AppendProperties
      <3>6. Len(read'[d]) - Len(submitted'[d]) = (Len(read[d]) - Len(submitted[d])) + 1
        BY <1>1, <3>2, <3>5
      <3>7. [e \in Decoders |-> Len(read'[e]) - Len(submitted'[e])]
              = [[e \in Decoders |-> Len(read[e]) - Len(submitted[e])]
                   EXCEPT ![d] = Len(read[d]) - Len(submitted[d]) + 1]
        BY <1>1, <3>4, <3>6
      <3>8. QED
        BY <1>1, <1>2, <1>3, <2>1, <3>7 DEF Session!Reads, Session!Alive, Life
    <2>3. CASE d \notin open
      BY <1>1, <1>6, <2>1, <2>3, Stutters DEF ReaderReads
    <2>4. QED
      BY <2>2, <2>3
  <1>7. CASE ReaderAwaitsAudio
    <2>1. /\ queue["audio"] = << >> /\ queue["video"] = << >>
          /\ at["reader"] = "emptyAudio"
          /\ readerSaid' = "EndOfMedia" /\ UNCHANGED <<read, submitted>>
      BY <1>7 DEF IInv, PacketInv, ReaderAwaitsAudio, Stops, packetVars
    <2>2. ASSUME NEW d \in Decoders PROVE Undecoded(d) = 0
      <3>1. queue[d] = << >>
        BY <2>1 DEF Decoders
      <3>2. Kept(d) = << >> /\ Coming(d) = << >>
        BY <2>1, <3>1 DEF IInv, PacketInv, Kept, Coming
      <3>3. QED
        BY <3>2, UndecodedIs
    <2>3. Reading
      BY <2>1 DEF Reading
    <2>4. QED
      BY <1>1, <1>2, <1>3, <2>1, <2>2, <2>3
         DEF Session!Next, Session!Ends, Session!Alive, Life, Undecoded
  <1>8. CASE ReaderAwaitsLoader
    <2>1. Running("reader") /\ ~Running("loader")
      BY <1>8 DEF ReaderAwaitsLoader, Running
    <2>2. Stops("InvalidMedia") \/ UNCHANGED <<readerSaid, read>>
      BY <1>8 DEF ReaderAwaitsLoader, threadVars, packetVars
    <2>3. QED
      BY <1>4, <1>5, <2>1, <2>2 DEF Session!Next
  <1>9. CASE ReaderFails
    <2>1. Reading /\ Stops("InvalidMedia")
      BY <1>9 DEF ReaderFails, Reading
    <2>2. ~Running("loader")
      BY <2>1 DEF IInv, ControlInv, SaidInv
    <2>3. QED
      BY <1>3, <1>5, <2>1, <2>2 DEF Session!Next
  <1>10. CASE ReaderBegins \/ ReaderPuts \/ ReaderReachesEnd \/ ReaderAwaitsVideo
              \/ Notifies("reader")
    BY <1>4, <1>10 DEF ReaderBegins, ReaderPuts, ReaderReachesEnd, ReaderAwaitsVideo, Notifies,
       threadVars, packetVars
  <1>11. QED
    BY <1>6, <1>7, <1>8, <1>9, <1>10 DEF Reader, Session!Next

LEMMA SessionDecoder ==
    ASSUME IInv, NEW d \in Decoders, Decoder(d)
    PROVE  [Session!Next]_(Session!vars)
  <1> USE ThreadsAre
  <1>1. /\ UNCHANGED <<gui, loaderSaid, readerSaid, read>>
        /\ Life' = Life
    BY DEF Decoder, DecoderBegins, DecoderHeads, DecoderMakesFrame, DecoderSubmits,
       DecoderDequeues, Notifies, threadVars, packetVars, Life
  <1>2. CASE UNCHANGED submitted
    BY <1>1, <1>2, Stutters
  <1>3. CASE DecoderSubmits(d)
    <2>1. /\ at[d] = "worker"
          /\ submitted' = [submitted EXCEPT ![d] = Append(submitted[d], Head(queue[d]))]
      BY <1>3 DEF DecoderSubmits
    <2>2. Running(d) /\ Life # "deleted"
      BY <2>1, LifeIs DEF Running
    <2>3. queue[d] \in Seq(Nat) /\ queue[d] # << >> /\ Kept(d) = queue[d]
      BY <2>1, PacketTypes DEF IInv, PacketInv, Kept
    <2>4. Head(queue[d]) \in Nat /\ Len(queue[d]) \in Nat /\ Len(queue[d]) # 0
      BY <2>3
    <2>5. /\ \A e \in Decoders : /\ submitted[e] \in Seq(Nat) /\ Len(read[e]) \in Nat
                                 /\ Len(submitted[e]) \in Nat
          /\ Len(Coming(d)) \in Nat
      BY PacketTypes, LenProperties
    <2>6. Undecoded(d) = Len(queue[d]) + Len(Coming(d))
      BY <2>3, UndecodedIs
    <2>7. Len(read[d]) - Len(submitted[d]) > 0
      <3> DEFINE q == Len(queue[d])
                 c == Len(Coming(d))
      <3>1. q \in Nat /\ c \in Nat /\ q # 0 /\ Undecoded(d) = q + c
        BY <2>4, <2>5, <2>6
      <3> HIDE DEF q, c
      <3>2. Undecoded(d) > 0
        BY <3>1
      <3>3. QED
        BY <3>2 DEF Undecoded
    <2>8. /\ submitted'[d] = Append(submitted[d], Head(queue[d]))
          /\ \A e \in Decoders : e # d => submitted'[e] = submitted[e]
      BY <2>1 DEF IInv, TypeOK
    <2>9. Len(submitted'[d]) = Len(submitted[d]) + 1
      BY <2>4, <2>5, <2>8, AppendProperties
    <2>10. Len(read'[d]) - Len(submitted'[d]) = (Len(read[d]) - Len(submitted[d])) - 1
      BY <1>1, <2>5, <2>9
    <2>11. [e \in Decoders |-> Len(read'[e]) - Len(submitted'[e])]
             = [[e \in Decoders |-> Len(read[e]) - Len(submitted[e])]
                  EXCEPT ![d] = Len(read[d]) - Len(submitted[d]) - 1]
      BY <1>1, <2>8, <2>10
    <2>12. Session!Decodes(d)
      BY <1>1, <2>2, <2>7, <2>11 DEF Session!Decodes, Session!Alive, Life
    <2>13. QED
      BY <2>12 DEF Session!Next
  <1>4. CASE ~DecoderSubmits(d)
    BY <1>2, <1>4 DEF Decoder, DecoderBegins, DecoderHeads, DecoderMakesFrame, DecoderDequeues,
       Notifies, packetVars
  <1>5. QED
    BY <1>3, <1>4

LEMMA SessionGui ==
    ASSUME IInv, (\E blank \in BOOLEAN : Load(blank)) \/ Start \/ Delete \/ Destructor
    PROVE  [Session!Next]_(Session!vars)
  <1>1. CASE \E blank \in BOOLEAN : Load(blank)
    <2>1. /\ gui = "constructed" /\ gui' = "loaded" /\ loaderSaid = "none"
          /\ loaderSaid' \in {"NoMedia", "LoadingMedia"}
          /\ UNCHANGED <<readerSaid, read, submitted>>
      BY <1>1 DEF Load, packetVars, IInv, ControlInv, SaidInv
    <2>2. Life = "owned" /\ Life' = "owned"
      BY <2>1 DEF Life
    <2>3. Session!Load(loaderSaid')
      BY <2>1, <2>2 DEF Session!Load, Life
    <2>4. QED
      BY <2>1, <2>3 DEF Session!Next
  <1>2. CASE Start
    <2>1. /\ gui = "loaded" /\ gui' = "started" /\ loaderSaid # "none" /\ readerSaid = "none"
          /\ readerSaid' = "PlayingState" /\ UNCHANGED <<loaderSaid, read, submitted>>
      BY <1>2 DEF Start, packetVars, IInv, ControlInv, SaidInv
    <2>2. Life = "owned" /\ Life' = "owned"
      BY <2>1 DEF Life
    <2>3. Session!Start
      BY <2>1, <2>2 DEF Session!Start, Life
    <2>4. QED
      BY <2>3 DEF Session!Next
  <1>3. CASE Delete \/ Destructor
    <2>1. UNCHANGED <<loaderSaid, readerSaid, read, submitted>>
      BY <1>3 DEF Delete, Destructor, LoaderJoined, ReaderJoined, VideoInterrupted, VideoJoined,
         AudioInterrupted, AudioJoined, Interrupts, Unblocks, threadVars, packetVars
    <2>2. CASE Delete
      <3>1. Life = "owned" /\ Life' = "deleting"
        BY <2>2 DEF Delete, Owned, Life
      <3>2. QED
        BY <2>1, <3>1 DEF Session!Next, Session!Delete, Life
    <2>3. CASE AudioJoined
      <3>1. Life = "deleting" /\ Life' = "deleted"
        BY <2>3 DEF AudioJoined, Life
      <3>2. QED
        BY <2>1, <3>1 DEF Session!Next, Session!Deleted, Life
    <2>4. CASE LoaderJoined \/ ReaderJoined \/ VideoInterrupted \/ VideoJoined \/ AudioInterrupted
      <3>1. Life' = Life
        BY <2>4 DEF LoaderJoined, ReaderJoined, VideoInterrupted, VideoJoined, AudioInterrupted,
           Life
      <3>2. QED
        BY <2>1, <3>1, Stutters
    <2>5. QED
      BY <1>3, <2>2, <2>3, <2>4 DEF Destructor
  <1>4. QED
    BY <1>1, <1>2, <1>3

\* Whatever the threads do and whenever the destructor runs, the player sees a
\* DemuxerSession: signals in order, EndOfMedia only with nothing left to
\* decode, silence after deletion (the safety part of KeepsPromise).
THEOREM DemuxerKeepsSession == Spec => Session!Safe
  <1>1. Init => Session!Init
    BY InitSession
  <1>2. IInv /\ [Next]_vars => [Session!Next]_(Session!vars)
    <2> SUFFICES ASSUME IInv, [Next]_vars PROVE [Session!Next]_(Session!vars)
      OBVIOUS
    <2>1. CASE UNCHANGED vars
      <3>1. UNCHANGED <<loaderSaid, readerSaid, read, submitted>> /\ Life' = Life
        BY <2>1 DEF vars, threadVars, packetVars, Life
      <3>2. QED
        BY <3>1, Stutters
    <2>2. ASSUME NEW d \in Decoders, TakeFrame(d) \/ ReleaseFrame(d)
          PROVE  [Session!Next]_(Session!vars)
      <3>1. UNCHANGED <<loaderSaid, readerSaid, read, submitted>> /\ Life' = Life
        BY <2>2 DEF TakeFrame, ReleaseFrame, threadVars, packetVars, Life
      <3>2. QED
        BY <3>1, Stutters
    <2>3. QED
      BY <2>1, <2>2, SessionLoader, SessionReader, SessionDecoder, SessionGui DEF Next
  <1>3. QED
    BY <1>1, <1>2, Invariant, PTL DEF Spec, Session!Safe
=============================================================================
