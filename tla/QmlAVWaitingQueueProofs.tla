---------------------- MODULE QmlAVWaitingQueueProofs ----------------------
(***************************************************************************)
(* Proofs that QmlAVWaitingQueue loses no wakeup, keeps the value a worker *)
(* holds at the head, and implements BlockingQueue, for any threads (one   *)
(* consumer), values and limits.                                           *)
(***************************************************************************)
EXTENDS QmlAVWaitingQueue, TLAPS

States == {"idle", "entering", "asleep", "notifying"}

CallOK(t) == call[t] \in IF pc[t] = "idle" THEN {NoCall} ELSE Calls(t)

LEMMA CallIs ==
    ASSUME TypeOK, NEW t \in Threads
    PROVE  /\ CallOK(t)
           /\ pc[t] \in States
           /\ pc[t] = "idle" => call[t] = NoCall
           /\ pc[t] # "idle" => call[t] \in Calls(t)
  BY DEF TypeOK, CallOK, States

\* Who may make which call.
LEMMA CallerIs ==
    ASSUME NEW t \in Threads, NEW c \in Calls(t)
    PROVE  /\ c.op = "enqueue" => c.value \in Values
           /\ c.op = "setProducerLimit" => c.limit \in ProducerLimits
           /\ c.op = "setConsumerLimit" => c.limit \in ConsumerLimits
           /\ c.op \in {"head", "dequeueInto", "dequeue"} => t \in Consumers
           /\ c.op # "none"
  BY DEF Calls

-----------------------------------------------------------------------------
(***************************************************************************)
(* Type correctness.                                                       *)
(***************************************************************************)

LEMMA BecomesType ==
    ASSUME TypeOK, NEW t \in Threads, pc[t] # "idle",
           NEW state \in States, Becomes(t, state)
    PROVE  /\ pc' \in [Threads -> States]
           /\ DOMAIN call' = Threads
           /\ \A u \in Threads : CallOK(u)'
  <1>1. pc' \in [Threads -> States] /\ DOMAIN call' = Threads
    BY DEF Becomes, TypeOK, States
  <1>2. ASSUME NEW u \in Threads
        PROVE  CallOK(u)'
    <2>1. CASE u = t
      <3>1. pc'[t] = state /\ call'[t] = IF state = "idle" THEN NoCall ELSE call[t]
        BY DEF Becomes, TypeOK
      <3>2. QED
        BY <2>1, <3>1, CallIs DEF CallOK, Calls
    <2>2. CASE u # t
      <3>1. pc'[u] = pc[u] /\ call'[u] = call[u]
        BY <2>2 DEF Becomes, TypeOK
      <3>2. QED
        BY <3>1, CallIs DEF CallOK, Calls
    <2>3. QED
      BY <2>1, <2>2
  <1>3. QED
    BY <1>1, <1>2

LEMMA TypeFrom ==
    ASSUME queue' \in Seq(Values), producerLimit' \in Nat, consumerLimit' \in Nat,
           got' \in [Threads -> Values \cup {Nothing}],
           pc' \in [Threads -> States], DOMAIN call' = Threads,
           \A u \in Threads : CallOK(u)'
    PROVE  TypeOK'
  BY DEF TypeOK, States, CallOK

LEMMA LockedType ==
    ASSUME TypeOK, NEW t \in Threads, Locked(t)
    PROVE  TypeOK'
  <1> USE DEF Locks, Sleeps
  <1>1. /\ queue \in Seq(Values) /\ producerLimit \in Nat /\ consumerLimit \in Nat
        /\ got \in [Threads -> Values \cup {Nothing}]
    BY DEF TypeOK
  <1>2. pc[t] = "entering" /\ call[t] \in Calls(t)
    BY CallIs DEF Locked, Enqueue, HeadOf, DequeueInto, Dequeue, WaitForEmpty,
                  SetProducerLimit, SetConsumerLimit
  <1>3. PICK state \in States : Becomes(t, state)
    BY DEF Locked, Enqueue, HeadOf, DequeueInto, Dequeue, WaitForEmpty,
           SetProducerLimit, SetConsumerLimit, States
  <1>4. /\ pc' \in [Threads -> States] /\ DOMAIN call' = Threads
        /\ \A u \in Threads : CallOK(u)'
    BY <1>2, <1>3, BecomesType
  <1>5. queue # << >> => Head(queue) \in Values /\ Tail(queue) \in Seq(Values)
    BY <1>1
  <1>6. queue' \in Seq(Values)
    <2>1. CASE Enqueue(t)
      <3>1. call[t].value \in Values
        BY <1>2, <2>1, CallerIs DEF Enqueue
      <3>2. QED
        BY <1>1, <2>1, <3>1 DEF Enqueue
    <2>2. CASE ~Enqueue(t)
      BY <1>1, <1>5, <2>2 DEF Locked, HeadOf, DequeueInto, Dequeue, WaitForEmpty,
                              SetProducerLimit, SetConsumerLimit
    <2>3. QED
      BY <2>1, <2>2
  <1>7. got' \in [Threads -> Values \cup {Nothing}]
    BY <1>1, <1>5 DEF Locked, Enqueue, HeadOf, DequeueInto, Dequeue, WaitForEmpty,
                      SetProducerLimit, SetConsumerLimit
  <1>8. producerLimit' \in Nat /\ consumerLimit' \in Nat
    BY <1>1, <1>2, CallerIs, QueueAssumption
      DEF Locked, Enqueue, HeadOf, DequeueInto, Dequeue, WaitForEmpty,
          SetProducerLimit, SetConsumerLimit
  <1>9. QED
    BY <1>4, <1>6, <1>7, <1>8, TypeFrom

LEMMA NotifyType ==
    ASSUME TypeOK, NEW t \in Threads, Notify(t)
    PROVE  TypeOK'
  <1>1. PICK woken \in Woken(call[t].op) :
          pc' = [u \in Threads |-> IF u = t THEN "idle"
                                   ELSE IF u \in woken THEN "entering" ELSE pc[u]]
    BY DEF Notify
  <1>2. woken \subseteq Sleepers(Notifies(call[t].op))
    BY DEF Woken
  <1>3. pc' \in [Threads -> States]
    BY <1>1 DEF TypeOK, States
  <1>4. DOMAIN call' = Threads
    BY DEF Notify, TypeOK
  <1>5. ASSUME NEW u \in Threads
        PROVE  CallOK(u)'
    <2>1. CASE u = t
      BY <1>1, <2>1 DEF Notify, TypeOK, CallOK
    <2>2. CASE u # t
      <3>1. call'[u] = call[u]
        BY <2>2 DEF Notify, TypeOK
      <3>2. pc'[u] = pc[u] \/ (pc[u] = "asleep" /\ pc'[u] = "entering")
        BY <1>1, <1>2, <2>2 DEF Sleepers
      <3>3. QED
        BY <3>1, <3>2, CallIs DEF CallOK, Calls
    <2>3. QED
      BY <2>1, <2>2
  <1>6. QED
    BY <1>3, <1>4, <1>5, TypeFrom DEF Notify, TypeOK

LEMMA TypeStep == TypeOK /\ [Next]_vars => TypeOK'
  <1> SUFFICES ASSUME TypeOK, [Next]_vars PROVE TypeOK'
    OBVIOUS
  <1>1. CASE UNCHANGED vars
    BY <1>1 DEF vars, TypeOK, Calls
  <1>2. ASSUME NEW t \in Threads, NEW c \in Calls(t), Call(t, c)
        PROVE  TypeOK'
    <2>1. pc' \in [Threads -> States] /\ DOMAIN call' = Threads
      BY <1>2 DEF Call, TypeOK, States
    <2>2. \A u \in Threads : CallOK(u)'
      BY <1>2, CallIs DEF Call, TypeOK, CallOK, Calls
    <2>3. QED
      BY <1>2, <2>1, <2>2, TypeFrom DEF Call, TypeOK
  <1>3. ASSUME NEW t \in Threads, SpuriousWakeup(t)
        PROVE  TypeOK'
    <2>1. pc' \in [Threads -> States] /\ DOMAIN call' = Threads
      BY <1>3 DEF SpuriousWakeup, TypeOK, States
    <2>2. \A u \in Threads : CallOK(u)'
      BY <1>3, CallIs DEF SpuriousWakeup, TypeOK, CallOK, Calls
    <2>3. QED
      BY <1>3, <2>1, <2>2, TypeFrom DEF SpuriousWakeup, TypeOK
  <1>4. QED
    BY <1>1, <1>2, <1>3, LockedType, NotifyType DEF Next

LEMMA InitType == Init => TypeOK
  BY DEF Init, TypeOK

\* The queue, its limits and the calls keep their types.
THEOREM QueueTypeOK == Spec => []TypeOK
  BY InitType, TypeStep, PTL DEF Spec

-----------------------------------------------------------------------------
(***************************************************************************)
(* No lost wakeup.  A condition starts to hold only in a critical section  *)
(* whose call is about to notify it, and a notification wakes every thread *)
(* whose condition may hold: notify_all() all, notify_one() the only       *)
(* consumer.                                                               *)
(***************************************************************************)

\* Only the calls with a condition sleep.
SleepersWait ==
    \A t \in Threads : pc[t] = "asleep" =>
        call[t].op \in {"enqueue", "head", "dequeueInto", "waitForEmpty"}

WakeupInv == TypeOK /\ SleepersWait /\ SleeperIsNotified

LEMMA MayReturnIs ==
    ASSUME NEW u \in Threads
    PROVE  /\ call[u].op = "enqueue" => MayReturn(u) = HasRoom
           /\ call[u].op \in {"head", "dequeueInto"} => MayReturn(u) = HasEnough
           /\ call[u].op = "waitForEmpty" => MayReturn(u) = (queue = << >>)
           /\ call'[u].op = "enqueue" => MayReturn(u)' = HasRoom'
           /\ call'[u].op \in {"head", "dequeueInto"} => MayReturn(u)' = HasEnough'
           /\ call'[u].op = "waitForEmpty" => MayReturn(u)' = (queue' = << >>)
  BY DEF MayReturn, HasRoom, HasEnough

\* A thread other than t, in a critical section of t that becomes state.
LEMMA OthersKeep ==
    ASSUME TypeOK, NEW t \in Threads, NEW state, Becomes(t, state),
           NEW u \in Threads, u # t
    PROVE  pc'[u] = pc[u] /\ call'[u] = call[u]
  BY DEF Becomes, TypeOK

LEMMA SelfBecomes ==
    ASSUME TypeOK, NEW t \in Threads, NEW state, Becomes(t, state)
    PROVE  pc'[t] = state /\ (state # "idle" => call'[t] = call[t])
  BY DEF Becomes, TypeOK

\* A critical section in which no condition starts to hold.
LEMMA QuietSection ==
    ASSUME WakeupInv, NEW t \in Threads, pc[t] = "entering",
           NEW state \in {"idle", "notifying"}, Becomes(t, state),
           \A u \in Threads : u # t /\ pc[u] = "asleep" /\ MayReturn(u)' => MayReturn(u)
    PROVE  SleeperIsNotified' /\ SleepersWait'
  <1> USE DEF WakeupInv
  <1>1. SleepersWait'
    BY OthersKeep, SelfBecomes DEF SleepersWait
  <1>2. ASSUME NEW u \in Threads, (pc[u] = "asleep")', MayReturn(u)'
        PROVE  \E w \in Threads :
                 pc'[w] = "notifying" /\ Notifies(call'[w].op) = SleepsOn(call'[u].op)
    <2>1. u # t
      BY <1>2, SelfBecomes
    <2>2. pc[u] = "asleep" /\ call'[u] = call[u]
      BY <1>2, <2>1, OthersKeep
    <2>3. PICK w \in Threads :
            pc[w] = "notifying" /\ Notifies(call[w].op) = SleepsOn(call[u].op)
      BY <1>2, <2>1, <2>2 DEF SleeperIsNotified
    <2>4. w # t
      BY <2>3
    <2>5. QED
      BY <2>2, <2>3, <2>4, OthersKeep
  <1>3. QED
    BY <1>1, <1>2 DEF SleeperIsNotified

\* A critical section that puts t to sleep, its condition not holding.
LEMMA SleepSection ==
    ASSUME WakeupInv, NEW t \in Threads, pc[t] = "entering", Sleeps(t),
           call[t].op \in {"enqueue", "head", "dequeueInto", "waitForEmpty"},
           ~MayReturn(t), producerLimit' = producerLimit, consumerLimit' = consumerLimit
    PROVE  SleeperIsNotified' /\ SleepersWait'
  <1> USE DEF WakeupInv
  <1>1. Becomes(t, "asleep") /\ queue' = queue
    BY DEF Sleeps
  <1>2. SleepersWait'
    BY <1>1, OthersKeep, SelfBecomes DEF SleepersWait
  <1>3. \A u \in Threads : call'[u] = call[u]
    BY <1>1, OthersKeep, SelfBecomes
  <1>4. \A u \in Threads : call[u].op \in {"enqueue", "head", "dequeueInto", "waitForEmpty"} =>
          MayReturn(u)' = MayReturn(u)
    BY <1>1, <1>3 DEF MayReturn, HasRoom, HasEnough
  <1>5. ASSUME NEW u \in Threads, (pc[u] = "asleep")', MayReturn(u)'
        PROVE  \E w \in Threads :
                 pc'[w] = "notifying" /\ Notifies(call'[w].op) = SleepsOn(call'[u].op)
    <2>1. call[u].op \in {"enqueue", "head", "dequeueInto", "waitForEmpty"}
      BY <1>2, <1>3, <1>5 DEF SleepersWait
    <2>2. u # t /\ MayReturn(u)
      BY <1>4, <1>5, <2>1
    <2>3. pc[u] = "asleep"
      BY <1>1, <1>5, <2>2, OthersKeep
    <2>4. PICK w \in Threads :
            pc[w] = "notifying" /\ Notifies(call[w].op) = SleepsOn(call[u].op)
      BY <2>2, <2>3 DEF SleeperIsNotified
    <2>5. QED
      BY <1>1, <1>3, <2>4, OthersKeep
  <1>6. QED
    BY <1>2, <1>5 DEF SleeperIsNotified

\* A critical section after which t notifies cond: only conditions of threads
\* that sleep on cond may start to hold.
LEMMA NotifyingSection ==
    ASSUME WakeupInv, NEW t \in Threads, pc[t] = "entering", Becomes(t, "notifying"),
           \A u \in Threads :
             u # t /\ pc[u] = "asleep" /\ MayReturn(u)' =>
               MayReturn(u) \/ SleepsOn(call[u].op) = Notifies(call[t].op)
    PROVE  SleeperIsNotified' /\ SleepersWait'
  <1> USE DEF WakeupInv
  <1>1. SleepersWait'
    BY OthersKeep, SelfBecomes DEF SleepersWait
  <1>2. ASSUME NEW u \in Threads, (pc[u] = "asleep")', MayReturn(u)'
        PROVE  \E w \in Threads :
                 pc'[w] = "notifying" /\ Notifies(call'[w].op) = SleepsOn(call'[u].op)
    <2>1. u # t
      BY <1>2, SelfBecomes
    <2>2. pc[u] = "asleep" /\ call'[u] = call[u]
      BY <1>2, <2>1, OthersKeep
    <2>3. CASE MayReturn(u)
      <3>1. PICK w \in Threads :
              pc[w] = "notifying" /\ Notifies(call[w].op) = SleepsOn(call[u].op)
        BY <2>2, <2>3 DEF SleeperIsNotified
      <3>2. w # t
        BY <3>1
      <3>3. QED
        BY <2>2, <3>1, <3>2, OthersKeep
    <2>4. CASE SleepsOn(call[u].op) = Notifies(call[t].op)
      BY <2>2, <2>4, SelfBecomes
    <2>5. QED
      BY <1>2, <2>1, <2>2, <2>3, <2>4
  <1>3. QED
    BY <1>1, <1>2 DEF SleeperIsNotified

\* What a longer, and a shorter, queue does to the condition of a sleeper u.
LEMMA LongerQueue ==
    ASSUME NEW u \in Threads, call'[u] = call[u],
           call[u].op \in {"enqueue", "head", "dequeueInto", "waitForEmpty"},
           producerLimit \in Nat, producerLimit' = producerLimit,
           Len(queue) \in Nat, Len(queue') = Len(queue) + 1, queue' # << >>,
           MayReturn(u)'
    PROVE  MayReturn(u) \/ SleepsOn(call[u].op) = "consumerCond"
  <1>1. CASE call[u].op = "enqueue"
    <2>1. HasRoom'
      BY <1>1, MayReturnIs
    <2>2. HasRoom
      BY <2>1 DEF HasRoom
    <2>3. QED
      BY <1>1, <2>2, MayReturnIs
  <1>2. CASE call[u].op \in {"head", "dequeueInto"}
    BY <1>2 DEF SleepsOn
  <1>3. CASE call[u].op = "waitForEmpty"
    BY <1>3, MayReturnIs
  <1>4. QED
    BY <1>1, <1>2, <1>3

LEMMA ShorterQueue ==
    ASSUME NEW u \in Threads, call'[u] = call[u],
           call[u].op \in {"enqueue", "head", "dequeueInto", "waitForEmpty"},
           consumerLimit \in Nat, consumerLimit' = consumerLimit,
           Len(queue) \in Nat, Len(queue') \in Nat, Len(queue') <= Len(queue),
           MayReturn(u)'
    PROVE  MayReturn(u) \/ SleepsOn(call[u].op) = "producerCond"
  <1>1. CASE call[u].op \in {"head", "dequeueInto"}
    <2>1. HasEnough'
      BY <1>1, MayReturnIs
    <2>2. HasEnough
      BY <2>1 DEF HasEnough
    <2>3. QED
      BY <1>1, <2>2, MayReturnIs
  <1>2. CASE call[u].op \in {"enqueue", "waitForEmpty"}
    BY <1>2 DEF SleepsOn
  <1>3. QED
    BY <1>1, <1>2

LEMMA LockedWakes ==
    ASSUME WakeupInv, NEW t \in Threads, Locked(t)
    PROVE  SleeperIsNotified' /\ SleepersWait'
  <1> USE DEF Locks
  <1>1. TypeOK /\ queue \in Seq(Values) /\ producerLimit \in Nat /\ consumerLimit \in Nat
    BY DEF WakeupInv, TypeOK
  <1> DEFINE Waits(u) == pc[u] = "asleep"
  <1>2. \A u \in Threads : Waits(u) =>
          call[u].op \in {"enqueue", "head", "dequeueInto", "waitForEmpty"}
    BY DEF WakeupInv, SleepersWait
  <1>3. ASSUME NEW state, Becomes(t, state)
        PROVE  \A u \in Threads : u # t => call'[u] = call[u]
    BY <1>1, <1>3, OthersKeep
  <1>4. CASE Enqueue(t)
    <2>1. CASE ~HasRoom
      BY <1>4, <2>1, SleepSection, MayReturnIs DEF Enqueue
    <2>2. CASE HasRoom
      <3>1. /\ Becomes(t, "notifying") /\ pc[t] = "entering" /\ call[t].op = "enqueue"
            /\ queue' = Append(queue, call[t].value)
            /\ producerLimit' = producerLimit /\ consumerLimit' = consumerLimit
        BY <1>4, <2>2 DEF Enqueue
      <3>2. Len(queue') = Len(queue) + 1 /\ Len(queue) \in Nat /\ queue' # << >>
        BY <1>1, <3>1
      <3>3. ASSUME NEW u \in Threads, u # t, Waits(u), MayReturn(u)'
            PROVE  MayReturn(u) \/ SleepsOn(call[u].op) = Notifies(call[t].op)
        <4>1. call'[u] = call[u]
          BY <1>3, <3>1, <3>3
        <4>2. MayReturn(u) \/ SleepsOn(call[u].op) = "consumerCond"
          BY <1>1, <1>2, <3>1, <3>2, <3>3, <4>1, LongerQueue
        <4>3. QED
          BY <3>1, <4>2 DEF Notifies
      <3>4. QED
        BY <3>1, <3>3, NotifyingSection
    <2>3. QED
      BY <2>1, <2>2
  <1>5. CASE HeadOf(t)
    <2>1. CASE ~HasEnough
      BY <1>5, <2>1, SleepSection, MayReturnIs DEF HeadOf
    <2>2. CASE HasEnough
      <3>1. /\ Becomes(t, "idle") /\ pc[t] = "entering" /\ queue' = queue
            /\ producerLimit' = producerLimit /\ consumerLimit' = consumerLimit
        BY <1>5, <2>2 DEF HeadOf
      <3>2. ASSUME NEW u \in Threads, u # t, Waits(u), MayReturn(u)'
            PROVE  MayReturn(u)
        BY MayReturnIs, <1>2, <1>3, <3>1, <3>2 DEF HasRoom, HasEnough
      <3>3. QED
        BY <3>1, <3>2, QuietSection
    <2>3. QED
      BY <2>1, <2>2
  <1>6. CASE DequeueInto(t)
    <2>1. CASE ~HasEnough
      BY <1>6, <2>1, SleepSection, MayReturnIs DEF DequeueInto
    <2>2. CASE HasEnough /\ queue = << >>
      <3>1. /\ Becomes(t, "idle") /\ pc[t] = "entering" /\ queue' = queue
            /\ producerLimit' = producerLimit /\ consumerLimit' = consumerLimit
        BY <1>6, <2>2 DEF DequeueInto
      <3>2. ASSUME NEW u \in Threads, u # t, Waits(u), MayReturn(u)'
            PROVE  MayReturn(u)
        BY MayReturnIs, <1>2, <1>3, <3>1, <3>2 DEF HasRoom, HasEnough
      <3>3. QED
        BY <3>1, <3>2, QuietSection
    <2>3. CASE HasEnough /\ queue # << >>
      <3>1. /\ Becomes(t, "notifying") /\ pc[t] = "entering" /\ call[t].op = "dequeueInto"
            /\ queue' = Tail(queue)
            /\ producerLimit' = producerLimit /\ consumerLimit' = consumerLimit
        BY <1>6, <2>3 DEF DequeueInto
      <3>2. Len(queue') = Len(queue) - 1 /\ Len(queue) \in Nat
        BY <1>1, <2>3, <3>1
      <3>3. ASSUME NEW u \in Threads, u # t, Waits(u), MayReturn(u)'
            PROVE  MayReturn(u) \/ SleepsOn(call[u].op) = Notifies(call[t].op)
        <4>1. call'[u] = call[u]
          BY <1>3, <3>1, <3>3
        <4>2. MayReturn(u) \/ SleepsOn(call[u].op) = "producerCond"
          BY <1>1, <1>2, <3>1, <3>2, <3>3, <4>1, ShorterQueue
        <4>3. QED
          BY <3>1, <4>2 DEF Notifies
      <3>4. QED
        BY <3>1, <3>3, NotifyingSection
    <2>4. QED
      BY <2>1, <2>2, <2>3
  <1>7. CASE Dequeue(t)
    <2>1. /\ Becomes(t, "notifying") /\ pc[t] = "entering" /\ call[t].op = "dequeue"
          /\ queue' = queue \/ (queue # << >> /\ queue' = Tail(queue))
          /\ producerLimit' = producerLimit /\ consumerLimit' = consumerLimit
      BY <1>7 DEF Dequeue
    <2>2. Len(queue') <= Len(queue) /\ Len(queue') \in Nat /\ Len(queue) \in Nat
      BY <1>1, <2>1
    <2>3. ASSUME NEW u \in Threads, u # t, Waits(u), MayReturn(u)'
          PROVE  MayReturn(u) \/ SleepsOn(call[u].op) = Notifies(call[t].op)
      <3>1. call'[u] = call[u]
        BY <1>3, <2>1, <2>3
      <3>2. MayReturn(u) \/ SleepsOn(call[u].op) = "producerCond"
        BY <1>1, <1>2, <2>1, <2>2, <2>3, <3>1, ShorterQueue
      <3>3. QED
        BY <2>1, <3>2 DEF Notifies
    <2>4. QED
      BY <2>1, <2>3, NotifyingSection
  <1>8. CASE WaitForEmpty(t)
    <2>1. CASE queue # << >>
      BY <1>8, <2>1, SleepSection, MayReturnIs DEF WaitForEmpty
    <2>2. CASE queue = << >>
      <3>1. /\ Becomes(t, "idle") /\ pc[t] = "entering" /\ queue' = queue
            /\ producerLimit' = producerLimit /\ consumerLimit' = consumerLimit
        BY <1>8, <2>2 DEF WaitForEmpty
      <3>2. ASSUME NEW u \in Threads, u # t, Waits(u), MayReturn(u)'
            PROVE  MayReturn(u)
        BY MayReturnIs, <1>2, <1>3, <3>1, <3>2 DEF HasRoom, HasEnough
      <3>3. QED
        BY <3>1, <3>2, QuietSection
    <2>3. QED
      BY <2>1, <2>2
  <1>9. CASE SetProducerLimit(t)
    <2>1. /\ Becomes(t, "notifying") /\ pc[t] = "entering"
          /\ call[t].op = "setProducerLimit"
          /\ queue' = queue /\ consumerLimit' = consumerLimit
      BY <1>9 DEF SetProducerLimit
    <2>2. ASSUME NEW u \in Threads, u # t, Waits(u), MayReturn(u)'
          PROVE  MayReturn(u) \/ SleepsOn(call[u].op) = Notifies(call[t].op)
      <3>1. call'[u] = call[u]
        BY <1>3, <2>1, <2>2
      <3>2. QED
        BY MayReturnIs, <1>2, <2>1, <2>2, <3>1 DEF HasEnough, SleepsOn, Notifies
    <2>3. QED
      BY <2>1, <2>2, NotifyingSection
  <1>10. CASE SetConsumerLimit(t)
    <2>1. /\ Becomes(t, "notifying") /\ pc[t] = "entering"
          /\ call[t].op = "setConsumerLimit"
          /\ queue' = queue /\ producerLimit' = producerLimit
      BY <1>10 DEF SetConsumerLimit
    <2>2. ASSUME NEW u \in Threads, u # t, Waits(u), MayReturn(u)'
          PROVE  MayReturn(u) \/ SleepsOn(call[u].op) = Notifies(call[t].op)
      <3>1. call'[u] = call[u]
        BY <1>3, <2>1, <2>2
      <3>2. QED
        BY MayReturnIs, <1>2, <2>1, <2>2, <3>1 DEF HasRoom, SleepsOn, Notifies
    <2>3. QED
      BY <2>1, <2>2, NotifyingSection
  <1>11. QED
    BY <1>4, <1>5, <1>6, <1>7, <1>8, <1>9, <1>10 DEF Locked

\* A sleeper's condition reads only the queue, its limits and its own call.
LEMMA SameCondition ==
    ASSUME NEW u \in Threads, call'[u] = call[u],
           call[u].op \in {"enqueue", "head", "dequeueInto", "waitForEmpty"},
           queue' = queue, producerLimit' = producerLimit, consumerLimit' = consumerLimit,
           MayReturn(u)'
    PROVE  MayReturn(u)
  BY MayReturnIs DEF HasRoom, HasEnough

\* Thread t starts a call or wakes: the threads that sleep, slept before.
LEMMA EnteringWakes ==
    ASSUME WakeupInv, NEW t \in Threads, pc[t] # "notifying",
           pc' = [pc EXCEPT ![t] = "entering"],
           \A u \in Threads : u # t => call'[u] = call[u],
           queue' = queue, producerLimit' = producerLimit, consumerLimit' = consumerLimit
    PROVE  SleeperIsNotified' /\ SleepersWait'
  <1> USE DEF WakeupInv
  <1>1. pc'[t] = "entering" /\ \A u \in Threads : u # t => pc'[u] = pc[u]
    BY DEF TypeOK
  <1>2. SleepersWait'
    BY <1>1 DEF SleepersWait
  <1>3. ASSUME NEW u \in Threads, pc'[u] = "asleep", MayReturn(u)'
        PROVE  \E w \in Threads :
                 pc'[w] = "notifying" /\ Notifies(call'[w].op) = SleepsOn(call'[u].op)
    <2>1. u # t /\ pc[u] = "asleep" /\ call'[u] = call[u]
      BY <1>1, <1>3
    <2>2. MayReturn(u)
      BY <1>3, <2>1, SameCondition DEF SleepersWait
    <2>3. PICK w \in Threads :
            pc[w] = "notifying" /\ Notifies(call[w].op) = SleepsOn(call[u].op)
      BY <2>1, <2>2 DEF SleeperIsNotified
    <2>4. QED
      BY <1>1, <2>1, <2>3
  <1>4. QED
    BY <1>2, <1>3 DEF SleeperIsNotified

\* One notification wakes every sleeper of its condition variable: notify_one()
\* wakes a consumer, and there is one.
LEMMA NotificationReachesAll ==
    ASSUME TypeOK, NEW t \in Threads, NEW woken \in Woken(call[t].op)
    PROVE  woken = Sleepers(Notifies(call[t].op))
  <1>1. CASE call[t].op = "enqueue" /\ Sleepers(Notifies(call[t].op)) # {}
    <2>1. Notifies(call[t].op) = "consumerCond"
      BY <1>1 DEF Notifies
    <2>2. PICK x \in Sleepers("consumerCond") : woken = {x}
      BY <1>1, <2>1 DEF Woken
    <2>3. ASSUME NEW u \in Sleepers("consumerCond")
          PROVE  u \in Consumers
      <3>1. u \in Threads /\ pc[u] = "asleep" /\ SleepsOn(call[u].op) = "consumerCond"
        BY DEF Sleepers
      <3>2. call[u].op \in {"head", "dequeueInto"}
        BY <3>1 DEF SleepsOn
      <3>3. call[u] \in Calls(u)
        BY <3>1, CallIs
      <3>4. QED
        BY <3>1, <3>2, <3>3, CallerIs
    <2>4. QED
      BY <2>1, <2>2, <2>3, QueueAssumption
  <1>2. CASE ~(call[t].op = "enqueue" /\ Sleepers(Notifies(call[t].op)) # {})
    BY <1>2 DEF Woken
  <1>3. QED
    BY <1>1, <1>2

LEMMA NotifyWakes ==
    ASSUME WakeupInv, NEW t \in Threads, Notify(t)
    PROVE  SleeperIsNotified' /\ SleepersWait'
  <1> USE DEF WakeupInv
  <1>1. PICK woken \in Woken(call[t].op) :
          pc' = [u \in Threads |-> IF u = t THEN "idle"
                                   ELSE IF u \in woken THEN "entering" ELSE pc[u]]
    BY DEF Notify
  <1>2. woken = Sleepers(Notifies(call[t].op))
    BY NotificationReachesAll
  <1>3. /\ pc[t] = "notifying" /\ queue' = queue
        /\ producerLimit' = producerLimit /\ consumerLimit' = consumerLimit
        /\ \A u \in Threads : u # t => call'[u] = call[u]
    BY DEF Notify, TypeOK
  <1>4. \A u \in Threads : pc'[u] = "asleep" => u # t /\ u \notin woken /\ pc[u] = "asleep"
    BY <1>1
  <1>5. SleepersWait'
    BY <1>3, <1>4 DEF SleepersWait
  <1>6. ASSUME NEW u \in Threads, pc'[u] = "asleep", MayReturn(u)'
        PROVE  \E w \in Threads :
                 pc'[w] = "notifying" /\ Notifies(call'[w].op) = SleepsOn(call'[u].op)
    <2>1. u # t /\ u \notin woken /\ pc[u] = "asleep" /\ call'[u] = call[u]
      BY <1>3, <1>4, <1>6
    <2>2. MayReturn(u)
      BY <1>3, <1>6, <2>1, SameCondition DEF SleepersWait
    <2>3. PICK w \in Threads :
            pc[w] = "notifying" /\ Notifies(call[w].op) = SleepsOn(call[u].op)
      BY <2>1, <2>2 DEF SleeperIsNotified
    <2>4. w # t
      BY <1>2, <2>1, <2>3 DEF Sleepers
    <2>5. w \notin woken
      BY <1>2, <2>3 DEF Sleepers
    <2>6. pc'[w] = "notifying" /\ call'[w] = call[w]
      BY <1>1, <1>3, <2>3, <2>4, <2>5
    <2>7. QED
      BY <2>1, <2>3, <2>6
  <1>7. QED
    BY <1>5, <1>6 DEF SleeperIsNotified

LEMMA WakeupStep == WakeupInv /\ [Next]_vars => WakeupInv'
  <1> SUFFICES ASSUME WakeupInv, [Next]_vars PROVE SleeperIsNotified' /\ SleepersWait'
    BY TypeStep DEF WakeupInv
  <1>1. CASE UNCHANGED vars
    BY <1>1 DEF vars, WakeupInv, SleeperIsNotified, SleepersWait, MayReturn, HasRoom, HasEnough
  <1>2. ASSUME NEW t \in Threads, NEW c \in Calls(t), Call(t, c)
        PROVE  SleeperIsNotified' /\ SleepersWait'
    BY <1>2, EnteringWakes DEF Call, WakeupInv, TypeOK
  <1>3. ASSUME NEW t \in Threads, SpuriousWakeup(t)
        PROVE  SleeperIsNotified' /\ SleepersWait'
    BY <1>3, EnteringWakes DEF SpuriousWakeup
  <1>4. QED
    BY <1>1, <1>2, <1>3, LockedWakes, NotifyWakes DEF Next

LEMMA WakeupInit == Init => WakeupInv
  BY InitType DEF Init, WakeupInv, SleeperIsNotified, SleepersWait

\* No lost wakeup, for any number of producers, waiters and controllers:
\* enqueue()'s notify_one(), issued after the mutex is released, is enough
\* because there is one consumer.
THEOREM NoLostWakeup == Spec => []SleeperIsNotified
  <1>1. Spec => []WakeupInv
    BY WakeupInit, WakeupStep, PTL DEF Spec
  <1>2. WakeupInv => SleeperIsNotified
    BY DEF WakeupInv
  <1>3. QED
    BY <1>1, <1>2, PTL

-----------------------------------------------------------------------------
(***************************************************************************)
(* The value a worker holds stays the oldest: producers only append behind *)
(* it, and whoever removes it is the one consumer, who holds it.           *)
(***************************************************************************)

HeldInv ==
    /\ TypeOK
    /\ HeldIsOldest
    /\ \A t \in Threads : got[t] # Nothing => t \in Consumers

LEMMA HeldStep == HeldInv /\ [Next]_vars => HeldInv'
  <1> SUFFICES ASSUME HeldInv, [Next]_vars
               PROVE  \A u \in Threads : got'[u] # Nothing =>
                        u \in Consumers /\ queue' # << >> /\ Head(queue') = got'[u]
    BY TypeStep DEF HeldInv, HeldIsOldest
  <1>1. /\ queue \in Seq(Values) /\ DOMAIN got = Threads
        /\ \A u \in Threads : got[u] # Nothing =>
             u \in Consumers /\ queue # << >> /\ Head(queue) = got[u]
    BY DEF HeldInv, HeldIsOldest, TypeOK
  <1>2. CASE UNCHANGED <<queue, got>>
    BY <1>1, <1>2
  <1>3. ASSUME NEW t \in Threads, Enqueue(t), queue' = Append(queue, call[t].value),
               got' = got
        PROVE  \A u \in Threads : got'[u] # Nothing =>
                 u \in Consumers /\ queue' # << >> /\ Head(queue') = got'[u]
    <2>1. call[t].value \in Values
      BY <1>3, CallIs, CallerIs DEF HeldInv, Enqueue, Locks
    <2>2. queue # << >> => queue' # << >> /\ Head(queue') = Head(queue)
      BY <1>1, <1>3, <2>1
    <2>3. QED
      BY <1>1, <1>3, <2>2
  <1>4. ASSUME NEW t \in Threads, HeadOf(t) \/ DequeueInto(t) \/ Dequeue(t)
        PROVE  \A u \in Threads : got'[u] # Nothing =>
                 u \in Consumers /\ queue' # << >> /\ Head(queue') = got'[u]
    <2>1. t \in Consumers
      BY <1>4, CallIs, CallerIs DEF HeldInv, HeadOf, DequeueInto, Dequeue, Locks
    <2>2. \A u \in Threads : u # t => got[u] = Nothing
      BY <1>1, <2>1, QueueAssumption
    <2>3. \/ UNCHANGED <<queue, got>>
          \/ got' = [got EXCEPT ![t] = Nothing]
          \/ /\ queue' = queue
             /\ got' = [got EXCEPT ![t] = IF queue = << >> THEN Nothing ELSE Head(queue)]
      BY <1>4 DEF HeadOf, DequeueInto, Dequeue, Sleeps
    <2>4. CASE got' = [got EXCEPT ![t] = Nothing]
      BY <1>1, <2>2, <2>4
    <2>5. CASE /\ queue' = queue
               /\ got' = [got EXCEPT ![t] = IF queue = << >> THEN Nothing ELSE Head(queue)]
      BY <1>1, <2>1, <2>2, <2>5
    <2>6. QED
      BY <1>2, <2>3, <2>4, <2>5
  <1>5. ASSUME NEW t \in Threads, Enqueue(t)
        PROVE  UNCHANGED <<queue, got>> \/ (queue' = Append(queue, call[t].value) /\ got' = got)
    BY <1>5 DEF Enqueue, Sleeps
  <1>6. ASSUME NEW t \in Threads,
               \/ \E c \in Calls(t) : Call(t, c)
               \/ WaitForEmpty(t) \/ SetProducerLimit(t) \/ SetConsumerLimit(t)
               \/ Notify(t) \/ SpuriousWakeup(t)
        PROVE  UNCHANGED <<queue, got>>
    BY <1>6 DEF Call, WaitForEmpty, Sleeps, SetProducerLimit, SetConsumerLimit, Notify,
                SpuriousWakeup
  <1>7. QED
    BY <1>2, <1>3, <1>4, <1>5, <1>6 DEF Next, Locked, vars

\* A worker's dequeue() removes the value its head() returned, whatever the
\* producers and controllers did while the callable ran.
THEOREM HeldStaysOldest == Spec => []HeldIsOldest
  <1>1. Init => HeldInv
    BY InitType DEF Init, HeldInv, HeldIsOldest
  <1>2. Spec => []HeldInv
    BY <1>1, HeldStep, PTL DEF Spec
  <1>3. HeldInv => HeldIsOldest
    BY DEF HeldInv
  <1>4. QED
    BY <1>2, <1>3, PTL

-----------------------------------------------------------------------------
(***************************************************************************)
(* The queue implements BlockingQueue.  A critical section that does not   *)
(* put its thread to sleep is the call's effect; sleeping, waking and      *)
(* notifying are stuttering steps.                                         *)
(***************************************************************************)

\* The call a thread is in, for a reader of BlockingQueue.
SeenCall == [t \in Threads |-> IF pc[t] = "notifying" THEN NoCall ELSE call[t]]

LEMMA SectionSeen ==
    ASSUME TypeOK, NEW t \in Threads, pc[t] = "entering", NEW state, Becomes(t, state)
    PROVE  /\ SeenCall[t] = call[t]
           /\ state = "asleep" => SeenCall' = SeenCall
           /\ state \in {"idle", "notifying"} => SeenCall' = [SeenCall EXCEPT ![t] = NoCall]
  <1>1. \A u \in Threads : u # t => pc'[u] = pc[u] /\ call'[u] = call[u]
    BY OthersKeep
  <1>2. pc'[t] = state /\ (state # "idle" => call'[t] = call[t])
    BY SelfBecomes
  <1>3. state = "idle" => call'[t] = NoCall
    BY DEF Becomes, TypeOK
  <1>4. QED
    BY <1>1, <1>2, <1>3 DEF SeenCall

LEMMA NotifySeen ==
    ASSUME TypeOK, NEW t \in Threads, Notify(t)
    PROVE  SeenCall' = SeenCall
  <1>1. PICK woken \in Woken(call[t].op) :
          pc' = [u \in Threads |-> IF u = t THEN "idle"
                                   ELSE IF u \in woken THEN "entering" ELSE pc[u]]
    BY DEF Notify
  <1>2. \A u \in woken : pc[u] = "asleep"
    BY DEF Woken, Sleepers
  <1>3. pc[t] = "notifying" /\ call' = [call EXCEPT ![t] = NoCall] /\ DOMAIN call = Threads
    BY DEF Notify, TypeOK
  <1>4. ASSUME NEW u \in Threads
        PROVE  (IF pc'[u] = "notifying" THEN NoCall ELSE call'[u])
                 = (IF pc[u] = "notifying" THEN NoCall ELSE call[u])
    BY <1>1, <1>2, <1>3
  <1>5. QED
    BY <1>4 DEF SeenCall

LEMMA SafeStep == TypeOK /\ [Next]_vars => [Blocking!Next]_Blocking!vars
  <1> SUFFICES ASSUME TypeOK, [Next]_vars
               PROVE  Blocking!Next \/ UNCHANGED Blocking!vars
    OBVIOUS
  <1> USE DEF Locks
  <1>a. ASSUME UNCHANGED <<queue, producerLimit, consumerLimit, got>>, SeenCall' = SeenCall
        PROVE  UNCHANGED Blocking!vars
    BY <1>a DEF Blocking!vars, SeenCall
  <1>b. ASSUME NEW t \in Threads, Blocking!Effect(t)
        PROVE  Blocking!Next
    BY <1>b DEF Blocking!Next
  <1>1. CASE UNCHANGED vars
    BY <1>1, <1>a DEF vars, SeenCall
  <1>2. ASSUME NEW t \in Threads, NEW c \in Calls(t), Call(t, c)
        PROVE  Blocking!Next
    <2>1. SeenCall[t] = NoCall /\ SeenCall' = [SeenCall EXCEPT ![t] = c]
      BY <1>2, CallIs DEF Call, SeenCall, TypeOK
    <2>2. c \in Blocking!Calls
      BY DEF Calls, Blocking!Calls
    <2>3. Blocking!Start(t, c)
      BY <1>2, <2>1 DEF Blocking!Start, Blocking!In, NoCall, Call, SeenCall
    <2>4. QED
      BY <2>2, <2>3 DEF Blocking!Next
  <1>3. ASSUME NEW t \in Threads, Locked(t)
        PROVE  Blocking!Next \/ UNCHANGED Blocking!vars
    <2>1. pc[t] = "entering"
      BY <1>3 DEF Locked, Enqueue, HeadOf, DequeueInto, Dequeue, WaitForEmpty,
                  SetProducerLimit, SetConsumerLimit
    <2>2. SeenCall[t] = call[t]
      BY <2>1 DEF SeenCall
    <2>3. ASSUME Sleeps(t), producerLimit' = producerLimit, consumerLimit' = consumerLimit
          PROVE  UNCHANGED Blocking!vars
      BY <1>a, <2>1, <2>3, SectionSeen DEF Sleeps
    <2>4. ASSUME NEW state \in {"idle", "notifying"}, Becomes(t, state)
          PROVE  Blocking!Return(t)
      BY <2>1, <2>4, SectionSeen DEF Blocking!Return, Blocking!NoCall, NoCall, SeenCall
    <2>5. \A op : Blocking!In(t, op) = (call[t].op = op)
      BY <2>2 DEF Blocking!In, SeenCall
    <2>6. ASSUME Enqueue(t) PROVE Blocking!Put(t) \/ UNCHANGED Blocking!vars
      BY <2>2, <2>3, <2>4, <2>5, <2>6 DEF Enqueue, HasRoom, Blocking!Put, SeenCall
    <2>7. ASSUME HeadOf(t) PROVE Blocking!Peek(t) \/ UNCHANGED Blocking!vars
      BY <2>3, <2>4, <2>5, <2>7 DEF HeadOf, HasEnough, Blocking!Peek
    <2>8. ASSUME DequeueInto(t) PROVE Blocking!Take(t) \/ UNCHANGED Blocking!vars
      BY <2>3, <2>4, <2>5, <2>8 DEF DequeueInto, HasEnough, Blocking!Take
    <2>9. ASSUME Dequeue(t) PROVE Blocking!Drop(t)
      BY <2>4, <2>5, <2>9 DEF Dequeue, Blocking!Drop
    <2>10. ASSUME WaitForEmpty(t) PROVE Blocking!AwaitEmpty(t) \/ UNCHANGED Blocking!vars
      BY <2>3, <2>4, <2>5, <2>10 DEF WaitForEmpty, Blocking!AwaitEmpty
    <2>11. ASSUME SetProducerLimit(t) PROVE Blocking!LimitProducers(t)
      BY <2>2, <2>4, <2>5, <2>11 DEF SetProducerLimit, Blocking!LimitProducers, SeenCall
    <2>12. ASSUME SetConsumerLimit(t) PROVE Blocking!LimitConsumer(t)
      BY <2>2, <2>4, <2>5, <2>12 DEF SetConsumerLimit, Blocking!LimitConsumer, SeenCall
    <2>13. QED
      BY <1>3, <1>b, <2>6, <2>7, <2>8, <2>9, <2>10, <2>11, <2>12
        DEF Locked, Blocking!Effect
  <1>4. ASSUME NEW t \in Threads, Notify(t)
        PROVE  UNCHANGED Blocking!vars
    BY <1>4, <1>a, NotifySeen DEF Notify
  <1>5. ASSUME NEW t \in Threads, SpuriousWakeup(t)
        PROVE  UNCHANGED Blocking!vars
    BY <1>5, <1>a DEF SpuriousWakeup, SeenCall, TypeOK
  <1>6. QED
    BY <1>1, <1>2, <1>3, <1>4, <1>5 DEF Next

\* Every call of the queue takes effect once, at one instant, under the
\* condition BlockingQueue gives it (the safety part of KeepsPromise).
THEOREM QueueIsBlocking == Spec => Blocking!Safe
  <1>1. Init => Blocking!Init
    BY DEF Init, Blocking!Init, Blocking!NoCall, NoCall
  <1>2. QED
    BY <1>1, SafeStep, QueueTypeOK, PTL DEF Spec, Blocking!Safe
=============================================================================
