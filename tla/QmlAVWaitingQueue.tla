------------------------- MODULE QmlAVWaitingQueue -------------------------
(***************************************************************************)
(* QmlAVWaitingQueue: a queue guarded by one mutex and two condition       *)
(* variables.  A critical section is one step, and so is the notification, *)
(* which the code issues after it has released the mutex; between the two  *)
(* any other thread may run.  A thread whose condition does not hold       *)
(* sleeps until it is notified, or wakes spuriously, and tests it again.   *)
(***************************************************************************)
EXTENDS Naturals, Sequences, FiniteSets

CONSTANTS
    Producers,    \* threads that call enqueue()
    Waiters,      \* threads that call waitForEmpty()
    Consumers,    \* threads that call head() and both dequeue()s
    Controllers,  \* threads that set the limits
    Values,
    Nothing,
    ProducerLimits, ConsumerLimits,  \* the limits the controllers set
    Capacity      \* bound: values queued or being queued

Threads == Producers \cup Waiters \cup Consumers \cup Controllers

\* One worker consumes a task's queue (QmlAVThreadTask::getLiveController), and
\* a QmlAVThreadLiveController, which consumes the results, is "For use from a
\* single thread only!".
ASSUME QueueAssumption ==
    /\ \A c, d \in Consumers : c = d
    /\ Nothing \notin Values
    /\ ProducerLimits \subseteq Nat
    /\ ConsumerLimits \subseteq Nat
    /\ Capacity \in Nat

VARIABLES queue, producerLimit, consumerLimit, call, got,
          pc   \* "idle", "entering" (for the mutex), "asleep" or "notifying"

vars == <<queue, producerLimit, consumerLimit, call, got, pc>>

NoCall == [op |-> "none"]

Calls(t) ==
    (IF t \in Producers THEN [op : {"enqueue"}, value : Values] ELSE {})
      \cup (IF t \in Waiters THEN [op : {"waitForEmpty"}] ELSE {})
      \cup (IF t \in Consumers THEN [op : {"head", "dequeueInto", "dequeue"}] ELSE {})
      \cup (IF t \in Controllers
            THEN [op : {"setProducerLimit"}, limit : ProducerLimits]
                   \cup [op : {"setConsumerLimit"}, limit : ConsumerLimits]
            ELSE {})

\* The condition variable a call sleeps on, and the one it notifies.
SleepsOn(op) == IF op \in {"head", "dequeueInto"} THEN "consumerCond" ELSE "producerCond"

Notifies(op) == IF op \in {"enqueue", "setConsumerLimit"} THEN "consumerCond" ELSE "producerCond"

Sleepers(cond) == {t \in Threads : pc[t] = "asleep" /\ SleepsOn(call[t].op) = cond}

-----------------------------------------------------------------------------
Queued == Len(queue) + Cardinality({t \in Threads : call[t].op = "enqueue"})

Call(t, c) ==
    /\ pc[t] = "idle"
    /\ c.op = "enqueue" => Queued < Capacity
    /\ call' = [call EXCEPT ![t] = c]
    /\ pc' = [pc EXCEPT ![t] = "entering"]
    /\ UNCHANGED <<queue, producerLimit, consumerLimit, got>>

\* Thread t has the mutex, in a call of op.
Locks(t, op) == pc[t] = "entering" /\ call[t].op = op

Becomes(t, state) ==
    /\ pc' = [pc EXCEPT ![t] = state]
    /\ call' = IF state = "idle" THEN [call EXCEPT ![t] = NoCall] ELSE call

Sleeps(t) == Becomes(t, "asleep") /\ UNCHANGED <<queue, got>>

HasRoom == producerLimit = 0 \/ Len(queue) < producerLimit

HasEnough == Len(queue) >= consumerLimit

EnqueueOverOldest(t) ==  \* mutant of Enqueue
    /\ Locks(t, "enqueue") /\ Becomes(t, "notifying")
    /\ queue' = Append(IF HasRoom THEN queue ELSE Tail(queue), call[t].value)
    /\ UNCHANGED <<producerLimit, consumerLimit, got>>

Enqueue(t) ==
    /\ Locks(t, "enqueue")
    /\ \/ ~HasRoom /\ Sleeps(t)
       \/ /\ HasRoom /\ Becomes(t, "notifying")
          /\ queue' = Append(queue, call[t].value)
          /\ UNCHANGED got
    /\ UNCHANGED <<producerLimit, consumerLimit>>

HeadOf(t) ==
    /\ Locks(t, "head")
    /\ \/ ~HasEnough /\ Sleeps(t)
       \/ /\ HasEnough /\ Becomes(t, "idle")
          /\ got' = [got EXCEPT ![t] = IF queue = << >> THEN Nothing ELSE Head(queue)]
          /\ UNCHANGED queue
    /\ UNCHANGED <<producerLimit, consumerLimit>>

DequeueInto(t) ==
    /\ Locks(t, "dequeueInto")
    /\ \/ ~HasEnough /\ Sleeps(t)
       \/ /\ HasEnough /\ queue = << >> /\ Becomes(t, "idle")
          /\ got' = [got EXCEPT ![t] = Nothing]
          /\ UNCHANGED queue
       \/ /\ HasEnough /\ queue # << >> /\ Becomes(t, "notifying")
          /\ queue' = Tail(queue)
          /\ got' = [got EXCEPT ![t] = Nothing]
    /\ UNCHANGED <<producerLimit, consumerLimit>>

Dequeue(t) ==
    /\ Locks(t, "dequeue") /\ Becomes(t, "notifying")
    /\ queue' = IF queue = << >> THEN queue ELSE Tail(queue)
    /\ got' = [got EXCEPT ![t] = Nothing]
    /\ UNCHANGED <<producerLimit, consumerLimit>>

WaitForEmpty(t) ==
    /\ Locks(t, "waitForEmpty")
    /\ \/ queue # << >> /\ Sleeps(t)
       \/ queue = << >> /\ Becomes(t, "idle") /\ UNCHANGED <<queue, got>>
    /\ UNCHANGED <<producerLimit, consumerLimit>>

SetProducerLimit(t) ==
    /\ Locks(t, "setProducerLimit") /\ Becomes(t, "notifying")
    /\ producerLimit' = call[t].limit
    /\ UNCHANGED <<queue, consumerLimit, got>>

SetConsumerLimitQuietly(t) ==  \* mutant of SetConsumerLimit
    /\ Locks(t, "setConsumerLimit") /\ Becomes(t, "idle")
    /\ consumerLimit' = call[t].limit
    /\ UNCHANGED <<queue, producerLimit, got>>

SetConsumerLimit(t) ==
    /\ Locks(t, "setConsumerLimit") /\ Becomes(t, "notifying")
    /\ consumerLimit' = call[t].limit
    /\ UNCHANGED <<queue, producerLimit, got>>

Locked(t) ==
    \/ Enqueue(t) \/ HeadOf(t) \/ DequeueInto(t) \/ Dequeue(t) \/ WaitForEmpty(t)
    \/ SetProducerLimit(t) \/ SetConsumerLimit(t)

AlwaysNotifyOne(op) ==  \* mutant of Woken
    LET sleepers == Sleepers(Notifies(op))
    IN  IF sleepers # {} THEN {{t} : t \in sleepers} ELSE {{}}

\* The threads one notification may wake: notify_one() for enqueue(),
\* notify_all() for the others.
Woken(op) ==
    LET sleepers == Sleepers(Notifies(op))
    IN  IF op = "enqueue" /\ sleepers # {} THEN {{t} : t \in sleepers} ELSE {sleepers}

Notify(t) ==
    /\ pc[t] = "notifying"
    /\ \E woken \in Woken(call[t].op) :
         pc' = [u \in Threads |-> IF u = t THEN "idle"
                                  ELSE IF u \in woken THEN "entering" ELSE pc[u]]
    /\ call' = [call EXCEPT ![t] = NoCall]
    /\ UNCHANGED <<queue, producerLimit, consumerLimit, got>>

SpuriousWakeup(t) ==
    /\ pc[t] = "asleep"
    /\ pc' = [pc EXCEPT ![t] = "entering"]
    /\ UNCHANGED <<queue, producerLimit, consumerLimit, call, got>>

-----------------------------------------------------------------------------
Init ==
    /\ queue = << >>
    /\ producerLimit = 0
    /\ consumerLimit = 1
    /\ call = [t \in Threads |-> NoCall]
    /\ got = [t \in Threads |-> Nothing]
    /\ pc = [t \in Threads |-> "idle"]

Next ==
    \E t \in Threads :
        \/ \E c \in Calls(t) : Call(t, c)
        \/ Locked(t) \/ Notify(t) \/ SpuriousWakeup(t)

Spec == Init /\ [][Next]_vars

\* A running thread gets the mutex in the end and issues its notification.
Fairness == \A t \in Threads : WF_vars(Locked(t)) /\ WF_vars(Notify(t))

FairSpec == Spec /\ Fairness

-----------------------------------------------------------------------------
TypeOK ==
    /\ queue \in Seq(Values)
    /\ producerLimit \in Nat
    /\ consumerLimit \in Nat
    /\ pc \in [Threads -> {"idle", "entering", "asleep", "notifying"}]
    /\ got \in [Threads -> Values \cup {Nothing}]
    /\ DOMAIN call = Threads
    /\ \A t \in Threads : call[t] \in IF pc[t] = "idle" THEN {NoCall} ELSE Calls(t)

\* The condition a sleeping call tests when it wakes.
MayReturn(t) ==
    CASE call[t].op = "enqueue" -> HasRoom
      [] call[t].op \in {"head", "dequeueInto"} -> HasEnough
      [] call[t].op = "waitForEmpty" -> queue = << >>

\* No lost wakeup: the condition of a sleeping thread never holds without some
\* thread being about to notify the condition variable it sleeps on (the
\* notifications are issued outside the mutex, enqueue()'s to one thread only).
SleeperIsNotified ==
    \A t \in Threads : pc[t] = "asleep" /\ MayReturn(t) =>
        \E u \in Threads :
            pc[u] = "notifying" /\ Notifies(call[u].op) = SleepsOn(call[t].op)

\* What the worker got from head() is still the oldest value when its
\* dequeue() removes that (QmlAVWorker::invoke: the callable ran in between).
HeldIsOldest ==
    \A t \in Threads : got[t] # Nothing => queue # << >> /\ Head(queue) = got[t]

\* The queue implements BlockingQueue: a call whose notification is still to be
\* issued has had its effect.
Blocking ==
    INSTANCE BlockingQueue
        WITH Limits <- ProducerLimits \cup ConsumerLimits,
             call <- [t \in Threads |-> IF pc[t] = "notifying" THEN NoCall ELSE call[t]]

KeepsPromise == Blocking!Spec
=============================================================================
