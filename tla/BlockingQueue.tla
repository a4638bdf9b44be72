--------------------------- MODULE BlockingQueue ---------------------------
(***************************************************************************)
(* What a QmlAVWaitingQueue promises its threads: each call takes effect   *)
(* at one instant between its start and its return, enqueue() waits while  *)
(* the queue is at the producers' limit, head() and dequeue(T &) while it  *)
(* is below the consumer's, waitForEmpty() while it is not empty, and a    *)
(* call that may return does.  No mutex, no condition variable.            *)
(***************************************************************************)
EXTENDS Naturals, Sequences

CONSTANTS Threads, Values, Nothing, Limits

VARIABLES
    queue,          \* the values, oldest first
    producerLimit,  \* 0: no limit
    consumerLimit,
    call,           \* the call each thread is in
    got             \* what head() gave each thread and dequeue() has not removed

vars == <<queue, producerLimit, consumerLimit, call, got>>

NoCall == [op |-> "none"]

In(t, op) == call[t].op = op

Return(t) == call' = [call EXCEPT ![t] = NoCall]

Start(t, c) ==
    /\ In(t, "none")
    /\ call' = [call EXCEPT ![t] = c]
    /\ UNCHANGED <<queue, producerLimit, consumerLimit, got>>

Put(t) ==
    /\ In(t, "enqueue") /\ Return(t)
    /\ producerLimit = 0 \/ Len(queue) < producerLimit
    /\ queue' = Append(queue, call[t].value)
    /\ UNCHANGED <<producerLimit, consumerLimit, got>>

Peek(t) ==
    /\ In(t, "head") /\ Return(t)
    /\ Len(queue) >= consumerLimit
    /\ got' = [got EXCEPT ![t] = IF queue = << >> THEN Nothing ELSE Head(queue)]
    /\ UNCHANGED <<queue, producerLimit, consumerLimit>>

Take(t) ==
    /\ In(t, "dequeueInto") /\ Return(t)
    /\ Len(queue) >= consumerLimit
    /\ queue' = IF queue = << >> THEN queue ELSE Tail(queue)
    /\ got' = [got EXCEPT ![t] = Nothing]
    /\ UNCHANGED <<producerLimit, consumerLimit>>

Drop(t) ==
    /\ In(t, "dequeue") /\ Return(t)
    /\ queue' = IF queue = << >> THEN queue ELSE Tail(queue)
    /\ got' = [got EXCEPT ![t] = Nothing]
    /\ UNCHANGED <<producerLimit, consumerLimit>>

AwaitEmpty(t) ==
    /\ In(t, "waitForEmpty") /\ Return(t)
    /\ queue = << >>
    /\ UNCHANGED <<queue, producerLimit, consumerLimit, got>>

LimitProducers(t) ==
    /\ In(t, "setProducerLimit") /\ Return(t)
    /\ producerLimit' = call[t].limit
    /\ UNCHANGED <<queue, consumerLimit, got>>

LimitConsumer(t) ==
    /\ In(t, "setConsumerLimit") /\ Return(t)
    /\ consumerLimit' = call[t].limit
    /\ UNCHANGED <<queue, producerLimit, got>>

Effect(t) ==
    \/ Put(t) \/ Peek(t) \/ Take(t) \/ Drop(t) \/ AwaitEmpty(t)
    \/ LimitProducers(t) \/ LimitConsumer(t)

Calls ==
    [op : {"enqueue"}, value : Values]
      \cup [op : {"head", "dequeueInto", "dequeue", "waitForEmpty"}]
      \cup [op : {"setProducerLimit", "setConsumerLimit"}, limit : Limits]

Init ==
    /\ queue = << >>
    /\ producerLimit = 0
    /\ consumerLimit = 1
    /\ call = [t \in Threads |-> NoCall]
    /\ got = [t \in Threads |-> Nothing]

Next == \E t \in Threads : (\E c \in Calls : Start(t, c)) \/ Effect(t)

Safe == Init /\ [][Next]_vars

Spec == Safe /\ \A t \in Threads : WF_vars(Effect(t))
=============================================================================
