-------------------------- MODULE ArchiveFramesProofs --------------------------
(***************************************************************************)
(* Proofs about ArchiveFrames, for any limit, any number of tasks and any  *)
(* number of playbacks: the pictures under way stay within the limit, a    *)
(* buffer has one user, and the tasks end before the player does.          *)
(*                                                                         *)
(* What a buffer is used for is told by where the tasks, the queue and the *)
(* GUI thread are that have it (OfTasks, OfPosted), and each action moves, *)
(* starts or ends a single task (Moved, Started, Ended).  The limit needs  *)
(* that the counters never say less than there is (CountInv), also when    *)
(* the decoder has read the one and not yet the other.                     *)
(***************************************************************************)
EXTENDS ArchiveFrames, SequenceTheorems, FiniteSetTheorems, TLAPS

Task ==
    [at : {"queued", "converting", "dropped", "wrapped", "posted", "returning"},
     session : Nat, buffer : Buffers]

Picture == [session : Nat, buffer : Buffers]

TypeInv ==
    /\ m_playbackSessionId \in Nat
    /\ m_frameBufferPool \subseteq Buffers /\ inUse \subseteq Buffers
    /\ m_pendingTasks \in Int /\ m_guiPendingTasks \in Int
    /\ m_currentImage \in Buffers \cup {None}
    /\ port \in {"none", "mapped", "erased"}
    /\ decoder \in {Idle} \cup [at : {"read"}, session : Nat, pending : Int]
                     \cup [at : {"passed"}, session : Nat]
                     \cup [at : {"copying"}, session : Nat, buffer : Buffers]
    /\ task \in Seq(Task)
    /\ posted \in Seq(Picture)
    /\ gui \in {Idle} \cup [at : {"current", "late", "shown"}, buffer : Buffers]
    /\ worker \in {Idle} \cup [at : {"stopping", "erased", "cleaned"},
                               next : {"none", "play", "destroy"}]
    /\ player \in {"open", "destroying", "gone"}

\* Where a task has its buffer written; where it has a picture made of it; and
\* where it has work to do with it.
Writing == {"queued", "converting"}

Imaged == {"wrapped", "posted", "returning"}

Working == {"queued", "converting", "wrapped", "posted"}

OfTasks(b, A) == \E s \in DOMAIN task : task[s].at \in A /\ task[s].buffer = b

OfOthers(s, b, A) ==
    \E t \in DOMAIN task : t # s /\ task[t].at \in A /\ task[t].buffer = b

OfPosted(b) == \E i \in DOMAIN posted : posted[i].buffer = b

OnePosted == \A i, j \in DOMAIN posted : posted[i].buffer = posted[j].buffer => i = j

\* No two tasks at these places have one buffer.
Distinct(A) ==
    \A s, t \in DOMAIN task :
        task[s].at \in A /\ task[t].at \in A /\ task[s].buffer = task[t].buffer => s = t

\* The buffer the decoder writes, and those of the tasks that have not converted yet.
Copied == IF decoder.at = "copying" THEN {decoder.buffer} ELSE {}

Written == {task[s].buffer : s \in {t \in DOMAIN task : task[t].at \in Writing}}

\* A buffer is written by one, or pictured, or free.
BufferInv ==
    /\ Written \cap Pictured = {}
    /\ Copied \cap (Written \cup Pictured) = {}
    /\ Distinct(Writing)
    /\ inUse = Copied \cup Written \cup Pictured

\* A picture is posted once.
PostedInv ==
    /\ OnePosted
    /\ \A b : OfTasks(b, {"wrapped"}) => ~OfPosted(b)
    /\ Distinct({"wrapped"})

\* The tasks m_pendingTasks counts.
Counted == {s \in DOMAIN task : task[s].at # "returning"}

Handled == IF gui.at \in {"current", "late"} THEN 1 ELSE 0

\* The counters never say less than there is, nor does what the decoder has read of one.
CountInv ==
    /\ Cardinality(Counted) <= m_pendingTasks
    /\ Len(posted) + Handled <= m_guiPendingTasks
    /\ decoder.at = "read" => m_pendingTasks <= decoder.pending

\* The decoder has passed the limit: there is room for one picture more.
BoundInv ==
    /\ IsFiniteSet(UnderWay)
    /\ Cardinality(UnderWay) <= Limit
    /\ decoder.at = "passed" => Cardinality(UnderWay) < Limit

\* A stopped decoder is not called again before the next header.
EndInv ==
    /\ worker.at = "cleaned" => port = "none" /\ decoder = Idle
    /\ worker.at # "idle" /\ worker.next = "destroy" => player = "destroying"
    /\ player = "gone" => worker = Idle /\ port = "none" /\ TasksEndFirst

IInv == TypeInv /\ BufferInv /\ PostedInv /\ CountInv /\ BoundInv /\ EndInv

-----------------------------------------------------------------------------
(***************************************************************************)
(* The tasks.                                                              *)
(***************************************************************************)
LEMMA FunctionIsSeq ==
    ASSUME NEW S, NEW n \in Nat, NEW f \in [1 .. n -> S]
    PROVE  f \in Seq(S) /\ Len(f) = n
<1>1. f \in Seq(S)
  BY SeqDef
<1>2. Len(f) \in Nat /\ 1 .. Len(f) = 1 .. n
  BY <1>1, LenProperties
<1>. QED  BY <1>1, <1>2, SMT

\* Where task k of RemoveAt(task, s) was before.
Was(s, k) == IF k < s THEN k ELSE k + 1

LEMMA RemovedAt ==
    ASSUME NEW S, NEW q \in Seq(S), NEW s \in 1 .. Len(q)
    PROVE  /\ RemoveAt(q, s) \in Seq(S)
           /\ Len(RemoveAt(q, s)) = Len(q) - 1
           /\ \A k \in 1 .. Len(q) - 1 : RemoveAt(q, s)[k] = q[Was(s, k)]
<1>. DEFINE a == SubSeq(q, 1, s - 1)
            b == SubSeq(q, s + 1, Len(q))
<1>1. Len(q) \in Nat
  BY LenProperties
<1>2. /\ a \in Seq(S) /\ Len(a) = s - 1
      /\ \A i \in 1 .. s - 1 : a[i] = q[i]
  BY <1>1, SMT
<1>3. /\ b \in Seq(S) /\ Len(b) = Len(q) - s
      /\ \A i \in 1 .. Len(q) - s : b[i] = q[s + i]
  BY <1>1, SMT
<1>4. RemoveAt(q, s) = a \o b
  BY DEF RemoveAt
<1>. HIDE DEF a, b
<1>5. /\ a \o b \in Seq(S) /\ Len(a \o b) = Len(q) - 1
      /\ \A k \in 1 .. Len(q) - 1 : (a \o b)[k] = IF k <= s - 1 THEN a[k] ELSE b[k - (s - 1)]
  <2>1. /\ a \o b \in Seq(S) /\ Len(a \o b) = Len(a) + Len(b)
        /\ \A i \in 1 .. Len(a) + Len(b) :
             (a \o b)[i] = IF i <= Len(a) THEN a[i] ELSE b[i - Len(a)]
    BY <1>2, <1>3, ConcatProperties
  <2>2. Len(a) + Len(b) = Len(q) - 1
    BY <1>1, <1>2, <1>3
  <2>. QED  BY <1>2, <2>1, <2>2
<1>6. ASSUME NEW k \in 1 .. Len(q) - 1
      PROVE  (a \o b)[k] = q[Was(s, k)]
  <2>1. CASE k < s
    <3>1. k \in 1 .. s - 1 /\ k <= s - 1
      BY <1>1, <2>1
    <3>. QED  BY <1>2, <1>5, <2>1, <3>1 DEF Was
  <2>2. CASE ~(k < s)
    <3>1. k - (s - 1) \in 1 .. Len(q) - s /\ ~(k <= s - 1) /\ s + (k - (s - 1)) = k + 1
      BY <1>1, <2>2
    <3>2. (a \o b)[k] = b[k - (s - 1)]
      BY <1>5, <3>1
    <3>3. b[k - (s - 1)] = q[k + 1]
      BY <1>3, <3>1
    <3>. QED  BY <2>2, <3>2, <3>3 DEF Was
  <2>. QED  BY <2>1, <2>2
<1>. QED  BY <1>4, <1>5, <1>6

\* A task goes on.
LEMMA Moved ==
    ASSUME TypeInv, NEW s \in DOMAIN task, NEW next,
           task' = [task EXCEPT ![s].at = next]
    PROVE  /\ DOMAIN task' = DOMAIN task
           /\ \A k \in DOMAIN task : task'[k].buffer = task[k].buffer
           /\ \A k \in DOMAIN task : task'[k].at = IF k = s THEN next ELSE task[k].at
           /\ next \in {"converting", "dropped", "wrapped", "posted", "returning"} =>
                task' \in Seq(Task)
<1>1. task \in Seq(Task) /\ Len(task) \in Nat /\ DOMAIN task = 1 .. Len(task)
  BY LenProperties DEF TypeInv
<1>2. \A k \in DOMAIN task : task[k] \in Task
  BY <1>1, ElementOfSeq
<1>3. task' = [task EXCEPT ![s] = [task[s] EXCEPT !.at = next]]
  OBVIOUS
<1>4. [task[s] EXCEPT !.at = next].at = next /\ [task[s] EXCEPT !.at = next].buffer = task[s].buffer
  BY <1>2 DEF Task
<1>5. DOMAIN task' = DOMAIN task /\ task'[s] = [task[s] EXCEPT !.at = next]
      /\ \A k \in DOMAIN task \ {s} : task'[k] = task[k]
  BY <1>1, <1>3
<1>6. ASSUME next \in {"converting", "dropped", "wrapped", "posted", "returning"}
      PROVE  task' \in Seq(Task)
  <2>1. [task[s] EXCEPT !.at = next] \in Task
    BY <1>2, <1>6 DEF Task
  <2>. QED  BY <1>1, <1>3, <2>1, ExceptSeq
<1>. QED  BY <1>4, <1>5, <1>6

LEMMA MovedUses ==
    ASSUME TypeInv, NEW s \in DOMAIN task, NEW next,
           task' = [task EXCEPT ![s].at = next]
    PROVE  /\ \A b, A : OfTasks(b, A)' <=>
                        OfOthers(s, b, A) \/ (next \in A /\ task[s].buffer = b)
           /\ \A A : Distinct(A) /\ (next \in A => ~OfOthers(s, task[s].buffer, A)) => Distinct(A)'
<1>1. /\ DOMAIN task' = DOMAIN task
      /\ \A k \in DOMAIN task : task'[k].buffer = task[k].buffer
      /\ \A k \in DOMAIN task : task'[k].at = IF k = s THEN next ELSE task[k].at
  BY Moved
<1>2. ASSUME NEW b, NEW A
      PROVE  OfTasks(b, A)' <=> OfOthers(s, b, A) \/ (next \in A /\ task[s].buffer = b)
  <2>1. ASSUME OfTasks(b, A)'
        PROVE  OfOthers(s, b, A) \/ (next \in A /\ task[s].buffer = b)
    BY <1>1, <2>1 DEF OfTasks, OfOthers
  <2>2. ASSUME OfOthers(s, b, A) PROVE OfTasks(b, A)'
    BY <1>1, <2>2 DEF OfTasks, OfOthers
  <2>3. ASSUME next \in A, task[s].buffer = b PROVE OfTasks(b, A)'
    BY <1>1, <2>3 DEF OfTasks
  <2>. QED  BY <2>1, <2>2, <2>3
<1>3. ASSUME NEW A, Distinct(A), next \in A => ~OfOthers(s, task[s].buffer, A)
      PROVE  Distinct(A)'
  BY <1>1, <1>3 DEF Distinct, OfOthers
<1>. QED  BY <1>2, <1>3

\* A task is over.
LEMMA Ended ==
    ASSUME TypeInv, NEW s \in DOMAIN task, task' = RemoveAt(task, s)
    PROVE  /\ task' \in Seq(Task)
           /\ \A k \in DOMAIN task' : /\ Was(s, k) \in DOMAIN task \ {s}
                                     /\ task'[k] = task[Was(s, k)]
           /\ \A j, k \in DOMAIN task' : Was(s, j) = Was(s, k) => j = k
           /\ \A t \in DOMAIN task \ {s} : \E k \in DOMAIN task' : t = Was(s, k)
<1>1. task \in Seq(Task) /\ Len(task) \in Nat /\ DOMAIN task = 1 .. Len(task)
  BY LenProperties DEF TypeInv
<1>2. s \in 1 .. Len(task)
  BY <1>1
<1>3. /\ task' \in Seq(Task) /\ Len(task') = Len(task) - 1
      /\ \A k \in 1 .. Len(task) - 1 : task'[k] = task[Was(s, k)]
  BY <1>1, <1>2, RemovedAt
<1>4. DOMAIN task' = 1 .. Len(task) - 1
  BY <1>3, LenProperties
<1>5. \A k \in 1 .. Len(task) - 1 : Was(s, k) \in 1 .. Len(task) /\ Was(s, k) # s
  BY <1>1, <1>2 DEF Was
<1>6. \A j, k \in 1 .. Len(task) - 1 : Was(s, j) = Was(s, k) => j = k
  BY <1>1, <1>2 DEF Was
<1>7. ASSUME NEW t \in 1 .. Len(task), t # s
      PROVE  \E k \in 1 .. Len(task) - 1 : t = Was(s, k)
  <2>1. CASE t < s
    <3>1. t \in 1 .. Len(task) - 1 /\ t = Was(s, t)
      BY <1>1, <1>2, <2>1 DEF Was
    <3>. QED  BY <3>1
  <2>2. CASE ~(t < s)
    <3>1. t - 1 \in 1 .. Len(task) - 1 /\ t = Was(s, t - 1)
      BY <1>1, <1>2, <1>7, <2>2 DEF Was
    <3>. QED  BY <3>1
  <2>. QED  BY <2>1, <2>2
<1>8. \A k \in DOMAIN task' : Was(s, k) \in DOMAIN task \ {s} /\ task'[k] = task[Was(s, k)]
  BY <1>1, <1>3, <1>4, <1>5
<1>9. \A t \in DOMAIN task \ {s} : \E k \in DOMAIN task' : t = Was(s, k)
  BY <1>1, <1>4, <1>7
<1>. QED  BY <1>3, <1>4, <1>6, <1>8, <1>9, SMTT(30)

LEMMA EndedUses ==
    ASSUME TypeInv, NEW s \in DOMAIN task, task' = RemoveAt(task, s)
    PROVE  /\ \A b, A : OfTasks(b, A)' <=> OfOthers(s, b, A)
           /\ \A A : Distinct(A) => Distinct(A)'
<1>1. /\ \A k \in DOMAIN task' : /\ Was(s, k) \in DOMAIN task \ {s}
                                /\ task'[k] = task[Was(s, k)]
      /\ \A j, k \in DOMAIN task' : Was(s, j) = Was(s, k) => j = k
      /\ \A t \in DOMAIN task \ {s} : \E k \in DOMAIN task' : t = Was(s, k)
  BY Ended
<1>2. ASSUME NEW b, NEW A PROVE OfTasks(b, A)' <=> OfOthers(s, b, A)
  <2>1. ASSUME OfTasks(b, A)' PROVE OfOthers(s, b, A)
    BY <1>1, <2>1 DEF OfTasks, OfOthers
  <2>2. ASSUME OfOthers(s, b, A) PROVE OfTasks(b, A)'
    BY <1>1, <2>2 DEF OfTasks, OfOthers
  <2>. QED  BY <2>1, <2>2
<1>3. ASSUME NEW A, Distinct(A) PROVE Distinct(A)'
  <2>. SUFFICES ASSUME NEW j \in DOMAIN task', NEW k \in DOMAIN task',
                       task'[j].at \in A, task'[k].at \in A, task'[j].buffer = task'[k].buffer
                PROVE  j = k
    BY DEF Distinct
  <2>1. Was(s, j) = Was(s, k)
    BY <1>1, <1>3 DEF Distinct
  <2>. QED  BY <1>1, <2>1
<1>. QED  BY <1>2, <1>3

\* A task starts.
LEMMA StartedUses ==
    ASSUME TypeInv, NEW t \in Task, task' = Append(task, t)
    PROVE  /\ task' \in Seq(Task)
           /\ \A b, A : OfTasks(b, A)' <=> OfTasks(b, A) \/ (t.at \in A /\ t.buffer = b)
           /\ \A A : Distinct(A) /\ (t.at \in A => ~OfTasks(t.buffer, A)) => Distinct(A)'
<1>1. task \in Seq(Task) /\ Len(task) \in Nat /\ DOMAIN task = 1 .. Len(task)
  BY LenProperties DEF TypeInv
<1>. DEFINE n == Len(task) + 1
<1>2. task' \in Seq(Task) /\ DOMAIN task' = 1 .. n /\ task'[n] = t
      /\ \A i \in 1 .. Len(task) : task'[i] = task[i]
  BY <1>1, AppendProperties, LenProperties
<1>3. n \notin DOMAIN task /\ DOMAIN task' = DOMAIN task \cup {n}
  BY <1>1, <1>2
<1>4. \A i \in DOMAIN task : task'[i] = task[i]
  BY <1>1, <1>2
<1>. HIDE DEF n
<1>5. ASSUME NEW b, NEW A
      PROVE  OfTasks(b, A)' <=> OfTasks(b, A) \/ (t.at \in A /\ t.buffer = b)
  BY <1>2, <1>3, <1>4 DEF OfTasks
<1>6. ASSUME NEW A, Distinct(A), t.at \in A => ~OfTasks(t.buffer, A)
      PROVE  Distinct(A)'
  BY <1>2, <1>3, <1>4, <1>6 DEF OfTasks, Distinct
<1>. QED  BY <1>2, <1>5, <1>6

\* A task among the others.
LEMMA OfOne ==
    ASSUME NEW s \in DOMAIN task
    PROVE  \A b, A : OfTasks(b, A) <=>
                      OfOthers(s, b, A) \/ (task[s].at \in A /\ task[s].buffer = b)
BY DEF OfTasks, OfOthers

-----------------------------------------------------------------------------
(***************************************************************************)
(* The GUI thread's queue.                                                 *)
(***************************************************************************)
LEMMA PostedMore ==
    ASSUME TypeInv, NEW e \in Picture, posted' = Append(posted, e)
    PROVE  /\ posted' \in Seq(Picture) /\ Len(posted') = Len(posted) + 1
           /\ \A b : OfPosted(b)' <=> OfPosted(b) \/ b = e.buffer
           /\ OnePosted /\ ~OfPosted(e.buffer) => OnePosted'
<1>1. posted \in Seq(Picture) /\ Len(posted) \in Nat /\ DOMAIN posted = 1 .. Len(posted)
  BY LenProperties DEF TypeInv
<1>. DEFINE n == Len(posted) + 1
<1>2. /\ posted' \in Seq(Picture) /\ Len(posted') = n /\ DOMAIN posted' = 1 .. n
      /\ posted'[n] = e /\ \A i \in 1 .. Len(posted) : posted'[i] = posted[i]
  BY <1>1, AppendProperties, LenProperties
<1>3. n \notin DOMAIN posted /\ DOMAIN posted' = DOMAIN posted \cup {n}
  BY <1>1, <1>2
<1>4. \A i \in DOMAIN posted : posted'[i] = posted[i]
  BY <1>1, <1>2
<1>5. posted' \in Seq(Picture) /\ Len(posted') = Len(posted) + 1 /\ posted'[n] = e
  BY <1>2
<1>. HIDE DEF n
<1>6. ASSUME NEW b PROVE OfPosted(b)' <=> OfPosted(b) \/ b = e.buffer
  BY <1>3, <1>4, <1>5 DEF OfPosted
<1>7. ASSUME OnePosted, ~OfPosted(e.buffer) PROVE OnePosted'
  BY <1>3, <1>4, <1>5, <1>7 DEF OfPosted, OnePosted
<1>. QED  BY <1>5, <1>6, <1>7

LEMMA PostedLess ==
    ASSUME TypeInv, posted # << >>, posted' = Tail(posted)
    PROVE  /\ posted' \in Seq(Picture) /\ Len(posted') = Len(posted) - 1
           /\ Head(posted) \in Picture
           /\ \A b : OfPosted(b) <=> OfPosted(b)' \/ b = Head(posted).buffer
           /\ OnePosted => OnePosted'
<1>1. /\ posted \in Seq(Picture) /\ Len(posted) \in Nat \ {0} /\ DOMAIN posted = 1 .. Len(posted)
      /\ Head(posted) = posted[1] /\ Head(posted) \in Picture
  BY LenProperties, EmptySeq, HeadTailProperties DEF TypeInv
<1>2. /\ posted' \in Seq(Picture) /\ Len(posted') = Len(posted) - 1
      /\ \A i \in 1 .. Len(posted) - 1 : posted'[i] = posted[i + 1]
  BY <1>1, HeadTailProperties
<1>3. DOMAIN posted' = 1 .. Len(posted) - 1
  BY <1>2, LenProperties
<1>4. ASSUME NEW b PROVE OfPosted(b) <=> OfPosted(b)' \/ b = Head(posted).buffer
  <2>1. ASSUME NEW i \in DOMAIN posted, posted[i].buffer = b
        PROVE  OfPosted(b)' \/ b = Head(posted).buffer
    <3>1. CASE i = 1
      BY <1>1, <2>1, <3>1
    <3>2. CASE i # 1
      <4>1. i - 1 \in DOMAIN posted' /\ posted'[i - 1] = posted[i]
        BY <1>1, <1>2, <1>3, <3>2
      <4>. QED  BY <2>1, <4>1 DEF OfPosted
    <3>. QED  BY <3>1, <3>2
  <2>2. ASSUME NEW i \in DOMAIN posted', posted'[i].buffer = b
        PROVE  OfPosted(b)
    <3>1. i + 1 \in DOMAIN posted /\ posted'[i] = posted[i + 1]
      BY <1>1, <1>2, <1>3
    <3>. QED  BY <2>2, <3>1 DEF OfPosted
  <2>3. 1 \in DOMAIN posted
    BY <1>1
  <2>4. b = Head(posted).buffer => OfPosted(b)
    BY <1>1, <2>3 DEF OfPosted
  <2>. QED  BY <2>1, <2>2, <2>4 DEF OfPosted
<1>5. ASSUME OnePosted PROVE OnePosted'
  <2>. SUFFICES ASSUME NEW i \in DOMAIN posted', NEW j \in DOMAIN posted',
                       posted'[i].buffer = posted'[j].buffer
                PROVE  i = j
    BY DEF OnePosted
  <2>1. i + 1 \in DOMAIN posted /\ j + 1 \in DOMAIN posted /\ i \in Nat /\ j \in Nat
    BY <1>1, <1>3
  <2>2. posted[i + 1].buffer = posted[j + 1].buffer
    BY <1>2, <1>3
  <2>3. i + 1 = j + 1
    BY <1>5, <2>1, <2>2 DEF OnePosted
  <2>. QED  BY <2>1, <2>3
<1>. QED  BY <1>1, <1>2, <1>4, <1>5

-----------------------------------------------------------------------------
(***************************************************************************)
(* What a buffer is used for.                                              *)
(***************************************************************************)
UsesOf ==
    /\ \A b : b \in Pictured <=>
         \/ OfTasks(b, Imaged) \/ OfPosted(b)
         \/ gui.at # "idle" /\ b = gui.buffer
         \/ b = m_currentImage /\ b # None
    /\ \A b : b \in Written <=> OfTasks(b, Writing)
    /\ \A b : b \in Copied <=> decoder.at = "copying" /\ b = decoder.buffer
    /\ \A b : b \in UnderWay <=>
         \/ b \in Copied \/ OfTasks(b, Working) \/ OfPosted(b)
         \/ gui.at \in {"current", "late"} /\ b = gui.buffer

LEMMA Uses == UsesOf
<1>1. ASSUME NEW b
      PROVE  b \in Pictured <=>
               \/ OfTasks(b, Imaged) \/ OfPosted(b)
               \/ gui.at # "idle" /\ b = gui.buffer
               \/ b = m_currentImage /\ b # None
  BY DEF Pictured, OfTasks, OfPosted, Imaged
<1>2. ASSUME NEW b PROVE b \in Written <=> OfTasks(b, Writing)
  BY DEF Written, OfTasks, Writing
<1>3. ASSUME NEW b PROVE b \in Copied <=> decoder.at = "copying" /\ b = decoder.buffer
  BY DEF Copied
<1>4. ASSUME NEW b
      PROVE  b \in UnderWay <=>
               \/ b \in Copied \/ OfTasks(b, Working) \/ OfPosted(b)
               \/ gui.at \in {"current", "late"} /\ b = gui.buffer
  BY <1>3 DEF UnderWay, OfTasks, OfPosted, Working
<1>. QED  BY <1>1, <1>2, <1>3, <1>4 DEF UsesOf

LEMMA UsesNext == UsesOf'
BY Uses, PTL

-----------------------------------------------------------------------------
(***************************************************************************)
(* Types.                                                                  *)
(***************************************************************************)
LEMMA InitType == Init => TypeInv
<1>1. << >> \in Seq(Task) /\ << >> \in Seq(Picture)
  BY EmptySeq
<1>. QED  BY <1>1 DEF Init, TypeInv, Idle

LEMMA TaskIsOne ==
    ASSUME TypeInv, NEW s \in DOMAIN task
    PROVE  task[s] \in Task
<1>1. task \in Seq(Task) /\ DOMAIN task = 1 .. Len(task)
  BY LenProperties DEF TypeInv
<1>. QED  BY <1>1, ElementOfSeq

LEMMA BufferIsOne ==
    ASSUME TypeInv, Free \cup (Buffers \ Alive) # {}
    PROVE  /\ FrameBuffer \in Buffers
           /\ FrameBuffer \in Free \/ FrameBuffer \in Buffers \ Alive
<1>1. Free \subseteq Buffers
  BY DEF Free, TypeInv
<1>2. CASE Free # {}
  BY <1>1, <1>2 DEF FrameBuffer
<1>3. CASE Free = {}
  <2>1. Buffers \ Alive # {} /\ FrameBuffer = CHOOSE b \in Buffers \ Alive : TRUE
    BY <1>3 DEF FrameBuffer
  <2>. QED  BY <2>1
<1>. QED  BY <1>2, <1>3

LEMMA TypeStep == TypeInv /\ [Next]_vars => TypeInv'
<1>. SUFFICES ASSUME TypeInv, [Next]_vars PROVE TypeInv'
  OBVIOUS
<1>1. CASE ReadsPending
  BY <1>1 DEF ReadsPending, TypeInv, buffers, counters
<1>2. CASE TestsLimit
  BY <1>2 DEF TestsLimit, TypeInv, Idle, buffers, counters
<1>3. CASE TakesBuffer
  BY <1>3, BufferIsOne DEF TakesBuffer, TypeInv, Idle, counters
<1>4. CASE StartsTask
  <2>. DEFINE t == [at |-> "queued", session |-> decoder.session, buffer |-> decoder.buffer]
  <2>1. t \in Task
    BY <1>4 DEF StartsTask, TypeInv, Task, Idle
  <2>2. task' = Append(task, t)
    BY <1>4 DEF StartsTask
  <2>. HIDE DEF t
  <2>3. task' \in Seq(Task)
    BY <2>1, <2>2, StartedUses
  <2>. QED  BY <1>4, <2>3 DEF StartsTask, TypeInv, Idle, buffers
<1>5. ASSUME NEW s \in DOMAIN task, NEW from, NEW next \in {"converting", "wrapped"},
             TestsSession(s, from, next)
      PROVE  TypeInv'
  <2>1. task' \in Seq(Task)
    <3>1. \/ task' = [task EXCEPT ![s].at = next]
          \/ task' = [task EXCEPT ![s].at = "dropped"]
      BY <1>5 DEF TestsSession
    <3>. QED  BY <3>1, Moved
  <2>2. inUse' \subseteq Buffers
    BY <1>5 DEF TestsSession, TypeInv
  <2>. QED  BY <1>5, <2>1, <2>2 DEF TestsSession, TypeInv, counters
<1>6. ASSUME NEW s \in DOMAIN task, PostsPicture(s) PROVE TypeInv'
  <2>. DEFINE e == [session |-> task[s].session, buffer |-> task[s].buffer]
  <2>1. task' \in Seq(Task)
    BY <1>6, Moved DEF PostsPicture
  <2>2. e \in Picture
    BY TaskIsOne DEF Picture, Task
  <2>3. posted' = Append(posted, e)
    BY <1>6 DEF PostsPicture
  <2>. HIDE DEF e
  <2>4. posted' \in Seq(Picture)
    BY <2>2, <2>3, PostedMore
  <2>. QED  BY <1>6, <2>1, <2>4 DEF PostsPicture, TypeInv, buffers
<1>7. ASSUME NEW s \in DOMAIN task, CountsDown(s) PROVE TypeInv'
  <2>1. task' \in Seq(Task)
    BY <1>7, Moved, Ended DEF CountsDown
  <2>. QED  BY <1>7, <2>1 DEF CountsDown, TypeInv, buffers
<1>8. ASSUME NEW s \in DOMAIN task, Returns(s) PROVE TypeInv'
  <2>1. task' \in Seq(Task)
    BY <1>8, Ended DEF Returns
  <2>2. inUse' \subseteq Buffers
    BY <1>8 DEF Returns, PicturesGo, TypeInv
  <2>. QED  BY <1>8, <2>1, <2>2 DEF Returns, TypeInv, counters
<1>9. CASE TakesPicture
  <2>1. posted' \in Seq(Picture) /\ Head(posted).buffer \in Buffers
    BY <1>9, PostedLess DEF TakesPicture, Picture
  <2>. QED  BY <1>9, <2>1 DEF TakesPicture, TypeInv, buffers, counters
<1>10. CASE Shows
  <2>1. inUse' \subseteq Buffers
    BY <1>10 DEF Shows, PicturesGo, TypeInv
  <2>2. m_currentImage' \in Buffers \cup {None} /\ m_guiPendingTasks' \in Int
        /\ gui' \in [at : {"current", "late", "shown"}, buffer : Buffers]
    BY <1>10 DEF Shows, TypeInv, Idle
  <2>. QED  BY <1>10, <2>1, <2>2 DEF Shows, TypeInv
<1>11. CASE DeletesEvent
  <2>1. inUse' \subseteq Buffers
    BY <1>11 DEF DeletesEvent, PicturesGo, TypeInv
  <2>. QED  BY <1>11, <2>1 DEF DeletesEvent, TypeInv, counters
<1>12. ASSUME NEW next \in {"none", "play"}, BeginsCleanup(next) PROVE TypeInv'
  BY <1>12 DEF BeginsCleanup, TypeInv, buffers, counters, pipeline
<1>13. CASE Destroy
  BY <1>13 DEF Destroy, TypeInv, buffers, counters, pipeline
<1>14. CASE BeginsLastCleanup
  BY <1>14 DEF BeginsLastCleanup, TypeInv, buffers, counters, pipeline
<1>15. CASE ErasesPort
  BY <1>15 DEF ErasesPort, TypeInv, Idle, buffers, counters, pipeline
<1>16. CASE StopsDecoder
  <2>1. inUse' \subseteq Buffers
    BY <1>16 DEF StopsDecoder, PicturesGo, TypeInv
  <2>2. worker' \in {Idle} \cup [at : {"stopping", "erased", "cleaned"},
                                next : {"none", "play", "destroy"}]
    BY <1>16 DEF StopsDecoder, TypeInv, Idle
  <2>. QED  BY <1>16, <2>1, <2>2 DEF StopsDecoder, TypeInv, counters, pipeline
<1>17. CASE OpensPort
  BY <1>17 DEF OpensPort, TypeInv, buffers, counters, pipeline
<1>18. CASE IsDestroyed
  <2>1. inUse' \subseteq Buffers /\ posted' \in Seq(Picture)
    BY <1>18, EmptySeq DEF IsDestroyed, PicturesGo, TypeInv
  <2>. QED  BY <1>18, <2>1 DEF IsDestroyed, TypeInv, counters
<1>19. CASE UNCHANGED vars
  BY <1>19 DEF vars, TypeInv, buffers, counters, pipeline
<1>. QED
  BY <1>1, <1>2, <1>3, <1>4, <1>5, <1>6, <1>7, <1>8, <1>9, <1>10, <1>11, <1>12, <1>13, <1>14,
     <1>15, <1>16, <1>17, <1>18, <1>19
  DEF Next, DecCallBack, Gui, Cleanup, Runs

-----------------------------------------------------------------------------
(***************************************************************************)
(* A buffer has one user.                                                  *)
(***************************************************************************)
\* A step that moves no picture.
Still ==
    /\ UNCHANGED <<task, posted, gui, m_currentImage, inUse>>
    /\ Copied' = Copied

Stills ==
    \/ ReadsPending \/ TestsLimit \/ Destroy \/ BeginsLastCleanup \/ ErasesPort \/ OpensPort
    \/ \E next \in {"none", "play"} : BeginsCleanup(next)
    \/ UNCHANGED vars

LEMMA StillsAreStill == TypeInv /\ Stills => Still
<1>. SUFFICES ASSUME TypeInv, Stills PROVE Still
  OBVIOUS
<1>1. CASE ReadsPending
  BY <1>1 DEF ReadsPending, Still, Copied, buffers
<1>2. CASE TestsLimit
  BY <1>2 DEF TestsLimit, Still, Copied, Idle, buffers
<1>3. CASE ~(ReadsPending \/ TestsLimit)
  <2>1. UNCHANGED <<task, posted, gui, m_currentImage, inUse, decoder>>
    BY <1>3 DEF Stills, Destroy, BeginsLastCleanup, ErasesPort, OpensPort, BeginsCleanup, vars,
       buffers, pipeline
  <2>. QED  BY <2>1 DEF Still, Copied
<1>. QED  BY <1>1, <1>2, <1>3

LEMMA StillKeeps ==
    ASSUME Still
    PROVE  /\ Pictured' = Pictured /\ Written' = Written /\ UnderWay' = UnderWay
           /\ \A A : Distinct(A) => Distinct(A)'
<1>1. Pictured' = Pictured
  BY DEF Still, Pictured
<1>2. Written' = Written
  BY DEF Still, Written
<1>3. UnderWay' = UnderWay
  <2>1. \A b : OfTasks(b, Working)' <=> OfTasks(b, Working)
    BY DEF Still, OfTasks
  <2>2. \A b : OfPosted(b)' <=> OfPosted(b)
    BY DEF Still, OfPosted
  <2>3. gui' = gui /\ Copied' = Copied
    BY DEF Still
  <2>4. \A b : b \in UnderWay' <=> b \in UnderWay
    BY <2>1, <2>2, <2>3, Uses, UsesNext DEF UsesOf
  <2>. QED  BY <2>4
<1>4. \A A : Distinct(A) => Distinct(A)'
  BY DEF Still, Distinct
<1>. QED  BY <1>1, <1>2, <1>3, <1>4

LEMMA Places ==
    /\ \A at : at \in Writing <=> at = "queued" \/ at = "converting"
    /\ \A at : at \in Imaged <=> at = "wrapped" \/ at = "posted" \/ at = "returning"
    /\ \A at : at \in Working <=> at \in Writing \/ at = "wrapped" \/ at = "posted"
BY DEF Writing, Imaged, Working

LEMMA OnlyOne ==
    ASSUME NEW A, Distinct(A), NEW s \in DOMAIN task, task[s].at \in A
    PROVE  ~OfOthers(s, task[s].buffer, A)
BY DEF Distinct, OfOthers

\* A task that writes its buffer goes on.
LEMMA WriterMoves ==
    ASSUME TypeInv, Distinct(Writing), NEW s \in DOMAIN task, task[s].at \in Writing,
           NEW next, task' = [task EXCEPT ![s].at = next]
    PROVE  /\ \A b : OfTasks(b, Writing)' <=>
                     OfTasks(b, Writing) /\ (next \in Writing \/ b # task[s].buffer)
           /\ \A b : OfTasks(b, Imaged)' <=>
                     OfTasks(b, Imaged) \/ (next \in Imaged /\ b = task[s].buffer)
           /\ Distinct(Writing)'
<1>1. ~OfOthers(s, task[s].buffer, Writing)
  BY OnlyOne
<1>2. task[s].at \notin Imaged
  BY Places
<1>3. /\ \A b : OfTasks(b, Writing)' <=>
                OfOthers(s, b, Writing) \/ (next \in Writing /\ task[s].buffer = b)
      /\ \A b : OfTasks(b, Imaged)' <=>
                OfOthers(s, b, Imaged) \/ (next \in Imaged /\ task[s].buffer = b)
      /\ Distinct(Writing)'
  BY <1>1, MovedUses
<1>4. /\ \A b : OfTasks(b, Writing) <=> OfOthers(s, b, Writing) \/ task[s].buffer = b
      /\ \A b : OfTasks(b, Imaged) <=> OfOthers(s, b, Imaged)
  BY <1>2, OfOne
<1>. QED  BY <1>1, <1>3, <1>4

\* A task that has work to do goes on.
LEMMA WorkGoesOn ==
    ASSUME TypeInv, NEW s \in DOMAIN task, task[s].at \in Working,
           NEW next, task' = [task EXCEPT ![s].at = next]
    PROVE  /\ OfTasks(task[s].buffer, Working)
           /\ \A b : OfTasks(b, Working)' => OfTasks(b, Working)
<1>1. \A b : OfTasks(b, Working) <=> OfOthers(s, b, Working) \/ task[s].buffer = b
  BY OfOne
<1>2. \A b : OfTasks(b, Working)' <=>
              OfOthers(s, b, Working) \/ (next \in Working /\ task[s].buffer = b)
  BY MovedUses
<1>. QED  BY <1>1, <1>2

\* A step in which pictures go, or none.
LEMMA PicturesMayGo ==
    ASSUME BufferInv, Distinct(Writing)', Written' = Written, Copied' = Copied,
           Pictured' \subseteq Pictured, PicturesGo
    PROVE  BufferInv'
BY DEF BufferInv, PicturesGo

LEMMA InitBuffer == Init => BufferInv
<1>. SUFFICES ASSUME Init PROVE BufferInv
  OBVIOUS
<1>1. \A b, A : ~OfTasks(b, A) /\ ~OfPosted(b)
  BY DEF Init, OfTasks, OfPosted
<1>2. gui.at = "idle" /\ decoder.at = "idle" /\ m_currentImage = None /\ inUse = {}
  BY DEF Init, Idle
<1>3. Pictured = {} /\ Written = {} /\ Copied = {}
  BY <1>1, <1>2, Uses DEF UsesOf
<1>4. Distinct(Writing)
  BY DEF Init, Distinct
<1>. QED  BY <1>2, <1>3, <1>4 DEF BufferInv

LEMMA BufferStep == TypeInv /\ BufferInv /\ [Next]_vars => BufferInv'
<1>. SUFFICES ASSUME TypeInv, BufferInv, [Next]_vars PROVE BufferInv'
  OBVIOUS
<1>1. CASE Stills
  <2>1. Still
    BY <1>1, StillsAreStill
  <2>2. inUse' = inUse /\ Copied' = Copied
    BY <2>1 DEF Still
  <2>. QED  BY <2>1, <2>2, StillKeeps DEF BufferInv
<1>2. CASE TakesBuffer
  <2>1. FrameBuffer \notin Written \cup Pictured
    <3>1. CASE FrameBuffer \in Free
      BY <3>1 DEF Free, BufferInv
    <3>2. CASE FrameBuffer \in Buffers \ Alive
      BY <3>2 DEF Alive, Written
    <3>. QED  BY <1>2, <3>1, <3>2, BufferIsOne DEF TakesBuffer
  <2>2. /\ Pictured' = Pictured /\ Written' = Written
        /\ Copied = {} /\ Copied' = {FrameBuffer} /\ inUse' = inUse \cup {FrameBuffer}
    BY <1>2 DEF TakesBuffer, Pictured, Written, Copied
  <2>3. Distinct(Writing)'
    BY <1>2 DEF TakesBuffer, Distinct, BufferInv
  <2>. QED  BY <2>1, <2>2, <2>3 DEF BufferInv
<1>3. CASE StartsTask
  <2>. DEFINE t == [at |-> "queued", session |-> decoder.session, buffer |-> decoder.buffer]
  <2>1. t \in Task /\ t.at = "queued" /\ t.buffer = decoder.buffer
    BY <1>3 DEF StartsTask, TypeInv, Task, Idle
  <2>2. task' = Append(task, t)
    BY <1>3 DEF StartsTask
  <2>. HIDE DEF t
  <2>3. decoder.at = "copying" /\ decoder'.at = "idle"
        /\ UNCHANGED <<posted, gui, m_currentImage, inUse>>
    BY <1>3 DEF StartsTask, Idle, buffers
  <2>4. decoder.buffer \in Copied /\ ~OfTasks(decoder.buffer, Writing)
    BY <2>3, Uses DEF UsesOf, BufferInv
  <2>5. Distinct(Writing)'
    BY <2>1, <2>2, <2>4, StartedUses DEF BufferInv
  <2>6. /\ \A b : OfTasks(b, Writing)' <=> OfTasks(b, Writing) \/ b = decoder.buffer
        /\ \A b : OfTasks(b, Imaged)' <=> OfTasks(b, Imaged)
    BY <2>1, <2>2, StartedUses DEF Writing, Imaged
  <2>7. \A b : OfPosted(b)' <=> OfPosted(b)
    BY <2>3 DEF OfPosted
  <2>8. \A b : b \in Pictured' <=> b \in Pictured
    BY <2>3, <2>6, <2>7, Uses, UsesNext DEF UsesOf
  <2>9. \A b : b \in Written' <=> b \in Written \cup Copied
    BY <2>3, <2>6, Uses, UsesNext DEF UsesOf
  <2>10. Copied' = {}
    BY <2>3 DEF Copied
  <2>11. Pictured' = Pictured /\ Written' = Written \cup Copied
    BY <2>8, <2>9
  <2>. QED  BY <2>3, <2>5, <2>10, <2>11 DEF BufferInv
<1>4. ASSUME NEW s \in DOMAIN task, NEW from \in Writing, NEW next \in {"converting", "wrapped"},
             TestsSession(s, from, next), from = "converting" <=> next = "wrapped"
      PROVE  BufferInv'
  <2>. DEFINE o == task[s].buffer
  <2>1. task[s].at = from /\ UNCHANGED <<posted, gui, m_currentImage, decoder>>
    BY <1>4 DEF TestsSession
  <2>2. ~OfOthers(s, o, Writing) /\ OfTasks(o, Writing)
    BY <2>1, OnlyOne, OfOne DEF BufferInv
  <2>3. o \in Written /\ o \notin Pictured /\ o \notin Copied /\ Copied' = Copied
    BY <2>1, <2>2, Uses DEF UsesOf, BufferInv, Copied
  <2>4. \A b : OfPosted(b)' <=> OfPosted(b)
    BY <2>1 DEF OfPosted
  <2>. HIDE DEF o
  <2>5. CASE task' = [task EXCEPT ![s].at = "dropped"] /\ inUse' = inUse \ {o}
    <3>1. /\ \A b : OfTasks(b, Writing)' <=> OfTasks(b, Writing) /\ b # o
          /\ \A b : OfTasks(b, Imaged)' <=> OfTasks(b, Imaged)
          /\ Distinct(Writing)'
      <4>1. task[s].at \in Writing /\ "dropped" \notin Writing /\ "dropped" \notin Imaged
        BY <2>1, Places
      <4>. QED  BY <2>5, <4>1, WriterMoves DEF BufferInv, o
    <3>2. Written' = Written \ {o} /\ Pictured' = Pictured
      BY <2>1, <2>4, <3>1, Uses, UsesNext DEF UsesOf
    <3>. QED  BY <2>3, <2>5, <3>1, <3>2 DEF BufferInv
  <2>6. CASE task' = [task EXCEPT ![s].at = next] /\ UNCHANGED inUse /\ next = "wrapped"
    <3>1. /\ \A b : OfTasks(b, Writing)' <=> OfTasks(b, Writing) /\ b # o
          /\ \A b : OfTasks(b, Imaged)' <=> OfTasks(b, Imaged) \/ b = o
          /\ Distinct(Writing)'
      BY <2>1, <2>6, WriterMoves, Places DEF BufferInv, o
    <3>2. Written' = Written \ {o} /\ Pictured' = Pictured \cup {o}
      BY <2>1, <2>4, <3>1, Uses, UsesNext DEF UsesOf
    <3>. QED  BY <2>3, <2>6, <3>1, <3>2 DEF BufferInv
  <2>7. CASE task' = [task EXCEPT ![s].at = next] /\ UNCHANGED inUse /\ next = "converting"
    <3>1. /\ \A b : OfTasks(b, Writing)' <=> OfTasks(b, Writing)
          /\ \A b : OfTasks(b, Imaged)' <=> OfTasks(b, Imaged)
          /\ Distinct(Writing)'
      BY <2>1, <2>7, WriterMoves, Places DEF BufferInv, o
    <3>2. Written' = Written /\ Pictured' = Pictured
      BY <2>1, <2>4, <3>1, Uses, UsesNext DEF UsesOf
    <3>. QED  BY <2>3, <2>7, <3>1, <3>2 DEF BufferInv
  <2>. QED  BY <1>4, <2>5, <2>6, <2>7 DEF TestsSession, o
<1>5. ASSUME NEW s \in DOMAIN task, PostsPicture(s) PROVE BufferInv'
  <2>. DEFINE e == [session |-> task[s].session, buffer |-> task[s].buffer]
  <2>1. /\ task[s].at = "wrapped" /\ UNCHANGED <<gui, m_currentImage, decoder, inUse>>
        /\ task' = [task EXCEPT ![s].at = "posted"] /\ posted' = Append(posted, e)
    BY <1>5 DEF PostsPicture, buffers
  <2>2. e \in Picture /\ e.buffer = task[s].buffer
    BY TaskIsOne DEF Picture, Task
  <2>. HIDE DEF e
  <2>3. \A b : OfPosted(b)' <=> OfPosted(b) \/ b = task[s].buffer
    BY <2>1, <2>2, PostedMore
  <2>4. /\ \A b : OfTasks(b, Writing)' <=> OfTasks(b, Writing)
        /\ \A b : OfTasks(b, Imaged)' <=> OfTasks(b, Imaged)
        /\ OfTasks(task[s].buffer, Imaged)
        /\ Distinct(Writing)'
    BY <2>1, MovedUses, OfOne, Places DEF BufferInv
  <2>5. Written' = Written /\ Pictured' = Pictured /\ Copied' = Copied
    BY <2>1, <2>3, <2>4, Uses, UsesNext DEF UsesOf, Copied
  <2>. QED  BY <2>1, <2>4, <2>5 DEF BufferInv
<1>6. ASSUME NEW s \in DOMAIN task, CountsDown(s) \/ Returns(s) PROVE BufferInv'
  <2>1. UNCHANGED <<posted, gui, m_currentImage, decoder>>
    BY <1>6 DEF CountsDown, Returns
  <2>2. /\ \A b : OfTasks(b, Writing)' <=> OfTasks(b, Writing)
        /\ \A b : OfTasks(b, Imaged)' => OfTasks(b, Imaged)
        /\ CountsDown(s) => \A b : OfTasks(b, Imaged)' <=> OfTasks(b, Imaged)
        /\ Distinct(Writing)'
    <3>1. CASE task[s].at = "posted" /\ task' = [task EXCEPT ![s].at = "returning"]
      BY <3>1, MovedUses, OfOne, Places DEF BufferInv
    <3>2. CASE task[s].at = "dropped" /\ task' = RemoveAt(task, s)
      BY <3>2, EndedUses, OfOne, Places DEF BufferInv
    <3>3. CASE task[s].at = "returning" /\ task' = RemoveAt(task, s)
      BY <3>3, EndedUses, OfOne, Places DEF BufferInv, CountsDown
    <3>. QED  BY <1>6, <3>1, <3>2, <3>3 DEF CountsDown, Returns
  <2>3. \A b : OfPosted(b)' <=> OfPosted(b)
    BY <2>1 DEF OfPosted
  <2>4. /\ Written' = Written /\ Copied' = Copied /\ Pictured' \subseteq Pictured
        /\ CountsDown(s) => Pictured' = Pictured
    BY <2>1, <2>2, <2>3, Uses, UsesNext DEF UsesOf, Copied
  <2>5. PicturesGo
    BY <1>6, <2>4 DEF CountsDown, Returns, PicturesGo, buffers
  <2>. QED  BY <2>2, <2>4, <2>5, PicturesMayGo
<1>7. CASE TakesPicture
  <2>1. /\ gui.at = "idle" /\ gui'.at # "idle" /\ gui'.buffer = Head(posted).buffer
        /\ posted # << >> /\ posted' = Tail(posted)
        /\ UNCHANGED <<task, m_currentImage, decoder, inUse>>
    BY <1>7 DEF TakesPicture, Idle, buffers
  <2>2. /\ \A b : OfPosted(b) <=> OfPosted(b)' \/ b = Head(posted).buffer
    BY <2>1, PostedLess
  <2>3. \A b, A : OfTasks(b, A)' <=> OfTasks(b, A)
    BY <2>1 DEF OfTasks
  <2>4. Written' = Written /\ Pictured' = Pictured /\ Copied' = Copied
    BY <2>1, <2>2, <2>3, Uses, UsesNext DEF UsesOf, Copied
  <2>5. Distinct(Writing)'
    BY <2>1 DEF BufferInv, Distinct
  <2>. QED  BY <2>1, <2>4, <2>5 DEF BufferInv
<1>8. CASE Shows \/ DeletesEvent \/ StopsDecoder \/ IsDestroyed
  <2>1. UNCHANGED <<task, decoder>> /\ PicturesGo
    BY <1>8 DEF Shows, DeletesEvent, StopsDecoder, IsDestroyed, pipeline
  <2>2. \A b, A : OfTasks(b, A)' <=> OfTasks(b, A)
    BY <2>1 DEF OfTasks
  <2>3. \A b : OfPosted(b)' => OfPosted(b)
    <3>1. posted' = posted \/ posted' = << >>
      BY <1>8 DEF Shows, DeletesEvent, StopsDecoder, IsDestroyed, pipeline
    <3>. QED  BY <3>1 DEF OfPosted
  <2>4. gui'.at # "idle" => gui.at # "idle" /\ gui'.buffer = gui.buffer
    BY <1>8 DEF Shows, DeletesEvent, StopsDecoder, IsDestroyed, pipeline, Idle, TypeInv
  <2>5. \/ m_currentImage' \in {None, m_currentImage}
        \/ m_currentImage' = gui.buffer /\ gui.at # "idle"
    BY <1>8 DEF Shows, DeletesEvent, StopsDecoder, IsDestroyed
  <2>6. Written' = Written /\ Copied' = Copied /\ Pictured' \subseteq Pictured
    BY <2>1, <2>2, <2>3, <2>4, <2>5, Uses, UsesNext DEF UsesOf, Copied
  <2>7. Distinct(Writing)'
    BY <2>1 DEF BufferInv, Distinct
  <2>. QED  BY <2>1, <2>6, <2>7, PicturesMayGo
<1>. QED
  BY <1>1, <1>2, <1>3, <1>4, <1>5, <1>6, <1>7, <1>8
  DEF Next, DecCallBack, Gui, Cleanup, Runs, Stills, Writing

-----------------------------------------------------------------------------
(***************************************************************************)
(* A picture is posted once.                                               *)
(***************************************************************************)
LEMMA PostedStep == TypeInv /\ BufferInv /\ PostedInv /\ [Next]_vars => PostedInv'
<1>. SUFFICES ASSUME TypeInv, BufferInv, PostedInv, [Next]_vars PROVE PostedInv'
  OBVIOUS
<1>1. CASE UNCHANGED <<task, posted>>
  BY <1>1 DEF PostedInv, OnePosted, OfPosted, OfTasks, Distinct
<1>2. CASE StartsTask
  <2>. DEFINE t == [at |-> "queued", session |-> decoder.session, buffer |-> decoder.buffer]
  <2>1. t \in Task /\ t.at = "queued"
    BY <1>2 DEF StartsTask, TypeInv, Task, Idle
  <2>2. task' = Append(task, t) /\ posted' = posted
    BY <1>2 DEF StartsTask
  <2>. HIDE DEF t
  <2>3. t.at \notin {"wrapped"}
    BY <2>1
  <2>4. Distinct({"wrapped"})' /\ \A b : OfTasks(b, {"wrapped"})' <=> OfTasks(b, {"wrapped"})
    BY <2>1, <2>2, <2>3, StartedUses DEF PostedInv
  <2>. QED  BY <2>2, <2>4 DEF PostedInv, OnePosted, OfPosted
<1>3. ASSUME NEW s \in DOMAIN task, NEW from \in Writing, NEW next \in {"converting", "wrapped"},
             TestsSession(s, from, next)
      PROVE  PostedInv'
  <2>. DEFINE o == task[s].buffer
              W == {"wrapped"}
  <2>1. task[s].at \in Writing /\ posted' = posted
    BY <1>3 DEF TestsSession
  <2>2. o \notin Pictured
    BY <2>1, Uses, OfOne DEF UsesOf, BufferInv
  <2>3. ~OfPosted(o) /\ ~OfTasks(o, Imaged)
    BY <2>2, Uses DEF UsesOf
  <2>4. ~OfTasks(o, W)
    BY <2>3 DEF OfTasks, Imaged
  <2>5. ~OfOthers(s, o, W) /\ \A b : OfOthers(s, b, W) => OfTasks(b, W)
    BY <2>4, OfOne
  <2>6. PICK to : task' = [task EXCEPT ![s].at = to]
    BY <1>3 DEF TestsSession
  <2>. HIDE DEF o, W
  <2>7. Distinct(W)' /\ \A b : OfTasks(b, W)' => OfTasks(b, W) \/ b = o
    BY <2>5, <2>6, MovedUses DEF PostedInv, W, o
  <2>. QED  BY <2>1, <2>3, <2>7 DEF PostedInv, OnePosted, OfPosted, W
<1>4. ASSUME NEW s \in DOMAIN task, PostsPicture(s) PROVE PostedInv'
  <2>. DEFINE e == [session |-> task[s].session, buffer |-> task[s].buffer]
              o == task[s].buffer
              W == {"wrapped"}
  <2>1. /\ task[s].at \in W /\ task' = [task EXCEPT ![s].at = "posted"] /\ "posted" \notin W
        /\ posted' = Append(posted, e)
    BY <1>4 DEF PostsPicture
  <2>2. e \in Picture /\ e.buffer = o
    BY TaskIsOne DEF Picture, Task
  <2>. HIDE DEF e, o, W
  <2>3. Distinct(W) /\ OfTasks(o, W) /\ ~OfOthers(s, o, W)
    BY <2>1, OnlyOne, OfOne DEF PostedInv, W, o
  <2>4. ~OfPosted(o)
    BY <2>3 DEF PostedInv, W
  <2>5. OnePosted' /\ \A b : OfPosted(b)' <=> OfPosted(b) \/ b = o
    BY <2>1, <2>2, <2>4, PostedMore DEF PostedInv
  <2>6. Distinct(W)' /\ \A b : OfTasks(b, W)' <=> OfOthers(s, b, W)
    BY <2>1, <2>3, MovedUses
  <2>7. \A b : OfOthers(s, b, W) => OfTasks(b, W)
    BY OfOne
  <2>. QED  BY <2>3, <2>5, <2>6, <2>7 DEF PostedInv, W
<1>5. ASSUME NEW s \in DOMAIN task, CountsDown(s) \/ Returns(s) PROVE PostedInv'
  <2>. DEFINE W == {"wrapped"}
  <2>1. "returning" \notin W /\ posted' = posted
    BY <1>5 DEF CountsDown, Returns
  <2>. HIDE DEF W
  <2>2. Distinct(W)' /\ \A b : OfTasks(b, W)' <=> OfOthers(s, b, W)
    <3>1. CASE task' = [task EXCEPT ![s].at = "returning"]
      BY <2>1, <3>1, MovedUses DEF PostedInv, W
    <3>2. CASE task' = RemoveAt(task, s)
      BY <3>2, EndedUses DEF PostedInv, W
    <3>. QED  BY <1>5, <3>1, <3>2 DEF CountsDown, Returns
  <2>3. \A b : OfOthers(s, b, W) => OfTasks(b, W)
    BY OfOne
  <2>. QED  BY <2>1, <2>2, <2>3 DEF PostedInv, OnePosted, OfPosted, W
<1>6. CASE TakesPicture
  <2>1. posted # << >> /\ posted' = Tail(posted) /\ task' = task
    BY <1>6 DEF TakesPicture
  <2>2. OnePosted' /\ \A b : OfPosted(b)' => OfPosted(b)
    BY <2>1, PostedLess DEF PostedInv
  <2>. QED  BY <2>1, <2>2 DEF PostedInv, OfTasks, Distinct
<1>7. CASE IsDestroyed
  <2>1. posted' = << >> /\ task' = task
    BY <1>7 DEF IsDestroyed
  <2>2. OnePosted' /\ \A b : ~OfPosted(b)'
    BY <2>1 DEF OnePosted, OfPosted
  <2>. QED  BY <2>1, <2>2 DEF PostedInv, OfTasks, Distinct
<1>8. CASE \/ ReadsPending \/ TestsLimit \/ TakesBuffer \/ Shows \/ DeletesEvent \/ Destroy
           \/ BeginsLastCleanup \/ ErasesPort \/ StopsDecoder \/ OpensPort
           \/ (\E next \in {"none", "play"} : BeginsCleanup(next)) \/ UNCHANGED vars
  <2>1. UNCHANGED <<task, posted>>
    BY <1>8 DEF ReadsPending, TestsLimit, TakesBuffer, Shows, DeletesEvent, Destroy,
       BeginsLastCleanup, ErasesPort, StopsDecoder, OpensPort, BeginsCleanup, vars, pipeline
  <2>. QED  BY <1>1, <2>1
<1>. QED
  BY <1>2, <1>3, <1>4, <1>5, <1>6, <1>7, <1>8, Places
  DEF Next, DecCallBack, Gui, Cleanup, Runs

-----------------------------------------------------------------------------
(***************************************************************************)
(* The counters.                                                           *)
(***************************************************************************)
LEMMA CountedIsFinite ==
    ASSUME TypeInv
    PROVE  IsFiniteSet(Counted) /\ Cardinality(Counted) \in Nat
<1>1. DOMAIN task = 1 .. Len(task) /\ Len(task) \in Nat
  BY LenProperties DEF TypeInv
<1>2. IsFiniteSet(DOMAIN task)
  BY <1>1, FS_Interval
<1>3. Counted \in SUBSET DOMAIN task
  BY DEF Counted
<1>. QED  BY <1>2, <1>3, FS_Subset, FS_CardinalityType

\* The tasks that are left were counted before.
LEMMA EndedCounts ==
    ASSUME TypeInv, NEW s \in DOMAIN task, task' = RemoveAt(task, s)
    PROVE  /\ Cardinality(Counted') \in Nat
           /\ Cardinality(Counted') <= Cardinality(Counted)
           /\ s \in Counted => Cardinality(Counted') <= Cardinality(Counted) - 1
<1>. DEFINE f == [k \in Counted' |-> Was(s, k)]
            T == Counted \ {s}
<1>1. /\ \A k \in DOMAIN task' : /\ Was(s, k) \in DOMAIN task \ {s}
                                /\ task'[k] = task[Was(s, k)]
      /\ \A j, k \in DOMAIN task' : Was(s, j) = Was(s, k) => j = k
  BY Ended
<1>2. \A k \in Counted' : k \in DOMAIN task' /\ task'[k].at # "returning"
  BY DEF Counted
<1>3. \A k \in Counted' : Was(s, k) \in T
  BY <1>1, <1>2 DEF Counted
<1>4. f \in Injection(Counted', T)
  BY <1>1, <1>2, <1>3 DEF Injection, IsInjective
<1>5. IsFiniteSet(Counted) /\ Cardinality(Counted) \in Nat
  BY CountedIsFinite
<1>6. /\ IsFiniteSet(T)
      /\ Cardinality(T) = IF s \in Counted THEN Cardinality(Counted) - 1 ELSE Cardinality(Counted)
  BY <1>5, FS_RemoveElement
<1>. HIDE DEF f, T
<1>7. IsFiniteSet(Counted') /\ Cardinality(Counted') <= Cardinality(T)
  BY <1>4, <1>6, FS_Injection
<1>8. Cardinality(Counted') \in Nat /\ Cardinality(T) \in Nat
  BY <1>6, <1>7, FS_CardinalityType
<1>. QED  BY <1>5, <1>6, <1>7, <1>8

\* The task that goes on is counted as before, or was the last time.
LEMMA MovedCounts ==
    ASSUME TypeInv, NEW s \in DOMAIN task, task[s].at # "returning", NEW next,
           task' = [task EXCEPT ![s].at = next]
    PROVE  /\ next # "returning" => Counted' = Counted
           /\ next = "returning" => Cardinality(Counted') = Cardinality(Counted) - 1
<1>1. /\ DOMAIN task' = DOMAIN task
      /\ \A k \in DOMAIN task : task'[k].at = IF k = s THEN next ELSE task[k].at
  BY Moved
<1>2. ASSUME next # "returning" PROVE Counted' = Counted
  BY <1>1, <1>2 DEF Counted
<1>3. ASSUME next = "returning" PROVE Cardinality(Counted') = Cardinality(Counted) - 1
  <2>1. Counted' = Counted \ {s} /\ s \in Counted
    BY <1>1, <1>3 DEF Counted
  <2>. QED  BY <2>1, CountedIsFinite, FS_RemoveElement
<1>. QED  BY <1>2, <1>3

LEMMA InitCount == Init => CountInv
<1>. SUFFICES ASSUME Init PROVE CountInv
  OBVIOUS
<1>1. Counted = {}
  BY DEF Init, Counted
<1>2. Len(posted) = 0 /\ Handled = 0
  BY DEF Init, Handled, Idle
<1>3. m_pendingTasks = 0 /\ m_guiPendingTasks = 0 /\ decoder.at = "idle"
  BY DEF Init, Idle
<1>. QED  BY <1>1, <1>2, <1>3, FS_EmptySet DEF CountInv

LEMMA CountStep == TypeInv /\ CountInv /\ [Next]_vars => CountInv'
<1>. SUFFICES ASSUME TypeInv, CountInv, [Next]_vars PROVE CountInv'
  OBVIOUS
<1>0. /\ m_pendingTasks \in Int /\ m_guiPendingTasks \in Int /\ Len(posted) \in Nat
      /\ Cardinality(Counted) \in Nat /\ Handled \in {0, 1}
  BY CountedIsFinite, LenProperties DEF TypeInv, Handled
<1>1. CASE ReadsPending
  BY <1>1 DEF ReadsPending, CountInv, Counted, Handled, counters, TypeInv
<1>2. CASE StartsTask
  <2>. DEFINE t == [at |-> "queued", session |-> decoder.session, buffer |-> decoder.buffer]
              n == Len(task) + 1
  <2>1. task \in Seq(Task) /\ Len(task) \in Nat /\ DOMAIN task = 1 .. Len(task)
    BY LenProperties DEF TypeInv
  <2>2. t \in Task /\ t.at = "queued"
    BY <1>2 DEF StartsTask, TypeInv, Task, Idle
  <2>3. task' = Append(task, t) /\ decoder'.at = "idle" /\ m_pendingTasks' = m_pendingTasks + 1
        /\ UNCHANGED <<posted, gui, m_guiPendingTasks>>
    BY <1>2 DEF StartsTask, Idle
  <2>. HIDE DEF t
  <2>4. DOMAIN task' = 1 .. n /\ task'[n] = t /\ \A i \in 1 .. Len(task) : task'[i] = task[i]
    BY <2>1, <2>2, <2>3, AppendProperties, LenProperties
  <2>5. n \notin Counted /\ Counted' = Counted \cup {n}
    BY <2>1, <2>2, <2>4 DEF Counted
  <2>6. Cardinality(Counted') = Cardinality(Counted) + 1
    BY <2>5, CountedIsFinite, FS_AddElement
  <2>. QED  BY <1>0, <2>3, <2>6 DEF CountInv, Handled
<1>3. ASSUME NEW s \in DOMAIN task, NEW from \in Writing, NEW next \in {"converting", "wrapped"},
             TestsSession(s, from, next)
      PROVE  CountInv'
  <2>1. from # "returning"
    BY Places
  <2>2. PICK to \in {"converting", "wrapped", "dropped"} : task' = [task EXCEPT ![s].at = to]
    BY <1>3 DEF TestsSession
  <2>3. Counted' = Counted
    BY <1>3, <2>1, <2>2, MovedCounts DEF TestsSession
  <2>. QED  BY <1>3, <2>3 DEF TestsSession, CountInv, Handled, counters
<1>4. ASSUME NEW s \in DOMAIN task, PostsPicture(s) PROVE CountInv'
  <2>. DEFINE e == [session |-> task[s].session, buffer |-> task[s].buffer]
  <2>1. e \in Picture
    BY TaskIsOne DEF Picture, Task
  <2>2. /\ task' = [task EXCEPT ![s].at = "posted"] /\ task[s].at = "wrapped"
        /\ posted' = Append(posted, e) /\ m_guiPendingTasks' = m_guiPendingTasks + 1
        /\ UNCHANGED <<gui, decoder, m_pendingTasks>>
    BY <1>4 DEF PostsPicture
  <2>. HIDE DEF e
  <2>3. Counted' = Counted
    <3>1. task[s].at # "returning" /\ "posted" # "returning"
      BY <2>2
    <3>. QED  BY <2>2, <3>1, MovedCounts
  <2>4. Len(posted') = Len(posted) + 1
    BY <2>1, <2>2, PostedMore
  <2>. QED  BY <1>0, <2>2, <2>3, <2>4 DEF CountInv, Handled
<1>5. ASSUME NEW s \in DOMAIN task, CountsDown(s) PROVE CountInv'
  <2>1. m_pendingTasks' = m_pendingTasks - 1 /\ UNCHANGED <<posted, gui, m_guiPendingTasks, decoder>>
    BY <1>5 DEF CountsDown
  <2>2. Cardinality(Counted') <= Cardinality(Counted) - 1 /\ Cardinality(Counted') \in Int
    <3>1. s \in Counted
      BY <1>5 DEF CountsDown, Counted
    <3>3. CASE task' = RemoveAt(task, s)
      BY <3>1, <3>3, EndedCounts
    <3>4. CASE task' = [task EXCEPT ![s].at = "returning"]
      <4>1. task[s].at # "returning"
        BY <1>5 DEF CountsDown
      <4>2. Cardinality(Counted') = Cardinality(Counted) - 1
        BY <3>4, <4>1, MovedCounts
      <4>. QED  BY <1>0, <4>2
    <3>. QED  BY <1>5, <3>3, <3>4 DEF CountsDown
  <2>3. decoder.at = "read" => decoder.pending \in Int
    BY DEF TypeInv, Idle
  <2>. QED  BY <1>0, <2>1, <2>2, <2>3 DEF CountInv, Handled
<1>6. ASSUME NEW s \in DOMAIN task, Returns(s) PROVE CountInv'
  <2>1. Cardinality(Counted') <= Cardinality(Counted) /\ Cardinality(Counted') \in Nat
    BY <1>6, EndedCounts DEF Returns
  <2>2. UNCHANGED <<posted, gui, m_pendingTasks, m_guiPendingTasks, decoder>>
    BY <1>6 DEF Returns, counters
  <2>. QED  BY <1>0, <2>1, <2>2 DEF CountInv, Handled
<1>7. CASE TakesPicture
  <2>1. Len(posted') = Len(posted) - 1
    BY <1>7, PostedLess DEF TakesPicture
  <2>2. Handled = 0 /\ Handled' = 1
    BY <1>7 DEF TakesPicture, Handled, Idle
  <2>3. UNCHANGED <<task, decoder, m_pendingTasks, m_guiPendingTasks>>
    BY <1>7 DEF TakesPicture, counters
  <2>. QED  BY <1>0, <2>1, <2>2, <2>3 DEF CountInv, Counted
<1>8. CASE Shows
  <2>1. Handled = 1 /\ Handled' = 0
    BY <1>8 DEF Shows, Handled, TypeInv, Idle
  <2>2. m_guiPendingTasks' = m_guiPendingTasks - 1 /\ UNCHANGED <<task, decoder, posted, m_pendingTasks>>
    BY <1>8 DEF Shows
  <2>. QED  BY <1>0, <2>1, <2>2 DEF CountInv, Counted
<1>9. CASE IsDestroyed
  <2>1. Len(posted') = 0 /\ UNCHANGED <<task, gui, decoder, m_pendingTasks, m_guiPendingTasks>>
    BY <1>9 DEF IsDestroyed, counters
  <2>. QED  BY <1>0, <2>1 DEF CountInv, Counted, Handled
<1>10. CASE DeletesEvent
  <2>1. Handled' = 0 /\ UNCHANGED <<task, posted, decoder, m_pendingTasks, m_guiPendingTasks>>
    BY <1>10 DEF DeletesEvent, Handled, Idle, counters
  <2>. QED  BY <1>0, <2>1 DEF CountInv, Counted
<1>11. CASE TestsLimit \/ TakesBuffer
  <2>1. decoder'.at # "read" /\ UNCHANGED <<task, posted, gui, m_pendingTasks, m_guiPendingTasks>>
    BY <1>11 DEF TestsLimit, TakesBuffer, Idle, counters
  <2>. QED  BY <2>1 DEF CountInv, Counted, Handled
<1>12. CASE \/ Destroy \/ BeginsLastCleanup \/ ErasesPort \/ StopsDecoder \/ OpensPort
            \/ (\E next \in {"none", "play"} : BeginsCleanup(next)) \/ UNCHANGED vars
  <2>1. UNCHANGED <<task, posted, gui, decoder, m_pendingTasks, m_guiPendingTasks>>
    BY <1>12 DEF Destroy, BeginsLastCleanup, ErasesPort, StopsDecoder, OpensPort, BeginsCleanup,
       vars, pipeline, counters
  <2>. QED  BY <2>1 DEF CountInv, Counted, Handled
<1>. QED
  BY <1>1, <1>2, <1>3, <1>4, <1>5, <1>6, <1>7, <1>8, <1>9, <1>10, <1>11, <1>12, Places
  DEF Next, DecCallBack, Gui, Cleanup, Runs

-----------------------------------------------------------------------------
(***************************************************************************)
(* The limit.                                                              *)
(***************************************************************************)
LEMMA ImageIsFinite ==
    ASSUME NEW S, IsFiniteSet(S), NEW f, DOMAIN f = S, f = [x \in S |-> f[x]]
    PROVE  LET T == {f[x] : x \in S}
           IN  IsFiniteSet(T) /\ Cardinality(T) \in Nat /\ Cardinality(T) <= Cardinality(S)
<1>. DEFINE T == {f[x] : x \in S}
<1>1. f \in Surjection(S, T)
  BY DEF Surjection
<1>. HIDE DEF T
<1>2. IsFiniteSet(T) /\ Cardinality(T) <= Cardinality(S)
  BY <1>1, FS_Surjection
<1>3. Cardinality(T) \in Nat
  BY <1>2, FS_CardinalityType
<1>. QED  BY <1>2, <1>3 DEF T

LEMMA UnionIsFinite ==
    ASSUME NEW S, NEW T, IsFiniteSet(S), IsFiniteSet(T)
    PROVE  /\ IsFiniteSet(S \cup T) /\ Cardinality(S \cup T) \in Nat
           /\ Cardinality(S \cup T) <= Cardinality(S) + Cardinality(T)
<1>1. /\ IsFiniteSet(S \cup T)
      /\ Cardinality(S \cup T) = Cardinality(S) + Cardinality(T) - Cardinality(S \cap T)
  BY FS_Union
<1>2. IsFiniteSet(S \cap T)
  BY FS_Intersection
<1>3. /\ Cardinality(S) \in Nat /\ Cardinality(T) \in Nat
      /\ Cardinality(S \cap T) \in Nat /\ Cardinality(S \cup T) \in Nat
  BY <1>1, <1>2, FS_CardinalityType
<1>. QED  BY <1>1, <1>3

\* What is under way while the decoder copies nothing is counted.
LEMMA UnderWayIsCounted ==
    ASSUME TypeInv, decoder.at # "copying"
    PROVE  /\ IsFiniteSet(UnderWay) /\ Cardinality(UnderWay) \in Nat
           /\ Cardinality(UnderWay) <= Cardinality(Counted) + Len(posted) + Handled
<1>. DEFINE At == {t \in DOMAIN task : task[t].at \in Working}
            f == [s \in At |-> task[s].buffer]
            p == [i \in DOMAIN posted |-> posted[i].buffer]
            W == {f[s] : s \in At}
            P == {p[i] : i \in DOMAIN posted}
            G == IF gui.at \in {"current", "late"} THEN {gui.buffer} ELSE {}
<1>1. UnderWay = (W \cup P) \cup G
  <2>1. \A b : b \in W <=> OfTasks(b, Working)
    BY DEF OfTasks
  <2>2. \A b : b \in P <=> OfPosted(b)
    BY DEF OfPosted
  <2>3. \A b : b \in G <=> gui.at \in {"current", "late"} /\ b = gui.buffer
    OBVIOUS
  <2>. HIDE DEF W, P, G
  <2>4. \A b : b \in UnderWay <=> b \in (W \cup P) \cup G
    BY <2>1, <2>2, <2>3, Uses DEF UsesOf
  <2>. QED  BY <2>4
<1>2. IsFiniteSet(At) /\ Cardinality(At) \in Nat /\ Cardinality(At) <= Cardinality(Counted)
  <2>1. At \in SUBSET Counted
    BY DEF Counted, Working
  <2>. QED  BY <2>1, CountedIsFinite, FS_Subset, FS_CardinalityType
<1>3. IsFiniteSet(W) /\ Cardinality(W) \in Nat /\ Cardinality(W) <= Cardinality(At)
  <2>1. DOMAIN f = At /\ f = [s \in At |-> f[s]]
    OBVIOUS
  <2>. HIDE DEF f, At
  <2>. QED  BY <1>2, <2>1, ImageIsFinite
<1>4. IsFiniteSet(P) /\ Cardinality(P) \in Nat /\ Cardinality(P) <= Len(posted) /\ Len(posted) \in Nat
  <2>1. DOMAIN posted = 1 .. Len(posted) /\ Len(posted) \in Nat
    BY LenProperties DEF TypeInv
  <2>2. IsFiniteSet(DOMAIN posted) /\ Cardinality(DOMAIN posted) = Len(posted)
    <3>1. 1 \in Int /\ Len(posted) \in Int
      BY <2>1
    <3>2. /\ IsFiniteSet(1 .. Len(posted))
          /\ Cardinality(1 .. Len(posted)) = IF 1 > Len(posted) THEN 0 ELSE Len(posted) - 1 + 1
      BY <3>1, FS_Interval
    <3>. QED  BY <2>1, <3>2
  <2>3. DOMAIN p = DOMAIN posted /\ p = [i \in DOMAIN posted |-> p[i]]
    OBVIOUS
  <2>. HIDE DEF p
  <2>4. IsFiniteSet(P) /\ Cardinality(P) \in Nat /\ Cardinality(P) <= Cardinality(DOMAIN posted)
    BY <2>2, <2>3, ImageIsFinite
  <2>. QED  BY <2>1, <2>2, <2>4
<1>5. IsFiniteSet(G) /\ Cardinality(G) = Handled /\ Handled \in Nat
  BY FS_EmptySet, FS_Singleton DEF Handled
<1>. HIDE DEF W, P, G, At
<1>6. /\ IsFiniteSet(W \cup P) /\ Cardinality(W \cup P) \in Nat
      /\ Cardinality(W \cup P) <= Cardinality(W) + Cardinality(P)
  BY <1>3, <1>4, UnionIsFinite
<1>7. /\ IsFiniteSet(UnderWay) /\ Cardinality(UnderWay) \in Nat
      /\ Cardinality(UnderWay) <= Cardinality(W \cup P) + Cardinality(G)
  BY <1>1, <1>5, <1>6, UnionIsFinite
<1>8. Cardinality(Counted) \in Nat
  BY CountedIsFinite
<1>. QED  BY <1>2, <1>3, <1>4, <1>5, <1>6, <1>7, <1>8

LEMMA InitBound == Init => BoundInv
<1>. SUFFICES ASSUME Init PROVE BoundInv
  OBVIOUS
<1>1. \A b, A : ~OfTasks(b, A) /\ ~OfPosted(b)
  BY DEF Init, OfTasks, OfPosted
<1>2. gui.at = "idle" /\ decoder.at = "idle"
  BY DEF Init, Idle
<1>3. UnderWay = {}
  BY <1>1, <1>2, Uses DEF UsesOf
<1>. QED  BY <1>2, <1>3, FS_EmptySet, FramesAssumption DEF BoundInv

\* Nothing comes under way.
LEMMA LessUnderWay ==
    ASSUME BoundInv, UnderWay' \subseteq UnderWay, decoder'.at = "passed" => decoder.at = "passed"
    PROVE  BoundInv'
<1>1. UnderWay' \in SUBSET UnderWay
  OBVIOUS
<1>2. IsFiniteSet(UnderWay') /\ Cardinality(UnderWay') <= Cardinality(UnderWay)
  BY <1>1, FS_Subset DEF BoundInv
<1>3. Cardinality(UnderWay') \in Nat /\ Cardinality(UnderWay) \in Nat
  BY <1>2, FS_CardinalityType DEF BoundInv
<1>. QED  BY <1>2, <1>3, FramesAssumption DEF BoundInv

LEMMA BoundStep == TypeInv /\ CountInv /\ BoundInv /\ [Next]_vars => BoundInv'
<1>. SUFFICES ASSUME TypeInv, CountInv, BoundInv, [Next]_vars PROVE BoundInv'
  OBVIOUS
<1>1. CASE TestsLimit
  <2>1. UnderWay' = UnderWay
    <3>1. Still
      BY <1>1, StillsAreStill DEF Stills
    <3>. QED  BY <3>1, StillKeeps
  <2>2. decoder.pending + m_guiPendingTasks < Limit => Cardinality(UnderWay) < Limit
    <3>1. decoder.at = "read" /\ decoder.pending \in Int /\ m_guiPendingTasks \in Int
          /\ m_pendingTasks \in Int /\ Limit \in Nat
      BY <1>1, FramesAssumption DEF TestsLimit, TypeInv, Idle
    <3>2. /\ Cardinality(UnderWay) \in Nat
          /\ Cardinality(UnderWay) <= Cardinality(Counted) + Len(posted) + Handled
      BY <3>1, UnderWayIsCounted
    <3>3. Cardinality(Counted) \in Nat /\ Len(posted) \in Nat /\ Handled \in Nat
      BY CountedIsFinite, LenProperties DEF TypeInv, Handled
    <3>. QED  BY <3>1, <3>2, <3>3 DEF CountInv
  <2>3. decoder'.at = "passed" => decoder.pending + m_guiPendingTasks < Limit
    BY <1>1, FramesAssumption DEF TestsLimit, TypeInv, Idle
  <2>. QED  BY <2>1, <2>2, <2>3 DEF BoundInv
<1>2. CASE TakesBuffer
  <2>1. decoder.at = "passed" /\ decoder'.at = "copying" /\ decoder'.buffer = FrameBuffer
        /\ UNCHANGED <<task, posted, gui>>
    BY <1>2 DEF TakesBuffer
  <2>2. \A b, A : (OfTasks(b, A)' <=> OfTasks(b, A)) /\ (OfPosted(b)' <=> OfPosted(b))
    BY <2>1 DEF OfTasks, OfPosted
  <2>3. UnderWay' = UnderWay \cup {FrameBuffer}
    BY <2>1, <2>2, Uses, UsesNext DEF UsesOf
  <2>4. IsFiniteSet(UnderWay) /\ Cardinality(UnderWay) \in Nat /\ Cardinality(UnderWay) < Limit
    BY <2>1, FS_CardinalityType DEF BoundInv
  <2>5. IsFiniteSet(UnderWay') /\ Cardinality(UnderWay') <= Cardinality(UnderWay) + 1
        /\ Cardinality(UnderWay') \in Nat
    BY <2>3, <2>4, FS_AddElement, FS_CardinalityType
  <2>. QED  BY <2>1, <2>4, <2>5, FramesAssumption DEF BoundInv
<1>3. CASE StartsTask
  <2>. DEFINE t == [at |-> "queued", session |-> decoder.session, buffer |-> decoder.buffer]
  <2>1. t \in Task /\ t.at = "queued" /\ t.buffer = decoder.buffer
    BY <1>3 DEF StartsTask, TypeInv, Task, Idle
  <2>2. task' = Append(task, t) /\ decoder.at = "copying" /\ decoder'.at = "idle"
        /\ UNCHANGED <<posted, gui>>
    BY <1>3 DEF StartsTask, Idle
  <2>. HIDE DEF t
  <2>3. \A b : OfTasks(b, Working)' => OfTasks(b, Working) \/ b = decoder.buffer
    BY <2>1, <2>2, StartedUses
  <2>4. \A b : OfPosted(b)' <=> OfPosted(b)
    BY <2>2 DEF OfPosted
  <2>5. UnderWay' \subseteq UnderWay
    BY <2>2, <2>3, <2>4, Uses, UsesNext DEF UsesOf
  <2>. QED  BY <2>2, <2>5, LessUnderWay
<1>4. ASSUME NEW s \in DOMAIN task, NEW from \in Writing, NEW next \in {"converting", "wrapped"},
             TestsSession(s, from, next)
      PROVE  BoundInv'
  <2>1. task[s].at \in Working /\ UNCHANGED <<posted, gui, decoder>>
    BY <1>4, Places DEF TestsSession
  <2>2. PICK to : task' = [task EXCEPT ![s].at = to]
    BY <1>4 DEF TestsSession
  <2>3. \A b : OfTasks(b, Working)' => OfTasks(b, Working)
    BY <2>1, <2>2, WorkGoesOn
  <2>4. \A b : (OfPosted(b)' <=> OfPosted(b)) /\ Copied' = Copied
    BY <2>1 DEF OfPosted, Copied
  <2>5. UnderWay' \subseteq UnderWay
    BY <2>1, <2>3, <2>4, Uses, UsesNext DEF UsesOf
  <2>. QED  BY <2>1, <2>5, LessUnderWay
<1>5. ASSUME NEW s \in DOMAIN task, PostsPicture(s) PROVE BoundInv'
  <2>. DEFINE e == [session |-> task[s].session, buffer |-> task[s].buffer]
  <2>1. e \in Picture /\ e.buffer = task[s].buffer
    BY TaskIsOne DEF Picture, Task
  <2>2. /\ task' = [task EXCEPT ![s].at = "posted"] /\ task[s].at \in Working
        /\ posted' = Append(posted, e) /\ UNCHANGED <<gui, decoder>>
    BY <1>5, Places DEF PostsPicture
  <2>. HIDE DEF e
  <2>3. \A b : OfPosted(b)' <=> OfPosted(b) \/ b = task[s].buffer
    BY <2>1, <2>2, PostedMore
  <2>4. OfTasks(task[s].buffer, Working) /\ \A b : OfTasks(b, Working)' => OfTasks(b, Working)
    BY <2>2, WorkGoesOn
  <2>5. UnderWay' \subseteq UnderWay
    BY <2>2, <2>3, <2>4, Uses, UsesNext DEF UsesOf
  <2>. QED  BY <2>2, <2>5, LessUnderWay
<1>6. ASSUME NEW s \in DOMAIN task, CountsDown(s) \/ Returns(s) PROVE BoundInv'
  <2>1. UNCHANGED <<posted, gui, decoder>>
    BY <1>6 DEF CountsDown, Returns
  <2>2. \A b : OfTasks(b, Working)' => OfTasks(b, Working)
    <3>1. CASE task' = [task EXCEPT ![s].at = "returning"]
      <4>1. "returning" \notin Working
        BY Places
      <4>. QED  BY <3>1, <4>1, MovedUses, OfOne
    <3>2. CASE task' = RemoveAt(task, s)
      BY <3>2, EndedUses, OfOne
    <3>. QED  BY <1>6, <3>1, <3>2 DEF CountsDown, Returns
  <2>3. \A b : (OfPosted(b)' <=> OfPosted(b)) /\ Copied' = Copied
    BY <2>1 DEF OfPosted, Copied
  <2>4. UnderWay' \subseteq UnderWay
    BY <2>1, <2>2, <2>3, Uses, UsesNext DEF UsesOf
  <2>. QED  BY <2>1, <2>4, LessUnderWay
<1>7. CASE TakesPicture
  <2>1. /\ gui'.buffer = Head(posted).buffer /\ posted # << >> /\ posted' = Tail(posted)
        /\ UNCHANGED <<task, decoder>>
    BY <1>7 DEF TakesPicture
  <2>2. \A b : OfPosted(b) <=> OfPosted(b)' \/ b = Head(posted).buffer
    BY <2>1, PostedLess
  <2>3. \A b : (OfTasks(b, Working)' <=> OfTasks(b, Working)) /\ Copied' = Copied
    BY <2>1 DEF OfTasks, Copied
  <2>4. UnderWay' \subseteq UnderWay
    BY <2>1, <2>2, <2>3, Uses, UsesNext DEF UsesOf
  <2>. QED  BY <2>1, <2>4, LessUnderWay
<1>8. CASE Shows \/ DeletesEvent \/ StopsDecoder \/ IsDestroyed
  <2>1. UNCHANGED <<task, decoder>>
    BY <1>8 DEF Shows, DeletesEvent, StopsDecoder, IsDestroyed, pipeline
  <2>2. \A b : OfPosted(b)' => OfPosted(b)
    <3>1. posted' = posted \/ posted' = << >>
      BY <1>8 DEF Shows, DeletesEvent, StopsDecoder, IsDestroyed, pipeline
    <3>. QED  BY <3>1 DEF OfPosted
  <2>3. gui' = gui \/ gui'.at \notin {"current", "late"}
    BY <1>8 DEF Shows, DeletesEvent, StopsDecoder, IsDestroyed, pipeline, Idle, TypeInv
  <2>4. \A b : (OfTasks(b, Working)' <=> OfTasks(b, Working)) /\ Copied' = Copied
    BY <2>1 DEF OfTasks, Copied
  <2>5. UnderWay' \subseteq UnderWay
    BY <2>2, <2>3, <2>4, Uses, UsesNext DEF UsesOf
  <2>. QED  BY <2>1, <2>5, LessUnderWay
<1>9. CASE Stills /\ ~TestsLimit
  <2>1. UnderWay' = UnderWay
    <3>1. Still
      BY <1>9, StillsAreStill
    <3>. QED  BY <3>1, StillKeeps
  <2>2. decoder'.at = "passed" => decoder.at = "passed"
    BY <1>9 DEF Stills, ReadsPending, Destroy, BeginsLastCleanup, ErasesPort, OpensPort,
       BeginsCleanup, vars, pipeline
  <2>. QED  BY <2>1, <2>2, LessUnderWay
<1>. QED
  BY <1>1, <1>2, <1>3, <1>4, <1>5, <1>6, <1>7, <1>8, <1>9, Places
  DEF Next, DecCallBack, Gui, Cleanup, Runs, Stills

-----------------------------------------------------------------------------
(***************************************************************************)
(* The end.                                                                *)
(***************************************************************************)
LEMMA EndStep == TypeInv /\ CountInv /\ EndInv /\ [Next]_vars => EndInv'
<1>. SUFFICES ASSUME TypeInv, CountInv, EndInv, [Next]_vars PROVE EndInv'
  OBVIOUS
<1>1. CASE IsDestroyed
  <2>1. /\ worker.at = "cleaned" /\ m_pendingTasks = 0 /\ worker' = Idle
        /\ UNCHANGED <<port, decoder, task>>
    BY <1>1 DEF IsDestroyed
  <2>2. Counted = {}
    <3>1. IsFiniteSet(Counted) /\ Cardinality(Counted) = 0
      BY <2>1, CountedIsFinite DEF CountInv
    <3>. QED  BY <3>1, FS_EmptySet
  <2>3. TasksEndFirst'
    BY <2>1, <2>2 DEF TasksEndFirst, EndInv, Counted
  <2>. QED  BY <2>1, <2>3 DEF EndInv, Idle
<1>2. ASSUME NEW s \in DOMAIN task, Runs(s) PROVE EndInv'
  <2>1. UNCHANGED <<port, decoder, worker, player>>
    BY <1>2 DEF Runs, TestsSession, PostsPicture, CountsDown, Returns
  <2>2. ASSUME player = "gone" PROVE TasksEndFirst'
    <3>1. decoder = Idle /\ task[s].at = "returning"
      BY <2>2 DEF EndInv, TasksEndFirst
    <3>2. task' = RemoveAt(task, s)
      BY <1>2, <3>1 DEF Runs, TestsSession, PostsPicture, CountsDown, Returns
    <3>3. \A k \in DOMAIN task' : task'[k].at = "returning"
      BY <2>2, <3>2, Ended DEF EndInv, TasksEndFirst
    <3>. QED  BY <2>1, <3>1, <3>3 DEF TasksEndFirst
  <2>. QED  BY <2>1, <2>2 DEF EndInv
<1>3. CASE DecCallBack
  <2>1. /\ decoder.at # "idle" \/ port = "mapped"
        /\ UNCHANGED <<port, worker, player>>
    BY <1>3 DEF DecCallBack, ReadsPending, TestsLimit, TakesBuffer, StartsTask
  <2>2. worker.at # "cleaned" /\ player # "gone"
    BY <2>1 DEF EndInv, TasksEndFirst, Idle
  <2>. QED  BY <2>1, <2>2 DEF EndInv
<1>4. CASE Gui
  <2>1. UNCHANGED <<port, decoder, task, worker, player>>
    BY <1>4 DEF Gui, TakesPicture, Shows, DeletesEvent
  <2>. QED  BY <2>1 DEF EndInv, TasksEndFirst
<1>5. CASE Destroy
  <2>1. player = "open" /\ player' = "destroying" /\ UNCHANGED <<port, decoder, worker>>
    BY <1>5 DEF Destroy, pipeline
  <2>. QED  BY <2>1 DEF EndInv
<1>6. ASSUME NEW next \in {"none", "play"}, BeginsCleanup(next) PROVE EndInv'
  <2>1. player = "open" /\ player' = player /\ worker' = [at |-> "stopping", next |-> next]
    BY <1>6 DEF BeginsCleanup
  <2>. QED  BY <2>1 DEF EndInv
<1>7. CASE BeginsLastCleanup
  BY <1>7 DEF BeginsLastCleanup, EndInv
<1>8. CASE ErasesPort
  <2>1. worker.at = "stopping" /\ player' = player
        /\ worker' = [worker EXCEPT !.at = "erased"]
    BY <1>8 DEF ErasesPort
  <2>2. worker'.at = "erased" /\ worker'.next = worker.next /\ player # "gone"
    BY <2>1 DEF EndInv, TypeInv, Idle
  <2>. QED  BY <2>1, <2>2 DEF EndInv
<1>9. CASE StopsDecoder
  <2>1. worker.at = "erased" /\ player' = player /\ port' = "none" /\ decoder = Idle
        /\ decoder' = decoder
    BY <1>9 DEF StopsDecoder, pipeline
  <2>2. player # "gone"
    BY <2>1 DEF EndInv, Idle
  <2>3. worker'.at # "idle" => worker'.next = worker.next
    BY <1>9 DEF StopsDecoder, TypeInv, Idle
  <2>. QED  BY <2>1, <2>2, <2>3 DEF EndInv
<1>10. CASE OpensPort
  <2>1. worker.at = "cleaned" /\ worker' = Idle /\ player' = player
    BY <1>10 DEF OpensPort
  <2>2. player # "gone"
    BY <2>1 DEF EndInv, Idle
  <2>. QED  BY <2>1, <2>2 DEF EndInv, Idle
<1>11. CASE UNCHANGED vars
  <2>1. UNCHANGED <<port, decoder, task, worker, player>>
    BY <1>11 DEF vars, pipeline
  <2>. QED  BY <2>1 DEF EndInv, TasksEndFirst
<1>. QED
  BY <1>1, <1>2, <1>3, <1>4, <1>5, <1>6, <1>7, <1>8, <1>9, <1>10, <1>11
  DEF Next, Cleanup

-----------------------------------------------------------------------------
(***************************************************************************)
(* The theorems.                                                           *)
(***************************************************************************)
LEMMA InitIInv == Init => IInv
<1>. SUFFICES ASSUME Init PROVE IInv
  OBVIOUS
<1>1. PostedInv
  BY DEF Init, PostedInv, OnePosted, OfTasks, Distinct
<1>2. EndInv
  BY DEF Init, EndInv, Idle
<1>. QED  BY <1>1, <1>2, InitType, InitBuffer, InitCount, InitBound DEF IInv

LEMMA NextIInv == IInv /\ [Next]_vars => IInv'
BY TypeStep, BufferStep, PostedStep, CountStep, BoundStep, EndStep DEF IInv

LEMMA AlwaysIInv == Spec => []IInv
BY InitIInv, NextIInv, PTL DEF Spec

\* What is posted is under way, and once.
LEMMA PostedIsBounded ==
    ASSUME TypeInv, PostedInv, BoundInv
    PROVE  Len(posted) <= Limit
<1>. DEFINE p == [i \in 1 .. Len(posted) |-> posted[i].buffer]
<1>1. DOMAIN posted = 1 .. Len(posted) /\ Len(posted) \in Nat
  BY LenProperties DEF TypeInv
<1>2. \A i \in 1 .. Len(posted) : posted[i].buffer \in UnderWay
  BY <1>1, Uses DEF UsesOf, OfPosted
<1>3. p \in Injection(1 .. Len(posted), UnderWay)
  BY <1>1, <1>2 DEF Injection, IsInjective, PostedInv, OnePosted
<1>. HIDE DEF p
<1>4. Cardinality(1 .. Len(posted)) <= Cardinality(UnderWay)
  BY <1>3, FS_Injection DEF BoundInv
<1>5. Cardinality(1 .. Len(posted)) = Len(posted)
  <2>1. 1 \in Int /\ Len(posted) \in Int
    BY <1>1
  <2>2. Cardinality(1 .. Len(posted)) = IF 1 > Len(posted) THEN 0 ELSE Len(posted) - 1 + 1
    BY <2>1, FS_Interval
  <2>. QED  BY <1>1, <2>2
<1>6. Cardinality(UnderWay) \in Nat
  BY FS_CardinalityType DEF BoundInv
<1>. QED  BY <1>1, <1>4, <1>5, <1>6, FramesAssumption DEF BoundInv

LEMMA IInvHolds == IInv => BackpressureHolds /\ BufferHasOneUser /\ TasksEndFirst
<1>. SUFFICES ASSUME TypeInv, BufferInv, PostedInv, BoundInv, EndInv
              PROVE  BackpressureHolds /\ BufferHasOneUser /\ TasksEndFirst
  BY DEF IInv
<1>1. \A b : OfTasks(b, Working) => OfTasks(b, Writing) \/ OfTasks(b, Imaged)
  BY DEF OfTasks, Working, Writing, Imaged
<1>2. \A b : OfTasks(b, Writing) => OfTasks(b, Working)
  BY DEF OfTasks, Working, Writing
<1>3. Copied \cup Written \subseteq UnderWay
  BY <1>2, Uses DEF UsesOf
<1>4. UnderWay \subseteq Copied \cup Written \cup Pictured
  BY <1>1, Uses DEF UsesOf
<1>5. BackpressureHolds
  BY <1>3, PostedIsBounded DEF BackpressureHolds, BufferInv, BoundInv
<1>6. BufferHasOneUser
  <2>1. Written = {task[s].buffer : s \in {t \in DOMAIN task : task[t].at \in {"queued", "converting"}}}
    BY DEF Written, Writing
  <2>2. Free \cap (UnderWay \cup Pictured) = {}
    BY <1>4 DEF Free, BufferInv
  <2>3. decoder.at = "copying" => decoder.buffer \notin Written \cup Pictured
    BY DEF BufferInv, Copied
  <2>4. \A s, t \in DOMAIN task :
          /\ task[s].at \in {"queued", "converting"} /\ task[t].at \in {"queued", "converting"}
          /\ task[s].buffer = task[t].buffer
          => s = t
    BY DEF BufferInv, Distinct, Writing
  <2>5. Written \cap Pictured = {}
    BY DEF BufferInv
  <2>. QED  BY <2>1, <2>2, <2>3, <2>4, <2>5 DEF BufferHasOneUser
<1>7. TasksEndFirst
  BY DEF EndInv, TasksEndFirst
<1>. QED  BY <1>5, <1>6, <1>7

\* For any limit: never more pictures under way than it allows, whatever the GUI
\* thread is blocked by, and no buffer in use besides those and the pictured.
THEOREM FramesBackpressureHolds == Spec => []BackpressureHolds
BY AlwaysIInv, IInvHolds, PTL

\* For any number of tasks and buffers: a buffer that is written is in nobody
\* else's hands, and a free one in none.
THEOREM FramesBufferHasOneUser == Spec => []BufferHasOneUser
BY AlwaysIInv, IInvHolds, PTL

\* No task that would touch the player is left when it is gone.
THEOREM FramesTasksEndFirst == Spec => []TasksEndFirst
BY AlwaysIInv, IInvHolds, PTL
==============================================================================
