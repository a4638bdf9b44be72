-------------------------- MODULE UserInterfaceProofs --------------------------
(***************************************************************************)
(* Proofs about what the windows show.  First ThumbnailProvider, for any   *)
(* finite number of cameras and any number of requests: one fetch at a     *)
(* time, and no picture replaced by one asked for earlier.  The second     *)
(* needs the first: that nothing else of the camera is on its way when an  *)
(* answer is stored; and an order of the numbers of requests along cache,  *)
(* answer or fetch, and queue (Newer).                                     *)
(*                                                                         *)
(* Then ViewportsLayoutModel, for layouts of any sizes.  normalize()'s     *)
(* second loop has hidden what the items before its index span, behind     *)
(* them, and nothing else (HiddenUpTo): so at its end each cell is drawn   *)
(* by one viewport.  Given items like that it makes them again (Again),    *)
(* and never starts over: so what is saved is what is restored.  Given any *)
(* items, those it hides or makes narrow met another (UntouchedInv).       *)
(***************************************************************************)
EXTENDS ThumbnailProvider, ViewportsLayoutModel, SequenceTheorems, FiniteSetTheorems, TLAPS

-----------------------------------------------------------------------------
(***************************************************************************)
(* The queue.                                                              *)
(***************************************************************************)
Unique(q) == \A i, j \in 1 .. Len(q) : q[i].key = q[j].key => i = j

LEMMA FunctionIsSeq ==
    ASSUME NEW S, NEW n \in Nat, NEW f \in [1 .. n -> S]
    PROVE  f \in Seq(S) /\ Len(f) = n
<1>1. f \in Seq(S)
  BY SeqDef
<1>2. Len(f) \in Nat /\ 1 .. Len(f) = 1 .. n
  BY <1>1, LenProperties
<1>3. \A a, b \in Nat : 1 .. a = 1 .. b => a = b
  <2>. SUFFICES ASSUME NEW a \in Nat, NEW b \in Nat, 1 .. a = 1 .. b PROVE ~(a < b) /\ ~(b < a)
    OBVIOUS
  <2>1. ASSUME a < b PROVE FALSE
    <3>1. b \in 1 .. b /\ b \notin 1 .. a
      BY <2>1
    <3>. QED  BY <3>1
  <2>2. ASSUME b < a PROVE FALSE
    <3>1. a \in 1 .. a /\ a \notin 1 .. b
      BY <2>2
    <3>. QED  BY <3>1
  <2>. QED  BY <2>1, <2>2
<1>. QED  BY <1>1, <1>2, <1>3

LEMMA RemovedAt ==
    ASSUME NEW q \in Seq(Request), NEW n \in 1 .. Len(q)
    PROVE  /\ RemoveAt(q, n) \in Seq(Request)
           /\ Len(RemoveAt(q, n)) = Len(q) - 1
           /\ \A i \in 1 .. Len(q) - 1 : RemoveAt(q, n)[i] = q[IF i < n THEN i ELSE i + 1]
<1>. DEFINE a == SubSeq(q, 1, n - 1)
            b == SubSeq(q, n + 1, Len(q))
<1>1. Len(q) \in Nat
  BY LenProperties
<1>2. /\ a \in Seq(Request) /\ Len(a) = n - 1
      /\ \A i \in 1 .. n - 1 : a[i] = q[i]
  BY <1>1, SMT
<1>3. /\ b \in Seq(Request) /\ Len(b) = Len(q) - n
      /\ \A i \in 1 .. Len(q) - n : b[i] = q[n + i]
  BY <1>1, SMT
<1>4. RemoveAt(q, n) = a \o b
  BY DEF RemoveAt
<1>. HIDE DEF a, b
<1>5. /\ a \o b \in Seq(Request)
      /\ Len(a \o b) = Len(q) - 1
      /\ \A i \in 1 .. Len(q) - 1 : (a \o b)[i] = IF i <= n - 1 THEN a[i] ELSE b[i - (n - 1)]
  <2>1. /\ a \o b \in Seq(Request)
        /\ Len(a \o b) = Len(a) + Len(b)
        /\ \A i \in 1 .. Len(a) + Len(b) :
             (a \o b)[i] = IF i <= Len(a) THEN a[i] ELSE b[i - Len(a)]
    BY <1>2, <1>3, ConcatProperties
  <2>2. Len(a) + Len(b) = Len(q) - 1
    BY <1>1, <1>2, <1>3
  <2>. QED  BY <1>2, <2>1, <2>2
<1>6. ASSUME NEW i \in 1 .. Len(q) - 1
      PROVE  (a \o b)[i] = q[IF i < n THEN i ELSE i + 1]
  <2>1. CASE i < n
    <3>1. i \in 1 .. n - 1 /\ i <= n - 1
      BY <1>1, <2>1
    <3>. QED  BY <1>2, <1>5, <2>1, <3>1
  <2>2. CASE ~(i < n)
    <3>1. i - (n - 1) \in 1 .. Len(q) - n /\ ~(i <= n - 1) /\ n + (i - (n - 1)) = i + 1
      BY <1>1, <2>2
    <3>2. (a \o b)[i] = b[i - (n - 1)]
      BY <1>5, <3>1
    <3>3. b[i - (n - 1)] = q[i + 1]
      BY <1>3, <3>1
    <3>. QED  BY <2>2, <3>2, <3>3
  <2>. QED  BY <2>1, <2>2
<1>. QED  BY <1>4, <1>5, <1>6

\* A camera that is asked for again moves to the front, and waits once.
LEMMA PrependedHas ==
    ASSUME NEW q \in Seq(Request), NEW r \in Request, Unique(q)
    PROVE  LET p == Prepended(q, r)
           IN  /\ p \in Seq(Request) /\ p # << >> /\ Unique(p)
               /\ \A i \in 1 .. Len(p) :
                    p[i] = r \/ (p[i].key # r.key /\ \E j \in 1 .. Len(q) : p[i] = q[j])
<1>. DEFINE Waiting == {i \in DOMAIN q : q[i].key = r.key}
            rest == IF Waiting = {} THEN q ELSE RemoveAt(q, CHOOSE i \in Waiting : TRUE)
<1>0. Len(q) \in Nat /\ DOMAIN q = 1 .. Len(q)
  BY LenProperties
<1>1. /\ rest \in Seq(Request) /\ Unique(rest)
      /\ \A i \in 1 .. Len(rest) : rest[i].key # r.key /\ \E j \in 1 .. Len(q) : rest[i] = q[j]
  <2>1. CASE Waiting = {}
    BY <1>0, <2>1
  <2>2. CASE Waiting # {}
    <3>. DEFINE n == CHOOSE i \in Waiting : TRUE
    <3>1. n \in 1 .. Len(q) /\ q[n].key = r.key
      BY <1>0, <2>2
    <3>2. rest = RemoveAt(q, n)
      BY <2>2
    <3>. HIDE DEF n
    <3>3. /\ rest \in Seq(Request) /\ Len(rest) = Len(q) - 1
          /\ \A i \in 1 .. Len(q) - 1 : rest[i] = q[IF i < n THEN i ELSE i + 1]
      BY <3>1, <3>2, RemovedAt
    <3>. HIDE DEF rest
    <3>4. ASSUME NEW i \in 1 .. Len(rest)
          PROVE  \E j \in 1 .. Len(q) : rest[i] = q[j] /\ j # n
      <4>1. (IF i < n THEN i ELSE i + 1) \in 1 .. Len(q)
        BY <1>0, <3>1, <3>3
      <4>. QED  BY <3>1, <3>3, <4>1, <1>0
    <3>5. \A i \in 1 .. Len(rest) : rest[i].key # r.key
      BY <3>1, <3>4 DEF Unique
    <3>6. Unique(rest)
      <4>. SUFFICES ASSUME NEW i \in 1 .. Len(rest), NEW j \in 1 .. Len(rest),
                           rest[i].key = rest[j].key
                    PROVE  i = j
        BY DEF Unique
      <4>. DEFINE f(k) == IF k < n THEN k ELSE k + 1
      <4>1. f(i) \in 1 .. Len(q) /\ f(j) \in 1 .. Len(q)
        BY <1>0, <3>1, <3>3
      <4>2. rest[i] = q[f(i)] /\ rest[j] = q[f(j)]
        BY <3>3
      <4>3. f(i) = f(j)
        BY <4>1, <4>2 DEF Unique
      <4>. QED  BY <4>3, <3>1, <1>0, <3>3
    <3>. QED  BY <3>3, <3>4, <3>5, <3>6
  <2>. QED  BY <2>1, <2>2
<1>2. Prepended(q, r) = <<r>> \o rest
  BY DEF Prepended
<1>. HIDE DEF rest
<1>. DEFINE p == <<r>> \o rest
<1>3. Len(rest) \in Nat
  BY <1>1, LenProperties
<1>4. /\ p \in Seq(Request) /\ Len(p) = Len(rest) + 1
      /\ p[1] = r /\ \A i \in 2 .. Len(p) : p[i] = rest[i - 1] /\ i - 1 \in 1 .. Len(rest)
  <2>1. <<r>> \in Seq(Request) /\ Len(<<r>>) = 1 /\ <<r>>[1] = r
    OBVIOUS
  <2>2. /\ p \in Seq(Request) /\ Len(p) = 1 + Len(rest)
        /\ \A i \in 1 .. 1 + Len(rest) : p[i] = IF i <= 1 THEN <<r>>[i] ELSE rest[i - 1]
    BY <1>1, <2>1, ConcatProperties
  <2>. HIDE DEF p
  <2>3. p[1] = r
    BY <1>3, <2>1, <2>2
  <2>4. ASSUME NEW i \in 2 .. Len(p)
        PROVE  p[i] = rest[i - 1] /\ i - 1 \in 1 .. Len(rest)
    BY <1>3, <2>2
  <2>. QED  BY <1>3, <2>2, <2>3, <2>4
<1>. HIDE DEF p
<1>5. \A i \in 1 .. Len(p) :
         p[i] = r \/ (p[i].key # r.key /\ \E j \in 1 .. Len(q) : p[i] = q[j])
  <2>. SUFFICES ASSUME NEW i \in 1 .. Len(p), i # 1
                PROVE  p[i].key # r.key /\ \E j \in 1 .. Len(q) : p[i] = q[j]
    BY <1>4
  <2>1. i \in 2 .. Len(p)
    BY <1>3, <1>4
  <2>. QED  BY <1>1, <1>4, <2>1
<1>6. Unique(p)
  <2>. SUFFICES ASSUME NEW i \in 1 .. Len(p), NEW j \in 1 .. Len(p), p[i].key = p[j].key
                PROVE  i = j
    BY DEF Unique
  <2>0. /\ Len(p) \in Nat
        /\ \A k \in 1 .. Len(p) : k # 1 => k \in 2 .. Len(p) /\ p[k].key # r.key
    <3>1. ASSUME NEW k \in 1 .. Len(p), k # 1
          PROVE  k \in 2 .. Len(p)
      BY <1>3, <1>4, <3>1
    <3>2. \A k \in 2 .. Len(p) : p[k].key # r.key
      BY <1>1, <1>4
    <3>. QED  BY <1>3, <1>4, <3>1, <3>2
  <2>1. CASE i = 1 \/ j = 1
    BY <1>4, <2>0, <2>1
  <2>2. CASE i # 1 /\ j # 1
    <3>1. i \in 2 .. Len(p) /\ j \in 2 .. Len(p)
      BY <2>0, <2>2
    <3>2. /\ p[i] = rest[i - 1] /\ i - 1 \in 1 .. Len(rest)
          /\ p[j] = rest[j - 1] /\ j - 1 \in 1 .. Len(rest)
      BY <1>4, <3>1
    <3>3. \A a, b \in 1 .. Len(rest) : rest[a].key = rest[b].key => a = b
      BY <1>1 DEF Unique
    <3>4. i - 1 = j - 1
      BY <3>2, <3>3
    <3>. QED  BY <3>4
  <2>. QED  BY <2>1, <2>2
<1>7. p # << >>
  BY <1>3, <1>4
<1>. QED  BY <1>2, <1>4, <1>5, <1>6, <1>7 DEF p

\* The cameras that are asked for together are all that do not wait, each once.
LEMMA CamerasOnce ==
    ASSUME NEW S \in SUBSET Keys
    PROVE  /\ SetToSeq(S) \in Seq(S)
           /\ \A i, j \in 1 .. Len(SetToSeq(S)) : SetToSeq(S)[i] = SetToSeq(S)[j] => i = j
<1>1. IsFiniteSet(S)
  BY ThumbnailAssumption, FS_Subset
<1>2. Cardinality(S) \in Nat /\ ExistsBijection(1 .. Cardinality(S), S)
  BY <1>1, FS_CardinalityType
<1>3. \E f \in [1 .. Cardinality(S) -> S] : IsInjective(f)
  BY <1>2 DEF ExistsBijection, Bijection, Injection, IsInjective
<1>4. SetToSeq(S) \in [1 .. Cardinality(S) -> S] /\ IsInjective(SetToSeq(S))
  BY <1>3 DEF SetToSeq
<1>5. SetToSeq(S) \in Seq(S) /\ Len(SetToSeq(S)) = Cardinality(S)
  BY <1>2, <1>4, FunctionIsSeq
<1>. QED  BY <1>4, <1>5 DEF IsInjective

LEMMA Concatenated ==
    ASSUME NEW q \in Seq(Request), NEW r \in Seq(Request)
    PROVE  /\ q \o r \in Seq(Request) /\ Len(q \o r) = Len(q) + Len(r)
           /\ \A i \in 1 .. Len(q \o r) :
                (q \o r)[i] = IF i <= Len(q) THEN q[i] ELSE r[i - Len(q)]
<1>1. /\ q \o r \in Seq(Request) /\ Len(q \o r) = Len(q) + Len(r)
      /\ \A i \in 1 .. Len(q) + Len(r) :
           (q \o r)[i] = IF i <= Len(q) THEN q[i] ELSE r[i - Len(q)]
  BY ConcatProperties
<1>. QED  BY <1>1, Zenon

LEMMA AppendedHas ==
    ASSUME NEW q \in Seq(Request), Unique(q), NEW n \in Frame \ {0},
           NEW ks \in Seq(Keys \ KeysOf(q)),
           \A i, j \in 1 .. Len(ks) : ks[i] = ks[j] => i = j
    PROVE  LET p == Appended(q, ks, n)
           IN  /\ p \in Seq(Request) /\ Unique(p) /\ Len(p) = Len(q) + Len(ks)
               /\ \A i \in 1 .. Len(p) :
                    \/ \E j \in 1 .. Len(q) : p[i] = q[j]
                    \/ p[i].frame = n /\ p[i].key \in Keys \ KeysOf(q)
<1>. DEFINE new == [i \in 1 .. Len(ks) |-> [key |-> ks[i], frame |-> n]]
            p == q \o new
<1>1. Len(q) \in Nat /\ Len(ks) \in Nat
  BY LenProperties
<1>2. \A i \in 1 .. Len(ks) : ks[i] \in Keys \ KeysOf(q)
  BY ElementOfSeq
<1>3. new \in Seq(Request) /\ Len(new) = Len(ks)
  <2>1. new \in [1 .. Len(ks) -> Request]
    BY <1>2 DEF Request
  <2>. HIDE DEF new
  <2>. QED  BY <1>1, <2>1, FunctionIsSeq
<1>4. \A i \in 1 .. Len(ks) : new[i].key = ks[i] /\ new[i].frame = n
  OBVIOUS
<1>. HIDE DEF new
<1>5. /\ p \in Seq(Request) /\ Len(p) = Len(q) + Len(ks)
      /\ \A i \in 1 .. Len(p) : p[i] = IF i <= Len(q) THEN q[i] ELSE new[i - Len(q)]
  BY <1>3, Concatenated, Zenon
<1>. HIDE DEF p
<1>6. ASSUME NEW i \in 1 .. Len(p)
      PROVE  \/ i \in 1 .. Len(q) /\ p[i] = q[i]
             \/ /\ i - Len(q) \in 1 .. Len(ks)
                /\ p[i].key = ks[i - Len(q)] /\ p[i].frame = n
  BY <1>1, <1>4, <1>5
<1>7. Unique(p)
  <2>. SUFFICES ASSUME NEW i \in 1 .. Len(p), NEW j \in 1 .. Len(p), p[i].key = p[j].key
                PROVE  i = j
    BY DEF Unique
  <2>1. \A m \in 1 .. Len(q) : q[m].key \in KeysOf(q)
    BY DEF KeysOf
  <2>2. CASE i \in 1 .. Len(q) /\ j \in 1 .. Len(q)
    BY <1>1, <1>5, <2>2 DEF Unique
  <2>3. CASE i - Len(q) \in 1 .. Len(ks) /\ j - Len(q) \in 1 .. Len(ks)
    <3>1. p[i].key = ks[i - Len(q)] /\ p[j].key = ks[j - Len(q)]
      <4>1. i \notin 1 .. Len(q) /\ j \notin 1 .. Len(q)
        BY <1>1, <2>3
      <4>. QED  BY <1>6, <4>1
    <3>2. \A a, b \in 1 .. Len(ks) : ks[a] = ks[b] => a = b
      OBVIOUS
    <3>3. i - Len(q) = j - Len(q)
      BY <2>3, <3>1, <3>2
    <3>. QED  BY <1>1, <1>5, <3>3
  <2>4. ASSUME NEW a \in 1 .. Len(p), NEW b \in 1 .. Len(p),
               a \in 1 .. Len(q), b - Len(q) \in 1 .. Len(ks)
        PROVE  p[a].key # p[b].key
    <3>1. b \notin 1 .. Len(q) /\ a - Len(q) \notin 1 .. Len(ks)
      BY <1>1, <2>4
    <3>2. p[a] = q[a] /\ p[b].key = ks[b - Len(q)]
      BY <1>6, <3>1
    <3>. QED  BY <1>2, <2>1, <2>4, <3>2
  <2>. QED  BY <1>6, <2>2, <2>3, <2>4
<1>8. \A i \in 1 .. Len(p) :
         \/ \E j \in 1 .. Len(q) : p[i] = q[j]
         \/ p[i].frame = n /\ p[i].key \in Keys \ KeysOf(q)
  BY <1>2, <1>6
<1>. QED  BY <1>5, <1>7, <1>8 DEF Appended, p, new

\* processQueue() takes the first request.
LEMMA TailHas ==
    ASSUME NEW q \in Seq(Request), q # << >>
    PROVE  /\ Head(q) \in Request /\ Tail(q) \in Seq(Request)
           /\ Len(q) \in Nat /\ 1 \in 1 .. Len(q) /\ Head(q) = q[1]
           /\ \A i \in 1 .. Len(Tail(q)) : i + 1 \in 1 .. Len(q) /\ Tail(q)[i] = q[i + 1]
           /\ Unique(q) => Unique(Tail(q)) /\ \A i \in 1 .. Len(Tail(q)) : Tail(q)[i].key # Head(q).key
<1>1. /\ Head(q) \in Request /\ Tail(q) \in Seq(Request) /\ Len(Tail(q)) = Len(q) - 1
      /\ \A i \in 1 .. Len(Tail(q)) : Tail(q)[i] = q[i + 1]
  BY HeadTailProperties
<1>2. Len(q) \in Nat /\ 1 \in 1 .. Len(q)
  BY EmptySeq, LenProperties
<1>3. Head(q) = q[1]
  BY SMT
<1>4. \A i \in 1 .. Len(Tail(q)) : i + 1 \in 1 .. Len(q) /\ i + 1 # 1
  BY <1>1, <1>2
<1>5. ASSUME Unique(q) PROVE Unique(Tail(q))
  <2>. SUFFICES ASSUME NEW i \in 1 .. Len(Tail(q)), NEW j \in 1 .. Len(Tail(q)),
                       Tail(q)[i].key = Tail(q)[j].key
                PROVE  i = j
    BY DEF Unique
  <2>1. i + 1 = j + 1
    BY <1>1, <1>4, <1>5 DEF Unique
  <2>2. i \in Int /\ j \in Int
    OBVIOUS
  <2>. QED  BY <2>1, <2>2
<1>6. ASSUME Unique(q), NEW i \in 1 .. Len(Tail(q)) PROVE Tail(q)[i].key # Head(q).key
  BY <1>1, <1>2, <1>3, <1>4, <1>6 DEF Unique
<1>. QED  BY <1>1, <1>2, <1>3, <1>4, <1>5, <1>6

-----------------------------------------------------------------------------
(***************************************************************************)
(* What is posted.                                                         *)
(***************************************************************************)
AnswersIn(p) == {i \in 1 .. Len(p) : p[i] # Process}

OneIn(p) == \A i, j \in AnswersIn(p) : i = j

LEMMA ConcatHas ==
    ASSUME NEW p \in Seq(Call), NEW q \in Seq({Process})
    PROVE  p \o q \in Seq(Call) /\ AnswersIn(p \o q) = AnswersIn(p)
           /\ \A i \in AnswersIn(p) : (p \o q)[i] = p[i]
<1>1. q \in Seq(Call)
  BY SeqMonotonic DEF Call
<1>2. Len(p) \in Nat /\ Len(q) \in Nat
  BY LenProperties
<1>3. /\ p \o q \in Seq(Call) /\ Len(p \o q) = Len(p) + Len(q)
      /\ \A i \in 1 .. Len(p) + Len(q) :
           (p \o q)[i] = IF i <= Len(p) THEN p[i] ELSE q[i - Len(p)]
  BY <1>1, ConcatProperties
<1>4. \A i \in 1 .. Len(p) : i \in 1 .. Len(p) + Len(q) /\ (p \o q)[i] = p[i]
  BY <1>2, <1>3
<1>5. ASSUME NEW i \in 1 .. Len(p) + Len(q), i \notin 1 .. Len(p) PROVE (p \o q)[i] = Process
  <2>1. i - Len(p) \in 1 .. Len(q) /\ ~(i <= Len(p))
    BY <1>2, <1>5
  <2>2. q[i - Len(p)] \in {Process}
    BY <2>1, ElementOfSeq
  <2>. QED  BY <1>3, <2>1, <2>2
<1>6. AnswersIn(p \o q) = AnswersIn(p)
  BY <1>3, <1>4, <1>5 DEF AnswersIn
<1>. QED  BY <1>3, <1>4, <1>6 DEF AnswersIn

LEMMA AskHas ==
    ASSUME NEW p \in Seq(Call)
    PROVE  Append(p, Process) \in Seq(Call) /\ AnswersIn(Append(p, Process)) = AnswersIn(p)
           /\ \A i \in AnswersIn(p) : Append(p, Process)[i] = p[i]
<1>1. <<Process>> \in Seq({Process}) /\ Process \in Call
  BY DEF Call
<1>2. Append(p, Process) = p \o <<Process>>
  BY <1>1, AppendIsConcat
<1>. QED  BY <1>1, <1>2, ConcatHas

LEMMA AnswerHas ==
    ASSUME NEW p \in Seq(Call), NEW c \in Call, c # Process
    PROVE  /\ Append(p, c) \in Seq(Call)
           /\ Len(p) + 1 \in AnswersIn(Append(p, c)) /\ Append(p, c)[Len(p) + 1] = c
           /\ AnswersIn(Append(p, c)) = AnswersIn(p) \cup {Len(p) + 1}
           /\ \A i \in AnswersIn(p) : Append(p, c)[i] = p[i]
<1>1. /\ Append(p, c) \in Seq(Call) /\ Len(Append(p, c)) = Len(p) + 1
      /\ \A i \in 1 .. Len(p) : Append(p, c)[i] = p[i]
      /\ Append(p, c)[Len(p) + 1] = c
  BY AppendProperties
<1>2. Len(p) \in Nat
  BY LenProperties
<1>3. \A i : i \in 1 .. Len(p) + 1 <=> i \in 1 .. Len(p) \/ i = Len(p) + 1
  BY <1>2
<1>4. AnswersIn(Append(p, c)) = AnswersIn(p) \cup {Len(p) + 1}
  BY <1>1, <1>3 DEF AnswersIn
<1>. QED  BY <1>1, <1>4 DEF AnswersIn

LEMMA RestHas ==
    ASSUME NEW p \in Seq(Call), p # << >>
    PROVE  /\ Head(p) \in Call /\ Tail(p) \in Seq(Call)
           /\ \A i \in AnswersIn(Tail(p)) : i + 1 \in AnswersIn(p) /\ Tail(p)[i] = p[i + 1]
           /\ OneIn(p) => OneIn(Tail(p))
           /\ Head(p) = Process => (AnswersIn(Tail(p)) = {} <=> AnswersIn(p) = {})
           /\ Head(p) # Process => /\ 1 \in AnswersIn(p) /\ p[1] = Head(p)
                                   /\ OneIn(p) => AnswersIn(Tail(p)) = {}
<1>1. /\ Head(p) \in Call /\ Tail(p) \in Seq(Call) /\ Len(Tail(p)) = Len(p) - 1
      /\ \A i \in 1 .. Len(Tail(p)) : Tail(p)[i] = p[i + 1]
  BY HeadTailProperties
<1>2. Len(p) \in Nat /\ 1 \in 1 .. Len(p) /\ Head(p) = p[1]
  BY EmptySeq, LenProperties, SMT
<1>3. \A i \in 1 .. Len(Tail(p)) : i \in Nat /\ i + 1 \in 1 .. Len(p) /\ i + 1 # 1
  BY <1>1, <1>2
<1>4. \A i \in AnswersIn(Tail(p)) :
        i \in Nat /\ i + 1 \in AnswersIn(p) /\ i + 1 # 1 /\ Tail(p)[i] = p[i + 1]
  BY <1>1, <1>3 DEF AnswersIn
<1>5. ASSUME OneIn(p) PROVE OneIn(Tail(p))
  <2>. SUFFICES ASSUME NEW i \in AnswersIn(Tail(p)), NEW j \in AnswersIn(Tail(p)) PROVE i = j
    BY DEF OneIn
  <2>1. i + 1 = j + 1
    BY <1>4, <1>5 DEF OneIn
  <2>. QED  BY <1>4, <2>1
<1>6. ASSUME Head(p) # Process
      PROVE  1 \in AnswersIn(p) /\ (OneIn(p) => AnswersIn(Tail(p)) = {})
  BY <1>2, <1>4, <1>6 DEF AnswersIn, OneIn
<1>7. ASSUME Head(p) = Process, NEW i \in AnswersIn(p) PROVE AnswersIn(Tail(p)) # {}
  <2>1. i \in 1 .. Len(p) /\ p[i] # Process /\ i # 1
    BY <1>2, <1>7 DEF AnswersIn
  <2>2. i - 1 \in 1 .. Len(Tail(p)) /\ (i - 1) + 1 = i
    BY <1>1, <1>2, <2>1
  <2>3. Tail(p)[i - 1] = p[i]
    BY <1>1, <2>2
  <2>. QED  BY <2>1, <2>2, <2>3 DEF AnswersIn
<1>8. ASSUME Head(p) = Process PROVE AnswersIn(Tail(p)) = {} <=> AnswersIn(p) = {}
  BY <1>4, <1>7, <1>8
<1>. QED  BY <1>1, <1>2, <1>4, <1>5, <1>6, <1>8

-----------------------------------------------------------------------------
(***************************************************************************)
(* Types.                                                                  *)
(***************************************************************************)
Workers == {Idle} \cup [at : {"posted", "fetching"}, req : Request]

\* What generateThumbnails() posts: one call for each camera that is queued.
LEMMA ProcessesHas ==
    ASSUME NEW ks, NEW S, ks \in Seq(S)
    PROVE  [i \in 1 .. Len(ks) |-> Process] \in Seq({Process})
<1>. DEFINE calls == [i \in 1 .. Len(ks) |-> Process]
<1>1. Len(ks) \in Nat /\ calls \in [1 .. Len(ks) -> {Process}]
  BY LenProperties
<1>. HIDE DEF calls
<1>2. calls \in Seq({Process})
  BY <1>1, FunctionIsSeq
<1>. QED  BY <1>2 DEF calls

\* With the types: a camera waits once.
TypeInv == TypeOK /\ Unique(m_queue)

LEMMA ProcessQueueType ==
    ASSUME TypeInv, NEW fetching \in BOOLEAN, ProcessQueue(fetching)
    PROVE  /\ m_queue' \in Seq(Request) /\ m_fetching' \in BOOLEAN /\ worker' \in Workers
           /\ Unique(m_queue')
<1>1. CASE fetching \/ m_queue = << >>
  BY <1>1 DEF ProcessQueue, TypeInv, TypeOK, Workers
<1>2. CASE ~(fetching \/ m_queue = << >>)
  <2>1. /\ m_fetching' = TRUE /\ m_queue' = Tail(m_queue)
        /\ worker' = [at |-> "posted", req |-> Head(m_queue)]
    BY <1>2 DEF ProcessQueue
  <2>2. /\ Head(m_queue) \in Request /\ Tail(m_queue) \in Seq(Request)
        /\ Unique(Tail(m_queue))
    BY <1>2, TailHas DEF TypeInv, TypeOK
  <2>. QED  BY <2>1, <2>2 DEF Workers
<1>. QED  BY <1>1, <1>2

LEMMA NothingWaits == << >> \in Seq(Request) /\ << >> \in Seq(Call) /\ Unique(<< >>)
BY EmptySeq DEF Unique

LEMMA InitType == Init => TypeInv
<1>. SUFFICES ASSUME Init PROVE TypeInv
  OBVIOUS
<1>1. 0 \in Frame
  BY ThumbnailAssumption DEF Frame
<1>. QED  BY <1>1, NothingWaits DEF Init, TypeInv, TypeOK

\* Requests are numbered from 1.
LEMMA AsksType ==
    ASSUME TypeOK, Asks
    PROVE  /\ requests' \in Frame /\ requests + 1 \in Frame \ {0} /\ requests' = requests + 1
           /\ requests \in Nat
BY ThumbnailAssumption DEF TypeOK, Asks, Frame

LEMMA FetchFrameAnswers ==
    ASSUME TypeInv, FetchFrame
    PROVE  \E c \in Call :
             /\ c # Process /\ posted' = Append(posted, c)
             /\ c.kind = "fetched" => c.key = worker.req.key /\ c.frame = worker.req.frame
<1>1. worker.req \in Request
  BY DEF FetchFrame, TypeInv, TypeOK, Idle
<1>. DEFINE good == [kind |-> "fetched", key |-> worker.req.key, frame |-> worker.req.frame]
            bad == [kind |-> "failed", key |-> worker.req.key]
<1>2. good \in Call /\ bad \in Call
  BY <1>1 DEF Call, Request
<1>3. good # Process /\ bad # Process
  BY DEF Process
<1>4. posted' = Append(posted, good) \/ posted' = Append(posted, bad)
  BY DEF FetchFrame
<1>. QED  BY <1>2, <1>3, <1>4

LEMMA NextType == TypeInv /\ [Next]_vars => TypeInv'
<1>. SUFFICES ASSUME TypeInv, [Next]_vars PROVE TypeOK' /\ Unique(m_queue')
  BY DEF TypeInv, Unique
<1>. USE DEF TypeInv
<1>0. 0 \in Frame
  BY ThumbnailAssumption DEF Frame
<1>1. ASSUME NEW k \in Keys, GenerateSingleThumbnail(k) PROVE TypeOK' /\ Unique(m_queue')
  <2>1. files' \in [Keys -> Frame] /\ m_cache' \in [Keys -> Frame]
    BY <1>0, <1>1 DEF GenerateSingleThumbnail, TypeOK
  <2>2. posted' \in Seq(Call)
    BY <1>1, AskHas DEF GenerateSingleThumbnail, TypeOK
  <2>3. [key |-> k, frame |-> requests + 1] \in Request /\ requests' \in Frame
    BY <1>1, AsksType DEF GenerateSingleThumbnail, Request
  <2>4. m_queue' \in Seq(Request) /\ Unique(m_queue')
    <3>1. m_queue' = Prepended(m_queue, [key |-> k, frame |-> requests + 1])
      BY <1>1 DEF GenerateSingleThumbnail
    <3>. QED  BY <2>3, <3>1, PrependedHas DEF TypeOK
  <2>. QED  BY <1>1, <2>1, <2>2, <2>3, <2>4 DEF GenerateSingleThumbnail, TypeOK
<1>2. CASE GenerateThumbnails
  <2>. DEFINE new == SetToSeq(Keys \ KeysOf(m_queue))
  <2>1. new \in Seq(Keys \ KeysOf(m_queue)) /\ \A i, j \in 1 .. Len(new) : new[i] = new[j] => i = j
    BY CamerasOnce
  <2>2. /\ Asks /\ files' = [k \in Keys |-> 0]
        /\ m_queue' = Appended(m_queue, new, requests + 1)
        /\ posted' = posted \o [i \in 1 .. Len(new) |-> Process]
        /\ UNCHANGED <<m_fetching, m_cache, worker, app>>
    BY <1>2 DEF GenerateThumbnails
  <2>. HIDE DEF new
  <2>3. posted' \in Seq(Call)
    BY <2>1, <2>2, ProcessesHas, ConcatHas DEF TypeOK
  <2>4. m_queue' \in Seq(Request) /\ Unique(m_queue')
    BY <2>1, <2>2, AsksType, AppendedHas DEF TypeOK
  <2>5. files' \in [Keys -> Frame]
    BY <1>0, <2>2
  <2>. QED  BY <2>2, <2>3, <2>4, <2>5, AsksType DEF TypeOK
<1>3. CASE CancelAll \/ Destroy
  BY <1>3, NothingWaits DEF CancelAll, Destroy, TypeOK
<1>4. CASE Destroyed
  BY <1>4, NothingWaits DEF Destroyed, TypeOK
<1>5. CASE Delivers
  <2>. DEFINE call == Head(posted)
  <2>1. call \in Call /\ posted' \in Seq(Call)
    BY <1>5, RestHas DEF Delivers, TypeOK
  <2>2. /\ \/ call.kind = "process" /\ ProcessQueue(m_fetching) /\ UNCHANGED <<m_cache, files>>
           \/ call.kind = "fetched" /\ OnFrameFetched(call)
           \/ call.kind = "failed" /\ OnFetchFailed
        /\ UNCHANGED <<app, requests>>
    BY <1>5 DEF Delivers
  <2>. HIDE DEF call
  <2>3. /\ m_queue' \in Seq(Request) /\ m_fetching' \in BOOLEAN /\ worker' \in Workers
        /\ Unique(m_queue')
    BY <2>2, ProcessQueueType DEF OnFrameFetched, OnFetchFailed, TypeOK
  <2>4. m_cache' \in [Keys -> Frame] /\ files' \in [Keys -> Frame]
    <3>1. CASE call.kind = "fetched" /\ OnFrameFetched(call)
      <4>1. call.key \in Keys /\ call.frame \in Frame
        BY <2>1, <3>1 DEF Call, Process
      <4>. QED  BY <3>1, <4>1 DEF OnFrameFetched, TypeOK
    <3>. QED  BY <2>2, <3>1 DEF OnFetchFailed, TypeOK
  <2>. QED  BY <2>1, <2>2, <2>3, <2>4 DEF TypeOK, Workers
<1>6. CASE StartsFetch
  <2>1. worker \in [at : {"posted", "fetching"}, req : Request]
    BY <1>6 DEF StartsFetch, TypeOK, Idle
  <2>. QED  BY <1>6, <2>1 DEF StartsFetch, TypeOK
<1>7. CASE LoopExits
  BY <1>7 DEF LoopExits, TypeOK
<1>8. CASE FetchFrame
  <2>1. \E c \in Call : c # Process /\ posted' = Append(posted, c)
    BY <1>8, FetchFrameAnswers
  <2>2. posted' \in Seq(Call)
    BY <2>1, AnswerHas DEF TypeOK
  <2>. QED  BY <1>8, <2>2 DEF FetchFrame, TypeOK
<1>9. CASE UNCHANGED vars
  BY <1>9 DEF vars, TypeOK
<1>. QED  BY <1>1, <1>2, <1>3, <1>4, <1>5, <1>6, <1>7, <1>8, <1>9 DEF Next

\* The queue, the caches, the calls and the worker keep their types.
THEOREM ThumbnailTypeOK == Spec => []TypeOK
<1>1. TypeInv => TypeOK
  BY DEF TypeInv
<1>. QED  BY <1>1, InitType, NextType, PTL DEF Spec

-----------------------------------------------------------------------------
(***************************************************************************)
(* One fetch at a time.                                                    *)
(***************************************************************************)
FetchInv ==
    app = "open" =>
      /\ m_fetching <=> worker # Idle \/ AnswersIn(posted) # {}
      /\ worker # Idle => AnswersIn(posted) = {}
      /\ OneIn(posted)
      /\ m_queue # << >> => m_fetching \/ posted # << >>

LEMMA FetchInvImplies == TypeInv /\ FetchInv => OneFetchAtATime
<1>1. Answers = AnswersIn(posted)
  BY DEF Answers, AnswersIn
<1>. QED  BY <1>1 DEF TypeInv, FetchInv, OneFetchAtATime, OneIn, Unique

LEMMA InitFetch == Init => FetchInv
<1>1. AnswersIn(<< >>) = {}
  BY DEF AnswersIn
<1>. QED  BY <1>1 DEF Init, FetchInv, OneIn

\* Nothing is done while a fetch is under way, or nothing waits, or the first is taken.
LEMMA ProcessQueueDoes ==
    ASSUME NEW fetching \in BOOLEAN, ProcessQueue(fetching)
    PROVE  \/ /\ fetching /\ m_fetching' = TRUE
              /\ m_queue' = m_queue /\ worker' = worker
           \/ /\ ~fetching /\ m_fetching' = FALSE /\ m_queue = << >>
              /\ m_queue' = m_queue /\ worker' = worker
           \/ /\ ~fetching /\ m_fetching' = TRUE /\ m_queue # << >>
              /\ m_queue' = Tail(m_queue) /\ worker' = [at |-> "posted", req |-> Head(m_queue)]
BY DEF ProcessQueue

\* An answer: the worker has nothing then, and no other answer is posted.
LEMMA AnswerIsAlone ==
    ASSUME TypeInv, FetchInv, Delivers, Head(posted).kind # "process"
    PROVE  worker = Idle /\ AnswersIn(Tail(posted)) = {} /\ 1 \in AnswersIn(posted)
           /\ posted[1] = Head(posted) /\ m_fetching
<1>1. Head(posted) # Process
  BY DEF Process
<1>2. posted \in Seq(Call) /\ posted # << >> /\ app = "open"
  BY DEF TypeInv, TypeOK, Delivers
<1>. QED  BY <1>1, <1>2, RestHas DEF FetchInv

LEMMA PostedIsWorking ==
    ASSUME NEW r PROVE [at |-> "posted", req |-> r] # Idle
<1>1. [at |-> "posted", req |-> r].at # Idle.at
  BY DEF Idle
<1>. QED  BY <1>1

LEMMA NextFetch == TypeInv /\ FetchInv /\ [Next]_vars => FetchInv'
<1>. SUFFICES ASSUME TypeInv, FetchInv, [Next]_vars, app' = "open"
              PROVE  /\ m_fetching' <=> worker' # Idle \/ AnswersIn(posted') # {}
                     /\ worker' # Idle => AnswersIn(posted') = {}
                     /\ OneIn(posted')
                     /\ m_queue' # << >> => m_fetching' \/ posted' # << >>
  BY DEF FetchInv, AnswersIn, OneIn
<1>. DEFINE Goal == /\ m_fetching' <=> worker' # Idle \/ AnswersIn(posted') # {}
                    /\ worker' # Idle => AnswersIn(posted') = {}
                    /\ OneIn(posted')
                    /\ m_queue' # << >> => m_fetching' \/ posted' # << >>
<1>0. posted \in Seq(Call) /\ m_queue \in Seq(Request) /\ Len(posted) \in Nat /\ Len(m_queue) \in Nat
  BY LenProperties DEF TypeInv, TypeOK
<1>1. ASSUME NEW k \in Keys, GenerateSingleThumbnail(k) PROVE Goal
  <2>1. posted' = Append(posted, Process) /\ UNCHANGED <<m_fetching, worker, app>>
    BY <1>1 DEF GenerateSingleThumbnail
  <2>2. AnswersIn(posted') = AnswersIn(posted)
    BY <1>0, <2>1, AskHas
  <2>3. posted' # << >>
    BY <1>0, <2>1, AppendProperties, EmptySeq, SMT
  <2>. QED  BY <2>1, <2>2, <2>3 DEF FetchInv, OneIn
<1>2. CASE GenerateThumbnails
  <2>. DEFINE new == SetToSeq(Keys \ KeysOf(m_queue))
              calls == [i \in 1 .. Len(new) |-> Process]
  <2>1. new \in Seq(Keys \ KeysOf(m_queue)) /\ \A i, j \in 1 .. Len(new) : new[i] = new[j] => i = j
    BY CamerasOnce
  <2>2. /\ Asks /\ m_queue' = Appended(m_queue, new, requests + 1)
        /\ posted' = posted \o calls
        /\ UNCHANGED <<m_fetching, worker, app>>
    BY <1>2 DEF GenerateThumbnails
  <2>3. calls \in Seq({Process})
    BY <2>1, ProcessesHas
  <2>4. Len(calls) = Len(new) /\ Len(new) \in Nat
    <3>1. Len(new) \in Nat /\ calls \in [1 .. Len(new) -> {Process}]
      BY <2>1, LenProperties
    <3>. HIDE DEF calls
    <3>. QED  BY <3>1, FunctionIsSeq
  <2>5. Len(m_queue') = Len(m_queue) + Len(new)
    <3>. HIDE DEF new
    <3>. QED  BY <2>1, <2>2, AsksType, AppendedHas DEF TypeInv, TypeOK
  <2>. HIDE DEF new, calls
  <2>6. AnswersIn(posted') = AnswersIn(posted)
    BY <1>0, <2>2, <2>3, ConcatHas
  <2>7. Len(posted') = Len(posted) + Len(new)
    <3>1. calls \in Seq(Call)
      BY <2>3, SeqMonotonic DEF Call
    <3>2. Len(posted \o calls) = Len(posted) + Len(calls)
      BY <1>0, <3>1, ConcatProperties
    <3>. QED  BY <2>2, <2>4, <3>2
  <2>8. ASSUME m_queue' # << >>, ~m_fetching PROVE posted' # << >>
    <3>1. m_queue' \in Seq(Request)
      BY <2>1, <2>2, AsksType, AppendedHas DEF TypeInv, TypeOK
    <3>2. Len(m_queue') # 0
      BY <2>8, <3>1, EmptySeq
    <3>3. m_queue # << >> => Len(posted) # 0
      BY <1>0, <2>2, <2>8, EmptySeq DEF FetchInv
    <3>4. m_queue = << >> => Len(m_queue) = 0
      OBVIOUS
    <3>5. Len(posted') # 0
      BY <1>0, <2>4, <2>5, <2>7, <3>2, <3>3, <3>4
    <3>. QED  BY <3>5
  <2>. QED  BY <2>2, <2>6, <2>8 DEF FetchInv, OneIn
<1>3. CASE CancelAll
  BY <1>3 DEF CancelAll, FetchInv
<1>4. CASE Destroy \/ Destroyed \/ LoopExits
  BY <1>4 DEF Destroy, Destroyed, LoopExits
<1>5. CASE Delivers
  <2>. DEFINE call == Head(posted)
  <2>1. posted # << >> /\ posted' = Tail(posted) /\ app = "open"
    BY <1>5 DEF Delivers
  <2>2. CASE call.kind = "process"
    <3>1. ProcessQueue(m_fetching)
      BY <1>5, <2>2 DEF Delivers
    <3>2. call = Process
      BY <1>0, <2>1, <2>2, RestHas DEF Call
    <3>3. (AnswersIn(posted') = {} <=> AnswersIn(posted) = {}) /\ OneIn(posted')
      BY <1>0, <2>1, <3>2, RestHas DEF FetchInv
    <3>4. m_fetching \in BOOLEAN
      BY DEF TypeInv, TypeOK
    <3>. QED
      BY <2>1, <3>1, <3>3, <3>4, ProcessQueueDoes, PostedIsWorking DEF FetchInv
  <2>3. CASE call.kind # "process"
    <3>1. ProcessQueue(FALSE)
      BY <1>5, <2>3 DEF Delivers, OnFrameFetched, OnFetchFailed
    <3>2. worker = Idle /\ AnswersIn(posted') = {}
      BY <1>5, <2>1, <2>3, AnswerIsAlone
    <3>3. OneIn(posted')
      BY <3>2 DEF OneIn
    <3>. QED  BY <3>1, <3>2, <3>3, ProcessQueueDoes, PostedIsWorking
  <2>. QED  BY <2>2, <2>3
<1>6. CASE StartsFetch
  <2>1. worker # Idle /\ worker' # Idle
    <3>1. worker.at # Idle.at /\ worker' = [worker EXCEPT !.at = "fetching"]
      BY <1>6 DEF StartsFetch, Idle
    <3>2. worker \in [at : {"posted", "fetching"}, req : Request]
      BY <3>1 DEF TypeInv, TypeOK
    <3>3. worker'.at = "fetching"
      BY <3>1, <3>2
    <3>. QED  BY <3>1, <3>3 DEF Idle
  <2>. QED  BY <1>6, <2>1 DEF StartsFetch, FetchInv
<1>7. CASE FetchFrame
  <2>1. worker # Idle /\ worker' = Idle /\ UNCHANGED <<m_queue, m_fetching, app>>
    BY <1>7 DEF FetchFrame, Idle
  <2>2. \E c \in Call : c # Process /\ posted' = Append(posted, c)
    BY <1>7, FetchFrameAnswers
  <2>3. AnswersIn(posted) = {} /\ m_fetching
    BY <2>1 DEF FetchInv
  <2>4. AnswersIn(posted') = {Len(posted) + 1}
    BY <1>0, <2>2, <2>3, AnswerHas
  <2>. QED  BY <2>1, <2>3, <2>4 DEF OneIn
<1>8. CASE UNCHANGED vars
  BY <1>8 DEF vars, FetchInv
<1>. QED  BY <1>1, <1>2, <1>3, <1>4, <1>5, <1>6, <1>7, <1>8 DEF Next

\* However requests, cancels and answers interleave, m_fetching is set exactly
\* while one fetch, or its answer, is under way; a camera waits once.
THEOREM ThumbnailOneFetch == Spec => []OneFetchAtATime
<1>1. Init => TypeInv /\ FetchInv
  BY InitType, InitFetch
<1>2. (TypeInv /\ FetchInv) /\ [Next]_vars => (TypeInv /\ FetchInv)'
  BY NextType, NextFetch
<1>. QED  BY <1>1, <1>2, FetchInvImplies, PTL DEF Spec

-----------------------------------------------------------------------------
(***************************************************************************)
(* Pictures get newer.  A request r is in order if memory's frame is not   *)
(* newer, and what waits for the same camera not older, than r's frame.    *)
(***************************************************************************)
InOrder(r, cache, queue, n) ==
    /\ cache[r.key] <= r.frame
    /\ r.frame <= n
    /\ \A i \in 1 .. Len(queue) : queue[i].key = r.key => r.frame <= queue[i].frame

Stored == \A k \in Keys : files[k] <= m_cache[k] /\ m_cache[k] <= requests

OnItsWay ==
    app = "open" =>
      /\ \A i \in 1 .. Len(m_queue) : InOrder(m_queue[i], m_cache, m_queue, requests)
      /\ worker # Idle => InOrder(worker.req, m_cache, m_queue, requests)
      /\ \A i \in AnswersIn(posted) :
           posted[i].kind = "fetched" => InOrder(posted[i], m_cache, m_queue, requests)

Newer == Stored /\ OnItsWay

Getting(k) ==
    /\ m_cache'[k] # 0 => m_cache'[k] >= m_cache[k]
    /\ files'[k] # 0 => files'[k] >= files[k] /\ files'[k] <= m_cache'[k]

LEMMA InitNewer == Init => Newer
<1>1. AnswersIn(<< >>) = {}
  BY DEF AnswersIn
<1>. QED  BY <1>1 DEF Init, Newer, Stored, OnItsWay

\* What was in order stays so while frames only go and later requests join the queue.
LEMMA InOrderStays ==
    ASSUME NEW c \in [Keys -> Frame], NEW d \in [Keys -> Frame],
           NEW q \in Seq(Request), NEW p \in Seq(Request), NEW n \in Nat, NEW m \in Nat,
           NEW r, r.key \in Keys, r.frame \in Nat, InOrder(r, c, q, n),
           d[r.key] <= c[r.key], n <= m,
           \A i \in 1 .. Len(p) : (\E j \in 1 .. Len(q) : p[i] = q[j]) \/ n <= p[i].frame
    PROVE  InOrder(r, d, p, m)
<1>1. c[r.key] \in Nat /\ d[r.key] \in Nat
  BY ThumbnailAssumption DEF Frame
<1>2. d[r.key] <= r.frame /\ r.frame <= m
  BY <1>1 DEF InOrder
<1>3. ASSUME NEW i \in 1 .. Len(p), p[i].key = r.key PROVE r.frame <= p[i].frame
  <2>1. CASE \E j \in 1 .. Len(q) : p[i] = q[j]
    BY <1>3, <2>1 DEF InOrder
  <2>2. CASE n <= p[i].frame
    <3>1. p[i] \in Request
      BY ElementOfSeq
    <3>2. p[i].frame \in Nat
      BY <3>1, ThumbnailAssumption DEF Request, Frame
    <3>. QED  BY <2>2, <3>2 DEF InOrder
  <2>. QED  BY <2>1, <2>2
<1>. QED  BY <1>2, <1>3 DEF InOrder

\* What waits, is fetched or is answered is a camera's, with its request's number.
LEMMA RequestsOf ==
    ASSUME TypeInv
    PROVE  /\ \A i \in 1 .. Len(m_queue) : m_queue[i].key \in Keys /\ m_queue[i].frame \in Frame
           /\ worker # Idle => worker.req.key \in Keys /\ worker.req.frame \in Frame
           /\ \A i \in AnswersIn(posted) :
                posted[i].kind = "fetched" => posted[i].key \in Keys /\ posted[i].frame \in Frame
           /\ Frame \subseteq Nat /\ requests \in Nat /\ m_queue \in Seq(Request)
           /\ m_cache \in [Keys -> Frame] /\ files \in [Keys -> Frame] /\ posted \in Seq(Call)
<1>1. \A i \in 1 .. Len(m_queue) : m_queue[i] \in Request
  BY ElementOfSeq DEF TypeInv, TypeOK
<1>2. worker # Idle => worker.req \in Request
  BY DEF TypeInv, TypeOK
<1>3. \A i \in AnswersIn(posted) : posted[i] \in Call
  BY ElementOfSeq DEF TypeInv, TypeOK, AnswersIn
<1>4. \A c \in Call : c.kind = "fetched" => c.key \in Keys /\ c.frame \in Frame
  BY DEF Call, Process
<1>5. Frame \subseteq Nat
  BY ThumbnailAssumption DEF Frame
<1>. QED  BY <1>1, <1>2, <1>3, <1>4, <1>5 DEF TypeInv, TypeOK, Request

LEMMA SingleNewer ==
    ASSUME TypeInv, TypeInv', Newer, NEW k \in Keys, GenerateSingleThumbnail(k)
    PROVE  Newer' /\ \A x \in Keys : Getting(x)
<1>. DEFINE r == [key |-> k, frame |-> requests + 1]
<1>1. /\ files' = [files EXCEPT ![k] = 0] /\ m_cache' = [m_cache EXCEPT ![k] = 0]
      /\ m_queue' = Prepended(m_queue, r) /\ posted' = Append(posted, Process)
      /\ requests' = requests + 1 /\ app = "open" /\ worker' = worker
  BY DEF GenerateSingleThumbnail, Asks
<1>2. r \in Request /\ r.key = k /\ r.frame = requests + 1
  BY AsksType DEF Request, GenerateSingleThumbnail, TypeInv
<1>. HIDE DEF r
<1>3. \A i \in 1 .. Len(m_queue') :
        \/ m_queue'[i] = r
        \/ m_queue'[i].key # k /\ \E j \in 1 .. Len(m_queue) : m_queue'[i] = m_queue[j]
  <2>1. m_queue \in Seq(Request) /\ Unique(m_queue)
    BY RequestsOf DEF TypeInv
  <2>2. \A i \in 1 .. Len(Prepended(m_queue, r)) :
          \/ Prepended(m_queue, r)[i] = r
          \/ /\ Prepended(m_queue, r)[i].key # r.key
             /\ \E j \in 1 .. Len(m_queue) : Prepended(m_queue, r)[i] = m_queue[j]
    BY <1>2, <2>1, PrependedHas
  <2>. QED  BY <1>1, <1>2, <2>2
<1>4. requests \in Nat /\ requests <= requests' /\ requests' \in Nat /\ requests <= r.frame
  BY <1>1, <1>2, RequestsOf
<1>5. /\ \A x \in Keys : /\ files[x] \in Nat /\ m_cache[x] \in Nat
                         /\ files'[x] = (IF x = k THEN 0 ELSE files[x])
                         /\ m_cache'[x] = (IF x = k THEN 0 ELSE m_cache[x])
      /\ m_cache' \in [Keys -> Frame]
  BY <1>1, RequestsOf DEF TypeInv, TypeOK
<1>6. Stored' /\ \A x \in Keys : Getting(x)
  BY <1>4, <1>5 DEF Newer, Stored, Getting
<1>7. ASSUME NEW s, s.key \in Keys, s.frame \in Frame, InOrder(s, m_cache, m_queue, requests)
      PROVE  InOrder(s, m_cache', m_queue', requests')
  <2>1. m_cache'[s.key] <= m_cache[s.key] /\ s.frame \in Nat
    <3>1. s.frame \in Nat
      BY <1>7, RequestsOf
    <3>2. \A x \in Keys : m_cache'[x] <= m_cache[x]
      BY <1>5
    <3>. QED  BY <1>7, <3>1, <3>2
  <2>2. \A i \in 1 .. Len(m_queue') :
          (\E j \in 1 .. Len(m_queue) : m_queue'[i] = m_queue[j]) \/ requests <= m_queue'[i].frame
    BY <1>3, <1>4
  <2>3. m_queue' \in Seq(Request) /\ m_queue \in Seq(Request) /\ m_cache \in [Keys -> Frame]
    BY RequestsOf DEF TypeInv, TypeOK
  <2>. QED  BY <1>4, <1>5, <1>7, <2>1, <2>2, <2>3, InOrderStays
<1>8. InOrder(r, m_cache', m_queue', requests')
  BY <1>1, <1>2, <1>3, <1>4, <1>5 DEF InOrder
<1>9. AnswersIn(posted') = AnswersIn(posted) /\ \A i \in AnswersIn(posted) : posted'[i] = posted[i]
  BY <1>1, AskHas, RequestsOf
<1>10. \A i \in 1 .. Len(m_queue') : InOrder(m_queue'[i], m_cache', m_queue', requests')
  BY <1>1, <1>3, <1>7, <1>8, RequestsOf DEF Newer, OnItsWay
<1>11. OnItsWay'
  <2>1. worker # Idle => InOrder(worker.req, m_cache', m_queue', requests')
    BY <1>1, <1>7, RequestsOf DEF Newer, OnItsWay
  <2>2. \A i \in AnswersIn(posted) :
          posted[i].kind = "fetched" => InOrder(posted[i], m_cache', m_queue', requests')
    BY <1>1, <1>7, RequestsOf DEF Newer, OnItsWay
  <2>3. \A i \in AnswersIn(posted') :
          posted'[i].kind = "fetched" => InOrder(posted'[i], m_cache', m_queue', requests')
    BY <1>9, <2>2
  <2>. QED  BY <1>1, <1>10, <2>1, <2>3 DEF OnItsWay, InOrder, AnswersIn
<1>. QED  BY <1>6, <1>11 DEF Newer

LEMMA AllNewer ==
    ASSUME TypeInv, TypeInv', Newer, GenerateThumbnails
    PROVE  Newer' /\ \A x \in Keys : Getting(x)
<1>. DEFINE new == SetToSeq(Keys \ KeysOf(m_queue))
            calls == [i \in 1 .. Len(new) |-> Process]
<1>1. /\ files' = [k \in Keys |-> 0] /\ m_cache' = m_cache
      /\ m_queue' = Appended(m_queue, new, requests + 1) /\ posted' = posted \o calls
      /\ requests' = requests + 1 /\ app = "open" /\ worker' = worker
  BY DEF GenerateThumbnails, Asks
<1>2. new \in Seq(Keys \ KeysOf(m_queue)) /\ \A i, j \in 1 .. Len(new) : new[i] = new[j] => i = j
  BY CamerasOnce
<1>3. calls \in Seq({Process})
  BY <1>2, ProcessesHas
<1>. HIDE DEF new, calls
<1>4. requests + 1 \in Frame \ {0} /\ requests \in Nat /\ requests <= requests'
      /\ requests' \in Nat
  BY <1>1, AsksType, RequestsOf DEF GenerateThumbnails, TypeInv
<1>5. \A i \in 1 .. Len(m_queue') :
        \/ \E j \in 1 .. Len(m_queue) : m_queue'[i] = m_queue[j]
        \/ m_queue'[i].frame = requests + 1 /\ m_queue'[i].key \in Keys \ KeysOf(m_queue)
  <2>1. m_queue \in Seq(Request) /\ Unique(m_queue)
    BY RequestsOf DEF TypeInv
  <2>2. \A i \in 1 .. Len(Appended(m_queue, new, requests + 1)) :
          \/ \E j \in 1 .. Len(m_queue) : Appended(m_queue, new, requests + 1)[i] = m_queue[j]
          \/ /\ Appended(m_queue, new, requests + 1)[i].frame = requests + 1
             /\ Appended(m_queue, new, requests + 1)[i].key \in Keys \ KeysOf(m_queue)
    BY <1>2, <1>4, <2>1, AppendedHas
  <2>. QED  BY <1>1, <2>2
<1>6. \A x \in Keys : files[x] \in Nat /\ m_cache[x] \in Nat /\ files'[x] = 0
  BY <1>1, RequestsOf
<1>7. Stored' /\ \A x \in Keys : Getting(x)
  BY <1>1, <1>4, <1>6 DEF Newer, Stored, Getting
<1>8. ASSUME NEW s, s.key \in Keys, s.frame \in Frame, InOrder(s, m_cache, m_queue, requests)
      PROVE  InOrder(s, m_cache', m_queue', requests')
  <2>1. m_cache'[s.key] <= m_cache[s.key] /\ s.frame \in Nat
    BY <1>1, <1>6, <1>8, RequestsOf
  <2>2. \A i \in 1 .. Len(m_queue') :
          (\E j \in 1 .. Len(m_queue) : m_queue'[i] = m_queue[j]) \/ requests <= m_queue'[i].frame
    BY <1>4, <1>5
  <2>3. /\ m_queue' \in Seq(Request) /\ m_queue \in Seq(Request)
        /\ m_cache \in [Keys -> Frame] /\ m_cache' \in [Keys -> Frame]
    BY RequestsOf DEF TypeInv, TypeOK
  <2>. QED  BY <1>4, <1>8, <2>1, <2>2, <2>3, InOrderStays
<1>9. ASSUME NEW i \in 1 .. Len(m_queue') PROVE InOrder(m_queue'[i], m_cache', m_queue', requests')
  <2>1. CASE \E j \in 1 .. Len(m_queue) : m_queue'[i] = m_queue[j]
    BY <1>1, <1>8, <2>1, RequestsOf DEF Newer, OnItsWay
  <2>2. CASE m_queue'[i].frame = requests + 1 /\ m_queue'[i].key \in Keys \ KeysOf(m_queue)
    <3>1. \A j \in 1 .. Len(m_queue) : m_queue[j].key \in KeysOf(m_queue)
      BY DEF KeysOf
    <3>2. \A j \in 1 .. Len(m_queue') :
            m_queue'[j].key = m_queue'[i].key => m_queue'[j].frame = requests + 1
      BY <1>5, <2>2, <3>1
    <3>3. m_cache'[m_queue'[i].key] <= requests + 1
      BY <1>1, <1>4, <1>6, <2>2 DEF Newer, Stored
    <3>. QED  BY <1>1, <1>4, <2>2, <3>2, <3>3 DEF InOrder
  <2>. QED  BY <1>5, <2>1, <2>2
<1>10. AnswersIn(posted') = AnswersIn(posted) /\ \A i \in AnswersIn(posted) : posted'[i] = posted[i]
  BY <1>1, <1>3, ConcatHas, RequestsOf
<1>11. OnItsWay'
  <2>1. worker # Idle => InOrder(worker.req, m_cache', m_queue', requests')
    BY <1>1, <1>8, RequestsOf DEF Newer, OnItsWay
  <2>2. \A i \in AnswersIn(posted) :
          posted[i].kind = "fetched" => InOrder(posted[i], m_cache', m_queue', requests')
    BY <1>1, <1>8, RequestsOf DEF Newer, OnItsWay
  <2>3. \A i \in AnswersIn(posted') :
          posted'[i].kind = "fetched" => InOrder(posted'[i], m_cache', m_queue', requests')
    BY <1>10, <2>2
  <2>. QED  BY <1>1, <1>9, <2>1, <2>3 DEF OnItsWay, InOrder, AnswersIn
<1>. QED  BY <1>7, <1>11 DEF Newer

\* What remains in order when the first of the queue is taken, or nothing is.
LEMMA ProcessQueueOrder ==
    ASSUME TypeInv, NEW fetching \in BOOLEAN, ProcessQueue(fetching), NEW c, NEW n,
           \A i \in 1 .. Len(m_queue) : InOrder(m_queue[i], c, m_queue, n),
           worker # Idle => InOrder(worker.req, c, m_queue, n)
    PROVE  /\ \A i \in 1 .. Len(m_queue') : InOrder(m_queue'[i], c, m_queue', n)
           /\ worker' # Idle => InOrder(worker'.req, c, m_queue', n)
           /\ \A s : InOrder(s, c, m_queue, n) => InOrder(s, c, m_queue', n)
<1>1. CASE m_queue' = m_queue /\ worker' = worker
  BY <1>1
<1>2. CASE /\ m_queue # << >> /\ m_queue' = Tail(m_queue)
           /\ worker' = [at |-> "posted", req |-> Head(m_queue)]
  <2>1. /\ 1 \in 1 .. Len(m_queue) /\ Head(m_queue) = m_queue[1]
        /\ \A i \in 1 .. Len(Tail(m_queue)) :
             i + 1 \in 1 .. Len(m_queue) /\ Tail(m_queue)[i] = m_queue[i + 1]
    BY <1>2, TailHas, RequestsOf
  <2>2. ASSUME NEW s, InOrder(s, c, m_queue, n) PROVE InOrder(s, c, Tail(m_queue), n)
    BY <2>1, <2>2 DEF InOrder
  <2>3. \A i \in 1 .. Len(Tail(m_queue)) : InOrder(Tail(m_queue)[i], c, Tail(m_queue), n)
    BY <2>1, <2>2
  <2>4. InOrder(Head(m_queue), c, Tail(m_queue), n)
    BY <2>1, <2>2
  <2>. QED  BY <1>2, <2>2, <2>3, <2>4
<1>. QED  BY <1>1, <1>2, ProcessQueueDoes

LEMMA DeliversNewer ==
    ASSUME TypeInv, TypeInv', FetchInv, Newer, Delivers
    PROVE  Newer' /\ \A x \in Keys : Getting(x)
<1>. DEFINE call == Head(posted)
<1>1. /\ posted # << >> /\ posted' = Tail(posted) /\ app = "open" /\ app' = app
      /\ requests' = requests
  BY DEF Delivers
<1>2. \A x \in Keys : files[x] \in Nat /\ m_cache[x] \in Nat /\ requests \in Nat
  BY RequestsOf
<1>3. CASE call.kind # "fetched"
  <2>1. m_cache' = m_cache /\ files' = files
    BY <1>3 DEF Delivers, OnFetchFailed
  <2>2. PICK f \in BOOLEAN : ProcessQueue(f)
    BY <1>3 DEF Delivers, OnFetchFailed, TypeInv, TypeOK
  <2>3. Stored' /\ \A x \in Keys : Getting(x)
    BY <1>1, <1>2, <2>1 DEF Newer, Stored, Getting
  <2>4. /\ \A i \in 1 .. Len(m_queue') : InOrder(m_queue'[i], m_cache, m_queue', requests)
        /\ worker' # Idle => InOrder(worker'.req, m_cache, m_queue', requests)
        /\ \A s : InOrder(s, m_cache, m_queue, requests) => InOrder(s, m_cache, m_queue', requests)
    BY <1>1, <2>2, ProcessQueueOrder DEF Newer, OnItsWay
  <2>5. \A i \in AnswersIn(posted') : i + 1 \in AnswersIn(posted) /\ posted'[i] = posted[i + 1]
    BY <1>1, RestHas, RequestsOf
  <2>6. \A i \in AnswersIn(posted') :
          posted'[i].kind = "fetched" => InOrder(posted'[i], m_cache, m_queue', requests)
    BY <1>1, <2>4, <2>5 DEF Newer, OnItsWay
  <2>7. OnItsWay'
    BY <1>1, <2>1, <2>4, <2>6 DEF OnItsWay, InOrder, AnswersIn
  <2>. QED  BY <2>3, <2>7 DEF Newer
<1>4. CASE call.kind = "fetched"
  <2>1. /\ m_cache' = [m_cache EXCEPT ![call.key] = call.frame]
        /\ files' \in {files, [files EXCEPT ![call.key] = call.frame]}
        /\ ProcessQueue(FALSE)
    BY <1>4 DEF Delivers, OnFrameFetched, OnFetchFailed
  <2>2. worker = Idle /\ AnswersIn(posted') = {} /\ 1 \in AnswersIn(posted) /\ posted[1] = call
    BY <1>1, <1>4, AnswerIsAlone
  <2>3. InOrder(call, m_cache, m_queue, requests) /\ call.key \in Keys /\ call.frame \in Nat
    BY <1>1, <1>4, <2>2, RequestsOf DEF Newer, OnItsWay
  <2>. HIDE DEF call
  <2>4. \A x \in Keys : /\ m_cache'[x] = (IF x = call.key THEN call.frame ELSE m_cache[x])
                        /\ files'[x] \in {files[x], m_cache'[x]}
                        /\ x # call.key => files'[x] = files[x]
    BY <2>1, <2>3, RequestsOf
  <2>5. m_cache[call.key] <= call.frame /\ call.frame <= requests
    BY <2>3 DEF InOrder
  <2>6. Stored' /\ \A x \in Keys : Getting(x)
    <3>. SUFFICES ASSUME NEW x \in Keys
                  PROVE  /\ files'[x] <= m_cache'[x] /\ m_cache'[x] <= requests' /\ Getting(x)
      BY DEF Stored
    <3>1. files[x] <= m_cache[x] /\ m_cache[x] <= requests
      BY DEF Newer, Stored
    <3>2. CASE x = call.key
      BY <1>1, <1>2, <2>3, <2>4, <2>5, <3>1, <3>2 DEF Getting
    <3>3. CASE x # call.key
      BY <1>1, <1>2, <2>4, <3>1, <3>3 DEF Getting
    <3>. QED  BY <3>2, <3>3
  <2>7. ASSUME NEW i \in 1 .. Len(m_queue)
        PROVE  InOrder(m_queue[i], m_cache', m_queue, requests)
    <3>1. m_queue[i].key \in Keys
      BY RequestsOf
    <3>2. InOrder(m_queue[i], m_cache, m_queue, requests)
      BY <1>1 DEF Newer, OnItsWay
    <3>3. m_cache'[m_queue[i].key] <= m_queue[i].frame
      BY <2>3, <2>4, <3>1, <3>2 DEF InOrder
    <3>. QED  BY <3>2, <3>3 DEF InOrder
  <2>8. /\ \A i \in 1 .. Len(m_queue') : InOrder(m_queue'[i], m_cache', m_queue', requests)
        /\ worker' # Idle => InOrder(worker'.req, m_cache', m_queue', requests)
    BY <2>1, <2>2, <2>7, ProcessQueueOrder
  <2>9. OnItsWay'
    BY <1>1, <2>2, <2>8 DEF OnItsWay, InOrder, AnswersIn
  <2>. QED  BY <2>6, <2>9 DEF Newer
<1>. QED  BY <1>3, <1>4

LEMMA FetchFrameNewer ==
    ASSUME TypeInv, Newer, FetchInv, FetchFrame
    PROVE  Newer' /\ \A x \in Keys : Getting(x)
<1>1. /\ worker # Idle /\ worker' = Idle
      /\ UNCHANGED <<m_queue, m_fetching, m_cache, files, app, requests>>
  BY DEF FetchFrame, Idle
<1>2. \A x \in Keys : files[x] \in Nat /\ m_cache[x] \in Nat
  BY RequestsOf
<1>3. Stored' /\ \A x \in Keys : Getting(x)
  BY <1>1, <1>2 DEF Newer, Stored, Getting
<1>4. PICK c \in Call : /\ c # Process /\ posted' = Append(posted, c)
                        /\ c.kind = "fetched" => c.key = worker.req.key /\ c.frame = worker.req.frame
  BY FetchFrameAnswers
<1>5. ASSUME app = "open"
      PROVE  \A i \in AnswersIn(posted') :
               posted'[i].kind = "fetched" => InOrder(posted'[i], m_cache, m_queue, requests)
  <2>1. AnswersIn(posted) = {}
    BY <1>1, <1>5 DEF FetchInv
  <2>2. AnswersIn(posted') = {Len(posted) + 1} /\ posted'[Len(posted) + 1] = c
    BY <1>4, <2>1, AnswerHas, RequestsOf
  <2>3. c.kind = "fetched" => InOrder(c, m_cache, m_queue, requests)
    <3>1. InOrder(worker.req, m_cache, m_queue, requests)
      BY <1>1, <1>5 DEF Newer, OnItsWay
    <3>. QED  BY <1>4, <3>1 DEF InOrder
  <2>. QED  BY <2>2, <2>3
<1>6. OnItsWay'
  BY <1>1, <1>5 DEF Newer, OnItsWay, InOrder, AnswersIn
<1>. QED  BY <1>3, <1>6 DEF Newer

LEMMA NextNewer ==
    ASSUME TypeInv, FetchInv, Newer, [Next]_vars
    PROVE  Newer' /\ \A x \in Keys : Getting(x)
<1>1. TypeInv'
  BY NextType
<1>2. ASSUME NEW k \in Keys, GenerateSingleThumbnail(k) PROVE Newer' /\ \A x \in Keys : Getting(x)
  BY <1>1, <1>2, SingleNewer
<1>3. CASE GenerateThumbnails
  BY <1>1, <1>3, AllNewer
<1>4. CASE Delivers
  BY <1>1, <1>4, DeliversNewer
<1>5. CASE FetchFrame
  BY <1>5, FetchFrameNewer
<1>6. CASE CancelAll \/ Destroy \/ Destroyed \/ StartsFetch \/ LoopExits \/ UNCHANGED vars
  <2>1. UNCHANGED <<m_cache, files, requests>>
    BY <1>6 DEF CancelAll, Destroy, Destroyed, StartsFetch, LoopExits, vars
  <2>2. \A x \in Keys : files[x] \in Nat /\ m_cache[x] \in Nat
    BY RequestsOf
  <2>3. Stored' /\ \A x \in Keys : Getting(x)
    BY <2>1, <2>2 DEF Newer, Stored, Getting
  <2>4. CASE Destroy \/ Destroyed \/ LoopExits
    <3>1. app' # "open"
      BY <2>4 DEF Destroy, Destroyed, LoopExits
    <3>. QED  BY <2>3, <3>1 DEF Newer, OnItsWay
  <2>5. CASE CancelAll
    <3>1. m_queue' = << >> /\ UNCHANGED <<worker, posted, app>>
      BY <2>5 DEF CancelAll
    <3>. QED  BY <2>1, <2>3, <3>1 DEF Newer, OnItsWay, InOrder, AnswersIn
  <2>6. CASE StartsFetch
    <3>1. worker.at # Idle.at /\ worker' = [worker EXCEPT !.at = "fetching"]
      BY <2>6 DEF StartsFetch, Idle
    <3>2. worker # Idle /\ worker \in [at : {"posted", "fetching"}, req : Request]
      BY <3>1 DEF TypeInv, TypeOK
    <3>3. worker'.req = worker.req
      BY <3>1, <3>2
    <3>4. UNCHANGED <<m_queue, posted, app>>
      BY <2>6 DEF StartsFetch
    <3>. QED  BY <2>1, <2>3, <3>2, <3>3, <3>4 DEF Newer, OnItsWay, InOrder, AnswersIn
  <2>7. CASE UNCHANGED vars
    BY <2>3, <2>7 DEF vars, Newer, OnItsWay, InOrder, AnswersIn
  <2>. QED  BY <1>6, <2>4, <2>5, <2>6, <2>7
<1>. QED  BY <1>2, <1>3, <1>4, <1>5, <1>6 DEF Next

\* No picture is replaced by one asked for earlier, whatever waits, fails or is
\* asked for again meanwhile, and none on disk is newer than memory's.
THEOREM ThumbnailGetsNewer == Spec => PicturesGetNewer
<1>. DEFINE Inv == TypeInv /\ FetchInv /\ Newer
<1>1. Init => Inv
  BY InitType, InitFetch, InitNewer
<1>2. Inv /\ [Next]_vars => Inv'
  BY NextType, NextFetch, NextNewer
<1>3. Inv /\ [Next]_vars => \A k \in Keys : Getting(k)
  BY NextNewer
<1>4. Inv /\ [Next]_vars =>
        [\A k \in Keys :
          /\ m_cache'[k] # 0 => m_cache'[k] >= m_cache[k]
          /\ files'[k] # 0 => files'[k] >= files[k] /\ files'[k] <= m_cache'[k]]_vars
  BY <1>3 DEF Getting
<1>. QED  BY <1>1, <1>2, <1>4, PTL DEF Spec, PicturesGetNewer

-----------------------------------------------------------------------------
(***************************************************************************)
(* Columns and rows.                                                       *)
(***************************************************************************)
Size == [columns : Nat \ {0}, rows : Nat \ {0}]

LEMMA Divided ==
    ASSUME NEW n \in Nat \ {0}, NEW i \in Nat
    PROVE  i % n \in 0 .. n - 1 /\ i \div n \in Nat /\ i = n * (i \div n) + (i % n)
  OBVIOUS

LEMMA ProductGrows ==
    ASSUME NEW n \in Nat, NEW a \in Int, NEW b \in Int, a <= b
    PROVE  n * a <= n * b
  OBVIOUS

LEMMA RowsAreOrdered ==
    ASSUME NEW n \in Nat, NEW a \in Int, NEW b \in Int, a < b,
           NEW c \in 0 .. n - 1, NEW d \in 0 .. n - 1
    PROVE  n * a + c < n * b + d
<1>1. n * (a + 1) <= n * b
  BY ProductGrows
<1>2. n * (a + 1) = n * a + n
  OBVIOUS
<1>3. n * a \in Int /\ n * b \in Int
  OBVIOUS
<1>. QED  BY <1>1, <1>2, <1>3

LEMMA Coordinates ==
    ASSUME NEW s \in Size, NEW i \in Nat
    PROVE  /\ Column(s, i) \in 0 .. s.columns - 1
           /\ Row(s, i) \in Nat
           /\ i = DataIndex(s, Column(s, i), Row(s, i))
  BY Divided DEF Size, Column, Row, DataIndex

LEMMA DividedBack ==
    ASSUME NEW n \in Nat \ {0}, NEW c \in 0 .. n - 1, NEW r \in Nat
    PROVE  (n * r + c) % n = c /\ (n * r + c) \div n = r
<1>. DEFINE i == n * r + c
<1>1. i \in Nat
  OBVIOUS
<1>2. i % n \in 0 .. n - 1 /\ i \div n \in Nat /\ i = n * (i \div n) + (i % n)
  BY <1>1, Divided
<1>3. ~(i \div n < r) /\ ~(r < i \div n)
  BY <1>1, <1>2, RowsAreOrdered
<1>4. i \div n = r
  BY <1>2, <1>3
<1>5. i % n = c
  BY <1>1, <1>2, <1>4
<1>. QED  BY <1>4, <1>5

LEMMA CoordinatesOf ==
    ASSUME NEW s \in Size, NEW c \in 0 .. s.columns - 1, NEW r \in Nat
    PROVE  /\ DataIndex(s, c, r) \in Nat
           /\ Column(s, DataIndex(s, c, r)) = c
           /\ Row(s, DataIndex(s, c, r)) = r
<1>1. s.columns \in Nat \ {0}
  BY DEF Size
<1>2. (s.columns * r + c) % s.columns = c /\ (s.columns * r + c) \div s.columns = r
  BY <1>1, DividedBack
<1>. QED  BY <1>1, <1>2 DEF Column, Row, DataIndex

LEMMA SameCell ==
    ASSUME NEW s \in Size, NEW i \in Nat, NEW j \in Nat,
           Column(s, i) = Column(s, j), Row(s, i) = Row(s, j)
    PROVE  i = j
  BY Coordinates

LEMMA LaterCell ==
    ASSUME NEW s \in Size, NEW i \in Nat, NEW j \in Nat,
           Column(s, i) <= Column(s, j), Row(s, i) <= Row(s, j)
    PROVE  i <= j
<1>1. s.columns \in Nat
  BY DEF Size
<1>2. s.columns * Row(s, i) <= s.columns * Row(s, j)
  BY <1>1, ProductGrows, Coordinates
<1>. QED  BY <1>1, <1>2, Coordinates DEF DataIndex

LEMMA RowInGrid ==
    ASSUME NEW s \in Size, NEW i \in Nat
    PROVE  i < Cells(s) <=> Row(s, i) < s.rows
<1>. DEFINE n == s.columns
            r == Row(s, i)
            c == Column(s, i)
<1>1. n \in Nat \ {0} /\ s.rows \in Nat /\ r \in Nat /\ c \in 0 .. n - 1 /\ i = n * r + c
  BY Coordinates DEF Size, DataIndex
<1>2. ASSUME r < s.rows PROVE n * r + c < n * s.rows + 0
  BY <1>1, <1>2, RowsAreOrdered
<1>3. ASSUME s.rows <= r PROVE n * s.rows <= n * r
  BY <1>1, <1>3, ProductGrows
<1>4. n * r \in Int /\ n * s.rows \in Int
  BY <1>1
<1>. QED  BY <1>1, <1>2, <1>3, <1>4 DEF Cells

-----------------------------------------------------------------------------
(***************************************************************************)
(* Spans.                                                                  *)
(***************************************************************************)
Grid(s) == 0 .. Cells(s) - 1

\* A visible item after the first loop.
Fits(s, item, i) ==
    /\ item.columnSpan \in Nat \ {0} /\ item.rowSpan = item.columnSpan
    /\ item.columnSpan > 1 =>
         /\ Column(s, i) + item.columnSpan <= s.columns
         /\ Row(s, i) + item.columnSpan <= s.rows
         /\ item.columnSpan < s.columns \/ item.columnSpan < s.rows

Behind(s, i, cell) ==
    [columnSpan |-> Column(s, i) - Column(s, cell),
     rowSpan |-> Row(s, i) - Row(s, cell), visible |-> FALSE]

Others(s, items, i) == SpannedBy(s, items, i) \ {i}

\* The second loop, before it comes to item k.
HiddenUpTo(s, items, k) ==
    /\ \A i \in DOMAIN items : items[i].visible => Fits(s, items[i], i)
    /\ \A i \in DOMAIN items : i < k /\ items[i].visible =>
         \A cell \in Others(s, items, i) : items[cell] = Behind(s, i, cell)
    /\ \A cell \in DOMAIN items : ~items[cell].visible =>
         \E i \in DOMAIN items : i < k /\ items[i].visible /\ cell \in Others(s, items, i)

Normal(s, items) ==
    /\ \A i \in DOMAIN items : items[i].visible =>
         /\ Fits(s, items[i], i)
         /\ \A cell \in Others(s, items, i) : items[cell] = Behind(s, i, cell)
    /\ \A cell \in DOMAIN items : ~items[cell].visible =>
         \E i \in DOMAIN items : items[i].visible /\ cell \in Others(s, items, i)

\* Items in normal form, given to normalize(), before the second loop comes to item k.
Again(s, items, normal, k) ==
    /\ \A i \in Grid(s) : normal[i].visible => items[i] = normal[i]
    /\ \A i \in DOMAIN normal : normal[i].visible =>
         \A cell \in Others(s, normal, i) : items[cell] = IF i < k THEN normal[cell] ELSE NewItem

LayoutInv ==
    /\ Normal(saved.size, saved.items)
    /\ at = "rest" => Normal(size, m_items)
    /\ at # "hiding" => index = 0
    /\ at = "hiding" => HiddenUpTo(size, m_items, index)
    /\ caller # "editing" => size = saved.size
    /\ caller = "loading" =>
         IF at = "hiding" THEN Again(size, m_items, saved.items, index)
         ELSE \A i \in Grid(size) : m_items[i] = saved.items[i]

LEMMA Reaches ==
    ASSUME NEW s \in Size, NEW items, NEW i \in Nat, Fits(s, items[i], i)
    PROVE  \A cell : cell \in SpannedBy(s, items, i) <=>
             /\ cell \in Nat
             /\ Column(s, i) <= Column(s, cell) /\ Column(s, cell) < Column(s, i) + items[i].columnSpan
             /\ Row(s, i) <= Row(s, cell) /\ Row(s, cell) < Row(s, i) + items[i].columnSpan
<1>. DEFINE n == items[i].columnSpan
            col == Column(s, i)
            row == Row(s, i)
<1>1. /\ n \in Nat \ {0} /\ items[i].rowSpan = n /\ s.columns \in Nat
      /\ col \in 0 .. s.columns - 1 /\ row \in Nat
  BY Coordinates DEF Fits, Size
<1>2. col + n <= s.columns
  BY <1>1 DEF Fits
<1>3. ASSUME NEW cell \in SpannedBy(s, items, i)
      PROVE  /\ cell \in Nat
             /\ col <= Column(s, cell) /\ Column(s, cell) < col + n
             /\ row <= Row(s, cell) /\ Row(s, cell) < row + n
  <2>1. PICK c \in 0 .. n - 1, r \in 0 .. n - 1 : cell = DataIndex(s, col + c, row + r)
    BY <1>1, <1>3 DEF SpannedBy
  <2>2. col + c \in 0 .. s.columns - 1 /\ row + r \in Nat
    BY <1>1, <1>2
  <2>3. cell \in Nat /\ Column(s, cell) = col + c /\ Row(s, cell) = row + r
    BY <2>1, <2>2, CoordinatesOf
  <2>. QED  BY <1>1, <2>3
<1>4. ASSUME NEW cell \in Nat,
             col <= Column(s, cell), Column(s, cell) < col + n,
             row <= Row(s, cell), Row(s, cell) < row + n
      PROVE  cell \in SpannedBy(s, items, i)
  <2>. DEFINE c == Column(s, cell) - col
              r == Row(s, cell) - row
  <2>1. Column(s, cell) \in Nat /\ Row(s, cell) \in Nat
        /\ cell = DataIndex(s, Column(s, cell), Row(s, cell))
    BY Coordinates, <1>1
  <2>2. c \in 0 .. n - 1 /\ r \in 0 .. n - 1
    BY <1>1, <1>4, <2>1
  <2>3. cell = DataIndex(s, col + c, row + r)
    BY <1>1, <2>1
  <2>. QED  BY <1>1, <2>2, <2>3 DEF SpannedBy
<1>. QED  BY <1>3, <1>4

LEMMA ReachesItself ==
    ASSUME NEW s \in Size, NEW items, NEW i \in Nat, Fits(s, items[i], i)
    PROVE  i \in SpannedBy(s, items, i)
<1>1. /\ items[i].columnSpan \in Nat \ {0}
      /\ Column(s, i) \in Int /\ Row(s, i) \in Int
  BY Coordinates DEF Fits
<1>. QED  BY <1>1, Reaches

LEMMA OnlyWideReaches ==
    ASSUME NEW s \in Size, NEW items, NEW i \in Nat, Fits(s, items[i], i),
           NEW cell \in Others(s, items, i)
    PROVE  items[i].columnSpan > 1
<1>1. cell \in Nat /\ i \in Nat /\ cell # i
  BY Reaches DEF Others
<1>2. SUFFICES ASSUME items[i].columnSpan = 1 PROVE FALSE
  BY DEF Fits
<1>3. Column(s, cell) = Column(s, i) /\ Row(s, cell) = Row(s, i)
  BY <1>1, <1>2, Reaches, Coordinates DEF Others, Size
<1>. QED  BY <1>1, <1>3, SameCell

\* The other cells come later, and are in the grid.
LEMMA OthersAreLater ==
    ASSUME NEW s \in Size, NEW items, NEW i \in Nat, Fits(s, items[i], i),
           NEW cell \in Others(s, items, i)
    PROVE  cell \in Grid(s) /\ i < cell
<1>1. cell \in Nat /\ i \in Nat /\ cell # i
  BY Reaches DEF Others
<1>2. i <= cell
  BY <1>1, Reaches, LaterCell DEF Others
<1>3. items[i].columnSpan > 1
  BY OnlyWideReaches
<1>4. Row(s, cell) < s.rows
  BY <1>1, <1>3, Reaches, Coordinates DEF Fits, Others, Size
<1>5. cell < Cells(s) /\ Cells(s) \in Nat
  BY <1>1, <1>4, RowInGrid DEF Cells, Size
<1>. QED  BY <1>1, <1>2, <1>5 DEF Grid

-----------------------------------------------------------------------------
(***************************************************************************)
(* The items, and how they are made.                                       *)
(***************************************************************************)
LEMMA Counted ==
    ASSUME NEW s, NEW items
    PROVE  ItemsOf(s, items) <=> \E n \in Nat : Cells(s) <= n /\ items \in [0 .. n - 1 -> Item]
<1>1. ASSUME ItemsOf(s, items)
      PROVE  \E n \in Nat : Cells(s) <= n /\ items \in [0 .. n - 1 -> Item]
  BY <1>1, FS_CardinalityType DEF ItemsOf
<1>2. ASSUME NEW n \in Nat, Cells(s) <= n, items \in [0 .. n - 1 -> Item]
      PROVE  ItemsOf(s, items)
  <2>1. DOMAIN items = 0 .. n - 1
    BY <1>2
  <2>2. IsFiniteSet(0 .. n - 1) /\ Cardinality(0 .. n - 1) = n
    BY FS_Interval
  <2>. QED  BY <1>2, <2>1, <2>2 DEF ItemsOf
<1>. QED  BY <1>1, <1>2

LEMMA CellsOf ==
    ASSUME NEW s \in Size
    PROVE  Cells(s) \in Nat
  BY DEF Cells, Size

LEMMA MoreItems ==
    ASSUME NEW f, NEW g, NEW a \in Nat, NEW b \in Nat,
           f \in [0 .. a - 1 -> Item], g \in [0 .. b - 1 -> Item]
    PROVE  \E n \in Nat : a <= n /\ b <= n /\ Over(f, g) \in [0 .. n - 1 -> Item]
<1>. DEFINE n == IF a < b THEN b ELSE a
<1>1. n \in Nat /\ a <= n /\ b <= n /\ (0 .. a - 1) \cup (0 .. b - 1) = 0 .. n - 1
  OBVIOUS
<1>2. Over(f, g) = [x \in 0 .. n - 1 |-> IF x \in 0 .. a - 1 THEN f[x] ELSE g[x]]
  BY <1>1 DEF Over
<1>3. Over(f, g) \in [0 .. n - 1 -> Item]
  BY <1>1, <1>2
<1>. QED  BY <1>1, <1>3

LEMMA GrownItems ==
    ASSUME NEW s \in Size, NEW n \in Nat, NEW items \in [0 .. n - 1 -> Item]
    PROVE  ItemsOf(s, Grown(items, 0 .. Cells(s) - 1))
<1>1. [i \in 0 .. Cells(s) - 1 |-> NewItem] \in [0 .. Cells(s) - 1 -> Item]
  BY DEF NewItem, Item
<1>2. \E k \in Nat : Cells(s) <= k /\ Grown(items, 0 .. Cells(s) - 1) \in [0 .. k - 1 -> Item]
  BY <1>1, CellsOf, MoreItems DEF Grown
<1>. QED  BY <1>2, Counted

-----------------------------------------------------------------------------
(***************************************************************************)
(* The two loops.                                                          *)
(***************************************************************************)
LEMMA NormalSpanFits ==
    ASSUME NEW s \in Size, NEW items, NEW i \in Nat, items[i] \in Item
    PROVE  LET n == NormalSpan(s, items, i) IN
           /\ n \in Nat \ {0}
           /\ n > 1 => /\ Column(s, i) + n <= s.columns
                       /\ Row(s, i) + n <= s.rows
                       /\ n < s.columns \/ n < s.rows
           /\ items[i].columnSpan <= 1 => n = 1
           /\ Fits(s, items[i], i) => n = items[i].columnSpan
<1>1. /\ s.columns \in Nat \ {0} /\ s.rows \in Nat \ {0}
      /\ Column(s, i) \in 0 .. s.columns - 1 /\ Row(s, i) \in Nat
      /\ items[i].columnSpan \in Int /\ items[i].rowSpan \in Int
  BY Coordinates DEF Size, Item
<1>. QED  BY <1>1 DEF NormalSpan, Clamp, Fits

LEMMA UnhiddenItem ==
    ASSUME NEW s \in Size, NEW n \in Nat, NEW items \in [0 .. n - 1 -> Item], NEW i \in 0 .. n - 1
    PROVE  Unhidden(s, items)[i] = [columnSpan |-> NormalSpan(s, items, i),
                                    rowSpan |-> NormalSpan(s, items, i), visible |-> TRUE]
  BY DEF Unhidden, Spanning, Item

LEMMA UnhidesDoes ==
    ASSUME NEW s \in Size, NEW n \in Nat, NEW items \in [0 .. n - 1 -> Item]
    PROVE  /\ Unhidden(s, items) \in [0 .. n - 1 -> Item]
           /\ HiddenUpTo(s, Unhidden(s, items), 0)
<1>. DEFINE new == Unhidden(s, items)
<1>1. DOMAIN new = 0 .. n - 1
  BY DEF Unhidden
<1>2. ASSUME NEW i \in 0 .. n - 1
      PROVE  new[i] \in Item /\ new[i].visible /\ Fits(s, new[i], i)
  <2>. DEFINE span == NormalSpan(s, items, i)
  <2>1. new[i] = [columnSpan |-> span, rowSpan |-> span, visible |-> TRUE]
    BY UnhiddenItem
  <2>2. items[i] \in Item /\ i \in Nat
    OBVIOUS
  <2>3. /\ span \in Nat \ {0}
        /\ span > 1 => /\ Column(s, i) + span <= s.columns
                       /\ Row(s, i) + span <= s.rows
                       /\ span < s.columns \/ span < s.rows
    BY <2>2, NormalSpanFits
  <2>. HIDE DEF new, span
  <2>. QED  BY <2>1, <2>3 DEF Fits, Item
<1>3. new \in [0 .. n - 1 -> Item]
  BY <1>1, <1>2 DEF Unhidden
<1>. QED  BY <1>1, <1>2, <1>3 DEF HiddenUpTo

\* Any cells of those that k spans, hidden behind it.
Hiding(s, items, k, cells) ==
    [cell \in DOMAIN items |-> IF cell \in cells THEN Behind(s, k, cell) ELSE items[cell]]

LEMMA HidingType ==
    ASSUME NEW s \in Size, NEW n \in Nat, NEW items \in [0 .. n - 1 -> Item], NEW k \in Nat, NEW cells
    PROVE  Hiding(s, items, k, cells) \in [0 .. n - 1 -> Item]
<1>1. ASSUME NEW cell \in 0 .. n - 1 PROVE Behind(s, k, cell) \in Item
  <2>1. Column(s, k) \in Int /\ Row(s, k) \in Int /\ Column(s, cell) \in Int /\ Row(s, cell) \in Int
    BY Coordinates
  <2>. QED  BY <2>1 DEF Behind, Item
<1>. QED  BY <1>1 DEF Hiding

LEMMA BehindIsHidden ==
    ASSUME NEW s, NEW k, NEW cell
    PROVE  ~Behind(s, k, cell).visible
  BY DEF Behind

LEMMA SameSpan ==
    ASSUME NEW s, NEW items, NEW new, NEW i, new[i] = items[i]
    PROVE  Others(s, new, i) = Others(s, items, i)
<1>. DEFINE Square(item) == {DataIndex(s, Column(s, i) + c, Row(s, i) + r) :
                                c \in 0 .. item.columnSpan - 1, r \in 0 .. item.rowSpan - 1}
<1>1. SpannedBy(s, new, i) = Square(new[i]) /\ SpannedBy(s, items, i) = Square(items[i])
  BY DEF SpannedBy
<1>2. Square(new[i]) = Square(items[i])
  <2>. HIDE DEF Square
  <2>. QED  BY Zenon
<1>. QED  BY <1>1, <1>2 DEF Others

LEMMA HidesDoes ==
    ASSUME NEW s \in Size, NEW n \in Nat, NEW items \in [0 .. n - 1 -> Item], Cells(s) <= n,
           NEW k \in 0 .. n - 1, NEW cells,
           cells = (IF items[k].visible THEN Others(s, items, k) ELSE {}),
           HiddenUpTo(s, items, k),
           \A cell \in cells : items[cell].visible
    PROVE  HiddenUpTo(s, Hiding(s, items, k, cells), k + 1)
<1>. DEFINE new == Hiding(s, items, k, cells)
<1>1. DOMAIN new = 0 .. n - 1 /\ DOMAIN items = 0 .. n - 1
  BY DEF Hiding
<1>2. \A cell \in cells : cell \in 0 .. n - 1 /\ k < cell
  <2>1. ASSUME NEW cell \in cells PROVE items[k].visible /\ cell \in Others(s, items, k)
    BY <2>1
  <2>2. items[k].visible => Fits(s, items[k], k)
    BY DEF HiddenUpTo
  <2>. QED  BY <2>1, <2>2, OthersAreLater, CellsOf DEF Grid
<1>3. \A cell \in 0 .. n - 1 :
        new[cell] = IF cell \in cells THEN Behind(s, k, cell) ELSE items[cell]
  BY DEF Hiding
<1>4. \A i \in 0 .. n - 1 : new[i].visible => items[i] = new[i]
  BY <1>3, BehindIsHidden
<1>5. \A i \in 0 .. n - 1 : items[i].visible /\ i <= k => new[i] = items[i]
  BY <1>2, <1>3
<1>6. \A i \in 0 .. n - 1 : new[i] = items[i] => Others(s, new, i) = Others(s, items, i)
  BY SameSpan
<1>7. ASSUME NEW i \in DOMAIN new, new[i].visible PROVE Fits(s, new[i], i)
  BY <1>1, <1>4, <1>7 DEF HiddenUpTo
<1>8. ASSUME NEW i \in DOMAIN new, i < k + 1, new[i].visible,
             NEW cell \in Others(s, new, i)
      PROVE  new[cell] = Behind(s, i, cell)
  <2>1. new[i] = items[i] /\ cell \in Others(s, items, i) /\ i \in 0 .. n - 1
    BY <1>1, <1>4, <1>6, <1>8
  <2>2. cell \in 0 .. n - 1
    BY <1>7, <1>8, OthersAreLater, CellsOf, <2>1 DEF Grid
  <2>3. CASE i = k
    BY <1>3, <1>8, <2>1, <2>2, <2>3
  <2>4. CASE i < k
    <3>1. items[cell] = Behind(s, i, cell)
      BY <1>1, <1>8, <2>1, <2>4 DEF HiddenUpTo
    <3>2. cell \notin cells
      BY <3>1 DEF Behind
    <3>. QED  BY <1>3, <2>2, <3>1, <3>2
  <2>. QED  BY <1>8, <2>1, <2>3, <2>4
<1>9. ASSUME NEW cell \in DOMAIN new, ~new[cell].visible
      PROVE  \E i \in DOMAIN new : i < k + 1 /\ new[i].visible /\ cell \in Others(s, new, i)
  <2>1. CASE cell \in cells
    <3>1. items[k].visible /\ cell \in Others(s, items, k)
      BY <2>1
    <3>. QED  BY <1>1, <1>5, <1>6, <3>1
  <2>2. CASE cell \notin cells
    <3>1. ~items[cell].visible
      BY <1>1, <1>3, <1>9, <2>2
    <3>2. PICK i \in 0 .. n - 1 : i < k /\ items[i].visible /\ cell \in Others(s, items, i)
      BY <1>1, <1>9, <3>1 DEF HiddenUpTo
    <3>. QED  BY <1>1, <1>5, <1>6, <3>2
  <2>. QED  BY <2>1, <2>2
<1>. QED  BY <1>7, <1>8, <1>9 DEF HiddenUpTo

LEMMA ReturnsNormal ==
    ASSUME NEW s, NEW n \in Nat, NEW items \in [0 .. n - 1 -> Item], NEW k \in Nat \ (0 .. n - 1),
           HiddenUpTo(s, items, k)
    PROVE  Normal(s, items)
<1>1. \A i \in DOMAIN items : i < k
  OBVIOUS
<1>. QED  BY <1>1 DEF HiddenUpTo, Normal

-----------------------------------------------------------------------------
(***************************************************************************)
(* Items in normal form, normalized again.                                 *)
(***************************************************************************)
LEMMA OneInFront ==
    ASSUME NEW s \in Size, NEW i \in Nat, NEW j \in Nat, NEW cell \in Nat,
           Behind(s, i, cell) = Behind(s, j, cell)
    PROVE  i = j
<1>1. /\ Column(s, i) - Column(s, cell) = Column(s, j) - Column(s, cell)
      /\ Row(s, i) - Row(s, cell) = Row(s, j) - Row(s, cell)
  BY DEF Behind
<1>2. /\ Column(s, i) \in Int /\ Column(s, j) \in Int /\ Column(s, cell) \in Int
      /\ Row(s, i) \in Int /\ Row(s, j) \in Int /\ Row(s, cell) \in Int
  BY Coordinates
<1>. QED  BY <1>1, <1>2, SameCell

LEMMA BehindIsNarrow ==
    ASSUME NEW s \in Size, NEW items, NEW i \in Nat, Fits(s, items[i], i),
           NEW cell \in SpannedBy(s, items, i)
    PROVE  Behind(s, i, cell).columnSpan <= 0
<1>1. cell \in Nat /\ Column(s, i) <= Column(s, cell)
  BY Reaches
<1>2. Column(s, i) \in Int /\ Column(s, cell) \in Int
  BY <1>1, Coordinates
<1>. QED  BY <1>1, <1>2 DEF Behind

LEMMA AgainFirst ==
    ASSUME NEW s \in Size,
           NEW n \in Nat, NEW items \in [0 .. n - 1 -> Item], Cells(s) <= n,
           NEW m \in Nat, NEW normal \in [0 .. m - 1 -> Item], Cells(s) <= m,
           Normal(s, normal), \A i \in Grid(s) : items[i] = normal[i]
    PROVE  Again(s, Unhidden(s, items), normal, 0)
<1>. DEFINE new == Unhidden(s, items)
<1>1. \A i \in Grid(s) : i \in 0 .. n - 1 /\ i \in 0 .. m - 1 /\ i \in Nat
  BY CellsOf DEF Grid
<1>2. ASSUME NEW i \in Grid(s), normal[i].visible PROVE new[i] = normal[i]
  <2>1. Fits(s, normal[i], i)
    BY <1>1, <1>2 DEF Normal
  <2>2. NormalSpan(s, items, i) = normal[i].columnSpan
    BY <1>1, <2>1, NormalSpanFits
  <2>3. normal[i].rowSpan = normal[i].columnSpan /\ normal[i] \in Item
    BY <1>1, <2>1 DEF Fits
  <2>4. new[i] = [columnSpan |-> normal[i].columnSpan, rowSpan |-> normal[i].columnSpan,
                  visible |-> TRUE]
    BY <1>1, <2>2, UnhiddenItem
  <2>. QED  BY <1>2, <2>3, <2>4 DEF Item
<1>3. ASSUME NEW i \in DOMAIN normal, normal[i].visible, NEW cell \in Others(s, normal, i)
      PROVE  new[cell] = IF i < 0 THEN normal[cell] ELSE NewItem
  <2>1. Fits(s, normal[i], i) /\ normal[cell] = Behind(s, i, cell) /\ i \in Nat
    BY <1>3 DEF Normal
  <2>2. cell \in Grid(s)
    BY <1>3, <2>1, OthersAreLater
  <2>3. items[cell].columnSpan <= 0
    BY <1>3, <2>1, <2>2, BehindIsNarrow DEF Others
  <2>4. items[cell] \in Item /\ cell \in 0 .. n - 1
    BY <1>1, <2>2
  <2>5. items[cell].columnSpan <= 1 /\ cell \in Nat
    BY <2>3, <2>4 DEF Item
  <2>. NormalSpan(s, items, cell) = 1
    BY <2>4, <2>5, NormalSpanFits
  <2>6. new[cell] = NewItem
    BY <2>4, UnhiddenItem DEF NewItem
  <2>. QED  BY <2>1, <2>6
<1>. QED  BY <1>2, <1>3 DEF Again

\* What the second loop meets at item k is what was given.
LEMMA AgainMeets ==
    ASSUME NEW s \in Size,
           NEW n \in Nat, NEW items \in [0 .. n - 1 -> Item], Cells(s) <= n,
           NEW m \in Nat, NEW normal \in [0 .. m - 1 -> Item], Cells(s) <= m,
           Normal(s, normal), NEW k \in 0 .. n - 1,
           HiddenUpTo(s, items, k), Again(s, items, normal, k),
           items[k].visible, NEW cell \in Others(s, items, k)
    PROVE  /\ k \in 0 .. m - 1 /\ normal[k].visible /\ cell \in Others(s, normal, k)
           /\ cell \in Grid(s) /\ items[cell] = NewItem
<1>1. Fits(s, items[k], k)
  BY DEF HiddenUpTo
<1>2. cell \in Grid(s) /\ k < cell
  BY <1>1, OthersAreLater
<1>3. k \in Grid(s) /\ k \in 0 .. m - 1
  BY <1>2, CellsOf DEF Grid
<1>4. normal[k].visible
  <2>1. SUFFICES ASSUME ~normal[k].visible PROVE FALSE
    OBVIOUS
  <2>2. PICK o \in 0 .. m - 1 : normal[o].visible /\ k \in Others(s, normal, o)
    BY <1>3, <2>1 DEF Normal
  <2>3. Fits(s, normal[o], o)
    BY <2>2 DEF Normal
  <2>4. o < k
    BY <2>2, <2>3, OthersAreLater
  <2>5. items[k] = normal[k]
    BY <2>2, <2>4 DEF Again
  <2>. QED  BY <2>1, <2>5
<1>5. items[k] = normal[k]
  BY <1>3, <1>4 DEF Again
<1>6. cell \in Others(s, normal, k)
  BY <1>5, SameSpan
<1>7. items[cell] = NewItem
  BY <1>3, <1>4, <1>6 DEF Again
<1>. QED  BY <1>2, <1>3, <1>4, <1>6, <1>7

LEMMA AgainHides ==
    ASSUME NEW s \in Size,
           NEW n \in Nat, NEW items \in [0 .. n - 1 -> Item], Cells(s) <= n,
           NEW m \in Nat, NEW normal \in [0 .. m - 1 -> Item], Cells(s) <= m,
           Normal(s, normal), NEW k \in 0 .. n - 1,
           HiddenUpTo(s, items, k), Again(s, items, normal, k),
           NEW cells, cells = (IF items[k].visible THEN Others(s, items, k) ELSE {})
    PROVE  Again(s, Hiding(s, items, k, cells), normal, k + 1)
<1>. DEFINE new == Hiding(s, items, k, cells)
<1>1. ASSUME NEW cell \in cells
      PROVE  /\ k \in 0 .. m - 1 /\ normal[k].visible /\ cell \in Others(s, normal, k)
             /\ cell \in Grid(s) /\ normal[cell] = Behind(s, k, cell)
  <2>1. items[k].visible /\ cell \in Others(s, items, k)
    BY <1>1
  <2>2. /\ k \in 0 .. m - 1 /\ normal[k].visible /\ cell \in Others(s, normal, k)
        /\ cell \in Grid(s)
    BY <2>1, AgainMeets
  <2>. QED  BY <2>2 DEF Normal
<1>2. \A i \in Grid(s) : i \in 0 .. n - 1 /\ i \in Nat
  BY CellsOf DEF Grid
<1>3. \A cell \in Grid(s) :
        new[cell] = IF cell \in cells THEN Behind(s, k, cell) ELSE items[cell]
  BY <1>2 DEF Hiding
<1>4. ASSUME NEW i \in Grid(s), normal[i].visible PROVE new[i] = normal[i]
  <2>1. i \notin cells
    BY <1>1, <1>4, BehindIsHidden
  <2>. QED  BY <1>3, <1>4, <2>1 DEF Again
<1>5. ASSUME NEW i \in DOMAIN normal, normal[i].visible, NEW cell \in Others(s, normal, i)
      PROVE  new[cell] = IF i < k + 1 THEN normal[cell] ELSE NewItem
  <2>1. Fits(s, normal[i], i) /\ normal[cell] = Behind(s, i, cell) /\ i \in Nat
    BY <1>5 DEF Normal
  <2>2. cell \in Grid(s) /\ i < cell /\ cell \in Nat
    BY <1>2, <1>5, <2>1, OthersAreLater
  <2>3. CASE i = k
    <3>1. k \in Grid(s)
      BY <2>1, <2>2, <2>3, CellsOf DEF Grid
    <3>2. items[k] = normal[k]
      BY <1>5, <2>3, <3>1 DEF Again
    <3>3. cell \in cells
      BY <1>5, <2>3, <3>2, SameSpan
    <3>. QED  BY <1>3, <2>1, <2>2, <2>3, <3>3
  <2>4. CASE i # k
    <3>1. cell \notin cells
      BY <1>1, <2>1, <2>2, <2>4, OneInFront
    <3>2. new[cell] = items[cell]
      BY <1>3, <2>2, <3>1
    <3>3. items[cell] = IF i < k THEN normal[cell] ELSE NewItem
      BY <1>5 DEF Again
    <3>4. i < k + 1 <=> i < k
      BY <2>1, <2>4
    <3>. QED  BY <3>2, <3>3, <3>4
  <2>. QED  BY <2>3, <2>4
<1>. QED  BY <1>4, <1>5 DEF Again

LEMMA AgainReturns ==
    ASSUME NEW s \in Size, NEW n \in Nat, Cells(s) <= n, NEW items,
           NEW m \in Nat, NEW normal \in [0 .. m - 1 -> Item], Cells(s) <= m,
           Normal(s, normal), NEW k \in Nat, n <= k, Again(s, items, normal, k)
    PROVE  \A i \in Grid(s) : items[i] = normal[i]
<1>. SUFFICES ASSUME NEW i \in Grid(s), ~normal[i].visible PROVE items[i] = normal[i]
  BY DEF Again
<1>1. i \in 0 .. m - 1 /\ i < n
  BY CellsOf DEF Grid
<1>2. PICK o \in 0 .. m - 1 : normal[o].visible /\ i \in Others(s, normal, o)
  BY <1>1 DEF Normal
<1>3. Fits(s, normal[o], o)
  BY <1>2 DEF Normal
<1>4. o < i
  BY <1>2, <1>3, OthersAreLater
<1>5. o < k
  BY <1>1, <1>4
<1>. QED  BY <1>2, <1>5 DEF Again

-----------------------------------------------------------------------------
(***************************************************************************)
(* The steps.                                                              *)
(***************************************************************************)
LEMMA SizesOf ==
    ASSUME LayoutTypeOK
    PROVE  size \in Size /\ saved.size \in Size /\ \A s \in Sizes : s \in Size
  BY SizesAssumption DEF LayoutTypeOK, Size

LEMMA ItemsAre ==
    ASSUME LayoutTypeOK
    PROVE  /\ \E n \in Nat : Cells(size) <= n /\ m_items \in [0 .. n - 1 -> Item]
           /\ \E n \in Nat : Cells(saved.size) <= n /\ saved.items \in [0 .. n - 1 -> Item]
  BY Counted DEF LayoutTypeOK

\* The hidden cells of a step of the second loop, as functions of the items.
LEMMA CoveredIs ==
    /\ \A i : Covered(i) = IF m_items[i].visible THEN Others(size, m_items, i) ELSE {}
    /\ \A i, cells : HiddenBehind(i, cells) = Hiding(size, m_items, i, cells)
  BY DEF Covered, Others, HiddenBehind, Hiding, Behind

Callers == {"editing", "sizing", "growing", "loading"}

LEMMA NormalizeIsCalled ==
    ASSUME LayoutTypeOK, LayoutInv, at = "rest",
           NEW s \in Sizes, NEW n \in Nat, NEW items \in [0 .. n - 1 -> Item], NEW who \in Callers,
           who # "editing" => s = saved.size,
           who = "loading" => Cells(s) <= n /\ \A i \in Grid(s) : items[i] = saved.items[i],
           Normalize(s, items, who)
    PROVE  LayoutTypeOK' /\ LayoutInv'
<1>1. s \in Size /\ ItemsOf(s, Grown(items, 0 .. Cells(s) - 1))
  BY SizesOf, GrownItems
<1>2. LayoutTypeOK'
  BY <1>1 DEF LayoutTypeOK, Normalize, Callers
<1>3. ASSUME who = "loading", NEW i \in Grid(s)
      PROVE  Grown(items, 0 .. Cells(s) - 1)[i] = saved.items[i]
  <2>1. i \in 0 .. n - 1
    BY <1>1, <1>3, CellsOf DEF Grid
  <2>. QED  BY <1>3, <2>1 DEF Grown, Over
<1>4. LayoutInv'
  BY <1>3 DEF LayoutInv, Normalize
<1>. QED  BY <1>2, <1>4

LEMMA SetSizeKeeps ==
    ASSUME LayoutTypeOK, LayoutInv, NEW s \in Sizes, SetSize(s)
    PROVE  LayoutTypeOK' /\ LayoutInv'
  BY ItemsAre, NormalizeIsCalled DEF SetSize, AtRest, Callers

LEMMA MergeCellsKeeps ==
    ASSUME LayoutTypeOK, LayoutInv, NEW i \in Viewports, NEW j \in Viewports, MergeCells(i, j)
    PROVE  LayoutTypeOK' /\ LayoutInv'
<1>1. PICK n \in Nat : Cells(size) <= n /\ m_items \in [0 .. n - 1 -> Item]
  BY ItemsAre
<1>. DEFINE sel == Selection(i, j)
            width == sel.right - sel.left
            topLeft == DataIndex(size, sel.left, sel.top)
            span == IF m_items[topLeft].columnSpan > 1 \/ m_items[topLeft].rowSpan > 1
                    THEN 1 ELSE width
            items == [m_items EXCEPT ![topLeft] = Spanning(@, span)]
<1>2. i \in 0 .. n - 1 /\ j \in 0 .. n - 1 /\ i \in Nat /\ j \in Nat
  BY <1>1, SizesOf, CellsOf DEF Viewports
<1>3. Column(size, i) \in Int /\ Column(size, j) \in Int
  BY <1>2, SizesOf, Coordinates
<1>4. m_items[i].columnSpan \in Int /\ m_items[j].columnSpan \in Int
  BY <1>1, <1>2 DEF Item
<1>5. sel.right \in Int /\ sel.left \in Int
  BY <1>3, <1>4 DEF Selection, Least, Greatest
<1>6. span \in Int
  BY <1>5
<1>. HIDE DEF span, topLeft
<1>7. items \in [0 .. n - 1 -> Item]
  BY <1>1, <1>6 DEF Spanning, Item
<1>8. Normalize(size, items, "editing") /\ at = "rest" /\ size \in Sizes
  BY DEF MergeCells, AtRest, LayoutTypeOK, span, topLeft
<1>. HIDE DEF items
<1>. QED  BY <1>7, <1>8, NormalizeIsCalled DEF Callers

LEMMA LoadingKeeps ==
    ASSUME LayoutTypeOK, LayoutInv, FromJSValue \/ LoadsAppended \/ GrowsItems \/ SetsItems
    PROVE  LayoutTypeOK' /\ LayoutInv'
<1>1. PICK n \in Nat : Cells(size) <= n /\ m_items \in [0 .. n - 1 -> Item]
  BY ItemsAre
<1>2. PICK m \in Nat : Cells(saved.size) <= m /\ saved.items \in [0 .. m - 1 -> Item]
  BY ItemsAre
<1>3. at = "rest" /\ size \in Sizes /\ saved.size \in Sizes
  BY DEF FromJSValue, LoadsAppended, GrowsItems, SetsItems, AtRest, LayoutTypeOK
<1>4. CASE Normalize(saved.size, m_items, "sizing")
  BY <1>1, <1>3, <1>4, NormalizeIsCalled DEF Callers
<1>5. CASE Normalize(size, Grown(m_items, DOMAIN saved.items), "growing") /\ size = saved.size
  <2>1. [i \in DOMAIN saved.items |-> NewItem] \in [0 .. m - 1 -> Item]
    BY <1>2 DEF NewItem, Item
  <2>2. PICK k \in Nat : Grown(m_items, DOMAIN saved.items) \in [0 .. k - 1 -> Item]
    BY <1>1, <2>1, MoreItems DEF Grown
  <2>. QED  BY <1>3, <1>5, <2>2, NormalizeIsCalled DEF Callers
<1>6. CASE Normalize(size, Over(saved.items, m_items), "loading") /\ size = saved.size
  <2>1. PICK k \in Nat : m <= k /\ Over(saved.items, m_items) \in [0 .. k - 1 -> Item]
    BY <1>1, <1>2, MoreItems
  <2>2. Cells(size) <= k
    BY <1>2, <1>6, <2>1, SizesOf, CellsOf
  <2>3. ASSUME NEW i \in Grid(size) PROVE Over(saved.items, m_items)[i] = saved.items[i]
    <3>1. i \in DOMAIN saved.items
      BY <1>2, <1>6, SizesOf, CellsOf DEF Grid
    <3>. QED  BY <3>1 DEF Over
  <2>. QED  BY <1>3, <1>6, <2>1, <2>2, <2>3, NormalizeIsCalled DEF Callers
<1>7. CASE Normalize(saved.size, << >>, "sizing")
  <2>1. << >> \in [0 .. 0 - 1 -> Item]
    OBVIOUS
  <2>. QED  BY <1>3, <1>7, <2>1, NormalizeIsCalled DEF Callers
<1>. QED  BY <1>4, <1>5, <1>6, <1>7 DEF FromJSValue, LoadsAppended, GrowsItems, SetsItems, LayoutInv

LEMMA ToJSValueKeeps ==
    ASSUME LayoutTypeOK, LayoutInv, ToJSValue
    PROVE  LayoutTypeOK' /\ LayoutInv'
<1>1. saved'.size = size /\ saved'.items = m_items
  BY DEF ToJSValue, Saved
<1>2. LayoutTypeOK'
  BY <1>1 DEF LayoutTypeOK, ToJSValue
<1>3. LayoutInv'
  BY <1>1 DEF LayoutInv, ToJSValue, AtRest
<1>. QED  BY <1>2, <1>3

LEMMA UnhidesKeeps ==
    ASSUME LayoutTypeOK, LayoutInv, Unhides
    PROVE  LayoutTypeOK' /\ LayoutInv'
<1>1. PICK n \in Nat : Cells(size) <= n /\ m_items \in [0 .. n - 1 -> Item]
  BY ItemsAre
<1>2. PICK m \in Nat : Cells(saved.size) <= m /\ saved.items \in [0 .. m - 1 -> Item]
  BY ItemsAre
<1>3. m_items' = Unhidden(size, m_items) /\ size \in Size
  BY SizesOf DEF Unhides, Unhidden
<1>4. m_items' \in [0 .. n - 1 -> Item] /\ HiddenUpTo(size, m_items', 0)
  BY <1>1, <1>3, UnhidesDoes
<1>5. LayoutTypeOK'
  <2>1. ItemsOf(size, m_items')
    BY <1>1, <1>4, Counted
  <2>. QED  BY <2>1 DEF LayoutTypeOK, Unhides
<1>6. ASSUME caller = "loading" PROVE Again(size, m_items', saved.items, 0)
  <2>1. size = saved.size /\ Normal(size, saved.items) /\ \A i \in Grid(size) : m_items[i] = saved.items[i]
    BY <1>6 DEF LayoutInv, Unhides
  <2>. QED  BY <1>1, <1>2, <1>3, <2>1, AgainFirst
<1>7. LayoutInv'
  BY <1>4, <1>6 DEF LayoutInv, Unhides
<1>. QED  BY <1>5, <1>7

LEMMA HidesKeeps ==
    ASSUME LayoutTypeOK, LayoutInv, Hides
    PROVE  LayoutTypeOK' /\ LayoutInv'
<1>1. PICK n \in Nat : Cells(size) <= n /\ m_items \in [0 .. n - 1 -> Item]
  BY ItemsAre
<1>2. PICK m \in Nat : Cells(saved.size) <= m /\ saved.items \in [0 .. m - 1 -> Item]
  BY ItemsAre
<1>. DEFINE cells == Covered(index)
<1>3. /\ m_items' = Hiding(size, m_items, index, cells) /\ size \in Size
      /\ cells = (IF m_items[index].visible THEN Others(size, m_items, index) ELSE {})
      /\ \A cell \in cells : m_items[cell].visible
      /\ index \in 0 .. n - 1 /\ HiddenUpTo(size, m_items, index)
  BY <1>1, SizesOf, CoveredIs DEF Hides, LayoutInv
<1>. HIDE DEF cells
<1>4. m_items' \in [0 .. n - 1 -> Item]
  BY <1>1, <1>3, HidingType
<1>5. HiddenUpTo(size, m_items', index + 1)
  BY <1>1, <1>3, HidesDoes
<1>6. LayoutTypeOK'
  <2>1. ItemsOf(size, m_items')
    BY <1>1, <1>4, Counted
  <2>. QED  BY <2>1 DEF LayoutTypeOK, Hides
<1>7. ASSUME caller = "loading" PROVE Again(size, m_items', saved.items, index + 1)
  <2>1. size = saved.size /\ Normal(size, saved.items) /\ Again(size, m_items, saved.items, index)
    BY <1>7 DEF LayoutInv, Hides
  <2>. QED  BY <1>1, <1>2, <1>3, <2>1, AgainHides
<1>8. LayoutInv'
  BY <1>5, <1>7 DEF LayoutInv, Hides
<1>. QED  BY <1>6, <1>8

LEMMA SpanningItem ==
    ASSUME NEW item \in Item, NEW n \in Int
    PROVE  Spanning(item, n) \in Item
<1>. DEFINE wide == [item EXCEPT !.columnSpan = n]
<1>1. wide \in Item
  BY DEF Item
<1>2. Spanning(item, n) = [wide EXCEPT !.rowSpan = n]
  BY DEF Spanning
<1>. HIDE DEF wide
<1>. QED  BY <1>1, <1>2 DEF Item

LEMMA CollidesKeeps ==
    ASSUME LayoutTypeOK, LayoutInv, Collides
    PROVE  LayoutTypeOK' /\ LayoutInv'
<1>1. PICK n \in Nat : Cells(size) <= n /\ m_items \in [0 .. n - 1 -> Item]
  BY ItemsAre
<1>2. PICK m \in Nat : Cells(saved.size) <= m /\ saved.items \in [0 .. m - 1 -> Item]
  BY ItemsAre
<1>3. /\ size \in Size /\ index \in 0 .. n - 1 /\ HiddenUpTo(size, m_items, index)
  BY <1>1, SizesOf DEF Collides, LayoutInv
<1>4. PICK hidden \in Covered(index) :
        LET before == {cell \in Covered(index) : cell < hidden}
        IN  /\ ~m_items[hidden].visible
            /\ m_items' = [HiddenBehind(index, before) EXCEPT ![index] = Spanning(@, 1)]
  BY DEF Collides
<1>. DEFINE before == {cell \in Covered(index) : cell < hidden}
            hid == Hiding(size, m_items, index, before)
<1>5. m_items' = [hid EXCEPT ![index] = Spanning(@, 1)]
  BY <1>4, CoveredIs
<1>6. m_items' \in [0 .. n - 1 -> Item]
  <2>1. hid \in [0 .. n - 1 -> Item]
    BY <1>1, <1>3, HidingType
  <2>. HIDE DEF hid
  <2>2. Spanning(hid[index], 1) \in Item
    BY <1>3, <2>1, SpanningItem
  <2>. QED  BY <1>3, <1>5, <2>1, <2>2
<1>7. LayoutTypeOK'
  <2>1. ItemsOf(size, m_items')
    BY <1>1, <1>6, Counted
  <2>. QED  BY <2>1 DEF LayoutTypeOK, Collides
<1>8. caller # "loading"
  <2>. SUFFICES ASSUME caller = "loading" PROVE FALSE
    OBVIOUS
  <2>1. size = saved.size /\ Normal(size, saved.items) /\ Again(size, m_items, saved.items, index)
    BY DEF LayoutInv, Collides
  <2>2. m_items[index].visible /\ hidden \in Others(size, m_items, index)
    BY CoveredIs
  <2>3. m_items[hidden] = NewItem
    BY <1>1, <1>2, <1>3, <2>1, <2>2, AgainMeets
  <2>. QED  BY <1>4, <2>3 DEF NewItem
<1>9. LayoutInv'
  BY <1>8 DEF LayoutInv, Collides
<1>. QED  BY <1>7, <1>9

LEMMA ReturnsKeeps ==
    ASSUME LayoutTypeOK, LayoutInv, Returns
    PROVE  LayoutTypeOK' /\ LayoutInv'
<1>1. PICK n \in Nat : Cells(size) <= n /\ m_items \in [0 .. n - 1 -> Item]
  BY ItemsAre
<1>2. PICK m \in Nat : Cells(saved.size) <= m /\ saved.items \in [0 .. m - 1 -> Item]
  BY ItemsAre
<1>3. size \in Size /\ index \in Nat \ (0 .. n - 1) /\ n <= index /\ HiddenUpTo(size, m_items, index)
  BY <1>1, SizesOf DEF Returns, LayoutInv, LayoutTypeOK
<1>4. Normal(size, m_items)
  BY <1>1, <1>3, ReturnsNormal
<1>5. ASSUME caller = "loading" PROVE \A i \in Grid(size) : m_items[i] = saved.items[i]
  <2>1. size = saved.size /\ Normal(size, saved.items) /\ Again(size, m_items, saved.items, index)
    BY <1>5 DEF LayoutInv, Returns
  <2>. QED  BY <1>1, <1>2, <1>3, <2>1, AgainReturns
<1>6. LayoutTypeOK'
  BY DEF LayoutTypeOK, Returns
<1>7. LayoutInv'
  BY <1>4, <1>5 DEF LayoutInv, Returns
<1>. QED  BY <1>6, <1>7

\* A layout of items that are all shown as they come.
LEMMA FirstItemsAreNormal ==
    ASSUME NEW s \in Size
    PROVE  ItemsOf(s, FirstItems(s)) /\ Normal(s, FirstItems(s))
<1>. DEFINE n == Cells(s)
            items == FirstItems(s)
<1>1. n \in Nat /\ 0 .. 0 - 1 = {}
  BY CellsOf
<1>2. items = [i \in 0 .. n - 1 |-> NewItem]
  BY DEF FirstItems, Grown, Over
<1>. HIDE DEF n, items
<1>3. items \in [0 .. n - 1 -> Item]
  BY <1>2 DEF NewItem, Item
<1>4. ItemsOf(s, items)
  BY <1>1, <1>3, Counted DEF n
<1>5. ASSUME NEW i \in DOMAIN items
      PROVE  items[i].visible /\ Fits(s, items[i], i) /\ Others(s, items, i) = {}
  <2>1. i \in Nat /\ items[i] = NewItem
    BY <1>2, <1>5
  <2>2. Fits(s, items[i], i) /\ items[i].visible
    BY <2>1 DEF Fits, NewItem
  <2>3. \A cell \in Others(s, items, i) : items[i].columnSpan > 1
    BY <2>1, <2>2, OnlyWideReaches
  <2>. QED  BY <2>1, <2>2, <2>3 DEF NewItem
<1>6. Normal(s, items)
  BY <1>5 DEF Normal
<1>. QED  BY <1>4, <1>6 DEF items

LEMMA NewLayoutKeeps ==
    ASSUME LayoutTypeOK, LayoutInv, NEW s \in Sizes, NewLayout(s)
    PROVE  LayoutTypeOK' /\ LayoutInv'
<1>1. ItemsOf(s, FirstItems(s)) /\ Normal(s, FirstItems(s))
  BY SizesOf, FirstItemsAreNormal
<1>2. /\ size' = s /\ m_items' = FirstItems(s) /\ caller' = "editing" /\ at = "rest"
      /\ UNCHANGED <<saved, at, index>>
  BY DEF NewLayout, AtRest
<1>3. LayoutTypeOK'
  BY <1>1, <1>2 DEF LayoutTypeOK
<1>4. LayoutInv'
  BY <1>1, <1>2 DEF LayoutInv
<1>. QED  BY <1>3, <1>4

LEMMA InitLayout == LayoutInit => LayoutTypeOK /\ LayoutInv
<1>. SUFFICES ASSUME LayoutInit PROVE LayoutTypeOK /\ LayoutInv
  OBVIOUS
<1>1. size \in Size /\ size \in Sizes
  BY SizesAssumption DEF LayoutInit, Size
<1>2. ItemsOf(size, m_items) /\ Normal(size, m_items)
  BY <1>1, FirstItemsAreNormal DEF LayoutInit
<1>3. saved.size = size /\ saved.items = m_items
  BY DEF LayoutInit, Saved
<1>4. LayoutTypeOK
  BY <1>1, <1>2, <1>3 DEF LayoutInit, LayoutTypeOK
<1>. QED  BY <1>2, <1>3, <1>4 DEF LayoutInv, LayoutInit

LEMMA NextLayout ==
    LayoutTypeOK /\ LayoutInv /\ [LayoutNext]_layoutVars => LayoutTypeOK' /\ LayoutInv'
<1>. SUFFICES ASSUME LayoutTypeOK, LayoutInv, [LayoutNext]_layoutVars
              PROVE  LayoutTypeOK' /\ LayoutInv'
  OBVIOUS
<1>1. CASE \E s \in Sizes : SetSize(s) \/ NewLayout(s)
  BY <1>1, SetSizeKeeps, NewLayoutKeeps
<1>2. CASE \E i, j \in Viewports : MergeCells(i, j)
  BY <1>2, MergeCellsKeeps
<1>3. CASE ToJSValue
  BY <1>3, ToJSValueKeeps
<1>4. CASE FromJSValue \/ LoadsAppended \/ GrowsItems \/ SetsItems
  BY <1>4, LoadingKeeps
<1>5. CASE Unhides
  BY <1>5, UnhidesKeeps
<1>6. CASE Hides
  BY <1>6, HidesKeeps
<1>7. CASE Collides
  BY <1>7, CollidesKeeps
<1>8. CASE Returns
  BY <1>8, ReturnsKeeps
<1>9. CASE UNCHANGED layoutVars
  BY <1>9 DEF layoutVars, LayoutTypeOK, LayoutInv
<1>. QED
  BY <1>1, <1>2, <1>3, <1>4, <1>5, <1>6, <1>7, <1>8, <1>9 DEF LayoutNext, NormalizeStep

LEMMA LayoutIsKept == LayoutSpec => [](LayoutTypeOK /\ LayoutInv)
BY InitLayout, NextLayout, PTL DEF LayoutSpec

(***************************************************************************)
(* Whatever sizes layouts are given: the items are numbered without a gap, *)
(* and there is one for each cell that is shown or saved.                  *)
(***************************************************************************)
THEOREM LayoutTypes == LayoutSpec => []LayoutTypeOK
BY LayoutIsKept, PTL

-----------------------------------------------------------------------------
(***************************************************************************)
(* What is shown.                                                          *)
(***************************************************************************)
LEMMA NormalIsDrawn == LayoutTypeOK /\ LayoutInv => EveryCellIsDrawnOnce
<1>. SUFFICES ASSUME LayoutTypeOK, LayoutInv, at = "rest" PROVE EveryCellIsDrawnOnce
  BY DEF EveryCellIsDrawnOnce
<1>1. PICK n \in Nat : Cells(size) <= n /\ m_items \in [0 .. n - 1 -> Item]
  BY ItemsAre
<1>2. size \in Size /\ Normal(size, m_items)
  BY SizesOf DEF LayoutInv
<1>3. \A i \in Grid(size) : i \in 0 .. n - 1 /\ i \in Nat
  BY <1>1, <1>2, CellsOf DEF Grid
<1>4. ASSUME NEW i \in Viewports
      PROVE  i \in Grid(size) /\ m_items[i].visible /\ Fits(size, m_items[i], i)
  BY <1>1, <1>2, <1>3 DEF Viewports, Grid, Normal
<1>5. ASSUME NEW i \in Viewports
      PROVE  /\ Column(size, i) + m_items[i].columnSpan <= size.columns
             /\ Row(size, i) + m_items[i].rowSpan <= size.rows
  <2>1. i \in Nat /\ i < Cells(size) /\ Fits(size, m_items[i], i)
    BY <1>3, <1>4, <1>2, CellsOf DEF Grid
  <2>2. Column(size, i) \in 0 .. size.columns - 1 /\ Row(size, i) \in Nat /\ Row(size, i) < size.rows
    BY <1>2, <2>1, Coordinates, RowInGrid
  <2>3. CASE m_items[i].columnSpan > 1
    BY <2>1, <2>3 DEF Fits
  <2>4. CASE m_items[i].columnSpan = 1
    BY <1>2, <2>1, <2>2, <2>4 DEF Fits, Size
  <2>. QED  BY <2>1, <2>3, <2>4 DEF Fits
<1>6. ASSUME NEW i \in Viewports, NEW cell \in SpannedBy(size, m_items, i), i # cell
      PROVE  m_items[cell] = Behind(size, i, cell)
  BY <1>1, <1>2, <1>3, <1>4, <1>6 DEF Normal, Others
<1>7. ASSUME NEW cell \in Grid(size)
      PROVE  LET item == m_items[cell]
                 owner == IF item.visible THEN cell
                          ELSE DataIndex(size, Column(size, cell) + item.columnSpan,
                                         Row(size, cell) + item.rowSpan)
             IN  {i \in Viewports : cell \in SpannedBy(size, m_items, i)} = {owner}
  <2>1. CASE m_items[cell].visible
    <3>1. cell \in Viewports
      BY <1>7, <2>1 DEF Viewports, Grid
    <3>2. cell \in SpannedBy(size, m_items, cell)
      <4>1. Fits(size, m_items[cell], cell) /\ cell \in Nat
        BY <1>3, <1>4, <3>1
      <4>. QED  BY <1>2, <4>1, ReachesItself
    <3>3. ASSUME NEW i \in Viewports, cell \in SpannedBy(size, m_items, i) PROVE i = cell
      BY <1>6, <2>1, <3>3, BehindIsHidden
    <3>. QED  BY <2>1, <3>1, <3>2, <3>3
  <2>2. CASE ~m_items[cell].visible
    <3>1. PICK i \in 0 .. n - 1 : m_items[i].visible /\ cell \in Others(size, m_items, i)
      BY <1>1, <1>2, <1>3, <2>2 DEF Normal
    <3>2. Fits(size, m_items[i], i) /\ m_items[cell] = Behind(size, i, cell) /\ i \in Nat
      BY <1>1, <1>2, <3>1 DEF Normal
    <3>3. i < cell /\ cell \in Nat
      BY <1>2, <1>3, <3>1, <3>2, OthersAreLater
    <3>4. i \in Viewports
      BY <1>2, <3>1, <3>2, <3>3, CellsOf DEF Viewports, Grid
    <3>5. ASSUME NEW j \in Viewports, cell \in SpannedBy(size, m_items, j) PROVE j = i
      <4>1. j # cell /\ j \in Nat
        BY <1>3, <1>4, <2>2
      <4>2. m_items[cell] = Behind(size, j, cell)
        BY <1>6, <3>5, <4>1
      <4>. QED  BY <1>2, <3>2, <3>3, <4>1, <4>2, OneInFront
    <3>6. {j \in Viewports : cell \in SpannedBy(size, m_items, j)} = {i}
      BY <3>1, <3>4, <3>5 DEF Others
    <3>7. DataIndex(size, Column(size, cell) + m_items[cell].columnSpan,
                    Row(size, cell) + m_items[cell].rowSpan) = i
      <4>1. /\ Column(size, cell) \in Int /\ Row(size, cell) \in Int
            /\ Column(size, i) \in Int /\ Row(size, i) \in Int
            /\ i = DataIndex(size, Column(size, i), Row(size, i))
        BY <1>2, <3>2, <3>3, Coordinates
      <4>2. /\ Column(size, cell) + m_items[cell].columnSpan = Column(size, i)
            /\ Row(size, cell) + m_items[cell].rowSpan = Row(size, i)
        BY <3>2, <4>1 DEF Behind
      <4>. QED  BY <4>1, <4>2
    <3>. QED  BY <2>2, <3>6, <3>7
  <2>. QED  BY <2>1, <2>2
<1>. QED  BY <1>5, <1>7 DEF EveryCellIsDrawnOnce, Grid

(***************************************************************************)
(* In a grid of any size, whatever was merged, split, resized and loaded:  *)
(* each cell is drawn by one viewport, inside the grid, to which the item  *)
(* of the cell leads.                                                      *)
(***************************************************************************)
THEOREM LayoutIsDrawn == LayoutSpec => []EveryCellIsDrawnOnce
BY LayoutIsKept, NormalIsDrawn, PTL

(***************************************************************************)
(* A layout of any size, saved at any time, is shown as it was saved when  *)
(* it is loaded over whatever is shown by then.                            *)
(***************************************************************************)
THEOREM LayoutIsRestored == LayoutSpec => []SavedLayoutIsRestored
<1>1. LayoutTypeOK /\ LayoutInv => SavedLayoutIsRestored
  BY DEF LayoutInv, SavedLayoutIsRestored, Grid
<1>. QED  BY <1>1, LayoutIsKept, PTL

-----------------------------------------------------------------------------
(***************************************************************************)
(* The restarts.                                                           *)
(***************************************************************************)
LEMMA NextNarrows ==
    LayoutTypeOK /\ LayoutInv /\ [LayoutNext]_layoutVars =>
        [at # "rest" => /\ Wide' \subseteq Wide
                        /\ at' = "unhiding" => Wide' # Wide]_layoutVars
<1>. SUFFICES ASSUME LayoutTypeOK, LayoutInv, LayoutNext, at # "rest"
              PROVE  Wide' \subseteq Wide /\ (at' = "unhiding" => Wide' # Wide)
  OBVIOUS
<1>1. PICK n \in Nat : Cells(size) <= n /\ m_items \in [0 .. n - 1 -> Item]
  BY ItemsAre
<1>2. size \in Size
  BY SizesOf
<1>3. CASE Unhides
  <2>1. m_items' = Unhidden(size, m_items) /\ DOMAIN m_items' = 0 .. n - 1
    BY <1>1, <1>3 DEF Unhides, Unhidden
  <2>2. ASSUME NEW i \in 0 .. n - 1, m_items'[i].columnSpan > 1 PROVE m_items[i].columnSpan > 1
    <3>. DEFINE span == NormalSpan(size, m_items, i)
    <3>0. Unhidden(size, m_items)[i] = [columnSpan |-> span, rowSpan |-> span, visible |-> TRUE]
      BY <1>1, <1>2, UnhiddenItem
    <3>1. m_items'[i].columnSpan = span
      BY <2>1, <3>0
    <3>2. m_items[i] \in Item /\ m_items[i].columnSpan \in Int
      BY <1>1 DEF Item
    <3>3. m_items[i].columnSpan <= 1 => NormalSpan(size, m_items, i) = 1
      BY <1>2, <3>2, NormalSpanFits
    <3>. QED  BY <2>2, <3>1, <3>2, <3>3
  <2>. QED  BY <1>1, <1>3, <2>1, <2>2 DEF Wide, Unhides
<1>4. ASSUME NEW cells, cells \subseteq Covered(index), index \in 0 .. n - 1,
             HiddenUpTo(size, m_items, index), NEW i \in 0 .. n - 1,
             Hiding(size, m_items, index, cells)[i].columnSpan > 1
      PROVE  m_items[i].columnSpan > 1
  <2>1. CASE i \in cells
    <3>1. m_items[index].visible /\ i \in SpannedBy(size, m_items, index)
      BY <1>4, <2>1, CoveredIs DEF Others
    <3>2. Fits(size, m_items[index], index) /\ index \in Nat
      BY <1>1, <1>4, <3>1 DEF HiddenUpTo
    <3>3. Behind(size, index, i).columnSpan <= 0
      BY <1>2, <3>1, <3>2, BehindIsNarrow
    <3>4. i \in Nat
      OBVIOUS
    <3>5. Behind(size, index, i).columnSpan \in Int
      BY <1>2, <3>2, <3>4, Coordinates DEF Behind
    <3>6. Behind(size, index, i).columnSpan > 1
      BY <1>1, <1>4, <2>1 DEF Hiding
    <3>. QED  BY <3>3, <3>5, <3>6
  <2>2. CASE i \notin cells
    BY <1>1, <1>4, <2>2 DEF Hiding
  <2>. QED  BY <2>1, <2>2
<1>5. CASE Hides
  <2>1. /\ m_items' = Hiding(size, m_items, index, Covered(index))
        /\ index \in 0 .. n - 1 /\ HiddenUpTo(size, m_items, index) /\ at' = "hiding"
    BY <1>1, <1>5, CoveredIs DEF Hides, LayoutInv
  <2>2. DOMAIN m_items' = 0 .. n - 1
    BY <1>1, <2>1 DEF Hiding
  <2>. QED  BY <1>1, <1>4, <2>1, <2>2 DEF Wide
<1>6. CASE Collides
  <2>1. index \in 0 .. n - 1 /\ HiddenUpTo(size, m_items, index)
    BY <1>1, <1>6 DEF Collides, LayoutInv
  <2>2. PICK hidden \in Covered(index) :
          m_items' = [HiddenBehind(index, {cell \in Covered(index) : cell < hidden})
                        EXCEPT ![index] = Spanning(@, 1)]
    BY <1>6 DEF Collides
  <2>. DEFINE before == {cell \in Covered(index) : cell < hidden}
              hid == Hiding(size, m_items, index, before)
  <2>3. m_items' = [hid EXCEPT ![index] = Spanning(@, 1)] /\ before \subseteq Covered(index)
    BY <2>2, CoveredIs
  <2>4. hid \in [0 .. n - 1 -> Item]
    BY <1>1, <1>2, <2>1, HidingType
  <2>5. \A i \in 0 .. n - 1 : hid[i].columnSpan > 1 => m_items[i].columnSpan > 1
    BY <1>4, <2>1, <2>3
  <2>. HIDE DEF before, hid
  <2>6. DOMAIN m_items' = 0 .. n - 1 /\ m_items'[index].columnSpan = 1
    BY <2>1, <2>3, <2>4 DEF Spanning, Item
  <2>7. \A i \in 0 .. n - 1 : i # index => m_items'[i] = hid[i]
    BY <2>3, <2>4
  <2>8. m_items[index].columnSpan > 1
    <3>1. m_items[index].visible /\ hidden \in Others(size, m_items, index)
      BY CoveredIs
    <3>2. Fits(size, m_items[index], index) /\ index \in Nat
      BY <1>1, <2>1, <3>1 DEF HiddenUpTo
    <3>. QED  BY <1>2, <3>1, <3>2, OnlyWideReaches
  <2>. QED  BY <1>1, <2>1, <2>5, <2>6, <2>7, <2>8 DEF Wide
<1>7. CASE Returns
  BY <1>7 DEF Returns, Wide
<1>8. Unhides \/ Hides \/ Collides \/ Returns
  BY DEF LayoutNext, NormalizeStep, SetSize, NewLayout, MergeCells, ToJSValue, FromJSValue,
         LoadsAppended, AtRest, GrowsItems, SetsItems
<1>. QED  BY <1>3, <1>5, <1>6, <1>7, <1>8

(***************************************************************************)
(* normalize() of a layout of any size and any spans starts over only when *)
(* it has made a wide viewport narrow, and makes none wider: it ends.      *)
(***************************************************************************)
THEOREM LayoutNarrows == LayoutSpec => EachRestartNarrows
<1>1. LayoutTypeOK /\ LayoutInv /\ [LayoutNext]_layoutVars =>
        [at # "rest" => /\ Wide' \subseteq Wide
                        /\ at' = "unhiding" => Wide' # Wide]_layoutVars
  BY NextNarrows
<1>. QED  BY <1>1, LayoutIsKept, PTL DEF LayoutSpec, EachRestartNarrows

-----------------------------------------------------------------------------
(***************************************************************************)
(* What no other span meets.                                               *)
(***************************************************************************)
UntouchedInv ==
    LET asked == Unhidden(size, given)
    IN  /\ at # "rest" => given \in [DOMAIN m_items -> Item]
        /\ at = "unhiding" => \A i \in DOMAIN m_items :
             LET span == NormalSpan(size, m_items, i)
             IN  /\ span \in {1, asked[i].columnSpan}
                 /\ Untouched(size, asked, i) => span = asked[i].columnSpan
        /\ at = "hiding" => \A i \in DOMAIN m_items :
             /\ m_items[i].visible => m_items[i].columnSpan \in {1, asked[i].columnSpan}
             /\ Untouched(size, asked, i) => m_items[i] = asked[i]

LEMMA AskedItem ==
    ASSUME NEW s \in Size, NEW n \in Nat, NEW items \in [0 .. n - 1 -> Item], NEW i \in 0 .. n - 1
    PROVE  LET span == Unhidden(s, items)[i].columnSpan
           IN  /\ Unhidden(s, items)[i] = [columnSpan |-> span, rowSpan |-> span, visible |-> TRUE]
               /\ span = NormalSpan(s, items, i)
               /\ Fits(s, Unhidden(s, items)[i], i)
<1>. DEFINE normal == NormalSpan(s, items, i)
<1>0. Unhidden(s, items)[i] = [columnSpan |-> normal, rowSpan |-> normal, visible |-> TRUE]
  BY UnhiddenItem
<1>1. Unhidden(s, items)[i].columnSpan = normal
  BY <1>0
<1>2. Fits(s, Unhidden(s, items)[i], i)
  BY <1>0, UnhidesDoes DEF HiddenUpTo
<1>. HIDE DEF normal
<1>. QED  BY <1>0, <1>1, <1>2 DEF normal

\* A visible item that reaches others is as wide as it was asked to be.
LEMMA WideAsAsked ==
    ASSUME NEW s \in Size, NEW n \in Nat, NEW items \in [0 .. n - 1 -> Item],
           NEW asked \in [0 .. n - 1 -> Item], NEW k \in 0 .. n - 1,
           Fits(s, items[k], k), items[k].visible,
           asked[k] = [columnSpan |-> asked[k].columnSpan, rowSpan |-> asked[k].columnSpan,
                       visible |-> TRUE],
           items[k].columnSpan \in {1, asked[k].columnSpan},
           NEW cell \in Others(s, items, k)
    PROVE  /\ items[k] = asked[k] /\ asked[k].columnSpan > 1
           /\ cell \in SpannedBy(s, asked, k)
<1>1. items[k].columnSpan > 1 /\ items[k].rowSpan = items[k].columnSpan
  BY OnlyWideReaches DEF Fits
<1>2. items[k].columnSpan = asked[k].columnSpan /\ items[k] \in Item
  BY <1>1
<1>3. items[k] = asked[k]
  BY <1>1, <1>2 DEF Item
<1>4. cell \in Others(s, asked, k)
  BY <1>3, SameSpan
<1>. QED  BY <1>1, <1>3, <1>4 DEF Others

\* So who is hidden, or would be, is not untouched.
LEMMA HidingTouches ==
    ASSUME size \in Size, NEW n \in Nat, NEW items \in [0 .. n - 1 -> Item],
           NEW before \in [0 .. n - 1 -> Item], NEW k \in 0 .. n - 1,
           Fits(size, items[k], k), items[k].visible,
           items[k].columnSpan \in {1, Unhidden(size, before)[k].columnSpan},
           NEW cell \in Others(size, items, k), cell \in 0 .. n - 1
    PROVE  ~Untouched(size, Unhidden(size, before), cell)
<1>. DEFINE asked == Unhidden(size, before)
<1>1. asked \in [0 .. n - 1 -> Item]
  BY UnhidesDoes
<1>2. /\ asked[k] = [columnSpan |-> asked[k].columnSpan, rowSpan |-> asked[k].columnSpan,
                     visible |-> TRUE]
      /\ Fits(size, asked[cell], cell)
  BY AskedItem
<1>. HIDE DEF asked
<1>3. asked[k].columnSpan > 1 /\ cell \in SpannedBy(size, asked, k)
  BY <1>1, <1>2, WideAsAsked DEF asked
<1>4. cell \in SpannedBy(size, asked, cell)
  BY <1>2, ReachesItself
<1>5. k # cell
  BY DEF Others
<1>. QED  BY <1>1, <1>3, <1>4, <1>5 DEF Untouched, asked

LEMMA NormalizeUntouched ==
    ASSUME LayoutTypeOK', NEW s, NEW items, NEW who, Normalize(s, items, who)
    PROVE  UntouchedInv'
<1>1. size' \in Size
  BY SizesAssumption DEF LayoutTypeOK, Size
<1>2. PICK n \in Nat : m_items' \in [0 .. n - 1 -> Item]
  BY Counted DEF LayoutTypeOK
<1>3. given' = m_items' /\ at' = "unhiding"
  BY DEF Normalize
<1>4. ASSUME NEW i \in 0 .. n - 1
      PROVE  Unhidden(size', given')[i].columnSpan = NormalSpan(size', m_items', i)
  BY <1>1, <1>2, <1>3, AskedItem
<1>. QED  BY <1>2, <1>3, <1>4 DEF UntouchedInv

LEMMA UnhidesUntouched ==
    ASSUME LayoutTypeOK, UntouchedInv, Unhides
    PROVE  UntouchedInv'
<1>1. PICK n \in Nat : m_items \in [0 .. n - 1 -> Item]
  BY ItemsAre
<1>. DEFINE asked == Unhidden(size, given)
<1>2. /\ size \in Size /\ given \in [0 .. n - 1 -> Item] /\ given' = given /\ size' = size
      /\ m_items' = Unhidden(size, m_items) /\ at' = "hiding"
  BY <1>1, SizesOf DEF Unhides, UntouchedInv
<1>3. m_items' \in [0 .. n - 1 -> Item]
  BY <1>1, <1>2, UnhidesDoes
<1>4. ASSUME NEW i \in 0 .. n - 1
      PROVE  /\ m_items'[i].columnSpan \in {1, asked[i].columnSpan}
             /\ Untouched(size, asked, i) => m_items'[i] = asked[i]
  <2>. DEFINE span == NormalSpan(size, m_items, i)
  <2>0. Unhidden(size, m_items)[i] = [columnSpan |-> span, rowSpan |-> span, visible |-> TRUE]
    BY <1>1, <1>2, UnhiddenItem
  <2>1. m_items'[i] = [columnSpan |-> span, rowSpan |-> span, visible |-> TRUE]
    BY <1>2, <2>0
  <2>2. asked[i] = [columnSpan |-> asked[i].columnSpan, rowSpan |-> asked[i].columnSpan,
                    visible |-> TRUE]
    BY <1>2, AskedItem
  <2>3. span \in {1, asked[i].columnSpan} /\ (Untouched(size, asked, i) => span = asked[i].columnSpan)
    BY <1>1 DEF UntouchedInv, Unhides
  <2>. HIDE DEF span, asked
  <2>4. m_items'[i].columnSpan = span
    BY <2>1
  <2>5. ASSUME span = asked[i].columnSpan PROVE m_items'[i] = asked[i]
    BY <2>1, <2>2, <2>5, Zenon
  <2>. QED  BY <2>3, <2>4, <2>5
<1>. HIDE DEF asked
<1>. QED  BY <1>1, <1>2, <1>3, <1>4 DEF UntouchedInv, asked

LEMMA HidesUntouched ==
    ASSUME LayoutTypeOK, LayoutInv, UntouchedInv, Hides
    PROVE  UntouchedInv'
<1>1. PICK n \in Nat : m_items \in [0 .. n - 1 -> Item]
  BY ItemsAre
<1>. DEFINE asked == Unhidden(size, given)
            cells == Covered(index)
<1>2. /\ size \in Size /\ given \in [0 .. n - 1 -> Item] /\ given' = given /\ size' = size
      /\ m_items' = Hiding(size, m_items, index, cells) /\ at' = "hiding" /\ index \in 0 .. n - 1
      /\ HiddenUpTo(size, m_items, index)
      /\ cells = (IF m_items[index].visible THEN Others(size, m_items, index) ELSE {})
  BY <1>1, SizesOf, CoveredIs DEF Hides, UntouchedInv, LayoutInv
<1>3. m_items' \in [0 .. n - 1 -> Item]
  BY <1>1, <1>2, HidingType
<1>4. \A i \in 0 .. n - 1 :
        /\ m_items[i].visible => m_items[i].columnSpan \in {1, asked[i].columnSpan}
        /\ Untouched(size, asked, i) => m_items[i] = asked[i]
  BY <1>1 DEF UntouchedInv, Hides
<1>5. ASSUME NEW i \in 0 .. n - 1, i \in cells PROVE ~Untouched(size, asked, i)
  <2>1. m_items[index].visible /\ i \in Others(size, m_items, index)
    BY <1>2, <1>5
  <2>2. Fits(size, m_items[index], index)
    BY <1>1, <1>2, <2>1 DEF HiddenUpTo
  <2>. QED  BY <1>1, <1>2, <1>4, <2>1, <2>2, HidingTouches
<1>6. \A i \in 0 .. n - 1 :
        m_items'[i] = IF i \in cells THEN Behind(size, index, i) ELSE m_items[i]
  BY <1>1, <1>2 DEF Hiding
<1>. HIDE DEF asked, cells
<1>7. \A i \in 0 .. n - 1 :
        /\ m_items'[i].visible => m_items'[i].columnSpan \in {1, asked[i].columnSpan}
        /\ Untouched(size, asked, i) => m_items'[i] = asked[i]
  BY <1>4, <1>5, <1>6, BehindIsHidden
<1>. QED  BY <1>1, <1>2, <1>3, <1>7 DEF UntouchedInv, asked

LEMMA CollidesUntouched ==
    ASSUME LayoutTypeOK, LayoutInv, UntouchedInv, Collides
    PROVE  UntouchedInv'
<1>1. PICK n \in Nat : Cells(size) <= n /\ m_items \in [0 .. n - 1 -> Item]
  BY ItemsAre
<1>2. PICK hidden \in Covered(index) :
        /\ ~m_items[hidden].visible
        /\ m_items' = [HiddenBehind(index, {cell \in Covered(index) : cell < hidden})
                         EXCEPT ![index] = Spanning(@, 1)]
  BY DEF Collides
<1>. DEFINE asked == Unhidden(size, given)
            cells == {cell \in Covered(index) : cell < hidden}
            hid == Hiding(size, m_items, index, cells)
<1>3. /\ size \in Size /\ given \in [0 .. n - 1 -> Item] /\ given' = given /\ size' = size
      /\ m_items' = [hid EXCEPT ![index] = Spanning(@, 1)]
      /\ at' = "unhiding" /\ index \in 0 .. n - 1
      /\ HiddenUpTo(size, m_items, index)
      /\ m_items[index].visible /\ hidden \in Others(size, m_items, index)
      /\ cells \subseteq Others(size, m_items, index)
  BY <1>1, <1>2, SizesOf, CoveredIs DEF Collides, UntouchedInv, LayoutInv
<1>4. hid \in [0 .. n - 1 -> Item]
  BY <1>1, <1>3, HidingType
<1>5. Fits(size, m_items[index], index)
  BY <1>1, <1>3 DEF HiddenUpTo
<1>6. \A i \in 0 .. n - 1 :
        /\ m_items[i].visible => m_items[i].columnSpan \in {1, asked[i].columnSpan}
        /\ Untouched(size, asked, i) => m_items[i] = asked[i]
  BY <1>1 DEF UntouchedInv, Collides
<1>7. ASSUME NEW i \in 0 .. n - 1, i \in cells PROVE ~Untouched(size, asked, i)
  BY <1>1, <1>3, <1>5, <1>6, <1>7, HidingTouches
<1>8. asked \in [0 .. n - 1 -> Item] /\ \A i \in 0 .. n - 1 :
        /\ asked[i] = [columnSpan |-> asked[i].columnSpan, rowSpan |-> asked[i].columnSpan,
                       visible |-> TRUE]
  BY <1>3, UnhidesDoes, AskedItem
<1>9. \A i \in 0 .. n - 1 :
        hid[i] = IF i \in cells THEN Behind(size, index, i) ELSE m_items[i]
  BY <1>1 DEF Hiding
<1>10. m_items' \in [0 .. n - 1 -> Item]
  <2>1. Spanning(hid[index], 1) \in Item
    BY <1>3, <1>4, SpanningItem
  <2>. HIDE DEF hid
  <2>. QED  BY <1>3, <1>4, <2>1
\* The item that is made narrow meets another.
<1>11. ~Untouched(size, asked, index)
  <2>1. hidden \in 0 .. n - 1
    <3>1. hidden \in Grid(size)
      BY <1>3, <1>5, OthersAreLater
    <3>2. Cells(size) <= n
      BY <1>1
    <3>. QED  BY <1>3, <3>1, <3>2, CellsOf DEF Grid
  <2>2. PICK o \in 0 .. n - 1 :
          o < index /\ m_items[o].visible /\ hidden \in Others(size, m_items, o)
    BY <1>1, <1>2, <1>3, <2>1 DEF HiddenUpTo
  <2>3. Fits(size, m_items[o], o)
    BY <1>1, <1>3, <2>2 DEF HiddenUpTo
  <2>. HIDE DEF asked
  <2>4. hidden \in SpannedBy(size, asked, o) /\ asked[o].columnSpan > 1
    BY <1>1, <1>3, <1>6, <1>8, <2>2, <2>3, WideAsAsked
  <2>5. hidden \in SpannedBy(size, asked, index)
    BY <1>1, <1>3, <1>5, <1>6, <1>8, WideAsAsked
  <2>. QED  BY <1>8, <2>2, <2>4, <2>5 DEF Untouched
<1>12. ASSUME NEW i \in 0 .. n - 1
       PROVE  LET span == NormalSpan(size, m_items', i)
              IN  /\ span \in {1, asked[i].columnSpan}
                  /\ Untouched(size, asked, i) => span = asked[i].columnSpan
  <2>. DEFINE span == NormalSpan(size, m_items', i)
  <2>0. m_items'[i] \in Item /\ i \in Nat
    BY <1>10
  <2>1. /\ m_items'[i].columnSpan <= 1 => span = 1
        /\ Fits(size, m_items'[i], i) => span = m_items'[i].columnSpan
    BY <1>3, <2>0, NormalSpanFits
  <2>. HIDE DEF span, asked, hid, cells
  <2>2. CASE i = index
    <3>1. m_items'[i].columnSpan = 1
      BY <1>3, <1>4, <2>2 DEF Spanning, Item
    <3>. QED  BY <1>11, <2>1, <2>2, <3>1 DEF span
  <2>3. CASE i # index /\ i \in cells
    <3>1. m_items'[i] = Behind(size, index, i)
      BY <1>3, <1>4, <1>9, <2>3
    <3>2. Behind(size, index, i).columnSpan <= 0
      BY <1>3, <1>5, <2>3, BehindIsNarrow DEF Others
    <3>3. m_items'[i].columnSpan \in Int
      BY <1>10 DEF Item
    <3>. QED  BY <1>7, <2>1, <2>3, <3>1, <3>2, <3>3 DEF span
  <2>4. CASE i # index /\ i \notin cells /\ m_items[i].visible
    <3>1. m_items'[i] = m_items[i] /\ Fits(size, m_items[i], i)
      BY <1>1, <1>3, <1>4, <1>9, <2>4 DEF HiddenUpTo
    <3>. QED  BY <1>6, <2>1, <2>4, <3>1 DEF span
  <2>5. CASE i # index /\ i \notin cells /\ ~m_items[i].visible
    <3>1. m_items'[i] = m_items[i]
      BY <1>3, <1>4, <1>9, <2>5
    <3>2. PICK o \in 0 .. n - 1 : m_items[o].visible /\ o < index /\ i \in Others(size, m_items, o)
      BY <1>1, <1>3, <2>5 DEF HiddenUpTo
    <3>3. Fits(size, m_items[o], o) /\ m_items[i] = Behind(size, o, i)
      BY <1>1, <1>3, <3>2 DEF HiddenUpTo
    <3>4. Behind(size, o, i).columnSpan <= 0
      BY <1>3, <3>2, <3>3, BehindIsNarrow DEF Others
    <3>5. m_items'[i].columnSpan \in Int
      BY <1>10 DEF Item
    <3>6. ~Untouched(size, asked, i)
      BY <1>6, <1>8, <2>5
    <3>. QED  BY <2>1, <3>1, <3>3, <3>4, <3>5, <3>6 DEF span
  <2>. QED  BY <2>2, <2>3, <2>4, <2>5 DEF span
<1>. HIDE DEF asked
<1>. QED  BY <1>1, <1>3, <1>10, <1>12 DEF UntouchedInv, asked

LEMMA NextUntouched ==
    LayoutTypeOK /\ LayoutInv /\ UntouchedInv /\ [LayoutNext]_layoutVars /\ LayoutTypeOK'
        => UntouchedInv'
<1>. SUFFICES ASSUME LayoutTypeOK, LayoutInv, UntouchedInv, [LayoutNext]_layoutVars, LayoutTypeOK'
              PROVE  UntouchedInv'
  OBVIOUS
<1>1. ASSUME NEW s, NEW items, NEW who, Normalize(s, items, who) PROVE UntouchedInv'
  BY <1>1, NormalizeUntouched
<1>2. CASE \E s \in Sizes : SetSize(s) \/ NewLayout(s)
  BY <1>1, <1>2 DEF SetSize, NewLayout, AtRest, UntouchedInv
<1>3. CASE \E i, j \in Viewports : MergeCells(i, j)
  BY <1>1, <1>3 DEF MergeCells
<1>4. CASE FromJSValue \/ LoadsAppended \/ GrowsItems \/ SetsItems
  BY <1>1, <1>4 DEF FromJSValue, LoadsAppended, GrowsItems, SetsItems
<1>5. CASE ToJSValue \/ Returns
  BY <1>5 DEF ToJSValue, AtRest, Returns, UntouchedInv
<1>6. CASE Unhides
  BY <1>6, UnhidesUntouched
<1>7. CASE Hides
  BY <1>7, HidesUntouched
<1>8. CASE Collides
  BY <1>8, CollidesUntouched
<1>9. CASE UNCHANGED layoutVars
  BY <1>9 DEF layoutVars, UntouchedInv
<1>. QED
  BY <1>2, <1>3, <1>4, <1>5, <1>6, <1>7, <1>8, <1>9 DEF LayoutNext, NormalizeStep

(***************************************************************************)
(* In a layout of any size: an item whose span, as normalize() was given   *)
(* it, meets no other viewport's, is just so when normalize() returns.     *)
(***************************************************************************)
THEOREM LayoutLeavesUntouched == LayoutSpec => []UntouchedItemsStay
<1>1. LayoutInit => UntouchedInv
  BY DEF LayoutInit, UntouchedInv
<1>2. UntouchedInv => UntouchedItemsStay
  BY DEF UntouchedInv, UntouchedItemsStay, Unhidden
<1>. QED  BY <1>1, <1>2, LayoutIsKept, NextUntouched, PTL DEF LayoutSpec
=============================================================================
