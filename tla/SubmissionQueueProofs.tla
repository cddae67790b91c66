----------------------- MODULE SubmissionQueueProofs -----------------------
(***************************************************************************)
(* Proofs about the submission queue, for any workers, any size of the     *)
(* queue and any number of operations and of failing submissions: when the *)
(* unchecked entry of an operation is null, and that an operation is in    *)
(* one place as long as the loop thread and a worker do not meet.          *)
(***************************************************************************)
EXTENDS SubmissionQueue, FunctionTheorems, FiniteSetTheorems, SequenceTheorems, TLAPS

Stages == {"out", "get", "claim", "fill", "submit"}

QTypes ==
  /\ pc \in [Threads -> Stages] /\ entry \in [Threads -> Nat] /\ count \in [Threads -> Nat]
  /\ op \in [Threads -> Ops \cup {NoOp}]
  /\ issued \subseteq Ops /\ pending \in Seq(Ops)
  /\ tail \in Nat /\ head \in Nat /\ failures \in Nat
  /\ slots \in [0..(SqSize - 1) -> Ops \cup {NoOp}] /\ taken \in [Ops -> Nat]

\* sqe_mutex_ has one holder, which is in the queue; a worker in the queue holds it.
MutexInv ==
  /\ mutex = {} \/ \E t \in Threads : mutex = {t} /\ Inside(t)
  /\ \A w \in Workers : Inside(w) => mutex = {w}

\* The loop thread drains the first post, which is in pending_posts_ until its
\* entry is claimed.
DrainInv ==
  Holds(Loop) /\ pc[Loop] \in {"get", "claim"} => pending # <<>> /\ op[Loop] = Head(pending)

\* What a thread submits: its last operation, which is new, or a post that was
\* put aside.
OpsInv ==
  /\ \A o \in issued : o[2] <= count[o[1]]
  /\ \A i \in DOMAIN pending : pending[i] \in issued
  /\ \A t \in Threads :
       Inside(t) => IF t = Loop /\ Holds(t) THEN op[t] \in issued
                    ELSE op[t] = <<t, count[t]>> /\ op[t] \notin issued /\ op[t] \in Ops

QueueInv == QTypes /\ MutexInv /\ DrainInv /\ OpsInv

-----------------------------------------------------------------------------
(* How far the tail is from the head, with races *)

\* 1 when a thread of S has an entry that it has not handed to the kernel.
Busy(S) == IF \E t \in S : pc[t] \in {"fill", "submit"} THEN 1 ELSE 0

\* Each entry that is neither in the hands of a thread nor with the kernel is
\* there because a submission failed; a tail that was read before another
\* thread moved it is no further from the head.
BacklogInv ==
  /\ tail - head <= failures + Busy(Workers) + Busy({Loop})
  /\ \A t \in Threads : pc[t] = "claim" =>
       \/ entry[t] - head <= failures
       \/ entry[t] = tail /\ entry[t] - head <= failures + Busy(Threads \ {t})


-----------------------------------------------------------------------------
(* The queue without races *)

\* Only one thread is in the queue.
AloneInv == ~raced => \A t, u \in Threads : Inside(t) /\ Inside(u) => t = u

RingInv ==
  ~raced =>
    /\ head <= tail /\ tail <= head + SqSize
    /\ \A t \in Threads :
         /\ pc[t] = "claim" => entry[t] = tail /\ tail < head + SqSize
         /\ pc[t] \in {"fill", "submit"} => tail = entry[t] + 1 /\ head <= entry[t]

\* The entries that are filled are those below Top.
Filling == \E t \in Threads : pc[t] = "fill"
Top == IF Filling THEN tail - 1 ELSE tail
Held(o, a, b) == {i \in a..(b - 1) : slots[i % SqSize] = o}
Positions(s, o) == {i \in DOMAIN s : s[i] = o}
Found(o) == taken[o] + Cardinality(Held(o, head, Top)) + Cardinality(Positions(pending, o))

\* An operation is in one place from when its entry is filled, or it is put
\* aside; a post that is drained is in none between its claim and its fill.
Placed(o) ==
  /\ o \in issued \/ \E t \in Threads : pc[t] = "submit" /\ op[t] = o
  /\ ~\E t \in Threads : pc[t] = "fill" /\ op[t] = o
PlaceInv ==
  ~raced /\ ~crashed =>
    \A o \in Ops : Found(o) = IF Placed(o) THEN 1 ELSE 0

OnceInv == QueueInv /\ AloneInv /\ RingInv /\ PlaceInv

-----------------------------------------------------------------------------
(* Slots *)

LEMMA TimesAtLeast ==
  ASSUME NEW s \in Nat, NEW k \in Int, k >= 1
  PROVE  s * k >= s
<1>1. s * k = s * (k - 1) + s
  OBVIOUS
<1>2. s * (k - 1) >= 0
  OBVIOUS
<1> QED
  BY <1>1, <1>2

LEMMA DivMod ==
  ASSUME NEW s \in Nat \ {0}, NEW i \in Nat
  PROVE  i \div s \in Int /\ (i % s) \in Int /\ i = s * (i \div s) + (i % s)
<1> QED
  OBVIOUS

LEMMA SlotsDiffer ==
  ASSUME NEW s \in Nat \ {0}, NEW i \in Nat, NEW j \in Nat, i < j, j - i < s
  PROVE  i % s # j % s
<1> SUFFICES ASSUME i % s = j % s PROVE FALSE
  OBVIOUS
<1> DEFINE p == i \div s
           q == j \div s
           r == i % s
<1>1. p \in Int /\ q \in Int /\ r \in Int /\ i = s * p + r /\ j = s * q + r
  BY DivMod
<1> HIDE DEF p, q, r
<1>2. j - i = s * (q - p)
  BY <1>1
<1>3. CASE q - p >= 1
  BY <1>1, <1>2, <1>3, TimesAtLeast
<1>4. CASE q - p <= 0
  <2>1. s * (p - q) >= 0
    BY <1>1, <1>4
  <2>2. s * (q - p) = -(s * (p - q))
    BY <1>1
  <2> QED
    BY <1>1, <1>2, <2>1, <2>2
<1> QED
  BY <1>1, <1>3, <1>4

\* The entries that hold an operation are finitely many.
LEMMA HeldFinite ==
  ASSUME NEW o, NEW a \in Int, NEW b \in Int
  PROVE  IsFiniteSet(Held(o, a, b)) /\ Cardinality(Held(o, a, b)) \in Nat
<1>1. IsFiniteSet(a..(b - 1))
  BY FS_Interval
<1>2. Held(o, a, b) \subseteq a..(b - 1)
  BY DEF Held
<1>3. IsFiniteSet(Held(o, a, b))
  BY <1>1, <1>2, FS_Subset
<1> QED
  BY <1>3, FS_CardinalityType

\* What the kernel takes, in these terms.
LEMMA TakenHeld ==
  ASSUME QTypes, NEW o, NEW n \in Int
  PROVE  TakenBy(o, n) = Cardinality(Held(o, head, head + n)) /\ TakenBy(o, n) \in Nat
<1>1. TakenBy(o, n) = Cardinality(Held(o, head, head + n))
  <2>1. head..(head + n - 1) = head..((head + n) - 1)
    BY DEF QTypes
  <2> QED
    BY <2>1 DEF TakenBy, Held
<1>2. head \in Int /\ head + n \in Int
  BY DEF QTypes
<1> QED
  BY <1>1, <1>2, HeldFinite

LEMMA ReadyType ==
  ASSUME QTypes
  PROVE  Ready \in Nat /\ (tail >= head => Ready = tail - head)
<1> QED
  BY QueueAssumption DEF QTypes, Ready

-----------------------------------------------------------------------------
(* Threads, the mutex and the operations *)

\* A thread enters with an operation.
LEMMA EnterTypes ==
  ASSUME QTypes, NEW t \in Threads, NEW o \in Ops, Enter(t, o), pending' = pending,
         count' \in [Threads -> Nat]
  PROVE  QTypes'
<1> QED
  BY DEF QTypes, Enter, Stages

\* The operation a thread begins.
LEMMA NextOp ==
  ASSUME QTypes, NEW t \in Threads, count[t] < MaxOps
  PROVE  <<t, count[t] + 1>> \in Ops /\ [count EXCEPT ![t] = @ + 1] \in [Threads -> Nat]
<1>1. count[t] \in Nat /\ MaxOps \in Nat
  BY QueueAssumption DEF QTypes
<1>2. count[t] + 1 \in 1..MaxOps
  BY <1>1
<1> QED
  BY <1>1, <1>2 DEF QTypes, Ops

LEMMA TypesStep ==
  ASSUME QueueInv, Next
  PROVE  QTypes'
<1>0. QTypes /\ Loop \in Threads /\ \A w \in Workers : w \in Threads
  BY DEF QueueInv, Threads
<1>1. CASE Async
  <2>1. /\ <<Loop, count[Loop] + 1>> \in Ops /\ count' \in [Threads -> Nat]
        /\ Enter(Loop, <<Loop, count[Loop] + 1>>) /\ pending' = pending
    BY <1>0, <1>1, NextOp DEF Async
  <2> QED
    BY <1>0, <2>1, EnterTypes
<1>2. ASSUME NEW w \in Workers, Post(w) PROVE QTypes'
  <2>1. /\ <<w, count[w] + 1>> \in Ops /\ count' \in [Threads -> Nat]
        /\ Enter(w, <<w, count[w] + 1>>) /\ pending' = pending
    BY <1>0, <1>2, NextOp DEF Post
  <2> QED
    BY <1>0, <2>1, EnterTypes
<1>3. CASE Drain
  <2>1. Head(pending) \in Ops /\ Enter(Loop, Head(pending)) /\ UNCHANGED <<pending, count>>
    BY <1>0, <1>3 DEF Drain, QTypes
  <2> QED
    BY <1>0, <2>1, EnterTypes DEF QTypes
<1>4. ASSUME NEW t \in Threads, GetNull(t) PROVE QTypes'
  <2>1. op[t] \in Ops
    BY <1>4 DEF QueueInv, QTypes, OpsInv, GetNull, Inside
  <2>2. pending' \in Seq(Ops)
    BY <1>0, <1>4, <2>1, AppendProperties DEF GetNull, PutAside, QTypes
  <2> QED
    BY <1>0, <1>4, <2>1, <2>2 DEF QTypes, GetNull, Out, Stages
<1>5. ASSUME NEW t \in Threads, GetTail(t) PROVE QTypes'
  BY <1>0, <1>5 DEF QTypes, GetTail, Stages
<1>6. ASSUME NEW t \in Threads, Claim(t) PROVE QTypes'
  <2>1. pending' \in Seq(Ops)
    BY <1>0, <1>6 DEF Claim, QTypes, QueueInv, DrainInv, Holds
  <2>2. tail' \in Nat
    BY <1>0, <1>6 DEF QTypes, Claim
  <2> QED
    BY <1>0, <1>6, <2>1, <2>2 DEF QTypes, Claim, Stages
<1>7. ASSUME NEW t \in Threads, Fill(t) PROVE QTypes'
  BY <1>0, <1>7 DEF QTypes, Fill, Stages
<1>8. ASSUME NEW t \in Threads, Submit(t) PROVE QTypes'
  <2>1. op[t] \in Ops
    BY <1>8 DEF QueueInv, QTypes, OpsInv, Submit, Inside
  <2>2. PICK n \in 0..Ready : Takes(n) /\ head' = head + n /\ taken' = [o \in Ops |-> taken[o] + TakenBy(o, n)]
    BY <1>8 DEF Submit
  <2>3. n \in Nat /\ head' \in Nat /\ failures' \in Nat
    BY <1>0, <2>2, ReadyType DEF QTypes, Takes
  <2>4. taken' \in [Ops -> Nat]
    <3>1. \A o \in Ops : taken[o] + TakenBy(o, n) \in Nat
      <4>1. \A o \in Ops : taken[o] \in Nat
        BY <1>0 DEF QTypes
      <4>2. n \in Int
        BY <2>3
      <4>3. \A o \in Ops : TakenBy(o, n) \in Nat
        BY <1>0, <4>2, TakenHeld
      <4> QED
        BY <4>1, <4>3
    <3> QED
      BY <2>2, <3>1
  <2>5. pc' \in [Threads -> Stages] /\ op' \in [Threads -> Ops \cup {NoOp}]
    <3>1. CASE t = Loop /\ Holds(t) /\ pending # <<>>
      <4>1. Head(pending) \in Ops
        BY <1>0, <3>1 DEF QTypes
      <4> QED
        BY <1>0, <1>8, <3>1, <4>1 DEF QTypes, Submit, Stages
    <3>2. CASE ~(t = Loop /\ Holds(t) /\ pending # <<>>)
      BY <1>0, <1>8, <3>2 DEF QTypes, Submit, Out, Stages
    <3> QED
      BY <3>1, <3>2
  <2> QED
    BY <1>0, <1>8, <2>1, <2>3, <2>4, <2>5 DEF QTypes, Submit
<1> QED
  BY <1>1, <1>2, <1>3, <1>4, <1>5, <1>6, <1>7, <1>8 DEF Next

LEMMA MutexStep ==
  ASSUME QueueInv, Next
  PROVE  MutexInv'
<1>0. /\ QTypes /\ MutexInv /\ Loop \in Threads /\ Loop \notin Workers
      /\ \A w \in Workers : w \in Threads
      /\ pc \in [Threads -> Stages]
  BY QueueAssumption DEF QueueInv, Threads, QTypes
<1>1. CASE Async
  <2>1. UNCHANGED mutex /\ ~Inside(Loop) /\ pc' = [pc EXCEPT ![Loop] = "get"]
    BY <1>1 DEF Async, Enter
  <2> QED
    BY <1>0, <2>1 DEF MutexInv, Inside
<1>2. ASSUME NEW t \in Threads, (t \in Workers /\ Post(t)) \/ (t = Loop /\ Drain) PROVE MutexInv'
  <2>1. mutex = {} /\ mutex' = {t} /\ pc' = [pc EXCEPT ![t] = "get"]
    BY <1>2 DEF Post, Drain, Lock, Enter
  <2> QED
    BY <1>0, <2>1 DEF MutexInv, Inside
<1>3. ASSUME NEW t \in Threads, Out(t), Inside(t) PROVE MutexInv'
  <2>1. mutex' = mutex \ {t} /\ pc' = [pc EXCEPT ![t] = "out"]
    BY <1>3 DEF Out
  <2> QED
    BY <1>0, <2>1, <1>3 DEF MutexInv, Inside
<1>4. ASSUME NEW t \in Threads, UNCHANGED mutex, Inside(t),
             NEW next \in {"get", "claim", "fill", "submit"}, pc' = [pc EXCEPT ![t] = next]
      PROVE  MutexInv'
  BY <1>0, <1>4 DEF MutexInv, Inside
<1>5. ASSUME NEW t \in Threads, GetNull(t) \/ GetTail(t) \/ Claim(t) \/ Fill(t) PROVE MutexInv'
  BY <1>3, <1>4, <1>5 DEF GetNull, GetTail, Claim, Fill, Inside
<1>6. ASSUME NEW t \in Threads, Submit(t) PROVE MutexInv'
  BY <1>3, <1>4, <1>6 DEF Submit, Inside
<1> QED
  BY <1>0, <1>1, <1>2, <1>5, <1>6 DEF Next

LEMMA DrainStep ==
  ASSUME QueueInv, Next
  PROVE  DrainInv'
<1>0. /\ QTypes /\ MutexInv /\ DrainInv /\ Loop \in Threads /\ Loop \notin Workers
      /\ \A w \in Workers : w \in Threads
      /\ pc \in [Threads -> Stages] /\ op \in [Threads -> Ops \cup {NoOp}]
  BY QueueAssumption DEF QueueInv, Threads, QTypes
<1>1. CASE Async
  <2>1. Loop \notin mutex /\ mutex' = mutex
    BY <1>0, <1>1 DEF Async, MutexInv
  <2> QED
    BY <2>1 DEF DrainInv, Holds
<1>2. ASSUME NEW w \in Workers, Post(w) PROVE DrainInv'
  <2>1. mutex' = {w}
    BY <1>2 DEF Post, Lock
  <2> QED
    BY <1>0, <2>1 DEF DrainInv, Holds
<1>3. CASE Drain
  BY <1>0, <1>3 DEF Drain, Enter, DrainInv
<1>4. ASSUME NEW t \in Threads, t # Loop, GetNull(t) \/ GetTail(t) \/ Claim(t) \/ Fill(t) \/ Submit(t)
      PROVE  DrainInv'
  <2>1. mutex = {t} /\ mutex' \subseteq mutex
    BY <1>0, <1>4 DEF MutexInv, Threads, GetNull, GetTail, Claim, Fill, Submit, Out, Inside
  <2> QED
    BY <1>4, <2>1 DEF DrainInv, Holds
<1>5. CASE GetNull(Loop)
  BY <1>0, <1>5 DEF GetNull, Out, DrainInv
<1>6. CASE GetTail(Loop)
  BY <1>0, <1>6 DEF GetTail, DrainInv, Holds
<1>7. CASE Claim(Loop) \/ Fill(Loop)
  BY <1>0, <1>7 DEF Claim, Fill, DrainInv
<1>8. CASE Submit(Loop)
  BY <1>0, <1>8 DEF Submit, Out, DrainInv, Holds
<1> QED
  BY <1>0, <1>1, <1>2, <1>3, <1>4, <1>5, <1>6, <1>7, <1>8 DEF Next

\* A thread begins an operation of its own.
LEMMA OpsBegin ==
  ASSUME QueueInv, NEW t \in Threads, ~Inside(t), count[t] < MaxOps,
         count' = [count EXCEPT ![t] = @ + 1], Enter(t, <<t, count[t] + 1>>), UNCHANGED pending,
         \A u \in Threads : u = Loop /\ Inside(u)' => (Holds(u)' <=> Holds(u)),
         ~(t = Loop /\ Holds(t)')
  PROVE  OpsInv'
<1>0. QTypes /\ OpsInv /\ op \in [Threads -> Ops \cup {NoOp}] /\ pc \in [Threads -> Stages]
      /\ count \in [Threads -> Nat] /\ issued \subseteq Ops
  BY DEF QueueInv, QTypes
<1>1. /\ UNCHANGED <<issued, pending>>
      /\ pc'[t] = "get" /\ op'[t] = <<t, count[t] + 1>> /\ count'[t] = count[t] + 1
      /\ \A u \in Threads : u # t => pc'[u] = pc[u] /\ op'[u] = op[u] /\ count'[u] = count[u]
  BY <1>0 DEF Enter
<1>2. \A o \in issued : o[1] \in Threads /\ o[2] \in Nat
  BY <1>0 DEF Ops
<1>3. \A o \in issued' : o[2] <= count'[o[1]]
  <2> SUFFICES ASSUME NEW o \in issued PROVE o[2] <= count'[o[1]]
    BY <1>1
  <2>1. o[2] <= count[o[1]] /\ o[2] \in Nat /\ o[1] \in Threads
    BY <1>0, <1>2 DEF OpsInv
  <2>2. count[o[1]] \in Nat
    BY <1>0, <2>1
  <2> QED
    BY <1>1, <2>1, <2>2
<1>4. op'[t] \notin issued
  <2> SUFFICES ASSUME <<t, count[t] + 1>> \in issued PROVE FALSE
    BY <1>1
  <2>1. count[t] + 1 <= count[t] /\ count[t] \in Nat
    BY <1>0 DEF OpsInv
  <2> QED
    BY <2>1
<1>5. op'[t] \in Ops
  BY <1>0, <1>1, NextOp
<1>6. \A i \in DOMAIN pending' : pending'[i] \in issued'
  BY <1>0, <1>1 DEF OpsInv
<1>7. ASSUME NEW u \in Threads, Inside(u)'
      PROVE  IF u = Loop /\ Holds(u)' THEN op'[u] \in issued'
             ELSE op'[u] = <<u, count'[u]>> /\ op'[u] \notin issued' /\ op'[u] \in Ops
  <2>1. CASE u = t
    BY <1>1, <1>4, <1>5, <2>1
  <2>2. CASE u # t
    BY <1>0, <1>1, <1>7, <2>2 DEF OpsInv, Inside
  <2> QED
    BY <2>1, <2>2
<1> QED
  BY <1>3, <1>6, <1>7 DEF OpsInv

\* The submission of a thread returns.
LEMMA OpsReturn ==
  ASSUME QueueInv, NEW t \in Threads, Inside(t), issued' = issued \cup {op[t]}, UNCHANGED count,
         \A u \in Threads : u # t => /\ pc'[u] = pc[u] /\ op'[u] = op[u]
                                     /\ u = Loop => (Holds(u)' <=> Holds(u)),
         Inside(t)' => t = Loop /\ Holds(t)' /\ op'[t] \in issued,
         \A i \in DOMAIN pending' : pending'[i] \in issued \/ pending'[i] = op[t]
  PROVE  OpsInv'
<1>0. /\ OpsInv /\ issued \subseteq Ops /\ count \in [Threads -> Nat]
      /\ \A u \in Threads : count[u] \in Nat
  BY DEF QueueInv, QTypes
<1>1. op[t] \in issued \/ op[t] = <<t, count[t]>>
  BY <1>0 DEF OpsInv
<1>2. \A o \in issued' : o[2] <= count'[o[1]]
  <2>1. \A o \in issued : o[2] <= count[o[1]]
    BY <1>0 DEF OpsInv
  <2>2. op[t] = <<t, count[t]>> => op[t][2] <= count[op[t][1]]
    BY <1>0
  <2> QED
    BY <1>1, <2>1, <2>2
<1>3. ASSUME NEW u \in Threads, Inside(u)'
      PROVE  IF u = Loop /\ Holds(u)' THEN op'[u] \in issued'
             ELSE op'[u] = <<u, count'[u]>> /\ op'[u] \notin issued' /\ op'[u] \in Ops
  <2>1. CASE u = t
    BY <1>3, <2>1
  <2>2. CASE u # t
    <3>1. IF u = Loop /\ Holds(u) THEN op[u] \in issued
          ELSE op[u] = <<u, count[u]>> /\ op[u] \notin issued /\ op[u] \in Ops
      BY <1>0, <1>3, <2>2 DEF OpsInv, Inside
    <3>2. op[u] = <<u, count[u]>> => op[u] # <<t, count[t]>>
      BY <2>2
    <3> QED
      BY <1>1, <2>2, <3>1, <3>2
  <2> QED
    BY <2>1, <2>2
<1> QED
  BY <1>2, <1>3 DEF OpsInv

LEMMA OpsStep ==
  ASSUME QueueInv, Next
  PROVE  OpsInv'
<1>0. /\ QTypes /\ MutexInv /\ OpsInv /\ DrainInv /\ Loop \in Threads /\ Loop \notin Workers
      /\ \A w \in Workers : w \in Threads
      /\ pc \in [Threads -> Stages] /\ op \in [Threads -> Ops \cup {NoOp}] /\ pending \in Seq(Ops)
  BY QueueAssumption DEF QueueInv, Threads, QTypes
<1>1. CASE Async
  <2>1. ~Holds(Loop) /\ ~Holds(Loop)'
    BY <1>0, <1>1 DEF Async, MutexInv, Holds
  <2> QED
    BY <1>0, <1>1, <2>1, OpsBegin DEF Async
<1>2. ASSUME NEW w \in Workers, Post(w) PROVE OpsInv'
  <2>1. mutex = {} /\ mutex' = {w} /\ w # Loop
    BY <1>0, <1>2 DEF Post, Lock
  <2> QED
    BY <1>0, <1>2, <2>1, OpsBegin DEF Post, Holds
<1>3. CASE Drain
  <2>1. /\ mutex = {} /\ mutex' = {Loop} /\ UNCHANGED <<issued, pending, count>>
        /\ \A w \in Workers : ~Inside(w)
        /\ op'[Loop] = Head(pending) /\ \A w \in Workers : pc'[w] = pc[w]
    BY <1>0, <1>3 DEF Drain, Lock, Enter, MutexInv
  <2>2. Head(pending) \in issued
    <3>1. 1 \in DOMAIN pending /\ Head(pending) = pending[1]
      BY <1>0, <1>3, LenProperties, EmptySeq DEF Drain
    <3> QED
      BY <1>0, <3>1 DEF OpsInv
  <2> QED
    BY <1>0, <2>1, <2>2 DEF OpsInv, Inside, Holds, Threads
<1>4. ASSUME NEW t \in Threads, GetNull(t) PROVE OpsInv'
  <2>1. /\ Inside(t) /\ issued' = issued \cup {op[t]} /\ UNCHANGED <<count, op>>
        /\ pc'[t] = "out" /\ mutex' = mutex \ {t}
        /\ \A u \in Threads : u # t => pc'[u] = pc[u]
    BY <1>0, <1>4 DEF GetNull, Out, Inside
  <2>2. pending' = pending \/ (pending' = Append(pending, op[t]) /\ op[t] \in Ops)
    BY <1>0, <1>4, <2>1 DEF GetNull, PutAside, OpsInv
  <2>3. \A i \in DOMAIN pending' : pending'[i] \in issued \/ pending'[i] = op[t]
    BY <1>0, <2>2, AppendProperties, LenProperties DEF OpsInv
  <2> QED
    BY <1>0, <2>1, <2>3, OpsReturn DEF Inside, Holds
<1>5. ASSUME NEW t \in Threads, GetTail(t) \/ Fill(t) PROVE OpsInv'
  BY <1>0, <1>5 DEF OpsInv, GetTail, Fill, Inside, Holds
<1>6. ASSUME NEW t \in Threads, Claim(t) PROVE OpsInv'
  <2>1. \A i \in DOMAIN pending' : pending'[i] \in issued
    <3>1. CASE t = Loop /\ Holds(t)
      <4>1. pending # <<>> /\ pending' = Tail(pending)
        BY <1>0, <1>6, <3>1 DEF Claim, DrainInv
      <4>2. \A i \in DOMAIN Tail(pending) : i + 1 \in DOMAIN pending /\ Tail(pending)[i] = pending[i + 1]
        BY <1>0, <4>1, HeadTailProperties, LenProperties
      <4> QED
        BY <1>0, <4>1, <4>2 DEF OpsInv
    <3>2. CASE ~(t = Loop /\ Holds(t))
      BY <1>0, <1>6, <3>2 DEF Claim, OpsInv
    <3> QED
      BY <3>1, <3>2
  <2>2. /\ UNCHANGED <<mutex, op, count, issued>>
        /\ \A u \in Threads : Inside(u)' <=> Inside(u)
    BY <1>0, <1>6 DEF Claim, Inside
  <2> QED
    BY <1>0, <2>1, <2>2 DEF OpsInv, Holds
<1>7. ASSUME NEW t \in Threads, Submit(t) PROVE OpsInv'
  <2>1. /\ Inside(t) /\ issued' = issued \cup {op[t]} /\ UNCHANGED <<count, pending>>
        /\ \A u \in Threads : u # t => pc'[u] = pc[u] /\ op'[u] = op[u]
    BY <1>0, <1>7 DEF Submit, Out, Inside
  <2>2. \A u \in Threads : u # t /\ u = Loop => (Holds(u)' <=> Holds(u))
    BY <1>0, <1>7 DEF Submit, Out, Holds
  <2>3. Inside(t)' => t = Loop /\ Holds(t)' /\ op'[t] = Head(pending) /\ pending # <<>>
    BY <1>0, <1>7 DEF Submit, Out, Inside, Holds
  <2>4. pending # <<>> => Head(pending) \in issued
    <3>1. pending # <<>> => 1 \in DOMAIN pending /\ Head(pending) = pending[1]
      BY <1>0, LenProperties, EmptySeq
    <3> QED
      BY <1>0, <3>1 DEF OpsInv
  <2>5. \A i \in DOMAIN pending' : pending'[i] \in issued
    BY <1>0, <2>1 DEF OpsInv
  <2> QED
    BY <2>1, <2>2, <2>3, <2>4, <2>5, OpsReturn
<1> QED
  BY <1>1, <1>2, <1>3, <1>4, <1>5, <1>6, <1>7 DEF Next

\* The first part of the invariant, in every state.
LEMMA QueueInvInitially ==
  ASSUME Init
  PROVE  QueueInv
<1>1. QTypes
  BY QueueAssumption DEF Init, QTypes, Stages
<1>2. MutexInv /\ DrainInv /\ OpsInv
  BY DEF Init, MutexInv, DrainInv, OpsInv, Inside, Holds, Threads
<1> QED
  BY <1>1, <1>2 DEF QueueInv

LEMMA QueueInvStep ==
  ASSUME QueueInv, [Next]_vars
  PROVE  QueueInv'
<1>1. CASE Next
  BY <1>1, TypesStep, MutexStep, DrainStep, OpsStep DEF QueueInv
<1>2. CASE UNCHANGED vars
  BY <1>2 DEF QueueInv, vars, QTypes, MutexInv, DrainInv, OpsInv, Inside, Holds
<1> QED
  BY <1>1, <1>2

-----------------------------------------------------------------------------
(* The backlog *)

\* A step that changes no thread between "fill" and "submit" and the others.
LEMMA BusySame ==
  ASSUME NEW S \in SUBSET Threads,
         \A t \in Threads : pc'[t] \in {"fill", "submit"} <=> pc[t] \in {"fill", "submit"}
  PROVE  Busy(S)' = Busy(S)
<1> QED
  BY DEF Busy

LEMMA BusyType == \A S : Busy(S) \in {0, 1}
<1> QED
  BY DEF Busy

\* At most the loop thread and one worker are in the queue.
LEMMA BusySplit ==
  ASSUME MutexInv, NEW t \in Threads, Inside(t)
  PROVE  Busy(Workers) + Busy({Loop}) = Busy({t}) + Busy(Threads \ {t})
<1>1. CASE t = Loop
  <2>1. Threads \ {t} = Workers
    BY <1>1, QueueAssumption DEF Threads
  <2> QED
    BY <1>1, <2>1, BusyType
<1>2. CASE t # Loop
  <2>1. t \in Workers /\ mutex = {t}
    BY <1>2 DEF Threads, MutexInv
  <2>2. \A w \in Workers : w # t => pc[w] = "out"
    BY <2>1 DEF MutexInv, Inside
  <2>3. Busy(Workers) = Busy({t})
    BY <2>1, <2>2 DEF Busy
  <2>4. Busy(Threads \ {t}) = Busy({Loop})
    BY <1>2, <2>2 DEF Busy, Threads
  <2> QED
    BY <2>3, <2>4
<1> QED
  BY <1>1, <1>2

\* The same of the other threads, whoever is in the queue.
LEMMA OtherBusy ==
  ASSUME MutexInv, NEW t \in Threads, NEW u \in Threads, Inside(t), Inside(u), t # u
  PROVE  Busy(Threads \ {t}) = Busy({u})
<1>1. \A v \in Threads \ {t, u} : pc[v] = "out"
  BY DEF MutexInv, Inside, Threads
<1> QED
  BY <1>1 DEF Busy

\* The first conjunct and the second for each thread, after a step that moves
\* neither the tail nor the head.
LEMMA BacklogKept ==
  ASSUME QueueInv, BacklogInv, UNCHANGED <<tail, head, failures, entry>>,
         \A t \in Threads : pc'[t] \in {"fill", "submit"} <=> pc[t] \in {"fill", "submit"},
         \A t \in Threads : pc'[t] = "claim" => pc[t] = "claim"
  PROVE  BacklogInv'
<1>1. Busy(Workers)' = Busy(Workers) /\ Busy({Loop})' = Busy({Loop})
  BY BusySame DEF Threads
<1>2. \A t \in Threads : Busy(Threads \ {t})' = Busy(Threads \ {t})
  BY BusySame
<1> QED
  BY <1>1, <1>2 DEF BacklogInv

LEMMA BacklogGetTail ==
  ASSUME QueueInv, BacklogInv, NEW t \in Threads, GetTail(t)
  PROVE  BacklogInv'
<1>0. /\ MutexInv /\ pc \in [Threads -> Stages] /\ entry \in [Threads -> Nat]
      /\ tail \in Nat /\ head \in Nat /\ failures \in Nat
  BY DEF QueueInv, QTypes
<1>1. /\ UNCHANGED <<tail, head, failures>> /\ pc[t] = "get" /\ pc'[t] = "claim" /\ entry'[t] = tail
      /\ \A u \in Threads : u # t => pc'[u] = pc[u] /\ entry'[u] = entry[u]
  BY <1>0 DEF GetTail
<1>2. Busy(Workers)' = Busy(Workers) /\ Busy({Loop})' = Busy({Loop})
  BY <1>1, BusySame DEF Threads
<1>3. \A u \in Threads : Busy(Threads \ {u})' = Busy(Threads \ {u})
  BY <1>1, BusySame
<1>4. Busy(Workers) + Busy({Loop}) = Busy(Threads \ {t})
  <2>1. Busy({t}) = 0
    BY <1>1 DEF Busy
  <2>2. Busy(Threads \ {t}) \in {0, 1}
    BY BusyType
  <2>3. Inside(t)
    BY <1>1 DEF Inside
  <2>4. Busy(Workers) + Busy({Loop}) = Busy({t}) + Busy(Threads \ {t})
    BY <1>0, <2>3, BusySplit
  <2> QED
    BY <2>1, <2>2, <2>4
<1>5. tail - head <= failures + Busy(Threads \ {t})
  BY <1>0, <1>4, BusyType DEF BacklogInv
<1> QED
  BY <1>1, <1>2, <1>3, <1>5 DEF BacklogInv

LEMMA BacklogClaim ==
  ASSUME QueueInv, BacklogInv, NEW t \in Threads, Claim(t)
  PROVE  BacklogInv'
<1>0. /\ MutexInv /\ pc \in [Threads -> Stages] /\ entry \in [Threads -> Nat]
      /\ tail \in Nat /\ head \in Nat /\ failures \in Nat
  BY DEF QueueInv, QTypes
<1>1. /\ UNCHANGED <<head, failures, entry, mutex>> /\ pc[t] = "claim" /\ pc'[t] = "fill"
      /\ tail' = entry[t] + 1
      /\ \A u \in Threads : u # t => pc'[u] = pc[u]
  BY <1>0 DEF Claim
<1> DEFINE b == Busy(Threads \ {t})
<1>2. b \in {0, 1} /\ entry[t] \in Nat /\ entry[t] - head <= failures + b
  BY <1>0, <1>1, BusyType DEF BacklogInv
<1>3. Busy(Workers)' + Busy({Loop})' = 1 + b
  <2>1. CASE t = Loop
    <3>1. Threads \ {t} = Workers
      BY <2>1, QueueAssumption DEF Threads
    <3>2. Busy({Loop})' = 1 /\ Busy(Workers)' = b
      BY <1>1, <2>1, <3>1, QueueAssumption DEF Busy
    <3> QED
      BY <1>2, <3>2
  <2>2. CASE t # Loop
    <3>1. t \in Workers /\ \A w \in Workers : w # t => pc[w] = "out"
      BY <1>0, <1>1, <2>2 DEF Threads, MutexInv, Inside
    <3>2. Busy(Workers)' = 1 /\ Busy({Loop})' = b
      BY <1>1, <2>2, <3>1 DEF Busy, Threads
    <3> QED
      BY <1>2, <3>2
  <2> QED
    BY <2>1, <2>2
<1> HIDE DEF b
<1>4. tail' - head' <= failures' + Busy(Workers)' + Busy({Loop})'
  <2>1. Busy(Workers)' \in {0, 1} /\ Busy({Loop})' \in {0, 1}
    BY DEF Busy
  <2> QED
    BY <1>0, <1>1, <1>2, <1>3, <2>1
<1>5. ASSUME NEW u \in Threads, pc'[u] = "claim" PROVE entry'[u] - head' <= failures'
  <2>1. u # t /\ pc[u] = "claim" /\ entry[u] \in Nat
    BY <1>0, <1>1, <1>5
  <2>2. Busy(Threads \ {u}) = Busy({t})
    BY <1>0, <1>1, <2>1, OtherBusy DEF Inside
  <2>3. Busy({t}) = 0
    BY <1>1 DEF Busy
  <2> QED
    BY <1>0, <1>1, <2>1, <2>2, <2>3 DEF BacklogInv
<1> QED
  BY <1>4, <1>5 DEF BacklogInv

\* The kernel's head after a submission: it takes all there is to take, or the
\* submission counts as a failure.
LEMMA SubmitTakes ==
  ASSUME QTypes, NEW t \in Threads, Submit(t)
  PROVE  \E k \in Nat, f \in Nat :
           /\ k = head' /\ f = failures' /\ k >= head
           /\ (f = failures + 1) \/ (f = failures /\ tail - k <= 0)
<1>0. tail \in Nat /\ head \in Nat /\ failures \in Nat /\ SqSize \in Nat
  BY QueueAssumption DEF QTypes
<1>1. PICK n \in 0..Ready : Takes(n) /\ head' = head + n
  BY DEF Submit
<1>2. n \in Nat /\ head + n \in Nat /\ head + n >= head /\ failures + 1 \in Nat
  BY <1>0, <1>1, ReadyType
<1>3. \/ failures' = failures + 1
      \/ failures' = failures /\ tail - (head + n) <= 0
  BY <1>0, <1>1, <1>2 DEF Takes, Ready
<1> QED
  BY <1>0, <1>1, <1>2, <1>3

LEMMA BacklogSubmit ==
  ASSUME QueueInv, BacklogInv, NEW t \in Threads, Submit(t)
  PROVE  BacklogInv'
<1>0. /\ MutexInv /\ pc \in [Threads -> Stages] /\ entry \in [Threads -> Nat] /\ QTypes
      /\ tail \in Nat /\ head \in Nat /\ failures \in Nat /\ SqSize \in Nat
  BY QueueAssumption DEF QueueInv, QTypes
<1>1. /\ UNCHANGED <<tail, entry>> /\ pc[t] = "submit" /\ pc'[t] \in {"out", "get"}
      /\ \A u \in Threads : u # t => pc'[u] = pc[u]
  BY <1>0 DEF Submit, Out
<1>2. PICK k \in Nat, f \in Nat :
        /\ k = head' /\ f = failures' /\ k >= head
        /\ (f = failures + 1) \/ (f = failures /\ tail - k <= 0)
  BY <1>0, SubmitTakes
<1>3. k >= head
  BY <1>2
<1>4. (f = failures + 1) \/ (f = failures /\ tail - k <= 0)
  BY <1>2
<1> DEFINE b == Busy(Threads \ {t})
           b1 == Busy(Workers)
           b2 == Busy({Loop})
<1>5. b1 + b2 = 1 + b /\ b \in {0, 1} /\ b1 \in {0, 1} /\ b2 \in {0, 1}
  <2>1. Busy({t}) = 1
    BY <1>1 DEF Busy
  <2>2. Inside(t)
    BY <1>1 DEF Inside
  <2>3. b1 + b2 = Busy({t}) + b
    BY <1>0, <2>2, BusySplit
  <2>4. b \in {0, 1} /\ b1 \in {0, 1} /\ b2 \in {0, 1}
    BY BusyType
  <2> QED
    BY <2>1, <2>3, <2>4
<1>c. PICK c1 \in {0, 1}, c2 \in {0, 1} : c1 = Busy(Workers)' /\ c2 = Busy({Loop})'
  BY DEF Busy
<1>6. c1 + c2 >= b1 + b2 - 1
  <2>1. c1 \in {0, 1} /\ c2 \in {0, 1}
    OBVIOUS
  <2>2. CASE t = Loop
    <3>1. c1 = b1
      BY <1>1, <1>c, <2>2, QueueAssumption DEF Busy, Threads
    <3> QED
      BY <1>5, <2>1, <3>1
  <2>3. CASE t # Loop
    <3>1. c2 = b2
      BY <1>1, <1>c, <2>3 DEF Busy, Threads
    <3> QED
      BY <1>5, <2>1, <3>1
  <2> QED
    BY <2>2, <2>3
<1>7. tail - head <= failures + b1 + b2
  BY DEF BacklogInv
<1> HIDE DEF b, b1, b2
<1>8. tail - k <= f + c1 + c2
  <2>1. tail \in Int /\ head \in Int /\ failures \in Nat /\ b1 \in Int /\ b2 \in Int /\ c1 \in Nat /\ c2 \in Nat
    BY <1>0, <1>5, <1>6
  <2>2. CASE f = failures + 1
    BY <1>3, <1>6, <1>7, <2>1, <2>2
  <2>3. CASE f = failures /\ tail - k <= 0
    BY <1>3, <2>1, <2>3
  <2> QED
    BY <1>4, <2>2, <2>3
<1>9. ASSUME NEW u \in Threads, pc'[u] = "claim" PROVE entry[u] - k <= f
  <2>1. u # t /\ pc[u] = "claim" /\ entry[u] \in Nat
    BY <1>0, <1>1, <1>9
  <2>2. Busy(Threads \ {u}) \in {0, 1}
    BY BusyType
  <2>3. \/ entry[u] - head <= failures
        \/ entry[u] = tail /\ entry[u] - head <= failures + Busy(Threads \ {u})
    BY <2>1 DEF BacklogInv
  <2> DEFINE d == Busy(Threads \ {u})
             e == entry[u]
  <2>4. /\ d \in Int /\ d <= 1 /\ e \in Int /\ tail \in Int /\ head \in Int /\ failures \in Nat
        /\ (e - head <= failures) \/ (e = tail /\ e - head <= failures + d)
    BY <1>0, <2>1, <2>2, <2>3
  <2> HIDE DEF d, e
  <2>5. f = failures + 1 => e - k <= f
    BY <1>3, <2>4
  <2>6. f = failures /\ tail - k <= 0 => e - k <= f
    BY <1>3, <2>4
  <2>7. e - k <= f
    BY <1>4, <2>5, <2>6
  <2> QED
    BY <2>7 DEF e
<1> QED
  BY <1>1, <1>2, <1>c, <1>8, <1>9 DEF BacklogInv

LEMMA BacklogStep ==
  ASSUME QueueInv, BacklogInv, [Next]_vars
  PROVE  BacklogInv'
<1>0. pc \in [Threads -> Stages] /\ Loop \in Threads /\ \A w \in Workers : w \in Threads
  BY DEF QueueInv, QTypes, Threads
<1>1. ASSUME NEW t \in Threads, ~Inside(t), NEW o, Enter(t, o) PROVE BacklogInv'
  <2>1. /\ UNCHANGED <<tail, head, failures, entry>> /\ pc[t] = "out" /\ pc'[t] = "get"
        /\ \A u \in Threads : u # t => pc'[u] = pc[u]
    BY <1>0, <1>1 DEF Enter, Inside
  <2> QED
    BY <2>1, BacklogKept
<1>2. ASSUME NEW t \in Threads, GetNull(t) \/ Fill(t) PROVE BacklogInv'
  <2>1. /\ UNCHANGED <<tail, head, failures, entry>>
        /\ (pc[t] = "get" /\ pc'[t] = "out") \/ (pc[t] = "fill" /\ pc'[t] = "submit")
        /\ \A u \in Threads : u # t => pc'[u] = pc[u]
    BY <1>0, <1>2 DEF GetNull, Fill, Out
  <2> QED
    BY <2>1, BacklogKept
<1>3. CASE UNCHANGED vars
  BY <1>3, BacklogKept DEF vars
<1>4. CASE Async
  BY <1>0, <1>1, <1>4 DEF Async
<1>5. ASSUME NEW w \in Workers, Post(w) PROVE BacklogInv'
  BY <1>0, <1>1, <1>5 DEF Post
<1>6. CASE Drain
  BY <1>0, <1>1, <1>6 DEF Drain
<1> QED
  BY <1>2, <1>3, <1>4, <1>5, <1>6, BacklogGetTail, BacklogClaim, BacklogSubmit DEF Next

-----------------------------------------------------------------------------
(* Counting *)

LEMMA PositionsFinite ==
  ASSUME NEW s \in Seq(Ops), NEW o
  PROVE  IsFiniteSet(Positions(s, o)) /\ Cardinality(Positions(s, o)) \in Nat
<1>1. IsFiniteSet(1..Len(s)) /\ DOMAIN s = 1..Len(s)
  BY LenProperties, FS_Interval
<1>2. IsFiniteSet(Positions(s, o))
  BY <1>1, FS_Subset DEF Positions
<1> QED
  BY <1>2, FS_CardinalityType

\* A post that is put aside.
LEMMA PositionsAppend ==
  ASSUME NEW s \in Seq(Ops), NEW x \in Ops, NEW o
  PROVE  Cardinality(Positions(Append(s, x), o)) = Cardinality(Positions(s, o)) + IF x = o THEN 1 ELSE 0
<1> DEFINE a == Append(s, x)
           l == Len(s)
<1>1. /\ l \in Nat /\ DOMAIN s = 1..l /\ DOMAIN a = 1..(l + 1) /\ a[l + 1] = x
      /\ \A i \in 1..l : a[i] = s[i]
  BY AppendProperties, LenProperties
<1> HIDE DEF a, l
<1>2. (\A i \in 1..(l + 1) : i \in 1..l \/ i = l + 1) /\ (\A i \in 1..l : i \in 1..(l + 1))
      /\ l + 1 \in 1..(l + 1) /\ l + 1 \notin 1..l
  BY <1>1
<1>3. l + 1 \notin Positions(s, o)
  BY <1>1, <1>2 DEF Positions
<1>4. CASE x = o
  <2>1. Positions(a, o) = Positions(s, o) \cup {l + 1}
    BY <1>1, <1>2, <1>4 DEF Positions
  <2>2. Cardinality(Positions(a, o)) = Cardinality(Positions(s, o)) + 1
    BY <1>3, <2>1, PositionsFinite, FS_AddElement
  <2> QED
    BY <1>4, <2>2 DEF a
<1>5. CASE x # o
  <2>1. Positions(a, o) = Positions(s, o)
    BY <1>1, <1>2, <1>5 DEF Positions
  <2>2. Cardinality(Positions(s, o)) = Cardinality(Positions(s, o)) + 0
    BY PositionsFinite
  <2> QED
    BY <1>5, <2>1, <2>2 DEF a
<1> QED
  BY <1>4, <1>5

\* A post that is removed.
LEMMA PositionsTail ==
  ASSUME NEW s \in Seq(Ops), s # <<>>, NEW o
  PROVE  Cardinality(Positions(Tail(s), o)) = Cardinality(Positions(s, o)) - IF Head(s) = o THEN 1 ELSE 0
<1> DEFINE t == Tail(s)
           l == Len(s)
           P == Positions(s, o)
           T == Positions(t, o)
           f == [i \in T |-> i + 1]
<1>1. /\ l \in Nat \ {0} /\ DOMAIN s = 1..l /\ t \in Seq(Ops) /\ DOMAIN t = 1..(l - 1) /\ Head(s) = s[1]
      /\ \A i \in 1..(l - 1) : t[i] = s[i + 1]
  BY HeadTailProperties, LenProperties, EmptySeq
<1>2. IsFiniteSet(P) /\ IsFiniteSet(T) /\ Cardinality(P) \in Nat
  BY <1>1, PositionsFinite
<1> HIDE DEF t, l
<1>3. (\A i \in T : i \in Nat /\ i + 1 \in P /\ i + 1 # 1) /\ (\A j \in P \ {1} : j \in Nat /\ j - 1 \in T /\ (j - 1) + 1 = j)
  <2>1. ASSUME NEW i \in T PROVE i \in Nat /\ i + 1 \in P /\ i + 1 # 1
    <3>1. i \in 1..(l - 1) /\ t[i] = o
      BY <1>1 DEF Positions
    <3>2. i \in Nat /\ i + 1 \in 1..l /\ i + 1 # 1
      BY <1>1, <3>1
    <3> QED
      BY <1>1, <3>1, <3>2 DEF Positions
  <2>2. ASSUME NEW j \in P \ {1} PROVE j \in Nat /\ j - 1 \in T /\ (j - 1) + 1 = j
    <3>1. j \in 1..l /\ s[j] = o /\ j # 1
      BY <1>1 DEF Positions
    <3>2. j \in Nat /\ j - 1 \in 1..(l - 1) /\ (j - 1) + 1 = j
      BY <1>1, <3>1
    <3> QED
      BY <1>1, <3>1, <3>2 DEF Positions
  <2> QED
    BY <2>1, <2>2
<1>4. Cardinality(T) = Cardinality(P \ {1})
  <2> HIDE DEF P, T
  <2>1. f \in [T -> P \ {1}]
    BY <1>3
  <2>2. \A a, b \in T : f[a] = f[b] => a = b
    BY <1>3
  <2>3. \A j \in P \ {1} : \E i \in T : f[i] = j
    BY <1>3
  <2>4. f \in Bijection(T, P \ {1})
    BY <2>1, <2>2, <2>3, Fun_IsBij
  <2>5. ExistsBijection(T, P \ {1})
    BY <2>4 DEF ExistsBijection
  <2> QED
    BY <1>2, <2>5, FS_Bijection
<1>5. 1 \in P <=> Head(s) = o
  BY <1>1 DEF Positions
<1>6. Cardinality(P \ {1}) = IF 1 \in P THEN Cardinality(P) - 1 ELSE Cardinality(P)
  BY <1>2, FS_RemoveElement
<1>7. Cardinality(T) = Cardinality(P) - IF Head(s) = o THEN 1 ELSE 0
  <2> HIDE DEF P, T
  <2> QED
    BY <1>2, <1>4, <1>5, <1>6
<1> QED
  BY <1>7 DEF t

\* The entries from a to b, and those before and after m.
LEMMA HeldSplit ==
  ASSUME NEW o, NEW a \in Int, NEW m \in Int, NEW b \in Int, a <= m, m <= b
  PROVE  Cardinality(Held(o, a, b)) = Cardinality(Held(o, a, m)) + Cardinality(Held(o, m, b))
<1>1. \A i \in Int : i \in a..(b - 1) <=> i \in a..(m - 1) \/ i \in m..(b - 1)
  OBVIOUS
<1>2. \A i \in Int : ~(i \in a..(m - 1) /\ i \in m..(b - 1))
  OBVIOUS
<1>3. Held(o, a, b) = Held(o, a, m) \cup Held(o, m, b)
  BY <1>1 DEF Held
<1>4. Held(o, a, m) \cap Held(o, m, b) = {}
  BY <1>2 DEF Held
<1>5. /\ IsFiniteSet(Held(o, a, m)) /\ IsFiniteSet(Held(o, m, b))
      /\ Cardinality(Held(o, a, m)) \in Nat /\ Cardinality(Held(o, m, b)) \in Nat
  BY HeldFinite
<1>6. Cardinality(Held(o, a, m) \cup Held(o, m, b))
        = Cardinality(Held(o, a, m)) + Cardinality(Held(o, m, b))
          - Cardinality(Held(o, a, m) \cap Held(o, m, b))
  BY <1>5, FS_Union, Zenon
<1>7. Cardinality(Held(o, a, m) \cap Held(o, m, b)) = 0
  BY <1>4, FS_EmptySet
<1> QED
  BY <1>3, <1>5, <1>6, <1>7

\* Filling entry e leaves the entries that the kernel has not taken as they are.
LEMMA HeldFill ==
  ASSUME QTypes, NEW e \in Nat, head <= e, e < head + SqSize, NEW x \in Ops, NEW o,
         slots' = [slots EXCEPT ![e % SqSize] = x], head' = head
  PROVE  Cardinality(Held(o, head, e + 1)') = Cardinality(Held(o, head, e)) + IF x = o THEN 1 ELSE 0
<1>0. /\ head \in Nat /\ SqSize \in Nat \ {0} /\ DOMAIN slots = 0..(SqSize - 1)
      /\ slots \in [0..(SqSize - 1) -> Ops \cup {NoOp}]
  BY QueueAssumption DEF QTypes
<1>1. \A i \in Nat : (i % SqSize) \in 0..(SqSize - 1)
  BY <1>0
<1>2. ASSUME NEW i \in head..(e - 1) PROVE slots'[i % SqSize] = slots[i % SqSize]
  <2>1. i \in Nat /\ i < e /\ e - i < SqSize
    BY <1>0
  <2>2. i % SqSize # e % SqSize
    BY <1>0, <2>1, SlotsDiffer
  <2> QED
    BY <1>0, <1>1, <2>1, <2>2
<1>3. slots'[e % SqSize] = x
  BY <1>0, <1>1
<1>4. Held(o, head, e + 1)' = {i \in head..e : slots'[i % SqSize] = o}
  <2>1. (e + 1) - 1 = e
    OBVIOUS
  <2> QED
    BY <2>1 DEF Held
<1>5. (\A i \in head..e : i \in head..(e - 1) \/ i = e) /\ (\A i \in head..(e - 1) : i \in head..e) /\ e \in head..e /\ e \notin head..(e - 1)
  BY <1>0
<1>6. IsFiniteSet(Held(o, head, e)) /\ Cardinality(Held(o, head, e)) \in Nat /\ e \notin Held(o, head, e)
  <2>1. IsFiniteSet(Held(o, head, e)) /\ Cardinality(Held(o, head, e)) \in Nat
    BY <1>0, HeldFinite
  <2>2. e \notin Held(o, head, e)
    BY <1>5 DEF Held
  <2> QED
    BY <2>1, <2>2
<1>7. CASE x = o
  <2>1. Held(o, head, e + 1)' = Held(o, head, e) \cup {e}
    BY <1>2, <1>3, <1>4, <1>5, <1>7 DEF Held
  <2> QED
    BY <1>6, <1>7, <2>1, FS_AddElement
<1>8. CASE x # o
  <2>1. Held(o, head, e + 1)' = Held(o, head, e)
    BY <1>2, <1>3, <1>4, <1>5, <1>8 DEF Held
  <2> QED
    BY <1>6, <1>8, <2>1
<1> QED
  BY <1>7, <1>8

-----------------------------------------------------------------------------
(* Steps without races *)

\* Once the loop thread and a worker have met, they have met.
LEMMA RacedStays ==
  ASSUME Next, ~raced'
  PROVE  ~raced
<1> QED
  BY DEF Next, Async, Post, Drain, Enter, GetNull, GetTail, Claim, Fill, Submit

LEMMA AloneStep ==
  ASSUME QueueInv, AloneInv, Next
  PROVE  AloneInv'
<1> SUFFICES ASSUME ~raced' PROVE \A t, u \in Threads : Inside(t)' /\ Inside(u)' => t = u
  BY DEF AloneInv
<1>0. /\ ~raced /\ \A t, u \in Threads : Inside(t) /\ Inside(u) => t = u
  BY RacedStays DEF AloneInv
<1>1. /\ pc \in [Threads -> Stages] /\ MutexInv /\ Loop \in Threads
      /\ \A w \in Workers : w \in Threads
  BY DEF QueueInv, QTypes, Threads
<1>2. ASSUME NEW t \in Threads, NEW o, Enter(t, o),
             \A w \in Workers : t # Loop => ~Inside(w)
      PROVE  \A v, u \in Threads : Inside(v)' /\ Inside(u)' => v = u
  <2>1. \A u \in Threads \ {t} : ~(Inside(u) /\ Loop \in {t, u})
    BY <1>2 DEF Enter
  <2>2. \A u \in Threads \ {t} : ~Inside(u)
    BY <1>2, <2>1 DEF Threads
  <2>3. \A u \in Threads \ {t} : pc'[u] = pc[u]
    BY <1>1, <1>2 DEF Enter
  <2> QED
    BY <2>2, <2>3 DEF Inside
<1>3. ASSUME NEW t \in Threads, Inside(t), \A u \in Threads \ {t} : pc'[u] = pc[u]
      PROVE  \A v, u \in Threads : Inside(v)' /\ Inside(u)' => v = u
  BY <1>0, <1>3 DEF Inside
<1>4. CASE Async
  BY <1>1, <1>2, <1>4 DEF Async
<1>5. ASSUME NEW w \in Workers, Post(w)
      PROVE  \A v, u \in Threads : Inside(v)' /\ Inside(u)' => v = u
  <2>1. \A x \in Workers : ~Inside(x)
    BY <1>1, <1>5 DEF Post, Lock, MutexInv
  <2> QED
    BY <1>1, <1>2, <1>5, <2>1 DEF Post
<1>6. CASE Drain
  BY <1>1, <1>2, <1>6 DEF Drain
<1>7. ASSUME NEW t \in Threads, GetNull(t) \/ GetTail(t) \/ Claim(t) \/ Fill(t) \/ Submit(t)
      PROVE  Inside(t) /\ \A u \in Threads \ {t} : pc'[u] = pc[u]
  BY <1>1, <1>7 DEF GetNull, GetTail, Claim, Fill, Submit, Out, Inside
<1> QED
  BY <1>3, <1>4, <1>5, <1>6, <1>7 DEF Next

\* A thread that is in the queue, and the others, when there was no race.
LEMMA AloneFacts ==
  ASSUME OnceInv, ~raced, NEW t \in Threads, Inside(t)
  PROVE  \A u \in Threads \ {t} : pc[u] = "out"
<1> QED
  BY DEF OnceInv, AloneInv, Inside

\* The tail and the entry of the thread in the queue.
LEMMA RingStep ==
  ASSUME OnceInv, Next
  PROVE  RingInv'
<1> SUFFICES ASSUME ~raced' PROVE RingInv'
  BY DEF RingInv
<1>0. /\ ~raced /\ head <= tail /\ tail <= head + SqSize
      /\ \A t \in Threads :
           /\ pc[t] = "claim" => entry[t] = tail /\ tail < head + SqSize
           /\ pc[t] \in {"fill", "submit"} => tail = entry[t] + 1 /\ head <= entry[t]
  BY RacedStays DEF OnceInv, RingInv
<1>1. /\ QTypes /\ pc \in [Threads -> Stages] /\ entry \in [Threads -> Nat]
      /\ tail \in Nat /\ head \in Nat /\ SqSize \in Nat \ {0}
      /\ Loop \in Threads /\ \A w \in Workers : w \in Threads
  BY QueueAssumption DEF OnceInv, QueueInv, QTypes, Threads
<1>2. ASSUME UNCHANGED <<tail, head, entry>>,
             \A t \in Threads : pc'[t] = pc[t] \/ pc'[t] \in {"out", "get"} \/ (pc[t] = "fill" /\ pc'[t] = "submit")
      PROVE  RingInv'
  BY <1>0, <1>2 DEF RingInv
<1>3. ASSUME NEW t \in Threads, NEW o, Enter(t, o) PROVE RingInv'
  BY <1>1, <1>2, <1>3 DEF Enter
<1>4. Async \/ Drain \/ (\E w \in Workers : Post(w)) => RingInv'
  BY <1>1, <1>3 DEF Async, Drain, Post
<1>5. ASSUME NEW t \in Threads, GetNull(t) \/ Fill(t) PROVE RingInv'
  BY <1>1, <1>2, <1>5 DEF GetNull, Fill, Out
<1>6. ASSUME NEW t \in Threads, GetTail(t) PROVE RingInv'
  <2>1. /\ UNCHANGED <<tail, head>> /\ entry'[t] = tail /\ pc'[t] = "claim" /\ tail - head < SqSize
        /\ pc[t] = "get"
        /\ \A u \in Threads \ {t} : pc'[u] = pc[u] /\ entry'[u] = entry[u]
    BY <1>1, <1>6 DEF GetTail, Free
  <2>2. tail < head + SqSize
    BY <1>1, <1>6, <2>1 DEF GetTail, Free
  <2> QED
    BY <1>0, <2>1, <2>2 DEF RingInv
<1>7. ASSUME NEW t \in Threads, Claim(t) PROVE RingInv'
  <2>1. /\ UNCHANGED <<head, entry>> /\ tail' = entry[t] + 1 /\ pc'[t] = "fill" /\ pc[t] = "claim"
        /\ \A u \in Threads \ {t} : pc'[u] = pc[u]
    BY <1>1, <1>7 DEF Claim
  <2>2. \A u \in Threads \ {t} : pc[u] = "out"
    BY <1>0, <2>1, AloneFacts DEF Inside
  <2>3. entry[t] = tail /\ tail < head + SqSize
    BY <1>0, <2>1
  <2>4. head <= tail + 1 /\ tail + 1 <= head + SqSize
    BY <1>0, <1>1, <2>3
  <2> QED
    BY <1>0, <2>1, <2>2, <2>3, <2>4 DEF RingInv
<1>8. ASSUME NEW t \in Threads, Submit(t) PROVE RingInv'
  <2>1. /\ UNCHANGED <<tail, entry>> /\ pc'[t] \in {"out", "get"} /\ pc[t] = "submit"
        /\ \A u \in Threads \ {t} : pc'[u] = pc[u]
    BY <1>1, <1>8 DEF Submit, Out
  <2>2. \A u \in Threads \ {t} : pc[u] = "out"
    BY <1>0, <2>1, AloneFacts DEF Inside
  <2>3. \E n \in 0..Ready : head' = head + n
    BY <1>8 DEF Submit
  <2>4. Ready = tail - head
    BY <1>0, <1>1, ReadyType
  <2>5. \E k \in Nat : head' = k /\ k <= tail /\ tail <= k + SqSize
    BY <1>0, <1>1, <2>3, <2>4
  <2> QED
    BY <2>1, <2>2, <2>5 DEF RingInv
<1> QED
  BY <1>4, <1>5, <1>6, <1>7, <1>8 DEF Next

\* An operation is found where it was, and is placed as it was.
LEMMA PlaceKept ==
  ASSUME PlaceInv, ~raced, ~crashed,
         \A o \in Ops : Found(o)' = Found(o) /\ (Placed(o)' <=> Placed(o))
  PROVE  PlaceInv'
<1> QED
  BY DEF PlaceInv

\* An operation that was in no place is in one, or the other way round; the
\* others are where they were.
LEMMA PlaceMoved ==
  ASSUME PlaceInv, ~raced, ~crashed, NEW x \in Ops,
         Placed(x)' <=> ~Placed(x),
         \A o \in Ops \ {x} : Found(o)' = Found(o) /\ (Placed(o)' <=> Placed(o)),
         Found(x)' = IF Placed(x) THEN Found(x) - 1 ELSE Found(x) + 1
  PROVE  PlaceInv'
<1>1. Found(x) = IF Placed(x) THEN 1 ELSE 0
  BY DEF PlaceInv
<1>2. Found(x)' = IF Placed(x)' THEN 1 ELSE 0
  BY <1>1
<1> QED
  BY <1>2 DEF PlaceInv

LEMMA FoundType ==
  ASSUME QTypes, NEW o \in Ops
  PROVE  /\ Top \in Int /\ taken[o] \in Nat
         /\ Cardinality(Held(o, head, Top)) \in Nat /\ Cardinality(Positions(pending, o)) \in Nat
<1>1. Top \in Int /\ head \in Int /\ taken[o] \in Nat /\ pending \in Seq(Ops)
  BY DEF QTypes, Top
<1> QED
  BY <1>1, HeldFinite, PositionsFinite

\* A thread enters, or reads the tail.
LEMMA PlaceEnter ==
  ASSUME OnceInv, ~raced, ~crashed, NEW t \in Threads, pc[t] \in {"out", "get"},
         pc'[t] \in {"get", "claim"},
         \A u \in Threads \ {t} : pc'[u] = pc[u] /\ op'[u] = op[u],
         UNCHANGED <<issued, pending, tail, head, slots, taken>>
  PROVE  PlaceInv'
<1>1. Filling' <=> Filling
  BY DEF Filling
<1>2. Top' = Top
  BY <1>1 DEF Top
<1>3. \A o : Found(o)' = Found(o)
  BY <1>2 DEF Found, Held
<1>4. \A o : Placed(o)' <=> Placed(o)
  BY DEF Placed
<1> QED
  BY <1>3, <1>4, PlaceKept DEF OnceInv

\* The queue is full: a post is put aside, or stays so.
LEMMA PlaceGetNull ==
  ASSUME OnceInv, ~raced, ~crashed, NEW t \in Threads, GetNull(t), ~crashed'
  PROVE  PlaceInv'
<1>0. /\ QTypes /\ OpsInv /\ PlaceInv /\ pc \in [Threads -> Stages] /\ pending \in Seq(Ops)
      /\ Loop \notin Workers
  BY QueueAssumption DEF OnceInv, QueueInv, QTypes
<1>1. /\ pc[t] = "get" /\ issued' = issued \cup {op[t]} /\ UNCHANGED <<op, tail, head, slots, taken>>
      /\ pc' = [pc EXCEPT ![t] = "out"] /\ (t = Loop => Holds(t))
      /\ pending' = IF t \in Workers THEN Append(pending, op[t]) ELSE pending
  BY DEF GetNull, Out, PutAside
<1>2. /\ \A u \in Threads \ {t} : pc[u] = "out"
      /\ \A u \in Threads : pc[u] \notin {"fill", "submit"} /\ pc'[u] \notin {"fill", "submit"}
  BY <1>0, <1>1, AloneFacts DEF Inside
<1>3. Top = tail /\ Top' = tail
  BY <1>1, <1>2 DEF Top, Filling
<1>4. \A o : (Placed(o) <=> o \in issued) /\ (Placed(o)' <=> o \in issued \cup {op[t]})
  BY <1>1, <1>2 DEF Placed
<1>5. CASE t = Loop
  <2>1. op[t] \in issued /\ pending' = pending
    BY <1>0, <1>1, <1>5 DEF OpsInv, Inside
  <2>2. \A o : Found(o)' = Found(o)
    BY <1>1, <1>3, <2>1 DEF Found, Held
  <2> QED
    BY <1>0, <1>4, <2>1, <2>2, PlaceKept
<1>6. CASE t # Loop
  <2>1. /\ t \in Workers /\ op[t] \in Ops /\ op[t] \notin issued
        /\ pending' = Append(pending, op[t])
    BY <1>0, <1>1, <1>6 DEF OpsInv, Inside, Threads
  <2>2. ASSUME NEW o \in Ops
        PROVE  Found(o)' = IF o = op[t] THEN Found(o) + 1 ELSE Found(o)
    <3> DEFINE a == taken[o]
               b == Cardinality(Held(o, head, tail))
               c == Cardinality(Positions(pending, o))
    <3>1. a \in Nat /\ b \in Nat /\ c \in Nat
      BY <1>0, <1>3, FoundType
    <3>2. Cardinality(Positions(Append(pending, op[t]), o)) = c + IF op[t] = o THEN 1 ELSE 0
      BY <1>0, <2>1, PositionsAppend
    <3>3. Found(o) = a + b + c
      BY <1>3 DEF Found
    <3>4. Found(o)' = a + b + (c + IF op[t] = o THEN 1 ELSE 0)
      BY <1>1, <1>3, <2>1, <3>2 DEF Found, Held
    <3> HIDE DEF a, b, c
    <3> QED
      BY <3>1, <3>3, <3>4
  <2> QED
    BY <1>0, <1>4, <2>1, <2>2, PlaceMoved
<1> QED
  BY <1>5, <1>6

\* The entry is claimed, and a post that is drained leaves pending_posts_.
LEMMA PlaceClaim ==
  ASSUME OnceInv, ~raced, ~crashed, NEW t \in Threads, Claim(t)
  PROVE  PlaceInv'
<1>0. /\ QTypes /\ OpsInv /\ PlaceInv /\ DrainInv /\ pc \in [Threads -> Stages] /\ pending \in Seq(Ops)
      /\ tail \in Nat /\ issued \subseteq Ops
  BY DEF OnceInv, QueueInv, QTypes
<1>1. /\ pc[t] = "claim" /\ tail' = entry[t] + 1 /\ pc' = [pc EXCEPT ![t] = "fill"]
      /\ pending' = IF t = Loop /\ Holds(t) THEN Tail(pending) ELSE pending
      /\ UNCHANGED <<op, issued, head, slots, taken>>
  BY DEF Claim
<1>2. /\ \A u \in Threads \ {t} : pc[u] = "out" /\ pc'[u] = "out"
      /\ pc'[t] = "fill"
  BY <1>0, <1>1, AloneFacts DEF Inside
<1>3. Top = tail /\ Top' = tail
  <2>1. ~Filling /\ Filling'
    BY <1>1, <1>2 DEF Filling
  <2>2. entry[t] = tail
    BY <1>1 DEF OnceInv, RingInv
  <2>3. (tail + 1) - 1 = tail
    BY <1>0
  <2> QED
    BY <1>1, <2>1, <2>2, <2>3 DEF Top
<1>4. \A o : (Placed(o) <=> o \in issued) /\ (Placed(o)' <=> o \in issued /\ o # op[t])
  BY <1>1, <1>2 DEF Placed
<1>5. CASE t = Loop /\ Holds(t)
  <2>1. /\ op[t] \in issued /\ op[t] \in Ops /\ pending # <<>> /\ op[t] = Head(pending)
        /\ pending' = Tail(pending)
    BY <1>0, <1>1, <1>5 DEF OpsInv, DrainInv, Inside
  <2>2. ASSUME NEW o \in Ops
        PROVE  Found(o)' = IF o = op[t] THEN Found(o) - 1 ELSE Found(o)
    <3> DEFINE a == taken[o]
               b == Cardinality(Held(o, head, tail))
               c == Cardinality(Positions(pending, o))
    <3>1. a \in Nat /\ b \in Nat /\ c \in Nat
      BY <1>0, <1>3, FoundType
    <3>2. Cardinality(Positions(Tail(pending), o)) = c - IF op[t] = o THEN 1 ELSE 0
      BY <1>0, <2>1, PositionsTail
    <3>3. Found(o) = a + b + c
      BY <1>3 DEF Found
    <3>4. Found(o)' = a + b + (c - IF op[t] = o THEN 1 ELSE 0)
      BY <1>1, <1>3, <2>1, <3>2 DEF Found, Held
    <3> HIDE DEF a, b, c
    <3> QED
      BY <3>1, <3>3, <3>4
  <2> QED
    BY <1>0, <1>4, <2>1, <2>2, PlaceMoved
<1>6. CASE ~(t = Loop /\ Holds(t))
  <2>1. op[t] \notin issued /\ pending' = pending
    BY <1>0, <1>1, <1>6 DEF OpsInv, Inside
  <2>2. \A o : Found(o)' = Found(o)
    BY <1>1, <1>3, <2>1 DEF Found, Held
  <2> QED
    BY <1>0, <1>4, <2>1, <2>2, PlaceKept
<1> QED
  BY <1>5, <1>6

\* The entry is filled.
LEMMA PlaceFill ==
  ASSUME OnceInv, ~raced, ~crashed, NEW t \in Threads, Fill(t)
  PROVE  PlaceInv'
<1>0. /\ QTypes /\ OpsInv /\ PlaceInv /\ pc \in [Threads -> Stages] /\ entry[t] \in Nat
      /\ tail \in Nat /\ head \in Nat /\ SqSize \in Nat /\ issued \subseteq Ops
  BY QueueAssumption DEF OnceInv, QueueInv, QTypes
<1>e. PICK e \in Nat : e = entry[t]
  BY <1>0
<1>1. /\ pc[t] = "fill" /\ slots' = [slots EXCEPT ![e % SqSize] = op[t]]
      /\ pc' = [pc EXCEPT ![t] = "submit"]
      /\ UNCHANGED <<op, issued, head, tail, pending, taken>>
  BY <1>e DEF Fill
<1>2. /\ \A u \in Threads \ {t} : pc[u] = "out" /\ pc'[u] = "out"
      /\ pc'[t] = "submit"
  BY <1>0, <1>1, AloneFacts DEF Inside
<1>3. /\ tail = e + 1 /\ head <= e /\ e < head + SqSize
  <2>1. tail = e + 1 /\ head <= e /\ tail <= head + SqSize
    BY <1>1, <1>e DEF OnceInv, RingInv
  <2> QED
    BY <1>0, <2>1
<1>4. Top = e /\ Top' = e + 1
  <2>1. Filling /\ ~Filling'
    BY <1>1, <1>2 DEF Filling
  <2>2. (e + 1) - 1 = e
    BY <1>0
  <2> QED
    BY <1>1, <1>3, <2>1, <2>2 DEF Top
<1>5. \A o : (Placed(o) <=> o \in issued /\ o # op[t]) /\ (Placed(o)' <=> o \in issued \/ o = op[t])
  BY <1>1, <1>2 DEF Placed
<1>6. op[t] \in Ops
  BY <1>0, <1>1 DEF OpsInv, Inside
<1>7. ASSUME NEW o \in Ops
      PROVE  Found(o)' = IF o = op[t] THEN Found(o) + 1 ELSE Found(o)
  <2> DEFINE a == taken[o]
             b == Cardinality(Held(o, head, e))
             c == Cardinality(Positions(pending, o))
  <2>1. a \in Nat /\ b \in Nat /\ c \in Nat
    BY <1>0, <1>4, FoundType
  <2>2. Cardinality(Held(o, head, e + 1)') = b + IF op[t] = o THEN 1 ELSE 0
    <3>1. QTypes /\ head \in Nat /\ UNCHANGED head
      BY <1>0, <1>1
    <3> QED
      BY <1>1, <1>3, <1>6, <3>1, HeldFill
  <2>3. Found(o) = a + b + c
    BY <1>4 DEF Found
  <2>4. Found(o)' = a + (b + IF op[t] = o THEN 1 ELSE 0) + c
    <3>1. Held(o, head, Top)' = Held(o, head, e + 1)'
      BY <1>1, <1>4 DEF Held
    <3> QED
      BY <1>1, <2>2, <3>1 DEF Found
  <2> HIDE DEF a, b, c
  <2> QED
    BY <2>1, <2>3, <2>4
<1> QED
  BY <1>0, <1>5, <1>6, <1>7, PlaceMoved

\* The kernel takes entries: they are with it instead of in the queue.
LEMMA PlaceSubmit ==
  ASSUME OnceInv, ~raced, ~crashed, NEW t \in Threads, Submit(t)
  PROVE  PlaceInv'
<1>0. /\ QTypes /\ PlaceInv /\ pc \in [Threads -> Stages]
      /\ tail \in Nat /\ head \in Nat /\ head <= tail
  BY DEF OnceInv, QueueInv, QTypes, RingInv
<1>1. /\ pc[t] = "submit" /\ issued' = issued \cup {op[t]} /\ UNCHANGED <<pending, tail, slots>>
      /\ pc'[t] \in {"out", "get"} /\ \A u \in Threads \ {t} : pc'[u] = pc[u]
  BY <1>0 DEF Submit, Out
<1>2. PICK n \in 0..Ready : head' = head + n /\ taken' = [o \in Ops |-> taken[o] + TakenBy(o, n)]
  BY DEF Submit
<1>3. \A u \in Threads \ {t} : pc[u] = "out" /\ pc'[u] = "out"
  BY <1>0, <1>1, AloneFacts DEF Inside
<1>4. Top = tail /\ Top' = tail
  BY <1>1, <1>3 DEF Top, Filling
<1>5. \A o : Placed(o)' <=> Placed(o)
  BY <1>1, <1>3 DEF Placed
<1>6. n \in Nat /\ head + n <= tail
  BY <1>0, <1>2, ReadyType
<1>7. ASSUME NEW o \in Ops PROVE Found(o)' = Found(o)
  <2> DEFINE a == taken[o]
             b == Cardinality(Held(o, head, head + n))
             c == Cardinality(Held(o, head + n, tail))
             d == Cardinality(Positions(pending, o))
  <2>1. head + n \in Int /\ head \in Int /\ tail \in Int /\ head <= head + n /\ head + n <= tail
    BY <1>0, <1>6
  <2>2. a \in Nat /\ b \in Nat /\ c \in Nat /\ d \in Nat
    BY <1>0, <2>1, FoundType, HeldFinite
  <2>3. Cardinality(Held(o, head, tail)) = b + c
    BY <2>1, HeldSplit
  <2>4. Found(o) = a + (b + c) + d
    BY <1>4, <2>3 DEF Found
  <2>5. taken'[o] = a + b
    BY <1>0, <1>2, <1>6, TakenHeld
  <2>6. Found(o)' = (a + b) + c + d
    BY <1>1, <1>2, <1>4, <2>5 DEF Found, Held
  <2> HIDE DEF a, b, c, d
  <2> QED
    BY <2>2, <2>4, <2>6
<1> QED
  BY <1>0, <1>5, <1>7, PlaceKept

LEMMA PlaceStep ==
  ASSUME OnceInv, Next
  PROVE  PlaceInv'
<1> SUFFICES ASSUME ~raced', ~crashed' PROVE PlaceInv'
  BY DEF PlaceInv
<1>0. ~raced /\ ~crashed
  BY RacedStays DEF Next
<1>1. /\ pc \in [Threads -> Stages] /\ op \in [Threads -> Ops \cup {NoOp}] /\ Loop \in Threads
      /\ \A w \in Workers : w \in Threads
  BY DEF OnceInv, QueueInv, QTypes, Threads
<1>2. ASSUME NEW t \in Threads, ~Inside(t), NEW o, Enter(t, o), UNCHANGED pending PROVE PlaceInv'
  <2>1. /\ pc[t] = "out" /\ pc'[t] = "get" /\ UNCHANGED <<issued, pending, tail, head, slots, taken>>
        /\ \A u \in Threads \ {t} : pc'[u] = pc[u] /\ op'[u] = op[u]
    BY <1>1, <1>2 DEF Enter, Inside
  <2> QED
    BY <1>0, <2>1, PlaceEnter
<1>3. ASSUME NEW t \in Threads, GetTail(t) PROVE PlaceInv'
  <2>1. /\ pc[t] = "get" /\ pc'[t] = "claim" /\ UNCHANGED <<issued, pending, tail, head, slots, taken>>
        /\ \A u \in Threads \ {t} : pc'[u] = pc[u] /\ op'[u] = op[u]
    BY <1>1, <1>3 DEF GetTail
  <2> QED
    BY <1>0, <2>1, PlaceEnter
<1>4. CASE Async
  BY <1>1, <1>2, <1>4 DEF Async
<1>5. ASSUME NEW w \in Workers, Post(w) PROVE PlaceInv'
  BY <1>1, <1>2, <1>5 DEF Post
<1>6. CASE Drain
  BY <1>1, <1>2, <1>6 DEF Drain
<1> QED
  BY <1>0, <1>3, <1>4, <1>5, <1>6, PlaceGetNull, PlaceClaim, PlaceFill, PlaceSubmit DEF Next

LEMMA OnceInvariant == Spec => []OnceInv
<1>1. Init => OnceInv
  <2> SUFFICES ASSUME Init PROVE OnceInv
    OBVIOUS
  <2>1. QueueInv
    BY QueueInvInitially
  <2>2. AloneInv /\ RingInv
    BY QueueAssumption DEF Init, AloneInv, RingInv, Inside
  <2>3. PlaceInv
    <3> SUFFICES ASSUME NEW o \in Ops PROVE Found(o) = IF Placed(o) THEN 1 ELSE 0
      BY DEF PlaceInv
    <3>1. ~Placed(o) /\ ~Filling
      BY DEF Init, Placed, Filling
    <3>2. Held(o, head, Top) = {} /\ Positions(pending, o) = {}
      BY <3>1 DEF Init, Held, Positions, Top
    <3>3. taken[o] = 0 /\ Cardinality(Held(o, head, Top)) = 0 /\ Cardinality(Positions(pending, o)) = 0
      BY <3>2, FS_EmptySet DEF Init
    <3>4. Found(o) = 0
      BY <3>3 DEF Found
    <3> QED
      BY <3>1, <3>4
  <2> QED
    BY <2>1, <2>2, <2>3 DEF OnceInv
<1>2. OnceInv /\ [Next]_vars => OnceInv'
  <2> SUFFICES ASSUME OnceInv, [Next]_vars PROVE OnceInv'
    OBVIOUS
  <2>1. QueueInv'
    BY QueueInvStep DEF OnceInv
  <2>2. CASE Next
    BY <2>1, <2>2, AloneStep, RingStep, PlaceStep DEF OnceInv
  <2>3. CASE UNCHANGED vars
    <3>1. AloneInv' /\ RingInv'
      BY <2>3 DEF OnceInv, AloneInv, RingInv, vars, Inside
    <3>2. PlaceInv'
      BY <2>3 DEF OnceInv, PlaceInv, vars, Found, Placed, Held, Top, Filling, Positions
    <3> QED
      BY <2>1, <3>1, <3>2 DEF OnceInv
  <2> QED
    BY <2>2, <2>3
<1> QED
  BY <1>1, <1>2, PTL DEF Spec

\* Every submitted operation is with the kernel, in the queue or put aside, once,
\* when no thread is in the queue and the loop thread and a worker have never
\* been there together.
THEOREM OnceCorrect == Spec => []OnceUnlessRaced
<1>1. OnceInv => OnceUnlessRaced
  <2> SUFFICES ASSUME OnceInv, Quiet, ~raced, NEW o \in issued PROVE Places(o) = 1
    BY DEF OnceUnlessRaced
  <2>1. QTypes /\ o \in Ops /\ tail \in Nat /\ head \in Nat
    BY DEF OnceInv, QueueInv, QTypes
  <2>2. Placed(o) /\ ~Filling
    BY DEF Placed, Filling, Quiet, Inside
  <2>3. Found(o) = 1 /\ Top = tail
    BY <2>1, <2>2 DEF OnceInv, PlaceInv, Quiet, Top
  <2>4. TakenBy(o, tail - head) = Cardinality(Held(o, head, tail))
    <3>1. tail - head \in Int /\ head + (tail - head) = tail
      BY <2>1
    <3> QED
      BY <2>1, <3>1, TakenHeld
  <2> QED
    BY <2>3, <2>4 DEF Found, Places, Positions
<1> QED
  BY <1>1, OnceInvariant, PTL

-----------------------------------------------------------------------------
(* The null entry *)

\* A null entry that is used, and the state after it: the tail is too far ahead
\* of the head, or behind it, which it never is without a race.
LEMMA NullStep ==
  ASSUME QueueInv, RingInv, BacklogInv, NullNeedsFailures, [Next]_vars
  PROVE  NullNeedsFailures'
<1>1. CASE UNCHANGED vars
  BY <1>1 DEF NullNeedsFailures, vars, Inside
<1>2. CASE Next /\ ~crashed'
  BY <1>2 DEF NullNeedsFailures
<1>3. CASE Next /\ crashed'
  <2>1. ~crashed /\ GetNull(Loop) /\ ~Holds(Loop)
    BY <1>3 DEF Next, Async, Post, Drain, Enter, GetNull, GetTail, Claim, Fill, Submit
  <2>2. /\ MutexInv /\ pc \in [Threads -> Stages] /\ tail \in Nat /\ head \in Nat /\ failures \in Nat
        /\ SqSize \in Nat /\ Loop \in Threads /\ Loop \notin Workers
    BY QueueAssumption DEF QueueInv, QTypes, Threads
  <2>3. /\ pc[Loop] = "get" /\ Full /\ UNCHANGED <<failures, tail, head, raced>>
        /\ \A w \in Workers : pc'[w] = pc[w]
    BY <2>1, <2>2 DEF GetNull, Out, Threads
  <2>4. CASE tail < head
    <3>1. raced
      BY <2>2, <2>4 DEF RingInv
    <3> QED
      BY <2>3, <2>4, <3>1 DEF NullNeedsFailures
  <2>5. CASE tail - head >= SqSize
    <3>1. Busy({Loop}) = 0 /\ Busy(Workers) \in {0, 1}
      BY <2>3, BusyType DEF Busy
    <3>2. failures + Busy(Workers) >= SqSize
      BY <2>2, <2>5, <3>1 DEF BacklogInv
    <3> DEFINE I == {w \in Workers : Inside(w)'}
    <3>3. Cardinality(I) \in Nat /\ Cardinality(I) >= Busy(Workers)
      <4>1. CASE \E w \in Workers : Inside(w)
        <5>1. PICK w \in Workers : Inside(w)
          BY <4>1
        <5>2. I = {w}
          BY <2>2, <2>3, <5>1 DEF MutexInv, Inside
        <5>3. Cardinality({w}) = 1
          BY FS_Singleton
        <5> QED
          BY <3>1, <5>2, <5>3
      <4>2. CASE \A w \in Workers : ~Inside(w)
        <5>1. I = {} /\ Busy(Workers) = 0
          BY <2>3, <4>2 DEF Inside, Busy
        <5> QED
          BY <5>1, FS_EmptySet
      <4> QED
        BY <4>1, <4>2
    <3>4. failures' + Cardinality(I) >= SqSize
      <4> HIDE DEF I
      <4> QED
        BY <2>2, <2>3, <3>1, <3>2, <3>3
    <3> QED
      BY <3>4 DEF NullNeedsFailures
  <2> QED
    BY <2>3, <2>4, <2>5 DEF Full
<1> QED
  BY <1>1, <1>2, <1>3

\* The unchecked entry of an operation is null only after as many submissions
\* have failed as the queue has entries, one fewer when a worker is in the
\* queue as well, or after a race that has put the tail behind the head.
THEOREM NullCorrect == Spec => []NullNeedsFailures
<1>1. Init => BacklogInv /\ NullNeedsFailures
  BY BusyType DEF Init, BacklogInv, Busy, Threads, NullNeedsFailures
<1>2. OnceInv /\ BacklogInv /\ NullNeedsFailures /\ [Next]_vars => BacklogInv' /\ NullNeedsFailures'
  BY BacklogStep, NullStep DEF OnceInv
<1> QED
  BY <1>1, <1>2, OnceInvariant, PTL DEF Spec
=============================================================================
