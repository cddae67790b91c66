-------------------------- MODULE ThreadPoolProofs --------------------------
(***************************************************************************)
(* Proofs about the thread pool and its hand-off with the event loop, for  *)
(* any jobs, any finite number of workers and any size of the submission   *)
(* queue: no wake-up is lost or doubled, no task is stranded, and the pool *)
(* implements Offload.                                                     *)
(***************************************************************************)
EXTENDS ThreadPool, SequenceTheorems, FiniteSetTheorems, TLAPS

\* The operations are what the model makes them: different for different jobs,
\* and none of them NoOp.
LEMMA OpsFacts ==
  /\ \A j \in Jobs : Nop(j) \in Ops /\ Start(j) \in Ops
  /\ \A j, k \in Jobs : Nop(j) # Start(k) /\ (Nop(j) = Nop(k) => j = k)
  /\ NoOp \notin Ops
<1>1. \A j \in Jobs : Nop(j) \in Ops /\ Start(j) \in Ops
  BY JobsAssumption
<1>2. \A j, k \in Jobs : Nop(j) # Start(k) /\ (Nop(j) = Nop(k) => j = k)
  BY DEF Nop, Start
<1> QED
  BY <1>1, <1>2, RingAssumption

-----------------------------------------------------------------------------
(* Queues *)

\* A sequence without repetitions.
Distinct(s) == \A i, k \in DOMAIN s : s[i] = s[k] => i = k

\* pending_posts_.push and tasks_.push of something new.
LEMMA AppendFacts ==
  ASSUME NEW S, NEW s \in Seq(S), NEW x \in S, Distinct(s), x \notin Range(s)
  PROVE  /\ Append(s, x) \in Seq(S) /\ Distinct(Append(s, x))
         /\ Range(Append(s, x)) = Range(s) \cup {x}
<1>1. /\ Append(s, x) \in Seq(S) /\ Len(Append(s, x)) = Len(s) + 1
      /\ \A i \in 1..Len(s) : Append(s, x)[i] = s[i]
      /\ Append(s, x)[Len(s) + 1] = x
      /\ Len(s) \in Nat /\ DOMAIN s = 1..Len(s) /\ DOMAIN Append(s, x) = 1..(Len(s) + 1)
  BY AppendProperties, LenProperties
<1>2. \A i \in 1..(Len(s) + 1) : i \in 1..Len(s) \/ i = Len(s) + 1
  BY <1>1
<1>3. Range(Append(s, x)) = Range(s) \cup {x}
  BY <1>1, <1>2 DEF Range
<1>4. \A i \in 1..Len(s) : s[i] # x
  BY <1>1 DEF Range
<1>5. Distinct(Append(s, x))
  BY <1>1, <1>2, <1>4 DEF Distinct
<1> QED
  BY <1>1, <1>3, <1>5

\* A queue taken apart at position n.
LEMMA SplitFacts ==
  ASSUME NEW S, NEW s \in Seq(S), Distinct(s), NEW n \in 0..Len(s)
  PROVE  LET a == SubSeq(s, 1, n)
             b == SubSeq(s, n + 1, Len(s))
         IN  /\ b \in Seq(S) /\ Distinct(b)
             /\ Range(a) \cup Range(b) = Range(s) /\ Range(a) \cap Range(b) = {}
<1> DEFINE a == SubSeq(s, 1, n)
           b == SubSeq(s, n + 1, Len(s))
<1>1. Len(s) \in Nat /\ DOMAIN s = 1..Len(s) /\ \A i \in 1..Len(s) : s[i] \in S
  BY LenProperties
<1>2. a \in Seq(S) /\ Len(a) = n /\ \A i \in 1..n : a[i] = s[i]
  <2>1. \A i \in 1..n : s[i] \in S
    BY <1>1
  <2>2. /\ a \in Seq(S) /\ Len(a) = IF 1 <= n THEN n - 1 + 1 ELSE 0
        /\ \A i \in 1..(n - 1 + 1) : a[i] = s[1 + i - 1]
    BY <2>1, <1>1, SubSeqProperties
  <2> QED
    BY <2>2, <1>1
<1>3. /\ b \in Seq(S) /\ Len(b) = Len(s) - n
      /\ \A i \in 1..(Len(s) - n) : b[i] = s[n + i]
  <2>1. \A i \in (n + 1)..Len(s) : s[i] \in S
    BY <1>1
  <2>2. /\ b \in Seq(S) /\ Len(b) = IF n + 1 <= Len(s) THEN Len(s) - (n + 1) + 1 ELSE 0
        /\ \A i \in 1..(Len(s) - (n + 1) + 1) : b[i] = s[(n + 1) + i - 1]
    BY <2>1, <1>1, SubSeqProperties
  <2> HIDE DEF a, b
  <2>3. ASSUME NEW l \in Nat, NEW k \in 0..l
        PROVE  /\ l - (k + 1) + 1 = l - k /\ (~(k + 1 <= l) => l - k = 0)
               /\ \A i \in 1..(l - k) : (k + 1) + i - 1 = k + i
    OBVIOUS
  <2>4. /\ Len(s) - (n + 1) + 1 = Len(s) - n /\ (~(n + 1 <= Len(s)) => Len(s) - n = 0)
        /\ \A i \in 1..(Len(s) - n) : (n + 1) + i - 1 = n + i
    BY <2>3, <1>1, Zenon
  <2> QED
    BY <2>2, <2>4, Zenon
<1> HIDE DEF a, b
<1>4. DOMAIN a = 1..n /\ DOMAIN b = 1..(Len(s) - n)
  BY <1>2, <1>3, LenProperties
<1>5. Distinct(b)
  <2> SUFFICES ASSUME NEW i \in 1..(Len(s) - n), NEW k \in 1..(Len(s) - n), b[i] = b[k]
               PROVE  i = k
    BY <1>4 DEF Distinct
  <2>1. n + i \in DOMAIN s /\ n + k \in DOMAIN s /\ s[n + i] = s[n + k]
    BY <1>1, <1>3
  <2> QED
    BY <2>1, <1>1 DEF Distinct
<1>6. \A x \in Range(s) : x \in Range(a) \/ x \in Range(b)
  <2> SUFFICES ASSUME NEW i \in 1..Len(s) PROVE s[i] \in Range(a) \/ s[i] \in Range(b)
    BY <1>1 DEF Range
  <2>1. CASE i <= n
    BY <2>1, <1>1, <1>2, <1>4 DEF Range
  <2>2. CASE i > n
    <3>1. i - n \in 1..(Len(s) - n) /\ b[i - n] = s[i]
      BY <2>2, <1>1, <1>3
    <3> QED
      BY <3>1, <1>4 DEF Range
  <2> QED
    BY <2>1, <2>2, <1>1
<1>7. Range(a) \subseteq Range(s)
  BY <1>1, <1>2, <1>4 DEF Range
<1>8. Range(b) \subseteq Range(s)
  <2>1. \A i \in 1..(Len(s) - n) : n + i \in 1..Len(s) /\ b[i] = s[n + i]
    BY <1>1, <1>3
  <2> QED
    BY <2>1, <1>1, <1>4 DEF Range
<1>9. Range(a) \cap Range(b) = {}
  <2> SUFFICES ASSUME NEW i \in 1..n, NEW k \in 1..(Len(s) - n), a[i] = b[k] PROVE FALSE
    BY <1>4 DEF Range
  <2>1. i \in DOMAIN s /\ n + k \in DOMAIN s /\ s[i] = s[n + k] /\ i # n + k
    BY <1>1, <1>2, <1>3
  <2> QED
    BY <2>1 DEF Distinct
<1> QED
  BY <1>3, <1>5, <1>6, <1>7, <1>8, <1>9 DEF a, b

\* tasks_.pop.
LEMMA TailFacts ==
  ASSUME NEW S, NEW s \in Seq(S), s # <<>>, Distinct(s)
  PROVE  /\ Head(s) \in S /\ Tail(s) \in Seq(S) /\ Distinct(Tail(s))
         /\ Range(s) = Range(Tail(s)) \cup {Head(s)} /\ Head(s) \notin Range(Tail(s))
<1>1. /\ Len(s) \in Nat \ {0} /\ DOMAIN s = 1..Len(s) /\ Head(s) = s[1] /\ Head(s) \in S
      /\ Tail(s) \in Seq(S) /\ Len(Tail(s)) = Len(s) - 1 /\ DOMAIN Tail(s) = 1..(Len(s) - 1)
      /\ \A i \in 1..(Len(s) - 1) : Tail(s)[i] = s[i + 1]
  BY HeadTailProperties, LenProperties, EmptySeq
<1>2. Distinct(Tail(s))
  <2> SUFFICES ASSUME NEW i \in 1..(Len(s) - 1), NEW k \in 1..(Len(s) - 1), Tail(s)[i] = Tail(s)[k]
               PROVE  i = k
    BY <1>1 DEF Distinct
  <2>1. i + 1 \in DOMAIN s /\ k + 1 \in DOMAIN s /\ s[i + 1] = s[k + 1]
    BY <1>1
  <2> QED
    BY <2>1, <1>1 DEF Distinct
<1>3. Range(Tail(s)) \subseteq Range(s) /\ Head(s) \in Range(s)
  BY <1>1 DEF Range
<1>4. \A x \in Range(s) : x \in Range(Tail(s)) \/ x = Head(s)
  <2> SUFFICES ASSUME NEW i \in 1..Len(s), i # 1 PROVE s[i] \in Range(Tail(s))
    BY <1>1 DEF Range
  <2>1. i - 1 \in 1..(Len(s) - 1) /\ Tail(s)[i - 1] = s[i]
    BY <1>1
  <2> QED
    BY <2>1, <1>1 DEF Range
<1>5. Head(s) \notin Range(Tail(s))
  <2> SUFFICES ASSUME NEW i \in 1..(Len(s) - 1), Tail(s)[i] = s[1] PROVE FALSE
    BY <1>1 DEF Range
  <2>1. i + 1 \in DOMAIN s /\ 1 \in DOMAIN s /\ s[i + 1] = s[1] /\ i + 1 # 1
    BY <1>1
  <2> QED
    BY <2>1 DEF Distinct
<1> QED
  BY <1>1, <1>2, <1>3, <1>4, <1>5

-----------------------------------------------------------------------------
(* The event loop: an operation is in one place at a time *)

\* The types of the queues, and that no operation is in two places or twice in
\* pending_posts_.
RingInv ==
  /\ pending \in Seq(Ops) /\ sq \subseteq Ops /\ kernel \subseteq Ops /\ cq \subseteq Ops
  /\ current \in Ops \cup {NoOp}
  /\ Distinct(pending)
  /\ Range(pending) \cap (sq \cup kernel \cup cq) = {}
  /\ sq \cap (kernel \cup cq) = {} /\ kernel \cap cq = {}
  /\ current \notin Range(pending) \cup sq \cup kernel \cup cq

\* post_coroutine of an operation that is nowhere puts it in one place, the full
\* submission queue and the failing submission included.
LEMMA PostRing ==
  ASSUME RingInv, NEW op \in Ops, ~Queued(op), Post(op), UNCHANGED <<cq, current>>
  PROVE  RingInv' /\ \A o \in Ops : Queued(o)' <=> Queued(o) \/ o = op
<1>1. op \notin Range(pending) \cup sq \cup kernel \cup cq /\ op # current
  BY DEF Queued
<1>2. CASE pending' = Append(pending, op) /\ UNCHANGED <<sq, kernel>>
  <2>1. /\ pending' \in Seq(Ops) /\ Distinct(pending')
        /\ Range(pending') = Range(pending) \cup {op}
    BY <1>1, <1>2, AppendFacts DEF RingInv
  <2> QED
    BY <1>1, <1>2, <2>1 DEF RingInv, Queued
<1>3. CASE Submit(op)
  <2>1. PICK left \in SUBSET (sq \cup {op}) :
          /\ sq' = left
          /\ kernel' = kernel \cup ((sq \cup {op}) \ left)
          /\ pending' = pending
    BY <1>3 DEF Submit, Unsubmitted
  <2> QED
    BY <1>1, <2>1 DEF RingInv, Queued
<1> QED
  BY <1>2, <1>3 DEF Post

\* drain_pending_posts moves posts and loses none.
LEMMA DrainRing ==
  ASSUME RingInv, Drain
  PROVE  RingInv' /\ \A o \in Ops : Queued(o)' <=> Queued(o)
<1>1. PICK n \in 0..Len(pending) :
        \E left \in SUBSET (sq \cup Range(SubSeq(pending, 1, n))) :
          /\ pending' = SubSeq(pending, n + 1, Len(pending))
          /\ sq' = left
          /\ kernel' = kernel \cup ((sq \cup Range(SubSeq(pending, 1, n))) \ left)
  BY DEF Drain, Unsubmitted
<1> DEFINE a == Range(SubSeq(pending, 1, n))
           b == SubSeq(pending, n + 1, Len(pending))
<1>2. b \in Seq(Ops) /\ Distinct(b) /\ a \cup Range(b) = Range(pending) /\ a \cap Range(b) = {}
  BY SplitFacts DEF RingInv
<1>3. PICK left \in SUBSET (sq \cup a) :
        pending' = b /\ sq' = left /\ kernel' = kernel \cup ((sq \cup a) \ left)
  BY <1>1
<1>4. UNCHANGED <<cq, current>>
  BY DEF Drain
<1> HIDE DEF a, b
<1>5. RingInv'
  <2>1. pending' \in Seq(Ops) /\ Distinct(pending)'
    BY <1>2, <1>3
  <2>2. a \subseteq Ops
    BY <1>2 DEF RingInv, Range
  <2>3. Range(pending)' = Range(b)
    BY <1>3
  <2> QED
    BY <1>2, <1>3, <1>4, <2>1, <2>2, <2>3 DEF RingInv
<1>6. \A o \in Ops : Queued(o)' <=> Queued(o)
  BY <1>2, <1>3, <1>4 DEF RingInv, Queued
<1> QED
  BY <1>5, <1>6

\* io_uring_wait_cqe hands an operation to the loop.
LEMMA TakeRing ==
  ASSUME RingInv, NEW op \in Ops, Take(op), current = NoOp
  PROVE  RingInv' /\ \A o \in Ops : Queued(o)' <=> Queued(o)
<1> QED
  BY RingAssumption DEF RingInv, Queued, Take

\* A completion moves an operation from the kernel to the completion queue.
LEMMA CompleteRing ==
  ASSUME RingInv, NEW op \in Ops, Complete(op)
  PROVE  RingInv' /\ \A o \in Ops : Queued(o)' <=> Queued(o)
<1> QED
  BY DEF RingInv, Queued, Complete

\* io_uring_cqe_seen removes the current operation and nothing else.
LEMMA SeenRing ==
  ASSUME RingInv, Seen
  PROVE  RingInv' /\ \A o \in Ops : Queued(o)' <=> Queued(o) /\ o # current
<1>1. UNCHANGED <<pending, sq, kernel, cq>> /\ current' = NoOp
  BY DEF Seen
<1>2. NoOp \notin Range(pending)
  BY RingAssumption DEF RingInv, Range
<1>3. RingInv'
  BY <1>1, <1>2, RingAssumption DEF RingInv
<1>4. \A o \in Ops : Queued(o)' <=> Queued(o) /\ o # current
  BY <1>1, RingAssumption DEF RingInv, Queued
<1> QED
  BY <1>3, <1>4

-----------------------------------------------------------------------------
(* The inductive invariant *)

\* Only a dispatching loop has a current operation; the engine outlives run(),
\* and only a post after its destruction is a bad one.
LoopInv ==
  /\ lpc # "dispatch" => current = NoOp
  /\ engine \/ lpc = "stopped"
  /\ badPost => ~engine

\* A job is in one place: not pushed, in tasks_, run by one worker, or done; and
\* its waiter is named exactly from await_suspend on.
JobInv ==
  /\ Distinct(tasks)
  /\ \A j \in Range(tasks) : ~done[j] /\ cpc[j] # "io"
  /\ \A w \in Workers : wpc[w] = "running" =>
       /\ wjob[w] \in Jobs /\ wjob[w] \notin Range(tasks)
       /\ ~done[wjob[w]] /\ cpc[wjob[w]] # "io"
  /\ \A v, w \in Workers :
       wpc[v] = "running" /\ wpc[w] = "running" /\ wjob[v] = wjob[w] => v = w
  /\ \A j \in Jobs :
       /\ cpc[j] = "io" => ~done[j]
       /\ cpc[j] = "suspended" => waiter[j]
       /\ waiter[j] => cpc[j] \in {"suspended", "resumed"}
       /\ cpc[j] = "resumed" => done[j]

\* A worker leaves only a pool that is being destroyed and has no task.
ExitInv == \A w \in Workers : wpc[w] = "exited" => stop /\ tasks = <<>>

PoolInv == TTypeOK /\ RingInv /\ LoopInv /\ JobInv /\ WakeupExact /\ ExitInv

\* What a step that leaves the pool alone leaves of the invariant.
LEMMA PoolSame ==
  ASSUME PoolInv, UNCHANGED poolVars, RingInv', LoopInv', lpc' \in LoopPhases,
         {running, signalled, asked}' \subseteq BOOLEAN,
         \A o \in Ops : Queued(o)' <=> Queued(o)
  PROVE  PoolInv'
<1> USE DEF PoolInv, poolVars
<1>1. TTypeOK'
  BY DEF TTypeOK, RingInv
<1>2. JobInv'
  BY DEF JobInv
<1>3. WakeupExact'
  BY OpsFacts DEF WakeupExact
<1>4. ExitInv'
  BY DEF ExitInv, stop
<1> QED
  BY <1>1, <1>2, <1>3, <1>4

\* The steps of the loop, of the kernel, of a signal and of stop().
LEMMA LoopSide ==
  ASSUME PoolInv, LoopStep \/ KernelStep \/ Outside, UNCHANGED poolVars
  PROVE  PoolInv'
<1> USE DEF PoolInv, poolVars
<1> SUFFICES /\ RingInv' /\ LoopInv' /\ lpc' \in LoopPhases
             /\ {running, signalled, asked}' \subseteq BOOLEAN
             /\ \A o \in Ops : Queued(o)' <=> Queued(o)
  BY PoolSame
<1>0. {running, signalled, asked} \subseteq BOOLEAN /\ lpc \in LoopPhases
  BY DEF TTypeOK
<1>1. ASSUME UNCHANGED ringVars
      PROVE  RingInv' /\ \A o \in Ops : Queued(o)' <=> Queued(o)
  BY <1>1 DEF RingInv, Queued, ringVars
<1>2. CASE Run \/ Check \/ Signal \/ Stop
  <2>1. UNCHANGED ringVars
    BY <1>2 DEF Run, Check, Signal, Stop
  <2>2. lpc' \in LoopPhases /\ {running, signalled, asked}' \subseteq BOOLEAN
    BY <1>0, <1>2 DEF Run, Check, Signal, Stop, LoopPhases
  <2>3. LoopInv'
    BY <1>0, <1>2 DEF Run, Check, Signal, Stop, LoopInv, engine, ringVars
  <2> QED
    BY <1>1, <2>1, <2>2, <2>3
<1>3. CASE Drain
  BY <1>0, <1>3, DrainRing DEF Drain, LoopInv, engine, LoopPhases
<1>4. ASSUME NEW op \in Ops, Take(op)
      PROVE  /\ RingInv' /\ LoopInv' /\ lpc' \in LoopPhases
             /\ {running, signalled, asked}' \subseteq BOOLEAN
             /\ \A o \in Ops : Queued(o)' <=> Queued(o)
  <2>1. current = NoOp
    BY <1>4 DEF LoopInv, Take
  <2> QED
    BY <1>0, <1>4, <2>1, TakeRing DEF Take, LoopInv, engine, LoopPhases
<1>5. ASSUME NEW op \in Ops, Complete(op)
      PROVE  /\ RingInv' /\ LoopInv' /\ lpc' \in LoopPhases
             /\ {running, signalled, asked}' \subseteq BOOLEAN
             /\ \A o \in Ops : Queued(o)' <=> Queued(o)
  BY <1>0, <1>5, CompleteRing DEF Complete, LoopInv, engine, loopVars
<1> QED
  BY <1>2, <1>3, <1>4, <1>5 DEF LoopStep, KernelStep, Outside

\* What a step that leaves the loop and its queues alone leaves of the invariant.
LEMMA RingSame ==
  ASSUME RingInv, UNCHANGED ringVars
  PROVE  RingInv' /\ \A o \in Ops : Queued(o)' <=> Queued(o)
<1> QED
  BY DEF RingInv, Queued, ringVars

\* While a coroutine runs, the engine is there, no worker has left, and the NOP
\* of a job whose coroutine has not suspended is nowhere.
LEMMA Dispatching ==
  ASSUME PoolInv, lpc = "dispatch"
  PROVE  /\ engine /\ ~badPost /\ ~stop
         /\ \A w \in Workers : wpc[w] # "exited"
         /\ \A j \in Jobs : Queued(Nop(j)) <=> cpc[j] = "suspended" /\ done[j]
<1> QED
  BY DEF PoolInv, LoopInv, ExitInv, WakeupExact, engine, stop

\* tasks_.push.
LEMMA StepPush ==
  ASSUME PoolInv, NEW j \in Jobs, Push(j)
  PROVE  PoolInv'
<1> USE DEF PoolInv, Push, InCoroutine, loopVars, ringVars
<1>1. RingInv' /\ \A o \in Ops : Queued(o)' <=> Queued(o)
  BY RingSame
<1>2. LoopInv'
  BY DEF LoopInv, engine
<1>3. /\ j \notin Range(tasks) /\ ~done[j] /\ ~waiter[j]
      /\ \A w \in Workers : wpc[w] = "running" => wjob[w] # j
  BY DEF JobInv
<1>4. tasks' \in Seq(Jobs) /\ Distinct(tasks)' /\ Range(tasks)' = Range(tasks) \cup {j}
  BY <1>3, AppendFacts DEF JobInv, TTypeOK
<1>5. cpc' \in [Jobs -> Stages] /\ cpc'[j] = "pushed" /\ \A k \in Jobs : k # j => cpc'[k] = cpc[k]
  BY DEF TTypeOK, Stages
<1>6. TTypeOK'
  BY <1>1, <1>4, <1>5 DEF TTypeOK, RingInv
<1>7. JobInv'
  <2>1. \A k \in Range(tasks) : k \in Jobs
    BY DEF TTypeOK, Range
  <2> QED
    BY <1>3, <1>4, <1>5, <2>1 DEF JobInv
<1>8. WakeupExact'
  BY <1>1, <1>5, Dispatching, OpsFacts DEF WakeupExact
<1>9. ExitInv'
  BY Dispatching DEF ExitInv
<1> QED
  BY <1>1, <1>2, <1>6, <1>7, <1>8, <1>9

\* cv_.notify_one.
LEMMA StepNotify ==
  ASSUME PoolInv, NEW j \in Jobs, Notify(j)
  PROVE  PoolInv'
<1> USE DEF PoolInv, Notify, InCoroutine, loopVars, ringVars
<1>1. RingInv' /\ \A o \in Ops : Queued(o)' <=> Queued(o)
  BY RingSame
<1>2. LoopInv'
  BY DEF LoopInv, engine
<1>3. cpc' \in [Jobs -> Stages] /\ cpc'[j] = "notified" /\ \A k \in Jobs : k # j => cpc'[k] = cpc[k]
  BY DEF TTypeOK, Stages
<1>4. /\ wpc' \in [Workers -> {"idle", "blocked", "running", "exited"}]
      /\ \A w \in Workers : wpc'[w] = wpc[w] \/ wpc'[w] = "idle"
  BY DEF WakeOne, TTypeOK
<1>5. TTypeOK'
  BY <1>1, <1>3, <1>4 DEF TTypeOK, RingInv
<1>6. JobInv'
  <2>1. \A k \in Range(tasks) : k \in Jobs
    BY DEF TTypeOK, Range
  <2> QED
    BY <1>3, <1>4, <2>1 DEF JobInv
<1>7. WakeupExact'
  BY <1>1, <1>3, Dispatching, OpsFacts DEF WakeupExact
<1>8. ExitInv'
  BY <1>4, Dispatching DEF ExitInv
<1> QED
  BY <1>1, <1>2, <1>5, <1>6, <1>7, <1>8

\* await_ready, await_suspend and await_resume: the coroutine takes one step and,
\* when it leaves the loop, its operation is seen.
LEMMA StepAwait ==
  ASSUME PoolInv, NEW j \in Jobs, AwaitReady(j) \/ AwaitSuspend(j) \/ Resume(j)
  PROVE  PoolInv'
<1> USE DEF PoolInv, InCoroutine
<1>1. lpc = "dispatch" /\ UNCHANGED <<done, tasks, wpc, wjob, teardown, badPost>>
  BY DEF AwaitReady, AwaitSuspend, Resume
<1>2. /\ engine /\ ~badPost
      /\ \A k \in Jobs : Queued(Nop(k)) <=> cpc[k] = "suspended" /\ done[k]
  BY <1>1, Dispatching
<1>3. \A k \in Range(tasks) : k \in Jobs
  BY DEF TTypeOK, Range
<1>4. /\ cpc' \in [Jobs -> Stages] /\ \A k \in Jobs : k # j => cpc'[k] = cpc[k]
      /\ waiter' \in [Jobs -> BOOLEAN] /\ \A k \in Jobs : k # j => waiter'[k] = waiter[k]
  BY DEF AwaitReady, AwaitSuspend, Resume, TTypeOK, Stages
<1>5. ExitInv'
  BY <1>1 DEF ExitInv, stop
<1>6. CASE AwaitReady(j) /\ ~done[j]
  <2>1. UNCHANGED <<loopVars, ringVars, waiter>> /\ cpc[j] = "notified" /\ cpc'[j] = "checked"
    BY <1>6 DEF AwaitReady, TTypeOK
  <2>2. RingInv' /\ \A o \in Ops : Queued(o)' <=> Queued(o)
    BY <2>1, RingSame
  <2>3. LoopInv'
    BY <1>1, <2>1 DEF LoopInv, engine, loopVars, ringVars
  <2>4. TTypeOK'
    BY <1>1, <1>4, <2>1, <2>2 DEF TTypeOK, RingInv, loopVars
  <2>5. JobInv'
    BY <1>1, <1>3, <1>4, <2>1 DEF JobInv
  <2>6. WakeupExact'
    BY <1>1, <1>2, <1>4, <2>1, <2>2, OpsFacts DEF WakeupExact
  <2> QED
    BY <1>5, <2>2, <2>3, <2>4, <2>5, <2>6
<1>7. CASE Seen /\ UNCHANGED <<running, signalled, asked>>
  <2>1. RingInv' /\ \A o \in Ops : Queued(o)' <=> Queued(o) /\ o # current
    BY <1>7, SeenRing
  <2>2. LoopInv'
    BY <1>1, <1>2, <1>7 DEF LoopInv, engine, Seen
  <2>3. TTypeOK'
    BY <1>1, <1>4, <1>7, <2>1 DEF TTypeOK, RingInv, Seen, LoopPhases
  <2>4. CASE current = Start(j) /\ cpc'[j] = "resumed" /\ done[j]
    <3>1. cpc[j] \in {"notified", "checked"}
      BY <2>4, OpsFacts DEF AwaitReady, AwaitSuspend, Resume
    <3>2. JobInv'
      BY <1>1, <1>3, <1>4, <2>4, <3>1 DEF JobInv
    <3>3. WakeupExact'
      BY <1>1, <1>2, <1>4, <2>1, <2>4, <3>1, OpsFacts DEF WakeupExact
    <3> QED
      BY <1>5, <2>1, <2>2, <2>3, <3>2, <3>3
  <2>5. CASE /\ current = Start(j) /\ cpc[j] = "checked" /\ ~done[j]
             /\ cpc'[j] = "suspended" /\ waiter'[j]
    <3>1. JobInv'
      BY <1>1, <1>3, <1>4, <2>5 DEF JobInv
    <3>2. WakeupExact'
      BY <1>1, <1>2, <1>4, <2>1, <2>5, OpsFacts DEF WakeupExact
    <3> QED
      BY <1>5, <2>1, <2>2, <2>3, <3>1, <3>2
  <2>6. CASE current = Nop(j) /\ cpc'[j] = "resumed" /\ UNCHANGED waiter
    <3>1. cpc[j] = "suspended" /\ done[j]
      BY <1>2, <2>6 DEF Queued
    <3>2. JobInv'
      BY <1>1, <1>3, <1>4, <2>6, <3>1 DEF JobInv
    <3>3. WakeupExact'
      BY <1>1, <1>2, <1>4, <2>1, <2>6, OpsFacts DEF WakeupExact
    <3> QED
      BY <1>5, <2>1, <2>2, <2>3, <3>2, <3>3
  <2>7. CASE AwaitReady(j)
    BY <1>1, <1>7, <2>4, <2>7 DEF AwaitReady, Seen, loopVars, TTypeOK
  <2>8. CASE AwaitSuspend(j)
    BY <2>4, <2>5, <2>8 DEF AwaitSuspend, Suspends, TTypeOK
  <2>9. CASE Resume(j)
    BY <2>6, <2>9 DEF Resume, TTypeOK
  <2> QED
    BY <2>7, <2>8, <2>9
<1> QED
  BY <1>6, <1>7 DEF AwaitReady, AwaitSuspend, Resume

\* worker_loop takes the first task.
LEMMA StepTakeTask ==
  ASSUME PoolInv, NEW w \in Workers, TakeTask(w)
  PROVE  PoolInv'
<1> USE DEF PoolInv, TakeTask, loopVars, ringVars
<1>1. RingInv' /\ \A o \in Ops : Queued(o)' <=> Queued(o)
  BY RingSame
<1>2. LoopInv'
  BY DEF LoopInv, engine
<1>3. /\ Head(tasks) \in Jobs /\ tasks' \in Seq(Jobs) /\ Distinct(tasks)'
      /\ Range(tasks) = Range(tasks)' \cup {Head(tasks)} /\ Head(tasks) \notin Range(tasks)'
  BY TailFacts DEF JobInv, TTypeOK
<1>4. /\ wpc' \in [Workers -> {"idle", "blocked", "running", "exited"}]
      /\ wjob' \in [Workers -> Jobs \cup {NoJob}]
      /\ wpc'[w] = "running" /\ wjob'[w] = Head(tasks)
      /\ \A v \in Workers : v # w => wpc'[v] = wpc[v] /\ wjob'[v] = wjob[v]
  BY <1>3 DEF TTypeOK
<1>5. TTypeOK'
  BY <1>1, <1>3, <1>4 DEF TTypeOK, RingInv
<1>6. JobInv'
  BY <1>3, <1>4 DEF JobInv
<1>7. WakeupExact'
  BY <1>1, OpsFacts DEF WakeupExact
<1>8. ExitInv'
  BY <1>4 DEF ExitInv, stop
<1> QED
  BY <1>1, <1>2, <1>5, <1>6, <1>7, <1>8

\* A worker that has nothing to do blocks or leaves, and one that is woken looks
\* again: a step that only moves workers that run no job.
LEMMA StepIdle ==
  ASSUME PoolInv,
         (\E w \in Workers : NoTask(w) \/ Spurious(w)) \/ DestroyEngine \/ SetStop \/ NotifyAll
  PROVE  PoolInv'
<1> USE DEF PoolInv
<1>1. UNCHANGED <<loopVars, ringVars, cpc, done, waiter, tasks, wjob, badPost>>
  BY DEF NoTask, Spurious, DestroyEngine, SetStop, NotifyAll
<1>2. RingInv' /\ \A o \in Ops : Queued(o)' <=> Queued(o)
  BY <1>1, RingSame
<1>3. /\ teardown' \in Teardown /\ (stop => stop')
      /\ (~engine => ~engine') /\ (lpc = "stopped" \/ UNCHANGED teardown)
  <2>1. CASE UNCHANGED teardown
    BY <2>1 DEF TTypeOK, engine, stop
  <2>2. CASE DestroyEngine \/ SetStop \/ NotifyAll
    BY <2>2 DEF Teardown, DestroyEngine, SetStop, NotifyAll, LoopInv, engine, stop
  <2> QED
    BY <2>1, <2>2 DEF NoTask, Spurious
<1>4. LoopInv'
  BY <1>1, <1>3 DEF LoopInv, engine, loopVars, ringVars
<1>5. /\ wpc' \in [Workers -> {"idle", "blocked", "running", "exited"}]
      /\ \A w \in Workers : wpc'[w] = "running" => wpc[w] = "running"
      /\ \A w \in Workers : wpc'[w] = "exited" => wpc[w] = "exited" \/ (stop /\ tasks = <<>>)
  <2>1. wpc \in [Workers -> {"idle", "blocked", "running", "exited"}]
    BY DEF TTypeOK
  <2>2. ASSUME NEW w \in Workers, NoTask(w) PROVE <1>5!:
    BY <2>1, <2>2 DEF NoTask
  <2>3. ASSUME NEW w \in Workers, Spurious(w) PROVE <1>5!:
    BY <2>1, <2>3 DEF Spurious
  <2>4. CASE NotifyAll
    BY <2>1, <2>4 DEF NotifyAll, WakeAll
  <2>5. CASE DestroyEngine \/ SetStop
    BY <2>1, <2>5 DEF DestroyEngine, SetStop
  <2> QED
    BY <2>2, <2>3, <2>4, <2>5
<1>6. TTypeOK'
  BY <1>1, <1>2, <1>3, <1>5 DEF TTypeOK, RingInv, loopVars
<1>7. JobInv'
  BY <1>1, <1>5 DEF JobInv
<1>8. WakeupExact'
  BY <1>1, <1>2, OpsFacts DEF WakeupExact
<1>9. ExitInv'
  BY <1>1, <1>3, <1>5 DEF ExitInv
<1> QED
  BY <1>2, <1>4, <1>6, <1>7, <1>8, <1>9

\* A worker stores the outcome and posts the waiter.  The NOP it posts is nowhere
\* yet, for the job was not done.
LEMMA StepFinish ==
  ASSUME PoolInv, NEW w \in Workers, Finish(w)
  PROVE  PoolInv'
<1> USE DEF PoolInv
<1> DEFINE j == wjob[w]
<1>1. /\ j \in Jobs /\ ~done[j] /\ cpc[j] # "io" /\ j \notin Range(tasks)
      /\ \A v \in Workers : v # w /\ wpc[v] = "running" => wjob[v] # j
  BY DEF Finish, JobInv
<1>2. UNCHANGED <<loopVars, cq, current, cpc, waiter, tasks, teardown>>
  BY DEF Finish
<1>3. /\ done' \in [Jobs -> BOOLEAN] /\ done'[j] /\ \A k \in Jobs : k # j => done'[k] = done[k]
      /\ wpc' \in [Workers -> {"idle", "blocked", "running", "exited"}]
      /\ wjob' \in [Workers -> Jobs \cup {NoJob}] /\ wpc'[w] = "idle"
      /\ \A v \in Workers : v # w => wpc'[v] = wpc[v] /\ wjob'[v] = wjob[v]
  BY <1>1 DEF Finish, TTypeOK
<1>4. JobInv'
  <2>1. \A k \in Range(tasks) : k \in Jobs
    BY DEF TTypeOK, Range
  <2> QED
    BY <1>1, <1>2, <1>3, <2>1 DEF JobInv
<1>5. ExitInv'
  BY <1>2, <1>3 DEF ExitInv, stop
<1>6. Nop(j) \in Ops /\ \A k \in Jobs : Nop(k) = Nop(j) => k = j
  BY <1>1, OpsFacts
<1>7. waiter[j] => cpc[j] = "suspended"
  BY <1>1 DEF JobInv
<1>8. CASE waiter[j] /\ engine
  <2>1. Post(Nop(j)) /\ UNCHANGED badPost
    BY <1>8 DEF Finish
  <2>2. ~badPost /\ ~Queued(Nop(j))
    BY <1>1, <1>8 DEF LoopInv, WakeupExact
  <2>3. RingInv' /\ \A o \in Ops : Queued(o)' <=> Queued(o) \/ o = Nop(j)
    BY <1>2, <1>6, <2>1, <2>2, PostRing
  <2>4. TTypeOK'
    BY <1>2, <1>3, <2>1, <2>3 DEF TTypeOK, RingInv, loopVars
  <2>5. LoopInv'
    BY <1>2, <2>1 DEF LoopInv, engine, loopVars
  <2>6. WakeupExact'
    BY <1>1, <1>2, <1>3, <1>6, <1>7, <1>8, <2>1, <2>2, <2>3, OpsFacts DEF WakeupExact
  <2> QED
    BY <1>4, <1>5, <2>3, <2>4, <2>5, <2>6
<1>9. CASE ~(waiter[j] /\ engine)
  <2>1. badPost' = (badPost \/ waiter[j]) /\ UNCHANGED <<pending, sq, kernel>>
    BY <1>9 DEF Finish
  <2>2. RingInv' /\ \A o \in Ops : Queued(o)' <=> Queued(o)
    BY <1>2, <2>1, RingSame DEF ringVars
  <2>3. badPost' \in BOOLEAN
    BY <2>1
  <2>4. TTypeOK'
    BY <1>2, <1>3, <2>2, <2>3 DEF TTypeOK, RingInv, loopVars
  <2>5. LoopInv'
    BY <1>2, <1>9, <2>1 DEF LoopInv, engine, loopVars
  <2>6. WakeupExact'
    <3> SUFFICES ASSUME NEW k \in Jobs, ~badPost'
                 PROVE  Queued(Nop(k))' <=> cpc'[k] = "suspended" /\ done'[k]
      BY DEF WakeupExact
    <3>1. ~badPost /\ ~waiter[j]
      BY <2>1
    <3>2. Queued(Nop(k))' <=> cpc[k] = "suspended" /\ done[k]
      BY <2>2, <3>1, OpsFacts DEF WakeupExact
    <3>3. cpc[j] # "suspended"
      BY <1>1, <3>1 DEF JobInv
    <3> QED
      BY <1>2, <1>3, <3>2, <3>3
  <2> QED
    BY <1>4, <1>5, <2>2, <2>4, <2>5, <2>6
<1> QED
  BY <1>8, <1>9

\* Every step preserves the invariant.
LEMMA PoolInvStep ==
  ASSUME PoolInv, [TNext]_tvars
  PROVE  PoolInv'
<1>1. CASE UNCHANGED tvars
  <2>1. RingInv' /\ \A o \in Ops : Queued(o)' <=> Queued(o)
    BY <1>1, RingSame DEF PoolInv, tvars
  <2>2. LoopInv' /\ lpc' \in LoopPhases /\ {running, signalled, asked}' \subseteq BOOLEAN
    BY <1>1 DEF PoolInv, LoopInv, TTypeOK, engine, tvars, loopVars, ringVars, poolVars
  <2> QED
    BY <1>1, <2>1, <2>2, PoolSame DEF tvars
<1> QED
  BY <1>1, LoopSide, StepPush, StepNotify, StepAwait, StepTakeTask, StepIdle, StepFinish
  DEF TNext, CoroutineStep, WorkerStep

LEMMA PoolInvInit ==
  ASSUME TInit
  PROVE  PoolInv
<1> USE DEF TInit, LoopInit
<1>1. Range(<<>>) = {} /\ Distinct(<<>>) /\ <<>> \in Seq(Ops) /\ <<>> \in Seq(Jobs)
  BY DEF Range, Distinct
<1>2. kernel \subseteq Ops /\ NoOp \notin Ops
  BY OpsFacts
<1>3. TTypeOK
  BY <1>1, <1>2 DEF TTypeOK, LoopPhases, Stages, Teardown
<1>4. RingInv
  BY <1>1, <1>2 DEF RingInv
<1>5. LoopInv
  BY DEF LoopInv, engine
<1>6. JobInv
  BY <1>1 DEF JobInv
<1>7. WakeupExact
  <2> SUFFICES ASSUME NEW j \in Jobs PROVE ~Queued(Nop(j))
    BY DEF WakeupExact
  <2>1. Nop(j) \notin kernel /\ Nop(j) # NoOp
    BY OpsFacts
  <2> QED
    BY <1>1, <2>1 DEF Queued
<1>8. ExitInv
  BY DEF ExitInv
<1> QED
  BY <1>3, <1>4, <1>5, <1>6, <1>7, <1>8 DEF PoolInv

LEMMA PoolInvariant == TSpec => []PoolInv
<1> QED
  BY PoolInvInit, PoolInvStep, PTL DEF TSpec

-----------------------------------------------------------------------------
(* Theorems *)

\* The variables of the pool and of the loop keep their types.
THEOREM TypeCorrect == TSpec => []TTypeOK
<1>1. PoolInv => TTypeOK
  BY DEF PoolInv
<1> QED
  BY <1>1, PoolInvariant, PTL

\* However done and waiter are set by a worker and the loop thread (await_ready,
\* await_suspend, Finish), with any full submission queue and any failure of
\* io_uring_submit in between, no wake-up is lost and none is left over.
THEOREM WakeupCorrect == TSpec => []WakeupExact
<1>1. PoolInv => WakeupExact
  BY DEF PoolInv
<1> QED
  BY <1>1, PoolInvariant, PTL

\* notify_one after the push is enough: in a pool that has threads, a task whose
\* notification has been given has a worker that is awake.
THEOREM StrandedCorrect ==
  ASSUME Workers # {}
  PROVE  TSpec => []NoStrandedTask
<1> DEFINE Settled == tasks # <<>> /\ \A j \in Jobs : cpc[j] # "pushed"
           Awake == \E w \in Workers : wpc[w] \in {"idle", "running"}
<1>1. TInit => NoStrandedTask
  BY DEF TInit, NoStrandedTask
<1>2. ASSUME PoolInv, NoStrandedTask, [TNext]_tvars PROVE NoStrandedTask'
  <2> SUFFICES ASSUME Settled' PROVE Awake'
    BY DEF NoStrandedTask
  <2>1. wpc \in [Workers -> {"idle", "blocked", "running", "exited"}] /\ cpc \in [Jobs -> Stages]
    BY <1>2 DEF PoolInv, TTypeOK
  <2>2. CASE UNCHANGED <<cpc, tasks, wpc>>
    BY <1>2, <2>2 DEF NoStrandedTask
  <2>3. ASSUME NEW j \in Jobs, Push(j) PROVE FALSE
    BY <2>1, <2>3 DEF Push
  <2>4. ASSUME NEW j \in Jobs, Notify(j) PROVE Awake'
    <3>1. \A w \in Workers : wpc[w] # "exited"
      BY <1>2, <2>4, Dispatching DEF Notify, InCoroutine
    <3>2. CASE \E w \in Workers : wpc[w] = "blocked"
      BY <2>1, <2>4, <3>2 DEF Notify, WakeOne
    <3>3. CASE \A w \in Workers : wpc[w] # "blocked"
      BY <2>1, <2>4, <3>1, <3>3 DEF Notify, WakeOne
    <3> QED
      BY <3>2, <3>3
  <2>5. ASSUME NEW j \in Jobs, AwaitReady(j) \/ AwaitSuspend(j) \/ Resume(j) PROVE Awake'
    <3>1. cpc[j] # "pushed"
      <4>1. CASE Resume(j)
        BY <1>2, <4>1, Dispatching DEF Resume, InCoroutine, Queued
      <4> QED
        BY <2>5, <4>1 DEF AwaitReady, AwaitSuspend
    <3>2. UNCHANGED <<tasks, wpc>> /\ \A k \in Jobs : k # j => cpc'[k] = cpc[k]
      BY <2>1, <2>5 DEF AwaitReady, AwaitSuspend, Resume
    <3> QED
      BY <1>2, <3>1, <3>2 DEF NoStrandedTask
  <2>6. ASSUME NEW w \in Workers, TakeTask(w) \/ Finish(w) \/ Spurious(w) PROVE Awake'
    BY <2>1, <2>6 DEF TakeTask, Finish, Spurious
  <2>7. ASSUME NEW w \in Workers, NoTask(w) PROVE FALSE
    BY <2>7 DEF NoTask
  <2>8. CASE NotifyAll
    <3>1. UNCHANGED <<cpc, tasks>> /\ \A w \in Workers : wpc[w] \in {"idle", "running"} => wpc'[w] = wpc[w]
      BY <2>1, <2>8 DEF NotifyAll, WakeAll
    <3> QED
      BY <1>2, <3>1 DEF NoStrandedTask
  <2>9. CASE DestroyEngine \/ SetStop \/ UNCHANGED poolVars
    BY <2>2, <2>9 DEF DestroyEngine, SetStop, poolVars
  <2> QED
    BY <1>2, <2>3, <2>4, <2>5, <2>6, <2>7, <2>8, <2>9 DEF TNext, CoroutineStep, WorkerStep, tvars
<1> QED
  BY <1>1, <1>2, PoolInvariant, PTL DEF TSpec

-----------------------------------------------------------------------------
(* The pool implements Offload *)

Active == {wjob[w] : w \in {v \in Workers : wpc[v] = "running"}}
Finished == {j \in Jobs : done[j]}
Resumed == {j \in Jobs : cpc[j] = "resumed"}

\* A worker that is idle leaves room for one more job: fewer jobs run than the
\* pool has workers.
LEMMA RoomLeft ==
  ASSUME PoolInv, NEW w \in Workers, wpc[w] = "idle"
  PROVE  Cardinality(Active) < Cardinality(Workers)
<1> DEFINE busy == {v \in Workers : wpc[v] = "running"}
           f == [v \in busy |-> wjob[v]]
<1>1. /\ IsFiniteSet(Workers \ {w}) /\ Cardinality(Workers \ {w}) = Cardinality(Workers) - 1
      /\ Cardinality(Workers) \in Nat
  BY WorkersAssumption, FS_RemoveElement, FS_CardinalityType
<1>2. busy \subseteq Workers \ {w}
  OBVIOUS
<1>3. IsFiniteSet(busy) /\ Cardinality(busy) <= Cardinality(Workers) - 1 /\ Cardinality(busy) \in Nat
  BY <1>1, <1>2, FS_Subset, FS_CardinalityType
<1>4. f \in Surjection(busy, Active)
  BY DEF Surjection, Active
<1>5. IsFiniteSet(Active) /\ Cardinality(Active) <= Cardinality(busy) /\ Cardinality(Active) \in Nat
  BY <1>3, <1>4, FS_Surjection, FS_CardinalityType
<1> QED
  BY <1>1, <1>3, <1>5

\* Offload counts with the same Cardinality.
LEMMA SameCardinality ==
  ASSUME NEW S
  PROVE  Enqueues!Cardinality(S) = Cardinality(S)
<1> QED
  BY DEF Enqueues!Cardinality, Cardinality, Enqueues!IsFiniteSet, IsFiniteSet

\* Every step of the pool, of the loop and of the destruction is a step of
\* Offload or changes nothing that Offload speaks of.
LEMMA OffloadStep ==
  ASSUME PoolInv, PoolInv', [TNext]_tvars
  PROVE  [Enqueues!ONext]_(Enqueues!ovars)
<1> USE DEF Enqueues!ovars
<1>0. /\ wpc \in [Workers -> {"idle", "blocked", "running", "exited"}]
      /\ wjob \in [Workers -> Jobs \cup {NoJob}]
      /\ cpc \in [Jobs -> Stages] /\ done \in [Jobs -> BOOLEAN]
      /\ tasks \in Seq(Jobs)
  BY DEF PoolInv, TTypeOK
<1>1. CASE UNCHANGED <<cpc, done, tasks, wpc, wjob>>
  BY <1>1
<1>2. ASSUME NEW j \in Jobs, Push(j) PROVE Enqueues!Enqueue(j)
  <2>1. j \notin Range(tasks) /\ ~done[j] /\ \A w \in Workers : wpc[w] = "running" => wjob[w] # j
    BY <1>2 DEF Push, PoolInv, JobInv
  <2>2. UNCHANGED <<Active, Finished, Resumed>>
    BY <1>0, <1>2 DEF Push, Active, Finished, Resumed
  <2> QED
    BY <1>2, <2>1, <2>2 DEF Push, Enqueues!Enqueue, Active, Finished, Resumed, Range
<1>3. ASSUME NEW j \in Jobs, Notify(j) PROVE UNCHANGED <<tasks, Active, Finished, Resumed>>
  <2>1. \A w \in Workers : wpc'[w] = "running" <=> wpc[w] = "running"
    BY <1>0, <1>3 DEF Notify, WakeOne
  <2> QED
    BY <1>0, <1>3, <2>1 DEF Notify, Active, Finished, Resumed
<1>4. ASSUME NEW j \in Jobs, AwaitReady(j) \/ AwaitSuspend(j) \/ Resume(j)
      PROVE  Enqueues!GoOn(j) \/ UNCHANGED <<tasks, Active, Finished, Resumed>>
  <2>1. cpc[j] # "resumed"
    <3>1. CASE Resume(j)
      BY <1>4, <3>1, Dispatching DEF Resume, InCoroutine, Queued
    <3> QED
      BY <1>4, <3>1 DEF AwaitReady, AwaitSuspend
  <2>2. UNCHANGED <<done, tasks, wpc, wjob>> /\ \A k \in Jobs : k # j => cpc'[k] = cpc[k]
    BY <1>0, <1>4 DEF AwaitReady, AwaitSuspend, Resume
  <2>3. CASE cpc'[j] = "resumed"
    <3>1. done[j]
      BY <2>2, <2>3 DEF PoolInv, JobInv
    <3>2. Resumed' = Resumed \cup {j}
      BY <2>2, <2>3 DEF Resumed
    <3> QED
      BY <2>1, <2>2, <3>1, <3>2 DEF Enqueues!GoOn, Active, Finished, Resumed
  <2>4. CASE cpc'[j] # "resumed"
    BY <2>1, <2>2, <2>4 DEF Active, Finished, Resumed
  <2> QED
    BY <2>3, <2>4
<1>5. ASSUME NEW w \in Workers, TakeTask(w) PROVE Enqueues!Begin
  <2>1. Cardinality(Active) < Cardinality(Workers)
    BY <1>5, RoomLeft DEF TakeTask
  <2>2. /\ wpc'[w] = "running" /\ wjob'[w] = Head(tasks)
        /\ \A v \in Workers : v # w => wpc'[v] = wpc[v] /\ wjob'[v] = wjob[v]
    BY <1>0, <1>5 DEF TakeTask
  <2>3. Active' = Active \cup {Head(tasks)}
    BY <1>5, <2>2 DEF TakeTask, Active
  <2>4. UNCHANGED <<Finished, Resumed>> /\ tasks # <<>> /\ tasks' = Tail(tasks)
    BY <1>5 DEF TakeTask, Finished, Resumed
  <2> QED
    BY <2>1, <2>3, <2>4, SameCardinality DEF Enqueues!Begin, Active, Finished, Resumed
<1>6. ASSUME NEW w \in Workers, Finish(w) PROVE \E j \in Jobs : Enqueues!End(j)
  <2> DEFINE j == wjob[w]
  <2>1. /\ j \in Jobs /\ wpc[w] = "running"
        /\ \A v \in Workers : v # w /\ wpc[v] = "running" => wjob[v] # j
    BY <1>6 DEF Finish, PoolInv, JobInv
  <2>2. /\ wpc'[w] = "idle" /\ done'[j] /\ \A k \in Jobs : k # j => done'[k] = done[k]
        /\ \A v \in Workers : v # w => wpc'[v] = wpc[v] /\ wjob'[v] = wjob[v]
        /\ UNCHANGED <<tasks, cpc>>
    BY <1>0, <1>6, <2>1 DEF Finish
  <2>3. j \in Active /\ Active' = Active \ {j}
    BY <2>1, <2>2 DEF Active
  <2>4. Finished' = Finished \cup {j}
    BY <2>1, <2>2 DEF Finished
  <2> QED
    BY <2>1, <2>2, <2>3, <2>4 DEF Enqueues!End, Active, Finished, Resumed
<1>7. CASE (\E w \in Workers : NoTask(w) \/ Spurious(w)) \/ NotifyAll
  <2>1. UNCHANGED <<cpc, done, tasks, wjob>>
    BY <1>7 DEF NoTask, Spurious, NotifyAll
  <2>2. \A w \in Workers : wpc'[w] = "running" <=> wpc[w] = "running"
    <3>1. ASSUME NEW w \in Workers, NoTask(w) \/ Spurious(w) PROVE <2>2!:
      BY <1>0, <3>1 DEF NoTask, Spurious
    <3>2. CASE NotifyAll
      BY <1>0, <3>2 DEF NotifyAll, WakeAll
    <3> QED
      BY <1>7, <3>1, <3>2
  <2> QED
    BY <2>1, <2>2
<1>8. CASE DestroyEngine \/ SetStop \/ UNCHANGED poolVars
  BY <1>1, <1>8 DEF DestroyEngine, SetStop, poolVars
<1>9. CASE \E j \in Jobs : CoroutineStep(j)
  BY <1>2, <1>3, <1>4, <1>9 DEF CoroutineStep, Enqueues!ONext, Active, Finished, Resumed
<1>10. CASE \E w \in Workers : WorkerStep(w)
  BY <1>5, <1>6, <1>7, <1>10 DEF WorkerStep, Enqueues!ONext
<1> QED
  BY <1>7, <1>8, <1>9, <1>10 DEF TNext, tvars

\* co_await pool.enqueue(f) keeps its promise for any jobs and any number of
\* workers: in order, each once, at most as many at a time as there are workers,
\* and the coroutine goes on once, after its function has ended.
THEOREM OffloadImplemented == TSpec => ImplementsOffload
<1>1. TInit => Enqueues!OInit
  BY DEF TInit, Enqueues!OInit
<1> QED
  BY <1>1, OffloadStep, PoolInvariant, PTL DEF TSpec, ImplementsOffload, Enqueues!OSpec
=============================================================================
