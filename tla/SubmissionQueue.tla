-------------------------- MODULE SubmissionQueue --------------------------
(***************************************************************************)
(* Who writes to the submission queue of the ring.  post_coroutine (the    *)
(* workers) and drain_pending_posts (the loop thread) hold sqe_mutex_;     *)
(* the operations of the coroutines (async_read, async_write, async_accept *)
(* and the others of IoUring.cpp and IoUringMsg.cpp, and the timeouts of   *)
(* periodic_timer_loop), which run on the loop thread, do not.             *)
(*                                                                         *)
(* A submission is io_uring_get_sqe, which reads the tail, compares it     *)
(* with the kernel's head and stores the new tail, then io_uring_prep_*    *)
(* and set_data, which fill the entry, then io_uring_submit, which hands   *)
(* the kernel every entry up to the tail.  None of it is atomic.  A slot   *)
(* keeps what it held until it is filled again.                            *)
(***************************************************************************)
EXTENDS Integers, Sequences, FiniteSets

CONSTANTS
  Workers,    \* worker threads
  Loop,       \* the loop thread
  SqSize,     \* entries of the submission queue (256 in the code)
  MaxOps,     \* bound on the operations a thread submits
  MaxFailures \* bound on the io_uring_submit calls that fail

ASSUME QueueAssumption ==
  /\ Loop \notin Workers
  /\ SqSize \in Nat \ {0} /\ {MaxOps, MaxFailures} \subseteq Nat

Threads == Workers \cup {Loop}
Ops == Threads \X (1..MaxOps)
NoOp == <<>>

VARIABLES
  mutex,    \* the holder of sqe_mutex_, {} or a singleton
  pc,       \* each thread: "out", "get", "claim", "fill" or "submit"
  op,       \* the operation it submits
  entry,    \* the tail it has read, which is the number of its entry
  count,    \* operations it has begun
  issued,   \* operations whose submission has returned
  pending,  \* pending_posts_
  tail,     \* sq.sqe_tail
  head,     \* the kernel's head
  slots,    \* sq.sqes: the operation each slot holds
  taken,    \* how often the kernel has taken each operation
  failures, \* io_uring_submit calls that have failed
  crashed,  \* the loop thread has used a null entry
  raced     \* (history) the loop thread and a worker were in the queue at once

vars == <<mutex, pc, op, entry, count, issued, pending, tail, head, slots, taken,
          failures, crashed, raced>>

Init ==
  /\ mutex = {}
  /\ pc = [t \in Threads |-> "out"]
  /\ op = [t \in Threads |-> NoOp]
  /\ entry = [t \in Threads |-> 0]
  /\ count = [t \in Threads |-> 0]
  /\ issued = {} /\ pending = <<>>
  /\ tail = 0 /\ head = 0
  /\ slots = [i \in 0..(SqSize - 1) |-> NoOp]
  /\ taken = [o \in Ops |-> 0]
  /\ failures = 0 /\ crashed = FALSE /\ raced = FALSE

-----------------------------------------------------------------------------
Inside(t) == pc[t] # "out"

\* Thread t enters the queue with operation o.
Enter(t, o) ==
  /\ pc' = [pc EXCEPT ![t] = "get"]
  /\ op' = [op EXCEPT ![t] = o]
  /\ raced' = (raced \/ \E u \in Threads \ {t} : Inside(u) /\ Loop \in {t, u})
  /\ UNCHANGED <<entry, issued, tail, head, slots, taken, failures, crashed>>

\* A coroutine on the loop thread begins an operation, without sqe_mutex_.
Async ==
  /\ ~Inside(Loop) /\ count[Loop] < MaxOps
  /\ count' = [count EXCEPT ![Loop] = @ + 1]
  /\ Enter(Loop, <<Loop, count[Loop] + 1>>)
  /\ UNCHANGED <<mutex, pending>>

\* std::lock_guard lock(sqe_mutex_).  (Faulty variant: there is none.)
LockMissing(t) == UNCHANGED mutex
Lock(t) == mutex = {} /\ mutex' = {t}

\* post_coroutine begins, on a worker.
Post(w) ==
  /\ ~Inside(w) /\ count[w] < MaxOps
  /\ Lock(w)
  /\ count' = [count EXCEPT ![w] = @ + 1]
  /\ Enter(w, <<w, count[w] + 1>>)
  /\ UNCHANGED pending

\* drain_pending_posts, on the loop thread, begins with the first post.
Drain ==
  /\ ~Inside(Loop) /\ pending # <<>>
  /\ Lock(Loop)
  /\ Enter(Loop, Head(pending))
  /\ UNCHANGED <<count, pending>>

\* Whether t is in a critical section, and leaving it.
Holds(t) == t \in mutex
Out(t) ==
  /\ pc' = [pc EXCEPT ![t] = "out"]
  /\ mutex' = mutex \ {t}

\* io_uring_get_sqe compares the counters as unsigned numbers: a tail behind
\* the head is far ahead of it, and the queue counts as full.  (Versions of
\* liburing that compare the next tail still give an entry when it is behind
\* by one.)
Full == tail - head >= SqSize \/ tail < head
Free == tail - head < SqSize /\ tail >= head - 1

\* It finds the queue full and returns null: a post is put aside, the drain
\* stops, and the unchecked entry of any other operation is used.  (Faulty
\* variant: a post that finds the queue full is dropped.)
PutAsideNothing(t) == UNCHANGED pending
PutAside(t) == pending' = IF t \in Workers THEN Append(pending, op[t]) ELSE pending
GetNull(t) ==
  /\ pc[t] = "get" /\ Full
  /\ PutAside(t)
  /\ Out(t)
  /\ issued' = issued \cup {op[t]}
  /\ crashed' = (crashed \/ (t = Loop /\ ~Holds(t)))
  /\ UNCHANGED <<op, entry, count, tail, head, slots, taken, failures, raced>>

\* ... or reads the tail ...
GetTail(t) ==
  /\ pc[t] = "get" /\ Free
  /\ entry' = [entry EXCEPT ![t] = tail]
  /\ pc' = [pc EXCEPT ![t] = "claim"]
  /\ UNCHANGED <<mutex, op, count, issued, pending, tail, head, slots, taken, failures, crashed, raced>>

\* ... and stores the next one.  The drain removes the post from its queue.
Claim(t) ==
  /\ pc[t] = "claim"
  /\ tail' = entry[t] + 1
  /\ pc' = [pc EXCEPT ![t] = "fill"]
  /\ pending' = IF t = Loop /\ Holds(t) THEN Tail(pending) ELSE pending
  /\ UNCHANGED <<mutex, op, entry, count, issued, head, slots, taken, failures, crashed, raced>>

\* io_uring_prep_* and io_uring_sqe_set_data.
Fill(t) ==
  /\ pc[t] = "fill"
  /\ slots' = [slots EXCEPT ![entry[t] % SqSize] = op[t]]
  /\ pc' = [pc EXCEPT ![t] = "submit"]
  /\ UNCHANGED <<mutex, op, entry, count, issued, pending, tail, head, taken, failures, crashed, raced>>

\* io_uring_submit: the kernel takes what is between its head and the tail (both
\* 32-bit counters, so a tail that has gone back means a full queue), or fails
\* before it has taken all of it; the result is ignored.  The drain goes on
\* with the next post.  (Faulty variant: the call is missing.)
Ready == IF tail >= head THEN tail - head ELSE SqSize
TakenBy(o, n) == Cardinality({i \in head..(head + n - 1) : slots[i % SqSize] = o})
TakesNothing(n) == n = 0 /\ UNCHANGED failures
Takes(n) ==
  \/ n = Ready /\ UNCHANGED failures
  \/ n < Ready /\ failures < MaxFailures /\ failures' = failures + 1
Submit(t) ==
  /\ pc[t] = "submit"
  /\ \E n \in 0..Ready :
       /\ Takes(n)
       /\ head' = head + n
       /\ taken' = [o \in Ops |-> taken[o] + TakenBy(o, n)]
  /\ issued' = issued \cup {op[t]}
  /\ IF t = Loop /\ Holds(t) /\ pending # <<>>
     THEN pc' = [pc EXCEPT ![t] = "get"] /\ op' = [op EXCEPT ![t] = Head(pending)] /\ UNCHANGED mutex
     ELSE Out(t) /\ UNCHANGED op
  /\ UNCHANGED <<entry, count, pending, tail, slots, crashed, raced>>

Next ==
  /\ ~crashed
  /\ \/ Async
     \/ \E w \in Workers : Post(w)
     \/ Drain
     \/ \E t \in Threads : GetNull(t)
     \/ \E t \in Threads : GetTail(t)
     \/ \E t \in Threads : Claim(t)
     \/ \E t \in Threads : Fill(t)
     \/ \E t \in Threads : Submit(t)

Spec == Init /\ [][Next]_vars

-----------------------------------------------------------------------------
(* Properties *)

\* Where operation o is: with the kernel, in the queue, or put aside.
Places(o) ==
  taken[o] + TakenBy(o, tail - head) + Cardinality({i \in DOMAIN pending : pending[i] = o})

\* Each operation, once submitted, is in one place, and the kernel takes it at
\* most once, however full the queue is and whichever submissions fail, unless
\* the loop thread was in the queue together with a worker.
Quiet == ~crashed /\ \A t \in Threads : ~Inside(t)
OnceUnlessRaced == Quiet /\ ~raced => \A o \in issued : Places(o) = 1

\* The unchecked entry of an operation (async_read and the others) is null only
\* after as many submissions have failed as the queue has entries (one fewer
\* when a worker is in the queue as well), or when the loop thread has met a
\* worker in the queue and one of them has put the tail behind the head.
NullNeedsFailures ==
  crashed => \/ failures + Cardinality({w \in Workers : Inside(w)}) >= SqSize
             \/ raced /\ tail < head

(* A statement of the documentation that the code does not keep *)

\* The submission queue shared by workers and event loop is protected by
\* sqe_mutex_ (ARCHITECTURE.md): no submitted operation is lost or taken twice.
NothingLost == Quiet => \A o \in issued : Places(o) = 1
=============================================================================
