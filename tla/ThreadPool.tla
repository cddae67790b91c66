----------------------------- MODULE ThreadPool -----------------------------
(***************************************************************************)
(* The thread pool and its hand-off with the event loop: ThreadPool        *)
(* (src/include/servd/ThreadPool.hpp) composed with EngineLoop.            *)
(*                                                                         *)
(* Each job is one co_await pool.enqueue(f) of one coroutine.  The         *)
(* coroutine is started by an I/O completion; the loop thread then pushes  *)
(* f, notifies a worker, and asks twice whether f is done, in await_ready  *)
(* and in await_suspend, each time under the job's own mutex, while the    *)
(* workers run.  Critical sections are atomic; a worker that finishes      *)
(* holds the job's mutex while it posts the coroutine.                     *)
(*                                                                         *)
(* Server's members are destroyed in reverse order of declaration: the     *)
(* engine, then the pool, whose destructor joins the workers.  A worker    *)
(* that posts in between uses the destroyed engine; that is undefined, and *)
(* the behaviour ends there.                                               *)
(***************************************************************************)
EXTENDS EngineLoop

CONSTANTS Jobs, Workers, NoJob

\* The operations: the completion that starts a job's coroutine, and the NOP
\* that resumes it.
Start(j) == <<"io", j>>
Nop(j) == <<"nop", j>>

ASSUME JobsAssumption ==
  /\ NoJob \notin Jobs
  /\ Ops = {Start(j) : j \in Jobs} \cup {Nop(j) : j \in Jobs}
ASSUME WorkersAssumption == IsFiniteSet(Workers)

VARIABLES
  cpc,      \* each job's coroutine
  done,     \* Shared::done
  waiter,   \* Shared::waiter is set
  tasks,    \* tasks_, a queue
  wpc,      \* each worker: "idle" (about to test the predicate of its wait),
            \* "blocked" in cv_.wait, "running" its job, or "exited"
  wjob,     \* the job a worker runs
  teardown, \* how far the destruction of the Server is
  badPost   \* a worker has posted to a destroyed engine: the process is lost

poolVars == <<cpc, done, waiter, tasks, wpc, wjob, teardown, badPost>>
tvars == <<loopVars, ringVars, poolVars>>

\* The stages of a coroutine: waiting for its I/O, f pushed, worker notified,
\* found not done by await_ready, suspended, and past the co_await.
Stages == {"io", "pushed", "notified", "checked", "suspended", "resumed"}

\* The steps of the destruction: the engine is gone, stop_ is set, and the
\* workers have been notified and are being joined.
Teardown == {"no", "engine", "stop", "join"}
engine == teardown = "no"
stop == teardown \in {"stop", "join"}

TInit ==
  /\ LoopInit({Start(j) : j \in Jobs})
  /\ cpc = [j \in Jobs |-> "io"]
  /\ done = [j \in Jobs |-> FALSE]
  /\ waiter = [j \in Jobs |-> FALSE]
  /\ tasks = <<>>
  /\ wpc = [w \in Workers |-> "idle"]
  /\ wjob = [w \in Workers |-> NoJob]
  /\ teardown = "no" /\ badPost = FALSE

-----------------------------------------------------------------------------
(* The loop thread, in the coroutine of job j *)

InCoroutine(j, op) == lpc = "dispatch" /\ current = op

\* tasks_.push under mutex_
Push(j) ==
  /\ InCoroutine(j, Start(j)) /\ cpc[j] = "io"
  /\ cpc' = [cpc EXCEPT ![j] = "pushed"]
  /\ tasks' = Append(tasks, j)
  /\ UNCHANGED <<loopVars, ringVars, done, waiter, wpc, wjob, teardown, badPost>>

\* cv_.notify_one wakes a blocked worker, if there is one.  (Faulty variant: the
\* notification is missing.)
WakeNobody(j) == UNCHANGED wpc
WakeOne(j) ==
  LET blocked == {w \in Workers : wpc[w] = "blocked"}
  IN  IF blocked = {} THEN UNCHANGED wpc
      ELSE \E w \in blocked : wpc' = [wpc EXCEPT ![w] = "idle"]
Notify(j) ==
  /\ InCoroutine(j, Start(j)) /\ cpc[j] = "pushed"
  /\ cpc' = [cpc EXCEPT ![j] = "notified"]
  /\ WakeOne(j)
  /\ UNCHANGED <<loopVars, ringVars, done, waiter, tasks, wjob, teardown, badPost>>

\* await_ready: when f is done already, the coroutine does not suspend.
AwaitReady(j) ==
  /\ InCoroutine(j, Start(j)) /\ cpc[j] = "notified"
  /\ IF done[j] THEN /\ cpc' = [cpc EXCEPT ![j] = "resumed"]
                     /\ Seen /\ UNCHANGED <<running, signalled, asked>>
     ELSE /\ cpc' = [cpc EXCEPT ![j] = "checked"]
          /\ UNCHANGED <<loopVars, ringVars>>
  /\ UNCHANGED <<done, waiter, tasks, wpc, wjob, teardown, badPost>>

\* await_suspend: name the waiter, and suspend only if f is still not done.
\* (Faulty variants: suspend in any case; the result is negated.)
SuspendsWhenDone(j) == done[j]
SuspendsAlways(j) == TRUE
Suspends(j) == ~done[j]
AwaitSuspend(j) ==
  /\ InCoroutine(j, Start(j)) /\ cpc[j] = "checked"
  /\ waiter' = [waiter EXCEPT ![j] = TRUE]
  /\ cpc' = [cpc EXCEPT ![j] = IF Suspends(j) THEN "suspended" ELSE "resumed"]
  /\ Seen
  /\ UNCHANGED <<running, signalled, asked, done, tasks, wpc, wjob, teardown, badPost>>

\* The loop resumes the coroutine from its NOP: await_resume.
Resume(j) ==
  /\ InCoroutine(j, Nop(j))
  /\ cpc' = [cpc EXCEPT ![j] = "resumed"]
  /\ Seen
  /\ UNCHANGED <<running, signalled, asked, done, waiter, tasks, wpc, wjob, teardown, badPost>>

-----------------------------------------------------------------------------
(* The workers *)

\* worker_loop: the predicate of cv_.wait holds and there is a task.
TakeTask(w) ==
  /\ wpc[w] = "idle" /\ tasks # <<>>
  /\ tasks' = Tail(tasks)
  /\ wpc' = [wpc EXCEPT ![w] = "running"]
  /\ wjob' = [wjob EXCEPT ![w] = Head(tasks)]
  /\ UNCHANGED <<loopVars, ringVars, cpc, done, waiter, teardown, badPost>>

\* ... there is nothing to do: wait, or leave when the pool is being destroyed.
NoTask(w) ==
  /\ wpc[w] = "idle" /\ tasks = <<>>
  /\ wpc' = [wpc EXCEPT ![w] = IF stop THEN "exited" ELSE "blocked"]
  /\ UNCHANGED <<loopVars, ringVars, cpc, done, waiter, tasks, wjob, teardown, badPost>>

\* A spurious wake-up of cv_.wait.
Spurious(w) ==
  /\ wpc[w] = "blocked"
  /\ wpc' = [wpc EXCEPT ![w] = "idle"]
  /\ UNCHANGED <<loopVars, ringVars, cpc, done, waiter, tasks, wjob, teardown, badPost>>

\* f() has returned or thrown: store the outcome, and post the waiter.
Finish(w) ==
  LET j == wjob[w] IN
  /\ wpc[w] = "running"
  /\ done' = [done EXCEPT ![j] = TRUE]
  /\ wpc' = [wpc EXCEPT ![w] = "idle"]
  /\ wjob' = [wjob EXCEPT ![w] = NoJob]
  /\ IF waiter[j] /\ engine THEN Post(Nop(j)) /\ UNCHANGED badPost
     ELSE /\ badPost' = (badPost \/ waiter[j])
          /\ UNCHANGED <<pending, sq, kernel>>
  /\ UNCHANGED <<loopVars, cq, current, cpc, waiter, tasks, teardown>>

-----------------------------------------------------------------------------
(* Destruction of the Server after run() has returned *)

DestroyEngine ==
  /\ lpc = "stopped" /\ teardown = "no"
  /\ teardown' = "engine"
  /\ UNCHANGED <<loopVars, ringVars, cpc, done, waiter, tasks, wpc, wjob, badPost>>

\* ~ThreadPool: set stop_ under mutex_ ...
SetStop ==
  /\ teardown = "engine"
  /\ teardown' = "stop"
  /\ UNCHANGED <<loopVars, ringVars, cpc, done, waiter, tasks, wpc, wjob, badPost>>

\* ... then cv_.notify_all, and join.  (Faulty variant: notify_one.)
WakeAllButSome ==
  \/ wpc' = wpc /\ \A w \in Workers : wpc[w] # "blocked"
  \/ \E w \in Workers : wpc[w] = "blocked" /\ wpc' = [wpc EXCEPT ![w] = "idle"]
WakeAll == wpc' = [w \in Workers |-> IF wpc[w] = "blocked" THEN "idle" ELSE wpc[w]]
NotifyAll ==
  /\ teardown = "stop"
  /\ teardown' = "join"
  /\ WakeAll
  /\ UNCHANGED <<loopVars, ringVars, cpc, done, waiter, tasks, wjob, badPost>>

LoopStep ==
  \/ Run \/ Check \/ Drain
  \/ \E op \in Ops : Take(op)
KernelStep == \E op \in Ops : engine /\ Complete(op)
Outside == Signal \/ Stop

CoroutineStep(j) ==
  Push(j) \/ Notify(j) \/ AwaitReady(j) \/ AwaitSuspend(j) \/ Resume(j)
WorkerStep(w) == TakeTask(w) \/ NoTask(w) \/ Finish(w)

TNext ==
  /\ ~badPost
  /\ \/ (LoopStep \/ KernelStep \/ Outside) /\ UNCHANGED poolVars
     \/ \E j \in Jobs : CoroutineStep(j)
     \/ \E w \in Workers : WorkerStep(w)
     \/ \E w \in Workers : Spurious(w)
     \/ DestroyEngine
     \/ SetStop
     \/ NotifyAll

TSpec == TInit /\ [][TNext]_tvars

\* The threads run, f() returns, the kernel completes what it has taken, and
\* destructors run to their end.
LoopThread == ~badPost /\ ((LoopStep /\ UNCHANGED poolVars) \/ \E j \in Jobs : CoroutineStep(j))
Kernel == ~badPost /\ KernelStep /\ UNCHANGED poolVars
Worker(w) == ~badPost /\ WorkerStep(w)
Destructor == ~badPost /\ (SetStop \/ NotifyAll)
TFairness ==
  /\ WF_tvars(LoopThread) /\ WF_tvars(Kernel)
  /\ \A w \in Workers : WF_tvars(Worker(w))
  /\ WF_tvars(Destructor)
TFairSpec == TSpec /\ TFairness

-----------------------------------------------------------------------------
(* Properties *)

\* Every variable holds a value of its type (type invariant).
TTypeOK ==
  /\ lpc \in LoopPhases
  /\ {running, signalled, asked, badPost} \subseteq BOOLEAN
  /\ teardown \in Teardown
  /\ pending \in Seq(Ops) /\ sq \subseteq Ops /\ kernel \subseteq Ops /\ cq \subseteq Ops
  /\ current \in Ops \cup {NoOp}
  /\ cpc \in [Jobs -> Stages]
  /\ done \in [Jobs -> BOOLEAN] /\ waiter \in [Jobs -> BOOLEAN]
  /\ tasks \in Seq(Jobs)
  /\ wpc \in [Workers -> {"idle", "blocked", "running", "exited"}]
  /\ wjob \in [Workers -> Jobs \cup {NoJob}]

\* No wake-up is lost and none is left over: a coroutine that has suspended and
\* whose f is done has its NOP under way, and only such a coroutine has one,
\* whichever of done and waiter was set first.  (That a post is not overwritten
\* in the submission queue by the loop thread is an assumption of EngineLoop.)
WakeupExact ==
  \A j \in Jobs : ~badPost => (Queued(Nop(j)) <=> cpc[j] = "suspended" /\ done[j])

\* However loop thread, workers, spurious wake-ups and destruction interleave,
\* the pool keeps the promise of enqueue: jobs start in order, each once, and a
\* coroutine goes past its co_await once, when its result is there.
Enqueues ==
  INSTANCE Offload WITH
    PoolSize <- Cardinality(Workers),
    queue <- tasks,
    active <- {wjob[w] : w \in {v \in Workers : wpc[v] = "running"}},
    finished <- {j \in Jobs : done[j]},
    resumed <- {j \in Jobs : cpc[j] = "resumed"}
ImplementsOffload == Enqueues!OSpec

\* No task is stranded: with tasks in the queue and no notification owed by the
\* loop thread, some worker is awake.
NoStrandedTask ==
  tasks # <<>> /\ (\A j \in Jobs : cpc[j] # "pushed") =>
    \E w \in Workers : wpc[w] \in {"idle", "running"}

\* Every enqueued job resumes its coroutine, unless the loop is stopped or the
\* NOP is left behind for good: in the submission queue by an io_uring_submit
\* that failed, whose result is ignored, or put aside in pending_posts_ behind a
\* queue that such failures have filled.  As everywhere in this module, the loop
\* thread and a worker do not meet in the submission queue.
LeftBehind(j) ==
  \/ Nop(j) \in sq
  \/ Nop(j) \in Range(pending) /\ Cardinality(sq) = SqSize
EnqueueResumes ==
  \A j \in Jobs :
    cpc[j] = "pushed" ~> (cpc[j] = "resumed" \/ lpc = "stopped" \/ []LeftBehind(j))

\* The destructor of the pool returns: every worker drains the queue and exits,
\* unless one of them has posted to the engine, which is destroyed before the
\* pool.
PoolJoins == stop ~> (badPost \/ \A w \in Workers : wpc[w] = "exited")
=============================================================================
