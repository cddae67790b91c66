# A TLA+ development of servd

servd is a C++20 coroutine server library on Linux io_uring. One thread runs an
event loop; every connection, the UDP socket and every timer is a coroutine on it.
Blocking work goes to a thread pool and comes back through the ring. This directory
holds TLA+ models of the parts in which order, failure and concurrency decide
whether the library is right, TLC runs of them on small instances, and TLAPS proofs
of the main properties for every instance. Paths below are relative to the
repository's root (`src/` holds `UringEngine/` and `serveur/`, `include/servd/` the
headers).

## The system

| part | state | operations | talks to |
|---|---|---|---|
| accept loops (`ClientHandlers.cpp:120`) | `active_connections_`, the discovery switches | accept, reject | start a client coroutine |
| client coroutines (`handle_client`, `text_handle_client`) | one descriptor, `current_sid` | read frame, load session, register, process, save, leave | registry, session store, router, pool (disconnect handler) |
| registry `sessions_` (`EngineCore.cpp:38`) | session id -> descriptor | register, unregister | read by the messaging operations |
| messaging (`SessionBroadcast.cpp`) | a snapshot of the registry | send_to, broadcast, broadcast_if | registry, descriptors |
| request path (`CommandRoute.cpp`, `EncryptedHandler.cpp`) | a copy of the session | key exchange, encrypted message, command, reply | store, router, handler, connection |
| session store (`InMemorySessionStore.hpp`) | session id -> session | get_or_create (a copy), save | request path |
| event loop (`EngineCore.cpp:75`) | `running`, the signal flag, `pending_posts_`, the ring | run, drain, dispatch, stop | resumes every coroutine |
| thread pool (`ThreadPool.hpp`) | `tasks_`, `stop_`, per job `done` and `waiter` | enqueue, worker loop, destructor | post_coroutine |
| when_all (`Task.hpp:34-132`, `283-365`) | `remaining`, `started`, slots, error | launch, final_suspend, continue the caller | the tasks awaited |
| framing (`FrameIO.cpp`, `IoUring.cpp`, the three connection classes, `Context.hpp`) | bytes or lines not read yet, writes in flight | read exactly, read header and payload, take a datagram, send a frame, push_event | client coroutines, messaging |
| submission queue (`IoUring.cpp`, `EngineCore.cpp:38-73`) | head, tail, entries, `sqe_mutex_` | get, fill and submit an entry | every operation, workers that post |
| UDP loop, discovery, timers, D-Bus (`ClientHandlers.cpp:145-255`) | a socket, the switches, a period | receive, answer, announce, fire, poll | request path, switches, application |
| life cycle (`ServerLifecycle.cpp`, `ServerConfiguration.cpp`) | configuration, `running` | init, run, stop, enable_*, disable_discovery | starts every loop |
| logger (`Logger.cpp`) | level, file stream, column width, mutex | log, log_s, the setters | any thread |

What is hard here:

* **Suspension points.** All coroutines share one thread, so there are no data races
  among them; but state read before a `co_await` is used after it: a copied session,
  a copied registry, a descriptor number.
* **Descriptor reuse.** `close()` frees a number that the next accept returns while
  others may still hold it.
* **Exceptions.** Each read, write and handler can throw. Code after the read loop is
  outside the `try` block, the `catch` clauses take `std::exception` only, and a
  `DetachedTask` discards what escapes.
* **Two threads at a hand-off.** The pool's worker may finish before, between or after
  the two tests the loop thread makes, and posts to a ring whose submissions may fail.
* **Clients.** They choose session ids, may use one on several connections, lose
  replies, reconnect and disappear.
* **A ring with one writer assumed.** Workers post under `sqe_mutex_`; the operations
  of the loop thread use the same queue without it.
* **Partial I/O.** Reads are put together to whole frames, writes are not repeated.
* **Background loops.** Each has its `try` block in another place, and which failure
  ends a loop for good depends on it. They share switches with the connections.
* **Lifetimes.** The engine goes before the pool that posts to it; a task started
  late reads a reference to a local of a function that has returned.

`PROJECT.json` lists each hazard at its line, with the properties aimed at it.

## Modules

| module | models | built on |
|---|---|---|
| `Clients` | accept loop, both client coroutines, registry, count, discovery switches | |
| `Messaging` | send_to, broadcast, broadcast_if, from handlers and timers | extends `Clients` |
| `Server` | init, run, stop, signals, and the accept, UDP, discovery, announcing, timer and D-Bus loops | extends `Clients` |
| `Endpoints` | sessions, endpoints, routing test | |
| `SnapshotSessions` | abstract: a request replaces its session by what it saw of it, changed by its own effect alone | extends `Endpoints` |
| `Requests` | load, handle, reply, save; key exchange; encrypted messages; TCP and UDP | extends `Endpoints`, implements `SnapshotSessions` |
| `Framing` | frames in byte streams, text lines and datagrams; what the client sees of replies, messages and events | |
| `SubmissionQueue` | the ring's submission queue at the level of head, tail and entries | |
| `EngineLoop` | run, drain_pending_posts, post_coroutine, signals, the ring | |
| `Offload` | abstract: what `co_await pool.enqueue(f)` promises | |
| `ThreadPool` | enqueue, workers, destruction of the Server | extends `EngineLoop`, implements `Offload` |
| `WhenAll` | when_all of N tasks | |
| `Logger` | log and log_s by several threads, and the setters | |
| `MCRequests`, `MCThreadPool` | values for TLC | |
| `ClientsProofs`, `RequestsProofs`, `WhenAllProofs`, `ThreadPoolProofs`, `FramingProofs`, `SubmissionQueueProofs`, `LoggerProofs` | theorems about the module each is named after | extend it |
| `CompositionProofs` | theorems about `Messaging` and `Server` | extends both and `ClientsProofs` |

Definitions marked *faulty variant* are not part of a specification. Each is a
plausible mistake in the operator that follows it; put in its place it violates the
property `PROJECT.json` names with it. They are there to show that the properties can
fail.

### Clients and Messaging

A connection is a descriptor with a phase: `reading` (in `async_read_exact`),
`serving` (from the registration of its frame's session to the end of `save`),
`closing` (awaiting the disconnect handler on the pool), `leaked` (an exception
escaped after the read loop), `abandoned` (one that is no `std::exception` escaped
from the read loop itself) or `closed`. An action is the stretch of a coroutine
from the completion that resumes it to its next suspension: `Frame` is loading,
switching sessions and registering (lines 36-46); `Leave` is everything after the
read loop (55-75 and 106-117), with the early end when `thread_pool()` throws.
`SwitchSession` keeps the code's exception for session 0, `DropSession` its test for
`2^64-1`, which is both "no session yet" and an id a client may send.

The phases `leaked` and `abandoned` are the code's: nothing catches the exception of a
disconnect handler, nor one of a command handler that is not derived from
`std::exception` (`ServeEscapes`). The count then keeps the connection, as the code's
count does, so `ActiveExact` counts it as open (it is: the descriptor is never
closed). An abandoned connection also keeps its registry entry, which still leads to
its own descriptor; `RegistryLive` says so.

`contested` is a history variable: the sessions that several live connections came
to share, until none uses them. The registry holds one descriptor per session, and
the end of any of its connections erases the entry; `UncontestedReachable` says that
nothing else makes a connection unreachable.

`Messaging` adds, per caller, the entries of its snapshot still to visit and the one
being written to. Every completed write continues the loop with any entry, since
`unordered_map` gives no order. A write is submitted at once, so a closed descriptor
fails and a reused one reaches its new owner. `dead` and `used` are history.

### Requests

A request in flight holds a copy of its session. `Dispatch` takes the copy and routes;
`HandlerReturns` acts on the copy; `SendDone` saves it. Exceptions discard it: a
stream connection ends, the UDP loop goes on. In a key exchange the new key goes into
the copy, the reply is sent, and only then the copy is saved, so the client may have
the key before the store has it.

Requests of one session may be in flight on several channels at once; nothing in the
server prevents it, and a client that waits for each reply does not either, because
the reply leaves before the save: its next frame, on another channel, may find the
session as it was. `SnapshotSessions` is what is true all the same: a save writes what
this very request read, changed by its own handler or its own exchange, and an
endpoint with `require_auth` acts only for a request that read an authenticated
session. Without overlap that is an atomic step; with it the later save wins, and what
the earlier one changed is lost, as `requests_lost_update` shows.

`seen`, `stale` and `lost` are history: what a request in flight read, the requests
whose session was saved since they read it, and the sessions that such a request has
saved since their last exchange. `KeyAgreement` and `KeyArrives` excuse the sessions
in `lost` and no others, so they say that overwriting is the only way in which the two
sides come apart. `KeyAgreement` speaks of a key the store has *or is about to have*:
the repository's README lists storing the key before the reply (README.md:258-259),
the code does it the other way round, and a frame encrypted under the new key that
arrives in between is dropped (`RecvEncrypted`). `KeyArrives` says that this ends.

Cryptography is ideal: both sides choose a new private key for each exchange, so it
yields a new key, and a message decrypts under its own key only. The client starts an
exchange when no earlier reply can come.

### EngineLoop and ThreadPool

`run()` is a loop over `check`, `drain`, `wait` and `dispatch`; a dispatch lasts until
the resumed coroutine suspends. `sq` holds entries that `io_uring_submit` has failed
to pass on. A post to a full queue goes to `pending_posts_`. A submission is one step
here: the module assumes that the loop thread and a worker do not meet in the queue.
They can, as `SubmissionQueue` shows, and then an operation may be lost; what
`EngineLoop` and `ThreadPool` say holds until that happens.

A job's coroutine is started by an I/O completion and runs on the loop thread in the
steps between which a worker may act: push, notify, `await_ready`, `await_suspend`.
Critical sections are atomic. A worker that finishes sets `done`, looks at `waiter`
and posts, all under the job's mutex (`ThreadPool.hpp:74-101`), which is one action.
Spurious wake-ups of the condition variable happen. After `run()` returns, the
Server's members are destroyed in reverse order of declaration (`Server.hpp:108-129`):
the engine, then the pool, which drains its queue, so jobs still finish then. A job
whose coroutine waits then posts to a destroyed engine, which is undefined; `badPost`
marks it, and nothing is said of a behaviour from there on: no step is taken any more.

`Offload` is the promise of `enqueue` without threads: a queue, what runs, what has
ended, who has gone on. `ThreadPool` implements it with `tasks_` as the queue, the
jobs of running workers, the `done` flags, and the coroutines past their `co_await`
(`ImplementsOffload`): the two checks, the mutex and the condition variable add
nothing that the abstract pool could not do.

### SubmissionQueue

`EngineLoop` takes a submission as one step. `SubmissionQueue` takes it apart:
`io_uring_get_sqe` reads the tail (`GetTail`) and stores the next (`Claim`), the entry
is filled (`Fill`), and `io_uring_submit` hands the kernel what lies between its head
and the tail (`Submit`), or only part of it. `Post` and `Drain` hold `sqe_mutex_`
throughout; `Async`, which stands for every operation of a coroutine, takes no lock.
Head and tail are unsigned 32-bit counters in liburing. A meeting can put the tail
behind the head, and their difference is then a huge number: `Full` finds no free entry
(`Free` allows one where the tail is one behind, as liburing compares the tail *after*
the new entry, and both versions of its test are in use). A null entry is put aside by
a post, ends a drain, and is used by any other operation (`crashed`). `raced` is history: the loop thread was in the queue together with a
worker. `OnceUnlessRaced` says that nothing else loses or doubles an operation,
`ring_race` that this does. The kernel and liburing are modelled from how the code
uses them.

### Framing

What a client has sent is a row of numbered units, bytes or text lines, so that it
can be told which units a frame is made of. Reads return any number of units, up to
what was asked for (`ReadHeader`, `ReadPayload`); a datagram may be of any length and
announce any payload. A text header that is refused leaves its payload line on the
stream: the code reads it as a header, and so does the model.

Writing, a message is a row of buffers in flight. Replies are awaited by their
connection's coroutine, messages of `send_to` and `broadcast` are written beside them,
and a stream socket may take less than it was given, which the code does not look at.
The header of `push_event` is a local variable that `send_frame`, a lazily started
task, reads by reference when it is awaited, and `push_event` has returned then
(`Context.hpp:38-41`, `Task.hpp:218`): `Event` sends the header that was meant or
garbage.

### Server

`InitStep` starts the coroutines in the order of `Server::init()`, `InitThrows` fails
in one of the places where a socket is made. `run()` alternates between `check` and
`wait`; a completion resumes one coroutine, of `Clients` or of a background loop, to
its next suspension. A background loop waits for its operation, is busy with what it
got (a handler, a send), has left its `while` or is dead of an exception. `Catches`
is where the `try` blocks are: the accept, UDP and discovery loops go on after a
failed operation, periodic tasks (the announcements are one) and the D-Bus monitor
die of one. `Escapes` is an exception of the application that is no `std::exception`,
which no loop catches. What `sd_bus_process` does is libsystemd's. Which coroutines
exist is the application's choice, one of `Setups`.

A signal sets its flag. It also interrupts `io_uring_wait_cqe`, unless it comes in the
window between the test of the flag and that call, or another thread takes it
(`Signal`): then the loop learns of it from its next completion only.

The other variables are history: whether a lookup was answered since the last
rejection, whether the server announced itself since it was last idle, whether
somebody was turned away, whether somebody has left, which coroutines an exception
has ended, and what the application last said. `appOff` is `"weak"` when lookups are not answered either, for then a close
cannot tell the application's wish from a suspension and switches both on. A stop
from another thread may find a completion of a client under way; `LastClientStep` is
that completion.

### WhenAll

`WhenAll` steps through `await_suspend`, each wrapper ending inside it or later,
with a value or an exception. On the event loop no task is resumed before
`await_suspend` has returned.

### Logger

A line is written in pieces, each a step, so that lines of two threads could mix.
`format_file_column` subtracts two from an unsigned width: a column narrower than two
makes it throw after the first piece (`narrow`, `Leave`). The file stream is `none`,
`open`, or `bad`: `open()` on a stream that has a file open fails and keeps it, so
that `is_open()` is still true and all that is written is dropped. So does a write
that fails (`FileFails`), wherever in a line it is: nobody clears the stream's error.
The setter of the
width takes no lock and may act in the middle of a line.

## Runs

Each passing run checks the safety, action and liveness properties of one
specification together, without symmetry where liveness is checked.

| run | instance | checks |
|---|---|---|
| `clients` | 3 descriptors, limit 2, sessions 0, 1 and 2^64-1, both protocols, handlers that may throw anything; 571 168 states | `ActiveExact`, `ConnectionLimit`, `SuspendedOnlyWhenFull`, `RegistryLive`, `UncontestedReachable`, `GoneIsClosed`, `DiscoveryResumes` |
| `messaging` | 2 descriptors, no limit, sessions 0, 1, 2, one calling handler; 674 766 states | `AddressedToUser`, `SendToIsFresh`, `VisitsOnce`, `BroadcastEnds` |
| `server` | 2 set-ups with all six loops between them, 2 descriptors, limit 1, answers configured off; 13 140 states | `KeepsServing`, `DisableHolds`, `SilentWhenTold`, `LookupAnswered`, `AnnouncedWhenIdle`, `StopReturns` |
| `requests` | 2 TCP connections and UDP on one session, login, logout and an unknown command, 2 key exchanges; 192 648 states | `KeyAgreement`, `KeyArrives`, `ImplementsSnapshots` |
| `framing` | 2 frames with headers of 2 units and payloads up to 2, one message or event, all three transports; 235 424 states | `FramesFaithful`, `UnitsOnce`, `ClientInStep`, `FramesDelivered` |
| `ring` | 2 workers and the loop, a queue of 2, 2 operations each, 3 failing submissions; 493 409 states | `OnceUnlessRaced`, `NullNeedsFailures` |
| `threadpool` | 3 jobs, 2 workers, submission queue of 2, submissions may fail; 138 520 states | `WakeupExact`, `NoStrandedTask`, `ImplementsOffload`, `EnqueueResumes`, `PoolJoins` |
| `whenall` | 5 tasks; 1 044 states | `ContinuedOnce`, `AllDoneFirst`, `OutcomeComplete`, `WhenAllReturns` |
| `logger` | 2 threads, 3 calls, 2 levels, 2 calls of `setLogFile`, writes to the file may fail; 452 792 states | `WholeLines`, `FileFollowsStderr`, `CallReturns` |
| `requests_lost_update` | one TCP connection and UDP, 2 sessions | violates `LoginSticks` |
| `framing_event` | the instance of `framing` | violates `EventsKeepStep` |
| `ring_race` | the instance of `ring`, no submission fails | violates `NothingLost` |

What the properties say is stated above each of them. The types of the variables
(`TypeOK`, `MTypeOK`, `TTypeOK`) are in the modules and proved; for `Server`,
`Framing`, `SubmissionQueue` and `Logger` they are part of the inductive invariants
below.

*Bounds.* Three descriptors with a limit of two make a rejection, a reuse and a third
party to a takeover possible; the two special session ids and an ordinary one are all
the cases the code tells apart in `Clients`, two ordinary ones are needed in
`Messaging` to tell an address from a stale one. With a second caller, or a timer
that calls without a connection of its own, `Messaging` outgrows TLC.
In `requests` three requests of one session can
be in flight, one more than a lost update takes, and two keys let an exchange be
repeated after a lost one; sessions do not touch each other, so one is enough (the
theorems cover any number). The run `clients` sets
a disconnect handler and a pool; without a pool (`PoolEnabled` false) `Leave` goes to
`leaked` at once, which only the theorems cover. `server` has one set-up with the
loops of discovery and one with the others, as they share nothing but `run()`; it has
one slot and two descriptors, so that every second client is rejected, and no frames, whose effect on
the registry the loops do not look at; answers are configured off, because the
case of answers configured on is part of it, once a client has left. In `framing`
every read can be cut, and a second frame is there to be reached in step or out of
step; longer headers and payloads add cuts of the same kind. A queue of two in
`ring` lets a tail go back behind a head and be passed, three failures are one more
than it takes to fill it. In `threadpool`, a submission queue of two is filled
by two failures, so that a third post is put aside, and three jobs on two workers leave
one queued while both workers run. Two switches of the log file are the first and one too many.
`MaxKeys`, `MaxFrames`, `MaxPushes`, `MaxOps`, `MaxFailures`, `MaxCalls` and
`MaxSwitches` cut counters off; everything else is finite by itself. The runs allow
the system to stop (a stopped server, all jobs done, a bound reached), so deadlock is
checked only for `requests`, which never stops.

*Fairness.* `Clients`: a read or write on a connection whose peer is gone completes,
because the kernel completes it, and a disconnect handler on the pool returns. Nothing
is assumed of peers that are there and silent: the code has no time-outs, and such a
connection stays for ever. `Messaging`: each write completes or fails; a peer that is
there and does not read blocks a broadcast for ever in the code too, so the assumption
is about peers. `Framing`: what was sent arrives, handlers return, writes complete or
fail. `Requests`: a send completes, with or without an error; nothing is assumed of
handlers. `ThreadPool`: each thread runs, jobs return, the kernel completes what
it has taken, all of it up to a post to a destroyed engine; nothing is assumed of
`io_uring_submit`. `WhenAll`: what a task waits
for completes. All of it is weak fairness, on the steps the thread or the kernel
takes when it can. `Server` and `Logger` need strong fairness: a completion of one
loop is disabled and enabled again with every turn of `run()`, which dispatches
completions in the order in which they came and so passes none over for ever; and a
thread that waits for the logger's mutex finds it free again and again. `Server` also
assumes that handlers return, that somebody keeps looking for the server and sending
datagrams, and that not every answer fails to be sent. Nothing is assumed of its
connections, so its liveness properties hold whatever they do.

## Theorems

All theorems hold for every value of the constants that satisfies the named
assumptions of the modules (finitely many descriptors, sentinels distinct from what
they mark, naturals where the code has unsigned numbers). Every safety, action and
refinement property that a passing run checks is stated by a theorem. The inductive
invariants were checked with TLC on the instances of the runs before they were
proved.

*ClientsProofs.* `TypeCorrect` and `CountCorrect` are proved together
(`BasicsInvariant`): the count stays a natural number because it is exact, and it is
exact because every path from `Accept` ends in one `Close` at most. `LimitCorrect` and
`SuspensionCorrect` need `LimitInv`, the limit stated on the count: the test before
accepting and the test after closing meet without a gap. `RegistryCorrect` is
inductive given the types. `ReachableCorrect` (`UncontestedReachable`) rests on
`ApartWhenUncontested`, that two live connections on an uncontested session would
both be its registered one, and on `ClosedClean`, that a descriptor starts without a
session.

*RequestsProofs.* Nothing is assumed of overlap. `Basics` says what a copy may be:
what its request read while the handler runs, the effect of its own command or a key
of its own on it while the reply is sent; and that a key anywhere has been handed out.
A request that is not `stale` holds what the store still has. From it follows
`Implementation`, the refinement of `SnapshotSessions` with the store as the sessions
and what the requests in flight have read as their views. `AgreementHolds` needs
`KeyInv`: a key the client has or will have is the stored one, or is being answered,
unless a stale copy was saved; so that a failed send cannot take back a key in use.
`LoginHolds` is `LoginSticks` with the exception that makes it true: a login is undone
by a logout, or by a request whose copy is stale, and `requests_lost_update` shows
that the second happens.

*WhenAllProofs.* None of the properties is inductive. `IInv` ties how far
`await_suspend` is (`Staged`) to the number of unfinished wrappers (`CountExact`) and
says that a finished wrapper has left a value or an error (`Accounted`). From it, for
any number of tasks: `OnceCorrect`, `AllDoneCorrect`, `OutcomeCorrect`.

*CompositionProofs.* Each step of `Messaging` and of `Server` is a step of `Clients`
or leaves its variables alone, so the invariants of `ClientsProofs` hold in both and
are used there. `MessagingInv` adds that the entries of a snapshot are of different
sessions and the one being written to is not visited again (`SnapshotInv`), and that
the history of a descriptor's sessions has the current one and is forgotten at the
close (`UsedInv`). `AddressesCorrect` is inductive with these, `SendToCorrect` and
`VisitsCorrect` follow, for any number of callers. In `ServerInv`, `SwitchInv` ties
the switches to the histories: an "off" of the application holds only because lookups
are answered at the same time, and nobody was turned away since they are.
`DisableCorrect` and `SilenceCorrect` follow.

*ThreadPoolProofs.* `PoolInv` says where things are: an entry of the ring is in one
of `sq`, `pending_posts_`, the kernel or the completions, and once (`RingInv`); the
loop has a current operation only in a dispatch, and the engine outlives `run()`
(`LoopInv`); a job is in
`tasks_`, with one worker, or done, according to its coroutine's stage (`JobInv`); a
worker has left only after `stop_` and with nothing queued (`ExitInv`). `WakeupExact`
is inductive together with these, which is the content of the two tests of `done`
and `waiter`. `StrandedCorrect` (some worker is awake while tasks are queued and
announced) is inductive given `PoolInv`. It assumes a pool with a worker: `enable_thread_pool(0)`
is accepted by the code, and such a pool never runs anything. `OffloadImplemented`
is the refinement of `Offload`, step by step.

*FramingProofs.* For headers and payloads of any length. `ReadInv` relates the place
of the reader on the stream to the row of frames sent (`PositionInv`): as long as no
header was refused, the reader is inside the frame whose turn it is. `FramesCorrect`
and `UnitsCorrect` are part of the invariant, since what was delivered before decides
where the next frame begins. `ClientCorrect` needs `FlightInv`, what the buffers of a
message in flight may be, and `OutInv`: what has been written comes in pairs of
header and payload, unless a write fell short or a text reply had a line break in it.
The proof showed that two cases of the model's `Resume` overlapped; they are alternatives that
exclude each other now.

*SubmissionQueueProofs.* `QueueInv` has the types, the mutex (`MutexInv`), and which
thread is at which operation. `NullCorrect` rests on `BacklogInv`: the tail is ahead
of the head by at most the failed submissions and the threads inside, and a tail read
before another thread moved it is no further ahead, meetings included; what is left is
a tail behind the head, which only a meeting can bring about.
`OnceCorrect` rests on two facts while nothing has raced: one thread is inside at a
time (`AloneInv`), and the operations placed are exactly the ones between head and
tail, each found once (`RingInv`, `PlaceInv`). It uses that entries less than the
queue's size apart lie in different slots (`SlotsDiffer`). Both hold for every
size, number of threads and number of failures.

*LoggerProofs.* `LogInv` says that whoever is inside a line holds the mutex
(`HoldInv`), which piece each stream ends with then (`TailInv`), and that the pieces
before follow each other as in a line (`LinesInv`); `LinesCorrect` is immediate.
`FileCorrect` needs `CopyInv`: the calls whose line is due in the file are in the
order of their lines on stderr, and each has its line there but the one that is about
to write it, or whose write failed.

*Only model-checked:* the liveness properties `GoneIsClosed`, `DiscoveryResumes`,
`BroadcastEnds`, `KeyArrives`, `KeepsServing`, `LookupAnswered`, `AnnouncedWhenIdle`,
`StopReturns`, `FramesDelivered`, `EnqueueResumes`, `PoolJoins`, `WhenAllReturns` and `CallReturns`:
the prover has no reasoning about fairness or `ENABLED` here.

## What the code does not keep

The violation runs show three disagreements; `PROJECT.json` quotes the lines.

1. A request that overlaps a login of its session undoes it (`requests_lost_update`).
2. An event of `push_event` goes out with whatever is where its header was
   (`framing_event`); called without `co_await`, as the guides show it, it sends
   nothing at all.
3. An operation of the loop thread and a post of a worker can take the same entry of
   the submission queue, and one of the two is lost (`ring_race`).

Others were met while modelling and are visible in the actions, without a run:

* A connection that moves on from session 0 leaves its registry entry behind after
  it closes (`SwitchSession`; the reason why `RegistryLive` excepts session 0).
* One failed write ends a broadcast for the clients after it (`WriteFailsCaught`,
  `WriteFailsThrough`).
* A broadcast keeps descriptor numbers across suspensions and can write to a
  connection accepted meanwhile (`AddressedToUser` speaks of expired addresses).
* A job still running when the Server is destroyed posts to a destroyed engine
  (`badPost` in `ThreadPool`), in practice a crash inside the pool's destructor.
* The reply of a key exchange leaves before the key is saved, where README.md:258-259
  lists storing first; a client that waits for the reply and goes on over another
  channel can have its frame dropped, or its request run on the session as it was
  (`RecvEncrypted`, "about to have" in `KeyAgreement`).
* A logout does not stop a request that has passed the authentication check, whose
  save then undoes it (`Save`, with the channel in `stale`).
* Once the tail of the submission queue is behind its head (the meeting of item 3),
  `io_uring_get_sqe` may give null to everybody, and the next operation of the loop uses
  it unchecked (`Full`, `crashed`).
* Failed submissions that fill the submission queue are never repeated: posts are put
  aside, and nobody submits any more (`LeftBehind`).
* A signal alone does not guarantee the end of `run()`: between the test and
  `io_uring_wait_cqe`, or taken by a worker, it only sets the flag (`Signal`).
* An exception that is no `std::exception` leaves a connection without unregistering,
  closing or counting it (`ServeEscapes`), and ends the UDP loop, the discovery loop or
  a periodic task for good (`Escapes`, `HandlerEscapes`).
* One failed write to the log file ends logging to it (`FileFails`).
* A text header that is refused shifts header and payload lines against each other
  (`Deliver`; `FramesFaithful` holds up to there).
* A write that is cut short is not continued, and the client loses step (`short`).
* A failed wait ends a periodic task, the announcements or the D-Bus monitor for good
  (`Catches`); the monitor's own test for an error is never reached.
* `disable_discovery()` stops announcements only: lookups are still answered
  (`Responds`), and a rejection followed by a close undoes it (`appOff`, `"weak"`).
* A loop that has left its `while` after `stop()` is not there when `run()` is called
  again.
* A second `setLogFile` ends logging to the file silently (`SetLogFile`), and a file
  column narrower than two makes `log()` throw (`WritePrefix`).
* ARCHITECTURE.md gives the discovery packet another length than the code's struct.
* With two connections on one session, the end of either erases the entry of the
  other (`Unregister`; the reason for `contested`).
* With `on_disconnect()` and no `enable_thread_pool()`, a connection never reaches
  `close()` (`Leave`, the phase `leaked`).
* Text connections never run the disconnect handler (`Notifies`).
* send_to and broadcast write binary frames to text connections too.
* `save` comes after the reply, so a handler's effect is lost when the send fails
  (`Discard`).
* A message that does not decrypt is ignored and the connection stays
  (`RecvEncrypted`), where README.md:298 says it is dropped.
* `stop()` before `run()` is forgotten, and `stop()` does not wake a sleeping loop
  (`Run`, `Stop`).
* The result of `io_uring_submit` is ignored; a NOP it leaves behind waits for the
  next submission, if there is one (`Unsubmitted`, and the third case of
  `EnqueueResumes`).
* `enable_thread_pool(0)` makes a pool that never runs a job; `enqueue` then never
  returns (the assumption of `StrandedCorrect`).
* A pool without `PostCallback` resumes coroutines on its workers; `when_all`'s plain
  `remaining` is then a data race. `WhenAll` models the event loop only.
* A close switches `respond_to_clients` on even when it was configured off
  (`Close` with `RespondConfigured` false).

## Not modelled

What `sd_bus_process` does; the configuration file and the setters that run before
`init()`, and socket set-up (parsing and I/O before the loop starts; their results are
constants); a pool without `PostCallback`; a session store of the application behind
`ISessionStore`; the cryptographic wrappers beyond an ideal cipher; the context's
property bag, local to one request; C++'s coroutine machinery beyond what `WhenAll`
and `Framing` use of it; the example application and clients (its commands are the
constants of `MCRequests`).

## Plan

What is left is the part of the liveness properties that is safety, as lemmas a
liveness argument would rest on:

1. `WhenAll`: when all wrappers are done and `await_suspend` has returned, the caller
   has continued.
2. `ThreadPool`: a coroutine that waits has its job queued, with a worker, or its NOP
   in one place of the ring (from `RingInv`, `JobInv` and `WakeupExact`).
3. `Logger`: the mutex has an owner only while that thread has a step to take.
