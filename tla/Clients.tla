------------------------------ MODULE Clients ------------------------------
(***************************************************************************)
(* The life of a stream connection: start_accept_loop, handle_client and   *)
(* text_handle_client (src/src/UringEngine/ClientHandlers.cpp), the        *)
(* registry sessions_ they maintain (register_session/unregister_session,  *)
(* EngineCore.cpp), the count active_connections_ and the two discovery    *)
(* switches they drive.                                                    *)
(*                                                                         *)
(* All of it runs on the event-loop thread, so an action is one stretch of *)
(* a coroutine from the completion that resumes it to its next suspension. *)
(* A handler that suspends several times stays "serving" throughout.       *)
(* File descriptors are reused: a closed fd may be accepted again.         *)
(***************************************************************************)
EXTENDS Integers, FiniteSets

CONSTANTS
  Fds,                  \* descriptors accept() can return (the fd table)
  Sids,                 \* values of the 64-bit session_id
  FrameSids,            \* the session ids clients put in their frames
  ZeroSid,              \* session id 0
  NoSid,                \* static_cast<uint64_t>(-1), "no session yet"
  NoFd,                 \* absence of a registry entry
  MaxClients,           \* max_clients_, 0 for no limit
  Modes,                \* the ProtocolModes of the configured listeners
  DisconnectHandlerSet, \* on_disconnect() was called
  PoolEnabled,          \* enable_thread_pool() was called
  HandlerMayThrow,      \* the application's handlers throw where nothing catches:
                        \* the disconnect handler anything, any other handler
                        \* something that is no std::exception
  RespondConfigured,    \* DiscoveryConfig::respond_to_clients as configured
  DiscoveryConfigured   \* enable_discovery() was called

ASSUME FdsAssumption == IsFiniteSet(Fds) /\ NoFd \notin Fds
ASSUME SidsAssumption == {ZeroSid, NoSid} \subseteq Sids /\ FrameSids \subseteq Sids
ASSUME SentinelAssumption == ZeroSid # NoSid
ASSUME MaxClientsAssumption == MaxClients \in Nat
ASSUME ModesAssumption == Modes \subseteq {"BINARY", "TEXT"}
ASSUME SwitchAssumption ==
  /\ {DisconnectHandlerSet, PoolEnabled, HandlerMayThrow} \subseteq BOOLEAN
  /\ {RespondConfigured, DiscoveryConfigured} \subseteq BOOLEAN

VARIABLES
  running,   \* UringEngine::running
  st,        \* where the coroutine of each descriptor is
  mode,      \* the ProtocolMode it was accepted under
  cur,       \* its current_sid
  sessions,  \* sessions_: session id -> descriptor, NoFd when absent
  active,    \* active_connections_
  respond,   \* discovery_config_.respond_to_clients
  discovery, \* discovery_enabled_
  eof,       \* descriptors whose peer has closed and sent nothing unread
  contested  \* (history) sessions several live connections came to share

vars == <<running, st, mode, cur, sessions, active, respond, discovery, eof, contested>>

-----------------------------------------------------------------------------
\* The states of a connection.  "closing": its read loop has ended and it
\* awaits the disconnect handler on the thread pool.  "leaked": an exception
\* escaped the coroutine after its read loop, so close() is never reached.
\* "abandoned": one escaped the read loop itself, and its session is still
\* registered.
Phases == {"closed", "reading", "serving", "closing", "leaked", "abandoned"}
Live(fd) == st[fd] \in {"reading", "serving"}
Abandoned(fd) == st[fd] = "abandoned"
Open == {fd \in Fds : st[fd] # "closed"}

\* The connection limit of start_accept_loop.
AtLimitOffByOne == MaxClients > 0 /\ active > MaxClients  \* faulty variant
AtLimit == MaxClients > 0 /\ active >= MaxClients

Register(reg, sid, fd) == [reg EXCEPT ![sid] = fd]
UnregisterNothing(reg, sid) == reg  \* faulty variant
Unregister(reg, sid) == [reg EXCEPT ![sid] = NoFd]

\* Switching a connection from session old to session sid.  Session 0 is kept
\* when a connection moves on from it.  (Faulty variants: the old entry is
\* erased last, without a test that the session changed; or is never erased.)
SwitchSessionEraseLast(reg, old, sid, fd) ==
  Unregister(Register(reg, sid, fd), IF old = ZeroSid THEN NoSid ELSE old)
SwitchSessionKeepOld(reg, old, sid, fd) == Register(reg, sid, fd)
SwitchSession(reg, old, sid, fd) ==
  IF sid = old THEN reg
  ELSE Register(IF old # ZeroSid THEN Unregister(reg, old) ELSE reg, sid, fd)

\* The unregistration after the read loop.
DropSession(reg, sid) == IF sid # NoSid THEN Unregister(reg, sid) ELSE reg

\* The test that puts discovery back once n connections remain.
\* (Faulty variants: one slot too late; never; not looking at respond.)
ReopensTooLate(n) == MaxClients > 0 /\ n + 1 < MaxClients /\ ~respond
ReopensNever(n) == FALSE
ReopensAlways(n) == MaxClients > 0 /\ n < MaxClients
Reopens(n) == MaxClients > 0 /\ n < MaxClients /\ ~respond

-----------------------------------------------------------------------------
Init ==
  /\ running = TRUE
  /\ st = [fd \in Fds |-> "closed"]
  /\ mode = [fd \in Fds |-> "BINARY"]
  /\ cur = [fd \in Fds |-> NoSid]
  /\ sessions = [sid \in Sids |-> NoFd]
  /\ active = 0
  /\ respond = RespondConfigured
  /\ discovery = DiscoveryConfigured
  /\ eof = {}
  /\ contested = {}

\* close(client_fd), --active_connections_ and the discovery switches.  (Faulty
\* variant: the count is left alone.)
CloseForgetsCount(fd) ==
  /\ st' = [st EXCEPT ![fd] = "closed"]
  /\ cur' = [cur EXCEPT ![fd] = NoSid]
  /\ eof' = eof \ {fd}
  /\ UNCHANGED <<mode, active, respond, discovery>>
Close(fd) ==
  /\ st' = [st EXCEPT ![fd] = "closed"]
  /\ cur' = [cur EXCEPT ![fd] = NoSid]
  /\ eof' = eof \ {fd}
  /\ active' = active - 1
  /\ respond' = (respond \/ Reopens(active - 1))
  /\ discovery' = (discovery \/ Reopens(active - 1))
  /\ UNCHANGED mode

\* Whether the end of a connection runs the application's disconnect handler:
\* only handle_client looks at disconnect_handler_.
Notifies(fd) == mode[fd] = "BINARY" /\ DisconnectHandlerSet /\ cur[fd] # NoSid

\* A connection leaves its read loop: unregister, then close at once, or wait
\* for the disconnect handler on the thread pool, or, when thread_pool()
\* throws because no pool was enabled, die without closing (the exception is
\* outside the try block and DetachedTask discards it).  (Faulty variant: the
\* catch block reads on instead of leaving the loop.)
LeaveReadsOn(fd) ==
  /\ st' = [st EXCEPT ![fd] = "reading"]
  /\ UNCHANGED <<mode, cur, sessions, active, respond, discovery, eof>>
Leave(fd) ==
  /\ sessions' = DropSession(sessions, cur[fd])
  /\ IF ~Notifies(fd) THEN Close(fd)
     ELSE /\ st' = [st EXCEPT ![fd] = IF PoolEnabled THEN "closing" ELSE "leaked"]
          /\ UNCHANGED <<mode, cur, active, respond, discovery, eof>>

\* start_accept_loop starts a client coroutine, which suspends in its read.
Accept(fd, m) ==
  /\ running /\ st[fd] = "closed" /\ ~AtLimit
  /\ st' = [st EXCEPT ![fd] = "reading"]
  /\ mode' = [mode EXCEPT ![fd] = m]
  /\ active' = active + 1
  /\ UNCHANGED <<running, cur, sessions, respond, discovery, eof>>

\* start_accept_loop turns a client away and suspends discovery.
Reject ==
  /\ running /\ AtLimit
  /\ \E fd \in Fds : st[fd] = "closed"
  /\ respond' = FALSE
  /\ discovery' = FALSE
  /\ UNCHANGED <<running, st, mode, cur, sessions, active, eof>>

\* A complete frame for session sid: load the session, register, start serving.
Frame(fd, sid) ==
  /\ running /\ st[fd] = "reading" /\ fd \notin eof
  /\ st' = [st EXCEPT ![fd] = "serving"]
  /\ sessions' = SwitchSession(sessions, cur[fd], sid, fd)
  /\ cur' = [cur EXCEPT ![fd] = sid]
  /\ UNCHANGED <<running, mode, active, respond, discovery, eof>>

\* process_command and save return: back to reading.
ServeDone(fd) ==
  /\ running /\ st[fd] = "serving"
  /\ st' = [st EXCEPT ![fd] = "reading"]
  /\ UNCHANGED <<running, mode, cur, sessions, active, respond, discovery, eof>>

\* A std::exception in process_command (a failed write, a throwing handler).
ServeFails(fd) ==
  /\ running /\ st[fd] = "serving"
  /\ Leave(fd)
  /\ UNCHANGED running

\* A handler throws something else: no catch block takes it, and DetachedTask
\* drops it with the coroutine, which neither unregisters nor closes.
ServeEscapes(fd) ==
  /\ running /\ st[fd] = "serving" /\ HandlerMayThrow
  /\ st' = [st EXCEPT ![fd] = "abandoned"]
  /\ UNCHANGED <<running, mode, cur, sessions, active, respond, discovery, eof>>

\* stop() is called before process_command returns: while (running) ends.
ServeStops(fd) ==
  /\ running /\ st[fd] = "serving"
  /\ running' = FALSE
  /\ Leave(fd)

\* async_read_exact throws, because the peer closed or reset the connection, or
\* the payload buffer of the announced length cannot be allocated.
ReadFails(fd) ==
  /\ running /\ st[fd] = "reading"
  /\ Leave(fd)
  /\ UNCHANGED running

\* The pool posts the coroutine back: the disconnect handler has returned.
HandlerReturned(fd) ==
  /\ running /\ st[fd] = "closing"
  /\ Close(fd)
  /\ UNCHANGED <<running, sessions>>

\* ... or has thrown: await_resume rethrows, outside the try block.
HandlerThrew(fd) ==
  /\ running /\ st[fd] = "closing" /\ HandlerMayThrow
  /\ st' = [st EXCEPT ![fd] = "leaked"]
  /\ UNCHANGED <<running, mode, cur, sessions, active, respond, discovery, eof>>

\* The peer closes its end (environment).
PeerCloses(fd) ==
  /\ running /\ Live(fd) /\ fd \notin eof
  /\ eof' = eof \cup {fd}
  /\ UNCHANGED <<running, st, mode, cur, sessions, active, respond, discovery>>

\* A signal, or stop() in a coroutine that then suspends: run() returns and
\* no coroutine is resumed again.
Stop ==
  /\ running
  /\ running' = FALSE
  /\ UNCHANGED <<st, mode, cur, sessions, active, respond, discovery, eof>>

\* History: a session is contested from the moment a second live connection
\* uses it until no live connection does.
Contend ==
  contested' = {sid \in Sids : \E a \in Fds :
                  /\ Live(a)' /\ cur'[a] = sid
                  /\ sid \in contested \/ \E b \in Fds \ {a} : Live(b)' /\ cur'[b] = sid}

Step ==
  \/ \E fd \in Fds, m \in Modes : Accept(fd, m)
  \/ Reject
  \/ \E fd \in Fds, sid \in FrameSids : Frame(fd, sid)
  \/ \E fd \in Fds : ServeDone(fd)
  \/ \E fd \in Fds : ServeFails(fd)
  \/ \E fd \in Fds : ServeEscapes(fd)
  \/ \E fd \in Fds : ServeStops(fd)
  \/ \E fd \in Fds : ReadFails(fd)
  \/ \E fd \in Fds : HandlerReturned(fd)
  \/ \E fd \in Fds : HandlerThrew(fd)
  \/ \E fd \in Fds : PeerCloses(fd)
  \/ Stop

Next == Step /\ Contend

Spec == Init /\ [][Next]_vars

\* The kernel completes every operation on a connection whose peer is gone
\* (nothing times out a write to a peer that is there but does not read), and
\* the pool runs and posts back every disconnect handler.
Unwind(fd) ==
  fd \in eof /\ (ReadFails(fd) \/ ServeDone(fd) \/ ServeFails(fd)) /\ Contend
Notified(fd) == (HandlerReturned(fd) \/ HandlerThrew(fd)) /\ Contend
Fairness ==
  \A fd \in Fds : /\ WF_vars(Unwind(fd))
                  /\ WF_vars(Notified(fd))
FairSpec == Spec /\ Fairness

-----------------------------------------------------------------------------
(* Properties *)

\* Every variable holds a value of its C++ type and phase (type invariant).
TypeOK ==
  /\ running \in BOOLEAN
  /\ st \in [Fds -> Phases]
  /\ mode \in [Fds -> {"BINARY", "TEXT"}]
  /\ cur \in [Fds -> Sids]
  /\ sessions \in [Sids -> Fds \cup {NoFd}]
  /\ active \in Nat
  /\ respond \in BOOLEAN
  /\ discovery \in BOOLEAN
  /\ eof \subseteq Fds
  /\ contested \subseteq Sids

\* active_connections_ counts exactly the descriptors that are not closed,
\* whichever of the paths out of the two client coroutines each has taken.
ActiveExact == active = Cardinality(Open)

\* No more descriptors than max_clients_ are ever held, counting those still
\* waiting for their disconnect handler.
ConnectionLimit == MaxClients > 0 => Cardinality(Open) <= MaxClients

\* Discovery is suspended only while the server is full: the rejection that
\* switches it off and the close that switches it on leave no window in which
\* a server with a free slot stays silent.
SuspendedOnlyWhenFull ==
  RespondConfigured /\ ~respond => MaxClients > 0 /\ active = MaxClients

\* An entry of sessions_ for an ordinary session id leads to a connection that
\* is open and whose current session is that id, whatever fd reuse, session
\* switches and takeovers happened before.  The connection is served, unless an
\* exception that is no std::exception has ended its coroutine.
Bound(fd, sid) == (Live(fd) \/ Abandoned(fd)) /\ cur[fd] = sid
RegistryLive ==
  \A sid \in Sids \ {ZeroSid, NoSid} :
    sessions[sid] # NoFd => Bound(sessions[sid], sid)

\* A connection that has sent a frame is the one send_to and broadcast find
\* for its session, unless several live connections came to share that session
\* (a second login takes the entry over, and either one's end removes it).
UncontestedReachable ==
  \A fd \in Fds :
    Live(fd) /\ cur[fd] # NoSid /\ cur[fd] \notin contested => sessions[cur[fd]] = fd

\* A connection whose peer is gone ends, disconnect handler included, unless
\* the loop is stopped; its descriptor is closed unless an exception nobody
\* catches (any of the disconnect handler, or one that is no std::exception)
\* lost it.
Lost(fd) == st[fd] = "leaked" \/ Abandoned(fd)
GoneIsClosed ==
  \A fd \in Fds : fd \in eof ~> (st[fd] = "closed" \/ Lost(fd) \/ ~running)

\* Discovery suspended by a rejection comes back once a client goes away and
\* no slot is lost to an exception nobody catches.
DiscoveryResumes ==
  (~respond /\ eof # {}) ~> (respond \/ ~running \/ \E fd \in Fds : Lost(fd))
=============================================================================
