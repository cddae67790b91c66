----------------------------- MODULE Messaging -----------------------------
(***************************************************************************)
(* Server-initiated messages: send_to, broadcast and broadcast_if          *)
(* (src/src/UringEngine/SessionBroadcast.cpp), composed with the           *)
(* connections they write to.  A caller is a connection whose handler is   *)
(* running, or the periodic timer.  A broadcast copies sessions_ and then  *)
(* suspends in one write after another, while Clients moves on: the copy   *)
(* holds descriptor numbers, and a number can be closed and accepted again *)
(* before the broadcast gets to it.                                        *)
(*                                                                         *)
(* A write is submitted at once, so its descriptor is resolved when the    *)
(* write starts: a closed one fails, a reused one reaches its new owner.   *)
(***************************************************************************)
EXTENDS Clients

CONSTANTS
  Timer,      \* the periodic task, as a caller
  Callers     \* who sends messages: the timer, the handlers of some connections

ASSUME TimerAssumption == Timer \notin Fds /\ Callers \subseteq Fds \cup {Timer}

VARIABLES
  kind,    \* what each caller is executing: "none", "send", "all" or "if"
  todo,    \* the entries <<sid, fd>> of its snapshot still to be visited
  target,  \* the entry whose write is in flight, {} or a singleton
  dead,    \* (history) descriptors closed since its snapshot was taken
  used     \* (history) session ids each open connection has sent frames for

mvars == <<vars, kind, todo, target, dead, used>>

Kinds == {"none", "send", "all", "if"}
Entries == Sids \X Fds

-----------------------------------------------------------------------------
\* auto sessions_snapshot = sessions_;
Snapshot == {<<sid, sessions[sid]>> : sid \in {s \in Sids : sessions[s] # NoFd}}

MInit ==
  /\ Init
  /\ kind = [c \in Callers |-> "none"]
  /\ todo = [c \in Callers |-> {}]
  /\ target = [c \in Callers |-> {}]
  /\ dead = [c \in Callers |-> {}]
  /\ used = [fd \in Fds |-> {}]

\* The call of c is over, with or without an exception.
Finish(c) ==
  /\ kind' = [kind EXCEPT ![c] = "none"]
  /\ todo' = [todo EXCEPT ![c] = {}]
  /\ target' = [target EXCEPT ![c] = {}]

\* History: what became of the descriptors of a snapshot since it was taken,
\* and the sessions an open connection has used.
Track ==
  LET Closing == {fd \in Fds : st[fd] # "closed" /\ st'[fd] = "closed"}
  IN  /\ dead' = [c \in Callers |-> IF kind'[c] = "none" THEN {} ELSE dead[c] \cup Closing]
      /\ used' = [fd \in Fds |-> IF st'[fd] = "closed" THEN {}
                                 ELSE used[fd] \cup ({cur'[fd]} \ {NoSid})]

\* The loop over the snapshot goes on with rest, in the order of an
\* unordered_map.  The predicate of broadcast_if skips entries; an entry that
\* is not skipped is written to.
Proceed(c, k, rest) ==
  \/ /\ rest = {} \/ k = "if"
     /\ Finish(c)
  \/ \E p \in rest, skip \in SUBSET rest :
       /\ skip = {} \/ k = "if"
       /\ p \notin skip
       /\ kind' = [kind EXCEPT ![c] = k]
       /\ todo' = [todo EXCEPT ![c] = rest \ (skip \cup {p})]
       /\ target' = [target EXCEPT ![c] = {p}]

\* A handler or the timer can make a call.
CanCall(c) == running /\ kind[c] = "none" /\ (c \in Fds => st[c] = "serving")

\* send_to(sid, ...): nothing at all when the session is not registered.
SendTo(c, sid) ==
  /\ CanCall(c)
  /\ Proceed(c, "send", {p \in Snapshot : p[1] = sid})
  /\ UNCHANGED vars
  /\ Track

\* broadcast(...) and broadcast_if(..., predicate).
Broadcast(c, k) ==
  /\ CanCall(c)
  /\ Proceed(c, k, Snapshot)
  /\ UNCHANGED vars
  /\ Track

\* The write in flight completes and the loop goes on.  (Faulty variant: the
\* loop runs over sessions_ itself.)
WriteDoneIterLive(c) ==
  /\ running /\ kind[c] # "none"
  /\ Proceed(c, kind[c], IF kind[c] = "send" THEN {} ELSE Snapshot)
  /\ UNCHANGED vars
  /\ Track
WriteDone(c) ==
  /\ running /\ kind[c] # "none"
  /\ Proceed(c, kind[c], todo[c])
  /\ UNCHANGED vars
  /\ Track

\* The write fails: the exception leaves the loop over the snapshot.  The
\* timer loop and a handler that catches it go on; otherwise it ends the
\* connection of the handler that called.
WriteFailsCaught(c) ==
  /\ running /\ kind[c] # "none"
  /\ Finish(c)
  /\ UNCHANGED vars
  /\ Track
WriteFailsThrough(fd) ==
  /\ kind[fd] # "none"
  /\ Finish(fd)
  /\ ServeFails(fd)
  /\ Contend
  /\ Track

\* A step of Clients.  The coroutine of a connection whose handler waits for a
\* write is not resumed.
ConnectionStep ==
  /\ Next
  /\ \A fd \in Fds \cap Callers : kind[fd] # "none" => st'[fd] = st[fd]
  /\ UNCHANGED <<kind, todo, target>>
  /\ Track

MNext ==
  \/ ConnectionStep
  \/ \E c \in Callers, sid \in FrameSids : SendTo(c, sid)
  \/ \E c \in Callers, k \in {"all", "if"} : Broadcast(c, k)
  \/ \E c \in Callers : WriteDone(c)
  \/ \E c \in Callers : WriteFailsCaught(c)
  \/ \E fd \in Fds \cap Callers : WriteFailsThrough(fd)

MSpec == MInit /\ [][MNext]_mvars

\* Every write completes or fails: each peer reads what it is sent or goes
\* away.  Nothing in the code bounds a write to a peer that does neither.
WriteEnds(c) == WriteDone(c) \/ WriteFailsCaught(c)
MFairSpec == MSpec /\ \A c \in Callers : WF_mvars(WriteEnds(c))

-----------------------------------------------------------------------------
(* Properties *)

\* Every variable holds a value of its type; a call has a write in flight.
MTypeOK ==
  /\ kind \in [Callers -> Kinds]
  /\ todo \in [Callers -> SUBSET Entries]
  /\ target \in [Callers -> SUBSET Entries]
  /\ dead \in [Callers -> SUBSET Fds]
  /\ used \in [Fds -> SUBSET Sids]

\* A frame labelled with an ordinary session id goes only to a connection that
\* has used that session, or to a descriptor closed since the snapshot: the
\* registry hands out no wrong address, only addresses that can expire.
AddressedToUser ==
  \A c \in Callers : \A p \in todo[c] \cup target[c] :
    p[1] \notin {ZeroSid, NoSid} => p[2] \in dead[c] \/ p[1] \in used[p[2]]

\* send_to suspends only in its one write: at the moment it submits the frame
\* of an ordinary session, the descriptor is that session's connection, still
\* served unless an exception that is no std::exception has ended its coroutine.
SendToIsFresh ==
  [][\A c \in Callers :
       kind[c] = "none" /\ kind'[c] = "send" =>
         \A p \in target'[c] : p[1] \notin {ZeroSid, NoSid} =>
           Bound(p[2], p[1])]_mvars

\* A broadcast ends, however the registry changes while it is under way.
BroadcastEnds == \A c \in Callers : kind[c] # "none" ~> (kind[c] = "none" \/ ~running)

\* A broadcast visits a session at most once: the session being written to is
\* not visited again.
VisitsOnce ==
  [][\A c \in Callers : \A p \in target[c] :
       kind[c] # "none" /\ kind'[c] # "none" /\ target'[c] # target[c] =>
         \A q \in todo'[c] \cup target'[c] : q[1] # p[1]]_mvars
=============================================================================
