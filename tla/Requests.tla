------------------------------ MODULE Requests ------------------------------
(***************************************************************************)
(* The life of a request and of the session it works on: get_or_create,    *)
(* process_command (handle_key_exchange, handle_encrypted_message,         *)
(* handle_normal_command) and save, as the loops handle_client,            *)
(* text_handle_client and start_udp_loop call them.                        *)
(*                                                                         *)
(* A request works on a COPY of its session.  The copy is taken when the   *)
(* frame arrives and written back after the reply has been sent; in        *)
(* between, the coroutine suspends in the handler and in the send, and     *)
(* other channels run, with requests of the same session too.  An          *)
(* exception on the way discards the copy.                                 *)
(*                                                                         *)
(* A channel is a stream connection or the one UDP socket.  X25519 and     *)
(* AES-GCM are ideal: both sides choose a new private key for an exchange, *)
(* so it yields a new key, known to the client once it has the reply; and  *)
(* a message decrypts under its own key only.                              *)
(***************************************************************************)
EXTENDS Endpoints

CONSTANTS
  Chans,           \* channels
  Transport,       \* channel -> transport_type() (UNIX sockets report TCP)
  UnknownCommand,  \* a command id without an endpoint
  NoSession,       \* absence of a session id
  MaxKeys          \* bound on key exchanges

ASSUME ChansAssumption == Transport \in [Chans -> {"TCP", "UDP"}]
ASSUME UnknownAssumption ==
  /\ UnknownCommand \notin Commands
  /\ {"KEX", "none"} \cap Commands = {}
  /\ NoSession \notin Sids
ASSUME BoundAssumption == MaxKeys \in Nat

VARIABLES
  store,    \* InMemorySessionStore::store_
  pc,       \* each channel: "idle", "handling", "sending" or "closed"
  req,      \* its request: session id, command and the Session object
  nkeys,    \* keys generated so far; the next key is nkeys + 1
  ckey,     \* the client's key for each session, 0 for none
  waiting,  \* the client has an exchange without a reply
  transit,  \* the key of the exchange reply under way to the client, or 0
  seen,     \* history: the session as the request of a channel found it
  stale,    \* history: channels whose session was saved since they copied it
  lost      \* history: sessions with a stale save since their last exchange

server == <<store, pc, req, nkeys>>
client == <<ckey, waiting, transit>>
history == <<seen, stale, lost>>
vars == <<server, client, history>>

\* "KEX" stands for CMD_KEY_EXCHANGE.
Request == [sid : Sids \cup {NoSession}, cmd : Commands \cup {"KEX", "none"}, sess : Session]
NoRequest == [sid |-> NoSession, cmd |-> "none", sess |-> NewSession]

-----------------------------------------------------------------------------
Init ==
  /\ store = [sid \in Sids |-> NewSession]
  /\ pc = [ch \in Chans |-> "idle"]
  /\ req = [ch \in Chans |-> NoRequest]
  /\ nkeys = 0
  /\ ckey = [sid \in Sids |-> 0]
  /\ waiting = [sid \in Sids |-> FALSE]
  /\ transit = [sid \in Sids |-> 0]
  /\ seen = [ch \in Chans |-> NewSession]
  /\ stale = {}
  /\ lost = {}

InFlight(ch) == pc[ch] \in {"handling", "sending"}

\* get_or_create for a frame of session sid: the request goes on, in the given
\* phase, with the copy s of what is stored.
Begin(ch, sid, cmd, phase, s) ==
  /\ pc' = [pc EXCEPT ![ch] = phase]
  /\ req' = [req EXCEPT ![ch] = [sid |-> sid, cmd |-> cmd, sess |-> s]]
  /\ seen' = [seen EXCEPT ![ch] = store[sid]]
  /\ UNCHANGED <<store, stale, lost>>

\* What an exception leaves of a channel: a stream connection ends, the UDP
\* loop goes on with the next datagram.
Failed(ch) == IF Transport[ch] = "TCP" THEN "closed" ELSE "idle"

\* The request is over, its copy with it.
Ended(ch, phase) ==
  /\ pc' = [pc EXCEPT ![ch] = phase]
  /\ req' = [req EXCEPT ![ch] = NoRequest]
  /\ seen' = [seen EXCEPT ![ch] = NewSession]

\* Routing: the handler starts, or the frame is dropped in silence and save
\* writes back, without a suspension, what was just read.
Dispatch(ch, sid, cmd) ==
  IF Routes(Transport[ch], store[sid], cmd)
  THEN Begin(ch, sid, cmd, "handling", store[sid]) /\ UNCHANGED <<nkeys, client>>
  ELSE UNCHANGED vars

\* handle_normal_command
RecvCommand(ch, sid, cmd) == pc[ch] = "idle" /\ Dispatch(ch, sid, cmd)

\* handle_encrypted_message: the client encrypts under its key; without a key,
\* or under another one, do_decrypt gives nullopt and the frame is dropped.
Deciphers(sid) == store[sid].key # 0 /\ store[sid].key = ckey[sid]
RecvEncrypted(ch, sid, cmd) ==
  /\ pc[ch] = "idle" /\ ckey[sid] # 0 /\ ~waiting[sid]
  /\ IF Deciphers(sid) THEN Dispatch(ch, sid, cmd) ELSE UNCHANGED vars

\* set_aes_key on the copy s, with the secret of this exchange.
Rekeyed(s) == [s EXCEPT !.key = nkeys + 1]

\* handle_key_exchange: the key goes into the copy, then the reply is sent.
\* The client starts an exchange when it expects no earlier reply any more.
RecvKeyExchange(ch, sid) ==
  /\ pc[ch] = "idle" /\ nkeys < MaxKeys /\ transit[sid] = 0
  /\ Begin(ch, sid, "KEX", "sending", Rekeyed(store[sid]))
  /\ nkeys' = nkeys + 1
  /\ waiting' = [waiting EXCEPT ![sid] = TRUE]
  /\ transit' = [transit EXCEPT ![sid] = nkeys + 1]
  /\ UNCHANGED ckey

\* ... a payload that is not 32 bytes long is ignored, a public key that the
\* library refuses is an exception.
RecvBadKeyExchange(ch, sid) ==
  /\ pc[ch] = "idle"
  /\ \E phase \in {"idle", Failed(ch)} : pc' = [pc EXCEPT ![ch] = phase]
  /\ UNCHANGED <<store, req, nkeys, client, history>>

\* The handler has acted on the copy; its reply is being sent.
HandlerReturns(ch) ==
  /\ pc[ch] = "handling"
  /\ pc' = [pc EXCEPT ![ch] = "sending"]
  /\ req' = [req EXCEPT ![ch].sess = Apply(req[ch].cmd, req[ch].sess)]
  /\ UNCHANGED <<store, nkeys, client, history>>

\* What a save does to the histories: the copies others hold of the session
\* are stale from now on.
Others(ch) == {o \in Chans \ {ch} : InFlight(o) /\ req[o].sid = req[ch].sid}
Record(ch) ==
  /\ stale' = (stale \ {ch}) \cup Others(ch)
  /\ lost' = IF ch \in stale THEN lost \cup {req[ch].sid}
             ELSE IF req[ch].cmd = "KEX" THEN lost \ {req[ch].sid} ELSE lost

\* The reply is out: save.  (Faulty variants: a Session copied without its key;
\* a save whose task nobody awaits and which never starts.)
SaveWithoutKey(ch) ==
  store' = [store EXCEPT ![req[ch].sid] = [req[ch].sess EXCEPT !.key = store[req[ch].sid].key]]
SaveNotAwaited(ch) == UNCHANGED store
Save(ch) == store' = [store EXCEPT ![req[ch].sid] = req[ch].sess]
SendDone(ch) ==
  /\ pc[ch] = "sending"
  /\ Save(ch) /\ Record(ch)
  /\ Ended(ch, "idle")
  /\ UNCHANGED <<nkeys, client>>

\* An exception: save is not reached.
Discard(ch, phase) ==
  /\ Ended(ch, phase)
  /\ stale' = stale \ {ch}
  /\ UNCHANGED <<store, nkeys, lost>>

HandlerThrows(ch) ==
  /\ pc[ch] = "handling"
  /\ Discard(ch, Failed(ch))
  /\ UNCHANGED client

\* ... one that is not derived from std::exception passes the loop's catch and
\* ends the coroutine: of a connection, or of the UDP loop for good.
HandlerEscapes(ch) ==
  /\ pc[ch] = "handling"
  /\ Discard(ch, "closed")
  /\ UNCHANGED client

\* The send fails: the client does not get the reply.
SendFails(ch) ==
  LET sid == req[ch].sid  key == req[ch].sess.key IN
  /\ pc[ch] = "sending"
  /\ req[ch].cmd = "KEX" => ckey[sid] # key
  /\ Discard(ch, Failed(ch))
  /\ transit' = IF req[ch].cmd = "KEX" /\ transit[sid] = key
                THEN [transit EXCEPT ![sid] = 0] ELSE transit
  /\ UNCHANGED <<ckey, waiting>>

\* The client receives the reply of its exchange, before or after the server
\* has processed the completion of its send ...
Deliver(sid) ==
  /\ transit[sid] # 0
  /\ ckey' = [ckey EXCEPT ![sid] = transit[sid]]
  /\ waiting' = [waiting EXCEPT ![sid] = FALSE]
  /\ transit' = [transit EXCEPT ![sid] = 0]
  /\ UNCHANGED <<server, history>>

\* ... or never: a lost datagram, a connection that breaks, a client that gives
\* up.
LoseReply(sid) ==
  /\ transit[sid] # 0
  /\ transit' = [transit EXCEPT ![sid] = 0]
  /\ UNCHANGED <<server, ckey, waiting, history>>

\* A new connection takes the place of a closed one.
Reconnect(ch) ==
  /\ pc[ch] = "closed" /\ Transport[ch] = "TCP"
  /\ pc' = [pc EXCEPT ![ch] = "idle"]
  /\ UNCHANGED <<store, req, nkeys, client, history>>

Next ==
  \/ \E ch \in Chans, sid \in Sids, cmd \in Commands \cup {UnknownCommand} :
       RecvCommand(ch, sid, cmd) \/ RecvEncrypted(ch, sid, cmd)
  \/ \E ch \in Chans, sid \in Sids : RecvKeyExchange(ch, sid)
  \/ \E ch \in Chans, sid \in Sids : RecvBadKeyExchange(ch, sid)
  \/ \E ch \in Chans : HandlerReturns(ch)
  \/ \E ch \in Chans : HandlerThrows(ch)
  \/ \E ch \in Chans : HandlerEscapes(ch)
  \/ \E ch \in Chans : SendDone(ch)
  \/ \E ch \in Chans : SendFails(ch)
  \/ \E ch \in Chans : Reconnect(ch)
  \/ \E sid \in Sids : Deliver(sid)
  \/ \E sid \in Sids : LoseReply(sid)

\* A send completes, with or without an error.
Fairness == \A ch \in Chans : WF_vars(SendDone(ch) \/ SendFails(ch))

Spec == Init /\ [][Next]_vars /\ Fairness

-----------------------------------------------------------------------------
(* Properties *)

\* Every variable holds a value of its type (type invariant).
TypeOK ==
  /\ store \in [Sids -> Session]
  /\ pc \in [Chans -> {"idle", "handling", "sending", "closed"}]
  /\ req \in [Chans -> Request]
  /\ nkeys \in Nat
  /\ ckey \in [Sids -> Nat]
  /\ waiting \in [Sids -> BOOLEAN]
  /\ transit \in [Sids -> Nat]
  /\ seen \in [Chans -> Session]
  /\ stale \subseteq Chans
  /\ lost \subseteq Sids

\* However requests overlap, fail or are discarded, what save writes is what
\* get_or_create gave to this very request, changed by its own handler or its
\* own key exchange, and an endpoint with require_auth acts only for a request
\* that found its session authenticated: Requests implements SnapshotSessions.
Views == [sid \in Sids |->
            {seen[ch] : ch \in {c \in Chans : InFlight(c) /\ req[c].sid = sid}}]
Snapshots == INSTANCE SnapshotSessions WITH session <- store, views <- Views
ImplementsSnapshots == Snapshots!ASpec

\* An exchange of session sid that gave key k is being answered, and save will
\* store the key.
Answering(sid, k) ==
  \E ch \in Chans : /\ pc[ch] = "sending" /\ req[ch].sid = sid
                    /\ req[ch].cmd = "KEX" /\ req[ch].sess.key = k

\* After a key exchange "both sides share a 256-bit key" (README.md): a client
\* that waits for no reply holds the key the store has, or is about to have,
\* whatever sends failed and whatever replies were lost, and whatever requests
\* overlapped as long as none of them overwrote what another had saved; and the
\* next exchange that is saved on time repairs that.  "About to have", because
\* README.md:258-259 stores the key before the reply, and the code replies
\* before it saves.
KeyAgreement ==
  \A sid \in Sids :
    ckey[sid] # 0 /\ ~waiting[sid] /\ sid \notin lost =>
      store[sid].key = ckey[sid] \/ Answering(sid, ckey[sid])

\* ... and the store does get it: a client that has the reply of its exchange
\* finds its key in the store after a while, on any channel, unless it starts
\* another exchange or a stale copy is written back.
KeyArrives ==
  \A sid \in Sids :
    (ckey[sid] # 0 /\ ~waiting[sid])
      ~> (store[sid].key = ckey[sid] \/ waiting[sid] \/ sid \in lost)

(* A statement of the documentation that the code does not keep *)

\* "their session state is preserved" over UDP or a new TCP connection
\* (ARCHITECTURE.md): a login is undone only by a request that logs out.
LoginSticks ==
  [][\A sid \in Sids :
       store[sid].auth /\ ~store'[sid].auth =>
         \E ch \in Chans : /\ pc[ch] = "sending" /\ req[ch].sid = sid
                          /\ req[ch].cmd \in Commands /\ Effect[req[ch].cmd] = "logout"]_vars
=============================================================================
