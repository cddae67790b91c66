--------------------------- MODULE RequestsProofs ---------------------------
(***************************************************************************)
(* Proofs about requests and sessions, for any channels, sessions,         *)
(* endpoints and handlers' effects, and with requests of a session that    *)
(* overlap in any way: types, that save writes what the request found      *)
(* changed by its own effect, that client and server agree on keys, and    *)
(* what a login can be undone by.                                          *)
(***************************************************************************)
EXTENDS Requests, TLAPS

\* A handler changes the authentication of a session and not its key.
LEMMA ApplyType ==
  ASSUME NEW cmd \in Commands, NEW s \in Session
  PROVE  Apply(cmd, s) \in Session /\ Apply(cmd, s).key = s.key
<1>1. Effect[cmd] \in {"keep", "login", "logout"}
  BY CommandsAssumption
<1> QED
  BY <1>1 DEF Apply, Session

\* The safety part of the specification.
LEMMA SpecSteps == Spec => Init /\ [][Next]_vars
  BY PTL DEF Spec

-----------------------------------------------------------------------------
(***************************************************************************)
(* Types, and what each copy holds.  A copy differs from what its request  *)
(* found by the effect of that request only, and while nobody has saved    *)
(* the session, what the request found is what is stored.                  *)
(***************************************************************************)

\* The copy of channel ch, relative to what its request found.
Copy(ch) ==
  LET sid == req[ch].sid  cmd == req[ch].cmd  sess == req[ch].sess IN
  /\ sid \in Sids
  /\ cmd \in Commands \cup {"KEX"}
  /\ pc[ch] = "handling" => cmd \in Commands /\ sess = seen[ch]
  /\ pc[ch] = "sending" /\ cmd \in Commands => sess = Apply(cmd, seen[ch])
  /\ cmd \in NeedsAuth => seen[ch].auth
  /\ cmd = "KEX" => /\ sess = [seen[ch] EXCEPT !.key = sess.key]
                    /\ seen[ch].key < sess.key /\ sess.key <= nkeys
  /\ seen[ch].key <= nkeys
  /\ ch \notin stale => seen[ch] = store[sid]

CopyInv == \A ch \in Chans : InFlight(ch) => Copy(ch)

\* Keys are generated once.
KeysBounded == \A sid \in Sids : store[sid].key <= nkeys

Basics == TypeOK /\ CopyInv /\ KeysBounded

\* Copies of requests a step does not touch.
LEMMA CopyKept ==
  ASSUME NEW ch \in Chans, TypeOK, InFlight(ch), Copy(ch),
         pc'[ch] = pc[ch], req'[ch] = req[ch], seen'[ch] = seen[ch],
         nkeys' \in Nat, nkeys <= nkeys',
         (ch \notin stale' => ch \notin stale /\ store'[req[ch].sid] = store[req[ch].sid])
  PROVE  Copy(ch)'
<1>1. nkeys \in Nat /\ seen[ch].key \in Nat /\ req[ch].sess.key \in Nat
  BY DEF TypeOK, Session, Request
<1>2. seen[ch].key <= nkeys'
  BY <1>1 DEF Copy
<1>3. req[ch].cmd = "KEX" => req[ch].sess.key <= nkeys'
  BY <1>1 DEF Copy
<1> QED
  BY <1>2, <1>3 DEF Copy

LEMMA BeginBasics ==
  ASSUME Basics, NEW ch \in Chans, NEW sid \in Sids, NEW cmd \in Commands \cup {"KEX"},
         NEW phase \in {"handling", "sending"}, NEW s \in Session,
         pc[ch] = "idle", Begin(ch, sid, cmd, phase, s), nkeys' \in Nat, nkeys <= nkeys',
         cmd \in Commands => phase = "handling" /\ s = store[sid],
         cmd \in NeedsAuth => store[sid].auth,
         cmd = "KEX" => /\ phase = "sending" /\ s = [store[sid] EXCEPT !.key = s.key]
                        /\ store[sid].key < s.key /\ s.key <= nkeys'
  PROVE  /\ CopyInv' /\ KeysBounded'
         /\ store' \in [Sids -> Session]
         /\ pc' \in [Chans -> {"idle", "handling", "sending", "closed"}]
         /\ req' \in [Chans -> Request]
         /\ seen' \in [Chans -> Session]
         /\ stale' \subseteq Chans /\ lost' \subseteq Sids
<1>1. /\ pc' = [pc EXCEPT ![ch] = phase]
      /\ req' = [req EXCEPT ![ch] = [sid |-> sid, cmd |-> cmd, sess |-> s]]
      /\ seen' = [seen EXCEPT ![ch] = store[sid]]
      /\ UNCHANGED <<store, stale, lost>>
  BY DEF Begin
<1>2. [sid |-> sid, cmd |-> cmd, sess |-> s] \in Request
  BY DEF Request
<1>3. KeysBounded'
  <2> SUFFICES ASSUME NEW i \in Sids PROVE store[i].key <= nkeys'
    BY <1>1 DEF KeysBounded
  <2> QED
    BY DEF Basics, KeysBounded, TypeOK, Session
<1>4. ASSUME NEW o \in Chans, InFlight(o)'
      PROVE  Copy(o)'
  <2>1. CASE o = ch
    <3>1. /\ req'[ch] = [sid |-> sid, cmd |-> cmd, sess |-> s]
          /\ seen'[ch] = store[sid] /\ pc'[ch] = phase /\ store'[sid] = store[sid]
      BY <1>1 DEF Basics, TypeOK
    <3>2. store[sid].key <= nkeys'
      BY <1>1, <1>3 DEF KeysBounded
    <3>3. "KEX" \notin Commands
      BY UnknownAssumption
    <3> QED
      BY <2>1, <3>1, <3>2, <3>3 DEF Copy
  <2>2. CASE o # ch
    <3>1. pc'[o] = pc[o] /\ req'[o] = req[o] /\ seen'[o] = seen[o] /\ store' = store /\ stale' = stale
      BY <1>1, <2>2 DEF Basics, TypeOK
    <3>2. InFlight(o) /\ Copy(o)
      BY <1>4, <3>1 DEF Basics, CopyInv, InFlight
    <3> QED
      BY <3>1, <3>2, CopyKept DEF Basics
  <2> QED
    BY <2>1, <2>2
<1> QED
  BY <1>1, <1>2, <1>3, <1>4 DEF CopyInv, Basics, TypeOK

LEMMA DispatchBasics ==
  ASSUME Basics, NEW ch \in Chans, NEW sid \in Sids,
         NEW cmd \in Commands \cup {UnknownCommand}, Dispatch(ch, sid, cmd), pc[ch] = "idle"
  PROVE  Basics'
<1>1. CASE Routes(Transport[ch], store[sid], cmd)
  <2>1. Begin(ch, sid, cmd, "handling", store[sid]) /\ UNCHANGED <<nkeys, client>>
    BY <1>1 DEF Dispatch
  <2>2. cmd \in Commands /\ (cmd \in NeedsAuth => store[sid].auth)
    BY <1>1 DEF Routes
  <2>3. cmd # "KEX" /\ store[sid] \in Session /\ nkeys \in Nat
    BY <2>2, UnknownAssumption DEF Basics, TypeOK
  <2>4. nkeys' \in Nat /\ nkeys <= nkeys'
    BY <2>1, <2>3
  <2>5. /\ CopyInv' /\ KeysBounded'
        /\ store' \in [Sids -> Session]
        /\ pc' \in [Chans -> {"idle", "handling", "sending", "closed"}]
        /\ req' \in [Chans -> Request]
        /\ seen' \in [Chans -> Session]
        /\ stale' \subseteq Chans /\ lost' \subseteq Sids
    BY <2>1, <2>2, <2>3, <2>4, BeginBasics
  <2> QED
    BY <2>1, <2>4, <2>5 DEF Basics, TypeOK, client
<1>2. CASE ~Routes(Transport[ch], store[sid], cmd)
  BY <1>2 DEF Dispatch, Basics, TypeOK, CopyInv, Copy, KeysBounded, InFlight, vars, server, client, history
<1> QED
  BY <1>1, <1>2

\* Steps that end the request of ch without saving, and steps that only change
\* the phase of a channel outside a request.
LEMMA QuietBasics ==
  ASSUME Basics, UNCHANGED <<store, nkeys, lost>>, stale' \subseteq stale,
         pc' \in [Chans -> {"idle", "handling", "sending", "closed"}],
         req' \in [Chans -> Request], seen' \in [Chans -> Session],
         \A o \in Chans : InFlight(o)' => /\ pc'[o] = pc[o] /\ req'[o] = req[o]
                                          /\ seen'[o] = seen[o] /\ (o \in stale => o \in stale')
  PROVE  /\ CopyInv' /\ KeysBounded'
         /\ store' \in [Sids -> Session] /\ nkeys' \in Nat
         /\ stale' \subseteq Chans /\ lost' \subseteq Sids
<1>1. nkeys \in Nat /\ nkeys' \in Nat /\ nkeys <= nkeys'
  BY DEF Basics, TypeOK
<1>2. ASSUME NEW o \in Chans, InFlight(o)'
      PROVE  Copy(o)'
  <2>1. InFlight(o) /\ Copy(o)
    BY <1>2 DEF InFlight, Basics, CopyInv
  <2> QED
    BY <1>1, <1>2, <2>1, CopyKept DEF Basics
<1>3. KeysBounded'
  BY DEF Basics, KeysBounded
<1> QED
  BY <1>1, <1>2, <1>3 DEF CopyInv, Basics, TypeOK

LEMMA NoRequestType == NoRequest \in Request /\ NewSession \in Session
  BY DEF NoRequest, Request, NewSession, Session

LEMMA DiscardBasics ==
  ASSUME Basics, NEW ch \in Chans, NEW phase \in {"idle", "closed"}, Discard(ch, phase)
  PROVE  /\ CopyInv' /\ KeysBounded'
         /\ store' \in [Sids -> Session] /\ nkeys' \in Nat
         /\ pc' \in [Chans -> {"idle", "handling", "sending", "closed"}]
         /\ req' \in [Chans -> Request]
         /\ seen' \in [Chans -> Session]
         /\ stale' \subseteq Chans /\ lost' \subseteq Sids
<1>1. /\ pc' \in [Chans -> {"idle", "handling", "sending", "closed"}]
      /\ req' \in [Chans -> Request] /\ seen' \in [Chans -> Session]
  BY NoRequestType DEF Discard, Ended, Basics, TypeOK
<1>2. \A o \in Chans : InFlight(o)' => /\ pc'[o] = pc[o] /\ req'[o] = req[o]
                                       /\ seen'[o] = seen[o] /\ (o \in stale => o \in stale')
  BY DEF Discard, Ended, InFlight, Basics, TypeOK
<1>3. UNCHANGED <<store, nkeys, lost>> /\ stale' \subseteq stale
  BY DEF Discard
<1> QED
  BY <1>1, <1>2, <1>3, QuietBasics

\* SendDone replaces the stored session and makes the other copies stale.
LEMMA SendDoneBasics ==
  ASSUME Basics, NEW ch \in Chans, SendDone(ch)
  PROVE  Basics'
<1>1. /\ req[ch].sid \in Sids /\ req[ch].sess \in Session /\ Copy(ch) /\ seen[ch] \in Session
      /\ nkeys \in Nat
  BY DEF SendDone, Basics, CopyInv, Copy, InFlight, TypeOK, Request
<1>2. /\ pc' = [pc EXCEPT ![ch] = "idle"] /\ req' = [req EXCEPT ![ch] = NoRequest]
      /\ seen' = [seen EXCEPT ![ch] = NewSession]
      /\ store' = [store EXCEPT ![req[ch].sid] = req[ch].sess]
      /\ stale' = (stale \ {ch}) \cup Others(ch)
      /\ lost' \subseteq Sids
      /\ UNCHANGED <<nkeys, client>>
  BY <1>1 DEF SendDone, Save, Record, Ended, Basics, TypeOK
<1>3. TypeOK'
  BY <1>1, <1>2, NoRequestType DEF Basics, TypeOK, client, Others
<1>4. req[ch].sess.key <= nkeys
  <2>1. CASE req[ch].cmd = "KEX"
    BY <1>1, <2>1 DEF Copy
  <2>2. CASE req[ch].cmd \in Commands
    <3>1. req[ch].sess = Apply(req[ch].cmd, seen[ch]) /\ seen[ch].key <= nkeys
      BY <1>1, <2>2 DEF Copy, SendDone
    <3> QED
      BY <1>1, <2>2, <3>1, ApplyType
  <2> QED
    BY <1>1, <2>1, <2>2 DEF Copy
<1>5. KeysBounded'
  BY <1>1, <1>2, <1>4 DEF Basics, KeysBounded, TypeOK
<1>6. ASSUME NEW o \in Chans, InFlight(o)'
      PROVE  Copy(o)'
  <2>1. /\ o # ch /\ pc'[o] = pc[o] /\ req'[o] = req[o] /\ seen'[o] = seen[o]
    BY <1>2, <1>6 DEF InFlight, Basics, TypeOK
  <2>2. InFlight(o) /\ Copy(o)
    BY <1>6, <2>1 DEF InFlight, Basics, CopyInv
  <2>3. o \notin stale' => o \notin stale /\ req[o].sid # req[ch].sid
    BY <1>2, <2>1, <2>2 DEF Others
  <2>4. o \notin stale' => o \notin stale /\ store'[req[o].sid] = store[req[o].sid]
    BY <1>2, <2>2, <2>3 DEF Copy, Basics, TypeOK
  <2>5. nkeys' \in Nat /\ nkeys <= nkeys'
    BY <1>1, <1>2
  <2> QED
    BY <2>1, <2>2, <2>4, <2>5, CopyKept DEF Basics
<1> QED
  BY <1>3, <1>5, <1>6 DEF Basics, CopyInv

LEMMA HandlerReturnsBasics ==
  ASSUME Basics, NEW ch \in Chans, HandlerReturns(ch)
  PROVE  Basics'
<1> DEFINE s == Apply(req[ch].cmd, req[ch].sess)
<1>1. /\ Copy(ch) /\ req[ch] \in Request /\ req[ch].cmd \in Commands /\ req[ch].sess = seen[ch]
      /\ req[ch].cmd # "KEX" /\ nkeys \in Nat
  BY UnknownAssumption DEF HandlerReturns, Basics, CopyInv, Copy, InFlight, TypeOK
<1>2. s \in Session
  BY <1>1, ApplyType DEF Request
<1>3. /\ req' = [req EXCEPT ![ch] = [req[ch] EXCEPT !.sess = s]]
      /\ pc' = [pc EXCEPT ![ch] = "sending"]
      /\ UNCHANGED <<store, nkeys, client, history>>
  BY DEF HandlerReturns
<1>4. [req[ch] EXCEPT !.sess = s] \in Request
  BY <1>1, <1>2 DEF Request
<1>5. TypeOK'
  BY <1>3, <1>4 DEF Basics, TypeOK, client, history
<1>6. ASSUME NEW o \in Chans, InFlight(o)'
      PROVE  Copy(o)'
  <2>1. CASE o = ch
    <3>1. /\ req'[ch].sid = req[ch].sid /\ req'[ch].cmd = req[ch].cmd /\ req'[ch].sess = s
          /\ pc'[ch] = "sending" /\ UNCHANGED <<store, nkeys, seen, stale>>
      BY <1>1, <1>3 DEF Basics, TypeOK, Request, history
    <3> QED
      BY <1>1, <2>1, <3>1 DEF Copy
  <2>2. CASE o # ch
    <3>1. pc'[o] = pc[o] /\ req'[o] = req[o] /\ UNCHANGED <<store, nkeys, seen, stale>>
      BY <1>3, <2>2 DEF Basics, TypeOK, history
    <3>2. InFlight(o) /\ Copy(o)
      BY <1>6, <3>1 DEF InFlight, Basics, CopyInv
    <3>3. nkeys' \in Nat /\ nkeys <= nkeys'
      BY <1>1, <3>1
    <3> QED
      BY <3>1, <3>2, <3>3, CopyKept DEF Basics
  <2> QED
    BY <2>1, <2>2
<1> QED
  BY <1>3, <1>5, <1>6 DEF Basics, CopyInv, KeysBounded

LEMMA ExchangeBasics ==
  ASSUME Basics, NEW ch \in Chans, NEW sid \in Sids, RecvKeyExchange(ch, sid)
  PROVE  Basics'
<1> DEFINE s == [store[sid] EXCEPT !.key = nkeys + 1]
<1>1. /\ nkeys \in Nat /\ store[sid] \in Session /\ store[sid].key <= nkeys
      /\ store[sid].key \in Nat
  BY DEF Basics, TypeOK, KeysBounded, Session
<1>2. /\ s \in Session /\ s.key = nkeys + 1 /\ s = [store[sid] EXCEPT !.key = s.key]
      /\ store[sid].key < s.key
  BY <1>1 DEF Session
<1>3. Begin(ch, sid, "KEX", "sending", s) /\ nkeys' = nkeys + 1 /\ pc[ch] = "idle"
  BY DEF RecvKeyExchange, Rekeyed
<1>4. nkeys' \in Nat /\ nkeys <= nkeys' /\ s.key <= nkeys'
  BY <1>1, <1>2, <1>3
<1>5. "KEX" \notin Commands /\ "KEX" \notin NeedsAuth
  BY UnknownAssumption, CommandsAssumption
<1>6. /\ CopyInv' /\ KeysBounded'
      /\ store' \in [Sids -> Session]
      /\ pc' \in [Chans -> {"idle", "handling", "sending", "closed"}]
      /\ req' \in [Chans -> Request]
      /\ seen' \in [Chans -> Session]
      /\ stale' \subseteq Chans /\ lost' \subseteq Sids
  <2> HIDE DEF s
  <2> QED
    BY <1>2, <1>3, <1>4, <1>5, BeginBasics
<1>7. ckey' \in [Sids -> Nat] /\ transit' \in [Sids -> Nat]
  BY <1>1 DEF RecvKeyExchange, Basics, TypeOK
<1>8. waiting' \in [Sids -> BOOLEAN]
  BY DEF RecvKeyExchange, Basics, TypeOK
<1> QED
  BY <1>4, <1>6, <1>7, <1>8 DEF Basics, TypeOK

LEMMA StepBasics ==
  ASSUME Basics, [Next]_vars
  PROVE  Basics'
<1>1. ASSUME UNCHANGED vars
      PROVE  Basics'
  BY <1>1 DEF Basics, TypeOK, CopyInv, Copy, KeysBounded, InFlight, vars, server, client, history
<1>2. ASSUME NEW ch \in Chans, NEW sid \in Sids, NEW cmd \in Commands \cup {UnknownCommand},
             RecvCommand(ch, sid, cmd)
      PROVE  Basics'
  BY <1>2, DispatchBasics DEF RecvCommand
<1>3. ASSUME NEW ch \in Chans, NEW sid \in Sids, NEW cmd \in Commands \cup {UnknownCommand},
             RecvEncrypted(ch, sid, cmd)
      PROVE  Basics'
  BY <1>1, <1>3, DispatchBasics DEF RecvEncrypted
<1>4. ASSUME NEW ch \in Chans, \E phase \in {"idle", "closed"} : pc' = [pc EXCEPT ![ch] = phase],
             UNCHANGED <<store, req, nkeys, client, history>>
      PROVE  Basics'
  <2>1. /\ UNCHANGED <<store, nkeys, lost, stale, req, seen>>
        /\ pc' \in [Chans -> {"idle", "handling", "sending", "closed"}]
        /\ \A o \in Chans : InFlight(o)' => pc'[o] = pc[o]
    BY <1>4 DEF Basics, TypeOK, InFlight, history
  <2>2. /\ CopyInv' /\ KeysBounded' /\ store' \in [Sids -> Session] /\ nkeys' \in Nat
        /\ stale' \subseteq Chans /\ lost' \subseteq Sids
    BY <2>1, QuietBasics DEF Basics, TypeOK
  <2> QED
    BY <1>4, <2>1, <2>2 DEF Basics, TypeOK, client
<1>5. ASSUME NEW ch \in Chans, NEW sid \in Sids, RecvBadKeyExchange(ch, sid)
      PROVE  Basics'
  BY <1>4, <1>5 DEF RecvBadKeyExchange, Failed
<1>6. ASSUME NEW ch \in Chans, Reconnect(ch)
      PROVE  Basics'
  BY <1>4, <1>6 DEF Reconnect
<1>7. ASSUME NEW ch \in Chans, HandlerThrows(ch) \/ HandlerEscapes(ch)
      PROVE  Basics'
  <2>1. UNCHANGED client /\ \E phase \in {"idle", "closed"} : Discard(ch, phase)
    BY <1>7 DEF HandlerThrows, HandlerEscapes, Failed
  <2> QED
    BY <2>1, DiscardBasics DEF Basics, TypeOK, client
<1>8. ASSUME NEW ch \in Chans, SendFails(ch)
      PROVE  Basics'
  <2>1. \E phase \in {"idle", "closed"} : Discard(ch, phase)
    BY <1>8 DEF SendFails, Failed
  <2>2. transit' \in [Sids -> Nat] /\ UNCHANGED <<ckey, waiting>>
    BY <1>8 DEF SendFails, Basics, TypeOK
  <2> QED
    BY <2>1, <2>2, DiscardBasics DEF Basics, TypeOK
<1>9. ASSUME NEW sid \in Sids, Deliver(sid) \/ LoseReply(sid)
      PROVE  Basics'
  <2>1. UNCHANGED <<server, history>> /\ CopyInv' /\ KeysBounded'
    BY <1>9 DEF Deliver, LoseReply, server, history, Basics, CopyInv, Copy, KeysBounded, InFlight
  <2>2. ckey' \in [Sids -> Nat] /\ transit' \in [Sids -> Nat]
    BY <1>9 DEF Deliver, LoseReply, Basics, TypeOK
  <2>3. waiting' \in [Sids -> BOOLEAN]
    BY <1>9 DEF Deliver, LoseReply, Basics, TypeOK
  <2> QED
    BY <2>1, <2>2, <2>3 DEF Basics, TypeOK, server, history
<1> QED
  BY <1>1, <1>2, <1>3, <1>5, <1>6, <1>7, <1>8, <1>9, ExchangeBasics, HandlerReturnsBasics,
     SendDoneBasics DEF Next

LEMMA BasicsInvariant == Spec => []Basics
<1>1. Init => Basics
  BY NoRequestType DEF Init, Basics, TypeOK, CopyInv, KeysBounded, InFlight, NewSession, Session
<1>2. Basics /\ [Next]_vars => Basics'
  BY StepBasics
<1> QED
  BY <1>1, <1>2, SpecSteps, PTL

\* Every variable of the request path keeps its type.
THEOREM TypeCorrect == Spec => []TypeOK
<1>1. Basics => TypeOK
  BY DEF Basics
<1> QED
  BY <1>1, BasicsInvariant, PTL
-----------------------------------------------------------------------------
(***************************************************************************)
(* The implementation of SnapshotSessions.  A request that starts is a     *)
(* Look, one that ends without save a Forget, and save is Execute or Rekey *)
(* on what the request saw.                                                *)
(***************************************************************************)
View(sid) == {seen[ch] : ch \in {c \in Chans : InFlight(c) /\ req[c].sid = sid}}

\* Requests the step does not touch see what they saw.
LEMMA ViewsKept ==
  ASSUME \A o \in Chans : \/ ~InFlight(o) /\ ~InFlight(o)'
                          \/ /\ InFlight(o) /\ InFlight(o)'
                             /\ req'[o].sid = req[o].sid /\ seen'[o] = seen[o]
  PROVE  Views' = Views
<1>1. ASSUME NEW sid \in Sids PROVE View(sid)' = View(sid)
  BY DEF View
<1> QED
  BY <1>1 DEF Views, View

\* A request that starts adds what it saw.
LEMMA ViewsBegin ==
  ASSUME Basics, NEW ch \in Chans, NEW sid \in Sids, NEW cmd, NEW s,
         NEW phase \in {"handling", "sending"}, pc[ch] = "idle", Begin(ch, sid, cmd, phase, s)
  PROVE  Views' = [Views EXCEPT ![sid] = @ \cup {store[sid]}]
<1>1. /\ ~InFlight(ch) /\ InFlight(ch)' /\ req'[ch].sid = sid /\ seen'[ch] = store[sid]
      /\ \A o \in Chans \ {ch} : /\ InFlight(o)' <=> InFlight(o)
                                /\ req'[o] = req[o] /\ seen'[o] = seen[o]
  BY DEF Begin, InFlight, Basics, TypeOK
<1>2. ASSUME NEW i \in Sids
      PROVE  View(i)' = IF i = sid THEN View(i) \cup {store[sid]} ELSE View(i)
  <2>1. CASE i = sid
    BY <1>1, <2>1 DEF View
  <2>2. CASE i # sid
    BY <1>1, <2>2 DEF View
  <2> QED
    BY <2>1, <2>2
<1>3. Views = [i \in Sids |-> View(i)] /\ Views' = [i \in Sids |-> View(i)']
  BY DEF Views, View
<1> QED
  BY <1>2, <1>3

\* A request that ends removes what it saw, unless another saw the same.
LEMMA ViewsEnd ==
  ASSUME Basics, NEW ch \in Chans, InFlight(ch), NEW phase \in {"idle", "closed"}, Ended(ch, phase)
  PROVE  seen[ch] \in Views[req[ch].sid] /\ Snapshots!Ends(req[ch].sid, seen[ch])
<1>0. PICK sid \in Sids : sid = req[ch].sid
  BY DEF Basics, CopyInv, Copy
<1>1. /\ ~InFlight(ch)'
      /\ \A o \in Chans \ {ch} : /\ InFlight(o)' <=> InFlight(o)
                                /\ req'[o] = req[o] /\ seen'[o] = seen[o]
  BY DEF Ended, InFlight, Basics, TypeOK
<1>2. seen[ch] \in View(sid)
  BY <1>0 DEF View
<1>3. ASSUME NEW i \in Sids, i # sid PROVE View(i)' = View(i)
  BY <1>0, <1>1, <1>3 DEF View
<1>4. View(sid)' = View(sid) \/ View(sid)' = View(sid) \ {seen[ch]}
  <2>1. View(sid)' \subseteq View(sid)
    BY <1>1 DEF View
  <2>2. ASSUME NEW s \in View(sid), s # seen[ch] PROVE s \in View(sid)'
    <3>1. PICK o \in Chans : InFlight(o) /\ req[o].sid = sid /\ s = seen[o]
      BY DEF View
    <3>2. o # ch
      BY <2>2, <3>1
    <3> QED
      BY <1>1, <3>1, <3>2 DEF View
  <2> QED
    BY <2>1, <2>2
<1>5. Views = [i \in Sids |-> View(i)] /\ Views' = [i \in Sids |-> View(i)']
  BY DEF Views, View
<1>6. PICK keep \in {{}, {seen[ch]}} : View(sid)' = (View(sid) \ {seen[ch]}) \cup keep
  <2>1. CASE View(sid)' = View(sid) \ {seen[ch]}
    BY <2>1
  <2>2. CASE View(sid)' = View(sid)
    BY <1>2, <2>2
  <2> QED
    BY <1>4, <2>1, <2>2
<1>7. Views' = [Views EXCEPT ![sid] = (@ \ {seen[ch]}) \cup keep]
  BY <1>1, <1>3, <1>5, <1>6
<1> QED
  BY <1>0, <1>2, <1>5, <1>7 DEF Snapshots!Ends

LEMMA SaveImplements ==
  ASSUME Basics, NEW ch \in Chans, SendDone(ch)
  PROVE  Snapshots!ANext
<1> DEFINE sid == req[ch].sid
           sess == req[ch].sess
<1>1. /\ InFlight(ch) /\ Copy(ch) /\ sid \in Sids /\ sess \in Session /\ seen[ch] \in Session
      /\ store' = [store EXCEPT ![sid] = sess]
  BY DEF SendDone, Save, Basics, CopyInv, Copy, InFlight, TypeOK, Request
<1>2. seen[ch] \in Views[sid] /\ Snapshots!Ends(sid, seen[ch])
  BY <1>1, ViewsEnd DEF SendDone
<1>3. CASE req[ch].cmd \in Commands
  <2>1. sess = Apply(req[ch].cmd, seen[ch]) /\ (req[ch].cmd \in NeedsAuth => seen[ch].auth)
    BY <1>1, <1>3 DEF SendDone, Copy
  <2>2. Snapshots!Execute(sid, req[ch].cmd)
    BY <1>1, <1>2, <2>1 DEF Snapshots!Execute, Snapshots!Apply, Apply
  <2> QED
    BY <1>1, <1>3, <2>2 DEF Snapshots!ANext
<1>4. CASE req[ch].cmd = "KEX"
  <2>1. sess = [seen[ch] EXCEPT !.key = sess.key] /\ seen[ch].key < sess.key
    BY <1>1, <1>4 DEF Copy
  <2>2. store'[sid] = sess
    BY <1>1 DEF Basics, TypeOK
  <2>3. sess.key \in Nat \ {0, seen[ch].key}
    BY <1>1, <2>1 DEF Session
  <2>4. Snapshots!Rekey(sid)
    BY <1>1, <1>2, <2>1, <2>2, <2>3 DEF Snapshots!Rekey
  <2> QED
    BY <1>1, <2>4 DEF Snapshots!ANext
<1> QED
  BY <1>1, <1>3, <1>4 DEF Copy

LEMMA StepImplements ==
  ASSUME Basics, [Next]_vars
  PROVE  [Snapshots!ANext]_<<store, Views>>
<1>1. ASSUME NEW ch \in Chans, NEW sid \in Sids, NEW cmd, NEW s,
             NEW phase \in {"handling", "sending"}, pc[ch] = "idle", Begin(ch, sid, cmd, phase, s)
      PROVE  Snapshots!ANext
  <2>1. Views' = [Views EXCEPT ![sid] = @ \cup {store[sid]}] /\ store' = store
    BY <1>1, ViewsBegin DEF Begin
  <2> QED
    BY <2>1 DEF Snapshots!ANext, Snapshots!Look
<1>2. ASSUME NEW ch \in Chans, InFlight(ch), NEW phase \in {"idle", "closed"}, Discard(ch, phase)
      PROVE  Snapshots!ANext
  <2>1. /\ seen[ch] \in Views[req[ch].sid] /\ Snapshots!Ends(req[ch].sid, seen[ch])
        /\ store' = store /\ req[ch].sid \in Sids
    BY <1>2, ViewsEnd DEF Discard, Basics, CopyInv, Copy
  <2> QED
    BY <2>1 DEF Snapshots!ANext, Snapshots!Forget
<1>3. ASSUME UNCHANGED <<store, seen>>,
             \A o \in Chans : (InFlight(o)' <=> InFlight(o)) /\ req'[o].sid = req[o].sid
      PROVE  UNCHANGED <<store, Views>>
  BY <1>3, ViewsKept
<1>4. CASE UNCHANGED vars
  BY <1>3, <1>4 DEF vars, server, history, InFlight
<1>5. ASSUME NEW ch \in Chans, NEW sid \in Sids, NEW cmd, Dispatch(ch, sid, cmd), pc[ch] = "idle"
      PROVE  [Snapshots!ANext]_<<store, Views>>
  BY <1>1, <1>4, <1>5 DEF Dispatch
<1>6. ASSUME NEW ch \in Chans, NEW sid \in Sids, NEW cmd,
             RecvCommand(ch, sid, cmd) \/ RecvEncrypted(ch, sid, cmd)
      PROVE  [Snapshots!ANext]_<<store, Views>>
  BY <1>4, <1>5, <1>6 DEF RecvCommand, RecvEncrypted
<1>7. ASSUME NEW ch \in Chans, NEW sid \in Sids, RecvKeyExchange(ch, sid)
      PROVE  Snapshots!ANext
  BY <1>1, <1>7 DEF RecvKeyExchange
<1>8. ASSUME NEW ch \in Chans, HandlerThrows(ch) \/ HandlerEscapes(ch) \/ SendFails(ch)
      PROVE  Snapshots!ANext
  BY <1>2, <1>8 DEF HandlerThrows, HandlerEscapes, SendFails, Failed, InFlight
<1>9. ASSUME NEW ch \in Chans, HandlerReturns(ch)
      PROVE  UNCHANGED <<store, Views>>
  <2>1. \A o \in Chans : (InFlight(o)' <=> InFlight(o)) /\ req'[o].sid = req[o].sid
    BY <1>9 DEF HandlerReturns, InFlight, Basics, TypeOK, Request
  <2> QED
    BY <1>3, <1>9, <2>1 DEF HandlerReturns, history
<1>10. ASSUME NEW ch \in Chans, (\E sid \in Sids : RecvBadKeyExchange(ch, sid)) \/ Reconnect(ch)
       PROVE  UNCHANGED <<store, Views>>
  <2>1. \A o \in Chans : InFlight(o)' <=> InFlight(o)
    BY <1>10 DEF RecvBadKeyExchange, Reconnect, Failed, InFlight, Basics, TypeOK
  <2> QED
    BY <1>3, <1>10, <2>1 DEF RecvBadKeyExchange, Reconnect, history
<1>11. ASSUME NEW sid \in Sids, Deliver(sid) \/ LoseReply(sid)
       PROVE  UNCHANGED <<store, Views>>
  BY <1>3, <1>11 DEF Deliver, LoseReply, server, history, InFlight
<1> QED
  BY <1>4, <1>6, <1>7, <1>8, <1>9, <1>10, <1>11, SaveImplements DEF Next

\* However requests of a session overlap: loading a session, suspending in the
\* handler and in the send, and saving the copy implements SnapshotSessions.
THEOREM Implementation == Spec => ImplementsSnapshots
<1>1. Init => Snapshots!AInit
  <2>1. ASSUME Init, NEW sid \in Sids PROVE View(sid) = {}
    BY <2>1 DEF Init, View, InFlight
  <2>2. Init => Views = [sid \in Sids |-> {}]
    BY <2>1 DEF Views, View
  <2> QED
    BY <2>2 DEF Init, Snapshots!AInit, NewSession, Snapshots!NewSession
<1>2. Basics /\ [Next]_vars => [Snapshots!ANext]_<<store, Views>>
  BY StepImplements
<1> QED
  BY <1>1, <1>2, BasicsInvariant, SpecSteps, PTL
  DEF ImplementsSnapshots, Snapshots!ASpec, Snapshots!avars
-----------------------------------------------------------------------------
(***************************************************************************)
(* Agreement on keys.  The strengthening: the key of a reply under way     *)
(* obeys what the key a client has obeys, so that Deliver keeps it; and    *)
(* while an exchange that can still be saved on time is being answered, so *)
(* is every exchange whose key the client has or will get, lost updates or *)
(* not, so that the save that ends the loss finds client and store agreed. *)
(***************************************************************************)

\* The client has, or is about to get, key k and waits for no other.
Uses(sid, k) == transit[sid] = k \/ (ckey[sid] = k /\ ~waiting[sid])

\* An exchange of session sid is being answered, from a copy not yet stale.
Timely(sid) ==
  \E ch \in Chans : /\ pc[ch] = "sending" /\ req[ch].sid = sid
                    /\ req[ch].cmd = "KEX" /\ ch \notin stale

KeyInv ==
  \A sid \in Sids : \A k \in Nat \ {0} :
    Uses(sid, k) =>
      /\ sid \notin lost => store[sid].key = k \/ Answering(sid, k)
      /\ Timely(sid) => Answering(sid, k)

\* A step that spreads no key among the clients, and ends no exchange and no
\* loss.
LEMMA QuietKeys ==
  ASSUME KeyInv, UNCHANGED <<store, lost>>,
         \A sid \in Sids : \A k \in Nat \ {0} :
           Uses(sid, k)' => Uses(sid, k) /\ (Answering(sid, k) => Answering(sid, k)'),
         \A sid \in Sids : Timely(sid)' => Timely(sid)
  PROVE  KeyInv'
  BY DEF KeyInv

\* Requests other than exchanges come and go without consequence.
LEMMA CommandKeys ==
  ASSUME KeyInv, UNCHANGED <<store, lost, client>>,
         \A o \in Chans :
           \/ /\ pc'[o] = pc[o] /\ req'[o] = req[o] /\ (o \in stale' <=> o \in stale)
           \/ /\ pc[o] = "sending" => req[o].cmd # "KEX"
              /\ pc'[o] = "sending" => req'[o].cmd # "KEX"
  PROVE  KeyInv'
<1>1. ASSUME NEW sid \in Sids, NEW k \in Nat PROVE Answering(sid, k) => Answering(sid, k)'
  BY DEF Answering
<1>2. ASSUME NEW sid \in Sids PROVE Timely(sid)' => Timely(sid)
  BY DEF Timely
<1>3. ASSUME NEW sid \in Sids, NEW k \in Nat PROVE Uses(sid, k)' => Uses(sid, k)
  BY DEF Uses, client
<1> QED
  BY <1>1, <1>2, <1>3, QuietKeys

\* The exchange that starts: its key is the one the client waits for.
LEMMA ExchangeKeys ==
  ASSUME Basics, KeyInv, NEW ch \in Chans, NEW sid \in Sids, RecvKeyExchange(ch, sid)
  PROVE  KeyInv'
<1>1. /\ pc[ch] = "idle" /\ pc'[ch] = "sending"
      /\ req'[ch] = [sid |-> sid, cmd |-> "KEX", sess |-> Rekeyed(store[sid])]
      /\ Rekeyed(store[sid]).key = nkeys + 1
      /\ \A o \in Chans \ {ch} : pc'[o] = pc[o] /\ req'[o] = req[o]
      /\ UNCHANGED <<store, stale, lost, ckey>>
      /\ transit'[sid] = nkeys + 1 /\ waiting'[sid]
      /\ \A i \in Sids \ {sid} : transit'[i] = transit[i] /\ (waiting'[i] <=> waiting[i])
  BY DEF RecvKeyExchange, Begin, Rekeyed, Basics, TypeOK, Session
<1>2. ASSUME NEW i \in Sids, NEW k \in Nat \ {0}, Uses(i, k)'
      PROVE  /\ i \notin lost' => store'[i].key = k \/ Answering(i, k)'
             /\ Timely(i)' => Answering(i, k)'
  <2>1. CASE i = sid
    <3>1. k = nkeys + 1
      BY <1>1, <1>2, <2>1 DEF Uses
    <3>2. Answering(sid, k)'
      BY <1>1, <3>1 DEF Answering
    <3> QED
      BY <2>1, <3>2
  <2>2. CASE i # sid
    <3>1. Uses(i, k) /\ (Timely(i)' => Timely(i)) /\ (Answering(i, k) => Answering(i, k)')
      BY <1>1, <1>2, <2>2 DEF Uses, Timely, Answering
    <3> QED
      BY <1>1, <3>1 DEF KeyInv
  <2> QED
    BY <2>1, <2>2
<1> QED
  BY <1>2 DEF KeyInv

\* A send fails before the client has the reply: nobody uses the key.
LEMMA SendFailsKeys ==
  ASSUME Basics, KeyInv, NEW ch \in Chans, SendFails(ch)
  PROVE  KeyInv'
<1>1. /\ pc[ch] = "sending" /\ pc'[ch] # "sending" /\ req[ch].sid \in Sids
      /\ \A o \in Chans \ {ch} : /\ pc'[o] = pc[o] /\ req'[o] = req[o]
                                /\ (o \in stale' <=> o \in stale)
      /\ UNCHANGED <<store, lost, ckey, waiting>>
  BY DEF SendFails, Discard, Ended, Failed, Basics, CopyInv, Copy, InFlight, TypeOK
<1>2. \A sid \in Sids : Timely(sid)' => Timely(sid)
  BY <1>1 DEF Timely
<1>3. ASSUME NEW sid \in Sids, NEW k \in Nat \ {0}, Uses(sid, k)'
      PROVE  Uses(sid, k) /\ (Answering(sid, k) => Answering(sid, k)')
  <2>1. Uses(sid, k)
    BY <1>1, <1>3 DEF Uses, SendFails, Basics, TypeOK
  <2>2. ~(req[ch].cmd = "KEX" /\ req[ch].sid = sid /\ req[ch].sess.key = k)
    <3> SUFFICES ASSUME req[ch].cmd = "KEX", req[ch].sid = sid, req[ch].sess.key = k PROVE FALSE
      OBVIOUS
    <3>1. ckey'[sid] # k
      BY <1>1 DEF SendFails
    <3>2. transit'[sid] # k
      BY DEF SendFails, Basics, TypeOK
    <3> QED
      BY <1>3, <3>1, <3>2 DEF Uses
  <2>3. Answering(sid, k) => Answering(sid, k)'
    BY <1>1, <2>2 DEF Answering
  <2> QED
    BY <2>1, <2>3
<1> QED
  BY <1>1, <1>2, <1>3, QuietKeys

\* A save makes every other copy of the session stale.  Saved on time, an
\* exchange stores a key in use, or one that an exchange still being answered
\* replaces, and another request stores the key it found.
LEMMA SendDoneKeys ==
  ASSUME Basics, KeyInv, NEW ch \in Chans, SendDone(ch)
  PROVE  KeyInv'
<1>0. PICK own \in Sids : own = req[ch].sid
  BY DEF SendDone, Basics, CopyInv, Copy, InFlight
<1>1. /\ pc[ch] = "sending" /\ pc'[ch] = "idle" /\ Copy(ch)
      /\ \A o \in Chans \ {ch} : pc'[o] = pc[o] /\ req'[o] = req[o]
      /\ store'[own] = req[ch].sess
      /\ \A i \in Sids \ {own} : store'[i] = store[i]
      /\ stale' = (stale \ {ch}) \cup Others(ch)
      /\ lost' = IF ch \in stale THEN lost \cup {own}
                 ELSE IF req[ch].cmd = "KEX" THEN lost \ {own} ELSE lost
      /\ UNCHANGED client
      /\ seen[ch] \in Session
  BY <1>0 DEF SendDone, Save, Record, Ended, Basics, CopyInv, InFlight, TypeOK
<1>2. ASSUME NEW i \in Sids, NEW k \in Nat \ {0}, Uses(i, k)'
      PROVE  /\ i \notin lost' => store'[i].key = k \/ Answering(i, k)'
             /\ Timely(i)' => Answering(i, k)'
  <2>0. Uses(i, k)
    BY <1>1, <1>2 DEF Uses, client
  <2>1. CASE i # own
    <3>1. (Timely(i)' => Timely(i)) /\ (Answering(i, k) => Answering(i, k)')
      BY <1>0, <1>1, <2>1 DEF Timely, Answering, Others
    <3>2. store'[i] = store[i] /\ (i \notin lost' => i \notin lost)
      BY <1>1, <2>1
    <3> QED
      BY <2>0, <3>1, <3>2 DEF KeyInv
  <2>2. CASE i = own
    <3>1. ~Timely(own)'
      BY <1>0, <1>1 DEF Timely, Others, InFlight
    <3>2. Answering(own, k) => (req[ch].cmd = "KEX" /\ req[ch].sess.key = k) \/ Answering(own, k)'
      BY <1>0, <1>1 DEF Answering
    <3>3. ASSUME own \notin lost'
          PROVE  req[ch].sess.key = k \/ Answering(own, k)'
      <4>1. ch \notin stale
        BY <1>1, <3>3
      <4>2. CASE req[ch].cmd = "KEX"
        <5>1. Timely(own)
          BY <1>0, <1>1, <4>1, <4>2 DEF Timely
        <5> QED
          BY <2>0, <2>2, <3>2, <5>1 DEF KeyInv
      <4>3. CASE req[ch].cmd # "KEX"
        <5>1. own \notin lost
          BY <1>1, <3>3, <4>1, <4>3
        <5>2. seen[ch] = store[own] /\ req[ch].sess = Apply(req[ch].cmd, seen[ch]) /\ req[ch].cmd \in Commands
          BY <1>0, <1>1, <4>1, <4>3 DEF Copy
        <5>3. req[ch].sess.key = store[own].key
          BY <1>1, <5>2, ApplyType
        <5> QED
          BY <2>0, <2>2, <3>2, <4>3, <5>1, <5>3 DEF KeyInv
      <4> QED
        BY <4>2, <4>3
    <3> QED
      BY <1>1, <2>2, <3>1, <3>3
  <2> QED
    BY <2>1, <2>2
<1> QED
  BY <1>2 DEF KeyInv

LEMMA StepKeys ==
  ASSUME Basics, KeyInv, [Next]_vars
  PROVE  KeyInv'
<1>1. ASSUME UNCHANGED vars
      PROVE  KeyInv'
  BY <1>1, CommandKeys DEF vars, server, history
<1>2. ASSUME NEW ch \in Chans, NEW sid \in Sids, NEW cmd \in Commands \cup {UnknownCommand},
             Dispatch(ch, sid, cmd), pc[ch] = "idle"
      PROVE  KeyInv'
  <2>1. CASE Routes(Transport[ch], store[sid], cmd)
    <3>1. Begin(ch, sid, cmd, "handling", store[sid]) /\ UNCHANGED client
      BY <1>2, <2>1 DEF Dispatch
    <3>2. /\ pc'[ch] = "handling" /\ UNCHANGED <<store, lost, stale>>
          /\ \A o \in Chans \ {ch} : pc'[o] = pc[o] /\ req'[o] = req[o]
      BY <3>1 DEF Begin, Basics, TypeOK
    <3> QED
      BY <1>2, <3>1, <3>2, CommandKeys
  <2>2. CASE ~Routes(Transport[ch], store[sid], cmd)
    BY <1>1, <1>2, <2>2 DEF Dispatch
  <2> QED
    BY <2>1, <2>2
<1>3. ASSUME NEW ch \in Chans, NEW sid \in Sids, NEW cmd \in Commands \cup {UnknownCommand},
             RecvCommand(ch, sid, cmd) \/ RecvEncrypted(ch, sid, cmd)
      PROVE  KeyInv'
  BY <1>1, <1>2, <1>3 DEF RecvCommand, RecvEncrypted
<1>4. ASSUME NEW ch \in Chans, (\E sid \in Sids : RecvBadKeyExchange(ch, sid)) \/ Reconnect(ch)
      PROVE  KeyInv'
  <2>1. /\ UNCHANGED <<store, lost, stale, req, client>> /\ pc[ch] # "sending" /\ pc'[ch] # "sending"
        /\ \A o \in Chans \ {ch} : pc'[o] = pc[o]
    BY <1>4 DEF RecvBadKeyExchange, Reconnect, Failed, history, Basics, TypeOK
  <2> QED
    BY <2>1, CommandKeys
<1>5. ASSUME NEW ch \in Chans, HandlerThrows(ch) \/ HandlerEscapes(ch)
      PROVE  KeyInv'
  <2>1. /\ UNCHANGED <<store, lost, client>> /\ pc[ch] # "sending" /\ pc'[ch] # "sending"
        /\ \A o \in Chans \ {ch} : /\ pc'[o] = pc[o] /\ req'[o] = req[o]
                                  /\ (o \in stale' <=> o \in stale)
    BY <1>5 DEF HandlerThrows, HandlerEscapes, Discard, Ended, Failed, Basics, TypeOK
  <2> QED
    BY <2>1, CommandKeys
<1>6. ASSUME NEW ch \in Chans, HandlerReturns(ch)
      PROVE  KeyInv'
  <2>1. /\ UNCHANGED <<store, lost, stale, client>> /\ pc[ch] = "handling"
        /\ req'[ch].cmd = req[ch].cmd
        /\ \A o \in Chans \ {ch} : pc'[o] = pc[o] /\ req'[o] = req[o]
    BY <1>6 DEF HandlerReturns, history, Basics, TypeOK, Request
  <2>2. req[ch].cmd # "KEX"
    BY <2>1, UnknownAssumption DEF Basics, CopyInv, Copy, InFlight
  <2> QED
    BY <2>1, <2>2, CommandKeys
<1>7. ASSUME NEW sid \in Sids, Deliver(sid) \/ LoseReply(sid)
      PROVE  KeyInv'
  <2>1. UNCHANGED <<store, lost, stale, pc, req>>
    BY <1>7 DEF Deliver, LoseReply, server, history
  <2>2. ASSUME NEW i \in Sids, NEW k \in Nat \ {0}, Uses(i, k)'
        PROVE  Uses(i, k)
    BY <1>7, <2>2 DEF Uses, Deliver, LoseReply, Basics, TypeOK
  <2>3. ASSUME NEW i \in Sids, NEW k \in Nat
        PROVE  (Timely(i)' => Timely(i)) /\ (Answering(i, k) => Answering(i, k)')
    BY <2>1 DEF Timely, Answering
  <2> QED
    BY <2>1, <2>2, <2>3, QuietKeys
<1> QED
  BY <1>1, <1>3, <1>4, <1>5, <1>6, <1>7, ExchangeKeys, SendFailsKeys, SendDoneKeys DEF Next

\* A client that waits for no reply and the server agree on the session's key,
\* whatever sends failed and replies were lost and however requests overlap,
\* until one of them overwrites what another has saved.
THEOREM AgreementHolds == Spec => []KeyAgreement
<1>1. Init => KeyInv
  BY DEF Init, KeyInv, Uses
<1>2. Basics /\ KeyInv /\ [Next]_vars => KeyInv'
  BY StepKeys
<1>3. Basics /\ KeyInv => KeyAgreement
  BY DEF KeyInv, KeyAgreement, Uses, Basics, TypeOK
<1> QED
  BY <1>1, <1>2, <1>3, BasicsInvariant, SpecSteps, PTL

-----------------------------------------------------------------------------
\* A login is undone by a request that logs out, or by one whose copy is stale.
LoginUndone ==
  \A sid \in Sids :
    store[sid].auth /\ ~store'[sid].auth =>
      \E ch \in Chans :
        /\ pc[ch] = "sending" /\ req[ch].sid = sid
        /\ ch \in stale \/ (req[ch].cmd \in Commands /\ Effect[req[ch].cmd] = "logout")

LEMMA StepSticks ==
  ASSUME Basics, [Next]_vars
  PROVE  LoginUndone
<1> SUFFICES ASSUME NEW sid \in Sids, store[sid].auth, ~store'[sid].auth
             PROVE  \E ch \in Chans :
                      /\ pc[ch] = "sending" /\ req[ch].sid = sid
                      /\ \/ ch \in stale
                         \/ req[ch].cmd \in Commands /\ Effect[req[ch].cmd] = "logout"
  BY DEF LoginUndone
<1>1. PICK ch \in Chans : SendDone(ch)
  BY DEF Next, vars, server, RecvCommand, RecvEncrypted, Dispatch, Begin, RecvKeyExchange,
         RecvBadKeyExchange, HandlerReturns, HandlerThrows, HandlerEscapes, SendFails, Discard,
         Reconnect, Deliver, LoseReply
<1>2. /\ pc[ch] = "sending" /\ req[ch].sid = sid /\ store'[sid] = req[ch].sess
      /\ Copy(ch) /\ store[sid] \in Session
  BY <1>1 DEF SendDone, Save, Basics, CopyInv, InFlight, TypeOK
<1>3. CASE ch \notin stale /\ req[ch].cmd = "KEX"
  BY <1>2, <1>3 DEF Copy, Session
<1>4. CASE ch \notin stale /\ req[ch].cmd \in Commands
  <2>1. req[ch].sess = Apply(req[ch].cmd, store[sid])
    BY <1>2, <1>4 DEF Copy
  <2>2. Effect[req[ch].cmd] \in {"keep", "login", "logout"}
    BY <1>4, CommandsAssumption
  <2> QED
    BY <1>2, <1>4, <2>1, <2>2 DEF Apply, Session
<1> QED
  BY <1>2, <1>3, <1>4 DEF Copy

\* A save that overwrites what another request has saved is the only way in
\* which "session state is preserved" (LoginSticks) fails.
THEOREM LoginHolds == Spec => [][LoginUndone]_vars
<1>1. Basics /\ [Next]_vars => [LoginUndone]_vars
  BY StepSticks
<1> QED
  BY <1>1, BasicsInvariant, SpecSteps, PTL
=============================================================================
