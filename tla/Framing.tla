------------------------------ MODULE Framing ------------------------------
(***************************************************************************)
(* How the server cuts what it receives from a client into frames, and     *)
(* what a client sees of what the server sends: async_read_exact,          *)
(* read_frame and read_text_frame (IoUring.cpp, FrameIO.cpp), the datagram *)
(* handling of start_udp_loop, the send_frame of the three connection      *)
(* classes, push_event, and the writes of send_to_session and do_broadcast.*)
(*                                                                         *)
(* What a client has sent is a row of units, numbered from 0: bytes of a   *)
(* binary stream or of a row of datagrams, lines of a text stream (the     *)
(* server reads a line byte by byte, so lines come whole).  A frame is a   *)
(* stretch of units.  All that matters of a text line is whether           *)
(* parse_text_header accepts it; a payload can be accepted as well.        *)
(***************************************************************************)
EXTENDS Integers, Sequences

CONSTANTS
  HeaderLen,  \* sizeof(FrameHeader)
  MaxPayload, \* bound on payloads
  MaxFrames,  \* bound on the frames of the client
  MaxPushes   \* bound on the messages of send_to, broadcast and push_event

ASSUME FramingAssumption ==
  /\ {MaxPayload, MaxFrames, MaxPushes} \subseteq Nat
  /\ HeaderLen \in Nat \ {0}

VARIABLES
  mode,      \* "BINARY" or "TEXT" stream, or "UDP"
  frames,    \* the frames the client has written
  off,       \* units the server has taken off the socket
  stage,     \* what the coroutine does: reads a "header" or a "payload", is
             \* "serving" a frame, writing an "event", "replying", or "closed"
  begin,     \* where the frame being read began
  left,      \* what async_read_exact has still to read: size() - total_read
  delivered, \* the frames handed to process_command
  flight,    \* messages being written: what is left of each
  pushes,    \* messages that send_to, broadcast and push_event have sent
  out,       \* what the client has received
  short      \* a write has been cut short

inVars == <<mode, frames, off, stage, begin, left, delivered>>
outVars == <<flight, pushes, out, short>>
vars == <<inVars, outVars>>

Header == IF mode = "TEXT" THEN 1 ELSE HeaderLen
End(f) == f.at + Header + f.len
Written == IF frames = <<>> THEN 0 ELSE End(frames[Len(frames)])

Init ==
  /\ mode \in {"BINARY", "TEXT", "UDP"}
  /\ frames = <<>>
  /\ off = 0 /\ stage = "header" /\ begin = 0 /\ left = Header
  /\ delivered = <<>>
  /\ flight = {} /\ pushes = 0 /\ out = <<>> /\ short = FALSE

-----------------------------------------------------------------------------
(* The client *)

\* A frame at the end of the stream.  In text it is two lines, each of which
\* parse_text_header would accept or not.
WriteFrame(len, head, body) ==
  /\ mode # "UDP" /\ Len(frames) < MaxFrames
  /\ mode = "TEXT" => len = 1
  /\ mode = "BINARY" => head /\ body
  /\ frames' = Append(frames, [at |-> Written, len |-> len, head |-> head, body |-> body])
  /\ UNCHANGED <<mode, off, stage, begin, left, delivered, outVars>>

-----------------------------------------------------------------------------
(* Reading *)

\* total_read += bytes.  (Faulty variants: a partial read is taken for all of
\* it; the count is not kept.)
RemainingNone(n) == 0
RemainingAll(n) == left
Remaining(n) == left - n

\* What a header that begins at unit b says: the length of the payload to read,
\* or -1 when parse_text_header refuses the line.  In a binary stream, what is
\* read at the wrong place says anything.
Says(b) ==
  IF mode = "TEXT"
  THEN LET f == frames[(b \div 2) + 1]
       IN  {IF (IF b % 2 = 0 THEN f.head ELSE f.body) THEN 1 ELSE -1}
  ELSE IF \E f \in {frames[k] : k \in DOMAIN frames} : f.at = b
       THEN {f.len : f \in {g \in {frames[k] : k \in DOMAIN frames} : g.at = b}}
       ELSE 0..MaxPayload

\* read_frame or read_text_frame returns the frame that began at begin; a
\* refused text header gives command 0 of session 0, without payload.
Deliver(len, ok) ==
  /\ delivered' = Append(delivered, [at |-> begin, len |-> len, ok |-> ok])
  /\ stage' = "serving" /\ UNCHANGED left

\* The next n units arrive, in the buffer of async_read_exact.
Arrive(n) ==
  /\ n <= left /\ off + n <= Written
  /\ off' = off + n
  /\ UNCHANGED <<mode, frames, begin, outVars>>

ReadHeader(n) ==
  /\ stage = "header" /\ mode # "UDP" /\ Arrive(n)
  /\ IF Remaining(n) > 0
     THEN left' = Remaining(n) /\ UNCHANGED <<stage, delivered>>
     ELSE \E len \in Says(begin) :
            IF len > 0
            THEN stage' = "payload" /\ left' = len /\ UNCHANGED delivered
            ELSE Deliver(0, len = 0)

ReadPayload(n) ==
  /\ stage = "payload" /\ Arrive(n)
  /\ IF Remaining(n) > 0
     THEN left' = Remaining(n) /\ UNCHANGED <<stage, delivered>>
     ELSE Deliver(off' - begin - Header, TRUE)

\* A read returns 0, because the client has closed its end, perhaps in the
\* middle of a frame, or fails: the exception ends the connection, and what was
\* read of a frame is dropped.
ReadFails ==
  /\ stage \in {"header", "payload"} /\ mode # "UDP"
  /\ stage' = "closed"
  /\ UNCHANGED <<mode, frames, off, begin, left, delivered, outVars>>

\* start_udp_loop: a datagram of so many bytes whose header announces a payload.
\* One that has no room for a header is skipped.  (Faulty variant: the announced
\* length is believed.)
PayloadAnnounced(bytes, announced) == announced
PayloadIn(bytes, announced) ==
  IF announced < bytes - HeaderLen THEN announced ELSE bytes - HeaderLen
Datagram(bytes, announced) ==
  /\ mode = "UDP" /\ stage = "header" /\ Len(frames) < MaxFrames
  /\ frames' = Append(frames, [at |-> off, len |-> bytes])
  /\ off' = off + bytes
  /\ IF bytes < HeaderLen
     THEN begin' = off' /\ UNCHANGED <<stage, delivered>>
     ELSE /\ delivered' = Append(delivered, [at |-> off, len |-> PayloadIn(bytes, announced), ok |-> TRUE])
          /\ stage' = "serving" /\ UNCHANGED begin
  /\ UNCHANGED <<mode, left, outVars>>

-----------------------------------------------------------------------------
(* Writing *)

\* The buffers a frame is written in, one write each: a single one.  A text
\* payload that contains a newline is one more line.  (Faulty variant: header
\* and payload are written one after the other.)
BuffersSplit(msg) == <<<<<<msg, msg.head>>>>, <<<<msg, "payload">>>>>>
Buffers(msg) ==
  << <<<<msg, msg.head>>, <<msg, "payload">>>>
       \o (IF msg.broken THEN <<<<msg, "payload">>>> ELSE <<>>) >>
Writes(msg) == flight' = flight \cup {[msg |-> msg, bufs |-> Buffers(msg)]}

\* What a message is to the client: the n-th reply or push, in a format, with
\* the header that was meant or another.
ReplyMsg(broken) ==
  [kind |-> "reply", n |-> Len(delivered), text |-> mode = "TEXT", broken |-> broken, head |-> "header"]
PushMsg ==
  [kind |-> "push", n |-> pushes + 1, text |-> FALSE, broken |-> FALSE, head |-> "header"]
EventMsg(head) ==
  [kind |-> "event", n |-> pushes + 1, text |-> mode = "TEXT", broken |-> FALSE, head |-> head]

\* The coroutine goes back to reading, or ends with an exception (UDP: goes on).
Reading ==
  /\ stage' = "header" /\ begin' = off /\ left' = Header
  /\ UNCHANGED <<mode, frames, off, delivered>>
Fails ==
  IF mode = "UDP" THEN Reading
  ELSE /\ stage' = "closed"
       /\ UNCHANGED <<mode, frames, off, begin, left, delivered>>

\* process_command drops the frame, or replies with send_frame.
ServeSilently == stage = "serving" /\ (Reading \/ Fails) /\ UNCHANGED outVars
Reply(broken) ==
  /\ stage = "serving" /\ (broken => mode = "TEXT")
  /\ stage' = "replying"
  /\ Writes(ReplyMsg(broken))
  /\ UNCHANGED <<mode, frames, off, begin, left, delivered, pushes, out, short>>

\* A handler awaits push_event.  send_frame takes the header by reference and
\* does not start before it is awaited, when push_event has returned and its
\* local header is gone: what is sent in its place is undefined.  (A task that
\* is not awaited sends nothing.)
Event(head) ==
  /\ stage = "serving" /\ pushes < MaxPushes
  /\ stage' = "event" /\ pushes' = pushes + 1
  /\ Writes(EventMsg(head))
  /\ UNCHANGED <<mode, frames, off, begin, left, delivered, out, short>>

\* send_to_session and do_broadcast write the binary format to any connection
\* that is registered, while its own coroutine may be writing a reply.
Push ==
  /\ mode # "UDP" /\ stage # "closed" /\ delivered # <<>> /\ pushes < MaxPushes
  /\ pushes' = pushes + 1
  /\ Writes(PushMsg)
  /\ UNCHANGED <<inVars, out, short>>

\* The coroutine that awaits the write w, and what it does after the last buffer:
\* it reads the next frame, or is back in its handler.
Awaits(w) == stage = CASE w.msg.kind = "reply" -> "replying"
                       [] w.msg.kind = "event" -> "event"
                       [] w.msg.kind = "push"  -> "nothing"
Resume(w) ==
  \/ ~Awaits(w) /\ UNCHANGED inVars
  \/ Awaits(w) /\ stage = "replying" /\ Reading
  \/ /\ Awaits(w) /\ stage = "event" /\ stage' = "serving"
     /\ UNCHANGED <<mode, frames, off, begin, left, delivered>>

\* A write completes.  A stream socket can take less than it was given; the
\* count is not looked at, and the rest of the buffer is never sent.
WriteDone(w, n) ==
  /\ n \in 1..Len(w.bufs[1]) /\ (mode = "UDP" => n = Len(w.bufs[1]))
  /\ out' = out \o SubSeq(w.bufs[1], 1, n)
  /\ short' = (short \/ n < Len(w.bufs[1]))
  /\ IF Len(w.bufs) > 1
     THEN flight' = (flight \ {w}) \cup {[w EXCEPT !.bufs = Tail(@)]} /\ UNCHANGED inVars
     ELSE flight' = flight \ {w} /\ Resume(w)
  /\ UNCHANGED pushes

\* A write fails: the exception ends the connection of a reply or an event.
WriteFails(w) ==
  /\ flight' = flight \ {w}
  /\ IF Awaits(w) THEN Fails ELSE UNCHANGED inVars
  /\ UNCHANGED <<pushes, out, short>>

-----------------------------------------------------------------------------
ReadStep == \E n \in 1..(HeaderLen + MaxPayload) : ReadHeader(n) \/ ReadPayload(n)
ServeStep == ServeSilently \/ \E broken \in BOOLEAN : Reply(broken)
WriteStep == \E w \in flight : (\E n \in 1..3 : WriteDone(w, n)) \/ WriteFails(w)

Next ==
  \/ \E len \in 0..MaxPayload, head, body \in BOOLEAN : WriteFrame(len, head, body)
  \/ ReadStep
  \/ ReadFails
  \/ \E bytes \in 0..(HeaderLen + MaxPayload), announced \in 0..(MaxPayload + 1) :
       Datagram(bytes, announced)
  \/ ServeSilently
  \/ \E broken \in BOOLEAN : Reply(broken)
  \/ \E head \in {"header", "garbage"} : Event(head)
  \/ Push
  \/ WriteStep

Spec == Init /\ [][Next]_vars

\* What the client has sent arrives, handlers return, and each write completes
\* or fails: the client reads what it is sent, or goes away.
Fairness == WF_vars(ReadStep) /\ WF_vars(ServeStep) /\ WF_vars(WriteStep)
FairSpec == Spec /\ Fairness

-----------------------------------------------------------------------------
(* Properties *)

\* However a stream is cut into reads, the frames handed to process_command are
\* the client's frames in order, each with its own payload, until the first
\* text header that is refused; payloads may read like headers.
FramesFaithful ==
  mode # "UDP" =>
    \A k \in DOMAIN delivered :
      (\A j \in 1..k : delivered[j].ok) =>
        /\ k <= Len(frames)
        /\ delivered[k].at = frames[k].at /\ delivered[k].len = frames[k].len

\* No unit is used twice, none out of turn and none that has not been received,
\* also after a refused header and for datagrams that announce more than they
\* carry: frames are disjoint stretches of the input, in order.
UnitsOnce ==
  \A k \in DOMAIN delivered :
    LET d == delivered[k]
        end == d.at + (IF mode = "TEXT" /\ ~d.ok THEN 1 ELSE Header + d.len)
    IN  end <= IF k = Len(delivered) THEN off ELSE delivered[k + 1].at

\* The client can follow what it receives: headers and payloads alternate, each
\* pair of one message in its own format, and replies come in the order of the
\* requests, although pushes are written while a reply is.  It loses step only
\* after a write that was cut short, an event whose header was lost, a text
\* payload with a newline, or a push (always binary) to a text client.
Follows(k) ==
  LET u == out[k] IN
  /\ u[2] = IF k % 2 = 1 THEN "header" ELSE "payload"
  /\ k % 2 = 0 => u[1] = out[k - 1][1]
  /\ u[1].text = (mode = "TEXT")
  /\ \A j \in 1..k : u[1].kind = "reply" /\ out[j][1].kind = "reply" => out[j][1].n <= u[1].n
ClientInStep ==
  \A k \in DOMAIN out :
    \/ short \/ Follows(k) \/ \E j \in 1..k : out[j][2] = "garbage"
    \/ mode = "TEXT" /\ \E j \in 1..k : out[j][1].broken \/ out[j][1].kind = "push"

\* Every frame the client has written is handed to process_command, unless the
\* connection ends first.
FramesDelivered ==
  \A k \in 1..MaxFrames :
    mode # "UDP" /\ Len(frames) >= k ~> (Len(delivered) >= k \/ stage = "closed")

(* A statement of the documentation that the code does not keep *)

\* push_event is to "send unsolicited frame to client" (README.md): a client
\* that receives all that is written to it, in its format, keeps in step.
EventsKeepStep ==
  \A k \in DOMAIN out :
    short \/ Follows(k) \/ \E j \in 1..k : out[j][1].broken \/ out[j][1].kind = "push"
=============================================================================
