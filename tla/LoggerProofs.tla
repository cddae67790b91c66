---------------------------- MODULE LoggerProofs ----------------------------
(***************************************************************************)
(* Proofs that the lines of the log are whole and that the file follows    *)
(* stderr, for any threads, any number of calls and any settings.          *)
(***************************************************************************)
EXTENDS Logger, SequenceTheorems, FiniteSetTheorems, TLAPS

Devices == {"stderr", "file"}
Pieces == [kind : {"prefix", "body", "eol", "cut", "warning"}, call : Nat]

LogTypes ==
  /\ out \in [Devices -> Seq(Pieces)]
  /\ msg \in [Threads -> [n : Nat, newline : BOOLEAN]] /\ calls \in Nat
  /\ pc \in [Threads -> {"idle", "lock", "stderr.prefix", "stderr.body", "stderr.end",
                         "file.prefix", "file.body"}]

\* Whoever writes holds s_log_mutex.
HoldInv == \A t \in Threads : pc[t] \notin {"idle", "lock"} => owner = t

\* The last piece of an output is the end of a line, or the piece that the call
\* in progress has just written, or where the file failed.
Closed(o) == o = <<>> \/ o[Len(o)].kind \in {"eol", "cut"}
Shut(dev) == Closed(out[dev]) \/ (dev = "file" /\ file = "bad")
EndsWith(o, p) == o # <<>> /\ o[Len(o)] = p
TailInv ==
  /\ \A t \in Threads :
       /\ pc[t] = "stderr.body" => EndsWith(out["stderr"], Prefix(msg[t].n))
       /\ pc[t] = "stderr.end" => EndsWith(out["stderr"], Body(msg[t].n))
       /\ pc[t] = "file.body" => EndsWith(out["file"], Prefix(msg[t].n))
  /\ (\A t \in Threads : pc[t] \notin {"stderr.body", "stderr.end"}) => Closed(out["stderr"])
  /\ (\A t \in Threads : pc[t] # "file.body") => Shut("file")

\* The pieces of an output follow one another as those of whole lines do.
Lines(o) ==
  \A i \in DOMAIN o :
    /\ o[i].kind = "prefix" => i = Len(o) \/ o[i + 1] = Body(o[i].call)
    /\ o[i].kind = "body" => /\ i > 1 /\ o[i - 1] = Prefix(o[i].call)
                             /\ i = Len(o) \/ o[i + 1] = Eol(o[i].call)
    /\ o[i].kind = "eol" => i > 1 /\ o[i - 1] \in {Body(o[i].call), Piece("warning", 0)}
LinesInv == \A dev \in Devices : Lines(out[dev])

LogInv == LogTypes /\ HoldInv /\ TailInv /\ LinesInv

-----------------------------------------------------------------------------
(* Outputs *)

\* What may follow an output whose last piece is q, and begin an empty one.
Fits(q, p) ==
  /\ q.kind = "prefix" => p = Body(q.call)
  /\ q.kind = "body" => p = Eol(q.call)
  /\ p.kind = "body" => q = Prefix(p.call)
  /\ p.kind = "eol" => q \in {Body(p.call), Piece("warning", 0)}

\* One more piece.
LEMMA OnePiece ==
  ASSUME NEW o \in Seq(Pieces), NEW p \in Pieces, Lines(o),
         IF o = <<>> THEN p.kind \notin {"body", "eol"} ELSE Fits(o[Len(o)], p)
  PROVE  /\ o \o <<p>> \in Seq(Pieces) /\ Lines(o \o <<p>>)
         /\ EndsWith(o \o <<p>>, p)
<1> DEFINE s == o \o <<p>>
           l == Len(o)
<1>1. /\ l \in Nat /\ DOMAIN o = 1..l /\ (l = 0 <=> o = <<>>)
      /\ s \in Seq(Pieces) /\ Len(s) = l + 1 /\ DOMAIN s = 1..(l + 1)
      /\ s[l + 1] = p
  BY ConcatProperties, LenProperties, EmptySeq
<1>2. \A i \in 1..l : s[i] = o[i]
  BY ConcatProperties, LenProperties
<1>3. IF l = 0 THEN p.kind \notin {"body", "eol"} ELSE Fits(o[l], p)
  BY <1>1
<1>4. \A i \in 1..l :
        /\ o[i].kind = "prefix" => i = l \/ o[i + 1] = Body(o[i].call)
        /\ o[i].kind = "body" => /\ i > 1 /\ o[i - 1] = Prefix(o[i].call)
                                 /\ i = l \/ o[i + 1] = Eol(o[i].call)
        /\ o[i].kind = "eol" => i > 1 /\ o[i - 1] \in {Body(o[i].call), Piece("warning", 0)}
  BY <1>1 DEF Lines
<1> HIDE DEF s, l
<1>5. Lines(s)
  <2> SUFFICES ASSUME NEW i \in 1..(l + 1)
               PROVE  /\ s[i].kind = "prefix" => i = l + 1 \/ s[i + 1] = Body(s[i].call)
                      /\ s[i].kind = "body" => /\ i > 1 /\ s[i - 1] = Prefix(s[i].call)
                                               /\ i = l + 1 \/ s[i + 1] = Eol(s[i].call)
                      /\ s[i].kind = "eol" => i > 1 /\ s[i - 1] \in {Body(s[i].call), Piece("warning", 0)}
    BY <1>1 DEF Lines
  <2>1. CASE i = l + 1
    <3>1. CASE l = 0
      BY <1>1, <1>3, <2>1, <3>1
    <3>2. CASE l # 0
      <4>1. l \in 1..l /\ i - 1 = l /\ i > 1
        BY <1>1, <2>1, <3>2
      <4> QED
        BY <1>1, <1>2, <1>3, <2>1, <3>2, <4>1 DEF Fits
    <3> QED
      BY <3>1, <3>2
  <2>2. CASE i = l
    <3>1. l \in 1..l /\ i + 1 = l + 1 /\ i # l + 1 /\ (i > 1 => i - 1 \in 1..l)
      BY <1>1, <2>2
    <3> QED
      BY <1>1, <1>2, <1>3, <1>4, <2>2, <3>1 DEF Fits
  <2>3. CASE i \in 1..(l - 1)
    <3>1. i \in 1..l /\ i + 1 \in 1..l /\ i # l /\ i # l + 1 /\ (i > 1 => i - 1 \in 1..l)
      BY <1>1, <2>3
    <3> QED
      BY <1>2, <1>4, <3>1
  <2> QED
    BY <1>1, <2>1, <2>2, <2>3
<1>6. EndsWith(s, p)
  BY <1>1, EmptySeq DEF EndsWith
<1> QED
  BY <1>1, <1>5, <1>6 DEF s

\* The pieces of a call.
LEMMA PieceFacts ==
  ASSUME NEW n \in Nat
  PROVE  /\ Prefix(n) \in Pieces /\ Body(n) \in Pieces /\ Eol(n) \in Pieces
         /\ Piece("cut", n) \in Pieces /\ Piece("warning", n) \in Pieces
         /\ Prefix(n).kind = "prefix" /\ Body(n).kind = "body" /\ Eol(n).kind = "eol"
         /\ Piece("cut", n).kind = "cut" /\ Piece("warning", n).kind = "warning"
         /\ Prefix(n).call = n /\ Body(n).call = n /\ Eol(n).call = n
<1> QED
  BY DEF Prefix, Body, Eol, Piece, Pieces

\* A line begins where one has ended, and goes on with the pieces of its call.
LEMMA LineBegins ==
  ASSUME NEW o \in Seq(Pieces), Lines(o), Closed(o), NEW p \in Pieces,
         p.kind \in {"prefix", "cut", "warning"}
  PROVE  o \o <<p>> \in Seq(Pieces) /\ Lines(o \o <<p>>) /\ EndsWith(o \o <<p>>, p)
<1>1. IF o = <<>> THEN p.kind \notin {"body", "eol"} ELSE Fits(o[Len(o)], p)
  BY DEF Closed, Fits
<1> QED
  BY <1>1, OnePiece

LEMMA BodyFollows ==
  ASSUME NEW o \in Seq(Pieces), Lines(o), NEW n \in Nat, EndsWith(o, Prefix(n))
  PROVE  o \o <<Body(n)>> \in Seq(Pieces) /\ Lines(o \o <<Body(n)>>) /\ EndsWith(o \o <<Body(n)>>, Body(n))
<1>1. Fits(o[Len(o)], Body(n)) /\ o # <<>>
  BY PieceFacts DEF EndsWith, Fits
<1> QED
  BY <1>1, OnePiece, PieceFacts

LEMMA EolFollows ==
  ASSUME NEW o \in Seq(Pieces), Lines(o), NEW n \in Nat, EndsWith(o, Body(n)) \/ (n = 0 /\ EndsWith(o, Piece("warning", 0)))
  PROVE  o \o <<Eol(n)>> \in Seq(Pieces) /\ Lines(o \o <<Eol(n)>>) /\ Closed(o \o <<Eol(n)>>)
<1>1. Fits(o[Len(o)], Eol(n)) /\ o # <<>>
  BY PieceFacts DEF EndsWith, Fits
<1>2. EndsWith(o \o <<Eol(n)>>, Eol(n))
  BY <1>1, OnePiece, PieceFacts
<1> QED
  BY <1>1, <1>2, OnePiece, PieceFacts DEF Closed, EndsWith

-----------------------------------------------------------------------------
(* The steps *)

\* While a thread writes, no other one does.
LEMMA Alone ==
  ASSUME LogInv, NEW t \in Threads, pc[t] \notin {"idle", "lock"}
  PROVE  \A u \in Threads : u # t => pc[u] \in {"idle", "lock"}
<1> QED
  BY DEF LogInv, HoldInv

\* With the mutex free nobody writes, and both outputs are closed, but a file
\* that failed.
LEMMA FreeClosed ==
  ASSUME LogInv, Free
  PROVE  /\ \A t \in Threads : pc[t] \in {"idle", "lock"}
         /\ Closed(out["stderr"]) /\ Shut("file")
<1>1. \A t \in Threads : pc[t] \in {"idle", "lock"}
  BY ThreadsAssumption DEF LogInv, HoldInv, Free
<1> QED
  BY <1>1 DEF LogInv, TailInv

\* Calls and settings write nothing.
LEMMA StepSettings ==
  ASSUME LogInv,
         \/ \E t \in Threads, l \in Levels, newline \in BOOLEAN : Call(t, l, newline)
         \/ \E t \in Threads : Lock(t)
         \/ \E l \in Levels : SetLevel(l)
         \/ \E openable \in BOOLEAN : SetLogFile(openable)
         \/ \E n \in BOOLEAN : SetFileColumnWidth(n)
         \/ UNCHANGED vars
  PROVE  LogInv'
<1> USE DEF LogInv
<1>1. ASSUME NEW t \in Threads, NEW l \in Levels, NEW newline \in BOOLEAN, Call(t, l, newline)
      PROVE  LogInv'
  <2>1. /\ UNCHANGED <<owner, file, out>> /\ calls' = calls + 1 /\ pc[t] = "idle" /\ pc'[t] = "lock"
        /\ \A u \in Threads : u # t => pc'[u] = pc[u] /\ msg'[u] = msg[u]
    BY <1>1 DEF Call, LogTypes
  <2>2. LogTypes'
    BY <1>1 DEF LogTypes, Call
  <2>3. HoldInv'
    BY <2>1 DEF HoldInv
  <2>4. TailInv'
    BY <2>1 DEF TailInv, Shut
  <2>5. LinesInv'
    BY <2>1 DEF LinesInv
  <2> QED
    BY <2>2, <2>3, <2>4, <2>5
<1>2. ASSUME NEW t \in Threads, Lock(t) PROVE LogInv'
  <2>1. /\ UNCHANGED <<file, msg, calls, out>> /\ owner' = t /\ pc'[t] = "stderr.prefix"
        /\ \A u \in Threads : u # t => pc'[u] = pc[u]
    BY <1>2 DEF Lock, LogTypes
  <2>2. LogTypes'
    BY <1>2 DEF LogTypes, Lock
  <2>3. HoldInv' /\ TailInv'
    BY <1>2, <2>1, FreeClosed DEF HoldInv, TailInv, Shut, Lock
  <2>4. LinesInv'
    BY <2>1 DEF LinesInv
  <2> QED
    BY <2>2, <2>3, <2>4
<1>3. ASSUME UNCHANGED <<owner, pc, msg, calls, out>>, file = "bad" => file' = "bad"
      PROVE  LogInv'
  BY <1>3 DEF LogTypes, HoldInv, TailInv, Shut, LinesInv
<1> QED
  BY <1>1, <1>2, <1>3 DEF SetLevel, SetLogFile, SetFileColumnWidth, vars

\* A thread that holds the mutex appends to an output: what is left to show is
\* that the output stays in lines and ends as the thread's next place says.
LEMMA StepWrites ==
  ASSUME LogInv, NEW t \in Threads, pc[t] \notin {"idle", "lock"},
         NEW dev \in Devices, NEW o \in Seq(Pieces), out' = [out EXCEPT ![dev] = o],
         pc' \in [Threads -> {"idle", "lock", "stderr.prefix", "stderr.body", "stderr.end",
                              "file.prefix", "file.body"}],
         \A u \in Threads : u # t => pc'[u] = pc[u],
         UNCHANGED <<msg, calls>>,
         owner' = owner \/ pc'[t] = "idle",
         Lines(o), file = "bad" => file' = "bad",
         \A d \in Devices \ {dev} : Shut(d),
         CASE pc'[t] = "stderr.body" -> dev = "stderr" /\ EndsWith(o, Prefix(msg[t].n))
           [] pc'[t] = "stderr.end" -> dev = "stderr" /\ EndsWith(o, Body(msg[t].n))
           [] pc'[t] = "file.body" -> dev = "file" /\ EndsWith(o, Prefix(msg[t].n))
           [] OTHER -> Closed(o) \/ (dev = "file" /\ file' = "bad")
  PROVE  LogInv'
<1> USE DEF LogInv
<1>1. \A u \in Threads : u # t => pc'[u] \in {"idle", "lock"}
  BY Alone
<1>2. out'[dev] = o /\ \A d \in Devices : d # dev => out'[d] = out[d]
  BY DEF LogTypes
<1>3. LogTypes'
  BY DEF LogTypes
<1>4. HoldInv'
  BY <1>1 DEF HoldInv
<1>5. LinesInv'
  BY <1>2 DEF LinesInv
<1>6. TailInv'
  <2>1. dev = "stderr" \/ dev = "file"
    BY DEF Devices
  <2> QED
    BY <1>1, <1>2, <2>1 DEF TailInv, Shut, Devices
<1> QED
  BY <1>3, <1>4, <1>5, <1>6

\* The prefix, whole or cut by the exception of format_file_column.
LEMMA StepPrefix ==
  ASSUME LogInv, NEW t \in Threads, NEW dev \in Devices, WritePrefix(t, dev),
         dev = "file" => file = "open"
  PROVE  LogInv'
<1> DEFINE n == msg[t].n
           p == IF narrow THEN Piece("cut", n) ELSE Prefix(n)
           o == out[dev] \o <<p>>
<1>0. LogTypes
  BY DEF LogInv
<1>1. n \in Nat
  BY <1>0 DEF LogTypes
<1>2. p \in Pieces /\ p.kind \in {"prefix", "cut"} /\ (narrow => p.kind = "cut") /\ (~narrow => p = Prefix(n))
  BY <1>1, PieceFacts
<1>3. /\ out[dev] \in Seq(Pieces) /\ Lines(out[dev])
      /\ pc[t] = IF dev = "stderr" THEN "stderr.prefix" ELSE "file.prefix"
      /\ UNCHANGED <<file, msg, calls>>
  BY DEF LogInv, LogTypes, LinesInv, WritePrefix, PrefixAt, Devices
<1>4. Closed(out[dev]) /\ \A d \in Devices : Shut(d)
  <2>1. \A u \in Threads : u # t => pc[u] \in {"idle", "lock"}
    BY <1>3, Alone
  <2> QED
    BY <1>3, <2>1 DEF LogInv, TailInv, Shut, Devices
<1>5. o \in Seq(Pieces) /\ Lines(o) /\ EndsWith(o, p)
  BY <1>2, <1>3, <1>4, LineBegins
<1>6. out' = [out EXCEPT ![dev] = o]
  BY DEF WritePrefix, Written
<1>7. /\ pc' = [pc EXCEPT ![t] = IF narrow THEN "idle" ELSE IF dev = "stderr" THEN "stderr.body" ELSE "file.body"]
      /\ owner' = owner \/ pc'[t] = "idle"
  BY <1>0 DEF WritePrefix, Leave, BodyAt, Devices, LogTypes
<1> HIDE DEF o, p, n
<1>8. CASE narrow
  <2>1. Closed(o)
    BY <1>2, <1>5, <1>8 DEF Closed, EndsWith
  <2>2. /\ pc' \in [Threads -> {"idle", "lock", "stderr.prefix", "stderr.body", "stderr.end",
                                "file.prefix", "file.body"}]
        /\ pc'[t] = "idle" /\ \A u \in Threads : u # t => pc'[u] = pc[u]
    BY <1>0, <1>7, <1>8 DEF LogTypes
  <2> QED
    BY <1>3, <1>4, <1>5, <1>6, <2>1, <2>2, StepWrites
<1>9. CASE ~narrow
  <2>1. EndsWith(o, Prefix(msg[t].n))
    BY <1>2, <1>5, <1>9 DEF n
  <2>2. /\ pc' \in [Threads -> {"idle", "lock", "stderr.prefix", "stderr.body", "stderr.end",
                                "file.prefix", "file.body"}]
        /\ pc'[t] = (IF dev = "stderr" THEN "stderr.body" ELSE "file.body")
        /\ \A u \in Threads : u # t => pc'[u] = pc[u]
    BY <1>0, <1>7, <1>9 DEF LogTypes
  <2>3. owner' = owner
    BY <1>7, <2>2
  <2> QED
    BY <1>3, <1>4, <1>5, <1>6, <2>1, <2>2, <2>3, StepWrites DEF Devices
<1> QED
  BY <1>8, <1>9

\* The rest of a line, on stderr in two steps and in the file in one.
LEMMA StepRest ==
  ASSUME LogInv, NEW t \in Threads,
         StderrBody(t) \/ StderrEnd(t) \/ FileBody(t) \/ FileDropped(t) \/ FileFails(t)
  PROVE  LogInv'
<1> DEFINE n == msg[t].n
<1>0. LogTypes /\ TailInv /\ LinesInv
  BY DEF LogInv
<1>1. n \in Nat /\ \A d \in Devices : out[d] \in Seq(Pieces) /\ Lines(out[d])
  BY <1>0 DEF LogTypes, LinesInv
<1>2. /\ pc[t] \in {"stderr.body", "stderr.end", "file.prefix", "file.body"}
      /\ UNCHANGED <<msg, calls>> /\ (file = "bad" => file' = "bad")
  BY DEF StderrBody, StderrEnd, FileBody, FileDropped, FileFails
<1>3. \A u \in Threads : u # t => pc[u] \in {"idle", "lock"}
  BY <1>2, Alone
<1>4. "stderr" \in Devices /\ "file" \in Devices /\ \A d \in Devices : d = "stderr" \/ d = "file"
  BY DEF Devices
<1>5. CASE StderrBody(t)
  <2> DEFINE o == out["stderr"] \o <<Body(n)>>
  <2>1. /\ pc[t] = "stderr.body" /\ out' = [out EXCEPT !["stderr"] = o] /\ owner' = owner
        /\ pc' = [pc EXCEPT ![t] = "stderr.end"]
    BY <1>5 DEF StderrBody, SanitizedBody, Written
  <2>2. EndsWith(out["stderr"], Prefix(n)) /\ Shut("file")
    BY <1>0, <1>3, <2>1 DEF TailInv
  <2>3. o \in Seq(Pieces) /\ Lines(o) /\ EndsWith(o, Body(n))
    BY <1>1, <1>4, <2>2, BodyFollows
  <2>4. /\ pc' \in [Threads -> {"idle", "lock", "stderr.prefix", "stderr.body", "stderr.end",
                                "file.prefix", "file.body"}]
        /\ pc'[t] = "stderr.end" /\ \A u \in Threads : u # t => pc'[u] = pc[u]
    BY <1>0, <2>1 DEF LogTypes
  <2>5. \A d \in Devices \ {"stderr"} : Shut(d)
    BY <1>4, <2>2
  <2> HIDE DEF o
  <2> QED
    BY <1>2, <1>4, <2>1, <2>3, <2>4, <2>5, StepWrites
<1>6. CASE StderrEnd(t)
  <2> DEFINE o == out["stderr"] \o <<Eol(n)>>
  <2>1. /\ pc[t] = "stderr.end" /\ out' = [out EXCEPT !["stderr"] = o]
        /\ \/ pc' = [pc EXCEPT ![t] = "idle"]
           \/ pc' = [pc EXCEPT ![t] = "file.prefix"] /\ owner' = owner
    BY <1>6 DEF StderrEnd, ToFile, Leave, Written
  <2>2. EndsWith(out["stderr"], Body(n)) /\ Shut("file")
    BY <1>0, <1>3, <2>1 DEF TailInv
  <2>3. o \in Seq(Pieces) /\ Lines(o) /\ Closed(o)
    BY <1>1, <1>4, <2>2, EolFollows
  <2>4. /\ pc' \in [Threads -> {"idle", "lock", "stderr.prefix", "stderr.body", "stderr.end",
                                "file.prefix", "file.body"}]
        /\ pc'[t] = "idle" \/ (pc'[t] = "file.prefix" /\ owner' = owner)
        /\ \A u \in Threads : u # t => pc'[u] = pc[u]
    BY <1>0, <2>1 DEF LogTypes
  <2>5. \A d \in Devices \ {"stderr"} : Shut(d)
    BY <1>4, <2>2
  <2> HIDE DEF o
  <2> QED
    BY <1>2, <1>4, <2>1, <2>3, <2>4, <2>5, StepWrites
<1>7. CASE FileBody(t) \/ FileDropped(t) \/ FileFails(t)
  <2>1. /\ pc[t] \in {"file.body", "file.prefix"} /\ pc' = [pc EXCEPT ![t] = "idle"]
        /\ pc' \in [Threads -> {"idle", "lock", "stderr.prefix", "stderr.body", "stderr.end",
                                "file.prefix", "file.body"}]
        /\ pc'[t] = "idle" /\ \A u \in Threads : u # t => pc'[u] = pc[u]
    BY <1>0, <1>7 DEF FileBody, FileDropped, FileFails, Leave, LogTypes
  <2>2. \A d \in Devices \ {"file"} : Shut(d)
    BY <1>0, <1>3, <1>4, <2>1 DEF TailInv, Shut
  <2>3. CASE FileDropped(t) \/ FileFails(t)
    <3>1. out' = [out EXCEPT !["file"] = out["file"]] /\ file' = "bad"
      BY <1>0, <2>3 DEF FileDropped, FileFails, LogTypes
    <3> QED
      BY <1>1, <1>2, <1>4, <2>1, <2>2, <3>1, StepWrites
  <2>4. CASE FileBody(t)
    <3> DEFINE b == out["file"] \o <<Body(n)>>
               o == b \o <<Eol(n)>>
    <3>1. EndsWith(out["file"], Prefix(n))
      BY <1>0, <2>4 DEF FileBody, TailInv
    <3>2. b \in Seq(Pieces) /\ Lines(b) /\ EndsWith(b, Body(n))
      BY <1>1, <1>4, <3>1, BodyFollows
    <3>3. o \in Seq(Pieces) /\ Lines(o) /\ Closed(o)
      BY <1>1, <3>2, EolFollows
    <3>4. out["file"] \o (<<Body(n)>> \o <<Eol(n)>>) = o
      <4>1. <<Body(n)>> \in Seq(Pieces) /\ <<Eol(n)>> \in Seq(Pieces) /\ out["file"] \in Seq(Pieces)
        BY <1>1, <1>4, PieceFacts
      <4> QED
        BY <4>1, ConcatAssociative
    <3>5. out' = [out EXCEPT !["file"] = o]
      BY <2>4, <3>4 DEF FileBody, SanitizedBody, Written
    <3> HIDE DEF o
    <3> QED
      BY <1>2, <1>4, <2>1, <2>2, <3>3, <3>5, StepWrites
  <2> QED
    BY <1>7, <2>3, <2>4
<1> QED
  BY <1>5, <1>6, <1>7

\* The warning of setLogFile, a line of its own.
LEMMA StepWarns ==
  ASSUME LogInv, SetLogFileWarns
  PROVE  LogInv'
<1> DEFINE b == out["stderr"] \o <<Piece("warning", 0)>>
           o == b \o <<Eol(0)>>
<1>0. /\ out \in [Devices -> Seq(Pieces)] /\ "stderr" \in Devices /\ "file" \in Devices
      /\ out["stderr"] \in Seq(Pieces) /\ Lines(out["stderr"]) /\ Lines(out["file"])
  BY DEF LogInv, LogTypes, LinesInv, Devices
<1>1. /\ \A t \in Threads : pc[t] \in {"idle", "lock"}
      /\ Closed(out["stderr"]) /\ Shut("file")
  BY FreeClosed DEF SetLogFileWarns
<1>2. b \in Seq(Pieces) /\ Lines(b) /\ EndsWith(b, Piece("warning", 0))
  BY <1>0, <1>1, LineBegins, PieceFacts
<1>3. o \in Seq(Pieces) /\ Lines(o) /\ Closed(o)
  BY <1>2, EolFollows
<1>4. out["stderr"] \o <<Piece("warning", 0), Eol(0)>> = o
  <2>1. <<Piece("warning", 0)>> \in Seq(Pieces) /\ <<Eol(0)>> \in Seq(Pieces)
    BY PieceFacts
  <2>2. <<Piece("warning", 0), Eol(0)>> = <<Piece("warning", 0)>> \o <<Eol(0)>>
    OBVIOUS
  <2> QED
    BY <1>0, <2>1, <2>2, ConcatAssociative
<1>5. out' = [out EXCEPT !["stderr"] = o] /\ UNCHANGED <<owner, file, pc, msg, calls>>
  BY <1>4 DEF SetLogFileWarns, Written
<1> HIDE DEF o
<1>6. out'["stderr"] = o /\ out'["file"] = out["file"]
  BY <1>0, <1>5
<1>7. LogTypes'
  BY <1>0, <1>3, <1>5 DEF LogInv, LogTypes
<1>8. HoldInv'
  BY <1>5 DEF LogInv, HoldInv
<1>9. TailInv'
  BY <1>1, <1>3, <1>5, <1>6 DEF TailInv, Shut
<1>10. LinesInv'
  BY <1>0, <1>3, <1>6 DEF LinesInv, Devices
<1> QED
  BY <1>7, <1>8, <1>9, <1>10 DEF LogInv

\* It holds when the program starts.
LEMMA LogInvInitially == Init => LogInv
<1> SUFFICES ASSUME Init PROVE LogInv
  OBVIOUS
<1>1. LogTypes
  BY DEF Init, LogTypes, Devices
<1>2. out["stderr"] = <<>> /\ out["file"] = <<>>
  BY DEF Init
<1>3. HoldInv /\ TailInv
  BY <1>2 DEF Init, HoldInv, TailInv, Shut, Closed
<1>4. LinesInv
  BY <1>2 DEF LinesInv, Lines, Devices
<1> QED
  BY <1>1, <1>3, <1>4 DEF LogInv

\* Every step preserves the invariant.
LEMMA LogInvStep ==
  ASSUME LogInv, [Next]_vars
  PROVE  LogInv'
<1>1. ASSUME NEW t \in Threads, LogStep(t) PROVE LogInv'
  BY <1>1, StepSettings, StepPrefix, StepRest DEF LogStep, FilePrefix, Devices
<1> QED
  BY <1>1, StepSettings, StepWarns DEF Next

-----------------------------------------------------------------------------
(* The file and stderr *)

\* Where the lines of an output start, and which line piece i belongs to.
Starts(o) == {i \in DOMAIN o : o[i].kind \in {"prefix", "cut"}}
Rank(o, i) == Cardinality({k \in Starts(o) : k <= i})

\* The n-th line of output o is that of the n-th call of d.
Copies(o, d) == \A i \in Starts(o) : Rank(o, i) <= Len(d) /\ o[i].call = d[Rank(o, i)]

\* The file has a line for every call that is due to it but the one that has
\* written its line to stderr and not yet begun the one of the file, or failed
\* to begin it.
Lags(t) == pc[t] = "file.prefix" /\ file = "open"
CopyInv ==
  /\ file \in {"none", "open", "bad"} /\ due \in Seq(Nat)
  /\ Copies(out["file"], due)
  /\ \A t \in Threads :
       Lags(t) => /\ Cardinality(Starts(out["file"])) = Len(due) - 1
                  /\ Len(due) > 0 /\ due[Len(due)] = msg[t].n
  /\ (\A t \in Threads : ~Lags(t)) =>
       \/ Cardinality(Starts(out["file"])) = Len(due)
       \/ file = "bad" /\ Cardinality(Starts(out["file"])) = Len(due) - 1
  /\ \A t \in Threads : pc[t] = "file.body" => file = "open"

\* Starts and ranks of an output are finite and no larger than its length.
LEMMA StartsFinite ==
  ASSUME NEW o \in Seq(Pieces)
  PROVE  /\ IsFiniteSet(Starts(o)) /\ Cardinality(Starts(o)) \in Nat
         /\ \A i \in Starts(o) : Rank(o, i) \in Nat /\ Rank(o, i) > 0
<1>1. IsFiniteSet(DOMAIN o) /\ Starts(o) \subseteq DOMAIN o
  <2>1. DOMAIN o = 1..Len(o) /\ Len(o) \in Nat
    BY LenProperties
  <2>2. IsFiniteSet(1..Len(o))
    BY <2>1, FS_Interval
  <2> QED
    BY <2>1, <2>2 DEF Starts
<1>2. IsFiniteSet(Starts(o))
  BY <1>1, FS_Subset
<1>3. ASSUME NEW i \in Starts(o)
      PROVE  Rank(o, i) \in Nat /\ Rank(o, i) > 0
  <2> DEFINE S == {k \in Starts(o) : k <= i}
  <2>1. IsFiniteSet(S)
    BY <1>2, FS_Subset
  <2>2. i \in S
    BY LenProperties DEF Starts
  <2>3. Cardinality(S) \in Nat /\ Cardinality(S) # 0
    BY <2>1, <2>2, FS_CardinalityType, FS_EmptySet
  <2> QED
    BY <2>3 DEF Rank
<1> QED
  BY <1>2, <1>3, FS_CardinalityType

\* A piece that starts no line leaves the starts and their ranks as they are.
LEMMA RestKeepsStarts ==
  ASSUME NEW o \in Seq(Pieces), NEW p \in Pieces, p.kind \notin {"prefix", "cut"},
         NEW d \in Seq(Nat), Copies(o, d)
  PROVE  Starts(o \o <<p>>) = Starts(o) /\ Copies(o \o <<p>>, d)
<1> DEFINE s == o \o <<p>>
           l == Len(o)
<1>1. /\ l \in Nat /\ DOMAIN o = 1..l /\ DOMAIN s = 1..(l + 1) /\ s[l + 1] = p
      /\ \A i \in 1..l : s[i] = o[i]
  BY ConcatProperties, LenProperties
<1> HIDE DEF s, l
<1>2. \A i \in 1..(l + 1) : i \in 1..l \/ i = l + 1
  BY <1>1
<1>3. \A i \in 1..l : i \in 1..(l + 1)
  BY <1>1
<1>4. Starts(s) = Starts(o)
  BY <1>1, <1>2, <1>3 DEF Starts
<1>5. \A i \in Starts(s) : Rank(s, i) = Rank(o, i) /\ s[i] = o[i]
  BY <1>1, <1>4 DEF Rank, Starts
<1>6. Copies(s, d)
  BY <1>4, <1>5 DEF Copies
<1> QED
  BY <1>4, <1>6 DEF s

\* A piece that starts the line of the last call of d, the others being there.
LEMMA StartCopies ==
  ASSUME NEW o \in Seq(Pieces), NEW p \in Pieces, p.kind \in {"prefix", "cut"},
         NEW d \in Seq(Nat), Copies(o, d),
         Cardinality(Starts(o)) = Len(d) - 1, p.call = d[Len(d)]
  PROVE  Cardinality(Starts(o \o <<p>>)) = Len(d) /\ Copies(o \o <<p>>, d)
<1> DEFINE s == o \o <<p>>
           l == Len(o)
           m == Len(d)
<1>1. /\ l \in Nat /\ DOMAIN o = 1..l /\ DOMAIN s = 1..(l + 1) /\ s[l + 1] = p
      /\ \A i \in 1..l : s[i] = o[i]
  BY ConcatProperties, LenProperties
<1>2. m \in Nat /\ Cardinality(Starts(o)) = m - 1 /\ p.call = d[m]
  BY LenProperties
<1>3. \A i \in Starts(o) : Rank(o, i) <= m /\ o[i].call = d[Rank(o, i)]
  BY DEF Copies
<1> HIDE DEF s, l, m
<1>4. \A i \in 1..(l + 1) : i \in 1..l \/ i = l + 1
  BY <1>1
<1>5. l + 1 \in 1..(l + 1) /\ (\A i \in 1..l : i \in 1..(l + 1) /\ i < l + 1) /\ l + 1 \notin 1..l
  BY <1>1
<1>6. Starts(s) = Starts(o) \cup {l + 1} /\ l + 1 \notin Starts(o)
  BY <1>1, <1>4, <1>5 DEF Starts
<1>7. Cardinality(Starts(s)) = m
  <2>1. Cardinality(Starts(s)) = Cardinality(Starts(o)) + 1
    BY <1>6, StartsFinite, FS_AddElement
  <2> QED
    BY <1>2, <2>1
<1>8. \A i \in Starts(o) : Rank(s, i) = Rank(o, i) /\ s[i] = o[i]
  <2> SUFFICES ASSUME NEW i \in Starts(o)
               PROVE  Rank(s, i) = Rank(o, i) /\ s[i] = o[i]
    OBVIOUS
  <2>1. i \in 1..l
    BY <1>1 DEF Starts
  <2>2. i < l + 1 /\ i \in Nat
    BY <1>1, <2>1
  <2>3. \A k \in Starts(s) : k <= i => k \in Starts(o)
    BY <1>1, <1>6, <2>2
  <2>4. {k \in Starts(s) : k <= i} = {k \in Starts(o) : k <= i}
    BY <1>6, <2>3
  <2> QED
    BY <1>1, <2>1, <2>4 DEF Rank
<1>9. Rank(s, l + 1) = m
  <2>1. \A k \in Starts(s) : k <= l + 1
    BY <1>1, <1>5, <1>6 DEF Starts
  <2>2. {k \in Starts(s) : k <= l + 1} = Starts(s)
    BY <2>1
  <2> QED
    BY <1>7, <2>2 DEF Rank
<1>10. ASSUME NEW i \in Starts(s)
       PROVE  Rank(s, i) <= m /\ s[i].call = d[Rank(s, i)]
  <2>1. CASE i = l + 1
    BY <1>1, <1>2, <1>9, <2>1
  <2>2. CASE i \in Starts(o)
    BY <1>3, <1>8, <2>2
  <2> QED
    BY <1>6, <2>1, <2>2
<1>11. Copies(s, d)
  BY <1>10 DEF Copies, m
<1> QED
  BY <1>7, <1>11 DEF s, m

\* One more call that is due.
LEMMA DueGrows ==
  ASSUME NEW o \in Seq(Pieces), NEW d \in Seq(Nat), NEW n \in Nat, Copies(o, d)
  PROVE  /\ Append(d, n) \in Seq(Nat) /\ Copies(o, Append(d, n))
         /\ Len(Append(d, n)) = Len(d) + 1 /\ Append(d, n)[Len(d) + 1] = n
<1> DEFINE a == Append(d, n)
           m == Len(d)
<1>1. /\ a \in Seq(Nat) /\ m \in Nat /\ Len(a) = m + 1 /\ a[m + 1] = n
      /\ \A j \in 1..m : a[j] = d[j]
  BY AppendProperties, LenProperties
<1>2. \A i \in Starts(o) : Rank(o, i) <= m /\ o[i].call = d[Rank(o, i)]
  BY DEF Copies
<1> HIDE DEF a, m
<1>3. ASSUME NEW i \in Starts(o)
      PROVE  Rank(o, i) <= m + 1 /\ o[i].call = a[Rank(o, i)]
  <2>1. Rank(o, i) \in Nat /\ Rank(o, i) > 0
    BY StartsFinite
  <2>2. Rank(o, i) \in 1..m /\ Rank(o, i) <= m + 1
    BY <1>1, <1>2, <2>1
  <2> QED
    BY <1>1, <1>2, <2>2
<1>4. Copies(o, a)
  BY <1>1, <1>3 DEF Copies
<1> QED
  BY <1>1, <1>4 DEF a, m

\* A step that leaves the file, what is due and who lags as they are.
LEMMA CopyKept ==
  ASSUME CopyInv, UNCHANGED due, out'["file"] = out["file"], file' \in {"none", "open", "bad"},
         file = "bad" => file' = "bad",
         \A t \in Threads : Lags(t)' => Lags(t) /\ msg'[t] = msg[t],
         (\A t \in Threads : ~Lags(t)') => (\A t \in Threads : ~Lags(t)),
         \A t \in Threads : pc'[t] = "file.body" => file' = "open"
  PROVE  CopyInv'
<1> QED
  BY DEF CopyInv

\* Steps of the settings, and of a call before it has written to stderr.
LEMMA CopyElsewhere ==
  ASSUME LogInv, CopyInv,
         \/ \E t \in Threads, l \in Levels, newline \in BOOLEAN : Call(t, l, newline)
         \/ \E t \in Threads : Lock(t) \/ WritePrefix(t, "stderr") \/ StderrBody(t) \/ FileDropped(t)
         \/ \E l \in Levels : SetLevel(l)
         \/ \E openable \in BOOLEAN : SetLogFile(openable)
         \/ SetLogFileWarns
         \/ \E n \in BOOLEAN : SetFileColumnWidth(n)
         \/ UNCHANGED vars
  PROVE  CopyInv'
<1>0. LogTypes /\ file \in {"none", "open", "bad"}
  BY DEF LogInv, CopyInv
<1>1. ASSUME NEW t \in Threads, NEW l \in Levels, NEW newline \in BOOLEAN, Call(t, l, newline)
      PROVE  CopyInv'
  <2>1. /\ UNCHANGED <<file, due, out>> /\ pc[t] = "idle" /\ pc'[t] = "lock"
        /\ \A u \in Threads : u # t => pc'[u] = pc[u] /\ msg'[u] = msg[u]
    BY <1>0, <1>1 DEF Call, LogTypes
  <2> QED
    BY <1>0, <2>1, CopyKept DEF CopyInv, Lags
<1>2. ASSUME NEW t \in Threads, Lock(t) \/ WritePrefix(t, "stderr") \/ StderrBody(t) \/ FileDropped(t)
      PROVE  CopyInv'
  <2>1. /\ UNCHANGED <<file, due, msg>>
        /\ pc[t] \in {"lock", "stderr.prefix", "stderr.body"} \/ (pc[t] = "file.prefix" /\ file = "bad")
    BY <1>2 DEF Lock, WritePrefix, PrefixAt, StderrBody, FileDropped
  <2>2. /\ pc'[t] \notin {"file.prefix", "file.body"}
        /\ \A u \in Threads : u # t => pc'[u] = pc[u]
    BY <1>0, <1>2 DEF Lock, WritePrefix, BodyAt, StderrBody, FileDropped, Leave, LogTypes
  <2>3. out'["file"] = out["file"]
    BY <1>0, <1>2 DEF Lock, WritePrefix, StderrBody, FileDropped, Written, LogTypes, Devices
  <2> QED
    BY <1>0, <2>1, <2>2, <2>3, CopyKept DEF CopyInv, Lags
<1>3. ASSUME NEW openable \in BOOLEAN, SetLogFile(openable)
      PROVE  CopyInv'
  <2>1. \A t \in Threads : pc[t] \in {"idle", "lock"}
    BY <1>3, FreeClosed DEF SetLogFile
  <2>2. /\ UNCHANGED <<pc, msg, out, due>> /\ file' \in {"none", "open", "bad"}
        /\ file = "bad" => file' = "bad"
    BY <1>3 DEF SetLogFile
  <2> QED
    BY <2>1, <2>2, CopyKept DEF Lags
<1>4. ASSUME UNCHANGED <<file, pc, msg, due>>, out'["file"] = out["file"]
      PROVE  CopyInv'
  BY <1>0, <1>4, CopyKept DEF Lags, CopyInv
<1>5. SetLogFileWarns => out'["file"] = out["file"] /\ UNCHANGED <<file, pc, msg, due>>
  BY <1>0 DEF SetLogFileWarns, Written, LogTypes, Devices
<1> QED
  BY <1>1, <1>2, <1>3, <1>4, <1>5 DEF SetLevel, SetFileColumnWidth, vars

\* stderr has the line of a call, which is due to the file when that is open.
LEMMA CopyStderrEnd ==
  ASSUME LogInv, CopyInv, NEW t \in Threads, StderrEnd(t)
  PROVE  CopyInv'
<1> DEFINE n == msg[t].n
           o == out["file"]
<1>1. LogTypes /\ n \in Nat /\ o \in Seq(Pieces)
  BY DEF LogInv, LogTypes, Devices
<1>2. /\ pc[t] = "stderr.end" /\ UNCHANGED <<file, msg>>
      /\ \A u \in Threads : u # t => pc'[u] = pc[u] /\ pc[u] \in {"idle", "lock"}
      /\ out'["file"] = o
      /\ pc'[t] = IF file = "none" THEN "idle" ELSE "file.prefix"
  BY <1>1, Alone DEF StderrEnd, ToFile, Leave, Written, LogTypes, Devices
<1>3. CASE file # "open"
  <2>1. due' = due
    BY <1>3 DEF StderrEnd
  <2> QED
    BY <1>2, <1>3, <2>1, CopyKept DEF CopyInv, Lags
<1>4. CASE file = "open"
  <2>1. due' = Append(due, n) /\ pc'[t] = "file.prefix"
    BY <1>2, <1>4 DEF StderrEnd
  <2>2. Cardinality(Starts(o)) = Len(due) /\ due \in Seq(Nat) /\ Copies(o, due)
    BY <1>2, <1>4 DEF CopyInv, Lags
  <2>3. /\ due' \in Seq(Nat) /\ Copies(o, due') /\ Len(due) \in Nat
        /\ Len(due') = Len(due) + 1 /\ due'[Len(due) + 1] = n
    BY <1>1, <2>1, <2>2, DueGrows, LenProperties
  <2>4. Cardinality(Starts(o)) = Len(due') - 1 /\ Len(due') > 0 /\ due'[Len(due')] = n
    <3> DEFINE m == Len(due)
               k == Len(due')
    <3>1. m \in Nat /\ k = m + 1 /\ due'[m + 1] = n /\ Cardinality(Starts(o)) = m
      BY <2>2, <2>3
    <3> QED
      BY <3>1
  <2> HIDE DEF o, n
  <2>5. Lags(t)' /\ \A u \in Threads : Lags(u)' => u = t
    BY <1>2, <1>4, <2>1 DEF Lags
  <2>6. msg'[t].n = n /\ out'["file"] = o /\ file' = "open"
    BY <1>2, <1>4 DEF n
  <2> QED
    BY <1>2, <2>1, <2>3, <2>4, <2>5, <2>6 DEF CopyInv
<1> QED
  BY <1>3, <1>4

\* The line of the file begins.
LEMMA CopyFilePrefix ==
  ASSUME LogInv, CopyInv, NEW t \in Threads, FilePrefix(t)
  PROVE  CopyInv'
<1> DEFINE n == msg[t].n
           o == out["file"]
           p == IF narrow THEN Piece("cut", n) ELSE Prefix(n)
<1>1. LogTypes /\ n \in Nat /\ o \in Seq(Pieces)
  BY DEF LogInv, LogTypes, Devices
<1>2. p \in Pieces /\ p.kind \in {"prefix", "cut"} /\ p.call = n
  BY <1>1 DEF Piece, Prefix, Pieces
<1>3. /\ pc[t] = "file.prefix" /\ file = "open" /\ UNCHANGED <<file, msg, due>>
      /\ out'["file"] = o \o <<p>>
  BY <1>1 DEF FilePrefix, WritePrefix, PrefixAt, Written, LogTypes, Devices
<1>4. /\ pc'[t] \in {"idle", "file.body"}
      /\ \A u \in Threads : u # t => pc'[u] = pc[u] /\ pc[u] \in {"idle", "lock"}
  BY <1>1, <1>3, Alone DEF FilePrefix, WritePrefix, BodyAt, Leave, LogTypes
<1>5. /\ due \in Seq(Nat) /\ Copies(o, due)
      /\ Cardinality(Starts(o)) = Len(due) - 1 /\ due[Len(due)] = n
  BY <1>3 DEF CopyInv, Lags
<1> HIDE DEF n, o, p
<1>6. Cardinality(Starts(o \o <<p>>)) = Len(due) /\ Copies(o \o <<p>>, due)
  BY <1>1, <1>2, <1>5, StartCopies
<1>7. \A u \in Threads : ~Lags(u)'
  BY <1>4 DEF Lags
<1> QED
  BY <1>3, <1>5, <1>6, <1>7 DEF CopyInv

\* The line of the file ends.
LEMMA CopyFileBody ==
  ASSUME LogInv, CopyInv, NEW t \in Threads, FileBody(t)
  PROVE  CopyInv'
<1> DEFINE n == msg[t].n
           o == out["file"]
           b == o \o <<Body(n)>>
           e == b \o <<Eol(n)>>
<1>1. LogTypes /\ n \in Nat /\ o \in Seq(Pieces) /\ due \in Seq(Nat) /\ Copies(o, due)
  BY DEF LogInv, LogTypes, Devices, CopyInv
<1>2. /\ pc[t] = "file.body" /\ UNCHANGED <<file, msg, due>> /\ pc'[t] = "idle"
      /\ \A u \in Threads : u # t => pc'[u] = pc[u] /\ pc[u] \in {"idle", "lock"}
  BY <1>1, Alone DEF FileBody, Leave, LogTypes
<1>3. /\ Body(n) \in Pieces /\ Eol(n) \in Pieces
      /\ Body(n).kind \notin {"prefix", "cut"} /\ Eol(n).kind \notin {"prefix", "cut"}
  BY <1>1, PieceFacts
<1>4. b \in Seq(Pieces) /\ Starts(b) = Starts(o) /\ Copies(b, due)
  BY <1>1, <1>3, RestKeepsStarts, ConcatProperties
<1>5. Starts(e) = Starts(o) /\ Copies(e, due)
  BY <1>1, <1>3, <1>4, RestKeepsStarts
<1>6. out'["file"] = e
  <2>1. o \o (<<Body(n)>> \o <<Eol(n)>>) = e
    BY <1>1, <1>3, ConcatAssociative
  <2> QED
    BY <1>1, <2>1 DEF FileBody, SanitizedBody, Written, LogTypes, Devices
<1>7. Cardinality(Starts(o)) = Len(due)
  <2>1. file = "open" /\ \A u \in Threads : ~Lags(u)
    BY <1>2 DEF CopyInv, Lags
  <2> QED
    BY <2>1 DEF CopyInv
<1> HIDE DEF e, o
<1>8. \A u \in Threads : ~Lags(u)' /\ pc'[u] # "file.body"
  BY <1>2 DEF Lags
<1>9. file' \in {"none", "open", "bad"}
  BY <1>2 DEF CopyInv
<1> QED
  BY <1>1, <1>2, <1>5, <1>6, <1>7, <1>8, <1>9 DEF CopyInv

\* ... or fails, before or after it has begun.
LEMMA CopyFileFails ==
  ASSUME LogInv, CopyInv, NEW t \in Threads, FileFails(t)
  PROVE  CopyInv'
<1>1. /\ pc[t] \in {"file.prefix", "file.body"} /\ file = "open" /\ file' = "bad"
      /\ UNCHANGED <<out, due>> /\ pc'[t] = "idle"
      /\ \A u \in Threads : u # t => pc'[u] = pc[u] /\ pc[u] \in {"idle", "lock"}
  BY Alone DEF FileFails, Leave, LogInv, LogTypes
<1>2. \/ Cardinality(Starts(out["file"])) = Len(due)
      \/ Cardinality(Starts(out["file"])) = Len(due) - 1
  BY <1>1 DEF CopyInv
<1>3. \A u \in Threads : ~Lags(u)' /\ pc'[u] # "file.body"
  BY <1>1 DEF Lags
<1> QED
  BY <1>1, <1>2, <1>3 DEF CopyInv

\* Every step preserves it.
LEMMA CopyInvStep ==
  ASSUME LogInv, CopyInv, [Next]_vars
  PROVE  CopyInv'
<1>1. ASSUME NEW t \in Threads, LogStep(t) PROVE CopyInv'
  BY <1>1, CopyElsewhere, CopyStderrEnd, CopyFilePrefix, CopyFileBody, CopyFileFails DEF LogStep
<1> QED
  BY <1>1, CopyElsewhere DEF Next

-----------------------------------------------------------------------------
(* Theorems *)

\* No line of the log mixes two calls or is broken, on stderr and in the file,
\* whatever threads log, whenever setFileColumnWidth makes a call throw and
\* whatever setLogFile does in between.
THEOREM LinesCorrect == Spec => []WholeLines
<1>1. LogInv => WholeLines
  <2> SUFFICES ASSUME LogInv, NEW dev \in Devices
               PROVE  /\ Lines(out[dev])
                      /\ owner = NoThread /\ out[dev] # <<>> /\ (dev = "file" => file # "bad") =>
                           Last(out[dev]).kind \in {"eol", "cut"}
    BY DEF WholeLines, Lines, Devices
  <2>1. Lines(out[dev])
    BY DEF LogInv, LinesInv
  <2>2. ASSUME owner = NoThread, dev = "file" => file # "bad" PROVE Closed(out[dev])
    BY <2>2, FreeClosed DEF Free, Devices, Shut
  <2> QED
    BY <2>1, <2>2 DEF Closed, Last
<1> QED
  BY <1>1, LogInvInitially, LogInvStep, PTL DEF Spec

\* The lines of the file are those that stderr got while the file was open, in
\* the same order and none twice; at most the line of the call that holds the
\* mutex is still to come, or the last one is missing as its write failed.
THEOREM FileCorrect == Spec => []FileFollowsStderr
<1>1. Init => CopyInv
  <2> SUFFICES ASSUME Init PROVE CopyInv
    OBVIOUS
  <2>1. out["file"] = <<>> /\ due = <<>> /\ file = "none" /\ \A t \in Threads : pc[t] = "idle"
    BY DEF Init
  <2>2. Starts(out["file"]) = {}
    BY <2>1 DEF Starts
  <2>3. Cardinality(Starts(out["file"])) = 0
    BY <2>2, FS_EmptySet
  <2>4. <<>> \in Seq(Nat) /\ Len(<<>>) = 0
    OBVIOUS
  <2> QED
    BY <2>1, <2>2, <2>3, <2>4 DEF CopyInv, Copies, Lags
<1>2. LogInv /\ CopyInv => FileFollowsStderr
  <2> SUFFICES ASSUME LogInv, CopyInv
               PROVE  /\ Copies(out["file"], due)
                      /\ \/ Cardinality(Starts(out["file"])) = Len(due)
                         \/ /\ owner # NoThread \/ file = "bad"
                            /\ Cardinality(Starts(out["file"])) = Len(due) - 1
    BY DEF FileFollowsStderr, Copies, Starts, Rank
  <2>1. CASE \A t \in Threads : ~Lags(t)
    BY <2>1 DEF CopyInv
  <2>2. CASE \E t \in Threads : Lags(t)
    BY <2>2, ThreadsAssumption DEF CopyInv, Lags, LogInv, HoldInv
  <2> QED
    BY <2>1, <2>2
<1> QED
  BY <1>1, <1>2, LogInvInitially, LogInvStep, CopyInvStep, PTL DEF Spec
=============================================================================
