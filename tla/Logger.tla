------------------------------- MODULE Logger -------------------------------
(***************************************************************************)
(* The process-wide log of src/src/Logger.cpp: threads that call log() or  *)
(* log_s(), which write a line to stderr and then to the log file under    *)
(* s_log_mutex, and setLevel(), setLogFile() and setFileColumnWidth(), of  *)
(* which the last takes no lock.                                           *)
(*                                                                         *)
(* An output is a sequence of pieces; a line of a call is its prefix (time,*)
(* level, place), its message and an end of line.  format_file_column      *)
(* computes width - 2 unsigned, so a column narrower than two makes it     *)
(* throw: the prefix is cut and the call leaves with the exception.        *)
(***************************************************************************)
EXTENDS Integers, Sequences, SequencesExt

CONSTANTS
  Threads,     \* threads that log
  NoThread,    \* s_log_mutex is free
  Levels,      \* the LogLevels
  MaxCalls,    \* bound: calls that pass the level
  MaxSwitches  \* bound: calls of setLogFile

ASSUME ThreadsAssumption == NoThread \notin Threads
ASSUME BoundsAssumption == MaxCalls \in Nat /\ MaxSwitches \in Nat /\ Levels \subseteq Nat

VARIABLES
  level,    \* s_level
  owner,    \* who holds s_log_mutex
  file,     \* s_file_stream: "none", "open", or "bad" (is_open() and failed)
  narrow,   \* s_file_column_width < 2
  pc,       \* where each thread is
  msg,      \* the message of its call: its number, and whether it has a newline
  calls,    \* (bound) numbers the calls
  switches, \* (bound) calls of setLogFile
  out,      \* what was written to "stderr" and to the "file"
  due       \* (history) calls whose line stderr got while the file was open

vars == <<level, owner, file, narrow, pc, msg, calls, switches, out, due>>

-----------------------------------------------------------------------------
Piece(k, n) == [kind |-> k, call |-> n]
Prefix(n) == Piece("prefix", n)
Body(n) == Piece("body", n)
Eol(n) == Piece("eol", n)

\* print_sanitized: a newline is written as a backslash and an n, so a message
\* stays one piece.  (Faulty variant: as it is.)
UnsanitizedBody(m) ==
  IF m.newline THEN <<Body(m.n), Eol(m.n), Body(m.n)>> ELSE <<Body(m.n)>>
SanitizedBody(m) == <<Body(m.n)>>

Written(dev, pieces) == [out EXCEPT ![dev] = @ \o pieces]

Init ==
  /\ level \in Levels
  /\ owner = NoThread
  /\ file = "none"
  /\ narrow = FALSE
  /\ pc = [t \in Threads |-> "idle"]
  /\ msg = [t \in Threads |-> [n |-> 0, newline |-> FALSE]]
  /\ calls = 0
  /\ switches = 0
  /\ out = [dev \in {"stderr", "file"} |-> <<>>]
  /\ due = <<>>

-----------------------------------------------------------------------------
(* log() and log_s() *)

\* The level is compared before the mutex is taken; below it the call returns.
Call(t, l, newline) ==
  /\ pc[t] = "idle" /\ l >= level /\ calls < MaxCalls
  /\ calls' = calls + 1
  /\ msg' = [msg EXCEPT ![t] = [n |-> calls + 1, newline |-> newline]]
  /\ pc' = [pc EXCEPT ![t] = "lock"]
  /\ UNCHANGED <<level, owner, file, narrow, switches, out, due>>

\* lock_guard.  (Faulty variant: the mutex is not waited for.)
FreeIgnored == TRUE
Free == owner = NoThread
Lock(t) ==
  /\ pc[t] = "lock" /\ Free
  /\ owner' = t
  /\ pc' = [pc EXCEPT ![t] = "stderr.prefix"]
  /\ UNCHANGED <<level, file, narrow, msg, calls, switches, out, due>>

\* The end of a call, by return or by exception: lock_guard unlocks.  (Faulty
\* variant: an exception leaves the mutex locked.)
LeaveUnlocksOnReturn(t, thrown) ==
  /\ owner' = IF thrown THEN owner ELSE NoThread
  /\ pc' = [pc EXCEPT ![t] = "idle"]
Leave(t, thrown) ==
  /\ owner' = NoThread
  /\ pc' = [pc EXCEPT ![t] = "idle"]

PrefixAt == [stderr |-> "stderr.prefix", file |-> "file.prefix"]
BodyAt == [stderr |-> "stderr.body", file |-> "file.body"]

\* The prefix; when format_file_column throws, what precedes the column has
\* been written.
WritePrefix(t, dev) ==
  /\ pc[t] = PrefixAt[dev]
  /\ IF narrow
     THEN /\ out' = Written(dev, <<Piece("cut", msg[t].n)>>)
          /\ Leave(t, TRUE)
     ELSE /\ out' = Written(dev, <<Prefix(msg[t].n)>>)
          /\ pc' = [pc EXCEPT ![t] = BodyAt[dev]]
          /\ UNCHANGED owner
  /\ UNCHANGED <<level, file, narrow, msg, calls, switches, due>>

\* The rest of the line on stderr, then is_open(): a stream that is open but
\* failed takes what is written to it and drops it.  (Faulty variant: the mutex
\* is released before the file is written.)
ToFileUnlocked(t) ==
  IF file = "none" THEN Leave(t, FALSE)
  ELSE pc' = [pc EXCEPT ![t] = "file.prefix"] /\ owner' = NoThread
ToFile(t) ==
  IF file = "none" THEN Leave(t, FALSE)
  ELSE pc' = [pc EXCEPT ![t] = "file.prefix"] /\ UNCHANGED owner
StderrBody(t) ==
  /\ pc[t] = "stderr.body"
  /\ out' = Written("stderr", SanitizedBody(msg[t]))
  /\ pc' = [pc EXCEPT ![t] = "stderr.end"]
  /\ UNCHANGED <<level, owner, file, narrow, msg, calls, switches, due>>
StderrEnd(t) ==
  /\ pc[t] = "stderr.end"
  /\ out' = Written("stderr", <<Eol(msg[t].n)>>)
  /\ due' = IF file = "open" THEN Append(due, msg[t].n) ELSE due
  /\ ToFile(t)
  /\ UNCHANGED <<level, file, narrow, msg, calls, switches>>

\* The line of the file, on a stream in good order and on a failed one.
FilePrefix(t) == file = "open" /\ WritePrefix(t, "file")
FileBody(t) ==
  /\ pc[t] = "file.body"
  /\ out' = Written("file", SanitizedBody(msg[t]) \o <<Eol(msg[t].n)>>)
  /\ Leave(t, FALSE)
  /\ UNCHANGED <<level, file, narrow, msg, calls, switches, due>>
FileDropped(t) ==
  /\ pc[t] = "file.prefix" /\ file = "bad"
  /\ Leave(t, narrow)
  /\ UNCHANGED <<level, file, narrow, msg, calls, switches, out, due>>

\* A write to the file fails (a full disk): the stream is bad for good, and
\* drops what is left of the line.
FileFails(t) ==
  /\ pc[t] \in {"file.prefix", "file.body"} /\ file = "open"
  /\ file' = "bad"
  /\ Leave(t, pc[t] = "file.prefix" /\ narrow)
  /\ UNCHANGED <<level, narrow, msg, calls, switches, out, due>>

LogStep(t) ==
  \/ Lock(t)
  \/ WritePrefix(t, "stderr")
  \/ StderrBody(t)
  \/ StderrEnd(t)
  \/ FilePrefix(t)
  \/ FileBody(t)
  \/ FileDropped(t)
  \/ FileFails(t)

-----------------------------------------------------------------------------
(* The settings *)

SetLevel(l) ==
  /\ Free /\ l # level
  /\ level' = l
  /\ UNCHANGED <<owner, file, narrow, pc, msg, calls, switches, out, due>>

\* setLogFile, when the directory is there or can be made: open() sets failbit
\* when the file cannot be opened or the stream has one open already.
SetLogFile(openable) ==
  /\ Free /\ switches < MaxSwitches
  /\ switches' = switches + 1
  /\ file' = IF file # "none" THEN "bad" ELSE IF openable THEN "open" ELSE "none"
  /\ UNCHANGED <<level, owner, narrow, pc, msg, calls, out, due>>

\* ... and when create_directories throws: a warning, and the stream is kept.
SetLogFileWarns ==
  /\ Free /\ switches < MaxSwitches
  /\ switches' = switches + 1
  /\ out' = Written("stderr", <<Piece("warning", 0), Eol(0)>>)
  /\ UNCHANGED <<level, owner, file, narrow, pc, msg, calls, due>>

\* setFileColumnWidth takes no lock.
SetFileColumnWidth(n) ==
  /\ narrow # n
  /\ narrow' = n
  /\ UNCHANGED <<level, owner, file, pc, msg, calls, switches, out, due>>

Next ==
  \/ \E t \in Threads, l \in Levels, newline \in BOOLEAN : Call(t, l, newline)
  \/ \E t \in Threads : LogStep(t)
  \/ \E l \in Levels : SetLevel(l)
  \/ \E openable \in BOOLEAN : SetLogFile(openable)
  \/ SetLogFileWarns
  \/ \E n \in BOOLEAN : SetFileColumnWidth(n)

Spec == Init /\ [][Next]_vars

\* Threads run, and the mutex is not withheld from one for ever.
FairSpec == Spec /\ \A t \in Threads : SF_vars(LogStep(t))

-----------------------------------------------------------------------------
(* Properties *)

\* No line mixes two calls or is broken by a newline of its message, on stderr
\* and in the file: a prefix is followed by the message and the end of line of
\* the same call, and each of those has its prefix; only the prefix of a call
\* that threw stands alone.  With the mutex free no line is unfinished but the
\* last one of a file that failed.
WholeLines ==
  \A dev \in {"stderr", "file"} :
    LET o == out[dev]
        Follows(i, p) == i = Len(o) \/ o[i + 1] = p
        Preceded(i, ps) == i > 1 /\ o[i - 1] \in ps
    IN  /\ \A i \in DOMAIN o :
             /\ o[i].kind = "prefix" => Follows(i, Body(o[i].call))
             /\ o[i].kind = "body" => /\ Preceded(i, {Prefix(o[i].call)})
                                      /\ Follows(i, Eol(o[i].call))
             /\ o[i].kind = "eol" => Preceded(i, {Body(o[i].call), Piece("warning", 0)})
        /\ owner = NoThread /\ o # <<>> /\ (dev = "file" => file # "bad") =>
             Last(o).kind \in {"eol", "cut"}

\* The file is a copy of what stderr gets from the first setLogFile that opens
\* it: every call, in stderr's order and none twice, until setLogFile is called
\* again or a write fails, after which the file gets nothing.  At most the call
\* in progress, or the one whose write failed, is missing.
FileFollowsStderr ==
  LET o == out["file"]
      starts == {i \in DOMAIN o : o[i].kind \in {"prefix", "cut"}}
      Nth(i) == Cardinality({k \in starts : k <= i})
  IN  /\ \A i \in starts : Nth(i) <= Len(due) /\ o[i].call = due[Nth(i)]
      /\ \/ Cardinality(starts) = Len(due)
         \/ /\ owner # NoThread \/ file = "bad"
            /\ Cardinality(starts) = Len(due) - 1

\* A call that logs returns or throws, also when another call has thrown while
\* it held the mutex.
CallReturns == \A t \in Threads : pc[t] # "idle" ~> pc[t] = "idle"
=============================================================================
