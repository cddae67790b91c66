--------------------------- MODULE FramingProofs ---------------------------
(***************************************************************************)
(* Proofs about framing, for headers and payloads of any length and any    *)
(* number of frames and pushes: whatever way a stream is cut into reads,   *)
(* the frames served are the client's, and no unit is used twice.          *)
(***************************************************************************)
EXTENDS Framing, SequenceTheorems, TLAPS

\* The frames a client writes on a stream, and the frames handed over.
Row == [at : Nat, len : 0..MaxPayload, head : BOOLEAN, body : BOOLEAN]
Served == [at : Nat, len : Int, ok : BOOLEAN]

InTypes ==
  /\ mode \in {"BINARY", "TEXT", "UDP"}
  /\ off \in Nat /\ begin \in Nat /\ left \in Nat
  /\ stage \in {"header", "payload", "serving", "event", "replying", "closed"}
  /\ delivered \in Seq(Served)
  /\ mode # "UDP" => frames \in Seq(Row)
  /\ mode = "UDP" => stage # "payload"

\* Where frame k of a stream ends.
Boundary(k) == IF k = 0 THEN 0 ELSE End(frames[k])

\* The frames of a stream are one row without gaps.
RowInv ==
  /\ \A k \in DOMAIN frames : frames[k].at = Boundary(k - 1)
  /\ \A i, k \in DOMAIN frames : i < k => End(frames[i]) <= frames[k].at
  /\ mode = "TEXT" => \A k \in DOMAIN frames : frames[k].len = 1 /\ frames[k].at = 2 * (k - 1)

\* Where the reader is, as long as no header has been refused: at the beginning
\* of the first frame it has not handed over, inside it, or at the end of the
\* last one it has.
Good == \A k \in DOMAIN delivered : delivered[k].ok
PositionInv ==
  /\ stage = "header" => left >= 1 /\ off + left = begin + Header
  /\ stage = "payload" => left >= 1
  /\ Good =>
       /\ Len(delivered) <= Len(frames)
       /\ stage = "header" => begin = Boundary(Len(delivered))
       /\ stage = "payload" =>
            /\ Len(delivered) < Len(frames)
            /\ begin = frames[Len(delivered) + 1].at
            /\ off + left = End(frames[Len(delivered) + 1])
       /\ stage \in {"serving", "replying", "event"} => off = Boundary(Len(delivered))

StreamInv == mode # "UDP" => RowInv /\ PositionInv

\* The end of what a served frame has used; a new frame begins after the last.
Used(d) == d.at + (IF mode = "TEXT" /\ ~d.ok THEN 1 ELSE Header + d.len)
TurnInv ==
  mode # "UDP" /\ stage \in {"header", "payload"} /\ delivered # <<>> =>
    Used(delivered[Len(delivered)]) <= begin

\* What is being written: whole messages, in the format that is meant, and the
\* reply to the last frame only.
Msgs == [kind : {"reply", "event", "push"}, n : Nat, text : BOOLEAN, broken : BOOLEAN,
         head : {"header", "garbage"}]
Meant(msg) ==
  /\ msg.broken => mode = "TEXT"
  /\ msg.text <=> msg.kind # "push" /\ mode = "TEXT"
FlightInv ==
  /\ pushes \in Nat
  /\ \A w \in flight : \E msg \in Msgs : w = [msg |-> msg, bufs |-> Buffers(msg)] /\ Meant(msg)
  /\ \A w \in flight : w.msg.kind = "reply" => stage = "replying" /\ w.msg.n = Len(delivered)
  /\ \A v, w \in flight : v.msg.kind = "reply" /\ w.msg.kind = "reply" => v = w

ReadInv == InTypes /\ StreamInv /\ TurnInv /\ FramesFaithful /\ UnitsOnce
FrameInv == ReadInv /\ FlightInv

-----------------------------------------------------------------------------
(* Lemmas *)

LEMMA Sizes ==
  ASSUME InTypes
  PROVE  /\ Header \in Nat \ {0} /\ (mode = "TEXT" => Header = 1)
         /\ Len(delivered) \in Nat /\ DOMAIN delivered = 1..Len(delivered)
         /\ \A k \in DOMAIN delivered :
              delivered[k].at \in Nat /\ delivered[k].len \in Int /\ delivered[k].ok \in BOOLEAN
         /\ mode # "UDP" =>
              /\ Len(frames) \in Nat /\ DOMAIN frames = 1..Len(frames)
              /\ \A k \in DOMAIN frames : frames[k].at \in Nat /\ frames[k].len \in Nat
<1>1. Header \in Nat \ {0} /\ (mode = "TEXT" => Header = 1)
  BY FramingAssumption DEF Header
<1>2. /\ Len(delivered) \in Nat /\ DOMAIN delivered = 1..Len(delivered)
      /\ \A k \in DOMAIN delivered : delivered[k] \in Served
  BY LenProperties DEF InTypes
<1>3. ASSUME mode # "UDP"
      PROVE  /\ Len(frames) \in Nat /\ DOMAIN frames = 1..Len(frames)
             /\ \A k \in DOMAIN frames : frames[k] \in Row
  BY <1>3, LenProperties DEF InTypes
<1>4. \A r \in Row : r.at \in Nat /\ r.len \in Nat
  BY FramingAssumption DEF Row
<1> QED
  BY <1>1, <1>2, <1>3, <1>4 DEF Served

\* A frame of a stream has units.
LEMMA FrameEnds ==
  ASSUME InTypes, mode # "UDP"
  PROVE  \A k \in DOMAIN frames : End(frames[k]) > frames[k].at /\ End(frames[k]) \in Nat
<1>1. \A a, h, len \in Nat : h # 0 => a + h + len > a /\ a + h + len \in Nat
  OBVIOUS
<1>2. /\ Header \in Nat /\ Header # 0
      /\ \A k \in DOMAIN frames : frames[k].at \in Nat /\ frames[k].len \in Nat
  BY Sizes
<1> QED
  BY <1>1, <1>2 DEF End

\* A frame is handed over: delivered grows by d.
LEMMA Handed ==
  ASSUME InTypes, NEW d \in Served, delivered' = Append(delivered, d)
  PROVE  /\ delivered' \in Seq(Served) /\ Len(delivered') = Len(delivered) + 1
         /\ DOMAIN delivered' = 1..(Len(delivered) + 1)
         /\ \A k \in 1..Len(delivered) : delivered'[k] = delivered[k]
         /\ delivered'[Len(delivered) + 1] = d
         /\ Good' <=> Good /\ d.ok
<1>1. /\ delivered' \in Seq(Served) /\ Len(delivered') = Len(delivered) + 1
      /\ \A k \in 1..Len(delivered) : delivered'[k] = delivered[k]
      /\ delivered'[Len(delivered) + 1] = d
  BY AppendProperties DEF InTypes
<1>2. /\ DOMAIN delivered' = 1..(Len(delivered) + 1)
      /\ DOMAIN delivered = 1..Len(delivered) /\ Len(delivered) \in Nat
  BY <1>1, LenProperties DEF InTypes
<1>3. \A k \in 1..(Len(delivered) + 1) : k \in 1..Len(delivered) \/ k = Len(delivered) + 1
  BY <1>2
<1>4. Good' => Good /\ d.ok
  <2>1. \A k \in 1..Len(delivered) : k \in 1..(Len(delivered) + 1)
    BY <1>2
  <2>2. Len(delivered) + 1 \in 1..(Len(delivered) + 1)
    BY <1>2
  <2> QED
    BY <1>1, <1>2, <2>1, <2>2 DEF Good
<1>5. Good /\ d.ok => Good'
  BY <1>1, <1>2, <1>3 DEF Good
<1> QED
  BY <1>1, <1>2, <1>4, <1>5

\* It is faithful when it is the client's next frame.
LEMMA HandedFaithful ==
  ASSUME InTypes, FramesFaithful, UNCHANGED <<mode, frames>>,
         NEW d \in Served, delivered' = Append(delivered, d),
         mode # "UDP" /\ Good /\ d.ok =>
           /\ Len(delivered) + 1 <= Len(frames)
           /\ d.at = frames[Len(delivered) + 1].at /\ d.len = frames[Len(delivered) + 1].len
  PROVE  FramesFaithful'
<1> SUFFICES ASSUME mode # "UDP", NEW k \in DOMAIN delivered',
                    \A j \in 1..k : delivered'[j].ok
             PROVE  /\ k <= Len(frames)
                    /\ delivered'[k].at = frames[k].at /\ delivered'[k].len = frames[k].len
  BY DEF FramesFaithful
<1>0. /\ DOMAIN delivered' = 1..(Len(delivered) + 1)
      /\ \A j \in 1..Len(delivered) : delivered'[j] = delivered[j]
      /\ delivered'[Len(delivered) + 1] = d
  BY Handed
<1>1. Len(delivered) \in Nat /\ DOMAIN delivered = 1..Len(delivered)
  BY Sizes
<1>2. CASE k \in 1..Len(delivered)
  <2>1. \A j \in 1..k : j \in 1..Len(delivered)
    BY <1>1, <1>2
  <2>2. \A j \in 1..k : delivered[j].ok
    BY <1>0, <2>1
  <2> QED
    BY <1>0, <1>1, <1>2, <2>2 DEF FramesFaithful
<1>3. CASE k = Len(delivered) + 1
  <2>1. \A j \in 1..Len(delivered) : j \in 1..k
    BY <1>1, <1>3
  <2>2. k \in 1..k
    BY <1>1, <1>3
  <2>3. Good /\ d.ok
    BY <1>0, <1>1, <1>3, <2>1, <2>2 DEF Good
  <2> QED
    BY <1>0, <1>3, <2>3
<1> QED
  BY <1>0, <1>1, <1>2, <1>3

\* It uses what no earlier frame has used.
LEMMA HandedOnce ==
  ASSUME InTypes, UnitsOnce, UNCHANGED mode,
         NEW d \in Served, delivered' = Append(delivered, d), Used(d) <= off',
         delivered # <<>> => Used(delivered[Len(delivered)]) <= d.at
  PROVE  UnitsOnce'
<1> DEFINE m == Len(delivered)
<1>1. m \in Nat /\ DOMAIN delivered = 1..m /\ (m # 0 => delivered # <<>>)
  BY Sizes
<1>2. /\ DOMAIN delivered' = 1..(m + 1) /\ Len(delivered') = m + 1
      /\ \A j \in 1..m : delivered'[j] = delivered[j]
      /\ delivered'[m + 1] = d
  BY Handed
<1>3. \A k \in 1..m : Used(delivered[k]) <= IF k = m THEN off ELSE delivered[k + 1].at
  BY <1>1 DEF UnitsOnce, Used
<1>4. delivered # <<>> => Used(delivered[m]) <= d.at
  OBVIOUS
<1> HIDE DEF m
<1> SUFFICES ASSUME NEW k \in 1..(m + 1)
             PROVE  Used(delivered'[k]) <= IF k = m + 1 THEN off' ELSE delivered'[k + 1].at
  BY <1>2 DEF UnitsOnce, Used, Header
<1>5. CASE k = m + 1
  BY <1>2, <1>5
<1>6. CASE k = m
  <2>1. k \in 1..m /\ k # m + 1 /\ delivered # <<>>
    BY <1>1, <1>6
  <2> QED
    BY <1>2, <1>4, <1>6, <2>1
<1>7. CASE k \in 1..(m - 1)
  <2>1. k \in 1..m /\ k + 1 \in 1..m /\ k # m /\ k # m + 1
    BY <1>1, <1>7
  <2> QED
    BY <1>2, <1>3, <2>1
<1>8. k = m + 1 \/ k = m \/ k \in 1..(m - 1)
  BY <1>1
<1> QED
  BY <1>5, <1>6, <1>7, <1>8

-----------------------------------------------------------------------------
(* The steps *)

\* The coroutine moves between serving and writing, ends, or stays where it is.
LEMMA StageMoves ==
  ASSUME ReadInv, UNCHANGED <<mode, frames, off, begin, left, delivered>>,
         \/ stage' = stage \/ stage' = "closed"
         \/ {stage, stage'} \subseteq {"serving", "event", "replying"}
  PROVE  ReadInv'
<1> USE DEF ReadInv
<1>1. InTypes'
  BY DEF InTypes
<1>2. StreamInv'
  BY DEF StreamInv, RowInv, PositionInv, Boundary, End, Header, Good
<1>3. TurnInv'
  BY DEF TurnInv, Used, Header
<1>4. FramesFaithful'
  BY DEF FramesFaithful
<1>5. UnitsOnce'
  BY DEF UnitsOnce, Header
<1> QED
  BY <1>1, <1>2, <1>3, <1>4, <1>5

\* The coroutine goes back to the next header.
LEMMA BackToHeader ==
  ASSUME ReadInv, Reading, stage \in {"serving", "event", "replying"}
  PROVE  ReadInv'
<1> USE DEF ReadInv, Reading
<1>0. Header \in Nat \ {0} /\ Len(delivered) \in Nat /\ DOMAIN delivered = 1..Len(delivered)
      /\ off \in Nat /\ (delivered # <<>> => Len(delivered) \in DOMAIN delivered)
  BY Sizes, EmptySeq DEF InTypes
<1>1. InTypes'
  BY <1>0 DEF InTypes
<1>2. StreamInv'
  BY <1>0 DEF StreamInv, RowInv, PositionInv, Boundary, End, Header, Good
<1>3. TurnInv'
  BY <1>0 DEF TurnInv, UnitsOnce, Used, Header
<1>4. FramesFaithful'
  BY DEF FramesFaithful
<1>5. UnitsOnce'
  BY DEF UnitsOnce, Header
<1> QED
  BY <1>1, <1>2, <1>3, <1>4, <1>5

\* The client appends a frame to its row.
LEMMA StepWriteFrame ==
  ASSUME ReadInv, NEW len \in 0..MaxPayload, NEW h \in BOOLEAN, NEW b \in BOOLEAN,
         WriteFrame(len, h, b)
  PROVE  ReadInv'
<1> USE DEF ReadInv
<1> DEFINE f == [at |-> Written, len |-> len, head |-> h, body |-> b]
           l == Len(frames)
           m == Len(delivered)
<1>1. /\ mode # "UDP" /\ frames' = Append(frames, f) /\ (mode = "TEXT" => len = 1)
      /\ UNCHANGED <<mode, off, stage, begin, left, delivered>>
  BY DEF WriteFrame
<1>2. /\ l \in Nat /\ DOMAIN frames = 1..l /\ Header \in Nat \ {0} /\ len \in Nat
      /\ \A k \in 1..l : frames[k].at \in Nat /\ frames[k].len \in Nat
      /\ (mode = "TEXT" => Header = 1) /\ m \in Nat /\ DOMAIN delivered = 1..m
      /\ frames \in Seq(Row) /\ (l = 0 <=> frames = <<>>)
  BY <1>1, Sizes, FramingAssumption, EmptySeq DEF InTypes
<1>3. Written = Boundary(l) /\ Written \in Nat
  BY <1>2 DEF Written, Boundary, End
<1>4. f \in Row
  BY <1>3 DEF Row
<1>5. /\ frames' \in Seq(Row) /\ Len(frames') = l + 1 /\ DOMAIN frames' = 1..(l + 1)
      /\ \A k \in 1..l : frames'[k] = frames[k]
      /\ frames'[l + 1] = f
  BY <1>1, <1>2, <1>4, AppendProperties, LenProperties
<1>6. f.at = Written /\ f.len = len
  OBVIOUS
<1>7. RowInv /\ PositionInv
  BY <1>1 DEF StreamInv
<1> HIDE DEF f, l, m
<1>8. Header' = Header /\ \A k \in 1..l : End(frames[k])' = End(frames[k])
  BY <1>1, <1>5 DEF Header, End
<1>9. \A k \in 0..l : Boundary(k)' = Boundary(k)
  BY <1>2, <1>8 DEF Boundary
<1>10. RowInv'
  <2>1. \A k \in 1..(l + 1) : frames'[k].at = Boundary(k - 1)'
    <3> SUFFICES ASSUME NEW k \in 1..(l + 1) PROVE frames'[k].at = Boundary(k - 1)'
      OBVIOUS
    <3>1. CASE k = l + 1
      BY <1>2, <1>3, <1>5, <1>6, <1>9, <3>1
    <3>2. CASE k \in 1..l
      BY <1>2, <1>5, <1>7, <1>9, <3>2 DEF RowInv
    <3> QED
      BY <1>2, <3>1, <3>2
  <2>2. \A i, k \in 1..(l + 1) : i < k => End(frames[i])' <= frames'[k].at
    <3> SUFFICES ASSUME NEW i \in 1..(l + 1), NEW k \in 1..(l + 1), i < k
                 PROVE  End(frames[i])' <= frames'[k].at
      OBVIOUS
    <3>0. i \in 1..l
      BY <1>2
    <3>1. CASE k \in 1..l
      BY <1>2, <1>5, <1>7, <1>8, <3>0, <3>1 DEF RowInv
    <3>2. CASE k = l + 1 /\ i = l
      BY <1>2, <1>3, <1>5, <1>6, <1>8, <3>0, <3>2 DEF Boundary, End
    <3>3. CASE k = l + 1 /\ i # l
      <4>0. l \in 1..l /\ i < l
        BY <1>2, <3>0, <3>3
      <4>1. End(frames[i]) <= frames[l].at
        BY <1>2, <1>7, <3>0, <4>0 DEF RowInv
      <4>2. End(frames[l]) = Written /\ End(frames[i]) \in Nat /\ End(frames[l]) \in Nat
        BY <1>2, <1>3, <3>0, <4>0 DEF Boundary, End
      <4>3. frames[l].at <= End(frames[l])
        BY <1>2, <4>0 DEF End
      <4> QED
        BY <1>2, <1>3, <1>5, <1>6, <1>8, <3>0, <3>3, <4>0, <4>1, <4>2, <4>3
    <3> QED
      BY <1>2, <3>1, <3>2, <3>3
  <2>3. mode = "TEXT" => \A k \in 1..(l + 1) : frames'[k].len = 1 /\ frames'[k].at = 2 * (k - 1)
    <3> SUFFICES ASSUME mode = "TEXT", NEW k \in 1..(l + 1)
                 PROVE  frames'[k].len = 1 /\ frames'[k].at = 2 * (k - 1)
      OBVIOUS
    <3>1. CASE k \in 1..l
      BY <1>2, <1>5, <1>7, <3>1 DEF RowInv
    <3>2. CASE k = l + 1 /\ l = 0
      BY <1>1, <1>2, <1>3, <1>5, <1>6, <3>2 DEF Boundary
    <3>3. CASE k = l + 1 /\ l # 0
      <4>1. l \in 1..l /\ frames[l].len = 1 /\ frames[l].at = 2 * (l - 1)
        BY <1>2, <1>7, <3>3 DEF RowInv
      <4> QED
        BY <1>1, <1>2, <1>3, <1>5, <1>6, <3>3, <4>1 DEF Boundary, End
    <3> QED
      BY <1>2, <3>1, <3>2, <3>3
  <2> QED
    BY <1>1, <1>5, <2>1, <2>2, <2>3 DEF RowInv
<1>11. PositionInv'
  <2>1. Good' = Good /\ Len(delivered)' = m
    BY <1>1 DEF Good, m
  <2>2. m <= l => m \in 0..l /\ m <= l + 1
    BY <1>2
  <2>3. m < l => m + 1 \in 1..l /\ m < l + 1
    BY <1>2
  <2> QED
    BY <1>1, <1>5, <1>7, <1>8, <1>9, <2>1, <2>2, <2>3 DEF PositionInv, l, m
<1>12. FramesFaithful'
  BY <1>1, <1>2, <1>5 DEF FramesFaithful, l
<1>13. InTypes' /\ TurnInv' /\ UnitsOnce'
  BY <1>1, <1>5 DEF InTypes, TurnInv, UnitsOnce, Used, Header
<1> QED
  BY <1>10, <1>11, <1>12, <1>13 DEF StreamInv

\* Taking units off the socket disturbs no frame that has been handed over.
LEMMA OffGrows ==
  ASSUME ReadInv, UNCHANGED <<mode, delivered>>, NEW n \in Nat, off' = off + n
  PROVE  UnitsOnce'
<1>1. off \in Nat /\ \A k \in DOMAIN delivered : Used(delivered[k]) \in Int
  BY Sizes DEF ReadInv, InTypes, Used
<1>2. \A x \in Int : x <= off => x <= off'
  BY <1>1
<1>3. \A k \in DOMAIN delivered :
        Used(delivered[k]) <= IF k = Len(delivered) THEN off ELSE delivered[k + 1].at
  BY DEF ReadInv, UnitsOnce, Used
<1>4. \A k \in DOMAIN delivered :
        Used(delivered[k]) <= IF k = Len(delivered) THEN off' ELSE delivered[k + 1].at
  BY <1>1, <1>2, <1>3
<1> QED
  BY <1>4 DEF UnitsOnce, Used, Header

\* A read of a header: the rest is still to come, or the header says what
\* follows.
LEMMA StepReadHeader ==
  ASSUME ReadInv, NEW n \in Nat \ {0}, ReadHeader(n)
  PROVE  ReadInv'
<1> USE DEF ReadInv
<1> DEFINE l == Len(frames)
           m == Len(delivered)
<1>1. /\ mode # "UDP" /\ stage = "header" /\ n <= left /\ off + n <= Written /\ off' = off + n
      /\ UNCHANGED <<mode, frames, begin>>
  BY DEF ReadHeader, Arrive
<1>2. /\ l \in Nat /\ DOMAIN frames = 1..l /\ Header \in Nat \ {0}
      /\ \A k \in 1..l : frames[k].at \in Nat /\ frames[k].len \in Nat
      /\ (mode = "TEXT" => Header = 1) /\ m \in Nat /\ DOMAIN delivered = 1..m
      /\ (l = 0 <=> frames = <<>>)
      /\ off \in Nat /\ begin \in Nat /\ left \in Nat /\ frames \in Seq(Row)
  BY <1>1, Sizes, EmptySeq DEF InTypes
<1>3. RowInv /\ PositionInv /\ left >= 1 /\ off + left = begin + Header
  BY <1>1 DEF StreamInv, PositionInv
<1>4. Written = Boundary(l) /\ Written \in Nat
  BY <1>2 DEF Written, Boundary, End
<1>5. RowInv' /\ Header' = Header /\ \A k \in 0..l : Boundary(k)' = Boundary(k)
  BY <1>1, <1>3 DEF RowInv, Boundary, End, Header
<1>6. m # 0 => Used(delivered[m]) <= begin
  BY <1>1, <1>2, EmptySeq DEF TurnInv
<1> HIDE DEF l, m
<1>7. CASE Remaining(n) > 0
  <2>1. left' = left - n /\ left' \in Nat /\ left' >= 1 /\ UNCHANGED <<stage, delivered>>
    BY <1>1, <1>2, <1>7 DEF ReadHeader, Remaining
  <2>2. PositionInv'
    BY <1>1, <1>2, <1>3, <1>5, <2>1 DEF PositionInv, Good
  <2>3. InTypes' /\ TurnInv' /\ FramesFaithful'
    BY <1>1, <1>2, <2>1 DEF InTypes, TurnInv, FramesFaithful, Used, Header
  <2>4. UnitsOnce'
    BY <1>1, <2>1, OffGrows
  <2> QED
    BY <1>5, <2>2, <2>3, <2>4 DEF StreamInv
<1>8. CASE ~(Remaining(n) > 0)
  <2>1. n = left /\ off' = begin + Header
    <3>1. left - n <= 0
      BY <1>2, <1>8 DEF Remaining
    <3>2. n = left
      BY <1>1, <1>2, <3>1
    <3> QED
      BY <1>1, <1>3, <3>2
  <2>2. PICK len \in Says(begin) :
          IF len > 0
          THEN stage' = "payload" /\ left' = len /\ UNCHANGED delivered
          ELSE Deliver(0, len = 0)
    BY <1>8 DEF ReadHeader
  <2>3. ASSUME Good
        PROVE  /\ m < l /\ m + 1 \in 1..l /\ begin = frames[m + 1].at
               /\ mode = "BINARY" => len = frames[m + 1].len
               /\ mode = "TEXT" => frames[m + 1].len = 1
    <3>1. m <= l /\ begin = Boundary(m)
      BY <1>1, <1>3, <2>3 DEF PositionInv, l, m
    <3>2. m # l
      <4>1. begin < Written
        BY <1>1, <1>2, <1>4, <2>1
      <4> QED
        BY <1>2, <1>4, <3>1, <4>1
    <3>3. m < l /\ m + 1 \in 1..l /\ (m + 1) - 1 = m
      BY <1>2, <3>1, <3>2
    <3>4. begin = frames[m + 1].at
      BY <1>2, <1>3, <3>1, <3>3 DEF RowInv
    <3>5. \A k \in 1..l : frames[k].at = begin => k = m + 1
      <4> SUFFICES ASSUME NEW k \in 1..l, frames[k].at = begin, k # m + 1 PROVE FALSE
        OBVIOUS
      <4>1. \A i \in 1..l : End(frames[i]) > frames[i].at /\ End(frames[i]) \in Nat
        BY <1>1, <1>2, FrameEnds
      <4>2. k < m + 1 \/ m + 1 < k
        BY <1>2
      <4>3. End(frames[k]) <= frames[m + 1].at \/ End(frames[m + 1]) <= frames[k].at
        BY <1>2, <1>3, <3>3, <4>2 DEF RowInv
      <4> QED
        BY <1>2, <3>3, <3>4, <4>1, <4>3
    <3>6. mode = "BINARY" => len = frames[m + 1].len
      BY <1>2, <2>2, <3>3, <3>4, <3>5 DEF Says
    <3> QED
      BY <1>2, <1>3, <3>3, <3>4, <3>6 DEF RowInv
  <2>4. mode = "TEXT" => len \in {1, -1}
    BY <2>2 DEF Says
  <2>5. mode = "BINARY" => len \in Nat
    BY <1>2, <2>2, FramingAssumption DEF Says
  <2>6. len \in Int /\ mode \in {"TEXT", "BINARY"}
    BY <1>1, <2>4, <2>5 DEF InTypes
  <2>7. CASE len > 0
    <3>1. stage' = "payload" /\ left' = len /\ UNCHANGED delivered
      BY <2>2, <2>7
    <3>2. PositionInv'
      <4>1. Good' = Good
        BY <3>1 DEF Good
      <4>2. Good => off' + left' = End(frames[m + 1])
        <5>1. Good => len = frames[m + 1].len
          BY <2>3, <2>4, <2>6, <2>7
        <5> QED
          BY <1>2, <2>1, <2>3, <3>1, <5>1 DEF End
      <4>3. left' >= 1
        BY <2>6, <2>7, <3>1
      <4>4. Good => m <= l
        BY <1>2, <2>3
      <4> QED
        BY <1>1, <1>5, <2>3, <3>1, <4>1, <4>2, <4>3, <4>4 DEF PositionInv, End, l, m
    <3>3. InTypes'
      BY <1>1, <1>2, <2>6, <2>7, <3>1 DEF InTypes
    <3>4. TurnInv' /\ FramesFaithful'
      BY <1>1, <3>1 DEF TurnInv, FramesFaithful, Used, Header
    <3> QED
      BY <1>1, <1>5, <3>1, <3>2, <3>3, <3>4, OffGrows DEF StreamInv
  <2>8. CASE ~(len > 0)
    <3> DEFINE d == [at |-> begin, len |-> 0, ok |-> (len = 0)]
    <3>1. delivered' = Append(delivered, d) /\ stage' = "serving" /\ UNCHANGED left
      BY <2>2, <2>8 DEF Deliver
    <3>2. d \in Served /\ d.at = begin /\ d.len = 0 /\ (d.ok <=> len = 0)
      <4>1. (len = 0) \in BOOLEAN /\ 0 \in Int
        OBVIOUS
      <4>2. d \in Served
        BY <1>2, <4>1, Zenon DEF Served
      <4> QED
        BY <4>2
    <3> HIDE DEF d
    <3>3. /\ delivered' \in Seq(Served) /\ Len(delivered') = m + 1
          /\ Good' <=> Good /\ d.ok
      BY <3>1, <3>2, Handed DEF m
    <3>4. Good /\ d.ok => m + 1 <= l /\ frames[m + 1].len = 0 /\ mode = "BINARY"
      BY <1>2, <2>3, <2>4, <2>6, <3>2
    <3>5. FramesFaithful'
      BY <1>1, <2>3, <3>1, <3>2, <3>4, HandedFaithful DEF l, m
    <3>6. UnitsOnce'
      <4>1. Used(d) <= off'
        BY <1>2, <2>1, <2>4, <2>5, <2>6, <3>2, <3>4 DEF Used
      <4>2. delivered # <<>> => Used(delivered[m]) <= d.at
        BY <1>2, <1>6, <3>2, EmptySeq
      <4> QED
        BY <1>1, <3>1, <3>2, <4>1, <4>2, HandedOnce DEF m
    <3>7. InTypes' /\ TurnInv'
      BY <1>1, <1>2, <3>1, <3>3 DEF InTypes, TurnInv
    <3>8. PositionInv'
      <4>1. Good' => off' = frames[m + 1].at + Header + frames[m + 1].len
        BY <1>2, <2>1, <2>3, <3>2, <3>3, <3>4
      <4>2. m + 1 # 0
        BY <1>2
      <4>3. Good' => off' = Boundary(Len(delivered))'
        BY <1>1, <1>5, <3>3, <4>1, <4>2 DEF Boundary, End
      <4> QED
        BY <1>1, <3>1, <3>3, <3>4, <4>3 DEF PositionInv, l, m
    <3> QED
      BY <1>5, <3>5, <3>6, <3>7, <3>8 DEF StreamInv
  <2> QED
    BY <2>7, <2>8
<1> QED
  BY <1>7, <1>8

\* A read of a payload.
LEMMA StepReadPayload ==
  ASSUME ReadInv, NEW n \in Nat \ {0}, ReadPayload(n)
  PROVE  ReadInv'
<1> USE DEF ReadInv
<1> DEFINE l == Len(frames)
           m == Len(delivered)
<1>1. /\ stage = "payload" /\ mode # "UDP" /\ n <= left /\ off' = off + n
      /\ UNCHANGED <<mode, frames, begin>>
  BY DEF ReadPayload, Arrive, InTypes
<1>2. /\ l \in Nat /\ DOMAIN frames = 1..l /\ Header \in Nat \ {0}
      /\ \A k \in 1..l : frames[k].at \in Nat /\ frames[k].len \in Nat
      /\ m \in Nat /\ DOMAIN delivered = 1..m
      /\ off \in Nat /\ begin \in Nat /\ left \in Nat /\ frames \in Seq(Row)
  BY <1>1, Sizes DEF InTypes
<1>3. /\ RowInv /\ PositionInv /\ left >= 1
      /\ Good => /\ m < l /\ begin = frames[m + 1].at
                 /\ off + left = frames[m + 1].at + Header + frames[m + 1].len
  BY <1>1 DEF StreamInv, PositionInv, End
<1>4. RowInv' /\ Header' = Header
  BY <1>1, <1>3 DEF RowInv, Boundary, End, Header
<1>5. m # 0 => Used(delivered[m]) <= begin
  BY <1>1, <1>2, EmptySeq DEF TurnInv
<1> HIDE DEF l, m
<1>6. CASE Remaining(n) > 0
  <2>1. left' = left - n /\ left' \in Nat /\ left' >= 1 /\ UNCHANGED <<stage, delivered>>
    BY <1>1, <1>2, <1>6 DEF ReadPayload, Remaining
  <2>2. off' + left' = off + left
    BY <1>1, <1>2, <2>1
  <2>3. PositionInv'
    BY <1>1, <1>3, <1>4, <2>1, <2>2 DEF PositionInv, Good, End
  <2>4. InTypes' /\ TurnInv' /\ FramesFaithful'
    BY <1>1, <1>2, <2>1 DEF InTypes, TurnInv, FramesFaithful, Used, Header
  <2> QED
    BY <1>1, <1>4, <2>1, <2>3, <2>4, OffGrows DEF StreamInv
<1>7. CASE ~(Remaining(n) > 0)
  <2> DEFINE d == [at |-> begin, len |-> off' - begin - Header, ok |-> TRUE]
  <2>1. n = left
    <3>1. left - n <= 0
      BY <1>2, <1>7 DEF Remaining
    <3> QED
      BY <1>1, <1>2, <3>1
  <2>2. delivered' = Append(delivered, d) /\ stage' = "serving" /\ UNCHANGED left
    BY <1>7 DEF ReadPayload, Deliver
  <2>3. d \in Served /\ d.at = begin /\ d.len = off' - begin - Header /\ d.ok
    <3>1. off' - begin - Header \in Int
      BY <1>1, <1>2
    <3>2. d \in Served
      BY <1>2, <3>1, Zenon DEF Served
    <3> QED
      BY <3>2
  <2> HIDE DEF d
  <2>4. delivered' \in Seq(Served) /\ Len(delivered') = m + 1 /\ (Good' <=> Good)
    BY <2>2, <2>3, Handed DEF m
  <2>5. Good => m + 1 <= l /\ m + 1 # 0 /\ off' = frames[m + 1].at + Header + frames[m + 1].len
    BY <1>1, <1>2, <1>3, <2>1
  <2>6. Good => d.at = frames[m + 1].at /\ d.len = frames[m + 1].len
    <3> SUFFICES ASSUME Good PROVE d.at = frames[m + 1].at /\ d.len = frames[m + 1].len
      OBVIOUS
    <3>1. m + 1 \in 1..l
      BY <1>2, <2>5
    <3>2. \A a, h, len \in Nat : (a + h + len) - a - h = len
      OBVIOUS
    <3>3. begin = frames[m + 1].at /\ off' = frames[m + 1].at + Header + frames[m + 1].len
      BY <1>3, <2>5
    <3>4. frames[m + 1].at \in Nat /\ Header \in Nat /\ frames[m + 1].len \in Nat
      BY <1>2, <3>1
    <3>5. (frames[m + 1].at + Header + frames[m + 1].len) - frames[m + 1].at - Header = frames[m + 1].len
      BY <3>2, <3>4, Zenon
    <3> QED
      BY <2>3, <3>3, <3>5, Zenon
  <2>7. FramesFaithful'
    BY <1>1, <2>2, <2>3, <2>5, <2>6, HandedFaithful DEF l, m
  <2>8. UnitsOnce'
    <3>1. Used(d) <= off'
      BY <1>1, <1>2, <2>3 DEF Used
    <3>2. delivered # <<>> => Used(delivered[m]) <= d.at
      BY <1>5, <2>3, EmptySeq DEF m, InTypes
    <3> QED
      BY <1>1, <2>2, <2>3, <3>1, <3>2, HandedOnce DEF m
  <2>9. InTypes' /\ TurnInv'
    BY <1>1, <1>2, <2>2, <2>4 DEF InTypes, TurnInv
  <2>10. PositionInv'
    <3>1. Good' => off' = Boundary(Len(delivered))'
      BY <1>1, <1>4, <2>4, <2>5 DEF Boundary, End
    <3> QED
      BY <1>1, <2>2, <2>4, <2>5, <3>1 DEF PositionInv, l, m
  <2> QED
    BY <1>4, <2>7, <2>8, <2>9, <2>10 DEF StreamInv
<1> QED
  BY <1>6, <1>7

\* A datagram: nothing of it is left for the next one.
LEMMA StepDatagram ==
  ASSUME ReadInv, NEW bytes \in Nat, NEW announced \in Nat, Datagram(bytes, announced)
  PROVE  ReadInv'
<1> USE DEF ReadInv
<1>1. mode = "UDP" /\ mode' = mode /\ off' = off + bytes /\ UNCHANGED left
  BY DEF Datagram
<1>2. /\ off \in Nat /\ Header = HeaderLen /\ HeaderLen \in Nat \ {0} /\ Len(delivered) \in Nat
      /\ DOMAIN delivered = 1..Len(delivered)
  BY <1>1, Sizes, FramingAssumption DEF InTypes, Header
<1>3. StreamInv' /\ TurnInv' /\ FramesFaithful'
  BY <1>1 DEF StreamInv, TurnInv, FramesFaithful
<1>4. CASE bytes < HeaderLen
  <2>1. UNCHANGED <<stage, delivered>> /\ begin' = off'
    BY <1>4 DEF Datagram
  <2>2. InTypes'
    BY <1>1, <1>2, <2>1 DEF InTypes
  <2> QED
    BY <1>1, <1>3, <2>1, <2>2, OffGrows
<1>5. CASE ~(bytes < HeaderLen)
  <2> DEFINE len == PayloadIn(bytes, announced)
             d == [at |-> off, len |-> len, ok |-> TRUE]
  <2>1. delivered' = Append(delivered, d) /\ stage' = "serving" /\ UNCHANGED begin
    BY <1>5 DEF Datagram
  <2>2. len \in Int /\ len <= bytes - HeaderLen
    BY <1>2, <1>5 DEF PayloadIn
  <2> HIDE DEF len
  <2>3. d \in Served /\ d.at = off /\ d.len = len /\ d.ok
    <3>1. d \in Served
      BY <1>2, <2>2, Zenon DEF Served
    <3> QED
      BY <3>1
  <2> HIDE DEF d
  <2>4. Used(d) <= off'
    BY <1>1, <1>2, <2>2, <2>3 DEF Used
  <2>5. delivered # <<>> => Used(delivered[Len(delivered)]) <= d.at
    <3>1. delivered # <<>> => Len(delivered) \in DOMAIN delivered
      BY <1>2, EmptySeq DEF InTypes
    <3> QED
      BY <2>3, <3>1 DEF UnitsOnce, Used
  <2>6. UnitsOnce'
    BY <1>1, <2>1, <2>3, <2>4, <2>5, HandedOnce
  <2>7. InTypes'
    <3>1. delivered' \in Seq(Served)
      BY <2>1, <2>3, Handed
    <3> QED
      BY <1>1, <1>2, <2>1, <3>1 DEF InTypes
  <2> QED
    BY <1>3, <2>6, <2>7
<1> QED
  BY <1>4, <1>5

\* A write that ends, well or badly, moves the coroutine that awaits it.
LEMMA StepWritten ==
  ASSUME FrameInv, NEW w \in flight,
         (\E n \in 1..3 : WriteDone(w, n)) \/ WriteFails(w)
  PROVE  ReadInv'
<1>1. w.msg.kind \in {"reply", "event", "push"}
      /\ stage \in {"header", "payload", "serving", "event", "replying", "closed"}
  BY DEF FrameInv, FlightInv, Msgs, ReadInv, InTypes
<1>2. Awaits(w) => stage \in {"event", "replying"}
  BY <1>1 DEF Awaits
<1>3. \/ UNCHANGED inVars
      \/ Reading /\ stage \in {"serving", "event", "replying"}
      \/ /\ UNCHANGED <<mode, frames, off, begin, left, delivered>>
         /\ stage' = "closed" \/ (stage = "event" /\ stage' = "serving")
  <2>1. ASSUME WriteFails(w) PROVE <1>3!:
    BY <1>2, <2>1 DEF WriteFails, Fails
  <2>2. ASSUME NEW n \in 1..3, WriteDone(w, n) PROVE <1>3!:
    <3>1. CASE UNCHANGED inVars
      BY <3>1
    <3>2. CASE Resume(w)
      BY <1>2, <3>2 DEF Resume
    <3> QED
      BY <2>2, <3>1, <3>2 DEF WriteDone
  <2> QED
    BY <2>1, <2>2
<1> QED
  BY <1>3, StageMoves, BackToHeader DEF FrameInv, inVars

-----------------------------------------------------------------------------
(* The messages being written *)

LEMMA FlightSame ==
  ASSUME FlightInv, UNCHANGED <<flight, pushes, mode>>,
         stage = "replying" => UNCHANGED <<stage, delivered>>
  PROVE  FlightInv'
<1> QED
  BY DEF FlightInv, Meant

\* One more message, which is no reply, or the only one.
LEMMA FlightMore ==
  ASSUME FlightInv, NEW msg \in Msgs, Meant(msg), Writes(msg), pushes' \in Nat, UNCHANGED mode,
         \A w \in flight : w.msg.kind = "reply" => msg.kind # "reply" /\ UNCHANGED <<stage, delivered>>,
         msg.kind = "reply" => stage' = "replying" /\ msg.n = Len(delivered')
  PROVE  FlightInv'
<1> DEFINE r == [msg |-> msg, bufs |-> Buffers(msg)]
<1>1. flight' = flight \cup {r} /\ r.msg = msg
  BY DEF Writes
<1>2. \E q \in Msgs : r = [msg |-> q, bufs |-> Buffers(q)] /\ Meant(q)
  OBVIOUS
<1> HIDE DEF r
<1>3. \A w \in flight' : \E q \in Msgs : w = [msg |-> q, bufs |-> Buffers(q)] /\ Meant(q)
  BY <1>1, <1>2 DEF FlightInv
<1>4. \A w \in flight' : w.msg.kind = "reply" => stage' = "replying" /\ w.msg.n = Len(delivered')
  BY <1>1 DEF FlightInv
<1>5. \A v, w \in flight' : v.msg.kind = "reply" /\ w.msg.kind = "reply" => v = w
  BY <1>1 DEF FlightInv
<1> QED
  BY <1>3, <1>4, <1>5 DEF FlightInv, Meant

LEMMA FlightReply ==
  ASSUME FrameInv, NEW broken \in BOOLEAN, Reply(broken)
  PROVE  FlightInv'
<1> DEFINE msg == ReplyMsg(broken)
<1>1. Len(delivered) \in Nat /\ pushes \in Nat
  BY Sizes DEF FrameInv, ReadInv, FlightInv
<1>2. msg \in Msgs /\ msg.kind = "reply" /\ msg.n = Len(delivered) /\ Meant(msg)
  <2>1. (mode = "TEXT") \in BOOLEAN
    OBVIOUS
  <2>2. msg \in Msgs
    BY <1>1, <2>1, Zenon DEF ReplyMsg, Msgs
  <2> QED
    BY <2>2 DEF ReplyMsg, Meant, Reply
<1> HIDE DEF msg
<1>3. Writes(msg) /\ stage = "serving" /\ stage' = "replying" /\ UNCHANGED <<mode, delivered, pushes>>
  BY DEF Reply, msg
<1> QED
  BY <1>1, <1>2, <1>3, FlightMore DEF FrameInv, FlightInv

LEMMA FlightEvent ==
  ASSUME FrameInv, NEW head \in {"header", "garbage"}, Event(head)
  PROVE  FlightInv'
<1> DEFINE msg == EventMsg(head)
<1>1. pushes \in Nat
  BY DEF FrameInv, FlightInv
<1>2. msg \in Msgs /\ msg.kind = "event" /\ Meant(msg)
  <2>1. (mode = "TEXT") \in BOOLEAN /\ pushes + 1 \in Nat
    BY <1>1
  <2>2. msg \in Msgs
    BY <2>1, Zenon DEF EventMsg, Msgs
  <2> QED
    BY <2>2 DEF EventMsg, Meant
<1> HIDE DEF msg
<1>3. Writes(msg) /\ stage = "serving" /\ pushes' = pushes + 1 /\ UNCHANGED mode
  BY DEF Event, msg
<1> QED
  BY <1>1, <1>2, <1>3, FlightMore DEF FrameInv, FlightInv

LEMMA FlightPush ==
  ASSUME FrameInv, Push
  PROVE  FlightInv'
<1>1. pushes \in Nat
  BY DEF FrameInv, FlightInv
<1>2. PushMsg \in Msgs /\ PushMsg.kind = "push" /\ Meant(PushMsg)
  <2>1. pushes + 1 \in Nat
    BY <1>1
  <2>2. PushMsg \in Msgs
    BY <2>1, Zenon DEF PushMsg, Msgs
  <2> QED
    BY <2>2 DEF PushMsg, Meant
<1>3. Writes(PushMsg) /\ pushes' = pushes + 1 /\ UNCHANGED <<mode, stage, delivered>>
  BY DEF Push, inVars
<1> QED
  BY <1>1, <1>2, <1>3, FlightMore DEF FrameInv

\* A message is written in one buffer.
LEMMA FlightWritten ==
  ASSUME FrameInv, NEW w \in flight, (\E n \in 1..3 : WriteDone(w, n)) \/ WriteFails(w)
  PROVE  FlightInv'
<1>0. stage # "nothing"
  BY DEF FrameInv, ReadInv, InTypes
<1>1. Len(w.bufs) = 1 /\ w.msg.kind \in {"reply", "event", "push"}
  <2>1. PICK msg \in Msgs : w = [msg |-> msg, bufs |-> Buffers(msg)]
    BY DEF FrameInv, FlightInv
  <2>2. Len(Buffers(msg)) = 1
    BY DEF Buffers
  <2>3. msg.kind \in {"reply", "event", "push"}
    BY DEF Msgs
  <2> QED
    BY <2>1, <2>2, <2>3
<1>2. flight' = flight \ {w} /\ pushes' = pushes /\ mode' = mode
  <2>1. CASE WriteFails(w)
    BY <2>1 DEF WriteFails, Fails, Reading, inVars
  <2>2. ASSUME NEW n \in 1..3, WriteDone(w, n) PROVE <1>2!:
    <3>1. flight' = flight \ {w} /\ pushes' = pushes /\ Resume(w)
      BY <1>1, <2>2 DEF WriteDone
    <3>2. Awaits(w) => stage \in {"event", "replying"}
      BY <1>0, <1>1 DEF Awaits
    <3> QED
      BY <3>1, <3>2 DEF Resume, Reading, inVars
  <2> QED
    BY <2>1, <2>2
<1>3. ASSUME ~Awaits(w) PROVE UNCHANGED <<stage, delivered>>
  <2>1. CASE WriteFails(w)
    BY <1>3, <2>1 DEF WriteFails, inVars
  <2>2. ASSUME NEW n \in 1..3, WriteDone(w, n) PROVE UNCHANGED <<stage, delivered>>
    <3>1. Resume(w)
      BY <1>1, <2>2 DEF WriteDone
    <3> QED
      BY <1>3, <3>1 DEF Resume, inVars
  <2> QED
    BY <2>1, <2>2
<1>4. Awaits(w) => stage = "event" \/ (stage = "replying" /\ w.msg.kind = "reply")
  BY <1>0, <1>1 DEF Awaits
<1>5. \A v \in flight' : v.msg.kind = "reply" => UNCHANGED <<stage, delivered>>
  BY <1>2, <1>3, <1>4 DEF FrameInv, FlightInv
<1> QED
  BY <1>2, <1>5 DEF FrameInv, FlightInv, Meant

-----------------------------------------------------------------------------
\* Every step preserves the invariant.
LEMMA FrameInvStep ==
  ASSUME FrameInv, [Next]_vars
  PROVE  FrameInv'
<1>0. ReadInv
  BY DEF FrameInv
<1>1. ReadInv'
  <2>1. CASE ServeSilently
    BY <1>0, <2>1, StageMoves, BackToHeader DEF ServeSilently, Fails
  <2>2. ASSUME NEW broken \in BOOLEAN, Reply(broken) PROVE ReadInv'
    BY <1>0, <2>2, StageMoves DEF Reply
  <2>3. ASSUME NEW head, Event(head) PROVE ReadInv'
    BY <1>0, <2>3, StageMoves DEF Event
  <2>4. CASE Push \/ UNCHANGED vars
    BY <1>0, <2>4, StageMoves DEF Push, vars, inVars
  <2>5. CASE ReadFails
    BY <1>0, <2>5, StageMoves DEF ReadFails
  <2>6. CASE ReadStep
    <3>1. \A n \in 1..(HeaderLen + MaxPayload) : n \in Nat \ {0}
      BY FramingAssumption
    <3> QED
      BY <1>0, <2>6, <3>1, StepReadHeader, StepReadPayload DEF ReadStep
  <2>7. CASE WriteStep
    BY <2>7, StepWritten DEF WriteStep
  <2>8. ASSUME NEW bytes \in 0..(HeaderLen + MaxPayload), NEW announced \in 0..(MaxPayload + 1),
               Datagram(bytes, announced)
        PROVE  ReadInv'
    <3>1. bytes \in Nat /\ announced \in Nat
      BY FramingAssumption
    <3> QED
      BY <1>0, <2>8, <3>1, StepDatagram
  <2>9. ASSUME NEW len \in 0..MaxPayload, NEW h \in BOOLEAN, NEW b \in BOOLEAN, WriteFrame(len, h, b)
        PROVE  ReadInv'
    BY <1>0, <2>9, StepWriteFrame
  <2> QED
    BY <2>1, <2>2, <2>3, <2>4, <2>5, <2>6, <2>7, <2>8, <2>9 DEF Next
<1>2. FlightInv'
  <2>1. CASE UNCHANGED <<flight, pushes, mode>> /\ (stage = "replying" => UNCHANGED <<stage, delivered>>)
    BY <2>1, FlightSame DEF FrameInv
  <2>2. ASSUME NEW broken \in BOOLEAN, Reply(broken) PROVE FlightInv'
    BY <2>2, FlightReply
  <2>3. ASSUME NEW head \in {"header", "garbage"}, Event(head) PROVE FlightInv'
    BY <2>3, FlightEvent
  <2>4. CASE Push
    BY <2>4, FlightPush
  <2>5. CASE WriteStep
    BY <2>5, FlightWritten DEF WriteStep
  <2>6. CASE ServeSilently \/ ReadFails
    BY <2>1, <2>6 DEF ServeSilently, Reading, Fails, ReadFails, outVars
  <2>7. CASE ReadStep
    BY <2>1, <2>7 DEF ReadStep, ReadHeader, ReadPayload, Arrive, outVars
  <2>8. ASSUME NEW bytes, NEW announced, Datagram(bytes, announced) PROVE FlightInv'
    BY <2>1, <2>8 DEF Datagram, outVars
  <2>9. ASSUME NEW len, NEW h, NEW b, WriteFrame(len, h, b) PROVE FlightInv'
    BY <2>1, <2>9 DEF WriteFrame, outVars
  <2> QED
    BY <2>1, <2>2, <2>3, <2>4, <2>5, <2>6, <2>7, <2>8, <2>9 DEF Next, vars, inVars, outVars
<1> QED
  BY <1>1, <1>2 DEF FrameInv

LEMMA FrameInvInit ==
  ASSUME Init
  PROVE  FrameInv
<1> USE DEF Init
<1>1. /\ InTypes /\ Header \in Nat \ {0}
      /\ DOMAIN frames = {} /\ DOMAIN delivered = {} /\ Len(frames) = 0 /\ Len(delivered) = 0
  BY FramingAssumption DEF InTypes, Header
<1>2. StreamInv
  BY <1>1 DEF StreamInv, RowInv, PositionInv, Boundary
<1> QED
  BY <1>1, <1>2 DEF FrameInv, ReadInv, TurnInv, FlightInv, FramesFaithful, UnitsOnce

LEMMA FrameInvariant == Spec => []FrameInv
<1> QED
  BY FrameInvInit, FrameInvStep, PTL DEF Spec

-----------------------------------------------------------------------------
(* What the client receives *)

\* The units received belong to messages that were meant, replies to frames that
\* have been handed over; unless a write was cut short or a text payload was
\* broken, they are whole messages.
Tags == {"header", "garbage", "payload"}
OutInv ==
  /\ out \in Seq(Msgs \X Tags)
  /\ \A k \in DOMAIN out :
       /\ Meant(out[k][1])
       /\ out[k][1].kind = "reply" => out[k][1].n <= Len(delivered)
  /\ short \/ Len(out) % 2 = 0 \/ \E k \in DOMAIN out : out[k][1].broken

\* The buffer of a message.
LEMMA BufferFacts ==
  ASSUME NEW msg \in Msgs, NEW b, b = Buffers(msg)[1]
  PROVE  /\ b \in Seq(Msgs \X Tags) /\ Len(b) \in {2, 3} /\ (~msg.broken => Len(b) = 2)
         /\ b[1] = <<msg, msg.head>> /\ b[2] = <<msg, "payload">>
         /\ \A i \in 1..Len(b) : b[i][1] = msg
<1> DEFINE x == <<msg, msg.head>>
           y == <<msg, "payload">>
<1>1. x \in Msgs \X Tags /\ y \in Msgs \X Tags /\ x[1] = msg /\ y[1] = msg
  BY DEF Msgs, Tags
<1> HIDE DEF x, y
<1>2. b = <<x, y>> \o (IF msg.broken THEN <<y>> ELSE <<>>)
  BY DEF Buffers, x, y
<1>3. CASE msg.broken
  <2>1. b = <<x, y>> \o <<y>>
    BY <1>2, <1>3
  <2>2. <<x, y>> \in Seq(Msgs \X Tags) /\ <<y>> \in Seq(Msgs \X Tags)
    BY <1>1
  <2>3. b \in Seq(Msgs \X Tags) /\ Len(b) = 3 /\ b[1] = x /\ b[2] = y /\ b[3] = y
    BY <2>1, <2>2, ConcatProperties
  <2> QED
    BY <1>1, <1>3, <2>3 DEF x, y
<1>4. CASE ~msg.broken
  <2>1. b = <<x, y>> \o <<>>
    BY <1>2, <1>4
  <2>2. <<x, y>> \in Seq(Msgs \X Tags) /\ <<>> \in Seq(Msgs \X Tags)
    BY <1>1
  <2>3. b \in Seq(Msgs \X Tags) /\ Len(b) = 2 /\ b[1] = x /\ b[2] = y
    BY <2>1, <2>2, ConcatProperties
  <2> QED
    BY <1>1, <1>4, <2>3 DEF x, y
<1> QED
  BY <1>3, <1>4

\* What a write adds to out.
LEMMA OutGrows ==
  ASSUME OutInv, NEW msg \in Msgs, NEW n \in 1..Len(Buffers(msg)[1]),
         out' = out \o SubSeq(Buffers(msg)[1], 1, n)
  PROVE  /\ Len(out) \in Nat /\ n \in Nat /\ DOMAIN out = 1..Len(out)
         /\ out' \in Seq(Msgs \X Tags) /\ Len(out') = Len(out) + n
         /\ DOMAIN out' = 1..(Len(out) + n)
         /\ \A k \in 1..Len(out) : out'[k] = out[k]
         /\ \A i \in 1..n : out'[Len(out) + i] = Buffers(msg)[1][i]
<1> DEFINE b == Buffers(msg)[1]
           c == SubSeq(b, 1, n)
<1>1. b \in Seq(Msgs \X Tags) /\ Len(b) \in Nat
  BY BufferFacts
<1> HIDE DEF b
<1>2. n \in Nat /\ n >= 1 /\ n <= Len(b)
  BY <1>1 DEF b
<1>3. c \in Seq(Msgs \X Tags) /\ Len(c) = n /\ \A i \in 1..n : c[i] = b[i]
  <2>1. \A i \in 1..n : b[i] \in Msgs \X Tags
    BY <1>1, <1>2, LenProperties
  <2>2. /\ c \in Seq(Msgs \X Tags) /\ Len(c) = IF 1 <= n THEN n - 1 + 1 ELSE 0
        /\ \A i \in 1..(n - 1 + 1) : c[i] = b[1 + i - 1]
    BY <1>1, <1>2, <2>1, SubSeqProperties
  <2> HIDE DEF c
  <2> QED
    BY <1>2, <2>2
<1> HIDE DEF c
<1>4. out' = out \o c /\ out \in Seq(Msgs \X Tags)
  BY DEF b, c, OutInv
<1>5. /\ out' \in Seq(Msgs \X Tags) /\ Len(out') = Len(out) + n
      /\ \A k \in 1..(Len(out) + n) : out'[k] = IF k <= Len(out) THEN out[k] ELSE c[k - Len(out)]
  <2>1. /\ (out \o c) \in Seq(Msgs \X Tags) /\ Len(out \o c) = Len(out) + Len(c)
        /\ \A k \in 1..(Len(out) + Len(c)) :
             (out \o c)[k] = IF k <= Len(out) THEN out[k] ELSE c[k - Len(out)]
    BY <1>3, <1>4, ConcatProperties
  <2> QED
    BY <1>3, <1>4, <2>1, Zenon
<1>6. Len(out) \in Nat /\ DOMAIN out = 1..Len(out) /\ DOMAIN out' = 1..(Len(out) + n)
  BY <1>4, <1>5, LenProperties
<1> DEFINE o == Len(out)
<1>7. o \in Nat /\ \A k \in 1..(o + n) : out'[k] = IF k <= o THEN out[k] ELSE c[k - o]
  BY <1>5, <1>6
<1>8. /\ \A k \in 1..o : out'[k] = out[k]
      /\ \A i \in 1..n : out'[o + i] = b[i]
  <2> HIDE DEF o
  <2>1. \A k \in 1..o : k \in 1..(o + n) /\ k <= o
    BY <1>2, <1>7
  <2>2. \A i \in 1..n : o + i \in 1..(o + n) /\ ~(o + i <= o) /\ (o + i) - o = i
    BY <1>2, <1>7
  <2>3. \A k \in 1..o : out'[k] = out[k]
    BY <1>7, <2>1, Zenon
  <2>4. \A i \in 1..n : out'[o + i] = c[(o + i) - o]
    BY <1>7, <2>2, Zenon
  <2>5. \A i \in 1..n : out'[o + i] = b[i]
    BY <1>3, <2>2, <2>4, Zenon
  <2> QED
    BY <2>3, <2>5
<1> QED
  BY <1>2, <1>5, <1>6, <1>8 DEF b

\* A step that sends nothing to the client.
LEMMA OutSame ==
  ASSUME FrameInv, FrameInv', OutInv, ClientInStep, UNCHANGED <<mode, out, short>>,
         \/ delivered' = delivered
         \/ \E d : delivered' = Append(delivered, d)
  PROVE  OutInv' /\ ClientInStep'
<1>1. Len(delivered) \in Nat /\ Len(delivered') \in Nat /\ Len(delivered) <= Len(delivered')
  <2>1. delivered \in Seq(Served) /\ delivered' \in Seq(Served)
    BY DEF FrameInv, ReadInv, InTypes
  <2>2. Len(delivered) \in Nat /\ (delivered' = delivered \/ Len(delivered') = Len(delivered) + 1)
    BY <2>1, LenProperties
  <2> QED
    BY <2>2
<1>2. \A k \in DOMAIN out : out[k][1].n \in Nat
  BY DEF OutInv, Msgs
<1>3. \A x \in Nat : x <= Len(delivered) => x <= Len(delivered')
  BY <1>1
<1>4. OutInv'
  BY <1>2, <1>3 DEF OutInv, Meant
<1>5. ClientInStep'
  BY DEF ClientInStep, Follows
<1> QED
  BY <1>4, <1>5

\* A write that completes, whole or cut short.
LEMMA OutWritten ==
  ASSUME FrameInv, FrameInv', OutInv, ClientInStep, NEW w \in flight, NEW n \in 1..3, WriteDone(w, n)
  PROVE  OutInv' /\ ClientInStep'
<1>1. PICK msg \in Msgs : w = [msg |-> msg, bufs |-> Buffers(msg)] /\ Meant(msg)
  BY DEF FrameInv, FlightInv
<1> DEFINE b == Buffers(msg)[1]
           o == Len(out)
<1>2. w.bufs[1] = b /\ w.msg = msg
  BY <1>1
<1>3. /\ b \in Seq(Msgs \X Tags) /\ Len(b) \in {2, 3} /\ (~msg.broken => Len(b) = 2)
      /\ b[1] = <<msg, msg.head>> /\ b[2] = <<msg, "payload">>
      /\ \A i \in 1..Len(b) : b[i][1] = msg
  BY BufferFacts
<1>4. /\ n \in 1..Len(b) /\ out' = out \o SubSeq(b, 1, n)
      /\ short' = (short \/ n < Len(b))
  BY <1>2 DEF WriteDone
<1>5. /\ o \in Nat /\ n \in Nat /\ DOMAIN out = 1..o
      /\ out' \in Seq(Msgs \X Tags) /\ Len(out') = o + n /\ DOMAIN out' = 1..(o + n)
      /\ \A k \in 1..o : out'[k] = out[k]
      /\ \A i \in 1..n : out'[o + i] = b[i]
  BY <1>4, OutGrows
<1> HIDE DEF b, o
<1>6. UNCHANGED <<mode, delivered>>
  <2>1. w.msg.kind \in {"reply", "event", "push"} /\ Len(w.bufs) = 1
    BY <1>1 DEF Msgs, Buffers
  <2>2. Resume(w)
    BY <2>1 DEF WriteDone
  <2> QED
    BY <2>2 DEF Resume, Reading, inVars
<1>7. msg.kind = "reply" => msg.n = Len(delivered)
  BY <1>2 DEF FrameInv, FlightInv
<1>8. \A k \in 1..(o + n) : k \in 1..o \/ (k - o \in 1..n /\ o + (k - o) = k)
  BY <1>5
<1>9. \A i \in 1..n : out'[o + i][1] = msg
  <2>1. \A i \in 1..n : i \in 1..Len(b)
    BY <1>3, <1>4
  <2> QED
    <3> SUFFICES ASSUME NEW i \in 1..n PROVE out'[o + i][1] = msg
      OBVIOUS
    <3>1. out'[o + i] = b[i] /\ b[i][1] = msg
      BY <1>3, <1>5, <2>1
    <3> QED
      BY <3>1, Zenon
<1>10. ASSUME NEW k \in 1..(o + n) PROVE k \in 1..o \/ out'[k][1] = msg
  BY <1>8, <1>9
<1>11. \A k \in 1..(o + n) :
         Meant(out'[k][1]) /\ (out'[k][1].kind = "reply" => out'[k][1].n <= Len(delivered))
  <2>1. Len(delivered) \in Nat
    BY Sizes DEF FrameInv, ReadInv
  <2> SUFFICES ASSUME NEW k \in 1..(o + n)
               PROVE  Meant(out'[k][1]) /\ (out'[k][1].kind = "reply" => out'[k][1].n <= Len(delivered))
    OBVIOUS
  <2>2. CASE k \in 1..o
    BY <1>5, <2>2 DEF OutInv
  <2>3. CASE out'[k][1] = msg
    BY <1>1, <1>7, <2>1, <2>3
  <2> QED
    BY <1>10, <2>2, <2>3
<1>12. o + 1 \in 1..(o + n) /\ out'[o + 1] = <<msg, msg.head>> /\ 1 \in 1..n
  BY <1>3, <1>4, <1>5
<1>13. ~short' => ~short /\ n = Len(b)
  <2>1. ~short' => ~short /\ ~(n < Len(b))
    BY <1>4, Zenon
  <2>2. ~(n < Len(b)) => n = Len(b)
    BY <1>3, <1>4
  <2> QED
    BY <2>1, <2>2, Zenon
<1>14. o % 2 = 0 => (o + 1) % 2 = 1 /\ (o + 2) % 2 = 0
  BY <1>5
<1>15. OutInv'
  <2>1. ASSUME ~short' PROVE Len(out') % 2 = 0 \/ \E k \in DOMAIN out' : out'[k][1].broken
    <3>1. CASE msg.broken
      BY <1>5, <1>12, <3>1
    <3>2. CASE \E k \in DOMAIN out : out[k][1].broken
      <4>1. PICK k \in 1..o : out[k][1].broken
        BY <1>5, <3>2
      <4>2. k \in 1..(o + n)
        BY <1>5
      <4> QED
        BY <1>5, <4>1, <4>2
    <3>3. CASE ~msg.broken /\ o % 2 = 0
      BY <1>3, <1>5, <1>13, <1>14, <2>1, <3>3
    <3> QED
      BY <1>13, <2>1, <3>1, <3>2, <3>3 DEF OutInv, o
  <2>2. \A k \in DOMAIN out' : Meant(out[k][1])'
    BY <1>5, <1>6, <1>11 DEF Meant
  <2> QED
    BY <1>5, <1>6, <1>11, <2>1, <2>2 DEF OutInv
<1>16. ClientInStep'
  <2> SUFFICES ASSUME NEW k \in 1..(o + n), ~short',
                      \A j \in 1..k : out'[j][2] # "garbage",
                      mode = "TEXT" => \A j \in 1..k : ~out'[j][1].broken /\ out'[j][1].kind # "push"
               PROVE  Follows(k)'
    BY <1>5, <1>6, Zenon DEF ClientInStep
  <2> SUFFICES /\ out'[k][2] = IF k % 2 = 1 THEN "header" ELSE "payload"
               /\ k % 2 = 0 => out'[k][1] = out'[k - 1][1]
               /\ out'[k][1].text = (mode = "TEXT")
               /\ \A j \in 1..k : out'[k][1].kind = "reply" /\ out'[j][1].kind = "reply" =>
                    out'[j][1].n <= out'[k][1].n
    BY <1>6 DEF Follows
  <2>1. k \in Nat /\ \A j \in 1..k : j \in 1..(o + n)
    BY <1>5
  <2>2. CASE k \in 1..o
    <3>1. \A j \in 1..k : j \in 1..o /\ out'[j] = out[j]
      BY <1>5, <2>2
    <3>2. Follows(k)
      <4>1. \/ short \/ Follows(k) \/ \E j \in 1..k : out[j][2] = "garbage"
            \/ (mode = "TEXT" /\ \E j \in 1..k : out[j][1].broken \/ out[j][1].kind = "push")
        BY <1>5, <2>2 DEF ClientInStep
      <4> QED
        BY <1>13, <3>1, <4>1
    <3>3. k % 2 = 0 => k - 1 \in 1..k
      BY <2>2
    <3>4. k \in 1..k
      BY <2>2
    <3> QED
      BY <3>1, <3>2, <3>3, <3>4 DEF Follows
  <2>3. CASE k - o \in 1..n
    <3>1. o + 1 \in 1..k /\ k \in 1..k /\ \A j \in 1..o : j \in 1..k
      BY <1>5, <2>3
    <3>2. ~msg.broken /\ msg.head = "header"
      <4>1. msg.head # "garbage" /\ (mode = "TEXT" => ~msg.broken)
        BY <1>12, <3>1
      <4> QED
        BY <1>1, <4>1 DEF Meant, Msgs
    <3>3. n = 2 /\ (k = o + 1 \/ k = o + 2)
      <4>1. n = 2
        BY <1>3, <1>13, <3>2
      <4> QED
        BY <1>5, <2>1, <2>3, <4>1
    <3>4. o % 2 = 0
      <4>1. \A j \in 1..o : ~out[j][1].broken
        BY <1>5, <3>1 DEF OutInv, Meant
      <4> QED
        BY <1>5, <1>13, <4>1 DEF OutInv, o
    <3>5. out'[o + 1] = <<msg, "header">> /\ out'[o + 2] = <<msg, "payload">>
      BY <1>3, <1>5, <3>2, <3>3
    <3>6. msg.text = (mode = "TEXT")
      <4>1. mode = "TEXT" => msg.kind # "push"
        BY <1>12, <3>1
      <4>2. msg.text \in BOOLEAN
        BY DEF Msgs
      <4> QED
        BY <1>1, <4>1, <4>2 DEF Meant
    <3>7. out'[k][1] = msg
      BY <3>3, <3>5
    <3>8. \A j \in 1..k : out'[k][1].kind = "reply" /\ out'[j][1].kind = "reply" =>
            out'[j][1].n <= out'[k][1].n
      BY <1>7, <1>11, <2>1, <3>7
    <3>9. CASE k = o + 1
      <4>1. k % 2 = 1 /\ k % 2 # 0
        BY <1>14, <3>4, <3>9
      <4> QED
        BY <3>5, <3>6, <3>7, <3>8, <3>9, <4>1
    <3>10. CASE k = o + 2
      <4>1. k % 2 = 0 /\ k % 2 # 1 /\ k - 1 = o + 1
        BY <1>5, <1>14, <3>4, <3>10
      <4> QED
        BY <3>5, <3>6, <3>7, <3>8, <3>10, <4>1
    <3> QED
      BY <3>3, <3>9, <3>10
  <2> QED
    BY <1>8, <2>2, <2>3
<1> QED
  BY <1>15, <1>16

-----------------------------------------------------------------------------
(* Theorems *)

\* However a stream is cut into reads by async_read_exact, and for headers and
\* payloads of any length, the frames handed to process_command are the client's.
THEOREM FramesCorrect == Spec => []FramesFaithful
<1>1. FrameInv => FramesFaithful
  BY DEF FrameInv, ReadInv
<1> QED
  BY <1>1, FrameInvariant, PTL

\* No unit is used twice or before it has been received, after a refused text
\* header and for datagrams that announce more than they carry too.
THEOREM UnitsCorrect == Spec => []UnitsOnce
<1>1. FrameInv => UnitsOnce
  BY DEF FrameInv, ReadInv
<1> QED
  BY <1>1, FrameInvariant, PTL

\* The client keeps in step with what it is sent, replies in the order of its
\* requests, however pushes and replies are interleaved, except for the ways of
\* losing step that ClientInStep names.
THEOREM ClientCorrect == Spec => []ClientInStep
<1>1. Init => OutInv /\ ClientInStep
  BY DEF Init, OutInv, ClientInStep
<1>2. ASSUME FrameInv, FrameInv', OutInv, ClientInStep, [Next]_vars
      PROVE  OutInv' /\ ClientInStep'
  <2>1. ASSUME UNCHANGED <<mode, out, short, delivered>> PROVE OutInv' /\ ClientInStep'
    BY <1>2, <2>1, OutSame
  <2>2. ASSUME UNCHANGED <<mode, out, short>>, NEW d, delivered' = Append(delivered, d)
        PROVE  OutInv' /\ ClientInStep'
    BY <1>2, <2>2, OutSame
  <2>3. ASSUME NEW w \in flight, NEW n \in 1..3, WriteDone(w, n) PROVE OutInv' /\ ClientInStep'
    BY <1>2, <2>3, OutWritten
  <2>4. ASSUME NEW w \in flight, WriteFails(w) PROVE OutInv' /\ ClientInStep'
    BY <2>1, <2>4 DEF WriteFails, Fails, Reading, inVars
  <2>5. CASE ReadStep
    BY <2>1, <2>2, <2>5 DEF ReadStep, ReadHeader, ReadPayload, Arrive, Deliver, outVars
  <2>6. ASSUME NEW bytes, NEW announced, Datagram(bytes, announced) PROVE OutInv' /\ ClientInStep'
    BY <2>1, <2>2, <2>6 DEF Datagram, outVars
  <2>7. CASE ServeSilently \/ ReadFails \/ Push \/ UNCHANGED vars
    BY <2>1, <2>7 DEF ServeSilently, Reading, Fails, ReadFails, Push, vars, inVars, outVars
  <2>8. ASSUME NEW x, Reply(x) \/ Event(x) PROVE OutInv' /\ ClientInStep'
    BY <2>1, <2>8 DEF Reply, Event
  <2>9. ASSUME NEW len, NEW h, NEW b, WriteFrame(len, h, b) PROVE OutInv' /\ ClientInStep'
    BY <2>1, <2>9 DEF WriteFrame, outVars
  <2> QED
    BY <1>2, <2>3, <2>4, <2>5, <2>6, <2>7, <2>8, <2>9 DEF Next, WriteStep
<1> QED
  BY <1>1, <1>2, FrameInvariant, PTL DEF Spec
=============================================================================
