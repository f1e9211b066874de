--------------------------- MODULE UsbLine_proofs ---------------------------
(***************************************************************************)
(* Proof about UsbLine: for any requests, buffer and queue, a request that *)
(* lost no byte is decoded as it was sent.                                 *)
(*                                                                         *)
(* The stream is the framing of the requests (Chain); the bytes decoded,   *)
(* at hand, queued and lost follow one another in it and leave nothing out *)
(* (Flow); and the decoder holds what was sent since the last delimiter,   *)
(* if nothing of it was lost (Decoded).                                    *)
(***************************************************************************)
EXTENDS UsbLine, SequenceTheorems, TLAPS

Types ==
    /\ requests \in Requests
    /\ stream \in Seq(Place)
    /\ seen \in Nat
    /\ queue \in Seq([from : Nat, to : Nat])
    /\ chunk \in [from : Nat, to : Nat]
    /\ data \in Seq(Byte)
    /\ escape \in BOOLEAN
    /\ lost \subseteq Nat

\* A place there is in the framing of the requests
Placed(p) ==
    /\ p \in Place
    /\ p.req <= Len(requests) /\ p.at <= Len(requests[p.req]) + 1
    /\ p.half = 2 => Special(p)

Chain ==
    \A n \in 1..Len(stream) :
      /\ Placed(stream[n])
      /\ n = 1 => stream[n] = First(1)
      /\ n > 1 => stream[n] = After(stream[n - 1])

\* Messages are in the order of the stream, and what is not in one was decoded
\* or is lost.
Ordered ==
    /\ seen <= Len(stream)
    /\ chunk.from >= 1 /\ chunk.from <= chunk.to + 1 /\ chunk.to <= seen
    /\ \A i \in 1..Len(queue) :
         chunk.to < queue[i].from /\ queue[i].from <= queue[i].to /\ queue[i].to <= seen
    /\ \A i, j \in 1..Len(queue) : i < j => queue[i].to < queue[j].from
    /\ \A m \in lost : m \in 1..seen

Queued(m) == \E i \in 1..Len(queue) : m \in queue[i].from..queue[i].to

Accounted == \A m \in 1..seen : m <= chunk.to \/ m \in lost \/ Queued(m)

Flow == Ordered /\ Accounted

\* The decoder has the first n bytes of request r
Has(r, n) == Len(data) = n /\ \A j \in 1..n : data[j] = r[j]

\* ... when it has decoded the byte at p
Holds(p) ==
    IF Delimiter(p) THEN data = <<>> /\ ~escape
    ELSE IF Special(p) /\ p.half = 1 THEN Has(requests[p.req], p.at - 1) /\ escape
    ELSE Has(requests[p.req], p.at) /\ ~escape

\* ... and before it decodes the byte at p, which is not the first of its request
Ready(p) ==
    /\ Has(requests[p.req], p.at - 1)
    /\ escape <=> Special(p) /\ p.half = 2

\* Request k fits, and lost none of the first n bytes of the stream.
Whole(k, n) ==
    /\ Len(requests[k]) <= FrameMax
    /\ \A m \in lost : m <= n => stream[m].req # k

Decoded ==
    LET n == chunk.from - 1
    IN  IF n = 0 THEN data = <<>> /\ ~escape
        ELSE Whole(stream[n].req, n) => Holds(stream[n])

FramesPast == \A f \in frames : f.end \in Nat /\ f.end < chunk.from

LineInv == Types /\ Chain /\ Flow /\ Decoded /\ FramesPast /\ IntactRequestsArrive

------------------------------------------------------------------------------
(***************************************************************************)
(* The framing                                                             *)
(***************************************************************************)
LEMMA RequestTypes ==
  ASSUME Types, NEW k \in Nat \ {0}, k <= Len(requests)
  PROVE  requests[k] \in Seq(Byte) /\ Len(requests[k]) \in Nat \ {0}
<1>1. requests \in Seq(Seq(Byte) \ {<<>>})
  BY LineAssumption DEF Types
<1>2. k \in 1..Len(requests)
  BY <1>1
<1>3. requests[k] \in Seq(Byte) \ {<<>>}
  BY <1>1, <1>2
<1> QED  BY <1>3, EmptySeq

\* The byte after one in the framing is in the framing, or of the next request.
LEMMA AfterPlaced ==
  ASSUME Types, NEW p, Placed(p), After(p).req <= Len(requests)
  PROVE  Placed(After(p))
<1>1. p \in Place /\ p.req \in Nat \ {0} /\ p.at \in Nat /\ p.half \in 1..2
  BY DEF Placed, Place
<1>2. requests[p.req] \in Seq(Byte) /\ Len(requests[p.req]) \in Nat \ {0}
  BY <1>1, RequestTypes DEF Placed
<1>3. CASE Closes(p)
  <2>1. After(p) = [req |-> p.req + 1, at |-> 0, half |-> 1]
    BY <1>3 DEF After, First, Special, Delimiter
  <2>2. requests[p.req + 1] \in Seq(Byte) /\ Len(requests[p.req + 1]) \in Nat \ {0}
    BY <1>1, <2>1, RequestTypes
  <2> QED  BY <1>1, <2>1, <2>2 DEF Placed, Place
<1>4. CASE ~Closes(p) /\ Special(p) /\ p.half = 1
  <2>1. After(p) = [req |-> p.req, at |-> p.at, half |-> 2]
    BY <1>1, <1>4 DEF After, Place
  <2>2. Special(After(p))
    BY <1>4, <2>1 DEF Special, Delimiter, Closes
  <2> QED  BY <1>1, <2>1, <2>2 DEF Placed, Place
<1>5. CASE ~Closes(p) /\ ~(Special(p) /\ p.half = 1)
  <2>1. After(p) = [req |-> p.req, at |-> p.at + 1, half |-> 1]
    BY <1>1, <1>5 DEF After, Place
  <2>2. p.at <= Len(requests[p.req])
    BY <1>1, <1>2, <1>5 DEF Placed, Closes
  <2> QED  BY <1>1, <1>2, <2>1, <2>2 DEF Placed, Place
<1> QED  BY <1>3, <1>4, <1>5

\* A request begins where the one before it ends.
LEMMA BeginsAfterEnd ==
  ASSUME NEW q \in Place, After(q).at = 0
  PROVE  Closes(q) /\ After(q).req = q.req + 1
<1>1. CASE Special(q) /\ q.half = 1
  BY <1>1 DEF After, First, Place, Special, Delimiter
<1>2. CASE ~(Special(q) /\ q.half = 1)
  BY <1>2 DEF After, First, Place
<1> QED  BY <1>1, <1>2

\* Within a request the decoder that holds all before a byte is ready for it.
LEMMA HoldsReady ==
  ASSUME Types, NEW q, Placed(q), After(q).at # 0
  PROVE  /\ After(q).req = q.req
         /\ Holds(q) => Ready(After(q))
<1> DEFINE p == After(q)
<1>1. q \in Place /\ q.req \in Nat \ {0} /\ q.at \in Nat /\ q.half \in 1..2
  BY DEF Placed, Place
<1>2. ~Closes(q)
  BY DEF After, First, Special, Delimiter
<1>3. CASE Special(q) /\ q.half = 1
  <2>1. p = [req |-> q.req, at |-> q.at, half |-> 2]
    BY <1>1, <1>2, <1>3 DEF After, Place
  <2>2. Special(p) /\ ~Delimiter(q)
    BY <1>3, <2>1 DEF Special, Delimiter, Closes
  <2> QED  BY <1>3, <2>1, <2>2 DEF Holds, Ready
<1>4. CASE ~(Special(q) /\ q.half = 1)
  <2>1. p = [req |-> q.req, at |-> q.at + 1, half |-> 1]
    BY <1>1, <1>2, <1>4 DEF After, Place
  <2>2. CASE q.at = 0
    <3>1. Delimiter(q)
      BY <2>2 DEF Delimiter
    <3>2. ASSUME data = <<>>  PROVE  Has(requests[q.req], 0)
      BY <3>2 DEF Has
    <3> QED  BY <2>1, <2>2, <3>1, <3>2 DEF Holds, Ready
  <2>3. CASE q.at # 0
    <3>1. ~Delimiter(q)
      BY <1>2, <2>3 DEF Delimiter
    <3>2. p.at - 1 = q.at
      BY <1>1, <2>1
    <3> QED  BY <1>4, <2>1, <3>1, <3>2 DEF Holds, Ready
  <2> QED  BY <2>2, <2>3
<1> QED  BY <1>3, <1>4

------------------------------------------------------------------------------
(***************************************************************************)
(* The decoder                                                             *)
(***************************************************************************)
\* A byte that is kept makes the decoder's bytes one more.
LEMMA AppendHas ==
  ASSUME Types, NEW r \in Seq(Byte), NEW n \in 1..Len(r), Has(r, n - 1)
  PROVE  /\ Len(Append(data, r[n])) = n
         /\ \A j \in 1..n : Append(data, r[n])[j] = r[j]
<1>1. Len(data) = n - 1 /\ data \in Seq(Byte) /\ r[n] \in Byte
  BY DEF Has, Types
<1>2. /\ Len(Append(data, r[n])) = n
      /\ \A j \in 1..n - 1 : Append(data, r[n])[j] = data[j]
      /\ Append(data, r[n])[n] = r[n]
  BY <1>1, AppendProperties
<1>3. \A j \in 1..n : j = n \/ j \in 1..n - 1
  OBVIOUS
<1> QED  BY <1>2, <1>3 DEF Has

\* A delimiter empties it.
LEMMA DelimiterDecoded ==
  ASSUME Decode, Delimiter(stream[chunk.from])
  PROVE  /\ data' = <<>> /\ escape' = FALSE
         /\ frames' = IF data = <<>> THEN frames
                      ELSE frames \cup {[end |-> chunk.from, data |-> data]}
<1>1. ByteAt(stream[chunk.from]) = End
  BY DEF ByteAt, Special
<1> DEFINE d == [data |-> data, escape |-> escape, frames |-> frames]
<1>2. DecodeByte(d, chunk.from) = AtEnd(d, chunk.from)
  <2> HIDE DEF d
  <2> QED  BY <1>1, LineAssumption DEF DecodeByte, End, Esc, EscEnd, EscEsc
<1>3. /\ AtEnd(d, chunk.from).data = <<>>
      /\ AtEnd(d, chunk.from).escape = FALSE
      /\ AtEnd(d, chunk.from).frames = Frames(d, chunk.from)
  BY DEF AtEnd
<1>4. data' = <<>> /\ escape' = FALSE /\ frames' = Frames(d, chunk.from)
  <2> HIDE DEF d
  <2>1. /\ data' = DecodeByte(d, chunk.from).data
        /\ escape' = DecodeByte(d, chunk.from).escape
        /\ frames' = DecodeByte(d, chunk.from).frames
    BY DEF Decode, d
  <2> QED  BY <1>2, <1>3, <2>1
<1> QED  BY <1>4 DEF Frames

\* Any other byte of a request that fits leaves what is sent up to it, and passes
\* nothing on.
LEMMA ByteDecoded ==
  ASSUME Types, Decode, NEW p, p = stream[chunk.from], Placed(p), ~Delimiter(p), Ready(p),
         Len(requests[p.req]) <= FrameMax
  PROVE  Holds(p)' /\ frames' = frames
<1> DEFINE r == requests[p.req]
           d == [data |-> data, escape |-> escape, frames |-> frames]
<1>1. p \in Place /\ p.req \in Nat \ {0} /\ p.at \in Nat /\ p.half \in 1..2
  BY DEF Placed, Place
<1>2. r \in Seq(Byte) /\ p.at \in 1..Len(r)
  BY <1>1, RequestTypes DEF Placed, Delimiter, Closes
<1>3. /\ data' = DecodeByte(d, chunk.from).data
      /\ escape' = DecodeByte(d, chunk.from).escape
      /\ frames' = DecodeByte(d, chunk.from).frames
      /\ requests' = requests
  BY DEF Decode
<1>4. Delimiter(p)' = Delimiter(p) /\ Special(p)' = Special(p)
  BY <1>3 DEF Delimiter, Closes, Special
<1>5. Types /\ Has(r, p.at - 1) /\ p.at <= FrameMax
  BY <1>2, LineAssumption DEF Ready
<1>6. Keep(d, r[p.at]) = [data |-> Append(data, r[p.at]), escape |-> FALSE, frames |-> frames]
  <2>1. d.data = data /\ ~(Len(data) >= FrameMax)
    BY <1>2, <1>5, LineAssumption DEF Has
  <2> QED  BY <2>1 DEF Keep
<1>7. CASE Special(p) /\ p.half = 1
  <2>1. ByteAt(p) = Esc
    BY <1>7 DEF ByteAt
  <2>2. data' = data /\ escape' = TRUE /\ frames' = frames
    BY <1>3, <2>1, LineAssumption DEF DecodeByte, End, Esc, EscEnd, EscEsc
  <2> QED  BY <1>3, <1>4, <1>7, <2>2 DEF Ready, Holds, Has
<1>8. CASE Special(p) /\ p.half = 2
  <2>1. r[p.at] \in {End, Esc} /\ escape
    BY <1>8 DEF Special, Ready
  <2>2. ByteAt(p) = IF r[p.at] = End THEN EscEnd ELSE EscEsc
    BY <1>8 DEF ByteAt, Special, Delimiter
  <2>3. DecodeByte(d, chunk.from) = Keep(d, r[p.at])
    BY <2>1, <2>2, LineAssumption DEF DecodeByte, End, Esc, EscEnd, EscEsc
  <2>4. /\ Len(Append(data, r[p.at])) = p.at
        /\ \A j \in 1..p.at : Append(data, r[p.at])[j] = r[j]
    <3> HIDE DEF d, r
    <3> QED  BY <1>2, <1>5, AppendHas
  <2>5. data' = Append(data, r[p.at]) /\ ~escape' /\ frames' = frames
    BY <1>3, <1>6, <2>3
  <2> QED  BY <1>3, <1>4, <1>8, <2>4, <2>5 DEF Holds, Has
<1>9. CASE ~Special(p)
  <2>1. r[p.at] \in Byte \ {End, Esc} /\ ~escape
    BY <1>2, <1>9 DEF Special, Ready
  <2>2. ByteAt(p) = r[p.at]
    BY <1>9 DEF ByteAt
  <2>3. DecodeByte(d, chunk.from) = Keep(d, r[p.at])
    BY <2>1, <2>2 DEF DecodeByte, End, Esc, EscEnd, EscEsc
  <2>4. /\ Len(Append(data, r[p.at])) = p.at
        /\ \A j \in 1..p.at : Append(data, r[p.at])[j] = r[j]
    <3> HIDE DEF d, r
    <3> QED  BY <1>2, <1>5, AppendHas
  <2>5. data' = Append(data, r[p.at]) /\ ~escape' /\ frames' = frames
    BY <1>3, <1>6, <2>3
  <2> QED  BY <1>3, <1>4, <1>9, <2>4, <2>5 DEF Holds, Has
<1> QED  BY <1>1, <1>7, <1>8, <1>9

\* Whatever was lost, the decoder has bytes, and passes on frames only at delimiters.
LEMMA DecodeTypes ==
  ASSUME Types, Decode, Placed(stream[chunk.from])
  PROVE  /\ data' \in Seq(Byte) /\ escape' \in BOOLEAN
         /\ Delimiter(stream[chunk.from]) \/ frames' = frames
<1> DEFINE p == stream[chunk.from]
           d == [data |-> data, escape |-> escape, frames |-> frames]
<1>1. p \in Place /\ p.req \in Nat \ {0} /\ p.at \in Nat /\ p.half \in 1..2
  BY DEF Placed, Place
<1>2. /\ data' = DecodeByte(d, chunk.from).data
      /\ escape' = DecodeByte(d, chunk.from).escape
      /\ frames' = DecodeByte(d, chunk.from).frames
  BY DEF Decode
<1>3. CASE Delimiter(p)
  BY <1>3, DelimiterDecoded, EmptySeq
<1>4. CASE ~Delimiter(p)
  <2>1. requests[p.req] \in Seq(Byte) /\ p.at \in 1..Len(requests[p.req])
    BY <1>1, <1>4, RequestTypes DEF Placed, Delimiter, Closes
  <2>2. ByteAt(p) \in Byte \ {End}
    BY <1>1, <1>4, <2>1 DEF ByteAt, Special, Byte, End, Esc, EscEnd, EscEsc
  <2>3. /\ Abandon(d).data = <<>> /\ Abandon(d).escape = FALSE
        /\ Abandon(d).frames = frames
    BY DEF Abandon
  <2>4. /\ Abandon(d).data \in Seq(Byte) /\ Abandon(d).escape \in BOOLEAN
        /\ Abandon(d).frames = frames
    BY <2>3, EmptySeq
  <2>5. \A b \in Byte : /\ Keep(d, b).data \in Seq(Byte) /\ Keep(d, b).escape \in BOOLEAN
                        /\ Keep(d, b).frames = frames
    <3> SUFFICES ASSUME NEW b \in Byte
                 PROVE  /\ Keep(d, b).data \in Seq(Byte) /\ Keep(d, b).escape \in BOOLEAN
                        /\ Keep(d, b).frames = frames
      OBVIOUS
    <3>1. Append(data, b) \in Seq(Byte)
      BY AppendProperties DEF Types
    <3>2. CASE Len(data) >= FrameMax
      BY <2>4, <3>2 DEF Keep
    <3>3. CASE ~(Len(data) >= FrameMax)
      <4>1. Keep(d, b) = [d EXCEPT !.data = Append(data, b), !.escape = FALSE]
        BY <3>3 DEF Keep
      <4>2. /\ Keep(d, b).data = Append(data, b) /\ Keep(d, b).escape = FALSE
            /\ Keep(d, b).frames = frames
        BY <4>1
      <4> QED  BY <3>1, <4>2
    <3> QED  BY <3>2, <3>3
  <2>6. DecodeByte(d, chunk.from) \in
           {[d EXCEPT !.escape = TRUE], Abandon(d)} \cup {Keep(d, b) : b \in Byte}
    <3> HIDE DEF d
    <3> QED  BY <2>2 DEF DecodeByte, Byte
  <2>7. CASE DecodeByte(d, chunk.from) = [d EXCEPT !.escape = TRUE]
    BY <1>2, <2>7 DEF Types
  <2> QED  BY <1>2, <2>4, <2>5, <2>6, <2>7
<1> QED  BY <1>3, <1>4

------------------------------------------------------------------------------
(***************************************************************************)
(* The steps                                                               *)
(***************************************************************************)
LEMMA LineInitHolds == LineInit => LineInv
<1> SUFFICES ASSUME LineInit  PROVE  LineInv
  OBVIOUS
<1>1. Types
  BY EmptySeq DEF LineInit, Types
<1>2. Len(stream) = 0 /\ Len(queue) = 0
  BY DEF LineInit
<1> QED  BY <1>1, <1>2
         DEF LineInit, LineInv, Chain, Flow, Ordered, Accounted, Decoded, FramesPast, IntactRequestsArrive

LEMMA SendKeeps ==
  ASSUME LineInv, Send
  PROVE  LineInv'
<1> USE DEF LineInv
<1> DEFINE n == Len(stream)
<1>1. /\ stream \in Seq(Place) /\ n \in Nat
      /\ requests' = requests /\ seen' = seen /\ queue' = queue /\ chunk' = chunk
      /\ data' = data /\ escape' = escape /\ frames' = frames /\ lost' = lost
  BY DEF Types, Send
<1>2. Placed(Following)
  <2>1. CASE n = 0
    <3>1. Following = First(1) /\ 1 <= Len(requests)
      BY <1>1, <2>1 DEF Following, First, Send
    <3>2. Len(requests[1]) \in Nat \ {0}
      BY <3>1, RequestTypes
    <3> QED  BY <3>1, <3>2 DEF First, Placed, Place
  <2>2. CASE n > 0
    <3>1. Following = After(stream[n]) /\ Placed(stream[n])
      BY <1>1, <2>2 DEF Following, Chain
    <3> QED  BY <3>1, AfterPlaced DEF Send
  <2> QED  BY <1>1, <2>1, <2>2
<1>3. /\ stream' \in Seq(Place) /\ Len(stream') = n + 1
      /\ \A m \in 1..n : stream'[m] = stream[m]
      /\ stream'[n + 1] = Following
  BY <1>1, <1>2, AppendProperties DEF Send, Placed
<1>4. Types'
  BY <1>1, <1>3 DEF Types
<1>5. Chain'
  <2>1. \A p : Placed(p)' = Placed(p) /\ After(p)' = After(p)
    BY <1>1 DEF Placed, Special, Delimiter, Closes, After
  <2>2. \A m \in 1..n + 1 : m \in 1..n \/ m = n + 1
    BY <1>1
  <2>3. n = 0 => Following = First(1)
    BY <1>1 DEF Following
  <2>4. n > 0 => Following = After(stream[n])
    BY <1>1 DEF Following
  <2> QED  BY <1>1, <1>2, <1>3, <2>1, <2>2, <2>3, <2>4 DEF Chain
<1>6. Flow'
  BY <1>1, <1>3 DEF Flow, Ordered, Accounted, Queued, Types
<1>7. \A m \in lost : m \in 1..n
  BY <1>1 DEF Flow, Ordered, Types
<1>8. /\ \A m \in 1..n : stream[m] \in Place
      /\ chunk.from \in Nat /\ chunk.from - 1 <= n /\ chunk.from >= 1
      /\ Len(stream) + 1 = Len(stream')
  BY <1>1, <1>3 DEF Flow, Ordered, Types
<1>9. \A p : Holds(p)' = Holds(p) /\ Closes(p)' = Closes(p)
  BY <1>1 DEF Holds, Has, Special, Delimiter, Closes
<1>10. \A k, m : Whole(k, m)' = Whole(k, m) /\ Intact(k)' = Intact(k)
  BY <1>1, <1>3, <1>7 DEF Whole, Intact
<1>11. Decoded'
  BY <1>1, <1>3, <1>8, <1>9, <1>10 DEF Decoded
<1>12. IntactRequestsArrive'
  <2>1. \A m \in 1..n + 1 : m < chunk.from => m \in 1..n /\ stream'[m] = stream[m]
    BY <1>1, <1>3, <1>8
  <2>2. \A m : Given(m)' = Given(m)
    BY <1>1 DEF Given
  <2> QED  BY <1>1, <1>3, <1>9, <1>10, <2>1, <2>2 DEF IntactRequestsArrive
<1> QED  BY <1>1, <1>4, <1>5, <1>6, <1>11, <1>12 DEF FramesPast

LEMMA ArriveKeeps ==
  ASSUME LineInv, Arrive
  PROVE  LineInv'
<1> USE DEF LineInv
<1> DEFINE new == [from |-> seen + 1, to |-> Len(stream)]
<1>1. /\ requests' = requests /\ stream' = stream /\ chunk' = chunk
      /\ data' = data /\ escape' = escape /\ frames' = frames
      /\ seen' = Len(stream) /\ Len(stream) \in Nat /\ Len(queue) \in Nat
  BY DEF Types, Arrive
<1>2. /\ seen \in Nat /\ chunk.to \in Nat /\ seen < Len(stream)
      /\ queue \in Seq([from : Nat, to : Nat])
  BY DEF Types, Arrive
<1>3. \A i \in 1..Len(queue) : queue[i].from \in Nat /\ queue[i].to \in Nat
  <2>1. \A i \in 1..Len(queue) : queue[i] \in [from : Nat, to : Nat]
    BY <1>2, ElementOfSeq
  <2> QED  BY <2>1
<1>4. ASSUME Len(queue) < QueueDepth  PROVE  Types' /\ Flow'
  <2>1. queue' = Append(queue, new) /\ lost' = lost
    BY <1>4 DEF Arrive
  <2>2. /\ queue' \in Seq([from : Nat, to : Nat]) /\ Len(queue') = Len(queue) + 1
        /\ \A i \in 1..Len(queue) : queue'[i] = queue[i]
        /\ queue'[Len(queue) + 1] = new
    BY <1>1, <1>2, <2>1, AppendProperties
  <2>3. Types'
    BY <1>1, <2>1, <2>2 DEF Types
  <2>4. \A i \in 1..Len(queue) + 1 : i \in 1..Len(queue) \/ i = Len(queue) + 1
    BY <1>1
  <2>5. \A i \in 1..Len(queue) + 1 :
          /\ chunk.to < queue'[i].from /\ queue'[i].from <= queue'[i].to
          /\ queue'[i].to <= seen'
    <3> TAKE i \in 1..Len(queue) + 1
    <3>1. CASE i \in 1..Len(queue)
      <4>1. queue'[i] = queue[i] /\ queue[i].to \in Nat
        BY <1>3, <2>2, <3>1
      <4>2. /\ chunk.to < queue[i].from /\ queue[i].from <= queue[i].to
            /\ queue[i].to <= seen
        BY <3>1 DEF Flow, Ordered
      <4> QED  BY <1>1, <1>2, <4>1, <4>2
    <3>2. CASE i = Len(queue) + 1
      BY <1>1, <1>2, <2>2, <3>2 DEF Flow, Ordered
    <3> QED  BY <2>4, <3>1, <3>2
  <2>6. \A i, j \in 1..Len(queue) + 1 : i < j => queue'[i].to < queue'[j].from
    <3> TAKE i, j \in 1..Len(queue) + 1
    <3> HAVE i < j
    <3>1. i \in 1..Len(queue)
      BY <1>1
    <3>2. CASE j \in 1..Len(queue)
      BY <2>2, <3>1, <3>2 DEF Flow, Ordered
    <3>3. CASE j = Len(queue) + 1
      <4>1. queue[i].to \in Nat /\ queue[i].to <= seen
        BY <1>3, <3>1 DEF Flow, Ordered
      <4>2. queue'[i].to = queue[i].to /\ queue'[j].from = seen + 1
        BY <2>2, <3>1, <3>3
      <4> QED  BY <1>2, <4>1, <4>2
    <3> QED  BY <2>4, <3>2, <3>3
  <2>7. Ordered'
    <3>1. \A m \in lost' : m \in 1..seen'
      BY <1>1, <1>2, <2>1 DEF Flow, Ordered
    <3>2. chunk.to <= seen' /\ seen' <= Len(stream)
      BY <1>1, <1>2 DEF Flow, Ordered
    <3> QED  BY <1>1, <2>2, <2>5, <2>6, <3>1, <3>2 DEF Flow, Ordered
  <2>8. Accounted'
    <3> SUFFICES ASSUME NEW m \in 1..seen', ~(m <= chunk.to), m \notin lost
                 PROVE  Queued(m)'
      BY <1>1, <2>1 DEF Accounted
    <3>1. CASE m \in 1..seen
      <4>1. PICK i \in 1..Len(queue) : m \in queue[i].from..queue[i].to
        BY <3>1 DEF Flow, Accounted, Queued
      <4>2. i \in 1..Len(queue') /\ m \in queue'[i].from..queue'[i].to
        BY <1>1, <2>2, <4>1
      <4> QED  BY <4>2 DEF Queued
    <3>2. CASE m \in seen + 1..Len(stream)
      <4>1. Len(queue) + 1 \in 1..Len(queue')
        BY <1>1, <2>2
      <4>2. m \in queue'[Len(queue) + 1].from..queue'[Len(queue) + 1].to
        BY <2>2, <3>2
      <4> QED  BY <4>1, <4>2 DEF Queued
    <3> QED  BY <1>1, <1>2, <3>1, <3>2
  <2> QED  BY <2>3, <2>7, <2>8 DEF Flow
<1>5. ASSUME ~(Len(queue) < QueueDepth)  PROVE  Types' /\ Flow'
  <2>1. queue' = queue /\ lost' = lost \cup seen + 1..Len(stream)
    BY <1>5 DEF Arrive
  <2>2. Types'
    <3>1. seen + 1..Len(stream) \subseteq Nat
      BY <1>1, <1>2
    <3>2. lost' \subseteq Nat
      BY <2>1, <3>1 DEF Types
    <3> QED  BY <1>1, <2>1, <3>2 DEF Types
  <2>3. \A m \in lost' : m \in 1..seen'
    BY <1>1, <1>2, <2>1 DEF Flow, Ordered
  <2>4. \A i \in 1..Len(queue) : queue[i].to <= seen'
    BY <1>1, <1>2, <1>3 DEF Flow, Ordered
  <2>5. chunk.to <= seen' /\ seen' <= Len(stream)
    BY <1>1, <1>2 DEF Flow, Ordered
  <2>6. Ordered'
    BY <1>1, <2>1, <2>3, <2>4, <2>5 DEF Flow, Ordered
  <2>7. \A m \in 1..seen' : m \in 1..seen \/ m \in lost'
    BY <1>1, <1>2, <2>1
  <2>8. Accounted'
    BY <1>1, <2>1, <2>7 DEF Flow, Accounted, Queued
  <2> QED  BY <2>2, <2>6, <2>8 DEF Flow
<1>6. Types' /\ Flow'
  BY <1>4, <1>5
<1>7. lost \subseteq lost'
  BY DEF Arrive
<1>8. Decoded'
  <2>1. \A k, m : Whole(k, m)' => Whole(k, m)
    BY <1>1, <1>7 DEF Whole
  <2>2. \A p : Holds(p)' = Holds(p)
    BY <1>1 DEF Holds, Has, Special, Delimiter, Closes
  <2> QED  BY <1>1, <2>1, <2>2 DEF Decoded
<1>9. IntactRequestsArrive'
  <2>1. \A k : Intact(k)' => Intact(k)
    BY <1>1, <1>7 DEF Intact
  <2>2. \A m : Given(m)' = Given(m)
    BY <1>1 DEF Given
  <2> QED  BY <1>1, <2>1, <2>2 DEF IntactRequestsArrive, Closes
<1>10. Chain'
  BY <1>1 DEF Chain, Placed, Special, Delimiter, Closes, After
<1> QED  BY <1>1, <1>6, <1>8, <1>9, <1>10 DEF FramesPast

\* Between one message and the next everything was lost, so the request that the
\* next one goes on with, or begins with, is either the one at hand or incomplete.
LEMMA ReceiveKeeps ==
  ASSUME LineInv, Receive
  PROVE  LineInv'
<1> USE DEF LineInv
<1>1. /\ requests' = requests /\ stream' = stream /\ seen' = seen /\ lost' = lost
      /\ data' = data /\ escape' = escape /\ frames' = frames
      /\ queue # <<>> /\ chunk' = Head(queue) /\ queue' = Tail(queue)
  BY DEF Receive
<1>2. /\ seen \in Nat /\ queue \in Seq([from : Nat, to : Nat]) /\ Len(stream) \in Nat
      /\ chunk.from \in Nat /\ chunk.to \in Nat /\ chunk.from = chunk.to + 1
  <2>1. /\ seen \in Nat /\ queue \in Seq([from : Nat, to : Nat]) /\ Len(stream) \in Nat
        /\ chunk.from \in Nat /\ chunk.to \in Nat
    BY DEF Types
  <2>2. chunk.from > chunk.to
    BY DEF Receive
  <2>3. chunk.from <= chunk.to + 1
    BY DEF Flow, Ordered
  <2> QED  BY <2>1, <2>2, <2>3
<1>3. /\ Len(queue) \in Nat \ {0} /\ chunk' = queue[1]
      /\ queue' \in Seq([from : Nat, to : Nat]) /\ Len(queue') = Len(queue) - 1
      /\ \A i \in 1..Len(queue') : queue'[i] = queue[i + 1]
  BY <1>1, <1>2, HeadTailProperties, EmptySeq
<1>4. \A i \in 1..Len(queue) : queue[i].from \in Nat /\ queue[i].to \in Nat
  <2>1. \A i \in 1..Len(queue) : queue[i] \in [from : Nat, to : Nat]
    BY <1>2, ElementOfSeq
  <2> QED  BY <2>1
<1>5. Types'
  <2>1. chunk' \in [from : Nat, to : Nat]
    <3>1. 1 \in 1..Len(queue)
      BY <1>3
    <3> QED  BY <1>2, <1>3, <3>1, ElementOfSeq
  <2> QED  BY <1>1, <1>3, <2>1 DEF Types
<1>6. /\ chunk.to < chunk'.from /\ chunk'.from <= chunk'.to /\ chunk'.to <= seen
      /\ chunk'.from \in Nat /\ chunk'.to \in Nat
  BY <1>3, <1>4 DEF Flow, Ordered
<1>7. \A i \in 1..Len(queue') : i + 1 \in 1..Len(queue)
  BY <1>3
<1>8. Ordered'
  <2>1. \A i \in 1..Len(queue') :
          chunk'.to < queue'[i].from /\ queue'[i].from <= queue'[i].to /\ queue'[i].to <= seen
    <3> TAKE i \in 1..Len(queue')
    <3>1. /\ i + 1 \in 1..Len(queue) /\ 1 \in 1..Len(queue) /\ 1 < i + 1
          /\ queue'[i] = queue[i + 1]
      BY <1>3, <1>7
    <3> QED  BY <1>3, <3>1 DEF Flow, Ordered
  <2>2. \A i, j \in 1..Len(queue') : i < j => queue'[i].to < queue'[j].from
    <3> TAKE i, j \in 1..Len(queue')
    <3> HAVE i < j
    <3>1. /\ i + 1 \in 1..Len(queue) /\ j + 1 \in 1..Len(queue) /\ i + 1 < j + 1
          /\ queue'[i] = queue[i + 1] /\ queue'[j] = queue[j + 1]
      BY <1>3, <1>7
    <3> QED  BY <3>1 DEF Flow, Ordered
  <2>3. chunk'.from >= 1 /\ chunk'.from <= chunk'.to + 1
    BY <1>2, <1>6
  <2> QED  BY <1>1, <1>6, <2>1, <2>2, <2>3 DEF Flow, Ordered
<1>9. Accounted'
  <2> SUFFICES ASSUME NEW m \in 1..seen, ~(m <= chunk'.to), m \notin lost
               PROVE  Queued(m)'
    BY <1>1 DEF Accounted
  <2>1. ~(m <= chunk.to)
    BY <1>2, <1>6
  <2>2. PICK i \in 1..Len(queue) : m \in queue[i].from..queue[i].to
    BY <2>1 DEF Flow, Accounted, Queued
  <2>3. i # 1
    BY <1>3, <1>6, <2>2
  <2>4. i - 1 \in 1..Len(queue') /\ queue'[i - 1] = queue[i]
    BY <1>3, <2>3
  <2> QED  BY <2>2, <2>4 DEF Queued
<1>10. \A m \in chunk.from..chunk'.from - 1 : m \in lost
  <2> SUFFICES ASSUME NEW m \in chunk.from..chunk'.from - 1, m \notin lost
               PROVE  FALSE
    OBVIOUS
  <2>1. m \in 1..seen /\ ~(m <= chunk.to) /\ m < queue[1].from
    <3>1. m \in Nat /\ chunk.from <= m /\ m < chunk'.from
      BY <1>2, <1>6
    <3>2. m >= 1
      BY <1>2, <3>1
    <3> QED  BY <1>2, <1>3, <1>6, <3>1, <3>2
  <2>2. PICK i \in 1..Len(queue) : m \in queue[i].from..queue[i].to
    BY <2>1 DEF Flow, Accounted, Queued
  <2>3. i # 1
    BY <1>4, <2>1, <2>2
  <2>4. queue[1].to < queue[i].from /\ queue[1].from <= queue[1].to
    BY <1>3, <2>3 DEF Flow, Ordered
  <2> QED  BY <1>3, <1>4, <2>1, <2>2, <2>4
<1>11. Decoded'
  <2> DEFINE n == chunk'.from - 1
  <2>1. \A p : Holds(p)' = Holds(p)
    BY <1>1 DEF Holds, Has, Special, Delimiter, Closes
  <2>2. \A k, m : Whole(k, m)' = Whole(k, m)
    BY <1>1 DEF Whole
  <2>3. CASE chunk'.from = chunk.from
    BY <1>1, <2>1, <2>2, <2>3 DEF Decoded
  <2>4. CASE chunk'.from # chunk.from
    <3>1. n \in lost /\ n # 0 /\ n <= n
      BY <1>2, <1>6, <1>10, <2>4 DEF Flow, Ordered
    <3>2. ~Whole(stream[n].req, n)
      BY <3>1 DEF Whole
    <3> QED  BY <1>1, <2>2, <3>1, <3>2 DEF Decoded
  <2> QED  BY <2>3, <2>4
<1>12. FramesPast'
  BY <1>1, <1>2, <1>6 DEF FramesPast
<1>13. IntactRequestsArrive'
  <2>1. \A m : Given(m)' = Given(m)
    BY <1>1 DEF Given
  <2>2. \A k : Intact(k)' = Intact(k)
    BY <1>1 DEF Intact
  <2> SUFFICES ASSUME NEW m \in 1..Len(stream), m < chunk'.from
               PROVE  LET p == stream[m]
                      IN  /\ Closes(p) /\ Intact(p.req) =>
                               Given(m) = {[end |-> m, data |-> requests[p.req]]}
                          /\ p.at = 0 /\ p.req > 1 /\ Intact(p.req - 1) => Given(m) = {}
    BY <1>1, <2>1, <2>2 DEF IntactRequestsArrive, Closes
  <2>3. CASE m < chunk.from
    BY <2>3 DEF IntactRequestsArrive
  <2>4. CASE ~(m < chunk.from)
    <3>1. m \in lost
      <4>1. m \in chunk.from..chunk'.from - 1
        BY <1>2, <1>6, <2>4
      <4> QED  BY <1>10, <4>1
    <3>2. ~Intact(stream[m].req)
      BY <3>1 DEF Intact
    <3>3. Given(m) = {}
      BY <1>2, <2>4 DEF Given, FramesPast
    <3> QED  BY <3>2, <3>3
  <2> QED  BY <2>3, <2>4
<1>14. Chain'
  BY <1>1 DEF Chain, Placed, Special, Delimiter, Closes, After
<1> QED  BY <1>5, <1>8, <1>9, <1>11, <1>12, <1>13, <1>14 DEF Flow

LEMMA DecodeKeeps ==
  ASSUME LineInv, Decode, NEW n, n = chunk.from
  PROVE  LineInv'
<1> USE DEF LineInv
<1>1. /\ requests' = requests /\ stream' = stream /\ seen' = seen /\ lost' = lost
      /\ queue' = queue /\ chunk' = [chunk EXCEPT !.from = n + 1] /\ n <= chunk.to
  BY DEF Decode
<1>2. /\ chunk \in [from : Nat, to : Nat] /\ stream \in Seq(Place)
      /\ n \in Nat /\ n \in 1..Len(stream) /\ chunk'.from = n + 1 /\ chunk'.to = chunk.to
  BY <1>1 DEF Types, Flow, Ordered
<1>3. PICK p : p = stream[n]
  OBVIOUS
<1>4. Placed(p) /\ p \in Place /\ (n = 1 => p = First(1)) /\ (n > 1 => p = After(stream[n - 1]))
  BY <1>2, <1>3 DEF Chain, Placed
<1>5. /\ data' \in Seq(Byte) /\ escape' \in BOOLEAN
      /\ Delimiter(p) \/ frames' = frames
  BY <1>3, <1>4, DecodeTypes
<1>6. Delimiter(p) => /\ data' = <<>> /\ escape' = FALSE
                      /\ frames' = IF data = <<>> THEN frames
                                   ELSE frames \cup {[end |-> n, data |-> data]}
  BY <1>3, DelimiterDecoded
<1>7. /\ Given(n) = {}
      /\ \A m \in 1..n - 1 : Given(m)' = Given(m)
      /\ Delimiter(p) => Given(n)' = IF data = <<>> THEN {} ELSE {[end |-> n, data |-> data]}
      /\ ~Delimiter(p) => Given(n)' = {}
      /\ \A f \in frames' : f.end \in Nat /\ f.end < n + 1
  BY <1>2, <1>5, <1>6 DEF Given, FramesPast
\* What the decoder has before it
<1>8. ASSUME p.at # 0, Whole(p.req, n)
      PROVE  Ready(p)
  <2>1. n > 1
    BY <1>2, <1>4, <1>8 DEF First
  <2>2. PICK q : q = stream[n - 1]
    OBVIOUS
  <2>3. Placed(q) /\ p = After(q)
    BY <1>2, <1>4, <2>1, <2>2 DEF Chain
  <2>4. q.req = p.req /\ (Holds(q) => Ready(p))
    BY <1>8, <2>3, HoldsReady
  <2>5. Whole(q.req, n - 1)
    BY <1>2, <1>8, <2>4 DEF Whole, Types
  <2> QED  BY <1>2, <2>1, <2>2, <2>4, <2>5 DEF Decoded
<1>9. ASSUME p.at = 0, p.req > 1, Intact(p.req - 1)
      PROVE  data = <<>>
  <2>1. n > 1
    BY <1>2, <1>4, <1>9 DEF First
  <2>2. PICK q : q = stream[n - 1]
    OBVIOUS
  <2>3. Placed(q) /\ q \in Place /\ p = After(q)
    <3>1. n - 1 \in 1..Len(stream)
      BY <1>2, <2>1
    <3> QED  BY <1>4, <2>1, <2>2, <3>1 DEF Chain, Placed
  <2>4. Closes(q) /\ p.req = q.req + 1
    BY <1>9, <2>3, BeginsAfterEnd
  <2>5. Intact(q.req)
    BY <1>9, <2>3, <2>4 DEF Place
  <2>6. Whole(q.req, n - 1)
    BY <2>5 DEF Whole, Intact
  <2>7. Holds(q)
    BY <1>2, <2>1, <2>2, <2>6 DEF Decoded
  <2> QED  BY <2>4, <2>7 DEF Holds, Delimiter
<1>10. Types'
  BY <1>1, <1>2, <1>5 DEF Types
<1>11. Chain'
  BY <1>1 DEF Chain, Placed, Special, Delimiter, Closes, After
<1>12. Flow'
  <2>1. Ordered'
    BY <1>1, <1>2 DEF Flow, Ordered
  <2>2. Accounted'
    BY <1>1, <1>2 DEF Flow, Accounted, Queued
  <2> QED  BY <2>1, <2>2 DEF Flow
<1>13. Decoded'
  <2>1. chunk'.from - 1 = n /\ n # 0
    BY <1>2
  <2>2. ASSUME Whole(p.req, n)
        PROVE  Holds(p)'
    <3>1. CASE Delimiter(p)
      <4>1. Delimiter(p)'
        BY <1>1, <3>1 DEF Delimiter, Closes
      <4> QED  BY <1>6, <3>1, <4>1 DEF Holds
    <3>2. CASE ~Delimiter(p)
      <4>1. p.at # 0 /\ Len(requests[p.req]) <= FrameMax
        BY <2>2, <3>2 DEF Delimiter, Whole
      <4>2. Ready(p)
        BY <1>8, <2>2, <4>1
      <4> QED  BY <1>3, <1>4, <3>2, <4>1, <4>2, ByteDecoded
    <3> QED  BY <3>1, <3>2
  <2>3. Whole(p.req, n)' = Whole(p.req, n)
    BY <1>1, <1>2 DEF Whole
  <2> QED  BY <1>1, <1>3, <2>1, <2>2, <2>3 DEF Decoded
<1>14. FramesPast'
  BY <1>2, <1>7 DEF FramesPast
<1>15. IntactRequestsArrive'
  <2>1. \A k : Intact(k)' = Intact(k)
    BY <1>1 DEF Intact
  <2>2. \A x : Closes(x)' = Closes(x)
    BY <1>1 DEF Closes
  <2>3. \A m \in 1..Len(stream) : m < n + 1 => m = n \/ (m \in 1..n - 1 /\ m < n)
    <3>1. n \in Nat /\ Len(stream) \in Nat
      BY <1>2
    <3> QED  BY <3>1
  <2>4. ASSUME Closes(p), Intact(p.req)
        PROVE  Given(n)' = {[end |-> n, data |-> requests[p.req]]}
    <3>1. requests[p.req] \in Seq(Byte) /\ Len(requests[p.req]) \in Nat \ {0}
      BY <1>4, RequestTypes DEF Placed, Place
    <3>2. p.at # 0 /\ p.at - 1 = Len(requests[p.req]) /\ Delimiter(p)
      BY <1>4, <2>4, <3>1 DEF Closes, Delimiter, Place
    <3>3. Has(requests[p.req], Len(requests[p.req]))
      <4>1. Whole(p.req, n)
        BY <2>4 DEF Whole, Intact
      <4> QED  BY <1>8, <3>2, <4>1 DEF Ready
    <3>4. data = requests[p.req]
      BY <3>1, <3>3, SeqEqual DEF Has, Types
    <3>5. data # <<>>
      BY <3>1, <3>4
    <3> QED  BY <1>7, <3>2, <3>4, <3>5
  <2>5. ASSUME p.at = 0, p.req > 1, Intact(p.req - 1)
        PROVE  Given(n)' = {}
    BY <1>7, <1>9, <2>5
  <2> QED  BY <1>1, <1>2, <1>3, <1>7, <2>1, <2>2, <2>3, <2>4, <2>5 DEF IntactRequestsArrive
<1> QED  BY <1>10, <1>11, <1>12, <1>13, <1>14, <1>15

LEMMA LineInvHolds == LineSpec => []LineInv
<1>1. LineInv /\ [LineNext]_lineVars => LineInv'
  <2> SUFFICES ASSUME LineInv, [LineNext]_lineVars
               PROVE  LineInv'
    OBVIOUS
  <2>1. CASE UNCHANGED lineVars
    BY <2>1 DEF lineVars, LineInv, Types, Chain, Placed, First, After, Special, Delimiter, Closes,
                Flow, Ordered, Accounted, Queued, Decoded, Whole, Holds, Has, FramesPast,
                IntactRequestsArrive, Intact, Given
  <2>2. CASE Decode
    <3>1. PICK n : n = chunk.from
      OBVIOUS
    <3> QED  BY <2>2, <3>1, DecodeKeeps
  <2> QED  BY <2>1, <2>2, SendKeeps, ArriveKeeps, ReceiveKeeps DEF LineNext
<1> QED  BY <1>1, LineInitHolds, PTL DEF LineSpec

------------------------------------------------------------------------------
\* Whatever the host sends and whatever of it finds the queue full (cdc_rx_callback),
\* slip_decode_byte passes every request that fits and lost no byte to process_frame,
\* exactly as it was sent and exactly once.
THEOREM IntactRequestsArriveCorrect == LineSpec => []IntactRequestsArrive
  BY LineInvHolds, PTL DEF LineInv
==============================================================================
