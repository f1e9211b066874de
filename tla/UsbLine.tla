------------------------------- MODULE UsbLine -------------------------------
(***************************************************************************)
(* The serial line below the requests (usb_link.c): the host sends one     *)
(* request after the other, each framed as send_slip_bytes frames the      *)
(* answers; the USB callback queues chunks of bytes for the protocol task, *)
(* or drops those that do not fit, and the task decodes them byte by byte. *)
(*                                                                         *)
(* The bytes sent are kept in stream, so that a chunk is an interval of    *)
(* it, and a byte is known by its number there.                            *)
(*                                                                         *)
(* A frame that lost bytes may come out mutilated.  process_frame tells it *)
(* by its checksum, so frames holds everything that is passed to it.       *)
(***************************************************************************)
EXTENDS Naturals, Sequences

CONSTANTS
    Plain,      \* the bytes without a meaning of their own
    FrameMax,   \* DAY_USB_FRAME_MAX
    QueueDepth, \* length of s_rx_queue
    ChunkMax,   \* size of a message in it
    Requests    \* the sequences of requests a host may send

End == 192
Esc == 219
EscEnd == 220
EscEsc == 221

Byte == {End, Esc, EscEnd, EscEsc} \cup Plain

ASSUME LineAssumption ==
    /\ Plain \subseteq 0..255 \ {End, Esc, EscEnd, EscEsc}
    /\ FrameMax \in Nat \ {0} /\ QueueDepth \in Nat \ {0} /\ ChunkMax \in Nat \ {0}
    /\ Requests \subseteq Seq(Seq(Byte) \ {<<>>})

VARIABLES
    requests,   \* what this host sends
    stream,     \* the places of the bytes sent so far
    seen,       \* number of bytes the callback has had
    queue,      \* s_rx_queue
    chunk,      \* what is left of the message that protocol_task works on
    data,       \* s_decoder.data
    escape,     \* s_decoder.escape
    frames,     \* what process_frame was given, and by the end of which byte
    lost        \* history: the bytes that were dropped

lineVars == <<requests, stream, seen, queue, chunk, data, escape, frames, lost>>

------------------------------------------------------------------------------
(***************************************************************************)
(* send_slip_bytes: place at of request req, between the delimiters at 0   *)
(* and behind its end; a special byte takes two.                           *)
(***************************************************************************)
Place == [req : Nat \ {0}, at : Nat, half : 1..2]

First(k) == [req |-> k, at |-> 0, half |-> 1]

Closes(p) == p.at = Len(requests[p.req]) + 1

Delimiter(p) == p.at = 0 \/ Closes(p)

Special(p) == ~Delimiter(p) /\ requests[p.req][p.at] \in {End, Esc}

ByteAt(p) ==
    CASE Delimiter(p) -> End
      [] Special(p) /\ p.half = 1 -> Esc
      [] Special(p) /\ p.half = 2 -> IF requests[p.req][p.at] = End THEN EscEnd ELSE EscEsc
      [] OTHER -> requests[p.req][p.at]

After(p) ==
    CASE Closes(p) -> First(p.req + 1)
      [] Special(p) /\ p.half = 1 -> [p EXCEPT !.half = 2]
      [] OTHER -> [p EXCEPT !.at = @ + 1, !.half = 1]

Following == IF stream = <<>> THEN First(1) ELSE After(stream[Len(stream)])

\* The host; the line holds no more than the callback takes at once.
Send ==
    /\ Len(stream) - seen < ChunkMax
    /\ Following.req <= Len(requests)
    /\ stream' = Append(stream, Following)
    /\ UNCHANGED <<requests, seen, queue, chunk, data, escape, frames, lost>>

------------------------------------------------------------------------------
(***************************************************************************)
(* slip_decode_byte, for byte number n                                     *)
(***************************************************************************)
Frames(d, n) == IF d.data = <<>> THEN d.frames ELSE d.frames \cup {[end |-> n, data |-> d.data]}

\* Mutant: the end of a frame leaves an escape pending.
EndKeepsEscape(d, n) == [d EXCEPT !.data = <<>>, !.frames = Frames(d, n)]

AtEnd(d, n) == [d EXCEPT !.data = <<>>, !.escape = FALSE, !.frames = Frames(d, n)]

Abandon(d) == [d EXCEPT !.data = <<>>, !.escape = FALSE]

Keep(d, byte) ==
    IF Len(d.data) >= FrameMax THEN Abandon(d)
    ELSE [d EXCEPT !.data = Append(@, byte), !.escape = FALSE]

DecodeByte(d, n) ==
    LET byte == ByteAt(stream[n])
    IN  CASE byte = End -> AtEnd(d, n)
          [] byte = Esc -> [d EXCEPT !.escape = TRUE]
          [] byte = EscEnd /\ d.escape -> Keep(d, End)
          [] byte = EscEsc /\ d.escape -> Keep(d, Esc)
          [] byte \in Plain /\ d.escape -> Abandon(d)
          [] OTHER -> Keep(d, byte)

------------------------------------------------------------------------------
\* cdc_rx_callback: a chunk that finds the queue full is gone.
Arrive ==
    /\ seen < Len(stream)
    /\ seen' = Len(stream)
    /\ IF Len(queue) < QueueDepth
         THEN /\ queue' = Append(queue, [from |-> seen + 1, to |-> Len(stream)])
              /\ UNCHANGED lost
         ELSE /\ lost' = lost \cup seen + 1..Len(stream)
              /\ UNCHANGED queue
    /\ UNCHANGED <<requests, stream, chunk, data, escape, frames>>

\* protocol_task takes a message, and decodes what is in it.
Receive ==
    /\ chunk.from > chunk.to
    /\ queue # <<>>
    /\ chunk' = Head(queue)
    /\ queue' = Tail(queue)
    /\ UNCHANGED <<requests, stream, seen, data, escape, frames, lost>>

Decode ==
    /\ chunk.from <= chunk.to
    /\ LET d == DecodeByte([data |-> data, escape |-> escape, frames |-> frames], chunk.from)
       IN  data' = d.data /\ escape' = d.escape /\ frames' = d.frames
    /\ chunk' = [chunk EXCEPT !.from = @ + 1]
    /\ UNCHANGED <<requests, stream, seen, queue, lost>>

LineNext == Send \/ Arrive \/ Receive \/ Decode

LineInit ==
    /\ requests \in Requests
    /\ stream = <<>> /\ seen = 0 /\ queue = <<>> /\ chunk = [from |-> 1, to |-> 0]
    /\ data = <<>> /\ escape = FALSE /\ frames = {} /\ lost = {}

LineSpec == LineInit /\ [][LineNext]_lineVars

------------------------------------------------------------------------------
\* A request of which every byte was queued, and that is no longer than the buffer
Intact(k) == Len(requests[k]) <= FrameMax /\ \A m \in lost : stream[m].req # k

\* What byte n made of the bytes before it
Given(n) == {f \in frames : f.end = n}

\* A request that loses bytes to the full queue, be they its delimiters or half of
\* an escape, or that is too long, costs nothing but itself: every other one is
\* passed on as it was sent when its last byte has been decoded, whatever the bytes
\* of any of them, and the delimiter that follows passes on nothing more.
IntactRequestsArrive ==
    \A n \in 1..Len(stream) :
      n < chunk.from =>
        LET p == stream[n]
        IN  /\ Closes(p) /\ Intact(p.req) => Given(n) = {[end |-> n, data |-> requests[p.req]]}
            /\ p.at = 0 /\ p.req > 1 /\ Intact(p.req - 1) => Given(n) = {}
==============================================================================
