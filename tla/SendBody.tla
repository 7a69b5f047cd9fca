------------------------------ MODULE SendBody ------------------------------
(***************************************************************************)
(* How an outgoing body gets onto the transport: BodyEncoder of            *)
(* src/src/proto/h1/encode.rs, send_body of src/src/proto/h1/body_io.rs    *)
(* and the owned write loops of src/src/io/send.rs, over a transport that  *)
(* takes any part of what it is given and keeps it until it is flushed.    *)
(* What the peer makes of the bytes is what module Decoder makes of them.  *)
(***************************************************************************)
EXTENDS Decoder

NoUpper == MaxSize + 1
NoBytes == [kind |-> "none", bytes |-> <<>>]

VARIABLES
    body,       \* what it declares and then yields: [mode, lower, upper, trailers, frames]
    next,       \* frames it has yielded
    enc,        \* BodyEncoder: [state, lower, upper]
    pc,         \* "poll", "flush", "wait", "write" or "done"
    out,        \* what is being written: kind and the bytes not yet accepted
    pending,    \* send_body's pending_output
    trailers_sent,
    canceled,   \* the cancellation token
    wire,       \* history: bytes the transport accepted
    unflushed,  \* the transport holds bytes that were not flushed
    recycled,   \* history: how often each data frame was recycled
    result

local == <<next, enc, pc, out, pending, trailers_sent, result>>
transport == <<wire, unflushed>>
vars == <<body, local, canceled, transport, recycled>>

-----------------------------------------------------------------------------
(* The encoder.  An encoding is the bytes to write and the encoder after.   *)

CRLF == <<"CR", "LF">>

\* BodyEncoder::new
Encodable(b) ==
    /\ b.mode.kind = "Fixed" => b.lower = b.mode.length /\ b.upper = b.mode.length /\ ~b.trailers
    /\ b.mode.kind = "UntilEof" => ~b.trailers

ChunkPrefix(length) == <<CHOOSE d \in DOMAIN Hex : Hex[d] = length>> \o CRLF

EmptyChunkSent(data) == ChunkPrefix(Len(data)) \o data \o CRLF

\* An empty frame must not look like the last chunk.
Framed(data) == IF data = <<>> THEN <<>> ELSE ChunkPrefix(Len(data)) \o data \o CRLF

Refused(e) == [ok |-> FALSE, bytes |-> <<>>, enc |-> [e EXCEPT !.state = "Failed"]]

EncodeData(e, data) ==
    IF e.state \in {"Failed", "Done", "None"} \/ Len(data) > e.upper
    THEN Refused(e)
    ELSE [ok |-> TRUE,
          bytes |-> IF e.state = "Chunked" THEN Framed(data) ELSE data,
          enc |-> [e EXCEPT !.lower = IF @ > Len(data) THEN @ - Len(data) ELSE 0,
                            !.upper = IF @ = NoUpper THEN @ ELSE @ - Len(data)]]

\* Fields are "allowed", "forbidden" (validate_trailers) or "too large"
\* (max_trailer_bytes).
EncodeTrailers(e, fields) ==
    IF e.state # "Chunked" \/ e.lower # 0 \/ ~body.trailers \/ fields # "allowed"
    THEN Refused(e)
    ELSE [ok |-> TRUE, bytes |-> <<"0">> \o CRLF \o <<"h">> \o CRLF \o CRLF, enc |-> [e EXCEPT !.state = "Done"]]

EncodeEnd(e) ==
    IF e.state \in {"Failed", "Done"} \/ (e.state # "None" /\ e.lower # 0)
    THEN Refused(e)
    ELSE [ok |-> TRUE, bytes |-> IF e.state = "Chunked" THEN <<"0">> \o CRLF \o CRLF ELSE <<>>,
          enc |-> [e EXCEPT !.state = "Done"]]

-----------------------------------------------------------------------------
\* Before the head is written.
Start(b) ==
    /\ body = b
    /\ next = 0 /\ pc = "poll" /\ out = NoBytes
    /\ enc = [state |-> body.mode.kind, lower |-> body.lower, upper |-> body.upper]
    /\ pending = TRUE /\ trailers_sent = FALSE /\ canceled = FALSE
    /\ wire = <<>> /\ unflushed = FALSE
    /\ recycled = [i \in DOMAIN body.frames |-> 0]
    /\ result = "none"

Return(how) == pc' = "done" /\ result' = how

Recycle(i) == recycled' = [recycled EXCEPT ![i] = @ + 1]

\* A write is complete; a data frame goes back to its producer.
Written(kind) ==
    /\ out' = NoBytes
    /\ \/ kind = "data" /\ Recycle(next') /\ pc' = "poll" /\ UNCHANGED <<trailers_sent, result>>
       \/ kind = "trailers" /\ trailers_sent' = TRUE /\ pc' = "poll" /\ UNCHANGED <<recycled, result>>
       \/ kind = "end" /\ Return("Ok") /\ UNCHANGED <<trailers_sent, recycled>>

\* Nothing to write is complete at once.
Submit(kind, encoding) ==
    /\ enc' = encoding.enc
    /\ IF encoding.bytes = <<>> THEN Written(kind)
       ELSE /\ out' = [kind |-> kind, bytes |-> encoding.bytes] /\ pc' = "write"
            /\ UNCHANGED <<trailers_sent, recycled, result>>

\* A refused frame is recycled before the error is returned.
Reject(kind, encoding) ==
    /\ enc' = encoding.enc
    /\ Return("Encode")
    /\ IF kind = "data" THEN Recycle(next') ELSE UNCHANGED recycled
    /\ UNCHANGED <<out, trailers_sent>>

\* The producer yields its next frame, or its end.
Yield ==
    LET last == next = Len(body.frames)
        frame == body.frames[next + 1]
        kind == IF last THEN "end" ELSE frame.kind
        encoding == CASE kind = "data" -> EncodeData(enc, frame.data)
                      [] kind = "trailers" -> EncodeTrailers(enc, frame.fields)
                      [] kind = "end" -> EncodeEnd(enc)
    IN  /\ next' = IF last THEN next ELSE next + 1
        /\ IF last /\ trailers_sent
           THEN Return("Ok") /\ UNCHANGED <<enc, out, trailers_sent, recycled>>
           ELSE IF encoding.ok THEN Submit(kind, encoding) ELSE Reject(kind, encoding)

Unaffected == UNCHANGED <<next, enc, out, trailers_sent, recycled>>

\* cancellable_wait looks at the token first; the producer yields or fails.
ProducerReady ==
    /\ pc \in {"poll", "wait"}
    /\ \/ canceled /\ Return("Canceled") /\ Unaffected
       \/ ~canceled /\ Yield
       \/ ~canceled /\ Return("Body") /\ Unaffected
    /\ UNCHANGED <<body, pending, canceled, transport>>

BeforeWaiting == IF pending THEN "flush" ELSE "wait"

\* The producer is not ready: what was written is flushed before it is awaited.
ProducerPends ==
    /\ pc = "poll" /\ ~canceled
    /\ pc' = BeforeWaiting
    /\ UNCHANGED <<body, next, enc, out, pending, trailers_sent, result, canceled, transport, recycled>>

Flush ==
    /\ pc = "flush"
    /\ \/ pc' = "wait" /\ pending' = FALSE /\ unflushed' = FALSE /\ UNCHANGED result
       \/ Return("Io") /\ UNCHANGED <<pending, unflushed>>
    /\ Unaffected
    /\ UNCHANGED <<body, canceled, wire>>

FailWrite ==
    /\ Return("Io")
    /\ IF out.kind = "data" THEN Recycle(next) ELSE UNCHANGED recycled
    /\ UNCHANGED <<next, out, pending, trailers_sent>>

\* The transport takes n bytes of what it was given, and is given the rest
\* unless that has been cancelled.
Write(n) ==
    /\ pc = "write" /\ n <= Len(out.bytes)
    /\ wire' = wire \o SubSeq(out.bytes, 1, n)
    /\ unflushed' = TRUE
    /\ \/ /\ n = Len(out.bytes)
          /\ UNCHANGED next /\ Written(out.kind)
          /\ pending' = TRUE
       \/ n < Len(out.bytes) /\ canceled /\ FailWrite
       \/ /\ n < Len(out.bytes) /\ ~canceled
          /\ out' = [out EXCEPT !.bytes = SubSeq(@, n + 1, Len(@))]
          /\ UNCHANGED <<next, pc, pending, trailers_sent, recycled, result>>
    /\ UNCHANGED <<body, enc, canceled>>

\* A write that fails, reports nothing or too much, or is cancelled.
WriteFails ==
    /\ pc = "write"
    /\ FailWrite
    /\ UNCHANGED <<body, enc, canceled, transport>>

Cancel ==
    /\ ~canceled /\ pc # "done"
    /\ canceled' = TRUE
    /\ UNCHANGED <<body, local, transport, recycled>>

Step ==
    \/ ProducerReady \/ ProducerPends \/ Flush \/ WriteFails
    \/ \E n \in 1 .. Len(out.bytes) : Write(n)

-----------------------------------------------------------------------------
(* What the peer makes of the bytes, read in one piece.                      *)

Turns == [i \in 1 .. 2 * Len(body.frames) + 3 |-> i]

Turn(peer, i) ==
    IF peer.over THEN peer
    ELSE LET r == Decode(peer.dec, SubSeq(wire, peer.used + 1, Len(wire)), pc = "done")
         IN  [dec |-> r.dec, used |-> peer.used + r.consumed, got |-> peer.got \o r.payload,
              over |-> r.out # "Data" \/ IsComplete(r.dec)]

Peer ==
    LET start == WithLimits(body.mode)
    IN  FoldLeft(Turn, [dec |-> start, used |-> 0, got |-> <<>>, over |-> IsComplete(start)], Turns)

Payload(frames) == FlattenSeq([i \in DOMAIN frames |-> frames[i].data])

\* The peer reads a prefix of what the body yielded; all of it when send_body
\* succeeds, to the last byte on the wire; and a chunked body that failed before
\* its trailers never looks complete.
PeerIsNotMisled ==
    /\ IsPrefix(Peer.got, Payload(body.frames))
    /\ result = "Ok" => /\ IsComplete(Peer.dec) /\ Peer.used = Len(wire)
                        /\ Peer.got = Payload(body.frames)
    /\ body.mode.kind = "Chunked" /\ IsComplete(Peer.dec) => result = "Ok" \/ trailers_sent
    /\ pc # "done" => Peer.dec.state # "Failed"

\* Nothing stays in the transport while the body's next frame is awaited.
NothingWithheld == pc = "wait" => ~unflushed

\* Every data frame the body yielded is recycled once, when its write is over,
\* whether it was written, refused or cut short.
RecycledOnce ==
    LET WritingData == pc = "write" /\ out.kind = "data" IN
    \A i \in DOMAIN body.frames :
        recycled[i] = IF body.frames[i].kind = "data" /\ (i < next \/ (i = next /\ ~WritingData)) THEN 1 ELSE 0

\* The promises of send_body to the peer and to whoever waits for output, under
\* partial, failing and cancelled writes.
SentFaithfully == PeerIsNotMisled /\ NothingWithheld
=============================================================================
