------------------------------- MODULE Bodies -------------------------------
(***************************************************************************)
(* The body producers and adapters of src/src/body: every type that        *)
(* implements the Body trait except the received body, as one recursive    *)
(* definition of each method.  A body is a sequence of layers, the         *)
(* outermost adapter first and the source last.  A layer changes nothing   *)
(* before its only await, the call of the body below, so next_frame is one *)
(* step whose outcome is Pending exactly when the source's read is.        *)
(*                                                                         *)
(* Payload bytes are their positions in the source's output.  A data frame *)
(* carries the identity of its buffer, the source that allocated it and    *)
(* the Either variants it came through.                                    *)
(***************************************************************************)
EXTENDS Integers, Sequences, SequencesExt, FiniteSetsExt

\* SizeHint: bounds on the payload still to come; NoUpper is None.
NoUpper == -1
Exact(n) == [lower |-> n, upper |-> n]
Unknown == [lower |-> 0, upper |-> NoUpper]

\* What next_frame returns, and Pending while its read is.
Pending == [is |-> "pending"]
End == [is |-> "end"]
Yield(f) == [is |-> "frame", frame |-> f]
Failed(e) == [is |-> "error", error |-> e]

\* Frame: data in a buffer, or trailing fields.
DataFrame(bytes, buf, from) ==
  [kind |-> "data", bytes |-> bytes, buf |-> buf, from |-> from, route |-> << >>]
TrailersFrame(fields) == [kind |-> "trailers", fields |-> fields]
IsData(out) == out.is = "frame" /\ out.frame.kind = "data"
IsTrailers(out) == out.is = "frame" /\ out.frame.kind = "trailers"

\* Bytes first + 1 .. first + n of the source's output.
Bytes(first, n) == [i \in 1 .. n |-> first + i]

-----------------------------------------------------------------------------
(***************************************************************************)
(* Sources.  Empty and Full; a stream of frames behind StreamBody; an      *)
(* application's own Body (custom), which may break every promise; and the *)
(* owned reader and the file, whose reads are operations that complete on  *)
(* their own.                                                              *)
(***************************************************************************)

Empty(id) == [kind |-> "empty", id |-> id, returned |-> << >>]
Full(id, n) == [kind |-> "full", id |-> id, size |-> n, ready |-> TRUE, returned |-> << >>]

\* script: the items the stream or the application's body produces in turn,
\* <<"data", n>>, <<"trailers">>, <<"error">> or <<"end">>; after it, the end.
StreamBody(id, script) ==
  [kind |-> "stream", id |-> id, script |-> script, at |-> 0, sent |-> 0,
   done |-> FALSE, returned |-> << >>]
Custom(id, script, claim) ==
  [kind |-> "custom", id |-> id, script |-> script, at |-> 0, sent |-> 0,
   claim |-> claim, returned |-> << >>]

\* OwnedRead: the read the reader is idle or owned by, and one cached buffer.
Idle == [is |-> "idle"]
NoBuffer == 0
ReaderBody(id, chunk) ==
  [kind |-> "reader", id |-> id, chunk |-> chunk, op |-> Idle, spare |-> NoBuffer,
   buffers |-> 0, offset |-> 0, done |-> FALSE, returned |-> << >>]
FileBody(id, length, chunk) ==
  [kind |-> "file", id |-> id, snapshot |-> length, remaining |-> length,
   done |-> FALSE, reader |-> ReaderBody(id, chunk), returned |-> << >>]

Item(s) == IF s.at < Len(s.script) THEN s.script[s.at + 1] ELSE <<"end">>

\* One item of a script as an outcome; item number at + 1 owns buffer at + 1.
Scripted(s) ==
  CASE Item(s)[1] = "data" ->
         Yield(DataFrame(Bytes(s.sent, Item(s)[2]), s.at + 1, s.id))
    [] Item(s)[1] = "trailers" -> Yield(TrailersFrame(<<"own">>))
    [] Item(s)[1] = "error" -> Failed(<<"source">>)
    [] OTHER -> End

Advanced(s) ==
  [s EXCEPT !.at = Min({@ + 1, Len(s.script)}),
            !.sent = IF Item(s)[1] = "data" THEN @ + Item(s)[2] ELSE @]

\* What ends a body for good in the adapters that guard it: the first
\* outcome that is neither a frame nor Pending.
Ends(out) == out.is \in {"end", "error"}

\* StreamBody::next_frame: the first outcome that is no frame ends it.
StreamNext(s) ==
  IF s.done
  THEN [out |-> End, body |-> <<s>>]
  ELSE [out |-> Scripted(s),
        body |-> <<[Advanced(s) EXCEPT !.done = Ends(Scripted(s))]>>]

\* Full::next_frame
FullNext(s) ==
  [out |-> IF s.ready THEN Yield(DataFrame(Bytes(0, s.size), 1, s.id)) ELSE End,
   body |-> <<[s EXCEPT !.ready = FALSE]>>]

-----------------------------------------------------------------------------
(***************************************************************************)
(* OwnedRead: a read owns the reader and its buffer until it settles.      *)
(***************************************************************************)

\* A mutant: every wait submits its read anew.
RestartRead(r, width) ==
  [r EXCEPT !.op = [is |-> "pending", width |-> width,
                    buf |-> IF r.op # Idle THEN r.op.buf ELSE r.buffers + 1],
            !.buffers = IF r.op # Idle THEN @ ELSE @ + 1]

\* OwnedRead::read up to its await: an idle reader moves into a new
\* operation with the spare buffer or a fresh one; an outstanding operation
\* stays as it is, its width included.
StartRead(r, width) ==
  IF r.op # Idle THEN r
  ELSE [r EXCEPT !.op = [is |-> "pending", width |-> width,
                         buf |-> IF r.spare # NoBuffer THEN r.spare ELSE r.buffers + 1],
                 !.buffers = IF r.spare # NoBuffer THEN @ ELSE @ + 1,
                 !.spare = NoBuffer]

\* OwnedRead::recycle: one buffer is cached, another is dropped.
Cache(r, buf) == IF r.spare = NoBuffer THEN [r EXCEPT !.spare = buf] ELSE r

\* validate: progress that does not match the initialized bytes is an error.
Validate(op) ==
  IF \/ Len(op.bytes) > op.width
     \/ op.result.ok /\ (op.result.count > op.width \/ op.result.count # Len(op.bytes))
  THEN [ok |-> FALSE, error |-> "invalidData"]
  ELSE op.result

\* ReaderBody::next_chunk
NextChunk(r, width) ==
  IF r.done THEN [out |-> End, reader |-> r]
  ELSE
    LET started == StartRead(r, width)
        op == started.op
        idle == [started EXCEPT !.op = Idle]
    IN  IF op.is = "pending" THEN [out |-> Pending, reader |-> started]
        ELSE LET result == Validate(op) IN
             IF result.ok /\ result.count > 0
             THEN [out |-> Yield(DataFrame(op.bytes, op.buf, r.id)), reader |-> idle]
             ELSE [out |-> IF result.ok THEN End ELSE Failed(<<result.error>>),
                   reader |-> [Cache(idle, op.buf) EXCEPT !.done = TRUE]]

\* ReaderBody::next_frame
ReaderNext(s) ==
  LET chunk == NextChunk(s, s.chunk) IN [out |-> chunk.out, body |-> <<chunk.reader>>]

\* A mutant: the end of the file is the end of the body.
QuietFileEnd == End

\* FileBody::next_frame, the file ended before the snapshot.
FileEnded == Failed(<<"unexpectedEof">>)

\* FileBody::next_frame: no read past the snapshot; an earlier end of the
\* file is an error.
FileNext(s) ==
  IF s.done \/ s.remaining = 0
  THEN [out |-> End, body |-> <<[s EXCEPT !.done = TRUE]>>]
  ELSE
    LET chunk == NextChunk(s.reader, Min({s.remaining, s.reader.chunk}))
        read == [s EXCEPT !.reader = chunk.reader]
    IN  CASE chunk.out.is = "pending" -> [out |-> Pending, body |-> <<read>>]
          [] chunk.out.is = "frame" ->
               [out |-> chunk.out,
                body |-> <<[read EXCEPT !.remaining = @ - Len(chunk.out.frame.bytes)]>>]
          [] chunk.out.is = "end" ->
               [out |-> FileEnded, body |-> <<[read EXCEPT !.done = TRUE]>>]
          [] OTHER -> [out |-> chunk.out, body |-> <<[read EXCEPT !.done = TRUE]>>]

SourceNext(s) ==
  CASE s.kind = "empty" -> [out |-> End, body |-> <<s>>]
    [] s.kind = "full" -> FullNext(s)
    [] s.kind = "stream" -> StreamNext(s)
    [] s.kind = "custom" -> [out |-> Scripted(s), body |-> <<Advanced(s)>>]
    [] s.kind = "reader" -> ReaderNext(s)
    [] s.kind = "file" -> FileNext(s)

-----------------------------------------------------------------------------
(***************************************************************************)
(* Adapters.  done is the terminal guard of those that have one; gone is   *)
(* the source a failed Limited or ExactLength has dropped.                 *)
(***************************************************************************)

Limited(max) == [kind |-> "limited", left |-> max, done |-> FALSE, gone |-> FALSE]
ExactLength(n, hint) ==
  [kind |-> "exact", left |-> n, trailers |-> hint, saw |-> FALSE,
   done |-> FALSE, gone |-> FALSE]
MapData == [kind |-> "mapData", done |-> FALSE]
MapFrame == [kind |-> "mapFrame", done |-> FALSE]
WithTrailers == [kind |-> "withTrailers", pending |-> TRUE, done |-> FALSE]
Either(side) == [kind |-> "either", side |-> side, done |-> FALSE]
MapError == [kind |-> "mapError", done |-> FALSE]
\* InspectFrame, BoxBody and &mut B hand every call on.
Forwarding == [kind |-> "forwarding", done |-> FALSE]

\* Body::recycle of a whole body.  OwnedRead keeps one buffer that has not
\* outgrown the chunk; Either hands a buffer back to the variant it came
\* from; a mapped buffer and one of a dropped source are dropped.
RECURSIVE Recycle(_, _, _)
Recycle(b, f, grown) ==
  LET l == Head(b)
      below == Tail(b)
      passed(frame) == <<l>> \o Recycle(below, frame, grown)
  IN  CASE l.kind \in {"empty", "full", "stream"} -> b
        [] l.kind = "custom" -> <<[l EXCEPT !.returned = Append(@, f)]>>
        [] l.kind = "reader" ->
             <<[(IF grown THEN l ELSE Cache(l, f.buf)) EXCEPT !.returned = Append(@, f)]>>
        [] l.kind = "file" ->
             <<[l EXCEPT !.reader = IF grown THEN @ ELSE Cache(@, f.buf),
                         !.returned = Append(@, f)]>>
        [] l.kind \in {"mapData", "mapFrame"} -> b
        [] l.kind \in {"limited", "exact"} -> IF l.gone THEN b ELSE passed(f)
        [] l.kind = "either" ->
             IF f.route # << >> /\ Head(f.route) = l.side
             THEN passed([f EXCEPT !.route = Tail(@)]) ELSE b
        [] OTHER -> passed(f)

\* Limited and ExactLength refuse a frame: its data goes back, the source
\* is dropped.
Refuse(l, below, out, error) ==
  [out |-> Failed(<<error>>),
   body |-> <<[l EXCEPT !.done = TRUE, !.gone = TRUE]>>
            \o (IF IsData(out) THEN Recycle(below, out.frame, FALSE) ELSE below)]

Settled(l, below, out) == [out |-> out, body |-> <<l>> \o below]

\* The whole frame fits in what Limited or ExactLength still allows.
Fits(l, out) == Len(out.frame.bytes) <= l.left

\* Limited::next_frame
LimitedNext(l, below, out) ==
  CASE Ends(out) -> Settled([l EXCEPT !.done = TRUE], below, out)
    [] IsData(out) /\ ~Fits(l, out) -> Refuse(l, below, out, "limitExceeded")
    [] IsData(out) ->
         Settled([l EXCEPT !.left = @ - Len(out.frame.bytes)], below, out)
    [] OTHER -> Settled(l, below, out)

\* ExactLength::next_frame
ExactLengthNext(l, below, out) ==
  CASE out.is = "error" -> Settled([l EXCEPT !.done = TRUE], below, out)
    [] out.is = "end" ->
         IF l.left # 0 THEN Refuse(l, below, out, "tooShort")
         ELSE Settled([l EXCEPT !.done = TRUE], below, out)
    [] IsData(out) ->
         IF l.saw THEN Refuse(l, below, out, "dataAfterTrailers")
         ELSE IF ~Fits(l, out) THEN Refuse(l, below, out, "tooLong")
         ELSE Settled([l EXCEPT !.left = @ - Len(out.frame.bytes)], below, out)
    [] IsTrailers(out) ->
         IF l.saw THEN Refuse(l, below, out, "repeatedTrailers")
         ELSE IF l.trailers = "none" THEN Refuse(l, below, out, "unexpectedTrailers")
         ELSE Settled([l EXCEPT !.saw = TRUE], below, out)
    [] OTHER -> Settled(l, below, out)

\* The application's mapping: here it doubles the payload, in a new buffer.
Mapped(f) ==
  IF f.kind = "data"
  THEN [f EXCEPT !.bytes = @ \o @, !.buf = NoBuffer, !.from = 0, !.route = << >>]
  ELSE f

\* MapData::next_frame and MapFrame::next_frame
MapNext(l, below, out) ==
  IF out.is = "frame" THEN Settled(l, below, Yield(Mapped(out.frame)))
  ELSE Settled([l EXCEPT !.done = Ends(out)], below, out)

\* WithTrailers::next_frame: the fields join the body's own trailers, or
\* follow a successful end, or are dropped with a failure.
WithTrailersNext(l, below, out) ==
  CASE IsTrailers(out) /\ l.pending ->
         Settled([l EXCEPT !.pending = FALSE], below,
                 Yield(TrailersFrame(out.frame.fields \o <<"added">>)))
    [] out.is = "end" ->
         Settled([l EXCEPT !.done = TRUE, !.pending = FALSE], below,
                 IF l.pending THEN Yield(TrailersFrame(<<"added">>)) ELSE End)
    [] out.is = "error" ->
         Settled([l EXCEPT !.done = TRUE, !.pending = FALSE], below, out)
    [] OTHER -> Settled(l, below, out)

\* Either::next_frame: data remembers the variant it came from.
EitherNext(l, below, out) ==
  Settled(l, below,
          IF IsData(out) THEN Yield([out.frame EXCEPT !.route = <<l.side>> \o @]) ELSE out)

\* MapError::next_frame
MapErrorNext(l, below, out) ==
  Settled(l, below, IF out.is = "error" THEN Failed(<<"mapped">> \o out.error) ELSE out)

RECURSIVE NextFrame(_)
NextFrame(b) ==
  IF Len(b) = 1 THEN SourceNext(b[1])
  ELSE IF b[1].done THEN [out |-> End, body |-> b]
  ELSE LET next == NextFrame(Tail(b))
           l == b[1]
       IN  CASE l.kind = "limited" -> LimitedNext(l, next.body, next.out)
             [] l.kind = "exact" -> ExactLengthNext(l, next.body, next.out)
             [] l.kind \in {"mapData", "mapFrame"} -> MapNext(l, next.body, next.out)
             [] l.kind = "withTrailers" -> WithTrailersNext(l, next.body, next.out)
             [] l.kind = "either" -> EitherNext(l, next.body, next.out)
             [] l.kind = "mapError" -> MapErrorNext(l, next.body, next.out)
             [] l.kind = "forwarding" -> Settled(l, next.body, next.out)

-----------------------------------------------------------------------------
(***************************************************************************)
(* What a body promises of the frames still to come.                       *)
(***************************************************************************)

\* The payload a script still has before it ends or fails.
RestOf(s) ==
  LET rest == SubSeq(s.script, s.at + 1, Len(s.script))
      over == {i \in 1 .. Len(rest) : rest[i][1] \in {"end", "error"}}
  IN  IF over = {} THEN rest ELSE SubSeq(rest, 1, Min(over) - 1)
Payload(items) ==
  FoldSeq(LAMBDA item, n : n + (IF item[1] = "data" THEN item[2] ELSE 0), 0, items)
HasTrailers(items) == \E i \in 1 .. Len(items) : items[i][1] = "trailers"

\* An application's body: the truth about its script, or what it claims.
ClaimedHint(s) == IF s.claim.honest THEN Exact(Payload(RestOf(s))) ELSE s.claim.hint
ClaimedTrailers(s) ==
  IF ~s.claim.honest THEN s.claim.trailers
  ELSE IF HasTrailers(RestOf(s)) THEN "mayHave" ELSE "none"

\* SizeHint of a body guarded by done.
Guarded(done, hint) == IF done THEN Exact(0) ELSE hint

\* Limited::size_hint: a source that cannot fit promises no length.
LimitedHint(l, hint) ==
  [lower |-> IF hint.lower <= l.left THEN hint.lower ELSE 0,
   upper |-> IF hint.upper = NoUpper THEN l.left ELSE Min({hint.upper, l.left})]

RECURSIVE SizeHint(_)
SizeHint(b) ==
  LET l == b[1] IN
  CASE l.kind = "empty" -> Exact(0)
    [] l.kind = "full" -> Exact(IF l.ready THEN l.size ELSE 0)
    [] l.kind = "custom" -> ClaimedHint(l)
    [] l.kind \in {"stream", "reader", "mapData", "mapFrame"} -> Guarded(l.done, Unknown)
    [] l.kind = "file" -> Guarded(l.done, Exact(l.remaining))
    [] l.kind = "exact" -> Guarded(l.done, Exact(l.left))
    [] l.kind = "limited" -> IF l.done THEN Exact(0) ELSE LimitedHint(l, SizeHint(Tail(b)))
    [] l.kind = "withTrailers" -> IF l.done THEN Exact(0) ELSE SizeHint(Tail(b))
    [] OTHER -> SizeHint(Tail(b))

RECURSIVE TrailerHint(_)
TrailerHint(b) ==
  LET l == b[1] IN
  CASE l.kind \in {"empty", "full", "reader", "file"} -> "none"
    [] l.kind = "custom" -> ClaimedTrailers(l)
    [] l.kind \in {"stream", "mapFrame"} -> IF l.done THEN "none" ELSE "mayHave"
    [] l.kind = "exact" -> IF l.done \/ l.saw THEN "none" ELSE l.trailers
    [] l.kind = "withTrailers" ->
         IF l.done THEN "none" ELSE IF l.pending THEN "mayHave" ELSE TrailerHint(Tail(b))
    [] l.kind \in {"limited", "mapData"} -> IF l.done THEN "none" ELSE TrailerHint(Tail(b))
    [] OTHER -> TrailerHint(Tail(b))

RECURSIVE IsEndStream(_)
IsEndStream(b) ==
  LET l == b[1] IN
  CASE l.kind = "empty" -> TRUE
    [] l.kind = "full" -> ~l.ready
    [] l.kind = "custom" -> FALSE
    [] l.kind = "file" -> l.done \/ l.remaining = 0
    [] l.kind = "mapData" -> l.done \/ IsEndStream(Tail(b))
    [] l.kind \in {"stream", "reader", "limited", "exact", "mapFrame", "withTrailers"} -> l.done
    [] OTHER -> IsEndStream(Tail(b))
=============================================================================
