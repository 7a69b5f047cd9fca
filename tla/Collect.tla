------------------------------ MODULE Collect ------------------------------
(***************************************************************************)
(* The consumers of a body, over any stack of the adapters in Bodies:      *)
(* collect (src/src/body/collect.rs), BodyStream and BodyDataStream        *)
(* (src/src/body/stream.rs), and an application that polls the body        *)
(* itself, keeps frames, gives their buffers back late and finally takes a *)
(* reader or a file apart.  Reads settle on their own, between two steps.  *)
(*                                                                         *)
(* A wait for a frame keeps no state of its own: dropping it is a          *)
(* stuttering step, and the next call polls the same outstanding read.     *)
(* Dropping a whole collection is CollectDropped.                          *)
(***************************************************************************)
EXTENDS Bodies

CONSTANTS Stacks,      \* the bodies an application may build
          Consumers,   \* [mode, max]: who consumes it, and collect's max_bytes
          MaxSize      \* bound on the bytes behind a reader or a file

\* Bound on the polls after a body has ended or failed.
PollsAfterEnd == 2

VARIABLES
  body,      \* the stack, as the calls so far have left it
  consumer,  \* the consumer, and collect's limit
  stage,     \* "ready" -> "collecting" -> "over", or "settling" -> "parted"
  got,       \* collect's data, trailers, reserved capacity and first hints
  result,    \* what collect returned
  held,      \* data frames the application owns
  size,      \* bytes the reader's transport or the file has
  parts,     \* what into_parts returned
  origin,    \* history: the stack as it was built
  yielded,   \* history: what the body's next_frame returned, in order
  claims     \* history: the hints just before each of those calls

vars == <<body, consumer, stage, got, result, held, size, parts, origin, yielded, claims>>

NoResult == [is |-> "none"]
Nothing == [data |-> << >>, trailers |-> << >>, capacity |-> 0,
            hint |-> Unknown, trailerHint |-> "mayHave"]

Init ==
  /\ body \in Stacks
  /\ consumer \in Consumers
  /\ stage = "ready"
  /\ got = Nothing
  /\ result = NoResult
  /\ held = {}
  /\ size \in IF Last(body).kind = "file" THEN {Last(body).snapshot}
              ELSE IF Last(body).kind = "reader" THEN 0 .. MaxSize ELSE {0}
  /\ parts = NoResult
  /\ origin = body
  /\ yielded = << >>
  /\ claims = << >>

\* One call of next_frame by the consumer: the body moves, and what it
\* promised just before is kept beside what it returned.
Called(next, after) ==
  /\ body' = after
  /\ IF next.out = Pending
     THEN UNCHANGED <<yielded, claims>>
     ELSE /\ yielded' = Append(yielded, next.out)
          /\ claims' = Append(claims, [hint |-> SizeHint(body),
                                       trailers |-> TrailerHint(body),
                                       ended |-> IsEndStream(body)])

-----------------------------------------------------------------------------
(***************************************************************************)
(* collect                                                                 *)
(***************************************************************************)

Err(e) == [is |-> "error", error |-> e]

\* The initial checks and reservation, which may fail.
CollectBegins ==
  /\ consumer.mode = "collect"
  /\ stage = "ready"
  /\ LET hint == SizeHint(body)
         room == IF hint.lower = hint.upper THEN hint.lower ELSE 0
     IN  \/ /\ hint.lower > consumer.max
            /\ result' = Err("limitExceeded")
            /\ stage' = "over"
            /\ UNCHANGED got
         \/ /\ hint.lower <= consumer.max
            /\ got' = [Nothing EXCEPT !.capacity = room, !.hint = hint,
                                      !.trailerHint = TrailerHint(body)]
            /\ stage' = "collecting"
            /\ UNCHANGED result
         \/ /\ hint.lower <= consumer.max
            /\ room > 0
            /\ result' = Err("allocation")
            /\ stage' = "over"
            /\ UNCHANGED got
  /\ UNCHANGED <<body, consumer, held, size, parts, origin, yielded, claims>>

\* A mutant: the promised upper bound is not checked.
AppendWithinLimit(n) ==
  CASE got.trailers # << >> -> "invalidSequence"
    [] got.trailers = << >> /\ Len(got.data) + n > consumer.max -> "limitExceeded"
    [] OTHER -> "ok"

\* append's checks: order, limit, the first upper bound.
AppendCheck(n) ==
  CASE got.trailers # << >> -> "invalidSequence"
    [] got.trailers = << >> /\ Len(got.data) + n > consumer.max -> "limitExceeded"
    [] /\ got.trailers = << >>
       /\ Len(got.data) + n <= consumer.max
       /\ got.hint.upper # NoUpper
       /\ Len(got.data) + n > got.hint.upper -> "lengthMismatch"
    [] OTHER -> "ok"

\* reserve_for_append: doubling, but never past the limit.
Reserved(n) ==
  IF Len(got.data) + n <= got.capacity THEN got.capacity
  ELSE Min({Max({2 * got.capacity, Len(got.data) + n}), consumer.max})

\* A mutant: a refused frame is not given back.
RecycleAccepted(b, f, verdict) == IF verdict = "ok" THEN Recycle(b, f, FALSE) ELSE b

\* The frame goes back to the body whatever append said.
RecycleAppended(b, f, verdict) == Recycle(b, f, FALSE)

CollectsData(next) ==
  LET f == next.out.frame
      n == Len(f.bytes)
  IN  \/ LET verdict == AppendCheck(n) IN
         /\ Called(next, RecycleAppended(next.body, f, verdict))
         /\ IF verdict = "ok"
            THEN /\ got' = [got EXCEPT !.data = @ \o f.bytes, !.capacity = Reserved(n)]
                 /\ UNCHANGED <<stage, result>>
            ELSE /\ result' = Err(verdict)
                 /\ stage' = "over"
                 /\ UNCHANGED got
      \/ /\ AppendCheck(n) = "ok"
         /\ Reserved(n) > got.capacity
         /\ Called(next, RecycleAppended(next.body, f, "allocation"))
         /\ result' = Err("allocation")
         /\ stage' = "over"
         /\ UNCHANGED got

CollectsTrailers(next) ==
  LET verdict == IF got.trailers # << >> THEN "invalidSequence"
                 ELSE IF got.trailerHint = "none" THEN "unexpectedTrailers" ELSE "ok"
  IN  /\ Called(next, next.body)
      /\ IF verdict = "ok"
         THEN /\ got' = [got EXCEPT !.trailers = next.out.frame.fields]
              /\ UNCHANGED <<stage, result>>
         ELSE /\ result' = Err(verdict)
              /\ stage' = "over"
              /\ UNCHANGED got

CollectEnds(next) ==
  /\ Called(next, next.body)
  /\ result' = IF next.out.is = "error" THEN [is |-> "body", error |-> next.out.error]
               ELSE IF Len(got.data) < got.hint.lower THEN Err("lengthMismatch")
               ELSE [is |-> "ok", data |-> got.data, trailers |-> got.trailers]
  /\ stage' = "over"
  /\ UNCHANGED got

CollectPolls ==
  /\ stage = "collecting"
  /\ LET next == NextFrame(body) IN
       \/ next.out = Pending /\ Called(next, next.body) /\ UNCHANGED <<stage, got, result>>
       \/ IsData(next.out) /\ CollectsData(next)
       \/ IsTrailers(next.out) /\ CollectsTrailers(next)
       \/ Ends(next.out) /\ CollectEnds(next)
  /\ UNCHANGED <<consumer, held, size, parts, origin>>

\* The collection is dropped at an await: its partial result is lost, the
\* borrowed body goes on as it is.
CollectDropped ==
  /\ stage = "collecting"
  /\ stage' = "ready"
  /\ consumer' = [consumer EXCEPT !.mode = "direct"]
  /\ got' = Nothing
  /\ UNCHANGED <<body, result, held, size, parts, origin, yielded, claims>>

-----------------------------------------------------------------------------
(***************************************************************************)
(* BodyStream, BodyDataStream and an application's own calls               *)
(***************************************************************************)

\* BodyStream::next and one turn of BodyDataStream::next, which drops
\* trailers; the first end or error is the last call the body sees.
StreamPolls ==
  /\ consumer.mode \in {"frames", "data"}
  /\ stage = "ready"
  /\ LET next == NextFrame(body) IN
       /\ Called(next, next.body)
       /\ stage' = IF Ends(next.out) THEN "over" ELSE "ready"
       /\ got' = CASE IsData(next.out) -> [got EXCEPT !.data = @ \o next.out.frame.bytes]
                   [] IsTrailers(next.out) /\ consumer.mode = "frames" ->
                        [got EXCEPT !.trailers = next.out.frame.fields]
                   [] OTHER -> got
  /\ UNCHANGED <<consumer, result, held, size, parts, origin>>

TimesEnded == Cardinality({i \in DOMAIN yielded : Ends(yielded[i])})

\* The application calls next_frame and owns the data it gets.
DirectPolls ==
  /\ consumer.mode = "direct"
  /\ stage = "ready"
  /\ TimesEnded < PollsAfterEnd
  /\ LET next == NextFrame(body) IN
       /\ Called(next, next.body)
       /\ held' = IF IsData(next.out) /\ next.out.frame.buf # NoBuffer
                  THEN held \cup {next.out.frame} ELSE held
  /\ UNCHANGED <<consumer, stage, got, result, size, parts, origin>>

\* It gives a buffer back, perhaps grown, whenever it likes.
DirectRecycles ==
  /\ consumer.mode = "direct"
  /\ stage = "ready"
  /\ \E f \in held, grown \in BOOLEAN :
       /\ body' = Recycle(body, f, grown)
       /\ held' = held \ {f}
  /\ UNCHANGED <<consumer, stage, got, result, size, parts, origin, yielded, claims>>

\* It replaces an Either by its other variant while frames are outstanding.
VariantReplaced ==
  /\ consumer.mode = "direct"
  /\ stage = "ready"
  /\ body[1].kind = "either"
  /\ body[1].side = "left"
  /\ body' = <<Either("right"), Custom(2, <<<<"data", 1>>>>, [honest |-> TRUE])>>
  /\ origin' = body'
  /\ yielded' = << >>
  /\ claims' = << >>
  /\ UNCHANGED <<consumer, stage, got, result, held, size, parts>>

-----------------------------------------------------------------------------
(***************************************************************************)
(* Reads: the operation of an owned reader or a positional file            *)
(***************************************************************************)

HasReader(b) == Last(b).kind \in {"reader", "file"}
ReaderOf(b) == IF Last(b).kind = "file" THEN Last(b).reader ELSE Last(b)
WithReader(b, r) ==
  [b EXCEPT ![Len(b)] = IF @.kind = "file" THEN [@ EXCEPT !.reader = r] ELSE r]

Available == IF size > ReaderOf(body).offset THEN size - ReaderOf(body).offset ELSE 0

\* The read settles: bytes and a result move into the operation.
Completes(count, bytes, outcome) ==
  LET r == ReaderOf(body) IN
  body' = WithReader(body,
    [r EXCEPT !.op = [is |-> "complete", width |-> r.op.width, buf |-> r.op.buf,
                      bytes |-> bytes, result |-> outcome],
              !.offset = @ + count])

ReadPending == HasReader(body) /\ ReaderOf(body).op.is = "pending"

\* Some bytes, none only at the end.  A positional file adds the count to
\* its offset.
ReadSucceeds ==
  /\ ReadPending
  /\ LET r == ReaderOf(body) IN
     \E n \in IF Available = 0 THEN {0} ELSE 1 .. Min({Available, r.op.width}) :
       Completes(n, Bytes(r.offset, n), [ok |-> TRUE, count |-> n])
  /\ UNCHANGED <<consumer, stage, got, result, held, size, parts, origin, yielded, claims>>

\* The transport fails, or heeds into_parts's cancellation.
ReadFails ==
  /\ ReadPending
  /\ Completes(0, << >>, [ok |-> FALSE, error |-> IF stage = "settling" THEN "canceled" ELSE "io"])
  /\ UNCHANGED <<consumer, stage, got, result, held, size, parts, origin, yielded, claims>>

\* A reader that reports more than it initialized; what it took is unknown.
ReadMisreports ==
  /\ ReadPending
  /\ Last(body).kind = "reader"
  /\ Completes(0, << >>, [ok |-> TRUE, count |-> 1])
  /\ UNCHANGED <<consumer, stage, got, result, held, size, parts, origin, yielded, claims>>

\* Another process truncates or extends the file, once.
FileChanges ==
  /\ Last(body).kind = "file"
  /\ size = Last(body).snapshot
  /\ size' \in 0 .. MaxSize
  /\ UNCHANGED <<body, consumer, stage, got, result, held, parts, origin, yielded, claims>>

\* What into_parts hands over: a settled read's buffer and validated result,
\* or the idle cache.
Parts(r) ==
  IF r.op = Idle THEN [is |-> "parts", bytes |-> << >>, offset |-> r.offset, read |-> FALSE]
  ELSE [is |-> "parts", bytes |-> r.op.bytes, offset |-> r.offset,
        read |-> TRUE, result |-> Validate(r.op)]

\* ReaderBody::into_parts and FileBody::into_parts: an outstanding read is
\* cancelled and awaited.
PartsTaken ==
  /\ consumer.mode = "direct"
  /\ stage = "ready"
  /\ Len(body) = 1
  /\ HasReader(body)
  /\ IF ReaderOf(body).op = Idle
     THEN stage' = "parted" /\ parts' = Parts(ReaderOf(body))
     ELSE stage' = "settling" /\ UNCHANGED parts
  /\ UNCHANGED <<body, consumer, got, result, held, size, origin, yielded, claims>>

PartsSettle ==
  /\ stage = "settling"
  /\ ReaderOf(body).op.is = "complete"
  /\ stage' = "parted"
  /\ parts' = Parts(ReaderOf(body))
  /\ UNCHANGED <<body, consumer, got, result, held, size, origin, yielded, claims>>

Next ==
  \/ CollectBegins \/ CollectPolls \/ CollectDropped
  \/ StreamPolls \/ DirectPolls \/ DirectRecycles \/ VariantReplaced
  \/ ReadSucceeds \/ ReadFails \/ ReadMisreports \/ FileChanges
  \/ PartsTaken \/ PartsSettle

Spec == Init /\ [][Next]_vars

-----------------------------------------------------------------------------
(***************************************************************************)
(* Properties                                                              *)
(***************************************************************************)

\* Data and trailers of a run of outcomes.
Payloads(outs) ==
  FoldSeq(LAMBDA out, bytes : IF IsData(out) THEN out.frame.bytes \o bytes ELSE bytes, << >>, outs)
Size(i, j) == Len(Payloads(SubSeq(yielded, i, j)))

\* A source that keeps the contract on src/body.rs:46.
Ordered(items) ==
  \A i, j \in DOMAIN items :
    i < j /\ items[i][1] = "trailers" => items[j][1] \notin {"data", "trailers"}
Honest(s) ==
  CASE s.kind = "stream" -> Ordered(RestOf(s))
    [] s.kind = "custom" -> /\ s.claim.honest
                            /\ Ordered(s.script)
                            /\ RestOf(s) = SelectSeq(s.script, LAMBDA i : i[1] \notin {"end", "error"})
                            /\ \A i \in DOMAIN s.script : s.script[i][1] \in {"end", "error"} => i = Len(s.script)
    [] OTHER -> TRUE

\* The clauses of that contract, over what the body said and did.
SequenceKept ==
  \A i, j \in DOMAIN yielded : i < j =>
    /\ yielded[i].is = "end" => yielded[j].is = "end"
    /\ yielded[i].is = "error" => yielded[j].is # "frame"
    /\ IsTrailers(yielded[i]) => yielded[j].is # "frame"
PromisesKept ==
  \A i, j \in DOMAIN yielded : i <= j =>
    /\ claims[i].hint.upper # NoUpper => Size(i, j) <= claims[i].hint.upper
    /\ (yielded[j].is = "end" /\ \A k \in i .. j : yielded[k].is # "error")
         => Size(i, j) >= claims[i].hint.lower
    /\ claims[i].trailers = "none" => ~IsTrailers(yielded[j])
    /\ claims[i].ended => yielded[j].is # "frame"

\* The Body contract (src/body.rs:46-55) survives every stack: whatever
\* adapters are on top, if the source keeps it, the whole body does - order
\* of frames, terminal end and error, length bounds, trailer capability and
\* end of stream, at every call.  With an ExactLength in the stack it holds
\* of any source at all, and a Limited never lets more than its limit pass.
ContractKept ==
  /\ \/ Honest(Last(origin))
     \/ \E i \in DOMAIN origin : origin[i].kind = "exact"
     => SequenceKept /\ PromisesKept
  /\ \A i \in DOMAIN origin :
       /\ origin[i].kind = "limited"
       /\ \A j \in 1 .. i : origin[j].kind \notin {"mapData", "mapFrame"}
       => Len(Payloads(yielded)) <= origin[i].left

\* The verdict on everything the body yielded, from the limit and the first
\* promises alone.
FirstTrailers == SelectSeq(yielded, IsTrailers)
Verdict ==
  LET n == Len(Payloads(yielded))
      last == yielded[Len(yielded)]
      again == \E i \in 1 .. Len(yielded) - 1 : IsTrailers(yielded[i])
  IN  CASE last.is = "error" -> {"body"}
        [] IsData(last) /\ again -> {"invalidSequence"}
        [] IsData(last) /\ ~again ->
             IF n > consumer.max THEN {"limitExceeded"}
             ELSE IF claims[1].hint.upper # NoUpper /\ n > claims[1].hint.upper
                  THEN {"lengthMismatch"} ELSE {"allocation"}
        [] IsTrailers(last) -> IF again THEN {"invalidSequence"} ELSE {"unexpectedTrailers"}
        [] last.is = "end" -> IF n < claims[1].hint.lower THEN {"lengthMismatch"} ELSE {"ok"}

\* collect returns exactly the body: success hands over all the payload the
\* body yielded, in order, with its trailers, within the limit and the first
\* size bounds; every error is the one the frames deserve; it asks for no
\* frame after a failure and never reserves past the limit.  The stream
\* adapters, too, hand over exactly the frames before the first end.
CollectedExactly ==
  /\ consumer.mode = "collect" =>
       /\ got.capacity <= consumer.max
       /\ result # NoResult /\ yielded # << >> =>
            (IF result.is = "error" THEN result.error ELSE result.is) \in Verdict
       /\ result.is = "ok" =>
            /\ result.data = Payloads(yielded)
            /\ result.trailers =
                 IF FirstTrailers = << >> THEN << >> ELSE FirstTrailers[1].frame.fields
  /\ consumer.mode \in {"frames", "data"} =>
       /\ got.data = Payloads(yielded)
       /\ \A i \in 1 .. Len(yielded) - 1 : ~Ends(yielded[i])

\* Adapters that hand every data frame on.
Transparent(b) ==
  \A i \in 1 .. Len(b) - 1 :
    b[i].kind \in {"forwarding", "either", "mapError", "withTrailers"}
InFlight ==
  LET op == ReaderOf(body).op IN
  IF stage # "parted" /\ op.is = "complete" /\ Validate(op).ok THEN op.bytes ELSE << >>
Recovered == IF parts # NoResult /\ parts.read /\ parts.result.ok THEN parts.bytes ELSE << >>

\* No byte that a read took is lost or delivered twice, however many waits
\* and collections were dropped around it: what the application got, what a
\* settled read still holds and what into_parts recovered are together the
\* transport's bytes up to its offset.  A file never reads past its length
\* snapshot, and its remaining length is what it has not delivered.
ReadsLoseNothing ==
  HasReader(body) /\ Transparent(body) =>
    /\ Payloads(yielded) \o InFlight \o Recovered = Bytes(0, ReaderOf(body).offset)
    /\ Last(body).kind = "file" =>
         /\ ReaderOf(body).offset <= Last(body).snapshot
         /\ Last(body).remaining = Last(body).snapshot - Len(Payloads(yielded))

\* A buffer has one owner: the outstanding read, the cache or the
\* application.  A recycled buffer goes to the source that made it and once
\* only, and a source that collect drains gets every frame back, the refused
\* one included.
BuffersGoHome ==
  /\ HasReader(body) =>
       LET r == ReaderOf(body)
           mine == {f \in held : f.from = r.id}
       IN  /\ Cardinality({f.buf : f \in mine}) = Cardinality(mine)
           /\ \A f \in mine : f.buf # r.spare
           /\ r.op # Idle /\ stage # "parted" =>
                r.op.buf # r.spare /\ \A f \in mine : f.buf # r.op.buf
  /\ LET back == Last(body).returned IN
       /\ \A i \in DOMAIN back : back[i].from = Last(body).id
       /\ Last(body).kind = "custom" => IsInjective([i \in DOMAIN back |-> back[i].buf])
       /\ /\ Last(body).kind = "custom"
          /\ consumer.mode = "collect"
          /\ \A i \in DOMAIN body : body[i].kind \notin {"mapData", "mapFrame"}
          => Len(back) = Len(SelectSeq(SubSeq(Last(body).script, 1, Last(body).at),
                                       LAMBDA item : item[1] = "data"))
=============================================================================
