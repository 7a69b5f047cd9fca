---------------------------- MODULE ReceiveBody -----------------------------
(***************************************************************************)
(* How a message body gets from the transport to the application:          *)
(* receive_body_configured and read_or_abandoned of                        *)
(* src/src/proto/h1/body_io.rs, the RecvBuffer of src/src/io/recv.rs with  *)
(* its portable and managed storage, and Incoming with its lease permit    *)
(* and drain budget (src/src/body/incoming.rs).  The pipe between them is  *)
(* the one of module Pipe, without wakers.                                 *)
(***************************************************************************)
EXTENDS Decoder

CONSTANTS
    Scenarios,      \* what is sent, and into which buffer; see IsScenario
    DrainLimits,    \* payload limits an application drains with
    WireAllowance   \* DrainConfig.wire_allowance

\* The bytes after a message's head with its BodyMode; the bodies they begin
\* with (one or none), as size on the wire and payload; the limits of the
\* RecvBuffer; and whether the application, the deadline and the connection may
\* interfere with the transfer.
IsScenario(s) ==
    /\ DOMAIN s = {"mode", "wire", "bodies", "preferred", "retained", "busy"}
    /\ s.preferred \in 1 .. s.retained /\ s.busy \in BOOLEAN
    /\ \A m \in s.bodies : m.size <= Len(s.wire)

ASSUME ScenariosAssumption == \A s \in Scenarios : IsScenario(s)

NoBudget == [set |-> FALSE, wire |-> 0, data |-> 0]
NoFrame == [kind |-> "none", data |-> <<>>]

VARIABLES
    body,       \* the scenario
    arrived,    \* how many of its bytes were read
    buffer,     \* the bytes retained
    storage,    \* "Portable" or "Managed"
    lease,      \* who holds the managed lease: "none", "frame" or "app"
    dec, eof,   \* locals of the receive loop
    pc,         \* "loop", "offer", "read" or "done"
    read,       \* the pending read: "Portable" or "Managed"
    stopping,   \* the read was asked to stop
    elapsed,    \* its progress deadline passed
    pipe,       \* state of the pipe
    frame,      \* the frame in it
    end,        \* ReceiveEnd, or "Dropped"
    reason,     \* why it failed
    canceled,   \* the connection's cancellation token
    app,        \* the application: "open", "draining", "told", "limit", "broken", "gone"
    told,       \* the end it was told
    budget,     \* DrainPolicy.remaining
    remaining,  \* drain's own count
    got,        \* history: payload the application received
    drained     \* history: the drain's limit, bytes consumed and payload received since

recv == <<arrived, buffer, storage>>
loop == <<dec, eof, pc, read, stopping, elapsed, end, reason>>
consumer == <<app, told, remaining, got, drained>>
vars == <<body, recv, lease, loop, pipe, frame, canceled, consumer, budget>>

Open == {"Idle", "Demanded"}

\* The bytes before the body left some of it in the buffer; a lease of an
\* earlier body may still be held, and then the buffer is portable.
Init ==
    /\ body \in Scenarios /\ dec = WithLimits(body.mode)
    /\ arrived \in IF body.busy THEN 0 .. Min({body.preferred, Len(body.wire)}) ELSE {0}
    /\ buffer = SubSeq(body.wire, 1, arrived)
    /\ lease \in IF body.busy THEN {"none", "app"} ELSE {"none"}
    /\ storage \in IF lease = "none" /\ arrived > 0 THEN {"Portable", "Managed"} ELSE {"Portable"}
    /\ eof = FALSE /\ pc = "loop" /\ read = "none" /\ stopping = FALSE /\ elapsed = FALSE
    /\ end = "none" /\ reason = "none" /\ pipe = "Idle" /\ frame = NoFrame
    /\ canceled = FALSE /\ app = "open" /\ told = "none" /\ budget = NoBudget /\ remaining = 0
    /\ got = <<>> /\ drained = [limit |-> 0, wire |-> 0, data |-> 0]

-----------------------------------------------------------------------------
(* The receive loop.                                                        *)

\* Producer::close, fail and drop: an abandoned pipe stays abandoned.
EndPipe(terminal) == pipe' = IF pipe \in Open \cup {"Offered"} THEN terminal ELSE pipe

\* The frame goes with the offer, and its lease with the frame.
DropFrame ==
    /\ frame' = NoFrame
    /\ lease' = IF lease = "frame" THEN "none" ELSE lease

KeepFrame == UNCHANGED <<frame, lease>>

Return(how) ==
    /\ pc' = "done" /\ end' = how
    /\ read' = "none"
    /\ UNCHANGED <<stopping, elapsed>>

FailWith(why) ==
    /\ Return("Failed") /\ reason' = why
    /\ EndPipe("Failed")

Finish ==
    /\ pc = "loop" /\ IsComplete(dec)
    /\ Return("Complete") /\ EndPipe("Closed") /\ KeepFrame
    /\ UNCHANGED <<body, recv, dec, eof, reason, canceled, consumer, budget>>

\* cancellable_wait looks at the token before the wait it guards.
DemandEnds ==
    /\ pc = "loop" /\ ~IsComplete(dec)
    /\ \/ canceled /\ FailWith("canceled")
       \/ ~canceled /\ pipe = "Abandoned" /\ Return("Abandoned") /\ UNCHANGED <<pipe, reason>>
    /\ KeepFrame
    /\ UNCHANGED <<body, recv, dec, eof, canceled, consumer, budget>>

\* charge_drain: payload first, then framing; both must be affordable.
Affordable(result) ==
    budget.set => Len(result.payload) <= budget.data /\ result.consumed <= budget.wire

Charge(result) ==
    /\ budget' = IF budget.set THEN [budget EXCEPT !.wire = @ - result.consumed, !.data = @ - Len(result.payload)] ELSE budget
    /\ drained' = IF budget.set THEN [drained EXCEPT !.wire = @ + result.consumed] ELSE drained
    /\ UNCHANGED <<app, told, remaining, got>>

\* consume, and the suffix that take_payload leaves.
Retain(count) ==
    /\ buffer' = SubSeq(buffer, count + 1, Len(buffer))
    /\ arrived' = arrived

PermitIgnored == TRUE

PermitFree == lease = "none"

Available == body.retained - Len(buffer')

\* RecvBuffer::read_managed: a lease is taken only by an empty buffer whose
\* permit is free; otherwise, and on a transport without managed reads, the
\* read appends to portable storage.
StartRead ==
    IF Available = 0
    THEN FailWith("limit") /\ storage' = "Portable"
    ELSE /\ pc' = "read" /\ stopping' = FALSE /\ elapsed' = FALSE
         /\ storage' = "Portable"
         /\ read' \in IF buffer' = <<>> /\ PermitFree THEN {"Managed", "Portable"} ELSE {"Portable"}
         /\ UNCHANGED <<end, reason, pipe>>

\* take_payload moves the lease of managed storage into the frame.
OfferData(result) ==
    IF storage = "Managed" /\ lease # "none"
    THEN FailWith("internal") /\ KeepFrame /\ storage' = "Portable"
    ELSE /\ frame' = [kind |-> "data", data |-> result.payload]
         /\ lease' = IF storage = "Managed" THEN "frame" ELSE lease
         /\ storage' = "Portable"
         /\ pipe' = "Offered" /\ pc' = "offer"
         /\ UNCHANGED <<read, stopping, elapsed, end, reason>>

OfferTrailers ==
    /\ frame' = [kind |-> "trailers", data |-> <<>>]
    /\ pipe' = "Offered" /\ pc' = "offer"
    /\ storage' = IF buffer' = <<>> THEN "Portable" ELSE storage
    /\ UNCHANGED <<lease, read, stopping, elapsed, end, reason>>

\* Demand is there: decode, charge, and offer a frame or read.
DemandMet ==
    LET result == Decode(dec, buffer, eof)
    IN  /\ pc = "loop" /\ ~IsComplete(dec) /\ ~canceled /\ pipe = "Demanded"
        /\ dec' = result.dec
        /\ \/ /\ result.out = "Err"
              /\ FailWith("decode") /\ KeepFrame
              /\ UNCHANGED <<recv, budget, consumer>>
           \/ /\ result.out # "Err" /\ ~Affordable(result)
              /\ FailWith("drain") /\ KeepFrame
              /\ UNCHANGED <<recv, budget, consumer>>
           \/ /\ result.out # "Err" /\ Affordable(result)
              /\ Charge(result)
              /\ Retain(result.consumed)
              /\ \/ result.out = "NeedMore" /\ StartRead /\ KeepFrame
                 \/ result.out = "Data" /\ OfferData(result)
                 \/ result.out = "Trailers" /\ OfferTrailers
                 \/ /\ result.out = "End"
                    /\ Return("Complete") /\ EndPipe("Closed") /\ KeepFrame
                    /\ storage' = storage /\ UNCHANGED reason
        /\ UNCHANGED <<body, eof, canceled>>

\* The offer resolves: cancelled, taken, or given back by an abandoned pipe.
OfferEnds ==
    /\ pc = "offer"
    /\ \/ /\ canceled
          /\ FailWith("canceled") /\ DropFrame
       \/ /\ ~canceled /\ (pipe \in Open \/ (pipe = "Abandoned" /\ frame = NoFrame))
          /\ pc' = "loop" /\ KeepFrame
          /\ UNCHANGED <<pipe, read, stopping, elapsed, end, reason>>
       \/ /\ ~canceled /\ pipe = "Abandoned" /\ frame # NoFrame
          /\ Return("Abandoned") /\ DropFrame
          /\ UNCHANGED <<pipe, reason>>
    /\ UNCHANGED <<body, recv, dec, eof, canceled, consumer, budget>>

StopOnToken == canceled

StopRequested == canceled \/ pipe = "Abandoned"

\* The read is asked to stop, by an abandonment, the token or the deadline, and
\* is still awaited: only its completion gives the buffer back.
StopRead(late) ==
    /\ pc = "read"
    /\ IF late THEN ~elapsed ELSE ~stopping /\ StopRequested
    /\ stopping' = TRUE /\ elapsed' = (elapsed \/ late)
    /\ UNCHANGED <<body, recv, lease, dec, eof, pc, read, end, reason, pipe, frame, canceled, consumer, budget>>

\* What is done with a completed read; a deadline replaces any answer but an
\* independent failure, and an abandonment is noticed before any of them.
AfterRead(result) ==
    /\ \/ /\ pipe = "Abandoned"
          /\ Return("Abandoned") /\ UNCHANGED <<pipe, reason, eof>>
       \/ /\ pipe # "Abandoned" /\ (result \in {"failed", "canceled"} \/ elapsed)
          /\ FailWith(IF elapsed /\ result # "failed" THEN "timeout" ELSE result)
          /\ UNCHANGED eof
       \/ /\ pipe # "Abandoned" /\ result \in {"data", "eof"} /\ ~elapsed
          /\ pc' = "loop" /\ read' = "none" /\ eof' = (eof \/ result = "eof")
          /\ UNCHANGED <<stopping, elapsed, end, reason, pipe>>
    /\ UNCHANGED <<body, lease, dec, frame, canceled, consumer, budget>>

ReadData(n) ==
    /\ pc = "read"
    /\ n <= Min({body.preferred, body.retained - Len(buffer), Len(body.wire) - arrived})
    /\ arrived' = arrived + n
    /\ buffer' = buffer \o SubSeq(body.wire, arrived + 1, arrived + n)
    /\ storage' = read
    /\ AfterRead("data")

ReadOther(result) ==
    /\ pc = "read"
    /\ result = "canceled" => stopping
    /\ result = "eof" => body.mode.kind # "UntilEof" \/ arrived = Len(body.wire)
    /\ UNCHANGED recv
    /\ AfterRead(result)

\* The connection's driver is dropped with everything it was doing.
DropReceive ==
    /\ pc # "done"
    /\ Return("Dropped") /\ DropFrame /\ EndPipe("Disconnected")
    /\ UNCHANGED <<body, recv, dec, eof, reason, canceled, consumer, budget>>

Cancel ==
    /\ ~canceled
    /\ canceled' = TRUE
    /\ UNCHANGED <<body, recv, lease, loop, pipe, frame, consumer, budget>>

-----------------------------------------------------------------------------
(* The application: Incoming.                                               *)

Reading == app \in {"open", "draining"}

Demand ==
    /\ Reading /\ pipe = "Idle"
    /\ pipe' = "Demanded"
    /\ UNCHANGED <<body, recv, lease, loop, frame, canceled, consumer, budget>>

\* Incoming::observe: a frame that fits the metadata of the message.
Expected ==
    IF frame.kind = "data"
    THEN body.mode.kind = "Fixed" => Len(got) + Len(frame.data) <= body.mode.length
    ELSE body.mode.kind = "Chunked"

TakeFrame ==
    LET over == app = "draining" /\ Len(frame.data) > remaining
    IN  /\ Reading /\ pipe = "Offered"
        /\ app' = IF ~Expected THEN "broken" ELSE IF over THEN "limit" ELSE app
        /\ pipe' = IF Expected /\ ~over THEN "Idle" ELSE "Abandoned"
        /\ frame' = NoFrame
        /\ lease' = IF lease = "frame" THEN IF app = "open" THEN "app" ELSE "none" ELSE lease
        /\ remaining' = IF app = "draining" /\ ~over THEN remaining - Len(frame.data) ELSE remaining
        /\ got' = got \o frame.data
        /\ drained' = IF app = "draining" /\ ~over THEN [drained EXCEPT !.data = @ + Len(frame.data)] ELSE drained
        /\ UNCHANGED <<body, recv, loop, canceled, told, budget>>

\* next_frame returns the end; a close before the declared length is an error.
TakeEnd ==
    /\ Reading /\ pipe \in {"Closed", "Failed", "Disconnected"}
    /\ app' = IF pipe = "Closed" /\ body.mode.kind = "Fixed" /\ Len(got) < body.mode.length THEN "broken" ELSE "told"
    /\ told' = pipe
    /\ UNCHANGED <<body, recv, lease, loop, pipe, frame, canceled, remaining, got, drained, budget>>

StartDrain(limit) ==
    /\ app = "open"
    /\ app' = "draining" /\ remaining' = limit /\ drained' = [drained EXCEPT !.limit = limit]
    /\ budget' = [set |-> TRUE, wire |-> limit + WireAllowance, data |-> limit]
    /\ UNCHANGED <<body, recv, lease, loop, pipe, frame, canceled, told, got>>

\* Incoming is dropped, or its drain runs out of time.
Leave ==
    /\ Reading
    /\ app' = "gone"
    /\ pipe' = IF pipe \in Open \cup {"Offered"} THEN "Abandoned" ELSE pipe
    /\ UNCHANGED <<body, recv, lease, loop, frame, canceled, told, remaining, got, drained, budget>>

\* The last view of the managed lease is dropped.
ReleaseLease ==
    /\ lease = "app"
    /\ lease' = "none"
    /\ UNCHANGED <<body, recv, loop, pipe, frame, canceled, consumer, budget>>

-----------------------------------------------------------------------------
\* Everything the loop does but answering demand.
WindUp ==
    \/ Finish \/ DemandEnds \/ OfferEnds \/ StopRead(FALSE)
    \/ stopping /\ ReadOther("canceled")

Transfer ==
    \/ WindUp \/ DemandMet \/ Demand \/ TakeFrame \/ TakeEnd \/ ReleaseLease \/ ReadOther("eof")
    \/ \E n \in 1 .. body.preferred : ReadData(n)

Interference ==
    \/ StopRead(TRUE) \/ ReadOther("failed") \/ DropReceive \/ Cancel \/ Leave
    \/ \E limit \in DrainLimits : StartDrain(limit)

Next == Transfer \/ (body.busy /\ Interference)

Spec == Init /\ [][Next]_vars

\* The driver is polled when a wait of its ends, and a cancelled read completes.
FairSpec == Spec /\ WF_vars(WindUp)

-----------------------------------------------------------------------------
\* A body whose last byte has arrived.
Arrived(m) == m.size <= arrived /\ (body.mode.kind = "UntilEof" => eof)

\* However the bytes were segmented: what the application received is a prefix
\* of the payload and fits the head; it is told that the body ended only when
\* it has all of it, and then the buffer retains exactly what the peer sent
\* after it, so that the next message starts where this one ended; bytes are
\* refused, or more of them awaited, only while they contain no whole body.
ReceivedExactly ==
    /\ \A m \in body.bodies : IsPrefix(got \o frame.data, m.payload)
    /\ app # "broken"
    /\ told = "Closed" \/ end = "Complete" =>
          \E m \in body.bodies : Arrived(m) /\ got = m.payload /\ buffer = SubSeq(body.wire, m.size + 1, arrived)
    /\ dec.state = "Failed" \/ pc = "read" => \A m \in body.bodies : ~Arrived(m)

\* The buffer keeps within max_retained; it never takes a second managed lease
\* while the application holds one (so the transfer of a lease cannot fail);
\* and a drain neither reads nor passes on more than its limits.
WithinBounds ==
    /\ Len(buffer) <= body.retained
    /\ storage = "Managed" => lease = "none" /\ buffer # <<>>
    /\ drained.data <= drained.limit
    /\ budget.set => drained.wire <= drained.limit + WireAllowance

\* Once the body is abandoned or the connection cancelled, the receive side
\* comes to an end, and hands the buffer back.
ReceiveSettles == (pipe = "Abandoned" \/ canceled) ~> (pc = "done")
=============================================================================
