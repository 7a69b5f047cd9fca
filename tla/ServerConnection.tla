-------------------------- MODULE ServerConnection --------------------------
(***************************************************************************)
(* The server's connection loop, run_inner of src/src/proto/h1/server.rs:  *)
(* requests that arrive back to back are served one after the other until  *)
(* the peer, an exchange or a shutdown ends the connection, and the        *)
(* transport is then closed, handed over or recovered with the bytes read  *)
(* ahead.  An exchange is reduced to how much of its request's body it     *)
(* consumed and how it ended (see ServerExchange and ReceiveBody).         *)
(* ServerDriver runs it under the control of its owner.                    *)
(***************************************************************************)
EXTENDS HeadScan

CONSTANTS
    Scripts,    \* what peers may send: sequences of [head, body, legal], head and body in bytes
    Preferred   \* bytes of one read at most

VARIABLES
    requests,   \* the member of Scripts this peer sends, back to back
    arrived,    \* history: bytes read from the transport
    buffer,     \* RecvBuffer: positions of the bytes retained
    scan,       \* HeadParser.scan
    taken,      \* history: positions of the bytes consumed by requests
    begun,      \* history: requests whose head was taken
    pc,         \* "top", "read", "settle", "exchange", "reply", "too large", "closing" or "done"
    stopping,   \* ConnectionControl::stopping
    recovering, \* ConnectionControl::recovering
    can_recover,
    result

bytes == <<requests, arrived, buffer, scan, taken, begun>>
control == <<stopping, recovering>>
vars == <<bytes, pc, control, can_recover, result>>

\* The bytes of the first n requests.
Sent[n \in 0 .. Len(requests)] ==
    IF n = 0 THEN << >> ELSE Sent[n - 1] \o (requests[n].head \o requests[n].body)

Through(n) == Len(Sent[n])

Total == Through(Len(requests))

\* What the peer sent at the positions retained.
BytesAt(retained) ==
    LET stream == Sent[Len(requests)] IN [i \in DOMAIN retained |-> stream[retained[i]]]

Positions(from, to) == [i \in 1 .. to - from |-> from + i]

Init ==
    /\ requests \in Scripts
    /\ arrived = 0 /\ buffer = <<>> /\ scan = Fresh /\ taken = <<>> /\ begun = 0
    /\ pc = "top" /\ stopping = FALSE
    /\ recovering \in BOOLEAN /\ can_recover = TRUE
    /\ result = "none"

Return(how) == pc' = "done" /\ result' = how

Break == pc' = "closing" /\ UNCHANGED result

\* parse_shared and validate_received of the head that was cut off.
Take(retained, length) ==
    /\ buffer' = SubSeq(retained, length + 1, Len(retained))
    /\ taken' = taken \o SubSeq(retained, 1, length)
    /\ scan' = Fresh /\ begun' = begun + 1
    /\ pc' = IF begun < Len(requests) /\ requests[begun + 1].legal THEN "exchange" ELSE "reply"

\* One look at the buffer for a request head.
Scan(retained) ==
    LET seen == HeadLen(scan, BytesAt(retained))
    IN  \/ seen.out = "Head" /\ Take(retained, seen.scan.length)
        \/ /\ seen.out # "Head"
           /\ buffer' = retained /\ scan' = seen.scan
           /\ pc' = IF seen.out = "Limit" THEN "too large" ELSE "read"
           /\ UNCHANGED <<taken, begun>>

StopUnseen == FALSE

StopSeen == stopping

Top ==
    /\ pc = "top"
    /\ \/ StopSeen /\ Break /\ UNCHANGED bytes
       \/ ~StopSeen /\ Scan(buffer) /\ UNCHANGED <<requests, arrived, result>>
    /\ UNCHANGED <<control, can_recover>>

Received(n) == buffer \o Positions(arrived, arrived + n)

\* A read completes while nothing asks to stop; the head's deadline may have
\* passed by the time the bytes are looked at.
ReadData(n) ==
    /\ pc = "read" /\ ~stopping /\ arrived + n <= Total
    /\ arrived' = arrived + n
    /\ \/ Scan(Received(n)) /\ UNCHANGED result
       \/ Return("Timeout") /\ buffer' = Received(n) /\ UNCHANGED <<scan, taken, begun>>
    /\ UNCHANGED <<requests, control, can_recover>>

ReadEof ==
    /\ pc = "read" /\ ~stopping
    /\ IF buffer = <<>> THEN Break ELSE Return("InvalidMessage")
    /\ UNCHANGED <<bytes, control, can_recover>>

ReadFails(why) ==
    /\ pc = "read" /\ ~stopping
    /\ Return(why)
    /\ UNCHANGED <<bytes, control, can_recover>>

\* stopped() is looked at before the read; the read is cancelled, not dropped.
StopWins ==
    /\ pc = "read" /\ stopping
    /\ pc' = "settle"
    /\ UNCHANGED <<bytes, control, can_recover, result>>

\* The cancelled read gives the buffer back with what it received all the same.
Settled(n) == Received(n)

SettleRead(n) ==
    /\ pc = "settle" /\ arrived + n <= Total
    /\ arrived' = arrived + n /\ buffer' = Settled(n)
    /\ Break
    /\ UNCHANGED <<requests, scan, taken, begun, control, can_recover>>

\* An independent failure, a timeout included, is reported.
SettleFails(why) ==
    /\ pc = "settle"
    /\ Return(why)
    /\ UNCHANGED <<bytes, control, can_recover>>

-----------------------------------------------------------------------------
(* The exchange, and the answer to an illegal head.                         *)

BodySize == Len(requests[begun].body)

\* The exchange read n more bytes, and consumed k of the body's.
Exchanged(n, k) ==
    /\ pc = "exchange" /\ arrived + n <= Total
    /\ n > 0 => Len(buffer) + n - Preferred < BodySize
    /\ k <= Min({BodySize, Len(buffer) + n})
    /\ arrived' = arrived + n
    /\ taken' = taken \o SubSeq(Received(n), 1, k)
    /\ buffer' = SubSeq(Received(n), k + 1, Len(buffer) + n)
    /\ UNCHANGED <<requests, scan, begun, control>>

ExchangeReusable(n) ==
    /\ Exchanged(n, BodySize) /\ Len(buffer) + n >= BodySize
    /\ pc' = "top"
    /\ UNCHANGED <<can_recover, result>>

\* ExchangeResult.recoverable
Recoverable(complete) == complete

\* The request was received completely or abandoned part of the way.
ExchangeCloses(n, k) ==
    /\ Exchanged(n, k)
    /\ can_recover' = Recoverable(k = BodySize)
    /\ Break

ExchangeHandsOff(n) ==
    /\ Exchanged(n, BodySize) /\ Len(buffer) + n >= BodySize
    /\ Return("Upgraded")
    /\ UNCHANGED can_recover

ExchangeFails(n, k) ==
    /\ Exchanged(n, k)
    /\ Return("ExchangeFailed")
    /\ UNCHANGED can_recover

\* reply_illegal_head: whatever becomes of the reply, the failure is returned.
Reply ==
    /\ \/ pc = "reply" /\ Return("InvalidMessage")
       \/ pc = "too large" /\ Return("Limit")
    /\ UNCHANGED <<bytes, control, can_recover>>

\* The clean end: the parts are recovered, or the transport is shut down.
Close ==
    /\ pc = "closing"
    /\ \/ recovering /\ can_recover /\ Return("Recovered")
       \/ ~(recovering /\ can_recover) /\ \E how \in {"Closed", "Io"} : Return(how)
    /\ UNCHANGED <<bytes, control, can_recover>>

Failures == {"Io", "Timeout"}

-----------------------------------------------------------------------------
\* No byte is lost, repeated or taken out of order, even when a read that was
\* cancelled by a shutdown completes; and a transport that is recovered or
\* handed over stands exactly between two messages: what was consumed is whole
\* requests, and the bytes read ahead are all that followed them.
TransportIsWhole ==
    /\ taken \o buffer = Positions(0, arrived)
    /\ result \in {"Recovered", "Upgraded"} => Len(taken) = Through(begun)

\* However the bytes of a head are split over reads, and whatever line breaks
\* precede it or follow in a body, the head is cut off exactly at its end, as
\* soon as it is complete; it is refused for its size exactly when it is longer
\* than the limit.
HeadsAreExact ==
    /\ pc \in {"exchange", "reply"} =>
           /\ Len(taken) = Through(begun - 1) + Len(requests[begun].head)
           /\ Len(requests[begun].head) <= MaxHead
    /\ pc = "read" => \/ begun = Len(requests)
                      \/ Len(buffer) < Len(requests[begun + 1].head) /\ Len(buffer) <= MaxHead
    /\ pc = "too large" => Len(requests[begun + 1].head) > MaxHead
=============================================================================
