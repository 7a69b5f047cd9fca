--------------------------- MODULE ClientExchange ---------------------------
(***************************************************************************)
(* One exchange of the HTTP/1 client driver: send_request and receive of   *)
(* proto/h1/client.rs run as two activities raced by exchange_inner, next  *)
(* to an application that observes the response (client/response.rs), may  *)
(* abort the upload or abandon the response, and a connection shutdown     *)
(* that may cancel the exchange at any time.                               *)
(*                                                                         *)
(* A direction that ends badly asks the other to stop, but both are driven *)
(* to their end before the outcome is composed.  An operation that was     *)
(* told to stop may still finish normally.                                 *)
(***************************************************************************)
EXTENDS ExchangePolicy

CONSTANTS
    Heads,              \* response heads the server may send
    MaxInformational    \* max_informational

ASSUME ClientExchangeAssumption ==
    /\ Heads \subseteq HeadRecords
    /\ MaxInformational \in Nat

VARIABLES
    request,        \* what the request asks for: expect, body, reuse, upgrade
    policy,         \* ExchangePolicy
    send,           \* progress of send_request
    recv,           \* progress of receive
    first,          \* the activity that won the race of exchange_inner
    uploadToken,    \* Control.upload is cancelled
    exchangeToken,  \* Control.exchange is cancelled
    uploadComplete, \* Control.upload_complete
    aborted,        \* Control.aborted
    allowed,        \* Control.continue_allowed
    waiting,        \* Control.continue_waker is registered
    woken,          \* the Continue wait was woken since its last poll
    slot,           \* the event offered to the application and not yet taken
    observer,       \* the application's PendingResponse
    incoming,       \* the response body in the application's hands
    final,          \* the final head received: a sequence of at most one
    shutdown,       \* the connection's cancellation: "no", "requested", "seen"
    outcome         \* what exchange returned

control == <<uploadToken, exchangeToken, uploadComplete, aborted>>
permission == <<allowed, waiting, woken>>
observation == <<slot, observer, incoming>>
vars == <<request, policy, send, recv, first, control, permission, observation, final, shutdown, outcome>>

SendEnds == {"ok", "canceled", "failed"}
RecvEnds == {"complete", "abandoned", "canceled", "failed"}
Outcomes == {"Reusable", "MessagePolicy", "BodyAbandonment", "UploadAbort", "Handoff",
             "Unprepared", "Internal", "Canceled", "SendFailure", "ReceiveFailure"}

Requests ==
    [expect : BOOLEAN, body : BOOLEAN, reuse : BOOLEAN, upgrade : Kinds \cup {NoUpgrade}]

TypeOK ==
    /\ request \in Requests
    /\ policy \in Policies(MaxInformational)
    /\ send \in {"prepare", "head", "flushHead", "waitContinue", "body", "flush"} \cup SendEnds
    /\ recv \in {"prepare", "awaitHead", "offerInformational", "offerFinal", "body"} \cup RecvEnds
    /\ first \in {"none", "send", "receive"}
    /\ uploadToken \in BOOLEAN /\ exchangeToken \in BOOLEAN
    /\ uploadComplete \in BOOLEAN /\ aborted \in BOOLEAN
    /\ allowed \in BOOLEAN /\ waiting \in BOOLEAN /\ woken \in BOOLEAN
    /\ slot \in {"none", "informational", "final", "failure"}
    /\ observer \in {"watching", "delivered", "failed", "dropped"}
    /\ incoming \in {"none", "open", "ended", "error", "dropped"}
    /\ final \in {<<>>} \cup {<<head>> : head \in Heads}
    /\ shutdown \in {"no", "requested", "seen"}
    /\ outcome \in Outcomes \cup {"none"}

Init ==
    /\ request \in Requests
    /\ policy = NewPolicy(request.reuse, request.upgrade)
    /\ send = "prepare" /\ recv = "prepare" /\ first = "none"
    /\ uploadToken = FALSE /\ exchangeToken = FALSE
    /\ uploadComplete = FALSE /\ aborted = FALSE
    /\ allowed = FALSE /\ waiting = FALSE /\ woken = FALSE
    /\ slot = "none" /\ observer = "watching" /\ incoming = "none"
    /\ final = <<>> /\ shutdown = "no" /\ outcome = "none"

-----------------------------------------------------------------------------
\* How the end of one direction affects the other

\* Control::cancel, or nothing
CancelIf(condition) ==
    /\ exchangeToken' = (exchangeToken \/ condition)
    /\ uploadToken' = (uploadToken \/ condition)

\* A received error or an abandoned body stops the upload.
StopsUpload(end) == end # "complete"

\* Explicit upload abort preserves response receiving; every other send
\* failure stops it.
StopsReceive(end) == end = "failed" \/ (end = "canceled" /\ ~aborted)

ReceiveSettles(end) ==
    /\ recv' = end
    /\ \/ first = "none" /\ first' = "receive" /\ CancelIf(StopsUpload(end))
       \/ first # "none" /\ UNCHANGED <<first, exchangeToken, uploadToken>>

SendSettles(end) ==
    /\ send' = end
    /\ \/ first = "none" /\ first' = "send" /\ CancelIf(StopsReceive(end))
       \/ first # "none" /\ UNCHANGED <<first, exchangeToken, uploadToken>>

-----------------------------------------------------------------------------
\* The request is prepared before either direction is polled; a request that
\* cannot be encoded fails alone, and the observer is told.
Prepare ==
    /\ send = "prepare" /\ outcome = "none"
    /\ \/ /\ send' = "head" /\ recv' = "awaitHead"
          /\ UNCHANGED <<slot, outcome>>
       \/ /\ outcome' = "Unprepared"
          /\ slot' = IF observer = "watching" THEN "failure" ELSE slot
          /\ UNCHANGED <<send, recv>>
    /\ UNCHANGED <<request, policy, first, control, permission, observer, incoming, final, shutdown>>

-----------------------------------------------------------------------------
\* send_request

BodyOrFlush == IF request.body THEN "body" ELSE "flush"

\* The next operation after the one in flight succeeded.  Expect waits only
\* for a request with a body.
AfterSending ==
    CASE send = "head" -> IF request.expect /\ request.body THEN "flushHead" ELSE BodyOrFlush
      [] send = "flushHead" -> "waitContinue"
      [] send = "body" -> "flush"

SendStep ==
    /\ send \in {"head", "flushHead", "body"}
    /\ send' = AfterSending
    /\ woken' = (send' = "waitContinue")
    /\ UNCHANGED <<request, policy, recv, first, control, allowed, waiting, observation, final, shutdown, outcome>>

\* wait_continue, polled: it returns once permission is given, or registers.
PollContinue ==
    /\ send = "waitContinue"
    /\ \/ /\ allowed
          /\ send' = "body" /\ waiting' = FALSE
       \/ /\ ~allowed
          /\ waiting' = TRUE
          /\ UNCHANGED send
    /\ woken' = FALSE
    /\ UNCHANGED <<request, policy, recv, first, control, allowed, observation, final, shutdown, outcome>>

\* The configured wait elapsed without permission.
ContinueTimeout ==
    /\ send = "waitContinue"
    /\ send' = "body" /\ waiting' = FALSE /\ woken' = FALSE
    /\ UNCHANGED <<request, policy, recv, first, control, allowed, observation, final, shutdown, outcome>>

\* The last flush succeeded.
SendDone ==
    /\ send = "flush"
    /\ SendSettles("ok")
    /\ uploadComplete' = TRUE
    /\ UNCHANGED <<request, policy, recv, aborted, permission, observation, final, shutdown, outcome>>

\* The operation in flight ends because it was cancelled, or fails.
SendStops(end) ==
    /\ send \notin SendEnds \cup {"prepare"}
    /\ end = "canceled" => uploadToken
    /\ SendSettles(end)
    /\ waiting' = FALSE /\ woken' = FALSE
    /\ UNCHANGED <<request, policy, recv, uploadComplete, aborted, allowed, observation, final, shutdown, outcome>>

-----------------------------------------------------------------------------
\* receive

PermitQuietly(head) ==
    /\ allowed' = (allowed \/ head.class # "informational" \/ head.continue)
    /\ UNCHANGED <<waiting, woken>>

\* allow_continue for a 100, a final head or an upgrade, before any offer.
GivePermission(head) ==
    \/ /\ head.class # "informational" \/ head.continue
       /\ allowed' = TRUE /\ waiting' = FALSE
       /\ woken' = (woken \/ waiting)
    \/ /\ head.class = "informational" /\ ~head.continue
       /\ UNCHANGED permission

\* A complete head was read: policy decides, permission is released and the
\* event is offered.
ReceiveHead(head) ==
    /\ recv = "awaitHead"
    /\ \/ /\ HeadAction(policy, head, MaxInformational) = "Error"
          /\ ReceiveSettles("failed")
          /\ UNCHANGED <<policy, permission, slot, final>>
       \/ /\ HeadAction(policy, head, MaxInformational) # "Error"
          /\ policy' = AfterHead(policy, head)
          /\ GivePermission(head)
          /\ \/ /\ head.class = "informational"
                /\ recv' = "offerInformational" /\ slot' = "informational"
                /\ UNCHANGED final
             \/ /\ head.class # "informational"
                /\ recv' = "offerFinal" /\ slot' = "final"
                /\ final' = <<head>>
          /\ UNCHANGED <<first, exchangeToken, uploadToken>>
    /\ UNCHANGED <<request, send, uploadComplete, aborted, observer, incoming, shutdown, outcome>>

\* The read of the head, or an offer of an informational event, runs into the
\* end of input, an I/O error or the head deadline.
ReceiveFails ==
    /\ recv \in {"awaitHead", "offerInformational"}
    /\ ReceiveSettles("failed")
    /\ slot' = "none"
    /\ UNCHANGED <<request, policy, send, uploadComplete, aborted, permission, observer, incoming, final, shutdown, outcome>>

\* A cancelled read, or a cancelled or abandoned offer.  An offer is
\* abandoned by a dropped observer.  The producer of the response body, if
\* there is one, is dropped.
ReceiveCanceled ==
    /\ \/ recv \in {"awaitHead", "offerInformational", "offerFinal", "body"} /\ exchangeToken
       \/ recv \in {"offerInformational", "offerFinal"} /\ observer = "dropped"
    /\ ReceiveSettles("canceled")
    /\ slot' = "none"
    /\ incoming' = IF incoming = "open" THEN "error" ELSE incoming
    /\ UNCHANGED <<request, policy, send, uploadComplete, aborted, permission, observer, final, shutdown, outcome>>

\* The application took the event.
OfferTaken ==
    /\ recv \in {"offerInformational", "offerFinal"} /\ slot = "none" /\ observer # "dropped"
    /\ \/ /\ recv = "offerInformational"
          /\ recv' = "awaitHead"
          /\ UNCHANGED <<first, exchangeToken, uploadToken>>
       \/ /\ recv = "offerFinal" /\ final[1].body
          /\ recv' = "body"
          /\ UNCHANGED <<first, exchangeToken, uploadToken>>
       \/ recv = "offerFinal" /\ ~final[1].body /\ ReceiveSettles("complete")
    /\ UNCHANGED <<request, policy, send, uploadComplete, aborted, permission, observation, final, shutdown, outcome>>

\* receive_body_configured: see ReceiveBody for its loop.
BodyEnds(end) ==
    /\ recv = "body"
    /\ end = "abandoned" => incoming = "dropped"
    /\ ReceiveSettles(end)
    /\ incoming' = CASE incoming = "dropped" -> "dropped"
                     [] incoming = "open" /\ end = "complete" -> "ended"
                     [] incoming = "open" /\ end # "complete" -> "error"
    /\ UNCHANGED <<request, policy, send, uploadComplete, aborted, permission, slot, observer, final, shutdown, outcome>>

-----------------------------------------------------------------------------
\* The application

\* PendingResponse::next_event
TakeEvent ==
    /\ observer = "watching" /\ slot # "none"
    /\ slot' = "none"
    /\ \/ slot = "informational" /\ UNCHANGED <<observer, incoming>>
       \/ /\ slot = "final"
          /\ observer' = "delivered"
          /\ incoming' = IF final[1].body THEN "open" ELSE "ended"
       \/ slot = "failure" /\ observer' = "failed" /\ UNCHANGED incoming
    /\ UNCHANGED <<request, policy, send, recv, first, control, permission, final, shutdown, outcome>>

\* Dropping a PendingResponse before the final event cancels the exchange.
DropObserver ==
    /\ observer = "watching"
    /\ observer' = "dropped" /\ slot' = "none"
    /\ CancelIf(TRUE)
    /\ UNCHANGED <<request, policy, send, recv, first, uploadComplete, aborted, permission, incoming, final, shutdown, outcome>>

DropBody ==
    /\ incoming = "open"
    /\ incoming' = "dropped"
    /\ UNCHANGED <<request, policy, send, recv, first, control, permission, slot, observer, final, shutdown, outcome>>

\* UploadControl::abort
Abort ==
    /\ ~uploadComplete
    /\ aborted' = TRUE /\ uploadToken' = TRUE
    /\ UNCHANGED <<request, policy, send, recv, first, exchangeToken, uploadComplete, permission, observation, final, shutdown, outcome>>

-----------------------------------------------------------------------------
\* The connection

RequestShutdown ==
    /\ shutdown = "no"
    /\ shutdown' = "requested"
    /\ UNCHANGED <<request, policy, send, recv, first, control, permission, observation, final, outcome>>

\* exchange sees the connection's cancellation.
SeeShutdown ==
    /\ shutdown = "requested" /\ outcome = "none"
    /\ shutdown' = "seen"
    /\ CancelIf(TRUE)
    /\ UNCHANGED <<request, policy, send, recv, first, uploadComplete, aborted, permission, observation, final, outcome>>

CloseReason == IF aborted THEN "UploadAbort" ELSE "MessagePolicy"

Disposition(end) ==
    LET finished == Finished(policy, end, "Complete")
    IN  CASE finished = "Close" -> CloseReason
          [] OTHER -> finished

ReceiveErrorWins == IF recv = "canceled" THEN "Canceled" ELSE "ReceiveFailure"

\* The originating failure, not the other half's cancellation.
ReceiveError ==
    CASE recv = "canceled" /\ send = "failed" -> "SendFailure"
      [] recv = "canceled" /\ send # "failed" -> "Canceled"
      [] recv = "failed" -> "ReceiveFailure"

AbortRaceLost == IF send = "ok" THEN "Complete" ELSE "Retired"

\* An abort that raced with successful completion still retires.
RequestEnd == IF send = "ok" /\ ~aborted THEN "Complete" ELSE "Retired"

\* finish_exchange, pure composition of the settled results
FinishExchange ==
    CASE recv \in {"canceled", "failed"} -> ReceiveError
      [] recv = "abandoned" -> IF send = "failed" THEN "SendFailure" ELSE "BodyAbandonment"
      [] recv = "complete" /\ send = "failed" -> "SendFailure"
      [] recv = "complete" /\ send = "canceled" /\ ~aborted -> "Canceled"
      [] recv = "complete" /\ (send = "ok" \/ (send = "canceled" /\ aborted)) -> Disposition(RequestEnd)

\* The response stream still open after an error carries the error.
FailObserver ==
    IF FinishExchange \in {"Internal", "Canceled", "SendFailure", "ReceiveFailure"}
           /\ observer = "watching"
    THEN "failure" ELSE slot

\* Both directions settled; a failure is also reported to the observer.
Settle ==
    /\ outcome = "none" /\ recv \in RecvEnds /\ send \in SendEnds
    /\ outcome' = FinishExchange
    /\ slot' = FailObserver
    /\ UNCHANGED <<request, policy, send, recv, first, control, permission, observer, incoming, final, shutdown>>

Sending == SendStep \/ PollContinue \/ SendDone
Receiving == ReceiveCanceled \/ OfferTaken

Next ==
    \/ Prepare
    \/ Sending \/ ContinueTimeout \/ SendStops("canceled") \/ SendStops("failed")
    \/ \E head \in Heads : ReceiveHead(head)
    \/ ReceiveFails \/ Receiving
    \/ BodyEnds("complete") \/ BodyEnds("abandoned") \/ BodyEnds("failed")
    \/ TakeEvent \/ DropObserver \/ DropBody \/ Abort
    \/ RequestShutdown \/ SeeShutdown \/ Settle

Spec == Init /\ [][Next]_vars

\* The driver task runs when it is woken.  A cancelled operation settles; one
\* that was not cancelled need never complete.
FairSpec ==
    /\ Spec
    /\ WF_vars(Prepare)
    /\ WF_vars(woken /\ PollContinue)
    /\ WF_vars(SendStops("canceled"))
    /\ WF_vars(Receiving)
    /\ WF_vars(BodyEnds("abandoned"))
    /\ WF_vars(SeeShutdown)
    /\ WF_vars(Settle)

-----------------------------------------------------------------------------
\* A connection is reused or handed over only when the upload was flushed, the
\* response was received completely and given to the application, no abort was
\* accepted, and both messages agree (finish_exchange, ExchangePolicy::finish).
ReuseIsEarned ==
    outcome \in {"Reusable", "Handoff"} =>
        /\ uploadComplete /\ ~aborted
        /\ recv = "complete" /\ observer = "delivered" /\ incoming \in {"ended", "dropped"}
        /\ outcome = "Reusable" => final[1].class = "final" /\ final[1].reuse /\ request.reuse
        /\ outcome = "Handoff" => final[1].class = "upgrade" /\ final[1].upgrade = request.upgrade

\* "body abandonment and upload abort take precedence over message policy":
\* each reason is reported only, and always, when it is the true one.
ReasonsAreTrue ==
    /\ outcome = "BodyAbandonment" => incoming = "dropped"
    /\ outcome = "UploadAbort" => aborted
    /\ outcome = "MessagePolicy" => ~(request.reuse /\ final[1].reuse) /\ uploadComplete /\ ~aborted
    /\ outcome # "Internal"

\* A direction's own failure is never hidden behind the cancellation it caused.
FailureSurvives ==
    outcome # "none" /\ (send = "failed" \/ recv = "failed") =>
        outcome \in {"SendFailure", "ReceiveFailure"}

\* An explicit upload abort alone never cancels response receiving.
AbortSparesResponse ==
    exchangeToken =>
        \/ observer = "dropped" \/ shutdown = "seen"
        \/ send = "failed" \/ recv \in RecvEnds \ {"complete"}

\* While one direction has ended badly and the other is still at work, the
\* other has been told to stop.
PeerIsStopped ==
    /\ recv \in RecvEnds \ {"complete"} /\ send \notin SendEnds => uploadToken
    /\ send = "failed" /\ recv \notin RecvEnds => exchangeToken

\* When the exchange is over no application future waits for it: the observer
\* has the final response or an error, the body has ended or carries an error.
ApplicationAnswered ==
    outcome # "none" =>
        /\ observer = "watching" => slot # "none"
        /\ incoming # "open"

\* Permission ends the wait without help from the timer, even when the
\* application does not take the event that carried it.
PermissionEndsWait == (send = "waitContinue" /\ allowed) ~> (send # "waitContinue")

\* Once asked to stop, by anyone, the exchange settles.
CancelSettles == exchangeToken ~> (outcome # "none")

\* The outcome of the exchange names its true cause and leaves nobody in the
\* application waiting; on the way there a direction is told to stop when the
\* other one failed, and the response never because of an upload abort alone.
OutcomeIsTrue ==
    ReasonsAreTrue /\ FailureSurvives /\ ApplicationAnswered /\ AbortSparesResponse /\ PeerIsStopped

\* Permission to continue ends the wait for it, a cancellation the exchange.
WaitsSettle == PermissionEndsWait /\ CancelSettles
=============================================================================
