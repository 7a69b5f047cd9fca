--------------------------- MODULE ServerExchange ---------------------------
(***************************************************************************)
(* One exchange of the HTTP/1 server driver (exchange of proto/h1/server.rs*)
(* and what it calls): the request body is received while the service runs *)
(* and while its response is written.  Whatever fails first cancels the    *)
(* connection's source and is reported once everything has settled.        *)
(*                                                                         *)
(* The service call includes its informational writer (see Informational)  *)
(* and is reduced here to how it ends; receive_body_configured is reduced  *)
(* to waiting for the application and reading from the transport.          *)
(***************************************************************************)
EXTENDS ExchangePolicy

CONSTANT Heads      \* heads of the responses a service may return

ASSUME ServerExchangeAssumption == Heads \subseteq HeadRecords

VARIABLES
    request,    \* the request head: expect, body, reuse, upgrade
    policy,     \* ExchangePolicy
    incoming,   \* the request body in the application's hands
    recv,       \* progress of receive_request
    call,       \* progress of call_service
    response,   \* the response the service returned: at most one
    send,       \* progress of write_response
    close,      \* the exchange's close flag
    canceled,   \* the connection's cancellation source
    aborted,    \* history: it was cancelled from outside the exchange
    branch,     \* the failure path the driver is on
    announced,  \* history: what the response head said of the connection
    known,      \* history: the body's abandonment was visible at selection
    outcome

activities == <<recv, call, send>>
history == <<aborted, announced, known>>
vars == <<request, policy, incoming, activities, response, close, canceled, branch, history, outcome>>

RecvEnds == {"complete", "abandoned", "failed", "canceled"}
Bad == {"failed", "canceled"}
Errors == {"receive", "call", "send"}

Requests ==
    [expect : BOOLEAN, body : BOOLEAN, reuse : BOOLEAN, upgrade : Kinds \cup {NoUpgrade}]

TypeOK ==
    /\ request \in Requests
    /\ policy \in Policies(0)
    /\ incoming \in {"idle", "demanding", "dropped"}
    /\ recv \in {"demand", "permission", "wait", "read"} \cup RecvEnds
    /\ call \in {"running", "ok"} \cup Bad
    /\ response \in {<<>>} \cup {<<head>> : head \in Heads}
    /\ send \in {"idle", "plan", "write", "ok"} \cup Bad
    /\ close \in BOOLEAN /\ canceled \in BOOLEAN /\ aborted \in BOOLEAN /\ known \in BOOLEAN
    /\ branch \in Errors \cup {"none"}
    /\ announced \in {"none", "close", "keep"}
    /\ outcome \in {"none", "Reusable", "Close", "Handoff", "Internal"} \cup Errors

\* A request without a body is received at once; Expect delays the first read.
Init ==
    /\ request \in Requests
    /\ policy = NewPolicy(request.reuse, request.upgrade)
    /\ incoming = "idle"
    /\ recv = IF ~request.body THEN "complete" ELSE IF request.expect THEN "demand" ELSE "wait"
    /\ call = "running" /\ response = <<>> /\ send = "idle"
    /\ close = ~request.reuse
    /\ canceled = FALSE /\ aborted = FALSE /\ branch = "none"
    /\ announced = "none" /\ known = FALSE /\ outcome = "none"

-----------------------------------------------------------------------------
\* The application's body handle and request context

Demand ==
    /\ incoming = "idle"
    /\ incoming' = "demanding"
    /\ UNCHANGED <<request, policy, activities, response, close, canceled, branch, history, outcome>>

DropBody ==
    /\ incoming # "dropped"
    /\ incoming' = "dropped"
    /\ UNCHANGED <<request, policy, activities, response, close, canceled, branch, history, outcome>>

\* RequestContext::close_connection
CloseConnection ==
    /\ outcome = "none"
    /\ close' = TRUE
    /\ UNCHANGED <<request, policy, incoming, activities, response, canceled, branch, history, outcome>>

\* The connection is aborted from outside.
AbortConnection ==
    /\ outcome = "none"
    /\ canceled' = TRUE /\ aborted' = TRUE
    /\ UNCHANGED <<request, policy, incoming, activities, response, close, branch, announced, known, outcome>>

-----------------------------------------------------------------------------
\* An activity that ended badly stops the others; their results no longer count.

BlameLast(activity) == branch' = activity

Blame(activity) == branch' = IF branch = "none" THEN activity ELSE branch

TolerateReceive(end) == canceled

\* Failed reception cancels the call or the response under way.
CanceledBy(end) == canceled \/ (end \in Bad /\ (call = "running" \/ send \in {"plan", "write"}))

ReceiveEnds(end) ==
    /\ recv' = end
    /\ canceled' = CanceledBy(end)
    /\ IF end \in Bad THEN Blame("receive") ELSE UNCHANGED branch

-----------------------------------------------------------------------------
\* receive_request

\* An awaited demand arrived: ask for permission to let the client continue.
AskPermission ==
    /\ recv = "demand" /\ incoming = "demanding"
    /\ recv' = "permission"
    /\ UNCHANGED <<request, policy, incoming, call, send, response, close, canceled, branch, history, outcome>>

\* 100 was written (a selected response also ends the wait: CallReturns).
PermissionGranted ==
    /\ recv = "permission"
    /\ recv' = "wait"
    /\ UNCHANGED <<request, policy, incoming, call, send, response, close, canceled, branch, history, outcome>>

\* Demand with nothing decodable: a read is submitted.
SubmitRead ==
    /\ recv = "wait" /\ incoming = "demanding"
    /\ recv' = "read"
    /\ UNCHANGED <<request, policy, incoming, call, send, response, close, canceled, branch, history, outcome>>

\* Input arrived; a frame made of it may have met the demand.
ReadData ==
    /\ recv = "read"
    /\ recv' = "wait"
    /\ incoming' \in {incoming} \cup (IF incoming = "demanding" THEN {"idle"} ELSE {})
    /\ UNCHANGED <<request, policy, call, send, response, close, canceled, branch, history, outcome>>

\* Completion and failure of the body, and the ends the application or the
\* cancellation bring about.
EndReceive(end) ==
    /\ \/ end = "complete" /\ recv \in {"wait"}
       \/ end = "failed" /\ recv \in {"wait", "read"}
       \/ end = "abandoned" /\ recv \in {"demand", "wait", "read"} /\ incoming = "dropped"
       \/ end = "canceled" /\ recv \notin RecvEnds /\ canceled
    /\ ReceiveEnds(end)
    /\ UNCHANGED <<request, policy, incoming, call, send, response, close, aborted, announced, known, outcome>>

-----------------------------------------------------------------------------
\* call_service

SelectUnpolled == UNCHANGED recv

\* One more poll of receive before headers are committed: permission is
\* released by the selection, and an abandonment is seen unless a read is out.
PolledOnce ==
    \/ recv \in {"demand", "permission", "wait"} /\ incoming = "dropped" /\ recv' = "abandoned"
    \/ recv = "permission" /\ incoming # "dropped" /\ recv' \in {"wait", "read", "complete", "failed"}
    \/ recv \in {"demand", "wait"} /\ incoming # "dropped" /\ UNCHANGED recv
    \/ recv \in {"read", "complete", "abandoned"} /\ UNCHANGED recv

\* The service's response is selected and its informational heads are settled.
CallReturns(head) ==
    /\ call = "running"
    /\ call' = "ok" /\ response' = <<head>>
    /\ \/ /\ recv \in Bad                      \* receive failed while the call ran
          /\ outcome' = "receive"
          /\ UNCHANGED <<recv, send, close, branch, known>>
       \/ /\ recv \notin Bad
          /\ PolledOnce
          /\ \/ /\ recv' = "failed"
                /\ outcome' = "receive" /\ branch' = "receive"
                /\ UNCHANGED <<send, close, known>>
             \/ /\ recv' # "failed"
                /\ send' = "plan"
                /\ close' = (close \/ recv' = "abandoned")
                /\ known' = (incoming = "dropped" /\ recv \notin {"read", "complete"})
                /\ UNCHANGED <<branch, outcome>>
    /\ UNCHANGED <<request, policy, incoming, canceled, aborted, announced>>

\* The service, or the writer of informational heads, fails or is cancelled.
CallFails(end) ==
    /\ call = "running"
    /\ end = "canceled" => canceled
    /\ call' = end
    /\ canceled' = TRUE
    /\ Blame("call")
    /\ UNCHANGED <<request, policy, incoming, recv, send, response, close, aborted, announced, known, outcome>>

-----------------------------------------------------------------------------
\* write_response

SendSettles(end) ==
    /\ send' = end
    /\ canceled' = (canceled \/ end \in Bad)
    /\ IF end \in Bad THEN Blame("send") ELSE UNCHANGED branch

\* sent_response, and the check before it.
Acceptable(head) ==
    /\ head.class # "informational"
    /\ head.class = "upgrade" => ~close /\ UpgradeAgreed(policy, head)

\* The Connection field of the committed head.
Announcement(head) == IF head.reuse /\ ~close THEN "keep" ELSE "close"

\* The head is planned: an unacceptable response fails before any byte of it.
Plan ==
    /\ send = "plan" /\ outcome = "none"
    /\ \/ /\ ~Acceptable(response[1])
          /\ SendSettles("failed")
          /\ UNCHANGED <<policy, announced>>
       \/ /\ Acceptable(response[1])
          /\ policy' = AfterHead(policy, [response[1] EXCEPT !.reuse = @ /\ ~close])
          /\ announced' = Announcement(response[1])
          /\ send' = "write"
          /\ UNCHANGED <<canceled, branch>>
    /\ UNCHANGED <<request, incoming, recv, call, response, close, aborted, known, outcome>>

\* Head, body and flush, then the end of write_response.
EndSend(end) ==
    /\ \/ end \in {"ok", "failed"} /\ send = "write"
       \/ end = "failed" /\ send = "plan"
       \/ end = "canceled" /\ send = "write" /\ canceled
    /\ outcome = "none"
    /\ SendSettles(end)
    /\ UNCHANGED <<request, policy, incoming, recv, call, response, close, aborted, announced, known, outcome>>

-----------------------------------------------------------------------------
IgnoreClose == policy

\* finish_exchange applies the close flag as it is now.
FinalPolicy == IF close THEN Closing(policy) ELSE policy

\* Every path awaits both retained directions.
Awaited == recv \in RecvEnds /\ call # "running"

\* Nothing is left in flight: the failure of the path taken, or the composed
\* policy.
Settle ==
    /\ outcome = "none" /\ Awaited
    /\ call = "ok" => send \in {"ok"} \cup Bad
    /\ outcome' = IF branch # "none" THEN branch
                  ELSE Finished(FinalPolicy, IF recv = "abandoned" THEN "Retired" ELSE "Complete", "Complete")
    /\ UNCHANGED <<request, policy, incoming, activities, response, close, canceled, branch, history>>

Next ==
    \/ Demand \/ DropBody \/ CloseConnection \/ AbortConnection
    \/ AskPermission \/ PermissionGranted \/ SubmitRead \/ ReadData
    \/ \E end \in RecvEnds : EndReceive(end)
    \/ \E head \in Heads : CallReturns(head)
    \/ \E end \in Bad : CallFails(end)
    \/ Plan
    \/ \E end \in {"ok"} \cup Bad : EndSend(end)
    \/ Settle

Spec == Init /\ [][Next]_vars

\* Cancelled operations and waits settle, and the driver runs when it can; no
\* transport, service or application is obliged to make progress.
FairSpec ==
    /\ Spec
    /\ WF_vars(EndReceive("canceled")) /\ WF_vars(EndReceive("abandoned"))
    /\ WF_vars(CallFails("canceled"))
    /\ WF_vars(Plan)
    /\ WF_vars(EndSend("canceled"))
    /\ WF_vars(Settle)

-----------------------------------------------------------------------------
\* The next request is read, or the transport handed over, only after the
\* request body was received to its end and the response was written and
\* flushed, with both messages agreeing; and the exchange itself has not
\* cancelled the connection it hands back.
ReuseIsEarned ==
    outcome \in {"Reusable", "Handoff"} =>
        /\ recv = "complete" /\ call = "ok" /\ send = "ok" /\ (canceled => aborted)
        /\ outcome = "Reusable" => ~close /\ request.reuse /\ response[1].reuse
        /\ outcome = "Handoff" => response[1].upgrade = request.upgrade /\ request.upgrade # NoUpgrade

\* When an exchange ends, none of its three activities holds a buffer or the
\* transport, whichever early return was taken.
NothingInFlight ==
    outcome # "none" => recv \in RecvEnds /\ call # "running" /\ send # "write"

\* The reported error is never a cancellation the exchange itself caused.
OriginalErrorReported ==
    /\ outcome = "receive" => recv = "failed" \/ (recv = "canceled" /\ aborted)
    /\ outcome = "call" => call = "failed" \/ (call = "canceled" /\ aborted)
    /\ outcome = "send" => send = "failed" \/ (send = "canceled" /\ aborted)

\* However it ends, an exchange reports the original error and leaves nothing
\* of itself behind.
EndsTruthfully == NothingInFlight /\ OriginalErrorReported

\* "Observe body abandonment caused by the completed service before committing
\* headers": the response then says that the connection will close.
AbandonmentAnnounced == known => announced # "keep"

\* Whoever fails or cancels, the exchange ends.
FailureSettles == (canceled \/ branch # "none") ~> (outcome # "none")

\* "Finish this exchange and close": a close requested before the exchange
\* ends is honoured.
CloseHonoured ==
    outcome # "none" /\ close => outcome \notin {"Reusable", "Handoff"}
=============================================================================
