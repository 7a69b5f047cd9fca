------------------------------ MODULE Message ------------------------------
(***************************************************************************)
(* One outgoing message from its head to its last byte: a request          *)
(* (RequestUpload and send_request of src/src/proto/h1/client.rs, but for  *)
(* the wait for 100 Continue between head and body: ClientExchange), a     *)
(* response, an informational response or the answer to an illegal request *)
(* (write_response, write_informationals and reply_illegal_head of         *)
(* src/src/proto/h1/server.rs).  The head is planned (HeadPlan) from what  *)
(* the body declares and written, the body is sent (SendBody) in the       *)
(* framing the head announced, and the transport is flushed.  The peer has *)
(* nothing but the head (HeadSemantics) and the bytes (Decoder).           *)
(***************************************************************************)
EXTENDS SendBody, HeadPlan

\* Sets of messages [kind, request, response, close, body]: the request is the
\* one sent or the one answered; close is what the application asked for; body
\* is a [lower, upper, trailers, frames].
CONSTANT Families

VARIABLES
    message,
    planned,    \* MessagePlan: the head as it is written, or the error
    phase,      \* "head", "body", "flush" or "done"
    outcome     \* of the whole message: "none" until phase is "done"

sending == vars
all == <<message, planned, phase, outcome, sending>>

Nothing == [lower |-> 0, upper |-> 0, trailers |-> FALSE]

NewestVersion(request, response) == response.version

\* A client of HTTP/1.0 is answered in it, whatever the application chose.
ResponseVersion(request, response) == IF request.version = "1.0" THEN "1.0" ELSE response.version

\* The exchange's close flag: the request's persistence, or the application.
CloseFlag(m) == m.close \/ ~ValidateRequest(m.request, TRUE).reuse

\* ExchangePolicy::sent_response
UpgradeRefused(request, plan) ==
    /\ plan.upgrade # "None"
    /\ \/ request.upgrade # plan.upgrade
       \/ plan.upgrade = "Protocol" /\ ~ProtocolsMatch(request.head.fields.upgrade, plan.head.fields.upgrade)

\* write_response, up to the head
PlanAnswer(m) ==
    LET request == ValidateRequest(m.request, TRUE)
        options == IF CloseFlag(m) THEN <<<<"close">>>> ELSE <<>>
        head == [m.response EXCEPT !.version = ResponseVersion(m.request, m.response),
                                   !.fields.connection = @ \o options]
        plan == PrepareResponseHead(head, m.body, m.request.method)
    IN  [plan EXCEPT !.err = FirstError(
            <<IF Informational(m.response.status) /\ m.response.status # 101 THEN "Unsupported" ELSE "",
              plan.err,
              IF plan.upgrade # "None" /\ CloseFlag(m) THEN "Upgrade" ELSE "",
              IF UpgradeRefused(request, plan) THEN "Upgrade" ELSE "">>)]

\* write_informationals
PlanInformational(m) ==
    LET plan == PrepareResponseHead(m.response, Nothing, "GET")
    IN  IF m.request.version = "1.1" THEN plan ELSE [plan EXCEPT !.err = "Unsupported"]

\* reply_illegal_head
PlanReply(m) == PrepareResponseHead(m.response, Nothing, "GET")

PlanMessage(m) ==
    CASE m.kind = "request" -> PrepareRequestHead(m.request, m.body)
      [] m.kind = "response" -> PlanAnswer(m)
      [] m.kind = "informational" -> PlanInformational(m)
      [] m.kind = "illegal" -> PlanReply(m)

\* The body as the encoder gets it.
Production(b, mode) ==
    [mode |-> mode, lower |-> b.lower, upper |-> b.upper, trailers |-> b.trailers, frames |-> b.frames]

\* A plan whose body no encoder can be made for is given up.
Encoded(plan, b) ==
    [plan EXCEPT !.err = IF @ = "" /\ ~Encodable(Production(b, plan.body)) THEN "InvalidFraming" ELSE @]

\* The head is planned, and the encoder made, before anything is written.
MessageInit ==
    /\ \E family \in Families : message \in family
    /\ planned = Encoded(PlanMessage(message), message.body)
    /\ Start(Production(message.body, IF planned.err = "" THEN planned.body ELSE NoBody))
    /\ phase = IF planned.err = "" THEN "head" ELSE "done"
    /\ outcome = IF planned.err = "" THEN "none" ELSE planned.err

Over(how) == phase' = "done" /\ outcome' = how

\* write_all of the head; a body is sent only in a mode that has one.
WriteHead ==
    /\ phase = "head"
    /\ unflushed' = TRUE
    /\ phase' = IF body.mode = NoBody THEN "flush" ELSE "body"
    /\ UNCHANGED <<message, planned, outcome, body, local, canceled, wire, recycled>>

HeadFails ==
    /\ phase = "head"
    /\ Over(IF canceled THEN "Canceled" ELSE "Io")
    /\ UNCHANGED <<message, planned, sending>>

SendStep ==
    /\ phase = "body"
    /\ Step
    /\ \/ pc' # "done" /\ UNCHANGED <<phase, outcome>>
       \/ pc' = "done" /\ result' = "Ok" /\ phase' = "flush" /\ UNCHANGED outcome
       \/ pc' = "done" /\ result' # "Ok" /\ Over(result')
    /\ UNCHANGED <<message, planned>>

\* The final flush, for transports that buffer.
FinalFlush ==
    /\ phase = "flush"
    /\ \/ ~canceled /\ unflushed' = FALSE /\ Over("Ok")
       \/ UNCHANGED unflushed /\ Over(IF canceled THEN "Canceled" ELSE "Io")
    /\ UNCHANGED <<message, planned, body, local, canceled, wire, recycled>>

Canceled == phase # "done" /\ Cancel /\ UNCHANGED <<message, planned, phase, outcome>>

MessageNext == WriteHead \/ HeadFails \/ SendStep \/ FinalFlush \/ Canceled

MessageSpec == MessageInit /\ [][MessageNext]_all

-----------------------------------------------------------------------------
(* A recipient that goes by RFC 9112, section 6.3, and knows nothing of the *)
(* code above.                                                              *)

Lengths(head) == ToSet(Members(head.fields.cl, Malformed))
Codings(head) == Members(head.fields.te, "bad")

\* The body of a message that is not without one by its status or method.
FramedBody(head, otherwise) ==
    CASE Codings(head) = <<"chunked">> /\ Lengths(head) = {} -> Chunked
      [] Codings(head) = <<>> /\ Lengths(head) = {} -> otherwise
      [] Codings(head) = <<>> /\ Cardinality(Lengths(head)) = 1 /\ Malformed \notin Lengths(head) ->
             Fixed(CHOOSE n \in Lengths(head) : TRUE)
      [] OTHER -> [kind |-> "unclear", length |-> 0]

RequestBody(head) == FramedBody(head, NoBody)

ResponseBody(head, method) ==
    IF \/ method = "HEAD" \/ head.status \in 100 .. 199 \cup {204, 304}
       \/ method = "CONNECT" /\ head.status \in 200 .. 299
    THEN NoBody ELSE FramedBody(head, UntilEof)

SameBody(a, b) == a = b \/ {a, b} \subseteq {NoBody, Fixed(0)}

-----------------------------------------------------------------------------
AnsweredMethod == IF message.kind = "response" THEN message.request.method ELSE "GET"

OnTheWire == planned.err = "" /\ phase # "head"

\* What a recipient built from the same code makes of the head that was sent.
PeerView ==
    IF message.kind = "request" THEN ValidateRequest(planned.head, TRUE)
    ELSE ValidateResponse(planned.head, AnsweredMethod)

\* Any recipient finds the body where the encoder puts it, and draws the same
\* conclusions about the connection as the sender.
PeerAgrees ==
    OnTheWire =>
        /\ PeerView.err = "" /\ PeerView.body = body.mode
        /\ PeerView.reuse = planned.reuse /\ PeerView.upgrade = planned.upgrade
        /\ message.kind = "request" => /\ PeerView.continue = planned.continue
                                       /\ SameBody(RequestBody(planned.head), body.mode)
        /\ message.kind # "request" => SameBody(ResponseBody(planned.head, AnsweredMethod), body.mode)

\* What is sent fits the one it is sent to: no coding, no informational head and
\* no upgrade for HTTP/1.0, no upgrade that was not asked for, and an exchange
\* that is to be the last one says so.
PeerCanFollow ==
    OnTheWire /\ message.kind = "response" =>
        /\ message.request.version = "1.0" =>
               planned.head.fields.te = <<>> /\ ~Informational(planned.head.status)
        /\ LET asked == ValidateRequest(message.request, FALSE)
           IN  asked.err = "" => planned.upgrade \in {"None", asked.upgrade}
        /\ CloseFlag(message) => ~PeerView.reuse /\ planned.upgrade = "None"

\* The head that is written says what the bytes after it are and what becomes
\* of the connection, to any recipient, whatever fields the application set.
HeadsAgree == PeerAgrees /\ PeerCanFollow

\* A head that is accepted from a peer has one reading: its body is the one of
\* RFC 9112, never one of several lengths or codings (a 205 is taken to be empty
\* in any case), and an upgrade is seen only in a version that has it.
AcceptedHeadsAreClear ==
    LET request == ValidateRequest(message.request, TRUE)
        response == ValidateResponse(message.response, message.request.method)
    IN  /\ request.err = "" =>
               /\ request.body = RequestBody(message.request)
               /\ request.continue \/ request.upgrade = "Protocol" => message.request.version = "1.1"
               /\ request.upgrade = "Tunnel" <=> message.request.method = "CONNECT"
        /\ response.err = "" =>
               /\ message.response.status # 205 =>
                      response.body = ResponseBody(message.response, message.request.method)
               /\ response.body = UntilEof => ~response.reuse

\* The bytes of the body reach the peer as promised, every frame goes back to
\* the body once, and a message is reported as sent only when all of it has
\* left the transport's buffer.
MessageFaithful ==
    /\ SentFaithfully
    /\ RecycledOnce
    /\ outcome = "Ok" => ~unflushed /\ (body.mode.kind # "None" => result = "Ok")
=============================================================================
