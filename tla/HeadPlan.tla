------------------------------ MODULE HeadPlan ------------------------------
(***************************************************************************)
(* How the head of an outgoing message is planned, prepare_request_head    *)
(* and prepare_response_head of src/src/proto/h1/encode.rs: the framing is *)
(* chosen from what the body declares, reconciled with the fields the      *)
(* application set, validated as a recipient would, and written within the *)
(* limit.  metadata is what a body declares: [lower, upper, trailers].     *)
(***************************************************************************)
EXTENDS HeadSemantics

CONSTANT MaxLines   \* EncodeConfig.max_head_bytes, in lines

Exact(metadata) == metadata.lower = metadata.upper /\ ~metadata.trailers

Planned(fields, mode) == [err |-> "", fields |-> fields, mode |-> mode]
Unplanned(fields, error) == [err |-> error, fields |-> fields, mode |-> NoBody]

MapHeadError(error) ==
    CASE error = "" -> ""
      [] error = "UnsupportedTransferCoding" -> "Unsupported"
      [] error \in {"AmbiguousMessageLength", "InvalidContentLength", "InvalidTransferEncoding"} -> "InvalidFraming"
      [] OTHER -> "InvalidHead"

\* set_exact_length: an equal length the application declared is kept as it is.
SetExactLength(fields, n) ==
    LET coding == ParseTransferEncoding(fields.te)
        length == ParseContentLength(fields.cl)
    IN  CASE coding.err # "" -> Unplanned(fields, MapHeadError(coding.err))
          [] coding.err = "" /\ coding.chunked -> Unplanned(fields, "InvalidFraming")
          [] coding.err = "" /\ ~coding.chunked /\ length.err # "" -> Unplanned(fields, MapHeadError(length.err))
          [] OTHER -> CASE length.length = NoLength -> Planned([fields EXCEPT !.cl = <<<<n>>>>], Fixed(n))
                        [] length.length = n -> Planned(fields, Fixed(n))
                        [] OTHER -> Unplanned(fields, "LengthMismatch")

SetChunked(fields) ==
    LET coding == ParseTransferEncoding(fields.te)
    IN  CASE fields.cl # <<>> -> Unplanned(fields, "InvalidFraming")
          [] fields.cl = <<>> /\ coding.err # "" -> Unplanned(fields, MapHeadError(coding.err))
          [] OTHER -> Planned([fields EXCEPT !.te = IF coding.chunked THEN @ ELSE <<<<"chunked">>>>], Chunked)

PlanRequestFraming(fields, version, metadata) ==
    CASE Exact(metadata) -> SetExactLength(fields, metadata.lower)
      [] ~Exact(metadata) /\ version # "1.1" -> Unplanned(fields, "Unsupported")
      [] OTHER -> SetChunked(fields)

\* plan_representation_framing: HTTP/1.0 ends a body of unknown length by closing.
PlanRepresentation(fields, version, metadata) ==
    CASE Exact(metadata) -> SetExactLength(fields, metadata.lower)
      [] ~Exact(metadata) /\ version = "1.1" -> SetChunked(fields)
      [] ~Exact(metadata) /\ version # "1.1" /\ metadata.trailers -> Unplanned(fields, "TrailersForbidden")
      [] OTHER -> IF fields.cl # <<>> \/ fields.te # <<>> THEN Unplanned(fields, "InvalidFraming")
                  ELSE Planned(fields, UntilEof)

DeclaresEmpty(metadata) == Exact(metadata) /\ metadata.lower = 0

\* A 205 says that it is empty, a peer would read until the end otherwise.
ResetContent(fields) == [SetExactLength(fields, 0) EXCEPT !.mode = NoBody]

PlanResponseFraming(fields, version, status, metadata, method) ==
    LET forbidden == (method = "CONNECT" /\ Success(status)) \/ Informational(status) \/ status = 204
        described == method = "HEAD" \/ status = 304
    IN  CASE forbidden ->
                 IF DeclaresEmpty(metadata) /\ fields.cl = <<>> /\ fields.te = <<>>
                 THEN Planned(fields, NoBody) ELSE Unplanned(fields, "BodyForbidden")
          [] ~forbidden /\ described -> [PlanRepresentation(fields, version, metadata) EXCEPT !.mode = NoBody]
          [] ~forbidden /\ ~described /\ status = 205 ->
                 IF DeclaresEmpty(metadata) /\ fields.te = <<>>
                 THEN ResetContent(fields) ELSE Unplanned(fields, "BodyForbidden")
          [] OTHER -> PlanRepresentation(fields, version, metadata)

\* The lines written: the start line and one for each line of a field.
Lines(head) ==
    1 + Len(head.fields.host) + Len(head.fields.cl) + Len(head.fields.te) + Len(head.fields.connection)
      + Len(head.fields.expect) + Len(head.fields.upgrade)

\* version_bytes
VersionError(head) == IF head.version \in {"1.0", "1.1"} THEN "" ELSE "Unsupported"

\* BoundedWriter
LimitError(head) == IF Lines(head) > MaxLines THEN "Limit" ELSE ""

\* What both prepare functions make of a plan and the validation of the head.
Prepared(plan, validated) ==
    [validated EXCEPT !.err = FirstError(<<plan.err, MapHeadError(validated.err),
                                           IF validated.body # plan.mode THEN "InvalidFraming" ELSE "",
                                           VersionError(validated.head), LimitError(validated.head)>>)]

PrepareRequestHead(head, metadata) ==
    LET plan == PlanRequestFraming(head.fields, head.version, metadata)
    IN  Prepared(plan, ValidateRequest([head EXCEPT !.fields = plan.fields], FALSE))

PrepareResponseHead(head, metadata, method) ==
    LET plan == PlanResponseFraming(head.fields, head.version, head.status, metadata, method)
    IN  Prepared(plan, ValidateResponse([head EXCEPT !.fields = plan.fields], method))
=============================================================================
