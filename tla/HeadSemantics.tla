--------------------------- MODULE HeadSemantics ---------------------------
(***************************************************************************)
(* What a message head means, src/src/proto/h1/head/validate.rs: the body  *)
(* that follows, whether the connection persists, what is expected and     *)
(* what it is upgraded to.                                                 *)
(*                                                                         *)
(* A head is a record with the method, target and version of a request or  *)
(* the status and version of a response, and its fields.  A list field is  *)
(* the sequence of its lines, each the sequence of its members; a member   *)
(* outside the field's syntax is "bad" (Malformed for a length).  host is  *)
(* the sequence of its values.                                             *)
(***************************************************************************)
EXTENDS SequencesExt, Integers

NoLength == -1
Malformed == -2     \* not a decimal number, or too large for one of 64 bits

NoBody == [kind |-> "None", length |-> 0]
Fixed(n) == [kind |-> "Fixed", length |-> n]
Chunked == [kind |-> "Chunked", length |-> 0]
UntilEof == [kind |-> "UntilEof", length |-> 0]

\* The error of the first check that fails, "" when none does.
FirstError(errors) ==
    LET real == SelectSeq(errors, LAMBDA e : e # "") IN IF real = <<>> THEN "" ELSE Head(real)

\* The members of a field over all of its lines; an empty line has a bad one.
Members(lines, bad) == FlattenSeq([i \in DOMAIN lines |-> IF lines[i] = <<>> THEN <<bad>> ELSE lines[i]])

AddLastLength(parsed, member) ==
    CASE parsed.err # "" -> parsed
      [] parsed.err = "" /\ member = Malformed -> [parsed EXCEPT !.err = "InvalidContentLength"]
      [] OTHER -> [parsed EXCEPT !.length = member]

AddLength(parsed, member) ==
    CASE parsed.err # "" -> parsed
      [] parsed.err = "" /\ member = Malformed -> [parsed EXCEPT !.err = "InvalidContentLength"]
      [] parsed.err = "" /\ member # Malformed /\ parsed.length \notin {NoLength, member} ->
             [parsed EXCEPT !.err = "AmbiguousMessageLength"]
      [] OTHER -> [parsed EXCEPT !.length = member]

ParseContentLength(lines) ==
    FoldLeft(AddLength, [err |-> "", length |-> NoLength], Members(lines, Malformed))

\* "chunked;" is the chunked coding with parameters.
ParseTransferEncoding(lines) ==
    LET codings == Members(lines, "bad")
        chunked == {i \in DOMAIN codings : codings[i] = "chunked"}
        error == CASE codings = <<>> -> ""
                   [] \E i \in DOMAIN codings : codings[i] \in {"bad", "chunked;"} -> "InvalidTransferEncoding"
                   [] chunked # {Len(codings)} -> "InvalidTransferEncoding"
                   [] Len(codings) > 1 -> "UnsupportedTransferCoding"
                   [] OTHER -> ""
    IN  [err |-> error, chunked |-> codings # <<>>]

ConnectionOptions(lines) ==
    LET tokens == ToSet(Members(lines, "bad"))
    IN  [err |-> IF "bad" \in tokens THEN "InvalidConnection" ELSE "",
         close |-> "close" \in tokens, keep_alive |-> "keep-alive" \in tokens, upgrade |-> "upgrade" \in tokens]

\* persistence: the connection may be used again.
Reusable(version, options) == ~options.close /\ (version = "1.0" => options.keep_alive)

\* An HTTP/1.0 recipient ignores the expectation, a sender must not make it.
Expectation(lines, version, received) ==
    LET tokens == ToSet(Members(lines, "bad"))
        legal == \/ tokens = {}
                 \/ tokens = {"100-continue"} /\ (version = "1.1" \/ (version = "1.0" /\ received))
    IN  [err |-> IF legal THEN "" ELSE "InvalidExpectation",
         continue |-> tokens # {} /\ version = "1.1"]

\* validate_upgrade_values
UpgradeValues(lines) ==
    LET protocols == Members(lines, "bad")
    IN  [err |-> IF "bad" \in ToSet(protocols) THEN "InvalidUpgrade" ELSE "", any |-> protocols # <<>>]

\* upgrade_protocols_match: only protocols that were offered are selected.
ProtocolsMatch(offered, selected) ==
    /\ Members(selected, "bad") # <<>>
    /\ ToSet(Members(selected, "bad")) \subseteq ToSet(Members(offered, "bad")) \ {"bad"}

-----------------------------------------------------------------------------
(* Requests.  A target is "*", "/", "absolute", "user@absolute", "authority", *)
(* "authority:port" or "other".                                               *)

Form(target) ==
    CASE target = "*" -> "Asterisk"
      [] target \in {"absolute", "user@absolute"} -> "Absolute"
      [] target \in {"authority", "authority:port"} -> "Authority"
      [] target = "/" -> "Origin"
      [] OTHER -> "none"

\* validate_request_target
TargetError(method, target) ==
    LET legal == CASE method = "CONNECT" -> target = "authority:port"
                   [] method = "OPTIONS" -> Form(target) \in {"Asterisk", "Absolute", "Origin"}
                   [] OTHER -> Form(target) \in {"Absolute", "Origin"}
    IN  IF legal THEN "" ELSE "InvalidTargetForm"

HostError(host, version) ==
    CASE host = <<>> -> IF version = "1.1" THEN "MissingHost" ELSE ""
      [] host # <<>> -> IF Len(host) > 1 \/ host[1] = "bad" THEN "InvalidHost" ELSE ""

\* normalize_absolute_host: the target's authority replaces any Host field.
NormalizedHost(head) == IF Form(head.target) = "Absolute" THEN <<"target">> ELSE head.fields.host

\* upgrade_intent
RequestUpgrade(head, options, received) ==
    LET values == UpgradeValues(head.fields.upgrade)
        ignored == received /\ head.version = "1.0"
        asks == options.upgrade /\ ~options.close /\ values.any
        error == FirstError(<<values.err,
                              IF asks \/ ~(options.upgrade \/ values.any) THEN "" ELSE "InvalidUpgrade",
                              IF asks /\ head.version # "1.1" THEN "InvalidUpgrade" ELSE "">>)
    IN  CASE Form(head.target) = "Authority" -> [err |-> "", kind |-> "Tunnel"]
          [] Form(head.target) # "Authority" /\ ignored -> [err |-> "", kind |-> "None"]
          [] OTHER -> [err |-> error, kind |-> IF asks THEN "Protocol" ELSE "None"]

\* The checks on the framing fields that both kinds of head share.
FramingErrors(head, length, coding) ==
    <<length.err, coding.err,
      IF length.length # NoLength /\ coding.chunked THEN "AmbiguousMessageLength" ELSE "",
      IF coding.chunked /\ head.version # "1.1" THEN "InvalidTransferEncoding" ELSE "">>

Framing(length, coding, otherwise) ==
    CASE coding.chunked -> Chunked
      [] ~coding.chunked /\ length.length # NoLength -> Fixed(length.length)
      [] OTHER -> otherwise

\* RequestHead::validate and validate_received
ValidateRequest(head, received) ==
    LET length == ParseContentLength(head.fields.cl)
        coding == ParseTransferEncoding(head.fields.te)
        options == ConnectionOptions(head.fields.connection)
        expectation == Expectation(head.fields.expect, head.version, received)
        upgrade == RequestUpgrade(head, options, received)
    IN  [err |-> FirstError(
             <<TargetError(head.method, head.target), HostError(head.fields.host, head.version),
               IF head.target = "user@absolute" THEN "InvalidTarget" ELSE "">>
             \o FramingErrors(head, length, coding)
             \o <<options.err, expectation.err, upgrade.err>>),
         head |-> [head EXCEPT !.fields.host = NormalizedHost(head)],
         body |-> Framing(length, coding, NoBody),
         reuse |-> Reusable(head.version, options),
         continue |-> expectation.continue,
         upgrade |-> upgrade.kind]

-----------------------------------------------------------------------------
(* Responses. *)

Informational(status) == status \in 100 .. 199
Success(status) == status \in 200 .. 299

Bodiless(status) == Informational(status) \/ status \in {204, 205, 304}

\* ResponseHead::validate, for a response to a request of the given method.
ValidateResponse(head, method) ==
    LET length == ParseContentLength(head.fields.cl)
        coding == ParseTransferEncoding(head.fields.te)
        options == ConnectionOptions(head.fields.connection)
        values == UpgradeValues(head.fields.upgrade)
        switches == head.version = "1.1" /\ options.upgrade /\ ~options.close /\ values.err = "" /\ values.any
        upgrade == CASE head.status = 101 -> "Protocol"
                     [] method = "CONNECT" /\ Success(head.status) -> "Tunnel"
                     [] OTHER -> "None"
        none == upgrade # "None" \/ method = "HEAD" \/ Bodiless(head.status)
        body == IF none THEN NoBody ELSE Framing(length, coding, UntilEof)
    IN  [err |-> FirstError(
             <<IF head.status > 599 THEN "InvalidStatus" ELSE "", options.err,
               IF head.status = 101 /\ ~switches THEN "InvalidUpgrade" ELSE "">>
             \o (IF none THEN <<>> ELSE FramingErrors(head, length, coding))),
         head |-> head,
         body |-> body,
         reuse |-> Reusable(head.version, options) /\ body # UntilEof,
         upgrade |-> upgrade]
=============================================================================
