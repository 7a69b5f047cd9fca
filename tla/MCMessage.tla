----------------------------- MODULE MCMessage -----------------------------
(* Heads with any combination of the framing fields, of the connection's      *)
(* fields, or of method, target and host, with a small body; and a few heads, *)
(* one for each framing, with bodies that keep what they declare or yield too *)
(* much, too little, an empty frame, trailers that were not announced or may  *)
(* not be sent, or more after them.                                           *)
EXTENDS Message

Data(bytes) == [kind |-> "data", data |-> bytes]
Trailing(fields) == [kind |-> "trailers", data |-> <<>>, fields |-> fields]

Plain == [host |-> <<>>, cl |-> <<>>, te |-> <<>>, connection |-> <<>>, expect |-> <<>>, upgrade |-> <<>>]
Hosted == [Plain EXCEPT !.host = <<"valid">>]
Get == [method |-> "GET", target |-> "/", version |-> "1.1", fields |-> Hosted]
Ok == [status |-> 200, version |-> "1.1", fields |-> Plain]

Empty == [lower |-> 0, upper |-> 0, trailers |-> FALSE, frames |-> <<>>]
Two == [lower |-> 2, upper |-> 2, trailers |-> FALSE, frames |-> <<Data(<<"0", "1">>)>>]
Unknown == [lower |-> 0, upper |-> NoUpper, trailers |-> TRUE, frames |-> <<>>]
Small == {Empty, Two, Unknown, [Unknown EXCEPT !.trailers = FALSE]}

Versions == {"1.0", "1.1", "2"}
Lengths2 == {<<>>, <<<<2>>>>, <<<<2>>, <<2>>>>, <<<<2, 0>>>>, <<<<Malformed>>>>, <<<<2>>, <<>>>>}
Codings2 == {<<>>, <<<<"chunked">>>>, <<<<"gzip", "chunked">>>>, <<<<"chunked">>, <<"gzip">>>>, <<<<"chunked;">>>>}
Options == {<<>>, <<<<"close">>>>, <<<<"keep-alive">>>>, <<<<"upgrade">>>>, <<<<"upgrade">>, <<"close">>>>, <<<<>>>>}
Expects == {<<>>, <<<<"100-continue">>>>, <<<<"bad">>>>}
Upgrades == {<<>>, <<<<"a", "b">>>>, <<<<"bad">>>>}

FramingFields == {[Hosted EXCEPT !.cl = cl, !.te = te] : cl \in Lengths2, te \in Codings2}
ConnectionFields ==
    {[Hosted EXCEPT !.connection = c, !.expect = e, !.upgrade = u] : c \in Options, e \in Expects, u \in Upgrades}

Targets == {"/", "*", "absolute", "user@absolute", "authority", "authority:port", "other"}

Requests ==
    [method : {"GET"}, target : {"/"}, version : Versions, fields : FramingFields \cup ConnectionFields]
    \cup [method : {"GET", "OPTIONS", "CONNECT"}, target : Targets, version : {"1.0", "1.1"},
          fields : {[Plain EXCEPT !.host = h] : h \in {<<>>, <<"valid">>, <<"bad">>, <<"valid", "valid">>}}]

AnsweredFields ==
    {Hosted, [Hosted EXCEPT !.connection = <<<<"keep-alive">>>>],
     [Hosted EXCEPT !.connection = <<<<"upgrade">>>>, !.upgrade = <<<<"a", "b">>>>]}

\* Illegal requests have no answer but the automatic one.
Answered ==
    {q \in [method : {"GET", "HEAD"}, target : {"/"}, version : {"1.0", "1.1"}, fields : AnsweredFields]
           \cup {[Get EXCEPT !.method = "CONNECT", !.target = "authority:port"]} :
        ValidateRequest(q, TRUE).err = ""}

Switches == [Plain EXCEPT !.connection = <<<<"upgrade">>>>]
Responses ==
    [status : {200, 204, 205, 304, 600}, version : Versions, fields : FramingFields]
    \cup [status : {101, 103, 200}, version : {"1.0", "1.1"},
          fields : {Plain, Switches, [Switches EXCEPT !.upgrade = <<<<"b">>>>], [Switches EXCEPT !.upgrade = <<<<"c">>>>],
                    [Plain EXCEPT !.connection = <<<<"close">>>>, !.upgrade = <<<<"b">>>>],
                    [Plain EXCEPT !.connection = <<<<"keep-alive">>>>]}]

Messages(kind, requests, responses, bodies) ==
    [kind : {kind}, request : requests, response : responses,
     close : IF kind = "response" THEN BOOLEAN ELSE {FALSE}, body : bodies]

Wide ==
    {Messages("request", Requests, {Ok}, Small),
     Messages("response", Answered, Responses, Small),
     Messages("informational", {Get, [Get EXCEPT !.version = "1.0"]},
              {[Ok EXCEPT !.status = 103, !.version = v] : v \in Versions}, {Empty}),
     Messages("illegal", {Get}, {[Ok EXCEPT !.status = 400, !.fields.connection = <<<<"close">>>>]}, {Empty})}

Frames ==
    {<<>>, Two.frames, <<Data(<<"0">>), Data(<<>>), Data(<<"1">>)>>, <<Data(<<"2">>), Trailing("allowed")>>,
     <<Data(<<"2">>), Trailing("forbidden")>>, <<Trailing("too large")>>,
     <<Trailing("allowed"), Data(<<"0">>)>>, <<Data(<<"0", "1">>), Data(<<"2", "LF">>)>>}

Bodies == [lower : {0, 2}, upper : {2, NoUpper}, trailers : BOOLEAN, frames : Frames]

Deep ==
    {Messages("request", {Get}, {Ok}, Bodies),
     Messages("response", {[Get EXCEPT !.version = "1.0"], [Get EXCEPT !.method = "HEAD"]}, {Ok}, Bodies)}

MCFamilies == Wide \cup Deep
=============================================================================
