--------------------------- MODULE MCReceiveBody ----------------------------
(* Two groups of scenarios.  Short bodies of each framing, read two bytes at a *)
(* time into a buffer of four, with everything that can interfere.  And        *)
(* messages that are intact, or have any one byte replaced or left out, in     *)
(* every segmentation and cut off anywhere, with nothing else happening.  What *)
(* they contain is decided by a grammar of chunked bodies that knows nothing   *)
(* of segments or scanning.  Sizes up to 15 stand for u64, so that a second    *)
(* non-zero digit overflows.                                                   *)
EXTENDS ReceiveBody

MCBytes == {"0", "1", "2", ";", "h", "CR", "LF"}

CRLF == <<"CR", "LF">>

Messages ==
    {<<"0", "1">> \o CRLF \o <<"LF">> \o CRLF \o <<"0">> \o CRLF \o CRLF \o <<"1">>,
     <<"2">> \o CRLF \o CRLF \o CRLF \o <<"1">> \o CRLF \o <<"0">> \o CRLF \o <<"0">> \o CRLF \o CRLF,
     <<"1", ";", "0">> \o CRLF \o <<"0">> \o CRLF \o <<"0", ";", "1">> \o CRLF \o CRLF \o <<"h">>,
     <<"0">> \o CRLF \o <<"h">> \o CRLF \o CRLF \o <<"2">>,
     <<"0">> \o CRLF \o <<"h", "LF", "LF", "0">>}

Damaged(text) ==
    {[text EXCEPT ![i] = b] : i \in DOMAIN text, b \in MCBytes} \cup {RemoveAt(text, i) : i \in DOMAIN text}

\* Does part stand at position i of text?
At(text, i, part) == i + Len(part) - 1 <= Len(text) /\ SubSeq(text, i, i + Len(part) - 1) = part

RECURSIVE Number(_)
Number(digits) == IF digits = <<>> THEN 0 ELSE 16 * Number(Front(digits)) + Hex[Last(digits)]

\* chunk-ext: a semicolon and a name, repeated
RECURSIVE Extension(_)
Extension(text) ==
    \/ text = <<>>
    \/ \E k \in 2 .. Len(text) :
          /\ text[1] = ";" /\ \A i \in 2 .. k : text[i] \in DOMAIN Hex
          /\ Extension(SubSeq(text, k + 1, Len(text)))

\* trailer-section: at most n fields, then an empty line
RECURSIVE TrailerSection(_, _)
TrailerSection(text, n) ==
    \/ text \in {<<"LF">>, <<"CR", "LF">>}
    \/ /\ n > 0
       /\ \E field \in {<<"h", "LF">>, <<"h", "CR", "LF">>} :
             /\ At(text, 1, field)
             /\ TrailerSection(SubSeq(text, Len(field) + 1, Len(text)), n - 1)

\* The payloads of a byte string that is exactly a chunked body (one or none).
RECURSIVE Chunked(_, _)
Chunked(text, extensions) ==
    UNION {LET size == Number(SubSeq(text, 1, k))
               name == SubSeq(text, k + 1, e)
               left == extensions - Len(name)
               rest == SubSeq(text, e + 3, Len(text))
           IN  IF ~(left >= 0 /\ size <= MaxSize /\ Extension(name)) THEN {}
               ELSE IF size = 0 THEN {<<>> : r \in {r \in {rest} : Len(r) <= MaxTrailerBytes /\ TrailerSection(r, MaxTrailers)}}
               ELSE IF ~At(rest, size + 1, <<"CR", "LF">>) THEN {}
               ELSE {SubSeq(rest, 1, size) \o p : p \in Chunked(SubSeq(rest, size + 3, Len(rest)), left)} :
           <<k, e>> \in {ke \in (1 .. MaxChunkLine) \X (1 .. MaxChunkLine - 2) :
                            /\ ke[1] <= ke[2] /\ At(text, ke[2] + 1, <<"CR", "LF">>)
                            /\ \A i \in 1 .. ke[1] : text[i] \in DOMAIN Hex
                            /\ ke[1] < ke[2] => text[ke[1] + 1] = ";"}}

Bodies(mode, text) ==
    CASE mode.kind = "Chunked" ->
            UNION {{[size |-> k, payload |-> p] : p \in Chunked(SubSeq(text, 1, k), MaxExtensions)} : k \in 0 .. Len(text)}
      [] mode.kind = "Fixed" -> {[size |-> mode.length, payload |-> SubSeq(text, 1, mode.length)]}
      [] mode.kind = "UntilEof" -> {[size |-> Len(text), payload |-> text]}

Scenario(mode, text, preferred, retained, busy) ==
    [mode |-> mode, wire |-> text, bodies |-> Bodies(mode, text), preferred |-> preferred, retained |-> retained,
     busy |-> busy]

Mode(kind, length) == [kind |-> kind, length |-> length]

Busy ==
    {Scenario(Mode("Fixed", 3), <<"0", "1", "2", "h">>, 2, 4, TRUE),
     Scenario(Mode("UntilEof", 0), <<"0", "1", "2">>, 2, 4, TRUE),
     Scenario(Mode("Chunked", 0), <<"2">> \o CRLF \o <<"0", "1">> \o CRLF \o <<"0">> \o CRLF \o CRLF \o <<"h">>, 2, 4, TRUE),
     Scenario(Mode("Chunked", 0), <<"1">> \o CRLF \o <<"2">> \o CRLF \o <<"0">> \o CRLF \o <<"h">> \o CRLF \o CRLF, 2, 4, TRUE)}

MCScenarios ==
    Busy \cup {Scenario(Mode("Chunked", 0), text, 20, 20, FALSE) : text \in UNION {Damaged(t) : t \in Messages}}
=============================================================================
