------------------------------ MODULE Decoder -------------------------------
(***************************************************************************)
(* BodyDecoder of src/src/proto/h1/decode.rs.  A decoder is given the      *)
(* bytes received and not yet consumed; a result carries the outcome, how  *)
(* many of them it consumed, the payload among them, and the decoder       *)
(* afterwards, which remembers how far it scanned.                         *)
(*                                                                         *)
(* Bytes are "CR", "LF", ";", hexadecimal digits (the only token           *)
(* characters here) and "h", which stands for a whole trailer field.       *)
(***************************************************************************)
EXTENDS SequencesExt

CONSTANTS
    MaxSize,            \* u64::MAX
    MaxChunkLine, MaxExtensions, MaxTrailerBytes, MaxTrailers    \* DecodeLimits

ASSUME LimitsAssumption == {MaxChunkLine, MaxTrailerBytes, MaxTrailers} \subseteq Nat \ {0}

Hex == [d \in {"0", "1", "2"} |-> CASE d = "0" -> 0 [] d = "1" -> 1 [] d = "2" -> 2]

\* BodyDecoder::with_limits
WithLimits(m) ==
    [state |-> CASE m.kind = "None" -> "Empty" [] m.kind = "Fixed" -> "Fixed"
                 [] m.kind = "Chunked" -> "Size" [] m.kind = "UntilEof" -> "UntilEof",
     remaining |-> m.length, scanned |-> 0, extensions |-> 0]

IsComplete(d) == d.state \in {"Empty", "Done"} \/ (d.state = "Fixed" /\ d.remaining = 0)

Result(out, consumed, payload, d) == [out |-> out, consumed |-> consumed, payload |-> payload, dec |-> d]

Fail(d) == Result("Err", 0, <<>>, [d EXCEPT !.state = "Failed"])

\* More input is needed, unless the stream has ended.
NeedMore(d, cursor, end) == IF end THEN Fail(d) ELSE Result("NeedMore", cursor, <<>>, d)

Ended(d) == Result("End", 0, <<>>, [d EXCEPT !.state = "Done"])

\* Checked arithmetic: anything above MaxSize stays above it.
ChunkSize(digits) ==
    FoldLeft(LAMBDA size, digit : IF 16 * size + Hex[digit] > MaxSize THEN MaxSize + 1 ELSE 16 * size + Hex[digit],
             0, digits)

ExtensionStart(line) == Min({i \in DOMAIN line : line[i] = ";"} \cup {Len(line) + 1})

ValidExtensions(text) ==
    \A i \in DOMAIN text :
        IF text[i] = ";" THEN i < Len(text) /\ text[i + 1] \in DOMAIN Hex ELSE text[i] \in DOMAIN Hex

\* httparse, own_headers and validate_trailers: the fields of the block are well
\* formed and allowed, and not too many.  Any other byte is a field that is not.
ValidTrailers(block) ==
    /\ \A i \in DOMAIN block :
          /\ block[i] \in {"h", "CR", "LF"}
          /\ block[i] = "h" => i = 1 \/ block[i - 1] = "LF"
          /\ block[i] = "CR" => i < Len(block) /\ block[i + 1] = "LF"
    /\ Len(SelectSeq(block, LAMBDA b : b = "h")) <= MaxTrailers

\* The first byte at or after the resumption point that ends the line or shows
\* that it is malformed.
LineStops(input, from) == {i \in from + 1 .. Len(input) : input[i] = "LF" \/ (i > 1 /\ input[i - 1] = "CR")}

ResumeTooLate(input, scanned) == IF scanned = 0 THEN 0 ELSE scanned + 1

\* Where to resume the scan of an unfinished line or block.
Resume(input, scanned) == IF Len(input) < scanned THEN 0 ELSE scanned

EmptyLine(input, i) ==
    /\ input[i] = "LF"
    /\ \/ i = 1
       \/ i = 2 /\ input[1] = "CR"
       \/ i > 1 /\ input[i - 1] = "LF"
       \/ i > 2 /\ input[i - 2] = "LF" /\ input[i - 1] = "CR"

\* decode_trailers with trailer_end: the block up to its empty line.
Trailers(d, input, cursor, end, scanned) ==
    LET available == SubSeq(input, cursor + 1, Len(input))
        bounded == Min({Len(available), MaxTrailerBytes})
        ends == {i \in Min({Resume(available, scanned), bounded}) + 1 .. bounded : EmptyLine(available, i)}
    IN  IF ends # {}
        THEN IF ValidTrailers(SubSeq(available, 1, Min(ends)))
             THEN Result("Trailers", cursor + Min(ends), <<>>, [d EXCEPT !.state = "Done"])
             ELSE Fail(d)
        ELSE IF Len(available) > MaxTrailerBytes
             THEN Fail(d)
             ELSE NeedMore([d EXCEPT !.state = "Trailers", !.scanned = bounded], cursor, end)

\* ChunkState::Data
ChunkData(d, input, cursor, end) ==
    LET count == Min({Len(input) - cursor, d.remaining})
        left == d.remaining - count
    IN  IF cursor = Len(input)
        THEN NeedMore([d EXCEPT !.state = "Data"], cursor, end)
        ELSE Result("Data", cursor + count, SubSeq(input, cursor + 1, cursor + count),
                    [d EXCEPT !.state = IF left = 0 THEN "Crlf" ELSE "Data", !.remaining = left])

\* ChunkState::Size with parse_chunk_line and charge_extensions.
ChunkLine(d, input, cursor, end, scanned) ==
    LET text == SubSeq(input, cursor + 1, Len(input))
        stops == LineStops(text, Resume(text, scanned))
        stop == Min(stops)
        line == SubSeq(text, 1, stop - 2)
        start == ExtensionStart(line)
        digits == SubSeq(line, 1, start - 1)
        extensions == d.extensions + Len(line) - (start - 1)
        size == ChunkSize(digits)
        next == [d EXCEPT !.extensions = extensions, !.remaining = size, !.scanned = 0]
    IN  IF stops = {}
        THEN IF Len(text) > MaxChunkLine THEN Fail(d)
             ELSE NeedMore([d EXCEPT !.state = "Size", !.scanned = Len(text)], cursor, end)
        ELSE IF \/ text[stop] # "LF" \/ stop = 1 \/ text[stop - 1] # "CR" \/ stop > MaxChunkLine
                \/ digits = <<>> \/ ToSet(digits) \ DOMAIN Hex # {} \/ size > MaxSize
                \/ ~ValidExtensions(SubSeq(line, start, Len(line))) \/ extensions > MaxExtensions
             THEN Fail(d)
             ELSE IF size = 0 THEN Trailers(next, input, cursor + stop, end, 0)
                  ELSE ChunkData(next, input, cursor + stop, end)

\* ChunkState::DataCrlf
ChunkEnd(d, input, end) ==
    IF Len(input) < 2
    THEN IF input # <<>> /\ input[1] # "CR" THEN Fail(d) ELSE NeedMore(d, 0, end)
    ELSE IF SubSeq(input, 1, 2) # <<"CR", "LF">> THEN Fail(d)
         ELSE ChunkLine(d, input, 2, end, 0)

\* Fixed: never past the declared length.
FixedData(d, input) ==
    LET count == Min({Len(input), d.remaining})
    IN  Result("Data", count, SubSeq(input, 1, count), [d EXCEPT !.remaining = d.remaining - count])

\* BodyDecoder::decode
Decode(d, input, end) ==
    CASE IsComplete(d) -> Ended(d)
      [] d.state = "Fixed" -> IF input # <<>> THEN FixedData(d, input) ELSE NeedMore(d, 0, end)
      [] d.state = "UntilEof" ->
            IF input # <<>>
            THEN Result("Data", Len(input), input, IF end THEN [d EXCEPT !.state = "Done"] ELSE d)
            ELSE IF end THEN Ended(d) ELSE NeedMore(d, 0, end)
      [] d.state = "Size" -> ChunkLine(d, input, 0, end, d.scanned)
      [] d.state = "Data" -> ChunkData(d, input, 0, end)
      [] d.state = "Crlf" -> ChunkEnd(d, input, end)
      [] d.state = "Trailers" -> Trailers(d, input, 0, end, d.scanned)
      [] d.state = "Failed" -> Fail(d)
=============================================================================
