------------------------------ MODULE HeadScan ------------------------------
(***************************************************************************)
(* The incremental search for the end of a message head, HeadScan and      *)
(* HeadParser::head_len of src/src/proto/h1/head/scan.rs.  A byte is "CR", *)
(* "LF" or anything else.                                                  *)
(***************************************************************************)
EXTENDS Integers, Sequences, FiniteSetsExt

CONSTANT MaxHead    \* HeadLimits.max_bytes

\* HeadScan::Scanning, and HeadScan::Complete once length is not 0.
Fresh == [scanned |-> 0, line |-> "Leading", length |-> 0]

ForgetLine(line, byte) ==
    CASE line = "Leading" /\ byte \in {"CR", "LF"} -> "Leading"
      [] line # "Leading" /\ byte = "LF" -> "End"
      [] OTHER -> "Content"

\* ScanLine after one more byte: line breaks before the first line are skipped.
ScanLine(line, byte) ==
    CASE line = "Leading" /\ byte \in {"CR", "LF"} -> "Leading"
      [] line = "End" /\ byte = "CR" -> "EndCr"
      [] line # "Leading" /\ byte = "LF" -> "End"
      [] OTHER -> "Content"

ScanByte(scan, byte) ==
    CASE scan.length > 0 -> scan
      [] scan.length = 0 /\ scan.line \in {"End", "EndCr"} /\ byte = "LF" ->
             [scanned |-> scan.scanned + 1, line |-> scan.line, length |-> scan.scanned + 1]
      [] OTHER ->
             [scanned |-> scan.scanned + 1, line |-> ScanLine(scan.line, byte), length |-> scan.length]

\* The loop of HeadScan::complete: the scan after each byte it looks at.
Scans(start, input) ==
    LET after[k \in start.scanned .. Len(input)] ==
            IF k = start.scanned THEN start ELSE ScanByte(after[k - 1], input[k])
    IN  after

\* HeadScan::complete resumes where it stopped, unless the input shrank.
Complete(scan, input) ==
    LET reset == Len(input) < IF scan.length > 0 THEN scan.length ELSE scan.scanned
    IN  Scans(IF reset THEN Fresh ELSE scan, input)[Len(input)]

\* head_len: only the first MaxHead bytes may hold the head.
HeadLen(scan, input) ==
    LET after == Complete(scan, SubSeq(input, 1, Min({Len(input), MaxHead})))
    IN  CASE after.length > 0 -> [scan |-> after, out |-> "Head"]
          [] after.length = 0 /\ Len(input) > MaxHead -> [scan |-> Fresh, out |-> "Limit"]
          [] OTHER -> [scan |-> after, out |-> "More"]

-----------------------------------------------------------------------------
(* What a head is, without a scan. *)

\* "x" stands for every other byte.
Byte == {"CR", "LF", "x"}

\* The k-th byte ends an empty line that does not only follow other line breaks.
EmptyLine(bytes, k) ==
    /\ bytes[k] = "LF"
    /\ \E j \in 1 .. k - 1 :
          /\ bytes[j] = "LF"
          /\ j = k - 1 \/ (j = k - 2 /\ bytes[k - 1] = "CR")
          /\ \E i \in 1 .. j - 1 : bytes[i] = "x"

\* A head reaches up to its first empty line.
IsHead(bytes) ==
    /\ bytes \in Seq(Byte) /\ bytes # << >>
    /\ \A k \in 1 .. Len(bytes) : EmptyLine(bytes, k) <=> k = Len(bytes)
=============================================================================
