-------------------------- MODULE UpgradedTransport --------------------------
(***************************************************************************)
(* The hand-over of Upgrade composed with the transport that is handed     *)
(* over: Upgraded<R, W> of upgrade.rs and its type-erased form of          *)
(* upgrade/boxed.rs.  Bytes the driver read past the HTTP message travel   *)
(* with the halves through every conversion, and whoever ends up with the  *)
(* transport - the claim's future or the driver's caller - reads them      *)
(* before the wire.  Writes, flushes and shutdowns are handed to the       *)
(* writer unchanged and have no state here.                                *)
(***************************************************************************)
EXTENDS Upgrade, Sequences, FiniteSetsExt

CONSTANTS
    Stream,     \* length of what the peer sends after the message
    Widths      \* lengths of the buffers the holder reads into

ASSUME StreamAssumption == Stream \in Nat /\ Widths \subseteq Nat

VARIABLES
    ahead,      \* read_ahead
    unread,     \* bytes still in the transport's reader
    got,        \* bytes the holder has read
    erased,     \* how many times the halves were boxed
    form        \* "whole" Upgraded, "split" halves, or "parts"

transport == <<ahead, unread, got, erased, form>>

Peer == [i \in 1 .. Stream |-> i]

\* Upgraded::new: the driver has read any prefix of what follows.
TransportInit ==
    /\ Init
    /\ \E n \in 0 .. Stream :
         /\ ahead = SubSeq(Peer, 1, n)
         /\ unread = SubSeq(Peer, n + 1, Stream)
    /\ got = << >> /\ erased = 0 /\ form = "whole"

\* Somebody outside the driver has the halves.
InHand == returned \/ \E c \in Claims : future[c] = "Delivered"

\* fulfill erases the halves for a boxed claim, and only then.
Handed(step) ==
    /\ step
    /\ erased' = IF result = None /\ result' = Boxed THEN erased + 1 ELSE erased
    /\ UNCHANGED <<ahead, unread, got, form>>

\* Any of the hand-over's steps.
HandOver == Handed(Next)

-----------------------------------------------------------------------------
\* Reading

\* A mutant: every slice is filled from the start of the prefix.
CopyFromStart(filled, w, prefix) ==
    filled \o SubSeq(prefix, 1, Min({w, Len(prefix) - Len(filled)}))

\* One slice of w bytes takes what it can of the prefix, from where the slices
\* before it stopped.
Copy(filled, w, prefix) ==
    filled \o SubSeq(prefix, Len(filled) + 1, Min({Len(filled) + w, Len(prefix)}))

\* The slices of one read take the prefix in order, until one of the two runs
\* out.  Two slices stand for any number of them, an empty second one for a
\* plain read.
Fill(w, v, prefix) == Copy(Copy(<< >>, w, prefix), v, prefix)

\* read_prefixed and read_vectored_prefixed while bytes are retained: no
\* transport read is submitted.
ReadRetained(w, v) ==
    /\ ahead # << >>
    /\ got' = got \o Fill(w, v, ahead)
    /\ ahead' = SubSeq(ahead, Len(Fill(w, v, ahead)) + 1, Len(ahead))
    /\ UNCHANGED unread

\* The transport's own read, once nothing is retained; it may fail and then
\* has taken nothing.
ReadTransport(w, v) ==
    /\ ahead = << >>
    /\ \E n \in 0 .. Min({Len(unread), w + v}) :
         /\ got' = got \o SubSeq(unread, 1, n)
         /\ unread' = SubSeq(unread, n + 1, Len(unread))
    /\ UNCHANGED ahead

\* AsyncRead of Upgraded and of UpgradedReadHalf.
HolderReads ==
    /\ InHand
    /\ form # "parts"
    /\ \E w \in Widths, v \in Widths \cup {0} : ReadRetained(w, v) \/ ReadTransport(w, v)
    /\ UNCHANGED <<vars, erased, form>>

\* After into_parts the holder has the bytes and the bare reader; it is told
\* to consume the bytes first.
PartsRead ==
    /\ InHand
    /\ form = "parts"
    /\ got' = got \o ahead
    /\ ahead' = << >>
    /\ UNCHANGED <<vars, unread, erased, form>>

-----------------------------------------------------------------------------
\* Conversions

\* Upgraded::boxed
HolderBoxes ==
    /\ InHand
    /\ form = "whole"
    /\ erased < 2
    /\ erased' = erased + 1
    /\ UNCHANGED <<vars, ahead, unread, got, form>>

\* BoxedUpgraded::downcast recovers exactly the halves that were erased
\* last; any other type returns the value as it was.
HolderDowncasts(t) ==
    /\ InHand
    /\ form = "whole"
    /\ erased > 0
    /\ erased' = IF t = (IF erased = 1 THEN Actual ELSE Boxed) THEN erased - 1 ELSE erased
    /\ UNCHANGED <<vars, ahead, unread, got, form>>

\* IntoOwnedSplit::into_split
HolderSplits ==
    /\ InHand
    /\ form = "whole"
    /\ form' = "split"
    /\ UNCHANGED <<vars, ahead, unread, got, erased>>

\* Upgraded::into_parts and UpgradedReadHalf::into_parts
HolderParts ==
    /\ InHand
    /\ form \in {"whole", "split"}
    /\ form' = "parts"
    /\ UNCHANGED <<vars, ahead, unread, got, erased>>

TransportNext ==
    \/ HandOver
    \/ HolderReads \/ PartsRead
    \/ HolderBoxes \/ (\E t \in Targets : HolderDowncasts(t))
    \/ HolderSplits \/ HolderParts

\* The fairness of the hand-over; nobody has to use the transport.
TransportSpec ==
    /\ TransportInit
    /\ [][TransportNext]_<<vars, transport>>
    /\ \A c \in Claims : WF_<<vars, transport>>(notified[c] /\ Handed(Poll(c)))

-----------------------------------------------------------------------------
\* The holder reads the peer's bytes in order, none twice and none skipped,
\* however claims, conversions and reads of any buffer shape interleave; the
\* transport is not read before the retained bytes are gone; and the halves
\* a claim was delivered are erased exactly if it asked for boxed ones.
StreamIntact ==
    /\ got \o ahead \o unread = Peer
    /\ \A c \in Claims :
         future[c] = "Live" /\ result \in Targets /\ result = wants[c] =>
            erased = IF wants[c] = Boxed THEN 1 ELSE 0
=============================================================================
