----------------------------- MODULE Rendezvous -----------------------------
(***************************************************************************)
(* What the pipe of src/src/body/pipe.rs promises its two owners, with no  *)
(* futures, demand or wakers: at most one item is on offer; it is taken    *)
(* once or refused once; the writer ends the exchange with one reason, and *)
(* only when nothing is on offer; the reader is told that reason.          *)
(***************************************************************************)
CONSTANTS Items, None, Reasons

VARIABLES
    onOffer,    \* the item on offer, if any
    taken,      \* items the reader received
    refused,    \* items that went back or were dropped
    writer,     \* "open", or the reason the writer ended with
    reader,     \* "open", "ended" (told the reason) or "gone"
    told        \* the reason the reader was told

vars == <<onOffer, taken, refused, writer, reader, told>>

Init ==
    /\ onOffer = None /\ taken = {} /\ refused = {}
    /\ writer = "open" /\ reader = "open" /\ told = "none"

Fresh(i) == i \notin taken \cup refused \cup {onOffer}

Put(i) ==
    /\ writer = "open" /\ reader = "open" /\ onOffer = None /\ Fresh(i)
    /\ onOffer' = i
    /\ UNCHANGED <<taken, refused, writer, reader, told>>

Refuse(i) ==
    /\ writer = "open" /\ Fresh(i)
    /\ refused' = refused \cup {i}
    /\ UNCHANGED <<onOffer, taken, writer, reader, told>>

Take ==
    /\ reader = "open" /\ onOffer # None
    /\ taken' = taken \cup {onOffer}
    /\ onOffer' = None
    /\ UNCHANGED <<refused, writer, reader, told>>

Withdraw ==
    /\ onOffer # None
    /\ refused' = refused \cup {onOffer}
    /\ onOffer' = None
    /\ UNCHANGED <<taken, writer, reader, told>>

End(reason) ==
    /\ writer = "open" /\ onOffer = None
    /\ writer' = reason
    /\ UNCHANGED <<onOffer, taken, refused, reader, told>>

Tell ==
    /\ reader = "open" /\ writer # "open"
    /\ reader' = "ended" /\ told' = writer
    /\ UNCHANGED <<onOffer, taken, refused, writer>>

Leave ==
    /\ reader # "gone"
    /\ reader' = "gone"
    /\ UNCHANGED <<onOffer, taken, refused, writer, told>>

Next ==
    \/ Take \/ Withdraw \/ Tell \/ Leave
    \/ \E i \in Items : Put(i) \/ Refuse(i)
    \/ \E reason \in Reasons : End(reason)

Spec == Init /\ [][Next]_vars
=============================================================================
