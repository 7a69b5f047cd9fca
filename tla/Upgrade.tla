------------------------------ MODULE Upgrade ------------------------------
(***************************************************************************)
(* Handing a connection's transport to the application (upgrade.rs).       *)
(*                                                                         *)
(* The driver holds a PendingUpgrade, the application an UpgradeSlot it    *)
(* may claim before or after the exchange settles; both share one          *)
(* UpgradeState.  A claim is a future for transport halves of one type, or *)
(* for type-erased halves.  When the exchange ends with an upgrade the     *)
(* driver fulfils the claim or gets the transport back to return it; when  *)
(* it does not, the PendingUpgrade is dropped.                             *)
(*                                                                         *)
(* Every holder of the transport has its own variable, so that ownership   *)
(* is something the model can get wrong.                                   *)
(***************************************************************************)
EXTENDS Naturals, FiniteSets

CONSTANTS
    Claims,     \* futures the application may obtain from the slot
    Types,      \* types of transport halves a claim can name
    Actual,     \* the type of this connection's transport
    Boxed,      \* a claim for type-erased halves
    None

ASSUME UpgradeAssumption ==
    /\ Actual \in Types
    /\ Boxed \notin Types
    /\ None \notin Claims \cup Types \cup {Boxed}
    /\ {"mismatch", "incomplete"} \cap (Types \cup {Boxed}) = {}
    /\ None \notin {"mismatch", "incomplete"}

Targets == Types \cup {Boxed}

VARIABLES
    phase,      \* ClaimPhase
    target,     \* the claimed target, when phase is Claimed
    alive,      \* the claim's future still exists, when phase is Claimed
    result,     \* result delivered and not yet taken
    waker,      \* the future registered in UpgradeState, or None
    pending,    \* the driver's PendingUpgrade
    future,     \* life of each future
    wants,      \* the halves each future is typed for
    notified,   \* the future's task is scheduled to poll it
    driverOwns, \* the driver holds the transport
    returned,   \* the driver's caller got the transport as its outcome
    dropped     \* the transport was destroyed with the future it was for

shared == <<phase, target, alive, result, waker>>
owners == <<driverOwns, returned, dropped>>
vars == <<shared, pending, future, wants, notified, owners>>

Errors == {"mismatch", "incomplete"}

\* A result that carries the transport names the form it is boxed in.
TypeOK ==
    /\ phase \in {"Unclaimed", "Claimed", "Closed"}
    /\ target \in Targets \cup {None}
    /\ phase = "Claimed" => target \in Targets
    /\ alive \in BOOLEAN
    /\ result \in Targets \cup Errors \cup {None}
    /\ waker \in Claims \cup {None}
    /\ pending \in {"Open", "Settled", "Dropped"}
    /\ future \in [Claims -> {"Unborn", "Live", "Rejected", "Delivered", "Failed", "Dropped"}]
    /\ wants \in [Claims -> Targets \cup {None}]
    /\ notified \in [Claims -> BOOLEAN]
    /\ driverOwns \in BOOLEAN /\ returned \in BOOLEAN /\ dropped \in BOOLEAN

Init ==
    /\ phase = "Unclaimed" /\ target = None /\ alive = FALSE
    /\ result = None /\ waker = None
    /\ pending = "Open"
    /\ future = [c \in Claims |-> "Unborn"]
    /\ wants = [c \in Claims |-> None]
    /\ notified = [c \in Claims |-> FALSE]
    /\ driverOwns = TRUE /\ returned = FALSE /\ dropped = FALSE

-----------------------------------------------------------------------------
\* The application

Record(t) == phase' = "Claimed" /\ alive' = TRUE /\ target' = t

Claimable == phase = "Unclaimed"

\* The slot gives one future access to the shared state; any other fails at
\* its first poll.
Claim(c, t) ==
    /\ future[c] = "Unborn"
    /\ \/ /\ Claimable
          /\ Record(t)
          /\ future' = [future EXCEPT ![c] = "Live"]
       \/ /\ ~Claimable
          /\ future' = [future EXCEPT ![c] = "Rejected"]
          /\ UNCHANGED <<phase, target, alive>>
    /\ wants' = [wants EXCEPT ![c] = t]
    /\ notified' = [notified EXCEPT ![c] = TRUE]
    /\ UNCHANGED <<result, waker, pending, owners>>

\* A future may be polled when it is notified, and at any other time too.
Poll(c) ==
    /\ \/ /\ future[c] = "Rejected"
          /\ future' = [future EXCEPT ![c] = "Failed"]
          /\ UNCHANGED <<shared, owners>>
       \/ /\ future[c] = "Live" /\ result = None
          /\ waker' = c
          /\ UNCHANGED <<phase, target, alive, result, future, owners>>
       \/ /\ future[c] = "Live" /\ result # None
          /\ result' = None
          /\ future' = [future EXCEPT ![c] = IF result = wants[c] THEN "Delivered" ELSE "Failed"]
          /\ dropped' = (dropped \/ result \in Targets \ {wants[c]})
          /\ UNCHANGED <<phase, target, alive, waker, driverOwns, returned>>
    /\ notified' = [notified EXCEPT ![c] = FALSE]
    /\ UNCHANGED <<pending, wants>>

Retire == alive' = FALSE

\* Dropping the future that holds the shared state also destroys a result
\* nobody took.
DropFuture(c) ==
    /\ future[c] \in {"Live", "Rejected"}
    /\ future' = [future EXCEPT ![c] = "Dropped"]
    /\ notified' = [notified EXCEPT ![c] = FALSE]
    /\ \/ /\ future[c] = "Live"
          /\ (phase = "Claimed" /\ Retire) \/ (phase # "Claimed" /\ UNCHANGED alive)
          /\ waker' = None /\ result' = None
          /\ dropped' = (dropped \/ result \in Targets)
       \/ future[c] = "Rejected" /\ UNCHANGED <<alive, waker, result, dropped>>
    /\ UNCHANGED <<phase, target, pending, wants, driverOwns, returned>>

-----------------------------------------------------------------------------
\* The driver

WakeNobody == waker' = None /\ UNCHANGED notified

Wake ==
    /\ waker' = None
    /\ notified' = [c \in Claims |-> notified[c] \/ c = waker]

Discard == UNCHANGED returned

GiveBack == returned' = TRUE

Fits == target \in {Actual, Boxed}

\* Close the claim and hand the transport to it, or give it back.
Fulfill ==
    /\ pending = "Open"
    /\ pending' = "Settled" /\ phase' = "Closed" /\ driverOwns' = FALSE
    /\ \/ /\ phase = "Claimed" /\ alive /\ Fits
          /\ result' = (IF target = Boxed THEN Boxed ELSE Actual)
          /\ UNCHANGED returned
       \/ /\ phase = "Claimed" /\ alive /\ ~Fits
          /\ result' = "mismatch" /\ GiveBack
       \/ /\ phase # "Claimed" \/ ~alive
          /\ GiveBack
          /\ UNCHANGED result
    /\ Wake
    /\ UNCHANGED <<target, alive, future, wants, dropped>>

CloseQuietly == UNCHANGED result

CloseClaim ==
    result' = IF phase = "Claimed" /\ alive THEN "incomplete" ELSE result

\* The exchange ended without an upgrade, or its driver is gone.
DropPending ==
    /\ pending = "Open"
    /\ pending' = "Dropped" /\ phase' = "Closed"
    /\ CloseClaim
    /\ Wake
    /\ UNCHANGED <<target, alive, future, wants, owners>>

-----------------------------------------------------------------------------
Next ==
    \/ \E c \in Claims : (\E t \in Targets : Claim(c, t)) \/ Poll(c) \/ DropFuture(c)
    \/ Fulfill
    \/ DropPending

Spec == Init /\ [][Next]_vars

-----------------------------------------------------------------------------
Holders ==
    {h \in {"driver", "caller", "result", "nobody"} \cup Claims :
        \/ h = "driver" /\ driverOwns
        \/ h = "caller" /\ returned
        \/ h = "result" /\ result \in Targets
        \/ h = "nobody" /\ dropped
        \/ h \in Claims /\ future[h] = "Delivered"}

\* Throughout claims, polls, drops and the hand-over the transport has exactly
\* one holder: it is never duplicated and never vanishes (Fulfill, Poll, Drop).
OneHolder == Cardinality(Holders) = 1

\* A published result always has a live future that can take it, typed for it:
\* the downcast in poll cannot fail.
ResultHasTaker ==
    result # None =>
        \E c \in Claims : future[c] = "Live" /\ (result \in Targets => result = wants[c])

\* The transport has one holder at every moment, and a published result a
\* live future typed for it, so the hand-over neither duplicates the transport
\* nor delivers it to a future that cannot use it.
HandedOverOnce == OneHolder /\ ResultHasTaker

\* Once the exchange settles, one way or the other, no claim waits any longer.
ClaimsResolve ==
    \A c \in Claims : (future[c] = "Live" /\ pending # "Open") ~> future[c] # "Live"

=============================================================================
