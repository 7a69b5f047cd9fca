----------------------------- MODULE Admission -----------------------------
(***************************************************************************)
(* Request admission of one client connection, src/src/client/admission.rs *)
(* with the parts of ConnectionControl (src/src/connection.rs) it uses.    *)
(* Cloned senders compete for one slot: a permit, a queued request or the  *)
(* active exchange owns it, and at most one reservation waits for it.      *)
(***************************************************************************)
EXTENDS Naturals

CONSTANTS
    Clients,        \* tasks that use a SendRequest
    Driver,         \* the task that runs the connection
    None,           \* the absent value of every Option
    MaxSenders      \* bound on live SendRequest clones

ASSUME ClientsAssumption ==
    /\ Driver \notin Clients /\ None \notin Clients /\ None # Driver
    /\ MaxSenders \in Nat

VARIABLES
    admission,      \* State.admission, without its payloads
    waiter,         \* the waker of the reservation that waits
    job,            \* the client whose request is queued
    senders,        \* State.senders
    driver,         \* State.driver
    stopping,       \* ConnectionControl::stopping
    ctlAdmission,   \* ConnectionControl's admission waker
    ctlDriver,      \* ConnectionControl's driver waker
    client,         \* what each client holds
    registered,     \* Reservation.registered of each reserving client
    dphase,         \* where the driver is in the run loop of h1/client.rs
    woken           \* tasks woken since their last poll

control == <<stopping, ctlAdmission, ctlDriver>>
vars == <<admission, waiter, job, senders, driver, control, client, registered, dphase, woken>>

Busy == {"Reserved", "Queued", "Active"}

Init ==
    /\ admission = "Ready" /\ waiter = None /\ job = None
    /\ senders = 1 /\ driver = None
    /\ stopping = FALSE /\ ctlAdmission = None /\ ctlDriver = None
    /\ client = [c \in Clients |-> "idle"]
    /\ registered = [c \in Clients |-> FALSE]
    /\ dphase = "next" /\ woken = {Driver}

\* wake_one on each of the wakers
Tasks(wakers) == wakers \ {None}

WakeDriver == driver' = None /\ woken' = woken \cup Tasks({driver})

Unavailable == admission = "Closed" \/ stopping

Become(c, what) == client' = [client EXCEPT ![c] = what]

-----------------------------------------------------------------------------
(* SendRequest *)

Clone ==
    /\ senders \in 1 .. MaxSenders - 1
    /\ senders' = senders + 1
    /\ UNCHANGED <<admission, waiter, job, driver, control, client, registered, dphase, woken>>

\* A reservation borrows its sender.
DropSender ==
    /\ senders > 0
    /\ senders = 1 => \A c \in Clients : client[c] # "reserving"
    /\ senders' = senders - 1
    /\ WakeDriver
    /\ UNCHANGED <<admission, waiter, job, control, client, registered, dphase>>

Vacant == admission = "Ready"

\* try_reserve; its Closed and Busy answers change nothing.
TryReserve(c) ==
    /\ senders > 0 /\ client[c] = "idle"
    /\ ~Unavailable /\ Vacant
    /\ admission' = "Reserved" /\ waiter' = None
    /\ Become(c, "permit")
    /\ UNCHANGED <<job, senders, driver, control, registered, dphase, woken>>

StartReserve(c) ==
    /\ senders > 0 /\ client[c] = "idle"
    /\ Become(c, "reserving")
    /\ UNCHANGED <<admission, waiter, job, senders, driver, control, registered, dphase, woken>>

ReopenAdmission(c) ==
    /\ registered' = [registered EXCEPT ![c] = FALSE]
    /\ admission' = IF registered[c] THEN "Ready" ELSE admission
    /\ UNCHANGED waiter

\* Drop for Reservation
DropReservation(c) ==
    /\ registered' = [registered EXCEPT ![c] = FALSE]
    /\ \/ /\ registered[c] /\ admission = "ReadyForWaiter"
          /\ admission' = "Ready"
          /\ UNCHANGED waiter
       \/ /\ registered[c] /\ admission # "ReadyForWaiter"
          /\ waiter' = None
          /\ UNCHANGED admission
       \/ /\ ~registered[c]
          /\ UNCHANGED <<admission, waiter>>

Overtake(c) == admission = "ReadyForWaiter" \/ Vacant

MayClaim(c) == (registered[c] /\ admission = "ReadyForWaiter") \/ Vacant

\* reserve: one poll, with the drop of the Reservation when it resolves.
PollReserve(c) ==
    /\ client[c] = "reserving"
    /\ woken' = woken \ {c}
    /\ \/ /\ Unavailable
          /\ DropReservation(c)
          /\ Become(c, "idle")
          /\ UNCHANGED ctlAdmission
       \/ /\ ~Unavailable /\ MayClaim(c)
          /\ admission' = "Reserved" /\ waiter' = None
          /\ registered' = [registered EXCEPT ![c] = FALSE]
          /\ Become(c, "permit")
          /\ UNCHANGED ctlAdmission
       \/ /\ ~Unavailable /\ ~MayClaim(c)
          /\ ~registered[c] /\ (admission \notin Busy \/ waiter # None)
          /\ Become(c, "idle")
          /\ UNCHANGED <<admission, waiter, registered, ctlAdmission>>
       \/ /\ ~Unavailable /\ ~MayClaim(c)
          /\ admission \in Busy /\ (registered[c] \/ waiter = None)
          /\ ctlAdmission' = c /\ waiter' = c
          /\ registered' = [registered EXCEPT ![c] = TRUE]
          /\ UNCHANGED <<admission, client>>
    /\ UNCHANGED <<job, senders, driver, stopping, ctlDriver, dphase>>

CancelReserve(c) ==
    /\ client[c] = "reserving"
    /\ DropReservation(c)
    /\ Become(c, "idle")
    /\ woken' = woken \ {c}
    /\ UNCHANGED <<job, senders, driver, control, dphase>>

-----------------------------------------------------------------------------
(* The free function release, the permit and the driver's Receiver. *)

\* release, in a step that also wakes the tasks in more.
Release(more) ==
    /\ \/ /\ admission \in {"Reserved", "Active"} /\ waiter # None
          /\ admission' = "ReadyForWaiter"
       \/ /\ admission \in {"Reserved", "Active"} /\ waiter = None
          /\ admission' = "Ready"
       \/ /\ admission = "Closed"
          /\ UNCHANGED admission
    /\ waiter' = None /\ driver' = None
    /\ woken' = woken \cup Tasks({waiter, driver}) \cup more

\* RequestPermit::send to a closed driver (the permit is dropped) and Drop of
\* an unused permit.
ReleasePermit(c) ==
    /\ client[c] = "permit"
    /\ Release({})
    /\ Become(c, "idle")
    /\ UNCHANGED <<job, senders, control, registered, dphase>>

\* RequestPermit::send
Send(c) ==
    /\ client[c] = "permit" /\ ~Unavailable
    /\ admission = "Reserved"
    /\ admission' = "Queued" /\ job' = c
    /\ Become(c, "submitted")
    /\ WakeDriver
    /\ UNCHANGED <<waiter, senders, control, registered, dphase>>

CloseQuietly(more) ==
    /\ admission' = "Closed" /\ waiter' = None /\ job' = None /\ driver' = None
    /\ woken' = woken \cup more

\* Drop for Receiver, in a step that also wakes the tasks in more.
CloseReceiver(more) ==
    /\ admission' = "Closed" /\ waiter' = None /\ job' = None /\ driver' = None
    /\ woken' = woken \cup Tasks({waiter}) \cup more

Settled == [c \in Clients |-> IF client[c] \in {"submitted", "running"} THEN "idle" ELSE client[c]]

\* ConnectionControl::drive polls abort_requested, which registers the driver,
\* before the future that holds Receiver::next.
DriverPolled == dphase # "gone" /\ ctlDriver' = Driver

HasOwner == admission \in Busy

NextPending ==
    /\ ctlAdmission' = Driver /\ driver' = Driver
    /\ woken' = woken \ {Driver}
    /\ UNCHANGED <<admission, waiter, job, client, dphase>>

\* Receiver::next; None ends the run loop, which drops the Receiver.
PollNext ==
    /\ dphase = "next"
    /\ DriverPolled
    /\ \/ /\ admission = "Queued"
          /\ admission' = "Active" /\ job' = None
          /\ Become(job, "running")
          /\ dphase' = "exchange"
          /\ woken' = woken \ {Driver}
          /\ UNCHANGED <<waiter, driver, ctlAdmission>>
       \/ /\ admission # "Queued"
          /\ Unavailable \/ (senders = 0 /\ ~HasOwner)
          /\ CloseReceiver({})
          /\ dphase' = "gone"
          /\ UNCHANGED <<client, ctlAdmission>>
       \/ /\ admission # "Queued"
          /\ ~(Unavailable \/ (senders = 0 /\ ~HasOwner))
          /\ NextPending
    /\ UNCHANGED <<senders, stopping, registered>>

\* A reusable exchange: Receiver::release, then the loop calls next again.
ExchangeReusable ==
    /\ dphase = "exchange"
    /\ DriverPolled
    /\ client' = Settled
    /\ \/ /\ stopping \/ senders = 0
          /\ CloseReceiver({})
          /\ dphase' = "gone"
       \/ /\ ~stopping /\ senders > 0
          /\ Release({Driver})
          /\ dphase' = "next"
          /\ UNCHANGED job
    /\ UNCHANGED <<senders, stopping, ctlAdmission, registered>>

\* An exchange that failed, closed the connection or handed it over.
ExchangeLast ==
    /\ dphase = "exchange"
    /\ DriverPolled
    /\ client' = Settled
    /\ CloseReceiver({})
    /\ dphase' = "gone"
    /\ UNCHANGED <<senders, stopping, ctlAdmission, registered>>

\* The driver future is dropped: the Guard of drive requests shutdown.
DriverDropped ==
    /\ dphase # "gone"
    /\ stopping' = TRUE /\ ctlAdmission' = None /\ ctlDriver' = None
    /\ client' = Settled
    /\ CloseReceiver(Tasks({ctlAdmission, ctlDriver}))
    /\ dphase' = "gone"
    /\ UNCHANGED <<senders, registered>>

\* graceful_shutdown and abort
Stop ==
    /\ ~stopping
    /\ stopping' = TRUE /\ ctlAdmission' = None /\ ctlDriver' = None
    /\ woken' = woken \cup Tasks({ctlAdmission, ctlDriver})
    /\ UNCHANGED <<admission, waiter, job, senders, driver, client, registered, dphase>>

-----------------------------------------------------------------------------
Quiet ==
    /\ dphase = "gone" /\ senders = 0
    /\ \A c \in Clients : client[c] = "idle"
    /\ UNCHANGED vars

Next ==
    \/ Clone \/ DropSender \/ Stop
    \/ PollNext \/ ExchangeReusable \/ ExchangeLast \/ DriverDropped
    \/ \E c \in Clients :
          \/ TryReserve(c) \/ StartReserve(c) \/ PollReserve(c) \/ CancelReserve(c)
          \/ ReleasePermit(c) \/ Send(c)
    \/ Quiet

Spec == Init /\ [][Next]_vars

\* Woken tasks are polled, and an exchange ends: its peer answers, or a timeout
\* or an abort of the connection ends it.  A permit may be held forever.
Fairness ==
    /\ WF_vars(Driver \in woken /\ PollNext)
    /\ WF_vars(ExchangeReusable \/ ExchangeLast)
    /\ \A c \in Clients : WF_vars(c \in woken /\ PollReserve(c))

FairSpec == Spec /\ Fairness

-----------------------------------------------------------------------------
TypeOK ==
    /\ admission \in Busy \cup {"Ready", "ReadyForWaiter", "Closed"}
    /\ waiter \in Clients \cup {None} /\ job \in Clients \cup {None}
    /\ senders \in 0 .. MaxSenders \cup {1}
    /\ driver \in {Driver, None} /\ ctlDriver \in {Driver, None}
    /\ ctlAdmission \in Clients \cup {Driver, None} /\ stopping \in BOOLEAN
    /\ client \in [Clients -> {"idle", "reserving", "permit", "submitted", "running"}]
    /\ registered \in [Clients -> BOOLEAN]
    /\ dphase \in {"next", "exchange", "gone"}
    /\ woken \in SUBSET (Clients \cup {Driver})

\* Admission has one owner: at most one of a permit, a queued request and the
\* active exchange exists, and the slot says which.  So the unreachable!() arms
\* of RequestPermit::send and of release are never reached.
OneOwner ==
    /\ \A c, d \in Clients :
          client[c] \in {"permit", "submitted", "running"} /\ client[d] \in {"permit", "submitted", "running"}
              => c = d
    /\ \A c \in Clients :
          /\ client[c] = "permit" => admission \in {"Reserved", "Closed"}
          /\ client[c] = "submitted" => admission = "Queued" /\ job = c
          /\ client[c] = "running" => admission = "Active" /\ dphase = "exchange"
    /\ dphase = "exchange" => admission = "Active"

\* "A waiting reservation has priority over newcomers": the registered one is
\* either recorded as the waiter of the current owner or the slot is set aside
\* for it, so the debug_assert and the expect of reserve hold.
WaiterKeepsPlace ==
    \A c \in Clients : registered[c] =>
        /\ client[c] = "reserving"
        /\ \A d \in Clients : registered[d] => d = c
        /\ admission = "Closed" \/ admission = "ReadyForWaiter" \/ (admission \in Busy /\ waiter = c)

\* While a reservation is registered nobody else acquires a permit.
NoOvertaking ==
    [][\A c, d \in Clients :
          registered[c] /\ client[d] # "permit" /\ client'[d] = "permit" => d = c]_vars

\* A registered reservation that can be answered has been woken, except that
\* after a shutdown request the driver may still owe it that wake-up.
WaiterNotStranded ==
    \A c \in Clients : registered[c] /\ c \notin woken =>
        /\ admission \in Busy /\ waiter = c
        /\ stopping => ctlAdmission = c \/ dphase # "gone"

\* The driver sleeps in next only while there is nothing to take and somebody
\* is left to wake it: a sender, or the holder of a permit.
DriverNotStranded ==
    dphase = "next" /\ Driver \notin woken =>
        /\ admission \notin {"Queued", "Closed"} /\ ~stopping
        /\ driver = Driver /\ ctlDriver = Driver
        /\ senders > 0 \/ \E c \in Clients : client[c] = "permit"

\* A shutdown request ends the run loop.
ShutdownEndsDriver == stopping ~> dphase = "gone"

\* A shutdown request answers every waiting reservation.
ShutdownAnswersWaiters ==
    \A c \in Clients : (stopping /\ registered[c]) ~> ~registered[c]

\* A submitted request is taken by the driver or failed with it.
RequestsAreTaken == \A c \in Clients : (client[c] = "submitted") ~> (client[c] # "submitted")

\* When the last sender is gone and no permit is left the run loop ends.
LastSenderEndsDriver ==
    (senders = 0 /\ \A c \in Clients : client[c] # "permit") ~> dphase = "gone"

\* Neither a registered reservation nor the driver sleeps through its turn.
NobodyStranded == WaiterNotStranded /\ DriverNotStranded

\* Every submitted request is taken or failed, a shutdown request answers every
\* registered reservation, and the run loop ends after a shutdown request and
\* after the last sender.
EveryoneAnswered ==
    RequestsAreTaken /\ ShutdownAnswersWaiters /\ ShutdownEndsDriver /\ LastSenderEndsDriver
=============================================================================
