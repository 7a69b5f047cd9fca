--------------------------- MODULE AdmissionProofs ---------------------------
(* Admission for any number of clients and any bound on senders.              *)
EXTENDS Admission, TLAPS

\* The payloads of the slot agree with what the clients and the driver hold.
SlotAgrees ==
    /\ waiter # None => admission \in Busy /\ registered[waiter]
    /\ admission = "Queued" => job # None /\ client[job] = "submitted"
    /\ admission = "Reserved" => \E c \in Clients : client[c] = "permit"
    /\ admission = "Active" => dphase = "exchange"
    /\ admission = "Closed" <=> dphase = "gone"
    /\ \A c \in Clients : client[c] = "reserving" => senders > 0

\* The inductive invariant.
IInv ==
    /\ TypeOK
    /\ SlotAgrees
    /\ OneOwner
    /\ WaiterKeepsPlace
    /\ WaiterNotStranded
    /\ DriverNotStranded

\* A new channel satisfies the invariant.
LEMMA InitIInv == Init => IInv
  BY ClientsAssumption DEF Init, IInv, TypeOK, SlotAgrees, OneOwner, WaiterKeepsPlace,
     WaiterNotStranded, DriverNotStranded, Busy

\* No step of a client, of the driver or of the control breaks it.
LEMMA NextIInv == IInv /\ [Next]_vars => IInv'
<1> SUFFICES ASSUME IInv, [Next]_vars
             PROVE  IInv'
  OBVIOUS
<1> USE ClientsAssumption
    DEF IInv, TypeOK, SlotAgrees, OneOwner, WaiterKeepsPlace, WaiterNotStranded,
        DriverNotStranded, Busy, control
<1>1. CASE Clone
  BY <1>1 DEF Clone
<1>2. CASE DropSender
  BY <1>2, SMTT(30) DEF DropSender, WakeDriver, Tasks
<1>3. CASE Stop
  BY <1>3 DEF Stop, Tasks
<1>4. CASE PollNext
  BY <1>4, SMTT(30) DEF PollNext, DriverPolled, CloseReceiver, HasOwner, NextPending, Unavailable, Become, Tasks
<1>5. CASE ExchangeReusable
  BY <1>5, SMTT(30) DEF ExchangeReusable, DriverPolled, CloseReceiver, Release, Settled, Tasks
<1>6. CASE ExchangeLast
  BY <1>6, SMTT(30) DEF ExchangeLast, DriverPolled, CloseReceiver, Settled, Tasks
<1>7. CASE DriverDropped
  BY <1>7, SMTT(30) DEF DriverDropped, CloseReceiver, Settled, Tasks
<1>8. ASSUME NEW c \in Clients, TryReserve(c)
      PROVE  IInv'
  BY <1>8, SMTT(30) DEF TryReserve, Unavailable, Vacant, Become
<1>9. ASSUME NEW c \in Clients, StartReserve(c)
      PROVE  IInv'
  BY <1>9 DEF StartReserve, Become
<1>10. ASSUME NEW c \in Clients, PollReserve(c)
      PROVE  IInv'
  <2>1. TypeOK'
    <3>1. client' \in [Clients -> {"idle", "reserving", "permit", "submitted", "running"}]
      BY <1>10 DEF PollReserve, Unavailable, MayClaim, Vacant, DropReservation, Become
    <3>2. registered' \in [Clients -> BOOLEAN]
      BY <1>10 DEF PollReserve, Unavailable, MayClaim, Vacant, DropReservation, Become
    <3>3. /\ admission' \in Busy \cup {"Ready", "ReadyForWaiter", "Closed"}
          /\ waiter' \in Clients \cup {None} /\ ctlAdmission' \in Clients \cup {Driver, None}
      BY <1>10 DEF PollReserve, Unavailable, MayClaim, Vacant, DropReservation, Become
    <3>4. woken' \in SUBSET (Clients \cup {Driver})
      BY <1>10 DEF PollReserve
    <3> QED
      BY <1>10, <3>1, <3>2, <3>3, <3>4 DEF PollReserve
  <2>2. SlotAgrees'
    BY <1>10, SMTT(30) DEF PollReserve, Unavailable, MayClaim, Vacant, DropReservation, Become
  <2>3. OneOwner'
    BY <1>10, SMTT(30) DEF PollReserve, Unavailable, MayClaim, Vacant, DropReservation, Become
  <2>4. WaiterKeepsPlace'
    BY <1>10, SMTT(30) DEF PollReserve, Unavailable, MayClaim, Vacant, DropReservation, Become
  <2>5. WaiterNotStranded'
    BY <1>10, SMTT(30) DEF PollReserve, Unavailable, MayClaim, Vacant, DropReservation, Become
  <2>6. DriverNotStranded'
    BY <1>10, SMTT(30) DEF PollReserve, Unavailable, MayClaim, Vacant, DropReservation, Become
  <2> QED
    BY <2>1, <2>2, <2>3, <2>4, <2>5, <2>6
<1>11. ASSUME NEW c \in Clients, CancelReserve(c)
      PROVE  IInv'
  BY <1>11, SMTT(30) DEF CancelReserve, DropReservation, Become
<1>12. ASSUME NEW c \in Clients, ReleasePermit(c)
      PROVE  IInv'
  BY <1>12, SMTT(30) DEF ReleasePermit, Release, Become, Tasks
<1>13. ASSUME NEW c \in Clients, Send(c)
      PROVE  IInv'
  BY <1>13, SMTT(30) DEF Send, Unavailable, WakeDriver, Become, Tasks
<1>14. CASE UNCHANGED vars
  BY <1>14 DEF vars
<1> QED
  BY <1>1, <1>2, <1>3, <1>4, <1>5, <1>6, <1>7, <1>8, <1>9, <1>10, <1>11, <1>12, <1>13, <1>14 DEF Next, Quiet

\* Admission is owned by one permit, request or exchange at a time, and neither
\* the driver nor a registered reservation is ever left asleep with something
\* to do, for any number of clients and senders.
THEOREM AdmissionInvariant == Spec => []IInv
<1>1. Init => IInv
  BY InitIInv
<1>2. IInv /\ [Next]_vars => IInv'
  BY NextIInv
<1> QED
  BY <1>1, <1>2, PTL DEF Spec

\* One owner at a time; the unreachable!() arms are unreachable.
THEOREM SingleOwner == Spec => []OneOwner
  BY AdmissionInvariant, PTL DEF IInv

\* A registered reservation keeps its place in the queue.
THEOREM PlaceKept == Spec => []WaiterKeepsPlace
  BY AdmissionInvariant, PTL DEF IInv

\* The registered reservation is woken when it is its turn, and the driver
\* never sleeps through a queued request, a shutdown request or the end of the
\* last sender.
THEOREM NoLostWakeup == Spec => []NobodyStranded
  BY AdmissionInvariant, PTL DEF IInv, NobodyStranded

\* Only the registered reservation acquires the next permit.
LEMMA NextNoOvertaking ==
  ASSUME IInv, [Next]_vars, NEW c \in Clients, NEW d \in Clients,
         registered[c], client[d] # "permit", client'[d] = "permit"
  PROVE  d = c
<1> USE ClientsAssumption DEF IInv, TypeOK, WaiterKeepsPlace, Busy
<1>1. ASSUME NEW e \in Clients, TryReserve(e)
      PROVE  d = c
  BY <1>1 DEF TryReserve, Vacant, Unavailable
<1>2. ASSUME NEW e \in Clients, PollReserve(e)
      PROVE  d = c
  BY <1>2, SMTT(30) DEF PollReserve, MayClaim, Vacant, Unavailable, Become
<1>3. ASSUME NEW e \in Clients,
             StartReserve(e) \/ CancelReserve(e) \/ ReleasePermit(e) \/ Send(e)
      PROVE  FALSE
  BY <1>3 DEF StartReserve, CancelReserve, ReleasePermit, Send, Become
<1>4. CASE PollNext
  BY <1>4, SMTT(30) DEF PollNext, Become, NextPending
<1>5. CASE ExchangeReusable \/ ExchangeLast \/ DriverDropped
  BY <1>5, SMTT(30) DEF ExchangeReusable, ExchangeLast, DriverDropped, Settled
<1>6. CASE Clone \/ DropSender \/ Stop \/ Quiet \/ UNCHANGED vars
  BY <1>6, SMTT(30) DEF Clone, DropSender, Stop, Quiet, vars
<1> QED
  BY <1>1, <1>2, <1>3, <1>4, <1>5, <1>6 DEF Next

\* "A waiting reservation has priority over newcomers."
THEOREM Priority == Spec => NoOvertaking
<1>1. IInv /\ [Next]_vars =>
        [\A c, d \in Clients :
            registered[c] /\ client[d] # "permit" /\ client'[d] = "permit" => d = c]_vars
  BY NextNoOvertaking
<1> QED
  BY <1>1, AdmissionInvariant, PTL DEF Spec, NoOvertaking
=============================================================================
