---------------------------- MODULE ServerDriver ----------------------------
(***************************************************************************)
(* A server connection as its owner drives it: Server::serve_connection of *)
(* src/src/proto/h1/server.rs gives run_inner (ServerConnection) to drive  *)
(* of ConnectionControl (Control).  Both are polled by one task.  Control  *)
(* tells the loop when to stop, through stopping() and the stopped() wait  *)
(* of an idle read, and cancels its operations; the loop's end is the      *)
(* result drive waits for.                                                 *)
(***************************************************************************)
EXTENDS Control, Sequences

CONSTANTS Scripts, Preferred, MaxHead

VARIABLES
    requests, arrived, buffer, scan, taken, begun, pc, recovering, can_recover,
    returned    \* what run_inner returned: "none" until then

Conn == INSTANCE ServerConnection WITH stopping <- (mode # "Running"), result <- returned

\* A peer sends requests: heads, each up to its first empty line, and bodies.
\* Bytes that never complete a head begin one that is never sent to its end.
ASSUME ScriptsAssumption ==
    /\ Scripts \subseteq Seq([head : Seq(Conn!Byte), body : Seq(Conn!Byte), legal : BOOLEAN])
    /\ \A script \in Scripts : \A n \in 1 .. Len(script) : Conn!IsHead(script[n].head)

ASSUME BoundsAssumption == Preferred \in Nat /\ MaxHead \in Nat

connection == <<requests, arrived, buffer, scan, taken, begun, pc, recovering, can_recover, returned>>
driver == vars
all == <<driver, connection>>

DriverInit == Init /\ Conn!Init

\* What drive makes of the end of run_inner: once it is cancelled, a failure
\* may be the answer to the cancellation.
Ends ==
    CASE returned' \in {"Closed", "Recovered", "Upgraded"} -> {"ok"}
      [] fired = "no" -> {"failed"}
      [] OTHER -> {"failed", "canceled"}

\* A step of run_inner: its end is Complete of Control, and a read that is over
\* drops the stopped() wait that raced with it.
Settle ==
    /\ \/ pc' # "done" /\ UNCHANGED <<work, woken>>
       \/ pc' = "done" /\ work' \in Ends /\ woken' = TRUE
    /\ \/ pc' = "read" /\ UNCHANGED <<idle, idleWoken>>
       \/ pc' # "read" /\ idle' = "none" /\ idleWoken' = FALSE

Polled ==
    /\ result = "none" /\ work = "pending"
    /\ UNCHANGED <<mode, deadline, now, armed, slot, fired, result, idleSlot, request>>

\* The read completes after stopped() was polled and was not ready.
ReadEnds ==
    /\ Polled /\ idle = "waiting"
    /\ \/ \E n \in 1 .. Preferred : Conn!ReadData(n)
       \/ Conn!ReadEof
       \/ \E why \in Conn!Failures : Conn!ReadFails(why)
    /\ Settle

StopObserved ==
    /\ Polled /\ idle = "ready"
    /\ Conn!StopWins
    /\ Settle

Advance ==
    /\ Polled
    /\ Conn!Top \/ Conn!Reply \/ Conn!Close
    /\ Settle

SettleIdleRead(n) == Polled /\ Conn!SettleRead(n) /\ Settle

IdleReadFails(why) == Polled /\ Conn!SettleFails(why) /\ Settle

ExchangeFails(n, k) == Polled /\ Conn!ExchangeFails(n, k) /\ Settle

ExchangeEnds ==
    /\ Polled
    /\ \/ \E n \in 0 .. Conn!Total : Conn!ExchangeReusable(n) \/ Conn!ExchangeHandsOff(n)
       \/ \E n, k \in 0 .. Conn!Total : Conn!ExchangeCloses(n, k)
    /\ Settle

AwaitStop == pc = "read" /\ result = "none" /\ PollStopped /\ UNCHANGED connection

\* Once the driver has returned nothing reads a request or a timer any more.
Requested ==
    /\ result = "none"
    /\ (\E d \in 1 .. Horizon \cup {NoDeadline} : Graceful(d)) \/ Abort
    /\ UNCHANGED connection

ClockTicks == result = "none" /\ Tick /\ UNCHANGED connection

DriverPolled == PollDriver /\ UNCHANGED connection

DriverDropped == DropDriver /\ UNCHANGED connection

DriverNext ==
    \/ Requested \/ ClockTicks \/ DriverPolled \/ DriverDropped
    \/ AwaitStop \/ ReadEnds \/ StopObserved \/ Advance \/ ExchangeEnds
    \/ \E n \in 0 .. Preferred : SettleIdleRead(n)
    \/ \E why \in Conn!Failures : IdleReadFails(why)
    \/ \E n, k \in 0 .. Conn!Total : ExchangeFails(n, k)

\* run_inner waits for the peer to take what it writes: the answer to an illegal
\* head, or the shutdown of the transport.
Writing ==
    \/ pc \in {"reply", "too large"}
    \/ pc = "closing" /\ ~(recovering /\ can_recover)

\* The task is polled when woken, and polls run_inner as far as it gets: reads,
\* writes and exchanges wait for others, and a cancelled one settles.
DriverSpec ==
    /\ DriverInit /\ [][DriverNext]_all
    /\ WF_all(woken /\ DriverPolled)
    /\ WF_all((idle = "none" \/ idleWoken) /\ AwaitStop)
    /\ WF_all(ClockTicks)
    /\ WF_all(StopObserved \/ (~Writing /\ Advance))
    /\ WF_all(fired # "no" /\ Advance)
    /\ WF_all(SettleIdleRead(0))
    /\ WF_all(fired # "no" /\ ExchangeFails(0, 0))

-----------------------------------------------------------------------------
\* The bytes of the connection are accounted for, and heads are cut exactly
\* (ServerConnection), under any sequence of shutdown requests.
TransportIsWhole == Conn!TransportIsWhole /\ Conn!HeadsAreExact

StartsNothingNew == begun' > begun => mode = "Running"

\* Once a shutdown is requested no further request is taken up, however many
\* are waiting in the buffer; and a driver whose loop serves none returns, by
\* itself and not only when a deadline passes, unless the peer never lets it
\* finish a write.
StopIsHeeded ==
    /\ [][StartsNothingNew]_all
    /\ (mode # "Running" /\ pc # "exchange") ~> (result # "none" \/ []Writing)

\* What serve_connection reports is true.  A server connection is canceled by
\* its owner only: run() says Canceled after abort() and never otherwise.
ResultIsTrue == ReportIsTrue /\ (result = "Canceled" => fired = "Canceled")
=============================================================================
