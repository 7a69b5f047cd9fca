---------------------------- MODULE ControlProofs ----------------------------
(* Shutdown of a connection for any clock and any deadlines: of Control with  *)
(* any connection future, and of ServerDriver, where run_inner is that future *)
(* and its idle reads come and go with their stopped() waits.  Then the bytes *)
(* of the connection that run_inner serves.                                   *)
EXTENDS ServerDriver, WellFoundedInduction, SequenceTheorems, TLAPS

\* An abort has a cause; the watcher's timer belongs to the current deadline or
\* an older one, and a driver whose watcher fired is aborted.
CauseKnown ==
    /\ mode = "Aborted" => aborts \/ fired = "Timeout"
    /\ mode = "Running" => requested = {} /\ deadline = NoDeadline
    /\ fired # "no" => mode = "Aborted"

\* The inductive invariant.
IInv ==
    /\ TypeOK
    /\ CauseKnown
    /\ EarliestDeadlineKept
    /\ ReasonIsTrue
    /\ FailureRetained
    /\ DriverNotStranded
    /\ IdleNotStranded

\* A new control satisfies the invariant.
LEMMA InitIInv == Init => IInv
<1>1. Init => TypeOK
  <2>1. 0 \in Times
    BY HorizonAssumption DEF Times
  <2> QED
    BY <2>1, Zenon DEF Init, TypeOK
<1>2. Init => CauseKnown /\ EarliestDeadlineKept /\ ReasonIsTrue /\ FailureRetained
  BY DEF Init, CauseKnown, EarliestDeadlineKept, ReasonIsTrue, FailureRetained
<1>3. Init => DriverNotStranded /\ IdleNotStranded
  BY DEF Init, DriverNotStranded, IdleNotStranded
<1> QED
  BY <1>1, <1>2, <1>3 DEF IInv

\* No request, poll, tick or completion breaks it.
LEMMA NextIInv == IInv /\ [Next]_vars => IInv'
<1> SUFFICES ASSUME IInv, [Next]_vars
             PROVE  IInv'
  OBVIOUS
<1> USE HorizonAssumption
    DEF IInv, TypeOK, CauseKnown, EarliestDeadlineKept, ReasonIsTrue, FailureRetained,
        DriverNotStranded, IdleNotStranded, NoDeadline, Times, request, waiting
<1>1. ASSUME NEW d \in Times \cup {NoDeadline}, Graceful(d)
      PROVE  IInv'
  <2>1. TypeOK'
    BY <1>1, ZenonT(60) DEF Graceful, GracefulMode, GracefulDeadline, Earliest, Wake
  <2>2. CauseKnown'
    BY <1>1, SMTT(30) DEF Graceful, GracefulMode, GracefulDeadline, Earliest, Wake
  <2>3. EarliestDeadlineKept'
    BY <1>1, SMTT(30) DEF Graceful, GracefulMode, GracefulDeadline, Earliest, Wake
  <2>4. ReasonIsTrue' /\ FailureRetained'
    BY <1>1, SMTT(30) DEF Graceful, GracefulMode, GracefulDeadline, Earliest, Wake
  <2>5. DriverNotStranded'
    BY <1>1, SMTT(30) DEF Graceful, GracefulMode, GracefulDeadline, Earliest, Wake
  <2>6. IdleNotStranded'
    BY <1>1, SMTT(30) DEF Graceful, GracefulMode, GracefulDeadline, Earliest, Wake
  <2> QED
    BY <2>1, <2>2, <2>3, <2>4, <2>5, <2>6
<1>2. CASE Abort
  <2>1. TypeOK' /\ CauseKnown'
    BY <1>2, ZenonT(60) DEF Abort, Wake
  <2>2. EarliestDeadlineKept' /\ ReasonIsTrue' /\ FailureRetained'
    BY <1>2, SMTT(30) DEF Abort, Wake
  <2>3. DriverNotStranded'
    BY <1>2, SMTT(30) DEF Abort, Wake
  <2>4. IdleNotStranded'
    BY <1>2, SMTT(30) DEF Abort, Wake
  <2> QED
    BY <2>1, <2>2, <2>3, <2>4
<1>3. CASE Tick
  <2>1. TypeOK' /\ CauseKnown'
    BY <1>3, SMTT(30) DEF Tick
  <2>2. EarliestDeadlineKept' /\ ReasonIsTrue' /\ FailureRetained'
    BY <1>3, SMTT(30) DEF Tick
  <2>3. DriverNotStranded'
    BY <1>3, SMTT(30) DEF Tick
  <2>4. IdleNotStranded'
    BY <1>3, SMTT(30) DEF Tick
  <2> QED
    BY <2>1, <2>2, <2>3, <2>4
<1>4. ASSUME NEW r \in {"ok", "failed", "canceled"}, Complete(r)
      PROVE  IInv'
  BY <1>4, SMTT(30) DEF Complete
<1>5. CASE PollDriver /\ WatcherPends
  <2>1. TypeOK' /\ CauseKnown'
    BY <1>5, ZenonT(60) DEF PollDriver, WatcherPends, OwnResult, Armed, Expired, Finish, GracefulMode, GracefulDeadline, Earliest, Wake
  <2>2. EarliestDeadlineKept' /\ ReasonIsTrue' /\ FailureRetained'
    BY <1>5, SMTT(30) DEF PollDriver, WatcherPends, OwnResult, Armed, Expired, Finish, GracefulMode, GracefulDeadline, Earliest, Wake
  <2>3. DriverNotStranded'
    BY <1>5, SMTT(30) DEF PollDriver, WatcherPends, OwnResult, Armed, Expired, Finish, GracefulMode, GracefulDeadline, Earliest, Wake
  <2>4. IdleNotStranded'
    BY <1>5, SMTT(30) DEF PollDriver, WatcherPends, OwnResult, Armed, Expired, Finish, GracefulMode, GracefulDeadline, Earliest, Wake
  <2> QED
    BY <2>1, <2>2, <2>3, <2>4
<1>6. CASE PollDriver /\ WatcherCancels
  <2>1. TypeOK' /\ CauseKnown'
    BY <1>6, ZenonT(60) DEF PollDriver, WatcherCancels, Finish, Reported, GracefulMode, GracefulDeadline, Wake
  <2>2. EarliestDeadlineKept' /\ ReasonIsTrue' /\ FailureRetained'
    BY <1>6, SMTT(30) DEF PollDriver, WatcherCancels, Finish, Reported, GracefulMode, GracefulDeadline, Wake
  <2>3. DriverNotStranded'
    BY <1>6, SMTT(30) DEF PollDriver, WatcherCancels, Finish, Reported, GracefulMode, GracefulDeadline, Wake
  <2>4. IdleNotStranded'
    BY <1>6, SMTT(30) DEF PollDriver, WatcherCancels, Finish, Reported, GracefulMode, GracefulDeadline, Wake
  <2> QED
    BY <2>1, <2>2, <2>3, <2>4
<1>7. CASE PollDriver /\ WatcherExpires
  BY <1>7, ZenonT(60) DEF PollDriver, WatcherExpires, Expired, Reported
<1>8. CASE PollDriver /\ AwaitCancelled
  <2>1. TypeOK' /\ CauseKnown'
    BY <1>8, ZenonT(60) DEF PollDriver, AwaitCancelled, Finish, Reported, GracefulMode, GracefulDeadline, Earliest, Wake
  <2>2. EarliestDeadlineKept' /\ ReasonIsTrue' /\ FailureRetained'
    BY <1>8, SMTT(30) DEF PollDriver, AwaitCancelled, Finish, Reported, GracefulMode, GracefulDeadline, Earliest, Wake
  <2>3. DriverNotStranded'
    BY <1>8, SMTT(30) DEF PollDriver, AwaitCancelled, Finish, Reported, GracefulMode, GracefulDeadline, Earliest, Wake
  <2>4. IdleNotStranded'
    BY <1>8, SMTT(30) DEF PollDriver, AwaitCancelled, Finish, Reported, GracefulMode, GracefulDeadline, Earliest, Wake
  <2> QED
    BY <2>1, <2>2, <2>3, <2>4
<1>9. CASE DropDriver
  BY <1>9, ZenonT(60) DEF DropDriver, Finish, GracefulMode, GracefulDeadline, Earliest, Wake
<1>10. CASE PollStopped
  <2>1. TypeOK'
    <3>1. idleSlot' \in BOOLEAN /\ idleWoken' \in BOOLEAN
      BY <1>10, ZenonT(60) DEF PollStopped
    <3>2. idle' \in {"none", "waiting", "ready"}
      BY <1>10, SMTT(30) DEF PollStopped
    <3> QED
      BY <1>10, <3>1, <3>2, SMTT(30) DEF PollStopped
  <2>2. EarliestDeadlineKept' /\ ReasonIsTrue' /\ FailureRetained'
    BY <1>10, SMTT(30) DEF PollStopped
  <2>5. CauseKnown'
    BY <1>10, SMTT(30) DEF PollStopped
  <2>3. DriverNotStranded'
    BY <1>10, SMTT(30) DEF PollStopped
  <2>4. IdleNotStranded'
    BY <1>10, SMTT(30) DEF PollStopped
  <2> QED
    BY <2>1, <2>2, <2>3, <2>4, <2>5
<1>11. CASE UNCHANGED vars
  BY <1>11, SMTT(30) DEF vars
<1> QED
  BY <1>1, <1>2, <1>3, <1>4, <1>5, <1>6, <1>7, <1>8, <1>9, <1>10, <1>11, ZenonT(60) DEF Next, PollDriver

\* Every safety property of the shutdown protocol, for any clock and deadlines.
THEOREM ControlInvariant == Spec => []IInv
<1>1. Init => IInv
  BY InitIInv
<1>2. IInv /\ [Next]_vars => IInv'
  BY NextIInv
<1> QED
  BY <1>1, <1>2, PTL DEF Spec

\* The shutdown deadline is the earliest one requested.
THEOREM EarliestDeadline == Spec => []EarliestDeadlineKept
  BY ControlInvariant, PTL DEF IInv

\* Whatever the connection future does, one that ends as canceled unasked
\* included: run() reports the shutdown's Timeout only after a deadline passed,
\* Canceled only after abort() or for such an end, keeps a failure of the
\* connection, and never reports success once it was told to abort.
THEOREM TrueReports == Spec => []ReportIsTrue
  BY ControlInvariant, PTL DEF IInv, ReportIsTrue

\* The driver never sleeps through a request or with a stale timer, nor an
\* idle connection through a shutdown.
THEOREM NoLostWakeup == Spec => []NobodyStranded
  BY ControlInvariant, PTL DEF IInv, NobodyStranded

\* No step takes a shutdown back or postpones its deadline.
LEMMA NextEscalates == IInv /\ [Next]_vars => [Escalates]_vars
<1> SUFFICES ASSUME IInv, Next
             PROVE  Escalates
  OBVIOUS
<1> USE HorizonAssumption
    DEF Escalates, IInv, TypeOK, NoDeadline, Times, GracefulMode, GracefulDeadline, Earliest
<1>1. ASSUME NEW d \in Times \cup {NoDeadline}, Graceful(d)
      PROVE  Escalates
  BY <1>1 DEF Graceful
<1>2. CASE Abort \/ Tick \/ PollStopped \/ DropDriver
  BY <1>2 DEF Abort, Tick, PollStopped, DropDriver, Finish
<1>3. CASE PollDriver
  BY <1>3 DEF PollDriver, WatcherPends, WatcherCancels, WatcherExpires, AwaitCancelled, Finish
<1>4. ASSUME NEW r \in {"ok", "failed", "canceled"}, Complete(r)
      PROVE  Escalates
  BY <1>4 DEF Complete
<1> QED
  BY <1>1, <1>2, <1>3, <1>4 DEF Next

\* Requests only escalate: no later request weakens an earlier one.
THEOREM OnlyEscalates == Spec => ShutdownOnlyEscalates
  BY NextEscalates, ControlInvariant, PTL DEF Spec, ShutdownOnlyEscalates
-----------------------------------------------------------------------------
(* The server connection as the future that is driven. *)

\* A step of run_inner, whether or not it is the last one or ends a read,
\* keeps the control's invariant.
LEMMA SettleIInv == IInv /\ Polled /\ Settle => IInv'
<1> SUFFICES ASSUME IInv, Polled, Settle
             PROVE  IInv'
  OBVIOUS
<1> USE DEF IInv, TypeOK, CauseKnown, EarliestDeadlineKept, ReasonIsTrue, FailureRetained,
            DriverNotStranded, IdleNotStranded, request
<1>1. work' = work \/ work' \in {"ok", "failed"} \/ (work' = "canceled" /\ fired # "no")
  BY DEF Settle, Ends
<1>2. (work' = work /\ woken' = woken) \/ woken' = TRUE
  BY Zenon DEF Settle
<1>3. (idle' = idle /\ idleWoken' = idleWoken) \/ (idle' = "none" /\ idleWoken' = FALSE)
  BY Zenon DEF Settle
<1>4. TypeOK'
  BY <1>1, <1>2, <1>3, ZenonT(60) DEF Polled
<1>5. CauseKnown' /\ EarliestDeadlineKept' /\ ReasonIsTrue' /\ FailureRetained'
  BY <1>1, SMTT(30) DEF Polled
<1>6. DriverNotStranded'
  BY <1>2, SMTT(30) DEF Polled
<1>7. IdleNotStranded'
  BY <1>3, SMTT(30) DEF Polled
<1> QED
  BY <1>4, <1>5, <1>6, <1>7

\* Every step of the composition is a step of Control or of run_inner.
LEMMA DriverNextIInv == IInv /\ [DriverNext]_all => IInv'
<1> SUFFICES ASSUME IInv, [DriverNext]_all
             PROVE  IInv'
  OBVIOUS
<1>1. CASE Requested
  <2>1. 1 .. Horizon \cup {NoDeadline} \subseteq Times \cup {NoDeadline}
    BY HorizonAssumption DEF Times
  <2>2. Next
    BY <1>1, <2>1 DEF Requested, Next
  <2> QED
    BY <2>2, NextIInv
<1>2. CASE ClockTicks \/ DriverPolled \/ DriverDropped \/ AwaitStop
  <2>1. Next
    BY <1>2 DEF ClockTicks, DriverPolled, DriverDropped, AwaitStop, Next
  <2> QED
    BY <2>1, NextIInv
<1>3. CASE Polled /\ Settle
  BY <1>3, SettleIInv
<1>4. CASE UNCHANGED all
  BY <1>4, NextIInv DEF all, driver
<1> QED
  BY <1>1, <1>2, <1>3, <1>4
     DEF DriverNext, ReadEnds, StopObserved, Advance, ExchangeEnds, SettleIdleRead, IdleReadFails, ExchangeFails

\* The shutdown protocol's invariant holds of a server connection, whatever its
\* peer sends and however its exchanges end.
THEOREM DriverInvariant == DriverSpec => []IInv
<1>1. DriverInit => IInv
  BY InitIInv DEF DriverInit
<1> QED
  BY <1>1, DriverNextIInv, PTL DEF DriverSpec

\* A server connection's deadline is the earliest one requested.
THEOREM DriverEarliestDeadline == DriverSpec => []EarliestDeadlineKept
  BY DriverInvariant, PTL DEF IInv

\* run_inner of a server ends as canceled only in answer to a cancellation.
CanceledByOwner == work = "canceled" => fired # "no"

\* The watcher does not forget that it fired, and only the last step of
\* run_inner decides how it ended.
LEMMA NextCanceledByOwner == CanceledByOwner /\ [DriverNext]_all => CanceledByOwner'
<1> SUFFICES ASSUME CanceledByOwner, [DriverNext]_all
             PROVE  CanceledByOwner'
  OBVIOUS
<1> USE DEF CanceledByOwner
<1>1. CASE Requested \/ ClockTicks \/ DriverDropped \/ AwaitStop
  BY <1>1 DEF Requested, ClockTicks, DriverDropped, AwaitStop, Graceful, Abort, Tick, DropDriver, PollStopped
<1>2. CASE DriverPolled
  BY <1>2 DEF DriverPolled, PollDriver, WatcherPends, WatcherCancels, WatcherExpires, AwaitCancelled
<1>3. CASE Polled /\ Settle
  BY <1>3 DEF Polled, Settle, Ends
<1>4. CASE UNCHANGED all
  BY <1>4 DEF all, driver, vars
<1> QED
  BY <1>1, <1>2, <1>3, <1>4
     DEF DriverNext, ReadEnds, StopObserved, Advance, ExchangeEnds, SettleIdleRead, IdleReadFails, ExchangeFails

\* serve_connection reports the shutdown's Timeout and Canceled only after a
\* deadline or abort(), keeps a failure of run_inner, and never reports success
\* once it was told to abort.
THEOREM DriverReportsTruly == DriverSpec => []ResultIsTrue
<1>1. DriverInit => CanceledByOwner
  BY DEF DriverInit, Init, CanceledByOwner
<1>2. IInv /\ CanceledByOwner => ResultIsTrue
  BY DEF IInv, ReasonIsTrue, CanceledByOwner, ResultIsTrue, ReportIsTrue
<1> QED
  BY <1>1, <1>2, NextCanceledByOwner, DriverInvariant, PTL DEF DriverSpec

\* The task of a server connection never sleeps through a request, and neither
\* does the idle read, although its stopped() wait is registered anew each time.
THEOREM DriverNoLostWakeup == DriverSpec => []NobodyStranded
  BY DriverInvariant, PTL DEF IInv, NobodyStranded

-----------------------------------------------------------------------------
(* No request is taken up after a stop. *)

Counted == begun \in Nat

\* Heads are taken one at a time, and only by a loop that sees no request to
\* stop: at its top, or when a read completes.
LEMMA HeadsTaken ==
    Counted /\ [DriverNext]_all => (begun' = begun \/ (begun' = begun + 1 /\ mode = "Running"))
<1> SUFFICES ASSUME Counted, [DriverNext]_all
             PROVE  begun' = begun \/ (begun' = begun + 1 /\ mode = "Running")
  OBVIOUS
<1>1. CASE Requested \/ ClockTicks \/ DriverPolled \/ DriverDropped \/ AwaitStop
  BY <1>1 DEF Requested, ClockTicks, DriverPolled, DriverDropped, AwaitStop, connection
<1>2. CASE ReadEnds
  <2>1. ASSUME NEW n \in 1 .. Preferred, Conn!ReadData(n)
        PROVE  begun' = begun \/ (begun' = begun + 1 /\ mode = "Running")
    BY <2>1, Zenon DEF Conn!ReadData, Conn!Scan, Conn!Take
  <2>2. CASE Conn!ReadEof
    BY <2>2 DEF Conn!ReadEof, Conn!bytes
  <2>3. ASSUME NEW why \in Conn!Failures, Conn!ReadFails(why)
        PROVE  begun' = begun
    BY <2>3 DEF Conn!ReadFails, Conn!bytes
  <2> QED
    BY <1>2, <2>1, <2>2, <2>3 DEF ReadEnds
<1>3. CASE StopObserved
  BY <1>3 DEF StopObserved, Conn!StopWins, Conn!bytes
<1>4. CASE Advance
  <2>1. CASE Conn!Top
    BY <2>1, Zenon DEF Conn!Top, Conn!StopSeen, Conn!Scan, Conn!Take, Conn!bytes
  <2>2. CASE Conn!Reply \/ Conn!Close
    BY <2>2, Zenon DEF Conn!Reply, Conn!Close, Conn!bytes
  <2> QED
    BY <1>4, <2>1, <2>2 DEF Advance
<1>5. CASE ExchangeEnds
  BY <1>5, Zenon DEF ExchangeEnds, Conn!ExchangeReusable, Conn!ExchangeHandsOff, Conn!ExchangeCloses, Conn!Exchanged
<1>6. ASSUME NEW n, SettleIdleRead(n)
      PROVE  begun' = begun
  BY <1>6 DEF SettleIdleRead, Conn!SettleRead
<1>7. ASSUME NEW why, IdleReadFails(why)
      PROVE  begun' = begun
  BY <1>7 DEF IdleReadFails, Conn!SettleFails, Conn!bytes
<1>8. ASSUME NEW n, NEW k, ExchangeFails(n, k)
      PROVE  begun' = begun
  BY <1>8 DEF ExchangeFails, Conn!ExchangeFails, Conn!Exchanged
<1>9. CASE UNCHANGED all
  BY <1>9 DEF all, connection
<1> QED
  BY <1>1, <1>2, <1>3, <1>4, <1>5, <1>6, <1>7, <1>8, <1>9 DEF DriverNext

\* Once a shutdown is requested the server takes up no further request, however
\* many are waiting in its buffer: the action property of StopIsHeeded.
THEOREM NothingNewAfterStop == DriverSpec => [][StartsNothingNew]_all
<1>1. DriverInit => Counted
  BY DEF DriverInit, Conn!Init, Counted
<1>2. Counted /\ [DriverNext]_all => Counted'
  BY HeadsTaken DEF Counted
<1>3. Counted /\ [DriverNext]_all => [StartsNothingNew]_all
  BY HeadsTaken DEF Counted, StartsNothingNew
<1> QED
  BY <1>1, <1>2, <1>3, PTL DEF DriverSpec

-----------------------------------------------------------------------------
(* What the connection loop does with the peer's bytes, for any requests, any *)
(* head limit and any division of the stream into reads.  Scanning and the    *)
(* stream are recursive functions, so their facts are proved by induction: a  *)
(* set of numbers that holds 0 and every successor holds them all.            *)
Below == {pair \in Nat \X Nat : pair[1] < pair[2]}

\* Induction over the numbers, of a set: the least number left out is not 0, so
\* its predecessor is in the set, and then so is it.
LEMMA Induction ==
    ASSUME NEW T, 0 \in T, \A n \in Nat : n \in T => n + 1 \in T
    PROVE  Nat \subseteq T
<1> SUFFICES ASSUME ~(Nat \subseteq T)
             PROVE  FALSE
  OBVIOUS
<1> DEFINE Rest == Nat \ T
<1>1. IsWellFoundedOn(Below, Nat)
  BY NatLessThanWellFounded DEF OpToRel, Below
<1>2. Rest \subseteq Nat /\ Rest # {}
  OBVIOUS
<1>3. PICK n \in Rest : \A m \in Rest : ~(<<m, n>> \in Below)
  <2> HIDE DEF Rest
  <2> QED
    BY <1>1, <1>2, WFMin, Zenon
<1>4. n \in Nat /\ n # 0 /\ n - 1 \in Nat
  OBVIOUS
<1>5. <<n - 1, n>> \in Below
  BY <1>4 DEF Below
<1>6. n - 1 \in T
  BY <1>3, <1>4, <1>5
<1> QED
  BY <1>4, <1>6

\* f is the loop of HeadScan::complete over the bytes m + 1 to n of input.
IsScan(f, start, input, m, n) ==
    f = [k \in m .. n |-> IF k = m THEN start ELSE Conn!ScanByte(f[k - 1], input[k])]

\* The loop of HeadScan::complete is defined for every number of bytes.
LEMMA ScanExists ==
    ASSUME NEW start, NEW input, NEW m \in Nat, NEW d \in Nat
    PROVE  \E f : IsScan(f, start, input, m, m + d)
<1> USE DEF IsScan
<1> DEFINE Fix(f, n) == IsScan(f, start, input, m, m + n)
<1> DEFINE T == {n \in Nat : \E f : Fix(f, n)}
<1>1. 0 \in T
  <2>1. Fix([k \in m .. m + 0 |-> start], 0)
    OBVIOUS
  <2> QED
    BY <2>1
<1>2. ASSUME NEW n \in Nat, n \in T
      PROVE  n + 1 \in T
  <2>1. PICK f : Fix(f, n)
    BY <1>2
  <2> DEFINE g == [k \in m .. m + (n + 1) |-> IF k = m + (n + 1) THEN Conn!ScanByte(f[m + n], input[k]) ELSE f[k]]
  <2>2. ASSUME NEW k \in m .. m + (n + 1)
        PROVE  g[k] = IF k = m THEN start ELSE Conn!ScanByte(g[k - 1], input[k])
    <3>1. CASE k = m + (n + 1)
      <4>1. g[k - 1] = f[m + n]
        BY <3>1
      <4> QED
        BY <3>1, <4>1
    <3>2. CASE k \in m .. m + n
      <4>1. g[k] = f[k] /\ (k # m => g[k - 1] = f[k - 1])
        BY <3>2
      <4> QED
        BY <2>1, <3>2, <4>1
    <3> QED
      BY <3>1, <3>2
  <2>3. Fix(g, n + 1)
    BY <2>2
  <2> HIDE DEF g, Fix
  <2> QED
    BY <2>3
<1> HIDE DEF T
<1>3. Nat \subseteq T
  BY <1>1, <1>2, Induction
<1> QED
  BY <1>3 DEF T

\* Scans is that loop: its recursive definition unfolds.
LEMMA ScansIsFixed ==
    ASSUME NEW start, NEW input, start.scanned \in Nat, Len(input) \in Nat, start.scanned <= Len(input)
    PROVE  Conn!Scans(start, input) =
               [k \in start.scanned .. Len(input) |->
                   IF k = start.scanned THEN start
                   ELSE Conn!ScanByte(Conn!Scans(start, input)[k - 1], input[k])]
<1> DEFINE m == start.scanned
           n == Len(input)
           Fix(f) == IsScan(f, start, input, m, n)
<1>1. \E f : Fix(f)
  <2>1. PICK d \in Nat : m + d = n
    <3>1. n - m \in Nat /\ m + (n - m) = n
      OBVIOUS
    <3> QED
      BY <3>1
  <2>0. m \in Nat
    OBVIOUS
  <2> HIDE DEF m, n
  <2>2. \E f : IsScan(f, start, input, m, m + d)
    BY <2>0, ScanExists, Zenon
  <2> QED
    BY <2>1, <2>2, Zenon
<1>2. Conn!Scans(start, input) = CHOOSE f : Fix(f)
  BY Zenon DEF Conn!Scans, IsScan
<1>3. Fix(CHOOSE f : Fix(f))
  <2> HIDE DEF Fix
  <2> QED
    BY <1>1, Zenon
<1> QED
  BY <1>2, <1>3, Zenon DEF IsScan

\* The ScanLine of a scan that has seen k bytes and no empty line, read off the
\* bytes themselves.
LineAt(bytes, k) ==
    IF \A i \in 1 .. k : bytes[i] # "x" THEN "Leading"
    ELSE IF bytes[k] = "LF" THEN "End"
    ELSE IF bytes[k] = "CR" /\ bytes[k - 1] = "LF" THEN "EndCr"
    ELSE "Content"

\* The whole scan then.
Mark(bytes, k) == [scanned |-> k, line |-> LineAt(bytes, k), length |-> 0]

NoEmptyLine(bytes, k) == \A j \in 1 .. k : ~Conn!EmptyLine(bytes, j)

\* A scan that has seen k - 1 bytes finds an empty line at the k-th exactly when
\* one ends there, and otherwise has seen k bytes.
LEMMA OneByte ==
    ASSUME NEW bytes \in Seq(Conn!Byte), NEW k \in 1 .. Len(bytes)
    PROVE  Conn!ScanByte(Mark(bytes, k - 1), bytes[k]) =
               IF Conn!EmptyLine(bytes, k)
               THEN [scanned |-> k, line |-> LineAt(bytes, k - 1), length |-> k]
               ELSE Mark(bytes, k)
<1> DEFINE line == LineAt(bytes, k - 1)
           Leading(n) == \A i \in 1 .. n : bytes[i] # "x"
<1>0. bytes[k] \in Conn!Byte /\ (k > 1 => bytes[k - 1] \in Conn!Byte)
  OBVIOUS
<1>1. Conn!EmptyLine(bytes, k) <=> bytes[k] = "LF" /\ line \in {"End", "EndCr"}
  <2>1. ASSUME Conn!EmptyLine(bytes, k)
        PROVE  bytes[k] = "LF" /\ line \in {"End", "EndCr"}
    BY <2>1 DEF Conn!EmptyLine, LineAt
  <2>2. ASSUME bytes[k] = "LF", line = "End"
        PROVE  Conn!EmptyLine(bytes, k)
    <3>1. PICK i \in 1 .. k - 1 : bytes[i] = "x"
      BY <2>2 DEF LineAt
    <3>2. bytes[k - 1] = "LF"
      BY <2>2 DEF LineAt
    <3>3. i \in 1 .. (k - 1) - 1 /\ k - 1 \in 1 .. k - 1
      BY <3>1, <3>2
    <3> QED
      BY <2>2, <3>1, <3>2, <3>3 DEF Conn!EmptyLine
  <2>3. ASSUME bytes[k] = "LF", line = "EndCr"
        PROVE  Conn!EmptyLine(bytes, k)
    <3>1. PICK i \in 1 .. k - 1 : bytes[i] = "x"
      BY <2>3 DEF LineAt
    <3>2. bytes[k - 1] = "CR" /\ bytes[(k - 1) - 1] = "LF"
      BY <2>3 DEF LineAt
    <3>3. i \in 1 .. (k - 2) - 1 /\ k - 2 \in 1 .. k - 1 /\ (k - 1) - 1 = k - 2
      BY <3>1, <3>2
    <3> QED
      BY <2>3, <3>1, <3>2, <3>3 DEF Conn!EmptyLine
  <2> QED
    BY <2>1, <2>2, <2>3
<1>2. LineAt(bytes, k) = IF line = "Leading" /\ bytes[k] \in {"CR", "LF"} THEN "Leading"
                         ELSE IF line = "End" /\ bytes[k] = "CR" THEN "EndCr"
                         ELSE IF bytes[k] = "LF" THEN "End" ELSE "Content"
  <2>1. Leading(k) <=> Leading(k - 1) /\ bytes[k] # "x"
    OBVIOUS
  <2>2. line = "Leading" <=> Leading(k - 1)
    BY DEF LineAt
  <2>3. line = "End" <=> ~Leading(k - 1) /\ bytes[k - 1] = "LF"
    BY DEF LineAt
  <2>4. bytes[k] # "x" <=> bytes[k] \in {"CR", "LF"}
    BY <1>0 DEF Conn!Byte
  <2> HIDE DEF line
  <2> QED
    BY <2>1, <2>2, <2>3, <2>4 DEF LineAt
<1>3. line \in {"Leading", "End", "EndCr", "Content"}
  BY DEF LineAt
<1>4. Conn!ScanLine(line, bytes[k]) = IF line = "Leading" /\ bytes[k] \in {"CR", "LF"} THEN "Leading"
                         ELSE IF line = "End" /\ bytes[k] = "CR" THEN "EndCr"
                         ELSE IF bytes[k] = "LF" THEN "End" ELSE "Content"
  BY <1>3 DEF Conn!ScanLine
<1> HIDE DEF line
<1>5. Mark(bytes, k - 1) = [scanned |-> k - 1, line |-> line, length |-> 0]
  BY DEF Mark, line
<1>6. CASE Conn!EmptyLine(bytes, k)
  BY <1>1, <1>5, <1>6 DEF Conn!ScanByte, line
<1>7. CASE ~Conn!EmptyLine(bytes, k)
  <2>1. Conn!ScanLine(line, bytes[k]) = LineAt(bytes, k)
    BY <1>2, <1>4
  <2> QED
    BY <1>1, <1>5, <1>7, <2>1 DEF Conn!ScanByte, Mark
<1> QED
  BY <1>6, <1>7

\* The scan of the first n bytes: either no empty line ends among them, or its
\* length is where the first one ends.
Found(bytes, n, seen) ==
    \/ NoEmptyLine(bytes, n) /\ seen = Mark(bytes, n)
    \/ \E j \in 1 .. n : /\ Conn!EmptyLine(bytes, j)
                         /\ NoEmptyLine(bytes, j - 1)
                         /\ seen.length = j

\* HeadScan::complete keeps this with every byte.
LEMMA FoundNext ==
    ASSUME NEW bytes \in Seq(Conn!Byte), NEW k \in 1 .. Len(bytes), NEW seen, Found(bytes, k - 1, seen)
    PROVE  Found(bytes, k, Conn!ScanByte(seen, bytes[k]))
<1>1. CASE NoEmptyLine(bytes, k - 1) /\ seen = Mark(bytes, k - 1) /\ Conn!EmptyLine(bytes, k)
  <2>1. Conn!ScanByte(seen, bytes[k]).length = k
    <3>1. Conn!ScanByte(seen, bytes[k]) = [scanned |-> k, line |-> LineAt(bytes, k - 1), length |-> k]
      BY <1>1, OneByte, Zenon
    <3> QED
      BY <3>1
  <2> QED
    BY <1>1, <2>1 DEF Found
<1>2. CASE NoEmptyLine(bytes, k - 1) /\ seen = Mark(bytes, k - 1) /\ ~Conn!EmptyLine(bytes, k)
  <2>1. Conn!ScanByte(seen, bytes[k]) = Mark(bytes, k)
    BY <1>2, OneByte, Zenon
  <2>2. NoEmptyLine(bytes, k)
    BY <1>2 DEF NoEmptyLine
  <2> QED
    BY <2>1, <2>2 DEF Found
<1>3. ASSUME NEW j \in 1 .. k - 1, Conn!EmptyLine(bytes, j), NoEmptyLine(bytes, j - 1), seen.length = j
      PROVE  Found(bytes, k, Conn!ScanByte(seen, bytes[k]))
  <2>1. Conn!ScanByte(seen, bytes[k]) = seen
    BY <1>3 DEF Conn!ScanByte
  <2>2. j \in 1 .. k
    OBVIOUS
  <2> QED
    BY <1>3, <2>1, <2>2 DEF Found
<1> QED
  BY <1>1, <1>2, <1>3 DEF Found

\* HeadScan::complete, resumed where an earlier call stopped, finds the first
\* empty line of all the bytes.
LEMMA CompleteFinds ==
    ASSUME NEW bytes \in Seq(Conn!Byte), NEW m \in 0 .. Len(bytes), NoEmptyLine(bytes, m)
    PROVE  Found(bytes, Len(bytes), Conn!Complete(Mark(bytes, m), bytes))
<1> DEFINE start == Mark(bytes, m)
           d == Len(bytes) - m
           after == Conn!Scans(start, bytes)
<1>1. d \in Nat /\ m + d = Len(bytes) /\ m \in Nat /\ Len(bytes) \in Nat /\ m <= Len(bytes)
  OBVIOUS
<1>2. start.scanned = m /\ start.length = 0
  BY DEF Mark
<1>3. Conn!Complete(start, bytes) = after[Len(bytes)]
  <2> HIDE DEF start
  <2> QED
    BY <1>1, <1>2 DEF Conn!Complete
<1>4. after = [k \in m .. Len(bytes) |-> IF k = m THEN start ELSE Conn!ScanByte(after[k - 1], bytes[k])]
  <2> HIDE DEF start
  <2> QED
    BY <1>1, <1>2, ScansIsFixed
<1> DEFINE T == {n \in Nat : m + n <= Len(bytes) => Found(bytes, m + n, after[m + n])}
<1> HIDE DEF after
<1>5. 0 \in T
  <2>1. after[m] = start
    BY <1>4
  <2> QED
    BY <2>1, <1>1 DEF Found
<1>6. ASSUME NEW n \in Nat, n \in T
      PROVE  n + 1 \in T
  <2> SUFFICES ASSUME m + (n + 1) <= Len(bytes)
               PROVE  Found(bytes, m + (n + 1), after[m + (n + 1)])
    OBVIOUS
  <2> DEFINE k == m + (n + 1)
  <2>1. k \in 1 .. Len(bytes) /\ k - 1 = m + n /\ k \in m .. Len(bytes) /\ k # m
    BY <1>1
  <2>2. Found(bytes, k - 1, after[k - 1])
    BY <1>6, <2>1
  <2>3. after[k] = Conn!ScanByte(after[k - 1], bytes[k])
    BY <1>4, <2>1
  <2> HIDE DEF k
  <2>4. Found(bytes, k, after[k])
    BY <2>1, <2>2, <2>3, FoundNext
  <2> QED
    BY <2>4 DEF k
<1> HIDE DEF T
<1>7. d \in T
  BY <1>1, <1>5, <1>6, Induction
<1> QED
  BY <1>1, <1>3, <1>7 DEF T

\* Empty lines and scans of a prefix depend on the prefix only.
LEMMA PrefixDecides ==
    ASSUME NEW a, NEW b, NEW n \in Nat, \A i \in 1 .. n : a[i] = b[i]
    PROVE  /\ \A k \in 1 .. n : Conn!EmptyLine(a, k) <=> Conn!EmptyLine(b, k)
           /\ \A k \in 0 .. n : NoEmptyLine(a, k) <=> NoEmptyLine(b, k)
           /\ \A k \in 0 .. n : Mark(a, k) = Mark(b, k)
<1>1. ASSUME NEW k \in 1 .. n
      PROVE  Conn!EmptyLine(a, k) <=> Conn!EmptyLine(b, k)
  <2>1. \A i \in 1 .. k : a[i] = b[i]
    OBVIOUS
  <2> QED
    BY <2>1 DEF Conn!EmptyLine
<1>2. ASSUME NEW k \in 0 .. n
      PROVE  NoEmptyLine(a, k) <=> NoEmptyLine(b, k)
  BY <1>1 DEF NoEmptyLine
<1>3. ASSUME NEW k \in 0 .. n
      PROVE  LineAt(a, k) = LineAt(b, k)
  <2>1. CASE \A i \in 1 .. k : a[i] # "x"
    BY <2>1 DEF LineAt
  <2>2. ASSUME NEW i \in 1 .. k, a[i] = "x"
        PROVE  LineAt(a, k) = LineAt(b, k)
    <3>1. a[k] = b[k] /\ a[i] = b[i]
      OBVIOUS
    <3>2. a[k] = "CR" => a[k - 1] = b[k - 1]
      <4>1. ASSUME a[k] = "CR"
            PROVE  k - 1 \in 1 .. n
        BY <2>2, <4>1
      <4> QED
        BY <4>1
    <3> QED
      BY <2>2, <3>1, <3>2 DEF LineAt
  <2> QED
    BY <2>1, <2>2
<1> QED
  BY <1>1, <1>2, <1>3 DEF Mark

\* The smaller of two numbers, as head_len and the body take it.
LEMMA MinOfTwo ==
    ASSUME NEW m \in Nat, NEW n \in Nat
    PROVE  Conn!Min({m, n}) = IF m <= n THEN m ELSE n
<1> DEFINE least == IF m <= n THEN m ELSE n
<1>1. least \in {m, n} /\ \A y \in {m, n} : least <= y
  OBVIOUS
<1>2. \A x \in {m, n} : (\A y \in {m, n} : x <= y) => x = least
  OBVIOUS
<1> HIDE DEF least
<1> QED
  BY <1>1, <1>2 DEF Conn!Min, least

\* HeadParser::head_len returns the first empty line within the limit, or
\* refuses when the limit is passed without one, or waits for more.
LEMMA HeadLenFinds ==
    ASSUME NEW bytes \in Seq(Conn!Byte), NEW m \in 0 .. Len(bytes), m <= MaxHead, NoEmptyLine(bytes, m),
           NEW seen, seen = Conn!HeadLen(Mark(bytes, m), bytes)
    PROVE  \/ /\ seen.out = "Head"
              /\ \E j \in 1 .. Len(bytes) : /\ j <= MaxHead /\ seen.scan.length = j
                                            /\ Conn!EmptyLine(bytes, j) /\ NoEmptyLine(bytes, j - 1)
           \/ /\ seen.out = "Limit"
              /\ Len(bytes) > MaxHead /\ NoEmptyLine(bytes, MaxHead)
           \/ /\ seen.out = "More"
              /\ Len(bytes) <= MaxHead /\ NoEmptyLine(bytes, Len(bytes))
              /\ seen.scan = Mark(bytes, Len(bytes))
<1> DEFINE n == IF Len(bytes) <= MaxHead THEN Len(bytes) ELSE MaxHead
           head == SubSeq(bytes, 1, n)
           after == Conn!Complete(Mark(bytes, m), head)
<1>1. MaxHead \in Nat /\ Len(bytes) \in Nat /\ n \in 0 .. Len(bytes) /\ m \in 0 .. n
  BY BoundsAssumption
<1>2. Conn!Min({Len(bytes), MaxHead}) = n
  BY <1>1, MinOfTwo
<1>3. head \in Seq(Conn!Byte) /\ Len(head) = n /\ \A i \in 1 .. n : bytes[i] = head[i]
  BY <1>1
<1> HIDE DEF n, head
<1>4. /\ \A k \in 1 .. n : Conn!EmptyLine(bytes, k) <=> Conn!EmptyLine(head, k)
      /\ \A k \in 0 .. n : NoEmptyLine(bytes, k) <=> NoEmptyLine(head, k)
      /\ \A k \in 0 .. n : Mark(bytes, k) = Mark(head, k)
  <2>1. n \in Nat
    BY <1>1
  <2> QED
    BY <1>3, <2>1, PrefixDecides, Zenon
<1>5. Found(head, n, after)
  BY <1>1, <1>3, <1>4, CompleteFinds
<1>6. seen = CASE after.length > 0 -> [scan |-> after, out |-> "Head"]
               [] after.length = 0 /\ Len(bytes) > MaxHead -> [scan |-> Conn!Fresh, out |-> "Limit"]
               [] OTHER -> [scan |-> after, out |-> "More"]
  BY <1>2, Zenon DEF Conn!HeadLen, head
<1> HIDE DEF after
<1>7. CASE NoEmptyLine(head, n) /\ after = Mark(head, n)
  <2>1. after.length = 0 /\ NoEmptyLine(bytes, n) /\ after = Mark(bytes, n)
    <3>1. n \in 0 .. n
      BY <1>1
    <3> QED
      BY <1>4, <1>7, <3>1 DEF Mark
  <2>2. CASE Len(bytes) > MaxHead
    BY <1>1, <1>6, <2>1, <2>2 DEF n
  <2>3. CASE ~(Len(bytes) > MaxHead)
    BY <1>1, <1>6, <2>1, <2>3 DEF n
  <2> QED
    BY <2>2, <2>3
<1>8. ASSUME NEW j \in 1 .. n, Conn!EmptyLine(head, j), NoEmptyLine(head, j - 1), after.length = j
      PROVE  /\ seen.out = "Head" /\ seen.scan.length = j
             /\ j \in 1 .. Len(bytes) /\ j <= MaxHead
             /\ Conn!EmptyLine(bytes, j) /\ NoEmptyLine(bytes, j - 1)
  <2>1. j - 1 \in 0 .. n
    BY <1>1
  <2> QED
    BY <1>1, <1>4, <1>6, <1>8, <2>1 DEF n
<1> QED
  BY <1>5, <1>7, <1>8 DEF Found

\* The stream with one more request.
Extended(before, next) == before \o (next.head \o next.body)

\* f gives the stream after each of N requests.
IsSent(f, r, N) == f = [n \in 0 .. N |-> IF n = 0 THEN << >> ELSE Extended(f[n - 1], r[n])]

\* Every number of requests has a stream.
LEMMA SentExists ==
    ASSUME NEW r, NEW N \in Nat
    PROVE  \E f : IsSent(f, r, N)
<1> USE DEF IsSent
<1> DEFINE T == {n \in Nat : \E f : IsSent(f, r, n)}
<1>1. 0 \in T
  <2>1. IsSent([k \in 0 .. 0 |-> << >>], r, 0)
    OBVIOUS
  <2> QED
    BY <2>1, Zenon
<1>2. ASSUME NEW n \in Nat, n \in T
      PROVE  n + 1 \in T
  <2>1. PICK f : IsSent(f, r, n)
    BY <1>2
  <2> DEFINE g == [k \in 0 .. n + 1 |-> IF k = n + 1 THEN Extended(f[n], r[k]) ELSE f[k]]
  <2>2. ASSUME NEW k \in 0 .. n + 1
        PROVE  g[k] = IF k = 0 THEN << >> ELSE Extended(g[k - 1], r[k])
    <3>1. CASE k = n + 1
      <4>1. g[k - 1] = f[n]
        BY <3>1
      <4> QED
        BY <3>1, <4>1
    <3>2. CASE k \in 0 .. n
      <4>1. g[k] = f[k] /\ (k # 0 => g[k - 1] = f[k - 1])
        BY <3>2
      <4> QED
        BY <2>1, <3>2, <4>1
    <3> QED
      BY <3>1, <3>2
  <2>3. IsSent(g, r, n + 1)
    BY <2>2
  <2> HIDE DEF g, IsSent
  <2> QED
    BY <2>3
<1> HIDE DEF T, IsSent
<1>3. Nat \subseteq T
  BY <1>1, <1>2, Induction
<1> QED
  BY <1>3 DEF T

Stream == Conn!Sent[Len(requests)]

\* Sent is that stream: its recursive definition unfolds.
LEMMA SentUnfolds ==
    ASSUME requests \in Scripts
    PROVE  /\ Conn!Sent[0] = << >>
           /\ \A n \in 1 .. Len(requests) :
                 Conn!Sent[n] = Conn!Sent[n - 1] \o (requests[n].head \o requests[n].body)
<1>1. Len(requests) \in Nat
  BY ScriptsAssumption
<1>2. \E f : IsSent(f, requests, Len(requests))
  BY <1>1, SentExists
<1>3. IsSent(CHOOSE f : IsSent(f, requests, Len(requests)), requests, Len(requests))
  BY <1>2, Zenon
<1>4. Conn!Sent = CHOOSE f : IsSent(f, requests, Len(requests))
  BY Zenon DEF Conn!Sent, IsSent, Extended
<1>5. IsSent(Conn!Sent, requests, Len(requests))
  BY <1>3, <1>4, Zenon
<1>6. /\ Conn!Sent[0] = << >>
      /\ \A n \in 1 .. Len(requests) : Conn!Sent[n] = Extended(Conn!Sent[n - 1], requests[n])
  BY <1>1, <1>5 DEF IsSent
<1> QED
  BY <1>6, Zenon DEF Extended

\* The n-th request is a head and a body.
LEMMA ScriptTyped ==
    ASSUME requests \in Scripts, NEW n \in 1 .. Len(requests)
    PROVE  /\ Len(requests) \in Nat
           /\ requests[n].head \in Seq(Conn!Byte) /\ requests[n].body \in Seq(Conn!Byte)
           /\ Conn!IsHead(requests[n].head)
<1> DEFINE Request == [head : Seq(Conn!Byte), body : Seq(Conn!Byte), legal : BOOLEAN]
<1>1. requests \in Seq(Request)
  BY ScriptsAssumption, Zenon
<1>2. requests[n] \in Request /\ Len(requests) \in Nat
  <2> HIDE DEF Request
  <2> QED
    BY <1>1
<1> QED
  BY <1>1, <1>2, ScriptsAssumption

\* The stream is a sequence of bytes.
LEMMA SentTyped ==
    ASSUME requests \in Scripts, NEW n \in 0 .. Len(requests)
    PROVE  Conn!Sent[n] \in Seq(Conn!Byte)
<1> DEFINE T == {k \in Nat : k <= Len(requests) => Conn!Sent[k] \in Seq(Conn!Byte)}
<1>1. 0 \in T
  <2>1. Conn!Sent[0] = << >> /\ << >> \in Seq(Conn!Byte)
    BY SentUnfolds
  <2> QED
    BY <2>1, Zenon
<1>2. ASSUME NEW k \in Nat, k \in T
      PROVE  k + 1 \in T
  <2> SUFFICES ASSUME k + 1 <= Len(requests)
               PROVE  Conn!Sent[k + 1] \in Seq(Conn!Byte)
    OBVIOUS
  <2>0. Len(requests) \in Nat
    BY ScriptsAssumption
  <2>1. k + 1 \in 1 .. Len(requests) /\ (k + 1) - 1 = k /\ k <= Len(requests)
    BY <2>0
  <2>2. Conn!Sent[k + 1] = Conn!Sent[k] \o (requests[k + 1].head \o requests[k + 1].body)
    BY <2>1, SentUnfolds, Zenon
  <2>3. requests[k + 1].head \in Seq(Conn!Byte) /\ requests[k + 1].body \in Seq(Conn!Byte)
    BY <2>1, ScriptTyped
  <2>4. Conn!Sent[k] \in Seq(Conn!Byte)
    BY <1>2, <2>1
  <2> QED
    BY <2>2, <2>3, <2>4
<1> HIDE DEF T
<1>3. n \in T
  <2>1. n \in Nat
    BY ScriptsAssumption
  <2> QED
    BY <1>1, <1>2, <2>1, Induction
<1> QED
  BY <1>3, ScriptsAssumption DEF T

\* A request takes up the bytes of its head and of its body.
LEMMA ThroughNext ==
    ASSUME requests \in Scripts, NEW n \in 1 .. Len(requests)
    PROVE  /\ Conn!Through(n) \in Nat /\ Conn!Through(n - 1) \in Nat
           /\ Conn!Through(n) = Conn!Through(n - 1) + Len(requests[n].head) + Len(requests[n].body)
           /\ \A i \in 1 .. Conn!Through(n - 1) : Conn!Sent[n][i] = Conn!Sent[n - 1][i]
           /\ \A i \in 1 .. Len(requests[n].head) : Conn!Sent[n][Conn!Through(n - 1) + i] = requests[n].head[i]
<1> DEFINE b == Conn!Sent[n - 1]
           h == requests[n].head
           d == requests[n].body
<1>1. h \in Seq(Conn!Byte) /\ d \in Seq(Conn!Byte) /\ Len(requests) \in Nat
  BY ScriptTyped
<1>2. n - 1 \in 0 .. Len(requests) /\ n \in 0 .. Len(requests)
  BY <1>1
<1>3. b \in Seq(Conn!Byte) /\ Conn!Sent[n] \in Seq(Conn!Byte)
  BY <1>2, SentTyped
<1>4. Conn!Sent[n] = b \o (h \o d)
  BY SentUnfolds, Zenon
<1> HIDE DEF b, h, d
<1>5. h \o d \in Seq(Conn!Byte) /\ Len(h \o d) = Len(h) + Len(d) /\ \A i \in 1 .. Len(h) : (h \o d)[i] = h[i]
  BY <1>1
<1>6. /\ Len(b \o (h \o d)) = Len(b) + Len(h \o d)
      /\ \A i \in 1 .. Len(b) : (b \o (h \o d))[i] = b[i]
      /\ \A i \in 1 .. Len(h \o d) : (b \o (h \o d))[Len(b) + i] = (h \o d)[i]
  BY <1>3, <1>5
<1>7. Len(b) \in Nat /\ Len(h) \in Nat /\ Len(d) \in Nat
  BY <1>1, <1>3
<1>8. Conn!Through(n - 1) = Len(b) /\ Conn!Through(n) = Len(Conn!Sent[n])
  BY Zenon DEF Conn!Through, b
<1>9. /\ Conn!Through(n) \in Nat /\ Conn!Through(n - 1) \in Nat
      /\ Conn!Through(n) = Conn!Through(n - 1) + Len(h) + Len(d)
      /\ \A i \in 1 .. Conn!Through(n - 1) : Conn!Sent[n][i] = b[i]
      /\ \A i \in 1 .. Len(h) : Conn!Sent[n][Conn!Through(n - 1) + i] = h[i]
  <2> DEFINE e == h \o d
             w == b \o e
  <2>1. /\ Len(e) = Len(h) + Len(d) /\ (\A i \in 1 .. Len(h) : e[i] = h[i])
        /\ Len(w) = Len(b) + Len(e)
        /\ (\A i \in 1 .. Len(b) : w[i] = b[i]) /\ (\A i \in 1 .. Len(e) : w[Len(b) + i] = e[i])
        /\ Conn!Sent[n] = w
    BY <1>4, <1>5, <1>6, Zenon
  <2> HIDE DEF e, w
  <2>2. \A i \in 1 .. Len(h) : i \in 1 .. Len(e)
    BY <1>7, <2>1
  <2>3. Conn!Through(n) = Len(w) /\ Conn!Through(n - 1) = Len(b)
    BY <1>8, <2>1, Zenon
  <2>4. Len(w) \in Nat /\ Len(w) = Len(b) + Len(h) + Len(d)
    BY <1>7, <2>1
  <2>5. \A i \in 1 .. Len(h) : w[Len(b) + i] = h[i]
    BY <2>1, <2>2, Zenon
  <2> QED
    BY <1>7, <2>1, <2>3, <2>4, <2>5, Zenon
<1> QED
  BY <1>9, Zenon DEF b, h, d

\* What was sent with the first n requests is a prefix of the whole stream, and
\* the head of the next one follows it.
LEMMA StreamKeeps ==
    ASSUME requests \in Scripts, NEW n \in 0 .. Len(requests)
    PROVE  /\ Conn!Through(n) \in Nat /\ Conn!Total \in Nat /\ Conn!Through(n) <= Conn!Total
           /\ \A i \in 1 .. Conn!Through(n) : Stream[i] = Conn!Sent[n][i]
<1>0. Len(requests) \in Nat
  BY ScriptsAssumption
<1> DEFINE Kept(m) == /\ Conn!Through(n) <= Conn!Through(m)
                      /\ \A i \in 1 .. Conn!Through(n) : Conn!Sent[m][i] = Conn!Sent[n][i]
           T == {d \in Nat : n + d <= Len(requests) => Kept(n + d)}
<1>1. \A m \in 0 .. Len(requests) : Conn!Through(m) \in Nat
  BY <1>0, SentTyped DEF Conn!Through
<1>2. 0 \in T
  BY <1>0, <1>1
<1>3. ASSUME NEW d \in Nat, d \in T
      PROVE  d + 1 \in T
  <2> SUFFICES ASSUME n + (d + 1) <= Len(requests)
               PROVE  Kept(n + (d + 1))
    OBVIOUS
  <2> DEFINE m == n + (d + 1)
  <2>1. m \in 1 .. Len(requests) /\ m - 1 = n + d /\ n + d <= Len(requests)
    BY <1>0
  <2>2. Kept(m - 1)
    BY <1>3, <2>1
  <2> HIDE DEF m
  <2>3. m - 1 \in 0 .. Len(requests) /\ m \in 0 .. Len(requests)
    BY <1>0, <2>1
  <2>4. /\ Conn!Through(m) = Conn!Through(m - 1) + Len(requests[m].head) + Len(requests[m].body)
        /\ \A i \in 1 .. Conn!Through(m - 1) : Conn!Sent[m][i] = Conn!Sent[m - 1][i]
    BY <2>1, ThroughNext
  <2>5. Len(requests[m].head) \in Nat /\ Len(requests[m].body) \in Nat
    BY <2>1, ScriptTyped
  <2>6. Kept(m)
    <3>1. Conn!Through(m - 1) \in Nat /\ Conn!Through(n) \in Nat
      BY <1>1, <2>3
    <3>2. \A i \in 1 .. Conn!Through(n) : i \in 1 .. Conn!Through(m - 1)
      BY <2>2, <3>1
    <3>3. Conn!Through(n) <= Conn!Through(m)
      BY <2>2, <2>4, <2>5, <3>1
    <3> QED
      BY <2>2, <2>4, <3>2, <3>3, Zenon
  <2> QED
    BY <2>6 DEF m
<1> HIDE DEF T
<1>4. PICK d \in Nat : n + d = Len(requests)
  <2>1. Len(requests) - n \in Nat /\ n + (Len(requests) - n) = Len(requests)
    BY <1>0
  <2> QED
    BY <2>1, Zenon
<1>5. d \in T
  BY <1>2, <1>3, Induction
<1>6. Kept(Len(requests))
  BY <1>0, <1>4, <1>5 DEF T
<1> QED
  BY <1>0, <1>1, <1>6 DEF Conn!Total, Stream

\* Successive positions: their number, and how they split and join.
LEMMA PositionsSplit ==
    ASSUME NEW c \in Nat, NEW a \in Nat, c <= a
    PROVE  /\ Conn!Positions(c, a) \in Seq(Nat) /\ Len(Conn!Positions(c, a)) = a - c
           /\ \A i \in 1 .. a - c : Conn!Positions(c, a)[i] = c + i
           /\ \A b \in Nat : a <= b => Conn!Positions(c, a) \o Conn!Positions(a, b) = Conn!Positions(c, b)
           /\ \A k \in 0 .. a - c :
                 /\ SubSeq(Conn!Positions(c, a), 1, k) = Conn!Positions(c, c + k)
                 /\ SubSeq(Conn!Positions(c, a), k + 1, a - c) = Conn!Positions(c + k, a)
<1>1. \A f, t \in Nat : f <= t => /\ Conn!Positions(f, t) \in Seq(Nat) /\ Len(Conn!Positions(f, t)) = t - f
                                  /\ \A i \in 1 .. t - f : Conn!Positions(f, t)[i] = f + i
  BY DEF Conn!Positions
<1> DEFINE P(f, t) == Conn!Positions(f, t)
<1>2. ASSUME NEW b \in Nat, a <= b
      PROVE  P(c, a) \o P(a, b) = P(c, b)
  <2> DEFINE u == P(c, a)
             v == P(a, b)
             w == P(c, b)
  <2>0. c <= b
    BY <1>2
  <2>1. u \in Seq(Nat) /\ Len(u) = a - c /\ \A i \in 1 .. a - c : u[i] = c + i
    BY <1>1
  <2>2. v \in Seq(Nat) /\ Len(v) = b - a /\ \A i \in 1 .. b - a : v[i] = a + i
    BY <1>1, <1>2
  <2>3. w \in Seq(Nat) /\ Len(w) = b - c /\ \A i \in 1 .. b - c : w[i] = c + i
    BY <1>1, <2>0
  <2> HIDE DEF u, v, w
  <2>4a. /\ u \o v \in Seq(Nat) /\ Len(u \o v) = Len(u) + Len(v)
         /\ \A i \in 1 .. Len(u) + Len(v) : (u \o v)[i] = IF i <= Len(u) THEN u[i] ELSE v[i - Len(u)]
    BY <2>1, <2>2, ConcatProperties, Zenon
  <2> DEFINE uv == u \o v
  <2> HIDE DEF uv
  <2>4. uv \in Seq(Nat) /\ Len(uv) = b - c /\ \A i \in 1 .. b - c : uv[i] = IF i <= a - c THEN u[i] ELSE v[i - (a - c)]
    BY <1>2, <2>1, <2>2, <2>4a DEF uv
  <2>5. ASSUME NEW i \in 1 .. b - c
        PROVE  uv[i] = w[i]
    <3>1. CASE i \in 1 .. a - c
      BY <2>1, <2>3, <2>4, <3>1
    <3>2. CASE i - (a - c) \in 1 .. b - a
      <4>1. uv[i] = v[i - (a - c)]
        BY <2>4, <3>2
      <4>2. v[i - (a - c)] = a + (i - (a - c))
        BY <2>2, <3>2
      <4> QED
        BY <2>3, <4>1, <4>2
    <3>3. i \in 1 .. a - c \/ i - (a - c) \in 1 .. b - a
      BY <1>2
    <3> QED
      BY <3>1, <3>2, <3>3
  <2>6. uv = w
    BY <2>3, <2>4, <2>5, SeqEqual
  <2> QED
    BY <2>6 DEF u, v, w, uv
<1>3. ASSUME NEW k \in 0 .. a - c
      PROVE  /\ SubSeq(P(c, a), 1, k) = P(c, c + k)
             /\ SubSeq(P(c, a), k + 1, a - c) = P(c + k, a)
  <2> DEFINE s == P(c, a)
  <2>0. c + k \in Nat /\ c <= c + k /\ c + k <= a
    OBVIOUS
  <2>1. s \in Seq(Nat) /\ Len(s) = a - c /\ \A i \in 1 .. a - c : s[i] = c + i
    BY <1>1
  <2>2. P(c, c + k) \in Seq(Nat) /\ Len(P(c, c + k)) = k /\ \A i \in 1 .. k : P(c, c + k)[i] = c + i
    BY <1>1, <2>0
  <2>3. /\ P(c + k, a) \in Seq(Nat) /\ Len(P(c + k, a)) = a - (c + k)
        /\ \A i \in 1 .. a - (c + k) : P(c + k, a)[i] = (c + k) + i
    BY <1>1, <2>0
  <2> HIDE DEF P, s
  <2>4. SubSeq(s, 1, k) \in Seq(Nat) /\ Len(SubSeq(s, 1, k)) = k /\ \A i \in 1 .. k : SubSeq(s, 1, k)[i] = s[i]
    BY <2>1
  <2>5. SubSeq(s, 1, k) = P(c, c + k)
    BY <2>1, <2>2, <2>4, SeqEqual
  <2>6. /\ SubSeq(s, k + 1, a - c) \in Seq(Nat) /\ Len(SubSeq(s, k + 1, a - c)) = a - (c + k)
        /\ \A i \in 1 .. a - (c + k) : SubSeq(s, k + 1, a - c)[i] = s[k + i]
    BY <2>1
  <2>7. \A i \in 1 .. a - (c + k) : s[k + i] = (c + k) + i
    BY <2>1
  <2>8. SubSeq(s, k + 1, a - c) = P(c + k, a)
    <3> DEFINE u == SubSeq(s, k + 1, a - c)
               v == P(c + k, a)
    <3>1. u \in Seq(Nat) /\ v \in Seq(Nat) /\ Len(u) = Len(v)
      BY <2>3, <2>6
    <3>2. \A i \in 1 .. Len(u) : u[i] = v[i]
      <4> HIDE DEF u, v
      <4> QED
        BY <2>3, <2>6, <2>7 DEF u, v
    <3> HIDE DEF u, v
    <3>3. u = v
      BY <3>1, <3>2, SeqEqual
    <3> QED
      BY <3>3 DEF u, v
  <2> QED
    BY <2>5, <2>8 DEF s
<1> QED
  BY <1>1, <1>2, <1>3, Zenon

\* The bytes that arrived are those taken for requests, in order, and then the
\* buffer.
Accounted ==
    /\ requests \in Scripts /\ begun \in 0 .. Len(requests)
    /\ arrived \in 0 .. Conn!Total
    /\ Len(taken) \in 0 .. arrived
    /\ taken = Conn!Positions(0, Len(taken))
    /\ buffer = Conn!Positions(Len(taken), arrived)

\* The bytes of a buffer are the stream from where the taken ones end.
LEMMA BytesTyped ==
    ASSUME Accounted, NEW a \in arrived .. Conn!Total, NEW retained, retained = Conn!Positions(Len(taken), a)
    PROVE  /\ Len(retained) = a - Len(taken) /\ Len(retained) \in Nat /\ a \in Nat /\ Len(taken) \in Nat
           /\ Conn!BytesAt(retained) \in Seq(Conn!Byte)
           /\ Len(Conn!BytesAt(retained)) = Len(retained)
           /\ \A i \in 1 .. Len(retained) : Conn!BytesAt(retained)[i] = Stream[Len(taken) + i]
<1>1. Conn!Total \in Nat /\ Len(requests) \in Nat
  <2>1. Len(requests) \in Nat
    BY ScriptsAssumption DEF Accounted
  <2>2. 0 \in 0 .. Len(requests)
    BY <2>1
  <2> QED
    BY <2>1, <2>2, StreamKeeps DEF Accounted
<1>2. Stream \in Seq(Conn!Byte) /\ Len(Stream) = Conn!Total
  <2>1. Len(requests) \in 0 .. Len(requests)
    BY <1>1
  <2>2. Conn!Sent[Len(requests)] \in Seq(Conn!Byte)
    BY <2>1, SentTyped DEF Accounted
  <2> QED
    BY <2>2 DEF Stream, Conn!Total, Conn!Through
<1>3. a \in Nat /\ Len(taken) \in Nat /\ Len(taken) <= a /\ a <= Conn!Total
  BY <1>1 DEF Accounted
<1>4. /\ retained \in Seq(Nat) /\ Len(retained) = a - Len(taken)
      /\ \A i \in 1 .. a - Len(taken) : retained[i] = Len(taken) + i
  BY <1>3, PositionsSplit, Zenon
<1>5. DOMAIN retained = 1 .. Len(retained) /\ Len(retained) \in Nat
  BY <1>4
<1>6. \A i \in 1 .. Len(retained) : retained[i] \in 1 .. Len(Stream) /\ retained[i] = Len(taken) + i
  BY <1>1, <1>2, <1>3, <1>4
<1>7. \A i \in 1 .. Len(retained) : Stream[retained[i]] \in Conn!Byte
  <2> HIDE DEF Stream
  <2> QED
    BY <1>2, <1>6
<1>8. Conn!BytesAt(retained) = [i \in 1 .. Len(retained) |-> Stream[retained[i]]]
  BY <1>5 DEF Conn!BytesAt, Stream
<1> QED
  BY <1>3, <1>4, <1>5, <1>6, <1>7, <1>8

\* In bytes that begin with a head, or that a head begins with, the first empty
\* line is the end of that head.
LEMMA FirstEmptyLine ==
    ASSUME NEW in \in Seq(Conn!Byte), NEW h, Conn!IsHead(h),
           \A i \in 1 .. Len(h) : i <= Len(in) => in[i] = h[i]
    PROVE  /\ Len(h) \in Nat /\ Len(h) > 0
           /\ Len(h) <= Len(in) => Conn!EmptyLine(in, Len(h))
           /\ \A j \in 1 .. Len(in) : Conn!EmptyLine(in, j) /\ NoEmptyLine(in, j - 1) => j = Len(h)
<1>1. Len(h) \in Nat /\ Len(h) > 0
  BY DEF Conn!IsHead
<1>2. \A k \in 1 .. Len(h) : Conn!EmptyLine(h, k) <=> k = Len(h)
  BY DEF Conn!IsHead
<1>3. Len(in) \in Nat
  OBVIOUS
<1>4. ASSUME NEW k \in 1 .. Len(h), k <= Len(in)
      PROVE  Conn!EmptyLine(in, k) <=> k = Len(h)
  <2>1. k \in Nat /\ \A i \in 1 .. k : in[i] = h[i]
    BY <1>1, <1>3, <1>4
  <2>2. k \in 1 .. k
    BY <1>1
  <2>3. Conn!EmptyLine(in, k) <=> Conn!EmptyLine(h, k)
    BY <2>1, <2>2, PrefixDecides
  <2> QED
    BY <1>2, <2>3
<1>5. Len(h) \in 1 .. Len(h)
  BY <1>1
<1>6. ASSUME NEW j \in 1 .. Len(in), Conn!EmptyLine(in, j), NoEmptyLine(in, j - 1)
      PROVE  j = Len(h)
  <2>1. CASE j <= Len(h)
    BY <1>1, <1>3, <1>4, <1>6, <2>1
  <2>2. CASE Len(h) < j
    <3>1. Len(h) <= Len(in) /\ Len(h) \in 1 .. j - 1
      BY <1>1, <1>3, <2>2
    <3>2. Conn!EmptyLine(in, Len(h))
      BY <1>4, <1>5, <3>1
    <3> QED
      BY <1>6, <3>1, <3>2 DEF NoEmptyLine
  <2> QED
    BY <1>1, <2>1, <2>2
<1> QED
  BY <1>1, <1>4, <1>5, <1>6

\* The outcomes of one look at the buffer, for a next head of k bytes: the head
\* is taken, or it is too large, or it has not all arrived.
Cut(retained, k) ==
    /\ begun < Len(requests)
    /\ k \in 0 .. Len(retained) /\ k <= MaxHead
    /\ taken' = taken \o SubSeq(retained, 1, k)
    /\ buffer' = SubSeq(retained, k + 1, Len(retained))
    /\ begun' = begun + 1 /\ scan' = Conn!Fresh /\ pc' \in {"exchange", "reply"}

Refused(retained, k) ==
    /\ buffer' = retained /\ taken' = taken /\ begun' = begun /\ pc' = "too large"
    /\ begun < Len(requests) /\ k > MaxHead

Awaited(retained, k) ==
    /\ buffer' = retained /\ taken' = taken /\ begun' = begun /\ pc' = "read"
    /\ Len(retained) <= MaxHead /\ NoEmptyLine(Conn!BytesAt(retained), Len(retained))
    /\ scan' = Mark(Conn!BytesAt(retained), Len(retained))
    /\ begun < Len(requests) => Len(retained) < k

\* A look at a buffer that begins at a request, with a scan that has seen some
\* of its bytes, takes that request's head or refuses or awaits it.
LEMMA ScanStep ==
    ASSUME Accounted, Len(taken) = Conn!Through(begun),
           NEW a \in arrived .. Conn!Total, NEW retained, retained = Conn!Positions(Len(taken), a),
           NEW m \in 0 .. Len(retained), m <= MaxHead,
           NoEmptyLine(Conn!BytesAt(retained), m), scan = Mark(Conn!BytesAt(retained), m),
           Conn!Scan(retained),
           NEW k, k = Len(requests[begun + 1].head)
    PROVE  Cut(retained, k) \/ Refused(retained, k) \/ Awaited(retained, k)
<1> DEFINE in == Conn!BytesAt(retained)
           seen == Conn!HeadLen(scan, in)
           h == requests[begun + 1].head
<1>1. /\ Len(retained) = a - Len(taken) /\ Len(retained) \in Nat /\ a \in Nat /\ Len(taken) \in Nat
      /\ in \in Seq(Conn!Byte) /\ Len(in) = Len(retained)
      /\ \A i \in 1 .. Len(retained) : in[i] = Stream[Len(taken) + i]
  BY BytesTyped
<1>2. \/ seen.out = "Head" /\ Conn!Take(retained, seen.scan.length)
      \/ /\ seen.out # "Head"
         /\ buffer' = retained /\ scan' = seen.scan
         /\ pc' = IF seen.out = "Limit" THEN "too large" ELSE "read"
         /\ UNCHANGED <<taken, begun>>
  BY Zenon DEF Conn!Scan
<1>3. seen = Conn!HeadLen(Mark(in, m), in)
  OBVIOUS
<1>3a. NoEmptyLine(in, m) /\ m \in 0 .. Len(in)
  BY <1>1
<1> HIDE DEF in, seen
<1>4. \/ /\ seen.out = "Head"
         /\ \E j \in 1 .. Len(in) : /\ j <= MaxHead /\ seen.scan.length = j
                                    /\ Conn!EmptyLine(in, j) /\ NoEmptyLine(in, j - 1)
      \/ /\ seen.out = "Limit"
         /\ Len(in) > MaxHead /\ NoEmptyLine(in, MaxHead)
      \/ /\ seen.out = "More"
         /\ Len(in) <= MaxHead /\ NoEmptyLine(in, Len(in))
         /\ seen.scan = Mark(in, Len(in))
  BY <1>1, <1>3, <1>3a, HeadLenFinds
<1>5. Len(requests) \in Nat /\ begun \in Nat /\ begun <= Len(requests) /\ MaxHead \in Nat
  BY ScriptsAssumption, BoundsAssumption DEF Accounted
<1>6. CASE begun < Len(requests)
  <2>1. begun + 1 \in 1 .. Len(requests) /\ (begun + 1) - 1 = begun /\ begun + 1 \in 0 .. Len(requests)
    BY <1>5, <1>6
  <2>2. Conn!IsHead(h) /\ h \in Seq(Conn!Byte) /\ Len(requests[begun + 1].body) \in Nat
    BY <2>1, ScriptTyped DEF Accounted
  <2>3. /\ Conn!Through(begun + 1) = Conn!Through(begun) + Len(h) + Len(requests[begun + 1].body)
        /\ \A i \in 1 .. Len(h) : Conn!Sent[begun + 1][Conn!Through(begun) + i] = h[i]
    BY <2>1, ThroughNext DEF Accounted
  <2>4. \A i \in 1 .. Conn!Through(begun + 1) : Stream[i] = Conn!Sent[begun + 1][i]
    BY <2>1, StreamKeeps DEF Accounted
  <2> HIDE DEF h
  <2>5. \A i \in 1 .. Len(h) : i <= Len(in) => in[i] = h[i]
    <3> TAKE i \in 1 .. Len(h)
    <3> HAVE i <= Len(in)
    <3>1. i \in 1 .. Len(retained) /\ Len(h) \in Nat
      BY <1>1, <2>2
    <3>2. in[i] = Stream[Conn!Through(begun) + i]
      BY <1>1, <3>1
    <3>3. Conn!Through(begun) + i \in 1 .. Conn!Through(begun + 1)
      BY <1>1, <2>2, <2>3, <3>1
    <3> QED
      BY <2>3, <2>4, <3>2, <3>3, Zenon
  <2>6. /\ Len(h) \in Nat /\ Len(h) > 0
        /\ Len(h) <= Len(in) => Conn!EmptyLine(in, Len(h))
        /\ \A j \in 1 .. Len(in) : Conn!EmptyLine(in, j) /\ NoEmptyLine(in, j - 1) => j = Len(h)
    BY <1>1, <2>2, <2>5, FirstEmptyLine
  <2>7. \A n \in Nat : NoEmptyLine(in, n) /\ n <= Len(in) => n < Len(h)
    BY <1>1, <2>6 DEF NoEmptyLine
  <2>8. CASE seen.out = "Head"
    <3>1. seen.scan.length = Len(h) /\ Len(h) <= MaxHead /\ Len(h) \in 0 .. Len(retained)
      BY <1>1, <1>4, <2>6, <2>8
    <3>2. Conn!Take(retained, Len(h))
      BY <1>2, <2>8, <3>1
    <3> QED
      BY <1>6, <3>1, <3>2 DEF Conn!Take, h, Cut
  <2>9. CASE seen.out = "Limit"
    <3>1. Len(h) > MaxHead
      BY <1>1, <1>4, <1>5, <2>6, <2>7, <2>9
    <3> QED
      BY <1>2, <1>6, <2>9, <3>1, Zenon DEF h, Refused
  <2>10. CASE seen.out = "More"
    <3>1. Len(retained) < Len(h)
      BY <1>1, <1>4, <2>6, <2>7, <2>10
    <3> QED
      BY <1>1, <1>2, <1>4, <2>10, <3>1, Zenon DEF in, h, Awaited
  <2> QED
    BY <1>4, <2>8, <2>9, <2>10, Zenon
<1>7. CASE begun = Len(requests)
  <2>1. Len(in) = 0
    BY <1>1, <1>7 DEF Conn!Total
  <2>2. seen.out = "More"
    BY <1>4, <1>5, <2>1
  <2>3. Len(in) <= MaxHead /\ NoEmptyLine(in, Len(in)) /\ seen.scan = Mark(in, Len(in)) /\ Len(in) = Len(retained)
    BY <1>1, <1>4, <2>2
  <2>4. pc' = "read" /\ buffer' = retained /\ scan' = seen.scan /\ UNCHANGED <<taken, begun>>
    BY <1>2, <2>2
  <2>5. ~(begun < Len(requests))
    BY <1>5, <1>7
  <2> QED
    BY <2>3, <2>4, <2>5 DEF in, Awaited
<1>8. begun < Len(requests) \/ begun = Len(requests)
  BY <1>5
<1> QED
  BY <1>6, <1>7, <1>8, Zenon

\* The bytes taken end with a request.
AtBoundary == Len(taken) = Conn!Through(begun)

\* The bytes taken end with the head of the current request.
AfterHead ==
    /\ begun # 0
    /\ Len(taken) = Conn!Through(begun - 1) + Len(requests[begun].head)
    /\ Len(requests[begun].head) <= MaxHead

TooLarge == begun < Len(requests) /\ Len(requests[begun + 1].head) > MaxHead

\* The buffer holds part of the next head, and the scan has seen all of it.
Incomplete ==
    /\ begun < Len(requests) => Len(buffer) < Len(requests[begun + 1].head)
    /\ Len(buffer) <= MaxHead
    /\ NoEmptyLine(Conn!BytesAt(buffer), Len(buffer))
    /\ scan = Mark(Conn!BytesAt(buffer), Len(buffer))

\* Where in the stream the loop is, at each of its steps.
Located ==
    /\ pc \in {"top", "read", "settle"} => AtBoundary
    /\ pc = "closing" /\ can_recover => AtBoundary
    /\ returned \in {"Recovered", "Upgraded"} => AtBoundary /\ pc = "done"
    /\ pc \in {"exchange", "reply"} => AfterHead
    /\ pc = "too large" => TooLarge
    /\ pc = "read" => Incomplete
    /\ pc \in {"top", "exchange"} => scan = Conn!Fresh

\* The inductive invariant of the loop.
TransportInv == Accounted /\ Located

SentOf(r) == CHOOSE f : IsSent(f, r, Len(r))

\* The stream is fixed with the requests.
LEMMA SentStays ==
    ASSUME requests' = requests
    PROVE  Conn!Sent' = Conn!Sent /\ Conn!Total' = Conn!Total /\ Stream' = Stream
<1>1. Conn!Sent = SentOf(requests)
  BY Zenon DEF Conn!Sent, IsSent, Extended, SentOf
<1>2. Conn!Sent' = SentOf(requests')
  BY Zenon DEF Conn!Sent, IsSent, Extended, SentOf
<1>3. Conn!Sent' = Conn!Sent
  BY <1>1, <1>2
<1> QED
  BY <1>3 DEF Conn!Total, Conn!Through, Stream

\* Taking k of the retained bytes accounts for them.
LEMMA Consumes ==
    ASSUME Accounted, NEW a \in arrived .. Conn!Total, NEW retained, retained = Conn!Positions(Len(taken), a),
           NEW k \in 0 .. Len(retained),
           taken' = taken \o SubSeq(retained, 1, k), buffer' = SubSeq(retained, k + 1, Len(retained)),
           arrived' = a, requests' = requests, begun' \in 0 .. Len(requests)
    PROVE  Accounted' /\ Len(taken') = Len(taken) + k /\ Len(taken) \in Nat
<1> DEFINE c == Len(taken)
<1>1. Conn!Total \in Nat /\ arrived \in Nat
  <2>1. 0 \in 0 .. Len(requests) /\ requests \in Scripts
    BY ScriptsAssumption DEF Accounted
  <2> QED
    BY <2>1, StreamKeeps DEF Accounted
<1>2. c \in Nat /\ a \in Nat /\ c <= a /\ 0 <= c /\ a \in 0 .. Conn!Total /\ taken = Conn!Positions(0, c)
  BY <1>1 DEF Accounted
<1> HIDE DEF c
<1>3. Len(retained) = a - c /\ c + k \in Nat /\ c <= c + k /\ c + k <= a /\ k \in 0 .. a - c
  <2>1. Len(retained) = a - c
    BY <1>2, PositionsSplit, Zenon DEF c
  <2> QED
    BY <1>2, <2>1
<1>4. /\ SubSeq(retained, 1, k) = Conn!Positions(c, c + k)
      /\ SubSeq(retained, k + 1, a - c) = Conn!Positions(c + k, a)
  BY <1>2, <1>3, PositionsSplit, Zenon DEF c
<1>5. Conn!Positions(0, c) \o Conn!Positions(c, c + k) = Conn!Positions(0, c + k)
  BY <1>2, <1>3, PositionsSplit, Zenon
<1>6. taken' = Conn!Positions(0, c + k) /\ buffer' = Conn!Positions(c + k, a)
  BY <1>2, <1>3, <1>4, <1>5, Zenon
<1>7. Len(taken') = c + k
  <2>1. 0 <= c + k /\ (c + k) - 0 = c + k
    BY <1>3
  <2> QED
    BY <1>3, <1>6, <2>1, PositionsSplit, Zenon
<1>8. Conn!Total' = Conn!Total
  BY SentStays
<1>9. Conn!Positions(0, Len(taken))' = Conn!Positions(0, Len(taken')) /\ Conn!Positions(Len(taken), arrived)' = Conn!Positions(Len(taken'), a)
  BY DEF Conn!Positions
<1>10. Accounted'
  <2>1. requests' \in Scripts /\ begun' \in 0 .. Len(requests')
    BY DEF Accounted
  <2>2. arrived' \in 0 .. Conn!Total' /\ Len(taken') \in 0 .. arrived'
    BY <1>2, <1>3, <1>7, <1>8
  <2>3. taken' = Conn!Positions(0, Len(taken))' /\ buffer' = Conn!Positions(Len(taken), arrived)'
    BY <1>6, <1>7, <1>9, Zenon
  <2> QED
    BY <2>1, <2>2, <2>3, Zenon DEF Accounted
<1> QED
  BY <1>2, <1>7, <1>10 DEF c

\* Keeping what a read brought accounts for it.
LEMMA Retains ==
    ASSUME Accounted, NEW a \in arrived .. Conn!Total,
           buffer' = Conn!Positions(Len(taken), a), taken' = taken, arrived' = a,
           requests' = requests, begun' = begun
    PROVE  Accounted'
<1>1. Conn!Total' = Conn!Total
  BY SentStays
<1>2. Conn!Positions(0, Len(taken))' = Conn!Positions(0, Len(taken)) /\ Conn!Positions(Len(taken), arrived)' = Conn!Positions(Len(taken), a)
  BY DEF Conn!Positions
<1>3. Conn!Total \in Nat
  <2>1. 0 \in 0 .. Len(requests) /\ requests \in Scripts
    BY ScriptsAssumption DEF Accounted
  <2> QED
    BY <2>1, StreamKeeps DEF Accounted
<1> QED
  BY <1>1, <1>2, <1>3 DEF Accounted

\* A look at the buffer, by the top of the loop or after a read, keeps the
\* invariant.
LEMMA StillIncomplete ==
    ASSUME Accounted, AtBoundary, NEW a \in arrived .. Conn!Total, NEW retained,
           retained = Conn!Positions(Len(taken), a), arrived' = a,
           NEW m \in 0 .. Len(retained), m <= MaxHead,
           NoEmptyLine(Conn!BytesAt(retained), m), scan = Mark(Conn!BytesAt(retained), m),
           Conn!Scan(retained), UNCHANGED <<requests, returned, can_recover>>,
           returned \notin {"Recovered", "Upgraded"}
    PROVE  TransportInv'
<1> DEFINE k == Len(requests[begun + 1].head)
<1>1. Cut(retained, k) \/ Refused(retained, k) \/ Awaited(retained, k)
  BY ScanStep DEF AtBoundary
<1> USE DEF Cut, Refused, Awaited
<1>2. Conn!Sent' = Conn!Sent
  BY SentStays
<1>3. begun \in Nat /\ Len(requests) \in Nat /\ begun <= Len(requests)
  BY ScriptsAssumption DEF Accounted
<1>4. CASE Cut(retained, k)
  <2>1. begun' \in 0 .. Len(requests) /\ begun' # 0 /\ begun' - 1 = begun /\ requests' = requests
    BY <1>3, <1>4
  <2>2. Accounted' /\ Len(taken') = Len(taken) + k
    BY <1>4, <2>1, Consumes, Zenon
  <2>3. Conn!Through(begun - 1)' = Conn!Through(begun)
    BY <1>2, <2>1 DEF Conn!Through
  <2>4. requests'[begun'].head = requests[begun + 1].head
    BY <1>4
  <2> HIDE DEF k
  <2>5. AfterHead'
    BY <1>4, <2>1, <2>2, <2>3, <2>4 DEF AfterHead, AtBoundary, k
  <2> QED
    BY <1>4, <2>2, <2>5, Zenon DEF TransportInv, Located
<1>5. CASE Refused(retained, k) \/ Awaited(retained, k)
  <2>1. Accounted'
    BY <1>5, Retains, Zenon
  <2>2. AtBoundary'
    BY <1>2, <1>5, Zenon DEF AtBoundary, Conn!Through
  <2>3. CASE Refused(retained, k)
    <3>1. TooLarge'
      BY <2>3, Zenon DEF TooLarge
    <3> QED
      BY <2>1, <2>3, <3>1, Zenon DEF TransportInv, Located
  <2>4. CASE Awaited(retained, k)
    <3>1. Conn!BytesAt(buffer)' = Conn!BytesAt(retained)
      BY <1>2, <2>4 DEF Conn!BytesAt
    <3>2. Incomplete'
      BY <2>4, <3>1 DEF Incomplete
    <3> QED
      BY <2>1, <2>2, <2>4, <3>2 DEF TransportInv, Located
  <2> QED
    BY <1>5, <2>3, <2>4, Zenon
<1> QED
  BY <1>1, <1>4, <1>5, Zenon

Still == UNCHANGED <<requests, arrived, buffer, scan, taken, begun>>

\* A step that leaves the bytes alone leaves the loop where it is.
LEMMA StillLocated ==
    ASSUME Accounted, Still
    PROVE  /\ Accounted'
           /\ AtBoundary => AtBoundary'
           /\ AfterHead => AfterHead'
           /\ TooLarge => TooLarge'
           /\ Incomplete => Incomplete'
<1> USE DEF Still
<1>1. Conn!Sent' = Conn!Sent /\ Conn!Total' = Conn!Total
  BY SentStays
<1>2. Conn!Positions(0, Len(taken))' = Conn!Positions(0, Len(taken)) /\ Conn!Positions(Len(taken), arrived)' = Conn!Positions(Len(taken), arrived)
  BY DEF Conn!Positions
<1>3. Accounted'
  BY <1>1, <1>2, Zenon DEF Accounted
<1>4. Conn!Through(begun)' = Conn!Through(begun) /\ Conn!Through(begun - 1)' = Conn!Through(begun - 1)
  BY <1>1, Zenon DEF Conn!Through
<1>5. Conn!BytesAt(buffer)' = Conn!BytesAt(buffer)
  BY <1>1, Zenon DEF Conn!BytesAt
<1> QED
  BY <1>3, <1>4, <1>5 DEF AtBoundary, AfterHead, TooLarge, Incomplete

\* What n more bytes make of the buffer: the next n of the stream are appended.
LEMMA ReceivedIs ==
    ASSUME Accounted, NEW n \in Nat, arrived + n <= Conn!Total
    PROVE  /\ Conn!Received(n) = Conn!Positions(Len(taken), arrived + n)
           /\ arrived + n \in arrived .. Conn!Total
           /\ Len(Conn!Received(n)) = Len(buffer) + n /\ Len(buffer) \in Nat
           /\ \A i \in 1 .. Len(buffer) : Conn!BytesAt(Conn!Received(n))[i] = Conn!BytesAt(buffer)[i]
<1>0. Conn!Total \in Nat
  <2>1. 0 \in 0 .. Len(requests) /\ requests \in Scripts
    BY ScriptsAssumption DEF Accounted
  <2> QED
    BY <2>1, StreamKeeps
<1>1. /\ arrived \in Nat /\ Len(taken) \in Nat /\ Len(taken) <= arrived
      /\ arrived + n \in Nat /\ arrived <= arrived + n
      /\ arrived + n \in arrived .. Conn!Total /\ arrived \in arrived .. Conn!Total
      /\ buffer = Conn!Positions(Len(taken), arrived)
  BY <1>0 DEF Accounted
<1>2. Conn!Received(n) = Conn!Positions(Len(taken), arrived + n)
  BY <1>1, PositionsSplit, Zenon DEF Conn!Received
<1>3. /\ Len(buffer) = arrived - Len(taken)
      /\ \A i \in 1 .. Len(buffer) : Conn!BytesAt(buffer)[i] = Stream[Len(taken) + i]
  BY <1>1, BytesTyped, Zenon
<1>4. /\ Len(Conn!Received(n)) = (arrived + n) - Len(taken)
      /\ \A i \in 1 .. Len(Conn!Received(n)) : Conn!BytesAt(Conn!Received(n))[i] = Stream[Len(taken) + i]
  BY <1>1, <1>2, BytesTyped, Zenon
<1>5. Len(buffer) \in Nat /\ Len(Conn!Received(n)) = Len(buffer) + n
  BY <1>1, <1>3, <1>4
<1>6. \A i \in 1 .. Len(buffer) : i \in 1 .. Len(Conn!Received(n))
  BY <1>5
<1> QED
  BY <1>1, <1>2, <1>3, <1>4, <1>5, <1>6

\* An idle read that brings bytes keeps the invariant: the scan resumes with
\* what it has seen.
LEMMA ReadKeeps ==
    ASSUME TransportInv, NEW n \in Nat, Conn!ReadData(n)
    PROVE  TransportInv'
<1> DEFINE retained == Conn!Received(n)
           m == Len(buffer)
<1>1. /\ pc = "read" /\ arrived + n <= Conn!Total /\ arrived' = arrived + n
      /\ UNCHANGED <<requests, can_recover>>
  BY DEF Conn!ReadData
<1>2. Accounted /\ AtBoundary /\ Incomplete /\ returned \notin {"Recovered", "Upgraded"}
  BY <1>1 DEF TransportInv, Located
<1>3. /\ retained = Conn!Positions(Len(taken), arrived + n)
      /\ arrived + n \in arrived .. Conn!Total
      /\ Len(retained) = m + n /\ m \in Nat
      /\ \A i \in 1 .. m : Conn!BytesAt(retained)[i] = Conn!BytesAt(buffer)[i]
  BY <1>1, <1>2, ReceivedIs
<1>4. \/ Conn!Scan(retained) /\ UNCHANGED returned
      \/ /\ pc' = "done" /\ returned' = "Timeout"
         /\ buffer' = retained /\ UNCHANGED <<scan, taken, begun>>
  BY DEF Conn!ReadData, Conn!Return
<1> HIDE DEF retained
<1>5. CASE Conn!Scan(retained) /\ UNCHANGED returned
  <2>1. m \in 0 .. m /\ m \in 0 .. Len(retained)
    BY <1>3
  <2>2. /\ NoEmptyLine(Conn!BytesAt(retained), m) <=> NoEmptyLine(Conn!BytesAt(buffer), m)
        /\ Mark(Conn!BytesAt(retained), m) = Mark(Conn!BytesAt(buffer), m)
    <3> DEFINE new == Conn!BytesAt(retained)
               old == Conn!BytesAt(buffer)
    <3>1. m \in Nat /\ \A i \in 1 .. m : new[i] = old[i]
      BY <1>3
    <3> HIDE DEF new, old, m
    <3>2. /\ \A k \in 0 .. m : NoEmptyLine(new, k) <=> NoEmptyLine(old, k)
          /\ \A k \in 0 .. m : Mark(new, k) = Mark(old, k)
      BY <3>1, PrefixDecides, Zenon
    <3> QED
      BY <2>1, <3>2, Zenon DEF new, old
  <2>3. /\ m <= MaxHead /\ NoEmptyLine(Conn!BytesAt(retained), m)
        /\ scan = Mark(Conn!BytesAt(retained), m)
    BY <1>2, <2>2 DEF Incomplete
  <2> HIDE DEF m
  <2> QED
    BY <1>1, <1>2, <1>3, <1>5, <2>1, <2>3, StillIncomplete
<1>6. CASE /\ pc' = "done" /\ returned' = "Timeout"
           /\ buffer' = retained /\ UNCHANGED <<scan, taken, begun>>
  <2>1. Accounted'
    BY <1>1, <1>2, <1>3, <1>6, Retains
  <2> QED
    BY <1>6, <2>1, Zenon DEF TransportInv, Located
<1> QED
  BY <1>4, <1>5, <1>6

\* So does the top of the loop.
LEMMA TopKeeps == TransportInv /\ Conn!Top => TransportInv'
<1> SUFFICES ASSUME TransportInv, Conn!Top
             PROVE  TransportInv'
  OBVIOUS
<1>1. pc = "top" /\ UNCHANGED <<can_recover, requests, arrived, returned>>
  BY DEF Conn!Top, Conn!bytes, Conn!Break
<1>2. Accounted /\ AtBoundary /\ scan = Conn!Fresh /\ returned \notin {"Recovered", "Upgraded"}
  BY <1>1 DEF TransportInv, Located
<1>3. CASE pc' = "closing" /\ UNCHANGED <<buffer, scan, taken, begun>>
  <2>1. Accounted' /\ AtBoundary'
    BY <1>1, <1>2, <1>3, StillLocated DEF Still
  <2> QED
    BY <1>1, <1>2, <1>3, <2>1 DEF TransportInv, Located
<1>4. CASE Conn!Scan(buffer)
  <2>1. buffer = Conn!Positions(Len(taken), arrived) /\ arrived \in arrived .. Conn!Total /\ Len(buffer) \in Nat
    <3>1. 0 \in 0 .. Len(requests) /\ requests \in Scripts
      BY <1>2, ScriptsAssumption DEF Accounted
    <3>2. Conn!Total \in Nat
      BY <3>1, StreamKeeps
    <3>3. buffer = Conn!Positions(Len(taken), arrived) /\ arrived \in arrived .. Conn!Total
      BY <1>2, <3>2 DEF Accounted
    <3> QED
      BY <1>2, <3>3, BytesTyped
  <2>2. /\ 0 \in 0 .. Len(buffer) /\ 0 <= MaxHead /\ NoEmptyLine(Conn!BytesAt(buffer), 0)
        /\ scan = Mark(Conn!BytesAt(buffer), 0)
    BY <1>2, <2>1, BoundsAssumption DEF NoEmptyLine, Mark, LineAt, Conn!Fresh
  <2> QED
    BY <1>1, <1>2, <1>4, <2>1, <2>2, StillIncomplete
<1> QED
  BY <1>3, <1>4 DEF Conn!Top, Conn!Break, Conn!bytes

\* An exchange takes bytes of the current body only; when it takes them all, the
\* next request begins where it ends.
LEMMA ExchangedKeeps ==
    ASSUME TransportInv, NEW n \in Nat, NEW k \in Nat, Conn!Exchanged(n, k)
    PROVE  /\ Accounted' /\ returned \notin {"Recovered", "Upgraded"} /\ scan' = Conn!Fresh
           /\ k = Conn!BodySize => AtBoundary'
<1>1. /\ pc = "exchange" /\ arrived + n <= Conn!Total /\ arrived' = arrived + n
      /\ k <= Conn!Min({Conn!BodySize, Len(buffer) + n})
      /\ taken' = taken \o SubSeq(Conn!Received(n), 1, k)
      /\ buffer' = SubSeq(Conn!Received(n), k + 1, Len(buffer) + n)
      /\ UNCHANGED <<requests, scan, begun>>
  BY DEF Conn!Exchanged
<1>2. Accounted /\ AfterHead /\ scan = Conn!Fresh /\ returned \notin {"Recovered", "Upgraded"}
  BY <1>1 DEF TransportInv, Located
<1>3. begun \in 1 .. Len(requests) /\ requests \in Scripts /\ begun \in 0 .. Len(requests)
  BY <1>2, ScriptsAssumption DEF Accounted, AfterHead
<1>4. Conn!BodySize \in Nat
  <2>1. requests[begun].body \in Seq(Conn!Byte)
    BY <1>3, ScriptTyped
  <2> QED
    BY <2>1 DEF Conn!BodySize
<1>5. /\ Conn!Received(n) = Conn!Positions(Len(taken), arrived + n)
      /\ arrived + n \in arrived .. Conn!Total
      /\ Len(Conn!Received(n)) = Len(buffer) + n /\ Len(buffer) \in Nat
  BY <1>1, <1>2, ReceivedIs
<1>6. k \in 0 .. Len(buffer) + n /\ Len(buffer) + n \in Nat
  <2> DEFINE size == Conn!BodySize
             whole == Len(buffer) + n
  <2>1. size \in Nat /\ whole \in Nat /\ k <= Conn!Min({size, whole})
    BY <1>1, <1>4, <1>5
  <2> HIDE DEF size, whole
  <2>2. Conn!Min({size, whole}) = IF size <= whole THEN size ELSE whole
    BY <2>1, MinOfTwo
  <2>3. k \in 0 .. whole
    BY <2>1, <2>2
  <2> QED
    BY <2>1, <2>3 DEF whole
<1>7. Accounted' /\ Len(taken') = Len(taken) + k /\ Len(taken) \in Nat
  <2>1. /\ k \in 0 .. Len(Conn!Received(n))
        /\ buffer' = SubSeq(Conn!Received(n), k + 1, Len(Conn!Received(n)))
        /\ begun' \in 0 .. Len(requests) /\ requests' = requests
    BY <1>1, <1>3, <1>5, <1>6, Zenon
  <2> QED
    BY <1>1, <1>2, <1>5, <2>1, Consumes, Zenon
<1>8. ASSUME k = Conn!BodySize
      PROVE  AtBoundary'
  <2>1. Conn!Through(begun) = Conn!Through(begun - 1) + Len(requests[begun].head) + k
    BY <1>3, <1>8, ThroughNext DEF Conn!BodySize
  <2>2. Conn!Through(begun)' = Conn!Through(begun)
    BY <1>1, SentStays DEF Conn!Through
  <2> QED
    BY <1>2, <1>7, <2>1, <2>2 DEF AtBoundary, AfterHead
<1> QED
  BY <1>1, <1>2, <1>7, <1>8

\* No step of the loop or of the driver breaks the invariant.
LEMMA TransportNext == TransportInv /\ [DriverNext]_all => TransportInv'
<1> SUFFICES ASSUME TransportInv, [DriverNext]_all
             PROVE  TransportInv'
  OBVIOUS
<1>0. Accounted /\ Located
  BY DEF TransportInv
<1>1. CASE UNCHANGED connection
  <2>1. Still /\ UNCHANGED <<pc, can_recover, returned>>
    BY <1>1 DEF connection, Still
  <2> QED
    BY <1>0, <2>1, StillLocated, Zenon DEF TransportInv, Located, Still
<1>2. ASSUME NEW n \in 1 .. Preferred, Conn!ReadData(n)
      PROVE  TransportInv'
  <2>1. n \in Nat
    BY BoundsAssumption
  <2> QED
    BY <1>2, <2>1, ReadKeeps
<1>3. CASE Conn!ReadEof
  <2>1. Still /\ pc = "read" /\ UNCHANGED can_recover
    BY <1>3 DEF Conn!ReadEof, Conn!bytes, Still
  <2>2. (pc' = "closing" /\ UNCHANGED returned) \/ (pc' = "done" /\ returned' = "InvalidMessage")
    BY <1>3 DEF Conn!ReadEof, Conn!Break, Conn!Return
  <2> QED
    BY <1>0, <2>1, <2>2, StillLocated, Zenon DEF TransportInv, Located
<1>4. ASSUME NEW why \in Conn!Failures, Conn!ReadFails(why) \/ Conn!SettleFails(why)
      PROVE  TransportInv'
  <2>1. Still /\ pc' = "done" /\ returned' = why /\ why \in {"Io", "Timeout"}
    BY <1>4 DEF Conn!ReadFails, Conn!SettleFails, Conn!Return, Conn!bytes, Conn!Failures, Still
  <2> QED
    BY <1>0, <2>1, StillLocated, Zenon DEF TransportInv, Located
<1>5. CASE Conn!StopWins
  <2>1. Still /\ pc = "read" /\ pc' = "settle" /\ UNCHANGED <<can_recover, returned>>
    BY <1>5 DEF Conn!StopWins, Conn!bytes, Still
  <2> QED
    BY <1>0, <2>1, StillLocated DEF TransportInv, Located
<1>6. CASE Conn!Top
  BY <1>6, TopKeeps
<1>7. CASE Conn!Reply
  <2>1. Still /\ pc' = "done" /\ returned' \in {"InvalidMessage", "Limit"}
    BY <1>7, Zenon DEF Conn!Reply, Conn!Return, Conn!bytes, Still
  <2> QED
    BY <1>0, <2>1, StillLocated, Zenon DEF TransportInv, Located
<1>8. CASE Conn!Close
  <2>1. Still /\ pc = "closing" /\ pc' = "done"
    BY <1>8 DEF Conn!Close, Conn!Return, Conn!bytes, Still
  <2>2. (can_recover /\ returned' = "Recovered") \/ returned' \in {"Closed", "Io"}
    BY <1>8 DEF Conn!Close, Conn!Return
  <2> QED
    BY <1>0, <2>1, <2>2, StillLocated DEF TransportInv, Located
<1>9. ASSUME NEW n \in 0 .. Preferred, Conn!SettleRead(n)
      PROVE  TransportInv'
  <2>1. /\ pc = "settle" /\ arrived + n <= Conn!Total /\ arrived' = arrived + n /\ buffer' = Conn!Received(n)
        /\ pc' = "closing" /\ UNCHANGED <<requests, taken, begun, can_recover, returned>>
    BY <1>9 DEF Conn!SettleRead, Conn!Settled, Conn!Break
  <2>2. n \in Nat
    BY BoundsAssumption
  <2>3. Conn!Received(n) = Conn!Positions(Len(taken), arrived + n) /\ arrived + n \in arrived .. Conn!Total
    BY <1>0, <2>1, <2>2, ReceivedIs
  <2>4. Accounted'
    BY <1>0, <2>1, <2>3, Retains
  <2>5. AtBoundary'
    BY <1>0, <2>1, SentStays DEF Located, AtBoundary, Conn!Through
  <2> QED
    BY <1>0, <2>1, <2>4, <2>5 DEF TransportInv, Located
<1>10. Conn!Total \in Nat
  <2>1. 0 \in 0 .. Len(requests) /\ requests \in Scripts
    BY <1>0, ScriptsAssumption DEF Accounted
  <2> QED
    BY <2>1, StreamKeeps
<1>11. ASSUME NEW n \in 0 .. Conn!Total, Conn!ExchangeReusable(n) \/ Conn!ExchangeHandsOff(n)
       PROVE  TransportInv'
  <2>1. Conn!Exchanged(n, Conn!BodySize) /\ n \in Nat
    BY <1>10, <1>11 DEF Conn!ExchangeReusable, Conn!ExchangeHandsOff
  <2>2. Conn!BodySize \in Nat
    <3>1. pc = "exchange"
      BY <2>1 DEF Conn!Exchanged
    <3>2. begun \in 1 .. Len(requests) /\ requests \in Scripts
      BY <1>0, <3>1, ScriptsAssumption DEF Accounted, Located, AfterHead
    <3>3. requests[begun].body \in Seq(Conn!Byte)
      BY <3>2, ScriptTyped
    <3> QED
      BY <3>3 DEF Conn!BodySize
  <2>3. Accounted' /\ returned \notin {"Recovered", "Upgraded"} /\ scan' = Conn!Fresh /\ AtBoundary'
    BY <2>1, <2>2, ExchangedKeeps
  <2>4. (pc' = "top" /\ UNCHANGED returned) \/ (pc' = "done" /\ returned' = "Upgraded")
    BY <1>11 DEF Conn!ExchangeReusable, Conn!ExchangeHandsOff, Conn!Return
  <2> QED
    BY <2>3, <2>4, Zenon DEF TransportInv, Located
<1>12. ASSUME NEW n \in 0 .. Conn!Total, NEW k \in 0 .. Conn!Total, Conn!ExchangeCloses(n, k) \/ Conn!ExchangeFails(n, k)
       PROVE  TransportInv'
  <2>1. Conn!Exchanged(n, k) /\ n \in Nat /\ k \in Nat
    BY <1>10, <1>12 DEF Conn!ExchangeCloses, Conn!ExchangeFails
  <2>2. Accounted' /\ returned \notin {"Recovered", "Upgraded"} /\ (k = Conn!BodySize => AtBoundary')
    BY <2>1, ExchangedKeeps
  <2>3. \/ pc' = "closing" /\ UNCHANGED returned /\ (can_recover' => k = Conn!BodySize)
        \/ pc' = "done" /\ returned' = "ExchangeFailed"
    BY <1>12, Zenon DEF Conn!ExchangeCloses, Conn!ExchangeFails, Conn!Return, Conn!Break, Conn!Recoverable
  <2> QED
    BY <2>2, <2>3, Zenon DEF TransportInv, Located
<1>13. CASE Requested \/ ClockTicks \/ DriverPolled \/ DriverDropped \/ AwaitStop \/ UNCHANGED all
  BY <1>1, <1>13 DEF Requested, ClockTicks, DriverPolled, DriverDropped, AwaitStop, all
<1>14. CASE ReadEnds \/ StopObserved \/ Advance \/ ExchangeEnds
  BY <1>2, <1>3, <1>4, <1>5, <1>6, <1>7, <1>8, <1>11, <1>12, <1>14
     DEF ReadEnds, StopObserved, Advance, ExchangeEnds
<1>15. ASSUME NEW n \in 0 .. Preferred, SettleIdleRead(n)
       PROVE  TransportInv'
  BY <1>9, <1>15 DEF SettleIdleRead
<1>16. ASSUME NEW why \in Conn!Failures, IdleReadFails(why)
       PROVE  TransportInv'
  BY <1>4, <1>16 DEF IdleReadFails
<1>17. ASSUME NEW n \in 0 .. Conn!Total, NEW k \in 0 .. Conn!Total, ExchangeFails(n, k)
       PROVE  TransportInv'
  BY <1>12, <1>17 DEF ExchangeFails
<1> QED
  BY <1>13, <1>14, <1>15, <1>16, <1>17, Zenon DEF DriverNext

\* A new connection satisfies it.
LEMMA TransportInit == DriverInit => TransportInv
<1> SUFFICES ASSUME DriverInit
             PROVE  TransportInv
  OBVIOUS
<1>1. /\ requests \in Scripts /\ arrived = 0 /\ buffer = << >> /\ scan = Conn!Fresh /\ taken = << >>
      /\ begun = 0 /\ pc = "top" /\ returned = "none"
  BY DEF DriverInit, Conn!Init
<1>2. Len(requests) \in Nat /\ Len(taken) = 0 /\ 0 \in 0 .. Len(requests)
  BY <1>1, ScriptsAssumption
<1>3. Conn!Total \in Nat
  BY <1>1, <1>2, StreamKeeps
<1>4. Conn!Positions(0, 0) = << >>
  BY DEF Conn!Positions
<1>5. Accounted
  BY <1>1, <1>2, <1>3, <1>4 DEF Accounted
<1>6. AtBoundary
  BY <1>1, <1>2, SentUnfolds DEF AtBoundary, Conn!Through
<1> QED
  BY <1>1, <1>5, <1>6 DEF TransportInv, Located

\* It implies that the transport is whole.
LEMMA TransportInvWhole == TransportInv => TransportIsWhole
<1> SUFFICES ASSUME TransportInv
             PROVE  TransportIsWhole
  OBVIOUS
<1>1. Conn!Total \in Nat
  <2>1. 0 \in 0 .. Len(requests) /\ requests \in Scripts
    BY ScriptsAssumption DEF TransportInv, Accounted
  <2> QED
    BY <2>1, StreamKeeps
<1>2. taken \o buffer = Conn!Positions(0, arrived)
  <2>1. 0 \in Nat /\ Len(taken) \in Nat /\ 0 <= Len(taken) /\ arrived \in Nat /\ Len(taken) <= arrived
    BY <1>1 DEF TransportInv, Accounted
  <2>2. Conn!Positions(0, Len(taken)) \o Conn!Positions(Len(taken), arrived) = Conn!Positions(0, arrived)
    BY <2>1, PositionsSplit, Zenon
  <2>3. taken = Conn!Positions(0, Len(taken)) /\ buffer = Conn!Positions(Len(taken), arrived)
    BY DEF TransportInv, Accounted
  <2> QED
    BY <2>2, <2>3, Zenon
<1>3. Conn!TransportIsWhole
  BY <1>2, Zenon DEF Conn!TransportIsWhole, TransportInv, Located, AtBoundary
<1>4. Conn!HeadsAreExact
  <2>1. begun \in 0 .. Len(requests) /\ Len(requests) \in Nat
    BY ScriptsAssumption DEF TransportInv, Accounted
  <2>2. begun = Len(requests) \/ begun < Len(requests)
    BY <2>1
  <2>3. pc \in {"exchange", "reply"} =>
            /\ Len(taken) = Conn!Through(begun - 1) + Len(requests[begun].head)
            /\ Len(requests[begun].head) <= MaxHead
    BY Zenon DEF TransportInv, Located, AfterHead
  <2>4. pc = "read" => \/ begun = Len(requests)
                       \/ Len(buffer) < Len(requests[begun + 1].head) /\ Len(buffer) <= MaxHead
    BY <2>2, Zenon DEF TransportInv, Located, Incomplete
  <2>5. pc = "too large" => Len(requests[begun + 1].head) > MaxHead
    BY Zenon DEF TransportInv, Located, TooLarge
  <2> QED
    BY <2>3, <2>4, <2>5, Zenon DEF Conn!HeadsAreExact
<1> QED
  BY <1>3, <1>4 DEF TransportIsWhole

\* However the peer's bytes are split over reads and whenever a shutdown is
\* requested, no byte is lost, duplicated or reordered, every head is cut off at
\* its end or refused for its size, and a transport that is recovered or handed
\* over to an upgrade begins after the last request served.
THEOREM TransportAlwaysWhole == DriverSpec => []TransportIsWhole
  BY TransportInit, TransportNext, TransportInvWhole, PTL DEF DriverSpec
=============================================================================
