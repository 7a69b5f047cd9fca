------------------------------ MODULE Control ------------------------------
(***************************************************************************)
(* ConnectionControl of src/src/connection.rs: shutdown requests made from *)
(* any task, the abort watcher (abort_requested) that the driver polls     *)
(* ahead of the connection, and drive, which turns a request into the      *)
(* result of run().  The connection itself is a future that completes when *)
(* it wants and that can be cancelled; its buffers are recovered only by   *)
(* polling it to completion.                                               *)
(***************************************************************************)
EXTENDS Integers

CONSTANT Horizon    \* bound on the clock and on the deadlines requested

ASSUME HorizonAssumption == Horizon \in Nat

NoDeadline == -1

VARIABLES
    mode,       \* Shutdown: "Running", "Graceful" or "Aborted"
    deadline,   \* Shutdown::Graceful's deadline
    now,        \* the clock
    armed,      \* the deadline of the watcher's timer
    slot,       \* ControlState.driver is registered
    woken,      \* the driver task was woken since its last poll
    fired,      \* what the watcher resolved to: "no", "Canceled" or "Timeout"
    work,       \* the connection future: "pending" or its result
    result,     \* what drive returned: "none" until then
    idleSlot,   \* ControlState.idle is registered
    idle,       \* a stopped() wait: "none", "waiting" or "ready"
    idleWoken,  \* it was woken since its last poll
    requested,  \* history: deadlines requested before any abort
    aborts      \* history: abort() was called

request == <<requested, aborts>>
waiting == <<idleSlot, idle, idleWoken>>
vars == <<mode, deadline, now, armed, slot, woken, fired, work, result, waiting, request>>

Times == 0 .. Horizon

Init ==
    /\ mode = "Running" /\ deadline = NoDeadline /\ now = 0 /\ armed = NoDeadline
    /\ slot = FALSE /\ woken = TRUE
    /\ fired = "no" /\ work = "pending" /\ result = "none"
    /\ idleSlot = FALSE /\ idle = "none" /\ idleWoken = FALSE
    /\ requested = {} /\ aborts = FALSE

LatestWins(old, new) == IF new # NoDeadline THEN new ELSE old

Earliest(old, new) ==
    CASE old = NoDeadline -> new
      [] new = NoDeadline -> old
      [] OTHER -> IF old <= new THEN old ELSE new

\* Shutdown::graceful
GracefulMode == IF mode = "Aborted" THEN "Aborted" ELSE "Graceful"

GracefulDeadline(new) ==
    CASE mode = "Aborted" -> deadline
      [] mode = "Running" -> new
      [] mode = "Graceful" -> Earliest(deadline, new)

\* ConnectionControl::wake
Wake ==
    /\ slot' = FALSE /\ idleSlot' = FALSE
    /\ woken' = (woken \/ slot)
    /\ idleWoken' = (idleWoken \/ (idleSlot /\ idle = "waiting"))

\* graceful_shutdown (no deadline) and graceful_shutdown_with_deadline
Graceful(d) ==
    /\ mode' = GracefulMode /\ deadline' = GracefulDeadline(d)
    /\ Wake
    /\ requested' = IF d = NoDeadline \/ mode = "Aborted" THEN requested ELSE requested \cup {d}
    /\ UNCHANGED <<now, armed, fired, work, result, idle, aborts>>

Abort ==
    /\ mode' = "Aborted"
    /\ Wake
    /\ aborts' = TRUE
    /\ UNCHANGED <<deadline, now, armed, fired, work, result, idle, requested>>

\* Time passes; the timer of a waiting watcher wakes its task.
Tick ==
    /\ now < Horizon
    /\ now' = now + 1
    /\ woken' = (woken \/ (result = "none" /\ fired = "no" /\ armed # NoDeadline /\ armed <= now + 1))
    /\ UNCHANGED <<mode, deadline, armed, slot, fired, work, result, waiting, request>>

\* The connection completes.  "canceled" is an error that is_canceled: the answer
\* to a cancellation, or one of the connection's own, as when a client drops
\* the response it was waiting for.
Complete(r) ==
    /\ work = "pending" /\ result = "none"
    /\ work' = r /\ woken' = TRUE
    /\ UNCHANGED <<mode, deadline, now, armed, slot, fired, result, waiting, request>>

-----------------------------------------------------------------------------
(* The driver task. *)

\* The Guard of drive: the request and the wake-up at its end.
Finish(r) ==
    /\ result' = r
    /\ mode' = GracefulMode /\ deadline' = GracefulDeadline(NoDeadline)
    /\ Wake

ReportShutdown(kind) == kind

\* A failure of the connection is kept, anything else becomes the reason of
\* the shutdown, even a result that completed in the meantime.
Reported(kind) == IF work = "failed" THEN "failed" ELSE kind

\* A connection that ends before the watcher fires decides the result alone.
OwnResult == IF work = "canceled" THEN "Canceled" ELSE work

\* sleep_until of the current deadline is ready.
Expired == mode = "Graceful" /\ deadline # NoDeadline /\ deadline <= now

ArmOnce == IF armed # NoDeadline THEN armed ELSE deadline

ArmNever == NoDeadline

\* The deadline the watcher's timer is set for.
Armed == IF mode = "Graceful" THEN deadline ELSE NoDeadline

\* abort_requested pends: it registers the driver and arms a timer for the
\* deadline it saw.
WatcherPends ==
    /\ fired = "no" /\ mode # "Aborted" /\ ~Expired
    /\ armed' = Armed
    /\ UNCHANGED fired
    /\ \/ /\ work # "pending"
          /\ Finish(OwnResult)
       \/ /\ work = "pending"
          /\ slot' = TRUE /\ woken' = FALSE
          /\ UNCHANGED <<mode, deadline, result, idleSlot, idleWoken>>

\* abort_requested sees the abort; the connection is cancelled and polled.
WatcherCancels ==
    /\ fired = "no" /\ mode = "Aborted"
    /\ fired' = "Canceled" /\ armed' = NoDeadline
    /\ \/ /\ work # "pending"
          /\ Finish(Reported("Canceled"))
       \/ /\ work = "pending"
          /\ slot' = TRUE /\ woken' = FALSE
          /\ UNCHANGED <<mode, deadline, result, idleSlot, idleWoken>>

\* The timer expires: the watcher itself requests the abort, wakes everyone
\* (its own task included), and the connection is cancelled and polled.
WatcherExpires ==
    /\ fired = "no" /\ Expired
    /\ fired' = "Timeout" /\ armed' = NoDeadline
    /\ mode' = "Aborted"
    /\ slot' = FALSE /\ woken' = TRUE /\ idleSlot' = FALSE
    /\ idleWoken' = (idleWoken \/ (idleSlot /\ idle = "waiting"))
    /\ result' = IF work = "pending" THEN result ELSE Reported("Timeout")
    /\ UNCHANGED deadline

\* After the watcher resolved only the connection is polled.
AwaitCancelled ==
    /\ fired # "no"
    /\ \/ /\ work # "pending"
          /\ Finish(Reported(fired))
       \/ /\ work = "pending"
          /\ woken' = FALSE
          /\ UNCHANGED <<mode, deadline, result, slot, idleSlot, idleWoken>>
    /\ UNCHANGED <<fired, armed>>

PollDriver ==
    /\ result = "none"
    /\ WatcherPends \/ WatcherCancels \/ WatcherExpires \/ AwaitCancelled
    /\ UNCHANGED <<now, work, idle, request>>

\* The driver future is dropped without having returned.
DropDriver ==
    /\ result = "none"
    /\ Finish("dropped")
    /\ UNCHANGED <<now, armed, fired, work, idle, request>>

\* ConnectionControl::stopped, polled by an idle server connection.
PollStopped ==
    /\ idle \in {"none", "waiting"}
    /\ idleWoken' = FALSE
    /\ \/ /\ mode # "Running"
          /\ idle' = "ready"
          /\ UNCHANGED idleSlot
       \/ /\ mode = "Running"
          /\ idleSlot' = TRUE /\ idle' = "waiting"
    /\ UNCHANGED <<mode, deadline, now, armed, slot, woken, fired, work, result, request>>

Next ==
    \/ \E d \in Times \cup {NoDeadline} : Graceful(d)
    \/ Abort \/ Tick \/ PollDriver \/ DropDriver \/ PollStopped
    \/ \E r \in {"ok", "failed", "canceled"} : Complete(r)

Spec == Init /\ [][Next]_vars

-----------------------------------------------------------------------------
TypeOK ==
    /\ mode \in {"Running", "Graceful", "Aborted"}
    /\ deadline \in Times \cup {NoDeadline} /\ armed \in Times \cup {NoDeadline}
    /\ now \in Times
    /\ slot \in BOOLEAN /\ woken \in BOOLEAN
    /\ fired \in {"no", "Canceled", "Timeout"}
    /\ work \in {"pending", "ok", "failed", "canceled"}
    /\ result \in {"none", "ok", "failed", "Canceled", "Timeout", "dropped"}
    /\ idleSlot \in BOOLEAN /\ idleWoken \in BOOLEAN
    /\ idle \in {"none", "waiting", "ready"}
    /\ requested \in SUBSET Times /\ aborts \in BOOLEAN

\* "Repeated requests retain the earliest deadline", whatever their order and
\* however they mix with requests that have none.
EarliestDeadlineKept ==
    mode = "Graceful" =>
        IF requested = {} THEN deadline = NoDeadline
        ELSE deadline \in requested /\ \A d \in requested : deadline <= d

Escalates ==
    /\ mode = "Aborted" => mode' = "Aborted"
    /\ mode # "Running" => mode' # "Running"
    /\ mode = "Graceful" /\ deadline # NoDeadline /\ mode' = "Graceful" =>
           deadline' # NoDeadline /\ deadline' <= deadline

\* A shutdown is never taken back or postponed.
ShutdownOnlyEscalates == [][Escalates]_vars

\* run() says Timeout only after a requested deadline passed, and Canceled only
\* after abort() or when the connection ended so before any of them was seen:
\* the reason is not confused when several happen.
ReasonIsTrue ==
    /\ fired = "Timeout" => \E d \in requested : d <= now
    /\ fired = "Canceled" => aborts
    /\ result = "Timeout" => fired = "Timeout"
    /\ result = "Canceled" => fired = "Canceled" \/ (fired = "no" /\ work = "canceled")

\* "unless an originating failure is retained", and a connection that was told
\* to abort never reports success.
FailureRetained ==
    /\ result = "ok" => fired = "no"
    /\ result # "none" /\ result # "dropped" /\ work = "failed" => result = "failed"

\* A driver that sleeps has seen the current request: no abort is pending, and
\* its timer is set for the current deadline and has not expired.
DriverNotStranded ==
    result = "none" /\ ~woken =>
        /\ work = "pending"
        /\ fired = "no" => /\ slot
                           /\ mode # "Aborted"
                           /\ mode = "Graceful" => armed = deadline
                           /\ armed # NoDeadline => now < armed

\* A stopped() wait never sleeps through a shutdown request.
IdleNotStranded == idle = "waiting" /\ ~idleWoken => mode = "Running" /\ idleSlot

\* After abort() the driver returns.
AbortEndsDriver == (mode = "Aborted") ~> (result # "none")

\* A deadline, once requested, bounds the driver.
DeadlineEndsDriver == (requested # {}) ~> (result # "none")

\* What run() reports of any connection is true: the reason of its end, and a
\* failure of the connection ahead of it.
ReportIsTrue == ReasonIsTrue /\ FailureRetained

\* Neither the driver nor an idle connection sleeps through a request.
NobodyStranded == DriverNotStranded /\ IdleNotStranded

\* An abort and a passed deadline both end the driver.
RequestsEndDriver == AbortEndsDriver /\ DeadlineEndsDriver
=============================================================================
