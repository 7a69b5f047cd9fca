---------------------------- MODULE ClientDriver ----------------------------
(***************************************************************************)
(* The client connection between exchanges (run and run_inner of           *)
(* proto/h1/client.rs) and the completion receipts it publishes            *)
(* (client/completion.rs).  A receipt's guard travels with its job: in the *)
(* admission queue, in the driver's terminal slot, and through the final   *)
(* shutdown; wherever it is dropped it reports the driver as lost.         *)
(*                                                                         *)
(* An exchange is reduced to the outcome ClientExchange gives it,          *)
(* admission to whether a job may be queued.                               *)
(***************************************************************************)
EXTENDS Naturals, Sequences, FiniteSets

CONSTANTS Jobs, None

ASSUME JobsAssumption == None \notin Jobs

VARIABLES
    job,        \* life of each job
    open,       \* admission can accept a job
    senders,    \* a SendRequest exists
    stopping,   \* shutdown was requested
    abort,      \* drive is cancelling the connection
    recovering, \* the connection runs without local shutdown
    driver,     \* where run_inner is
    terminal,   \* the job whose guard the driver holds
    verdict,    \* the outcome it would publish
    recoverable,\* can_recover
    transport,  \* where the transport went
    inner,      \* the result of run_inner
    result,     \* the result of run
    published,  \* the values published for each job
    pending,    \* CompletionState.result
    receipt,    \* the application's ExchangeCompletion
    waker,      \* CompletionState.waker is registered
    woken       \* the receipt's task was woken since its last poll

admission == <<open, senders, stopping, abort>>
outcome == <<verdict, recoverable, transport, inner, result>>
receipts == <<published, pending, receipt, waker, woken>>
vars == <<job, admission, recovering, driver, terminal, outcome, receipts>>

Reasons == {"MessagePolicy", "BodyAbandonment", "UploadAbort", "Shutdown", "ApplicationClosure"}
Published == Reasons \cup {"Reusable", "Upgraded", "Error", "DriverLost"}

TypeOK ==
    /\ job \in [Jobs -> {"unsent", "queued", "active", "done"}]
    /\ open \in BOOLEAN /\ senders \in BOOLEAN /\ stopping \in BOOLEAN
    /\ abort \in BOOLEAN /\ recovering \in BOOLEAN
    /\ driver \in {"next", "exchange", "closing", "finished", "gone"}
    /\ terminal \in Jobs \cup {None}
    /\ verdict \in Reasons \cup {"Upgraded"}
    /\ recoverable \in BOOLEAN
    /\ transport \in {"driver", "shut", "recovered", "handed", "lost"}
    /\ inner \in {"none", "Closed", "Recovered", "Upgraded", "Error"}
    /\ result \in {"none", "Closed", "Recovered", "Upgraded", "Error", "dropped"}
    /\ published \in [Jobs -> Seq(Published)]
    /\ pending \in [Jobs -> Published \cup {None}]
    /\ receipt \in [Jobs -> {"untaken", "held", "resolved", "dropped"}]
    /\ waker \in [Jobs -> BOOLEAN] /\ woken \in [Jobs -> BOOLEAN]

Init ==
    /\ job = [j \in Jobs |-> "unsent"]
    /\ open = TRUE /\ senders = TRUE /\ stopping = FALSE /\ abort = FALSE
    /\ recovering \in BOOLEAN
    /\ driver = "next" /\ terminal = None /\ verdict = "MessagePolicy"
    /\ recoverable = TRUE /\ transport = "driver" /\ inner = "none" /\ result = "none"
    /\ published = [j \in Jobs |-> <<>>]
    /\ pending = [j \in Jobs |-> None]
    /\ receipt = [j \in Jobs |-> "untaken"]
    /\ waker = [j \in Jobs |-> FALSE] /\ woken = [j \in Jobs |-> FALSE]

-----------------------------------------------------------------------------
\* Receipts

PublishQuietly(values) ==
    /\ published' = [j \in Jobs |-> IF j \in DOMAIN values THEN Append(published[j], values[j]) ELSE published[j]]
    /\ pending' = [j \in Jobs |->
           IF j \in DOMAIN values /\ receipt[j] # "dropped" THEN values[j] ELSE pending[j]]
    /\ UNCHANGED <<waker, woken, receipt>>

\* CompletionGuard::publish for every job in the domain of values
Publish(values) ==
    /\ published' = [j \in Jobs |-> IF j \in DOMAIN values THEN Append(published[j], values[j]) ELSE published[j]]
    /\ pending' = [j \in Jobs |->
           IF j \in DOMAIN values /\ receipt[j] # "dropped" THEN values[j] ELSE pending[j]]
    /\ waker' = [j \in Jobs |-> waker[j] /\ j \notin DOMAIN values]
    /\ woken' = [j \in Jobs |-> woken[j] \/ (waker[j] /\ j \in DOMAIN values)]
    /\ UNCHANGED receipt

For(j, value) == [i \in {j} \ {None} |-> value]

\* PendingResponse::take_completion; the receipt is polled from then on.
TakeReceipt(j) ==
    /\ job[j] # "unsent" /\ receipt[j] = "untaken"
    /\ receipt' = [receipt EXCEPT ![j] = "held"]
    /\ woken' = [woken EXCEPT ![j] = TRUE]
    /\ UNCHANGED <<job, admission, recovering, driver, terminal, outcome, published, pending, waker>>

PollReceipt(j) ==
    /\ receipt[j] = "held"
    /\ woken' = [woken EXCEPT ![j] = FALSE]
    /\ \/ /\ pending[j] # None
          /\ receipt' = [receipt EXCEPT ![j] = "resolved"]
          /\ pending' = [pending EXCEPT ![j] = None]
          /\ waker' = [waker EXCEPT ![j] = FALSE]
       \/ /\ pending[j] = None
          /\ waker' = [waker EXCEPT ![j] = TRUE]
          /\ UNCHANGED <<receipt, pending>>
    /\ UNCHANGED <<job, admission, recovering, driver, terminal, outcome, published>>

DropReceipt(j) ==
    /\ receipt[j] = "held"
    /\ receipt' = [receipt EXCEPT ![j] = "dropped"]
    /\ pending' = [pending EXCEPT ![j] = None]
    /\ waker' = [waker EXCEPT ![j] = FALSE]
    /\ woken' = [woken EXCEPT ![j] = FALSE]
    /\ UNCHANGED <<job, admission, recovering, driver, terminal, outcome, published>>

-----------------------------------------------------------------------------
\* Senders and shutdown

Submit(j) ==
    /\ job[j] = "unsent" /\ senders /\ open /\ ~stopping
    /\ job' = [job EXCEPT ![j] = "queued"]
    /\ open' = FALSE
    /\ UNCHANGED <<senders, stopping, abort, recovering, driver, terminal, outcome, receipts>>

DropSenders ==
    /\ senders
    /\ senders' = FALSE
    /\ UNCHANGED <<job, open, stopping, abort, recovering, driver, terminal, outcome, receipts>>

\* graceful_shutdown, or abort seen by drive
Stop(aborting) ==
    /\ driver \notin {"finished", "gone"}
    /\ stopping' = TRUE /\ abort' = (abort \/ aborting)
    /\ UNCHANGED <<job, open, senders, recovering, driver, terminal, outcome, receipts>>

-----------------------------------------------------------------------------
\* run_inner

Queued == {j \in Jobs : job[j] = "queued"}

\* drop(requests)
CloseAdmission == open' = FALSE

\* requests.next(): a queued job is taken even while stopping.
NextJob(j) == job[j] = "queued"

TakeJob(j) ==
    /\ driver = "next" /\ NextJob(j)
    /\ job' = [job EXCEPT ![j] = "active"]
    /\ driver' = "exchange" /\ terminal' = j /\ verdict' = "MessagePolicy"
    /\ UNCHANGED <<admission, recovering, recoverable, transport, inner, result, receipts>>

\* next() has nothing and never will: leave the loop and close admission.
NoMoreJobs ==
    /\ driver = "next" /\ Queued = {}
    /\ stopping \/ ~senders
    /\ driver' = "closing" /\ CloseAdmission
    /\ UNCHANGED <<job, senders, stopping, abort, recovering, terminal, outcome, receipts>>

Fails ==
    /\ inner' = "Error" /\ driver' = "finished" /\ CloseAdmission
    /\ UNCHANGED <<job, terminal, verdict, recoverable, transport, receipts>>

\* A failed exchange, or unsolicited data after a complete response.
ExchangeFails ==
    /\ driver = "exchange"
    /\ Fails
    /\ UNCHANGED <<senders, stopping, abort, recovering, result>>

\* The transport leaves with the upgrade, claimed or not.
ExchangeHandsOff ==
    /\ driver = "exchange"
    /\ CloseAdmission /\ transport' = "handed" /\ verdict' = "Upgraded"
    /\ inner' = "Upgraded" /\ driver' = "finished"
    /\ UNCHANGED <<job, senders, stopping, abort, recovering, terminal, recoverable, result, receipts>>

RecoverAlways(reason) == TRUE

RecoverableAfter(reason) == reason \notin {"BodyAbandonment", "UploadAbort"}

ExchangeCloses(reason) ==
    /\ driver = "exchange"
    /\ reason \in {"MessagePolicy", "BodyAbandonment", "UploadAbort"}
    /\ recoverable' = RecoverableAfter(reason) /\ verdict' = reason
    /\ driver' = "closing" /\ CloseAdmission
    /\ UNCHANGED <<job, senders, stopping, abort, recovering, terminal, transport, inner, result, receipts>>

\* terminal.take()
ReleaseGuard == terminal' = None

\* Receiver::release
MayRelease == ~stopping /\ senders

\* A reusable exchange: reopen admission and publish, or keep the guard for
\* the shutdown that follows.
ExchangeReusable ==
    /\ driver = "exchange"
    /\ \/ /\ MayRelease
          /\ open' = TRUE
          /\ job' = [job EXCEPT ![terminal] = "done"]
          /\ Publish(For(terminal, "Reusable"))
          /\ ReleaseGuard /\ driver' = "next"
          /\ UNCHANGED verdict
       \/ /\ ~MayRelease
          /\ verdict' = IF stopping THEN "Shutdown" ELSE "ApplicationClosure"
          /\ driver' = "closing" /\ CloseAdmission
          /\ UNCHANGED <<job, terminal, receipts>>
    /\ UNCHANGED <<senders, stopping, abort, recovering, recoverable, transport, inner, result>>

\* Recover the transport or shut it down.
CloseTransport ==
    /\ driver = "closing"
    /\ driver' = "finished"
    /\ \/ /\ recovering /\ recoverable
          /\ transport' = "recovered" /\ inner' = "Recovered"
       \/ /\ ~(recovering /\ recoverable)
          /\ \/ transport' = "shut" /\ inner' = "Closed"
             \/ inner' = "Error" /\ UNCHANGED transport
    /\ UNCHANGED <<job, admission, recovering, terminal, verdict, recoverable, result, receipts>>

-----------------------------------------------------------------------------
\* run

\* drive reports the shutdown instead of any result that is not a failure.
Driven == IF abort THEN "Error" ELSE inner

VerdictAnyway == verdict

Receipt == IF Driven = "Error" THEN "Error" ELSE verdict

\* The terminal receipt is published only after the shutdown controller has
\* had its say; whatever the result carried is dropped with it.
Return ==
    /\ driver = "finished"
    /\ driver' = "gone" /\ result' = Driven
    /\ transport' = IF Driven = "Error" /\ transport \in {"driver", "recovered"} THEN "lost" ELSE transport
    /\ Publish(For(terminal, Receipt))
    /\ job' = [j \in Jobs |-> IF j = terminal THEN "done" ELSE job[j]]
    /\ terminal' = None
    /\ stopping' = TRUE
    /\ UNCHANGED <<open, senders, abort, recovering, verdict, recoverable, inner>>

\* The guards the driver and its queue hold.
Guarded == ({terminal} \ {None}) \cup Queued

\* The driver future is dropped.
DropDriver ==
    /\ driver \notin {"finished", "gone"}
    /\ driver' = "gone" /\ result' = "dropped" /\ stopping' = TRUE /\ open' = FALSE
    /\ transport' = IF transport \in {"driver", "recovered"} THEN "lost" ELSE transport
    /\ Publish([j \in Guarded |-> "DriverLost"])
    /\ job' = [j \in Jobs |-> IF job[j] \in {"queued", "active"} THEN "done" ELSE job[j]]
    /\ terminal' = None
    /\ UNCHANGED <<senders, abort, recovering, verdict, recoverable, inner>>

Next ==
    \/ \E j \in Jobs : Submit(j) \/ TakeJob(j) \/ TakeReceipt(j) \/ PollReceipt(j) \/ DropReceipt(j)
    \/ DropSenders \/ Stop(TRUE) \/ Stop(FALSE)
    \/ NoMoreJobs \/ ExchangeFails \/ ExchangeHandsOff \/ ExchangeReusable
    \/ \E reason \in Reasons : ExchangeCloses(reason)
    \/ CloseTransport \/ Return \/ DropDriver

Spec == Init /\ [][Next]_vars

\* The driver runs whenever it can; an exchange and the shutdown of the transport
\* wait for the peer, and settle once cancelled; woken receipts are polled.
FairSpec ==
    /\ Spec
    /\ \A j \in Jobs : WF_vars(TakeJob(j)) /\ WF_vars(woken[j] /\ PollReceipt(j))
    /\ WF_vars(NoMoreJobs) /\ WF_vars(Return)
    /\ WF_vars((abort \/ (recovering /\ recoverable)) /\ CloseTransport)
    /\ WF_vars(abort /\ ExchangeFails)

-----------------------------------------------------------------------------
Says(j, values) == published[j] # <<>> /\ published[j][1] \in values

\* A receipt never claims more than what happened to the connection: closed
\* when the transport was shut down or recovered, upgraded when it was handed
\* over, and lost only when the driver was.
ReceiptsAreTrue ==
    \A j \in Jobs :
        /\ Says(j, Reasons) => result \in {"Closed", "Recovered"} /\ transport \in {"shut", "recovered"}
        /\ Says(j, {"Upgraded"}) => result = "Upgraded" /\ transport = "handed"
        /\ Says(j, {"DriverLost"}) => result = "dropped"
        /\ Says(j, {"Error"}) => result = "Error"

\* The receipts of a job that was accepted: none while it is on its way, one
\* when it is done.
OneReceiptPerJob ==
    \A j \in Jobs : Len(published[j]) = IF job[j] = "done" THEN 1 ELSE 0

\* "Protocol, body, and I/O failures, explicit abort, and unfinished body
\* abandonment do not return recovered parts."
RecoveryIsClean ==
    result = "Recovered" => ~abort /\ \A j \in Jobs : ~Says(j, {"BodyAbandonment", "UploadAbort", "Error"})

\* Once the driver is gone, however it went, every held receipt resolves.
ReceiptsResolve ==
    \A j \in Jobs : (driver = "gone" /\ receipt[j] = "held") ~> (receipt[j] # "held")

\* An accepted request is answered after an abort.
AbortSettlesJobs ==
    \A j \in Jobs : (abort /\ job[j] \in {"queued", "active"}) ~> (job[j] = "done")

\* Every accepted request has exactly one receipt, and it is true.
OneTrueReceipt == OneReceiptPerJob /\ ReceiptsAreTrue

\* Every held receipt resolves once the driver is gone, every accepted request
\* after an abort.
ReceiptsSettle == ReceiptsResolve /\ AbortSettlesJobs
=============================================================================
