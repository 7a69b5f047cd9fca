---------------------------- MODULE Informational ----------------------------
(***************************************************************************)
(* Informational (1xx) heads of one server exchange: the command slot of   *)
(* src/src/server/context.rs, the writer loop and the service call of      *)
(* src/src/proto/h1/server.rs.  Four parties meet in the shared state: the *)
(* application that sends heads (possibly from a task that outlives the    *)
(* service call), the writer, the request receiver that wants an automatic *)
(* 100 Continue, and the coordinator that selects the final response.      *)
(***************************************************************************)
EXTENDS Naturals, FiniteSets

CONSTANTS
    MaxSends,           \* bound on send_informational calls
    MaxInformational    \* config.settings.protocol.max_informational

ASSUME LimitsAssumption == MaxSends \in Nat /\ MaxInformational \in Nat

VARIABLES
    admission,      \* "Open", "FinalSelected" or "Closed"
    automatic,      \* automatic_continue: "Idle", "Requested" or "Complete"
    command,        \* CommandState without its payload
    answer,         \* the payload of CommandState::Complete
    applicationWaker, writerWaker, receiverWaker,   \* the three slots
    applicationWoken, writerWoken, receiverWoken,   \* woken since the last poll
    sends,          \* calls accepted so far; the latest one is number sends
    sending,        \* the future of the latest call is alive
    writer,         \* "next", "app", "auto" (writing), "ok" or "err" (returned)
    count,          \* heads written by the loop
    writing,        \* number of the call whose head is being written
    receiver,       \* continue_permission: "none", "waiting", "granted", "failed"
    call,           \* "serving", "selected", "failed", "final" or "ended"
    canceled,       \* the exchange's cancellation source fired
    outcome,        \* history: what each call returned
    started,        \* history: calls whose head reached the transport
    flushed,        \* history: calls whose head was written and flushed
    continues       \* history: number of 100 Continue heads flushed

slots == <<applicationWaker, writerWaker, receiverWaker>>
wokens == <<applicationWoken, writerWoken, receiverWoken>>
histories == <<outcome, started, flushed, continues>>
vars == <<admission, automatic, command, answer, slots, wokens, sends, sending, writer,
          count, writing, receiver, call, canceled, histories>>

Calls == 1 .. MaxSends

Init ==
    /\ admission = "Open" /\ automatic = "Idle" /\ command = "Idle" /\ answer = "none"
    /\ applicationWaker = FALSE /\ writerWaker = FALSE /\ receiverWaker = FALSE
    /\ applicationWoken = FALSE /\ writerWoken = TRUE /\ receiverWoken = FALSE
    /\ sends = 0 /\ sending = FALSE
    /\ writer = "next" /\ count = 0 /\ writing = 0
    /\ receiver = "none" /\ call = "serving" /\ canceled = FALSE
    /\ outcome = [n \in Calls |-> "none"]
    /\ started = {} /\ flushed = {} /\ continues = 0

WakeApplication == applicationWaker' = FALSE /\ applicationWoken' = (applicationWoken \/ applicationWaker)
SleepApplication == UNCHANGED <<applicationWaker, applicationWoken>>
WakeReceiver == receiverWaker' = FALSE /\ receiverWoken' = (receiverWoken \/ receiverWaker)
SleepReceiver == UNCHANGED <<receiverWaker, receiverWoken>>

LeaveWriterAsleep == UNCHANGED <<writerWaker, writerWoken>>

WakeWriter == writerWaker' = FALSE /\ writerWoken' = (writerWoken \/ writerWaker)

-----------------------------------------------------------------------------
(* The application: RequestContext::send_informational *)

\* The call is accepted, wakes the writer and waits; its Closed, late and Busy
\* answers change nothing.
Send ==
    /\ ~sending /\ sends < MaxSends
    /\ admission = "Open" /\ command = "Idle"
    /\ command' = "Queued"
    /\ sends' = sends + 1 /\ sending' = TRUE
    /\ applicationWaker' = TRUE /\ applicationWoken' = FALSE
    /\ WakeWriter
    /\ SleepReceiver
    /\ UNCHANGED <<admission, automatic, answer, writer, count, writing, receiver, call, canceled, histories>>

\* Drop for SendGuard: a head being written stays with the writer.
Abandon == IF command \in {"Writing", "WritingAbandoned"} THEN "WritingAbandoned" ELSE "Idle"

Return(what) ==
    /\ sending' = FALSE
    /\ applicationWaker' = FALSE /\ applicationWoken' = FALSE
    /\ outcome' = [outcome EXCEPT ![sends] = what]

PollSend ==
    /\ sending
    /\ \/ /\ command = "Complete"
          /\ command' = "Idle" /\ answer' = "none"
          /\ Return(answer)
       \/ /\ command # "Complete" /\ admission = "Closed"
          /\ command' = Abandon
          /\ Return("closed")
          /\ UNCHANGED answer
       \/ /\ command # "Complete" /\ admission # "Closed"
          /\ applicationWaker' = TRUE /\ applicationWoken' = FALSE
          /\ UNCHANGED <<command, answer, sending, outcome>>
    /\ UNCHANGED <<admission, automatic, writerWaker, receiverWaker, writerWoken, receiverWoken, sends,
                   writer, count, writing, receiver, call, canceled, started, flushed, continues>>

DropSend ==
    /\ sending
    /\ command' = Abandon /\ answer' = "none"
    /\ Return("dropped")
    /\ UNCHANGED <<admission, automatic, writerWaker, receiverWaker, writerWoken, receiverWoken, sends,
                   writer, count, writing, receiver, call, canceled, started, flushed, continues>>

-----------------------------------------------------------------------------
(* The writer: write_informationals over InformationalReceiver::next *)

OverLimit == count > MaxInformational

AtLimit == count = MaxInformational

\* InformationalReceiver::complete, without its wake-up.
CompleteSlot(result) ==
    \/ command = "Writing" /\ command' = "Complete" /\ answer' = result
    \/ command = "WritingAbandoned" /\ command' = "Idle" /\ UNCHANGED answer

WriterReturns(what) ==
    /\ writer' = what
    /\ UNCHANGED <<command, answer, writerWaker, applicationWaker, applicationWoken, writing, started>>

\* The head cannot be prepared: too many of them, or an invalid one.  The call
\* is answered without a write and the loop goes on.
RejectHead ==
    /\ command' = "Complete" /\ answer' = "rejected"
    /\ WakeApplication
    /\ writerWoken' = TRUE
    /\ UNCHANGED <<writer, writerWaker, writing, started>>

StartHead ==
    /\ command' = "Writing"
    /\ writer' = "app" /\ writing' = sends /\ started' = started \cup {sends}
    /\ writerWoken' = FALSE
    /\ SleepApplication
    /\ UNCHANGED <<writerWaker, answer>>

ContinueDue == automatic = "Requested"

PollWriter ==
    /\ writer = "next"
    /\ \/ /\ canceled
          /\ WriterReturns("err") /\ writerWoken' = FALSE
       \/ /\ ~canceled /\ admission # "Open"
          /\ WriterReturns("ok") /\ writerWoken' = FALSE
       \/ /\ ~canceled /\ admission = "Open" /\ ContinueDue
          /\ WriterReturns(IF AtLimit THEN "err" ELSE "auto") /\ writerWoken' = FALSE
       \/ /\ ~canceled /\ admission = "Open" /\ ~ContinueDue /\ command = "Queued"
          /\ RejectHead \/ (~AtLimit /\ StartHead)
       \/ /\ ~canceled /\ admission = "Open" /\ ~ContinueDue /\ command # "Queued"
          /\ writerWaker' = TRUE /\ writerWoken' = FALSE
          /\ SleepApplication
          /\ UNCHANGED <<writer, command, answer, writing, started>>
    /\ SleepReceiver
    /\ UNCHANGED <<admission, automatic, sends, sending, count, receiver, call, canceled, outcome, flushed, continues>>

\* The write and the flush of an application head end.
AppHeadDone(ok) ==
    /\ writer = "app"
    /\ CompleteSlot(IF ok THEN "ok" ELSE "failed")
    /\ WakeApplication
    /\ \/ /\ ok /\ writer' = "next" /\ writerWoken' = TRUE
          /\ count' = count + 1 /\ flushed' = flushed \cup {writing}
       \/ /\ ~ok /\ writer' = "err"
          /\ UNCHANGED <<writerWoken, count, flushed>>
    /\ writing' = 0
    /\ SleepReceiver
    /\ UNCHANGED <<admission, automatic, writerWaker, sends, sending, receiver, call, canceled, outcome, started, continues>>

ContinuedAgain == automatic' = "Requested" /\ WakeReceiver

\* InformationalReceiver::continued
Continued == automatic' = "Complete" /\ WakeReceiver

\* The write and the flush of the automatic Continue end.
ContinueDone(ok) ==
    /\ writer = "auto"
    /\ \/ /\ ok /\ writer' = "next" /\ writerWoken' = TRUE
          /\ count' = count + 1 /\ continues' = continues + 1
          /\ Continued
       \/ /\ ~ok /\ writer' = "err"
          /\ SleepReceiver
          /\ UNCHANGED <<automatic, writerWoken, count, continues>>
    /\ SleepApplication
    /\ UNCHANGED <<admission, command, answer, writerWaker, sends, sending, writing, receiver, call, canceled,
                   outcome, started, flushed>>

-----------------------------------------------------------------------------
(* The request receiver: continue_permission *)

\* One poll of the permission, once the request is noted.
Permission ==
    \/ /\ admission = "FinalSelected" \/ automatic' = "Complete"
       /\ receiver' = "granted"
       /\ UNCHANGED receiverWaker
    \/ /\ admission = "Open" /\ automatic' # "Complete"
       /\ receiver' = "waiting"
       /\ receiverWaker' = TRUE

AskContinue ==
    /\ receiver = "none" /\ call # "ended" /\ ~canceled
    /\ automatic' = IF automatic = "Idle" THEN "Requested" ELSE automatic
    /\ WakeWriter
    /\ receiverWoken' = FALSE
    /\ Permission
    /\ SleepApplication
    /\ UNCHANGED <<admission, command, answer, sends, sending, writer, count, writing, call, canceled, histories>>

\* cancellable_wait: a cancelled exchange ends the wait first.
PollPermission ==
    /\ receiver = "waiting"
    /\ receiverWoken' = FALSE
    /\ UNCHANGED automatic
    /\ \/ /\ canceled
          /\ receiver' = "failed"
          /\ UNCHANGED receiverWaker
       \/ /\ ~canceled
          /\ Permission
    /\ SleepApplication
    /\ UNCHANGED <<admission, command, answer, writerWaker, writerWoken, sends, sending, writer, count, writing,
                   call, canceled, histories>>

-----------------------------------------------------------------------------
(* The coordinator: call_service, and the end of the exchange *)

\* A queued command can no longer be written.
RefuseQueued ==
    \/ command = "Queued" /\ command' = "Complete" /\ answer' = "late"
    \/ command # "Queued" /\ UNCHANGED <<command, answer>>

\* The cancellation token wakes every wait that watches it.
Cancel == canceled' = TRUE /\ writerWoken' = TRUE /\ receiverWoken' = TRUE

\* The service returns: select_final, and the cancellation unless it succeeded.
ServiceReturns(ok) ==
    /\ call = "serving"
    /\ admission' = "FinalSelected"
    /\ RefuseQueued
    /\ WakeApplication
    /\ \/ ok /\ call' = "selected" /\ WakeWriter /\ WakeReceiver /\ UNCHANGED canceled
       \/ ~ok /\ call' = "failed" /\ Cancel /\ writerWaker' = FALSE /\ receiverWaker' = FALSE
    /\ UNCHANGED <<automatic, sends, sending, writer, count, writing, receiver, histories>>

\* The heads are settled: the final response follows, unless a head failed.
FinalResponse ==
    /\ call = "selected" /\ writer \in {"ok", "err"}
    /\ \/ /\ writer = "ok" /\ call' = "final"
          /\ UNCHANGED <<canceled, writerWoken, receiverWoken>>
       \/ /\ writer = "err" /\ call' = "failed" /\ Cancel
    /\ SleepApplication
    /\ UNCHANGED <<writerWaker, receiverWaker, admission, automatic, command, answer, sends, sending, writer, count, writing, receiver, histories>>

\* The writer ended first: the service call is cancelled.
WriterEndsCall ==
    /\ call = "serving" /\ writer = "err"
    /\ call' = "failed" /\ Cancel
    /\ SleepApplication
    /\ UNCHANGED <<writerWaker, receiverWaker, admission, automatic, command, answer, sends, sending, writer, count, writing, receiver, histories>>

Closing ==
    /\ admission' = "Closed" /\ call' = "ended"
    /\ WakeApplication
    /\ WakeReceiver
    /\ UNCHANGED <<automatic, command, answer, writerWaker, writerWoken, sends, sending, count, writing, canceled, histories>>

\* Both directions settled: the InformationalReceiver is dropped.
EndExchange ==
    /\ call \in {"final", "failed"} /\ writer \in {"ok", "err"} /\ receiver # "waiting"
    /\ Closing
    /\ UNCHANGED <<writer, receiver>>

\* The whole exchange is dropped with its connection.
DropExchange ==
    /\ call # "ended"
    /\ Closing
    /\ writer' = IF writer = "ok" THEN "ok" ELSE "err"
    /\ receiver' = IF receiver = "waiting" THEN "failed" ELSE receiver

Ended == call = "ended" /\ ~sending /\ UNCHANGED vars

Next ==
    \/ Send \/ PollSend \/ DropSend
    \/ PollWriter \/ AskContinue \/ PollPermission
    \/ \E ok \in BOOLEAN : AppHeadDone(ok) \/ ContinueDone(ok) \/ ServiceReturns(ok)
    \/ FinalResponse \/ WriterEndsCall \/ EndExchange \/ DropExchange \/ Ended

Spec == Init /\ [][Next]_vars

\* Woken tasks are polled, submitted writes end, and the coordinator's own task
\* goes on.  The service may run forever.
Fairness ==
    /\ WF_vars(applicationWoken /\ PollSend)
    /\ WF_vars(writerWoken /\ PollWriter)
    /\ WF_vars(receiverWoken /\ PollPermission)
    /\ WF_vars(\E ok \in BOOLEAN : AppHeadDone(ok) \/ ContinueDone(ok))
    /\ WF_vars(FinalResponse \/ WriterEndsCall \/ EndExchange)

FairSpec == Spec /\ Fairness

-----------------------------------------------------------------------------
Results == {"none", "ok", "failed", "rejected", "late", "closed", "dropped"}

TypeOK ==
    /\ admission \in {"Open", "FinalSelected", "Closed"}
    /\ automatic \in {"Idle", "Requested", "Complete"}
    /\ command \in {"Idle", "Queued", "Writing", "WritingAbandoned", "Complete"}
    /\ answer \in {"none", "ok", "failed", "rejected", "late"}
    /\ {applicationWaker, writerWaker, receiverWaker} \subseteq BOOLEAN
    /\ {applicationWoken, writerWoken, receiverWoken} \subseteq BOOLEAN
    /\ sends \in 0 .. MaxSends /\ sending \in BOOLEAN
    /\ writer \in {"next", "app", "auto", "ok", "err"}
    /\ count \in 0 .. MaxInformational /\ writing \in 0 .. MaxSends
    /\ receiver \in {"none", "waiting", "granted", "failed"}
    /\ call \in {"serving", "selected", "failed", "final", "ended"}
    /\ canceled \in BOOLEAN
    /\ outcome \in [Calls -> Results]
    /\ started \in SUBSET Calls /\ flushed \in SUBSET Calls /\ continues \in Nat

\* A call answers Ok exactly when its own head was written and flushed, and a
\* late or rejected call put nothing on the wire, also when an earlier call was
\* abandoned in mid-write.
AnswersAreTrue ==
    \A n \in Calls :
        /\ outcome[n] = "ok" => n \in flushed
        /\ outcome[n] \in {"rejected", "late"} => n \notin started
        /\ outcome[n] = "failed" => n \in started \ flushed

\* 100 Continue is sent once at most, and the receiver starts to read only when
\* it was flushed or the final response made it unnecessary.
ContinueOnce ==
    /\ continues <= 1
    /\ receiver = "granted" => continues = 1 \/ admission # "Open"

\* Once the final response may be written, no head is being written and none
\* is waiting to be.
FinalComesLast ==
    call = "final" => writer = "ok" /\ command \notin {"Queued", "Writing", "WritingAbandoned"}

\* A call to send_informational is answered (or dropped by its caller).
SendsResolve == sending ~> ~sending

\* The wait for permission ends.
PermissionResolves == (receiver = "waiting") ~> (receiver # "waiting")

\* Once the service returned, the exchange goes on to the final response or to
\* its end: an abandoned or slow informational head cannot block it.
SelectionResolves == (call = "selected") ~> (call \in {"final", "failed", "ended"})

\* The application's heads and the automatic one share one limit.
WithinLimit == Cardinality(started) + continues <= MaxInformational

\* Every call is answered truthfully, 100 Continue sent at most once and
\* permission given only after it, the final response after every
\* informational one, and no more of them than the limit.
HeadsInOrder == AnswersAreTrue /\ ContinueOnce /\ FinalComesLast /\ WithinLimit

\* The application's call, the receiver's wait and the selection of the final
\* response all come to an end.
WaitsResolve == SendsResolve /\ PermissionResolves /\ SelectionResolves
=============================================================================
