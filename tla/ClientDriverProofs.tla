------------------------- MODULE ClientDriverProofs -------------------------
(* Receipts of a client connection, for any set of jobs.                      *)
EXTENDS ClientDriver, TLAPS

\* The part of TypeOK the argument uses.
Typed ==
    /\ job \in [Jobs -> {"unsent", "queued", "active", "done"}]
    /\ terminal \in Jobs \cup {None}
    /\ published \in [Jobs -> Seq(Published)]

\* The driver holds the guard of the job it works on, and of no other.
GuardKept ==
    /\ terminal # None => job[terminal] = "active"
    /\ \A j \in Jobs : job[j] = "active" => terminal = j
    /\ driver = "exchange" => terminal # None
    /\ driver \in {"next", "gone"} => terminal = None

\* Until the driver is gone there is no result, and every receipt published so
\* far is that of a reusable exchange.
NothingSaidYet ==
    driver # "gone" =>
        /\ result = "none"
        /\ \A j \in Jobs : published[j] # <<>> => published[j][1] = "Reusable"

\* What run_inner returns agrees with what it did to the transport, and with
\* the verdict it leaves for the receipt.
VerdictAgrees ==
    /\ driver \in {"next", "exchange", "closing"} =>
           transport = "driver" /\ verdict \in Reasons /\ inner = "none"
    /\ driver \in {"next", "exchange"} => recoverable /\ verdict = "MessagePolicy"
    /\ driver = "closing" /\ recoverable => verdict \notin {"BodyAbandonment", "UploadAbort"}
    /\ driver = "finished" =>
           \/ inner = "Closed" /\ transport = "shut" /\ verdict \in Reasons
           \/ inner = "Recovered" /\ transport = "recovered"
              /\ verdict \in Reasons \ {"BodyAbandonment", "UploadAbort"}
           \/ inner = "Upgraded" /\ transport = "handed" /\ verdict = "Upgraded"
           \/ inner = "Error"

\* The inductive invariant.
IInv ==
    /\ Typed
    /\ GuardKept
    /\ NothingSaidYet
    /\ VerdictAgrees
    /\ OneReceiptPerJob
    /\ ReceiptsAreTrue
    /\ RecoveryIsClean

-----------------------------------------------------------------------------
\* A new connection has published nothing and guards no job.
LEMMA InitIInv == Init => IInv
<1> SUFFICES ASSUME Init PROVE IInv OBVIOUS
<1> USE DEF Init
<1>1. Typed BY DEF Typed
<1>2. GuardKept BY DEF GuardKept
<1>3. NothingSaidYet BY DEF NothingSaidYet
<1>4. VerdictAgrees BY DEF VerdictAgrees, Reasons
<1>5. OneReceiptPerJob BY DEF OneReceiptPerJob
<1>6. ReceiptsAreTrue BY DEF ReceiptsAreTrue, Says
<1>7. RecoveryIsClean BY DEF RecoveryIsClean
<1> QED BY <1>1, <1>2, <1>3, <1>4, <1>5, <1>6, <1>7 DEF IInv

\* Publishing extends the receipts of exactly the given jobs.
LEMMA PublishEffect ==
    ASSUME Typed, NEW values, DOMAIN values \subseteq Jobs,
           \A j \in DOMAIN values : values[j] \in Published, Publish(values)
    PROVE  /\ published' \in [Jobs -> Seq(Published)]
           /\ \A j \in Jobs \ DOMAIN values : published'[j] = published[j]
           /\ \A j \in DOMAIN values :
                 published[j] = <<>> => published'[j] = <<values[j]>>
<1> USE DEF Typed, Publish
<1>1. published' \in [Jobs -> Seq(Published)] OBVIOUS
<1>2. \A j \in Jobs \ DOMAIN values : published'[j] = published[j] OBVIOUS
<1>3. ASSUME NEW j \in DOMAIN values, published[j] = <<>> PROVE published'[j] = <<values[j]>>
  <2>1. published'[j] = Append(<<>>, values[j]) BY <1>3
  <2>2. \A v \in Published : Append(<<>>, v) = <<v>> OBVIOUS
  <2> QED BY <2>1, <2>2, <1>3
<1> QED BY <1>1, <1>2, <1>3

\* No submission, exchange, stop, drop or receipt poll breaks the invariant.
LEMMA NextIInv == IInv /\ [Next]_vars => IInv'
<1> SUFFICES ASSUME IInv, [Next]_vars PROVE IInv' OBVIOUS
<1> USE JobsAssumption DEF IInv
<1> DEFINE Receipts == OneReceiptPerJob /\ ReceiptsAreTrue /\ RecoveryIsClean
<1>1. ASSUME NEW j \in Jobs, Submit(j) PROVE IInv'
  <2> USE <1>1 DEF Submit, admission, outcome, receipts
  <2>1. Typed' BY DEF Typed
  <2>2. GuardKept' BY DEF GuardKept, Typed
  <2>3. NothingSaidYet' BY DEF NothingSaidYet
  <2>4. VerdictAgrees' BY DEF VerdictAgrees, Reasons
  <2>5. Receipts' BY DEF OneReceiptPerJob, ReceiptsAreTrue, RecoveryIsClean, Says,
      Typed, NothingSaidYet
  <2> QED BY <2>1, <2>2, <2>3, <2>4, <2>5 DEF IInv
<1>2. ASSUME NEW j \in Jobs, TakeJob(j) PROVE IInv'
  <2> USE <1>2 DEF TakeJob, NextJob, admission, outcome, receipts
  <2>1. Typed' BY DEF Typed
  <2>2. GuardKept' BY DEF GuardKept, Typed
  <2>3. NothingSaidYet' BY DEF NothingSaidYet
  <2>4. VerdictAgrees' BY DEF VerdictAgrees, Reasons
  <2>5. Receipts' BY DEF OneReceiptPerJob, ReceiptsAreTrue, RecoveryIsClean, Says,
      Typed, NothingSaidYet
  <2> QED BY <2>1, <2>2, <2>3, <2>4, <2>5 DEF IInv
<1>3. ASSUME NEW j \in Jobs, TakeReceipt(j) PROVE IInv'
  <2> USE <1>3 DEF TakeReceipt, admission, outcome, receipts
  <2>1. Typed' BY DEF Typed
  <2>2. GuardKept' BY DEF GuardKept, Typed
  <2>3. NothingSaidYet' BY DEF NothingSaidYet
  <2>4. VerdictAgrees' BY DEF VerdictAgrees, Reasons
  <2>5. Receipts' BY DEF OneReceiptPerJob, ReceiptsAreTrue, RecoveryIsClean, Says,
      Typed, NothingSaidYet
  <2> QED BY <2>1, <2>2, <2>3, <2>4, <2>5 DEF IInv
<1>4. ASSUME NEW j \in Jobs, PollReceipt(j) PROVE IInv'
  <2> USE <1>4 DEF PollReceipt, admission, outcome, receipts
  <2>1. Typed' BY DEF Typed
  <2>2. GuardKept' BY DEF GuardKept, Typed
  <2>3. NothingSaidYet' BY DEF NothingSaidYet
  <2>4. VerdictAgrees' BY DEF VerdictAgrees, Reasons
  <2>5. Receipts' BY DEF OneReceiptPerJob, ReceiptsAreTrue, RecoveryIsClean, Says,
      Typed, NothingSaidYet
  <2> QED BY <2>1, <2>2, <2>3, <2>4, <2>5 DEF IInv
<1>5. ASSUME NEW j \in Jobs, DropReceipt(j) PROVE IInv'
  <2> USE <1>5 DEF DropReceipt, admission, outcome, receipts
  <2>1. Typed' BY DEF Typed
  <2>2. GuardKept' BY DEF GuardKept, Typed
  <2>3. NothingSaidYet' BY DEF NothingSaidYet
  <2>4. VerdictAgrees' BY DEF VerdictAgrees, Reasons
  <2>5. Receipts' BY DEF OneReceiptPerJob, ReceiptsAreTrue, RecoveryIsClean, Says,
      Typed, NothingSaidYet
  <2> QED BY <2>1, <2>2, <2>3, <2>4, <2>5 DEF IInv
<1>6. CASE DropSenders
  <2> USE <1>6 DEF DropSenders, admission, outcome, receipts
  <2>1. Typed' BY DEF Typed
  <2>2. GuardKept' BY DEF GuardKept, Typed
  <2>3. NothingSaidYet' BY DEF NothingSaidYet
  <2>4. VerdictAgrees' BY DEF VerdictAgrees, Reasons
  <2>5. Receipts' BY DEF OneReceiptPerJob, ReceiptsAreTrue, RecoveryIsClean, Says,
      Typed, NothingSaidYet
  <2> QED BY <2>1, <2>2, <2>3, <2>4, <2>5 DEF IInv
<1>7. ASSUME NEW aborting \in BOOLEAN, Stop(aborting) PROVE IInv'
  <2> USE <1>7 DEF Stop, admission, outcome, receipts
  <2>1. Typed' BY DEF Typed
  <2>2. GuardKept' BY DEF GuardKept, Typed
  <2>3. NothingSaidYet' BY DEF NothingSaidYet
  <2>4. VerdictAgrees' BY DEF VerdictAgrees, Reasons
  <2>5. Receipts' BY DEF OneReceiptPerJob, ReceiptsAreTrue, RecoveryIsClean, Says,
      Typed, NothingSaidYet
  <2> QED BY <2>1, <2>2, <2>3, <2>4, <2>5 DEF IInv
<1>8. CASE NoMoreJobs
  <2> USE <1>8 DEF NoMoreJobs, CloseAdmission, admission, outcome, receipts
  <2>1. Typed' BY DEF Typed
  <2>2. GuardKept' BY DEF GuardKept, Typed
  <2>3. NothingSaidYet' BY DEF NothingSaidYet
  <2>4. VerdictAgrees' BY DEF VerdictAgrees, Reasons
  <2>5. Receipts' BY DEF OneReceiptPerJob, ReceiptsAreTrue, RecoveryIsClean, Says,
      Typed, NothingSaidYet
  <2> QED BY <2>1, <2>2, <2>3, <2>4, <2>5 DEF IInv
<1>9. CASE ExchangeFails
  <2> USE <1>9 DEF ExchangeFails, Fails, CloseAdmission, admission, outcome, receipts
  <2>1. Typed' BY DEF Typed
  <2>2. GuardKept' BY DEF GuardKept, Typed
  <2>3. NothingSaidYet' BY DEF NothingSaidYet
  <2>4. VerdictAgrees' BY DEF VerdictAgrees, Reasons
  <2>5. Receipts' BY DEF OneReceiptPerJob, ReceiptsAreTrue, RecoveryIsClean, Says,
      Typed, NothingSaidYet
  <2> QED BY <2>1, <2>2, <2>3, <2>4, <2>5 DEF IInv
<1>10. CASE ExchangeHandsOff
  <2> USE <1>10 DEF ExchangeHandsOff, CloseAdmission, admission, outcome, receipts
  <2>1. Typed' BY DEF Typed
  <2>2. GuardKept' BY DEF GuardKept, Typed
  <2>3. NothingSaidYet' BY DEF NothingSaidYet
  <2>4. VerdictAgrees' BY DEF VerdictAgrees, Reasons
  <2>5. Receipts' BY DEF OneReceiptPerJob, ReceiptsAreTrue, RecoveryIsClean, Says,
      Typed, NothingSaidYet
  <2> QED BY <2>1, <2>2, <2>3, <2>4, <2>5 DEF IInv
<1>11. CASE ExchangeReusable
  <2>1. CASE MayRelease
    <3>1. terminal \in Jobs /\ published[terminal] = <<>>
      BY <1>11 DEF ExchangeReusable, GuardKept, Typed, OneReceiptPerJob
    <3>2. Publish(For(terminal, "Reusable")) /\ DOMAIN For(terminal, "Reusable") = {terminal}
      BY <1>11, <2>1, <3>1 DEF ExchangeReusable, For
    <3>3. For(terminal, "Reusable")[terminal] = "Reusable" /\ "Reusable" \in Published
      BY <3>1 DEF For, Published
    <3>4. /\ published' \in [Jobs -> Seq(Published)]
          /\ \A j \in Jobs \ {terminal} : published'[j] = published[j]
          /\ published'[terminal] = <<"Reusable">>
      BY <3>1, <3>2, <3>3, PublishEffect
    <3>5. /\ job' = [job EXCEPT ![terminal] = "done"] /\ terminal' = None /\ driver' = "next"
          /\ UNCHANGED <<abort, verdict, recoverable, transport, inner, result>>
      BY <1>11, <2>1 DEF ExchangeReusable, ReleaseGuard
    <3>6. driver = "exchange" BY <1>11 DEF ExchangeReusable
    <3>7. Typed' BY <3>1, <3>4, <3>5 DEF Typed
    <3>8. GuardKept' BY <3>1, <3>5, <3>6 DEF GuardKept, Typed
    <3>9. NothingSaidYet' BY <3>1, <3>4, <3>5, <3>6 DEF NothingSaidYet
    <3>10. VerdictAgrees' BY <3>5, <3>6 DEF VerdictAgrees, Reasons
    <3>11. ASSUME NEW j \in Jobs PROVE Len(published'[j]) = IF job'[j] = "done" THEN 1 ELSE 0
      <4>1. CASE j = terminal
        <5>1. Len(published'[j]) = 1 BY <4>1, <3>4
        <5> QED BY <5>1, <4>1, <3>5 DEF Typed
      <4>2. CASE j # terminal BY <4>2, <3>4, <3>5 DEF OneReceiptPerJob, Typed
      <4> QED BY <4>1, <4>2
    <3>12. ReceiptsAreTrue' /\ RecoveryIsClean'
      BY <3>1, <3>4, <3>5, <3>6 DEF ReceiptsAreTrue, RecoveryIsClean, Says, Reasons, NothingSaidYet
    <3> QED BY <3>7, <3>8, <3>9, <3>10, <3>11, <3>12 DEF OneReceiptPerJob
  <2>2. CASE ~MayRelease
    <3> USE <1>11, <2>2 DEF ExchangeReusable, CloseAdmission, receipts
    <3>1. Typed' BY DEF Typed
    <3>2. GuardKept' BY DEF GuardKept
    <3>3. NothingSaidYet' BY DEF NothingSaidYet
    <3>4. VerdictAgrees' BY DEF VerdictAgrees, Reasons
    <3>5. Receipts' BY DEF OneReceiptPerJob, ReceiptsAreTrue, RecoveryIsClean, Says
    <3> QED BY <3>1, <3>2, <3>3, <3>4, <3>5
  <2> QED BY <2>1, <2>2
<1>12. ASSUME NEW reason \in Reasons, ExchangeCloses(reason) PROVE IInv'
  <2> USE <1>12 DEF ExchangeCloses, RecoverableAfter, CloseAdmission, admission, outcome, receipts
  <2>1. Typed' BY DEF Typed
  <2>2. GuardKept' BY DEF GuardKept, Typed
  <2>3. NothingSaidYet' BY DEF NothingSaidYet
  <2>4. VerdictAgrees' BY DEF VerdictAgrees, Reasons
  <2>5. Receipts' BY DEF OneReceiptPerJob, ReceiptsAreTrue, RecoveryIsClean, Says,
      Typed, NothingSaidYet
  <2> QED BY <2>1, <2>2, <2>3, <2>4, <2>5 DEF IInv
<1>13. CASE CloseTransport
  <2> USE <1>13 DEF CloseTransport, admission, outcome, receipts
  <2>1. Typed' BY DEF Typed
  <2>2. GuardKept' BY DEF GuardKept, Typed
  <2>3. NothingSaidYet' BY DEF NothingSaidYet
  <2>4. VerdictAgrees' BY DEF VerdictAgrees, Reasons
  <2>5. Receipts' BY DEF OneReceiptPerJob, ReceiptsAreTrue, RecoveryIsClean, Says,
      Typed, NothingSaidYet
  <2> QED BY <2>1, <2>2, <2>3, <2>4, <2>5 DEF IInv
<1>14. CASE Return
  <2> USE <1>14
  <2>1. driver = "finished" /\ driver' = "gone" /\ result' = Driven /\ terminal' = None
    BY DEF Return
  <2>2. transport' = IF Driven = "Error" /\ transport \in {"driver", "recovered"} THEN "lost" ELSE transport
    BY DEF Return
  <2>3. job' = [j \in Jobs |-> IF j = terminal THEN "done" ELSE job[j]] /\ abort' = abort
    BY DEF Return
  <2>4. terminal # None => published[terminal] = <<>>
    BY DEF GuardKept, Typed, OneReceiptPerJob
  <2>5. Receipt \in Published
    BY <2>1 DEF Receipt, Published, VerdictAgrees, Reasons, Driven
  <2>6. DOMAIN For(terminal, Receipt) = {terminal} \ {None}
        /\ \A j \in DOMAIN For(terminal, Receipt) : For(terminal, Receipt)[j] = Receipt
    BY DEF For
  <2>7. /\ published' \in [Jobs -> Seq(Published)]
        /\ \A j \in Jobs : j # terminal => published'[j] = published[j]
        /\ terminal # None => published'[terminal] = <<Receipt>>
    BY <2>4, <2>5, <2>6, PublishEffect DEF Return, Typed
  <2>8. \A j \in Jobs : published[j] # <<>> => published[j][1] = "Reusable"
    BY <2>1 DEF NothingSaidYet
  <2>9. Typed' BY <2>1, <2>3, <2>7 DEF Typed
  <2>10. GuardKept' BY <2>1, <2>3 DEF GuardKept, Typed
  <2>11. NothingSaidYet' /\ VerdictAgrees' BY <2>1 DEF NothingSaidYet, VerdictAgrees
  <2>12. ASSUME NEW j \in Jobs PROVE Len(published'[j]) = IF job'[j] = "done" THEN 1 ELSE 0
    <3>1. CASE j = terminal
      <4>1. Len(published'[j]) = 1 BY <3>1, <2>7
      <4> QED BY <4>1, <3>1, <2>3
    <3>2. CASE j # terminal BY <3>2, <2>3, <2>7 DEF OneReceiptPerJob, Typed
    <3> QED BY <3>1, <3>2
  <2>13. ReceiptsAreTrue'
    <3> SUFFICES ASSUME NEW j \in Jobs, published'[j] # <<>>, published'[j][1] # "Reusable"
                 PROVE  /\ published'[j][1] = Receipt
                        /\ Receipt \in Reasons =>
                              result' \in {"Closed", "Recovered"} /\ transport' \in {"shut", "recovered"}
                        /\ Receipt = "Upgraded" => result' = "Upgraded" /\ transport' = "handed"
                        /\ Receipt # "DriverLost"
                        /\ Receipt = "Error" => result' = "Error"
      BY DEF ReceiptsAreTrue, Says, Reasons
    <3>1. published'[j][1] = Receipt BY <2>7, <2>8, JobsAssumption
    <3>2. CASE Driven = "Error" BY <3>1, <3>2, <2>1 DEF Receipt, Reasons
    <3>3. CASE Driven # "Error"
      <4>1. Receipt = verdict /\ inner = Driven /\ transport' = transport BY <3>3, <2>2 DEF Receipt, Driven
      <4> QED BY <4>1, <3>1, <3>3, <2>1 DEF VerdictAgrees, Reasons
    <3> QED BY <3>2, <3>3
  <2>14. RecoveryIsClean'
    <3> SUFFICES ASSUME Driven = "Recovered"
                 PROVE  ~abort /\ \A j \in Jobs :
                           published'[j] # <<>> => published'[j][1] \notin {"BodyAbandonment", "UploadAbort", "Error"}
      BY <2>1, <2>3 DEF RecoveryIsClean, Says
    <3>1. ~abort /\ inner = "Recovered" BY DEF Driven
    <3>2. Receipt \notin {"BodyAbandonment", "UploadAbort", "Error"}
      BY <3>1, <2>1 DEF Receipt, VerdictAgrees, Reasons
    <3> QED BY <3>1, <3>2, <2>7, <2>8
  <2> QED BY <2>9, <2>10, <2>11, <2>12, <2>13, <2>14 DEF OneReceiptPerJob
<1>15. CASE DropDriver
  <2> USE <1>15
  <2> DEFINE lost == [j \in Guarded |-> "DriverLost"]
  <2>1. /\ driver # "gone" /\ driver' = "gone" /\ result' = "dropped" /\ terminal' = None
        /\ job' = [j \in Jobs |-> IF job[j] \in {"queued", "active"} THEN "done" ELSE job[j]]
        /\ Publish(lost)
    BY DEF DropDriver
  <2>2. \A j \in Jobs : j \in Guarded <=> job[j] \in {"queued", "active"}
    BY DEF Guarded, Queued, GuardKept, Typed
  <2>3. Guarded \subseteq Jobs BY DEF Guarded, Queued, Typed
  <2>4. \A j \in Guarded : published[j] = <<>> BY <2>2, <2>3 DEF OneReceiptPerJob, Typed
  <2>5. DOMAIN lost = Guarded /\ \A j \in Guarded : lost[j] = "DriverLost" /\ lost[j] \in Published
    BY DEF Published
  <2> HIDE DEF lost
  <2>6. /\ published' \in [Jobs -> Seq(Published)]
        /\ \A j \in Jobs \ Guarded : published'[j] = published[j]
        /\ \A j \in Guarded : published'[j] = <<"DriverLost">>
    BY <2>1, <2>3, <2>4, <2>5, PublishEffect
  <2>7. \A j \in Jobs : published[j] # <<>> => published[j][1] = "Reusable"
    BY <2>1 DEF NothingSaidYet
  <2>8. Typed' BY <2>1, <2>6 DEF Typed
  <2>9. GuardKept' BY <2>1 DEF GuardKept, Typed
  <2>10. NothingSaidYet' /\ VerdictAgrees' BY <2>1 DEF NothingSaidYet, VerdictAgrees
  <2>11. ASSUME NEW j \in Jobs PROVE Len(published'[j]) = IF job'[j] = "done" THEN 1 ELSE 0
    <3>1. CASE j \in Guarded
      <4>1. published'[j] = <<"DriverLost">> BY <3>1, <2>6
      <4>2. Len(published'[j]) = 1 BY <4>1
      <4> QED BY <4>2, <3>1, <2>1, <2>2
    <3>2. CASE j \notin Guarded
      <4>1. job'[j] = job[j] BY <3>2, <2>1, <2>2
      <4>2. published'[j] = published[j] BY <3>2, <2>6
      <4> QED BY <4>1, <4>2 DEF OneReceiptPerJob
    <3> QED BY <3>1, <3>2
  <2>12. ReceiptsAreTrue' /\ RecoveryIsClean'
    BY <2>1, <2>6, <2>7 DEF ReceiptsAreTrue, RecoveryIsClean, Says, Reasons
  <2> QED BY <2>8, <2>9, <2>10, <2>11, <2>12 DEF OneReceiptPerJob
<1>16. CASE UNCHANGED vars
  <2> USE <1>16 DEF vars, admission, outcome, receipts
  <2>1. Typed' BY DEF Typed
  <2>2. GuardKept' BY DEF GuardKept, Typed
  <2>3. NothingSaidYet' BY DEF NothingSaidYet
  <2>4. VerdictAgrees' BY DEF VerdictAgrees, Reasons
  <2>5. Receipts' BY DEF OneReceiptPerJob, ReceiptsAreTrue, RecoveryIsClean, Says,
      Typed, NothingSaidYet
  <2> QED BY <2>1, <2>2, <2>3, <2>4, <2>5 DEF IInv
<1> QED BY <1>1, <1>2, <1>3, <1>4, <1>5, <1>6, <1>7, <1>8, <1>9, <1>10, <1>11, <1>12, <1>13, <1>14, <1>15, <1>16 DEF Next

\* Every accepted request has exactly one receipt, which says what became of
\* the connection: for any number of jobs, however the driver ends.
THEOREM EveryReceiptIsTrue == Spec => []OneTrueReceipt
<1>1. IInv => OneTrueReceipt BY DEF IInv, OneTrueReceipt
<1> QED BY <1>1, InitIInv, NextIInv, PTL DEF Spec

\* Recovered parts come back only from a connection that was not aborted, did
\* not fail and abandoned no message.
THEOREM RecoveryIsAlwaysClean == Spec => []RecoveryIsClean
<1>1. IInv => RecoveryIsClean BY DEF IInv
<1> QED BY <1>1, InitIInv, NextIInv, PTL DEF Spec
=============================================================================
