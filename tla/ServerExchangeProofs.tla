------------------------ MODULE ServerExchangeProofs ------------------------
(***************************************************************************)
(* How a server exchange ends, for any response heads.                     *)
(***************************************************************************)
EXTENDS ServerExchange, TLAPS

\* The part of TypeOK the argument uses.
Typed ==
    /\ request \in Requests
    /\ policy \in Policies(0)
    /\ recv \in {"demand", "permission", "wait", "read"} \cup RecvEnds
    /\ call \in {"running", "ok"} \cup Bad
    /\ send \in {"idle", "plan", "write", "ok"} \cup Bad
    /\ branch \in Errors \cup {"none"}
    /\ close \in BOOLEAN

\* The response is there once the call is over, and is written only then; the
\* one way not to write it is the early return of a failed reception.
ResponseFirst ==
    /\ call # "ok" => send = "idle"
    /\ call = "ok" => \E head \in Heads : response = <<head>>
    /\ call = "ok" /\ send = "idle" => outcome # "none"

\* The path the driver is on was opened by the activity it names, and that
\* activity's end is its own failure or answers an abort from outside.
Cause(activity, end) == branch = activity => end = "failed" \/ (end = "canceled" /\ aborted)

BranchIsCause ==
    /\ branch = "none" => recv \notin Bad /\ call \notin Bad /\ send \notin Bad
    /\ Cause("receive", recv) /\ Cause("call", call) /\ Cause("send", send)
    /\ canceled => aborted \/ branch # "none"

\* The policy reflects both messages once the head is committed.
PolicyAgrees ==
    /\ policy.upgrade = request.upgrade
    /\ send \in {"idle", "plan"} => policy.phase = "AwaitingHead" /\ announced = "none"
    /\ policy.phase = "AwaitingHead" => policy.reuse = request.reuse
    /\ policy.phase = "Final" /\ policy.reuse => request.reuse /\ response[1].reuse
    /\ policy.phase = "Upgrade" => response[1].upgrade = request.upgrade /\ request.upgrade # NoUpgrade

\* An abandonment that was visible at selection has set the close flag.
KnownCloses == known => close /\ announced # "keep"

\* The inductive invariant.
IInv ==
    /\ Typed
    /\ ResponseFirst
    /\ BranchIsCause
    /\ PolicyAgrees
    /\ KnownCloses
    /\ ReuseIsEarned
    /\ EndsTruthfully

-----------------------------------------------------------------------------
\* An exchange starts with its call running and nothing written.
LEMMA InitIInv == Init => IInv
<1> SUFFICES ASSUME Init PROVE IInv OBVIOUS
<1> USE DEF Init
<1>1. Typed BY DEF Typed, NewPolicy, Policies, Requests, RecvEnds, Bad, Errors
<1>2. ResponseFirst BY DEF ResponseFirst
<1>3. BranchIsCause BY DEF BranchIsCause, Cause, Bad
<1>4. PolicyAgrees BY DEF PolicyAgrees, NewPolicy
<1>5. KnownCloses BY DEF KnownCloses
<1>6. ReuseIsEarned BY DEF ReuseIsEarned
<1>7. EndsTruthfully BY DEF EndsTruthfully, NothingInFlight, OriginalErrorReported
<1> QED BY <1>1, <1>2, <1>3, <1>4, <1>5, <1>6, <1>7 DEF IInv

\* Reception, the service call, the response, cancellation and the close flag
\* keep the invariant, in whichever order they act.
LEMMA NextIInv == IInv /\ [Next]_vars => IInv'
<1> SUFFICES ASSUME IInv, [Next]_vars PROVE IInv' OBVIOUS
<1> USE ServerExchangeAssumption, NoUpgradeAssumption DEF IInv, activities, history, Bad, RecvEnds, Errors
<1>1. CASE Demand
  <2> USE <1>1 DEF Demand
  <2>1. Typed' BY DEF Typed
  <2>2. ResponseFirst' BY DEF ResponseFirst, Typed
  <2>3. BranchIsCause' BY DEF BranchIsCause, Cause, Typed
  <2>4. PolicyAgrees' BY DEF PolicyAgrees, Typed
  <2>5. KnownCloses' BY DEF KnownCloses, Typed
  <2>6. ReuseIsEarned' BY DEF ReuseIsEarned, NothingInFlight, EndsTruthfully, Typed
  <2>7. EndsTruthfully' BY DEF EndsTruthfully, NothingInFlight, OriginalErrorReported, Typed
  <2> QED BY <2>1, <2>2, <2>3, <2>4, <2>5, <2>6, <2>7
<1>2. CASE DropBody
  <2> USE <1>2 DEF DropBody
  <2>1. Typed' BY DEF Typed
  <2>2. ResponseFirst' BY DEF ResponseFirst, Typed
  <2>3. BranchIsCause' BY DEF BranchIsCause, Cause, Typed
  <2>4. PolicyAgrees' BY DEF PolicyAgrees, Typed
  <2>5. KnownCloses' BY DEF KnownCloses, Typed
  <2>6. ReuseIsEarned' BY DEF ReuseIsEarned, NothingInFlight, EndsTruthfully, Typed
  <2>7. EndsTruthfully' BY DEF EndsTruthfully, NothingInFlight, OriginalErrorReported, Typed
  <2> QED BY <2>1, <2>2, <2>3, <2>4, <2>5, <2>6, <2>7
<1>3. CASE CloseConnection
  <2> USE <1>3 DEF CloseConnection
  <2>1. Typed' BY DEF Typed
  <2>2. ResponseFirst' BY DEF ResponseFirst, Typed
  <2>3. BranchIsCause' BY DEF BranchIsCause, Cause, Typed
  <2>4. PolicyAgrees' BY DEF PolicyAgrees, Typed
  <2>5. KnownCloses' BY DEF KnownCloses, Typed
  <2>6. ReuseIsEarned' BY DEF ReuseIsEarned, NothingInFlight, EndsTruthfully, Typed
  <2>7. EndsTruthfully' BY DEF EndsTruthfully, NothingInFlight, OriginalErrorReported, Typed
  <2> QED BY <2>1, <2>2, <2>3, <2>4, <2>5, <2>6, <2>7
<1>4. CASE AbortConnection
  <2> USE <1>4 DEF AbortConnection
  <2>1. Typed' BY DEF Typed
  <2>2. ResponseFirst' BY DEF ResponseFirst, Typed
  <2>3. BranchIsCause' BY DEF BranchIsCause, Cause, Typed
  <2>4. PolicyAgrees' BY DEF PolicyAgrees, Typed
  <2>5. KnownCloses' BY DEF KnownCloses, Typed
  <2>6. ReuseIsEarned' BY DEF ReuseIsEarned, NothingInFlight, EndsTruthfully, Typed
  <2>7. EndsTruthfully' BY DEF EndsTruthfully, NothingInFlight, OriginalErrorReported, Typed
  <2> QED BY <2>1, <2>2, <2>3, <2>4, <2>5, <2>6, <2>7
<1>5. CASE AskPermission
  <2> USE <1>5 DEF AskPermission
  <2>1. Typed' BY DEF Typed
  <2>2. ResponseFirst' BY DEF ResponseFirst, Typed
  <2>3. BranchIsCause' BY DEF BranchIsCause, Cause, Typed
  <2>4. PolicyAgrees' BY DEF PolicyAgrees, Typed
  <2>5. KnownCloses' BY DEF KnownCloses, Typed
  <2>6. ReuseIsEarned' BY DEF ReuseIsEarned, NothingInFlight, EndsTruthfully, Typed
  <2>7. EndsTruthfully' BY DEF EndsTruthfully, NothingInFlight, OriginalErrorReported, Typed
  <2> QED BY <2>1, <2>2, <2>3, <2>4, <2>5, <2>6, <2>7
<1>6. CASE PermissionGranted
  <2> USE <1>6 DEF PermissionGranted
  <2>1. Typed' BY DEF Typed
  <2>2. ResponseFirst' BY DEF ResponseFirst, Typed
  <2>3. BranchIsCause' BY DEF BranchIsCause, Cause, Typed
  <2>4. PolicyAgrees' BY DEF PolicyAgrees, Typed
  <2>5. KnownCloses' BY DEF KnownCloses, Typed
  <2>6. ReuseIsEarned' BY DEF ReuseIsEarned, NothingInFlight, EndsTruthfully, Typed
  <2>7. EndsTruthfully' BY DEF EndsTruthfully, NothingInFlight, OriginalErrorReported, Typed
  <2> QED BY <2>1, <2>2, <2>3, <2>4, <2>5, <2>6, <2>7
<1>7. CASE SubmitRead
  <2> USE <1>7 DEF SubmitRead
  <2>1. Typed' BY DEF Typed
  <2>2. ResponseFirst' BY DEF ResponseFirst, Typed
  <2>3. BranchIsCause' BY DEF BranchIsCause, Cause, Typed
  <2>4. PolicyAgrees' BY DEF PolicyAgrees, Typed
  <2>5. KnownCloses' BY DEF KnownCloses, Typed
  <2>6. ReuseIsEarned' BY DEF ReuseIsEarned, NothingInFlight, EndsTruthfully, Typed
  <2>7. EndsTruthfully' BY DEF EndsTruthfully, NothingInFlight, OriginalErrorReported, Typed
  <2> QED BY <2>1, <2>2, <2>3, <2>4, <2>5, <2>6, <2>7
<1>8. CASE ReadData
  <2> USE <1>8 DEF ReadData
  <2>1. Typed' BY DEF Typed
  <2>2. ResponseFirst' BY DEF ResponseFirst, Typed
  <2>3. BranchIsCause' BY DEF BranchIsCause, Cause, Typed
  <2>4. PolicyAgrees' BY DEF PolicyAgrees, Typed
  <2>5. KnownCloses' BY DEF KnownCloses, Typed
  <2>6. ReuseIsEarned' BY DEF ReuseIsEarned, NothingInFlight, EndsTruthfully, Typed
  <2>7. EndsTruthfully' BY DEF EndsTruthfully, NothingInFlight, OriginalErrorReported, Typed
  <2> QED BY <2>1, <2>2, <2>3, <2>4, <2>5, <2>6, <2>7
<1>9. ASSUME NEW end \in RecvEnds, EndReceive(end) PROVE IInv'
  <2> USE <1>9 DEF EndReceive, ReceiveEnds, CanceledBy, Blame
  <2>1. Typed' BY DEF Typed
  <2>2. ResponseFirst' BY DEF ResponseFirst, Typed
  <2>3. BranchIsCause' BY DEF BranchIsCause, Cause, Typed
  <2>4. PolicyAgrees' BY DEF PolicyAgrees, Typed
  <2>5. KnownCloses' BY DEF KnownCloses, Typed
  <2>6. ReuseIsEarned' BY DEF ReuseIsEarned, NothingInFlight, EndsTruthfully, Typed
  <2>7. EndsTruthfully' BY DEF EndsTruthfully, NothingInFlight, OriginalErrorReported, Typed
  <2> QED BY <2>1, <2>2, <2>3, <2>4, <2>5, <2>6, <2>7
<1>10. ASSUME NEW head \in Heads, CallReturns(head) PROVE IInv'
  <2>1. /\ call = "running" /\ call' = "ok" /\ response' = <<head>> /\ send = "idle"
        /\ branch \in {"none", "receive"} /\ policy.phase = "AwaitingHead" /\ announced = "none"
        /\ outcome = "none" /\ UNCHANGED <<request, policy, incoming, canceled, aborted, announced>>
    BY <1>10 DEF CallReturns, ResponseFirst, BranchIsCause, Cause, PolicyAgrees,
       EndsTruthfully, NothingInFlight, Typed
  <2>2. CASE recv \in Bad
    <3>1. branch = "receive" BY <2>1, <2>2 DEF BranchIsCause
    <3>2. outcome' = "receive" /\ UNCHANGED <<recv, send, close, branch, known>>
      BY <1>10, <2>2 DEF CallReturns
    <3> USE <2>1, <2>2, <3>1, <3>2
    <3>3. Typed' BY DEF Typed
    <3>4. ResponseFirst' BY DEF ResponseFirst
    <3>5. BranchIsCause' BY DEF BranchIsCause, Cause
    <3>6. PolicyAgrees' /\ KnownCloses' BY DEF PolicyAgrees, KnownCloses
    <3>7. ReuseIsEarned' BY DEF ReuseIsEarned
    <3>8. EndsTruthfully' BY DEF EndsTruthfully, NothingInFlight, OriginalErrorReported, BranchIsCause, Cause
    <3> QED BY <3>3, <3>4, <3>5, <3>6, <3>7, <3>8
  <2>3. CASE recv \notin Bad
    <3>1. branch = "none" BY <2>1, <2>3 DEF BranchIsCause, Cause
    <3>2. PolledOnce BY <1>10, <2>3 DEF CallReturns
    <3>3. CASE recv' = "failed"
      <4>1. outcome' = "receive" /\ branch' = "receive" /\ UNCHANGED <<send, close, known>>
        BY <1>10, <2>3, <3>3 DEF CallReturns
      <4> USE <2>1, <2>3, <3>1, <3>3, <4>1
      <4>2. Typed' BY DEF Typed
      <4>3. ResponseFirst' BY DEF ResponseFirst
      <4>4. BranchIsCause' BY DEF BranchIsCause, Cause
      <4>5. PolicyAgrees' /\ KnownCloses' BY DEF PolicyAgrees, KnownCloses
      <4>6. ReuseIsEarned' BY DEF ReuseIsEarned
      <4>7. EndsTruthfully' BY DEF EndsTruthfully, NothingInFlight, OriginalErrorReported
      <4> QED BY <4>2, <4>3, <4>4, <4>5, <4>6, <4>7
    <3>4. CASE recv' # "failed"
      <4>1. /\ send' = "plan" /\ close' = (close \/ recv' = "abandoned")
            /\ known' = (incoming = "dropped" /\ recv \notin {"read", "complete"})
            /\ UNCHANGED <<branch, outcome>>
        BY <1>10, <2>3, <3>4 DEF CallReturns
      <4>2. recv' \notin Bad BY <2>3, <3>2, <3>4 DEF PolledOnce, Typed
      <4>3. known' => recv' = "abandoned"
        BY <4>1, <3>2, <2>3 DEF PolledOnce, Typed
      <4>4. Typed' BY <2>1, <3>2, <4>1 DEF Typed, PolledOnce
      <4>5. ResponseFirst' BY <2>1, <4>1 DEF ResponseFirst
      <4>6. BranchIsCause' BY <2>1, <3>1, <4>1, <4>2 DEF BranchIsCause, Cause
      <4>7. PolicyAgrees' BY <2>1, <4>1 DEF PolicyAgrees
      <4>8. KnownCloses' BY <2>1, <4>1, <4>3 DEF KnownCloses
      <4>9. ReuseIsEarned' /\ EndsTruthfully'
        BY <2>1, <4>1 DEF ReuseIsEarned, EndsTruthfully, NothingInFlight, OriginalErrorReported
      <4> QED BY <4>4, <4>5, <4>6, <4>7, <4>8, <4>9
    <3> QED BY <3>3, <3>4
  <2> QED BY <2>2, <2>3
<1>11. ASSUME NEW end \in Bad, CallFails(end) PROVE IInv'
  <2> USE <1>11 DEF CallFails, Blame
  <2>1. Typed' BY DEF Typed
  <2>2. ResponseFirst' BY DEF ResponseFirst, Typed
  <2>3. BranchIsCause' BY DEF BranchIsCause, Cause, Typed
  <2>4. PolicyAgrees' BY DEF PolicyAgrees, Typed
  <2>5. KnownCloses' BY DEF KnownCloses, Typed
  <2>6. ReuseIsEarned' BY DEF ReuseIsEarned, NothingInFlight, EndsTruthfully, Typed
  <2>7. EndsTruthfully' BY DEF EndsTruthfully, NothingInFlight, OriginalErrorReported, Typed
  <2> QED BY <2>1, <2>2, <2>3, <2>4, <2>5, <2>6, <2>7
<1>12. CASE Plan
  <2>1. /\ send = "plan" /\ outcome = "none" /\ call = "ok" /\ policy.phase = "AwaitingHead"
        /\ UNCHANGED <<request, incoming, recv, call, response, close, aborted, known, outcome>>
    BY <1>12 DEF Plan, ResponseFirst, PolicyAgrees
  <2>2. PICK head \in Heads : response = <<head>> BY <2>1 DEF ResponseFirst
  <2>3. response[1] = head BY <2>2
  <2>4. CASE ~Acceptable(head)
    <3>1. /\ send' = "failed" /\ canceled' = TRUE
          /\ branch' = IF branch = "none" THEN "send" ELSE branch
          /\ UNCHANGED <<policy, announced>>
      BY <1>12, <2>3, <2>4 DEF Plan, SendSettles, Blame
    <3> USE <2>1, <3>1
    <3>2. Typed' BY DEF Typed
    <3>3. ResponseFirst' BY DEF ResponseFirst
    <3>4. BranchIsCause' BY DEF BranchIsCause, Cause
    <3>5. PolicyAgrees' /\ KnownCloses' BY DEF PolicyAgrees, KnownCloses
    <3>6. ReuseIsEarned' /\ EndsTruthfully'
      BY DEF ReuseIsEarned, EndsTruthfully, NothingInFlight, OriginalErrorReported
    <3> QED BY <3>2, <3>3, <3>4, <3>5, <3>6
  <2>5. CASE Acceptable(head)
    <3> DEFINE committed == [head EXCEPT !.reuse = @ /\ ~close]
    <3>1. /\ send' = "write" /\ policy' = AfterHead(policy, committed)
          /\ announced' = Announcement(head) /\ UNCHANGED <<canceled, branch>>
      BY <1>12, <2>3, <2>5 DEF Plan
    <3>2. head \in HeadRecords OBVIOUS
    <3>3. head.class \in {"final", "upgrade"} /\ (head.class = "upgrade" => head.upgrade \in Kinds)
      BY <3>2, <2>5 DEF HeadRecords, Acceptable
    <3>4. committed.class = head.class /\ committed.reuse = (head.reuse /\ ~close)
      BY <3>2 DEF HeadRecords
    <3>5. ASSUME head.class = "upgrade" PROVE policy' \in Policies(0) /\ PolicyAgrees'
      <4>1. policy' = [policy EXCEPT !.phase = "Upgrade"] BY <3>1, <3>4, <3>5 DEF AfterHead
      <4>2. policy.upgrade = head.upgrade BY <2>5, <3>5 DEF Acceptable, UpgradeAgreed
      <4>3. policy' \in Policies(0) /\ policy'.phase = "Upgrade" /\ policy'.upgrade = request.upgrade
        BY <4>1 DEF Policies, Typed, PolicyAgrees
      <4>4. PolicyAgrees' BY <2>1, <2>3, <3>1, <3>3, <3>5, <4>2, <4>3 DEF PolicyAgrees
      <4> QED BY <4>3, <4>4
    <3>6. ASSUME head.class = "final" PROVE policy' \in Policies(0) /\ PolicyAgrees'
      <4>1. policy' = [policy EXCEPT !.phase = "Final", !.reuse = policy.reuse /\ committed.reuse]
        BY <3>1, <3>4, <3>6 DEF AfterHead, StillReusable
      <4>2. /\ policy' \in Policies(0) /\ policy'.phase = "Final" /\ policy'.upgrade = request.upgrade
            /\ policy'.reuse => policy.reuse /\ head.reuse
        BY <4>1, <3>2, <3>4 DEF Policies, Typed, PolicyAgrees, HeadRecords
      <4>3. PolicyAgrees' BY <2>1, <2>3, <3>1, <4>2 DEF PolicyAgrees
      <4> QED BY <4>2, <4>3
    <3>7. policy' \in Policies(0) /\ PolicyAgrees' BY <3>3, <3>5, <3>6
    <3>8. Typed' BY <2>1, <3>1, <3>7 DEF Typed
    <3>9. ResponseFirst' BY <2>1, <3>1 DEF ResponseFirst
    <3>10. BranchIsCause' BY <2>1, <3>1 DEF BranchIsCause, Cause
    <3>11. KnownCloses' BY <2>1, <3>1 DEF KnownCloses, Announcement
    <3>12. ReuseIsEarned' /\ EndsTruthfully'
      BY <2>1, <3>1 DEF ReuseIsEarned, EndsTruthfully, NothingInFlight, OriginalErrorReported
    <3> QED BY <3>7, <3>8, <3>9, <3>10, <3>11, <3>12
  <2> QED BY <2>4, <2>5
<1>13. ASSUME NEW end \in {"ok"} \cup Bad, EndSend(end) PROVE IInv'
  <2> USE <1>13 DEF EndSend, SendSettles, Blame
  <2>1. Typed' BY DEF Typed
  <2>2. ResponseFirst' BY DEF ResponseFirst, Typed
  <2>3. BranchIsCause' BY DEF BranchIsCause, Cause, Typed
  <2>4. PolicyAgrees' BY DEF PolicyAgrees, Typed
  <2>5. KnownCloses' BY DEF KnownCloses, Typed
  <2>6. ReuseIsEarned' BY DEF ReuseIsEarned, NothingInFlight, EndsTruthfully, Typed
  <2>7. EndsTruthfully' BY DEF EndsTruthfully, NothingInFlight, OriginalErrorReported, Typed
  <2> QED BY <2>1, <2>2, <2>3, <2>4, <2>5, <2>6, <2>7
<1>14. CASE Settle
  <2> DEFINE composed ==
        Finished(FinalPolicy, IF recv = "abandoned" THEN "Retired" ELSE "Complete", "Complete")
  <2>1. /\ recv \in RecvEnds /\ call # "running" /\ (call = "ok" => send \in {"ok"} \cup Bad)
        /\ outcome' = IF branch # "none" THEN branch ELSE composed
        /\ UNCHANGED <<request, policy, incoming, recv, call, send, response, close, canceled, branch,
                       aborted, announced, known>>
    BY <1>14 DEF Settle, Awaited
  <2>2. /\ FinalPolicy.phase = policy.phase
        /\ FinalPolicy.reuse => policy.reuse /\ ~close
    BY DEF FinalPolicy, Closing, Typed, Policies
  <2>3. composed \in {"Close", "Internal", "Handoff", "Reusable"}
    BY <2>2 DEF Finished, Typed, Policies
  <2>4. composed = "Reusable" => recv # "abandoned" /\ policy.phase = "Final" /\ policy.reuse /\ ~close
    BY <2>2 DEF Finished, Typed, Policies
  <2>5. composed = "Handoff" => recv # "abandoned" /\ policy.phase = "Upgrade"
    BY <2>2 DEF Finished, Typed, Policies
  <2> HIDE DEF composed
  <2>6. Typed' /\ KnownCloses' BY <2>1 DEF Typed, KnownCloses
  <2>7. outcome' # "none" BY <2>1, <2>3
  <2>8. ResponseFirst' BY <2>1, <2>7 DEF ResponseFirst
  <2>9. BranchIsCause' /\ PolicyAgrees' BY <2>1 DEF BranchIsCause, Cause, PolicyAgrees
  <2>10. EndsTruthfully'
    <3>1. NothingInFlight' BY <2>1 DEF NothingInFlight, ResponseFirst, Typed
    <3>2. branch # "none" => OriginalErrorReported'
      BY <2>1 DEF OriginalErrorReported, BranchIsCause, Cause
    <3>3. branch = "none" => OriginalErrorReported' BY <2>1, <2>3 DEF OriginalErrorReported
    <3> QED BY <3>1, <3>2, <3>3 DEF EndsTruthfully
  <2>11. ReuseIsEarned'
    <3> SUFFICES ASSUME outcome' \in {"Reusable", "Handoff"} PROVE ReuseIsEarned' BY DEF ReuseIsEarned
    <3>1. branch = "none" /\ outcome' = composed BY <2>1 DEF Typed
    <3>2. recv = "complete" /\ call = "ok" /\ send = "ok" /\ (canceled => aborted)
      BY <2>1, <2>4, <2>5, <3>1 DEF BranchIsCause, Typed
    <3>3. outcome' = "Reusable" => ~close /\ request.reuse /\ response[1].reuse
      BY <2>4, <3>1 DEF PolicyAgrees
    <3>4. outcome' = "Handoff" => response[1].upgrade = request.upgrade /\ request.upgrade # NoUpgrade
      BY <2>5, <3>1 DEF PolicyAgrees
    <3> QED BY <2>1, <3>2, <3>3, <3>4 DEF ReuseIsEarned
  <2> QED BY <2>6, <2>8, <2>9, <2>10, <2>11
<1>15. CASE UNCHANGED vars
  <2> USE <1>15 DEF vars
  <2>1. Typed' BY DEF Typed
  <2>2. ResponseFirst' BY DEF ResponseFirst, Typed
  <2>3. BranchIsCause' BY DEF BranchIsCause, Cause, Typed
  <2>4. PolicyAgrees' BY DEF PolicyAgrees, Typed
  <2>5. KnownCloses' BY DEF KnownCloses, Typed
  <2>6. ReuseIsEarned' BY DEF ReuseIsEarned, NothingInFlight, EndsTruthfully, Typed
  <2>7. EndsTruthfully' BY DEF EndsTruthfully, NothingInFlight, OriginalErrorReported, Typed
  <2> QED BY <2>1, <2>2, <2>3, <2>4, <2>5, <2>6, <2>7
<1> QED BY <1>1, <1>2, <1>3, <1>4, <1>5, <1>6, <1>7, <1>8, <1>9, <1>10, <1>11, <1>12, <1>13, <1>14, <1>15 DEF Next

\* For any set of response heads, the connection is reused or handed over only
\* after both directions completed and both messages agreed.
THEOREM ReuseIsAlwaysEarned == Spec => []ReuseIsEarned
<1>1. IInv => ReuseIsEarned BY DEF IInv
<1> QED BY <1>1, InitIInv, NextIInv, PTL DEF Spec

\* However activities fail and cancel each other, the exchange reports the
\* original error and leaves nothing in flight.
THEOREM ExchangeEndsTruthfully == Spec => []EndsTruthfully
<1>1. IInv => EndsTruthfully BY DEF IInv
<1> QED BY <1>1, InitIInv, NextIInv, PTL DEF Spec

\* A response committed after a visible abandonment never offers to persist.
THEOREM AbandonmentIsAnnounced == Spec => []AbandonmentAnnounced
<1>1. IInv => AbandonmentAnnounced BY DEF IInv, KnownCloses, AbandonmentAnnounced
<1> QED BY <1>1, InitIInv, NextIInv, PTL DEF Spec
=============================================================================
