------------------------ MODULE ClientExchangeProofs ------------------------
(***************************************************************************)
(* How a client exchange ends, for any response heads and any limit on     *)
(* informational ones.                                                     *)
(***************************************************************************)
EXTENDS ClientExchange, TLAPS

\* The part of TypeOK the argument uses.
Typed ==
    /\ request \in Requests
    /\ policy \in Policies(MaxInformational)
    /\ send \in {"prepare", "head", "flushHead", "waitContinue", "body", "flush"} \cup SendEnds
    /\ recv \in {"prepare", "awaitHead", "offerInformational", "offerFinal", "body"} \cup RecvEnds
    /\ first \in {"none", "send", "receive"}
    /\ slot \in {"none", "informational", "final", "failure"}
    /\ observer \in {"watching", "delivered", "failed", "dropped"}
    /\ incoming \in {"none", "open", "ended", "error", "dropped"}

\* Both directions start together, the race has a winner once one of them
\* ended, and the outcome follows both ends.
Staged ==
    /\ uploadComplete <=> send = "ok"
    /\ send = "prepare" <=> recv = "prepare"
    /\ first = "none" <=> send \notin SendEnds /\ recv \notin RecvEnds
    /\ first = "send" => send \in SendEnds
    /\ first = "receive" => recv \in RecvEnds
    /\ outcome = "Unprepared" => send = "prepare"
    /\ outcome \notin {"none", "Unprepared"} => send \in SendEnds /\ recv \in RecvEnds

\* The policy is what the request and the final head, once there, make it.
PolicyAgrees ==
    /\ policy.upgrade = request.upgrade
    /\ policy.phase = "AwaitingHead" => policy.reuse = request.reuse
    /\ recv \in {"prepare", "awaitHead", "offerInformational"} => policy.phase = "AwaitingHead"
    /\ recv \in {"offerFinal", "body", "complete", "abandoned"} => policy.phase # "AwaitingHead"
    /\ policy.phase = "Final" =>
           final[1].class = "final" /\ (policy.reuse <=> request.reuse /\ final[1].reuse)
    /\ policy.phase = "Upgrade" => final[1].class = "upgrade" /\ final[1].upgrade = request.upgrade

\* What the application has seen is what reception has offered it.
Observed ==
    /\ slot = "informational" => recv = "offerInformational"
    /\ slot = "final" => recv = "offerFinal"
    /\ slot = "failure" => outcome # "none"
    /\ recv = "offerFinal" /\ observer = "watching" => slot = "final"
    /\ recv \in {"body", "complete", "abandoned"} => observer = "delivered"
    /\ observer = "failed" => outcome # "none"
    /\ observer = "delivered" => recv \in {"offerFinal", "body"} \cup RecvEnds

\* The response body follows reception: there is one only after delivery, and
\* it is settled when reception is.
BodyFollows ==
    /\ observer = "delivered" <=> incoming # "none"
    /\ observer = "delivered" /\ recv = "offerFinal" =>
           incoming \in IF final[1].body THEN {"open", "dropped"} ELSE {"ended"}
    /\ recv = "body" => incoming \in {"open", "dropped"}
    /\ recv = "complete" => incoming \in {"ended", "dropped"}
    /\ recv = "abandoned" => incoming = "dropped"
    /\ recv \in RecvEnds => incoming # "open"

\* An upload is told to stop by an abort, or together with the exchange.
UploadStops == uploadToken => aborted \/ exchangeToken

\* The inductive invariant.
IInv ==
    /\ Typed
    /\ Staged
    /\ PolicyAgrees
    /\ Observed
    /\ BodyFollows
    /\ UploadStops
    /\ ReuseIsEarned
    /\ ReasonsAreTrue
    /\ FailureSurvives
    /\ ApplicationAnswered
    /\ AbortSparesResponse
    /\ PeerIsStopped

-----------------------------------------------------------------------------
\* An exchange that has not been prepared satisfies the invariant.
LEMMA InitIInv == Init => IInv
<1> SUFFICES ASSUME Init PROVE IInv OBVIOUS
<1> USE DEF Init, SendEnds, RecvEnds
<1>1. Typed BY ClientExchangeAssumption DEF Typed, NewPolicy, Policies, Requests
<1>2. Staged BY DEF Staged
<1>3. PolicyAgrees BY DEF PolicyAgrees, NewPolicy
<1>4. Observed /\ BodyFollows BY DEF Observed, BodyFollows
<1>5. UploadStops /\ AbortSparesResponse /\ PeerIsStopped BY DEF UploadStops, AbortSparesResponse, PeerIsStopped
<1>6. ReuseIsEarned /\ ReasonsAreTrue /\ FailureSurvives BY DEF ReuseIsEarned, ReasonsAreTrue, FailureSurvives
<1>7. ApplicationAnswered BY DEF ApplicationAnswered
<1> QED BY <1>1, <1>2, <1>3, <1>4, <1>5, <1>6, <1>7 DEF IInv

\* A settling direction cancels the exchange and the upload together or not at
\* all.
LEMMA TokensTogether ==
    ASSUME NEW end, ReceiveSettles(end) \/ SendSettles(end)
    PROVE  (exchangeToken => exchangeToken') /\ (uploadToken' => uploadToken \/ exchangeToken')
<1>1. ASSUME NEW condition, CancelIf(condition)
      PROVE  (exchangeToken => exchangeToken') /\ (uploadToken' => uploadToken \/ exchangeToken')
  BY <1>1 DEF CancelIf
<1>2. ASSUME UNCHANGED <<exchangeToken, uploadToken>>
      PROVE  (exchangeToken => exchangeToken') /\ (uploadToken' => uploadToken \/ exchangeToken')
  BY <1>2
<1> QED BY <1>1, <1>2 DEF ReceiveSettles, SendSettles

\* Neither direction, the application, an abort nor the settlement breaks it,
\* in whichever order they act.
LEMMA NextIInv == IInv /\ [Next]_vars => IInv'
<1> SUFFICES ASSUME IInv, [Next]_vars PROVE IInv' OBVIOUS
<1> USE DEF IInv, control, permission, observation, SendEnds, RecvEnds
<1>1. CASE Prepare
  <2> USE <1>1 DEF Prepare
  <2>1. Typed' BY DEF Typed, BodyFollows
  <2>2. Staged' BY DEF Staged, Typed
  <2>3. PolicyAgrees' BY DEF PolicyAgrees, Staged
  <2>4. Observed' BY DEF Observed, Staged, Typed
  <2>5. BodyFollows' BY DEF BodyFollows, Observed, Staged, Typed
  <2>6. UploadStops' BY DEF UploadStops, Staged
  <2>7. AbortSparesResponse' BY DEF AbortSparesResponse, UploadStops, Staged
  <2>8. PeerIsStopped' BY DEF PeerIsStopped, UploadStops, Staged, Typed
  <2>9. ReuseIsEarned' /\ ReasonsAreTrue' /\ FailureSurvives'
    BY DEF ReuseIsEarned, ReasonsAreTrue, FailureSurvives, Observed, Staged, Typed
  <2>10. ApplicationAnswered' BY DEF ApplicationAnswered, Observed, BodyFollows, Staged, Typed
  <2> QED BY <2>1, <2>2, <2>3, <2>4, <2>5, <2>6, <2>7, <2>8, <2>9, <2>10
<1>2. CASE SendStep
  <2> USE <1>2 DEF SendStep, AfterSending, BodyOrFlush
  <2>1. Typed' BY DEF Typed, BodyFollows
  <2>2. Staged' BY DEF Staged, Typed
  <2>3. PolicyAgrees' BY DEF PolicyAgrees, Staged
  <2>4. Observed' BY DEF Observed, Staged, Typed
  <2>5. BodyFollows' BY DEF BodyFollows, Observed, Staged, Typed
  <2>6. UploadStops' BY DEF UploadStops, Staged
  <2>7. AbortSparesResponse' BY DEF AbortSparesResponse, UploadStops, Staged
  <2>8. PeerIsStopped' BY DEF PeerIsStopped, UploadStops, Staged, Typed
  <2>9. ReuseIsEarned' /\ ReasonsAreTrue' /\ FailureSurvives'
    BY DEF ReuseIsEarned, ReasonsAreTrue, FailureSurvives, Observed, Staged, Typed
  <2>10. ApplicationAnswered' BY DEF ApplicationAnswered, Observed, BodyFollows, Staged, Typed
  <2> QED BY <2>1, <2>2, <2>3, <2>4, <2>5, <2>6, <2>7, <2>8, <2>9, <2>10
<1>3. CASE PollContinue
  <2> USE <1>3 DEF PollContinue
  <2>1. Typed' BY DEF Typed, BodyFollows
  <2>2. Staged' BY DEF Staged, Typed
  <2>3. PolicyAgrees' BY DEF PolicyAgrees, Staged
  <2>4. Observed' BY DEF Observed, Staged, Typed
  <2>5. BodyFollows' BY DEF BodyFollows, Observed, Staged, Typed
  <2>6. UploadStops' BY DEF UploadStops, Staged
  <2>7. AbortSparesResponse' BY DEF AbortSparesResponse, UploadStops, Staged
  <2>8. PeerIsStopped' BY DEF PeerIsStopped, UploadStops, Staged, Typed
  <2>9. ReuseIsEarned' /\ ReasonsAreTrue' /\ FailureSurvives'
    BY DEF ReuseIsEarned, ReasonsAreTrue, FailureSurvives, Observed, Staged, Typed
  <2>10. ApplicationAnswered' BY DEF ApplicationAnswered, Observed, BodyFollows, Staged, Typed
  <2> QED BY <2>1, <2>2, <2>3, <2>4, <2>5, <2>6, <2>7, <2>8, <2>9, <2>10
<1>4. CASE SendDone
  <2> USE <1>4 DEF SendDone, SendSettles, StopsReceive, CancelIf
  <2>1. Typed' BY DEF Typed, BodyFollows
  <2>2. Staged' BY DEF Staged, Typed
  <2>3. PolicyAgrees' BY DEF PolicyAgrees, Staged
  <2>4. Observed' BY DEF Observed, Staged, Typed
  <2>5. BodyFollows' BY DEF BodyFollows, Observed, Staged, Typed
  <2>6. UploadStops' BY DEF UploadStops, Staged
  <2>7. AbortSparesResponse' BY DEF AbortSparesResponse, UploadStops, Staged
  <2>8. PeerIsStopped' BY DEF PeerIsStopped, UploadStops, Staged, Typed
  <2>9. ReuseIsEarned' /\ ReasonsAreTrue' /\ FailureSurvives'
    BY DEF ReuseIsEarned, ReasonsAreTrue, FailureSurvives, Observed, Staged, Typed
  <2>10. ApplicationAnswered' BY DEF ApplicationAnswered, Observed, BodyFollows, Staged, Typed
  <2> QED BY <2>1, <2>2, <2>3, <2>4, <2>5, <2>6, <2>7, <2>8, <2>9, <2>10
<1>5. CASE ContinueTimeout
  <2> USE <1>5 DEF ContinueTimeout
  <2>1. Typed' BY DEF Typed, BodyFollows
  <2>2. Staged' BY DEF Staged, Typed
  <2>3. PolicyAgrees' BY DEF PolicyAgrees, Staged
  <2>4. Observed' BY DEF Observed, Staged, Typed
  <2>5. BodyFollows' BY DEF BodyFollows, Observed, Staged, Typed
  <2>6. UploadStops' BY DEF UploadStops, Staged
  <2>7. AbortSparesResponse' BY DEF AbortSparesResponse, UploadStops, Staged
  <2>8. PeerIsStopped' BY DEF PeerIsStopped, UploadStops, Staged, Typed
  <2>9. ReuseIsEarned' /\ ReasonsAreTrue' /\ FailureSurvives'
    BY DEF ReuseIsEarned, ReasonsAreTrue, FailureSurvives, Observed, Staged, Typed
  <2>10. ApplicationAnswered' BY DEF ApplicationAnswered, Observed, BodyFollows, Staged, Typed
  <2> QED BY <2>1, <2>2, <2>3, <2>4, <2>5, <2>6, <2>7, <2>8, <2>9, <2>10
<1>6. ASSUME NEW end \in {"canceled", "failed"}, SendStops(end) PROVE IInv'
  <2> USE <1>6 DEF SendStops, SendSettles, StopsReceive, CancelIf
  <2>1. Typed' BY DEF Typed, BodyFollows
  <2>2. Staged' BY DEF Staged, Typed
  <2>3. PolicyAgrees' BY DEF PolicyAgrees, Staged
  <2>4. Observed' BY DEF Observed, Staged, Typed
  <2>5. BodyFollows' BY DEF BodyFollows, Observed, Staged, Typed
  <2>6. UploadStops' BY TokensTogether DEF UploadStops
  <2>7. AbortSparesResponse' BY DEF AbortSparesResponse, UploadStops, Staged
  <2>8. PeerIsStopped' BY DEF PeerIsStopped, UploadStops, Staged, Typed
  <2>9. ReuseIsEarned' /\ ReasonsAreTrue' /\ FailureSurvives'
    BY DEF ReuseIsEarned, ReasonsAreTrue, FailureSurvives, Observed, Staged, Typed
  <2>10. ApplicationAnswered' BY DEF ApplicationAnswered, Observed, BodyFollows, Staged, Typed
  <2> QED BY <2>1, <2>2, <2>3, <2>4, <2>5, <2>6, <2>7, <2>8, <2>9, <2>10
<1>7. ASSUME NEW head \in Heads, ReceiveHead(head) PROVE IInv'
  <2>1. recv = "awaitHead" /\ outcome = "none" /\ policy.phase = "AwaitingHead" /\ observer # "delivered"
        /\ UNCHANGED <<request, send, uploadComplete, aborted, observer, incoming, shutdown, outcome>>
    BY <1>7 DEF ReceiveHead, Staged, PolicyAgrees, Observed, Typed
  <2>2. CASE HeadAction(policy, head, MaxInformational) = "Error"
    <3>1. ReceiveSettles("failed") /\ UNCHANGED <<policy, slot, final>>
      BY <1>7, <2>2 DEF ReceiveHead, permission
    <3> USE <2>1, <3>1 DEF ReceiveSettles, StopsUpload, CancelIf
    <3>2. Typed' BY DEF Typed
    <3>3. Staged' BY DEF Staged, Typed
    <3>4. PolicyAgrees' BY DEF PolicyAgrees
    <3>5. Observed' BY DEF Observed
    <3>6. BodyFollows' BY DEF BodyFollows
    <3>7. UploadStops' BY TokensTogether DEF UploadStops
    <3>8. AbortSparesResponse' BY DEF AbortSparesResponse
    <3>9. PeerIsStopped' BY DEF PeerIsStopped, Staged, Typed
    <3>10. ReuseIsEarned' /\ ReasonsAreTrue' /\ FailureSurvives' /\ ApplicationAnswered'
      BY DEF ReuseIsEarned, ReasonsAreTrue, FailureSurvives, ApplicationAnswered
    <3> QED BY <3>2, <3>3, <3>4, <3>5, <3>6, <3>7, <3>8, <3>9, <3>10
  <2>3. CASE HeadAction(policy, head, MaxInformational) # "Error"
    <3>1. /\ policy' = AfterHead(policy, head)
          /\ UNCHANGED <<first, exchangeToken, uploadToken>>
          /\ \/ /\ head.class = "informational" /\ recv' = "offerInformational"
                /\ slot' = "informational" /\ UNCHANGED final
             \/ /\ head.class # "informational" /\ recv' = "offerFinal"
                /\ slot' = "final" /\ final' = <<head>>
      BY <1>7, <2>3 DEF ReceiveHead
    <3>2. head \in HeadRecords BY ClientExchangeAssumption
    <3>3. head.class \in {"informational", "final", "upgrade"} BY <3>2 DEF HeadRecords
    <3>4. ASSUME head.class = "informational"
          PROVE  policy' \in Policies(MaxInformational) /\ PolicyAgrees'
      <4>1. policy.informational < MaxInformational
        BY <2>1, <2>3, <3>4, ClientExchangeAssumption DEF HeadAction, AtLimit, Typed, Policies
      <4>2. policy' = [policy EXCEPT !.informational = @ + 1] BY <3>1, <3>4 DEF AfterHead
      <4>3. policy' \in Policies(MaxInformational)
        BY <4>1, <4>2, ClientExchangeAssumption DEF Typed, Policies
      <4>4. policy'.phase = policy.phase /\ policy'.reuse = policy.reuse /\ policy'.upgrade = policy.upgrade
        BY <4>2 DEF Typed, Policies
      <4> QED BY <2>1, <3>1, <3>4, <4>3, <4>4 DEF PolicyAgrees
    <3>5. ASSUME head.class # "informational" PROVE final'[1] = head /\ recv' = "offerFinal"
      BY <3>1, <3>5
    <3>6. ASSUME head.class = "final"
          PROVE  policy' \in Policies(MaxInformational) /\ PolicyAgrees'
      <4>1. policy' = [policy EXCEPT !.phase = "Final", !.reuse = policy.reuse /\ head.reuse]
        BY <3>1, <3>6 DEF AfterHead, StillReusable
      <4>2. /\ policy' \in Policies(MaxInformational) /\ policy'.phase = "Final"
            /\ policy'.upgrade = policy.upgrade /\ (policy'.reuse <=> policy.reuse /\ head.reuse)
        BY <4>1, <3>2 DEF Typed, Policies, HeadRecords
      <4> QED BY <2>1, <3>5, <3>6, <4>2 DEF PolicyAgrees
    <3>7. ASSUME head.class = "upgrade"
          PROVE  policy' \in Policies(MaxInformational) /\ PolicyAgrees'
      <4>1. policy' = [policy EXCEPT !.phase = "Upgrade"] BY <3>1, <3>7 DEF AfterHead
      <4>2. policy.upgrade = head.upgrade BY <2>1, <2>3, <3>7 DEF HeadAction, UpgradeAgreed
      <4>3. policy' \in Policies(MaxInformational) /\ policy'.phase = "Upgrade" /\ policy'.upgrade = policy.upgrade
        BY <4>1 DEF Typed, Policies
      <4> QED BY <2>1, <3>5, <3>7, <4>2, <4>3 DEF PolicyAgrees
    <3>8. policy' \in Policies(MaxInformational) /\ PolicyAgrees' BY <3>3, <3>4, <3>6, <3>7
    <3> USE <2>1, <3>1
    <3>9. Typed' BY <3>8 DEF Typed
    <3>10. Staged' BY DEF Staged
    <3>11. Observed' BY DEF Observed, Typed
    <3>12. BodyFollows' BY DEF BodyFollows
    <3>13. UploadStops' /\ AbortSparesResponse' BY DEF UploadStops, AbortSparesResponse
    <3>14. PeerIsStopped' BY DEF PeerIsStopped
    <3>15. ReuseIsEarned' /\ ReasonsAreTrue' /\ FailureSurvives' /\ ApplicationAnswered'
      BY DEF ReuseIsEarned, ReasonsAreTrue, FailureSurvives, ApplicationAnswered
    <3> QED BY <3>8, <3>9, <3>10, <3>11, <3>12, <3>13, <3>14, <3>15
  <2> QED BY <2>2, <2>3
<1>8. CASE ReceiveFails
  <2> USE <1>8 DEF ReceiveFails, ReceiveSettles, StopsUpload, CancelIf
  <2>1. Typed' BY DEF Typed, BodyFollows
  <2>2. Staged' BY DEF Staged, Typed
  <2>3. PolicyAgrees' BY DEF PolicyAgrees, Staged
  <2>4. Observed' BY DEF Observed, Staged, Typed
  <2>5. BodyFollows' BY DEF BodyFollows, Observed, Staged, Typed
  <2>6. UploadStops' BY TokensTogether DEF UploadStops
  <2>7. AbortSparesResponse' BY DEF AbortSparesResponse, UploadStops, Staged
  <2>8. PeerIsStopped' BY DEF PeerIsStopped, UploadStops, Staged, Typed
  <2>9. ReuseIsEarned' /\ ReasonsAreTrue' /\ FailureSurvives'
    BY DEF ReuseIsEarned, ReasonsAreTrue, FailureSurvives, Observed, Staged, Typed
  <2>10. ApplicationAnswered' BY DEF ApplicationAnswered, Observed, BodyFollows, Staged, Typed
  <2> QED BY <2>1, <2>2, <2>3, <2>4, <2>5, <2>6, <2>7, <2>8, <2>9, <2>10
<1>9. CASE ReceiveCanceled
  <2> USE <1>9 DEF ReceiveCanceled, ReceiveSettles, StopsUpload, CancelIf
  <2>1. Typed' BY DEF Typed, BodyFollows
  <2>2. Staged' BY DEF Staged, Typed
  <2>3. PolicyAgrees' BY DEF PolicyAgrees, Staged
  <2>4. Observed' BY DEF Observed, Staged, Typed
  <2>5. BodyFollows' BY DEF BodyFollows, Observed, Staged, Typed
  <2>6. UploadStops' BY TokensTogether DEF UploadStops
  <2>7. AbortSparesResponse' BY DEF AbortSparesResponse, UploadStops, Staged
  <2>8. PeerIsStopped' BY DEF PeerIsStopped, UploadStops, Staged, Typed
  <2>9. ReuseIsEarned' /\ ReasonsAreTrue' /\ FailureSurvives'
    BY DEF ReuseIsEarned, ReasonsAreTrue, FailureSurvives, Observed, Staged, Typed
  <2>10. ApplicationAnswered' BY DEF ApplicationAnswered, Observed, BodyFollows, Staged, Typed
  <2> QED BY <2>1, <2>2, <2>3, <2>4, <2>5, <2>6, <2>7, <2>8, <2>9, <2>10
<1>10. CASE OfferTaken
  <2> USE <1>10 DEF OfferTaken, ReceiveSettles, StopsUpload, CancelIf
  <2>1. Typed' BY DEF Typed, BodyFollows
  <2>2. Staged' BY DEF Staged, Typed
  <2>3. PolicyAgrees' BY DEF PolicyAgrees, Staged
  <2>4. Observed' BY DEF Observed, Staged, Typed
  <2>5. BodyFollows' BY DEF BodyFollows, Observed, Staged, Typed
  <2>6. UploadStops'
    <3>1. CASE ReceiveSettles("complete") BY <3>1, TokensTogether DEF UploadStops
    <3>2. CASE UNCHANGED <<first, exchangeToken, uploadToken>> BY <3>2 DEF UploadStops
    <3> QED BY <3>1, <3>2
  <2>7. AbortSparesResponse' BY DEF AbortSparesResponse, UploadStops, Staged
  <2>8. PeerIsStopped' BY DEF PeerIsStopped, UploadStops, Staged, Typed
  <2>9. ReuseIsEarned' /\ ReasonsAreTrue' /\ FailureSurvives'
    BY DEF ReuseIsEarned, ReasonsAreTrue, FailureSurvives, Observed, Staged, Typed
  <2>10. ApplicationAnswered' BY DEF ApplicationAnswered, Observed, BodyFollows, Staged, Typed
  <2> QED BY <2>1, <2>2, <2>3, <2>4, <2>5, <2>6, <2>7, <2>8, <2>9, <2>10
<1>11. ASSUME NEW end \in {"complete", "abandoned", "failed"}, BodyEnds(end) PROVE IInv'
  <2> USE <1>11 DEF BodyEnds, ReceiveSettles, StopsUpload, CancelIf
  <2>1. Typed' BY DEF Typed, BodyFollows
  <2>2. Staged' BY DEF Staged, Typed
  <2>3. PolicyAgrees' BY DEF PolicyAgrees, Staged
  <2>4. Observed' BY DEF Observed, Staged, Typed
  <2>5. BodyFollows' BY DEF BodyFollows, Observed, Staged, Typed
  <2>6. UploadStops' BY TokensTogether DEF UploadStops
  <2>7. AbortSparesResponse' BY DEF AbortSparesResponse, UploadStops, Staged
  <2>8. PeerIsStopped' BY DEF PeerIsStopped, UploadStops, Staged, Typed
  <2>9. ReuseIsEarned' /\ ReasonsAreTrue' /\ FailureSurvives'
    BY DEF ReuseIsEarned, ReasonsAreTrue, FailureSurvives, Observed, Staged, Typed
  <2>10. ApplicationAnswered' BY DEF ApplicationAnswered, Observed, BodyFollows, Staged, Typed
  <2> QED BY <2>1, <2>2, <2>3, <2>4, <2>5, <2>6, <2>7, <2>8, <2>9, <2>10
<1>12. CASE TakeEvent
  <2> USE <1>12 DEF TakeEvent
  <2>1. Typed' BY DEF Typed, BodyFollows
  <2>2. Staged' BY DEF Staged, Typed
  <2>3. PolicyAgrees' BY DEF PolicyAgrees, Staged
  <2>4. Observed' BY DEF Observed, Staged, Typed
  <2>5. BodyFollows' BY DEF BodyFollows, Observed, Staged, Typed
  <2>6. UploadStops' BY DEF UploadStops, Staged
  <2>7. AbortSparesResponse' BY DEF AbortSparesResponse, UploadStops, Staged
  <2>8. PeerIsStopped' BY DEF PeerIsStopped, UploadStops, Staged, Typed
  <2>9. ReuseIsEarned' /\ ReasonsAreTrue' /\ FailureSurvives'
    BY DEF ReuseIsEarned, ReasonsAreTrue, FailureSurvives, Observed, Staged, Typed
  <2>10. ApplicationAnswered' BY DEF ApplicationAnswered, Observed, BodyFollows, Staged, Typed
  <2> QED BY <2>1, <2>2, <2>3, <2>4, <2>5, <2>6, <2>7, <2>8, <2>9, <2>10
<1>13. CASE DropObserver
  <2> USE <1>13 DEF DropObserver, CancelIf
  <2>1. Typed' BY DEF Typed, BodyFollows
  <2>2. Staged' BY DEF Staged, Typed
  <2>3. PolicyAgrees' BY DEF PolicyAgrees, Staged
  <2>4. Observed' BY DEF Observed, Staged, Typed
  <2>5. BodyFollows' BY DEF BodyFollows, Observed, Staged, Typed
  <2>6. UploadStops' BY DEF UploadStops, Staged
  <2>7. AbortSparesResponse' BY DEF AbortSparesResponse, UploadStops, Staged
  <2>8. PeerIsStopped' BY DEF PeerIsStopped, UploadStops, Staged, Typed
  <2>9. ReuseIsEarned' /\ ReasonsAreTrue' /\ FailureSurvives'
    BY DEF ReuseIsEarned, ReasonsAreTrue, FailureSurvives, Observed, Staged, Typed
  <2>10. ApplicationAnswered' BY DEF ApplicationAnswered, Observed, BodyFollows, Staged, Typed
  <2> QED BY <2>1, <2>2, <2>3, <2>4, <2>5, <2>6, <2>7, <2>8, <2>9, <2>10
<1>14. CASE DropBody
  <2> USE <1>14 DEF DropBody
  <2>1. Typed' BY DEF Typed, BodyFollows
  <2>2. Staged' BY DEF Staged, Typed
  <2>3. PolicyAgrees' BY DEF PolicyAgrees, Staged
  <2>4. Observed' BY DEF Observed, Staged, Typed
  <2>5. BodyFollows' BY DEF BodyFollows, Observed, Staged, Typed
  <2>6. UploadStops' BY DEF UploadStops, Staged
  <2>7. AbortSparesResponse' BY DEF AbortSparesResponse, UploadStops, Staged
  <2>8. PeerIsStopped' BY DEF PeerIsStopped, UploadStops, Staged, Typed
  <2>9. ReuseIsEarned' /\ ReasonsAreTrue' /\ FailureSurvives'
    BY DEF ReuseIsEarned, ReasonsAreTrue, FailureSurvives, Observed, Staged, Typed
  <2>10. ApplicationAnswered' BY DEF ApplicationAnswered, Observed, BodyFollows, Staged, Typed
  <2> QED BY <2>1, <2>2, <2>3, <2>4, <2>5, <2>6, <2>7, <2>8, <2>9, <2>10
<1>15. CASE Abort
  <2> USE <1>15 DEF Abort
  <2>1. Typed' BY DEF Typed, BodyFollows
  <2>2. Staged' BY DEF Staged, Typed
  <2>3. PolicyAgrees' BY DEF PolicyAgrees, Staged
  <2>4. Observed' BY DEF Observed, Staged, Typed
  <2>5. BodyFollows' BY DEF BodyFollows, Observed, Staged, Typed
  <2>6. UploadStops' BY DEF UploadStops, Staged
  <2>7. AbortSparesResponse' BY DEF AbortSparesResponse, UploadStops, Staged
  <2>8. PeerIsStopped' BY DEF PeerIsStopped, UploadStops, Staged, Typed
  <2>9. ReuseIsEarned' /\ ReasonsAreTrue' /\ FailureSurvives'
    BY DEF ReuseIsEarned, ReasonsAreTrue, FailureSurvives, Observed, Staged, Typed
  <2>10. ApplicationAnswered' BY DEF ApplicationAnswered, Observed, BodyFollows, Staged, Typed
  <2> QED BY <2>1, <2>2, <2>3, <2>4, <2>5, <2>6, <2>7, <2>8, <2>9, <2>10
<1>16. CASE RequestShutdown
  <2> USE <1>16 DEF RequestShutdown
  <2>1. Typed' BY DEF Typed, BodyFollows
  <2>2. Staged' BY DEF Staged, Typed
  <2>3. PolicyAgrees' BY DEF PolicyAgrees, Staged
  <2>4. Observed' BY DEF Observed, Staged, Typed
  <2>5. BodyFollows' BY DEF BodyFollows, Observed, Staged, Typed
  <2>6. UploadStops' BY DEF UploadStops, Staged
  <2>7. AbortSparesResponse' BY DEF AbortSparesResponse, UploadStops, Staged
  <2>8. PeerIsStopped' BY DEF PeerIsStopped, UploadStops, Staged, Typed
  <2>9. ReuseIsEarned' /\ ReasonsAreTrue' /\ FailureSurvives'
    BY DEF ReuseIsEarned, ReasonsAreTrue, FailureSurvives, Observed, Staged, Typed
  <2>10. ApplicationAnswered' BY DEF ApplicationAnswered, Observed, BodyFollows, Staged, Typed
  <2> QED BY <2>1, <2>2, <2>3, <2>4, <2>5, <2>6, <2>7, <2>8, <2>9, <2>10
<1>17. CASE SeeShutdown
  <2> USE <1>17 DEF SeeShutdown, CancelIf
  <2>1. Typed' BY DEF Typed, BodyFollows
  <2>2. Staged' BY DEF Staged, Typed
  <2>3. PolicyAgrees' BY DEF PolicyAgrees, Staged
  <2>4. Observed' BY DEF Observed, Staged, Typed
  <2>5. BodyFollows' BY DEF BodyFollows, Observed, Staged, Typed
  <2>6. UploadStops' BY DEF UploadStops, Staged
  <2>7. AbortSparesResponse' BY DEF AbortSparesResponse, UploadStops, Staged
  <2>8. PeerIsStopped' BY DEF PeerIsStopped, UploadStops, Staged, Typed
  <2>9. ReuseIsEarned' /\ ReasonsAreTrue' /\ FailureSurvives'
    BY DEF ReuseIsEarned, ReasonsAreTrue, FailureSurvives, Observed, Staged, Typed
  <2>10. ApplicationAnswered' BY DEF ApplicationAnswered, Observed, BodyFollows, Staged, Typed
  <2> QED BY <2>1, <2>2, <2>3, <2>4, <2>5, <2>6, <2>7, <2>8, <2>9, <2>10
<1>18. CASE Settle
  <2>1. /\ outcome = "none" /\ recv \in RecvEnds /\ send \in SendEnds
        /\ outcome' = FinishExchange /\ slot' = FailObserver
        /\ UNCHANGED <<request, policy, send, recv, first, uploadToken, exchangeToken, uploadComplete, aborted,
                       observer, incoming, final, shutdown>>
    BY <1>18 DEF Settle
  <2>2. CASE recv = "complete" /\ (send = "ok" \/ (send = "canceled" /\ aborted))
    <3>1. policy.phase \in {"Final", "Upgrade"} /\ observer = "delivered" /\ incoming \in {"ended", "dropped"}
      BY <2>2 DEF PolicyAgrees, Observed, BodyFollows, Typed, Policies
    <3>2. outcome' = Disposition(RequestEnd) BY <2>1, <2>2 DEF FinishExchange
    <3>3. ASSUME aborted PROVE outcome' = "UploadAbort"
      <4>1. RequestEnd = "Retired" BY <3>3 DEF RequestEnd
      <4>2. Finished(policy, RequestEnd, "Complete") = "Close" BY <4>1 DEF Finished
      <4> QED BY <3>2, <3>3, <4>2 DEF Disposition, CloseReason
    <3>4. ASSUME ~aborted
          PROVE  /\ send = "ok"
                 /\ outcome' = CASE policy.phase = "Upgrade" -> "Handoff"
                                [] policy.phase = "Final" -> IF policy.reuse THEN "Reusable" ELSE "MessagePolicy"
      <4>1. send = "ok" /\ RequestEnd = "Complete" BY <2>2, <3>4 DEF RequestEnd
      <4>2. Finished(policy, RequestEnd, "Complete") =
               CASE policy.phase = "Upgrade" -> "Handoff"
                 [] policy.phase = "Final" -> IF policy.reuse THEN "Reusable" ELSE "Close"
        BY <4>1, <3>1 DEF Finished
      <4> QED BY <3>1, <3>2, <3>4, <4>1, <4>2 DEF Disposition, CloseReason
    <3>5. outcome' \in {"Handoff", "Reusable", "MessagePolicy", "UploadAbort"} BY <3>1, <3>3, <3>4
    <3>6. slot' = slot BY <2>1, <3>1 DEF FailObserver
    <3>7. Typed' /\ Staged' BY <2>1, <2>2, <3>5, <3>6 DEF Typed, Staged
    <3>8. PolicyAgrees' /\ BodyFollows' BY <2>1 DEF PolicyAgrees, BodyFollows
    <3>9. Observed' BY <2>1, <3>1, <3>5, <3>6 DEF Observed
    <3>10. UploadStops' /\ AbortSparesResponse' /\ PeerIsStopped'
      BY <2>1 DEF UploadStops, AbortSparesResponse, PeerIsStopped
    <3>11. ReuseIsEarned' BY <2>1, <2>2, <3>1, <3>3, <3>4 DEF ReuseIsEarned, Staged, PolicyAgrees
    <3>12. ReasonsAreTrue' BY <2>1, <3>1, <3>3, <3>4, <3>5 DEF ReasonsAreTrue, Staged, PolicyAgrees
    <3>13. FailureSurvives' BY <2>1, <2>2 DEF FailureSurvives
    <3>14. ApplicationAnswered' BY <2>1, <3>1 DEF ApplicationAnswered
    <3> QED BY <3>7, <3>8, <3>9, <3>10, <3>11, <3>12, <3>13, <3>14
  <2>3. CASE ~(recv = "complete" /\ (send = "ok" \/ (send = "canceled" /\ aborted)))
    <3>1. /\ outcome' \in {"SendFailure", "ReceiveFailure", "Canceled", "BodyAbandonment"}
          /\ send = "failed" \/ recv = "failed" => outcome' \in {"SendFailure", "ReceiveFailure"}
          /\ outcome' = "BodyAbandonment" => recv = "abandoned"
      BY <2>1, <2>3 DEF FinishExchange, ReceiveError
    <3>2. observer = "watching" => slot' = "failure"
      BY <2>1, <3>1 DEF FailObserver, Observed
    <3>3. slot' \in {slot, "failure"} BY <2>1 DEF FailObserver
    <3>4. Typed' BY <2>1, <3>3 DEF Typed
    <3>5. Staged' BY <2>1, <3>1 DEF Staged
    <3>6. PolicyAgrees' /\ BodyFollows' BY <2>1 DEF PolicyAgrees, BodyFollows
    <3>7. Observed' BY <2>1, <3>1, <3>3 DEF Observed
    <3>8. UploadStops' /\ AbortSparesResponse' /\ PeerIsStopped'
      BY <2>1 DEF UploadStops, AbortSparesResponse, PeerIsStopped
    <3>9. ReuseIsEarned' /\ ReasonsAreTrue' BY <2>1, <3>1 DEF ReuseIsEarned, ReasonsAreTrue, BodyFollows
    <3>10. FailureSurvives' BY <2>1, <3>1 DEF FailureSurvives
    <3>11. ApplicationAnswered' BY <2>1, <3>2 DEF ApplicationAnswered, BodyFollows
    <3> QED BY <3>4, <3>5, <3>6, <3>7, <3>8, <3>9, <3>10, <3>11
  <2> QED BY <2>2, <2>3
<1>19. CASE UNCHANGED vars
  <2> USE <1>19 DEF vars
  <2>1. Typed' BY DEF Typed, BodyFollows
  <2>2. Staged' BY DEF Staged, Typed
  <2>3. PolicyAgrees' BY DEF PolicyAgrees, Staged
  <2>4. Observed' BY DEF Observed, Staged, Typed
  <2>5. BodyFollows' BY DEF BodyFollows, Observed, Staged, Typed
  <2>6. UploadStops' BY DEF UploadStops, Staged
  <2>7. AbortSparesResponse' BY DEF AbortSparesResponse, UploadStops, Staged
  <2>8. PeerIsStopped' BY DEF PeerIsStopped, UploadStops, Staged, Typed
  <2>9. ReuseIsEarned' /\ ReasonsAreTrue' /\ FailureSurvives'
    BY DEF ReuseIsEarned, ReasonsAreTrue, FailureSurvives, Observed, Staged, Typed
  <2>10. ApplicationAnswered' BY DEF ApplicationAnswered, Observed, BodyFollows, Staged, Typed
  <2> QED BY <2>1, <2>2, <2>3, <2>4, <2>5, <2>6, <2>7, <2>8, <2>9, <2>10
<1> QED
  BY <1>1, <1>2, <1>3, <1>4, <1>5, <1>6, <1>7, <1>8, <1>9, <1>10, <1>11, <1>12, <1>13, <1>14, <1>15, <1>16, <1>17, <1>18, <1>19
  DEF Next, Sending, Receiving

\* For any response heads, the connection is reused or handed over only after a
\* flushed upload and a response received to its end by the application.
THEOREM ReuseIsAlwaysEarned == Spec => []ReuseIsEarned
<1>1. IInv => ReuseIsEarned BY DEF IInv
<1> QED BY <1>1, InitIInv, NextIInv, PTL DEF Spec

\* However the two directions, the application and the shutdown interleave, the
\* outcome names its true cause and nobody in the application is left waiting.
THEOREM OutcomeIsAlwaysTrue == Spec => []OutcomeIsTrue
<1>1. IInv => OutcomeIsTrue BY DEF IInv, OutcomeIsTrue
<1> QED BY <1>1, InitIInv, NextIInv, PTL DEF Spec
=============================================================================
