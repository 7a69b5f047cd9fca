------------------------- MODULE InformationalProofs -------------------------
(***************************************************************************)
(* Informational heads are answered truthfully, in order and within their  *)
(* limit, for any number of calls and any limit.                           *)
(***************************************************************************)
EXTENDS Informational, FiniteSetTheorems, TLAPS

\* The part of TypeOK the argument uses.
Typed ==
    /\ sends \in 0 .. MaxSends /\ count \in Nat /\ continues \in Nat
    /\ outcome \in [Calls -> Results]
    /\ started \subseteq 1 .. sends /\ flushed \subseteq started
    /\ writer \in {"next", "app", "auto", "ok", "err"}
    /\ command \in {"Idle", "Queued", "Writing", "WritingAbandoned", "Complete"}
    /\ answer \in {"none", "ok", "failed", "rejected", "late"}
    /\ admission \in {"Open", "FinalSelected", "Closed"}

\* The command slot belongs to the latest call, whose future is alive unless
\* it abandoned a head in mid-write.
SlotIsLatest ==
    /\ sending <=> command \in {"Queued", "Writing", "Complete"}
    /\ command # "Idle" => sends # 0
    /\ command = "Queued" => sends \notin started
    /\ command \in {"Writing", "WritingAbandoned"} =>
           sends \in started \ flushed /\ (writer = "app" \/ call = "ended")
    /\ command = "WritingAbandoned" => outcome[sends] \in {"closed", "dropped"}
    /\ \A n \in Calls : n > sends \/ (n = sends /\ sending) => outcome[n] = "none"

\* The answer that waits in the slot is true of the latest call.
SlotIsTrue ==
    command = "Complete" =>
        /\ answer = "ok" => sends \in flushed
        /\ answer \in {"rejected", "late"} => sends \notin started
        /\ answer = "failed" => sends \in started \ flushed

\* The loop counts what it flushed, and starts a head only below the limit.
WriterCounts ==
    /\ count = Cardinality(flushed) + continues
    /\ count <= MaxInformational
    /\ writer \in {"next", "auto", "ok"} => started = flushed
    /\ writer = "app" =>
           /\ command \in {"Writing", "WritingAbandoned"} /\ writing = sends
           /\ started = flushed \cup {sends} /\ count < MaxInformational
    /\ writer = "auto" => count < MaxInformational

\* Continue was flushed exactly when the shared state says so.
ContinueTracked ==
    /\ continues = IF automatic = "Complete" THEN 1 ELSE 0
    /\ writer = "auto" => automatic = "Requested"

\* The final response is selected while no head is queued.
SelectionFollows ==
    /\ call \in {"selected", "final"} => admission = "FinalSelected"
    /\ admission = "FinalSelected" => command # "Queued"
    /\ call = "final" => writer = "ok"
    /\ admission = "Closed" => call = "ended"

\* The inductive invariant.
IInv ==
    /\ Typed
    /\ SlotIsLatest
    /\ SlotIsTrue
    /\ WriterCounts
    /\ ContinueTracked
    /\ SelectionFollows
    /\ HeadsInOrder

-----------------------------------------------------------------------------
\* The histories of heads are finite, so that they can be counted.
LEMMA FiniteHistories ==
    ASSUME Typed
    PROVE  IsFiniteSet(started) /\ IsFiniteSet(flushed) /\ Cardinality(started) \in Nat /\ Cardinality(flushed) \in Nat
<1>1. IsFiniteSet(1 .. sends) BY LimitsAssumption, FS_Interval DEF Typed
<1>2. IsFiniteSet(started) BY <1>1, FS_Subset DEF Typed
<1>3. IsFiniteSet(flushed) BY <1>2, FS_Subset DEF Typed
<1> QED BY <1>2, <1>3, FS_CardinalityType

\* Before the first call no head was started and the slot is idle.
LEMMA InitIInv == Init => IInv
<1> SUFFICES ASSUME Init PROVE IInv OBVIOUS
<1> USE LimitsAssumption DEF Init
<1>1. Typed BY DEF Typed, Calls, Results
<1>2. SlotIsLatest BY DEF SlotIsLatest
<1>3. SlotIsTrue BY DEF SlotIsTrue
<1>4. Cardinality({}) = 0 BY FS_EmptySet
<1>5. WriterCounts BY <1>4 DEF WriterCounts
<1>6. ContinueTracked /\ SelectionFollows BY DEF ContinueTracked, SelectionFollows
<1>7. HeadsInOrder BY <1>4 DEF HeadsInOrder, AnswersAreTrue, ContinueOnce, FinalComesLast, WithinLimit
<1> QED BY <1>1, <1>2, <1>3, <1>5, <1>6, <1>7 DEF IInv

\* No call, drop, write or selection breaks the invariant.
LEMMA NextIInv == IInv /\ [Next]_vars => IInv'
<1> SUFFICES ASSUME IInv, [Next]_vars PROVE IInv' OBVIOUS
<1> USE LimitsAssumption DEF IInv, HeadsInOrder, histories, Calls
<1>1. CASE Send
  <2> USE <1>1 DEF Send
  <2>1. Typed' BY DEF Typed, Results, SlotIsLatest, WriterCounts
  <2>2. SlotIsLatest' BY DEF SlotIsLatest, Typed
  <2>3. SlotIsTrue' BY DEF SlotIsTrue, SlotIsLatest, WriterCounts
  <2>4. WriterCounts' BY DEF WriterCounts, SlotIsLatest, Typed
  <2>5. ContinueTracked' BY DEF ContinueTracked
  <2>6. SelectionFollows' BY DEF SelectionFollows
  <2>7. AnswersAreTrue' BY DEF AnswersAreTrue, SlotIsLatest, SlotIsTrue, WriterCounts, Typed
  <2>8. ContinueOnce' BY DEF ContinueOnce, ContinueTracked
  <2>9. FinalComesLast' BY DEF FinalComesLast, SelectionFollows, SlotIsLatest
  <2>10. WithinLimit' BY DEF WithinLimit, WriterCounts
  <2> QED BY <2>1, <2>2, <2>3, <2>4, <2>5, <2>6, <2>7, <2>8, <2>9, <2>10
<1>2. CASE PollSend
  <2> USE <1>2 DEF PollSend, Return, Abandon
  <2>1. Typed' BY DEF Typed, Results, SlotIsLatest, WriterCounts
  <2>2. SlotIsLatest'
    <3>1. CASE command = "Complete" BY <3>1 DEF SlotIsLatest, Typed
    <3>2. CASE command # "Complete" /\ admission = "Closed" BY <3>2 DEF SlotIsLatest, Typed, Results
    <3>3. CASE command # "Complete" /\ admission # "Closed" BY <3>3 DEF SlotIsLatest, Typed
    <3> QED BY <3>1, <3>2, <3>3
  <2>3. SlotIsTrue' BY DEF SlotIsTrue, SlotIsLatest, WriterCounts
  <2>4. WriterCounts' BY DEF WriterCounts, SlotIsLatest, Typed
  <2>5. ContinueTracked' BY DEF ContinueTracked
  <2>6. SelectionFollows' BY DEF SelectionFollows
  <2>7. AnswersAreTrue' BY DEF AnswersAreTrue, SlotIsLatest, SlotIsTrue, WriterCounts, Typed
  <2>8. ContinueOnce' BY DEF ContinueOnce, ContinueTracked
  <2>9. FinalComesLast' BY DEF FinalComesLast, SelectionFollows, SlotIsLatest
  <2>10. WithinLimit' BY DEF WithinLimit, WriterCounts
  <2> QED BY <2>1, <2>2, <2>3, <2>4, <2>5, <2>6, <2>7, <2>8, <2>9, <2>10
<1>3. CASE DropSend
  <2> USE <1>3 DEF DropSend, Return, Abandon
  <2>1. Typed' BY DEF Typed, Results, SlotIsLatest, WriterCounts
  <2>2. SlotIsLatest' BY DEF SlotIsLatest, Typed
  <2>3. SlotIsTrue' BY DEF SlotIsTrue, SlotIsLatest, WriterCounts
  <2>4. WriterCounts' BY DEF WriterCounts, SlotIsLatest, Typed
  <2>5. ContinueTracked' BY DEF ContinueTracked
  <2>6. SelectionFollows' BY DEF SelectionFollows
  <2>7. AnswersAreTrue' BY DEF AnswersAreTrue, SlotIsLatest, SlotIsTrue, WriterCounts, Typed
  <2>8. ContinueOnce' BY DEF ContinueOnce, ContinueTracked
  <2>9. FinalComesLast' BY DEF FinalComesLast, SelectionFollows, SlotIsLatest
  <2>10. WithinLimit' BY DEF WithinLimit, WriterCounts
  <2> QED BY <2>1, <2>2, <2>3, <2>4, <2>5, <2>6, <2>7, <2>8, <2>9, <2>10
<1>4. CASE PollWriter
  <2> USE <1>4 DEF PollWriter, WriterReturns, RejectHead, StartHead, ContinueDue, AtLimit
  <2>1. Typed'
    <3>1. CASE UNCHANGED started BY <3>1 DEF Typed
    <3>2. CASE StartHead /\ command = "Queued"
      <4>1. started' = started \cup {sends} /\ sends \in 1 .. sends BY <3>2 DEF SlotIsLatest, Typed
      <4> QED BY <3>2, <4>1 DEF Typed
    <3> QED BY <3>1, <3>2
  <2>2. SlotIsLatest' BY DEF SlotIsLatest, Typed
  <2>3. SlotIsTrue' BY DEF SlotIsTrue, SlotIsLatest, WriterCounts
  <2>4. WriterCounts' BY DEF WriterCounts, SlotIsLatest, Typed
  <2>5. ContinueTracked' BY DEF ContinueTracked
  <2>6. SelectionFollows' BY DEF SelectionFollows
  <2>7. AnswersAreTrue' BY DEF AnswersAreTrue, SlotIsLatest, SlotIsTrue, WriterCounts, Typed
  <2>8. ContinueOnce' BY DEF ContinueOnce, ContinueTracked
  <2>9. FinalComesLast' BY DEF FinalComesLast, SelectionFollows, SlotIsLatest
  <2>10. WithinLimit'
    <3>1. CASE UNCHANGED started BY <3>1 DEF WithinLimit
    <3>2. CASE StartHead /\ ~AtLimit /\ command = "Queued"
      <4>1. Cardinality(started \cup {sends}) = Cardinality(started) + 1
        BY <3>2, FiniteHistories, FS_AddElement DEF SlotIsLatest
      <4> QED BY <3>2, <4>1, FiniteHistories DEF WithinLimit, WriterCounts, Typed
    <3> QED BY <3>1, <3>2
  <2> QED BY <2>1, <2>2, <2>3, <2>4, <2>5, <2>6, <2>7, <2>8, <2>9, <2>10
<1>5. CASE AskContinue
  <2> USE <1>5 DEF AskContinue, Permission
  <2>1. Typed' BY DEF Typed, Results, SlotIsLatest, WriterCounts
  <2>2. SlotIsLatest' BY DEF SlotIsLatest, Typed
  <2>3. SlotIsTrue' BY DEF SlotIsTrue, SlotIsLatest, WriterCounts
  <2>4. WriterCounts' BY DEF WriterCounts, SlotIsLatest, Typed
  <2>5. ContinueTracked' BY DEF ContinueTracked
  <2>6. SelectionFollows' BY DEF SelectionFollows
  <2>7. AnswersAreTrue' BY DEF AnswersAreTrue, SlotIsLatest, SlotIsTrue, WriterCounts, Typed
  <2>8. ContinueOnce' BY DEF ContinueOnce, ContinueTracked
  <2>9. FinalComesLast' BY DEF FinalComesLast, SelectionFollows, SlotIsLatest
  <2>10. WithinLimit' BY DEF WithinLimit, WriterCounts
  <2> QED BY <2>1, <2>2, <2>3, <2>4, <2>5, <2>6, <2>7, <2>8, <2>9, <2>10
<1>6. CASE PollPermission
  <2> USE <1>6 DEF PollPermission, Permission
  <2>1. Typed' BY DEF Typed, Results, SlotIsLatest, WriterCounts
  <2>2. SlotIsLatest' BY DEF SlotIsLatest, Typed
  <2>3. SlotIsTrue' BY DEF SlotIsTrue, SlotIsLatest, WriterCounts
  <2>4. WriterCounts' BY DEF WriterCounts, SlotIsLatest, Typed
  <2>5. ContinueTracked' BY DEF ContinueTracked
  <2>6. SelectionFollows' BY DEF SelectionFollows
  <2>7. AnswersAreTrue' BY DEF AnswersAreTrue, SlotIsLatest, SlotIsTrue, WriterCounts, Typed
  <2>8. ContinueOnce' BY DEF ContinueOnce, ContinueTracked
  <2>9. FinalComesLast' BY DEF FinalComesLast, SelectionFollows, SlotIsLatest
  <2>10. WithinLimit' BY DEF WithinLimit, WriterCounts
  <2> QED BY <2>1, <2>2, <2>3, <2>4, <2>5, <2>6, <2>7, <2>8, <2>9, <2>10
<1>7. ASSUME NEW ok \in BOOLEAN, AppHeadDone(ok) PROVE IInv'
  <2> USE <1>7 DEF AppHeadDone, CompleteSlot
  <2>1. Typed' BY DEF Typed, Results, SlotIsLatest, WriterCounts
  <2>2. SlotIsLatest' BY DEF SlotIsLatest, Typed
  <2>3. SlotIsTrue' BY DEF SlotIsTrue, SlotIsLatest, WriterCounts
  <2>4. WriterCounts'
    <3>1. CASE ok
      <4>1. Cardinality(flushed \cup {sends}) = Cardinality(flushed) + 1
        BY FiniteHistories, FS_AddElement DEF SlotIsLatest, WriterCounts
      <4>2. flushed' = flushed \cup {sends} /\ count' = count + 1 /\ continues' = continues
        BY <3>1 DEF WriterCounts
      <4>3. count' = Cardinality(flushed') + continues' BY <4>1, <4>2, FiniteHistories DEF WriterCounts, Typed
      <4>4. writer' = "next" /\ started' = flushed' BY <3>1, <4>2 DEF WriterCounts
      <4> QED BY <4>2, <4>3, <4>4 DEF WriterCounts, Typed
    <3>2. CASE ~ok BY <3>2 DEF WriterCounts
    <3> QED BY <3>1, <3>2
  <2>5. ContinueTracked' BY DEF ContinueTracked
  <2>6. SelectionFollows' BY DEF SelectionFollows
  <2>7. AnswersAreTrue' BY DEF AnswersAreTrue, SlotIsLatest, SlotIsTrue, WriterCounts, Typed
  <2>8. ContinueOnce' BY DEF ContinueOnce, ContinueTracked
  <2>9. FinalComesLast' BY DEF FinalComesLast, SelectionFollows, SlotIsLatest
  <2>10. WithinLimit' BY DEF WithinLimit, WriterCounts
  <2> QED BY <2>1, <2>2, <2>3, <2>4, <2>5, <2>6, <2>7, <2>8, <2>9, <2>10
<1>8. ASSUME NEW ok \in BOOLEAN, ContinueDone(ok) PROVE IInv'
  <2> USE <1>8 DEF ContinueDone, Continued
  <2>1. Typed' BY DEF Typed, Results, SlotIsLatest, WriterCounts
  <2>2. SlotIsLatest' BY DEF SlotIsLatest, Typed
  <2>3. SlotIsTrue' BY DEF SlotIsTrue, SlotIsLatest, WriterCounts
  <2>4. WriterCounts' BY FiniteHistories DEF WriterCounts, SlotIsLatest, Typed
  <2>5. ContinueTracked' BY DEF ContinueTracked
  <2>6. SelectionFollows' BY DEF SelectionFollows
  <2>7. AnswersAreTrue' BY DEF AnswersAreTrue, SlotIsLatest, SlotIsTrue, WriterCounts, Typed
  <2>8. ContinueOnce' BY DEF ContinueOnce, ContinueTracked
  <2>9. FinalComesLast' BY DEF FinalComesLast, SelectionFollows, SlotIsLatest
  <2>10. WithinLimit' BY FiniteHistories DEF WithinLimit, WriterCounts, Typed
  <2> QED BY <2>1, <2>2, <2>3, <2>4, <2>5, <2>6, <2>7, <2>8, <2>9, <2>10
<1>9. ASSUME NEW ok \in BOOLEAN, ServiceReturns(ok) PROVE IInv'
  <2> USE <1>9 DEF ServiceReturns, RefuseQueued
  <2>1. Typed' BY DEF Typed, Results, SlotIsLatest, WriterCounts
  <2>2. SlotIsLatest' BY DEF SlotIsLatest, Typed
  <2>3. SlotIsTrue' BY DEF SlotIsTrue, SlotIsLatest, WriterCounts
  <2>4. WriterCounts' BY DEF WriterCounts, SlotIsLatest, Typed
  <2>5. ContinueTracked' BY DEF ContinueTracked
  <2>6. SelectionFollows' BY DEF SelectionFollows
  <2>7. AnswersAreTrue' BY DEF AnswersAreTrue, SlotIsLatest, SlotIsTrue, WriterCounts, Typed
  <2>8. ContinueOnce' BY DEF ContinueOnce, ContinueTracked
  <2>9. FinalComesLast' BY DEF FinalComesLast, SelectionFollows, SlotIsLatest
  <2>10. WithinLimit' BY DEF WithinLimit, WriterCounts
  <2> QED BY <2>1, <2>2, <2>3, <2>4, <2>5, <2>6, <2>7, <2>8, <2>9, <2>10
<1>10. CASE FinalResponse
  <2> USE <1>10 DEF FinalResponse
  <2>1. Typed' BY DEF Typed, Results, SlotIsLatest, WriterCounts
  <2>2. SlotIsLatest' BY DEF SlotIsLatest, Typed
  <2>3. SlotIsTrue' BY DEF SlotIsTrue, SlotIsLatest, WriterCounts
  <2>4. WriterCounts' BY DEF WriterCounts, SlotIsLatest, Typed
  <2>5. ContinueTracked' BY DEF ContinueTracked
  <2>6. SelectionFollows' BY DEF SelectionFollows
  <2>7. AnswersAreTrue' BY DEF AnswersAreTrue, SlotIsLatest, SlotIsTrue, WriterCounts, Typed
  <2>8. ContinueOnce' BY DEF ContinueOnce, ContinueTracked
  <2>9. FinalComesLast' BY DEF FinalComesLast, SelectionFollows, SlotIsLatest
  <2>10. WithinLimit' BY DEF WithinLimit, WriterCounts
  <2> QED BY <2>1, <2>2, <2>3, <2>4, <2>5, <2>6, <2>7, <2>8, <2>9, <2>10
<1>11. CASE WriterEndsCall
  <2> USE <1>11 DEF WriterEndsCall
  <2>1. Typed' BY DEF Typed, Results, SlotIsLatest, WriterCounts
  <2>2. SlotIsLatest' BY DEF SlotIsLatest, Typed
  <2>3. SlotIsTrue' BY DEF SlotIsTrue, SlotIsLatest, WriterCounts
  <2>4. WriterCounts' BY DEF WriterCounts, SlotIsLatest, Typed
  <2>5. ContinueTracked' BY DEF ContinueTracked
  <2>6. SelectionFollows' BY DEF SelectionFollows
  <2>7. AnswersAreTrue' BY DEF AnswersAreTrue, SlotIsLatest, SlotIsTrue, WriterCounts, Typed
  <2>8. ContinueOnce' BY DEF ContinueOnce, ContinueTracked
  <2>9. FinalComesLast' BY DEF FinalComesLast, SelectionFollows, SlotIsLatest
  <2>10. WithinLimit' BY DEF WithinLimit, WriterCounts
  <2> QED BY <2>1, <2>2, <2>3, <2>4, <2>5, <2>6, <2>7, <2>8, <2>9, <2>10
<1>12. CASE EndExchange
  <2> USE <1>12 DEF EndExchange, Closing
  <2>1. Typed' BY DEF Typed, Results, SlotIsLatest, WriterCounts
  <2>2. SlotIsLatest' BY DEF SlotIsLatest, Typed
  <2>3. SlotIsTrue' BY DEF SlotIsTrue, SlotIsLatest, WriterCounts
  <2>4. WriterCounts' BY DEF WriterCounts, SlotIsLatest, Typed
  <2>5. ContinueTracked' BY DEF ContinueTracked
  <2>6. SelectionFollows' BY DEF SelectionFollows
  <2>7. AnswersAreTrue' BY DEF AnswersAreTrue, SlotIsLatest, SlotIsTrue, WriterCounts, Typed
  <2>8. ContinueOnce' BY DEF ContinueOnce, ContinueTracked
  <2>9. FinalComesLast' BY DEF FinalComesLast, SelectionFollows, SlotIsLatest
  <2>10. WithinLimit' BY DEF WithinLimit, WriterCounts
  <2> QED BY <2>1, <2>2, <2>3, <2>4, <2>5, <2>6, <2>7, <2>8, <2>9, <2>10
<1>13. CASE DropExchange
  <2> USE <1>13 DEF DropExchange, Closing
  <2>1. Typed' BY DEF Typed, Results, SlotIsLatest, WriterCounts
  <2>2. SlotIsLatest' BY DEF SlotIsLatest, Typed
  <2>3. SlotIsTrue' BY DEF SlotIsTrue, SlotIsLatest, WriterCounts
  <2>4. WriterCounts' BY DEF WriterCounts, SlotIsLatest, Typed
  <2>5. ContinueTracked' BY DEF ContinueTracked
  <2>6. SelectionFollows' BY DEF SelectionFollows
  <2>7. AnswersAreTrue' BY DEF AnswersAreTrue, SlotIsLatest, SlotIsTrue, WriterCounts, Typed
  <2>8. ContinueOnce' BY DEF ContinueOnce, ContinueTracked
  <2>9. FinalComesLast' BY DEF FinalComesLast, SelectionFollows, SlotIsLatest
  <2>10. WithinLimit' BY DEF WithinLimit, WriterCounts
  <2> QED BY <2>1, <2>2, <2>3, <2>4, <2>5, <2>6, <2>7, <2>8, <2>9, <2>10
<1>14. CASE UNCHANGED vars
  <2> USE <1>14 DEF vars
  <2>1. Typed' BY DEF Typed, Results, SlotIsLatest, WriterCounts
  <2>2. SlotIsLatest' BY DEF SlotIsLatest, Typed
  <2>3. SlotIsTrue' BY DEF SlotIsTrue, SlotIsLatest, WriterCounts
  <2>4. WriterCounts' BY DEF WriterCounts, SlotIsLatest, Typed
  <2>5. ContinueTracked' BY DEF ContinueTracked
  <2>6. SelectionFollows' BY DEF SelectionFollows
  <2>7. AnswersAreTrue' BY DEF AnswersAreTrue, SlotIsLatest, SlotIsTrue, WriterCounts, Typed
  <2>8. ContinueOnce' BY DEF ContinueOnce, ContinueTracked
  <2>9. FinalComesLast' BY DEF FinalComesLast, SelectionFollows, SlotIsLatest
  <2>10. WithinLimit' BY DEF WithinLimit, WriterCounts
  <2> QED BY <2>1, <2>2, <2>3, <2>4, <2>5, <2>6, <2>7, <2>8, <2>9, <2>10
<1> QED
  BY <1>1, <1>2, <1>3, <1>4, <1>5, <1>6, <1>7, <1>8, <1>9, <1>10, <1>11, <1>12, <1>13, <1>14
  DEF Next, Ended

\* For any number of calls and any limit: every call is answered truthfully,
\* 100 Continue is sent at most once, the final response comes last, and the
\* limit holds.
THEOREM HeadsAlwaysInOrder == Spec => []HeadsInOrder
<1>1. IInv => HeadsInOrder BY DEF IInv
<1> QED BY <1>1, InitIInv, NextIInv, PTL DEF Spec
==============================================================================
