----------------------------- MODULE PipeProofs -----------------------------
(* The safety of the pipe for every set of items and wakers, and that it     *)
(* implements Rendezvous.                                                    *)
EXTENDS Pipe, TLAPS

\* What the borrow rules and the two lifecycles imply about the shared state:
\* a live future, the endpoint that owns it, and the payload in the slot agree.
EndpointsAgree ==
    /\ pfut = "none" <=> pphase = "none"
    /\ pfut = "offer" <=> offering # None
    /\ pphase = "waiting" => pctx # None
    /\ cphase = "waiting" => cctx # None
    /\ producer = "Active" <=> finished = "none"
    /\ producer = "Complete" => pfut = "none" /\ state \in Terminal \cup {"Abandoned"}
    /\ state \in Terminal => producer = "Complete"
    /\ state \notin Terminal \cup {"Abandoned"} => consumer = "Active"
    /\ state = "Abandoned" => consumer = "Dropped"
    /\ consumer = "Dropped" => cphase = "none" /\ state \in Terminal \cup {"Abandoned"}
    /\ consumer = "Complete" => state = "Closed" /\ eof # "none"
    /\ consumer = "Active" => eof = "none"
    /\ consumer = "Active" /\ state \in Terminal => state = finished
    /\ state = "Offered" => slot # None
    /\ slot # None =>
           /\ state \in {"Offered", "Abandoned"}
           /\ pfut = "offer" /\ pphase = "waiting" /\ slot = offering

\* The inductive invariant.
IInv ==
    /\ TypeOK
    /\ EndpointsAgree
    /\ NoUnreachable
    /\ ItemsConserved
    /\ OfferAnswersTruthfully
    /\ ProducerNotStranded
    /\ ConsumerNotStranded
    /\ EndReportedFaithfully

\* A new channel satisfies the invariant.
LEMMA InitIInv == Init => IInv
  BY NoneAssumption DEF Init, IInv, TypeOK, EndpointsAgree, NoUnreachable, ItemsConserved,
     OfferAnswersTruthfully, ProducerNotStranded, ConsumerNotStranded, EndReportedFaithfully,
     Terminal, Option

\* wake_one reaches a future whose last waker is the registered one, and never
\* takes a notification away.
LEMMA ProducerWoken ==
  ASSUME WakeProducer
  PROVE  /\ pnotified => pnotified'
         /\ producer_waker = pctx /\ pctx # None => pnotified'
         /\ pnotified' \in BOOLEAN
  BY Zenon DEF WakeProducer

\* The same for the consumer's waker.
LEMMA ConsumerWoken ==
  ASSUME WakeConsumer
  PROVE  /\ cnotified => cnotified'
         /\ consumer_waker = cctx /\ cctx # None => cnotified'
         /\ cnotified' \in BOOLEAN
  BY Zenon DEF WakeConsumer

\* No call into the pipe breaks it.
LEMMA NextIInv == IInv /\ [Next]_vars => IInv'
<1> SUFFICES ASSUME IInv, [Next]_vars
             PROVE  IInv'
  OBVIOUS
<1> USE NoneAssumption
    DEF IInv, TypeOK, EndpointsAgree, NoUnreachable, ItemsConserved, OfferAnswersTruthfully,
        ProducerNotStranded, ConsumerNotStranded, EndReportedFaithfully, Terminal, Open, Option,
        shared, pvars, cvars, history
<1>1. CASE StartDemand
  BY <1>1, SMTT(30) DEF StartDemand
<1>2. CASE StartAbandoned
  BY <1>2, SMTT(30) DEF StartAbandoned
<1>3. ASSUME NEW i \in Items, StartOffer(i)
      PROVE  IInv'
  BY <1>3, SMTT(30) DEF StartOffer, Used
<1>4. ASSUME NEW w \in Wakers, PollDemand(w)
      PROVE  IInv'
  <2>1. TypeOK'
    BY <1>4, ZenonT(60) DEF PollDemand, ProducerPolled, ReplaceWaker
  <2>2. EndpointsAgree' /\ NoUnreachable'
    BY <1>4, SMTT(30) DEF PollDemand, ProducerPolled, ReplaceWaker
  <2>3. ItemsConserved'
    BY <1>4, SMTT(30) DEF PollDemand, ProducerPolled, ReplaceWaker
  <2>4. OfferAnswersTruthfully' /\ EndReportedFaithfully'
    BY <1>4, SMTT(30) DEF PollDemand, ProducerPolled, ReplaceWaker
  <2>5. ProducerNotStranded' /\ ConsumerNotStranded'
    BY <1>4, SMTT(30) DEF PollDemand, ProducerPolled, ReplaceWaker
  <2> QED
    BY <2>1, <2>2, <2>3, <2>4, <2>5
<1>5. ASSUME NEW w \in Wakers, PollAbandoned(w)
      PROVE  IInv'
  <2>1. TypeOK'
    BY <1>5, ZenonT(60) DEF PollAbandoned, ProducerPolled, ReplaceWaker
  <2>2. EndpointsAgree' /\ NoUnreachable'
    BY <1>5, SMTT(30) DEF PollAbandoned, ProducerPolled, ReplaceWaker
  <2>3. ItemsConserved'
    BY <1>5, SMTT(30) DEF PollAbandoned, ProducerPolled, ReplaceWaker
  <2>4. OfferAnswersTruthfully' /\ EndReportedFaithfully'
    BY <1>5, SMTT(30) DEF PollAbandoned, ProducerPolled, ReplaceWaker
  <2>5. ProducerNotStranded' /\ ConsumerNotStranded'
    BY <1>5, SMTT(30) DEF PollAbandoned, ProducerPolled, ReplaceWaker
  <2> QED
    BY <2>1, <2>2, <2>3, <2>4, <2>5
<1>6. ASSUME NEW w \in Wakers, SubmitOffer(w)
      PROVE  IInv'
  <2>1. CASE state \in Open
    <3>1. cphase = "waiting" => cnotified'
      BY <1>6, <2>1, ConsumerWoken, SMTT(30) DEF SubmitOffer
    <3> QED
      BY <1>6, <2>1, <3>1, ConsumerWoken, ZenonT(60) DEF SubmitOffer, ProducerPolled, ReplaceWaker, WakeConsumer
  <2>2. CASE state \notin Open
    <3>1. TypeOK' /\ EndpointsAgree' /\ NoUnreachable'
      BY <1>6, <2>2, ZenonT(60) DEF SubmitOffer, ProducerPolled
    <3>2. ItemsConserved'
      BY <1>6, <2>2, SMTT(30) DEF SubmitOffer, ProducerPolled
    <3>3. OfferAnswersTruthfully' /\ EndReportedFaithfully'
      BY <1>6, <2>2, SMTT(30) DEF SubmitOffer, ProducerPolled
    <3>4. ProducerNotStranded' /\ ConsumerNotStranded'
      BY <1>6, <2>2, SMTT(30) DEF SubmitOffer, ProducerPolled
    <3> QED
      BY <3>1, <3>2, <3>3, <3>4
  <2> QED
    BY <2>1, <2>2
<1>7. ASSUME NEW w \in Wakers, PollOffer(w)
      PROVE  IInv'
  <2>1. TypeOK' /\ EndpointsAgree' /\ NoUnreachable'
    BY <1>7, ZenonT(60) DEF PollOffer, ProducerPolled, ReplaceWaker, Accepted
  <2>2. ItemsConserved'
    BY <1>7, SMTT(30) DEF PollOffer, ProducerPolled, ReplaceWaker, Accepted
  <2>3. OfferAnswersTruthfully' /\ EndReportedFaithfully'
    BY <1>7, SMTT(30) DEF PollOffer, ProducerPolled, ReplaceWaker, Accepted
  <2>4. ProducerNotStranded' /\ ConsumerNotStranded'
    BY <1>7, SMTT(30) DEF PollOffer, ProducerPolled, ReplaceWaker, Accepted
  <2> QED
    BY <2>1, <2>2, <2>3, <2>4
<1>8. CASE DropWait
  <2>1. TypeOK' /\ NoUnreachable'
    BY <1>8, ZenonT(60) DEF DropWait, ProducerFutureGone
  <2>5. EndpointsAgree'
    BY <1>8, SMTT(30) DEF DropWait, ProducerFutureGone
  <2>2. ItemsConserved'
    BY <1>8, SMTT(30) DEF DropWait, ProducerFutureGone
  <2>3. OfferAnswersTruthfully' /\ EndReportedFaithfully'
    BY <1>8, SMTT(30) DEF DropWait, ProducerFutureGone
  <2>4. ProducerNotStranded' /\ ConsumerNotStranded'
    BY <1>8, SMTT(30) DEF DropWait, ProducerFutureGone
  <2> QED
    BY <2>1, <2>2, <2>3, <2>4, <2>5
<1>9. CASE DropOffer
  <2>1. CASE pphase # "new" /\ state = "Offered"
    <3>1. RetractOffer
      BY <1>9, <2>1, SMTT(30) DEF DropOffer
    <3>2. cphase = "waiting" => cnotified'
      BY <3>1, <2>1, ConsumerWoken, SMTT(30) DEF RetractOffer
    <3>3. TypeOK'
      BY <1>9, <2>1, <3>1, ZenonT(60) DEF DropOffer, ProducerFutureGone, RetractOffer, WakeConsumer
    <3>4. EndpointsAgree' /\ NoUnreachable'
      BY <1>9, <2>1, <3>1, SMTT(30) DEF DropOffer, ProducerFutureGone, RetractOffer, WakeConsumer
    <3>5. ItemsConserved'
      BY <1>9, <2>1, <3>1, SMTT(30) DEF DropOffer, ProducerFutureGone, RetractOffer, WakeConsumer
    <3>6. OfferAnswersTruthfully' /\ EndReportedFaithfully'
      BY <1>9, <2>1, <3>1, SMTT(30) DEF DropOffer, ProducerFutureGone, RetractOffer, WakeConsumer
    <3>7. ProducerNotStranded' /\ ConsumerNotStranded'
      BY <1>9, <2>1, <3>1, <3>2, SMTT(30) DEF DropOffer, ProducerFutureGone, RetractOffer, WakeConsumer
    <3> QED
      BY <3>3, <3>4, <3>5, <3>6, <3>7
  <2>2. CASE ~(pphase # "new" /\ state = "Offered")
    <3>1. TypeOK' /\ EndpointsAgree' /\ NoUnreachable'
      BY <1>9, <2>2, ZenonT(60) DEF DropOffer, ProducerFutureGone, Reclaimed
    <3>2. ItemsConserved'
      BY <1>9, <2>2, SMTT(30) DEF DropOffer, ProducerFutureGone, Reclaimed
    <3>3. OfferAnswersTruthfully' /\ EndReportedFaithfully'
      BY <1>9, <2>2, SMTT(30) DEF DropOffer, ProducerFutureGone, Reclaimed
    <3>4. ProducerNotStranded' /\ ConsumerNotStranded'
      BY <1>9, <2>2, SMTT(30) DEF DropOffer, ProducerFutureGone, Reclaimed
    <3> QED
      BY <3>1, <3>2, <3>3, <3>4
  <2> QED
    BY <2>1, <2>2
<1>10. ASSUME NEW terminal \in Terminal, Finish(terminal), finished' = terminal
       PROVE  IInv'
  <2>1. CASE state \in Open
    <3>1. cphase = "waiting" => cnotified'
      BY <1>10, <2>1, ConsumerWoken, SMTT(30) DEF Finish
    <3> QED
      BY <1>10, <2>1, <3>1, ConsumerWoken, SMTT(30) DEF Finish, WakeConsumer
  <2>2. CASE state \notin Open
    BY <1>10, <2>2, SMTT(30) DEF Finish
  <2> QED
    BY <2>1, <2>2
<1>11. CASE StartTake
  BY <1>11, SMTT(30) DEF StartTake
<1>12. ASSUME NEW w \in Wakers, PollTake(w)
       PROVE  IInv'
  <2>1. CASE state \in Terminal
    <3>1. TypeOK' /\ EndpointsAgree' /\ NoUnreachable'
      BY <1>12, <2>1, ZenonT(60) DEF PollTake
    <3>2. ItemsConserved'
      BY <1>12, <2>1, SMTT(30) DEF PollTake
    <3>3. OfferAnswersTruthfully'
      BY <1>12, <2>1, SMTT(30) DEF PollTake
    <3>5. EndReportedFaithfully'
      <4>1. consumer = "Complete" => eof' = eof
        BY <1>12, <2>1, SMTT(30) DEF PollTake
      <4>2. consumer = "Active" => eof' = finished
        BY <1>12, <2>1, SMTT(30) DEF PollTake
      <4> QED
        BY <1>12, <2>1, <4>1, <4>2, SMTT(30) DEF PollTake
    <3>4. ProducerNotStranded' /\ ConsumerNotStranded'
      BY <1>12, <2>1, SMTT(30) DEF PollTake
    <3> QED
      BY <3>1, <3>2, <3>3, <3>4, <3>5
  <2>2. CASE state \notin Terminal
    <3>1. WakeProducer
      BY <1>12, <2>2, SMTT(30) DEF PollTake
    <3>2. CASE state = "Offered"
      <4>1. pphase = "waiting" => pnotified'
        BY <1>12, <3>1, <3>2, ProducerWoken
      <4> QED
        <5>1. TypeOK' /\ EndpointsAgree' /\ NoUnreachable'
          BY <1>12, <3>1, <3>2, <4>1, ProducerWoken, ZenonT(60) DEF PollTake, MoveItem, WakeProducer
        <5>2. ItemsConserved'
          BY <1>12, <3>1, <3>2, <4>1, ProducerWoken, SMTT(30) DEF PollTake, MoveItem, WakeProducer
        <5>3. OfferAnswersTruthfully' /\ EndReportedFaithfully'
          BY <1>12, <3>1, <3>2, <4>1, ProducerWoken, SMTT(30) DEF PollTake, MoveItem, WakeProducer
        <5>4. ProducerNotStranded' /\ ConsumerNotStranded'
          BY <1>12, <3>1, <3>2, <4>1, ProducerWoken, SMTT(30) DEF PollTake, MoveItem, WakeProducer
        <5> QED
          BY <5>1, <5>2, <5>3, <5>4
    <3>3. CASE state \in Open
      <4>1. pphase = "waiting" => pnotified'
        BY <1>12, <3>1, <3>3, ProducerWoken
      <4> QED
        BY <1>12, <3>1, <3>3, <4>1, ProducerWoken, ZenonT(60) DEF PollTake, ReplaceWaker, WakeProducer
    <3> QED
      BY <1>12, <2>2, <3>2, <3>3, SMTT(30) DEF PollTake
  <2> QED
    BY <2>1, <2>2
<1>13. CASE DropTake
  <2>1. TypeOK' /\ NoUnreachable'
    BY <1>13, ZenonT(60) DEF DropTake
  <2>5. EndpointsAgree'
    BY <1>13, SMTT(30) DEF DropTake
  <2>2. ItemsConserved'
    BY <1>13, SMTT(30) DEF DropTake
  <2>3. OfferAnswersTruthfully' /\ EndReportedFaithfully'
    BY <1>13, SMTT(30) DEF DropTake
  <2>4. ProducerNotStranded' /\ ConsumerNotStranded'
    BY <1>13, SMTT(30) DEF DropTake
  <2> QED
    BY <2>1, <2>2, <2>3, <2>4, <2>5
<1>14. CASE DropConsumer
  <2>1. CASE consumer = "Active" /\ state \notin Terminal
    <3>1. WakeProducer
      BY <1>14, <2>1, SMTT(30) DEF DropConsumer
    <3>2. pphase = "waiting" => pnotified'
      BY <3>1, <2>1, ProducerWoken
    <3>3. TypeOK'
      BY <1>14, <2>1, <3>1, <3>2, SMTT(30) DEF DropConsumer, WakeProducer
    <3>4. EndpointsAgree' /\ NoUnreachable'
      BY <1>14, <2>1, <3>1, <3>2, SMTT(30) DEF DropConsumer, WakeProducer
    <3>5. ItemsConserved'
      BY <1>14, <2>1, <3>1, <3>2, SMTT(30) DEF DropConsumer, WakeProducer
    <3>6. OfferAnswersTruthfully' /\ EndReportedFaithfully'
      BY <1>14, <2>1, <3>1, <3>2, SMTT(30) DEF DropConsumer, WakeProducer
    <3>7. ProducerNotStranded' /\ ConsumerNotStranded'
      BY <1>14, <2>1, <3>1, <3>2, SMTT(30) DEF DropConsumer, WakeProducer
    <3> QED
      BY <3>3, <3>4, <3>5, <3>6, <3>7
  <2>2. CASE ~(consumer = "Active" /\ state \notin Terminal)
    <3>1. TypeOK'
      BY <1>14, <2>2, SMTT(30) DEF DropConsumer
    <3>2. EndpointsAgree' /\ NoUnreachable'
      BY <1>14, <2>2, SMTT(30) DEF DropConsumer
    <3>3. ItemsConserved'
      BY <1>14, <2>2, SMTT(30) DEF DropConsumer
    <3>4. OfferAnswersTruthfully' /\ EndReportedFaithfully'
      BY <1>14, <2>2, SMTT(30) DEF DropConsumer
    <3>5. ProducerNotStranded' /\ ConsumerNotStranded'
      BY <1>14, <2>2, SMTT(30) DEF DropConsumer
    <3> QED
      BY <3>1, <3>2, <3>3, <3>4, <3>5
  <2> QED
    BY <2>1, <2>2
<1>15. CASE UNCHANGED vars
  BY <1>15, SMTT(30) DEF vars
<1> QED
  BY <1>1, <1>2, <1>3, <1>4, <1>5, <1>6, <1>7, <1>8, <1>9, <1>10, <1>11, <1>12, <1>13, <1>14,
     <1>15 DEF Next, PollProducer, Close, Fail, DropProducer, Released

\* NoUnreachable, ItemsConserved, OfferAnswersTruthfully, ProducerNotStranded,
\* ConsumerNotStranded and EndReportedFaithfully hold in every reachable state,
\* for any items and wakers: the endpoints never reach an unreachable!() arm,
\* no item is lost, duplicated or misreported, and no wake-up is lost.
THEOREM PipeInvariant == Spec => []IInv
<1>1. Init => IInv
  BY InitIInv
<1>2. IInv /\ [Next]_vars => IInv'
  BY NextIInv
<1> QED
  BY <1>1, <1>2, PTL DEF Spec

\* No future of the producer waits without its last waker registered or woken.
THEOREM NoLostWakeup == Spec => []NobodyStranded
  BY PipeInvariant, PTL DEF IInv, NobodyStranded

\* Ok from offer means the consumer took the item, an error that it did not.
THEOREM OfferResults == Spec => [](ItemsConserved /\ OfferAnswersTruthfully)
  BY PipeInvariant, PTL DEF IInv

\* None of the unreachable!() arms of pipe.rs is reached.
THEOREM Unreachable == Spec => []NoUnreachable
  BY PipeInvariant, PTL DEF IInv

-----------------------------------------------------------------------------
\* A new channel has nothing on offer and both ends open.
LEMMA RefinesInit == Init => R!Init
  BY DEF Init, R!Init, writer, reader

\* Each action is a step of Rendezvous or leaves the mapped variables alone.
LEMMA RefinesNext == IInv /\ [Next]_vars => [R!Next]_(R!vars)
<1> SUFFICES ASSUME IInv, [Next]_vars
             PROVE  [R!Next]_(R!vars)
  OBVIOUS
<1> USE NoneAssumption
    DEF IInv, TypeOK, EndpointsAgree, NoUnreachable, ItemsConserved, Terminal, Open, Option,
        shared, pvars, cvars, history, writer, reader
<1>1. CASE StartDemand \/ StartAbandoned \/ DropWait \/ StartTake \/ DropTake
  BY <1>1 DEF StartDemand, StartAbandoned, DropWait, StartTake, DropTake, R!vars
<1>2. ASSUME NEW i \in Items, StartOffer(i)
      PROVE  UNCHANGED R!vars
  BY <1>2 DEF StartOffer, R!vars
<1>3. ASSUME NEW w \in Wakers, PollDemand(w) \/ PollAbandoned(w)
      PROVE  UNCHANGED R!vars
  BY <1>3 DEF PollDemand, PollAbandoned, R!vars
<1>4. ASSUME NEW w \in Wakers, SubmitOffer(w)
      PROVE  R!Put(offering) \/ R!Refuse(offering)
  <2>1. CASE state \in Open
    BY <1>4, <2>1 DEF SubmitOffer, R!Put, R!Fresh
  <2>2. CASE state \notin Open
    BY <1>4, <2>2 DEF SubmitOffer, R!Refuse, R!Fresh
  <2> QED
    BY <2>1, <2>2
<1>5. ASSUME NEW w \in Wakers, PollOffer(w)
      PROVE  R!Withdraw \/ UNCHANGED R!vars
  BY <1>5 DEF PollOffer, Accepted, R!Withdraw, R!vars
<1>6. CASE DropOffer
  <2>1. CASE pphase = "new"
    <3>1. R!Refuse(offering)
      BY <1>6, <2>1 DEF DropOffer, R!Refuse, R!Fresh
    <3> QED
      BY <3>1, <2>1, <1>6 DEF DropOffer, R!Next
  <2>2. CASE pphase # "new" /\ state = "Offered"
    <3>1. R!Withdraw
      BY <1>6, <2>2 DEF DropOffer, RetractOffer, R!Withdraw
    <3> QED
      BY <3>1 DEF R!Next
  <2>3. CASE pphase # "new" /\ state # "Offered"
    <3>1. R!Withdraw \/ UNCHANGED R!vars
      BY <1>6, <2>3 DEF DropOffer, Reclaimed, R!Withdraw, R!vars
    <3> QED
      BY <3>1 DEF R!Next
  <2> QED
    BY <2>1, <2>2, <2>3
<1>7. ASSUME NEW terminal \in Terminal, Finish(terminal), finished' = terminal
      PROVE  R!End(terminal)
  BY <1>7 DEF Finish, R!End
<1>8. ASSUME NEW w \in Wakers, PollTake(w)
      PROVE  R!Take \/ R!Tell \/ UNCHANGED R!vars
  <2>1. CASE state \in Open
    BY <1>8, <2>1 DEF PollTake, R!vars
  <2>2. CASE state = "Offered"
    BY <1>8, <2>2 DEF PollTake, MoveItem, R!Take
  <2>3. CASE state \in Terminal /\ consumer = "Active"
    BY <1>8, <2>3 DEF PollTake, R!Tell
  <2>4. CASE state \in Terminal /\ consumer # "Active"
    BY <1>8, <2>4 DEF PollTake, R!vars
  <2> QED
    BY <1>8, <2>1, <2>2, <2>3, <2>4 DEF PollTake
<1>9. CASE DropConsumer
  <2>1. R!Leave
    BY <1>9 DEF DropConsumer, R!Leave
  <2> QED
    BY <2>1 DEF R!Next
<1>10. CASE UNCHANGED vars
  BY <1>10 DEF vars, R!vars
<1>11. ASSUME NEW w \in Wakers, SubmitOffer(w)
       PROVE  offering \in Items
  BY <1>11 DEF SubmitOffer
<1> QED
  BY <1>1, <1>2, <1>3, <1>4, <1>5, <1>6, <1>7, <1>8, <1>9, <1>10, <1>11
  DEF Next, PollProducer, Close, Fail, DropProducer, Released, R!Next

\* The pipe implements Rendezvous: however its futures are polled, cancelled
\* and dropped, at most one item is on offer, it is taken or refused once, and
\* the reader is told the reason the writer ended with.
THEOREM PipeRefinesRendezvous == Spec => ImplementsRendezvous
<1>1. Init => R!Init
  BY RefinesInit
<1>2. IInv /\ [Next]_vars => [R!Next]_(R!vars)
  BY RefinesNext
<1> QED
  BY <1>1, <1>2, PipeInvariant, PTL DEF Spec, R!Spec, ImplementsRendezvous
=============================================================================
