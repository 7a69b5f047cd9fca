-------------------------------- MODULE Pipe --------------------------------
(***************************************************************************)
(* The connection-local, capacity-one rendezvous of src/src/body/pipe.rs.  *)
(* It carries body frames from the connection to the application and the   *)
(* response events of a client exchange.                                   *)
(*                                                                         *)
(* Everything runs on one thread, so a call into the pipe (a poll, a drop, *)
(* a finish) is atomic; the tasks of the two endpoints interleave between  *)
(* calls.  What is hard is what happens between calls: futures dropped     *)
(* half way, endpoints dropped under a pending future, wakers registered   *)
(* by one poll and taken by another.                                       *)
(***************************************************************************)
EXTENDS Naturals

CONSTANTS
    Items,      \* values of type T; every offer of a behaviour uses a new one
    Wakers,     \* the wakers a future can be polled with
    None        \* the absent value of every Option

ASSUME NoneAssumption == None \notin Items /\ None \notin Wakers

VARIABLES
    state,          \* Shared.state, without its payload
    slot,           \* the payload of Offered(T) and Abandoned(Option<T>)
    producer_waker, \* Shared.producer_waker
    consumer_waker, \* Shared.consumer_waker
    producer,       \* Producer.lifecycle
    consumer,       \* Consumer.lifecycle, or "Dropped"
    pfut,           \* the future that borrows the producer
    pphase,         \* how far that future got
    offering,       \* the item of the current Offer future
    pctx,           \* the waker of that future's last poll
    pnotified,      \* that waker has been woken since
    cphase,         \* the Take future that borrows the consumer
    cctx,           \* the waker of its last poll
    cnotified,      \* that waker has been woken since
    delivered,      \* history: items handed to the consumer
    returned,       \* history: items given back by an OfferError
    discarded,      \* history: items dropped with a cancelled Offer
    acked,          \* history: items whose Offer resolved to Ok
    finished,       \* history: the terminal state the producer asked for
    eof             \* history: the first terminal result a Take returned

shared == <<state, slot, producer_waker, consumer_waker>>
pvars == <<producer, pfut, pphase, offering, pctx, pnotified, finished>>
cvars == <<consumer, cphase, cctx, cnotified, eof>>
history == <<delivered, returned, discarded, acked>>
vars == <<shared, pvars, cvars, history>>

Terminal == {"Closed", "Disconnected", "Failed"}
Open == {"Idle", "Demanded"}

Init ==
    /\ state = "Idle" /\ slot = None
    /\ producer_waker = None /\ consumer_waker = None
    /\ producer = "Active" /\ consumer = "Active"
    /\ pfut = "none" /\ pphase = "none" /\ offering = None
    /\ pctx = None /\ pnotified = FALSE
    /\ cphase = "none" /\ cctx = None /\ cnotified = FALSE
    /\ delivered = {} /\ returned = {} /\ discarded = {} /\ acked = {}
    /\ finished = "none" /\ eof = "none"

Used ==
    delivered \cup returned \cup discarded \cup ({slot, offering} \ {None})

(***************************************************************************)
(* Wakers.  wake_one consumes the registered waker; it reaches the future  *)
(* only if it is the waker of that future's last poll.                     *)
(***************************************************************************)
KeepFirstWaker(registered, w) == IF registered = None THEN w ELSE registered

ReplaceWaker(registered, w) == IF registered = w THEN registered ELSE w

WakeProducer ==
    /\ producer_waker' = None
    /\ pnotified' = (pnotified \/ (producer_waker # None /\ producer_waker = pctx))

LeaveConsumerAsleep == UNCHANGED <<consumer_waker, cnotified>>

WakeConsumer ==
    /\ consumer_waker' = None
    /\ cnotified' = (cnotified \/ (consumer_waker # None /\ consumer_waker = cctx))

-----------------------------------------------------------------------------
(* The producer's futures. *)

StartDemand ==
    /\ producer = "Active" /\ pfut = "none"
    /\ pfut' = "demand" /\ pphase' = "new"
    /\ UNCHANGED <<shared, producer, offering, pctx, pnotified, finished, cvars, history>>

StartAbandoned ==
    /\ producer = "Active" /\ pfut = "none"
    /\ pfut' = "abandoned" /\ pphase' = "new"
    /\ UNCHANGED <<shared, producer, offering, pctx, pnotified, finished, cvars, history>>

StartOffer(i) ==
    /\ producer = "Active" /\ pfut = "none" /\ i \notin Used
    /\ pfut' = "offer" /\ pphase' = "new" /\ offering' = i
    /\ UNCHANGED <<shared, producer, pctx, pnotified, finished, cvars, history>>

ProducerPolled(w) ==
    /\ pctx' = w
    /\ pnotified' = FALSE

PollDemand(w) ==
    /\ pfut = "demand" /\ pphase \in {"new", "waiting"}
    /\ ProducerPolled(w)
    /\ \/ /\ state = "Idle"
          /\ producer_waker' = ReplaceWaker(producer_waker, w)
          /\ pphase' = "waiting"
       \/ /\ state # "Idle"
          /\ pphase' = "ready"
          /\ UNCHANGED producer_waker
    /\ UNCHANGED <<state, slot, consumer_waker, producer, pfut, offering, finished, cvars, history>>

PollAbandoned(w) ==
    /\ pfut = "abandoned" /\ pphase \in {"new", "waiting"}
    /\ ProducerPolled(w)
    /\ \/ /\ state = "Abandoned"
          /\ pphase' = "ready"
          /\ UNCHANGED producer_waker
       \/ /\ state # "Abandoned"
          /\ producer_waker' = ReplaceWaker(producer_waker, w)
          /\ pphase' = "waiting"
    /\ UNCHANGED <<state, slot, consumer_waker, producer, pfut, offering, finished, cvars, history>>

\* Offer::poll while the future still owns its item.
SubmitOffer(w) ==
    /\ pfut = "offer" /\ pphase = "new" /\ state # "Offered"
    /\ ProducerPolled(w)
    /\ \/ /\ state \in Open
          /\ state' = "Offered" /\ slot' = offering
          /\ producer_waker' = ReplaceWaker(producer_waker, w)
          /\ WakeConsumer
          /\ pphase' = "waiting"
          /\ UNCHANGED returned
       \/ /\ state \notin Open
          /\ returned' = returned \cup {offering}
          /\ pphase' = "ready"
          /\ UNCHANGED <<shared, cnotified>>
    /\ UNCHANGED <<producer, pfut, offering, finished, consumer, cphase, cctx, eof,
                   delivered, discarded, acked>>

AcceptedOnceGone == state \in Open \cup {"Abandoned"}

\* The slot no longer holds the submitted item: the consumer took it.
Accepted == state \in Open \/ (state = "Abandoned" /\ slot = None)

\* Offer::poll once the item has been submitted.
PollOffer(w) ==
    /\ pfut = "offer" /\ pphase = "waiting" /\ state \notin Terminal
    /\ ProducerPolled(w)
    /\ \/ /\ state = "Offered"
          /\ producer_waker' = ReplaceWaker(producer_waker, w)
          /\ UNCHANGED <<slot, pphase, returned, acked>>
       \/ /\ state = "Abandoned" /\ ~Accepted
          /\ slot' = None
          /\ returned' = returned \cup {slot}
          /\ pphase' = "ready"
          /\ UNCHANGED <<producer_waker, acked>>
       \/ /\ Accepted
          /\ acked' = acked \cup {offering}
          /\ pphase' = "ready"
          /\ UNCHANGED <<slot, producer_waker, returned>>
    /\ UNCHANGED <<state, consumer_waker, producer, pfut, offering, finished, cvars,
                   delivered, discarded>>

ProducerFutureGone ==
    /\ pfut' = "none" /\ pphase' = "none" /\ offering' = None
    /\ pctx' = None /\ pnotified' = FALSE
    /\ producer_waker' = None

\* Drop of Demand and of Abandoned.
DropWait ==
    /\ pfut \in {"demand", "abandoned"}
    /\ ProducerFutureGone
    /\ UNCHANGED <<state, slot, consumer_waker, producer, finished, cvars, history>>

ForgetOffer == UNCHANGED <<state, slot, consumer_waker, cnotified, discarded>>

\* The item is dropped, the slot reopens and the consumer may demand again.
RetractOffer ==
    /\ state' = "Idle" /\ slot' = None
    /\ discarded' = discarded \cup {slot}
    /\ WakeConsumer

\* The item of an abandoned pipe, unless it was taken.
Reclaimed == {slot} \ {None}

\* Drop of Offer
DropOffer ==
    /\ pfut = "offer"
    /\ ProducerFutureGone
    /\ \/ /\ pphase = "new"
          /\ discarded' = discarded \cup {offering}
          /\ UNCHANGED <<state, slot, consumer_waker, cnotified>>
       \/ /\ pphase # "new" /\ state = "Offered"
          /\ RetractOffer
       \/ /\ pphase # "new" /\ state # "Offered"
          /\ slot' = None
          /\ discarded' = discarded \cup Reclaimed
          /\ UNCHANGED <<state, consumer_waker, cnotified>>
    /\ UNCHANGED <<producer, finished, consumer, cphase, cctx, eof, delivered, returned, acked>>

Finish(terminal) ==
    /\ producer = "Active" /\ pfut = "none" /\ state # "Offered"
    /\ producer' = "Complete"
    /\ \/ /\ state \in Open
          /\ state' = terminal
          /\ WakeConsumer
       \/ /\ state \notin Open
          /\ UNCHANGED <<state, consumer_waker, cnotified>>
    /\ UNCHANGED <<slot, producer_waker, pfut, pphase, offering, pctx, pnotified,
                   consumer, cphase, cctx, eof, history>>

Close == Finish("Closed") /\ finished' = "Closed"

Fail == Finish("Failed") /\ finished' = "Failed"

DropProducer == Finish("Disconnected") /\ finished' = "Disconnected"

-----------------------------------------------------------------------------
(* The consumer. *)

StartTake ==
    /\ consumer # "Dropped" /\ cphase = "none"
    /\ cphase' = "new"
    /\ UNCHANGED <<shared, pvars, consumer, cctx, cnotified, eof, history>>

CopyItem == delivered' = delivered \cup {slot} /\ state' = "Idle" /\ UNCHANGED slot

MoveItem == delivered' = delivered \cup {slot} /\ state' = "Idle" /\ slot' = None

\* Take::poll
PollTake(w) ==
    /\ cphase \in {"new", "waiting"} /\ state # "Abandoned"
    /\ cctx' = w /\ cnotified' = FALSE
    /\ \/ /\ state \in Open
          /\ state' = "Demanded"
          /\ consumer_waker' = ReplaceWaker(consumer_waker, w)
          /\ WakeProducer
          /\ cphase' = "waiting"
          /\ UNCHANGED <<slot, consumer, eof, delivered>>
       \/ /\ state = "Offered"
          /\ MoveItem
          /\ WakeProducer
          /\ cphase' = "ready"
          /\ UNCHANGED <<consumer_waker, consumer, eof>>
       \/ /\ state \in Terminal
          /\ state' = "Closed"
          /\ consumer' = "Complete"
          /\ eof' = IF eof = "none" THEN state ELSE eof
          /\ cphase' = "ready"
          /\ UNCHANGED <<slot, consumer_waker, producer_waker, pnotified, delivered>>
    /\ UNCHANGED <<producer, pfut, pphase, offering, pctx, finished, returned, discarded, acked>>

DropTake ==
    /\ cphase # "none"
    /\ cphase' = "none" /\ cctx' = None /\ cnotified' = FALSE
    /\ consumer_waker' = None
    /\ UNCHANGED <<state, slot, producer_waker, pvars, consumer, eof, history>>

\* Drop for Consumer: an offered item stays in the pipe for its Offer to reclaim.
DropConsumer ==
    /\ consumer # "Dropped" /\ cphase = "none"
    /\ consumer' = "Dropped"
    /\ \/ /\ consumer = "Active" /\ state \notin Terminal
          /\ state' = "Abandoned"
          /\ WakeProducer
       \/ /\ consumer = "Complete" \/ state \in Terminal
          /\ UNCHANGED <<state, producer_waker, pnotified>>
    /\ UNCHANGED <<slot, consumer_waker, producer, pfut, pphase, offering, pctx, finished,
                   cphase, cctx, cnotified, eof, history>>

-----------------------------------------------------------------------------
PollProducer(w) == PollDemand(w) \/ PollAbandoned(w) \/ SubmitOffer(w) \/ PollOffer(w)

\* Both endpoints are gone: the shared allocation is freed.
Released ==
    /\ producer = "Complete" /\ consumer = "Dropped"
    /\ UNCHANGED vars

Next ==
    \/ StartDemand \/ StartAbandoned \/ DropWait \/ DropOffer
    \/ StartTake \/ DropTake \/ DropConsumer
    \/ \E i \in Items : StartOffer(i)
    \/ \E w \in Wakers : PollProducer(w) \/ PollTake(w)
    \/ Close \/ Fail \/ DropProducer \/ Released

Spec == Init /\ [][Next]_vars

\* The executor polls a task whose waker was woken.  Nothing else is fair: the
\* application may never start, resume or drop anything of its own accord.
Fairness ==
    /\ WF_vars(pnotified /\ \E w \in Wakers : PollProducer(w))
    /\ WF_vars(cnotified /\ \E w \in Wakers : PollTake(w))

FairSpec == Spec /\ Fairness

-----------------------------------------------------------------------------
Option(S) == S \cup {None}

TypeOK ==
    /\ state \in {"Idle", "Demanded", "Offered", "Abandoned"} \cup Terminal
    /\ slot \in Option(Items)
    /\ producer_waker \in Option(Wakers) /\ consumer_waker \in Option(Wakers)
    /\ producer \in {"Active", "Complete"}
    /\ consumer \in {"Active", "Complete", "Dropped"}
    /\ pfut \in {"none", "demand", "offer", "abandoned"}
    /\ pphase \in {"none", "new", "waiting", "ready"}
    /\ offering \in Option(Items)
    /\ pctx \in Option(Wakers) /\ pnotified \in BOOLEAN
    /\ cphase \in {"none", "new", "waiting", "ready"}
    /\ cctx \in Option(Wakers) /\ cnotified \in BOOLEAN
    /\ delivered \in SUBSET Items /\ returned \in SUBSET Items
    /\ discarded \in SUBSET Items /\ acked \in SUBSET Items
    /\ finished \in Terminal \cup {"none"}
    /\ eof \in Terminal \cup {"none"}

\* The four unreachable!() arms of the module are unreachable: finishing or
\* submitting while an item is offered, a terminal state under an in-flight
\* offer, and polling a Take after abandonment.
NoUnreachable ==
    /\ pfut = "none" => state # "Offered"
    /\ pfut = "offer" /\ pphase = "new" => state # "Offered"
    /\ pfut = "offer" /\ pphase = "waiting" => state \notin Terminal
    /\ consumer # "Dropped" => state # "Abandoned"

\* An item is in exactly one place: owned by an unsubmitted Offer, in the slot,
\* with the consumer, back with the caller of offer, or dropped.
ItemsConserved ==
    /\ delivered \cap returned = {}
    /\ delivered \cap discarded = {}
    /\ returned \cap discarded = {}
    /\ slot # None => slot \notin delivered \cup returned \cup discarded
    /\ pfut = "offer" /\ pphase = "new" =>
           offering \notin delivered \cup returned \cup discarded \cup {slot}

\* offer() answers Ok exactly for the items the consumer took: an Ok is never
\* given for an item that was not delivered, a delivered item is never handed
\* back, and an offer that resolved has one of the two answers.
OfferAnswersTruthfully ==
    /\ acked \subseteq delivered
    /\ pfut = "offer" /\ pphase = "ready" => offering \in acked \cup returned
    /\ pfut = "offer" /\ pphase = "waiting" => offering \in delivered \cup {slot}

\* A producer future that waits and would resolve (or must register demand
\* again) has been woken through the waker of its last poll, whichever waker
\* that was; otherwise that very waker is registered.
ProducerNotStranded ==
    pphase = "waiting" =>
        \/ pnotified
        \/ /\ producer_waker = pctx
           /\ pfut = "demand" => state = "Idle"
           /\ pfut = "offer" => state = "Offered"
           /\ pfut = "abandoned" => state # "Abandoned"

\* A waiting Take that was not woken is registered and its demand is visible
\* to the producer; in particular a cancelled offer does not hide it.
ConsumerNotStranded ==
    cphase = "waiting" => cnotified \/ (consumer_waker = cctx /\ state = "Demanded")

\* "Explicit failure and unfinished producer Drop are distinct from clean EOF":
\* the first terminal result a Take reports is the one the producer asked for.
EndReportedFaithfully == eof # "none" => eof = finished

\* The refinement mapping to the promise of Rendezvous.
writer == IF finished = "none" THEN "open" ELSE finished

reader ==
    CASE consumer = "Active" -> "open"
      [] consumer = "Complete" -> "ended"
      [] consumer = "Dropped" -> "gone"

R == INSTANCE Rendezvous WITH
        Reasons <- Terminal, onOffer <- slot, taken <- delivered,
        refused <- returned \cup discarded, told <- eof

\* Every call into the pipe, cancellations and drops included, is a step of
\* Rendezvous or invisible there.
ImplementsRendezvous == R!Spec

\* Once the producer ended the pipe, a Take that waits is answered (or dropped).
EndReachesConsumer == (cphase = "waiting" /\ state \in Terminal) ~> (cphase # "waiting")

\* Once the consumer is gone, an offer, a demand wait and an abandonment wait
\* all resolve (or are dropped).
AbandonmentReachesProducer == (pphase = "waiting" /\ state = "Abandoned") ~> (pphase # "waiting")

\* The connection waiting for demand and the application waiting for an item
\* do not wait for each other.
DemandMeetsTake ==
    (pfut = "demand" /\ pphase = "waiting" /\ cphase = "waiting") ~>
        ~(pfut = "demand" /\ pphase = "waiting" /\ cphase = "waiting")

\* Neither end of the pipe sleeps through what it waits for.
NobodyStranded == ProducerNotStranded /\ ConsumerNotStranded

\* Every wait on a pipe ends that must: a Take after the producer's end, any
\* producer wait after abandonment, and a demand wait once a Take is waiting.
WaitsEnd == EndReachesConsumer /\ AbandonmentReachesProducer /\ DemandMeetsTake
=============================================================================
