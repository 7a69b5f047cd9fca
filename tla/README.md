# Verification of vakya

vakya is a completion-based HTTP/1 client and server library in Rust: one thread
drives a connection, I/O operations own their buffers until they complete, and
cancelling an operation means asking it to stop *and then awaiting it*. This
directory holds TLA+ modules translated from its source (`src/src/`), TLC
configurations that check them on small instances, and TLAPS proofs.

## 1. The system

| Part | Source | State | Module |
|---|---|---|---|
| Rendezvous pipe between connection and application | `body/pipe.rs` | one slot, two wakers, two endpoints and the futures that borrow them | `Pipe`, promise in `Rendezvous` |
| Request admission of a client connection | `client/admission.rs` | the admission slot, the queued job, sender count, wakers shared with the control | `Admission` |
| Shutdown control and the driver shell | `connection.rs` | running / graceful with deadline / aborted, the watcher's timer, wakers | `Control`, composed in `ServerDriver` |
| Informational responses of a server request | `server/context.rs`, `proto/h1/server.rs` | the command slot, the automatic 100 Continue, admission of heads | `Informational` |
| Upgrade hand-over | `upgrade.rs` | the claim cell between application and driver | `Upgrade` |
| Upgraded transport | `upgrade.rs`, `upgrade/boxed.rs` | bytes read ahead, the halves and the form they are in | `UpgradedTransport` (extends `Upgrade`) |
| Exchange policy | `proto/h1/exchange.rs` | reuse, closure and hand-over decided from the heads | `ExchangePolicy` |
| Client exchange | `proto/h1/client.rs`, `client/response.rs` | upload, response, observer, two cancellation tokens | `ClientExchange` |
| Server exchange | `proto/h1/server.rs` | reception, service call, response, close flag | `ServerExchange` |
| Client connection driver, completion receipts | `proto/h1/client.rs`, `client/completion.rs` | the job loop, receipts, where the transport goes | `ClientDriver` |
| Server connection driver | `proto/h1/server.rs` | the request loop over one receive buffer | `ServerConnection`, composed in `ServerDriver` |
| Head scan | `proto/h1/head/scan.rs` | the resumable search for the end of a head and its limit | `HeadScan` |
| Head semantics | `proto/h1/head/validate.rs` | pure: framing, persistence, expectation, upgrade of a head | `HeadSemantics` |
| Head planning | `proto/h1/encode.rs` | pure: the head an outgoing message gets | `HeadPlan` |
| Body decoder | `proto/h1/decode.rs` | framing state, scan position, limits | `Decoder` |
| Receive path of a body | `proto/h1/body_io.rs`, `io/recv.rs`, `io/transport.rs`, `body/incoming.rs` | the receive loop, the buffer and its managed lease, the drain budget | `ReceiveBody` |
| Send path of a body | `proto/h1/body_io.rs`, `proto/h1/encode.rs`, `io/send.rs` | the encoder, the frame being written, unflushed output | `SendBody` |
| One outgoing message | `proto/h1/client.rs`, `proto/h1/server.rs` | head, body and flush, as the peer reads them | `Message` (extends `SendBody`, `HeadPlan`) |
| Bodies and adapters | `body.rs`, `body/*.rs` | sources with their outstanding read, layers with their counters | `Bodies` |
| Consumers of a body | `body/collect.rs`, `body/stream.rs`, `body/reader.rs`, `body/file.rs` | what is collected, held and taken apart | `Collect` (extends `Bodies`) |

How they interact. A connection's `run()` is `Control.drive` around a driver
loop (`ClientDriver`, `ServerConnection`). The client's loop takes jobs from
`Admission`, runs one `ClientExchange` per job and publishes a receipt; the
server's loop reads a head, runs one `ServerExchange` (which contains an
`Informational` writer) and reads on. Inside an exchange, `ReceiveBody` decodes
with `Decoder` and feeds the application through a `Pipe`, while `SendBody`
writes the other direction; `ExchangePolicy` turns the ends of both into reuse,
closure or an `Upgrade`.

Four modules compose others. `ServerDriver` runs `ServerConnection`, with
`HeadScan`, as the future that `Control` drives: one task, one cancellation, one
`stopped()` wait of the idle read. `Message` puts a planned head before a
`SendBody` and gives both to a peer that has only `HeadSemantics` and `Decoder`.
`UpgradedTransport` follows the transport through `Upgrade` into the hands that
read it. `Collect` consumes any stack of `Bodies`. Elsewhere a module keeps the
parts it talks to down to what it can observe of them, and the part has a module
of its own.

What is hard in this code: futures dropped between any two polls; one-shot wake
slots shared by several tasks; operations that are asked to stop and complete
with data anyway; two directions of an exchange failing in either order while
the original error has to survive; a receive buffer whose bytes belong to the
next message; limits counted over several reads; heads that two implementations must read
alike; adapters that hint, count and forward around a body that may break its
promises. `PROJECT.json` lists these
hazards at their lines with the properties that cover them.

## 2. How the code becomes a model

* **Atomicity.** Everything runs on one thread without locks, so a call (a poll,
  a drop, a `finish`) is one action and tasks interleave between calls. A call
  that loops over ready work without yielding is one action too.
* **Wakers.** A slot holds who was registered; a `woken`/`notified` flag says
  that the task was woken since its last poll. `Pipe` distinguishes two wakers so
  that a future may be polled by another task. Spurious polls are always allowed;
  only *woken* polls are fair, so a lost wake-up is a liveness and a safety error.
* **I/O.** A read or write may complete with any part of the bytes, fail, end, or
  complete late after it was cancelled. The bytes are a small alphabet (three hex
  digits, `;`, a letter that starts a trailer field, CR, LF). In `Bodies` and
  `UpgradedTransport` a byte is its position in the stream, so that a loss, a
  repetition and a swap all show.
* **Heads** are records of fields; a list field is the sequence of its lines, each
  the sequence of its members, and a member is well formed or not.
* **Time** is a counter in `Control`; elsewhere a timeout may happen whenever its
  wait is pending.
* **Crash of a task** is the drop of its future, an action wherever the code
  permits it (`DropDriver`, `DropReceive`, `DropExchange`, `DropOffer` …).
* **History variables** record what an actor was told, so that a property can
  compare it with what happened. They appear in no guard, except that `Pipe`
  gives each offer a new item, `Informational` bounds the number of calls, and
  `ServerConnection` finds in them which request the next bytes belong to.

## 3. Modules, state and actions

**Pipe / Rendezvous.** `state` and `slot` are `Shared.state` with its payload,
`pfut`/`pphase` the `Demand`, `Offer` or `WaitAbandoned` future that borrows the
producer, `cphase` the `Take` of the consumer. One action per start, poll and drop
of each future and per `close`, `fail` and endpoint drop. `Rendezvous` is the
promise without futures or wakers: at most one item on offer, taken or refused
once, one end told to the reader.

**Admission.** `admission`, `waiter`, `job`, `senders` are the shared `State`;
`client[c]` is what each client holds (nothing, a reservation, a permit, a
submitted request). `DropReservation`, `Release`, `CloseReceiver` are helpers the
code also has; `PollNext`, `ExchangeReusable`, `ExchangeLast` are the driver.
The control's admission waker is overwritten by whoever registers last, as in
the code.

**Control.** `Graceful(d)`, `Abort`, `Tick`, `Complete(r)` (the connection future,
`run_inner` of either role, ends well, fails, or ends as canceled), the four outcomes
of polling `drive`, `DropDriver` and `PollStopped`. A client's future may end as
canceled without any abort, when the response it was to deliver is dropped.

**Informational.** Application calls (`Send`, `PollSend`, `DropSend`), the writer
loop (`PollWriter`, the completion of a head), the receive side's wait for
Continue, and `ServiceReturns`/`FinalResponse`/`EndExchange` of the coordinator.

**Upgrade / UpgradedTransport.** Claims by type, their polls and drops, and the
driver's `Fulfill`, `CloseClaim` and `DropPending`. `UpgradedTransport` adds the
bytes: `ahead` is `read_ahead`, `unread` what the reader still has; `HolderReads`
fills one or two slices from the first and then reads the second, and boxing,
downcasting, splitting and `into_parts` are actions of whoever holds the halves.

**ClientExchange / ServerExchange.** One action per point at which an activity can
end or be seen to end; the `race` of the code is the order of these actions, and
`Settle` is the composition at the end with every early return. Heads are records
of what the policy reads from them.

**ClientDriver / ServerConnection.** The loops between exchanges; an exchange is
reduced to the outcomes the exchange modules can produce. `ServerConnection` reads
heads byte by byte through `HeadScan`, whose `Complete` resumes where the last
read left it (`Scans` is its loop). `HeadScan` also says what a head is without
scanning for it (`EmptyLine`, `IsHead`); the scripts a peer may send are made of
such heads, and `HeadsAreExact` compares the two.

**ServerDriver.** Every step of `run_inner` is a step of the task `drive` polls:
`Settle` passes the loop's end to `Control` and drops the `stopped()` wait of a
read that is over; `Control`'s requests, clock, timer and drops interleave with it.
`Writing` names the two places where the loop itself waits for the peer to take
bytes, the answer to an illegal head and the shutdown of the transport. A server's
`run_inner` ends as canceled only once it was cancelled (`Ends`).

**HeadSemantics / HeadPlan / Message.** `ValidateRequest` and `ValidateResponse`
return what a head means or the first error; `PrepareRequestHead` and
`PrepareResponseHead` choose framing and connection fields from what the body
declares, reconcile them with what the application set, and validate the result as
a recipient would. `Message`
writes the head in parts, sends the body and flushes, for requests, responses,
informational heads and the answer to an illegal head.

**Decoder / ReceiveBody / SendBody.** `Decode` is `BodyDecoder::decode` as an
operator on (decoder, bytes, eof), with the remembered scan position and every
limit. `ReceiveBody` is the receive loop around it: `DemandMet` decodes, charges a
drain, consumes and then offers or reads. `SendBody` polls the body, encodes,
writes in parts and flushes; the peer is again `Decoder`.

**Bodies / Collect.** A body is a stack: adapters and, at the bottom, a source.
`NextFrame`, `Recycle`, `SizeHint`, `TrailerHint` and `IsEndStream` are the trait's
methods, defined by recursion over the stack with one case per type. `ReaderBody`
and `FileBody` keep their read outstanding over dropped waits (`StartRead`). In
`Collect` the consumers are `collect`, the two stream adapters and an application
that polls, recycles late, replaces an `Either` variant and takes a reader or file
apart; reads succeed, fail or misreport their length, and a file may shrink or grow.

## 4. Runs

All runs together take several minutes with two workers, the longest (`server_driver`)
two to three.

| Run | Checks | States |
|---|---|---|
| `pipe` | no `unreachable!()` arm; `offer` answers truthfully; nobody sleeps with an unregistered waker; implements `Rendezvous`; waits end that must | 11,755 |
| `admission` | one owner; a registered reservation is never overtaken; nobody who can go on sleeps; the driver ends after a shutdown or the last sender, and requests and reservations are answered | 2,758 |
| `informational` | a call's answer is about its own head, one Continue, final head last, limit kept; calls, Continue waits and the selection end | 13,307 |
| `upgrade` | the transport has exactly one holder and a published result a live taker of its type; the holder reads the peer's bytes in order through every conversion; claims resolve | 37,060 |
| `client_exchange` | reuse is earned; the outcome names its cause, an upload abort spares the response, a failure stops the other direction and no application future is left unanswered; waits settle | 156,224 |
| `server_exchange` | reuse is earned and leaves the connection uncancelled; after any early return nothing is in flight and the original error is reported; an abandoned body is announced; failures settle | 30,300 |
| `server_close` | *violated*: see below | |
| `client_driver` | each accepted request gets one receipt, and a true one; a recovered transport is clean; receipts resolve | 12,985 |
| `receive_body` | what is received is exactly what the grammar says was sent, and the buffer keeps exactly what follows; buffer, lease and drain bounds; an abandoned or cancelled reception ends | 248,657 |
| `server_driver` | the earliest deadline counts; Timeout, Canceled and failures are reported for their cause; nobody sleeps through a request; no byte is lost between messages or from a recovered transport, also when a cancelled read completes; abort and deadline end the driver; after a stop no new request starts, and the connection ends unless the peer blocks its last write | 215,000 |
| `message` | both sides read a written head alike; an accepted head is unambiguous under RFC 9112; the peer is never misled about the body, nothing is withheld while the body is pending, each frame is recycled once | 103,884 |
| `bodies` | hints, end and trailer promises survive every stack; `collect` returns exactly the body or the right error; reads lose nothing over dropped waits, failures and `into_parts`; buffers return to the source that made them, once | 401,380 |

**The violated one.** `CloseHonoured` states the documentation of
`RequestContext::close_connection` (`server/context.rs:31`): "Finish this exchange
and close instead of accepting another request", without effect only after the
exchange completed. Called while a 101 or CONNECT response is being written, it
only clears persistence in `finish_exchange`; the policy still returns a hand-over
and the transport is not closed.

Each property of a passing run has a mutant in `PROJECT.json`: a small change of
the modelled code (a dropped guard, a forgotten wake-up, a skipped settlement)
under which TLC finds it violated.

### Bounds, and why they suffice

* `pipe`: three items (an offer after a delivered and a cancelled one), two wakers.
* `admission`: three clients (owner, registered waiter, newcomer), up to two
  senders (a clone differs from the last one).
* `informational`: three calls and a limit of two heads: one abandoned, one
  answered, one refused, with the limit reached with or without Continue.
* `upgrade`: two claims (the winner and one rejected); two transport types and the
  boxed form; four bytes after the message of which any prefix was read ahead, and
  slices of one or two bytes, so that a slice ends inside and at the prefix's end.
* exchanges: one head of every class the policy distinguishes; one informational
  head on the client so that the limit is reached.
* `client_driver`: two jobs.
* `server_driver`: deadlines 1 and 2 in any order, none, and a clock that passes
  both: earlier, equal, later and past deadlines. Three scripts read up to four
  bytes at a time: two pipelined requests with both kinds of line end and a body
  that looks like the end of a head; a head one byte over the limit of seven; an
  illegal head. Four bytes reach from one message into the next.
* `receive_body`: two groups. Four short bodies, two bytes per read and four
  retained, with every interference (abandonment, deadline, cancellation, failure,
  drain, leases, drop). And five chunked messages with any one byte replaced or
  removed, in every segmentation and cut off anywhere, without interference
  (`busy = FALSE`): their meaning comes from a recursive grammar in `MCReceiveBody`
  that knows neither segments nor scan positions. Sizes up to 15 stand for `u64`,
  so that two digits overflow.
* `message`: all combinations of content lengths and transfer codings (absent,
  single, repeated, conflicting, malformed), of connection, expectation and upgrade,
  and of method, target and host, in versions 1.0, 1.1 and one that is neither, with
  small bodies; and for each framing 64 bodies that keep or break what they declare
  (`Deep`). Chunks are shorter than 16, so a prefix has one digit. In
  `AcceptedHeadsAreClear` the comparison with the RFC leaves out a received 205,
  which the code takes to be empty and the RFC frames like any other response.
* `bodies`: every source under every adapter and pairs of adapters; sources yield at
  most three frames or bytes, limits lie below, at and above that. A frame of each
  kind follows one of each kind, also after an error or the end; two polls after the
  end (`PollsAfterEnd`) tell a fused body from one that starts again.

`CHECK_DEADLOCK FALSE` is set where the modelled object has an end (an exchange, a
transfer, a connection, a claim). In `pipe`, `admission` and `informational` every state has a step and deadlock is checked.

### Fairness

Weak fairness is given only to: polls of *woken* tasks (what an executor
guarantees), operations that were *cancelled* (the transport contract of the
library: a cancelled operation completes), the driver's own next step when it is
ready and waits for no I/O, the clock of `Control` (in `ServerDriver`), in `Admission`
the end of a running exchange and in `Informational` the end of a submitted write and
the coordinator's own step. Otherwise no peer, service or application is assumed to
make progress, nor a read or write that was not cancelled: the answer to an illegal
head and the shutdown of a transport, in `ServerDriver` and `ClientDriver`, may take
forever until an abort or a deadline cancels them, and `StopIsHeeded` makes that
exception. Permits, claims, receipts and leases may be kept forever. `message` and
`bodies` state no liveness: whether a body goes on is up to the application.

## 5. Proofs

The proof modules hold for every value of the constants.

* `PipeProofs` (any items and wakers). Inductive invariant: the type, the
  agreement of the endpoints' lifecycles and futures with the shared state
  (`EndpointsAgree`), conservation of items, the truth of offers, that no waiting
  future has lost its registration, and that the end is told faithfully.
  `EndpointsAgree` is the strengthening: no other conjunct is inductive without
  knowing which future an `Offered` or `Abandoned` state belongs to. From it:
  `Unreachable`, `OfferResults`, `NoLostWakeup`, and `PipeRefinesRendezvous`, where
  the mapping reads the item on offer from the slot and the writer's and reader's
  ends from the lifecycles and histories.
* `AdmissionProofs` (any set of clients, any number of senders). The strengthening
  `SlotAgrees` ties the slot to what the clients hold and to the driver's phase.
  From it: `SingleOwner`, `PlaceKept`, `NoLostWakeup` and the action property
  `Priority` (no overtaking).
* `ControlProofs` (any horizon). The strengthening `CauseKnown` ties the mode and the
  watcher to the history of requests. From it: `EarliestDeadline`,
  `TrueReports`, `NoLostWakeup` and the action property `OnlyEscalates`, of `Control`
  with any connection future, one that ends as canceled by itself included: what
  `TrueReports` says of a reported Canceled is that abort() was called or the
  connection itself ended so before the watcher fired. The same invariant is kept by every step of
  `ServerDriver`, whose `Settle` is the completion of that future and the drop of a
  `stopped()` wait: `DriverEarliestDeadline`, `DriverReportsTruly` (where Canceled means
  abort(), since `run_inner` of a server is canceled by its owner only:
  `CanceledByOwner`), `DriverNoLostWakeup`, and the action property `NothingNewAfterStop`.
  The second half of the module proves `TransportAlwaysWhole`, for any requests, head
  limit and read sizes. `Accounted` says that the bytes taken and the buffer together
  are what arrived, in order; `Located`, for each step of the loop, where in the stream
  it is: at a request's end, behind a head, or inside an unfinished head of which the
  scan has seen exactly what the buffer holds. That the scan, resumed after any read,
  finds the head's end is an argument of its own: `OneByte` (one byte of the loop
  against the definition of an empty line), `CompleteFinds` (the loop, by induction),
  `HeadLenFinds` (the limit), `FirstEmptyLine` (the first empty line of the stream from
  a request's start is the end of its head).
* `UpgradeProofs` (any claims, transport types, stream and slice widths). Neither half
  of `HandedOverOnce` is inductive. `OneWinner` says that only the future that won the
  slot can hold or get the transport and that an open claim is recorded for it;
  `DriverFirst`, that the driver keeps the transport until it settles; `Placed`, that
  the five places the transport can be in exclude each other. From them:
  `HandOverIsExclusive`, of `Upgrade`'s `Spec`, and `TransportHandedOverOnce`, of
  `UpgradedTransport`, whose every step is a step of `Upgrade` or leaves its variables
  alone (`TransportImplementsHandOver`). `Streamed` (read, retained and unread bytes together are the stream) and
  `Erasure` (the form the halves are in) add `StreamStaysIntact`.
* `ClientDriverProofs` (any jobs). `GuardKept`: the driver holds the guard of the job it
  works on and of no other. `NothingSaidYet`: until it is gone every receipt published
  is that of a reusable exchange. `VerdictAgrees`: what `run_inner` returns, what became
  of the transport and the verdict for the receipt agree. From them:
  `EveryReceiptIsTrue` and `RecoveryIsAlwaysClean`.
* `ServerExchangeProofs` (any heads). `ResponseFirst` orders call and response;
  `BranchIsCause` says that the early return the coordinator is on was opened by the
  activity it names; `PolicyAgrees` derives the policy's phase from both heads;
  `KnownCloses` ties a visible abandonment to the close flag. From them:
  `ReuseIsAlwaysEarned`, `ExchangeEndsTruthfully`, `AbandonmentIsAnnounced`.
* `ClientExchangeProofs` (any heads, any limit of informational heads). `Staged` orders
  the two directions and the outcome; `PolicyAgrees` as above; `Observed` and
  `BodyFollows` tie what the application has seen, and the body it holds, to
  reception; `UploadStops` names who may stop an upload. From them:
  `ReuseIsAlwaysEarned` and `OutcomeIsAlwaysTrue`.
* `InformationalProofs` (any number of calls, any limit). `SlotIsLatest` and
  `SlotIsTrue`: the command slot belongs to the latest call and an answer in it is true
  of that call; `WriterCounts`, `ContinueTracked`: what was flushed; `SelectionFollows`:
  the final response is selected while no head is queued. From them:
  `HeadsAlwaysInOrder`.

Assumptions are those of the modules, and TLC evaluates each on a run: `None`,
`NoUpgrade` and the driver are not members of the constant sets, the errors a claim can
get are not transport types, heads are records of the fields the policy reads, bounds
and limits are natural numbers, and a peer's scripts are sequences of heads (bytes up
to their first empty line) and bodies. The last is no restriction: bytes that never
complete a head are the beginning of one of which the rest is never sent. Each proof
that a step keeps an invariant has one step per action, or per group of actions that
leave the same variables alone.

Recursion. The stream a peer sends (`Sent`) and the loop of `HeadScan::complete`
(`Scans`) are recursive functions. The library's induction theorems cannot be used
with these provers, but the well-foundedness of the numbers can: a least counterexample
gives `Induction`, of sets of numbers, and with it that the recursive definitions have
a value and unfold (`ScanExists`, `SentExists`).

Only model-checked, and why:

* all liveness, since fairness and ENABLED are outside the prover's reach: the second
  half of `StopIsHeeded`, and the other properties that say that a wait ends;
* `bodies`: `Bodies` is defined by recursion over the layers of a stack, as RECURSIVE
  operators, which rule the prover's SMT backend out;
* `receive_body`: `ReceivedExactly` compares with a recursive grammar of the same kind;
  `WithinBounds` needs the arithmetic of the decoder's remembered positions;
* `message`: `HeadsAgree` and `AcceptedHeadsAreClear` are about two pure functions on
  heads, and TLC goes through the combinations; `MessageFaithful` rests on `Decoder`.

The parts of the type invariants that the arguments use are proved with them (`TypeOK`
or `Typed`); the other type invariants document their state and are not an `INVARIANT`
of a run.

## 6. Not modelled, and the plan

Not modelled, and why:

* The character grammar of start lines, fields, hosts and tokens: it is `httparse`'s
  and the `http` crate's. A field member is well formed or not.
* Serialization of heads, dates, default fields and the wording of error responses:
  formatting, and no property is about it.
* Writes of an upgraded transport and boxed operations: forwarded unchanged, no state.
* Builders and configuration: their values are the `CONSTANTS` of the modules.
* Services and trait adapters: a service is any future that returns or fails.
* Errors, tracing, statistics, TLS metadata, allocation sizes: nothing else depends on
  them; the kinds of error that matter are values in the modules.
* `WorkBudget`: it only adds yields, which the interleavings contain already.
* Overflow of a 64-bit file offset and of a collected length: it takes a body of the
  size of the address space.

Open, in this order:

1. `ReceiveBody` over the full `Pipe`; today it keeps the pipe down to demand, offer
   and abandonment, whose promises `Pipe` proves.
2. A proof of the bounds of `ReceiveBody` (`WithinBounds`) for any limits, and of
   `MessageFaithful` from a statement of what `Decoder` does with one frame.
