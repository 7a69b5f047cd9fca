---------------------------- MODULE UpgradeProofs ----------------------------
(***************************************************************************)
(* The hand-over of an upgraded transport is exclusive for any number of   *)
(* claims and transport types, and whoever gets it reads the peer's stream *)
(* unbroken, whatever its length and the buffers read into.                *)
(***************************************************************************)
EXTENDS UpgradedTransport, FiniteSetTheorems, SequenceTheorems, TLAPS

\* Only the future that won the slot can hold, or get, the transport.
Winner(c) == future[c] \in {"Live", "Delivered"}

OneWinner ==
    /\ \A c, d \in Claims : Winner(c) /\ Winner(d) => c = d
    /\ phase = "Unclaimed" => \A c \in Claims : future[c] = "Unborn"
    /\ \A c \in Claims : future[c] = "Live" =>
          wants[c] \in Targets /\ (phase = "Claimed" => alive /\ target = wants[c])
    /\ phase = "Claimed" /\ alive => \E c \in Claims : future[c] = "Live"

\* The driver keeps the transport until it fulfils the claim.
DriverFirst ==
    /\ pending = "Open" <=> phase # "Closed"
    /\ pending = "Open" => driverOwns /\ result = None

Delivered == \E c \in Claims : future[c] = "Delivered"

\* The five places the transport can be in exclude each other, and it is in
\* one of them.
Placed ==
    /\ driverOwns => ~returned /\ ~dropped /\ result \notin Targets /\ ~Delivered
    /\ returned => ~dropped /\ result \notin Targets /\ ~Delivered
    /\ dropped => result \notin Targets /\ ~Delivered
    /\ result \in Targets => ~Delivered
    /\ driverOwns \/ returned \/ dropped \/ result \in Targets \/ Delivered

\* ResultHasTaker is inductive only with OneWinner, which makes the taker the
\* future the claim was recorded for.
IInv == TypeOK /\ OneWinner /\ DriverFirst /\ Placed /\ ResultHasTaker

-----------------------------------------------------------------------------
\* In the invariant's states the five places are the holders of OneHolder.
LEMMA PlacedIsOneHolder == IInv => OneHolder
<1> SUFFICES ASSUME IInv PROVE OneHolder OBVIOUS
<1> USE DEF IInv, Placed, Delivered
<1> DEFINE One(h) == Holders = {h}
<1>1. CASE driverOwns
  <2>1. One("driver") BY <1>1 DEF Holders
  <2> QED BY <2>1, FS_Singleton DEF OneHolder
<1>2. CASE returned
  <2>1. One("caller") BY <1>2 DEF Holders
  <2> QED BY <2>1, FS_Singleton DEF OneHolder
<1>3. CASE dropped
  <2>1. One("nobody") BY <1>3 DEF Holders
  <2> QED BY <2>1, FS_Singleton DEF OneHolder
<1>4. CASE result \in Targets
  <2>1. One("result") BY <1>4 DEF Holders
  <2> QED BY <2>1, FS_Singleton DEF OneHolder
<1>5. CASE Delivered
  <2>1. PICK c \in Claims : future[c] = "Delivered" BY <1>5
  <2>2. \A d \in Claims : future[d] = "Delivered" => d = c BY <2>1 DEF OneWinner, Winner
  <2>3. One(c) BY <2>1, <2>2, <1>5 DEF Holders
  <2> QED BY <2>3, FS_Singleton DEF OneHolder
<1> QED BY <1>1, <1>2, <1>3, <1>4, <1>5

\* An upgrade nobody has claimed satisfies the invariant.
LEMMA InitIInv == Init => IInv
BY UpgradeAssumption
DEF Init, IInv, TypeOK, OneWinner, Winner, DriverFirst, Placed, Delivered, ResultHasTaker, Targets, Errors

\* Every step of the application, of the driver and of the futures keeps the
\* invariant.
LEMMA NextIInv == IInv /\ [Next]_vars => IInv'
<1> SUFFICES ASSUME IInv, [Next]_vars PROVE IInv' OBVIOUS
<1> USE UpgradeAssumption
    DEF IInv, TypeOK, OneWinner, Winner, DriverFirst, Placed, Delivered, ResultHasTaker, Targets, Errors
<1>1. ASSUME NEW c \in Claims, NEW t \in Targets, Claim(c, t) PROVE IInv'
  <2>1. CASE Claimable
    <3>1. TypeOK' BY <1>1, <2>1 DEF Claim, Record, Claimable, owners
    <3>2. OneWinner' BY <1>1, <2>1 DEF Claim, Record, Claimable, owners
    <3>3. DriverFirst' BY <1>1, <2>1 DEF Claim, Record, Claimable, owners
    <3>4. Placed' BY <1>1, <2>1 DEF Claim, Record, Claimable, owners
    <3>5. ResultHasTaker' BY <1>1, <2>1 DEF Claim, Record, Claimable, owners
    <3> QED BY <3>1, <3>2, <3>3, <3>4, <3>5
  <2>2. CASE ~Claimable
    <3>1. TypeOK' BY <1>1, <2>2 DEF Claim, Record, Claimable, owners
    <3>2. OneWinner' BY <1>1, <2>2 DEF Claim, Record, Claimable, owners
    <3>3. DriverFirst' BY <1>1, <2>2 DEF Claim, Record, Claimable, owners
    <3>4. Placed' BY <1>1, <2>2 DEF Claim, Record, Claimable, owners
    <3>5. ResultHasTaker' BY <1>1, <2>2 DEF Claim, Record, Claimable, owners
    <3> QED BY <3>1, <3>2, <3>3, <3>4, <3>5
  <2> QED BY <1>1, <2>1, <2>2 DEF Claim, Record, Claimable, owners
<1>2. ASSUME NEW c \in Claims, Poll(c) PROVE IInv'
  <2>1. CASE future[c] = "Rejected"
    <3>1. TypeOK' BY <1>2, <2>1 DEF Poll, shared, owners
    <3>2. OneWinner' BY <1>2, <2>1 DEF Poll, shared, owners
    <3>3. DriverFirst' BY <1>2, <2>1 DEF Poll, shared, owners
    <3>4. Placed' BY <1>2, <2>1 DEF Poll, shared, owners
    <3>5. ResultHasTaker' BY <1>2, <2>1 DEF Poll, shared, owners
    <3> QED BY <3>1, <3>2, <3>3, <3>4, <3>5
  <2>2. CASE future[c] = "Live" /\ result = None
    <3>1. TypeOK' BY <1>2, <2>2 DEF Poll, shared, owners
    <3>2. OneWinner' BY <1>2, <2>2 DEF Poll, shared, owners
    <3>3. DriverFirst' BY <1>2, <2>2 DEF Poll, shared, owners
    <3>4. Placed' BY <1>2, <2>2 DEF Poll, shared, owners
    <3>5. ResultHasTaker' BY <1>2, <2>2 DEF Poll, shared, owners
    <3> QED BY <3>1, <3>2, <3>3, <3>4, <3>5
  <2>3. CASE future[c] = "Live" /\ result # None
    <3>1. TypeOK' BY <1>2, <2>3 DEF Poll, shared, owners
    <3>2. OneWinner' BY <1>2, <2>3 DEF Poll, shared, owners
    <3>3. DriverFirst' BY <1>2, <2>3 DEF Poll, shared, owners
    <3>4. Placed' BY <1>2, <2>3 DEF Poll, shared, owners
    <3>5. ResultHasTaker' BY <1>2, <2>3 DEF Poll, shared, owners
    <3> QED BY <3>1, <3>2, <3>3, <3>4, <3>5
  <2> QED BY <1>2, <2>1, <2>2, <2>3 DEF Poll, shared, owners
<1>3. ASSUME NEW c \in Claims, DropFuture(c) PROVE IInv'
  <2>1. CASE future[c] = "Live"
    <3>1. TypeOK' BY <1>3, <2>1 DEF DropFuture, Retire
    <3>2. OneWinner' BY <1>3, <2>1 DEF DropFuture, Retire
    <3>3. DriverFirst' BY <1>3, <2>1 DEF DropFuture, Retire
    <3>4. Placed' BY <1>3, <2>1 DEF DropFuture, Retire
    <3>5. ResultHasTaker' BY <1>3, <2>1 DEF DropFuture, Retire
    <3> QED BY <3>1, <3>2, <3>3, <3>4, <3>5
  <2>2. CASE future[c] = "Rejected"
    <3>1. TypeOK' BY <1>3, <2>2 DEF DropFuture, Retire
    <3>2. OneWinner' BY <1>3, <2>2 DEF DropFuture, Retire
    <3>3. DriverFirst' BY <1>3, <2>2 DEF DropFuture, Retire
    <3>4. Placed' BY <1>3, <2>2 DEF DropFuture, Retire
    <3>5. ResultHasTaker' BY <1>3, <2>2 DEF DropFuture, Retire
    <3> QED BY <3>1, <3>2, <3>3, <3>4, <3>5
  <2> QED BY <1>3, <2>1, <2>2 DEF DropFuture, Retire
<1>4. CASE Fulfill
  <2>1. CASE phase = "Claimed" /\ alive /\ Fits
    <3>1. TypeOK' BY <1>4, <2>1 DEF Fulfill, Wake, GiveBack, Fits
    <3>2. OneWinner' BY <1>4, <2>1 DEF Fulfill, Wake, GiveBack, Fits
    <3>3. DriverFirst' BY <1>4, <2>1 DEF Fulfill, Wake, GiveBack, Fits
    <3>4. Placed' BY <1>4, <2>1 DEF Fulfill, Wake, GiveBack, Fits
    <3>5. ResultHasTaker' BY <1>4, <2>1 DEF Fulfill, Wake, GiveBack, Fits
    <3> QED BY <3>1, <3>2, <3>3, <3>4, <3>5
  <2>2. CASE phase = "Claimed" /\ alive /\ ~Fits
    <3>1. TypeOK' BY <1>4, <2>2 DEF Fulfill, Wake, GiveBack, Fits
    <3>2. OneWinner' BY <1>4, <2>2 DEF Fulfill, Wake, GiveBack, Fits
    <3>3. DriverFirst' BY <1>4, <2>2 DEF Fulfill, Wake, GiveBack, Fits
    <3>4. Placed' BY <1>4, <2>2 DEF Fulfill, Wake, GiveBack, Fits
    <3>5. ResultHasTaker' BY <1>4, <2>2 DEF Fulfill, Wake, GiveBack, Fits
    <3> QED BY <3>1, <3>2, <3>3, <3>4, <3>5
  <2>3. CASE phase # "Claimed" \/ ~alive
    <3>1. TypeOK' BY <1>4, <2>3 DEF Fulfill, Wake, GiveBack, Fits
    <3>2. OneWinner' BY <1>4, <2>3 DEF Fulfill, Wake, GiveBack, Fits
    <3>3. DriverFirst' BY <1>4, <2>3 DEF Fulfill, Wake, GiveBack, Fits
    <3>4. Placed' BY <1>4, <2>3 DEF Fulfill, Wake, GiveBack, Fits
    <3>5. ResultHasTaker' BY <1>4, <2>3 DEF Fulfill, Wake, GiveBack, Fits
    <3> QED BY <3>1, <3>2, <3>3, <3>4, <3>5
  <2> QED BY <1>4, <2>1, <2>2, <2>3
<1>5. CASE DropPending
  BY <1>5 DEF DropPending, Wake, CloseClaim, owners
<1>6. CASE UNCHANGED vars
  BY <1>6 DEF vars, shared, owners
<1> QED BY <1>1, <1>2, <1>3, <1>4, <1>5, <1>6 DEF Next

\* PendingUpgrade::fulfill, OnUpgrade::poll and both Drop implementations keep
\* the transport with exactly one holder, and every published result with a
\* live future typed for it.
THEOREM HandOverIsExclusive == Spec => []HandedOverOnce
<1>1. IInv => HandedOverOnce BY PlacedIsOneHolder DEF IInv, HandedOverOnce
<1> QED BY <1>1, InitIInv, NextIInv, PTL DEF Spec

-----------------------------------------------------------------------------
\* The bytes, wherever they are, and how far the halves are erased: not at all
\* while the driver has them, and as the claim asked while its result waits.
Streamed ==
    /\ got \in Seq(Nat) /\ ahead \in Seq(Nat) /\ unread \in Seq(Nat)
    /\ got \o ahead \o unread = Peer

Erasure ==
    /\ pending = "Open" => erased = 0
    /\ result \in Targets => erased = IF result = Boxed THEN 1 ELSE 0

TransportInv == IInv /\ Streamed /\ Erasure

\* The minimum of a pair of numbers, as the slices of a read use it.
LEMMA MinOfTwo ==
    ASSUME NEW a \in Nat, NEW b \in Nat
    PROVE  Min({a, b}) = IF a <= b THEN a ELSE b
BY DEF Min

\* A slice extends a filled prefix to a longer one.
LEMMA CopyExtends ==
    ASSUME NEW prefix \in Seq(Nat), NEW n \in 0 .. Len(prefix), NEW w \in Nat
    PROVE  \E m \in n .. Len(prefix) :
              Copy(SubSeq(prefix, 1, n), w, prefix) = SubSeq(prefix, 1, m)
<1> DEFINE m == IF n + w <= Len(prefix) THEN n + w ELSE Len(prefix)
<1>1. Len(SubSeq(prefix, 1, n)) = n OBVIOUS
<1>2. Min({n + w, Len(prefix)}) = m BY MinOfTwo
<1>3. m \in n .. Len(prefix) OBVIOUS
<1> HIDE DEF m
<1>4. SubSeq(prefix, 1, n) \o SubSeq(prefix, n + 1, m) = SubSeq(prefix, 1, m)
  BY <1>3, ConcatAdjacentSubSeq
<1> QED BY <1>1, <1>2, <1>3, <1>4 DEF Copy

\* The slices of one read take a prefix of the retained bytes.
LEMMA FillIsPrefix ==
    ASSUME NEW prefix \in Seq(Nat), NEW w \in Nat, NEW v \in Nat
    PROVE  \E m \in 0 .. Len(prefix) : Fill(w, v, prefix) = SubSeq(prefix, 1, m)
<1>1. << >> = SubSeq(prefix, 1, 0) BY SubSeqEmpty
<1>2. PICK n \in 0 .. Len(prefix) : Copy(<< >>, w, prefix) = SubSeq(prefix, 1, n)
  <2>1. 0 \in 0 .. Len(prefix) OBVIOUS
  <2>2. \E n \in 0 .. Len(prefix) : Copy(SubSeq(prefix, 1, 0), w, prefix) = SubSeq(prefix, 1, n)
    BY <2>1, CopyExtends, Zenon
  <2> QED BY <1>1, <2>2, Zenon
<1>3. PICK m \in n .. Len(prefix) : Copy(SubSeq(prefix, 1, n), v, prefix) = SubSeq(prefix, 1, m)
  BY CopyExtends, Zenon
<1>4. m \in 0 .. Len(prefix) OBVIOUS
<1> QED BY <1>2, <1>3, <1>4, Zenon DEF Fill

\* Cutting a sequence in two loses nothing.
LEMMA SplitSeq ==
    ASSUME NEW s \in Seq(Nat), NEW m \in 0 .. Len(s)
    PROVE  /\ SubSeq(s, 1, m) \in Seq(Nat) /\ SubSeq(s, m + 1, Len(s)) \in Seq(Nat)
           /\ Len(SubSeq(s, 1, m)) = m
           /\ SubSeq(s, 1, m) \o SubSeq(s, m + 1, Len(s)) = s
<1>1. 1 \in 1 .. Len(s) + 1 /\ m \in 1 - 1 .. Len(s) /\ Len(s) \in m .. Len(s) OBVIOUS
<1>2. SubSeq(s, 1, m) \o SubSeq(s, m + 1, Len(s)) = SubSeq(s, 1, Len(s))
  BY <1>1, ConcatAdjacentSubSeq, Zenon
<1>3. SubSeq(s, 1, Len(s)) = s BY SubSeqFull, Zenon
<1>4. SubSeq(s, 1, m) \in Seq(Nat) /\ SubSeq(s, m + 1, Len(s)) \in Seq(Nat) OBVIOUS
<1>5. Len(SubSeq(s, 1, m)) = m OBVIOUS
<1> QED BY <1>2, <1>3, <1>4, <1>5, Zenon

\* Appending streams is associative.
LEMMA BytesAssociative ==
    \A s, t, u \in Seq(Nat) : (s \o t) \o u = s \o (t \o u)
<1> SUFFICES ASSUME NEW s \in Seq(Nat), NEW t \in Seq(Nat), NEW u \in Seq(Nat)
             PROVE  (s \o t) \o u = s \o (t \o u)
  OBVIOUS
<1>1. s \o t \in Seq(Nat) /\ t \o u \in Seq(Nat) OBVIOUS
<1>2. (s \o t) \o u \in Seq(Nat) /\ s \o (t \o u) \in Seq(Nat) BY <1>1
<1>3. Len((s \o t) \o u) = Len(s \o (t \o u)) BY <1>1
<1>4. \A i \in 1 .. Len((s \o t) \o u) : ((s \o t) \o u)[i] = (s \o (t \o u))[i] BY <1>1
<1> QED BY <1>2, <1>3, <1>4, SeqEqual

\* A transport that was not handed over yet has its stream whole.
LEMMA InitTransport == TransportInit => TransportInv
<1> SUFFICES ASSUME TransportInit PROVE TransportInv OBVIOUS
<1>1. PICK n \in 0 .. Stream : ahead = SubSeq(Peer, 1, n) /\ unread = SubSeq(Peer, n + 1, Stream)
  BY DEF TransportInit
<1>2. Peer \in Seq(Nat) /\ Len(Peer) = Stream BY StreamAssumption DEF Peer
<1>3. got = << >> /\ erased = 0 /\ result = None /\ IInv BY InitIInv DEF TransportInit, Init
<1>4. Streamed
  <2>1. n \in 0 .. Len(Peer) BY <1>2
  <2>2. ahead \in Seq(Nat) /\ unread \in Seq(Nat) /\ ahead \o unread = Peer
    BY <1>1, <1>2, <2>1, SplitSeq, Zenon
  <2>3. << >> \o ahead = ahead BY <2>2, ConcatEmptySeq, Zenon
  <2> QED BY <1>3, <2>2, <2>3 DEF Streamed
<1> QED BY <1>3, <1>4, UpgradeAssumption DEF TransportInv, Erasure, Targets

\* No read, conversion or split of the holder, and no step of the hand-over,
\* loses, repeats or reorders a byte.
LEMMA NextTransport == TransportInv /\ [TransportNext]_<<vars, transport>> => TransportInv'
<1> SUFFICES ASSUME TransportInv, [TransportNext]_<<vars, transport>> PROVE TransportInv' OBVIOUS
<1> USE DEF TransportInv
<1>1. CASE HandOver
  <2>1. IInv' BY <1>1, NextIInv DEF HandOver, Handed
  <2>2. Streamed' BY <1>1 DEF HandOver, Handed, Streamed
  <2>3. erased' = IF result = None /\ result' = Boxed THEN erased + 1 ELSE erased
    BY <1>1 DEF HandOver, Handed
  <2>4. CASE Fulfill
    <3>1. pending = "Open" /\ pending' = "Settled" /\ result = None /\ erased = 0
      BY <2>4 DEF Fulfill, Erasure, IInv, DriverFirst
    <3> QED BY <2>1, <2>2, <2>3, <2>4, <3>1, UpgradeAssumption DEF Fulfill, Erasure, Targets
  <2>5. CASE ~Fulfill
    <3>1. (pending' = "Open" => pending = "Open") /\ (result' \in Targets => result' = result)
      BY <1>1, <2>5, UpgradeAssumption
      DEF HandOver, Handed, Next, Claim, Poll, DropFuture, DropPending, CloseClaim, owners, shared, Targets
    <3>2. erased' = erased \/ (result = None /\ result' = Boxed) BY <2>3
    <3>3. ~(result = None /\ result' = Boxed) BY <3>1, UpgradeAssumption DEF Targets
    <3> QED BY <2>1, <2>2, <3>1, <3>2, <3>3 DEF Erasure
  <2> QED BY <2>4, <2>5
\* The steps below leave the hand-over alone, and the transport is in hand.
<1>2. ASSUME InHand PROVE pending # "Open" /\ result \notin Targets
  BY <1>2 DEF InHand, IInv, DriverFirst, Placed, Delivered
<1>3. ASSUME UNCHANGED vars, InHand, Streamed' PROVE TransportInv'
  <2>1. IInv' BY <1>3, NextIInv
  <2> QED BY <1>2, <1>3, <2>1 DEF Erasure, vars, shared
<1>4. ASSUME NEW w \in Widths, NEW v \in Widths \cup {0}, ReadRetained(w, v) PROVE Streamed'
  <2>1. PICK m \in 0 .. Len(ahead) : Fill(w, v, ahead) = SubSeq(ahead, 1, m)
    <3>1. w \in Nat /\ v \in Nat /\ ahead \in Seq(Nat) BY StreamAssumption DEF Streamed
    <3> QED BY <3>1, FillIsPrefix, Zenon
  <2> DEFINE taken == SubSeq(ahead, 1, m)
             left == SubSeq(ahead, m + 1, Len(ahead))
  <2>2. taken \in Seq(Nat) /\ left \in Seq(Nat) /\ Len(taken) = m /\ taken \o left = ahead
    BY SplitSeq DEF Streamed
  <2>3. got' = got \o taken /\ ahead' = left /\ unread' = unread BY <1>4, <2>1, <2>2 DEF ReadRetained
  <2> HIDE DEF taken, left
  <2>4. (got \o taken) \o left = got \o (taken \o left)
    <3>1. got \in Seq(Nat) /\ taken \in Seq(Nat) /\ left \in Seq(Nat) BY <2>2 DEF Streamed
    <3> QED BY <3>1, BytesAssociative, Zenon
  <2>5. got \o taken \in Seq(Nat) BY <2>2 DEF Streamed
  <2>6. Peer' = Peer BY DEF Peer
  <2> QED BY <2>2, <2>3, <2>4, <2>5, <2>6, Zenon DEF Streamed
<1>5. ASSUME NEW w \in Widths, NEW v \in Widths \cup {0}, ReadTransport(w, v) PROVE Streamed'
  <2>1. Min({Len(unread), w + v}) <= Len(unread) /\ Min({Len(unread), w + v}) \in Nat
    <3>1. Len(unread) \in Nat /\ w + v \in Nat BY StreamAssumption DEF Streamed
    <3>2. Min({Len(unread), w + v}) = IF Len(unread) <= w + v THEN Len(unread) ELSE w + v
      BY <3>1, MinOfTwo, Zenon
    <3> QED BY <3>1, <3>2
  <2>2. PICK n \in 0 .. Len(unread) :
           got' = got \o SubSeq(unread, 1, n) /\ unread' = SubSeq(unread, n + 1, Len(unread))
    <3>1. PICK n \in 0 .. Min({Len(unread), w + v}) :
             got' = got \o SubSeq(unread, 1, n) /\ unread' = SubSeq(unread, n + 1, Len(unread))
      BY <1>5, Zenon DEF ReadTransport
    <3>2. n \in 0 .. Len(unread) BY <2>1 DEF Streamed
    <3> QED BY <3>1, <3>2, Zenon
  <2> DEFINE taken == SubSeq(unread, 1, n)
             left == SubSeq(unread, n + 1, Len(unread))
  <2>3. taken \in Seq(Nat) /\ left \in Seq(Nat) /\ taken \o left = unread
    BY SplitSeq, Zenon DEF Streamed
  <2>4. got' = got \o taken /\ unread' = left /\ ahead = << >> /\ ahead' = << >>
    BY <1>5, <2>2 DEF ReadTransport
  <2> HIDE DEF taken, left
  <2>5. (got \o taken) \o left = got \o (taken \o left)
    <3>1. got \in Seq(Nat) /\ taken \in Seq(Nat) /\ left \in Seq(Nat) BY <2>3 DEF Streamed
    <3> QED BY <3>1, BytesAssociative, Zenon
  <2>6. got \o taken \in Seq(Nat) BY <2>3 DEF Streamed
  <2>7. got \o << >> = got /\ (got \o taken) \o << >> = got \o taken
    BY <2>6, ConcatEmptySeq, Zenon DEF Streamed
  <2>8. Peer' = Peer /\ ahead' \in Seq(Nat) BY <2>4 DEF Peer
  <2> QED BY <2>3, <2>4, <2>5, <2>6, <2>7, <2>8, Zenon DEF Streamed
<1>6. CASE HolderReads BY <1>3, <1>4, <1>5, <1>6 DEF HolderReads
<1>7. CASE PartsRead
  <2>1. got' = got \o ahead /\ ahead' = << >> /\ unread' = unread BY <1>7 DEF PartsRead
  <2>2. got \o ahead \in Seq(Nat) /\ (got \o ahead) \o << >> = got \o ahead
    BY ConcatEmptySeq, ConcatProperties DEF Streamed
  <2>3. Streamed' BY <2>1, <2>2 DEF Streamed, Peer
  <2> QED BY <1>3, <1>7, <2>3 DEF PartsRead
<1>8. CASE HolderBoxes BY <1>3, <1>8 DEF HolderBoxes, Streamed
<1>9. ASSUME NEW t \in Targets, HolderDowncasts(t) PROVE TransportInv'
  BY <1>3, <1>9 DEF HolderDowncasts, Streamed
<1>10. CASE HolderSplits BY <1>3, <1>10 DEF HolderSplits, Streamed
<1>11. CASE HolderParts BY <1>3, <1>11 DEF HolderParts, Streamed
<1>12. CASE UNCHANGED <<vars, transport>>
  <2>1. IInv' BY <1>12, NextIInv
  <2> QED BY <1>12, <2>1 DEF Streamed, Erasure, vars, shared, transport
<1> QED BY <1>1, <1>6, <1>7, <1>8, <1>9, <1>10, <1>11, <1>12 DEF TransportNext

\* The hand-over with the transport's bytes and conversions implements the
\* hand-over alone: every step of it is one of upgrade.rs, or the holder's own
\* and leaves the claim, its futures and the owners as they are.
THEOREM TransportImplementsHandOver == TransportSpec => Spec
<1>1. TransportInit => Init BY DEF TransportInit
<1>2. [TransportNext]_<<vars, transport>> => [Next]_vars
  <2> SUFFICES ASSUME [TransportNext]_<<vars, transport>> PROVE [Next]_vars OBVIOUS
  <2>1. CASE HandOver BY <2>1 DEF HandOver, Handed
  <2>2. CASE HolderReads \/ PartsRead BY <2>2 DEF HolderReads, PartsRead
  <2>3. CASE HolderBoxes \/ (\E t \in Targets : HolderDowncasts(t)) BY <2>3 DEF HolderBoxes, HolderDowncasts
  <2>4. CASE HolderSplits \/ HolderParts BY <2>4 DEF HolderSplits, HolderParts
  <2>5. CASE UNCHANGED <<vars, transport>> BY <2>5
  <2> QED BY <2>1, <2>2, <2>3, <2>4, <2>5 DEF TransportNext
<1> QED BY <1>1, <1>2, PTL DEF TransportSpec, Spec

\* Composed with the transport it hands over, the hand-over stays exclusive.
THEOREM TransportHandedOverOnce == TransportSpec => []HandedOverOnce
<1>1. TransportInv => HandedOverOnce BY PlacedIsOneHolder DEF TransportInv, IInv, HandedOverOnce
<1> QED BY <1>1, InitTransport, NextTransport, PTL DEF TransportSpec

\* For any stream, any buffers and any interleaving of claims, conversions and
\* reads: the holder reads the peer's bytes in order, none twice and none
\* skipped, and gets the halves as erased as the claim asked.
THEOREM StreamStaysIntact == TransportSpec => []StreamIntact
<1>1. TransportInv => StreamIntact BY DEF TransportInv, Streamed, Erasure, StreamIntact
<1> QED BY <1>1, InitTransport, NextTransport, PTL DEF TransportSpec
=============================================================================
