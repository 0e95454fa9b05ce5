----------------------------- MODULE TxQueueProofs -----------------------------
(***************************************************************************)
(* The transmit queue, for every depth, every length of messages and frames *)
(* and every number of them: frames that go through the queue keep their    *)
(* order, what send() answers is true, and the fragments of a message stay  *)
(* together unless one is sent directly past the queue.                     *)
(***************************************************************************)
EXTENDS TxQueue, SequenceTheorems, FiniteSetTheorems, TLAPS

\* The slot of the frame k places behind the oldest.
Slot(k) == IF tx_tail_ + k < Depth THEN tx_tail_ + k ELSE tx_tail_ + k - Depth

\* The frames of message n up to the t-th.
FirstOf(n, t) == [i \in 1 .. t |-> <<n, i>>]

\* The inductive invariant, in parts.  The head is the slot behind the frames held.
QueueInv ==
    /\ TypeOK
    /\ tx_head_ = Slot(tx_count_)
    /\ \A n \in Message : parts[n] > 0
    /\ Held \in Seq(Message \X Nat)

\* The order of the frames on the wire and in the queue.
OrderInv ==
    /\ Ids(Held) \subseteq queued
    /\ \A i, j \in 1 .. Len(wire) :
          i < j /\ {wire[i], wire[j]} \subseteq queued => Before(wire[i], wire[j])
    /\ \A i \in 1 .. Len(wire), k \in 1 .. Len(Held) :
          wire[i] \in queued => Before(wire[i], Held[k])
    /\ \A j, k \in 1 .. Len(Held) : j < k => Before(Held[j], Held[k])

\* What has become of the frames of a message: those before some place in it have
\* been taken, by the queue or by the adapter.
Out == Ids(wire) \union Ids(Held) \union dropped
OutOf(n) == {f \in Out : f[1] = n}
Taken(n, t) ==
    /\ OutOf(n) = Ids(FirstOf(n, t))
    /\ n \in accepted <=> t = parts[n]

AnswerInv ==
    /\ \A n \in Message : \E t \in 0 .. parts[n] : Taken(n, t)
    /\ queued \subseteq Out

\* Each frame follows the one before it, up to the newest that is held.
Chained(s) ==
    \A k \in 1 .. Len(s) : s[k][2] = 1 \/ (k > 1 /\ s[k] = <<s[k - 1][1], s[k - 1][2] + 1>>)
ChainInv == ~overtaken => Chained(wire \o Held)

TxInv == QueueInv /\ OrderInv /\ AnswerInv /\ ChainInv
--------------------------------------------------------------------------------
(* The slots *)

RingType ==
    /\ tx_head_ \in Slots
    /\ tx_tail_ \in Slots
    /\ tx_count_ \in 0 .. Depth
    /\ tx_queue_ \in [Slots -> [n : {0} \union Message, i : Nat, len : Nat]]

\* Once round the ring, % is a subtraction.
LEMMA Advance ==
    ASSUME NEW h \in 0 .. Depth - 1, NEW t \in 0 .. Depth
    PROVE  /\ (h + t) % Depth = IF h + t < Depth THEN h + t ELSE h + t - Depth
           /\ (h + t) % Depth \in Slots
<1>1. (h + t) % Depth = IF h + t < Depth THEN h + t ELSE h + t - Depth
  BY TxQueueAssumption
<1> QED
  BY <1>1, TxQueueAssumption DEF Slots

LEMMA SlotFacts ==
    ASSUME RingType, NEW k \in 0 .. Depth
    PROVE  Slot(k) \in Slots /\ (tx_tail_ + k) % Depth = Slot(k)
<1>1. Depth \in Nat \ {0} /\ tx_tail_ \in 0 .. Depth - 1
  BY TxQueueAssumption DEF RingType, Slots
<1>2. Slot(k) \in Slots
  BY <1>1 DEF Slot, Slots
<1>3. (tx_tail_ + k) % Depth = Slot(k)
  BY <1>1 DEF Slot
<1> QED
  BY <1>2, <1>3

\* The k-th slot from the tail is the (k - count)-th from the head.
LEMMA PlaceFacts ==
    ASSUME RingType, tx_head_ = Slot(tx_count_), NEW k \in 0 .. Depth - 1
    PROVE  (Slot(k) + Depth - tx_head_) % Depth
             = IF k >= tx_count_ THEN k - tx_count_ ELSE k - tx_count_ + Depth
<1> DEFINE d == Slot(k) + Depth - tx_head_
           e == IF k >= tx_count_ THEN k - tx_count_ ELSE k - tx_count_ + Depth
<1> USE TxQueueAssumption
<1>1. Slot(k) \in 0 .. Depth - 1 /\ tx_head_ \in 0 .. Depth - 1
  <2>1. k \in 0 .. Depth
    OBVIOUS
  <2> QED
    BY <2>1, SlotFacts DEF RingType, Slots
<1>2. tx_tail_ \in 0 .. Depth - 1 /\ tx_count_ \in 0 .. Depth
  BY DEF RingType, Slots
<1>3. e \in 0 .. Depth - 1 /\ (d = e \/ d = e + Depth)
  BY <1>1, <1>2 DEF Slot
<1>4. d \in 0 .. 2 * Depth - 1
  BY <1>1
<1>5. \A a \in 0 .. 2 * Depth - 1 : a % Depth = IF a < Depth THEN a ELSE a - Depth
  OBVIOUS
<1> HIDE DEF d, e
<1>6. d % Depth = e
  BY <1>3, <1>4, <1>5
<1> QED
  BY <1>6 DEF d, e

LEMMA FunctionIsSeq ==
    ASSUME NEW S, NEW n \in Nat, NEW f \in [1 .. n -> S]
    PROVE  f \in Seq(S) /\ Len(f) = n
OBVIOUS

LEMMA SeqWidens ==
    ASSUME NEW A, NEW B, A \subseteq B, NEW s \in Seq(A)
    PROVE  s \in Seq(B)
OBVIOUS

HeldShape ==
    /\ Held \in Seq(({0} \union Message) \X Nat)
    /\ Len(Held) = tx_count_
    /\ \A k \in 1 .. tx_count_ : Held[k] = Id(tx_queue_[Slot(k - 1)])

LEMMA HeldFacts == RingType => HeldShape
<1> SUFFICES ASSUME RingType PROVE HeldShape
  OBVIOUS
<1>1. tx_count_ \in Nat /\ tx_tail_ \in Nat /\ tx_count_ \in 0 .. Depth
  BY TxQueueAssumption DEF RingType, Slots
<1>2. ASSUME NEW k \in 1 .. tx_count_
      PROVE  /\ (tx_tail_ + k - 1) % Depth = Slot(k - 1)
             /\ Slot(k - 1) \in Slots
             /\ Id(tx_queue_[Slot(k - 1)]) \in ({0} \union Message) \X Nat
  <2>1. k - 1 \in 0 .. Depth /\ tx_tail_ + (k - 1) = tx_tail_ + k - 1
    BY <1>1, TxQueueAssumption
  <2>2. (tx_tail_ + k - 1) % Depth = Slot(k - 1) /\ Slot(k - 1) \in Slots
    BY <2>1, SlotFacts
  <2>3. tx_queue_[Slot(k - 1)] \in [n : {0} \union Message, i : Nat, len : Nat]
    BY <2>2 DEF RingType
  <2> QED
    BY <2>2, <2>3 DEF Id
<1>3. \A k \in 1 .. tx_count_ : Held[k] = Id(tx_queue_[Slot(k - 1)])
  BY <1>2 DEF Held
<1>4. Held \in [1 .. tx_count_ -> ({0} \union Message) \X Nat]
  BY <1>2 DEF Held
<1> QED
  BY <1>1, <1>3, <1>4, FunctionIsSeq DEF HeldShape
--------------------------------------------------------------------------------
(* The frames of a message *)

FrameOf(n) == [n : {n}, i : Nat, len : Nat]

LEMMA DivisionFloor ==
    ASSUME NEW x \in Nat, NEW M \in Nat \ {0}
    PROVE  x \div M \in Nat /\ M * (x \div M) <= x /\ (x >= M => x \div M > 0)
<1>1. x = M * (x \div M) + (x % M) /\ x \div M \in Nat
  OBVIOUS
<1>2. x % M \in 0 .. M - 1
  OBVIOUS
<1> DEFINE q == x \div M
           r == x % M
<1>3. x = M * q + r /\ q \in Nat /\ r \in 0 .. M - 1
  BY <1>1, <1>2
<1> HIDE DEF q, r
<1>4. M * q \in Nat /\ (q = 0 => M * q = 0)
  BY <1>3
<1>5. M * q <= x /\ (x >= M => q > 0)
  BY <1>3, <1>4
<1> QED
  BY <1>3, <1>5 DEF q

\* A message has at least one raw frame, and each has a length.
LEMMA RawFacts ==
    ASSUME NEW len \in Lengths
    PROVE  \E c \in Nat \ {0} : RawLengths(len) \in [1 .. c -> Nat]
<1> USE TxQueueAssumption
<1>1. len \in Nat \ {0} /\ Header \in Nat
  OBVIOUS
<1>2. CASE ShouldFragment(len)
  <2> DEFINE c == (len + ChunkMax - 1) \div ChunkMax
  <2>1. ChunkMax \in Nat \ {0}
    BY <1>2 DEF ShouldFragment, ChunkMax, Overhead
  <2>2. len + ChunkMax - 1 \in Nat /\ len + ChunkMax - 1 >= ChunkMax
    BY <1>1, <2>1
  <2>3. c \in Nat \ {0} /\ ChunkMax * c <= len + ChunkMax - 1
    BY <2>1, <2>2, DivisionFloor
  <2> HIDE DEF c
  <2>4. ASSUME NEW i \in 1 .. c
        PROVE  Header + AtMost(ChunkMax, len - (i - 1) * ChunkMax) \in Nat
    <3>1. ChunkMax * i <= ChunkMax * c
      BY <2>1, <2>3
    <3>2. (i - 1) * ChunkMax = ChunkMax * i - ChunkMax /\ ChunkMax * i \in Nat /\ ChunkMax * c \in Nat
      BY <2>1, <2>3
    <3>3. len - (i - 1) * ChunkMax \in Nat
      BY <1>1, <2>1, <2>3, <3>1, <3>2
    <3> QED
      BY <1>1, <2>1, <3>3 DEF AtMost
  <2>5. RawLengths(len) = [i \in 1 .. c |-> Header + AtMost(ChunkMax, len - (i - 1) * ChunkMax)]
    BY <1>2 DEF RawLengths, c
  <2> QED
    BY <2>3, <2>4, <2>5
<1>3. CASE ~ShouldFragment(len)
  <2>1. RawLengths(len) = <<len>>
    BY <1>3 DEF RawLengths
  <2>2. <<len>> \in [1 .. 1 -> Nat]
    BY <1>1
  <2> QED
    BY <2>1, <2>2
<1> QED
  BY <1>2, <1>3

\* The frames of a message are numbered from 1 on.
LEMMA EncodingFacts ==
    ASSUME NEW n \in Nat, NEW len \in Lengths, NEW frames \in Encodings(n, len)
    PROVE  /\ frames \in Seq(FrameOf(n))
           /\ Len(frames) \in Nat \ {0}
           /\ \A i \in 1 .. Len(frames) : frames[i] \in FrameOf(n) /\ Id(frames[i]) = <<n, i>>
<1> DEFINE raw == RawLengths(len)
<1>1. PICK c \in Nat \ {0} : raw \in [1 .. c -> Nat]
  BY RawFacts
<1>2. DOMAIN raw = 1 .. c
  BY <1>1
<1> HIDE DEF raw
<1>3. PICK extra \in [1 .. c -> 0 .. len \div Block] :
          frames = [i \in 1 .. c |-> [n |-> n, i |-> i, len |-> raw[i] + Overhead + extra[i]]]
  BY <1>2 DEF Encodings, raw
<1>4. ASSUME NEW i \in 1 .. c
      PROVE  frames[i] \in FrameOf(n) /\ Id(frames[i]) = <<n, i>>
  <2>1. raw[i] \in Nat /\ extra[i] \in 0 .. len \div Block
    BY <1>1
  <2>2. len \div Block \in Int
    BY TxQueueAssumption
  <2>3. raw[i] + Overhead + extra[i] \in Nat /\ i \in Nat
    BY <2>1, <2>2 DEF Overhead
  <2>4. frames[i] = [n |-> n, i |-> i, len |-> raw[i] + Overhead + extra[i]]
    BY <1>3
  <2> QED
    BY <2>3, <2>4 DEF FrameOf, Id
<1>5. frames \in [1 .. c -> FrameOf(n)]
  BY <1>3, <1>4
<1>6. frames \in Seq(FrameOf(n)) /\ Len(frames) = c
  BY <1>5, FunctionIsSeq
<1> QED
  BY <1>4, <1>6

LEMMA FirstOfFacts ==
    ASSUME NEW n \in Nat, NEW t \in Nat
    PROVE  /\ FirstOf(n, t) \in Seq({n} \X Nat)
           /\ Len(FirstOf(n, t)) = t
           /\ \A i \in 1 .. t : FirstOf(n, t)[i] = <<n, i>>
           /\ Ids(FirstOf(n, t)) = {<<n, i>> : i \in 1 .. t}
<1>1. FirstOf(n, t) \in [1 .. t -> {n} \X Nat]
  BY DEF FirstOf
<1>2. \A i \in 1 .. t : FirstOf(n, t)[i] = <<n, i>>
  BY DEF FirstOf
<1>3. DOMAIN FirstOf(n, t) = 1 .. t
  BY <1>1
<1>4. Ids(FirstOf(n, t)) = {<<n, i>> : i \in 1 .. t}
  BY <1>2, <1>3 DEF Ids
<1> QED
  BY <1>1, <1>2, <1>4, FunctionIsSeq

LEMMA IdsConcat ==
    ASSUME NEW S, NEW a \in Seq(S), NEW b \in Seq(S)
    PROVE  Ids(a \o b) = Ids(a) \union Ids(b)
<1> DEFINE s == a \o b
           m == Len(a)
           n == Len(b)
<1>1. /\ m \in Nat /\ n \in Nat
      /\ DOMAIN s = 1 .. m + n /\ DOMAIN a = 1 .. m /\ DOMAIN b = 1 .. n
  BY ConcatProperties
<1>2. \A i \in 1 .. m + n : s[i] = IF i <= m THEN a[i] ELSE b[i - m]
  BY ConcatProperties
<1> HIDE DEF s, m, n
<1>3. \A i \in 1 .. m + n : i \in 1 .. m \/ (~(i <= m) /\ i - m \in 1 .. n)
  BY <1>1
<1>4. \A i \in 1 .. m : i \in 1 .. m + n /\ i <= m
  BY <1>1
<1>5. \A i \in 1 .. n : i + m \in 1 .. m + n /\ ~(i + m <= m) /\ i + m - m = i
  BY <1>1
<1>6. \A i \in 1 .. m : s[i] = a[i]
  BY <1>2, <1>4
<1>7. ASSUME NEW i \in 1 .. n
      PROVE  s[i + m] = b[i]
  <2> DEFINE j == i + m
  <2>1. j \in 1 .. m + n /\ ~(j <= m) /\ j - m = i
    BY <1>1
  <2> HIDE DEF j
  <2>2. s[j] = b[i]
    BY <1>2, <2>1
  <2> QED
    BY <2>2 DEF j
<1>8. Ids(s) \subseteq Ids(a) \union Ids(b)
  BY <1>1, <1>2, <1>3 DEF Ids
<1>9. Ids(a) \subseteq Ids(s)
  BY <1>1, <1>4, <1>6 DEF Ids
<1>10. Ids(b) \subseteq Ids(s)
  BY <1>1, <1>5, <1>7 DEF Ids
<1> QED
  BY <1>8, <1>9, <1>10 DEF s
--------------------------------------------------------------------------------
(* What the operations do to the frames *)

\* Of the frames of a message the queue takes the first ones, as many as it has room for.
LEMMA EnqueueEffect ==
    ASSUME RingType, tx_head_ = Slot(tx_count_),
           NEW n \in Nat, n \in Message', Message \subseteq Message',
           NEW frames \in Seq(FrameOf(n)), Len(frames) \in Nat \ {0},
           \A i \in 1 .. Len(frames) : frames[i] \in FrameOf(n) /\ Id(frames[i]) = <<n, i>>,
           Enqueue(frames)
    PROVE  /\ RingType' /\ tx_head_' = Slot(tx_count_)'
           /\ UNCHANGED <<wire, overtaken>>
           /\ \E t \in 0 .. Len(frames) :
                 /\ Held' = Held \o FirstOf(n, t)
                 /\ queued' = queued \union Ids(FirstOf(n, t))
                 /\ accepted' = IF t = Len(frames) THEN accepted \union {n} ELSE accepted
<1> USE TxQueueAssumption
<1> DEFINE t == AtMost(Len(frames), Room)
           Place(s) == (s + Depth - tx_head_) % Depth
<1>e. /\ tx_queue_' = [s \in Slots |->
                          IF Place(s) < t THEN frames[Place(s) + 1] ELSE tx_queue_[s]]
      /\ tx_head_' = (tx_head_ + t) % Depth
      /\ tx_count_' = tx_count_ + t
      /\ queued' = queued \union {Id(frames[i]) : i \in 1 .. t}
      /\ accepted' = IF t = Len(frames) THEN accepted \union {frames[1].n} ELSE accepted
      /\ UNCHANGED <<tx_tail_, wire, overtaken>>
  BY DEF Enqueue
<1>1. /\ tx_tail_ \in 0 .. Depth - 1 /\ tx_head_ \in 0 .. Depth - 1
      /\ tx_count_ \in 0 .. Depth
  BY DEF RingType, Slots
<1>2. t \in 0 .. Len(frames) /\ tx_count_ + t \in 0 .. Depth /\ t \in Nat
  BY <1>1 DEF AtMost, Room
<1> HIDE DEF t
<1>m. /\ tx_head_' = IF tx_head_ + t < Depth THEN tx_head_ + t ELSE tx_head_ + t - Depth
      /\ tx_head_' \in Slots
  <2>1. t \in 0 .. Depth
    BY <1>1, <1>2
  <2> QED
    BY <1>e, <1>1, <2>1, Advance
<1>3. \A s \in Slots : Place(s) \in 0 .. Depth - 1
  BY <1>1 DEF Slots
<1>4. RingType'
  <2>1. ASSUME NEW s \in Slots
        PROVE  tx_queue_'[s] \in [n : {0} \union Message', i : Nat, len : Nat]
    <3>1. CASE Place(s) < t
      <4>1. Place(s) + 1 \in 1 .. Len(frames)
        BY <1>2, <1>3, <3>1
      <4>2. frames[Place(s) + 1] \in FrameOf(n)
        BY <4>1
      <4> HIDE DEF Place
      <4> QED
        BY <1>e, <3>1, <4>2 DEF FrameOf
    <3>2. CASE ~(Place(s) < t)
      <4>1. tx_queue_[s] \in [n : {0} \union Message, i : Nat, len : Nat]
        BY DEF RingType
      <4> HIDE DEF Place
      <4> QED
        BY <1>e, <3>2, <4>1
    <3> QED
      BY <3>1, <3>2
  <2>2. tx_queue_' \in [Slots -> [n : {0} \union Message', i : Nat, len : Nat]]
    <3> HIDE DEF Place
    <3> QED
      BY <1>e, <2>1
  <2>3. tx_head_' \in Slots
    BY <1>m
  <2> QED
    BY <1>e, <1>1, <1>2, <2>2, <2>3 DEF RingType, Slots
<1>5. tx_head_' = Slot(tx_count_)'
  <2>1. Slot(tx_count_)' = IF tx_tail_ + (tx_count_ + t) < Depth
                           THEN tx_tail_ + (tx_count_ + t)
                           ELSE tx_tail_ + (tx_count_ + t) - Depth
    BY <1>e DEF Slot
  <2>2. tx_head_ = IF tx_tail_ + tx_count_ < Depth THEN tx_tail_ + tx_count_
                                                   ELSE tx_tail_ + tx_count_ - Depth
    BY DEF Slot
  <2> QED
    BY <1>1, <1>2, <1>m, <2>1, <2>2
<1>f. /\ FirstOf(n, t) \in Seq(Message' \X Nat)
      /\ Len(FirstOf(n, t)) = t
      /\ \A i \in 1 .. t : FirstOf(n, t)[i] = <<n, i>>
      /\ Ids(FirstOf(n, t)) = {<<n, i>> : i \in 1 .. t}
  <2>1. /\ FirstOf(n, t) \in Seq({n} \X Nat)
        /\ Len(FirstOf(n, t)) = t
        /\ \A i \in 1 .. t : FirstOf(n, t)[i] = <<n, i>>
        /\ Ids(FirstOf(n, t)) = {<<n, i>> : i \in 1 .. t}
    BY <1>2, FirstOfFacts
  <2>2. {n} \X Nat \subseteq Message' \X Nat
    OBVIOUS
  <2> QED
    BY <2>1, <2>2, SeqWidens
<1>6. Held' = Held \o FirstOf(n, t)
  <2>1. HeldShape /\ HeldShape'
    BY <1>4, HeldFacts, PTL
  <2> DEFINE T == ({0} \union Message') \X Nat
  <2>2. Held \in Seq(T) /\ FirstOf(n, t) \in Seq(T) /\ Held' \in Seq(T)
    <3>1. Held \in Seq(({0} \union Message) \X Nat)
      BY <2>1 DEF HeldShape
    <3>2. Held' \in Seq(T)
      BY <2>1 DEF HeldShape
    <3>3. ({0} \union Message) \X Nat \subseteq T /\ Message' \X Nat \subseteq T
      OBVIOUS
    <3> HIDE DEF T
    <3> QED
      BY <1>f, <3>1, <3>2, <3>3, SeqWidens
  <2> HIDE DEF T
  <2>3. /\ Held \o FirstOf(n, t) \in Seq(T)
        /\ Len(Held \o FirstOf(n, t)) = tx_count_ + t
        /\ \A k \in 1 .. tx_count_ + t : (Held \o FirstOf(n, t))[k]
              = IF k <= tx_count_ THEN Held[k] ELSE FirstOf(n, t)[k - tx_count_]
    <3>1. Len(Held) = tx_count_ /\ Len(FirstOf(n, t)) = t
      BY <1>f, <2>1 DEF HeldShape
    <3> QED
      BY <2>2, <3>1, ConcatProperties
  <2>4. ASSUME NEW k \in 1 .. tx_count_ + t
        PROVE  Held'[k] = (Held \o FirstOf(n, t))[k]
    <3>1. k - 1 \in 0 .. Depth - 1 /\ k - 1 \in 0 .. Depth /\ k \in Nat
      BY <1>1, <1>2
    <3>2. Slot(k - 1) \in Slots /\ Slot(k - 1)' = Slot(k - 1)
      BY <1>e, <3>1, SlotFacts DEF Slot
    <3>3. Place(Slot(k - 1))
            = IF k - 1 >= tx_count_ THEN k - 1 - tx_count_ ELSE k - 1 - tx_count_ + Depth
      BY <3>1, PlaceFacts
    <3> HIDE DEF Place
    <3>4. Held'[k] = Id(tx_queue_'[Slot(k - 1)])
      BY <1>e, <2>1, <3>2 DEF HeldShape
    <3>5. CASE k <= tx_count_
      <4>1. ~(Place(Slot(k - 1)) < t)
        BY <1>1, <1>2, <3>1, <3>3, <3>5
      <4>2. tx_queue_'[Slot(k - 1)] = tx_queue_[Slot(k - 1)]
        BY <1>e, <3>2, <4>1
      <4>3. k \in 1 .. tx_count_
        BY <1>1, <3>5
      <4> QED
        BY <2>1, <2>3, <3>4, <3>5, <4>2, <4>3 DEF HeldShape
    <3>6. CASE ~(k <= tx_count_)
      <4>1. Place(Slot(k - 1)) = k - 1 - tx_count_ /\ k - 1 - tx_count_ < t
        BY <1>1, <1>2, <3>1, <3>3, <3>6
      <4>2. tx_queue_'[Slot(k - 1)] = frames[k - 1 - tx_count_ + 1]
        BY <1>e, <3>2, <4>1
      <4>3. k - tx_count_ \in 1 .. t /\ k - tx_count_ \in 1 .. Len(frames)
            /\ k - 1 - tx_count_ + 1 = k - tx_count_
        BY <1>1, <1>2, <3>6
      <4> QED
        BY <1>f, <2>3, <3>4, <3>6, <4>2, <4>3
    <3> QED
      BY <3>5, <3>6
  <2>5. Len(Held') = tx_count_ + t
    BY <1>e, <2>1 DEF HeldShape
  <2> QED
    BY <2>2, <2>3, <2>4, <2>5, SeqEqual
<1>7. queued' = queued \union Ids(FirstOf(n, t))
  <2>1. \A i \in 1 .. t : Id(frames[i]) = <<n, i>>
    BY <1>2
  <2>2. {Id(frames[i]) : i \in 1 .. t} = {<<n, i>> : i \in 1 .. t}
    BY <2>1
  <2> QED
    BY <1>e, <1>f, <2>2
<1>8. accepted' = IF t = Len(frames) THEN accepted \union {n} ELSE accepted
  <2>1. frames[1] \in FrameOf(n)
    OBVIOUS
  <2> QED
    BY <1>e, <2>1 DEF FrameOf
<1> QED
  BY <1>e, <1>2, <1>4, <1>5, <1>6, <1>7, <1>8

\* The frames of message n up to the t-th are queued, or passed on to the adapter.
IntoQueue(n, t) ==
    /\ Held' = Held \o FirstOf(n, t)
    /\ queued' = queued \union Ids(FirstOf(n, t))
    /\ UNCHANGED <<wire, overtaken>>
OntoWire(n, t) ==
    /\ wire' = wire \o FirstOf(n, t)
    /\ overtaken' = (overtaken \/ (t > 0 /\ Held # <<>>))
    /\ Held' = Held /\ queued' = queued

\* send() of message n: of its c frames the first t have been taken.
Sent(n, c, t) ==
    /\ parts' = Append(parts, c)
    /\ accepted' = IF t = c THEN accepted \union {n} ELSE accepted
    /\ dropped' = dropped
    /\ IntoQueue(n, t) \/ OntoWire(n, t)

\* With the queue disabled the adapter takes the first frames of a message.
LEMMA DirectEffect ==
    ASSUME RingType, NEW n \in Nat, NEW frames \in Seq(FrameOf(n)), Len(frames) \in Nat \ {0},
           \A i \in 1 .. Len(frames) : frames[i] \in FrameOf(n) /\ Id(frames[i]) = <<n, i>>,
           SendDirectly(frames)
    PROVE  /\ UNCHANGED ring
           /\ \E t \in 0 .. Len(frames) :
                 /\ OntoWire(n, t)
                 /\ accepted' = IF t = Len(frames) THEN accepted \union {n} ELSE accepted
<1>1. UNCHANGED <<ring, queued>>
  BY DEF SendDirectly
<1>2. PICK taken \in TakenDirectly(frames) :
          /\ wire' = wire \o [i \in DOMAIN taken |-> Id(taken[i])]
          /\ accepted' = IF taken = frames THEN accepted \union {frames[1].n} ELSE accepted
          /\ overtaken' = (overtaken \/ (taken # <<>> /\ tx_count_ > 0))
  BY DEF SendDirectly
<1>3. PICK t \in 0 .. Len(frames) : taken = SubSeq(frames, 1, t)
  BY DEF TakenDirectly
<1>t. t \in Nat
  OBVIOUS
<1>4. /\ Len(taken) = t /\ DOMAIN taken = 1 .. t
      /\ \A i \in 1 .. t : taken[i] = frames[i]
  BY <1>3
<1>5. [i \in DOMAIN taken |-> Id(taken[i])] = FirstOf(n, t)
  <2>1. ASSUME NEW i \in 1 .. t
        PROVE  Id(taken[i]) = <<n, i>>
    <3>1. i \in 1 .. Len(frames) /\ taken[i] = frames[i]
      BY <1>4
    <3> QED
      BY <3>1
  <2> QED
    BY <1>4, <2>1 DEF FirstOf
<1>6. taken = frames <=> t = Len(frames)
  BY <1>3, <1>4
<1>7. taken # <<>> <=> t > 0
  <2>1. taken \in Seq(FrameOf(n))
    BY <1>3
  <2>2. taken # <<>> <=> Len(taken) # 0
    BY <2>1, EmptySeq
  <2> QED
    BY <1>t, <1>4, <2>2
<1>8. frames[1].n = n
  <2>1. frames[1] \in FrameOf(n)
    OBVIOUS
  <2> QED
    BY <2>1 DEF FrameOf
<1>9. Held' = Held
  BY <1>1 DEF Held, ring
<1>10. tx_count_ > 0 <=> Held # <<>>
  <2>1. Len(Held) = tx_count_ /\ tx_count_ \in Nat /\ Held \in Seq(({0} \union Message) \X Nat)
    BY HeldFacts, TxQueueAssumption DEF HeldShape, RingType
  <2> QED
    BY <2>1
<1> QED
  BY <1>1, <1>2, <1>5, <1>6, <1>7, <1>8, <1>9, <1>10 DEF OntoWire

LEMMA NewMessage ==
    ASSUME parts \in Seq(Nat), NEW c \in Nat, parts' = Append(parts, c)
    PROVE  /\ Len(parts) + 1 \in Nat
           /\ Len(parts') = Len(parts) + 1
           /\ Message' = Message \union {Len(parts) + 1}
           /\ Len(parts) + 1 \notin Message
           /\ parts'[Len(parts) + 1] = c
           /\ \A n \in Message : parts'[n] = parts[n]
<1>1. Len(parts) \in Nat
  OBVIOUS
<1>2. Len(parts') = Len(parts) + 1
  BY AppendProperties
<1>3. \A n \in 1 .. Len(parts) : parts'[n] = parts[n]
  BY AppendProperties
<1>4. parts'[Len(parts) + 1] = c
  BY AppendProperties
<1> QED
  BY <1>1, <1>2, <1>3, <1>4 DEF Message

\* What holds of the slots and the frames, without what AnswerInv says of them.
LEMMA SendEffect ==
    ASSUME QueueInv, NEW len \in Lengths, NEW async \in BOOLEAN, Send(len, async)
    PROVE  /\ RingType' /\ tx_head_' = Slot(tx_count_)'
           /\ \E c \in Nat \ {0} : \E t \in 0 .. c : Sent(Len(parts) + 1, c, t)
<1> DEFINE n == Len(parts) + 1
<1>t. TypeOK /\ RingType /\ tx_head_ = Slot(tx_count_)
  BY DEF QueueInv, TypeOK, RingType
<1>1. PICK frames \in Encodings(n, len) :
          /\ parts' = Append(parts, Len(frames))
          /\ IF enable_tx_queue \/ async THEN Enqueue(frames) ELSE SendDirectly(frames)
  BY DEF Send
<1>2. n \in Nat
  <2>1. Len(parts) \in Nat
    BY <1>t DEF TypeOK
  <2> QED
    BY <2>1
<1>3. /\ frames \in Seq(FrameOf(n))
      /\ Len(frames) \in Nat \ {0}
      /\ \A i \in 1 .. Len(frames) : frames[i] \in FrameOf(n) /\ Id(frames[i]) = <<n, i>>
  BY <1>2, EncodingFacts
<1>4. n \in Message' /\ Message \subseteq Message'
  BY <1>t, <1>1, <1>3, NewMessage DEF TypeOK
<1> HIDE DEF n
<1>5. dropped' = dropped
  BY DEF Send
<1>6. CASE enable_tx_queue \/ async
  <2>1. Enqueue(frames)
    BY <1>1, <1>6
  <2> QED
    BY <1>t, <1>1, <1>2, <1>3, <1>4, <1>5, <2>1, EnqueueEffect DEF Sent, IntoQueue, n
<1>7. CASE ~(enable_tx_queue \/ async)
  <2>1. SendDirectly(frames)
    BY <1>1, <1>7
  <2>2. /\ UNCHANGED ring
        /\ \E t \in 0 .. Len(frames) :
              /\ OntoWire(n, t)
              /\ accepted' = IF t = Len(frames) THEN accepted \union {n} ELSE accepted
    BY <1>t, <1>2, <1>3, <2>1, DirectEffect
  <2>3. RingType'
    <3>1. [n : {0} \union Message, i : Nat, len : Nat]
            \subseteq [n : {0} \union Message', i : Nat, len : Nat]
      BY <1>4
    <3> QED
      BY <1>t, <2>2, <3>1 DEF RingType, ring
  <2>4. tx_head_' = Slot(tx_count_)'
    BY <1>t, <2>2 DEF Slot, ring
  <2> QED
    BY <1>1, <1>3, <1>5, <2>2, <2>3, <2>4 DEF Sent, n
<1> QED
  BY <1>6, <1>7

\* The oldest frame moves from the queue onto the wire.
LEMMA FlushEffect ==
    ASSUME QueueInv, FlushFrame
    PROVE  /\ RingType' /\ tx_head_' = Slot(tx_count_)'
           /\ Held # <<>>
           /\ wire' = Append(wire, Held[1])
           /\ Held' = Tail(Held)
           /\ UNCHANGED <<parts, accepted, queued, dropped, overtaken>>
<1> USE TxQueueAssumption
<1>t. RingType /\ tx_head_ = Slot(tx_count_)
  BY DEF QueueInv, TypeOK, RingType
<1>u. UNCHANGED <<parts, tx_queue_, tx_head_, accepted, queued, dropped, overtaken>>
  BY DEF FlushFrame, sent
<1>1. /\ tx_tail_ \in 0 .. Depth - 1 /\ tx_count_ \in 1 .. Depth
      /\ tx_tail_' = (IF tx_tail_ + 1 < Depth THEN tx_tail_ + 1 ELSE tx_tail_ + 1 - Depth)
      /\ tx_tail_' \in Slots
      /\ tx_count_' = tx_count_ - 1
  <2>1. /\ tx_tail_ \in 0 .. Depth - 1 /\ tx_count_ \in 1 .. Depth
        /\ tx_tail_' = (tx_tail_ + 1) % Depth /\ tx_count_' = tx_count_ - 1
    BY <1>t DEF FlushFrame, RingType, Slots, Succ
  <2>2. 1 \in 0 .. Depth
    OBVIOUS
  <2> QED
    BY <2>1, <2>2, Advance
<1>2. RingType'
  <2>1. Message' = Message
    BY <1>u DEF Message
  <2>2. tx_count_' \in 0 .. Depth
    BY <1>1
  <2> QED
    BY <1>t, <1>u, <1>1, <2>1, <2>2 DEF RingType
<1>3. \A k \in 0 .. Depth - 1 : Slot(k)' = Slot(k + 1)
  BY <1>1 DEF Slot
<1>4. tx_head_' = Slot(tx_count_)'
  <2>1. tx_count_' \in 0 .. Depth - 1 /\ tx_count_' + 1 = tx_count_
    BY <1>1
  <2> QED
    BY <1>t, <1>u, <1>1, <2>1 DEF Slot
<1>h. HeldShape /\ HeldShape'
  BY <1>t, <1>2, HeldFacts, PTL
<1>5. Held # <<>> /\ Held[1] = Id(tx_queue_[tx_tail_])
  <2>1. 1 \in 1 .. tx_count_ /\ tx_count_ # 0
    BY <1>1
  <2>2. Slot(0) = tx_tail_
    BY <1>1 DEF Slot
  <2>3. Held[1] = Id(tx_queue_[Slot(0)])
    BY <1>h, <2>1 DEF HeldShape
  <2>4. Held # <<>>
    BY <1>h, <2>1 DEF HeldShape
  <2> QED
    BY <2>2, <2>3, <2>4
<1>6. Held' = Tail(Held)
  <2> DEFINE T == ({0} \union Message) \X Nat
  <2>1. /\ Held \in Seq(T) /\ Held' \in Seq(T)
        /\ Len(Held) = tx_count_ /\ Len(Held') = tx_count_ - 1
    BY <1>h, <1>u, <1>1 DEF HeldShape, Message
  <2> HIDE DEF T
  <2>2. /\ Tail(Held) \in Seq(T)
        /\ Len(Tail(Held)) = tx_count_ - 1
        /\ \A k \in 1 .. tx_count_ - 1 : Tail(Held)[k] = Held[k + 1]
    BY <1>5, <2>1, HeadTailProperties
  <2>3. ASSUME NEW k \in 1 .. tx_count_ - 1
        PROVE  Held'[k] = Tail(Held)[k]
    <3>1. k - 1 \in 0 .. Depth - 1 /\ k + 1 \in 1 .. tx_count_ /\ k - 1 + 1 = k /\ k + 1 - 1 = k
      BY <1>1
    <3>2. Slot(k - 1)' = Slot(k)
      BY <1>3, <3>1
    <3>3. Held'[k] = Id(tx_queue_[Slot(k)])
      BY <1>h, <1>u, <1>1, <3>2 DEF HeldShape
    <3>4. Held[k + 1] = Id(tx_queue_[Slot(k)])
      <4> DEFINE j == k + 1
      <4>1. j \in 1 .. tx_count_ /\ j - 1 = k
        BY <3>1
      <4> HIDE DEF j
      <4>2. Held[j] = Id(tx_queue_[Slot(k)])
        BY <1>h, <4>1 DEF HeldShape
      <4> QED
        BY <4>2 DEF j
    <3> QED
      BY <2>2, <3>3, <3>4
  <2> QED
    BY <2>1, <2>2, <2>3, SeqEqual
<1>7. wire' = Append(wire, Held[1])
  BY <1>5 DEF FlushFrame
<1> QED
  BY <1>u, <1>2, <1>4, <1>5, <1>6, <1>7

LEMMA ResetEffect ==
    ASSUME QueueInv, Reset
    PROVE  /\ RingType' /\ tx_head_' = Slot(tx_count_)'
           /\ Held' = <<>>
           /\ dropped' = dropped \union Ids(Held)
           /\ UNCHANGED <<parts, accepted, queued, wire, overtaken>>
<1>1. UNCHANGED <<parts, tx_queue_>> /\ Message' = Message
  BY DEF Reset, sent, Message
<1>2. RingType'
  BY <1>1, TxQueueAssumption DEF Reset, QueueInv, TypeOK, RingType, Slots
<1>3. tx_head_' = Slot(tx_count_)'
  BY TxQueueAssumption DEF Reset, Slot
<1>4. HeldShape' /\ tx_count_' = 0
  BY <1>2, HeldFacts, PTL DEF Reset
<1>5. Held' = <<>>
  BY <1>4 DEF HeldShape
<1> QED
  BY <1>2, <1>3, <1>5 DEF Reset, sent

\* The other steps do nothing to the frames.
LEMMA QuietEffect ==
    ASSUME QueueInv,
           (\E on \in BOOLEAN : EnableQueue(on)) \/ FlushBegin \/ FlushEnd \/ UNCHANGED vars
    PROVE  /\ RingType' /\ tx_head_' = Slot(tx_count_)'
           /\ Held' = Held
           /\ UNCHANGED <<parts, accepted, queued, wire, dropped, overtaken>>
<1>1. UNCHANGED <<ring, parts, accepted, queued, wire, dropped, overtaken>>
  BY DEF EnableQueue, FlushBegin, FlushEnd, vars, ring, sent
<1>2. Message' = Message
  BY <1>1 DEF Message
<1>3. RingType' /\ tx_head_' = Slot(tx_count_)' /\ Held' = Held
  BY <1>1, <1>2 DEF ring, QueueInv, TypeOK, RingType, Slot, Held
<1> QED
  BY <1>1, <1>3

Flushed ==
    /\ Held # <<>>
    /\ wire' = Append(wire, Held[1])
    /\ Held' = Tail(Held)
    /\ UNCHANGED <<parts, accepted, queued, dropped, overtaken>>
Dropped ==
    /\ Held' = <<>>
    /\ dropped' = dropped \union Ids(Held)
    /\ UNCHANGED <<parts, accepted, queued, wire, overtaken>>
Untouched == Held' = Held /\ UNCHANGED <<parts, accepted, queued, wire, dropped, overtaken>>

\* Every step is one of these to the frames.
LEMMA StepShape ==
    ASSUME QueueInv, [Next]_vars
    PROVE  /\ RingType' /\ tx_head_' = Slot(tx_count_)'
           /\ \/ Flushed \/ Dropped \/ Untouched
              \/ \E c \in Nat \ {0} : \E t \in 0 .. c : Sent(Len(parts) + 1, c, t)
<1>1. ASSUME NEW len \in Lengths, NEW async \in BOOLEAN, Send(len, async)
      PROVE  /\ RingType' /\ tx_head_' = Slot(tx_count_)'
             /\ \E c \in Nat \ {0} : \E t \in 0 .. c : Sent(Len(parts) + 1, c, t)
  BY <1>1, SendEffect
<1>2. FlushFrame => RingType' /\ tx_head_' = Slot(tx_count_)' /\ Flushed
  BY FlushEffect DEF Flushed
<1>3. Reset => RingType' /\ tx_head_' = Slot(tx_count_)' /\ Dropped
  BY ResetEffect DEF Dropped
<1>4. (\E on \in BOOLEAN : EnableQueue(on)) \/ FlushBegin \/ FlushEnd \/ UNCHANGED vars
         => RingType' /\ tx_head_' = Slot(tx_count_)' /\ Untouched
  BY QuietEffect DEF Untouched
<1> QED
  BY <1>1, <1>2, <1>3, <1>4 DEF Next

LEMMA QueueInductive == QueueInv /\ [Next]_vars => QueueInv'
<1> SUFFICES ASSUME QueueInv, [Next]_vars PROVE QueueInv'
  OBVIOUS
<1> DEFINE P == Message \X Nat
<1>1. /\ RingType' /\ tx_head_' = Slot(tx_count_)'
      /\ \/ Flushed \/ Dropped \/ Untouched
         \/ \E c \in Nat \ {0} : \E t \in 0 .. c : Sent(Len(parts) + 1, c, t)
  BY StepShape
<1>2. enable_tx_queue' \in BOOLEAN /\ main' \in {"out", "flush"} /\ resets' \in 0 .. MaxResets
  BY TxQueueAssumption DEF QueueInv, TypeOK, Next, vars, Send, EnableQueue, Reset,
                          FlushBegin, FlushFrame, FlushEnd
<1>t. /\ parts \in Seq(Nat) /\ accepted \subseteq Message
      /\ \A n \in Message : parts[n] > 0
      /\ wire \in Seq(P) /\ Held \in Seq(P)
      /\ queued \subseteq P /\ dropped \subseteq P
      /\ overtaken \in BOOLEAN
  BY DEF QueueInv, TypeOK
<1> DEFINE FrameType ==
              /\ parts \in Seq(Nat) /\ accepted \subseteq Message
              /\ \A n \in Message : parts[n] > 0
              /\ wire \in Seq(Message \X Nat) /\ Held \in Seq(Message \X Nat)
              /\ queued \subseteq Message \X Nat /\ dropped \subseteq Message \X Nat
              /\ overtaken \in BOOLEAN
<1>3. ASSUME Untouched PROVE FrameType'
  <2>1. Message' = Message
    BY <1>3 DEF Untouched, Message
  <2> QED
    BY <1>3, <1>t, <2>1 DEF Untouched
<1>4. ASSUME Flushed PROVE FrameType'
  <2>1. Message' = Message
    BY <1>4 DEF Flushed, Message
  <2> HIDE DEF P
  <2>2. Held # <<>> /\ wire' = Append(wire, Held[1]) /\ Held' = Tail(Held)
    BY <1>4 DEF Flushed
  <2>3. 1 \in 1 .. Len(Held) /\ Held' \in Seq(P)
    BY <1>t, <2>2, EmptySeq, HeadTailProperties
  <2>4. Held[1] \in P
    BY <1>t, <2>3, ElementOfSeq
  <2>5. wire' \in Seq(P)
    BY <1>t, <2>2, <2>4, AppendProperties
  <2> QED
    BY <1>4, <1>t, <2>1, <2>3, <2>5 DEF Flushed, P
<1>5. ASSUME Dropped PROVE FrameType'
  <2>1. Message' = Message
    BY <1>5 DEF Dropped, Message
  <2> HIDE DEF P
  <2>2. Ids(Held) \subseteq P
    BY <1>t, ElementOfSeq DEF Ids
  <2>3. Held' \in Seq(P)
    BY <1>5, EmptySeq DEF Dropped
  <2> QED
    BY <1>5, <1>t, <2>1, <2>2, <2>3 DEF Dropped, P
<1>6. ASSUME NEW c \in Nat \ {0}, NEW t \in 0 .. c, Sent(Len(parts) + 1, c, t)
      PROVE  FrameType'
  <2> DEFINE n == Len(parts) + 1
             Q == Message' \X Nat
  <2>1. /\ n \in Nat /\ t \in Nat
        /\ Len(parts') = n /\ Message' = Message \union {n}
        /\ parts'[n] = c /\ \A m \in Message : parts'[m] = parts[m]
    <3>1. parts' = Append(parts, c)
      BY <1>6 DEF Sent
    <3>2. /\ Len(parts) + 1 \in Nat
          /\ Len(parts') = Len(parts) + 1
          /\ Message' = Message \union {Len(parts) + 1}
          /\ parts'[Len(parts) + 1] = c
          /\ \A m \in Message : parts'[m] = parts[m]
      BY <1>t, <3>1, NewMessage
    <3>3. t \in Nat
      OBVIOUS
    <3> QED
      BY <3>2, <3>3
  <2>2. parts' \in Seq(Nat)
    BY <1>t, <1>6, AppendProperties DEF Sent
  <2> HIDE DEF n
  <2>3. \A m \in Message' : parts'[m] > 0
    BY <1>t, <2>1
  <2>4. accepted' \subseteq Message'
    BY <1>t, <1>6, <2>1 DEF Sent, n
  <2>5. P \subseteq Q /\ {n} \X Nat \subseteq Q
    BY <2>1
  <2>6. FirstOf(n, t) \in Seq({n} \X Nat) /\ Ids(FirstOf(n, t)) = {<<n, i>> : i \in 1 .. t}
    BY <2>1, FirstOfFacts
  <2>7. Ids(FirstOf(n, t)) \subseteq Q
    <3>1. \A i \in 1 .. t : <<n, i>> \in {n} \X Nat
      OBVIOUS
    <3> QED
      BY <2>5, <2>6, <3>1
  <2> HIDE DEF P, Q
  <2>8. wire \in Seq(Q) /\ Held \in Seq(Q) /\ FirstOf(n, t) \in Seq(Q)
    BY <1>t, <2>5, <2>6, SeqWidens
  <2>9. queued \subseteq Q /\ dropped \subseteq Q
    BY <1>t, <2>5
  <2>10. dropped' \subseteq Q
    BY <1>6, <2>9 DEF Sent
  <2>11. CASE IntoQueue(n, t)
    <3>1. Held' \in Seq(Q) /\ wire' \in Seq(Q) /\ queued' \subseteq Q /\ overtaken' \in BOOLEAN
      BY <1>t, <2>7, <2>8, <2>9, <2>11, ConcatProperties DEF IntoQueue
    <3> QED
      BY <2>2, <2>3, <2>4, <2>10, <3>1 DEF Q
  <2>12. CASE OntoWire(n, t)
    <3>1. Held' \in Seq(Q) /\ wire' \in Seq(Q) /\ queued' \subseteq Q
      BY <2>8, <2>9, <2>12, ConcatProperties DEF OntoWire
    <3>2. overtaken' \in BOOLEAN
      BY <1>t, <2>12 DEF OntoWire
    <3> QED
      BY <2>2, <2>3, <2>4, <2>10, <3>1, <3>2 DEF Q
  <2> QED
    BY <1>6, <2>11, <2>12 DEF Sent, n
<1> HIDE DEF FrameType
<1>7. FrameType'
  BY <1>1, <1>3, <1>4, <1>5, <1>6
<1> QED
  BY <1>1, <1>2, <1>7 DEF QueueInv, TypeOK, RingType, FrameType
--------------------------------------------------------------------------------
(* Order *)

LEMMA IdsElements ==
    ASSUME NEW S, NEW s \in Seq(S)
    PROVE  Ids(s) = {s[k] : k \in 1 .. Len(s)}
<1>1. DOMAIN s = 1 .. Len(s)
  OBVIOUS
<1> QED
  BY <1>1 DEF Ids

\* The frames of a new message come behind all others.
LEMMA NewIsLast ==
    ASSUME parts \in Seq(Nat)
    PROVE  LET n == Len(parts) + 1
           IN /\ \A f \in Message \X Nat, i \in Nat : Before(f, <<n, i>>) /\ f # <<n, i>>
              /\ \A i, j \in Nat : i < j => Before(<<n, i>>, <<n, j>>)
<1>1. Len(parts) \in Nat
  OBVIOUS
<1>2. \A m \in Message : m < Len(parts) + 1
  BY <1>1 DEF Message
<1>3. \A f \in Message \X Nat : f[1] \in Message
  OBVIOUS
<1> QED
  BY <1>2, <1>3 DEF Before

LEMMA OrderStep ==
    ASSUME QueueInv, QueueInv', OrderInv, [Next]_vars
    PROVE  OrderInv'
<1> DEFINE P == Message \X Nat
           w == Len(wire)
           h == Len(Held)
<1>t. /\ parts \in Seq(Nat) /\ wire \in Seq(P) /\ Held \in Seq(P)
      /\ queued \subseteq P
  BY DEF QueueInv, TypeOK
<1>n. w \in Nat /\ h \in Nat
  BY <1>t
<1>e. /\ \A i \in 1 .. w : wire[i] \in P
      /\ \A k \in 1 .. h : Held[k] \in P
  BY <1>t, ElementOfSeq
<1>q. \A k \in 1 .. h : Held[k] \in queued
  BY <1>t, IdsElements DEF OrderInv
<1>o. /\ \A i, j \in 1 .. w : i < j /\ {wire[i], wire[j]} \subseteq queued
                                  => Before(wire[i], wire[j])
      /\ \A i \in 1 .. w, k \in 1 .. h : wire[i] \in queued => Before(wire[i], Held[k])
      /\ \A j, k \in 1 .. h : j < k => Before(Held[j], Held[k])
  BY DEF OrderInv
<1>1. CASE Untouched
  BY <1>1 DEF Untouched, OrderInv
<1>2. CASE Dropped
  <2>1. Held' = <<>> /\ Len(Held') = 0 /\ DOMAIN Held' = 1 .. 0
    BY <1>2 DEF Dropped
  <2> QED
    BY <1>2, <2>1 DEF Dropped, OrderInv, Ids
<1>3. CASE Flushed
  <2>0. /\ Held # <<>> /\ wire' = Append(wire, Held[1]) /\ Held' = Tail(Held)
        /\ UNCHANGED queued
    BY <1>3 DEF Flushed
  <2> HIDE DEF P
  <2>1. h \in Nat \ {0} /\ 1 \in 1 .. h
    BY <1>t, <2>0, EmptySeq
  <2>2. /\ Len(wire') = w + 1
        /\ \A i \in 1 .. w : wire'[i] = wire[i]
        /\ wire'[w + 1] = Held[1]
    BY <1>t, <1>e, <2>0, <2>1, AppendProperties
  <2>3. /\ Held' \in Seq(P) /\ Len(Held') = h - 1
        /\ \A k \in 1 .. h - 1 : Held'[k] = Held[k + 1]
    BY <1>t, <2>0, HeadTailProperties
  <2> HIDE DEF w, h
  <2>4. /\ \A i \in 1 .. w + 1 : i \in 1 .. w \/ i = w + 1
        /\ \A i, j \in 1 .. w + 1 : i < j => i \in 1 .. w
    BY <1>n
  <2>5. /\ \A k \in 1 .. h - 1 : k + 1 \in 1 .. h /\ 1 < k + 1
        /\ \A j, k \in 1 .. h - 1 : j < k => j + 1 < k + 1
    BY <2>1
  <2>6. Ids(Held') \subseteq queued'
    <3>1. Ids(Held') = {Held'[k] : k \in 1 .. h - 1}
      BY <2>3, IdsElements
    <3>2. \A k \in 1 .. h - 1 : Held'[k] \in queued
      BY <1>q, <2>3, <2>5
    <3> QED
      BY <2>0, <3>1, <3>2
  <2>7. \A i, j \in 1 .. w + 1 : i < j /\ {wire'[i], wire'[j]} \subseteq queued
                                   => Before(wire'[i], wire'[j])
    BY <1>o, <2>1, <2>2, <2>4
  <2>8. \A i \in 1 .. w + 1, k \in 1 .. h - 1 : wire'[i] \in queued => Before(wire'[i], Held'[k])
    BY <1>o, <2>1, <2>2, <2>3, <2>4, <2>5
  <2>9. \A j, k \in 1 .. h - 1 : j < k => Before(Held'[j], Held'[k])
    BY <1>o, <2>3, <2>5
  <2> QED
    BY <2>0, <2>2, <2>3, <2>6, <2>7, <2>8, <2>9 DEF OrderInv
<1>4. ASSUME NEW c \in Nat \ {0}, NEW t \in 0 .. c, Sent(Len(parts) + 1, c, t)
      PROVE  OrderInv'
  <2> DEFINE n == Len(parts) + 1
             F == FirstOf(n, t)
  <2>0. n \in Nat /\ t \in Nat
    <3>1. Len(parts) \in Nat
      BY <1>t
    <3> QED
      BY <3>1
  <2>1. /\ \A f \in P, i \in Nat : Before(f, <<n, i>>) /\ f # <<n, i>>
        /\ \A i, j \in Nat : i < j => Before(<<n, i>>, <<n, j>>)
    BY <1>t, NewIsLast
  <2>2. IntoQueue(n, t) \/ OntoWire(n, t)
    BY <1>4 DEF Sent
  <2> HIDE DEF n
  <2>3. /\ F \in Seq({n} \X Nat) /\ Len(F) = t
        /\ \A i \in 1 .. t : F[i] = <<n, i>> /\ i \in Nat
        /\ Ids(F) = {<<n, i>> : i \in 1 .. t}
    <3>1. /\ F \in Seq({n} \X Nat) /\ Len(F) = t
          /\ \A i \in 1 .. t : F[i] = <<n, i>>
          /\ Ids(F) = {<<n, i>> : i \in 1 .. t}
      BY <2>0, FirstOfFacts
    <3>2. \A i \in 1 .. t : i \in Nat
      BY <2>0
    <3> HIDE DEF F
    <3> QED
      BY <3>1, <3>2
  <2> HIDE DEF F
  <2> DEFINE Q == P \union ({n} \X Nat)
  <2>4. wire \in Seq(Q) /\ Held \in Seq(Q) /\ F \in Seq(Q)
    <3>1. P \subseteq Q /\ {n} \X Nat \subseteq Q
      OBVIOUS
    <3> HIDE DEF P, Q
    <3> QED
      BY <1>t, <2>3, <3>1, SeqWidens
  <2>5. \A f \in P : f \notin Ids(F)
    BY <2>1, <2>3
  <2> HIDE DEF P, Q
  <2>6. CASE IntoQueue(n, t)
    <3>1. Held' = Held \o F /\ wire' = wire /\ queued' = queued \union Ids(F)
      BY <2>6 DEF IntoQueue, F
    <3>2. /\ Held' \in Seq(Q) /\ Len(Held') = h + t
          /\ \A k \in 1 .. h + t : Held'[k] = IF k <= h THEN Held[k] ELSE F[k - h]
      BY <2>3, <2>4, <3>1, ConcatProperties
    <3>3. Ids(Held') = Ids(Held) \union Ids(F)
      BY <2>4, <3>1, IdsConcat
    <3> HIDE DEF w, h
    <3>4. \A k \in 1 .. h + t : \/ k \in 1 .. h /\ Held'[k] = Held[k]
                                \/ k - h \in 1 .. t /\ Held'[k] = <<n, k - h>>
      <4>1. \A k \in 1 .. h + t : (k <= h /\ k \in 1 .. h) \/ (~(k <= h) /\ k - h \in 1 .. t)
        BY <1>n, <2>0
      <4> QED
        BY <2>3, <3>2, <4>1
    <3>5. \A i \in 1 .. w : wire[i] \in queued' => wire[i] \in queued
      BY <1>e, <2>5, <3>1
    <3>6. \A i, j \in 1 .. w : i < j /\ {wire[i], wire[j]} \subseteq queued'
                                 => Before(wire[i], wire[j])
      BY <1>o, <3>5
    <3>7. ASSUME NEW i \in 1 .. w, NEW k \in 1 .. h + t, wire[i] \in queued'
          PROVE  Before(wire[i], Held'[k])
      <4>1. CASE k \in 1 .. h /\ Held'[k] = Held[k]
        BY <1>o, <3>5, <3>7, <4>1
      <4>2. CASE k - h \in 1 .. t /\ Held'[k] = <<n, k - h>>
        BY <1>e, <2>1, <2>3, <4>2
      <4> QED
        BY <3>4, <4>1, <4>2
    <3>8. ASSUME NEW j \in 1 .. h + t, NEW k \in 1 .. h + t, j < k
          PROVE  Before(Held'[j], Held'[k])
      <4>1. CASE k \in 1 .. h /\ Held'[k] = Held[k]
        <5>1. j \in 1 .. h /\ j - h \notin 1 .. t
          BY <1>n, <2>0, <3>8, <4>1
        <5> QED
          BY <1>o, <3>4, <3>8, <4>1, <5>1
      <4>2. CASE k - h \in 1 .. t /\ Held'[k] = <<n, k - h>>
        <5>1. CASE j \in 1 .. h /\ Held'[j] = Held[j]
          BY <1>e, <2>1, <2>3, <4>2, <5>1
        <5>2. CASE j - h \in 1 .. t /\ Held'[j] = <<n, j - h>>
          <6>1. j - h < k - h /\ j - h \in Nat /\ k - h \in Nat
            BY <1>n, <2>0, <3>8, <4>2, <5>2
          <6> QED
            BY <2>1, <4>2, <5>2, <6>1
        <5> QED
          BY <3>4, <5>1, <5>2
      <4> QED
        BY <3>4, <4>1, <4>2
    <3>9. Ids(Held') \subseteq queued'
      BY <3>1, <3>3 DEF OrderInv
    <3> QED
      BY <3>1, <3>2, <3>6, <3>7, <3>8, <3>9 DEF OrderInv, w
  <2>7. CASE OntoWire(n, t)
    <3>1. Held' = Held /\ wire' = wire \o F /\ queued' = queued
      BY <2>7 DEF OntoWire, F
    <3>2. /\ Len(wire') = w + t
          /\ \A k \in 1 .. w + t : wire'[k] = IF k <= w THEN wire[k] ELSE F[k - w]
      BY <2>3, <2>4, <3>1, ConcatProperties
    <3> HIDE DEF w, h
    <3>3. \A k \in 1 .. w + t : wire'[k] \in queued => k \in 1 .. w /\ wire'[k] = wire[k]
      <4>1. \A k \in 1 .. w + t : (k <= w /\ k \in 1 .. w) \/ (~(k <= w) /\ k - w \in 1 .. t)
        BY <1>n, <2>0
      <4>2. \A i \in 1 .. t : F[i] \notin queued
        BY <1>t, <2>1, <2>3
      <4> QED
        BY <3>2, <4>1, <4>2
    <3> QED
      BY <1>o, <3>1, <3>2, <3>3 DEF OrderInv, h
  <2> QED
    BY <2>2, <2>6, <2>7
<1> QED
  BY <1>1, <1>2, <1>3, <1>4, StepShape
--------------------------------------------------------------------------------
(* What send() answers *)

LEMMA IdsAppend ==
    ASSUME NEW S, NEW s \in Seq(S), NEW x \in S
    PROVE  Ids(Append(s, x)) = Ids(s) \union {x}
<1> DEFINE a == Append(s, x)
           n == Len(s)
<1>1. /\ n \in Nat /\ a \in Seq(S) /\ Len(a) = n + 1
      /\ \A i \in 1 .. n : a[i] = s[i]
      /\ a[n + 1] = x
  BY AppendProperties
<1>2. Ids(s) = {s[k] : k \in 1 .. n}
  BY IdsElements
<1> HIDE DEF a, n
<1>3. Ids(a) = {a[k] : k \in 1 .. n + 1}
  BY <1>1, IdsElements
<1>4. \A k \in 1 .. n + 1 : k \in 1 .. n \/ k = n + 1
  BY <1>1
<1>5. n + 1 \in 1 .. n + 1 /\ \A k \in 1 .. n : k \in 1 .. n + 1
  BY <1>1
<1> QED
  BY <1>1, <1>2, <1>3, <1>4, <1>5 DEF a

LEMMA IdsTail ==
    ASSUME NEW S, NEW s \in Seq(S), s # <<>>
    PROVE  Ids(s) = {s[1]} \union Ids(Tail(s))
<1> DEFINE a == Tail(s)
           n == Len(s)
<1>1. /\ n \in Nat \ {0} /\ a \in Seq(S) /\ Len(a) = n - 1
      /\ \A i \in 1 .. n - 1 : a[i] = s[i + 1]
  BY EmptySeq, HeadTailProperties
<1>2. Ids(s) = {s[k] : k \in 1 .. n}
  BY IdsElements
<1> HIDE DEF a, n
<1>3. Ids(a) = {a[k] : k \in 1 .. n - 1}
  BY <1>1, IdsElements
<1>4. \A k \in 1 .. n : k = 1 \/ \E i \in 1 .. n - 1 : k = i + 1
  <2>1. \A k \in 1 .. n : k = 1 \/ (k - 1 \in 1 .. n - 1 /\ k = k - 1 + 1)
    BY <1>1
  <2> QED
    BY <2>1
<1>5. 1 \in 1 .. n /\ \A i \in 1 .. n - 1 : i + 1 \in 1 .. n
  BY <1>1
<1>6. Ids(s) \subseteq {s[1]} \union Ids(a)
  <2>1. ASSUME NEW k \in 1 .. n
        PROVE  s[k] \in {s[1]} \union Ids(a)
    BY <1>1, <1>3, <1>4
  <2> QED
    BY <1>2, <2>1
<1>7. {s[1]} \union Ids(a) \subseteq Ids(s)
  BY <1>1, <1>2, <1>3, <1>5
<1> QED
  BY <1>6, <1>7 DEF a

LEMMA AnswerStep ==
    ASSUME QueueInv, OrderInv, AnswerInv, [Next]_vars
    PROVE  AnswerInv'
<1> DEFINE P == Message \X Nat
<1>t. /\ parts \in Seq(Nat) /\ wire \in Seq(P) /\ Held \in Seq(P)
      /\ queued \subseteq P /\ dropped \subseteq P /\ accepted \subseteq Message
  BY DEF QueueInv, TypeOK
<1>1. ASSUME UNCHANGED <<parts, accepted, queued>>, Out' = Out
      PROVE  AnswerInv'
  BY <1>1 DEF AnswerInv, Taken, OutOf, Message
<1>2. CASE Untouched
  BY <1>1, <1>2 DEF Untouched, Out
<1>3. CASE Dropped
  <2>1. Ids(Held') = {}
    BY <1>3 DEF Dropped, Ids
  <2>2. Out' = Out
    BY <1>3, <2>1 DEF Dropped, Out
  <2> QED
    BY <1>1, <1>3, <2>2 DEF Dropped
<1>4. CASE Flushed
  <2> HIDE DEF P
  <2>0. Held # <<>> /\ wire' = Append(wire, Held[1]) /\ Held' = Tail(Held)
    BY <1>4 DEF Flushed
  <2>1. Held[1] \in P
    <3>1. 1 \in 1 .. Len(Held)
      BY <1>t, <2>0, EmptySeq
    <3> QED
      BY <1>t, <3>1, ElementOfSeq
  <2>2. Ids(wire') = Ids(wire) \union {Held[1]}
    BY <1>t, <2>0, <2>1, IdsAppend
  <2>3. Ids(Held) = {Held[1]} \union Ids(Held')
    BY <1>t, <2>0, IdsTail
  <2>4. Out' = Out
    BY <1>4, <2>2, <2>3 DEF Flushed, Out
  <2> QED
    BY <1>1, <1>4, <2>4 DEF Flushed
<1>5. ASSUME NEW c \in Nat \ {0}, NEW t \in 0 .. c, Sent(Len(parts) + 1, c, t)
      PROVE  AnswerInv'
  <2>0. Len(parts) + 1 \in Nat
    <3>1. Len(parts) \in Nat
      BY <1>t
    <3> QED
      BY <3>1
  <2>n. PICK n \in Nat : n = Len(parts) + 1
    BY <2>0
  <2> DEFINE F == FirstOf(n, t)
  <2>1. /\ Message' = Message \union {n} /\ n \notin Message
        /\ parts'[n] = c /\ \A m \in Message : parts'[m] = parts[m]
    <3>1. parts' = Append(parts, c)
      BY <1>5 DEF Sent
    <3> QED
      BY <1>t, <2>n, <3>1, NewMessage
  <2>2. /\ accepted' = IF t = c THEN accepted \union {n} ELSE accepted
        /\ dropped' = dropped
        /\ IntoQueue(n, t) \/ OntoWire(n, t)
    BY <1>5, <2>n DEF Sent
  <2>3. F \in Seq({n} \X Nat) /\ Ids(F) = {<<n, i>> : i \in 1 .. t}
    <3>1. t \in Nat
      OBVIOUS
    <3> QED
      BY <2>1, <3>1, FirstOfFacts
  <2> HIDE DEF F
  <2> DEFINE Q == P \union ({n} \X Nat)
  <2>4. wire \in Seq(Q) /\ Held \in Seq(Q) /\ F \in Seq(Q)
    <3>1. P \subseteq Q /\ {n} \X Nat \subseteq Q
      OBVIOUS
    <3> HIDE DEF P, Q
    <3> QED
      BY <1>t, <2>3, <3>1, SeqWidens
  <2> HIDE DEF Q
  <2>5. Out' = Out \union Ids(F) /\ queued' \subseteq queued \union Ids(F)
    <3>1. CASE IntoQueue(n, t)
      <4>1. Held' = Held \o F /\ wire' = wire /\ queued' = queued \union Ids(F)
        BY <3>1 DEF IntoQueue, F
      <4>2. Ids(Held') = Ids(Held) \union Ids(F)
        BY <2>4, <4>1, IdsConcat
      <4> QED
        BY <2>2, <4>1, <4>2 DEF Out
    <3>2. CASE OntoWire(n, t)
      <4>1. wire' = wire \o F /\ Held' = Held /\ queued' = queued
        BY <3>2 DEF OntoWire, F
      <4>2. Ids(wire') = Ids(wire) \union Ids(F)
        BY <2>4, <4>1, IdsConcat
      <4> QED
        BY <2>2, <4>1, <4>2 DEF Out
    <3> QED
      BY <2>2, <3>1, <3>2
  <2>6. \A f \in Out : f[1] \in Message
    <3>1. Out \subseteq P
      <4> HIDE DEF P
      <4>1. Ids(wire) \subseteq P /\ Ids(Held) \subseteq P
        BY <1>t, ElementOfSeq, IdsElements
      <4> QED
        BY <1>t, <4>1 DEF Out
    <3> QED
      BY <3>1
  <2>7. \A f \in Ids(F) : f[1] = n
    BY <2>3
  <2>8. ASSUME NEW m \in Message
        PROVE  \E u \in 0 .. parts'[m] : Taken(m, u)'
    <3>1. PICK u \in 0 .. parts[m] : Taken(m, u)
      BY DEF AnswerInv
    <3>2. m # n /\ parts'[m] = parts[m]
      BY <2>1
    <3>3. OutOf(m)' = OutOf(m)
      BY <2>5, <2>7, <3>2 DEF OutOf
    <3>4. m \in accepted' <=> m \in accepted
      BY <2>2, <3>2
    <3>5. Taken(m, u)'
      BY <3>1, <3>2, <3>3, <3>4 DEF Taken
    <3> QED
      BY <3>1, <3>2, <3>5
  <2>9. Taken(n, t)'
    <3>1. OutOf(n)' = Ids(F)
      <4>1. \A f \in Out : f[1] # n
        BY <2>1, <2>6
      <4>2. OutOf(n)' = {f \in Out \union Ids(F) : f[1] = n}
        BY <2>5 DEF OutOf
      <4> QED
        BY <2>7, <4>1, <4>2
    <3>2. n \in accepted' <=> t = c
      BY <1>t, <2>1, <2>2
    <3> QED
      BY <2>1, <3>1, <3>2 DEF Taken, F
  <2>10. t \in 0 .. parts'[n]
    BY <2>1
  <2>11. queued' \subseteq Out'
    BY <2>5 DEF AnswerInv
  <2> QED
    BY <2>1, <2>8, <2>9, <2>10, <2>11 DEF AnswerInv
<1> QED
  BY <1>2, <1>3, <1>4, <1>5, StepShape
--------------------------------------------------------------------------------
(* Fragments together *)

\* The frames of a message, first to last, may follow any others.
LEMMA ChainGrows ==
    ASSUME NEW S, NEW s \in Seq(S), NEW n \in Nat, NEW t \in Nat,
           Chained(s), FirstOf(n, t) \in Seq(S)
    PROVE  Chained(s \o FirstOf(n, t))
<1> DEFINE F == FirstOf(n, t)
           a == s \o F
           m == Len(s)
<1>1. /\ m \in Nat /\ Len(a) = m + t
      /\ \A k \in 1 .. m + t : a[k] = IF k <= m THEN s[k] ELSE F[k - m]
      /\ \A i \in 1 .. t : F[i] = <<n, i>>
  <2>1. Len(F) = t /\ \A i \in 1 .. t : F[i] = <<n, i>>
    BY FirstOfFacts
  <2>2. /\ m \in Nat /\ Len(a) = m + Len(F)
        /\ \A k \in 1 .. m + Len(F) : a[k] = IF k <= m THEN s[k] ELSE F[k - m]
    BY ConcatProperties
  <2> HIDE DEF F, a, m
  <2> QED
    BY <2>1, <2>2
<1> HIDE DEF F, a, m
<1>2. ASSUME NEW k \in 1 .. m + t
      PROVE  a[k][2] = 1 \/ (k > 1 /\ a[k] = <<a[k - 1][1], a[k - 1][2] + 1>>)
  <2>1. CASE k <= m
    <3>1. k \in 1 .. m /\ a[k] = s[k]
      BY <1>1, <2>1
    <3>2. s[k][2] = 1 \/ (k > 1 /\ s[k] = <<s[k - 1][1], s[k - 1][2] + 1>>)
      BY <3>1 DEF Chained, m
    <3>3. k > 1 => k - 1 \in 1 .. m + t /\ k - 1 <= m
      BY <1>1, <3>1
    <3>4. k > 1 => a[k - 1] = s[k - 1]
      BY <1>1, <3>3
    <3> QED
      BY <3>1, <3>2, <3>4
  <2>2. CASE k = m + 1
    <3>1. ~(k <= m) /\ k - m = 1 /\ 1 \in 1 .. t
      BY <1>1, <2>2
    <3>2. a[k] = <<n, 1>>
      BY <1>1, <3>1
    <3> QED
      BY <3>2
  <2>3. CASE k > m + 1
    <3>1. /\ ~(k <= m) /\ k - m \in 1 .. t /\ k > 1
          /\ k - 1 \in 1 .. m + t /\ ~(k - 1 <= m)
          /\ k - 1 - m \in 1 .. t /\ k - 1 - m + 1 = k - m
      BY <1>1, <2>3
    <3>2. a[k] = <<n, k - m>>
      BY <1>1, <3>1
    <3>3. a[k - 1] = <<n, k - 1 - m>>
      BY <1>1, <3>1
    <3> QED
      BY <3>1, <3>2, <3>3
  <2> QED
    BY <1>1, <2>1, <2>2, <2>3
<1> QED
  BY <1>1, <1>2 DEF Chained, a, F

LEMMA ChainPrefix ==
    ASSUME NEW S, NEW a \in Seq(S), NEW b \in Seq(S), Chained(a \o b)
    PROVE  Chained(a)
<1> DEFINE s == a \o b
           m == Len(a)
           n == Len(b)
<1>1. /\ m \in Nat /\ n \in Nat /\ Len(s) = m + n
      /\ \A k \in 1 .. m + n : s[k] = IF k <= m THEN a[k] ELSE b[k - m]
  BY ConcatProperties
<1>2. \A k \in 1 .. Len(s) : s[k][2] = 1 \/ (k > 1 /\ s[k] = <<s[k - 1][1], s[k - 1][2] + 1>>)
  BY DEF Chained
<1> HIDE DEF s, m, n
<1>3. ASSUME NEW k \in 1 .. m
      PROVE  a[k][2] = 1 \/ (k > 1 /\ a[k] = <<a[k - 1][1], a[k - 1][2] + 1>>)
  <2>1. k \in 1 .. m + n /\ s[k] = a[k]
    BY <1>1
  <2>2. k > 1 => k - 1 \in 1 .. m + n /\ k - 1 <= m
    BY <1>1
  <2>3. k > 1 => s[k - 1] = a[k - 1]
    BY <1>1, <2>2
  <2> QED
    BY <1>1, <1>2, <2>1, <2>3
<1> QED
  BY <1>3 DEF Chained, m

\* A frame that moves from the queue onto the wire keeps its place.
LEMMA FlushKeepsPlace ==
    ASSUME NEW S, NEW a \in Seq(S), NEW b \in Seq(S), b # <<>>
    PROVE  Append(a, b[1]) \o Tail(b) = a \o b
<1>1. b[1] \in S /\ Tail(b) \in Seq(S) /\ Len(b) \in Nat \ {0} /\ Len(a) \in Nat
  <2>1. 1 \in 1 .. Len(b)
    BY EmptySeq
  <2> QED
    BY <2>1, EmptySeq, ElementOfSeq, HeadTailProperties
<1> DEFINE x == Append(a, b[1])
           m == Len(a)
           n == Len(b)
<1>2. /\ x \in Seq(S) /\ Len(x) = m + 1
      /\ \A i \in 1 .. m : x[i] = a[i]
      /\ x[m + 1] = b[1]
  BY <1>1, AppendProperties
<1>3. Len(Tail(b)) = n - 1 /\ \A i \in 1 .. n - 1 : Tail(b)[i] = b[i + 1]
  BY HeadTailProperties
<1>4. /\ a \o b \in Seq(S) /\ Len(a \o b) = m + n
      /\ \A k \in 1 .. m + n : (a \o b)[k] = IF k <= m THEN a[k] ELSE b[k - m]
  BY ConcatProperties
<1> HIDE DEF x
<1>5. /\ x \o Tail(b) \in Seq(S) /\ Len(x \o Tail(b)) = m + 1 + (n - 1)
      /\ \A k \in 1 .. m + 1 + (n - 1) :
            (x \o Tail(b))[k] = IF k <= m + 1 THEN x[k] ELSE Tail(b)[k - (m + 1)]
  BY <1>1, <1>2, <1>3, ConcatProperties
<1> HIDE DEF m, n
<1>6. m \in Nat /\ n \in Nat \ {0} /\ m + 1 + (n - 1) = m + n
  BY <1>1 DEF m, n
<1>7. ASSUME NEW k \in 1 .. m + n
      PROVE  (x \o Tail(b))[k] = (a \o b)[k]
  <2>1. CASE k <= m
    <3>1. k <= m + 1 /\ k \in 1 .. m
      BY <1>6, <2>1
    <3> QED
      BY <1>2, <1>4, <1>5, <1>6, <2>1, <3>1
  <2>2. CASE k = m + 1
    <3>1. k <= m + 1 /\ ~(k <= m) /\ k - m = 1
      BY <1>6, <2>2
    <3> QED
      BY <1>2, <1>4, <1>5, <1>6, <2>2, <3>1
  <2>3. CASE k > m + 1
    <3>1. /\ ~(k <= m + 1) /\ ~(k <= m)
          /\ k - (m + 1) \in 1 .. n - 1 /\ k - (m + 1) + 1 = k - m
      BY <1>6, <2>3
    <3>2. Tail(b)[k - (m + 1)] = b[k - m]
      BY <1>3, <3>1 DEF n
    <3> QED
      BY <1>4, <1>5, <1>6, <3>1, <3>2
  <2>4. k <= m \/ k = m + 1 \/ k > m + 1
    BY <1>6
  <2> QED
    BY <2>1, <2>2, <2>3, <2>4
<1>8. x \o Tail(b) = a \o b
  BY <1>4, <1>5, <1>6, <1>7, SeqEqual
<1> QED
  BY <1>8 DEF x

LEMMA ChainStep ==
    ASSUME QueueInv, ChainInv, [Next]_vars
    PROVE  ChainInv'
<1> DEFINE P == Message \X Nat
<1>t. parts \in Seq(Nat) /\ wire \in Seq(P) /\ Held \in Seq(P)
  BY DEF QueueInv, TypeOK
<1>1. CASE Untouched
  BY <1>1 DEF Untouched, ChainInv, Chained
<1>2. CASE Dropped
  <2> HIDE DEF P
  <2>1. wire' \o Held' = wire
    BY <1>t, <1>2, ConcatEmptySeq DEF Dropped
  <2>2. Chained(wire \o Held) => Chained(wire)
    BY <1>t, ChainPrefix
  <2> QED
    BY <1>2, <2>1, <2>2 DEF Dropped, ChainInv, Chained
<1>3. CASE Flushed
  <2> HIDE DEF P
  <2>1. wire' \o Held' = wire \o Held
    BY <1>t, <1>3, FlushKeepsPlace DEF Flushed
  <2> QED
    BY <1>3, <2>1 DEF Flushed, ChainInv, Chained
<1>4. ASSUME NEW c \in Nat \ {0}, NEW t \in 0 .. c, Sent(Len(parts) + 1, c, t)
      PROVE  ChainInv'
  <2>0. Len(parts) + 1 \in Nat /\ t \in Nat
    <3>1. Len(parts) \in Nat
      BY <1>t
    <3> QED
      BY <3>1
  <2>n. PICK n \in Nat : n = Len(parts) + 1
    BY <2>0
  <2> DEFINE F == FirstOf(n, t)
             Q == P \union ({n} \X Nat)
  <2>1. F \in Seq({n} \X Nat) /\ Len(F) = t
    BY <2>0, FirstOfFacts
  <2> HIDE DEF F
  <2>2. wire \in Seq(Q) /\ Held \in Seq(Q) /\ F \in Seq(Q)
    <3>1. P \subseteq Q /\ {n} \X Nat \subseteq Q
      OBVIOUS
    <3> HIDE DEF P, Q
    <3> QED
      BY <1>t, <2>1, <3>1, SeqWidens
  <2> HIDE DEF P, Q
  <2>3. wire \o Held \in Seq(Q)
    BY <2>2, ConcatProperties
  <2>4. Chained(wire \o Held) => Chained((wire \o Held) \o F)
    BY <2>0, <2>2, <2>3, ChainGrows DEF F
  <2>5. CASE IntoQueue(n, t)
    <3>1. Held' = Held \o F /\ wire' = wire /\ overtaken' = overtaken
      BY <2>5 DEF IntoQueue, F
    <3>2. wire' \o Held' = (wire \o Held) \o F
      BY <2>2, <3>1, ConcatAssociative
    <3> QED
      BY <2>4, <3>1, <3>2 DEF ChainInv, Chained
  <2>6. CASE OntoWire(n, t)
    <3>1. /\ Held' = Held /\ wire' = wire \o F
          /\ overtaken' = (overtaken \/ (t > 0 /\ Held # <<>>))
      BY <2>6 DEF OntoWire, F
    <3> SUFFICES ASSUME ~overtaken' PROVE Chained(wire \o Held)'
      BY DEF ChainInv
    <3>2. ~overtaken /\ (t = 0 \/ Held = <<>>)
      <4>1. ~(overtaken \/ (t > 0 /\ Held # <<>>))
        BY <3>1, Zenon
      <4>2. t > 0 \/ t = 0
        BY <2>0
      <4> QED
        BY <4>1, <4>2, Zenon
    <3>3. CASE t = 0
      <4>1. F = <<>>
        BY <2>1, <3>3, EmptySeq
      <4>2. wire' \o Held' = wire \o Held
        BY <2>2, <3>1, <4>1, ConcatEmptySeq
      <4> QED
        BY <3>2, <4>2 DEF ChainInv, Chained
    <3>4. CASE Held = <<>>
      <4>1. wire' \o Held' = (wire \o Held) \o F
        <5>1. wire' \in Seq(Q)
          BY <2>2, <3>1, ConcatProperties
        <5>2. wire' \o Held' = wire \o F
          BY <3>1, <3>4, <5>1, ConcatEmptySeq
        <5>3. wire \o Held = wire
          BY <2>2, <3>4, ConcatEmptySeq
        <5> QED
          BY <5>2, <5>3
      <4> QED
        BY <2>4, <3>2, <4>1 DEF ChainInv, Chained
    <3> QED
      BY <3>2, <3>3, <3>4
  <2> QED
    BY <1>4, <2>n, <2>5, <2>6 DEF Sent
<1> QED
  BY <1>1, <1>2, <1>3, <1>4, StepShape

LEMMA TxInit == Init => TxInv
<1> SUFFICES ASSUME Init PROVE TxInv
  OBVIOUS
<1> USE TxQueueAssumption
<1>0. Message = {}
  BY DEF Init, Message
<1>1. RingType /\ tx_count_ = 0 /\ tx_head_ = Slot(tx_count_)
  BY DEF Init, RingType, Slots, Slot, NoFrame
<1>2. Held = <<>>
  BY <1>1, HeldFacts DEF HeldShape
<1>3. TypeOK
  BY <1>1 DEF Init, RingType, TypeOK, Slots
<1>4. QueueInv
  BY <1>0, <1>1, <1>2, <1>3 DEF QueueInv
<1>5. wire = <<>> /\ queued = {} /\ Ids(<<>>) = {}
  BY DEF Init, Ids
<1>6. OrderInv
  BY <1>2, <1>5 DEF OrderInv
<1>7. AnswerInv
  BY <1>0, <1>5 DEF AnswerInv
<1>8. ChainInv
  BY <1>2, <1>5 DEF ChainInv, Chained
<1> QED
  BY <1>4, <1>6, <1>7, <1>8 DEF TxInv

LEMMA TxInvariant == Spec => []TxInv
<1>1. TxInv /\ [Next]_vars => TxInv'
  <2> SUFFICES ASSUME TxInv, [Next]_vars PROVE TxInv'
    OBVIOUS
  <2>0. QueueInv /\ OrderInv /\ AnswerInv /\ ChainInv
    BY DEF TxInv
  <2>1. QueueInv'
    BY <2>0, QueueInductive
  <2>2. OrderInv'
    BY <2>0, <2>1, OrderStep
  <2>3. AnswerInv'
    BY <2>0, AnswerStep
  <2>4. ChainInv'
    BY <2>0, ChainStep
  <2> QED
    BY <2>1, <2>2, <2>3, <2>4 DEF TxInv
<1> QED
  BY <1>1, TxInit, PTL DEF Spec
--------------------------------------------------------------------------------
(* What the queue promises *)

\* The types of the queue: the count never exceeds the slots (ipc.hpp:271).
THEOREM TxQueueTypeCorrect == Spec => []TypeOK
BY TxInvariant, PTL DEF TxInv, QueueInv

\* The frames that went through the queue are on the wire, and wait, in the order
\* of their send() calls, each once (enqueue_physical_frame_, flush_tx).
THEOREM TxQueueKeepsOrder == Spec => []QueueKeepsOrder
<1>1. ASSUME QueueInv, OrderInv
      PROVE  QueueKeepsOrder
  <2> DEFINE P == Message \X Nat
             s == wire \o Held
             w == Len(wire)
             h == Len(Held)
  <2>t. wire \in Seq(P) /\ Held \in Seq(P)
    BY <1>1 DEF QueueInv, TypeOK
  <2>n. w \in Nat /\ h \in Nat
    BY <2>t
  <2>q. \A k \in 1 .. h : Held[k] \in queued
    BY <1>1, <2>t, IdsElements DEF OrderInv
  <2> HIDE DEF P
  <2>s. /\ Len(s) = w + h
        /\ \A k \in 1 .. w + h : s[k] = IF k <= w THEN wire[k] ELSE Held[k - w]
    BY <2>t, ConcatProperties
  <2> HIDE DEF s, w, h
  <2> SUFFICES ASSUME NEW i \in 1 .. w + h, NEW j \in 1 .. w + h,
                      i < j, {s[i], s[j]} \subseteq queued
               PROVE  Before(s[i], s[j])
    BY <2>s DEF QueueKeepsOrder, s
  <2>1. CASE j <= w
    <3>1. i \in 1 .. w /\ j \in 1 .. w /\ i <= w
      BY <2>n, <2>1
    <3>2. s[i] = wire[i] /\ s[j] = wire[j]
      BY <2>s, <2>1, <3>1
    <3> QED
      BY <1>1, <3>1, <3>2 DEF OrderInv, w
  <2>2. CASE i <= w /\ ~(j <= w)
    <3>1. i \in 1 .. w /\ j - w \in 1 .. h
      BY <2>n, <2>2
    <3>2. s[i] = wire[i] /\ s[j] = Held[j - w]
      BY <2>s, <2>2
    <3> DEFINE k == j - w
    <3> HIDE DEF k
    <3>3. k \in 1 .. h /\ s[j] = Held[k]
      BY <3>1, <3>2 DEF k
    <3> QED
      BY <1>1, <3>1, <3>2, <3>3 DEF OrderInv, w, h
  <2>3. CASE ~(i <= w)
    <3> DEFINE k == i - w
               m == j - w
    <3>1. k \in 1 .. h /\ m \in 1 .. h /\ k < m /\ ~(j <= w)
      BY <2>n, <2>3
    <3>2. s[i] = Held[k] /\ s[j] = Held[m]
      BY <2>s, <2>3, <3>1
    <3> HIDE DEF k, m
    <3> QED
      BY <1>1, <3>1, <3>2 DEF OrderInv, h
  <2> QED
    BY <2>1, <2>2, <2>3
<1> QED
  BY <1>1, TxInvariant, PTL DEF TxInv

LEMMA FirstOfCount ==
    ASSUME NEW n \in Nat, NEW t \in Nat
    PROVE  Cardinality(Ids(FirstOf(n, t))) = t
<1> DEFINE T == {<<n, i>> : i \in 1 .. t}
           f == [i \in 1 .. t |-> <<n, i>>]
<1>1. f \in Bijection(1 .. t, T)
  BY DEF Bijection, Injection, Surjection, IsInjective
<1>2. ExistsBijection(1 .. t, T)
  BY <1>1 DEF ExistsBijection
<1>3. IsFiniteSet(1 .. t) /\ Cardinality(1 .. t) = t
  BY FS_Interval
<1>4. Cardinality(T) = t
  BY <1>2, <1>3, FS_Bijection
<1> QED
  BY <1>4, FirstOfFacts

\* What send() and send_async() answer is true of every fragment of the message,
\* queued or sent at once, and a message refused half-way is never whole.
THEOREM TxQueueAnswerIsTrue == Spec => []AnswerIsTrue
<1>1. ASSUME QueueInv, AnswerInv
      PROVE  AnswerIsTrue
  <2> SUFFICES ASSUME NEW n \in Message
               PROVE  /\ OutOf(n) = {<<n, i>> : i \in 1 .. Cardinality(OutOf(n))}
                      /\ n \in accepted <=> Cardinality(OutOf(n)) = parts[n]
                      /\ \A f \in queued : f[1] = n => f \in OutOf(n)
    BY DEF AnswerIsTrue, OutOf, Out
  <2>1. PICK t \in 0 .. parts[n] : Taken(n, t)
    BY <1>1 DEF AnswerInv
  <2>2. n \in Nat /\ t \in Nat
    <3>1. parts \in Seq(Nat) /\ Len(parts) \in Nat /\ parts[n] \in Nat
      BY <1>1, ElementOfSeq DEF QueueInv, TypeOK, Message
    <3> QED
      BY <3>1 DEF Message
  <2>3. OutOf(n) = Ids(FirstOf(n, t)) /\ (n \in accepted <=> t = parts[n])
    BY <2>1 DEF Taken
  <2>4. Cardinality(OutOf(n)) = t
    BY <2>2, <2>3, FirstOfCount
  <2>5. OutOf(n) = {<<n, i>> : i \in 1 .. t}
    BY <2>2, <2>3, FirstOfFacts
  <2>6. \A f \in queued : f[1] = n => f \in OutOf(n)
    BY <1>1 DEF AnswerInv, OutOf
  <2> QED
    BY <2>3, <2>4, <2>5, <2>6
<1> QED
  BY <1>1, TxInvariant, PTL DEF TxInv

\* Unless a frame is sent directly while others are queued, the fragments of a
\* message follow one another on the wire and nothing comes in between.
THEOREM TxQueueFragmentsTogether == Spec => []FragmentsTogether
<1>1. ASSUME QueueInv, ChainInv
      PROVE  FragmentsTogether
  <2> SUFFICES ASSUME ~overtaken PROVE Chained(wire)
    BY DEF FragmentsTogether, Chained
  <2>1. wire \in Seq(Message \X Nat) /\ Held \in Seq(Message \X Nat)
    BY <1>1 DEF QueueInv, TypeOK
  <2>2. Chained(wire \o Held)
    BY <1>1 DEF ChainInv
  <2> QED
    BY <2>1, <2>2, ChainPrefix
<1> QED
  BY <1>1, TxInvariant, PTL DEF TxInv
================================================================================
