------------------------------ MODULE RxQueueProofs ----------------------------
(***************************************************************************)
(* The receive queue, for every depth and every number of payloads: unless  *)
(* an interrupt came where the main loop undoes what it stores, payloads    *)
(* keep their order and are all accounted for, and without a callback the   *)
(* queue implements BoundedFifo.                                            *)
(***************************************************************************)
EXTENDS RxQueue, SequenceTheorems, FiniteSetTheorems, TLAPS

\* The slots of the payloads that wait: how many, the first, and the k-th after it.
Waiting == IF main \in TakeStep THEN rx_count_ - 1 ELSE rx_count_
First == IF main = "taken" THEN Succ(rx_tail_) ELSE rx_tail_
Slot(k) == IF First + k < Depth THEN First + k ELSE First + k - Depth

\* The inductive invariant, in parts.  First what holds even after a race: the
\* count is not zero while a payload is taken, so that it does not fall below zero.
ControlInv ==
    /\ TypeOK
    /\ overruns <= arrived
    /\ main \in TakeStep => rx_count_ > 0 /\ delivered # <<>>
    /\ main = "loaded" => loaded > 0

\* The head is the slot behind the payloads that wait, but in the middle of a
\* reset(), when none does.
RingInv ==
    /\ main = "loaded" => loaded = rx_count_
    /\ main \in {"reset", "reset2"} => rx_count_ = 0
    /\ main = "reset2" => rx_tail_ = 0
    /\ main \notin {"reset", "reset2"} => rx_head_ = Slot(Waiting)

\* The numbers of the payloads: what waits is newer than all that left the queue
\* in any way, and nothing is newer than the last arrival.
OrderInv ==
    /\ direct \subseteq 1 .. arrived
    /\ dropped \subseteq 0 .. arrived
    /\ \A i \in 1 .. Len(delivered) : delivered[i] <= arrived
    /\ \A k \in 1 .. Waiting : Held[k] <= arrived /\ Held[k] \notin direct
    /\ \A i, j \in 1 .. Len(delivered) :
          i < j /\ delivered[i] \notin direct /\ delivered[j] \notin direct
              => delivered[i] < delivered[j]
    /\ \A i \in 1 .. Len(delivered), k \in 1 .. Waiting :
          delivered[i] \notin direct => delivered[i] < Held[k]
    /\ \A d \in dropped, k \in 1 .. Waiting : d < Held[k]
    /\ \A j, k \in 1 .. Waiting : j < k => Held[j] < Held[k]

CountInv == Len(delivered) + Waiting + Cardinality(dropped) + overruns = arrived

RxInv == ControlInv /\ (~raced => RingInv /\ OrderInv /\ CountInv)
--------------------------------------------------------------------------------
(* The slots *)

\* Succ is the successor on the circle of slots.
LEMMA SuccIsNext ==
    ASSUME NEW i \in Slots
    PROVE  Succ(i) = (IF i = Depth - 1 THEN 0 ELSE i + 1) /\ Succ(i) \in Slots
BY RxQueueAssumption DEF Slots, Succ

SlotShape ==
    /\ Waiting \in 0 .. Depth
    /\ First \in Slots
    /\ \A k \in 0 .. Depth : Slot(k) \in Slots /\ (First + k) % Depth = Slot(k)

LEMMA SlotFacts == ControlInv => SlotShape
<1> SUFFICES ASSUME ControlInv PROVE SlotShape
  OBVIOUS
<1>1. rx_tail_ \in Slots /\ rx_count_ \in 0 .. Depth /\ Depth \in Nat \ {0}
  BY RxQueueAssumption DEF ControlInv, TypeOK
<1>2. Waiting \in 0 .. Depth
  BY <1>1 DEF ControlInv, Waiting
<1>3. First \in Slots
  BY <1>1, SuccIsNext DEF First
<1>4. ASSUME NEW k \in 0 .. Depth
      PROVE  Slot(k) \in Slots /\ (First + k) % Depth = Slot(k)
  <2>1. First + k \in 0 .. 2 * Depth - 1
    BY <1>1, <1>3 DEF Slots
  <2>2. (First + k) % Depth = Slot(k)
    BY <1>1, <1>3, <2>1 DEF Slot, Slots
  <2>3. Slot(k) \in Slots
    BY <1>1, <1>3, <2>1 DEF Slot, Slots
  <2> QED
    BY <2>2, <2>3
<1> QED
  BY <1>2, <1>3, <1>4 DEF SlotShape

HeldShape ==
    /\ Held \in Seq(0 .. MaxArrivals)
    /\ Len(Held) = Waiting
    /\ \A k \in 1 .. Waiting : Held[k] = rx_queue_[Slot(k - 1)]

LEMMA FunctionIsSeq ==
    ASSUME NEW S, NEW n \in Nat, NEW f \in [1 .. n -> S]
    PROVE  f \in Seq(S) /\ Len(f) = n
OBVIOUS

LEMMA HeldFacts == ControlInv => HeldShape
<1> SUFFICES ASSUME ControlInv PROVE HeldShape
  OBVIOUS
<1>1. SlotShape /\ Waiting \in Nat
  BY SlotFacts, RxQueueAssumption DEF SlotShape
<1>2. Held = [k \in 1 .. Waiting |-> rx_queue_[(First + k - 1) % Depth]]
  BY DEF Held, Waiting, First
<1>3. ASSUME NEW k \in 1 .. Waiting
      PROVE  (First + k - 1) % Depth = Slot(k - 1) /\ Slot(k - 1) \in Slots
  <2>1. k - 1 \in 0 .. Depth /\ First \in Nat /\ k \in Nat
    BY <1>1, RxQueueAssumption DEF SlotShape, Slots
  <2>2. First + (k - 1) = First + k - 1
    BY <2>1
  <2> QED
    BY <1>1, <2>1, <2>2 DEF SlotShape
<1>4. \A k \in 1 .. Waiting : Held[k] = rx_queue_[Slot(k - 1)]
  BY <1>2, <1>3
<1>5. Held \in [1 .. Waiting -> 0 .. MaxArrivals]
  BY <1>2, <1>3 DEF ControlInv, TypeOK
<1> QED
  BY <1>1, <1>4, <1>5, FunctionIsSeq DEF HeldShape
--------------------------------------------------------------------------------
(* What holds even after a race *)

LEMMA ControlInductive == ControlInv /\ [Next]_vars => ControlInv'
<1> SUFFICES ASSUME ControlInv, [Next]_vars PROVE ControlInv'
  OBVIOUS
<1> USE RxQueueAssumption
<1>t. TypeOK
  BY DEF ControlInv
<1>n. ASSUME NEW n \in 0 .. MaxArrivals
      PROVE  /\ Append(delivered, n) \in Seq(0 .. MaxArrivals)
             /\ Append(delivered, n) # <<>>
  BY <1>t, AppendProperties DEF TypeOK
<1>1. CASE QueuePayload
  <2>1. rx_head_' \in Slots
    BY <1>1, <1>t, SuccIsNext DEF QueuePayload, TypeOK
  <2>2. rx_queue_' \in [Slots -> 0 .. MaxArrivals]
    BY <1>1, <1>t DEF QueuePayload, MayArrive, TypeOK
  <2>3. arrived' \in 0 .. MaxArrivals /\ rx_count_' \in 0 .. Depth
    BY <1>1, <1>t DEF QueuePayload, MayArrive, TypeOK
  <2>4. raced' \in BOOLEAN
    BY <1>1, <1>t DEF QueuePayload, TypeOK
  <2> QED
    BY <1>1, <2>1, <2>2, <2>3, <2>4 DEF QueuePayload, ControlInv, TypeOK, config
<1>2. CASE QueueFull
  BY <1>2 DEF QueueFull, MayArrive, ControlInv, TypeOK, config
<1>3. CASE CallBack
  <2>1. arrived + 1 \in 0 .. MaxArrivals /\ arrived + 1 \in Payload
    BY <1>3, <1>t DEF CallBack, MayArrive, TypeOK, Payload
  <2>2. delivered' \in Seq(0 .. MaxArrivals) /\ delivered' # <<>>
    BY <1>3, <1>n, <2>1 DEF CallBack
  <2> QED
    BY <1>3, <2>1, <2>2 DEF CallBack, MayArrive, ControlInv, TypeOK, config
<1>4. CASE ProcessBegin
  BY <1>4 DEF ProcessBegin, ControlInv, TypeOK, Step, TakeStep, ringVars, config, observers
<1>5. CASE PollEnd
  BY <1>5 DEF PollEnd, ControlInv, TypeOK, Step, TakeStep, ringVars, config, observers
<1>6. ASSUME NEW from \in {"out", "drain"}, Take(from)
      PROVE  ControlInv'
  <2>1. rx_queue_[rx_tail_] \in 0 .. MaxArrivals /\ rx_count_ > 0
    BY <1>6, <1>t DEF Take, TypeOK
  <2>2. delivered' \in Seq(0 .. MaxArrivals) /\ delivered' # <<>>
    BY <1>6, <1>n, <2>1 DEF Take
  <2> QED
    BY <1>6, <2>1, <2>2 DEF Take, ControlInv, TypeOK, Step, TakeStep, ringVars, config
<1>7. CASE DrainEnd
  BY <1>7 DEF DrainEnd, ControlInv, TypeOK, Step, TakeStep, ringVars, config, observers
<1>8. CASE MoveTail
  <2>1. rx_tail_' \in Slots
    BY <1>8, <1>t, SuccIsNext DEF MoveTail, TypeOK
  <2> QED
    BY <1>8, <2>1 DEF MoveTail, ControlInv, TypeOK, Step, TakeStep, config, observers
<1>9. CASE LoadCount
  BY <1>9 DEF LoadCount, ControlInv, TypeOK, Step, TakeStep, ringVars, config, observers
<1>10. CASE StoreCount
  BY <1>10 DEF StoreCount, ControlInv, TypeOK, Step, TakeStep, config, observers
<1>11. ASSUME NEW enabled \in BOOLEAN, QueueRxPayloads(enabled)
       PROVE  ControlInv'
  BY <1>11 DEF QueueRxPayloads, ControlInv, TypeOK, ringVars, observers
<1>12. CASE Reset
  <2>1. Waiting = rx_count_
    BY <1>12 DEF Reset, Waiting, TakeStep
  <2>2. \A k \in 1 .. rx_count_ : Held[k] \in 0 .. MaxArrivals
    BY <2>1, <1>t, HeldFacts DEF HeldShape, TypeOK
  <2>3. dropped' \subseteq 0 .. MaxArrivals
    BY <1>12, <1>t, <2>2 DEF Reset, TypeOK
  <2> QED
    BY <1>12, <2>3 DEF Reset, ControlInv, TypeOK, Step, TakeStep, config
<1>13. CASE ResetTail
  BY <1>13 DEF ResetTail, ControlInv, TypeOK, Step, TakeStep, Slots, config, observers
<1>14. CASE ResetHead
  BY <1>14 DEF ResetHead, ControlInv, TypeOK, Step, TakeStep, Slots, config, observers
<1>15. CASE UNCHANGED vars
  BY <1>15 DEF vars, ControlInv, TypeOK, config
<1> QED
  BY <1>1, <1>2, <1>3, <1>4, <1>5, <1>6, <1>7, <1>8, <1>9, <1>10, <1>11, <1>12,
     <1>13, <1>14, <1>15 DEF Next, DrainTake, Receive

LEMMA ControlInit == Init => ControlInv
<1>1. Init => TypeOK
  BY RxQueueAssumption DEF Init, TypeOK, Slots, Step
<1> QED
  BY <1>1 DEF Init, ControlInv, TakeStep

LEMMA ControlInvariant == Spec => []ControlInv
BY ControlInit, ControlInductive, PTL DEF Spec

\* The types of the queue, whatever the interrupts do to it.
THEOREM RxQueueTypeCorrect == Spec => []TypeOK
BY ControlInvariant, PTL DEF ControlInv
--------------------------------------------------------------------------------
(* What the steps do to the payloads that wait, where no interrupt races *)

\* The steps that neither add to the payloads that wait nor take from them.
Quiet ==
    \/ QueueFull \/ CallBack
    \/ ProcessBegin \/ PollEnd \/ DrainEnd \/ MoveTail \/ LoadCount \/ StoreCount
    \/ \E enabled \in BOOLEAN : QueueRxPayloads(enabled)
    \/ ResetTail \/ ResetHead
    \/ UNCHANGED vars

LEMMA SameHeld ==
    ASSUME Waiting' = Waiting, First' = First, rx_queue_' = rx_queue_
    PROVE  Held' = Held
<1>1. Held = [k \in 1 .. Waiting |-> rx_queue_[(First + k - 1) % Depth]]
  BY DEF Held, Waiting, First
<1>2. Held' = [k \in 1 .. Waiting' |-> rx_queue_'[(First' + k - 1) % Depth]]
  BY DEF Held, Waiting, First
<1> QED
  BY <1>1, <1>2

\* The other steps change the place of what waits at most together with its count.
LEMMA QuietHeld ==
    ASSUME ControlInv, ControlInv', RingInv, Quiet
    PROVE  RingInv' /\ Waiting' = Waiting /\ Held' = Held
<1> USE RxQueueAssumption
<1>t. TypeOK /\ TypeOK'
  BY DEF ControlInv
<1>h. HeldShape /\ HeldShape'
  BY HeldFacts, PTL
<1>0. ASSUME UNCHANGED <<main, ringVars, loaded>>
      PROVE  RingInv' /\ Waiting' = Waiting /\ Held' = Held
  <2>1. Waiting' = Waiting /\ First' = First /\ Slot(Waiting)' = Slot(Waiting)
    BY <1>0 DEF Waiting, First, Slot, ringVars
  <2> QED
    BY <1>0, <2>1, SameHeld DEF RingInv, ringVars
<1>1. CASE QueueFull \/ CallBack \/ UNCHANGED vars
  BY <1>0, <1>1 DEF QueueFull, CallBack, ringVars, vars
<1>2. ASSUME NEW enabled \in BOOLEAN, QueueRxPayloads(enabled)
      PROVE  RingInv' /\ Waiting' = Waiting /\ Held' = Held
  BY <1>0, <1>2 DEF QueueRxPayloads, ringVars
<1>3. CASE ProcessBegin \/ PollEnd \/ DrainEnd
  <2>1. /\ main \in {"out", "poll", "drain"} /\ main' \in {"out", "poll", "drain"}
        /\ UNCHANGED ringVars
    BY <1>3 DEF ProcessBegin, PollEnd, DrainEnd
  <2>2. Waiting' = Waiting /\ First' = First /\ Slot(Waiting)' = Slot(Waiting)
    BY <2>1 DEF Waiting, First, Slot, TakeStep, ringVars
  <2> QED
    BY <2>1, <2>2, SameHeld DEF RingInv, ringVars
<1>4. CASE MoveTail
  <2>1. Waiting' = Waiting /\ First' = First /\ Slot(Waiting)' = Slot(Waiting)
    BY <1>4 DEF MoveTail, Waiting, First, Slot, TakeStep
  <2> QED
    BY <1>4, <2>1, SameHeld DEF MoveTail, RingInv
<1>5. CASE LoadCount
  <2>1. Waiting' = Waiting /\ First' = First /\ Slot(Waiting)' = Slot(Waiting)
    BY <1>5 DEF LoadCount, Waiting, First, Slot, TakeStep, ringVars
  <2> QED
    BY <1>5, <2>1, SameHeld DEF LoadCount, RingInv, ringVars
<1>6. CASE StoreCount
  <2>1. main = "loaded" /\ main' \in {"out", "drain"} /\ rx_count_' = rx_count_ - 1
    BY <1>6, <1>t DEF StoreCount, RingInv, TypeOK
  <2>2. Waiting' = Waiting /\ First' = First /\ Slot(Waiting)' = Slot(Waiting)
    BY <1>6, <2>1 DEF StoreCount, Waiting, First, Slot, TakeStep
  <2> QED
    BY <1>6, <2>1, <2>2, SameHeld DEF StoreCount, RingInv
<1>7. CASE ResetTail \/ ResetHead
  <2>1. Waiting = 0 /\ Waiting' = 0
    BY <1>7 DEF ResetTail, ResetHead, RingInv, Waiting, TakeStep
  <2>2. Held' = Held
    BY <1>h, <2>1 DEF HeldShape
  <2>3. CASE ResetTail
    BY <2>1, <2>2, <2>3 DEF ResetTail, RingInv
  <2>4. CASE ResetHead
    BY <2>1, <2>2, <2>4, <1>t DEF ResetHead, RingInv, First, Slot, Slots, TypeOK
  <2> QED
    BY <1>7, <2>1, <2>2, <2>3, <2>4
<1> QED
  BY <1>1, <1>2, <1>3, <1>4, <1>5, <1>6, <1>7 DEF Quiet

\* A payload is queued behind the others.
LEMMA QueuePayloadHeld ==
    ASSUME ControlInv, ControlInv', RingInv, QueuePayload, ~raced'
    PROVE  RingInv' /\ Waiting' = Waiting + 1 /\ Held' = Append(Held, arrived + 1)
<1> USE RxQueueAssumption
<1>t. TypeOK /\ TypeOK'
  BY DEF ControlInv
<1>h. HeldShape /\ HeldShape' /\ SlotShape
  BY HeldFacts, SlotFacts, PTL
<1>1. main \notin {"loaded", "reset", "reset2"} /\ rx_head_ = Slot(Waiting)
  BY DEF QueuePayload, Storing, RingInv
<1>2. Waiting' = Waiting + 1 /\ First' = First
  BY <1>t DEF QueuePayload, Waiting, First, TypeOK
<1>3. Waiting \in 0 .. Depth - 1 /\ First \in 0 .. Depth - 1
  <2>1. rx_count_ \in 0 .. Depth - 1
    BY <1>t DEF QueuePayload, TypeOK
  <2> QED
    BY <1>h, <2>1 DEF Waiting, SlotShape, Slots
<1>4. \A k \in 0 .. Depth : Slot(k)' = Slot(k)
  BY <1>2 DEF Slot
<1>5. \A k \in 0 .. Waiting - 1 : Slot(k) # rx_head_
  BY <1>1, <1>3 DEF Slot
<1>6. RingInv'
  <2>1. rx_head_' = IF rx_head_ = Depth - 1 THEN 0 ELSE rx_head_ + 1
    BY <1>t, SuccIsNext DEF QueuePayload, TypeOK
  <2>2. rx_head_' = Slot(Waiting + 1)
    BY <1>1, <1>3, <2>1 DEF Slot
  <2>3. Slot(Waiting)' = Slot(Waiting + 1)
    BY <1>2 DEF Slot
  <2> QED
    BY <1>1, <2>2, <2>3 DEF QueuePayload, RingInv
<1>7. ASSUME NEW k \in 1 .. Waiting + 1
      PROVE  Held'[k] = Append(Held, arrived + 1)[k]
  <2>0. k - 1 \in 0 .. Depth /\ k - 1 \in 0 .. Waiting
    BY <1>3
  <2>1. Held'[k] = rx_queue_'[Slot(k - 1)]
    BY <1>h, <1>2, <1>4, <2>0 DEF HeldShape
  <2>2. CASE k \in 1 .. Waiting
    <3>1. Slot(k - 1) # rx_head_ /\ Slot(k - 1) \in Slots
      BY <1>h, <1>3, <1>5, <2>0, <2>2 DEF SlotShape
    <3>2. rx_queue_'[Slot(k - 1)] = rx_queue_[Slot(k - 1)]
      BY <1>t, <3>1 DEF QueuePayload, TypeOK
    <3> QED
      BY <1>h, <2>1, <2>2, <3>2 DEF HeldShape
  <2>3. CASE k = Waiting + 1
    <3>1. Slot(k - 1) = rx_head_ /\ rx_head_ \in Slots
      BY <1>1, <1>3, <1>t, <2>3 DEF TypeOK
    <3>2. rx_queue_'[Slot(k - 1)] = arrived + 1
      BY <1>t, <3>1 DEF QueuePayload, TypeOK
    <3> QED
      BY <1>h, <2>1, <2>3, <3>2 DEF HeldShape
  <2>4. k \in 1 .. Waiting \/ k = Waiting + 1
    BY <1>3
  <2> QED
    BY <2>2, <2>3, <2>4
<1>8. /\ Append(Held, arrived + 1) \in Seq(0 .. MaxArrivals)
      /\ Len(Append(Held, arrived + 1)) = Len(Held) + 1
  <2>1. arrived + 1 \in 0 .. MaxArrivals
    BY <1>t DEF QueuePayload, MayArrive, TypeOK
  <2> QED
    BY <1>h, <2>1, AppendProperties DEF HeldShape
<1>9. Len(Append(Held, arrived + 1)) = Waiting + 1
  BY <1>h, <1>8 DEF HeldShape
<1> QED
  BY <1>h, <1>2, <1>6, <1>7, <1>8, <1>9, SeqEqual DEF HeldShape

\* The application takes the oldest payload that waits.
LEMMA TakeHeld ==
    ASSUME ControlInv, ControlInv', RingInv, NEW from \in {"out", "drain"}, Take(from)
    PROVE  /\ RingInv'
           /\ Waiting > 0 /\ Waiting' = Waiting - 1
           /\ Held # <<>> /\ Held[1] = rx_queue_[rx_tail_] /\ Held' = Tail(Held)
<1> USE RxQueueAssumption
<1>t. TypeOK /\ TypeOK'
  BY DEF ControlInv
<1>h. HeldShape /\ HeldShape' /\ SlotShape
  BY HeldFacts, SlotFacts, PTL
<1>1. /\ main \in {"out", "drain"} /\ main' = "taken"
      /\ rx_count_ > 0 /\ UNCHANGED ringVars
  BY <1>t DEF Take, TypeOK
<1>2. Waiting = rx_count_ /\ Waiting' = rx_count_ - 1
  BY <1>1 DEF Waiting, TakeStep, ringVars
<1>3. First = rx_tail_ /\ First' = IF rx_tail_ = Depth - 1 THEN 0 ELSE rx_tail_ + 1
  BY <1>1, <1>t, SuccIsNext DEF First, TypeOK, ringVars
<1>4. rx_tail_ \in 0 .. Depth - 1 /\ rx_count_ \in 1 .. Depth
  BY <1>1, <1>t DEF TypeOK, Slots
<1>5. \A k \in 0 .. Depth - 1 : Slot(k)' = Slot(k + 1)
  BY <1>3, <1>4 DEF Slot
<1>6. RingInv'
  <2>1. Slot(Waiting)' = Slot(Waiting)
    BY <1>2, <1>4, <1>5
  <2> QED
    BY <1>1, <1>2, <2>1 DEF RingInv, ringVars
<1>7. Held[1] = rx_queue_[rx_tail_] /\ Held # <<>>
  <2>1. Slot(0) = rx_tail_
    BY <1>3, <1>4 DEF Slot
  <2>2. 1 \in 1 .. Waiting /\ Waiting # 0
    BY <1>2, <1>4
  <2>3. Held[1] = rx_queue_[Slot(0)]
    BY <1>h, <2>2 DEF HeldShape
  <2>4. Held # <<>>
    BY <1>h, <2>2 DEF HeldShape
  <2> QED
    BY <2>1, <2>3, <2>4
<1>8. /\ Tail(Held) \in Seq(0 .. MaxArrivals)
      /\ Len(Tail(Held)) = Waiting - 1
      /\ \A k \in 1 .. Waiting - 1 : Tail(Held)[k] = Held[k + 1]
  BY <1>h, <1>7, HeadTailProperties DEF HeldShape
<1>9. ASSUME NEW k \in 1 .. Waiting - 1
      PROVE  Held'[k] = Tail(Held)[k]
  <2>1. k \in 0 .. Depth /\ k - 1 \in 0 .. Depth - 1 /\ k + 1 \in 1 .. Waiting /\ k \in Nat
    BY <1>2, <1>4
  <2>2. Slot(k - 1)' = Slot(k)
    BY <1>5, <2>1
  <2>3. Held'[k] = rx_queue_[Slot(k)]
    BY <1>h, <1>1, <1>2, <2>2 DEF HeldShape, ringVars
  <2>4. Held[k + 1] = rx_queue_[Slot(k)]
    BY <1>h, <2>1 DEF HeldShape
  <2> QED
    BY <1>8, <2>3, <2>4
<1>10. Held' = Tail(Held)
  BY <1>h, <1>2, <1>8, <1>9, SeqEqual DEF HeldShape
<1> QED
  BY <1>2, <1>4, <1>6, <1>7, <1>10

\* A reset drops everything that waits.
LEMMA ResetHeld ==
    ASSUME ControlInv, ControlInv', RingInv, Reset
    PROVE  /\ RingInv'
           /\ Waiting' = 0
           /\ dropped' = dropped \union {Held[k] : k \in 1 .. Waiting}
BY DEF Reset, RingInv, Waiting, TakeStep
--------------------------------------------------------------------------------
(* Order and count *)

\* Numbers that increase are as many as the places they stand at.
LEMMA IncreasingCount ==
    ASSUME NEW s \in Seq(0 .. MaxArrivals),
           \A j, k \in 1 .. Len(s) : j < k => s[j] < s[k]
    PROVE  /\ IsFiniteSet({s[k] : k \in 1 .. Len(s)})
           /\ Cardinality({s[k] : k \in 1 .. Len(s)}) = Len(s)
<1> DEFINE T == {s[k] : k \in 1 .. Len(s)}
           f == [k \in 1 .. Len(s) |-> s[k]]
<1>0. Len(s) \in Nat /\ \A k \in 1 .. Len(s) : s[k] \in 0 .. MaxArrivals
  <2>1. Len(s) \in Nat
    OBVIOUS
  <2>2. \A k \in 1 .. Len(s) : s[k] \in 0 .. MaxArrivals
    BY ElementOfSeq
  <2> QED
    BY <2>1, <2>2
<1>1. f \in [1 .. Len(s) -> T]
  OBVIOUS
<1>2. ASSUME NEW j \in 1 .. Len(s), NEW k \in 1 .. Len(s), f[j] = f[k]
      PROVE  j = k
  <2>1. s[j] = s[k] /\ s[j] \in 0 .. MaxArrivals
    BY <1>0, <1>2
  <2>2. ~(j < k) /\ ~(k < j)
    BY <2>1, RxQueueAssumption
  <2> QED
    BY <1>0, <2>2
<1>3. \A t \in T : \E k \in 1 .. Len(s) : f[k] = t
  OBVIOUS
<1>4. f \in Bijection(1 .. Len(s), T)
  BY <1>1, <1>2, <1>3 DEF Bijection, Injection, Surjection, IsInjective
<1>5. ExistsBijection(1 .. Len(s), T)
  BY <1>4 DEF ExistsBijection
<1>6. IsFiniteSet(1 .. Len(s)) /\ Cardinality(1 .. Len(s)) = Len(s)
  BY <1>0, FS_Interval
<1> QED
  BY <1>5, <1>6, FS_Bijection

\* What a reset drops is as much as waited.
LEMMA DroppedCount ==
    ASSUME ControlInv, RingInv, OrderInv
    PROVE  /\ Cardinality(dropped) \in Nat
           /\ Cardinality(dropped \union {Held[k] : k \in 1 .. Waiting})
                = Cardinality(dropped) + Waiting
<1> DEFINE T == {Held[k] : k \in 1 .. Waiting}
<1>h. HeldShape
  BY HeldFacts
<1>1. IsFiniteSet(dropped) /\ Cardinality(dropped) \in Nat
  <2>1. arrived \in Int /\ 0 \in Int
    BY RxQueueAssumption DEF ControlInv, TypeOK
  <2>2. IsFiniteSet(0 .. arrived)
    BY <2>1, FS_Interval
  <2>3. dropped \in SUBSET (0 .. arrived)
    BY DEF OrderInv
  <2>4. IsFiniteSet(dropped)
    BY <2>2, <2>3, FS_Subset
  <2> QED
    BY <2>4, FS_CardinalityType
<1>2. IsFiniteSet(T) /\ Cardinality(T) = Waiting
  BY <1>h, IncreasingCount DEF HeldShape, OrderInv
<1>3. dropped \cap T = {}
  <2>1. \A k \in 1 .. Waiting : Held[k] \in 0 .. MaxArrivals
    BY <1>h, ElementOfSeq DEF HeldShape
  <2>2. \A k \in 1 .. Waiting : Held[k] \notin dropped
    BY <2>1, RxQueueAssumption DEF OrderInv
  <2> QED
    BY <2>2
<1>4. Waiting \in Nat
  BY <1>h DEF HeldShape
<1>5. Cardinality(dropped \cap T) = 0
  BY <1>3, FS_EmptySet
<1>6. Cardinality(dropped \union T) = Cardinality(dropped) + Cardinality(T)
                                        - Cardinality(dropped \cap T)
  BY <1>1, <1>2, FS_Union
<1> QED
  BY <1>1, <1>2, <1>4, <1>5, <1>6

\* The numbers, where they are numbers.
NumberShape ==
    /\ arrived \in Nat
    /\ Len(delivered) \in Nat /\ delivered \in Seq(0 .. MaxArrivals)
    /\ \A i \in 1 .. Len(delivered) : delivered[i] \in Nat
    /\ Waiting \in Nat
    /\ \A k \in 1 .. Waiting : Held[k] \in Nat

LEMMA NumberFacts == ControlInv => NumberShape
<1> SUFFICES ASSUME ControlInv PROVE NumberShape
  OBVIOUS
<1>1. TypeOK /\ HeldShape
  BY HeldFacts DEF ControlInv
<1>2. arrived \in Nat /\ delivered \in Seq(0 .. MaxArrivals) /\ 0 .. MaxArrivals \subseteq Nat
  BY <1>1, RxQueueAssumption DEF TypeOK
<1>3. Len(delivered) \in Nat
  BY <1>2
<1>4. \A i \in 1 .. Len(delivered) : delivered[i] \in Nat
  BY <1>2, ElementOfSeq
<1>5. Waiting \in Nat
  BY <1>1 DEF HeldShape
<1>6. \A k \in 1 .. Waiting : Held[k] \in Nat
  BY <1>1, <1>2, ElementOfSeq DEF HeldShape
<1> QED
  BY <1>2, <1>3, <1>4, <1>5, <1>6 DEF NumberShape

\* The numbers stay in order: a payload that is queued or goes to the callback is
\* the newest, and one that is taken is older than all that still wait.
LEMMA OrderStep ==
    ASSUME RxInv, ControlInv', [Next]_vars, ~raced'
    PROVE  RingInv' /\ OrderInv' /\ CountInv'
<1> USE RxQueueAssumption
<1>0. ControlInv /\ RingInv /\ OrderInv /\ CountInv
  <2>1. ~raced
    BY DEF Next, QueuePayload, QueueFull, CallBack, ProcessBegin, PollEnd, DrainEnd,
           DrainTake, Receive, Take, MoveTail, LoadCount, StoreCount, QueueRxPayloads,
           Reset, ResetTail, ResetHead, observers, vars
  <2> QED
    BY <2>1 DEF RxInv
<1>n. NumberShape /\ NumberShape' /\ HeldShape /\ HeldShape'
  BY <1>0, NumberFacts, HeldFacts, PTL
<1>m. /\ arrived \in Nat /\ Waiting \in Nat /\ Len(delivered) \in Nat
      /\ \A i \in 1 .. Len(delivered) : delivered[i] \in Nat
      /\ \A k \in 1 .. Waiting : Held[k] \in Nat
  BY <1>n DEF NumberShape
<1>c. Cardinality(dropped) \in Nat /\ overruns \in Nat
  <2>1. Cardinality(dropped) \in Nat
    BY <1>0, DroppedCount
  <2>2. overruns \in Nat
    BY <1>0 DEF ControlInv, TypeOK
  <2> QED
    BY <2>1, <2>2
<1>1. CASE QueuePayload
  <2>1. RingInv' /\ Waiting' = Waiting + 1 /\ Held' = Append(Held, arrived + 1)
    BY <1>0, <1>1, QueuePayloadHeld
  <2>2. /\ arrived' = arrived + 1
        /\ UNCHANGED <<delivered, direct, overruns, dropped>>
    BY <1>1 DEF QueuePayload
  <2>3. /\ \A k \in 1 .. Waiting : Held'[k] = Held[k]
        /\ Held'[Waiting + 1] = arrived + 1
    <3>1. Held \in Seq(0 .. MaxArrivals) /\ Len(Held) = Waiting
      BY <1>n DEF HeldShape
    <3>2. \A k \in 1 .. Len(Held) : Append(Held, arrived + 1)[k] = Held[k]
      BY <3>1
    <3>3. Append(Held, arrived + 1)[Len(Held) + 1] = arrived + 1
      BY <3>1
    <3> QED
      BY <2>1, <3>1, <3>2, <3>3
  <2>4. \A k \in 1 .. Waiting' : k \in 1 .. Waiting \/ k = Waiting + 1
    BY <2>1, <1>n DEF NumberShape
  <2>5. direct \subseteq 1 .. arrived' /\ dropped \subseteq 0 .. arrived' /\ arrived' \notin direct
    BY <1>0, <1>n, <2>2 DEF OrderInv, NumberShape
  <2>6. \A d \in dropped : d < arrived'
    BY <1>0, <1>n, <2>2 DEF OrderInv, NumberShape
  <2>7. OrderInv'
    <3>1. \A i \in 1 .. Len(delivered) : delivered[i] <= arrived'
      BY <1>0, <1>n, <2>2 DEF OrderInv, NumberShape
    <3>2. \A k \in 1 .. Waiting' : Held'[k] <= arrived' /\ Held'[k] \notin direct
      <4>1. ASSUME NEW k \in 1 .. Waiting
            PROVE  Held[k] <= arrived + 1 /\ Held[k] \notin direct
        <5>1. Held[k] <= arrived /\ Held[k] \in Nat /\ Held[k] \notin direct
          BY <1>0, <1>m DEF OrderInv
        <5> QED
          BY <1>m, <5>1
      <4> QED
        BY <1>m, <2>2, <2>3, <2>4, <2>5, <4>1
    <3>3. \A i \in 1 .. Len(delivered), k \in 1 .. Waiting' :
              delivered[i] \notin direct => delivered[i] < Held'[k]
      <4>1. \A i \in 1 .. Len(delivered) : delivered[i] < arrived + 1
        BY <1>0, <1>m DEF OrderInv
      <4> QED
        BY <1>0, <2>3, <2>4, <4>1 DEF OrderInv
    <3>4. \A d \in dropped, k \in 1 .. Waiting' : d < Held'[k]
      BY <1>0, <2>2, <2>3, <2>4, <2>6 DEF OrderInv
    <3>5. \A j, k \in 1 .. Waiting' : j < k => Held'[j] < Held'[k]
      <4>1. \A j \in 1 .. Waiting : Held[j] < arrived + 1
        BY <1>0, <1>m DEF OrderInv
      <4>2. \A j, k \in 1 .. Waiting' : j < k => j \in 1 .. Waiting
        BY <1>m, <2>1
      <4> QED
        BY <1>0, <2>3, <2>4, <4>1, <4>2 DEF OrderInv
    <3> QED
      BY <1>0, <2>2, <2>5, <3>1, <3>2, <3>3, <3>4, <3>5 DEF OrderInv
  <2>8. CountInv'
    BY <1>0, <1>n, <1>c, <2>1, <2>2 DEF CountInv, NumberShape
  <2> QED
    BY <2>1, <2>7, <2>8
<1>2. ASSUME NEW from \in {"out", "drain"}, Take(from)
      PROVE  RingInv' /\ OrderInv' /\ CountInv'
  <2>1. /\ RingInv'
        /\ Waiting > 0 /\ Waiting' = Waiting - 1
        /\ Held # <<>> /\ Held[1] = rx_queue_[rx_tail_] /\ Held' = Tail(Held)
    BY <1>0, <1>2, TakeHeld
  <2>2. /\ delivered' = Append(delivered, Held[1])
        /\ UNCHANGED <<arrived, direct, overruns, dropped>>
    BY <1>2, <2>1 DEF Take
  <2>3. \A k \in 1 .. Waiting' : Held'[k] = Held[k + 1] /\ k + 1 \in 1 .. Waiting
    <3>1. Held \in Seq(0 .. MaxArrivals) /\ Len(Held) = Waiting
      BY <1>n DEF HeldShape
    <3>2. \A k \in 1 .. Waiting - 1 : Tail(Held)[k] = Held[k + 1]
      BY <2>1, <3>1, HeadTailProperties
    <3>3. Waiting' = Waiting - 1 /\ Waiting \in Nat
      BY <1>n, <2>1 DEF NumberShape
    <3>4. \A k \in 1 .. Waiting' : k \in 1 .. Waiting - 1 /\ k + 1 \in 1 .. Waiting
      BY <3>3
    <3> QED
      BY <2>1, <3>2, <3>4
  <2>4. /\ Len(delivered') = Len(delivered) + 1
        /\ \A i \in 1 .. Len(delivered) : delivered'[i] = delivered[i]
        /\ delivered'[Len(delivered) + 1] = Held[1]
    BY <1>n, <2>2, AppendProperties DEF NumberShape
  <2>5. \A i \in 1 .. Len(delivered') : i \in 1 .. Len(delivered) \/ i = Len(delivered) + 1
    BY <1>n, <2>4 DEF NumberShape
  <2>6. 1 \in 1 .. Waiting
    BY <1>n, <2>1 DEF NumberShape
  <2>7. OrderInv'
    <3>1. \A i \in 1 .. Len(delivered') : delivered'[i] <= arrived
      BY <1>0, <2>4, <2>5, <2>6 DEF OrderInv
    <3>2. \A k \in 1 .. Waiting' : Held'[k] <= arrived /\ Held'[k] \notin direct
      BY <1>0, <2>3 DEF OrderInv
    <3>3. \A i, j \in 1 .. Len(delivered') :
              i < j /\ delivered'[i] \notin direct /\ delivered'[j] \notin direct
                  => delivered'[i] < delivered'[j]
      <4>1. \A i, j \in 1 .. Len(delivered') : i < j => i \in 1 .. Len(delivered)
        BY <1>m, <2>4
      <4> QED
        BY <1>0, <2>4, <2>5, <2>6, <4>1 DEF OrderInv
    <3>4. \A k \in 1 .. Waiting' : Held[1] < Held'[k]
      <4>1. \A k \in 1 .. Waiting' : 1 < k + 1
        BY <1>n DEF NumberShape
      <4> QED
        BY <1>0, <2>3, <2>6, <4>1 DEF OrderInv
    <3>5. \A i \in 1 .. Len(delivered'), k \in 1 .. Waiting' :
              delivered'[i] \notin direct => delivered'[i] < Held'[k]
      BY <1>0, <2>3, <2>4, <2>5, <3>4 DEF OrderInv
    <3>6. \A d \in dropped, k \in 1 .. Waiting' : d < Held'[k]
      BY <1>0, <2>3 DEF OrderInv
    <3>7. \A j, k \in 1 .. Waiting' : j < k => Held'[j] < Held'[k]
      <4>1. \A j, k \in 1 .. Waiting' : j < k => j + 1 < k + 1
        BY <1>n DEF NumberShape
      <4> QED
        BY <1>0, <2>3, <4>1 DEF OrderInv
    <3> QED
      BY <1>0, <2>2, <3>1, <3>2, <3>3, <3>5, <3>6, <3>7 DEF OrderInv
  <2>8. CountInv'
    BY <1>0, <1>n, <1>c, <2>1, <2>2, <2>4 DEF CountInv, NumberShape
  <2> QED
    BY <2>1, <2>7, <2>8
<1>3. CASE Reset
  <2>1. /\ RingInv' /\ Waiting' = 0
        /\ dropped' = dropped \union {Held[k] : k \in 1 .. Waiting}
    BY <1>0, <1>3, ResetHeld
  <2>2. UNCHANGED <<arrived, delivered, direct, overruns>>
    BY <1>3 DEF Reset
  <2>3. dropped' \subseteq 0 .. arrived
    <3>1. \A k \in 1 .. Waiting : Held[k] \in 0 .. arrived
      BY <1>0, <1>n DEF OrderInv, NumberShape
    <3> QED
      BY <1>0, <2>1, <3>1 DEF OrderInv
  <2>4. 1 .. Waiting' = {}
    BY <2>1
  <2>5. OrderInv'
    BY <1>0, <2>2, <2>3, <2>4 DEF OrderInv
  <2>6. Cardinality(dropped') = Cardinality(dropped) + Waiting
    BY <1>0, <2>1, DroppedCount
  <2>7. CountInv'
    BY <1>0, <1>n, <1>c, <2>1, <2>2, <2>6 DEF CountInv, NumberShape
  <2> QED
    BY <2>1, <2>5, <2>7
<1>4. CASE Quiet
  <2>1. RingInv' /\ Waiting' = Waiting /\ Held' = Held
    BY <1>0, <1>4, QuietHeld
  <2>2. CASE QueueFull
    <3>1. /\ arrived' = arrived + 1 /\ overruns' = overruns + 1
          /\ UNCHANGED <<delivered, direct, dropped>>
      BY <2>2 DEF QueueFull
    <3>2. direct \subseteq 1 .. arrived' /\ dropped \subseteq 0 .. arrived'
      BY <1>0, <1>n, <3>1 DEF OrderInv, NumberShape
    <3>3. OrderInv'
      BY <1>0, <1>n, <2>1, <3>1, <3>2 DEF OrderInv, NumberShape
    <3>4. CountInv'
      <4>1. Len(delivered) + Waiting + Cardinality(dropped) + overruns = arrived
        BY <1>0 DEF CountInv
      <4>2. Len(delivered) \in Nat /\ Waiting \in Nat
        BY <1>m
      <4> QED
        BY <1>c, <2>1, <3>1, <4>1, <4>2 DEF CountInv
    <3> QED
      BY <2>1, <3>3, <3>4
  <2>3. CASE CallBack
    <3>1. /\ arrived' = arrived + 1 /\ delivered' = Append(delivered, arrived')
          /\ direct' = direct \union {arrived'}
          /\ UNCHANGED <<overruns, dropped>>
      BY <2>3 DEF CallBack
    <3>2. direct' \subseteq 1 .. arrived' /\ dropped \subseteq 0 .. arrived'
      BY <1>0, <1>n, <3>1 DEF OrderInv, NumberShape
    <3>3. /\ Len(delivered') = Len(delivered) + 1
          /\ \A i \in 1 .. Len(delivered) : delivered'[i] = delivered[i]
          /\ delivered'[Len(delivered) + 1] = arrived'
      BY <1>n, <3>1, AppendProperties DEF NumberShape
    <3>4. \A i \in 1 .. Len(delivered') : i \in 1 .. Len(delivered) \/ i = Len(delivered) + 1
      BY <1>n, <3>3 DEF NumberShape
    <3>5. OrderInv'
      BY <1>0, <1>n, <2>1, <3>1, <3>2, <3>3, <3>4 DEF OrderInv, NumberShape
    <3>6. CountInv'
      BY <1>0, <1>n, <1>c, <2>1, <3>1, <3>3 DEF CountInv, NumberShape
    <3> QED
      BY <2>1, <3>5, <3>6
  <2>4. CASE ~QueueFull /\ ~CallBack
    <3>1. UNCHANGED <<arrived, delivered, direct, overruns, dropped>>
      BY <1>4, <2>4 DEF Quiet, ProcessBegin, PollEnd, DrainEnd, MoveTail, LoadCount,
         StoreCount, QueueRxPayloads, ResetTail, ResetHead, observers, vars
    <3> QED
      BY <1>0, <2>1, <3>1 DEF OrderInv, CountInv
  <2> QED
    BY <2>2, <2>3, <2>4
<1> QED
  BY <1>1, <1>2, <1>3, <1>4 DEF Next, DrainTake, Receive, Quiet

LEMMA RxInvariant == Spec => []RxInv
<1>1. Init => RxInv
  <2> SUFFICES ASSUME Init PROVE RxInv
    OBVIOUS
  <2>1. ControlInv /\ HeldShape
    BY ControlInit, HeldFacts
  <2>2. /\ arrived = 0 /\ delivered = <<>> /\ direct = {} /\ overruns = 0 /\ dropped = {}
        /\ Len(delivered) = 0 /\ Waiting = 0 /\ main = "out" /\ First = 0
    BY DEF Init, Waiting, First, TakeStep
  <2>3. RingInv
    BY <2>2, RxQueueAssumption DEF Init, RingInv, Slot
  <2>4. OrderInv
    BY <2>2 DEF OrderInv
  <2>5. CountInv
    BY <2>2, FS_EmptySet DEF CountInv
  <2> QED
    BY <2>1, <2>3, <2>4, <2>5 DEF RxInv
<1>2. RxInv /\ [Next]_vars => RxInv'
  BY ControlInductive, OrderStep DEF RxInv
<1> QED
  BY <1>1, <1>2, PTL DEF Spec

\* Unless an interrupt came where the main loop undoes what it stores, the
\* payloads that go through the queue keep the order of their arrival.
THEOREM RxQueueKeepsOrder == Spec => []QueueKeepsOrder
<1>1. ASSUME RxInv PROVE QueueKeepsOrder
  <2> SUFFICES ASSUME ~raced,
                      NEW i \in 1 .. Len(delivered \o Held), NEW j \in 1 .. Len(delivered \o Held),
                      i < j, (delivered \o Held)[i] \notin direct,
                      (delivered \o Held)[j] \notin direct
               PROVE  (delivered \o Held)[i] < (delivered \o Held)[j]
    BY DEF QueueKeepsOrder
  <2> DEFINE s == delivered \o Held
             d == Len(delivered)
  <2>1. ControlInv /\ OrderInv
    BY <1>1 DEF RxInv
  <2>2. HeldShape /\ NumberShape
    BY <2>1, HeldFacts, NumberFacts
  <2>3. d \in Nat /\ Waiting \in Nat
    BY <2>2 DEF NumberShape
  <2>4. /\ Len(s) = d + Waiting
        /\ \A k \in 1 .. d : s[k] = delivered[k]
        /\ \A k \in d + 1 .. d + Waiting : s[k] = Held[k - d]
    <3>1. /\ Len(s) = d + Waiting
          /\ \A k \in 1 .. d + Waiting : s[k] = IF k <= d THEN delivered[k] ELSE Held[k - d]
      BY <2>2, ConcatProperties DEF HeldShape, NumberShape
    <3> HIDE DEF s, d
    <3> QED
      BY <2>3, <3>1
  <2>5. i \in 1 .. d \/ (i \in d + 1 .. d + Waiting /\ i - d \in 1 .. Waiting)
    BY <2>3, <2>4
  <2>6. j \in 1 .. d \/ (j \in d + 1 .. d + Waiting /\ j - d \in 1 .. Waiting)
    BY <2>3, <2>4
  <2>7. i \notin 1 .. d => j \notin 1 .. d /\ i - d < j - d
    BY <2>3, <2>4
  <2> QED
    BY <2>1, <2>4, <2>5, <2>6, <2>7 DEF OrderInv
<1> QED
  BY <1>1, RxInvariant, PTL

\* Under the same condition no payload is lost but to an overrun or a reset().
THEOREM RxQueueAllAccountedFor == Spec => []AllAccountedFor
<1>1. RxInv => AllAccountedFor
  <2>1. ControlInv => Len(Held) = Waiting
    BY HeldFacts DEF HeldShape
  <2> QED
    BY <2>1 DEF RxInv, CountInv, AllAccountedFor
<1> QED
  BY <1>1, RxInvariant, PTL
--------------------------------------------------------------------------------
(* The refinement *)

LEMMA ConsAppend ==
    ASSUME NEW S, NEW x \in S, NEW s \in Seq(S), NEW y \in S
    PROVE  <<x>> \o Append(s, y) = Append(<<x>> \o s, y)
OBVIOUS

LEMMA ConsHeadTail ==
    ASSUME NEW S, NEW x \in S, NEW s \in Seq(S)
    PROVE  /\ <<x>> \o s # <<>>
           /\ Head(<<x>> \o s) = x
           /\ Tail(<<x>> \o s) = s
OBVIOUS

LEMMA ConsOfHeadTail ==
    ASSUME NEW S, NEW s \in Seq(S), s # <<>>
    PROVE  <<s[1]>> \o Tail(s) = s
OBVIOUS

LEMMA FrontAppend ==
    ASSUME NEW S, NEW s \in Seq(S), NEW x \in S
    PROVE  SubSeq(Append(s, x), 1, Len(Append(s, x)) - 1) = s
OBVIOUS

LEMMA FrontLast ==
    ASSUME NEW S, NEW s \in Seq(S), s # <<>>
    PROVE  Append(SubSeq(s, 1, Len(s) - 1), s[Len(s)]) = s
OBVIOUS

\* As much is stored as the count says: a payload keeps its slot until it is given back.
LEMMA StoredFacts ==
    ASSUME ControlInv
    PROVE  /\ Stored \in Seq(0 .. MaxArrivals)
           /\ Len(Stored) = rx_count_
           /\ Taking => delivered[Len(delivered)] \in 0 .. MaxArrivals /\ delivered # <<>>
<1>h. HeldShape /\ delivered \in Seq(0 .. MaxArrivals) /\ rx_count_ \in 0 .. Depth
  BY HeldFacts DEF ControlInv, TypeOK
<1>1. CASE ~Taking
  BY <1>h, <1>1 DEF HeldShape, Stored, Taking, Waiting
<1>2. CASE Taking
  <2>1. delivered # <<>> /\ rx_count_ > 0 /\ Waiting = rx_count_ - 1
    BY <1>2 DEF ControlInv, Taking, Waiting
  <2>2. Len(delivered) \in 1 .. Len(delivered)
    BY <1>h, <2>1
  <2>3. delivered[Len(delivered)] \in 0 .. MaxArrivals
    BY <1>h, <2>2, ElementOfSeq
  <2>4. <<delivered[Len(delivered)]>> \in Seq(0 .. MaxArrivals)
    BY <2>3
  <2>5. /\ Stored \in Seq(0 .. MaxArrivals)
        /\ Len(Stored) = 1 + Len(Held)
    BY <1>2, <1>h, <2>4, ConcatProperties DEF Stored, HeldShape
  <2>6. 1 + Len(Held) = rx_count_
    BY <1>h, <2>1, RxQueueAssumption DEF HeldShape
  <2> QED
    BY <2>1, <2>3, <2>5, <2>6
<1> QED
  BY <1>1, <1>2

\* Where nothing races, each step of the queue but a reset() is a step of the
\* abstract store, or invisible to it: what a payload is worth to the application
\* it has got when the count is stored.
LEMMA FifoStep ==
    ASSUME RxInv, RxInv', [Next]_vars
    PROVE  [has_cb \/ raced' \/ resets' # resets \/ Fifo!Next]_(Fifo!vars)
<1> SUFFICES ASSUME ~has_cb, ~raced', resets' = resets
             PROVE  [Fifo!Next]_(Fifo!vars)
  OBVIOUS
<1> USE RxQueueAssumption
<1>0. ~raced /\ ~Reset
  BY DEF Next, QueuePayload, QueueFull, CallBack, ProcessBegin, PollEnd, DrainEnd,
         DrainTake, Receive, Take, MoveTail, LoadCount, StoreCount, QueueRxPayloads,
         Reset, ResetTail, ResetHead, observers, vars, RxInv, ControlInv, TypeOK
<1>1. ControlInv /\ ControlInv' /\ RingInv
  BY <1>0 DEF RxInv
<1>h. HeldShape /\ HeldShape' /\ delivered \in Seq(0 .. MaxArrivals)
  BY <1>1, HeldFacts, PTL DEF ControlInv, TypeOK
<1>s. /\ Stored \in Seq(0 .. MaxArrivals)
      /\ Len(Stored) = rx_count_
      /\ Taking => delivered[Len(delivered)] \in 0 .. MaxArrivals /\ delivered # <<>>
  BY <1>1, StoredFacts
<1>2. CASE QueuePayload
  <2>1. Held' = Append(Held, arrived + 1)
    BY <1>1, <1>2, QueuePayloadHeld
  <2>2. UNCHANGED <<main, delivered>>
    BY <1>2 DEF QueuePayload
  <2>3. Taking' = Taking /\ Released' = Released
    BY <2>2 DEF Taking, Released
  <2>4. Stored' = Append(Stored, arrived + 1)
    <3>1. arrived + 1 \in 0 .. MaxArrivals
      BY <1>1, <1>2 DEF QueuePayload, MayArrive, ControlInv, TypeOK
    <3>2. CASE Taking
      <4>1. <<delivered[Len(delivered)]>> \o Append(Held, arrived + 1)
              = Append(<<delivered[Len(delivered)]>> \o Held, arrived + 1)
        <5>1. delivered[Len(delivered)] \in 0 .. MaxArrivals
          BY <1>s, <3>2
        <5>2. Held \in Seq(0 .. MaxArrivals)
          BY <1>h DEF HeldShape
        <5> QED
          BY <3>1, <5>1, <5>2, ConsAppend
      <4> QED
        BY <2>1, <2>2, <2>3, <3>2, <4>1 DEF Stored
    <3>3. CASE ~Taking
      BY <2>1, <2>3, <3>3 DEF Stored
    <3> QED
      BY <3>2, <3>3
  <2> QED
    BY <1>2, <1>s, <2>3, <2>4 DEF QueuePayload, MayArrive, Fifo!Next, Fifo!Accept
<1>3. ASSUME NEW from \in {"out", "drain"}, Take(from)
      PROVE  [Fifo!Next]_(Fifo!vars)
  <2>1. Held # <<>> /\ Held[1] = rx_queue_[rx_tail_] /\ Held' = Tail(Held)
    BY <1>1, <1>3, TakeHeld
  <2>2. /\ ~Taking /\ Taking' /\ delivered' = Append(delivered, Held[1])
        /\ UNCHANGED <<arrived, overruns>>
    BY <1>3, <2>1 DEF Take, Taking, TakeStep
  <2>3. Held[1] \in 0 .. MaxArrivals
    <3>1. 1 \in 1 .. Len(Held)
      BY <1>h, <2>1 DEF HeldShape
    <3> QED
      BY <1>h, <3>1, ElementOfSeq DEF HeldShape
  <2>4. Released' = Released
    BY <1>h, <2>2, <2>3, FrontAppend DEF Released
  <2>5. delivered'[Len(delivered')] = Held[1]
    BY <1>h, <2>2, <2>3
  <2>6. Stored' = Stored
    BY <1>h, <2>1, <2>2, <2>5, ConsOfHeadTail DEF Stored, HeldShape
  <2> QED
    BY <2>2, <2>4, <2>6 DEF Fifo!vars
<1>4. CASE Quiet
  <2>1. Held' = Held
    BY <1>1, <1>4, QuietHeld
  <2>2. CASE QueueFull
    <3>1. UNCHANGED <<main, delivered>>
      BY <2>2 DEF QueueFull
    <3>2. Stored' = Stored /\ Released' = Released
      BY <2>1, <3>1 DEF Stored, Released, Taking
    <3>3. Len(Stored) = Depth
      BY <1>1, <1>s, <2>2 DEF QueueFull, ControlInv, TypeOK
    <3> QED
      BY <2>2, <3>2, <3>3 DEF QueueFull, MayArrive, Fifo!Next, Fifo!Drop
  <2>3. CASE StoreCount
    <3>1. Taking /\ ~Taking' /\ UNCHANGED <<arrived, delivered, overruns>>
      BY <1>1, <2>3 DEF StoreCount, Taking, TakeStep, ControlInv, TypeOK, observers
    <3>2. Stored = <<delivered[Len(delivered)]>> \o Held /\ Stored' = Held
      BY <2>1, <3>1 DEF Stored
    <3>3. /\ Stored # <<>>
          /\ Head(Stored) = delivered[Len(delivered)]
          /\ Stored' = Tail(Stored)
      BY <1>h, <1>s, <3>1, <3>2, ConsHeadTail DEF HeldShape
    <3>4. Released' = Append(Released, delivered[Len(delivered)])
      BY <1>h, <1>s, <3>1, FrontLast DEF Released
    <3> QED
      BY <3>1, <3>3, <3>4 DEF Fifo!Next, Fifo!Deliver
  <2>4. CASE ~QueueFull /\ ~StoreCount
    <3>1. ~CallBack
      BY DEF CallBack, Queueing
    <3>2. UNCHANGED <<arrived, delivered, overruns>> /\ Taking' = Taking
      BY <1>4, <2>4, <3>1 DEF Quiet, ProcessBegin, PollEnd, DrainEnd, MoveTail,
         LoadCount, QueueRxPayloads, ResetTail, ResetHead, observers, vars,
         Taking, TakeStep
    <3> QED
      BY <2>1, <3>2 DEF Stored, Released, Fifo!vars
  <2> QED
    BY <2>2, <2>3, <2>4
<1> QED
  BY <1>0, <1>2, <1>3, <1>4 DEF Next, DrainTake, Receive, Quiet

\* Without a callback, resets and races the queue implements the bounded store.
THEOREM RxQueueImplementsFifo == Spec => FifoSpec
<1>1. Init => Fifo!Init
  <2> SUFFICES ASSUME Init PROVE Fifo!Init
    OBVIOUS
  <2>1. Held = <<>>
    BY DEF Init, Held, TakeStep
  <2> QED
    BY <2>1 DEF Init, Fifo!Init, Stored, Released, Taking, TakeStep
<1> QED
  BY <1>1, RxInvariant, FifoStep, PTL DEF Spec, FifoSpec
================================================================================
