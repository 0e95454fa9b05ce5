------------------------------ MODULE AdapterProofs ----------------------------
(***************************************************************************)
(* The adapters that pass bytes between the HAL and a link.                 *)
(*                                                                          *)
(* RxRing implements BoundedFifo, for every ring size and every number of   *)
(* arrivals: the lock-free ring never loses a byte while it has room, and   *)
(* never repeats, tears or reorders one.                                    *)
(*                                                                          *)
(* The DE line of RS485Adapter is right, in both modes, for every frame     *)
(* length and in spite of any number of errors, as long as the application  *)
(* never begins a send() before the last one is done.                       *)
(***************************************************************************)
EXTENDS RxRing, Rs485Adapter, SequenceTheorems, TLAPS

--------------------------------------------------------------------------------
(* RxRing *)

\* The inductive invariant.  Each side has looked at the other's index before
\* it moves on, and the other side can only have moved away since: a free slot
\* stays free while push_rx_byte_ runs, a filled one filled while pop_rx_byte_
\* does; and what a side has stored or loaded is still what it means to pass on.
RingInv ==
    /\ TypeOK
    /\ overruns <= arrived
    /\ isr # "out" => Succ(head) # tail
    /\ isr = "publish" => buffer[head] = arrived
    /\ loop \in {"load", "release"} => head # tail
    /\ loop = "release" => popped = buffer[tail]

\* Succ is the successor on the circle of slots.
LEMMA SuccIsNext ==
    ASSUME NEW i \in Slots
    PROVE  Succ(i) = IF i = Size - 1 THEN 0 ELSE i + 1
BY RingAssumption DEF Slots, Succ

LEMMA SuccFacts ==
    ASSUME NEW i \in Slots, NEW j \in Slots
    PROVE  /\ Succ(i) \in Slots
           /\ i # j => Succ(i) # Succ(j)
BY RingAssumption, SuccIsNext DEF Slots

LEMMA RingInductive == RingInv /\ [Next]_vars => RingInv'
<1> SUFFICES ASSUME RingInv, [Next]_vars PROVE RingInv'
  OBVIOUS
<1> USE RingAssumption
<1>t. head \in Slots /\ tail \in Slots
  BY DEF RingInv, TypeOK
<1>1. CASE PushBegin
  BY <1>1 DEF PushBegin, RingInv, TypeOK, Slots, ringVars
<1>2. CASE PushOverrun
  BY <1>2 DEF PushOverrun, RingInv, TypeOK, Slots
<1>3. CASE PushStore
  BY <1>3 DEF PushStore, RingInv, TypeOK, Slots
<1>4. CASE PushPublish
  <2>1. head' \in Slots
    BY <1>4, <1>t, SuccFacts DEF PushPublish
  <2> QED
    BY <1>4, <2>1 DEF PushPublish, RingInv, TypeOK
<1>5. CASE PopBegin
  BY <1>5 DEF PopBegin, RingInv, TypeOK, Slots, ringVars
<1>6. CASE PopLoad
  BY <1>6 DEF PopLoad, RingInv, TypeOK, Slots, ringVars
<1>7. CASE PopRelease
  <2>1. tail' \in Slots
    BY <1>7, <1>t, SuccFacts DEF PopRelease
  <2>2. Succ(head) # tail'
    BY <1>7, <1>t, SuccFacts DEF PopRelease, RingInv
  <2> QED
    BY <1>7, <2>1, <2>2 DEF PopRelease, RingInv, TypeOK
<1>8. CASE Handle
  BY <1>8 DEF Handle, RingInv, TypeOK, Slots, ringVars
<1>9. CASE UNCHANGED vars
  BY <1>9 DEF vars, RingInv, TypeOK
<1> QED
  BY <1>1, <1>2, <1>3, <1>4, <1>5, <1>6, <1>7, <1>8, <1>9
  DEF Next, Interrupt, Poll

LEMMA RingInvariant == Spec => []RingInv
<1>1. Init => RingInv
  BY RingAssumption DEF Init, RingInv, TypeOK, Slots
<1> QED
  BY <1>1, RingInductive, PTL DEF Spec

\* The type invariant of the ring.
THEOREM RingTypeCorrect == Spec => []TypeOK
BY RingInvariant, PTL DEF RingInv

\* The interrupt never stores into the slot that pop_rx_byte_ is reading.
THEOREM RingNoSlotRace == Spec => []NoSlotRace
<1>1. RingInv => NoSlotRace
  BY DEF RingInv, NoSlotRace
<1> QED
  BY <1>1, RingInvariant, PTL
--------------------------------------------------------------------------------
(* The refinement *)

\* Which slots hold the bytes between tail and head.
CountShape ==
    /\ Count \in 0 .. Size - 1
    /\ \A k \in 0 .. Count - 1 : Slot(k) \in Slots /\ Slot(k) # head
    /\ Slot(Count) = head
    /\ Count = Size - 1 <=> Succ(head) = tail
    /\ Count = 0 <=> tail = head

LEMMA CountFacts == TypeOK => CountShape
<1> SUFFICES ASSUME TypeOK PROVE CountShape
  OBVIOUS
<1>1. Succ(head) = IF head = Size - 1 THEN 0 ELSE head + 1
  BY SuccIsNext DEF TypeOK
<1> QED
  BY <1>1, RingAssumption DEF TypeOK, Slots, Count, Slot, CountShape

LEMMA FunctionIsSeq ==
    ASSUME NEW S, NEW n \in Nat, NEW f \in [1 .. n -> S]
    PROVE  f \in Seq(S) /\ Len(f) = n
OBVIOUS

\* What the sequences of the refinement mapping hold.
SeqShape ==
    /\ Contents \in Seq(0 .. MaxArrivals)
    /\ Len(Contents) = Count
    /\ \A k \in 1 .. Count : Contents[k] = buffer[Slot(k - 1)]
    /\ Pending \in Seq(0 .. MaxArrivals)
    /\ Len(Stored) = IF isr = "out" THEN Count ELSE Count + 1

LEMMA SeqFacts == TypeOK => SeqShape
<1> SUFFICES ASSUME TypeOK PROVE SeqShape
  OBVIOUS
<1>c. Count \in Nat /\ \A k \in 1 .. Count : Slot(k - 1) \in Slots
  BY CountFacts, RingAssumption DEF CountShape
<1>1. \A k \in 1 .. Count : buffer[Slot(k - 1)] \in 0 .. MaxArrivals
  BY <1>c DEF TypeOK
<1>2. Contents \in [1 .. Count -> 0 .. MaxArrivals]
  BY <1>1 DEF Contents
<1>3. Contents \in Seq(0 .. MaxArrivals) /\ Len(Contents) = Count
  BY <1>c, <1>2, FunctionIsSeq
<1>4. \A k \in 1 .. Count : Contents[k] = buffer[Slot(k - 1)]
  BY DEF Contents
<1>5. /\ Pending \in Seq(0 .. MaxArrivals)
      /\ Len(Pending) = IF isr = "out" THEN 0 ELSE 1
  <2>1. CASE isr = "out"
    BY <2>1 DEF Pending
  <2>2. CASE isr # "out"
    BY <2>2 DEF Pending, TypeOK
  <2> QED
    BY <2>1, <2>2
<1>6. Len(Stored) = Len(Contents) + Len(Pending)
  BY <1>3, <1>5, ConcatProperties DEF Stored
<1> QED
  BY <1>c, <1>3, <1>4, <1>5, <1>6 DEF SeqShape

\* Taking the head of a concatenation whose first part is not empty.
LEMMA HeadTailConcat ==
    ASSUME NEW S, NEW s \in Seq(S), NEW t \in Seq(S), s # <<>>
    PROVE  /\ s \o t # <<>>
           /\ Head(s \o t) = Head(s)
           /\ Tail(s \o t) = Tail(s) \o t
<1>1. Len(s) \in Nat \ {0}
  OBVIOUS
<1> QED
  BY <1>1

\* Every step of the ring is a step of the abstract buffer, or invisible to it.
LEMMA RingStep ==
    ASSUME RingInv, RingInv', [Next]_vars
    PROVE  [Fifo!Next]_Fifo!vars
<1> USE RingAssumption
<1>t. TypeOK /\ TypeOK'
  BY DEF RingInv
<1>c. CountShape /\ CountShape'
  BY <1>t, CountFacts, PTL
<1>s. SeqShape /\ SeqShape'
  BY <1>t, SeqFacts, PTL
<1>d. delivered \in Seq(0 .. MaxArrivals) /\ popped \in 0 .. MaxArrivals
  BY <1>t DEF TypeOK
<1>1. CASE PushBegin
  <2>1. Contents' = Contents /\ Delivered' = Delivered
    BY <1>1 DEF PushBegin, Contents, Count, Slot, Delivered, InHand, ringVars
  <2>2. Stored = Contents /\ Stored' = Append(Contents, arrived + 1)
    <3>1. Pending = <<>> /\ Pending' = <<arrived + 1>>
      BY <1>1 DEF PushBegin, Pending
    <3> QED
      BY <2>1, <3>1, <1>s DEF Stored, SeqShape
  <2>3. Len(Stored) < Size - 1
    BY <1>1, <1>c, <1>s DEF PushBegin, CountShape, SeqShape
  <2> QED
    BY <1>1, <2>1, <2>2, <2>3 DEF PushBegin, Fifo!Next, Fifo!Accept, ringVars
<1>2. CASE PushOverrun
  <2>1. Stored' = Stored /\ Delivered' = Delivered
    BY <1>2 DEF PushOverrun, Stored, Contents, Count, Slot, Pending, Delivered, InHand
  <2>2. Len(Stored) = Size - 1
    BY <1>2, <1>c, <1>s DEF PushOverrun, CountShape, SeqShape
  <2> QED
    BY <1>2, <2>1, <2>2 DEF PushOverrun, Fifo!Next, Fifo!Drop
<1>3. CASE PushStore
  <2>1. Count' = Count /\ \A k \in 0 .. Count - 1 : Slot(k)' = Slot(k)
    BY <1>3 DEF PushStore, Count, Slot
  <2>2. ASSUME NEW k \in 1 .. Count
        PROVE  Contents'[k] = Contents[k]
    <3>1. Slot(k - 1) \in Slots /\ Slot(k - 1) # head /\ Slot(k - 1)' = Slot(k - 1)
      BY <1>c, <2>1 DEF CountShape
    <3>2. buffer'[Slot(k - 1)'] = buffer[Slot(k - 1)]
      BY <1>3, <1>t, <3>1 DEF PushStore, TypeOK
    <3> QED
      BY <1>s, <2>1, <3>2 DEF SeqShape
  <2>3. Contents' = Contents
    BY <1>s, <2>1, <2>2, SeqEqual DEF SeqShape
  <2>4. Stored' = Stored /\ Delivered' = Delivered
    BY <1>3, <2>3 DEF PushStore, Stored, Pending, Delivered, InHand
  <2> QED
    BY <1>3, <2>4 DEF PushStore, Fifo!vars
<1>4. CASE PushPublish
  <2>1. Count' = Count + 1 /\ \A k \in 0 .. Count : Slot(k)' = Slot(k)
    <3>1. head' = (IF head = Size - 1 THEN 0 ELSE head + 1) /\ head' # tail
      BY <1>4, <1>t, SuccIsNext DEF PushPublish, RingInv, TypeOK
    <3>2. head \in 0 .. Size - 1 /\ tail \in 0 .. Size - 1 /\ tail' = tail
      BY <1>4, <1>t DEF PushPublish, TypeOK, Slots
    <3> QED
      BY <3>1, <3>2 DEF Count, Slot
  <2>2. Len(Append(Contents, arrived)) = Count + 1
    BY <1>s DEF SeqShape
  <2>3. ASSUME NEW k \in 1 .. Count + 1
        PROVE  Contents'[k] = Append(Contents, arrived)[k]
    <3>0. Count \in Nat /\ Slot(k - 1)' = Slot(k - 1)
      BY <1>c, <2>1, RingAssumption DEF CountShape
    <3>1. Contents'[k] = buffer[Slot(k - 1)]
      BY <1>4, <1>s, <2>1, <3>0 DEF PushPublish, SeqShape
    <3>2. CASE k \in 1 .. Count
      BY <1>s, <3>1, <3>2 DEF SeqShape
    <3>3. CASE k = Count + 1
      <4>1. Slot(k - 1) = head
        BY <1>c, <3>0, <3>3 DEF CountShape
      <4> QED
        BY <1>4, <1>s, <3>1, <3>3, <4>1 DEF PushPublish, RingInv, SeqShape
    <3>4. Count \in Nat
      BY <3>0
    <3>5. k \in 1 .. Count \/ k = Count + 1
      BY <3>4
    <3> QED
      BY <3>2, <3>3, <3>5
  <2>4. Contents' = Append(Contents, arrived)
    <3>1. Append(Contents, arrived) \in Seq(0 .. MaxArrivals)
      BY <1>s, <1>t, AppendProperties DEF SeqShape, TypeOK
    <3> QED
      BY <1>s, <2>1, <2>2, <2>3, <3>1, SeqEqual DEF SeqShape
  <2>5. Stored' = Stored /\ Delivered' = Delivered
    <3>1. Pending = <<arrived>> /\ Pending' = <<>>
      BY <1>4 DEF PushPublish, Pending
    <3>2. Delivered' = Delivered
      BY <1>4 DEF PushPublish, Delivered, InHand
    <3> QED
      BY <1>s, <2>4, <3>1, <3>2 DEF Stored, SeqShape
  <2> QED
    BY <1>4, <2>5 DEF PushPublish, Fifo!vars
<1>5. CASE PopBegin
  BY <1>5 DEF PopBegin, Fifo!vars, Stored, Contents, Count, Slot, Pending,
              Delivered, InHand, ringVars
<1>6. CASE PopLoad
  BY <1>6 DEF PopLoad, Fifo!vars, Stored, Contents, Count, Slot, Pending,
              Delivered, InHand, ringVars
<1>7. CASE PopRelease
  <2>1. Count > 0 /\ Count \in Nat
    BY <1>7, <1>c, RingAssumption DEF PopRelease, RingInv, CountShape
  <2>2. Count' = Count - 1 /\ \A k \in 0 .. Count - 2 : Slot(k)' = Slot(k + 1)
    <3>1. tail' = (IF tail = Size - 1 THEN 0 ELSE tail + 1) /\ head # tail
      BY <1>7, <1>t, SuccIsNext DEF PopRelease, RingInv, TypeOK
    <3>2. head \in 0 .. Size - 1 /\ tail \in 0 .. Size - 1 /\ head' = head
      BY <1>7, <1>t DEF PopRelease, TypeOK, Slots
    <3> QED
      BY <3>1, <3>2 DEF Count, Slot
  <2>3. Contents # <<>> /\ Head(Contents) = popped
    <3>1. Slot(0) = tail
      BY <1>t DEF Slot, TypeOK, Slots
    <3>2. Contents[1] = popped
      BY <1>7, <1>s, <2>1, <3>1 DEF PopRelease, RingInv, SeqShape
    <3> QED
      BY <1>s, <2>1, <3>2 DEF SeqShape
  <2>4. Contents' = Tail(Contents)
    <3>1. /\ Tail(Contents) \in Seq(0 .. MaxArrivals)
          /\ Len(Tail(Contents)) = Count - 1
          /\ \A k \in 1 .. Count - 1 : Tail(Contents)[k] = Contents[k + 1]
      BY <1>s, <2>3, HeadTailProperties DEF SeqShape
    <3>2. ASSUME NEW k \in 1 .. Count - 1
          PROVE  Contents'[k] = Tail(Contents)[k]
      <4>1. Slot(k - 1)' = Slot(k)
        BY <2>1, <2>2
      <4>2. Contents'[k] = buffer[Slot(k)]
        BY <1>7, <1>s, <2>1, <2>2, <4>1 DEF PopRelease, SeqShape
      <4>3. Contents[k + 1] = buffer[Slot(k)]
        BY <1>s, <2>1 DEF SeqShape
      <4> QED
        BY <3>1, <4>2, <4>3
    <3> QED
      BY <1>s, <2>2, <3>1, <3>2, SeqEqual DEF SeqShape
  <2>5. Pending' = Pending /\ Delivered' = delivered \o <<popped>> /\ Delivered = delivered
    BY <1>7, <1>d DEF PopRelease, Pending, Delivered, InHand
  <2>6. Delivered' = Append(Delivered, popped)
    BY <1>d, <2>5
  <2>7. Stored # <<>> /\ Head(Stored) = popped /\ Stored' = Tail(Stored)
    BY <1>s, <2>3, <2>4, <2>5, HeadTailConcat DEF Stored, SeqShape
  <2> QED
    BY <1>7, <2>6, <2>7 DEF PopRelease, Fifo!Next, Fifo!Deliver
<1>8. CASE Handle
  <2>1. Stored' = Stored
    BY <1>8 DEF Handle, Stored, Contents, Count, Slot, Pending, ringVars
  <2>2. Delivered' = Delivered
    BY <1>8, <1>d DEF Handle, Delivered, InHand
  <2> QED
    BY <1>8, <2>1, <2>2 DEF Handle, Fifo!vars, ringVars
<1>9. CASE UNCHANGED vars
  BY <1>9 DEF vars, Fifo!vars, Stored, Contents, Count, Slot, Pending, Delivered,
              InHand
<1> QED
  BY <1>1, <1>2, <1>3, <1>4, <1>5, <1>6, <1>7, <1>8, <1>9
  DEF Next, Interrupt, Poll

\* The lock-free ring implements the drop-newest FIFO of Size - 1 bytes.
THEOREM RingImplementsFifo == Spec => FifoSpec
<1>1. Init => Fifo!Init
  BY RingAssumption DEF Init, Fifo!Init, Stored, Contents, Count, Pending, Delivered, InHand
<1> QED
  BY <1>1, RingInvariant, RingStep, PTL DEF Spec, FifoSpec, Fifo!Spec

--------------------------------------------------------------------------------
(* What every behaviour of the bounded FIFO guarantees, over the variables of *)
(* the ring                                                                   *)

\* The inductive invariant: the count of losses is bounded by the arrivals only
\* because no arrival is both lost and in the history, and the next arrival is
\* newer than the whole history.
Upto == \A i \in 1..Len(Fifo!History) : Fifo!History[i] <= arrived

FifoInv == Fifo!TypeOK /\ Fifo!InOrderOnce /\ Upto

\* Moving the head of one sequence to the end of another leaves what the two
\* hold together unchanged.
LEMMA MoveHead ==
    ASSUME NEW S, NEW d \in Seq(S), NEW s \in Seq(S), s # <<>>
    PROVE  Append(d, Head(s)) \o Tail(s) = d \o s
  OBVIOUS

\* Appending a number above all those of an increasing sequence keeps it so.
LEMMA AppendNewer ==
    ASSUME NEW h \in Seq(Nat), NEW n \in Nat, Fifo!Increasing(h),
           \A i \in 1..Len(h) : h[i] <= n
    PROVE  /\ Fifo!Increasing(Append(h, n + 1))
           /\ \A i \in 1..Len(Append(h, n + 1)) : Append(h, n + 1)[i] <= n + 1
<1> DEFINE g == Append(h, n + 1)
<1>1. Len(g) = Len(h) + 1 /\ Len(h) \in Nat
  OBVIOUS
<1>2. \A i \in 1..Len(h) : g[i] = h[i] /\ h[i] \in Nat
  OBVIOUS
<1>3. g[Len(h) + 1] = n + 1
  OBVIOUS
<1>4. \A i \in 1..Len(g) : i \in 1..Len(h) \/ i = Len(h) + 1
  BY <1>1
<1> HIDE DEF g
<1>5. \A i \in 1..Len(g) : g[i] <= n + 1
  BY <1>1, <1>2, <1>3, <1>4
<1>6. Fifo!Increasing(g)
  BY <1>1, <1>2, <1>3, <1>4 DEF Fifo!Increasing
<1> QED
  BY <1>5, <1>6 DEF g

LEMMA FifoConstants == Fifo!FifoAssumption
BY RingAssumption DEF Fifo!FifoAssumption

LEMMA FifoInductive == FifoInv /\ [Fifo!Next]_Fifo!vars => FifoInv'
<1> SUFFICES ASSUME FifoInv, [Fifo!Next]_Fifo!vars PROVE FifoInv'
  OBVIOUS
<1> USE FifoConstants DEF Fifo!FifoAssumption
<1>t. /\ arrived \in Nat
      /\ overruns \in Nat
      /\ Delivered \in Seq(0..MaxArrivals)
      /\ Stored \in Seq(0..MaxArrivals)
      /\ Fifo!History \in Seq(0..MaxArrivals)
      /\ Fifo!History \in Seq(Nat)
      /\ Len(Fifo!History) \in Nat
  BY DEF FifoInv, Fifo!TypeOK, Fifo!History
<1>n. arrived \in Nat /\ overruns \in Nat /\ Len(Fifo!History) \in Nat
  BY <1>t
<1>s. Len(Fifo!History) + overruns = arrived
  BY DEF FifoInv, Fifo!InOrderOnce
<1>1. CASE Fifo!Accept
  <2>1. Fifo!History' = Append(Fifo!History, arrived + 1)
    BY <1>1, <1>t DEF Fifo!Accept, Fifo!History
  <2>2. Fifo!TypeOK'
    BY <1>1, <1>t DEF FifoInv, Fifo!TypeOK, Fifo!Accept
  <2>3. Fifo!Increasing(Fifo!History') /\ Upto'
    BY <1>1, <1>t, <2>1, AppendNewer DEF FifoInv, Fifo!InOrderOnce, Upto, Fifo!Accept
  <2>4. Len(Fifo!History') + overruns' = arrived'
    <3>1. Len(Fifo!History') = Len(Fifo!History) + 1
      BY <2>1, <1>t
    <3>2. overruns' = overruns /\ arrived' = arrived + 1
      BY <1>1 DEF Fifo!Accept
    <3> QED
      BY <1>n, <1>s, <3>1, <3>2
  <2> QED
    BY <2>2, <2>3, <2>4 DEF FifoInv, Fifo!InOrderOnce
<1>2. CASE Fifo!Drop
  <2>1. Fifo!History' = Fifo!History
    BY <1>2 DEF Fifo!Drop, Fifo!History
  <2>2. Len(Fifo!History') + overruns' = arrived'
    <3>1. Len(Fifo!History') = Len(Fifo!History)
      BY <2>1
    <3> QED
      BY <1>2, <1>t, <1>s, <3>1 DEF Fifo!Drop
  <2>3. Fifo!TypeOK'
    BY <1>2, <1>t, <2>1, <2>2 DEF FifoInv, Fifo!TypeOK, Fifo!Drop
  <2>4. \A i \in 1..Len(Fifo!History) : Fifo!History[i] <= arrived'
    BY <1>2, <1>t DEF FifoInv, Upto, Fifo!Drop
  <2> QED
    BY <2>1, <2>2, <2>3, <2>4 DEF FifoInv, Fifo!InOrderOnce, Upto
<1>3. CASE Fifo!Deliver
  <2>1. Fifo!History' = Fifo!History
    BY <1>3, <1>t, MoveHead DEF Fifo!Deliver, Fifo!History
  <2>2. Fifo!TypeOK'
    BY <1>3 DEF FifoInv, Fifo!TypeOK, Fifo!Deliver
  <2> QED
    BY <1>3, <2>1, <2>2 DEF FifoInv, Fifo!InOrderOnce, Upto, Fifo!Deliver
<1>4. CASE UNCHANGED Fifo!vars
  BY <1>4 DEF FifoInv, Fifo!TypeOK, Fifo!InOrderOnce, Upto, Fifo!History, Fifo!vars
<1> QED
  BY <1>1, <1>2, <1>3, <1>4 DEF Fifo!Next

LEMMA FifoInvariant == Fifo!Spec => []FifoInv
<1>1. Fifo!Init => FifoInv
  <2> SUFFICES ASSUME Fifo!Init PROVE FifoInv
    OBVIOUS
  <2>1. Fifo!TypeOK
    BY FifoConstants DEF Fifo!FifoAssumption, Fifo!Init, Fifo!TypeOK
  <2>2. Fifo!History = <<>> /\ Len(Fifo!History) = 0
    BY DEF Fifo!Init, Fifo!History
  <2>3. \A i \in 1..Len(Fifo!History) : FALSE
    BY <2>2
  <2> QED
    BY <2>1, <2>2, <2>3 DEF Fifo!Init, FifoInv, Fifo!InOrderOnce, Fifo!Increasing, Upto
<1> QED
  BY <1>1, FifoInductive, PTL DEF Fifo!Spec

\* The type invariant of the abstract receive buffer.
THEOREM FifoTypeCorrect == Fifo!Spec => []Fifo!TypeOK
BY FifoInvariant, PTL DEF FifoInv

\* In every behaviour of the bounded FIFO arrivals are delivered in the order of the
\* wire, each at most once, and every one is delivered, held or counted as lost.
THEOREM FifoInOrderOnce == Fifo!Spec => []Fifo!InOrderOnce
BY FifoInvariant, PTL DEF FifoInv

\* So bytes reach the handler in the order of the wire, each at most once, and
\* a byte is missing only if rx_overruns_ counts it.
THEOREM RingInOrderOnce == Spec => []InOrderOnce
BY RingImplementsFifo, FifoInOrderOnce, PTL DEF FifoSpec, InOrderOnce
--------------------------------------------------------------------------------
(* Rs485Adapter *)

\* A call that began at rest and was not disturbed has the adapter to itself, and
\* its transmission begins with DE on.
DeInv ==
    ~disturbed =>
        /\ main # Idle => ~Transmitting
        /\ main.at = "transmit" => de_state_
        /\ Transmitting => de_state_ \/ byApplication

\* Outside send() nothing leaves DE on but the application and an error.
QuietInv ==
    main.at \notin {"transmit", "release"} /\ ~Transmitting => ~de_state_ \/ byApplication \/ cut

\* A send() in progress has a number; before init() is through, no send() is.
CallInv ==
    /\ main.at = "idle" => main = Idle
    /\ main.at \in {"transmit", "release"} => main.call \in Call
    /\ Transmitting => tx.call \in Call
    /\ ~is_initialized_ => ~Transmitting /\ main.at \in {"idle", "ready"}

AloneInv == Rs485TypeOK /\ CallInv /\ DeInv /\ QuietInv

MainSteps == [at : {"idle", "ready", "listen", "transmit", "release"}, call : 0 .. MaxSends]
Transmissions == [call : 0 .. MaxSends, sent : 0 .. FrameLen]

LEMMA Rs485Initially == Rs485Init => AloneInv
<1> SUFFICES ASSUME Rs485Init PROVE AloneInv
  OBVIOUS
<1>1. MaxSends \in Nat /\ MaxErrors \in Nat /\ FrameLen \in Nat
  BY Rs485Assumption
<1>2. 0 \in 0 .. MaxSends /\ 0 \in 0 .. MaxErrors /\ 0 \in 0 .. FrameLen
  BY <1>1
<1>3. tx \in Transmissions /\ main \in MainSteps
  BY <1>2 DEF Rs485Init, NoTx, Idle, Transmissions, MainSteps
<1>4. Rs485TypeOK
  <2>1. /\ automatic \in BOOLEAN
        /\ is_initialized_ \in BOOLEAN
        /\ de_state_ \in BOOLEAN
        /\ rx_in_progress \in BOOLEAN
        /\ disturbed \in BOOLEAN
        /\ cut \in BOOLEAN
        /\ byApplication \in BOOLEAN
    BY DEF Rs485Init
  <2>2. calls \in 0 .. MaxSends /\ errors \in 0 .. MaxErrors
    BY <1>2 DEF Rs485Init
  <2>3. (calls > 0 => is_initialized_) /\ (rx_in_progress => is_initialized_ \/ main.at = "ready")
    BY DEF Rs485Init
  <2> QED
    BY <1>3, <2>1, <2>2, <2>3 DEF Rs485TypeOK, Transmissions, MainSteps
<1>5. CallInv /\ DeInv /\ QuietInv
  BY DEF Rs485Init, CallInv, DeInv, QuietInv, Transmitting, Idle
<1> QED
  BY <1>4, <1>5 DEF AloneInv

LEMMA Rs485Inductive == AloneInv /\ [Rs485Next]_rs485Vars => AloneInv'
<1> SUFFICES ASSUME AloneInv, [Rs485Next]_rs485Vars PROVE AloneInv'
  OBVIOUS
<1>t. Rs485TypeOK /\ CallInv /\ DeInv /\ QuietInv
  BY DEF AloneInv
<1>c. /\ MaxSends \in Nat /\ MaxErrors \in Nat /\ FrameLen \in Nat \ {0}
      /\ calls \in Nat /\ errors \in Nat
  BY <1>t, Rs485Assumption DEF Rs485TypeOK
<1>n. NoTx \in Transmissions
  BY <1>c DEF NoTx, Transmissions
<1>s. ASSUME NEW n \in Call
      PROVE  LET t == [call |-> n, sent |-> 0]
             IN t \in Transmissions /\ t # NoTx /\ t.call \in Call
  <2>1. n \in 0 .. MaxSends /\ n # 0
    BY <1>c, <1>s DEF Call
  <2>2. [call |-> n, sent |-> 0].call # NoTx.call
    BY <2>1 DEF NoTx
  <2> QED
    BY <1>c, <2>1, <2>2 DEF Transmissions
<1>i. Idle.at = "idle" /\ Idle \in MainSteps
  BY <1>c DEF Idle, MainSteps
<1>m. main \in MainSteps /\ tx \in Transmissions
  BY <1>t DEF Rs485TypeOK, MainSteps, Transmissions
<1>a. ASSUME NEW mode \in BOOLEAN, InitRefused(mode) PROVE AloneInv'
  <2>1. Rs485TypeOK'
    BY <1>a, <1>t DEF InitRefused, Rs485TypeOK, KeepDe
  <2>2. CallInv' /\ DeInv' /\ QuietInv'
    BY <1>a, <1>t DEF InitRefused, CallInv, DeInv, QuietInv, KeepDe, Transmitting
  <2> QED
    BY <2>1, <2>2 DEF AloneInv
<1>b. ASSUME NEW mode \in BOOLEAN, InitBegin(mode) PROVE AloneInv'
  <2>1. main' \in MainSteps /\ main'.at = "ready" /\ main' # Idle
    BY <1>b, <1>c, <1>i DEF InitBegin, MainSteps
  <2>2. Rs485TypeOK'
    BY <1>b, <1>t, <2>1 DEF InitBegin, Rs485TypeOK, KeepDe, MainSteps
  <2>3. CallInv' /\ DeInv' /\ QuietInv'
    BY <1>b, <1>t, <1>i, <2>1
    DEF InitBegin, CallInv, DeInv, QuietInv, KeepDe, Transmitting, AtRest
  <2> QED
    BY <2>2, <2>3 DEF AloneInv
<1>d. CASE InitReady
  <2>1. main' \in MainSteps /\ main'.at = "listen" /\ main' # Idle /\ main # Idle
    BY <1>d, <1>m, <1>i DEF InitReady, MainSteps
  <2>2. Rs485TypeOK'
    BY <1>d, <1>t, <2>1 DEF InitReady, Rs485TypeOK, KeepDe, MainSteps
  <2>3. CallInv' /\ DeInv' /\ QuietInv'
    BY <1>d, <1>t, <2>1 DEF InitReady, CallInv, DeInv, QuietInv, KeepDe, Transmitting
  <2> QED
    BY <2>2, <2>3 DEF AloneInv
<1>e. CASE InitListen
  <2>1. main # Idle /\ is_initialized_
    BY <1>e, <1>t, <1>i DEF InitListen, CallInv
  <2>2. Rs485TypeOK'
    BY <1>e, <1>t, <1>i, <2>1 DEF InitListen, Rs485TypeOK, DeassertDe, SwitchDe, MainSteps
  <2>3. CallInv' /\ DeInv' /\ QuietInv'
    BY <1>e, <1>t, <1>i, <2>1
    DEF InitListen, CallInv, DeInv, QuietInv, DeassertDe, SwitchDe, Transmitting
  <2> QED
    BY <2>2, <2>3 DEF AloneInv
<1>2. CASE SendBegin
  <2>1. calls + 1 \in Call /\ calls + 1 \in 0 .. MaxSends
    BY <1>2, <1>t, <1>c DEF SendBegin, Call, Rs485TypeOK
  <2>2. main' \in MainSteps /\ main'.at = "transmit" /\ main'.call \in Call /\ main' # Idle
    BY <1>2, <2>1, <1>i DEF SendBegin, MainSteps
  <2>3. Rs485TypeOK'
    BY <1>2, <1>t, <1>i, <2>1, <2>2 DEF SendBegin, Rs485TypeOK, AssertDe, SwitchDe, MainSteps
  <2>4. CallInv' /\ DeInv' /\ QuietInv'
    BY <1>2, <1>t, <2>2
    DEF SendBegin, CallInv, DeInv, QuietInv, AssertDe, SwitchDe, Transmitting, AtRest
  <2> QED
    BY <2>3, <2>4 DEF AloneInv
<1>3. CASE SendTransmit
  <2>0. main.call \in Call /\ main # Idle /\ is_initialized_
    BY <1>3, <1>t, <1>i DEF SendTransmit, CallInv
  <2>1. CASE ~Transmitting /\ tx' = [call |-> main.call, sent |-> 0] /\ main' = Idle
    <3>1. tx' \in Transmissions /\ tx' # NoTx /\ tx'.call \in Call
      BY <1>s, <2>0, <2>1
    <3>2. Rs485TypeOK'
      BY <1>3, <1>t, <1>i, <2>0, <2>1, <3>1
      DEF SendTransmit, Rs485TypeOK, KeepDe, MainSteps, Transmissions
    <3>3. CallInv' /\ DeInv' /\ QuietInv'
      BY <1>3, <1>t, <1>i, <2>0, <2>1, <3>1
      DEF SendTransmit, CallInv, DeInv, QuietInv, KeepDe, Transmitting
    <3> QED
      BY <3>2, <3>3 DEF AloneInv
  <2>2. CASE (Transmitting \/ errors > 0) /\ main' = [main EXCEPT !.at = "release"] /\ tx' = tx
    <3>1. /\ main' \in MainSteps
          /\ main'.at = "release"
          /\ main'.call = main.call
          /\ main' # Idle
      BY <1>i, <1>m, <2>2 DEF MainSteps
    <3>2. Rs485TypeOK'
      BY <1>3, <1>t, <2>0, <2>2, <3>1 DEF SendTransmit, Rs485TypeOK, KeepDe, MainSteps
    <3>3. CallInv' /\ DeInv' /\ QuietInv'
      BY <1>3, <1>t, <2>0, <2>2, <3>1
      DEF SendTransmit, CallInv, DeInv, QuietInv, KeepDe, Transmitting
    <3> QED
      BY <3>2, <3>3 DEF AloneInv
  <2> QED
    BY <1>3, <2>1, <2>2 DEF SendTransmit
<1>4. CASE SendRefused
  <2>1. main # Idle /\ is_initialized_
    BY <1>4, <1>t, <1>i DEF SendRefused, CallInv
  <2>2. Rs485TypeOK'
    BY <1>4, <1>t, <1>i, <2>1 DEF SendRefused, Rs485TypeOK, DeassertDe, SwitchDe, MainSteps
  <2>3. CallInv' /\ DeInv' /\ QuietInv'
    BY <1>4, <1>t, <1>i, <2>1
    DEF SendRefused, CallInv, DeInv, QuietInv, DeassertDe, SwitchDe, Transmitting
  <2> QED
    BY <2>2, <2>3 DEF AloneInv
<1>5. ASSUME NEW active \in BOOLEAN, SetDeState(active) PROVE AloneInv'
  <2>1. Rs485TypeOK'
    BY <1>5, <1>t DEF SetDeState, Rs485TypeOK
  <2>2. CallInv' /\ DeInv' /\ QuietInv'
    BY <1>5, <1>t, <1>i DEF SetDeState, CallInv, DeInv, QuietInv, Transmitting
  <2> QED
    BY <2>1, <2>2 DEF AloneInv
<1>f. CASE ByteReceived
  <2>1. Rs485TypeOK'
    BY <1>f, <1>t DEF ByteReceived, Rs485TypeOK, KeepDe
  <2>2. CallInv' /\ DeInv' /\ QuietInv'
    BY <1>f, <1>t DEF ByteReceived, CallInv, DeInv, QuietInv, KeepDe, Transmitting
  <2> QED
    BY <2>1, <2>2 DEF AloneInv
<1>6. CASE HandlerSends
  <2>1. calls + 1 \in Call /\ calls + 1 \in 0 .. MaxSends
    BY <1>6, <1>t, <1>c DEF HandlerSends, Call, Rs485TypeOK
  <2>2. CASE ~Transmitting /\ tx' = [call |-> calls + 1, sent |-> 0] /\ AssertDe
    <3>1. tx' \in Transmissions /\ tx' # NoTx /\ tx'.call \in Call
      BY <1>s, <2>1, <2>2
    <3>2. Rs485TypeOK'
      BY <1>6, <1>t, <2>1, <2>2, <3>1
      DEF HandlerSends, Rs485TypeOK, AssertDe, SwitchDe, Transmissions
    <3>3. CallInv' /\ DeInv' /\ QuietInv'
      BY <1>6, <1>t, <1>i, <2>2, <3>1
      DEF HandlerSends, CallInv, DeInv, QuietInv, AssertDe, SwitchDe, Transmitting, AtRest
    <3> QED
      BY <3>2, <3>3 DEF AloneInv
  <2>3. CASE (Transmitting \/ errors > 0) /\ DeassertDe /\ tx' = tx
    <3>1. Rs485TypeOK'
      BY <1>6, <1>t, <2>1, <2>3 DEF HandlerSends, Rs485TypeOK, DeassertDe, SwitchDe
    <3>2. CallInv' /\ DeInv' /\ QuietInv'
      BY <1>6, <1>t, <1>i, <2>3
      DEF HandlerSends, CallInv, DeInv, QuietInv, DeassertDe, SwitchDe, Transmitting, AtRest
    <3> QED
      BY <3>1, <3>2 DEF AloneInv
  <2> QED
    BY <1>6, <2>2, <2>3 DEF HandlerSends
<1>7. CASE Shift
  <2>1. tx \in [call : 0 .. MaxSends, sent : 0 .. FrameLen] /\ tx.sent < FrameLen /\ tx # NoTx
    BY <1>7, <1>t DEF Shift, Rs485TypeOK, Transmitting
  <2>2. tx.sent + 1 \in 0 .. FrameLen
    BY <1>c, <2>1
  <2>3. tx' \in Transmissions /\ tx'.call = tx.call
    BY <1>7, <2>1, <2>2 DEF Shift, Transmissions
  <2>4. tx.call \in Call
    BY <1>7, <1>t DEF CallInv, Shift
  <2>5. tx' # NoTx
    BY <1>c, <2>3, <2>4 DEF Call, NoTx
  <2>6. Rs485TypeOK'
    BY <1>7, <1>t, <2>3 DEF Shift, Rs485TypeOK, KeepDe, Transmissions
  <2>7. CallInv' /\ DeInv' /\ QuietInv'
    BY <1>7, <1>t, <2>1, <2>3, <2>4, <2>5
    DEF Shift, CallInv, DeInv, QuietInv, KeepDe, Transmitting
  <2> QED
    BY <2>6, <2>7 DEF AloneInv
<1>8. CASE TxComplete
  <2>1. is_initialized_
    BY <1>8, <1>t DEF TxComplete, CallInv
  <2>2. Rs485TypeOK'
    BY <1>8, <1>t, <1>n, <2>1 DEF TxComplete, Rs485TypeOK, DeassertDe, SwitchDe, Transmissions
  <2>3. CallInv' /\ DeInv' /\ QuietInv'
    BY <1>8, <1>t, <1>i
    DEF TxComplete, CallInv, DeInv, QuietInv, DeassertDe, SwitchDe, Transmitting
  <2> QED
    BY <2>2, <2>3 DEF AloneInv
<1>9. CASE Error
  <2>1. errors' \in 0 .. MaxErrors
    BY <1>9, <1>c DEF Error
  <2>2. Rs485TypeOK'
    BY <1>9, <1>t, <1>n, <2>1 DEF Error, Rs485TypeOK, Transmissions
  <2>3. CallInv' /\ DeInv' /\ QuietInv'
    BY <1>9, <1>t DEF Error, CallInv, DeInv, QuietInv, Transmitting
  <2> QED
    BY <2>2, <2>3 DEF AloneInv
<1>10. CASE UNCHANGED rs485Vars
  BY <1>10, <1>t
  DEF rs485Vars, AloneInv, Rs485TypeOK, CallInv, DeInv, QuietInv, Transmitting
<1> QED
  BY <1>a, <1>b, <1>d, <1>e, <1>f, <1>2, <1>3, <1>4, <1>5, <1>6, <1>7, <1>8, <1>9, <1>10
  DEF Rs485Next

LEMMA Rs485Invariant == Rs485Spec => []AloneInv
BY Rs485Initially, Rs485Inductive, PTL DEF Rs485Spec

\* The adapter's state has its type: the HAL never reads past the frame.
THEOREM Rs485TypeCorrect == Rs485Spec => []Rs485TypeOK
<1>1. AloneInv => Rs485TypeOK
  BY DEF AloneInv
<1> QED
  BY Rs485Invariant, <1>1, PTL

\* A send() that begins when nothing is under way, and under whose frame no other
\* call begins, has DE on for every byte, whatever calls, errors and second init()s
\* came before it.
THEOREM Rs485DrivenWhileAlone == Rs485Spec => []DrivenWhileAlone
<1>1. AloneInv => DrivenWhileAlone
  BY DEF AloneInv, DeInv, DrivenWhileAlone
<1> QED
  BY Rs485Invariant, <1>1, PTL

\* The node releases the bus after every frame no error ended, however calls overlap.
THEOREM Rs485ReleasedWhenDone == Rs485Spec => []ReleasedWhenDone
<1>1. Idle.at \notin {"transmit", "release"}
  BY DEF Idle
<1>2. AloneInv => ReleasedWhenDone
  BY <1>1 DEF AloneInv, QuietInv, ReleasedWhenDone, AtRest
<1> QED
  BY Rs485Invariant, <1>2, PTL
================================================================================
