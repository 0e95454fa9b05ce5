---------------------------- MODULE CanAdapterProofs ---------------------------
(***************************************************************************)
(* CanAdapter, for every size of the ring, every set of lengths and both    *)
(* builds: the messages go through the ring as through BoundedFifo, and the *)
(* bytes of each reach the handler together, in order and all of them.      *)
(***************************************************************************)
EXTENDS CanAdapter, SequenceTheorems, TLAPS

\* The slot of the k-th message in the ring, from 0
SlotOf(k) == IF rx_tail_ + k < Size THEN rx_tail_ + k ELSE rx_tail_ + k - Size

\* The message poll() took last
Latest == IF popped = <<>> THEN 0 ELSE popped[Len(popped)]

\* m is a message that arrived, with the length it had.
Genuine(m) == /\ m.n \in 1 .. arrived
              /\ m.dlc = length[m.n]
              /\ m.dlc \in Nat \ {0}

\* The ring holds messages younger than all that were taken, in their order.
RingInv ==
    /\ Len(length) = arrived
    /\ Latest <= arrived /\ dropped <= arrived
    /\ \A k \in 0 .. Count - 1 :
          Genuine(rx_buffer_[SlotOf(k)]) /\ Latest < rx_buffer_[SlotOf(k)].n
    /\ \A j, k \in 0 .. Count - 1 :
          j < k => rx_buffer_[SlotOf(j)].n < rx_buffer_[SlotOf(k)].n

\* pop_rx_message_ copies the message it took or is about to take: the interrupt
\* does not store into the slot at rx_tail_ while the ring is not empty, nor, as
\* a full ring leaves one slot free, into the one before it.
PopInv ==
    /\ main = "release" => ~Empty
    /\ main \in {"length", "data"} =>
          IF tail_first THEN Genuine(rx_buffer_[Source]) /\ rx_buffer_[Source].n = Latest
                        ELSE ~Empty
    /\ main = "data" => msg.dlc = rx_buffer_[Source].dlc
    /\ main = "release" /\ ~tail_first => msg = rx_buffer_[rx_tail_] /\ next = 1
    /\ main = "handle" => Genuine(msg) /\ msg.n = Latest /\ next \in 1 .. msg.dlc + 1

\* Is the message poll() took last still to be handled?
Untouched == \/ main \in {"length", "data"} /\ tail_first
             \/ main = "handle" /\ next = 1

\* Bytes of one message follow each other, and those of a later one all of them.
Follows(this, that) ==
    IF this[2] < length[this[1]]
    THEN that = <<this[1], this[2] + 1>>
    ELSE that[1] > this[1] /\ that[2] = 1

LastByte == handled[Len(handled)]

\* The last byte handled is the last of its message, unless the loop over the bytes
\* is in the middle of one.
HandledInv ==
    /\ \A i \in 1 .. Len(handled) : handled[i][1] <= Latest
    /\ \A i \in 1 .. Len(handled) - 1 : Follows(handled[i], handled[i + 1])
    /\ IF main = "handle" /\ next > 1
       THEN has_handler /\ handled # <<>> /\ LastByte = <<msg.n, next - 1>>
       ELSE handled # <<>> => LastByte[2] = length[LastByte[1]]
    /\ Untouched /\ handled # <<>> => LastByte[1] < Latest

CanInv == TypeOK /\ RingInv /\ PopInv /\ HandledInv

LEMMA SuccIsNext ==
    ASSUME NEW i \in Slots
    PROVE  Succ(i) = (IF i = Size - 1 THEN 0 ELSE i + 1) /\ Succ(i) \in Slots
BY CanAssumption DEF Slots, Succ

\* A sum of two indices wraps at most once.
LEMMA ModIsWrap ==
    ASSUME NEW x \in Nat, x < Size + Size
    PROVE  x % Size = IF x < Size THEN x ELSE x - Size
<1>1. Size \in Nat /\ Size > 0
  BY CanAssumption
<1>2. CASE x < Size
  BY <1>1, <1>2
<1>3. CASE ~(x < Size)
  BY <1>1, <1>3
<1> QED
  BY <1>2, <1>3

\* Which slots hold the messages between tail and head; the one before them is the
\* head only if the ring is full but for the slot that stays free.
SlotShape ==
    /\ Count \in 0 .. Size - 1
    /\ Count = IF rx_tail_ <= rx_head_ THEN rx_head_ - rx_tail_
                                       ELSE rx_head_ - rx_tail_ + Size
    /\ \A k \in 0 .. Count - 1 : SlotOf(k) \in Slots /\ SlotOf(k) # rx_head_
    /\ \A k \in 0 .. Count - 1 : (rx_tail_ + k) % Size = SlotOf(k)
    /\ SlotOf(0) = rx_tail_
    /\ SlotOf(Count) = rx_head_
    /\ Count = Size - 1 <=> Full
    /\ Count = 0 <=> Empty
    /\ Source \in Slots
    /\ Source = IF ~tail_first THEN rx_tail_
                ELSE IF rx_tail_ = 0 THEN Size - 1 ELSE rx_tail_ - 1
    /\ Source = rx_head_ => IF tail_first THEN Full ELSE Empty

LEMMA SlotFacts == TypeOK => SlotShape
<1> SUFFICES ASSUME TypeOK PROVE SlotShape
  OBVIOUS
<1>1. /\ Size \in Nat /\ Size > 1
      /\ rx_head_ \in Nat /\ rx_head_ < Size
      /\ rx_tail_ \in Nat /\ rx_tail_ < Size
  BY CanAssumption DEF TypeOK, Slots
<1>2. Count = IF rx_tail_ <= rx_head_ THEN rx_head_ - rx_tail_
                                      ELSE rx_head_ - rx_tail_ + Size
  <2>1. rx_head_ + Size - rx_tail_ \in Nat /\ rx_head_ + Size - rx_tail_ < Size + Size
    BY <1>1
  <2> QED
    BY <1>1, <2>1, ModIsWrap DEF Count
<1>3. Count \in Nat /\ Count < Size
  BY <1>1, <1>2
<1>4. ASSUME NEW k \in Nat, k < Count
      PROVE  SlotOf(k) \in Slots /\ SlotOf(k) # rx_head_ /\ (rx_tail_ + k) % Size = SlotOf(k)
  <2>1. SlotOf(k) \in Slots /\ SlotOf(k) # rx_head_
    BY <1>1, <1>2, <1>4 DEF SlotOf, Slots
  <2>2. rx_tail_ + k \in Nat /\ rx_tail_ + k < Size + Size
    BY <1>1, <1>3, <1>4
  <2>3. (rx_tail_ + k) % Size
          = IF rx_tail_ + k < Size THEN rx_tail_ + k ELSE rx_tail_ + k - Size
    BY <1>1, <1>4, <2>2, ModIsWrap
  <2> QED
    BY <2>1, <2>3 DEF SlotOf
<1>5. SlotOf(0) = rx_tail_ /\ SlotOf(Count) = rx_head_
  BY <1>1, <1>2 DEF SlotOf
<1>6. Succ(rx_head_) = IF rx_head_ = Size - 1 THEN 0 ELSE rx_head_ + 1
  BY SuccIsNext DEF TypeOK
<1>7. (Count = Size - 1 <=> Full) /\ (Count = 0 <=> Empty)
  BY <1>1, <1>2, <1>6 DEF Full, Empty
<1>8. Source = IF ~tail_first THEN rx_tail_
               ELSE IF rx_tail_ = 0 THEN Size - 1 ELSE rx_tail_ - 1
  <2>1. rx_tail_ + Size - 1 \in Nat /\ rx_tail_ + Size - 1 < Size + Size
    BY <1>1
  <2>2. (rx_tail_ + Size - 1) % Size = IF rx_tail_ = 0 THEN Size - 1 ELSE rx_tail_ - 1
    BY <1>1, <2>1, ModIsWrap
  <2> QED
    BY <2>2 DEF Source
<1>9. Source \in Slots /\ (Source = rx_head_ => IF tail_first THEN Full ELSE Empty)
  BY <1>1, <1>6, <1>8 DEF Slots, Full, Empty
<1>10. \A k \in 0 .. Count - 1 : k \in Nat /\ k < Count
  BY <1>3
<1>11. Count \in 0 .. Size - 1
  BY <1>1, <1>3
<1> QED
  BY <1>2, <1>4, <1>5, <1>7, <1>8, <1>9, <1>10, <1>11 DEF SlotShape

LEMMA FunctionIsSeq ==
    ASSUME NEW S, NEW n \in Nat, NEW f \in [1 .. n -> S]
    PROVE  f \in Seq(S) /\ Len(f) = n
OBVIOUS

HeldShape ==
    /\ Held \in Seq(0 .. MaxArrivals)
    /\ Len(Held) = Count
    /\ \A k \in 1 .. Count : k - 1 \in 0 .. Count - 1 /\ Held[k] = rx_buffer_[SlotOf(k - 1)].n

LEMMA HeldFacts == TypeOK => HeldShape
<1> SUFFICES ASSUME TypeOK PROVE HeldShape
  OBVIOUS
<1>1. SlotShape /\ Count \in Nat
  BY SlotFacts, CanAssumption DEF SlotShape
<1>2. ASSUME NEW k \in 1 .. Count
      PROVE  /\ k - 1 \in 0 .. Count - 1
             /\ (rx_tail_ + k - 1) % Size = SlotOf(k - 1)
             /\ rx_buffer_[SlotOf(k - 1)].n \in 0 .. MaxArrivals
  <2>1. k - 1 \in 0 .. Count - 1
    BY <1>1
  <2>2. rx_tail_ + (k - 1) = rx_tail_ + k - 1
    BY <1>1, CanAssumption DEF TypeOK, Slots
  <2>3. SlotOf(k - 1) \in Slots /\ (rx_tail_ + (k - 1)) % Size = SlotOf(k - 1)
    BY <1>1, <2>1 DEF SlotShape
  <2>4. rx_buffer_[SlotOf(k - 1)] \in [n : 0 .. MaxArrivals, dlc : {0} \union Lengths]
    BY <2>3 DEF TypeOK
  <2> QED
    BY <2>1, <2>2, <2>3, <2>4
<1>3. Held = [k \in 1 .. Count |-> rx_buffer_[(rx_tail_ + k - 1) % Size].n]
  BY DEF Held
<1>4. Held \in [1 .. Count -> 0 .. MaxArrivals]
  BY <1>2, <1>3
<1> QED
  BY <1>1, <1>2, <1>3, <1>4, FunctionIsSeq DEF HeldShape

LEMMA TypeInductive ==
    ASSUME CanInv, [Next]_vars
    PROVE  TypeOK'
<1>t. TypeOK /\ RingInv /\ PopInv
  BY DEF CanInv
<1>c. /\ Size \in Nat \ {0, 1} /\ Lengths \subseteq Nat \ {0}
      /\ MaxArrivals \in Nat /\ MaxInits \in Nat /\ Mailboxes \in Nat
  BY CanAssumption
<1>s. SlotShape
  BY <1>t, SlotFacts
<1>b. \A i \in Slots : /\ rx_buffer_[i].n \in 0 .. MaxArrivals
                       /\ rx_buffer_[i].dlc \in {0} \union Lengths
  BY <1>t DEF TypeOK
<1>1. CASE InitAdapter
  <2>1. inits' \in 0 .. MaxInits /\ mailed' \in 0 .. Mailboxes
    BY <1>1, <1>t, <1>c DEF InitAdapter, TypeOK
  <2>2. main' \in Step /\ controller' \in {"stopped", "started", "listening"}
    BY <1>1, <1>t DEF InitAdapter, TypeOK, Step
  <2> QED
    BY <1>1, <1>t, <2>1, <2>2 DEF InitAdapter, TypeOK, ring, history
<1>2. CASE InitDone \/ SetRxHandler
  BY <1>2, <1>t DEF InitDone, SetRxHandler, TypeOK, Step, ring, history
<1>3. CASE Send \/ Transmitted
  <2>1. mailed' \in 0 .. Mailboxes
    BY <1>3, <1>t, <1>c DEF Send, Transmitted, TypeOK
  <2> QED
    BY <1>3, <1>t, <2>1 DEF Send, Transmitted, TypeOK, ring, history
<1>4. ASSUME NEW dlc \in Lengths, Push(dlc)
      PROVE  TypeOK'
  <2>1. arrived + 1 \in 0 .. MaxArrivals
    BY <1>4, <1>t, <1>c DEF Push, Receiving, TypeOK
  <2>2. rx_buffer_' \in [Slots -> [n : 0 .. MaxArrivals, dlc : {0} \union Lengths]]
    BY <1>4, <1>t, <2>1 DEF Push, TypeOK
  <2>3. length' \in Seq({0} \union Lengths)
    BY <1>4, <1>t DEF Push, TypeOK
  <2>4. rx_head_' \in Slots
    BY <1>4, <1>t, SuccIsNext DEF Push, TypeOK
  <2> QED
    BY <1>4, <1>t, <2>1, <2>2, <2>3, <2>4 DEF Push, TypeOK, device
<1>5. CASE PushFull
  <2>1. arrived' \in 0 .. MaxArrivals
    BY <1>5, <1>t, <1>c DEF PushFull, Receiving, TypeOK
  <2>2. length' \in Seq({0} \union Lengths)
    BY <1>5, <1>t DEF PushFull, TypeOK
  <2>3. dropped' \in 0 .. MaxArrivals
    BY <1>5, <1>t, <1>c DEF PushFull, Receiving, TypeOK, RingInv
  <2> QED
    BY <1>5, <1>t, <2>1, <2>2, <2>3 DEF PushFull, TypeOK, ring, device
<1>6. CASE PollBegin \/ PollEnd \/ PopBegin
  BY <1>6, <1>t DEF PollBegin, PollEnd, PopBegin, TypeOK, Step, ring, device, history
<1>7. CASE CopyLength
  <2>1. msg' \in [n : 0 .. MaxArrivals, dlc : {0} \union Lengths]
    BY <1>7, <1>t, <1>s, <1>b DEF CopyLength, TypeOK, SlotShape
  <2> QED
    BY <1>7, <1>t, <2>1 DEF CopyLength, TypeOK, Step, ring, device, history
<1>8. CASE CopyData
  <2>1. msg' \in [n : 0 .. MaxArrivals, dlc : {0} \union Lengths]
    BY <1>8, <1>t, <1>s, <1>b DEF CopyData, TypeOK, SlotShape
  <2> QED
    BY <1>8, <1>t, <2>1 DEF CopyData, TypeOK, Step, ring, device, history
<1>9. CASE PopRelease
  <2>1. rx_buffer_[rx_tail_].n \in 1 .. MaxArrivals
    <3>1. Count # 0 /\ Count \in Nat
      BY <1>9, <1>t, <1>s, <1>c DEF PopRelease, PopInv, SlotShape
    <3>2. 0 \in 0 .. Count - 1
      BY <3>1
    <3>3. Genuine(rx_buffer_[SlotOf(0)])
      BY <1>t, <3>2 DEF RingInv
    <3> QED
      BY <1>t, <1>s, <1>c, <3>3 DEF Genuine, SlotShape, TypeOK
  <2>2. popped' \in Seq(1 .. MaxArrivals)
    BY <1>9, <1>t, <2>1 DEF PopRelease, TypeOK
  <2>3. rx_tail_' \in Slots
    BY <1>9, <1>t, SuccIsNext DEF PopRelease, TypeOK
  <2> QED
    BY <1>9, <1>t, <2>2, <2>3 DEF PopRelease, TypeOK, Step, device
<1>10. CASE Handle
  <2>1. msg.n \in 1 .. MaxArrivals /\ next \in Nat /\ next' = next + 1
    BY <1>10, <1>t, <1>c DEF Handle, PopInv, Genuine, TypeOK
  <2>2. handled' \in Seq((1 .. MaxArrivals) \X Nat)
    BY <1>10, <1>t, <2>1 DEF Handle, TypeOK
  <2> QED
    BY <1>10, <1>t, <2>1, <2>2 DEF Handle, TypeOK, ring, device
<1>11. CASE HandleEnd
  BY <1>11, <1>t, <1>c DEF HandleEnd, TypeOK, NoMessage, Step, ring, device, history
<1>12. CASE UNCHANGED vars
  BY <1>12, <1>t DEF vars, TypeOK
<1> QED
  BY <1>1, <1>2, <1>3, <1>4, <1>5, <1>6, <1>7, <1>8, <1>9, <1>10, <1>11, <1>12
  DEF Next, Poll
--------------------------------------------------------------------------------
(* What the steps do to the ring *)

RangeShape ==
    /\ Size \in Nat /\ Size > 1
    /\ rx_head_ \in Nat /\ rx_head_ < Size
    /\ rx_tail_ \in Nat /\ rx_tail_ < Size
    /\ Count \in Nat /\ Count < Size
    /\ Count = IF rx_tail_ <= rx_head_ THEN rx_head_ - rx_tail_
                                       ELSE rx_head_ - rx_tail_ + Size
    /\ Source = IF ~tail_first THEN rx_tail_
                ELSE IF rx_tail_ = 0 THEN Size - 1 ELSE rx_tail_ - 1
    /\ arrived \in Nat

LEMMA RangeFacts == TypeOK => RangeShape
<1> SUFFICES ASSUME TypeOK PROVE RangeShape
  OBVIOUS
<1>1. SlotShape
  BY SlotFacts
<1> QED
  BY <1>1, CanAssumption DEF TypeOK, Slots, SlotShape, RangeShape

LEMMA PushSlots ==
    ASSUME TypeOK, TypeOK', NEW dlc \in Lengths, Push(dlc)
    PROVE  /\ Count' = Count + 1
           /\ \A k \in 0 .. Count : SlotOf(k)' = SlotOf(k)
           /\ \A k \in 0 .. Count - 1 : rx_buffer_'[SlotOf(k)] = rx_buffer_[SlotOf(k)]
           /\ rx_buffer_'[SlotOf(Count)] = [n |-> arrived + 1, dlc |-> dlc]
<1>1. SlotShape
  BY SlotFacts
<1>2. rx_head_' = (IF rx_head_ = Size - 1 THEN 0 ELSE rx_head_ + 1) /\ rx_tail_' = rx_tail_
  BY SuccIsNext DEF Push, TypeOK
<1>3. rx_head_' # rx_tail_
  BY DEF Push, Full
<1>4. /\ Size \in Nat /\ Size > 1
      /\ rx_head_ \in Nat /\ rx_head_ < Size
      /\ rx_tail_ \in Nat /\ rx_tail_ < Size
      /\ Count = IF rx_tail_ <= rx_head_ THEN rx_head_ - rx_tail_
                                         ELSE rx_head_ - rx_tail_ + Size
  BY RangeFacts DEF RangeShape
<1>5. Count' = IF rx_tail_' <= rx_head_' THEN rx_head_' - rx_tail_'
                                         ELSE rx_head_' - rx_tail_' + Size
  <2>1. RangeShape'
    BY RangeFacts, PTL
  <2> QED
    BY <2>1 DEF RangeShape
<1>6. Count' = Count + 1
  BY <1>2, <1>3, <1>4, <1>5
<1>7. \A k \in 0 .. Count : SlotOf(k)' = SlotOf(k)
  BY <1>2 DEF SlotOf
<1>8. /\ rx_buffer_' = [rx_buffer_ EXCEPT ![rx_head_] = [n |-> arrived + 1, dlc |-> dlc]]
      /\ DOMAIN rx_buffer_ = Slots
      /\ rx_head_ \in Slots
  BY DEF Push, TypeOK
<1>9. \A k \in 0 .. Count - 1 : SlotOf(k) \in Slots /\ SlotOf(k) # rx_head_
  BY <1>1 DEF SlotShape
<1>10. SlotOf(Count) = rx_head_
  BY <1>1 DEF SlotShape
<1> QED
  BY <1>6, <1>7, <1>8, <1>9, <1>10

LEMMA PopSlots ==
    ASSUME TypeOK, TypeOK', ~Empty, PopRelease
    PROVE  /\ Count > 0
           /\ Count' = Count - 1
           /\ SlotOf(0) = rx_tail_
           /\ \A k \in 0 .. Count - 2 : SlotOf(k)' = SlotOf(k + 1)
           /\ rx_buffer_' = rx_buffer_
<1>2. rx_tail_' = (IF rx_tail_ = Size - 1 THEN 0 ELSE rx_tail_ + 1) /\ rx_head_' = rx_head_
  BY SuccIsNext DEF PopRelease, TypeOK
<1>4. /\ Size \in Nat /\ Size > 1
      /\ rx_head_ \in Nat /\ rx_head_ < Size
      /\ rx_tail_ \in Nat /\ rx_tail_ < Size
      /\ Count \in Nat /\ Count < Size
      /\ Count = IF rx_tail_ <= rx_head_ THEN rx_head_ - rx_tail_
                                         ELSE rx_head_ - rx_tail_ + Size
  BY RangeFacts DEF RangeShape
<1>5. Count' = IF rx_tail_' <= rx_head_' THEN rx_head_' - rx_tail_'
                                         ELSE rx_head_' - rx_tail_' + Size
  <2>1. RangeShape'
    BY RangeFacts, PTL
  <2> QED
    BY <2>1 DEF RangeShape
<1>6. rx_head_ # rx_tail_
  BY DEF Empty
<1>7. Count > 0 /\ Count' = Count - 1
  BY <1>2, <1>4, <1>5, <1>6
<1>8. ASSUME NEW k \in Nat, k < Count - 1
      PROVE  SlotOf(k)' = SlotOf(k + 1)
  BY <1>2, <1>4, <1>8 DEF SlotOf
<1>9. \A k \in 0 .. Count - 2 : k \in Nat /\ k < Count - 1
  BY <1>4
<1>10. SlotOf(0) = rx_tail_
  BY <1>4 DEF SlotOf
<1> QED
  BY <1>7, <1>8, <1>9, <1>10 DEF PopRelease

\* A message that arrived keeps its number and its length.
LEMMA GenuineStays ==
    ASSUME TypeOK, Len(length) = arrived,
           \/ length' = length /\ arrived' = arrived
           \/ \E d : length' = Append(length, d) /\ arrived' = arrived + 1
    PROVE  /\ arrived' >= arrived
           /\ \A i \in 1 .. arrived : length'[i] = length[i]
           /\ \A m : Genuine(m) => /\ m.n \in 1 .. arrived'
                                   /\ m.dlc = length'[m.n]
                                   /\ m.dlc \in Nat \ {0}
<1>1. arrived \in Nat /\ length \in Seq({0} \union Lengths)
  BY RangeFacts DEF TypeOK, RangeShape
<1>2. arrived' >= arrived /\ \A i \in 1 .. arrived : length'[i] = length[i]
  BY <1>1
<1>3. arrived' \in Nat
  BY <1>1
<1> QED
  BY <1>1, <1>2, <1>3 DEF Genuine
\* The steps that leave the ring and the history of arrivals alone
StillRing == UNCHANGED <<ring, arrived, dropped, length, popped, tail_first>>

LEMMA Still ==
    ASSUME \/ InitAdapter \/ InitDone \/ SetRxHandler \/ Send \/ Transmitted
           \/ PollBegin \/ PollEnd \/ PopBegin \/ CopyLength \/ CopyData \/ Handle \/ HandleEnd
           \/ UNCHANGED vars
    PROVE  StillRing
BY DEF InitAdapter, InitDone, SetRxHandler, Send, Transmitted, PollBegin, PollEnd, PopBegin,
       CopyLength, CopyData, Handle, HandleEnd, vars, StillRing, ring, device, history

LEMMA LatestFacts ==
    ASSUME TypeOK
    PROVE  /\ Latest \in Nat
           /\ \A n \in 1 .. MaxArrivals : popped' = Append(popped, n) => Latest' = n
<1>1. popped \in Seq(1 .. MaxArrivals) /\ MaxArrivals \in Nat
  BY CanAssumption DEF TypeOK
<1>2. Latest \in Nat
  <2>1. CASE popped = <<>>
    BY <2>1 DEF Latest
  <2>2. CASE popped # <<>>
    <3>1. Len(popped) \in 1 .. Len(popped)
      BY <1>1, <2>2, EmptySeq
    <3>2. popped[Len(popped)] \in 1 .. MaxArrivals
      BY <1>1, <3>1
    <3> QED
      BY <1>1, <2>2, <3>2 DEF Latest
  <2> QED
    BY <2>1, <2>2
<1>3. ASSUME NEW n \in 1 .. MaxArrivals, popped' = Append(popped, n)
      PROVE  Latest' = n
  <2>1. Append(popped, n) # <<>> /\ Append(popped, n)[Len(Append(popped, n))] = n
    BY <1>1, AppendProperties
  <2> QED
    BY <1>3, <2>1 DEF Latest
<1> QED
  BY <1>2, <1>3

LEMMA RingInductive ==
    ASSUME CanInv, TypeOK', [Next]_vars
    PROVE  RingInv'
<1>t. TypeOK /\ RingInv /\ PopInv
  BY DEF CanInv
<1>r. RangeShape
  BY <1>t, RangeFacts
<1>n. Count \in Nat /\ arrived \in Nat
  BY <1>r DEF RangeShape
<1>a. /\ Len(length) = arrived
      /\ Latest <= arrived
      /\ dropped <= arrived
  BY <1>t DEF RingInv
<1>1. CASE StillRing
  BY <1>1, <1>t DEF StillRing, ring, RingInv, Latest, Count, SlotOf, Genuine
<1>2. ASSUME NEW dlc \in Lengths, Push(dlc)
      PROVE  RingInv'
  <2>1. /\ Count' = Count + 1
        /\ \A k \in 0 .. Count : SlotOf(k)' = SlotOf(k)
        /\ \A k \in 0 .. Count - 1 : rx_buffer_'[SlotOf(k)] = rx_buffer_[SlotOf(k)]
        /\ rx_buffer_'[SlotOf(Count)] = [n |-> arrived + 1, dlc |-> dlc]
    BY <1>2, <1>t, PushSlots
  <2>2. /\ arrived' = arrived + 1 /\ length' = Append(length, dlc)
        /\ dropped' = dropped /\ popped' = popped
    BY <1>2 DEF Push
  <2>3. /\ \A i \in 1 .. arrived : length'[i] = length[i]
        /\ \A m : Genuine(m) => /\ m.n \in 1 .. arrived'
                                /\ m.dlc = length'[m.n]
                                /\ m.dlc \in Nat \ {0}
    BY <1>t, <1>a, <2>2, GenuineStays
  <2>4. Len(length') = arrived' /\ length'[arrived + 1] = dlc
    <3>1. length \in Seq({0} \union Lengths) /\ dlc \in {0} \union Lengths
      BY <1>t DEF TypeOK
    <3> QED
      BY <3>1, <1>a, <2>2, AppendProperties
  <2>5. Latest' = Latest /\ Latest \in Nat
    BY <1>t, <2>2, LatestFacts DEF Latest
  <2>6. dropped \in Nat
    BY <1>t, CanAssumption DEF TypeOK
  <2>7. Latest' <= arrived' /\ dropped' <= arrived'
    BY <1>a, <1>n, <2>2, <2>5, <2>6
  <2>8. \A k \in 0 .. Count' - 1 : k \in 0 .. Count - 1 \/ k = Count
    BY <1>n, <2>1
  <2>9. ASSUME NEW k \in 0 .. Count' - 1
        PROVE  Genuine(rx_buffer_[SlotOf(k)])' /\ Latest' < rx_buffer_'[SlotOf(k)'].n
    <3>0. SlotOf(k)' = SlotOf(k)
      BY <1>n, <2>1, <2>8
    <3>1. CASE k \in 0 .. Count - 1
      <4>1. rx_buffer_'[SlotOf(k)'] = rx_buffer_[SlotOf(k)]
        BY <2>1, <3>0, <3>1
      <4>2. Genuine(rx_buffer_[SlotOf(k)]) /\ Latest < rx_buffer_[SlotOf(k)].n
        BY <1>t, <3>1 DEF RingInv
      <4> QED
        BY <2>3, <2>5, <4>1, <4>2 DEF Genuine
    <3>2. CASE k = Count
      <4>1. /\ rx_buffer_'[SlotOf(k)'].n = arrived + 1
            /\ rx_buffer_'[SlotOf(k)'].dlc = dlc
        BY <2>1, <3>0, <3>2
      <4>2. dlc \in Nat \ {0} /\ arrived + 1 \in 1 .. arrived + 1 /\ Latest < arrived + 1
        BY CanAssumption, <1>a, <1>n, <2>5
      <4> QED
        BY <2>2, <2>4, <2>5, <4>1, <4>2 DEF Genuine
    <3> QED
      BY <2>8, <3>1, <3>2
  <2>10. ASSUME NEW j \in 0 .. Count' - 1, NEW k \in 0 .. Count' - 1, j < k
         PROVE  rx_buffer_'[SlotOf(j)'].n < rx_buffer_'[SlotOf(k)'].n
    <3>0. j \in 0 .. Count - 1 /\ SlotOf(j)' = SlotOf(j) /\ SlotOf(k)' = SlotOf(k)
      BY <1>n, <2>1, <2>10
    <3>1. CASE k \in 0 .. Count - 1
      BY <1>t, <2>1, <2>10, <3>0, <3>1 DEF RingInv
    <3>2. CASE k = Count
      <4>1. rx_buffer_'[SlotOf(k)'].n = arrived + 1
        BY <2>1, <3>0, <3>2
      <4>2. rx_buffer_'[SlotOf(j)'] = rx_buffer_[SlotOf(j)]
        BY <2>1, <3>0
      <4>3. rx_buffer_[SlotOf(j)].n \in 1 .. arrived
        BY <1>t, <3>0 DEF RingInv, Genuine
      <4> QED
        BY <1>n, <4>1, <4>2, <4>3
    <3> QED
      BY <2>8, <3>1, <3>2
  <2> QED
    BY <2>4, <2>7, <2>9, <2>10 DEF RingInv
<1>3. CASE PushFull
  <2>1. /\ arrived' = arrived + 1 /\ length' = Append(length, 0)
        /\ dropped' = dropped + 1 /\ UNCHANGED <<ring, popped>>
    BY <1>3 DEF PushFull
  <2>2. \A m : Genuine(m) => /\ m.n \in 1 .. arrived'
                             /\ m.dlc = length'[m.n]
                             /\ m.dlc \in Nat \ {0}
    BY <1>t, <1>a, <2>1, GenuineStays
  <2>3. Len(length') = arrived'
    <3>1. length \in Seq({0} \union Lengths) /\ 0 \in {0} \union Lengths
      BY <1>t DEF TypeOK
    <3> QED
      BY <3>1, <1>a, <2>1, AppendProperties
  <2>4. Latest' = Latest /\ Latest \in Nat /\ dropped \in Nat
    BY <1>t, <2>1, LatestFacts, CanAssumption DEF Latest, TypeOK
  <2>5. Latest' <= arrived' /\ dropped' <= arrived'
    BY <1>a, <1>n, <2>1, <2>4
  <2>6. Count' = Count /\ rx_buffer_' = rx_buffer_ /\ \A k : SlotOf(k)' = SlotOf(k)
    BY <2>1 DEF Count, SlotOf, ring
  <2>7. ASSUME NEW k \in 0 .. Count' - 1
        PROVE  Genuine(rx_buffer_[SlotOf(k)])' /\ Latest' < rx_buffer_'[SlotOf(k)'].n
    <3>1. Genuine(rx_buffer_[SlotOf(k)]) /\ Latest < rx_buffer_[SlotOf(k)].n
      BY <1>t, <2>6 DEF RingInv
    <3>2. rx_buffer_'[SlotOf(k)'] = rx_buffer_[SlotOf(k)]
      BY <2>6
    <3> QED
      BY <2>2, <2>4, <3>1, <3>2 DEF Genuine
  <2>8. \A j, k \in 0 .. Count' - 1 :
            j < k => rx_buffer_'[SlotOf(j)'].n < rx_buffer_'[SlotOf(k)'].n
    BY <1>t, <2>6 DEF RingInv
  <2> QED
    BY <2>3, <2>5, <2>7, <2>8 DEF RingInv
<1>4. CASE PopRelease
  <2>0. ~Empty
    BY <1>4, <1>t DEF PopRelease, PopInv
  <2>1. /\ Count > 0
        /\ Count' = Count - 1
        /\ SlotOf(0) = rx_tail_
        /\ \A k \in 0 .. Count - 2 : SlotOf(k)' = SlotOf(k + 1)
        /\ rx_buffer_' = rx_buffer_
    BY <1>4, <1>t, <2>0, PopSlots
  <2>2. 0 \in 0 .. Count - 1
    BY <1>n, <2>1
  <2>3. Genuine(rx_buffer_[rx_tail_])
    BY <1>t, <2>1, <2>2 DEF RingInv
  <2>4. rx_buffer_[rx_tail_].n \in 1 .. arrived /\ arrived \in 0 .. MaxArrivals
    BY <1>t, <2>3 DEF Genuine, TypeOK
  <2>5. rx_buffer_[rx_tail_].n \in 1 .. MaxArrivals
    BY <2>4, CanAssumption
  <2>6. Latest' = rx_buffer_[rx_tail_].n
    BY <1>4, <1>t, <2>5, LatestFacts DEF PopRelease
  <2>7. Len(length') = arrived' /\ Latest' <= arrived' /\ dropped' <= arrived'
    BY <1>4, <1>a, <1>n, <2>4, <2>6 DEF PopRelease
  <2>8. \A k \in 0 .. Count' - 1 :
            /\ k + 1 \in 0 .. Count - 1
            /\ 0 < k + 1
            /\ rx_buffer_'[SlotOf(k)'] = rx_buffer_[SlotOf(k + 1)]
    BY <1>n, <2>1
  <2>9. ASSUME NEW k \in 0 .. Count' - 1
        PROVE  Genuine(rx_buffer_[SlotOf(k)])' /\ Latest' < rx_buffer_'[SlotOf(k)'].n
    <3>1. Genuine(rx_buffer_[SlotOf(k + 1)])
      BY <1>t, <2>8 DEF RingInv
    <3>2. rx_buffer_[SlotOf(0)].n < rx_buffer_[SlotOf(k + 1)].n
      BY <1>t, <2>2, <2>8 DEF RingInv
    <3>3. length' = length /\ arrived' = arrived
      BY <1>4 DEF PopRelease
    <3> QED
      BY <2>1, <2>6, <2>8, <3>1, <3>2, <3>3 DEF Genuine
  <2>10. ASSUME NEW j \in 0 .. Count' - 1, NEW k \in 0 .. Count' - 1, j < k
         PROVE  rx_buffer_'[SlotOf(j)'].n < rx_buffer_'[SlotOf(k)'].n
    <3>1. j + 1 \in 0 .. Count - 1 /\ k + 1 \in 0 .. Count - 1 /\ j + 1 < k + 1
      BY <1>n, <2>1, <2>10
    <3>2. rx_buffer_[SlotOf(j + 1)].n < rx_buffer_[SlotOf(k + 1)].n
      BY <1>t, <3>1 DEF RingInv
    <3> QED
      BY <2>8, <3>2
  <2> QED
    BY <2>7, <2>9, <2>10 DEF RingInv
<1> QED
  BY <1>1, <1>2, <1>3, <1>4, Still DEF Next, Poll
--------------------------------------------------------------------------------
(* pop_rx_message_ copies the message it takes *)

LEMMA PopInductive ==
    ASSUME CanInv, TypeOK', [Next]_vars
    PROVE  PopInv'
<1>t. TypeOK /\ RingInv /\ PopInv
  BY DEF CanInv
<1>s. SlotShape /\ RangeShape
  BY <1>t, SlotFacts, RangeFacts
<1>n. Count \in Nat /\ arrived \in Nat
  BY <1>s DEF RangeShape
<1>b. Source \in Slots /\ rx_buffer_[Source] \in [n : 0 .. MaxArrivals, dlc : {0} \union Lengths]
  BY <1>t, <1>s DEF SlotShape, TypeOK
<1>m. msg \in [n : 0 .. MaxArrivals, dlc : {0} \union Lengths]
  BY <1>t DEF TypeOK
<1>1. CASE InitAdapter \/ InitDone \/ SetRxHandler \/ Send \/ PollBegin \/ PollEnd \/ HandleEnd
  <2>1. main' \in {"out", "init", "test"}
    BY <1>1 DEF InitAdapter, InitDone, SetRxHandler, Send, PollBegin, PollEnd, HandleEnd
  <2> QED
    BY <2>1 DEF PopInv
<1>2. CASE Transmitted \/ UNCHANGED vars
  <2>1. UNCHANGED <<rx_buffer_, rx_head_, rx_tail_, tail_first, arrived, length, popped, main,
                    msg, next>>
    BY <1>2 DEF Transmitted, vars, ring, history
  <2> QED
    BY <1>t, <2>1 DEF PopInv, Genuine, Latest, Source, Empty
<1>3. ASSUME NEW dlc \in Lengths, Push(dlc)
      PROVE  PopInv'
  <2>1. /\ rx_head_' # rx_tail_ /\ ~Full /\ rx_tail_' = rx_tail_
        /\ UNCHANGED <<tail_first, popped, main, msg, next>>
        /\ arrived' = arrived + 1 /\ length' = Append(length, dlc)
    BY <1>3 DEF Push, Full, device
  <2>2. Source' = Source /\ Latest' = Latest /\ ~Empty'
    BY <2>1 DEF Source, Latest, Empty
  <2>3. \A m : Genuine(m) => /\ m.n \in 1 .. arrived'
                             /\ m.dlc = length'[m.n]
                             /\ m.dlc \in Nat \ {0}
    BY <1>t, <2>1, GenuineStays DEF RingInv
  <2>4. \A i \in Slots : i # rx_head_ => rx_buffer_'[i] = rx_buffer_[i]
    BY <1>3, <1>t DEF Push, TypeOK
  <2>5. main \in {"length", "data"} => rx_buffer_'[Source] = rx_buffer_[Source]
    BY <1>b, <1>s, <1>t, <2>1, <2>4 DEF SlotShape, PopInv
  <2>6. main = "release" => rx_buffer_'[rx_tail_] = rx_buffer_[rx_tail_]
    BY <1>t, <2>4 DEF PopInv, Empty, TypeOK
  <2>7. Genuine(rx_buffer_[Source]) /\ main \in {"length", "data"}
           => Genuine(rx_buffer_[Source])'
    BY <2>2, <2>3, <2>5 DEF Genuine
  <2>8. Genuine(msg) => Genuine(msg)'
    BY <2>1, <2>3 DEF Genuine
  <2> QED
    BY <1>t, <2>1, <2>2, <2>5, <2>6, <2>7, <2>8 DEF PopInv
<1>4. CASE PushFull
  <2>1. /\ UNCHANGED <<rx_buffer_, rx_head_, rx_tail_, tail_first, popped, main, msg, next>>
        /\ arrived' = arrived + 1 /\ length' = Append(length, 0)
    BY <1>4 DEF PushFull, ring, device
  <2>2. Source' = Source /\ Latest' = Latest /\ (Empty' <=> Empty)
    BY <2>1 DEF Source, Latest, Empty
  <2>3. \A m : Genuine(m) => /\ m.n \in 1 .. arrived'
                             /\ m.dlc = length'[m.n]
                             /\ m.dlc \in Nat \ {0}
    BY <1>t, <2>1, GenuineStays DEF RingInv
  <2>4. Genuine(rx_buffer_[Source]) => Genuine(rx_buffer_[Source])'
    BY <2>1, <2>2, <2>3 DEF Genuine
  <2>5. Genuine(msg) => Genuine(msg)'
    BY <2>1, <2>3 DEF Genuine
  <2> QED
    BY <1>t, <2>1, <2>2, <2>4, <2>5 DEF PopInv
<1>5. CASE PopBegin
  <2>1. /\ UNCHANGED <<rx_head_, rx_tail_, tail_first>> /\ ~Empty
        /\ main' = IF tail_first THEN "release" ELSE "length"
    BY <1>5 DEF PopBegin, ring, device
  <2> QED
    BY <1>t, <2>1 DEF PopInv, Empty
<1>6. CASE CopyLength
  <2>1. /\ UNCHANGED <<rx_buffer_, rx_head_, rx_tail_, tail_first, arrived, length, popped>>
        /\ main = "length" /\ main' = "data" /\ msg' = [msg EXCEPT !.dlc = rx_buffer_[Source].dlc]
    BY <1>6 DEF CopyLength, ring, device, history
  <2>2. msg'.dlc = rx_buffer_[Source].dlc
    BY <1>m, <2>1
  <2> QED
    BY <1>t, <2>1, <2>2 DEF PopInv, Genuine, Latest, Source, Empty
<1>7. CASE CopyData
  <2>1. /\ UNCHANGED <<rx_buffer_, rx_head_, rx_tail_, tail_first, arrived, length, popped>>
        /\ main = "data" /\ main' = IF tail_first THEN "handle" ELSE "release"
        /\ msg' = [msg EXCEPT !.n = rx_buffer_[Source].n] /\ next' = 1
    BY <1>7 DEF CopyData, ring, device, history
  <2>2. msg.dlc = rx_buffer_[Source].dlc
    BY <1>t, <2>1 DEF PopInv
  <2>3. msg' = rx_buffer_[Source]
    BY <1>b, <1>m, <2>1, <2>2
  <2>4. CASE tail_first
    <3>1. Genuine(rx_buffer_[Source]) /\ rx_buffer_[Source].n = Latest
      BY <1>t, <2>1, <2>4 DEF PopInv
    <3>2. Genuine(msg)' /\ msg'.n = Latest' /\ msg'.dlc \in Nat \ {0}
      BY <2>1, <2>3, <3>1 DEF Genuine, Latest
    <3>3. next' \in 1 .. msg'.dlc + 1
      BY <2>1, <3>2
    <3> QED
      BY <2>1, <2>4, <3>2, <3>3 DEF PopInv
  <2>5. CASE ~tail_first
    <3>1. ~Empty /\ Source = rx_tail_
      BY <1>t, <2>1, <2>5 DEF PopInv, Source
    <3> QED
      BY <2>1, <2>3, <2>5, <3>1 DEF PopInv, Empty
  <2> QED
    BY <2>4, <2>5
<1>8. CASE PopRelease
  <2>0. ~Empty
    BY <1>8, <1>t DEF PopRelease, PopInv
  <2>1. Count > 0 /\ SlotOf(0) = rx_tail_ /\ rx_buffer_' = rx_buffer_
    BY <1>8, <1>t, <2>0, PopSlots
  <2>2. Genuine(rx_buffer_[rx_tail_])
    <3>1. 0 \in 0 .. Count - 1
      BY <1>n, <2>1
    <3> QED
      BY <1>t, <2>1, <3>1 DEF RingInv
  <2>3. rx_buffer_[rx_tail_].n \in 1 .. MaxArrivals
    BY <1>t, <2>2, CanAssumption DEF Genuine, TypeOK
  <2>4. Latest' = rx_buffer_[rx_tail_].n
    BY <1>8, <1>t, <2>3, LatestFacts DEF PopRelease
  <2>5. /\ UNCHANGED <<tail_first, arrived, length, msg, next>>
        /\ main' = IF tail_first THEN "length" ELSE "handle"
        /\ main = "release" /\ rx_tail_' = Succ(rx_tail_)
    BY <1>8 DEF PopRelease, device
  <2>6. CASE tail_first
    <3>1. Source' = rx_tail_
      <4>1. RangeShape'
        BY RangeFacts, PTL
      <4>2. rx_tail_' = IF rx_tail_ = Size - 1 THEN 0 ELSE rx_tail_ + 1
        BY <1>t, <2>5, SuccIsNext DEF TypeOK
      <4>3. Source' = IF rx_tail_' = 0 THEN Size - 1 ELSE rx_tail_' - 1
        BY <2>5, <2>6, <4>1 DEF RangeShape
      <4>4. Size \in Nat /\ rx_tail_ \in Nat /\ rx_tail_ < Size
        BY <1>s DEF RangeShape
      <4> QED
        BY <4>2, <4>3, <4>4
    <3>2. Genuine(rx_buffer_[Source])' /\ rx_buffer_'[Source'].n = Latest'
      BY <2>1, <2>2, <2>4, <2>5, <3>1 DEF Genuine
    <3> QED
      BY <2>5, <2>6, <3>2 DEF PopInv
  <2>7. CASE ~tail_first
    <3>1. msg = rx_buffer_[rx_tail_] /\ next = 1
      BY <1>t, <2>5, <2>7 DEF PopInv
    <3>2. Genuine(msg)' /\ msg'.n = Latest' /\ msg.dlc \in Nat \ {0}
      BY <2>2, <2>4, <2>5, <3>1 DEF Genuine
    <3>3. next' \in 1 .. msg'.dlc + 1
      BY <2>5, <3>1, <3>2
    <3> QED
      BY <2>5, <2>7, <3>2, <3>3 DEF PopInv
  <2> QED
    BY <2>6, <2>7
<1>9. CASE Handle
  <2>1. /\ UNCHANGED <<arrived, length, popped, main, msg>>
        /\ main = "handle" /\ next <= msg.dlc /\ next' = next + 1
    BY <1>9 DEF Handle, history
  <2>2. Genuine(msg) /\ msg.n = Latest /\ next \in 1 .. msg.dlc + 1
    BY <1>t, <2>1 DEF PopInv
  <2>3. next + 1 \in 1 .. msg.dlc + 1
    BY <2>1, <2>2 DEF Genuine
  <2> QED
    BY <2>1, <2>2, <2>3 DEF PopInv, Genuine, Latest
<1> QED
  BY <1>1, <1>2, <1>3, <1>4, <1>5, <1>6, <1>7, <1>8, <1>9 DEF Next, Poll
--------------------------------------------------------------------------------
(* The bytes given to the handler *)

HandledShape ==
    /\ handled \in Seq((1 .. MaxArrivals) \X Nat)
    /\ Len(handled) \in Nat
    /\ handled # <<>> => Len(handled) \in 1 .. Len(handled)
    /\ \A i \in 1 .. Len(handled) : handled[i][1] \in 1 .. arrived

LEMMA HandledFacts ==
    ASSUME TypeOK, RingInv, HandledInv
    PROVE  HandledShape
<1>1. /\ handled \in Seq((1 .. MaxArrivals) \X Nat)
      /\ Len(handled) \in Nat
      /\ arrived \in Nat /\ MaxArrivals \in Nat
  BY CanAssumption DEF TypeOK
<1>2. handled # <<>> => Len(handled) \in 1 .. Len(handled)
  BY <1>1, EmptySeq
<1>3. ASSUME NEW i \in 1 .. Len(handled)
      PROVE  handled[i][1] \in 1 .. arrived
  <2>1. handled[i] \in (1 .. MaxArrivals) \X Nat
    BY <1>1, <1>3, ElementOfSeq
  <2>2. handled[i][1] \in 1 .. MaxArrivals
    BY <2>1
  <2>3. handled[i][1] <= Latest /\ Latest <= arrived /\ Latest \in Nat
    BY LatestFacts DEF HandledInv, RingInv
  <2> QED
    BY <1>1, <2>2, <2>3
<1> QED
  BY <1>1, <1>2, <1>3 DEF HandledShape

\* Steps that handle no byte.  Those that have come keep their messages.
LEMMA NothingHandled ==
    ASSUME TypeOK, RingInv, HandledInv, handled' = handled, Latest <= Latest', Latest' \in Nat,
           \A i \in 1 .. arrived : length'[i] = length[i]
    PROVE  /\ \A i \in 1 .. Len(handled') : handled'[i][1] <= Latest'
           /\ \A i \in 1 .. Len(handled') - 1 : Follows(handled[i], handled[i + 1])'
           /\ LastByte' = LastByte
           /\ handled # <<>> => length'[LastByte[1]] = length[LastByte[1]]
<1>1. HandledShape /\ Latest \in Nat /\ arrived \in Nat
  BY HandledFacts, LatestFacts, RangeFacts DEF RangeShape
<1>2. ASSUME NEW i \in 1 .. Len(handled')
      PROVE  handled'[i][1] <= Latest'
  <2>1. handled[i][1] <= Latest /\ handled[i][1] \in 1 .. arrived
    BY <1>1, <1>2 DEF HandledInv, HandledShape
  <2> QED
    BY <1>1, <2>1
<1>3. ASSUME NEW i \in 1 .. Len(handled') - 1
      PROVE  Follows(handled[i], handled[i + 1])'
  <2>1. i \in 1 .. Len(handled) /\ Follows(handled[i], handled[i + 1])
    BY <1>1, <1>3 DEF HandledInv, HandledShape
  <2>2. length'[handled[i][1]] = length[handled[i][1]]
    BY <1>1, <2>1 DEF HandledShape
  <2> QED
    BY <2>1, <2>2 DEF Follows
<1>4. LastByte' = LastByte
  BY DEF LastByte
<1>5. handled # <<>> => length'[LastByte[1]] = length[LastByte[1]]
  BY <1>1 DEF HandledShape, LastByte
<1> QED
  BY <1>2, <1>3, <1>4, <1>5

LEMMA HandledInductive ==
    ASSUME CanInv, TypeOK', [Next]_vars
    PROVE  HandledInv'
<1>t. TypeOK /\ RingInv /\ PopInv /\ HandledInv
  BY DEF CanInv
<1>h. HandledShape /\ Latest \in Nat /\ arrived \in Nat
  BY <1>t, HandledFacts, LatestFacts, RangeFacts DEF RangeShape
<1>n. next \in Nat
  BY <1>t DEF TypeOK
\* No byte is handled and none is taken.
<1>1. ASSUME handled' = handled, popped' = popped, length' = length
      PROVE  /\ \A i \in 1 .. Len(handled') : handled'[i][1] <= Latest'
             /\ \A i \in 1 .. Len(handled') - 1 : Follows(handled[i], handled[i + 1])'
             /\ LastByte' = LastByte
             /\ Latest' = Latest
  <2>1. Latest' = Latest /\ Latest <= Latest' /\ Latest' \in Nat
    BY <1>1, <1>h DEF Latest
  <2> QED
    BY <1>1, <1>t, <2>1, NothingHandled
<1>2. CASE InitAdapter \/ InitDone \/ SetRxHandler \/ Send \/ PollBegin \/ PollEnd \/ PopBegin
  <2>1. /\ handled' = handled /\ popped' = popped /\ length' = length
        /\ main # "handle" /\ main' # "handle" /\ ~Untouched'
    BY <1>2 DEF InitAdapter, InitDone, SetRxHandler, Send, PollBegin, PollEnd, PopBegin,
                history, device, Untouched
  <2> QED
    BY <1>t, <1>1, <2>1 DEF HandledInv
<1>3. CASE Transmitted \/ UNCHANGED vars
  <2>1. UNCHANGED <<has_handler, tail_first, length, popped, handled, main, msg, next>>
    BY <1>3 DEF Transmitted, vars, history
  <2> QED
    BY <1>t, <1>1, <2>1 DEF HandledInv, Untouched
<1>4. ASSUME NEW d \in {0} \union Lengths,
             arrived' = arrived + 1, length' = Append(length, d),
             UNCHANGED <<has_handler, tail_first, popped, handled, main, msg, next>>
      PROVE  HandledInv'
  <2>1. \A i \in 1 .. arrived : length'[i] = length[i]
    BY <1>t, <1>4, GenuineStays DEF RingInv
  <2>2. Latest' = Latest /\ Latest <= Latest' /\ Latest' \in Nat
    BY <1>4, <1>h DEF Latest
  <2>3. /\ \A i \in 1 .. Len(handled') : handled'[i][1] <= Latest'
        /\ \A i \in 1 .. Len(handled') - 1 : Follows(handled[i], handled[i + 1])'
        /\ LastByte' = LastByte
        /\ handled # <<>> => length'[LastByte[1]] = length[LastByte[1]]
    BY <1>t, <1>4, <2>1, <2>2, NothingHandled
  <2> QED
    BY <1>t, <1>4, <2>2, <2>3 DEF HandledInv, Untouched
<1>5. ASSUME NEW dlc \in Lengths, Push(dlc) PROVE HandledInv'
  BY <1>4, <1>5 DEF Push, device
<1>6. CASE PushFull
  BY <1>4, <1>6 DEF PushFull, device
<1>7. CASE CopyLength
  <2>1. /\ UNCHANGED <<tail_first, length, popped, handled>>
        /\ main = "length" /\ main' = "data"
    BY <1>7 DEF CopyLength, device, history
  <2> QED
    BY <1>t, <1>1, <2>1 DEF HandledInv, Untouched
<1>8. CASE CopyData
  <2>1. /\ UNCHANGED <<tail_first, length, popped, handled>>
        /\ main = "data" /\ main' = IF tail_first THEN "handle" ELSE "release"
        /\ next' = 1
    BY <1>8 DEF CopyData, device, history
  <2> QED
    BY <1>t, <1>1, <2>1 DEF HandledInv, Untouched
<1>9. CASE PopRelease
  <2>0. ~Empty
    BY <1>9, <1>t DEF PopRelease, PopInv
  <2>1. Count > 0 /\ SlotOf(0) = rx_tail_ /\ Count \in Nat
    BY <1>9, <1>t, <2>0, PopSlots, RangeFacts DEF RangeShape
  <2>2. Genuine(rx_buffer_[rx_tail_]) /\ Latest < rx_buffer_[rx_tail_].n
    <3>1. 0 \in 0 .. Count - 1
      BY <2>1
    <3> QED
      BY <1>t, <2>1, <3>1 DEF RingInv
  <2>3. rx_buffer_[rx_tail_].n \in 1 .. MaxArrivals
    BY <1>t, <2>2, CanAssumption DEF Genuine, TypeOK
  <2>4. Latest' = rx_buffer_[rx_tail_].n
    BY <1>9, <1>t, <2>3, LatestFacts DEF PopRelease
  <2>5. Latest < Latest' /\ Latest <= Latest' /\ Latest' \in Nat
    BY <1>h, <2>2, <2>3, <2>4
  <2>6. /\ UNCHANGED <<tail_first, length, handled, next>>
        /\ main = "release" /\ main' = IF tail_first THEN "length" ELSE "handle"
    BY <1>9 DEF PopRelease, device
  <2>7. /\ \A i \in 1 .. Len(handled') : handled'[i][1] <= Latest'
        /\ \A i \in 1 .. Len(handled') - 1 : Follows(handled[i], handled[i + 1])'
        /\ LastByte' = LastByte
    BY <1>t, <2>5, <2>6, NothingHandled
  <2>8. ~tail_first => next = 1
    BY <1>t, <2>6 DEF PopInv
  <2>9. handled # <<>> => LastByte[2] = length[LastByte[1]]
    BY <1>t, <2>6 DEF HandledInv
  <2>10. handled # <<>> => LastByte[1] < Latest'
    <3>1. handled # <<>> => LastByte[1] <= Latest /\ LastByte[1] \in 1 .. arrived
      BY <1>h, <1>t DEF HandledShape, HandledInv, LastByte
    <3> QED
      BY <1>h, <2>5, <3>1
  <2> QED
    BY <2>6, <2>7, <2>8, <2>9, <2>10 DEF HandledInv
<1>10. CASE Handle
  <2>1. /\ UNCHANGED <<length, popped, main, msg, has_handler>>
        /\ main = "handle" /\ has_handler /\ next <= msg.dlc
        /\ next' = next + 1 /\ handled' = Append(handled, <<msg.n, next>>)
    BY <1>10 DEF Handle, device
  <2>2. Genuine(msg) /\ msg.n = Latest /\ next \in 1 .. msg.dlc + 1
    BY <1>t, <2>1 DEF PopInv
  <2>3. msg.n \in 1 .. MaxArrivals
    BY <1>t, <2>2, CanAssumption DEF Genuine, TypeOK
  <2> DEFINE b == <<msg.n, next>>
  <2>4. b \in (1 .. MaxArrivals) \X Nat /\ b[1] = msg.n /\ b[2] = next
    BY <1>n, <2>3
  <2> HIDE DEF b
  <2>5. /\ handled' = Append(handled, b)
        /\ Len(handled') = Len(handled) + 1
        /\ \A i \in 1 .. Len(handled) : handled'[i] = handled[i]
        /\ handled'[Len(handled) + 1] = b
        /\ handled' # <<>>
    <3>1. handled' = Append(handled, b)
      BY <2>1 DEF b
    <3> QED
      BY <1>h, <2>4, <3>1, AppendProperties DEF HandledShape
  <2>6. Latest' = Latest
    BY <2>1 DEF Latest
  <2>7. Len(handled) \in Nat
    BY <1>h DEF HandledShape
  <2>8. ASSUME NEW i \in 1 .. Len(handled')
        PROVE  handled'[i][1] <= Latest'
    <3>1. CASE i \in 1 .. Len(handled)
      BY <1>t, <2>5, <2>6, <3>1 DEF HandledInv
    <3>2. CASE i = Len(handled) + 1
      BY <1>h, <2>2, <2>4, <2>5, <2>6, <3>2
    <3> QED
      BY <2>5, <2>7, <3>1, <3>2
  <2>9. handled # <<>> => Follows(LastByte, b)
    <3>1. CASE next > 1
      <4>1. LastByte = <<msg.n, next - 1>>
        BY <1>t, <2>1, <3>1 DEF HandledInv
      <4>2. LastByte[1] = msg.n /\ LastByte[2] = next - 1
        BY <4>1
      <4>3. next - 1 < length[msg.n] /\ next - 1 + 1 = next
        BY <1>n, <2>1, <2>2 DEF Genuine
      <4> QED
        BY <4>2, <4>3 DEF Follows, b
    <3>2. CASE next = 1
      <4>1. handled # <<>> => /\ LastByte[2] = length[LastByte[1]]
                              /\ LastByte[1] < Latest
        BY <1>t, <2>1, <3>2 DEF HandledInv, Untouched
      <4>2. handled # <<>> => LastByte[1] \in 1 .. arrived
        BY <1>h DEF HandledShape, LastByte
      <4>3. handled # <<>> => LastByte[2] \in Nat
        <5>1. handled # <<>> => LastByte \in (1 .. MaxArrivals) \X Nat
          BY <1>h, ElementOfSeq DEF HandledShape, LastByte
        <5> QED
          BY <5>1
      <4>4. handled # <<>> => ~(LastByte[2] < length[LastByte[1]])
        BY <4>1, <4>3
      <4>5. handled # <<>> => b[1] > LastByte[1] /\ b[2] = 1
        BY <1>h, <2>2, <2>4, <3>2, <4>1, <4>2
      <4> QED
        BY <4>4, <4>5 DEF Follows
    <3> QED
      BY <2>2, <1>n, <3>1, <3>2
  <2>10. ASSUME NEW i \in 1 .. Len(handled') - 1
         PROVE  Follows(handled[i], handled[i + 1])'
    <3>0. i \in 1 .. Len(handled) /\ handled'[i] = handled[i]
      BY <2>5, <2>7, <2>10
    <3>1. CASE i \in 1 .. Len(handled) - 1
      <4>1. Follows(handled[i], handled[i + 1]) /\ handled'[i + 1] = handled[i + 1]
        BY <1>t, <2>5, <2>7, <3>1 DEF HandledInv
      <4> QED
        BY <2>1, <3>0, <4>1 DEF Follows
    <3>2. CASE i = Len(handled)
      <4>1. handled # <<>> /\ handled[i] = LastByte /\ handled'[i + 1] = b
        BY <2>5, <2>7, <3>0, <3>2, EmptySeq DEF LastByte
      <4> QED
        BY <2>1, <2>9, <3>0, <4>1 DEF Follows
    <3> QED
      BY <2>7, <3>0, <3>1, <3>2
  <2>11. LastByte' = <<msg'.n, next' - 1>> /\ next' > 1
    <3>1. LastByte' = b
      BY <2>5 DEF LastByte
    <3>2. next' - 1 = next /\ next' > 1
      BY <1>n, <2>1, <2>2
    <3> QED
      BY <2>1, <3>1, <3>2 DEF b
  <2>12. ~Untouched'
    BY <2>1, <2>11 DEF Untouched
  <2> QED
    BY <2>1, <2>5, <2>8, <2>10, <2>11, <2>12 DEF HandledInv
<1>11. CASE HandleEnd
  <2>1. /\ UNCHANGED <<length, popped, handled>>
        /\ main = "handle" /\ (~has_handler \/ next > msg.dlc) /\ main' = "test"
    BY <1>11 DEF HandleEnd, history
  <2>2. Genuine(msg) /\ next \in 1 .. msg.dlc + 1
    BY <1>t, <2>1 DEF PopInv
  <2>3. handled # <<>> => LastByte[2] = length[LastByte[1]]
    <3>1. CASE next > 1
      <4>1. LastByte = <<msg.n, next - 1>> /\ next > msg.dlc
        BY <1>t, <2>1, <3>1 DEF HandledInv
      <4>2. next - 1 = msg.dlc
        BY <1>n, <2>2, <4>1 DEF Genuine
      <4>3. LastByte[1] = msg.n /\ LastByte[2] = next - 1
        BY <4>1
      <4> QED
        BY <2>2, <4>2, <4>3 DEF Genuine
    <3>2. CASE ~(next > 1)
      BY <1>t, <3>2 DEF HandledInv
    <3> QED
      BY <3>1, <3>2
  <2>4. main' # "handle" /\ ~Untouched'
    BY <2>1 DEF Untouched
  <2> QED
    BY <1>1, <2>1, <2>3, <2>4 DEF HandledInv
<1> QED
  BY <1>2, <1>3, <1>5, <1>6, <1>7, <1>8, <1>9, <1>10, <1>11 DEF Next, Poll

LEMMA CanInvariant == Spec => []CanInv
<1>1. Init => CanInv
  <2> SUFFICES ASSUME Init PROVE CanInv
    OBVIOUS
  <2>1. TypeOK
    BY CanAssumption DEF Init, TypeOK, Slots, Step, NoMessage
  <2>2. /\ Len(length) = 0 /\ arrived = 0 /\ dropped = 0 /\ Latest = 0
        /\ main = "out" /\ handled = <<>> /\ Len(handled) = 0
    BY DEF Init, Latest
  <2>3. Count = 0
    BY <2>1, SlotFacts DEF SlotShape, Init, Empty
  <2>4. RingInv
    BY <2>2, <2>3 DEF RingInv
  <2>5. PopInv /\ HandledInv
    BY <2>2 DEF PopInv, HandledInv, Untouched
  <2> QED
    BY <2>1, <2>4, <2>5 DEF CanInv
<1>2. CanInv /\ [Next]_vars => CanInv'
  BY TypeInductive, RingInductive, PopInductive, HandledInductive DEF CanInv
<1> QED
  BY <1>1, <1>2, PTL DEF Spec

\* The types of the adapter, for every size of the ring and set of lengths.
THEOREM CanTypeCorrect == Spec => []TypeOK
BY CanInvariant, PTL DEF CanInv

\* The handler gets every message whole, in either build: neither the interrupt nor a
\* second init() gets between the bytes that poll() hands over.
THEOREM CanMessagesWhole == Spec => []MessagesWhole
<1>1. CanInv => MessagesWhole
  BY DEF CanInv, HandledInv, Follows, LastByte, MessagesWhole
<1> QED
  BY <1>1, CanInvariant, PTL
--------------------------------------------------------------------------------
(* The refinement *)

\* Every step of the adapter is a step of the abstract buffer, or invisible to it.
LEMMA CanStep ==
    ASSUME CanInv, CanInv', [Next]_vars
    PROVE  [Fifo!Next]_Fifo!vars
<1>t. TypeOK /\ TypeOK' /\ RingInv /\ PopInv
  BY DEF CanInv
<1>s. HeldShape /\ HeldShape' /\ SlotShape
  BY <1>t, HeldFacts, SlotFacts, PTL
<1>n. Count \in Nat /\ arrived \in Nat
  BY <1>t, RangeFacts DEF RangeShape
<1>1. CASE StillRing
  <2>1. Held' = Held
    BY <1>1 DEF StillRing, Held, Count, ring
  <2> QED
    BY <1>1, <2>1 DEF StillRing, Fifo!vars
<1>2. ASSUME NEW dlc \in Lengths, Push(dlc)
      PROVE  Fifo!Next
  <2>1. /\ Count' = Count + 1
        /\ \A k \in 0 .. Count : SlotOf(k)' = SlotOf(k)
        /\ \A k \in 0 .. Count - 1 : rx_buffer_'[SlotOf(k)] = rx_buffer_[SlotOf(k)]
        /\ rx_buffer_'[SlotOf(Count)] = [n |-> arrived + 1, dlc |-> dlc]
    BY <1>2, <1>t, PushSlots
  <2>2. /\ arrived < MaxArrivals /\ ~Full /\ arrived' = arrived + 1
        /\ dropped' = dropped /\ popped' = popped
    BY <1>2 DEF Push, Receiving
  <2>3. Len(Held) < Size - 1
    BY <1>s, <2>2, CanAssumption DEF SlotShape, HeldShape
  <2>4. /\ Held \in Seq(0 .. MaxArrivals) /\ Held' \in Seq(0 .. MaxArrivals)
        /\ Len(Held) = Count /\ Len(Held') = Count + 1
    BY <1>s, <2>1 DEF HeldShape
  <2>5. arrived + 1 \in 0 .. MaxArrivals
    BY <1>n, <2>2, CanAssumption
  <2>6. /\ Append(Held, arrived + 1) \in Seq(0 .. MaxArrivals)
        /\ Len(Append(Held, arrived + 1)) = Count + 1
        /\ \A k \in 1 .. Count : Append(Held, arrived + 1)[k] = Held[k]
        /\ Append(Held, arrived + 1)[Count + 1] = arrived + 1
    BY <2>4, <2>5, AppendProperties
  <2>7. ASSUME NEW k \in 1 .. Count + 1
        PROVE  Held'[k] = Append(Held, arrived + 1)[k]
    <3>0. k - 1 \in 0 .. Count /\ SlotOf(k - 1)' = SlotOf(k - 1)
      BY <1>n, <2>1
    <3>1. Held'[k] = rx_buffer_'[SlotOf(k - 1)].n
      BY <1>s, <2>1, <3>0 DEF HeldShape
    <3>2. CASE k \in 1 .. Count
      BY <1>s, <2>1, <2>6, <3>1, <3>2 DEF HeldShape
    <3>3. CASE k = Count + 1
      <4>1. k - 1 = Count
        BY <1>n, <3>3
      <4> QED
        BY <2>1, <2>6, <3>1, <3>3, <4>1
    <3>4. k \in 1 .. Count \/ k = Count + 1
      BY <1>n
    <3> QED
      BY <3>2, <3>3, <3>4
  <2>8. Held' = Append(Held, arrived + 1)
    BY <2>4, <2>6, <2>7, SeqEqual
  <2> QED
    BY <2>2, <2>3, <2>8 DEF Fifo!Next, Fifo!Accept
<1>3. CASE PushFull
  <2>1. /\ arrived < MaxArrivals /\ Full /\ arrived' = arrived + 1
        /\ dropped' = dropped + 1 /\ UNCHANGED <<ring, popped>>
    BY <1>3 DEF PushFull, Receiving
  <2>2. Held' = Held
    BY <2>1 DEF Held, Count, ring
  <2>3. Len(Held) = Size - 1
    BY <1>s, <2>1 DEF SlotShape, HeldShape
  <2> QED
    BY <2>1, <2>2, <2>3 DEF Fifo!Next, Fifo!Drop
<1>4. CASE PopRelease
  <2>0. ~Empty
    BY <1>4, <1>t DEF PopRelease, PopInv
  <2>1. /\ Count > 0
        /\ Count' = Count - 1
        /\ SlotOf(0) = rx_tail_
        /\ \A k \in 0 .. Count - 2 : SlotOf(k)' = SlotOf(k + 1)
        /\ rx_buffer_' = rx_buffer_
    BY <1>4, <1>t, <2>0, PopSlots
  <2>2. /\ Held \in Seq(0 .. MaxArrivals) /\ Held' \in Seq(0 .. MaxArrivals)
        /\ Len(Held) = Count /\ Len(Held') = Count - 1
    BY <1>s, <2>1 DEF HeldShape
  <2>3. Held # <<>>
    BY <2>1, <2>2
  <2>4. Head(Held) = rx_buffer_[rx_tail_].n
    <3>1. 1 \in 1 .. Count /\ 1 - 1 = 0
      BY <1>n, <2>1
    <3>2. Held[1] = rx_buffer_[SlotOf(0)].n
      BY <1>s, <3>1 DEF HeldShape
    <3> QED
      BY <2>1, <2>2, <2>3, <3>2, HeadTailProperties
  <2>5. /\ Tail(Held) \in Seq(0 .. MaxArrivals)
        /\ Len(Tail(Held)) = Count - 1
        /\ \A k \in 1 .. Count - 1 : Tail(Held)[k] = Held[k + 1]
    BY <2>2, <2>3, HeadTailProperties
  <2>6. ASSUME NEW k \in 1 .. Count - 1
        PROVE  Held'[k] = Tail(Held)[k]
    <3>1. /\ k - 1 \in 0 .. Count - 2 /\ k - 1 + 1 = k
          /\ k + 1 \in 1 .. Count /\ k + 1 - 1 = k
      BY <1>n
    <3>2. SlotOf(k - 1)' = SlotOf(k)
      BY <2>1, <3>1
    <3>3. Held'[k] = rx_buffer_[SlotOf(k)].n
      BY <1>s, <2>1, <3>2 DEF HeldShape
    <3>4. Held[k + 1] = rx_buffer_[SlotOf(k)].n
      BY <1>s, <3>1 DEF HeldShape
    <3> QED
      BY <2>5, <3>3, <3>4
  <2>7. Held' = Tail(Held)
    BY <2>2, <2>5, <2>6, SeqEqual
  <2> QED
    BY <1>4, <2>3, <2>4, <2>7 DEF PopRelease, Fifo!Next, Fifo!Deliver
<1> QED
  BY <1>1, <1>2, <1>3, <1>4, Still DEF Next, Poll

\* The ring implements the bounded FIFO of Size - 1 messages, in either build.
THEOREM CanImplementsFifo == Spec => FifoSpec
<1>1. Init => Fifo!Init
  <2> SUFFICES ASSUME Init PROVE Fifo!Init
    OBVIOUS
  <2>1. TypeOK
    BY CanAssumption DEF Init, TypeOK, Slots, Step, NoMessage
  <2>2. Len(Held) = 0 /\ Held \in Seq(0 .. MaxArrivals)
    BY <2>1, SlotFacts, HeldFacts DEF SlotShape, HeldShape, Init, Empty
  <2>3. Held = <<>>
    BY <2>2, EmptySeq
  <2> QED
    BY <2>3 DEF Init, Fifo!Init
<1> QED
  BY <1>1, CanInvariant, CanStep, PTL DEF Spec, FifoSpec, Fifo!Spec
================================================================================
