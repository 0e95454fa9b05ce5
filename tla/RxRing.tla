--------------------------------- MODULE RxRing --------------------------------
(***************************************************************************)
(* The byte ring between the UART receive interrupt and the main loop of    *)
(* STM32UARTAdapter: push_rx_byte_ runs in the interrupt, pop_rx_byte_ in   *)
(* poll().  There is no lock; the only discipline is that the interrupt     *)
(* alone writes rx_head_ and the loop alone writes rx_tail_.  The module    *)
(* splits both functions at their accesses to the shared fields, and lets   *)
(* them interleave at every access: an interrupt that preempts the loop,    *)
(* and also the two cores of the ESP32, whose UARTAdapter::isr_rx_byte and  *)
(* UARTAdapter::poll make the same accesses in the same order.              *)
(*                                                                          *)
(* A byte is named by its order of arrival (see BoundedFifo).               *)
(***************************************************************************)
EXTENDS Naturals, Sequences

CONSTANTS Size,          \* kRxBufferSize
          MaxArrivals    \* bound on the bytes that arrive in one behaviour

ASSUME RingAssumption == Size \in Nat \ {0, 1} /\ MaxArrivals \in Nat

VARIABLES
    buffer,      \* rx_buffer_
    head,        \* rx_head_, written by the interrupt only
    tail,        \* rx_tail_, written by the loop only
    overruns,    \* rx_overruns_
    arrived,     \* bytes received from the wire; the newest one is rx_byte_
    isr,         \* where push_rx_byte_ is
    loop,        \* where poll() is
    popped,      \* the local b of poll()
    delivered    \* bytes handed to rx_handler_

ringVars == <<buffer, head, tail, overruns>>
vars == <<buffer, head, tail, overruns, arrived, isr, loop, popped, delivered>>

Slots == 0 .. Size - 1
Succ(i) == (i + 1) % Size

Init ==
    /\ buffer = [i \in Slots |-> 0]
    /\ head = 0
    /\ tail = 0
    /\ overruns = 0
    /\ arrived = 0
    /\ isr = "out"
    /\ loop = "out"
    /\ popped = 0
    /\ delivered = <<>>
--------------------------------------------------------------------------------
(* push_rx_byte_, in the interrupt *)

\* mutant: the ring is not tested for room
PushBeginUntested ==
    /\ isr = "out"
    /\ arrived < MaxArrivals
    /\ arrived' = arrived + 1
    /\ isr' = "store"
    /\ UNCHANGED <<ringVars, loop, popped, delivered>>

\* a byte arrives and the ring has room for it
PushBegin ==
    /\ isr = "out"
    /\ arrived < MaxArrivals
    /\ Succ(head) # tail
    /\ arrived' = arrived + 1
    /\ isr' = "store"
    /\ UNCHANGED <<ringVars, loop, popped, delivered>>

\* mutant: the dropped byte is not counted
PushOverrunUncounted ==
    /\ isr = "out"
    /\ arrived < MaxArrivals
    /\ Succ(head) = tail
    /\ arrived' = arrived + 1
    /\ UNCHANGED <<ringVars, isr, loop, popped, delivered>>

\* a byte arrives and the ring is full: the byte is dropped
PushOverrun ==
    /\ isr = "out"
    /\ arrived < MaxArrivals
    /\ Succ(head) = tail
    /\ arrived' = arrived + 1
    /\ overruns' = overruns + 1
    /\ UNCHANGED <<buffer, head, tail, isr, loop, popped, delivered>>

PushStore ==
    /\ isr = "store"
    /\ buffer' = [buffer EXCEPT ![head] = arrived]
    /\ isr' = "publish"
    /\ UNCHANGED <<head, tail, overruns, arrived, loop, popped, delivered>>

PushPublish ==
    /\ isr = "publish"
    /\ head' = Succ(head)
    /\ isr' = "out"
    /\ UNCHANGED <<buffer, tail, overruns, arrived, loop, popped, delivered>>

(* pop_rx_byte_ and the call of the handler, in the loop of poll() *)

\* mutant: the ring counts as empty while it holds a single byte
PopBeginOffByOne ==
    /\ loop = "out"
    /\ tail # head
    /\ Succ(tail) # head
    /\ loop' = "load"
    /\ UNCHANGED <<ringVars, arrived, isr, popped, delivered>>

\* the test rx_tail_ == rx_head_ fails; when it holds, poll() returns
PopBegin ==
    /\ loop = "out"
    /\ tail # head
    /\ loop' = "load"
    /\ UNCHANGED <<ringVars, arrived, isr, popped, delivered>>

\* mutant: the slot is released before it is read
PopLoadReleased ==
    /\ loop = "load"
    /\ popped' = buffer[Succ(tail)]
    /\ loop' = "release"
    /\ UNCHANGED <<ringVars, arrived, isr, delivered>>

PopLoad ==
    /\ loop = "load"
    /\ popped' = buffer[tail]
    /\ loop' = "release"
    /\ UNCHANGED <<ringVars, arrived, isr, delivered>>

PopRelease ==
    /\ loop = "release"
    /\ tail' = Succ(tail)
    /\ loop' = "handle"
    /\ UNCHANGED <<buffer, head, overruns, arrived, isr, popped, delivered>>

Handle ==
    /\ loop = "handle"
    /\ delivered' = Append(delivered, popped)
    /\ loop' = "out"
    /\ UNCHANGED <<ringVars, arrived, isr, popped>>

Interrupt == PushBegin \/ PushOverrun \/ PushStore \/ PushPublish
Poll == PopBegin \/ PopLoad \/ PopRelease \/ Handle

Next == Interrupt \/ Poll

Spec == Init /\ [][Next]_vars

\* An interrupt that has begun returns, and the main loop calls poll() forever.
FairSpec == Spec /\ WF_vars(PushStore \/ PushPublish) /\ WF_vars(Poll)
--------------------------------------------------------------------------------
\* The types of the ring: both indices stay inside the buffer, at every access.
TypeOK ==
    /\ buffer \in [Slots -> 0 .. MaxArrivals]
    /\ head \in Slots
    /\ tail \in Slots
    /\ overruns \in 0 .. MaxArrivals
    /\ arrived \in 0 .. MaxArrivals
    /\ isr \in {"out", "store", "publish"}
    /\ loop \in {"out", "load", "release", "handle"}
    /\ popped \in 0 .. MaxArrivals
    /\ delivered \in Seq(0 .. MaxArrivals)

\* bytes between tail and head, and the slot of the k-th of them (k from 0)
Count == IF tail <= head THEN head - tail ELSE head - tail + Size
Slot(k) == IF tail + k < Size THEN tail + k ELSE tail + k - Size

Contents == [k \in 1 .. Count |-> buffer[Slot(k - 1)]]
Pending == IF isr = "out" THEN <<>> ELSE <<arrived>>
InHand == IF loop = "handle" THEN <<popped>> ELSE <<>>

\* What the buffer holds for its clients: a byte is in from the test that
\* found room for it, and out from the release of its slot.
Stored == Contents \o Pending
Delivered == delivered \o InHand

\* The ring without locks behaves as an atomic drop-newest FIFO of Size - 1
\* bytes: no byte is lost while there is room, and none is repeated, torn or
\* overtaken, whatever the interleaving of push_rx_byte_ and pop_rx_byte_.
Fifo == INSTANCE BoundedFifo
          WITH Capacity <- Size - 1, stored <- Stored,
               delivered <- Delivered, lost <- overruns

FifoSpec == Fifo!Spec

\* The interrupt never writes a slot the loop is reading: between the test of
\* pop_rx_byte_ and its release of the slot, push_rx_byte_ stores elsewhere.
NoSlotRace == isr = "store" /\ loop \in {"load", "release"} => head # tail

\* Every byte that arrived is exactly one of handled, held or counted in
\* rx_overruns_, and bytes are handled in the order they arrived.
InOrderOnce == Fifo!InOrderOnce

\* A byte that got into the ring reaches the handler.
StoredIsHandled ==
    \A n \in 1 .. MaxArrivals :
        (\E i \in 1 .. Len(Stored) : Stored[i] = n)
            ~> (\E i \in 1 .. Len(delivered) : delivered[i] = n)
================================================================================
