-------------------------------- MODULE RxQueue --------------------------------
(***************************************************************************)
(* The receive queue of IPCLink: deliver_payload_() puts a payload into a   *)
(* ring of kRxQueueDepth slots when the queue is enabled or there is no     *)
(* callback, and calls the callback otherwise; the application takes        *)
(* payloads out with receive(), or process() passes them to the callback    *)
(* once the queue is disabled.                                              *)
(*                                                                          *)
(* Where deliver_payload_() runs depends on the adapter.  An adapter that   *)
(* buffers calls the link's handler from poll(), inside process().          *)
(* RS485Adapter, and the UART adapters when they do not buffer, call it in  *)
(* the receive interrupt, between any two memory accesses of the main loop; *)
(* -- on rx_count_ is a load and a store.                                   *)
(***************************************************************************)
EXTENDS Naturals, Sequences, FiniteSets

CONSTANTS
    Depth,         \* kRxQueueDepth
    MaxArrivals,   \* bound on the payloads received
    MaxResets      \* bound on the reset() calls

ASSUME RxQueueAssumption ==
    /\ Depth \in Nat \ {0}
    /\ MaxArrivals \in Nat
    /\ MaxResets \in Nat

VARIABLES
    in_interrupt,       \* does the adapter call the handler in the interrupt?
    has_cb,             \* was the link given a callback (cb_)?
    rx_queue_,          \* the slots, holding payloads by number
    rx_head_,
    rx_tail_,
    rx_count_,
    enable_rx_queue,    \* config_.enable_rx_queue
    main,               \* what the main loop is doing: see Step
    back,               \* where it goes back to with a payload taken: "out" or "drain"
    loaded,             \* the value of rx_count_ that --rx_count_ has loaded
    arrived,            \* payloads given to deliver_payload_ so far
    delivered,          \* those the application got, in order
    direct,             \* those of them that went straight to the callback
    overruns,           \* stats_.rx_overruns: payloads that found the queue full
    dropped,            \* payloads a reset() dropped
    resets,
    raced               \* has a payload been queued while Storing?

vars == <<in_interrupt, has_cb, rx_queue_, rx_head_, rx_tail_, rx_count_, enable_rx_queue, main,
          back, loaded, arrived, delivered, direct, overruns, dropped, resets, raced>>

config == <<in_interrupt, has_cb, enable_rx_queue>>

Slots == 0 .. Depth - 1
Payload == 1 .. MaxArrivals
Succ(i) == (i + 1) % Depth

\* The main loop: outside the link; in poll(); before a turn of the loop of
\* drain_rx_queue_; in receive() or that loop after the payload is taken, after
\* the tail has moved, and after the count is loaded; in reset() after one and
\* after two of its stores.
TakeStep == {"taken", "moved", "loaded"}
Step == {"out", "poll", "drain", "reset", "reset2"} \union TakeStep

\* Payloads in the queue that the application has not got, oldest first.
Held ==
    LET first == IF main = "taken" THEN Succ(rx_tail_) ELSE rx_tail_
        n == IF main \in TakeStep THEN rx_count_ - 1 ELSE rx_count_
    IN [k \in 1 .. n |-> rx_queue_[(first + k - 1) % Depth]]

Init ==
    /\ in_interrupt \in BOOLEAN
    /\ has_cb \in BOOLEAN
    /\ rx_queue_ = [i \in Slots |-> 0]
    /\ rx_head_ = 0
    /\ rx_tail_ = 0
    /\ rx_count_ = 0
    /\ enable_rx_queue \in BOOLEAN
    /\ main = "out"
    /\ back = "out"
    /\ loaded = 0
    /\ arrived = 0
    /\ delivered = <<>>
    /\ direct = {}
    /\ overruns = 0
    /\ dropped = {}
    /\ resets = 0
    /\ raced = FALSE
--------------------------------------------------------------------------------
(* Reception *)

Queueing == enable_rx_queue \/ ~has_cb

\* The main loop is about to store a count that a payload would change, or is
\* between the stores of reset().
Storing == main \in {"loaded", "reset", "reset2"}

MayArrive == arrived < MaxArrivals /\ (in_interrupt \/ main = "poll")

\* queue_payload_
QueuePayload ==
    /\ MayArrive
    /\ Queueing
    /\ rx_count_ < Depth
    /\ arrived' = arrived + 1
    /\ rx_queue_' = [rx_queue_ EXCEPT ![rx_head_] = arrived + 1]
    /\ rx_head_' = Succ(rx_head_)
    /\ rx_count_' = rx_count_ + 1
    /\ raced' = (raced \/ Storing)
    /\ UNCHANGED <<rx_tail_, config, main, back, loaded, delivered, direct, overruns,
                   dropped, resets>>

\* mutant: a payload that finds the queue full is not counted
QueueFullUncounted ==
    /\ MayArrive
    /\ Queueing
    /\ rx_count_ >= Depth
    /\ arrived' = arrived + 1
    /\ UNCHANGED <<rx_queue_, rx_head_, rx_tail_, rx_count_, config, main, back, loaded,
                   delivered, direct, overruns, dropped, resets, raced>>

QueueFull ==
    /\ MayArrive
    /\ Queueing
    /\ rx_count_ >= Depth
    /\ arrived' = arrived + 1
    /\ overruns' = overruns + 1
    /\ UNCHANGED <<rx_queue_, rx_head_, rx_tail_, rx_count_, config, main, back, loaded,
                   delivered, direct, dropped, resets, raced>>

CallBack ==
    /\ MayArrive
    /\ ~Queueing
    /\ arrived' = arrived + 1
    /\ delivered' = Append(delivered, arrived + 1)
    /\ direct' = direct \union {arrived + 1}
    /\ UNCHANGED <<rx_queue_, rx_head_, rx_tail_, rx_count_, config, main, back, loaded,
                   overruns, dropped, resets, raced>>
--------------------------------------------------------------------------------
(* The main loop *)

ringVars == <<rx_queue_, rx_head_, rx_tail_, rx_count_>>
observers == <<arrived, delivered, direct, overruns, dropped, resets, raced>>

\* process(): poll(), then drain_rx_queue_().
ProcessBegin ==
    /\ main = "out"
    /\ main' = "poll"
    /\ UNCHANGED <<ringVars, config, back, loaded, observers>>

\* mutant: process() does not drain the queue
PollEndUndrained ==
    /\ main = "poll"
    /\ main' = "out"
    /\ UNCHANGED <<ringVars, config, back, loaded, observers>>

PollEnd ==
    /\ main = "poll"
    /\ main' = IF Queueing THEN "out" ELSE "drain"
    /\ UNCHANGED <<ringVars, config, back, loaded, observers>>

DrainEnd ==
    /\ main = "drain"
    /\ rx_count_ = 0
    /\ main' = "out"
    /\ UNCHANGED <<ringVars, config, back, loaded, observers>>

\* receive(), or a turn of the loop of drain_rx_queue_, up to the point where the
\* application has the payload.
Take(from) ==
    /\ main = from
    /\ rx_count_ # 0
    /\ delivered' = Append(delivered, rx_queue_[rx_tail_])
    /\ main' = "taken"
    /\ back' = from
    /\ UNCHANGED <<ringVars, config, loaded, arrived, direct, overruns, dropped,
                   resets, raced>>

Receive == Take("out")
DrainTake == Take("drain")

\* mutant: the tail stays where it is
MoveTailNot ==
    /\ main = "taken"
    /\ main' = "moved"
    /\ UNCHANGED <<ringVars, config, back, loaded, observers>>

MoveTail ==
    /\ main = "taken"
    /\ rx_tail_' = Succ(rx_tail_)
    /\ main' = "moved"
    /\ UNCHANGED <<rx_queue_, rx_head_, rx_count_, config, back, loaded, observers>>

LoadCount ==
    /\ main = "moved"
    /\ loaded' = rx_count_
    /\ main' = "loaded"
    /\ UNCHANGED <<ringVars, config, back, observers>>

StoreCount ==
    /\ main = "loaded"
    /\ rx_count_' = loaded - 1
    /\ loaded' = 0
    /\ main' = back
    /\ back' = "out"
    /\ UNCHANGED <<rx_queue_, rx_head_, rx_tail_, config, observers>>

\* queue_rx_payloads()
QueueRxPayloads(enabled) ==
    /\ main = "out"
    /\ enable_rx_queue' = enabled
    /\ UNCHANGED <<in_interrupt, has_cb, ringVars, main, back, loaded, observers>>

\* reset() stores the count, the tail and the head one after the other.
Reset ==
    /\ main = "out"
    /\ resets < MaxResets
    /\ resets' = resets + 1
    /\ dropped' = dropped \union {Held[k] : k \in 1 .. rx_count_}
    /\ rx_count_' = 0
    /\ main' = "reset"
    /\ UNCHANGED <<rx_queue_, rx_head_, rx_tail_, config, back, loaded, arrived, delivered,
                   direct, overruns, raced>>

ResetTail ==
    /\ main = "reset"
    /\ rx_tail_' = 0
    /\ main' = "reset2"
    /\ UNCHANGED <<rx_queue_, rx_head_, rx_count_, config, back, loaded, observers>>

\* mutant: reset() forgets the head
ResetHeadNot ==
    /\ main = "reset2"
    /\ main' = "out"
    /\ UNCHANGED <<ringVars, config, back, loaded, observers>>

ResetHead ==
    /\ main = "reset2"
    /\ rx_head_' = 0
    /\ main' = "out"
    /\ UNCHANGED <<rx_queue_, rx_tail_, rx_count_, config, back, loaded, observers>>

Next ==
    \/ QueuePayload \/ QueueFull \/ CallBack
    \/ ProcessBegin \/ PollEnd \/ DrainTake \/ DrainEnd
    \/ Receive \/ MoveTail \/ LoadCount \/ StoreCount
    \/ \E enabled \in BOOLEAN : QueueRxPayloads(enabled)
    \/ Reset \/ ResetTail \/ ResetHead

Spec == Init /\ [][Next]_vars

\* The main loop calls process() again and again, and neither it nor receive()
\* waits for anything.
Fairness ==
    /\ WF_vars(ProcessBegin) /\ WF_vars(PollEnd) /\ WF_vars(DrainTake) /\ WF_vars(DrainEnd)
    /\ WF_vars(MoveTail) /\ WF_vars(LoadCount) /\ WF_vars(StoreCount)
    /\ WF_vars(ResetTail \/ ResetHead)

FairSpec == Spec /\ Fairness
--------------------------------------------------------------------------------
\* The types of the queue: the count never exceeds the slots (ipc.hpp:285), nor
\* falls below zero in receive().
TypeOK ==
    /\ {in_interrupt, has_cb, raced} \subseteq BOOLEAN
    /\ rx_queue_ \in [Slots -> 0 .. MaxArrivals]
    /\ rx_head_ \in Slots
    /\ rx_tail_ \in Slots
    /\ rx_count_ \in 0 .. Depth
    /\ enable_rx_queue \in BOOLEAN
    /\ main \in Step
    /\ back \in {"out", "drain"}
    /\ loaded \in 0 .. Depth
    /\ arrived \in 0 .. MaxArrivals
    /\ delivered \in Seq(0 .. MaxArrivals)
    /\ direct \subseteq Payload
    /\ overruns \in 0 .. MaxArrivals
    /\ dropped \subseteq 0 .. MaxArrivals
    /\ resets \in 0 .. MaxResets

\* The payloads that went through the queue and those still in it are in the order
\* of their arrival, each once: only the callback overtakes the queue, after it was
\* disabled with payloads in it.  An interrupt may come at any access of the main
\* loop but those where it undoes what the interrupt stores.
QueueKeepsOrder ==
    LET s == delivered \o Held
    IN ~raced => \A i, j \in 1 .. Len(s) :
                    i < j /\ s[i] \notin direct /\ s[j] \notin direct => s[i] < s[j]

\* Every payload that arrived was delivered, is held, was dropped by a reset() or
\* was counted as an overrun, under the same condition.
AllAccountedFor ==
    ~raced => Len(delivered) + Len(Held) + Cardinality(dropped) + overruns = arrived

\* A payload that is being taken keeps its slot until the count is stored.
Taking == main \in TakeStep
Stored == IF Taking THEN <<delivered[Len(delivered)]>> \o Held ELSE Held
Released == IF Taking THEN SubSeq(delivered, 1, Len(delivered) - 1) ELSE delivered

Fifo == INSTANCE BoundedFifo
          WITH Capacity <- Depth, stored <- Stored, delivered <- Released, lost <- overruns

\* Without a callback the queue is a bounded first-in first-out store, which
\* nothing but reset() empties otherwise, under the same condition.
FifoSpec == Fifo!Init /\ [][has_cb \/ raced' \/ resets' # resets \/ Fifo!Next]_(Fifo!vars)

\* Once the queue is disabled for good, what is in it reaches the callback.
LeftoversReachCallback ==
    has_cb => \A p \in Payload :
        (\E k \in 1 .. Len(Held) : Held[k] = p)
            ~> (raced \/ enable_rx_queue \/ ~\E k \in 1 .. Len(Held) : Held[k] = p)
================================================================================
