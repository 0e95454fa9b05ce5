-------------------------------- MODULE TxQueue --------------------------------
(***************************************************************************)
(* The transmit queue of IPCLink: messages that send() or send_async()      *)
(* encodes, as one frame or as the fragments of one, and puts into a ring   *)
(* of kTxQueueDepth slots when the queue is enabled, and hands straight to  *)
(* the adapter when it is not; process() empties the ring through           *)
(* flush_tx() for as long as the adapter accepts.  Everything runs in the   *)
(* main loop.                                                               *)
(*                                                                          *)
(* A frame is the number of its message, its place in it and its encoded    *)
(* length.  COBS adds a code byte, a delimiter and one more byte for every  *)
(* run of Block bytes without a zero.                                       *)
(***************************************************************************)
EXTENDS Naturals, Sequences, FiniteSets

CONSTANTS
    Depth,        \* kTxQueueDepth
    Lengths,      \* lengths of the raw frames of messages
    Header,       \* kFragmentHeaderSize
    Block,        \* bytes a COBS code byte can stand before, 254 in the code
    Limit,        \* physical_frame_limit, 0 for none
    MaxSends,     \* bound on the messages sent
    MaxResets     \* bound on the reset() calls

Overhead == 2     \* physical_overhead_() with COBS

\* A limit that leaves no room for data behind the header of a fragment has every
\* long message refused.
ASSUME TxQueueAssumption ==
    /\ Depth \in Nat \ {0}
    /\ Lengths \subseteq Nat \ {0}
    /\ Block \in Nat \ {0}
    /\ {Header, Limit, MaxSends, MaxResets} \subseteq Nat
    /\ Limit > 0 => Limit > Overhead + Header

VARIABLES
    tx_queue_,          \* the slots
    tx_head_,
    tx_tail_,
    tx_count_,
    enable_tx_queue,    \* config_.enable_tx_queue
    main,               \* "out", or "flush" while process() is in flush_tx()
    parts,              \* the messages send() was called for: how many frames each is
    accepted,           \* those for which it returned true
    queued,             \* frames that went into the queue
    wire,               \* frames the adapter accepted, in order
    dropped,            \* queued frames that a reset() dropped
    overtaken,          \* has a frame been sent directly past queued ones?
    resets

vars == <<tx_queue_, tx_head_, tx_tail_, tx_count_, enable_tx_queue, main, parts, accepted,
          queued, wire, dropped, overtaken, resets>>
ring == <<tx_queue_, tx_head_, tx_tail_, tx_count_>>
sent == <<parts, accepted, queued, overtaken>>

Slots == 0 .. Depth - 1
NoFrame == [n |-> 0, i |-> 0, len |-> 0]
Id(f) == <<f.n, f.i>>

AtMost(n, bound) == IF n < bound THEN n ELSE bound

\* Should send_physical_frame_ pass the frame on to the adapter?
WithinLimit(f) == Limit > 0 => f.len <= Limit

ShouldFragment(len) == Limit > 0 /\ len + Overhead > Limit

\* The lengths of the raw frames of a message.
ChunkMax == Limit - Overhead - Header
RawLengths(len) ==
    IF ShouldFragment(len)
    THEN [i \in 1 .. (len + ChunkMax - 1) \div ChunkMax |->
            Header + AtMost(ChunkMax, len - (i - 1) * ChunkMax)]
    ELSE <<len>>

\* The frames message n can become: COBS adds what the data makes it add.
Encodings(n, len) ==
    LET raw == RawLengths(len)
        Frame(i, extra) == [n |-> n, i |-> i, len |-> raw[i] + Overhead + extra]
    IN {[i \in DOMAIN raw |-> Frame(i, extra[i])] :
           extra \in {e \in [DOMAIN raw -> 0 .. len \div Block] :
                        \A i \in DOMAIN raw : e[i] <= raw[i] \div Block}}

Succ(i) == (i + 1) % Depth

\* The frames in the queue, oldest first.
Held == [k \in 1 .. tx_count_ |-> Id(tx_queue_[(tx_tail_ + k - 1) % Depth])]
Ids(s) == {s[k] : k \in DOMAIN s}

Init ==
    /\ tx_queue_ = [i \in Slots |-> NoFrame]
    /\ tx_head_ = 0
    /\ tx_tail_ = 0
    /\ tx_count_ = 0
    /\ enable_tx_queue \in BOOLEAN
    /\ main = "out"
    /\ parts = <<>>
    /\ accepted = {}
    /\ queued = {}
    /\ wire = <<>>
    /\ dropped = {}
    /\ overtaken = FALSE
    /\ resets = 0
--------------------------------------------------------------------------------
\* mutant: a full queue takes frames in the place of others
RoomAlways == Depth

\* enqueue_physical_frame_ refuses a frame that finds no room.
Room == Depth - tx_count_

\* send_or_enqueue_physical_frame_ with the queue enabled, for the frames of a
\* message one after the other: the first that is refused ends send(), and those
\* before it stay in the queue.
Enqueue(frames) ==
    LET taken == AtMost(Len(frames), Room)
        Place(s) == (s + Depth - tx_head_) % Depth
    IN /\ tx_queue_' = [s \in Slots |->
              IF Place(s) < taken THEN frames[Place(s) + 1] ELSE tx_queue_[s]]
       /\ tx_head_' = (tx_head_ + taken) % Depth
       /\ tx_count_' = tx_count_ + taken
       /\ queued' = queued \union {Id(frames[i]) : i \in 1 .. taken}
       /\ accepted' = IF taken = Len(frames) THEN accepted \union {frames[1].n} ELSE accepted
       /\ UNCHANGED <<tx_tail_, wire, overtaken>>

\* mutant: send() goes on after a fragment that was refused
TakenDirectlyGoingOn(frames) ==
    {SelectSeq(frames, LAMBDA f : WithinLimit(f) /\ f.i # refused) : refused \in 0 .. Len(frames)}

\* What the adapter can take of the frames of a message: those before one that is
\* refused, by itself or for its length.
TakenDirectly(frames) ==
    {SubSeq(frames, 1, taken) : taken \in
        {n \in 0 .. Len(frames) : \A i \in 1 .. n : WithinLimit(frames[i])}}

\* The same with the queue disabled.
SendDirectly(frames) ==
    /\ \E taken \in TakenDirectly(frames) :
          /\ wire' = wire \o [i \in DOMAIN taken |-> Id(taken[i])]
          /\ accepted' = IF taken = frames THEN accepted \union {frames[1].n} ELSE accepted
          /\ overtaken' = (overtaken \/ (taken # <<>> /\ tx_count_ > 0))
    /\ UNCHANGED <<ring, queued>>

\* send(), or send_async(), which enables the queue for the one call.
Send(len, async) ==
    /\ main = "out"
    /\ Len(parts) < MaxSends
    /\ \E frames \in Encodings(Len(parts) + 1, len) :
          /\ parts' = Append(parts, Len(frames))
          /\ IF enable_tx_queue \/ async THEN Enqueue(frames) ELSE SendDirectly(frames)
    /\ UNCHANGED <<enable_tx_queue, main, dropped, resets>>

\* enable_queues()
EnableQueue(on) ==
    /\ main = "out"
    /\ enable_tx_queue' = on
    /\ UNCHANGED <<ring, main, sent, wire, dropped, resets>>

Reset ==
    /\ main = "out"
    /\ resets < MaxResets
    /\ resets' = resets + 1
    /\ dropped' = dropped \union Ids(Held)
    /\ tx_head_' = 0
    /\ tx_tail_' = 0
    /\ tx_count_' = 0
    /\ UNCHANGED <<tx_queue_, enable_tx_queue, main, sent, wire>>

\* mutant: process() flushes only if the queue is enabled
FlushBeginIfEnabled ==
    /\ main = "out"
    /\ enable_tx_queue
    /\ main' = "flush"
    /\ UNCHANGED <<ring, enable_tx_queue, sent, wire, dropped, resets>>

\* process() comes to flush_tx().
FlushBegin ==
    /\ main = "out"
    /\ main' = "flush"
    /\ UNCHANGED <<ring, enable_tx_queue, sent, wire, dropped, resets>>

\* mutant: the frame is taken off the queue whether or not the adapter took it
FlushFrameAnyway ==
    /\ main = "flush"
    /\ tx_count_ # 0
    /\ WithinLimit(tx_queue_[tx_tail_])
    /\ \/ wire' = Append(wire, Id(tx_queue_[tx_tail_]))
       \/ UNCHANGED wire
    /\ tx_tail_' = Succ(tx_tail_)
    /\ tx_count_' = tx_count_ - 1
    /\ UNCHANGED <<tx_queue_, tx_head_, enable_tx_queue, main, sent, dropped, resets>>

\* One turn of the loop of flush_tx, the adapter accepting the frame.
FlushFrame ==
    /\ main = "flush"
    /\ tx_count_ # 0
    /\ WithinLimit(tx_queue_[tx_tail_])
    /\ wire' = Append(wire, Id(tx_queue_[tx_tail_]))
    /\ tx_tail_' = Succ(tx_tail_)
    /\ tx_count_' = tx_count_ - 1
    /\ UNCHANGED <<tx_queue_, tx_head_, enable_tx_queue, main, sent, dropped, resets>>

\* The end of flush_tx: the queue is empty, or its first frame was refused, by
\* the adapter or for its length.
FlushEnd ==
    /\ main = "flush"
    /\ main' = "out"
    /\ UNCHANGED <<ring, enable_tx_queue, sent, wire, dropped, resets>>

Next ==
    \/ \E len \in Lengths, async \in BOOLEAN : Send(len, async)
    \/ \E on \in BOOLEAN : EnableQueue(on)
    \/ Reset
    \/ FlushBegin \/ FlushFrame \/ FlushEnd

Spec == Init /\ [][Next]_vars

\* The main loop calls process() again and again, and an adapter that is offered
\* a frame again and again accepts it some time.
Fairness == WF_vars(FlushBegin) /\ WF_vars(FlushEnd) /\ SF_vars(FlushFrame)

FairSpec == Spec /\ Fairness
--------------------------------------------------------------------------------
Message == 1 .. Len(parts)

\* The types of the queue: the count never exceeds the slots (ipc.hpp:271).
TypeOK ==
    /\ tx_queue_ \in [Slots -> [n : {0} \union Message, i : Nat, len : Nat]]
    /\ tx_head_ \in Slots
    /\ tx_tail_ \in Slots
    /\ tx_count_ \in 0 .. Depth
    /\ enable_tx_queue \in BOOLEAN
    /\ main \in {"out", "flush"}
    /\ parts \in Seq(Nat)
    /\ accepted \subseteq Message
    /\ wire \in Seq(Message \X Nat)
    /\ queued \union dropped \subseteq Message \X Nat
    /\ overtaken \in BOOLEAN
    /\ resets \in 0 .. MaxResets

Before(f, g) == f[1] < g[1] \/ (f[1] = g[1] /\ f[2] < g[2])

\* The frames that went through the queue and those that are still in it are in
\* the order of their send() calls, each once: only a frame that is sent directly
\* overtakes others.
QueueKeepsOrder ==
    LET s == wire \o Held
    IN \A i, j \in 1 .. Len(s) :
          i < j /\ {s[i], s[j]} \subseteq queued => Before(s[i], s[j])

\* What send() answers is true of all fragments of the message, whether they were
\* queued or sent, and even if it was refused half-way: of an accepted message
\* every fragment is on the wire, held or dropped by a reset(), of a refused one
\* those up to some fragment that is not the last, so that no receiver takes it
\* for whole.  Of what the queue took nothing is forgotten.
AnswerIsTrue ==
    \A n \in Message :
        LET out == {f \in Ids(wire) \union Ids(Held) \union dropped : f[1] = n}
        IN /\ out = {<<n, i>> : i \in 1 .. Cardinality(out)}
           /\ n \in accepted <=> Cardinality(out) = parts[n]
           /\ \A f \in queued : f[1] = n => f \in out

\* A receiver has one reassembly buffer: unless a frame was sent directly while
\* others were queued, every fragment on the wire follows the one before it, and
\* nothing comes in between.
FragmentsTogether ==
    ~overtaken => \A k \in 1 .. Len(wire) :
        \/ wire[k][2] = 1
        \/ k > 1 /\ wire[k] = <<wire[k - 1][1], wire[k - 1][2] + 1>>

\* The queue is flushed by process().
QueueIsFlushed ==
    \A n \in 1 .. MaxSends :
        (\E f \in Ids(Held) : f[1] = n) ~> ~(\E f \in Ids(Held) : f[1] = n)
================================================================================
