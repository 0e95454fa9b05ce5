------------------------------- MODULE CanAdapter ------------------------------
(***************************************************************************)
(* CANAdapter: the FIFO interrupt of the controller puts whole messages     *)
(* into a ring of kMaxRxMessages slots, and poll() takes them out and gives *)
(* their bytes one by one to the handler of the link.  There is no lock.    *)
(* The interrupt runs to its end on the one core, so that a turn of the     *)
(* loop of handle_rx_fifo0_ is a step; poll() can be preempted between any  *)
(* two accesses, and the copy of a message is several of them.              *)
(*                                                                          *)
(* rx_head_, rx_tail_ and the slots are not volatile: the compiler may      *)
(* store rx_tail_ before it copies the message, or after.  Either build is  *)
(* explored.                                                                *)
(*                                                                          *)
(* A message is its order of arrival and its length; a byte of it, given to *)
(* the handler, is the message and its place there.                         *)
(***************************************************************************)
EXTENDS Naturals, Sequences

CONSTANTS
    Size,          \* kMaxRxMessages
    Lengths,       \* lengths of messages, up to kMaxFrameLength
    Mailboxes,     \* transmit mailboxes of the controller
    MaxArrivals,   \* bound on the messages received
    MaxInits       \* bound on the calls of init()

ASSUME CanAssumption ==
    /\ Size \in Nat \ {0, 1}
    /\ Lengths \subseteq Nat \ {0}
    /\ {Mailboxes, MaxArrivals, MaxInits} \subseteq Nat

VARIABLES
    rx_buffer_,
    rx_head_,
    rx_tail_,
    is_initialized_,
    has_handler,       \* is rx_handler_ set?
    tail_first,        \* does the build store rx_tail_ before it copies?
    controller,        \* "stopped", "started", or "listening" with its interrupts on
    accepting,         \* has the filter been set?
    inits,             \* calls of init() so far
    mailed,            \* messages in the mailboxes
    arrived,           \* messages received so far
    dropped,           \* those the full ring dropped
    length,            \* the length each message had on the bus
    main,              \* what the main loop is doing: see Step
    msg,               \* the local msg of poll()
    next,              \* the byte of it the handler gets next
    popped,            \* messages taken out of the ring
    handled            \* bytes given to the handler

vars == <<rx_buffer_, rx_head_, rx_tail_, is_initialized_, has_handler, tail_first, controller,
          accepting, inits, mailed, arrived, dropped, length, main, msg, next, popped, handled>>
ring == <<rx_buffer_, rx_head_, rx_tail_>>
device == <<is_initialized_, has_handler, tail_first, controller, accepting, inits, mailed>>
history == <<length, popped, handled>>

Slots == 0 .. Size - 1
NoMessage == [n |-> 0, dlc |-> 0]
Step == {"out", "init", "test", "length", "data", "release", "handle"}

Succ(i) == (i + 1) % Size
Full == Succ(rx_head_) = rx_tail_
Empty == rx_head_ = rx_tail_

Init ==
    /\ rx_buffer_ = [i \in Slots |-> NoMessage]
    /\ rx_head_ = 0
    /\ rx_tail_ = 0
    /\ is_initialized_ = FALSE
    /\ has_handler \in BOOLEAN
    /\ tail_first \in BOOLEAN
    /\ controller = "stopped"
    /\ accepting = FALSE
    /\ inits = 0
    /\ mailed = 0
    /\ arrived = 0
    /\ dropped = 0
    /\ length = <<>>
    /\ main = "out"
    /\ msg = NoMessage
    /\ next = 0
    /\ popped = <<>>
    /\ handled = <<>>
--------------------------------------------------------------------------------
(* init() and send(), in the main loop *)

\* mutant: init() takes is_initialized_ back before it begins
InitAdapterForgetful ==
    /\ main = "out"
    /\ inits < MaxInits
    /\ inits' = inits + 1
    /\ mailed' = 0
    /\ is_initialized_' = FALSE
    /\ accepting' \in BOOLEAN
    /\ \/ /\ controller' \in {"stopped", "started"}
          /\ UNCHANGED main
       \/ /\ controller' = "listening"
          /\ main' = "init"
    /\ UNCHANGED <<ring, has_handler, tail_first, arrived, dropped, msg, next, history>>

\* init() up to HAL_CAN_ActivateNotification.  HAL_CAN_Init stops the controller;
\* a step that fails ends init(), except that a failure of the filter is ignored;
\* is_initialized_ keeps the value an earlier init() gave it.
InitAdapter ==
    /\ main = "out"
    /\ inits < MaxInits
    /\ inits' = inits + 1
    /\ mailed' = 0
    /\ accepting' \in BOOLEAN
    /\ \/ /\ controller' \in {"stopped", "started"}    \* failed before or after the start
          /\ UNCHANGED main
       \/ /\ controller' = "listening"
          /\ main' = "init"
    /\ UNCHANGED <<ring, is_initialized_, has_handler, tail_first, arrived, dropped, msg, next,
                   history>>

\* The interrupts are on already when init() sets is_initialized_.
InitDone ==
    /\ main = "init"
    /\ is_initialized_' = TRUE
    /\ main' = "out"
    /\ UNCHANGED <<ring, has_handler, tail_first, controller, accepting, inits, mailed, arrived,
                   dropped, msg, next, history>>

SetRxHandler ==
    /\ main = "out"
    /\ has_handler' = TRUE
    /\ UNCHANGED <<ring, is_initialized_, tail_first, controller, accepting, inits, mailed,
                   arrived, dropped, main, msg, next, history>>

\* send(), send_can_message(): the controller takes the message if it runs and a
\* mailbox is free.  The message itself goes out of this model.
Send ==
    /\ main = "out"
    /\ is_initialized_
    /\ controller # "stopped"
    /\ mailed < Mailboxes
    /\ mailed' = mailed + 1
    /\ UNCHANGED <<ring, is_initialized_, has_handler, tail_first, controller, accepting, inits,
                   arrived, dropped, main, msg, next, history>>

\* The bus takes a message from a mailbox.
Transmitted ==
    /\ mailed > 0
    /\ mailed' = mailed - 1
    /\ UNCHANGED <<ring, is_initialized_, has_handler, tail_first, controller, accepting, inits,
                   arrived, dropped, main, msg, next, history>>
--------------------------------------------------------------------------------
(* The FIFO interrupt: a turn of the loop of handle_rx_fifo0_ *)

Receiving == controller = "listening" /\ accepting /\ arrived < MaxArrivals

\* mutant: the ring is not tested for room
PushUntested(dlc) ==
    /\ Receiving
    /\ arrived' = arrived + 1
    /\ rx_buffer_' = [rx_buffer_ EXCEPT ![rx_head_] = [n |-> arrived + 1, dlc |-> dlc]]
    /\ length' = Append(length, dlc)
    /\ rx_head_' = Succ(rx_head_)
    /\ UNCHANGED <<rx_tail_, device, dropped, main, msg, next, popped, handled>>

Push(dlc) ==
    /\ Receiving
    /\ ~Full
    /\ arrived' = arrived + 1
    /\ rx_buffer_' = [rx_buffer_ EXCEPT ![rx_head_] = [n |-> arrived + 1, dlc |-> dlc]]
    /\ length' = Append(length, dlc)
    /\ rx_head_' = Succ(rx_head_)
    /\ UNCHANGED <<rx_tail_, device, dropped, main, msg, next, popped, handled>>

\* A message that finds the ring full is dropped, and nobody is told.
PushFull ==
    /\ Receiving
    /\ Full
    /\ arrived' = arrived + 1
    /\ dropped' = dropped + 1
    /\ length' = Append(length, 0)
    /\ UNCHANGED <<ring, device, main, msg, next, popped, handled>>
--------------------------------------------------------------------------------
(* poll() *)

PollBegin ==
    /\ main = "out"
    /\ is_initialized_
    /\ main' = "test"
    /\ UNCHANGED <<ring, device, arrived, dropped, msg, next, history>>

PollEnd ==
    /\ main = "test"
    /\ Empty
    /\ main' = "out"
    /\ UNCHANGED <<ring, device, arrived, dropped, msg, next, history>>

\* pop_rx_message_ finds a message.
PopBegin ==
    /\ main = "test"
    /\ ~Empty
    /\ main' = IF tail_first THEN "release" ELSE "length"
    /\ UNCHANGED <<ring, device, arrived, dropped, msg, next, history>>

\* The slot it reads: the one at rx_tail_, or before it once that is released.
Source == IF tail_first THEN (rx_tail_ + Size - 1) % Size ELSE rx_tail_

CopyLength ==
    /\ main = "length"
    /\ msg' = [msg EXCEPT !.dlc = rx_buffer_[Source].dlc]
    /\ main' = "data"
    /\ UNCHANGED <<ring, device, arrived, dropped, next, history>>

CopyData ==
    /\ main = "data"
    /\ msg' = [msg EXCEPT !.n = rx_buffer_[Source].n]
    /\ main' = IF tail_first THEN "handle" ELSE "release"
    /\ next' = 1
    /\ UNCHANGED <<ring, device, arrived, dropped, history>>

\* mutant: the message is left in the ring
PopReleaseNot ==
    /\ main = "release"
    /\ popped' = Append(popped, rx_buffer_[rx_tail_].n)
    /\ main' = IF tail_first THEN "length" ELSE "handle"
    /\ UNCHANGED <<ring, device, arrived, dropped, length, msg, next, handled>>

PopRelease ==
    /\ main = "release"
    /\ rx_tail_' = Succ(rx_tail_)
    /\ popped' = Append(popped, rx_buffer_[rx_tail_].n)
    /\ main' = IF tail_first THEN "length" ELSE "handle"
    /\ UNCHANGED <<rx_buffer_, rx_head_, device, arrived, dropped, length, msg, next, handled>>

\* The handler gets a byte.
Handle ==
    /\ main = "handle"
    /\ has_handler /\ next <= msg.dlc
    /\ handled' = Append(handled, <<msg.n, next>>)
    /\ next' = next + 1
    /\ UNCHANGED <<ring, device, arrived, dropped, length, main, msg, popped>>

\* All bytes are handled, or there is no handler.
HandleEnd ==
    /\ main = "handle"
    /\ ~has_handler \/ next > msg.dlc
    /\ main' = "test"
    /\ msg' = NoMessage
    /\ next' = 0
    /\ UNCHANGED <<ring, device, arrived, dropped, history>>

Poll == PollEnd \/ PopBegin \/ CopyLength \/ CopyData \/ PopRelease \/ Handle \/ HandleEnd

Next ==
    \/ InitAdapter \/ InitDone \/ SetRxHandler \/ Send \/ Transmitted
    \/ \E dlc \in Lengths : Push(dlc)
    \/ PushFull
    \/ PollBegin \/ Poll

Spec == Init /\ [][Next]_vars

\* The main loop calls poll() again and again; poll() and init() return.
FairSpec == Spec /\ WF_vars(InitDone) /\ WF_vars(PollBegin) /\ WF_vars(Poll)
--------------------------------------------------------------------------------
\* The types of the adapter: the indices stay inside the ring.
TypeOK ==
    /\ rx_buffer_ \in [Slots -> [n : 0 .. MaxArrivals, dlc : {0} \union Lengths]]
    /\ rx_head_ \in Slots
    /\ rx_tail_ \in Slots
    /\ {is_initialized_, has_handler, tail_first, accepting} \subseteq BOOLEAN
    /\ controller \in {"stopped", "started", "listening"}
    /\ inits \in 0 .. MaxInits
    /\ mailed \in 0 .. Mailboxes
    /\ arrived \in 0 .. MaxArrivals
    /\ dropped \in 0 .. MaxArrivals
    /\ main \in Step
    /\ msg \in [n : 0 .. MaxArrivals, dlc : {0} \union Lengths]
    /\ next \in Nat
    /\ length \in Seq({0} \union Lengths)
    /\ popped \in Seq(1 .. MaxArrivals)
    /\ handled \in Seq((1 .. MaxArrivals) \X Nat)

\* What the link relies on when it reassembles fragments and keeps in step with
\* the length prefix: the bytes of a message reach the handler together, in their
\* order, before those of any later message, and all of them.  It holds in either
\* build: the slot a message is copied from after rx_tail_ has left it is the one
\* that a full ring keeps free.
MessagesWhole ==
    /\ \A i \in 1 .. Len(handled) - 1 :
          LET this == handled[i]
              that == handled[i + 1]
          IN IF this[2] < length[this[1]]
             THEN that = <<this[1], this[2] + 1>>
             ELSE that[1] > this[1] /\ that[2] = 1
    /\ main = "test" /\ handled # <<>> =>
          LET last == handled[Len(handled)]
          IN last[2] = length[last[1]]

\* The messages in the ring, oldest first
Count == (rx_head_ + Size - rx_tail_) % Size
Held == [k \in 1 .. Count |-> rx_buffer_[(rx_tail_ + k - 1) % Size].n]

Fifo == INSTANCE BoundedFifo
          WITH Capacity <- Size - 1, stored <- Held, delivered <- popped, lost <- dropped

\* The ring behaves as the atomic buffer of Size - 1 messages, in either build:
\* poll() takes the messages out in their order and none twice.
FifoSpec == Fifo!Spec

\* A message the ring took reaches the handler, if there is one: init() leaves no
\* message behind that came before is_initialized_, nor does a second init() that
\* fails.
MessageIsHandled ==
    \A n \in 1 .. MaxArrivals :
        (\E k \in 1 .. Count : Held[k] = n)
            ~> (~has_handler \/ \E i \in 1 .. Len(popped) : popped[i] = n)
================================================================================
