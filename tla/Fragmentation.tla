----------------------------- MODULE Fragmentation -----------------------------
(***************************************************************************)
(* Long messages of IPCLink on a bus: send() cuts a raw frame that does not *)
(* fit a physical frame into fragments, and the receiving link puts them    *)
(* together again.  The configuration is Config::for_can_fd(): no CRC, no   *)
(* COBS, every physical frame carries the same CAN id, so a fragment says   *)
(* which message it belongs to only by the 8-bit sequence number and the    *)
(* total length in its header.                                              *)
(*                                                                          *)
(* Any number of nodes send on the bus and one node receives.  A frame that *)
(* was accepted by the sender's adapter may still be lost: the receiver's   *)
(* ring drops the newest message when it is full (can_adapter.cpp:249).     *)
(*                                                                          *)
(* Payload bytes are not interpreted; a byte is known by the message it was *)
(* sent in and its place there.  Payloads that begin with the two magic     *)
(* bytes of a fragment header are not sent here.                            *)
(***************************************************************************)
EXTENDS Naturals, Sequences, FiniteSets

CONSTANTS
    Senders,      \* nodes that send to the receiver
    Lengths,      \* raw frame lengths the applications use
    Limit,        \* physical_frame_limit
    Overhead,     \* physical_overhead_()
    Header,       \* kFragmentHeaderSize
    MaxPayload,   \* MaxPayload of the receiving link
    CrcSize,      \* size of the CRC the frame buffers have room for
    SeqMod,       \* values of the fragment sequence number, 2^8 in the code
    ChunkMod,     \* values of the byte that holds chunk_len, 2^8 in the code
    MaxSends,     \* bound on the send() calls of one sender
    BusCapacity   \* bound on the frames in flight

ASSUME FragmentationAssumption ==
    /\ Lengths \subseteq Nat \ {0}
    /\ {Limit, Overhead, Header, MaxPayload, CrcSize, MaxSends, BusCapacity} \subseteq Nat
    /\ Limit > Overhead + Header
    /\ {SeqMod, ChunkMod} \subseteq Nat \ {0}

\* Two bytes of a fragment hold the length of its message, and two its offset.
ASSUME LengthAssumption == \A len \in Lengths : len < 65536

VARIABLES
    fragment_seq,   \* sender -> fragment_seq_ of its link, before the wrap to 8 bits
    sends,          \* sender -> number of send() calls so far
    sending,        \* sender -> the message send() is cutting, or NoMessage
    offset,         \* sender -> the offset of the next fragment of it
    bus,            \* physical frames accepted by the adapters, not yet received
    reassembly,     \* reassembly_ of the receiving link
    delivered,      \* payloads handed to deliver_payload_, in order
    sent,           \* messages for which send() was called
    damaged,        \* messages of which a frame was refused or lost
    heard           \* sender -> sequence number, unwrapped, of its latest fragment received

senderVars == <<fragment_seq, sends, sending, offset, sent>>
receiverVars == <<reassembly, delivered, heard>>
vars == <<fragment_seq, sends, sending, offset, bus, reassembly, delivered,
          sent, damaged, heard>>

\* A message: its sender, its number among those of the sender, the sequence
\* number its fragments carry before the wrap (0 if it is not cut), its length.
Message == [from : Senders, n : 1 .. MaxSends, fseq : 0 .. MaxSends, len : Lengths]
NoMessage == [n |-> 0]

Byte == [msg : Message, at : Nat]
Bytes(m) == [i \in 1 .. m.len |-> [msg |-> m, at |-> i]]

\* What is on the bus: whole raw frames, and fragments with their headers.
Frame ==
    [fragment : {FALSE}, msg : Message, data : Seq(Byte)]
    \union [fragment : {TRUE}, msg : Message, seq : 0 .. SeqMod - 1, start : BOOLEAN,
            end : BOOLEAN, total : Nat, offset : Nat, chunk : Nat, data : Seq(Byte)]

ChunkMax == Limit - Overhead - Header
RawMax == MaxPayload + CrcSize
ShouldFragment(len) == len + Overhead > Limit

ResetReassembly == [active |-> FALSE, seq |-> 0, total |-> 0, data |-> <<>>]

Init ==
    /\ fragment_seq = [s \in Senders |-> 0]
    /\ sends = [s \in Senders |-> 0]
    /\ sending = [s \in Senders |-> NoMessage]
    /\ offset = [s \in Senders |-> 0]
    /\ bus = <<>>
    /\ reassembly = ResetReassembly
    /\ delivered = <<>>
    /\ sent = {}
    /\ damaged = {}
    /\ heard = [s \in Senders |-> 0]
--------------------------------------------------------------------------------
(* The senders *)

\* send() of a raw frame that fits one physical frame: it goes out unmarked.
SendWhole(s, len) ==
    LET m == [from |-> s, n |-> sends[s] + 1, fseq |-> 0, len |-> len]
    IN /\ sending[s] = NoMessage
       /\ sends[s] < MaxSends
       /\ ~ShouldFragment(len)
       /\ Len(bus) < BusCapacity
       /\ sends' = [sends EXCEPT ![s] = @ + 1]
       /\ sent' = sent \union {m}
       /\ bus' = Append(bus, [fragment |-> FALSE, msg |-> m, data |-> Bytes(m)])
       /\ UNCHANGED <<fragment_seq, sending, offset, damaged, receiverVars>>

NextSeq(s) == fragment_seq[s] + 1

\* send() of a longer one: the sequence number is taken before the first fragment.
SendFragmented(s, len) ==
    LET m == [from |-> s, n |-> sends[s] + 1, fseq |-> NextSeq(s), len |-> len]
    IN /\ sending[s] = NoMessage
       /\ sends[s] < MaxSends
       /\ ShouldFragment(len)
       /\ sends' = [sends EXCEPT ![s] = @ + 1]
       /\ sent' = sent \union {m}
       /\ fragment_seq' = [fragment_seq EXCEPT ![s] = NextSeq(s)]
       /\ sending' = [sending EXCEPT ![s] = m]
       /\ offset' = [offset EXCEPT ![s] = 0]
       /\ UNCHANGED <<bus, damaged, receiverVars>>

\* The fragment of m at offset o; one byte of it tells how long its data are.
Fragment(m, o) ==
    LET chunk == IF m.len - o > ChunkMax THEN ChunkMax ELSE m.len - o
    IN [fragment |-> TRUE,
        msg      |-> m,
        seq      |-> m.fseq % SeqMod,
        start    |-> o = 0,
        end      |-> o + chunk = m.len,
        total    |-> m.len,
        offset   |-> o,
        chunk    |-> chunk % ChunkMod,
        data     |-> SubSeq(Bytes(m), o + 1, o + chunk)]

\* One turn of the loop of send_fragmented_raw_frame_, the adapter accepting.
SendFragment(s) ==
    LET m == sending[s]
        f == Fragment(m, offset[s])
    IN /\ m # NoMessage
       /\ Len(bus) < BusCapacity
       /\ bus' = Append(bus, f)
       /\ offset' = [offset EXCEPT ![s] = @ + Len(f.data)]
       /\ sending' = [sending EXCEPT ![s] = IF f.end THEN NoMessage ELSE m]
       /\ UNCHANGED <<fragment_seq, sends, sent, damaged, receiverVars>>

\* The adapter refuses the frame (no free mailbox): send() returns false, and
\* the fragments already accepted stay on their way.
SendRefused(s) ==
    /\ sending[s] # NoMessage
    /\ damaged' = damaged \union {sending[s]}
    /\ sending' = [sending EXCEPT ![s] = NoMessage]
    /\ UNCHANGED <<fragment_seq, sends, offset, sent, bus, receiverVars>>

\* The receiver's ring is full when the frame arrives.
Lose ==
    /\ bus # <<>>
    /\ damaged' = damaged \union {Head(bus).msg}
    /\ bus' = Tail(bus)
    /\ UNCHANGED <<senderVars, receiverVars>>
--------------------------------------------------------------------------------
(* The receiver: deliver_raw_frame_ for the frame at the head of the bus *)

\* extract_payload_from_raw_ without CRC: the payload is the raw frame, if it fits.
Deliver(data) ==
    delivered' = IF Len(data) <= MaxPayload THEN Append(delivered, data) ELSE delivered

ReceiveWhole ==
    /\ bus # <<>>
    /\ ~Head(bus).fragment
    /\ bus' = Tail(bus)
    /\ Deliver(Head(bus).data)
    /\ UNCHANGED <<senderVars, damaged, reassembly, heard>>

\* The header and what it says of the chunk make up the whole frame.
Malformed(f) ==
    \/ f.total = 0 \/ f.total > RawMax
    \/ f.chunk = 0 \/ f.chunk # Len(f.data)
    \/ f.offset + f.chunk > f.total

\* mutant: a start fragment does not interrupt a reassembly in progress
OpenedIfIdle(f) ==
    IF f.start /\ ~reassembly.active
    THEN [active |-> TRUE, seq |-> f.seq, total |-> f.total, data |-> <<>>]
    ELSE reassembly

\* A start fragment begins a reassembly whatever was going on.
Opened(f) ==
    IF f.start
    THEN [active |-> TRUE, seq |-> f.seq, total |-> f.total, data |-> <<>>]
    ELSE reassembly

\* mutant: the sequence number is not compared
ContinuesAnySeq(r, f) ==
    /\ r.active
    /\ r.total = f.total
    /\ Len(r.data) = f.offset

\* The fragment carries on the reassembly r.
Continues(r, f) ==
    /\ r.active
    /\ r.seq = f.seq
    /\ r.total = f.total
    /\ Len(r.data) = f.offset

Fits(f) == ~Malformed(f) /\ Continues(Opened(f), f)

\* handle_fragment_frame_: a fragment out of place resets the reassembly; one in
\* place is added to it, and the last one delivers the message if it is complete.
ReceiveFragment ==
    /\ bus # <<>>
    /\ Head(bus).fragment
    /\ LET f == Head(bus)
           data == Opened(f).data \o f.data
       IN /\ heard' = [heard EXCEPT ![f.msg.from] = f.msg.fseq]
          /\ \/ /\ ~Fits(f)
                /\ reassembly' = ResetReassembly
                /\ UNCHANGED delivered
             \/ /\ Fits(f)
                /\ ~f.end
                /\ reassembly' = [Opened(f) EXCEPT !.data = data]
                /\ UNCHANGED delivered
             \/ /\ Fits(f)
                /\ f.end
                /\ reassembly' = ResetReassembly
                /\ IF Len(data) = f.total THEN Deliver(data) ELSE UNCHANGED delivered
    /\ bus' = Tail(bus)
    /\ UNCHANGED <<senderVars, damaged>>

Next ==
    \/ \E s \in Senders :
          \/ \E len \in Lengths : SendWhole(s, len) \/ SendFragmented(s, len)
          \/ SendFragment(s)
          \/ SendRefused(s)
    \/ Lose
    \/ ReceiveWhole
    \/ ReceiveFragment

Spec == Init /\ [][Next]_vars

\* The environment in which 8 bits are enough: of SeqMod - 1 fragmented messages
\* in a row of one sender, the receiver gets at least one fragment.
Audible == \A s \in Senders : fragment_seq[s] - heard[s] < SeqMod

AudibleSpec == Init /\ [][Next /\ Audible']_vars
--------------------------------------------------------------------------------
\* The types of the link: the sequence number is taken once for each send() at most,
\* and the reassembly holds bytes of messages.
TypeOK ==
    /\ fragment_seq \in [Senders -> 0 .. MaxSends]
    /\ sends \in [Senders -> 0 .. MaxSends]
    /\ sent \subseteq Message
    /\ damaged \subseteq sent
    /\ sending \in [Senders -> sent \union {NoMessage}]
    /\ offset \in [Senders -> Nat]
    /\ bus \in Seq(Frame)
    /\ reassembly \in [active : BOOLEAN, seq : 0 .. SeqMod - 1, total : Nat, data : Seq(Byte)]
    /\ delivered \in Seq(Seq(Byte))
    /\ heard \in [Senders -> 0 .. MaxSends]

\* Every delivered payload is, byte for byte, a payload somebody sent: fragments
\* of two messages never end up in one, whatever frames are lost and however
\* often the 8-bit sequence number has wrapped.
PayloadsIntact == \A i \in 1 .. Len(delivered) : \E m \in sent : delivered[i] = Bytes(m)

\* The messages whose bytes are in a payload.
Origin(payload) == {payload[k].msg : k \in 1 .. Len(payload)}

\* What comes from one sender is delivered in the order it was sent in, and nothing
\* twice: a fragment that is left of an older message never brings one to an end
\* after a younger one has been delivered.
DeliveredInOrder ==
    \A i, j \in 1 .. Len(delivered) :
        i < j => \A m \in Origin(delivered[i]), w \in Origin(delivered[j]) :
                     m.from = w.from => m.n < w.n

InFlight(m) == m = sending[m.from] \/ \E i \in 1 .. Len(bus) : bus[i].msg = m

\* A damaged message takes no other one with it: a message all of whose frames
\* got through is delivered, up to the longest chunk a byte can tell.
NoCollateralLoss ==
    \A m \in sent :
        m \notin damaged /\ ~InFlight(m) /\ m.len <= MaxPayload
            => \E i \in 1 .. Len(delivered) : delivered[i] = Bytes(m)
================================================================================
