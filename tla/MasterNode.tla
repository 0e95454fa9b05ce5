------------------------------- MODULE MasterNode ------------------------------
(***************************************************************************)
(* MasterNode: it numbers its packets, notes every request in a slot of     *)
(* pending_requests_, and gives a request up when poll() finds it older     *)
(* than the timeout.  The clock is a millisecond counter that wraps.        *)
(***************************************************************************)
EXTENDS NodeLine

CONSTANTS
    Requests,          \* slots of pending_requests_, 16 in the code
    SeqIds,            \* number of sequence numbers, 128 in the code
    Held,              \* what the memory of the slots may hold as numbers at first
    RequestTimeout,    \* config_.request_timeout_ms
    ClockMod,          \* values of a millisecond clock, 2^32 in the code
    MaxStep            \* bound on the time between two calls of a poll()

ASSUME MasterAssumption ==
    /\ {Requests, SeqIds, RequestTimeout, ClockMod, MaxStep} \subseteq Nat \ {0}
    /\ RequestTimeout + MaxStep < ClockMod
    /\ Held \subseteq [1 .. Requests -> 0 .. SeqIds]

VARIABLES
    pending_requests_,
    next_seq_id_,
    master_ready,      \* is_initialized_
    master_clock,      \* the time of the last poll()
    asked              \* number -> the request it was last given to, or NoRequest

masterVars == <<pending_requests_, next_seq_id_, master_ready, master_clock, asked>>

Slot == 1 .. Requests
SeqId == 0 .. SeqIds - 1
Clock == 0 .. ClockMod - 1
Elapsed(now, since) == (now - since + ClockMod) % ClockMod

RequestTo(address, type) == [address |-> address, type |-> type]
NoRequest == RequestTo(0, 0)

PendingRequest(seq_id, address, type, active) ==
    [seq_id |-> seq_id, slave_address |-> address, request_type |-> type,
     timestamp_ms |-> 0, is_active |-> active]

\* The constructor clears is_active; the sequence numbers in the slots are what
\* the memory held, a number that is never allocated standing for all such.
MasterInit ==
    /\ \E held \in Held :
          pending_requests_ = [i \in Slot |-> PendingRequest(held[i], 0, 0, FALSE)]
    /\ next_seq_id_ = 0
    /\ master_ready = FALSE
    /\ master_clock = 0
    /\ asked = [n \in SeqId |-> NoRequest]

\* init() takes the address of the master only.
InitMaster(address) ==
    /\ address = MasterAddress
    /\ master_ready' = TRUE
    /\ UNCHANGED <<pending_requests_, next_seq_id_, master_clock, asked, lineVars>>
--------------------------------------------------------------------------------
\* allocate_seq_id_: next_seq_id_ is the number the packet gets, whatever else in
\* flight bears it still.
AllocateSeqId(request) ==
    /\ next_seq_id_' = (next_seq_id_ + 1) % SeqIds
    /\ asked' = [asked EXCEPT ![next_seq_id_] = request]
    /\ late' = late \union {f \in line : ReadFrame(f).header.seq_id = next_seq_id_}

\* find_pending_request_: the first slot that is free and holds the number;
\* 0 for none.
FindPending(seq_id) ==
    LET found == {i \in Slot : /\ ~pending_requests_[i].is_active
                               /\ pending_requests_[i].seq_id = seq_id}
    IN IF found = {} THEN 0 ELSE CHOOSE i \in found : \A j \in found : i <= j

\* get_pending_request(), with the same convention
GetPending(seq_id) ==
    LET found == {i \in Slot : pending_requests_[i].seq_id = seq_id}
    IN IF found = {} THEN 0 ELSE CHOOSE i \in found : \A j \in found : i <= j

\* is_waiting_for_response()
IsWaitingForResponse(address) ==
    \E i \in Slot : /\ pending_requests_[i].is_active
                    /\ pending_requests_[i].slave_address = address

MayAddress(address) == address # 0 /\ address < 127

\* A request is numbered, and refused when no slot is found for its number.
SendRequest(address, pkt) ==
    LET i == FindPending(pkt.header.seq_id)
    IN /\ master_ready
       /\ MayAddress(address)
       /\ IF i = 0
          THEN AllocateSeqId(NoRequest) /\ UNCHANGED <<pending_requests_, line>>
          ELSE /\ AllocateSeqId(RequestTo(address, pkt.header.type))
               /\ pending_requests_' = [pending_requests_ EXCEPT ![i] =
                     PendingRequest(pkt.header.seq_id, address, pkt.header.type, TRUE)]
               /\ Put(Frame(MasterAddress, pkt))
       /\ UNCHANGED <<master_ready, master_clock>>

RequestState(address, state_id) ==
    SendRequest(address, CreateStateRequest(address, next_seq_id_, state_id))

SendCommand(address, cmd_id, data) ==
    SendRequest(address, CreateCommand(address, next_seq_id_, cmd_id, data, Len(data)))

\* Packets that are not requests are numbered too, and not noted.
SendUnnoted(address, type, payload) ==
    /\ master_ready
    /\ AllocateSeqId(NoRequest)
    /\ Put(Frame(MasterAddress, MakePacket(type, address, next_seq_id_, payload)))
    /\ UNCHANGED <<pending_requests_, master_ready, master_clock>>

AbortCommand(address, cmd_id) ==
    MayAddress(address) /\ SendUnnoted(address, AbortType, <<cmd_id>>)

BroadcastHeartbeatRequest == SendUnnoted(0, HeartbeatType, NoBytes)
--------------------------------------------------------------------------------
\* handle_slave_response_: it frees the slot it finds, which is free already, and
\* hands ReadFrame(f) to the callback, which is outside the node.
HandleSlaveResponse(f) ==
    LET i == FindPending(ReadFrame(f).header.seq_id)
    IN /\ master_ready
       /\ pending_requests_' = IF i = 0 THEN pending_requests_
                               ELSE [pending_requests_ EXCEPT ![i].is_active = FALSE]
       /\ Take(f)
       /\ UNCHANGED <<next_seq_id_, master_ready, master_clock, asked>>

Expired(r, now) == r.is_active /\ Elapsed(now, r.timestamp_ms) > RequestTimeout

\* mutant: the loop ends at the first request it gives up
CheckTimeoutsFirst(now) ==
    pending_requests_' = [i \in Slot |->
        [pending_requests_[i] EXCEPT !.is_active = @ /\
            ~(/\ Expired(pending_requests_[i], now)
              /\ \A j \in 1 .. i - 1 : ~Expired(pending_requests_[j], now))]]

\* mutant: the loop ends at the first free slot
CheckTimeoutsUpToFree(now) ==
    pending_requests_' = [i \in Slot |->
        [pending_requests_[i] EXCEPT !.is_active = @ /\
            ~(/\ Expired(pending_requests_[i], now)
              /\ \A j \in 1 .. i - 1 : pending_requests_[j].is_active)]]

\* check_request_timeouts_.  No code sets timestamp_ms to anything but 0.
CheckTimeouts(now) ==
    pending_requests_' = [i \in Slot |->
        [pending_requests_[i] EXCEPT !.is_active = @ /\ ~Expired(pending_requests_[i], now)]]

\* poll(), `step` milliseconds after the one before; it hands over what has been
\* received first, which is HandleSlaveResponse.
MasterPoll(step) ==
    LET now == (master_clock + step) % ClockMod
    IN /\ master_ready
       /\ master_clock' = now
       /\ CheckTimeouts(now)
       /\ UNCHANGED <<next_seq_id_, master_ready, asked, lineVars>>
================================================================================
