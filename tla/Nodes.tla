---------------------------------- MODULE Nodes --------------------------------
(***************************************************************************)
(* A master and its slaves on one line: the packets each gets are those of  *)
(* the types it has a handler for.                                          *)
(***************************************************************************)
EXTENDS MasterNode, SlaveNode

CONSTANTS
    Ids,          \* identifiers of states and commands
    Addresses,    \* addresses the application of the master tries
    Answers       \* what the handlers of the application answer, as data

Byte == 0 .. 255

ASSUME NodesAssumption ==
    /\ Ids \subseteq Byte
    /\ Addresses \subseteq Byte
    /\ Answers \subseteq Seq(Byte)

vars == <<lineVars, masterVars, slave>>

Init == line = {} /\ late = {} /\ MasterInit /\ SlaveInit

MasterStep ==
    \/ \E address \in Addresses : InitMaster(address)
    \/ \E address \in Addresses, id \in Ids :
          \/ RequestState(address, id)
          \/ SendCommand(address, id, NoBytes)
          \/ AbortCommand(address, id)
    \/ BroadcastHeartbeatRequest
    \/ \E step \in 0 .. MaxStep : MasterPoll(step)

SlaveStep(s) ==
    \/ \E is_master \in BOOLEAN : InitSlave(s, is_master)
    \/ \E id \in Ids, data \in Answers : SendStateUpdate(s, id, data)
    \/ \E step \in 0 .. SlaveMaxStep : SlavePoll(s, step)

\* A slave is given the requests to its address.
SlaveReceives(s, f) ==
    LET header == ReadFrame(f).header
    IN /\ f.from = MasterAddress
       /\ header.address = s
       /\ \E registered \in BOOLEAN, data \in Answers :
             \/ /\ header.type = StateRequestType
                /\ HandleStateRequest(s, f, registered, data)
             \/ /\ header.type = ExecuteType
                /\ HandleCommandRequest(s, f, registered, Len(data), data)

\* The master is given what the slaves send.
MasterReceives(f) == f.from # MasterAddress /\ HandleSlaveResponse(f)

\* A frame is lost, or nobody handles it.
Lose(f) == Take(f) /\ UNCHANGED <<masterVars, slave>>

Next ==
    \/ MasterStep /\ UNCHANGED slave
    \/ \E s \in Slave : SlaveStep(s) /\ UNCHANGED masterVars
    \/ \E s \in Slave, f \in line : SlaveReceives(s, f) /\ UNCHANGED masterVars
    \/ \E f \in line : MasterReceives(f) /\ UNCHANGED slave
    \/ \E f \in line : Lose(f)

Spec == Init /\ [][Next]_vars

\* The main loop of every node calls poll() again and again while time goes on.
Fairness ==
    /\ WF_vars((\E step \in 1 .. MaxStep : MasterPoll(step)) /\ UNCHANGED slave)
    /\ \A s \in Slave :
          WF_vars((\E step \in 1 .. SlaveMaxStep : SlavePoll(s, step)) /\ UNCHANGED masterVars)

FairSpec == Spec /\ Fairness
--------------------------------------------------------------------------------
\* The types of the nodes: sequence numbers stay below SeqIds and no more frames
\* are in flight than the line has room for.
TypeOK ==
    /\ Cardinality(line) <= Room
    /\ pending_requests_ \in [Slot ->
          [seq_id : 0 .. SeqIds, slave_address : {0} \union Addresses,
           request_type : {0, StateRequestType, ExecuteType}, timestamp_ms : {0},
           is_active : BOOLEAN]]
    /\ next_seq_id_ \in SeqId
    /\ master_ready \in BOOLEAN
    /\ master_clock \in Clock
    /\ asked \in [SeqId -> [address : {0} \union Addresses,
                            type : {0, StateRequestType, ExecuteType}]]
    /\ late \subseteq line
    /\ slave \in [Slave ->
          [is_initialized : BOOLEAN, seq_counter : 0 .. CounterMod - 1,
           last_heartbeat_time : SlaveClock, clock : SlaveClock, since : 0 .. Long,
           early : BOOLEAN]]

\* Whatever a node makes of a packet, the receiver reads the packet: each frame in
\* flight announces the payload it carries and nothing else, and a response is taken
\* apart by its deserializer, which is written independently of the code that made
\* it; and so for values at the edges of what the fields hold (ValuesReadBack).
PacketsReadBack ==
    /\ ValuesReadBack
    /\ \A f \in line :
          LET pkt == ReadFrame(f)
              type == pkt.header.type
          IN /\ Frame(f.from, pkt) = f
             /\ Len(pkt.payload) = pkt.header.payload_len
             /\ type = StateResponseType =>
                   DeserializeStateResponse(pkt.payload, MaxSize).valid
             /\ type = CommandResponseType =>
                   DeserializeCommandResponse(pkt.payload, MaxSize).valid
             /\ type = HeartbeatType /\ f.from # MasterAddress =>
                   DeserializeHeartbeat(pkt.payload).valid

\* get_pending_request() looks at free slots too and answers with the first slot
\* that holds the number: if a request of that number is active, it is that one,
\* although a number can be in several slots and in use several times.
PendingIsFound ==
    \A i \in Slot : pending_requests_[i].is_active =>
        pending_requests_[GetPending(pending_requests_[i].seq_id)].is_active

\* A request does not wait forever, although the clock it is compared with wraps
\* and nothing says when it was sent: is_waiting_for_response() answers no again
\* and again, for every slave and however many requests are sent.
RequestsEnd ==
    \A address \in Slave :
        IsWaitingForResponse(address) ~> ~IsWaitingForResponse(address)

\* The request a response is an answer to, as its kind and its address tell it.
AnsweredBy(header) ==
    RequestTo(header.address,
            IF header.type = StateResponseType THEN StateRequestType ELSE ExecuteType)

\* "Sequence ID for request/response matching" (packet_protocol.hpp:62): frames are
\* lost and overtake each other, requests are refused, time out and reuse slots, yet
\* a response answers the request that its number was last given to, which is noted
\* as active as long as any of that number is; unless the number has been given away
\* while the request or the response was in flight.
AnswersMatch ==
    \A f \in line \ late :
        LET header == ReadFrame(f).header
            Matches(i) == /\ pending_requests_[i].is_active
                          /\ pending_requests_[i].seq_id = header.seq_id
        IN f.from # MasterAddress /\ header.address # MasterAddress =>
              /\ asked[header.seq_id] = AnsweredBy(header)
              /\ (\E i \in Slot : Matches(i)) =>
                    \E i \in Slot :
                        /\ Matches(i)
                        /\ AnsweredBy(header) = RequestTo(pending_requests_[i].slave_address,
                                                       pending_requests_[i].request_type)

\* Two heartbeats of a slave are at least an interval apart, also across the wrap
\* of its clock.
HeartbeatsSpaced == \A s \in Slave : ~slave[s].early

\* A slave that is initialised sends heartbeats forever.
HeartbeatsGoOn == \A s \in Slave : slave[s].is_initialized ~> slave[s].since = 0
================================================================================
