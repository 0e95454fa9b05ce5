----------------------------- MODULE PacketProtocol ----------------------------
(***************************************************************************)
(* The packets of the master and slave nodes (packet_protocol.cpp): how a   *)
(* packet is made, and what its header and its payload are as bytes.  A     *)
(* serializer answers NoBytes, a deserializer Invalid, where the code       *)
(* returns false.  A packet type and an error code are their code points.   *)
(***************************************************************************)
EXTENDS Naturals, Sequences

CONSTANT MaxSize     \* kMaxSize of the payloads with data, 248 in the code

Sop == 126
KHeaderSize == 5
KMaxPayloadSize == 256

ASSUME PacketAssumption == MaxSize \in 2 .. KMaxPayloadSize

\* PacketType
HeartbeatType == 1
AckType == 2
ErrorType == 4
StateRequestType == 16
StateResponseType == 17
ExecuteType == 32
CommandResponseType == 33
AbortType == 34

NoBytes == <<>>
Invalid == [valid |-> FALSE]

High(word) == (word \div 256) % 256
Low(word) == word % 256
Word(high, low) == 256 * high + low

AtMost(n, bound) == IF n < bound THEN n ELSE bound
Prefix(s, n) == SubSeq(s, 1, AtMost(n, Len(s)))
From(s, n) == SubSeq(s, n, Len(s))
--------------------------------------------------------------------------------
(* Headers *)

Header(address, type, payload_len, seq_id) ==
    [address |-> address, type |-> type, payload_len |-> payload_len, seq_id |-> seq_id]

\* mutant: the two bytes of the length change places
SerializeHeaderLittleEndian(h, size) ==
    IF size < KHeaderSize THEN NoBytes
    ELSE <<Sop, h.address, h.type, Low(h.payload_len), High(h.payload_len), h.seq_id>>

\* Six bytes are written, into a buffer that need only hold five.
SerializeHeader(h, size) ==
    IF size < KHeaderSize THEN NoBytes
    ELSE <<Sop, h.address, h.type, High(h.payload_len), Low(h.payload_len), h.seq_id>>

DeserializeHeader(bytes) ==
    IF Len(bytes) < KHeaderSize + 1 \/ Head(bytes) # Sop THEN Invalid
    ELSE [valid |-> TRUE,
          header |-> Header(bytes[2], bytes[3], Word(bytes[4], bytes[5]), bytes[6])]
--------------------------------------------------------------------------------
(* Payloads: their serializers, over a buffer of `size` bytes *)

SerializeHeartbeat(status, uptime_ms, size) ==
    IF size < 3 THEN NoBytes ELSE <<status, High(uptime_ms), Low(uptime_ms)>>

SerializeAck(seq_id, size) == IF size < 1 THEN NoBytes ELSE <<seq_id>>

SerializeError(error_code, info, size) ==
    IF size < 2 THEN NoBytes ELSE <<error_code, info>>

SerializeStateRequest(state_id, size) == IF size < 1 THEN NoBytes ELSE <<state_id>>

\* Data behind a lead: the identifier, and in a command response the status.
SerializeData(lead, data, size) ==
    IF size < Len(lead) + Len(data) THEN NoBytes ELSE lead \o data

SerializeStateResponse(state_id, data, size) == SerializeData(<<state_id>>, data, size)
SerializeCommand(command_id, data, size) == SerializeData(<<command_id>>, data, size)
SerializeCommandResponse(command_id, status, data, size) ==
    SerializeData(<<command_id, status>>, data, size)
--------------------------------------------------------------------------------
(* Payloads: their deserializers *)

DeserializeHeartbeat(bytes) ==
    IF Len(bytes) < 3 THEN Invalid
    ELSE [valid |-> TRUE, status |-> bytes[1], uptime_ms |-> Word(bytes[2], bytes[3])]

DeserializeAck(bytes) ==
    IF Len(bytes) < 1 THEN Invalid ELSE [valid |-> TRUE, seq_id |-> bytes[1]]

DeserializeError(bytes) ==
    IF Len(bytes) < 2 THEN Invalid
    ELSE [valid |-> TRUE, error_code |-> bytes[1], additional_info |-> bytes[2]]

DeserializeStateRequest(bytes) ==
    IF Len(bytes) < 1 THEN Invalid ELSE [valid |-> TRUE, state_id |-> bytes[1]]

\* Data behind a lead of n bytes, into a buffer of `size` bytes
DeserializeData(bytes, n, size) ==
    IF Len(bytes) < n \/ Len(bytes) - n > size THEN Invalid
    ELSE [valid |-> TRUE, lead |-> Prefix(bytes, n), data |-> From(bytes, n + 1)]

DeserializeStateResponse(bytes, size) == DeserializeData(bytes, 1, size)
DeserializeCommand(bytes, size) == DeserializeData(bytes, 1, size)
DeserializeCommandResponse(bytes, size) == DeserializeData(bytes, 2, size)
--------------------------------------------------------------------------------
(* Packets.  payload_size is Len(payload): what lies behind is not initialised. *)

MakePacket(type, address, seq_id, payload) ==
    [header |-> Header(address, type, Len(payload), seq_id), payload |-> payload]

CreateHeartbeat(address, seq_id, status, uptime_ms) ==
    MakePacket(HeartbeatType, address, seq_id,
               SerializeHeartbeat(status, uptime_ms, KMaxPayloadSize))

CreateAck(address, seq_id) ==
    MakePacket(AckType, address, seq_id, SerializeAck(seq_id, KMaxPayloadSize))

CreateError(address, seq_id, error) ==
    MakePacket(ErrorType, address, seq_id, SerializeError(error, 0, KMaxPayloadSize))

CreateStateRequest(address, seq_id, state_id) ==
    MakePacket(StateRequestType, address, seq_id,
               SerializeStateRequest(state_id, KMaxPayloadSize))

\* What does not fit is cut off.  data = NoBytes with len > 0 is a null pointer,
\* of which the header still announces len bytes.
CreateWithData(type, address, seq_id, lead, data, len) ==
    LET total == Len(lead) + len
    IN [header |-> Header(address, type, AtMost(total, MaxSize), seq_id),
        payload |-> IF data # NoBytes /\ len > 0
                    THEN lead \o Prefix(data, AtMost(len, MaxSize - Len(lead)))
                    ELSE lead]

CreateStateResponse(address, seq_id, state_id, data, len) ==
    CreateWithData(StateResponseType, address, seq_id, <<state_id>>, data, len)

CreateCommand(address, seq_id, cmd_id, data, len) ==
    CreateWithData(ExecuteType, address, seq_id, <<cmd_id>>, data, len)

CreateCommandResponse(address, seq_id, cmd_id, status, data, len) ==
    CreateWithData(CommandResponseType, address, seq_id, <<cmd_id, status>>, data, len)
--------------------------------------------------------------------------------
\* Values at the edges of a byte and of a 16-bit word, and data around MaxSize
Bytes == {0, 1, 126, 255}
Words == {0, 1, 255, 256, 65535}
Data == {[k \in 1 .. n |-> k] : n \in 0 .. MaxSize}

\* Whatever is serialized is read back the same, at the smallest buffer the code
\* accepts: headers, and packets with their payloads as the create functions and
\* the payload classes, which are written independently, have them.  Data is read
\* back behind the right identifier and status, whole or cut to what a packet
\* holds, and the packet announces what it carries.
ValuesReadBack ==
    /\ \A a, t, q \in Bytes, n \in Words :
          LET h == Header(a, t, n, q)
          IN DeserializeHeader(SerializeHeader(h, KHeaderSize)) = [valid |-> TRUE, header |-> h]
    /\ \A b, q \in Bytes, w \in Words :
          /\ DeserializeHeartbeat(CreateHeartbeat(0, q, b, w).payload)
                = [valid |-> TRUE, status |-> b, uptime_ms |-> w]
          /\ DeserializeAck(CreateAck(b, q).payload) = [valid |-> TRUE, seq_id |-> q]
          /\ DeserializeError(CreateError(0, q, b).payload)
                = [valid |-> TRUE, error_code |-> b, additional_info |-> 0]
          /\ DeserializeStateRequest(CreateStateRequest(0, q, b).payload)
                = [valid |-> TRUE, state_id |-> b]
    /\ \A b, e \in Bytes, d \in Data :
          LET n == Len(d)
              state == CreateStateResponse(0, 0, b, d, n)
              command == CreateCommand(0, 0, b, d, n)
              response == CreateCommandResponse(0, 0, b, e, d, n)
              Read(lead) == [valid |-> TRUE, lead |-> lead,
                             data |-> Prefix(d, MaxSize - Len(lead))]
          IN /\ \A pkt \in {state, command, response} : pkt.header.payload_len = Len(pkt.payload)
             /\ DeserializeStateResponse(state.payload, n) = Read(<<b>>)
             /\ DeserializeCommand(command.payload, n) = Read(<<b>>)
             /\ DeserializeCommandResponse(response.payload, n) = Read(<<b, e>>)
             /\ n + 1 <= MaxSize =>
                   /\ SerializeStateResponse(b, d, n + 1) = state.payload
                   /\ SerializeCommand(b, d, n + 1) = command.payload
             /\ n + 2 <= MaxSize =>
                   SerializeCommandResponse(b, e, d, n + 2) = response.payload
================================================================================
