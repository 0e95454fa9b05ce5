-------------------------------- MODULE NodeLine -------------------------------
(***************************************************************************)
(* What lies between the nodes: the codec, the adapters and the bus, which  *)
(* send_packet_to_slave_, send_response_to_master_ and                      *)
(* process_received_packet_ leave to an integration to come.  A packet put  *)
(* on the line is serialized; frames are in flight in any number up to      *)
(* Room, arrive in any order or not at all, and arrive whole, as the CRC    *)
(* appended by the codec has it.                                            *)
(***************************************************************************)
EXTENDS PacketProtocol, FiniteSets

CONSTANT Room        \* bound on the frames in flight

ASSUME LineAssumption == Room \in Nat \ {0}

VARIABLES
    line,       \* the frames in flight
    late        \* those whose number the master has given to another packet since

lineVars == <<line, late>>

MasterAddress == 0

\* A frame: who sends it, and its bytes.
Frame(from, pkt) ==
    [from |-> from,
     bytes |-> SerializeHeader(pkt.header, KHeaderSize + KMaxPayloadSize) \o pkt.payload]

\* The packet a receiver reads: the header tells how long the payload is.
ReadFrame(f) ==
    LET read == DeserializeHeader(f.bytes)
    IN [header |-> read.header,
        payload |-> Prefix(From(f.bytes, KHeaderSize + 2), read.header.payload_len)]

\* The line with a frame put on it; on a full one the frame is lost.
With(frames, f) == IF Cardinality(frames) < Room THEN frames \union {f} ELSE frames

Put(f) == line' = With(line, f)
Take(f) == line' = line \ {f} /\ late' = late \ {f}

\* The answer g to a late frame is late, if it finds room.
TakeAndPut(f, g) ==
    /\ line' = With(line \ {f}, g)
    /\ late' = {h \in line' : h \in late \/ (h = g /\ f \in late)}
================================================================================
