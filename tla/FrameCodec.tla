-------------------------------- MODULE FrameCodec -----------------------------
(***************************************************************************)
(* Frames as functions of payloads: what IPCLink puts around a payload and  *)
(* takes off again (build_raw_frame_, extract_payload_from_raw_) and the    *)
(* frame codec, which does the same with COBS behind it.                    *)
(***************************************************************************)
EXTENDS Cobs, Crc, SequencesExt

CONSTANTS
    RawMax,      \* raw_buf, decoded: bytes of a raw frame, 512 in the code
    Payloads,    \* payloads to look at, sequences of bytes
    Burst        \* consecutive bits of a raw frame that may be damaged

ASSUME CodecAssumption ==
    /\ RawMax \in Nat
    /\ Burst \in Nat \ {0, 1}
    /\ Payloads \subseteq Seq(0 .. 255)

CrcSize == Width \div 8

RawFrame(payload) == payload \o CrcBytes(payload)

\* The payload of a raw frame, as a set of at most one, into `capacity` bytes
PayloadOf(decoded, capacity) ==
    LET n == Len(decoded) - CrcSize
        payload == SubSeq(decoded, 1, n)
    IN IF /\ Len(decoded) >= CrcSize
          /\ n <= capacity
          /\ SubSeq(decoded, n + 1, Len(decoded)) = CrcBytes(payload)
       THEN {payload} ELSE {}

\* mutant: the raw frame is taken for encoded already
EncodeFramePlain(payload, size) ==
    LET raw_buf == RawFrame(payload)
    IN IF Len(raw_buf) > RawMax \/ Len(raw_buf) > size THEN <<>> ELSE Append(raw_buf, 0)

\* encode_frame, <<>> for 0: the delimiter is not counted in the size, so that a
\* frame that fills the buffer ends one byte behind it.
EncodeFrame(payload, size) ==
    LET raw_buf == RawFrame(payload)
    IN IF size = 0 \/ Len(raw_buf) > RawMax \/ Len(Encode(raw_buf)) > size THEN <<>>
       ELSE Append(Encode(raw_buf), 0)

\* decode_frame, of a frame without its delimiter
DecodeFrame(enc, capacity) ==
    UNION {PayloadOf(decoded, capacity) : decoded \in Decode(enc, RawMax)}
--------------------------------------------------------------------------------
\* The longest a raw frame of n bytes becomes without its delimiter.
LongestEncoding(n) == n + n \div Block + 1

\* A payload is read back as it was sent, empty or not, with zeros and full blocks
\* anywhere, the bytes of the CRC among them, at the smallest capacity that holds
\* it, and refused at a smaller one; it is refused by the sender only if its raw
\* frame does not fit into raw_buf.
PayloadsReadBack ==
    \A p \in Payloads :
        LET n == Len(p)
            frame == EncodeFrame(p, LongestEncoding(n + CrcSize))
            enc == Front(frame)
        IN IF n + CrcSize > RawMax THEN frame = <<>>
           ELSE /\ frame # <<>> /\ Last(frame) = 0
                /\ \A i \in DOMAIN enc : enc[i] # 0
                /\ DecodeFrame(enc, n) = {p}
                /\ n > 0 => DecodeFrame(enc, n - 1) = {}

\* Bytes with the bits at the positions turned over, counted in the order in which
\* the CRC takes them
Damaged(bytes, positions) ==
    [k \in DOMAIN bytes |->
        ByteOf(Xor(Bits(bytes[k]), {i \in 0 .. 7 : 8 * k - 1 - i \in positions}))]

Positions(bytes) == 0 .. 8 * Len(bytes) - 1

\* No single damaged bit of a frame on the line goes unnoticed, although it may
\* move the zeros of the raw frame; in a raw frame no two damaged bits do, nor any
\* damage within Burst consecutive bits.  The bound is less than the width of the
\* CRC: its bytes follow the payload in the wrong order, and some bursts of 13
\* bits across them pass.
DamageRefused ==
    \A p \in Payloads :
        LET raw_buf == RawFrame(p)
            enc == Encode(raw_buf)
            Caught(positions) == PayloadOf(Damaged(raw_buf, positions), Len(p)) = {}
        IN /\ \A i \in Positions(enc) : DecodeFrame(Damaged(enc, {i}), RawMax) = {}
           /\ \A i, j \in Positions(raw_buf) : Caught({i, j})
           /\ \A i \in Positions(raw_buf), more \in SUBSET (1 .. Burst - 1) :
                 LET positions == {i} \union {i + k : k \in more}
                 IN positions \subseteq Positions(raw_buf) => Caught(positions)
================================================================================
