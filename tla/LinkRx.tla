--------------------------------- MODULE LinkRx --------------------------------
(***************************************************************************)
(* The framing of IPCLink: the sender turns a raw frame into the bytes of a *)
(* physical frame, and on_raw_byte() of the receiver finds the raw frames   *)
(* again in the bytes that come out of the adapter.                         *)
(*                                                                          *)
(* With COBS the line is a UART: bytes get lost and appear between others.  *)
(* With the length prefix it is a CAN bus: a physical frame is one CAN      *)
(* message, which comes as a whole or not at all (no sender on the bus uses *)
(* another format).                                                         *)
(*                                                                          *)
(* The CRC is ideal: a raw frame passes if it is the one being sent.        *)
(***************************************************************************)
EXTENDS Cobs

CONSTANTS
    Raws,          \* raw frames that are sent, sequences of bytes
    EncBufSize,    \* the size of rx_buf_
    RawBufSize     \* RawPayloadBufSize

ASSUME LinkRxAssumption ==
    /\ {EncBufSize, RawBufSize} \subseteq Nat
    /\ Raws \subseteq Seq(0 .. Block + 1) \ {<<>>}
    /\ \A raw \in Raws : Len(raw) <= RawBufSize
    /\ RawBufSize + RawBufSize \div Block + 2 <= EncBufSize
    /\ \A n \in 1 .. RawBufSize : {n \div 256, n % 256} \subseteq 0 .. Block + 1

VARIABLES
    use_cobs,         \* config_.use_cobs; otherwise config_.use_length_prefix
    rx_buf_,          \* the rx_idx_ bytes in rx_buf_
    length_prefix_,   \* the length_prefix_bytes_ bytes in length_prefix_buf_
    raw,              \* the raw frame being sent
    line,             \* the bytes of it that the receiver has not got
    intact,           \* is it undamaged so far?
    got,              \* was it given to deliver_raw_frame_ and passed the CRC?
    calm              \* undamaged frames in a row before it, up to Patience

rxVars == <<rx_buf_, length_prefix_>>
vars == <<use_cobs, rxVars, raw, line, intact, got, calm>>

Byte == 0 .. Block + 1

\* After how many undamaged frames the next is expected to be delivered.
Patience == 2
--------------------------------------------------------------------------------
\* send_raw_frame_
Physical(r) ==
    IF use_cobs THEN Append(Encode(r), 0)
    ELSE <<Len(r) \div 256, Len(r) % 256>> \o r

Init ==
    /\ use_cobs \in BOOLEAN
    /\ rx_buf_ = <<>>
    /\ length_prefix_ = <<>>
    /\ raw = <<>>
    /\ line = <<>>
    /\ intact = TRUE
    /\ got = TRUE
    /\ calm = Patience
--------------------------------------------------------------------------------
(* The line *)

\* The next frame is sent when the bytes of the last one are through.
Send(r) ==
    /\ line = <<>>
    /\ calm' = IF ~intact THEN 0 ELSE IF calm < Patience THEN calm + 1 ELSE Patience
    /\ raw' = r
    /\ line' = Physical(r)
    /\ intact' = TRUE
    /\ got' = FALSE
    /\ UNCHANGED <<use_cobs, rxVars>>

LoseByte ==
    /\ use_cobs
    /\ line # <<>>
    /\ line' = Tail(line)
    /\ intact' = FALSE
    /\ UNCHANGED <<use_cobs, rxVars, raw, got, calm>>

\* A CAN message is lost before its first byte reaches the link.
LoseMessage ==
    /\ ~use_cobs
    /\ line = Physical(raw)
    /\ line # <<>>
    /\ line' = <<>>
    /\ intact' = FALSE
    /\ UNCHANGED <<use_cobs, rxVars, raw, got, calm>>
--------------------------------------------------------------------------------
(* on_raw_byte *)

\* deliver_raw_frame_ of the outcome of the framing.
DeliverRaw(raws) == got' = (got \/ raw \in raws)

\* mutant: the buffer is taken to be one byte longer than it is
RawByteCobsPastEnd(b) ==
    /\ UNCHANGED length_prefix_
    /\ LET buf == Append(rx_buf_, b)
       IN IF Len(rx_buf_) > EncBufSize THEN rx_buf_' = <<>> /\ UNCHANGED got
          ELSE IF b = 0 /\ Len(buf) > 1
               THEN rx_buf_' = <<>> /\ DeliverRaw(Decode(rx_buf_, RawBufSize))
               ELSE rx_buf_' = buf /\ UNCHANGED got

\* on_raw_byte_cobs_crc_, handle_complete_frame.  A lone delimiter stays in
\* the buffer.
RawByteCobs(b) ==
    /\ UNCHANGED length_prefix_
    /\ LET buf == Append(rx_buf_, b)
       IN IF Len(rx_buf_) >= EncBufSize THEN rx_buf_' = <<>> /\ UNCHANGED got
          ELSE IF b = 0 /\ Len(buf) > 1
               THEN rx_buf_' = <<>> /\ DeliverRaw(Decode(rx_buf_, RawBufSize))
               ELSE rx_buf_' = buf /\ UNCHANGED got

Expected(prefix) == prefix[1] * 256 + prefix[2]

\* mutant: the prefix outlives a frame
RawBytePrefixedKept(b) ==
    LET prefix == Append(length_prefix_, b)
        buf == Append(rx_buf_, b)
    IN IF Len(length_prefix_) < 2
       THEN length_prefix_' = prefix /\ UNCHANGED <<rx_buf_, got>>
       ELSE IF Len(buf) < Expected(length_prefix_)
            THEN rx_buf_' = buf /\ UNCHANGED <<length_prefix_, got>>
            ELSE DeliverRaw({buf}) /\ rx_buf_' = <<>> /\ UNCHANGED length_prefix_

\* on_raw_byte_length_prefixed_; its last branch, an overrun, cannot be reached
\* with a prefix that passed the test.
RawBytePrefixed(b) ==
    LET prefix == Append(length_prefix_, b)
        buf == Append(rx_buf_, b)
    IN \/ /\ Len(length_prefix_) < 2
          /\ length_prefix_' =
                IF Len(prefix) = 2 /\ (Expected(prefix) = 0 \/ Expected(prefix) > RawBufSize)
                THEN <<>> ELSE prefix
          /\ rx_buf_' = IF length_prefix_' = <<>> THEN <<>> ELSE rx_buf_
          /\ UNCHANGED got
       \/ /\ Len(length_prefix_) = 2
          /\ Len(buf) < Expected(length_prefix_)
          /\ rx_buf_' = buf
          /\ UNCHANGED <<length_prefix_, got>>
       \/ /\ Len(length_prefix_) = 2
          /\ Len(buf) = Expected(length_prefix_)
          /\ DeliverRaw({buf})
          /\ rx_buf_' = <<>>
          /\ length_prefix_' = <<>>

RawByte(b) == IF use_cobs THEN RawByteCobs(b) ELSE RawBytePrefixed(b)

\* The receiver gets the next byte.
Receive ==
    /\ line # <<>>
    /\ RawByte(Head(line))
    /\ line' = Tail(line)
    /\ UNCHANGED <<use_cobs, raw, intact, calm>>

\* It gets a byte nobody sent.
Noise(b) ==
    /\ use_cobs
    /\ RawByte(b)
    /\ intact' = FALSE
    /\ UNCHANGED <<use_cobs, raw, line, calm>>

Next ==
    \/ \E r \in Raws : Send(r)
    \/ LoseByte \/ LoseMessage
    \/ Receive
    \/ \E b \in Byte : Noise(b)

Spec == Init /\ [][Next]_vars
--------------------------------------------------------------------------------
\* The types; rx_buf_ never outgrows its array, nor the prefix its two bytes,
\* and a length accepted from the line fits what is kept for a raw frame.
TypeOK ==
    /\ use_cobs \in BOOLEAN
    /\ rx_buf_ \in Seq(Byte) /\ Len(rx_buf_) <= EncBufSize
    /\ length_prefix_ \in Seq(Byte) /\ Len(length_prefix_) <= 2
    /\ Len(length_prefix_) = 2 => Expected(length_prefix_) \in 1 .. RawBufSize
    /\ raw \in Raws \cup {<<>>}
    /\ line \in Seq(Byte)
    /\ {intact, got} \subseteq BOOLEAN
    /\ calm \in 0 .. Patience

\* COBS resynchronises: whatever was lost or made up before, wherever it left
\* the byte machine, the third undamaged frame in a row is delivered.  One is
\* not enough: a lone delimiter stays in the buffer and spoils the frame after
\* it, and an overrun may drop the delimiter or leave it alone in the buffer.
CobsResynchronises ==
    use_cobs /\ line = <<>> /\ intact /\ calm = Patience => got

\* The length prefix has no delimiter to resynchronise at and needs none: while
\* messages are lost as a whole, every message that comes is a frame delivered.
PrefixKeepsInStep ==
    ~use_cobs /\ line = <<>> /\ intact => got
================================================================================
