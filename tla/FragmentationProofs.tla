-------------------------- MODULE FragmentationProofs --------------------------
(***************************************************************************)
(* With one sender on the bus, for every chunk size, every set of lengths,  *)
(* every width of the sequence number and every pattern of losses:          *)
(* reassembly never delivers anything but a payload that was sent, each     *)
(* once and in the order of the send() calls, as long as the receiver stays *)
(* within one turn of the sequence number of the sender, and a loss never   *)
(* takes an undamaged message with it.                                      *)
(***************************************************************************)
EXTENDS Fragmentation, SequenceTheorems, TLAPS

\* Messages of a link that are cut into fragments have different numbers.
SentInv ==
    /\ \A s \in Senders : heard[s] <= fragment_seq[s] /\ fragment_seq[s] <= sends[s]
    /\ \A m \in sent : m.fseq <= fragment_seq[m.from]
    /\ \A m, w \in sent : m.from = w.from /\ m.fseq = w.fseq /\ m.fseq # 0 => m = w

\* send_fragmented_raw_frame_ is cutting the newest message of its link.
SendingInv ==
    \A s \in Senders : sending[s] # NoMessage =>
        /\ sending[s].from = s
        /\ sending[s].fseq = fragment_seq[s]
        /\ sending[s].fseq # 0
        /\ offset[s] < sending[s].len

\* What a frame says of its message is true.
Truthful(f) ==
    /\ ~f.fragment => f.data = Bytes(f.msg)
    /\ f.fragment =>
          /\ f.msg.fseq # 0
          /\ f.seq = f.msg.fseq % SeqMod
          /\ f.total = f.msg.len
          /\ f.start => f.offset = 0
          /\ \E c \in 0 .. f.msg.len :
                /\ f.offset + c <= f.msg.len
                /\ f.data = SubSeq(Bytes(f.msg), f.offset + 1, f.offset + c)

\* The fragments of a sender are in the order of its sequence numbers.
BusInv ==
    /\ \A i \in 1 .. Len(bus) :
          /\ bus[i].msg \in sent
          /\ Truthful(bus[i])
          /\ bus[i].fragment => heard[bus[i].msg.from] <= bus[i].msg.fseq
    /\ \A i, j \in 1 .. Len(bus) :
          i < j /\ bus[i].fragment /\ bus[j].fragment /\ bus[i].msg.from = bus[j].msg.from
             => bus[i].msg.fseq <= bus[j].msg.fseq

LinkInv == TypeOK /\ SentInv /\ SendingInv /\ BusInv

LEMMA ChunkPositive == ChunkMax \in Nat \ {0}
BY FragmentationAssumption DEF ChunkMax

LEMMA MessageFacts ==
    ASSUME NEW m \in Message
    PROVE  /\ m.from \in Senders
           /\ m.n \in 1 .. MaxSends
           /\ m.fseq \in 0 .. MaxSends
           /\ m.len \in Nat \ {0}
           /\ m # NoMessage
<1>1. /\ m.from \in Senders
      /\ m.n \in 1 .. MaxSends
      /\ m.fseq \in 0 .. MaxSends
      /\ m.len \in Lengths
  BY DEF Message
<1>2. MaxSends \in Nat /\ m.len \in Nat \ {0}
  BY <1>1, FragmentationAssumption
<1>3. m.n # 0 /\ NoMessage.n = 0
  BY <1>1, <1>2 DEF NoMessage
<1> QED
  BY <1>1, <1>2, <1>3

LEMMA BytesFacts ==
    ASSUME NEW m \in Message
    PROVE  /\ Bytes(m) \in Seq(Byte)
           /\ Len(Bytes(m)) = m.len
           /\ \A i \in 1 .. m.len : Bytes(m)[i] = [msg |-> m, at |-> i]
<1>1. m.len \in Nat
  BY MessageFacts
<1>2. Bytes(m) \in [1 .. m.len -> Byte]
  BY <1>1 DEF Bytes, Byte
<1> QED
  BY <1>1, <1>2 DEF Bytes

\* The fragment cut from m at o is a frame, true to m, and moves o forward.
LEMMA FragmentFacts ==
    ASSUME NEW m \in Message, NEW o \in Nat, o < m.len, m.fseq # 0
    PROVE  LET f == Fragment(m, o)
           IN /\ f \in Frame
              /\ f.fragment
              /\ f.msg = m
              /\ Truthful(f)
              /\ Len(f.data) \in Nat \ {0}
              /\ ~f.end => o + Len(f.data) < m.len
<1> DEFINE chunk == IF m.len - o > ChunkMax THEN ChunkMax ELSE m.len - o
           f == Fragment(m, o)
<1>m. m.len \in Nat /\ m.fseq \in Nat
  BY MessageFacts
<1>1. chunk \in Nat \ {0} /\ o + chunk <= m.len
  BY <1>m, ChunkPositive
<1>2. /\ f.fragment = TRUE
      /\ f.msg = m
      /\ f.seq = m.fseq % SeqMod
      /\ f.start = (o = 0)
      /\ f.end = (o + chunk = m.len)
      /\ f.total = m.len
      /\ f.offset = o
      /\ f.data = SubSeq(Bytes(m), o + 1, o + chunk)
  BY DEF Fragment
<1> HIDE DEF chunk
<1>3. f.data \in Seq(Byte) /\ Len(f.data) = chunk
  BY <1>1, <1>2, <1>m, BytesFacts, SubSeqProperties
<1>4. m.fseq % SeqMod \in 0 .. SeqMod - 1
  BY <1>m, FragmentationAssumption
<1>5. f \in Frame
  <2>1. chunk % ChunkMod \in Nat
    BY <1>1, FragmentationAssumption
  <2>2. f.chunk = chunk % ChunkMod
    BY DEF Fragment, chunk
  <2> QED
    BY <1>m, <1>1, <1>3, <1>4, <2>1, <2>2 DEF Frame, Fragment, chunk
<1>6. Truthful(f)
  <2>1. chunk \in 0 .. m.len
    BY <1>1, <1>m
  <2> QED
    BY <1>1, <1>2, <2>1 DEF Truthful
<1>7. ~f.end => o + chunk < m.len
  <2>1. ~f.end => o + chunk # m.len
    BY <1>2
  <2> QED
    BY <1>1, <1>m, <2>1
<1> HIDE DEF f
<1> QED
  BY <1>1, <1>2, <1>3, <1>5, <1>6, <1>7 DEF f

\* A truthful frame of the newest message of its sender may follow those on the bus.
LEMMA BusAppend ==
    ASSUME TypeOK, SentInv, BusInv,
           NEW f \in Frame, Truthful(f), f.msg \in sent',
           f.fragment => /\ f.msg.fseq = fragment_seq[f.msg.from]
                         /\ f.msg.from \in Senders,
           bus' = Append(bus, f), heard' = heard, sent \subseteq sent'
    PROVE  BusInv'
<1>1. /\ bus \in Seq(Frame)
      /\ Len(bus) \in Nat
      /\ Len(bus') = Len(bus) + 1
      /\ bus'[Len(bus) + 1] = f
      /\ \A i \in 1 .. Len(bus) : bus'[i] = bus[i]
  BY DEF TypeOK
<1>2. \A i \in 1 .. Len(bus') : i \in 1 .. Len(bus) \/ i = Len(bus) + 1
  BY <1>1
<1>3. ASSUME NEW i \in 1 .. Len(bus')
      PROVE  /\ bus'[i].msg \in sent'
             /\ Truthful(bus'[i])
             /\ bus'[i].fragment => heard'[bus'[i].msg.from] <= bus'[i].msg.fseq
  <2>1. CASE i \in 1 .. Len(bus)
    BY <1>1, <2>1 DEF BusInv
  <2>2. CASE i = Len(bus) + 1
    BY <1>1, <2>2 DEF SentInv
  <2> QED
    BY <1>2, <2>1, <2>2
<1>4. ASSUME NEW i \in 1 .. Len(bus'), NEW j \in 1 .. Len(bus'),
             i < j, bus'[i].fragment, bus'[j].fragment,
             bus'[i].msg.from = bus'[j].msg.from
      PROVE  bus'[i].msg.fseq <= bus'[j].msg.fseq
  <2>1. i \in 1 .. Len(bus)
    BY <1>1, <1>2, <1>4
  <2>2. CASE j \in 1 .. Len(bus)
    BY <1>1, <1>4, <2>1, <2>2 DEF BusInv
  <2>3. CASE j = Len(bus) + 1
    BY <1>1, <1>4, <2>1, <2>3 DEF BusInv, SentInv
  <2> QED
    BY <1>2, <2>2, <2>3
<1>5. \A i \in 1 .. Len(bus') : Truthful(bus[i])'
  <2>1. ASSUME NEW i \in 1 .. Len(bus') PROVE Truthful(bus[i])'
    <3>1. PICK g : g = bus'[i]
      OBVIOUS
    <3>2. Truthful(g)
      BY <1>3, <3>1
    <3> QED
      BY <3>1, <3>2, Zenon DEF Truthful
  <2> QED
    BY <2>1
<1> QED
  BY <1>3, <1>4, <1>5, Zenon DEF BusInv

\* Taking the first frame off leaves those behind it, none of which is older.
LEMMA BusTail ==
    ASSUME TypeOK, BusInv, bus # <<>>, bus' = Tail(bus), sent' = sent,
           \/ heard' = heard
           \/ /\ Head(bus).fragment
              /\ heard' = [heard EXCEPT ![Head(bus).msg.from] = Head(bus).msg.fseq]
    PROVE  BusInv'
<1>1. /\ bus \in Seq(Frame)
      /\ Len(bus) \in Nat
      /\ Len(bus') = Len(bus) - 1
      /\ \A i \in 1 .. Len(bus') : bus'[i] = bus[i + 1]
      /\ Head(bus) = bus[1]
      /\ 1 \in 1 .. Len(bus)
  BY DEF TypeOK
<1>2. \A i \in 1 .. Len(bus') : i + 1 \in 1 .. Len(bus)
  BY <1>1
<1>3. ASSUME NEW i \in 1 .. Len(bus')
      PROVE  /\ bus'[i].msg \in sent'
             /\ Truthful(bus'[i])
             /\ bus'[i].fragment => heard'[bus'[i].msg.from] <= bus'[i].msg.fseq
  <2>1. bus'[i] = bus[i + 1] /\ i + 1 \in 1 .. Len(bus) /\ 1 < i + 1
    BY <1>1, <1>2
  <2>2. bus[i + 1].msg \in sent /\ Truthful(bus[i + 1])
    BY <2>1 DEF BusInv
  <2>3. bus[i + 1].fragment => heard'[bus[i + 1].msg.from] <= bus[i + 1].msg.fseq
    <3>1. CASE heard' = heard
      BY <2>1, <3>1 DEF BusInv
    <3>2. CASE /\ bus[1].fragment
               /\ heard' = [heard EXCEPT ![bus[1].msg.from] = bus[1].msg.fseq]
      <4>1. heard \in [Senders -> 0 .. MaxSends]
        BY DEF TypeOK
      <4>2. bus[i + 1].msg.from \in Senders
        BY <2>2, MessageFacts DEF TypeOK
      <4>3. CASE bus[1].msg.from = bus[i + 1].msg.from
        <5>1. bus[i + 1].fragment => bus[1].msg.fseq <= bus[i + 1].msg.fseq
          BY <1>1, <2>1, <3>2, <4>3 DEF BusInv
        <5>2. heard'[bus[i + 1].msg.from] = bus[1].msg.fseq
          BY <3>2, <4>1, <4>2, <4>3
        <5> QED
          BY <5>1, <5>2
      <4>4. CASE bus[1].msg.from # bus[i + 1].msg.from
        <5>1. heard'[bus[i + 1].msg.from] = heard[bus[i + 1].msg.from]
          BY <3>2, <4>1, <4>2, <4>4
        <5> QED
          BY <5>1, <2>1 DEF BusInv
      <4> QED
        BY <4>3, <4>4
    <3> QED
      BY <1>1, <3>1, <3>2
  <2> QED
    BY <2>1, <2>2, <2>3
<1>4. ASSUME NEW i \in 1 .. Len(bus'), NEW j \in 1 .. Len(bus'),
             i < j, bus'[i].fragment, bus'[j].fragment,
             bus'[i].msg.from = bus'[j].msg.from
      PROVE  bus'[i].msg.fseq <= bus'[j].msg.fseq
  <2>1. i + 1 \in 1 .. Len(bus) /\ j + 1 \in 1 .. Len(bus) /\ i + 1 < j + 1
    BY <1>1, <1>2, <1>4
  <2> QED
    BY <1>1, <1>4, <2>1 DEF BusInv
<1> QED
  BY <1>3, <1>4 DEF BusInv, Truthful

LEMMA BusHead ==
    ASSUME TypeOK, BusInv, bus # <<>>
    PROVE  /\ Head(bus) = bus[1]
           /\ Head(bus) \in Frame
           /\ Tail(bus) \in Seq(Frame)
           /\ Head(bus).msg \in sent
           /\ Truthful(Head(bus))
           /\ Head(bus).fragment => heard[Head(bus).msg.from] <= Head(bus).msg.fseq
<1>1. /\ bus \in Seq(Frame)
      /\ Head(bus) = bus[1]
      /\ Head(bus) \in Frame
      /\ Tail(bus) \in Seq(Frame)
      /\ 1 \in 1 .. Len(bus)
  BY HeadTailProperties, EmptySeq DEF TypeOK
<1> QED
  BY <1>1 DEF BusInv

LEMMA LinkInductive == LinkInv /\ [Next]_vars => LinkInv'
<1> SUFFICES ASSUME LinkInv, [Next]_vars PROVE LinkInv'
  OBVIOUS
<1>c. MaxSends \in Nat /\ SeqMod \in Nat \ {0} /\ Lengths \subseteq Nat \ {0}
  BY FragmentationAssumption
<1>t. TypeOK /\ SentInv /\ SendingInv /\ BusInv
  BY DEF LinkInv
<1>1. ASSUME NEW s \in Senders, NEW len \in Lengths, SendWhole(s, len)
      PROVE  LinkInv'
  <2> DEFINE m == [from |-> s, n |-> sends[s] + 1, fseq |-> 0, len |-> len]
             f == [fragment |-> FALSE, msg |-> m, data |-> Bytes(m)]
  <2>1. m \in Message
    <3>1. sends[s] + 1 \in 1 .. MaxSends /\ 0 \in 0 .. MaxSends
      BY <1>1, <1>c, <1>t DEF SendWhole, TypeOK
    <3> QED
      BY <3>1 DEF Message
  <2>2. f \in Frame /\ Truthful(f) /\ f.msg = m /\ ~f.fragment
    BY <2>1, BytesFacts DEF Frame, Truthful
  <2>3. sent' = sent \union {m} /\ bus' = Append(bus, f) /\ heard' = heard
    BY <1>1 DEF SendWhole, receiverVars
  <2>4. m.from = s /\ m.fseq = 0
    OBVIOUS
  <2> HIDE DEF m, f
  <2>5. TypeOK'
    <3>1. sends' \in [Senders -> 0 .. MaxSends]
      BY <1>1, <1>c, <1>t DEF SendWhole, TypeOK
    <3>2. sent' \subseteq Message /\ damaged' \subseteq sent' /\ bus' \in Seq(Frame)
      BY <1>1, <1>t, <2>1, <2>2, <2>3 DEF SendWhole, TypeOK
    <3>3. sending' \in [Senders -> sent' \union {NoMessage}]
      BY <1>1, <1>t, <2>3 DEF SendWhole, TypeOK
    <3> QED
      BY <1>1, <1>t, <3>1, <3>2, <3>3 DEF TypeOK, SendWhole, receiverVars
  <2>6. SentInv'
    BY <1>1, <1>t, <2>3, <2>4 DEF SentInv, SendWhole, TypeOK
  <2>7. SendingInv'
    BY <1>1, <1>t DEF SendingInv, SendWhole
  <2>8. BusInv'
    BY <1>t, <2>2, <2>3, BusAppend
  <2> QED
    BY <2>5, <2>6, <2>7, <2>8 DEF LinkInv
<1>2. ASSUME NEW s \in Senders, NEW len \in Lengths, SendFragmented(s, len)
      PROVE  LinkInv'
  <2> DEFINE m == [from |-> s, n |-> sends[s] + 1, fseq |-> NextSeq(s), len |-> len]
  <2>0. /\ sends[s] + 1 \in 1 .. MaxSends
        /\ fragment_seq[s] + 1 \in 1 .. MaxSends
    BY <1>2, <1>c, <1>t DEF SendFragmented, TypeOK, SentInv
  <2>1. m \in Message
    BY <2>0 DEF Message, NextSeq
  <2>2. /\ sent' = sent \union {m}
        /\ sending' = [sending EXCEPT ![s] = m]
        /\ offset' = [offset EXCEPT ![s] = 0]
        /\ fragment_seq' = [fragment_seq EXCEPT ![s] = NextSeq(s)]
    BY <1>2 DEF SendFragmented
  <2>3. m.from = s /\ m.fseq = fragment_seq[s] + 1 /\ m.len = len /\ len > 0
    BY <1>c DEF NextSeq
  <2> HIDE DEF m
  <2>4. TypeOK'
    <3>1. /\ sends' \in [Senders -> 0 .. MaxSends]
          /\ fragment_seq' \in [Senders -> 0 .. MaxSends]
          /\ offset' \in [Senders -> Nat]
      BY <1>2, <1>c, <1>t, <2>0, <2>2 DEF SendFragmented, TypeOK, NextSeq
    <3>2. sent' \subseteq Message /\ damaged' \subseteq sent'
      BY <1>2, <1>t, <2>1, <2>2 DEF SendFragmented, TypeOK
    <3>3. sending' \in [Senders -> sent' \union {NoMessage}]
      BY <1>t, <2>2 DEF TypeOK
    <3> QED
      BY <1>2, <1>t, <3>1, <3>2, <3>3 DEF TypeOK, SendFragmented, receiverVars
  <2>5. SentInv'
    <3>1. \A r \in Senders :
              /\ sends[r] \in Nat /\ fragment_seq[r] \in Nat /\ heard[r] \in Nat
              /\ heard'[r] = heard[r]
              /\ r # s => sends'[r] = sends[r] /\ fragment_seq'[r] = fragment_seq[r]
              /\ r = s => sends'[r] = sends[r] + 1 /\ fragment_seq'[r] = fragment_seq[r] + 1
      <4>1. /\ sends' = [sends EXCEPT ![s] = sends[s] + 1]
            /\ heard' = heard
            /\ fragment_seq' = [fragment_seq EXCEPT ![s] = fragment_seq[s] + 1]
        BY <1>2, <2>2 DEF SendFragmented, receiverVars, NextSeq
      <4>2. \A r \in Senders : sends[r] \in Nat /\ fragment_seq[r] \in Nat /\ heard[r] \in Nat
        BY <1>t, <1>c DEF TypeOK
      <4>3. DOMAIN sends = Senders /\ DOMAIN fragment_seq = Senders
        BY <1>t DEF TypeOK
      <4>4. \A r \in Senders : r # s => sends'[r] = sends[r] /\ fragment_seq'[r] = fragment_seq[r]
        BY <4>1, <4>3
      <4>5. sends'[s] = sends[s] + 1 /\ fragment_seq'[s] = fragment_seq[s] + 1
        BY <4>1, <4>3
      <4> QED
        BY <4>1, <4>2, <4>4, <4>5, Zenon
    <3>2. ASSUME NEW r \in Senders
          PROVE  heard'[r] <= fragment_seq'[r] /\ fragment_seq'[r] <= sends'[r]
      <4>1. heard[r] <= fragment_seq[r] /\ fragment_seq[r] <= sends[r]
        BY <1>t DEF SentInv
      <4>2. /\ sends[r] \in Nat /\ fragment_seq[r] \in Nat /\ heard[r] \in Nat
            /\ heard'[r] = heard[r]
        BY <3>1
      <4>3. CASE r = s
        <5>1. sends'[r] = sends[r] + 1 /\ fragment_seq'[r] = fragment_seq[r] + 1
          BY <3>1, <4>3
        <5> QED
          BY <4>1, <4>2, <5>1
      <4>4. CASE r # s
        <5>1. sends'[r] = sends[r] /\ fragment_seq'[r] = fragment_seq[r]
          BY <3>1, <4>4
        <5> QED
          BY <4>1, <4>2, <5>1
      <4> QED
        BY <4>3, <4>4
    <3>3. \A w \in sent : w.from \in Senders /\ w.fseq \in Nat
      BY <1>t, <1>c, MessageFacts DEF TypeOK
    <3>4. ASSUME NEW w \in sent' PROVE w.fseq <= fragment_seq'[w.from]
      <4>1. CASE w \in sent
        <5>1. w.fseq <= fragment_seq[w.from]
          BY <1>t, <4>1 DEF SentInv
        <5>2. w.from \in Senders /\ w.fseq \in Nat /\ fragment_seq[w.from] \in Nat
          BY <3>1, <3>3, <4>1
        <5>3. \/ fragment_seq'[w.from] = fragment_seq[w.from] + 1
              \/ fragment_seq'[w.from] = fragment_seq[w.from]
          BY <3>1, <5>2
        <5> QED
          BY <5>1, <5>2, <5>3
      <4>2. CASE w = m
        <5>1. w.fseq = fragment_seq'[w.from] /\ w.fseq \in Nat
          BY <2>0, <1>c, <2>3, <3>1, <4>2
        <5> QED
          BY <5>1
      <4> QED
        BY <2>2, <4>1, <4>2
    <3>5. \A w \in sent : w.from = s => w.fseq < m.fseq
      BY <1>t, <2>3, <3>1, <3>3 DEF SentInv
    <3>6. \A v, w \in sent' : v.from = w.from /\ v.fseq = w.fseq /\ v.fseq # 0 => v = w
      BY <1>t, <2>2, <2>3, <3>1, <3>3, <3>5 DEF SentInv
    <3> QED
      BY <3>2, <3>4, <3>6 DEF SentInv
  <2>6. SendingInv'
    <3>1. \A r \in Senders : r # s =>
              /\ sending'[r] = sending[r]
              /\ fragment_seq'[r] = fragment_seq[r]
              /\ offset'[r] = offset[r]
      BY <1>t, <2>2 DEF TypeOK
    <3>2. /\ sending'[s] = m
          /\ fragment_seq'[s] = fragment_seq[s] + 1
          /\ offset'[s] = 0
      BY <1>t, <2>2 DEF TypeOK, NextSeq
    <3>3. fragment_seq[s] + 1 # 0
      BY <2>0, <1>c
    <3> QED
      BY <1>t, <2>3, <3>1, <3>2, <3>3 DEF SendingInv
  <2>7. BusInv'
    BY <1>2, <1>t, <2>2 DEF BusInv, SendFragmented, Truthful, receiverVars
  <2> QED
    BY <2>4, <2>5, <2>6, <2>7 DEF LinkInv
<1>3. ASSUME NEW s \in Senders, SendFragment(s)
      PROVE  LinkInv'
  <2> DEFINE m == sending[s]
             f == Fragment(m, offset[s])
  <2>1. /\ m \in sent
        /\ m \in Message
        /\ m.from = s
        /\ m.fseq = fragment_seq[s]
        /\ m.fseq # 0
        /\ offset[s] \in Nat
        /\ offset[s] < m.len
    BY <1>3, <1>t DEF SendFragment, SendingInv, TypeOK
  <2>2. /\ bus' = Append(bus, f)
        /\ offset' = [offset EXCEPT ![s] = @ + Len(f.data)]
        /\ sending' = [sending EXCEPT ![s] = IF f.end THEN NoMessage ELSE m]
    BY <1>3 DEF SendFragment
  <2>3. /\ f \in Frame
        /\ f.msg = m
        /\ Truthful(f)
        /\ Len(f.data) \in Nat
        /\ ~f.end => offset[s] + Len(f.data) < m.len
    BY <2>1, FragmentFacts
  <2> HIDE DEF m, f
  <2>4. TypeOK'
    <3>1. bus' \in Seq(Frame)
      BY <1>t, <2>2, <2>3 DEF TypeOK
    <3>2. offset' \in [Senders -> Nat]
      <4>1. offset \in [Senders -> Nat] /\ offset[s] + Len(f.data) \in Nat
        BY <1>t, <2>1, <2>3 DEF TypeOK
      <4> QED
        BY <2>2, <4>1
    <3>3. sending' \in [Senders -> sent \union {NoMessage}]
      BY <1>t, <2>1, <2>2 DEF TypeOK
    <3>4. UNCHANGED <<fragment_seq, sends, sent, damaged, receiverVars>>
      BY <1>3 DEF SendFragment
    <3> QED
      BY <1>t, <3>1, <3>2, <3>3, <3>4 DEF TypeOK, receiverVars
  <2>5. SentInv'
    BY <1>3, <1>t DEF SentInv, SendFragment, receiverVars
  <2>6. SendingInv'
    <3>1. /\ SendingInv /\ fragment_seq' = fragment_seq
          /\ offset \in [Senders -> Nat] /\ sending \in [Senders -> sent \union {NoMessage}]
      BY <1>3, <1>t DEF SendFragment, TypeOK
    <3>2. ASSUME NEW r \in Senders, r # s
          PROVE  sending'[r] = sending[r] /\ offset'[r] = offset[r]
      BY <2>2, <3>1, <3>2
    <3>3. sending'[s] # NoMessage => ~f.end /\ sending'[s] = m
      BY <2>2, <3>1
    <3>4. offset'[s] = offset[s] + Len(f.data)
      BY <2>2, <3>1
    <3>5. sending'[s] # NoMessage => /\ sending'[s].from = s /\ sending'[s].fseq = fragment_seq[s]
                                     /\ sending'[s].fseq # 0 /\ offset'[s] < sending'[s].len
      BY <2>1, <2>3, <3>3, <3>4, Zenon
    <3> QED
      BY <3>1, <3>2, <3>5, Zenon DEF SendingInv
  <2>7. BusInv'
    BY <1>3, <1>t, <2>1, <2>2, <2>3, BusAppend DEF SendFragment, receiverVars
  <2> QED
    BY <2>4, <2>5, <2>6, <2>7 DEF LinkInv
<1>4. ASSUME NEW s \in Senders, SendRefused(s)
      PROVE  LinkInv'
  <2>1. TypeOK'
    BY <1>4, <1>t DEF TypeOK, SendRefused, receiverVars
  <2>2. SentInv'
    BY <1>4, <1>t DEF SentInv, SendRefused, receiverVars
  <2>3. SendingInv'
    BY <1>4, <1>t DEF SendingInv, SendRefused, TypeOK
  <2>4. BusInv'
    BY <1>4, <1>t DEF BusInv, SendRefused, receiverVars, Truthful
  <2> QED
    BY <2>1, <2>2, <2>3, <2>4 DEF LinkInv
<1>5. CASE Lose
  <2>1. Head(bus) \in Frame /\ Tail(bus) \in Seq(Frame) /\ Head(bus).msg \in sent
    BY <1>5, <1>t, BusHead DEF Lose
  <2>2. TypeOK'
    BY <1>5, <1>t, <2>1 DEF TypeOK, Lose, senderVars, receiverVars
  <2>3. SentInv' /\ SendingInv'
    BY <1>5, <1>t DEF SentInv, SendingInv, Lose, senderVars, receiverVars
  <2>4. BusInv'
    BY <1>5, <1>t, BusTail DEF Lose, senderVars, receiverVars
  <2> QED
    BY <2>2, <2>3, <2>4 DEF LinkInv
<1>6. CASE ReceiveWhole
  <2>1. Head(bus) \in Frame /\ Tail(bus) \in Seq(Frame) /\ Head(bus).data \in Seq(Byte)
    BY <1>6, <1>t, BusHead DEF ReceiveWhole, Frame
  <2>2. TypeOK'
    BY <1>6, <1>t, <2>1 DEF TypeOK, ReceiveWhole, Deliver, senderVars
  <2>3. SentInv' /\ SendingInv'
    BY <1>6, <1>t DEF SentInv, SendingInv, ReceiveWhole, senderVars
  <2>4. BusInv'
    BY <1>6, <1>t, BusTail DEF ReceiveWhole, senderVars
  <2> QED
    BY <2>2, <2>3, <2>4 DEF LinkInv
<1>7. CASE ReceiveFragment
  <2> DEFINE f == Head(bus)
             data == Opened(f).data \o f.data
  <2>1. /\ f \in Frame
        /\ f.fragment
        /\ Tail(bus) \in Seq(Frame)
        /\ f.msg \in sent
        /\ f.msg \in Message
    BY <1>7, <1>t, BusHead DEF ReceiveFragment, TypeOK
  <2>2. f.seq \in 0 .. SeqMod - 1 /\ f.total \in Nat /\ f.data \in Seq(Byte)
    BY <2>1 DEF Frame
  <2>3. Opened(f) \in [active : BOOLEAN, seq : 0 .. SeqMod - 1, total : Nat, data : Seq(Byte)]
    BY <1>t, <2>2 DEF Opened, TypeOK
  <2>4. data \in Seq(Byte)
    BY <2>2, <2>3
  <2>5. heard' = [heard EXCEPT ![f.msg.from] = f.msg.fseq] /\ bus' = Tail(bus)
    BY <1>7 DEF ReceiveFragment
  <2>6. /\ reassembly' \in {ResetReassembly, [Opened(f) EXCEPT !.data = data]}
        /\ delivered' \in {delivered, Append(delivered, data)}
    BY <1>7 DEF ReceiveFragment, Deliver
  <2> HIDE DEF f, data
  <2>7. TypeOK'
    <3>1. bus' \in Seq(Frame)
      BY <2>1, <2>5 DEF f
    <3>2. heard' \in [Senders -> 0 .. MaxSends]
      BY <1>t, <2>1, <2>5, MessageFacts DEF TypeOK
    <3>3. reassembly' \in [active : BOOLEAN, seq : 0 .. SeqMod - 1, total : Nat, data : Seq(Byte)]
      <4>1. 0 \in 0 .. SeqMod - 1
        BY <1>c
      <4>2. CASE reassembly' = ResetReassembly
        BY <4>1, <4>2 DEF ResetReassembly
      <4>3. CASE reassembly' = [Opened(f) EXCEPT !.data = data]
        BY <2>3, <2>4, <4>3
      <4> QED
        BY <2>6, <4>2, <4>3
    <3>4. delivered' \in Seq(Seq(Byte))
      <4>1. delivered \in Seq(Seq(Byte))
        BY <1>t DEF TypeOK
      <4>2. Append(delivered, data) \in Seq(Seq(Byte))
        BY <2>4, <4>1, AppendProperties
      <4> QED
        BY <2>6, <4>1, <4>2
    <3>5. UNCHANGED <<senderVars, damaged>>
      BY <1>7 DEF ReceiveFragment
    <3> QED
      BY <1>t, <3>1, <3>2, <3>3, <3>4, <3>5 DEF TypeOK, senderVars
  <2>8. SentInv' /\ SendingInv'
    BY <1>7, <1>t, <2>1, <2>5 DEF SentInv, SendingInv, ReceiveFragment, senderVars, TypeOK
  <2>9. BusInv'
    BY <1>7, <1>t, <2>1, <2>5, BusTail DEF ReceiveFragment, senderVars, f
  <2> QED
    BY <2>7, <2>8, <2>9 DEF LinkInv
<1>8. CASE UNCHANGED vars
  <2>1. TypeOK'
    BY <1>8, <1>t DEF TypeOK, vars
  <2>2. SentInv' /\ SendingInv' /\ BusInv'
    BY <1>8, <1>t DEF SentInv, SendingInv, BusInv, Truthful, vars
  <2> QED
    BY <2>1, <2>2 DEF LinkInv
<1> QED
  BY <1>1, <1>2, <1>3, <1>4, <1>5, <1>6, <1>7, <1>8 DEF Next

LEMMA LinkInit == Init => LinkInv
<1> SUFFICES ASSUME Init PROVE LinkInv
  OBVIOUS
<1>c. MaxSends \in Nat /\ SeqMod \in Nat \ {0} /\ 0 \in 0 .. MaxSends /\ 0 \in 0 .. SeqMod - 1
  <2>1. MaxSends \in Nat /\ SeqMod \in Nat \ {0}
    BY FragmentationAssumption
  <2> QED
    BY <2>1
<1>1. TypeOK
  BY <1>c DEF Init, TypeOK, ResetReassembly
<1>2. SentInv /\ SendingInv /\ BusInv
  BY DEF Init, SentInv, SendingInv, BusInv
<1> QED
  BY <1>1, <1>2 DEF LinkInv

LEMMA LinkInvariant == Spec => []LinkInv
<1>1. LinkInv /\ [Next]_vars => LinkInv'
  BY LinkInductive
<1> QED
  BY LinkInit, <1>1, PTL DEF Spec

\* The link's state has its type, however many nodes send: a sequence number fits
\* its 8 bits, a fragment its frame, and a damaged message is one that was sent.
THEOREM FragmentationTypeCorrect == Spec => []TypeOK
<1>1. LinkInv => TypeOK
  BY DEF LinkInv
<1> QED
  BY LinkInvariant, <1>1, PTL
--------------------------------------------------------------------------------
(* One sender *)

LEMMA Division ==
    ASSUME NEW x \in Nat, NEW M \in Nat \ {0}
    PROVE  x = M * (x \div M) + (x % M) /\ x \div M \in Nat /\ x % M \in Nat
<1>1. x = M * (x \div M) + (x % M) /\ x \div M \in Nat
  OBVIOUS
<1>2. x % M \in 0 .. M - 1
  OBVIOUS
<1> QED
  BY <1>1, <1>2

\* Numbers less than a turn apart are told apart by their remainders.
LEMMA OneTurn ==
    ASSUME NEW M \in Nat \ {0}, NEW a \in Nat, NEW b \in Nat,
           a <= b, b - a < M, a % M = b % M
    PROVE  a = b
<1>1. /\ a = M * (a \div M) + (a % M) /\ a \div M \in Nat /\ a % M \in Nat
      /\ b = M * (b \div M) + (b % M) /\ b \div M \in Nat
  BY Division, Zenon
<1>2. \A p, q \in Nat : p < q => M * q - M * p >= M
  <2>1. \A p, q \in Nat : M * q - M * p = M * (q - p)
    OBVIOUS
  <2>2. \A k \in Nat : k > 0 => M * k >= M
    OBVIOUS
  <2>3. \A p, q \in Nat : p < q => q - p \in Nat /\ q - p > 0
    OBVIOUS
  <2> QED
    BY <2>1, <2>2, <2>3
<1> DEFINE p == a \div M
           q == b \div M
           r == a % M
<1>3. /\ a = M * p + r
      /\ b = M * q + r
      /\ p \in Nat /\ q \in Nat /\ r \in Nat
  BY <1>1
<1> HIDE DEF p, q, r
<1>4. M * p \in Nat /\ M * q \in Nat
  BY <1>3
<1>5. M * q - M * p < M /\ M * p <= M * q
  BY <1>3, <1>4
<1>6. ~(p < q) /\ ~(q < p)
  <2>1. q < p => M * p - M * q >= M
    BY <1>2, <1>3
  <2>2. p < q => M * q - M * p >= M
    BY <1>2, <1>3
  <2> QED
    BY <1>4, <1>5, <2>1, <2>2
<1>7. p = q
  BY <1>3, <1>6
<1> QED
  BY <1>3, <1>7

\* What has been collected is the beginning of the message of which the latest
\* fragment was received.
ReassemblyInv ==
    reassembly.active =>
        \E m \in sent :
            /\ m.fseq # 0
            /\ m.fseq = heard[m.from]
            /\ reassembly.seq = m.fseq % SeqMod
            /\ reassembly.total = m.len
            /\ Len(reassembly.data) <= m.len
            /\ reassembly.data = SubSeq(Bytes(m), 1, Len(reassembly.data))

\* A fragment in place carries the collected beginning of its own message on.
LEMMA Carried ==
    ASSUME NEW s \in Senders, Senders = {s}, LinkInv, ReassemblyInv, Audible,
           bus # <<>>, Head(bus).fragment, Fits(Head(bus))
    PROVE  LET f == Head(bus)
               data == Opened(f).data \o f.data
           IN /\ data \in Seq(Byte)
              /\ Len(data) <= f.msg.len
              /\ data = SubSeq(Bytes(f.msg), 1, Len(data))
              /\ Opened(f).seq = f.msg.fseq % SeqMod
              /\ Opened(f).total = f.msg.len
<1> DEFINE f == Head(bus)
           m == f.msg
<1>t. TypeOK /\ SentInv /\ BusInv
  BY DEF LinkInv
<1>1. /\ m \in sent
      /\ m \in Message
      /\ Truthful(f)
      /\ heard[m.from] <= m.fseq
  BY <1>t, BusHead DEF TypeOK
<1>2. /\ m.fseq # 0
      /\ f.seq = m.fseq % SeqMod
      /\ f.total = m.len
      /\ f.start => f.offset = 0
  BY <1>1 DEF Truthful
<1>3. PICK c \in 0 .. m.len :
          /\ f.offset + c <= m.len
          /\ f.data = SubSeq(Bytes(m), f.offset + 1, f.offset + c)
  BY <1>1 DEF Truthful
<1>4. /\ Opened(f).active
      /\ Opened(f).seq = f.seq
      /\ Opened(f).total = f.total
      /\ Len(Opened(f).data) = f.offset
  BY DEF Fits, Continues
<1>5. /\ m.from = s
      /\ m.fseq \in Nat
      /\ m.len \in Nat
      /\ Bytes(m) \in Seq(Byte)
      /\ Len(Bytes(m)) = m.len
  BY <1>1, MessageFacts, BytesFacts
<1>6. Opened(f).data \in Seq(Byte) /\ f.offset \in Nat
  BY <1>t, <1>4 DEF Opened, TypeOK
<1>7. Opened(f).data = SubSeq(Bytes(m), 1, f.offset)
  <2>1. CASE f.start
    BY <1>2, <1>5, <2>1 DEF Opened
  <2>2. CASE ~f.start
    <3>1. Opened(f) = reassembly /\ reassembly.active
      BY <1>4, <2>2 DEF Opened
    <3>2. PICK w \in sent :
              /\ w.fseq # 0
              /\ w.fseq = heard[w.from]
              /\ reassembly.seq = w.fseq % SeqMod
              /\ reassembly.data = SubSeq(Bytes(w), 1, Len(reassembly.data))
      BY <3>1 DEF ReassemblyInv
    <3>3. w.from = s /\ w.fseq \in Nat
      BY <1>t, MessageFacts DEF TypeOK
    <3>4. w.fseq <= m.fseq
      BY <1>1, <1>5, <3>2, <3>3
    <3>5. m.fseq - w.fseq < SeqMod
      <4>1. m.fseq <= fragment_seq[s]
        BY <1>t, <1>1, <1>5 DEF SentInv
      <4>2. fragment_seq[s] \in Nat /\ SeqMod \in Nat
        <5>1. MaxSends \in Nat /\ SeqMod \in Nat
          BY FragmentationAssumption
        <5> QED
          BY <1>t, <5>1 DEF TypeOK
      <4>3. fragment_seq[s] - w.fseq < SeqMod
        BY <3>2, <3>3 DEF Audible
      <4> QED
        BY <1>5, <3>3, <4>1, <4>2, <4>3
    <3>6. w.fseq = m.fseq
      <4>1. w.fseq % SeqMod = m.fseq % SeqMod
        BY <1>2, <1>4, <3>1, <3>2
      <4>2. SeqMod \in Nat \ {0}
        BY FragmentationAssumption
      <4> QED
        BY <1>5, <3>3, <3>4, <3>5, <4>1, <4>2, OneTurn
    <3>7. w = m
      BY <1>t, <1>1, <1>2, <1>5, <3>3, <3>6 DEF SentInv
    <3> QED
      BY <1>4, <3>1, <3>2, <3>7
  <2> QED
    BY <2>1, <2>2
<1> DEFINE o == f.offset
           data == Opened(f).data \o f.data
<1> HIDE DEF m, f, o
<1>8. /\ o \in Nat /\ c \in Nat /\ o + c <= m.len
      /\ Opened(f).data = SubSeq(Bytes(m), 1, o)
      /\ f.data = SubSeq(Bytes(m), o + 1, o + c)
  BY <1>3, <1>5, <1>6, <1>7 DEF o
<1>9. data = SubSeq(Bytes(m), 1, o + c)
  <2>1. /\ 1 \in 1 .. Len(Bytes(m)) + 1
        /\ o \in 1 - 1 .. Len(Bytes(m))
        /\ o + c \in o .. Len(Bytes(m))
    BY <1>5, <1>8
  <2>2. SubSeq(Bytes(m), 1, o) \o SubSeq(Bytes(m), o + 1, o + c) = SubSeq(Bytes(m), 1, o + c)
    BY ONLY <1>5, <2>1, ConcatAdjacentSubSeq
  <2> QED
    BY <1>8, <2>2
<1>10. data \in Seq(Byte) /\ Len(data) = o + c
  BY <1>5, <1>8, <1>9, SubSeqProperties
<1> QED
  BY <1>2, <1>4, <1>8, <1>9, <1>10 DEF f, m

\* A message collected to its length is the message.
LEMMA WholeIsBytes ==
    ASSUME NEW m \in Message
    PROVE  SubSeq(Bytes(m), 1, m.len) = Bytes(m)
<1>1. Bytes(m) \in Seq(Byte) /\ Len(Bytes(m)) = m.len /\ m.len \in Nat
  BY BytesFacts, MessageFacts
<1>2. /\ SubSeq(Bytes(m), 1, m.len) \in Seq(Byte)
      /\ Len(SubSeq(Bytes(m), 1, m.len)) = m.len
      /\ \A i \in 1 .. m.len : SubSeq(Bytes(m), 1, m.len)[i] = Bytes(m)[i]
  BY <1>1, SubSeqProperties
<1> QED
  BY <1>1, <1>2, SeqEqual

LEMMA ReassemblyInductive ==
    ASSUME NEW s \in Senders, Senders = {s}
    PROVE  /\ LinkInv /\ LinkInv' /\ Audible
           /\ ReassemblyInv /\ PayloadsIntact
           /\ [Next]_vars
           => ReassemblyInv' /\ PayloadsIntact'
<1> SUFFICES ASSUME LinkInv, LinkInv', Audible, ReassemblyInv, PayloadsIntact, [Next]_vars
             PROVE  ReassemblyInv' /\ PayloadsIntact'
  OBVIOUS
<1>t. TypeOK /\ BusInv /\ delivered \in Seq(Seq(Byte))
  BY DEF LinkInv, TypeOK
<1>1. ASSUME UNCHANGED <<reassembly, delivered, heard>>, sent \subseteq sent'
      PROVE  ReassemblyInv' /\ PayloadsIntact'
  BY <1>1 DEF ReassemblyInv, PayloadsIntact, Bytes
<1>2. ASSUME NEW r \in Senders, NEW len \in Lengths, SendWhole(r, len) \/ SendFragmented(r, len)
      PROVE  ReassemblyInv' /\ PayloadsIntact'
  <2>1. UNCHANGED <<reassembly, delivered, heard>> /\ sent \subseteq sent'
    BY <1>2 DEF SendWhole, SendFragmented, receiverVars
  <2> QED
    BY <2>1, <1>1
<1>3. ASSUME NEW r \in Senders, SendFragment(r) \/ SendRefused(r)
      PROVE  ReassemblyInv' /\ PayloadsIntact'
  <2>1. UNCHANGED <<reassembly, delivered, heard>> /\ sent \subseteq sent'
    BY <1>3 DEF SendFragment, SendRefused, receiverVars
  <2> QED
    BY <2>1, <1>1
<1>4. CASE Lose \/ UNCHANGED vars
  <2>1. UNCHANGED <<reassembly, delivered, heard>> /\ sent \subseteq sent'
    BY <1>4 DEF Lose, senderVars, receiverVars, vars
  <2> QED
    BY <2>1, <1>1
<1>5. ASSUME NEW w \in sent, sent' = sent, delivered' \in {delivered, Append(delivered, Bytes(w))}
      PROVE  PayloadsIntact'
  <2>1. CASE delivered' = delivered
    BY <1>5, <2>1 DEF PayloadsIntact, Bytes
  <2>2. CASE delivered' = Append(delivered, Bytes(w))
    <3>1. /\ Len(delivered) \in Nat
          /\ Len(delivered') = Len(delivered) + 1
          /\ delivered'[Len(delivered) + 1] = Bytes(w)
          /\ \A i \in 1 .. Len(delivered) : delivered'[i] = delivered[i]
      BY <1>t, <2>2
    <3>2. \A i \in 1 .. Len(delivered') : i \in 1 .. Len(delivered) \/ i = Len(delivered) + 1
      BY <3>1
    <3>3. ASSUME NEW i \in 1 .. Len(delivered') PROVE \E v \in sent' : delivered'[i] = Bytes(v)
      <4>1. CASE i \in 1 .. Len(delivered)
        BY <1>5, <3>1, <4>1 DEF PayloadsIntact
      <4>2. CASE i = Len(delivered) + 1
        BY <1>5, <3>1, <4>2
      <4> QED
        BY <3>2, <4>1, <4>2
    <3> QED
      BY <3>3 DEF PayloadsIntact, Bytes
  <2> QED
    BY <1>5, <2>1, <2>2
<1>6. CASE ReceiveWhole
  <2>1. /\ Head(bus).msg \in sent
        /\ Head(bus).data = Bytes(Head(bus).msg)
    BY <1>6, <1>t, BusHead DEF ReceiveWhole, Truthful
  <2>2. /\ sent' = sent /\ UNCHANGED <<reassembly, heard>>
        /\ delivered' \in {delivered, Append(delivered, Head(bus).data)}
    BY <1>6 DEF ReceiveWhole, Deliver, senderVars
  <2>3. PayloadsIntact'
    BY <1>5, <2>1, <2>2
  <2>4. ReassemblyInv'
    BY <2>2 DEF ReassemblyInv, Bytes
  <2> QED
    BY <2>3, <2>4
<1>7. CASE ReceiveFragment
  <2> DEFINE f == Head(bus)
             m == f.msg
             data == Opened(f).data \o f.data
  <2>1. /\ bus # <<>>
        /\ f.fragment
        /\ m \in sent
        /\ m \in Message
        /\ m.fseq # 0
        /\ f.total = m.len
        /\ m.from \in Senders
    <3>1. bus # <<>> /\ f.fragment
      BY <1>7 DEF ReceiveFragment
    <3>2. m \in sent /\ Truthful(f)
      BY <1>t, <3>1, BusHead
    <3>3. m \in Message
      BY <1>t, <3>2 DEF TypeOK
    <3> QED
      BY <3>1, <3>2, <3>3, MessageFacts DEF Truthful
  <2>2. sent' = sent /\ heard' = [heard EXCEPT ![m.from] = m.fseq]
    BY <1>7 DEF ReceiveFragment, senderVars
  <2>3. heard'[m.from] = m.fseq
    BY <1>t, <2>1, <2>2 DEF TypeOK
  <2>4. CASE ~Fits(f)
    <3>1. reassembly' = ResetReassembly /\ delivered' = delivered
      BY <1>7, <2>4 DEF ReceiveFragment
    <3> QED
      BY <1>5, <2>1, <2>2, <3>1 DEF ReassemblyInv, ResetReassembly
  <2>5. CASE Fits(f)
    <3>1. /\ data \in Seq(Byte)
          /\ Len(data) <= m.len
          /\ data = SubSeq(Bytes(m), 1, Len(data))
          /\ Opened(f).seq = m.fseq % SeqMod
          /\ Opened(f).total = m.len
      BY <2>1, <2>5, Carried
    <3>2. Opened(f) \in [active : BOOLEAN, seq : 0 .. SeqMod - 1, total : Nat, data : Seq(Byte)]
      <4>1. f \in Frame
        BY <1>t, <2>1, BusHead
      <4>2. f.seq \in 0 .. SeqMod - 1 /\ f.total \in Nat
        BY <2>1, <4>1 DEF Frame
      <4> QED
        BY <1>t, <4>2 DEF Opened, TypeOK
    <3>3. CASE ~f.end
      <4>1. reassembly' = [Opened(f) EXCEPT !.data = data] /\ delivered' = delivered
        BY <1>7, <2>5, <3>3 DEF ReceiveFragment
      <4>2. /\ reassembly'.data = data
            /\ reassembly'.seq = m.fseq % SeqMod
            /\ reassembly'.total = m.len
        BY <3>1, <3>2, <4>1
      <4> HIDE DEF data, m
      <4>3. /\ Len(reassembly'.data) <= m.len
            /\ reassembly'.data = SubSeq(Bytes(m), 1, Len(reassembly'.data))
        BY <3>1, <4>2
      <4>4. ReassemblyInv'
        BY <2>1, <2>2, <2>3, <4>2, <4>3 DEF ReassemblyInv, Bytes
      <4>5. PayloadsIntact'
        BY <1>5, <2>1, <2>2, <4>1
      <4> QED
        BY <4>4, <4>5
    <3>4. CASE f.end
      <4>1. reassembly' = ResetReassembly
        BY <1>7, <2>5, <3>4 DEF ReceiveFragment
      <4>2. ReassemblyInv'
        BY <4>1 DEF ReassemblyInv, ResetReassembly
      <4>3. CASE Len(data) = f.total
        <5>1. data = Bytes(m)
          BY <2>1, <3>1, <4>3, WholeIsBytes
        <5>2. delivered' \in {delivered, Append(delivered, data)}
          BY <1>7, <2>5, <3>4, <4>3 DEF ReceiveFragment, Deliver
        <5>3. delivered' \in {delivered, Append(delivered, Bytes(m))}
          BY <5>1, <5>2
        <5> QED
          BY <1>5, <2>1, <2>2, <4>2, <5>3
      <4>4. CASE Len(data) # f.total
        <5>1. delivered' = delivered
          BY <1>7, <2>5, <3>4, <4>4 DEF ReceiveFragment
        <5> QED
          BY <1>5, <2>1, <2>2, <4>2, <5>1
      <4> QED
        BY <4>3, <4>4
    <3> QED
      BY <3>3, <3>4
  <2> QED
    BY <2>4, <2>5
<1> QED
  BY <1>2, <1>3, <1>4, <1>6, <1>7 DEF Next

\* What holds while the one sender is heard often enough.
OneSenderInv == LinkInv /\ Audible /\ ReassemblyInv /\ PayloadsIntact

LEMMA OneSenderInit == Init => OneSenderInv
<1> SUFFICES ASSUME Init PROVE OneSenderInv
  OBVIOUS
<1>1. SeqMod \in Nat \ {0}
  BY FragmentationAssumption
<1>2. Audible
  BY <1>1 DEF Init, Audible
<1> QED
  BY <1>2, LinkInit DEF Init, OneSenderInv, ReassemblyInv, ResetReassembly, PayloadsIntact

LEMMA OneSenderInductive ==
    ASSUME NEW s, Senders = {s}
    PROVE  OneSenderInv /\ [Next /\ Audible']_vars => OneSenderInv'
<1> SUFFICES ASSUME OneSenderInv, [Next /\ Audible']_vars PROVE OneSenderInv'
  OBVIOUS
<1>1. [Next]_vars /\ LinkInv /\ Audible /\ ReassemblyInv /\ PayloadsIntact
  BY DEF OneSenderInv
<1>2. LinkInv'
  BY <1>1, LinkInductive
<1>3. Audible'
  BY <1>1 DEF Audible, vars
<1>4. ReassemblyInv' /\ PayloadsIntact'
  BY <1>1, <1>2, ReassemblyInductive
<1> QED
  BY <1>2, <1>3, <1>4 DEF OneSenderInv

\* While one node sends on the bus and its receiver is never a full turn of the
\* sequence number behind, a delivered payload is one that was sent, byte for byte:
\* no loss or refusal makes handle_fragment_frame_ put two messages into one.
THEOREM OneSenderPayloadsIntact ==
    ASSUME NEW s, Senders = {s}
    PROVE  AudibleSpec => []PayloadsIntact
<1>1. OneSenderInv /\ [Next /\ Audible']_vars => OneSenderInv'
  BY OneSenderInductive
<1>2. OneSenderInv => PayloadsIntact
  BY DEF OneSenderInv
<1> QED
  BY OneSenderInit, <1>1, <1>2, PTL DEF AudibleSpec
--------------------------------------------------------------------------------
(* What a loss may take with it *)

\* No frame of m was lost or refused, and the receiver has room for it.
Safe(m) == m \notin damaged /\ m.len <= MaxPayload

Delivered(m) == \E i \in 1 .. Len(delivered) : delivered[i] = Bytes(m)

\* The receiver is ready for the byte at offset o of m: at its start it always is.
Ready(m, o) ==
    o # 0 => /\ reassembly.active
             /\ reassembly.seq = m.fseq % SeqMod
             /\ reassembly.total = m.len
             /\ reassembly.data = SubSeq(Bytes(m), 1, o)

\* The frame before the i+1st on the bus carries m up to o.
Preceded(m, o, i) ==
    IF i = 0 THEN Ready(m, o)
             ELSE o # 0 => /\ bus[i].fragment
                           /\ bus[i].msg = m
                           /\ bus[i].offset + Len(bus[i].data) = o

\* The marks of a fragment say where it begins and ends.
Marked(f) ==
    f.fragment => /\ Len(f.data) > 0
                  /\ f.start <=> f.offset = 0
                  /\ f.end <=> f.offset + Len(f.data) = f.msg.len
                  /\ f.chunk = Len(f.data)

\* The fragments of a message follow each other without a gap, in what the receiver
\* has collected, on the bus and in the loop that sends them, as far as none was
\* lost; and the last one is on its way unless the message is delivered.
LossInv ==
    /\ \A i \in 1 .. Len(bus) : Marked(bus[i])
    /\ \A i \in 1 .. Len(bus) :
          bus[i].fragment /\ Safe(bus[i].msg) => Preceded(bus[i].msg, bus[i].offset, i - 1)
    /\ \A s \in Senders :
          sending[s] # NoMessage /\ Safe(sending[s])
             => Preceded(sending[s], offset[s], Len(bus))
    /\ \A m \in sent :
          Safe(m) /\ m # sending[m.from] =>
             \/ Delivered(m)
             \/ \E i \in 1 .. Len(bus) : bus[i].msg = m /\ (bus[i].fragment => bus[i].end)

LEMMA PrefixCarried ==
    ASSUME NEW m \in Message, NEW o \in Nat, NEW c \in Nat, o + c <= m.len
    PROVE  /\ SubSeq(Bytes(m), 1, o) \o SubSeq(Bytes(m), o + 1, o + c) = SubSeq(Bytes(m), 1, o + c)
           /\ SubSeq(Bytes(m), 1, o + c) \in Seq(Byte)
           /\ Len(SubSeq(Bytes(m), 1, o + c)) = o + c
           /\ Len(SubSeq(Bytes(m), o + 1, o + c)) = c
<1>1. Bytes(m) \in Seq(Byte) /\ Len(Bytes(m)) = m.len /\ m.len \in Nat
  BY BytesFacts, MessageFacts
<1>2. /\ 1 \in 1 .. Len(Bytes(m)) + 1
      /\ o \in 1 - 1 .. Len(Bytes(m))
      /\ o + c \in o .. Len(Bytes(m))
  BY <1>1
<1>3. SubSeq(Bytes(m), 1, o) \o SubSeq(Bytes(m), o + 1, o + c) = SubSeq(Bytes(m), 1, o + c)
  BY ONLY <1>1, <1>2, ConcatAdjacentSubSeq
<1>4. SubSeq(Bytes(m), 1, o + c) \in Seq(Byte) /\ Len(SubSeq(Bytes(m), 1, o + c)) = o + c
  BY <1>1, SubSeqProperties
<1>5. Len(SubSeq(Bytes(m), o + 1, o + c)) = c
  <2>1. /\ o + 1 \in 1 .. Len(Bytes(m)) + 1
        /\ o + c \in (o + 1) - 1 .. Len(Bytes(m))
    BY <1>1
  <2>2. Len(SubSeq(Bytes(m), o + 1, o + c))
           = IF o + 1 <= o + c THEN (o + c) - (o + 1) + 1 ELSE 0
    BY <1>1, <2>1, SubSeqProperties
  <2> QED
    BY <2>2
<1> QED
  BY <1>3, <1>4, <1>5

\* A true fragment carries the bytes of its message from its offset on.
LEMMA TrueData ==
    ASSUME NEW f \in Frame, f.fragment, Truthful(f), f.msg \in Message
    PROVE  /\ f.offset \in Nat /\ Len(f.data) \in Nat
           /\ f.offset + Len(f.data) <= f.msg.len
           /\ f.data = SubSeq(Bytes(f.msg), f.offset + 1, f.offset + Len(f.data))
<1>1. f.offset \in Nat /\ f.msg.len \in Nat
  BY MessageFacts DEF Frame
<1>2. PICK c \in 0 .. f.msg.len :
          /\ f.offset + c <= f.msg.len
          /\ f.data = SubSeq(Bytes(f.msg), f.offset + 1, f.offset + c)
  BY DEF Truthful
<1> DEFINE m == f.msg
           o == f.offset
<1>3. m \in Message /\ o \in Nat /\ c \in Nat /\ o + c <= m.len
  BY <1>1, <1>2
<1> HIDE DEF m, o
<1>4. Len(SubSeq(Bytes(m), o + 1, o + c)) = c
  BY <1>3, PrefixCarried
<1>5. Len(f.data) = c
  BY <1>2, <1>4 DEF m, o
<1> QED
  BY <1>1, <1>2, <1>3, <1>5

LEMMA FragmentMarked ==
    ASSUME NEW m \in Message, NEW o \in Nat, o < m.len, m.fseq # 0, ChunkMax < ChunkMod
    PROVE  /\ Marked(Fragment(m, o))
           /\ Fragment(m, o).offset = o
<1> DEFINE chunk == IF m.len - o > ChunkMax THEN ChunkMax ELSE m.len - o
           f == Fragment(m, o)
<1>1. m.len \in Nat
  BY MessageFacts
<1>2. chunk \in Nat \ {0} /\ o + chunk <= m.len /\ chunk <= ChunkMax
  BY <1>1, ChunkPositive
<1>b. chunk % ChunkMod = chunk
  <2>1. chunk < ChunkMod /\ ChunkMod \in Nat \ {0}
    BY <1>2, ChunkPositive, FragmentationAssumption
  <2> HIDE DEF chunk
  <2> QED
    BY <1>2, <2>1
<1>3. /\ f.fragment /\ f.msg = m /\ f.offset = o
      /\ f.chunk = chunk % ChunkMod
      /\ f.start <=> o = 0
      /\ f.end <=> o + chunk = m.len
      /\ f.data = SubSeq(Bytes(m), o + 1, o + chunk)
  BY DEF Fragment
<1> HIDE DEF chunk, f
<1>4. Len(f.data) = chunk
  BY <1>2, <1>3, PrefixCarried
<1>5. Len(f.data) > 0 /\ o + Len(f.data) = o + chunk
  BY <1>2, <1>4
<1>6. Marked(f)
  BY <1>b, <1>3, <1>4, <1>5 DEF Marked
<1> QED
  BY <1>3, <1>6 DEF f

\* The fragment at the head of the bus, of a message of which nothing was lost, is in
\* place: it is collected, and the last one delivers the message.
LEMMA SafeFragmentReceived ==
    ASSUME LinkInv, LossInv, ReceiveFragment, Safe(bus[1].msg)
    PROVE  IF bus[1].end
           THEN delivered' = Append(delivered, Bytes(bus[1].msg))
           ELSE /\ reassembly'.active
                /\ reassembly'.seq = bus[1].msg.fseq % SeqMod
                /\ reassembly'.total = bus[1].msg.len
                /\ reassembly'.data = SubSeq(Bytes(bus[1].msg), 1, bus[1].offset + Len(bus[1].data))
                /\ delivered' = delivered
<1> DEFINE f == Head(bus)
           m == f.msg
           o == f.offset
           c == Len(f.data)
           data == Opened(f).data \o f.data
<1>t. TypeOK /\ BusInv
  BY DEF LinkInv
<1>1. /\ bus # <<>> /\ f.fragment /\ f = bus[1] /\ f \in Frame
      /\ m \in sent /\ m \in Message /\ Truthful(f)
  BY <1>t, BusHead DEF ReceiveFragment, TypeOK
<1>2. 1 \in 1 .. Len(bus) /\ 1 - 1 = 0
  <2>1. bus \in Seq(Frame)
    BY <1>t DEF TypeOK
  <2> QED
    BY <1>1, <2>1, EmptySeq
<1>3. Marked(f) /\ Ready(m, o)
  BY <1>1, <1>2 DEF LossInv, Preceded
<1>4. /\ f.seq = m.fseq % SeqMod
      /\ f.total = m.len
  BY <1>1 DEF Truthful
<1>5. /\ o \in Nat /\ c \in Nat /\ o + c <= m.len /\ m.len \in Nat \ {0}
      /\ f.data = SubSeq(Bytes(m), o + 1, o + c)
  BY <1>1, TrueData, MessageFacts
<1>6. /\ c > 0
      /\ f.start <=> o = 0
      /\ f.end <=> o + c = m.len
      /\ f.chunk = c
  BY <1>1, <1>3 DEF Marked
<1> HIDE DEF f, m, o, c
<1>7. /\ Opened(f).active
      /\ Opened(f).seq = f.seq
      /\ Opened(f).total = f.total
      /\ Opened(f).data = SubSeq(Bytes(m), 1, o)
  <2>1. CASE o = 0
    <3>1. Opened(f) = [active |-> TRUE, seq |-> f.seq, total |-> f.total, data |-> <<>>]
      BY <1>6, <2>1 DEF Opened
    <3>2. SubSeq(Bytes(m), 1, 0) = <<>>
      BY <1>1, BytesFacts
    <3> QED
      BY <2>1, <3>1, <3>2
  <2>2. CASE o # 0
    <3>1. Opened(f) = reassembly
      BY <1>6, <2>2 DEF Opened
    <3> QED
      BY <1>3, <1>4, <2>2, <3>1 DEF Ready
  <2> QED
    BY <2>1, <2>2
<1>8. Len(SubSeq(Bytes(m), 1, o)) = o
  <2>1. o + 0 <= m.len /\ o + 0 = o /\ 0 \in Nat
    BY <1>5
  <2> QED
    BY <1>1, <1>5, <2>1, PrefixCarried
<1>9. ~Malformed(f)
  <2>1. m.len <= MaxPayload
    BY <1>1 DEF Safe, f, m
  <2>2. MaxPayload \in Nat /\ CrcSize \in Nat
    BY FragmentationAssumption
  <2>3. ~(m.len > MaxPayload + CrcSize) /\ m.len # 0 /\ ~(o + c > m.len) /\ c # 0
    BY <1>5, <1>6, <2>1, <2>2
  <2> QED
    BY <1>4, <1>6, <2>3 DEF Malformed, RawMax, o, c
<1>10. Fits(f)
  BY <1>7, <1>8, <1>9 DEF Fits, Continues, o
<1>11. /\ data = SubSeq(Bytes(m), 1, o + c)
       /\ Len(data) = o + c
  <2>1. /\ SubSeq(Bytes(m), 1, o) \o SubSeq(Bytes(m), o + 1, o + c) = SubSeq(Bytes(m), 1, o + c)
        /\ Len(SubSeq(Bytes(m), 1, o + c)) = o + c
    BY <1>1, <1>5, PrefixCarried
  <2>2. data = SubSeq(Bytes(m), 1, o) \o SubSeq(Bytes(m), o + 1, o + c)
    BY <1>5, <1>7
  <2> QED
    BY <2>1, <2>2
<1>12. CASE f.end
  <2>1. Len(data) = f.total
    BY <1>4, <1>6, <1>11, <1>12
  <2>2. Len(data) <= MaxPayload
    BY <1>1, <1>4, <2>1 DEF Safe, f, m
  <2>3. delivered' = Append(delivered, data)
    BY <1>10, <1>12, <2>1, <2>2 DEF ReceiveFragment, Deliver, f
  <2>4. data = Bytes(m)
    BY <1>1, <1>6, <1>11, <1>12, WholeIsBytes
  <2> QED
    BY <1>1, <1>12, <2>3, <2>4 DEF f, m
<1>13. CASE ~f.end
  <2>1. reassembly' = [Opened(f) EXCEPT !.data = data] /\ delivered' = delivered
    BY <1>10, <1>13 DEF ReceiveFragment, f
  <2>2. Opened(f) \in [active : BOOLEAN, seq : 0 .. SeqMod - 1, total : Nat, data : Seq(Byte)]
    <3>1. f.seq \in 0 .. SeqMod - 1 /\ f.total \in Nat
      BY <1>1 DEF Frame
    <3> QED
      BY <1>t, <3>1 DEF Opened, TypeOK
  <2>3. /\ reassembly'.active = Opened(f).active
        /\ reassembly'.seq = Opened(f).seq
        /\ reassembly'.total = Opened(f).total
        /\ reassembly'.data = data
    <3> HIDE DEF data
    <3> QED
      BY <2>1, <2>2
  <2> QED
    BY <1>1, <1>4, <1>7, <1>11, <1>13, <2>1, <2>3 DEF f, m, o, c
<1> QED
  BY <1>12, <1>13

LEMMA BusTaken ==
    ASSUME TypeOK, Lose \/ ReceiveWhole \/ ReceiveFragment
    PROVE  /\ Len(bus) \in Nat
           /\ 1 \in 1 .. Len(bus)
           /\ Head(bus) = bus[1]
           /\ Len(bus') = Len(bus) - 1
           /\ \A i \in 1 .. Len(bus') : i + 1 \in 1 .. Len(bus) /\ bus'[i] = bus[i + 1]
           /\ UNCHANGED senderVars
           /\ damaged \subseteq damaged'
           /\ Lose => bus[1].msg \in damaged'
           /\ ~Lose => damaged' = damaged
<1>1. bus # <<>> /\ bus' = Tail(bus) /\ UNCHANGED senderVars
  BY DEF Lose, ReceiveWhole, ReceiveFragment
<1>2. bus \in Seq(Frame)
  BY DEF TypeOK
<1>3. /\ Len(bus) \in Nat
      /\ 1 \in 1 .. Len(bus)
      /\ Head(bus) = bus[1]
      /\ Len(bus') = Len(bus) - 1
      /\ \A i \in 1 .. Len(bus') : bus'[i] = bus[i + 1]
  BY <1>1, <1>2, EmptySeq, HeadTailProperties
<1>4. \A i \in 1 .. Len(bus') : i + 1 \in 1 .. Len(bus)
  BY <1>3
<1> QED
  BY <1>1, <1>3, <1>4 DEF Lose, ReceiveWhole, ReceiveFragment

\* What came before a frame on the bus came before it when the head is taken.
LEMMA PrecededTaken ==
    ASSUME LinkInv, LossInv, Lose \/ ReceiveWhole \/ ReceiveFragment,
           NEW m \in Message, NEW o \in Nat, o < m.len, Safe(m)',
           NEW i \in 1 .. Len(bus), Preceded(m, o, i)
    PROVE  Preceded(m, o, i - 1)'
<1>t. TypeOK
  BY DEF LinkInv
<1>b. /\ Len(bus) \in Nat
      /\ 1 \in 1 .. Len(bus)
      /\ Head(bus) = bus[1]
      /\ Len(bus') = Len(bus) - 1
      /\ \A k \in 1 .. Len(bus') : k + 1 \in 1 .. Len(bus) /\ bus'[k] = bus[k + 1]
      /\ Lose => bus[1].msg \in damaged'
      /\ ~Lose => damaged' = damaged
  BY <1>t, BusTaken
<1>1. CASE i # 1
  <2>1. i - 1 \in 1 .. Len(bus') /\ i - 1 + 1 = i /\ i - 1 # 0 /\ i # 0
    BY <1>b, <1>1
  <2>2. bus'[i - 1] = bus[i]
    BY <1>b, <2>1
  <2> QED
    BY <2>1, <2>2 DEF Preceded
<1>2. CASE i = 1
  <2>1. SUFFICES ASSUME o # 0 PROVE Ready(m, o)'
    <3>1. i - 1 = 0
      BY <1>2
    <3> QED
      BY <2>1, <3>1 DEF Preceded, Ready
  <2>2. bus[1].fragment /\ bus[1].msg = m /\ bus[1].offset + Len(bus[1].data) = o
    BY <1>2, <2>1 DEF Preceded
  <2>3. ~Lose /\ ~ReceiveWhole
    BY <1>b, <2>2 DEF Safe, ReceiveWhole
  <2>4. ReceiveFragment /\ Safe(m)
    BY <1>b, <2>3 DEF Safe
  <2>5. ~bus[1].end
    <3>1. Marked(bus[1]) /\ m.len \in Nat
      BY <1>b, MessageFacts DEF LossInv
    <3> QED
      BY <2>2, <3>1 DEF Marked
  <2> QED
    BY <2>2, <2>4, <2>5, SafeFragmentReceived DEF Ready, Bytes
<1> QED
  BY <1>1, <1>2

\* Payloads stay delivered.
LEMMA DeliveredStays ==
    ASSUME TypeOK, TypeOK',
           \/ delivered' = delivered
           \/ \E d \in Seq(Byte) : delivered' = Append(delivered, d)
    PROVE  /\ \A m : Delivered(m) => Delivered(m)'
           /\ \A m \in Message : delivered' = Append(delivered, Bytes(m)) => Delivered(m)'
<1>1. delivered \in Seq(Seq(Byte)) /\ Len(delivered) \in Nat
  BY DEF TypeOK
<1>2. CASE delivered' = delivered
  <2>1. \A m : Delivered(m) => Delivered(m)'
    BY <1>2 DEF Delivered, Bytes
  <2>2. ASSUME NEW d \in Seq(Byte), delivered' = Append(delivered, d) PROVE FALSE
    <3>1. Len(delivered') = Len(delivered) + 1
      BY <1>1, <2>2, AppendProperties
    <3> QED
      BY <1>1, <1>2, <3>1
  <2> QED
    BY <2>1, <2>2, BytesFacts
<1>3. ASSUME NEW d \in Seq(Byte), delivered' = Append(delivered, d)
      PROVE  /\ \A m : Delivered(m) => Delivered(m)'
             /\ \A m \in Message : delivered' = Append(delivered, Bytes(m)) => Delivered(m)'
  <2>1. /\ Len(delivered') = Len(delivered) + 1
        /\ \A i \in 1 .. Len(delivered) : delivered'[i] = delivered[i]
        /\ delivered'[Len(delivered) + 1] = d
    BY <1>1, <1>3, AppendProperties
  <2>2. /\ \A i \in 1 .. Len(delivered) : i \in 1 .. Len(delivered')
        /\ Len(delivered) + 1 \in 1 .. Len(delivered')
    BY <1>1, <2>1
  <2>3. ASSUME NEW m \in Message, delivered' = Append(delivered, Bytes(m))
        PROVE  d = Bytes(m)
    <3>1. Append(delivered, Bytes(m))[Len(delivered) + 1] = Bytes(m)
      BY <1>1, BytesFacts, AppendProperties
    <3> QED
      BY <2>1, <2>3, <3>1
  <2> QED
    BY <2>1, <2>2, <2>3 DEF Delivered, Bytes
<1> QED
  BY <1>2, <1>3

\* The receiver's steps and a loss, however many nodes send
LEMMA LossTaken ==
    ASSUME LinkInv, LinkInv', LossInv, Lose \/ ReceiveWhole \/ ReceiveFragment
    PROVE  LossInv'
<1>t. TypeOK /\ TypeOK' /\ BusInv /\ SendingInv
  BY DEF LinkInv
<1>b. /\ Len(bus) \in Nat
      /\ 1 \in 1 .. Len(bus)
      /\ Head(bus) = bus[1]
      /\ Len(bus') = Len(bus) - 1
      /\ \A i \in 1 .. Len(bus') : i + 1 \in 1 .. Len(bus) /\ bus'[i] = bus[i + 1]
      /\ UNCHANGED <<sending, offset, sent>>
      /\ damaged \subseteq damaged'
      /\ Lose => bus[1].msg \in damaged'
      /\ ~Lose => damaged' = damaged
  BY <1>t, BusTaken DEF senderVars
<1>s. ASSUME NEW m, Safe(m)' PROVE Safe(m)
  BY <1>b, <1>s DEF Safe
<1>1. ASSUME NEW i \in 1 .. Len(bus')
      PROVE  Marked(bus[i])'
  BY <1>b DEF LossInv, Marked
<1>2. ASSUME NEW i \in 1 .. Len(bus'), bus'[i].fragment, Safe(bus[i].msg)'
      PROVE  Preceded(bus[i].msg, bus[i].offset, i - 1)'
  <2>0. i + 1 \in 1 .. Len(bus) /\ bus'[i] = bus[i + 1] /\ i + 1 - 1 = i /\ i \in 1 .. Len(bus)
    BY <1>b
  <2>1. PICK m, o : m = bus[i + 1].msg /\ o = bus[i + 1].offset
    OBVIOUS
  <2>2. Safe(m)'
    BY <1>2, <2>0, <2>1 DEF Safe
  <2>3. Preceded(m, o, i)
    <3>1. Safe(m)
      BY <1>s, <2>2
    <3>2. bus[i + 1].fragment
      BY <1>2, <2>0
    <3> QED
      BY <2>0, <2>1, <3>1, <3>2 DEF LossInv
  <2>4. m \in Message /\ o \in Nat /\ o < m.len
    <3>1. bus[i + 1] \in Frame
      BY <1>t, <2>0, ElementOfSeq DEF TypeOK
    <3>2. m \in Message /\ Truthful(bus[i + 1]) /\ bus[i + 1].fragment /\ Marked(bus[i + 1])
      BY <1>t, <1>2, <2>0, <2>1 DEF TypeOK, BusInv, LossInv
    <3>3. /\ o \in Nat /\ Len(bus[i + 1].data) \in Nat
          /\ o + Len(bus[i + 1].data) <= m.len
      BY <2>1, <3>1, <3>2, TrueData
    <3>4. Len(bus[i + 1].data) > 0 /\ m.len \in Nat
      BY <3>2, MessageFacts DEF Marked
    <3> QED
      BY <3>2, <3>3, <3>4
  <2>5. Preceded(m, o, i - 1)'
    BY <2>0, <2>2, <2>3, <2>4, PrecededTaken
  <2> QED
    BY <2>0, <2>1, <2>5 DEF Preceded, Ready, Bytes
<1>3. ASSUME NEW r \in Senders, sending'[r] # NoMessage, Safe(sending[r])'
      PROVE  Preceded(sending[r], offset[r], Len(bus))'
  <2>1. PICK m, o : m = sending[r] /\ o = offset[r]
    OBVIOUS
  <2>2. sending'[r] = m /\ offset'[r] = o /\ Safe(m)'
    BY <1>b, <1>3, <2>1 DEF Safe
  <2>3. Safe(m) /\ m # NoMessage
    BY <1>s, <1>3, <2>2
  <2>4. PICK n : n = Len(bus)
    OBVIOUS
  <2>5. m \in Message /\ o \in Nat /\ o < m.len
    <3>1. /\ SendingInv /\ sent \subseteq Message
          /\ offset \in [Senders -> Nat] /\ sending \in [Senders -> sent \union {NoMessage}]
      BY <1>t DEF TypeOK
    <3>2. m \in Message /\ o \in Nat
      BY <2>1, <2>3, <3>1
    <3>3. o < m.len
      BY <2>1, <2>3, <3>1, Zenon DEF SendingInv
    <3> QED
      BY <3>2, <3>3
  <2>6. n \in 1 .. Len(bus) /\ Preceded(m, o, n) /\ Len(bus') = n - 1
    BY <1>b, <2>1, <2>3, <2>4 DEF LossInv
  <2>7. Preceded(m, o, n - 1)'
    BY <2>2, <2>5, <2>6, PrecededTaken
  <2> QED
    BY <2>2, <2>6, <2>7 DEF Preceded, Ready, Bytes
<1>4. ASSUME NEW m \in sent', Safe(m)', m # sending'[m.from], ~Delivered(m)'
      PROVE  \E i \in 1 .. Len(bus') : bus'[i].msg = m /\ (bus'[i].fragment => bus'[i].end)
  <2>1. m \in sent /\ m \in Message /\ Safe(m) /\ m # sending[m.from]
    BY <1>b, <1>s, <1>t, <1>4 DEF TypeOK
  <2>2. \/ delivered' = delivered
        \/ \E d \in Seq(Byte) : delivered' = Append(delivered, d)
    <3>1. CASE Lose
      BY <3>1 DEF Lose, receiverVars
    <3>2. CASE ReceiveWhole
      <4>1. Head(bus).data \in Seq(Byte)
        BY <1>t, <3>2, BusHead DEF ReceiveWhole, Frame
      <4> QED
        BY <3>2, <4>1 DEF ReceiveWhole, Deliver
    <3>3. CASE ReceiveFragment
      <4>1. Head(bus).data \in Seq(Byte) /\ Opened(Head(bus)).data \in Seq(Byte)
        BY <1>t, <3>3, BusHead, EmptySeq DEF ReceiveFragment, Frame, Opened, TypeOK
      <4>2. Opened(Head(bus)).data \o Head(bus).data \in Seq(Byte)
        BY <4>1, ConcatProperties
      <4> QED
        BY <3>3, <4>2 DEF ReceiveFragment, Deliver
    <3> QED
      BY <3>1, <3>2, <3>3
  <2>3. ~Delivered(m)
    BY <1>4, <1>t, <2>2, DeliveredStays
  <2>4. PICK i \in 1 .. Len(bus) : bus[i].msg = m /\ (bus[i].fragment => bus[i].end)
    BY <2>1, <2>3 DEF LossInv
  <2>5. i # 1
    <3>1. SUFFICES ASSUME bus[1].msg = m, bus[1].fragment => bus[1].end PROVE FALSE
      BY <2>4
    <3>2. ~Lose
      BY <1>4, <1>b, <3>1 DEF Safe
    <3>3. delivered' # Append(delivered, Bytes(m))
      BY <1>4, <1>t, <2>1, <2>2, DeliveredStays
    <3>4. CASE ReceiveWhole
      <4>1. bus[1].data = Bytes(m)
        BY <1>b, <1>t, <3>1, <3>4, BusHead DEF ReceiveWhole, Truthful
      <4>2. Len(bus[1].data) <= MaxPayload
        BY <2>1, <4>1, BytesFacts DEF Safe
      <4> QED
        BY <1>b, <3>3, <3>4, <4>1, <4>2 DEF ReceiveWhole, Deliver
    <3>5. CASE ReceiveFragment
      <4>1. bus[1].end
        BY <1>b, <3>1, <3>5 DEF ReceiveFragment
      <4> QED
        BY <2>1, <3>1, <3>3, <3>5, <4>1, SafeFragmentReceived
    <3> QED
      BY <3>2, <3>4, <3>5
  <2>6. i - 1 \in 1 .. Len(bus') /\ i - 1 + 1 = i
    BY <1>b, <2>5
  <2>7. bus'[i - 1] = bus[i]
    BY <1>b, <2>6
  <2> QED
    BY <2>4, <2>6, <2>7
<1> QED
  BY <1>1, <1>2, <1>3, <1>4 DEF LossInv

\* A frame is put behind those on the bus.
LEMMA LossAppended ==
    ASSUME LinkInv, LossInv, NEW f \in Frame, Marked(f),
           f.fragment /\ Safe(f.msg) => Preceded(f.msg, f.offset, Len(bus)),
           bus' = Append(bus, f), UNCHANGED <<damaged, reassembly, delivered>>
    PROVE  /\ Len(bus) \in Nat
           /\ Len(bus') = Len(bus) + 1
           /\ \A i \in 1 .. Len(bus) : bus'[i] = bus[i]
           /\ bus'[Len(bus) + 1] = f
           /\ \A m : Safe(m)' <=> Safe(m)
           /\ \A m : Delivered(m)' <=> Delivered(m)
           /\ \A i \in 1 .. Len(bus') : Marked(bus[i])'
           /\ \A i \in 1 .. Len(bus') :
                 bus'[i].fragment /\ Safe(bus[i].msg)'
                    => Preceded(bus[i].msg, bus[i].offset, i - 1)'
<1>t. bus \in Seq(Frame)
  BY DEF LinkInv, TypeOK
<1>1. /\ Len(bus) \in Nat
      /\ Len(bus') = Len(bus) + 1
      /\ \A i \in 1 .. Len(bus) : bus'[i] = bus[i]
      /\ bus'[Len(bus) + 1] = f
  BY <1>t, AppendProperties
<1>2. \A m : Safe(m)' <=> Safe(m)
  BY DEF Safe
<1>3. \A m : Delivered(m)' <=> Delivered(m)
  BY DEF Delivered, Bytes
<1>4. \A i \in 1 .. Len(bus') : i \in 1 .. Len(bus) \/ i = Len(bus) + 1
  BY <1>1
<1>5. ASSUME NEW i \in 1 .. Len(bus') PROVE Marked(bus[i])'
  <2>1. CASE i \in 1 .. Len(bus)
    BY <1>1, <2>1 DEF LossInv, Marked
  <2>2. CASE i = Len(bus) + 1
    BY <1>1, <2>2 DEF Marked
  <2> QED
    BY <1>4, <2>1, <2>2
<1>6. ASSUME NEW i \in 1 .. Len(bus'), bus'[i].fragment, Safe(bus[i].msg)'
      PROVE  Preceded(bus[i].msg, bus[i].offset, i - 1)'
  <2>1. PICK m, o : m = bus'[i].msg /\ o = bus'[i].offset
    OBVIOUS
  <2>2. Safe(m)
    BY <1>6, <2>1 DEF Safe
  <2>3. Preceded(m, o, i - 1)
    <3>1. CASE i \in 1 .. Len(bus)
      <4>1. bus[i].fragment /\ m = bus[i].msg /\ o = bus[i].offset
        BY <1>1, <1>6, <2>1, <3>1
      <4> QED
        BY <2>2, <3>1, <4>1 DEF LossInv
    <3>2. CASE i = Len(bus) + 1
      <4>1. f.fragment /\ m = f.msg /\ o = f.offset /\ i - 1 = Len(bus)
        BY <1>1, <1>6, <2>1, <3>2
      <4> QED
        BY <2>2, <4>1
    <3> QED
      BY <1>4, <3>1, <3>2
  <2>4. i - 1 = 0 \/ i - 1 \in 1 .. Len(bus)
    BY <1>1
  <2>5. Preceded(m, o, i - 1)'
    BY <1>1, <2>3, <2>4 DEF Preceded, Ready, Bytes
  <2> QED
    BY <2>1, <2>5 DEF Preceded, Ready, Bytes
<1> QED
  BY <1>1, <1>2, <1>3, <1>5, <1>6

LEMMA LossSendWhole ==
    ASSUME LinkInv, LinkInv', LossInv, NEW s \in Senders, Senders = {s},
           NEW len \in Lengths, SendWhole(s, len)
    PROVE  LossInv'
<1>1. PICK m, f : /\ m = [from |-> s, n |-> sends[s] + 1, fseq |-> 0, len |-> len]
                  /\ f = [fragment |-> FALSE, msg |-> m, data |-> Bytes(m)]
  OBVIOUS
<1>2. /\ sent' = sent \union {m} /\ bus' = Append(bus, f)
      /\ UNCHANGED <<sending, damaged, reassembly, delivered>>
      /\ sending[s] = NoMessage
  BY <1>1 DEF SendWhole, receiverVars
<1>3. m \in Message /\ sent \subseteq Message
  BY <1>2 DEF LinkInv, TypeOK
<1>4. f \in Frame /\ ~f.fragment /\ Marked(f) /\ f.msg = m
  BY <1>1, <1>3, BytesFacts DEF Frame, Marked
<1>5. /\ Len(bus) \in Nat
      /\ Len(bus') = Len(bus) + 1
      /\ \A i \in 1 .. Len(bus) : bus'[i] = bus[i]
      /\ bus'[Len(bus) + 1] = f
      /\ \A w : Safe(w)' <=> Safe(w)
      /\ \A w : Delivered(w)' <=> Delivered(w)
      /\ \A i \in 1 .. Len(bus') : Marked(bus[i])'
      /\ \A i \in 1 .. Len(bus') :
            bus'[i].fragment /\ Safe(bus[i].msg)'
               => Preceded(bus[i].msg, bus[i].offset, i - 1)'
  BY <1>2, <1>4, LossAppended
<1>6. ASSUME NEW r \in Senders PROVE sending'[r] = NoMessage
  BY <1>2
<1>7. /\ Len(bus) + 1 \in 1 .. Len(bus')
      /\ \A i \in 1 .. Len(bus) : i \in 1 .. Len(bus')
  BY <1>5
<1>8. ASSUME NEW w \in sent', Safe(w)', ~Delivered(w)'
      PROVE  \E i \in 1 .. Len(bus') : bus'[i].msg = w /\ (bus'[i].fragment => bus'[i].end)
  <2>1. CASE w = m
    BY <1>4, <1>5, <1>7, <2>1
  <2>2. CASE w \in sent
    <3>1. w # sending[w.from] /\ Safe(w) /\ ~Delivered(w)
      BY <1>2, <1>3, <1>5, <1>8, <2>2, MessageFacts
    <3>2. PICK i \in 1 .. Len(bus) : bus[i].msg = w /\ (bus[i].fragment => bus[i].end)
      BY <2>2, <3>1 DEF LossInv
    <3> QED
      BY <1>5, <1>7, <3>2
  <2> QED
    BY <1>2, <2>1, <2>2
<1> QED
  BY <1>5, <1>6, <1>8 DEF LossInv

LEMMA LossSendFragmented ==
    ASSUME LinkInv, LossInv, NEW s \in Senders, Senders = {s},
           NEW len \in Lengths, SendFragmented(s, len)
    PROVE  LossInv'
<1>1. PICK m : m = [from |-> s, n |-> sends[s] + 1, fseq |-> NextSeq(s), len |-> len]
  OBVIOUS
<1>2. /\ sent' = sent \union {m}
      /\ UNCHANGED <<bus, damaged, reassembly, delivered>>
      /\ sending[s] = NoMessage
      /\ sending' = [sending EXCEPT ![s] = m]
      /\ offset' = [offset EXCEPT ![s] = 0]
  BY <1>1 DEF SendFragmented, receiverVars
<1>3. sending'[s] = m /\ offset'[s] = 0 /\ sent \subseteq Message
  BY <1>2 DEF LinkInv, TypeOK
<1>4. \A i \in 1 .. Len(bus') : Marked(bus[i])'
  BY <1>2 DEF LossInv, Marked
<1>5. ASSUME NEW i \in 1 .. Len(bus'), bus'[i].fragment, Safe(bus[i].msg)'
      PROVE  Preceded(bus[i].msg, bus[i].offset, i - 1)'
  <2>1. i \in 1 .. Len(bus) /\ bus[i].fragment /\ Safe(bus[i].msg)
    BY <1>2, <1>5 DEF Safe
  <2>2. Preceded(bus[i].msg, bus[i].offset, i - 1)
    BY <2>1 DEF LossInv
  <2> QED
    BY <1>2, <2>2 DEF Preceded, Ready, Bytes
<1>6. \A r \in Senders : Preceded(sending[r], offset[r], Len(bus))'
  BY <1>3 DEF Preceded, Ready
<1>7. ASSUME NEW w \in sent', Safe(w)', w # sending'[w.from], ~Delivered(w)'
      PROVE  \E i \in 1 .. Len(bus') : bus'[i].msg = w /\ (bus'[i].fragment => bus'[i].end)
  <2>1. w # m
    <3>1. m.from = s
      BY <1>1
    <3> QED
      BY <1>3, <1>7, <3>1
  <2>2. w \in sent /\ w # sending[w.from]
    BY <1>2, <1>3, <2>1, MessageFacts
  <2>3. Safe(w) /\ ~Delivered(w)
    BY <1>2, <1>7 DEF Safe, Delivered, Bytes
  <2> QED
    BY <1>2, <2>2, <2>3 DEF LossInv
<1> QED
  BY <1>4, <1>5, <1>6, <1>7 DEF LossInv

LEMMA LossSendFragment ==
    ASSUME LinkInv, LossInv, NEW s \in Senders, Senders = {s}, ChunkMax < ChunkMod,
           SendFragment(s)
    PROVE  LossInv'
<1>1. PICK m, o, f : m = sending[s] /\ o = offset[s] /\ f = Fragment(m, o)
  OBVIOUS
<1>2. /\ m # NoMessage
      /\ bus' = Append(bus, f)
      /\ offset' = [offset EXCEPT ![s] = o + Len(f.data)]
      /\ sending' = [sending EXCEPT ![s] = IF f.end THEN NoMessage ELSE m]
      /\ UNCHANGED <<sent, damaged, reassembly, delivered>>
  BY <1>1 DEF SendFragment, receiverVars
<1>3. /\ sent \subseteq Message
      /\ m \in Message /\ m.from = s /\ m.fseq # 0
      /\ o \in Nat /\ o < m.len
  BY <1>1, <1>2 DEF LinkInv, TypeOK, SendingInv
<1>4. /\ f \in Frame /\ f.fragment /\ f.msg = m
      /\ Marked(f) /\ f.offset = o
  BY <1>1, <1>3, FragmentFacts, FragmentMarked
<1>5. Safe(m) => Preceded(m, o, Len(bus))
  BY <1>1, <1>2 DEF LossInv
<1>6. /\ Len(bus) \in Nat
      /\ Len(bus') = Len(bus) + 1
      /\ \A i \in 1 .. Len(bus) : bus'[i] = bus[i]
      /\ bus'[Len(bus) + 1] = f
      /\ \A w : Safe(w)' <=> Safe(w)
      /\ \A w : Delivered(w)' <=> Delivered(w)
      /\ \A i \in 1 .. Len(bus') : Marked(bus[i])'
      /\ \A i \in 1 .. Len(bus') :
            bus'[i].fragment /\ Safe(bus[i].msg)'
               => Preceded(bus[i].msg, bus[i].offset, i - 1)'
  BY <1>2, <1>4, <1>5, LossAppended
<1>7. /\ Len(bus') # 0
      /\ Len(bus') \in 1 .. Len(bus')
      /\ \A i \in 1 .. Len(bus) : i \in 1 .. Len(bus')
      /\ bus'[Len(bus')] = f
  BY <1>6
<1>8. /\ sending'[s] = IF f.end THEN NoMessage ELSE m
      /\ offset'[s] = o + Len(f.data)
  BY <1>2 DEF LinkInv, TypeOK
<1>9. ASSUME NEW r \in Senders, sending'[r] # NoMessage
      PROVE  Preceded(sending[r], offset[r], Len(bus))'
  <2>1. sending'[r] = m /\ offset'[r] = f.offset + Len(f.data)
    BY <1>4, <1>8, <1>9
  <2> QED
    BY <1>4, <1>7, <2>1 DEF Preceded
<1>10. ASSUME NEW w \in sent', Safe(w)', w # sending'[w.from], ~Delivered(w)'
       PROVE  \E i \in 1 .. Len(bus') : bus'[i].msg = w /\ (bus'[i].fragment => bus'[i].end)
  <2>1. w \in sent /\ w.from = s
    BY <1>2, <1>3, MessageFacts
  <2>2. CASE w = m
    <3>1. f.end
      BY <1>8, <1>10, <2>1, <2>2
    <3> QED
      BY <1>4, <1>7, <2>2, <3>1
  <2>3. CASE w # m
    <3>1. w # sending[w.from] /\ Safe(w) /\ ~Delivered(w)
      BY <1>1, <1>6, <1>10, <2>1, <2>3
    <3>2. PICK i \in 1 .. Len(bus) : bus[i].msg = w /\ (bus[i].fragment => bus[i].end)
      BY <2>1, <3>1 DEF LossInv
    <3> QED
      BY <1>6, <1>7, <3>2
  <2> QED
    BY <2>2, <2>3
<1> QED
  BY <1>6, <1>9, <1>10 DEF LossInv

\* A refused message is no longer safe, and nothing else changes.
LEMMA LossSendRefused ==
    ASSUME LinkInv, LossInv, NEW s \in Senders, Senders = {s}, SendRefused(s)
    PROVE  LossInv'
<1>1. PICK m : m = sending[s]
  OBVIOUS
<1>2. /\ damaged' = damaged \union {m}
      /\ sending' = [sending EXCEPT ![s] = NoMessage]
      /\ UNCHANGED <<offset, sent, bus, reassembly, delivered>>
  BY <1>1 DEF SendRefused, receiverVars
<1>3. sending'[s] = NoMessage /\ sent \subseteq Message
  BY <1>2 DEF LinkInv, TypeOK
<1>4. /\ \A w : Safe(w)' => Safe(w) /\ w # m
      /\ \A w : Delivered(w)' <=> Delivered(w)
  BY <1>2 DEF Safe, Delivered, Bytes
<1>5. \A i \in 1 .. Len(bus') : Marked(bus[i])'
  BY <1>2 DEF LossInv, Marked
<1>6. ASSUME NEW i \in 1 .. Len(bus'), bus'[i].fragment, Safe(bus[i].msg)'
      PROVE  Preceded(bus[i].msg, bus[i].offset, i - 1)'
  <2>1. i \in 1 .. Len(bus) /\ bus[i].fragment /\ Safe(bus[i].msg)
    BY <1>2, <1>6 DEF Safe
  <2>2. Preceded(bus[i].msg, bus[i].offset, i - 1)
    BY <2>1 DEF LossInv
  <2> QED
    BY <1>2, <2>2 DEF Preceded, Ready, Bytes
<1>7. ASSUME NEW w \in sent', Safe(w)', ~Delivered(w)'
      PROVE  \E i \in 1 .. Len(bus') : bus'[i].msg = w /\ (bus'[i].fragment => bus'[i].end)
  <2>1. w \in sent /\ w.from = s
    BY <1>2, <1>3, <1>7, MessageFacts
  <2>2. w # sending[w.from] /\ Safe(w) /\ ~Delivered(w)
    BY <1>1, <1>4, <1>7, <2>1
  <2> QED
    BY <1>2, <2>1, <2>2 DEF LossInv
<1> QED
  BY <1>3, <1>5, <1>6, <1>7 DEF LossInv

LEMMA LossStutter == LossInv /\ UNCHANGED vars => LossInv'
<1> SUFFICES ASSUME LossInv, UNCHANGED vars PROVE LossInv'
  OBVIOUS
<1>1. UNCHANGED <<sending, offset, bus, reassembly, delivered, sent, damaged>>
  BY DEF vars
<1>2. \A w : (Safe(w)' <=> Safe(w)) /\ (Delivered(w)' <=> Delivered(w))
  BY <1>1 DEF Safe, Delivered, Bytes
<1>3. \A i \in 1 .. Len(bus') : Marked(bus[i])'
  BY <1>1 DEF LossInv, Marked
<1>4. ASSUME NEW i \in 1 .. Len(bus'), bus'[i].fragment, Safe(bus[i].msg)'
      PROVE  Preceded(bus[i].msg, bus[i].offset, i - 1)'
  <2>1. i \in 1 .. Len(bus) /\ bus[i].fragment /\ Safe(bus[i].msg)
    BY <1>1, <1>4 DEF Safe
  <2>2. Preceded(bus[i].msg, bus[i].offset, i - 1)
    BY <2>1 DEF LossInv
  <2> QED
    BY <1>1, <2>2 DEF Preceded, Ready, Bytes
<1>5. ASSUME NEW r \in Senders, sending'[r] # NoMessage, Safe(sending[r])'
      PROVE  Preceded(sending[r], offset[r], Len(bus))'
  <2>1. Safe(sending[r]) /\ sending[r] # NoMessage
    BY <1>1, <1>5 DEF Safe
  <2>2. Preceded(sending[r], offset[r], Len(bus))
    BY <2>1 DEF LossInv
  <2> QED
    BY <1>1, <2>2 DEF Preceded, Ready, Bytes
<1>6. \A w \in sent' :
         Safe(w)' /\ w # sending'[w.from] =>
            \/ Delivered(w)'
            \/ \E i \in 1 .. Len(bus') : bus'[i].msg = w /\ (bus'[i].fragment => bus'[i].end)
  BY <1>1, <1>2 DEF LossInv
<1> QED
  BY <1>3, <1>4, <1>5, <1>6 DEF LossInv

LEMMA LossInit == Init => LossInv
<1> SUFFICES ASSUME Init PROVE LossInv
  OBVIOUS
<1>1. Len(bus) = 0 /\ 1 .. Len(bus) = {} /\ sent = {}
  BY EmptySeq DEF Init
<1>2. \A s \in Senders : sending[s] = NoMessage
  BY DEF Init
<1> QED
  BY <1>1, <1>2 DEF LossInv

\* One node sends, and frames are lost or refused as they may be: a message all of
\* whose frames got through and that fits the receiver is delivered.  The reassembly
\* never has to be told by hand, or by a timeout, that the message it waits for is
\* gone: handle_fragment_frame_ starts over at every first fragment.  The chunks must
\* be no longer than the byte chunk_len can tell: a physical_frame_limit of 266 at
\* most, with a length prefix; longer ones are truncated and refused.
THEOREM OneSenderNoCollateralLoss ==
    ASSUME NEW s, Senders = {s}, ChunkMax < ChunkMod
    PROVE  Spec => []NoCollateralLoss
<1> DEFINE Inv == LinkInv /\ LossInv
<1>1. Init => Inv
  BY LinkInit, LossInit
<1>2. Inv /\ [Next]_vars => Inv'
  <2> SUFFICES ASSUME LinkInv, LossInv, [Next]_vars PROVE LinkInv' /\ LossInv'
    OBVIOUS
  <2>1. LinkInv'
    BY LinkInductive
  <2>2. CASE UNCHANGED vars
    BY <2>1, <2>2, LossStutter
  <2>3. ASSUME NEW r \in Senders, NEW len \in Lengths, SendWhole(r, len) PROVE LossInv'
    BY <2>1, <2>3, LossSendWhole
  <2>4. ASSUME NEW r \in Senders, NEW len \in Lengths, SendFragmented(r, len) PROVE LossInv'
    BY <2>4, LossSendFragmented
  <2>5. ASSUME NEW r \in Senders, SendFragment(r) PROVE LossInv'
    BY <2>5, LossSendFragment
  <2>6. ASSUME NEW r \in Senders, SendRefused(r) PROVE LossInv'
    BY <2>6, LossSendRefused
  <2>7. CASE Lose \/ ReceiveWhole \/ ReceiveFragment
    BY <2>1, <2>7, LossTaken
  <2> QED
    BY <2>1, <2>2, <2>3, <2>4, <2>5, <2>6, <2>7 DEF Next
<1>3. Inv => NoCollateralLoss
  <2> SUFFICES ASSUME LinkInv, LossInv, NEW m \in sent, Safe(m), ~InFlight(m)
               PROVE  Delivered(m)
    BY DEF NoCollateralLoss, Safe, Delivered
  <2> QED
    BY DEF LossInv, InFlight
<1> QED
  BY <1>1, <1>2, <1>3, PTL DEF Spec
--------------------------------------------------------------------------------
(* The order in which one sender is heard *)

\* The frame with which its message comes to an end.
Ends(f) == f.fragment => f.end

\* Frame f is older than what is yet to come of message m.
Before(f, m) == f.msg.n <= m.n /\ (Ends(f) => f.msg.n < m.n)

\* Nothing of m, or of a message before it, is on its way any more.
Done(m) ==
    /\ m \in sent
    /\ \A i \in 1 .. Len(bus) : m.n < bus[i].msg.n
    /\ \A r \in Senders : sending[r] # NoMessage => m.n < sending[r].n

\* The frames of the bus are in the order of their messages, the one being cut is the
\* youngest, and what was delivered is older than all of them.
OrderInv ==
    /\ \A m \in sent : m.n <= sends[m.from]
    /\ \A i, j \in 1 .. Len(bus) : i < j => Before(bus[i], bus[j].msg)
    /\ \A r \in Senders : sending[r] # NoMessage =>
          \A i \in 1 .. Len(bus) : Before(bus[i], sending[r])
    /\ \A i \in 1 .. Len(delivered) : \A m \in Origin(delivered[i]) : Done(m)
    /\ DeliveredInOrder

LEMMA OriginOfBytes ==
    ASSUME NEW m \in Message
    PROVE  Origin(Bytes(m)) = {m}
<1>1. /\ m.len \in Nat \ {0} /\ Len(Bytes(m)) = m.len
      /\ \A i \in 1 .. m.len : Bytes(m)[i] = [msg |-> m, at |-> i]
  BY BytesFacts, MessageFacts
<1>2. 1 \in 1 .. m.len
  <2>1. m.len \in Nat \ {0}
    BY MessageFacts
  <2> QED
    BY ONLY <2>1
<1>3. ASSUME NEW i \in 1 .. m.len
      PROVE  Bytes(m)[i].msg = m
  <2>1. Bytes(m)[i] = [msg |-> m, at |-> i]
    BY <1>1
  <2>2. [msg |-> m, at |-> i].msg = m
    OBVIOUS
  <2> HIDE DEF Bytes
  <2> QED
    BY ONLY <2>1, <2>2, Zenon
<1> QED
  BY <1>1, <1>2, <1>3 DEF Origin

\* All messages come from the one sender, and their numbers are numbers.
LEMMA OneSource ==
    ASSUME NEW s \in Senders, Senders = {s}, TypeOK
    PROVE  /\ \A m \in sent : m.from = s /\ m.n \in Nat /\ m \in Message
           /\ sends[s] \in Nat
<1>1. MaxSends \in Nat
  BY FragmentationAssumption
<1>2. \A m \in sent : m.from \in Senders /\ m.n \in 1 .. MaxSends /\ m \in Message
  BY MessageFacts DEF TypeOK
<1>3. sends[s] \in 0 .. MaxSends
  BY DEF TypeOK
<1> QED
  BY <1>1, <1>2, <1>3

\* What one step of the receiver, or a loss, may do: it takes the first frame off the
\* bus, and delivers at most its message, and only with the frame that ends it.
TakesHead ==
    /\ bus # <<>>
    /\ bus' = Tail(bus)
    /\ UNCHANGED <<sends, sending, sent>>
    /\ \/ delivered' = delivered
       \/ Ends(Head(bus)) /\ delivered' = Append(delivered, Bytes(Head(bus).msg))

LEMMA HeadTaken ==
    ASSUME NEW s \in Senders, Senders = {s}, LinkInv, ReassemblyInv, Audible,
           Lose \/ ReceiveWhole \/ ReceiveFragment
    PROVE  TakesHead
<1>t. TypeOK /\ BusInv
  BY DEF LinkInv
<1>1. CASE Lose
  BY <1>1 DEF Lose, TakesHead, senderVars, receiverVars
<1>2. CASE ReceiveWhole
  <2>1. Ends(Head(bus)) /\ Head(bus).data = Bytes(Head(bus).msg)
    BY <1>2, <1>t, BusHead DEF ReceiveWhole, Truthful, Ends
  <2>2. /\ bus # <<>> /\ bus' = Tail(bus) /\ UNCHANGED <<sends, sending, sent>>
        /\ delivered' = delivered \/ delivered' = Append(delivered, Head(bus).data)
    BY <1>2 DEF ReceiveWhole, Deliver, senderVars
  <2> QED
    BY <2>1, <2>2 DEF TakesHead
<1>3. CASE ReceiveFragment
  <2> DEFINE f == Head(bus)
             m == f.msg
             data == Opened(f).data \o f.data
  <2>1. bus # <<>> /\ f.fragment /\ bus' = Tail(bus) /\ UNCHANGED <<sends, sending, sent>>
    BY <1>3 DEF ReceiveFragment, senderVars
  <2>2. CASE delivered' = delivered
    BY <2>1, <2>2 DEF TakesHead
  <2>3. CASE delivered' # delivered
    <3>1. Fits(f) /\ f.end /\ Len(data) = f.total /\ delivered' = Append(delivered, data)
      BY <1>3, <2>3 DEF ReceiveFragment, Deliver
    <3>2. m \in Message /\ f.total = m.len
      BY <1>t, <2>1, BusHead DEF Truthful, TypeOK
    <3>3. data = SubSeq(Bytes(m), 1, Len(data))
      BY <2>1, <3>1, Carried
    <3>4. data = Bytes(m)
      <4> HIDE DEF data, m
      <4> QED
        BY <3>1, <3>2, <3>3, WholeIsBytes
    <3> QED
      BY <2>1, <3>1, <3>4 DEF TakesHead, Ends
  <2> QED
    BY <2>2, <2>3
<1> QED
  BY <1>1, <1>2, <1>3

\* What is done stays done while frames are taken off the bus.
LEMMA DoneTaken ==
    ASSUME TypeOK, bus # <<>>, bus' = Tail(bus), UNCHANGED <<sending, sent>>,
           NEW m, Done(m)
    PROVE  Done(m)'
<1>1. \A i \in 1 .. Len(bus') : i + 1 \in 1 .. Len(bus) /\ bus'[i] = bus[i + 1]
  BY DEF TypeOK
<1> QED
  BY <1>1 DEF Done

LEMMA OrderKept == DeliveredInOrder /\ delivered' = delivered => DeliveredInOrder'
<1> SUFFICES ASSUME DeliveredInOrder, delivered' = delivered,
                    NEW i \in 1 .. Len(delivered), NEW j \in 1 .. Len(delivered), i < j,
                    NEW m \in Origin(delivered[i]), NEW w \in Origin(delivered[j]),
                    m.from = w.from
             PROVE  m.n < w.n
  BY DEF DeliveredInOrder, Origin
<1> QED
  BY DEF DeliveredInOrder

\* Once the frame that ends a message has been taken, the message is done.
LEMMA HeadDone ==
    ASSUME LinkInv, OrderInv, TakesHead, Ends(Head(bus)),
           NEW m, m = Head(bus).msg
    PROVE  Done(m)'
<1>1. /\ bus # <<>> /\ bus' = Tail(bus) /\ UNCHANGED <<sending, sent>>
      /\ TypeOK /\ BusInv
  BY DEF TakesHead, LinkInv
<1>2. /\ m \in sent /\ Head(bus) = bus[1]
      /\ 1 \in 1 .. Len(bus)
      /\ \A i \in 1 .. Len(bus') : /\ i + 1 \in 1 .. Len(bus) /\ 1 < i + 1
                                   /\ bus'[i] = bus[i + 1]
  BY <1>1, BusHead DEF TypeOK
<1>3. \A i \in 1 .. Len(bus') : m.n < bus'[i].msg.n
  BY <1>2 DEF OrderInv, Before
<1>4. \A r \in Senders : sending'[r] # NoMessage => m.n < sending'[r].n
  BY <1>1, <1>2 DEF OrderInv, Before
<1> QED
  BY <1>1, <1>2, <1>3, <1>4 DEF Done

LEMMA OrderTaken ==
    ASSUME NEW s \in Senders, Senders = {s}, LinkInv, OrderInv, TakesHead
    PROVE  OrderInv'
<1>m. PICK m : m = Head(bus).msg
  OBVIOUS
<1>t. TypeOK /\ BusInv /\ delivered \in Seq(Seq(Byte)) /\ Len(delivered) \in Nat
  BY DEF LinkInv, TypeOK
<1>1. bus # <<>> /\ bus' = Tail(bus) /\ UNCHANGED <<sends, sending, sent>>
  BY DEF TakesHead
<1>2. \A i \in 1 .. Len(bus') : i + 1 \in 1 .. Len(bus) /\ bus'[i] = bus[i + 1]
  BY <1>1, <1>t DEF TypeOK
<1>3. \A v \in sent' : v.n <= sends'[v.from]
  BY <1>1 DEF OrderInv
<1>4. ASSUME NEW i \in 1 .. Len(bus'), NEW j \in 1 .. Len(bus'), i < j
      PROVE  Before(bus'[i], bus'[j].msg)
  <2>1. i + 1 < j + 1 /\ i + 1 \in 1 .. Len(bus) /\ j + 1 \in 1 .. Len(bus)
    <3>1. Len(bus') \in Nat
      BY <1>1, <1>t DEF TypeOK
    <3>2. i \in Nat /\ j \in Nat
      BY <3>1
    <3>3. i + 1 < j + 1
      BY ONLY <1>4, <3>2
    <3> QED
      BY <1>2, <3>3
  <2>2. Before(bus[i + 1], bus[j + 1].msg)
    BY <2>1 DEF OrderInv
  <2> QED
    BY <1>2, <2>2
<1>5. ASSUME NEW r \in Senders, sending'[r] # NoMessage, NEW i \in 1 .. Len(bus')
      PROVE  Before(bus'[i], sending'[r])
  BY <1>1, <1>2, <1>5 DEF OrderInv
<1>6. \A v : Done(v) => Done(v)'
  BY <1>1, <1>t, DoneTaken
<1>7. ASSUME Ends(Head(bus)), delivered' = Append(delivered, Bytes(m))
      PROVE  /\ \A i \in 1 .. Len(delivered') : \A v \in Origin(delivered'[i]) : Done(v)'
             /\ DeliveredInOrder'
  <2> DEFINE n == Len(delivered)
  <2>1. /\ Len(delivered') = n + 1
        /\ delivered'[n + 1] = Bytes(m)
        /\ \A i \in 1 .. n : delivered'[i] = delivered[i]
    BY <1>t, <1>7
  <2>2. m \in Message /\ Origin(Bytes(m)) = {m} /\ Head(bus) = bus[1] /\ 1 \in 1 .. Len(bus)
    <3>1. m \in sent /\ Head(bus) = bus[1]
      BY <1>1, <1>m, <1>t, BusHead
    <3>2. 1 \in 1 .. Len(bus)
      BY <1>1, <1>t DEF TypeOK
    <3>3. m \in Message
      BY <1>t, <3>1 DEF TypeOK
    <3> QED
      BY <3>1, <3>2, <3>3, OriginOfBytes
  <2>3. Done(m)'
    BY <1>7, <1>m, HeadDone
  <2>4. \A i \in 1 .. n : \A v \in Origin(delivered[i]) : Done(v) /\ v.n < m.n
    BY <1>m, <2>2 DEF OrderInv, Done
  <2>5. \A i \in 1 .. n + 1 : i \in 1 .. n \/ i = n + 1
    BY <1>t
  <2>6. ASSUME NEW i \in 1 .. Len(delivered') PROVE \A v \in Origin(delivered'[i]) : Done(v)'
    <3>1. CASE i \in 1 .. n
      BY <1>6, <2>1, <2>4, <3>1
    <3>2. CASE i = n + 1
      BY <2>1, <2>2, <2>3, <3>2
    <3> QED
      BY <2>1, <2>5, <3>1, <3>2
  <2>7. ASSUME NEW i \in 1 .. Len(delivered'), NEW j \in 1 .. Len(delivered'), i < j,
               NEW v \in Origin(delivered'[i]), NEW w \in Origin(delivered'[j]),
               v.from = w.from
        PROVE  v.n < w.n
    <3>1. i \in 1 .. n /\ (j \in 1 .. n \/ j = n + 1)
      <4> HIDE DEF n
      <4>1. i \in 1 .. n + 1 /\ j \in 1 .. n + 1 /\ n \in Nat
        BY <1>t, <2>1, <2>7 DEF n
      <4> QED
        BY ONLY <2>7, <4>1
    <3>2. CASE j \in 1 .. n
      BY <2>1, <2>7, <3>1, <3>2 DEF OrderInv, DeliveredInOrder
    <3>3. CASE j = n + 1
      BY <2>1, <2>2, <2>4, <2>7, <3>1, <3>3
    <3> QED
      BY <3>1, <3>2, <3>3
  <2>8. DeliveredInOrder'
    BY <2>7 DEF DeliveredInOrder, Origin
  <2> QED
    BY <2>6, <2>8
<1>8. CASE delivered' = delivered
  <2>1. \A i \in 1 .. Len(delivered') : \A v \in Origin(delivered'[i]) : Done(v)'
    BY <1>6, <1>8 DEF OrderInv
  <2>2. DeliveredInOrder'
    BY <1>8, OrderKept DEF OrderInv
  <2> QED
    BY <1>3, <1>4, <1>5, <2>1, <2>2 DEF OrderInv, Before, Ends, Origin
<1>9. CASE Ends(Head(bus)) /\ delivered' = Append(delivered, Bytes(m))
  BY <1>3, <1>4, <1>5, <1>7, <1>9 DEF OrderInv, Before, Ends, Origin
<1> QED
  BY <1>8, <1>9, <1>m DEF TakesHead

\* A frame may go onto the bus if it is of a message that nothing is ahead of.
LEMMA OrderAppended ==
    ASSUME TypeOK, OrderInv, NEW f, bus' = Append(bus, f), delivered' = delivered,
           sent \subseteq sent', \A m \in sent' : m.n <= sends'[m.from],
           \A i \in 1 .. Len(bus) : Before(bus[i], f.msg),
           \A m : Done(m) => m.n < f.msg.n,
           \A r \in Senders : sending'[r] # NoMessage =>
               sending'[r] = sending[r] /\ Before(f, sending[r])
    PROVE  OrderInv'
<1>1. /\ Len(bus) \in Nat /\ Len(bus') = Len(bus) + 1 /\ bus'[Len(bus) + 1] = f
      /\ \A i \in 1 .. Len(bus) : bus'[i] = bus[i]
  BY DEF TypeOK
<1>2. \A i \in 1 .. Len(bus') : i \in 1 .. Len(bus) \/ i = Len(bus) + 1
  BY <1>1
<1>3. ASSUME NEW i \in 1 .. Len(bus'), NEW j \in 1 .. Len(bus'), i < j
      PROVE  Before(bus'[i], bus'[j].msg)
  <2>1. i \in 1 .. Len(bus)
    BY <1>1, <1>2, <1>3
  <2>2. CASE j \in 1 .. Len(bus)
    BY <1>1, <1>3, <2>1, <2>2 DEF OrderInv
  <2>3. CASE j = Len(bus) + 1
    BY <1>1, <2>1, <2>3
  <2> QED
    BY <1>2, <2>2, <2>3
<1>4. ASSUME NEW r \in Senders, sending'[r] # NoMessage, NEW i \in 1 .. Len(bus')
      PROVE  Before(bus'[i], sending'[r])
  <2>1. CASE i \in 1 .. Len(bus)
    BY <1>1, <1>4, <2>1 DEF OrderInv
  <2>2. CASE i = Len(bus) + 1
    BY <1>1, <1>4, <2>2
  <2> QED
    BY <1>2, <2>1, <2>2
<1>5. ASSUME NEW m, Done(m)
      PROVE  Done(m)'
  <2>1. \A i \in 1 .. Len(bus') : m.n < bus'[i].msg.n
    BY <1>1, <1>2, <1>5 DEF Done
  <2>2. \A r \in Senders : sending'[r] # NoMessage => m.n < sending'[r].n
    BY <1>5 DEF Done
  <2> QED
    BY <1>5, <2>1, <2>2 DEF Done
<1>6. \A i \in 1 .. Len(delivered') : \A m \in Origin(delivered'[i]) : Done(m)'
  BY <1>5 DEF OrderInv
<1>7. DeliveredInOrder'
  BY OrderKept DEF OrderInv
<1> QED
  BY <1>3, <1>4, <1>6, <1>7 DEF OrderInv, Before, Ends, Origin

LEMMA OrderSendWhole ==
    ASSUME NEW s \in Senders, Senders = {s}, LinkInv, OrderInv,
           NEW len \in Lengths, SendWhole(s, len)
    PROVE  OrderInv'
<1>1. PICK m, f : /\ m = [from |-> s, n |-> sends[s] + 1, fseq |-> 0, len |-> len]
                  /\ f = [fragment |-> FALSE, msg |-> m, data |-> Bytes(m)]
  OBVIOUS
<1>2. /\ sent' = sent \union {m} /\ bus' = Append(bus, f)
      /\ UNCHANGED <<sending, delivered>>
      /\ sends' = [sends EXCEPT ![s] = @ + 1]
      /\ sending[s] = NoMessage
  BY <1>1 DEF SendWhole, receiverVars
<1>3. m.from = s /\ m.n = sends[s] + 1 /\ f.msg = m
  BY <1>1
<1>t. TypeOK /\ BusInv /\ sends' [s] = sends[s] + 1
  BY <1>2 DEF LinkInv, TypeOK
<1>4. sends[s] \in Nat /\ \A v \in sent : v.from = s /\ v.n \in Nat /\ v.n <= sends[s]
  BY <1>t, OneSource DEF OrderInv
<1>5. \A v \in sent : v.n < m.n
  BY <1>3, <1>4
<1>6. \A v \in sent' : v.n <= sends'[v.from]
  BY <1>2, <1>3, <1>4, <1>t
<1>7. \A i \in 1 .. Len(bus) : Before(bus[i], f.msg)
  <2> SUFFICES ASSUME NEW i \in 1 .. Len(bus) PROVE Before(bus[i], f.msg)
    OBVIOUS
  <2>1. bus[i].msg \in sent
    BY <1>t DEF BusInv
  <2>2. bus[i].msg.n < m.n /\ bus[i].msg.n \in Nat /\ m.n \in Nat
    BY <1>3, <1>4, <1>5, <2>1
  <2> QED
    BY <1>3, <2>2 DEF Before
<1>8. \A v : Done(v) => v.n < f.msg.n
  BY <1>3, <1>5 DEF Done
<1>9. \A r \in Senders : sending'[r] = NoMessage
  BY <1>2
<1> QED
  BY <1>2, <1>6, <1>7, <1>8, <1>9, <1>t, OrderAppended

LEMMA OrderSendFragmented ==
    ASSUME NEW s \in Senders, Senders = {s}, LinkInv, OrderInv,
           NEW len \in Lengths, SendFragmented(s, len)
    PROVE  OrderInv'
<1>1. PICK m : m = [from |-> s, n |-> sends[s] + 1, fseq |-> NextSeq(s), len |-> len]
  OBVIOUS
<1>2. /\ sent' = sent \union {m}
      /\ UNCHANGED <<bus, delivered>>
      /\ sends' = [sends EXCEPT ![s] = @ + 1]
      /\ sending' = [sending EXCEPT ![s] = m]
  BY <1>1 DEF SendFragmented, receiverVars
<1>3. m.from = s /\ m.n = sends[s] + 1
  BY <1>1
<1>t. TypeOK /\ BusInv /\ sends' [s] = sends[s] + 1 /\ sending'[s] = m
  BY <1>2 DEF LinkInv, TypeOK
<1>4. sends[s] \in Nat /\ \A v \in sent : v.from = s /\ v.n \in Nat /\ v.n <= sends[s]
  BY <1>t, OneSource DEF OrderInv
<1>5. \A v \in sent : v.n < m.n
  BY <1>3, <1>4
<1>6. \A v \in sent' : v.n <= sends'[v.from]
  BY <1>2, <1>3, <1>4, <1>t
<1>7. ASSUME NEW i \in 1 .. Len(bus) PROVE Before(bus[i], m)
  <2>1. bus[i].msg \in sent
    BY <1>t DEF BusInv
  <2>2. bus[i].msg.n < m.n /\ bus[i].msg.n \in Nat /\ m.n \in Nat
    BY <1>3, <1>4, <1>5, <2>1
  <2> QED
    BY <2>2 DEF Before
<1>8. \A r \in Senders : sending'[r] = m
  BY <1>t
<1>9. ASSUME NEW v, Done(v) PROVE Done(v)'
  <2>1. v.n < m.n
    BY <1>5, <1>9 DEF Done
  <2> QED
    BY <1>2, <1>8, <1>9, <2>1 DEF Done
<1>10. \A i \in 1 .. Len(delivered') : \A v \in Origin(delivered'[i]) : Done(v)'
  BY <1>2, <1>9 DEF OrderInv
<1>11. DeliveredInOrder'
  <2>1. delivered' = delivered
    BY <1>2
  <2> QED
    BY <2>1, OrderKept DEF OrderInv
<1>12. \A i, j \in 1 .. Len(bus') : i < j => Before(bus'[i], bus'[j].msg)
  BY <1>2 DEF OrderInv
<1>13. \A r \in Senders : \A i \in 1 .. Len(bus') : Before(bus'[i], sending'[r])
  BY <1>2, <1>7, <1>8
<1> QED
  BY <1>6, <1>10, <1>11, <1>12, <1>13 DEF OrderInv, Before, Ends, Origin

LEMMA OrderSendFragment ==
    ASSUME NEW s \in Senders, Senders = {s}, LinkInv, OrderInv, SendFragment(s)
    PROVE  OrderInv'
<1>1. PICK m, f : m = sending[s] /\ f = Fragment(m, offset[s])
  OBVIOUS
<1>t. TypeOK /\ SendingInv
  BY DEF LinkInv
<1>2. /\ m # NoMessage /\ bus' = Append(bus, f)
      /\ sending' = [sending EXCEPT ![s] = IF f.end THEN NoMessage ELSE m]
      /\ UNCHANGED <<sends, sent, delivered>>
  BY <1>1 DEF SendFragment, receiverVars
<1>3. m \in sent /\ m \in Message /\ m.n \in Nat
  BY <1>1, <1>2, <1>t, OneSource DEF TypeOK
<1>4. f.msg = m /\ f.fragment
  BY <1>1 DEF Fragment
<1>5. sending'[s] = IF f.end THEN NoMessage ELSE m
  BY <1>2, <1>t DEF TypeOK
<1>6. \A i \in 1 .. Len(bus) : Before(bus[i], f.msg)
  BY <1>1, <1>2, <1>4 DEF OrderInv
<1>7. \A v : Done(v) => v.n < f.msg.n
  BY <1>1, <1>2, <1>4 DEF Done
<1>8. ASSUME NEW r \in Senders, sending'[r] # NoMessage
      PROVE  sending'[r] = sending[r] /\ Before(f, sending[r])
  <2>1. r = s /\ ~f.end /\ sending'[s] = m
    BY <1>5, <1>8
  <2>2. Before(f, m)
    BY <1>3, <1>4, <2>1 DEF Before, Ends
  <2> QED
    BY <1>1, <2>1, <2>2
<1>9. sent \subseteq sent' /\ \A v \in sent' : v.n <= sends'[v.from]
  BY <1>2 DEF OrderInv
<1> QED
  BY <1>2, <1>6, <1>7, <1>8, <1>9, <1>t, OrderAppended

LEMMA OrderSendRefused ==
    ASSUME NEW s \in Senders, Senders = {s}, LinkInv, OrderInv, SendRefused(s)
    PROVE  OrderInv'
<1>1. /\ sending' = [sending EXCEPT ![s] = NoMessage]
      /\ UNCHANGED <<sends, sent, bus, delivered>>
      /\ sending \in [Senders -> sent \union {NoMessage}]
  BY DEF SendRefused, receiverVars, LinkInv, TypeOK
<1>2. \A r \in Senders : sending'[r] = NoMessage
  BY <1>1
<1>3. ASSUME NEW v, Done(v) PROVE Done(v)'
  BY <1>1, <1>2, <1>3 DEF Done
<1>4. \A i \in 1 .. Len(delivered') : \A v \in Origin(delivered'[i]) : Done(v)'
  BY <1>1, <1>3 DEF OrderInv
<1>5. DeliveredInOrder'
  BY <1>1, OrderKept DEF OrderInv
<1>6. /\ \A m \in sent' : m.n <= sends'[m.from]
      /\ \A i, j \in 1 .. Len(bus') : i < j => Before(bus'[i], bus'[j].msg)
  BY <1>1 DEF OrderInv
<1> QED
  BY <1>2, <1>4, <1>5, <1>6 DEF OrderInv, Before, Ends, Origin

LEMMA OrderStutter == OrderInv /\ UNCHANGED vars => OrderInv'
<1> SUFFICES ASSUME OrderInv, UNCHANGED vars PROVE OrderInv'
  OBVIOUS
<1>1. UNCHANGED <<sends, sent, bus, delivered, sending>>
  BY DEF vars
<1>2. ASSUME NEW v, Done(v) PROVE Done(v)'
  BY <1>1, <1>2 DEF Done
<1>3. DeliveredInOrder'
  BY <1>1, OrderKept DEF OrderInv
<1>4. \A i \in 1 .. Len(delivered') : \A v \in Origin(delivered'[i]) : Done(v)'
  BY <1>1, <1>2 DEF OrderInv
<1>5. /\ \A m \in sent' : m.n <= sends'[m.from]
      /\ \A i, j \in 1 .. Len(bus') : i < j => Before(bus'[i], bus'[j].msg)
      /\ \A r \in Senders : sending'[r] # NoMessage =>
            \A i \in 1 .. Len(bus') : Before(bus'[i], sending'[r])
  BY <1>1 DEF OrderInv
<1> QED
  BY <1>3, <1>4, <1>5 DEF OrderInv, Before, Ends, Origin

\* While one node sends on the bus and its receiver is never a full turn of the
\* sequence number behind, payloads are delivered in the order of the send() calls,
\* each once: what deliver_payload_ has had of a message is the last of it.
THEOREM OneSenderDeliveredInOrder ==
    ASSUME NEW s, Senders = {s}
    PROVE  AudibleSpec => []DeliveredInOrder
<1> DEFINE Inv == OneSenderInv /\ OrderInv
<1>1. Init => Inv
  <2> SUFFICES ASSUME Init PROVE Inv
    OBVIOUS
  <2>1. OneSenderInv
    BY OneSenderInit
  <2>2. OrderInv
    BY DEF Init, OrderInv, DeliveredInOrder
  <2> QED
    BY <2>1, <2>2
<1>2. Inv /\ [Next /\ Audible']_vars => Inv'
  <2> SUFFICES ASSUME OneSenderInv, OrderInv, [Next /\ Audible']_vars
               PROVE  OneSenderInv' /\ OrderInv'
    OBVIOUS
  <2>1. OneSenderInv'
    BY OneSenderInductive
  <2>2. LinkInv /\ ReassemblyInv /\ Audible
    BY DEF OneSenderInv
  <2>3. CASE UNCHANGED vars
    BY <2>1, <2>3, OrderStutter
  <2>4. ASSUME NEW r \in Senders, NEW len \in Lengths, SendWhole(r, len) PROVE OrderInv'
    BY <2>2, <2>4, OrderSendWhole
  <2>5. ASSUME NEW r \in Senders, NEW len \in Lengths, SendFragmented(r, len) PROVE OrderInv'
    BY <2>2, <2>5, OrderSendFragmented
  <2>6. ASSUME NEW r \in Senders, SendFragment(r) PROVE OrderInv'
    BY <2>2, <2>6, OrderSendFragment
  <2>7. ASSUME NEW r \in Senders, SendRefused(r) PROVE OrderInv'
    BY <2>2, <2>7, OrderSendRefused
  <2>8. CASE Lose \/ ReceiveWhole \/ ReceiveFragment
    <3>1. TakesHead
      BY <2>2, <2>8, HeadTaken
    <3> QED
      BY <2>1, <2>2, <3>1, OrderTaken
  <2> QED
    BY <2>1, <2>3, <2>4, <2>5, <2>6, <2>7, <2>8 DEF Next
<1>3. Inv => DeliveredInOrder
  BY DEF OrderInv
<1> QED
  BY <1>1, <1>2, <1>3, PTL DEF AudibleSpec
================================================================================
