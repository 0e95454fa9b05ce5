------------------------------ MODULE NodesProofs ------------------------------
(***************************************************************************)
(* The master and slave nodes, for any number of slaves, slots and sequence *)
(* numbers, any timeout and interval and clocks of any width: packets read  *)
(* back, pending requests are found, responses match requests and           *)
(* heartbeats keep their distance.                                          *)
(* At the end CommLayer, the other layer that sends requests over a link,   *)
(* for any number of devices: answers match, and nothing is heard twice.    *)
(***************************************************************************)
EXTENDS Nodes, CommLayer, SequenceTheorems, FiniteSetTheorems, WellFoundedInduction, TLAPS

(* Bytes *)

Word16 == {n \in Nat : n < 65536}

\* The two bytes of a 16-bit word are the word.
LEMMA WordParts ==
    ASSUME NEW n \in Word16
    PROVE  Word(High(n), Low(n)) = n /\ High(n) \in Nat /\ Low(n) \in Nat
<1> DEFINE q == n \div 256
           r == n % 256
<1>1. q \in Nat /\ q < 256 /\ r \in Nat /\ 256 * q + r = n
  BY DEF Word16
<1>2. High(n) = q % 256 /\ Low(n) = r
  BY DEF High, Low
<1> HIDE DEF q, r
<1>3. q % 256 = q
  BY <1>1
<1> QED
  BY <1>1, <1>2, <1>3 DEF Word

LEMMA SeqWidens ==
    ASSUME NEW A, NEW B, A \subseteq B, NEW s \in Seq(A)
    PROVE  s \in Seq(B)
OBVIOUS

LEMMA PrefixFacts ==
    ASSUME NEW S, NEW s \in Seq(S), NEW n \in Nat
    PROVE  /\ Prefix(s, n) \in Seq(S)
           /\ Len(Prefix(s, n)) = AtMost(n, Len(s))
           /\ \A i \in 1 .. AtMost(n, Len(s)) : Prefix(s, n)[i] = s[i]
<1>1. AtMost(n, Len(s)) \in Nat /\ AtMost(n, Len(s)) <= Len(s)
  BY DEF AtMost
<1> DEFINE m == AtMost(n, Len(s))
<1> HIDE DEF m
<1>2. /\ SubSeq(s, 1, m) \in Seq(S)
      /\ Len(SubSeq(s, 1, m)) = m
      /\ \A i \in 1 .. m : SubSeq(s, 1, m)[i] = s[i]
  <2>1. m \in Nat /\ m <= Len(s) /\ Len(s) \in Nat
    BY <1>1 DEF m
  <2>2. \A i \in 1 .. m : s[i] \in S
    BY <2>1, ElementOfSeq
  <2> QED
    BY <2>1, <2>2
<1> QED
  BY <1>2 DEF Prefix, m

\* A prefix as long as the sequence is the sequence.
LEMMA PrefixWhole ==
    ASSUME NEW S, NEW s \in Seq(S), NEW n \in Nat, n >= Len(s)
    PROVE  Prefix(s, n) = s
<1>1. AtMost(n, Len(s)) = Len(s) /\ Len(s) \in Nat
  BY DEF AtMost
<1>2. /\ Prefix(s, n) \in Seq(S) /\ Len(Prefix(s, n)) = Len(s)
      /\ \A i \in 1 .. Len(s) : Prefix(s, n)[i] = s[i]
  BY <1>1, PrefixFacts
<1> QED
  BY <1>2, SeqEqual

\* What is put together of two sequences is taken apart again.
LEMMA TakenApart ==
    ASSUME NEW S, NEW a \in Seq(S), NEW b \in Seq(S)
    PROVE  Prefix(a \o b, Len(a)) = a /\ From(a \o b, Len(a) + 1) = b
<1> DEFINE s == a \o b
           m == Len(a)
           n == Len(b)
<1>1. /\ s \in Seq(S) /\ Len(s) = m + n /\ m \in Nat /\ n \in Nat
      /\ \A i \in 1 .. m + n : s[i] = IF i <= m THEN a[i] ELSE b[i - m]
  BY ConcatProperties
<1> HIDE DEF s, m, n
<1>2. Prefix(s, m) = a
  <2>1. AtMost(m, m + n) = m
    BY <1>1 DEF AtMost
  <2>2. /\ Prefix(s, m) \in Seq(S) /\ Len(Prefix(s, m)) = m
        /\ \A i \in 1 .. m : Prefix(s, m)[i] = s[i]
    <3>1. s \in Seq(S) /\ m \in Nat /\ AtMost(m, Len(s)) = m
      BY <1>1, <2>1
    <3> QED
      BY <3>1, PrefixFacts
  <2>3. \A i \in 1 .. m : i \in 1 .. m + n /\ i <= m
    BY <1>1
  <2>4. \A i \in 1 .. m : Prefix(s, m)[i] = a[i]
    BY <1>1, <2>2, <2>3
  <2> QED
    BY <2>2, <2>4, SeqEqual DEF m
<1>3. From(s, m + 1) = b
  <2> DEFINE r == SubSeq(s, m + 1, m + n)
  <2>2. r \in Seq(S) /\ Len(r) = n
    BY <1>1, SubSeqProperties
  <2>3. ASSUME NEW i \in 1 .. n
        PROVE  r[i] = b[i]
    <3> DEFINE j == i + m
    <3>1. j \in 1 .. m + n /\ ~(j <= m) /\ j - m = i
      BY <1>1
    <3>2. r[i] = s[j]
      <4>1. m + 1 + i - 1 = i + m
        BY <1>1
      <4> QED
        BY <1>1, <4>1, SubSeqProperties
    <3> HIDE DEF j
    <3>3. s[j] = b[i]
      BY <1>1, <3>1
    <3> QED
      BY <3>2, <3>3
  <2> HIDE DEF r
  <2>4. r = b
    BY <2>2, <2>3, SeqEqual DEF n
  <2> QED
    BY <1>1, <2>4 DEF From, r
<1> QED
  BY <1>2, <1>3 DEF s, m

\* What a packet with data starts with: an identifier, and in a command response
\* the status.
Lead == {s \in Seq(Nat) : Len(s) = 1 \/ Len(s) = 2}

LEMMA LeadFacts ==
    ASSUME NEW lead \in Lead
    PROVE  lead \in Seq(Nat) /\ (Len(lead) = 1 \/ Len(lead) = 2)
BY DEF Lead

\* The payload of a packet with data: its lead, and as much of the data as fits.
DataPacket(type, address, seq_id, lead, data) ==
    CreateWithData(type, address, seq_id, lead, data, Len(data))
Fits(lead, data) == Prefix(data, MaxSize - Len(lead))
Carries(pkt, type, address, seq_id, lead, data) ==
    /\ pkt.payload = lead \o Fits(lead, data)
    /\ pkt.header = Header(address, type, Len(pkt.payload), seq_id)
    /\ Fits(lead, data) \in Seq(Nat)
    /\ pkt.payload \in Seq(Nat)
    /\ Len(pkt.payload) = Len(lead) + Len(Fits(lead, data))
    /\ Len(Fits(lead, data)) = AtMost(Len(data), MaxSize - Len(lead))
    /\ Len(pkt.payload) >= Len(lead) /\ Len(pkt.payload) <= MaxSize

LEMMA WithData ==
    ASSUME NEW lead \in Lead, NEW data \in Seq(Nat), NEW type, NEW address, NEW seq_id
    PROVE  Carries(DataPacket(type, address, seq_id, lead, data),
                   type, address, seq_id, lead, data)
<1> USE DEF DataPacket
<1> DEFINE m == Len(lead)
           n == Len(data)
           pkt == DataPacket(type, address, seq_id, lead, data)
           fits == Fits(lead, data)
<1>0. lead \in Seq(Nat) /\ m \in Nat /\ (m = 1 \/ m = 2)
  BY LeadFacts
<1> USE DEF Fits
<1>1. /\ m \in Nat /\ n \in Nat /\ (m = 1 \/ m = 2)
      /\ MaxSize \in Nat /\ MaxSize - m \in Nat /\ MaxSize >= m
  <2>1. n \in Nat
    OBVIOUS
  <2> HIDE DEF m, n
  <2> QED
    BY <1>0, <2>1, PacketAssumption DEF KMaxPayloadSize
<1>2. fits \in Seq(Nat) /\ Len(fits) = AtMost(MaxSize - m, n)
  BY <1>1, PrefixFacts
<1>3. /\ AtMost(MaxSize - m, n) = AtMost(n, MaxSize - m)
      /\ AtMost(n, MaxSize - m) \in 0 .. MaxSize - m
      /\ m + AtMost(n, MaxSize - m) = AtMost(m + n, MaxSize)
      /\ AtMost(AtMost(n, MaxSize - m), n) = AtMost(MaxSize - m, n)
  <2> HIDE DEF m, n
  <2> QED
    BY <1>1 DEF AtMost
<1>4. lead \o fits \in Seq(Nat) /\ Len(lead \o fits) = m + Len(fits)
  BY <1>0, <1>2, ConcatProperties
<1>5. pkt.payload = lead \o fits
  <2>1. CASE data # NoBytes /\ n > 0
    <3>1. Prefix(data, AtMost(n, MaxSize - m)) = fits
      BY <1>3 DEF Prefix
    <3> QED
      BY <2>1, <3>1 DEF CreateWithData
  <2>2. CASE ~(data # NoBytes /\ n > 0)
    <3>1. data = <<>> /\ n = 0
      BY <1>1, <2>2, EmptySeq DEF NoBytes
    <3>2. AtMost(MaxSize - m, n) = 0
      BY <1>1, <3>1 DEF AtMost
    <3>3. fits = <<>>
      BY <1>2, <3>2, EmptySeq
    <3>4. lead \o fits = lead
      BY <1>0, <3>3, ConcatEmptySeq
    <3>5. pkt.payload = lead
      BY <2>2 DEF CreateWithData
    <3> QED
      BY <3>4, <3>5
  <2> QED
    BY <2>1, <2>2
<1>6. Len(pkt.payload) = AtMost(m + n, MaxSize)
  BY <1>2, <1>3, <1>4, <1>5
<1>7. pkt.header = Header(address, type, Len(pkt.payload), seq_id)
  BY <1>6 DEF CreateWithData
<1>8. m + Len(fits) >= m /\ m + Len(fits) <= MaxSize
  <2> HIDE DEF m, n, fits
  <2> QED
    BY <1>1, <1>2, <1>3
<1> HIDE DEF pkt, Fits
<1> QED
  BY <1>2, <1>3, <1>4, <1>5, <1>7, <1>8, Zenon DEF Carries, pkt

\* The packets a node can put on the line: they announce what they carry.
HeaderSet == [address : Nat, type : Nat, payload_len : Word16, seq_id : Nat]
Packet ==
    {p \in [header : HeaderSet, payload : Seq(Nat)] : p.header.payload_len = Len(p.payload)}

LEMMA PacketFacts ==
    ASSUME NEW pkt \in Packet
    PROVE  /\ pkt = [header |-> pkt.header, payload |-> pkt.payload]
           /\ pkt.header \in HeaderSet
           /\ pkt.payload \in Seq(Nat)
           /\ pkt.header.payload_len = Len(pkt.payload)
<1>1. pkt \in [header : HeaderSet, payload : Seq(Nat)]
  BY DEF Packet
<1>2. pkt.header.payload_len = Len(pkt.payload)
  BY DEF Packet
<1> QED
  BY <1>1, <1>2

LEMMA HeaderFacts ==
    ASSUME NEW h \in HeaderSet
    PROVE  /\ h = Header(h.address, h.type, h.payload_len, h.seq_id)
           /\ h.address \in Nat /\ h.type \in Nat /\ h.seq_id \in Nat
           /\ h.payload_len \in Word16
<1>1. h = [address |-> h.address, type |-> h.type, payload_len |-> h.payload_len,
           seq_id |-> h.seq_id]
  BY DEF HeaderSet
<1>2. h.address \in Nat /\ h.type \in Nat /\ h.seq_id \in Nat
  BY DEF HeaderSet
<1>3. h.payload_len \in Word16
  BY DEF HeaderSet
<1> QED
  BY <1>1, <1>2, <1>3 DEF Header

\* What the six bytes of a header are read as, whatever follows them.
LEMMA HeaderRead ==
    ASSUME NEW h \in HeaderSet, NEW p \in Seq(Nat), NEW size \in Nat, size >= KHeaderSize
    PROVE  LET bytes == SerializeHeader(h, size) \o p
           IN /\ DeserializeHeader(bytes) = [valid |-> TRUE, header |-> h]
              /\ From(bytes, KHeaderSize + 2) = p
<1> DEFINE n == h.payload_len
           lead == <<Sop, h.address, h.type, High(n), Low(n), h.seq_id>>
           bytes == lead \o p
<1>0. SerializeHeader(h, size) = lead
  BY DEF SerializeHeader, KHeaderSize
<1>1. /\ h = Header(h.address, h.type, n, h.seq_id)
      /\ h.address \in Nat /\ h.type \in Nat /\ h.seq_id \in Nat /\ n \in Word16
  BY HeaderFacts
<1>2. Word(High(n), Low(n)) = n /\ High(n) \in Nat /\ Low(n) \in Nat
  BY <1>1, WordParts
<1>3. /\ lead \in Seq(Nat) /\ Len(lead) = 6
      /\ lead[1] = Sop /\ lead[2] = h.address /\ lead[3] = h.type
      /\ lead[4] = High(n) /\ lead[5] = Low(n) /\ lead[6] = h.seq_id
  BY <1>1, <1>2 DEF Sop
<1> HIDE DEF lead
<1>4. /\ bytes \in Seq(Nat) /\ Len(bytes) = 6 + Len(p)
      /\ \A i \in 1 .. 6 + Len(p) : bytes[i] = IF i <= 6 THEN lead[i] ELSE p[i - 6]
  <2>1. /\ bytes \in Seq(Nat) /\ Len(bytes) = Len(lead) + Len(p)
        /\ \A i \in 1 .. Len(lead) + Len(p) :
              bytes[i] = IF i <= Len(lead) THEN lead[i] ELSE p[i - Len(lead)]
    BY <1>3, ConcatProperties
  <2> HIDE DEF bytes
  <2> QED
    BY <1>3, <2>1
<1>7. From(bytes, 7) = p
  <2>1. From(bytes, Len(lead) + 1) = p
    BY <1>3, TakenApart
  <2> QED
    BY <1>3, <2>1
<1> HIDE DEF bytes, n
<1>n. Len(p) \in Nat
  OBVIOUS
<1>5. \A i \in 1 .. 6 : bytes[i] = lead[i]
  <2>1. \A i \in 1 .. 6 : i \in 1 .. 6 + Len(p) /\ i <= 6
    BY <1>n
  <2> QED
    BY <1>4, <2>1
<1>6. /\ bytes[1] = Sop /\ bytes[2] = h.address /\ bytes[3] = h.type
      /\ bytes[4] = High(n) /\ bytes[5] = Low(n) /\ bytes[6] = h.seq_id
  BY <1>3, <1>5
<1>8. Len(bytes) >= 6 /\ Head(bytes) = Sop
  <2>1. Len(bytes) >= 6 /\ bytes # <<>>
    BY <1>n, <1>4
  <2> QED
    BY <1>4, <1>6, <2>1
<1>9. DeserializeHeader(bytes) = [valid |-> TRUE, header |-> Header(h.address, h.type, n, h.seq_id)]
  <2>1. ~(Len(bytes) < KHeaderSize + 1 \/ Head(bytes) # Sop)
    BY <1>n, <1>4, <1>8 DEF KHeaderSize
  <2>2. DeserializeHeader(bytes) =
           [valid |-> TRUE,
            header |-> Header(bytes[2], bytes[3], Word(bytes[4], bytes[5]), bytes[6])]
    BY <2>1 DEF DeserializeHeader
  <2> QED
    BY <1>2, <1>6, <2>2
<1>10. DeserializeHeader(bytes) = [valid |-> TRUE, header |-> h]
  BY <1>1, <1>9
<1> QED
  BY <1>0, <1>7, <1>10 DEF bytes, KHeaderSize

\* The receiver reads the packet that was sent.
LEMMA FrameRead ==
    ASSUME NEW from, NEW pkt \in Packet
    PROVE  ReadFrame(Frame(from, pkt)) = pkt /\ Frame(from, pkt).from = from
<1>1. /\ pkt = [header |-> pkt.header, payload |-> pkt.payload]
      /\ pkt.header \in HeaderSet
      /\ pkt.payload \in Seq(Nat)
      /\ pkt.header.payload_len = Len(pkt.payload)
  BY PacketFacts
<1> DEFINE f == Frame(from, pkt)
           h == pkt.header
           p == pkt.payload
<1>2. f.from = from /\ f.bytes = SerializeHeader(h, KHeaderSize + KMaxPayloadSize) \o p
  BY DEF Frame
<1>3. /\ DeserializeHeader(f.bytes) = [valid |-> TRUE, header |-> h]
      /\ From(f.bytes, KHeaderSize + 2) = p
  <2>1. KHeaderSize + KMaxPayloadSize \in Nat /\ KHeaderSize + KMaxPayloadSize >= KHeaderSize
    BY DEF KHeaderSize, KMaxPayloadSize
  <2> HIDE DEF f, h, p
  <2>2. h \in HeaderSet /\ p \in Seq(Nat)
    BY <1>1 DEF h, p
  <2> QED
    BY <1>2, <2>1, <2>2, HeaderRead
<1>4. Prefix(p, h.payload_len) = p
  <2>1. p \in Seq(Nat) /\ h.payload_len = Len(p) /\ Len(p) \in Nat
    BY <1>1
  <2> HIDE DEF h, p
  <2> QED
    BY <2>1, PrefixWhole
<1> HIDE DEF f
<1>5. ReadFrame(f) = [header |-> h, payload |-> p]
  BY <1>3, <1>4 DEF ReadFrame
<1> QED
  BY <1>1, <1>2, <1>5 DEF f
--------------------------------------------------------------------------------
(* The values at the edges *)

LEMMA BytesAndWords == Bytes \subseteq Nat /\ Words \subseteq Word16
BY DEF Bytes, Words, Word16

LEMMA DataFacts ==
    ASSUME NEW d \in Data
    PROVE  d \in Seq(Nat) /\ Len(d) \in 0 .. MaxSize
<1>1. PICK n \in 0 .. MaxSize : d = [k \in 1 .. n |-> k]
  BY DEF Data
<1>2. n \in Nat
  BY PacketAssumption
<1>3. d \in [1 .. n -> Nat]
  BY <1>1, <1>2
<1>4. d \in Seq(Nat) /\ Len(d) = n
  BY <1>2, <1>3
<1> QED
  BY <1>1, <1>4

\* Data is read back behind its lead, and the serializers, which are written
\* independently of the code that makes packets, write the same bytes.
ReadsBack(pkt, lead, data) ==
    /\ pkt.header.payload_len = Len(pkt.payload)
    /\ DeserializeData(pkt.payload, Len(lead), Len(data))
          = [valid |-> TRUE, lead |-> lead, data |-> Fits(lead, data)]
    /\ Len(data) + Len(lead) <= MaxSize =>
          SerializeData(lead, data, Len(data) + Len(lead)) = pkt.payload

LEMMA DataReadBack ==
    ASSUME NEW lead \in Lead, NEW data \in Seq(Nat), NEW type, NEW address, NEW seq_id
    PROVE  ReadsBack(DataPacket(type, address, seq_id, lead, data), lead, data)
<1> DEFINE m == Len(lead)
           n == Len(data)
           pkt == DataPacket(type, address, seq_id, lead, data)
           fits == Fits(lead, data)
           p == pkt.payload
<1>0. lead \in Seq(Nat) /\ m \in Nat /\ (m = 1 \/ m = 2)
  BY LeadFacts
<1> HIDE DEF fits, pkt
<1>1. /\ p = lead \o fits
      /\ pkt.header = Header(address, type, Len(p), seq_id)
      /\ fits \in Seq(Nat)
      /\ Len(p) = m + Len(fits)
      /\ Len(fits) = AtMost(n, MaxSize - m)
  <2>1. Carries(pkt, type, address, seq_id, lead, data)
    BY WithData DEF pkt
  <2> QED
    BY <2>1, Zenon DEF Carries, fits
<1>3. pkt.header.payload_len = Len(p)
  <2> HIDE DEF p
  <2> QED
    BY <1>1 DEF Header
<1> HIDE DEF p
<1>2. Prefix(p, m) = lead /\ From(p, m + 1) = fits
  BY <1>0, <1>1, TakenApart
<1>n. n \in Nat /\ MaxSize \in Nat /\ MaxSize >= 2
  <2>1. n \in Nat
    OBVIOUS
  <2> HIDE DEF m, n
  <2> QED
    BY <2>1, PacketAssumption DEF KMaxPayloadSize
<1>4. ~(Len(p) < m \/ Len(p) - m > n)
  <2> HIDE DEF m, n
  <2> QED
    BY <1>0, <1>1, <1>n DEF AtMost
<1>5. DeserializeData(p, m, n) = [valid |-> TRUE, lead |-> lead, data |-> fits]
  BY <1>2, <1>4 DEF DeserializeData
<1>6. ASSUME n + m <= MaxSize
      PROVE  SerializeData(lead, data, n + m) = p
  <2>1. MaxSize - m \in Nat /\ MaxSize - m >= n /\ ~(n + m < m + n)
    <3> HIDE DEF m, n
    <3> QED
      BY <1>0, <1>n, <1>6
  <2>2. fits = data
    BY <2>1, PrefixWhole DEF fits, Fits
  <2>4. SerializeData(lead, data, n + m) = lead \o data
    BY <2>1 DEF SerializeData
  <2> QED
    BY <1>1, <2>2, <2>4
<1> QED
  BY <1>3, <1>5, <1>6, Zenon DEF pkt, p, fits, ReadsBack

LEMMA ValuesAreReadBack == ValuesReadBack
<1>1. ASSUME NEW a \in Bytes, NEW t \in Bytes, NEW q \in Bytes, NEW n \in Words
      PROVE  DeserializeHeader(SerializeHeader(Header(a, t, n, q), KHeaderSize))
               = [valid |-> TRUE, header |-> Header(a, t, n, q)]
  <2> DEFINE h == Header(a, t, n, q)
             bytes == SerializeHeader(h, KHeaderSize)
  <2>1. h \in HeaderSet
    BY BytesAndWords DEF Header, HeaderSet
  <2>2. bytes \in Seq(Nat)
    <3>1. bytes = <<Sop, a, t, High(n), Low(n), q>>
      BY DEF Header, SerializeHeader, KHeaderSize
    <3>2. High(n) \in Nat /\ Low(n) \in Nat
      BY BytesAndWords, WordParts
    <3> QED
      BY <3>1, <3>2, BytesAndWords DEF Sop
  <2> HIDE DEF h
  <2>3. DeserializeHeader(bytes \o <<>>) = [valid |-> TRUE, header |-> h]
    <3>1. KHeaderSize \in Nat /\ KHeaderSize >= KHeaderSize /\ <<>> \in Seq(Nat)
      BY DEF KHeaderSize
    <3> QED
      BY <2>1, <3>1, HeaderRead
  <2>4. bytes \o <<>> = bytes
    <3> HIDE DEF bytes
    <3> QED
      BY <2>2, ConcatEmptySeq
  <2> QED
    BY <2>3, <2>4 DEF h
<1>2. ASSUME NEW b \in Bytes, NEW q \in Bytes, NEW w \in Words
      PROVE  /\ DeserializeHeartbeat(CreateHeartbeat(0, q, b, w).payload)
                   = [valid |-> TRUE, status |-> b, uptime_ms |-> w]
             /\ DeserializeAck(CreateAck(b, q).payload) = [valid |-> TRUE, seq_id |-> q]
             /\ DeserializeError(CreateError(0, q, b).payload)
                   = [valid |-> TRUE, error_code |-> b, additional_info |-> 0]
             /\ DeserializeStateRequest(CreateStateRequest(0, q, b).payload)
                   = [valid |-> TRUE, state_id |-> b]
  <2>1. CreateHeartbeat(0, q, b, w).payload = <<b, High(w), Low(w)>>
    BY DEF CreateHeartbeat, MakePacket, SerializeHeartbeat, KMaxPayloadSize
  <2>2. Word(High(w), Low(w)) = w
    BY BytesAndWords, WordParts
  <2>3. DeserializeHeartbeat(<<b, High(w), Low(w)>>) = [valid |-> TRUE, status |-> b, uptime_ms |-> w]
    BY <2>2 DEF DeserializeHeartbeat
  <2>4. CreateAck(b, q).payload = <<q>>
    BY DEF CreateAck, MakePacket, SerializeAck, KMaxPayloadSize
  <2>5. CreateError(0, q, b).payload = <<b, 0>>
    BY DEF CreateError, MakePacket, SerializeError, KMaxPayloadSize
  <2>6. CreateStateRequest(0, q, b).payload = <<b>>
    BY DEF CreateStateRequest, MakePacket, SerializeStateRequest, KMaxPayloadSize
  <2>7. DeserializeAck(<<q>>) = [valid |-> TRUE, seq_id |-> q]
    BY DEF DeserializeAck
  <2>8. DeserializeError(<<b, 0>>) = [valid |-> TRUE, error_code |-> b, additional_info |-> 0]
    BY DEF DeserializeError
  <2>9. DeserializeStateRequest(<<b>>) = [valid |-> TRUE, state_id |-> b]
    BY DEF DeserializeStateRequest
  <2> QED
    BY <2>1, <2>3, <2>4, <2>5, <2>6, <2>7, <2>8, <2>9, Zenon
<1>3. ASSUME NEW b \in Bytes, NEW e \in Bytes, NEW d \in Data
      PROVE  LET n == Len(d)
                 state == CreateStateResponse(0, 0, b, d, n)
                 command == CreateCommand(0, 0, b, d, n)
                 response == CreateCommandResponse(0, 0, b, e, d, n)
                 Read(lead) == [valid |-> TRUE, lead |-> lead,
                                data |-> Prefix(d, MaxSize - Len(lead))]
             IN /\ \A pkt \in {state, command, response} :
                      pkt.header.payload_len = Len(pkt.payload)
                /\ DeserializeStateResponse(state.payload, n) = Read(<<b>>)
                /\ DeserializeCommand(command.payload, n) = Read(<<b>>)
                /\ DeserializeCommandResponse(response.payload, n) = Read(<<b, e>>)
                /\ n + 1 <= MaxSize =>
                      /\ SerializeStateResponse(b, d, n + 1) = state.payload
                      /\ SerializeCommand(b, d, n + 1) = command.payload
                /\ n + 2 <= MaxSize =>
                      SerializeCommandResponse(b, e, d, n + 2) = response.payload
  <2> DEFINE n == Len(d)
             state == CreateStateResponse(0, 0, b, d, n)
             command == CreateCommand(0, 0, b, d, n)
             response == CreateCommandResponse(0, 0, b, e, d, n)
             one == <<b>>
             two == <<b, e>>
  <2>1. d \in Seq(Nat) /\ one \in Lead /\ two \in Lead
    BY DataFacts, BytesAndWords DEF Lead
  <2>2. Len(one) = 1 /\ Len(two) = 2
    OBVIOUS
  <2>3. /\ state = DataPacket(StateResponseType, 0, 0, one, d)
        /\ command = DataPacket(ExecuteType, 0, 0, one, d)
        /\ response = DataPacket(CommandResponseType, 0, 0, two, d)
    BY DEF CreateStateResponse, CreateCommand, CreateCommandResponse, DataPacket
  <2> HIDE DEF state, command, response, one, two
  <2>4. ReadsBack(state, one, d) /\ ReadsBack(command, one, d) /\ ReadsBack(response, two, d)
    BY <2>1, <2>3, DataReadBack
  <2>5. /\ \A pkt \in {state, command, response} : pkt.header.payload_len = Len(pkt.payload)
        /\ DeserializeData(state.payload, 1, n) = [valid |-> TRUE, lead |-> one, data |-> Fits(one, d)]
        /\ DeserializeData(command.payload, 1, n) = [valid |-> TRUE, lead |-> one, data |-> Fits(one, d)]
        /\ DeserializeData(response.payload, 2, n) = [valid |-> TRUE, lead |-> two, data |-> Fits(two, d)]
        /\ n + 1 <= MaxSize => /\ SerializeData(one, d, n + 1) = state.payload
                               /\ SerializeData(one, d, n + 1) = command.payload
        /\ n + 2 <= MaxSize => SerializeData(two, d, n + 2) = response.payload
    BY <2>2, <2>4, Zenon DEF ReadsBack
  <2> QED
    BY <2>5, Zenon DEF DeserializeStateResponse, DeserializeCommand,
       DeserializeCommandResponse, SerializeStateResponse, SerializeCommand,
       SerializeCommandResponse, Fits, state, command, response, one, two
<1> QED
  BY <1>1, <1>2, <1>3 DEF ValuesReadBack
--------------------------------------------------------------------------------
(* The packets on the line *)

\* What the packets of the master are, and those of a slave.
FromMaster(pkt) ==
    pkt.header.type \in {StateRequestType, ExecuteType, AbortType, HeartbeatType}

FromSlave(pkt) ==
    \/ /\ pkt.header.type = StateResponseType
       /\ Len(pkt.payload) >= 1 /\ Len(pkt.payload) <= MaxSize
    \/ /\ pkt.header.type = CommandResponseType
       /\ Len(pkt.payload) >= 2 /\ Len(pkt.payload) <= MaxSize
    \/ pkt.header.type = HeartbeatType /\ Len(pkt.payload) = 3

Sound(f) ==
    \E pkt \in Packet :
        /\ f = Frame(f.from, pkt)
        /\ f.from = MasterAddress => FromMaster(pkt)
        /\ f.from # MasterAddress => FromSlave(pkt)

\* The number was last given to request r.
GivenTo(seq_id, r) == seq_id \in SeqId /\ asked[seq_id] = r

\* A request of the master is the one its number was last given to, and so is the
\* request that a response answers.
Told(from, header) ==
    /\ from = MasterAddress /\ header.type \in {StateRequestType, ExecuteType}
          => GivenTo(header.seq_id, RequestTo(header.address, header.type))
    /\ from # MasterAddress /\ header.address # MasterAddress
          => GivenTo(header.seq_id, AnsweredBy(header))

Current(f) == Told(f.from, ReadFrame(f).header)

\* So it is for the frames in flight, but for the late ones.
LateInv ==
    /\ late \subseteq line
    /\ \A f \in line \ late : Current(f)

LineInv ==
    /\ IsFiniteSet(line) /\ Cardinality(line) <= Room
    /\ \A f \in line : Sound(f)
    /\ LateInv

\* A line with room takes the frame, and none has more than its room.
LEMMA WithFacts ==
    ASSUME NEW S, IsFiniteSet(S), Cardinality(S) <= Room, NEW g
    PROVE  /\ IsFiniteSet(With(S, g)) /\ Cardinality(With(S, g)) <= Room
           /\ With(S, g) \subseteq S \union {g}
<1>1. Cardinality(S) \in Nat
  BY FS_CardinalityType
<1>2. /\ IsFiniteSet(S \union {g})
      /\ Cardinality(S \union {g}) = IF g \in S THEN Cardinality(S) ELSE Cardinality(S) + 1
  BY FS_AddElement
<1>3. Cardinality(S) < Room => Cardinality(S \union {g}) <= Room
  <2> DEFINE c == Cardinality(S)
             d == Cardinality(S \union {g})
  <2>1. c \in Nat /\ (d = c \/ d = c + 1)
    BY <1>1, <1>2
  <2> HIDE DEF c, d
  <2>2. c < Room => d <= Room
    BY <2>1, LineAssumption
  <2> QED
    BY <2>2 DEF c, d
<1> QED
  BY <1>2, <1>3 DEF With

LEMMA WithoutFacts ==
    ASSUME NEW S, IsFiniteSet(S), Cardinality(S) <= Room, NEW f
    PROVE  IsFiniteSet(S \ {f}) /\ Cardinality(S \ {f}) <= Room
<1>1. IsFiniteSet(S \ {f}) /\ Cardinality(S \ {f}) <= Cardinality(S)
  BY FS_Subset
<1>2. Cardinality(S) \in Nat /\ Cardinality(S \ {f}) \in Nat
  BY <1>1, FS_CardinalityType
<1> DEFINE c == Cardinality(S)
           d == Cardinality(S \ {f})
<1> HIDE DEF c, d
<1>3. d <= Room
  BY <1>1, <1>2, LineAssumption DEF c, d
<1> QED
  BY <1>1, <1>3 DEF d

\* What a step may do to the line: a frame is taken off, and one may be put on it.
LineStep(g) ==
    \/ UNCHANGED line
    \/ line' = With(line, g)
    \/ \E f \in line : line' = line \ {f} \/ line' = With(line \ {f}, g)

LEMMA LineKept ==
    ASSUME LineInv, LateInv', NEW g, Sound(g), LineStep(g)
    PROVE  LineInv'
<1>1. \A f \in line : Sound(f)
  BY DEF LineInv
<1>2. IsFiniteSet(line) /\ Cardinality(line) <= Room
  BY DEF LineInv
<1>3. /\ IsFiniteSet(line') /\ Cardinality(line') <= Room
      /\ line' \subseteq line \union {g}
  <2>1. CASE UNCHANGED line
    BY <1>2, <2>1
  <2>2. CASE line' = With(line, g)
    BY <1>2, <2>2, WithFacts
  <2>3. ASSUME NEW f \in line, line' = line \ {f} \/ line' = With(line \ {f}, g)
        PROVE  /\ IsFiniteSet(line') /\ Cardinality(line') <= Room
               /\ line' \subseteq line \union {g}
    <3>1. IsFiniteSet(line \ {f}) /\ Cardinality(line \ {f}) <= Room
      BY <1>2, WithoutFacts
    <3>2. /\ IsFiniteSet(With(line \ {f}, g)) /\ Cardinality(With(line \ {f}, g)) <= Room
          /\ With(line \ {f}, g) \subseteq (line \ {f}) \union {g}
      BY <3>1, WithFacts
    <3> QED
      BY <2>3, <3>1, <3>2
  <2> QED
    BY <2>1, <2>2, <2>3 DEF LineStep
<1> QED
  BY <1>1, <1>3 DEF LineInv

\* The same where nothing is put on the line.
LEMMA LineShrinks ==
    ASSUME LineInv, LateInv', UNCHANGED line \/ \E f \in line : line' = line \ {f}
    PROVE  LineInv'
<1>1. \A f \in line : Sound(f)
  BY DEF LineInv
<1>2. IsFiniteSet(line) /\ Cardinality(line) <= Room
  BY DEF LineInv
<1>3. IsFiniteSet(line') /\ Cardinality(line') <= Room /\ line' \subseteq line
  BY <1>2, WithoutFacts
<1> QED
  BY <1>1, <1>3 DEF LineInv

LEMMA CurrentKept ==
    ASSUME NEW f, asked' = asked, Current(f)
    PROVE  Current(f)'
BY DEF Current, Told, GivenTo

LEMMA WithSubset == ASSUME NEW S, NEW g PROVE S \subseteq With(S, g) /\ With(S, g) \subseteq S \union {g}
BY DEF With

\* A number is given to nothing: frames leave the line, a slave puts one of its own on
\* it, or one that answers a frame and is late if that frame is.
LEMMA LineQuiet ==
    ASSUME LineInv, asked' = asked, UNCHANGED lineVars \/ \E f \in line : Take(f)
    PROVE  LineInv'
<1>1. LateInv
  BY DEF LineInv
<1>2. \A f \in line \ late : Current(f)'
  BY <1>1, CurrentKept DEF LateInv
<1>3. CASE UNCHANGED lineVars
  <2>1. LateInv'
    BY <1>1, <1>2, <1>3 DEF LateInv, lineVars
  <2> QED
    BY <1>3, <2>1, LineShrinks DEF lineVars
<1>4. ASSUME NEW f \in line, Take(f)
      PROVE  LineInv'
  <2>1. line' = line \ {f} /\ late' = late \ {f}
    BY <1>4 DEF Take
  <2>2. LateInv'
    BY <1>1, <1>2, <2>1 DEF LateInv
  <2> QED
    BY <2>1, <2>2, LineShrinks
<1> QED
  BY <1>3, <1>4

LEMMA LinePut ==
    ASSUME LineInv, asked' = asked, NEW g, Sound(g), Current(g), Put(g), late' = late
    PROVE  LineInv'
<1>1. LateInv /\ line' = With(line, g)
  BY DEF LineInv, Put
<1>2. \A f \in (line \ late) \union {g} : Current(f)'
  BY <1>1, CurrentKept DEF LateInv
<1>3. line \subseteq line' /\ line' \subseteq line \union {g}
  BY <1>1, WithSubset
<1>4. LateInv'
  BY <1>1, <1>2, <1>3 DEF LateInv
<1> QED
  BY <1>1, <1>4, LineKept DEF LineStep

LEMMA LineAnswered ==
    ASSUME LineInv, asked' = asked, NEW f \in line, NEW g, Sound(g),
           f \notin late => Current(g), TakeAndPut(f, g)
    PROVE  LineInv'
<1>1. /\ LateInv
      /\ line' = With(line \ {f}, g)
      /\ late' = {h \in line' : h \in late \/ (h = g /\ f \in late)}
  BY DEF LineInv, TakeAndPut
<1>2. \A h \in line \ late : Current(h)'
  BY <1>1, CurrentKept DEF LateInv
<1>3. f \notin late => Current(g)'
  BY CurrentKept
<1>4. line' \subseteq line \union {g}
  BY <1>1, WithSubset
<1>5. LateInv'
  BY <1>1, <1>2, <1>3, <1>4 DEF LateInv
<1> QED
  BY <1>1, <1>5, LineKept DEF LineStep

\* A number is given to request r, and a frame that bears it may be put on the line.
LEMMA LineAllocated ==
    ASSUME LineInv, NEW n \in SeqId, next_seq_id_ = n, DOMAIN asked = SeqId,
           NEW r, AllocateSeqId(r), NEW g, Sound(g),
           \/ UNCHANGED line
           \/ Put(g) /\ Current(g)'
    PROVE  LineInv'
<1>1. /\ LateInv
      /\ asked' = [asked EXCEPT ![n] = r]
      /\ late' = late \union {f \in line : ReadFrame(f).header.seq_id = n}
  BY DEF LineInv, AllocateSeqId
<1>2. \A k \in SeqId : k # n => asked'[k] = asked[k]
  BY <1>1
<1>3. ASSUME NEW f \in line, f \notin late'
      PROVE  Current(f)'
  <2>1. Current(f) /\ ReadFrame(f).header.seq_id # n
    BY <1>1, <1>3 DEF LateInv
  <2>2. PICK h : h = ReadFrame(f).header
    OBVIOUS
  <2>3. Told(f.from, h)'
    <3>1. Told(f.from, h) /\ h.seq_id # n
      BY <2>1, <2>2 DEF Current
    <3>2. \A x : GivenTo(h.seq_id, x) => GivenTo(h.seq_id, x)'
      BY <1>2, <3>1 DEF GivenTo
    <3> QED
      BY <3>1, <3>2, Zenon DEF Told
  <2> QED
    BY <2>2, <2>3, Zenon DEF Current
<1>4. /\ line \subseteq line' /\ line' \subseteq line \union {g}
      /\ Current(g)' \/ line' = line
  BY WithSubset DEF Put
<1>5. LateInv'
  BY <1>1, <1>3, <1>4 DEF LateInv
<1> QED
  BY <1>5, LineKept DEF LineStep, Put
--------------------------------------------------------------------------------
(* The packets the nodes make *)

LEMMA SoundFrame ==
    ASSUME NEW from, NEW pkt \in Packet,
           from = MasterAddress => FromMaster(pkt),
           from # MasterAddress => FromSlave(pkt)
    PROVE  Sound(Frame(from, pkt))
<1>1. Frame(from, pkt).from = from
  BY DEF Frame
<1> QED
  BY <1>1, Zenon DEF Sound

LEMMA PlainPacket ==
    ASSUME NEW type \in Nat, NEW address \in Nat, NEW seq_id \in Nat,
           NEW payload \in Seq(Nat), Len(payload) <= 3
    PROVE  /\ MakePacket(type, address, seq_id, payload) \in Packet
           /\ MakePacket(type, address, seq_id, payload).header
                = Header(address, type, Len(payload), seq_id)
           /\ MakePacket(type, address, seq_id, payload).payload = payload
<1>1. Len(payload) \in Word16
  BY DEF Word16
<1>2. Header(address, type, Len(payload), seq_id) \in HeaderSet
  BY <1>1 DEF Header, HeaderSet
<1> DEFINE h == Header(address, type, Len(payload), seq_id)
           pkt == MakePacket(type, address, seq_id, payload)
<1>3. h.payload_len = Len(payload)
  BY DEF Header
<1> HIDE DEF h
<1>4. pkt = [header |-> h, payload |-> payload]
  BY DEF MakePacket, h
<1>5. pkt \in [header : HeaderSet, payload : Seq(Nat)]
  BY <1>2, <1>4 DEF h
<1>6. pkt.header = h /\ pkt.payload = payload
  BY <1>4
<1> QED
  BY <1>3, <1>5, <1>6 DEF Packet, h

MadeWith(pkt, type, address, seq_id, lead) ==
    /\ pkt \in Packet
    /\ pkt.header.type = type /\ pkt.header.address = address /\ pkt.header.seq_id = seq_id
    /\ Len(pkt.payload) >= Len(lead) /\ Len(pkt.payload) <= MaxSize

LEMMA PacketWithData ==
    ASSUME NEW type \in Nat, NEW address \in Nat, NEW seq_id \in Nat,
           NEW lead \in Lead, NEW data \in Seq(Nat)
    PROVE  MadeWith(DataPacket(type, address, seq_id, lead, data), type, address, seq_id, lead)
<1> DEFINE pkt == DataPacket(type, address, seq_id, lead, data)
           n == Len(pkt.payload)
<1>1. pkt = [header |-> pkt.header, payload |-> pkt.payload]
  BY DEF DataPacket, CreateWithData
<1> HIDE DEF pkt
<1>2. Carries(pkt, type, address, seq_id, lead, data)
  BY WithData DEF pkt
<1>3. /\ pkt.header = Header(address, type, n, seq_id)
      /\ pkt.payload \in Seq(Nat)
      /\ n >= Len(lead) /\ n <= MaxSize
  BY <1>2, Zenon DEF Carries
<1>4. n \in Word16
  <2>1. n \in Nat
    BY <1>3
  <2> HIDE DEF n
  <2>2. MaxSize \in Nat /\ MaxSize <= 256
    BY PacketAssumption DEF KMaxPayloadSize
  <2>3. n <= MaxSize
    BY <1>3
  <2> QED
    BY <2>1, <2>2, <2>3 DEF Word16
<1>5. pkt.header \in HeaderSet
  BY <1>3, <1>4 DEF Header, HeaderSet
<1>6. /\ pkt.header.payload_len = n /\ pkt.header.type = type
      /\ pkt.header.address = address /\ pkt.header.seq_id = seq_id
  BY <1>3 DEF Header
<1>7. pkt \in Packet
  BY <1>1, <1>3, <1>5, <1>6 DEF Packet
<1> QED
  BY <1>3, <1>6, <1>7 DEF pkt, MadeWith

\* The answers of an application are sequences of bytes.
LEMMA DataIsSeq ==
    /\ NoBytes \in Seq(Nat)
    /\ \A data \in Answers : data \in Seq(Nat)
    /\ \A id \in Ids : id \in Nat
    /\ \A address \in Addresses : address \in Nat
<1>1. Byte \subseteq Nat
  BY DEF Byte
<1>2. \A data \in Seq(Byte) : data \in Seq(Nat)
  BY <1>1, SeqWidens
<1> QED
  BY <1>1, <1>2, NodesAssumption DEF NoBytes
--------------------------------------------------------------------------------
(* Pending requests *)

Pending ==
    [seq_id : 0 .. SeqIds, slave_address : {0} \union Addresses,
     request_type : {0, StateRequestType, ExecuteType}, timestamp_ms : {0}, is_active : BOOLEAN]

Asked == [address : {0} \union Addresses, type : {0, StateRequestType, ExecuteType}]

MasterTypes ==
    /\ pending_requests_ \in [Slot -> Pending]
    /\ next_seq_id_ \in SeqId
    /\ master_ready \in BOOLEAN
    /\ master_clock \in Clock
    /\ asked \in [SeqId -> Asked]

\* Of the slots that hold a number, the first is active if any is.
FirstIsActive ==
    \A i, k \in Slot :
        /\ pending_requests_[i].is_active
        /\ pending_requests_[k].seq_id = pending_requests_[i].seq_id
        /\ \A j \in Slot : pending_requests_[j].seq_id = pending_requests_[i].seq_id => k <= j
        => pending_requests_[k].is_active

\* An active slot that bears a number.
Bears(i, n) == pending_requests_[i].is_active /\ pending_requests_[i].seq_id = n
Noted(i) == RequestTo(pending_requests_[i].slave_address, pending_requests_[i].request_type)

\* The request a number was last given to is noted in a slot that is active as long
\* as any slot of the number is.
SlotsMatch ==
    \A n \in SeqId :
        asked[n] # NoRequest /\ (\E i \in Slot : Bears(i, n)) =>
            \E i \in Slot : Bears(i, n) /\ Noted(i) = asked[n]

SlotsInv == FirstIsActive /\ SlotsMatch

\* A set of numbers that is not empty has a least one.
LEMMA LeastNumber ==
    ASSUME NEW T, T \subseteq Nat, T # {}
    PROVE  \E x \in T : \A y \in T : x <= y
<1> DEFINE R == OpToRel(<, Nat)
<1>1. IsWellFoundedOn(R, Nat)
  BY NatLessThanWellFounded
<1>2. \A x, y \in Nat : <<x, y>> \in R <=> x < y
  BY DEF OpToRel
<1> HIDE DEF R
<1>3. PICK x \in T : \A y \in T : ~(<<y, x>> \in R)
  BY <1>1, WFMin
<1>4. ASSUME NEW y \in T
      PROVE  x <= y
  <2>1. x \in Nat /\ y \in Nat /\ ~(<<y, x>> \in R)
    BY <1>3
  <2>2. ~(y < x)
    BY <1>2, <2>1
  <2> QED
    BY <2>1, <2>2
<1> QED
  BY <1>4

LEMMA SlotIsNat == Slot \subseteq Nat /\ 0 \notin Slot
BY MasterAssumption DEF Slot

\* find_pending_request_ answers with the first slot that is free and holds the number.
LEMMA FindPendingFacts ==
    ASSUME NEW q, FindPending(q) # 0
    PROVE  /\ FindPending(q) \in Slot
           /\ ~pending_requests_[FindPending(q)].is_active
           /\ pending_requests_[FindPending(q)].seq_id = q
           /\ \A j \in Slot : ~pending_requests_[j].is_active /\ pending_requests_[j].seq_id = q
                                 => FindPending(q) <= j
<1> DEFINE found == {i \in Slot : /\ ~pending_requests_[i].is_active
                                  /\ pending_requests_[i].seq_id = q}
<1>1. /\ found # {}
      /\ FindPending(q) = CHOOSE i \in found : \A j \in found : i <= j
  BY DEF FindPending
<1>2. found \subseteq Nat
  BY SlotIsNat
<1> HIDE DEF found
<1>3. \E i \in found : \A j \in found : i <= j
  BY <1>1, <1>2, LeastNumber
<1>4. FindPending(q) \in found /\ \A j \in found : FindPending(q) <= j
  BY <1>1, <1>3
<1> QED
  BY <1>4 DEF found

LEMMA FirstFound == FirstIsActive => PendingIsFound
<1> SUFFICES ASSUME FirstIsActive, NEW i \in Slot, pending_requests_[i].is_active
             PROVE  pending_requests_[GetPending(pending_requests_[i].seq_id)].is_active
  BY DEF PendingIsFound
<1> DEFINE q == pending_requests_[i].seq_id
           found == {j \in Slot : pending_requests_[j].seq_id = q}
<1>1. found # {} /\ found \subseteq Nat
  BY SlotIsNat
<1>2. GetPending(q) = CHOOSE k \in found : \A j \in found : k <= j
  BY <1>1 DEF GetPending
<1> HIDE DEF found
<1>3. \E k \in found : \A j \in found : k <= j
  BY <1>1, LeastNumber
<1>4. GetPending(q) \in found /\ \A j \in found : GetPending(q) <= j
  BY <1>2, <1>3
<1> QED
  BY <1>4 DEF FirstIsActive, found

\* A request takes the first free slot of its number.
LEMMA RequestNoted ==
    ASSUME MasterTypes, FirstIsActive, NEW q \in SeqId, NEW address \in Addresses,
           NEW type \in {StateRequestType, ExecuteType}, FindPending(q) # 0,
           pending_requests_' = [pending_requests_ EXCEPT ![FindPending(q)] =
                                    PendingRequest(q, address, type, TRUE)]
    PROVE  pending_requests_' \in [Slot -> Pending] /\ FirstIsActive'
<1> DEFINE i == FindPending(q)
           new == PendingRequest(q, address, type, TRUE)
<1>1. /\ i \in Slot /\ ~pending_requests_[i].is_active /\ pending_requests_[i].seq_id = q
      /\ \A j \in Slot : ~pending_requests_[j].is_active /\ pending_requests_[j].seq_id = q
                            => i <= j
  BY FindPendingFacts
<1>2. new \in Pending /\ new.is_active /\ new.seq_id = q
  <2>1. q \in 0 .. SeqIds
    BY MasterAssumption DEF SeqId
  <2>2. address \in {0} \union Addresses /\ type \in {0, StateRequestType, ExecuteType}
    OBVIOUS
  <2> QED
    BY <2>1, <2>2 DEF PendingRequest, Pending
<1> HIDE DEF i, new
<1>3. pending_requests_' = [pending_requests_ EXCEPT ![i] = new]
  BY DEF i, new
<1>4. pending_requests_ \in [Slot -> Pending]
  BY DEF MasterTypes
<1>5. pending_requests_' \in [Slot -> Pending]
  BY <1>2, <1>3, <1>4
<1>6. \A k \in Slot :
          /\ pending_requests_'[k].seq_id = pending_requests_[k].seq_id
          /\ pending_requests_'[k].is_active <=> (k = i \/ pending_requests_[k].is_active)
  BY <1>1, <1>2, <1>3, <1>4
<1>7. ASSUME NEW a \in Slot, NEW k \in Slot,
             a = i \/ pending_requests_[a].is_active,
             pending_requests_[k].seq_id = pending_requests_[a].seq_id,
             \A j \in Slot : pending_requests_[j].seq_id = pending_requests_[a].seq_id => k <= j
      PROVE  k = i \/ pending_requests_[k].is_active
  <2>1. CASE pending_requests_[a].is_active
    BY <1>7, <2>1 DEF FirstIsActive
  <2>2. CASE a = i
    <3> SUFFICES ASSUME ~pending_requests_[k].is_active PROVE k = i
      OBVIOUS
    <3>1. i <= k /\ k <= i
      BY <1>1, <1>7, <2>2
    <3>2. i \in Nat /\ k \in Nat
      BY <1>1, SlotIsNat
    <3> QED
      BY <3>1, <3>2
  <2> QED
    BY <1>7, <2>1, <2>2
<1>8. FirstIsActive'
  <2> SUFFICES ASSUME NEW a \in Slot, NEW k \in Slot,
                      pending_requests_'[a].is_active,
                      pending_requests_'[k].seq_id = pending_requests_'[a].seq_id,
                      \A j \in Slot : pending_requests_'[j].seq_id = pending_requests_'[a].seq_id
                                          => k <= j
               PROVE  pending_requests_'[k].is_active
    BY DEF FirstIsActive
  <2>1. a = i \/ pending_requests_[a].is_active
    BY <1>6, Zenon
  <2>2. /\ pending_requests_[k].seq_id = pending_requests_[a].seq_id
        /\ \A j \in Slot : pending_requests_[j].seq_id = pending_requests_[a].seq_id => k <= j
    BY <1>6
  <2>3. k = i \/ pending_requests_[k].is_active
    BY <1>7, <2>1, <2>2
  <2> QED
    BY <1>6, <2>3, Zenon
<1> QED
  BY <1>5, <1>8

LEMMA RequestMatched ==
    ASSUME MasterTypes, SlotsMatch, NEW q \in SeqId, NEW address, NEW type, FindPending(q) # 0,
           pending_requests_' = [pending_requests_ EXCEPT ![FindPending(q)] =
                                    PendingRequest(q, address, type, TRUE)],
           asked' = [asked EXCEPT ![q] = RequestTo(address, type)]
    PROVE  SlotsMatch'
<1>1. PICK i \in Slot : i = FindPending(q) /\ pending_requests_[i].seq_id = q
  BY FindPendingFacts
<1>2. /\ pending_requests_ \in [Slot -> Pending] /\ asked \in [SeqId -> Asked]
      /\ pending_requests_' = [pending_requests_ EXCEPT ![i] =
                                  PendingRequest(q, address, type, TRUE)]
  BY <1>1 DEF MasterTypes
<1>3. Bears(i, q)' /\ Noted(i)' = asked'[q]
  BY <1>2 DEF Bears, Noted, PendingRequest
<1> SUFFICES ASSUME NEW n \in SeqId, asked'[n] # NoRequest, \E k \in Slot : Bears(k, n)'
             PROVE  \E k \in Slot : Bears(k, n)' /\ Noted(k)' = asked'[n]
  BY DEF SlotsMatch
<1>4. CASE n = q
  BY <1>3, <1>4
<1>5. CASE n # q
  <2>1. asked'[n] = asked[n]
    BY <1>2, <1>5
  <2>2. ~Bears(i, n)' /\ ~Bears(i, n)
    BY <1>1, <1>2, <1>5 DEF Bears, PendingRequest
  <2>3. \A k \in Slot : k # i => pending_requests_'[k] = pending_requests_[k]
    BY <1>2
  <2>4. PICK k \in Slot : Bears(k, n)'
    OBVIOUS
  <2>5. Bears(k, n)
    BY <2>2, <2>3, <2>4, Zenon DEF Bears
  <2>6. PICK m \in Slot : Bears(m, n) /\ Noted(m) = asked[n]
    BY <2>1, <2>5, Zenon DEF SlotsMatch
  <2>7. Bears(m, n)' /\ Noted(m)' = Noted(m)
    BY <2>2, <2>3, <2>6, Zenon DEF Bears, Noted
  <2> QED
    BY <2>1, <2>6, <2>7
<1> QED
  BY <1>4, <1>5

LEMMA NumberForgotten ==
    ASSUME MasterTypes, SlotsInv, NEW q \in SeqId, pending_requests_' = pending_requests_,
           asked' = [asked EXCEPT ![q] = NoRequest]
    PROVE  SlotsInv'
<1>1. asked \in [SeqId -> Asked]
  BY DEF MasterTypes
<1>2. \A n \in SeqId : asked'[n] = IF n = q THEN NoRequest ELSE asked[n]
  BY <1>1
<1>3. SlotsMatch'
  <2>1. \A i \in Slot, n \in SeqId : /\ Bears(i, n)' <=> Bears(i, n)
                                      /\ Noted(i)' = Noted(i)
    BY Zenon DEF Bears, Noted
  <2>2. SlotsMatch
    BY DEF SlotsInv
  <2> SUFFICES ASSUME NEW n \in SeqId, asked'[n] # NoRequest, \E i \in Slot : Bears(i, n)'
               PROVE  \E i \in Slot : Bears(i, n)' /\ Noted(i)' = asked'[n]
    BY DEF SlotsMatch
  <2>3. asked'[n] = asked[n]
    BY <1>2
  <2>4. PICK i \in Slot : Bears(i, n) /\ Noted(i) = asked[n]
    BY <2>1, <2>2, <2>3, Zenon DEF SlotsMatch
  <2>5. Bears(i, n)' /\ Noted(i)' = asked'[n]
    BY <2>3, <2>4 DEF Bears, Noted
  <2> QED
    BY <2>5
<1> QED
  BY <1>3 DEF SlotsInv, FirstIsActive

\* All requests that wait are given up together: nothing says when they were sent.
LEMMA TimedOut ==
    ASSUME MasterTypes, SlotsInv, NEW now, CheckTimeouts(now), asked' = asked
    PROVE  pending_requests_' \in [Slot -> Pending] /\ SlotsInv'
<1>0. FirstIsActive /\ SlotsMatch
  BY DEF SlotsInv
<1>1. pending_requests_ \in [Slot -> Pending]
  BY DEF MasterTypes
<1>2. \A i \in Slot : /\ pending_requests_[i] \in Pending
                      /\ pending_requests_[i].timestamp_ms = 0
                      /\ pending_requests_[i].is_active \in BOOLEAN
  BY <1>1 DEF Pending
<1> DEFINE over == Elapsed(now, 0) > RequestTimeout
<1>3. ASSUME NEW i \in Slot
      PROVE  /\ pending_requests_'[i] \in Pending
             /\ pending_requests_'[i].seq_id = pending_requests_[i].seq_id
             /\ pending_requests_'[i].slave_address = pending_requests_[i].slave_address
             /\ pending_requests_'[i].request_type = pending_requests_[i].request_type
             /\ pending_requests_'[i].is_active <=> (pending_requests_[i].is_active /\ ~over)
  <2> DEFINE r == pending_requests_[i]
  <2>1. r \in Pending /\ r.timestamp_ms = 0 /\ r.is_active \in BOOLEAN
    BY <1>2
  <2>2. pending_requests_'[i] = [r EXCEPT !.is_active = r.is_active /\ ~Expired(r, now)]
    BY DEF CheckTimeouts
  <2>3. PICK b \in BOOLEAN : b = (r.is_active /\ ~Expired(r, now))
    BY Zenon
  <2>4. pending_requests_'[i] = [r EXCEPT !.is_active = b]
    BY <2>2, <2>3, Zenon
  <2>5. b <=> (r.is_active /\ ~over)
    BY <2>1, <2>3, Zenon DEF Expired
  <2> HIDE DEF r, over
  <2>6. /\ pending_requests_'[i] \in Pending
        /\ pending_requests_'[i].seq_id = r.seq_id
        /\ pending_requests_'[i].slave_address = r.slave_address
        /\ pending_requests_'[i].request_type = r.request_type
        /\ pending_requests_'[i].is_active = b
    BY <2>1, <2>4 DEF Pending
  <2> QED
    BY <2>5, <2>6, Zenon DEF r
<1> HIDE DEF over
<1>4. pending_requests_' \in [Slot -> Pending]
  <2>1. pending_requests_' = [i \in Slot |-> pending_requests_'[i]]
    BY DEF CheckTimeouts
  <2> QED
    BY <1>3, <2>1
<1>5. FirstIsActive'
  <2> SUFFICES ASSUME NEW a \in Slot, NEW k \in Slot,
                      pending_requests_'[a].is_active,
                      pending_requests_'[k].seq_id = pending_requests_'[a].seq_id,
                      \A j \in Slot : pending_requests_'[j].seq_id = pending_requests_'[a].seq_id
                                          => k <= j
               PROVE  pending_requests_'[k].is_active
    BY DEF FirstIsActive
  <2>1. pending_requests_[a].is_active /\ ~over
    BY <1>3, Zenon
  <2>2. /\ pending_requests_[k].seq_id = pending_requests_[a].seq_id
        /\ \A j \in Slot : pending_requests_[j].seq_id = pending_requests_[a].seq_id => k <= j
    BY <1>3
  <2>3. pending_requests_[k].is_active
    BY <1>0, <2>1, <2>2 DEF FirstIsActive
  <2> QED
    BY <1>3, <2>1, <2>3, Zenon
<1>6. SlotsMatch'
  <2>1. CASE over
    BY <1>3, <2>1, Zenon DEF SlotsMatch, Bears
  <2>2. CASE ~over
    <3>1. \A i \in Slot : /\ Noted(i)' = Noted(i)
                         /\ \A n : Bears(i, n)' <=> Bears(i, n)
      BY <1>3, <2>2, Zenon DEF Noted, Bears
    <3> QED
      BY <1>0, <3>1, Zenon DEF SlotsMatch
  <2> QED
    BY <2>1, <2>2
<1> QED
  BY <1>4, <1>5, <1>6 DEF SlotsInv

LEMMA MasterQuiet ==
    ASSUME MasterTypes, SlotsInv, UNCHANGED masterVars
    PROVE  MasterTypes' /\ SlotsInv' /\ asked' = asked
BY DEF MasterTypes, SlotsInv, FirstIsActive, SlotsMatch, Bears, Noted, masterVars

\* allocate_seq_id_
LEMMA Allocated ==
    ASSUME MasterTypes, NEW r \in Asked, AllocateSeqId(r)
    PROVE  next_seq_id_' \in SeqId /\ asked' \in [SeqId -> Asked]
<1>1. /\ next_seq_id_ \in SeqId /\ next_seq_id_' = (next_seq_id_ + 1) % SeqIds
      /\ asked \in [SeqId -> Asked] /\ asked' = [asked EXCEPT ![next_seq_id_] = r]
  BY DEF MasterTypes, AllocateSeqId
<1>2. next_seq_id_' \in SeqId
  BY <1>1, MasterAssumption DEF SeqId
<1> QED
  BY <1>1, <1>2

LEMMA RequestTypes ==
    /\ NoRequest \in Asked
    /\ \A address \in Addresses, type \in {StateRequestType, ExecuteType} :
          RequestTo(address, type) \in Asked
BY DEF NoRequest, RequestTo, Asked

\* send_packet_to_slave_ with a request: it is noted and put on the line, or refused.
LEMMA RequestEffect ==
    ASSUME MasterTypes, SlotsInv, LineInv,
           NEW address \in Addresses, NEW pkt \in Packet,
           pkt.header.address = address, pkt.header.seq_id = next_seq_id_,
           pkt.header.type \in {StateRequestType, ExecuteType},
           SendRequest(address, pkt)
    PROVE  MasterTypes' /\ SlotsInv' /\ LineInv'
<1> DEFINE q == pkt.header.seq_id
           type == pkt.header.type
           g == Frame(MasterAddress, pkt)
<1>1. q \in SeqId /\ q = next_seq_id_ /\ DOMAIN asked = SeqId
  BY DEF MasterTypes
<1>2. UNCHANGED <<master_ready, master_clock>>
  BY DEF SendRequest
<1>g. Sound(g) /\ g.from = MasterAddress /\ ReadFrame(g) = pkt
  <2>1. FromMaster(pkt)
    BY DEF FromMaster
  <2> QED
    BY <2>1, SoundFrame, FrameRead
<1>3. CASE FindPending(q) = 0
  <2>1. AllocateSeqId(NoRequest) /\ UNCHANGED <<pending_requests_, line>>
    BY <1>3 DEF SendRequest
  <2>2. next_seq_id_' \in SeqId /\ asked' \in [SeqId -> Asked]
    BY <2>1, Allocated, RequestTypes
  <2>3. MasterTypes'
    BY <1>2, <2>1, <2>2 DEF MasterTypes
  <2>4. SlotsInv'
    <3>1. asked' = [asked EXCEPT ![q] = NoRequest]
      BY <1>1, <2>1 DEF AllocateSeqId
    <3> QED
      BY <1>1, <2>1, <3>1, NumberForgotten
  <2> HIDE DEF q, g
  <2>5. LineInv'
    BY <1>1, <1>g, <2>1, LineAllocated
  <2> QED
    BY <2>3, <2>4, <2>5
<1>4. CASE FindPending(q) # 0
  <2>1. /\ pending_requests_' = [pending_requests_ EXCEPT ![FindPending(q)] =
                                    PendingRequest(q, address, type, TRUE)]
        /\ AllocateSeqId(RequestTo(address, type))
        /\ Put(g)
    BY <1>4 DEF SendRequest
  <2>t. type \in {StateRequestType, ExecuteType} /\ RequestTo(address, type) \in Asked
    BY RequestTypes
  <2>a. asked' = [asked EXCEPT ![q] = RequestTo(address, type)]
    BY <1>1, <2>1 DEF AllocateSeqId
  <2>2. next_seq_id_' \in SeqId /\ asked' \in [SeqId -> Asked]
    BY <2>1, <2>t, Allocated
  <2>3. pending_requests_' \in [Slot -> Pending] /\ SlotsInv'
    <3> HIDE DEF q, type
    <3>1. FirstIsActive /\ SlotsMatch
      BY DEF SlotsInv
    <3>2. pending_requests_' \in [Slot -> Pending] /\ FirstIsActive'
      BY <1>1, <1>4, <2>1, <2>t, <3>1, RequestNoted
    <3>3. SlotsMatch'
      BY <1>1, <1>4, <2>1, <2>a, <3>1, RequestMatched
    <3> QED
      BY <3>2, <3>3 DEF SlotsInv
  <2>4. MasterTypes'
    BY <1>2, <2>2, <2>3 DEF MasterTypes
  <2>5. Current(g)'
    <3>1. PICK h : h = ReadFrame(g).header
      OBVIOUS
    <3>2. h = pkt.header
      BY <1>g, <3>1
    <3>3. asked'[q] = RequestTo(address, type)
      BY <1>1, <2>a
    <3>4. GivenTo(h.seq_id, RequestTo(h.address, h.type))'
      BY <1>1, <3>2, <3>3 DEF GivenTo
    <3>5. Told(g.from, h)'
      BY <1>g, <3>4 DEF Told
    <3> QED
      BY <3>1, <3>5 DEF Current
  <2> HIDE DEF q, g, type
  <2>6. LineInv'
    BY <1>1, <1>g, <2>1, <2>5, LineAllocated
  <2> QED
    BY <2>3, <2>4, <2>6
<1> QED
  BY <1>3, <1>4

\* Packets that are not requests.
LEMMA UnnotedEffect ==
    ASSUME MasterTypes, SlotsInv, LineInv,
           NEW address \in Nat, NEW type \in {AbortType, HeartbeatType},
           NEW payload \in Seq(Nat), Len(payload) <= 3,
           SendUnnoted(address, type, payload)
    PROVE  MasterTypes' /\ SlotsInv' /\ LineInv'
<1>1. next_seq_id_ \in SeqId /\ next_seq_id_ \in Nat /\ DOMAIN asked = SeqId
  BY MasterAssumption DEF MasterTypes, SeqId
<1>2. AllocateSeqId(NoRequest) /\ UNCHANGED <<pending_requests_, master_ready, master_clock>>
  BY DEF SendUnnoted
<1>3. next_seq_id_' \in SeqId /\ asked' \in [SeqId -> Asked]
  BY <1>2, Allocated, RequestTypes
<1>4. MasterTypes'
  BY <1>2, <1>3 DEF MasterTypes
<1>n. PICK n \in Nat : n = next_seq_id_ /\ n \in SeqId
  BY <1>1
<1>5. SlotsInv'
  <2>1. asked' = [asked EXCEPT ![n] = NoRequest]
    BY <1>2, <1>n DEF AllocateSeqId
  <2> QED
    BY <1>2, <1>n, <2>1, NumberForgotten
<1> DEFINE pkt == MakePacket(type, address, n, payload)
           g == Frame(MasterAddress, pkt)
<1>6. type \in Nat /\ type \notin {StateRequestType, ExecuteType}
  BY DEF AbortType, HeartbeatType, StateRequestType, ExecuteType
<1>7. pkt \in Packet /\ pkt.header = Header(address, type, Len(payload), n)
  BY <1>6, PlainPacket
<1>8. Put(g)
  BY <1>n DEF SendUnnoted
<1> HIDE DEF pkt
<1>9. pkt.header.type = type
  BY <1>7 DEF Header
<1>10. FromMaster(pkt)
  BY <1>9 DEF FromMaster
<1>11. Sound(g) /\ g.from = MasterAddress /\ ReadFrame(g).header = pkt.header
  BY <1>7, <1>10, SoundFrame, FrameRead
<1>12. Current(g)'
  <2>1. PICK h : h = ReadFrame(g).header
    OBVIOUS
  <2>2. Told(g.from, h)'
    BY <1>6, <1>9, <1>11, <2>1 DEF Told
  <2> QED
    BY <2>1, <2>2 DEF Current
<1> HIDE DEF g
<1>13. LineInv'
  BY <1>1, <1>2, <1>8, <1>11, <1>12, <1>n, LineAllocated
<1> QED
  BY <1>4, <1>5, <1>13

LEMMA MasterStepEffect ==
    ASSUME MasterTypes, SlotsInv, LineInv, MasterStep
    PROVE  MasterTypes' /\ SlotsInv' /\ LineInv'
<1>q. next_seq_id_ \in Nat
  BY MasterAssumption DEF MasterTypes, SeqId
<1>n. PICK n \in Nat : n = next_seq_id_
  BY <1>q
<1>1. ASSUME NEW address \in Addresses, NEW id \in Ids, RequestState(address, id)
      PROVE  MasterTypes' /\ SlotsInv' /\ LineInv'
  <2> DEFINE pkt == CreateStateRequest(address, n, id)
             payload == <<id>>
  <2>1. address \in Nat /\ payload \in Seq(Nat) /\ Len(payload) <= 3
    BY DataIsSeq
  <2>2. pkt = MakePacket(StateRequestType, address, n, payload)
    BY DEF CreateStateRequest, SerializeStateRequest, KMaxPayloadSize
  <2> HIDE DEF pkt, payload
  <2>3. pkt \in Packet /\ pkt.header = Header(address, StateRequestType, Len(payload), n)
    <3>1. StateRequestType \in Nat /\ n \in Nat
      BY DEF StateRequestType
    <3> QED
      BY ONLY <2>1, <2>2, <3>1, PlainPacket
  <2>4. /\ pkt.header.address = address /\ pkt.header.seq_id = next_seq_id_
        /\ pkt.header.type \in {StateRequestType, ExecuteType}
    BY <1>n, <2>3 DEF Header
  <2>5. SendRequest(address, pkt)
    BY <1>1, <1>n DEF RequestState, pkt
  <2> QED
    BY <2>3, <2>4, <2>5, RequestEffect
<1>2. ASSUME NEW address \in Addresses, NEW id \in Ids, SendCommand(address, id, NoBytes)
      PROVE  MasterTypes' /\ SlotsInv' /\ LineInv'
  <2> DEFINE lead == <<id>>
             pkt == DataPacket(ExecuteType, address, n, lead, NoBytes)
  <2>1. address \in Nat /\ lead \in Lead /\ NoBytes \in Seq(Nat) /\ ExecuteType \in Nat
    BY DataIsSeq DEF Lead, ExecuteType
  <2>2. CreateCommand(address, n, id, NoBytes, Len(NoBytes)) = pkt
    BY DEF CreateCommand, DataPacket
  <2> HIDE DEF pkt, lead
  <2>3. /\ pkt \in Packet /\ pkt.header.type = ExecuteType
        /\ pkt.header.address = address /\ pkt.header.seq_id = n
    <3>1. MadeWith(pkt, ExecuteType, address, n, lead)
      BY <2>1, PacketWithData DEF pkt
    <3> QED
      BY <3>1 DEF MadeWith
  <2>4. SendRequest(address, pkt)
    BY <1>2, <1>n, <2>2 DEF SendCommand
  <2>5. pkt.header.seq_id = next_seq_id_ /\ pkt.header.type \in {StateRequestType, ExecuteType}
    BY <1>n, <2>3
  <2> QED
    BY <2>3, <2>4, <2>5, RequestEffect
<1>3. ASSUME NEW address \in Addresses, NEW id \in Ids, AbortCommand(address, id)
      PROVE  MasterTypes' /\ SlotsInv' /\ LineInv'
  <2>1. address \in Nat /\ <<id>> \in Seq(Nat) /\ Len(<<id>>) <= 3
    BY DataIsSeq
  <2> DEFINE payload == <<id>>
  <2>2. SendUnnoted(address, AbortType, payload)
    BY <1>3 DEF AbortCommand
  <2> HIDE DEF payload
  <2>3. payload \in Seq(Nat) /\ Len(payload) <= 3
    BY <2>1 DEF payload
  <2> QED
    BY <2>1, <2>2, <2>3, UnnotedEffect
<1>4. CASE BroadcastHeartbeatRequest
  <2>1. 0 \in Nat /\ NoBytes \in Seq(Nat) /\ Len(NoBytes) <= 3
    BY DEF NoBytes
  <2>2. SendUnnoted(0, HeartbeatType, NoBytes)
    BY <1>4 DEF BroadcastHeartbeatRequest
  <2> QED
    BY <2>1, <2>2, UnnotedEffect
<1>5. ASSUME NEW address \in Addresses, InitMaster(address)
      PROVE  MasterTypes' /\ SlotsInv' /\ LineInv'
  <2>1. /\ UNCHANGED <<pending_requests_, next_seq_id_, master_clock, asked, lineVars>>
        /\ master_ready' = TRUE
    BY <1>5 DEF InitMaster
  <2>2. LineInv'
    BY <2>1, LineQuiet
  <2>3. SlotsInv'
    BY <2>1 DEF SlotsInv, FirstIsActive, SlotsMatch, Bears, Noted
  <2> QED
    BY <2>1, <2>2, <2>3 DEF MasterTypes
<1>6. ASSUME NEW step \in 0 .. MaxStep, MasterPoll(step)
      PROVE  MasterTypes' /\ SlotsInv' /\ LineInv'
  <2>1. UNCHANGED <<next_seq_id_, master_ready, asked, lineVars>>
    BY <1>6 DEF MasterPoll
  <2>2. master_clock' \in Clock
    <3>1. master_clock \in Clock /\ master_clock' = (master_clock + step) % ClockMod
      BY <1>6 DEF MasterPoll, MasterTypes
    <3> QED
      BY <3>1, MasterAssumption DEF Clock
  <2>3. PICK now : now = (master_clock + step) % ClockMod
    OBVIOUS
  <2>4. CheckTimeouts(now)
    BY <1>6, <2>3 DEF MasterPoll
  <2>5. pending_requests_' \in [Slot -> Pending] /\ SlotsInv'
    BY <2>1, <2>4, TimedOut
  <2>6. LineInv'
    BY <2>1, LineQuiet
  <2> QED
    BY <2>1, <2>2, <2>5, <2>6 DEF MasterTypes
<1> QED
  BY <1>1, <1>2, <1>3, <1>4, <1>5, <1>6 DEF MasterStep

\* handle_slave_response_ frees a slot that is free.
LEMMA ResponseEffect ==
    ASSUME MasterTypes, SlotsInv, LineInv, NEW f \in line, HandleSlaveResponse(f)
    PROVE  MasterTypes' /\ SlotsInv' /\ LineInv'
<1>1. PICK q : q = ReadFrame(f).header.seq_id
  OBVIOUS
<1> DEFINE i == FindPending(q)
<1>2. /\ pending_requests_' = IF i = 0 THEN pending_requests_
                              ELSE [pending_requests_ EXCEPT ![i].is_active = FALSE]
      /\ Take(f)
      /\ UNCHANGED <<next_seq_id_, master_ready, master_clock, asked>>
  BY <1>1 DEF HandleSlaveResponse
<1>3. pending_requests_' = pending_requests_
  <2>1. CASE i = 0
    BY <1>2, <2>1
  <2>2. CASE i # 0
    <3>1. i \in Slot /\ ~pending_requests_[i].is_active
      BY <2>2, FindPendingFacts
    <3>2. pending_requests_ \in [Slot -> Pending] /\ pending_requests_[i] \in Pending
      BY <3>1 DEF MasterTypes
    <3> HIDE DEF i
    <3>3. pending_requests_[i].is_active = FALSE
      BY <3>1, <3>2 DEF Pending
    <3>4. [pending_requests_[i] EXCEPT !.is_active = FALSE] = pending_requests_[i]
      BY <3>2, <3>3 DEF Pending
    <3>5. pending_requests_' = [pending_requests_ EXCEPT ![i] =
                                   [pending_requests_[i] EXCEPT !.is_active = FALSE]]
      BY <1>2, <2>2
    <3> QED
      BY <3>2, <3>4, <3>5
  <2> QED
    BY <2>1, <2>2
<1>4. LineInv'
  BY <1>2, LineQuiet
<1> HIDE DEF i
<1>5. UNCHANGED masterVars
  BY <1>2, <1>3 DEF masterVars
<1> QED
  BY <1>4, <1>5, MasterQuiet
--------------------------------------------------------------------------------
(* The slaves *)

SlaveRecord ==
    [is_initialized : BOOLEAN, seq_counter : 0 .. CounterMod - 1,
     last_heartbeat_time : SlaveClock, clock : SlaveClock, since : 0 .. Long, early : BOOLEAN]

\* Until the interval is over the clock tells how long ago the last heartbeat was.
Spaced(r) ==
    /\ r.early = FALSE
    /\ r.since < HeartbeatInterval => SinceLast(r.clock, r.last_heartbeat_time) = r.since

SlaveInv ==
    /\ slave \in [Slave -> SlaveRecord]
    /\ \A s \in Slave : Spaced(slave[s])

LEMMA SlaveAddress ==
    ASSUME NEW s \in Slave
    PROVE  s \in Nat /\ s # MasterAddress
<1>1. \A k \in 1 .. 126 : k \in Nat /\ k # 0
  OBVIOUS
<1> QED
  BY <1>1, SlaveAssumption DEF MasterAddress

LEMMA CounterFacts ==
    ASSUME slave \in [Slave -> SlaveRecord], NEW s \in Slave
    PROVE  slave[s].seq_counter \in Nat /\ NextCounter(s) \in 0 .. CounterMod - 1
<1>1. slave[s].seq_counter \in 0 .. CounterMod - 1
  BY DEF SlaveRecord
<1> QED
  BY <1>1, SlaveAssumption DEF NextCounter

\* A step of one slave that keeps its own record keeps all.
LEMMA OneSlave ==
    ASSUME SlaveInv, NEW s \in Slave, NEW r \in SlaveRecord, Spaced(r),
           slave' = [slave EXCEPT ![s] = r]
    PROVE  SlaveInv'
<1>1. slave' \in [Slave -> SlaveRecord]
  BY DEF SlaveInv
<1>2. ASSUME NEW k \in Slave
      PROVE  Spaced(slave'[k])
  BY DEF SlaveInv
<1> QED
  BY <1>1, <1>2 DEF SlaveInv

\* The clock of a slave: what a poll makes of the time since the last heartbeat.
LEMMA ClockFacts ==
    ASSUME NEW c \in SlaveClock, NEW last \in SlaveClock, NEW step \in 0 .. SlaveMaxStep
    PROVE  LET now == (c + step) % SlaveClockMod
           IN /\ now \in SlaveClock
              /\ SinceLast(now, now) = 0
              /\ SinceLast(c, last) + step < SlaveClockMod =>
                    SinceLast(now, last) = SinceLast(c, last) + step
<1> DEFINE M == SlaveClockMod
           now == (c + step) % M
           d == c - last + M
           e == now - last + M
<1>1. /\ M \in Nat \ {0} /\ step \in Nat /\ step < M
      /\ c \in 0 .. M - 1 /\ last \in 0 .. M - 1
  <2>1. /\ SlaveMaxStep \in Nat /\ SlaveClockMod \in Nat \ {0}
        /\ HeartbeatInterval \in Nat \ {0} /\ HeartbeatInterval + SlaveMaxStep <= SlaveClockMod
    BY SlaveAssumption
  <2> QED
    BY <2>1 DEF SlaveClock
<1>2. \A x \in 0 .. 2 * M - 1 : x % M = IF x < M THEN x ELSE x - M
  BY <1>1
<1> HIDE DEF M
<1>3. now = (IF c + step < M THEN c + step ELSE c + step - M) /\ now \in 0 .. M - 1
  <2> DEFINE x == c + step
  <2>1. x \in 0 .. 2 * M - 1
    BY <1>1
  <2>2. now = IF x < M THEN x ELSE x - M
    <3>1. now = x % M
      OBVIOUS
    <3> HIDE DEF x, now
    <3> QED
      BY <1>2, <2>1, <3>1
  <2> HIDE DEF now
  <2> QED
    BY <1>1, <2>2
<1> HIDE DEF now
<1>4. d % M = (IF c >= last THEN c - last ELSE c - last + M)
  <2>1. d \in 0 .. 2 * M - 1 /\ (d < M <=> ~(c >= last)) /\ d - M = c - last
    BY <1>1
  <2>2. d % M = IF d < M THEN d ELSE d - M
    <3> HIDE DEF d
    <3> QED
      BY <1>2, <2>1
  <2> QED
    BY <2>1, <2>2
<1>5. e % M = (IF now >= last THEN now - last ELSE now - last + M)
  <2>1. e \in 0 .. 2 * M - 1 /\ (e < M <=> ~(now >= last)) /\ e - M = now - last
    BY <1>1, <1>3
  <2>2. e % M = IF e < M THEN e ELSE e - M
    <3> HIDE DEF e
    <3> QED
      BY <1>2, <2>1
  <2> QED
    BY <2>1, <2>2
<1>6. SinceLast(c, last) = d % M /\ SinceLast(now, last) = e % M
  BY DEF SinceLast, M
<1>7. ASSUME SinceLast(c, last) + step < M
      PROVE  SinceLast(now, last) = SinceLast(c, last) + step
  <2> HIDE DEF d, e
  <2> QED
    BY <1>1, <1>3, <1>4, <1>5, <1>6, <1>7
<1>8. SinceLast(now, now) = 0
  <2>1. now - now + M = M
    BY <1>1, <1>3
  <2>2. M % M = 0
    BY <1>1
  <2> QED
    BY <2>1, <2>2 DEF SinceLast, M
<1>9. now \in SlaveClock
  BY <1>3 DEF SlaveClock, M
<1> QED
  BY <1>7, <1>8, <1>9 DEF now, M

\* A frame of a slave's own goes to the address of the master.
LEMMA UnaskedFrame ==
    ASSUME NEW s \in Slave, NEW pkt \in Packet, FromSlave(pkt), pkt.header.address = MasterAddress
    PROVE  Sound(Frame(s, pkt)) /\ Current(Frame(s, pkt))
<1>1. s # MasterAddress
  BY SlaveAddress
<1>2. ReadFrame(Frame(s, pkt)).header = pkt.header /\ Frame(s, pkt).from = s
  BY FrameRead
<1> QED
  BY <1>1, <1>2, SoundFrame DEF Current, Told

\* poll(): a heartbeat is sent when the interval is over, by the clock and in fact.
LEMMA PollEffect ==
    ASSUME SlaveInv, LineInv, asked' = asked, NEW s \in Slave, NEW step \in 0 .. SlaveMaxStep,
           SlavePoll(s, step)
    PROVE  SlaveInv' /\ LineInv'
<1> DEFINE r == slave[s]
<1>r. r \in SlaveRecord /\ Spaced(r) /\ slave \in [Slave -> SlaveRecord]
  BY DEF SlaveInv
<1>n. PICK now : now = (r.clock + step) % SlaveClockMod
  OBVIOUS
<1>s. PICK since : since = AtMost(r.since + step, Long)
  OBVIOUS
<1>t. /\ r.clock \in SlaveClock /\ r.last_heartbeat_time \in SlaveClock /\ r.since \in 0 .. Long
      /\ r.is_initialized \in BOOLEAN /\ r.seq_counter \in 0 .. CounterMod - 1 /\ r.early = FALSE
  BY <1>r DEF SlaveRecord, Spaced
<1>c. /\ now \in SlaveClock /\ SinceLast(now, now) = 0
      /\ SinceLast(r.clock, r.last_heartbeat_time) + step < SlaveClockMod =>
            SinceLast(now, r.last_heartbeat_time)
              = SinceLast(r.clock, r.last_heartbeat_time) + step
  BY <1>n, <1>t, ClockFacts
<1>a. /\ HeartbeatInterval \in Nat \ {0} /\ SlaveMaxStep \in Nat /\ SlaveClockMod \in Nat \ {0}
      /\ HeartbeatInterval + SlaveMaxStep <= SlaveClockMod /\ step \in Nat
      /\ Long = HeartbeatInterval + SlaveMaxStep /\ step <= SlaveMaxStep
  BY SlaveAssumption DEF Long
<1>b. /\ since \in 0 .. Long
      /\ since < HeartbeatInterval => /\ since = r.since + step
                                      /\ r.since < HeartbeatInterval
  <2> HIDE DEF r
  <2> QED
    BY <1>a, <1>s, <1>t DEF AtMost
<1>k. since < HeartbeatInterval => SinceLast(now, r.last_heartbeat_time) = since
  <2> SUFFICES ASSUME since < HeartbeatInterval
               PROVE  SinceLast(now, r.last_heartbeat_time) = since
    OBVIOUS
  <2>1. SinceLast(r.clock, r.last_heartbeat_time) = r.since
    BY <1>b, <1>r DEF Spaced
  <2>2. r.since + step < SlaveClockMod
    <3> HIDE DEF r
    <3> QED
      BY <1>a, <1>b, <1>t
  <2> QED
    BY <1>b, <1>c, <2>1, <2>2
<1>d. HeartbeatDue(s, now) <=> SinceLast(now, r.last_heartbeat_time) >= HeartbeatInterval
  BY DEF HeartbeatDue
<1>e. HeartbeatDue(s, now) => ~(since < HeartbeatInterval)
  <2> SUFFICES ASSUME HeartbeatDue(s, now), since < HeartbeatInterval PROVE FALSE
    OBVIOUS
  <2>1. SinceLast(now, r.last_heartbeat_time) = since
    BY <1>k
  <2>2. since >= HeartbeatInterval
    BY <1>d, <2>1
  <2> QED
    BY <1>a, <1>b, <2>2
<1>1. CASE HeartbeatDue(s, now)
  <2>0. PICK n : n = NextCounter(s)
    OBVIOUS
  <2>1. PICK b : b = (r.early \/ since < HeartbeatInterval)
    OBVIOUS
  <2>2. b = FALSE
    BY <1>1, <1>e, <1>t, <2>1, Zenon
  <2> DEFINE new == [r EXCEPT !.clock = now, !.last_heartbeat_time = now, !.seq_counter = n,
                              !.since = 0, !.early = FALSE]
  <2>3. slave' = [slave EXCEPT ![s].clock = now, ![s].last_heartbeat_time = now,
                               ![s].seq_counter = n, ![s].since = 0, ![s].early = b]
    BY <1>1, <1>n, <1>s, <2>0, <2>1, Zenon DEF SlavePoll
  <2>4. slave' = [slave EXCEPT ![s] = new]
    BY <1>r, <2>2, <2>3
  <2>5. n \in 0 .. CounterMod - 1 /\ r.seq_counter \in Nat
    BY <1>r, <2>0, CounterFacts
  <2>6. new \in SlaveRecord /\ Spaced(new)
    <3>1. 0 \in 0 .. Long
      BY <1>a
    <3> HIDE DEF r
    <3>2. new \in SlaveRecord
      BY <1>c, <1>r, <2>5, <3>1 DEF SlaveRecord
    <3>3. new.clock = now /\ new.last_heartbeat_time = now /\ new.since = 0 /\ new.early = FALSE
      BY <1>r DEF SlaveRecord
    <3> HIDE DEF new
    <3> QED
      BY <1>c, <3>2, <3>3 DEF Spaced
  <2> HIDE DEF new
  <2>7. SlaveInv'
    BY <2>4, <2>6, OneSlave
  <2>8. PICK q \in Nat : q = r.seq_counter
    BY <2>5
  <2> DEFINE pkt == CreateHeartbeat(MasterAddress, q, 1, 0)
             payload == <<1, High(0), Low(0)>>
             g == Frame(s, pkt)
  <2>9. Put(g) /\ late' = late
    BY <1>1, <1>n, <2>8 DEF SlavePoll
  <2>10. payload \in Seq(Nat) /\ Len(payload) = 3
    <3>1. High(0) \in Nat /\ Low(0) \in Nat
      BY WordParts DEF Word16
    <3> QED
      BY <3>1
  <2>11. pkt = MakePacket(HeartbeatType, MasterAddress, q, payload)
    BY DEF CreateHeartbeat, SerializeHeartbeat, KMaxPayloadSize
  <2> HIDE DEF payload, pkt
  <2>12. /\ pkt \in Packet /\ pkt.header.type = HeartbeatType /\ Len(pkt.payload) = 3
         /\ pkt.header.address = MasterAddress
    <3>1. HeartbeatType \in Nat /\ MasterAddress \in Nat /\ q \in Nat /\ Len(payload) <= 3
      BY <2>10 DEF HeartbeatType, MasterAddress
    <3>2. /\ pkt \in Packet /\ pkt.payload = payload
          /\ pkt.header = Header(MasterAddress, HeartbeatType, Len(payload), q)
      <4> DEFINE made == MakePacket(HeartbeatType, MasterAddress, q, payload)
      <4>1. /\ made \in Packet /\ made.payload = payload
            /\ made.header = Header(MasterAddress, HeartbeatType, Len(payload), q)
        BY <2>10, <3>1, PlainPacket, Zenon
      <4> QED
        BY ONLY <2>11, <4>1
    <3> QED
      BY <2>10, <3>2 DEF Header
  <2>13. FromSlave(pkt)
    BY <2>12 DEF FromSlave
  <2>14. Sound(g) /\ Current(g)
    BY <2>12, <2>13, UnaskedFrame
  <2> HIDE DEF g
  <2>15. LineInv'
    BY <2>9, <2>14, LinePut
  <2> QED
    BY <2>7, <2>15
<1>2. CASE ~HeartbeatDue(s, now)
  <2> DEFINE new == [r EXCEPT !.clock = now, !.since = since]
  <2>1. slave' = [slave EXCEPT ![s].clock = now, ![s].since = since] /\ UNCHANGED lineVars
    BY <1>2, <1>n, <1>s, Zenon DEF SlavePoll, lineVars
  <2>2. slave' = [slave EXCEPT ![s] = new]
    BY <1>r, <2>1
  <2>3. new \in SlaveRecord /\ Spaced(new)
    <3> HIDE DEF r
    <3>1. new \in SlaveRecord
      BY <1>b, <1>c, <1>r DEF SlaveRecord
    <3>2. /\ new.clock = now /\ new.since = since /\ new.early = FALSE
          /\ new.last_heartbeat_time = r.last_heartbeat_time
      BY <1>r, <1>t DEF SlaveRecord
    <3> HIDE DEF new
    <3> QED
      BY <1>k, <3>1, <3>2 DEF Spaced
  <2> HIDE DEF new
  <2>4. SlaveInv'
    BY <2>2, <2>3, OneSlave
  <2>5. LineInv'
    BY <2>1, LineQuiet
  <2> QED
    BY <2>4, <2>5
<1> QED
  BY <1>1, <1>2

\* init() and the updates a slave sends of its own accord.
LEMMA OwnStepEffect ==
    ASSUME SlaveInv, LineInv, asked' = asked, NEW s \in Slave,
           \/ \E is_master \in BOOLEAN : InitSlave(s, is_master)
           \/ \E id \in Ids, data \in Answers : SendStateUpdate(s, id, data)
    PROVE  SlaveInv' /\ LineInv'
<1> DEFINE r == slave[s]
<1>r. r \in SlaveRecord /\ Spaced(r) /\ slave \in [Slave -> SlaveRecord]
  BY DEF SlaveInv
<1>1. ASSUME NEW is_master \in BOOLEAN, InitSlave(s, is_master)
      PROVE  SlaveInv' /\ LineInv'
  <2> DEFINE new == [r EXCEPT !.is_initialized = TRUE]
  <2>1. slave' = [slave EXCEPT ![s] = new] /\ UNCHANGED lineVars
    BY <1>1, <1>r DEF InitSlave
  <2> HIDE DEF r
  <2>2. new \in SlaveRecord
    BY <1>r DEF SlaveRecord
  <2>3. /\ new.clock = r.clock /\ new.since = r.since /\ new.early = r.early
        /\ new.last_heartbeat_time = r.last_heartbeat_time
    BY <1>r DEF SlaveRecord
  <2> HIDE DEF new
  <2>4. Spaced(new)
    BY <1>r, <2>3, Zenon DEF Spaced
  <2>5. SlaveInv'
    BY <2>1, <2>2, <2>4, OneSlave
  <2> QED
    BY <2>1, <2>5, LineQuiet
<1>2. ASSUME NEW id \in Ids, NEW data \in Answers, SendStateUpdate(s, id, data)
      PROVE  SlaveInv' /\ LineInv'
  <2>0. PICK n : n = NextCounter(s)
    OBVIOUS
  <2>1. n \in 0 .. CounterMod - 1 /\ r.seq_counter \in Nat
    BY <1>r, <2>0, CounterFacts
  <2>2. PICK q \in Nat : q = r.seq_counter
    BY <2>1
  <2> DEFINE new == [r EXCEPT !.seq_counter = n]
  <2>3. slave' = [slave EXCEPT ![s] = new]
    BY <1>2, <1>r, <2>0 DEF SendStateUpdate
  <2> DEFINE lead == <<id>>
             pkt == DataPacket(StateResponseType, MasterAddress, q, lead, data)
             g == Frame(s, pkt)
  <2>4. Put(g) /\ late' = late
    BY <1>2, <2>2 DEF SendStateUpdate, CreateStateResponse, DataPacket
  <2>5. lead \in Lead /\ Len(lead) = 1 /\ data \in Seq(Nat)
    BY DataIsSeq DEF Lead
  <2> HIDE DEF lead, pkt, r
  <2>6. /\ pkt \in Packet /\ pkt.header.type = StateResponseType
        /\ pkt.header.address = MasterAddress /\ Len(pkt.payload) >= 1 /\ Len(pkt.payload) <= MaxSize
    <3>1. StateResponseType \in Nat /\ MasterAddress \in Nat
      BY DEF StateResponseType, MasterAddress
    <3>2. /\ pkt \in Packet /\ pkt.header.type = StateResponseType
          /\ pkt.header.address = MasterAddress
          /\ Len(pkt.payload) >= Len(lead) /\ Len(pkt.payload) <= MaxSize
      <4>1. MadeWith(pkt, StateResponseType, MasterAddress, q, lead)
        BY <2>5, <3>1, PacketWithData DEF pkt
      <4> QED
        BY <4>1 DEF MadeWith
    <3> QED
      BY <2>5, <3>1, <3>2
  <2>7. FromSlave(pkt)
    BY <2>6 DEF FromSlave
  <2>8. Sound(g) /\ Current(g)
    BY <2>6, <2>7, UnaskedFrame
  <2> HIDE DEF g
  <2>9. LineInv'
    BY <2>4, <2>8, LinePut
  <2>10. new \in SlaveRecord
    BY <1>r, <2>1 DEF SlaveRecord
  <2>11. /\ new.clock = r.clock /\ new.since = r.since /\ new.early = r.early
         /\ new.last_heartbeat_time = r.last_heartbeat_time
    BY <1>r DEF SlaveRecord
  <2> HIDE DEF new
  <2>12. Spaced(new)
    BY <1>r, <2>11, Zenon DEF Spaced
  <2>13. SlaveInv'
    BY <2>3, <2>10, <2>12, OneSlave
  <2> QED
    BY <2>9, <2>13
<1> QED
  BY <1>1, <1>2

\* The frame that answers a request: it is current if the request is.
LEMMA AnswerFrame ==
    ASSUME NEW s \in Slave, NEW pkt \in Packet, NEW type,
           \/ /\ pkt.header.type = StateResponseType /\ type = StateRequestType
              /\ Len(pkt.payload) >= 1
           \/ /\ pkt.header.type = CommandResponseType /\ type = ExecuteType
              /\ Len(pkt.payload) >= 2,
           Len(pkt.payload) <= MaxSize
    PROVE  /\ Sound(Frame(s, pkt))
           /\ GivenTo(pkt.header.seq_id, RequestTo(pkt.header.address, type))
                 => Current(Frame(s, pkt))
<1>1. s # MasterAddress
  BY SlaveAddress
<1>2. FromSlave(pkt)
  BY DEF FromSlave
<1>3. ReadFrame(Frame(s, pkt)).header = pkt.header /\ Frame(s, pkt).from = s
  BY FrameRead
<1>4. AnsweredBy(pkt.header) = RequestTo(pkt.header.address, type)
  <2>1. StateResponseType # CommandResponseType
    BY DEF StateResponseType, CommandResponseType
  <2> QED
    BY <2>1 DEF AnsweredBy
<1>5. GivenTo(pkt.header.seq_id, RequestTo(pkt.header.address, type)) => Current(Frame(s, pkt))
  BY <1>1, <1>3, <1>4 DEF Current, Told
<1> QED
  BY <1>1, <1>2, <1>5, SoundFrame

\* A response bears the number and the address of the request that it answers.
LEMMA AnswerEffect ==
    ASSUME LineInv, asked' = asked, NEW s \in Slave, NEW f \in line, SlaveReceives(s, f)
    PROVE  slave' = slave /\ LineInv'
<1>1. PICK pkt \in Packet : f = Frame(f.from, pkt)
  BY DEF LineInv, Sound
<1>2. ReadFrame(f) = pkt
  BY <1>1, FrameRead
<1>3. /\ pkt.header \in HeaderSet /\ pkt.payload \in Seq(Nat)
      /\ pkt.header.address \in Nat /\ pkt.header.seq_id \in Nat
  <2>1. pkt.header \in HeaderSet /\ pkt.payload \in Seq(Nat)
    BY PacketFacts
  <2> QED
    BY <2>1, HeaderFacts
<1> DEFINE a == pkt.header.address
           q == pkt.header.seq_id
           id == Head(pkt.payload)
<1>4. f \notin late /\ pkt.header.type \in {StateRequestType, ExecuteType}
         => GivenTo(q, RequestTo(a, pkt.header.type))
  <2>1. f.from = MasterAddress
    BY DEF SlaveReceives
  <2>2. f \notin late => Told(f.from, pkt.header)
    BY <1>2 DEF LineInv, LateInv, Current
  <2> QED
    BY <2>1, <2>2 DEF Told
<1>5. Len(pkt.payload) >= 1 => id \in Nat
  <2>1. Len(pkt.payload) >= 1 => pkt.payload # <<>>
    OBVIOUS
  <2> QED
    BY <1>3, <2>1
<1> HIDE DEF id
<1>6. ASSUME NEW registered \in BOOLEAN, NEW data \in Answers,
             HandleStateRequest(s, f, registered, data), pkt.header.type = StateRequestType
      PROVE  slave' = slave /\ LineInv'
  <2> DEFINE lead == <<id>>
             response == DataPacket(StateResponseType, a, q, lead, data)
             g == Frame(s, response)
  <2>1. /\ slave' = slave
        /\ (Len(pkt.payload) >= 1 /\ TakeAndPut(f, g)) \/ Take(f)
    <3>1. CreateStateResponse(a, ResponseSeq(s, pkt), Head(pkt.payload), data, Len(data)) = response
      BY DEF ResponseSeq, CreateStateResponse, DataPacket, id
    <3> HIDE DEF response
    <3> QED
      BY <1>2, <1>6, <3>1 DEF HandleStateRequest
  <2>2. ASSUME Len(pkt.payload) >= 1, TakeAndPut(f, g)
        PROVE  LineInv'
    <3>1. lead \in Lead /\ Len(lead) = 1 /\ data \in Seq(Nat)
      BY <1>5, <2>2, DataIsSeq DEF Lead
    <3> HIDE DEF lead, response
    <3>2. /\ response \in Packet /\ response.header.type = StateResponseType
          /\ response.header.address = a /\ response.header.seq_id = q
          /\ Len(response.payload) >= 1 /\ Len(response.payload) <= MaxSize
      <4>1. StateResponseType \in Nat /\ a \in Nat /\ q \in Nat
        BY <1>3 DEF StateResponseType
      <4> HIDE DEF a, q
      <4>2. MadeWith(response, StateResponseType, a, q, lead)
        BY <3>1, <4>1, PacketWithData DEF response
      <4> QED
        BY <3>1, <4>2 DEF MadeWith
    <3>3. /\ Sound(g)
          /\ GivenTo(q, RequestTo(a, StateRequestType)) => Current(g)
      BY <3>2, AnswerFrame
    <3>4. f \notin late => Current(g)
      BY <1>4, <1>6, <3>3
    <3> HIDE DEF g
    <3> QED
      BY <2>2, <3>3, <3>4, LineAnswered
  <2> HIDE DEF g
  <2>3. Take(f) => LineInv'
    BY LineQuiet
  <2> QED
    BY <2>1, <2>2, <2>3
<1>7. ASSUME NEW registered \in BOOLEAN, NEW data \in Answers,
             HandleCommandRequest(s, f, registered, Len(data), data), pkt.header.type = ExecuteType
      PROVE  slave' = slave /\ LineInv'
  <2> DEFINE lead == <<id, Len(data)>>
             response == DataPacket(CommandResponseType, a, q, lead, data)
             g == Frame(s, response)
  <2>1. /\ slave' = slave
        /\ (Len(pkt.payload) >= 1 /\ TakeAndPut(f, g)) \/ Take(f)
    <3>1. CreateCommandResponse(a, ResponseSeq(s, pkt), Head(pkt.payload), Len(data), data, Len(data)) = response
      BY DEF ResponseSeq, CreateCommandResponse, DataPacket, id
    <3> HIDE DEF response
    <3> QED
      BY <1>2, <1>7, <3>1 DEF HandleCommandRequest
  <2>2. ASSUME Len(pkt.payload) >= 1, TakeAndPut(f, g)
        PROVE  LineInv'
    <3>1. lead \in Lead /\ Len(lead) = 2 /\ data \in Seq(Nat)
      <4>1. data \in Seq(Nat)
        BY DataIsSeq
      <4>2. Len(data) \in Nat
        BY <4>1
      <4> QED
        BY <1>5, <2>2, <4>1, <4>2 DEF Lead
    <3> HIDE DEF lead, response
    <3>2. /\ response \in Packet /\ response.header.type = CommandResponseType
          /\ response.header.address = a /\ response.header.seq_id = q
          /\ Len(response.payload) >= 2 /\ Len(response.payload) <= MaxSize
      <4>1. CommandResponseType \in Nat /\ a \in Nat /\ q \in Nat
        BY <1>3 DEF CommandResponseType
      <4> HIDE DEF a, q
      <4>2. MadeWith(response, CommandResponseType, a, q, lead)
        BY <3>1, <4>1, PacketWithData DEF response
      <4> QED
        BY <3>1, <4>2 DEF MadeWith
    <3>3. /\ Sound(g)
          /\ GivenTo(q, RequestTo(a, ExecuteType)) => Current(g)
      BY <3>2, AnswerFrame
    <3>4. f \notin late => Current(g)
      BY <1>4, <1>7, <3>3
    <3> HIDE DEF g
    <3> QED
      BY <2>2, <3>3, <3>4, LineAnswered
  <2> HIDE DEF g
  <2>3. Take(f) => LineInv'
    BY LineQuiet
  <2> QED
    BY <2>1, <2>2, <2>3
<1> QED
  BY <1>2, <1>6, <1>7 DEF SlaveReceives
--------------------------------------------------------------------------------
(* The invariant *)

NodesInv == MasterTypes /\ SlotsInv /\ LineInv /\ SlaveInv

LEMMA NodesInit == Init => NodesInv
<1> SUFFICES ASSUME Init PROVE NodesInv
  OBVIOUS
<1> USE MasterAssumption, SlaveAssumption
<1>1. MasterTypes /\ SlotsInv
  <2>1. PICK held \in Held :
           pending_requests_ = [i \in Slot |-> PendingRequest(held[i], 0, 0, FALSE)]
    BY DEF Init, MasterInit
  <2>2. \A i \in Slot : PendingRequest(held[i], 0, 0, FALSE) \in Pending
    <3>1. held \in [Slot -> 0 .. SeqIds]
      BY <2>1 DEF Slot
    <3> QED
      BY <3>1 DEF PendingRequest, Pending
  <2>3. pending_requests_ \in [Slot -> Pending]
    BY <2>1, <2>2
  <2>4. \A i \in Slot : ~pending_requests_[i].is_active
    BY <2>1 DEF PendingRequest
  <2>5. 0 \in SeqId /\ 0 \in Clock
    BY DEF SeqId, Clock
  <2>6. SlotsInv
    BY <2>4 DEF SlotsInv, FirstIsActive, SlotsMatch, Bears
  <2>7. asked \in [SeqId -> Asked]
    BY RequestTypes DEF Init, MasterInit
  <2> QED
    BY <2>3, <2>5, <2>6, <2>7 DEF Init, MasterInit, MasterTypes
<1>2. LineInv
  <2>1. line = {} /\ late = {}
    BY DEF Init
  <2>2. IsFiniteSet({}) /\ Cardinality({}) = 0
    BY FS_EmptySet
  <2> QED
    BY <2>1, <2>2, LineAssumption DEF LineInv, LateInv
<1>3. SlaveInv
  <2>1. PICK start \in [Slave -> SlaveClock] :
           slave = [s \in Slave |->
              [is_initialized |-> FALSE, seq_counter |-> 0, last_heartbeat_time |-> 0,
               clock |-> start[s], since |-> Long, early |-> FALSE]]
    BY DEF Init, SlaveInit
  <2>2. Long \in 0 .. Long /\ ~(Long < HeartbeatInterval) /\ 0 \in 0 .. CounterMod - 1
        /\ 0 \in SlaveClock
    BY DEF Long, SlaveClock
  <2>3. ASSUME NEW s \in Slave
        PROVE  slave[s] \in SlaveRecord /\ Spaced(slave[s])
    <3> DEFINE w == Long
    <3>1. slave[s] = [is_initialized |-> FALSE, seq_counter |-> 0, last_heartbeat_time |-> 0,
                      clock |-> start[s], since |-> w, early |-> FALSE]
      BY <2>1
    <3>2. w \in 0 .. Long /\ ~(w < HeartbeatInterval)
      BY <2>2
    <3> HIDE DEF w
    <3> QED
      BY <2>2, <3>1, <3>2 DEF SlaveRecord, Spaced
  <2> QED
    BY <2>1, <2>3 DEF SlaveInv
<1> QED
  BY <1>1, <1>2, <1>3 DEF NodesInv

LEMMA NodesInductive == NodesInv /\ [Next]_vars => NodesInv'
<1> SUFFICES ASSUME MasterTypes, SlotsInv, LineInv, SlaveInv, [Next]_vars PROVE NodesInv'
  BY DEF NodesInv
<1>s. UNCHANGED slave => SlaveInv'
  BY DEF SlaveInv
<1>1. ASSUME MasterStep, UNCHANGED slave
      PROVE  NodesInv'
  BY <1>1, <1>s, MasterStepEffect DEF NodesInv
<1>2. ASSUME NEW s \in Slave, SlaveStep(s), UNCHANGED masterVars
      PROVE  NodesInv'
  <2>1. MasterTypes' /\ SlotsInv' /\ asked' = asked
    BY <1>2, MasterQuiet
  <2>2. SlaveInv' /\ LineInv'
    BY <1>2, <2>1, PollEffect, OwnStepEffect DEF SlaveStep
  <2> QED
    BY <2>1, <2>2 DEF NodesInv
<1>3. ASSUME NEW s \in Slave, NEW f \in line, SlaveReceives(s, f), UNCHANGED masterVars
      PROVE  NodesInv'
  <2>1. MasterTypes' /\ SlotsInv' /\ asked' = asked
    BY <1>3, MasterQuiet
  <2>2. slave' = slave /\ LineInv'
    BY <1>3, <2>1, AnswerEffect
  <2> QED
    BY <1>s, <2>1, <2>2 DEF NodesInv
<1>4. ASSUME NEW f \in line, MasterReceives(f), UNCHANGED slave
      PROVE  NodesInv'
  BY <1>4, <1>s, ResponseEffect DEF MasterReceives, NodesInv
<1>5. ASSUME NEW f \in line, Lose(f)
      PROVE  NodesInv'
  <2>1. MasterTypes' /\ SlotsInv' /\ asked' = asked /\ UNCHANGED slave
    BY <1>5, MasterQuiet DEF Lose
  <2>2. LineInv'
    BY <1>5, <2>1, LineQuiet DEF Lose
  <2> QED
    BY <1>s, <2>1, <2>2 DEF NodesInv
<1>6. CASE UNCHANGED vars
  <2>1. UNCHANGED masterVars /\ UNCHANGED slave /\ UNCHANGED lineVars
    BY <1>6 DEF vars
  <2>2. MasterTypes' /\ SlotsInv' /\ asked' = asked
    BY <2>1, MasterQuiet
  <2>3. LineInv'
    BY <2>1, <2>2, LineQuiet
  <2> QED
    BY <1>s, <2>1, <2>2, <2>3 DEF NodesInv
<1> QED
  BY <1>1, <1>2, <1>3, <1>4, <1>5, <1>6 DEF Next

LEMMA NodesInvariant == Spec => []NodesInv
BY NodesInit, NodesInductive, PTL DEF Spec
--------------------------------------------------------------------------------
(* What the nodes promise *)

\* The types of the nodes: sequence numbers stay below SeqIds, the clocks and
\* counters within their widths, and the line within its room.
THEOREM NodesTypeCorrect == Spec => []TypeOK
<1>1. NodesInv => TypeOK
  BY DEF NodesInv, MasterTypes, LineInv, LateInv, SlaveInv, TypeOK, Pending, Asked, SlaveRecord
<1> QED
  BY <1>1, NodesInvariant, PTL

\* get_pending_request() finds the active request of a number, although it looks
\* at free slots too and a number can be in several slots.
THEOREM NodesPendingIsFound == Spec => []PendingIsFound
BY FirstFound, NodesInvariant, PTL DEF NodesInv, SlotsInv

\* Two heartbeats of a slave are at least an interval apart, across every wrap of
\* its millisecond clock.
THEOREM NodesHeartbeatsSpaced == Spec => []HeartbeatsSpaced
<1>1. NodesInv => HeartbeatsSpaced
  BY DEF NodesInv, SlaveInv, Spaced, HeartbeatsSpaced
<1> QED
  BY <1>1, NodesInvariant, PTL

\* A response to a slave's address that is not late answers the request its number
\* was last given to, and that request is noted in an active slot as long as any slot
\* of the number is active: over losses, overtaking, refusals, timeouts and the wrap
\* of the numbers.
THEOREM NodesAnswersMatch == Spec => []AnswersMatch
<1>1. ASSUME LineInv, SlotsMatch, NEW f \in line \ late, f.from # MasterAddress,
             NEW h, h = ReadFrame(f).header, h.address # MasterAddress
      PROVE  /\ asked[h.seq_id] = AnsweredBy(h)
             /\ (\E i \in Slot : Bears(i, h.seq_id)) =>
                   \E i \in Slot : Bears(i, h.seq_id) /\ AnsweredBy(h) = Noted(i)
  <2>1. Told(f.from, h)
    BY <1>1 DEF LineInv, LateInv, Current
  <2>2. h.seq_id \in SeqId /\ asked[h.seq_id] = AnsweredBy(h)
    BY <1>1, <2>1 DEF Told, GivenTo
  <2>3. AnsweredBy(h) # NoRequest
    BY DEF AnsweredBy, RequestTo, NoRequest, StateRequestType, ExecuteType
  <2> QED
    BY <1>1, <2>2, <2>3, Zenon DEF SlotsMatch
<1>2. LineInv /\ SlotsMatch => AnswersMatch
  BY <1>1 DEF AnswersMatch, Bears, Noted
<1> QED
  BY <1>2, NodesInvariant, PTL DEF NodesInv, SlotsInv

\* Whatever a node puts on the line its receiver reads back: the header announces
\* the payload, and the deserializer of the kind takes it apart.
THEOREM NodesPacketsReadBack == Spec => []PacketsReadBack
<1>1. ASSUME LineInv, NEW f \in line
      PROVE  LET pkt == ReadFrame(f)
                 type == pkt.header.type
             IN /\ Frame(f.from, pkt) = f
                /\ Len(pkt.payload) = pkt.header.payload_len
                /\ type = StateResponseType =>
                      DeserializeStateResponse(pkt.payload, MaxSize).valid
                /\ type = CommandResponseType =>
                      DeserializeCommandResponse(pkt.payload, MaxSize).valid
                /\ type = HeartbeatType /\ f.from # MasterAddress =>
                      DeserializeHeartbeat(pkt.payload).valid
  <2>1. PICK pkt \in Packet : /\ f = Frame(f.from, pkt)
                              /\ f.from = MasterAddress => FromMaster(pkt)
                              /\ f.from # MasterAddress => FromSlave(pkt)
    BY <1>1 DEF LineInv, Sound
  <2>2. ReadFrame(f) = pkt
    BY <2>1, FrameRead
  <2>3. Len(pkt.payload) = pkt.header.payload_len /\ Len(pkt.payload) \in Nat
    BY PacketFacts
  <2> DEFINE n == Len(pkt.payload)
             type == pkt.header.type
  <2>4. FromMaster(pkt) => type \notin {StateResponseType, CommandResponseType}
    BY DEF FromMaster, StateRequestType, ExecuteType, AbortType, HeartbeatType,
           StateResponseType, CommandResponseType
  <2>5. /\ StateResponseType # CommandResponseType /\ StateResponseType # HeartbeatType
        /\ CommandResponseType # HeartbeatType
    BY DEF StateResponseType, CommandResponseType, HeartbeatType
  <2>6. /\ type = StateResponseType => n >= 1 /\ n <= MaxSize
        /\ type = CommandResponseType => n >= 2 /\ n <= MaxSize
        /\ type = HeartbeatType /\ f.from # MasterAddress => n = 3
    BY <2>1, <2>4, <2>5 DEF FromSlave
  <2> HIDE DEF n
  <2>n. n \in Nat /\ MaxSize \in Nat
    BY <2>3, PacketAssumption DEF n, KMaxPayloadSize
  <2>7. n >= 1 /\ n <= MaxSize => DeserializeStateResponse(pkt.payload, MaxSize).valid
    <3>1. n >= 1 /\ n <= MaxSize => ~(n < 1 \/ n - 1 > MaxSize)
      BY <2>n
    <3> QED
      BY <3>1 DEF DeserializeStateResponse, DeserializeData, n
  <2>8. n >= 2 /\ n <= MaxSize => DeserializeCommandResponse(pkt.payload, MaxSize).valid
    <3>1. n >= 2 /\ n <= MaxSize => ~(n < 2 \/ n - 2 > MaxSize)
      BY <2>n
    <3> QED
      BY <3>1 DEF DeserializeCommandResponse, DeserializeData, n
  <2>9. n = 3 => DeserializeHeartbeat(pkt.payload).valid
    <3>1. n = 3 => ~(n < 3)
      BY <2>n
    <3> QED
      BY <3>1 DEF DeserializeHeartbeat, n
  <2> QED
    BY <2>1, <2>2, <2>3, <2>6, <2>7, <2>8, <2>9, Zenon
<1>2. LineInv => PacketsReadBack
  BY <1>1, ValuesAreReadBack DEF PacketsReadBack
<1> QED
  BY <1>2, NodesInvariant, PTL DEF NodesInv
--------------------------------------------------------------------------------
(* The layer of messages that stands beside the nodes, on the same links:         *)
(* CommLayer.                                                                     *)

\* The messages of an inbox; messages of one sender have different numbers.
Of(box) == {box[i] : i \in 1 .. Len(box)}
Other(m, w) == m.n # w.n \/ m.source_id # w.source_id
Distinct(box) == \A i, j \in 1 .. Len(box) : i # j => Other(box[i], box[j])

\* m is one of the messages said, or answers one.
Genuine(m, sayings) ==
    LET r == sayings[m.n]
    IN m # r => /\ r.dest_id \in {Broadcast, m.source_id}
                /\ m.dest_id = r.source_id
                /\ \/ r.type = "kState_Request" /\ m.type = "kState_Update"
                   \/ r.type = "kCommand_Execute" /\ m.type = "kCommand_Response"

\* The inductive invariant, in parts, of what was said, what waits and what was heard.
LayerTypes(sayings, boxes, hears) ==
    /\ sayings \in Seq(Message)
    /\ boxes \in [Devices -> Seq(Message)]
    /\ hears \in [Devices -> SUBSET Message]
    /\ \A n \in 1 .. Len(sayings) : sayings[n].n = n

Reached(d, boxes, hears) == Of(boxes[d]) \cup hears[d]

\* No device gets a message of its own.
Origins(sayings, boxes, hears) ==
    \A d \in Devices : \A m \in Reached(d, boxes, hears) :
        m.n \in 1 .. Len(sayings) /\ m.source_id # d /\ Genuine(m, sayings)

AllOnce(boxes, hears) ==
    \A d \in Devices :
        /\ Distinct(boxes[d])
        /\ \A m \in Of(boxes[d]), h \in hears[d] : Other(m, h)

\* A device that has answered a message no longer has it in its inbox.
Gone(sayings, boxes, hears) ==
    \A d, e \in Devices : \A m \in Reached(e, boxes, hears), w \in Of(boxes[d]) :
        m.source_id = d /\ m.n = w.n => w # sayings[w.n]

LayerInv(sayings, boxes, hears) ==
    /\ LayerTypes(sayings, boxes, hears)
    /\ Origins(sayings, boxes, hears)
    /\ AllOnce(boxes, hears)
    /\ Gone(sayings, boxes, hears)

LEMMA BoxTail ==
    ASSUME NEW S, NEW s \in Seq(S), s # <<>>
    PROVE  /\ Tail(s) \in Seq(S)
           /\ Head(s) \in S /\ Head(s) \in Of(s)
           /\ Of(Tail(s)) \subseteq Of(s)
           /\ Distinct(s) => Distinct(Tail(s)) /\ \A w \in Of(Tail(s)) : Other(w, Head(s))
<1>1. /\ Len(s) \in Nat /\ 1 \in 1 .. Len(s)
      /\ Head(s) = s[1] /\ Head(s) \in S
      /\ Tail(s) \in Seq(S) /\ Len(Tail(s)) = Len(s) - 1
      /\ \A i \in 1 .. Len(Tail(s)) : Tail(s)[i] = s[i + 1]
  BY EmptySeq, HeadTailProperties
<1>2. \A i \in 1 .. Len(Tail(s)) : i + 1 \in 1 .. Len(s) /\ i + 1 # 1
  BY <1>1
<1>3. \A i, j \in 1 .. Len(Tail(s)) : i # j => i + 1 # j + 1
  BY <1>1
<1>4. Of(Tail(s)) \subseteq Of(s)
  BY <1>1, <1>2 DEF Of
<1>5. ASSUME Distinct(s) PROVE Distinct(Tail(s))
  BY <1>1, <1>2, <1>3, <1>5 DEF Distinct
<1>6. ASSUME Distinct(s), NEW w \in Of(Tail(s)) PROVE Other(w, Head(s))
  <2>1. PICK i \in 1 .. Len(Tail(s)) : w = s[i + 1]
    BY <1>1 DEF Of
  <2> QED
    BY <1>1, <1>2, <1>6, <2>1 DEF Distinct
<1> QED
  BY <1>1, <1>4, <1>5, <1>6 DEF Of

LEMMA BoxAppend ==
    ASSUME NEW S, NEW s \in Seq(S), NEW m \in S
    PROVE  /\ Append(s, m) \in Seq(S)
           /\ Of(Append(s, m)) = Of(s) \cup {m}
           /\ Distinct(s) /\ (\A w \in Of(s) : Other(w, m)) => Distinct(Append(s, m))
<1>1. /\ Len(s) \in Nat
      /\ Append(s, m) \in Seq(S) /\ Len(Append(s, m)) = Len(s) + 1
      /\ \A i \in 1 .. Len(s) : Append(s, m)[i] = s[i]
      /\ Append(s, m)[Len(s) + 1] = m
  BY AppendProperties
<1>2. /\ \A i \in 1 .. Len(s) + 1 : i \in 1 .. Len(s) \/ i = Len(s) + 1
      /\ \A i \in 1 .. Len(s) : i \in 1 .. Len(s) + 1
      /\ Len(s) + 1 \in 1 .. Len(s) + 1
  BY <1>1
<1>3. Of(Append(s, m)) = Of(s) \cup {m}
  BY <1>1, <1>2 DEF Of
<1>4. ASSUME Distinct(s), \A w \in Of(s) : Other(w, m),
             NEW i \in 1 .. Len(Append(s, m)), NEW j \in 1 .. Len(Append(s, m)), i # j
      PROVE  Other(Append(s, m)[i], Append(s, m)[j])
  <2>1. CASE i \in 1 .. Len(s) /\ j \in 1 .. Len(s)
    BY <1>1, <1>4, <2>1 DEF Distinct
  <2>2. CASE i \in 1 .. Len(s) /\ j = Len(s) + 1
    BY <1>1, <1>4, <2>2 DEF Of
  <2>3. CASE i = Len(s) + 1 /\ j \in 1 .. Len(s)
    BY <1>1, <1>4, <2>3 DEF Of, Other
  <2> QED
    BY <1>1, <1>2, <1>4, <2>1, <2>2, <2>3
<1> QED
  BY <1>1, <1>3, <1>4 DEF Distinct

\* Nothing new has reached anybody, and r no longer waits.
NoNews(boxes, hears, rest, hears2) ==
    \A e \in Devices : Reached(e, rest, hears2) \subseteq Reached(e, boxes, hears)
Without(box, r) == \A w \in Of(box) : w # r

\* A device takes the oldest message of its inbox, and its callback may hear it.
LEMMA LayerTaken ==
    ASSUME NEW sayings, NEW boxes, NEW hears, LayerInv(sayings, boxes, hears),
           NEW d \in Devices, boxes[d] # <<>>, NEW rest, NEW hears2,
           rest = [boxes EXCEPT ![d] = Tail(@)],
           hears2 \in {hears, [hears EXCEPT ![d] = @ \cup {Head(boxes[d])}]}
    PROVE  /\ LayerInv(sayings, rest, hears2)
           /\ Head(boxes[d]) \in Of(boxes[d])
           /\ Without(rest[d], Head(boxes[d]))
           /\ NoNews(boxes, hears, rest, hears2)
<1>t. LayerTypes(sayings, boxes, hears)
  BY DEF LayerInv
<1>1. /\ rest[d] = Tail(boxes[d])
      /\ \A e \in Devices : e # d => rest[e] = boxes[e]
      /\ \A e \in Devices : hears2[e] = hears[e] \/ (e = d /\ hears2[e] = hears[e] \cup {Head(boxes[d])})
  <2>1. /\ rest[d] = Tail(boxes[d])
        /\ \A e \in Devices : e # d => rest[e] = boxes[e]
    BY <1>t DEF LayerTypes
  <2>2. CASE hears2 = hears
    BY <2>1, <2>2
  <2>3. CASE hears2 = [hears EXCEPT ![d] = @ \cup {Head(boxes[d])}]
    BY <1>t, <2>1, <2>3 DEF LayerTypes
  <2> QED
    BY <2>2, <2>3
<1>2. boxes[d] \in Seq(Message)
  BY <1>t DEF LayerTypes
<1>3. Distinct(boxes[d])
  BY DEF LayerInv, AllOnce
<1>4. /\ rest[d] \in Seq(Message)
      /\ Head(boxes[d]) \in Message /\ Head(boxes[d]) \in Of(boxes[d])
      /\ Of(rest[d]) \subseteq Of(boxes[d])
      /\ Distinct(rest[d]) /\ \A w \in Of(rest[d]) : Other(w, Head(boxes[d]))
  BY <1>1, <1>2, <1>3, BoxTail
<1>5. \A e \in Devices : Of(rest[e]) \subseteq Of(boxes[e])
  BY <1>1, <1>4
<1>6. \A e \in Devices : Reached(e, rest, hears2) \subseteq Reached(e, boxes, hears)
  BY <1>1, <1>4, <1>5 DEF Reached
<1>7. LayerTypes(sayings, rest, hears2)
  BY <1>t, <1>4 DEF LayerTypes
<1>8. Origins(sayings, rest, hears2)
  BY <1>6 DEF LayerInv, Origins
<1>9. AllOnce(rest, hears2)
  <2>1. ASSUME NEW e \in Devices
        PROVE  /\ Distinct(rest[e])
               /\ \A m \in Of(rest[e]), h \in hears2[e] : Other(m, h)
    <3>1. \A m \in Of(rest[e]), h \in hears[e] : Other(m, h)
      BY <1>5 DEF LayerInv, AllOnce
    <3>2. Distinct(rest[e])
      BY <1>1, <1>4 DEF LayerInv, AllOnce
    <3> QED
      BY <1>1, <1>4, <3>1, <3>2
  <2> QED
    BY <2>1 DEF AllOnce
<1>10. Gone(sayings, rest, hears2)
  <2> SUFFICES ASSUME NEW c \in Devices, NEW e \in Devices,
                      NEW m \in Reached(e, rest, hears2), NEW w \in Of(rest[c]),
                      m.source_id = c, m.n = w.n
               PROVE  w # sayings[w.n]
    BY DEF Gone
  <2>1. m \in Reached(e, boxes, hears) /\ w \in Of(boxes[c])
    BY <1>5, <1>6
  <2> QED
    BY <2>1 DEF LayerInv, Gone
<1>11. \A w \in Of(rest[d]) : w # Head(boxes[d])
  BY <1>4 DEF Other
<1> QED
  BY <1>4, <1>6, <1>7, <1>8, <1>9, <1>10, <1>11 DEF LayerInv, NoNews, Without

\* A message reaches some devices other than its sender: it is the first of its
\* sender with this number, and what it answers its sender no longer has.
LEMMA LayerArrived ==
    ASSUME NEW sayings, NEW boxes, NEW hears, LayerInv(sayings, boxes, hears),
           NEW m \in Message, NEW boxes2 \in [Devices -> Seq(Message)],
           \A e \in Devices : \/ boxes2[e] = boxes[e]
                              \/ e # m.source_id /\ boxes2[e] = Append(boxes[e], m),
           m.n \in 1 .. Len(sayings), Genuine(m, sayings),
           \A e \in Devices : \A w \in Reached(e, boxes, hears) : Other(w, m),
           \A w \in Of(boxes[m.source_id]) : w.n = m.n => w # sayings[w.n],
           \/ m # sayings[m.n]
           \/ \A e \in Devices : \A w \in Reached(e, boxes, hears) : w.n # m.n
    PROVE  LayerInv(sayings, boxes2, hears)
<1>t. /\ LayerTypes(sayings, boxes, hears)
      /\ Origins(sayings, boxes, hears)
      /\ AllOnce(boxes, hears)
      /\ Gone(sayings, boxes, hears)
  BY DEF LayerInv
<1>1. m.source_id \in Devices
  BY DEF Message
<1>2. ASSUME NEW e \in Devices
      PROVE  /\ \/ Of(boxes2[e]) = Of(boxes[e])
                \/ e # m.source_id /\ Of(boxes2[e]) = Of(boxes[e]) \cup {m}
             /\ Distinct(boxes2[e])
  <2>1. /\ boxes[e] \in Seq(Message) /\ Distinct(boxes[e])
        /\ \A w \in Of(boxes[e]) : Other(w, m)
    BY <1>t DEF LayerTypes, AllOnce, Reached
  <2>2. /\ Of(Append(boxes[e], m)) = Of(boxes[e]) \cup {m}
        /\ Distinct(Append(boxes[e], m))
    BY <2>1, BoxAppend
  <2> QED
    BY <2>1, <2>2
<1>3. ASSUME NEW e \in Devices, NEW w \in Reached(e, boxes2, hears)
      PROVE  w \in Reached(e, boxes, hears) \/ (w = m /\ e # m.source_id)
  <2>1. w \in Of(boxes2[e]) \/ w \in hears[e]
    BY <1>3 DEF Reached
  <2>2. w \in Of(boxes2[e]) => w \in Of(boxes[e]) \/ (w = m /\ e # m.source_id)
    BY <1>2
  <2> QED
    BY <2>1, <2>2 DEF Reached
<1>4. LayerTypes(sayings, boxes2, hears)
  BY <1>t DEF LayerTypes
<1>5. Origins(sayings, boxes2, hears)
  BY <1>t, <1>3 DEF Origins
<1>6. ASSUME NEW e \in Devices, NEW w \in Of(boxes2[e]), NEW h \in hears[e]
      PROVE  Other(w, h)
  <2>1. CASE w \in Of(boxes[e])
    BY <1>t, <2>1 DEF AllOnce
  <2>2. CASE w = m
    <3>1. Other(h, m)
      BY DEF Reached
    <3> QED
      BY <2>2, <3>1 DEF Other
  <2> QED
    BY <1>2, <2>1, <2>2
<1>7. AllOnce(boxes2, hears)
  BY <1>2, <1>6 DEF AllOnce
<1>8. ASSUME NEW d \in Devices, NEW e \in Devices, NEW x \in Reached(e, boxes2, hears),
             NEW w \in Of(boxes2[d]), x.source_id = d, x.n = w.n
      PROVE  w # sayings[w.n]
  <2>1. CASE x = m
    <3>1. w \in Of(boxes[d])
      BY <1>2, <1>8, <2>1
    <3> QED
      BY <1>8, <2>1, <3>1
  <2>2. CASE x \in Reached(e, boxes, hears) /\ w = m
    BY <1>8, <2>2
  <2>3. CASE x \in Reached(e, boxes, hears) /\ w \in Of(boxes[d])
    BY <1>t, <1>8, <2>3 DEF Gone
  <2> QED
    BY <1>2, <1>3, <2>1, <2>2, <2>3
<1>9. Gone(sayings, boxes2, hears)
  BY <1>8 DEF Gone
<1> QED
  BY <1>4, <1>5, <1>7, <1>9 DEF LayerInv

\* An application says something new, which nobody has yet.
LEMMA LayerSaid ==
    ASSUME NEW sayings, NEW boxes, NEW hears, LayerInv(sayings, boxes, hears),
           NEW m \in Message, m.n = Len(sayings) + 1
    PROVE  /\ LayerInv(Append(sayings, m), boxes, hears)
           /\ m.n \in 1 .. Len(Append(sayings, m))
           /\ Append(sayings, m)[m.n] = m
           /\ \A e \in Devices : \A w \in Reached(e, boxes, hears) : w.n # m.n
<1>t. /\ LayerTypes(sayings, boxes, hears)
      /\ Origins(sayings, boxes, hears)
      /\ AllOnce(boxes, hears)
      /\ Gone(sayings, boxes, hears)
  BY DEF LayerInv
<1>1. sayings \in Seq(Message) /\ \A n \in 1 .. Len(sayings) : sayings[n].n = n
  BY <1>t DEF LayerTypes
<1>2. /\ Len(sayings) \in Nat
      /\ Append(sayings, m) \in Seq(Message)
      /\ Len(Append(sayings, m)) = Len(sayings) + 1
      /\ \A i \in 1 .. Len(sayings) : Append(sayings, m)[i] = sayings[i]
      /\ Append(sayings, m)[Len(sayings) + 1] = m
  BY <1>1, AppendProperties
<1>3. /\ \A i \in 1 .. Len(sayings) + 1 : i \in 1 .. Len(sayings) \/ i = Len(sayings) + 1
      /\ \A i \in 1 .. Len(sayings) : i \in 1 .. Len(sayings) + 1 /\ i # Len(sayings) + 1
      /\ Len(sayings) + 1 \in 1 .. Len(sayings) + 1
  BY <1>2
<1>4. LayerTypes(Append(sayings, m), boxes, hears)
  <2>1. ASSUME NEW n \in 1 .. Len(Append(sayings, m)) PROVE Append(sayings, m)[n].n = n
    BY <1>1, <1>2, <1>3
  <2> QED
    BY <1>t, <1>2, <2>1 DEF LayerTypes
<1>5. ASSUME NEW e \in Devices, NEW w \in Reached(e, boxes, hears)
      PROVE  /\ w.n # m.n /\ w.n \in 1 .. Len(Append(sayings, m))
             /\ Append(sayings, m)[w.n] = sayings[w.n]
             /\ w.source_id # e /\ Genuine(w, sayings)
  BY <1>t, <1>2, <1>3 DEF Origins
<1>6. Origins(Append(sayings, m), boxes, hears)
  BY <1>5 DEF Origins, Genuine
<1>7. Gone(Append(sayings, m), boxes, hears)
  <2>1. \A d \in Devices : \A w \in Of(boxes[d]) : Append(sayings, m)[w.n] = sayings[w.n]
    BY <1>5 DEF Reached
  <2> QED
    BY <1>t, <2>1 DEF Gone
<1> QED
  BY <1>t, <1>2, <1>3, <1>4, <1>5, <1>6, <1>7 DEF LayerInv

CommInv == CommTypeOK /\ LayerInv(said, inbox, heard)

\* send_message(): the message is behind what was in the box, or nothing is new.
LEMMA MessageSent ==
    ASSUME NEW d \in Devices, NEW m \in Message,
           NEW boxes \in [Devices -> Seq(Message)],
           \A e \in Devices : Len(boxes[e]) <= InboxSize,
           missed \in [Devices -> SUBSET Message],
           SendMessage(d, m, boxes)
    PROVE  /\ inbox' \in [Devices -> Seq(Message)]
           /\ \A e \in Devices : \/ inbox'[e] = boxes[e]
                                 \/ e # d /\ inbox'[e] = Append(boxes[e], m)
           /\ \A e \in Devices : Len(inbox'[e]) <= InboxSize
           /\ missed' \in [Devices -> SUBSET Message]
<1>1. PICK lost \in SUBSET (Devices \ {d}) :
          /\ Full(boxes) \ {d} \subseteq lost
          /\ inbox' = [e \in Devices |-> IF e = d \/ e \in lost THEN boxes[e] ELSE Append(boxes[e], m)]
          /\ missed' = [e \in Devices |-> IF e \in lost THEN missed[e] \cup {m} ELSE missed[e]]
  BY DEF SendMessage
<1>2. \A e \in Devices : Append(boxes[e], m) \in Seq(Message)
  BY BoxAppend
<1>3. ASSUME NEW e \in Devices
      PROVE  /\ inbox'[e] \in Seq(Message)
             /\ Len(inbox'[e]) <= InboxSize
  <2>1. CASE e = d \/ e \in lost
    BY <1>1, <2>1
  <2>2. CASE ~(e = d \/ e \in lost)
    <3>1. inbox'[e] = Append(boxes[e], m) /\ Len(boxes[e]) # InboxSize
      BY <1>1, <2>2 DEF Full
    <3>2. Len(Append(boxes[e], m)) = Len(boxes[e]) + 1 /\ Len(boxes[e]) \in Nat
      BY AppendProperties
    <3>3. InboxSize \in Nat
      BY CommAssumption
    <3> QED
      BY <1>2, <3>1, <3>2, <3>3
  <2> QED
    BY <2>1, <2>2
<1>4. inbox' \in [Devices -> Seq(Message)]
  BY <1>1, <1>2
<1>5. missed' \in [Devices -> SUBSET Message]
  BY <1>1
<1>6. ASSUME NEW e \in Devices
      PROVE  \/ inbox'[e] = boxes[e]
             \/ e # d /\ inbox'[e] = Append(boxes[e], m)
  BY <1>1
<1> QED
  BY <1>3, <1>4, <1>5, <1>6

LEMMA CommInitially == CommInit => CommInv
<1> SUFFICES ASSUME CommInit PROVE CommInv
  OBVIOUS
<1>1. /\ InboxSize \in Nat /\ MaxSends \in Nat
  BY CommAssumption
<1>2. Len(<<>>) = 0 /\ <<>> \in Seq(Message) /\ 1 .. 0 = {}
  OBVIOUS
<1>3. CommTypeOK
  BY <1>1, <1>2 DEF CommInit, CommTypeOK
<1>4. /\ said = <<>> /\ \A d \in Devices : inbox[d] = <<>> /\ heard[d] = {}
  BY DEF CommInit
<1>5. \A d \in Devices : Of(inbox[d]) = {} /\ Reached(d, inbox, heard) = {}
  BY <1>2, <1>4 DEF Of, Reached
<1>6. LayerTypes(said, inbox, heard)
  BY <1>2, <1>3, <1>4 DEF LayerTypes, CommTypeOK
<1>7. AllOnce(inbox, heard)
  BY <1>2, <1>4, <1>5 DEF AllOnce, Distinct
<1> QED
  BY <1>3, <1>5, <1>6, <1>7 DEF CommInv, LayerInv, Origins, Gone

LEMMA CommSend ==
    ASSUME CommInv, NEW d \in Devices,
           NEW dest \in (Devices \cup {Broadcast}) \ {d},
           NEW type \in Request \cup {"kState_Update"},
           Send(d, dest, type)
    PROVE  CommInv'
<1>1. PICK m : m = [source_id |-> d, dest_id |-> dest, type |-> type, n |-> Len(said) + 1]
  OBVIOUS
<1>2. PICK sayings, boxes, hears : sayings = said /\ boxes = inbox /\ hears = heard
  OBVIOUS
<1>3. /\ Len(said) < MaxSends
      /\ said' = Append(sayings, m) /\ SendMessage(d, m, boxes)
      /\ UNCHANGED <<is_initialized_, handlers, heard, executed>>
  BY <1>1, <1>2 DEF Send
<1>4. m \in Message /\ Len(said) + 1 <= MaxSends
  <2>1. Len(said) \in Nat /\ MaxSends \in Nat
    BY CommAssumption DEF CommInv, CommTypeOK
  <2>2. Len(said) + 1 \in 1 .. MaxSends
    BY <1>3, <2>1
  <2>3. type \in Request \cup Response
    BY DEF Response
  <2> QED
    BY <1>1, <2>2, <2>3 DEF Message
<1>5. /\ inbox' \in [Devices -> Seq(Message)]
      /\ \A e \in Devices : \/ inbox'[e] = boxes[e]
                            \/ e # d /\ inbox'[e] = Append(boxes[e], m)
      /\ \A e \in Devices : Len(inbox'[e]) <= InboxSize
      /\ missed' \in [Devices -> SUBSET Message]
  <2>1. /\ boxes \in [Devices -> Seq(Message)]
        /\ \A e \in Devices : Len(boxes[e]) <= InboxSize
        /\ missed \in [Devices -> SUBSET Message]
    BY <1>2 DEF CommInv, CommTypeOK
  <2> QED
    BY <1>3, <1>4, <2>1, MessageSent
<1>6. LayerInv(sayings, boxes, hears) /\ m.n = Len(sayings) + 1 /\ m.source_id = d
  BY <1>1, <1>2 DEF CommInv
<1>7. /\ LayerInv(Append(sayings, m), boxes, hears)
      /\ m.n \in 1 .. Len(Append(sayings, m))
      /\ Append(sayings, m)[m.n] = m
      /\ \A e \in Devices : \A w \in Reached(e, boxes, hears) : w.n # m.n
  BY <1>4, <1>6, LayerSaid
<1>8. LayerInv(said', inbox', hears)
  <2>1. Genuine(m, Append(sayings, m))
    BY <1>7 DEF Genuine
  <2>2. /\ \A e \in Devices : \A w \in Reached(e, boxes, hears) : Other(w, m)
        /\ \A w \in Of(boxes[m.source_id]) : w.n # m.n
    BY <1>6, <1>7 DEF Other, Reached
  <2> QED
    BY <1>3, <1>4, <1>5, <1>6, <1>7, <2>1, <2>2, LayerArrived
<1>9. CommTypeOK'
  <2>1. said' \in Seq(Message) /\ Len(said') = Len(said) + 1
    BY <1>2, <1>3, <1>4, AppendProperties DEF CommInv, CommTypeOK
  <2> QED
    BY <1>3, <1>4, <1>5, <2>1 DEF CommInv, CommTypeOK
<1> QED
  <2>1. LayerInv(said', inbox', heard')
    BY <1>2, <1>3, <1>8
  <2> QED
    BY <1>9, <2>1 DEF CommInv

LEMMA RestFits ==
    ASSUME CommTypeOK, NEW boxes, boxes = inbox,
           NEW d \in Devices, boxes[d] # <<>>,
           NEW rest, rest = [boxes EXCEPT ![d] = Tail(@)]
    PROVE  /\ rest \in [Devices -> Seq(Message)]
           /\ \A e \in Devices : Len(rest[e]) <= InboxSize
<1>1. boxes \in [Devices -> Seq(Message)] /\ \A e \in Devices : Len(boxes[e]) <= InboxSize
  BY DEF CommTypeOK
<1>2. /\ Tail(boxes[d]) \in Seq(Message)
      /\ Len(Tail(boxes[d])) = Len(boxes[d]) - 1 /\ Len(boxes[d]) \in Nat
  BY <1>1, EmptySeq, HeadTailProperties
<1>3. Len(Tail(boxes[d])) <= InboxSize
  <2>1. InboxSize \in Nat /\ Len(boxes[d]) <= InboxSize
    BY <1>1, CommAssumption
  <2> QED
    BY <1>2, <2>1
<1>4. rest[d] = Tail(boxes[d]) /\ \A e \in Devices : e # d => rest[e] = boxes[e]
  BY <1>1
<1>5. rest \in [Devices -> Seq(Message)]
  BY <1>1, <1>2
<1> QED
  BY <1>1, <1>3, <1>4, <1>5

\* A device takes a message, and nothing is answered.
LEMMA CommTake ==
    ASSUME CommInv, NEW d \in Devices, Ignore(d) \/ Hear(d)
    PROVE  CommInv'
<1>1. PICK sayings, boxes, hears : sayings = said /\ boxes = inbox /\ hears = heard
  OBVIOUS
<1>2. PICK rest, hears2 : /\ rest = [boxes EXCEPT ![d] = Tail(@)]
                          /\ hears2 = heard'
  OBVIOUS
<1>3. /\ boxes[d] # <<>> /\ inbox' = rest
      /\ hears2 \in {hears, [hears EXCEPT ![d] = @ \cup {Head(boxes[d])}]}
      /\ UNCHANGED <<is_initialized_, handlers, said, executed, missed>>
  BY <1>1, <1>2 DEF Ignore, Hear, Poll, Rest, CallBack, Received
<1>4. LayerInv(sayings, boxes, hears)
  BY <1>1 DEF CommInv
<1>5. LayerInv(sayings, rest, hears2)
  BY <1>2, <1>3, <1>4, LayerTaken
<1>6. LayerInv(said', inbox', heard')
  BY <1>1, <1>2, <1>3, <1>5
<1>7. \A e \in Devices : Len(inbox'[e]) <= InboxSize
  <2>1. \A e \in Devices : Len(rest[e]) <= InboxSize
    BY <1>1, <1>2, <1>3, RestFits DEF CommInv
  <2> QED
    BY <1>3, <2>1
<1>8. CommTypeOK'
  BY <1>3, <1>6, <1>7 DEF CommInv, CommTypeOK, LayerInv, LayerTypes
<1> QED
  BY <1>6, <1>8 DEF CommInv

\* The answer to the message a device takes is one of the type that belongs to it.
LEMMA CommAnswer ==
    ASSUME CommInv, NEW d \in Devices,
           AnswerState(d) \/ AnswerCommand(d)
    PROVE  CommInv'
<1>1. PICK sayings, boxes, hears : sayings = said /\ boxes = inbox /\ hears = heard
  OBVIOUS
<1>2. PICK rest, hears2, r : /\ rest = [boxes EXCEPT ![d] = Tail(@)]
                             /\ hears2 = heard'
                             /\ r = Head(boxes[d])
  OBVIOUS
<1>3. PICK type \in {"kState_Update", "kCommand_Response"} :
         /\ boxes[d] # <<>>
         /\ IsFor(d, r)
         /\ \/ r.type = "kState_Request" /\ type = "kState_Update"
            \/ r.type = "kCommand_Execute" /\ type = "kCommand_Response"
         /\ hears2 \in {hears, [hears EXCEPT ![d] = @ \cup {Head(boxes[d])}]}
         /\ SendMessage(d, Answer(d, r, type), rest)
         /\ executed' \in {executed, [executed EXCEPT ![d] = @ \cup {r.n}]}
         /\ d \in is_initialized_
         /\ UNCHANGED <<is_initialized_, handlers, said>>
  BY <1>1, <1>2 DEF AnswerState, AnswerCommand, Poll, Rest,
                    CallBack, Received
<1>4. PICK m : m = Answer(d, r, type)
  OBVIOUS
<1>t. CommTypeOK
  BY DEF CommInv
<1>5. LayerInv(sayings, boxes, hears)
  BY <1>1 DEF CommInv
<1>6. /\ LayerInv(sayings, rest, hears2)
      /\ r \in Of(boxes[d])
      /\ \A w \in Of(rest[d]) : w # r
      /\ \A e \in Devices : Reached(e, rest, hears2) \subseteq Reached(e, boxes, hears)
  <2>1. /\ boxes[d] # <<>>
        /\ hears2 \in {hears, [hears EXCEPT ![d] = @ \cup {Head(boxes[d])}]}
    BY <1>3
  <2>2. rest = [boxes EXCEPT ![d] = Tail(@)] /\ r = Head(boxes[d])
    BY <1>2
  <2>3. /\ LayerInv(sayings, rest, hears2)
        /\ Head(boxes[d]) \in Of(boxes[d])
        /\ Without(rest[d], Head(boxes[d]))
        /\ NoNews(boxes, hears, rest, hears2)
    BY <1>5, <2>1, <2>2, LayerTaken
  <2> QED
    BY <2>2, <2>3 DEF NoNews, Without
<1>7. /\ r \in Message /\ r.n \in 1 .. Len(sayings)
      /\ r.source_id # d /\ Genuine(r, sayings)
  <2>1. r \in Reached(d, boxes, hears)
    BY <1>6 DEF Reached
  <2>2. r.n \in 1 .. Len(sayings) /\ r.source_id # d /\ Genuine(r, sayings)
    BY <1>5, <2>1 DEF LayerInv, Origins
  <2>3. boxes[d] \in Seq(Message)
    BY <1>5 DEF LayerInv, LayerTypes
  <2> QED
    BY <1>2, <1>3, <2>2, <2>3, HeadTailProperties
<1>8. r = sayings[r.n]
  BY <1>3, <1>7 DEF Genuine
<1>9. /\ m.source_id = d /\ m.dest_id = r.source_id /\ m.type = type /\ m.n = r.n
      /\ m \in Message
  <2>1. type \in Request \cup Response /\ r.source_id \in Devices /\ r.n \in 1 .. MaxSends
    BY <1>7 DEF Response, Message
  <2>2. m = [source_id |-> d, dest_id |-> r.source_id, type |-> type, n |-> r.n]
    BY <1>4 DEF Answer
  <2> QED
    BY <2>1, <2>2 DEF Message
<1>10. /\ Genuine(m, sayings) /\ m # sayings[m.n]
  BY <1>3, <1>7, <1>8, <1>9 DEF Genuine, IsFor
<1>11. ASSUME NEW e \in Devices, NEW w \in Reached(e, rest, hears2)
       PROVE  Other(w, m)
  <2>1. w \in Reached(e, boxes, hears)
    BY <1>6
  <2>2. w.source_id = d /\ w.n = r.n => r # sayings[r.n]
    BY <1>5, <1>6, <2>1 DEF LayerInv, Gone
  <2> QED
    BY <1>8, <1>9, <2>2 DEF Other
<1>12. \A w \in Of(rest[m.source_id]) : w.n = m.n => w # sayings[w.n]
  BY <1>6, <1>8, <1>9
<1>13. /\ rest \in [Devices -> Seq(Message)]
       /\ \A e \in Devices : Len(rest[e]) <= InboxSize
  BY <1>t, <1>1, <1>2, <1>3, RestFits
<1>14. /\ inbox' \in [Devices -> Seq(Message)]
       /\ \A e \in Devices : \/ inbox'[e] = rest[e]
                             \/ e # d /\ inbox'[e] = Append(rest[e], m)
       /\ \A e \in Devices : Len(inbox'[e]) <= InboxSize
       /\ missed' \in [Devices -> SUBSET Message]
  <2>1. missed \in [Devices -> SUBSET Message] /\ SendMessage(d, m, rest)
    BY <1>t, <1>3, <1>4 DEF CommTypeOK
  <2>2. m \in Message
    BY <1>9
  <2> QED
    BY <1>13, <2>1, <2>2, MessageSent
<1>15. LayerInv(sayings, inbox', hears2)
  BY <1>6, <1>7, <1>9, <1>10, <1>11, <1>12, <1>14, LayerArrived
<1>16. LayerInv(said', inbox', heard')
  BY <1>1, <1>2, <1>3, <1>15
<1>17. /\ executed' \in [Devices -> SUBSET (1 .. MaxSends)]
       /\ \A e \in Devices : executed'[e] # {} => e \in is_initialized_
  <2>1. r.n \in 1 .. MaxSends
    BY <1>7 DEF Message
  <2>2. CASE executed' = executed
    BY <1>t, <2>2 DEF CommTypeOK
  <2>3. CASE executed' = [executed EXCEPT ![d] = @ \cup {r.n}]
    BY <1>t, <1>3, <2>1, <2>3 DEF CommTypeOK
  <2> QED
    BY <1>3, <2>2, <2>3
<1>18. CommTypeOK'
  BY <1>t, <1>3, <1>14, <1>16, <1>17 DEF CommTypeOK, LayerInv, LayerTypes
<1> QED
  BY <1>16, <1>18 DEF CommInv

LEMMA CommInductive ==
    ASSUME CommInv, [CommNext]_commVars
    PROVE  CommInv'
<1>1. CASE UNCHANGED commVars
  BY <1>1 DEF CommInv, CommTypeOK, commVars, LayerInv, LayerTypes, Origins, AllOnce,
              Gone, Reached
<1>2. ASSUME NEW d \in Devices, NEW hs \in Setups[d], Start(d, hs) PROVE CommInv'
  <2>1. /\ is_initialized_' = is_initialized_ \cup {d}
        /\ handlers' = [handlers EXCEPT ![d] = hs]
        /\ UNCHANGED <<inbox, said, heard, executed, missed>>
    BY <1>2 DEF Start
  <2>2. hs \subseteq Handler
    BY CommAssumption DEF Handler
  <2>3. CommTypeOK'
    BY <2>1, <2>2 DEF CommInv, CommTypeOK
  <2>4. LayerInv(said, inbox, heard)'
    <3>1. PICK sayings, boxes, hears : sayings = said /\ boxes = inbox /\ hears = heard
      OBVIOUS
    <3>2. LayerInv(sayings, boxes, hears)
      BY <3>1 DEF CommInv
    <3>3. sayings = said' /\ boxes = inbox' /\ hears = heard'
      BY <2>1, <3>1
    <3> QED
      BY <3>2, <3>3
  <2> QED
    BY <2>3, <2>4 DEF CommInv
<1>3. ASSUME NEW d \in Devices, NEW dest \in (Devices \cup {Broadcast}) \ {d},
             NEW type \in Request \cup {"kState_Update"}, Send(d, dest, type)
      PROVE  CommInv'
  BY <1>3, CommSend
<1>4. ASSUME NEW d \in Devices, Ignore(d) \/ Hear(d) PROVE CommInv'
  BY <1>4, CommTake
<1>5. ASSUME NEW d \in Devices, AnswerState(d) \/ AnswerCommand(d) PROVE CommInv'
  BY <1>5, CommAnswer
<1> QED
  BY <1>1, <1>2, <1>3, <1>4, <1>5 DEF CommNext

LEMMA CommInvariant == CommSpec => []CommInv
BY CommInitially, CommInductive, PTL DEF CommSpec

\* The types of CommLayer; an inbox never holds more than the adapter has room for.
THEOREM CommTypeCorrect == CommSpec => []CommTypeOK
<1>1. CommInv => CommTypeOK
  BY DEF CommInv
<1> QED
  BY <1>1, CommInvariant, PTL

\* However many devices there are, and whichever messages each of them misses: what is
\* not a message of an application comes from a device that was asked, goes to the one
\* that asked and is of the type that belongs to the request.
THEOREM CommAnswersWhatWasAsked ==
    CommSpec => []AnswersWhatWasAsked
<1>1. CommInv => AnswersWhatWasAsked
  BY DEF CommInv, LayerInv, Origins, Genuine, Reached, Of,
         AnswersWhatWasAsked, IsAnswer, Waiting
<1> QED
  BY <1>1, CommInvariant, PTL

\* And no device is given a message twice, nor answers one twice.
THEOREM CommHeardOnce ==
    CommSpec => []HeardOnce
<1>1. CommInv => HeardOnce
  BY DEF CommInv, LayerInv, AllOnce, Distinct, Other, Of, HeardOnce, Waiting
<1> QED
  BY <1>1, CommInvariant, PTL
================================================================================
