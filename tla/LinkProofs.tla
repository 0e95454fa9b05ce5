------------------------------- MODULE LinkProofs ------------------------------
(***************************************************************************)
(* COBS reads back what it wrote, for every length of a block and every     *)
(* sequence of bytes; and with it the framing of IPCLink keeps its promises *)
(* for every buffer and every set of raw frames.                            *)
(*                                                                          *)
(* cobs_encode and cobs_decode are functions defined by recursion.  What is *)
(* said of them is proved by counting: a set of numbers that has the first  *)
(* and with each the next has them all.                                     *)
(***************************************************************************)
EXTENDS LinkCodec, SequenceTheorems, WellFoundedInduction, TLAPS

--------------------------------------------------------------------------------
(* Counting *)

LEMMA LeastNumber ==
    ASSUME NEW T, T \subseteq Nat, T # {}
    PROVE  \E x \in T : \A y \in T : x <= y
<1> DEFINE R == OpToRel(<, Nat)
<1>1. IsWellFoundedOn(R, Nat)
  BY NatLessThanWellFounded
<1>2. \A x, y \in Nat : <<x, y>> \in R <=> x < y
  BY DEF OpToRel
<1> HIDE DEF R
<1>3. PICK x \in T : \A y \in T : ~(<<y, x>> \in R)
  BY <1>1, WFMin
<1>4. ASSUME NEW y \in T
      PROVE  x <= y
  <2>1. x \in Nat /\ y \in Nat /\ ~(<<y, x>> \in R)
    BY <1>3
  <2> QED
    BY <1>2, <2>1
<1> QED
  BY <1>4

LEMMA CountingUp ==
    ASSUME NEW N \in Nat, NEW T, 0 \in T,
           \A n \in 0 .. N - 1 : n \in T => n + 1 \in T
    PROVE  0 .. N \subseteq T
<1> DEFINE missing == (0 .. N) \ T
<1> SUFFICES ASSUME missing # {} PROVE FALSE
  OBVIOUS
<1>1. PICK x \in missing : \A y \in missing : x <= y
  <2>1. missing \subseteq Nat
    OBVIOUS
  <2> HIDE DEF missing
  <2> QED
    BY <2>1, LeastNumber
<1>2. x \in 0 .. N /\ x \notin T /\ x # 0
  BY <1>1
<1>3. x - 1 \in 0 .. N - 1 /\ ~(x <= x - 1) /\ x - 1 \in 0 .. N /\ (x - 1) + 1 = x
  BY <1>2
<1>4. x - 1 \in T
  BY <1>1, <1>3
<1> QED
  BY <1>2, <1>3, <1>4

LEMMA CountingDown ==
    ASSUME NEW N \in Nat, NEW T, N \in T,
           \A n \in 0 .. N - 1 : n + 1 \in T => n \in T
    PROVE  0 .. N \subseteq T
<1> DEFINE U == {k \in 0 .. N : N - k \in T}
<1>1. 0 \in U
  OBVIOUS
<1>2. ASSUME NEW k \in 0 .. N - 1, k \in U
      PROVE  k + 1 \in U
  <2>1. /\ N - (k + 1) \in 0 .. N - 1 /\ (N - (k + 1)) + 1 = N - k
        /\ k + 1 \in 0 .. N
    OBVIOUS
  <2>2. N - k \in T
    BY <1>2
  <2> QED
    BY <2>1, <2>2
<1>3. 0 .. N \subseteq U
  <2> HIDE DEF U
  <2> QED
    BY <1>1, <1>2, CountingUp
<1>4. ASSUME NEW n \in 0 .. N
      PROVE  n \in T
  <2>1. N - n \in 0 .. N /\ N - (N - n) = n
    OBVIOUS
  <2>2. N - n \in U
    BY <1>3, <2>1
  <2> QED
    BY <2>1, <2>2
<1> QED
  BY <1>4

\* A function that computes each value from the one before exists, if each value
\* is one the next can be computed from.
Carried(f, N, base, steps) ==
    /\ f = [n \in 0 .. N |-> f[n]]
    /\ f[0] = base
    /\ \A n \in 1 .. N : f[n] = steps[n][f[n - 1]]

LEMMA CarriedOn ==
    ASSUME NEW N \in Nat, NEW S, NEW steps, NEW base \in S[0],
           \A n \in 1 .. N : \A s \in S[n - 1] : steps[n][s] \in S[n]
    PROVE  \E f : Carried(f, N, base, steps) /\ \A n \in 0 .. N : f[n] \in S[n]
<1> DEFINE Upto(n) == \E f : Carried(f, n, base, steps) /\ \A k \in 0 .. n : f[k] \in S[k]
           T == {n \in 0 .. N : Upto(n)}
<1>1. 0 \in T
  <2> DEFINE f == [k \in 0 .. 0 |-> base]
  <2>1. f[0] = base /\ f = [k \in 0 .. 0 |-> f[k]]
    OBVIOUS
  <2>2. Carried(f, 0, base, steps)
    BY <2>1 DEF Carried
  <2>3. \A k \in 0 .. 0 : f[k] \in S[k]
    BY <2>1
  <2> HIDE DEF f
  <2> QED
    BY <2>2, <2>3
<1>2. ASSUME NEW n \in 0 .. N - 1, n \in T
      PROVE  n + 1 \in T
  <2>1. PICK f : Carried(f, n, base, steps) /\ \A k \in 0 .. n : f[k] \in S[k]
    BY <1>2
  <2> DEFINE g == [k \in 0 .. n + 1 |-> IF k = n + 1 THEN steps[n + 1][f[n]] ELSE f[k]]
  <2>2. n \in Nat /\ n + 1 \in 1 .. N /\ n \in 0 .. n /\ n + 1 \in 0 .. N /\ (n + 1) - 1 = n
    OBVIOUS
  <2>3. steps[n + 1][f[n]] \in S[n + 1]
    BY <2>1, <2>2
  <2>4. ASSUME NEW k \in 0 .. n + 1
        PROVE  g[k] \in S[k]
    <3>1. k # n + 1 => k \in 0 .. n
      BY <2>2
    <3> QED
      BY <2>1, <2>3, <3>1
  <2>5. g[0] = base
    <3>1. 0 \in 0 .. n + 1 /\ 0 # n + 1
      BY <2>2
    <3> QED
      BY <2>1, <3>1 DEF Carried
  <2>6. ASSUME NEW k \in 1 .. n + 1
        PROVE  g[k] = steps[k][g[k - 1]]
    <3>1. /\ k \in 0 .. n + 1 /\ k - 1 \in 0 .. n + 1 /\ k - 1 # n + 1
          /\ (k = n + 1 => k - 1 = n) /\ (k # n + 1 => k \in 1 .. n)
      BY <2>2
    <3>2. g[k - 1] = f[k - 1]
      BY <3>1
    <3>3. CASE k = n + 1
      BY <3>1, <3>2, <3>3
    <3>4. CASE k # n + 1
      BY <2>1, <3>1, <3>2, <3>4 DEF Carried
    <3> QED
      BY <3>3, <3>4
  <2>7. g = [k \in 0 .. n + 1 |-> g[k]]
    OBVIOUS
  <2> HIDE DEF g
  <2>8. Carried(g, n + 1, base, steps)
    BY <2>5, <2>6, <2>7 DEF Carried
  <2> QED
    BY <2>2, <2>4, <2>8
<1>3. N \in T
  <2>1. N \in 0 .. N
    OBVIOUS
  <2> HIDE DEF T
  <2> QED
    BY <1>1, <1>2, <2>1, CountingUp
<1> QED
  BY <1>3
--------------------------------------------------------------------------------
(* cobs_encode *)

\* The bytes that occur: those of the frames, the codes among them.
Alphabet(S) == S \subseteq Nat /\ 1 .. Block + 1 \subseteq S

EncState(S) == [done : Seq(S \ {0}), run : Seq(S \ {0})]

\* The open block ends where r has been read to.
RunEnds(run, n, r) ==
    /\ Len(run) < Block /\ Len(run) <= n
    /\ \A j \in 1 .. Len(run) : run[j] = r[n - Len(run) + j]

\* Only a full block makes the encoding longer than what it encodes.
Stuffed(s, n) ==
    \E full \in Nat : /\ Len(s.done) + Len(s.run) = n + full
                     /\ full * Block + Len(s.run) <= n

\* The encoder after n bytes of r.
Encoded(s, n, r, S) == s \in EncState(S) /\ RunEnds(s.run, n, r) /\ Stuffed(s, n)

LEMMA CloseFacts ==
    ASSUME NEW S, Alphabet(S), NEW run \in Seq(S \ {0}), Len(run) <= Block
    PROVE  /\ Close(run) \in Seq(S \ {0})
           /\ Len(Close(run)) = Len(run) + 1
           /\ Close(run)[1] = Len(run) + 1
           /\ \A j \in 1 .. Len(run) : Close(run)[j + 1] = run[j]
<1> DEFINE m == Len(run)
           c == <<m + 1>>
<1>1. m \in Nat /\ Block \in Nat
  BY CobsAssumption
<1>2. m + 1 \in S \ {0}
  <2>1. m + 1 \in 1 .. Block + 1
    BY <1>1
  <2> QED
    BY <2>1 DEF Alphabet
<1> HIDE DEF m
<1>3. c \in Seq(S \ {0}) /\ Len(c) = 1 /\ c[1] = m + 1
  BY <1>2
<1>4. Close(run) = c \o run
  BY DEF Close, m
<1> HIDE DEF c
<1>5. /\ c \o run \in Seq(S \ {0}) /\ Len(c \o run) = 1 + m
      /\ \A i \in 1 .. 1 + m : (c \o run)[i] = IF i <= 1 THEN c[i] ELSE run[i - 1]
  <2>1. /\ c \o run \in Seq(S \ {0}) /\ Len(c \o run) = Len(c) + Len(run)
        /\ \A i \in 1 .. Len(c) + Len(run) :
              (c \o run)[i] = IF i <= Len(c) THEN c[i] ELSE run[i - Len(c)]
    BY <1>3, ConcatProperties
  <2>2. Len(run) = m
    BY DEF m
  <2> QED
    BY <1>3, <2>1, <2>2
<1>6. ASSUME NEW j \in 1 .. m
      PROVE  (c \o run)[j + 1] = run[j]
  <2>1. j + 1 \in 1 .. 1 + m /\ ~(j + 1 <= 1) /\ j + 1 - 1 = j
    BY <1>1
  <2> QED
    BY <1>5, <2>1
<1>7. 1 \in 1 .. 1 + m /\ 1 <= 1 /\ 1 + m = m + 1
  BY <1>1
<1>8. (c \o run)[1] = m + 1
  BY <1>3, <1>5, <1>7
<1> QED
  BY <1>4, <1>5, <1>6, <1>7, <1>8 DEF m

\* What cobs_encode does with a byte.
LEMMA EncodeByteCases ==
    ASSUME NEW S, NEW s \in EncState(S), NEW b
    PROVE  LET t == EncodeByte(s, b)
           IN \/ /\ b = 0
                 /\ t = [done |-> s.done \o Close(s.run), run |-> <<>>]
              \/ /\ b # 0 /\ Len(s.run) + 1 = Block
                 /\ t = [done |-> s.done \o Close(Append(s.run, b)), run |-> <<>>]
              \/ /\ b # 0 /\ Len(s.run) + 1 # Block
                 /\ t = [done |-> s.done, run |-> Append(s.run, b)]
BY DEF EncodeByte, EncState

LEMMA StartEncoded ==
    ASSUME NEW S, NEW r
    PROVE  Encoded([done |-> <<>>, run |-> <<>>], 0, r, S)
<1> DEFINE s == [done |-> <<>>, run |-> <<>>]
<1>1. s \in EncState(S) /\ Len(s.run) = 0 /\ Len(s.done) = 0
  BY DEF EncState
<1>2. Block \in Nat /\ 0 < Block
  BY CobsAssumption
<1>3. 0 + 0 = 0 + 0 /\ 0 * Block + 0 <= 0 /\ 0 \in Nat /\ 0 <= 0
  BY <1>2
<1>4. 1 .. 0 = {}
  OBVIOUS
<1> QED
  BY <1>1, <1>2, <1>3, <1>4 DEF Encoded, RunEnds, Stuffed

\* A block that is closed at byte n + 1 of r, with the byte in it or not.
LEMMA BlockClosed ==
    ASSUME NEW S, Alphabet(S), NEW s \in EncState(S), NEW run \in Seq(S \ {0}), NEW r,
           Len(run) <= Block, NEW n \in Nat, NEW k \in Nat,
           Len(s.done) + Len(run) + 1 = n + 1 + k, k * Block <= n + 1
    PROVE  Encoded([done |-> s.done \o Close(run), run |-> <<>>], n + 1, r, S)
<1> DEFINE t == [done |-> s.done \o Close(run), run |-> <<>>]
           d == Len(s.done)
<1>1. Close(run) \in Seq(S \ {0}) /\ Len(Close(run)) = Len(run) + 1
  BY CloseFacts
<1>2. s.done \in Seq(S \ {0}) /\ d \in Nat /\ Len(run) \in Nat
  BY DEF EncState
<1>3. /\ s.done \o Close(run) \in Seq(S \ {0})
      /\ Len(s.done \o Close(run)) = d + (Len(run) + 1)
  <2>1. /\ s.done \o Close(run) \in Seq(S \ {0})
        /\ Len(s.done \o Close(run)) = Len(s.done) + Len(Close(run))
    BY <1>1, <1>2, ConcatProperties
  <2> QED
    BY <1>1, <2>1
<1>4. t \in EncState(S) /\ Len(t.run) = 0 /\ Len(t.done) = d + (Len(run) + 1)
  BY <1>3 DEF EncState
<1>5. Block \in Nat /\ 0 < Block
  BY CobsAssumption
<1> HIDE DEF t
<1>6. d + (Len(run) + 1) + 0 = n + 1 + k
  <2>1. d + Len(run) + 1 = n + 1 + k
    OBVIOUS
  <2> HIDE DEF d
  <2> QED
    BY <1>2, <2>1
<1>7. k * Block + 0 <= n + 1
  <2>1. k * Block \in Nat
    BY <1>5
  <2> QED
    BY <2>1
<1>8. 0 <= n + 1 /\ 1 .. 0 = {}
  OBVIOUS
<1>9. Encoded(t, n + 1, r, S)
  BY <1>4, <1>5, <1>6, <1>7, <1>8 DEF Encoded, RunEnds, Stuffed
<1> QED
  BY <1>9 DEF t

LEMMA ByteEncoded ==
    ASSUME NEW S, Alphabet(S), NEW r \in Seq(S), NEW n \in 0 .. Len(r) - 1,
           NEW s, Encoded(s, n, r, S)
    PROVE  Encoded(EncodeByte(s, r[n + 1]), n + 1, r, S)
<1> DEFINE b == r[n + 1]
           m == Len(s.run)
           d == Len(s.done)
<1>1. /\ s \in EncState(S) /\ s.run \in Seq(S \ {0})
      /\ m < Block /\ m <= n /\ m \in Nat /\ d \in Nat
      /\ \A j \in 1 .. m : s.run[j] = r[n - m + j]
  BY DEF Encoded, EncState, RunEnds
<1>2. n \in Nat /\ Block \in Nat /\ b \in S
  <2>1. n + 1 \in 1 .. Len(r)
    OBVIOUS
  <2> QED
    BY <2>1, CobsAssumption, ElementOfSeq
<1>3. PICK full \in Nat : d + m = n + full /\ full * Block + m <= n
  BY DEF Encoded, Stuffed
<1>4. full * Block \in Nat
  BY <1>2
<1>5. CASE b = 0
  <2>1. d + m + 1 = n + 1 + full /\ full * Block <= n + 1 /\ m <= Block
    <3> HIDE DEF m, d
    <3> QED
      BY <1>1, <1>2, <1>3, <1>4
  <2>2. EncodeByte(s, b) = [done |-> s.done \o Close(s.run), run |-> <<>>]
    BY <1>1, <1>5, EncodeByteCases
  <2> QED
    BY <1>1, <1>2, <2>1, <2>2, BlockClosed
<1> DEFINE run == Append(s.run, b)
<1>6. ASSUME b # 0
      PROVE  /\ run \in Seq(S \ {0}) /\ Len(run) = m + 1 /\ run[m + 1] = b
             /\ \A j \in 1 .. m : run[j] = s.run[j]
  <2>1. b \in S \ {0}
    BY <1>2, <1>6
  <2> QED
    BY <1>1, <2>1, AppendProperties
<1>7. CASE b # 0 /\ m + 1 = Block
  <2>1. (full + 1) * Block = full * Block + Block
    BY <1>2
  <2>2. d + (m + 1) + 1 = n + 1 + (full + 1) /\ full * Block + Block <= n + 1 /\ m + 1 <= Block
    <3> HIDE DEF m, d
    <3> QED
      BY <1>1, <1>2, <1>3, <1>4, <1>7
  <2>3. EncodeByte(s, b) = [done |-> s.done \o Close(run), run |-> <<>>]
    BY <1>1, <1>7, EncodeByteCases
  <2>4. full + 1 \in Nat /\ (full + 1) * Block <= n + 1
    BY <2>1, <2>2
  <2>5. Len(run) = m + 1 /\ run \in Seq(S \ {0})
    BY <1>6, <1>7
  <2>6. PICK k \in Nat : k = full + 1
    BY <2>4
  <2>7. Len(run) <= Block /\ Len(s.done) + Len(run) + 1 = n + 1 + k /\ k * Block <= n + 1
    BY <2>2, <2>4, <2>5, <2>6
  <2> HIDE DEF run, m, d, b
  <2>8. /\ Alphabet(S) /\ s \in EncState(S) /\ run \in Seq(S \ {0})
        /\ n \in Nat /\ k \in Nat
    BY <1>1, <1>2, <2>5, <2>6
  <2>9. Encoded([done |-> s.done \o Close(run), run |-> <<>>], n + 1, r, S)
    BY ONLY <2>7, <2>8, BlockClosed
  <2> QED
    BY <2>3, <2>9 DEF b
<1>8. CASE b # 0 /\ m + 1 # Block
  <2> DEFINE t == [done |-> s.done, run |-> run]
  <2>1. EncodeByte(s, b) = t
    BY <1>1, <1>8, EncodeByteCases
  <2>2. /\ t \in EncState(S) /\ t.run = run /\ Len(t.run) = m + 1 /\ Len(t.done) = d
    BY <1>1, <1>6, <1>8 DEF EncState
  <2>3. /\ m + 1 < Block /\ m + 1 <= n + 1 /\ d + (m + 1) = n + 1 + full
        /\ full * Block + (m + 1) <= n + 1
    <3> HIDE DEF m, d
    <3> QED
      BY <1>1, <1>2, <1>3, <1>4, <1>8
  <2>4. ASSUME NEW j \in 1 .. m + 1
        PROVE  run[j] = r[n + 1 - (m + 1) + j]
    <3>1. CASE j = m + 1
      <4>1. n + 1 - (m + 1) + j = n + 1
        BY <1>1, <1>2, <3>1
      <4> QED
        BY <1>6, <1>8, <3>1, <4>1
    <3>2. CASE j # m + 1
      <4>1. j \in 1 .. m /\ n + 1 - (m + 1) + j = n - m + j
        BY <1>1, <1>2, <3>2
      <4> QED
        BY <1>1, <1>6, <1>8, <4>1
    <3> QED
      BY <3>1, <3>2
  <2> HIDE DEF t, run
  <2>5. RunEnds(run, n + 1, r)
    <3>1. Len(run) = m + 1
      BY <2>2
    <3>2. \A j \in 1 .. Len(run) : run[j] = r[n + 1 - Len(run) + j]
      BY <2>4, <3>1
    <3>3. Len(run) < Block /\ Len(run) <= n + 1
      BY <2>3, <3>1
    <3> HIDE DEF m
    <3> QED
      BY <3>2, <3>3 DEF RunEnds
  <2>6. Stuffed(t, n + 1)
    BY <2>2, <2>3 DEF Stuffed
  <2>7. Encoded(t, n + 1, r, S)
    BY <2>2, <2>5, <2>6 DEF Encoded
  <2> QED
    BY <2>1, <2>7 DEF t
<1> QED
  BY <1>5, <1>7, <1>8

IsAfter(after, r) ==
    after = [n \in 0 .. Len(r) |-> IF n = 0 THEN [done |-> <<>>, run |-> <<>>]
                                   ELSE EncodeByte(after[n - 1], r[n])]

LEMMA AfterExists ==
    ASSUME NEW S, Alphabet(S), NEW r \in Seq(S)
    PROVE  \E after : IsAfter(after, r)
<1> DEFINE N == Len(r)
           In == [n \in 0 .. N |-> {s \in EncState(S) : Encoded(s, n, r, S)}]
           base == [done |-> <<>>, run |-> <<>>]
           steps == [n \in 1 .. N |-> [s \in EncState(S) |-> EncodeByte(s, r[n])]]
<1>1. N \in Nat
  OBVIOUS
<1>2. base \in In[0]
  <2>1. Encoded(base, 0, r, S) /\ 0 \in 0 .. N
    BY <1>1, StartEncoded
  <2> QED
    BY <2>1 DEF Encoded
<1>3. ASSUME NEW n \in 1 .. N, NEW s \in In[n - 1]
      PROVE  steps[n][s] \in In[n]
  <2>1. n - 1 \in 0 .. N - 1 /\ n - 1 \in 0 .. N /\ (n - 1) + 1 = n /\ n \in 0 .. N
    BY <1>1
  <2>2. s \in EncState(S) /\ Encoded(s, n - 1, r, S)
    BY <2>1
  <2>3. Encoded(EncodeByte(s, r[n]), n, r, S)
    <3> DEFINE k == n - 1
    <3>1. Encoded(EncodeByte(s, r[k + 1]), k + 1, r, S)
      <4>1. k \in 0 .. Len(r) - 1 /\ Encoded(s, k, r, S)
        BY <2>1, <2>2
      <4> HIDE DEF k
      <4> QED
        BY <4>1, ByteEncoded
    <3> QED
      BY <2>1, <3>1
  <2>4. EncodeByte(s, r[n]) \in EncState(S)
    BY <2>3 DEF Encoded
  <2> QED
    BY <2>1, <2>2, <2>3, <2>4
<1> HIDE DEF N, In
<1>4. PICK f : Carried(f, N, base, steps) /\ \A n \in 0 .. N : f[n] \in In[n]
  <2> HIDE DEF base, steps
  <2> QED
    BY <1>1, <1>2, <1>3, CarriedOn
<1>5. ASSUME NEW n \in 0 .. N
      PROVE  f[n] = IF n = 0 THEN base ELSE EncodeByte(f[n - 1], r[n])
  <2>1. CASE n = 0
    BY <1>4, <2>1 DEF Carried
  <2>2. CASE n # 0
    <3>1. n \in 1 .. N /\ n - 1 \in 0 .. N
      BY <1>1, <2>2
    <3>2. f[n - 1] \in EncState(S)
      BY <1>4, <3>1 DEF In
    <3>3. f[n] = steps[n][f[n - 1]]
      BY <1>4, <3>1 DEF Carried
    <3> QED
      BY <2>2, <3>1, <3>2, <3>3
  <2> QED
    BY <2>1, <2>2
<1>6. f = [n \in 0 .. N |-> IF n = 0 THEN base ELSE EncodeByte(f[n - 1], r[n])]
  <2>1. f = [n \in 0 .. N |-> f[n]]
    BY <1>4 DEF Carried
  <2> QED
    BY <1>5, <2>1
<1> QED
  BY <1>6 DEF IsAfter, N

\* The encoder is in a state that is right after every byte.
LEMMA AfterEncoded ==
    ASSUME NEW S, Alphabet(S), NEW r \in Seq(S), NEW after, IsAfter(after, r)
    PROVE  /\ after[0] = [done |-> <<>>, run |-> <<>>]
           /\ \A n \in 0 .. Len(r) : Encoded(after[n], n, r, S)
           /\ \A n \in 0 .. Len(r) - 1 : after[n + 1] = EncodeByte(after[n], r[n + 1])
<1> DEFINE N == Len(r)
           T == {n \in 0 .. N : Encoded(after[n], n, r, S)}
<1>1. N \in Nat
  OBVIOUS
<1>2. after[0] = [done |-> <<>>, run |-> <<>>]
  <2>1. 0 \in 0 .. Len(r)
    BY <1>1
  <2> QED
    BY <2>1 DEF IsAfter
<1>3. ASSUME NEW n \in 0 .. N - 1
      PROVE  after[n + 1] = EncodeByte(after[n], r[n + 1])
  <2>1. n + 1 \in 0 .. Len(r) /\ n + 1 # 0 /\ (n + 1) - 1 = n
    BY <1>1
  <2> QED
    BY <2>1 DEF IsAfter
<1>4. 0 \in T
  BY <1>1, <1>2, StartEncoded
<1>5. ASSUME NEW n \in 0 .. N - 1, n \in T
      PROVE  n + 1 \in T
  <2>1. Encoded(after[n], n, r, S) /\ n + 1 \in 0 .. N
    BY <1>1, <1>5
  <2>2. Encoded(EncodeByte(after[n], r[n + 1]), n + 1, r, S)
    BY <2>1, ByteEncoded
  <2> QED
    BY <1>3, <2>1, <2>2
<1>6. 0 .. N \subseteq T
  <2> HIDE DEF T, N
  <2> QED
    BY <1>1, <1>4, <1>5, CountingUp
<1> QED
  BY <1>2, <1>3, <1>6

LEMMA EncodeUnfolds ==
    ASSUME NEW S, Alphabet(S), NEW r \in Seq(S)
    PROVE  \E after : /\ IsAfter(after, r)
                      /\ Encode(r) = after[Len(r)].done \o Close(after[Len(r)].run)
BY AfterExists DEF Encode, IsAfter

\* The longest encoding of a frame is a number.
LEMMA LongestIsNat ==
    ASSUME NEW m \in Nat
    PROVE  LongestEncoding(m) \in Nat
<1>1. Block \in Nat /\ 0 < Block
  BY CobsAssumption
<1>2. m \div Block \in Nat
  BY <1>1
<1> QED
  BY <1>2 DEF LongestEncoding

\* An encoding is one byte longer than what it encodes, and one more for each full
\* block; it has no zero in it.
LEMMA EncodeFacts ==
    ASSUME NEW S, Alphabet(S), NEW r \in Seq(S)
    PROVE  /\ Encode(r) \in Seq(S \ {0})
           /\ Len(Encode(r)) \in Len(r) + 1 .. LongestEncoding(Len(r))
<1>1. PICK after : /\ IsAfter(after, r)
                   /\ Encode(r) = after[Len(r)].done \o Close(after[Len(r)].run)
  BY EncodeUnfolds
<1> DEFINE N == Len(r)
           s == after[N]
           d == Len(s.done)
           m == Len(s.run)
<1>2. N \in Nat /\ N \in 0 .. N
  OBVIOUS
<1>3. Encoded(s, N, r, S)
  BY <1>1, <1>2, AfterEncoded
<1>4. /\ s.done \in Seq(S \ {0}) /\ s.run \in Seq(S \ {0})
      /\ d \in Nat /\ m \in Nat /\ m < Block
  BY <1>3 DEF Encoded, EncState, RunEnds
<1>5. PICK full \in Nat : d + m = N + full /\ full * Block + m <= N
  BY <1>3 DEF Encoded, Stuffed
<1>6. Block \in Nat /\ 0 < Block
  BY CobsAssumption
<1>7. Close(s.run) \in Seq(S \ {0}) /\ Len(Close(s.run)) = m + 1
  <2>1. m <= Block
    BY <1>4, <1>6
  <2> QED
    BY <1>4, <2>1, CloseFacts
<1>8. Encode(r) \in Seq(S \ {0}) /\ Len(Encode(r)) = d + (m + 1)
  <2>1. /\ s.done \o Close(s.run) \in Seq(S \ {0})
        /\ Len(s.done \o Close(s.run)) = Len(s.done) + Len(Close(s.run))
    BY <1>4, <1>7, ConcatProperties
  <2> QED
    BY <1>1, <1>7, <2>1
<1> HIDE DEF N, m, d
<1>9. full <= N \div Block
  <2> DEFINE q == N \div Block
  <2>1. q \in Nat /\ N < q * Block + Block
    BY <1>2, <1>6
  <2> HIDE DEF q
  <2>2. full * Block < q * Block + Block
    <3>1. full * Block \in Nat /\ q * Block \in Nat
      BY <1>6, <2>1
    <3> QED
      BY <1>2, <1>4, <1>5, <1>6, <2>1, <3>1
  <2>3. ASSUME q + 1 <= full
        PROVE  FALSE
    <3>1. PICK e \in Nat : full = q + 1 + e
      <4>1. full - (q + 1) \in Nat /\ full = q + 1 + (full - (q + 1))
        BY <2>1, <2>3
      <4> QED
        BY <4>1
    <3>2. full * Block = q * Block + Block + e * Block /\ e * Block \in Nat /\ q * Block \in Nat
      BY <1>6, <2>1, <3>1
    <3> QED
      BY <1>6, <2>2, <3>2
  <2>4. full <= q
    BY <2>1, <2>3
  <2> QED
    BY <2>4 DEF q
<1>10. N \div Block \in Nat
  BY <1>2, <1>6
<1>11. d + (m + 1) \in N + 1 .. N + N \div Block + 1
  BY <1>2, <1>4, <1>5, <1>9, <1>10
<1> QED
  BY <1>8, <1>11 DEF LongestEncoding, N
--------------------------------------------------------------------------------
(* cobs_decode *)

\* What is decoded from position i on, by what is decoded further on.
DecodedAt(dec, enc, i) ==
    IF i > Len(enc) THEN {<<>>}
    ELSE LET next == i + enc[i]
             zero == IF enc[i] <= Block /\ next <= Len(enc) THEN <<0>> ELSE <<>>
         IN IF enc[i] = 0 \/ next > Len(enc) + 1 THEN {}
            ELSE {SubSeq(enc, i + 1, next - 1) \o zero \o rest : rest \in dec[next]}

IsDecoded(dec, enc, first) == dec = [i \in first .. Len(enc) + 1 |-> DecodedAt(dec, enc, i)]

\* A position looks at later ones only.
LEMMA DecodedLooksAhead ==
    ASSUME NEW enc \in Seq(Nat), NEW i \in 1 .. Len(enc) + 1, NEW f, NEW g,
           \A j \in i + 1 .. Len(enc) + 1 : f[j] = g[j]
    PROVE  DecodedAt(f, enc, i) = DecodedAt(g, enc, i)
<1> DEFINE next == i + enc[i]
<1>1. Len(enc) \in Nat
  OBVIOUS
<1>2. CASE i > Len(enc) \/ enc[i] = 0 \/ next > Len(enc) + 1
  BY <1>2 DEF DecodedAt
<1>3. CASE ~(i > Len(enc)) /\ enc[i] # 0 /\ ~(next > Len(enc) + 1)
  <2>1. enc[i] \in Nat
    <3>1. i \in 1 .. Len(enc)
      BY <1>1, <1>3
    <3> QED
      BY <3>1, ElementOfSeq
  <2>2. next \in i + 1 .. Len(enc) + 1
    BY <1>1, <1>3, <2>1
  <2>3. f[next] = g[next]
    BY <2>2
  <2> QED
    BY <1>3, <2>3 DEF DecodedAt
<1> QED
  BY <1>2, <1>3

LEMMA DecodedExists ==
    ASSUME NEW enc \in Seq(Nat)
    PROVE  \E dec : IsDecoded(dec, enc, 1)
<1> DEFINE L == Len(enc)
           T == {n \in 0 .. L : \E dec : IsDecoded(dec, enc, n + 1)}
<1>1. L \in Nat /\ L \in 0 .. L
  OBVIOUS
<1>2. L \in T
  <2> DEFINE f == [i \in L + 1 .. L + 1 |-> {<<>>}]
  <2>1. ASSUME NEW i \in L + 1 .. L + 1
        PROVE  DecodedAt(f, enc, i) = {<<>>}
    <3>1. i > Len(enc)
      BY <1>1
    <3> QED
      BY <3>1 DEF DecodedAt
  <2>2. f = [i \in L + 1 .. L + 1 |-> DecodedAt(f, enc, i)]
    BY <2>1
  <2> HIDE DEF f
  <2>3. IsDecoded(f, enc, L + 1)
    BY <2>2 DEF IsDecoded
  <2> QED
    BY <1>1, <2>3
<1>3. ASSUME NEW n \in 0 .. L - 1, n + 1 \in T
      PROVE  n \in T
  <2>1. PICK f : IsDecoded(f, enc, n + 2)
    <3>1. (n + 1) + 1 = n + 2
      BY <1>1
    <3>2. \E f : IsDecoded(f, enc, (n + 1) + 1)
      BY <1>3
    <3> QED
      BY <3>1, <3>2
  <2> DEFINE g == [i \in n + 1 .. L + 1 |-> IF i = n + 1 THEN DecodedAt(f, enc, i) ELSE f[i]]
  <2>2. ASSUME NEW i \in n + 1 .. L + 1
        PROVE  g[i] = DecodedAt(g, enc, i)
    <3>1. i \in 1 .. Len(enc) + 1
      BY <1>1
    <3>2. \A j \in i + 1 .. Len(enc) + 1 : g[j] = f[j]
      <4>1. \A j \in i + 1 .. L + 1 : j \in n + 1 .. L + 1 /\ j # n + 1
        BY <1>1
      <4> QED
        BY <4>1
    <3> HIDE DEF g
    <3>3. DecodedAt(g, enc, i) = DecodedAt(f, enc, i)
      BY <3>1, <3>2, DecodedLooksAhead
    <3>4. CASE i = n + 1
      BY <3>3, <3>4 DEF g
    <3>5. CASE i # n + 1
      <4>1. i \in n + 2 .. Len(enc) + 1
        BY <1>1, <3>5
      <4>2. f[i] = DecodedAt(f, enc, i)
        BY <2>1, <4>1 DEF IsDecoded
      <4> QED
        BY <3>3, <3>5, <4>2 DEF g
    <3> QED
      BY <3>4, <3>5
  <2>3. g = [i \in n + 1 .. L + 1 |-> DecodedAt(g, enc, i)]
    <3>1. g = [i \in n + 1 .. L + 1 |-> g[i]]
      OBVIOUS
    <3> HIDE DEF g
    <3> QED
      BY <2>2, <3>1
  <2> HIDE DEF g
  <2>4. IsDecoded(g, enc, n + 1)
    BY <2>3 DEF IsDecoded
  <2>5. n \in 0 .. L
    BY <1>1
  <2> QED
    BY <2>4, <2>5
<1>4. 0 \in T
  <2>1. 0 \in 0 .. L
    BY <1>1
  <2> HIDE DEF T, L
  <2> QED
    BY <1>1, <1>2, <1>3, <2>1, CountingDown
<1>5. 0 + 1 = 1
  OBVIOUS
<1> QED
  BY <1>4, <1>5

LEMMA DecodeUnfolds ==
    ASSUME NEW enc \in Seq(Nat), NEW size
    PROVE  \E dec : /\ IsDecoded(dec, enc, 1)
                    /\ Decode(enc, size) = {r \in dec[1] : r # <<>> /\ Len(r) <= size}
<1>1. \E dec : IsDecoded(dec, enc, 1)
  BY DecodedExists
<1> QED
  BY <1>1 DEF Decode, IsDecoded, DecodedAt

\* A block of these bytes is in the encoding at position i.
BlockAt(enc, i, run) ==
    /\ i + Len(run) <= Len(enc)
    /\ enc[i] = Len(run) + 1
    /\ \A j \in 1 .. Len(run) : enc[i + j] = run[j]

ZeroBehind(enc, i, run) ==
    IF Len(run) < Block /\ i + Len(run) + 1 <= Len(enc) THEN <<0>> ELSE <<>>

Before(piece, rests) == {piece \o rest : rest \in rests}

\* A block is read with the zero behind it, unless it is full or the last.
LEMMA BlockDecoded ==
    ASSUME NEW enc \in Seq(Nat), NEW dec, IsDecoded(dec, enc, 1),
           NEW run \in Seq(Nat), Len(run) <= Block,
           NEW i \in 1 .. Len(enc), BlockAt(enc, i, run)
    PROVE  dec[i] = Before(run \o ZeroBehind(enc, i, run), dec[i + Len(run) + 1])
<1> DEFINE m == Len(run)
           L == Len(enc)
           next == i + m + 1
           zero == IF m < Block /\ next <= L THEN <<0>> ELSE <<>>
<1>0. i + m <= L /\ enc[i] = m + 1 /\ \A j \in 1 .. m : enc[i + j] = run[j]
  BY DEF BlockAt
<1>1. m \in Nat /\ L \in Nat /\ Block \in Nat
  BY CobsAssumption
<1>2. /\ i + (m + 1) = next /\ ~(i > L) /\ m + 1 # 0 /\ ~(next > L + 1)
      /\ m + 1 <= Block <=> m < Block
  BY <1>0, <1>1
<1>3. SubSeq(enc, i + 1, next - 1) = run
  <2>1. next - 1 = i + m
    BY <1>1
  <2>2. \A k \in i + 1 .. i + m : enc[k] \in Nat
    <3>1. \A k \in i + 1 .. i + m : k \in 1 .. Len(enc)
      BY <1>0, <1>1
    <3> QED
      BY <3>1, ElementOfSeq
  <2>3. /\ SubSeq(enc, i + 1, i + m) \in Seq(Nat)
        /\ Len(SubSeq(enc, i + 1, i + m)) = IF i + 1 <= i + m THEN (i + m) - (i + 1) + 1 ELSE 0
        /\ \A j \in 1 .. (i + m) - (i + 1) + 1 : SubSeq(enc, i + 1, i + m)[j] = enc[(i + 1) + j - 1]
    <3>1. i + 1 \in Int /\ i + m \in Int
      BY <1>1
    <3> HIDE DEF m
    <3> QED
      BY <2>2, <3>1, SubSeqProperties
  <2>4. Len(SubSeq(enc, i + 1, i + m)) = m
    BY <1>1, <2>3
  <2>5. ASSUME NEW j \in 1 .. m
        PROVE  SubSeq(enc, i + 1, i + m)[j] = run[j]
    <3>1. (i + m) - (i + 1) + 1 = m /\ (i + 1) + j - 1 = i + j
      BY <1>1
    <3> QED
      BY <1>0, <2>3, <3>1
  <2> QED
    BY <2>1, <2>3, <2>4, <2>5, SeqEqual
<1>4. dec[i] = DecodedAt(dec, enc, i)
  <2>1. i \in 1 .. Len(enc) + 1
    BY <1>1
  <2> QED
    BY <2>1 DEF IsDecoded
<1>5. DecodedAt(dec, enc, i) = {run \o zero \o rest : rest \in dec[next]}
  <2>1. enc[i] = m + 1
    BY <1>0
  <2> HIDE DEF m, L
  <2> QED
    BY <1>2, <1>3, <2>1 DEF DecodedAt, L
<1> QED
  BY <1>4, <1>5 DEF ZeroBehind, Before
--------------------------------------------------------------------------------
(* Decode of Encode *)

Begins(enc, s) == Len(s) <= Len(enc) /\ \A j \in 1 .. Len(s) : enc[j] = s[j]

LEMMA BeginsWithBlock ==
    ASSUME NEW S, Alphabet(S), NEW enc, Len(enc) \in Nat, NEW done \in Seq(S \ {0}),
           NEW run \in Seq(S \ {0}), Len(run) <= Block, Begins(enc, done \o Close(run))
    PROVE  /\ Begins(enc, done)
           /\ BlockAt(enc, Len(done) + 1, run)
           /\ Len(done) + 1 + Len(run) <= Len(enc)
           /\ Len(done \o Close(run)) = Len(done) + 1 + Len(run)
<1> DEFINE d == Len(done)
           m == Len(run)
           s == done \o Close(run)
<1>1. d \in Nat /\ m \in Nat /\ Len(enc) \in Nat
  OBVIOUS
<1>2. /\ Close(run) \in Seq(S \ {0}) /\ Len(Close(run)) = m + 1 /\ Close(run)[1] = m + 1
      /\ \A j \in 1 .. m : Close(run)[j + 1] = run[j]
  BY CloseFacts
<1>3. Len(s) = d + (m + 1) /\ \A i \in 1 .. d + (m + 1) : s[i] = IF i <= d THEN done[i] ELSE Close(run)[i - d]
  <2>1. /\ Len(s) = Len(done) + Len(Close(run))
        /\ \A i \in 1 .. Len(done) + Len(Close(run)) :
              s[i] = IF i <= Len(done) THEN done[i] ELSE Close(run)[i - Len(done)]
    BY <1>2, ConcatProperties
  <2> QED
    BY <1>2, <2>1
<1>4. d + (m + 1) <= Len(enc) /\ \A i \in 1 .. d + (m + 1) : enc[i] = s[i]
  BY <1>3 DEF Begins
<1> HIDE DEF s, d, m
<1>5. ASSUME NEW j \in 1 .. d
      PROVE  enc[j] = done[j]
  <2>1. j \in 1 .. d + (m + 1) /\ j <= d
    BY <1>1
  <2> QED
    BY <1>1, <1>3, <1>4, <2>1
<1>6. enc[d + 1] = m + 1
  <2>1. d + 1 \in 1 .. d + (m + 1) /\ ~(d + 1 <= d) /\ d + 1 - d = 1
    BY <1>1
  <2>2. enc[d + 1] = Close(run)[d + 1 - d]
    BY <1>1, <1>3, <1>4, <2>1
  <2> QED
    BY <1>2, <2>1, <2>2
<1>7. ASSUME NEW j \in 1 .. m
      PROVE  enc[d + 1 + j] = run[j]
  <2>1. /\ d + 1 + j \in 1 .. d + (m + 1) /\ ~(d + 1 + j <= d) /\ d + 1 + j - d = j + 1
    BY <1>1
  <2>2. enc[d + 1 + j] = Close(run)[d + 1 + j - d]
    BY <1>1, <1>3, <1>4, <2>1
  <2> QED
    BY <1>2, <2>1, <2>2
<1>8. d <= Len(enc) /\ d + 1 + m <= Len(enc) /\ d + (m + 1) = d + 1 + m
  BY <1>1, <1>4
<1>9. Begins(enc, done)
  BY <1>5, <1>8 DEF Begins, d
<1>10. BlockAt(enc, d + 1, run)
  BY <1>6, <1>7, <1>8 DEF BlockAt, m
<1> QED
  BY <1>3, <1>8, <1>9, <1>10 DEF s, d, m

\* What is closed stays: the encoder writes behind it.
LEMMA ClosedStays ==
    ASSUME NEW S, Alphabet(S), NEW r \in Seq(S), NEW after, IsAfter(after, r),
           NEW enc, Len(enc) \in Nat, Begins(enc, after[Len(r)].done \o Close(after[Len(r)].run))
    PROVE  \A n \in 0 .. Len(r) :
              Begins(enc, after[n].done) /\ Len(after[n].done) < Len(enc)
<1> DEFINE N == Len(r)
           Stays(n) == Begins(enc, after[n].done) /\ Len(after[n].done) < Len(enc)
           T == {n \in 0 .. N : Stays(n)}
<1>1. N \in Nat /\ N \in 0 .. N
  OBVIOUS
<1>2. ASSUME NEW n \in 0 .. N
      PROVE  /\ after[n] \in EncState(S) /\ Len(after[n].run) < Block
             /\ after[n].done \in Seq(S \ {0}) /\ after[n].run \in Seq(S \ {0})
             /\ Len(after[n].done) \in Nat /\ Len(after[n].run) \in Nat
  <2>1. Encoded(after[n], n, r, S)
    BY AfterEncoded
  <2>2. after[n] \in EncState(S) /\ Len(after[n].run) < Block
    BY <2>1 DEF Encoded, RunEnds
  <2>3. after[n].done \in Seq(S \ {0}) /\ after[n].run \in Seq(S \ {0})
    BY <2>2 DEF EncState
  <2> QED
    BY <2>2, <2>3, LenProperties
<1>3. Block \in Nat
  BY CobsAssumption
<1>4. Len(enc) \in Nat
  OBVIOUS
\* A block behind what is closed
<1>5. ASSUME NEW n \in 0 .. N, NEW run \in Seq(S \ {0}), Len(run) <= Block,
             Begins(enc, after[n].done \o Close(run))
      PROVE  Stays(n)
  <2>1. after[n].done \in Seq(S \ {0}) /\ Len(after[n].done) \in Nat /\ Len(run) \in Nat
    BY <1>2
  <2> DEFINE done == after[n].done
  <2>2. Begins(enc, done) /\ Len(done) + 1 + Len(run) <= Len(enc)
    <3> HIDE DEF done
    <3> QED
      BY <1>4, <1>5, <2>1, BeginsWithBlock DEF done
  <2>3. Len(done) < Len(enc)
    <3>1. Len(done) \in Nat /\ Len(run) \in Nat
      BY <2>1
    <3> HIDE DEF done
    <3> QED
      BY <1>4, <2>2, <3>1
  <2> QED
    BY <2>2, <2>3
<1>6. N \in T
  <2>1. Len(after[N].run) <= Block /\ after[N].run \in Seq(S \ {0})
    BY <1>1, <1>2, <1>3
  <2>2. Begins(enc, after[N].done \o Close(after[N].run))
    OBVIOUS
  <2>3. Stays(N)
    <3> HIDE DEF N, Stays
    <3> QED
      BY <1>1, <1>5, <2>1, <2>2
  <2> QED
    BY <1>1, <2>3
<1>7. ASSUME NEW n \in 0 .. N - 1, n + 1 \in T
      PROVE  n \in T
  <2> DEFINE s == after[n]
             b == r[n + 1]
  <2>1. /\ n \in 0 .. N /\ n + 1 \in 0 .. N /\ s \in EncState(S) /\ Len(s.run) < Block
        /\ s.run \in Seq(S \ {0}) /\ Len(s.run) \in Nat
    BY <1>1, <1>2
  <2>2. after[n + 1] = EncodeByte(s, b)
    BY AfterEncoded
  <2>3. Begins(enc, after[n + 1].done) /\ Len(after[n + 1].done) < Len(enc)
    BY <1>7
  <2>4. CASE after[n + 1].done = s.done
    BY <2>1, <2>3, <2>4
  <2>5. CASE after[n + 1].done = s.done \o Close(s.run)
    <3>1. Len(s.run) <= Block
      BY <1>3, <2>1
    <3>2. Stays(n)
      <4> HIDE DEF Stays
      <4> QED
        BY <1>5, <2>1, <2>3, <2>5, <3>1
    <3> QED
      BY <2>1, <3>2
  <2>6. CASE b # 0 /\ Len(s.run) + 1 = Block /\ after[n + 1].done = s.done \o Close(Append(s.run, b))
    <3>1. b \in S \ {0}
      <4>1. n + 1 \in 1 .. Len(r)
        BY <1>1
      <4> QED
        BY <2>6, <4>1, ElementOfSeq
    <3>2. Append(s.run, b) \in Seq(S \ {0}) /\ Len(Append(s.run, b)) = Len(s.run) + 1
      BY <2>1, <3>1, AppendProperties
    <3>3. Len(Append(s.run, b)) <= Block
      BY <1>3, <2>6, <3>2
    <3>4. Stays(n)
      <4> HIDE DEF Stays
      <4> QED
        BY <1>5, <2>1, <2>3, <2>6, <3>2, <3>3
    <3> QED
      BY <2>1, <3>4
  <2>7. \/ after[n + 1].done = s.done
        \/ after[n + 1].done = s.done \o Close(s.run)
        \/ b # 0 /\ Len(s.run) + 1 = Block /\ after[n + 1].done = s.done \o Close(Append(s.run, b))
    <3> DEFINE t == after[n + 1]
    <3>1. \/ t = [done |-> s.done \o Close(s.run), run |-> <<>>]
          \/ /\ b # 0 /\ Len(s.run) + 1 = Block
             /\ t = [done |-> s.done \o Close(Append(s.run, b)), run |-> <<>>]
          \/ t = [done |-> s.done, run |-> Append(s.run, b)]
      <4> HIDE DEF s, b
      <4> QED
        BY <2>1, <2>2, EncodeByteCases
    <3> HIDE DEF s, b, t
    <3>2. ASSUME t = [done |-> s.done \o Close(s.run), run |-> <<>>]
          PROVE  t.done = s.done \o Close(s.run)
      BY <3>2
    <3>3. ASSUME t = [done |-> s.done \o Close(Append(s.run, b)), run |-> <<>>]
          PROVE  t.done = s.done \o Close(Append(s.run, b))
      BY <3>3
    <3>4. ASSUME t = [done |-> s.done, run |-> Append(s.run, b)]
          PROVE  t.done = s.done
      BY <3>4
    <3> QED
      BY <3>1, <3>2, <3>3, <3>4 DEF t
  <2> QED
    BY <2>4, <2>5, <2>6, <2>7
<1>8. 0 .. N \subseteq T
  <2> HIDE DEF T, N
  <2> QED
    BY <1>1, <1>6, <1>7, CountingDown
<1> QED
  BY <1>8

\* What is left of a frame, with a run in front of it that has been read before.
LEMMA PieceJoined ==
    ASSUME NEW S, NEW r \in Seq(S), NEW n \in 0 .. Len(r), NEW run \in Seq(S), Len(run) <= n,
           \A j \in 1 .. Len(run) : run[j] = r[n - Len(run) + j]
    PROVE  run \o SubSeq(r, n + 1, Len(r)) = SubSeq(r, n - Len(run) + 1, Len(r))
<1> DEFINE N == Len(r)
           m == Len(run)
           p == SubSeq(r, n + 1, N)
           q == SubSeq(r, n - m + 1, N)
<1>1. N \in Nat /\ m \in Nat /\ n \in Nat /\ m <= n /\ n <= N
  OBVIOUS
<1>2. \A i \in 1 .. N : r[i] \in S
  BY ElementOfSeq
<1>3. p \in Seq(S) /\ Len(p) = N - n /\ \A j \in 1 .. N - n : p[j] = r[n + j]
  <2>1. \A i \in n + 1 .. N : r[i] \in S
    BY <1>1, <1>2
  <2>2. n + 1 \in Int /\ N \in Int
    BY <1>1
  <2> HIDE DEF N, m
  <2>3. /\ p \in Seq(S)
        /\ Len(p) = IF n + 1 <= N THEN N - (n + 1) + 1 ELSE 0
        /\ \A j \in 1 .. N - (n + 1) + 1 : p[j] = r[(n + 1) + j - 1]
    BY <2>1, <2>2, SubSeqProperties
  <2> HIDE DEF p
  <2>4. Len(p) = N - n
    BY <1>1, <2>3
  <2>5. ASSUME NEW j \in 1 .. N - n
        PROVE  p[j] = r[n + j]
    <3>1. N - (n + 1) + 1 = N - n /\ (n + 1) + j - 1 = n + j
      BY <1>1
    <3> QED
      BY <2>3, <3>1
  <2> QED
    BY <2>3, <2>4, <2>5
<1>4. q \in Seq(S) /\ Len(q) = N - n + m /\ \A j \in 1 .. N - n + m : q[j] = r[n - m + j]
  <2>1. \A i \in n - m + 1 .. N : r[i] \in S
    BY <1>1, <1>2
  <2>2. n - m + 1 \in Int /\ N \in Int
    BY <1>1
  <2> HIDE DEF N, m
  <2>3. /\ q \in Seq(S)
        /\ Len(q) = IF n - m + 1 <= N THEN N - (n - m + 1) + 1 ELSE 0
        /\ \A j \in 1 .. N - (n - m + 1) + 1 : q[j] = r[(n - m + 1) + j - 1]
    BY <2>1, <2>2, SubSeqProperties
  <2> HIDE DEF q
  <2>4. Len(q) = N - n + m
    BY <1>1, <2>3
  <2>5. ASSUME NEW j \in 1 .. N - n + m
        PROVE  q[j] = r[n - m + j]
    <3>1. N - (n - m + 1) + 1 = N - n + m /\ (n - m + 1) + j - 1 = n - m + j
      BY <1>1
    <3> QED
      BY <2>3, <3>1
  <2> QED
    BY <2>3, <2>4, <2>5
<1> HIDE DEF p, q
<1>5. /\ run \o p \in Seq(S) /\ Len(run \o p) = m + Len(p)
      /\ \A i \in 1 .. m + Len(p) : (run \o p)[i] = IF i <= m THEN run[i] ELSE p[i - m]
  BY <1>3, ConcatProperties
<1>6. m + Len(p) = N - n + m
  BY <1>1, <1>3
<1>7. ASSUME NEW i \in 1 .. N - n + m
      PROVE  (run \o p)[i] = q[i]
  <2>1. CASE i <= m
    <3>1. i \in 1 .. m
      BY <1>1, <2>1
    <3> QED
      BY <1>4, <1>5, <1>6, <2>1, <3>1
  <2>2. CASE ~(i <= m)
    <3>1. i - m \in 1 .. N - n /\ n + (i - m) = n - m + i
      BY <1>1, <2>2
    <3> QED
      BY <1>3, <1>4, <1>5, <1>6, <2>2, <3>1
  <2> QED
    BY <2>1, <2>2
<1> HIDE DEF N, m
<1>8. run \o p = q
  BY <1>4, <1>5, <1>6, <1>7, SeqEqual
<1> QED
  BY <1>8 DEF p, q, N, m

\* What is left of r from the open block of s on, after n bytes
Left(s, n, r) == SubSeq(r, n - Len(s.run) + 1, Len(r))

IsEncoding(enc, s) ==
    Begins(enc, s.done \o Close(s.run)) /\ Len(enc) = Len(s.done) + 1 + Len(s.run)

\* At the position of every code byte the rest of the frame is read.
LEMMA RestDecoded ==
    ASSUME NEW S, Alphabet(S), NEW r \in Seq(S), NEW after, IsAfter(after, r),
           NEW enc \in Seq(Nat), IsEncoding(enc, after[Len(r)]),
           NEW dec, IsDecoded(dec, enc, 1)
    PROVE  \A n \in 0 .. Len(r) : dec[Len(after[n].done) + 1] = {Left(after[n], n, r)}
<1> DEFINE N == Len(r)
           L == Len(enc)
           T == {n \in 0 .. N : dec[Len(after[n].done) + 1] = {Left(after[n], n, r)}}
<1>1. N \in Nat /\ L \in Nat /\ N \in 0 .. N /\ Block \in Nat
  BY CobsAssumption
<1>2. Begins(enc, after[N].done \o Close(after[N].run)) /\ L = Len(after[N].done) + 1 + Len(after[N].run)
  BY DEF IsEncoding
<1>3. \A n \in 0 .. N : Begins(enc, after[n].done) /\ Len(after[n].done) < Len(enc)
  BY <1>1, <1>2, ClosedStays
<1>4. ASSUME NEW n \in 0 .. N
      PROVE  /\ after[n] \in EncState(S)
             /\ after[n].done \in Seq(S \ {0}) /\ after[n].run \in Seq(S \ {0})
             /\ Len(after[n].done) \in Nat /\ Len(after[n].run) \in Nat
             /\ Len(after[n].run) < Block /\ Len(after[n].run) <= Block
             /\ RunEnds(after[n].run, n, r)
  <2>1. Encoded(after[n], n, r, S)
    BY AfterEncoded
  <2>2. after[n] \in EncState(S) /\ Len(after[n].run) < Block /\ RunEnds(after[n].run, n, r)
    BY <2>1 DEF Encoded, RunEnds
  <2>3. after[n].done \in Seq(S \ {0}) /\ after[n].run \in Seq(S \ {0})
    BY <2>2 DEF EncState
  <2>4. Len(after[n].done) \in Nat /\ Len(after[n].run) \in Nat
    BY <2>3, LenProperties
  <2>5. Len(after[n].run) <= Block
    BY <1>1, <2>2, <2>4
  <2> QED
    BY <2>2, <2>3, <2>4, <2>5
\* The next block, whose bytes are closed
<1>5. ASSUME NEW n \in 0 .. N, NEW closed \in Seq(S \ {0}), Len(closed) <= Block,
             Begins(enc, after[n].done \o Close(closed))
      PROVE  /\ Len(after[n].done) + 1 \in 1 .. L
             /\ Len(after[n].done \o Close(closed)) = Len(after[n].done) + 1 + Len(closed)
             /\ dec[Len(after[n].done) + 1] =
                  Before(closed \o ZeroBehind(enc, Len(after[n].done) + 1, closed),
                         dec[Len(after[n].done) + 1 + Len(closed) + 1])
  <2> DEFINE done == after[n].done
             i == Len(done) + 1
  <2>1. done \in Seq(S \ {0}) /\ Begins(enc, done \o Close(closed)) /\ Len(done) \in Nat
    BY <1>4, <1>5
  <2> HIDE DEF done
  <2>2. /\ BlockAt(enc, i, closed) /\ i + Len(closed) <= Len(enc)
        /\ Len(done \o Close(closed)) = i + Len(closed)
    <3>1. Len(enc) \in Nat /\ Len(closed) <= Block
      BY <1>1, <1>5
    <3>2. BlockAt(enc, Len(done) + 1, closed)
      BY <2>1, <3>1, BeginsWithBlock
    <3>3. Len(done) + 1 + Len(closed) <= Len(enc)
      BY <2>1, <3>1, BeginsWithBlock
    <3>4. Len(done \o Close(closed)) = Len(done) + 1 + Len(closed)
      BY <2>1, <3>1, BeginsWithBlock
    <3> QED
      BY <3>2, <3>3, <3>4
  <2>3. closed \in Seq(Nat) /\ Len(closed) \in Nat
    <3>1. S \ {0} \subseteq Nat
      BY DEF Alphabet
    <3> QED
      BY <3>1
  <2>4. i \in 1 .. Len(enc)
    BY <1>1, <2>1, <2>2, <2>3
  <2> HIDE DEF i
  <2>5. dec[i] = Before(closed \o ZeroBehind(enc, i, closed), dec[i + Len(closed) + 1])
    BY <1>5, <2>2, <2>3, <2>4, BlockDecoded
  <2> QED
    BY <2>2, <2>4, <2>5 DEF i, done
<1>6. ASSUME NEW n \in 0 .. N
      PROVE  /\ Left(after[n], n, r) \in Seq(Nat)
             /\ after[n].run \o SubSeq(r, n + 1, Len(r)) = Left(after[n], n, r)
             /\ SubSeq(r, n + 1, Len(r)) \in Seq(Nat)
  <2> DEFINE run == after[n].run
  <2>1. r \in Seq(Nat) /\ run \in Seq(Nat) /\ RunEnds(run, n, r)
    <3>1. S \subseteq Nat /\ S \ {0} \subseteq Nat
      BY DEF Alphabet
    <3>2. r \in Seq(Nat)
      BY <3>1, SeqMonotonic
    <3>3. run \in Seq(S \ {0}) /\ RunEnds(run, n, r)
      BY <1>4
    <3> HIDE DEF run
    <3>4. run \in Seq(Nat)
      BY <3>1, <3>3, SeqMonotonic
    <3> QED
      BY <3>2, <3>3, <3>4
  <2> HIDE DEF run
  <2>2. run \o SubSeq(r, n + 1, Len(r)) = SubSeq(r, n - Len(run) + 1, Len(r))
    BY <2>1, PieceJoined DEF RunEnds
  <2>3. ASSUME NEW k \in 1 .. Len(r) + 1
        PROVE  SubSeq(r, k, Len(r)) \in Seq(Nat)
    <3>1. \A i \in k .. Len(r) : r[i] \in Nat
      <4>1. \A i \in k .. Len(r) : i \in 1 .. Len(r)
        BY <1>1
      <4> QED
        BY <2>1, <4>1, ElementOfSeq
    <3>2. k \in Int /\ Len(r) \in Int
      BY <1>1
    <3> QED
      BY <3>1, <3>2, SubSeqProperties
  <2>4. n - Len(run) + 1 \in 1 .. Len(r) + 1 /\ n + 1 \in 1 .. Len(r) + 1
    <3>1. Len(run) \in Nat /\ Len(run) <= n
      BY <2>1 DEF RunEnds
    <3> QED
      BY <1>1, <3>1
  <2> QED
    BY <2>2, <2>3, <2>4 DEF Left, run
\* The last block
<1>7. N \in T
  <2> DEFINE run == after[N].run
             i == Len(after[N].done) + 1
  <2>1. run \in Seq(S \ {0}) /\ Len(run) <= Block /\ Len(run) \in Nat /\ i \in Nat
    BY <1>1, <1>4
  <2>2. dec[i] = Before(run \o ZeroBehind(enc, i, run), dec[i + Len(run) + 1])
    <3> HIDE DEF N, run
    <3>1. Begins(enc, after[N].done \o Close(run))
      BY <1>2 DEF run
    <3> QED
      BY <1>1, <1>5, <2>1, <3>1
  <2>3. L = i + Len(run)
    BY <1>2
  <2> HIDE DEF i, run, L
  <2>4. ZeroBehind(enc, i, run) = <<>>
    <3>1. ~(i + Len(run) + 1 <= Len(enc))
      BY <2>1, <2>3 DEF L
    <3> QED
      BY <3>1 DEF ZeroBehind
  <2>5. dec[i + Len(run) + 1] = {<<>>}
    <3>1. L + 1 \in 1 .. Len(enc) + 1 /\ L + 1 > Len(enc)
      BY <1>1 DEF L
    <3>2. dec[L + 1] = DecodedAt(dec, enc, L + 1)
      BY <3>1 DEF IsDecoded
    <3> QED
      BY <2>3, <3>1, <3>2 DEF DecodedAt
  <2>6. run \in Seq(Nat)
    <3>1. S \ {0} \subseteq Nat
      BY DEF Alphabet
    <3> QED
      BY <2>1, <3>1
  <2>7. (run \o <<>>) \o <<>> = run
    BY <2>6, ConcatEmptySeq
  <2>8. dec[i] = {run}
    BY <2>2, <2>4, <2>5, <2>7 DEF Before
  <2>9. Left(after[N], N, r) = run
    <3>1. SubSeq(r, N + 1, Len(r)) = <<>>
      BY <1>1, SubSeqEmpty
    <3>2. run \o SubSeq(r, N + 1, Len(r)) = Left(after[N], N, r)
      <4> HIDE DEF N
      <4> QED
        BY <1>1, <1>6 DEF run
    <3> QED
      BY <2>6, <3>1, <3>2, ConcatEmptySeq
  <2> QED
    BY <1>1, <2>8, <2>9 DEF i
<1>8. ASSUME NEW n \in 0 .. N - 1, n + 1 \in T
      PROVE  n \in T
  <2> DEFINE s == after[n]
             t == after[n + 1]
             b == r[n + 1]
             run == s.run
             m == Len(run)
             i == Len(s.done) + 1
             rest == SubSeq(r, n + 2, Len(r))
  <2>1. /\ n \in 0 .. N /\ n + 1 \in 0 .. N /\ n \in Nat /\ (n + 1) + 1 = n + 2
        /\ n + 1 \in 1 .. Len(r)
    BY <1>1
  <2>2. /\ s \in EncState(S) /\ run \in Seq(S \ {0}) /\ m \in Nat /\ m < Block /\ m <= Block
        /\ i \in Nat /\ RunEnds(run, n, r)
    BY <1>4, <2>1
  <2>3. b \in S /\ b \in Nat
    BY <2>1, ElementOfSeq DEF Alphabet
  <2>4. dec[Len(t.done) + 1] = {Left(t, n + 1, r)}
    BY <1>8
  <2>5. Left(s, n, r) = SubSeq(r, n - m + 1, Len(r))
    BY DEF Left
  \* The byte comes behind the run and before the rest.
  <2>6. Append(run, b) \o rest = Left(s, n, r) /\ Append(run, b) \in Seq(Nat) /\ Len(Append(run, b)) = m + 1
    <3> DEFINE u == Append(run, b)
    <3>1. r \in Seq(Nat) /\ run \in Seq(Nat)
      <4>1. S \subseteq Nat /\ S \ {0} \subseteq Nat
        BY DEF Alphabet
      <4>2. r \in Seq(Nat)
        BY <4>1, SeqMonotonic
      <4> HIDE DEF run
      <4> QED
        BY <2>2, <4>1, <4>2, SeqMonotonic
    <3>2. m <= n /\ \A j \in 1 .. m : run[j] = r[n - m + j]
      BY <2>2 DEF RunEnds
    <3> HIDE DEF run
    <3>3. /\ u \in Seq(Nat) /\ Len(u) = m + 1 /\ u[m + 1] = b
          /\ \A j \in 1 .. m : u[j] = run[j]
      BY <2>3, <3>1, AppendProperties
    <3> HIDE DEF u, m
    <3>4. m + 1 <= n + 1 /\ n + 1 \in 0 .. Len(r) /\ (n + 1) - (m + 1) + 1 = n - m + 1
      BY <1>1, <2>1, <2>2, <3>2
    <3>5. ASSUME NEW j \in 1 .. m + 1
          PROVE  u[j] = r[(n + 1) - (m + 1) + j]
      <4>1. CASE j = m + 1
        <5>1. (n + 1) - (m + 1) + j = n + 1
          BY <2>1, <2>2, <4>1
        <5> QED
          BY <3>3, <4>1, <5>1
      <4>2. CASE j # m + 1
        <5>1. j \in 1 .. m /\ (n + 1) - (m + 1) + j = n - m + j
          BY <2>1, <2>2, <4>2
        <5> QED
          BY <3>2, <3>3, <5>1
      <4> QED
        BY <4>1, <4>2
    <3>6. Len(u) <= n + 1 /\ \A j \in 1 .. Len(u) : u[j] = r[(n + 1) - Len(u) + j]
      BY <3>3, <3>4, <3>5
    <3>7. u \o SubSeq(r, (n + 1) + 1, Len(r)) = SubSeq(r, (n + 1) - Len(u) + 1, Len(r))
      BY <3>1, <3>3, <3>4, <3>6, PieceJoined
    <3>8. u \o rest = SubSeq(r, n - m + 1, Len(r))
      BY <2>1, <3>3, <3>4, <3>7
    <3> QED
      BY <2>5, <3>3, <3>8 DEF u
  <2>7. \/ b = 0 /\ t = [done |-> s.done \o Close(run), run |-> <<>>]
        \/ b # 0 /\ m + 1 = Block /\ t = [done |-> s.done \o Close(Append(run, b)), run |-> <<>>]
        \/ b # 0 /\ t = [done |-> s.done, run |-> Append(run, b)]
    <3>1. t = EncodeByte(s, b)
      BY AfterEncoded
    <3> HIDE DEF s, b, t
    <3> QED
      BY <2>2, <3>1, EncodeByteCases
  <2>8. Begins(enc, t.done) /\ Len(t.done) < Len(enc) /\ Len(t.done) \in Nat
    BY <1>3, <1>4, <2>1
  <2>9. ASSUME NEW closed \in Seq(S \ {0}), Len(closed) <= Block,
               t = [done |-> s.done \o Close(closed), run |-> <<>>],
               closed \o ZeroBehind(enc, i, closed) = Append(run, b)
        PROVE  dec[i] = {Left(s, n, r)}
    <3> HIDE DEF b, t
    <3>1. t.done = s.done \o Close(closed) /\ t.run = <<>>
      BY <2>9
    <3>2. /\ Len(t.done) = i + Len(closed)
          /\ dec[i] = Before(closed \o ZeroBehind(enc, i, closed), dec[i + Len(closed) + 1])
      BY <1>5, <2>1, <2>8, <2>9, <3>1
    <3>3. Left(t, n + 1, r) = rest
      <4>1. Len(t.run) = 0 /\ (n + 1) - 0 + 1 = n + 2
        BY <2>1, <3>1
      <4> QED
        BY <4>1 DEF Left
    <3>4. dec[i + Len(closed) + 1] = {rest}
      BY <2>4, <3>2, <3>3
    <3> HIDE DEF i, rest, s, run
    <3> QED
      BY <2>6, <2>9, <3>2, <3>4 DEF Before
  <2>10. ASSUME b = 0, t = [done |-> s.done \o Close(run), run |-> <<>>]
         PROVE  dec[i] = {Left(s, n, r)}
    <3>1. ZeroBehind(enc, i, run) = <<0>>
      <4>1. t.done = s.done \o Close(run)
        <5> HIDE DEF t
        <5> QED
          BY <2>10
      <4>2. Len(t.done) = i + Len(run)
        BY <1>5, <2>1, <2>2, <2>8, <4>1
      <4>3. Len(t.done) < Len(enc) /\ Len(enc) \in Nat
        BY <1>1, <2>8
      <4> HIDE DEF t, i, run, m
      <4>4. i + Len(run) + 1 <= Len(enc)
        BY <2>2, <4>2, <4>3 DEF m
      <4> QED
        BY <2>2, <4>4 DEF ZeroBehind, m
    <3>2. run \o <<0>> = Append(run, b)
      <4>1. run \in Seq(Nat)
        <5>1. S \ {0} \subseteq Nat
          BY DEF Alphabet
        <5> HIDE DEF run
        <5> QED
          BY <2>2, <5>1, SeqMonotonic
      <4> QED
        BY <2>10, <4>1, AppendIsConcat
    <3> HIDE DEF b, t, run, i
    <3> QED
      BY <2>2, <2>9, <2>10, <3>1, <3>2 DEF m
  <2>11. ASSUME b # 0, m + 1 = Block,
                t = [done |-> s.done \o Close(Append(run, b)), run |-> <<>>]
         PROVE  dec[i] = {Left(s, n, r)}
    <3> DEFINE closed == Append(run, b)
    <3>1. closed \in Seq(S \ {0})
      <4>1. b \in S \ {0}
        BY <2>3, <2>11
      <4> HIDE DEF b, run
      <4> QED
        BY <2>2, <4>1, AppendProperties
    <3>2. Len(closed) = Block /\ Len(closed) <= Block /\ ~(Len(closed) < Block) /\ closed \in Seq(Nat)
      <4>1. Len(closed) = m + 1 /\ closed \in Seq(Nat)
        BY <2>6
      <4> HIDE DEF closed, m
      <4> QED
        BY <1>1, <2>11, <4>1
    <3>3. closed \o ZeroBehind(enc, i, closed) = closed
      <4> HIDE DEF closed
      <4>1. ZeroBehind(enc, i, closed) = <<>>
        BY <3>2 DEF ZeroBehind
      <4> QED
        BY <3>2, <4>1, ConcatEmptySeq
    <3> HIDE DEF b, t, run, i
    <3> QED
      BY <2>9, <2>11, <3>1, <3>2, <3>3
  <2>12. ASSUME t = [done |-> s.done, run |-> Append(run, b)]
         PROVE  dec[i] = {Left(s, n, r)}
    <3>1. t.done = s.done /\ t.run = Append(run, b)
      <4> HIDE DEF t, run, b
      <4> QED
        BY <2>12
    <3>2. Left(t, n + 1, r) = Left(s, n, r)
      <4>1. Len(t.run) = m + 1
        BY <2>6, <3>1
      <4>2. (n + 1) - (m + 1) + 1 = n - m + 1
        <5> HIDE DEF m
        <5> QED
          BY <2>1, <2>2
      <4> HIDE DEF m
      <4>3. SubSeq(r, (n + 1) - Len(t.run) + 1, Len(r)) = SubSeq(r, n - m + 1, Len(r))
        BY <4>1, <4>2
      <4> QED
        BY <2>5, <4>3 DEF Left
    <3> QED
      BY <2>4, <3>1, <3>2
  <2> QED
    BY <2>1, <2>7, <2>10, <2>11, <2>12
<1>9. 0 .. N \subseteq T
  <2> HIDE DEF T, N
  <2> QED
    BY <1>1, <1>7, <1>8, CountingDown
<1> QED
  BY <1>9

\* COBS reads back what it wrote: every sequence of bytes, whatever zeros and full
\* blocks it has in it, comes out of cobs_decode as it went into cobs_encode, into
\* every buffer that holds it.
THEOREM CobsRoundTrip ==
    ASSUME NEW S, Alphabet(S), NEW r \in Seq(S), r # <<>>, NEW size, Len(r) <= size
    PROVE  Decode(Encode(r), size) = {r}
<1> DEFINE enc == Encode(r)
<1>1. PICK after : /\ IsAfter(after, r)
                   /\ enc = after[Len(r)].done \o Close(after[Len(r)].run)
  BY EncodeUnfolds
<1>2. enc \in Seq(Nat)
  <2>1. S \ {0} \subseteq Nat
    BY DEF Alphabet
  <2>2. enc \in Seq(S \ {0})
    BY EncodeFacts
  <2> HIDE DEF enc
  <2> QED
    BY <2>1, <2>2, SeqMonotonic
<1>3. Len(r) \in Nat /\ Len(r) \in 0 .. Len(r) /\ 0 \in 0 .. Len(r)
  OBVIOUS
<1>4. IsEncoding(enc, after[Len(r)])
  <2> DEFINE s == after[Len(r)]
  <2>1. Encoded(s, Len(r), r, S)
    BY <1>1, <1>3, AfterEncoded
  <2>2. s.done \in Seq(S \ {0}) /\ s.run \in Seq(S \ {0}) /\ Len(s.run) < Block
    BY <2>1 DEF Encoded, EncState, RunEnds
  <2>3. enc = s.done \o Close(s.run)
    BY <1>1
  <2> HIDE DEF s, enc
  <2>4. Len(s.run) <= Block /\ Len(enc) \in Nat
    <3>1. Block \in Nat
      BY CobsAssumption
    <3> QED
      BY <1>2, <2>2, <3>1
  <2>5. Begins(enc, s.done \o Close(s.run))
    BY <2>3, <2>4 DEF Begins
  <2> DEFINE done == s.done
             run == s.run
  <2>6. Len(done \o Close(run)) = Len(done) + 1 + Len(run)
    <3>1. /\ done \in Seq(S \ {0}) /\ run \in Seq(S \ {0}) /\ Len(run) <= Block
          /\ Begins(enc, done \o Close(run))
      BY <2>2, <2>4, <2>5
    <3> HIDE DEF done, run
    <3> QED
      BY <2>4, <3>1, BeginsWithBlock
  <2>7. Len(enc) = Len(s.done) + 1 + Len(s.run)
    BY <2>3, <2>6
  <2>8. IsEncoding(enc, s)
    BY <2>5, <2>7 DEF IsEncoding
  <2> QED
    BY <2>8 DEF s
<1> HIDE DEF enc
<1>5. PICK dec : /\ IsDecoded(dec, enc, 1)
                 /\ Decode(enc, size) = {x \in dec[1] : x # <<>> /\ Len(x) <= size}
  BY <1>2, DecodeUnfolds
<1>6. dec[Len(after[0].done) + 1] = {Left(after[0], 0, r)}
  <2>1. IsAfter(after, r) /\ IsDecoded(dec, enc, 1)
    BY <1>1, <1>5
  <2>2. \A n \in 0 .. Len(r) : dec[Len(after[n].done) + 1] = {Left(after[n], n, r)}
    BY <1>2, <1>4, <2>1, RestDecoded
  <2> QED
    BY <1>3, <2>2
<1>7. after[0].done = <<>> /\ after[0].run = <<>>
  BY <1>1, AfterEncoded
<1>8. Left(after[0], 0, r) = r
  <2>1. Len(<<>>) = 0 /\ 0 - 0 + 1 = 1
    OBVIOUS
  <2>2. SubSeq(r, 1, Len(r)) = r
    BY SubSeqFull
  <2> QED
    BY <1>7, <2>1, <2>2 DEF Left
<1>9. dec[1] = {r}
  <2>1. Len(<<>>) + 1 = 1
    OBVIOUS
  <2> QED
    BY <1>6, <1>7, <1>8, <2>1
<1>10. Decode(enc, size) = {r}
  BY <1>5, <1>9
<1> QED
  BY <1>10 DEF enc
--------------------------------------------------------------------------------
(* on_raw_byte_length_prefixed_ *)

Prefix(r) == <<Len(r) \div 256, Len(r) % 256>>

\* Where the byte machine is in the message on the line: before it, behind the first
\* byte of the length, behind the length, or at rest.
InStep ==
    ~use_cobs =>
        \/ /\ line = <<>>
           /\ length_prefix_ = <<>> /\ rx_buf_ = <<>>
           /\ intact => got
        \/ /\ raw \in Raws /\ intact
           /\ length_prefix_ = <<>> /\ rx_buf_ = <<>>
           /\ line = Prefix(raw) \o raw
        \/ /\ raw \in Raws /\ intact
           /\ length_prefix_ = <<Prefix(raw)[1]>> /\ rx_buf_ = <<>>
           /\ line = <<Prefix(raw)[2]>> \o raw
        \/ /\ raw \in Raws /\ intact
           /\ length_prefix_ = Prefix(raw) /\ line # <<>>
           /\ {rx_buf_, line} \subseteq Seq(Byte)
           /\ rx_buf_ \o line = raw

LEMMA PrefixFacts ==
    ASSUME NEW r \in Raws
    PROVE  /\ r \in Seq(Byte) /\ r # <<>>
           /\ Len(r) \in Nat /\ Len(r) \in 1 .. RawBufSize
           /\ Expected(Prefix(r)) = Len(r)
           /\ Len(Prefix(r) \o r) = Len(r) + 2
           /\ Prefix(r) \o r # <<>>
           /\ Head(Prefix(r) \o r) = Prefix(r)[1]
           /\ Tail(Prefix(r) \o r) = <<Prefix(r)[2]>> \o r
           /\ <<Prefix(r)[2]>> \o r # <<>>
           /\ Len(<<Prefix(r)[2]>> \o r) = Len(r) + 1
           /\ Head(<<Prefix(r)[2]>> \o r) = Prefix(r)[2]
           /\ Tail(<<Prefix(r)[2]>> \o r) = r
<1>1. r \in Seq(Byte) /\ r # <<>> /\ Len(r) <= RawBufSize /\ RawBufSize \in Nat
  BY LinkRxAssumption DEF Byte
<1>2. Len(r) \in 1 .. RawBufSize
  BY <1>1, EmptySeq
<1> DEFINE n == Len(r)
           a == n \div 256
           b == n % 256
<1>3. n \in Nat /\ a \in Nat /\ b \in Nat /\ a * 256 + b = n
  BY <1>2
<1>4. Prefix(r) = <<a, b>> /\ Prefix(r)[1] = a /\ Prefix(r)[2] = b
  BY DEF Prefix
<1>5. r \in [1 .. n -> Byte]
  BY <1>1
<1> HIDE DEF a, b
<1>6. Expected(Prefix(r)) = n
  BY <1>3, <1>4 DEF Expected
<1>7. \A s \in Seq(Byte) : s \in Seq(Nat \union Byte)
  OBVIOUS
<1> DEFINE S == Nat \union Byte
<1>8. r \in Seq(S) /\ <<a, b>> \in Seq(S) /\ <<b>> \in Seq(S)
  BY <1>1, <1>3, <1>7
<1> HIDE DEF S
<1>9. /\ <<a, b>> \o r \in Seq(S) /\ Len(<<a, b>> \o r) = n + 2
      /\ \A i \in 1 .. n + 2 : (<<a, b>> \o r)[i] = IF i <= 2 THEN <<a, b>>[i] ELSE r[i - 2]
  BY <1>3, <1>8, ConcatProperties
<1>10. /\ <<b>> \o r \in Seq(S) /\ Len(<<b>> \o r) = n + 1
       /\ \A i \in 1 .. n + 1 : (<<b>> \o r)[i] = IF i <= 1 THEN b ELSE r[i - 1]
  BY <1>3, <1>8, ConcatProperties
<1>11. /\ <<a, b>> \o r # <<>> /\ Head(<<a, b>> \o r) = a
       /\ Tail(<<a, b>> \o r) \in Seq(S) /\ Len(Tail(<<a, b>> \o r)) = n + 1
       /\ \A i \in 1 .. n + 1 : Tail(<<a, b>> \o r)[i] = (<<a, b>> \o r)[i + 1]
  BY <1>3, <1>9, EmptySeq, HeadTailProperties
<1>12. Tail(<<a, b>> \o r) = <<b>> \o r
  <2>1. ASSUME NEW i \in 1 .. n + 1
        PROVE  Tail(<<a, b>> \o r)[i] = (<<b>> \o r)[i]
    <3>1. i + 1 \in 1 .. n + 2 /\ (i + 1 <= 2 <=> i <= 1) /\ (i <= 1 => i = 1) /\ i + 1 - 2 = i - 1
      BY <1>3
    <3>2. CASE i = 1
      BY <1>9, <1>10, <1>11, <3>1, <3>2
    <3>3. CASE i # 1
      BY <1>9, <1>10, <1>11, <3>1, <3>3
    <3> QED
      BY <3>2, <3>3
  <2> QED
    BY <1>10, <1>11, <2>1, SeqEqual
<1>13. /\ <<b>> \o r # <<>> /\ Head(<<b>> \o r) = b
       /\ Tail(<<b>> \o r) \in Seq(S) /\ Len(Tail(<<b>> \o r)) = n
       /\ \A i \in 1 .. n : Tail(<<b>> \o r)[i] = (<<b>> \o r)[i + 1]
  BY <1>3, <1>10, EmptySeq, HeadTailProperties
<1>14. Tail(<<b>> \o r) = r
  <2>1. ASSUME NEW i \in 1 .. n
        PROVE  Tail(<<b>> \o r)[i] = r[i]
    <3>1. i + 1 \in 1 .. n + 1 /\ ~(i + 1 <= 1) /\ i + 1 - 1 = i
      BY <1>3
    <3> QED
      BY <1>10, <1>13, <3>1
  <2> QED
    BY <1>8, <1>13, <2>1, SeqEqual
<1> QED
  BY <1>1, <1>2, <1>3, <1>4, <1>6, <1>9, <1>10, <1>11, <1>12, <1>13, <1>14

\* A byte moves from the front of the line, t, to the end of the buffer, s.
Moved(S, s, t) ==
    LET u == Append(s, Head(t))
    IN /\ u \in Seq(S) /\ Tail(t) \in Seq(S)
       /\ u \o Tail(t) = s \o t
       /\ Tail(t) = <<>> => u = s \o t
       /\ Len(u) = Len(s \o t) <=> Tail(t) = <<>>
       /\ Len(u) <= Len(s \o t)

LEMMA ByteMoves ==
    ASSUME NEW S, NEW s \in Seq(S), NEW t \in Seq(S), t # <<>>
    PROVE  Moved(S, s, t)
<1> DEFINE m == Len(s)
           n == Len(t)
           u == Append(s, Head(t))
           v == Tail(t)
<1>1. /\ m \in Nat /\ n \in Nat /\ n # 0
      /\ Head(t) = t[1] /\ Head(t) \in S
      /\ v \in Seq(S) /\ Len(v) = n - 1
      /\ \A i \in 1 .. n - 1 : v[i] = t[i + 1]
  BY EmptySeq, HeadTailProperties
<1>2. /\ u \in Seq(S) /\ Len(u) = m + 1 /\ u[m + 1] = t[1]
      /\ \A i \in 1 .. m : u[i] = s[i]
  BY <1>1, AppendProperties
<1>3. /\ s \o t \in Seq(S) /\ Len(s \o t) = m + n
      /\ \A i \in 1 .. m + n : (s \o t)[i] = IF i <= m THEN s[i] ELSE t[i - m]
  BY ConcatProperties
<1> HIDE DEF u, v
<1>4. /\ u \o v \in Seq(S) /\ Len(u \o v) = m + 1 + (n - 1)
      /\ \A i \in 1 .. m + 1 + (n - 1) :
            (u \o v)[i] = IF i <= m + 1 THEN u[i] ELSE v[i - (m + 1)]
  <2>1. /\ u \o v \in Seq(S) /\ Len(u \o v) = Len(u) + Len(v)
        /\ \A i \in 1 .. Len(u) + Len(v) :
              (u \o v)[i] = IF i <= Len(u) THEN u[i] ELSE v[i - Len(u)]
    BY <1>1, <1>2, ConcatProperties
  <2>2. Len(u) = m + 1 /\ Len(v) = n - 1
    BY <1>1, <1>2
  <2> HIDE DEF m, n
  <2> QED
    BY <2>1, <2>2
<1> HIDE DEF m, n
<1>5. Len(u \o v) = m + n /\ m + 1 + (n - 1) = m + n
  BY <1>1, <1>4
<1>6. ASSUME NEW i \in 1 .. m + n PROVE (u \o v)[i] = (s \o t)[i]
  <2>1. CASE i <= m
    <3>1. i \in 1 .. m /\ i <= m + 1
      BY <1>1, <2>1
    <3> QED
      BY <1>2, <1>3, <1>4, <1>5, <2>1, <3>1
  <2>2. CASE i = m + 1
    <3>1. i <= m + 1 /\ ~(i <= m) /\ i - m = 1
      BY <1>1, <2>2
    <3> QED
      BY <1>2, <1>3, <1>4, <1>5, <2>2, <3>1
  <2>3. CASE i > m + 1
    <3>1. /\ ~(i <= m + 1) /\ ~(i <= m)
          /\ i - (m + 1) \in 1 .. n - 1 /\ i - (m + 1) + 1 = i - m
      BY <1>1, <2>3
    <3> QED
      BY <1>1, <1>3, <1>4, <1>5, <3>1
  <2>4. i <= m \/ i = m + 1 \/ i > m + 1
    <3>1. m \in Nat /\ n \in Nat
      BY <1>1
    <3> QED
      BY <3>1
  <2> QED
    BY <2>1, <2>2, <2>3, <2>4
<1>7. u \o v = s \o t
  BY <1>3, <1>4, <1>5, <1>6, SeqEqual DEF m, n
<1>8. v = <<>> <=> n = 1
  <2>1. v = <<>> <=> Len(v) = 0
    BY <1>1, EmptySeq DEF v
  <2> QED
    BY <1>1, <2>1 DEF v
<1>9. v = <<>> => u = s \o t
  <2>1. u \o <<>> = u
    BY <1>2, ConcatEmptySeq DEF u
  <2> QED
    BY <1>7, <2>1
<1>10. (Len(u) = Len(s \o t) <=> n = 1) /\ Len(u) <= Len(s \o t)
  BY <1>1, <1>2, <1>3
<1> QED
  BY <1>1, <1>2, <1>7, <1>8, <1>9, <1>10 DEF Moved, u, v

LEMMA InStepInit == Init => InStep
BY DEF Init, InStep

LEMMA InStepInductive ==
    ASSUME InStep, [Next]_vars
    PROVE  InStep'
<1> SUFFICES ASSUME ~use_cobs' PROVE InStep'
  BY DEF InStep
<1>1. CASE UNCHANGED vars
  BY <1>1 DEF InStep, vars, rxVars
<1>2. CASE Next
  <2>0. use_cobs' = use_cobs /\ ~use_cobs
    BY <1>2 DEF Next, Send, LoseByte, LoseMessage,
                Receive, Noise
  <2>1. ASSUME NEW r \in Raws, Send(r) PROVE InStep'
    <3>1. /\ line = <<>> /\ length_prefix_ = <<>> /\ rx_buf_ = <<>>
      <4>1. line = <<>>
        BY <2>1 DEF Send
      <4> QED
        BY <2>0, <4>1, PrefixFacts DEF InStep
    <3>2. /\ raw' = r /\ line' = Prefix(r) \o r /\ intact'
          /\ length_prefix_' = <<>> /\ rx_buf_' = <<>>
      BY <2>0, <2>1, <3>1 DEF Send, Physical, rxVars, Prefix
    <3> QED
      BY <3>2 DEF InStep
  <2>2. CASE LoseMessage
    <3>1. /\ line = Prefix(raw) \o raw /\ line # <<>>
          /\ line' = <<>> /\ ~intact'
          /\ UNCHANGED <<raw, length_prefix_, rx_buf_>>
      BY <2>2 DEF LoseMessage, Physical, rxVars, Prefix
    <3>2. length_prefix_ = <<>> /\ rx_buf_ = <<>>
      <4>1. ASSUME raw \in Raws
            PROVE  /\ line # <<Prefix(raw)[2]>> \o raw
                   /\ \A s \in Seq(Byte) :
                         line \in Seq(Byte) => s \o line # raw
        <5>1. /\ Len(line) = Len(raw) + 2 /\ Len(raw) \in Nat
              /\ Len(<<Prefix(raw)[2]>> \o raw) = Len(raw) + 1
          BY <3>1, <4>1, PrefixFacts
        <5>2. ASSUME NEW s \in Seq(Byte), line \in Seq(Byte)
              PROVE  Len(s \o line) # Len(raw)
          <6>1. Len(s \o line) = Len(s) + Len(line) /\ Len(s) \in Nat
            BY <5>2, ConcatProperties
          <6> QED
            BY <5>1, <6>1
        <5> QED
          BY <5>1, <5>2
      <4> QED
        BY <2>0, <3>1, <4>1 DEF InStep
    <3> QED
      BY <3>1, <3>2 DEF InStep
  <2>3. CASE Receive
    <3>1. /\ line # <<>> /\ line' = Tail(line)
          /\ RawBytePrefixed(Head(line))
          /\ UNCHANGED <<raw, intact>>
      BY <2>0, <2>3 DEF Receive, RawByte
    <3>2. raw \in Raws /\ intact
      BY <2>0, <3>1 DEF InStep
    <3>p. PICK p : p = Prefix(raw) /\ p[1] = Prefix(raw)[1] /\ p[2] = Prefix(raw)[2]
      OBVIOUS
    <3>e. p = <<p[1], p[2]>>
      BY <3>p DEF Prefix
    <3>3. CASE length_prefix_ = <<>> /\ rx_buf_ = <<>> /\ line = Prefix(raw) \o raw
      <4>1. Head(line) = p[1] /\ Tail(line) = <<p[2]>> \o raw
        BY <3>2, <3>3, <3>p, PrefixFacts
      <4>2. Append(<<>>, p[1]) = <<p[1]>> /\ Len(<<>>) = 0 /\ Len(<<p[1]>>) = 1 /\ <<p[1]>> # <<>>
        OBVIOUS
      <4>3. length_prefix_' = <<p[1]>> /\ rx_buf_' = <<>>
        BY <3>1, <3>3, <4>1, <4>2 DEF RawBytePrefixed
      <4> QED
        BY <3>1, <3>2, <3>p, <4>1, <4>3 DEF InStep
    <3>4. CASE length_prefix_ = <<p[1]>> /\ rx_buf_ = <<>> /\ line = <<p[2]>> \o raw
      <4>1. /\ Head(line) = p[2] /\ Tail(line) = raw /\ raw # <<>>
            /\ raw \in Seq(Byte)
            /\ Expected(p) = Len(raw) /\ Len(raw) \in 1 .. RawBufSize
        BY <3>2, <3>4, <3>p, PrefixFacts
      <4>2. /\ Append(<<p[1]>>, p[2]) = p
            /\ Len(<<p[1]>>) = 1 /\ Len(p) = 2 /\ p # <<>>
        BY <3>e
      <4>3. RawBufSize \in Nat
        BY LinkRxAssumption
      <4>4. ~(Expected(p) = 0 \/ Expected(p) > RawBufSize)
        BY <4>1, <4>3
      <4>5. length_prefix_' = p /\ rx_buf_' = <<>>
        <5>1. Append(length_prefix_, Head(line)) = p /\ Len(length_prefix_) = 1
          BY <3>4, <4>1, <4>2
        <5>2. length_prefix_' = p
          <6>1. Len(length_prefix_) # 2
            BY <5>1
          <6> QED
            BY <3>1, <4>4, <5>1, <6>1, Zenon DEF RawBytePrefixed
        <5>3. rx_buf_' = rx_buf_
          BY <3>1, <4>2, <5>1, <5>2 DEF RawBytePrefixed
        <5> QED
          BY <3>4, <5>2, <5>3
      <4>6. <<>> \o raw = raw /\ <<>> \in Seq(Byte)
        BY <4>1, ConcatEmptySeq, EmptySeq
      <4> QED
        BY <3>1, <3>2, <3>p, <4>1, <4>5, <4>6 DEF InStep
    <3>5. CASE /\ length_prefix_ = p /\ {rx_buf_, line} \subseteq Seq(Byte)
               /\ rx_buf_ \o line = raw
      <4> DEFINE buf == Append(rx_buf_, Head(line))
      <4>1. Expected(p) = Len(raw) /\ Len(p) = 2 /\ Len(raw) \in Nat
        BY <3>2, <3>p, <3>e, PrefixFacts
      <4>2. /\ buf \in Seq(Byte) /\ Tail(line) \in Seq(Byte)
            /\ buf \o Tail(line) = raw
            /\ Tail(line) = <<>> => buf = raw
            /\ Len(buf) = Len(raw) <=> Tail(line) = <<>>
            /\ Len(buf) <= Len(raw)
        <5>1. rx_buf_ \in Seq(Byte) /\ line \in Seq(Byte) /\ line # <<>>
          BY <3>1, <3>5
        <5>2. Moved(Byte, rx_buf_, line)
          BY ONLY <5>1, ByteMoves
        <5> QED
          BY ONLY <5>2, <3>5 DEF Moved, buf
      <4> HIDE DEF buf
      <4>3. CASE Tail(line) = <<>>
        <5>1. Len(buf) = Len(raw) /\ ~(Len(buf) < Len(raw)) /\ ~(Len(p) < 2)
          BY <4>1, <4>2, <4>3
        <5>2. DeliverRaw({buf}) /\ rx_buf_' = <<>> /\ length_prefix_' = <<>>
          BY <3>1, <3>5, <4>1, <5>1 DEF RawBytePrefixed, buf
        <5>3. got'
          BY <4>2, <4>3, <5>2 DEF DeliverRaw
        <5> QED
          BY <3>1, <4>3, <5>2, <5>3 DEF InStep
      <4>4. CASE Tail(line) # <<>>
        <5>1. Len(buf) # Len(raw) /\ ~(Len(p) < 2)
          BY <4>1, <4>2, <4>4
        <5>2. rx_buf_' = buf /\ length_prefix_' = p
          BY <3>1, <3>5, <4>1, <5>1 DEF RawBytePrefixed, buf
        <5> QED
          BY <3>1, <3>2, <3>p, <4>2, <4>4, <5>2 DEF InStep
      <4> QED
        BY <4>3, <4>4
    <3> QED
      BY <2>0, <3>1, <3>3, <3>4, <3>5, <3>p, <3>e DEF InStep
  <2> QED
    BY <1>2, <2>0, <2>1, <2>2, <2>3 DEF Next, LoseByte, Noise
<1> QED
  BY <1>1, <1>2
--------------------------------------------------------------------------------
(* on_raw_byte_cobs_crc_ *)

LEMMA BytesAreAnAlphabet == Alphabet(Byte) /\ Byte \subseteq Nat /\ 0 \in Byte
BY CobsAssumption DEF Alphabet, Byte

\* The whole encoding and its delimiter fit into rx_buf_.
LEMMA EncodingFits ==
    ASSUME NEW r \in Raws
    PROVE  /\ Encode(r) \in Seq(Byte \ {0})
           /\ Len(Encode(r)) \in 2 .. EncBufSize - 1
           /\ Decode(Encode(r), RawBufSize) = {r}
<1> DEFINE n == Len(r)
           q == n \div Block
           p == RawBufSize \div Block
<1>1. /\ r \in Seq(Byte) /\ r # <<>> /\ n <= RawBufSize /\ RawBufSize \in Nat /\ EncBufSize \in Nat
      /\ RawBufSize + p + 2 <= EncBufSize
  BY LinkRxAssumption DEF Byte
<1>2. n \in Nat /\ n # 0
  BY <1>1, EmptySeq
<1>3. Encode(r) \in Seq(Byte \ {0}) /\ Len(Encode(r)) \in n + 1 .. LongestEncoding(n)
  BY <1>1, BytesAreAnAlphabet, EncodeFacts
<1>4. LongestEncoding(n) = n + q + 1
  BY DEF LongestEncoding
<1>5. Block \in Nat /\ 0 < Block
  BY CobsAssumption
<1>6. /\ q \in Nat /\ q * Block <= n
      /\ p \in Nat /\ RawBufSize < p * Block + Block
  BY <1>1, <1>2, <1>5
<1> HIDE DEF n, q, p
<1>7. q <= p
  <2>1. q * Block < p * Block + Block
    <3>1. q * Block \in Nat /\ p * Block \in Nat
      BY <1>5, <1>6
    <3> QED
      BY <1>1, <1>2, <1>5, <1>6, <3>1
  <2>2. ASSUME p + 1 <= q
        PROVE  FALSE
    <3>1. PICK k \in Nat : q = p + 1 + k
      <4>1. q - (p + 1) \in Nat /\ q = p + 1 + (q - (p + 1))
        BY <1>6, <2>2
      <4> QED
        BY <4>1
    <3>2. q * Block = p * Block + Block + k * Block
      BY <1>5, <1>6, <3>1
    <3>3. k * Block \in Nat /\ p * Block \in Nat
      BY <1>5, <1>6
    <3> HIDE DEF q
    <3> QED
      BY <1>5, <2>1, <3>2, <3>3
  <2> QED
    BY <1>6, <2>2
<1>8. Len(Encode(r)) \in 2 .. EncBufSize - 1
  <2> DEFINE l == Len(Encode(r))
  <2>1. l \in Nat /\ l \in n + 1 .. n + q + 1
    BY <1>3, <1>4
  <2> HIDE DEF l
  <2>2. l \in 2 .. EncBufSize - 1
    BY <1>1, <1>2, <1>6, <1>7, <2>1
  <2> QED
    BY <2>2 DEF l
<1>9. Decode(Encode(r), RawBufSize) = {r}
  BY <1>1, BytesAreAnAlphabet, CobsRoundTrip DEF n
<1> QED
  BY <1>3, <1>8, <1>9

\* The encoding e with its delimiter, part of which has been received
Halves(head, rest, e) ==
    {head, rest} \subseteq Seq(Byte) /\ head \o rest = Append(e, 0)

\* The delimiter is the last byte and only that.
LEMMA NextByte ==
    ASSUME NEW e \in Seq(Byte \ {0}), NEW head, NEW rest, Halves(head, rest, e), rest # <<>>
    PROVE  /\ Halves(Append(head, Head(rest)), Tail(rest), e)
           /\ \/ Tail(rest) = <<>> /\ Head(rest) = 0 /\ head = e
              \/ Tail(rest) # <<>> /\ Head(rest) # 0 /\ Len(head) + 1 <= Len(e)
<1> DEFINE u == Append(head, Head(rest))
           w == Append(e, 0)
<1>1. head \in Seq(Byte) /\ rest \in Seq(Byte) /\ head \o rest = w
  BY DEF Halves
<1>2. /\ u \in Seq(Byte) /\ Tail(rest) \in Seq(Byte) /\ u \o Tail(rest) = head \o rest
      /\ Tail(rest) = <<>> => u = head \o rest
      /\ Len(u) = Len(head \o rest) <=> Tail(rest) = <<>>
      /\ Len(u) <= Len(head \o rest)
  <2>1. head \in Seq(Byte) /\ rest \in Seq(Byte) /\ rest # <<>>
    BY <1>1
  <2>2. Moved(Byte, head, rest)
    BY ONLY <2>1, ByteMoves
  <2> QED
    BY ONLY <2>2 DEF Moved, u
<1>3. Halves(u, Tail(rest), e)
  BY <1>1, <1>2 DEF Halves
<1>4. Head(rest) \in Byte /\ Len(head) \in Nat /\ Len(e) \in Nat
  BY <1>1, HeadTailProperties, LenProperties
<1>5. /\ Len(u) = Len(head) + 1 /\ u[Len(head) + 1] = Head(rest)
      /\ \A i \in 1 .. Len(head) : u[i] = head[i]
  BY <1>1, <1>4, AppendProperties
<1>6. e \in Seq(Byte)
  BY SeqMonotonic
<1>7. /\ Len(w) = Len(e) + 1 /\ w[Len(e) + 1] = 0
      /\ \A i \in 1 .. Len(e) : w[i] = e[i]
  BY <1>6, BytesAreAnAlphabet, AppendProperties
<1>8. CASE Tail(rest) = <<>>
  <2>1. u = w
    BY <1>1, <1>2, <1>8
  <2> HIDE DEF u, w
  <2>2. Len(head) = Len(e)
    BY <1>4, <1>5, <1>7, <2>1
  <2>3. head = e
    <3>1. \A i \in 1 .. Len(e) : head[i] = e[i]
      BY <1>5, <1>7, <2>1, <2>2
    <3> QED
      BY <1>1, <1>6, <2>2, <3>1, SeqEqual
  <2>4. Head(rest) = 0
    BY <1>5, <1>7, <2>1, <2>2
  <2> QED
    BY <1>3, <1>8, <2>3, <2>4 DEF u
<1>9. CASE Tail(rest) # <<>>
  <2>1. Len(u) # Len(w) /\ Len(u) <= Len(w)
    BY <1>1, <1>2, <1>9
  <2> HIDE DEF u, w
  <2>2. Len(head) + 1 <= Len(e) /\ Len(head) + 1 \in 1 .. Len(e)
    BY <1>4, <1>5, <1>7, <2>1
  <2>3. (u \o Tail(rest))[Len(head) + 1] = u[Len(head) + 1]
    <3>1. Len(head) + 1 \in 1 .. Len(u) + Len(Tail(rest)) /\ Len(head) + 1 <= Len(u)
      <4>1. Len(Tail(rest)) \in Nat
        BY <1>2, LenProperties
      <4> QED
        BY <1>4, <1>5, <4>1
    <3> QED
      BY <1>2, <3>1, ConcatProperties
  <2>4. Head(rest) = e[Len(head) + 1]
    <3>1. u \o Tail(rest) = w
      BY <1>1, <1>2
    <3>2. w[Len(head) + 1] = e[Len(head) + 1]
      BY <1>7, <2>2
    <3> QED
      BY <1>5, <2>3, <3>1, <3>2
  <2>5. e[Len(head) + 1] \in Byte \ {0}
    BY <2>2, ElementOfSeq
  <2> QED
    BY <1>3, <1>9, <2>2, <2>4, <2>5 DEF u
<1> QED
  BY <1>8, <1>9

\* What the receiver has of the frame on the line, head, and what it has in rx_buf_:
\* the same after two undamaged frames, and after one perhaps the delimiter of the
\* frame before it, which is a byte more.
Underway(head) ==
    /\ Halves(head, line, Encode(raw))
    /\ calm = 1 => Len(rx_buf_) \in {Len(head), Len(head) + 1}
    /\ calm = Patience => rx_buf_ = head

Resynchronising ==
    use_cobs =>
        /\ line = <<>> /\ intact =>
              /\ rx_buf_ = <<>> \/ (calm = 0 /\ rx_buf_ = <<0>>)
              /\ calm = Patience => got
        /\ line # <<>> /\ intact => raw \in Raws /\ \E head : Underway(head)

\* The types, but those of the bytes with the length prefix, which are in InStep
Typed ==
    /\ use_cobs \in BOOLEAN
    /\ use_cobs =>
          /\ rx_buf_ \in Seq(Byte) /\ Len(rx_buf_) <= EncBufSize
          /\ length_prefix_ = <<>>
          /\ line \in Seq(Byte)
    /\ raw \in Raws \cup {<<>>}
    /\ {intact, got} \subseteq BOOLEAN
    /\ calm \in 0 .. Patience

LinkInv == InStep /\ Typed /\ Resynchronising

LEMMA LinkInit == Init => LinkInv
<1> SUFFICES ASSUME Init PROVE LinkInv
  OBVIOUS
<1>1. InStep
  BY InStepInit
<1>2. EncBufSize \in Nat /\ Len(<<>>) = 0 /\ <<>> \in Seq(Byte)
  BY LinkRxAssumption
<1>3. Typed
  BY <1>2 DEF Init, Typed, Patience
<1>4. Resynchronising
  BY DEF Init, Resynchronising
<1> QED
  BY <1>1, <1>3, <1>4 DEF LinkInv

\* What on_raw_byte_cobs_crc_ does to its buffer.
LEMMA CobsByteCases ==
    ASSUME Typed, use_cobs, NEW b \in Byte, RawByteCobs(b)
    PROVE  /\ rx_buf_' \in Seq(Byte) /\ Len(rx_buf_') <= EncBufSize
           /\ length_prefix_' = <<>>
           /\ got' \in BOOLEAN /\ (got => got')
           /\ \/ rx_buf_' = <<>> /\ Len(rx_buf_) = EncBufSize
              \/ /\ rx_buf_' = <<>> /\ b = 0 /\ rx_buf_ # <<>>
                 /\ raw \in Decode(rx_buf_, RawBufSize) => got'
              \/ /\ rx_buf_' = Append(rx_buf_, b) /\ (b = 0 => rx_buf_ = <<>>)
<1> DEFINE buf == Append(rx_buf_, b)
<1>1. /\ rx_buf_ \in Seq(Byte) /\ Len(rx_buf_) <= EncBufSize /\ length_prefix_ = <<>>
      /\ got \in BOOLEAN
  BY DEF Typed
<1>2. Len(rx_buf_) \in Nat /\ EncBufSize \in Nat
  BY <1>1, LinkRxAssumption
<1>3. buf \in Seq(Byte) /\ Len(buf) = Len(rx_buf_) + 1
  BY <1>1, AppendProperties
<1>4. /\ length_prefix_' = length_prefix_
      /\ IF Len(rx_buf_) >= EncBufSize THEN rx_buf_' = <<>> /\ UNCHANGED got
         ELSE IF b = 0 /\ Len(buf) > 1
              THEN rx_buf_' = <<>> /\ DeliverRaw(Decode(rx_buf_, RawBufSize))
              ELSE rx_buf_' = buf /\ UNCHANGED got
  BY DEF RawByteCobs
<1> HIDE DEF buf
<1>5. <<>> \in Seq(Byte) /\ Len(<<>>) = 0 /\ 0 <= EncBufSize
  BY <1>2
<1>6. Len(rx_buf_) = 0 <=> rx_buf_ = <<>>
  BY <1>1, EmptySeq
<1>7. CASE Len(rx_buf_) >= EncBufSize
  <2>1. rx_buf_' = <<>> /\ got' = got
    BY <1>4, <1>7
  <2>2. Len(rx_buf_) = EncBufSize
    BY <1>1, <1>2, <1>7
  <2> QED
    BY <1>1, <1>4, <1>5, <2>1, <2>2
<1>8. CASE ~(Len(rx_buf_) >= EncBufSize) /\ b = 0 /\ Len(buf) > 1
  <2>1. rx_buf_' = <<>> /\ got' = (got \/ raw \in Decode(rx_buf_, RawBufSize))
    BY <1>4, <1>8 DEF DeliverRaw
  <2>2. rx_buf_ # <<>>
    BY <1>2, <1>3, <1>6, <1>8
  <2> QED
    BY <1>1, <1>4, <1>5, <1>8, <2>1, <2>2
<1>9. CASE ~(Len(rx_buf_) >= EncBufSize) /\ ~(b = 0 /\ Len(buf) > 1)
  <2>1. rx_buf_' = buf /\ got' = got
    BY <1>4, <1>9
  <2>2. Len(buf) <= EncBufSize
    BY <1>2, <1>3, <1>9
  <2>3. b = 0 => rx_buf_ = <<>>
    BY <1>2, <1>3, <1>6, <1>9
  <2> QED
    BY <1>1, <1>3, <1>4, <2>1, <2>2, <2>3 DEF buf
<1> QED
  BY <1>7, <1>8, <1>9

LEMMA TypedStep ==
    ASSUME Typed, [Next]_vars
    PROVE  Typed'
<1>1. CASE UNCHANGED vars
  BY <1>1 DEF Typed, vars, rxVars
<1>2. ASSUME NEW r \in Raws, Send(r)
      PROVE  Typed'
  <2>1. /\ UNCHANGED <<use_cobs, rx_buf_, length_prefix_>>
        /\ raw' = r /\ intact' = TRUE /\ got' = FALSE
    BY <1>2 DEF Send, rxVars
  <2>2. calm' \in 0 .. Patience
    <3>1. calm \in 0 .. 2
      BY DEF Typed, Patience
    <3> QED
      BY <1>2, <3>1 DEF Send, Patience
  <2>3. ASSUME use_cobs
        PROVE  line' \in Seq(Byte)
    <3>1. line' = Append(Encode(r), 0)
      BY <1>2, <2>3 DEF Send, Physical
    <3>2. Encode(r) \in Seq(Byte)
      BY EncodingFits, SeqMonotonic
    <3> QED
      BY <3>1, <3>2, BytesAreAnAlphabet, AppendProperties
  <2> QED
    BY <2>1, <2>2, <2>3 DEF Typed
<1>3. CASE LoseByte \/ LoseMessage
  <2>1. /\ UNCHANGED <<use_cobs, rx_buf_, length_prefix_, raw, got, calm>> /\ intact' = FALSE
        /\ use_cobs => line # <<>> /\ line' = Tail(line)
    BY <1>3 DEF LoseByte, LoseMessage, rxVars
  <2> QED
    BY <2>1, HeadTailProperties DEF Typed
<1>4. ASSUME NEW b, RawByte(b), use_cobs => b \in Byte,
             UNCHANGED <<use_cobs, raw, calm>>, intact' \in BOOLEAN,
             use_cobs => line' \in Seq(Byte)
      PROVE  Typed'
  <2>1. CASE use_cobs
    <3>1. b \in Byte /\ RawByteCobs(b)
      BY <1>4, <2>1 DEF RawByte
    <3>2. /\ rx_buf_' \in Seq(Byte) /\ Len(rx_buf_') <= EncBufSize /\ length_prefix_' = <<>>
          /\ got' \in BOOLEAN
      BY <2>1, <3>1, CobsByteCases
    <3> QED
      BY <1>4, <3>2 DEF Typed
  <2>2. CASE ~use_cobs
    <3>1. got' \in BOOLEAN
      <4>1. RawBytePrefixed(b)
        BY <1>4, <2>2 DEF RawByte
      <4>2. got \in BOOLEAN
        BY DEF Typed
      <4> QED
        BY <4>1, <4>2 DEF RawBytePrefixed, DeliverRaw
    <3> QED
      BY <1>4, <2>2, <3>1 DEF Typed
  <2> QED
    BY <2>1, <2>2
<1>5. CASE Receive
  <2>1. /\ RawByte(Head(line)) /\ UNCHANGED <<use_cobs, raw, calm>> /\ intact' = intact
        /\ line # <<>> /\ line' = Tail(line)
    BY <1>5 DEF Receive
  <2>2. ASSUME use_cobs
        PROVE  Head(line) \in Byte /\ Tail(line) \in Seq(Byte)
    BY <2>1, <2>2, HeadTailProperties DEF Typed
  <2>3. intact \in BOOLEAN
    BY DEF Typed
  <2> QED
    BY <1>4, <2>1, <2>2, <2>3
<1>6. ASSUME NEW b \in Byte, Noise(b)
      PROVE  Typed'
  <2>1. /\ RawByte(b) /\ UNCHANGED <<use_cobs, raw, calm>> /\ intact' = FALSE /\ line' = line
    BY <1>6 DEF Noise
  <2>2. use_cobs => line \in Seq(Byte)
    BY DEF Typed
  <2> QED
    BY <1>4, <2>1, <2>2
<1> QED
  BY <1>1, <1>2, <1>3, <1>5, <1>6 DEF Next

LEMMA ResynchronisingStep ==
    ASSUME Typed, Resynchronising, [Next]_vars
    PROVE  Resynchronising'
<1> SUFFICES ASSUME use_cobs' PROVE Resynchronising'
  BY DEF Resynchronising
<1>1. CASE UNCHANGED vars
  BY <1>1 DEF Resynchronising, Underway, vars, rxVars
<1>2. CASE Next
  <2>0. use_cobs' = use_cobs /\ use_cobs
    BY <1>2 DEF Next, Send, LoseByte, LoseMessage, Receive, Noise
  <2>1. ASSUME NEW r \in Raws, Send(r)
        PROVE  Resynchronising'
    <3>1. /\ line = <<>> /\ raw' = r /\ line' = Append(Encode(r), 0)
          /\ rx_buf_' = rx_buf_ /\ intact' = TRUE
          /\ calm' = IF ~intact THEN 0 ELSE IF calm < Patience THEN calm + 1 ELSE Patience
      BY <2>0, <2>1 DEF Send, Physical, rxVars
    <3>2. Encode(r) \in Seq(Byte)
      BY EncodingFits, SeqMonotonic
    <3>3. Halves(<<>>, line', Encode(raw'))
      <4> DEFINE w == Append(Encode(r), 0)
      <4>1. w \in Seq(Byte)
        BY <3>2, BytesAreAnAlphabet, AppendProperties
      <4> HIDE DEF w
      <4>2. <<>> \in Seq(Byte) /\ <<>> \o w = w
        BY <4>1, ConcatEmptySeq
      <4>3. Halves(<<>>, w, Encode(r))
        BY <4>1, <4>2 DEF Halves, w
      <4> QED
        BY <3>1, <4>3 DEF w
    <3>4. calm \in 0 .. 2 /\ (intact => rx_buf_ = <<>> \/ (calm = 0 /\ rx_buf_ = <<0>>))
      BY <2>0, <3>1 DEF Typed, Resynchronising, Patience
    <3>5. Len(<<>>) = 0 /\ Len(<<0>>) = 1
      OBVIOUS
    <3>6. calm' = 1 => Len(rx_buf_') \in {Len(<<>>), Len(<<>>) + 1}
      BY <3>1, <3>4, <3>5 DEF Patience
    <3>7. calm' = Patience => rx_buf_' = <<>>
      BY <3>1, <3>4 DEF Patience
    <3>8. Underway(<<>>)'
      BY <3>3, <3>6, <3>7 DEF Underway
    <3>9. line' # <<>>
      BY <3>1, <3>2, AppendProperties, EmptySeq
    <3> QED
      BY <3>1, <3>8, <3>9 DEF Resynchronising
  <2>2. CASE LoseByte \/ LoseMessage \/ \E b \in Byte : Noise(b)
    <3>1. intact' = FALSE
      BY <2>2 DEF LoseByte, LoseMessage, Noise
    <3> QED
      BY <3>1 DEF Resynchronising
  <2>3. CASE Receive
    <3>1. /\ line # <<>> /\ RawByteCobs(Head(line)) /\ line' = Tail(line)
          /\ UNCHANGED <<raw, intact, calm>>
      BY <2>0, <2>3 DEF Receive, RawByte
    <3> SUFFICES ASSUME intact PROVE Resynchronising'
      BY <3>1 DEF Resynchronising
    <3>2. raw \in Raws /\ \E head : Underway(head)
      BY <2>0, <3>1 DEF Resynchronising
    <3>3. PICK head : Underway(head)
      BY <3>2
    <3>4. PICK e, b : e = Encode(raw) /\ b = Head(line)
      OBVIOUS
    <3>5. /\ e \in Seq(Byte \ {0}) /\ Len(e) \in 2 .. EncBufSize - 1
          /\ Decode(e, RawBufSize) = {raw}
      BY <3>2, <3>4, EncodingFits
    <3>6. /\ Halves(head, line, e)
          /\ calm = 1 => Len(rx_buf_) \in {Len(head), Len(head) + 1}
          /\ calm = 2 => rx_buf_ = head
      BY <3>3, <3>4 DEF Underway, Patience
    <3>7. /\ Halves(Append(head, b), line', e)
          /\ \/ line' = <<>> /\ b = 0 /\ head = e
             \/ line' # <<>> /\ b # 0 /\ Len(head) + 1 <= Len(e)
      BY <3>1, <3>4, <3>5, <3>6, NextByte
    <3>8. head \in Seq(Byte) /\ line \in Seq(Byte) /\ rx_buf_ \in Seq(Byte) /\ calm \in 0 .. 2
      BY <2>0, <3>6 DEF Halves, Typed, Patience
    <3>9. b \in Byte
      BY <3>1, <3>4, <3>8, HeadTailProperties
    <3>10. /\ got => got'
           /\ \/ rx_buf_' = <<>> /\ Len(rx_buf_) = EncBufSize
              \/ /\ rx_buf_' = <<>> /\ b = 0 /\ rx_buf_ # <<>>
                 /\ raw \in Decode(rx_buf_, RawBufSize) => got'
              \/ /\ rx_buf_' = Append(rx_buf_, b) /\ (b = 0 => rx_buf_ = <<>>)
      <4>1. RawByteCobs(b)
        BY <3>1, <3>4
      <4> QED
        BY <2>0, <3>9, <4>1, CobsByteCases
    <3>11. Len(head) \in Nat /\ Len(e) \in Nat /\ EncBufSize \in Nat /\ Len(rx_buf_) \in Nat
      BY <3>5, <3>8, LinkRxAssumption, LenProperties
    <3>12. CASE line' = <<>> /\ b = 0 /\ head = e
      <4>1. calm # 0 => rx_buf_ # <<>>
        <5>1. calm # 0 => Len(rx_buf_) >= 2
          BY <3>5, <3>6, <3>8, <3>11, <3>12
        <5> QED
          BY <5>1
      <4>2. calm = 2 => rx_buf_ = e /\ Len(rx_buf_) # EncBufSize
        BY <3>5, <3>6, <3>11, <3>12
      <4>3. rx_buf_ = <<>> => Append(rx_buf_, b) = <<0>>
        BY <3>12
      <4>4. rx_buf_' = <<>> \/ (calm = 0 /\ rx_buf_' = <<0>>)
        BY <3>10, <3>12, <4>1, <4>3
      <4>5. calm = 2 => got'
        BY <3>5, <3>10, <3>12, <4>1, <4>2
      <4> QED
        BY <3>1, <3>12, <4>4, <4>5 DEF Resynchronising, Patience
    <3>13. CASE line' # <<>> /\ b # 0 /\ Len(head) + 1 <= Len(e)
      <4>1. calm # 0 => Len(rx_buf_) # EncBufSize
        BY <3>5, <3>6, <3>8, <3>11, <3>13
      <4>2. calm # 0 => rx_buf_' = Append(rx_buf_, b)
        BY <3>10, <3>13, <4>1
      <4>3. Len(Append(rx_buf_, b)) = Len(rx_buf_) + 1 /\ Len(Append(head, b)) = Len(head) + 1
        BY <3>8, <3>9, AppendProperties
      <4>4. calm = 1 => Len(rx_buf_') \in {Len(Append(head, b)), Len(Append(head, b)) + 1}
        BY <3>6, <3>11, <4>2, <4>3
      <4>5. calm = 2 => rx_buf_' = Append(head, b)
        BY <3>6, <4>2
      <4>6. Halves(Append(head, b), line', Encode(raw'))
        BY <3>1, <3>4, <3>7
      <4> DEFINE more == Append(head, b)
      <4> HIDE DEF more
      <4>7. Underway(more)'
        BY <3>1, <4>4, <4>5, <4>6 DEF Underway, Patience, more
      <4> QED
        BY <3>1, <3>2, <3>13, <4>7 DEF Resynchronising
    <3> QED
      BY <3>7, <3>12, <3>13
  <2> QED
    BY <1>2, <2>1, <2>2, <2>3 DEF Next
<1> QED
  BY <1>1, <1>2

LEMMA LinkInductive ==
    ASSUME LinkInv, [Next]_vars
    PROVE  LinkInv'
BY InStepInductive, TypedStep, ResynchronisingStep DEF LinkInv

LEMMA PrefixTyped ==
    ASSUME InStep, ~use_cobs
    PROVE  /\ rx_buf_ \in Seq(Byte) /\ Len(rx_buf_) <= EncBufSize
           /\ length_prefix_ \in Seq(Byte) /\ Len(length_prefix_) <= 2
           /\ Len(length_prefix_) = 2 => Expected(length_prefix_) \in 1 .. RawBufSize
           /\ line \in Seq(Byte)
<1>1. EncBufSize \in Nat /\ RawBufSize \in Nat /\ RawBufSize <= EncBufSize
  <2>1. RawBufSize \div Block \in Nat
    BY CobsAssumption, LinkRxAssumption
  <2> QED
    BY <2>1, LinkRxAssumption
<1>2. <<>> \in Seq(Byte) /\ Len(<<>>) = 0
  OBVIOUS
<1>3. CASE line = <<>> /\ length_prefix_ = <<>> /\ rx_buf_ = <<>>
  BY <1>1, <1>2, <1>3
<1>4. CASE raw \in Raws
  <2> DEFINE n == Len(raw)
             p == Prefix(raw)
             a == p[1]
             b == p[2]
  <2>1. raw \in Seq(Byte) /\ n \in 1 .. RawBufSize /\ Expected(p) = n
    BY <1>4, PrefixFacts
  <2>2. p = <<a, b>> /\ a = n \div 256 /\ b = n % 256
    BY DEF Prefix
  <2>3. a \in Byte /\ b \in Byte
    BY <2>1, <2>2, LinkRxAssumption DEF Byte
  <2> HIDE DEF a, b
  <2>4. /\ p \in Seq(Byte) /\ Len(p) = 2
        /\ <<a>> \in Seq(Byte) /\ Len(<<a>>) = 1
        /\ <<b>> \in Seq(Byte)
    BY <2>2, <2>3
  <2> HIDE DEF p
  <2>5. p \o raw \in Seq(Byte) /\ <<b>> \o raw \in Seq(Byte)
    BY <2>1, <2>4, ConcatProperties
  <2>6. CASE length_prefix_ = <<>> /\ rx_buf_ = <<>> /\ line = p \o raw
    BY <1>1, <1>2, <2>5, <2>6
  <2>7. CASE length_prefix_ = <<a>> /\ rx_buf_ = <<>> /\ line = <<b>> \o raw
    BY <1>1, <1>2, <2>4, <2>5, <2>7
  <2>8. CASE length_prefix_ = p /\ {rx_buf_, line} \subseteq Seq(Byte) /\ rx_buf_ \o line = raw
    <3>1. Len(rx_buf_) <= n
      <4>1. Len(rx_buf_ \o line) = Len(rx_buf_) + Len(line)
        BY <2>8, ConcatProperties
      <4>2. Len(rx_buf_) \in Nat /\ Len(line) \in Nat
        BY <2>8, LenProperties
      <4> QED
        BY <2>8, <4>1, <4>2
    <3>2. Len(rx_buf_) \in Nat
      BY <2>8, LenProperties
    <3> HIDE DEF n
    <3>3. Len(rx_buf_) <= EncBufSize
      BY <1>1, <2>1, <3>1, <3>2
    <3>4. rx_buf_ \in Seq(Byte) /\ line \in Seq(Byte) /\ length_prefix_ = p
      BY <2>8
    <3>5. Expected(p) \in 1 .. RawBufSize
      BY <2>1
    <3>6. length_prefix_ \in Seq(Byte) /\ Len(length_prefix_) = 2
      BY <2>4, <3>4
    <3>7. Expected(length_prefix_) \in 1 .. RawBufSize
      BY <3>4, <3>5
    <3> QED
      BY <3>3, <3>4, <3>6, <3>7
  <2> QED
    BY <1>3, <2>6, <2>7, <2>8 DEF InStep, p, a, b
<1> QED
  BY <1>3, <1>4 DEF InStep

LEMMA LinkInvTyped == LinkInv => TypeOK
<1> SUFFICES ASSUME LinkInv PROVE TypeOK
  OBVIOUS
<1>1. InStep /\ Typed
  BY DEF LinkInv
<1>2. CASE use_cobs
  <2>1. Len(<<>>) = 0 /\ <<>> \in Seq(Byte)
    OBVIOUS
  <2> QED
    BY <1>1, <1>2, <2>1 DEF Typed, TypeOK
<1>3. CASE ~use_cobs
  BY <1>1, <1>3, PrefixTyped DEF Typed, TypeOK
<1> QED
  BY <1>2, <1>3

LEMMA LinkAlways == Spec => []LinkInv
BY LinkInit, LinkInductive, PTL DEF Spec

\* The types of the framing: the buffer of the receiver never outgrows its array,
\* nor the length it has accepted what is kept for a raw frame.
THEOREM LinkTypeCorrect == Spec => []TypeOK
BY LinkAlways, LinkInvTyped, PTL

\* With COBS the third undamaged frame in a row is delivered, whatever was lost or
\* made up before and in whatever state that left the byte machine, with every
\* length of a block and every size of the buffer that holds an encoded frame.
THEOREM LinkCobsResynchronises == Spec => []CobsResynchronises
<1>1. LinkInv => CobsResynchronises
  BY DEF LinkInv, Resynchronising, CobsResynchronises
<1> QED
  BY <1>1, LinkAlways, PTL

\* With the length prefix every message that is not lost as a whole is delivered.
THEOREM LinkPrefixKeepsInStep == Spec => []PrefixKeepsInStep
<1>1. InStep => PrefixKeepsInStep
  <2> SUFFICES ASSUME InStep, ~use_cobs, line = <<>>, intact PROVE got
    BY DEF PrefixKeepsInStep
  <2>1. ASSUME raw \in Raws
        PROVE  line # Prefix(raw) \o raw /\ line # <<Prefix(raw)[2]>> \o raw
    BY <2>1, PrefixFacts
  <2> QED
    BY <2>1 DEF InStep
<1>2. LinkInv => InStep
  BY DEF LinkInv
<1> QED
  BY <1>1, <1>2, LinkAlways, PTL
--------------------------------------------------------------------------------
(* The codec *)

LEMMA ByteOfIsNumber ==
    ASSUME NEW bits
    PROVE  ByteOf(bits) \in Nat
<1> DEFINE Bit(n) == IF n - 1 \in bits THEN 2 ^ (n - 1) ELSE 0
           Low(low) == low = [n \in 0 .. 8 |-> IF n = 0 THEN 0 ELSE low[n - 1] + Bit(n)]
           In == [n \in 0 .. 8 |-> Nat]
           steps == [n \in 1 .. 8 |-> [s \in Nat |-> s + Bit(n)]]
<1>1. ASSUME NEW n \in 1 .. 8
      PROVE  Bit(n) \in Nat
  <2>1. 2^0 = 1 /\ 2^1 = 2 /\ 2^2 = 4 /\ 2^3 = 8 /\ 2^4 = 16 /\ 2^5 = 32 /\ 2^6 = 64 /\ 2^7 = 128
    OBVIOUS
  <2>2. \A k \in {0, 1, 2, 3, 4, 5, 6, 7} : 2 ^ k \in {2^0, 2^1, 2^2, 2^3, 2^4, 2^5, 2^6, 2^7}
    BY Zenon
  <2>3. n - 1 \in {0, 1, 2, 3, 4, 5, 6, 7}
    OBVIOUS
  <2>4. 2 ^ (n - 1) \in {1, 2, 4, 8, 16, 32, 64, 128}
    BY <2>1, <2>2, <2>3, Zenon
  <2>5. \A x \in {1, 2, 4, 8, 16, 32, 64, 128} : x \in Nat
    OBVIOUS
  <2>6. 2 ^ (n - 1) \in Nat
    BY <2>4, <2>5, Zenon
  <2> QED
    BY <2>6
<1> HIDE DEF Bit
<1>2. ASSUME NEW n \in 1 .. 8, NEW s \in In[n - 1]
      PROVE  steps[n][s] = s + Bit(n) /\ steps[n][s] \in In[n]
  <2>1. n \in 0 .. 8 /\ n - 1 \in 0 .. 8
    OBVIOUS
  <2>2. s \in Nat
    BY <2>1
  <2> QED
    BY <1>1, <2>1, <2>2
<1>3. 0 \in In[0]
  OBVIOUS
<1>4. PICK f : Carried(f, 8, 0, steps) /\ \A n \in 0 .. 8 : f[n] \in In[n]
  <2> HIDE DEF In, steps
  <2> QED
    BY <1>2, <1>3, CarriedOn
<1>5. Low(f)
  <2>1. ASSUME NEW n \in 0 .. 8
        PROVE  f[n] = IF n = 0 THEN 0 ELSE f[n - 1] + Bit(n)
    <3>1. CASE n = 0
      BY <1>4, <3>1 DEF Carried
    <3>2. CASE n # 0
      <4>1. n \in 1 .. 8 /\ n - 1 \in 0 .. 8
        BY <3>2
      <4>2. f[n] = steps[n][f[n - 1]] /\ f[n - 1] \in In[n - 1]
        BY <1>4, <4>1 DEF Carried
      <4> HIDE DEF steps, In
      <4> QED
        BY <1>2, <3>2, <4>1, <4>2
    <3> QED
      BY <3>1, <3>2
  <2> QED
    BY <1>4, <2>1 DEF Carried
<1>6. PICK low : Low(low) /\ ByteOf(bits) = low[8]
  BY <1>5 DEF ByteOf, Bit
<1> DEFINE T == {n \in 0 .. 8 : low[n] \in Nat}
<1>7. 0 \in T
  BY <1>6
<1>8. ASSUME NEW n \in 0 .. 8 - 1, n \in T
      PROVE  n + 1 \in T
  <2>1. n + 1 \in 1 .. 8 /\ n + 1 \in 0 .. 8 /\ n + 1 # 0 /\ (n + 1) - 1 = n
    OBVIOUS
  <2>2. low[n + 1] = low[n] + Bit(n + 1)
    BY <1>6, <2>1
  <2>3. low[n] \in Nat /\ Bit(n + 1) \in Nat
    BY <1>1, <1>8, <2>1
  <2> QED
    BY <2>1, <2>2, <2>3
<1>9. 0 .. 8 \subseteq T
  <2> HIDE DEF T
  <2> QED
    BY <1>7, <1>8, CountingUp
<1> QED
  BY <1>6, <1>9

LEMMA CrcBytesTyped ==
    ASSUME NEW data
    PROVE  /\ CrcBytes(data) \in Seq(Nat) /\ Len(CrcBytes(data)) = CrcSize
           /\ CrcSize \in Nat /\ CrcSize # 0
<1>1. CrcSize \in Nat /\ CrcSize # 0
  BY CrcAssumption DEF CrcSize
<1>2. CrcBytes(data) \in [1 .. CrcSize -> Nat]
  BY ByteOfIsNumber DEF CrcBytes, CrcSize
<1> HIDE DEF CrcSize
<1> QED
  BY <1>1, <1>2

\* What build_raw_frame_ put around a payload, extract_payload_from_raw_ takes off.
LEMMA PayloadTakenOut ==
    ASSUME NEW p \in Seq(Nat), NEW capacity \in Nat
    PROVE  PayloadOf(RawFrame(p), capacity) = IF Len(p) <= capacity THEN {p} ELSE {}
<1> DEFINE n == Len(p)
           c == CrcBytes(p)
           f == RawFrame(p)
           head == SubSeq(f, 1, n)
           tail == SubSeq(f, n + 1, Len(f))
<1>1. c \in Seq(Nat) /\ Len(c) = CrcSize /\ CrcSize \in Nat /\ n \in Nat
  BY CrcBytesTyped
<1>2. /\ f \in Seq(Nat) /\ Len(f) = n + CrcSize
      /\ \A i \in 1 .. n + CrcSize : f[i] = IF i <= n THEN p[i] ELSE c[i - n]
  <2> HIDE DEF c
  <2>1. /\ p \o c \in Seq(Nat) /\ Len(p \o c) = Len(p) + Len(c)
        /\ \A i \in 1 .. Len(p) + Len(c) : (p \o c)[i] = IF i <= Len(p) THEN p[i] ELSE c[i - Len(p)]
    BY <1>1, ConcatProperties
  <2>2. f = p \o c
    BY DEF RawFrame, c
  <2> HIDE DEF f
  <2> QED
    BY <1>1, <2>1, <2>2
<1> HIDE DEF c, f
<1>3. head = p
  <2>1. \A i \in 1 .. n : f[i] \in Nat
    <3>1. \A i \in 1 .. n : i \in 1 .. Len(f)
      BY <1>1, <1>2
    <3> QED
      BY <1>2, <3>1, ElementOfSeq
  <2>2. /\ head \in Seq(Nat) /\ Len(head) = IF 1 <= n THEN n - 1 + 1 ELSE 0
        /\ \A i \in 1 .. n - 1 + 1 : head[i] = f[1 + i - 1]
    BY <1>1, <2>1, SubSeqProperties
  <2> HIDE DEF head
  <2>3. Len(head) = n
    <3> HIDE DEF n
    <3> QED
      BY <1>1, <2>2
  <2>4. ASSUME NEW i \in 1 .. n
        PROVE  head[i] = p[i]
    <3>1. i \in 1 .. n - 1 + 1 /\ 1 + i - 1 = i /\ i \in 1 .. n + CrcSize /\ i <= n
      <4> HIDE DEF n
      <4> QED
        BY <1>1
    <3> QED
      BY <1>2, <2>2, <3>1
  <2> QED
    BY <2>2, <2>3, <2>4, SeqEqual
<1>4. tail = c
  <2> DEFINE l == Len(f)
  <2>1. \A i \in n + 1 .. l : f[i] \in Nat
    <3>1. \A i \in n + 1 .. l : i \in 1 .. Len(f)
      BY <1>1, <1>2
    <3> QED
      BY <1>2, <3>1, ElementOfSeq
  <2>2. n + 1 \in Int /\ l \in Int /\ l = n + CrcSize
    BY <1>1, <1>2
  <2> HIDE DEF n, l
  <2>3. /\ tail \in Seq(Nat) /\ Len(tail) = IF n + 1 <= l THEN l - (n + 1) + 1 ELSE 0
        /\ \A i \in 1 .. l - (n + 1) + 1 : tail[i] = f[(n + 1) + i - 1]
    BY <2>1, <2>2, SubSeqProperties DEF l
  <2> HIDE DEF tail
  <2>4. Len(tail) = CrcSize
    BY <1>1, <2>2, <2>3
  <2>5. ASSUME NEW i \in 1 .. CrcSize
        PROVE  tail[i] = c[i]
    <3>1. /\ i \in 1 .. l - (n + 1) + 1 /\ (n + 1) + i - 1 = n + i
          /\ n + i \in 1 .. n + CrcSize /\ ~(n + i <= n) /\ (n + i) - n = i
      BY <1>1, <2>2
    <3> QED
      BY <1>2, <2>3, <3>1
  <2> QED
    BY <1>1, <2>3, <2>4, <2>5, SeqEqual
<1>5. Len(f) - CrcSize = n /\ Len(f) >= CrcSize
  <2> HIDE DEF n
  <2> QED
    BY <1>1, <1>2
<1> HIDE DEF n
<1>6. PayloadOf(f, capacity) = IF n <= capacity THEN {p} ELSE {}
  BY <1>3, <1>4, <1>5 DEF PayloadOf, c
<1> QED
  BY <1>6 DEF f, n

\* Every payload comes out of decode_frame as it went into encode_frame, with any
\* CRC and any length of a block; only a payload whose raw frame does not fit into
\* raw_buf is refused.
THEOREM CodecReadsBack == PayloadsReadBack
<1> SUFFICES ASSUME NEW p \in Payloads
             PROVE  LET n == Len(p)
                        frame == EncodeFrame(p, LongestEncoding(n + CrcSize))
                        enc == Front(frame)
                    IN IF n + CrcSize > RawMax THEN frame = <<>>
                       ELSE /\ frame # <<>> /\ Last(frame) = 0
                            /\ \A i \in DOMAIN enc : enc[i] # 0
                            /\ DecodeFrame(enc, n) = {p}
                            /\ n > 0 => DecodeFrame(enc, n - 1) = {}
  BY DEF PayloadsReadBack
<1> DEFINE n == Len(p)
           r == RawFrame(p)
           e == Encode(r)
           size == LongestEncoding(n + CrcSize)
           frame == EncodeFrame(p, size)
<1>1. p \in Seq(Nat) /\ n \in Nat
  <2>1. p \in Seq(0 .. 255) /\ 0 .. 255 \subseteq Nat
    BY CodecAssumption
  <2>2. p \in Seq(Nat)
    BY ONLY <2>1, SeqMonotonic
  <2> QED
    BY <2>2
<1>2. Alphabet(Nat)
  BY CobsAssumption DEF Alphabet
<1>3. r \in Seq(Nat) /\ Len(r) = n + CrcSize /\ CrcSize \in Nat /\ r # <<>>
  <2> DEFINE c == CrcBytes(p)
  <2>1. c \in Seq(Nat) /\ Len(c) = CrcSize /\ CrcSize \in Nat /\ CrcSize # 0
    BY CrcBytesTyped
  <2> HIDE DEF c
  <2>2. p \o c \in Seq(Nat) /\ Len(p \o c) = Len(p) + Len(c)
    BY <1>1, <2>1, ConcatProperties
  <2>3. r = p \o c
    BY DEF RawFrame, c
  <2> HIDE DEF r
  <2>4. Len(r) = n + CrcSize
    BY <2>1, <2>2, <2>3
  <2>5. Len(r) # 0
    <3> HIDE DEF n
    <3> QED
      BY <1>1, <2>1, <2>4
  <2> QED
    BY <2>1, <2>2, <2>3, <2>4, <2>5
<1> HIDE DEF r
<1>4. e \in Seq(Nat \ {0}) /\ Len(e) \in Len(r) + 1 .. LongestEncoding(Len(r))
  BY <1>2, <1>3, EncodeFacts
<1>s. size \in Nat
  <2>1. n + CrcSize \in Nat
    <3> HIDE DEF n
    <3> QED
      BY <1>1, <1>3
  <2> QED
    BY ONLY <2>1, LongestIsNat
<1>5. Len(e) <= size /\ size # 0
  <2>1. Len(e) \in n + CrcSize + 1 .. size
    BY <1>3, <1>4
  <2>2. size \in Nat
    BY <1>s
  <2> HIDE DEF size, e, n
  <2> QED
    BY <1>1, <1>3, <2>1, <2>2
<1>6. RawMax \in Nat /\ Len(r) \in Nat
  BY <1>3, CodecAssumption
<1> HIDE DEF size
<1>7. CASE n + CrcSize > RawMax
  <2>1. frame = <<>>
    BY <1>3, <1>7 DEF EncodeFrame, r
  <2> QED
    BY <1>7, <2>1 DEF size
<1>8. CASE ~(n + CrcSize > RawMax)
  <2>1. Len(r) <= RawMax
    BY <1>3, <1>6, <1>8
  <2>2. frame = Append(e, 0)
    <3>1. ~(size = 0 \/ Len(r) > RawMax \/ Len(e) > size)
      <4>1. ~(Len(r) > RawMax)
        BY <1>3, <1>8
      <4>2. ~(Len(e) > size)
        <5>1. size \in Nat /\ Len(e) \in Nat
          <6> QED
            BY <1>4, <1>s, LenProperties
        <5> HIDE DEF e
        <5> QED
          BY <1>5, <5>1
      <4> QED
        BY <1>5, <4>1, <4>2
    <3> QED
      BY <3>1 DEF EncodeFrame, r
  <2>3. Decode(e, RawMax) = {r}
    BY <1>2, <1>3, <2>1, CobsRoundTrip
  <2> HIDE DEF e, frame
  <2>4. e \in Seq(Nat) /\ Len(e) \in Nat
    BY <1>4, SeqMonotonic, LenProperties
  <2>5. /\ frame \in Seq(Nat) /\ Len(frame) = Len(e) + 1 /\ frame[Len(e) + 1] = 0
        /\ \A i \in 1 .. Len(e) : frame[i] = e[i]
    BY <2>2, <2>4, AppendProperties
  <2>6. frame # <<>> /\ Last(frame) = 0
    <3>1. Len(frame) # 0
      BY <2>4, <2>5
    <3> QED
      BY <2>5, <3>1 DEF Last
  <2>7. Front(frame) = e
    <3>1. Front(frame) = SubSeq(frame, 1, Len(e))
      BY <2>4, <2>5 DEF Front
    <3>2. SubSeq(Append(e, 0), 1, Len(e)) = e
      BY <2>4
    <3> QED
      BY <2>2, <3>1, <3>2
  <2>8. \A i \in DOMAIN e : e[i] # 0
    <3>1. DOMAIN e = 1 .. Len(e)
      BY <2>4
    <3>2. \A i \in 1 .. Len(e) : e[i] \in Nat \ {0}
      BY <1>4, ElementOfSeq
    <3> QED
      BY <3>1, <3>2
  <2>9. ASSUME NEW capacity
        PROVE  DecodeFrame(e, capacity) = PayloadOf(r, capacity)
    <3>1. DecodeFrame(e, capacity) = UNION {PayloadOf(decoded, capacity) : decoded \in {r}}
      BY <2>3 DEF DecodeFrame
    <3> QED
      BY <3>1
  <2>10. DecodeFrame(e, n) = {p}
    BY <1>1, <2>9, PayloadTakenOut DEF r
  <2>11. ASSUME n > 0
         PROVE  DecodeFrame(e, n - 1) = {}
    <3>1. n - 1 \in Nat /\ ~(n <= n - 1)
      BY <1>1, <2>11
    <3>2. PayloadOf(r, n - 1) = IF n <= n - 1 THEN {p} ELSE {}
      BY <1>1, <3>1, PayloadTakenOut DEF r
    <3> QED
      BY <2>9, <3>1, <3>2
  <2> QED
    BY <1>8, <2>6, <2>7, <2>8, <2>10, <2>11 DEF frame, size
<1> QED
  BY <1>7, <1>8

\* What the framing sends is read back, and so is what the codec makes.
THEOREM LinkFramesReadBack == Spec => []FramesReadBack
<1>1. TypeOK => FramesReadBack
  BY EncodingFits, CodecReadsBack DEF TypeOK, FramesReadBack
<1> QED
  BY <1>1, LinkTypeCorrect, PTL
================================================================================
