---------------------------- MODULE Stm32UartProofs ----------------------------
(***************************************************************************)
(* STM32UARTAdapter sends whole frames, for every frame length and number   *)
(* of sends, except where an error interrupt or the handler disturbs a send. *)
(***************************************************************************)
EXTENDS Stm32Uart, SequenceTheorems, TLAPS

TxRecord == [call : 0 .. MaxSends, sent : Seq(0 .. MaxSends)]
MainRecord == [at : Step, call : 0 .. MaxSends, copied : 0 .. FrameLen]

\* A send() in progress has a number, and so has a transmission.
CallInv ==
    /\ main.at = "idle" => main = Idle
    /\ main.at # "idle" => main.call \in Call
    /\ main.at \in {"transmit", "refused"} => main.copied = FrameLen
    /\ tx # NoTx => tx.call \in Call

\* The buffer belongs to one call at a time: to send() while it copies, then to
\* the HAL until the last byte is out.
BufferInv ==
    ~disturbed =>
        /\ main.at \in {"copy", "transmit"} =>
              /\ tx = NoTx
              /\ \A i \in 1 .. main.copied : tx_buffer_[i] = main.call
        /\ main.at = "transmit" => tx_busy_
        /\ main.at # "refused"
        /\ tx # NoTx =>
              /\ tx_busy_
              /\ main = Idle
              /\ \A i \in Cells : tx_buffer_[i] = tx.call
              /\ \A i \in 1 .. Len(tx.sent) : tx.sent[i] = tx.call

UartInv == TypeOK /\ CallInv /\ BufferInv /\ WholeUnlessDisturbed

LEMMA Constants == MaxSends \in Nat /\ MaxErrors \in Nat /\ FrameLen \in Nat \ {0}
BY UartAssumption

LEMMA NoTxFacts == NoTx \in TxRecord /\ Len(NoTx.sent) = 0 /\ NoTx.call = 0
BY Constants DEF NoTx, TxRecord

LEMMA IdleFacts == Idle \in MainRecord /\ Idle.at = "idle"
<1>1. 0 \in 0 .. MaxSends /\ 0 \in 0 .. FrameLen
  BY Constants
<1> QED
  BY <1>1 DEF Idle, MainRecord, Step

LEMMA NewTx ==
    ASSUME NEW n \in Call
    PROVE  LET t == [call |-> n, sent |-> <<>>]
           IN t \in TxRecord /\ Len(t.sent) = 0 /\ t # NoTx /\ t.call = n
<1>1. n \in 0 .. MaxSends /\ n # 0
  BY Constants DEF Call
<1>2. [call |-> n, sent |-> <<>>].call # NoTx.call
  BY <1>1 DEF NoTx
<1> QED
  BY <1>1, <1>2 DEF TxRecord

LEMMA UartInit == Init => UartInv
<1> SUFFICES ASSUME Init PROVE UartInv
  OBVIOUS
<1>1. 0 \in 0 .. MaxSends /\ 0 \in 0 .. MaxErrors /\ 0 <= FrameLen
  BY Constants
<1>2. tx \in TxRecord /\ Len(tx.sent) <= FrameLen /\ main \in MainRecord
  BY <1>1, NoTxFacts, IdleFacts DEF Init
<1>3. TypeOK
  <2>1. /\ initialized_ \in BOOLEAN
        /\ buffer_rx_in_interrupt \in BOOLEAN
        /\ tx_busy_ \in BOOLEAN
        /\ uart_errors \in BOOLEAN
        /\ rx_in_progress \in BOOLEAN
        /\ disturbed \in BOOLEAN
    BY DEF Init
  <2>2. calls \in 0 .. MaxSends /\ errors \in 0 .. MaxErrors
    BY <1>1 DEF Init
  <2>3. tx_buffer_ \in [Cells -> 0 .. MaxSends]
    BY <1>1 DEF Init
  <2>4. frames \in Seq([call : Call, cells : Seq(0 .. MaxSends), disturbed : BOOLEAN])
    BY DEF Init
  <2> QED
    BY <1>2, <2>1, <2>2, <2>3, <2>4 DEF TypeOK, TxRecord, MainRecord
<1>4. CallInv /\ BufferInv /\ WholeUnlessDisturbed
  BY IdleFacts DEF Init, CallInv, BufferInv, WholeUnlessDisturbed
<1> QED
  BY <1>3, <1>4 DEF UartInv

LEMMA UartInductive == UartInv /\ [Next]_vars => UartInv'
<1> SUFFICES ASSUME UartInv, [Next]_vars PROVE UartInv'
  OBVIOUS
<1>t. TypeOK /\ CallInv /\ BufferInv /\ WholeUnlessDisturbed
  BY DEF UartInv
<1>r. tx \in TxRecord /\ main \in MainRecord /\ Len(tx.sent) \in Nat /\ Len(tx.sent) <= FrameLen
  BY <1>t DEF TypeOK, TxRecord, MainRecord
<1>w. frames' = frames => WholeUnlessDisturbed'
  BY <1>t DEF WholeUnlessDisturbed
<1>1. CASE InitAdapter
  <2>1. TypeOK'
    BY <1>1, <1>t DEF InitAdapter, TypeOK, setup, mainVars, observers
  <2>2. CallInv' /\ BufferInv' /\ WholeUnlessDisturbed'
    BY <1>1, <1>t, <1>w DEF InitAdapter, CallInv, BufferInv, mainVars, observers
  <2> QED
    BY <2>1, <2>2 DEF UartInv
<1>2. CASE SendBegin
  <2>1. calls + 1 \in Call /\ calls + 1 \in 0 .. MaxSends /\ 0 \in 0 .. FrameLen
    BY <1>2, <1>t, Constants DEF SendBegin, Call, TypeOK
  <2>2. /\ main' \in MainRecord
        /\ main'.at = "copy"
        /\ main'.copied = 0
        /\ main'.call \in Call
    BY <1>2, <2>1 DEF SendBegin, MainRecord, Step
  <2>3. TypeOK'
    BY <1>2, <1>t, <2>1, <2>2 DEF SendBegin, TypeOK, MainRecord, setup, halVars, observers
  <2>4. CallInv' /\ WholeUnlessDisturbed'
    BY <1>2, <1>t, <1>w, <2>2 DEF SendBegin, CallInv, halVars, observers
  <2>5. BufferInv'
    BY <1>2, <1>t, <2>2 DEF SendBegin, BufferInv, halVars, observers
  <2> QED
    BY <2>3, <2>4, <2>5 DEF UartInv
<1>3. CASE SendCopy
  <2>1. /\ main.at = "copy"
        /\ main.copied \in 0 .. FrameLen
        /\ main.copied < FrameLen
        /\ main.call \in Call
        /\ main.call \in 0 .. MaxSends
    BY <1>3, <1>t, <1>r DEF SendCopy, MainRecord, CallInv
  <2>2. main.copied + 1 \in 0 .. FrameLen /\ main.copied + 1 \in Cells
    BY <2>1, Constants DEF Cells
  <2>3. /\ main' \in MainRecord
        /\ main'.at = "copy"
        /\ main'.copied = main.copied + 1
        /\ main'.call = main.call
    BY <1>3, <1>r, <2>1, <2>2 DEF SendCopy, MainRecord
  <2>4. /\ tx_buffer_' = [tx_buffer_ EXCEPT ![main.copied + 1] = main.call]
        /\ tx_buffer_ \in [Cells -> 0 .. MaxSends]
        /\ tx_buffer_' \in [Cells -> 0 .. MaxSends]
    BY <1>3, <1>t, <2>1, <2>2 DEF SendCopy, TypeOK
  <2>5. TypeOK'
    BY <1>3, <1>t, <2>3, <2>4 DEF SendCopy, TypeOK, MainRecord, setup, halVars, observers
  <2>6. CallInv' /\ WholeUnlessDisturbed'
    BY <1>3, <1>t, <1>w, <2>1, <2>3 DEF SendCopy, CallInv, halVars, observers
  <2>7. BufferInv'
    <3>1. ASSUME ~disturbed
          PROVE  tx' = NoTx /\ \A i \in 1 .. main'.copied : tx_buffer_'[i] = main'.call
      <4>1. tx = NoTx /\ \A i \in 1 .. main.copied : tx_buffer_[i] = main.call
        BY <1>t, <2>1, <3>1 DEF BufferInv
      <4>2. tx' = tx
        BY <1>3 DEF SendCopy, halVars
      <4>3. ASSUME NEW i \in 1 .. main'.copied PROVE tx_buffer_'[i] = main'.call
        <5>1. i \in Cells /\ (i \in 1 .. main.copied \/ i = main.copied + 1)
          BY <2>1, <2>2, <2>3, Constants DEF Cells
        <5>2. CASE i = main.copied + 1
          BY <2>2, <2>3, <2>4, <5>2
        <5>3. CASE i \in 1 .. main.copied /\ i # main.copied + 1
          BY <2>3, <2>4, <4>1, <5>1, <5>3
        <5> QED
          BY <5>1, <5>2, <5>3
      <4> QED
        BY <4>1, <4>2, <4>3
    <3> QED
      BY <1>3, <2>3, <3>1 DEF SendCopy, BufferInv, observers
  <2> QED
    BY <2>5, <2>6, <2>7 DEF UartInv
<1>4. CASE SendMark
  <2>1. /\ main' \in MainRecord
        /\ main'.at = "transmit"
        /\ main'.copied = FrameLen
        /\ main'.copied = main.copied
        /\ main'.call = main.call
    BY <1>4, <1>r DEF SendMark, MainRecord, Step
  <2>2. TypeOK'
    BY <1>4, <1>t, <2>1 DEF SendMark, TypeOK, MainRecord, setup, halVars, observers
  <2>3. CallInv' /\ WholeUnlessDisturbed'
    BY <1>4, <1>t, <1>w, <2>1 DEF SendMark, CallInv, halVars, observers
  <2>4. BufferInv'
    BY <1>4, <1>t, <2>1 DEF SendMark, BufferInv, halVars, observers
  <2> QED
    BY <2>2, <2>3, <2>4 DEF UartInv
<1>5. CASE SendTransmit
  <2>0. main.at = "transmit" /\ main.call \in Call /\ main.copied = FrameLen
    BY <1>5, <1>t DEF SendTransmit, CallInv
  <2>1. CASE tx = NoTx /\ tx' = [call |-> main.call, sent |-> <<>>] /\ main' = Idle
    <3>1. tx' \in TxRecord /\ Len(tx'.sent) = 0 /\ tx' # NoTx /\ tx'.call = main.call
      BY <2>0, <2>1, NewTx
    <3>2. TypeOK'
      BY <1>5, <1>t, <2>1, <3>1, IdleFacts, Constants
      DEF SendTransmit, TypeOK, setup, MainRecord, TxRecord, observers
    <3>3. CallInv' /\ WholeUnlessDisturbed'
      BY <1>5, <1>t, <1>w, <2>0, <2>1, <3>1, IdleFacts DEF SendTransmit, CallInv, observers
    <3>4. BufferInv'
      BY <1>5, <1>t, <2>0, <2>1, <3>1, IdleFacts
      DEF SendTransmit, BufferInv, observers, Cells
    <3> QED
      BY <3>2, <3>3, <3>4 DEF UartInv
  <2>2. CASE tx # NoTx /\ main' = [main EXCEPT !.at = "refused"] /\ tx' = tx
    <3>1. /\ main' \in MainRecord
          /\ main'.at = "refused"
          /\ main'.copied = main.copied
          /\ main'.call = main.call
      BY <1>r, <2>2 DEF MainRecord, Step
    <3>2. disturbed
      BY <1>t, <2>0, <2>2 DEF BufferInv
    <3>3. TypeOK'
      BY <1>5, <1>t, <2>2, <3>1 DEF SendTransmit, TypeOK, setup, MainRecord, observers
    <3>4. CallInv' /\ BufferInv' /\ WholeUnlessDisturbed'
      BY <1>5, <1>t, <1>w, <2>0, <2>2, <3>1, <3>2
      DEF SendTransmit, CallInv, BufferInv, observers
    <3> QED
      BY <3>3, <3>4 DEF UartInv
  <2> QED
    BY <1>5, <2>1, <2>2 DEF SendTransmit
<1>6. CASE SendRefused
  <2>1. TypeOK'
    BY <1>6, <1>t, IdleFacts DEF SendRefused, TypeOK, setup, MainRecord, halVars
  <2>2. CallInv' /\ BufferInv' /\ WholeUnlessDisturbed'
    BY <1>6, <1>t, <1>w, IdleFacts DEF SendRefused, CallInv, BufferInv, halVars
  <2> QED
    BY <2>1, <2>2 DEF UartInv
<1>7. CASE Shift
  <2> DEFINE k == Len(tx.sent) + 1
             b == tx_buffer_[k]
  <2>1. tx # NoTx /\ Len(tx.sent) < FrameLen /\ tx' = [tx EXCEPT !.sent = Append(tx.sent, b)]
    BY <1>7 DEF Shift
  <2>2. k \in Cells
    BY <1>r, <2>1, Constants DEF Cells
  <2>3. b \in 0 .. MaxSends
    BY <1>t, <2>2 DEF TypeOK
  <2>4. tx.sent \in Seq(0 .. MaxSends)
    BY <1>r DEF TxRecord
  <2>5. /\ Append(tx.sent, b) \in Seq(0 .. MaxSends)
        /\ Len(Append(tx.sent, b)) = k
        /\ \A i \in 1 .. Len(tx.sent) : Append(tx.sent, b)[i] = tx.sent[i]
        /\ Append(tx.sent, b)[k] = b
    BY <2>3, <2>4, AppendProperties
  <2>6. tx' \in TxRecord /\ tx'.call = tx.call /\ tx'.sent = Append(tx.sent, b)
    BY <1>r, <2>1, <2>5 DEF TxRecord
  <2>7. Len(tx'.sent) <= FrameLen
    BY <2>2, <2>5, <2>6, Constants DEF Cells
  <2>8. tx' # NoTx /\ tx.call \in Call
    <3>1. tx.call \in Call
      BY <1>t, <2>1 DEF CallInv
    <3>2. tx'.call # 0
      BY <2>6, <3>1 DEF Call
    <3> QED
      BY <3>1, <3>2, NoTxFacts
  <2>9. TypeOK'
    BY <1>7, <1>t, <2>6, <2>7 DEF Shift, TypeOK, TxRecord, setup, mainVars, observers
  <2>10. CallInv' /\ WholeUnlessDisturbed'
    BY <1>7, <1>t, <1>w, <2>6, <2>8 DEF Shift, CallInv, mainVars, observers
  <2>11. BufferInv'
    <3>1. ASSUME ~disturbed
          PROVE  /\ tx_busy_ /\ main = Idle
                 /\ \A i \in Cells : tx_buffer_[i] = tx.call
                 /\ \A i \in 1 .. Len(tx'.sent) : tx'.sent[i] = tx.call
      <4>1. /\ tx_busy_ /\ main = Idle
            /\ \A i \in Cells : tx_buffer_[i] = tx.call
            /\ \A i \in 1 .. Len(tx.sent) : tx.sent[i] = tx.call
        BY <1>t, <2>1, <3>1 DEF BufferInv
      <4>2. \A i \in 1 .. k : i \in 1 .. Len(tx.sent) \/ i = k
        BY <1>r
      <4>3. b = tx.call
        BY <2>2, <4>1
      <4> HIDE DEF k, b
      <4>4. \A i \in 1 .. k : tx'.sent[i] = tx.call
        BY <2>5, <2>6, <4>1, <4>2, <4>3
      <4> QED
        BY <2>5, <2>6, <4>1, <4>4
    <3>2. UNCHANGED <<disturbed, tx_busy_, tx_buffer_, main>>
      BY <1>7 DEF Shift, mainVars, observers
    <3> HIDE DEF k, b
    <3> QED
      BY <2>6, <3>1, <3>2, IdleFacts DEF BufferInv
  <2> QED
    BY <2>9, <2>10, <2>11 DEF UartInv
<1>8. CASE TxComplete
  <2> DEFINE f == [call |-> tx.call, cells |-> tx.sent, disturbed |-> disturbed]
             FrameRecord == [call : Call, cells : Seq(0 .. MaxSends), disturbed : BOOLEAN]
  <2>1. tx # NoTx /\ Len(tx.sent) = FrameLen /\ frames' = Append(frames, f)
    BY <1>8 DEF TxComplete
  <2>2. f \in FrameRecord /\ frames \in Seq(FrameRecord)
    BY <1>t, <1>r, <2>1 DEF TypeOK, CallInv, TxRecord
  <2>3. /\ frames' \in Seq(FrameRecord)
        /\ Len(frames) \in Nat
        /\ Len(frames') = Len(frames) + 1
        /\ \A j \in 1 .. Len(frames) : frames'[j] = frames[j]
        /\ frames'[Len(frames) + 1] = f
    BY <2>1, <2>2, AppendProperties
  <2>4. TypeOK'
    <3> HIDE DEF f
    <3>1. tx' \in TxRecord /\ Len(tx'.sent) <= FrameLen
      BY <1>8, NoTxFacts, Constants DEF TxComplete
    <3>2. disturbed' \in BOOLEAN /\ tx_busy_' \in BOOLEAN
      BY <1>8 DEF TxComplete
    <3>3. UNCHANGED <<setup, tx_buffer_, uart_errors, mainVars, rx_in_progress, errors>>
      BY <1>8 DEF TxComplete
    <3> QED
      BY <1>t, <2>3, <3>1, <3>2, <3>3 DEF TypeOK, setup, TxRecord, mainVars
  <2>5. CallInv'
    BY <1>8, <1>t DEF TxComplete, CallInv, mainVars
  <2>6. BufferInv'
    BY <1>8, <1>t, <2>1, IdleFacts DEF TxComplete, BufferInv, mainVars
  <2>7. ~disturbed => \A i \in 1 .. FrameLen : f.cells[i] = f.call
    BY <1>t, <2>1 DEF BufferInv
  <2>8. WholeUnlessDisturbed'
    <3> HIDE DEF f
    <3>1. ASSUME NEW j \in 1 .. Len(frames'), ~frames'[j].disturbed
          PROVE  \A i \in 1 .. FrameLen : frames'[j].cells[i] = frames'[j].call
      <4>1. j \in 1 .. Len(frames) \/ j = Len(frames) + 1
        BY <2>3
      <4>2. CASE j \in 1 .. Len(frames)
        BY <1>t, <2>3, <3>1, <4>2 DEF WholeUnlessDisturbed
      <4>3. CASE j = Len(frames) + 1
        BY <2>3, <2>7, <3>1, <4>3 DEF f
      <4> QED
        BY <4>1, <4>2, <4>3
    <3> QED
      BY <3>1 DEF WholeUnlessDisturbed
  <2> QED
    BY <2>4, <2>5, <2>6, <2>8 DEF UartInv
<1>9. CASE RxComplete
  <2>1. TypeOK'
    BY <1>9, <1>t DEF RxComplete, TypeOK, setup, mainVars, observers
  <2>2. CallInv' /\ BufferInv' /\ WholeUnlessDisturbed'
    BY <1>9, <1>t, <1>w DEF RxComplete, CallInv, BufferInv, mainVars, observers
  <2> QED
    BY <2>1, <2>2 DEF UartInv
<1>10. CASE Error
  <2>1. errors' \in 0 .. MaxErrors
    BY <1>10, <1>t, Constants DEF Error, TypeOK
  <2>2. TypeOK'
    BY <1>10, <1>t, <2>1 DEF Error, TypeOK, setup, mainVars
  <2>3. CallInv' /\ BufferInv' /\ WholeUnlessDisturbed'
    BY <1>10, <1>t, <1>w DEF Error, CallInv, BufferInv, mainVars
  <2> QED
    BY <2>2, <2>3 DEF UartInv
<1>11. CASE RxCompleteSends
  <2> DEFINE n == calls + 1
             new == [call |-> n, sent |-> <<>>]
  <2>1. n \in Call /\ n \in 0 .. MaxSends
    BY <1>11, <1>t, Constants DEF RxCompleteSends, Call, TypeOK
  <2>2. new \in TxRecord /\ Len(new.sent) = 0 /\ new # NoTx /\ new.call = n
    BY <2>1, NewTx
  <2>3. /\ tx' = IF tx = NoTx THEN new ELSE tx
        /\ tx_buffer_' = [i \in Cells |-> n]
        /\ tx_busy_' = (tx = NoTx)
        /\ disturbed' = (disturbed \/ main # Idle)
        /\ ~tx_busy_
        /\ calls' = n
        /\ UNCHANGED <<setup, main, frames, errors>>
    BY <1>11 DEF RxCompleteSends
  <2>4. uart_errors' \in BOOLEAN /\ rx_in_progress' \in BOOLEAN
    BY <1>11 DEF RxCompleteSends
  <2> HIDE DEF n, new
  <2>5. TypeOK'
    <3>1. tx' \in TxRecord /\ Len(tx'.sent) <= FrameLen
      BY <1>r, <2>2, <2>3, Constants
    <3>2. tx_buffer_' \in [Cells -> 0 .. MaxSends]
      BY <2>1, <2>3
    <3>3. tx_busy_' \in BOOLEAN /\ disturbed' \in BOOLEAN
      BY <2>3
    <3> QED
      BY <1>t, <2>1, <2>3, <2>4, <3>1, <3>2, <3>3 DEF TypeOK, TxRecord, setup
  <2>6. CallInv'
    BY <1>t, <2>1, <2>2, <2>3 DEF CallInv
  <2>7. BufferInv'
    <3> SUFFICES ASSUME ~disturbed' PROVE BufferInv'
      BY DEF BufferInv
    <3>1. ~disturbed /\ main = Idle /\ main' = Idle /\ tx = NoTx
      BY <1>t, <2>3 DEF BufferInv
    <3>2. tx' = new /\ tx_busy_' /\ \A i \in Cells : tx_buffer_'[i] = tx'.call
      BY <2>2, <2>3, <3>1
    <3> QED
      BY <2>2, <3>1, <3>2, IdleFacts DEF BufferInv
  <2>8. WholeUnlessDisturbed'
    BY <1>w, <2>3
  <2> QED
    BY <2>5, <2>6, <2>7, <2>8 DEF UartInv
<1>12. CASE UNCHANGED vars
  BY <1>12, <1>t, <1>w
  DEF vars, setup, mainVars, halVars, observers, UartInv, TypeOK, CallInv, BufferInv
<1> QED
  BY <1>1, <1>2, <1>3, <1>4, <1>5, <1>6, <1>7, <1>8, <1>9, <1>10, <1>11, <1>12 DEF Next

LEMMA UartInvariant == Spec => []UartInv
BY UartInit, UartInductive, PTL DEF Spec

\* The adapter's state has its type: the copy of send() and the HAL stay inside
\* the frame.
THEOREM UartTypeCorrect == Spec => []TypeOK
<1>1. UartInv => TypeOK
  BY DEF UartInv
<1> QED
  BY UartInvariant, <1>1, PTL

\* tx_busy_ protects tx_buffer_ while the HAL reads it, unless an error interrupt
\* took it away or the handler sent in the middle of a send().
THEOREM UartProtectedWhileTransmitting == Spec => []ProtectedWhileTransmitting
<1>1. UartInv => ProtectedWhileTransmitting
  BY DEF UartInv, BufferInv, ProtectedWhileTransmitting
<1> QED
  BY UartInvariant, <1>1, PTL

\* A frame is on the wire as it was given to send(), with the same exceptions.
THEOREM UartWholeUnlessDisturbed == Spec => []WholeUnlessDisturbed
<1>1. UartInv => WholeUnlessDisturbed
  BY DEF UartInv
<1> QED
  BY UartInvariant, <1>1, PTL

\* Whoever switches reception off without switching it on again counts an error.
THEOREM UartDeafnessIsCounted == Spec => []DeafnessIsCounted
<1>1. Init => DeafnessIsCounted
  BY DEF Init, DeafnessIsCounted
<1>2. DeafnessIsCounted /\ [Next]_vars => DeafnessIsCounted'
  <2> SUFFICES ASSUME DeafnessIsCounted, [Next]_vars PROVE DeafnessIsCounted'
    OBVIOUS
  <2>1. CASE InitAdapter
    <3>1. CASE UNCHANGED <<initialized_, rx_in_progress>>
      BY <2>1, <3>1 DEF InitAdapter, DeafnessIsCounted
    <3>2. CASE \E started \in {FALSE, ~rx_in_progress} :
                  /\ initialized_' = started
                  /\ rx_in_progress' = (rx_in_progress \/ started)
      <4>1. PICK started \in {FALSE, ~rx_in_progress} :
                  /\ initialized_' = started
                  /\ rx_in_progress' = (rx_in_progress \/ started)
        BY <3>2
      <4>2. initialized_' => rx_in_progress'
        BY ONLY <4>1, Zenon
      <4> QED
        BY <4>2, Zenon DEF DeafnessIsCounted
    <3> QED
      BY <2>1, <3>1, <3>2 DEF InitAdapter
  <2>2. CASE RxComplete
    <3>1. PICK started \in BOOLEAN : /\ rx_in_progress' = started
                                    /\ uart_errors' = (uart_errors \/ ~started)
      BY <2>2 DEF RxComplete
    <3>2. CASE started
      BY <3>1, <3>2 DEF DeafnessIsCounted
    <3>3. CASE ~started
      BY <3>1, <3>3 DEF DeafnessIsCounted
    <3> QED
      BY <3>2, <3>3
  <2>2a. CASE RxCompleteSends
    <3>1. PICK started \in BOOLEAN :
             /\ rx_in_progress' = started
             /\ uart_errors' = (uart_errors \/ tx # NoTx \/ ~started)
      BY <2>2a DEF RxCompleteSends
    <3> QED
      BY <3>1 DEF DeafnessIsCounted
  <2>3. CASE SendRefused \/ Error
    BY <2>3 DEF SendRefused, Error, DeafnessIsCounted
  <2>4. ASSUME UNCHANGED <<initialized_, rx_in_progress, uart_errors>>
        PROVE  DeafnessIsCounted'
    BY <2>4 DEF DeafnessIsCounted
  <2>5. CASE SendBegin \/ SendCopy \/ SendMark \/ SendTransmit \/ Shift \/ TxComplete
    BY <2>4, <2>5 DEF SendBegin, SendCopy, SendMark, SendTransmit, Shift, TxComplete,
                      setup, halVars, observers
  <2>6. CASE UNCHANGED vars
    BY <2>4, <2>6 DEF vars, setup, halVars
  <2> QED
    BY <2>1, <2>2, <2>2a, <2>3, <2>5, <2>6 DEF Next
<1> QED
  BY <1>1, <1>2, PTL DEF Spec
================================================================================
