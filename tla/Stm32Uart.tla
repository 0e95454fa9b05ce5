------------------------------- MODULE Stm32Uart -------------------------------
(***************************************************************************)
(* Transmission and the control of reception in STM32UARTAdapter.  send()   *)
(* runs in the main loop; the HAL's interrupts can come between any two of  *)
(* its memory accesses and call on_tx_complete_, on_rx_complete_ and        *)
(* on_error_, which do not interrupt each other.  Without                   *)
(* buffer_rx_in_interrupt the receive handler runs in the interrupt, and    *)
(* may call send() there.  (The ring the received bytes go through with it  *)
(* is the module RxRing.)                                                   *)
(*                                                                          *)
(* A frame is FrameLen bytes, each known by the send() call it belongs to,  *)
(* so that bytes of two calls in one frame can be seen.                     *)
(***************************************************************************)
EXTENDS Naturals, Sequences

CONSTANTS
    FrameLen,     \* bytes of a frame
    MaxSends,     \* bound on the send() calls that get past the guard
    MaxErrors     \* bound on the error interrupts

ASSUME UartAssumption == FrameLen \in Nat \ {0} /\ MaxSends \in Nat /\ MaxErrors \in Nat

VARIABLES
    initialized_,
    buffer_rx_in_interrupt,   \* of config_
    tx_busy_,
    tx_buffer_,
    uart_errors,      \* is uart_errors_ different from zero?
    main,             \* the send() in progress: its step, its number, the bytes it copied
    calls,            \* send() calls that got past the guard
    tx,               \* the HAL: the transmission in progress, or NoTx
    rx_in_progress,   \* the HAL: Receive_IT is waiting for a byte
    frames,           \* frames that were on the wire
    errors,           \* error interrupts so far
    disturbed         \* an error interrupt cleared tx_busy_ under a send, or a send of
                      \* the handler came into one; the adapter has not been idle since

setup == <<initialized_, buffer_rx_in_interrupt>>
mainVars == <<main, calls>>
halVars == <<tx, rx_in_progress>>
observers == <<frames, errors, disturbed>>
vars == <<setup, tx_busy_, tx_buffer_, uart_errors, mainVars, halVars, observers>>

Call == 1 .. MaxSends
Cells == 1 .. FrameLen

Idle == [at |-> "idle", call |-> 0, copied |-> 0]
NoTx == [call |-> 0, sent |-> <<>>]

Init ==
    /\ initialized_ = FALSE
    /\ buffer_rx_in_interrupt = TRUE
    /\ tx_busy_ = FALSE
    /\ tx_buffer_ = [i \in Cells |-> 0]
    /\ uart_errors = FALSE
    /\ main = Idle
    /\ calls = 0
    /\ tx = NoTx
    /\ rx_in_progress = FALSE
    /\ frames = <<>>
    /\ errors = 0
    /\ disturbed = FALSE
--------------------------------------------------------------------------------
(* The main loop *)

\* init() takes over the configuration, may fail to register a callback, and starts
\* reception, which the HAL refuses if it is on already.
InitAdapter ==
    /\ main = Idle
    /\ buffer_rx_in_interrupt' \in BOOLEAN
    /\ \/ UNCHANGED <<initialized_, rx_in_progress>>
       \/ \E started \in {FALSE, ~rx_in_progress} :
             /\ initialized_' = started
             /\ rx_in_progress' = (rx_in_progress \/ started)
    /\ UNCHANGED <<tx_busy_, tx_buffer_, uart_errors, mainVars, tx, observers>>

\* mutant: send() does not ask whether a transmission is in progress
SendBeginUnguarded ==
    /\ main = Idle
    /\ calls < MaxSends
    /\ initialized_
    /\ calls' = calls + 1
    /\ main' = [at |-> "copy", call |-> calls + 1, copied |-> 0]
    /\ UNCHANGED <<setup, tx_busy_, tx_buffer_, uart_errors, halVars, observers>>

\* send() past its guard.
SendBegin ==
    /\ main = Idle
    /\ calls < MaxSends
    /\ initialized_
    /\ ~tx_busy_
    /\ calls' = calls + 1
    /\ main' = [at |-> "copy", call |-> calls + 1, copied |-> 0]
    /\ UNCHANGED <<setup, tx_busy_, tx_buffer_, uart_errors, halVars, observers>>

\* mutant: one byte too many is copied
SendCopyPastEnd ==
    /\ main.at = "copy"
    /\ main.copied <= FrameLen
    /\ tx_buffer_' = [tx_buffer_ EXCEPT ![main.copied + 1] = main.call]
    /\ main' = [main EXCEPT !.copied = @ + 1]
    /\ UNCHANGED <<setup, tx_busy_, uart_errors, calls, halVars, observers>>

\* memcpy, byte by byte
SendCopy ==
    /\ main.at = "copy"
    /\ main.copied < FrameLen
    /\ tx_buffer_' = [tx_buffer_ EXCEPT ![main.copied + 1] = main.call]
    /\ main' = [main EXCEPT !.copied = @ + 1]
    /\ UNCHANGED <<setup, tx_busy_, uart_errors, calls, halVars, observers>>

\* mutant: tx_busy_ is not set
SendMarkForgotten ==
    /\ main.at = "copy"
    /\ main.copied = FrameLen
    /\ main' = [main EXCEPT !.at = "transmit"]
    /\ UNCHANGED <<setup, tx_busy_, tx_buffer_, uart_errors, calls, halVars, observers>>

SendMark ==
    /\ main.at = "copy"
    /\ main.copied = FrameLen
    /\ tx_busy_' = TRUE
    /\ main' = [main EXCEPT !.at = "transmit"]
    /\ UNCHANGED <<setup, tx_buffer_, uart_errors, calls, halVars, observers>>

\* HAL_UART_Transmit_IT refuses while a transmission is in progress.
SendTransmit ==
    /\ main.at = "transmit"
    /\ \/ /\ tx = NoTx
          /\ tx' = [call |-> main.call, sent |-> <<>>]
          /\ main' = Idle
       \/ /\ tx # NoTx
          /\ main' = [main EXCEPT !.at = "refused"]
          /\ UNCHANGED tx
    /\ UNCHANGED <<setup, tx_busy_, tx_buffer_, uart_errors, calls, rx_in_progress,
                   observers>>

SendRefused ==
    /\ main.at = "refused"
    /\ tx_busy_' = FALSE
    /\ uart_errors' = TRUE
    /\ main' = Idle
    /\ disturbed' = (tx # NoTx)
    /\ UNCHANGED <<setup, tx_buffer_, calls, halVars, frames, errors>>
--------------------------------------------------------------------------------
(* The interrupts *)

\* The HAL takes the next byte out of the buffer it was given.
Shift ==
    /\ tx # NoTx
    /\ Len(tx.sent) < FrameLen
    /\ tx' = [tx EXCEPT !.sent = Append(@, tx_buffer_[Len(@) + 1])]
    /\ UNCHANGED <<setup, tx_busy_, tx_buffer_, uart_errors, mainVars,
                   rx_in_progress, observers>>

\* mutant: on_tx_complete_ leaves tx_busy_ set
TxCompleteStillBusy ==
    /\ tx # NoTx
    /\ Len(tx.sent) = FrameLen
    /\ tx' = NoTx
    /\ frames' = Append(frames, [call |-> tx.call, cells |-> tx.sent, disturbed |-> disturbed])
    /\ disturbed' = (disturbed /\ main # Idle)
    /\ UNCHANGED <<setup, tx_busy_, tx_buffer_, uart_errors, mainVars,
                   rx_in_progress, errors>>

\* on_tx_complete_: the HAL is ready again before it calls back.
TxComplete ==
    /\ tx # NoTx
    /\ Len(tx.sent) = FrameLen
    /\ tx' = NoTx
    /\ frames' = Append(frames, [call |-> tx.call, cells |-> tx.sent, disturbed |-> disturbed])
    /\ tx_busy_' = FALSE
    /\ disturbed' = (disturbed /\ main # Idle)
    /\ UNCHANGED <<setup, tx_buffer_, uart_errors, mainVars, rx_in_progress, errors>>

\* mutant: a failed restart of reception is not counted
RxCompleteUncounted ==
    /\ rx_in_progress
    /\ \E started \in BOOLEAN : rx_in_progress' = started
    /\ UNCHANGED <<setup, tx_busy_, tx_buffer_, uart_errors, mainVars, tx, observers>>

\* on_rx_complete_ starts the next reception; the HAL may refuse.  What becomes of
\* the byte before is RxRing or, if it makes the handler send, RxCompleteSends.
RxComplete ==
    /\ rx_in_progress
    /\ \E started \in BOOLEAN :
          /\ rx_in_progress' = started
          /\ uart_errors' = (uart_errors \/ ~started)
    /\ UNCHANGED <<setup, tx_busy_, tx_buffer_, mainVars, tx, observers>>

\* on_rx_complete_ whose handler sends past the guard: all of send(), in the
\* interrupt and between any two steps of the main loop.
RxCompleteSends ==
    /\ rx_in_progress
    /\ ~buffer_rx_in_interrupt
    /\ calls < MaxSends
    /\ initialized_
    /\ ~tx_busy_
    /\ calls' = calls + 1
    /\ tx_buffer_' = [i \in Cells |-> calls + 1]
    /\ tx_busy_' = (tx = NoTx)
    /\ tx' = IF tx = NoTx THEN [call |-> calls + 1, sent |-> <<>>] ELSE tx
    /\ disturbed' = (disturbed \/ main # Idle)
    /\ \E started \in BOOLEAN :
          /\ rx_in_progress' = started
          /\ uart_errors' = (uart_errors \/ tx # NoTx \/ ~started)
    /\ UNCHANGED <<setup, main, frames, errors>>

\* on_error_: reception is aborted and started again, and tx_busy_ is cleared
\* whether or not a transmission is in progress, which the HAL carries on with.
Error ==
    /\ rx_in_progress
    /\ errors < MaxErrors
    /\ errors' = errors + 1
    /\ uart_errors' = TRUE
    /\ disturbed' = (disturbed \/ tx_busy_)
    /\ tx_busy_' = FALSE
    /\ \E started \in BOOLEAN : rx_in_progress' = started
    /\ UNCHANGED <<setup, tx_buffer_, mainVars, tx, frames>>

Next ==
    \/ InitAdapter
    \/ SendBegin \/ SendCopy \/ SendMark \/ SendTransmit \/ SendRefused
    \/ Shift \/ TxComplete \/ RxComplete \/ RxCompleteSends \/ Error

Spec == Init /\ [][Next]_vars

\* send() does not wait inside, so it goes on; the hardware shifts and completes.
Fairness ==
    /\ WF_vars(SendCopy) /\ WF_vars(SendMark) /\ WF_vars(SendTransmit) /\ WF_vars(SendRefused)
    /\ WF_vars(Shift) /\ WF_vars(TxComplete)

FairSpec == Spec /\ Fairness
--------------------------------------------------------------------------------
Step == {"idle", "copy", "transmit", "refused"}

\* The types of the adapter: memcpy and the HAL stay inside the frame.
TypeOK ==
    /\ initialized_ \in BOOLEAN
    /\ buffer_rx_in_interrupt \in BOOLEAN
    /\ tx_busy_ \in BOOLEAN
    /\ tx_buffer_ \in [Cells -> 0 .. MaxSends]
    /\ uart_errors \in BOOLEAN
    /\ main \in [at : Step, call : 0 .. MaxSends, copied : 0 .. FrameLen]
    /\ calls \in 0 .. MaxSends
    /\ tx \in [call : 0 .. MaxSends, sent : Seq(0 .. MaxSends)]
    /\ Len(tx.sent) <= FrameLen
    /\ rx_in_progress \in BOOLEAN
    /\ frames \in Seq([call : Call, cells : Seq(0 .. MaxSends), disturbed : BOOLEAN])
    /\ errors \in 0 .. MaxErrors
    /\ disturbed \in BOOLEAN

\* A frame leaves the wire as send() was given it, unless an error interrupt
\* cleared tx_busy_ under it, or the receive handler sent in the interrupt while
\* the main loop was in send(), or the adapter was not idle since one of both.
WholeUnlessDisturbed ==
    \A k \in 1 .. Len(frames) :
        ~frames[k].disturbed => \A i \in 1 .. FrameLen : frames[k].cells[i] = frames[k].call

\* While the HAL reads tx_buffer_ the guard of send() protects it, with the same
\* exceptions.
ProtectedWhileTransmitting == tx # NoTx /\ ~disturbed => tx_busy_ /\ main = Idle

\* Reception is never off without the error counter saying that something failed.
DeafnessIsCounted == initialized_ /\ ~rx_in_progress => uart_errors

\* tx_busy_ does not stay: the next send() is possible again.
BusyIsReleased == tx_busy_ ~> ~tx_busy_
================================================================================
