----------------------------- MODULE Rs485Adapter ------------------------------
(***************************************************************************)
(* RS485Adapter: a UART whose driver onto the bus is switched on by the DE  *)
(* line.  send() runs in the main loop, and also inside rx_callback_ when   *)
(* the handler of a received byte answers a request; the HAL's interrupts   *)
(* call tx_complete_callback_ and error_callback_.                          *)
(*                                                                          *)
(* The HAL reads the bytes of a frame one by one.  What it reads is left    *)
(* out: the buffer belongs to the caller of send().                         *)
(***************************************************************************)
EXTENDS Naturals

CONSTANTS
    FrameLen,     \* bytes of a frame
    MaxSends,     \* bound on the send() calls
    MaxErrors     \* bound on the error interrupts

ASSUME Rs485Assumption ==
    /\ FrameLen \in Nat \ {0}
    /\ MaxSends \in Nat
    /\ MaxErrors \in Nat

VARIABLES
    automatic,        \* config_.de_mode is kAutomatic, not kManual
    is_initialized_,
    de_state_,
    main,             \* init() or send() in the main loop: its step, and its number
    calls,            \* send() calls so far
    tx,               \* the HAL: the transmission in progress, or NoTx
    rx_in_progress,   \* the HAL: Receive_IT is waiting for a byte
    errors,           \* error interrupts so far
    disturbed,        \* did the last send() or init() begin while another, or a frame
                      \* of another, was under way?
    cut,              \* did an error end a transmission since DE was last switched?
    byApplication     \* was DE last switched by set_de_state()?

rs485Vars == <<automatic, is_initialized_, de_state_, main, calls, tx, rx_in_progress, errors,
               disturbed, cut, byApplication>>

Call == 1 .. MaxSends
Idle == [at |-> "idle", call |-> 0]
NoTx == [call |-> 0, sent |-> 0]
Transmitting == tx # NoTx
AtRest == main = Idle /\ ~Transmitting

Rs485Init ==
    /\ automatic \in BOOLEAN
    /\ is_initialized_ = FALSE
    /\ de_state_ = FALSE
    /\ main = Idle
    /\ calls = 0
    /\ tx = NoTx
    /\ rx_in_progress = FALSE
    /\ errors = 0
    /\ disturbed = FALSE
    /\ cut = FALSE
    /\ byApplication = FALSE

SwitchDe(active) == de_state_' = active /\ byApplication' = FALSE /\ cut' = FALSE
AssertDe == SwitchDe(TRUE)
DeassertDe == SwitchDe(FALSE)
KeepDe == UNCHANGED <<de_state_, byApplication, cut>>
--------------------------------------------------------------------------------
(* The main loop *)

\* init() may be called again and again.  It takes the configuration first; then a
\* callback is not registered, or Receive_IT refuses: it waits for a byte already,
\* or the HAL does not let it.
InitRefused(mode) ==
    /\ main = Idle
    /\ automatic' = mode
    /\ KeepDe
    /\ UNCHANGED <<is_initialized_, main, calls, tx, rx_in_progress, errors, disturbed>>

\* From here on the interrupts come, while init() is still to go on.
InitBegin(mode) ==
    /\ main = Idle
    /\ ~rx_in_progress
    /\ automatic' = mode
    /\ rx_in_progress' = TRUE
    /\ main' = [at |-> "ready", call |-> 0]
    /\ disturbed' = ~AtRest
    /\ KeepDe
    /\ UNCHANGED <<is_initialized_, calls, tx, errors>>

InitReady ==
    /\ main.at = "ready"
    /\ is_initialized_' = TRUE
    /\ main' = [main EXCEPT !.at = "listen"]
    /\ KeepDe
    /\ UNCHANGED <<automatic, calls, tx, rx_in_progress, errors, disturbed>>

InitListen ==
    /\ main.at = "listen"
    /\ main' = Idle
    /\ DeassertDe
    /\ UNCHANGED <<automatic, is_initialized_, calls, tx, rx_in_progress, errors, disturbed>>

\* send() switches the driver on, whatever the mode.
SendBegin ==
    /\ is_initialized_
    /\ main = Idle
    /\ calls < MaxSends
    /\ calls' = calls + 1
    /\ main' = [at |-> "transmit", call |-> calls + 1]
    /\ disturbed' = ~AtRest
    /\ AssertDe
    /\ UNCHANGED <<automatic, is_initialized_, tx, rx_in_progress, errors>>

\* HAL_UART_Transmit_IT refuses while a transmission is in progress, and may
\* refuse after HAL_UART_DeInit.
SendTransmit ==
    /\ main.at = "transmit"
    /\ \/ /\ ~Transmitting
          /\ tx' = [call |-> main.call, sent |-> 0]
          /\ main' = Idle
       \/ /\ Transmitting \/ errors > 0
          /\ main' = [main EXCEPT !.at = "release"]
          /\ UNCHANGED tx
    /\ KeepDe
    /\ UNCHANGED <<automatic, is_initialized_, calls, rx_in_progress, errors, disturbed>>

SendRefused ==
    /\ main.at = "release"
    /\ main' = Idle
    /\ DeassertDe
    /\ UNCHANGED <<automatic, is_initialized_, calls, tx, rx_in_progress, errors, disturbed>>

\* set_de_state() does nothing in automatic mode.
SetDeState(active) ==
    /\ main = Idle
    /\ ~automatic
    /\ de_state_' = active
    /\ byApplication' = TRUE
    /\ UNCHANGED <<automatic, is_initialized_, main, calls, tx, rx_in_progress, errors, disturbed, cut>>

--------------------------------------------------------------------------------
(* The interrupts *)

\* rx_callback_: the handler sends nothing, or init() is not done yet and send()
\* refuses.  Receive_IT may refuse to wait for the next byte.
ByteReceived ==
    /\ rx_in_progress
    /\ rx_in_progress' \in BOOLEAN
    /\ KeepDe
    /\ UNCHANGED <<automatic, is_initialized_, main, calls, tx, errors, disturbed>>

\* rx_callback_: the handler of the byte sends a frame.
HandlerSends ==
    /\ rx_in_progress
    /\ is_initialized_
    /\ calls < MaxSends
    /\ calls' = calls + 1
    /\ disturbed' = ~AtRest
    /\ \/ /\ ~Transmitting
          /\ tx' = [call |-> calls + 1, sent |-> 0]
          /\ AssertDe
       \/ /\ Transmitting \/ errors > 0
          /\ DeassertDe
          /\ UNCHANGED tx
    /\ rx_in_progress' \in BOOLEAN
    /\ UNCHANGED <<automatic, is_initialized_, main, errors>>

Shift ==
    /\ Transmitting
    /\ tx.sent < FrameLen
    /\ tx' = [tx EXCEPT !.sent = @ + 1]
    /\ KeepDe
    /\ UNCHANGED <<automatic, is_initialized_, main, calls, rx_in_progress, errors, disturbed>>

\* mutant: tx_complete_callback_ leaves the driver on
TxCompleteDriving ==
    /\ Transmitting
    /\ tx.sent = FrameLen
    /\ tx' = NoTx
    /\ rx_in_progress' \in {rx_in_progress, TRUE}
    /\ KeepDe
    /\ UNCHANGED <<automatic, is_initialized_, main, calls, errors, disturbed>>

\* tx_complete_callback_: Receive_IT refuses if it waits already, or for good.
TxComplete ==
    /\ Transmitting
    /\ tx.sent = FrameLen
    /\ tx' = NoTx
    /\ rx_in_progress' \in {rx_in_progress, TRUE}
    /\ DeassertDe
    /\ UNCHANGED <<automatic, is_initialized_, main, calls, errors, disturbed>>

\* mutant: error_callback_ releases the bus but lets the transmission go on
ErrorReleases ==
    /\ rx_in_progress
    /\ errors < MaxErrors
    /\ errors' = errors + 1
    /\ rx_in_progress' \in BOOLEAN
    /\ DeassertDe
    /\ UNCHANGED <<automatic, is_initialized_, main, calls, tx, disturbed>>

\* error_callback_: HAL_UART_DeInit ends the transmission, whose completion is
\* never called; reception is started again if the HAL lets it.
Error ==
    /\ rx_in_progress
    /\ errors < MaxErrors
    /\ errors' = errors + 1
    /\ tx' = NoTx
    /\ cut' = (cut \/ Transmitting)
    /\ rx_in_progress' \in BOOLEAN
    /\ UNCHANGED <<automatic, is_initialized_, de_state_, main, calls, disturbed, byApplication>>

Rs485Next ==
    \/ \E mode \in BOOLEAN : InitRefused(mode) \/ InitBegin(mode)
    \/ InitReady \/ InitListen
    \/ SendBegin \/ SendTransmit \/ SendRefused
    \/ \E active \in BOOLEAN : SetDeState(active)
    \/ ByteReceived \/ HandlerSends \/ Shift \/ TxComplete \/ Error

Rs485Spec == Rs485Init /\ [][Rs485Next]_rs485Vars
--------------------------------------------------------------------------------
\* The types of the adapter: the HAL sends no more bytes than it was given, and
\* before init() nothing is sent, and nothing received until it is under way.
Rs485TypeOK ==
    /\ automatic \in BOOLEAN
    /\ is_initialized_ \in BOOLEAN
    /\ de_state_ \in BOOLEAN
    /\ main \in [at : {"idle", "ready", "listen", "transmit", "release"}, call : 0 .. MaxSends]
    /\ calls \in 0 .. MaxSends
    /\ tx \in [call : 0 .. MaxSends, sent : 0 .. FrameLen]
    /\ rx_in_progress \in BOOLEAN
    /\ calls > 0 => is_initialized_
    /\ rx_in_progress => is_initialized_ \/ main.at = "ready"
    /\ errors \in 0 .. MaxErrors
    /\ disturbed \in BOOLEAN
    /\ cut \in BOOLEAN
    /\ byApplication \in BOOLEAN

\* DE is on for every byte of a frame whose send() began when nothing else was
\* under way, unless another call begins before the frame is out: a call that was
\* disturbed, an error or a second init() in the past leave nothing behind that
\* takes DE from a later frame.
DrivenWhileAlone == ~disturbed /\ Transmitting => de_state_ \/ byApplication

\* DE is off whenever nothing is being sent, so that the node hears the bus, even
\* when calls overlapped; except that an error which ends a transmission leaves DE
\* on until the next call is done.
ReleasedWhenDone == AtRest => ~de_state_ \/ byApplication \/ cut
================================================================================
