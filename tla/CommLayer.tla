------------------------------- MODULE CommLayer -------------------------------
(***************************************************************************)
(* UARTCommunication, CANCommunication and RS485Communication: devices on   *)
(* one line exchange messages that carry a sender and a destination.  A     *)
(* device passes what is for it to the callback of the application and      *)
(* answers a request out of the same poll(); the answer of a handler is a   *)
(* message like any other.                                                  *)
(*                                                                          *)
(* The three classes differ in the link and in log lines: what              *)
(* RS485Communication does for masters and slaves has no effect, as no      *)
(* pending request ever becomes active.  The link below is an inbox for     *)
(* each device, whole messages in the order they were on the line, any of   *)
(* which it may miss (see Fragmentation and LinkRx).                        *)
(***************************************************************************)
EXTENDS Naturals, Sequences

CONSTANTS
    Devices,          \* device_id of the devices on the line
    Broadcast,        \* 0xFF
    Magic0, Magic1,   \* the bytes by which a link knows a fragment
    Setups,           \* for each device, sets of callbacks it may register
    InboxSize,        \* messages that wait for poll() in the adapter
    MaxSends          \* bound on the messages that applications send

ASSUME CommAssumption ==
    /\ Devices \subseteq Nat
    /\ Broadcast \notin Devices
    /\ Setups \in [Devices -> SUBSET (SUBSET {"message", "state", "command"})]
    /\ InboxSize \in Nat \ {0}
    /\ MaxSends \in Nat

VARIABLES
    is_initialized_,  \* devices that have been initialised
    handlers,         \* the callbacks a device has registered
    inbox,            \* for each device, the messages its poll() will find
    said,            \* the messages applications sent, in this order
    heard,            \* for each device, the messages its message callback got
    executed,         \* the commands, by number, that a device's handler executed
    missed            \* messages a device has missed

commVars == <<is_initialized_, handlers, inbox, said, heard, executed, missed>>

Handler == {"message", "state", "command"}
Request == {"kState_Request", "kCommand_Execute"}
Response == {"kState_Update", "kCommand_Response"}

\* A message belongs to the n-th send(), as that message or as an answer to it.
Message == [source_id : Devices, dest_id : Devices \cup {Broadcast},
            type : Request \cup Response, n : 1 .. MaxSends]

CommInit ==
    /\ is_initialized_ = {}
    /\ handlers = [d \in Devices |-> {}]
    /\ inbox = [d \in Devices |-> <<>>]
    /\ said = <<>>
    /\ heard = [d \in Devices |-> {}]
    /\ executed = [d \in Devices |-> {}]
    /\ missed = [d \in Devices |-> {}]
--------------------------------------------------------------------------------
(* The application starts a device: init() and set_..._handler() of the ones it *)
(* has, once.                                                                   *)
Start(d, hs) ==
    /\ d \notin is_initialized_
    /\ is_initialized_' = is_initialized_ \cup {d}
    /\ handlers' = [handlers EXCEPT ![d] = hs]
    /\ UNCHANGED <<inbox, said, heard, executed, missed>>

Full(box) == {e \in Devices : Len(box[e]) = InboxSize}

\* mutant: a response goes out once by send_message and once by
\* slave_send_response_
SendMessageTwice(d, m, box) ==
    \E lost \in SUBSET (Devices \ {d}) :
        /\ Full(box) \ {d} \subseteq lost
        /\ inbox' = [e \in Devices |-> IF e = d \/ e \in lost THEN box[e] ELSE box[e] \o <<m, m>>]
        /\ missed' = [e \in Devices |-> IF e \in lost THEN missed[e] \cup {m} ELSE missed[e]]

\* send_message(): every other device on the line gets m behind what is in its
\* box, or misses it; a link that refuses m is the case that all of them do.
SendMessage(d, m, box) ==
    \E lost \in SUBSET (Devices \ {d}) :
        /\ Full(box) \ {d} \subseteq lost
        /\ inbox' = [e \in Devices |-> IF e = d \/ e \in lost THEN box[e] ELSE Append(box[e], m)]
        /\ missed' = [e \in Devices |-> IF e \in lost THEN missed[e] \cup {m} ELSE missed[e]]

\* The application of d sends a message of its own.
Send(d, dest, type) ==
    /\ d \in is_initialized_
    /\ Len(said) < MaxSends
    /\ LET m == [source_id |-> d, dest_id |-> dest, type |-> type,
                 n |-> Len(said) + 1]
       IN said' = Append(said, m) /\ SendMessage(d, m, inbox)
    /\ UNCHANGED <<is_initialized_, handlers, heard, executed>>
--------------------------------------------------------------------------------
(* poll() of a device, for one message *)

\* The link takes a message between the two magic devices for a fragment if it is
\* as long as the header of one, which any message may be.
LooksLikeFragment(m) == m.source_id = Magic0 /\ m.dest_id = Magic1

\* mutant: a message is for everybody
IsForAnyone(d, m) == TRUE

IsFor(d, m) == m.dest_id = Broadcast \/ m.dest_id = d

Poll(d) == d \in is_initialized_ /\ inbox[d] # <<>>
Received(d) == Head(inbox[d])
Rest(d) == [inbox EXCEPT ![d] = Tail(@)]

\* the message callback, if there is one
CallBack(d) ==
    heard' = IF "message" \in handlers[d]
             THEN [heard EXCEPT ![d] = @ \cup {Received(d)}] ELSE heard

Answer(d, m, type) == [source_id |-> d, dest_id |-> m.source_id, type |-> type, n |-> m.n]

Ignore(d) ==
    /\ Poll(d)
    /\ LooksLikeFragment(Received(d)) \/ ~IsFor(d, Received(d))
    /\ inbox' = Rest(d)
    /\ UNCHANGED <<is_initialized_, handlers, said, heard, executed, missed>>

\* Nothing is answered: it is no request, it has no handler here, or the state
\* handler returns no data.
Hear(d) ==
    /\ Poll(d)
    /\ IsFor(d, Received(d))
    /\ Received(d).type = "kCommand_Execute" => "command" \notin handlers[d]
    /\ CallBack(d)
    /\ inbox' = Rest(d)
    /\ UNCHANGED <<is_initialized_, handlers, said, executed, missed>>

\* mutant: the answer is built by create_state_request
AnswerStateByRequest(d) ==
    /\ Poll(d)
    /\ IsFor(d, Received(d))
    /\ Received(d).type = "kState_Request" /\ "state" \in handlers[d]
    /\ CallBack(d)
    /\ SendMessage(d, Answer(d, Received(d), "kState_Request"), Rest(d))
    /\ UNCHANGED <<is_initialized_, handlers, said, executed>>

AnswerState(d) ==
    /\ Poll(d)
    /\ IsFor(d, Received(d))
    /\ Received(d).type = "kState_Request" /\ "state" \in handlers[d]
    /\ CallBack(d)
    /\ SendMessage(d, Answer(d, Received(d), "kState_Update"), Rest(d))
    /\ UNCHANGED <<is_initialized_, handlers, said, executed>>

\* mutant: a command without data in its answer is not answered
AnswerCommandWithData(d) ==
    /\ Poll(d)
    /\ IsFor(d, Received(d))
    /\ Received(d).type = "kCommand_Execute" /\ "command" \in handlers[d]
    /\ CallBack(d)
    /\ executed' = [executed EXCEPT ![d] = @ \cup {Received(d).n}]
    /\ \/ SendMessage(d, Answer(d, Received(d), "kCommand_Response"), Rest(d))
       \/ inbox' = Rest(d) /\ UNCHANGED missed
    /\ UNCHANGED <<is_initialized_, handlers, said>>

AnswerCommand(d) ==
    /\ Poll(d)
    /\ IsFor(d, Received(d))
    /\ Received(d).type = "kCommand_Execute" /\ "command" \in handlers[d]
    /\ CallBack(d)
    /\ executed' = [executed EXCEPT ![d] = @ \cup {Received(d).n}]
    /\ SendMessage(d, Answer(d, Received(d), "kCommand_Response"), Rest(d))
    /\ UNCHANGED <<is_initialized_, handlers, said>>

CommNext ==
    \E d \in Devices :
        \/ \E hs \in Setups[d] : Start(d, hs)
        \/ \E dest \in (Devices \cup {Broadcast}) \ {d}, type \in Request \cup {"kState_Update"} :
              Send(d, dest, type)
        \/ Ignore(d) \/ Hear(d) \/ AnswerState(d) \/ AnswerCommand(d)

CommSpec == CommInit /\ [][CommNext]_commVars

\* The main loop of a device that was started calls poll() again and again.
CommFairness ==
    \A d \in Devices : WF_commVars(Ignore(d) \/ Hear(d) \/ AnswerState(d) \/ AnswerCommand(d))

CommFairSpec == CommSpec /\ CommFairness
--------------------------------------------------------------------------------
\* The types; an inbox never holds more than the adapter has room for, and only a
\* device that was started has executed anything.
CommTypeOK ==
    /\ is_initialized_ \subseteq Devices
    /\ handlers \in [Devices -> SUBSET Handler]
    /\ inbox \in [Devices -> Seq(Message)]
    /\ said \in Seq(Message) /\ Len(said) <= MaxSends
    /\ heard \in [Devices -> SUBSET Message]
    /\ executed \in [Devices -> SUBSET (1 .. MaxSends)]
    /\ missed \in [Devices -> SUBSET Message]
    /\ \A d \in Devices : Len(inbox[d]) <= InboxSize
    /\ \A d \in Devices : executed[d] # {} => d \in is_initialized_

Waiting(d) == {inbox[d][i] : i \in 1 .. Len(inbox[d])}

IsAnswer(m) == m # said[m.n]

\* Every message that is not the application's own answers one: it comes from a
\* device that was asked, goes to the one that asked, and has the type that
\* belongs to the request.  A broadcast is answered by many, but to one.
AnswersWhatWasAsked ==
    \A d \in Devices : \A m \in Waiting(d) \cup heard[d] :
        IsAnswer(m) =>
            LET r == said[m.n]
            IN /\ r.dest_id \in {Broadcast, m.source_id}
               /\ m.dest_id = r.source_id
               /\ \/ r.type = "kState_Request" /\ m.type = "kState_Update"
                  \/ r.type = "kCommand_Execute" /\ m.type = "kCommand_Response"

\* No device is given the same message twice, and none answers a request twice:
\* of the same sender and number there is one, not yet heard, in its inbox at most.
HeardOnce ==
    \A d \in Devices :
        /\ \A i, j \in 1 .. Len(inbox[d]) :
              i # j => inbox[d][i].n # inbox[d][j].n \/ inbox[d][i].source_id # inbox[d][j].source_id
        /\ \A m \in Waiting(d), h \in heard[d] : m.n # h.n \/ m.source_id # h.source_id

\* Answers cause no answers: once the applications have nothing to say the line
\* becomes quiet.
LineBecomesQuiet == <>[](\A d \in is_initialized_ : inbox[d] = <<>>)

Answered(d, n) ==
    LET r == said[n].source_id
    IN Answer(d, said[n], "kCommand_Response") \in heard[r] \cup missed[r]

\* Does the n-th message await an answer of d that can be heard?  The pair of
\* devices whose messages look like fragments is left out.
Awaited(d, n) ==
    /\ n \in executed[d]
    /\ "message" \in handlers[said[n].source_id]
    /\ <<d, said[n].source_id>> # <<Magic0, Magic1>>
    /\ ~Answered(d, n)

\* A command that was executed is answered to the device that sent it, unless the
\* answer was missed there.
ExecutedIsAnswered == \A d \in Devices, n \in 1 .. MaxSends : []<>~Awaited(d, n)
================================================================================
