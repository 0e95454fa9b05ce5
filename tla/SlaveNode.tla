-------------------------------- MODULE SlaveNode ------------------------------
(***************************************************************************)
(* SlaveNode: it answers the requests of the master through the handlers    *)
(* the application registers, sends a heartbeat from poll() whenever the    *)
(* interval is over, and state updates of its own.  The slaves are kept     *)
(* together, as a function from their addresses.                            *)
(***************************************************************************)
EXTENDS NodeLine

CONSTANTS
    Slave,                \* addresses of the slaves
    CounterMod,           \* values of seq_counter_, 256 in the code
    HeartbeatInterval,    \* config_.heartbeat_interval_ms
    SlaveClockMod,        \* values of a millisecond clock, 2^32 in the code
    SlaveMaxStep          \* bound on the time between two calls of a poll()

ASSUME SlaveAssumption ==
    /\ Slave \subseteq 1 .. 126
    /\ {CounterMod, HeartbeatInterval, SlaveClockMod, SlaveMaxStep} \subseteq Nat \ {0}
    /\ HeartbeatInterval + SlaveMaxStep <= SlaveClockMod

VARIABLE slave            \* the slaves

\* For the properties: the real time since the last heartbeat, up to Long, and
\* whether one was ever sent before the interval was over.
Long == HeartbeatInterval + SlaveMaxStep

SlaveClock == 0 .. SlaveClockMod - 1
SinceLast(now, last) == (now - last + SlaveClockMod) % SlaveClockMod

SlaveInit ==
    \E start \in [Slave -> SlaveClock] :
        slave = [s \in Slave |->
            [is_initialized |-> FALSE, seq_counter |-> 0, last_heartbeat_time |-> 0,
             clock |-> start[s], since |-> Long, early |-> FALSE]]

\* init() refuses a configuration that says is_master = FALSE.
InitSlave(s, is_master) ==
    /\ is_master
    /\ slave' = [slave EXCEPT ![s].is_initialized = TRUE]
    /\ UNCHANGED lineVars
--------------------------------------------------------------------------------
(* Requests of the master: `data` is what the handler of the application        *)
(* answers, if one is registered.                                               *)

\* mutant: the response gets a number of the slave
ResponseSeqOwn(s, request) == slave[s].seq_counter

\* Responses carry the number and the address of the request, which is the
\* address of the slave.
ResponseSeq(s, request) == request.header.seq_id

HandleStateRequest(s, f, registered, data) ==
    LET request == ReadFrame(f)
        id == Head(request.payload)
        response == CreateStateResponse(request.header.address, ResponseSeq(s, request), id,
                                        data, Len(data))
    IN /\ slave[s].is_initialized
       /\ IF Len(request.payload) >= 1 /\ registered /\ data # NoBytes
          THEN TakeAndPut(f, Frame(s, response))
          ELSE Take(f)
       /\ UNCHANGED slave

HandleCommandRequest(s, f, registered, status, data) ==
    LET request == ReadFrame(f)
        id == Head(request.payload)
        response == CreateCommandResponse(request.header.address, ResponseSeq(s, request), id,
                                          status, data, Len(data))
    IN /\ slave[s].is_initialized
       /\ IF Len(request.payload) >= 1 /\ registered
          THEN TakeAndPut(f, Frame(s, response))
          ELSE Take(f)
       /\ UNCHANGED slave
--------------------------------------------------------------------------------
(* Packets of the slave's own *)

NextCounter(s) == (slave[s].seq_counter + 1) % CounterMod

\* An update is a state response, to address 0, with a number of the slave.
SendStateUpdate(s, id, data) ==
    /\ slave[s].is_initialized
    /\ slave' = [slave EXCEPT ![s].seq_counter = NextCounter(s)]
    /\ Put(Frame(s, CreateStateResponse(MasterAddress, slave[s].seq_counter, id, data, Len(data))))
    /\ UNCHANGED late

\* mutant: the end of the interval is computed, and wraps
HeartbeatDueAt(s, now) ==
    now >= (slave[s].last_heartbeat_time + HeartbeatInterval) % SlaveClockMod

\* mutant: the end of the interval is computed, in a type that does not wrap
HeartbeatDueBeyond(s, now) == now >= slave[s].last_heartbeat_time + HeartbeatInterval

HeartbeatDue(s, now) == SinceLast(now, slave[s].last_heartbeat_time) >= HeartbeatInterval

\* poll(), `step` milliseconds after the one before; it hands over what has been
\* received first, which is HandleStateRequest and HandleCommandRequest.
SlavePoll(s, step) ==
    LET now == (slave[s].clock + step) % SlaveClockMod
        since == AtMost(slave[s].since + step, Long)
    IN /\ slave[s].is_initialized
       /\ IF HeartbeatDue(s, now)
          THEN /\ slave' = [slave EXCEPT ![s].clock = now,
                                         ![s].last_heartbeat_time = now,
                                         ![s].seq_counter = NextCounter(s),
                                         ![s].since = 0,
                                         ![s].early = @ \/ since < HeartbeatInterval]
               /\ Put(Frame(s, CreateHeartbeat(MasterAddress, slave[s].seq_counter, 1, 0)))
          ELSE /\ slave' = [slave EXCEPT ![s].clock = now, ![s].since = since]
               /\ UNCHANGED line
       /\ UNCHANGED late
================================================================================
