------------------------------ MODULE ModbusRtu -------------------------------
(***************************************************************************)
(* The Modbus RTU master of components/modbus_rtu: one UART shared by      *)
(* every task through handle->lock, an RS485 transceiver whose DE and RE   *)
(* pins are switched together, a receive buffer that is flushed before     *)
(* every request, and answers that carry no transaction number.  The line  *)
(* may lose or damage frames and the slave may answer late.                *)
(***************************************************************************)
EXTENDS Naturals, Sequences

CONSTANTS Tasks, Addrs, Vals, NoVal, Reqs, MaxCalls,
          Free,        \* value of lock when no task holds it
          MaxReadRegs,   \* 125: registers a FC03 request may ask for
          MaxWriteRegs,  \* 123: registers a FC10 request may carry
          LateReplies, \* TRUE: an answer may arrive during a later call
          UartFaults,  \* TRUE: a uart_* call of send_frame may fail
          MaxRx        \* bound on the frames noise leaves in the receive buffer

ASSUME ConstantsAssumption ==
    /\ Free \notin Tasks
    /\ Addrs \subseteq Nat
    /\ NoVal \notin Vals
    /\ Reqs # {}
    /\ Reqs \subseteq [fc : {"read", "write"}, addr : Addrs, count : Nat, val : Vals]
    /\ MaxCalls \in Nat
    /\ MaxReadRegs \in Nat /\ MaxReadRegs <= 125
    /\ MaxWriteRegs \in Nat /\ MaxWriteRegs <= 123
    /\ LateReplies \in BOOLEAN
    /\ UartFaults \in BOOLEAN
    /\ MaxRx \in Nat

VARIABLES regs,    \* the registers of the slave
          nextId, call, begun, taken, ret,  \* the calls, as in ModbusCall
          pc,      \* pc[t]: where task t is inside the call
          lock,    \* handle->lock: the task that holds it, or Free
          de,      \* level of the DE and RE pins: TRUE drives the bus, deaf
          down,    \* requests on the line, not yet handled by the slave
          up,      \* answers on the line, not yet at the UART
          rx,      \* receive buffer of the UART driver
          sender,  \* the call that last flushed the receive buffer
          acc      \* acc[t]: the answer the last call of t accepted, if any

callVars == <<nextId, call, begun, taken, ret>>
busVars == <<regs, down, up>>
uartVars == <<de, rx, sender>>
vars == <<callVars, busVars, uartVars, pc, lock, acc>>

Call == [id : Nat, req : Reqs]
Frame == [id : Nat, req : Reqs, val : Vals \union {NoVal}, exc : BOOLEAN,
          good : BOOLEAN, at : Nat]
Codes == {"OK", "TIMEOUT", "INVALID_CRC", "INVALID_SIZE", "INVALID_RESPONSE",
          "INVALID_ARG", "FAIL"}
Locations == {"idle", "lock", "start", "send", "txwait", "recv"}
Holding == {"start", "send", "txwait", "recv"}

TypeOK ==
    /\ regs \in [Addrs -> Vals]
    /\ nextId \in Nat
    /\ call \in [Tasks -> Call]
    /\ begun \in SUBSET Call
    /\ taken \in SUBSET [id : Nat, val : Vals \union {NoVal}]
    /\ ret \in [Tasks -> [code : Codes, id : Nat, val : Vals \union {NoVal}]]
    /\ pc \in [Tasks -> Locations]
    /\ lock \in Tasks \union {Free}
    /\ de \in BOOLEAN
    /\ down \in SUBSET Call
    /\ up \in SUBSET Frame
    /\ rx \in Seq(Frame)
    /\ sender \in Nat
    /\ acc \in [Tasks -> SUBSET Frame]

Init ==
    /\ regs \in [Addrs -> Vals]
    /\ nextId = 1
    /\ call = [t \in Tasks |-> [id |-> 0, req |-> CHOOSE r \in Reqs : TRUE]]
    /\ begun = {}
    /\ taken = {}
    /\ ret = [t \in Tasks |-> [code |-> "FAIL", id |-> 0, val |-> NoVal]]
    /\ pc = [t \in Tasks |-> "idle"]
    /\ lock = Free
    /\ de = FALSE
    /\ down = {}
    /\ up = {}
    /\ rx = <<>>
    /\ sender = 0
    /\ acc = [t \in Tasks |-> {}]
-------------------------------------------------------------------------------
(* What the two operations check.                                          *)

ValidCount(r) ==
    /\ r.count > 0
    /\ r.count <= IF r.fc = "read" THEN MaxReadRegs ELSE MaxWriteRegs

\* The length receive_frame expects, from the function code of the answer.
FrameLen(f) ==
    IF f.exc THEN 5 ELSE IF f.req.fc = "read" THEN 3 + 2 * f.req.count + 2 ELSE 8

\* The response buffer of the operation.
BufferLen(r) == IF r.fc = "read" THEN 256 ELSE 16

\* Mutant: an exception answer is not recognised.
Answers_NoException(f, r) ==
    /\ f.req.fc = r.fc
    /\ f.req.count = r.count
    /\ r.fc = "write" => f.req.addr = r.addr

\* The checks after receive_frame: neither the data nor, for a read, the
\* address of the request can be told from the answer.
Answers(f, r) ==
    /\ ~f.exc
    /\ f.req.fc = r.fc
    /\ f.req.count = r.count
    /\ r.fc = "write" => f.req.addr = r.addr

\* Mutant: a frame longer than the response buffer is read all the same.
Outcomes_NoSizeCheck(f, r) ==
    IF ~f.good THEN {"TIMEOUT", "INVALID_CRC", "INVALID_SIZE"}
    ELSE IF FrameLen(f) > BufferLen(r) THEN {"OVERRUN"}
    ELSE IF Answers(f, r) THEN {"OK"} ELSE {"INVALID_RESPONSE"}

\* What a call for r returns when the receive buffer starts with f.
Outcomes(f, r) ==
    IF ~f.good THEN {"TIMEOUT", "INVALID_CRC", "INVALID_SIZE"}
    ELSE IF FrameLen(f) > BufferLen(r) THEN {"INVALID_SIZE"}
    ELSE IF Answers(f, r) THEN {"OK"} ELSE {"INVALID_RESPONSE"}
-------------------------------------------------------------------------------
(* The master.                                                             *)

Begin(t, r) ==
    /\ pc[t] = "idle"
    /\ nextId <= MaxCalls
    /\ ValidCount(r)
    /\ pc' = [pc EXCEPT ![t] = "lock"]
    /\ call' = [call EXCEPT ![t] = [id |-> nextId, req |-> r]]
    /\ begun' = begun \union {[id |-> nextId, req |-> r]}
    /\ nextId' = nextId + 1
    /\ UNCHANGED <<taken, ret, lock, acc, busVars, uartVars>>

Refuse(t, r) ==
    /\ pc[t] = "idle"
    /\ ~ValidCount(r)
    /\ ret' = [ret EXCEPT ![t] = [code |-> "INVALID_ARG", id |-> 0, val |-> NoVal]]
    /\ acc' = [acc EXCEPT ![t] = {}]
    /\ UNCHANGED <<nextId, call, begun, taken, pc, lock, busVars, uartVars>>

\* Mutant: the mutex is not taken.
TakeLock_Barging(t) ==
    /\ pc[t] = "lock"
    /\ lock' = t
    /\ pc' = [pc EXCEPT ![t] = "start"]
    /\ UNCHANGED <<callVars, busVars, uartVars, acc>>

TakeLock(t) ==
    /\ pc[t] = "lock"
    /\ lock = Free
    /\ lock' = t
    /\ pc' = [pc EXCEPT ![t] = "start"]
    /\ UNCHANGED <<callVars, busVars, uartVars, acc>>

\* Mutant: no uart_flush_input before the request.
BeginSend_NoFlush(t) ==
    /\ pc[t] = "start"
    /\ LateReplies \/ (down = {} /\ up = {})
    /\ pc' = [pc EXCEPT ![t] = "send"]
    /\ de' = TRUE
    /\ sender' = call[t].id
    /\ UNCHANGED <<callVars, busVars, rx, lock, acc>>

\* set_tx_mode(true), then uart_flush_input.  Unless LateReplies, the slave has
\* finished with every earlier request by now: it answers within the timeout.
BeginSend(t) ==
    /\ pc[t] = "start"
    /\ LateReplies \/ (down = {} /\ up = {})
    /\ pc' = [pc EXCEPT ![t] = "send"]
    /\ de' = TRUE
    /\ rx' = <<>>
    /\ sender' = call[t].id
    /\ UNCHANGED <<callVars, busVars, lock, acc>>

Transmit(t) ==
    /\ pc[t] = "send"
    /\ pc' = [pc EXCEPT ![t] = "txwait"]
    /\ down' = down \union {call[t]}
    /\ UNCHANGED <<callVars, regs, up, uartVars, lock, acc>>

\* Mutant: the bus is not released after the request.
TxDone_KeepsDriving(t) ==
    /\ pc[t] = "txwait"
    /\ pc' = [pc EXCEPT ![t] = "recv"]
    /\ UNCHANGED <<callVars, busVars, uartVars, lock, acc>>

\* uart_wait_tx_done, the turn-around delay and set_tx_mode(false).
TxDone(t) ==
    /\ pc[t] = "txwait"
    /\ pc' = [pc EXCEPT ![t] = "recv"]
    /\ de' = FALSE
    /\ UNCHANGED <<callVars, busVars, rx, sender, lock, acc>>

\* Mutant: a return that keeps the lock.
Return_KeepsLock(t, code, val, frames) ==
    /\ pc' = [pc EXCEPT ![t] = "idle"]
    /\ lock' = lock
    /\ ret' = [ret EXCEPT ![t] = [code |-> code, id |-> call[t].id, val |-> val]]
    /\ acc' = [acc EXCEPT ![t] = frames]

\* The operation gives the lock back and returns.
Return(t, code, val, frames) ==
    /\ pc' = [pc EXCEPT ![t] = "idle"]
    /\ lock' = Free
    /\ ret' = [ret EXCEPT ![t] = [code |-> code, id |-> call[t].id, val |-> val]]
    /\ acc' = [acc EXCEPT ![t] = frames]

\* An ESP_RETURN_ON_ERROR of send_frame: the pins stay as they are, driving.
SendFails(t) ==
    /\ UartFaults
    /\ pc[t] \in {"start", "send", "txwait"}
    /\ \E e \in {"FAIL", "TIMEOUT"} : Return(t, e, NoVal, {})
    /\ de' = TRUE
    /\ UNCHANGED <<nextId, call, begun, taken, busVars, rx, sender>>

Receive(t) ==
    /\ pc[t] = "recv"
    /\ rx # <<>>
    /\ LET f == Head(rx) IN
         \E e \in Outcomes(f, call[t].req) :
            IF e = "OK" THEN Return(t, e, f.val, {f}) ELSE Return(t, e, NoVal, {})
    /\ rx' = Tail(rx)
    /\ UNCHANGED <<nextId, call, begun, taken, busVars, de, sender>>

ReceiveTimeout(t) ==
    /\ pc[t] = "recv"
    /\ rx = <<>>
    /\ Return(t, "TIMEOUT", NoVal, {})
    /\ UNCHANGED <<nextId, call, begun, taken, busVars, uartVars>>
-------------------------------------------------------------------------------
(* The slave and the line (external).                                      *)

Written(r) ==
    [a \in Addrs |-> IF r.addr <= a /\ a < r.addr + r.count THEN r.val ELSE regs[a]]
Obtained(r) == IF r.fc = "read" THEN regs[r.addr] ELSE NoVal

Answer(c, val, exc) ==
    [id |-> c.id, req |-> c.req, val |-> val, exc |-> exc, good |-> TRUE, at |-> 0]

SlaveExecutes(c) ==
    /\ down' = down \ {c}
    /\ up' = up \union {Answer(c, Obtained(c.req), FALSE)}
    /\ taken' = taken \union {[id |-> c.id, val |-> Obtained(c.req)]}
    /\ regs' = IF c.req.fc = "write" THEN Written(c.req) ELSE regs
    /\ UNCHANGED <<nextId, call, begun, ret, uartVars, pc, lock, acc>>

SlaveRefuses(c) ==
    /\ down' = down \ {c}
    /\ up' = up \union {Answer(c, NoVal, TRUE)}
    /\ UNCHANGED <<callVars, regs, uartVars, pc, lock, acc>>

LoseRequest(c) ==
    /\ down' = down \ {c}
    /\ UNCHANGED <<callVars, regs, up, uartVars, pc, lock, acc>>

\* The frame as it reaches the UART, damaged or not.
Received(f, good) ==
    [id |-> f.id, req |-> f.req, val |-> f.val, exc |-> f.exc, good |-> good, at |-> sender]

\* The transceiver is deaf while it drives the bus: such an answer is lost.
Arrive(f) ==
    /\ up' = up \ {f}
    /\ \E good \in BOOLEAN :
         rx' = IF de THEN rx ELSE Append(rx, Received(f, good))
    /\ UNCHANGED <<callVars, regs, down, de, sender, pc, lock, acc>>

LoseReply(f) ==
    /\ up' = up \ {f}
    /\ UNCHANGED <<callVars, regs, down, uartVars, pc, lock, acc>>

\* Bytes nobody sent; they are no frame with a valid CRC.
Noise ==
    /\ ~de
    /\ Len(rx) < MaxRx
    /\ rx' = Append(rx, [id |-> 0, req |-> CHOOSE r \in Reqs : TRUE, val |-> NoVal,
                         exc |-> FALSE, good |-> FALSE, at |-> sender])
    /\ UNCHANGED <<callVars, busVars, de, sender, pc, lock, acc>>
-------------------------------------------------------------------------------
Master(t) ==
    \/ \E r \in Reqs : Begin(t, r) \/ Refuse(t, r)
    \/ TakeLock(t) \/ BeginSend(t) \/ Transmit(t) \/ TxDone(t)
    \/ SendFails(t) \/ Receive(t) \/ ReceiveTimeout(t)

Line ==
    \/ \E c \in down : SlaveExecutes(c) \/ SlaveRefuses(c) \/ LoseRequest(c)
    \/ \E f \in up : Arrive(f) \/ LoseReply(f)
    \/ Noise

Next == (\E t \in Tasks : Master(t)) \/ Line

Spec == Init /\ [][Next]_vars

\* A task inside a call is scheduled; handle->lock is granted to a waiting task
\* sooner or later, its holder giving it back after at most two timeouts.
Fairness ==
    \A t \in Tasks :
        /\ SF_vars(TakeLock(t))
        /\ WF_vars(BeginSend(t) \/ Transmit(t) \/ TxDone(t))
        /\ WF_vars(Receive(t) \/ ReceiveTimeout(t))

FairSpec == Spec /\ Fairness
-------------------------------------------------------------------------------
(* Properties.                                                             *)

\* Two tasks are never inside the critical section of the driver, and a task that
\* waits for an answer (receive_frame) has the transceiver listening: no other
\* task raised DE/RE in the meantime (set_tx_mode).
HalfDuplex ==
    /\ \A t \in Tasks : pc[t] \in Holding <=> lock = t
    /\ \A t \in Tasks : pc[t] = "recv" => ~de

\* When no UART call fails the bus is released between calls: the pins are low
\* whenever handle->lock is free (send_frame lowers them before it returns).
BusReleased == lock = Free => ~de

\* A call that returned ESP_OK was carried out by the slave, and what it returned
\* is what the slave obtained for this very call.  True only while no answer
\* outlives its call (LateReplies = FALSE), since answers carry no number.
OkMeansTaken ==
    \A t \in Tasks :
        ret[t].code = "OK" => [id |-> ret[t].id, val |-> ret[t].val] \in taken

\* Even when answers come late, a call that returned ESP_OK accepted an undamaged
\* answer that reached the UART after this call flushed the buffer, that answers
\* a request of the same shape, and that request was carried out.
OkWasAnswered ==
    \A t \in Tasks : ret[t].code = "OK" =>
        \E f \in acc[t] :
            /\ f.good
            /\ f.at = ret[t].id
            /\ [id |-> f.id, val |-> ret[t].val] \in taken
            /\ \E c \in begun : c.id = ret[t].id /\ Answers(f, c.req)

\* Every call returns, whatever the line and the slave do.
EveryCallReturns == \A t \in Tasks : pc[t] # "idle" ~> pc[t] = "idle"

\* The driver implements ModbusCall: the tasks inside a call are the busy ones.
Abs == INSTANCE ModbusCall WITH busy <- {t \in Tasks : pc[t] # "idle"}
ImplementsModbusCall == Abs!Spec
===============================================================================
