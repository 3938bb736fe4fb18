------------------------------ MODULE ModbusCall ------------------------------
(***************************************************************************)
(* What a caller of modbus_rtu may rely on.  A task asks the slave to read *)
(* or write a block of holding registers; the request takes effect at most *)
(* once, at one instant after the call began; a call that returns ESP_OK   *)
(* took effect before it returned and a read returns the value its block   *)
(* had at that instant; a call that fails may have taken effect, may do so *)
(* later, or never.  ModbusRtu implements this specification as long as no *)
(* answer outlives the call it belongs to.                                 *)
(***************************************************************************)
EXTENDS Naturals

CONSTANTS Tasks,     \* the FreeRTOS tasks that call the driver
          Addrs,     \* the holding registers of the slave
          Vals,      \* register contents
          NoVal,     \* "no data": what a write returns
          Reqs,      \* the requests the tasks make
          MaxCalls   \* bound on the number of calls

Codes == {"OK", "TIMEOUT", "INVALID_CRC", "INVALID_SIZE", "INVALID_RESPONSE",
          "INVALID_ARG", "FAIL"}

VARIABLES regs,    \* [Addrs -> Vals]: the registers of the slave
          nextId,  \* identifier of the next call
          busy,    \* the tasks inside a call
          call,    \* call[t]: the last call of task t, [id, req]
          begun,   \* every call ever made
          taken,   \* the calls that took effect, with the data they obtained
          ret      \* ret[t]: what the last call of t returned

callVars == <<regs, nextId, busy, call, begun, taken, ret>>

Init ==
    /\ regs \in [Addrs -> Vals]
    /\ nextId = 1
    /\ busy = {}
    /\ call = [t \in Tasks |-> [id |-> 0, req |-> CHOOSE r \in Reqs : TRUE]]
    /\ begun = {}
    /\ taken = {}
    /\ ret = [t \in Tasks |-> [code |-> "FAIL", id |-> 0, val |-> NoVal]]

\* The registers after the write request r.
Written(r) ==
    [a \in Addrs |-> IF r.addr <= a /\ a < r.addr + r.count THEN r.val ELSE regs[a]]

\* The data the request r obtains: the first register of the block stands for the block.
Obtained(r) == IF r.fc = "read" THEN regs[r.addr] ELSE NoVal

Begin(t, r) ==
    /\ t \notin busy
    /\ nextId <= MaxCalls
    /\ busy' = busy \union {t}
    /\ call' = [call EXCEPT ![t] = [id |-> nextId, req |-> r]]
    /\ begun' = begun \union {[id |-> nextId, req |-> r]}
    /\ nextId' = nextId + 1
    /\ UNCHANGED <<regs, taken, ret>>

\* A call with a count the protocol cannot carry is refused on the spot.
Refuse(t) ==
    /\ t \notin busy
    /\ ret' = [ret EXCEPT ![t] = [code |-> "INVALID_ARG", id |-> 0, val |-> NoVal]]
    /\ UNCHANGED <<regs, nextId, busy, call, begun, taken>>

TakeEffect(c) ==
    /\ \A x \in taken : x.id # c.id
    /\ taken' = taken \union {[id |-> c.id, val |-> Obtained(c.req)]}
    /\ regs' = IF c.req.fc = "write" THEN Written(c.req) ELSE regs
    /\ UNCHANGED <<nextId, busy, call, begun, ret>>

Succeed(t, x) ==
    /\ t \in busy
    /\ x.id = call[t].id
    /\ busy' = busy \ {t}
    /\ ret' = [ret EXCEPT ![t] = [code |-> "OK", id |-> x.id, val |-> x.val]]
    /\ UNCHANGED <<regs, nextId, call, begun, taken>>

Fail(t, e) ==
    /\ t \in busy
    /\ busy' = busy \ {t}
    /\ ret' = [ret EXCEPT ![t] = [code |-> e, id |-> call[t].id, val |-> NoVal]]
    /\ UNCHANGED <<regs, nextId, call, begun, taken>>

Next ==
    \/ \E t \in Tasks, r \in Reqs : Begin(t, r)
    \/ \E t \in Tasks : Refuse(t)
    \/ \E c \in begun : TakeEffect(c)
    \/ \E t \in Tasks : \E x \in taken : Succeed(t, x)
    \/ \E t \in Tasks, e \in Codes \ {"OK", "INVALID_ARG"} : Fail(t, e)

Spec == Init /\ [][Next]_callVars
===============================================================================
