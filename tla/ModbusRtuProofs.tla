--------------------------- MODULE ModbusRtuProofs ---------------------------
(***************************************************************************)
(* Theorems about ModbusRtu, for every set of tasks, every set of requests *)
(* and every bound.  One inductive invariant, IInv, carries them all.      *)
(***************************************************************************)
EXTENDS ModbusRtu, TLAPS

\* handle->lock is held exactly by the task inside the critical section, and the
\* pins follow the place that task has reached.
LockInv ==
    /\ \A t \in Tasks : pc[t] \in Holding <=> lock = t
    /\ \A t \in Tasks : pc[t] \in {"send", "txwait"} => de
    /\ \A t \in Tasks : pc[t] = "recv" => ~de

\* An identifier names one call, and a task inside a call is inside a begun one.
IdInv ==
    /\ \A c \in begun : c.id < nextId
    /\ \A c, d \in begun : c.id = d.id => c = d
    /\ \A t \in Tasks : pc[t] # "idle" => call[t] \in begun
    /\ \A t, u \in Tasks :
         pc[t] # "idle" /\ pc[u] # "idle" /\ call[t].id = call[u].id => t = u

Untaken(c) == \A x \in taken : x.id # c.id

\* Where a frame comes from: a begun call, carried out unless it is an exception.
Genuine(f) ==
    /\ [id |-> f.id, req |-> f.req] \in begun
    /\ ~f.exc => [id |-> f.id, val |-> f.val] \in taken

\* A request that is still to be sent, or is on the line, was not carried out.
RequestsFresh ==
    /\ \A t \in Tasks : pc[t] \in {"lock", "start", "send"} =>
                          Untaken(call[t]) /\ call[t] \notin down
    /\ down \subseteq begun
    /\ \A c \in down : Untaken(c)
    /\ \A x \in taken : \E c \in begun : c.id = x.id

\* Every undamaged answer under way or received is genuine.
FramesGenuine ==
    /\ \A f \in up : Genuine(f)
    /\ \A i \in 1 .. Len(rx) : rx[i].good => Genuine(rx[i])

LineInv == RequestsFresh /\ FramesGenuine

Window == {"send", "txwait", "recv"}

\* What can reach a call: frames that came in after its flush, and, when answers
\* never come late, its own answer only.
WindowOf(t) ==
    /\ sender = call[t].id
    /\ \A i \in 1 .. Len(rx) : rx[i].at = sender
    /\ ~LateReplies =>
         /\ \A c \in down : c = call[t]
         /\ \A f \in up : f.id = call[t].id
         /\ \A i \in 1 .. Len(rx) : rx[i].good => rx[i].id = call[t].id

WindowInv == \A t \in Tasks : pc[t] \in Window => WindowOf(t)

IInv == TypeOK /\ LockInv /\ IdInv /\ LineInv /\ WindowInv
-------------------------------------------------------------------------------
(* Lemmas about the operators.                                             *)

\* An answer to a request the driver accepts fits the buffer the operation gives
\* receive_frame: 125 registers make 255 bytes of 256, a write is answered in 8 of 16.
LEMMA AnswerFitsBuffer ==
  ASSUME ConstantsAssumption, NEW r \in Reqs, ValidCount(r),
         NEW f \in Frame, f.req = r
  PROVE  FrameLen(f) <= BufferLen(r)
  <1>1. r.count \in Nat
    BY DEF ConstantsAssumption
  <1>2. r.fc = "read" => r.count <= 125
    BY <1>1 DEF ValidCount, ConstantsAssumption
  <1>3. CASE f.exc
    BY <1>3 DEF FrameLen, BufferLen
  <1>4. CASE ~f.exc /\ r.fc = "read"
    BY <1>1, <1>2, <1>4 DEF FrameLen, BufferLen
  <1>5. CASE ~f.exc /\ r.fc # "read"
    BY <1>5 DEF FrameLen, BufferLen
  <1>6. QED
    BY <1>3, <1>4, <1>5

\* What the slave obtains and writes are values.
LEMMA ObtainedType ==
  ASSUME ConstantsAssumption, TypeOK, NEW r \in Reqs
  PROVE  /\ Obtained(r) \in Vals \union {NoVal}
         /\ Written(r) \in [Addrs -> Vals]
  BY DEF ConstantsAssumption, TypeOK, Obtained, Written

\* Answers, on the line or in the receive buffer, are frames.
LEMMA AnswerType ==
  ASSUME ConstantsAssumption, NEW c \in Call, NEW v \in Vals \union {NoVal}, NEW b \in BOOLEAN
  PROVE  /\ Answer(c, v, b) \in Frame
         /\ Answer(c, v, b).id = c.id
         /\ Answer(c, v, b).req = c.req
         /\ Answer(c, v, b).val = v
         /\ Answer(c, v, b).exc = b
  BY DEF Answer, Frame, Call
-------------------------------------------------------------------------------
(* Type correctness.                                                       *)

\* Every initial state is well typed.
LEMMA InitTypeOK == ConstantsAssumption /\ Init => TypeOK
  <1> SUFFICES ASSUME ConstantsAssumption, Init PROVE TypeOK
    OBVIOUS
  <1>1. (CHOOSE r \in Reqs : TRUE) \in Reqs
    BY DEF ConstantsAssumption
  <1>2. call \in [Tasks -> Call]
    BY <1>1 DEF Init, Call
  <1>3. ret \in [Tasks -> [code : Codes, id : Nat, val : Vals \union {NoVal}]]
    BY DEF Init, Codes
  <1>4. pc \in [Tasks -> Locations] /\ acc \in [Tasks -> SUBSET Frame]
    BY DEF Init, Locations
  <1>5. rx \in Seq(Frame)
    BY DEF Init
  <1>6. QED
    BY <1>2, <1>3, <1>4, <1>5 DEF Init, TypeOK

\* Whatever a call returns, the variables it changes keep their types.
LEMMA ReturnType ==
  ASSUME TypeOK, NEW t \in Tasks, NEW e \in Codes, NEW v \in Vals \union {NoVal},
         NEW F \in SUBSET Frame, Return(t, e, v, F)
  PROVE  /\ pc' \in [Tasks -> Locations]
         /\ lock' \in Tasks \union {Free}
         /\ ret' \in [Tasks -> [code : Codes, id : Nat, val : Vals \union {NoVal}]]
         /\ acc' \in [Tasks -> SUBSET Frame]
  BY DEF Return, TypeOK, Locations, Call

\* Every step keeps the types.
LEMMA NextTypeOK == ConstantsAssumption /\ TypeOK /\ [Next]_vars => TypeOK'
  <1> SUFFICES ASSUME ConstantsAssumption, TypeOK, [Next]_vars
               PROVE  TypeOK'
    OBVIOUS
  <1> USE DEF callVars, busVars, uartVars
  <1>1. ASSUME NEW t \in Tasks, NEW r \in Reqs, Begin(t, r)
        PROVE  TypeOK'
    <2>1. [id |-> nextId, req |-> r] \in Call
      BY DEF TypeOK, Call
    <2>2. call' \in [Tasks -> Call] /\ begun' \in SUBSET Call
      BY <1>1, <2>1 DEF Begin, TypeOK
    <2>3. nextId' \in Nat /\ pc' \in [Tasks -> Locations]
      BY <1>1 DEF Begin, TypeOK, Locations
    <2>4. QED
      BY <1>1, <2>2, <2>3 DEF Begin, TypeOK
  <1>2. ASSUME NEW t \in Tasks, NEW r \in Reqs, Refuse(t, r)
        PROVE  TypeOK'
    BY <1>2 DEF Refuse, TypeOK, Codes
  <1>3. ASSUME NEW t \in Tasks, TakeLock(t)
        PROVE  TypeOK'
    BY <1>3 DEF TakeLock, TypeOK, Locations
  <1>4. ASSUME NEW t \in Tasks, BeginSend(t)
        PROVE  TypeOK'
    <2>1. call[t].id \in Nat /\ "send" \in Locations
      BY DEF TypeOK, Call, Locations
    <2>2. pc' \in [Tasks -> Locations]
      BY <1>4, <2>1 DEF BeginSend, TypeOK
    <2>3. de' \in BOOLEAN /\ rx' \in Seq(Frame) /\ sender' \in Nat
      BY <1>4, <2>1 DEF BeginSend
    <2>4. QED
      BY <1>4, <2>2, <2>3 DEF BeginSend, TypeOK
  <1>5. ASSUME NEW t \in Tasks, Transmit(t)
        PROVE  TypeOK'
    BY <1>5 DEF Transmit, TypeOK, Locations
  <1>6. ASSUME NEW t \in Tasks, TxDone(t)
        PROVE  TypeOK'
    BY <1>6 DEF TxDone, TypeOK, Locations
  <1>7. ASSUME NEW t \in Tasks, SendFails(t)
        PROVE  TypeOK'
    <2>1. PICK e \in {"FAIL", "TIMEOUT"} : Return(t, e, NoVal, {})
      BY <1>7 DEF SendFails
    <2>2. e \in Codes /\ NoVal \in Vals \union {NoVal} /\ {} \in SUBSET Frame
      BY DEF Codes
    <2>3. /\ pc' \in [Tasks -> Locations]
          /\ lock' \in Tasks \union {Free}
          /\ ret' \in [Tasks -> [code : Codes, id : Nat, val : Vals \union {NoVal}]]
          /\ acc' \in [Tasks -> SUBSET Frame]
      BY <2>1, <2>2, ReturnType
    <2>4. QED
      BY <1>7, <2>3 DEF SendFails, TypeOK
  <1>8. ASSUME NEW t \in Tasks, Receive(t)
        PROVE  TypeOK'
    <2>1. Head(rx) \in Frame /\ Tail(rx) \in Seq(Frame)
      BY <1>8 DEF Receive, TypeOK
    <2>2. PICK e \in Outcomes(Head(rx), call[t].req) :
             IF e = "OK" THEN Return(t, e, Head(rx).val, {Head(rx)})
                         ELSE Return(t, e, NoVal, {})
      BY <1>8 DEF Receive
    <2>3. e \in Codes
      BY <2>2 DEF Outcomes, Codes
    <2>4. Head(rx).val \in Vals \union {NoVal}
      BY <2>1 DEF Frame
    <2>5. /\ pc' \in [Tasks -> Locations]
          /\ lock' \in Tasks \union {Free}
          /\ ret' \in [Tasks -> [code : Codes, id : Nat, val : Vals \union {NoVal}]]
          /\ acc' \in [Tasks -> SUBSET Frame]
      <3>1. CASE e = "OK"
        BY <2>1, <2>2, <2>3, <2>4, <3>1, ReturnType
      <3>2. CASE e # "OK"
        BY <2>2, <2>3, <3>2, ReturnType
      <3>3. QED
        BY <3>1, <3>2
    <2>6. QED
      BY <1>8, <2>1, <2>5 DEF Receive, TypeOK
  <1>9. ASSUME NEW t \in Tasks, ReceiveTimeout(t)
        PROVE  TypeOK'
    <2>1. "TIMEOUT" \in Codes /\ NoVal \in Vals \union {NoVal} /\ {} \in SUBSET Frame
      BY DEF Codes
    <2>2. /\ pc' \in [Tasks -> Locations]
          /\ lock' \in Tasks \union {Free}
          /\ ret' \in [Tasks -> [code : Codes, id : Nat, val : Vals \union {NoVal}]]
          /\ acc' \in [Tasks -> SUBSET Frame]
      BY <1>9, <2>1, ReturnType DEF ReceiveTimeout
    <2>3. QED
      BY <1>9, <2>2 DEF ReceiveTimeout, TypeOK
  <1>10. ASSUME NEW c \in down, SlaveExecutes(c)
         PROVE  TypeOK'
    <2>1. c \in Call
      BY DEF TypeOK
    <2>2. c.req \in Reqs /\ c.id \in Nat
      BY <2>1 DEF Call
    <2>3. Answer(c, Obtained(c.req), FALSE) \in Frame
      BY <2>1, <2>2, ObtainedType, AnswerType
    <2>4. /\ Obtained(c.req) \in Vals \union {NoVal}
          /\ Written(c.req) \in [Addrs -> Vals]
      BY <2>2, ObtainedType
    <2>5. regs' \in [Addrs -> Vals]
      BY <1>10, <2>4 DEF SlaveExecutes, TypeOK
    <2>6. taken' \in SUBSET [id : Nat, val : Vals \union {NoVal}]
      BY <1>10, <2>2, <2>4 DEF SlaveExecutes, TypeOK
    <2>7. down' \in SUBSET Call /\ up' \in SUBSET Frame
      BY <1>10, <2>3 DEF SlaveExecutes, TypeOK
    <2>8. QED
      BY <1>10, <2>5, <2>6, <2>7 DEF SlaveExecutes, TypeOK
  <1>11. ASSUME NEW c \in down, SlaveRefuses(c)
         PROVE  TypeOK'
    <2>1. c \in Call
      BY DEF TypeOK
    <2>2. Answer(c, NoVal, TRUE) \in Frame
      BY <2>1, AnswerType
    <2>3. QED
      BY <1>11, <2>2 DEF SlaveRefuses, TypeOK
  <1>12. ASSUME NEW c \in down, LoseRequest(c)
         PROVE  TypeOK'
    BY <1>12 DEF LoseRequest, TypeOK
  <1>13. ASSUME NEW f \in up, Arrive(f)
         PROVE  TypeOK'
    <2>1. PICK good \in BOOLEAN :
             rx' = IF de THEN rx ELSE Append(rx, Received(f, good))
      BY <1>13 DEF Arrive
    <2>2. Received(f, good) \in Frame
      BY DEF TypeOK, Frame, Received
    <2>3. rx' \in Seq(Frame)
      BY <2>1, <2>2 DEF TypeOK
    <2>4. QED
      BY <1>13, <2>3 DEF Arrive, TypeOK
  <1>14. ASSUME NEW f \in up, LoseReply(f)
         PROVE  TypeOK'
    BY <1>14 DEF LoseReply, TypeOK
  <1>15. CASE Noise
    <2>1. (CHOOSE r \in Reqs : TRUE) \in Reqs
      BY DEF ConstantsAssumption
    <2>2. [id |-> 0, req |-> CHOOSE r \in Reqs : TRUE, val |-> NoVal, exc |-> FALSE,
           good |-> FALSE, at |-> sender] \in Frame
      BY <2>1 DEF TypeOK, Frame
    <2>3. rx' \in Seq(Frame)
      BY <1>15, <2>2 DEF Noise, TypeOK
    <2>4. QED
      BY <1>15, <2>3 DEF Noise, TypeOK
  <1>16. CASE UNCHANGED vars
    BY <1>16 DEF vars, TypeOK
  <1>17. QED
    BY <1>1, <1>2, <1>3, <1>4, <1>5, <1>6, <1>7, <1>8, <1>9, <1>10, <1>11, <1>12,
       <1>13, <1>14, <1>15, <1>16 DEF Next, Master, Line

\* Every variable keeps its type.
THEOREM TypeCorrect == Spec => []TypeOK
  <1>1. ConstantsAssumption /\ Init => TypeOK
    BY InitTypeOK
  <1>2. ConstantsAssumption /\ TypeOK /\ [Next]_vars => TypeOK'
    BY NextTypeOK
  <1>3. QED
    BY <1>1, <1>2, ConstantsAssumption, PTL DEF Spec
-------------------------------------------------------------------------------
(* The inductive invariant, conjunct by conjunct.                          *)

\* The inductive invariant holds initially.
LEMMA InitIInv == ConstantsAssumption /\ Init => IInv
  <1> SUFFICES ASSUME ConstantsAssumption, Init PROVE IInv
    OBVIOUS
  <1>1. TypeOK
    BY InitTypeOK
  <1>2. LockInv
    BY DEF Init, LockInv, Holding, ConstantsAssumption
  <1>3. IdInv
    BY DEF Init, IdInv
  <1>4. LineInv
    BY DEF Init, LineInv, RequestsFresh, FramesGenuine
  <1>5. WindowInv
    BY DEF Init, WindowInv, Window
  <1>6. QED
    BY <1>1, <1>2, <1>3, <1>4, <1>5 DEF IInv

\* Every way to return leaves the task outside the critical section.
LEMMA ReturnUnlocks ==
  ASSUME ConstantsAssumption, TypeOK, LockInv, NEW t \in Tasks, pc[t] \in Holding,
         NEW e, NEW v, NEW F, Return(t, e, v, F), de' \in BOOLEAN
  PROVE  LockInv'
  <1>1. \A u \in Tasks : u # t => pc'[u] = pc[u] /\ pc[u] \notin Holding
    BY DEF Return, LockInv, TypeOK
  <1>2. pc'[t] = "idle" /\ lock' = Free
    BY DEF Return, TypeOK
  <1>3. QED
    BY <1>1, <1>2 DEF LockInv, Holding, ConstantsAssumption

\* Every step keeps: the lock is held by the one task inside the critical section.
LEMMA NextLockInv == ConstantsAssumption /\ TypeOK /\ LockInv /\ [Next]_vars => LockInv'
  <1> SUFFICES ASSUME ConstantsAssumption, TypeOK, LockInv, [Next]_vars
               PROVE  LockInv'
    OBVIOUS
  <1> USE DEF callVars, busVars, uartVars
  <1>1. ASSUME NEW t \in Tasks, NEW r \in Reqs, Begin(t, r)
        PROVE  LockInv'
    BY <1>1 DEF Begin, TypeOK, LockInv, Holding
  <1>2. ASSUME NEW t \in Tasks, NEW r \in Reqs, Refuse(t, r)
        PROVE  LockInv'
    BY <1>2 DEF Refuse, LockInv
  <1>3. ASSUME NEW t \in Tasks, TakeLock(t)
        PROVE  LockInv'
    BY <1>3 DEF TakeLock, TypeOK, LockInv, Holding, ConstantsAssumption
  <1>4. ASSUME NEW t \in Tasks, BeginSend(t)
        PROVE  LockInv'
    BY <1>4 DEF BeginSend, TypeOK, LockInv, Holding
  <1>5. ASSUME NEW t \in Tasks, Transmit(t)
        PROVE  LockInv'
    BY <1>5 DEF Transmit, TypeOK, LockInv, Holding
  <1>6. ASSUME NEW t \in Tasks, TxDone(t)
        PROVE  LockInv'
    BY <1>6 DEF TxDone, TypeOK, LockInv, Holding
  <1>7. ASSUME NEW t \in Tasks, SendFails(t)
        PROVE  LockInv'
    <2>1. PICK e \in {"FAIL", "TIMEOUT"} : Return(t, e, NoVal, {})
      BY <1>7 DEF SendFails
    <2>2. pc[t] \in Holding /\ de' \in BOOLEAN
      BY <1>7 DEF SendFails, Holding
    <2>3. QED
      BY <2>1, <2>2, ReturnUnlocks
  <1>8. ASSUME NEW t \in Tasks, Receive(t)
        PROVE  LockInv'
    <2>1. PICK e, v, F : Return(t, e, v, F)
      BY <1>8 DEF Receive
    <2>2. pc[t] \in Holding /\ de' \in BOOLEAN
      BY <1>8 DEF Receive, Holding, TypeOK
    <2>3. QED
      BY <2>1, <2>2, ReturnUnlocks
  <1>9. ASSUME NEW t \in Tasks, ReceiveTimeout(t)
        PROVE  LockInv'
    <2>1. pc[t] \in Holding /\ de' \in BOOLEAN
      BY <1>9 DEF ReceiveTimeout, Holding, TypeOK
    <2>2. QED
      BY <1>9, <2>1, ReturnUnlocks DEF ReceiveTimeout
  <1>10. CASE Line \/ UNCHANGED vars
    <2>1. UNCHANGED <<pc, lock, de>>
      BY <1>10 DEF Line, SlaveExecutes, SlaveRefuses, LoseRequest, Arrive, LoseReply,
                   Noise, vars
    <2>2. QED
      BY <2>1 DEF LockInv
  <1>11. QED
    BY <1>1, <1>2, <1>3, <1>4, <1>5, <1>6, <1>7, <1>8, <1>9, <1>10 DEF Next, Master

\* A step that begins no call keeps the identifiers, whoever returns.
LEMMA NextIdInv == ConstantsAssumption /\ TypeOK /\ IdInv /\ [Next]_vars => IdInv'
  <1> SUFFICES ASSUME ConstantsAssumption, TypeOK, IdInv, [Next]_vars
               PROVE  IdInv'
    OBVIOUS
  <1> USE DEF callVars, busVars, uartVars
  <1>1. ASSUME NEW t \in Tasks, NEW r \in Reqs, Begin(t, r)
        PROVE  IdInv'
    <2> DEFINE c == [id |-> nextId, req |-> r]
    <2>1. /\ begun' = begun \union {c}
          /\ nextId' = nextId + 1
          /\ c.id = nextId
          /\ nextId \in Nat
      BY <1>1 DEF Begin, TypeOK
    <2>2. call'[t] = c /\ \A u \in Tasks : u # t => call'[u] = call[u] /\ pc'[u] = pc[u]
      BY <1>1 DEF Begin, TypeOK
    <2>3. \A d \in begun : d.id < nextId /\ d.id \in Nat
      BY DEF IdInv, TypeOK, Call
    <2> HIDE DEF c
    <2>4. \A d \in begun' : d.id < nextId'
      BY <2>1, <2>3
    <2>5. \A d, e \in begun' : d.id = e.id => d = e
      BY <2>1, <2>3 DEF IdInv
    <2>6. \A u \in Tasks : pc'[u] # "idle" => call'[u] \in begun'
      BY <2>1, <2>2 DEF IdInv
    <2>7. \A u \in Tasks : u # t /\ pc'[u] # "idle" => call'[u].id # call'[t].id
      BY <2>1, <2>2, <2>3 DEF IdInv
    <2>8. \A u, w \in Tasks :
             pc'[u] # "idle" /\ pc'[w] # "idle" /\ call'[u].id = call'[w].id => u = w
      BY <2>2, <2>7 DEF IdInv
    <2>9. QED
      BY <2>4, <2>5, <2>6, <2>8 DEF IdInv
  <1>2. ASSUME UNCHANGED <<nextId, begun, call>>,
               \A t \in Tasks : pc'[t] # "idle" => pc[t] # "idle"
        PROVE  IdInv'
    BY <1>2 DEF IdInv
  <1>3. ASSUME NEW t \in Tasks, NEW r \in Reqs, Refuse(t, r)
        PROVE  IdInv'
    BY <1>3, <1>2 DEF Refuse
  <1>4. ASSUME NEW t \in Tasks,
               TakeLock(t) \/ BeginSend(t) \/ Transmit(t) \/ TxDone(t)
        PROVE  IdInv'
    BY <1>4, <1>2 DEF TakeLock, BeginSend, Transmit, TxDone, TypeOK
  <1>5. ASSUME NEW t \in Tasks, SendFails(t) \/ Receive(t) \/ ReceiveTimeout(t)
        PROVE  IdInv'
    <2>1. PICK e, v, F : Return(t, e, v, F)
      BY <1>5 DEF SendFails, Receive, ReceiveTimeout
    <2>2. \A u \in Tasks : pc'[u] # "idle" => pc[u] # "idle"
      BY <2>1 DEF Return, TypeOK
    <2>3. UNCHANGED <<nextId, begun, call>>
      BY <1>5 DEF SendFails, Receive, ReceiveTimeout
    <2>4. QED
      BY <1>2, <2>2, <2>3
  <1>6. CASE Line \/ UNCHANGED vars
    <2>1. UNCHANGED <<pc, nextId, begun, call>>
      BY <1>6 DEF Line, SlaveExecutes, SlaveRefuses, LoseRequest, Arrive, LoseReply,
                  Noise, vars
    <2>2. QED
      BY <2>1, <1>2
  <1>7. QED
    BY <1>1, <1>3, <1>4, <1>5, <1>6 DEF Next, Master

\* A frame stays genuine: calls and effects are never forgotten.
LEMMA GenuineStays ==
  ASSUME begun \subseteq begun', taken \subseteq taken', NEW f, Genuine(f)
  PROVE  Genuine(f)'
  BY DEF Genuine

\* Every step keeps: an undamaged frame answers a request that was made and carried out.
LEMMA NextFramesGenuine ==
  ConstantsAssumption /\ TypeOK /\ LineInv /\ [Next]_vars => FramesGenuine'
  <1> SUFFICES ASSUME ConstantsAssumption, TypeOK, LineInv, [Next]_vars
               PROVE  FramesGenuine'
    OBVIOUS
  <1> USE DEF callVars, busVars, uartVars
  <1>0. FramesGenuine
    BY DEF LineInv
  <1>1. ASSUME begun \subseteq begun', taken \subseteq taken', up' \subseteq up,
               rx' = rx \/ rx' = <<>>
        PROVE  FramesGenuine'
    <2>1. \A g : Genuine(g) => Genuine(g)'
      BY <1>1, GenuineStays
    <2>2. CASE rx' = rx
      BY <1>0, <1>1, <2>1, <2>2 DEF FramesGenuine
    <2>3. CASE rx' = <<>>
      BY <1>0, <1>1, <2>1, <2>3 DEF FramesGenuine
    <2>4. QED
      BY <1>1, <2>2, <2>3
  <1>2. ASSUME NEW t \in Tasks,
               \/ \E r \in Reqs : Begin(t, r) \/ Refuse(t, r)
               \/ TakeLock(t) \/ BeginSend(t) \/ Transmit(t) \/ TxDone(t)
               \/ SendFails(t) \/ ReceiveTimeout(t)
        PROVE  FramesGenuine'
    <2>1. /\ begun \subseteq begun' /\ taken \subseteq taken' /\ up' \subseteq up
          /\ rx' = rx \/ rx' = <<>>
      BY <1>2, Zenon DEF Begin, Refuse, TakeLock, BeginSend, Transmit, TxDone, SendFails,
                  ReceiveTimeout, Return
    <2>2. QED
      BY <1>1, <2>1
  <1>3. ASSUME NEW t \in Tasks, Receive(t)
        PROVE  FramesGenuine'
    <2>1. /\ rx' = Tail(rx) /\ rx # <<>> /\ rx \in Seq(Frame)
          /\ UNCHANGED <<up, begun, taken>>
      BY <1>3 DEF Receive, TypeOK
    <2>2. \A i \in 1 .. Len(rx') : rx'[i] = rx[i + 1] /\ i + 1 \in 1 .. Len(rx)
      BY <2>1
    <2>3. \A i \in 1 .. Len(rx') : rx'[i].good => Genuine(rx'[i])
      BY <1>0, <2>2 DEF FramesGenuine
    <2>4. QED
      BY <1>0, <2>1, <2>3, GenuineStays DEF FramesGenuine
  <1>4. ASSUME NEW c \in down, SlaveExecutes(c)
        PROVE  FramesGenuine'
    <2>1. c \in Call /\ c \in begun
      BY DEF LineInv, RequestsFresh, TypeOK
    <2>2. PICK v : v = Obtained(c.req)
      OBVIOUS
    <2>3. PICK a : a = Answer(c, v, FALSE)
      OBVIOUS
    <2>4. a.id = c.id /\ a.req = c.req /\ a.val = v
      BY <2>3 DEF Answer
    <2>5. /\ [id |-> c.id, val |-> v] \in taken' /\ begun' = begun
          /\ up' = up \union {a} /\ rx' = rx /\ taken \subseteq taken'
      BY <1>4, <2>2, <2>3 DEF SlaveExecutes
    <2>6. [id |-> c.id, req |-> c.req] = c
      BY <2>1 DEF Call
    <2>7. Genuine(a)'
      BY <2>1, <2>4, <2>5, <2>6 DEF Genuine
    <2>8. \A g : Genuine(g) => Genuine(g)'
      BY <2>5, GenuineStays
    <2>9. QED
      BY <1>0, <2>5, <2>7, <2>8 DEF FramesGenuine
  <1>5. ASSUME NEW c \in down, SlaveRefuses(c)
        PROVE  FramesGenuine'
    <2> DEFINE a == Answer(c, NoVal, TRUE)
    <2>1. c \in Call /\ c \in begun
      BY DEF LineInv, RequestsFresh, TypeOK
    <2>2. a.id = c.id /\ a.req = c.req /\ a.exc
      BY DEF Answer
    <2>3. [id |-> c.id, req |-> c.req] = c
      BY <2>1 DEF Call
    <2>4. UNCHANGED <<begun, taken, rx>> /\ up' = up \union {a}
      BY <1>5 DEF SlaveRefuses
    <2> HIDE DEF a
    <2>5. Genuine(a)'
      BY <2>1, <2>2, <2>3, <2>4 DEF Genuine
    <2>6. \A g : Genuine(g) => Genuine(g)'
      BY <2>4, GenuineStays
    <2>7. QED
      BY <1>0, <2>4, <2>5, <2>6 DEF FramesGenuine
  <1>6. ASSUME NEW c \in down, LoseRequest(c)
        PROVE  FramesGenuine'
    BY <1>1, <1>6 DEF LoseRequest
  <1>7. ASSUME NEW f \in up, Arrive(f)
        PROVE  FramesGenuine'
    <2>1. PICK good \in BOOLEAN :
             rx' = IF de THEN rx ELSE Append(rx, Received(f, good))
      BY <1>7 DEF Arrive
    <2>2. UNCHANGED <<begun, taken>> /\ up' \subseteq up
      BY <1>7 DEF Arrive
    <2>3. CASE de
      BY <1>1, <2>1, <2>2, <2>3
    <2>4. CASE ~de
      <3> DEFINE g == Received(f, good)
      <3>1. g.id = f.id /\ g.req = f.req /\ g.val = f.val /\ g.exc = f.exc
        BY DEF Received
      <3>2. Genuine(f)
        BY <1>0 DEF FramesGenuine
      <3>3. Genuine(g)
        BY <3>1, <3>2 DEF Genuine
      <3> HIDE DEF g
      <3>4. rx' = Append(rx, g) /\ rx \in Seq(Frame)
        BY <2>1, <2>4 DEF g, TypeOK
      <3>5. \A i \in 1 .. Len(rx') : rx'[i] = g \/ (i \in 1 .. Len(rx) /\ rx'[i] = rx[i])
        BY <3>4
      <3>6. \A i \in 1 .. Len(rx') : rx'[i].good => Genuine(rx'[i])
        BY <1>0, <3>3, <3>5 DEF FramesGenuine
      <3>7. QED
        BY <1>0, <2>2, <3>6, GenuineStays DEF FramesGenuine
    <2>5. QED
      BY <2>3, <2>4
  <1>8. ASSUME NEW f \in up, LoseReply(f)
        PROVE  FramesGenuine'
    BY <1>1, <1>8 DEF LoseReply
  <1>9. CASE Noise
    <2> DEFINE g == [id |-> 0, req |-> CHOOSE r \in Reqs : TRUE, val |-> NoVal,
                     exc |-> FALSE, good |-> FALSE, at |-> sender]
    <2>1. UNCHANGED <<begun, taken, up>> /\ rx' = Append(rx, g) /\ rx \in Seq(Frame)
      BY <1>9 DEF Noise, TypeOK
    <2>2. ~g.good
      OBVIOUS
    <2> HIDE DEF g
    <2>3. \A i \in 1 .. Len(rx') : rx'[i] = g \/ (i \in 1 .. Len(rx) /\ rx'[i] = rx[i])
      BY <2>1
    <2>4. \A i \in 1 .. Len(rx') : rx'[i].good => Genuine(rx'[i])
      BY <1>0, <2>2, <2>3 DEF FramesGenuine
    <2>5. QED
      BY <1>0, <2>1, <2>4, GenuineStays DEF FramesGenuine
  <1>10. CASE UNCHANGED vars
    BY <1>1, <1>10 DEF vars
  <1>11. QED
    BY <1>2, <1>3, <1>4, <1>5, <1>6, <1>7, <1>8, <1>9, <1>10 DEF Next, Master, Line

\* Every step keeps: a request on the line has not been carried out yet.
LEMMA NextRequestsFresh ==
  ConstantsAssumption /\ TypeOK /\ IdInv /\ LineInv /\ [Next]_vars => RequestsFresh'
  <1> SUFFICES ASSUME ConstantsAssumption, TypeOK, IdInv, LineInv, [Next]_vars
               PROVE  RequestsFresh'
    OBVIOUS
  <1> USE DEF callVars, busVars, uartVars
  <1>0. RequestsFresh
    BY DEF LineInv
  <1>1. ASSUME NEW t \in Tasks, NEW r \in Reqs, Begin(t, r)
        PROVE  RequestsFresh'
    <2>1. /\ begun \subseteq begun' /\ UNCHANGED <<down, taken>>
          /\ call'[t].id = nextId
          /\ \A u \in Tasks : u # t => call'[u] = call[u] /\ pc'[u] = pc[u]
      BY <1>1 DEF Begin, TypeOK
    <2>2. \A c \in begun : c.id # nextId
      BY DEF IdInv, TypeOK, Call
    <2>3. (Untaken(call[t]) /\ call[t] \notin down)'
      BY <1>0, <2>1, <2>2 DEF RequestsFresh, Untaken
    <2>4. \A u \in Tasks : u # t /\ pc'[u] \in {"lock", "start", "send"} =>
             (Untaken(call[u]) /\ call[u] \notin down)'
      BY <1>0, <2>1 DEF RequestsFresh, Untaken
    <2>5. QED
      BY <1>0, <2>1, <2>3, <2>4 DEF RequestsFresh, Untaken
  <1>2. ASSUME begun' = begun, taken' = taken, call' = call, down' \subseteq down,
               \A t \in Tasks : pc'[t] \in {"lock", "start", "send"} =>
                                pc[t] \in {"lock", "start", "send"}
        PROVE  RequestsFresh'
    BY <1>0, <1>2 DEF RequestsFresh, Untaken
  <1>3. ASSUME NEW t \in Tasks, NEW r \in Reqs, Refuse(t, r)
        PROVE  RequestsFresh'
    BY <1>2, <1>3 DEF Refuse
  <1>4. ASSUME NEW t \in Tasks, TakeLock(t) \/ BeginSend(t) \/ TxDone(t)
        PROVE  RequestsFresh'
    BY <1>2, <1>4 DEF TakeLock, BeginSend, TxDone, TypeOK
  <1>5. ASSUME NEW t \in Tasks, Transmit(t)
        PROVE  RequestsFresh'
    <2>1. /\ UNCHANGED <<begun, taken, call>> /\ down' = down \union {call[t]}
          /\ pc[t] = "send" /\ pc'[t] = "txwait"
          /\ \A u \in Tasks : u # t => pc'[u] = pc[u]
      BY <1>5 DEF Transmit, TypeOK
    <2>2. call[t] \in begun
      BY <2>1 DEF IdInv
    <2>3. \A u \in Tasks : u # t /\ pc[u] # "idle" => call[u] # call[t]
      BY <2>1 DEF IdInv
    <2>4. QED
      BY <1>0, <2>1, <2>2, <2>3 DEF RequestsFresh, Untaken
  <1>6. ASSUME NEW t \in Tasks, SendFails(t) \/ Receive(t) \/ ReceiveTimeout(t)
        PROVE  RequestsFresh'
    <2>1. PICK e, v, F : Return(t, e, v, F)
      BY <1>6 DEF SendFails, Receive, ReceiveTimeout
    <2>2. \A u \in Tasks : pc'[u] = "idle" \/ pc'[u] = pc[u]
      BY <2>1 DEF Return, TypeOK
    <2>3. UNCHANGED <<begun, taken, call, down>>
      BY <1>6 DEF SendFails, Receive, ReceiveTimeout
    <2>4. QED
      BY <1>2, <2>2, <2>3
  <1>7. ASSUME NEW c \in down, SlaveExecutes(c)
        PROVE  RequestsFresh'
    <2>1. /\ UNCHANGED <<begun, call, pc>> /\ down' = down \ {c}
          /\ taken' = taken \union {[id |-> c.id, val |-> Obtained(c.req)]}
      BY <1>7 DEF SlaveExecutes
    <2>2. c \in begun
      BY <1>0 DEF RequestsFresh
    <2>3. \A d \in begun : d # c => d.id # c.id
      BY <2>2 DEF IdInv
    <2>4. \A d \in begun : d # c /\ Untaken(d) => Untaken(d)'
      BY <2>1, <2>3 DEF Untaken
    <2>5. \A t \in Tasks : pc[t] \in {"lock", "start", "send"} =>
             call[t] \in begun /\ call[t] # c /\ Untaken(call[t]) /\ call[t] \notin down
      BY <1>0 DEF RequestsFresh, IdInv
    <2>6. \A t \in Tasks : pc'[t] \in {"lock", "start", "send"} =>
             (Untaken(call[t]) /\ call[t] \notin down)'
      BY <2>1, <2>3, <2>5 DEF Untaken
    <2>7. /\ (down \subseteq begun)'
          /\ \A d \in down' : Untaken(d)'
          /\ \A x \in taken' : \E d \in begun' : d.id = x.id
      BY <1>0, <2>1, <2>2, <2>4 DEF RequestsFresh
    <2>8. QED
      BY <2>6, <2>7 DEF RequestsFresh
  <1>8. CASE \/ \E c \in down : SlaveRefuses(c) \/ LoseRequest(c)
             \/ \E f \in up : Arrive(f) \/ LoseReply(f)
             \/ Noise \/ UNCHANGED vars
    <2>1. UNCHANGED <<begun, taken, call, pc>> /\ down' \subseteq down
      BY <1>8 DEF SlaveRefuses, LoseRequest, Arrive, LoseReply, Noise, vars
    <2>2. QED
      BY <1>2, <2>1
  <1>9. QED
    BY <1>1, <1>3, <1>4, <1>5, <1>6, <1>7, <1>8 DEF Next, Master, Line

\* Every step keeps: unless answers come late, the line carries only the current call.
LEMMA NextWindowInv ==
  ConstantsAssumption /\ TypeOK /\ LockInv /\ WindowInv /\ [Next]_vars => WindowInv'
  <1> SUFFICES ASSUME ConstantsAssumption, TypeOK, LockInv, WindowInv, [Next]_vars
               PROVE  WindowInv'
    OBVIOUS
  <1> USE DEF callVars, busVars, uartVars
  <1>1. \A t, u \in Tasks : pc[t] \in Holding /\ pc[u] \in Window => t = u
    BY DEF LockInv, Holding, Window
  <1>2. ASSUME \A u \in Tasks : pc'[u] \in Window => pc[u] \in Window /\ call'[u] = call[u],
               UNCHANGED <<sender, rx>>, down' \subseteq down, up' \subseteq up
        PROVE  WindowInv'
    BY <1>2 DEF WindowInv, WindowOf
  <1>3. ASSUME NEW t \in Tasks, NEW r \in Reqs, Begin(t, r) \/ Refuse(t, r)
        PROVE  WindowInv'
    <2>1. \A u \in Tasks : pc'[u] \in Window => pc[u] \in Window /\ call'[u] = call[u]
      BY <1>3 DEF Begin, Refuse, TypeOK, Window
    <2>2. UNCHANGED <<sender, rx, down, up>>
      BY <1>3 DEF Begin, Refuse
    <2>3. QED
      BY <1>2, <2>1, <2>2
  <1>4. ASSUME NEW t \in Tasks, TakeLock(t)
        PROVE  WindowInv'
    <2>1. \A u \in Tasks : pc'[u] \in Window => pc[u] \in Window /\ call'[u] = call[u]
      BY <1>4 DEF TakeLock, TypeOK, Window
    <2>2. UNCHANGED <<sender, rx, down, up>>
      BY <1>4 DEF TakeLock
    <2>3. QED
      BY <1>2, <2>1, <2>2
  <1>5. ASSUME NEW t \in Tasks, BeginSend(t)
        PROVE  WindowInv'
    <2>1. pc[t] = "start" /\ \A u \in Tasks : pc[u] \notin Window
      BY <1>1, <1>5 DEF BeginSend, Holding, Window
    <2>2. \A u \in Tasks : pc'[u] \in Window => u = t
      BY <1>5, <2>1 DEF BeginSend, TypeOK
    <2>3. WindowOf(t)'
      BY <1>5 DEF BeginSend, WindowOf
    <2>4. QED
      BY <2>2, <2>3 DEF WindowInv
  <1>6. ASSUME NEW t \in Tasks, Transmit(t)
        PROVE  WindowInv'
    <2>1. pc[t] \in Window /\ pc[t] \in Holding /\ WindowOf(t)
      BY <1>6 DEF Transmit, Window, Holding, WindowInv
    <2>2. \A u \in Tasks : pc'[u] \in Window => u = t
      BY <1>1, <1>6, <2>1 DEF Transmit, TypeOK
    <2>3. WindowOf(t)'
      BY <1>6, <2>1 DEF Transmit, WindowOf
    <2>4. QED
      BY <2>2, <2>3 DEF WindowInv
  <1>7. ASSUME NEW t \in Tasks, TxDone(t)
        PROVE  WindowInv'
    <2>1. \A u \in Tasks : pc'[u] \in Window => pc[u] \in Window /\ call'[u] = call[u]
      BY <1>7 DEF TxDone, TypeOK, Window
    <2>2. UNCHANGED <<sender, rx, down, up>>
      BY <1>7 DEF TxDone
    <2>3. QED
      BY <1>2, <2>1, <2>2
  <1>8. ASSUME NEW t \in Tasks, SendFails(t) \/ Receive(t) \/ ReceiveTimeout(t)
        PROVE  WindowInv'
    <2>1. PICK e, v, F : Return(t, e, v, F)
      BY <1>8 DEF SendFails, Receive, ReceiveTimeout
    <2>2. pc[t] \in Holding
      BY <1>8 DEF SendFails, Receive, ReceiveTimeout, Holding
    <2>3. \A u \in Tasks : pc'[u] \notin Window
      BY <1>1, <2>1, <2>2 DEF Return, TypeOK, Window
    <2>4. QED
      BY <2>3 DEF WindowInv
  <1>9. ASSUME NEW c \in down, SlaveExecutes(c) \/ SlaveRefuses(c)
        PROVE  WindowInv'
    <2>1. PICK a : a.id = c.id /\ up' = up \union {a}
      BY <1>9 DEF SlaveExecutes, SlaveRefuses, Answer
    <2>2. UNCHANGED <<pc, call, sender, rx>> /\ down' = down \ {c}
      BY <1>9 DEF SlaveExecutes, SlaveRefuses
    <2>3. QED
      BY <2>1, <2>2 DEF WindowInv, WindowOf
  <1>10. CASE (\E c \in down : LoseRequest(c)) \/ (\E f \in up : LoseReply(f)) \/ UNCHANGED vars
    BY <1>2, <1>10 DEF LoseRequest, LoseReply, vars
  <1>11. ASSUME NEW g, rx' = Append(rx, g), g.at = sender, UNCHANGED <<pc, call, sender, down>>,
                up' \subseteq up, g.good => \E f \in up : f.id = g.id
         PROVE  WindowInv'
    <2>1. \A i \in 1 .. Len(rx') : rx'[i] = g \/ (i \in 1 .. Len(rx) /\ rx'[i] = rx[i])
      BY <1>11 DEF TypeOK
    <2>2. QED
      BY <1>11, <2>1 DEF WindowInv, WindowOf
  <1>12. ASSUME NEW f \in up, Arrive(f)
         PROVE  WindowInv'
    <2>1. PICK good \in BOOLEAN :
             rx' = IF de THEN rx ELSE Append(rx, Received(f, good))
      BY <1>12 DEF Arrive
    <2>2. UNCHANGED <<pc, call, sender, down>> /\ up' \subseteq up
      BY <1>12 DEF Arrive
    <2>3. CASE de
      BY <1>2, <2>1, <2>2, <2>3
    <2>4. CASE ~de
      <3> DEFINE g == Received(f, good)
      <3>1. g.at = sender /\ g.id = f.id /\ rx' = Append(rx, g)
        BY <2>1, <2>4 DEF Received
      <3> HIDE DEF g
      <3>2. QED
        BY <1>11, <2>2, <3>1
    <2>5. QED
      BY <2>3, <2>4
  <1>13. CASE Noise
    <2> DEFINE g == [id |-> 0, req |-> CHOOSE r \in Reqs : TRUE, val |-> NoVal,
                     exc |-> FALSE, good |-> FALSE, at |-> sender]
    <2>1. g.at = sender /\ ~g.good /\ rx' = Append(rx, g)
      BY <1>13 DEF Noise
    <2>2. UNCHANGED <<pc, call, sender, down, up>>
      BY <1>13 DEF Noise
    <2> HIDE DEF g
    <2>3. QED
      BY <1>11, <2>1, <2>2
  <1>14. QED
    BY <1>3, <1>4, <1>5, <1>6, <1>7, <1>8, <1>9, <1>10, <1>12, <1>13 DEF Next, Master, Line

\* IInv holds in every reachable state.
THEOREM Invariance == Spec => []IInv
  <1>1. ConstantsAssumption /\ Init => IInv
    BY InitIInv
  <1>2. ConstantsAssumption /\ IInv /\ [Next]_vars => IInv'
    BY NextTypeOK, NextLockInv, NextIdInv, NextRequestsFresh, NextFramesGenuine,
       NextWindowInv DEF IInv, LineInv
  <1>3. QED
    BY <1>1, <1>2, ConstantsAssumption, PTL DEF Spec

\* Two tasks never drive the bus at once, and whoever waits for an answer listens.
THEOREM HalfDuplexHolds == Spec => []HalfDuplex
  <1>1. IInv => HalfDuplex
    BY DEF IInv, LockInv, HalfDuplex
  <1>2. QED
    BY <1>1, Invariance, PTL
-------------------------------------------------------------------------------
(* What ESP_OK means.                                                      *)

\* The step in which a call succeeds: the answer at the head of the buffer is good,
\* matches the request, and is genuine.
LEMMA ReceivedOk ==
  ASSUME ConstantsAssumption, IInv, NEW t \in Tasks, Receive(t), ret'[t].code = "OK"
  PROVE  \E f \in Frame :
            /\ f = rx[1] /\ 1 \in 1 .. Len(rx)
            /\ f.good /\ Answers(f, call[t].req) /\ Genuine(f)
            /\ Return(t, "OK", f.val, {f})
  <1> DEFINE f == Head(rx)
  <1>1. rx # <<>> /\ rx \in Seq(Frame) /\ pc[t] = "recv"
    BY DEF Receive, IInv, TypeOK
  <1>2. f \in Frame /\ f = rx[1] /\ 1 \in 1 .. Len(rx)
    BY <1>1
  <1>3. PICK e \in Outcomes(f, call[t].req) :
           IF e = "OK" THEN Return(t, e, f.val, {f}) ELSE Return(t, e, NoVal, {})
    BY DEF Receive
  <1> HIDE DEF f
  <1>4. e = "OK"
    BY <1>3 DEF Return, IInv, TypeOK
  <1>5. f.good /\ Answers(f, call[t].req)
    BY <1>3, <1>4 DEF Outcomes
  <1>6. Genuine(f)
    BY <1>2, <1>5 DEF IInv, LineInv, FramesGenuine
  <1>7. QED
    BY <1>2, <1>3, <1>4, <1>5, <1>6

\* A step other than a successful Receive gives no task a new ESP_OK.
LEMMA OkOnlyByReceive ==
  ASSUME ConstantsAssumption, IInv, [Next]_vars, NEW t \in Tasks,
         ret'[t].code = "OK", ~Receive(t)
  PROVE  ret'[t] = ret[t] /\ acc'[t] = acc[t]
  <1> USE DEF callVars, busVars, uartVars
  <1>1. ASSUME NEW u \in Tasks, NEW e, NEW v, NEW F, Return(u, e, v, F), u # t \/ e # "OK"
        PROVE  ret'[t] = ret[t] /\ acc'[t] = acc[t]
    BY <1>1 DEF Return, IInv, TypeOK
  <1>2. ASSUME NEW u \in Tasks, NEW r \in Reqs, Begin(u, r) \/ Refuse(u, r)
        PROVE  ret'[t] = ret[t] /\ acc'[t] = acc[t]
    BY <1>2 DEF Begin, Refuse, IInv, TypeOK
  <1>3. ASSUME NEW u \in Tasks, TakeLock(u) \/ BeginSend(u) \/ Transmit(u) \/ TxDone(u)
        PROVE  ret'[t] = ret[t] /\ acc'[t] = acc[t]
    BY <1>3 DEF TakeLock, BeginSend, Transmit, TxDone
  <1>4. ASSUME NEW u \in Tasks, SendFails(u)
        PROVE  ret'[t] = ret[t] /\ acc'[t] = acc[t]
    <2>1. PICK e \in {"FAIL", "TIMEOUT"} : Return(u, e, NoVal, {})
      BY <1>4 DEF SendFails
    <2>2. e # "OK"
      OBVIOUS
    <2>3. QED
      BY <1>1, <2>1, <2>2
  <1>5. ASSUME NEW u \in Tasks, Receive(u)
        PROVE  ret'[t] = ret[t] /\ acc'[t] = acc[t]
    <2>1. u # t
      BY <1>5
    <2>2. PICK e, v, F : Return(u, e, v, F)
      BY <1>5 DEF Receive
    <2>3. QED
      BY <1>1, <2>1, <2>2
  <1>6. ASSUME NEW u \in Tasks, ReceiveTimeout(u)
        PROVE  ret'[t] = ret[t] /\ acc'[t] = acc[t]
    <2>1. "TIMEOUT" # "OK" /\ Return(u, "TIMEOUT", NoVal, {})
      BY <1>6 DEF ReceiveTimeout
    <2>2. QED
      BY <1>1, <2>1
  <1>7. CASE Line \/ UNCHANGED vars
    BY <1>7 DEF Line, SlaveExecutes, SlaveRefuses, LoseRequest, Arrive, LoseReply,
                Noise, vars
  <1>8. QED
    BY <1>2, <1>3, <1>4, <1>5, <1>6, <1>7 DEF Next, Master

\* Begun calls and effects are never forgotten.
LEMMA HistoryGrows ==
  ASSUME [Next]_vars
  PROVE  begun \subseteq begun' /\ taken \subseteq taken'
  <1>1. CASE \E t \in Tasks : Master(t)
    BY <1>1, Zenon DEF Master, Begin, Refuse, TakeLock, BeginSend, Transmit, TxDone,
       SendFails, Receive, ReceiveTimeout, Return, callVars
  <1>2. CASE Line \/ UNCHANGED vars
    BY <1>2, Zenon DEF Line, SlaveExecutes, SlaveRefuses, LoseRequest, Arrive, LoseReply,
       Noise, vars, callVars
  <1>3. QED
    BY <1>1, <1>2 DEF Next

\* As long as no answer outlives its call, ESP_OK means that the slave carried out
\* this very call, and that the data returned is what it obtained for it.
THEOREM OkMeansTakenHolds ==
  ASSUME ~LateReplies PROVE Spec => []OkMeansTaken
  <1>1. Init => OkMeansTaken
    BY DEF Init, OkMeansTaken
  <1>2. IInv /\ OkMeansTaken /\ [Next]_vars => OkMeansTaken'
    <2> SUFFICES ASSUME IInv, OkMeansTaken, [Next]_vars,
                        NEW t \in Tasks, ret'[t].code = "OK"
                 PROVE  [id |-> ret'[t].id, val |-> ret'[t].val] \in taken'
      BY DEF OkMeansTaken
    <2>1. CASE Receive(t)
      <3>1. PICK f \in Frame :
              /\ f = rx[1] /\ 1 \in 1 .. Len(rx)
              /\ f.good /\ Answers(f, call[t].req) /\ Genuine(f)
              /\ Return(t, "OK", f.val, {f})
        BY <2>1, ConstantsAssumption, ReceivedOk
      <3>2. f.id = call[t].id
        BY <2>1, <3>1 DEF Receive, IInv, WindowInv, WindowOf, Window
      <3>3. ret'[t].id = f.id /\ ret'[t].val = f.val
        BY <3>1, <3>2 DEF Return, IInv, TypeOK
      <3>4. QED
        BY <3>1, <3>3, HistoryGrows DEF Genuine, Answers
    <2>2. CASE ~Receive(t)
      BY <2>2, ConstantsAssumption, OkOnlyByReceive, HistoryGrows DEF OkMeansTaken
    <2>3. QED
      BY <2>1, <2>2
  <1>3. QED
    BY <1>1, <1>2, Invariance, PTL DEF Spec

\* However late answers come, ESP_OK rests on an undamaged answer of the same shape
\* that came in after this call flushed the buffer, to a request carried out.
THEOREM OkWasAnsweredHolds == Spec => []OkWasAnswered
  <1>1. Init => OkWasAnswered
    BY DEF Init, OkWasAnswered
  <1>2. IInv /\ OkWasAnswered /\ [Next]_vars => OkWasAnswered'
    <2> SUFFICES ASSUME IInv, OkWasAnswered, [Next]_vars,
                        NEW t \in Tasks, ret'[t].code = "OK"
                 PROVE  \E f \in acc'[t] :
                          /\ f.good
                          /\ f.at = ret'[t].id
                          /\ [id |-> f.id, val |-> ret'[t].val] \in taken'
                          /\ \E c \in begun' : c.id = ret'[t].id /\ Answers(f, c.req)
      BY DEF OkWasAnswered, Answers
    <2>1. CASE Receive(t)
      <3>1. PICK f \in Frame :
              /\ f = rx[1] /\ 1 \in 1 .. Len(rx)
              /\ f.good /\ Answers(f, call[t].req) /\ Genuine(f)
              /\ Return(t, "OK", f.val, {f})
        BY <2>1, ConstantsAssumption, ReceivedOk
      <3>2. f.at = call[t].id /\ call[t] \in begun
        BY <2>1, <3>1 DEF Receive, IInv, WindowInv, WindowOf, Window, IdInv
      <3>3. ret'[t].id = call[t].id /\ ret'[t].val = f.val /\ acc'[t] = {f}
        BY <3>1 DEF Return, IInv, TypeOK
      <3>4. QED
        BY <3>1, <3>2, <3>3, HistoryGrows DEF Genuine, Answers
    <2>2. CASE ~Receive(t)
      <3>1. ret'[t] = ret[t] /\ acc'[t] = acc[t]
        BY <2>2, ConstantsAssumption, OkOnlyByReceive
      <3>2. begun \subseteq begun' /\ taken \subseteq taken'
        BY HistoryGrows
      <3>3. QED
        BY <3>1, <3>2 DEF OkWasAnswered
    <2>3. QED
      BY <2>1, <2>2
  <1>3. QED
    BY <1>1, <1>2, Invariance, PTL DEF Spec

\* The task that keeps the pins high; without UART faults there always is one.
Driven == de => \E t \in Tasks : pc[t] \in {"send", "txwait"}

\* As long as no UART call fails, the bus is released whenever the lock is free.
THEOREM BusReleasedHolds ==
  ASSUME ~UartFaults PROVE Spec => []BusReleased
  <1>1. Init => Driven
    BY DEF Init, Driven
  <1>2. IInv /\ Driven /\ [Next]_vars => Driven'
    <2> SUFFICES ASSUME IInv, Driven, [Next]_vars
                 PROVE  Driven'
      OBVIOUS
    <2> USE DEF callVars, busVars, uartVars
    <2>1. ASSUME NEW t \in Tasks, \E r \in Reqs : Begin(t, r) \/ Refuse(t, r)
          PROVE  Driven'
      BY <2>1 DEF Begin, Refuse, IInv, TypeOK, Driven
    <2>2. ASSUME NEW t \in Tasks, TakeLock(t)
          PROVE  Driven'
      BY <2>2 DEF TakeLock, IInv, TypeOK, Driven
    <2>3. ASSUME NEW t \in Tasks, BeginSend(t) \/ Transmit(t)
          PROVE  Driven'
      BY <2>3 DEF BeginSend, Transmit, IInv, TypeOK, Driven
    <2>4. ASSUME NEW t \in Tasks, TxDone(t)
          PROVE  Driven'
      BY <2>4 DEF TxDone, Driven
    <2>5. ASSUME NEW t \in Tasks, Receive(t) \/ ReceiveTimeout(t)
          PROVE  Driven'
      BY <2>5 DEF Receive, ReceiveTimeout, IInv, LockInv, Driven
    <2>6. CASE Line \/ UNCHANGED vars
      BY <2>6 DEF Line, SlaveExecutes, SlaveRefuses, LoseRequest, Arrive, LoseReply,
                  Noise, vars, Driven
    <2>7. QED
      BY <2>1, <2>2, <2>3, <2>4, <2>5, <2>6 DEF Next, Master, SendFails
  <1>3. IInv /\ Driven => BusReleased
    BY ConstantsAssumption DEF IInv, LockInv, Driven, BusReleased, Holding
  <1>4. QED
    BY <1>1, <1>2, <1>3, Invariance, PTL DEF Spec
-------------------------------------------------------------------------------
(* The driver implements ModbusCall.                                       *)

Busy == {t \in Tasks : pc[t] # "idle"}

\* A return with an error maps to the step Fail of ModbusCall.
LEMMA ReturnIsFail ==
  ASSUME TypeOK, NEW t \in Tasks, pc[t] # "idle", NEW e \in Codes \ {"OK", "INVALID_ARG"},
         NEW F, Return(t, e, NoVal, F), UNCHANGED <<regs, nextId, call, begun, taken>>
  PROVE  Abs!Next
  <1>1. Busy' = Busy \ {t} /\ t \in Busy
    BY DEF Return, TypeOK, Busy
  <1>2. Abs!Fail(t, e)
    BY <1>1, Zenon DEF Abs!Fail, Return, Busy
  <1>3. e \in Abs!Codes \ {"OK", "INVALID_ARG"}
    BY DEF Abs!Codes, Codes
  <1>4. QED
    BY <1>2, <1>3, Zenon DEF Abs!Next

\* Every step of the driver maps to a step of ModbusCall or to a stutter.
LEMMA StepImplements ==
  ASSUME ConstantsAssumption, ~LateReplies, IInv, [Next]_vars
  PROVE  [Abs!Next]_Abs!callVars
  <1> USE DEF callVars, busVars, uartVars
  <1>0. TypeOK
    BY DEF IInv
  <1>1. ASSUME UNCHANGED <<regs, nextId, call, begun, taken, ret>>, Busy' = Busy
        PROVE  UNCHANGED Abs!callVars
    BY <1>1, Zenon DEF Abs!callVars, Busy
  <1>2. ASSUME NEW t \in Tasks, NEW r \in Reqs, Begin(t, r)
        PROVE  Abs!Next
    <2>1. Busy' = Busy \union {t} /\ t \notin Busy
      BY <1>0, <1>2 DEF Begin, TypeOK, Busy
    <2>2. Abs!Begin(t, r)
      BY <1>2, <2>1, Zenon DEF Begin, Abs!Begin, Busy
    <2>3. QED
      BY <2>2, Zenon DEF Abs!Next
  <1>3. ASSUME NEW t \in Tasks, NEW r \in Reqs, Refuse(t, r)
        PROVE  Abs!Next
    <2>1. Busy' = Busy /\ t \notin Busy
      BY <1>3 DEF Refuse, Busy
    <2>2. Abs!Refuse(t)
      BY <1>3, <2>1, Zenon DEF Refuse, Abs!Refuse, Busy
    <2>3. QED
      BY <2>2, Zenon DEF Abs!Next
  <1>4. ASSUME NEW t \in Tasks, TakeLock(t) \/ BeginSend(t) \/ Transmit(t) \/ TxDone(t)
        PROVE  UNCHANGED Abs!callVars
    <2>1. Busy' = Busy
      BY <1>0, <1>4 DEF TakeLock, BeginSend, Transmit, TxDone, TypeOK, Busy
    <2>2. UNCHANGED <<regs, nextId, call, begun, taken, ret>>
      BY <1>4 DEF TakeLock, BeginSend, Transmit, TxDone
    <2>3. QED
      BY <1>1, <2>1, <2>2
  <1>5. ASSUME NEW t \in Tasks, SendFails(t) \/ ReceiveTimeout(t)
        PROVE  Abs!Next
    <2>1. PICK e \in Codes \ {"OK", "INVALID_ARG"} : Return(t, e, NoVal, {})
      BY <1>5 DEF SendFails, ReceiveTimeout, Codes
    <2>2. pc[t] # "idle" /\ UNCHANGED <<regs, nextId, call, begun, taken>>
      BY <1>5 DEF SendFails, ReceiveTimeout
    <2>3. QED
      BY <1>0, <2>1, <2>2, ReturnIsFail
  <1>6. ASSUME NEW t \in Tasks, Receive(t)
        PROVE  Abs!Next
    <2>1. pc[t] # "idle" /\ UNCHANGED <<regs, nextId, call, begun, taken>>
      BY <1>6 DEF Receive
    <2>2. CASE ret'[t].code = "OK"
      <3>1. PICK f \in Frame :
              /\ f = rx[1] /\ 1 \in 1 .. Len(rx)
              /\ f.good /\ Answers(f, call[t].req) /\ Genuine(f)
              /\ Return(t, "OK", f.val, {f})
        BY <1>6, <2>2, ReceivedOk
      <3>2. f.id = call[t].id
        BY <1>6, <3>1 DEF Receive, IInv, WindowInv, WindowOf, Window
      <3> DEFINE x == [id |-> f.id, val |-> f.val]
      <3>3. x \in taken /\ x.id = call[t].id /\ x.val = f.val
        BY <3>1, <3>2 DEF Genuine, Answers
      <3>4. Busy' = Busy \ {t} /\ t \in Busy
        BY <1>0, <2>1, <3>1 DEF Return, TypeOK, Busy
      <3>5. ret' = [ret EXCEPT ![t] = [code |-> "OK", id |-> x.id, val |-> x.val]]
        BY <3>1, <3>3 DEF Return
      <3> HIDE DEF x
      <3>6. Abs!Succeed(t, x)
        BY <2>1, <3>3, <3>4, <3>5, Zenon DEF Abs!Succeed, Busy
      <3>7. QED
        BY <3>3, <3>6, Zenon DEF Abs!Next
    <2>3. CASE ret'[t].code # "OK"
      <3>1. PICK e \in Outcomes(Head(rx), call[t].req) :
              IF e = "OK" THEN Return(t, e, Head(rx).val, {Head(rx)})
                          ELSE Return(t, e, NoVal, {})
        BY <1>6 DEF Receive
      <3>2. e # "OK"
        BY <1>0, <2>3, <3>1 DEF Return, TypeOK
      <3>3. e \in Codes \ {"OK", "INVALID_ARG"}
        BY <3>1, <3>2 DEF Outcomes, Codes
      <3>4. QED
        BY <1>0, <2>1, <3>1, <3>2, <3>3, ReturnIsFail
    <2>4. QED
      BY <2>2, <2>3
  <1>7. ASSUME NEW c \in down, SlaveExecutes(c)
        PROVE  Abs!Next
    <2>1. c \in begun /\ Untaken(c)
      BY DEF IInv, LineInv, RequestsFresh
    <2>2. Busy' = Busy
      BY <1>7 DEF SlaveExecutes, Busy
    <2>3. Abs!Obtained(c.req) = Obtained(c.req) /\ Abs!Written(c.req) = Written(c.req)
      BY DEF Abs!Obtained, Obtained, Abs!Written, Written
    <2>4. Abs!TakeEffect(c)
      BY <1>7, <2>1, <2>2, <2>3, Zenon DEF SlaveExecutes, Abs!TakeEffect, Untaken, Busy
    <2>5. QED
      BY <2>1, <2>4, Zenon DEF Abs!Next
  <1>8. CASE \/ \E c \in down : SlaveRefuses(c) \/ LoseRequest(c)
             \/ \E f \in up : Arrive(f) \/ LoseReply(f)
             \/ Noise \/ UNCHANGED vars
    <2>1. UNCHANGED <<regs, nextId, call, begun, taken, ret, pc>>
      BY <1>8 DEF SlaveRefuses, LoseRequest, Arrive, LoseReply, Noise, vars
    <2>2. Busy' = Busy
      BY <2>1 DEF Busy
    <2>3. UNCHANGED Abs!callVars
      BY <1>1, <2>1, <2>2
    <2>4. QED
      BY <2>3
  <1>9. QED
    BY <1>2, <1>3, <1>4, <1>5, <1>6, <1>7, <1>8 DEF Next, Master, Line

\* As long as no answer outlives its call, the driver implements ModbusCall: every
\* call takes effect at most once, and before it returns ESP_OK.
THEOREM Refinement ==
  ASSUME ~LateReplies PROVE Spec => ImplementsModbusCall
  <1>1. Init => Abs!Init
    <2> SUFFICES ASSUME Init PROVE Abs!Init
      OBVIOUS
    <2>1. {t \in Tasks : pc[t] # "idle"} = {}
      BY DEF Init
    <2>2. QED
      BY <2>1, Zenon DEF Init, Abs!Init
  <1>2. IInv /\ [Next]_vars => [Abs!Next]_Abs!callVars
    BY ConstantsAssumption, StepImplements
  <1>3. QED
    BY <1>1, <1>2, Invariance, PTL DEF Spec, ImplementsModbusCall, Abs!Spec
===============================================================================
