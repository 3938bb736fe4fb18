-------------------------- MODULE SmartloadAppProofs ---------------------------
(***************************************************************************)
(* Theorems about SmartloadApp, for all parameters and methods, and any    *)
(* number of polls, of methods and of resets: its invariants, and that it  *)
(* implements AtomicJobs.                                                  *)
(***************************************************************************)
EXTENDS SmartloadApp, SequenceTheorems, TLAPS

\* The calls the jobs are made of.
Made == UNION {{Script(j)[n] : n \in 1 .. Len(Script(j))} : j \in Jobs}

\* The records the variables hold.
ShapeInv ==
    /\ cur \in [Tasks -> [job : Jobs, id : Nat, step : Nat, try : Nat]]
    /\ jobs \in Seq(Jobs)
    /\ result \in Seq({"none", "OK", "FAIL", "LOST"})
    /\ log \in Seq([id : Nat, what : Made])

\* The mutex is held by the task whose job runs; a job that waits for it has not begun,
\* and one that writes is known by its number.
TaskInv ==
    /\ \A t \in Tasks : pc[t] = "run" <=> lock = t
    /\ \A t \in Tasks : pc[t] # "run" => cur[t].step = 1 /\ cur[t].try = 1
    /\ \A t \in Tasks : pc[t] = "idle" => cur[t].id = 0
    /\ \A t \in Tasks : pc[t] # "idle" /\ cur[t].id = 0 => ReadsOnly(cur[t].job)
    /\ \A t \in Tasks : cur[t].id # 0 =>
          cur[t].job = jobs[cur[t].id] /\ result[cur[t].id] = "none"
    /\ \A t, u \in Tasks : t # u /\ cur[t].id # 0 => cur[t].id # cur[u].id

\* The quick test alone polls, and has not been past its polls while it does.
PollInv ==
    \A t \in Tasks : pc[t] # "idle" /\ cur[t].job.op = "poll" =>
        t = "quick_test" /\ phase = "poll"

\* The jobs that write are counted by what asked for them.
CountInv ==
    Len(jobs) <= methods + resets + IF phase \in {"poll", "flow"} THEN 0 ELSE 1

\* The registers a running authorization has written hold what it was given.
ArgInv ==
    \A t \in Tasks : pc[t] = "run" =>
        LET p == cur[t].job.arg  n == cur[t].step IN
        /\ cur[t].job.op = "authorize" =>
             /\ n > 1 => regs["recipe"] = p.recipe
             /\ n > 2 => regs["additive"] = p.additive
             /\ n > 3 => regs["side"] = p.side
        /\ cur[t].job.op = "auth_batch" =>
             /\ n > 1 => /\ regs["preset_hi"] = p.preset \div WordSize
                         /\ regs["preset_lo"] = p.preset % WordSize
             /\ n > 2 => regs["components"] = p.components

\* The writes the dispenser carried out are those of jobs that were asked for.
LogInv ==
    \A i \in 1 .. Len(log) : log[i].id \in 1 .. Len(jobs)

\* The jobs that turn a batch on and off again, and the call that turns it off.
Passing == {"send_all_commands", "quick_test_flow"}
StopAt(j) == IF j.op = "send_all_commands" THEN 3 ELSE 8

\* Where the dispenser was told to start, and where it was told last.
Starts == {i \in 1 .. Len(log) : log[i].what.cmd = "START"}
LastStart(m) == m \in Starts /\ \A n \in Starts : n <= m

\* Job i is to leave the batch on, or has not returned ESP_OK; and while it runs, its
\* stop is to come.
MayLeaveOn(i) ==
    \/ jobs[i].op = "start_batch"
    \/ /\ jobs[i].op \in Passing
       /\ result[i] # "OK"
       /\ \A t \in Tasks : pc[t] = "run" /\ cur[t].id = i =>
             cur[t].step <= StopAt(cur[t].job)

\* A batch that is on was turned on by such a job.
RunInv == running => \E m \in Starts : LastStart(m) /\ MayLeaveOn(log[m].id)

IInv ==
    /\ TypeOK /\ ShapeInv /\ TaskInv /\ PollInv /\ CountInv
    /\ ArgInv /\ LogInv /\ ActsAsAsked /\ RunInv
-------------------------------------------------------------------------------
(* The lists of calls.                                                     *)

Commands ==
    {"AUTHORIZE", "START", "STOP", "END", "CLEAR_STATUS", "CLEAR_ALARMS", "AUTH_BATCH"}

\* The calls there are, but for the contents of a write.
IsCall(s) ==
    /\ s.kind \in {"read", "put", "cmd"}
    /\ s.tries \in 1 .. 3
    /\ s.kind # "read" => s.must = TRUE /\ s.tries = 1
    /\ s.kind = "cmd" <=> s.cmd \in Commands
    /\ s.cmd \in Commands \union {NoArg}

\* What a call writes into the registers: nothing, unless it is a write.
Keeps(s) == s.vals = <<>>

\* The fields of the calls.
LEMMA CallFacts ==
  /\ \A n \in 1 .. 3, b \in BOOLEAN : /\ IsCall(ReadStep(n, b)) /\ Keeps(ReadStep(n, b))
                                      /\ ReadStep(n, b).kind = "read"
                                      /\ ReadStep(n, b).cmd = NoArg
                                      /\ ReadStep(n, b).must = b /\ ReadStep(n, b).tries = n
  /\ \A c \in Commands : /\ IsCall(Cmd(c)) /\ Keeps(Cmd(c))
                         /\ Cmd(c).cmd = c /\ Cmd(c).kind = "cmd"
  /\ \A v : /\ IsCall(Put(v)) /\ Put(v).vals = v
            /\ Put(v).cmd = NoArg /\ Put(v).kind = "put"
  BY DEF ReadStep, Cmd, Put, IsCall, Keeps, Commands, NoArg

\* The reads there are neither start nor authorize anything.
LEMMA Reading ==
  \A s \in {ReadStep(1, TRUE), ReadStep(2, FALSE), ReadStep(3, TRUE)} :
    IsCall(s) /\ Keeps(s) /\ s.kind = "read" /\ s.cmd # "START" /\ s.cmd # "AUTH_BATCH"
  <1>1. 1 \in 1 .. 3 /\ 2 \in 1 .. 3 /\ 3 \in 1 .. 3
    OBVIOUS
  <1>2. \A n \in 1 .. 3, b \in BOOLEAN :
          LET s == ReadStep(n, b) IN
          IsCall(s) /\ Keeps(s) /\ s.kind = "read" /\ s.cmd # "START" /\ s.cmd # "AUTH_BATCH"
    BY CallFacts DEF NoArg
  <1>3. QED
    BY <1>1, <1>2

\* A list of ten calls between the two calls of a full register block, by the indices.
IsWrapped(q, f, m, S) ==
    /\ q \in Seq(S) /\ Len(q) = 14
    /\ q[1] = f[1] /\ q[2] = f[2] /\ q[13] = f[1] /\ q[14] = f[2]
    /\ \A i \in 3 .. 12 : q[i] = m[i - 2]

\* What comes before and after a list does not change it.
LEMMA Wrapped ==
  ASSUME NEW S, NEW f \in Seq(S), NEW m \in Seq(S), Len(f) = 2, Len(m) = 10
  PROVE  IsWrapped((f \o m) \o f, f, m, S)
  <1> DEFINE h == f \o m
             q == h \o f
  <1>1. /\ h \in Seq(S) /\ Len(h) = Len(f) + Len(m)
        /\ \A i \in 1 .. Len(f) + Len(m) : h[i] = IF i <= Len(f) THEN f[i] ELSE m[i - Len(f)]
    BY ConcatProperties
  <1>2. h \in Seq(S) /\ Len(h) = 12 /\ h[1] = f[1] /\ h[2] = f[2]
    <2> HIDE DEF h
    <2>1. QED
      BY <1>1
  <1>3. \A i \in 3 .. 12 : h[i] = m[i - 2]
    <2> HIDE DEF h
    <2>1. QED
      BY <1>1
  <1>4. q = h \o f
    OBVIOUS
  <1> HIDE DEF h, q
  <1>5. /\ q \in Seq(S) /\ Len(q) = Len(h) + Len(f)
        /\ \A i \in 1 .. Len(h) + Len(f) : q[i] = IF i <= Len(h) THEN h[i] ELSE f[i - Len(h)]
    <2>1. h \in Seq(S) /\ f \in Seq(S)
      BY <1>2
    <2>2. /\ h \o f \in Seq(S) /\ Len(h \o f) = Len(h) + Len(f)
          /\ \A i \in 1 .. Len(h) + Len(f) :
               (h \o f)[i] = IF i <= Len(h) THEN h[i] ELSE f[i - Len(h)]
      BY <2>1, ConcatProperties
    <2>3. QED
      BY <1>4, <2>2
  <1>6. Len(q) = 14 /\ q[13] = f[1] /\ q[14] = f[2]
    BY <1>2, <1>5
  <1>7. ASSUME NEW i \in 1 .. 12 PROVE q[i] = h[i]
    <2>1. i \in 1 .. Len(h) + Len(f) /\ i <= Len(h)
      BY <1>2
    <2>2. QED
      BY <1>5, <2>1, Zenon
  <1>8. q[1] = f[1] /\ q[2] = f[2]
    <2>1. 1 \in 1 .. 12 /\ 2 \in 1 .. 12
      OBVIOUS
    <2>2. QED
      BY <1>2, <1>7, <2>1, Zenon
  <1>9. \A i \in 3 .. 12 : q[i] = m[i - 2]
    <2>1. \A i \in 3 .. 12 : i \in 1 .. 12
      OBVIOUS
    <2>2. QED
      BY <1>3, <1>7, <2>1, Zenon
  <1>10. IsWrapped(q, f, m, S)
    BY <1>5, <1>6, <1>8, <1>9, Zenon DEF IsWrapped
  <1>11. QED
    BY <1>10 DEF q, h

\* The calls of the quick test between its two register blocks.
QuickMiddle ==
    <<ReadStep(1, TRUE), ReadStep(1, TRUE), Cmd("AUTHORIZE"), Cmd("START"),
      ReadStep(1, TRUE), Cmd("STOP"), ReadStep(1, TRUE), Cmd("END"),
      Cmd("CLEAR_STATUS"), Cmd("CLEAR_ALARMS")>>

\* The quick test turns the batch on with its sixth call and off with its eighth.
LEMMA QuickFlowCalls ==
  /\ QuickFlow \in Seq({ReadStep(1, TRUE)} \union {Cmd(c) : c \in Commands})
  /\ Len(QuickFlow) = 14
  /\ QuickFlow[5] = Cmd("AUTHORIZE") /\ QuickFlow[6] = Cmd("START") /\ QuickFlow[8] = Cmd("STOP")
  /\ QuickFlow[10] = Cmd("END") /\ QuickFlow[11] = Cmd("CLEAR_STATUS")
  /\ QuickFlow[12] = Cmd("CLEAR_ALARMS")
  /\ \A i \in (1 .. 14) \ {5, 6, 8, 10, 11, 12} : QuickFlow[i] = ReadStep(1, TRUE)
  <1> DEFINE R == ReadStep(1, TRUE)
             S == {R} \union {Cmd(c) : c \in Commands}
  <1>1. FullBlock \in Seq(S) /\ Len(FullBlock) = 2 /\ FullBlock[1] = R /\ FullBlock[2] = R
    BY DEF FullBlock
  <1>2. /\ R \in S /\ Cmd("AUTHORIZE") \in S /\ Cmd("START") \in S /\ Cmd("STOP") \in S
        /\ Cmd("END") \in S /\ Cmd("CLEAR_STATUS") \in S /\ Cmd("CLEAR_ALARMS") \in S
    BY DEF Commands
  <1>3. QuickMiddle \in Seq(S) /\ Len(QuickMiddle) = 10
    <2>1. ASSUME NEW T, NEW r \in T, NEW a \in T, NEW b \in T, NEW c \in T, NEW d \in T,
                 NEW e \in T, NEW f \in T
          PROVE  LET m == <<r, r, a, b, r, c, r, d, e, f>> IN m \in Seq(T) /\ Len(m) = 10
      OBVIOUS
    <2> HIDE DEF S, R
    <2>2. QuickMiddle = <<R, R, Cmd("AUTHORIZE"), Cmd("START"), R, Cmd("STOP"), R, Cmd("END"),
                          Cmd("CLEAR_STATUS"), Cmd("CLEAR_ALARMS")>>
      BY DEF QuickMiddle, R
    <2>3. QED
      BY <1>2, <2>1, <2>2, Zenon
  <1>4. /\ QuickMiddle[1] = R /\ QuickMiddle[2] = R /\ QuickMiddle[3] = Cmd("AUTHORIZE")
        /\ QuickMiddle[4] = Cmd("START") /\ QuickMiddle[5] = R
        /\ QuickMiddle[6] = Cmd("STOP") /\ QuickMiddle[7] = R /\ QuickMiddle[8] = Cmd("END")
        /\ QuickMiddle[9] = Cmd("CLEAR_STATUS") /\ QuickMiddle[10] = Cmd("CLEAR_ALARMS")
    BY DEF QuickMiddle
  <1>5. QuickFlow = (FullBlock \o QuickMiddle) \o FullBlock
    BY DEF QuickFlow, QuickMiddle
  <1> HIDE DEF S, R
  <1>6. /\ QuickFlow \in Seq(S) /\ Len(QuickFlow) = 14
        /\ QuickFlow[1] = FullBlock[1] /\ QuickFlow[2] = FullBlock[2]
        /\ QuickFlow[13] = FullBlock[1] /\ QuickFlow[14] = FullBlock[2]
        /\ \A i \in 3 .. 12 : QuickFlow[i] = QuickMiddle[i - 2]
    <2>1. /\ FullBlock \in Seq(S) /\ Len(FullBlock) = 2
          /\ QuickMiddle \in Seq(S) /\ Len(QuickMiddle) = 10
      BY <1>1, <1>3
    <2>2. IsWrapped((FullBlock \o QuickMiddle) \o FullBlock, FullBlock, QuickMiddle, S)
      BY <2>1, Wrapped, Zenon
    <2>3. QED
      BY <1>5, <2>2, Zenon DEF IsWrapped
  <1>7. /\ QuickFlow[3] = QuickMiddle[1] /\ QuickFlow[4] = QuickMiddle[2]
        /\ QuickFlow[5] = QuickMiddle[3] /\ QuickFlow[6] = QuickMiddle[4]
        /\ QuickFlow[7] = QuickMiddle[5] /\ QuickFlow[8] = QuickMiddle[6]
        /\ QuickFlow[9] = QuickMiddle[7] /\ QuickFlow[10] = QuickMiddle[8]
        /\ QuickFlow[11] = QuickMiddle[9] /\ QuickFlow[12] = QuickMiddle[10]
    BY <1>6
  <1>8. \A i \in (1 .. 14) \ {5, 6, 8, 10, 11, 12} : i \in {1, 2, 3, 4, 7, 9, 13, 14}
    OBVIOUS
  <1>9. \A i \in {1, 2, 3, 4, 7, 9, 13, 14} : QuickFlow[i] = R
    BY <1>1, <1>4, <1>6, <1>7
  <1>10. \A i \in (1 .. 14) \ {5, 6, 8, 10, 11, 12} : QuickFlow[i] = R
    BY <1>8, <1>9
  <1>11. QED
    BY <1>4, <1>6, <1>7, <1>10 DEF S, R
-------------------------------------------------------------------------------
(* The calls of every job.                                                 *)

Writing == {"authorize", "auth_batch"}

\* What the invariant needs to know of a list of calls: START is followed by STOP, but
\* for start_batch, and only the two authorizations write registers.
Fits(op, s) ==
    /\ Len(s) \in 1 .. 14 /\ DOMAIN s = 1 .. Len(s)
    /\ \A n \in 1 .. Len(s) : IsCall(s[n])
    /\ \A n \in 1 .. Len(s) :
          s[n].cmd = "START" =>
            \/ op = "start_batch"
            \/ op = "send_all_commands" /\ n < 3
            \/ op = "quick_test_flow" /\ n < 8
    /\ op = "send_all_commands" => Len(s) = 6 /\ s[3] = Cmd("STOP")
    /\ op = "quick_test_flow" => Len(s) = 14 /\ s[8] = Cmd("STOP")
    /\ op \notin Writing => \A n \in 1 .. Len(s) : Keeps(s[n]) /\ s[n].cmd # "AUTH_BATCH"

\* The jobs, by their names.
LEMMA JobKinds ==
  ASSUME NEW j \in Jobs
  PROVE  \/ /\ j.op \in {"start_batch", "stop_batch", "end_transaction", "clear_status",
                         "clear_alarms", "poll", "read_status", "send_all_commands",
                         "quick_test_flow"}
            /\ j = Job(j.op)
         \/ j.op = "authorize" /\ j.arg \in Triples
         \/ j.op = "auth_batch" /\ j.arg \in Batches
  BY DEF Jobs, Job, CommandOf

\* The parameters go out first and the command last.
LEMMA AuthorizeCalls ==
  ASSUME NEW p
  PROVE  LET s == Authorize(p) IN
         /\ s \in Seq({Put([recipe |-> p.recipe]), Put([additive |-> p.additive]),
                       Put([side |-> p.side]), Cmd("AUTHORIZE")})
         /\ Len(s) = 4
         /\ s[1] = Put([recipe |-> p.recipe]) /\ s[2] = Put([additive |-> p.additive])
         /\ s[3] = Put([side |-> p.side]) /\ s[4] = Cmd("AUTHORIZE")
         /\ Fits("authorize", s)
  <1>1. Len(Authorize(p)) = 4 /\ DOMAIN Authorize(p) = 1 .. 4
    BY DEF Authorize
  <1>2. /\ Authorize(p)[1] = Put([recipe |-> p.recipe])
        /\ Authorize(p)[2] = Put([additive |-> p.additive])
        /\ Authorize(p)[3] = Put([side |-> p.side]) /\ Authorize(p)[4] = Cmd("AUTHORIZE")
    BY DEF Authorize
  <1>3. /\ IsCall(Put([recipe |-> p.recipe])) /\ IsCall(Put([additive |-> p.additive]))
        /\ IsCall(Put([side |-> p.side])) /\ IsCall(Cmd("AUTHORIZE"))
        /\ Put([recipe |-> p.recipe]).cmd # "START" /\ Put([additive |-> p.additive]).cmd # "START"
        /\ Put([side |-> p.side]).cmd # "START" /\ Cmd("AUTHORIZE").cmd # "START"
    BY CallFacts DEF Commands, NoArg
  <1>4. ASSUME NEW n \in 1 .. 4 PROVE IsCall(Authorize(p)[n]) /\ Authorize(p)[n].cmd # "START"
    <2>1. n \in {1, 2, 3, 4}
      OBVIOUS
    <2>2. QED
      BY <1>2, <1>3, <2>1
  <1>5. Fits("authorize", Authorize(p))
    BY <1>1, <1>4 DEF Fits, Writing
  <1>6. QED
    BY <1>1, <1>2, <1>5 DEF Authorize

\* The same of the batch authorization.
LEMMA AuthBatchCalls ==
  ASSUME NEW p
  PROVE  LET s == AuthBatch(p) IN
         /\ Len(s) = 3
         /\ s[1] = Put(Split(p.preset)) /\ s[2] = Put([components |-> p.components])
         /\ s[3] = Cmd("AUTH_BATCH")
         /\ Fits("auth_batch", s)
  <1>1. Len(AuthBatch(p)) = 3 /\ DOMAIN AuthBatch(p) = 1 .. 3
    BY DEF AuthBatch
  <1>2. /\ AuthBatch(p)[1] = Put(Split(p.preset))
        /\ AuthBatch(p)[2] = Put([components |-> p.components])
        /\ AuthBatch(p)[3] = Cmd("AUTH_BATCH")
    BY DEF AuthBatch
  <1>3. /\ IsCall(Put(Split(p.preset))) /\ IsCall(Put([components |-> p.components]))
        /\ IsCall(Cmd("AUTH_BATCH"))
        /\ Put(Split(p.preset)).cmd # "START"
        /\ Put([components |-> p.components]).cmd # "START" /\ Cmd("AUTH_BATCH").cmd # "START"
    BY CallFacts DEF Commands, NoArg
  <1>4. ASSUME NEW n \in 1 .. 3 PROVE IsCall(AuthBatch(p)[n]) /\ AuthBatch(p)[n].cmd # "START"
    <2>1. n \in {1, 2, 3}
      OBVIOUS
    <2>2. QED
      BY <1>2, <1>3, <2>1
  <1>5. QED
    BY <1>1, <1>2, <1>4 DEF Fits, Writing

\* The calls of the jobs that write no register.
LEMMA OtherCalls ==
  /\ Fits("poll", <<ReadStep(1, TRUE)>>)
  /\ Fits("read_status", ReadStatus)
  /\ Fits("send_all_commands", AllCommands)
  /\ Fits("quick_test_flow", QuickFlow)
  /\ \A op \in DOMAIN CommandOf : Fits(op, <<Cmd(CommandOf[op])>>)
  <1>1. Fits("poll", <<ReadStep(1, TRUE)>>)
    <2> DEFINE s == <<ReadStep(1, TRUE)>>
    <2>1. Len(s) = 1 /\ DOMAIN s = 1 .. 1 /\ s[1] = ReadStep(1, TRUE)
      OBVIOUS
    <2> HIDE DEF s
    <2>2. \A n \in 1 .. 1 : IsCall(s[n]) /\ Keeps(s[n]) /\ s[n].cmd # "START"
                            /\ s[n].cmd # "AUTH_BATCH"
      <3>1. \A n \in 1 .. 1 : n = 1
        OBVIOUS
      <3>2. QED
        BY <2>1, <3>1, Reading, Zenon
    <2>3. Fits("poll", s)
      BY <2>1, <2>2 DEF Fits
    <2>4. QED
      BY <2>3 DEF s
  <1>2. Fits("read_status", ReadStatus)
    <2>1. /\ Len(ReadStatus) = 2 /\ DOMAIN ReadStatus = 1 .. 2
          /\ ReadStatus[1] = ReadStep(3, TRUE) /\ ReadStatus[2] = ReadStep(2, FALSE)
      BY DEF ReadStatus
    <2>2. \A n \in 1 .. 2 : n \in {1, 2}
      OBVIOUS
    <2>3. QED
      <3>1. \A n \in 1 .. 2 :
              /\ IsCall(ReadStatus[n]) /\ Keeps(ReadStatus[n])
              /\ ReadStatus[n].cmd # "START" /\ ReadStatus[n].cmd # "AUTH_BATCH"
        BY <2>1, <2>2, Reading, Zenon
      <3>2. QED
        BY <2>1, <3>1 DEF Fits
  <1>3. Fits("send_all_commands", AllCommands)
    <2>1. /\ Len(AllCommands) = 6 /\ DOMAIN AllCommands = 1 .. 6
          /\ AllCommands[1] = Cmd("AUTHORIZE") /\ AllCommands[2] = Cmd("START")
          /\ AllCommands[3] = Cmd("STOP") /\ AllCommands[4] = Cmd("END")
          /\ AllCommands[5] = Cmd("CLEAR_STATUS") /\ AllCommands[6] = Cmd("CLEAR_ALARMS")
      BY DEF AllCommands
    <2>2. ASSUME NEW n \in 1 .. 6
          PROVE  \E c \in Commands : /\ AllCommands[n] = Cmd(c) /\ c # "AUTH_BATCH"
                                     /\ c = "START" => n = 2
      <3>1. n \in {1, 2, 3, 4, 5, 6}
        OBVIOUS
      <3>2. QED
        BY <2>1, <3>1 DEF Commands
    <2>3. ASSUME NEW n \in 1 .. 6
          PROVE  /\ IsCall(AllCommands[n]) /\ Keeps(AllCommands[n])
                 /\ AllCommands[n].cmd # "AUTH_BATCH"
                 /\ AllCommands[n].cmd = "START" => n = 2
      BY <2>2, CallFacts
    <2>4. QED
      BY <2>1, <2>3 DEF Fits
  <1>4. Fits("quick_test_flow", QuickFlow)
    <2> DEFINE F == QuickFlow
    <2>1. Len(F) = 14 /\ DOMAIN F = 1 .. 14 /\ F[8] = Cmd("STOP")
      BY QuickFlowCalls
    <2>2. ASSUME NEW n \in 1 .. 14
          PROVE  \/ F[n] = ReadStep(1, TRUE)
                 \/ \E c \in Commands : /\ F[n] = Cmd(c) /\ c # "AUTH_BATCH"
                                        /\ c = "START" => n = 6
      BY QuickFlowCalls DEF Commands
    <2> HIDE DEF F
    <2>3. ASSUME NEW n \in 1 .. 14
          PROVE  /\ IsCall(F[n]) /\ Keeps(F[n]) /\ F[n].cmd # "AUTH_BATCH"
                 /\ F[n].cmd = "START" => n = 6
      <3>1. CASE F[n] = ReadStep(1, TRUE)
        BY <3>1, Reading
      <3>2. CASE F[n] # ReadStep(1, TRUE)
        <4>1. PICK c \in Commands : F[n] = Cmd(c) /\ c # "AUTH_BATCH" /\ (c = "START" => n = 6)
          BY <2>2, <3>2
        <4>2. IsCall(Cmd(c)) /\ Keeps(Cmd(c)) /\ Cmd(c).cmd = c
          BY CallFacts
        <4>3. QED
          BY <4>1, <4>2
      <3>3. QED
        BY <3>1, <3>2
    <2>4. Fits("quick_test_flow", F)
      BY <2>1, <2>3 DEF Fits
    <2>5. QED
      BY <2>4 DEF F
  <1>5. ASSUME NEW op \in DOMAIN CommandOf PROVE Fits(op, <<Cmd(CommandOf[op])>>)
    <2>1. \E c \in Commands : /\ CommandOf[op] = c /\ c # "AUTH_BATCH"
                              /\ c = "START" => op = "start_batch"
      BY DEF CommandOf, Commands
    <2>2. op # "send_all_commands" /\ op # "quick_test_flow"
      BY DEF CommandOf
    <2>3. PICK c \in Commands : /\ CommandOf[op] = c /\ c # "AUTH_BATCH"
                                /\ c = "START" => op = "start_batch"
      BY <2>1
    <2>4. Fits(op, <<Cmd(c)>>)
      BY <2>2, <2>3, CallFacts DEF Fits
    <2>5. QED
      BY <2>3, <2>4
  <1>6. QED
    BY <1>1, <1>2, <1>3, <1>4, <1>5

\* Every job's calls fit.
LEMMA ScriptCalls ==
  ASSUME NEW j \in Jobs
  PROVE  /\ Fits(j.op, Script(j))
         /\ j.op = "authorize" => Script(j) = Authorize(j.arg) /\ j.arg \in Triples
         /\ j.op = "auth_batch" => Script(j) = AuthBatch(j.arg) /\ j.arg \in Batches
  <1>1. CASE j.op \in {"poll", "read_status", "send_all_commands", "quick_test_flow"}
    BY <1>1, OtherCalls DEF Script
  <1>2. CASE j.op \in DOMAIN CommandOf
    <2>1. Script(j) = <<Cmd(CommandOf[j.op])>>
      BY <1>2 DEF Script, CommandOf
    <2>2. j.op # "authorize" /\ j.op # "auth_batch"
      BY <1>2 DEF CommandOf
    <2>3. QED
      BY <1>2, <2>1, <2>2, OtherCalls
  <1>3. CASE j.op = "authorize"
    <2>1. Script(j) = Authorize(j.arg)
      BY <1>3 DEF Script
    <2>2. Fits("authorize", Authorize(j.arg))
      BY AuthorizeCalls
    <2>3. QED
      BY <1>3, <2>1, <2>2, JobKinds
  <1>4. CASE j.op = "auth_batch"
    <2>1. Script(j) = AuthBatch(j.arg)
      BY <1>4 DEF Script
    <2>2. Fits("auth_batch", AuthBatch(j.arg))
      BY AuthBatchCalls
    <2>3. QED
      BY <1>4, <2>1, <2>2, JobKinds
  <1>5. QED
    BY <1>1, <1>2, <1>3, <1>4, JobKinds DEF CommandOf

\* The polls and the telemetry only read, and the quick test does not.
LEMMA Readers ==
  /\ Job("poll") \in Jobs /\ ReadsOnly(Job("poll"))
  /\ Job("read_status") \in Jobs /\ ReadsOnly(Job("read_status"))
  /\ Job("quick_test_flow") \in Jobs /\ ~ReadsOnly(Job("quick_test_flow"))
  <1>1. Job("poll") \in Jobs /\ Job("read_status") \in Jobs /\ Job("quick_test_flow") \in Jobs
    BY DEF Jobs
  <1>2. /\ Script(Job("poll")) = <<ReadStep(1, TRUE)>> /\ Script(Job("read_status")) = ReadStatus
        /\ Script(Job("quick_test_flow")) = QuickFlow
    BY DEF Script, Job
  <1>3. ReadsOnly(Job("poll")) /\ ReadsOnly(Job("read_status"))
    <2>1. \A n \in DOMAIN ReadStatus : ReadStatus[n].kind = "read"
      <3>1. DOMAIN ReadStatus = {1, 2}
        BY DEF ReadStatus
      <3>2. ReadStatus[1] = ReadStep(3, TRUE) /\ ReadStatus[2] = ReadStep(2, FALSE)
        BY DEF ReadStatus
      <3>3. QED
        BY <3>1, <3>2, Reading
    <2>2. \A n \in DOMAIN <<ReadStep(1, TRUE)>> : <<ReadStep(1, TRUE)>>[n].kind = "read"
      <3>1. DOMAIN <<ReadStep(1, TRUE)>> = {1} /\ <<ReadStep(1, TRUE)>>[1] = ReadStep(1, TRUE)
        OBVIOUS
      <3>2. QED
        BY <3>1, Reading, Zenon
    <2>3. QED
      BY <1>2, <2>1, <2>2 DEF ReadsOnly
  <1>4. ~ReadsOnly(Job("quick_test_flow"))
    BY <1>2, QuickFlowCalls, CallFacts DEF ReadsOnly, Commands
  <1>5. QED
    BY <1>1, <1>3, <1>4
-------------------------------------------------------------------------------
(* A step of a job.                                                        *)

\* The call a task is at.
LEMMA StepFacts ==
  ASSUME TypeOK, NEW t \in Tasks
  PROVE  /\ cur[t].job \in Jobs
         /\ Fits(cur[t].job.op, Script(cur[t].job))
         /\ cur[t].step \in 1 .. Len(Script(cur[t].job))
         /\ Step(t) \in Made /\ IsCall(Step(t))
         /\ cur[t].try \in 1 .. Step(t).tries
  <1>1. /\ cur[t].job \in Jobs
        /\ cur[t].step \in 1 .. Len(Script(cur[t].job))
        /\ cur[t].try \in 1 .. Step(t).tries
    BY DEF TypeOK, Step
  <1>2. Fits(cur[t].job.op, Script(cur[t].job))
    BY <1>1, ScriptCalls
  <1>3. Step(t) \in Made
    BY <1>1 DEF Step, Made
  <1>4. IsCall(Step(t))
    BY <1>1, <1>2 DEF Step, Fits
  <1>5. QED
    BY <1>1, <1>2, <1>3, <1>4

\* Only a job that writes makes a call that is not a read, and it is numbered.
LEMMA WriterIsNumbered ==
  ASSUME TypeOK, ShapeInv, TaskInv, NEW t \in Tasks, pc[t] = "run", Step(t).kind # "read"
  PROVE  cur[t].id \in 1 .. Len(jobs) /\ cur[t].job = jobs[cur[t].id] /\ result[cur[t].id] = "none"
  <1>1. ~ReadsOnly(cur[t].job)
    <2>1. cur[t].step \in DOMAIN Script(cur[t].job)
      BY StepFacts DEF Fits
    <2>2. QED
      BY <2>1 DEF ReadsOnly, Step
  <1>2. cur[t].id # 0
    BY <1>1 DEF TaskInv
  <1>3. cur[t].id \in 0 .. Len(jobs)
    BY DEF TypeOK
  <1>4. Len(jobs) \in Nat
    BY DEF ShapeInv
  <1>5. QED
    BY <1>2, <1>3, <1>4 DEF TaskInv

\* What the dispenser is left with: nothing new, or the call of the task carried out.
Untouched == UNCHANGED <<slaveVars, log>>
Carried(t) == Step(t).kind # "read" /\ Execute(t, Step(t))

\* The ways a step of a job can go on.
MovesOn(t) ==
    /\ cur[t].step < Len(Script(cur[t].job))
    /\ cur' = [cur EXCEPT ![t].step = @ + 1, ![t].try = 1]
    /\ UNCHANGED <<lock, pc, bootVars, jobs, result>>
TriesAgain(t) ==
    /\ cur[t].try < Step(t).tries
    /\ cur' = [cur EXCEPT ![t].try = @ + 1]
    /\ UNCHANGED <<lock, pc, bootVars, jobs, result>>

\* Every call ends in one of five ways; a write that is not carried out ends the job.
LEMMA Outcomes ==
  ASSUME TypeOK, NEW t \in Tasks, Transact(t)
  PROVE  /\ pc[t] = "run" /\ UNCHANGED bounds
         /\ \/ MovesOn(t) /\ ((Untouched /\ Step(t).kind = "read") \/ Carried(t))
            \/ TriesAgain(t) /\ Untouched /\ Step(t).kind = "read"
            \/ /\ Finish(t, "OK") /\ cur[t].step = Len(Script(cur[t].job))
               /\ ((Untouched /\ Step(t).kind = "read") \/ Carried(t))
            \/ Finish(t, "FAIL") /\ (Untouched \/ Carried(t))
  <1> DEFINE s == Step(t)
  <1>1. pc[t] = "run" /\ UNCHANGED bounds
    BY DEF Transact
  <1>2. IsCall(s) /\ cur[t].try \in 1 .. s.tries /\ cur[t].step \in 1 .. Len(Script(cur[t].job))
    BY StepFacts
  <1>3. Advance(t) => \/ MovesOn(t)
                      \/ Finish(t, "OK") /\ cur[t].step = Len(Script(cur[t].job))
    <2>1. CASE cur[t].step = Len(Script(cur[t].job))
      BY <2>1 DEF Advance
    <2>2. CASE cur[t].step # Len(Script(cur[t].job))
      BY <1>2, <2>2 DEF Advance, MovesOn
    <2>3. QED
      BY <2>1, <2>2
  <1>4. CASE (IF s.kind = "read" THEN UNCHANGED <<slaveVars, log>> ELSE Execute(t, s)) /\ Advance(t)
    <2>1. (Untouched /\ s.kind = "read") \/ Carried(t)
      BY <1>4 DEF Carried, Untouched
    <2>2. QED
      BY <1>1, <1>3, <1>4, <2>1
  <1>5. CASE /\ UNCHANGED <<slaveVars, log>> \/ (s.kind # "read" /\ Execute(t, s))
             /\ IF TriesLeft(t, s)
                  THEN /\ cur' = [cur EXCEPT ![t].try = @ + 1]
                       /\ UNCHANGED <<lock, pc, bootVars, jobs, result>>
                  ELSE GiveUp(t, s)
    <2>1. Untouched \/ Carried(t)
      BY <1>5 DEF Carried, Untouched
    <2>2. CASE TriesLeft(t, s)
      <3>1. s.kind = "read"
        BY <1>2, <2>2 DEF TriesLeft, IsCall
      <3>2. TriesAgain(t) /\ Untouched
        BY <1>5, <2>2, <3>1 DEF TriesLeft, TriesAgain, Carried, Untouched
      <3>3. QED
        BY <1>1, <3>1, <3>2
    <2>3. CASE ~TriesLeft(t, s) /\ s.must
      BY <1>1, <1>5, <2>1, <2>3 DEF GiveUp
    <2>4. CASE ~TriesLeft(t, s) /\ ~s.must
      <3>1. s.kind = "read"
        BY <1>2, <2>4 DEF IsCall
      <3>2. Advance(t) /\ Untouched
        BY <1>5, <2>4, <3>1 DEF GiveUp, Carried, Untouched
      <3>3. QED
        BY <1>1, <1>3, <3>1, <3>2
    <2>5. QED
      BY <2>2, <2>3, <2>4
  <1>6. \/ /\ IF s.kind = "read" THEN UNCHANGED <<slaveVars, log>> ELSE Execute(t, s)
           /\ Advance(t)
        \/ /\ UNCHANGED <<slaveVars, log>> \/ (s.kind # "read" /\ Execute(t, s))
           /\ IF TriesLeft(t, s)
                THEN /\ cur' = [cur EXCEPT ![t].try = @ + 1]
                     /\ UNCHANGED <<lock, pc, bootVars, jobs, result>>
                ELSE GiveUp(t, s)
    BY Zenon DEF Transact
  <1>7. QED
    BY <1>4, <1>5, <1>6
-------------------------------------------------------------------------------
(* The parts of the invariant, and what leaves them as they are.           *)

\* What TypeOK says of the tasks, of the dispenser, and of the boot test and the bounds.
TypeTasks ==
    /\ lock \in Tasks \union {Free}
    /\ pc \in [Tasks -> {"idle", "lock", "run"}]
    /\ \A t \in Tasks :
         /\ cur[t].job \in Jobs
         /\ cur[t].id \in 0 .. Len(jobs)
         /\ cur[t].step \in 1 .. Len(Script(cur[t].job))
         /\ cur[t].try \in 1 .. Script(cur[t].job)[cur[t].step].tries
TypeSlave ==
    /\ running \in BOOLEAN
    /\ regs \in [Registers -> Word]
    /\ DOMAIN auth = DOMAIN UsedBy
    /\ \A c \in DOMAIN UsedBy :
         auth[c].id \in 0 .. Len(jobs) /\ auth[c].with \in [UsedBy[c] -> Word]
TypeBoot ==
    /\ polls \in 0 .. MaxPolls
    /\ phase \in {"poll", "flow", "ending", "done"}
    /\ done \in BOOLEAN
    /\ methods \in 0 .. MaxMethods /\ resets \in 0 .. MaxResets

\* The part of the invariant that is about the jobs, and the part about the boot test.
Core ==
    /\ TypeTasks /\ TypeSlave /\ Len(result) = Len(jobs)
    /\ ShapeInv /\ TaskInv /\ ArgInv /\ LogInv /\ ActsAsAsked /\ RunInv
Boot == TypeBoot /\ PollInv /\ CountInv

\* The invariant is its two parts.
LEMMA Parts == IInv <=> Core /\ Boot
  <1>1. IInv => Core /\ Boot
    BY DEF IInv, Core, Boot, TypeOK, TypeTasks, TypeSlave, TypeBoot
  <1>2. ASSUME Core, Boot PROVE TypeOK
    <2>1. Len(jobs) <= methods + resets + 1
      <3>1. Len(jobs) \in Nat /\ methods \in Nat /\ resets \in Nat
        BY <1>2, ConstantsAssumption DEF Core, Boot, ShapeInv, TypeBoot
      <3>2. QED
        BY <1>2, <3>1 DEF Boot, CountInv
    <2>2. QED
      BY <1>2, <2>1 DEF Core, Boot, TypeOK, TypeTasks, TypeSlave, TypeBoot, ShapeInv
  <1>3. QED
    BY <1>1, <1>2 DEF IInv, Core, Boot

\* An element more at the end of a list.
LEMMA Appended ==
  ASSUME NEW S, NEW s \in Seq(S), NEW e \in S
  PROVE  /\ Append(s, e) \in Seq(S) /\ Len(s) \in Nat /\ Len(Append(s, e)) = Len(s) + 1
         /\ \A i \in 1 .. Len(s) : Append(s, e)[i] = s[i]
         /\ Append(s, e)[Len(s) + 1] = e
  OBVIOUS

\* The jobs that were asked for stay as they are.
JobsKept == Len(jobs') >= Len(jobs) /\ \A i \in 1 .. Len(jobs) : jobs'[i] = jobs[i]

\* What was authorized stays so.
LEMMA ActsKept ==
  ASSUME TypeSlave, ShapeInv, ActsAsAsked, auth' = auth, JobsKept
  PROVE  ActsAsAsked'
  <1>1. auth.AUTHORIZE.id \in 0 .. Len(jobs) /\ auth.AUTH_BATCH.id \in 0 .. Len(jobs)
    BY DEF TypeSlave, UsedBy
  <1>2. Len(jobs) \in Nat
    BY DEF ShapeInv
  <1>3. \A i \in 0 .. Len(jobs) : i # 0 => jobs'[i] = jobs[i]
    BY <1>2 DEF JobsKept
  <1>4. QED
    BY <1>1, <1>3 DEF ActsAsAsked

\* A batch stays explained while the dispenser carries out nothing.
LEMMA RunKept ==
  ASSUME LogInv, RunInv, log' = log, running' = running,
         \A i \in 1 .. Len(jobs) : MayLeaveOn(i) => MayLeaveOn(i)'
  PROVE  RunInv'
  <1>1. SUFFICES ASSUME running' PROVE (\E m \in Starts : LastStart(m) /\ MayLeaveOn(log[m].id))'
    BY DEF RunInv
  <1>2. PICK m \in Starts : LastStart(m) /\ MayLeaveOn(log[m].id)
    BY <1>1 DEF RunInv
  <1>3. Starts' = Starts
    BY DEF Starts
  <1>4. LastStart(m)' /\ m \in Starts'
    BY <1>2, <1>3 DEF LastStart
  <1>5. PICK i \in 1 .. Len(jobs) : i = log[m].id
    BY <1>2 DEF LogInv, Starts
  <1>6. MayLeaveOn(i)'
    BY <1>2, <1>5
  <1>7. log'[m].id = i
    BY <1>5
  <1>8. MayLeaveOn(log[m].id)'
    BY <1>6, <1>7 DEF MayLeaveOn
  <1>9. QED
    BY <1>4, <1>8
-------------------------------------------------------------------------------
(* A task asks for a job.                                                  *)

\* The task's new record, and the lists, with the job's number if it writes.
Asked(t, j, k) ==
    /\ pc[t] = "idle" /\ pc' = [pc EXCEPT ![t] = "lock"]
    /\ cur' = [cur EXCEPT ![t] = [job |-> j, id |-> k, step |-> 1, try |-> 1]]
    /\ UNCHANGED <<lock, slaveVars, log>>
    /\ jobs' \in Seq(Jobs) /\ result' \in Seq({"none", "OK", "FAIL", "LOST"})
    /\ Len(result') = Len(jobs')
    /\ \A i \in 1 .. Len(jobs) : jobs'[i] = jobs[i] /\ result'[i] = result[i]
    /\ \/ k = 0 /\ ReadsOnly(j) /\ Len(jobs') = Len(jobs)
       \/ /\ k = Len(jobs) + 1 /\ Len(jobs') = k
          /\ jobs'[k] = j /\ result'[k] = "none"

\* What asking for a job changes.
LEMMA AskFacts ==
  ASSUME ShapeInv, Len(result) = Len(jobs), NEW t \in Tasks, NEW j \in Jobs, Ask(t, j)
  PROVE  \E k \in Nat : Asked(t, j, k)
  <1>1. pc[t] = "idle" /\ pc' = [pc EXCEPT ![t] = "lock"] /\ UNCHANGED <<lock, slaveVars, log>>
    BY DEF Ask, histVars
  <1>2. Len(jobs) \in Nat /\ jobs \in Seq(Jobs) /\ result \in Seq({"none", "OK", "FAIL", "LOST"})
    BY DEF ShapeInv
  <1>3. CASE ReadsOnly(j)
    <2>1. /\ cur' = [cur EXCEPT ![t] = [job |-> j, id |-> 0, step |-> 1, try |-> 1]]
          /\ jobs' = jobs /\ result' = result
      BY <1>3 DEF Ask, NoJob, histVars
    <2>2. Asked(t, j, 0)
      BY <1>1, <1>2, <1>3, <2>1 DEF Asked
    <2>3. QED
      BY <2>2
  <1>4. CASE ~ReadsOnly(j)
    <2> DEFINE k == Len(jobs) + 1
    <2>1. /\ cur' = [cur EXCEPT ![t] = [job |-> j, id |-> k, step |-> 1, try |-> 1]]
          /\ jobs' = Append(jobs, j) /\ result' = Append(result, "none")
      BY <1>4 DEF Ask, NoJob
    <2>2. /\ jobs' \in Seq(Jobs) /\ Len(jobs') = k /\ jobs'[k] = j
          /\ \A i \in 1 .. Len(jobs) : jobs'[i] = jobs[i]
      BY <1>2, <2>1, Appended
    <2>3. /\ result' \in Seq({"none", "OK", "FAIL", "LOST"}) /\ Len(result') = k
          /\ result'[k] = "none" /\ \A i \in 1 .. Len(jobs) : result'[i] = result[i]
      <3>1. "none" \in {"none", "OK", "FAIL", "LOST"}
        OBVIOUS
      <3>2. /\ Append(result, "none") \in Seq({"none", "OK", "FAIL", "LOST"})
            /\ Len(Append(result, "none")) = Len(result) + 1
            /\ Append(result, "none")[Len(result) + 1] = "none"
            /\ \A i \in 1 .. Len(result) : Append(result, "none")[i] = result[i]
        BY <1>2, <3>1, Appended
      <3>3. QED
        BY <2>1, <3>2
    <2>4. k \in Nat
      BY <1>2
    <2> HIDE DEF k
    <2>5. k = Len(jobs) + 1
      BY DEF k
    <2>6. Asked(t, j, k)
      BY <1>1, <2>1, <2>2, <2>3, <2>5 DEF Asked
    <2>7. QED
      BY <2>4, <2>6
  <1>5. QED
    BY <1>3, <1>4

\* Asking for a job keeps what the invariant says of jobs and dispenser.
LEMMA AskKeeps ==
  ASSUME Core, NEW t \in Tasks, NEW j \in Jobs, Ask(t, j)
  PROVE  /\ Core'
         /\ pc' = [pc EXCEPT ![t] = "lock"] /\ cur'[t].job = j
         /\ \A u \in Tasks \ {t} : cur'[u] = cur[u]
         /\ Len(jobs') \in {Len(jobs), Len(jobs) + 1}
         /\ ReadsOnly(j) => jobs' = jobs
  <1>1. PICK k \in Nat : Asked(t, j, k)
    BY AskFacts DEF Core
  <1>2. Len(jobs) \in Nat /\ Len(jobs') \in Nat /\ Len(jobs) <= Len(jobs')
    BY <1>1 DEF Asked, Core, ShapeInv
  <1>3. JobsKept
    BY <1>1, <1>2 DEF Asked, JobsKept
  <1>4. /\ cur'[t] = [job |-> j, id |-> k, step |-> 1, try |-> 1]
        /\ \A u \in Tasks \ {t} : cur'[u] = cur[u]
        /\ cur' \in [Tasks -> [job : Jobs, id : Nat, step : Nat, try : Nat]]
    BY <1>1 DEF Asked, Core, ShapeInv
  <1>5. /\ pc'[t] = "lock" /\ \A u \in Tasks \ {t} : pc'[u] = pc[u]
        /\ pc' \in [Tasks -> {"idle", "lock", "run"}]
    BY <1>1 DEF Asked, Core, TypeTasks
  <1>6. k \in 0 .. Len(jobs')
    BY <1>1, <1>2 DEF Asked
  <1>7. TypeTasks'
    <2>1. 1 \in 1 .. Len(Script(j)) /\ 1 \in 1 .. Script(j)[1].tries
      <3>1. Fits(j.op, Script(j))
        BY ScriptCalls
      <3>2. 1 \in 1 .. Len(Script(j)) /\ IsCall(Script(j)[1])
        BY <3>1 DEF Fits
      <3>3. QED
        BY <3>2 DEF IsCall
    <2>2. lock' \in Tasks \union {Free}
      BY <1>1 DEF Asked, Core, TypeTasks
    <2>3. ASSUME NEW u \in Tasks
          PROVE  /\ cur'[u].job \in Jobs /\ cur'[u].id \in 0 .. Len(jobs')
                 /\ cur'[u].step \in 1 .. Len(Script(cur'[u].job))
                 /\ cur'[u].try \in 1 .. Script(cur'[u].job)[cur'[u].step].tries
      <3>1. CASE u = t
        BY <1>4, <1>6, <2>1, <3>1
      <3>2. CASE u # t
        <4>1. /\ cur[u].job \in Jobs /\ cur[u].id \in 0 .. Len(jobs)
              /\ cur[u].step \in 1 .. Len(Script(cur[u].job))
              /\ cur[u].try \in 1 .. Script(cur[u].job)[cur[u].step].tries
          BY DEF Core, TypeTasks
        <4>2. cur[u].id \in 0 .. Len(jobs')
          BY <1>2, <4>1
        <4>3. QED
          BY <1>4, <3>2, <4>1, <4>2
      <3>3. QED
        BY <3>1, <3>2
    <2>4. QED
      BY <1>5, <2>2, <2>3 DEF TypeTasks
  <1>8. TypeSlave'
    <2>1. \A c \in DOMAIN UsedBy : auth[c].id \in 0 .. Len(jobs')
      BY <1>2 DEF Core, TypeSlave
    <2>2. running' = running /\ regs' = regs /\ auth' = auth
      BY <1>1 DEF Asked, slaveVars
    <2>3. QED
      BY <2>1, <2>2 DEF Core, TypeSlave
  <1>9. ShapeInv' /\ Len(result') = Len(jobs')
    BY <1>1, <1>4 DEF Asked, Core, ShapeInv
  <1>10. TaskInv'
    <2> DEFINE Old(u) ==
          /\ pc[u] = "run" <=> lock = u
          /\ pc[u] # "run" => cur[u].step = 1 /\ cur[u].try = 1
          /\ pc[u] = "idle" => cur[u].id = 0
          /\ pc[u] # "idle" /\ cur[u].id = 0 => ReadsOnly(cur[u].job)
          /\ cur[u].id # 0 => cur[u].job = jobs[cur[u].id] /\ result[cur[u].id] = "none"
          /\ cur[u].id \in 0 .. Len(jobs)
    <2>1. \A u \in Tasks : Old(u)
      BY DEF Core, TaskInv, TypeTasks
    <2>2. lock' = lock
      BY <1>1 DEF Asked
    <2>3. lock # t
      BY <1>1, <2>1 DEF Asked
    <2>4. /\ k = 0 => ReadsOnly(j)
          /\ k # 0 => jobs'[k] = j /\ result'[k] = "none" /\ k = Len(jobs) + 1
      BY <1>1, <1>2 DEF Asked
    <2>5. ASSUME NEW u \in Tasks
          PROVE  /\ pc'[u] = "run" <=> lock' = u
                 /\ pc'[u] # "run" => cur'[u].step = 1 /\ cur'[u].try = 1
                 /\ pc'[u] = "idle" => cur'[u].id = 0
                 /\ pc'[u] # "idle" /\ cur'[u].id = 0 => ReadsOnly(cur'[u].job)
                 /\ cur'[u].id # 0 => /\ cur'[u].job = jobs'[cur'[u].id]
                                      /\ result'[cur'[u].id] = "none"
      <3>1. CASE u = t
        BY <1>4, <1>5, <2>2, <2>3, <2>4, <3>1
      <3>2. CASE u # t
        <4>1. cur[u].id # 0 => /\ jobs'[cur[u].id] = jobs[cur[u].id]
                               /\ result'[cur[u].id] = result[cur[u].id]
          BY <1>1, <1>2, <2>1 DEF Asked
        <4>2. cur'[u] = cur[u] /\ pc'[u] = pc[u]
          BY <1>4, <1>5, <3>2
        <4>3. QED
          BY <2>1, <2>2, <4>1, <4>2
      <3>3. QED
        BY <3>1, <3>2
    <2>6. ASSUME NEW u \in Tasks, NEW v \in Tasks, u # v, cur'[u].id # 0
          PROVE  cur'[u].id # cur'[v].id
      <3>1. cur[u].id # 0 => cur[u].id # cur[v].id
        BY <2>6 DEF Core, TaskInv
      <3>2. k # 0 => cur[u].id # k /\ cur[v].id # k
        BY <1>2, <2>1, <2>4
      <3>3. CASE u = t
        BY <1>4, <2>6, <3>2, <3>3
      <3>4. CASE v = t
        BY <1>4, <2>6, <3>2, <3>4
      <3>5. CASE u # t /\ v # t
        BY <1>4, <2>6, <3>1, <3>5
      <3>6. QED
        BY <3>3, <3>4, <3>5
    <2>7. QED
      BY <2>5, <2>6 DEF TaskInv
  <1>11. ArgInv'
    <2>1. regs' = regs
      BY <1>1 DEF Asked, slaveVars
    <2>2. \A u \in Tasks : pc'[u] = "run" => pc[u] = "run" /\ cur'[u] = cur[u]
      BY <1>4, <1>5
    <2>3. QED
      BY <2>1, <2>2 DEF Core, ArgInv
  <1>12. LogInv'
    <2>1. log' = log
      BY <1>1 DEF Asked
    <2>2. QED
      BY <1>2, <2>1 DEF Core, LogInv
  <1>13. ActsAsAsked'
    <2>1. auth' = auth
      BY <1>1 DEF Asked, slaveVars
    <2>2. QED
      BY <1>3, <2>1, ActsKept DEF Core
  <1>14. RunInv'
    <2>1. ASSUME NEW i \in 1 .. Len(jobs), MayLeaveOn(i) PROVE MayLeaveOn(i)'
      <3>1. jobs'[i] = jobs[i] /\ result'[i] = result[i]
        BY <1>1 DEF Asked
      <3>2. \A u \in Tasks : pc'[u] = "run" => pc[u] = "run" /\ cur'[u] = cur[u]
        BY <1>4, <1>5
      <3>3. QED
        BY <2>1, <3>1, <3>2 DEF MayLeaveOn
    <2>2. log' = log /\ running' = running
      BY <1>1 DEF Asked, slaveVars
    <2>3. QED
      BY <2>1, <2>2, RunKept DEF Core
  <1>15. ReadsOnly(j) => jobs' = jobs
    BY DEF Ask, histVars
  <1>16. QED
    BY <1>1, <1>2, <1>4, <1>7, <1>8, <1>9, <1>10, <1>11, <1>12, <1>13, <1>14, <1>15
       DEF Core, Asked
-------------------------------------------------------------------------------
(* A task gets the mutex.                                                  *)

\* A job that begins has written nothing yet, and its stop is to come.
LEMMA TakeLockKeeps ==
  ASSUME Core, NEW t \in Tasks, TakeLock(t)
  PROVE  Core'
  <1>1. /\ pc[t] = "lock" /\ lock = Free /\ lock' = t
        /\ pc' = [pc EXCEPT ![t] = "run"]
        /\ cur' = cur /\ jobs' = jobs /\ result' = result /\ log' = log
        /\ regs' = regs /\ running' = running /\ auth' = auth
    BY DEF TakeLock, histVars, slaveVars
  <1>2. /\ pc'[t] = "run" /\ \A u \in Tasks \ {t} : pc'[u] = pc[u]
        /\ pc' \in [Tasks -> {"idle", "lock", "run"}]
    BY <1>1 DEF Core, TypeTasks
  <1>3. TypeTasks' /\ TypeSlave' /\ ShapeInv' /\ LogInv' /\ Len(result') = Len(jobs')
    BY <1>1, <1>2 DEF Core, TypeTasks, TypeSlave, ShapeInv, LogInv
  <1>4. cur[t].step = 1
    BY <1>1 DEF Core, TaskInv
  <1>5. TaskInv'
    <2>1. ASSUME NEW u \in Tasks
          PROVE  /\ pc'[u] = "run" <=> lock' = u
                 /\ pc'[u] # "run" => cur'[u].step = 1 /\ cur'[u].try = 1
                 /\ pc'[u] = "idle" => cur'[u].id = 0
                 /\ pc'[u] # "idle" /\ cur'[u].id = 0 => ReadsOnly(cur'[u].job)
                 /\ cur'[u].id # 0 => /\ cur'[u].job = jobs'[cur'[u].id]
                                      /\ result'[cur'[u].id] = "none"
      <3>1. pc[u] # "run"
        BY <1>1, ConstantsAssumption DEF Core, TaskInv
      <3>2. CASE u = t
        BY <1>1, <1>2, <3>1, <3>2 DEF Core, TaskInv
      <3>3. CASE u # t
        BY <1>1, <1>2, <3>1, <3>3 DEF Core, TaskInv
      <3>4. QED
        BY <3>2, <3>3
    <2>2. \A u, v \in Tasks : u # v /\ cur'[u].id # 0 => cur'[u].id # cur'[v].id
      BY <1>1 DEF Core, TaskInv
    <2>3. QED
      BY <2>1, <2>2 DEF TaskInv
  <1>6. ArgInv'
    <2>1. ASSUME NEW u \in Tasks, pc'[u] = "run" PROVE cur'[u].step = 1 \/ pc[u] = "run"
      BY <1>1, <1>2, <1>4, <2>1
    <2>2. QED
      BY <1>1, <2>1 DEF Core, ArgInv
  <1>7. ActsAsAsked'
    BY <1>1, ActsKept DEF Core, JobsKept, ShapeInv
  <1>8. RunInv'
    <2>1. ASSUME NEW i \in 1 .. Len(jobs), MayLeaveOn(i) PROVE MayLeaveOn(i)'
      <3>1. ASSUME NEW u \in Tasks, pc'[u] = "run"
            PROVE  pc[u] = "run" \/ cur[u].step <= StopAt(cur[u].job)
        BY <1>2, <1>4, <3>1 DEF StopAt
      <3>2. QED
        BY <1>1, <2>1, <3>1 DEF MayLeaveOn
    <2>2. QED
      BY <1>1, <2>1, RunKept DEF Core
  <1>9. QED
    BY <1>3, <1>5, <1>6, <1>7, <1>8 DEF Core
-------------------------------------------------------------------------------
(* The dispenser carries out a call.                                       *)

\* The halves of a volume are words.
LEMMA Halves ==
  ASSUME NEW v \in Nat, v \div WordSize < WordSize
  PROVE  v \div WordSize \in Word /\ v % WordSize \in Word
  BY ConstantsAssumption DEF Word

\* The halves put together again are the volume.
LEMMA Rejoined ==
  ASSUME NEW v \in Nat, NEW hi \in Word, NEW lo \in Word,
         hi = v \div WordSize, lo = v % WordSize
  PROVE  Join(hi, lo) = v
  <1>1. ASSUME NEW w \in Nat, w > 0, NEW d \in Nat, NEW r \in Nat, d = v \div w, r = v % w
        PROVE  v = d * w + r
    BY <1>1
  <1>2. WordSize \in Nat /\ WordSize > 0 /\ hi \in Nat /\ lo \in Nat
    BY ConstantsAssumption DEF Word
  <1>3. v = hi * WordSize + lo
    BY <1>1, <1>2
  <1>4. QED
    BY <1>3, Zenon DEF Join

\* What a call writes into the registers are words.
LEMMA ValsAreWords ==
  ASSUME NEW j \in Jobs, NEW n \in 1 .. Len(Script(j)), NEW r \in DOMAIN Script(j)[n].vals
  PROVE  Script(j)[n].vals[r] \in Word
  <1>1. CASE j.op \notin Writing
    <2>1. Script(j)[n].vals = <<>>
      BY <1>1, ScriptCalls DEF Fits, Keeps
    <2>2. QED
      BY <2>1
  <1>2. CASE j.op = "authorize"
    <2> DEFINE p == j.arg
    <2>1. p.recipe \in Word /\ p.additive \in Word /\ p.side \in Word
      BY <1>2, ScriptCalls, ConstantsAssumption
    <2>2. /\ Len(Script(j)) = 4
          /\ Script(j)[1] = Put([recipe |-> p.recipe])
          /\ Script(j)[2] = Put([additive |-> p.additive])
          /\ Script(j)[3] = Put([side |-> p.side]) /\ Script(j)[4] = Cmd("AUTHORIZE")
      BY <1>2, ScriptCalls, AuthorizeCalls
    <2>3. /\ Script(j)[1].vals = [recipe |-> p.recipe]
          /\ Script(j)[2].vals = [additive |-> p.additive]
          /\ Script(j)[3].vals = [side |-> p.side] /\ Script(j)[4].vals = <<>>
      BY <2>2 DEF Put, Cmd
    <2>4. n \in {1, 2, 3, 4}
      BY <2>2
    <2>5. QED
      BY <2>1, <2>3, <2>4
  <1>3. CASE j.op = "auth_batch"
    <2> DEFINE p == j.arg
    <2>1. p.components \in Word /\ p.preset \div WordSize \in Word /\ p.preset % WordSize \in Word
      BY <1>3, ScriptCalls, ConstantsAssumption, Halves
    <2>2. /\ Len(Script(j)) = 3
          /\ Script(j)[1] = Put(Split(p.preset))
          /\ Script(j)[2] = Put([components |-> p.components])
          /\ Script(j)[3] = Cmd("AUTH_BATCH")
      BY <1>3, ScriptCalls, AuthBatchCalls
    <2>3. /\ Script(j)[1].vals = Split(p.preset)
          /\ Script(j)[2].vals = [components |-> p.components] /\ Script(j)[3].vals = <<>>
      BY <2>2 DEF Put, Cmd
    <2>4. n \in {1, 2, 3}
      BY <2>2
    <2>5. QED
      BY <2>1, <2>3, <2>4 DEF Split
  <1>4. QED
    BY <1>1, <1>2, <1>3 DEF Writing

\* The registers afterwards: what the call wrote, and the rest as it was.
LEMMA RegsAfter ==
  ASSUME TypeOK, TypeSlave, NEW t \in Tasks, Carried(t)
  PROVE  /\ regs' \in [Registers -> Word]
         /\ \A r \in Registers :
              regs'[r] = IF r \in DOMAIN Step(t).vals THEN Step(t).vals[r] ELSE regs[r]
  <1>1. regs' = [r \in Registers |-> IF r \in DOMAIN Step(t).vals THEN Step(t).vals[r] ELSE regs[r]]
    BY DEF Carried, Execute
  <1>2. ASSUME NEW r \in DOMAIN Step(t).vals PROVE Step(t).vals[r] \in Word
    BY StepFacts, ValsAreWords DEF Step
  <1>3. \A r \in Registers : regs[r] \in Word
    BY DEF TypeSlave
  <1>4. QED
    BY <1>1, <1>2, <1>3

\* Where an authorization is in its list.
LEMMA AuthorizeStep ==
  ASSUME TypeOK, NEW t \in Tasks, cur[t].job.op = "authorize"
  PROVE  LET p == cur[t].job.arg  n == cur[t].step  s == Step(t) IN
         /\ n \in {1, 2, 3, 4} /\ Len(Script(cur[t].job)) = 4
         /\ p \in [recipe : Word, additive : Word, side : Word]
         /\ s.kind # "read"
         /\ n = 1 => s.vals = [recipe |-> p.recipe] /\ s.cmd = NoArg
         /\ n = 2 => s.vals = [additive |-> p.additive] /\ s.cmd = NoArg
         /\ n = 3 => s.vals = [side |-> p.side] /\ s.cmd = NoArg
         /\ n = 4 => s.vals = <<>> /\ s.cmd = "AUTHORIZE"
  <1> DEFINE p == cur[t].job.arg
             n == cur[t].step
  <1>1. cur[t].job \in Jobs /\ n \in 1 .. Len(Script(cur[t].job))
    BY StepFacts
  <1>2. Script(cur[t].job) = Authorize(p) /\ p \in Triples
    BY <1>1, ScriptCalls
  <1>3. /\ Len(Authorize(p)) = 4
        /\ Authorize(p)[1] = Put([recipe |-> p.recipe])
        /\ Authorize(p)[2] = Put([additive |-> p.additive])
        /\ Authorize(p)[3] = Put([side |-> p.side]) /\ Authorize(p)[4] = Cmd("AUTHORIZE")
    BY AuthorizeCalls
  <1>4. n \in {1, 2, 3, 4}
    BY <1>1, <1>2, <1>3
  <1>5. p \in [recipe : Word, additive : Word, side : Word]
    BY <1>2, ConstantsAssumption
  <1>6. Step(t) = Authorize(p)[n]
    BY <1>2 DEF Step
  <1>7. /\ Authorize(p)[1].vals = [recipe |-> p.recipe] /\ Authorize(p)[1].cmd = NoArg
        /\ Authorize(p)[2].vals = [additive |-> p.additive] /\ Authorize(p)[2].cmd = NoArg
        /\ Authorize(p)[3].vals = [side |-> p.side] /\ Authorize(p)[3].cmd = NoArg
        /\ Authorize(p)[4].vals = <<>> /\ Authorize(p)[4].cmd = "AUTHORIZE"
        /\ \A k \in {1, 2, 3, 4} : Authorize(p)[k].kind # "read"
    BY <1>3 DEF Put, Cmd
  <1>8. QED
    BY <1>2, <1>3, <1>4, <1>5, <1>6, <1>7

\* The same of a batch authorization.
LEMMA AuthBatchStep ==
  ASSUME TypeOK, NEW t \in Tasks, cur[t].job.op = "auth_batch"
  PROVE  LET p == cur[t].job.arg  n == cur[t].step  s == Step(t) IN
         /\ n \in {1, 2, 3} /\ Len(Script(cur[t].job)) = 3
         /\ p \in [preset : Nat, components : Word] /\ p.preset \div WordSize < WordSize
         /\ s.kind # "read"
         /\ n = 1 => s.vals = Split(p.preset) /\ s.cmd = NoArg
         /\ n = 2 => s.vals = [components |-> p.components] /\ s.cmd = NoArg
         /\ n = 3 => s.vals = <<>> /\ s.cmd = "AUTH_BATCH"
  <1> DEFINE p == cur[t].job.arg
             n == cur[t].step
  <1>1. cur[t].job \in Jobs /\ n \in 1 .. Len(Script(cur[t].job))
    BY StepFacts
  <1>2. Script(cur[t].job) = AuthBatch(p) /\ p \in Batches
    BY <1>1, ScriptCalls
  <1>3. /\ Len(AuthBatch(p)) = 3
        /\ AuthBatch(p)[1] = Put(Split(p.preset))
        /\ AuthBatch(p)[2] = Put([components |-> p.components])
        /\ AuthBatch(p)[3] = Cmd("AUTH_BATCH")
    BY AuthBatchCalls
  <1>4. n \in {1, 2, 3}
    BY <1>1, <1>2, <1>3
  <1>5. p \in [preset : Nat, components : Word] /\ p.preset \div WordSize < WordSize
    BY <1>2, ConstantsAssumption
  <1>6. Step(t) = AuthBatch(p)[n]
    BY <1>2 DEF Step
  <1>7. /\ AuthBatch(p)[1].vals = Split(p.preset) /\ AuthBatch(p)[1].cmd = NoArg
        /\ AuthBatch(p)[2].vals = [components |-> p.components] /\ AuthBatch(p)[2].cmd = NoArg
        /\ AuthBatch(p)[3].vals = <<>> /\ AuthBatch(p)[3].cmd = "AUTH_BATCH"
        /\ \A k \in {1, 2, 3} : AuthBatch(p)[k].kind # "read"
    BY <1>3 DEF Put, Cmd
  <1>8. QED
    BY <1>2, <1>3, <1>4, <1>5, <1>6, <1>7

\* Carrying out a call leaves the dispenser with what was authorized, as asked.
LEMMA CarriedActs ==
  ASSUME TypeOK, Core, NEW t \in Tasks, pc[t] = "run", Carried(t), jobs' = jobs
  PROVE  ActsAsAsked'
  <1> DEFINE n == cur[t].step
             p == cur[t].job.arg
             i == cur[t].id
             s == Step(t)
  <1>1. i \in 1 .. Len(jobs) /\ cur[t].job = jobs[i]
    BY WriterIsNumbered DEF Core, Carried
  <1>2. /\ auth'.AUTHORIZE = IF s.cmd = "AUTHORIZE"
                               THEN [id |-> i, with |-> [r \in UsedBy.AUTHORIZE |-> regs[r]]]
                               ELSE auth.AUTHORIZE
        /\ auth'.AUTH_BATCH = IF s.cmd = "AUTH_BATCH"
                               THEN [id |-> i, with |-> [r \in UsedBy.AUTH_BATCH |-> regs[r]]]
                               ELSE auth.AUTH_BATCH
    BY DEF Carried, Execute, UsedBy
  <1>3. ASSUME s.cmd = "AUTHORIZE", jobs[i].op = "authorize"
        PROVE  [r \in UsedBy.AUTHORIZE |-> regs[r]] = jobs[i].arg
    <2>1. n = 4 /\ p \in [recipe : Word, additive : Word, side : Word]
      BY <1>1, <1>3, AuthorizeStep DEF NoArg
    <2>2. regs["recipe"] = p.recipe /\ regs["additive"] = p.additive /\ regs["side"] = p.side
      BY <1>1, <1>3, <2>1 DEF Core, ArgInv
    <2>3. [r \in UsedBy.AUTHORIZE |-> regs[r]] = p
      BY <2>1, <2>2 DEF UsedBy
    <2>4. QED
      BY <1>1, <2>3
  <1>4. ASSUME s.cmd = "AUTH_BATCH"
        PROVE  /\ jobs[i].op = "auth_batch"
               /\ Join(regs["preset_hi"], regs["preset_lo"]) = jobs[i].arg.preset
               /\ regs["components"] = jobs[i].arg.components
    <2>1. cur[t].job.op = "auth_batch"
      <3>1. cur[t].job.op \in Writing
        BY <1>4, StepFacts DEF Fits, Step
      <3>2. cur[t].job.op # "authorize"
        BY <1>4, AuthorizeStep DEF NoArg
      <3>3. QED
        BY <3>1, <3>2 DEF Writing
    <2>2. n = 3 /\ p \in [preset : Nat, components : Word]
      BY <1>4, <2>1, AuthBatchStep DEF NoArg
    <2>3. /\ regs["preset_hi"] = p.preset \div WordSize /\ regs["preset_lo"] = p.preset % WordSize
          /\ regs["components"] = p.components
      BY <2>1, <2>2 DEF Core, ArgInv
    <2>4. regs["preset_hi"] \in Word /\ regs["preset_lo"] \in Word /\ p.preset \in Nat
      BY <2>2 DEF Core, TypeSlave, Registers, UsedBy
    <2>5. Join(regs["preset_hi"], regs["preset_lo"]) = p.preset
      BY <2>3, <2>4, Rejoined
    <2>6. QED
      BY <1>1, <2>1, <2>3, <2>5
  <1>5. LET a == auth'.AUTHORIZE IN
          a.id # 0 /\ jobs'[a.id].op = "authorize" => a.with = jobs'[a.id].arg
    <2>1. CASE s.cmd = "AUTHORIZE"
      BY <1>2, <1>3, <2>1
    <2>2. CASE s.cmd # "AUTHORIZE"
      BY <1>2, <2>2 DEF Core, ActsAsAsked
    <2>3. QED
      BY <2>1, <2>2
  <1>6. LET b == auth'.AUTH_BATCH IN
          b.id # 0 => /\ jobs'[b.id].op = "auth_batch"
                      /\ Join(b.with.preset_hi, b.with.preset_lo) = jobs'[b.id].arg.preset
                      /\ b.with.components = jobs'[b.id].arg.components
    <2>1. CASE s.cmd = "AUTH_BATCH"
      <3>1. auth'.AUTH_BATCH = [id |-> i, with |-> [r \in UsedBy.AUTH_BATCH |-> regs[r]]]
        BY <1>2, <2>1
      <3>2. /\ auth'.AUTH_BATCH.id = i
            /\ auth'.AUTH_BATCH.with.preset_hi = regs["preset_hi"]
            /\ auth'.AUTH_BATCH.with.preset_lo = regs["preset_lo"]
            /\ auth'.AUTH_BATCH.with.components = regs["components"]
        BY <3>1 DEF UsedBy
      <3>3. QED
        BY <1>4, <2>1, <3>2
    <2>2. CASE s.cmd # "AUTH_BATCH"
      BY <1>2, <2>2 DEF Core, ActsAsAsked
    <2>3. QED
      BY <2>1, <2>2
  <1>7. QED
    BY <1>5, <1>6 DEF ActsAsAsked

\* Carrying out a call adds it to the log, under the number of its job.
LEMMA CarriedLog ==
  ASSUME TypeOK, Core, NEW t \in Tasks, pc[t] = "run", Carried(t), jobs' = jobs
  PROVE  /\ log' \in Seq([id : Nat, what : Made]) /\ LogInv' /\ TypeSlave'
         /\ Len(log) \in Nat /\ Len(log') = Len(log) + 1
         /\ \A i \in 1 .. Len(log) : log'[i] = log[i]
         /\ log'[Len(log) + 1] = [id |-> cur[t].id, what |-> Step(t)]
  <1> DEFINE e == [id |-> cur[t].id, what |-> Step(t)]
  <1>1. cur[t].id \in 1 .. Len(jobs) /\ Len(jobs) \in Nat
    BY WriterIsNumbered DEF Core, Carried, ShapeInv
  <1>2. e \in [id : Nat, what : Made]
    BY <1>1, StepFacts
  <1>3. log' = Append(log, e) /\ log \in Seq([id : Nat, what : Made])
    BY DEF Carried, Execute, Core, ShapeInv
  <1> HIDE DEF e
  <1>4. /\ log' \in Seq([id : Nat, what : Made])
        /\ Len(log) \in Nat /\ Len(log') = Len(log) + 1
        /\ \A i \in 1 .. Len(log) : log'[i] = log[i]
        /\ log'[Len(log) + 1] = e
    BY <1>2, <1>3, Appended
  <1>5. LogInv'
    <2>1. ASSUME NEW i \in 1 .. Len(log') PROVE log'[i].id \in 1 .. Len(jobs)
      <3>1. i \in 1 .. Len(log) \/ i = Len(log) + 1
        BY <1>4
      <3>2. CASE i \in 1 .. Len(log)
        BY <1>4, <3>2 DEF Core, LogInv
      <3>3. CASE i = Len(log) + 1
        BY <1>1, <1>4, <3>3 DEF e
      <3>4. QED
        BY <3>1, <3>2, <3>3
    <2>2. QED
      BY <2>1 DEF LogInv
  <1>6. TypeSlave'
    <2>1. running' \in BOOLEAN
      <3>1. running \in BOOLEAN
        BY DEF Core, TypeSlave
      <3>2. CASE Step(t).cmd = "START"
        BY <3>2 DEF Carried, Execute
      <3>3. CASE Step(t).cmd = "STOP"
        BY <3>3 DEF Carried, Execute
      <3>4. CASE Step(t).cmd \notin {"START", "STOP"}
        BY <3>1, <3>4 DEF Carried, Execute
      <3>5. QED
        BY <3>2, <3>3, <3>4
    <2>2. regs' \in [Registers -> Word]
      BY RegsAfter DEF Core
    <2>3. auth' = [c \in DOMAIN UsedBy |->
                    IF Step(t).cmd = c
                      THEN [id |-> cur[t].id, with |-> [r \in UsedBy[c] |-> regs[r]]]
                      ELSE auth[c]]
      BY DEF Carried, Execute
    <2>4. ASSUME NEW c \in DOMAIN UsedBy
          PROVE  auth'[c].id \in 0 .. Len(jobs) /\ auth'[c].with \in [UsedBy[c] -> Word]
      <3>1. CASE Step(t).cmd = c
        <4>1. auth'[c] = [id |-> cur[t].id, with |-> [r \in UsedBy[c] |-> regs[r]]]
          BY <2>3, <3>1
        <4>2. \A r \in UsedBy[c] : r \in Registers
          BY DEF Registers, UsedBy
        <4>3. \A r \in UsedBy[c] : regs[r] \in Word
          BY <4>2 DEF Core, TypeSlave
        <4>4. QED
          BY <1>1, <4>1, <4>3
      <3>2. CASE Step(t).cmd # c
        BY <2>3, <3>2 DEF Core, TypeSlave
      <3>3. QED
        BY <3>1, <3>2
    <2>5. DOMAIN auth' = DOMAIN UsedBy
      BY <2>3
    <2>6. QED
      BY <2>1, <2>2, <2>4, <2>5 DEF TypeSlave
  <1>7. QED
    BY <1>4, <1>5, <1>6 DEF e

\* A START has its job answer for the batch; any call but a STOP leaves it to the job
\* that did.
LEMMA RunCarried ==
  ASSUME TypeOK, Core, NEW t \in Tasks, pc[t] = "run", Carried(t), jobs' = jobs,
         NEW k, k = cur[t].id,
         Step(t).cmd = "START" => MayLeaveOn(k)',
         Step(t).cmd \notin {"START", "STOP"} =>
            \A i \in 1 .. Len(jobs) : MayLeaveOn(i) => MayLeaveOn(i)'
  PROVE  RunInv'
  <1>1. /\ Len(log) \in Nat /\ Len(log') = Len(log) + 1
        /\ \A i \in 1 .. Len(log) : log'[i] = log[i]
        /\ log'[Len(log) + 1] = [id |-> k, what |-> Step(t)]
    BY CarriedLog
  <1>2. CASE Step(t).cmd = "START"
    <2> DEFINE m == Len(log) + 1
    <2>1. m \in Starts'
      BY <1>1, <1>2 DEF Starts
    <2>2. \A n \in Starts' : n <= m
      BY <1>1 DEF Starts
    <2> HIDE DEF m
    <2>3. PICK q \in Starts' : q = m
      BY <2>1
    <2>4. log'[q].id = k
      BY <1>1, <2>3 DEF m
    <2>5. LastStart(q)'
      BY <2>1, <2>2, <2>3 DEF LastStart
    <2>6. MayLeaveOn(log[q].id)'
      BY <1>2, <2>4 DEF MayLeaveOn
    <2>7. QED
      BY <2>3, <2>5, <2>6 DEF RunInv
  <1>3. CASE Step(t).cmd = "STOP"
    BY <1>3 DEF Carried, Execute, RunInv
  <1>4. CASE Step(t).cmd \notin {"START", "STOP"}
    <2>1. running' = running
      BY <1>4 DEF Carried, Execute
    <2>2. Starts' = Starts
      <3>1. ASSUME NEW i \in 1 .. Len(log')
            PROVE  log'[i].what.cmd = "START" <=> i \in 1 .. Len(log) /\ log[i].what.cmd = "START"
        <4>1. i \in 1 .. Len(log) \/ i = Len(log) + 1
          BY <1>1
        <4>2. QED
          BY <1>1, <1>4, <4>1
      <3>2. \A i \in 1 .. Len(log) : i \in 1 .. Len(log')
        BY <1>1
      <3>3. QED
        BY <3>1, <3>2 DEF Starts
    <2>3. SUFFICES ASSUME running'
                   PROVE  (\E m \in Starts : LastStart(m) /\ MayLeaveOn(log[m].id))'
      BY DEF RunInv
    <2>4. PICK m \in Starts : LastStart(m) /\ MayLeaveOn(log[m].id)
      BY <2>1, <2>3 DEF Core, RunInv
    <2>5. m \in Starts' /\ LastStart(m)'
      BY <2>2, <2>4 DEF LastStart
    <2>6. m \in 1 .. Len(log)
      BY <2>4 DEF Starts
    <2>7. PICK i \in 1 .. Len(jobs) : i = log[m].id
      BY <2>6 DEF Core, LogInv
    <2>8. MayLeaveOn(i)' /\ log'[m].id = i
      BY <1>1, <1>4, <2>4, <2>6, <2>7
    <2>9. MayLeaveOn(log[m].id)'
      BY <2>8 DEF MayLeaveOn
    <2>10. QED
      BY <2>5, <2>9
  <1>5. QED
    BY <1>2, <1>3, <1>4
-------------------------------------------------------------------------------
(* A step of the job of the task that holds the mutex.                     *)

\* Finish, but for what it does to the boot test.
Ends(t, code) ==
    /\ lock' = Free
    /\ pc' = [pc EXCEPT ![t] = "idle"]
    /\ cur' = [cur EXCEPT ![t] = NoJob]
    /\ result' = IF cur[t].id = 0 THEN result ELSE [result EXCEPT ![cur[t].id] = code]
    /\ jobs' = jobs

\* The records a step leaves: the other tasks do not run.
LEMMA Others ==
  ASSUME Core, NEW t \in Tasks, pc[t] = "run"
  PROVE  lock = t /\ \A u \in Tasks \ {t} : pc[u] # "run"
  BY DEF Core, TaskInv

\* Going on to the next call keeps what the invariant says of the tasks.
LEMMA MovesOnKeeps ==
  ASSUME TypeOK, Core, NEW t \in Tasks, pc[t] = "run", MovesOn(t)
  PROVE  /\ TypeTasks' /\ TaskInv' /\ jobs' = jobs /\ result' = result /\ pc' = pc
         /\ cur' \in [Tasks -> [job : Jobs, id : Nat, step : Nat, try : Nat]]
         /\ cur'[t] = [job |-> cur[t].job, id |-> cur[t].id, step |-> cur[t].step + 1, try |-> 1]
         /\ \A u \in Tasks \ {t} : cur'[u] = cur[u]
  <1>1. /\ cur' = [cur EXCEPT ![t].step = cur[t].step + 1, ![t].try = 1]
        /\ lock' = lock /\ pc' = pc /\ jobs' = jobs /\ result' = result
    BY DEF MovesOn
  <1>2. cur \in [Tasks -> [job : Jobs, id : Nat, step : Nat, try : Nat]]
    BY DEF Core, ShapeInv
  <1>3. /\ cur'[t] = [job |-> cur[t].job, id |-> cur[t].id, step |-> cur[t].step + 1, try |-> 1]
        /\ \A u \in Tasks \ {t} : cur'[u] = cur[u]
        /\ cur' \in [Tasks -> [job : Jobs, id : Nat, step : Nat, try : Nat]]
    <2> DEFINE R == [job : Jobs, id : Nat, step : Nat, try : Nat]
               c == [cur EXCEPT ![t].step = cur[t].step + 1]
    <2>1. /\ c \in [Tasks -> R] /\ \A u \in Tasks \ {t} : c[u] = cur[u]
          /\ c[t].job = cur[t].job /\ c[t].id = cur[t].id /\ c[t].step = cur[t].step + 1
      BY <1>2
    <2>2. cur' = [c EXCEPT ![t].try = 1]
      BY <1>1
    <2> HIDE DEF c
    <2>3. /\ cur' \in [Tasks -> R] /\ \A u \in Tasks \ {t} : cur'[u] = c[u]
          /\ cur'[t].job = c[t].job /\ cur'[t].id = c[t].id /\ cur'[t].step = c[t].step
          /\ cur'[t].try = 1
      BY <2>1, <2>2
    <2>4. cur'[t] \in R
      BY <2>3
    <2>5. cur'[t] = [job |-> cur[t].job, id |-> cur[t].id, step |-> cur[t].step + 1, try |-> 1]
      BY <2>1, <2>3, <2>4
    <2>6. QED
      BY <2>1, <2>3, <2>5
  <1>4. TypeTasks'
    <2>1. /\ cur[t].job \in Jobs /\ Fits(cur[t].job.op, Script(cur[t].job))
          /\ cur[t].step \in 1 .. Len(Script(cur[t].job))
          /\ cur[t].step < Len(Script(cur[t].job))
      BY StepFacts DEF MovesOn
    <2>2. /\ cur[t].step + 1 \in 1 .. Len(Script(cur[t].job))
          /\ IsCall(Script(cur[t].job)[cur[t].step + 1])
      BY <2>1 DEF Fits
    <2>3. 1 \in 1 .. Script(cur[t].job)[cur[t].step + 1].tries
      BY <2>2 DEF IsCall
    <2>4. cur[t].id \in 0 .. Len(jobs)
      BY DEF Core, TypeTasks
    <2>5. ASSUME NEW u \in Tasks
          PROVE  /\ cur'[u].job \in Jobs /\ cur'[u].id \in 0 .. Len(jobs)
                 /\ cur'[u].step \in 1 .. Len(Script(cur'[u].job))
                 /\ cur'[u].try \in 1 .. Script(cur'[u].job)[cur'[u].step].tries
      <3>1. CASE u = t
        BY <1>3, <2>1, <2>2, <2>3, <2>4, <3>1
      <3>2. CASE u # t
        BY <1>3, <3>2 DEF Core, TypeTasks
      <3>3. QED
        BY <3>1, <3>2
    <2>6. QED
      BY <1>1, <2>5 DEF Core, TypeTasks
  <1>5. TaskInv'
    <2>1. \A u \in Tasks : /\ cur'[u].id = cur[u].id /\ cur'[u].job = cur[u].job
                           /\ pc[u] # "run" => cur'[u] = cur[u]
      BY <1>3
    <2>2. ASSUME NEW u \in Tasks
          PROVE  /\ pc'[u] = "run" <=> lock' = u
                 /\ pc'[u] # "run" => cur'[u].step = 1 /\ cur'[u].try = 1
                 /\ pc'[u] = "idle" => cur'[u].id = 0
                 /\ pc'[u] # "idle" /\ cur'[u].id = 0 => ReadsOnly(cur'[u].job)
                 /\ cur'[u].id # 0 => /\ cur'[u].job = jobs'[cur'[u].id]
                                      /\ result'[cur'[u].id] = "none"
      <3>1. /\ pc[u] = "run" <=> lock = u
            /\ pc[u] # "run" => cur[u].step = 1 /\ cur[u].try = 1
            /\ pc[u] = "idle" => cur[u].id = 0
            /\ pc[u] # "idle" /\ cur[u].id = 0 => ReadsOnly(cur[u].job)
            /\ cur[u].id # 0 => cur[u].job = jobs[cur[u].id] /\ result[cur[u].id] = "none"
        BY DEF Core, TaskInv
      <3>2. /\ cur'[u].id = cur[u].id /\ cur'[u].job = cur[u].job
            /\ pc[u] # "run" => cur'[u].step = cur[u].step /\ cur'[u].try = cur[u].try
        BY <2>1
      <3>3. pc'[u] = pc[u] /\ lock' = lock /\ jobs' = jobs /\ result' = result
        BY <1>1
      <3>4. QED
        BY <3>1, <3>2, <3>3
    <2>3. \A u, v \in Tasks : u # v /\ cur[u].id # 0 => cur[u].id # cur[v].id
      BY DEF Core, TaskInv
    <2>4. \A u, v \in Tasks : u # v /\ cur'[u].id # 0 => cur'[u].id # cur'[v].id
      BY <2>1, <2>3
    <2>5. QED
      BY <2>2, <2>4 DEF TaskInv
  <1>6. QED
    BY <1>1, <1>3, <1>4, <1>5

\* So does another try of the same call,
LEMMA TriesAgainKeeps ==
  ASSUME TypeOK, Core, NEW t \in Tasks, pc[t] = "run", TriesAgain(t)
  PROVE  /\ TypeTasks' /\ TaskInv' /\ jobs' = jobs /\ result' = result /\ pc' = pc
         /\ cur' \in [Tasks -> [job : Jobs, id : Nat, step : Nat, try : Nat]]
         /\ \A u \in Tasks : /\ cur'[u].job = cur[u].job /\ cur'[u].id = cur[u].id
                             /\ cur'[u].step = cur[u].step
  <1>1. /\ cur' = [cur EXCEPT ![t].try = cur[t].try + 1]
        /\ lock' = lock /\ pc' = pc /\ jobs' = jobs /\ result' = result
    BY DEF TriesAgain
  <1>2. cur \in [Tasks -> [job : Jobs, id : Nat, step : Nat, try : Nat]]
    BY DEF Core, ShapeInv
  <1>3. /\ cur'[t].job = cur[t].job /\ cur'[t].id = cur[t].id /\ cur'[t].step = cur[t].step
        /\ cur'[t].try = cur[t].try + 1
        /\ \A u \in Tasks \ {t} : cur'[u] = cur[u]
        /\ cur' \in [Tasks -> [job : Jobs, id : Nat, step : Nat, try : Nat]]
    BY <1>1, <1>2
  <1>4. cur'[t].try \in 1 .. Script(cur[t].job)[cur[t].step].tries
    <2>1. /\ cur[t].try \in 1 .. Step(t).tries /\ Step(t).tries \in 1 .. 3
          /\ cur[t].try < Step(t).tries
      BY StepFacts DEF TriesAgain, IsCall
    <2>2. QED
      BY <1>3, <2>1 DEF Step
  <1>5. TypeTasks'
    BY <1>1, <1>3, <1>4 DEF Core, TypeTasks
  <1>6. TaskInv'
    BY <1>1, <1>3 DEF Core, TaskInv
  <1>7. QED
    BY <1>1, <1>3, <1>5, <1>6

\* The record of a task that has no job.
LEMMA NoJobFacts ==
  /\ NoJob \in [job : Jobs, id : Nat, step : Nat, try : Nat] /\ NoJob.id = 0
  /\ NoJob.step = 1 /\ NoJob.try = 1 /\ NoJob.job \in Jobs
  /\ 1 \in 1 .. Len(Script(NoJob.job)) /\ 1 \in 1 .. Script(NoJob.job)[1].tries
  <1>1. Job("poll") \in Jobs /\ Script(Job("poll")) = <<ReadStep(1, TRUE)>>
    BY Readers DEF Script, Job
  <1>2. Len(<<ReadStep(1, TRUE)>>) = 1 /\ <<ReadStep(1, TRUE)>>[1].tries = 1
    BY DEF ReadStep
  <1>3. NoJob = [job |-> Job("poll"), id |-> 0, step |-> 1, try |-> 1]
    BY DEF NoJob
  <1>4. NoJob.job = Job("poll") /\ NoJob.id = 0 /\ NoJob.step = 1 /\ NoJob.try = 1
    BY <1>3
  <1>5. NoJob \in [job : Jobs, id : Nat, step : Nat, try : Nat]
    BY <1>1, <1>3
  <1>6. Len(Script(NoJob.job)) = 1 /\ Script(NoJob.job)[1].tries = 1
    BY <1>1, <1>2, <1>4, Zenon
  <1>7. QED
    BY <1>1, <1>4, <1>5, <1>6

\* and so does the end of a job, done or failed.
LEMMA EndsKeeps ==
  ASSUME TypeOK, Core, NEW t \in Tasks, pc[t] = "run", NEW code \in {"OK", "FAIL"}, Ends(t, code)
  PROVE  /\ TypeTasks' /\ TaskInv' /\ jobs' = jobs /\ Len(result') = Len(jobs)
         /\ cur' \in [Tasks -> [job : Jobs, id : Nat, step : Nat, try : Nat]]
         /\ result' \in Seq({"none", "OK", "FAIL", "LOST"})
         /\ \A u \in Tasks : pc'[u] # "run"
         /\ \A i \in 1 .. Len(jobs) :
              result'[i] = IF i = cur[t].id THEN code ELSE result[i]
  <1>1. /\ lock' = Free /\ pc' = [pc EXCEPT ![t] = "idle"] /\ cur' = [cur EXCEPT ![t] = NoJob]
        /\ jobs' = jobs
    BY DEF Ends
  <1>2. /\ cur'[t] = NoJob /\ \A u \in Tasks \ {t} : cur'[u] = cur[u]
        /\ pc'[t] = "idle" /\ \A u \in Tasks \ {t} : pc'[u] = pc[u]
        /\ pc' \in [Tasks -> {"idle", "lock", "run"}]
    BY <1>1 DEF Core, ShapeInv, TypeTasks
  <1>3. /\ NoJob \in [job : Jobs, id : Nat, step : Nat, try : Nat] /\ NoJob.id = 0
        /\ NoJob.step = 1 /\ NoJob.try = 1 /\ NoJob.job \in Jobs
        /\ 1 \in 1 .. Len(Script(NoJob.job)) /\ 1 \in 1 .. Script(NoJob.job)[1].tries
    BY NoJobFacts
  <1>4. cur' \in [Tasks -> [job : Jobs, id : Nat, step : Nat, try : Nat]]
    BY <1>1, <1>3 DEF Core, ShapeInv
  <1>5. \A u \in Tasks : pc'[u] # "run"
    BY <1>2, Others
  <1>6. /\ result' \in Seq({"none", "OK", "FAIL", "LOST"}) /\ Len(result') = Len(jobs)
        /\ \A i \in 1 .. Len(jobs) : result'[i] = IF i = cur[t].id THEN code ELSE result[i]
    <2>1. /\ result \in Seq({"none", "OK", "FAIL", "LOST"}) /\ Len(result) = Len(jobs)
          /\ cur[t].id \in 0 .. Len(jobs) /\ Len(jobs) \in Nat
      BY DEF Core, ShapeInv, TypeTasks
    <2>2. CASE cur[t].id = 0
      BY <2>1, <2>2 DEF Ends
    <2>3. CASE cur[t].id # 0
      <3>1. result' = [result EXCEPT ![cur[t].id] = code] /\ cur[t].id \in 1 .. Len(result)
        BY <2>1, <2>3 DEF Ends
      <3>2. QED
        BY <2>1, <3>1
    <2>4. QED
      BY <2>2, <2>3
  <1>7. TypeTasks'
    <2>1. ASSUME NEW u \in Tasks
          PROVE  /\ cur'[u].job \in Jobs /\ cur'[u].id \in 0 .. Len(jobs)
                 /\ cur'[u].step \in 1 .. Len(Script(cur'[u].job))
                 /\ cur'[u].try \in 1 .. Script(cur'[u].job)[cur'[u].step].tries
      <3>1. CASE u = t
        <4>1. Len(jobs) \in Nat
          BY DEF Core, ShapeInv
        <4>2. QED
          BY <1>2, <1>3, <3>1, <4>1
      <3>2. CASE u # t
        BY <1>2, <3>2 DEF Core, TypeTasks
      <3>3. QED
        BY <3>1, <3>2
    <2>2. QED
      BY <1>1, <1>2, <2>1 DEF TypeTasks
  <1>8. TaskInv'
    <2>1. \A u \in Tasks \ {t} : cur[u].id # 0 => cur[u].id # cur[t].id
      BY DEF Core, TaskInv
    <2>2. ASSUME NEW u \in Tasks
          PROVE  /\ pc'[u] = "run" <=> lock' = u
                 /\ pc'[u] # "run" => cur'[u].step = 1 /\ cur'[u].try = 1
                 /\ pc'[u] = "idle" => cur'[u].id = 0
                 /\ pc'[u] # "idle" /\ cur'[u].id = 0 => ReadsOnly(cur'[u].job)
                 /\ cur'[u].id # 0 => cur'[u].job = jobs[cur'[u].id] /\ result'[cur'[u].id] = "none"
      <3>1. lock' # u
        BY <1>1, ConstantsAssumption
      <3>2. CASE u = t
        BY <1>2, <1>3, <3>1, <3>2
      <3>3. CASE u # t
        <4>1. cur[u].id \in 0 .. Len(jobs) /\ Len(jobs) \in Nat
          BY DEF Core, TypeTasks, ShapeInv
        <4>2. cur[u].id # 0 => result'[cur[u].id] = result[cur[u].id]
          BY <1>6, <2>1, <3>3, <4>1
        <4>3. pc[u] # "run"
          BY <3>3, Others
        <4>4. QED
          BY <1>2, <3>1, <3>3, <4>2, <4>3 DEF Core, TaskInv
      <3>4. QED
        BY <3>2, <3>3
    <2>3. \A u, v \in Tasks : u # v /\ cur'[u].id # 0 => cur'[u].id # cur'[v].id
      BY <1>2, <1>3 DEF Core, TaskInv
    <2>4. QED
      BY <1>1, <2>2, <2>3 DEF TaskInv
  <1>9. QED
    BY <1>1, <1>4, <1>5, <1>6, <1>7, <1>8

\* How a step of a job leaves the tasks.
Goes(t) ==
    \/ MovesOn(t) \/ TriesAgain(t) \/ Ends(t, "FAIL")
    \/ Ends(t, "OK") /\ cur[t].step = Len(Script(cur[t].job))

\* The job that answers for the batch goes on doing so, short of its STOP: it does not
\* return ESP_OK before.
LEMMA MayKept ==
  ASSUME TypeOK, Core, NEW t \in Tasks, pc[t] = "run", Goes(t),
         MovesOn(t) => Step(t).cmd # "STOP",
         NEW i \in 1 .. Len(jobs), MayLeaveOn(i)
  PROVE  MayLeaveOn(i)'
  <1> DEFINE n == cur[t].step
             j == cur[t].job
  <1>1. /\ j \in Jobs /\ Fits(j.op, Script(j)) /\ n \in 1 .. Len(Script(j))
        /\ Len(Script(j)) \in Nat
        /\ Step(t) = Script(j)[n]
    BY StepFacts DEF Fits, Step
  <1>2. cur[t].id = i => j = jobs[i]
    <2>1. i # 0
      OBVIOUS
    <2>2. QED
      BY <2>1 DEF Core, TaskInv
  <1>3. jobs[i].op \in Passing /\ cur[t].id = i => /\ j.op \in Passing /\ StopAt(j) < Len(Script(j))
                                                   /\ Script(j)[StopAt(j)].cmd = "STOP"
    <2>1. Cmd("STOP").cmd = "STOP"
      BY CallFacts DEF Commands
    <2>2. CASE j.op = "send_all_commands"
      <3>1. Len(Script(j)) = 6 /\ Script(j)[3] = Cmd("STOP") /\ StopAt(j) = 3
        BY <1>1, <2>2 DEF Fits, StopAt
      <3>2. QED
        BY <2>1, <2>2, <3>1 DEF Passing
    <2>3. CASE j.op = "quick_test_flow"
      <3>1. Len(Script(j)) = 14 /\ Script(j)[8] = Cmd("STOP") /\ StopAt(j) = 8
        BY <1>1, <2>3 DEF Fits, StopAt
      <3>2. QED
        BY <2>1, <2>3, <3>1 DEF Passing
    <2>4. QED
      BY <1>2, <2>2, <2>3 DEF Passing
  <1>4. CASE MovesOn(t)
    <2>1. /\ jobs' = jobs /\ result' = result /\ pc' = pc
          /\ cur'[t] = [job |-> j, id |-> cur[t].id, step |-> n + 1, try |-> 1]
          /\ \A u \in Tasks \ {t} : cur'[u] = cur[u]
      BY <1>4, MovesOnKeeps
    <2>2. ASSUME jobs[i].op \in Passing, n <= StopAt(j), cur[t].id = i PROVE n + 1 <= StopAt(j)
      <3>1. n # StopAt(j)
        BY <1>1, <1>3, <1>4, <2>2
      <3>2. QED
        BY <1>1, <2>2, <3>1 DEF StopAt
    <2>3. CASE jobs[i].op = "start_batch"
      BY <2>1, <2>3 DEF MayLeaveOn
    <2>4. CASE jobs[i].op # "start_batch"
      <3>1. /\ jobs[i].op \in Passing /\ result[i] # "OK"
            /\ \A u \in Tasks : pc[u] = "run" /\ cur[u].id = i => cur[u].step <= StopAt(cur[u].job)
        BY <2>4 DEF MayLeaveOn
      <3>2. ASSUME NEW u \in Tasks, pc'[u] = "run", cur'[u].id = i
            PROVE  cur'[u].step <= StopAt(cur'[u].job)
        <4>1. CASE u = t
          BY <2>1, <2>2, <3>1, <3>2, <4>1
        <4>2. CASE u # t
          BY <2>1, <3>1, <3>2, <4>2
        <4>3. QED
          BY <4>1, <4>2
      <3>3. QED
        BY <2>1, <3>1, <3>2 DEF MayLeaveOn
    <2>5. QED
      BY <2>3, <2>4
  <1>5. CASE TriesAgain(t)
    <2>1. /\ jobs' = jobs /\ result' = result /\ pc' = pc
          /\ \A u \in Tasks : /\ cur'[u].job = cur[u].job /\ cur'[u].id = cur[u].id
                              /\ cur'[u].step = cur[u].step
      BY <1>5, TriesAgainKeeps
    <2>2. QED
      BY <2>1 DEF MayLeaveOn
  <1>6. ASSUME NEW code \in {"OK", "FAIL"}, Ends(t, code), code = "OK" => n = Len(Script(j))
        PROVE  MayLeaveOn(i)'
    <2>1. /\ jobs' = jobs /\ \A u \in Tasks : pc'[u] # "run"
          /\ result'[i] = IF i = cur[t].id THEN code ELSE result[i]
      BY <1>6, EndsKeeps
    <2>2. CASE jobs[i].op = "start_batch"
      BY <2>1, <2>2 DEF MayLeaveOn
    <2>3. CASE jobs[i].op # "start_batch"
      <3>1. /\ jobs[i].op \in Passing /\ result[i] # "OK"
            /\ \A u \in Tasks : pc[u] = "run" /\ cur[u].id = i => cur[u].step <= StopAt(cur[u].job)
        BY <2>3 DEF MayLeaveOn
      <3>2. i = cur[t].id => code = "FAIL"
        <4>1. i = cur[t].id => n <= StopAt(j) /\ StopAt(j) < Len(Script(j)) /\ StopAt(j) \in Nat
          BY <1>3, <3>1 DEF StopAt
        <4>2. QED
          BY <1>1, <1>6, <4>1
      <3>3. QED
        BY <2>1, <3>1, <3>2 DEF MayLeaveOn
    <2>4. QED
      BY <2>2, <2>3
  <1>7. QED
    BY <1>4, <1>5, <1>6 DEF Goes

\* The job that makes a START answers for the batch.
LEMMA StartMay ==
  ASSUME TypeOK, Core, NEW t \in Tasks, pc[t] = "run", Goes(t), Step(t).cmd = "START",
         NEW k \in 1 .. Len(jobs), k = cur[t].id
  PROVE  MayLeaveOn(k)'
  <1> DEFINE n == cur[t].step
             j == cur[t].job
  <1>1. /\ j \in Jobs /\ Fits(j.op, Script(j)) /\ n \in 1 .. Len(Script(j))
        /\ Len(Script(j)) \in Nat
        /\ Step(t) = Script(j)[n]
    BY StepFacts DEF Fits, Step
  <1>2. j = jobs[k] /\ result[k] = "none" /\ \A u \in Tasks \ {t} : cur[u].id # k
    <2>1. k # 0
      OBVIOUS
    <2>2. QED
      BY <2>1 DEF Core, TaskInv
  <1>3. \/ jobs[k].op = "start_batch"
        \/ /\ jobs[k].op \in Passing /\ n < StopAt(j)
           /\ StopAt(j) < Len(Script(j)) /\ StopAt(j) \in Nat
    <2>1. \/ j.op = "start_batch" \/ (j.op = "send_all_commands" /\ n < 3)
          \/ (j.op = "quick_test_flow" /\ n < 8)
      BY <1>1 DEF Fits
    <2>2. /\ j.op = "send_all_commands" => Len(Script(j)) = 6 /\ StopAt(j) = 3
          /\ j.op = "quick_test_flow" => Len(Script(j)) = 14 /\ StopAt(j) = 8
      BY <1>1 DEF Fits, StopAt
    <2>3. j = jobs[k]
      BY <1>2
    <2>4. CASE j.op = "start_batch"
      BY <2>3, <2>4
    <2>5. CASE j.op = "send_all_commands" /\ n < 3
      <3>1. jobs[k].op \in Passing
        BY <2>3, <2>5 DEF Passing
      <3>2. n < StopAt(j) /\ StopAt(j) < Len(Script(j)) /\ StopAt(j) \in Nat
        <4>1. StopAt(j) = 3 /\ Len(Script(j)) = 6
          BY <2>2, <2>5
        <4>2. QED
          BY <1>1, <2>5, <4>1
      <3>3. QED
        BY <3>1, <3>2
    <2>6. CASE j.op = "quick_test_flow" /\ n < 8
      <3>1. jobs[k].op \in Passing
        BY <2>3, <2>6 DEF Passing
      <3>2. n < StopAt(j) /\ StopAt(j) < Len(Script(j)) /\ StopAt(j) \in Nat
        <4>1. StopAt(j) = 8 /\ Len(Script(j)) = 14
          BY <2>2, <2>6
        <4>2. QED
          BY <1>1, <2>6, <4>1
      <3>3. QED
        BY <3>1, <3>2
    <2>7. QED
      BY <2>1, <2>4, <2>5, <2>6
  <1>4. MayLeaveOn(k)
    <2>1. \A u \in Tasks : cur[u].id = k => u = t
      BY <1>2
    <2>2. n \in Nat
      BY <1>1
    <2>3. QED
      BY <1>2, <1>3, <2>1, <2>2 DEF MayLeaveOn
  <1>5. Step(t).cmd # "STOP"
    OBVIOUS
  <1>6. QED
    BY <1>4, <1>5, MayKept

\* The registers a running authorization has written, a call later.
LEMMA ArgsMoveOn ==
  ASSUME TypeOK, Core, NEW t \in Tasks, pc[t] = "run", MovesOn(t),
         (Untouched /\ Step(t).kind = "read") \/ Carried(t)
  PROVE  ArgInv'
  <1> DEFINE p == cur[t].job.arg
             n == cur[t].step
             s == Step(t)
  <1>1. /\ pc' = pc
        /\ cur'[t] = [job |-> cur[t].job, id |-> cur[t].id, step |-> n + 1, try |-> 1]
    BY MovesOnKeeps
  <1>2. \A u \in Tasks \ {t} : pc'[u] # "run"
    BY <1>1, Others
  <1>3. n \in Nat /\ n < Len(Script(cur[t].job))
    BY StepFacts DEF MovesOn
  <1>4. ASSUME cur[t].job.op = "authorize"
        PROVE  /\ n + 1 > 1 => regs'["recipe"] = p.recipe
               /\ n + 1 > 2 => regs'["additive"] = p.additive
               /\ n + 1 > 3 => regs'["side"] = p.side
    <2>1. /\ n \in {1, 2, 3} /\ s.kind # "read"
          /\ n = 1 => s.vals = [recipe |-> p.recipe]
          /\ n = 2 => s.vals = [additive |-> p.additive]
          /\ n = 3 => s.vals = [side |-> p.side]
      <3>1. /\ n \in {1, 2, 3, 4} /\ Len(Script(cur[t].job)) = 4 /\ s.kind # "read"
            /\ n = 1 => s.vals = [recipe |-> p.recipe]
            /\ n = 2 => s.vals = [additive |-> p.additive]
            /\ n = 3 => s.vals = [side |-> p.side]
        BY <1>4, AuthorizeStep, Zenon
      <3>2. QED
        BY <1>3, <3>1
    <2>2. \A r \in {"recipe", "additive", "side"} :
            regs'[r] = IF r \in DOMAIN s.vals THEN s.vals[r] ELSE regs[r]
      BY <2>1, RegsAfter DEF Core, Registers, UsedBy
    <2>3. /\ n > 1 => regs["recipe"] = p.recipe
          /\ n > 2 => regs["additive"] = p.additive
      BY <1>4 DEF Core, ArgInv
    <2> HIDE DEF s, p, n
    <2>4. CASE n = 1
      BY <2>1, <2>2, <2>4
    <2>5. CASE n = 2
      BY <2>1, <2>2, <2>3, <2>5
    <2>6. CASE n = 3
      BY <2>1, <2>2, <2>3, <2>6
    <2>7. QED
      BY <2>1, <2>4, <2>5, <2>6
  <1>5. ASSUME cur[t].job.op = "auth_batch"
        PROVE  /\ n + 1 > 1 => /\ regs'["preset_hi"] = p.preset \div WordSize
                               /\ regs'["preset_lo"] = p.preset % WordSize
               /\ n + 1 > 2 => regs'["components"] = p.components
    <2>1. /\ n \in {1, 2} /\ s.kind # "read"
          /\ n = 1 => s.vals = [preset_hi |-> p.preset \div WordSize,
                                preset_lo |-> p.preset % WordSize]
          /\ n = 2 => s.vals = [components |-> p.components]
      <3>1. /\ n \in {1, 2, 3} /\ Len(Script(cur[t].job)) = 3 /\ s.kind # "read"
            /\ n = 1 => s.vals = Split(p.preset)
            /\ n = 2 => s.vals = [components |-> p.components]
        BY <1>5, AuthBatchStep, Zenon
      <3>2. QED
        BY <1>3, <3>1 DEF Split
    <2>2. \A r \in {"preset_hi", "preset_lo", "components"} :
            regs'[r] = IF r \in DOMAIN s.vals THEN s.vals[r] ELSE regs[r]
      BY <2>1, RegsAfter DEF Core, Registers, UsedBy
    <2>3. n > 1 => /\ regs["preset_hi"] = p.preset \div WordSize
                   /\ regs["preset_lo"] = p.preset % WordSize
      BY <1>5 DEF Core, ArgInv
    <2> HIDE DEF s, p, n
    <2>4. CASE n = 1
      BY <2>1, <2>2, <2>4
    <2>5. CASE n = 2
      BY <2>1, <2>2, <2>3, <2>5
    <2>6. QED
      BY <2>1, <2>4, <2>5
  <1>6. QED
    BY <1>1, <1>2, <1>4, <1>5 DEF ArgInv

\* The registers a running authorization has written, tried again.
LEMMA ArgsStay ==
  ASSUME ArgInv, regs' = regs, pc' = pc,
         \A u \in Tasks : cur'[u].job = cur[u].job /\ cur'[u].step = cur[u].step
  PROVE  ArgInv'
  <1>1. ASSUME NEW u \in Tasks, pc'[u] = "run"
        PROVE  LET p == cur'[u].job.arg  n == cur'[u].step IN
               /\ cur'[u].job.op = "authorize" =>
                    /\ n > 1 => regs'["recipe"] = p.recipe
                    /\ n > 2 => regs'["additive"] = p.additive
                    /\ n > 3 => regs'["side"] = p.side
               /\ cur'[u].job.op = "auth_batch" =>
                    /\ n > 1 => /\ regs'["preset_hi"] = p.preset \div WordSize
                                /\ regs'["preset_lo"] = p.preset % WordSize
                    /\ n > 2 => regs'["components"] = p.components
    <2>1. pc[u] = "run" /\ cur'[u].job = cur[u].job /\ cur'[u].step = cur[u].step
      BY <1>1
    <2>2. QED
      BY <2>1 DEF ArgInv
  <1>2. QED
    BY <1>1 DEF ArgInv

\* What the dispenser is left with after a step, if the jobs are the same.
LEMMA SlaveKept ==
  ASSUME TypeOK, Core, NEW t \in Tasks, pc[t] = "run", Goes(t), jobs' = jobs,
         Untouched \/ Carried(t),
         MovesOn(t) => (Untouched /\ Step(t).kind = "read") \/ Carried(t)
  PROVE  /\ log' \in Seq([id : Nat, what : Made])
         /\ TypeSlave' /\ LogInv' /\ ActsAsAsked' /\ RunInv'
  <1>1. CASE ~Carried(t)
    <2>1. log' = log /\ regs' = regs /\ running' = running /\ auth' = auth
      BY <1>1 DEF Untouched, slaveVars
    <2>2. log' \in Seq([id : Nat, what : Made]) /\ TypeSlave' /\ LogInv'
      BY <2>1 DEF Core, ShapeInv, TypeSlave, LogInv
    <2>3. ActsAsAsked'
      BY <2>1, ActsKept DEF Core, JobsKept, ShapeInv
    <2>4. MovesOn(t) => Step(t).cmd # "STOP"
      <3>1. ASSUME MovesOn(t) PROVE Step(t).kind # "cmd"
        BY <1>1, <3>1
      <3>2. QED
        BY <3>1, StepFacts DEF IsCall, Commands
    <2>5. \A i \in 1 .. Len(jobs) : MayLeaveOn(i) => MayLeaveOn(i)'
      BY <2>4, MayKept
    <2>6. RunInv'
      BY <2>1, <2>5, RunKept DEF Core
    <2>7. QED
      BY <2>2, <2>3, <2>6
  <1>2. CASE Carried(t)
    <2>1. log' \in Seq([id : Nat, what : Made]) /\ TypeSlave' /\ LogInv'
      BY <1>2, CarriedLog
    <2>2. ActsAsAsked'
      BY <1>2, CarriedActs
    <2>3. PICK k \in 1 .. Len(jobs) : k = cur[t].id
      BY <1>2, WriterIsNumbered DEF Core, Carried
    <2>4. Step(t).cmd = "START" => MayLeaveOn(k)'
      BY <2>3, StartMay
    <2>5. Step(t).cmd \notin {"START", "STOP"} =>
             \A i \in 1 .. Len(jobs) : MayLeaveOn(i) => MayLeaveOn(i)'
      BY MayKept
    <2>6. RunInv'
      BY <1>2, <2>3, <2>4, <2>5, RunCarried
    <2>7. QED
      BY <2>1, <2>2, <2>6
  <1>3. QED
    BY <1>1, <1>2

\* A job's step, done or failed, keeps what the invariant says of jobs and dispenser.
LEMMA TransactKeeps ==
  ASSUME TypeOK, Core, NEW t \in Tasks, Transact(t)
  PROVE  Core' /\ jobs' = jobs
  <1>1. pc[t] = "run"
    BY Outcomes
  <1>2. CASE MovesOn(t) /\ ((Untouched /\ Step(t).kind = "read") \/ Carried(t))
    <2>1. /\ TypeTasks' /\ TaskInv' /\ jobs' = jobs /\ result' = result
          /\ cur' \in [Tasks -> [job : Jobs, id : Nat, step : Nat, try : Nat]]
      BY <1>1, <1>2, MovesOnKeeps
    <2>2. ArgInv'
      BY <1>1, <1>2, ArgsMoveOn
    <2>3. /\ log' \in Seq([id : Nat, what : Made])
          /\ TypeSlave' /\ LogInv' /\ ActsAsAsked' /\ RunInv'
      BY <1>1, <1>2, <2>1, SlaveKept DEF Goes
    <2>4. ShapeInv' /\ Len(result') = Len(jobs')
      BY <2>1, <2>3 DEF Core, ShapeInv
    <2>5. QED
      BY <2>1, <2>2, <2>3, <2>4 DEF Core
  <1>3. CASE TriesAgain(t) /\ Untouched
    <2>1. /\ TypeTasks' /\ TaskInv' /\ jobs' = jobs /\ result' = result /\ pc' = pc
          /\ cur' \in [Tasks -> [job : Jobs, id : Nat, step : Nat, try : Nat]]
          /\ \A u \in Tasks : /\ cur'[u].job = cur[u].job /\ cur'[u].id = cur[u].id
                              /\ cur'[u].step = cur[u].step
      BY <1>1, <1>3, TriesAgainKeeps
    <2>2. ArgInv'
      <3>1. regs' = regs
        BY <1>3 DEF Untouched, slaveVars
      <3>2. QED
        BY <2>1, <3>1, ArgsStay DEF Core
    <2>3. ~MovesOn(t)
      <3>1. cur'[t].step = cur[t].step /\ cur[t].step \in Nat
        BY <2>1 DEF Core, ShapeInv
      <3>2. ASSUME MovesOn(t) PROVE cur'[t].step = cur[t].step + 1
        <4>1. cur'[t] = [job |-> cur[t].job, id |-> cur[t].id, step |-> cur[t].step + 1, try |-> 1]
          BY <1>1, <3>2, MovesOnKeeps
        <4>2. QED
          BY <4>1
      <3>3. QED
        BY <3>1, <3>2
    <2>4. /\ log' \in Seq([id : Nat, what : Made])
          /\ TypeSlave' /\ LogInv' /\ ActsAsAsked' /\ RunInv'
      BY <1>1, <1>3, <2>1, <2>3, SlaveKept DEF Goes
    <2>5. ShapeInv' /\ Len(result') = Len(jobs')
      BY <2>1, <2>4 DEF Core, ShapeInv
    <2>6. QED
      BY <2>1, <2>2, <2>4, <2>5 DEF Core
  <1>4. ASSUME NEW code \in {"OK", "FAIL"}, Ends(t, code),
               code = "OK" => cur[t].step = Len(Script(cur[t].job)),
               Untouched \/ Carried(t)
        PROVE  Core' /\ jobs' = jobs
    <2>1. /\ TypeTasks' /\ TaskInv' /\ jobs' = jobs /\ Len(result') = Len(jobs)
          /\ cur' \in [Tasks -> [job : Jobs, id : Nat, step : Nat, try : Nat]]
          /\ result' \in Seq({"none", "OK", "FAIL", "LOST"})
          /\ \A u \in Tasks : pc'[u] # "run"
      BY <1>1, <1>4, EndsKeeps
    <2>2. ArgInv'
      BY <2>1 DEF ArgInv
    <2>3. Goes(t)
      BY <1>4 DEF Goes
    <2>4. ~MovesOn(t)
      BY <1>1, <2>1 DEF MovesOn
    <2>5. /\ log' \in Seq([id : Nat, what : Made])
          /\ TypeSlave' /\ LogInv' /\ ActsAsAsked' /\ RunInv'
      BY <1>1, <1>4, <2>1, <2>3, <2>4, SlaveKept
    <2>6. ShapeInv' /\ Len(result') = Len(jobs')
      BY <2>1, <2>5 DEF Core, ShapeInv
    <2>7. QED
      BY <2>1, <2>2, <2>5, <2>6 DEF Core
  <1>5. \A code : Finish(t, code) => Ends(t, code)
    BY DEF Finish, Ends
  <1>6. QED
    BY <1>2, <1>3, <1>4, <1>5, Outcomes

\* A reset in the middle of anything: no job runs any more, and none returned ESP_OK
\* that had not.
LEMMA ResetKeeps ==
  ASSUME TypeOK, Core, Reset
  PROVE  Core' /\ jobs' = jobs
  <1>1. /\ lock' = Free /\ pc' = [t \in Tasks |-> "idle"] /\ cur' = [t \in Tasks |-> NoJob]
        /\ result' = [i \in DOMAIN result |-> IF result[i] = "none" THEN "LOST" ELSE result[i]]
        /\ jobs' = jobs
    BY DEF Reset
  <1>2. /\ result' \in Seq({"none", "OK", "FAIL", "LOST"}) /\ Len(result') = Len(jobs)
        /\ \A i \in 1 .. Len(jobs) : result'[i] = IF result[i] = "none" THEN "LOST" ELSE result[i]
    <2>1. result \in Seq({"none", "OK", "FAIL", "LOST"}) /\ Len(result) = Len(jobs)
      BY DEF Core, ShapeInv
    <2>2. DOMAIN result = 1 .. Len(jobs) /\ Len(jobs) \in Nat
      BY <2>1
    <2>3. \A i \in 1 .. Len(jobs) : result[i] \in {"none", "OK", "FAIL", "LOST"}
      BY <2>1
    <2>4. result' = [i \in 1 .. Len(jobs) |-> IF result[i] = "none" THEN "LOST" ELSE result[i]]
      BY <1>1, <2>2
    <2>5. result' \in [1 .. Len(jobs) -> {"none", "OK", "FAIL", "LOST"}]
      BY <2>3, <2>4
    <2>6. QED
      BY <2>2, <2>4, <2>5
  <1>3. /\ NoJob \in [job : Jobs, id : Nat, step : Nat, try : Nat] /\ NoJob.id = 0
        /\ NoJob.step = 1 /\ NoJob.try = 1 /\ NoJob.job \in Jobs
        /\ 1 \in 1 .. Len(Script(NoJob.job)) /\ 1 \in 1 .. Script(NoJob.job)[1].tries
    BY NoJobFacts
  <1>4. TypeTasks' /\ cur' \in [Tasks -> [job : Jobs, id : Nat, step : Nat, try : Nat]]
    <2>1. Len(jobs) \in Nat
      BY DEF Core, ShapeInv
    <2>2. QED
      BY <1>1, <1>3, <2>1 DEF TypeTasks
  <1>5. TaskInv' /\ ArgInv'
    BY <1>1, <1>3, ConstantsAssumption DEF TaskInv, ArgInv
  <1>6. \A i \in 1 .. Len(jobs) : MayLeaveOn(i) => MayLeaveOn(i)'
    BY <1>1, <1>2 DEF MayLeaveOn
  <1>7. /\ log' \in Seq([id : Nat, what : Made])
        /\ TypeSlave' /\ LogInv' /\ ActsAsAsked' /\ RunInv'
    <2>1. CASE UNCHANGED <<slaveVars, log>>
      <3>1. log' = log /\ regs' = regs /\ running' = running /\ auth' = auth
        BY <2>1 DEF slaveVars
      <3>2. log' \in Seq([id : Nat, what : Made]) /\ TypeSlave' /\ LogInv'
        BY <1>1, <3>1 DEF Core, ShapeInv, TypeSlave, LogInv
      <3>3. ActsAsAsked'
        BY <1>1, <3>1, ActsKept DEF Core, JobsKept, ShapeInv
      <3>4. RunInv'
        BY <1>6, <3>1, RunKept DEF Core
      <3>5. QED
        BY <3>2, <3>3, <3>4
    <2>2. ASSUME NEW t \in Tasks, pc[t] = "run", Carried(t)
          PROVE  /\ log' \in Seq([id : Nat, what : Made])
                 /\ TypeSlave' /\ LogInv' /\ ActsAsAsked' /\ RunInv'
      <3>1. log' \in Seq([id : Nat, what : Made]) /\ TypeSlave' /\ LogInv'
        BY <1>1, <2>2, CarriedLog
      <3>2. ActsAsAsked'
        BY <1>1, <2>2, CarriedActs
      <3>3. PICK k \in 1 .. Len(jobs) : k = cur[t].id
        BY <2>2, WriterIsNumbered DEF Core, Carried
      <3>4. Step(t).cmd = "START" => MayLeaveOn(k)'
        <4>1. ASSUME Step(t).cmd = "START" PROVE jobs[k].op \in Passing \union {"start_batch"}
          <5>1. cur[t].job = jobs[k]
            BY <2>2, <3>3, WriterIsNumbered DEF Core, Carried
          <5>2. QED
            BY <4>1, <5>1, StepFacts DEF Fits, Step, Passing
        <4>2. result'[k] # "OK"
          <5>1. result[k] = "none"
            BY <2>2, <3>3, WriterIsNumbered DEF Core, Carried
          <5>2. QED
            BY <1>2, <5>1
        <4>3. QED
          BY <1>1, <4>1, <4>2 DEF MayLeaveOn
      <3>5. RunInv'
        BY <1>1, <1>6, <2>2, <3>3, <3>4, RunCarried
      <3>6. QED
        BY <3>1, <3>2, <3>5
    <2>3. \/ UNCHANGED <<slaveVars, log>>
          \/ \E t \in Tasks : pc[t] = "run" /\ Carried(t)
      BY DEF Reset, Carried
    <2>4. QED
      BY <2>1, <2>2, <2>3
  <1>8. ShapeInv' /\ Len(result') = Len(jobs')
    BY <1>1, <1>2, <1>4, <1>7 DEF Core, ShapeInv
  <1>9. QED
    BY <1>1, <1>4, <1>5, <1>7, <1>8 DEF Core
-------------------------------------------------------------------------------
(* The boot test, and the bounds.                                          *)

\* Nobody starts to poll while the boot test stands still.
LEMMA BootKept ==
  ASSUME Boot, UNCHANGED bootVars, resets' = resets, methods' \in 0 .. MaxMethods,
         Len(jobs) \in Nat, Len(jobs') \in Nat,
         Len(jobs') <= Len(jobs) + (methods' - methods),
         \A u \in Tasks : pc'[u] # "idle" /\ cur'[u].job.op = "poll" =>
                             pc[u] # "idle" /\ cur[u].job.op = "poll"
  PROVE  Boot'
  <1>1. polls' = polls /\ phase' = phase /\ done' = done
    BY DEF bootVars
  <1>2. TypeBoot'
    BY <1>1 DEF Boot, TypeBoot
  <1>3. PollInv'
    BY <1>1 DEF Boot, PollInv
  <1>4. CountInv'
    <2>1. methods \in Nat /\ resets \in Nat /\ methods' \in Nat
      BY ConstantsAssumption DEF Boot, TypeBoot
    <2>2. Len(jobs) <= methods + resets + IF phase \in {"poll", "flow"} THEN 0 ELSE 1
      BY DEF Boot, CountInv
    <2>3. Len(jobs') <= methods' + resets' + IF phase' \in {"poll", "flow"} THEN 0 ELSE 1
      BY <1>1, <2>1, <2>2
    <2>4. QED
      BY <2>3 DEF CountInv
  <1>5. QED
    BY <1>2, <1>3, <1>4 DEF Boot

\* The jobs stand still when nothing they are made of changes.
LEMMA CoreKept ==
  ASSUME Core, UNCHANGED <<taskVars, slaveVars, histVars>>
  PROVE  Core'
  <1>1. /\ lock' = lock /\ pc' = pc /\ cur' = cur /\ regs' = regs /\ running' = running
        /\ auth' = auth /\ jobs' = jobs /\ log' = log /\ result' = result
    BY DEF taskVars, slaveVars, histVars
  <1>2. TypeTasks' /\ TypeSlave' /\ ShapeInv' /\ LogInv' /\ Len(result') = Len(jobs')
    BY <1>1 DEF Core, TypeTasks, TypeSlave, ShapeInv, LogInv
  <1>3. TaskInv'
    BY <1>1 DEF Core, TaskInv
  <1>4. ArgInv'
    BY <1>1, ArgsStay DEF Core
  <1>5. ActsAsAsked'
    BY <1>1, ActsKept DEF Core, JobsKept, ShapeInv
  <1>6. RunInv'
    <2>1. \A i \in 1 .. Len(jobs) : MayLeaveOn(i) => MayLeaveOn(i)'
      BY <1>1 DEF MayLeaveOn
    <2>2. QED
      BY <1>1, <2>1, RunKept DEF Core
  <1>7. QED
    BY <1>2, <1>3, <1>4, <1>5, <1>6 DEF Core

\* What a step of a job does to the boot test.
LEMMA TransactBoot ==
  ASSUME TypeOK, Core, Boot, NEW t \in Tasks, Transact(t)
  PROVE  Boot'
  <1>1. pc[t] = "run" /\ methods' = methods /\ resets' = resets
    BY Outcomes DEF bounds
  <1>2. jobs' = jobs /\ Len(jobs) \in Nat
    BY TransactKeeps DEF Core, ShapeInv
  <1>3. methods' \in 0 .. MaxMethods /\ methods \in Nat
    BY <1>1, ConstantsAssumption DEF Boot, TypeBoot
  <1>4. CASE MovesOn(t)
    <2>1. pc' = pc /\ \A u \in Tasks : cur'[u].job = cur[u].job
      <3>1. /\ pc' = pc /\ \A u \in Tasks \ {t} : cur'[u] = cur[u]
            /\ cur'[t] = [job |-> cur[t].job, id |-> cur[t].id, step |-> cur[t].step + 1, try |-> 1]
        BY <1>1, <1>4, MovesOnKeeps
      <3>2. cur'[t].job = cur[t].job
        BY <3>1
      <3>3. QED
        BY <3>1, <3>2
    <2>2. UNCHANGED bootVars
      BY <1>4 DEF MovesOn
    <2>3. QED
      BY <1>1, <1>2, <1>3, <2>1, <2>2, BootKept
  <1>5. CASE TriesAgain(t)
    <2>1. pc' = pc /\ \A u \in Tasks : cur'[u].job = cur[u].job
      BY <1>1, <1>5, TriesAgainKeeps
    <2>2. UNCHANGED bootVars
      BY <1>5 DEF TriesAgain
    <2>3. QED
      BY <1>1, <1>2, <1>3, <2>1, <2>2, BootKept
  <1>6. ASSUME NEW code, Finish(t, code) PROVE Boot'
    <2>1. /\ pc'[t] = "idle"
          /\ \A u \in Tasks \ {t} : pc'[u] = pc[u] /\ cur'[u] = cur[u]
      BY <1>6 DEF Finish, Core, TypeTasks, ShapeInv
    <2>2. CASE cur[t].job.op # "poll"
      <3>1. UNCHANGED bootVars
        BY <1>6, <2>2 DEF Finish
      <3>2. QED
        BY <1>1, <1>2, <1>3, <2>1, <3>1, BootKept
    <2>3. CASE cur[t].job.op = "poll"
      <3>1. t = "quick_test" /\ phase = "poll"
        BY <1>1, <2>3 DEF Boot, PollInv
      <3>2. /\ polls' \in 0 .. MaxPolls /\ phase' \in {"poll", "flow"} /\ done' = done
        BY <1>6, <2>3, <3>1, ConstantsAssumption DEF Finish, AfterPoll, Boot, TypeBoot
      <3>3. TypeBoot'
        BY <1>1, <3>2 DEF Boot, TypeBoot
      <3>4. PollInv'
        BY <2>1, <3>1 DEF Boot, PollInv
      <3>5. CountInv'
        BY <1>1, <1>2, <3>1, <3>2 DEF Boot, CountInv
      <3>6. QED
        BY <3>3, <3>4, <3>5 DEF Boot
    <2>4. QED
      BY <2>2, <2>3
  <1>7. QED
    BY <1>4, <1>5, <1>6, Outcomes

\* The quick test polls and runs, the telemetry reads, and the cloud calls methods.
LEMMA AskersKeep ==
  ASSUME TypeOK, Core, Boot, QuickPoll \/ QuickRun \/ TelemetryRound \/ DirectMethod
  PROVE  Core' /\ Boot'
  <1>1. methods \in Nat /\ resets \in Nat /\ polls \in Nat /\ Len(jobs) \in Nat
        /\ methods \in 0 .. MaxMethods /\ MaxMethods \in Nat /\ MaxPolls \in Nat
    BY ConstantsAssumption DEF Boot, TypeBoot, Core, ShapeInv
  <1>2. CASE QuickPoll
    <2> DEFINE t == "quick_test"
    <2>1. /\ Ask(t, Job("poll")) /\ t \in Tasks /\ Job("poll") \in Jobs
          /\ ReadsOnly(Job("poll")) /\ phase = "poll" /\ phase' = phase /\ done' = done
          /\ methods' = methods /\ resets' = resets /\ polls' = polls + 1 /\ polls < MaxPolls
      BY <1>2, Readers DEF QuickPoll, Tasks, bounds
    <2> HIDE DEF t
    <2>2. /\ Core' /\ jobs' = jobs /\ pc' = [pc EXCEPT ![t] = "lock"]
          /\ \A u \in Tasks \ {t} : cur'[u] = cur[u]
      BY <2>1, AskKeeps
    <2>3. TypeBoot'
      BY <1>1, <2>1 DEF Boot, TypeBoot
    <2>4. PollInv'
      <3>1. \A u \in Tasks \ {t} : pc'[u] = pc[u]
        BY <2>2 DEF Core, TypeTasks
      <3>2. QED
        BY <2>1, <2>2, <3>1 DEF Boot, PollInv, t
    <2>5. CountInv'
      BY <2>1, <2>2 DEF Boot, CountInv
    <2>6. QED
      BY <2>2, <2>3, <2>4, <2>5 DEF Boot
  <1>3. CASE QuickRun
    <2> DEFINE t == "quick_test"
    <2>1. /\ Ask(t, Job("quick_test_flow")) /\ t \in Tasks /\ Job("quick_test_flow") \in Jobs
          /\ phase = "flow" /\ phase' = "ending" /\ polls' = polls /\ done' = done
          /\ methods' = methods /\ resets' = resets
      BY <1>3, Readers DEF QuickRun, Tasks, bounds
    <2> HIDE DEF t
    <2>2. /\ Core' /\ Len(jobs') \in {Len(jobs), Len(jobs) + 1} /\ pc' = [pc EXCEPT ![t] = "lock"]
          /\ cur'[t].job = Job("quick_test_flow") /\ \A u \in Tasks \ {t} : cur'[u] = cur[u]
      BY <2>1, AskKeeps
    <2>3. TypeBoot'
      BY <2>1 DEF Boot, TypeBoot
    <2>4. PollInv'
      <3>1. \A u \in Tasks \ {t} : pc'[u] = pc[u]
        BY <2>2 DEF Core, TypeTasks
      <3>2. cur'[t].job.op # "poll"
        BY <2>2 DEF Job
      <3>3. QED
        BY <2>1, <2>2, <3>1, <3>2 DEF Boot, PollInv
    <2>5. CountInv'
      <3>1. Len(jobs) <= methods + resets
        BY <1>1, <2>1 DEF Boot, CountInv
      <3>2. Len(jobs') <= methods' + resets' + 1
        BY <1>1, <2>1, <2>2, <3>1
      <3>3. QED
        BY <2>1, <3>2 DEF CountInv
    <2>6. QED
      BY <2>2, <2>3, <2>4, <2>5 DEF Boot
  <1>4. ASSUME NEW t \in Tasks, NEW j \in Jobs, j.op # "poll", Ask(t, j),
               UNCHANGED bootVars, resets' = resets,
               \/ ReadsOnly(j) /\ methods' = methods
               \/ methods < MaxMethods /\ methods' = methods + 1
        PROVE  Core' /\ Boot'
    <2>1. /\ Core' /\ Len(jobs') \in {Len(jobs), Len(jobs) + 1} /\ pc' = [pc EXCEPT ![t] = "lock"]
          /\ cur'[t].job = j /\ \A u \in Tasks \ {t} : cur'[u] = cur[u]
          /\ ReadsOnly(j) => jobs' = jobs
      BY <1>4, AskKeeps
    <2>2. /\ methods' \in 0 .. MaxMethods /\ Len(jobs') \in Nat
          /\ Len(jobs') <= Len(jobs) + (methods' - methods)
      <3>1. CASE ReadsOnly(j) /\ methods' = methods
        BY <1>1, <2>1, <3>1
      <3>2. CASE methods < MaxMethods /\ methods' = methods + 1
        <4>1. methods' \in 0 .. MaxMethods /\ methods' - methods = 1
          BY <1>1, <3>2
        <4>2. Len(jobs') = Len(jobs) \/ Len(jobs') = Len(jobs) + 1
          BY <2>1
        <4>3. Len(jobs) \in Nat
          BY <1>1
        <4> DEFINE k == Len(jobs)
                   n == Len(jobs')
        <4>4. k \in Nat /\ (n = k \/ n = k + 1)
          BY <4>2, <4>3
        <4> HIDE DEF k, n
        <4>5. n \in Nat /\ n <= k + (methods' - methods)
          BY <4>1, <4>4
        <4>6. QED
          BY <4>1, <4>5 DEF k, n
      <3>3. QED
        BY <1>4, <3>1, <3>2
    <2>3. \A u \in Tasks : pc'[u] # "idle" /\ cur'[u].job.op = "poll" =>
                             pc[u] # "idle" /\ cur[u].job.op = "poll"
      BY <1>4, <2>1 DEF Core, TypeTasks
    <2>4. QED
      BY <1>1, <1>4, <2>1, <2>2, <2>3, BootKept
  <1>5. CASE TelemetryRound
    <2>1. /\ Ask("telemetry", Job("read_status")) /\ "telemetry" \in Tasks
          /\ Job("read_status") \in Jobs /\ ReadsOnly(Job("read_status"))
          /\ UNCHANGED bootVars /\ methods' = methods /\ resets' = resets
      BY <1>5, Readers DEF TelemetryRound, Tasks, bounds
    <2>2. Job("read_status").op # "poll"
      BY DEF Job
    <2>3. QED
      BY <1>4, <2>1, <2>2
  <1>6. CASE DirectMethod
    <2>1. PICK j \in Methods :
            /\ Ask("method", j)
            /\ IF ReadsOnly(j) THEN UNCHANGED methods
               ELSE methods < MaxMethods /\ methods' = methods + 1
      BY <1>6 DEF DirectMethod
    <2>2. j \in Jobs /\ j # Job("poll") /\ "method" \in Tasks
      BY ConstantsAssumption DEF Tasks
    <2>3. j.op # "poll"
      BY <2>2, JobKinds
    <2>4. UNCHANGED bootVars /\ resets' = resets
      BY <1>6 DEF DirectMethod
    <2>5. QED
      BY <1>4, <2>1, <2>2, <2>3, <2>4
  <1>7. QED
    BY <1>2, <1>3, <1>5, <1>6
-------------------------------------------------------------------------------
(* The theorems.                                                           *)

\* At boot nothing was asked for, and nothing runs.
LEMMA InitHolds == Init => IInv
  <1> SUFFICES ASSUME Init PROVE Core /\ Boot
    BY Parts
  <1>1. /\ NoJob \in [job : Jobs, id : Nat, step : Nat, try : Nat] /\ NoJob.id = 0
        /\ NoJob.step = 1 /\ NoJob.try = 1 /\ NoJob.job \in Jobs
        /\ 1 \in 1 .. Len(Script(NoJob.job)) /\ 1 \in 1 .. Script(NoJob.job)[1].tries
    BY NoJobFacts
  <1>2. /\ jobs = <<>> /\ log = <<>> /\ result = <<>>
        /\ Len(jobs) = 0 /\ Len(log) = 0 /\ Len(result) = 0
        /\ pc = [t \in Tasks |-> "idle"] /\ cur = [t \in Tasks |-> NoJob] /\ lock = Free
    BY DEF Init
  <1>3. TypeTasks
    BY <1>1, <1>2 DEF TypeTasks
  <1>4. TypeSlave
    <2>1. \A r \in Registers : Initial \in Word
      BY ConstantsAssumption DEF Initial, Word
    <2>2. \A c \in DOMAIN UsedBy : UsedBy[c] \subseteq Registers
      BY DEF UsedBy, Registers
    <2>3. /\ regs = [r \in Registers |-> Initial] /\ running = FALSE
          /\ auth = [c \in DOMAIN UsedBy |-> [id |-> 0, with |-> [r \in UsedBy[c] |-> Initial]]]
      BY DEF Init
    <2>4. regs \in [Registers -> Word]
      BY <2>1, <2>3
    <2>5. ASSUME NEW c \in DOMAIN UsedBy
          PROVE  auth[c].id \in 0 .. Len(jobs) /\ auth[c].with \in [UsedBy[c] -> Word]
      BY <1>2, <2>1, <2>2, <2>3
    <2>6. DOMAIN auth = DOMAIN UsedBy
      BY <2>3
    <2>7. QED
      BY <2>3, <2>4, <2>5, <2>6 DEF TypeSlave
  <1>5. ShapeInv /\ TaskInv /\ ArgInv /\ LogInv
    BY <1>1, <1>2, ConstantsAssumption DEF ShapeInv, TaskInv, ArgInv, LogInv
  <1>6. ActsAsAsked
    <2>1. auth.AUTHORIZE.id = 0 /\ auth.AUTH_BATCH.id = 0
      BY DEF Init, UsedBy
    <2>2. QED
      BY <2>1 DEF ActsAsAsked
  <1>7. RunInv
    BY DEF Init, RunInv
  <1>8. Boot
    <2>1. /\ polls = 0 /\ phase = "poll" /\ done = FALSE /\ methods = 0 /\ resets = 0
          /\ MaxPolls \in Nat /\ MaxMethods \in Nat /\ MaxResets \in Nat
      BY ConstantsAssumption DEF Init
    <2>2. TypeBoot
      <3>1. done \in BOOLEAN
        BY <2>1
      <3>2. /\ polls \in 0 .. MaxPolls /\ methods \in 0 .. MaxMethods
            /\ resets \in 0 .. MaxResets
        BY <2>1
      <3>3. phase \in {"poll", "flow", "ending", "done"}
        BY <2>1
      <3>4. QED
        BY <3>1, <3>2, <3>3 DEF TypeBoot
    <2>3. PollInv
      BY <1>2 DEF PollInv
    <2>4. CountInv
      BY <1>2, <2>1 DEF CountInv
    <2>5. QED
      BY <2>2, <2>3, <2>4 DEF Boot
  <1>9. QED
    BY <1>2, <1>3, <1>4, <1>5, <1>6, <1>7, <1>8 DEF Core

\* Every action keeps the invariant.
LEMMA NextKeeps == IInv /\ [Next]_vars => IInv'
  <1>1. (Core /\ Boot => IInv)'
    BY Parts, PTL
  <1> SUFFICES ASSUME IInv, [Next]_vars PROVE Core' /\ Boot'
    BY <1>1
  <1>2. TypeOK /\ Core /\ Boot
    BY Parts DEF IInv
  <1>3. Len(jobs) \in Nat /\ methods \in Nat /\ resets \in Nat /\ methods \in 0 .. MaxMethods
    BY <1>2, ConstantsAssumption DEF Core, ShapeInv, Boot, TypeBoot
  <1>4. CASE QuickPoll \/ QuickRun \/ TelemetryRound \/ DirectMethod
    BY <1>2, <1>4, AskersKeep
  <1>5. CASE QuickDone
    <2>1. Core' /\ jobs' = jobs /\ pc' = pc /\ cur' = cur
      BY <1>2, <1>5, CoreKept DEF QuickDone, taskVars, histVars
    <2>2. /\ polls' = polls /\ phase = "ending" /\ phase' = "done" /\ done' = TRUE
          /\ methods' = methods /\ resets' = resets
      BY <1>5 DEF QuickDone, bounds
    <2>3. Boot'
      BY <1>2, <2>1, <2>2 DEF Boot, TypeBoot, PollInv, CountInv
    <2>4. QED
      BY <2>1, <2>3
  <1>6. ASSUME NEW t \in Tasks, TakeLock(t) PROVE Core' /\ Boot'
    <2>1. Core'
      BY <1>2, <1>6, TakeLockKeeps
    <2>2. /\ pc[t] = "lock" /\ pc' = [pc EXCEPT ![t] = "run"] /\ cur' = cur /\ jobs' = jobs
          /\ UNCHANGED bootVars /\ methods' = methods /\ resets' = resets
      BY <1>6 DEF TakeLock, histVars, bounds
    <2>3. \A u \in Tasks : pc'[u] # "idle" => pc[u] # "idle"
      BY <1>2, <2>2 DEF Core, TypeTasks
    <2>4. Boot'
      BY <1>2, <1>3, <2>2, <2>3, BootKept
    <2>5. QED
      BY <2>1, <2>4
  <1>7. ASSUME NEW t \in Tasks, Transact(t) PROVE Core' /\ Boot'
    BY <1>2, <1>7, TransactKeeps, TransactBoot
  <1>8. CASE Reset
    <2>1. Core' /\ jobs' = jobs
      BY <1>2, <1>8, ResetKeeps
    <2>2. /\ resets < MaxResets /\ resets' = resets + 1 /\ methods' = methods
          /\ polls' = 0 /\ phase' = "poll" /\ done' = FALSE
          /\ \A t \in Tasks : pc'[t] = "idle"
      BY <1>8 DEF Reset
    <2>3. TypeBoot' /\ PollInv'
      <3>1. /\ methods \in 0 .. MaxMethods /\ resets \in 0 .. MaxResets
            /\ MaxPolls \in Nat /\ MaxResets \in Nat
        BY <1>2, ConstantsAssumption DEF Boot, TypeBoot
      <3>2. TypeBoot'
        <4>1. done' \in BOOLEAN
          BY <2>2
        <4>2. /\ polls' \in 0 .. MaxPolls /\ methods' \in 0 .. MaxMethods
              /\ resets' \in 0 .. MaxResets
          BY <2>2, <3>1
        <4>3. phase' \in {"poll", "flow", "ending", "done"}
          BY <2>2
        <4>4. QED
          BY <4>1, <4>2, <4>3 DEF TypeBoot
      <3>3. PollInv'
        BY <2>2 DEF PollInv
      <3>4. QED
        BY <3>2, <3>3
    <2>4. CountInv'
      BY <1>2, <1>3, <2>1, <2>2 DEF Boot, CountInv
    <2>5. QED
      BY <2>1, <2>3, <2>4 DEF Boot
  <1>9. CASE UNCHANGED vars
    <2>1. /\ UNCHANGED <<taskVars, slaveVars, histVars>> /\ UNCHANGED bootVars
          /\ methods' = methods /\ resets' = resets
      BY <1>9 DEF vars, bounds
    <2>2. pc' = pc /\ cur' = cur /\ jobs' = jobs
      BY <2>1 DEF taskVars, histVars
    <2>3. QED
      BY <1>2, <1>3, <2>1, <2>2, CoreKept, BootKept
  <1>10. QED
    BY <1>4, <1>5, <1>6, <1>7, <1>8, <1>9 DEF Next

\* The invariant holds in every behaviour.
THEOREM Invariance == Spec => []IInv
  BY InitHolds, NextKeeps, PTL DEF Spec

\* Every variable has its type: a task's call is one of its job, the registers hold
\* 16-bit words, and there are no more jobs than were asked for.
THEOREM TypeCorrect == Spec => []TypeOK
  <1>1. IInv => TypeOK
    BY DEF IInv
  <1>2. QED
    BY <1>1, Invariance, PTL

\* smartload_authorize and smartload_auth_batch: when the dispenser carries out their
\* command, its parameter registers hold what that very call was given, whatever failed
\* before, whoever else writes, and wherever the device was reset.
THEOREM ActsAsAskedHolds == Spec => []ActsAsAsked
  <1>1. IInv => ActsAsAsked
    BY DEF IInv
  <1>2. QED
    BY <1>1, Invariance, PTL

\* The last START in the log, as the model looks it up.
LEMMA StarterIs ==
  ASSUME NEW m \in Starts, LastStart(m)
  PROVE  Starter = log[m].id
  <1>1. Starts # {} /\ \A i \in Starts : i \in Int
    BY DEF Starts
  <1>2. Max(Starts) = m
    <2>1. \A x \in Starts : (\A y \in Starts : x >= y) <=> x = m
      BY <1>1 DEF LastStart
    <2>2. QED
      BY <2>1 DEF Max
  <1>3. SelectLastInSeq(log, LAMBDA e : e.what.cmd = "START") = m
    BY <1>1, <1>2 DEF SelectLastInSeq, Starts
  <1>4. QED
    BY <1>3 DEF Starter

\* When the mutex is free and a batch is on, the job that started it last was to leave it
\* on, or did not return ESP_OK.
THEOREM RunningExplainedHolds == Spec => []RunningExplained
  <1>1. IInv => RunningExplained
    <2>1. SUFFICES ASSUME IInv, lock = Free, running
                   PROVE  jobs[Starter].op = "start_batch" \/ result[Starter] # "OK"
      BY DEF RunningExplained
    <2>2. PICK m \in Starts : LastStart(m) /\ MayLeaveOn(log[m].id)
      BY <2>1 DEF IInv, RunInv
    <2>3. Starter = log[m].id
      BY <2>2, StarterIs
    <2>4. QED
      BY <2>2, <2>3 DEF MayLeaveOn
  <1>2. QED
    BY <1>1, Invariance, PTL
-------------------------------------------------------------------------------
(* How many writes a job has made, call by call.                           *)

\* The writes a job has made before its call n.
Before(j, n) ==
    IF j.op = "quick_test_flow" THEN <<0, 0, 0, 0, 0, 1, 2, 2, 3, 3, 4, 5, 6, 6>>[n] ELSE n - 1

\* And those it has made after it.
After(j, n) == IF n = Len(Script(j)) THEN Len(Writes(j)) ELSE Before(j, n + 1)

\* A read adds nothing to the b writes before it, and any other call is the next of them.
IsNext(s, w, b, a) ==
    /\ b \in 0 .. Len(w) /\ a \in 0 .. Len(w)
    /\ IF s.kind = "read" THEN a = b ELSE a = b + 1 /\ w[a] = s

\* The six commands of the quick test, by the places they have in its script.
LEMMA QuickCounts ==
  ASSUME NEW j, j.op = "quick_test_flow", NEW n \in 1 .. 14
  PROVE  IsNext(QuickFlow[n], AllCommands, Before(j, n), IF n = 14 THEN 6 ELSE Before(j, n + 1))
  <1>1. /\ Len(AllCommands) = 6
        /\ AllCommands[1] = Cmd("AUTHORIZE") /\ AllCommands[2] = Cmd("START")
        /\ AllCommands[3] = Cmd("STOP") /\ AllCommands[4] = Cmd("END")
        /\ AllCommands[5] = Cmd("CLEAR_STATUS") /\ AllCommands[6] = Cmd("CLEAR_ALARMS")
    BY DEF AllCommands
  <1>2. \A m \in 1 .. 14 : Before(j, m) = <<0, 0, 0, 0, 0, 1, 2, 2, 3, 3, 4, 5, 6, 6>>[m]
    BY DEF Before
  <1>3. CASE n \in {5, 6, 8, 10, 11, 12}
    <2>1. /\ n = 5 => Before(j, n) = 0 /\ Before(j, n + 1) = 1
          /\ n = 6 => Before(j, n) = 1 /\ Before(j, n + 1) = 2
          /\ n = 8 => Before(j, n) = 2 /\ Before(j, n + 1) = 3
          /\ n = 10 => Before(j, n) = 3 /\ Before(j, n + 1) = 4
          /\ n = 11 => Before(j, n) = 4 /\ Before(j, n + 1) = 5
          /\ n = 12 => Before(j, n) = 5 /\ Before(j, n + 1) = 6
      BY <1>2
    <2>2. QuickFlow[n] = AllCommands[Before(j, n) + 1]
      BY <1>1, <1>3, <2>1, QuickFlowCalls
    <2>3. \A c : Cmd(c).kind = "cmd"
      BY DEF Cmd
    <2>4. QuickFlow[n].kind = "cmd"
      BY <1>3, <2>3, QuickFlowCalls
    <2>5. Before(j, n) \in 0 .. 5 /\ Before(j, n + 1) = Before(j, n) + 1 /\ n # 14
      BY <1>3, <2>1
    <2>6. QED
      BY <1>1, <2>2, <2>4, <2>5 DEF IsNext
  <1>4. CASE n \in (1 .. 14) \ {5, 6, 8, 10, 11, 12}
    <2>1. n \in {1, 2, 3, 4, 7, 9, 13, 14}
      BY <1>4
    <2>2. /\ Before(j, n) \in 0 .. 6
          /\ n # 14 => Before(j, n + 1) = Before(j, n)
          /\ n = 14 => Before(j, n) = 6
      BY <1>2, <2>1
    <2>3. QuickFlow[n].kind = "read"
      BY <1>4, Reading, QuickFlowCalls
    <2>4. QED
      BY <1>1, <2>2, <2>3 DEF IsNext
  <1>5. QED
    BY <1>3, <1>4

\* Every other job that writes makes no read.
LEMMA WritersWrite ==
  ASSUME NEW j \in Jobs, ~ReadsOnly(j), j.op # "quick_test_flow"
  PROVE  \A n \in 1 .. Len(Script(j)) : Script(j)[n].kind # "read"
  <1>1. j.op # "poll" /\ j.op # "read_status"
    BY JobKinds, Readers
  <1>2. \A v : Put(v).kind # "read"
    BY DEF Put
  <1>3. \A c : Cmd(c).kind # "read"
    BY DEF Cmd
  <1>4. CASE j.op = "authorize"
    <2> DEFINE p == j.arg
    <2>1. Script(j) = Authorize(p)
      BY <1>4, ScriptCalls
    <2> HIDE DEF p
    <2>2. /\ Len(Authorize(p)) = 4
          /\ Authorize(p)[1] = Put([recipe |-> p.recipe])
          /\ Authorize(p)[2] = Put([additive |-> p.additive])
          /\ Authorize(p)[3] = Put([side |-> p.side]) /\ Authorize(p)[4] = Cmd("AUTHORIZE")
      BY AuthorizeCalls
    <2>3. \A n \in 1 .. 4 : n \in {1, 2, 3, 4}
      OBVIOUS
    <2>4. \A n \in {1, 2, 3, 4} : Authorize(p)[n].kind # "read"
      BY <1>2, <1>3, <2>2
    <2>5. QED
      BY <2>1, <2>2, <2>3, <2>4
  <1>5. CASE j.op = "auth_batch"
    <2> DEFINE p == j.arg
    <2>1. Script(j) = AuthBatch(p)
      BY <1>5, ScriptCalls
    <2> HIDE DEF p
    <2>2. /\ Len(AuthBatch(p)) = 3
          /\ AuthBatch(p)[1] = Put(Split(p.preset))
          /\ AuthBatch(p)[2] = Put([components |-> p.components])
          /\ AuthBatch(p)[3] = Cmd("AUTH_BATCH")
      BY AuthBatchCalls
    <2>3. \A n \in 1 .. 3 : n \in {1, 2, 3}
      OBVIOUS
    <2>4. \A n \in {1, 2, 3} : AuthBatch(p)[n].kind # "read"
      BY <1>2, <1>3, <2>2
    <2>5. QED
      BY <2>1, <2>2, <2>3, <2>4
  <1>6. CASE j.op = "send_all_commands"
    <2>1. Script(j) = AllCommands
      BY <1>6 DEF Script
    <2>2. Len(AllCommands) = 6 /\ \A n \in 1 .. 6 : AllCommands[n].kind = "cmd"
      BY DEF AllCommands, Cmd
    <2>3. QED
      BY <2>1, <2>2
  <1>7. CASE j.op \in DOMAIN CommandOf
    <2>1. Script(j) = <<Cmd(CommandOf[j.op])>>
      BY <1>7 DEF Script, CommandOf
    <2>2. \A n \in 1 .. Len(Script(j)) : Script(j)[n] = Cmd(CommandOf[j.op])
      BY <2>1
    <2>3. QED
      BY <1>3, <2>2
  <1>8. QED
    BY <1>1, <1>4, <1>5, <1>6, <1>7, JobKinds DEF CommandOf

\* A job that writes goes through its writes, from none to all, in order.
LEMMA Counts ==
  ASSUME NEW j \in Jobs, ~ReadsOnly(j), NEW n \in 1 .. Len(Script(j))
  PROVE  /\ Len(Writes(j)) \in Nat /\ Before(j, 1) = 0
         /\ IsNext(Script(j)[n], Writes(j), Before(j, n), After(j, n))
         /\ \A m \in 1 .. Len(Writes(j)) : Writes(j)[m] \in Made
  <1>1. Len(Script(j)) \in 1 .. 14
    BY ScriptCalls DEF Fits
  <1>2. CASE j.op = "quick_test_flow"
    <2>1. Script(j) = QuickFlow /\ Writes(j) = AllCommands
      BY <1>2 DEF Script, Writes
    <2>2. Len(QuickFlow) = 14 /\ Len(AllCommands) = 6
      BY QuickFlowCalls DEF AllCommands
    <2>3. Before(j, 1) = 0
      BY <1>2 DEF Before
    <2>4. n \in 1 .. 14
      BY <2>1, <2>2
    <2>5. IsNext(QuickFlow[n], AllCommands, Before(j, n), IF n = 14 THEN 6 ELSE Before(j, n + 1))
      BY <1>2, <2>4, QuickCounts
    <2>6. (IF n = 14 THEN 6 ELSE Before(j, n + 1)) = After(j, n)
      BY <2>1, <2>2 DEF After
    <2>7. \A m \in 1 .. 6 : AllCommands[m] \in Made
      <3>1. Job("send_all_commands") \in Jobs
        BY DEF Jobs
      <3>2. Script(Job("send_all_commands")) = AllCommands
        BY DEF Script, Job
      <3>3. \A k \in Jobs : \A m \in 1 .. Len(Script(k)) : Script(k)[m] \in Made
        BY DEF Made
      <3>4. QED
        BY <2>2, <3>1, <3>2, <3>3
    <2>8. QED
      BY <2>1, <2>2, <2>3, <2>5, <2>6, <2>7
  <1>3. CASE j.op # "quick_test_flow"
    <2>1. Writes(j) = Script(j)
      BY <1>3 DEF Writes
    <2>2. Script(j)[n].kind # "read"
      BY <1>3, WritersWrite
    <2>3. \A m : Before(j, m) = m - 1
      BY <1>3 DEF Before
    <2>4. After(j, n) = n
      <3>1. CASE n = Len(Script(j))
        BY <2>1, <3>1 DEF After
      <3>2. CASE n # Len(Script(j))
        <4>1. After(j, n) = Before(j, n + 1)
          BY <3>2 DEF After
        <4>2. Before(j, n + 1) = (n + 1) - 1
          BY <2>3
        <4>3. QED
          BY <1>1, <4>1, <4>2
      <3>3. QED
        BY <3>1, <3>2
    <2>5. Before(j, n) = n - 1 /\ Before(j, 1) = 0
      BY <1>1, <2>3
    <2>6. IsNext(Script(j)[n], Writes(j), Before(j, n), After(j, n))
      BY <1>1, <2>1, <2>2, <2>4, <2>5 DEF IsNext
    <2>7. \A m \in 1 .. Len(Script(j)) : Script(j)[m] \in Made
      BY DEF Made
    <2>8. QED
      BY <1>1, <2>1, <2>5, <2>6, <2>7
  <1>4. QED
    BY <1>2, <1>3

-------------------------------------------------------------------------------
(* The writes of the job that runs, at the end of the log.                 *)

\* A job that writes is running; how many writes it has made; how many came before it.
Writer == lock # Free /\ cur[lock].id # 0
Open == IF Writer THEN Before(cur[lock].job, cur[lock].step) ELSE 0
Cut == Len(log) - Open

\* What comes after the first k elements of q are the first c writes of w, job i's list.
IsBlock(q, k, i, w, c) ==
    /\ k \in Nat /\ c \in 0 .. Len(w) /\ Len(q) = k + c
    /\ \A m \in 1 .. c : q[k + m] = [id |-> i, what |-> w[m]]

\* The jobs that are numbered write, and the dispenser carried out the writes of jobs that
\* have returned, and then the first ones of the job that runs.
BlockInv ==
    /\ \A i \in 1 .. Len(jobs) : ~ReadsOnly(jobs[i])
    /\ Cut \in Nat
    /\ \A m \in 1 .. Cut : result[log[m].id] # "none"
    /\ Writer => IsBlock(log, Cut, cur[lock].id, Writes(cur[lock].job), Open)

\* The last of the entries that satisfy a test when these come first.
LEMMA LastOf ==
  ASSUME NEW q, NEW r, NEW k \in Nat, Len(q) \in Nat, k <= Len(q),
         \A m \in 1 .. k : r[q[m].id] # "none",
         \A m \in k + 1 .. Len(q) : r[q[m].id] = "none"
  PROVE  SelectLastInSeq(q, LAMBDA e : r[e.id] # "none") = k
  <1> DEFINE I == {m \in 1 .. Len(q) : r[q[m].id] # "none"}
  <1>1. SelectLastInSeq(q, LAMBDA e : r[e.id] # "none") = IF I # {} THEN Max(I) ELSE 0
    BY DEF SelectLastInSeq
  <1>2. I = 1 .. k
    <2>1. ASSUME NEW m \in 1 .. Len(q), m \notin 1 .. k PROVE m \in k + 1 .. Len(q)
      BY <2>1
    <2>2. ASSUME NEW m \in 1 .. k PROVE m \in 1 .. Len(q)
      OBVIOUS
    <2>3. QED
      BY <2>1, <2>2
  <1> HIDE DEF I
  <1>3. CASE k = 0
    BY <1>1, <1>2, <1>3
  <1>4. CASE k # 0
    <2>1. k \in 1 .. k /\ \A x \in 1 .. k : (\A y \in 1 .. k : x >= y) <=> x = k
      BY <1>4
    <2>2. Max(1 .. k) = k
      BY <2>1 DEF Max
    <2>3. QED
      BY <1>1, <1>2, <2>1, <2>2
  <1>5. QED
    BY <1>3, <1>4

\* A task that runs a job that writes, as the invariant knows it.
LEMMA Begun ==
  ASSUME TypeOK, Core, BlockInv, NEW t \in Tasks, pc[t] = "run", cur[t].id # 0
  PROVE  /\ lock = t /\ Writer
         /\ cur[t].id \in 1 .. Len(jobs) /\ cur[t].job = jobs[cur[t].id]
         /\ cur[t].job \in Jobs /\ ~ReadsOnly(cur[t].job)
         /\ cur[t].step \in 1 .. Len(Script(cur[t].job)) /\ Len(Script(cur[t].job)) \in Nat
         /\ result[cur[t].id] = "none"
         /\ Open = Before(cur[t].job, cur[t].step)
         /\ IsBlock(log, Cut, cur[t].id, Writes(cur[t].job), Open)
  <1>1. lock = t
    BY Others
  <1>2. Writer
    BY <1>1, ConstantsAssumption DEF Writer
  <1>3. Len(jobs) \in Nat /\ cur[t].id \in 0 .. Len(jobs)
    BY DEF Core, ShapeInv, TypeOK
  <1>4. cur[t].id \in 1 .. Len(jobs) /\ cur[t].job = jobs[cur[t].id] /\ result[cur[t].id] = "none"
    BY <1>3 DEF Core, TaskInv
  <1>5. ~ReadsOnly(cur[t].job)
    BY <1>4 DEF BlockInv
  <1>6. Open = Before(cur[t].job, cur[t].step)
    BY <1>1, <1>2 DEF Open
  <1>7. IsBlock(log, Cut, cur[t].id, Writes(cur[t].job), Open)
    BY <1>1, <1>2 DEF BlockInv
  <1>8. /\ cur[t].job \in Jobs /\ cur[t].step \in 1 .. Len(Script(cur[t].job))
        /\ Len(Script(cur[t].job)) \in Nat
    BY StepFacts DEF Fits
  <1>9. QED
    BY <1>1, <1>2, <1>4, <1>5, <1>6, <1>7, <1>8

\* The mapped log ends where the block of the running job begins.
LEMMA CommittedIs ==
  ASSUME TypeOK, Core, BlockInv
  PROVE  Committed = SubSeq(log, 1, Cut) /\ Cut \in 0 .. Len(log) /\ Len(log) \in Nat
  <1>1. Len(log) \in Nat /\ Cut \in Nat /\ \A m \in 1 .. Cut : result[log[m].id] # "none"
    BY DEF Core, ShapeInv, BlockInv
  <1>2. Cut <= Len(log) /\ \A m \in Cut + 1 .. Len(log) : result[log[m].id] = "none"
    <2>1. CASE Writer
      <3> DEFINE t == lock
                 w == Writes(cur[t].job)
      <3>1. t \in Tasks /\ pc[t] = "run" /\ cur[t].id # 0
        BY <2>1 DEF Writer, TypeOK, Core, TaskInv
      <3>2. IsBlock(log, Cut, cur[t].id, w, Open) /\ result[cur[t].id] = "none"
        <4> HIDE DEF t
        <4>1. QED
          BY <3>1, Begun
      <3> HIDE DEF t, w
      <3>3. /\ Len(log) = Cut + Open /\ Open \in 0 .. Len(w)
            /\ \A m \in 1 .. Open : log[Cut + m] = [id |-> cur[t].id, what |-> w[m]]
        BY <3>2 DEF IsBlock
      <3>4. ASSUME NEW m \in Cut + 1 .. Len(log) PROVE result[log[m].id] = "none"
        <4>1. m - Cut \in 1 .. Open /\ Cut + (m - Cut) = m
          BY <1>1, <3>3
        <4>2. log[m] = [id |-> cur[t].id, what |-> w[m - Cut]]
          BY <3>3, <4>1
        <4>3. QED
          BY <3>2, <4>2
      <3>5. QED
        BY <1>1, <3>3, <3>4
    <2>2. CASE ~Writer
      <3>1. Cut = Len(log)
        BY <1>1, <2>2 DEF Cut, Open
      <3>2. QED
        BY <1>1, <3>1
    <2>3. QED
      BY <2>1, <2>2
  <1>3. SelectLastInSeq(log, LAMBDA e : result[e.id] # "none") = Cut
    <2> DEFINE q == log
               r == result
               k == Cut
    <2>1. /\ k \in Nat /\ Len(q) \in Nat /\ k <= Len(q)
          /\ \A m \in 1 .. k : r[q[m].id] # "none"
          /\ \A m \in k + 1 .. Len(q) : r[q[m].id] = "none"
      BY <1>1, <1>2
    <2> HIDE DEF q, r, k
    <2>2. SelectLastInSeq(q, LAMBDA e : r[e.id] # "none") = k
      BY <2>1, LastOf
    <2>3. QED
      BY <2>2 DEF q, r, k
  <1>4. Committed = SubSeq(log, 1, Cut)
    BY <1>3 DEF Committed
  <1>5. Cut \in 0 .. Len(log)
    BY <1>1, <1>2
  <1>6. QED
    BY <1>1, <1>4, <1>5

\* The same of the next state.
LEMMA CommittedIsNext ==
  (TypeOK /\ Core /\ BlockInv
     => Committed = SubSeq(log, 1, Cut) /\ Cut \in 0 .. Len(log) /\ Len(log) \in Nat)'
  <1>1. TypeOK /\ Core /\ BlockInv
          => Committed = SubSeq(log, 1, Cut) /\ Cut \in 0 .. Len(log) /\ Len(log) \in Nat
    BY CommittedIs
  <1>2. QED
    BY <1>1, PTL

\* The beginning of a list.
LEMMA Beginning ==
  ASSUME NEW S, NEW q \in Seq(S), NEW k \in 0 .. Len(q)
  PROVE  /\ SubSeq(q, 1, k) \in Seq(S) /\ Len(SubSeq(q, 1, k)) = k
         /\ \A m \in 1 .. k : SubSeq(q, 1, k)[m] = q[m]
         /\ k = Len(q) => SubSeq(q, 1, k) = q
  <1>1. Len(q) \in Nat /\ \A m \in 1 .. Len(q) : q[m] \in S
    BY LenProperties
  <1>2. k \in Int /\ 1 \in Int /\ \A m \in 1 .. k : q[m] \in S
    BY <1>1
  <1>3. /\ SubSeq(q, 1, k) \in Seq(S)
        /\ Len(SubSeq(q, 1, k)) = IF 1 <= k THEN k - 1 + 1 ELSE 0
        /\ \A m \in 1 .. k - 1 + 1 : SubSeq(q, 1, k)[m] = q[1 + m - 1]
    BY <1>2, SubSeqProperties
  <1> DEFINE x == SubSeq(q, 1, k)
  <1>4. x \in Seq(S) /\ Len(x) = k /\ \A m \in 1 .. k : x[m] = q[m]
    <2>1. k - 1 + 1 = k /\ \A m \in 1 .. k : 1 + m - 1 = m
      BY <1>1
    <2> HIDE DEF x
    <2>2. x \in Seq(S) /\ Len(x) = IF 1 <= k THEN k - 1 + 1 ELSE 0
      BY <1>3 DEF x
    <2>3. \A m \in 1 .. k - 1 + 1 : x[m] = q[1 + m - 1]
      BY <1>3 DEF x
    <2>4. Len(x) = k
      BY <1>1, <2>2
    <2>5. \A m \in 1 .. k : x[m] = q[m]
      BY <2>1, <2>3
    <2>6. QED
      BY <2>2, <2>4, <2>5
  <1> HIDE DEF x
  <1>5. ASSUME k = Len(q) PROVE x = q
    BY <1>4, <1>5, SeqEqual
  <1>6. QED
    BY <1>4, <1>5 DEF x

\* Lists that begin alike have the same beginning.
LEMMA BeginAlike ==
  ASSUME NEW S, NEW q \in Seq(S), NEW p \in Seq(S), NEW k \in 0 .. Len(q), k <= Len(p),
         \A m \in 1 .. k : p[m] = q[m]
  PROVE  SubSeq(p, 1, k) = SubSeq(q, 1, k)
  <1> DEFINE x == SubSeq(p, 1, k)
             y == SubSeq(q, 1, k)
  <1>1. k \in 0 .. Len(p)
    BY LenProperties
  <1>2. /\ x \in Seq(S) /\ Len(x) = k /\ \A m \in 1 .. k : x[m] = p[m]
        /\ y \in Seq(S) /\ Len(y) = k /\ \A m \in 1 .. k : y[m] = q[m]
    BY <1>1, Beginning
  <1> HIDE DEF x, y
  <1>3. Len(x) = Len(y) /\ \A m \in 1 .. Len(x) : x[m] = y[m]
    BY <1>2
  <1>4. x = y
    BY <1>2, <1>3, SeqEqual
  <1>5. QED
    BY <1>4 DEF x, y

\* What the dispenser carried out.
Entry == [id : Nat, what : Made]

\* A list that ends with a block is its beginning and the writes of the block, tagged.
LEMMA BlockIsTagged ==
  ASSUME NEW q \in Seq(Entry), NEW i \in Nat, NEW w, Len(w) \in Nat,
         \A m \in 1 .. Len(w) : w[m] \in Made, NEW k \in Nat, NEW c \in Nat,
         IsBlock(q, k, i, w, c)
  PROVE  q = SubSeq(q, 1, k) \o Atomic!Tagged(i, SubSeq(w, 1, c))
  <1> DEFINE x == SubSeq(w, 1, c)
             y == Atomic!Tagged(i, x)
             z == SubSeq(q, 1, k)
  <1>1. /\ k \in Nat /\ c \in 0 .. Len(w) /\ c \in Nat /\ Len(q) = k + c
        /\ \A m \in 1 .. c : q[k + m] = [id |-> i, what |-> w[m]]
    BY DEF IsBlock
  <1>2. Len(x) = c /\ \A m \in 1 .. c : x[m] = w[m] /\ x[m] \in Made
    <2>1. c \in Int /\ 1 \in Int /\ \A m \in 1 .. c : w[m] \in Made
      BY <1>1
    <2>2. /\ Len(SubSeq(w, 1, c)) = IF 1 <= c THEN c - 1 + 1 ELSE 0
          /\ \A m \in 1 .. c - 1 + 1 : SubSeq(w, 1, c)[m] = w[1 + m - 1]
      BY <2>1, SubSeqProperties
    <2>3. c - 1 + 1 = c /\ \A m \in 1 .. c : 1 + m - 1 = m
      BY <1>1
    <2> HIDE DEF x
    <2>4. Len(x) = IF 1 <= c THEN c - 1 + 1 ELSE 0
      BY <2>2 DEF x
    <2>5. \A m \in 1 .. c - 1 + 1 : x[m] = w[1 + m - 1]
      BY <2>2 DEF x
    <2>6. QED
      BY <1>1, <2>1, <2>3, <2>4, <2>5
  <1>3. z \in Seq(Entry) /\ Len(z) = k /\ \A m \in 1 .. k : z[m] = q[m]
    <2>1. k \in 0 .. Len(q)
      BY <1>1
    <2>2. QED
      BY <2>1, Beginning
  <1> HIDE DEF x
  <1>4. y = [m \in 1 .. c |-> [id |-> i, what |-> x[m]]]
    BY <1>2 DEF Atomic!Tagged
  <1> HIDE DEF y, z
  <1>5. y \in Seq(Entry) /\ Len(y) = c /\ \A m \in 1 .. c : y[m] = [id |-> i, what |-> w[m]]
    <2>1. \A m \in 1 .. c : [id |-> i, what |-> x[m]] \in Entry
      BY <1>2 DEF Entry
    <2> HIDE DEF Entry
    <2>2. y \in Seq(Entry) /\ Len(y) = c
      BY <1>1, <1>4, <2>1
    <2>3. QED
      BY <1>2, <1>4, <2>2
  <1> HIDE DEF Entry
  <1>6. /\ z \o y \in Seq(Entry) /\ Len(z \o y) = Len(z) + Len(y)
        /\ \A m \in 1 .. Len(z) + Len(y) : (z \o y)[m] = IF m <= Len(z) THEN z[m] ELSE y[m - Len(z)]
    BY <1>3, <1>5, ConcatProperties
  <1> DEFINE v == z \o y
  <1>7. v \in Seq(Entry) /\ Len(v) = k + c
    BY <1>3, <1>5, <1>6
  <1>8. \A m \in 1 .. k + c : v[m] = IF m <= k THEN z[m] ELSE y[m - k]
    BY <1>3, <1>5, <1>6
  <1> HIDE DEF v
  <1>9. ASSUME NEW m \in 1 .. k + c PROVE q[m] = v[m]
    <2>1. CASE m <= k
      BY <1>1, <1>3, <1>8, <2>1
    <2>2. CASE m > k
      <3>1. m - k \in 1 .. c /\ k + (m - k) = m /\ ~(m <= k)
        BY <1>1, <2>2
      <3>2. q[m] = [id |-> i, what |-> w[m - k]]
        BY <1>1, <3>1
      <3>3. v[m] = y[m - k]
        BY <1>8, <3>1
      <3>4. QED
        BY <1>5, <3>1, <3>2, <3>3
    <2>3. QED
      BY <1>1, <2>1, <2>2
  <1>10. q = v
    <2>1. Len(q) = Len(v) /\ \A m \in 1 .. Len(q) : q[m] = v[m]
      BY <1>1, <1>7, <1>9
    <2>2. QED
      BY <1>7, <2>1, SeqEqual
  <1>11. QED
    BY <1>10 DEF v, z, y, x

\* A call of a job that writes, carried out or, if it is a read, not: the block goes on.
LEMMA BlockGrows ==
  ASSUME TypeOK, Core, BlockInv, NEW t \in Tasks, pc[t] = "run", cur[t].id # 0,
         (Untouched /\ Step(t).kind = "read") \/ Carried(t), jobs' = jobs
  PROVE  /\ log' \in Seq(Entry)
         /\ \A m \in 1 .. Cut : log'[m] = log[m]
         /\ IsBlock(log', Cut, cur[t].id, Writes(cur[t].job), After(cur[t].job, cur[t].step))
  <1> DEFINE j == cur[t].job
             n == cur[t].step
             w == Writes(j)
             a == After(j, n)
             i == cur[t].id
             s == Step(t)
  <1>1. /\ IsBlock(log, Cut, i, w, Open) /\ Open = Before(j, n) /\ s = Script(j)[n]
        /\ j \in Jobs /\ ~ReadsOnly(j) /\ n \in 1 .. Len(Script(j))
    BY Begun DEF Step
  <1>2. IsNext(s, w, Open, a)
    <2> HIDE DEF j, n
    <2>1. IsNext(Script(j)[n], w, Before(j, n), a)
      BY <1>1, Counts
    <2>2. QED
      BY <1>1, <2>1
  <1>3. /\ Cut \in Nat /\ Open \in 0 .. Len(w) /\ Len(log) = Cut + Open
        /\ \A m \in 1 .. Open : log[Cut + m] = [id |-> i, what |-> w[m]]
    BY <1>1 DEF IsBlock
  <1>4. a \in 0 .. Len(w) /\ (IF s.kind = "read" THEN a = Open ELSE a = Open + 1 /\ w[a] = s)
    BY <1>2 DEF IsNext
  <1>5. CASE Untouched /\ s.kind = "read"
    <2>1. log' = log /\ a = Open /\ log \in Seq(Entry)
      BY <1>4, <1>5 DEF Untouched, Core, ShapeInv, Entry
    <2>2. QED
      BY <1>1, <2>1
  <1>6. CASE Carried(t)
    <2>1. /\ log' \in Seq(Entry) /\ Len(log) \in Nat /\ Len(log') = Len(log) + 1
          /\ \A m \in 1 .. Len(log) : log'[m] = log[m]
          /\ log'[Len(log) + 1] = [id |-> i, what |-> s]
      BY <1>6, CarriedLog DEF Entry
    <2>2. a = Open + 1 /\ w[a] = s
      BY <1>4, <1>6 DEF Carried
    <2> HIDE DEF a, i, s, w
    <2>3. Open \in Nat /\ Len(log') = Cut + a
      BY <1>3, <2>1, <2>2
    <2>4. ASSUME NEW m \in 1 .. Cut PROVE log'[m] = log[m]
      BY <1>3, <2>1, <2>3
    <2>5. ASSUME NEW m \in 1 .. a PROVE log'[Cut + m] = [id |-> i, what |-> w[m]]
      <3>1. CASE m = a
        <4>1. Cut + m = Len(log) + 1
          BY <1>3, <2>2, <2>3, <3>1
        <4>2. QED
          BY <2>1, <2>2, <3>1, <4>1
      <3>2. CASE m # a
        <4>1. m \in 1 .. Open /\ Cut + m \in 1 .. Len(log)
          BY <1>3, <2>2, <2>3, <3>2
        <4>2. QED
          BY <1>3, <2>1, <4>1
      <3>3. QED
        BY <3>1, <3>2
    <2>6. IsBlock(log', Cut, i, w, a)
      BY <1>3, <1>4, <2>3, <2>5 DEF IsBlock
    <2>7. QED
      BY <2>1, <2>4, <2>6 DEF a, i, w
  <1>7. QED
    BY <1>5, <1>6

\* Whether the call was carried out or not, some beginning of the job's writes was.
LEMMA BlockBegun ==
  ASSUME TypeOK, Core, BlockInv, NEW t \in Tasks, pc[t] = "run", cur[t].id # 0,
         Untouched \/ Carried(t), jobs' = jobs
  PROVE  /\ log' \in Seq(Entry)
         /\ \A m \in 1 .. Cut : log'[m] = log[m]
         /\ \E c : IsBlock(log', Cut, cur[t].id, Writes(cur[t].job), c)
  <1>1. CASE Carried(t)
    BY <1>1, BlockGrows
  <1>2. CASE Untouched
    <2>1. log' = log /\ log \in Seq(Entry)
      BY <1>2 DEF Untouched, Core, ShapeInv, Entry
    <2>2. QED
      BY <2>1, Begun
  <1>3. QED
    BY <1>1, <1>2

-------------------------------------------------------------------------------
(* What each action does to the block, and to the abstract variables.      *)

\* The lists of writes, as AtomicJobs sees them.
PlanOf == [i \in 1 .. Len(jobs) |-> Writes(jobs[i])]

\* Nothing happens to AtomicJobs while nobody asks, writes or returns.
LEMMA Stutters ==
  ASSUME jobs' = jobs, result' = result, Committed' = Committed
  PROVE  UNCHANGED Atomic!vars
  BY DEF Atomic!vars

\* The same when the log stays as well.
LEMMA LogStutters ==
  ASSUME UNCHANGED histVars
  PROVE  UNCHANGED Atomic!vars
  <1>1. jobs' = jobs /\ log' = log /\ result' = result
    BY DEF histVars
  <1>2. Committed' = Committed
    BY <1>1 DEF Committed, SelectLastInSeq
  <1>3. QED
    BY <1>1, <1>2, Stutters

\* What a task that does not run does to its record leaves the block alone.
LEMMA BlockHeld ==
  ASSUME TypeOK, Core, NEW t \in Tasks, pc[t] # "run", NEW e, cur' = [cur EXCEPT ![t] = e],
         lock' = lock, log' = log
  PROVE  Writer' = Writer /\ Open' = Open /\ Cut' = Cut /\ (Writer => cur'[lock] = cur[lock])
  <1>1. lock # Free => cur'[lock] = cur[lock]
    <2>1. lock # Free => lock \in Tasks /\ lock # t
      BY DEF TypeOK, Core, TaskInv
    <2>2. cur \in [Tasks -> [job : Jobs, id : Nat, step : Nat, try : Nat]]
      BY DEF Core, ShapeInv
    <2>3. QED
      BY <2>1, <2>2
  <1>2. Writer' = Writer
    BY <1>1 DEF Writer
  <1>3. Open' = Open
    BY <1>1, <1>2 DEF Open, Writer
  <1>4. QED
    BY <1>1, <1>2, <1>3 DEF Cut, Writer

\* A list with one element more.
LEMMA OneMore ==
  ASSUME NEW n \in Nat, NEW f, NEW g, \A i \in 1 .. n : g[i] = f[i]
  PROVE  [i \in 1 .. n + 1 |-> g[i]] = Append([i \in 1 .. n |-> f[i]], g[n + 1])
  <1> DEFINE S == {g[i] : i \in 1 .. n + 1}
             p == [i \in 1 .. n |-> f[i]]
             q == [i \in 1 .. n + 1 |-> g[i]]
  <1>1. /\ \A i \in 1 .. n + 1 : g[i] \in S
        /\ \A i \in 1 .. n : f[i] \in S
        /\ n + 1 \in 1 .. n + 1 /\ n + 1 \in Nat
    OBVIOUS
  <1> HIDE DEF S
  <1>2. p \in Seq(S) /\ Len(p) = n /\ \A i \in 1 .. n : p[i] = f[i]
    BY <1>1
  <1>3. q \in Seq(S) /\ Len(q) = n + 1 /\ \A i \in 1 .. n + 1 : q[i] = g[i]
    BY <1>1
  <1> HIDE DEF p, q
  <1>4. /\ Append(p, g[n + 1]) \in Seq(S) /\ Len(Append(p, g[n + 1])) = n + 1
        /\ \A i \in 1 .. n : Append(p, g[n + 1])[i] = p[i]
        /\ Append(p, g[n + 1])[n + 1] = g[n + 1]
    BY <1>1, <1>2, AppendProperties
  <1> DEFINE v == Append(p, g[n + 1])
  <1>5. /\ v \in Seq(S) /\ Len(v) = n + 1 /\ v[n + 1] = g[n + 1]
        /\ \A i \in 1 .. n : v[i] = p[i]
    BY <1>4
  <1> HIDE DEF v
  <1>6. ASSUME NEW i \in 1 .. n + 1 PROVE q[i] = v[i]
    <2>1. i \in 1 .. n \/ i = n + 1
      OBVIOUS
    <2>2. QED
      BY <1>2, <1>3, <1>5, <2>1
  <1>7. q = v
    BY <1>3, <1>5, <1>6, SeqEqual
  <1>8. QED
    BY <1>7 DEF p, q, v

\* A task asks for a job: AtomicJobs learns of those that write.
LEMMA AskMaps ==
  ASSUME TypeOK, Core, BlockInv, TypeOK', Core', NEW t \in Tasks, NEW j \in Jobs, Ask(t, j),
         ReadsOnly(j) \/ j \in Methods \union {Job("quick_test_flow")}
  PROVE  BlockInv' /\ (Atomic!Next \/ UNCHANGED Atomic!vars)
  <1> DEFINE e == IF ReadsOnly(j) THEN [NoJob EXCEPT !.job = j]
                                  ELSE [NoJob EXCEPT !.job = j, !.id = Len(jobs) + 1]
  <1>1. /\ pc[t] = "idle" /\ cur' = [cur EXCEPT ![t] = e] /\ lock' = lock
        /\ ReadsOnly(j) => UNCHANGED histVars
        /\ ~ReadsOnly(j) => /\ jobs' = Append(jobs, j) /\ result' = Append(result, "none")
                            /\ log' = log
    BY DEF Ask
  <1>2. log' = log
    BY <1>1 DEF histVars
  <1> HIDE DEF e
  <1>3. Writer' = Writer /\ Open' = Open /\ Cut' = Cut /\ (Writer => cur'[lock] = cur[lock])
    BY <1>1, <1>2, BlockHeld
  <1>4. /\ jobs \in Seq(Jobs) /\ Len(jobs) \in Nat /\ Len(result) = Len(jobs) /\ LogInv
        /\ result \in Seq({"none", "OK", "FAIL", "LOST"}) /\ log \in Seq(Entry)
    BY DEF Core, ShapeInv, Entry
  <1>5. Writer' => IsBlock(log', Cut', cur'[lock'].id, Writes(cur'[lock'].job), Open')
    BY <1>1, <1>2, <1>3 DEF BlockInv
  <1>6. Cut \in 0 .. Len(log) /\ Committed = SubSeq(log, 1, Cut)
    BY CommittedIs
  <1>7. CASE ReadsOnly(j)
    <2>1. jobs' = jobs /\ result' = result
      BY <1>1, <1>7 DEF histVars
    <2>2. BlockInv'
      BY <1>2, <1>3, <1>5, <2>1 DEF BlockInv
    <2>3. QED
      BY <1>1, <1>7, <2>2, LogStutters
  <1>8. CASE ~ReadsOnly(j)
    <2>1. /\ Len(jobs') = Len(jobs) + 1 /\ jobs'[Len(jobs) + 1] = j
          /\ \A i \in 1 .. Len(jobs) : jobs'[i] = jobs[i]
      <3>1. /\ Len(Append(jobs, j)) = Len(jobs) + 1 /\ Append(jobs, j)[Len(jobs) + 1] = j
            /\ \A i \in 1 .. Len(jobs) : Append(jobs, j)[i] = jobs[i]
        BY <1>4, AppendProperties
      <3>2. jobs' = Append(jobs, j)
        BY <1>1, <1>8
      <3>3. QED
        BY <3>1, <3>2
    <2>2. \A i \in 1 .. Len(jobs) : result'[i] = result[i]
      <3> DEFINE S == {"none", "OK", "FAIL", "LOST"}
      <3>1. "none" \in S /\ result \in Seq(S)
        BY <1>4
      <3> HIDE DEF S
      <3>2. /\ \A i \in 1 .. Len(result) : Append(result, "none")[i] = result[i]
            /\ result' = Append(result, "none")
        BY <1>1, <1>8, <3>1, AppendProperties
      <3>3. QED
        BY <1>4, <3>2
    <2>3. \A i \in 1 .. Len(jobs') : ~ReadsOnly(jobs'[i])
      <3>1. ASSUME NEW i \in 1 .. Len(jobs') PROVE i \in 1 .. Len(jobs) \/ i = Len(jobs) + 1
        BY <1>4, <2>1
      <3>2. QED
        BY <1>8, <2>1, <3>1 DEF BlockInv
    <2>4. \A m \in 1 .. Cut : result'[log[m].id] # "none"
      <3>1. ASSUME NEW m \in 1 .. Cut PROVE log[m].id \in 1 .. Len(jobs)
        BY <1>4, <1>6 DEF LogInv
      <3>2. QED
        BY <2>2, <3>1 DEF BlockInv
    <2>5. BlockInv'
      <3>1. (\A m \in 1 .. Cut : result[log[m].id] # "none")'
        BY <1>2, <1>3, <2>4
      <3>2. Cut' \in Nat
        BY <1>3 DEF BlockInv
      <3>3. QED
        BY <1>5, <2>3, <3>1, <3>2 DEF BlockInv
    <2>6. Committed' = Committed
      <3>1. Committed' = SubSeq(log', 1, Cut')
        BY <2>5, CommittedIsNext
      <3>2. QED
        BY <1>2, <1>3, <1>6, <3>1
    <2>7. PlanOf' = Append(PlanOf, Writes(j))
      <3>1. PlanOf' = [i \in 1 .. Len(jobs) + 1 |-> Writes(jobs'[i])]
        BY <2>1 DEF PlanOf
      <3> DEFINE f == [i \in 1 .. Len(jobs) |-> Writes(jobs[i])]
                 g == [i \in 1 .. Len(jobs) + 1 |-> Writes(jobs'[i])]
      <3>2. g[Len(jobs) + 1] = Writes(j) /\ \A i \in 1 .. Len(jobs) : g[i] = f[i]
        BY <1>4, <2>1
      <3>3. /\ f = [i \in 1 .. Len(jobs) |-> f[i]]
            /\ g = [i \in 1 .. Len(jobs) + 1 |-> g[i]]
        OBVIOUS
      <3>4. PlanOf = f /\ PlanOf' = g
        BY <3>1 DEF PlanOf
      <3> HIDE DEF f, g
      <3>5. [i \in 1 .. Len(jobs) + 1 |-> g[i]] = Append([i \in 1 .. Len(jobs) |-> f[i]], Writes(j))
        BY <1>4, <3>2, OneMore
      <3>6. QED
        BY <3>3, <3>4, <3>5
    <2>8. Len(PlanOf) < MaxMethods + MaxResets + 1
      <3>1. Len(PlanOf) = Len(jobs)
        BY <1>4 DEF PlanOf
      <3>2. Len(jobs') <= methods' + resets' + 1 /\ methods' \in 0 .. MaxMethods
            /\ resets' \in 0 .. MaxResets
        BY DEF TypeOK
      <3>3. QED
        BY <1>4, <2>1, <3>1, <3>2, ConstantsAssumption
    <2>9. Writes(j) \in {Writes(i) : i \in {m \in Methods : ~ReadsOnly(m)}
                                             \union {Job("quick_test_flow")}}
      BY <1>8
    <2>10. Atomic!Ask(Writes(j))
      BY <1>1, <1>8, <2>6, <2>7, <2>8 DEF Atomic!Ask, PlanOf
    <2>11. Atomic!Next
      BY <2>9, <2>10 DEF Atomic!Next
    <2>12. QED
      BY <2>5, <2>11
  <1>9. QED
    BY <1>7, <1>8

\* Taking the mutex: no write has been made.
LEMMA TakeLockMaps ==
  ASSUME TypeOK, Core, BlockInv, NEW t \in Tasks, TakeLock(t)
  PROVE  BlockInv' /\ UNCHANGED Atomic!vars
  <1>1. /\ pc[t] = "lock" /\ lock = Free /\ lock' = t /\ cur' = cur
        /\ jobs' = jobs /\ log' = log /\ result' = result /\ UNCHANGED histVars
    BY DEF TakeLock, histVars
  <1>2. Cut = Len(log) /\ Len(log) \in Nat
    BY <1>1 DEF Cut, Open, Writer, Core, ShapeInv
  <1>3. cur[t].id # 0 => /\ cur[t].step = 1 /\ cur[t].job \in Jobs
                         /\ ~ReadsOnly(cur[t].job) /\ 1 \in 1 .. Len(Script(cur[t].job))
    <2>1. cur[t].id \in 0 .. Len(jobs) /\ Len(jobs) \in Nat
      BY DEF TypeOK, Core, ShapeInv
    <2>2. cur[t].step = 1
      BY <1>1 DEF Core, TaskInv
    <2>3. cur[t].job \in Jobs /\ 1 \in 1 .. Len(Script(cur[t].job))
      BY <2>2, StepFacts
    <2>4. cur[t].id # 0 => cur[t].id \in 1 .. Len(jobs) /\ cur[t].job = jobs[cur[t].id]
      BY <2>1 DEF Core, TaskInv
    <2>5. QED
      BY <2>2, <2>3, <2>4 DEF BlockInv
  <1>4. cur[t].id # 0 => Before(cur[t].job, 1) = 0 /\ Len(Writes(cur[t].job)) \in Nat
    <2> DEFINE j == cur[t].job
    <2> HIDE DEF j
    <2>1. j \in Jobs /\ ~ReadsOnly(j) /\ 1 \in 1 .. Len(Script(j))
            => Before(j, 1) = 0 /\ Len(Writes(j)) \in Nat
      BY Counts
    <2>2. QED
      BY <1>3, <2>1 DEF j
  <1>5. (Writer' => cur[t].id # 0) /\ Open' = 0
    BY <1>1, <1>3, <1>4 DEF Writer, Open
  <1>6. Cut' = Len(log)
    BY <1>1, <1>2, <1>5 DEF Cut
  <1>7. Writer' => IsBlock(log', Cut', cur'[lock'].id, Writes(cur'[lock'].job), Open')
    BY <1>1, <1>2, <1>4, <1>5, <1>6 DEF IsBlock
  <1>8. BlockInv'
    BY <1>1, <1>2, <1>6, <1>7 DEF BlockInv
  <1>9. QED
    BY <1>1, <1>8, LogStutters

\* When the mutex is free, all that was carried out is of jobs that have returned.
LEMMA AllReturned ==
  ASSUME BlockInv, TypeOK', Core', lock' = Free, jobs' = jobs, log' \in Seq(Entry),
         \A m \in 1 .. Len(log') : result'[log'[m].id] # "none"
  PROVE  BlockInv' /\ Committed' = log'
  <1>1. ~Writer' /\ Cut' = Len(log') - 0 /\ Len(log') \in Nat
    BY LenProperties DEF Writer, Open, Cut
  <1>2. Cut' = Len(log')
    BY <1>1
  <1>3. BlockInv'
    BY <1>1, <1>2 DEF BlockInv
  <1>4. Committed' = SubSeq(log', 1, Len(log'))
    BY <1>2, <1>3, CommittedIsNext
  <1>5. Len(log') \in 0 .. Len(log')
    BY <1>1
  <1>6. SubSeq(log', 1, Len(log')) = log'
    BY <1>5, Beginning
  <1>7. QED
    BY <1>3, <1>4, <1>6

\* A job that only reads leaves no trace in the log.
LEMMA ReaderMaps ==
  ASSUME TypeOK, Core, BlockInv, TypeOK', Core', NEW t \in Tasks, Transact(t), cur[t].id = 0
  PROVE  BlockInv' /\ UNCHANGED Atomic!vars
  <1>1. pc[t] = "run" /\ lock = t
    BY Outcomes, Others
  <1>2. Step(t).kind = "read"
    BY WriterIsNumbered, <1>1 DEF Core
  <1>3. log' = log
    BY <1>2, Outcomes DEF Untouched, Carried
  <1>4. cur \in [Tasks -> [job : Jobs, id : Nat, step : Nat, try : Nat]] /\ NoJob.id = 0
    BY DEF Core, ShapeInv, NoJob
  <1>5. /\ jobs' = jobs /\ result' = result /\ cur'[t].id = 0
        /\ lock' = lock \/ lock' = Free
    <2>1. CASE MovesOn(t)
      BY <1>4, <2>1 DEF MovesOn
    <2>2. CASE TriesAgain(t)
      BY <1>4, <2>2 DEF TriesAgain
    <2>3. ASSUME NEW code, Finish(t, code)
          PROVE  jobs' = jobs /\ result' = result /\ cur'[t].id = 0 /\ lock' = Free
      BY <1>4, <2>3 DEF Finish
    <2>4. QED
      BY <2>1, <2>2, <2>3, Outcomes
  <1>6. ~Writer /\ ~Writer'
    BY <1>1, <1>5 DEF Writer
  <1>7. Cut' = Cut
    BY <1>3, <1>6 DEF Cut, Open
  <1>8. BlockInv'
    BY <1>3, <1>5, <1>6, <1>7 DEF BlockInv
  <1>9. QED
    BY <1>3, <1>5, <1>8, LogStutters DEF histVars

\* A job goes on to its next call: what it has written stays hidden.
LEMMA MovesOnMaps ==
  ASSUME TypeOK, Core, BlockInv, TypeOK', Core', NEW t \in Tasks, pc[t] = "run",
         cur[t].id # 0, MovesOn(t), (Untouched /\ Step(t).kind = "read") \/ Carried(t)
  PROVE  BlockInv' /\ UNCHANGED Atomic!vars
  <1> DEFINE j == cur[t].job
             n == cur[t].step
             i == cur[t].id
             w == Writes(j)
  <1>1. /\ n < Len(Script(j)) /\ jobs' = jobs /\ result' = result /\ lock' = lock
        /\ cur' = [cur EXCEPT ![t].step = @ + 1, ![t].try = 1]
    BY DEF MovesOn
  <1>2. /\ lock = t /\ n \in 1 .. Len(Script(j)) /\ Len(Script(j)) \in Nat
        /\ IsBlock(log, Cut, i, w, Open)
    BY Begun
  <1>3. cur \in [Tasks -> [job : Jobs, id : Nat, step : Nat, try : Nat]]
    BY DEF Core, ShapeInv
  <1>4. cur'[t].job = j /\ cur'[t].id = i /\ cur'[t].step = n + 1
    BY <1>1, <1>3
  <1>5. After(j, n) = Before(j, n + 1)
    BY <1>1, <1>2 DEF After
  <1>6. /\ log' \in Seq(Entry) /\ \A m \in 1 .. Cut : log'[m] = log[m]
        /\ IsBlock(log', Cut, i, w, After(j, n))
    BY <1>1, BlockGrows
  <1>7. i # 0
    OBVIOUS
  <1> HIDE DEF i, j, n, w
  <1>8. lock' = t /\ Writer'
    BY <1>1, <1>2, <1>4, <1>7, ConstantsAssumption DEF Writer
  <1>9. Open' = After(j, n)
    BY <1>4, <1>5, <1>8 DEF Open
  <1>10. Cut \in Nat /\ Open' \in 0 .. Len(w) /\ Len(log') = Cut + Open'
    BY <1>6, <1>9 DEF IsBlock
  <1>11. Cut' = Cut
    BY <1>10 DEF Cut
  <1>12. BlockInv'
    <2>1. \A m \in 1 .. Cut : result'[log'[m].id] # "none"
      BY <1>1, <1>6 DEF BlockInv
    <2>2. IsBlock(log', Cut', cur'[lock'].id, Writes(cur'[lock'].job), Open')
      BY <1>4, <1>6, <1>8, <1>9, <1>11 DEF w
    <2>3. (\A m \in 1 .. Cut : result[log[m].id] # "none")'
      BY <1>11, <2>1
    <2>4. QED
      BY <1>1, <1>10, <1>11, <2>2, <2>3 DEF BlockInv
  <1>13. Committed' = Committed
    <2>1. Committed' = SubSeq(log', 1, Cut) /\ Cut <= Len(log')
      BY <1>10, <1>11, <1>12, CommittedIsNext
    <2>2. Committed = SubSeq(log, 1, Cut) /\ Cut \in 0 .. Len(log) /\ log \in Seq(Entry)
      BY CommittedIs DEF Core, ShapeInv, Entry
    <2>3. SubSeq(log', 1, Cut) = SubSeq(log, 1, Cut)
      BY <1>6, <2>1, <2>2, BeginAlike
    <2>4. QED
      BY <2>1, <2>2, <2>3
  <1>14. QED
    BY <1>1, <1>12, <1>13, Stutters

\* A read that is tried again changes nothing.
LEMMA TriesAgainMaps ==
  ASSUME TypeOK, Core, BlockInv, NEW t \in Tasks, pc[t] = "run", cur[t].id # 0,
         TriesAgain(t), Untouched
  PROVE  BlockInv' /\ UNCHANGED Atomic!vars
  <1>1. /\ jobs' = jobs /\ result' = result /\ lock' = lock /\ log' = log
        /\ cur' = [cur EXCEPT ![t].try = @ + 1]
    BY DEF TriesAgain, Untouched
  <1>2. lock = t
    BY Begun
  <1>3. cur \in [Tasks -> [job : Jobs, id : Nat, step : Nat, try : Nat]]
    BY DEF Core, ShapeInv
  <1>4. /\ cur'[t].job = cur[t].job /\ cur'[t].id = cur[t].id
        /\ cur'[t].step = cur[t].step
    BY <1>1, <1>3
  <1>5. Writer' = Writer /\ Open' = Open /\ Cut' = Cut
    <2>1. Writer' = Writer
      BY <1>1, <1>2, <1>4 DEF Writer
    <2>2. Open' = Open
      BY <1>1, <1>2, <1>4, <2>1 DEF Open
    <2>3. QED
      BY <1>1, <2>1, <2>2 DEF Cut
  <1>6. BlockInv'
    BY <1>1, <1>2, <1>4, <1>5 DEF BlockInv
  <1>7. QED
    BY <1>1, <1>6, LogStutters DEF histVars

\* The jobs AtomicJobs knows, and the lists of writes they were asked for.
LEMMA PlanFacts ==
  ASSUME BlockInv, Core, NEW i \in 1 .. Len(jobs)
  PROVE  /\ DOMAIN PlanOf = 1 .. Len(jobs) /\ PlanOf[i] = Writes(jobs[i])
         /\ i \in Nat /\ Len(Writes(jobs[i])) \in Nat
         /\ \A m \in 1 .. Len(Writes(jobs[i])) : Writes(jobs[i])[m] \in Made
  <1> DEFINE j == jobs[i]
  <1>1. j \in Jobs /\ ~ReadsOnly(j) /\ i \in Nat
    BY DEF BlockInv, Core, ShapeInv
  <1> HIDE DEF j
  <1>2. 1 \in 1 .. Len(Script(j))
    <2>1. Fits(j.op, Script(j))
      BY <1>1, ScriptCalls
    <2>2. QED
      BY <2>1 DEF Fits
  <1>3. Len(Writes(j)) \in Nat /\ \A m \in 1 .. Len(Writes(j)) : Writes(j)[m] \in Made
    BY <1>1, <1>2, Counts
  <1>4. QED
    BY <1>1, <1>3 DEF PlanOf, j

\* What a call leaves at the end of the log is a beginning of its job's list.
LEMMA Written ==
  ASSUME TypeOK, Core, BlockInv, NEW t \in Tasks, pc[t] = "run", cur[t].id # 0, NEW c,
         jobs' = jobs, log' \in Seq(Entry), \A m \in 1 .. Cut : log'[m] = log[m],
         IsBlock(log', Cut, cur[t].id, Writes(cur[t].job), c)
  PROVE  /\ cur[t].id \in DOMAIN PlanOf /\ c \in 0 .. Len(PlanOf[cur[t].id])
         /\ log' = Committed \o Atomic!Tagged(cur[t].id, SubSeq(PlanOf[cur[t].id], 1, c))
         /\ c = 0 => log' = Committed
  <1> DEFINE i == cur[t].id
             w == Writes(cur[t].job)
  <1>1. i \in 1 .. Len(jobs) /\ cur[t].job = jobs[i]
    BY Begun
  <1> HIDE DEF i
  <1>2. /\ DOMAIN PlanOf = 1 .. Len(jobs) /\ PlanOf[i] = w /\ i \in Nat /\ Len(w) \in Nat
        /\ \A m \in 1 .. Len(w) : w[m] \in Made
    BY <1>1, PlanFacts
  <1>3. IsBlock(log', Cut, i, w, c)
    BY DEF i
  <1> HIDE DEF w
  <1>4. log' = SubSeq(log', 1, Cut) \o Atomic!Tagged(i, SubSeq(w, 1, c))
    <2> DEFINE q == log'
               k == Cut
    <2>1. /\ q \in Seq(Entry) /\ IsBlock(q, k, i, w, c) /\ k \in Nat /\ c \in Nat
          /\ i \in Nat /\ Len(w) \in Nat /\ \A m \in 1 .. Len(w) : w[m] \in Made
      BY <1>2, <1>3 DEF IsBlock
    <2> HIDE DEF q, k
    <2>2. QED
      <3>1. q = SubSeq(q, 1, k) \o Atomic!Tagged(i, SubSeq(w, 1, c))
        BY <2>1, BlockIsTagged
      <3>2. QED
        BY <3>1 DEF q, k
  <1>5. Cut \in Nat /\ c \in 0 .. Len(w) /\ Len(log') = Cut + c
    BY <1>3 DEF IsBlock
  <1>6. /\ Committed = SubSeq(log, 1, Cut) /\ Cut \in 0 .. Len(log) /\ log \in Seq(Entry)
        /\ Cut \in 0 .. Len(log')
    BY <1>2, <1>5, CommittedIs DEF Core, ShapeInv, Entry
  <1>7. SubSeq(log', 1, Cut) = SubSeq(log, 1, Cut)
    <2>1. Cut <= Len(log')
      BY <1>2, <1>5
    <2>2. QED
      BY <1>6, <2>1, BeginAlike
  <1>8. c = 0 => log' = Committed
    <2>1. c = 0 => Cut = Len(log')
      BY <1>5
    <2>2. Cut = Len(log') => SubSeq(log', 1, Cut) = log'
      BY <1>6, Beginning
    <2>3. QED
      BY <1>6, <1>7, <2>1, <2>2
  <1>9. QED
    BY <1>1, <1>2, <1>4, <1>5, <1>6, <1>7, <1>8 DEF i

\* A job returns: its writes come out as one block, all of them if it returns ESP_OK.
LEMMA FinishMaps ==
  ASSUME TypeOK, Core, BlockInv, TypeOK', Core', NEW t \in Tasks, pc[t] = "run",
         cur[t].id # 0, NEW code \in {"OK", "FAIL"}, Finish(t, code),
         Untouched \/ Carried(t),
         code = "OK" => /\ cur[t].step = Len(Script(cur[t].job))
                        /\ (Untouched /\ Step(t).kind = "read") \/ Carried(t)
  PROVE  BlockInv' /\ Atomic!Next
  <1> DEFINE i == cur[t].id
             w == Writes(cur[t].job)
  <1>1. lock' = Free /\ jobs' = jobs /\ result' = [result EXCEPT ![i] = code]
    BY DEF Finish
  <1>2. /\ i \in 1 .. Len(jobs) /\ cur[t].job = jobs[i] /\ result[i] = "none"
    BY Begun
  <1>3. /\ log' \in Seq(Entry) /\ \A m \in 1 .. Cut : log'[m] = log[m]
        /\ \E c : IsBlock(log', Cut, i, w, c) /\ (code = "OK" => c = Len(w))
    <2>1. CASE code = "OK"
      <3>1. After(cur[t].job, cur[t].step) = Len(w)
        BY <2>1 DEF After
      <3>2. QED
        BY <1>1, <2>1, <3>1, BlockGrows
    <2>2. CASE code # "OK"
      BY <1>1, <2>2, BlockBegun
    <2>3. QED
      BY <2>1, <2>2
  <1>4. PICK c : IsBlock(log', Cut, i, w, c) /\ (code = "OK" => c = Len(w))
    BY <1>3
  <1>5. /\ i \in DOMAIN PlanOf /\ c \in 0 .. Len(PlanOf[i])
        /\ log' = Committed \o Atomic!Tagged(i, SubSeq(PlanOf[i], 1, c))
    BY <1>1, <1>3, <1>4, Written
  <1>6. PlanOf[i] = w
    BY <1>2, PlanFacts
  <1> HIDE DEF i, w
  <1>7. \A m \in 1 .. Len(log') : result'[log'[m].id] # "none"
    <2>1. /\ Len(result) = Len(jobs) /\ Len(log) \in Nat /\ LogInv
          /\ result \in Seq({"none", "OK", "FAIL", "LOST"})
      BY DEF Core, ShapeInv
    <2>2. \A x \in 1 .. Len(jobs) : result'[x] = IF x = i THEN code ELSE result[x]
      BY <1>1, <1>2, <2>1
    <2>3. /\ Cut \in Nat /\ c \in Nat /\ Len(log') = Cut + c
          /\ \A m \in 1 .. c : log'[Cut + m] = [id |-> i, what |-> w[m]]
      BY <1>4 DEF IsBlock
    <2>4. ASSUME NEW m \in 1 .. Len(log') PROVE result'[log'[m].id] # "none"
      <3>1. CASE m <= Cut
        <4>1. m \in 1 .. Cut /\ Cut \in 0 .. Len(log)
          BY <2>3, <3>1, CommittedIs
        <4>2. log[m].id \in 1 .. Len(jobs) /\ log'[m] = log[m]
          BY <1>3, <2>1, <4>1 DEF LogInv
        <4>3. result[log[m].id] # "none"
          BY <4>1 DEF BlockInv
        <4>4. QED
          BY <2>2, <4>2, <4>3
      <3>2. CASE m > Cut
        <4>1. m - Cut \in 1 .. c /\ Cut + (m - Cut) = m
          BY <2>3, <3>2
        <4>2. log'[Cut + (m - Cut)] = [id |-> i, what |-> w[m - Cut]]
          BY <2>3, <4>1
        <4>3. log'[m].id = i
          BY <4>1, <4>2
        <4>4. QED
          BY <1>2, <2>2, <4>3
      <3>3. QED
        BY <2>3, <3>1, <3>2
    <2>5. QED
      BY <2>4
  <1>8. BlockInv' /\ Committed' = log'
    BY <1>1, <1>3, <1>7, AllReturned
  <1>9. Atomic!Perform(i, c)
    <2>1. code \in {"FAIL"} \union (IF c = Len(PlanOf[i]) THEN {"OK"} ELSE {})
      BY <1>4, <1>6
    <2>2. PlanOf' = PlanOf
      BY <1>1 DEF PlanOf
    <2>3. Committed' = Committed \o Atomic!Tagged(i, SubSeq(PlanOf[i], 1, c))
      BY <1>5, <1>8
    <2>4. QED
      BY <1>1, <1>2, <2>1, <2>2, <2>3 DEF Atomic!Perform, PlanOf
  <1>10. \E x \in DOMAIN PlanOf : \E n \in 0 .. Len(PlanOf[x]) : Atomic!Perform(x, n)
    BY <1>5, <1>9
  <1>11. QED
    BY <1>8, <1>10 DEF Atomic!Next, PlanOf

\* Every step of a job is one of AtomicJobs, or none.
LEMMA TransactMaps ==
  ASSUME TypeOK, Core, BlockInv, TypeOK', Core', NEW t \in Tasks, Transact(t)
  PROVE  BlockInv' /\ (Atomic!Next \/ UNCHANGED Atomic!vars)
  <1>1. pc[t] = "run"
    BY Outcomes
  <1>2. CASE cur[t].id = 0
    BY <1>2, ReaderMaps
  <1>3. CASE cur[t].id # 0
    <2>1. CASE MovesOn(t) /\ ((Untouched /\ Step(t).kind = "read") \/ Carried(t))
      BY <1>1, <1>3, <2>1, MovesOnMaps
    <2>2. CASE TriesAgain(t) /\ Untouched
      BY <1>1, <1>3, <2>2, TriesAgainMaps
    <2>3. CASE /\ Finish(t, "OK") /\ cur[t].step = Len(Script(cur[t].job))
               /\ ((Untouched /\ Step(t).kind = "read") \/ Carried(t))
      <3>1. Untouched \/ Carried(t)
        BY <2>3
      <3>2. QED
        BY <1>1, <1>3, <2>3, <3>1, FinishMaps
    <2>4. CASE Finish(t, "FAIL") /\ (Untouched \/ Carried(t))
      BY <1>1, <1>3, <2>4, FinishMaps
    <2>5. QED
      BY <2>1, <2>2, <2>3, <2>4, Outcomes
  <1>4. QED
    BY <1>2, <1>3

\* A reset cuts off the job that runs, and loses those that wait.
LEMMA ResetMaps ==
  ASSUME TypeOK, Core, BlockInv, TypeOK', Core', Reset
  PROVE  BlockInv' /\ Atomic!Next
  <1>1. /\ lock' = Free /\ jobs' = jobs
        /\ result' = [i \in DOMAIN result |-> IF result[i] = "none" THEN "LOST" ELSE result[i]]
        /\ Untouched \/ \E t \in Tasks : pc[t] = "run" /\ Carried(t)
    BY DEF Reset, Untouched, Carried
  <1>2. result' = Atomic!Lost
    BY <1>1 DEF Atomic!Lost
  <1>3. /\ result \in Seq({"none", "OK", "FAIL", "LOST"}) /\ Len(result) = Len(jobs)
        /\ log \in Seq(Entry) /\ LogInv'
    BY DEF Core, ShapeInv, Entry
  <1>4. \A i \in 1 .. Len(jobs) : result'[i] # "none"
    BY <1>1, <1>3
  <1>5. log' \in Seq(Entry)
    BY DEF Core, ShapeInv, Entry
  <1>6. \A m \in 1 .. Len(log') : result'[log'[m].id] # "none"
    BY <1>1, <1>3, <1>4 DEF LogInv
  <1>7. BlockInv' /\ Committed' = log'
    BY <1>1, <1>5, <1>6, AllReturned
  <1>8. PlanOf' = PlanOf
    BY <1>1 DEF PlanOf
  <1> DEFINE CutsOne == \E i \in DOMAIN PlanOf : \E n \in 1 .. Len(PlanOf[i]) :
                /\ result[i] = "none"
                /\ Committed' = Committed \o Atomic!Tagged(i, SubSeq(PlanOf[i], 1, n))
  <1>9. Committed' = Committed \/ CutsOne
    <2>1. CASE Untouched /\ ~Writer
      <3>1. log' = log /\ Cut = Len(log) /\ Len(log) \in Nat
        BY <1>3, <2>1 DEF Untouched, Cut, Open
      <3>2. Committed = SubSeq(log, 1, Len(log)) /\ Len(log) \in 0 .. Len(log)
        BY <3>1, CommittedIs
      <3>3. Committed = log
        BY <1>3, <3>2, Beginning
      <3>4. QED
        BY <1>7, <3>1, <3>3
    <2>2. ASSUME NEW t \in Tasks, pc[t] = "run", cur[t].id # 0, Untouched \/ Carried(t)
          PROVE  Committed' = Committed \/ CutsOne
      <3> DEFINE i == cur[t].id
      <3>1. PICK c : IsBlock(log', Cut, i, Writes(cur[t].job), c)
        BY <1>1, <2>2, BlockBegun
      <3>2. \A m \in 1 .. Cut : log'[m] = log[m]
        BY <1>1, <2>2, BlockBegun
      <3>3. /\ i \in DOMAIN PlanOf /\ c \in 0 .. Len(PlanOf[i])
            /\ log' = Committed \o Atomic!Tagged(i, SubSeq(PlanOf[i], 1, c))
            /\ c = 0 => log' = Committed
        BY <1>1, <1>5, <2>2, <3>1, <3>2, Written
      <3>4. result[i] = "none"
        BY <2>2, Begun
      <3> HIDE DEF i
      <3>5. CASE c = 0
        BY <1>7, <3>3, <3>5
      <3>6. CASE c # 0
        <4>1. c \in 1 .. Len(PlanOf[i])
          BY <3>3, <3>6
        <4>2. Committed' = Committed \o Atomic!Tagged(i, SubSeq(PlanOf[i], 1, c))
          BY <1>7, <3>3
        <4>3. QED
          BY <3>3, <3>4, <4>1, <4>2
      <3>7. QED
        BY <3>5, <3>6
    <2>3. ASSUME NEW t \in Tasks, pc[t] = "run", Carried(t) PROVE cur[t].id # 0
      BY <2>3, WriterIsNumbered DEF Carried, Core
    <2>4. Writer => lock \in Tasks /\ pc[lock] = "run" /\ cur[lock].id # 0
      BY DEF Writer, TypeOK, Core, TaskInv
    <2>5. QED
      BY <1>1, <2>1, <2>2, <2>3, <2>4
  <1>10. Atomic!Crash
    BY <1>2, <1>8, <1>9 DEF Atomic!Crash, PlanOf
  <1>11. QED
    BY <1>7, <1>10 DEF Atomic!Next

\* Every step of the tasks is a step of AtomicJobs, or none, and keeps the block in its place.
LEMMA StepMaps == IInv /\ BlockInv /\ [Next]_vars => BlockInv' /\ [Atomic!Next]_Atomic!vars
  <1>1. (IInv => TypeOK /\ Core)'
    <2>1. IInv => TypeOK /\ Core
      BY Parts DEF IInv
    <2>2. QED
      BY <2>1, PTL
  <1> SUFFICES ASSUME IInv, BlockInv, [Next]_vars
               PROVE  BlockInv' /\ (Atomic!Next \/ UNCHANGED Atomic!vars)
    OBVIOUS
  <1>2. TypeOK /\ Core /\ TypeOK' /\ Core'
    BY <1>1, NextKeeps, Parts DEF IInv
  <1>3. "quick_test" \in Tasks /\ "telemetry" \in Tasks /\ "method" \in Tasks
    BY DEF Tasks
  <1>4. CASE QuickPoll
    <2>1. Ask("quick_test", Job("poll"))
      BY <1>4 DEF QuickPoll
    <2>2. QED
      BY <1>2, <1>3, <2>1, Readers, AskMaps
  <1>5. CASE QuickRun
    <2>1. Ask("quick_test", Job("quick_test_flow"))
      BY <1>5 DEF QuickRun
    <2>2. QED
      BY <1>2, <1>3, <2>1, Readers, AskMaps
  <1>6. CASE TelemetryRound
    <2>1. Ask("telemetry", Job("read_status"))
      BY <1>6 DEF TelemetryRound
    <2>2. QED
      BY <1>2, <1>3, <2>1, Readers, AskMaps
  <1>7. CASE DirectMethod
    <2>1. PICK j \in Methods : Ask("method", j)
      BY <1>7 DEF DirectMethod
    <2>2. j \in Jobs
      BY ConstantsAssumption
    <2>3. QED
      BY <1>2, <1>3, <2>1, <2>2, AskMaps
  <1>8. CASE QuickDone \/ UNCHANGED vars
    <2>1. UNCHANGED <<taskVars, histVars>>
      BY <1>8 DEF QuickDone, vars
    <2>2. lock' = lock /\ cur' = cur /\ jobs' = jobs /\ log' = log /\ result' = result
      BY <2>1 DEF taskVars, histVars
    <2>3. Writer' = Writer /\ Open' = Open /\ Cut' = Cut
      BY <2>2 DEF Writer, Open, Cut
    <2>4. BlockInv'
      BY <2>2, <2>3 DEF BlockInv
    <2>5. QED
      BY <2>1, <2>4, LogStutters
  <1>9. ASSUME NEW t \in Tasks, TakeLock(t) PROVE BlockInv' /\ UNCHANGED Atomic!vars
    BY <1>2, <1>9, TakeLockMaps
  <1>10. ASSUME NEW t \in Tasks, Transact(t)
         PROVE  BlockInv' /\ (Atomic!Next \/ UNCHANGED Atomic!vars)
    BY <1>2, <1>10, TransactMaps
  <1>11. CASE Reset
    BY <1>2, <1>11, ResetMaps
  <1>12. QED
    BY <1>4, <1>5, <1>6, <1>7, <1>8, <1>9, <1>10, <1>11 DEF Next

\* s_modbus_lock makes every job one block on the dispenser: what SmartloadApp does, call
\* by call, is what AtomicJobs allows.
THEOREM ImplementsAtomicJobsHolds == Spec => ImplementsAtomicJobs
  <1>1. Init => BlockInv /\ Atomic!Init
    <2> SUFFICES ASSUME Init PROVE BlockInv /\ Atomic!Init
      OBVIOUS
    <2>1. jobs = <<>> /\ log = <<>> /\ result = <<>> /\ lock = Free /\ Len(log) = 0 /\ Len(jobs) = 0
      BY DEF Init
    <2>2. ~Writer /\ Cut = 0
      BY <2>1 DEF Writer, Cut, Open
    <2>3. BlockInv
      BY <2>1, <2>2 DEF BlockInv
    <2>4. PlanOf = <<>>
      BY <2>1 DEF PlanOf
    <2>5. Committed = <<>>
      <3>1. TypeOK /\ Core
        BY InitHolds, Parts DEF IInv
      <3>2. Committed = SubSeq(log, 1, 0)
        BY <2>2, <2>3, <3>1, CommittedIs
      <3>3. QED
        BY <3>2, SubSeqEmpty
    <2>6. QED
      BY <2>1, <2>3, <2>4, <2>5 DEF Atomic!Init, PlanOf
  <1>2. QED
    BY <1>1, InitHolds, NextKeeps, StepMaps, PTL DEF Spec, ImplementsAtomicJobs, Atomic!Spec
===============================================================================
