----------------------------- MODULE SmartloadApp ------------------------------
(***************************************************************************)
(* The tasks of main.c that talk to the dispenser: the quick test run once *)
(* at boot, the telemetry task, and the MQTT client task that carries out  *)
(* direct methods.  Each holds s_modbus_lock for a whole job, a list of    *)
(* Modbus calls; one call is one step here, with the outcomes ModbusCall   *)
(* allows: done, failed, or failed although the dispenser carried it out.  *)
(* The device may be reset at any step (the reboot method, an update, a    *)
(* loss of power); the dispenser then keeps what it was told.              *)
(***************************************************************************)
EXTENDS Naturals, SequencesExt

CONSTANTS Triples,    \* parameters of smartload_authorize: [recipe, additive, side]
          Batches,    \* parameters of smartload_auth_batch: [preset, components]
          Methods,    \* the direct methods asked for: a set of jobs, see Jobs
          MaxMethods, \* bound on the direct methods that write
          MaxPolls,   \* 20: readiness polls of the quick test
          MaxResets,  \* bound on the resets
          WordSize,   \* 65536: what a register holds
          Faults,     \* TRUE: a Modbus call may fail
          Free        \* value of lock when no task holds it

Tasks == {"quick_test", "telemetry", "method"}
NoArg == "none"

\* One Modbus call of a job: how often it is tried, and whether its failure ends
\* the job.
ReadStep(tries, must) ==
    [kind |-> "read", cmd |-> NoArg, vals |-> <<>>, tries |-> tries, must |-> must]
Put(vals) == [kind |-> "put", cmd |-> NoArg, vals |-> vals, tries |-> 1, must |-> TRUE]
Cmd(c) == [kind |-> "cmd", cmd |-> c, vals |-> <<>>, tries |-> 1, must |-> TRUE]

CommandOf == [start_batch |-> "START", stop_batch |-> "STOP", end_transaction |-> "END",
              clear_status |-> "CLEAR_STATUS", clear_alarms |-> "CLEAR_ALARMS"]

AllCommands == <<Cmd("AUTHORIZE"), Cmd("START"), Cmd("STOP"), Cmd("END"),
                 Cmd("CLEAR_STATUS"), Cmd("CLEAR_ALARMS")>>

\* smartload_log_full_register_block_locked: the block and the device information.
FullBlock == <<ReadStep(1, TRUE), ReadStep(1, TRUE)>>

QuickFlow ==
    FullBlock \o <<ReadStep(1, TRUE), ReadStep(1, TRUE), Cmd("AUTHORIZE"), Cmd("START"),
      ReadStep(1, TRUE), Cmd("STOP"), ReadStep(1, TRUE), Cmd("END"),
      Cmd("CLEAR_STATUS"), Cmd("CLEAR_ALARMS")>> \o FullBlock

\* Mutant: the command goes out before its parameters.
Authorize_CommandFirst(p) ==
    <<Cmd("AUTHORIZE"), Put([recipe |-> p.recipe]), Put([additive |-> p.additive]),
      Put([side |-> p.side])>>

Authorize(p) ==
    <<Put([recipe |-> p.recipe]), Put([additive |-> p.additive]), Put([side |-> p.side]),
      Cmd("AUTHORIZE")>>

\* A volume takes two registers, written in one call, the high half first.
Split(v) == [preset_hi |-> v \div WordSize, preset_lo |-> v % WordSize]

\* How volumes are put together again, as smartload_read_status does.
Join(hi, lo) == hi * WordSize + lo

AuthBatch(p) ==
    <<Put(Split(p.preset)), Put([components |-> p.components]), Cmd("AUTH_BATCH")>>

ReadStatus == <<ReadStep(3, TRUE), ReadStep(2, FALSE)>>

Script(j) ==
    CASE j.op = "poll" -> <<ReadStep(1, TRUE)>>
      [] j.op = "read_status" -> ReadStatus
      [] j.op = "authorize" -> Authorize(j.arg)
      [] j.op = "auth_batch" -> AuthBatch(j.arg)
      [] j.op = "send_all_commands" -> AllCommands
      [] j.op = "quick_test_flow" -> QuickFlow
      [] OTHER -> <<Cmd(CommandOf[j.op])>>

ReadsOnly(j) == \A i \in DOMAIN Script(j) : Script(j)[i].kind = "read"

\* The writes of a job that makes any: the reads of the quick test left out, its commands.
Writes(j) == IF j.op = "quick_test_flow" THEN AllCommands ELSE Script(j)

Job(op) == [op |-> op, arg |-> NoArg]
Jobs ==
    {Job(op) : op \in DOMAIN CommandOf \union
                      {"poll", "read_status", "send_all_commands", "quick_test_flow"}}
    \union {[op |-> "authorize", arg |-> p] : p \in Triples}
    \union {[op |-> "auth_batch", arg |-> p] : p \in Batches}

\* What a register holds.
Word == 0 .. WordSize - 1

ASSUME ConstantsAssumption ==
    /\ Methods \subseteq Jobs \ {Job("poll")}
    /\ MaxMethods \in Nat /\ MaxPolls \in Nat \ {0} /\ MaxResets \in Nat
    /\ WordSize \in Nat \ {0}
    /\ Triples \subseteq [recipe : Word, additive : Word, side : Word]
    /\ Batches \subseteq [preset : Nat, components : Word]
    /\ \A p \in Batches : p.preset \div WordSize < WordSize
    /\ Faults \in BOOLEAN
    /\ Free \notin Tasks

VARIABLES lock,     \* s_modbus_lock: the task that holds it, or Free
          pc,       \* pc[t]: "idle", "lock" (waiting for it) or "run"
          cur,      \* cur[t]: [job, id, step, try] of the job of task t; NoJob if it has none
          polls, phase,  \* the quick test: polls made, and where it is
          done,     \* s_quick_test_done
          regs, running,  \* the dispenser (external): its registers, a batch is on
          auth,           \* and the parameters its last authorizations worked on
          jobs, log, result,  \* the jobs that write, as in AtomicJobs
          methods, resets     \* the writing methods asked for, and the resets, so far

taskVars == <<lock, pc, cur>>
bootVars == <<polls, phase, done>>
slaveVars == <<regs, running, auth>>
histVars == <<jobs, log, result>>
bounds == <<methods, resets>>
vars == <<taskVars, bootVars, slaveVars, histVars, bounds>>

NoJob == [job |-> Job("poll"), id |-> 0, step |-> 1, try |-> 1]
Initial == 0

\* The registers an authorization works on.
UsedBy == [AUTHORIZE |-> {"recipe", "additive", "side"},
           AUTH_BATCH |-> {"preset_hi", "preset_lo", "components"}]
Registers == UsedBy.AUTHORIZE \union UsedBy.AUTH_BATCH

TypeOK ==
    /\ lock \in Tasks \union {Free}
    /\ pc \in [Tasks -> {"idle", "lock", "run"}]
    /\ \A t \in Tasks :
         /\ cur[t].job \in Jobs
         /\ cur[t].id \in 0 .. Len(jobs)
         /\ cur[t].step \in 1 .. Len(Script(cur[t].job))
         /\ cur[t].try \in 1 .. Script(cur[t].job)[cur[t].step].tries
    /\ polls \in 0 .. MaxPolls
    /\ phase \in {"poll", "flow", "ending", "done"}
    /\ done \in BOOLEAN /\ running \in BOOLEAN
    /\ regs \in [Registers -> Word]
    /\ DOMAIN auth = DOMAIN UsedBy
    /\ \A c \in DOMAIN UsedBy :
         auth[c].id \in 0 .. Len(jobs) /\ auth[c].with \in [UsedBy[c] -> Word]
    /\ jobs \in Seq(Jobs) /\ Len(jobs) <= methods + resets + 1 /\ Len(result) = Len(jobs)
    /\ methods \in 0 .. MaxMethods /\ resets \in 0 .. MaxResets

Init ==
    /\ lock = Free
    /\ pc = [t \in Tasks |-> "idle"]
    /\ cur = [t \in Tasks |-> NoJob]
    /\ polls = 0 /\ phase = "poll" /\ done = FALSE
    /\ regs = [r \in Registers |-> Initial]
    /\ running = FALSE
    /\ auth = [c \in DOMAIN UsedBy |-> [id |-> 0, with |-> [r \in UsedBy[c] |-> Initial]]]
    /\ jobs = <<>> /\ log = <<>> /\ result = <<>>
    /\ methods = 0 /\ resets = 0
-------------------------------------------------------------------------------
(* A job: wait for s_modbus_lock, make its calls, give the lock back.      *)

\* Jobs that only read are not numbered.
Ask(t, j) ==
    /\ pc[t] = "idle"
    /\ pc' = [pc EXCEPT ![t] = "lock"]
    /\ IF ReadsOnly(j)
         THEN /\ cur' = [cur EXCEPT ![t] = [NoJob EXCEPT !.job = j]]
              /\ UNCHANGED histVars
         ELSE /\ cur' = [cur EXCEPT ![t] =
                           [NoJob EXCEPT !.job = j, !.id = Len(jobs) + 1]]
              /\ jobs' = Append(jobs, j)
              /\ result' = Append(result, "none")
              /\ UNCHANGED log
    /\ UNCHANGED <<lock, slaveVars>>

\* Mutant: the mutex is not taken.
TakeLock_Barging(t) ==
    /\ pc[t] = "lock"
    /\ lock' = t
    /\ pc' = [pc EXCEPT ![t] = "run"]
    /\ UNCHANGED <<cur, bootVars, slaveVars, histVars, bounds>>

TakeLock(t) ==
    /\ pc[t] = "lock"
    /\ lock = Free
    /\ lock' = t
    /\ pc' = [pc EXCEPT ![t] = "run"]
    /\ UNCHANGED <<cur, bootVars, slaveVars, histVars, bounds>>

\* The dispenser carries out a write; a command acts on it at once.
Execute(t, s) ==
    /\ log' = Append(log, [id |-> cur[t].id, what |-> s])
    /\ regs' = [r \in Registers |-> IF r \in DOMAIN s.vals THEN s.vals[r] ELSE regs[r]]
    /\ running' = CASE s.cmd = "START" -> TRUE [] s.cmd = "STOP" -> FALSE [] OTHER -> running
    /\ auth' = [c \in DOMAIN UsedBy |->
                  IF s.cmd = c THEN [id |-> cur[t].id, with |-> [r \in UsedBy[c] |-> regs[r]]]
                               ELSE auth[c]]

\* Mutant: the last poll is not recognised.
AfterPoll_Forever(code) ==
    /\ phase' = IF code = "OK" THEN "flow" ELSE "poll"
    /\ polls' = IF code = "OK" THEN 0 ELSE polls % MaxPolls
    /\ UNCHANGED done

\* The poll loop goes on until a poll succeeds or MaxPolls have failed; the flow
\* follows in either case.
AfterPoll(code) ==
    /\ IF code = "OK" \/ polls = MaxPolls THEN phase' = "flow" /\ polls' = 0
                                           ELSE UNCHANGED <<phase, polls>>
    /\ UNCHANGED done

Finish(t, code) ==
    /\ lock' = Free
    /\ pc' = [pc EXCEPT ![t] = "idle"]
    /\ cur' = [cur EXCEPT ![t] = NoJob]
    /\ result' = IF cur[t].id = 0 THEN result ELSE [result EXCEPT ![cur[t].id] = code]
    /\ IF cur[t].job.op = "poll" THEN AfterPoll(code) ELSE UNCHANGED bootVars
    /\ UNCHANGED jobs

Advance(t) ==
    IF cur[t].step = Len(Script(cur[t].job)) THEN Finish(t, "OK")
    ELSE /\ cur' = [cur EXCEPT ![t].step = @ + 1, ![t].try = 1]
         /\ UNCHANGED <<lock, pc, bootVars, jobs, result>>

\* Mutant: one try too many.
TriesLeft_OffByOne(t, s) == cur[t].try <= s.tries

TriesLeft(t, s) == cur[t].try < s.tries

\* Mutant: a failed call does not end the job.
GiveUp_Ignored(t, s) == Advance(t)

\* Mutant: a read is tried again without end.
GiveUp_ReadsAgain(t, s) ==
    IF s.kind = "read"
      THEN /\ cur' = [cur EXCEPT ![t].try = 1]
           /\ UNCHANGED <<lock, pc, bootVars, jobs, result>>
      ELSE IF s.must THEN Finish(t, "FAIL") ELSE Advance(t)

\* The last try of a call failed.
GiveUp(t, s) == IF s.must THEN Finish(t, "FAIL") ELSE Advance(t)

Step(t) == Script(cur[t].job)[cur[t].step]

\* One call of the driver.  ESP_OK means that it was carried out, as it does for a
\* dispenser that answers within the timeout (OkMeansTaken of ModbusRtu); an error leaves
\* open whether it was.
Transact(t) ==
    /\ pc[t] = "run"
    /\ UNCHANGED bounds
    /\ LET s == Step(t) IN
         \/ /\ IF s.kind = "read" THEN UNCHANGED <<slaveVars, log>> ELSE Execute(t, s)
            /\ Advance(t)
         \/ /\ Faults
            /\ \/ UNCHANGED <<slaveVars, log>>
               \/ s.kind # "read" /\ Execute(t, s)
            /\ IF TriesLeft(t, s)
                 THEN /\ cur' = [cur EXCEPT ![t].try = @ + 1]
                      /\ UNCHANGED <<lock, pc, bootVars, jobs, result>>
                 ELSE GiveUp(t, s)
-------------------------------------------------------------------------------
(* The tasks.                                                              *)

\* quick_test_autorun_task.
QuickPoll ==
    /\ phase = "poll"
    /\ polls < MaxPolls
    /\ Ask("quick_test", Job("poll"))
    /\ polls' = polls + 1
    /\ UNCHANGED <<phase, done, bounds>>

QuickRun ==
    /\ phase = "flow"
    /\ Ask("quick_test", Job("quick_test_flow"))
    /\ phase' = "ending"
    /\ UNCHANGED <<polls, done, bounds>>

QuickDone ==
    /\ phase = "ending"
    /\ pc["quick_test"] = "idle"
    /\ phase' = "done"
    /\ done' = TRUE
    /\ UNCHANGED <<taskVars, polls, slaveVars, histVars, bounds>>

\* telemetry_task: one round of its loop.
TelemetryRound ==
    /\ done
    /\ Ask("telemetry", Job("read_status"))
    /\ UNCHANGED <<bootVars, bounds>>

\* handle_direct_method and smartload_method_handler, in the MQTT client task.
DirectMethod ==
    /\ \E j \in Methods :
         /\ Ask("method", j)
         /\ IF ReadsOnly(j) THEN UNCHANGED methods
            ELSE methods < MaxMethods /\ methods' = methods + 1
    /\ UNCHANGED <<bootVars, resets>>

\* A reset in the middle of whatever the tasks are at: the call under way may have
\* been carried out.  Nobody learns what became of the jobs that had not returned.
Reset ==
    /\ resets < MaxResets
    /\ resets' = resets + 1
    /\ lock' = Free
    /\ pc' = [t \in Tasks |-> "idle"]
    /\ cur' = [t \in Tasks |-> NoJob]
    /\ polls' = 0 /\ phase' = "poll" /\ done' = FALSE
    /\ result' = [i \in DOMAIN result |-> IF result[i] = "none" THEN "LOST" ELSE result[i]]
    /\ \/ UNCHANGED <<slaveVars, log>>
       \/ \E t \in Tasks : pc[t] = "run" /\ Step(t).kind # "read" /\ Execute(t, Step(t))
    /\ UNCHANGED <<jobs, methods>>

Next ==
    \/ QuickPoll \/ QuickRun \/ QuickDone \/ TelemetryRound \/ DirectMethod
    \/ \E t \in Tasks : TakeLock(t) \/ Transact(t)
    \/ Reset

Spec == Init /\ [][Next]_vars

\* A Modbus call returns (EveryCallReturns of ModbusRtu); the mutex is granted to
\* a waiting task sooner or later; the boot tasks and the telemetry loop run.
\* Nothing obliges the cloud to call a method.
Fairness ==
    /\ \A t \in Tasks : SF_vars(TakeLock(t)) /\ WF_vars(Transact(t))
    /\ WF_vars(QuickPoll) /\ WF_vars(QuickRun) /\ WF_vars(QuickDone)
    /\ WF_vars(TelemetryRound)

FairSpec == Spec /\ Fairness
-------------------------------------------------------------------------------
(* Properties.                                                             *)

\* A job is one block on the dispenser: the writes of finished jobs follow each
\* other as AtomicJobs allows, and ESP_OK means that all of them were carried out.
\* The writes of a job that has not returned come after all others.
Committed == SubSeq(log, 1, SelectLastInSeq(log, LAMBDA e : result[e.id] # "none"))
Atomic == INSTANCE AtomicJobs WITH
            MaxJobs <- MaxMethods + MaxResets + 1,
            plan <- [i \in 1 .. Len(jobs) |-> Writes(jobs[i])],
            log <- Committed,
            Plans <- {Writes(j) : j \in {m \in Methods : ~ReadsOnly(m)}
                                       \union {Job("quick_test_flow")}}
ImplementsAtomicJobs == Atomic!Spec

\* When the dispenser carries out the AUTHORIZE of smartload_authorize, or the AUTH_BATCH
\* of smartload_auth_batch, its parameter registers hold exactly what that call was
\* given, whatever failed before and whoever else writes; a preset is what the dispenser
\* puts together from two registers.
ActsAsAsked ==
    /\ LET a == auth.AUTHORIZE IN
         a.id # 0 /\ jobs[a.id].op = "authorize" => a.with = jobs[a.id].arg
    /\ LET b == auth.AUTH_BATCH IN
         b.id # 0 => /\ jobs[b.id].op = "auth_batch"
                     /\ Join(b.with.preset_hi, b.with.preset_lo) = jobs[b.id].arg.preset
                     /\ b.with.components = jobs[b.id].arg.components

\* The job of the last START the dispenser carried out.
Starter == log[SelectLastInSeq(log, LAMBDA e : e.what.cmd = "START")].id

\* When the bus is given back with a batch on, the job that started it last is one
\* that was to leave it on (start_batch), or did not return ESP_OK: the quick test
\* and send_all_commands never report success with the batch they started on.
RunningExplained ==
    lock = Free /\ running => jobs[Starter].op = "start_batch" \/ result[Starter] # "OK"

\* Whatever fails, every job ends and gives s_modbus_lock back.
EveryJobEnds == \A t \in Tasks : pc[t] # "idle" ~> pc[t] = "idle"

\* Telemetry starts, even when the dispenser never answers the quick test.
TelemetryStarts == <>(pc["telemetry"] = "run")
===============================================================================
