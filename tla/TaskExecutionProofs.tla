------------------------ MODULE TaskExecutionProofs ------------------------
(***************************************************************************)
(* Proofs about TaskExecution, for any sets of tasks, workers and API       *)
(* requests and any limits: what is sent is charged, the lease excludes,    *)
(* the calls stay within their ceiling, a completed task has the artifact   *)
(* of an answer it received, an answer on a checkpoint is not asked for     *)
(* again, and the steps are those of MissionLifecycle.                      *)
(***************************************************************************)
EXTENDS TaskExecutionTypes

-----------------------------------------------------------------------------
(***************************************************************************)
(* What each step of a worker leaves alone.                                *)
(***************************************************************************)

StepOf(w) == WorkerStep(w) \/ ExecutionRaises(w) \/ LoopRaises(w) \/ LeaseLost(w) \/ Crash(w)

\* The other workers stay where they are.
Alone(w) == \A v \in Worker \ {w} : pc'[v] = pc[v] /\ cur'[v] = cur[v] /\ mem'[v] = mem[v]

\* Positions between the admission of a call and its outcome, the steps that
\* lead there and through, and what every other step leaves alone.
Calling == {"ahead", "send", "reply"}
Asks(w) == AdmitCall(w) \/ WriteAhead(w) \/ SendRequest(w) \/ ReplySucceeds(w) \/ ReplyFails(w)
Quiet(w) == pc'[w] \notin Calling /\ UNCHANGED <<ledger, sent>>

\* The same for the lease.
TouchesLease(w) == Acquire(w) \/ Release(w) \/ LoopRaises(w) \/ Crash(w)
KeepsLease(w) == UNCHANGED lease /\ (pc'[w] \in Holding => pc[w] \in Holding /\ cur'[w] = cur[w])

\* A step of a worker moves no other worker and, outside a model call, no
\* charge and no request.
LEMMA WorkerFrames ==
  ASSUME DbOK, WorkerOK, NEW w \in Worker, StepOf(w)
  PROVE  Alone(w) /\ (Quiet(w) \/ Asks(w)) /\ (KeepsLease(w) \/ TouchesLease(w))
<1>1. CASE SweepSelect(w)
  BY Zenon, <1>1 DEF SweepSelect, Drop, Go, Set, WorkerOK, Alone, Quiet, Calling, KeepsLease, Holding,
     UnderHeartbeat, db, redis, world
<1>2. CASE SweepDone(w)
  BY Zenon, <1>2 DEF SweepDone, Drop, Go, Set, WorkerOK, Alone, Quiet, Calling, KeepsLease, Holding,
     UnderHeartbeat, db, redis, world
<1>3. CASE RegisterRecovery(w)
  BY <1>3 DEF RegisterRecovery, Drop, Go, Set, WorkerOK, Alone, Quiet, Calling, KeepsLease,
     Holding, UnderHeartbeat, db, redis, world
<1>4. CASE FailAfterMaxRequeues(w)
  BY Zenon, <1>4 DEF FailAfterMaxRequeues, Drop, Go, Set, WorkerOK, Alone, Quiet, Calling, KeepsLease,
     Holding, UnderHeartbeat, db, redis, world
<1>5. CASE CountRecovery(w)
  BY Zenon, <1>5 DEF CountRecovery, Drop, Go, Set, WorkerOK, Alone, Quiet, Calling, KeepsLease,
     Holding, UnderHeartbeat, db, redis, world
<1>6. CASE SweepEnqueue(w)
  BY Zenon, <1>6 DEF SweepEnqueue, Drop, Go, Set, WorkerOK, Alone, Quiet, Calling, KeepsLease, Holding,
     UnderHeartbeat, db, redis, world
<1>7. CASE Dequeue(w)
  BY Zenon, <1>7 DEF Dequeue, Drop, Go, Set, WorkerOK, Alone, Quiet, Calling, KeepsLease, Holding,
     UnderHeartbeat, db, redis, world
<1>8. CASE DequeueTimeout(w)
  BY <1>8 DEF DequeueTimeout, Drop, Go, Set, WorkerOK, Alone, Quiet, Calling, KeepsLease,
     Holding, UnderHeartbeat, db, redis, world
<1>9. CASE Acquire(w)
  BY <1>9 DEF Acquire, Drop, Go, Set, WorkerOK, Alone, Quiet, Calling, TouchesLease, Holding,
     UnderHeartbeat, db, redis, world
<1>10. CASE Lookup(w)
  BY <1>10 DEF Lookup, Drop, Go, Set, WorkerOK, Alone, Quiet, Calling, KeepsLease, Holding,
     UnderHeartbeat, db, redis, world
<1>11. CASE Release(w)
  BY Zenon, <1>11 DEF Release, Drop, Go, Set, WorkerOK, Alone, Quiet, Calling, TouchesLease, Holding,
     UnderHeartbeat, db, redis, world
<1>12. CASE PutBack(w)
  BY Zenon, <1>12 DEF PutBack, Drop, Go, Set, WorkerOK, Alone, Quiet, Calling, KeepsLease, Holding,
     UnderHeartbeat, db, redis, world
<1>13. CASE Begin(w)
  BY Zenon, <1>13 DEF Begin, ResumeAt, Drop, Go, Set, WorkerOK, Alone, Quiet, Calling, KeepsLease, Holding,
     UnderHeartbeat, db, redis, world, DbOK, Checkpoint, Busy
<1>14. CASE SavePrompt(w)
  BY <1>14 DEF SavePrompt, Drop, Go, Set, WorkerOK, Alone, Quiet, Calling, KeepsLease, Holding,
     UnderHeartbeat, db, redis, world
<1>15. CASE AdmitCall(w)
  BY Zenon, <1>15 DEF AdmitCall, Drop, Go, Set, WorkerOK, Alone, Asks, KeepsLease, Holding,
     UnderHeartbeat, db, redis, world
<1>16. CASE WriteAhead(w)
  BY Zenon, <1>16 DEF WriteAhead, Drop, Go, Set, WorkerOK, Alone, Asks, KeepsLease, Holding,
     UnderHeartbeat, db, redis, world
<1>17. CASE SendRequest(w)
  BY <1>17 DEF SendRequest, Drop, Go, Set, WorkerOK, Alone, Asks, KeepsLease, Holding,
     UnderHeartbeat, db, redis, world
<1>18. CASE ReplySucceeds(w)
  BY Zenon, <1>18 DEF ReplySucceeds, Drop, Go, Set, WorkerOK, Alone, Asks, KeepsLease, Holding,
     UnderHeartbeat, db, redis, world
<1>19. CASE ReplyFails(w)
  BY Zenon, <1>19 DEF ReplyFails, Drop, Go, Set, WorkerOK, Alone, Asks, KeepsLease, Holding,
     UnderHeartbeat, db, redis, world
<1>20. CASE SaveResponse(w)
  BY Zenon, <1>20 DEF SaveResponse, Abandon, Drop, Go, Set, WorkerOK, Alone, Quiet, Calling,
     KeepsLease, Holding, UnderHeartbeat, db, redis, world
<1>21. CASE Validate(w)
  BY Zenon, <1>21 DEF Validate, Drop, Go, Set, WorkerOK, Alone, Quiet, Calling, KeepsLease, Holding,
     UnderHeartbeat, db, redis, world
<1>22. CASE PutObject(w)
  BY Zenon, <1>22 DEF PutObject, Drop, Go, Set, WorkerOK, Alone, Quiet, Calling, KeepsLease, Holding,
     UnderHeartbeat, db, redis, world
<1>23. CASE CommitArtifact(w)
  BY Zenon, <1>23 DEF CommitArtifact, Abandon, Drop, Go, Set, WorkerOK, Alone, Quiet, Calling,
     KeepsLease, Holding, UnderHeartbeat, db, redis, world
<1>24. CASE RejectOutput(w)
  BY Zenon, <1>24 DEF RejectOutput, Drop, Go, Set, WorkerOK, Alone, Quiet, Calling, KeepsLease,
     Holding, UnderHeartbeat, db, redis, world
<1>25. CASE CompleteTask(w)
  BY Zenon, <1>25 DEF CompleteTask, Finish, Drop, Go, Set, WorkerOK, Alone, Quiet, Calling, KeepsLease,
     Holding, UnderHeartbeat, db, redis, world
<1>26. CASE FailTask(w)
  BY <1>26 DEF FailTask, Finish, Drop, Go, Set, WorkerOK, Alone, Quiet, Calling, KeepsLease,
     Holding, UnderHeartbeat, db, redis, world
<1>27. CASE Restart(w)
  BY <1>27 DEF Restart, Drop, Go, Set, WorkerOK, Alone, Quiet, Calling, KeepsLease, Holding,
     UnderHeartbeat, db, redis, world
<1>28. CASE ExecutionRaises(w)
  BY <1>28 DEF ExecutionRaises, Abandon, Drop, Go, Set, WorkerOK, Alone, Quiet, Calling,
     KeepsLease, Holding, UnderHeartbeat, db, redis, world
<1>29. CASE LoopRaises(w)
  BY <1>29 DEF LoopRaises, Drop, Go, Set, WorkerOK, Alone, Quiet, Calling, TouchesLease,
     Holding, UnderHeartbeat, db, redis, world
<1>30. CASE LeaseLost(w)
  BY <1>30 DEF LeaseLost, Abandon, Drop, Go, Set, WorkerOK, Alone, Quiet, Calling, KeepsLease,
     Holding, UnderHeartbeat, db, redis, world
<1>31. CASE Crash(w)
  BY <1>31 DEF Crash, Drop, Go, Set, WorkerOK, Alone, Quiet, Calling, TouchesLease, Holding,
     UnderHeartbeat, db, redis, world
<1>32. CASE \E t \in Task : SweepCheckLease(w, t)
  BY <1>32 DEF SweepCheckLease, Go, WorkerOK, Alone, Quiet, Calling, KeepsLease, Holding,
     UnderHeartbeat, db, redis, world
<1> QED
  BY <1>1, <1>2, <1>3, <1>4, <1>5, <1>6, <1>7, <1>8, <1>9, <1>10, <1>11, <1>12, <1>13, <1>14,
     <1>15, <1>16, <1>17, <1>18, <1>19, <1>20, <1>21, <1>22, <1>23, <1>24, <1>25, <1>26, <1>27,
     <1>28, <1>29, <1>30, <1>31, <1>32 DEF StepOf, WorkerStep, Sweep, ProcessTask, ExecuteTask

\* Steps of the API and of the TTL change neither workers nor the ledger.
OtherStep ==
  \/ \E c \in Client, t \in Task : StartMission(c, t) \/ CancelMission(c, t) \/ RetryTask(c, t)
  \/ \E c \in Client : RequestStep(c) \/ ApiCrash(c)
  \/ \E t \in Task : OrphanExpires(t) \/ LeaseLapses(t)

\* Requests and expiries touch no charge and no worker.
LEMMA OtherFrames == OtherStep => UNCHANGED <<ckpt, ledger, sent, worker>>
BY Zenon DEF OtherStep, StartMission, CancelMission, RetryTask, RequestStep, StartEnqueue, CancelCommit,
   RetryEnqueue, RetryCommit, ApiCrash, OrphanExpires, LeaseLapses, db, redis, world

\* Every step is one of a worker or one of the others.
LEMMA NextSteps == Next => OtherStep \/ \E w \in Worker : StepOf(w)
BY Zenon DEF Next, OtherStep, StepOf

-----------------------------------------------------------------------------
(***************************************************************************)
(* The write-ahead ledger: every request sent is charged.                  *)
(***************************************************************************)

\* A worker about to send, or waiting for the reply, has its row on the ledger.
RowCharged == \A w \in Worker : pc[w] \in {"send", "reply"} => mem[w].row \in DOMAIN ledger[cur[w]]

\* The steps of a call never remove a row, and leave the sender charged.
LEMMA AsksKeepsCharges ==
  ASSUME TypeOK, RowCharged, ChargedBeforeSent, NEW w \in Worker, Asks(w), Alone(w)
  PROVE  RowCharged' /\ ChargedBeforeSent'
<1>0. DbOK /\ WorldOK /\ WorkerOK
  BY Zenon DEF TypeOK
<1>1. cur[w] \in Task /\ mem[w] \in Mem
  BY Zenon, <1>0, BusyType DEF Asks, AdmitCall, WriteAhead, SendRequest, ReplySucceeds, ReplyFails,
     Busy, Holding, UnderHeartbeat
<1>2. \A t \in Task : ledger[t] \in Seq(Invocation)
  BY Zenon, <1>0 DEF DbOK
<1>3. CASE AdmitCall(w)
  BY <1>0, <1>3 DEF AdmitCall, Go, WorkerOK, RowCharged, ChargedBeforeSent, Alone, db, world
<1>4. CASE WriteAhead(w)
  <2>1. /\ ledger' = [ledger EXCEPT ![cur[w]] = Append(ledger[cur[w]], "requested")]
        /\ mem'[w].row = Len(ledger[cur[w]]) + 1
        /\ UNCHANGED <<cur, sent>>
    BY Zenon, <1>0, <1>1, <1>4, CommittedType DEF WriteAhead, Set, WorkerOK, Mem, world
  <2>2. \A t \in Task : DOMAIN ledger[t] \subseteq DOMAIN ledger'[t]
    BY <1>0, <1>1, <1>2, <2>1 DEF DbOK
  <2>3. Len(ledger[cur[w]]) + 1 \in DOMAIN ledger'[cur[w]]
    BY <1>0, <1>1, <1>2, <2>1 DEF DbOK
  <2>4. \A v \in Worker \ {w} : pc[v] \in {"send", "reply"} => cur[v] \in Task
    BY Zenon, <1>0 DEF WorkerOK, Busy, Holding, UnderHeartbeat
  <2> QED
    BY <2>1, <2>2, <2>3, <2>4 DEF RowCharged, ChargedBeforeSent, Alone
<1>5. CASE SendRequest(w)
  BY <1>0, <1>1, <1>5 DEF SendRequest, Go, WorkerOK, WorldOK, RowCharged, ChargedBeforeSent, Alone, db
<1>6. CASE ReplySucceeds(w) \/ ReplyFails(w)
  <2>1. \E outcome : ledger' = [ledger EXCEPT ![cur[w]] = [@ EXCEPT ![mem[w].row] = outcome]]
    BY Zenon, <1>6 DEF ReplySucceeds, ReplyFails, FinishAttempt
  <2>2. \A t \in Task : DOMAIN ledger'[t] = DOMAIN ledger[t]
    BY <1>0, <1>1, <2>1 DEF DbOK
  <2>3. pc'[w] \notin {"send", "reply"} /\ UNCHANGED <<cur, sent>>
    BY Zenon, <1>0, <1>6 DEF ReplySucceeds, ReplyFails, Go, WorkerOK, world
  <2>4. \A v \in Worker \ {w} : pc[v] \in {"send", "reply"} => cur[v] \in Task
    BY <1>0 DEF WorkerOK, Busy, Holding, UnderHeartbeat
  <2> QED
    BY Zenon, <2>2, <2>3, <2>4 DEF RowCharged, ChargedBeforeSent, Alone
<1> QED
  BY Zenon, <1>3, <1>4, <1>5, <1>6 DEF Asks

\* Charges stay, and the rows of the calls in progress are among them.
LEMMA ChargesKept == Spec => [](RowCharged /\ ChargedBeforeSent)
<1> DEFINE Inv == RowCharged /\ ChargedBeforeSent
<1>1. Init => Inv
  BY DEF Init, RowCharged, ChargedBeforeSent
<1>2. TypeOK /\ Inv /\ [Next]_vars => Inv'
  <2> SUFFICES ASSUME TypeOK, Inv, [Next]_vars PROVE Inv'
    OBVIOUS
  <2>1. CASE OtherStep \/ UNCHANGED vars
    BY Zenon, <2>1, OtherFrames DEF RowCharged, ChargedBeforeSent, vars, db, world, worker
  <2>2. ASSUME NEW w \in Worker, StepOf(w) PROVE Inv'
    <3>1. Alone(w) /\ (Quiet(w) \/ Asks(w))
      BY Zenon, <2>2, WorkerFrames DEF TypeOK
    <3>2. CASE Quiet(w)
      BY Zenon, <3>1, <3>2 DEF Quiet, Alone, Calling, RowCharged, ChargedBeforeSent
    <3> QED
      BY Zenon, <3>1, <3>2, AsksKeepsCharges
  <2> QED
    BY Zenon, <2>1, <2>2, NextSteps
<1> QED
  BY <1>1, <1>2, TypeCorrect, PTL DEF Spec

\* usage.py: after any crash, lease loss or failed commit, every provider
\* request that was sent has its charge on the committed ledger.
THEOREM SentIsCharged == Spec => []ChargedBeforeSent
BY ChargesKept, PTL

-----------------------------------------------------------------------------
(***************************************************************************)
(* The lease excludes, and under it the ceiling on model calls holds.      *)
(***************************************************************************)

\* Every step keeps the lease with the worker that executes the task.
LEMMA NextExcludes == TypeOK /\ MutualExclusion /\ [Next]_vars => MutualExclusion'
<1> SUFFICES ASSUME TypeOK, MutualExclusion, [Next]_vars, ~ LeaseMayLapse,
                    NEW v \in Worker, pc'[v] \in Holding
             PROVE  lease'[cur'[v]] = v
  BY Zenon DEF MutualExclusion
<1>0. DbOK /\ WorkerOK /\ RedisOK
  BY Zenon DEF TypeOK
<1>1. \A u \in Worker : pc[u] \in Holding => lease[cur[u]] = u /\ cur[u] \in Task
  BY Zenon, <1>0 DEF MutualExclusion, WorkerOK, Busy
<1>2. CASE OtherStep \/ UNCHANGED vars
  <2>1. UNCHANGED <<pc, cur>>
    BY Zenon, <1>2, OtherFrames DEF vars, worker
  <2>2. UNCHANGED lease \/ \E t \in Task : OrphanExpires(t)
    BY Zenon, <1>2 DEF OtherStep, StartMission, CancelMission, RetryTask, RequestStep, StartEnqueue,
       CancelCommit, RetryEnqueue, RetryCommit, ApiCrash, LeaseLapses, vars, redis
  <2> QED
    BY <1>0, <1>1, <2>1, <2>2, ConstantsAssumption DEF OrphanExpires, RedisOK
<1>3. ASSUME NEW w \in Worker, StepOf(w) PROVE lease'[cur'[v]] = v
  <2>1. Alone(w) /\ (KeepsLease(w) \/ TouchesLease(w))
    BY Zenon, <1>0, <1>3, WorkerFrames
  <2>2. CASE KeepsLease(w)
    BY <1>1, <2>1, <2>2 DEF KeepsLease, Alone
  <2>3. CASE Acquire(w)
    BY <1>0, <1>1, <2>1, <2>3, ConstantsAssumption
    DEF Acquire, Alone, Drop, Go, RedisOK, WorkerOK, Busy, Holding, UnderHeartbeat
  <2>4. CASE Release(w)
    BY <1>0, <1>1, <2>1, <2>4 DEF Release, Released, Alone, Drop, Go, RedisOK, WorkerOK, Holding, UnderHeartbeat
  <2>5. CASE LoopRaises(w)
    <3>1. pc'[w] \notin Holding
      BY <1>0, <2>5 DEF LoopRaises, Drop, Go, WorkerOK, Holding, UnderHeartbeat
    <3>2. \A t \in Task : lease'[t] = lease[t] \/ lease[t] \in {Free, w}
      BY <1>0, <2>5 DEF LoopRaises, Released, RedisOK, WorkerOK, Busy, Holding, UnderHeartbeat
    <3> QED
      BY <1>1, <2>1, <3>1, <3>2, ConstantsAssumption DEF Alone
  <2>6. CASE Crash(w)
    BY <1>0, <1>1, <2>1, <2>6 DEF Crash, Alone, Drop, Go, RedisOK, WorkerOK, Holding, UnderHeartbeat
  <2> QED
    BY Zenon, <2>1, <2>2, <2>3, <2>4, <2>5, <2>6 DEF TouchesLease
<1> QED
  BY Zenon, <1>2, <1>3, NextSteps

\* process_task: as long as no live holder's lease lapses, a worker between
\* acquire and release holds the lease, so two never execute the same task.
THEOREM LeaseExcludes == Spec => []MutualExclusion
<1>1. Init => MutualExclusion
  BY DEF Init, MutualExclusion, Holding, UnderHeartbeat
<1> QED
  BY <1>1, NextExcludes, TypeCorrect, PTL DEF Spec

\* How the usage read at the admission relates to the ledger from then on: no
\* other worker has added a row.
UsageIsCurrent ==
  \A w \in Worker :
    LET m == mem[w]  n == Len(ledger[cur[w]]) IN
    /\ pc[w] = "ahead" => n + 1 = m.used + m.tries /\ n < MaxModelCalls
    /\ pc[w] \in {"send", "reply"} => n = m.used + m.tries

Ceiling == ~ LeaseMayLapse => UsageIsCurrent /\ \A t \in Task : Len(ledger[t]) <= MaxModelCalls

\* A call in progress excludes other calls of the task.
LEMMA CallersDiffer ==
  ASSUME TypeOK, MutualExclusion, ~ LeaseMayLapse, NEW v \in Worker, NEW w \in Worker, v # w,
         pc[v] \in Calling, pc[w] \in Calling
  PROVE  cur[v] # cur[w] /\ cur[v] \in Task /\ cur[w] \in Task
BY Zenon DEF TypeOK, WorkerOK, MutualExclusion, Calling, Busy, Holding, UnderHeartbeat

\* The steps of a call keep within the ceiling.
LEMMA AsksKeepsCeiling ==
  ASSUME TypeOK, MutualExclusion, ~ LeaseMayLapse, Ceiling, NEW w \in Worker, Asks(w), Alone(w)
  PROVE  Ceiling'
<1>0. DbOK /\ WorkerOK
  BY Zenon DEF TypeOK
<1>1. /\ cur[w] \in Task /\ mem[w] \in Mem
      /\ \A t \in Task : ledger[t] \in Seq(Invocation) /\ Len(ledger[t]) \in Nat
  <2>1. cur[w] \in Task /\ mem[w] \in Mem
    BY Zenon, <1>0, BusyType DEF Asks, AdmitCall, WriteAhead, SendRequest, ReplySucceeds, ReplyFails,
       Busy, Holding, UnderHeartbeat
  <2> QED
    BY <1>0, <2>1 DEF DbOK
<1>2. mem[w].used \in Nat /\ mem[w].tries \in Nat
  BY Zenon, <1>1 DEF Mem
<1>3. cur' = cur /\ pc' \in [Worker -> Label] /\ mem' \in [Worker -> Mem]
  <2>1. cur' = cur /\ [Next]_vars
    BY ZenonT(60) DEF Asks, AdmitCall, WriteAhead, SendRequest, ReplySucceeds, ReplyFails, Next, WorkerStep, ExecuteTask
  <2> QED
    BY Zenon, <2>1, NextTypeOK DEF TypeOK, WorkerOK
<1>4. UsageIsCurrent /\ \A t \in Task : Len(ledger[t]) <= MaxModelCalls
  BY Zenon DEF Ceiling
<1>5. CASE AdmitCall(w)
  <2>1. ledger' = ledger
    BY Zenon, <1>5 DEF AdmitCall, db
  <2>2. \/ pc'[w] = "fail"
        \/ /\ pc'[w] = "ahead" /\ Len(ledger[cur[w]]) < MaxModelCalls
           /\ mem'[w].used = Len(ledger[cur[w]]) /\ mem'[w].tries = 1
    <3>1. \/ pc'[w] = "fail"
          \/ /\ pc'[w] = "ahead" /\ Len(ledger[cur[w]]) < MaxModelCalls
             /\ mem'[w] = [mem[w] EXCEPT !.used = Len(ledger[cur[w]]), !.tries = 1]
      BY Zenon, <1>0, <1>5 DEF AdmitCall, Go, Set, WorkerOK
    <3> QED
      BY ZenonT(60), <1>1, <3>1 DEF Mem
  <2> QED
    BY <1>1, <1>3, <1>4, <2>1, <2>2 DEF Ceiling, UsageIsCurrent, Alone
<1>6. CASE WriteAhead(w)
  <2>1. /\ pc[w] = "ahead" /\ pc'[w] = "send"
        /\ ledger' = [ledger EXCEPT ![cur[w]] = Append(ledger[cur[w]], "requested")]
        /\ mem'[w].used = mem[w].used /\ mem'[w].tries = mem[w].tries
    BY <1>0, <1>1, <1>6 DEF WriteAhead, Go, Set, Committed, WorkerOK, Mem
  <2>2. /\ Len(ledger'[cur[w]]) = Len(ledger[cur[w]]) + 1
        /\ \A t \in Task \ {cur[w]} : ledger'[t] = ledger[t]
    BY <1>0, <1>1, <2>1 DEF DbOK
  <2>3. \A v \in Worker \ {w} : pc[v] \in Calling => ledger'[cur[v]] = ledger[cur[v]]
    BY <2>1, <2>2, CallersDiffer DEF Calling
  <2>4. Len(ledger[cur[w]]) + 1 = mem[w].used + mem[w].tries /\ Len(ledger[cur[w]]) < MaxModelCalls
    BY Zenon, <1>4, <2>1 DEF UsageIsCurrent
  <2>5. \A t \in Task : Len(ledger'[t]) <= MaxModelCalls
    BY <1>1, <1>4, <2>2, <2>4, ConstantsAssumption
  <2>6. UsageIsCurrent'
    <3> SUFFICES ASSUME NEW v \in Worker
                 PROVE  /\ pc'[v] = "ahead" => /\ Len(ledger'[cur[v]]) + 1 = mem'[v].used + mem'[v].tries
                                               /\ Len(ledger'[cur[v]]) < MaxModelCalls
                        /\ pc'[v] \in {"send", "reply"} => Len(ledger'[cur[v]]) = mem'[v].used + mem'[v].tries
      BY Zenon, <1>3 DEF UsageIsCurrent
    <3>1. CASE v = w
      BY Zenon, <1>1, <1>2, <2>1, <2>2, <2>4, <3>1
    <3>2. CASE v # w
      BY <1>4, <2>3, <3>2 DEF UsageIsCurrent, Alone, Calling
    <3> QED
      BY Zenon, <3>1, <3>2
  <2> QED
    BY <2>5, <2>6 DEF Ceiling
<1>7. CASE SendRequest(w)
  BY <1>0, <1>3, <1>4, <1>7 DEF SendRequest, Go, WorkerOK, Ceiling, UsageIsCurrent, Alone, db
<1>8. CASE ReplySucceeds(w) \/ ReplyFails(w)
  <2>1. \E outcome : ledger' = [ledger EXCEPT ![cur[w]] = [@ EXCEPT ![mem[w].row] = outcome]]
    BY ZenonT(60), <1>8 DEF ReplySucceeds, ReplyFails, FinishAttempt
  <2>2. \A t \in Task : Len(ledger'[t]) = Len(ledger[t])
    BY <1>0, <1>1, <2>1 DEF DbOK
  <2>3. \/ pc'[w] \notin Calling
        \/ /\ pc'[w] = "ahead" /\ mem[w].used + mem[w].tries < MaxModelCalls
           /\ mem'[w].used = mem[w].used /\ mem'[w].tries = mem[w].tries + 1
    <3>1. \/ pc'[w] \notin Calling
          \/ /\ pc'[w] = "ahead" /\ mem[w].used + mem[w].tries < MaxModelCalls
             /\ mem'[w] = [mem[w] EXCEPT !.row = 0, !.tries = @ + 1]
      BY ZenonT(60), <1>0, <1>8 DEF ReplySucceeds, ReplyFails, Go, Set, WorkerOK, Calling
    <3> QED
      BY Zenon, <1>1, <3>1 DEF Mem
  <2>4. Len(ledger[cur[w]]) = mem[w].used + mem[w].tries
    BY Zenon, <1>4, <1>8 DEF UsageIsCurrent, ReplySucceeds, ReplyFails
  <2>5. \A v \in Worker \ {w} : pc[v] \in Calling => cur[v] \in Task
    BY <1>0 DEF WorkerOK, Calling, Busy, Holding, UnderHeartbeat
  <2>6. UsageIsCurrent'
    <3> SUFFICES ASSUME NEW v \in Worker
                 PROVE  /\ pc'[v] = "ahead" => /\ Len(ledger'[cur[v]]) + 1 = mem'[v].used + mem'[v].tries
                                               /\ Len(ledger'[cur[v]]) < MaxModelCalls
                        /\ pc'[v] \in {"send", "reply"} => Len(ledger'[cur[v]]) = mem'[v].used + mem'[v].tries
      BY <1>3 DEF UsageIsCurrent
    <3>1. CASE v = w
      <4>1. Len(ledger'[cur[w]]) = mem[w].used + mem[w].tries
        BY Zenon, <1>1, <2>2, <2>4
      <4>2. CASE pc'[w] \notin Calling
        BY Zenon, <3>1, <4>2 DEF Calling
      <4>3. CASE /\ pc'[w] = "ahead" /\ mem[w].used + mem[w].tries < MaxModelCalls
                 /\ mem'[w].used = mem[w].used /\ mem'[w].tries = mem[w].tries + 1
        <5>1. mem[w].used + mem[w].tries + 1 = mem[w].used + (mem[w].tries + 1)
          BY <1>2
        <5> QED
          BY Zenon, <3>1, <4>1, <4>3, <5>1
      <4> QED
        BY Zenon, <2>3, <4>2, <4>3
    <3>2. CASE v # w
      BY <1>4, <2>2, <2>5, <3>2 DEF UsageIsCurrent, Alone, Calling
    <3> QED
      BY <3>1, <3>2
  <2> QED
    BY Zenon, <1>4, <2>2, <2>6 DEF Ceiling
<1> QED
  BY Zenon, <1>5, <1>6, <1>7, <1>8 DEF Asks

\* budgets.py and gateway.py: the ceiling on model calls is never passed, over
\* all executions of the task, as long as the lease excludes.
THEOREM CallsStayWithinCeiling == Spec => []CallCeiling
<1>1. Init => Ceiling
  BY ConstantsAssumption DEF Init, Ceiling, UsageIsCurrent
<1>2. TypeOK /\ MutualExclusion /\ Ceiling /\ [Next]_vars => Ceiling'
  <2> SUFFICES ASSUME TypeOK, MutualExclusion, Ceiling, [Next]_vars, ~ LeaseMayLapse PROVE Ceiling'
    BY Zenon DEF Ceiling
  <2>1. CASE OtherStep \/ UNCHANGED vars
    BY Zenon, <2>1, OtherFrames DEF Ceiling, UsageIsCurrent, vars, db, worker
  <2>2. ASSUME NEW w \in Worker, StepOf(w) PROVE Ceiling'
    <3>1. Alone(w) /\ (Quiet(w) \/ Asks(w))
      BY Zenon, <2>2, WorkerFrames DEF TypeOK
    <3>2. CASE Quiet(w)
      BY Zenon, <3>1, <3>2 DEF Quiet, Alone, Calling, Ceiling, UsageIsCurrent
    <3> QED
      BY Zenon, <3>1, <3>2, AsksKeepsCeiling
  <2> QED
    BY Zenon, <2>1, <2>2, NextSteps
<1>3. Ceiling => CallCeiling
  BY Zenon DEF Ceiling, CallCeiling
<1> QED
  BY <1>1, <1>2, <1>3, TypeCorrect, LeaseExcludes, PTL DEF Spec

-----------------------------------------------------------------------------
(***************************************************************************)
(* The output: what a completed task delivers was asked for, charged,      *)
(* received and stored, and stays.                                         *)
(***************************************************************************)

\* Positions from which a model call of the task may still follow, or its failure: no answer
\* that meets the contract is on its latest checkpoint.
Asking == {"prompt", "usage", "ahead", "send", "reply", "respond", "reject", "fail"}

\* Positions at which a worker holds an answer of the provider.
Delivering == {"respond", "answered", "put", "reject", "artifact", "complete"}

\* The steps that move an answer on, from the checkpoint to the artifact.
Produces(w) ==
  \/ Begin(w) \/ SavePrompt(w) \/ ReplySucceeds(w) \/ SaveResponse(w) \/ Validate(w)
  \/ PutObject(w) \/ CommitArtifact(w) \/ RejectOutput(w) \/ CompleteTask(w)

\* The other steps leave checkpoints and outputs alone, and complete nothing.
Silent(w) ==
  /\ UNCHANGED <<ckpt, artifact, objects>>
  /\ pc'[w] \notin Delivering
  /\ pc'[w] \in Asking => pc[w] \in Asking /\ cur'[w] = cur[w]
  /\ \A t \in Task : tStatus'[t] = "completed" => tStatus[t] = "completed"

\* Every step of a worker moves an answer on, or is silent about it.
LEMMA OutputFrames ==
  ASSUME DbOK, WorkerOK, NEW w \in Worker, StepOf(w)
  PROVE  Silent(w) \/ Produces(w)
<1>1. CASE SweepSelect(w)
  BY <1>1 DEF SweepSelect, Drop, Go, Set, DbOK, WorkerOK, Silent, Asking, Delivering, db, redis, world
<1>2. CASE SweepDone(w)
  BY <1>2 DEF SweepDone, Drop, Go, Set, DbOK, WorkerOK, Silent, Asking, Delivering, db, redis, world
<1>3. CASE RegisterRecovery(w)
  BY <1>3 DEF RegisterRecovery, Drop, Go, Set, DbOK, WorkerOK, Silent, Asking, Delivering, db, redis, world
<1>4. CASE FailAfterMaxRequeues(w)
  BY <1>4 DEF FailAfterMaxRequeues, Drop, Go, Set, DbOK, WorkerOK, Silent, Asking, Delivering, db, redis, world
<1>5. CASE CountRecovery(w)
  BY <1>5 DEF CountRecovery, Drop, Go, Set, DbOK, WorkerOK, Silent, Asking, Delivering, db, redis, world
<1>6. CASE SweepEnqueue(w)
  BY <1>6 DEF SweepEnqueue, Drop, Go, Set, DbOK, WorkerOK, Silent, Asking, Delivering, db, redis, world
<1>7. CASE Dequeue(w)
  BY <1>7 DEF Dequeue, Drop, Go, Set, DbOK, WorkerOK, Silent, Asking, Delivering, db, redis, world
<1>8. CASE DequeueTimeout(w)
  BY <1>8 DEF DequeueTimeout, Drop, Go, Set, DbOK, WorkerOK, Silent, Asking, Delivering, db, redis, world
<1>9. CASE Acquire(w)
  BY <1>9 DEF Acquire, Drop, Go, Set, DbOK, WorkerOK, Silent, Asking, Delivering, db, redis, world
<1>10. CASE Lookup(w)
  BY <1>10 DEF Lookup, Drop, Go, Set, DbOK, WorkerOK, Silent, Asking, Delivering, db, redis, world
<1>11. CASE Release(w)
  BY <1>11 DEF Release, Drop, Go, Set, DbOK, WorkerOK, Silent, Asking, Delivering, db, redis, world
<1>12. CASE PutBack(w)
  BY <1>12 DEF PutBack, Drop, Go, Set, DbOK, WorkerOK, Silent, Asking, Delivering, db, redis, world
<1>13. CASE AdmitCall(w)
  BY <1>13 DEF AdmitCall, Drop, Go, Set, DbOK, WorkerOK, Silent, Asking, Delivering, db, redis, world
<1>14. CASE WriteAhead(w)
  BY <1>14 DEF WriteAhead, CommitStaged, Drop, Go, Set, DbOK, WorkerOK, Silent, Asking, Delivering, db, redis, world
<1>15. CASE SendRequest(w)
  BY <1>15 DEF SendRequest, Drop, Go, Set, DbOK, WorkerOK, Silent, Asking, Delivering, db, redis, world
<1>16. CASE ReplyFails(w)
  BY <1>16 DEF ReplyFails, Drop, Go, Set, DbOK, WorkerOK, Silent, Asking, Delivering, db, redis, world
<1>17. CASE FailTask(w)
  BY <1>17 DEF FailTask, Finish, Drop, Go, Set, DbOK, WorkerOK, Silent, Asking, Delivering, db, redis, world
<1>18. CASE Restart(w)
  BY <1>18 DEF Restart, Drop, Go, Set, DbOK, WorkerOK, Silent, Asking, Delivering, db, redis, world
<1>19. CASE ExecutionRaises(w)
  BY <1>19 DEF ExecutionRaises, Abandon, Drop, Go, Set, DbOK, WorkerOK, Silent, Asking, Delivering, db, redis, world
<1>20. CASE LoopRaises(w)
  BY <1>20 DEF LoopRaises, Drop, Go, Set, DbOK, WorkerOK, Silent, Asking, Delivering, db, redis, world
<1>21. CASE LeaseLost(w)
  BY <1>21 DEF LeaseLost, Abandon, Drop, Go, Set, DbOK, WorkerOK, Silent, Asking, Delivering, db, redis, world
<1>22. CASE Crash(w)
  BY <1>22 DEF Crash, Drop, Go, Set, DbOK, WorkerOK, Silent, Asking, Delivering, db, redis, world
<1>23. CASE \E t \in Task : SweepCheckLease(w, t)
  BY <1>23 DEF SweepCheckLease, Go, WorkerOK, Silent, Asking, Delivering, db, redis, world
<1> QED
  BY Zenon, <1>1, <1>2, <1>3, <1>4, <1>5, <1>6, <1>7, <1>8, <1>9, <1>10, <1>11, <1>12, <1>13, <1>14, <1>15, <1>16, <1>17, <1>18, <1>19, <1>20, <1>21, <1>22, <1>23
  DEF StepOf, WorkerStep, Sweep, ProcessTask, ExecuteTask, Produces

\* The row of a call in progress is still open, and no other worker's; once the request is out
\* it is recorded as sent.
RowsOpen ==
  \A w \in Worker : pc[w] \in {"send", "reply"} =>
    /\ ledger[cur[w]][mem[w].row] = "requested"
    /\ pc[w] = "reply" => mem[w].row \in sent[cur[w]]
    /\ \A v \in Worker \ {w} :
         pc[v] \in {"send", "reply"} /\ cur[v] = cur[w] => mem[v].row # mem[w].row

\* An answer that was asked for, charged and received.
Received(t, a) == a \in sent[t] /\ a \in DOMAIN ledger[t] /\ ledger[t][a] = "completed"

\* The same after a step.
Receives(t, a) == a \in sent'[t] /\ a \in DOMAIN ledger'[t] /\ ledger'[t][a] = "completed"

\* A received answer stays one: rows of the ledger are appended or, if open, closed.
AnswersKept == \A t \in Task, a \in Nat : Received(t, a) => Receives(t, a)

\* The steps around a model call keep the open rows apart, and touch no closed one.
LEMMA AsksKeepsRows ==
  ASSUME TypeOK, RowCharged, RowsOpen, NEW w \in Worker, Asks(w), Alone(w)
  PROVE  RowsOpen' /\ AnswersKept
<1>0. DbOK /\ WorldOK /\ WorkerOK
  BY Zenon DEF TypeOK
<1>1. cur[w] \in Task /\ mem[w] \in Mem
  BY Zenon, <1>0, BusyType DEF Asks, AdmitCall, WriteAhead, SendRequest, ReplySucceeds, ReplyFails,
     Busy, Holding, UnderHeartbeat
<1>2. \A t \in Task : ledger[t] \in Seq(Invocation) /\ sent[t] \subseteq Nat
  BY Zenon, <1>0 DEF DbOK, WorldOK
<1>3. \A v \in Worker : pc[v] \in {"send", "reply"} => cur[v] \in Task
  BY Zenon, <1>0 DEF WorkerOK, Busy, Holding, UnderHeartbeat
<1>4. cur' = cur
  BY ZenonT(60) DEF Asks, AdmitCall, WriteAhead, SendRequest, ReplySucceeds, ReplyFails
<1>5. CASE AdmitCall(w)
  <2>1. pc'[w] \notin {"send", "reply"} /\ UNCHANGED <<ledger, sent>>
    BY Zenon, <1>0, <1>5 DEF AdmitCall, Go, WorkerOK, db, world
  <2> QED
    BY <1>4, <2>1 DEF RowsOpen, AnswersKept, Received, Receives, Alone
<1>6. CASE WriteAhead(w)
  <2>1. /\ ledger' = [ledger EXCEPT ![cur[w]] = Append(ledger[cur[w]], "requested")]
        /\ mem'[w].row = Len(ledger[cur[w]]) + 1 /\ pc'[w] = "send"
        /\ UNCHANGED sent
    BY Zenon, <1>0, <1>1, <1>6, CommittedType DEF WriteAhead, Go, Set, WorkerOK, Mem, world
  <2>2. \A t \in Task : \A i \in DOMAIN ledger[t] :
           i \in DOMAIN ledger'[t] /\ ledger'[t][i] = ledger[t][i]
    BY <1>0, <1>1, <1>2, <2>1 DEF DbOK
  <2>3. /\ Len(ledger[cur[w]]) + 1 \notin DOMAIN ledger[cur[w]]
        /\ ledger'[cur[w]][Len(ledger[cur[w]]) + 1] = "requested"
    BY <1>0, <1>1, <1>2, <2>1 DEF DbOK
  <2>4. \A v \in Worker \ {w} : pc[v] \in {"send", "reply"} =>
           /\ ledger'[cur[v]][mem[v].row] = ledger[cur[v]][mem[v].row]
           /\ cur[v] = cur[w] => mem[v].row # mem'[w].row
    BY <1>3, <2>1, <2>2, <2>3 DEF RowCharged
  <2>5. RowsOpen'
    <3> SUFFICES ASSUME NEW v \in Worker, pc'[v] \in {"send", "reply"}
                 PROVE  /\ ledger'[cur[v]][mem'[v].row] = "requested"
                        /\ pc'[v] = "reply" => mem'[v].row \in sent[cur[v]]
                        /\ \A u \in Worker \ {v} : pc'[u] \in {"send", "reply"} /\ cur[u] = cur[v]
                                                     => mem'[u].row # mem'[v].row
      BY Zenon, <1>4, <2>1 DEF RowsOpen
    <3>1. CASE v = w
      BY Zenon, <2>1, <2>3, <2>4, <3>1 DEF Alone
    <3>2. CASE v # w
      <4>1. pc'[v] = pc[v] /\ mem'[v] = mem[v]
        BY Zenon, <3>2 DEF Alone
      <4>2. \A u \in Worker \ {v} : pc'[u] \in {"send", "reply"} /\ cur[u] = cur[v] => mem'[u].row # mem[v].row
        <5> SUFFICES ASSUME NEW u \in Worker \ {v}, pc'[u] \in {"send", "reply"}, cur[u] = cur[v]
                     PROVE  mem'[u].row # mem[v].row
          OBVIOUS
        <5>1. CASE u = w
          BY <2>4, <3>2, <4>1, <5>1
        <5>2. CASE u # w
          <6>1. pc'[u] = pc[u] /\ mem'[u] = mem[u]
            BY Zenon, <5>2 DEF Alone
          <6> QED
            BY Zenon, <4>1, <6>1 DEF RowsOpen
        <5> QED
          BY Zenon, <5>1, <5>2
      <4> QED
        BY Zenon, <2>4, <3>2, <4>1, <4>2 DEF RowsOpen
    <3> QED
      BY Zenon, <3>1, <3>2
  <2> QED
    BY Zenon, <2>1, <2>2, <2>5 DEF AnswersKept, Received, Receives
<1>7. CASE SendRequest(w)
  <2>1. /\ pc[w] = "send" /\ UNCHANGED <<ledger, mem>>
        /\ sent' = [sent EXCEPT ![cur[w]] = sent[cur[w]] \cup {mem[w].row}]
    BY Zenon, <1>7 DEF SendRequest, db
  <2>2. \A t \in Task : sent[t] \subseteq sent'[t]
    BY <1>0, <1>1, <2>1 DEF WorldOK
  <2>3. mem[w].row \in sent'[cur[w]]
    BY <1>0, <1>1, <2>1 DEF WorldOK
  <2> QED
    <3>1. AnswersKept
      BY Zenon, <2>1, <2>2 DEF AnswersKept, Received, Receives
    <3>2. \A v \in Worker : pc'[v] \in {"send", "reply"} => pc[v] \in {"send", "reply"} /\ (v # w => pc'[v] = pc[v])
      BY Zenon, <2>1 DEF Alone
    <3>3. \A v \in Worker : pc'[v] = "reply" => mem[v].row \in sent'[cur[v]]
      <4> SUFFICES ASSUME NEW v \in Worker, pc'[v] = "reply" PROVE mem[v].row \in sent'[cur[v]]
        OBVIOUS
      <4>1. CASE v = w
        BY Zenon, <2>3, <4>1
      <4>2. CASE v # w
        BY Zenon, <1>0, <2>2, <3>2, <4>2 DEF RowsOpen, WorkerOK, Busy, Holding, UnderHeartbeat
      <4> QED
        BY <4>1, <4>2
    <3>4. RowsOpen'
      <4> SUFFICES ASSUME NEW v \in Worker, pc'[v] \in {"send", "reply"}
                   PROVE  /\ ledger[cur[v]][mem[v].row] = "requested"
                          /\ pc'[v] = "reply" => mem[v].row \in sent'[cur[v]]
                          /\ \A u \in Worker \ {v} : pc'[u] \in {"send", "reply"} /\ cur[u] = cur[v]
                                                       => mem[u].row # mem[v].row
        BY Zenon, <1>4, <2>1 DEF RowsOpen
      <4> QED
        BY Zenon, <3>2, <3>3 DEF RowsOpen
    <3> QED
      BY Zenon, <3>1, <3>4
<1>8. CASE ReplySucceeds(w) \/ ReplyFails(w)
  <2>1. \E outcome : ledger' = [ledger EXCEPT ![cur[w]] = [@ EXCEPT ![mem[w].row] = outcome]]
    BY Zenon, <1>8 DEF ReplySucceeds, ReplyFails, FinishAttempt
  <2>2. \A t \in Task : DOMAIN ledger'[t] = DOMAIN ledger[t]
    BY <1>0, <1>1, <2>1 DEF DbOK
  <2>3. \A t \in Task : \A i \in DOMAIN ledger[t] :
           t # cur[w] \/ i # mem[w].row => ledger'[t][i] = ledger[t][i]
    BY <1>0, <1>1, <1>2, <2>1 DEF DbOK
  <2>4. pc[w] = "reply" /\ pc'[w] \notin {"send", "reply"} /\ UNCHANGED sent
    BY Zenon, <1>0, <1>8 DEF ReplySucceeds, ReplyFails, Go, WorkerOK, world
  <2>5. RowsOpen'
    <3> SUFFICES ASSUME NEW v \in Worker, pc'[v] \in {"send", "reply"}
                 PROVE  /\ ledger'[cur[v]][mem'[v].row] = "requested"
                        /\ pc'[v] = "reply" => mem'[v].row \in sent[cur[v]]
                        /\ \A u \in Worker \ {v} : pc'[u] \in {"send", "reply"} /\ cur[u] = cur[v]
                                                     => mem'[u].row # mem'[v].row
      BY Zenon, <1>4, <2>4 DEF RowsOpen
    <3>1. v # w /\ pc'[v] = pc[v] /\ mem'[v] = mem[v]
      BY Zenon, <2>4 DEF Alone
    <3>2. cur[v] # cur[w] \/ mem[v].row # mem[w].row
      BY Zenon, <2>4, <3>1 DEF RowsOpen
    <3>3. ledger'[cur[v]][mem[v].row] = "requested"
      BY Zenon, <1>3, <2>3, <3>1, <3>2 DEF RowsOpen, RowCharged
    <3>4. pc[v] = "reply" => mem[v].row \in sent[cur[v]]
      BY Zenon, <2>4, <3>1 DEF RowsOpen
    <3>5. ASSUME NEW u \in Worker \ {v}, pc'[u] \in {"send", "reply"}, cur[u] = cur[v]
          PROVE  mem'[u].row # mem'[v].row
      <4>1. u # w /\ pc'[u] = pc[u] /\ mem'[u] = mem[u]
        BY Zenon, <2>4, <3>5 DEF Alone
      <4> QED
        BY Zenon, <3>1, <3>5, <4>1 DEF RowsOpen
    <3> QED
      BY Zenon, <3>1, <3>3, <3>4, <3>5
  <2>6. ledger[cur[w]][mem[w].row] # "completed"
    BY Zenon, <2>4 DEF RowsOpen
  <2> QED
    BY Zenon, <2>2, <2>3, <2>4, <2>5, <2>6 DEF AnswersKept, Received, Receives
<1> QED
  BY Zenon, <1>5, <1>6, <1>7, <1>8 DEF Asks

\* Objects stay in the store, and an artifact is not replaced.
OutputsKept ==
  \A t \in Task : /\ objects[t] \subseteq objects'[t]
                  /\ artifact[t] # 0 => artifact'[t] = artifact[t]

\* The answer a worker carries was received; before the artifact's row is committed, its object
\* is stored or another artifact was found; before the task completes, there is one.
Delivers(w) ==
  LET t == cur[w]  a == mem[w].ans IN
  /\ pc[w] \in {"respond", "answered", "put", "reject"} => Received(t, a)
  /\ pc[w] = "artifact" => IF a = 0 THEN artifact[t] # 0 ELSE Received(t, a) /\ a \in objects[t]
  /\ pc[w] = "complete" => artifact[t] # 0

\* The same of what the database holds of a task.
Delivered(t) ==
  /\ ckpt[t].stage = "model_responded" => Received(t, ckpt[t].ans)
  /\ tStatus[t] = "completed" => artifact[t] # 0
  /\ artifact[t] # 0 => Received(t, artifact[t]) /\ artifact[t] \in objects[t]

\* Every step keeps the open rows apart, and the received answers.
LEMMA StepKeepsRows ==
  ASSUME TypeOK, RowCharged, RowsOpen, [Next]_vars
  PROVE  RowsOpen' /\ AnswersKept
<1>1. CASE OtherStep \/ UNCHANGED vars
  BY Zenon, <1>1, OtherFrames DEF RowsOpen, AnswersKept, Received, Receives, vars, db, world, worker
<1>2. ASSUME NEW w \in Worker, StepOf(w) PROVE RowsOpen' /\ AnswersKept
  <2>1. Alone(w) /\ (Quiet(w) \/ Asks(w))
    BY Zenon, <1>2, WorkerFrames DEF TypeOK
  <2>2. CASE Quiet(w)
    <3>1. AnswersKept
      BY Zenon, <2>2 DEF Quiet, AnswersKept, Received, Receives
    <3>2. RowsOpen'
      BY <2>1, <2>2 DEF Quiet, Alone, Calling, RowsOpen
    <3> QED
      BY <3>1, <3>2
  <2> QED
    BY Zenon, <2>1, <2>2, AsksKeepsRows
<1> QED
  BY Zenon, <1>1, <1>2, NextSteps

\* No step removes an object or replaces an artifact (commit_artifact inserts under a unique key).
LEMMA StepKeepsOutputs ==
  ASSUME TypeOK, [Next]_vars
  PROVE  OutputsKept
<1>0. DbOK /\ WorkerOK /\ WorldOK
  BY Zenon DEF TypeOK
<1>1. CASE OtherStep \/ UNCHANGED vars
  <2>1. UNCHANGED <<artifact, objects>>
    BY Zenon, <1>1 DEF OtherStep, StartMission, CancelMission, RetryTask, RequestStep, StartEnqueue, CancelCommit,
       RetryEnqueue, RetryCommit, ApiCrash, OrphanExpires, LeaseLapses, db, redis, world, vars
  <2> QED
    BY Zenon, <2>1 DEF OutputsKept
<1>2. ASSUME NEW w \in Worker, StepOf(w) PROVE OutputsKept
  <2>1. CASE UNCHANGED <<artifact, objects>>
    BY Zenon, <2>1 DEF OutputsKept
  <2>2. CASE PutObject(w) \/ RejectOutput(w)
    BY <1>0, <2>2 DEF PutObject, RejectOutput, db, WorldOK, OutputsKept
  <2>3. CASE CommitArtifact(w)
    BY <1>0, <2>3 DEF CommitArtifact, world, DbOK, OutputsKept
  <2>4. CASE \/ Begin(w) \/ SavePrompt(w) \/ ReplySucceeds(w) \/ SaveResponse(w) \/ Validate(w) \/ CompleteTask(w)
    <3>1. UNCHANGED <<artifact, objects>>
      BY Zenon, <2>4 DEF Begin, SavePrompt, ReplySucceeds, SaveResponse, Validate, CompleteTask, Finish, db, world
    <3> QED
      BY Zenon, <2>1, <3>1
  <2> QED
    BY Zenon, <1>0, <1>2, <2>1, <2>2, <2>3, <2>4, OutputFrames DEF Silent, Produces
<1> QED
  BY Zenon, <1>1, <1>2, NextSteps

\* What another worker carries is as good after the step as before.
LEMMA OthersDeliver ==
  ASSUME TypeOK, NEW w \in Worker, Alone(w), AnswersKept, OutputsKept, NEW v \in Worker \ {w}, Delivers(v)
  PROVE  Delivers(v)'
<1>1. pc[v] \in Delivering => cur[v] \in Task /\ mem[v].ans \in Nat
  BY Zenon DEF TypeOK, WorkerOK, Mem, Busy, Holding, UnderHeartbeat, Delivering
<1>2. pc'[v] = pc[v] /\ cur'[v] = cur[v] /\ mem'[v] = mem[v]
  BY Zenon DEF Alone
<1>3. CASE pc[v] \notin Delivering
  BY Zenon, <1>2, <1>3 DEF Delivers, Delivering
<1>4. CASE pc[v] \in Delivering
  <2>1. Received(cur[v], mem[v].ans) => Receives(cur[v], mem[v].ans)
    BY Zenon, <1>1, <1>4 DEF AnswersKept
  <2>2. artifact[cur[v]] # 0 => artifact'[cur[v]] # 0
    BY Zenon, <1>1, <1>4 DEF OutputsKept
  <2>3. mem[v].ans \in objects[cur[v]] => mem[v].ans \in objects'[cur[v]]
    BY Zenon, <1>1, <1>4 DEF OutputsKept
  <2> QED
    BY Zenon, <1>2, <2>1, <2>2, <2>3 DEF Delivers, Received, Receives
<1> QED
  BY Zenon, <1>3, <1>4

\* A task whose checkpoint and artifact the step leaves alone is as delivered as before.
LEMMA StillDelivered ==
  ASSUME TypeOK, AnswersKept, OutputsKept, NEW t \in Task, Delivered(t),
         ckpt'[t] = ckpt[t], artifact'[t] = artifact[t],
         tStatus'[t] = "completed" => tStatus[t] = "completed"
  PROVE  Delivered(t)'
<1>1. ckpt[t].ans \in Nat /\ artifact[t] \in Nat
  BY Zenon DEF TypeOK, DbOK, Checkpoint
<1> QED
  BY Zenon, <1>1 DEF Delivered, Received, Receives, AnswersKept, OutputsKept

\* The inductive form of CompletedHasOutput, along the way of an answer.
Output == (\A w \in Worker : Delivers(w)) /\ (\A t \in Task : Delivered(t))

\* The steps that move an answer on keep it a received and stored one.
LEMMA ProducesDelivers ==
  ASSUME TypeOK, RowCharged, RowsOpen, Output, AnswersKept, OutputsKept,
         NEW w \in Worker, Produces(w)
  PROVE  Delivers(w)' /\ \A t \in Task : Delivered(t)'
<1>0. DbOK /\ WorkerOK /\ WorldOK
  BY Zenon DEF TypeOK
<1>1. PICK t \in Task : t = cur[w] /\ mem[w] \in Mem /\ mem[w].ans \in Nat /\ mem[w].row \in Nat
  <2>1. cur[w] \in Task /\ mem[w] \in Mem
    BY Zenon, <1>0, BusyType DEF Produces, Begin, SavePrompt, ReplySucceeds, SaveResponse, Validate,
       PutObject, CommitArtifact, RejectOutput, CompleteTask, Busy, Holding, UnderHeartbeat
  <2> QED
    BY Zenon, <2>1 DEF Mem
<1>2. /\ Delivers(w) /\ Delivered(t)
      /\ ckpt[t].ans \in Nat /\ artifact[t] \in Nat
  BY Zenon, <1>0, <1>1 DEF Output, DbOK, Checkpoint
<1> DEFINE Same(s) == /\ ckpt'[s] = ckpt[s] /\ artifact'[s] = artifact[s]
                      /\ tStatus'[s] = "completed" => tStatus[s] = "completed"
<1>3. ASSUME NEW s \in Task, Same(s) PROVE Delivered(s)'
  BY Zenon, <1>3, StillDelivered DEF Output
<1> HIDE DEF Same
<1>4. CASE Begin(w)
  <2>1. \A s \in Task : Same(s)
    BY Zenon, <1>1, <1>4 DEF Begin, db, Same
  <2>2. pc'[w] = ResumeAt(ckpt[t].stage) /\ mem'[w].ans = ckpt[t].ans /\ cur'[w] = t
    BY Zenon, <1>0, <1>1, <1>4 DEF Begin, Go, Set, WorkerOK, Mem
  <2>3. pc'[w] = "answered" => ckpt[t].stage = "model_responded"
    BY <1>0, <1>1, <2>2 DEF ResumeAt, DbOK, Checkpoint
  <2>4. pc'[w] \in {"prompt", "usage", "answered"}
    BY <1>0, <1>1, <2>2 DEF ResumeAt, DbOK, Checkpoint
  <2>5. pc'[w] = "answered" => Receives(t, ckpt[t].ans)
    BY Zenon, <1>1, <1>2, <2>3 DEF Delivered, Received, Receives, AnswersKept
  <2> QED
    BY Zenon, <1>3, <2>1, <2>2, <2>4, <2>5 DEF Delivers, Received, Receives
<1>5. CASE SavePrompt(w)
  <2>1. \A s \in Task \ {t} : Same(s)
    BY <1>0, <1>1, <1>5 DEF SavePrompt, CommitStaged, DbOK, Same
  <2>2. /\ ckpt'[t].stage = "prompt_assembled" /\ artifact' = artifact
        /\ tStatus'[t] = "completed" => tStatus[t] = "completed"
    BY <1>0, <1>1, <1>5 DEF SavePrompt, CommitStaged, DbOK
  <2>3. Delivered(t)'
    BY Zenon, <1>1, <1>2, <2>2 DEF Delivered, Received, Receives, AnswersKept, OutputsKept
  <2>4. pc'[w] = "usage"
    BY Zenon, <1>0, <1>1, <1>5 DEF SavePrompt, Go, WorkerOK
  <2>5. Delivers(w)'
    BY Zenon, <2>4 DEF Delivers, Received, Receives
  <2> QED
    BY Zenon, <1>3, <2>1, <2>3, <2>5
<1>6. CASE ReplySucceeds(w)
  <2>1. \A s \in Task : Same(s)
    BY Zenon, <1>1, <1>6 DEF ReplySucceeds, Same
  <2>2. /\ pc[w] = "reply" /\ pc'[w] = "respond" /\ cur'[w] = t /\ sent' = sent
        /\ ledger' = [ledger EXCEPT ![t] = [@ EXCEPT ![mem[w].row] = "completed"]]
    BY Zenon, <1>0, <1>1, <1>6 DEF ReplySucceeds, FinishAttempt, Go, WorkerOK, world
  <2>3. mem'[w].ans = mem[w].row
    <3>1. PICK valid \in BOOLEAN : mem'[w] = [mem[w] EXCEPT !.ans = mem[w].row, !.ok = valid, !.row = 0, !.used = 0, !.tries = 0]
      BY Zenon, <1>0, <1>1, <1>6 DEF ReplySucceeds, Set, WorkerOK
    <3> QED
      BY Zenon, <1>1, <3>1 DEF Mem
  <2>4. Receives(t, mem[w].row)
    <3>1. mem[w].row \in sent[t] /\ mem[w].row \in DOMAIN ledger[t]
      BY Zenon, <1>1, <2>2 DEF RowsOpen, RowCharged
    <3>2. mem[w].row \in DOMAIN ledger'[t] /\ ledger'[t][mem[w].row] = "completed"
      BY <1>0, <1>1, <2>2, <3>1 DEF DbOK
    <3> QED
      BY Zenon, <2>2, <3>1, <3>2 DEF Receives
  <2> QED
    BY Zenon, <1>3, <2>1, <2>2, <2>3, <2>4 DEF Delivers, Received, Receives
<1>7. CASE SaveResponse(w)
  <2>0. Receives(t, mem[w].ans)
    BY Zenon, <1>1, <1>2, <1>7 DEF SaveResponse, Delivers, AnswersKept
  <2>1. \A s \in Task \ {t} : Same(s)
    BY <1>0, <1>1, <1>7 DEF SaveResponse, DbOK, Same
  <2>2. UNCHANGED <<artifact, tStatus>> /\ cur'[w] = t
    BY Zenon, <1>1, <1>7 DEF SaveResponse
  <2>3. \/ pc'[w] = "answered" /\ mem'[w] = mem[w] /\ ckpt'[t].ans = mem[w].ans
        \/ pc'[w] = "release" /\ ckpt' = ckpt
    BY <1>0, <1>1, <1>7 DEF SaveResponse, Abandon, Go, WorkerOK, DbOK
  <2>4. CASE pc'[w] = "answered" /\ mem'[w] = mem[w] /\ ckpt'[t].ans = mem[w].ans
    <3>1. Delivers(w)'
      BY Zenon, <2>0, <2>2, <2>4 DEF Delivers, Received, Receives
    <3>2. Delivered(t)'
      BY Zenon, <1>1, <1>2, <2>0, <2>2, <2>4 DEF Delivered, Received, Receives, AnswersKept, OutputsKept
    <3> QED
      BY Zenon, <1>3, <2>1, <3>1, <3>2
  <2>5. CASE pc'[w] = "release" /\ ckpt' = ckpt
    <3>1. \A s \in Task : Same(s)
      BY Zenon, <2>2, <2>5 DEF Same
    <3> QED
      BY Zenon, <1>3, <2>5, <3>1 DEF Delivers, Received, Receives
  <2> QED
    BY Zenon, <2>3, <2>4, <2>5
<1>8. CASE Validate(w)
  <2>1. \A s \in Task : Same(s)
    BY <1>0, <1>1, <1>8 DEF Validate, CommitStaged, DbOK, Same
  <2>2. pc'[w] \in {"put", "reject", "prompt"} /\ cur'[w] = t
    BY <1>0, <1>1, <1>8 DEF Validate, Go, WorkerOK
  <2>3. mem'[w].ans = mem[w].ans
    <3>1. mem'[w] = [Committed(mem[w]) EXCEPT !.repair = mem[w].repair \/ ~ mem[w].ok]
      BY Zenon, <1>0, <1>1, <1>8 DEF Validate, Set, WorkerOK
    <3>2. Committed(mem[w]) \in Mem /\ Committed(mem[w]).ans = mem[w].ans
      BY Zenon, <1>1, CommittedType DEF Committed, Mem
    <3> QED
      BY Zenon, <3>1, <3>2 DEF Mem
  <2>4. Receives(t, mem[w].ans)
    BY Zenon, <1>1, <1>2, <1>8 DEF Validate, Delivers, AnswersKept
  <2> QED
    BY Zenon, <1>3, <2>1, <2>2, <2>3, <2>4 DEF Delivers, Received, Receives
<1>9. CASE PutObject(w)
  <2>1. \A s \in Task : Same(s)
    BY Zenon, <1>1, <1>9 DEF PutObject, db, Same
  <2>2. pc'[w] = "artifact" /\ cur'[w] = t
    BY Zenon, <1>0, <1>1, <1>9 DEF PutObject, Go, WorkerOK
  <2>3. Receives(t, mem[w].ans)
    BY Zenon, <1>1, <1>2, <1>9 DEF PutObject, Delivers, AnswersKept
  <2>4. CASE artifact[t] # 0
    <3>1. mem'[w] = [mem[w] EXCEPT !.ans = 0] /\ artifact' = artifact
      BY Zenon, <1>0, <1>1, <1>9, <2>4 DEF PutObject, Set, WorkerOK, db
    <3>2. mem'[w].ans = 0
      BY Zenon, <1>1, <3>1 DEF Mem
    <3> QED
      BY Zenon, <1>3, <2>1, <2>2, <2>4, <3>1, <3>2 DEF Delivers, Received, Receives
  <2>5. CASE artifact[t] = 0
    <3>1. mem' = mem /\ mem[w].ans \in objects'[t]
      BY <1>0, <1>1, <1>9, <2>5 DEF PutObject, WorldOK
    <3>2. mem[w].ans # 0
      <4>1. DOMAIN ledger[t] \subseteq Nat \ {0} /\ mem[w].ans \in DOMAIN ledger[t]
        BY <1>0, <1>1, <1>2, <1>9 DEF PutObject, Delivers, Received, DbOK
      <4> QED
        BY Zenon, <4>1
    <3> QED
      BY Zenon, <1>3, <2>1, <2>2, <2>3, <3>1, <3>2 DEF Delivers, Received, Receives
  <2> QED
    BY Zenon, <2>4, <2>5
<1>10. CASE CommitArtifact(w)
  <2>0. /\ IF mem[w].ans = 0 THEN artifact[t] # 0
           ELSE Received(t, mem[w].ans) /\ mem[w].ans \in objects[t]
        /\ UNCHANGED <<ckpt, tStatus, objects>> /\ cur'[w] = t
    BY Zenon, <1>1, <1>2, <1>10 DEF CommitArtifact, Delivers, world
  <2>1. \A s \in Task \ {t} : Same(s)
    BY Zenon, <1>0, <1>1, <1>10 DEF CommitArtifact, DbOK, Same
  <2>2. artifact'[t] = IF artifact[t] # 0 THEN artifact[t] ELSE mem[w].ans
    BY Zenon, <1>0, <1>1, <1>10 DEF CommitArtifact, DbOK
  <2>3. artifact'[t] # 0
    BY Zenon, <2>0, <2>2
  <2>4. Receives(t, artifact'[t]) /\ artifact'[t] \in objects[t]
    <3>1. /\ Received(t, artifact'[t]) /\ artifact'[t] \in objects[t]
          /\ artifact'[t] \in Nat
      BY Zenon, <1>1, <1>2, <2>0, <2>2 DEF Delivered
    <3> QED
      BY Zenon, <1>1, <3>1 DEF AnswersKept
  <2>5. Delivered(t)'
    BY Zenon, <1>1, <1>2, <2>0, <2>3, <2>4 DEF Delivered, Received, Receives, AnswersKept
  <2>6. pc'[w] \in {"complete", "release"}
    BY Zenon, <1>0, <1>10 DEF CommitArtifact, Abandon, Go, WorkerOK
  <2>7. Delivers(w)'
    BY Zenon, <2>0, <2>3, <2>6 DEF Delivers, Received, Receives
  <2> QED
    BY Zenon, <1>3, <2>1, <2>5, <2>7
<1>11. CASE RejectOutput(w)
  BY Zenon, <1>0, <1>1, <1>3, <1>11 DEF RejectOutput, Go, WorkerOK, db, Same, Delivers
<1>12. CASE CompleteTask(w)
  <2>1. \A s \in Task \ {t} : Same(s)
    BY Zenon, <1>0, <1>1, <1>12 DEF CompleteTask, Finish, DbOK, Same
  <2>2. UNCHANGED <<ckpt, artifact, objects>> /\ artifact[t] # 0
    BY Zenon, <1>1, <1>2, <1>12 DEF CompleteTask, Finish, Delivers, world
  <2>3. Delivered(t)'
    BY Zenon, <1>1, <1>2, <2>2 DEF Delivered, Received, Receives, AnswersKept, OutputsKept
  <2>4. pc'[w] = "release"
    BY Zenon, <1>0, <1>12 DEF CompleteTask, Finish, Go, WorkerOK
  <2>5. Delivers(w)'
    BY Zenon, <2>4 DEF Delivers, Received, Receives
  <2> QED
    BY Zenon, <1>3, <2>1, <2>3, <2>5
<1> QED
  BY Zenon, <1>4, <1>5, <1>6, <1>7, <1>8, <1>9, <1>10, <1>11, <1>12 DEF Produces

\* Every step keeps Output.
LEMMA NextOutput ==
  ASSUME TypeOK, RowCharged, RowsOpen, Output, [Next]_vars
  PROVE  Output'
<1>1. AnswersKept /\ OutputsKept
  BY Zenon, StepKeepsRows, StepKeepsOutputs
<1>2. CASE OtherStep \/ UNCHANGED vars
  <2>1. UNCHANGED <<ckpt, artifact, objects, ledger, sent, worker>>
    BY Zenon, <1>2 DEF OtherStep, StartMission, CancelMission, RetryTask, RequestStep, StartEnqueue, CancelCommit,
       RetryEnqueue, RetryCommit, ApiCrash, OrphanExpires, LeaseLapses, db, redis, world, vars
  <2>2. \A t \in Task : tStatus'[t] = "completed" => tStatus[t] = "completed"
    BY Zenon, <1>2 DEF OtherStep, StartMission, CancelMission, RetryTask, RequestStep, StartEnqueue, CancelCommit,
       RetryEnqueue, RetryCommit, ApiCrash, OrphanExpires, LeaseLapses, db, vars, TypeOK, DbOK
  <2>3. ASSUME NEW t \in Task PROVE Delivered(t)'
    BY Zenon, <1>1, <2>1, <2>2, StillDelivered DEF Output
  <2>4. ASSUME NEW w \in Worker PROVE Delivers(w)'
    BY Zenon, <2>1 DEF Output, Delivers, Received, worker
  <2> QED
    BY Zenon, <2>3, <2>4 DEF Output
<1>3. ASSUME NEW w \in Worker, StepOf(w) PROVE Output'
  <2>1. Alone(w) /\ (Silent(w) \/ Produces(w))
    BY Zenon, <1>3, WorkerFrames, OutputFrames DEF TypeOK
  <2>2. \A v \in Worker \ {w} : Delivers(v)'
    BY Zenon, <1>1, <2>1, OthersDeliver DEF Output
  <2>3. CASE Silent(w)
    <3>1. Delivers(w)'
      BY Zenon, <2>3 DEF Silent, Delivers, Delivering
    <3>2. ASSUME NEW t \in Task PROVE Delivered(t)'
      BY Zenon, <1>1, <2>3, StillDelivered DEF Silent, Output
    <3> QED
      BY Zenon, <2>2, <3>1, <3>2 DEF Output
  <2>4. CASE Produces(w)
    <3>1. Delivers(w)' /\ \A t \in Task : Delivered(t)'
      BY Zenon, <1>1, <2>4, ProducesDelivers
    <3> QED
      BY Zenon, <2>2, <3>1 DEF Output
  <2> QED
    BY Zenon, <2>1, <2>3, <2>4
<1> QED
  BY Zenon, <1>2, <1>3, NextSteps

\* Open rows are apart, and every answer carried or kept was received.
LEMMA OutputInvariant == Spec => [](RowsOpen /\ Output)
<1>1. Init => RowsOpen /\ Output
  BY DEF Init, RowsOpen, Output, Delivers, Delivered, NoCheckpoint
<1>2. TypeOK /\ RowCharged /\ RowsOpen /\ Output /\ [Next]_vars => (RowsOpen /\ Output)'
  BY Zenon, StepKeepsRows, NextOutput
<1> QED
  BY <1>1, <1>2, TypeCorrect, ChargesKept, PTL DEF Spec

\* executor.py, commit_artifact: a completed task has an artifact, of an answer that was
\* requested, charged and received, and whose object is stored, whatever crashes or races.
THEOREM CompletedIsDelivered == Spec => []CompletedHasOutput
<1>1. Output => CompletedHasOutput
  BY Zenon DEF Output, Delivered, Received, CompletedHasOutput
<1> QED
  BY <1>1, OutputInvariant, PTL

\* commit_artifact: the artifact of a task, once its row is committed, is never replaced.
THEOREM ArtifactIsKept == Spec => ArtifactIsFinal
<1>1. TypeOK /\ [Next]_vars => [\A t \in Task : artifact[t] # 0 => artifact'[t] = artifact[t]]_vars
  BY Zenon, StepKeepsOutputs DEF OutputsKept
<1> QED
  BY <1>1, TypeCorrect, PTL DEF Spec, ArtifactIsFinal

-----------------------------------------------------------------------------
(***************************************************************************)
(* The checkpoint: under the lease, it is the latest answer.               *)
(***************************************************************************)

\* Without lapses: a worker that may still ask finds no answer on the checkpoint, and one that
\* delivers carries the answer of the latest checkpoint.
Current(w) ==
  LET t == cur[w]  m == mem[w] IN
  /\ pc[w] \in Asking => ~ Answered(t)
  /\ pc[w] = "answered" => ckpt[t].stage = "model_responded" /\ ckpt[t].ans = m.ans /\ ckpt[t].ok = m.ok
  /\ pc[w] = "put" => Answered(t) /\ ckpt[t].ans = m.ans
  /\ pc[w] = "artifact" => Answered(t) /\ (m.ans # 0 => ckpt[t].ans = m.ans)

\* The artifact is the answer of the latest checkpoint.
LatestOf(t) == artifact[t] # 0 => Answered(t) /\ ckpt[t].ans = artifact[t]

\* The inductive form of OutputIsLatestAnswer.
Latest == (\A w \in Worker : Current(w)) /\ (\A t \in Task : LatestOf(t))

\* The lease keeps the other workers off the task of the step, so that their answer stays current.
LEMMA OthersCurrent ==
  ASSUME TypeOK, MutualExclusion, ~ LeaseMayLapse, NEW w \in Worker, Alone(w), NEW t \in Task, t = cur[w],
         pc[w] \in UnderHeartbeat, \A s \in Task \ {t} : ckpt'[s] = ckpt[s],
         NEW v \in Worker \ {w}, Current(v)
  PROVE  Current(v)'
<1>1. pc'[v] = pc[v] /\ cur'[v] = cur[v] /\ mem'[v] = mem[v]
  BY Zenon DEF Alone
<1>2. CASE pc[v] \notin UnderHeartbeat
  BY Zenon, <1>1, <1>2 DEF Current, UnderHeartbeat, Asking
<1>3. CASE pc[v] \in UnderHeartbeat
  <2>1. cur[v] \in Task \ {t}
    BY <1>3 DEF TypeOK, WorkerOK, MutualExclusion, Busy, Holding
  <2>2. ckpt'[cur[v]] = ckpt[cur[v]]
    BY Zenon, <2>1
  <2> QED
    BY Zenon, <1>1, <2>2 DEF Current, Answered
<1> QED
  BY Zenon, <1>2, <1>3

\* The steps that move an answer on move the one of the latest checkpoint.
LEMMA ProducesLatest ==
  ASSUME TypeOK, Output, Latest, NEW w \in Worker, NEW t \in Task, t = cur[w], Produces(w)
  PROVE  /\ pc[w] \in UnderHeartbeat /\ \A s \in Task \ {t} : ckpt'[s] = ckpt[s] /\ artifact'[s] = artifact[s]
         /\ Current(w)' /\ LatestOf(t)'
<1>0. DbOK /\ WorkerOK /\ mem[w] \in Mem /\ Current(w) /\ LatestOf(t) /\ Delivers(w)
  BY Zenon DEF TypeOK, WorkerOK, Output, Latest
<1>1. CASE Begin(w)
  <2>1. UNCHANGED <<ckpt, artifact>> /\ cur'[w] = t /\ pc[w] = "begin"
    BY Zenon, <1>1 DEF Begin, db
  <2>2. pc'[w] = ResumeAt(ckpt[t].stage) /\ mem'[w].ans = ckpt[t].ans /\ mem'[w].ok = ckpt[t].ok
    BY Zenon, <1>0, <1>1 DEF Begin, Go, Set, WorkerOK, Mem
  <2>3. \/ pc'[w] = "prompt" /\ ckpt[t].stage = "none"
        \/ pc'[w] = "usage" /\ ckpt[t].stage = "prompt_assembled"
        \/ pc'[w] = "answered" /\ ckpt[t].stage = "model_responded"
    BY <1>0, <2>2 DEF ResumeAt, DbOK, Checkpoint
  <2> QED
    BY <1>0, <2>1, <2>2, <2>3 DEF Current, LatestOf, Answered, UnderHeartbeat, Asking
<1>2. CASE SavePrompt(w)
  <2>1. /\ pc[w] = "prompt" /\ pc'[w] = "usage" /\ cur'[w] = t /\ artifact' = artifact
        /\ ckpt' = [ckpt EXCEPT ![t] = [seq |-> @.seq + 1, stage |-> "prompt_assembled", ans |-> 0, ok |-> FALSE]]
    BY Zenon, <1>0, <1>2 DEF SavePrompt, Go, WorkerOK
  <2>2. ckpt'[t].stage = "prompt_assembled" /\ \A s \in Task \ {t} : ckpt'[s] = ckpt[s]
    BY Zenon, <1>0, <2>1 DEF DbOK
  <2>3. artifact[t] = 0
    BY Zenon, <1>0, <2>1 DEF Current, LatestOf, Asking
  <2> QED
    BY Zenon, <2>1, <2>2, <2>3 DEF Current, LatestOf, Answered, UnderHeartbeat, Asking
<1>3. CASE ReplySucceeds(w)
  <2>1. pc[w] = "reply" /\ pc'[w] = "respond" /\ cur'[w] = t /\ UNCHANGED <<artifact, ckpt>>
    BY Zenon, <1>0, <1>3 DEF ReplySucceeds, Go, WorkerOK
  <2> QED
    BY Zenon, <1>0, <2>1 DEF Current, LatestOf, Answered, UnderHeartbeat, Asking
<1>4. CASE SaveResponse(w)
  <2>1. pc[w] = "respond" /\ cur'[w] = t /\ UNCHANGED artifact
    BY Zenon, <1>4 DEF SaveResponse
  <2>2. \/ /\ pc'[w] = "answered" /\ mem'[w] = mem[w]
           /\ ckpt'[t].stage = "model_responded" /\ ckpt'[t].ans = mem[w].ans /\ ckpt'[t].ok = mem[w].ok
        \/ pc'[w] = "release" /\ ckpt' = ckpt
    BY <1>0, <1>4 DEF SaveResponse, Abandon, Go, WorkerOK, DbOK
  <2>3. \A s \in Task \ {t} : ckpt'[s] = ckpt[s]
    BY Zenon, <1>0, <1>4 DEF SaveResponse, DbOK
  <2>4. artifact[t] = 0
    BY Zenon, <1>0, <2>1 DEF Current, LatestOf, Asking
  <2> QED
    BY Zenon, <2>1, <2>2, <2>3, <2>4 DEF Current, LatestOf, UnderHeartbeat, Asking
<1>5. CASE Validate(w)
  <2>1. /\ pc[w] = "answered" /\ cur'[w] = t /\ UNCHANGED <<artifact, ckpt>>
        /\ pc'[w] = IF mem[w].ok THEN "put" ELSE IF mem[w].repair THEN "reject" ELSE "prompt"
    BY Zenon, <1>0, <1>5 DEF Validate, Go, WorkerOK
  <2>2. mem'[w].ans = mem[w].ans
    <3>1. mem'[w] = [Committed(mem[w]) EXCEPT !.repair = mem[w].repair \/ ~ mem[w].ok]
      BY Zenon, <1>0, <1>5 DEF Validate, Set, WorkerOK
    <3>2. Committed(mem[w]) \in Mem /\ Committed(mem[w]).ans = mem[w].ans
      BY Zenon, <1>0, CommittedType DEF Committed, Mem
    <3> QED
      BY Zenon, <3>1, <3>2 DEF Mem
  <2> QED
    BY Zenon, <1>0, <2>1, <2>2 DEF Current, LatestOf, Answered, UnderHeartbeat, Asking
<1>6. CASE PutObject(w)
  <2>1. pc[w] = "put" /\ pc'[w] = "artifact" /\ cur'[w] = t /\ UNCHANGED <<artifact, ckpt>>
    BY Zenon, <1>0, <1>6 DEF PutObject, Go, WorkerOK, db
  <2>2. mem'[w] = mem[w] \/ mem'[w] = [mem[w] EXCEPT !.ans = 0]
    BY Zenon, <1>0, <1>6 DEF PutObject, Set, WorkerOK
  <2>3. mem'[w].ans \in {0, mem[w].ans}
    BY Zenon, <1>0, <2>2 DEF Mem
  <2> QED
    BY <1>0, <2>1, <2>3 DEF Current, LatestOf, Answered, UnderHeartbeat, Asking
<1>7. CASE CommitArtifact(w)
  <2>1. pc[w] = "artifact" /\ pc'[w] \in {"complete", "release"} /\ cur'[w] = t /\ UNCHANGED ckpt
    BY Zenon, <1>0, <1>7 DEF CommitArtifact, Abandon, Go, WorkerOK
  <2>2. /\ artifact'[t] = IF artifact[t] # 0 THEN artifact[t] ELSE mem[w].ans
        /\ \A s \in Task \ {t} : artifact'[s] = artifact[s]
    BY Zenon, <1>0, <1>7 DEF CommitArtifact, DbOK
  <2>3. LatestOf(t)'
    BY Zenon, <1>0, <2>1, <2>2 DEF Current, LatestOf, Answered, Delivers
  <2> QED
    BY Zenon, <2>1, <2>2, <2>3 DEF Current, UnderHeartbeat, Asking
<1>8. CASE RejectOutput(w)
  <2>1. pc[w] = "reject" /\ pc'[w] = "fail" /\ cur'[w] = t /\ UNCHANGED <<artifact, ckpt>>
    BY Zenon, <1>0, <1>8 DEF RejectOutput, Go, WorkerOK, db
  <2> QED
    BY Zenon, <1>0, <2>1 DEF Current, LatestOf, Answered, UnderHeartbeat, Asking
<1>9. CASE CompleteTask(w)
  <2>1. pc[w] = "complete" /\ pc'[w] = "release" /\ cur'[w] = t /\ UNCHANGED <<artifact, ckpt>>
    BY Zenon, <1>0, <1>9 DEF CompleteTask, Finish, Go, WorkerOK
  <2> QED
    BY Zenon, <1>0, <2>1 DEF Current, LatestOf, Answered, UnderHeartbeat, Asking
<1> QED
  BY Zenon, <1>1, <1>2, <1>3, <1>4, <1>5, <1>6, <1>7, <1>8, <1>9 DEF Produces

\* While no lease lapses, every step keeps Latest.
LEMMA NextLatest ==
  ASSUME TypeOK, MutualExclusion, ~ LeaseMayLapse, Output, Latest, [Next]_vars
  PROVE  Latest'
<1>1. CASE OtherStep \/ UNCHANGED vars
  <2>1. UNCHANGED <<ckpt, artifact, worker>>
    BY Zenon, <1>1 DEF OtherStep, StartMission, CancelMission, RetryTask, RequestStep, StartEnqueue, CancelCommit,
       RetryEnqueue, RetryCommit, ApiCrash, OrphanExpires, LeaseLapses, db, redis, world, vars
  <2> QED
    BY Zenon, <2>1 DEF Latest, Current, LatestOf, Answered, worker
<1>2. ASSUME NEW w \in Worker, StepOf(w) PROVE Latest'
  <2>1. Alone(w) /\ (Silent(w) \/ Produces(w))
    BY Zenon, <1>2, WorkerFrames, OutputFrames DEF TypeOK
  <2>2. CASE Silent(w)
    <3>1. Current(w)'
      <4>1. Current(w) /\ ckpt' = ckpt /\ pc'[w] \notin {"answered", "put", "artifact"}
        BY Zenon, <2>2 DEF Silent, Latest, Delivering
      <4>2. pc'[w] \in Asking => cur'[w] = cur[w] /\ ~ Answered(cur[w])
        BY Zenon, <2>2, <4>1 DEF Silent, Current
      <4> QED
        BY Zenon, <4>1, <4>2 DEF Current, Answered
    <3>2. \A v \in Worker \ {w} : Current(v)'
      <4> SUFFICES ASSUME NEW v \in Worker \ {w} PROVE Current(v)'
        OBVIOUS
      <4>1. Current(v) /\ ckpt' = ckpt /\ pc'[v] = pc[v] /\ cur'[v] = cur[v] /\ mem'[v] = mem[v]
        BY Zenon, <2>1, <2>2 DEF Silent, Latest, Alone
      <4> QED
        BY Zenon, <4>1 DEF Current, Answered
    <3>3. \A t \in Task : LatestOf(t)'
      BY Zenon, <2>2 DEF Silent, Latest, LatestOf, Answered
    <3> QED
      BY Zenon, <3>1, <3>2, <3>3 DEF Latest
  <2>3. CASE Produces(w)
    <3>1. PICK t \in Task : t = cur[w]
      BY Zenon, <2>3 DEF Produces, Begin, SavePrompt, ReplySucceeds, SaveResponse, Validate,
         PutObject, CommitArtifact, RejectOutput, CompleteTask, TypeOK, WorkerOK, Busy, Holding, UnderHeartbeat
    <3>2. /\ pc[w] \in UnderHeartbeat /\ \A s \in Task \ {t} : ckpt'[s] = ckpt[s] /\ artifact'[s] = artifact[s]
          /\ Current(w)' /\ LatestOf(t)'
      BY Zenon, <2>3, <3>1, ProducesLatest
    <3>3. \A v \in Worker \ {w} : Current(v)'
      BY Zenon, <2>1, <3>1, <3>2, OthersCurrent DEF Latest
    <3>4. \A s \in Task \ {t} : LatestOf(s)'
      BY Zenon, <3>2 DEF Latest, LatestOf, Answered
    <3> QED
      BY Zenon, <3>2, <3>3, <3>4 DEF Latest
  <2> QED
    BY Zenon, <2>1, <2>2, <2>3
<1> QED
  BY Zenon, <1>1, <1>2, NextSteps

\* Latest holds throughout where leases do not lapse.
LEMMA LatestInvariant == Spec => [](~ LeaseMayLapse => Latest)
<1>1. Init => Latest
  <2> SUFFICES ASSUME Init PROVE Latest
    OBVIOUS
  <2>1. \A w \in Worker : Current(w)
    BY DEF Init, Current, Asking
  <2>2. \A t \in Task : LatestOf(t)
    BY DEF Init, LatestOf
  <2> QED
    BY Zenon, <2>1, <2>2 DEF Latest
<1>2. TypeOK /\ MutualExclusion /\ Output /\ (~ LeaseMayLapse => Latest) /\ [Next]_vars => (~ LeaseMayLapse => Latest)'
  BY Zenon, NextLatest
<1> QED
  BY <1>1, <1>2, TypeCorrect, LeaseExcludes, OutputInvariant, PTL DEF Spec

\* checkpoints.py: while leases do not lapse, what is delivered is the answer the latest
\* checkpoint recorded; a resumed execution neither asks nor stores anything else.
THEOREM OutputStaysLatest == Spec => []OutputIsLatestAnswer
<1>1. (~ LeaseMayLapse => Latest) => OutputIsLatestAnswer
  BY Zenon DEF Latest, LatestOf, Answered, OutputIsLatestAnswer
<1> QED
  BY <1>1, LatestInvariant, PTL

\* checkpoints.py, resume: while leases do not lapse, a task whose answer is on its checkpoint
\* keeps it and is never asked about again, over any number of crashes and recoveries.
THEOREM AnswerEndsAsking == Spec => AnsweredNeverAsksAgain
<1> DEFINE Stays == \A t \in Task : Answered(t) /\ ~ LeaseMayLapse => Answered(t)' /\ sent'[t] = sent[t]
<1>1. TypeOK /\ (~ LeaseMayLapse => Latest) /\ [Next]_vars => [Stays]_vars
  <2> SUFFICES ASSUME TypeOK, Latest, [Next]_vars, NEW t \in Task, Answered(t), ~ LeaseMayLapse
               PROVE  Answered(t)' /\ sent'[t] = sent[t]
    BY Zenon
  <2>0. DbOK /\ WorldOK /\ WorkerOK
    BY Zenon DEF TypeOK
  <2>1. CASE OtherStep \/ UNCHANGED vars
    BY Zenon, <2>1, OtherFrames DEF Answered, vars, db, world
  <2>2. ASSUME NEW w \in Worker, StepOf(w) PROVE Answered(t)' /\ sent'[t] = sent[t]
    <3>1. pc[w] \in Asking => cur[w] # t
      BY Zenon DEF Latest, Current
    <3>2. ckpt'[t] = ckpt[t]
      <4>1. CASE Silent(w) \/ SavePrompt(w) \/ SaveResponse(w)
        BY <2>0, <3>1, <4>1 DEF Silent, SavePrompt, SaveResponse, DbOK, Asking
      <4>2. CASE Produces(w) /\ ~ SavePrompt(w) /\ ~ SaveResponse(w)
        BY Zenon, <4>2 DEF Produces, Begin, ReplySucceeds, Validate, PutObject, CommitArtifact, RejectOutput,
           CompleteTask, Finish, db
      <4> QED
        BY Zenon, <2>0, <2>2, <4>1, <4>2, OutputFrames
    <3>3. sent'[t] = sent[t]
      <4>1. CASE Quiet(w)
        BY Zenon, <4>1 DEF Quiet
      <4>2. CASE SendRequest(w)
        BY <2>0, <3>1, <4>2 DEF SendRequest, WorldOK, Asking
      <4>3. CASE AdmitCall(w) \/ WriteAhead(w) \/ ReplySucceeds(w) \/ ReplyFails(w)
        BY Zenon, <4>3 DEF AdmitCall, WriteAhead, ReplySucceeds, ReplyFails, world
      <4> QED
        BY Zenon, <2>0, <2>2, <4>1, <4>2, <4>3, WorkerFrames DEF Asks
    <3> QED
      BY Zenon, <3>2, <3>3 DEF Answered
  <2> QED
    BY Zenon, <2>1, <2>2, NextSteps
<1> QED
  BY <1>1, TypeCorrect, LatestInvariant, PTL DEF Spec, AnsweredNeverAsksAgain

-----------------------------------------------------------------------------
(***************************************************************************)
(* MissionLifecycle is implemented.                                        *)
(***************************************************************************)

\* The conditions of the refinement: no operator cancels or retries, and one worker runs.
\* Faults, crashes and lapses of its lease are not limited.
Undisturbed == MaxRetryOps = 0 /\ MaxCancelOps = 0 /\ \A v, w \in Worker : v = w

\* Positions after the first commit of an execution.
Executing == UnderHeartbeat \ {"begin", "prompt"}

\* What a worker remembers of its task and mission agrees with the rows.
Handles(w) ==
  LET t == cur[w]  m == mem[w] IN
  /\ pc[w] = "refail" => tStatus[t] = "running"
  /\ pc[w] = "begin"  => tStatus[t] = m.status /\ m.status \in {"queued", "running"}
  /\ pc[w] = "prompt" => m.mission = "running" /\ tStatus[t] = IF m.pending THEN "queued" ELSE "running"
  /\ pc[w] \in Executing => m.mission = "running" /\ ~ m.pending /\ tStatus[t] = "running"

\* Mission and task agree, and a task not taken up yet has no checkpoint.
Together(t) ==
  /\ \/ mStatus[t] = "draft" /\ tStatus[t] = "none"
     \/ mStatus[t] = "running" /\ tStatus[t] \in {"queued", "running"}
     \/ mStatus[t] \in {"completed", "failed"} /\ tStatus[t] = mStatus[t]
  /\ tStatus[t] \in {"none", "queued"} => ckpt[t].stage = "none"

\* No request but /start is in progress.
Starting == \A c \in Client : cpc[c] \in {"idle", "startEnqueue"}

\* The inductive invariant of the refinement.
Follows == (\A w \in Worker : Handles(w)) /\ (\A t \in Task : Together(t)) /\ Starting

\* A step keeps it, and is one of the lifecycle or leaves both statuses alone.
Abides == Follows' /\ (Lifecycle!Next \/ UNCHANGED <<mStatus, tStatus>>)

\* /start is the lifecycle's Start; the other steps of requests and leases change no status.
LEMMA OthersAbide ==
  ASSUME TypeOK, Undisturbed, Follows, OtherStep \/ UNCHANGED vars
  PROVE  Abides
<1>0. DbOK /\ ApiOK /\ WorkerOK
  BY Zenon DEF TypeOK
<1>1. UNCHANGED <<ckpt, pc, cur, mem>>
  BY Zenon, OtherFrames DEF vars, db, worker
<1>2. CASE UNCHANGED <<mStatus, tStatus>>
  <2>1. Starting'
    <3>1. CASE \E c \in Client, t \in Task : StartMission(c, t)
      BY <1>0, <3>1 DEF StartMission, ClientAt, Starting, Follows, ApiOK
    <3>2. CASE \E c \in Client, t \in Task : CancelMission(c, t) \/ RetryTask(c, t)
      <4>1. FALSE
        BY <3>2 DEF CancelMission, RetryTask, Undisturbed, TypeOK, BoundsOK
      <4> QED
        BY <4>1
    <3>3. CASE \E c \in Client : StartEnqueue(c) \/ ApiCrash(c)
      BY <1>0, <3>3 DEF StartEnqueue, ApiCrash, ClientAt, Starting, Follows, ApiOK
    <3>4. CASE \E c \in Client : CancelCommit(c) \/ RetryEnqueue(c) \/ RetryCommit(c)
      BY <3>4 DEF CancelCommit, RetryEnqueue, RetryCommit, Starting, Follows
    <3>5. CASE UNCHANGED cpc
      BY Zenon, <3>5 DEF Starting, Follows
    <3> QED
      BY Zenon, <3>1, <3>2, <3>3, <3>4, <3>5 DEF OtherStep, RequestStep, OrphanExpires, LeaseLapses, vars, api
  <2> QED
    BY Zenon, <1>1, <1>2, <2>1 DEF Abides, Follows, Handles, Together
<1>3. CASE \E c \in Client, t \in Task : StartMission(c, t)
  <2>1. PICK c \in Client, t \in Task : StartMission(c, t)
    BY <1>3
  <2>2. /\ mStatus[t] = "draft" /\ tStatus[t] = "none"
        /\ mStatus' = [mStatus EXCEPT ![t] = "running"]
        /\ tStatus' = [tStatus EXCEPT ![t] = "queued"]
    BY Zenon, <2>1 DEF StartMission, Follows, Together
  <2>3. Starting'
    BY <1>0, <2>1 DEF StartMission, ClientAt, Starting, Follows, ApiOK
  <2>4. \A s \in Task : Together(s)'
    BY <1>0, <1>1, <2>2 DEF Follows, Together, DbOK
  <2>5. ASSUME NEW w \in Worker PROVE Handles(w)'
    <3>1. CASE pc[w] \in Busy /\ cur[w] # t
      <4>1. tStatus'[cur[w]] = tStatus[cur[w]]
        BY Zenon, <1>0, <2>2, <3>1 DEF DbOK, WorkerOK
      <4> QED
        BY Zenon, <1>1, <4>1 DEF Follows, Handles
    <3>2. CASE cur[w] = t
      BY <1>1, <2>2, <3>2 DEF Follows, Handles
    <3>3. CASE pc[w] \notin Busy
      BY Zenon, <1>1, <3>3 DEF Handles, Executing, Busy, Holding, UnderHeartbeat
    <3> QED
      BY Zenon, <3>1, <3>2, <3>3
  <2> QED
    BY Zenon, <2>2, <2>3, <2>4, <2>5 DEF Abides, Follows, Lifecycle!Next, Lifecycle!Start
<1>4. CASE \E c \in Client : CancelCommit(c) \/ RetryCommit(c)
  BY <1>4 DEF CancelCommit, RetryCommit, Starting, Follows
<1> QED
  BY Zenon, <1>2, <1>3, <1>4 DEF OtherStep, CancelMission, RetryTask, RequestStep, StartEnqueue,
     RetryEnqueue, ApiCrash, OrphanExpires, LeaseLapses, vars, db

\* Steps outside an execution, and those that end one without a verdict.
Rests(w) ==
  /\ UNCHANGED <<mStatus, tStatus, ckpt, cpc>>
  /\ pc'[w] \notin UnderHeartbeat \cup {"refail"}

\* A step in the middle of an execution.
Continues(w) ==
  \/ AdmitCall(w) \/ WriteAhead(w) \/ SendRequest(w) \/ ReplySucceeds(w) \/ ReplyFails(w)
  \/ SaveResponse(w) \/ Validate(w) \/ PutObject(w) \/ CommitArtifact(w) \/ RejectOutput(w)

\* The steps that read or write the statuses.
Decides(w) ==
  \/ RegisterRecovery(w) \/ FailAfterMaxRequeues(w) \/ Lookup(w) \/ Begin(w) \/ SavePrompt(w)
  \/ CompleteTask(w) \/ FailTask(w)

\* Every step of a worker is of one of the three kinds.
LEMMA LifecycleFrames ==
  ASSUME WorkerOK, NEW w \in Worker, StepOf(w)
  PROVE  Rests(w) \/ Continues(w) \/ Decides(w)
<1>1. CASE SweepSelect(w)
  BY <1>1 DEF SweepSelect, Drop, Go, Set, WorkerOK, Rests, UnderHeartbeat, db, api
<1>2. CASE SweepDone(w)
  BY <1>2 DEF SweepDone, Drop, Go, Set, WorkerOK, Rests, UnderHeartbeat, db, api
<1>3. CASE CountRecovery(w)
  BY <1>3 DEF CountRecovery, Drop, Go, Set, WorkerOK, Rests, UnderHeartbeat, db, api
<1>4. CASE SweepEnqueue(w)
  BY <1>4 DEF SweepEnqueue, Drop, Go, Set, WorkerOK, Rests, UnderHeartbeat, db, api
<1>5. CASE Dequeue(w)
  BY <1>5 DEF Dequeue, Drop, Go, Set, WorkerOK, Rests, UnderHeartbeat, db, api
<1>6. CASE DequeueTimeout(w)
  BY <1>6 DEF DequeueTimeout, Drop, Go, Set, WorkerOK, Rests, UnderHeartbeat, db, api
<1>7. CASE Acquire(w)
  BY <1>7 DEF Acquire, Drop, Go, Set, WorkerOK, Rests, UnderHeartbeat, db, api
<1>8. CASE Release(w)
  BY <1>8 DEF Release, Drop, Go, Set, WorkerOK, Rests, UnderHeartbeat, db, api
<1>9. CASE PutBack(w)
  BY <1>9 DEF PutBack, Drop, Go, Set, WorkerOK, Rests, UnderHeartbeat, db, api
<1>10. CASE Restart(w)
  BY <1>10 DEF Restart, Drop, Go, Set, WorkerOK, Rests, UnderHeartbeat, db, api
<1>11. CASE ExecutionRaises(w)
  BY <1>11 DEF ExecutionRaises, Abandon, Drop, Go, Set, WorkerOK, Rests, UnderHeartbeat, db, api
<1>12. CASE LoopRaises(w)
  BY <1>12 DEF LoopRaises, Drop, Go, Set, WorkerOK, Rests, UnderHeartbeat, db, api
<1>13. CASE LeaseLost(w)
  BY <1>13 DEF LeaseLost, Abandon, Drop, Go, Set, WorkerOK, Rests, UnderHeartbeat, db, api
<1>14. CASE Crash(w)
  BY <1>14 DEF Crash, Drop, Go, Set, WorkerOK, Rests, UnderHeartbeat, db, api
<1>15. CASE \E t \in Task : SweepCheckLease(w, t)
  BY <1>15 DEF SweepCheckLease, Go, WorkerOK, Rests, UnderHeartbeat, db, api
<1> QED
  BY Zenon, <1>1, <1>2, <1>3, <1>4, <1>5, <1>6, <1>7, <1>8, <1>9, <1>10, <1>11, <1>12, <1>13, <1>14, <1>15
  DEF StepOf, WorkerStep, Sweep, ProcessTask, ExecuteTask, Continues, Decides

\* What an execution holds of its mission and of the switch to running, from step to step.
LEMMA ContinuesFields ==
  ASSUME TypeOK, NEW w \in Worker, Continues(w), ~ mem[w].pending
  PROVE  /\ pc[w] \in Executing /\ cur'[w] = cur[w] /\ UNCHANGED <<mStatus, tStatus, cpc>>
         /\ pc'[w] = "release" \/ /\ pc'[w] \in Executing \cup {"prompt"}
                                  /\ mem'[w].mission = mem[w].mission /\ ~ mem'[w].pending
         /\ \A s \in Task \ {cur[w]} : ckpt'[s] = ckpt[s]
<1>0. DbOK /\ WorkerOK /\ mem[w] \in Mem
  BY Zenon DEF TypeOK, WorkerOK
<1> DEFINE Same == mem'[w].mission = mem[w].mission /\ ~ mem'[w].pending
<1>1. Committed(mem[w]) \in Mem /\ Committed(mem[w]).mission = mem[w].mission /\ ~ Committed(mem[w]).pending
  BY Zenon, <1>0, CommittedType DEF Committed, Mem
<1>2. CASE AdmitCall(w)
  <2>1. mem'[w] = mem[w] \/ mem'[w] = [mem[w] EXCEPT !.used = Len(ledger[cur[w]]), !.tries = 1]
    BY Zenon, <1>0, <1>2 DEF AdmitCall, Set, WorkerOK
  <2>2. Same
    BY Zenon, <1>0, <2>1 DEF Mem
  <2> QED
    BY Zenon, <1>0, <1>2, <2>2 DEF AdmitCall, Go, WorkerOK, Executing, UnderHeartbeat, db, api
<1>3. CASE WriteAhead(w)
  <2>1. mem'[w] = [Committed(mem[w]) EXCEPT !.row = Len(ledger[cur[w]]) + 1]
    BY Zenon, <1>0, <1>3 DEF WriteAhead, Set, WorkerOK
  <2>2. Same
    BY Zenon, <1>1, <2>1 DEF Mem
  <2> QED
    BY Zenon, <1>0, <1>3, <2>2 DEF WriteAhead, CommitStaged, Go, WorkerOK, Executing, UnderHeartbeat, api
<1>4. CASE SendRequest(w)
  BY Zenon, <1>0, <1>4 DEF SendRequest, Go, WorkerOK, Executing, UnderHeartbeat, db, api
<1>5. CASE ReplySucceeds(w)
  <2>1. \E valid \in BOOLEAN :
          mem'[w] = [mem[w] EXCEPT !.ans = mem[w].row, !.ok = valid, !.row = 0, !.used = 0, !.tries = 0]
    BY Zenon, <1>0, <1>5 DEF ReplySucceeds, Set, WorkerOK
  <2>2. Same
    BY Zenon, <1>0, <2>1 DEF Mem
  <2> QED
    BY Zenon, <1>0, <1>5, <2>2 DEF ReplySucceeds, Go, WorkerOK, Executing, UnderHeartbeat, api
<1>6. CASE ReplyFails(w)
  <2>1. \/ mem'[w] = [mem[w] EXCEPT !.row = 0, !.tries = @ + 1]
        \/ mem'[w] = [mem[w] EXCEPT !.row = 0, !.used = 0, !.tries = 0]
    BY Zenon, <1>0, <1>6 DEF ReplyFails, Set, WorkerOK
  <2>2. Same
    BY Zenon, <1>0, <2>1 DEF Mem
  <2> QED
    BY Zenon, <1>0, <1>6, <2>2 DEF ReplyFails, Go, WorkerOK, Executing, UnderHeartbeat, api
<1>7. CASE SaveResponse(w)
  <2>1. pc'[w] = "release" \/ (pc'[w] = "answered" /\ mem'[w] = mem[w])
    BY Zenon, <1>0, <1>7 DEF SaveResponse, Abandon, Go, WorkerOK
  <2>2. \A s \in Task \ {cur[w]} : ckpt'[s] = ckpt[s]
    BY Zenon, <1>0, <1>7 DEF SaveResponse, DbOK
  <2> QED
    BY Zenon, <1>0, <1>7, <2>1, <2>2 DEF SaveResponse, Executing, UnderHeartbeat, api
<1>8. CASE Validate(w)
  <2>1. mem'[w] = [Committed(mem[w]) EXCEPT !.repair = mem[w].repair \/ ~ mem[w].ok]
    BY Zenon, <1>0, <1>8 DEF Validate, Set, WorkerOK
  <2>2. Same
    BY Zenon, <1>1, <2>1 DEF Mem
  <2> QED
    BY Zenon, <1>0, <1>8, <2>2 DEF Validate, CommitStaged, Go, WorkerOK, Executing, UnderHeartbeat, api
<1>9. CASE PutObject(w)
  <2>1. mem'[w] = mem[w] \/ mem'[w] = [mem[w] EXCEPT !.ans = 0]
    BY Zenon, <1>0, <1>9 DEF PutObject, Set, WorkerOK
  <2>2. Same
    BY Zenon, <1>0, <2>1 DEF Mem
  <2> QED
    BY Zenon, <1>0, <1>9, <2>2 DEF PutObject, Go, WorkerOK, Executing, UnderHeartbeat, db, api
<1>10. CASE CommitArtifact(w)
  BY Zenon, <1>0, <1>10 DEF CommitArtifact, Abandon, Go, WorkerOK, Executing, UnderHeartbeat, api
<1>11. CASE RejectOutput(w)
  <2>1. mem'[w] = mem[w] \/ mem'[w] = [mem[w] EXCEPT !.rawAns = mem[w].ans]
    BY Zenon, <1>0, <1>11 DEF RejectOutput, Set, WorkerOK
  <2>2. Same
    BY Zenon, <1>0, <2>1 DEF Mem
  <2> QED
    BY Zenon, <1>0, <1>11, <2>2 DEF RejectOutput, Go, WorkerOK, Executing, UnderHeartbeat, db, api
<1> QED
  BY Zenon, <1>2, <1>3, <1>4, <1>5, <1>6, <1>7, <1>8, <1>9, <1>10, <1>11 DEF Continues

\* One worker runs, so its own part of the invariant is the whole of the workers' part.
LEMMA WorkerAbides ==
  ASSUME TypeOK, Undisturbed, Follows, NEW w \in Worker, StepOf(w),
         Handles(w)', \A t \in Task : Together(t)', UNCHANGED cpc,
         Lifecycle!Next \/ UNCHANGED <<mStatus, tStatus>>
  PROVE  Abides
<1>1. \A v \in Worker : Handles(v)'
  BY DEF Undisturbed
<1> QED
  BY Zenon, <1>1 DEF Abides, Follows, Starting

\* A commit of the same final status to a running task and mission is the lifecycle's End.
LEMMA EndsTogether ==
  ASSUME TypeOK, Follows, NEW t \in Task, NEW status \in {"completed", "failed"},
         mStatus[t] = "running", tStatus[t] = "running", ckpt' = ckpt,
         tStatus' = [tStatus EXCEPT ![t] = status], mStatus' = [mStatus EXCEPT ![t] = status]
  PROVE  Lifecycle!Next /\ \A s \in Task : Together(s)'
<1>0. DbOK
  BY Zenon DEF TypeOK
<1>1. status \in TaskTransitions("running") \cap MissionTransitions("running")
  BY DEF TaskTransitions, MissionTransitions
<1>2. Lifecycle!End(t, status)
  BY Zenon, <1>1 DEF Lifecycle!End, Lifecycle!TaskTransitions, Lifecycle!MissionTransitions,
     TaskTransitions, MissionTransitions
<1>3. Lifecycle!Next
  BY Zenon, <1>2 DEF Lifecycle!Next, Lifecycle!Ends
<1>4. \A s \in Task : Together(s)'
  BY <1>0 DEF Follows, Together, DbOK
<1> QED
  BY <1>3, <1>4

\* SavePrompt takes a queued task up; the failure at the cap, and completion and failure by the
\* executor, end task and mission; every other step of the worker changes no status.
LEMMA StepAbides ==
  ASSUME TypeOK, Undisturbed, Follows, NEW w \in Worker, StepOf(w)
  PROVE  Abides
<1>0. DbOK /\ WorkerOK /\ mem[w] \in Mem /\ (pc[w] \in Busy => cur[w] \in Task)
  BY Zenon DEF TypeOK, WorkerOK
<1>1. CASE Rests(w)
  <2>1. Handles(w)'
    BY Zenon, <1>1 DEF Rests, Handles, Executing, UnderHeartbeat
  <2>2. \A t \in Task : Together(t)'
    BY Zenon, <1>1 DEF Rests, Follows, Together
  <2> QED
    BY Zenon, <1>1, <2>1, <2>2, WorkerAbides DEF Rests
<1>2. CASE Continues(w)
  <2>1. pc[w] \in Executing
    BY Zenon, <1>2 DEF Continues, AdmitCall, WriteAhead, SendRequest, ReplySucceeds, ReplyFails,
       SaveResponse, Validate, PutObject, CommitArtifact, RejectOutput, Executing, UnderHeartbeat
  <2>2. mem[w].mission = "running" /\ ~ mem[w].pending /\ tStatus[cur[w]] = "running"
    BY Zenon, <2>1 DEF Follows, Handles
  <2>3. /\ cur'[w] = cur[w] /\ UNCHANGED <<mStatus, tStatus, cpc>>
        /\ pc'[w] = "release" \/ /\ pc'[w] \in Executing \cup {"prompt"}
                                 /\ mem'[w].mission = mem[w].mission /\ ~ mem'[w].pending
        /\ \A s \in Task \ {cur[w]} : ckpt'[s] = ckpt[s]
    BY Zenon, <1>2, <2>2, ContinuesFields
  <2>4. Handles(w)'
    BY <2>2, <2>3 DEF Handles, Executing, UnderHeartbeat
  <2>5. \A t \in Task : Together(t)'
    <3> SUFFICES ASSUME NEW t \in Task PROVE Together(t)'
      OBVIOUS
    <3>1. CASE t = cur[w]
      BY Zenon, <2>2, <2>3, <3>1 DEF Follows, Together
    <3>2. CASE t # cur[w]
      BY Zenon, <2>3, <3>2 DEF Follows, Together
    <3> QED
      BY <3>1, <3>2
  <2> QED
    BY Zenon, <2>3, <2>4, <2>5, WorkerAbides
<1>3. CASE RegisterRecovery(w)
  <2>1. Handles(w)'
    BY <1>0, <1>3 DEF RegisterRecovery, Drop, Go, Set, WorkerOK, Handles, Executing, UnderHeartbeat, db
  <2>2. UNCHANGED <<mStatus, tStatus, ckpt, cpc>>
    BY Zenon, <1>3 DEF RegisterRecovery, db, api
  <2>3. \A t \in Task : Together(t)'
    BY Zenon, <2>2 DEF Follows, Together
  <2> QED
    BY Zenon, <2>1, <2>2, <2>3, WorkerAbides
<1>4. CASE Lookup(w)
  <2>1. UNCHANGED <<mStatus, tStatus, ckpt, cpc, cur>>
    BY Zenon, <1>4 DEF Lookup, db, api
  <2>2. \/ pc'[w] = "release"
        \/ /\ pc'[w] = "begin" /\ tStatus[cur[w]] \in {"queued", "running"}
           /\ mem'[w] = [NoMem EXCEPT !.status = tStatus[cur[w]], !.retry = retry[cur[w]]]
    BY Zenon, <1>0, <1>4 DEF Lookup, Go, Set, WorkerOK
  <2>3. pc'[w] = "release" \/ (pc'[w] = "begin" /\ mem'[w].status = tStatus[cur[w]] /\ tStatus[cur[w]] \in {"queued", "running"})
    BY <2>2 DEF NoMem
  <2>4. Handles(w)'
    BY Zenon, <2>1, <2>3 DEF Handles, Executing, UnderHeartbeat
  <2>5. \A t \in Task : Together(t)'
    BY Zenon, <2>1 DEF Follows, Together
  <2> QED
    BY Zenon, <2>1, <2>4, <2>5, WorkerAbides
<1>5. CASE Begin(w)
  <2>1. UNCHANGED <<mStatus, tStatus, ckpt, cpc, cur>> /\ cur[w] \in Task /\ pc[w] = "begin"
    BY Zenon, <1>0, <1>5 DEF Begin, db, api, Busy, Holding, UnderHeartbeat
  <2>2. tStatus[cur[w]] = mem[w].status /\ mem[w].status \in {"queued", "running"}
    BY Zenon, <2>1 DEF Follows, Handles
  <2>3. mStatus[cur[w]] = "running" /\ (tStatus[cur[w]] = "queued" => ckpt[cur[w]].stage = "none")
    BY Zenon, <2>1, <2>2 DEF Follows, Together
  <2>4. mem'[w].mission = mStatus[cur[w]] /\ (mem'[w].pending <=> mem[w].status # "running")
    <3>1. \E r, s, a, o : mem'[w] = [mem[w] EXCEPT !.mission = mStatus[cur[w]], !.pending = mem[w].status # "running",
                             !.retry = r, !.seq = s, !.ans = a, !.ok = o]
      BY Zenon, <1>0, <1>5 DEF Begin, Set, WorkerOK
    <3> QED
      BY Zenon, <1>0, <3>1 DEF Mem
  <2>5. pc'[w] = ResumeAt(ckpt[cur[w]].stage)
    BY Zenon, <1>0, <1>5 DEF Begin, Go, WorkerOK
  <2>6. ckpt[cur[w]].stage \in {"none", "prompt_assembled", "model_responded"}
    BY <1>0, <2>1 DEF DbOK, Checkpoint
  <2>7. Handles(w)'
    BY <2>1, <2>2, <2>3, <2>4, <2>5, <2>6 DEF Handles, Executing, UnderHeartbeat, ResumeAt
  <2>8. \A t \in Task : Together(t)'
    BY Zenon, <2>1 DEF Follows, Together
  <2> QED
    BY Zenon, <2>1, <2>7, <2>8, WorkerAbides
<1>6. CASE SavePrompt(w)
  <2>1. PICK t \in Task : t = cur[w]
    BY Zenon, <1>0, <1>6 DEF SavePrompt, Busy, Holding, UnderHeartbeat
  <2>2. mem[w].mission = "running" /\ tStatus[t] = IF mem[w].pending THEN "queued" ELSE "running"
    BY Zenon, <1>6, <2>1 DEF Follows, Handles, SavePrompt
  <2>3. mStatus[t] = "running"
    BY <2>2 DEF Follows, Together
  <2>4. /\ UNCHANGED <<mStatus, cpc>> /\ cur'[w] = t /\ pc'[w] = "usage"
        /\ tStatus' = IF mem[w].pending THEN [tStatus EXCEPT ![t] = "running"] ELSE tStatus
        /\ \A s \in Task \ {t} : ckpt'[s] = ckpt[s]
    BY <1>0, <1>6, <2>1 DEF SavePrompt, CommitStaged, Go, WorkerOK, DbOK, api
  <2>5. mem'[w].mission = "running" /\ ~ mem'[w].pending
    <3>1. mem'[w] = [Committed(mem[w]) EXCEPT !.seq = ckpt[cur[w]].seq + 1, !.ans = 0, !.ok = FALSE]
      BY Zenon, <1>0, <1>6 DEF SavePrompt, Set, WorkerOK
    <3>2. Committed(mem[w]) \in Mem /\ Committed(mem[w]).mission = mem[w].mission /\ ~ Committed(mem[w]).pending
      BY Zenon, <1>0, CommittedType DEF Committed, Mem
    <3> QED
      BY Zenon, <2>2, <3>1, <3>2 DEF Mem
  <2>6. tStatus'[t] = "running" /\ \A s \in Task \ {t} : tStatus'[s] = tStatus[s]
    BY <1>0, <2>2, <2>4 DEF DbOK
  <2>7. Handles(w)'
    BY Zenon, <2>4, <2>5, <2>6 DEF Handles, Executing, UnderHeartbeat
  <2>8. \A s \in Task : Together(s)'
    <3> SUFFICES ASSUME NEW s \in Task PROVE Together(s)'
      OBVIOUS
    <3>1. CASE s = t
      BY <2>3, <2>4, <2>6, <3>1 DEF Together
    <3>2. CASE s # t
      <4>1. mStatus'[s] = mStatus[s] /\ tStatus'[s] = tStatus[s] /\ ckpt'[s] = ckpt[s]
        BY <2>4, <2>6, <3>2
      <4> QED
        BY Zenon, <4>1 DEF Follows, Together
    <3> QED
      BY <3>1, <3>2
  <2>9. Lifecycle!Next \/ UNCHANGED <<mStatus, tStatus>>
    BY Zenon, <2>2, <2>4 DEF Lifecycle!Next, Lifecycle!TakeUp
  <2> QED
    BY Zenon, <2>4, <2>7, <2>8, <2>9, WorkerAbides
<1>7. CASE FailAfterMaxRequeues(w)
  <2>1. PICK t \in Task : t = cur[w]
    BY Zenon, <1>0, <1>7 DEF FailAfterMaxRequeues, Busy, Holding
  <2>2. tStatus[t] = "running"
    BY Zenon, <1>7, <2>1 DEF Follows, Handles, FailAfterMaxRequeues
  <2>3. mStatus[t] = "running"
    BY <2>2 DEF Follows, Together
  <2>4. /\ UNCHANGED <<ckpt, cpc>> /\ pc'[w] = "scan"
        /\ tStatus' = [tStatus EXCEPT ![t] = "failed"] /\ mStatus' = [mStatus EXCEPT ![t] = "failed"]
    BY Zenon, <1>0, <1>7, <2>1 DEF FailAfterMaxRequeues, Drop, Go, WorkerOK, api
  <2>5. Lifecycle!Next /\ \A s \in Task : Together(s)'
    BY Zenon, <2>2, <2>3, <2>4, EndsTogether
  <2>6. Handles(w)'
    BY <2>4 DEF Handles, Executing, UnderHeartbeat
  <2> QED
    BY Zenon, <2>4, <2>5, <2>6, WorkerAbides
<1>8. CASE CompleteTask(w) \/ FailTask(w)
  <2>1. PICK status \in {"completed", "failed"} :
          Finish(w, status) /\ pc[w] \in Executing /\ pc[w] \in {"complete", "fail"}
    BY <1>8 DEF CompleteTask, FailTask, Executing, UnderHeartbeat
  <2>2. PICK t \in Task : t = cur[w]
    BY <1>0, <2>1 DEF Busy, Holding, UnderHeartbeat
  <2>3. tStatus[t] = "running" /\ mem[w].mission = "running"
    BY Zenon, <2>1, <2>2 DEF Follows, Handles
  <2>4. mStatus[t] = "running"
    BY <2>3 DEF Follows, Together
  <2>5. mem[w].mission # status
    BY <2>1, <2>3
  <2>6. /\ UNCHANGED <<ckpt, cpc>> /\ pc'[w] = "release"
        /\ tStatus' = [tStatus EXCEPT ![t] = status] /\ mStatus' = [mStatus EXCEPT ![t] = status]
    BY Zenon, <1>0, <2>1, <2>2, <2>5 DEF Finish, Go, WorkerOK, api
  <2>7. Lifecycle!Next /\ \A s \in Task : Together(s)'
    BY Zenon, <2>3, <2>4, <2>6, EndsTogether
  <2>8. Handles(w)'
    BY <2>6 DEF Handles, Executing, UnderHeartbeat
  <2> QED
    BY Zenon, <2>6, <2>7, <2>8, WorkerAbides
<1> QED
  BY Zenon, <1>0, <1>1, <1>2, <1>3, <1>4, <1>5, <1>6, <1>7, <1>8, LifecycleFrames DEF Decides

\* start_mission, process_task, execute_task: with one worker and no operator request, the code
\* implements MissionLifecycle, step by step: mission and task start together, the task is taken
\* up once, both end in one commit, the same way and for good, over any crashes and recoveries.
THEOREM LifecycleIsFollowed ==
  ASSUME Undisturbed
  PROVE  Spec => Lifecycle!Init /\ [][Lifecycle!Next]_<<mStatus, tStatus>>
<1>1. Init => Follows /\ Lifecycle!Init
  <2> SUFFICES ASSUME Init PROVE Follows /\ Lifecycle!Init
    OBVIOUS
  <2>1. \A w \in Worker : Handles(w)
    BY DEF Init, Handles, Executing, UnderHeartbeat
  <2>2. (\A t \in Task : Together(t)) /\ Starting
    BY DEF Init, Together, Starting, NoCheckpoint
  <2> QED
    BY Zenon, <2>1, <2>2 DEF Init, Follows, Lifecycle!Init
<1>2. TypeOK /\ Follows /\ [Next]_vars => Abides
  BY Zenon, OthersAbide, StepAbides, NextSteps
<1>3. Abides => Follows' /\ [Lifecycle!Next]_<<mStatus, tStatus>>
  BY DEF Abides
<1> QED
  BY <1>1, <1>2, <1>3, TypeCorrect, PTL DEF Spec

=============================================================================
