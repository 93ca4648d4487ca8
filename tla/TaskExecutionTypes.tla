------------------------ MODULE TaskExecutionTypes ------------------------
(***************************************************************************)
(* The types of TaskExecution, for any sets of tasks, workers and API       *)
(* requests and any limits.                                                *)
(***************************************************************************)
EXTENDS TaskExecution, SequenceTheorems, TLAPS

-----------------------------------------------------------------------------
\* What a worker holds at first has its type.
LEMMA NoMemType == NoMem \in Mem
BY Zenon DEF NoMem, Mem, TaskStatus, MissionStatus

\* So does it after a commit.
LEMMA CommittedType == \A m \in Mem : Committed(m) \in Mem
BY ZenonT(60) DEF Committed, Mem, TaskStatus

\* The positions at which a worker works on a task, and the others.
LEMMA Labels ==
  /\ Busy \subseteq Label
  /\ {"begin", "prompt", "usage", "ahead", "send", "reply", "respond", "answered", "put", "artifact",
      "reject", "complete", "fail", "lookup", "release", "recover", "refail", "recount", "requeue",
      "acquire", "putBack"} \subseteq Busy
  /\ UnderHeartbeat \subseteq Busy
  /\ {"down", "startup", "idle", "poll", "scan"} \subseteq Label \ Busy
BY DEF Label, Busy, Holding, UnderHeartbeat

\* What a step leaves alone keeps its type.
LEMMA Keeps ==
  /\ DbOK /\ UNCHANGED db => DbOK'
  /\ RedisOK /\ UNCHANGED redis => RedisOK'
  /\ WorldOK /\ UNCHANGED world => WorldOK'
  /\ WorkerOK /\ UNCHANGED worker => WorkerOK'
  /\ ApiOK /\ UNCHANGED api => ApiOK'
  /\ BoundsOK /\ UNCHANGED bounds => BoundsOK'
BY Zenon DEF DbOK, RedisOK, WorldOK, WorkerOK, ApiOK, BoundsOK, db, redis, world, worker, api, bounds

\* A worker that moves on with its task keeps the types of its state.
LEMMA Moves ==
  ASSUME WorkerOK, NEW w \in Worker, NEW label \in Label, pc[w] \in Busy,
         Go(w, label), UNCHANGED <<cur, scan>>,
         UNCHANGED mem \/ \E m \in Mem : Set(w, m)
  PROVE  WorkerOK'
BY Zenon DEF WorkerOK, Go, Set

\* So does one that drops it.
LEMMA Drops ==
  ASSUME WorkerOK, NEW w \in Worker, NEW label \in Label \ Busy, Drop(w, label),
         scan' \in [Worker -> SUBSET Task]
  PROVE  WorkerOK'
BY Zenon, NoMemType DEF WorkerOK, Drop, Go, Set

\* Rewriting a ledger row with its outcome keeps the ledger's type.
LEMMA FinishType ==
  ASSUME ledger \in [Task -> Seq(Invocation)], NEW w \in Worker, cur[w] \in Task,
         NEW outcome \in Invocation, FinishAttempt(w, outcome)
  PROVE  ledger' \in [Task -> Seq(Invocation)]
<1> DEFINE s == ledger[cur[w]]  i == mem[w].row  r == [s EXCEPT ![i] = outcome]
<1>1. s \in Seq(Invocation)
  OBVIOUS
<1>2. CASE i \in 1..Len(s)
  <2>1. r \in Seq(Invocation)
    BY Zenon, <1>1, <1>2, ExceptSeq
  <2> QED
    BY Zenon, <2>1 DEF FinishAttempt
<1>3. CASE i \notin 1..Len(s)
  <2>1. r = s
    BY <1>1, <1>3
  <2> QED
    BY Zenon, <1>1, <2>1 DEF FinishAttempt
<1> QED
  BY Zenon, <1>2, <1>3

\* The updates of what it holds that its steps make.
LEMMA BeginUpdate ==
  ASSUME NEW m \in Mem, NEW j \in Nat, NEW k \in Nat, NEW n \in Nat,
         NEW b \in BOOLEAN, NEW p \in BOOLEAN, NEW s \in MissionStatus
  PROVE  [m EXCEPT !.mission = s, !.pending = p, !.retry = k, !.seq = n, !.ans = j, !.ok = b] \in Mem
BY Zenon DEF Mem

\* Those inside a model call.
LEMMA CallUpdates ==
  \A m \in Mem, n \in Nat :
    /\ [m EXCEPT !.seq = n, !.ans = 0, !.ok = FALSE] \in Mem
    /\ [m EXCEPT !.row = n] \in Mem
    /\ [m EXCEPT !.row = 0, !.tries = n] \in Mem
    /\ [m EXCEPT !.row = 0, !.used = 0, !.tries = 0] \in Mem
BY ZenonT(60) DEF Mem

\* The types of what it holds, field by field.
LEMMA MemFields ==
  \A m \in Mem : /\ m.retry \in Nat /\ m.seq \in Nat /\ m.ans \in Nat /\ m.row \in Nat /\ m.tries \in Nat
                 /\ m.rawAns \in Nat /\ m.ok \in BOOLEAN
BY Zenon DEF Mem

\* A worker that is busy has a task, and everywhere what it holds is a Mem.
LEMMA BusyType ==
  ASSUME WorkerOK, NEW w \in Worker, pc[w] \in Busy
  PROVE  cur[w] \in Task /\ mem[w] \in Mem
BY Zenon DEF WorkerOK

\* What a commit with the staged switch leaves in the task row.
LEMMA CommitStagedType ==
  ASSUME tStatus \in [Task -> TaskStatus], retry \in [Task -> Nat],
         NEW w \in Worker, cur[w] \in Task, mem[w] \in Mem, CommitStaged(w)
  PROVE  tStatus' \in [Task -> TaskStatus] /\ retry' \in [Task -> Nat]
<1>1. mem[w].retry \in Nat /\ "running" \in TaskStatus
  BY Zenon DEF Mem, TaskStatus
<1> QED
  BY Zenon, <1>1 DEF CommitStaged

\* What the last commit of an execution leaves in the rows.
LEMMA FinishRows ==
  ASSUME DbOK, NEW w \in Worker, cur[w] \in Task, mem[w] \in Mem,
         NEW status \in {"completed", "failed"}, Finish(w, status)
  PROVE  DbOK'
<1>1. mem[w].retry \in Nat /\ mem[w].rawAns \in Nat
  BY Zenon, MemFields
<1>2. status \in TaskStatus /\ status \in MissionStatus
  BY Zenon DEF TaskStatus, MissionStatus
<1>3. tStatus' \in [Task -> TaskStatus] /\ mStatus' \in [Task -> MissionStatus]
  BY Zenon, <1>2 DEF DbOK, Finish
<1>4. retry' \in [Task -> Nat] /\ raw' \in [Task -> Nat]
  BY Zenon, <1>1 DEF DbOK, Finish
<1> QED
  BY Zenon, <1>3, <1>4 DEF DbOK, Finish

\* StartMission keeps the types.
LEMMA StartMissionTypes ==
  ASSUME TypeOK, NEW c \in Client, NEW t \in Task, StartMission(c, t)
  PROVE  TypeOK'
<1>0. DbOK /\ RedisOK /\ WorldOK /\ WorkerOK /\ ApiOK /\ BoundsOK
  BY Zenon DEF TypeOK
<1>1. DbOK'
  BY Zenon, <1>0 DEF DbOK, StartMission, MissionStatus, TaskStatus
<1>2. ApiOK'
  BY Zenon, <1>0 DEF ApiOK, StartMission, ClientAt
<1> QED
  BY Zenon, <1>0, <1>1, <1>2, Keeps DEF TypeOK, StartMission

\* CancelMission keeps the types.
LEMMA CancelMissionTypes ==
  ASSUME TypeOK, NEW c \in Client, NEW t \in Task, CancelMission(c, t)
  PROVE  TypeOK'
<1>0. DbOK /\ RedisOK /\ WorldOK /\ WorkerOK /\ ApiOK /\ BoundsOK
  BY DEF TypeOK
<1>1. ApiOK'
  BY Zenon, <1>0 DEF ApiOK, CancelMission, ClientAt
<1>2. BoundsOK'
  BY <1>0 DEF BoundsOK, CancelMission
<1> QED
  BY Zenon, <1>0, <1>1, <1>2, Keeps DEF TypeOK, CancelMission

\* RetryTask keeps the types.
LEMMA RetryTaskTypes ==
  ASSUME TypeOK, NEW c \in Client, NEW t \in Task, RetryTask(c, t)
  PROVE  TypeOK'
<1>0. DbOK /\ RedisOK /\ WorldOK /\ WorkerOK /\ ApiOK /\ BoundsOK
  BY DEF TypeOK
<1>1. ApiOK'
  BY Zenon, <1>0 DEF ApiOK, RetryTask, ClientAt
<1>2. BoundsOK'
  BY <1>0 DEF BoundsOK, RetryTask
<1> QED
  BY <1>0, <1>1, <1>2, Keeps DEF TypeOK, RetryTask

\* StartEnqueue keeps the types.
LEMMA StartEnqueueTypes ==
  ASSUME TypeOK, NEW c \in Client, StartEnqueue(c)
  PROVE  TypeOK'
<1>0. DbOK /\ RedisOK /\ WorldOK /\ WorkerOK /\ ApiOK /\ BoundsOK
  BY Zenon DEF TypeOK
<1>1. RedisOK'
  BY <1>0 DEF RedisOK, ApiOK, StartEnqueue
<1>2. ApiOK'
  BY Zenon, <1>0 DEF ApiOK, StartEnqueue, ClientAt
<1> QED
  BY Zenon, <1>0, <1>1, <1>2, Keeps DEF TypeOK, StartEnqueue

\* CancelCommit keeps the types.
LEMMA CancelCommitTypes ==
  ASSUME TypeOK, NEW c \in Client, CancelCommit(c)
  PROVE  TypeOK'
<1>0. DbOK /\ RedisOK /\ WorldOK /\ WorkerOK /\ ApiOK /\ BoundsOK
  BY DEF TypeOK
<1>1. DbOK'
  BY Zenon, <1>0 DEF DbOK, ApiOK, CancelCommit, MissionStatus
<1>2. ApiOK'
  BY Zenon, <1>0 DEF ApiOK, CancelCommit, ClientAt
<1> QED
  BY Zenon, <1>0, <1>1, <1>2, Keeps DEF TypeOK, CancelCommit

\* RetryEnqueue keeps the types.
LEMMA RetryEnqueueTypes ==
  ASSUME TypeOK, NEW c \in Client, RetryEnqueue(c)
  PROVE  TypeOK'
<1>0. DbOK /\ RedisOK /\ WorldOK /\ WorkerOK /\ ApiOK /\ BoundsOK
  BY DEF TypeOK
<1>1. RedisOK'
  BY <1>0 DEF RedisOK, ApiOK, RetryEnqueue
<1>2. ApiOK'
  BY Zenon, <1>0 DEF ApiOK, RetryEnqueue, ClientAt
<1> QED
  BY Zenon, <1>0, <1>1, <1>2, Keeps DEF TypeOK, RetryEnqueue

\* RetryCommit keeps the types.
LEMMA RetryCommitTypes ==
  ASSUME TypeOK, NEW c \in Client, RetryCommit(c)
  PROVE  TypeOK'
<1>0. DbOK /\ RedisOK /\ WorldOK /\ WorkerOK /\ ApiOK /\ BoundsOK
  BY DEF TypeOK
<1>1. DbOK'
  BY Zenon, <1>0 DEF DbOK, ApiOK, RetryCommit, TaskStatus
<1>2. ApiOK'
  BY Zenon, <1>0 DEF ApiOK, RetryCommit, ClientAt
<1> QED
  BY Zenon, <1>0, <1>1, <1>2, Keeps DEF TypeOK, RetryCommit

\* ApiCrash keeps the types.
LEMMA ApiCrashTypes ==
  ASSUME TypeOK, NEW c \in Client, ApiCrash(c)
  PROVE  TypeOK'
<1>0. DbOK /\ RedisOK /\ WorldOK /\ WorkerOK /\ ApiOK /\ BoundsOK
  BY DEF TypeOK
<1>1. ApiOK'
  BY Zenon, <1>0 DEF ApiOK, ApiCrash, ClientAt
<1>2. BoundsOK'
  BY <1>0 DEF BoundsOK, ApiCrash, Failing
<1> QED
  BY Zenon, <1>0, <1>1, <1>2, Keeps DEF TypeOK, ApiCrash

\* SweepSelect keeps the types.
LEMMA SweepSelectTypes ==
  ASSUME TypeOK, NEW w \in Worker, SweepSelect(w)
  PROVE  TypeOK'
<1>0. DbOK /\ RedisOK /\ WorldOK /\ WorkerOK /\ ApiOK /\ BoundsOK
  BY DEF TypeOK
<1>1. WorkerOK'
  BY Zenon, <1>0, Labels DEF WorkerOK, SweepSelect, Go
<1> QED
  BY Zenon, <1>0, <1>1, Keeps DEF TypeOK, SweepSelect

\* SweepCheckLease keeps the types.
LEMMA SweepCheckLeaseTypes ==
  ASSUME TypeOK, NEW w \in Worker, NEW t \in Task, SweepCheckLease(w, t)
  PROVE  TypeOK'
<1>0. DbOK /\ RedisOK /\ WorldOK /\ WorkerOK /\ ApiOK /\ BoundsOK
  BY DEF TypeOK
<1>1. WorkerOK'
  BY <1>0, Labels DEF WorkerOK, SweepCheckLease, Go
<1> QED
  BY Zenon, <1>0, <1>1, Keeps DEF TypeOK, SweepCheckLease

\* SweepDone keeps the types.
LEMMA SweepDoneTypes ==
  ASSUME TypeOK, NEW w \in Worker, SweepDone(w)
  PROVE  TypeOK'
<1>0. DbOK /\ RedisOK /\ WorldOK /\ WorkerOK /\ ApiOK /\ BoundsOK
  BY DEF TypeOK
<1>1. WorkerOK'
  BY Zenon, <1>0, Labels DEF WorkerOK, SweepDone, Go
<1> QED
  BY Zenon, <1>0, <1>1, Keeps DEF TypeOK, SweepDone

\* RegisterRecovery keeps the types.
LEMMA RegisterRecoveryTypes ==
  ASSUME TypeOK, NEW w \in Worker, RegisterRecovery(w)
  PROVE  TypeOK'
<1>0. DbOK /\ RedisOK /\ WorldOK /\ WorkerOK /\ ApiOK /\ BoundsOK
  BY DEF TypeOK
<1>1. WorkerOK'
  <2>1. cur[w] \in Task /\ mem[w] \in Mem /\ pc[w] \in Busy
    BY Zenon, <1>0, BusyType, Labels DEF RegisterRecovery
  <2>2. retry[cur[w]] \in Nat
    BY Zenon, <1>0, <2>1 DEF DbOK
  <2>3. [NoMem EXCEPT !.retry = retry[cur[w]] + 1] \in Mem
    BY <2>2, NoMemType DEF Mem
  <2>4. CASE Drop(w, "scan")
    BY Zenon, <1>0, <2>4, Drops, Labels DEF RegisterRecovery, WorkerOK
  <2>5. CASE ~ Drop(w, "scan")
    BY Zenon, <1>0, <2>1, <2>3, <2>5, Moves, Labels DEF RegisterRecovery
  <2> QED
    BY Zenon, <2>4, <2>5
<1> QED
  BY Zenon, <1>0, <1>1, Keeps DEF TypeOK, RegisterRecovery

\* FailAfterMaxRequeues keeps the types.
LEMMA FailAfterMaxRequeuesTypes ==
  ASSUME TypeOK, NEW w \in Worker, FailAfterMaxRequeues(w)
  PROVE  TypeOK'
<1>0. DbOK /\ RedisOK /\ WorldOK /\ WorkerOK /\ ApiOK /\ BoundsOK
  BY DEF TypeOK
<1>1. DbOK'
  BY Zenon, <1>0 DEF DbOK, WorkerOK, FailAfterMaxRequeues, MissionStatus, TaskStatus
<1>2. WorkerOK'
  BY Zenon, <1>0, Drops, Labels DEF WorkerOK, FailAfterMaxRequeues
<1> QED
  BY Zenon, <1>0, <1>1, <1>2, Keeps DEF TypeOK, FailAfterMaxRequeues

\* CountRecovery keeps the types.
LEMMA CountRecoveryTypes ==
  ASSUME TypeOK, NEW w \in Worker, CountRecovery(w)
  PROVE  TypeOK'
<1>0. DbOK /\ RedisOK /\ WorldOK /\ WorkerOK /\ ApiOK /\ BoundsOK
  BY DEF TypeOK
<1>1. DbOK'
  <2>1. cur[w] \in Task /\ mem[w] \in Mem
    BY Zenon, <1>0, BusyType, Labels DEF CountRecovery
  <2>2. mem[w].retry \in Nat
    BY Zenon, <2>1, MemFields
  <2> QED
    BY Zenon, <1>0, <2>1, <2>2 DEF DbOK, CountRecovery
<1>2. WorkerOK'
  BY Zenon, <1>0, Moves, Labels DEF WorkerOK, CountRecovery
<1> QED
  BY <1>0, <1>1, <1>2, Keeps DEF TypeOK, CountRecovery

\* SweepEnqueue keeps the types.
LEMMA SweepEnqueueTypes ==
  ASSUME TypeOK, NEW w \in Worker, SweepEnqueue(w)
  PROVE  TypeOK'
<1>0. DbOK /\ RedisOK /\ WorldOK /\ WorkerOK /\ ApiOK /\ BoundsOK
  BY DEF TypeOK
<1>1. RedisOK'
  BY <1>0, Labels DEF RedisOK, WorkerOK, SweepEnqueue
<1>2. WorkerOK'
  BY Zenon, <1>0, Drops, Labels DEF WorkerOK, SweepEnqueue
<1> QED
  BY Zenon, <1>0, <1>1, <1>2, Keeps DEF TypeOK, SweepEnqueue

\* Dequeue keeps the types.
LEMMA DequeueTypes ==
  ASSUME TypeOK, NEW w \in Worker, Dequeue(w)
  PROVE  TypeOK'
<1>0. DbOK /\ RedisOK /\ WorldOK /\ WorkerOK /\ ApiOK /\ BoundsOK
  BY DEF TypeOK
<1>1. RedisOK'
  BY <1>0 DEF RedisOK, Dequeue
<1>2. WorkerOK'
  BY <1>0, Labels DEF WorkerOK, RedisOK, Dequeue, Go
<1> QED
  BY Zenon, <1>0, <1>1, <1>2, Keeps DEF TypeOK, Dequeue

\* DequeueTimeout keeps the types.
LEMMA DequeueTimeoutTypes ==
  ASSUME TypeOK, NEW w \in Worker, DequeueTimeout(w)
  PROVE  TypeOK'
<1>0. DbOK /\ RedisOK /\ WorldOK /\ WorkerOK /\ ApiOK /\ BoundsOK
  BY DEF TypeOK
<1>1. WorkerOK'
  BY Zenon, <1>0, Labels DEF WorkerOK, DequeueTimeout, Go
<1> QED
  BY Zenon, <1>0, <1>1, Keeps DEF TypeOK, DequeueTimeout

\* Acquire keeps the types.
LEMMA AcquireTypes ==
  ASSUME TypeOK, NEW w \in Worker, Acquire(w)
  PROVE  TypeOK'
<1>0. DbOK /\ RedisOK /\ WorldOK /\ WorkerOK /\ ApiOK /\ BoundsOK
  BY DEF TypeOK
<1>1. RedisOK'
  BY Zenon, <1>0 DEF RedisOK, Acquire
<1>2. WorkerOK'
  BY <1>0, Moves, Drops, Labels DEF WorkerOK, Acquire
<1> QED
  BY Zenon, <1>0, <1>1, <1>2, Keeps DEF TypeOK, Acquire

\* Lookup keeps the types.
LEMMA LookupTypes ==
  ASSUME TypeOK, NEW w \in Worker, Lookup(w)
  PROVE  TypeOK'
<1>0. DbOK /\ RedisOK /\ WorldOK /\ WorkerOK /\ ApiOK /\ BoundsOK
  BY DEF TypeOK
<1>1. WorkerOK'
  <2> DEFINE m == [NoMem EXCEPT !.status = tStatus[cur[w]], !.retry = retry[cur[w]]]
  <2>1. cur[w] \in Task /\ pc[w] \in Busy
    BY Zenon, <1>0, BusyType, Labels DEF Lookup
  <2>2. tStatus[cur[w]] \in TaskStatus /\ retry[cur[w]] \in Nat
    BY Zenon, <1>0, <2>1 DEF DbOK
  <2>3. m \in Mem
    BY Zenon, <2>2, NoMemType DEF Mem
  <2>4. UNCHANGED <<cur, scan>>
    BY Zenon DEF Lookup
  <2>5. \/ Go(w, "begin") /\ Set(w, m)
        \/ Go(w, "release") /\ UNCHANGED mem
    BY Zenon DEF Lookup
  <2> HIDE DEF m
  <2>6. CASE Go(w, "begin") /\ Set(w, m)
    BY <1>0, <2>1, <2>3, <2>4, <2>6, Moves, Labels
  <2>7. CASE Go(w, "release") /\ UNCHANGED mem
    BY Zenon, <1>0, <2>1, <2>4, <2>7, Moves, Labels
  <2> QED
    BY Zenon, <2>5, <2>6, <2>7
<1> QED
  BY Zenon, <1>0, <1>1, Keeps DEF TypeOK, Lookup

\* Release keeps the types.
LEMMA ReleaseTypes ==
  ASSUME TypeOK, NEW w \in Worker, Release(w)
  PROVE  TypeOK'
<1>0. DbOK /\ RedisOK /\ WorldOK /\ WorkerOK /\ ApiOK /\ BoundsOK
  BY DEF TypeOK
<1>1. RedisOK'
  BY Zenon, <1>0 DEF RedisOK, Release, Released
<1>2. WorkerOK'
  BY Zenon, <1>0, Drops, Labels DEF WorkerOK, Release
<1> QED
  BY Zenon, <1>0, <1>1, <1>2, Keeps DEF TypeOK, Release

\* PutBack keeps the types.
LEMMA PutBackTypes ==
  ASSUME TypeOK, NEW w \in Worker, PutBack(w)
  PROVE  TypeOK'
<1>0. DbOK /\ RedisOK /\ WorldOK /\ WorkerOK /\ ApiOK /\ BoundsOK
  BY DEF TypeOK
<1>1. RedisOK'
  BY <1>0, Labels DEF RedisOK, WorkerOK, PutBack
<1>2. WorkerOK'
  BY Zenon, <1>0, Drops, Labels DEF WorkerOK, PutBack
<1> QED
  BY Zenon, <1>0, <1>1, <1>2, Keeps DEF TypeOK, PutBack

\* Begin keeps the types.
LEMMA BeginTypes ==
  ASSUME TypeOK, NEW w \in Worker, Begin(w)
  PROVE  TypeOK'
<1>0. DbOK /\ RedisOK /\ WorldOK /\ WorkerOK /\ ApiOK /\ BoundsOK
  BY DEF TypeOK
<1>1. WorkerOK'
  <2> DEFINE found == mem[w].status = "running"
             first == mem[w].retry = 0 /\ ckpt[cur[w]].stage = "none" /\ ~ found
             r     == IF found THEN 0 ELSE IF first THEN mem[w].retry ELSE mem[w].retry + 1
             m     == [mem[w] EXCEPT !.mission = mStatus[cur[w]], !.pending = ~ found, !.retry = r,
                                     !.seq = ckpt[cur[w]].seq, !.ans = ckpt[cur[w]].ans,
                                     !.ok = ckpt[cur[w]].ok]
  <2>1. cur[w] \in Task /\ mem[w] \in Mem /\ pc[w] \in Busy
    BY Zenon, <1>0, BusyType, Labels DEF Begin, ResumeAt
  <2>2. /\ mStatus[cur[w]] \in MissionStatus /\ r \in Nat
        /\ ckpt[cur[w]].seq \in Nat /\ ckpt[cur[w]].ans \in Nat /\ ckpt[cur[w]].ok \in BOOLEAN
        /\ ckpt[cur[w]].stage \in {"none", "prompt_assembled", "model_responded"}
    <3>1. mStatus[cur[w]] \in MissionStatus /\ ckpt[cur[w]] \in Checkpoint
      BY Zenon, <1>0, <2>1 DEF DbOK
    <3>2. r \in Nat
      BY <2>1, MemFields
    <3> QED
      BY Zenon, <3>1, <3>2 DEF Checkpoint
  <2>3. m \in Mem
    <3> HIDE DEF r, found
    <3> QED BY ZenonT(60), <2>1, <2>2, BeginUpdate
  <2>4. \E label \in Label : Go(w, label) /\ Set(w, m) /\ UNCHANGED <<cur, scan>>
    BY Zenon, <2>2, Labels DEF Begin, ResumeAt
  <2> QED
    BY Zenon, <1>0, <2>1, <2>3, <2>4, Moves
<1> QED
  BY Zenon, <1>0, <1>1, Keeps DEF TypeOK, Begin

\* SavePrompt keeps the types.
LEMMA SavePromptTypes ==
  ASSUME TypeOK, NEW w \in Worker, SavePrompt(w)
  PROVE  TypeOK'
<1>0. DbOK /\ RedisOK /\ WorldOK /\ WorkerOK /\ ApiOK /\ BoundsOK
  BY DEF TypeOK
<1>1. DbOK'
  <2>1. cur[w] \in Task /\ mem[w] \in Mem /\ pc[w] \in Busy
    BY Zenon, <1>0, BusyType, Labels DEF SavePrompt
  <2>2. [seq |-> ckpt[cur[w]].seq + 1, stage |-> "prompt_assembled", ans |-> 0, ok |-> FALSE] \in Checkpoint
    BY <1>0, <2>1 DEF DbOK, Checkpoint
  <2> QED
    BY Zenon, <1>0, <2>1, <2>2, CommitStagedType DEF DbOK, SavePrompt
<1>2. WorkerOK'
  <2> DEFINE m == [Committed(mem[w]) EXCEPT !.seq = ckpt[cur[w]].seq + 1, !.ans = 0, !.ok = FALSE]
  <2>1. cur[w] \in Task /\ mem[w] \in Mem /\ pc[w] \in Busy
    BY <1>0, BusyType, Labels DEF SavePrompt
  <2>2. ckpt[cur[w]].seq \in Nat
    BY Zenon, <1>0, <2>1 DEF DbOK, Checkpoint, Mem
  <2>3. m \in Mem
    <3> DEFINE c == Committed(mem[w])  n == ckpt[cur[w]].seq + 1
    <3>0. c \in Mem
      BY Zenon, <2>1, CommittedType
    <3>1. c \in Mem /\ n \in Nat
      BY <2>2, <3>0
    <3>2. [c EXCEPT !.seq = n, !.ans = 0, !.ok = FALSE] \in Mem
      <5> HIDE DEF c, n
      <5> QED BY Zenon, <3>1, CallUpdates
    <3> QED BY Zenon, <3>2
  <2>4. \E label \in Label : Go(w, label) /\ Set(w, m) /\ UNCHANGED <<cur, scan>>
    BY Zenon, <1>0, <2>1, Labels DEF SavePrompt
  <2> QED
    BY Zenon, <1>0, <2>1, <2>3, <2>4, Moves
<1> QED
  BY Zenon, <1>0, <1>1, <1>2, Keeps DEF TypeOK, SavePrompt

\* AdmitCall keeps the types.
LEMMA AdmitCallTypes ==
  ASSUME TypeOK, NEW w \in Worker, AdmitCall(w)
  PROVE  TypeOK'
<1>0. DbOK /\ RedisOK /\ WorldOK /\ WorkerOK /\ ApiOK /\ BoundsOK
  BY DEF TypeOK
<1>1. WorkerOK'
  <2>1. cur[w] \in Task /\ mem[w] \in Mem /\ pc[w] \in Busy
    BY Zenon, <1>0, BusyType, Labels DEF AdmitCall
  <2>2. Len(ledger[cur[w]]) \in Nat
    BY <1>0, <2>1 DEF DbOK, Mem
  <2>3. [mem[w] EXCEPT !.used = Len(ledger[cur[w]]), !.tries = 1] \in Mem
    BY Zenon, <2>1, <2>2 DEF Mem
  <2> QED
    BY <1>0, <2>1, <2>3, Moves, Labels DEF AdmitCall
<1> QED
  BY Zenon, <1>0, <1>1, Keeps DEF TypeOK, AdmitCall

\* WriteAhead keeps the types.
LEMMA WriteAheadTypes ==
  ASSUME TypeOK, NEW w \in Worker, WriteAhead(w)
  PROVE  TypeOK'
<1>0. DbOK /\ RedisOK /\ WorldOK /\ WorkerOK /\ ApiOK /\ BoundsOK
  BY DEF TypeOK
<1>1. DbOK'
  <2>1. cur[w] \in Task /\ mem[w] \in Mem /\ pc[w] \in Busy
    BY Zenon, <1>0, BusyType, Labels DEF WriteAhead
  <2>2. Append(ledger[cur[w]], "requested") \in Seq(Invocation)
    BY <1>0, <2>1 DEF DbOK, Invocation
  <2> QED
    BY Zenon, <1>0, <2>1, <2>2, CommitStagedType DEF DbOK, WriteAhead
<1>2. WorkerOK'
  <2> DEFINE m == [Committed(mem[w]) EXCEPT !.row = Len(ledger[cur[w]]) + 1]
  <2>1. cur[w] \in Task /\ mem[w] \in Mem /\ pc[w] \in Busy
    BY <1>0, BusyType, Labels DEF WriteAhead
  <2>2. Len(ledger[cur[w]]) \in Nat
    BY <1>0, <2>1 DEF DbOK, Checkpoint, Mem
  <2>3. m \in Mem
    <3> DEFINE c == Committed(mem[w])  n == Len(ledger[cur[w]]) + 1
    <3>0. c \in Mem
      BY <2>1, CommittedType
    <3>1. c \in Mem /\ n \in Nat
      BY <2>2, <3>0
    <3>2. [c EXCEPT !.row = n] \in Mem
      <5> HIDE DEF c, n
      <5> QED BY Zenon, <3>1, CallUpdates
    <3> QED BY Zenon, <3>2
  <2>4. \E label \in Label : Go(w, label) /\ Set(w, m) /\ UNCHANGED <<cur, scan>>
    BY Zenon, <1>0, <2>1, Labels DEF WriteAhead
  <2> QED
    BY Zenon, <1>0, <2>1, <2>3, <2>4, Moves
<1> QED
  BY Zenon, <1>0, <1>1, <1>2, Keeps DEF TypeOK, WriteAhead

\* SendRequest keeps the types.
LEMMA SendRequestTypes ==
  ASSUME TypeOK, NEW w \in Worker, SendRequest(w)
  PROVE  TypeOK'
<1>0. DbOK /\ RedisOK /\ WorldOK /\ WorkerOK /\ ApiOK /\ BoundsOK
  BY DEF TypeOK
<1>1. WorldOK'
  <2>1. cur[w] \in Task /\ mem[w] \in Mem /\ pc[w] \in Busy
    BY Zenon, <1>0, BusyType, Labels DEF SendRequest
  <2>2. mem[w].row \in Nat
    BY Zenon, <2>1 DEF Mem
  <2> QED
    BY Zenon, <1>0, <2>1, <2>2 DEF WorldOK, SendRequest
<1>2. WorkerOK'
  BY Zenon, <1>0, Moves, Labels DEF WorkerOK, SendRequest
<1> QED
  BY Zenon, <1>0, <1>1, <1>2, Keeps DEF TypeOK, SendRequest

\* ReplySucceeds keeps the types.
LEMMA ReplySucceedsTypes ==
  ASSUME TypeOK, NEW w \in Worker, ReplySucceeds(w)
  PROVE  TypeOK'
<1>0. DbOK /\ RedisOK /\ WorldOK /\ WorkerOK /\ ApiOK /\ BoundsOK
  BY DEF TypeOK
<1>1. DbOK'
  <2>1. cur[w] \in Task
    BY Zenon, <1>0, BusyType, Labels DEF ReplySucceeds
  <2>2. ledger' \in [Task -> Seq(Invocation)]
    BY Zenon, <1>0, <2>1, FinishType DEF DbOK, ReplySucceeds, Invocation
  <2> QED
    BY Zenon, <1>0, <2>2 DEF DbOK, ReplySucceeds
<1>2. WorkerOK'
  <2>1. cur[w] \in Task /\ mem[w] \in Mem /\ pc[w] \in Busy
    BY Zenon, <1>0, BusyType, Labels DEF ReplySucceeds
  <2>3. \A valid \in BOOLEAN :
          [mem[w] EXCEPT !.ans = mem[w].row, !.ok = valid, !.row = 0, !.used = 0, !.tries = 0] \in Mem
    BY ZenonT(60), <2>1 DEF Mem
  <2> QED
    BY Zenon, <1>0, <2>1, <2>3, Moves, Labels DEF ReplySucceeds
<1> QED
  BY Zenon, <1>0, <1>1, <1>2, Keeps DEF TypeOK, ReplySucceeds

\* ReplyFails keeps the types.
LEMMA ReplyFailsTypes ==
  ASSUME TypeOK, NEW w \in Worker, ReplyFails(w)
  PROVE  TypeOK'
<1>0. DbOK /\ RedisOK /\ WorldOK /\ WorkerOK /\ ApiOK /\ BoundsOK
  BY DEF TypeOK
<1>1. DbOK'
  <2>1. cur[w] \in Task
    BY Zenon, <1>0, BusyType, Labels DEF ReplyFails
  <2>2. ledger' \in [Task -> Seq(Invocation)]
    BY Zenon, <1>0, <2>1, FinishType DEF DbOK, ReplyFails, Invocation
  <2> QED
    BY Zenon, <1>0, <2>2 DEF DbOK, ReplyFails
<1>2. WorkerOK'
  <2>1. cur[w] \in Task /\ mem[w] \in Mem /\ pc[w] \in Busy
    BY Zenon, <1>0, BusyType, Labels DEF ReplyFails
  <2>3. /\ [mem[w] EXCEPT !.row = 0, !.tries = @ + 1] \in Mem
        /\ [mem[w] EXCEPT !.row = 0, !.used = 0, !.tries = 0] \in Mem
    <3> DEFINE c == mem[w]  n == mem[w].tries + 1
    <3>1. c \in Mem /\ n \in Nat
      BY <2>1, MemFields
    <3>2. [c EXCEPT !.row = 0, !.tries = n] \in Mem /\ [c EXCEPT !.row = 0, !.used = 0, !.tries = 0] \in Mem
      <5> HIDE DEF c, n
      <5> QED BY Zenon, <3>1, CallUpdates
    <3> QED BY Zenon, <3>2
  <2> QED
    BY Zenon, <1>0, <2>1, <2>3, Moves, Labels DEF ReplyFails
<1> QED
  BY Zenon, <1>0, <1>1, <1>2, Keeps DEF TypeOK, ReplyFails

\* SaveResponse keeps the types.
LEMMA SaveResponseTypes ==
  ASSUME TypeOK, NEW w \in Worker, SaveResponse(w)
  PROVE  TypeOK'
<1>0. DbOK /\ RedisOK /\ WorldOK /\ WorkerOK /\ ApiOK /\ BoundsOK
  BY DEF TypeOK
<1>1. DbOK'
  <2>1. cur[w] \in Task /\ mem[w] \in Mem /\ pc[w] \in Busy
    BY Zenon, <1>0, BusyType, Labels DEF SaveResponse
  <2>2. [seq |-> mem[w].seq + 1, stage |-> "model_responded", ans |-> mem[w].ans, ok |-> mem[w].ok] \in Checkpoint
    BY <2>1, MemFields DEF Checkpoint
  <2> QED
    BY ZenonT(60), <1>0, <2>1, <2>2 DEF DbOK, SaveResponse
<1>2. WorkerOK'
  BY Zenon, <1>0, Moves, NoMemType, Labels
  DEF WorkerOK, SaveResponse, Abandon
<1> QED
  BY Zenon, <1>0, <1>1, <1>2, Keeps DEF TypeOK, SaveResponse

\* Validate keeps the types.
LEMMA ValidateTypes ==
  ASSUME TypeOK, NEW w \in Worker, Validate(w)
  PROVE  TypeOK'
<1>0. DbOK /\ RedisOK /\ WorldOK /\ WorkerOK /\ ApiOK /\ BoundsOK
  BY DEF TypeOK
<1>1. DbOK'
  <2>1. cur[w] \in Task /\ mem[w] \in Mem /\ pc[w] \in Busy
    BY Zenon, <1>0, BusyType, Labels DEF Validate
  <2> QED
    BY Zenon, <1>0, <2>1, CommitStagedType DEF DbOK, Validate
<1>2. WorkerOK'
  <2> DEFINE m == [Committed(mem[w]) EXCEPT !.repair = mem[w].repair \/ ~ mem[w].ok]
  <2>1. cur[w] \in Task /\ mem[w] \in Mem /\ pc[w] \in Busy
    BY <1>0, BusyType, Labels DEF Validate
  <2>3. m \in Mem
    BY Zenon, <2>1, CommittedType DEF Mem
  <2>4. \E label \in Label : Go(w, label) /\ Set(w, m) /\ UNCHANGED <<cur, scan>>
    BY Zenon, <1>0, <2>1, Labels DEF Validate
  <2> QED
    BY Zenon, <1>0, <2>1, <2>3, <2>4, Moves
<1> QED
  BY Zenon, <1>0, <1>1, <1>2, Keeps DEF TypeOK, Validate

\* PutObject keeps the types.
LEMMA PutObjectTypes ==
  ASSUME TypeOK, NEW w \in Worker, PutObject(w)
  PROVE  TypeOK'
<1>0. DbOK /\ RedisOK /\ WorldOK /\ WorkerOK /\ ApiOK /\ BoundsOK
  BY DEF TypeOK
<1>1. WorldOK'
  BY <1>0 DEF WorldOK, WorkerOK, PutObject, Mem
<1>2. WorkerOK'
  BY <1>0, Moves, Labels DEF WorkerOK, PutObject, Mem
<1> QED
  BY Zenon, <1>0, <1>1, <1>2, Keeps DEF TypeOK, PutObject

\* CommitArtifact keeps the types.
LEMMA CommitArtifactTypes ==
  ASSUME TypeOK, NEW w \in Worker, CommitArtifact(w)
  PROVE  TypeOK'
<1>0. DbOK /\ RedisOK /\ WorldOK /\ WorkerOK /\ ApiOK /\ BoundsOK
  BY DEF TypeOK
<1>1. DbOK'
  BY Zenon, <1>0 DEF DbOK, WorkerOK, CommitArtifact, Mem
<1>2. WorkerOK'
  BY Zenon, <1>0, Moves, NoMemType, Labels
  DEF WorkerOK, CommitArtifact, Abandon
<1> QED
  BY <1>0, <1>1, <1>2, Keeps DEF TypeOK, CommitArtifact

\* RejectOutput keeps the types.
LEMMA RejectOutputTypes ==
  ASSUME TypeOK, NEW w \in Worker, RejectOutput(w)
  PROVE  TypeOK'
<1>0. DbOK /\ RedisOK /\ WorldOK /\ WorkerOK /\ ApiOK /\ BoundsOK
  BY DEF TypeOK
<1>1. WorldOK'
  BY <1>0 DEF WorldOK, WorkerOK, RejectOutput, Mem
<1>2. WorkerOK'
  BY <1>0, Moves, Labels DEF WorkerOK, RejectOutput, Mem
<1> QED
  BY <1>0, <1>1, <1>2, Keeps DEF TypeOK, RejectOutput

\* CompleteTask keeps the types.
LEMMA CompleteTaskTypes ==
  ASSUME TypeOK, NEW w \in Worker, CompleteTask(w)
  PROVE  TypeOK'
<1>0. DbOK /\ RedisOK /\ WorldOK /\ WorkerOK /\ ApiOK /\ BoundsOK
  BY DEF TypeOK
<1>1. DbOK'
  <2>1. cur[w] \in Task /\ mem[w] \in Mem
    BY Zenon, <1>0, BusyType, Labels DEF CompleteTask
  <2> QED
    BY Zenon, <1>0, <2>1, FinishRows DEF CompleteTask
<1>2. WorkerOK'
  BY Zenon, <1>0, Moves, NoMemType, Labels
  DEF WorkerOK, CompleteTask, Finish
<1> QED
  BY <1>0, <1>1, <1>2, Keeps DEF TypeOK, CompleteTask, Finish

\* FailTask keeps the types.
LEMMA FailTaskTypes ==
  ASSUME TypeOK, NEW w \in Worker, FailTask(w)
  PROVE  TypeOK'
<1>0. DbOK /\ RedisOK /\ WorldOK /\ WorkerOK /\ ApiOK /\ BoundsOK
  BY DEF TypeOK
<1>1. DbOK'
  <2>1. cur[w] \in Task /\ mem[w] \in Mem
    BY Zenon, <1>0, BusyType, Labels DEF FailTask
  <2> QED
    BY Zenon, <1>0, <2>1, FinishRows DEF FailTask
<1>2. WorkerOK'
  BY Zenon, <1>0, Moves, NoMemType, Labels
  DEF WorkerOK, FailTask, Finish
<1> QED
  BY <1>0, <1>1, <1>2, Keeps DEF TypeOK, FailTask, Finish

\* ExecutionRaises keeps the types.
LEMMA ExecutionRaisesTypes ==
  ASSUME TypeOK, NEW w \in Worker, ExecutionRaises(w)
  PROVE  TypeOK'
<1>0. DbOK /\ RedisOK /\ WorldOK /\ WorkerOK /\ ApiOK /\ BoundsOK
  BY DEF TypeOK
<1>1. WorkerOK'
  BY Zenon, <1>0, Moves, NoMemType, Labels
  DEF WorkerOK, ExecutionRaises, Abandon
<1> QED
  BY Zenon, <1>0, <1>1, Keeps DEF TypeOK, ExecutionRaises

\* LeaseLost keeps the types.
LEMMA LeaseLostTypes ==
  ASSUME TypeOK, NEW w \in Worker, LeaseLost(w)
  PROVE  TypeOK'
<1>0. DbOK /\ RedisOK /\ WorldOK /\ WorkerOK /\ ApiOK /\ BoundsOK
  BY DEF TypeOK
<1>1. WorkerOK'
  BY Zenon, <1>0, Moves, NoMemType, Labels
  DEF WorkerOK, LeaseLost, Abandon
<1> QED
  BY Zenon, <1>0, <1>1, Keeps DEF TypeOK, LeaseLost

\* LoopRaises keeps the types.
LEMMA LoopRaisesTypes ==
  ASSUME TypeOK, NEW w \in Worker, LoopRaises(w)
  PROVE  TypeOK'
<1>0. DbOK /\ RedisOK /\ WorldOK /\ WorkerOK /\ ApiOK /\ BoundsOK
  BY DEF TypeOK
<1>1. RedisOK'
  <2>1. CASE pc[w] \in {"idle", "poll"}
    <3>1. queue # <<>> /\ queue' = Tail(queue) /\ UNCHANGED lease
      BY Zenon, <2>1 DEF LoopRaises
    <3>2. Tail(queue) \in Seq(Task)
      BY Zenon, <1>0, <3>1, HeadTailProperties DEF RedisOK
    <3> QED
      BY Zenon, <1>0, <3>1, <3>2 DEF RedisOK
  <2>2. CASE pc[w] \notin {"idle", "poll"}
    <3>1. UNCHANGED queue
      BY Zenon, <2>2 DEF LoopRaises
    <3>2. \/ lease' = lease
          \/ lease' = [lease EXCEPT ![cur[w]] = IF @ = Free THEN Orphan ELSE @]
          \/ lease' = [lease EXCEPT ![cur[w]] = IF @ = w THEN Free ELSE @]
          \/ lease' = [lease EXCEPT ![cur[w]] = IF @ = w THEN Orphan ELSE @]
      BY Zenon, <2>2 DEF LoopRaises, Released
    <3>3. lease' \in [Task -> Worker \cup {Free, Orphan}]
      BY Zenon, <1>0, <3>2 DEF RedisOK
    <3> QED
      BY Zenon, <1>0, <3>1, <3>3 DEF RedisOK
  <2> QED
    BY Zenon, <2>1, <2>2
<1>2. WorkerOK'
  <2>1. \/ Drop(w, "idle") /\ UNCHANGED scan
        \/ Drop(w, "poll") /\ scan' = [scan EXCEPT ![w] = {}]
        \/ Go(w, "putBack") /\ pc[w] \in {"acquire", "lookup"} /\ UNCHANGED <<cur, mem, scan>>
    BY Zenon DEF LoopRaises
  <2>2. CASE Drop(w, "idle") /\ UNCHANGED scan
    BY Zenon, <1>0, <2>2, Drops, Labels DEF WorkerOK
  <2>3. CASE Drop(w, "poll") /\ scan' = [scan EXCEPT ![w] = {}]
    BY Zenon, <1>0, <2>3, Drops, Labels DEF WorkerOK
  <2>4. CASE Go(w, "putBack") /\ pc[w] \in {"acquire", "lookup"} /\ UNCHANGED <<cur, mem, scan>>
    BY Zenon, <1>0, <2>4, Moves, Labels
  <2> QED
    BY Zenon, <2>1, <2>2, <2>3, <2>4
<1>3. BoundsOK'
  BY <1>0 DEF BoundsOK, LoopRaises, Failing
<1> QED
  BY <1>0, <1>1, <1>2, <1>3, Keeps DEF TypeOK, LoopRaises

\* Crash keeps the types.
LEMMA CrashTypes ==
  ASSUME TypeOK, NEW w \in Worker, Crash(w)
  PROVE  TypeOK'
<1>0. DbOK /\ RedisOK /\ WorldOK /\ WorkerOK /\ ApiOK /\ BoundsOK
  BY DEF TypeOK
<1>1. RedisOK'
  BY Zenon, <1>0 DEF RedisOK, Crash
<1>2. WorkerOK'
  BY Zenon, <1>0, Drops, Labels DEF WorkerOK, Crash
<1>3. BoundsOK'
  BY <1>0 DEF BoundsOK, Crash, Failing
<1> QED
  BY Zenon, <1>0, <1>1, <1>2, <1>3, Keeps DEF TypeOK, Crash

\* Restart keeps the types.
LEMMA RestartTypes ==
  ASSUME TypeOK, NEW w \in Worker, Restart(w)
  PROVE  TypeOK'
<1>0. DbOK /\ RedisOK /\ WorldOK /\ WorkerOK /\ ApiOK /\ BoundsOK
  BY DEF TypeOK
<1>1. WorkerOK'
  BY Zenon, <1>0, Labels DEF WorkerOK, Restart, Go
<1> QED
  BY Zenon, <1>0, <1>1, Keeps DEF TypeOK, Restart

\* OrphanExpires keeps the types.
LEMMA OrphanExpiresTypes ==
  ASSUME TypeOK, NEW t \in Task, OrphanExpires(t)
  PROVE  TypeOK'
<1>0. DbOK /\ RedisOK /\ WorldOK /\ WorkerOK /\ ApiOK /\ BoundsOK
  BY DEF TypeOK
<1>1. RedisOK'
  BY Zenon, <1>0 DEF RedisOK, OrphanExpires
<1> QED
  BY Zenon, <1>0, <1>1, Keeps DEF TypeOK, OrphanExpires

\* LeaseLapses keeps the types.
LEMMA LeaseLapsesTypes ==
  ASSUME TypeOK, NEW t \in Task, LeaseLapses(t)
  PROVE  TypeOK'
<1>0. DbOK /\ RedisOK /\ WorldOK /\ WorkerOK /\ ApiOK /\ BoundsOK
  BY DEF TypeOK
<1>1. RedisOK'
  BY Zenon, <1>0 DEF RedisOK, LeaseLapses
<1> QED
  BY Zenon, <1>0, <1>1, Keeps DEF TypeOK, LeaseLapses

\* Every step keeps the types.
LEMMA NextTypeOK == TypeOK /\ [Next]_vars => TypeOK'
<1> SUFFICES ASSUME TypeOK, [Next]_vars PROVE TypeOK'
  OBVIOUS
<1>1. CASE UNCHANGED vars
  BY <1>1, Keeps DEF TypeOK, vars
<1> QED
  BY ZenonT(60), StartMissionTypes, CancelMissionTypes, RetryTaskTypes, StartEnqueueTypes,
     CancelCommitTypes, RetryEnqueueTypes, RetryCommitTypes, ApiCrashTypes,
     SweepSelectTypes, SweepCheckLeaseTypes, SweepDoneTypes, RegisterRecoveryTypes,
     FailAfterMaxRequeuesTypes, CountRecoveryTypes, SweepEnqueueTypes, DequeueTypes,
     DequeueTimeoutTypes, AcquireTypes, LookupTypes, ReleaseTypes, PutBackTypes, BeginTypes,
     SavePromptTypes, AdmitCallTypes, WriteAheadTypes, SendRequestTypes, ReplySucceedsTypes,
     ReplyFailsTypes, SaveResponseTypes, ValidateTypes, PutObjectTypes, CommitArtifactTypes,
     RejectOutputTypes, CompleteTaskTypes, FailTaskTypes, ExecutionRaisesTypes,
     LeaseLostTypes, LoopRaisesTypes, CrashTypes, RestartTypes, OrphanExpiresTypes,
     LeaseLapsesTypes, <1>1
  DEF Next, RequestStep, WorkerStep, Sweep, ProcessTask, ExecuteTask

\* Initial states are well typed.
LEMMA InitTypeOK == Init => TypeOK
BY NoMemType, Labels DEF Init, TypeOK, DbOK, RedisOK, WorldOK, WorkerOK, ApiOK, BoundsOK, MissionStatus,
   TaskStatus, Checkpoint, NoCheckpoint

\* The rows, the Redis keys and what the processes hold always have their
\* types, and a worker or a request that acts on a task has one.
THEOREM TypeCorrect == Spec => []TypeOK
<1>1. Init => TypeOK
  BY Zenon, InitTypeOK
<1>2. TypeOK /\ [Next]_vars => TypeOK'
  BY Zenon, NextTypeOK
<1> QED
  BY <1>1, <1>2, PTL DEF Spec

=============================================================================
