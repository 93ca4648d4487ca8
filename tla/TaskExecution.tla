--------------------------- MODULE TaskExecution ---------------------------
(***************************************************************************)
(* How a mission's one task is started, queued, leased, executed, recovered *)
(* and retried: the API routes, the Redis queue and lease, any number of    *)
(* worker processes, and the rows they commit to Postgres.                  *)
(*                                                                         *)
(* A mission has exactly one task, so Task also names the mission.  An      *)
(* action is what happens between two points where another process can      *)
(* interleave: a commit, a Redis command or a provider call.                *)
(***************************************************************************)
EXTENDS Integers, Sequences, Transitions

CONSTANTS
  Task,             \* tasks (and their missions), custom_durable agents only
  Worker,           \* worker processes
  Client,           \* API requests that can be in flight at once
  Free, Orphan,     \* lease values: no key; a key whose token nobody holds
  NoTask,           \* what a process that works on no task holds
  MaxModelCalls,    \* BudgetPolicy.max_model_calls
  MaxAttempts,      \* ModelGateway.max_attempts
  MaxAutoRequeues,  \* worker.main.MAX_AUTO_REQUEUES
  LeaseMayLapse,    \* a live holder's lease may expire (paused process, lost Redis)
  FaultsOccur,      \* a database, object-store or Redis call may raise
  MaxFailures,      \* bound: process crashes, and exceptions outside execute_task
  MaxRetryOps,      \* bound: operator /retry requests
  MaxCancelOps      \* bound: operator /cancel requests

ASSUME ConstantsAssumption ==
  /\ Free \notin Worker /\ Orphan \notin Worker /\ Free # Orphan /\ NoTask \notin Task
  /\ MaxModelCalls \in Nat /\ MaxAttempts \in Nat /\ MaxAutoRequeues \in Nat
  /\ MaxFailures \in Nat /\ MaxRetryOps \in Nat /\ MaxCancelOps \in Nat
  /\ LeaseMayLapse \in BOOLEAN /\ FaultsOccur \in BOOLEAN

VARIABLES
  mStatus, tStatus, retry,  \* missions.status, tasks.status, tasks.retry_count
  ckpt,                     \* the task's runtime_checkpoints row of highest sequence
  ledger,                   \* model_invocations statuses of the task, by attempt
  artifact, raw,            \* the mission_output and raw_model_response artifacts
  queue, lease,             \* Redis: the task list and the lease keys
  sent, objects,            \* provider requests sent; objects stored, by answer
  pc, cur, mem, scan,       \* a worker's position, task, session and sweep ids
  cpc, creq,                \* an API request's position and task
  failures, retryOps, cancelOps

db     == <<mStatus, tStatus, retry, ckpt, ledger, artifact, raw>>
redis  == <<queue, lease>>
world  == <<sent, objects>>
worker == <<pc, cur, mem, scan>>
api    == <<cpc, creq>>
bounds == <<failures, retryOps, cancelOps>>
vars   == <<db, redis, world, worker, api, bounds>>

Invocation == {"requested", "completed", "failed"}

\* An answer is named by the attempt that obtained it; 0 is no answer.
Checkpoint == [seq : Nat, stage : {"none", "prompt_assembled", "model_responded"},
               ans : Nat, ok : BOOLEAN]
NoCheckpoint == [seq |-> 0, stage |-> "none", ans |-> 0, ok |-> FALSE]

(***************************************************************************)
(* What a worker holds in memory: the ORM objects as it loaded them (the    *)
(* session never expires them), and the locals of the running coroutine.    *)
(***************************************************************************)
Mem == [status : TaskStatus, retry : Nat, mission : MissionStatus,
        pending : BOOLEAN,   \* the switch to running is not committed yet
        seq : Nat,           \* sequence of the prompt checkpoint it acts on
        used : Nat, tries : Nat, row : Nat,   \* usage read; attempt; ledger row
        ans : Nat, ok : BOOLEAN, repair : BOOLEAN, rawAns : Nat]
NoMem == [status |-> "none", retry |-> 0, mission |-> "draft", pending |-> FALSE,
          seq |-> 0, used |-> 0, tries |-> 0, row |-> 0,
          ans |-> 0, ok |-> FALSE, repair |-> FALSE, rawAns |-> 0]

\* Positions inside execute_task, which lease.run races against the heartbeat.
\* (complete and fail: its last events are; the commit that follows is not.)
UnderHeartbeat == {"begin", "prompt", "usage", "ahead", "send", "reply", "respond",
                   "answered", "put", "artifact", "reject", "complete", "fail"}
\* Positions at which a worker believes it holds the lease of its task.
Holding == UnderHeartbeat \cup {"lookup", "release"}
\* Positions at which a worker works on a task.
Busy  == Holding \cup {"recover", "refail", "recount", "requeue", "acquire", "putBack"}
Label == Busy \cup {"down", "startup", "idle", "poll", "scan"}

DbOK ==
  /\ mStatus \in [Task -> MissionStatus]
  /\ tStatus \in [Task -> TaskStatus]
  /\ retry \in [Task -> Nat]
  /\ ckpt \in [Task -> Checkpoint]
  /\ ledger \in [Task -> Seq(Invocation)]
  /\ artifact \in [Task -> Nat]
  /\ raw \in [Task -> Nat]
RedisOK ==
  /\ queue \in Seq(Task)
  /\ lease \in [Task -> Worker \cup {Free, Orphan}]
WorldOK ==
  /\ sent \in [Task -> SUBSET Nat]
  /\ objects \in [Task -> SUBSET Nat]
WorkerOK ==
  /\ pc \in [Worker -> Label]
  /\ cur \in [Worker -> Task \cup {NoTask}]
  /\ \A w \in Worker : pc[w] \in Busy => cur[w] \in Task
  /\ mem \in [Worker -> Mem]
  /\ scan \in [Worker -> SUBSET Task]
ApiOK ==
  /\ cpc \in [Client -> {"idle", "startEnqueue", "retryFlush", "retryCommit", "cancelCommit"}]
  /\ creq \in [Client -> Task \cup {NoTask}]
  /\ \A c \in Client : cpc[c] # "idle" => creq[c] \in Task
BoundsOK == failures \in Nat /\ retryOps \in Nat /\ cancelOps \in Nat

\* The types of the rows, keys and locals, and that a worker or a request
\* that acts on a task has one.
TypeOK == DbOK /\ RedisOK /\ WorldOK /\ WorkerOK /\ ApiOK /\ BoundsOK

\* Missions as create_mission leaves them; every worker process about to start.
Init ==
  /\ mStatus = [t \in Task |-> "draft"]
  /\ tStatus = [t \in Task |-> "none"]
  /\ retry = [t \in Task |-> 0]
  /\ ckpt = [t \in Task |-> NoCheckpoint]
  /\ ledger = [t \in Task |-> <<>>]
  /\ artifact = [t \in Task |-> 0]
  /\ raw = [t \in Task |-> 0]
  /\ queue = <<>>
  /\ lease = [t \in Task |-> Free]
  /\ sent = [t \in Task |-> {}]
  /\ objects = [t \in Task |-> {}]
  /\ pc = [w \in Worker |-> "startup"]
  /\ cur = [w \in Worker |-> NoTask]
  /\ mem = [w \in Worker |-> NoMem]
  /\ scan = [w \in Worker |-> {}]
  /\ cpc = [c \in Client |-> "idle"]
  /\ creq = [c \in Client |-> NoTask]
  /\ failures = 0 /\ retryOps = 0 /\ cancelOps = 0

-----------------------------------------------------------------------------
(***************************************************************************)
(* API requests.                                                           *)
(***************************************************************************)

\* Every crash, and every exception outside execute_task, is counted.
Failing ==
  /\ failures < MaxFailures
  /\ failures' = failures + 1

ClientAt(c, label, t) ==
  /\ cpc' = [cpc EXCEPT ![c] = label]
  /\ creq' = [creq EXCEPT ![c] = t]

\* The compare-and-swap of the mission and the insert of its task, committed
\* before the task is enqueued.  Starting a mission again changes nothing.
StartMission(c, t) ==
  /\ cpc[c] = "idle"
  /\ mStatus[t] \in {"draft", "ready"}
  /\ mStatus' = [mStatus EXCEPT ![t] = "running"]
  /\ tStatus' = [tStatus EXCEPT ![t] = "queued"]
  /\ ClientAt(c, "startEnqueue", t)
  /\ UNCHANGED <<retry, ckpt, ledger, artifact, raw, redis, world, worker, bounds>>

StartEnqueue(c) ==
  /\ cpc[c] = "startEnqueue"
  /\ queue' = Append(queue, creq[c])
  /\ ClientAt(c, "idle", NoTask)
  /\ UNCHANGED <<db, lease, world, worker, bounds>>

\* /cancel reads the mission without a lock and validates the transition ...
CancelMission(c, t) ==
  /\ cpc[c] = "idle" /\ cancelOps < MaxCancelOps
  /\ "cancelled" \in MissionTransitions(mStatus[t])
  /\ cancelOps' = cancelOps + 1
  /\ ClientAt(c, "cancelCommit", t)
  /\ UNCHANGED <<db, redis, world, worker, failures, retryOps>>

\* ... and writes it; the task row is not touched.
CancelCommit(c) ==
  /\ cpc[c] = "cancelCommit"
  /\ mStatus' = [mStatus EXCEPT ![creq[c]] = "cancelled"]
  /\ ClientAt(c, "idle", NoTask)
  /\ UNCHANGED <<tStatus, retry, ckpt, ledger, artifact, raw, redis, world, worker, bounds>>

\* /retry reads the task and validates failed -> queued ...
RetryTask(c, t) ==
  /\ cpc[c] = "idle" /\ retryOps < MaxRetryOps
  /\ "queued" \in TaskTransitions(tStatus[t])
  /\ retryOps' = retryOps + 1
  /\ ClientAt(c, "retryFlush", t)
  /\ UNCHANGED <<db, redis, world, worker, failures, cancelOps>>

\* A flushed UPDATE locks the task row until its transaction ends: that of a
\* /retry, and that of a worker that has just switched the task to running.
RowUnlocked(t) ==
  /\ \A c \in Client : ~ (cpc[c] = "retryCommit" /\ creq[c] = t)
  /\ \A w \in Worker : ~ (mem[w].pending /\ cur[w] = t)

\* ... flushes the UPDATE and enqueues ...
RetryEnqueue(c) ==
  /\ cpc[c] = "retryFlush"
  /\ RowUnlocked(creq[c])
  /\ queue' = Append(queue, creq[c])
  /\ ClientAt(c, "retryCommit", creq[c])
  /\ UNCHANGED <<db, lease, world, worker, bounds>>

\* ... and only then commits, when get_db_session closes the request.
RetryCommit(c) ==
  /\ cpc[c] = "retryCommit"
  /\ tStatus' = [tStatus EXCEPT ![creq[c]] = "queued"]
  /\ ClientAt(c, "idle", NoTask)
  /\ UNCHANGED <<mStatus, retry, ckpt, ledger, artifact, raw, redis, world, worker, bounds>>

\* The API process dies, or the request raises: its transaction rolls back.
ApiCrash(c) ==
  /\ cpc[c] # "idle"
  /\ Failing
  /\ ClientAt(c, "idle", NoTask)
  /\ UNCHANGED <<db, redis, world, worker, retryOps, cancelOps>>

-----------------------------------------------------------------------------
(***************************************************************************)
(* A worker: its loop, and the sweep for running tasks that nobody leases.  *)
(***************************************************************************)

Go(w, label) == pc' = [pc EXCEPT ![w] = label]
Set(w, m)    == mem' = [mem EXCEPT ![w] = m]
\* Back to the loop, or on to the next id of the sweep, with nothing loaded.
Drop(w, label) ==
  /\ Go(w, label)
  /\ cur' = [cur EXCEPT ![w] = NoTask]
  /\ Set(w, NoMem)

\* requeue_orphaned_running_tasks: the ids of the tasks that are running now,
\* at start-up and, once the interval has passed, at the top of the loop.
SweepSelect(w) ==
  /\ pc[w] \in {"startup", "idle"}
  /\ scan' = [scan EXCEPT ![w] = {t \in Task : tStatus[t] = "running"}]
  /\ Go(w, "scan")
  /\ UNCHANGED <<db, redis, world, cur, mem, api, bounds>>

SweepCheckLease(w, t) ==
  /\ pc[w] = "scan" /\ t \in scan[w]
  /\ scan' = [scan EXCEPT ![w] = @ \ {t}]
  /\ IF lease[t] # Free
     THEN UNCHANGED <<pc, cur>>
     ELSE Go(w, "recover") /\ cur' = [cur EXCEPT ![w] = t]
  /\ UNCHANGED <<db, redis, world, mem, api, bounds>>

SweepDone(w) ==
  /\ pc[w] = "scan" /\ scan[w] = {}
  /\ Go(w, "poll")
  /\ UNCHANGED <<db, redis, world, cur, mem, scan, api, bounds>>

\* register_recovery loads the task and decides; at the cap it fails the task
\* only if the mission may move to failed.
RegisterRecovery(w) ==
  LET t == cur[w] IN
  /\ pc[w] = "recover"
  /\ \/ /\ \/ tStatus[t] # "running"
           \/ retry[t] >= MaxAutoRequeues /\ "failed" \notin MissionTransitions(mStatus[t])
        /\ Drop(w, "scan")
     \/ /\ tStatus[t] = "running" /\ retry[t] >= MaxAutoRequeues
        /\ "failed" \in MissionTransitions(mStatus[t])
        /\ Go(w, "refail") /\ UNCHANGED <<cur, mem>>
     \/ /\ tStatus[t] = "running" /\ retry[t] < MaxAutoRequeues
        /\ Go(w, "recount")
        /\ Set(w, [NoMem EXCEPT !.retry = retry[t] + 1])
        /\ UNCHANGED cur
  /\ UNCHANGED <<db, redis, world, scan, api, bounds>>

\* The sweep commits the failure at the cap ...
FailAfterMaxRequeues(w) ==
  /\ pc[w] = "refail" /\ RowUnlocked(cur[w])
  /\ tStatus' = [tStatus EXCEPT ![cur[w]] = "failed"]
  /\ mStatus' = [mStatus EXCEPT ![cur[w]] = "failed"]
  /\ Drop(w, "scan")
  /\ UNCHANGED <<retry, ckpt, ledger, artifact, raw, redis, world, scan, api, bounds>>

\* Variant with a bug: the recovery is left to the worker to count.
CountRecoveryInWorker(w) ==
  /\ pc[w] = "recount"
  /\ Go(w, "requeue")
  /\ UNCHANGED <<db, redis, world, cur, mem, scan, api, bounds>>

\* ... or the counted recovery ...
CountRecovery(w) ==
  /\ pc[w] = "recount" /\ RowUnlocked(cur[w])
  /\ retry' = [retry EXCEPT ![cur[w]] = mem[w].retry]
  /\ Go(w, "requeue")
  /\ UNCHANGED <<mStatus, tStatus, ckpt, ledger, artifact, raw, redis, world, cur, mem, scan, api, bounds>>

\* ... and only then enqueues the task.
SweepEnqueue(w) ==
  /\ pc[w] = "requeue"
  /\ queue' = Append(queue, cur[w])
  /\ Drop(w, "scan")
  /\ UNCHANGED <<db, lease, world, scan, api, bounds>>

\* BRPOP: the entry leaves Redis before anything records who took it.
Dequeue(w) ==
  /\ pc[w] \in {"idle", "poll"} /\ queue # <<>>
  /\ queue' = Tail(queue)
  /\ cur' = [cur EXCEPT ![w] = Head(queue)]
  /\ Go(w, "acquire")
  /\ UNCHANGED <<db, lease, world, mem, scan, api, bounds>>

DequeueTimeout(w) ==
  /\ pc[w] = "poll" /\ queue = <<>>
  /\ Go(w, "idle")
  /\ UNCHANGED <<db, redis, world, cur, mem, scan, api, bounds>>

-----------------------------------------------------------------------------
(***************************************************************************)
(* process_task: the lease around the lookup and the execution.            *)
(***************************************************************************)

\* Variant with a bug: SET without NX.
AcquireWithoutNX(w) ==
  /\ pc[w] = "acquire"
  /\ lease' = [lease EXCEPT ![cur[w]] = w]
  /\ Go(w, "lookup")
  /\ UNCHANGED <<db, queue, world, cur, mem, scan, api, bounds>>

\* SET NX: the entry of a task that is leased elsewhere is dropped.
Acquire(w) ==
  /\ pc[w] = "acquire"
  /\ IF lease[cur[w]] = Free
     THEN /\ lease' = [lease EXCEPT ![cur[w]] = w]
          /\ Go(w, "lookup") /\ UNCHANGED <<cur, mem>>
     ELSE Drop(w, "idle") /\ UNCHANGED lease
  /\ UNCHANGED <<db, queue, world, scan, api, bounds>>

\* The session loads the task; only a queued or running one is executed.
Lookup(w) ==
  /\ pc[w] = "lookup"
  /\ IF tStatus[cur[w]] \in {"queued", "running"}
     THEN /\ Set(w, [NoMem EXCEPT !.status = tStatus[cur[w]], !.retry = retry[cur[w]]])
          /\ Go(w, "begin")
     ELSE Go(w, "release") /\ UNCHANGED mem
  /\ UNCHANGED <<db, redis, world, cur, scan, api, bounds>>

\* What _if_ours deletes: the key, if it still holds this worker's token.
Released(w) == [lease EXCEPT ![cur[w]] = IF @ = w THEN Free ELSE @]

Release(w) ==
  /\ pc[w] = "release"
  /\ lease' = Released(w)
  /\ Drop(w, "idle")
  /\ UNCHANGED <<db, queue, world, scan, api, bounds>>

\* After an exception around the lease or the lookup the entry is put back.
PutBack(w) ==
  /\ pc[w] = "putBack"
  /\ queue' = Append(queue, cur[w])
  /\ Drop(w, "idle")
  /\ UNCHANGED <<db, lease, world, scan, api, bounds>>

-----------------------------------------------------------------------------
(***************************************************************************)
(* execute_task, the durable adapter and the model gateway.                *)
(***************************************************************************)

\* A commit of the session takes the staged switch to running with it.
CommitStaged(w) ==
  /\ tStatus' = IF mem[w].pending THEN [tStatus EXCEPT ![cur[w]] = "running"] ELSE tStatus
  /\ retry' = IF mem[w].pending THEN [retry EXCEPT ![cur[w]] = mem[w].retry] ELSE retry
Committed(m) == [m EXCEPT !.status = "running", !.pending = FALSE, !.retry = 0]

CanWriteTask(w) == mem[w].pending \/ RowUnlocked(cur[w])

\* resume: the answer is replayed, or the call made (again); without a checkpoint, execute.
ResumeAt(stage) ==
  CASE stage = "none"             -> "prompt"
    [] stage = "prompt_assembled" -> "usage"
    [] stage = "model_responded"  -> "answered"

\* Variant with a bug: every execution starts from the prompt.
BeginFromPrompt(w) ==
  /\ pc[w] = "begin"
  /\ Set(w, [mem[w] EXCEPT !.mission = mStatus[cur[w]], !.pending = mem[w].status = "queued"])
  /\ Go(w, "prompt")
  /\ UNCHANGED <<db, redis, world, cur, scan, api, bounds>>

\* Loads the mission and the latest checkpoint, stages the switch to running
\* (counting an operator's retry; the sweep has counted a recovery) and
\* decides where to resume.
Begin(w) ==
  LET t     == cur[w]
      found == mem[w].status = "running"
      first == mem[w].retry = 0 /\ ckpt[t].stage = "none" /\ ~ found
  IN
  /\ pc[w] = "begin"
  /\ found \/ RowUnlocked(t)
  /\ Set(w, [mem[w] EXCEPT !.mission = mStatus[t],
                           !.pending = ~ found,
                           !.retry   = IF found THEN 0 ELSE IF first THEN @ ELSE @ + 1,
                           !.seq     = ckpt[t].seq,
                           !.ans     = ckpt[t].ans,
                           !.ok      = ckpt[t].ok])
  /\ Go(w, ResumeAt(ckpt[t].stage))
  /\ UNCHANGED <<db, redis, world, cur, scan, api, bounds>>

\* execute: the next prompt_assembled checkpoint, committed by save.
SavePrompt(w) ==
  LET t == cur[w] IN
  /\ pc[w] = "prompt"
  /\ ckpt' = [ckpt EXCEPT ![t] = [seq |-> @.seq + 1, stage |-> "prompt_assembled", ans |-> 0, ok |-> FALSE]]
  /\ CommitStaged(w)
  /\ Set(w, [Committed(mem[w]) EXCEPT !.seq = ckpt[t].seq + 1, !.ans = 0, !.ok = FALSE])
  /\ Go(w, "usage")
  /\ UNCHANGED <<mStatus, ledger, artifact, raw, redis, world, cur, scan, api, bounds>>

\* Variant with a bug: the ceiling is compared off by one.
AdmitCallOneMore(w) ==
  LET used == Len(ledger[cur[w]]) IN
  /\ pc[w] = "usage"
  /\ used <= MaxModelCalls
  /\ Set(w, [mem[w] EXCEPT !.used = used, !.tries = 1])
  /\ Go(w, "ahead")
  /\ UNCHANGED <<db, redis, world, cur, scan, api, bounds>>

\* usage_for_task and _admit: the calls on the ledger count against the
\* ceiling; cost, elapsed time, output tokens, an unpriced model, an unknown
\* provider or an open circuit may refuse as well.
AdmitCall(w) ==
  LET used == Len(ledger[cur[w]]) IN
  /\ pc[w] = "usage"
  /\ \/ /\ used < MaxModelCalls
        /\ Set(w, [mem[w] EXCEPT !.used = used, !.tries = 1])
        /\ Go(w, "ahead")
     \/ Go(w, "fail") /\ UNCHANGED mem
  /\ UNCHANGED <<db, redis, world, cur, scan, api, bounds>>

\* Variant with a bug: the charge is left to finish_attempt.
WriteBehind(w) ==
  /\ pc[w] = "ahead"
  /\ Set(w, [mem[w] EXCEPT !.row = Len(ledger[cur[w]]) + 1])
  /\ Go(w, "send")
  /\ UNCHANGED <<db, redis, world, cur, scan, api, bounds>>

\* begin_attempt: the charge is committed before the request is sent.
WriteAhead(w) ==
  LET t == cur[w] IN
  /\ pc[w] = "ahead"
  /\ ledger' = [ledger EXCEPT ![t] = Append(@, "requested")]
  /\ CommitStaged(w)
  /\ Set(w, [Committed(mem[w]) EXCEPT !.row = Len(ledger[t]) + 1])
  /\ Go(w, "send")
  /\ UNCHANGED <<mStatus, ckpt, artifact, raw, redis, world, cur, scan, api, bounds>>

SendRequest(w) ==
  /\ pc[w] = "send"
  /\ sent' = [sent EXCEPT ![cur[w]] = @ \cup {mem[w].row}]
  /\ Go(w, "reply")
  /\ UNCHANGED <<db, redis, objects, cur, mem, scan, api, bounds>>

\* Variant with a bug: a status the ledger does not have.
FinishAttemptTimedOut(w, outcome) == ledger' = [ledger EXCEPT ![cur[w]][mem[w].row] = "timeout"]

FinishAttempt(w, outcome) == ledger' = [ledger EXCEPT ![cur[w]][mem[w].row] = outcome]

\* The provider answers, with output that meets the contract or does not.
ReplySucceeds(w) ==
  /\ pc[w] = "reply"
  /\ FinishAttempt(w, "completed")
  /\ \E valid \in BOOLEAN :
       Set(w, [mem[w] EXCEPT !.ans = mem[w].row, !.ok = valid, !.row = 0, !.used = 0, !.tries = 0])
  /\ Go(w, "respond")
  /\ UNCHANGED <<mStatus, tStatus, retry, ckpt, artifact, raw, redis, world, cur, scan, api, bounds>>

\* It fails or times out: another attempt if attempts and budget allow
\* (_require_retry_budget, the circuit), or the task fails.
ReplyFails(w) ==
  LET m == mem[w] IN
  /\ pc[w] = "reply"
  /\ FinishAttempt(w, "failed")
  /\ \/ /\ m.tries < MaxAttempts /\ m.used + m.tries < MaxModelCalls
        /\ Set(w, [m EXCEPT !.row = 0, !.tries = @ + 1])
        /\ Go(w, "ahead")
     \/ /\ Set(w, [m EXCEPT !.row = 0, !.used = 0, !.tries = 0])
        /\ Go(w, "fail")
  /\ UNCHANGED <<mStatus, tStatus, retry, ckpt, artifact, raw, redis, world, cur, scan, api, bounds>>

\* An exception inside execute_task, or the lease lost: process_task rolls
\* back and releases, and the worker goes on.
Abandon(w) ==
  /\ Set(w, NoMem)
  /\ Go(w, "release")

\* The model_responded checkpoint follows its prompt; (task, sequence) is
\* unique, so a checkpoint another worker saved meanwhile raises.
SaveResponse(w) ==
  LET t == cur[w]  m == mem[w] IN
  /\ pc[w] = "respond"
  /\ IF ckpt[t].seq = m.seq
     THEN /\ ckpt' = [ckpt EXCEPT ![t] = [seq |-> m.seq + 1, stage |-> "model_responded",
                                          ans |-> m.ans, ok |-> m.ok]]
          /\ Go(w, "answered") /\ UNCHANGED mem
     ELSE Abandon(w) /\ UNCHANGED ckpt
  /\ UNCHANGED <<mStatus, tStatus, retry, ledger, artifact, raw, redis, world, cur, scan, api, bounds>>

\* Variant with a bug: the output of a repair is not validated again.
ValidateOnce(w) ==
  LET m == mem[w] IN
  /\ pc[w] = "answered"
  /\ CommitStaged(w)
  /\ Set(w, [Committed(m) EXCEPT !.repair = TRUE])
  /\ Go(w, IF m.ok \/ m.repair THEN "put" ELSE "prompt")
  /\ UNCHANGED <<mStatus, ckpt, ledger, artifact, raw, redis, world, cur, scan, api, bounds>>

\* Commits the events, then validates: valid output goes to the artifact,
\* invalid output to the one repair of this execution, or is rejected.
Validate(w) ==
  LET m == mem[w] IN
  /\ pc[w] = "answered"
  /\ CommitStaged(w)
  /\ Set(w, [Committed(m) EXCEPT !.repair = m.repair \/ ~ m.ok])
  /\ Go(w, IF m.ok THEN "put" ELSE IF m.repair THEN "reject" ELSE "prompt")
  /\ UNCHANGED <<mStatus, ckpt, ledger, artifact, raw, redis, world, cur, scan, api, bounds>>

\* Variant with a bug: the row is committed before its object is stored.
PutObjectLater(w) ==
  /\ pc[w] = "put"
  /\ Go(w, "artifact")
  /\ UNCHANGED <<db, redis, world, cur, mem, scan, api, bounds>>

\* commit_artifact: an artifact that exists is kept, otherwise the object is
\* stored first ...
PutObject(w) ==
  LET t == cur[w] IN
  /\ pc[w] = "put"
  /\ IF artifact[t] # 0
     THEN Set(w, [mem[w] EXCEPT !.ans = 0]) /\ UNCHANGED objects
     ELSE objects' = [objects EXCEPT ![t] = @ \cup {mem[w].ans}] /\ UNCHANGED mem
  /\ Go(w, "artifact")
  /\ UNCHANGED <<db, redis, sent, cur, scan, api, bounds>>

\* Variant with a bug: an upsert instead of an insert under a unique key.
UpsertArtifact(w) ==
  /\ pc[w] = "artifact"
  /\ artifact' = [artifact EXCEPT ![cur[w]] = IF mem[w].ans = 0 THEN @ ELSE mem[w].ans]
  /\ Go(w, "complete")
  /\ UNCHANGED <<mStatus, tStatus, retry, ckpt, ledger, raw, redis, world, cur, mem, scan, api, bounds>>

\* ... then its row is committed, with its link on the task.  The unique key
\* lets only the first one in; the loser adopts it, or gives up if its
\* transaction is lost.  (ans = 0: nothing to insert.)
CommitArtifact(w) ==
  LET t == cur[w] IN
  /\ pc[w] = "artifact" /\ RowUnlocked(t)
  /\ artifact' = [artifact EXCEPT ![t] = IF @ # 0 THEN @ ELSE mem[w].ans]
  /\ \/ Go(w, "complete") /\ UNCHANGED mem
     \/ mem[w].ans # 0 /\ artifact[t] # 0 /\ Abandon(w)
  /\ UNCHANGED <<mStatus, tStatus, retry, ckpt, ledger, raw, redis, world, cur, scan, api, bounds>>

\* The rejected output is stored; its artifact row is staged for the commit
\* of the failure.
RejectOutput(w) ==
  LET t == cur[w] IN
  /\ pc[w] = "reject"
  /\ IF raw[t] # 0
     THEN UNCHANGED <<objects, mem>>
     ELSE /\ objects' = [objects EXCEPT ![t] = @ \cup {mem[w].ans}]
          /\ Set(w, [mem[w] EXCEPT !.rawAns = mem[w].ans])
  /\ Go(w, "fail")
  /\ UNCHANGED <<db, redis, sent, cur, scan, api, bounds>>

\* Variant with a bug: the mission is left for a later commit.
FinishTaskOnly(w, status) ==
  /\ tStatus' = [tStatus EXCEPT ![cur[w]] = status]
  /\ Set(w, NoMem)
  /\ Go(w, "release")
  /\ UNCHANGED <<mStatus, retry, ckpt, ledger, artifact, raw, redis, world, cur, scan, api, bounds>>

\* The last commit, by process_task: the ORM writes the task's status, and
\* the mission's if it is not what the session loaded.
Finish(w, status) ==
  LET t == cur[w]  m == mem[w] IN
  /\ CanWriteTask(w)
  /\ tStatus' = [tStatus EXCEPT ![t] = status]
  /\ retry' = IF m.pending THEN [retry EXCEPT ![t] = m.retry] ELSE retry
  /\ mStatus' = IF m.mission = status THEN mStatus ELSE [mStatus EXCEPT ![t] = status]
  /\ raw' = [raw EXCEPT ![t] = IF @ # 0 THEN @ ELSE m.rawAns]
  /\ Set(w, NoMem)
  /\ Go(w, "release")
  /\ UNCHANGED <<ckpt, ledger, artifact, redis, world, cur, scan, api, bounds>>

CompleteTask(w) == pc[w] = "complete" /\ Finish(w, "completed")
FailTask(w)     == pc[w] = "fail" /\ Finish(w, "failed")

-----------------------------------------------------------------------------
(***************************************************************************)
(* Exceptions, crashes and the expiry of leases.                           *)
(***************************************************************************)

\* A database, object-store or other call of execute_task raises.
ExecutionRaises(w) ==
  /\ FaultsOccur
  /\ pc[w] \in UnderHeartbeat
  /\ Abandon(w)
  /\ UNCHANGED <<db, redis, world, cur, scan, api, bounds>>

\* A Redis or database call around the execution raises.  BRPOP may have
\* popped the entry, SET or DEL may have run: only the reply is lost for sure.
\* During the sweep at start-up nothing catches it: that is Crash.
LoopRaises(w) ==
  /\ FaultsOccur
  /\ Failing
  /\ \/ /\ pc[w] \in {"idle", "poll"} /\ queue # <<>>
        /\ queue' = Tail(queue)
        /\ Drop(w, "idle") /\ UNCHANGED <<lease, scan>>
     \/ /\ pc[w] = "acquire"
        /\ lease' \in {lease, [lease EXCEPT ![cur[w]] = IF @ = Free THEN Orphan ELSE @]}
        /\ Go(w, "putBack") /\ UNCHANGED <<queue, cur, mem, scan>>
     \/ /\ pc[w] = "lookup"
        /\ lease' = Released(w)
        /\ Go(w, "putBack") /\ UNCHANGED <<queue, cur, mem, scan>>
     \/ /\ pc[w] = "putBack"
        /\ Drop(w, "idle") /\ UNCHANGED <<queue, lease, scan>>
     \/ /\ pc[w] = "release"
        /\ lease' = [lease EXCEPT ![cur[w]] = IF @ = w THEN Orphan ELSE @]
        /\ Drop(w, "idle") /\ UNCHANGED <<queue, scan>>
     \/ /\ pc[w] \in {"scan", "recover", "refail", "recount", "requeue"}
        /\ Drop(w, "poll")
        /\ scan' = [scan EXCEPT ![w] = {}] /\ UNCHANGED <<queue, lease>>
  /\ UNCHANGED <<db, world, api, retryOps, cancelOps>>

\* The process dies at any point; Redis keeps its lease until the TTL.
Crash(w) ==
  /\ pc[w] # "down"
  /\ Failing
  /\ Drop(w, "down")
  /\ scan' = [scan EXCEPT ![w] = {}]
  /\ lease' = [t \in Task |-> IF lease[t] = w THEN Orphan ELSE lease[t]]
  /\ UNCHANGED <<db, queue, world, api, retryOps, cancelOps>>

Restart(w) ==
  /\ pc[w] = "down"
  /\ Go(w, "startup")
  /\ UNCHANGED <<db, redis, world, cur, mem, scan, api, bounds>>

\* The TTL of a key nobody refreshes.
OrphanExpires(t) ==
  /\ lease[t] = Orphan
  /\ lease' = [lease EXCEPT ![t] = Free]
  /\ UNCHANGED <<db, queue, world, worker, api, bounds>>

\* The TTL of a live holder: a paused process, or Redis that lost its data.
LeaseLapses(t) ==
  /\ LeaseMayLapse /\ lease[t] \in Worker
  /\ lease' = [lease EXCEPT ![t] = Free]
  /\ UNCHANGED <<db, queue, world, worker, api, bounds>>

\* The heartbeat finds the token gone and cancels the execution.
LeaseLost(w) ==
  /\ pc[w] \in UnderHeartbeat /\ lease[cur[w]] # w
  /\ Abandon(w)
  /\ UNCHANGED <<db, redis, world, cur, scan, api, bounds>>

-----------------------------------------------------------------------------
Sweep(w) ==
  \/ SweepSelect(w) \/ SweepDone(w) \/ \E t \in Task : SweepCheckLease(w, t)
  \/ RegisterRecovery(w) \/ FailAfterMaxRequeues(w) \/ CountRecovery(w) \/ SweepEnqueue(w)
ProcessTask(w) ==
  \/ Dequeue(w) \/ DequeueTimeout(w) \/ Acquire(w) \/ Lookup(w) \/ Release(w) \/ PutBack(w)
ExecuteTask(w) ==
  \/ Begin(w) \/ SavePrompt(w) \/ AdmitCall(w) \/ WriteAhead(w) \/ SendRequest(w)
  \/ ReplySucceeds(w) \/ ReplyFails(w) \/ SaveResponse(w) \/ Validate(w) \/ PutObject(w)
  \/ CommitArtifact(w) \/ RejectOutput(w) \/ CompleteTask(w) \/ FailTask(w)
WorkerStep(w) == Sweep(w) \/ ProcessTask(w) \/ ExecuteTask(w) \/ Restart(w)
RequestStep(c) == StartEnqueue(c) \/ CancelCommit(c) \/ RetryEnqueue(c) \/ RetryCommit(c)

Next ==
  \/ \E c \in Client, t \in Task : StartMission(c, t) \/ CancelMission(c, t) \/ RetryTask(c, t)
  \/ \E c \in Client : RequestStep(c) \/ ApiCrash(c)
  \/ \E w \in Worker : WorkerStep(w) \/ ExecutionRaises(w) \/ LoopRaises(w) \/ LeaseLost(w) \/ Crash(w)
  \/ \E t \in Task : OrphanExpires(t) \/ LeaseLapses(t)

(***************************************************************************)
(* A process keeps taking steps, an API request is carried through and a    *)
(* key's TTL runs out.  The sweep's timer comes before the blocking pop, so *)
(* a worker that keeps reaching the top of its loop keeps sweeping.         *)
(***************************************************************************)
Fairness ==
  /\ \A w \in Worker : WF_vars(WorkerStep(w)) /\ SF_vars(SweepSelect(w))
  /\ \A c \in Client : WF_vars(RequestStep(c))
  /\ \A t \in Task : WF_vars(OrphanExpires(t))

Spec == Init /\ [][Next]_vars
FairSpec == Spec /\ Fairness

-----------------------------------------------------------------------------
(***************************************************************************)
(* Properties.                                                             *)
(***************************************************************************)

\* As long as no live holder's lease lapses, a worker between the acquire and
\* the release of process_task holds the lease of its task, so no two workers
\* execute one task.
MutualExclusion ==
  ~ LeaseMayLapse => \A w \in Worker : pc[w] \in Holding => lease[cur[w]] = w

\* usage.py's invariant: after any crash, lease loss or failed commit, every
\* provider request that was sent has its charge on the ledger.
ChargedBeforeSent == \A t \in Task : sent[t] \subseteq DOMAIN ledger[t]

\* The ceiling on model calls is never passed, whatever crashes, resumes,
\* retries and repairs do between reading the usage and sending.
CallCeiling ==
  ~ LeaseMayLapse => \A t \in Task : Len(ledger[t]) <= MaxModelCalls

\* A completed task has an artifact, the artifact's object is stored, and it
\* is an answer that was asked for, charged and received.
CompletedHasOutput ==
  \A t \in Task :
    /\ tStatus[t] = "completed" => artifact[t] # 0
    /\ artifact[t] # 0 => /\ artifact[t] \in objects[t] \cap sent[t]
                          /\ ledger[t][artifact[t]] = "completed"

\* The artifact is the answer of the latest checkpoint, and a valid one: a
\* resume or an operator's retry neither loses nor replaces it.
OutputIsLatestAnswer ==
  ~ LeaseMayLapse =>
    \A t \in Task : artifact[t] # 0 =>
      /\ ckpt[t].stage = "model_responded" /\ ckpt[t].ok
      /\ ckpt[t].ans = artifact[t]

Answered(t) == ckpt[t].stage = "model_responded" /\ ckpt[t].ok

\* Once a valid answer is checkpointed, no resume, retry or recovery asks the
\* provider again (durable_adapter.resume replays it).
AnsweredNeverAsksAgain ==
  [][\A t \in Task : Answered(t) /\ ~ LeaseMayLapse => Answered(t)' /\ sent'[t] = sent[t]]_vars

\* A committed artifact is never replaced, even by a worker that outlived its
\* lease (commit_artifact's unique key).
ArtifactIsFinal ==
  [][\A t \in Task : artifact[t] # 0 => artifact'[t] = artifact[t]]_vars

\* A running task is finished or failed in the end, also when every execution
\* raises: the sweep recovers it a bounded number of times.
RunningResolves ==
  \A t \in Task : tStatus[t] = "running" ~> tStatus[t] \in {"completed", "failed"}

\* What the code implements as long as the operator neither cancels nor
\* retries and one worker runs: mission and task end together and for good.
Lifecycle ==
  INSTANCE MissionLifecycle WITH Task <- Task, mStatus <- mStatus, tStatus <- tStatus

ImplementsLifecycle == Lifecycle!Spec

(***************************************************************************)
(* Statements of the repository that the code does not keep.               *)
(***************************************************************************)

\* ADR-003: a task is never lost, because its row, not the queue, makes it
\* durable.  The sweep however looks only for running rows.
QueuedIsTakenUp ==
  \A t \in Task : tStatus[t] = "queued" ~> tStatus[t] # "queued"

\* transitions.py: an invalid transition raises.  The executor however assigns the statuses
\* without asking the tables, and the sweep and /retry ask them of rows that may have changed
\* since.  (An execution may commit its switch to running and its end at once.)
FollowsTables ==
  [][\A t \in Task :
       /\ \/ mStatus'[t] \in {mStatus[t]} \cup MissionTransitions(mStatus[t])
          \/ mStatus[t] = "draft" /\ mStatus'[t] = "running"
       /\ \/ tStatus'[t] \in {tStatus[t]} \cup TaskTransitions(tStatus[t])
          \/ tStatus[t] = "queued" /\ tStatus'[t] \in TaskTransitions("running")
          \/ tStatus[t] = "none" /\ tStatus'[t] = "queued"]_vars

=============================================================================
