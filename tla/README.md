# A TLA+ verification of the daythree AI world

This directory models the services of the repository as concurrent processes over
Postgres, Redis and the object store. The core is the execution of missions: the API
routes that start, cancel and retry them, the queue, the leases and the workers.
Around it are the model gateway, the sessions of the digital twins, the registry of
agents with their rooms and persona slots, the projects, and the tool permissions.
TLC checks the models on small instances. TLAPS proves the main safety properties
for every number of tasks, workers, agents and requests.

`PROJECT.json` holds the machine-readable side: which definition models which
lines, every run with its properties, the variants ("mutants") that show each
property can fail, the findings and the hazards.

## 1. Inventory

### Parts of the system

| part | code | state | model |
|---|---|---|---|
| state tables | `mission_engine/states/transitions.py` | none | `Transitions` |
| start, cancel, retry | `mission_engine/engine/mission_service.py`, `api/routes/missions.py`, `api/routes/tasks.py` | `missions.status`, `tasks.status` | `TaskExecution` |
| queue, worker loop, sweep | `engine/queue.py`, `worker/main.py`, `engine/recovery.py` | Redis list, `tasks.retry_count` | `TaskExecution` |
| task lease | `engine/lease.py` | Redis key with TTL | `TaskExecution` (events), `TaskLease` (time) |
| executor, durable adapter, checkpoints | `engine/task_executor.py`, `agent_runtime/adapters/durable_adapter.py`, `checkpoints/sql_checkpoint_store.py` | `runtime_checkpoints` | `TaskExecution` |
| model gateway, usage ledger | `model_gateway/gateway.py`, `engine/usage.py`, `policy_sdk/budgets.py` | `model_invocations`, the circuit breaker | `TaskExecution` (calls), `ModelGateway` |
| artifacts | `artifact_service/service.py` | `artifacts`, objects | `TaskExecution` |
| events | `event_service/publisher.py` | `audit_events`, Redis stream | `Projects` (audit rows) |
| agent runtime sessions | `api/services/agent_runtime_closure.py`, `api/routes/agent_runtime.py` | sessions, closures, tasks | `RuntimeSessions` |
| agents, rooms, persona slots, seed | `api/routes/agents.py`, `agent_rooms.py`, `api/services/room_assignment.py`, `persona_slots.py`, `scripts/seed.py` | rows under unique indexes | `AgentRegistry` |
| projects, town view, rate limiter | `api/routes/projects.py`, `missions.py`, `agent_rooms.py` | `projects`, `missions.project_id`, Redis counter | `Projects` |
| permissions, tool registry | `policy_sdk/permissions.py`, `tool_sdk` | none | `ToolAccess` |
| lifecycle hook | `scripts/report_twin_lifecycle.sh` | state files | its calls, in `RuntimeSessions` |
| external agent status, model policies, providers, authentication, audit, dashboard, web UI, infrastructure | | | not modelled, see section 8 |

### How they interact

`POST /missions/{id}/start` commits a mission as `running` and a task as `queued`,
then pushes the task id on a Redis list. A worker pops it (BRPOP, no
acknowledgement), takes a lease (SET NX PX), loads the task and executes it under
a heartbeat. The execution saves a `prompt_assembled` checkpoint, reads the usage,
commits a charge, sends the request, finishes the charge, saves a
`model_responded` checkpoint, validates (with one repair), stores the artifact and
commits task and mission as `completed` or `failed`. Every worker sweeps for
`running` tasks without a lease, counts the recovery on the row and enqueues them
again, up to a cap. An operator may `/retry` a failed task or `/cancel` a mission.

Beside this, requests register agents and give each a room, twins register and end
their sessions, and requests create, archive and link projects. Each is one
transaction, and they meet on unique keys, row locks and one advisory lock. The
worker's reaper closes the sessions that fell silent. The town view reads rooms,
links and projects in separate queries.

### What is hard

* Sessions run with `expire_on_commit=False` under READ COMMITTED: an object keeps
  the values it was loaded with, and a later commit writes over what another
  process has committed since.
* A worker can stop between any two commits, and the next execution resumes from
  the checkpoint it finds.
* A queue entry can be lost, duplicated or visible before the row it announces.
* A lease can lapse under a live holder, which then runs beside the next one.
* Charges must cover every request that may have been sent.
* A heartbeat measures its lease from the answer of a refresh, Redis from the
  refresh itself.
* `session.rollback()` after a collision on a unique key undoes the caller's work too.

`PROJECT.json` lists these as hazards, one per line of code where they bite, with
the properties that cover them.

## 2. Modules

**`Transitions`** holds the two tables of `transitions.py`. The status `none`
stands for a task row that does not exist yet.

**`TaskExecution`** is the core. A mission has exactly one task, so a member of
`Task` names both. An action is what happens between two points at which another
process can interleave, that is, between two commits, Redis commands or provider
calls.

* *Database*: `mStatus`, `tStatus`, `retry`, `ckpt` (the row of highest sequence,
  which is all `latest_for_task` reads), `ledger` (statuses of the task's
  `model_invocations`), `artifact`, `raw`.
* *Redis*: `queue`, `lease`. A lease is `Free`, held by a worker, or `Orphan`: the
  key exists and no live process holds its token.
* *World*: `sent`, the provider requests sent; `objects`, the objects stored.
* *Worker*: `pc`, `cur` (its task), `mem` (what its session loaded and the locals
  of the coroutine, the uncommitted switch to `running` among them) and `scan`
  (the ids of its sweep).
* *API*: `cpc` and `creq`, where a request in flight is.

An answer of the provider is named by the ledger row that obtained it, so the
properties can say *which* answer became the artifact. Its content is abstracted
to whether it meets the output contract. Cost, elapsed time, output tokens,
unpriced models and the circuit breaker appear as a refusal that may happen.

Exceptions and crashes are actions. `ExecutionRaises` is an exception at any call
of `execute_task`. `LoopRaises` is one outside it, where the effect of the Redis
command may or may not have happened. `Crash` and `ApiCrash` stop a process.
`LeaseLapses` is the expiry of a live holder's key.

**`ModelGateway`** looks inside a call of `generate`: admission by the budget, the
circuit breaker, write-ahead, request, outcome, retry. The rows of a task are
represented by what `usage_for_task` reads of them: `calls`, `cost` and `open`
(the rows that are not completed). `billed` and `retried` are what happens outside:
the providers' bills and the further attempts sent. `call` is the `_Call` with the
usage it was admitted with. A request has a worst-case cost from `WorstCase`, and
its bill is at most that plus `Excess`. Time is counted in ticks, for the runtime
ceiling and for the cooldown. `Execute` takes a task nobody else is at: that is
`MutualExclusion` of `TaskExecution`. `history` is not in the code: it holds the
ages, up to the cooldown, of the last failures a process has had from a provider since
it last succeeded there, one more than the threshold.

**`TaskLease`** is the lease of one running task in real time: the key with its TTL,
the heartbeat with its refreshes and timeouts, and the poll and sweep of the other
workers. A call to Redis may fail, come late or lose its answer, and workers crash
and restart. `Tick` waits for every step that is due, so a process that its host
pauses is outside the model, as it is outside what `_heartbeat` promises. Every
worker is at this task or free to take it. `lapsed` and `unattended` are not in the
code: they are the clocks the properties are about.

**`RuntimeSessions`** models the digital twins: a hook reports a session and its
subagents, and requests and the worker's reaper register, close, end and reap them.
A row of `agent_runtime_sessions` is a session or a subagent; `status`, `outcome`,
`task`, `mission` and `closure` are what is committed for it, and `fresh` says
whether its last activity is within the reap window. `txn` holds the transactions in
flight: what each has read, the rows it has locked and what it is going to write. A
statement is atomic, a commit makes all writes visible, and `Abort` is a rollback. A
subagent that has been inserted holds its session's row FOR KEY SHARE, through the
foreign key. This is what keeps it from slipping past an end. `complete-external` and
`fail-external` are included because they write the same Tasks and Missions without
any of these locks; the artifact they store is left out. Locks of Task and Mission
rows are left out too. A Task is written under the lock of its session row, or by an
external request, which holds no such lock, and a Mission is written last, so these
locks add no cycle. The writes they order do not depend on each other. `Lost` and
`Counted` are the two sides of the hook loss rate: what the reaper closed because no
hook reported it, and what the health query counts.

**`AgentRegistry`** models the agents of a tenant: creation, versions, activation,
suspension, the seed script, the room allocator, the backfill of the room list and
the registration of personas with their slots. A transaction keeps what it has
flushed in `txn[r].w`. An insert waits for an uncommitted row with the same key and
fails on a committed one, after which `session.rollback()` undoes all of the
request's writes and expires the objects it had loaded. In the instance every code may be
created, seeded and registered as a persona, which is more than the real tables
allow. The tenant, admin and policy rows of the seed script are left out.

**`Projects`** models creation and archiving of projects, the links of missions to
them, the audit rows of both, and the two reads of the town view. The cap on active
projects is counted under the tenant's advisory lock. The rate limiter's counter is
a Redis key that may be left without an expiry, when a request stops between INCR
and EXPIRE.

**`ToolAccess`** has no state: the evaluation of a tool call under the policies of
platform, tenant, agent and mission, and what the registry does with the result. It
holds its own theorems.

**`MissionLifecycle`** is the abstract specification: a mission is started once,
its task is taken up, and both end together, the same way and for good.
`TaskExecution` instantiates it `WITH` its own status rows. Everything else (queue,
leases, checkpoints, ledger, workers and requests) is hidden by the mapping.

**`MCTaskExecution`**, **`MCTaskLease`** and **`MCAgentRegistry`** add the symmetry
sets and small constants for TLC, **`MCRuntimeSessions`** the session of each
subagent.

**`TaskExecutionTypes`** proves the types of `TaskExecution`, one lemma per action.
**`TaskExecutionProofs`** extends it with the safety theorems and the refinement.
**`TaskLeaseProofs`**, **`ModelGatewayProofs`**, **`RuntimeSessionsProofs`**,
**`AgentRegistryProofs`** and **`ProjectsProofs`** hold the theorems of the modules they
are named after.

## 3. Runs that pass

| run | instance | what it shows |
|---|---|---|
| `task_safety` | 2 workers, faults, 1 crash, 2 requests, 1 retry, 1 cancel | `TypeOK`, `MutualExclusion`, `ChargedBeforeSent`, `CallCeiling`, `CompletedHasOutput`, `OutputIsLatestAnswer`, `AnsweredNeverAsksAgain` |
| `task_lapse` | 2 workers whose leases may lapse, 1 crash | `ChargedBeforeSent`, `CompletedHasOutput`, `ArtifactIsFinal` hold even without exclusion |
| `task_lifecycle` | 1 worker, 2 tasks, executions that fail at will, 1 other failure | `ImplementsLifecycle` (fairness included), `RunningResolves` |
| `lease` | 2 workers, the code's durations in seconds | `TypeOK`, `OutlivesBriefly`, `RecoveredInTime` |
| `gateway` | 2 processes, 1 task, requests of 2 under a ceiling of 5, bills of up to 1 more, 5 calls | `TypeOK`, `CostCeiling`, `NeverUndercounts`, `RetryCeiling`, `NotHammered`, `CallEnds` |
| `sessions` | 1 session, 1 subagent, 2 requests, 1 reaper, 1 failure or external request | `TypeOK`, `Agreement`, `ClosedForGood`, `LossIsTrue`, `EndClosesAll`, `TransactionsEnd`, `SilentIsReaped` |
| `registry` | 2 codes, 2 requests of any kind, 2 slots, 2 attempts, 2 versions | `TypeOK`, `OneRoomEach`, `SlotHasItsPersona`, `VersionsContiguous`, `RoomIsKept` |
| `projects` | 2 projects under a cap of 1, 1 mission, 2 requests, 2 calls per window | `TypeOK`, `ActiveWithinCap`, `AuditMatchesRows`, `ReferencedIsListed`, `RequestsEnd`, `RefusalEnds` |

Bounds. Two workers suffice for every race the code has, because each is between
a holder and one other process. `MaxModelCalls` of 2 or 3 with two attempts per
call reaches the ceiling inside one call, in a repair and after a resume. The lapse
run needs 3, so that two workers can each ask for a repair. One crash combined with
unbounded exceptions gives an execution that is interrupted twice.
`MaxAutoRequeues` of 1 or 2 reaches the cap. `MaxFailures`, `MaxRetryOps` and
`MaxCancelOps` only bound how often the environment acts. In `gateway` 5 calls and
2 retries let one execution use up the retries and another go on, and the threshold
of 2 is reached within one call and across two. In `sessions` two requests and a
sweep give every pair of transactions that meet on a row, with a third to disturb
them. Subagents of one session share nothing but its row, so one shows how each
of them meets an end, a sweep and a hook. `MaxDetours` bounds the failures and
external requests. In `lease` nothing is scaled: a tick is a second, and only
`StartDelay` is a duration of ours. In `registry` two
requests collide on a room, a slot, a version and a code, and two attempts are
enough to lose one race and win, or lose, the next. In `projects` a cap of 1 and two
requests make the last place contested, and two calls per window are refused at the
third.

Symmetry over workers and requests is used in runs with safety properties only.

Fairness (`Fairness`). A live or supervised worker keeps taking steps, because
the loop catches every exception and the container is restarted. A request in
flight is carried through. A key's TTL runs out. Strong fairness of `SweepSelect`
holds because the timer is read at the top of the loop, before the blocking pop,
so a steady queue cannot keep a worker from sweeping. Nothing is assumed of the
environment's choices: an execution may raise every time. In `ModelGateway` a
coroutine that can run does, and `asyncio.wait_for` ends each wait (`TimedOut`). No
provider needs to answer. In `RuntimeSessions` a request that waits for a row lock
gets it (strong fairness), because Postgres queues the waiters. A sweep skips locked
rows, so weak fairness is enough for it. No hook needs to call. `Projects` assumes the
same of requests and of the waiters of the advisory lock, and that Redis drops a key
whose expiry has passed. No request needs to be made. `TaskLease` needs no fairness:
its bounds are invariants over clocks.

## 4. Runs that violate

Each of these checks one statement of the repository that the code does not keep.
The findings in `PROJECT.json` quote it.

| run | statement | what happens |
|---|---|---|
| `lost_wakeup` | `QueuedIsTakenUp` | A crash before the first commit of an execution, or between the commit and the enqueue of `/start`, leaves the task `queued`; the sweep looks only for `running`. (`/retry`, which enqueues before it commits, loses its wakeup to a worker that still sees `failed`.) |
| `follows_tables` | `FollowsTables` | The executor moves a mission that was cancelled under it to `completed` or `failed`. |
| `session_end_state` | `EndStateIsFinal` | A SessionEnd that loaded the session before another one committed overwrites its outcome: `FOR UPDATE` does not refresh the object. |
| `phantom_agent` | `RegisteredIsStored` | Two agents created at once compute the same room; the loser's `session.rollback()` undoes the agent itself, and the route answers 201. |

Other disagreements the models contain, which have no run of their own:

* *Stuck at the cap.* With `MaxCancelOps = 1` in `TaskLifecycle.cfg`, `RunningResolves` fails: at the cap the
  task of a cancelled mission is left as it is (`recovery.py:58`), because the mission
  may not move to `failed`, and it stays `running`. `recovery.py:7-8` says a task
  "cannot sit `running` unnoticed".
* *Sweep race.* With `MaxCancelOps = 0` in `FollowsTables.cfg`, the property still fails: the sweep fails a
  task that was completed after it checked the lease. Two `/retry` requests can do the
  same to a task that was taken up again.
* *More than one probe.* After the cooldown the failure count restarts at zero
  (`circuit_breaker.py:48-50`), so a failed probe is followed by more requests, up to
  the threshold. `NotHammered` states what does hold.
* *Time to recovery.* `lease.py` speaks of about 30 seconds. `RecoveredInTime` shows
  that the poll adds up to five, and it assumes a worker that is free: while all of them
  execute other tasks, nobody sweeps.
* *Personas.* A registration that loses a race for a persona's slot or room has its
  `user` object expired by the rollback, and ends in an error at
  `agent_runtime.py:244`. Nothing of it is stored, and the hook may call again.
* *Suspend.* A suspension that races an activation or a backfill may leave the
  suspended agent with a room. The next suspension or activation repairs it.
* *Archive.* A project may be archived while a link to it is about to commit, and two
  concurrent requests both announce the archiving of one project. `audit` is a set of
  kinds, so the second event makes no difference to it.
* *Lock order.* A backfill books rooms for several agents while a suspension updates
  one. Where Postgres finds a cycle it aborts one of the two, which is the failure the
  models allow at every step.

## 5. Proofs

Every theorem holds for all values of the constants that satisfy the assumption named
in the module that declares them. `TypeCorrect` is in `TaskExecutionTypes`, and the
other theorems on `TaskExecution` are in `TaskExecutionProofs`:

* `TypeCorrect`: `Spec => []TypeOK`. `TypeOK` is inductive. It includes that a
  worker or request that acts on a task has one, which every later proof needs.
* `SentIsCharged`: `Spec => []ChargedBeforeSent`. The invariant is strengthened
  with `RowCharged`: the row a worker is about to send, or waits for, is on the
  ledger. Ledgers only grow, so a charge stays when its worker is gone.
* `LeaseExcludes`: `Spec => []MutualExclusion`. A worker at a position of `Holding`
  holds the key. Only its own release, its crash or a lapse takes the key away,
  and SET NX never takes it from a holder.
* `CallsStayWithinCeiling`: `Spec => []CallCeiling`. The strengthening is
  `UsageIsCurrent`: while a worker is inside a model call, the ledger has exactly
  the rows it read plus the attempts it made. This needs `MutualExclusion`, since
  another worker's row would make the usage stale.

* `CompletedIsDelivered`: `Spec => []CompletedHasOutput`. The invariant follows an
  answer on its way (`Output`): what a worker carries, what the checkpoint holds and
  what the artifact names was requested, charged and received, and its object is stored
  before its row. `RowsOpen` keeps the rows of two calls apart, so that nobody closes
  the row of another's request. Leases may lapse: the proof does not use exclusion.
* `ArtifactIsKept`: `Spec => ArtifactIsFinal`, an action property. Only
  `CommitArtifact` writes an artifact, and only where there is none.
* `OutputStaysLatest` and `AnswerEndsAsking`: `OutputIsLatestAnswer` and
  `AnsweredNeverAsksAgain`. Both speak of runs in which no live holder's lease lapses,
  and rest on `Latest`: a worker past a checkpoint knows the latest one, since
  `MutualExclusion` keeps the others from writing another.
* `LifecycleIsFollowed`: the safety part of `ImplementsLifecycle`. It assumes
  `Undisturbed`: one worker, no `/cancel` and no `/retry`, as in `task_lifecycle`. The
  violating run `follows_tables` shows why: a cancelled mission is completed by the
  executor. Faults, crashes and lapses are not limited. The invariant `Follows` says
  what the worker's loaded status still tells of the row.

The lemmas `WorkerFrames`, `OtherFrames` and `NextSteps` sort the actions by what
they may touch, so each invariant is proved from the few steps that can disturb
it.

For `ModelGateway` the inductive invariant is `Accounts`, with `Funds` for money:

* `Exclusive`: no two processes are at one task, so what a call read stays current.
* `Books`: while a call is in progress, the task's cost is what was read, plus the
  failed attempts, plus the worst case of the attempt that is open, and its open
  rows are the ones read plus this call's attempts.
* `Retries` and `Money`: what the check that admitted the attempt left over.

`RetriesStayWithinCeiling` follows from `Accounts`: every attempt after the first
leaves an open row behind when it is sent, so `retried` never exceeds what the check
compares with `max_retries`. `CostStaysWithinCeiling` and `RowsCoverBills` add `Funds`
and hold for every `Excess`, the amount by which a bill may pass its estimate (which
counts one input token per three bytes). The cost of a task passes its ceiling by at most
one `Excess`, because a call is admitted on what its predecessors really cost. The rows
fall short of the bills by at most one `Excess` per call, because the bill of a lost
answer is never known. With `Excess = 0` these are the ceiling and the bills themselves.

`ProviderIsSpared`, that is `Spec => []NotHammered`, is about the breaker. `Breakers`
ties its two numbers to the history: all but the latest `fails` failures are a cooldown
old, no failure is younger than the opening, and a process that is asking a provider has
its circuit closed. `TypeCorrect` follows from the same invariants.

`TaskLeaseProofs`: `WorkOutlivesLeaseBriefly`, that is `Spec => []OutlivesBriefly`, for
any durations with `Refresh + Timeout < TTL` and `StartDelay < TTL`. Whether the next
refresh comes in time depends on how far the present cycle has got, so the invariant is
strengthened with `Timed`. It relates the three clocks of a heartbeat: the time left of
the key, the time since `last_ok` and the time in the present state.

`RowIsRecoveredInTime`, that is `Spec => []RecoveredInTime`, needs `Pause < TTL` as well
(1 second against 20 in the code) and a worker that is up. The model keeps one up through
every crash. The invariant `Recovery` bounds the time a row has been alone by what each worker is
doing (`Watched`). While there is a key, that time and what is left of the key add up to
at most the TTL. A sweep that found no orphan found a key, so the row has been alone for
less than the TTL and the time since that sweep. Once a sweep is due, only the poll under
way delays it. A worker that pauses has just failed, which restarted the clock.
`TypeCorrect` follows from both invariants.

`RuntimeSessionsProofs`: `RowsAgree` (`Agreement`), `ClosuresStay` (`ClosedForGood`),
`EndsCloseAll` (`EndClosesAll`), `LossIsCounted` (`LossIsTrue`) and `TypeCorrect`. The
inductive invariant `Inv` states of each transaction what it has locked, that no other has
it (`Excludes`), that what it has read still holds (`Knows`), and that the subagents of a
session it ends are among those it closes (`Completes`). The last is where the foreign
key counts: the lock on the session's row keeps a new subagent from being inserted. The
three action properties follow from `Inv`.

`ProjectsProofs`: `CapHolds`, `AuditIsOfCommits`, `TownIsComplete` and, with the small
invariant `Keys`, `TypeCorrect`. The inductive invariant is `Inv /\ Linked`. A request that has counted holds the lock until it commits, so
the count it found still bounds the active projects (`Locked`). An event is pending only
in a request about to commit (`Pending`). A project that is linked, about to be, or
read from a link is stored (`Referred`, `Linked`), and rows are never deleted, so the
town view finds it.

`AgentRegistryProofs`: `RoomsAreExclusive`, `RoomsAreKept` and `SlotsAreUsed`. The
argument is about uncommitted rows. An insert waits for those it could collide with and
fails on the committed ones, so no two rows, committed or not, ever collide
(`BookedApart`, `ClaimApart`), and a commit only moves rows from one kind to the other.
`LowestIsFree` and `RoomIsFree` are about the allocator: for every finite set of rooms
in use it finds a free one. `NumbersAreContiguous` (`VersionsContiguous`) and
`TypeCorrect` need the invariant `Numbering`: a version that is inserted and not committed
has the number after the last committed one, no two transactions have inserted a version
of the same agent, and an agent that a transaction changes is stored. Both use that the codes of a
tenant are finite, since a code has at most 64 characters.

`ToolAccess`: `AllowedByAll` (access is the intersection of the scopes), `DenyWins`,
`DeniedByDefault`, `AllowOnlyAllows`, `MissionRestricts`, `RefusalNamesFirst` and
`OnlyAllowedRuns`, for every universe of tools and all policies.

Only model-checked: liveness (`RunningResolves`, `CallEnds`, `TransactionsEnd`,
`SilentIsReaped`, `RequestsEnd`, `RefusalEnds`) and the fairness part of
`ImplementsLifecycle`, because temporal reasoning with fairness and `ENABLED` is out of
the prover's reach. Every safety invariant and action property that a passing run checks
has a theorem. That the violating runs' statements fail is for TLC to show.

## 6. What could follow

1. The refinement with several workers, whose sweeps may fail a task after another worker
   has completed it: the abstract specification would have to allow for that race.
2. The Redis stream against the committed audit rows.

## 7. Running

    tlc -workers 2 -config TaskSafety.cfg MCTaskExecution
    tlc -workers 2 -config TaskLapse.cfg MCTaskExecution
    tlc -workers 2 -config TaskLifecycle.cfg MCTaskExecution
    tlc -workers 2 -config Lease.cfg MCTaskLease
    tlc -workers 2 -config Gateway.cfg ModelGateway
    tlc -workers 2 -config Sessions.cfg MCRuntimeSessions
    tlc -workers 2 -config Registry.cfg MCAgentRegistry
    tlc -workers 2 -config Projects.cfg Projects

and, with an expected violation,

    tlc -workers 2 -config LostWakeup.cfg MCTaskExecution
    tlc -workers 2 -config FollowsTables.cfg MCTaskExecution
    tlc -workers 2 -config SessionEndState.cfg MCRuntimeSessions
    tlc -workers 2 -config PhantomAgent.cfg MCAgentRegistry

The proofs are checked by `tlapm` on `TaskExecutionTypes.tla`,
`TaskExecutionProofs.tla`, `TaskLeaseProofs.tla`, `ModelGatewayProofs.tla`,
`RuntimeSessionsProofs.tla`, `AgentRegistryProofs.tla`, `ProjectsProofs.tla` and
`ToolAccess.tla`.

## 8. Not modelled

* Providers: calls of external SDKs. A reply is a choice of the environment.
* Authentication and tenancy: filters that read and change no state. Keys are issued
  and revoked by an operator's script, one row at a time.
* Audit queries, dashboard, health, metrics: reads.
* External agent status: one row per name, of which all columns are written at once.
  Its rate limiter is the code of the projects route, which is modelled.
* Model policies: rows that are only created. The comment on the check of the name
  accepts that two concurrent requests may both pass it.
* The Redis stream: entries are sent before the commit, for live dashboards only. The
  audit rows, which are the record, are in `Projects`.
* The hook script: what reaches the service is modelled, as calls in any order, lost
  or late.
* The web UI: rendering and floating-point motion.
* Migrations and compose files. The unique keys and foreign keys they declare appear as
  guards of the actions that rely on them.
* Logging, wording of errors and the layout of events.
