----------------------------- MODULE ModelGateway -----------------------------
(***************************************************************************)
(* ModelGateway.generate with its budget, its write-ahead ledger and its    *)
(* circuit breaker, as the worker processes run it.                        *)
(*                                                                         *)
(* A process executes one task at a time and may call generate several      *)
(* times for it: first call, repair, and again when another process         *)
(* resumes the task.  Money is in units, time in ticks.  The rows of        *)
(* model_invocations are represented by what usage_for_task reads of them.  *)
(***************************************************************************)
EXTENDS Integers, Sequences

CONSTANTS
  Worker,        \* worker processes, each with a gateway of its own
  Task,
  Provider,
  WorstCase,     \* worst-case costs a request may have (estimate_worst_case_attempt)
  Excess,        \* by how much a bill may exceed that estimate
  MaxCost, MaxCalls, MaxRetries, MaxRuntime,    \* BudgetPolicy
  MaxAttempts,   \* ModelGateway.max_attempts
  Threshold, Cooldown,                          \* CircuitBreaker
  None           \* no task, no provider

ASSUME GatewayAssumption ==
  /\ WorstCase \subseteq Nat
  /\ None \notin Task \cup Provider
  /\ Excess \in Nat /\ MaxCost \in Nat /\ MaxCalls \in Nat /\ MaxRetries \in Nat /\ MaxRuntime \in Nat
  /\ MaxAttempts \in Nat \ {0} /\ Threshold \in Nat \ {0} /\ Cooldown \in Nat

VARIABLES
  calls, cost, open,   \* per task: rows, their cost, those not completed
  billed,              \* per task: what the providers charge
  retried,             \* per task: further attempts sent by generate
  pc, call, elapsed,   \* per worker: where it is, the _Call, the time since execute_task began
  breaker,             \* per worker and provider: _ProviderState
  history              \* per worker and provider, not in the code: the ages, up to Cooldown,
                       \* of its last failures since a success, the oldest first

rows  == <<calls, cost, open>>
world == <<billed, retried>>
vars  == <<rows, world, pc, call, elapsed, breaker, history>>

-----------------------------------------------------------------------------
(***************************************************************************)
(* The circuit breaker.  opened is the time since it opened, NotOpen when   *)
(* opened_at is None, and stops at Cooldown.                               *)
(***************************************************************************)

NotOpen == -1
Closed  == [fails |-> 0, opened |-> NotOpen]

\* before_call: whether it returns, and the state it leaves.
Allows(b) == b.opened = NotOpen \/ b.opened >= Cooldown

\* Variant with a bug: the failures before the cooldown still count.
PassedCounting(b) == IF b.opened = NotOpen THEN b ELSE [b EXCEPT !.opened = NotOpen]

Passed(b) == IF b.opened = NotOpen THEN b ELSE Closed

\* Variant with a bug: one failure late.
RecordFailureLate(b) ==
  [fails  |-> b.fails + 1,
   opened |-> IF b.fails >= Threshold /\ b.opened = NotOpen THEN 0 ELSE b.opened]

RecordFailure(b) ==
  [fails  |-> b.fails + 1,
   opened |-> IF b.fails + 1 >= Threshold /\ b.opened = NotOpen THEN 0 ELSE b.opened]

Older(b) == [b EXCEPT !.opened = IF @ \in 0..(Cooldown - 1) THEN @ + 1 ELSE @]

-----------------------------------------------------------------------------
(***************************************************************************)
(* The budget.  The output cap is not checked against itself: both come     *)
(* from the budget_policy of the checkpoint.                               *)
(***************************************************************************)

\* Variant with a bug: only what is spent is compared with the ceiling.
EvaluateSpent(usage, worst, isRetry) ==
  /\ usage.calls < MaxCalls
  /\ usage.cost < MaxCost
  /\ usage.elapsed < MaxRuntime
  /\ isRetry => usage.retries < MaxRetries

EvaluateBudget(usage, worst, isRetry) ==
  /\ usage.calls < MaxCalls
  /\ usage.cost < MaxCost /\ usage.cost + worst <= MaxCost
  /\ usage.elapsed < MaxRuntime
  /\ isRetry => usage.retries < MaxRetries

UsageForTask(w, t) == [calls |-> calls[t], cost |-> cost[t], elapsed |-> elapsed[w], retries |-> open[t]]

\* Variant with a bug: the retries of earlier calls are forgotten.
SoFarInCall(w) ==
  LET c == call[w] IN
  [calls |-> c.calls + c.attempt, cost |-> c.cost + c.failedCost + c.actual, elapsed |-> elapsed[w],
   retries |-> c.attempt - 1]

\* The usage a further attempt is judged by: what was read when the call was
\* admitted, and the attempts of this call, all of which failed.
SoFar(w) ==
  LET c == call[w] IN
  [calls   |-> c.calls + c.attempt,
   cost    |-> c.cost + c.failedCost + c.actual,
   elapsed |-> elapsed[w],
   retries |-> c.retries + (c.attempt - 1)]

-----------------------------------------------------------------------------
NoCall ==
  [task |-> None, provider |-> None, worst |-> 0, calls |-> 0, cost |-> 0, retries |-> 0,
   attempt |-> 1, failedCost |-> 0, bill |-> 0, outcome |-> "none", actual |-> 0]

Go(w, label) == pc' = [pc EXCEPT ![w] = label] /\ UNCHANGED elapsed

\* generate returns to the execution, or the execution ends.
Return(w) == call' = [call EXCEPT ![w] = [NoCall EXCEPT !.task = call[w].task]] /\ Go(w, "ready")
End(w) ==
  /\ pc' = [pc EXCEPT ![w] = "idle"]
  /\ call' = [call EXCEPT ![w] = NoCall]
  /\ elapsed' = [elapsed EXCEPT ![w] = 0]

SetBreaker(w, p, b) == breaker' = [breaker EXCEPT ![w][p] = b]

\* before_call returns.
Pass(w, p) ==
  /\ Allows(breaker[w][p])
  /\ SetBreaker(w, p, Passed(breaker[w][p]))
  /\ UNCHANGED history

\* execute_task begins, under the lease of the task: no other process is at it.
Execute(w, t) ==
  /\ pc[w] = "idle"
  /\ \A v \in Worker : call[v].task # t
  /\ call' = [call EXCEPT ![w].task = t]
  /\ Go(w, "ready")
  /\ UNCHANGED <<rows, world, breaker, history>>

\* usage_for_task, _admit and _check_circuit, up to the write-ahead.
Admit(w, p, worst) ==
  LET t == call[w].task IN
  /\ pc[w] = "ready"
  /\ EvaluateBudget(UsageForTask(w, t), worst, FALSE)
  /\ Pass(w, p)
  /\ call' = [call EXCEPT ![w] =
       [NoCall EXCEPT !.task = t, !.provider = p, !.worst = worst,
                      !.calls = calls[t], !.cost = cost[t], !.retries = open[t]]]
  /\ Go(w, "ahead")
  /\ UNCHANGED <<rows, world>>

\* BudgetExceededError or CircuitOpenError before the first attempt.
Refuse(w, p, worst) ==
  /\ pc[w] = "ready"
  /\ \/ ~EvaluateBudget(UsageForTask(w, call[w].task), worst, FALSE)
     \/ ~Allows(breaker[w][p])
  /\ End(w)
  /\ UNCHANGED <<rows, world, breaker, history>>

\* begin_attempt: the charge is committed.
WriteAhead(w) ==
  LET t == call[w].task IN
  /\ pc[w] = "ahead"
  /\ calls' = [calls EXCEPT ![t] = @ + 1]
  /\ cost' = [cost EXCEPT ![t] = @ + call[w].worst]
  /\ open' = [open EXCEPT ![t] = @ + 1]
  /\ Go(w, "send")
  /\ UNCHANGED <<world, call, breaker, history>>

\* The request reaches the provider, which bills what it likes.
Send(w) ==
  LET t == call[w].task IN
  /\ pc[w] = "send"
  /\ \E bill \in 0..(call[w].worst + Excess) :
       /\ billed' = [billed EXCEPT ![t] = @ + bill]
       /\ call' = [call EXCEPT ![w].bill = bill]
  /\ retried' = IF call[w].attempt > 1 THEN [retried EXCEPT ![t] = @ + 1] ELSE retried
  /\ Go(w, "reply")
  /\ UNCHANGED <<rows, breaker, history>>

Outcome(w, outcome, actual) ==
  /\ pc[w] = "reply"
  /\ call' = [call EXCEPT ![w].outcome = outcome, ![w].actual = actual]
  /\ Go(w, "finish")
  /\ UNCHANGED <<rows, world>>

\* The reply reports what was used, or nothing, and then it is estimated.
Succeed(w) ==
  LET p == call[w].provider IN
  /\ \E actual \in {call[w].bill, call[w].worst} : Outcome(w, "completed", actual)
  /\ SetBreaker(w, p, Closed)
  /\ history' = [history EXCEPT ![w][p] = <<>>]

\* A 4xx other than 408 and 429: nothing was billed, no retry will help, and it
\* says nothing about the provider's health.
Rejected(w) ==
  /\ call[w].bill = 0
  /\ Outcome(w, "rejected", 0)
  /\ UNCHANGED <<breaker, history>>

\* One more failure than may happen within a cooldown is remembered.
Remember(ages) == IF Len(ages) > Threshold THEN Append(Tail(ages), 0) ELSE Append(ages, 0)

Fail(w, actual) ==
  LET p == call[w].provider IN
  /\ Outcome(w, "failed", actual)
  /\ SetBreaker(w, p, RecordFailure(breaker[w][p]))
  /\ history' = [history EXCEPT ![w][p] = Remember(@)]

\* A 429 is not billed; anything else, the timeout included, may have been.
RateLimited(w) == call[w].bill = 0 /\ Fail(w, 0)

\* Variants with a bug: a timeout costs nothing; nothing limits the wait.
TimedOutFree(w) == Fail(w, 0)
NeverTimesOut(w) == call[w].bill > call[w].worst + Excess /\ Fail(w, call[w].worst)

TimedOut(w) == Fail(w, call[w].worst)

\* A failed attempt is followed by another if attempts and budget are left.
MayRetry(w) ==
  /\ call[w].outcome = "failed"
  /\ call[w].attempt < MaxAttempts
  /\ EvaluateBudget(SoFar(w), call[w].worst, TRUE)

\* finish_attempt rewrites the row, and generate returns, raises or backs off.
Finish(w) ==
  LET c == call[w]  t == c.task IN
  /\ pc[w] = "finish"
  /\ cost' = [cost EXCEPT ![t] = @ - c.worst + c.actual]
  /\ open' = [open EXCEPT ![t] = IF c.outcome = "completed" THEN @ - 1 ELSE @]
  /\ \/ c.outcome = "completed" /\ Return(w)
     \/ /\ MayRetry(w)
        /\ call' = [call EXCEPT ![w].failedCost = @ + c.actual, ![w].actual = 0]
        /\ Go(w, "backoff")
     \/ c.outcome # "completed" /\ ~MayRetry(w) /\ End(w)
  /\ UNCHANGED <<calls, world, breaker, history>>

\* After the sleep: the next attempt, unless the circuit has opened.
Retry(w) ==
  LET p == call[w].provider IN
  /\ pc[w] = "backoff"
  /\ \/ /\ Pass(w, p)
        /\ call' = [call EXCEPT ![w].attempt = @ + 1]
        /\ Go(w, "ahead")
     \/ ~Allows(breaker[w][p]) /\ End(w) /\ UNCHANGED <<breaker, history>>
  /\ UNCHANGED <<rows, world>>

\* The execution is over, a commit failed, or the lease was lost and the
\* coroutine cancelled.
Leave(w) ==
  /\ pc[w] # "idle"
  /\ End(w)
  /\ UNCHANGED <<rows, world, breaker, history>>

\* The process dies; the next one starts with a fresh breaker.
Crash(w) ==
  /\ End(w)
  /\ breaker' = [breaker EXCEPT ![w] = [p \in Provider |-> Closed]]
  /\ history' = [history EXCEPT ![w] = [p \in Provider |-> <<>>]]
  /\ UNCHANGED <<rows, world>>

OlderAges(ages) == [i \in DOMAIN ages |-> IF ages[i] < Cooldown THEN ages[i] + 1 ELSE Cooldown]

Tick ==
  /\ elapsed' = [w \in Worker |-> IF pc[w] # "idle" /\ elapsed[w] < MaxRuntime
                                  THEN elapsed[w] + 1 ELSE elapsed[w]]
  /\ breaker' = [w \in Worker |-> [p \in Provider |-> Older(breaker[w][p])]]
  /\ history' = [w \in Worker |-> [p \in Provider |-> OlderAges(history[w][p])]]
  /\ UNCHANGED <<rows, world, pc, call>>

-----------------------------------------------------------------------------
Init ==
  /\ calls = [t \in Task |-> 0] /\ cost = [t \in Task |-> 0] /\ open = [t \in Task |-> 0]
  /\ billed = [t \in Task |-> 0] /\ retried = [t \in Task |-> 0]
  /\ pc = [w \in Worker |-> "idle"]
  /\ call = [w \in Worker |-> NoCall]
  /\ elapsed = [w \in Worker |-> 0]
  /\ breaker = [w \in Worker |-> [p \in Provider |-> Closed]]
  /\ history = [w \in Worker |-> [p \in Provider |-> <<>>]]

Generate(w) ==
  \/ WriteAhead(w) \/ Send(w) \/ Finish(w) \/ Retry(w)
  \/ Succeed(w) \/ Rejected(w) \/ RateLimited(w) \/ TimedOut(w)

Next ==
  \/ \E w \in Worker, t \in Task : Execute(w, t)
  \/ \E w \in Worker, p \in Provider, worst \in WorstCase : Admit(w, p, worst) \/ Refuse(w, p, worst)
  \/ \E w \in Worker : Generate(w) \/ Leave(w) \/ Crash(w)
  \/ Tick

\* A coroutine that can run does; wait_for ends every wait for a provider.
Fairness == \A w \in Worker :
  /\ WF_vars(WriteAhead(w) \/ Send(w) \/ Finish(w) \/ Retry(w))
  /\ WF_vars(TimedOut(w))

Spec == Init /\ [][Next]_vars /\ Fairness

-----------------------------------------------------------------------------
Label == {"idle", "ready", "ahead", "send", "reply", "finish", "backoff"}
Calling == Label \ {"idle", "ready"}

Call ==
  [task : Task \cup {None}, provider : Provider \cup {None}, worst : Nat, calls : Nat, cost : Nat, retries : Nat,
   attempt : Nat, failedCost : Nat, bill : Nat, actual : Nat, outcome : {"none", "completed", "rejected", "failed"}]

RowsOK ==
  /\ calls \in [Task -> Nat] /\ cost \in [Task -> Nat] /\ open \in [Task -> Nat]
  /\ billed \in [Task -> Nat] /\ retried \in [Task -> Nat]
WorkersOK ==
  /\ pc \in [Worker -> Label]
  /\ call \in [Worker -> Call]
  /\ \A w \in Worker : /\ pc[w] = "idle" => call[w].task = None
                       /\ pc[w] # "idle" => call[w].task \in Task
                       /\ pc[w] \in Calling => call[w].provider \in Provider
TypeOK ==
  /\ RowsOK /\ WorkersOK
  /\ elapsed \in [Worker -> 0..MaxRuntime]
  /\ breaker \in [Worker -> [Provider -> [fails : 0..Threshold, opened : NotOpen..Cooldown]]]

\* What the rows of a task say it cost never exceeds max_model_cost_usd, over
\* all calls, retries, repairs and resumes (evaluate_budget: "one call cannot
\* carry a task past the ceiling"), but for what the last call was billed
\* beyond its estimate.
CostCeiling == \A t \in Task : cost[t] <= MaxCost + Excess

\* The rows never say less than what the providers bill, whatever replies are
\* lost and wherever a process stops (telemetry.py: "never undercount"), but
\* for what a call whose bill is not known was billed beyond its estimate.
NeverUndercounts == \A t \in Task : billed[t] <= cost[t] + Excess * calls[t]

\* generate sends at most max_retries further attempts for a task, over all its
\* executions (usage.py: "a per-task ceiling").
RetryCeiling == \A t \in Task : retried[t] <= MaxRetries

\* Within any cooldown a gateway has at most failure_threshold requests fail at
\* a provider that answers none, however executions follow each other: the
\* failure before the last failure_threshold ones is a cooldown old.
NotHammered ==
  \A w \in Worker, p \in Provider :
    Len(history[w][p]) > Threshold => history[w][p][1] = Cooldown

\* A call of generate ends, though no provider need ever answer.
CallEnds == \A w \in Worker : pc[w] \in Calling ~> pc[w] \notin Calling
=============================================================================
