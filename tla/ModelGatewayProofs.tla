-------------------------- MODULE ModelGatewayProofs --------------------------
(***************************************************************************)
(* The retry and cost ceilings of ModelGateway, the accounting of what is   *)
(* billed and the circuit breaker, for any policy, any number of processes  *)
(* and any number of calls and executions of a task.                       *)
(***************************************************************************)
EXTENDS ModelGateway, TLAPS

-----------------------------------------------------------------------------
\* A task is executed by one process at a time.
Exclusive == \A v, w \in Worker : v # w /\ call[w].task # None => call[v].task # call[w].task

\* What a process knows of the rows of its task is current: the usage it read
\* and the attempts it made since account for all of them.
Books(w) ==
  LET c == call[w]  t == c.task IN
  /\ pc[w] \in {"ahead", "backoff"} => cost[t] = c.cost + c.failedCost
  /\ pc[w] \in {"send", "reply", "finish"} => cost[t] = c.cost + c.failedCost + c.worst
  /\ pc[w] = "ahead" => open[t] = c.retries + c.attempt - 1
  /\ pc[w] \in {"send", "reply", "finish", "backoff"} => open[t] = c.retries + c.attempt
  /\ pc[w] \in Calling => c.attempt >= 1

\* The retries sent so far, and the one about to be sent, are within the limit.
Retries(w) ==
  LET c == call[w]  t == c.task IN
  /\ pc[w] \in {"ahead", "send"} =>
       /\ retried[t] <= c.retries + (IF c.attempt > 1 THEN c.attempt - 2 ELSE 0)
       /\ c.attempt > 1 => c.retries + c.attempt - 2 < MaxRetries
  /\ pc[w] \in {"reply", "finish", "backoff"} => retried[t] <= c.retries + c.attempt - 1
  /\ pc[w] = "backoff" => c.retries + c.attempt - 1 < MaxRetries

\* What the rows of a task account for: their cost, and an excess for each.
Covered(t) == cost[t] + Excess * calls[t]

\* The worst case of the request in flight is on the ledger on top of what was
\* billed before it, and fits under the ceiling before it is put there.
Money(w) ==
  LET c == call[w]  t == c.task IN
  /\ pc[w] \in {"ahead", "backoff"} => cost[t] + c.worst <= MaxCost
  /\ pc[w] \in {"send", "reply", "finish"} => cost[t] <= MaxCost
  /\ pc[w] = "send" => billed[t] + c.worst + Excess <= Covered(t)
  /\ pc[w] \in {"reply", "finish"} => /\ billed[t] + c.worst + Excess <= Covered(t) + c.bill
                                      /\ c.bill <= c.worst + Excess
  /\ pc[w] = "finish" => c.bill <= c.actual + Excess /\ c.actual <= c.worst + Excess

Accounts ==
  /\ RowsOK /\ WorkersOK /\ Exclusive
  /\ \A w \in Worker : Books(w) /\ Retries(w)
  /\ \A t \in Task : retried[t] <= MaxRetries /\ retried[t] <= open[t]

Funds ==
  /\ \A w \in Worker : Money(w)
  /\ CostCeiling /\ NeverUndercounts

-----------------------------------------------------------------------------
\* A step of one process leaves the others and their tasks' rows alone.
Apart(w) ==
  \A v \in Worker \ {w} :
    /\ pc'[v] = pc[v] /\ call'[v] = call[v]
    /\ pc[v] # "idle" => LET t == call[v].task IN
         /\ cost'[t] = cost[t] /\ open'[t] = open[t] /\ calls'[t] = calls[t]
         /\ retried'[t] = retried[t] /\ billed'[t] = billed[t]

\* The rows and counters of every task but t stay.
Only(t) ==
  \A u \in Task \ {t} :
    /\ cost'[u] = cost[u] /\ open'[u] = open[u] /\ calls'[u] = calls[u]
    /\ retried'[u] = retried[u] /\ billed'[u] = billed[u]

\* One more row accounts for one more excess.
LEMMA OneMore == \A e, n \in Nat : e * n \in Nat /\ e * (n + 1) = e * n + e
OBVIOUS

\* The fields of a call have their types.
LEMMA CallFields ==
  \A c \in Call : /\ c.worst \in Nat /\ c.calls \in Nat /\ c.cost \in Nat /\ c.retries \in Nat
                  /\ c.attempt \in Nat /\ c.failedCost \in Nat /\ c.bill \in Nat /\ c.actual \in Nat
                  /\ c.task \in Task \cup {None}
BY Zenon DEF Call

\* The empty call is a call, of no task.
LEMMA NoCallType == NoCall \in Call /\ NoCall.task = None
BY Zenon DEF NoCall, Call

\* A process that is not idle has a task.
LEMMA HasTask ==
  ASSUME WorkersOK, NEW w \in Worker
  PROVE  /\ call[w] \in Call
         /\ pc[w] # "idle" => call[w].task \in Task
BY Zenon DEF WorkersOK

\* Exclusion makes the rows of other processes' tasks other rows.
LEMMA OnlyApart ==
  ASSUME WorkersOK, Exclusive, NEW w \in Worker, Only(call[w].task),
         \A v \in Worker \ {w} : pc'[v] = pc[v] /\ call'[v] = call[v]
  PROVE  Apart(w)
<1> SUFFICES ASSUME NEW v \in Worker \ {w}, pc[v] # "idle"
             PROVE  call[v].task \in Task \ {call[w].task}
  BY Zenon DEF Apart, Only
<1>1. call[v].task \in Task
  BY Zenon, HasTask
<1>2. call[v].task # None
  BY Zenon, <1>1, GatewayAssumption
<1> QED
  BY Zenon, <1>1, <1>2 DEF Exclusive

\* What a process knows stays true while others step.
LEMMA ApartKeeps ==
  ASSUME WorkersOK, NEW w \in Worker, Apart(w), NEW v \in Worker \ {w}
  PROVE  /\ Books(v) /\ Retries(v) => (Books(v) /\ Retries(v))'
         /\ Money(v) => Money(v)'
<1>1. CASE pc[v] = "idle"
  BY Zenon, <1>1 DEF Apart, Books, Retries, Money, Calling
<1>2. CASE pc[v] # "idle"
  BY <1>2 DEF Apart, Books, Retries, Money, Covered
<1> QED
  BY Zenon, <1>1, <1>2

\* The parts of the invariant that a step of one process must restore.
LEMMA StepAccounts ==
  ASSUME Accounts, NEW w \in Worker, Apart(w), RowsOK', WorkersOK', Exclusive', (Books(w) /\ Retries(w))',
         \A t \in Task : retried'[t] <= MaxRetries /\ retried'[t] <= open'[t]
  PROVE  Accounts'
<1>1. ASSUME NEW v \in Worker \ {w} PROVE (Books(v) /\ Retries(v))'
  BY Zenon, ApartKeeps DEF Accounts
<1> QED
  BY Zenon, <1>1 DEF Accounts

\* The same for the money.
LEMMA StepFunds ==
  ASSUME WorkersOK, Funds, NEW w \in Worker, Apart(w), Money(w)',
         \A t \in Task : cost'[t] <= MaxCost + Excess /\ billed'[t] <= cost'[t] + Excess * calls'[t]
  PROVE  Funds'
<1>1. ASSUME NEW v \in Worker \ {w} PROVE Money(v)'
  BY Zenon, ApartKeeps DEF Funds
<1> QED
  BY Zenon, <1>1 DEF Funds, CostCeiling, NeverUndercounts, Covered

\* The rows of the other tasks cover their bills as before.
LEMMA OthersCovered ==
  ASSUME Funds, NEW t, Only(t), cost'[t] <= MaxCost + Excess, billed'[t] <= cost'[t] + Excess * calls'[t]
  PROVE  \A u \in Task : cost'[u] <= MaxCost + Excess /\ billed'[u] <= cost'[u] + Excess * calls'[u]
<1> SUFFICES ASSUME NEW u \in Task, u # t
             PROVE  cost'[u] <= MaxCost + Excess /\ billed'[u] <= cost'[u] + Excess * calls'[u]
  BY Zenon
<1>1. cost[u] <= MaxCost + Excess /\ billed[u] <= Covered(u)
  BY Zenon DEF Funds, CostCeiling, NeverUndercounts, Covered
<1>2. cost'[u] = cost[u] /\ billed'[u] = billed[u] /\ cost'[u] + Excess * calls'[u] = Covered(u)
  BY Zenon DEF Only, Covered
<1> QED
  BY Zenon, <1>1, <1>2

\* A process that goes on with its task.
LEMMA GoesOn ==
  ASSUME WorkersOK, Exclusive, NEW w \in Worker, pc[w] # "idle",
         NEW label \in Label \ {"idle"}, Go(w, label),
         NEW c \in Call, call' = [call EXCEPT ![w] = c], c.task = call[w].task,
         label \in Calling => c.provider \in Provider
  PROVE  /\ WorkersOK' /\ Exclusive'
         /\ pc'[w] = label /\ call'[w] = c
         /\ \A v \in Worker \ {w} : pc'[v] = pc[v] /\ call'[v] = call[v]
<1>1. /\ pc'[w] = label /\ call'[w] = c
      /\ \A v \in Worker \ {w} : pc'[v] = pc[v] /\ call'[v] = call[v]
  BY Zenon DEF WorkersOK, Go
<1>2. WorkersOK'
  BY Zenon, <1>1 DEF WorkersOK, Go
<1>3. Exclusive'
  BY <1>1 DEF Exclusive
<1> QED
  BY Zenon, <1>1, <1>2, <1>3

\* A process whose execution ends.
LEMMA Ends ==
  ASSUME WorkersOK, Exclusive, NEW w \in Worker, End(w)
  PROVE  /\ WorkersOK' /\ Exclusive' /\ (Books(w) /\ Retries(w))' /\ Money(w)'
         /\ \A v \in Worker \ {w} : pc'[v] = pc[v] /\ call'[v] = call[v]
<1>1. /\ pc'[w] = "idle" /\ call'[w] = NoCall
      /\ \A v \in Worker \ {w} : pc'[v] = pc[v] /\ call'[v] = call[v]
  BY Zenon DEF WorkersOK, End
<1>2. WorkersOK'
  BY Zenon, <1>1, NoCallType DEF WorkersOK, End, Label, Calling
<1>3. Exclusive'
  BY <1>1, NoCallType DEF Exclusive
<1>4. (Books(w) /\ Retries(w))' /\ Money(w)'
  BY Zenon, <1>1 DEF Books, Retries, Money, Calling
<1> QED
  BY Zenon, <1>1, <1>2, <1>3, <1>4

\* A step that writes no row and ends the execution.
LEMMA EndAccounts ==
  ASSUME Accounts, NEW w \in Worker, End(w), UNCHANGED <<rows, world>>
  PROVE  Accounts' /\ (Funds => Funds')
<1>1. UNCHANGED <<calls, cost, open, billed, retried>>
  BY Zenon DEF rows, world
<1>2. Apart(w)
  BY Zenon, <1>1, Ends, OnlyApart DEF Accounts, Only
<1>3. RowsOK'
  BY Zenon, <1>1 DEF Accounts, RowsOK
<1>4. \A t \in Task : retried'[t] <= MaxRetries /\ retried'[t] <= open'[t]
  BY Zenon, <1>1 DEF Accounts
<1>5. Funds => \A t \in Task : cost'[t] <= MaxCost + Excess /\ billed'[t] <= cost'[t] + Excess * calls'[t]
  BY Zenon, <1>1 DEF Funds, CostCeiling, NeverUndercounts, Covered
<1>6. Accounts'
  BY Zenon, <1>2, <1>3, <1>4, Ends, StepAccounts DEF Accounts
<1>7. Funds => Funds'
  BY Zenon, <1>2, <1>5, Ends, StepFunds DEF Accounts
<1> QED
  BY Zenon, <1>6, <1>7

\* A step that writes no row and goes on.
LEMMA GoAccounts ==
  ASSUME Accounts, NEW w \in Worker, pc[w] # "idle", NEW label \in Label \ {"idle"}, Go(w, label),
         NEW c \in Call, call' = [call EXCEPT ![w] = c], c.task = call[w].task,
         label \in Calling => c.provider \in Provider, UNCHANGED <<rows, world>>,
         (Books(w) /\ Retries(w))', Funds => Money(w)'
  PROVE  Accounts' /\ (Funds => Funds')
<1>1. UNCHANGED <<calls, cost, open, billed, retried>>
  BY Zenon DEF rows, world
<1>2. /\ WorkersOK' /\ Exclusive'
      /\ \A v \in Worker \ {w} : pc'[v] = pc[v] /\ call'[v] = call[v]
  BY Zenon, GoesOn DEF Accounts
<1>3. Apart(w)
  BY Zenon, <1>1, <1>2, OnlyApart DEF Accounts, Only
<1>4. RowsOK'
  BY Zenon, <1>1 DEF Accounts, RowsOK
<1>5. \A t \in Task : retried'[t] <= MaxRetries /\ retried'[t] <= open'[t]
  BY Zenon, <1>1 DEF Accounts
<1>6. Funds => \A t \in Task : cost'[t] <= MaxCost + Excess /\ billed'[t] <= cost'[t] + Excess * calls'[t]
  BY Zenon, <1>1 DEF Funds, CostCeiling, NeverUndercounts, Covered
<1>7. Accounts'
  BY Zenon, <1>2, <1>3, <1>4, <1>5, StepAccounts
<1>8. Funds => Funds'
  BY Zenon, <1>3, <1>6, StepFunds DEF Accounts
<1> QED
  BY Zenon, <1>7, <1>8

\* The numbers of a process and of its task.
LEMMA Numbers ==
  ASSUME Accounts, NEW w \in Worker, pc[w] # "idle"
  PROVE  LET c == call[w]  t == c.task IN
         /\ c \in Call /\ t \in Task
         /\ cost[t] \in Nat /\ open[t] \in Nat /\ calls[t] \in Nat /\ retried[t] \in Nat /\ billed[t] \in Nat
         /\ c.worst \in Nat /\ c.cost \in Nat /\ c.failedCost \in Nat /\ c.attempt \in Nat
         /\ c.retries \in Nat /\ c.bill \in Nat /\ c.actual \in Nat
         /\ MaxRetries \in Nat /\ MaxCost \in Nat /\ Excess \in Nat /\ Excess * calls[t] \in Nat
         /\ Books(w) /\ Retries(w)
         /\ retried[t] <= MaxRetries /\ retried[t] <= open[t]
         /\ Funds => Money(w) /\ cost[t] <= MaxCost + Excess /\ billed[t] <= Covered(t)
<1> DEFINE c == call[w]  t == c.task
<1>1. c \in Call /\ t \in Task
  BY Zenon, HasTask DEF Accounts
<1>2. cost[t] \in Nat /\ open[t] \in Nat /\ calls[t] \in Nat /\ retried[t] \in Nat /\ billed[t] \in Nat
  BY Zenon, <1>1 DEF Accounts, RowsOK
<1>3. /\ c.worst \in Nat /\ c.cost \in Nat /\ c.failedCost \in Nat /\ c.attempt \in Nat
      /\ c.retries \in Nat /\ c.bill \in Nat /\ c.actual \in Nat
  BY Zenon, <1>1, CallFields
<1>4. Books(w) /\ Retries(w) /\ retried[t] <= MaxRetries /\ retried[t] <= open[t]
  BY Zenon, <1>1 DEF Accounts
<1>5. Funds => Money(w) /\ cost[t] <= MaxCost + Excess /\ billed[t] <= Covered(t)
  BY Zenon, <1>1 DEF Funds, CostCeiling, NeverUndercounts, Covered
<1> QED
  BY Zenon, <1>1, <1>2, <1>3, <1>4, <1>5, OneMore, GatewayAssumption

-----------------------------------------------------------------------------
\* execute_task begins, for a task no other process is at.
LEMMA ExecuteAccounts ==
  ASSUME Accounts, NEW w \in Worker, NEW t \in Task, Execute(w, t)
  PROVE  Accounts' /\ (Funds => Funds')
<1> DEFINE c == [call[w] EXCEPT !.task = t]
<1>1. call[w] \in Call
  BY Zenon, HasTask DEF Accounts
<1>2. c \in Call /\ c.task = t
  BY Zenon, <1>1 DEF Call
<1>3. /\ pc'[w] = "ready" /\ call'[w] = c /\ pc[w] = "idle"
      /\ \A v \in Worker \ {w} : pc'[v] = pc[v] /\ call'[v] = call[v]
      /\ \A v \in Worker : call[v].task # t
      /\ UNCHANGED <<calls, cost, open, billed, retried>>
  BY Zenon DEF Execute, Go, Accounts, WorkersOK, rows, world
<1> HIDE DEF c
<1>4. WorkersOK'
  <2>1. pc' \in [Worker -> Label] /\ call' \in [Worker -> Call]
    BY Zenon, <1>2 DEF Execute, Go, Accounts, WorkersOK, Label, c
  <2> QED
    BY Zenon, <2>1, <1>2, <1>3 DEF Accounts, WorkersOK, Calling
<1>5. Exclusive'
  BY <1>2, <1>3 DEF Accounts, Exclusive
<1>6. Apart(w)
  BY Zenon, <1>3 DEF Apart
<1>7. (Books(w) /\ Retries(w))' /\ Money(w)'
  BY Zenon, <1>3 DEF Books, Retries, Money, Calling
<1>8. RowsOK' /\ \A u \in Task : retried'[u] <= MaxRetries /\ retried'[u] <= open'[u]
  BY Zenon, <1>3 DEF Accounts, RowsOK
<1>9. Funds => \A u \in Task : cost'[u] <= MaxCost + Excess /\ billed'[u] <= cost'[u] + Excess * calls'[u]
  BY Zenon, <1>3 DEF Funds, CostCeiling, NeverUndercounts, Covered
<1>10. Accounts'
  BY Zenon, <1>4, <1>5, <1>6, <1>7, <1>8, StepAccounts
<1>11. Funds => Funds'
  BY Zenon, <1>6, <1>7, <1>9, StepFunds DEF Accounts
<1> QED
  BY Zenon, <1>10, <1>11

\* A call is admitted with the usage of its task, and with room for its worst
\* case.
LEMMA AdmitAccounts ==
  ASSUME Accounts, NEW w \in Worker, NEW p \in Provider, NEW worst \in WorstCase, Admit(w, p, worst)
  PROVE  Accounts' /\ (Funds => Funds')
<1> DEFINE t == call[w].task
           c == [NoCall EXCEPT !.task = t, !.provider = p, !.worst = worst,
                               !.calls = calls[t], !.cost = cost[t], !.retries = open[t]]
<1>1. pc[w] = "ready" /\ worst \in Nat
  BY Zenon, GatewayAssumption DEF Admit
<1>2. /\ t \in Task /\ calls[t] \in Nat /\ cost[t] \in Nat /\ open[t] \in Nat
      /\ retried[t] \in Nat /\ retried[t] <= open[t]
  BY Zenon, <1>1, Numbers
<1>3. /\ c \in Call /\ c.task = t /\ c.provider = p /\ c.worst = worst /\ c.cost = cost[t]
      /\ c.retries = open[t] /\ c.attempt = 1 /\ c.failedCost = 0
  BY Zenon, <1>1, <1>2 DEF NoCall, Call
<1>4. Go(w, "ahead") /\ call' = [call EXCEPT ![w] = c] /\ UNCHANGED <<rows, world>>
  BY Zenon DEF Admit
<1>5. cost[t] + worst <= MaxCost
  BY Zenon DEF Admit, EvaluateBudget, UsageForTask
<1> HIDE DEF c
<1>6. pc'[w] = "ahead" /\ call'[w] = c /\ UNCHANGED <<calls, cost, open, billed, retried>>
  BY Zenon, <1>4 DEF Go, Accounts, WorkersOK, rows, world
<1>7. (Books(w) /\ Retries(w))'
  BY <1>2, <1>3, <1>6 DEF Books, Retries, Calling, Label
<1>8. Money(w)'
  BY Zenon, <1>3, <1>5, <1>6 DEF Money
<1>9. "ahead" \in Label \ {"idle"}
  BY Zenon DEF Label
<1> QED
  BY Zenon, <1>1, <1>3, <1>4, <1>7, <1>8, <1>9, GoAccounts

\* begin_attempt adds the row the books expect.
LEMMA WriteAheadAccounts ==
  ASSUME Accounts, NEW w \in Worker, WriteAhead(w)
  PROVE  Accounts' /\ (Funds => Funds')
<1> DEFINE c == call[w]  t == c.task
<1>1. pc[w] = "ahead"
  BY Zenon DEF WriteAhead
<1>2. t \in Task
  BY Zenon, <1>1, Numbers
<1>3. /\ pc'[w] = "send" /\ call' = call /\ retried' = retried /\ billed' = billed
      /\ cost'[t] = cost[t] + c.worst /\ open'[t] = open[t] + 1 /\ calls'[t] = calls[t] + 1
  BY Zenon, <1>2 DEF WriteAhead, Go, Accounts, RowsOK, WorkersOK, world
<1>4. Only(t) /\ \A v \in Worker \ {w} : pc'[v] = pc[v] /\ call'[v] = call[v]
  BY Zenon, <1>2 DEF WriteAhead, Go, Only, Accounts, RowsOK, WorkersOK, world
<1>5. Apart(w)
  BY Zenon, <1>4, OnlyApart DEF Accounts
<1>6. RowsOK'
  BY <1>1, Numbers DEF WriteAhead, Accounts, RowsOK, world
<1>7. WorkersOK' /\ Exclusive'
  BY Zenon, <1>1, <1>3 DEF WriteAhead, Go, Accounts, WorkersOK, Exclusive, Label, Calling
<1>8. (Books(w) /\ Retries(w))'
  BY <1>1, <1>3, Numbers DEF Books, Retries, Calling, Label
<1>9. retried'[t] <= MaxRetries /\ retried'[t] <= open'[t]
  BY <1>1, <1>3, Numbers
<1>10. Accounts'
  BY Zenon, <1>4, <1>5, <1>6, <1>7, <1>8, <1>9, StepAccounts DEF Accounts, Only
<1>11. ASSUME Funds PROVE Funds'
  <2>1. Money(w)' /\ cost'[t] <= MaxCost + Excess /\ billed'[t] <= cost'[t] + Excess * calls'[t]
    <3>1. cost'[t] + Excess * calls'[t] = Covered(t) + c.worst + Excess
      BY <1>1, <1>3, Numbers, OneMore DEF Covered
    <3> QED
      BY <1>11, <1>1, <1>3, <3>1, Numbers DEF Money, Covered
  <2>2. \A u \in Task : cost'[u] <= MaxCost + Excess /\ billed'[u] <= cost'[u] + Excess * calls'[u]
    BY Zenon, <1>11, <1>4, <2>1, OthersCovered
  <2> QED
    BY Zenon, <1>5, <1>11, <2>1, <2>2, StepFunds DEF Accounts
<1> QED
  BY Zenon, <1>10, <1>11

\* The request is billed at most its worst case and the excess, and counts as a retry from its
\* second attempt on.
LEMMA SendAccounts ==
  ASSUME Accounts, NEW w \in Worker, Send(w)
  PROVE  Accounts' /\ (Funds => Funds')
<1> DEFINE t == call[w].task
<1>1. pc[w] = "send"
  BY Zenon DEF Send
<1>2. call[w] \in Call /\ t \in Task
  BY Zenon, <1>1, Numbers
<1>3. PICK bill \in 0..(call[w].worst + Excess) :
        /\ billed' = [billed EXCEPT ![t] = @ + bill]
        /\ call' = [call EXCEPT ![w].bill = bill]
  BY Zenon DEF Send
<1>4. bill \in Nat /\ bill <= call[w].worst + Excess
  BY <1>1, Numbers, GatewayAssumption
<1> DEFINE c == [call[w] EXCEPT !.bill = bill]
<1>5. /\ c \in Call /\ c.task = t /\ c.provider = call[w].provider /\ c.worst = call[w].worst
      /\ c.cost = call[w].cost /\ c.retries = call[w].retries /\ c.attempt = call[w].attempt
      /\ c.failedCost = call[w].failedCost /\ c.bill = bill
  BY Zenon, <1>2, <1>4 DEF Call
<1>6. call' = [call EXCEPT ![w] = c] /\ Go(w, "reply")
  BY Zenon, <1>2, <1>3 DEF Send, Accounts, WorkersOK
<1>7. call[w].provider \in Provider /\ "reply" \in Label \ {"idle"}
  BY Zenon, <1>1 DEF Accounts, WorkersOK, Calling, Label
<1> HIDE DEF c
<1>8. /\ WorkersOK' /\ Exclusive' /\ pc'[w] = "reply" /\ call'[w] = c
      /\ \A v \in Worker \ {w} : pc'[v] = pc[v] /\ call'[v] = call[v]
  BY ZenonT(60), <1>1, <1>5, <1>6, <1>7, GoesOn DEF Accounts
<1>9. /\ cost' = cost /\ open' = open /\ calls' = calls /\ billed'[t] = billed[t] + bill
      /\ retried'[t] = IF call[w].attempt > 1 THEN retried[t] + 1 ELSE retried[t]
  BY Zenon, <1>2, <1>3 DEF Send, Accounts, RowsOK, rows
<1>10. Only(t)
  BY Zenon, <1>2, <1>3 DEF Send, Only, Accounts, RowsOK, rows
<1>11. Apart(w)
  BY Zenon, <1>8, <1>10, OnlyApart DEF Accounts
<1>12. RowsOK'
  <2>1. billed' \in [Task -> Nat]
    BY <1>1, <1>3, <1>4, Numbers DEF Accounts, RowsOK
  <2>2. retried' \in [Task -> Nat]
    BY <1>1, Numbers DEF Send, Accounts, RowsOK
  <2> QED
    BY Zenon, <1>9, <2>1, <2>2 DEF Accounts, RowsOK
<1>13. (Books(w) /\ Retries(w))'
  BY <1>1, <1>5, <1>8, <1>9, Numbers DEF Books, Retries, Calling, Label
<1>14. retried'[t] <= MaxRetries /\ retried'[t] <= open'[t]
  BY <1>1, <1>9, Numbers DEF Books, Retries, Calling, Label
<1>15. Accounts'
  BY Zenon, <1>8, <1>10, <1>11, <1>12, <1>13, <1>14, StepAccounts DEF Accounts, Only
<1>16. ASSUME Funds PROVE Funds'
  <2>1. Money(w)' /\ cost'[t] <= MaxCost + Excess /\ billed'[t] <= cost'[t] + Excess * calls'[t]
    BY <1>16, <1>1, <1>4, <1>5, <1>8, <1>9, Numbers DEF Money, Covered
  <2>2. \A u \in Task : cost'[u] <= MaxCost + Excess /\ billed'[u] <= cost'[u] + Excess * calls'[u]
    BY Zenon, <1>10, <1>16, <2>1, OthersCovered
  <2> QED
    BY Zenon, <1>11, <1>16, <2>1, <2>2, StepFunds DEF Accounts
<1> QED
  BY Zenon, <1>15, <1>16

\* The outcome that will be written covers the bill and is covered by the
\* worst case, but for the excess.
LEMMA OutcomeAccounts ==
  ASSUME Accounts, NEW w \in Worker, NEW outcome \in {"completed", "rejected", "failed"}, NEW actual \in Nat,
         Outcome(w, outcome, actual),
         Funds => call[w].bill <= actual + Excess /\ actual <= call[w].worst + Excess
  PROVE  Accounts' /\ (Funds => Funds')
<1> DEFINE t == call[w].task
           c == [call[w] EXCEPT !.outcome = outcome, !.actual = actual]
<1>1. pc[w] = "reply"
  BY Zenon DEF Outcome
<1>2. call[w] \in Call /\ t \in Task
  BY Zenon, <1>1, Numbers
<1>3. /\ c \in Call /\ c.task = t /\ c.provider = call[w].provider /\ c.worst = call[w].worst
      /\ c.cost = call[w].cost /\ c.retries = call[w].retries /\ c.attempt = call[w].attempt
      /\ c.failedCost = call[w].failedCost /\ c.bill = call[w].bill /\ c.actual = actual
  BY Zenon, <1>2 DEF Call
<1>4. call' = [call EXCEPT ![w] = c] /\ Go(w, "finish") /\ UNCHANGED <<rows, world>>
  BY Zenon, <1>2 DEF Outcome, Accounts, WorkersOK
<1>5. call[w].provider \in Provider /\ "finish" \in Label \ {"idle"}
  BY Zenon, <1>1 DEF Accounts, WorkersOK, Calling, Label
<1> HIDE DEF c
<1>6. pc'[w] = "finish" /\ call'[w] = c /\ UNCHANGED <<calls, cost, open, billed, retried>>
  BY Zenon, <1>4 DEF Go, Accounts, WorkersOK, rows, world
<1>7. (Books(w) /\ Retries(w))'
  BY <1>1, <1>3, <1>6, Numbers DEF Books, Retries, Calling, Label
<1>8. Funds => Money(w)'
  BY Zenon, <1>1, <1>3, <1>6, Numbers DEF Money, Covered
<1> QED
  BY Zenon, <1>1, <1>3, <1>4, <1>5, <1>7, <1>8, GoAccounts

\* After the sleep the books are those of the next attempt.
LEMMA RetryAccounts ==
  ASSUME Accounts, NEW w \in Worker, Retry(w)
  PROVE  Accounts' /\ (Funds => Funds')
<1> DEFINE t == call[w].task
           c == [call[w] EXCEPT !.attempt = @ + 1]
<1>1. pc[w] = "backoff" /\ UNCHANGED <<rows, world>>
  BY Zenon DEF Retry
<1>2. CASE End(w)
  BY Zenon, <1>1, <1>2, EndAccounts
<1>3. CASE call' = [call EXCEPT ![w].attempt = @ + 1] /\ Go(w, "ahead")
  <2>1. call[w] \in Call /\ t \in Task /\ call[w].attempt \in Nat
    BY Zenon, <1>1, Numbers
  <2>2. /\ c \in Call /\ c.task = t /\ c.provider = call[w].provider /\ c.worst = call[w].worst
        /\ c.cost = call[w].cost /\ c.retries = call[w].retries /\ c.attempt = call[w].attempt + 1
        /\ c.failedCost = call[w].failedCost
    BY <2>1 DEF Call
  <2>3. call' = [call EXCEPT ![w] = c]
    BY Zenon, <1>3, <2>1 DEF Accounts, WorkersOK
  <2>4. call[w].provider \in Provider /\ "ahead" \in Label \ {"idle"}
    BY Zenon, <1>1 DEF Accounts, WorkersOK, Calling, Label
  <2> HIDE DEF c
  <2>5. pc'[w] = "ahead" /\ call'[w] = c /\ UNCHANGED <<calls, cost, open, billed, retried>>
    BY Zenon, <1>1, <1>3, <2>3 DEF Go, Accounts, WorkersOK, rows, world
  <2>6. (Books(w) /\ Retries(w))'
    BY <1>1, <2>2, <2>5, Numbers DEF Books, Retries, Calling, Label
  <2>7. Funds => Money(w)'
    BY Zenon, <1>1, <2>2, <2>5, Numbers DEF Money
  <2> QED
    BY Zenon, <1>1, <1>3, <2>2, <2>3, <2>4, <2>6, <2>7, GoAccounts
<1> QED
  BY Zenon, <1>2, <1>3 DEF Retry

\* finish_attempt replaces the worst case by the outcome; the budget is asked
\* again with exactly what the rows now say.
LEMMA FinishAccounts ==
  ASSUME Accounts, NEW w \in Worker, Finish(w)
  PROVE  Accounts' /\ (Funds => Funds')
<1> DEFINE m == call[w]  t == m.task
<1>1. pc[w] = "finish"
  BY Zenon DEF Finish
<1>2. m \in Call /\ t \in Task
  BY Zenon, <1>1, Numbers
<1>3. /\ calls' = calls /\ billed' = billed /\ retried' = retried
      /\ cost'[t] = cost[t] - m.worst + m.actual
      /\ open'[t] = IF m.outcome = "completed" THEN open[t] - 1 ELSE open[t]
  BY Zenon, <1>2 DEF Finish, Accounts, RowsOK, world
<1>4. Only(t)
  BY Zenon, <1>2 DEF Finish, Only, Accounts, RowsOK, world
<1>5. cost'[t] = m.cost + m.failedCost + m.actual /\ open'[t] >= m.retries + m.attempt - 1
  BY <1>1, <1>3, Numbers DEF Books
<1>6. cost'[t] \in Nat /\ open'[t] \in Nat
  BY <1>1, <1>3, <1>5, Numbers DEF Books, Calling, Label
<1>7. RowsOK'
  <2>1. cost' \in [Task -> Nat]
    BY Zenon, <1>2, <1>4, <1>6 DEF Finish, Only, Accounts, RowsOK
  <2>2. open' \in [Task -> Nat]
    BY <1>2, <1>4, <1>6 DEF Finish, Only, Accounts, RowsOK
  <2> QED
    BY Zenon, <1>3, <2>1, <2>2 DEF Accounts, RowsOK
<1>8. \A u \in Task : retried'[u] <= MaxRetries /\ retried'[u] <= open'[u]
  <2>1. retried'[t] <= MaxRetries /\ retried'[t] <= open'[t]
    BY <1>1, <1>3, <1>5, <1>6, Numbers DEF Retries
  <2> QED
    BY Zenon, <1>4, <2>1 DEF Accounts, Only
<1>9. Funds => \A u \in Task : cost'[u] <= MaxCost + Excess /\ billed'[u] <= cost'[u] + Excess * calls'[u]
  <2>1. Funds => cost'[t] <= MaxCost + Excess /\ billed'[t] <= cost'[t] + Excess * calls'[t]
    <3>1. cost'[t] + Excess * calls'[t] = Covered(t) - m.worst + m.actual
      BY <1>1, <1>3, Numbers DEF Covered
    <3>2. Covered(t) \in Nat
      BY <1>1, Numbers DEF Covered
    <3> QED
      BY <1>1, <1>3, <3>1, <3>2, Numbers DEF Money
  <2> QED
    BY Zenon, <1>4, <2>1, OthersCovered
<1>10. /\ WorkersOK' /\ Exclusive' /\ (Books(w) /\ Retries(w))' /\ (Funds => Money(w)')
       /\ \A v \in Worker \ {w} : pc'[v] = pc[v] /\ call'[v] = call[v]
  <2>1. CASE End(w)
    BY Zenon, <2>1, Ends DEF Accounts
  <2>2. CASE Return(w)
    <3> DEFINE c == [NoCall EXCEPT !.task = t]
    <3>1. c \in Call /\ c.task = t
      BY Zenon, <1>2, NoCallType DEF Call
    <3>2. call' = [call EXCEPT ![w] = c] /\ Go(w, "ready") /\ "ready" \in Label \ {"idle"} /\ "ready" \notin Calling
      BY Zenon, <2>2 DEF Return, Label, Calling
    <3> HIDE DEF c
    <3>3. /\ WorkersOK' /\ Exclusive' /\ pc'[w] = "ready"
          /\ \A v \in Worker \ {w} : pc'[v] = pc[v] /\ call'[v] = call[v]
      BY Zenon, <1>1, <3>1, <3>2, GoesOn DEF Accounts
    <3> QED
      BY Zenon, <3>3 DEF Books, Retries, Money, Calling
  <2>3. CASE /\ MayRetry(w) /\ Go(w, "backoff")
             /\ call' = [call EXCEPT ![w].failedCost = @ + m.actual, ![w].actual = 0]
    <3> DEFINE c == [m EXCEPT !.failedCost = @ + m.actual, !.actual = 0]
    <3>1. m.failedCost + m.actual \in Nat
      BY <1>1, Numbers
    <3>2. /\ c \in Call /\ c.task = t /\ c.provider = m.provider /\ c.worst = m.worst /\ c.cost = m.cost
          /\ c.retries = m.retries /\ c.attempt = m.attempt /\ c.failedCost = m.failedCost + m.actual
      BY Zenon, <1>2, <3>1 DEF Call
    <3>3. call' = [call EXCEPT ![w] = c]
      BY Zenon, <1>2, <2>3 DEF Accounts, WorkersOK
    <3>4. m.provider \in Provider /\ "backoff" \in Label \ {"idle"}
      BY Zenon, <1>1 DEF Accounts, WorkersOK, Calling, Label
    <3>5. /\ m.outcome # "completed"
          /\ m.retries + (m.attempt - 1) < MaxRetries
          /\ m.cost + m.failedCost + m.actual + m.worst <= MaxCost
      BY Zenon, <2>3 DEF MayRetry, EvaluateBudget, SoFar
    <3> HIDE DEF c
    <3>6. /\ WorkersOK' /\ Exclusive' /\ pc'[w] = "backoff" /\ call'[w] = c
          /\ \A v \in Worker \ {w} : pc'[v] = pc[v] /\ call'[v] = call[v]
      <4>1. WorkersOK /\ Exclusive /\ pc[w] # "idle"
        BY Zenon, <1>1 DEF Accounts
      <4>2. Go(w, "backoff")
        BY Zenon, <2>3
      <4>3. c.task = call[w].task /\ c.provider \in Provider
        BY Zenon, <3>2, <3>4
      <4> QED
        BY Zenon, <3>2, <3>3, <3>4, <4>1, <4>2, <4>3, GoesOn
    <3>7. (Books(w) /\ Retries(w))'
      <4>1. open'[t] = m.retries + m.attempt /\ m.attempt >= 1
        BY Zenon, <1>1, <1>3, <3>5, Numbers DEF Books, Calling, Label
      <4>2. retried'[t] <= m.retries + m.attempt - 1
        BY Zenon, <1>1, <1>3, Numbers DEF Retries
      <4>3. Books(w)'
        BY <1>1, <1>5, <3>2, <3>6, <4>1, Numbers DEF Books
      <4>4. Retries(w)'
        BY Zenon, <1>1, <3>2, <3>5, <3>6, <4>2, Numbers DEF Retries
      <4> QED
        BY Zenon, <4>3, <4>4
    <3>8. Money(w)'
      BY Zenon, <1>1, <1>5, <3>2, <3>5, <3>6, Numbers DEF Money
    <3> QED
      BY Zenon, <3>6, <3>7, <3>8
  <2> QED
    BY Zenon, <2>1, <2>2, <2>3 DEF Finish
<1>11. Apart(w)
  BY Zenon, <1>4, <1>10, OnlyApart DEF Accounts
<1>12. Accounts'
  BY Zenon, <1>7, <1>8, <1>10, <1>11, StepAccounts
<1>13. Funds => Funds'
  BY Zenon, <1>9, <1>10, <1>11, StepFunds DEF Accounts
<1> QED
  BY Zenon, <1>12, <1>13

\* Time, and steps that change nothing, touch none of this.
LEMMA TickAccounts ==
  ASSUME Accounts, UNCHANGED <<rows, world, pc, call>>
  PROVE  Accounts' /\ (Funds => Funds')
BY DEF Accounts, Funds, rows, world, RowsOK, WorkersOK, Exclusive, Books, Retries, Money,
       Covered, CostCeiling, NeverUndercounts

-----------------------------------------------------------------------------
\* Every reply has an outcome that covers its bill.
LEMMA ReplyAccounts ==
  ASSUME Accounts, NEW w \in Worker, Succeed(w) \/ Rejected(w) \/ RateLimited(w) \/ TimedOut(w)
  PROVE  Accounts' /\ (Funds => Funds')
<1> DEFINE c == call[w]
<1>1. pc[w] = "reply"
  BY Zenon DEF Succeed, Rejected, RateLimited, TimedOut, Fail, Outcome
<1>2. c.bill \in Nat /\ c.worst \in Nat /\ Excess \in Nat /\ (Funds => c.bill <= c.worst + Excess)
  BY Zenon, <1>1, Numbers DEF Money
<1>3. \E outcome \in {"completed", "rejected", "failed"}, actual \in {c.bill, c.worst} : Outcome(w, outcome, actual)
  BY Zenon DEF Succeed, Rejected, RateLimited, TimedOut, Fail
<1> QED
  BY <1>2, <1>3, OutcomeAccounts

\* Every step keeps the accounts and the funds.
LEMMA NextAccounts ==
  ASSUME Accounts, [Next]_vars
  PROVE  Accounts' /\ (Funds => Funds')
<1>1. CASE \E w \in Worker : Leave(w) \/ Crash(w) \/ \E p \in Provider, worst \in WorstCase : Refuse(w, p, worst)
  BY Zenon, <1>1, EndAccounts DEF Leave, Crash, Refuse
<1>2. CASE Tick \/ UNCHANGED vars
  BY Zenon, <1>2, TickAccounts DEF Tick, vars
<1> QED
  BY Zenon, <1>1, <1>2, ExecuteAccounts, AdmitAccounts, WriteAheadAccounts, SendAccounts, ReplyAccounts, FinishAccounts,
     RetryAccounts DEF Next, Generate

\* At first nothing is spent and nobody calls.
LEMMA InitAccounts == Init => Accounts /\ Funds
BY NoCallType, GatewayAssumption DEF Init, Accounts, Funds, RowsOK, WorkersOK, Exclusive, Books, Retries, Money,
   CostCeiling, NeverUndercounts, Label, Calling

\* Accounts and funds hold in every state.
THEOREM FundsInvariant == Spec => [](Accounts /\ Funds)
<1>1. Init => Accounts /\ Funds
  BY Zenon, InitAccounts
<1>2. Accounts /\ Funds /\ [Next]_vars => (Accounts /\ Funds)'
  BY Zenon, NextAccounts
<1> QED
  BY <1>1, <1>2, PTL DEF Spec

\* Over all calls and executions of a task, generate sends no more retries than
\* max_retries: the rows that are not completed count every failure a retry
\* followed.
THEOREM RetriesStayWithinCeiling == Spec => []RetryCeiling
<1>1. Accounts /\ Funds => RetryCeiling
  BY Zenon DEF Accounts, RetryCeiling
<1> QED
  BY <1>1, FundsInvariant, PTL

\* The recorded cost of a task exceeds max_model_cost_usd at most by the excess of one bill over its
\* estimate, however many calls, retries, crashes and resumes there are: no call is admitted that
\* could begin above the ceiling.
THEOREM CostStaysWithinCeiling == Spec => []CostCeiling
<1>1. Accounts /\ Funds => CostCeiling
  BY Zenon DEF Funds
<1> QED
  BY <1>1, FundsInvariant, PTL

\* The rows cover all that is billed: a reply that is lost, a timeout or a crash leaves the worst
\* case on the ledger.
THEOREM RowsCoverBills == Spec => []NeverUndercounts
<1>1. Accounts /\ Funds => NeverUndercounts
  BY Zenon DEF Funds
<1> QED
  BY <1>1, FundsInvariant, PTL
-----------------------------------------------------------------------------
(***************************************************************************)
(* The circuit breaker.  The failures that it counts are the last ones of   *)
(* the history; the ones before are a cooldown old.  While it is open, no   *)
(* failure is younger than its opening, because nothing is being asked.     *)
(***************************************************************************)

Window(b, ages) ==
  /\ b \in [fails : 0..Threshold, opened : NotOpen..Cooldown]
  /\ ages \in Seq(0..Cooldown) /\ Len(ages) <= Threshold + 1
  /\ b.opened = NotOpen <=> b.fails < Threshold
  /\ \A i \in 1..Len(ages) : ages[i] >= b.opened /\ (i + b.fails <= Len(ages) => ages[i] = Cooldown)

\* A process that is asking a provider has its circuit closed.
Trying(w) ==
  pc[w] \in {"ahead", "send", "reply"} => breaker[w][call[w].provider].opened = NotOpen

\* The inductive invariant for the breaker.
Breakers ==
  /\ elapsed \in [Worker -> 0..MaxRuntime]
  /\ breaker = [w \in Worker |-> breaker[w]] /\ history = [w \in Worker |-> history[w]]
  /\ \A w \in Worker : /\ breaker[w] = [p \in Provider |-> breaker[w][p]]
                       /\ history[w] = [p \in Provider |-> history[w][p]]
                       /\ Trying(w) /\ \A p \in Provider : Window(breaker[w][p], history[w][p])

\* The elements of a sequence.
LEMMA Elements == \A S : \A s \in Seq(S) : \A i \in 1..Len(s) : s[i] \in S
OBVIOUS

\* Sequences have a length.
LEMMA LenInNat == \A S : \A s \in Seq(S) : Len(s) \in Nat
OBVIOUS

\* A new breaker has counted nothing.
LEMMA WindowOpens == Window(Closed, <<>>)
BY GatewayAssumption DEF Window, Closed, NotOpen

\* before_call returns when the cooldown is over, and with it the age of all failures.
LEMMA WindowPasses ==
  ASSUME NEW b, NEW ages, Window(b, ages), Allows(b)
  PROVE  Window(Passed(b), ages) /\ Passed(b).opened = NotOpen
<1>1. CASE b.opened = NotOpen
  BY <1>1 DEF Passed
<1>2. CASE b.opened # NotOpen
  <2>1. b.opened \in NotOpen..Cooldown /\ b.opened >= Cooldown
    BY <1>2 DEF Window, Allows
  <2>2. \A i \in 1..Len(ages) : ages[i] \in 0..Cooldown
    BY Zenon, Elements DEF Window
  <2>3. \A i \in 1..Len(ages) : ages[i] = Cooldown
    BY <2>1, <2>2, GatewayAssumption DEF Window, NotOpen
  <2>4. Passed(b) = Closed
    BY <1>2 DEF Passed
  <2>5. Closed.fails = 0 /\ Closed.opened = NotOpen /\ Closed \in [fails : 0..Threshold, opened : NotOpen..Cooldown]
    BY GatewayAssumption DEF Closed, NotOpen
  <2> QED BY <2>3, <2>4, <2>5, GatewayAssumption DEF Window, NotOpen
<1> QED BY <1>1, <1>2

\* record_failure counts a failure of now, and opens the circuit with the last that is allowed.
LEMMA WindowFails ==
  ASSUME NEW b, NEW ages, Window(b, ages), b.opened = NotOpen
  PROVE  Window(RecordFailure(b), Remember(ages))
<1> DEFINE c == RecordFailure(b)
           new == Remember(ages)
<1>1. b.fails \in 0..Threshold /\ b.fails < Threshold /\ Threshold \in Nat /\ Cooldown \in Nat
  BY GatewayAssumption DEF Window
<1>2. c.fails = b.fails + 1 /\ c.opened = IF b.fails + 1 >= Threshold THEN 0 ELSE NotOpen
  BY DEF RecordFailure
<1>3. c \in [fails : 0..Threshold, opened : NotOpen..Cooldown]
  BY <1>1 DEF RecordFailure, NotOpen, Window
<1>4. c.opened = NotOpen <=> c.fails < Threshold
  BY <1>1, <1>2 DEF NotOpen
<1>5. ages \in Seq(0..Cooldown) /\ Len(ages) \in Nat /\ Len(ages) <= Threshold + 1
  BY DEF Window
<1> SUFFICES Window(c, new)
  OBVIOUS
<1> HIDE DEF c
<1>6. CASE Len(ages) > Threshold
  <2>1. Len(ages) = Threshold + 1
    BY <1>1, <1>5, <1>6
  <2>2. Tail(ages) \in Seq(0..Cooldown) /\ Len(Tail(ages)) = Threshold
    BY <1>1, <1>5, <2>1
  <2>3. \A i \in 1..Threshold : Tail(ages)[i] = ages[i + 1]
    BY <1>1, <1>5, <2>1
  <2>4. new = Append(Tail(ages), 0)
    BY <1>6 DEF Remember
  <2>5. /\ new \in Seq(0..Cooldown) /\ Len(new) = Threshold + 1 /\ new[Threshold + 1] = 0
        /\ \A i \in 1..Threshold : new[i] = ages[i + 1]
    BY <1>1, <2>2, <2>3, <2>4
  <2> HIDE DEF new
  <2>6. ASSUME NEW i \in 1..Len(new)
        PROVE  new[i] >= c.opened /\ (i + c.fails <= Len(new) => new[i] = Cooldown)
    <3>1. new[i] \in 0..Cooldown
      BY Zenon, <2>5, Elements
    <3>2. new[i] >= c.opened
      BY <1>1, <1>2, <3>1 DEF NotOpen
    <3>3. Len(new) = Threshold + 1
      BY Zenon, <2>5
    <3>4. i + c.fails <= Len(new) => i \in 1..Threshold /\ i + 1 \in 1..Len(ages) /\ (i + 1) + b.fails <= Len(ages)
      BY <1>1, <1>2, <2>1, <3>3
    <3>5. i + c.fails <= Len(new) => new[i] = ages[i + 1] /\ ages[i + 1] = Cooldown
      BY Zenon, <2>5, <3>4 DEF Window
    <3> QED BY Zenon, <3>2, <3>5
  <2>7. Len(new) <= Threshold + 1
    BY <1>1, <2>5
  <2> QED BY Zenon, <1>3, <1>4, <2>5, <2>6, <2>7 DEF Window
<1>7. CASE ~(Len(ages) > Threshold)
  <2>1. new = Append(ages, 0)
    BY <1>7 DEF Remember
  <2>2. /\ new \in Seq(0..Cooldown) /\ Len(new) = Len(ages) + 1 /\ new[Len(ages) + 1] = 0
        /\ \A i \in 1..Len(ages) : new[i] = ages[i]
    BY <1>1, <1>5, <2>1
  <2> HIDE DEF new
  <2>3. ASSUME NEW i \in 1..Len(new)
        PROVE  new[i] >= c.opened /\ (i + c.fails <= Len(new) => new[i] = Cooldown)
    <3>1. new[i] \in 0..Cooldown
      BY Zenon, <2>2, Elements
    <3>2. new[i] >= c.opened
      BY <1>1, <1>2, <3>1 DEF NotOpen
    <3>3. Len(new) = Len(ages) + 1 /\ Len(ages) \in Nat
      BY Zenon, <1>5, <2>2
    <3>4. i + c.fails <= Len(new) => i \in 1..Len(ages) /\ i + b.fails <= Len(ages)
      BY <1>1, <1>2, <3>3
    <3>5. i + c.fails <= Len(new) => new[i] = ages[i] /\ ages[i] = Cooldown
      BY Zenon, <2>2, <3>4 DEF Window
    <3> QED BY Zenon, <3>2, <3>5
  <2>4. Len(new) <= Threshold + 1
    BY <1>1, <1>5, <1>7, <2>2
  <2> QED BY Zenon, <1>3, <1>4, <2>2, <2>3, <2>4 DEF Window
<1> QED BY <1>6, <1>7

\* The failure before the last failure_threshold ones is not counted any more.
LEMMA WindowIsWide ==
  ASSUME NEW b, NEW ages, Window(b, ages), Len(ages) > Threshold
  PROVE  ages[1] = Cooldown
<1>1. ages \in Seq(0..Cooldown) /\ b.fails \in 0..Threshold
  BY Zenon DEF Window
<1>2. Len(ages) \in Nat
  BY Zenon, <1>1, LenInNat
<1>3. 1 \in 1..Len(ages) /\ 1 + b.fails <= Len(ages)
  BY <1>1, <1>2, GatewayAssumption
<1> QED BY Zenon, <1>3 DEF Window

\* Time passes for the breaker and for the failures alike.
LEMMA WindowAges ==
  ASSUME NEW b, NEW ages, Window(b, ages)
  PROVE  /\ Window(Older(b), OlderAges(ages))
         /\ b.opened = NotOpen => Older(b).opened = NotOpen
<1> DEFINE c == Older(b)
           new == OlderAges(ages)
<1>1. /\ b \in [fails : 0..Threshold, opened : NotOpen..Cooldown] /\ Threshold \in Nat /\ Cooldown \in Nat
      /\ ages \in Seq(0..Cooldown) /\ Len(ages) \in Nat /\ DOMAIN ages = 1..Len(ages)
  BY GatewayAssumption DEF Window
<1>2. c.fails = b.fails /\ c.opened = IF b.opened \in 0..(Cooldown - 1) THEN b.opened + 1 ELSE b.opened
  BY <1>1 DEF Older
<1>3. c \in [fails : 0..Threshold, opened : NotOpen..Cooldown]
  BY <1>1 DEF Older, NotOpen
<1>4. c.opened = NotOpen <=> b.opened = NotOpen
  BY <1>1, <1>2 DEF NotOpen
<1>5. \A i \in 1..Len(ages) : new[i] = IF ages[i] < Cooldown THEN ages[i] + 1 ELSE Cooldown
  BY <1>1 DEF OlderAges
<1>6. \A i \in 1..Len(ages) : ages[i] \in 0..Cooldown
  BY Zenon, <1>1, Elements
<1>7. new \in Seq(0..Cooldown) /\ Len(new) = Len(ages)
  BY <1>1, <1>6 DEF OlderAges
<1> HIDE DEF c, new
<1>8. ASSUME NEW i \in 1..Len(new)
      PROVE  new[i] >= c.opened /\ (i + c.fails <= Len(new) => new[i] = Cooldown)
  <2>1. ages[i] \in 0..Cooldown /\ ages[i] >= b.opened /\ (i + b.fails <= Len(ages) => ages[i] = Cooldown)
    BY <1>6, <1>7 DEF Window
  <2>2. new[i] = IF ages[i] < Cooldown THEN ages[i] + 1 ELSE Cooldown
    BY Zenon, <1>5, <1>7
  <2>3. new[i] >= c.opened
    BY <1>1, <1>2, <2>1, <2>2 DEF NotOpen
  <2>4. i + c.fails <= Len(new) => new[i] = Cooldown
    BY <1>1, <1>2, <1>7, <2>1, <2>2
  <2> QED BY Zenon, <2>3, <2>4
<1>9. Window(c, new)
  BY <1>2, <1>3, <1>4, <1>7, <1>8 DEF Window
<1> QED BY <1>4, <1>9 DEF c, new

-----------------------------------------------------------------------------
\* A step that leaves the breakers alone and does not begin to ask a provider.
LEMMA SameBreakers ==
  ASSUME Breakers, NEW w \in Worker, UNCHANGED <<breaker, history>>, elapsed' \in [Worker -> 0..MaxRuntime],
         \A v \in Worker \ {w} : pc'[v] = pc[v] /\ call'[v] = call[v],
         Trying(w)'
  PROVE  Breakers'
<1>1. \A v \in Worker : Trying(v)'
  BY Zenon DEF Breakers, Trying
<1> QED BY Zenon, <1>1 DEF Breakers

\* A step in which one process uses one breaker.
LEMMA OneBreaker ==
  ASSUME Breakers, NEW w \in Worker, NEW p \in Provider, NEW b, NEW ages, Window(b, ages),
         SetBreaker(w, p, b), history' = [history EXCEPT ![w][p] = ages], UNCHANGED elapsed,
         \A v \in Worker \ {w} : pc'[v] = pc[v] /\ call'[v] = call[v],
         pc'[w] \in {"ahead", "send", "reply"} => call'[w].provider = p /\ b.opened = NotOpen
  PROVE  Breakers'
<1>1. /\ breaker' = [v \in Worker |-> breaker'[v]] /\ history' = [v \in Worker |-> history'[v]]
      /\ \A v \in Worker \ {w} : breaker'[v] = breaker[v] /\ history'[v] = history[v]
      /\ breaker'[w] = [breaker[w] EXCEPT ![p] = b] /\ history'[w] = [history[w] EXCEPT ![p] = ages]
  BY Zenon DEF Breakers, SetBreaker
<1>2. /\ breaker'[w][p] = b /\ history'[w][p] = ages
      /\ \A q \in Provider \ {p} : breaker'[w][q] = breaker[w][q] /\ history'[w][q] = history[w][q]
      /\ breaker'[w] = [q \in Provider |-> breaker'[w][q]] /\ history'[w] = [q \in Provider |-> history'[w][q]]
  BY Zenon, <1>1 DEF Breakers
<1>3. Trying(w)'
  BY Zenon, <1>2 DEF Trying
<1>4. ASSUME NEW v \in Worker \ {w}
      PROVE  /\ breaker'[v] = [q \in Provider |-> breaker'[v][q]] /\ history'[v] = [q \in Provider |-> history'[v][q]]
             /\ Trying(v)' /\ \A q \in Provider : Window(breaker'[v][q], history'[v][q])
  <2>1. /\ breaker'[v] = breaker[v] /\ history'[v] = history[v]
        /\ pc'[v] = pc[v] /\ call'[v] = call[v]
    BY Zenon, <1>1
  <2>2. Trying(v)'
    <3>1. Trying(v)
      BY Zenon DEF Breakers
    <3> QED BY Zenon, <2>1, <3>1 DEF Trying
  <2> QED BY Zenon, <2>1, <2>2 DEF Breakers
<1>5. \A q \in Provider : Window(breaker'[w][q], history'[w][q])
  <2>1. \A q \in Provider : Window(breaker[w][q], history[w][q])
    BY Zenon DEF Breakers
  <2> QED BY Zenon, <1>2, <2>1
<1> QED BY Zenon, <1>1, <1>2, <1>3, <1>4, <1>5 DEF Breakers

\* The steps that end an execution.
LEMMA EndBreakers ==
  ASSUME WorkersOK, Breakers, NEW w \in Worker, End(w), UNCHANGED <<breaker, history>>
  PROVE  Breakers'
<1>1. pc'[w] = "idle" /\ \A v \in Worker \ {w} : pc'[v] = pc[v] /\ call'[v] = call[v]
  BY Zenon DEF WorkersOK, End
<1>2. elapsed' \in [Worker -> 0..MaxRuntime]
  BY GatewayAssumption DEF Breakers, End
<1>3. Trying(w)'
  BY Zenon, <1>1 DEF Trying
<1> QED BY Zenon, <1>1, <1>2, <1>3, SameBreakers

\* The steps of a process that goes on asking the same provider, or asks none.
LEMMA GoBreakers ==
  ASSUME WorkersOK, Breakers, NEW w \in Worker, NEW label, Go(w, label),
         UNCHANGED <<breaker, history>>, NEW c, call' = [call EXCEPT ![w] = c],
         label \in {"ahead", "send", "reply"} =>
           pc[w] \in {"ahead", "send", "reply"} /\ c.provider = call[w].provider
  PROVE  Breakers'
<1>1. /\ pc'[w] = label /\ call'[w] = c /\ elapsed' = elapsed
      /\ \A v \in Worker \ {w} : pc'[v] = pc[v] /\ call'[v] = call[v]
  BY Zenon DEF WorkersOK, Go
<1>2. Trying(w)'
  <2>1. Trying(w) /\ breaker' = breaker
    BY Zenon DEF Breakers
  <2> QED BY Zenon, <1>1, <2>1 DEF Trying
<1> QED BY Zenon, <1>1, <1>2, SameBreakers DEF Breakers

\* The same, of a process that is about to ask no provider.
LEMMA RestBreakers ==
  ASSUME WorkersOK, Breakers, NEW w \in Worker, NEW label \in {"ready", "backoff"}, Go(w, label),
         UNCHANGED <<breaker, history>>, NEW c, call' = [call EXCEPT ![w] = c]
  PROVE  Breakers'
<1>1. /\ pc'[w] = label /\ elapsed' = elapsed
      /\ \A v \in Worker \ {w} : pc'[v] = pc[v] /\ call'[v] = call[v]
  BY Zenon DEF WorkersOK, Go
<1>2. Trying(w)'
  BY Zenon, <1>1 DEF Trying
<1> QED BY Zenon, <1>1, <1>2, SameBreakers DEF Breakers

\* before_call of a process that is about to ask the provider.
LEMMA PassBreakers ==
  ASSUME WorkersOK, Breakers, NEW w \in Worker, NEW p \in Provider, Pass(w, p), Go(w, "ahead"),
         NEW c, call' = [call EXCEPT ![w] = c], c.provider = p
  PROVE  Breakers'
<1> DEFINE b == Passed(breaker[w][p])  ages == history[w][p]
<1>1. Window(breaker[w][p], ages) /\ Allows(breaker[w][p])
  BY Zenon DEF Breakers, Pass
<1>2. Window(b, ages) /\ b.opened = NotOpen
  BY Zenon, <1>1, WindowPasses
<1>3. history' = [history EXCEPT ![w][p] = ages] /\ SetBreaker(w, p, b)
  <2>1. history' = history /\ SetBreaker(w, p, b)
    BY Zenon DEF Pass
  <2>2. [history[w] EXCEPT ![p] = ages] = history[w]
    BY Zenon DEF Breakers
  <2>3. history = [v \in Worker |-> history[v]]
    BY Zenon DEF Breakers
  <2>4. [history EXCEPT ![w] = history[w]] = history
    BY Zenon, <2>3
  <2> QED BY Zenon, <2>1, <2>2, <2>4
<1>4. /\ call'[w] = c /\ elapsed' = elapsed
      /\ \A v \in Worker \ {w} : pc'[v] = pc[v] /\ call'[v] = call[v]
  BY Zenon DEF WorkersOK, Go
<1> HIDE DEF b, ages
<1> QED BY Zenon, <1>2, <1>3, <1>4, OneBreaker

\* A reply is counted by the breaker of its provider.
LEMMA ReplyBreakers ==
  ASSUME WorkersOK, Breakers, NEW w \in Worker, Succeed(w) \/ Rejected(w) \/ RateLimited(w) \/ TimedOut(w)
  PROVE  Breakers'
<1> DEFINE p == call[w].provider
<1>1. pc[w] = "reply" /\ \E outcome, actual : Outcome(w, outcome, actual)
  BY Zenon DEF Succeed, Rejected, RateLimited, TimedOut, Fail, Outcome
<1>2. /\ pc'[w] = "finish" /\ UNCHANGED elapsed
      /\ \A v \in Worker \ {w} : pc'[v] = pc[v] /\ call'[v] = call[v]
  BY Zenon, <1>1 DEF Outcome, WorkersOK, Go
<1>3. p \in Provider
  BY Zenon, <1>1 DEF WorkersOK, Calling, Label
<1>4. Window(breaker[w][p], history[w][p]) /\ breaker[w][p].opened = NotOpen
  BY Zenon, <1>1, <1>3 DEF Breakers, Trying
<1>5. ASSUME NEW q, q = p, NEW b, NEW ages, Window(b, ages), SetBreaker(w, q, b),
             history' = [history EXCEPT ![w][q] = ages]
      PROVE  Breakers'
  BY Zenon, <1>2, <1>3, <1>5, OneBreaker
<1>6. CASE Succeed(w)
  BY Zenon, <1>5, <1>6, WindowOpens DEF Succeed
<1>7. CASE Rejected(w)
  <2>1. Trying(w)'
    BY Zenon, <1>2 DEF Trying
  <2> QED BY Zenon, <1>2, <1>7, <2>1, SameBreakers DEF Rejected, Breakers
<1>8. CASE RateLimited(w) \/ TimedOut(w)
  <2>1. /\ SetBreaker(w, p, RecordFailure(breaker[w][p]))
        /\ history' = [history EXCEPT ![w][p] = Remember(history[w][p])]
    BY Zenon, <1>3, <1>8 DEF RateLimited, TimedOut, Fail, Breakers
  <2>2. Window(RecordFailure(breaker[w][p]), Remember(history[w][p]))
    BY Zenon, <1>4, WindowFails
  <2> QED BY Zenon, <1>5, <2>1, <2>2
<1> QED BY Zenon, <1>6, <1>7, <1>8

\* Time passes for all breakers.
LEMMA TickBreakers ==
  ASSUME WorkersOK, Breakers, Tick
  PROVE  Breakers'
<1>1. elapsed' \in [Worker -> 0..MaxRuntime]
  BY GatewayAssumption DEF Breakers, Tick
<1>2. /\ breaker' = [w \in Worker |-> [p \in Provider |-> Older(breaker[w][p])]]
      /\ history' = [w \in Worker |-> [p \in Provider |-> OlderAges(history[w][p])]]
      /\ pc' = pc /\ call' = call
  BY Zenon DEF Tick
<1>3. ASSUME NEW w \in Worker
      PROVE  /\ breaker'[w] = [p \in Provider |-> breaker'[w][p]]
             /\ history'[w] = [p \in Provider |-> history'[w][p]]
             /\ Trying(w)' /\ \A p \in Provider : Window(breaker'[w][p], history'[w][p])
  <2>1. \A p \in Provider :
          breaker'[w][p] = Older(breaker[w][p]) /\ history'[w][p] = OlderAges(history[w][p])
    BY Zenon, <1>2
  <2>2. \A p \in Provider : Window(breaker[w][p], history[w][p])
    BY Zenon DEF Breakers
  <2>3. pc[w] \in {"ahead", "send", "reply"} => call[w].provider \in Provider
    BY Zenon DEF WorkersOK, Calling, Label
  <2>4. Trying(w)
    BY Zenon DEF Breakers
  <2>5. \A p \in Provider : breaker[w][p].opened = NotOpen => breaker'[w][p].opened = NotOpen
    BY Zenon, <2>1, <2>2, WindowAges
  <2>6. Trying(w)'
    BY Zenon, <1>2, <2>3, <2>4, <2>5 DEF Trying
  <2>7. \A p \in Provider : Window(breaker'[w][p], history'[w][p])
    BY Zenon, <2>1, <2>2, WindowAges
  <2>8. breaker'[w] = [p \in Provider |-> breaker'[w][p]] /\ history'[w] = [p \in Provider |-> history'[w][p]]
    BY Zenon, <1>2
  <2> QED BY Zenon, <2>6, <2>7, <2>8
<1>4. breaker' = [w \in Worker |-> breaker'[w]] /\ history' = [w \in Worker |-> history'[w]]
  BY Zenon, <1>2
<1> QED BY Zenon, <1>1, <1>3, <1>4 DEF Breakers

\* A process that starts again has a new gateway.
LEMMA CrashBreakers ==
  ASSUME WorkersOK, Breakers, NEW w \in Worker, Crash(w)
  PROVE  Breakers'
<1>1. pc'[w] = "idle" /\ \A v \in Worker \ {w} : pc'[v] = pc[v] /\ call'[v] = call[v]
  BY Zenon DEF WorkersOK, Crash, End
<1>2. elapsed' \in [Worker -> 0..MaxRuntime]
  BY GatewayAssumption DEF Breakers, Crash, End
<1>3. /\ breaker'[w] = [p \in Provider |-> Closed] /\ history'[w] = [p \in Provider |-> <<>>]
      /\ \A v \in Worker \ {w} : breaker'[v] = breaker[v] /\ history'[v] = history[v]
      /\ breaker' = [v \in Worker |-> breaker'[v]] /\ history' = [v \in Worker |-> history'[v]]
  BY Zenon DEF Crash, Breakers
<1>4. Trying(w)'
  BY Zenon, <1>1 DEF Trying
<1>5. \A v \in Worker \ {w} : Trying(v)'
  <2> SUFFICES ASSUME NEW v \in Worker \ {w}
               PROVE  Trying(v)'
    OBVIOUS
  <2>1. Trying(v)
    BY Zenon DEF Breakers
  <2> QED BY Zenon, <1>1, <1>3, <2>1 DEF Trying
<1>6. \A p \in Provider : Window(breaker'[w][p], history'[w][p])
  BY Zenon, <1>3, WindowOpens
<1>7. /\ breaker'[w] = [p \in Provider |-> breaker'[w][p]]
      /\ history'[w] = [p \in Provider |-> history'[w][p]]
  BY Zenon, <1>3
<1>8. ASSUME NEW v \in Worker \ {w}
      PROVE  /\ breaker'[v] = [p \in Provider |-> breaker'[v][p]]
             /\ history'[v] = [p \in Provider |-> history'[v][p]]
             /\ \A p \in Provider : Window(breaker'[v][p], history'[v][p])
  BY Zenon, <1>3 DEF Breakers
<1> QED BY Zenon, <1>2, <1>3, <1>4, <1>5, <1>6, <1>7, <1>8 DEF Breakers

\* Every step keeps the breakers.
LEMMA NextBreakers ==
  ASSUME Accounts, Breakers, [Next]_vars
  PROVE  Breakers'
<1>0. WorkersOK
  BY DEF Accounts
<1>1. ASSUME NEW w \in Worker, Leave(w) \/ \E p \in Provider, worst \in WorstCase : Refuse(w, p, worst)
      PROVE  Breakers'
  BY Zenon, <1>0, <1>1, EndBreakers DEF Leave, Refuse
<1>2. ASSUME NEW w \in Worker, NEW t \in Task, Execute(w, t)
      PROVE  Breakers'
  <2>1. PICK c : call' = [call EXCEPT ![w] = c]
    BY Zenon, <1>2 DEF Execute
  <2>2. Go(w, "ready") /\ UNCHANGED <<breaker, history>>
    BY Zenon, <1>2 DEF Execute
  <2> QED BY Zenon, <1>0, <2>1, <2>2, RestBreakers
<1>3. ASSUME NEW w \in Worker, NEW p \in Provider, NEW worst \in WorstCase, Admit(w, p, worst)
      PROVE  Breakers'
  <2> DEFINE t == call[w].task
             c == [NoCall EXCEPT !.task = t, !.provider = p, !.worst = worst,
                                 !.calls = calls[t], !.cost = cost[t], !.retries = open[t]]
  <2>1. call' = [call EXCEPT ![w] = c] /\ Pass(w, p) /\ Go(w, "ahead")
    BY Zenon, <1>3 DEF Admit
  <2>2. c.provider = p
    BY Zenon DEF NoCall
  <2> HIDE DEF c
  <2> QED BY Zenon, <1>0, <2>1, <2>2, PassBreakers
<1>4. ASSUME NEW w \in Worker, WriteAhead(w)
      PROVE  Breakers'
  <2>1. call' = [call EXCEPT ![w] = call[w]]
    BY Zenon, <1>0, <1>4 DEF WriteAhead, WorkersOK
  <2> QED BY Zenon, <1>0, <1>4, <2>1, GoBreakers DEF WriteAhead
<1>5. ASSUME NEW w \in Worker, Send(w)
      PROVE  Breakers'
  <2>1. PICK bill : call' = [call EXCEPT ![w].bill = bill]
    BY Zenon, <1>5 DEF Send
  <2> DEFINE c == [call[w] EXCEPT !.bill = bill]
  <2>2. call' = [call EXCEPT ![w] = c]
    BY Zenon, <1>0, <2>1 DEF WorkersOK
  <2>3. c.provider = call[w].provider
    BY Zenon, <1>0 DEF WorkersOK, Call
  <2> HIDE DEF c
  <2>4. pc[w] = "send" /\ Go(w, "reply") /\ UNCHANGED <<breaker, history>>
    BY Zenon, <1>5 DEF Send
  <2> QED BY Zenon, <1>0, <2>2, <2>3, <2>4, GoBreakers
<1>6. ASSUME NEW w \in Worker, Retry(w)
      PROVE  Breakers'
  <2>1. pc[w] = "backoff" /\ call[w].provider \in Provider /\ call[w] \in Call
    BY Zenon, <1>0, <1>6 DEF Retry, WorkersOK, Calling, Label
  <2>2. CASE End(w) /\ UNCHANGED <<breaker, history>>
    BY Zenon, <1>0, <2>2, EndBreakers
  <2>3. CASE Pass(w, call[w].provider) /\ call' = [call EXCEPT ![w].attempt = @ + 1] /\ Go(w, "ahead")
    <3> DEFINE c == [call[w] EXCEPT !.attempt = @ + 1]
    <3>1. call' = [call EXCEPT ![w] = c]
      BY Zenon, <1>0, <2>3 DEF WorkersOK
    <3>2. c.provider = call[w].provider
      BY Zenon, <2>1 DEF Call
    <3> HIDE DEF c
    <3> QED BY Zenon, <1>0, <2>1, <2>3, <3>1, <3>2, PassBreakers
  <2> QED BY Zenon, <1>6, <2>2, <2>3 DEF Retry
<1>7. ASSUME NEW w \in Worker, Finish(w)
      PROVE  Breakers'
  <2>1. UNCHANGED <<breaker, history>>
    BY Zenon, <1>7 DEF Finish
  <2>2. CASE End(w)
    BY Zenon, <1>0, <2>1, <2>2, EndBreakers
  <2>3. CASE Return(w)
    <3>1. PICK c : call' = [call EXCEPT ![w] = c] /\ Go(w, "ready")
      BY Zenon, <2>3 DEF Return
    <3> QED BY Zenon, <1>0, <2>1, <3>1, RestBreakers
  <2>4. CASE Go(w, "backoff") /\ call' = [call EXCEPT ![w].failedCost = @ + call[w].actual, ![w].actual = 0]
    <3>1. PICK c : call' = [call EXCEPT ![w] = c]
      BY Zenon, <2>4
    <3> QED BY Zenon, <1>0, <2>1, <2>4, <3>1, RestBreakers
  <2> QED BY Zenon, <1>7, <2>2, <2>3, <2>4 DEF Finish
<1>8. CASE UNCHANGED vars
  BY <1>8 DEF vars, Breakers, Trying
<1> QED BY Zenon, <1>0, <1>1, <1>2, <1>3, <1>4, <1>5, <1>6, <1>7, <1>8,
           ReplyBreakers, CrashBreakers, TickBreakers DEF Next, Generate

\* At first no breaker has counted anything.
LEMMA InitBreakers == Init => Breakers
<1> SUFFICES ASSUME Init
             PROVE  Breakers
  OBVIOUS
<1>1. elapsed \in [Worker -> 0..MaxRuntime]
  BY GatewayAssumption DEF Init
<1> QED BY Zenon, <1>1, WindowOpens DEF Init, Breakers, Trying

\* The breakers hold in every state.
THEOREM BreakersInvariant == Spec => [](Accounts /\ Breakers)
<1>1. Init => Accounts /\ Breakers
  BY Zenon, InitAccounts, InitBreakers
<1>2. Accounts /\ Breakers /\ [Next]_vars => (Accounts /\ Breakers)'
  BY Zenon, NextAccounts, NextBreakers
<1> QED
  BY <1>1, <1>2, PTL DEF Spec

\* A gateway has at most failure_threshold requests fail at a provider within a cooldown, whatever
\* calls, retries and executions it runs: record_failure opens the circuit with the last of them,
\* and before_call closes it only when all of them are a cooldown old.
THEOREM ProviderIsSpared == Spec => []NotHammered
<1>1. Accounts /\ Breakers => NotHammered
  <2> SUFFICES ASSUME Breakers, NEW w \in Worker, NEW p \in Provider,
                      Len(history[w][p]) > Threshold
               PROVE  history[w][p][1] = Cooldown
    BY Zenon DEF NotHammered
  <2>1. Window(breaker[w][p], history[w][p])
    BY Zenon DEF Breakers
  <2> QED BY <2>1, WindowIsWide
<1> QED
  BY <1>1, BreakersInvariant, PTL

\* The state of the gateway has its types: no row, cost or counter becomes negative, whatever order
\* rows are written, rewritten and abandoned in, and no breaker counts beyond its threshold.
THEOREM TypeCorrect == Spec => []TypeOK
<1>1. Accounts /\ Breakers => TypeOK
  <2> SUFFICES ASSUME Accounts, Breakers
               PROVE  TypeOK
    OBVIOUS
  <2>1. \A w \in Worker : breaker[w] \in [Provider -> [fails : 0..Threshold, opened : NotOpen..Cooldown]]
    BY Zenon DEF Breakers, Window
  <2>2. breaker \in [Worker -> [Provider -> [fails : 0..Threshold, opened : NotOpen..Cooldown]]]
    BY Zenon, <2>1 DEF Breakers
  <2> QED BY Zenon, <2>2 DEF Accounts, Breakers, TypeOK
<1> QED
  BY <1>1, BreakersInvariant, PTL
=============================================================================
