--------------------------- MODULE RuntimeSessions ---------------------------
(***************************************************************************)
(* Digital twins: a session reported by a hook, its subagents, and the      *)
(* transactions that register, end, close and reap them.                    *)
(*                                                                         *)
(* A row of agent_runtime_sessions is a session or a subagent and has a     *)
(* Task; a session also has the Mission of all these Tasks.  Transactions   *)
(* run under READ COMMITTED: what they write is visible when they commit,   *)
(* and they hold their row locks until then.                                *)
(***************************************************************************)
EXTENDS Transitions, Naturals

CONSTANTS
  Session, Sub,    \* external_session_ref, external_instance_ref
  Parent,          \* parent_external_session_ref of each subagent
  Request, Reaper, \* API requests in flight; worker processes' reap sweeps
  None,
  Outcome,         \* outcomes that a PATCH reports
  MaxDetours       \* bound: failed transactions and external requests, together

ASSUME SessionsAssumption ==
  /\ Parent \in [Sub -> Session]
  /\ Session \cap Sub = {} /\ Request \cap Reaper = {} /\ None \notin Session \cup Sub
  /\ Outcome \subseteq {"completed", "failed", "abandoned"} /\ MaxDetours \in Nat

VARIABLES
  status,    \* of a row: none, open (ended_at is null), ended
  outcome,   \* of a session row
  task,      \* status of a row's Task
  mission,   \* status of a session's Mission
  closure,   \* of a subagent: its agent_runtime_closures row
  fresh,     \* whether a row's last activity is within the reap window
  txn,       \* the transactions
  aborts, externals

db   == <<status, outcome, task, mission, closure>>
vars == <<db, fresh, txn, aborts, externals>>

Row == Session \cup Sub
Txn == Request \cup Reaper

NoClosure == [by |-> "none", outcome |-> "none", late |-> FALSE]
Terminal  == {"completed", "failed", "cancelled"}

-----------------------------------------------------------------------------
(***************************************************************************)
(* A transaction: locks are the rows it holds FOR UPDATE; todo the          *)
(* subagents it has yet to close; closing, late and ends the subagents it   *)
(* closes or stamps and the sessions it ends; over those of its rows whose  *)
(* Task was terminal when loaded, and running the sessions whose Mission    *)
(* was running when loaded.                                                *)
(***************************************************************************)
Idle ==
  [pc |-> "idle", row |-> None, by |-> "none", outcome |-> "none", ended |-> FALSE,
   locks |-> {}, todo |-> {}, closing |-> {}, late |-> {}, ends |-> {}, over |-> {}, running |-> {}]

Set(t, r) == txn' = [txn EXCEPT ![t] = r]

Over(rows) == {x \in rows : task[x] \in Terminal}

\* A row is held FOR UPDATE, or FOR KEY SHARE by the transaction that has
\* inserted a subagent which references it.
Held(u, x) == x \in txn[u].locks

\* Variant with a bug: parent_session_id is no foreign key.
SharedNever(u, s) == FALSE

Shared(u, s) == txn[u].pc = "inserted" /\ txn[u].row \in Sub /\ Parent[txn[u].row] = s

Lockable(t, x) == \A u \in Txn \ {t} : ~Held(u, x) /\ ~Shared(u, x)

-----------------------------------------------------------------------------
(***************************************************************************)
(* Registration.                                                           *)
(***************************************************************************)

\* No row with this reference exists; a subagent's session has not ended.
RegisterLoad(t, x) ==
  /\ txn[t].pc = "idle"
  /\ status[x] = "none"
  /\ x \in Sub => status[Parent[x]] = "open"
  /\ Set(t, [Idle EXCEPT !.pc = "insert", !.row = x])
  /\ UNCHANGED <<db, fresh, aborts, externals>>

\* The INSERTs wait for another registration of the reference and for the lock
\* of the session's row.  If the other one committed, its row is returned.
RegisterInsert(t) ==
  LET x == txn[t].row IN
  /\ txn[t].pc = "insert"
  /\ \A u \in Txn : ~(txn[u].pc = "inserted" /\ txn[u].row = x)
  /\ \/ status[x] # "none" /\ Set(t, Idle)
     \/ /\ status[x] = "none"
        /\ x \in Sub => \A u \in Txn : ~Held(u, Parent[x])
        /\ Set(t, [txn[t] EXCEPT !.pc = "inserted"])
  /\ UNCHANGED <<db, fresh, aborts, externals>>

RegisterCommit(t) ==
  LET x == txn[t].row IN
  /\ txn[t].pc = "inserted"
  /\ status' = [status EXCEPT ![x] = "open"]
  /\ task' = [task EXCEPT ![x] = "queued"]
  /\ mission' = IF x \in Session THEN [mission EXCEPT ![x] = "running"] ELSE mission
  /\ fresh' = [fresh EXCEPT ![x] = TRUE]
  /\ Set(t, Idle)
  /\ UNCHANGED <<outcome, closure, aborts, externals>>

\* PATCH without an outcome.  (That of a closed subagent is never read again.)
Heartbeat(x) ==
  /\ status[x] \in (IF x \in Session THEN {"open", "ended"} ELSE {"open"})
  /\ \A u \in Txn : ~Held(u, x)
  /\ fresh' = [fresh EXCEPT ![x] = TRUE]
  /\ UNCHANGED <<db, txn, aborts, externals>>

\* The reap window passes without activity.
Silence(x) ==
  /\ fresh' = [fresh EXCEPT ![x] = FALSE]
  /\ UNCHANGED <<db, txn, aborts, externals>>

-----------------------------------------------------------------------------
(***************************************************************************)
(* Closing: close_task, called by a hook, end_session and the reaper.       *)
(***************************************************************************)

\* Variant with a bug: whoever closed it, a later hook stamps the closure.
StampsAny(by, c) == by = "hook" /\ ~c.late

\* A hook's close of what the reaper closed leaves a stamp, once.
Stamps(by, c) == by = "hook" /\ c.by = "reaper" /\ ~c.late

\* The transaction once it holds the subagent's row.
Close(r, a) ==
  CASE closure[a] = NoClosure ->
         [r EXCEPT !.locks = @ \cup {a}, !.closing = @ \cup {a}, !.over = @ \cup Over({a})]
    [] Stamps(r.by, closure[a]) -> [r EXCEPT !.locks = @ \cup {a}, !.late = @ \cup {a}]
    [] OTHER -> [r EXCEPT !.locks = @ \cup {a}]

\* POST .../close: the row is found, locked, and its closure looked up.
HookClose(t, a, result) ==
  /\ txn[t].pc = "idle"
  /\ status[a] # "none"
  /\ Lockable(t, a)
  /\ Set(t, Close([Idle EXCEPT !.pc = "write", !.by = "hook", !.outcome = result], a))
  /\ UNCHANGED <<db, fresh, aborts, externals>>

-----------------------------------------------------------------------------
(***************************************************************************)
(* Ending: end_session, called by PATCH with an outcome and by the reaper.  *)
(***************************************************************************)

\* update_session loads the session without a lock.  The object stays in the
\* identity map, so end_session finds the ended_at of this read.
EndLoad(t, s, result) ==
  /\ txn[t].pc = "idle"
  /\ status[s] # "none"
  /\ Set(t, [Idle EXCEPT !.pc = "lock", !.row = s, !.by = "session_end", !.outcome = result,
                         !.ended = (status[s] = "ended")])
  /\ UNCHANGED <<db, fresh, aborts, externals>>

\* The row is locked, the parent Task loaded, and the open subagents selected.
EndLock(t) ==
  LET r == txn[t]  s == r.row IN
  /\ r.pc = "lock"
  /\ Lockable(t, s)
  /\ Set(t, IF r.ended THEN Idle ELSE
       [r EXCEPT !.pc = "ending", !.locks = {s}, !.ends = {s}, !.over = Over({s}),
                 !.todo = {a \in Sub : Parent[a] = s /\ status[a] = "open"}])
  /\ UNCHANGED <<db, fresh, aborts, externals>>

EndSub(t, a) ==
  /\ txn[t].pc = "ending"
  /\ a \in txn[t].todo
  /\ Lockable(t, a)
  /\ Set(t, [Close(txn[t], a) EXCEPT !.todo = @ \ {a}])
  /\ UNCHANGED <<db, fresh, aborts, externals>>

\* The Missions of the sessions to end are loaded.
EndMission(t) ==
  /\ txn[t].pc = "ending"
  /\ txn[t].todo = {}
  /\ Set(t, [txn[t] EXCEPT !.pc = "write", !.running = {s \in txn[t].ends : mission[s] = "running"}])
  /\ UNCHANGED <<db, fresh, aborts, externals>>

-----------------------------------------------------------------------------
(***************************************************************************)
(* The reaper: stale subagents, then stale sessions without open ones, both *)
(* FOR UPDATE SKIP LOCKED.  batch_size is not reached.                      *)
(***************************************************************************)

\* Variant with a bug: subagents of sessions that have ended are left out.
StaleSubsOfOpen == {a \in Sub : /\ status[a] = "open" /\ status[Parent[a]] = "open"
                                /\ ~fresh[a] /\ ~fresh[Parent[a]]}

StaleSubs == {a \in Sub : status[a] = "open" /\ ~fresh[a] /\ ~fresh[Parent[a]]}

ReapSubs(t) ==
  LET S == {a \in StaleSubs : Lockable(t, a)} IN
  /\ txn[t].pc = "idle"
  /\ Set(t, [Idle EXCEPT !.pc = "reap", !.by = "reaper", !.outcome = "abandoned", !.locks = S,
                         !.closing = {a \in S : closure[a] = NoClosure}, !.over = Over(S)])
  /\ UNCHANGED <<db, fresh, aborts, externals>>

\* The sweep sees its own closes.
StaleSessions(t) ==
  {s \in Session : /\ status[s] = "open" /\ ~fresh[s]
                   /\ \A a \in Sub : Parent[a] = s /\ status[a] = "open" => a \in txn[t].closing}

EndStale(t, S) ==
  /\ txn[t].pc = "reap"
  /\ Set(t, [txn[t] EXCEPT !.pc = "ending", !.locks = @ \cup S, !.ends = S, !.over = @ \cup Over(S)])
  /\ UNCHANGED <<db, fresh, aborts, externals>>

\* Variant with a bug: without SKIP LOCKED the query waits.
ReapSessionsWaiting(t) == EndStale(t, StaleSessions(t)) /\ \A s \in StaleSessions(t) : Lockable(t, s)

ReapSessions(t) == EndStale(t, {s \in StaleSessions(t) : Lockable(t, s)})

-----------------------------------------------------------------------------
\* Variant with a bug: a Task that is still queued is not taken to the target.
AdvanceRunning(t, x, target) == IF task[x] = "running" THEN target ELSE task[x]

\* _advance_task: by way of running, unless the Task was terminal when loaded.
AdvanceTask(t, x, target) == IF x \in txn[t].over THEN task[x] ELSE target

\* Variant with a bug: what the session or the sweep reports is passed on.
CloseOutcomePassedOn(r) == r.outcome

\* A subagent is closed as its hook says; by an end or a sweep, as failed.
CloseOutcome(r) == IF r.by = "hook" THEN r.outcome ELSE "failed"

\* The commit of a close, an end or a sweep.  The unique closure is the backstop.
Commit(t) ==
  LET r == txn[t]
      result == CloseOutcome(r)
      won == {a \in r.closing : closure[a] = NoClosure}
  IN
  /\ r.pc = "write"
  /\ closure' = [a \in Sub |->
       CASE a \in won    -> [by |-> r.by, outcome |-> result, late |-> FALSE]
         [] a \in r.late -> [closure[a] EXCEPT !.late = TRUE]
         [] OTHER        -> closure[a]]
  /\ task' = [x \in Row |->
       CASE x \in won    -> AdvanceTask(t, x, result)
         [] x \in r.ends -> AdvanceTask(t, x, "completed")
         [] OTHER        -> task[x]]
  /\ mission' = [s \in Session |-> IF s \in r.running THEN "completed" ELSE mission[s]]
  /\ status' = [x \in Row |-> IF x \in won \cup r.ends THEN "ended" ELSE status[x]]
  /\ outcome' = [s \in Session |-> IF s \in r.ends THEN r.outcome ELSE outcome[s]]
  /\ Set(t, Idle)
  /\ UNCHANGED <<fresh, aborts, externals>>

\* compute_hook_loss_rate: the closures it counts as lost, of those it counts.
Counted == {a \in Sub : closure[a] # NoClosure}

\* Variant with a bug: a hook that came late is forgotten.
LostToReaper == {a \in Counted : closure[a].by = "reaper"}

Lost == {a \in Counted : closure[a].by = "reaper" /\ ~closure[a].late}

-----------------------------------------------------------------------------
(***************************************************************************)
(* complete-external and fail-external: Task and Mission of any row.        *)
(***************************************************************************)
MissionOf(x) == IF x \in Session THEN x ELSE Parent[x]

ExternalLoad(t, x, result) ==
  /\ txn[t].pc = "idle" /\ aborts + externals < MaxDetours
  /\ status[x] # "none"
  /\ "running" \in TaskTransitions(task[x])
  /\ result \in MissionTransitions(mission[MissionOf(x)])
  /\ externals' = externals + 1
  /\ Set(t, [Idle EXCEPT !.pc = "external", !.row = x, !.outcome = result])
  /\ UNCHANGED <<db, fresh, aborts>>

ExternalCommit(t) ==
  LET r == txn[t] IN
  /\ r.pc = "external"
  /\ task' = [task EXCEPT ![r.row] = r.outcome]
  /\ mission' = [mission EXCEPT ![MissionOf(r.row)] = r.outcome]
  /\ Set(t, Idle)
  /\ UNCHANGED <<status, outcome, closure, fresh, aborts, externals>>

\* A process stops or a statement fails: the transaction is rolled back.
Abort(t) ==
  /\ txn[t].pc # "idle" /\ aborts + externals < MaxDetours
  /\ aborts' = aborts + 1
  /\ Set(t, Idle)
  /\ UNCHANGED <<db, fresh, externals>>

-----------------------------------------------------------------------------
Init ==
  /\ status = [x \in Row |-> "none"] /\ task = [x \in Row |-> "none"]
  /\ outcome = [s \in Session |-> "none"] /\ mission = [s \in Session |-> "none"]
  /\ closure = [a \in Sub |-> NoClosure]
  /\ fresh = [x \in Row |-> FALSE]
  /\ txn = [t \in Txn |-> Idle]
  /\ aborts = 0 /\ externals = 0

\* What a transaction does once it has begun.
Proceed(t) ==
  \/ RegisterInsert(t) \/ RegisterCommit(t)
  \/ EndLock(t) \/ EndMission(t) \/ \E a \in Sub : EndSub(t, a)
  \/ ReapSessions(t) \/ Commit(t) \/ ExternalCommit(t)

Next ==
  \/ \E t \in Request, x \in Row : RegisterLoad(t, x)
  \/ \E t \in Request, a \in Sub, result \in {"completed", "failed"} : HookClose(t, a, result)
  \/ \E t \in Request, s \in Session, result \in Outcome : EndLoad(t, s, result)
  \/ \E t \in Request, x \in Row, result \in {"completed", "failed"} : ExternalLoad(t, x, result)
  \/ \E t \in Reaper : ReapSubs(t)
  \/ \E t \in Txn : Proceed(t) \/ Abort(t)
  \/ \E x \in Row : Heartbeat(x) \/ Silence(x)

\* A request that waits for a lock gets it: the database queues the waiters, so
\* later closers of the row do not starve it.  A sweep never waits, and the
\* worker loop begins one on a timer.
Fairness == /\ \A t \in Request : SF_vars(Proceed(t))
            /\ \A t \in Reaper : WF_vars(Proceed(t)) /\ WF_vars(ReapSubs(t))

Spec == Init /\ [][Next]_vars /\ Fairness

-----------------------------------------------------------------------------
Record ==
  [pc : {"idle", "insert", "inserted", "lock", "ending", "reap", "write", "external"},
   row : Row \cup {None}, by : {"none", "hook", "session_end", "reaper"},
   outcome : {"none", "completed", "failed", "abandoned"}, ended : BOOLEAN,
   locks : SUBSET Row, todo : SUBSET Sub, closing : SUBSET Sub, late : SUBSET Sub,
   ends : SUBSET Session, over : SUBSET Row, running : SUBSET Session]

TypeOK ==
  /\ status \in [Row -> {"none", "open", "ended"}]
  /\ outcome \in [Session -> {"none", "completed", "failed", "abandoned"}]
  /\ task \in [Row -> TaskStatus]
  /\ mission \in [Session -> MissionStatus \cup {"none"}]
  /\ closure \in [Sub -> [by : {"none", "hook", "session_end", "reaper"},
                          outcome : {"none", "completed", "failed"}, late : BOOLEAN]]
  /\ fresh \in [Row -> BOOLEAN]
  /\ txn \in [Txn -> Record]
  /\ {aborts, externals, aborts + externals} \subseteq 0..MaxDetours

\* A row is held by one transaction at a time, and a subagent is closed exactly
\* when it has its closure.  As long as nobody uses complete-external or
\* fail-external, Tasks and Missions say the same: an open row's Task waits, a
\* closed subagent's Task has the closure's outcome, and Mission and parent Task
\* are completed when the session has ended (agent_runtime_closure.py: "the one
\* place a twin Task is ever closed").
Agreement ==
  /\ \A t, u \in Txn : t # u => txn[t].locks \cap txn[u].locks = {}
  /\ \A a \in Sub : status[a] = "ended" <=> closure[a] # NoClosure
  /\ externals = 0 =>
       /\ \A x \in Row : status[x] = "open" <=> task[x] = "queued"
       /\ \A a \in Sub : status[a] = "ended" => task[a] = closure[a].outcome
       /\ \A s \in Session : /\ status[s] = "open" <=> mission[s] = "running"
                             /\ status[s] = "ended" => mission[s] = "completed" /\ task[s] = "completed"

\* What closed a subagent stays on record, under any number of duplicate closes,
\* ends and sweeps; the one thing that may be added is that a hook came after
\* the reaper (T2-F9, late_close_at).
ClosedForGood ==
  [][\A a \in Sub : closure[a] # NoClosure =>
       closure'[a] \in {closure[a]} \cup
         {[closure[a] EXCEPT !.late = TRUE] : c \in {closure[a].by} \cap {"reaper"}}]_vars

\* The hook loss rate counts what was lost: a subagent whose hook was heard, in time or after
\* the reaper and in whatever order the two got to the row, is counted and not as lost, and
\* what is lost was closed by a sweep.
LossIsTrue ==
  [][/\ \A t \in Txn : Commit(t) /\ txn[t].by = "hook" => txn[t].locks \subseteq Counted' \ Lost'
     /\ \A a \in Lost' \ Lost : \E t \in Reaper : Commit(t) /\ a \in txn[t].closing]_vars

\* When a session ends, by PATCH or by the reaper, no subagent that is
\* registered under it stays open (T2-F7).
EndClosesAll ==
  [][\A s \in Session : status[s] = "open" /\ status'[s] = "ended" =>
       \A a \in Sub : Parent[a] = s => status'[a] # "open"]_vars

\* No transaction waits for ever: the row locks form no cycle.
TransactionsEnd == \A t \in Txn : txn[t].pc # "idle" ~> txn[t].pc = "idle"

\* A session from which nothing is heard any more is ended, and every subagent
\* of it is closed, those registered around its end included.
SilentIsReaped ==
  \A s \in Session :
    LET family == {s} \cup {a \in Sub : Parent[a] = s} IN
    (<>[](\A x \in family : ~fresh[x])) => <>[](\A x \in family : status[x] # "open")

\* "A session's end state is set once; later PATCHes cannot overwrite it."
EndStateIsFinal ==
  [][\A s \in Session : status[s] = "ended" => outcome'[s] = outcome[s]]_vars

=============================================================================
