------------------------------ MODULE TaskLease ------------------------------
(***************************************************************************)
(* The lease of one running task in real time: the Redis key and its TTL,   *)
(* the heartbeat of the worker that holds it, and the loop of the workers   *)
(* that poll the queue and sweep for orphans.  TaskExecution says what a    *)
(* task does under its lease; here the question is how long things last.    *)
(*                                                                         *)
(* Time is counted in ticks.  Timers are relative to now, and Tick waits    *)
(* for every step that is due: the event loops run on time (a process that  *)
(* is paused by its host is outside the model, as _heartbeat's docstring    *)
(* says).  Every worker works on this task or is free to.                   *)
(***************************************************************************)
EXTENDS Integers, FiniteSets

CONSTANTS
  Worker,
  TTL, Refresh, Timeout, \* LEASE_TTL_MS, LEASE_REFRESH_SECONDS, LEASE_REFRESH_TIMEOUT_SECONDS
  StartDelay,            \* bound: from acquire to the start of the heartbeat (one row loaded)
  Sweep, Poll,           \* ORPHAN_SWEEP_INTERVAL_SECONDS, the timeout of dequeue_task
  Pause,                 \* what the loop sleeps after a failure
  None, Orphan           \* no token; a token that no worker remembers

ASSUME LeaseAssumption ==
  /\ {TTL, Refresh, Timeout, StartDelay, Sweep, Poll, Pause} \subseteq Nat \ {0}
  /\ Refresh + Timeout < TTL /\ StartDelay < TTL /\ Pause < TTL
  /\ Worker # {} /\ None \notin Worker /\ Orphan \notin Worker /\ None # Orphan

VARIABLES
  owner, left,  \* the key: its token, and how long until it expires
  running,      \* whether the row is running (else it is finished)
  entry,        \* whether the queue holds an entry of the task
  pc, timer,    \* of a worker: what it is doing, and for how long
  ok,           \* of a heartbeat: the time since last_ok
  answer,       \* of a refresh: what Redis has answered, on its way back
  swept,        \* the time since last_sweep
  lapsed,       \* of a worker whose key has expired: for how long it has worked on
  unattended    \* the time since anybody worked on the row or a call last failed

key  == <<owner, left>>
vars == <<key, running, entry, pc, timer, ok, answer, swept, lapsed, unattended>>

Working(w)  == pc[w] \in {"sleeping", "refreshing"}
Attended    == \E w \in Worker : Working(w) \/ pc[w] = "starting"
WorstCycle  == Refresh + Timeout
RecoveryMax == TTL + Sweep + Poll

Becomes(w, state) ==
  /\ pc'    = [pc EXCEPT ![w] = state]
  /\ timer' = [timer EXCEPT ![w] = 0]

\* A worker that stops working on the row, or loses a call, restarts the clock.
Restarts == unattended' = 0

-----------------------------------------------------------------------------
\* A row that somebody ran, with no entry left in the queue.
Init ==
  /\ owner = None /\ left = 0 /\ running = TRUE /\ entry = FALSE
  /\ pc = [w \in Worker |-> "top"] /\ timer = [w \in Worker |-> 0]
  /\ ok = [w \in Worker |-> 0] /\ answer = [w \in Worker |-> "none"]
  /\ swept = [w \in Worker |-> Sweep] /\ lapsed = [w \in Worker |-> 0]
  /\ unattended = 0

\* Variant with a bug: last_sweep is set at every turn of the loop.
SweepPostponed(w) ==
  /\ swept' = [swept EXCEPT ![w] = 0]
  /\ entry' = (entry \/ (swept[w] >= Sweep /\ running /\ owner = None))

\* The orphan sweep, when it is due: enqueue the row if it runs without a lease.
OrphanSweep(w) ==
  IF swept[w] >= Sweep
    THEN /\ swept' = [swept EXCEPT ![w] = 0]
         /\ entry' = (entry \/ (running /\ owner = None))
    ELSE UNCHANGED <<swept, entry>>

\* The top of the loop: sweep if it is due, then poll.
LoopTop(w) ==
  /\ pc[w] = "top"
  /\ OrphanSweep(w)
  /\ Becomes(w, "polling")
  /\ UNCHANGED <<key, running, ok, answer, lapsed, unattended>>

\* The sweep raises; last_sweep was set before it began.
SweepFails(w) ==
  /\ pc[w] = "top" /\ swept[w] >= Sweep
  /\ swept' = [swept EXCEPT ![w] = 0]
  /\ Becomes(w, "polling") /\ Restarts
  /\ UNCHANGED <<key, running, entry, ok, answer, lapsed>>

\* BRPOP returns nothing after its timeout.
PollEmpty(w) ==
  /\ pc[w] = "polling" /\ ~entry /\ timer[w] = Poll
  /\ Becomes(w, "top")
  /\ UNCHANGED <<key, running, entry, ok, answer, swept, lapsed, unattended>>

\* BRPOP returns an entry of another task, which the worker skips at once.
PollOther(w) ==
  /\ pc[w] = "polling" /\ ~entry
  /\ Becomes(w, "top")
  /\ UNCHANGED <<key, running, entry, ok, answer, swept, lapsed, unattended>>

\* dequeue_task raises; the entry may be gone with the answer.
PollFails(w) ==
  /\ pc[w] = "polling"
  /\ entry' \in {entry, FALSE}
  /\ Becomes(w, "pausing") /\ Restarts
  /\ UNCHANGED <<key, running, ok, answer, swept, lapsed>>

Resume(w) ==
  /\ pc[w] = "pausing" /\ timer[w] = Pause
  /\ Becomes(w, "top")
  /\ UNCHANGED <<key, running, entry, ok, answer, swept, lapsed, unattended>>

\* process_task pops the entry, and acquire sets the key unless there is one.
Acquire(w) ==
  /\ pc[w] = "polling" /\ entry
  /\ entry' = FALSE
  /\ IF owner = None
       THEN owner' = w /\ left' = TTL /\ Becomes(w, "starting")
       ELSE UNCHANGED key /\ Becomes(w, "top")
  /\ UNCHANGED <<running, ok, answer, swept, lapsed, unattended>>

\* acquire raises, before or after the key was set; the entry is put back.
AcquireFails(w) ==
  /\ pc[w] = "polling" /\ entry
  /\ \/ UNCHANGED key
     \/ owner = None /\ owner' = Orphan /\ left' = TTL
  /\ Becomes(w, "pausing") /\ Restarts
  /\ UNCHANGED <<running, entry, ok, answer, swept, lapsed>>

-----------------------------------------------------------------------------
\* release, when the worker is done with the row: it may fail.
Release(w) ==
  \/ UNCHANGED key
  \/ owner = w /\ owner' = None /\ left' = 0

Leaves(w) ==
  /\ Release(w)
  /\ Becomes(w, "top") /\ Restarts
  /\ answer' = [answer EXCEPT ![w] = "none"]
  /\ lapsed' = [lapsed EXCEPT ![w] = 0]
  /\ ok'     = [ok EXCEPT ![w] = 0]
  /\ UNCHANGED <<entry, swept>>

\* The row is loaded: run starts the work and its heartbeat, unless it has finished.
Begin(w) ==
  /\ pc[w] = "starting"
  /\ \/ /\ running
        /\ Becomes(w, "sleeping")
        /\ UNCHANGED <<key, running, entry, ok, answer, swept, lapsed, unattended>>
     \/ ~running /\ Leaves(w) /\ UNCHANGED running

\* The work ends: it commits the row's final status, or raises and is rolled back.
WorkEnds(w) ==
  /\ Working(w)
  /\ running' \in {running, FALSE}
  /\ Leaves(w)

Wake(w) ==
  /\ pc[w] = "sleeping" /\ timer[w] = Refresh
  /\ Becomes(w, "refreshing")
  /\ UNCHANGED <<key, running, entry, ok, answer, swept, lapsed, unattended>>

\* Variant with a bug: the TTL is added to what is left of it.
RefreshAdds(w) ==
  /\ pc[w] = "refreshing" /\ answer[w] = "none"
  /\ answer' = [answer EXCEPT ![w] = IF owner = w THEN "yes" ELSE "no"]
  /\ left'   = IF owner = w THEN left + TTL ELSE left
  /\ UNCHANGED <<owner, running, entry, pc, timer, ok, swept, lapsed, unattended>>

\* Redis carries out refresh: it extends the key if the token is the worker's.
RefreshArrives(w) ==
  /\ pc[w] = "refreshing" /\ answer[w] = "none"
  /\ answer' = [answer EXCEPT ![w] = IF owner = w THEN "yes" ELSE "no"]
  /\ left'   = IF owner = w THEN TTL ELSE left
  /\ UNCHANGED <<owner, running, entry, pc, timer, ok, swept, lapsed, unattended>>

\* The answer arrives: True sets last_ok, False ends the work.
RefreshReturns(w) ==
  /\ pc[w] = "refreshing"
  /\ \/ /\ answer[w] = "yes"
        /\ Becomes(w, "sleeping")
        /\ ok'     = [ok EXCEPT ![w] = 0]
        /\ answer' = [answer EXCEPT ![w] = "none"]
        /\ UNCHANGED <<key, running, entry, swept, lapsed, unattended>>
     \/ answer[w] = "no" /\ Leaves(w) /\ UNCHANGED running

\* Variant with a bug: the next check may come after the key has expired.
GivesUpLate(w) == ok[w] + Refresh >= TTL

\* Whether a heartbeat that could not refresh gives up.
GivesUp(w) == ok[w] + WorstCycle >= TTL

\* refresh raises or times out, whatever Redis did: sleep again, or give up.
RefreshFails(w) ==
  /\ pc[w] = "refreshing"
  /\ \/ GivesUp(w) /\ Leaves(w) /\ UNCHANGED running
     \/ /\ ~GivesUp(w)
        /\ Becomes(w, "sleeping")
        /\ answer' = [answer EXCEPT ![w] = "none"]
        /\ UNCHANGED <<key, running, entry, ok, swept, lapsed, unattended>>

-----------------------------------------------------------------------------
\* A crash leaves the key to its TTL.  Another worker stays up.
Crash(w) ==
  /\ pc[w] # "down"
  /\ \E v \in Worker \ {w} : pc[v] # "down"
  /\ Becomes(w, "down")
  /\ \/ pc[w] = "polling" /\ entry' = FALSE /\ Restarts
     \/ pc[w] \in {"top", "polling", "pausing"} /\ UNCHANGED <<entry, unattended>>
     \/ pc[w] \in {"starting", "sleeping", "refreshing"} /\ UNCHANGED entry /\ Restarts
  /\ answer' = [answer EXCEPT ![w] = "none"]
  /\ lapsed' = [lapsed EXCEPT ![w] = 0]
  /\ ok'     = [ok EXCEPT ![w] = 0]
  /\ swept'  = [swept EXCEPT ![w] = Sweep]
  /\ UNCHANGED <<key, running>>

\* A worker starts with a sweep.
Restart(w) ==
  /\ pc[w] = "down"
  /\ Becomes(w, "top")
  /\ UNCHANGED <<key, running, entry, ok, answer, swept, lapsed, unattended>>

\* What a worker must do before more time may pass.
Limit(w) ==
  CASE pc[w] = "top" -> 0
    [] pc[w] = "polling" -> IF entry THEN 0 ELSE Poll
    [] pc[w] = "pausing" -> Pause
    [] pc[w] = "starting" -> StartDelay
    [] pc[w] = "sleeping" -> Refresh
    [] pc[w] = "refreshing" -> Timeout
    [] OTHER -> TTL

Count(n, max) == IF n < max THEN n + 1 ELSE n

Tick ==
  /\ \A w \in Worker : timer[w] < Limit(w)
  /\ left'   = IF left = 0 THEN 0 ELSE left - 1
  /\ owner'  = IF left' = 0 THEN None ELSE owner
  /\ timer'  = [w \in Worker |-> IF pc[w] = "down" THEN 0 ELSE timer[w] + 1]
  /\ ok'     = [w \in Worker |-> IF Working(w) THEN ok[w] + 1 ELSE 0]
  /\ swept'  = [w \in Worker |-> Count(swept[w], Sweep)]
  /\ lapsed' = [w \in Worker |-> IF Working(w) /\ owner # w THEN lapsed[w] + 1 ELSE 0]
  /\ unattended' = IF running /\ ~Attended THEN Count(unattended, RecoveryMax) ELSE 0
  /\ UNCHANGED <<running, entry, pc, answer>>

Step(w) ==
  \/ LoopTop(w) \/ SweepFails(w) \/ PollEmpty(w) \/ PollOther(w) \/ PollFails(w) \/ Resume(w)
  \/ Acquire(w) \/ AcquireFails(w) \/ Begin(w) \/ WorkEnds(w) \/ Wake(w)
  \/ RefreshArrives(w) \/ RefreshReturns(w) \/ RefreshFails(w)
  \/ Crash(w) \/ Restart(w)

Next == Tick \/ \E w \in Worker : Step(w)

Spec == Init /\ [][Next]_vars

-----------------------------------------------------------------------------
\* The values each variable takes.
TypeOK ==
  /\ owner \in Worker \cup {None, Orphan} /\ left \in 0..TTL
  /\ running \in BOOLEAN /\ entry \in BOOLEAN
  /\ pc \in [Worker -> {"top", "polling", "pausing", "starting", "sleeping", "refreshing", "down"}]
  /\ timer \in [Worker -> Nat] /\ ok \in [Worker -> Nat]
  /\ answer \in [Worker -> {"none", "yes", "no"}]
  /\ swept \in [Worker -> 0..Sweep] /\ lapsed \in [Worker -> Nat] /\ unattended \in 0..RecoveryMax

Slack == IF Timeout > StartDelay THEN Timeout ELSE StartDelay

\* A worker whose key has expired stops before one refresh timeout (or one start delay) has
\* passed: _heartbeat counts from the answer of the last refresh, not from the moment Redis
\* extended the key, so it may outlive the key by the time that answer took, and by no more.
OutlivesBriefly ==
  \A w \in Worker : Working(w) => owner = w \/ lapsed[w] < Slack

\* A running row that nobody works on is taken up again within the TTL, the sweep interval and
\* one poll, counted from the last failure: the bound that lease.py's docstring gives for the
\* recovery after a crash, plus the poll that the loop may have just begun when a sweep is due.
RecoveredInTime == unattended < RecoveryMax
=============================================================================
